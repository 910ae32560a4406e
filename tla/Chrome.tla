-------------------------------- MODULE Chrome --------------------------------
(***************************************************************************)
(* The browser's own interface: tabs with their address bar, find bar,      *)
(* developer tools and media controls, and the history between pages. Every  *)
(* tab's state is about the page it shows, but the page is replaced when a   *)
(* reply arrives, not when the user asks for it: whatever happens in between *)
(* happens to the old page. Operators take a tab to a tab, or to the set of  *)
(* tabs it may become; an event applies one to the active tab.               *)
(***************************************************************************)
EXTENDS Integers, FiniteSetsExt, SequencesExt

CONSTANTS
  Remote,    \* pages of the web
  Local,     \* about: pages, built by the browser itself
  Home,      \* the one a new tab shows
  TextOf,    \* length of each page's address
  Height,    \* how much longer than the window each page is
  Panel,     \* how much of the window the developer tools take
  Spots,     \* where on each page the query is found
  Duration,  \* of a page's sound
  MaxText, MaxTabs, MaxEvents \* bounds

ASSUME ChromeAssumption ==
  /\ Home \in Local /\ Local \cap Remote = {}
  /\ TextOf \in [Local \cup Remote -> 1 .. MaxText]
  /\ Height \in [Local \cup Remote -> Int]
  /\ Spots \in [Local \cup Remote -> Seq(Nat)]
  /\ MaxText \in Nat /\ MaxTabs \in Nat \ {0} /\ MaxEvents \in Nat
  /\ Panel \in Nat /\ Duration \in Nat

VARIABLES tabs, active, events

vars == <<tabs, active, events>>

-----------------------------------------------------------------------------
(* A tab                                                                   *)

Pages == Local \cup Remote

None == [url |-> Home, restore |-> -1, busy |-> FALSE]
Load(u, s) == [url |-> u, restore |-> s, busy |-> TRUE]

\* What a tab keeps about its page. Each is absent ("none"), of the page it
\* shows ("own"), or was made while another page was on its way ("late"); once
\* that other page is shown these become "stale" and "left".
Kinds   == {"matches", "log", "snapshot", "selected", "pcm", "stream", "dials"}
Nothing == [k \in Kinds |-> "none"]

Paused == [playing |-> FALSE, muted |-> FALSE, time |-> 0]

Blank(u, isLive) ==
  [url |-> u, live |-> isLive, scroll |-> 0, back |-> <<>>, fwd |-> <<>>, pending |-> None,
   text |-> TextOf[u], cursor |-> TextOf[u], sel |-> <<>>, editing |-> FALSE,
   finding |-> FALSE, query |-> 0, spots |-> <<>>, at |-> 0,
   open |-> FALSE, panel |-> "console", console |-> FALSE, typed |-> 0, picking |-> FALSE,
   field |-> FALSE, outlined |-> FALSE,
   muted |-> FALSE, position |-> 0, heard |-> 0, tick |-> FALSE, shown |-> Paused,
   failed |-> FALSE, made |-> Nothing]

Has(t, k) == t.made[k] # "none"

Mark(t, ks, colour) ==
  [t EXCEPT !.made = [k \in Kinds |-> IF k \in ks THEN colour ELSE t.made[k]]]

\* The console only grows.
Make(t, k) ==
  IF k = "log" /\ Has(t, k) THEN t
  ELSE Mark(t, {k}, IF t.pending.busy THEN "late" ELSE "own")

Forget(t, ks) == Mark(t, ks, "none")

Aged(made) ==
  [k \in Kinds |-> CASE made[k] = "own"  -> "stale"
                     [] made[k] = "late" -> "left"
                     [] OTHER            -> made[k]]

\* An error page is short and has nothing to find.
IsUp(t) == t.live \/ t.url \in Local

MaxScroll(t) ==
  IF IsUp(t) THEN Max({0, Height[t.url] + (IF t.open THEN Panel ELSE 0)}) ELSE 0

ClampScroll(t) == [t EXCEPT !.scroll = Min({@, MaxScroll(t)})]

-----------------------------------------------------------------------------
(* The address bar                                                         *)

\* Variant: a new text leaves the selection alone.
SetTextOnly(t, n) == [t EXCEPT !.text = n, !.cursor = n]

SetText(t, n) == [t EXCEPT !.text = n, !.cursor = n, !.sel = <<>>]

DeleteSelection(t) ==
  IF t.sel = <<>> THEN t
  ELSE [t EXCEPT !.text = @ - (t.sel[2] - t.sel[1]), !.cursor = t.sel[1], !.sel = <<>>]

Insert(t) ==
  LET u == DeleteSelection(t) IN [u EXCEPT !.text = @ + 1, !.cursor = @ + 1]

Rub(t) ==
  CASE t.sel # <<>>                  -> DeleteSelection(t)
    [] t.sel = <<>> /\ t.cursor > 0  -> [t EXCEPT !.text = @ - 1, !.cursor = @ - 1]
    [] t.sel = <<>> /\ t.cursor = 0  -> t

Move(t, key) ==
  [t EXCEPT !.sel = <<>>,
            !.cursor = CASE key = "left"  -> Max({0, @ - 1})
                         [] key = "right" -> Min({@ + 1, t.text})
                         [] key = "home"  -> 0
                         [] key = "end"   -> t.text]

CancelEdit(t) ==
  IF t.editing THEN SetText([t EXCEPT !.editing = FALSE], TextOf[t.url]) ELSE t

-----------------------------------------------------------------------------
(* Find in page                                                            *)

ExitFind(t) ==
  Forget([t EXCEPT !.finding = FALSE, !.query = 0, !.spots = <<>>, !.at = 0], {"matches"})

ScrollToMatch(t) ==
  IF t.spots = <<>> THEN t
  ELSE ClampScroll([t EXCEPT !.scroll = t.spots[t.at + 1]])

RefreshFind(t) ==
  LET found == IF t.query > 0 /\ IsUp(t) THEN Spots[t.url] ELSE <<>>
      u     == [t EXCEPT !.spots = found, !.at = 0]
  IN ScrollToMatch(IF found = <<>> THEN Forget(u, {"matches"}) ELSE Make(u, "matches"))

\* FindNext is Turn(t, 1), FindPrevious Turn(t, -1).
Turn(t, by) ==
  IF t.spots = <<>> THEN t
  ELSE ScrollToMatch([t EXCEPT !.at = (@ + Len(t.spots) + by) % Len(t.spots)])

-----------------------------------------------------------------------------
(* Leaving a page                                                          *)

StopMedia(t) ==
  Forget([t EXCEPT !.muted = FALSE, !.position = 0, !.heard = 0, !.tick = FALSE, !.failed = FALSE],
         {"pcm", "stream", "dials"})

\* Variant: the node selected in the tree stays selected.
ResetTools(t) ==
  Forget([t EXCEPT !.typed = 0, !.console = FALSE, !.picking = FALSE], {"log", "snapshot"})

ResetDevtools(t) ==
  Forget([t EXCEPT !.typed = 0, !.console = FALSE, !.picking = FALSE],
         {"log", "snapshot", "selected"})

Leave(t) == ResetDevtools(StopMedia(ExitFind(t)))

\* Another document takes the place of the one shown.
Replace(t, u, isLive) ==
  SetText([t EXCEPT !.url = u, !.live = isLive, !.made = Aged(t.made), !.shown = Paused,
                    !.scroll = 0], TextOf[u])

LoadLocal(t, u) == Replace(Leave(t), u, FALSE)

Record(t) == [t EXCEPT !.back = Append(@, <<t.url, t.scroll>>), !.fwd = <<>>]

\* The reply: the page, or an error page in its place.
Arrived(t, u, s, ok) ==
  [Replace(t, u, ok) EXCEPT !.scroll = s, !.field = FALSE, !.outlined = FALSE]

\* When the renderer process cannot be started the outcome is there at once,
\* and an older load stays pending.
Begin(t, u, s) ==
  {[Leave(t) EXCEPT !.pending = Load(u, s)], ClampScroll(Arrived(Leave(t), u, 0, FALSE))}

Navigate(t, u) == Begin(Record(t), u, 0)

GoTo(t, u, s) ==
  IF u \in Local THEN {ClampScroll([LoadLocal(t, u) EXCEPT !.scroll = s])} ELSE Begin(t, u, s)

\* Variant: the page that is left is remembered at its top.
BackToTop(t) ==
  IF t.back = <<>> THEN {t}
  ELSE GoTo([t EXCEPT !.back = Front(@), !.fwd = Append(@, <<t.url, 0>>)],
            Last(t.back)[1], Last(t.back)[2])

GoBack(t) ==
  IF t.back = <<>> THEN {t}
  ELSE GoTo([t EXCEPT !.back = Front(@), !.fwd = Append(@, <<t.url, t.scroll>>)],
            Last(t.back)[1], Last(t.back)[2])

GoForward(t) ==
  IF t.fwd = <<>> THEN {t}
  ELSE GoTo([t EXCEPT !.fwd = Front(@), !.back = Append(@, <<t.url, t.scroll>>)],
            Last(t.fwd)[1], Last(t.fwd)[2])

Reload(t) == GoTo(t, t.url, t.scroll)

-----------------------------------------------------------------------------
(* Sound                                                                   *)

\* What the renderer is told, and shows.
Report(t, isPlaying) ==
  IF ~ t.live THEN t
  ELSE [t EXCEPT !.shown = [playing |-> isPlaying, muted |-> t.muted, time |-> t.position],
                 !.failed = FALSE]

\* The position and the mute switch are kept in the tab.
Stop(t) ==
  IF Has(t, "stream") THEN Make(Forget([t EXCEPT !.position = t.heard], {"stream"}), "dials") ELSE t

Pause(t) == Report(Stop(t), FALSE)

\* The PCM is fetched once; there may be none.
Fetched(t) ==
  CASE Has(t, "pcm")               -> {t}
    [] ~ Has(t, "pcm") /\ t.live   -> {Make(t, "pcm")}
    [] ~ Has(t, "pcm") /\ ~ t.live -> {}

\* A stream begins where the last one left off.
StartPlayback(t) == Make([t EXCEPT !.heard = t.position], "stream")

\* The audio device may refuse.
Play(t) ==
  {Report([StartPlayback(u) EXCEPT !.tick = TRUE], TRUE) : u \in Fetched(t)}
    \cup Fetched(t) \cup {t}

Toggle(t) == IF Has(t, "stream") THEN {Pause(t)} ELSE Play(t)

Mute(t) == Report(Make([t EXCEPT !.muted = ~ @], "dials"), Has(t, "stream"))

\* The stream is dropped where it is; what played plays on from the new place.
Jumped(t, to) ==
  Make(Forget([t EXCEPT !.position = to, !.failed = Has(t, "stream")], {"stream"}), "dials")

Sought(t, to) ==
  IF Has(t, "stream") THEN Play(Jumped(t, to)) ELSE {Report(Jumped(t, to), FALSE)}

Seek(t, to) ==
  {u \in {t} : Fetched(t) = {} \/ ~ Has(t, "pcm")}
    \cup UNION {Sought(u, to) : u \in Fetched(t)}

Ended(t) == Has(t, "stream") /\ t.heard = Duration

\* Variant: the tick is not rescheduled while something plays.
ProgressOnce(t) ==
  IF Has(t, "stream") /\ ~ Ended(t)
  THEN {Report([t EXCEPT !.position = h, !.heard = h, !.tick = FALSE], TRUE) : h \in t.heard .. Duration}
  ELSE {IF Ended(t) THEN Pause([t EXCEPT !.tick = FALSE]) ELSE [t EXCEPT !.tick = FALSE]}

\* The position is read after the test for the end; the audio thread goes on.
Progress(t) ==
  IF Has(t, "stream") /\ ~ Ended(t)
  THEN {Report([t EXCEPT !.position = h, !.heard = h], TRUE) : h \in t.heard .. Duration}
  ELSE {IF Ended(t) THEN Pause([t EXCEPT !.tick = FALSE]) ELSE [t EXCEPT !.tick = FALSE]}

-----------------------------------------------------------------------------
(* Focus and replies                                                       *)

\* Any reply of the renderer may bring console messages (those that come with
\* the answer to a Blur are left to Wake).
Rendered(t) == IF t.live THEN {t, Make(t, "log")} ELSE {t}

Blur(t) == IF t.field THEN [t EXCEPT !.field = FALSE, !.outlined = FALSE] ELSE t

\* The focus follows the tree the renderer sent back.
Focused(t) ==
  UNION {{[u EXCEPT !.outlined = FALSE, !.field = FALSE], [u EXCEPT !.outlined = TRUE, !.field = FALSE],
          [u EXCEPT !.outlined = TRUE, !.field = TRUE]} : u \in Rendered(t)}

\* A link or a form of the page is followed, or nothing is.
Follow(t) == {t} \cup UNION {Navigate(t, u) : u \in Remote}

ActivateFocus(t) == IF t.live THEN UNION {Follow(u) : u \in Focused(t)} ELSE {t}

ToPage(t) == Rendered(t) \cup UNION {Navigate(t, u) : u \in Remote}

RefreshSnapshot(t) ==
  IF t.live THEN {Make(t, "snapshot"), Forget(t, {"snapshot"})} ELSE {Forget(t, {"snapshot"})}

TakeConsole(t) ==
  LET u == CancelEdit(Blur(t)) IN
  [(IF u.finding THEN ExitFind(u) ELSE u) EXCEPT !.console = TRUE]

EnterFind(t) == [Blur(CancelEdit(t)) EXCEPT !.console = FALSE, !.finding = TRUE]

-----------------------------------------------------------------------------
(* What the user does                                                      *)

Tab == tabs[active]

Event(ts) ==
  /\ events < MaxEvents
  /\ events' = events + 1
  /\ \E t \in ts : tabs' = [tabs EXCEPT ![active] = t]
  /\ UNCHANGED active

\* Where a typed character goes
Mode(t) ==
  CASE t.console                                                   -> "console"
    [] ~ t.console /\ t.finding                                    -> "find"
    [] ~ t.console /\ ~ t.finding /\ t.editing                     -> "bar"
    [] ~ t.console /\ ~ t.finding /\ ~ t.editing /\ t.field         -> "field"
    [] ~ t.console /\ ~ t.finding /\ ~ t.editing /\ ~ t.field /\ t.outlined -> "outline"
    [] OTHER                                                       -> "page"

CharTyped ==
  LET t == Tab IN
  \/ Mode(t) = "console" /\ Event({[t EXCEPT !.typed = 1]})
  \/ Mode(t) = "find" /\ Event({RefreshFind([t EXCEPT !.query = 1])})
  \/ Mode(t) = "bar" /\ DeleteSelection(t).text < MaxText /\ Event({Insert(t)})
  \/ Mode(t) = "field" /\ Event(Rendered(t))
  \/ Mode(t) = "outline" /\ Event(ActivateFocus(t))

Backspace ==
  LET t == Tab IN
  \/ Mode(t) = "console" /\ Event({[t EXCEPT !.typed = 0]})
  \/ Mode(t) = "find" /\ Event({RefreshFind([t EXCEPT !.query = 0])})
  \/ Mode(t) = "bar" /\ Event({Rub(t)})
  \/ Mode(t) = "field" /\ Event(Rendered(t))

\* The arrows do not ask about the find bar.
Arrow ==
  \/ Tab.editing /\ \E key \in {"left", "right", "home", "end"} : Event({Move(Tab, key)})
  \/ ~ Tab.editing /\ Tab.field /\ Event(Rendered(Tab))

\* What can be typed: a command, or an address.
Entered(t) ==
  {SetText(t, TextOf[t.url])}
    \cup {LoadLocal(Record(t), u) : u \in Local}
    \cup {SetText(u, TextOf[u.url]) : u \in GoBack(t) \cup GoForward(t)}
    \cup UNION {Navigate(t, u) : u \in Remote}

Enter ==
  LET t == Tab IN
  \/ Mode(t) = "console" /\ Event(Rendered([t EXCEPT !.typed = 0]))
  \/ Mode(t) = "find" /\ Event({Turn(t, 1)})
  \/ Mode(t) = "bar" /\ Event(Entered([t EXCEPT !.editing = FALSE]))
  \/ Mode(t) = "field" /\ Event(ToPage(t))
  \/ Mode(t) = "outline" /\ Event(ActivateFocus(t))

Escape ==
  LET t == Tab IN
  \/ Mode(t) = "console" /\ Event({[t EXCEPT !.console = FALSE]})
  \/ Mode(t) = "find" /\ Event({ExitFind(t)})
  \/ Mode(t) = "bar" /\ Event({CancelEdit(t)})
  \/ Mode(t) = "field" /\ Event({Blur(t)})

NavigateBack    == Event(GoBack([Tab EXCEPT !.editing = FALSE]))
NavigateForward == Event(GoForward([Tab EXCEPT !.editing = FALSE]))
ReloadKey       == Event(Reload([Tab EXCEPT !.editing = FALSE]))
Find            == Event({EnterFind(Tab)})
FindPrevious    == Tab.finding /\ Event({Turn(Tab, -1)})

FocusMove ==
  /\ ~ (Tab.editing \/ Tab.finding \/ Tab.console) /\ Tab.live
  /\ Event({ClampScroll(t) : t \in Focused(Tab)})

Scroll ==
  /\ ~ Tab.open
  /\ \E by \in {-1, 1} : Event({ClampScroll([Tab EXCEPT !.scroll = Max({0, @ + by})])})

ToggleDevTools ==
  LET t == [Tab EXCEPT !.open = ~ @] IN
  Event({ClampScroll(u) :
           u \in IF ~ t.open THEN {[t EXCEPT !.console = FALSE, !.picking = FALSE]}
                 ELSE IF t.panel = "elements" THEN RefreshSnapshot(t) ELSE {t}})

\* Above the page: the buttons, and the bar.
ClickButton ==
  LET t == [Blur(Tab) EXCEPT !.console = FALSE, !.editing = FALSE] IN
  Event(GoBack(t) \cup GoForward(t) \cup Reload(t) \cup {t, LoadLocal(Record(t), Home)})

ClickBar ==
  LET t == [Blur(Tab) EXCEPT !.console = FALSE] IN
  \/ t.editing /\ \E i \in 0 .. t.text : Event({[t EXCEPT !.cursor = i, !.sel = <<>>]})
  \/ ~ t.editing /\ Event({[t EXCEPT !.editing = TRUE, !.cursor = t.text,
                                   !.sel = IF t.text > 0 THEN <<0, t.text>> ELSE <<>>]})

\* Inside the developer tools
ClickTools ==
  LET t == Tab IN
  /\ t.open
  /\ \/ Event({[t EXCEPT !.panel = "console"]} \cup RefreshSnapshot([t EXCEPT !.panel = "elements"]))
     \/ t.panel = "elements" /\ Event({[t EXCEPT !.picking = TRUE]})
     \/ t.panel = "elements" /\ Has(t, "snapshot") /\ Event({Make(t, "selected")})
     \/ t.panel = "console" /\ Event({TakeConsole(t), [t EXCEPT !.console = FALSE]})

\* On the page: picking comes first, then the media controls, the browser's own
\* links, and the page.
ClickPage ==
  LET t == [CancelEdit(Tab) EXCEPT !.console = FALSE] IN
  \/ t.picking /\ Event({Make([t EXCEPT !.picking = FALSE], "selected"), [t EXCEPT !.picking = FALSE]})
  \/ ~ t.picking /\ ~ t.live
     /\ Event(IF t.url \in Local THEN {LoadLocal(t, t.url)} \cup Follow(Blur(t)) ELSE {Blur(t)})
  \/ /\ ~ t.picking /\ t.live
     /\ Event(UNION {ToPage(u) : u \in {Blur(t), [t EXCEPT !.field = TRUE, !.outlined = TRUE]}})

ClickMedia ==
  LET t == [CancelEdit(Tab) EXCEPT !.console = FALSE] IN
  /\ ~ t.picking /\ t.live
  /\ Event(Toggle(t) \cup {Mute(t)} \cup UNION {Seek(t, p) : p \in 0 .. Duration})

NewTab ==
  /\ events < MaxEvents /\ Len(tabs) < MaxTabs
  /\ events' = events + 1
  /\ tabs' = Append(tabs, Blank(Home, FALSE))
  /\ active' = Len(tabs')

CloseTab(i) ==
  /\ events < MaxEvents /\ Len(tabs) > 1
  /\ events' = events + 1
  /\ tabs' = RemoveAt(tabs, i)
  /\ active' = IF active > Len(tabs') THEN Len(tabs') ELSE IF active > i THEN active - 1 ELSE active

SwitchTo(i) ==
  /\ events < MaxEvents /\ i # active
  /\ events' = events + 1
  /\ active' = i
  /\ UNCHANGED tabs

-----------------------------------------------------------------------------
(* What comes in by itself                                                 *)

Arrive(i) ==
  LET load  == tabs[i].pending
      t(ok) == Arrived([tabs[i] EXCEPT !.pending = None], load.url, load.restore, ok)
  IN /\ load.busy
     /\ \E ok \in BOOLEAN :
          tabs' = [tabs EXCEPT ![i] = IF i = active THEN ClampScroll(t(ok)) ELSE t(ok)]
     /\ UNCHANGED <<active, events>>

\* A timer of the page was due.
Wake(i) ==
  /\ tabs[i].live
  /\ tabs' = [tabs EXCEPT ![i] = Make(tabs[i], "log")]
  /\ UNCHANGED <<active, events>>

\* The audio thread plays on; the position is read by the progress tick.
Sound(i) ==
  /\ Has(tabs[i], "stream") /\ tabs[i].heard < Duration
  /\ tabs' = [tabs EXCEPT ![i].heard = @ + 1]
  /\ UNCHANGED <<active, events>>

MediaTick(i) ==
  /\ tabs[i].tick
  /\ \E t \in Progress(tabs[i]) : tabs' = [tabs EXCEPT ![i] = t]
  /\ UNCHANGED <<active, events>>

User ==
  \/ CharTyped \/ Backspace \/ Arrow \/ Enter \/ Escape
  \/ NavigateBack \/ NavigateForward \/ ReloadKey
  \/ Find \/ FindPrevious \/ FocusMove \/ Scroll \/ ToggleDevTools
  \/ ClickButton \/ ClickBar \/ ClickTools \/ ClickPage \/ ClickMedia
  \/ NewTab \/ \E i \in DOMAIN tabs : CloseTab(i) \/ SwitchTo(i)

Next ==
  \/ User
  \/ \E i \in DOMAIN tabs : Arrive(i) \/ Wake(i) \/ Sound(i) \/ MediaTick(i)

\* The browser starts on its own page, or on the page it was started with.
Init ==
  /\ \/ tabs = <<Blank(Home, FALSE)>>
     \/ \E u \in Remote, ok \in BOOLEAN : tabs = <<Blank(u, ok)>>
  /\ active = 1 /\ events = 0

Spec == Init /\ [][Next]_vars

-----------------------------------------------------------------------------
(* Properties                                                              *)

(* The cursor and the selection of the address bar are inside its text,     *)
(* although a late reply, Back, or a reload replaces the text while it is    *)
(* being edited (set_address_bar_text).                                      *)
AddressBarOK ==
  \A i \in DOMAIN tabs : LET t == tabs[i] IN
    /\ t.text \in 0 .. MaxText /\ t.cursor \in 0 .. t.text
    /\ t.sel = <<>> \/ (0 <= t.sel[1] /\ t.sel[1] < t.sel[2] /\ t.sel[2] <= t.text)

(* What a tab keeps about a page (search results, console, tree, selected   *)
(* node, sound) is forgotten with it, whichever way the page is left: the    *)
(* only things to outlive their page were made while its successor was on    *)
(* its way.                                                                  *)
LeftoversAreLate ==
  \A i \in DOMAIN tabs, k \in Kinds : tabs[i].made[k] # "stale"

Settled(ts) ==
  UNION {IF t.pending.busy
         THEN {ClampScroll(Arrived([t EXCEPT !.pending = None], t.pending.url, t.pending.restore, TRUE))}
         ELSE {t} : t \in ts}

(* Back, and Forward once the page is there, lead to the address, the place *)
(* on the page and the history one came from.                               *)
HistoryRoundTrip ==
  LET t == Tab IN
  (~ t.pending.busy /\ t.back # <<>>) =>
    \A b \in Settled({x \in GoBack(t) : x.pending.busy \/ x.url \in Local}) :
      \A f \in Settled({x \in GoForward(b) : x.pending.busy \/ x.url \in Local}) :
        /\ f.url = t.url /\ f.fwd = t.fwd
        /\ f.scroll = Min({t.scroll, MaxScroll(f)})
        /\ [j \in DOMAIN f.back |-> f.back[j][1]] = [j \in DOMAIN t.back |-> t.back[j][1]]

(* A page with sound shows what is heard: while a stream is alive the page  *)
(* shows it playing and the next progress tick is due, and the mute switch   *)
(* and the time shown are those of the tab, paused or not. Exempt are a     *)
(* page about to be replaced (its sound has been stopped), a sound that      *)
(* outlived its page, and one whose device refused to go on after a seek:    *)
(* of these nobody tells the page.                                           *)
PlaybackAgrees ==
  \A i \in DOMAIN tabs : LET t == tabs[i] IN
    (t.live /\ ~ t.pending.busy /\ ~ t.failed /\ \A k \in {"pcm", "stream", "dials"} : t.made[k] # "left") =>
      /\ Has(t, "stream") <=> t.shown.playing
      /\ Has(t, "stream") => t.tick
      /\ Has(t, "pcm") => t.shown.muted = t.muted /\ t.shown.time = t.position

(* The find bar and the address bar are never in use together (the comment  *)
(* on finding_in_page): a key goes to one of them. A click on the address    *)
(* bar does not close the find bar.                                          *)
OneInputMode == \A i \in DOMAIN tabs : ~ (tabs[i].finding /\ tabs[i].editing)
=============================================================================
