----------------------------- MODULE ChromeProofs -----------------------------
(***************************************************************************)
(* Theorems about Chrome, for any pages, texts, heights and matches, any    *)
(* number of tabs and any number of events: the address bar is sound, what  *)
(* is left of a page was made late, sound is shown as it is heard, and Back *)
(* and Forward lead back. And about Bars, for canvases of any size with room *)
(* for the controls, any number of tabs and any page, tree and console: what *)
(* is seen at a control is what a click there does.                         *)
(***************************************************************************)
EXTENDS Chrome, Bars, TLAPS, SequenceTheorems

-----------------------------------------------------------------------------
(* The inductive invariant                                                 *)

Hists   == Seq(Pages \X Int)
Loads   == [url : Pages, restore : Int, busy : BOOLEAN]
Selections == {<<>>} \cup (Nat \X Nat)
Lists   == Seq(Nat)
Panels  == {"console", "elements"}
Faces   == [playing : BOOLEAN, muted : BOOLEAN, time : Nat]
Colours == {"none", "own", "late", "stale", "left"}
Mades   == [Kinds -> Colours]
Tabs    ==
  [url : Pages, live : BOOLEAN, scroll : Int, back : Hists, fwd : Hists, pending : Loads,
   text : Nat, cursor : Nat, sel : Selections, editing : BOOLEAN,
   finding : BOOLEAN, query : Nat, spots : Lists, at : Nat,
   open : BOOLEAN, panel : Panels, console : BOOLEAN, typed : Nat, picking : BOOLEAN,
   field : BOOLEAN, outlined : BOOLEAN,
   muted : BOOLEAN, position : Nat, heard : Nat, tick : BOOLEAN, shown : Faces,
   failed : BOOLEAN, made : Mades]

\* The cursor and the selection are inside the text; the match shown is one.
BarOK(t) ==
  /\ t.text <= MaxText /\ t.cursor <= t.text
  /\ t.sel # <<>> => t.sel[1] < t.sel[2] /\ t.sel[2] <= t.text
FoundOK(t) == t.spots # <<>> => t.at < Len(t.spots)

\* While a page is on its way, all there is was made since the last one was left.
MadeOK(t) ==
  /\ \A k \in Kinds : t.made[k] # "stale"
  /\ t.pending.busy => \A k \in Kinds : t.made[k] \in {"none", "late"}

\* A stream is of a fetched sound and ticks; what was left was left together; and
\* nothing is set for a sound that was not touched.
Streams(t) ==
  /\ Has(t, "stream") => Has(t, "pcm") /\ t.tick
  /\ t.made["stream"] = "left" => t.made["pcm"] = "left"
  /\ ~ Has(t, "pcm") /\ ~ Has(t, "dials") => ~ t.muted /\ t.position = 0

\* The page shows what is heard, unless its device refused.
Fresh(t) == \A k \in {"pcm", "stream", "dials"} : t.made[k] # "left"
Tells(t) ==
  t.live /\ ~ t.pending.busy /\ Fresh(t) =>
    /\ t.failed => ~ Has(t, "stream")
    /\ ~ t.failed => /\ t.shown.playing = Has(t, "stream")
                     /\ t.shown.muted = t.muted /\ t.shown.time = t.position

\* A tab whose page has not been told yet, and one whose page has
Semi == {t \in Tabs : BarOK(t) /\ FoundOK(t) /\ MadeOK(t) /\ Streams(t)}
Good == {t \in Semi : Tells(t)}

IInv == tabs \in Seq(Good) /\ active \in DOMAIN tabs /\ events \in 0 .. MaxEvents

-----------------------------------------------------------------------------
(* Numbers, and how a tab is put together again                            *)

LEMMA MinTwo == \A x, y \in Int : Min({x, y}) = IF x <= y THEN x ELSE y
<1> TAKE x, y \in Int
<1> DEFINE z == IF x <= y THEN x ELSE y
<1>1. z \in {x, y} /\ \A w \in {x, y} : z <= w
  OBVIOUS
<1>2. \A w \in {x, y} : (\A v \in {x, y} : w <= v) => w = z
  OBVIOUS
<1> QED BY <1>1, <1>2 DEF Min

LEMMA MaxTwo == \A x, y \in Int : Max({x, y}) = IF x >= y THEN x ELSE y
<1> TAKE x, y \in Int
<1> DEFINE z == IF x >= y THEN x ELSE y
<1>1. z \in {x, y} /\ \A w \in {x, y} : z >= w
  OBVIOUS
<1>2. \A w \in {x, y} : (\A v \in {x, y} : w >= v) => w = z
  OBVIOUS
<1> QED BY <1>1, <1>2 DEF Max

LEMMA Constants ==
  /\ MaxText \in Nat /\ MaxEvents \in Nat /\ Panel \in Nat /\ Duration \in Nat
  /\ Home \in Pages /\ Home \in Local /\ Local \subseteq Pages /\ Remote \subseteq Pages
  /\ Pages = Local \cup Remote /\ Local \cap Remote = {}
  /\ \A u \in Pages : TextOf[u] \in 1 .. MaxText /\ TextOf[u] \in Nat /\ TextOf[u] <= MaxText
  /\ \A u \in Pages : Height[u] \in Int /\ Spots[u] \in Lists
BY ChromeAssumption DEF Pages, Lists

LEMMA Kind3 == {"pcm", "stream", "dials"} \subseteq Kinds
BY DEF Kinds

\* A tab that differs from a sound one in nothing that matters here.
Alike(t, u) ==
  /\ u.live = t.live /\ u.pending = t.pending /\ u.made = t.made
  /\ u.text = t.text /\ u.cursor = t.cursor /\ u.sel = t.sel
  /\ u.spots = t.spots /\ u.at = t.at
  /\ u.muted = t.muted /\ u.position = t.position /\ u.tick = t.tick
  /\ u.shown = t.shown /\ u.failed = t.failed

LEMMA AlikeSemi == ASSUME NEW t \in Semi, NEW u \in Tabs, Alike(t, u) PROVE u \in Semi
BY DEF Alike, Semi, BarOK, FoundOK, MadeOK, Streams, Has

LEMMA AlikeGood == ASSUME NEW t \in Good, NEW u \in Tabs, Alike(t, u) PROVE u \in Good
<1>1. u \in Semi
  BY AlikeSemi DEF Good
<1> QED BY <1>1 DEF Alike, Good, Tells, Fresh, Has

LEMMA IsTab == ASSUME NEW t \in Good PROVE t \in Semi /\ t \in Tabs
BY DEF Good, Semi

-----------------------------------------------------------------------------
(* What is kept about a page                                               *)

LEMMA MarkIs ==
  ASSUME NEW t \in Tabs, NEW ks, NEW c \in Colours
  PROVE  LET u == Mark(t, ks, c) IN
         /\ u \in Tabs
         /\ \A k \in Kinds : u.made[k] = IF k \in ks THEN c ELSE t.made[k]
         /\ u = [t EXCEPT !.made = u.made]
<1> DEFINE m == [k \in Kinds |-> IF k \in ks THEN c ELSE t.made[k]]
<1>1. t.made \in Mades
  BY DEF Tabs
<1>2. m \in Mades /\ \A k \in Kinds : m[k] = IF k \in ks THEN c ELSE t.made[k]
  BY <1>1 DEF Mades
<1>3. Mark(t, ks, c) = [t EXCEPT !.made = m]
  BY DEF Mark
<1> HIDE DEF m
<1> QED BY <1>2, <1>3 DEF Tabs

\* What Make and Forget do to the kinds, and that they leave the rest alone
LEMMA MakeIs ==
  ASSUME NEW t \in Tabs, NEW k \in Kinds
  PROVE  LET u == Make(t, k) IN
         /\ u \in Tabs /\ u = [t EXCEPT !.made = u.made]
         /\ \A j \in Kinds \ {k} : u.made[j] = t.made[j]
         /\ \/ u.made[k] = IF t.pending.busy THEN "late" ELSE "own"
            \/ k = "log" /\ u = t
<1>1. CASE k = "log" /\ Has(t, k)
  <2>1. Make(t, k) = t
    BY <1>1 DEF Make
  <2> QED BY <1>1, <2>1 DEF Tabs
<1>2. CASE ~ (k = "log" /\ Has(t, k))
  <2>1. PICK c : c = IF t.pending.busy THEN "late" ELSE "own"
    OBVIOUS
  <2>2. Make(t, k) = Mark(t, {k}, c) /\ c \in Colours
    BY <1>2, <2>1 DEF Make, Colours
  <2> QED BY <2>1, <2>2, MarkIs
<1> QED BY <1>1, <1>2

LEMMA ForgetIs ==
  ASSUME NEW t \in Tabs, NEW ks
  PROVE  LET u == Forget(t, ks) IN
         /\ u \in Tabs /\ u = [t EXCEPT !.made = u.made]
         /\ \A j \in Kinds : u.made[j] = IF j \in ks THEN "none" ELSE t.made[j]
BY MarkIs DEF Forget, Colours

\* A tab whose kinds alone changed
LEMMA MadeSame ==
  ASSUME NEW t \in Tabs, NEW u \in Tabs, u = [t EXCEPT !.made = u.made]
  PROVE  /\ u.live = t.live /\ u.pending = t.pending /\ u.url = t.url /\ u.back = t.back /\ u.fwd = t.fwd
         /\ u.text = t.text /\ u.cursor = t.cursor /\ u.sel = t.sel
         /\ u.spots = t.spots /\ u.at = t.at /\ u.open = t.open /\ u.scroll = t.scroll
         /\ u.muted = t.muted /\ u.position = t.position /\ u.heard = t.heard /\ u.tick = t.tick
         /\ u.shown = t.shown /\ u.failed = t.failed
BY DEF Tabs

Others == {"matches", "log", "snapshot", "selected"}

LEMMA MakeOther == ASSUME NEW t \in Good, NEW k \in Others PROVE Make(t, k) \in Good
<1>1. t \in Tabs /\ k \in Kinds /\ k \notin {"pcm", "stream", "dials"}
  BY IsTab DEF Others, Kinds
<1>2. PICK u : u = Make(t, k)
  OBVIOUS
<1>3. /\ u \in Tabs /\ u = [t EXCEPT !.made = u.made]
      /\ \A j \in Kinds \ {k} : u.made[j] = t.made[j]
      /\ u.made[k] = (IF t.pending.busy THEN "late" ELSE "own") \/ u = t
  BY <1>1, <1>2, MakeIs
<1>4. u.made["pcm"] = t.made["pcm"] /\ u.made["stream"] = t.made["stream"] /\ u.made["dials"] = t.made["dials"]
  BY <1>1, <1>3, Kind3
<1>5. u.live = t.live /\ u.pending = t.pending /\ u.text = t.text /\ u.cursor = t.cursor /\ u.sel = t.sel
  BY <1>1, <1>3, MadeSame
<1>6. u.spots = t.spots /\ u.at = t.at /\ u.muted = t.muted /\ u.position = t.position /\ u.tick = t.tick
  BY <1>1, <1>3, MadeSame
<1>7. u.shown = t.shown /\ u.failed = t.failed
  BY <1>1, <1>3, MadeSame
<1>8. BarOK(u) /\ FoundOK(u)
  BY <1>5, <1>6 DEF Good, Semi, BarOK, FoundOK
<1>9. MadeOK(u)
  BY <1>1, <1>3, <1>5 DEF Good, Semi, MadeOK
<1>10. Streams(u)
  BY <1>4, <1>6 DEF Good, Semi, Streams, Has
<1>11. Tells(u)
  BY <1>4, <1>5, <1>6, <1>7 DEF Good, Tells, Fresh, Has
<1> QED BY <1>2, <1>3, <1>8, <1>9, <1>10, <1>11 DEF Good, Semi

LEMMA ForgetOther == ASSUME NEW t \in Good, NEW ks \in SUBSET Others PROVE Forget(t, ks) \in Good
<1>1. t \in Tabs /\ ks \cap {"pcm", "stream", "dials"} = {}
  BY IsTab DEF Others
<1>2. PICK u : u = Forget(t, ks)
  OBVIOUS
<1>3. /\ u \in Tabs /\ u = [t EXCEPT !.made = u.made]
      /\ \A j \in Kinds : u.made[j] = IF j \in ks THEN "none" ELSE t.made[j]
  BY <1>1, <1>2, ForgetIs
<1>4. u.made["pcm"] = t.made["pcm"] /\ u.made["stream"] = t.made["stream"] /\ u.made["dials"] = t.made["dials"]
  BY <1>1, <1>3, Kind3
<1>5. u.live = t.live /\ u.pending = t.pending /\ u.text = t.text /\ u.cursor = t.cursor /\ u.sel = t.sel
  BY <1>1, <1>3, MadeSame
<1>6. u.spots = t.spots /\ u.at = t.at /\ u.muted = t.muted /\ u.position = t.position /\ u.tick = t.tick
  BY <1>1, <1>3, MadeSame
<1>7. u.shown = t.shown /\ u.failed = t.failed
  BY <1>1, <1>3, MadeSame
<1>8. BarOK(u) /\ FoundOK(u)
  BY <1>5, <1>6 DEF Good, Semi, BarOK, FoundOK
<1>9. MadeOK(u)
  BY <1>1, <1>3, <1>5 DEF Good, Semi, MadeOK
<1>10. Streams(u)
  BY <1>4, <1>6 DEF Good, Semi, Streams, Has
<1>11. Tells(u)
  BY <1>4, <1>5, <1>6, <1>7 DEF Good, Tells, Fresh, Has
<1> QED BY <1>2, <1>3, <1>8, <1>9, <1>10, <1>11 DEF Good, Semi

-----------------------------------------------------------------------------
(* What nothing else depends on                                            *)

LEMMA PlainGood ==
  ASSUME NEW t \in Good, NEW a \in BOOLEAN, NEW b \in BOOLEAN, NEW n \in Nat, NEW p \in Panels
  PROVE  /\ [t EXCEPT !.editing = a] \in Good /\ [t EXCEPT !.console = a] \in Good
         /\ [t EXCEPT !.picking = a] \in Good /\ [t EXCEPT !.open = a] \in Good
         /\ [t EXCEPT !.console = a, !.picking = b] \in Good
         /\ [t EXCEPT !.console = a, !.editing = b] \in Good
         /\ [t EXCEPT !.console = a, !.finding = b] \in Good
         /\ [t EXCEPT !.field = a, !.outlined = b] \in Good
         /\ [t EXCEPT !.outlined = a, !.field = b] \in Good
         /\ [t EXCEPT !.typed = n] \in Good /\ [t EXCEPT !.query = n] \in Good
         /\ [t EXCEPT !.panel = p] \in Good
<1>1. t \in Tabs
  BY IsTab
<1>2. [t EXCEPT !.editing = a] \in Good
  BY <1>1, AlikeGood DEF Tabs, Alike
<1>3. [t EXCEPT !.console = a] \in Good
  BY <1>1, AlikeGood DEF Tabs, Alike
<1>4. [t EXCEPT !.picking = a] \in Good
  BY <1>1, AlikeGood DEF Tabs, Alike
<1>5. [t EXCEPT !.open = a] \in Good
  BY <1>1, AlikeGood DEF Tabs, Alike
<1>6. [t EXCEPT !.console = a, !.picking = b] \in Good
  BY <1>1, AlikeGood, ZenonT(60) DEF Tabs, Alike
<1>7. [t EXCEPT !.console = a, !.editing = b] \in Good
  BY <1>1, AlikeGood, ZenonT(60) DEF Tabs, Alike
<1>8. [t EXCEPT !.console = a, !.finding = b] \in Good
  BY <1>1, AlikeGood, ZenonT(60) DEF Tabs, Alike
<1>9. [t EXCEPT !.field = a, !.outlined = b] \in Good
  BY <1>1, AlikeGood, ZenonT(60) DEF Tabs, Alike
<1>10. [t EXCEPT !.outlined = a, !.field = b] \in Good
  BY <1>1, AlikeGood, ZenonT(60) DEF Tabs, Alike
<1>11. [t EXCEPT !.typed = n] \in Good
  BY <1>1, AlikeGood DEF Tabs, Alike
<1>12. [t EXCEPT !.query = n] \in Good
  BY <1>1, AlikeGood DEF Tabs, Alike
<1>13. [t EXCEPT !.panel = p] \in Good
  BY <1>1, AlikeGood DEF Tabs, Alike
<1> QED BY <1>2, <1>3, <1>4, <1>5, <1>6, <1>7, <1>8, <1>9, <1>10, <1>11, <1>12, <1>13

LEMMA ScrollGood == ASSUME NEW t \in Good, NEW s \in Int PROVE [t EXCEPT !.scroll = s] \in Good
BY IsTab, AlikeGood DEF Tabs, Alike

LEMMA HistoryGood ==
  ASSUME NEW t \in Good, NEW b \in Hists, NEW f \in Hists
  PROVE  [t EXCEPT !.back = b, !.fwd = f] \in Good /\ [t EXCEPT !.fwd = f, !.back = b] \in Good
BY IsTab, AlikeGood, ZenonT(60) DEF Tabs, Alike

LEMMA HeardGood == ASSUME NEW t \in Good, NEW h \in Nat PROVE [t EXCEPT !.heard = h] \in Good
BY IsTab, AlikeGood DEF Tabs, Alike

-----------------------------------------------------------------------------
(* Scrolling                                                               *)

LEMMA MaxScrollIs == ASSUME NEW t \in Tabs PROVE MaxScroll(t) \in Nat
<1>1. t.url \in Pages /\ t.open \in BOOLEAN
  BY DEF Tabs
<1>2. PICK n : n = Height[t.url] + (IF t.open THEN Panel ELSE 0)
  OBVIOUS
<1>3. n \in Int
  BY <1>1, <1>2, Constants
<1>4. Max({0, n}) \in Nat
  BY <1>3, MaxTwo
<1>5. MaxScroll(t) = IF IsUp(t) THEN Max({0, n}) ELSE 0
  BY <1>2 DEF MaxScroll
<1> QED BY <1>4, <1>5

LEMMA ClampIs ==
  ASSUME NEW t \in Tabs
  PROVE  /\ ClampScroll(t) = [t EXCEPT !.scroll = Min({t.scroll, MaxScroll(t)})]
         /\ Min({t.scroll, MaxScroll(t)}) \in Int
         /\ ClampScroll(t) \in Tabs
<1>1. PICK n : n = MaxScroll(t)
  OBVIOUS
<1>2. t.scroll \in Int /\ n \in Int
  BY <1>1, MaxScrollIs DEF Tabs
<1>3. PICK s : s = Min({t.scroll, n})
  OBVIOUS
<1>4. s \in Int
  BY <1>2, <1>3, MinTwo
<1>5. ClampScroll(t) = [t EXCEPT !.scroll = s]
  BY <1>1, <1>3 DEF ClampScroll, Tabs
<1>6. [t EXCEPT !.scroll = s] \in Tabs
  BY <1>4 DEF Tabs
<1> QED BY <1>1, <1>3, <1>4, <1>5, <1>6

LEMMA ClampGood == ASSUME NEW t \in Good PROVE ClampScroll(t) \in Good
<1>1. PICK s : s = Min({t.scroll, MaxScroll(t)})
  OBVIOUS
<1>2. s \in Int /\ ClampScroll(t) = [t EXCEPT !.scroll = s]
  BY <1>1, IsTab, ClampIs
<1> QED BY <1>2, ScrollGood

-----------------------------------------------------------------------------
(* The address bar                                                         *)

\* A tab whose address bar alone changed, to something sound
LEMMA BarGood ==
  ASSUME NEW t \in Good, NEW n \in 0 .. MaxText, NEW c \in 0 .. n, NEW s \in Selections,
         s # <<>> => s[1] < s[2] /\ s[2] <= n
  PROVE  [t EXCEPT !.text = n, !.cursor = c, !.sel = s] \in Good
<1>1. PICK u : u = [t EXCEPT !.text = n, !.cursor = c, !.sel = s]
  OBVIOUS
<1>2. n \in Nat /\ c \in Nat /\ n <= MaxText /\ c <= n
  BY Constants
<1>3. t \in Tabs
  BY IsTab
<1>4. u \in Tabs /\ u.text = n /\ u.cursor = c /\ u.sel = s
  BY <1>1, <1>2, <1>3 DEF Tabs
<1>5. u.live = t.live /\ u.pending = t.pending /\ u.made = t.made /\ u.spots = t.spots /\ u.at = t.at
  BY <1>1, <1>3 DEF Tabs
<1>6. /\ u.muted = t.muted /\ u.position = t.position /\ u.tick = t.tick
      /\ u.shown = t.shown /\ u.failed = t.failed
  BY <1>1, <1>3 DEF Tabs
<1>7. BarOK(u)
  BY <1>2, <1>4 DEF BarOK
<1>8. FoundOK(u) /\ MadeOK(u)
  BY <1>5 DEF Good, Semi, FoundOK, MadeOK
<1>9. Streams(u)
  BY <1>5, <1>6 DEF Good, Semi, Streams, Has
<1>10. Tells(u)
  BY <1>5, <1>6 DEF Good, Tells, Fresh, Has
<1> QED BY <1>1, <1>4, <1>7, <1>8, <1>9, <1>10 DEF Good, Semi

LEMMA BarOf ==
  ASSUME NEW t \in Good
  PROVE  /\ t.text \in 0 .. MaxText /\ t.cursor \in 0 .. t.text /\ t.sel \in Selections
         /\ t.sel # <<>> => t.sel[1] \in Nat /\ t.sel[2] \in Nat /\ t.sel[1] < t.sel[2] /\ t.sel[2] <= t.text
<1>1. t \in Tabs
  BY IsTab
<1>2. t.text \in Nat /\ t.cursor \in Nat /\ t.sel \in Selections
  BY <1>1 DEF Tabs
<1>3. t.text <= MaxText /\ t.cursor <= t.text /\ (t.sel # <<>> => t.sel[1] < t.sel[2] /\ t.sel[2] <= t.text)
  BY DEF Good, Semi, BarOK
<1> QED BY <1>2, <1>3, Constants DEF Selections

LEMMA SetTextGood ==
  ASSUME NEW t \in Good, NEW n \in 0 .. MaxText PROVE SetText(t, n) \in Good
<1>1. n \in 0 .. n /\ <<>> \in Selections
  BY Constants DEF Selections
<1>2. [t EXCEPT !.text = n, !.cursor = n, !.sel = <<>>] \in Good
  BY <1>1, BarGood
<1> QED BY <1>2 DEF SetText

LEMMA DeleteGood == ASSUME NEW t \in Good PROVE DeleteSelection(t) \in Good
<1>1. CASE t.sel = <<>>
  BY <1>1 DEF DeleteSelection
<1>2. CASE t.sel # <<>>
  <2>1. PICK n : n = t.text - (t.sel[2] - t.sel[1])
    OBVIOUS
  <2>2. PICK c : c = t.sel[1]
    OBVIOUS
  <2>3. n \in 0 .. MaxText /\ c \in 0 .. n /\ <<>> \in Selections
    BY <1>2, <2>1, <2>2, BarOf, Constants DEF Selections
  <2>4. DeleteSelection(t) = [t EXCEPT !.text = n, !.cursor = c, !.sel = <<>>]
    BY <1>2, <2>1, <2>2, IsTab DEF DeleteSelection, Tabs
  <2>5. [t EXCEPT !.text = n, !.cursor = c, !.sel = <<>>] \in Good
    BY <2>3, BarGood
  <2> QED BY <2>4, <2>5
<1> QED BY <1>1, <1>2

LEMMA InsertGood ==
  ASSUME NEW t \in Good, DeleteSelection(t).text < MaxText PROVE Insert(t) \in Good
<1>1. PICK u : u = DeleteSelection(t)
  OBVIOUS
<1>2. u \in Good /\ u.text < MaxText
  BY <1>1, DeleteGood
<1>3. u.text \in 0 .. MaxText /\ u.cursor \in 0 .. u.text /\ u.sel \in Selections
      /\ (u.sel # <<>> => u.sel[1] \in Nat /\ u.sel[2] \in Nat /\ u.sel[1] < u.sel[2] /\ u.sel[2] <= u.text)
  BY <1>2, BarOf
<1>4. PICK n : n = u.text + 1
  OBVIOUS
<1>5. PICK c : c = u.cursor + 1
  OBVIOUS
<1>6. n \in 0 .. MaxText /\ c \in 0 .. n /\ (u.sel # <<>> => u.sel[1] < u.sel[2] /\ u.sel[2] <= n)
  BY <1>2, <1>3, <1>4, <1>5, Constants
<1>7. [u EXCEPT !.text = n, !.cursor = c, !.sel = u.sel] \in Good
  BY <1>2, <1>3, <1>6, BarGood
<1>8. Insert(t) = [u EXCEPT !.text = n, !.cursor = c]
  BY <1>1, <1>2, <1>4, <1>5, IsTab DEF Insert, Tabs
<1>9. [u EXCEPT !.text = n, !.cursor = c] = [u EXCEPT !.text = n, !.cursor = c, !.sel = u.sel]
  BY <1>2, IsTab DEF Tabs
<1> QED BY <1>7, <1>8, <1>9

LEMMA RubGood == ASSUME NEW t \in Good PROVE Rub(t) \in Good
<1>1. CASE t.sel # <<>>
  BY <1>1, DeleteGood DEF Rub
<1>2. CASE t.sel = <<>> /\ t.cursor > 0
  <2>1. PICK n : n = t.text - 1
    OBVIOUS
  <2>2. PICK c : c = t.cursor - 1
    OBVIOUS
  <2>3. n \in 0 .. MaxText /\ c \in 0 .. n /\ <<>> \in Selections
    BY <1>2, <2>1, <2>2, BarOf, Constants DEF Selections
  <2>4. [t EXCEPT !.text = n, !.cursor = c, !.sel = <<>>] \in Good
    BY <2>3, BarGood
  <2>5. [t EXCEPT !.text = n, !.cursor = c] = [t EXCEPT !.text = n, !.cursor = c, !.sel = <<>>]
    BY <1>2, IsTab DEF Tabs
  <2>6. Rub(t) = [t EXCEPT !.text = n, !.cursor = c]
    BY <1>2, <2>1, <2>2, IsTab DEF Rub, Tabs
  <2> QED BY <2>4, <2>5, <2>6
<1>3. CASE t.sel = <<>> /\ t.cursor = 0
  BY <1>3 DEF Rub
<1>4. t.cursor > 0 \/ t.cursor = 0
  BY BarOf, Constants
<1> QED BY <1>1, <1>2, <1>3, <1>4

\* The cursor put somewhere in the text, and a selection of it
LEMMA CursorGood ==
  ASSUME NEW t \in Good, NEW c \in 0 .. t.text, NEW s \in Selections,
         s # <<>> => s[1] < s[2] /\ s[2] <= t.text
  PROVE  [t EXCEPT !.cursor = c, !.sel = s] \in Good
<1>1. t.text \in 0 .. MaxText
  BY BarOf
<1>2. [t EXCEPT !.text = t.text, !.cursor = c, !.sel = s] \in Good
  BY <1>1, BarGood
<1>3. [t EXCEPT !.text = t.text, !.cursor = c, !.sel = s] = [t EXCEPT !.cursor = c, !.sel = s]
  BY IsTab DEF Tabs
<1> QED BY <1>2, <1>3

LEMMA MoveGood ==
  ASSUME NEW t \in Good, NEW key \in {"left", "right", "home", "end"} PROVE Move(t, key) \in Good
<1>1. t.text \in Nat /\ t.cursor \in 0 .. t.text
  BY BarOf, Constants
<1>2. PICK c : c = CASE key = "left"  -> Max({0, t.cursor - 1})
                     [] key = "right" -> Min({t.cursor + 1, t.text})
                     [] key = "home"  -> 0
                     [] key = "end"   -> t.text
  OBVIOUS
<1>3. c \in 0 .. t.text
  <2>1. Max({0, t.cursor - 1}) = IF 0 >= t.cursor - 1 THEN 0 ELSE t.cursor - 1
    BY <1>1, MaxTwo
  <2>2. Min({t.cursor + 1, t.text}) = IF t.cursor + 1 <= t.text THEN t.cursor + 1 ELSE t.text
    BY <1>1, MinTwo
  <2> QED BY <1>1, <1>2, <2>1, <2>2
<1>4. Move(t, key) = [t EXCEPT !.sel = <<>>, !.cursor = c]
  BY <1>2, IsTab DEF Move, Tabs
<1>5. [t EXCEPT !.sel = <<>>, !.cursor = c] = [t EXCEPT !.cursor = c, !.sel = <<>>]
  BY IsTab DEF Tabs
<1>6. [t EXCEPT !.cursor = c, !.sel = <<>>] \in Good
  BY <1>3, CursorGood DEF Selections
<1> QED BY <1>4, <1>5, <1>6

LEMMA CancelGood == ASSUME NEW t \in Good PROVE CancelEdit(t) \in Good
<1>1. t.url \in Pages
  BY IsTab DEF Tabs
<1>2. TextOf[t.url] \in 0 .. MaxText
  BY <1>1, Constants
<1>3. [t EXCEPT !.editing = FALSE] \in Good
  BY PlainGood, 0 \in Nat, "console" \in Panels DEF Panels
<1>4. SetText([t EXCEPT !.editing = FALSE], TextOf[t.url]) \in Good
  BY <1>2, <1>3, SetTextGood
<1> QED BY <1>4 DEF CancelEdit

-----------------------------------------------------------------------------
(* Find in page                                                            *)

\* A tab whose search alone changed
LEMMA FoundGood ==
  ASSUME NEW t \in Good, NEW f \in BOOLEAN, NEW q \in Nat, NEW s \in Lists, NEW a \in Nat,
         s # <<>> => a < Len(s)
  PROVE  [t EXCEPT !.finding = f, !.query = q, !.spots = s, !.at = a] \in Good
<1>1. PICK u : u = [t EXCEPT !.finding = f, !.query = q, !.spots = s, !.at = a]
  OBVIOUS
<1>2. t \in Tabs
  BY IsTab
<1>3. u \in Tabs /\ u.spots = s /\ u.at = a
  BY <1>1, <1>2, ZenonT(60) DEF Tabs
<1>4. u.live = t.live /\ u.pending = t.pending /\ u.made = t.made
  BY <1>1, <1>2 DEF Tabs
<1>5. u.text = t.text /\ u.cursor = t.cursor /\ u.sel = t.sel
  BY <1>1, <1>2 DEF Tabs
<1>6. /\ u.muted = t.muted /\ u.position = t.position /\ u.tick = t.tick
      /\ u.shown = t.shown /\ u.failed = t.failed
  BY <1>1, <1>2 DEF Tabs
<1>7. BarOK(u)
  BY <1>5 DEF Good, Semi, BarOK
<1>8. FoundOK(u)
  BY <1>3 DEF FoundOK
<1>9. MadeOK(u) /\ Streams(u)
  BY <1>4, <1>6 DEF Good, Semi, MadeOK, Streams, Has
<1>10. Tells(u)
  BY <1>4, <1>6 DEF Good, Tells, Fresh, Has
<1> QED BY <1>1, <1>3, <1>7, <1>8, <1>9, <1>10 DEF Good, Semi

LEMMA FoundOf ==
  ASSUME NEW t \in Good
  PROVE  /\ t.finding \in BOOLEAN /\ t.query \in Nat /\ t.spots \in Lists /\ t.at \in Nat
         /\ t.spots # <<>> => t.at < Len(t.spots)
<1>1. t \in Tabs
  BY IsTab
<1>2. FoundOK(t)
  BY DEF Good, Semi
<1> QED BY <1>1, <1>2 DEF Tabs, FoundOK

LEMMA ExitFindGood == ASSUME NEW t \in Good PROVE ExitFind(t) \in Good
<1>1. <<>> \in Lists /\ 0 \in Nat /\ FALSE \in BOOLEAN /\ {"matches"} \in SUBSET Others
  BY DEF Lists, Others
<1>2. [t EXCEPT !.finding = FALSE, !.query = 0, !.spots = <<>>, !.at = 0] \in Good
  BY <1>1, FoundGood
<1> QED BY <1>1, <1>2, ForgetOther DEF ExitFind

LEMMA MatchGood == ASSUME NEW t \in Good PROVE ScrollToMatch(t) \in Good
<1>1. CASE t.spots = <<>>
  BY <1>1 DEF ScrollToMatch
<1>2. CASE t.spots # <<>>
  <2>1. t.spots \in Seq(Nat) /\ t.at \in Nat /\ t.at < Len(t.spots)
    BY <1>2, FoundOf DEF Lists
  <2>2. PICK s : s = t.spots[t.at + 1]
    OBVIOUS
  <2>3. s \in Int
    BY <2>1, <2>2
  <2>4. ScrollToMatch(t) = ClampScroll([t EXCEPT !.scroll = s])
    BY <1>2, <2>2 DEF ScrollToMatch
  <2> QED BY <2>3, <2>4, ScrollGood, ClampGood
<1> QED BY <1>1, <1>2

LEMMA RefreshFindGood == ASSUME NEW t \in Good PROVE RefreshFind(t) \in Good
<1>1. PICK found : found = IF t.query > 0 /\ IsUp(t) THEN Spots[t.url] ELSE <<>>
  OBVIOUS
<1>2. found \in Lists
  BY <1>1, IsTab, Constants DEF Tabs, Lists
<1>3. PICK u : u = [t EXCEPT !.spots = found, !.at = 0]
  OBVIOUS
<1>4. found # <<>> => 0 < Len(found)
  BY <1>2 DEF Lists
<1>5. [t EXCEPT !.finding = t.finding, !.query = t.query, !.spots = found, !.at = 0] \in Good
  BY <1>2, <1>4, FoundOf, FoundGood
<1>6. u = [t EXCEPT !.finding = t.finding, !.query = t.query, !.spots = found, !.at = 0]
  BY <1>3, IsTab DEF Tabs
<1>7. "matches" \in Others /\ {"matches"} \in SUBSET Others
  BY DEF Others
<1>8. Forget(u, {"matches"}) \in Good /\ Make(u, "matches") \in Good
  BY <1>5, <1>6, <1>7, MakeOther, ForgetOther
<1>9. RefreshFind(t) = ScrollToMatch(IF found = <<>> THEN Forget(u, {"matches"}) ELSE Make(u, "matches"))
  BY <1>1, <1>3 DEF RefreshFind
<1> QED BY <1>8, <1>9, MatchGood

LEMMA TurnGood == ASSUME NEW t \in Good, NEW by \in Int PROVE Turn(t, by) \in Good
<1>1. CASE t.spots = <<>>
  BY <1>1 DEF Turn
<1>2. CASE t.spots # <<>>
  <2>1. t.spots \in Lists /\ Len(t.spots) \in Nat /\ Len(t.spots) > 0 /\ t.at \in Nat
    BY <1>2, FoundOf DEF Lists
  <2>2. PICK a : a = (t.at + Len(t.spots) + by) % Len(t.spots)
    OBVIOUS
  <2>3. a \in Nat /\ a < Len(t.spots)
    BY <2>1, <2>2
  <2>4. [t EXCEPT !.finding = t.finding, !.query = t.query, !.spots = t.spots, !.at = a] \in Good
    BY <2>1, <2>3, FoundOf, FoundGood
  <2>5. [t EXCEPT !.finding = t.finding, !.query = t.query, !.spots = t.spots, !.at = a] = [t EXCEPT !.at = a]
    BY IsTab DEF Tabs
  <2>6. Turn(t, by) = ScrollToMatch([t EXCEPT !.at = a])
    BY <1>2, <2>2, IsTab DEF Turn, Tabs
  <2> QED BY <2>4, <2>5, <2>6, MatchGood
<1> QED BY <1>1, <1>2

-----------------------------------------------------------------------------
(* Leaving a page                                                          *)

\* A tab that has just left its page
Quiet(t) == ~ t.muted /\ t.position = 0
Bare == {t \in Tabs : /\ BarOK(t) /\ FoundOK(t) /\ Quiet(t)
                      /\ \A k \in Kinds : t.made[k] = "none"}

\* What leaving a page leaves alone
Kept(t, u) ==
  /\ u.url = t.url /\ u.back = t.back /\ u.fwd = t.fwd /\ u.open = t.open /\ u.live = t.live
  /\ u.text = t.text /\ u.cursor = t.cursor /\ u.sel = t.sel /\ u.pending = t.pending

LEMMA LeaveIs ==
  ASSUME NEW t \in Good PROVE Leave(t) \in Bare /\ Kept(t, Leave(t))
<1> DEFINE a  == [t EXCEPT !.finding = FALSE, !.query = 0, !.spots = <<>>, !.at = 0]
           cc(u) == [u EXCEPT !.muted = FALSE, !.position = 0, !.heard = 0, !.tick = FALSE, !.failed = FALSE]
           e(u)  == [u EXCEPT !.typed = 0, !.console = FALSE, !.picking = FALSE]
<1>1. PICK a1 : a1 = a
  OBVIOUS
<1>2. a1 \in Tabs /\ a1.spots = <<>> /\ Kept(t, a1)
  <2>1. <<>> \in Lists
    BY DEF Lists
  <2> QED BY <1>1, <2>1, IsTab, ZenonT(60) DEF Tabs, Kept
<1>3. PICK b1 : b1 = Forget(a1, {"matches"})
  OBVIOUS
<1>4. b1 \in Tabs /\ b1 = [a1 EXCEPT !.made = b1.made] /\ b1.made["matches"] = "none"
  BY <1>2, <1>3, ForgetIs DEF Kinds
<1>5. b1.spots = <<>> /\ Kept(t, b1)
  BY <1>2, <1>4, MadeSame DEF Kept
<1>6. PICK c1 : c1 = cc(b1)
  OBVIOUS
<1>7. c1 \in Tabs /\ c1.spots = <<>> /\ Kept(t, c1) /\ Quiet(c1) /\ c1.made = b1.made
  BY <1>4, <1>5, <1>6, ZenonT(60) DEF Tabs, Kept, Quiet
<1>8. PICK d1 : d1 = Forget(c1, {"pcm", "stream", "dials"})
  OBVIOUS
<1>9. /\ d1 \in Tabs /\ d1 = [c1 EXCEPT !.made = d1.made]
      /\ d1.made["pcm"] = "none" /\ d1.made["stream"] = "none" /\ d1.made["dials"] = "none"
      /\ d1.made["matches"] = "none"
  BY <1>4, <1>7, <1>8, ForgetIs DEF Kinds
<1>10. d1.spots = <<>> /\ Kept(t, d1) /\ Quiet(d1)
  BY <1>7, <1>9, MadeSame DEF Kept, Quiet
<1>11. PICK e1 : e1 = e(d1)
  OBVIOUS
<1>12. e1 \in Tabs /\ e1.spots = <<>> /\ Kept(t, e1) /\ Quiet(e1) /\ e1.made = d1.made
  BY <1>9, <1>10, <1>11, ZenonT(60) DEF Tabs, Kept, Quiet
<1>13. PICK f1 : f1 = Forget(e1, {"log", "snapshot", "selected"})
  OBVIOUS
<1>14. /\ f1 \in Tabs /\ f1 = [e1 EXCEPT !.made = f1.made]
       /\ \A k \in Kinds : f1.made[k] = "none"
  <2>1. /\ f1 \in Tabs /\ f1 = [e1 EXCEPT !.made = f1.made]
        /\ \A k \in Kinds : f1.made[k] = IF k \in {"log", "snapshot", "selected"} THEN "none" ELSE e1.made[k]
    BY <1>12, <1>13, ForgetIs
  <2>2. \A k \in Kinds : k \in {"log", "snapshot", "selected"} \/ e1.made[k] = "none"
    BY <1>9, <1>12 DEF Kinds
  <2> QED BY <2>1, <2>2
<1>15. f1.spots = <<>> /\ Kept(t, f1) /\ Quiet(f1)
  BY <1>12, <1>14, MadeSame DEF Kept, Quiet
<1>16. Leave(t) = f1
  BY <1>1, <1>3, <1>6, <1>8, <1>11, <1>13 DEF Leave, ResetDevtools, StopMedia, ExitFind
<1>17. BarOK(f1)
  BY <1>15 DEF Kept, BarOK, Good, Semi
<1>18. FoundOK(f1)
  BY <1>15 DEF FoundOK
<1> QED BY <1>14, <1>15, <1>16, <1>17, <1>18 DEF Bare

\* Without anything of a page a tab that waits is sound
LEMMA BareWaits == ASSUME NEW t \in Bare, t.pending.busy PROVE t \in Good
<1>1. t \in Tabs /\ BarOK(t) /\ FoundOK(t) /\ Quiet(t) /\ \A k \in Kinds : t.made[k] = "none"
  BY DEF Bare
<1>2. MadeOK(t)
  BY <1>1 DEF MadeOK
<1>3. Streams(t)
  BY <1>1, Kind3 DEF Streams, Has, Quiet
<1> QED BY <1>1, <1>2, <1>3 DEF Good, Semi, Tells

LEMMA BareHolds ==
  ASSUME NEW t \in Bare, NEW p \in Loads
  PROVE  [t EXCEPT !.pending = p] \in Bare /\ [t EXCEPT !.pending = p].pending = p
<1>1. t \in Tabs
  BY DEF Bare
<1>2. PICK u : u = [t EXCEPT !.pending = p]
  OBVIOUS
<1>3. u \in Tabs /\ u.pending = p
  BY <1>1, <1>2 DEF Tabs
<1>4. u.text = t.text /\ u.cursor = t.cursor /\ u.sel = t.sel /\ u.spots = t.spots /\ u.at = t.at
  BY <1>1, <1>2 DEF Tabs
<1>5. u.muted = t.muted /\ u.position = t.position /\ u.made = t.made
  BY <1>1, <1>2 DEF Tabs
<1> QED BY <1>2, <1>3, <1>4, <1>5 DEF Bare, BarOK, FoundOK, Quiet

-----------------------------------------------------------------------------
(* Another page                                                            *)

\* A tab whose page may be replaced: what it has was made late
Ready(t) ==
  /\ t \in Tabs /\ BarOK(t) /\ FoundOK(t) /\ Streams(t)
  /\ \A k \in Kinds : t.made[k] \in {"none", "late"}
  /\ t.pending.busy => \A k \in Kinds : t.made[k] = "none"

LEMMA BareReady == ASSUME NEW t \in Bare PROVE Ready(t)
BY Kind3 DEF Bare, Ready, Streams, Has, Quiet

\* A tab that shows page u, with the history of tab t
Shows(t, x, u) == x.url = u /\ x.back = t.back /\ x.fwd = t.fwd /\ x.pending = t.pending

LEMMA SetTextKeeps ==
  ASSUME NEW t \in Tabs, NEW n \in Nat
  PROVE  LET x == SetText(t, n) IN
         x.url = t.url /\ x.back = t.back /\ x.fwd = t.fwd /\ x.pending = t.pending /\ x.scroll = t.scroll
BY DEF SetText, Tabs

LEMMA ReplaceGood ==
  ASSUME NEW t, Ready(t), NEW u \in Pages, NEW isLive \in BOOLEAN
  PROVE  LET x == Replace(t, u, isLive) IN x \in Good /\ Shows(t, x, u)
<1>1. PICK m : m = Aged(t.made)
  OBVIOUS
<1>2. t \in Tabs /\ t.made \in Mades
  BY DEF Ready, Tabs
<1>3. m \in Mades /\ \A k \in Kinds : m[k] = IF t.made[k] = "none" THEN "none" ELSE "left"
  <2>1. \A k \in Kinds : (CASE t.made[k] = "own"  -> "stale"
                            [] t.made[k] = "late" -> "left"
                            [] OTHER            -> t.made[k]) = IF t.made[k] = "none" THEN "none" ELSE "left"
    BY DEF Ready
  <2>2. m = [k \in Kinds |-> IF t.made[k] = "none" THEN "none" ELSE "left"]
    BY <1>1, <2>1 DEF Aged
  <2> QED BY <2>2 DEF Mades, Colours
<1>4. PICK y : y = [t EXCEPT !.url = u, !.live = isLive, !.made = m, !.shown = Paused, !.scroll = 0]
  OBVIOUS
<1>5. Paused \in Faces /\ Paused.playing = FALSE /\ Paused.muted = FALSE /\ Paused.time = 0
  BY DEF Paused, Faces
<1>6. y \in Tabs /\ y.made = m /\ y.shown = Paused /\ y.live = isLive
  <2>1. m \in Mades /\ Paused \in Faces
    BY <1>3, <1>5
  <2>2. PICK p : p = Paused
    OBVIOUS
  <2>3. y = [t EXCEPT !.url = u, !.live = isLive, !.made = m, !.shown = p, !.scroll = 0]
    BY <1>4, <2>2
  <2>4. p \in Faces
    BY <2>1, <2>2
  <2>5. t \in Tabs
    BY <1>2
  <2>6. m \in Mades
    BY <2>1
  <2>7. y \in Tabs
    <3>1. PICK z : z = [t EXCEPT !.url = u, !.live = isLive, !.made = m]
      OBVIOUS
    <3>2. z \in Tabs
      BY <2>5, <2>6, <3>1 DEF Tabs
    <3>3. PICK s : s = 0
      OBVIOUS
    <3>4. s \in Int
      BY <3>3
    <3>5. y = [z EXCEPT !.shown = p, !.scroll = s]
      BY <2>3, <3>1, <3>3
    <3> QED BY <2>4, <3>2, <3>4, <3>5 DEF Tabs
  <2>8. y.made = m /\ y.shown = p
    BY <2>3, <2>5 DEF Tabs
  <2>9. y.live = isLive
    BY <2>3, <2>5 DEF Tabs
  <2> QED BY <2>2, <2>7, <2>8, <2>9
<1>7. Shows(t, y, u) /\ y.pending = t.pending
  BY <1>2, <1>4 DEF Shows, Tabs
<1>8. y.text = t.text /\ y.cursor = t.cursor /\ y.sel = t.sel /\ y.spots = t.spots /\ y.at = t.at
  BY <1>2, <1>4 DEF Tabs
<1>9. y.muted = t.muted /\ y.position = t.position /\ y.tick = t.tick /\ y.failed = t.failed
  BY <1>2, <1>4 DEF Tabs
<1>10. \A k \in {"pcm", "stream", "dials"} : m[k] = IF t.made[k] = "none" THEN "none" ELSE "left"
  BY <1>3, Kind3
<1>11. BarOK(y) /\ FoundOK(y)
  BY <1>8 DEF Ready, BarOK, FoundOK
<1>12. MadeOK(y)
  BY <1>3, <1>6, <1>7 DEF Ready, MadeOK
<1>13. Streams(y)
  BY <1>6, <1>9, <1>10 DEF Ready, Streams, Has
<1>14. Tells(y)
  <2> SUFFICES ASSUME Fresh(y) PROVE y.shown.playing = Has(y, "stream") /\ ~ Has(y, "stream")
                                   /\ y.shown.muted = y.muted /\ y.shown.time = y.position
    BY DEF Tells
  <2>1. t.made["pcm"] = "none" /\ t.made["stream"] = "none" /\ t.made["dials"] = "none"
    BY <1>6, <1>10 DEF Fresh
  <2>2. m["stream"] = "none" /\ ~ t.muted /\ t.position = 0
    BY <1>10, <2>1 DEF Ready, Streams, Has
  <2>3. y.muted = FALSE
    BY <1>2, <1>9, <2>2 DEF Tabs
  <2> QED BY <1>5, <1>6, <1>9, <2>2, <2>3 DEF Has
<1>15. y \in Good
  BY <1>6, <1>11, <1>12, <1>13, <1>14 DEF Good, Semi
<1>16. TextOf[u] \in 0 .. MaxText /\ TextOf[u] \in Nat
  BY Constants
<1>17. PICK x : x = SetText(y, TextOf[u])
  OBVIOUS
<1>18. x \in Good
  BY <1>15, <1>16, <1>17, SetTextGood
<1>19. Shows(t, x, u)
  BY <1>6, <1>7, <1>16, <1>17, SetTextKeeps DEF Shows
<1>20. Replace(t, u, isLive) = x
  BY <1>1, <1>4, <1>17 DEF Replace
<1> QED BY <1>18, <1>19, <1>20

LEMMA ArrivedGood ==
  ASSUME NEW t, Ready(t), NEW u \in Pages, NEW s \in Int, NEW ok \in BOOLEAN
  PROVE  LET x == Arrived(t, u, s, ok) IN
         x \in Good /\ Shows(t, x, u) /\ x.scroll = s
<1>1. PICK y : y = Replace(t, u, ok)
  OBVIOUS
<1>2. y \in Good /\ y \in Tabs /\ Shows(t, y, u)
  BY <1>1, ReplaceGood, IsTab
<1>3. PICK x : x = [y EXCEPT !.scroll = s, !.field = FALSE, !.outlined = FALSE]
  OBVIOUS
<1>4. x \in Tabs /\ Alike(y, x)
  BY <1>2, <1>3 DEF Tabs, Alike
<1>5. x.scroll = s /\ x.url = y.url /\ x.back = y.back /\ x.fwd = y.fwd /\ x.pending = y.pending
  BY <1>2, <1>3 DEF Tabs
<1>6. x \in Good
  BY <1>2, <1>4, AlikeGood
<1>7. Arrived(t, u, s, ok) = x
  BY <1>1, <1>3 DEF Arrived
<1> QED BY <1>2, <1>5, <1>6, <1>7 DEF Shows

LEMMA LoadLocalGood ==
  ASSUME NEW t \in Good, NEW u \in Pages
  PROVE  LoadLocal(t, u) \in Good /\ Shows(t, LoadLocal(t, u), u)
<1>1. PICK l : l = Leave(t)
  OBVIOUS
<1>2. l \in Bare /\ Kept(t, l)
  BY <1>1, LeaveIs
<1>3. Replace(l, u, FALSE) \in Good /\ Shows(l, Replace(l, u, FALSE), u)
  BY <1>2, BareReady, ReplaceGood
<1> QED BY <1>1, <1>2, <1>3 DEF LoadLocal, Shows, Kept

\* Clamping changes the place alone.
LEMMA ClampKeeps ==
  ASSUME NEW t \in Tabs
  PROVE  LET x == ClampScroll(t) IN
         /\ Shows(t, x, t.url)
         /\ MaxScroll(x) = MaxScroll(t) /\ x.scroll = Min({t.scroll, MaxScroll(x)})
<1>1. PICK s : s = Min({t.scroll, MaxScroll(t)})
  OBVIOUS
<1>2. s \in Int /\ ClampScroll(t) = [t EXCEPT !.scroll = s]
  BY <1>1, ClampIs
<1>3. PICK x : x = [t EXCEPT !.scroll = s]
  OBVIOUS
<1>4. x.url = t.url /\ x.back = t.back /\ x.fwd = t.fwd /\ x.pending = t.pending
  BY <1>3 DEF Tabs
<1>5. x.live = t.live /\ x.open = t.open /\ x.scroll = s
  BY <1>3 DEF Tabs
<1>6. MaxScroll(x) = MaxScroll(t)
  BY <1>4, <1>5 DEF MaxScroll, IsUp
<1> QED BY <1>1, <1>2, <1>3, <1>4, <1>5, <1>6 DEF Shows

LEMMA RecordGood == ASSUME NEW t \in Good PROVE Record(t) \in Good
<1>1. t \in Tabs
  BY IsTab
<1>2. t.back \in Hists /\ t.url \in Pages /\ t.scroll \in Int
  BY <1>1 DEF Tabs
<1>3. PICK b : b = Append(t.back, <<t.url, t.scroll>>)
  OBVIOUS
<1>4. b \in Hists /\ <<>> \in Hists
  BY <1>2, <1>3 DEF Hists
<1>5. Record(t) = [t EXCEPT !.back = b, !.fwd = <<>>]
  BY <1>1, <1>3 DEF Record, Tabs
<1> QED BY <1>4, <1>5, HistoryGood, ZenonT(60)

\* A load begins, or fails at once.
LEMMA BeginIs ==
  ASSUME NEW t \in Good, NEW u \in Remote, NEW s \in Int, NEW x \in Begin(t, u, s)
  PROVE  /\ x \in Good
         /\ x.back = t.back /\ x.fwd = t.fwd
         /\ \/ x.pending = Load(u, s) /\ x.pending.busy
            \/ x.pending = t.pending /\ x.url = u
<1>1. PICK l : l = Leave(t)
  OBVIOUS
<1>2. l \in Bare /\ Kept(t, l)
  BY <1>1, LeaveIs
<1>3. u \in Pages
  BY Constants
<1>4. CASE x = [l EXCEPT !.pending = Load(u, s)]
  <2>1. PICK p : p = Load(u, s)
    OBVIOUS
  <2>2. p \in Loads /\ p.busy
    BY <1>3, <2>1 DEF Load, Loads
  <2>3. x \in Bare /\ x.pending = p
    BY <1>2, <1>4, <2>1, <2>2, BareHolds
  <2>4. x.back = l.back /\ x.fwd = l.fwd
    BY <1>2, <1>4 DEF Bare, Tabs
  <2>5. x \in Good
    BY <2>2, <2>3, BareWaits
  <2> QED BY <1>2, <2>1, <2>2, <2>3, <2>4, <2>5 DEF Kept
<1>5. CASE x = ClampScroll(Arrived(l, u, 0, FALSE))
  <2>1. PICK y : y = Arrived(l, u, 0, FALSE)
    OBVIOUS
  <2>2. y \in Good /\ Shows(l, y, u) /\ y \in Tabs
    <3>1. Ready(l) /\ 0 \in Int /\ FALSE \in BOOLEAN
      BY <1>2, BareReady
    <3>2. y \in Good /\ Shows(l, y, u)
      BY <1>3, <2>1, <3>1, ArrivedGood
    <3> QED BY <3>2, IsTab
  <2>3. x \in Good /\ Shows(y, x, y.url)
    BY <1>5, <2>1, <2>2, ClampGood, ClampKeeps
  <2> QED BY <1>2, <2>2, <2>3 DEF Shows, Kept
<1> QED BY <1>1, <1>4, <1>5 DEF Begin

LEMMA NavigateGood == ASSUME NEW t \in Good, NEW u \in Remote PROVE Navigate(t, u) \subseteq Good
BY RecordGood, BeginIs DEF Navigate

LEMMA GoToIs ==
  ASSUME NEW t \in Good, NEW u \in Pages, NEW s \in Int, NEW x \in GoTo(t, u, s)
  PROVE  /\ x \in Good
         /\ x.back = t.back /\ x.fwd = t.fwd
         /\ \/ u \in Remote /\ x.pending = Load(u, s) /\ x.pending.busy
            \/ u \in Remote /\ x.pending = t.pending /\ x.url = u
            \/ u \in Local /\ Shows(t, x, u) /\ x.scroll = Min({s, MaxScroll(x)})
<1>1. CASE u \in Local
  <2>1. PICK y : y = LoadLocal(t, u)
    OBVIOUS
  <2>2. y \in Good /\ Shows(t, y, u) /\ y \in Tabs
    BY <2>1, LoadLocalGood, IsTab
  <2>3. PICK z : z = [y EXCEPT !.scroll = s]
    OBVIOUS
  <2>4. z \in Good /\ z \in Tabs
    BY <2>2, <2>3, ScrollGood, IsTab
  <2>5. Shows(t, z, u) /\ z.scroll = s
    BY <2>2, <2>3 DEF Shows, Tabs
  <2>6. x = ClampScroll(z)
    BY <1>1, <2>1, <2>3 DEF GoTo
  <2>7. x \in Good /\ Shows(z, x, z.url) /\ x.scroll = Min({z.scroll, MaxScroll(x)})
    BY <2>4, <2>6, ClampGood, ClampKeeps
  <2> QED BY <1>1, <2>5, <2>7 DEF Shows
<1>2. CASE u \notin Local
  <2>1. u \in Remote /\ x \in Begin(t, u, s)
    BY <1>2, Constants DEF GoTo
  <2> QED BY <2>1, BeginIs
<1> QED BY <1>1, <1>2

-----------------------------------------------------------------------------
(* Sound                                                                   *)

\* What the media controls may change of a tab
Touch(t, u) ==
  /\ u \in Tabs /\ u.live = t.live /\ u.pending = t.pending
  /\ u.text = t.text /\ u.cursor = t.cursor /\ u.sel = t.sel
  /\ u.spots = t.spots /\ u.at = t.at
  /\ \A k \in Kinds : \/ u.made[k] = t.made[k] \/ u.made[k] = "none"
                      \/ u.made[k] = IF t.pending.busy THEN "late" ELSE "own"

LEMMA TouchSemi ==
  ASSUME NEW t \in Tabs, BarOK(t), FoundOK(t), MadeOK(t), NEW u, Touch(t, u), Streams(u)
  PROVE  u \in Semi
<1>1. BarOK(u) /\ FoundOK(u)
  BY DEF Touch, BarOK, FoundOK
<1>2. MadeOK(u)
  BY DEF Touch, MadeOK
<1> QED BY <1>1, <1>2 DEF Touch, Semi

LEMMA TouchTwice ==
  ASSUME NEW t, NEW u, NEW v, Touch(t, u), Touch(u, v) PROVE Touch(t, v)
BY DEF Touch

LEMMA MakeTouches ==
  ASSUME NEW t \in Tabs, NEW k \in {"pcm", "stream", "dials"}
  PROVE  LET u == Make(t, k) IN
         /\ Touch(t, u) /\ Has(u, k) /\ u.made[k] # "left"
         /\ \A j \in {"pcm", "stream", "dials"} \ {k} : u.made[j] = t.made[j]
         /\ u.muted = t.muted /\ u.position = t.position /\ u.heard = t.heard /\ u.tick = t.tick
         /\ u.shown = t.shown /\ u.failed = t.failed
<1>1. PICK u : u = Make(t, k)
  OBVIOUS
<1>2. k \in Kinds /\ k # "log"
  BY DEF Kinds
<1>3. /\ u \in Tabs /\ u = [t EXCEPT !.made = u.made]
      /\ \A j \in Kinds \ {k} : u.made[j] = t.made[j]
      /\ u.made[k] = IF t.pending.busy THEN "late" ELSE "own"
  BY <1>1, <1>2, MakeIs
<1>4. /\ u.live = t.live /\ u.pending = t.pending
      /\ u.text = t.text /\ u.cursor = t.cursor /\ u.sel = t.sel
      /\ u.spots = t.spots /\ u.at = t.at
  BY <1>3, MadeSame
<1>5. /\ u.muted = t.muted /\ u.position = t.position /\ u.heard = t.heard /\ u.tick = t.tick
      /\ u.shown = t.shown /\ u.failed = t.failed
  BY <1>3, MadeSame
<1>6. Touch(t, u)
  BY <1>3, <1>4 DEF Touch
<1>7. \A j \in {"pcm", "stream", "dials"} \ {k} : u.made[j] = t.made[j]
  BY <1>3, Kind3
<1> QED BY <1>1, <1>3, <1>5, <1>6, <1>7 DEF Has

LEMMA ForgetTouches ==
  ASSUME NEW t \in Tabs
  PROVE  LET u == Forget(t, {"stream"}) IN
         /\ Touch(t, u) /\ u.made["stream"] = "none"
         /\ u.made["pcm"] = t.made["pcm"] /\ u.made["dials"] = t.made["dials"]
         /\ u.muted = t.muted /\ u.position = t.position /\ u.heard = t.heard /\ u.tick = t.tick
         /\ u.shown = t.shown /\ u.failed = t.failed
<1>1. PICK u : u = Forget(t, {"stream"})
  OBVIOUS
<1>2. /\ u \in Tabs /\ u = [t EXCEPT !.made = u.made]
      /\ \A j \in Kinds : u.made[j] = IF j \in {"stream"} THEN "none" ELSE t.made[j]
  BY <1>1, ForgetIs
<1>3. /\ u.live = t.live /\ u.pending = t.pending
      /\ u.text = t.text /\ u.cursor = t.cursor /\ u.sel = t.sel
      /\ u.spots = t.spots /\ u.at = t.at
  BY <1>2, MadeSame
<1>4. /\ u.muted = t.muted /\ u.position = t.position /\ u.heard = t.heard /\ u.tick = t.tick
      /\ u.shown = t.shown /\ u.failed = t.failed
  BY <1>2, MadeSame
<1>5. Touch(t, u)
  BY <1>2, <1>3 DEF Touch
<1>6. u.made["stream"] = "none" /\ u.made["pcm"] = t.made["pcm"] /\ u.made["dials"] = t.made["dials"]
  BY <1>2, Kind3
<1> QED BY <1>1, <1>4, <1>5, <1>6

\* The dials set by hand
LEMMA SetTouches ==
  ASSUME NEW t \in Tabs, NEW u \in Tabs,
         u = [t EXCEPT !.muted = u.muted, !.position = u.position, !.heard = u.heard,
                       !.tick = u.tick, !.shown = u.shown, !.failed = u.failed]
  PROVE  Touch(t, u) /\ u.made = t.made
<1>1. u.live = t.live /\ u.pending = t.pending /\ u.made = t.made
  BY DEF Tabs
<1>2. u.text = t.text /\ u.cursor = t.cursor /\ u.sel = t.sel /\ u.spots = t.spots /\ u.at = t.at
  BY DEF Tabs
<1> QED BY <1>1, <1>2 DEF Touch

\* What the dials are
LEMMA DialsOf ==
  ASSUME NEW t \in Tabs
  PROVE  /\ t.muted \in BOOLEAN /\ t.position \in Nat /\ t.heard \in Nat /\ t.tick \in BOOLEAN
         /\ t.shown \in Faces /\ t.failed \in BOOLEAN
         /\ Has(t, "stream") \in BOOLEAN
BY DEF Tabs, Has

\* The page is told what is heard.
LEMMA ReportGood ==
  ASSUME NEW t \in Semi, NEW p \in BOOLEAN, p = Has(t, "stream") PROVE Report(t, p) \in Good
<1>1. t \in Tabs /\ BarOK(t) /\ FoundOK(t) /\ MadeOK(t) /\ Streams(t)
  BY DEF Semi
<1>2. CASE ~ t.live
  BY <1>2 DEF Report, Good, Tells
<1>3. CASE t.live
  <2>1. PICK s : s = [playing |-> p, muted |-> t.muted, time |-> t.position]
    OBVIOUS
  <2>2. s \in Faces /\ s.playing = p /\ s.muted = t.muted /\ s.time = t.position
    BY <1>1, <2>1, DialsOf DEF Faces
  <2>3. PICK u : u = [t EXCEPT !.shown = s, !.failed = FALSE]
    OBVIOUS
  <2>4. /\ Touch(t, u) /\ u.made = t.made /\ u.shown = s /\ u.failed = FALSE
        /\ u.muted = t.muted /\ u.position = t.position /\ u.tick = t.tick
    <3>1. u \in Tabs
      BY <1>1, <2>2, <2>3 DEF Tabs
    <3>2. /\ u.shown = s /\ u.failed = FALSE
          /\ u.muted = t.muted /\ u.position = t.position /\ u.heard = t.heard /\ u.tick = t.tick
      BY <1>1, <2>3 DEF Tabs
    <3>3. u = [t EXCEPT !.muted = u.muted, !.position = u.position, !.heard = u.heard,
                        !.tick = u.tick, !.shown = u.shown, !.failed = u.failed]
      BY <1>1, <2>3, <3>2 DEF Tabs
    <3> QED BY <1>1, <3>1, <3>2, <3>3, SetTouches
  <2>5. Streams(u)
    BY <1>1, <2>4 DEF Streams, Has
  <2>6. u \in Semi
    BY <1>1, <2>4, <2>5, TouchSemi
  <2>7. Tells(u)
    BY <2>2, <2>4 DEF Tells, Has
  <2>8. Report(t, p) = u
    BY <1>3, <2>1, <2>3 DEF Report
  <2> QED BY <2>6, <2>7, <2>8 DEF Good
<1> QED BY <1>2, <1>3

\* A stream is stopped, whether or not a tick is due.
LEMMA StopIs ==
  ASSUME NEW t \in Tabs, BarOK(t), FoundOK(t), MadeOK(t),
         Has(t, "stream") \/ Streams(t)
  PROVE  Stop(t) \in Semi /\ ~ Has(Stop(t), "stream")
<1>1. CASE ~ Has(t, "stream")
  BY <1>1 DEF Stop, Semi
<1>2. CASE Has(t, "stream")
  <2>1. PICK u : u = [t EXCEPT !.position = t.heard]
    OBVIOUS
  <2>2. u \in Tabs
    BY <2>1 DEF Tabs
  <2>3. u = [t EXCEPT !.muted = u.muted, !.position = u.position, !.heard = u.heard,
                      !.tick = u.tick, !.shown = u.shown, !.failed = u.failed]
    BY <2>1 DEF Tabs
  <2>4. Touch(t, u) /\ u.made = t.made
    BY <2>2, <2>3, SetTouches
  <2>5. PICK v : v = Forget(u, {"stream"})
    OBVIOUS
  <2>6. Touch(u, v) /\ v.made["stream"] = "none" /\ v.made["pcm"] = t.made["pcm"] /\ v \in Tabs
    BY <2>2, <2>4, <2>5, ForgetTouches DEF Touch
  <2>7. PICK w : w = Make(v, "dials")
    OBVIOUS
  <2>8. Touch(v, w) /\ Has(w, "dials") /\ w.made["stream"] = "none" /\ w.made["pcm"] = t.made["pcm"]
    BY <2>6, <2>7, MakeTouches
  <2>9. Touch(t, w)
    BY <2>4, <2>6, <2>8, TouchTwice
  <2>10. Streams(w) /\ ~ Has(w, "stream")
    BY <2>8 DEF Streams, Has
  <2>11. Stop(t) = w
    BY <1>2, <2>1, <2>5, <2>7 DEF Stop
  <2> QED BY <2>9, <2>10, <2>11, TouchSemi
<1> QED BY <1>1, <1>2

LEMMA PauseGood ==
  ASSUME NEW t \in Tabs, BarOK(t), FoundOK(t), MadeOK(t), Has(t, "stream") \/ Streams(t)
  PROVE  Pause(t) \in Good
<1>1. Stop(t) \in Semi /\ FALSE = Has(Stop(t), "stream")
  BY StopIs
<1> QED BY <1>1, ReportGood DEF Pause

LEMMA SemiHas == ASSUME NEW t \in Semi PROVE t \in Tabs /\ BarOK(t) /\ FoundOK(t) /\ MadeOK(t) /\ Streams(t)
BY DEF Semi

LEMMA FetchedGood ==
  ASSUME NEW t \in Good, NEW u \in Fetched(t) PROVE u \in Good /\ Has(u, "pcm")
<1>1. CASE Has(t, "pcm")
  BY <1>1 DEF Fetched
<1>2. CASE ~ Has(t, "pcm") /\ t.live
  <2>1. t \in Tabs /\ BarOK(t) /\ FoundOK(t) /\ MadeOK(t) /\ Streams(t) /\ Tells(t)
    BY IsTab, SemiHas DEF Good
  <2>2. u = Make(t, "pcm")
    BY <1>2 DEF Fetched
  <2>3. /\ Touch(t, u) /\ Has(u, "pcm") /\ u.made["pcm"] # "left"
        /\ u.made["stream"] = t.made["stream"] /\ u.made["dials"] = t.made["dials"]
        /\ u.muted = t.muted /\ u.position = t.position /\ u.heard = t.heard /\ u.tick = t.tick
        /\ u.shown = t.shown /\ u.failed = t.failed
    BY <2>1, <2>2, MakeTouches
  <2>4. t.made["pcm"] = "none" /\ t.made["stream"] = "none"
    BY <1>2, <2>1 DEF Streams, Has
  <2>5. Streams(u)
    BY <2>3, <2>4 DEF Streams, Has
  <2>6. u \in Semi
    BY <2>1, <2>3, <2>5, TouchSemi
  <2>7. Tells(u)
    BY <2>1, <2>3, <2>4 DEF Tells, Fresh, Touch, Has
  <2> QED BY <2>3, <2>6, <2>7 DEF Good
<1>3. CASE ~ Has(t, "pcm") /\ ~ t.live
  BY <1>3 DEF Fetched
<1> QED BY <1>1, <1>2, <1>3

\* A stream that was started
LEMMA StartGood ==
  ASSUME NEW t \in Semi, Has(t, "pcm")
  PROVE  Report([StartPlayback(t) EXCEPT !.tick = TRUE], TRUE) \in Good
<1>1. t \in Tabs /\ BarOK(t) /\ FoundOK(t) /\ MadeOK(t) /\ Streams(t)
  BY SemiHas
<1>2. PICK u : u = [t EXCEPT !.heard = t.position]
  OBVIOUS
<1>3. u \in Tabs
  BY <1>1, <1>2 DEF Tabs
<1>4. Touch(t, u) /\ u.made = t.made
  <2>1. u = [t EXCEPT !.muted = u.muted, !.position = u.position, !.heard = u.heard,
                      !.tick = u.tick, !.shown = u.shown, !.failed = u.failed]
    BY <1>1, <1>2 DEF Tabs
  <2> QED BY <1>1, <1>3, <2>1, SetTouches
<1>5. PICK v : v = Make(u, "stream")
  OBVIOUS
<1>6. /\ Touch(u, v) /\ Has(v, "stream") /\ v.made["stream"] # "left" /\ v \in Tabs
      /\ v.made["pcm"] = t.made["pcm"]
  BY <1>3, <1>4, <1>5, MakeTouches DEF Touch
<1>7. PICK w : w = [v EXCEPT !.tick = TRUE]
  OBVIOUS
<1>8. w \in Tabs /\ w.tick = TRUE
  BY <1>6, <1>7 DEF Tabs
<1>9. Touch(v, w) /\ w.made = v.made
  <2>1. w = [v EXCEPT !.muted = w.muted, !.position = w.position, !.heard = w.heard,
                      !.tick = w.tick, !.shown = w.shown, !.failed = w.failed]
    BY <1>6, <1>7 DEF Tabs
  <2> QED BY <1>6, <1>8, <2>1, SetTouches
<1>10. Touch(t, w)
  BY <1>4, <1>6, <1>9, TouchTwice
<1>11. Streams(w) /\ Has(w, "stream")
  BY <1>6, <1>8, <1>9 DEF Streams, Has
<1>12. w \in Semi
  BY <1>1, <1>10, <1>11, TouchSemi
<1>13. Report(w, TRUE) \in Good
  BY <1>11, <1>12, ReportGood
<1>14. w = [StartPlayback(t) EXCEPT !.tick = TRUE]
  BY <1>2, <1>5, <1>7 DEF StartPlayback
<1> QED BY <1>13, <1>14

LEMMA PlayGood == ASSUME NEW t \in Good PROVE Play(t) \subseteq Good
<1>1. \A u \in Fetched(t) : u \in Good /\ Report([StartPlayback(u) EXCEPT !.tick = TRUE], TRUE) \in Good
  BY FetchedGood, StartGood, IsTab
<1> QED BY <1>1 DEF Play

LEMMA ToggleGood == ASSUME NEW t \in Good PROVE Toggle(t) \subseteq Good
BY IsTab, SemiHas, PauseGood, PlayGood DEF Toggle

LEMMA MuteGood == ASSUME NEW t \in Good PROVE Mute(t) \in Good
<1>1. t \in Tabs /\ BarOK(t) /\ FoundOK(t) /\ MadeOK(t) /\ Streams(t)
  BY IsTab, SemiHas
<1>2. PICK m : m = ~ t.muted
  OBVIOUS
<1>3. PICK u : u = [t EXCEPT !.muted = m]
  OBVIOUS
<1>4. u \in Tabs
  BY <1>1, <1>2, <1>3, ZenonT(60) DEF Tabs
<1>5. Touch(t, u) /\ u.made = t.made /\ u.tick = t.tick
  <2>1. u = [t EXCEPT !.muted = u.muted, !.position = u.position, !.heard = u.heard,
                      !.tick = u.tick, !.shown = u.shown, !.failed = u.failed]
    BY <1>1, <1>3 DEF Tabs
  <2>2. u.tick = t.tick
    BY <1>1, <1>3 DEF Tabs
  <2> QED BY <1>1, <1>4, <2>1, <2>2, SetTouches
<1>6. u = [t EXCEPT !.muted = ~ @]
  BY <1>1, <1>2, <1>3 DEF Tabs
<1>7. PICK v : v = Make(u, "dials")
  OBVIOUS
<1>8. /\ Touch(u, v) /\ Has(v, "dials") /\ v.tick = t.tick
      /\ v.made["pcm"] = t.made["pcm"] /\ v.made["stream"] = t.made["stream"]
  BY <1>4, <1>5, <1>7, MakeTouches
<1>9. Touch(t, v)
  BY <1>5, <1>8, TouchTwice
<1>10. Streams(v)
  BY <1>1, <1>8 DEF Streams, Has
<1>11. v \in Semi
  BY <1>1, <1>9, <1>10, TouchSemi
<1>12. PICK p : p = Has(t, "stream")
  OBVIOUS
<1>13. p \in BOOLEAN /\ p = Has(v, "stream")
  BY <1>8, <1>12 DEF Has
<1>14. Report(v, p) \in Good
  BY <1>11, <1>13, ReportGood
<1> QED BY <1>6, <1>7, <1>12, <1>14 DEF Mute

LEMMA JumpedIs ==
  ASSUME NEW t \in Semi, Has(t, "pcm"), NEW to \in Nat
  PROVE  /\ Jumped(t, to) \in Semi /\ ~ Has(Jumped(t, to), "stream") /\ Has(Jumped(t, to), "pcm")
         /\ Has(t, "stream") => Jumped(t, to) \in Good
<1>1. t \in Tabs /\ BarOK(t) /\ FoundOK(t) /\ MadeOK(t) /\ Streams(t)
  BY SemiHas
<1>2. PICK f : f = Has(t, "stream")
  OBVIOUS
<1>3. f \in BOOLEAN
  BY <1>1, <1>2, DialsOf
<1>4. PICK u : u = [t EXCEPT !.position = to, !.failed = f]
  OBVIOUS
<1>5. u \in Tabs /\ u.failed = f
  BY <1>1, <1>3, <1>4 DEF Tabs
<1>6. Touch(t, u) /\ u.made = t.made
  <2>1. u = [t EXCEPT !.muted = u.muted, !.position = u.position, !.heard = u.heard,
                      !.tick = u.tick, !.shown = u.shown, !.failed = u.failed]
    BY <1>1, <1>4 DEF Tabs
  <2> QED BY <1>1, <1>5, <2>1, SetTouches
<1>7. PICK v : v = Forget(u, {"stream"})
  OBVIOUS
<1>8. /\ Touch(u, v) /\ v.made["stream"] = "none" /\ v.made["pcm"] = t.made["pcm"]
      /\ v \in Tabs /\ v.failed = f
  BY <1>5, <1>6, <1>7, ForgetTouches DEF Touch
<1>9. PICK w : w = Make(v, "dials")
  OBVIOUS
<1>10. /\ Touch(v, w) /\ Has(w, "dials") /\ w.made["stream"] = "none" /\ w.made["pcm"] = t.made["pcm"]
       /\ w.failed = f
  BY <1>8, <1>9, MakeTouches
<1>11. Touch(t, w)
  BY <1>6, <1>8, <1>10, TouchTwice
<1>12. Streams(w) /\ ~ Has(w, "stream") /\ Has(w, "pcm")
  BY <1>10 DEF Streams, Has
<1>13. w \in Semi
  BY <1>1, <1>11, <1>12, TouchSemi
<1>14. Has(t, "stream") => w \in Good
  BY <1>2, <1>10, <1>12, <1>13 DEF Good, Tells
<1>15. Jumped(t, to) = w
  BY <1>2, <1>4, <1>7, <1>9 DEF Jumped
<1> QED BY <1>12, <1>13, <1>14, <1>15

LEMMA SoughtGood ==
  ASSUME NEW t \in Semi, Has(t, "pcm"), NEW to \in Nat PROVE Sought(t, to) \subseteq Good
<1>1. PICK m : m = Jumped(t, to)
  OBVIOUS
<1>2. m \in Semi /\ ~ Has(m, "stream") /\ (Has(t, "stream") => m \in Good)
  BY <1>1, JumpedIs
<1>3. CASE Has(t, "stream")
  BY <1>1, <1>2, <1>3, PlayGood DEF Sought
<1>4. CASE ~ Has(t, "stream")
  <2>1. FALSE = Has(m, "stream") /\ FALSE \in BOOLEAN
    BY <1>2
  <2>2. Report(m, FALSE) \in Good
    BY <1>2, <2>1, ReportGood
  <2> QED BY <1>1, <1>4, <2>2 DEF Sought
<1> QED BY <1>3, <1>4

LEMMA SeekGood == ASSUME NEW t \in Good, NEW to \in Nat PROVE Seek(t, to) \subseteq Good
<1>1. \A u \in Fetched(t) : Sought(u, to) \subseteq Good
  BY FetchedGood, SoughtGood, IsTab
<1> QED BY <1>1 DEF Seek

LEMMA ProgressGood == ASSUME NEW t \in Good PROVE Progress(t) \subseteq Good
<1>1. t \in Tabs /\ BarOK(t) /\ FoundOK(t) /\ MadeOK(t) /\ Streams(t) /\ Tells(t)
  BY IsTab, SemiHas DEF Good
<1>2. CASE Has(t, "stream") /\ ~ Ended(t)
  <2>1. ASSUME NEW h \in t.heard .. Duration
        PROVE  Report([t EXCEPT !.position = h, !.heard = h], TRUE) \in Good
    <3>1. h \in Nat
      BY <1>1, Constants, DialsOf
    <3>2. PICK u : u = [t EXCEPT !.position = h, !.heard = h]
      OBVIOUS
    <3>3. u \in Tabs /\ u.tick = t.tick
      BY <1>1, <3>1, <3>2 DEF Tabs
    <3>4. u = [t EXCEPT !.muted = u.muted, !.position = u.position, !.heard = u.heard,
                        !.tick = u.tick, !.shown = u.shown, !.failed = u.failed]
      BY <1>1, <3>2 DEF Tabs
    <3>5. Touch(t, u) /\ u.made = t.made
      BY <1>1, <3>3, <3>4, SetTouches
    <3>6. Streams(u) /\ TRUE = Has(u, "stream")
      BY <1>1, <1>2, <3>3, <3>5 DEF Streams, Has
    <3>7. u \in Semi
      BY <1>1, <3>5, <3>6, TouchSemi
    <3>8. Report(u, TRUE) \in Good
      BY <3>6, <3>7, ReportGood
    <3> QED BY <3>2, <3>8
  <2> QED BY <1>2, <2>1 DEF Progress
<1>3. CASE ~ (Has(t, "stream") /\ ~ Ended(t))
  <2>1. PICK u : u = [t EXCEPT !.tick = FALSE]
    OBVIOUS
  <2>2. u \in Tabs /\ u.muted = t.muted /\ u.position = t.position /\ u.shown = t.shown /\ u.failed = t.failed
    BY <1>1, <2>1 DEF Tabs
  <2>3. u = [t EXCEPT !.muted = u.muted, !.position = u.position, !.heard = u.heard,
                      !.tick = u.tick, !.shown = u.shown, !.failed = u.failed]
    BY <1>1, <2>1 DEF Tabs
  <2>4. Touch(t, u) /\ u.made = t.made
    BY <1>1, <2>2, <2>3, SetTouches
  <2>5. BarOK(u) /\ FoundOK(u) /\ MadeOK(u)
    BY <1>1, <2>4 DEF Touch, BarOK, FoundOK, MadeOK
  <2>6. CASE Ended(t)
    <3>1. Has(u, "stream")
      BY <2>4, <2>6 DEF Ended, Has
    <3>2. Pause(u) \in Good
      BY <2>2, <2>5, <3>1, PauseGood
    <3> QED BY <1>3, <2>1, <2>6, <3>2 DEF Progress
  <2>7. CASE ~ Ended(t)
    <3>1. ~ Has(t, "stream")
      BY <1>3, <2>7
    <3>2. Streams(u)
      BY <1>1, <2>2, <2>4, <3>1 DEF Streams, Has
    <3>3. Tells(u)
      BY <1>1, <2>2, <2>4 DEF Tells, Fresh, Has, Touch
    <3>4. u \in Good
      BY <2>2, <2>5, <3>2, <3>3 DEF Good, Semi
    <3> QED BY <1>3, <2>1, <2>7, <3>4 DEF Progress
  <2> QED BY <2>6, <2>7
<1> QED BY <1>2, <1>3

-----------------------------------------------------------------------------
(* Focus and replies                                                       *)

LEMMA RenderedGood == ASSUME NEW t \in Good PROVE Rendered(t) \subseteq Good
BY MakeOther DEF Rendered, Others

LEMMA FocusSet ==
  ASSUME NEW t \in Good
  PROVE  /\ [t EXCEPT !.field = FALSE, !.outlined = FALSE] \in Good
         /\ [t EXCEPT !.field = TRUE, !.outlined = TRUE] \in Good
         /\ [t EXCEPT !.outlined = FALSE, !.field = FALSE] \in Good
         /\ [t EXCEPT !.outlined = TRUE, !.field = FALSE] \in Good
         /\ [t EXCEPT !.outlined = TRUE, !.field = TRUE] \in Good
<1>1. 0 \in Nat /\ "console" \in Panels /\ TRUE \in BOOLEAN /\ FALSE \in BOOLEAN
  BY DEF Panels
<1> QED BY <1>1, PlainGood

LEMMA BlurGood == ASSUME NEW t \in Good PROVE Blur(t) \in Good
BY FocusSet DEF Blur

LEMMA FocusedGood == ASSUME NEW t \in Good PROVE Focused(t) \subseteq Good
BY RenderedGood, FocusSet DEF Focused

LEMMA FollowGood == ASSUME NEW t \in Good PROVE Follow(t) \subseteq Good
BY NavigateGood DEF Follow

LEMMA ActivateGood == ASSUME NEW t \in Good PROVE ActivateFocus(t) \subseteq Good
BY FocusedGood, FollowGood DEF ActivateFocus

LEMMA ToPageGood == ASSUME NEW t \in Good PROVE ToPage(t) \subseteq Good
BY RenderedGood, NavigateGood DEF ToPage

LEMMA SnapshotGood == ASSUME NEW t \in Good PROVE RefreshSnapshot(t) \subseteq Good
<1>1. "snapshot" \in Others /\ {"snapshot"} \in SUBSET Others
  BY DEF Others
<1>2. Make(t, "snapshot") \in Good /\ Forget(t, {"snapshot"}) \in Good
  BY <1>1, MakeOther, ForgetOther
<1> QED BY <1>2 DEF RefreshSnapshot

\* The switches, one by one
LEMMA SwitchGood ==
  ASSUME NEW t \in Good, NEW a \in BOOLEAN, NEW b \in BOOLEAN
  PROVE  /\ [t EXCEPT !.editing = a] \in Good /\ [t EXCEPT !.console = a] \in Good
         /\ [t EXCEPT !.picking = a] \in Good /\ [t EXCEPT !.open = a] \in Good
         /\ [t EXCEPT !.console = a, !.picking = b] \in Good
         /\ [t EXCEPT !.console = a, !.editing = b] \in Good
         /\ [t EXCEPT !.console = a, !.finding = b] \in Good
         /\ [t EXCEPT !.typed = 0] \in Good /\ [t EXCEPT !.typed = 1] \in Good
         /\ [t EXCEPT !.query = 0] \in Good /\ [t EXCEPT !.query = 1] \in Good
         /\ [t EXCEPT !.panel = "console"] \in Good /\ [t EXCEPT !.panel = "elements"] \in Good
<1>1. 0 \in Nat /\ 1 \in Nat /\ "console" \in Panels /\ "elements" \in Panels
  BY DEF Panels
<1>2. /\ [t EXCEPT !.editing = a] \in Good /\ [t EXCEPT !.console = a] \in Good
      /\ [t EXCEPT !.picking = a] \in Good /\ [t EXCEPT !.open = a] \in Good
  BY <1>1, PlainGood
<1>3. /\ [t EXCEPT !.console = a, !.picking = b] \in Good
      /\ [t EXCEPT !.console = a, !.editing = b] \in Good
      /\ [t EXCEPT !.console = a, !.finding = b] \in Good
  BY <1>1, PlainGood
<1>4. \A n \in Nat : [t EXCEPT !.typed = n] \in Good /\ [t EXCEPT !.query = n] \in Good
  BY <1>1, PlainGood
<1>5. \A p \in Panels : [t EXCEPT !.panel = p] \in Good
  BY <1>1, PlainGood
<1> QED BY <1>1, <1>2, <1>3, <1>4, <1>5

LEMMA TakeConsoleGood == ASSUME NEW t \in Good PROVE TakeConsole(t) \in Good
BY BlurGood, CancelGood, ExitFindGood, SwitchGood DEF TakeConsole

LEMMA EnterFindGood == ASSUME NEW t \in Good PROVE EnterFind(t) \in Good
BY BlurGood, CancelGood, SwitchGood DEF EnterFind

-----------------------------------------------------------------------------
(* Back and forward                                                        *)

\* The end of a history is an address and a place.
LEMMA HistoryIs ==
  ASSUME NEW h \in Hists, h # <<>>
  PROVE  /\ Front(h) \in Hists /\ Last(h)[1] \in Pages /\ Last(h)[2] \in Int
         /\ h = Append(Front(h), Last(h))
<1>1. Len(h) \in Nat /\ Len(h) > 0 /\ h \in Seq(Pages \X Int)
  BY DEF Hists
<1>2. Last(h) = h[Len(h)] /\ h[Len(h)] \in Pages \X Int
  BY <1>1 DEF Last
<1>3. Front(h) = SubSeq(h, 1, Len(h) - 1)
  BY DEF Front
<1>4. Front(h) \in Seq(Pages \X Int)
  BY <1>1, <1>3
<1>5. Last(h)[1] \in Pages /\ Last(h)[2] \in Int
  BY <1>2
<1>6. h = Append(Front(h), Last(h))
  BY <1>1, <1>2, <1>3
<1> QED BY <1>4, <1>5, <1>6 DEF Hists

LEMMA StepHist ==
  ASSUME NEW t \in Good, NEW h \in Hists
  PROVE  Append(h, <<t.url, t.scroll>>) \in Hists
<1>1. t.url \in Pages /\ t.scroll \in Int
  BY IsTab DEF Tabs
<1> QED BY <1>1 DEF Hists

LEMMA BackIs ==
  ASSUME NEW t \in Good, t.back # <<>>
  PROVE  \E v \in Good :
           /\ v = [t EXCEPT !.back = Front(@), !.fwd = Append(@, <<t.url, t.scroll>>)]
           /\ v.back = Front(t.back) /\ v.fwd = Append(t.fwd, <<t.url, t.scroll>>)
           /\ v.pending = t.pending
           /\ GoBack(t) = GoTo(v, Last(t.back)[1], Last(t.back)[2])
<1>1. t \in Tabs
  BY IsTab
<1>2. t.back \in Hists /\ t.fwd \in Hists
  BY <1>1 DEF Tabs
<1>3. PICK b : b = Front(t.back)
  OBVIOUS
<1>4. PICK f : f = Append(t.fwd, <<t.url, t.scroll>>)
  OBVIOUS
<1>5. b \in Hists /\ f \in Hists
  BY <1>2, <1>3, <1>4, HistoryIs, StepHist
<1>6. PICK v : v = [t EXCEPT !.back = b, !.fwd = f]
  OBVIOUS
<1>7. v \in Good
  BY <1>5, <1>6, HistoryGood
<1>8. v.back = b /\ v.fwd = f /\ v.pending = t.pending
  BY <1>1, <1>6 DEF Tabs
<1>9. v = [t EXCEPT !.back = Front(@), !.fwd = Append(@, <<t.url, t.scroll>>)]
  BY <1>1, <1>3, <1>4, <1>6 DEF Tabs
<1> QED BY <1>3, <1>4, <1>7, <1>8, <1>9 DEF GoBack

LEMMA ForwardIs ==
  ASSUME NEW t \in Good, t.fwd # <<>>
  PROVE  \E v \in Good :
           /\ v = [t EXCEPT !.fwd = Front(@), !.back = Append(@, <<t.url, t.scroll>>)]
           /\ v.fwd = Front(t.fwd) /\ v.back = Append(t.back, <<t.url, t.scroll>>)
           /\ v.pending = t.pending
           /\ GoForward(t) = GoTo(v, Last(t.fwd)[1], Last(t.fwd)[2])
<1>1. t \in Tabs
  BY IsTab
<1>2. t.back \in Hists /\ t.fwd \in Hists
  BY <1>1 DEF Tabs
<1>3. PICK f : f = Front(t.fwd)
  OBVIOUS
<1>4. PICK b : b = Append(t.back, <<t.url, t.scroll>>)
  OBVIOUS
<1>5. b \in Hists /\ f \in Hists
  BY <1>2, <1>3, <1>4, HistoryIs, StepHist
<1>6. PICK v : v = [t EXCEPT !.fwd = f, !.back = b]
  OBVIOUS
<1>7. v \in Good
  BY <1>5, <1>6, HistoryGood
<1>8. v.back = b /\ v.fwd = f /\ v.pending = t.pending
  BY <1>1, <1>6 DEF Tabs
<1>9. v = [t EXCEPT !.fwd = Front(@), !.back = Append(@, <<t.url, t.scroll>>)]
  BY <1>1, <1>3, <1>4, <1>6 DEF Tabs
<1> QED BY <1>3, <1>4, <1>7, <1>8, <1>9 DEF GoForward

LEMMA BackGood == ASSUME NEW t \in Good PROVE GoBack(t) \subseteq Good
<1>1. CASE t.back = <<>>
  BY <1>1 DEF GoBack
<1>2. CASE t.back # <<>>
  <2>1. t.back \in Hists
    BY IsTab DEF Tabs
  <2>2. PICK u : u = Last(t.back)[1]
    OBVIOUS
  <2>3. PICK s : s = Last(t.back)[2]
    OBVIOUS
  <2>4. u \in Pages /\ s \in Int
    BY <1>2, <2>1, <2>2, <2>3, HistoryIs
  <2>5. PICK v \in Good : GoBack(t) = GoTo(v, u, s)
    BY <1>2, <2>2, <2>3, BackIs
  <2>6. \A x \in GoTo(v, u, s) : x \in Good
    BY <2>4, GoToIs
  <2> QED BY <2>5, <2>6
<1> QED BY <1>1, <1>2

LEMMA ForwardGood == ASSUME NEW t \in Good PROVE GoForward(t) \subseteq Good
<1>1. CASE t.fwd = <<>>
  BY <1>1 DEF GoForward
<1>2. CASE t.fwd # <<>>
  <2>1. t.fwd \in Hists
    BY IsTab DEF Tabs
  <2>2. PICK u : u = Last(t.fwd)[1]
    OBVIOUS
  <2>3. PICK s : s = Last(t.fwd)[2]
    OBVIOUS
  <2>4. u \in Pages /\ s \in Int
    BY <1>2, <2>1, <2>2, <2>3, HistoryIs
  <2>5. PICK v \in Good : GoForward(t) = GoTo(v, u, s)
    BY <1>2, <2>2, <2>3, ForwardIs
  <2>6. \A x \in GoTo(v, u, s) : x \in Good
    BY <2>4, GoToIs
  <2> QED BY <2>5, <2>6
<1> QED BY <1>1, <1>2

LEMMA ReloadGood == ASSUME NEW t \in Good PROVE Reload(t) \subseteq Good
<1>1. t.url \in Pages /\ t.scroll \in Int
  BY IsTab DEF Tabs
<1> QED BY <1>1, GoToIs DEF Reload

-----------------------------------------------------------------------------
(* The invariant                                                           *)

LEMMA BlankGood == ASSUME NEW u \in Pages, NEW ok \in BOOLEAN PROVE Blank(u, ok) \in Good
<1>1. PICK n : n = TextOf[u]
  OBVIOUS
<1>2. PICK h : h = <<>>
  OBVIOUS
<1>3. PICK p : p = None
  OBVIOUS
<1>4. PICK s : s = Paused
  OBVIOUS
<1>5. PICK m : m = Nothing
  OBVIOUS
<1>6. n \in Nat /\ n <= MaxText
  BY <1>1, Constants
<1>7. h \in Hists /\ h \in Selections /\ h \in Lists
  BY <1>2 DEF Hists, Selections, Lists
<1>8. p \in Loads /\ p.busy = FALSE
  BY <1>3, Constants DEF None, Loads
<1>9. s \in Faces /\ s.playing = FALSE /\ s.muted = FALSE /\ s.time = 0
  BY <1>4 DEF Paused, Faces
<1>10. m \in Mades /\ \A k \in Kinds : m[k] = "none"
  BY <1>5 DEF Nothing, Mades, Colours
<1>11. "console" \in Panels
  BY DEF Panels
<1>12. PICK t : t = Blank(u, ok)
  OBVIOUS
<1>13. /\ t \in Tabs /\ t.text = n /\ t.cursor = n /\ t.sel = h /\ t.spots = h
       /\ t.pending = p /\ t.made = m
  <2>1. t = [url |-> u, live |-> ok, scroll |-> 0, back |-> h, fwd |-> h, pending |-> p,
             text |-> n, cursor |-> n, sel |-> h, editing |-> FALSE,
             finding |-> FALSE, query |-> 0, spots |-> h, at |-> 0,
             open |-> FALSE, panel |-> "console", console |-> FALSE, typed |-> 0, picking |-> FALSE,
             field |-> FALSE, outlined |-> FALSE,
             muted |-> FALSE, position |-> 0, heard |-> 0, tick |-> FALSE, shown |-> s,
             failed |-> FALSE, made |-> m]
    BY <1>1, <1>2, <1>3, <1>4, <1>5, <1>12 DEF Blank
  <2>2. p \in Loads /\ s \in Faces /\ m \in Mades
    BY <1>8, <1>9, <1>10
  <2>3. t \in Tabs
    BY <1>6, <1>7, <1>11, <2>1, <2>2 DEF Tabs
  <2> QED BY <2>1, <2>3
<1>14. t.muted = FALSE /\ t.position = 0 /\ t.failed = FALSE /\ t.shown = s
  BY <1>4, <1>12 DEF Blank
<1>15. BarOK(t) /\ FoundOK(t)
  BY <1>2, <1>6, <1>13 DEF BarOK, FoundOK
<1>16. MadeOK(t)
  BY <1>8, <1>10, <1>13 DEF MadeOK
<1>17. t.made["pcm"] = "none" /\ t.made["stream"] = "none" /\ t.made["dials"] = "none"
  BY <1>10, <1>13, Kind3
<1>18. Streams(t)
  BY <1>14, <1>17 DEF Streams, Has
<1>19. Tells(t)
  BY <1>9, <1>14, <1>17 DEF Tells, Has
<1> QED BY <1>12, <1>13, <1>15, <1>16, <1>18, <1>19 DEF Good, Semi

LEMMA InitOK == Init => IInv
<1> SUFFICES ASSUME Init PROVE IInv
  OBVIOUS
<1>1. PICK u \in Pages : \E ok \in BOOLEAN : tabs = <<Blank(u, ok)>>
  BY Constants DEF Init
<1>2. PICK b \in Good : tabs = <<b>>
  BY <1>1, BlankGood
<1>3. tabs \in Seq(Good) /\ DOMAIN tabs = {1}
  BY <1>2
<1> QED BY <1>3, Constants DEF Init, IInv

LEMMA EventOK == ASSUME IInv, NEW ts, ts \subseteq Good, Event(ts) PROVE IInv'
<1>1. PICK t \in ts : tabs' = [tabs EXCEPT ![active] = t]
  BY DEF Event
<1>2. t \in Good /\ tabs \in Seq(Good) /\ active \in DOMAIN tabs
  BY <1>1 DEF IInv
<1>3. tabs' \in Seq(Good) /\ DOMAIN tabs' = DOMAIN tabs
  BY <1>1, <1>2
<1>4. active' = active /\ events' \in 0 .. MaxEvents
  BY Constants DEF Event, IInv
<1> QED BY <1>2, <1>3, <1>4 DEF IInv

LEMMA TabGood == ASSUME IInv PROVE Tab \in Good
BY DEF IInv, Tab

LEMMA CharTypedOK == ASSUME IInv, CharTyped PROVE IInv'
<1> DEFINE t == Tab
<1>1. t \in Good
  BY TabGood
<1>2. ActivateFocus(t) \subseteq Good /\ Rendered(t) \subseteq Good
  BY <1>1, ActivateGood, RenderedGood
<1>3. {[t EXCEPT !.typed = 1]} \subseteq Good
  BY <1>1, SwitchGood
<1>4. {RefreshFind([t EXCEPT !.query = 1])} \subseteq Good
  BY <1>1, SwitchGood, RefreshFindGood
<1>5. DeleteSelection(t).text < MaxText => {Insert(t)} \subseteq Good
  BY <1>1, InsertGood
<1> HIDE DEF t
<1> QED BY <1>2, <1>3, <1>4, <1>5, EventOK DEF CharTyped, t

LEMMA BackspaceOK == ASSUME IInv, Backspace PROVE IInv'
<1> DEFINE t == Tab
<1>1. t \in Good
  BY TabGood
<1>2. {Rub(t)} \subseteq Good /\ Rendered(t) \subseteq Good
  BY <1>1, RubGood, RenderedGood
<1>3. {[t EXCEPT !.typed = 0]} \subseteq Good
  BY <1>1, SwitchGood
<1>4. {RefreshFind([t EXCEPT !.query = 0])} \subseteq Good
  BY <1>1, SwitchGood, RefreshFindGood
<1> QED BY <1>2, <1>3, <1>4, EventOK DEF Backspace

LEMMA ArrowOK == ASSUME IInv, Arrow PROVE IInv'
<1>1. Tab \in Good
  BY TabGood
<1>2. \A key \in {"left", "right", "home", "end"} : {Move(Tab, key)} \subseteq Good
  BY <1>1, MoveGood
<1>3. Rendered(Tab) \subseteq Good
  BY <1>1, RenderedGood
<1> QED BY <1>2, <1>3, EventOK DEF Arrow

LEMMA TextRange == ASSUME NEW t \in Good PROVE TextOf[t.url] \in 0 .. MaxText
BY IsTab, Constants DEF Tabs

LEMMA EnteredGood == ASSUME NEW t \in Good PROVE Entered(t) \subseteq Good
<1>1. {SetText(t, TextOf[t.url])} \subseteq Good
  BY TextRange, SetTextGood
<1>2. \A u \in Local : LoadLocal(Record(t), u) \in Good
  BY RecordGood, LoadLocalGood, Constants
<1>3. \A u \in GoBack(t) \cup GoForward(t) : SetText(u, TextOf[u.url]) \in Good
  BY BackGood, ForwardGood, TextRange, SetTextGood
<1>4. \A u \in Remote : Navigate(t, u) \subseteq Good
  BY NavigateGood
<1> QED BY <1>1, <1>2, <1>3, <1>4 DEF Entered

LEMMA EnterOK == ASSUME IInv, Enter PROVE IInv'
<1> DEFINE t == Tab
<1>1. t \in Good
  BY TabGood
<1>2. ActivateFocus(t) \subseteq Good /\ ToPage(t) \subseteq Good
  BY <1>1, ActivateGood, ToPageGood
<1>3. Rendered([t EXCEPT !.typed = 0]) \subseteq Good
  BY <1>1, SwitchGood, RenderedGood
<1>4. {Turn(t, 1)} \subseteq Good
  BY <1>1, TurnGood
<1>5. Entered([t EXCEPT !.editing = FALSE]) \subseteq Good
  BY <1>1, SwitchGood, EnteredGood
<1> QED BY <1>2, <1>3, <1>4, <1>5, EventOK DEF Enter

LEMMA EscapeOK == ASSUME IInv, Escape PROVE IInv'
<1> DEFINE t == Tab
<1>1. t \in Good
  BY TabGood
<1>2. {[t EXCEPT !.console = FALSE]} \subseteq Good
  BY <1>1, SwitchGood
<1>3. {ExitFind(t)} \subseteq Good /\ {CancelEdit(t)} \subseteq Good /\ {Blur(t)} \subseteq Good
  BY <1>1, ExitFindGood, CancelGood, BlurGood
<1> QED BY <1>2, <1>3, EventOK DEF Escape

LEMMA KeysOK ==
  ASSUME IInv, NavigateBack \/ NavigateForward \/ ReloadKey \/ Find \/ FindPrevious PROVE IInv'
<1> DEFINE t == [Tab EXCEPT !.editing = FALSE]
<1>1. Tab \in Good /\ t \in Good
  BY TabGood, SwitchGood
<1>2. GoBack(t) \subseteq Good /\ GoForward(t) \subseteq Good /\ Reload(t) \subseteq Good
  BY <1>1, BackGood, ForwardGood, ReloadGood
<1>3. {EnterFind(Tab)} \subseteq Good /\ {Turn(Tab, -1)} \subseteq Good
  BY <1>1, EnterFindGood, TurnGood
<1> QED BY <1>2, <1>3, EventOK DEF NavigateBack, NavigateForward, ReloadKey, Find, FindPrevious

LEMMA FocusMoveOK == ASSUME IInv, FocusMove PROVE IInv'
<1>1. {ClampScroll(t) : t \in Focused(Tab)} \subseteq Good
  BY TabGood, FocusedGood, ClampGood
<1> QED BY <1>1, EventOK DEF FocusMove

LEMMA ScrollOK == ASSUME IInv, Scroll PROVE IInv'
<1>1. PICK by \in {-1, 1} : Event({ClampScroll([Tab EXCEPT !.scroll = Max({0, @ + by})])})
  BY DEF Scroll
<1>2. Tab \in Good /\ Tab \in Tabs
  BY TabGood, IsTab
<1>3. PICK s : s = Max({0, Tab.scroll + by})
  OBVIOUS
<1>4. s \in Int
  BY <1>2, <1>3, MaxTwo DEF Tabs
<1>5. [Tab EXCEPT !.scroll = Max({0, @ + by})] = [Tab EXCEPT !.scroll = s]
  BY <1>2, <1>3 DEF Tabs
<1>6. {ClampScroll([Tab EXCEPT !.scroll = Max({0, @ + by})])} \subseteq Good
  BY <1>2, <1>4, <1>5, ScrollGood, ClampGood
<1> QED BY <1>1, <1>6, EventOK

LEMMA ToggleDevToolsOK == ASSUME IInv, ToggleDevTools PROVE IInv'
<1>1. PICK t : t = [Tab EXCEPT !.open = ~ @]
  OBVIOUS
<1>2. t \in Good
  <2>1. PICK o : o = ~ Tab.open
    OBVIOUS
  <2>2. o \in BOOLEAN
    BY <2>1
  <2>3. t = [Tab EXCEPT !.open = o]
    BY <1>1, <2>1, TabGood, IsTab DEF Tabs
  <2> QED BY <2>2, <2>3, TabGood, SwitchGood
<1>3. PICK S : S = IF ~ t.open THEN {[t EXCEPT !.console = FALSE, !.picking = FALSE]}
                   ELSE IF t.panel = "elements" THEN RefreshSnapshot(t) ELSE {t}
  OBVIOUS
<1>4. S \subseteq Good
  BY <1>2, <1>3, SwitchGood, SnapshotGood
<1>5. {ClampScroll(u) : u \in S} \subseteq Good
  BY <1>4, ClampGood
<1>6. Event({ClampScroll(u) : u \in S})
  BY <1>1, <1>3 DEF ToggleDevTools
<1> QED BY <1>5, <1>6, EventOK

LEMMA ClickButtonOK == ASSUME IInv, ClickButton PROVE IInv'
<1>1. PICK t : t = [Blur(Tab) EXCEPT !.console = FALSE, !.editing = FALSE]
  OBVIOUS
<1>2. t \in Good
  BY <1>1, TabGood, BlurGood, SwitchGood
<1>3. GoBack(t) \subseteq Good /\ GoForward(t) \subseteq Good /\ Reload(t) \subseteq Good
  BY <1>2, BackGood, ForwardGood, ReloadGood
<1>4. {t, LoadLocal(Record(t), Home)} \subseteq Good
  BY <1>2, RecordGood, LoadLocalGood, Constants
<1>5. Event(GoBack(t) \cup GoForward(t) \cup Reload(t) \cup {t, LoadLocal(Record(t), Home)})
  BY <1>1 DEF ClickButton
<1> QED BY <1>3, <1>4, <1>5, EventOK

LEMMA ClickBarOK == ASSUME IInv, ClickBar PROVE IInv'
<1>1. PICK t : t = [Blur(Tab) EXCEPT !.console = FALSE]
  OBVIOUS
<1>2. t \in Good /\ t \in Tabs
  BY <1>1, TabGood, BlurGood, SwitchGood, IsTab
<1>3. CASE \E i \in 0 .. t.text : Event({[t EXCEPT !.cursor = i, !.sel = <<>>]})
  <2>1. \A i \in 0 .. t.text : {[t EXCEPT !.cursor = i, !.sel = <<>>]} \subseteq Good
    BY <1>2, CursorGood, ZenonT(60) DEF Selections
  <2> QED BY <1>3, <2>1, EventOK
<1>4. CASE Event({[t EXCEPT !.editing = TRUE, !.cursor = t.text,
                            !.sel = IF t.text > 0 THEN <<0, t.text>> ELSE <<>>]})
  <2>1. PICK s : s = IF t.text > 0 THEN <<0, t.text>> ELSE <<>>
    OBVIOUS
  <2>2. t.text \in Nat
    BY <1>2 DEF Tabs
  <2>3. s \in Selections /\ (s # <<>> => s[1] < s[2] /\ s[2] <= t.text) /\ t.text \in 0 .. t.text
    BY <2>1, <2>2 DEF Selections
  <2>4. PICK u : u = [t EXCEPT !.cursor = t.text, !.sel = s]
    OBVIOUS
  <2>5. u \in Good /\ u \in Tabs
    BY <1>2, <2>3, <2>4, CursorGood, IsTab
  <2>6. [u EXCEPT !.editing = TRUE] \in Good
    BY <2>5, SwitchGood
  <2>7. [u EXCEPT !.editing = TRUE] = [t EXCEPT !.editing = TRUE, !.cursor = t.text, !.sel = s]
    BY <1>2, <2>4 DEF Tabs
  <2>8. {[t EXCEPT !.editing = TRUE, !.cursor = t.text, !.sel = s]} \subseteq Good
    BY <2>6, <2>7
  <2>9. Event({[t EXCEPT !.editing = TRUE, !.cursor = t.text, !.sel = s]})
    BY <1>4, <2>1
  <2> QED BY <2>8, <2>9, EventOK
<1> QED BY <1>1, <1>3, <1>4 DEF ClickBar

LEMMA ClickToolsOK == ASSUME IInv, ClickTools PROVE IInv'
<1> DEFINE t == Tab
<1>1. t \in Good /\ "selected" \in Others
  BY TabGood DEF Others
<1>2. {[t EXCEPT !.panel = "console"]} \subseteq Good /\ RefreshSnapshot([t EXCEPT !.panel = "elements"]) \subseteq Good
  BY <1>1, SwitchGood, SnapshotGood
<1>3. {[t EXCEPT !.picking = TRUE]} \subseteq Good
  BY <1>1, SwitchGood
<1>4. {Make(t, "selected")} \subseteq Good
  BY <1>1, MakeOther
<1>5. {TakeConsole(t), [t EXCEPT !.console = FALSE]} \subseteq Good
  BY <1>1, SwitchGood, TakeConsoleGood
<1>6. {[t EXCEPT !.panel = "console"]} \cup RefreshSnapshot([t EXCEPT !.panel = "elements"]) \subseteq Good
  BY <1>2
<1> QED BY <1>3, <1>4, <1>5, <1>6, EventOK DEF ClickTools

LEMMA ClickPageOK == ASSUME IInv, ClickPage PROVE IInv'
<1>1. PICK t : t = [CancelEdit(Tab) EXCEPT !.console = FALSE]
  OBVIOUS
<1>2. t \in Good /\ "selected" \in Others /\ t.url \in Pages
  BY <1>1, TabGood, CancelGood, SwitchGood, IsTab, ZenonT(60) DEF Others, Tabs
<1>3. CASE Event({Make([t EXCEPT !.picking = FALSE], "selected"), [t EXCEPT !.picking = FALSE]})
  <2>1. [t EXCEPT !.picking = FALSE] \in Good
    BY <1>2, SwitchGood
  <2>2. Make([t EXCEPT !.picking = FALSE], "selected") \in Good
    BY <1>2, <2>1, MakeOther
  <2>3. {Make([t EXCEPT !.picking = FALSE], "selected"), [t EXCEPT !.picking = FALSE]} \subseteq Good
    BY <2>1, <2>2
  <2> QED BY <1>3, <2>3, EventOK
<1>4. CASE Event(IF t.url \in Local THEN {LoadLocal(t, t.url)} \cup Follow(Blur(t)) ELSE {Blur(t)})
  <2>1. LoadLocal(t, t.url) \in Good /\ Blur(t) \in Good /\ Follow(Blur(t)) \subseteq Good
    BY <1>2, LoadLocalGood, BlurGood, FollowGood
  <2> QED BY <1>4, <2>1, EventOK
<1>5. CASE Event(UNION {ToPage(u) : u \in {Blur(t), [t EXCEPT !.field = TRUE, !.outlined = TRUE]}})
  <2>1. \A u \in {Blur(t), [t EXCEPT !.field = TRUE, !.outlined = TRUE]} : ToPage(u) \subseteq Good
    BY <1>2, BlurGood, FocusSet, ToPageGood
  <2> QED BY <1>5, <2>1, EventOK
<1> QED BY <1>1, <1>3, <1>4, <1>5 DEF ClickPage

LEMMA ClickMediaOK == ASSUME IInv, ClickMedia PROVE IInv'
<1>1. PICK t : t = [CancelEdit(Tab) EXCEPT !.console = FALSE]
  OBVIOUS
<1>2. t \in Good
  BY <1>1, TabGood, CancelGood, SwitchGood
<1>3. Toggle(t) \cup {Mute(t)} \subseteq Good
  BY <1>2, ToggleGood, MuteGood
<1>4. \A p \in 0 .. Duration : Seek(t, p) \subseteq Good
  BY <1>2, SeekGood, Constants
<1>5. UNION {Seek(t, p) : p \in 0 .. Duration} \subseteq Good
  BY <1>4
<1>6. Toggle(t) \cup {Mute(t)} \cup UNION {Seek(t, p) : p \in 0 .. Duration} \subseteq Good
  BY <1>3, <1>5
<1>7. Event(Toggle(t) \cup {Mute(t)} \cup UNION {Seek(t, p) : p \in 0 .. Duration})
  BY <1>1 DEF ClickMedia
<1> QED BY <1>6, <1>7, EventOK

LEMMA NewTabOK == ASSUME IInv, NewTab PROVE IInv'
<1>1. Blank(Home, FALSE) \in Good
  BY BlankGood, Constants
<1>2. PICK b : b = Blank(Home, FALSE)
  OBVIOUS
<1>3. tabs \in Seq(Good) /\ tabs' = Append(tabs, b) /\ b \in Good
  BY <1>1, <1>2 DEF IInv, NewTab
<1>4. tabs' \in Seq(Good) /\ Len(tabs') = Len(tabs) + 1 /\ Len(tabs) \in Nat
  BY <1>3
<1>5. active' \in DOMAIN tabs'
  BY <1>4 DEF NewTab
<1>6. events' \in 0 .. MaxEvents
  BY Constants DEF NewTab, IInv
<1> QED BY <1>4, <1>5, <1>6 DEF IInv

LEMMA CloseTabOK == ASSUME IInv, NEW i \in DOMAIN tabs, CloseTab(i) PROVE IInv'
<1>1. tabs \in Seq(Good) /\ Len(tabs) \in Nat /\ i \in 1 .. Len(tabs) /\ active \in 1 .. Len(tabs)
  BY DEF IInv
<1>2. tabs' = SubSeq(tabs, 1, i - 1) \o SubSeq(tabs, i + 1, Len(tabs)) /\ Len(tabs) > 1
  BY DEF CloseTab, RemoveAt
<1>3. PICK a : a = SubSeq(tabs, 1, i - 1)
  OBVIOUS
<1>4. PICK b : b = SubSeq(tabs, i + 1, Len(tabs))
  OBVIOUS
<1>5. tabs' \in Seq(Good) /\ Len(tabs') = Len(tabs) - 1
  <2>1. a \in Seq(Good) /\ Len(a) = i - 1
    BY <1>1, <1>3
  <2>2. b \in Seq(Good) /\ Len(b) = Len(tabs) - i
    BY <1>1, <1>4
  <2>3. tabs' = a \o b
    BY <1>2, <1>3, <1>4
  <2> QED BY <1>1, <2>1, <2>2, <2>3
<1>6. active' \in 1 .. Len(tabs')
  BY <1>1, <1>2, <1>5, SMTT(30) DEF CloseTab
<1>7. events' \in 0 .. MaxEvents
  BY Constants DEF CloseTab, IInv
<1> QED BY <1>5, <1>6, <1>7 DEF IInv

LEMMA SwitchToOK == ASSUME IInv, NEW i \in DOMAIN tabs, SwitchTo(i) PROVE IInv'
BY Constants DEF SwitchTo, IInv

LEMMA UserOK == ASSUME IInv, User PROVE IInv'
BY CharTypedOK, BackspaceOK, ArrowOK, EnterOK, EscapeOK, KeysOK, FocusMoveOK, ScrollOK,
   ToggleDevToolsOK, ClickButtonOK, ClickBarOK, ClickToolsOK, ClickPageOK, ClickMediaOK,
   NewTabOK, CloseTabOK, SwitchToOK
DEF User

-----------------------------------------------------------------------------
(* What comes in by itself                                                 *)

\* One tab changed, by itself
LEMMA PutOK ==
  ASSUME IInv, NEW i \in DOMAIN tabs, NEW t \in Good,
         tabs' = [tabs EXCEPT ![i] = t], UNCHANGED <<active, events>>
  PROVE  IInv'
<1>1. tabs \in Seq(Good) /\ active \in DOMAIN tabs
  BY DEF IInv
<1>2. tabs' \in Seq(Good) /\ DOMAIN tabs' = DOMAIN tabs
  BY <1>1
<1> QED BY <1>1, <1>2 DEF IInv

LEMMA TabIs == ASSUME IInv, NEW i \in DOMAIN tabs PROVE tabs[i] \in Good
BY DEF IInv

\* A load that waits, once its reply is there
LEMMA AnswerGood ==
  ASSUME NEW t \in Good, t.pending.busy, NEW ok \in BOOLEAN
  PROVE  LET x == Arrived([t EXCEPT !.pending = None], t.pending.url, t.pending.restore, ok) IN
         /\ x \in Good /\ x.url = t.pending.url /\ x.scroll = t.pending.restore
         /\ x.back = t.back /\ x.fwd = t.fwd /\ x.pending = None
<1>1. t \in Tabs /\ BarOK(t) /\ FoundOK(t) /\ MadeOK(t) /\ Streams(t)
  BY IsTab, SemiHas
<1>2. PICK p : p = None
  OBVIOUS
<1>3. p \in Loads /\ p.busy = FALSE
  BY <1>2, Constants DEF None, Loads
<1>4. PICK y : y = [t EXCEPT !.pending = p]
  OBVIOUS
<1>5. y \in Tabs /\ y.pending = p /\ y.made = t.made
  BY <1>1, <1>3, <1>4 DEF Tabs
<1>6. y.text = t.text /\ y.cursor = t.cursor /\ y.sel = t.sel /\ y.spots = t.spots /\ y.at = t.at
  BY <1>1, <1>4 DEF Tabs
<1>7. y.muted = t.muted /\ y.position = t.position /\ y.tick = t.tick /\ y.back = t.back /\ y.fwd = t.fwd
  BY <1>1, <1>4 DEF Tabs
<1>8. BarOK(y) /\ FoundOK(y)
  BY <1>1, <1>6 DEF BarOK, FoundOK
<1>9. Streams(y)
  BY <1>1, <1>5, <1>7 DEF Streams, Has
<1>10. Ready(y)
  BY <1>1, <1>3, <1>5, <1>8, <1>9 DEF Ready, MadeOK
<1>11. t.pending \in Loads
  BY <1>1 DEF Tabs
<1>12. t.pending.url \in Pages /\ t.pending.restore \in Int
  BY <1>11 DEF Loads
<1>13. PICK x : x = Arrived(y, t.pending.url, t.pending.restore, ok)
  OBVIOUS
<1>14. x \in Good /\ Shows(y, x, t.pending.url) /\ x.scroll = t.pending.restore
  BY <1>10, <1>12, <1>13, ArrivedGood
<1> QED BY <1>2, <1>4, <1>5, <1>7, <1>13, <1>14 DEF Shows

LEMMA ArriveOK == ASSUME IInv, NEW i \in DOMAIN tabs, Arrive(i) PROVE IInv'
<1>1. tabs[i] \in Good /\ tabs[i].pending.busy
  BY TabIs DEF Arrive
<1> DEFINE x(ok) == Arrived([tabs[i] EXCEPT !.pending = None], tabs[i].pending.url, tabs[i].pending.restore, ok)
<1>2. \A ok \in BOOLEAN : x(ok) \in Good
  BY <1>1, AnswerGood
<1>3. \E ok \in BOOLEAN : tabs' = [tabs EXCEPT ![i] = IF i = active THEN ClampScroll(x(ok)) ELSE x(ok)]
  BY DEF Arrive
<1>4. UNCHANGED <<active, events>>
  BY DEF Arrive
<1> HIDE DEF x
<1>5. \E t \in Good : tabs' = [tabs EXCEPT ![i] = t]
  BY <1>2, <1>3, ClampGood
<1> QED BY <1>4, <1>5, PutOK

LEMMA WakeOK == ASSUME IInv, NEW i \in DOMAIN tabs, Wake(i) PROVE IInv'
<1>1. Make(tabs[i], "log") \in Good
  BY TabIs, MakeOther DEF Others
<1> QED BY <1>1, PutOK DEF Wake

LEMMA SoundOK == ASSUME IInv, NEW i \in DOMAIN tabs, Sound(i) PROVE IInv'
<1>1. tabs[i] \in Good /\ tabs[i] \in Tabs
  BY TabIs, IsTab
<1>2. PICK h : h = tabs[i].heard + 1
  OBVIOUS
<1>3. h \in Nat
  BY <1>1, <1>2 DEF Tabs
<1>4. [tabs[i] EXCEPT !.heard = h] \in Good
  BY <1>1, <1>3, HeardGood
<1>5. tabs' = [tabs EXCEPT ![i] = [tabs[i] EXCEPT !.heard = h]]
  BY <1>1, <1>2 DEF Sound, IInv, Tabs
<1> QED BY <1>4, <1>5, PutOK DEF Sound

LEMMA MediaTickOK == ASSUME IInv, NEW i \in DOMAIN tabs, MediaTick(i) PROVE IInv'
<1>1. Progress(tabs[i]) \subseteq Good
  BY TabIs, ProgressGood
<1> QED BY <1>1, PutOK DEF MediaTick

\* Every step of the browser keeps its tabs sound.
THEOREM Invariant == Spec => []IInv
<1>1. ASSUME IInv, [Next]_vars PROVE IInv'
  <2>1. CASE User
    BY <1>1, <2>1, UserOK
  <2>2. CASE \E i \in DOMAIN tabs : Arrive(i) \/ Wake(i) \/ Sound(i) \/ MediaTick(i)
    BY <1>1, <2>2, ArriveOK, WakeOK, SoundOK, MediaTickOK
  <2>3. CASE UNCHANGED vars
    BY <1>1, <2>3 DEF vars, IInv
  <2> QED BY <1>1, <2>1, <2>2, <2>3 DEF Next
<1> QED BY <1>1, InitOK, PTL DEF Spec

-----------------------------------------------------------------------------
(* The theorems                                                            *)

\* The address bar's cursor and selection stay inside its text, although a late
\* reply, Back or a reload replaces it while it is edited.
THEOREM BarsSound == Spec => []AddressBarOK
<1>1. IInv => AddressBarOK
  <2> SUFFICES ASSUME IInv, NEW i \in DOMAIN tabs
               PROVE  LET t == tabs[i] IN
                      /\ t.text \in 0 .. MaxText /\ t.cursor \in 0 .. t.text
                      /\ t.sel = <<>> \/ (0 <= t.sel[1] /\ t.sel[1] < t.sel[2] /\ t.sel[2] <= t.text)
    BY DEF AddressBarOK
  <2> QED BY TabIs, BarOf
<1> QED BY <1>1, Invariant, PTL

\* What a tab keeps about a page goes with it, whichever way the page is left.
THEOREM NothingStale == Spec => []LeftoversAreLate
<1>1. IInv => LeftoversAreLate
  BY TabIs, IsTab, SemiHas DEF LeftoversAreLate, MadeOK
<1> QED BY <1>1, Invariant, PTL

\* A page shows the sound that is heard, its mute switch and its time.
THEOREM SoundShown == Spec => []PlaybackAgrees
<1>1. IInv => PlaybackAgrees
  <2> SUFFICES ASSUME IInv, NEW i \in DOMAIN tabs,
                      tabs[i].live, ~ tabs[i].pending.busy, ~ tabs[i].failed,
                      \A k \in {"pcm", "stream", "dials"} : tabs[i].made[k] # "left"
               PROVE  LET t == tabs[i] IN
                      /\ Has(t, "stream") <=> t.shown.playing
                      /\ Has(t, "stream") => t.tick
                      /\ Has(t, "pcm") => t.shown.muted = t.muted /\ t.shown.time = t.position
    BY DEF PlaybackAgrees
  <2>1. tabs[i] \in Good /\ Tells(tabs[i]) /\ Streams(tabs[i])
    BY TabIs, IsTab, SemiHas DEF Good
  <2> QED BY <2>1 DEF Tells, Fresh, Streams
<1> QED BY <1>1, Invariant, PTL

\* What may become of a tab that was sent to an address, once the page is there:
\* it shows that page at the place asked for, if the page is long enough.
LEMMA SettledIs ==
  ASSUME NEW t \in Good, ~ t.pending.busy, NEW u \in Pages, NEW s \in Int,
         NEW x \in Settled({y \in GoTo(t, u, s) : y.pending.busy \/ y.url \in Local})
  PROVE  /\ x \in Good /\ ~ x.pending.busy /\ x.url = u
         /\ x.back = t.back /\ x.fwd = t.fwd
         /\ x.scroll = Min({s, MaxScroll(x)})
<1> DEFINE G == {y \in GoTo(t, u, s) : y.pending.busy \/ y.url \in Local}
           There(y) == ClampScroll(Arrived([y EXCEPT !.pending = None], y.pending.url, y.pending.restore, TRUE))
<1>1. PICK y \in G : x = IF y.pending.busy THEN There(y) ELSE y
  BY DEF Settled
<1>2. y \in GoTo(t, u, s) /\ (y.pending.busy \/ y.url \in Local)
  BY <1>1
<1>3. y \in Good /\ y.back = t.back /\ y.fwd = t.fwd
  BY <1>2, GoToIs
<1>4. \/ u \in Remote /\ y.pending = Load(u, s) /\ y.pending.busy
      \/ u \in Remote /\ y.pending = t.pending /\ y.url = u
      \/ u \in Local /\ Shows(t, y, u) /\ y.scroll = Min({s, MaxScroll(y)})
  BY <1>2, GoToIs
<1> HIDE DEF G
<1>5. CASE y.pending.busy
  <2>1. y.pending = Load(u, s)
    BY <1>4, <1>5 DEF Shows
  <2>2. y.pending.url = u /\ y.pending.restore = s
    BY <2>1 DEF Load
  <2>3. PICK z : z = Arrived([y EXCEPT !.pending = None], y.pending.url, y.pending.restore, TRUE)
    OBVIOUS
  <2>4. z \in Good /\ z.url = u /\ z.scroll = s /\ z.back = t.back /\ z.fwd = t.fwd /\ z.pending = None
    BY <1>3, <1>5, <2>2, <2>3, AnswerGood
  <2>5. x = ClampScroll(z)
    BY <1>1, <1>5, <2>3
  <2>6. x \in Good
    BY <2>4, <2>5, ClampGood
  <2>7. Shows(z, x, z.url) /\ x.scroll = Min({z.scroll, MaxScroll(x)})
    BY <2>4, <2>5, IsTab, ClampKeeps
  <2> QED BY <2>4, <2>6, <2>7 DEF Shows, None
<1>6. CASE ~ y.pending.busy
  <2>1. x = y
    BY <1>1, <1>6
  <2>2. u \in Local /\ Shows(t, y, u) /\ y.scroll = Min({s, MaxScroll(y)})
    BY <1>2, <1>4, <1>6, Constants
  <2> QED BY <1>3, <1>6, <2>1, <2>2 DEF Shows
<1> QED BY <1>5, <1>6

\* The sequence of addresses of a history
Names(h) == [j \in DOMAIN h |-> h[j][1]]

LEMMA NamesOf ==
  ASSUME NEW h \in Hists, NEW a, NEW b, a[1] = b[1]
  PROVE  Names(Append(h, a)) = Names(Append(h, b))
<1>1. h \in Seq(Pages \X Int)
  BY DEF Hists
<1>2. PICK x : x = Append(h, a)
  OBVIOUS
<1>3. PICK y : y = Append(h, b)
  OBVIOUS
<1>4. DOMAIN x = DOMAIN y
  BY <1>1, <1>2, <1>3
<1>5. \A j \in DOMAIN x : x[j][1] = y[j][1]
  <2> TAKE j \in DOMAIN x
  <2>1. CASE j = Len(h) + 1
    BY <1>1, <1>2, <1>3, <2>1
  <2>2. CASE j # Len(h) + 1
    BY <1>1, <1>2, <1>3, <2>2
  <2> QED BY <2>1, <2>2
<1>6. Names(x) = Names(y)
  BY <1>4, <1>5 DEF Names
<1> QED BY <1>2, <1>3, <1>6

LEMMA FrontOf ==
  ASSUME NEW h \in Hists, NEW a \in Pages \X Int
  PROVE  Front(Append(h, a)) = h /\ Last(Append(h, a)) = a /\ Append(h, a) # <<>>
<1>1. h \in Seq(Pages \X Int) /\ Len(h) \in Nat
  BY DEF Hists
<1>2. PICK x : x = Append(h, a)
  OBVIOUS
<1>3. x \in Seq(Pages \X Int) /\ Len(x) = Len(h) + 1 /\ x[Len(x)] = a /\ \A j \in 1 .. Len(h) : x[j] = h[j]
  BY <1>1, <1>2
<1>4. Front(x) = SubSeq(x, 1, Len(h))
  BY <1>1, <1>3 DEF Front
<1>5. SubSeq(x, 1, Len(h)) = h
  <2>1. PICK f : f = SubSeq(x, 1, Len(h))
    OBVIOUS
  <2>2. f \in Seq(Pages \X Int) /\ Len(f) = Len(h) /\ \A j \in 1 .. Len(h) : f[j] = x[j]
    BY <1>1, <1>3, <2>1
  <2> QED BY <1>1, <1>3, <2>1, <2>2
<1>6. Last(x) = a /\ x # <<>>
  BY <1>1, <1>3 DEF Last
<1> QED BY <1>2, <1>4, <1>5, <1>6

\* Back and then Forward lead to the address, the place and the history one came from.
THEOREM RoundTrips == Spec => []HistoryRoundTrip
<1>1. IInv => HistoryRoundTrip
  <2> SUFFICES ASSUME IInv,
                      NEW t, t = Tab, ~ t.pending.busy, t.back # <<>>,
                      NEW b \in Settled({x \in GoBack(t) : x.pending.busy \/ x.url \in Local}),
                      NEW f \in Settled({x \in GoForward(b) : x.pending.busy \/ x.url \in Local})
               PROVE  /\ f.url = t.url /\ f.fwd = t.fwd
                      /\ f.scroll = Min({t.scroll, MaxScroll(f)})
                      /\ Names(f.back) = Names(t.back)
    BY DEF HistoryRoundTrip, Names
  <2>1. t \in Good /\ t.url \in Pages /\ t.scroll \in Int /\ t.back \in Hists /\ t.fwd \in Hists
    BY TabGood, IsTab DEF Tabs
  <2>2. PICK v \in Good :
          /\ v.back = Front(t.back) /\ v.fwd = Append(t.fwd, <<t.url, t.scroll>>)
          /\ v.pending = t.pending
          /\ GoBack(t) = GoTo(v, Last(t.back)[1], Last(t.back)[2])
    BY <2>1, BackIs
  <2>3. PICK u : u = Last(t.back)[1]
    OBVIOUS
  <2>4. PICK s : s = Last(t.back)[2]
    OBVIOUS
  <2>5. u \in Pages /\ s \in Int /\ Front(t.back) \in Hists /\ t.back = Append(Front(t.back), Last(t.back))
    BY <2>1, <2>3, <2>4, HistoryIs
  <2>6. b \in Settled({x \in GoTo(v, u, s) : x.pending.busy \/ x.url \in Local})
    BY <2>2, <2>3, <2>4
  <2>7. b \in Good /\ ~ b.pending.busy /\ b.url = u /\ b.back = v.back /\ b.fwd = v.fwd
    BY <2>2, <2>5, <2>6, SettledIs
  <2>8. Front(b.fwd) = t.fwd /\ Last(b.fwd) = <<t.url, t.scroll>> /\ b.fwd # <<>>
    BY <2>1, <2>2, <2>7, FrontOf
  <2>9. PICK w \in Good :
          /\ w.fwd = Front(b.fwd) /\ w.back = Append(b.back, <<b.url, b.scroll>>)
          /\ w.pending = b.pending
          /\ GoForward(b) = GoTo(w, Last(b.fwd)[1], Last(b.fwd)[2])
    BY <2>7, <2>8, ForwardIs
  <2>10. PICK o : o = t.url
    OBVIOUS
  <2>11. PICK r : r = t.scroll
    OBVIOUS
  <2>12. /\ f.url = t.url /\ f.back = w.back /\ f.fwd = w.fwd
         /\ f.scroll = Min({t.scroll, MaxScroll(f)})
    <3>1. o \in Pages /\ r \in Int /\ ~ w.pending.busy
      BY <2>1, <2>7, <2>9, <2>10, <2>11
    <3>2. GoForward(b) = GoTo(w, o, r)
      BY <2>8, <2>9, <2>10, <2>11
    <3>3. f \in Settled({x \in GoTo(w, o, r) : x.pending.busy \/ x.url \in Local})
      BY <3>2
    <3>4. f.url = o /\ f.back = w.back /\ f.fwd = w.fwd /\ f.scroll = Min({r, MaxScroll(f)})
      BY <3>1, <3>3, SettledIs
    <3> QED BY <2>10, <2>11, <3>4
  <2>13. Names(w.back) = Names(t.back)
    <3>1. PICK h : h = Front(t.back)
      OBVIOUS
    <3>2. h \in Hists /\ w.back = Append(h, <<u, b.scroll>>) /\ t.back = Append(h, Last(t.back))
      BY <2>2, <2>5, <2>7, <2>9, <3>1
    <3>3. Last(t.back)[1] = <<u, b.scroll>>[1]
      BY <2>3
    <3> QED BY <3>2, <3>3, NamesOf
  <2> QED BY <2>8, <2>9, <2>12, <2>13
<1> QED BY <1>1, Invariant, PTL

-----------------------------------------------------------------------------
(* Bars: the inductive invariant                                           *)

\* The page is scrolled within its height, and the tree within its rows.
BarTypes ==
  /\ wide \in Nat /\ high \in Nat /\ count \in Nat \ {0} /\ tall \in Nat /\ nodes \in Nat
  /\ open \in BOOLEAN /\ elements \in BOOLEAN /\ finding \in BOOLEAN /\ signals \in BOOLEAN
BarInv == BarTypes /\ scroll \in 0 .. MaxOffset /\ treeRow \in 0 .. MaxTreeRow

\* The measures, in numbers.
InNumbers ==
         /\ Viewport = (IF high - 15 - Reserved >= 0 THEN high - 15 - Reserved ELSE 0)
         /\ MaxOffset = (IF tall - Viewport >= 0 THEN tall - Viewport ELSE 0)
         /\ MaxTreeRow = (IF nodes - 14 >= 0 THEN nodes - 14 ELSE 0)
         /\ Reserved = (IF open THEN 65 ELSE 0)

LEMMA Measures == BarTypes => InNumbers
<1> SUFFICES ASSUME BarTypes PROVE InNumbers
  OBVIOUS
<1>1. TreeRows = 14
  BY DEF TreeRows, PanelHeight, ToolsBar, RowHeight
<1>2. Reserved \in Nat /\ Reserved = (IF open THEN 65 ELSE 0)
  BY DEF Reserved, PanelHeight
<1>3. Viewport \in Nat /\ Viewport = (IF high - 15 - Reserved >= 0 THEN high - 15 - Reserved ELSE 0)
  BY <1>2, MaxTwo DEF BarTypes, Viewport, Top, TabBar, Address
<1>4. MaxOffset = (IF tall - Viewport >= 0 THEN tall - Viewport ELSE 0)
  BY <1>3, MaxTwo DEF BarTypes, MaxOffset
<1>5. MaxTreeRow = (IF nodes - 14 >= 0 THEN nodes - 14 ELSE 0)
  BY <1>1, MaxTwo DEF BarTypes, MaxTreeRow
<1> QED BY <1>2, <1>3, <1>4, <1>5 DEF InNumbers

LEMMA MeasuresNext == BarTypes' => InNumbers'
  BY Measures, PTL

LEMMA ClampedIs ==
  ASSUME NEW offset \in Int, NEW page \in Nat, NEW rows \in Nat, NEW panel \in Nat
  PROVE  /\ Clamped(offset, page, rows, panel) \in Nat
         /\ LET seen == IF rows - 15 - panel >= 0 THEN rows - 15 - panel ELSE 0
            IN  Clamped(offset, page, rows, panel) <= IF page - seen >= 0 THEN page - seen ELSE 0
<1>1. PICK seen : seen = IF rows - 15 - panel >= 0 THEN rows - 15 - panel ELSE 0
  OBVIOUS
<1>2. PICK most : most = IF page - seen >= 0 THEN page - seen ELSE 0
  OBVIOUS
<1>3. PICK least : least = IF 0 >= offset THEN 0 ELSE offset
  OBVIOUS
<1>4. seen \in Nat /\ most \in Nat /\ least \in Nat
  BY <1>1, <1>2, <1>3
<1>5. Max({0, offset}) = least
  BY <1>3, MaxTwo
<1>6. Max({0, rows - Top - panel}) = seen
  BY <1>1, MaxTwo DEF Top, TabBar, Address
<1>7. Max({0, page - seen}) = most
  BY <1>2, <1>4, MaxTwo
<1>8. Clamped(offset, page, rows, panel) = Min({least, most})
  BY <1>5, <1>6, <1>7 DEF Clamped
<1> QED BY <1>1, <1>2, <1>4, <1>8, MinTwo

LEMMA BarInitOK == BarsInit => BarInv
<1> SUFFICES ASSUME BarsInit PROVE BarInv
  OBVIOUS
<1>1. BarTypes
  BY BarsAssumption DEF BarsInit, BarTypes
<1> QED BY <1>1, Measures DEF InNumbers, BarsInit, BarInv, BarTypes

LEMMA ScrollClamped ==
  ASSUME BarTypes', NEW offset \in Int, NEW panel \in Nat, Reserved' = panel,
         scroll' = Clamped(offset, tall', high', panel)
  PROVE  scroll' \in 0 .. MaxOffset'
<1>1. InNumbers'
  BY MeasuresNext
<1>2. PICK page : page = tall'
  OBVIOUS
<1>3. PICK rows : rows = high'
  OBVIOUS
<1>4. page \in Nat /\ rows \in Nat
  BY <1>2, <1>3 DEF BarTypes
<1>5. PICK to : to = Clamped(offset, page, rows, panel)
  OBVIOUS
<1>6. PICK seen : seen = IF rows - 15 - panel >= 0 THEN rows - 15 - panel ELSE 0
  OBVIOUS
<1>7. to \in Nat /\ to <= IF page - seen >= 0 THEN page - seen ELSE 0
  BY <1>4, <1>5, <1>6, ClampedIs
<1>8. Viewport' = seen
  BY <1>1, <1>3, <1>6 DEF InNumbers
<1>9. MaxOffset' = (IF page - seen >= 0 THEN page - seen ELSE 0)
  BY <1>1, <1>2, <1>8 DEF InNumbers
<1>10. scroll' = to
  BY <1>2, <1>3, <1>5
<1> QED BY <1>4, <1>6, <1>7, <1>9, <1>10

LEMMA CanvasResizedOK == ASSUME BarInv, CanvasResized PROVE BarInv'
<1>1. BarTypes'
  BY BarsAssumption DEF CanvasResized, BarInv, BarTypes
<1>2. treeRow' \in 0 .. MaxTreeRow'
  BY DEF CanvasResized, BarInv, MaxTreeRow
<1>3. Reserved \in Nat /\ Reserved' = Reserved /\ tall' = tall /\ scroll \in Int
  BY Measures DEF InNumbers, BarInv, CanvasResized, Reserved
<1>4. scroll' \in 0 .. MaxOffset'
  BY <1>1, <1>3, ScrollClamped DEF CanvasResized
<1> QED BY <1>1, <1>2, <1>4 DEF BarInv

LEMMA WheelOK == ASSUME BarInv, NEW rows \in Int, Wheel(rows) PROVE BarInv'
<1>1. BarTypes' /\ UNCHANGED <<wide, high, count, finding, tall, open, elements, nodes, log, signals>>
  BY DEF Wheel, BarInv, BarTypes
<1>2. /\ Reserved \in Nat /\ Reserved' = Reserved /\ MaxTreeRow' = MaxTreeRow /\ MaxOffset' = MaxOffset
      /\ MaxTreeRow \in Nat /\ scroll \in Int /\ treeRow \in Int
  BY <1>1, Measures DEF InNumbers, BarInv, BarTypes, Reserved, MaxTreeRow, MaxOffset, Viewport
<1>3. scroll' \in 0 .. MaxOffset'
  <2>1. CASE ~ open
    <3>1. scroll + rows * RowHeight \in Int
      BY <1>2 DEF RowHeight
    <3>2. scroll' = Clamped(scroll + rows * RowHeight, tall, high, Reserved)
      BY <2>1 DEF Wheel
    <3> QED BY <1>1, <1>2, <3>1, <3>2, ScrollClamped
  <2>2. CASE open
    BY <1>2, <2>2 DEF Wheel, BarInv
  <2> QED BY <2>1, <2>2 DEF BarInv, BarTypes
<1>4. treeRow' \in 0 .. MaxTreeRow'
  <2>1. CASE open /\ elements
    <3>1. PICK r : r = treeRow + rows
      OBVIOUS
    <3>2. r \in Int /\ Min({treeRow, MaxTreeRow}) = treeRow
      BY <1>2, <3>1, MinTwo DEF BarInv
    <3>3. PICK n : n = IF MaxTreeRow <= r THEN MaxTreeRow ELSE r
      OBVIOUS
    <3>4. n \in Int /\ Min({MaxTreeRow, r}) = n
      BY <1>2, <3>2, <3>3, MinTwo
    <3>5. treeRow' = Max({0, n})
      BY <2>1, <3>1, <3>2, <3>4 DEF Wheel
    <3> QED BY <1>2, <3>2, <3>3, <3>4, <3>5, MaxTwo
  <2>2. CASE ~ (open /\ elements)
    BY <1>2, <2>2 DEF Wheel, BarInv
  <2> QED BY <2>1, <2>2
<1> QED BY <1>1, <1>3, <1>4 DEF BarInv

LEMMA RefreshedTree == ASSUME BarTypes', treeRow' = 0 PROVE treeRow' \in 0 .. MaxTreeRow'
<1>1. InNumbers'
  BY MeasuresNext
<1>2. nodes' \in Nat
  BY DEF BarTypes
<1>3. MaxTreeRow' \in Nat
  <2>1. PICK n : n = nodes'
    OBVIOUS
  <2>2. PICK most : most = IF n - 14 >= 0 THEN n - 14 ELSE 0
    OBVIOUS
  <2>3. MaxTreeRow' = most
    BY <1>1, <2>1, <2>2 DEF InNumbers
  <2>4. n \in Int
    BY <1>2, <2>1
  <2>5. most \in Nat
    BY <2>2, <2>4
  <2> QED BY <2>3, <2>5
<1>4. 0 \in 0 .. MaxTreeRow'
  BY <1>3
<1> QED BY <1>4

LEMMA ToggleToolsOK == ASSUME BarInv, ToggleTools PROVE BarInv'
<1>1. BarTypes'
  BY BarsAssumption DEF ToggleTools, RefreshTree, BarInv, BarTypes
<1>2. treeRow' \in 0 .. MaxTreeRow'
  <2>1. CASE treeRow' = 0
    BY <1>1, <2>1, RefreshedTree
  <2>2. CASE UNCHANGED <<nodes, treeRow>>
    BY <2>2 DEF BarInv, MaxTreeRow
  <2> QED BY <2>1, <2>2 DEF ToggleTools, RefreshTree
<1>3. PICK panel : panel = IF open THEN 0 ELSE PanelHeight
  OBVIOUS
<1>4. panel \in Nat /\ Reserved' = panel
  BY <1>3 DEF ToggleTools, BarInv, BarTypes, Reserved, PanelHeight
<1>5. scroll' = Clamped(scroll, tall', high', panel) /\ scroll \in Int
  BY <1>3, Measures DEF ToggleTools, BarInv, InNumbers
<1>6. scroll' \in 0 .. MaxOffset'
  BY <1>1, <1>4, <1>5, ScrollClamped
<1> QED BY <1>1, <1>2, <1>6 DEF BarInv

LEMMA PressToolsOK == ASSUME BarInv, PressTools PROVE BarInv'
<1>1. BarTypes'
  BY BarsAssumption DEF PressTools, RefreshTree, BarInv, BarTypes
<1>2. treeRow' \in 0 .. MaxTreeRow'
  <2>1. CASE treeRow' = 0
    BY <1>1, <2>1, RefreshedTree
  <2>2. CASE UNCHANGED <<nodes, treeRow>>
    BY <2>2 DEF BarInv, MaxTreeRow
  <2> QED BY <2>1, <2>2 DEF PressTools, RefreshTree
<1>3. scroll' = scroll /\ MaxOffset' = MaxOffset
  BY DEF PressTools, MaxOffset, Viewport, Reserved
<1> QED BY <1>1, <1>2, <1>3 DEF BarInv

LEMMA PageAnswersOK == ASSUME BarInv, PageAnswers PROVE BarInv'
<1>1. BarTypes'
  BY BarsAssumption DEF PageAnswers, BarInv, BarTypes
<1>2. treeRow' \in 0 .. MaxTreeRow'
  BY DEF PageAnswers, BarInv, MaxTreeRow
<1>3. Reserved \in Nat /\ Reserved' = Reserved /\ high' = high /\ scroll \in Int
  BY Measures DEF InNumbers, BarInv, PageAnswers, Reserved
<1>4. scroll' \in 0 .. MaxOffset'
  BY <1>1, <1>3, ScrollClamped DEF PageAnswers
<1> QED BY <1>1, <1>2, <1>4 DEF BarInv

LEMMA SameBars ==
  ASSUME BarInv, UNCHANGED <<wide, high, count, tall, scroll, open, elements, nodes, treeRow, signals>>,
         finding' \in BOOLEAN
  PROVE  BarInv'
  BY DEF BarInv, BarTypes, MaxOffset, Viewport, Reserved, MaxTreeRow

LEMMA TurnFindingOK == ASSUME BarInv, TurnFinding PROVE BarInv'
<1>1. finding' \in BOOLEAN
  BY DEF TurnFinding, BarInv, BarTypes
<1> QED BY <1>1, SameBars DEF TurnFinding

\* Whatever resizes, scrolls, opens and answers, the page stays scrolled within its
\* height and the tree within its rows (scroll_by, set_viewport, handle_click).
THEOREM BarsInvariant == BarsSpec => []BarInv
<1>1. BarsInit => BarInv
  BY BarInitOK
<1>2. ASSUME BarInv, [BarsNext]_barVars PROVE BarInv'
  <2>1. CASE \E rows \in {-8, 8} : Wheel(rows)
    <3>1. PICK rows \in Int : Wheel(rows)
      BY <2>1
    <3> QED BY <1>2, <3>1, WheelOK
  <2>2. CASE UNCHANGED barVars
    <3>1. finding' \in BOOLEAN
      BY <1>2, <2>2 DEF barVars, BarInv, BarTypes
    <3> QED BY <1>2, <2>2, <3>1, SameBars DEF barVars
  <2> QED BY <1>2, <2>1, <2>2, CanvasResizedOK, ToggleToolsOK, PressToolsOK, PageAnswersOK, TurnFindingOK
        DEF BarsNext
<1> QED BY <1>1, <1>2, PTL DEF BarsSpec

-----------------------------------------------------------------------------
(* Bars: the scrollbar's thumb, and quotients                              *)

LEMMA DivIs ==
  ASSUME NEW a \in Int, NEW n \in Nat \ {0}
  PROVE  /\ a \div n \in Int /\ n * (a \div n) <= a /\ a < n * (a \div n) + n
         /\ \A q \in Int : n * q <= a => q <= a \div n
<1>1. PICK k : k = a \div n
  OBVIOUS
<1>2. k \in Int /\ n * k <= a /\ a < n * k + n
  BY <1>1
<1>3. ASSUME NEW q \in Int, n * q <= a PROVE q <= k
  <2> SUFFICES ASSUME q >= k + 1 PROVE FALSE
    BY <1>2
  <2>1. n * q >= n * (k + 1)
    BY <1>2
  <2>2. n * (k + 1) = n * k + n
    BY <1>2
  <2> QED BY <1>2, <1>3, <2>1, <2>2
<1> QED BY <1>1, <1>2, <1>3

LEMMA DivAtMost ==
  ASSUME NEW a \in Nat, NEW n \in Nat \ {0}, NEW c \in Nat, a <= c * n
  PROVE  a \div n \in 0 .. c
<1>1. PICK k : k = a \div n
  OBVIOUS
<1>2. k \in Int /\ n * k <= a /\ a < n * k + n
  BY <1>1, DivIs
<1>3. k >= 0
  BY <1>2
<1>4. k <= c
  BY <1>2
<1> QED BY <1>1, <1>2, <1>3, <1>4

LEMMA CeilIs ==
  ASSUME NEW a \in Int, NEW n \in Nat \ {0}, NEW x \in Int
  PROVE  (a + n - 1) \div n \in Int /\ ((a + n - 1) \div n <= x <=> a <= x * n)
<1>1. PICK k : k = (a + n - 1) \div n
  OBVIOUS
<1>2. k \in Int /\ n * k <= a + n - 1 /\ a + n - 1 < n * k + n
  BY <1>1, DivIs
<1>3. k <= x => a <= x * n
  BY <1>2
<1>4. a <= x * n => k <= x
  BY <1>2
<1> QED BY <1>1, <1>2, <1>3, <1>4

LEMMA ThumbOK == ASSUME BarInv PROVE ThumbTellsPlace
<1>1. PICK v : v = Viewport
  OBVIOUS
<1>2. PICK m : m = MaxOffset
  OBVIOUS
<1>3. v \in Nat /\ m \in Nat /\ tall \in Nat /\ scroll \in 0 .. m
  <2>1. InNumbers /\ BarTypes
    BY Measures DEF BarInv
  <2>2. v \in Nat
    BY <1>1, <2>1 DEF InNumbers, BarTypes
  <2>3. m \in Nat
    BY <1>1, <1>2, <2>1, <2>2 DEF InNumbers, BarTypes
  <2> QED BY <1>2, <2>1, <2>2, <2>3 DEF BarInv, BarTypes
<1>4. PICK n : n = IF 1 >= tall THEN 1 ELSE tall
  OBVIOUS
<1>5. n \in Nat \ {0} /\ Max({1, tall}) = n
  BY <1>3, <1>4, MaxTwo
<1>6. PICK q : q = (v * v) \div n
  OBVIOUS
<1>7. q \in Int
  <2>1. v * v \in Int
    BY <1>3
  <2> QED BY <1>5, <1>6, <2>1, DivIs
<1>8. PICK b : b = IF 6 >= q THEN 6 ELSE q
  OBVIOUS
<1>9. b \in Int /\ b >= 6 /\ Max({MinThumb, q}) = b
  BY <1>7, <1>8, MaxTwo DEF MinThumb
<1>10. PICK thumb : thumb = IF v <= b THEN v ELSE b
  OBVIOUS
<1>11. thumb \in 0 .. v /\ Min({v, b}) = thumb
  BY <1>3, <1>9, <1>10, MinTwo
<1>12. thumb = Min({Viewport, Max({MinThumb, (Viewport * Viewport) \div Max({1, tall})})})
  BY <1>1, <1>5, <1>6, <1>9, <1>11
<1>13. PICK d : d = v - thumb
  OBVIOUS
<1>14. PICK k : k = IF 1 >= m THEN 1 ELSE m
  OBVIOUS
<1>15. k \in Nat \ {0} /\ Max({1, m}) = k /\ d \in Nat /\ m <= k
  BY <1>3, <1>11, <1>13, <1>14, MaxTwo
<1>16. PICK at : at = (d * scroll) \div k
  OBVIOUS
<1>17. at = ((Viewport - thumb) * scroll) \div Max({1, MaxOffset})
  BY <1>1, <1>2, <1>13, <1>15, <1>16
<1>18. at \in 0 .. d
  <2>1. d * scroll \in Nat /\ d * scroll <= d * k
    <3>1. \A x, y, z \in Nat : x <= y => z * x <= z * y /\ z * x \in Nat
      OBVIOUS
    <3> QED BY <1>3, <1>15, <3>1
  <2> QED BY <1>15, <1>16, <2>1, DivAtMost
<1>19. m > 0 /\ scroll = m => at = d
  <2> SUFFICES ASSUME m > 0, scroll = m PROVE at = d
    OBVIOUS
  <2>1. k = m
    BY <1>3, <1>14
  <2>2. d * m = m * d /\ d * m \in Int
    BY <1>3, <1>15
  <2>3. d <= at
    BY <1>15, <1>16, <2>1, <2>2, DivIs
  <2> QED BY <1>15, <1>18, <2>3
<1>20. scroll \in 0 .. MaxOffset /\ at >= 0 /\ at + thumb <= Viewport
  BY <1>1, <1>2, <1>3, <1>11, <1>13, <1>18
<1>21. MaxOffset > 0 /\ scroll = MaxOffset => at + thumb = Viewport
  BY <1>1, <1>2, <1>3, <1>11, <1>13, <1>19
<1> QED BY <1>12, <1>17, <1>20, <1>21 DEF ThumbTellsPlace

-----------------------------------------------------------------------------
(* Bars: pictures put together                                             *)

Things  == {"page", "scrollbar", "tabs", "tab", "close", "new", "address", "back", "forward", "reload",
            "bookmark", "account", "find", "toolbar", "console", "elements", "pick", "refresh", "log",
            "input", "tree", "details", "node"}
Whats   == Things \X Int
Regions == [what : Whats, x : Int, y : Int, w : Int, h : Int]

\* A button's margins above and below answer clicks, too, though the bar is seen
\* there; no region has a corner on one.
OnLedge(x, y) ==
  y \in {7, 14} /\ \E b \in {BackX, ForwardX, ReloadX, BookmarkX, AccountX} : b <= x /\ x < b + 6
Clear == {r \in Regions : \A p \in Corners(r) : ~ OnLedge(p[1], p[2])}

\* A picture shows something at a place; or nothing of it is there.
Paints(s, x, y, w) ==
  \E i \in DOMAIN s : /\ Spans(s[i], x, y) /\ s[i].what = w
                      /\ \A j \in DOMAIN s : j > i => ~ Spans(s[j], x, y)
Misses(s, x, y) == \A i \in DOMAIN s : ~ Spans(s[i], x, y)

LEMMA AtopIs == ASSUME NEW s \in Seq(Clear), NEW x, NEW y, NEW w, Paints(s, x, y, w) PROVE Atop(s, x, y) = w
<1> DEFINE over == {i \in DOMAIN s : Spans(s[i], x, y)}
<1>1. PICK i \in DOMAIN s : /\ Spans(s[i], x, y) /\ s[i].what = w
                            /\ \A j \in DOMAIN s : j > i => ~ Spans(s[j], x, y)
  BY DEF Paints
<1>2. DOMAIN s \subseteq Int
  OBVIOUS
<1>3. i \in over /\ \A j \in over : i >= j
  BY <1>1, <1>2
<1>4. \A k \in over : (\A j \in over : k >= j) => k = i
  BY <1>2, <1>3
<1>5. Max(over) = i
  BY <1>3, <1>4 DEF Max
<1> QED BY <1>1, <1>5 DEF Atop

LEMMA Joined ==
  ASSUME NEW s \in Seq(Clear), NEW t \in Seq(Clear)
  PROVE  /\ s \o t \in Seq(Clear) /\ DOMAIN (s \o t) = 1 .. Len(s) + Len(t) /\ Len(s \o t) = Len(s) + Len(t)
         /\ Len(s) \in Nat /\ Len(t) \in Nat /\ DOMAIN s = 1 .. Len(s) /\ DOMAIN t = 1 .. Len(t)
         /\ \A i \in 1 .. Len(s) : (s \o t)[i] = s[i]
         /\ \A i \in 1 .. Len(t) : (s \o t)[Len(s) + i] = t[i]
<1>1. /\ s \o t \in Seq(Clear) /\ Len(s \o t) = Len(s) + Len(t)
      /\ \A i \in 1 .. Len(s) + Len(t) : (s \o t)[i] = IF i <= Len(s) THEN s[i] ELSE t[i - Len(s)]
  BY ConcatProperties
<1>2. PICK st : st = s \o t
  OBVIOUS
<1>3. DOMAIN st = 1 .. Len(st)
  BY <1>1, <1>2
<1>4. Len(s) \in Nat /\ Len(t) \in Nat /\ DOMAIN s = 1 .. Len(s) /\ DOMAIN t = 1 .. Len(t)
  OBVIOUS
<1>5. ASSUME NEW i \in 1 .. Len(t) PROVE st[Len(s) + i] = t[i]
  <2>1. PICK j : j = Len(s) + i
    OBVIOUS
  <2>2. j \in 1 .. Len(s) + Len(t) /\ ~ (j <= Len(s)) /\ j - Len(s) = i
    BY <1>4, <2>1
  <2> QED BY <1>1, <1>2, <2>1, <2>2
<1>6. \A i \in 1 .. Len(s) : st[i] = s[i]
  BY <1>1, <1>2, <1>4
<1> QED BY <1>1, <1>2, <1>3, <1>4, <1>5, <1>6

LEMMA MissesBoth ==
  ASSUME NEW s \in Seq(Clear), NEW t \in Seq(Clear), NEW x, NEW y, Misses(s, x, y), Misses(t, x, y)
  PROVE  Misses(s \o t, x, y)
<1> SUFFICES ASSUME NEW i \in DOMAIN (s \o t) PROVE ~ Spans((s \o t)[i], x, y)
  BY DEF Misses
<1>1. CASE i <= Len(s)
  BY <1>1, Joined DEF Misses
<1>2. CASE i > Len(s)
  <2>1. PICK j : j = i - Len(s)
    OBVIOUS
  <2>2. j \in 1 .. Len(t) /\ i = Len(s) + j
    BY <1>2, <2>1, Joined
  <2> QED BY <2>2, Joined DEF Misses
<1> QED BY <1>1, <1>2, Joined

LEMMA ShowsUpper ==
  ASSUME NEW s \in Seq(Clear), NEW t \in Seq(Clear), NEW x, NEW y, NEW w, Paints(t, x, y, w)
  PROVE  Paints(s \o t, x, y, w)
<1>1. PICK i \in DOMAIN t : /\ Spans(t[i], x, y) /\ t[i].what = w
                            /\ \A j \in DOMAIN t : j > i => ~ Spans(t[j], x, y)
  BY DEF Paints
<1>2. PICK k : k = Len(s) + i
  OBVIOUS
<1>3. k \in DOMAIN (s \o t) /\ (s \o t)[k] = t[i]
  BY <1>1, <1>2, Joined
<1>4. ASSUME NEW j \in DOMAIN (s \o t), j > k PROVE ~ Spans((s \o t)[j], x, y)
  <2>1. PICK n : n = j - Len(s)
    OBVIOUS
  <2>2. n \in DOMAIN t /\ n > i /\ j = Len(s) + n
    BY <1>1, <1>2, <1>4, <2>1, Joined
  <2> QED BY <1>1, <2>2, Joined
<1> QED BY <1>1, <1>3, <1>4 DEF Paints

LEMMA ShowsLower ==
  ASSUME NEW s \in Seq(Clear), NEW t \in Seq(Clear), NEW x, NEW y, NEW w, Paints(s, x, y, w), Misses(t, x, y)
  PROVE  Paints(s \o t, x, y, w)
<1>1. PICK i \in DOMAIN s : /\ Spans(s[i], x, y) /\ s[i].what = w
                            /\ \A j \in DOMAIN s : j > i => ~ Spans(s[j], x, y)
  BY DEF Paints
<1>2. i \in DOMAIN (s \o t) /\ (s \o t)[i] = s[i]
  BY <1>1, Joined
<1>3. ASSUME NEW j \in DOMAIN (s \o t), j > i PROVE ~ Spans((s \o t)[j], x, y)
  <2>1. CASE j <= Len(s)
    BY <1>1, <1>3, <2>1, Joined
  <2>2. CASE j > Len(s)
    <3>1. PICK n : n = j - Len(s)
      OBVIOUS
    <3>3. j \in 1 .. Len(s) + Len(t) /\ Len(s) \in Nat /\ Len(t) \in Nat /\ DOMAIN t = 1 .. Len(t)
      BY Joined
    <3>2. n \in DOMAIN t /\ j = Len(s) + n
      BY <2>2, <3>1, <3>3
    <3> QED BY <3>2, Joined DEF Misses
  <2> QED BY <2>1, <2>2, Joined
<1> QED BY <1>1, <1>2, <1>3 DEF Paints

\* A picture of one region
LEMMA OneRegion ==
  ASSUME NEW r \in Clear, NEW x, NEW y
  PROVE  /\ <<r>> \in Seq(Clear)
         /\ Spans(r, x, y) => Paints(<<r>>, x, y, r.what)
         /\ ~ Spans(r, x, y) => Misses(<<r>>, x, y)
<1>1. PICK s : s = <<r>>
  OBVIOUS
<1>2. s \in Seq(Clear) /\ DOMAIN s = {1} /\ s[1] = r
  BY <1>1
<1> QED BY <1>1, <1>2 DEF Paints, Misses

LEMMA NoRegion == <<>> \in Seq(Clear) /\ \A x, y : Misses(<<>>, x, y)
<1>1. DOMAIN <<>> = {}
  OBVIOUS
<1> QED BY <1>1 DEF Misses

LEMMA Sizes ==
  /\ TabBar = 7 /\ Address = 8 /\ Top = 15 /\ Button = 6 /\ Margin = 1 /\ MinTab = 20 /\ MaxTab = 50
  /\ CloseZone = 5 /\ PanelHeight = 65 /\ ToolsBar = 6 /\ RowHeight = 4 /\ InputHeight = 5 /\ Label = 20
  /\ Action = 15 /\ FindWidth = 65 /\ FindHeight = 8 /\ FindMargin = 2 /\ Scrollbar = 2
  /\ BadgeMargin = 3 /\ BadgeWidth = 12 /\ TreeRows = 14
  BY DEF TabBar, Address, Top, Button, Margin, MinTab, MaxTab, CloseZone, PanelHeight, ToolsBar, RowHeight,
         InputHeight, Label, Action, FindWidth, FindHeight, FindMargin, Scrollbar, BadgeMargin, BadgeWidth, TreeRows

LEMMA Buttons ==
  ASSUME wide \in Nat
  PROVE  /\ BackX = 1 /\ ForwardX = 8 /\ ReloadX = 15 /\ BookmarkX = wide - 14 /\ AccountX = wide - 7
  BY Sizes DEF BackX, ForwardX, ReloadX, BookmarkX, AccountX

LEMMA WhatIs == \A name \in Things : One(name) \in Whats /\ One(name)[1] = name
  BY DEF One, Whats

LEMMA RegionIs ==
  ASSUME NEW what \in Whats, NEW x \in Int, NEW y \in Int, NEW w \in Int, NEW h \in Int,
         NEW r, r = Region(what, x, y, w, h)
  PROVE  /\ r \in Regions /\ r.what = what
         /\ \A a, b \in Int : Spans(r, a, b) <=> x <= a /\ a < x + w /\ y <= b /\ b < y + h
         /\ \A p \in Corners(r) : p[1] \in {x, x + w - 1} /\ p[2] \in {y, y + h - 1}
<1>1. r = [what |-> what, x |-> x, y |-> y, w |-> w, h |-> h]
  BY DEF Region
<1>2. r \in Regions /\ r.what = what /\ r.x = x /\ r.y = y /\ r.w = w /\ r.h = h
  BY <1>1 DEF Regions
<1>3. \A p \in Corners(r) : p[1] \in {x, x + w - 1} /\ p[2] \in {y, y + h - 1}
  BY <1>2 DEF Corners
<1> QED BY <1>2, <1>3 DEF Spans

\* No corner is on a ledge: for its height, or because it is beside the buttons.
LEMMA ClearRegion ==
  ASSUME NEW what \in Whats, NEW x \in Int, NEW y \in Int, NEW w \in Int, NEW h \in Int,
         NEW r, r = Region(what, x, y, w, h),
         \/ y \notin {7, 14} /\ y + h - 1 \notin {7, 14}
         \/ /\ wide \in Nat /\ wide >= 52
            /\ \A a \in {x, x + w - 1} : a < 1 \/ (21 <= a /\ a < wide - 14) \/ wide - 1 <= a
  PROVE  r \in Clear
<1>1. r \in Regions
  BY RegionIs
<1>2. ASSUME NEW p \in Corners(r) PROVE ~ OnLedge(p[1], p[2])
  <2>1. p[1] \in {x, x + w - 1} /\ p[2] \in {y, y + h - 1}
    BY RegionIs
  <2>2. CASE y \notin {7, 14} /\ y + h - 1 \notin {7, 14}
    BY <2>1, <2>2 DEF OnLedge
  <2>3. CASE /\ wide \in Nat /\ wide >= 52
             /\ \A a \in {x, x + w - 1} : a < 1 \/ (21 <= a /\ a < wide - 14) \/ wide - 1 <= a
    <3>1. PICK a : a = p[1]
      OBVIOUS
    <3>2. a \in Int /\ (a < 1 \/ (21 <= a /\ a < wide - 14) \/ wide - 1 <= a)
      BY <2>1, <2>3, <3>1
    <3>3. \A b \in {1, 8, 15, wide - 14, wide - 7} : ~ (b <= a /\ a < b + 6)
      BY <2>3, <3>2
    <3> QED BY <2>3, <3>1, <3>3, Buttons DEF OnLedge
  <2> QED BY <2>2, <2>3
<1> QED BY <1>1, <1>2 DEF Clear

-----------------------------------------------------------------------------
(* Bars: what is seen in each part                                         *)

\* A place on the canvas
Here(x, y) == x \in 0 .. wide - 1 /\ y \in 0 .. high - 1

LEMMA PageAreaShows ==
  ASSUME BarInv, Roomy
  PROVE  /\ PageArea \in Seq(Clear)
         /\ \A x, y \in Int : Here(x, y) /\ y >= 15 =>
              \E name \in {"page", "scrollbar"} : Paints(PageArea, x, y, One(name))
<1>1. /\ wide \in Nat /\ high \in Nat /\ wide >= 52 /\ Viewport \in Nat /\ MaxOffset \in Nat
  BY Measures DEF Roomy, BarInv, BarTypes, InNumbers
<1>2. PICK r : r = Region(One("page"), 0, 15, wide, high - 15)
  OBVIOUS
<1>3. PICK s : s = IF MaxOffset = 0 \/ Viewport = 0 THEN <<>>
                   ELSE <<Region(One("scrollbar"), wide - Scrollbar, Top, Scrollbar, Viewport)>>
  OBVIOUS
<1>4. PageArea = <<r>> \o s
  BY <1>2, <1>3, Sizes DEF PageArea
<1>10. One("page") \in Whats /\ One("scrollbar") \in Whats
  BY WhatIs DEF Things
<1>5. r \in Clear
  <2>1. \A a \in {0, 0 + wide - 1} : a < 1 \/ (21 <= a /\ a < wide - 14) \/ wide - 1 <= a
    BY <1>1
  <2>2. 0 \in Int /\ 15 \in Int /\ high - 15 \in Int
    BY <1>1
  <2> QED BY <1>1, <1>2, <1>10, <2>1, <2>2, ClearRegion
<1>6. r.what = One("page") /\ \A x, y \in Int : Here(x, y) /\ y >= 15 => Spans(r, x, y)
  <2>1. 0 \in Int /\ 15 \in Int /\ high - 15 \in Int
    BY <1>1
  <2>2. r.what = One("page")
    BY <1>1, <1>2, <1>10, <2>1, RegionIs
  <2>3. ASSUME NEW x \in Int, NEW y \in Int, Here(x, y), y >= 15 PROVE Spans(r, x, y)
    <3>1. Spans(r, x, y) <=> 0 <= x /\ x < 0 + wide /\ 15 <= y /\ y < 15 + (high - 15)
      BY <1>2 DEF Region, Spans
    <3> QED BY <1>1, <2>3, <3>1 DEF Here
  <2> QED BY <2>2, <2>3
<1>7. /\ s \in Seq(Clear)
      /\ \A x, y \in Int : Misses(s, x, y) \/ Paints(s, x, y, One("scrollbar"))
  <2>1. CASE MaxOffset = 0 \/ Viewport = 0
    BY <1>3, <2>1, NoRegion
  <2>2. CASE ~ (MaxOffset = 0 \/ Viewport = 0)
    <3>1. PICK q : q = Region(One("scrollbar"), wide - 2, 15, 2, Viewport)
      OBVIOUS
    <3>2. s = <<q>>
      BY <1>3, <2>2, <3>1, Sizes
    <3>6. wide - 2 \in Int /\ 15 \in Int /\ 2 \in Int /\ Viewport \in Int
      BY <1>1
    <3>3. 15 + Viewport - 1 \notin {7, 14}
      BY <1>1, <2>2
    <3>4. q \in Clear
      <4>1. 15 \notin {7, 14} /\ 15 + Viewport - 1 \notin {7, 14}
        BY <3>3
      <4> QED BY <1>10, <3>1, <3>6, <4>1, ClearRegion
    <3>5. q.what = One("scrollbar")
      BY <1>10, <3>1, <3>6, RegionIs
    <3> QED BY <3>2, <3>4, <3>5, OneRegion
  <2> QED BY <2>1, <2>2
<1>8. PageArea \in Seq(Clear)
  BY <1>4, <1>5, <1>7, OneRegion, Joined
<1>9. ASSUME NEW x \in Int, NEW y \in Int, Here(x, y), y >= 15
      PROVE  \E name \in {"page", "scrollbar"} : Paints(PageArea, x, y, One(name))
  <2>1. Paints(<<r>>, x, y, One("page")) /\ <<r>> \in Seq(Clear)
    BY <1>5, <1>6, <1>9, OneRegion
  <2>2. CASE Misses(s, x, y)
    BY <1>4, <1>7, <2>1, <2>2, ShowsLower
  <2>3. CASE Paints(s, x, y, One("scrollbar"))
    BY <1>4, <1>7, <2>1, <2>3, ShowsUpper
  <2> QED BY <1>7, <2>2, <2>3
<1> QED BY <1>8, <1>9

LEMMA MinOne == \A i \in Int : Min({i}) = i
<1> TAKE i \in Int
<1>1. i \in {i} /\ \A j \in {i} : i <= j
  OBVIOUS
<1>2. \A k \in {i} : k = i
  OBVIOUS
<1> QED BY <1>1, <1>2 DEF Min

\* The buttons of the address bar, from left to right
ButtonNames == <<"back", "forward", "reload", "bookmark", "account">>
ButtonsAt   == <<1, 8, 15, wide - 14, wide - 7>>

LEMMA ButtonIs ==
  ASSUME wide \in Nat, wide >= 52, NEW i \in 1 .. 5
  PROVE  /\ ButtonsAt[i] \in Int /\ ButtonNames[i] \in Things
         /\ \A j \in 1 .. 5 : j < i => ButtonsAt[j] + 6 < ButtonsAt[i]
  BY DEF ButtonsAt, ButtonNames, Things

LEMMA HitAddressIs ==
  ASSUME wide \in Nat, wide >= 52, NEW x \in Int, NEW y
  PROVE  /\ \A i \in 1 .. 5 : ButtonsAt[i] <= x /\ x < ButtonsAt[i] + 6 => HitAddressBar(x, y) = One(ButtonNames[i])
         /\ (\A i \in 1 .. 5 : ~ (ButtonsAt[i] <= x /\ x < ButtonsAt[i] + 6)) => HitAddressBar(x, y) = One("address")
<1>1. PICK hit : hit = {i \in 1 .. 5 : ButtonsAt[i] <= x /\ x < ButtonsAt[i] + 6}
  OBVIOUS
<1>2. HitAddressBar(x, y) = IF hit = {} THEN One("address") ELSE One(ButtonNames[Min(hit)])
  <2>1. ButtonsAt = <<BackX, ForwardX, ReloadX, BookmarkX, AccountX>>
    BY Buttons DEF ButtonsAt
  <2>2. DOMAIN ButtonsAt = 1 .. 5
    BY DEF ButtonsAt
  <2>3. hit = {i \in DOMAIN ButtonsAt : ButtonsAt[i] <= x /\ x < ButtonsAt[i] + Button}
    BY <1>1, <2>2, Sizes
  <2> QED BY <2>1, <2>3 DEF HitAddressBar, ButtonNames
<1>3. ASSUME NEW i \in 1 .. 5, ButtonsAt[i] <= x, x < ButtonsAt[i] + 6
      PROVE  HitAddressBar(x, y) = One(ButtonNames[i])
  <2>1. \A j \in 1 .. 5 : ButtonsAt[j] \in Int
    BY ButtonIs
  <2>2. \A j \in hit : j = i
    <3> SUFFICES ASSUME NEW j \in 1 .. 5, ButtonsAt[j] <= x, x < ButtonsAt[j] + 6 PROVE j = i
      BY <1>1
    <3>1. ~ (j < i)
      BY <1>3, <2>1, ButtonIs
    <3>2. ~ (i < j)
      BY <1>3, <2>1, ButtonIs
    <3> QED BY <3>1, <3>2
  <2>3. hit = {i}
    BY <1>1, <1>3, <2>2
  <2> QED BY <1>2, <2>3, MinOne
<1>4. ASSUME \A i \in 1 .. 5 : ~ (ButtonsAt[i] <= x /\ x < ButtonsAt[i] + 6)
      PROVE  HitAddressBar(x, y) = One("address")
  <2>1. hit = {}
    BY <1>1, <1>4
  <2> QED BY <1>2, <2>1
<1> QED BY <1>3, <1>4

LEMMA BadgeShows ==
  ASSUME wide \in Nat, wide >= 52
  PROVE  /\ Badge \in Seq(Clear)
         /\ \A x, y \in Int :
              \/ Misses(Badge, x, y)
              \/ /\ Paints(Badge, x, y, One("address"))
                 /\ wide - 30 <= x /\ x < wide - 18 /\ 7 <= y /\ y < 15
<1>1. CASE ~ signals
  <2>1. Badge = <<>>
    BY <1>1 DEF Badge
  <2> QED BY <2>1, NoRegion
<1>2. CASE signals
  <2>1. PICK a : a = wide - 30
    OBVIOUS
  <2>2. a \in Nat
    BY <2>1
  <2>3. Max({0, BookmarkX - Margin - BadgeMargin - BadgeWidth}) = a
    <3>1. BookmarkX - Margin - BadgeMargin - BadgeWidth = a
      BY <2>1, Buttons, Sizes
    <3> QED BY <2>2, <3>1, MaxTwo
  <2>4. PICK r : r = Region(One("address"), a, 7, 12, 8)
    OBVIOUS
  <2>5. Badge = <<r>>
    BY <1>2, <2>3, <2>4, Sizes DEF Badge
  <2>6. One("address") \in Whats
    BY WhatIs DEF Things
  <2>7. r \in Clear
    <3>1. \A b \in {a, a + 12 - 1} : b < 1 \/ (21 <= b /\ b < wide - 14) \/ wide - 1 <= b
      BY <2>1
    <3>2. 7 \in Int /\ 12 \in Int /\ 8 \in Int /\ a \in Int
      BY <2>2
    <3> QED BY <2>4, <2>6, <3>1, <3>2, ClearRegion
  <2>8. r.what = One("address")
    BY <2>4 DEF Region
  <2>9. ASSUME NEW x \in Int, NEW y \in Int, Spans(r, x, y)
        PROVE  wide - 30 <= x /\ x < wide - 18 /\ 7 <= y /\ y < 15
    <3>1. a <= x /\ x < a + 12 /\ 7 <= y /\ y < 7 + 8
      BY <2>4, <2>9 DEF Region, Spans
    <3> QED BY <2>1, <3>1
  <2> QED BY <2>5, <2>7, <2>8, <2>9, OneRegion
<1> QED BY <1>1, <1>2

\* The address bar under its badge
Squares == [i \in 1 .. 5 |-> Region(One(ButtonNames[i]), ButtonsAt[i], 8, 6, 6)]

LEMMA SquaresShow ==
  ASSUME wide \in Nat, wide >= 52
  PROVE  /\ Squares \in Seq(Clear)
         /\ \A x, y \in Int :
              /\ y < 8 \/ y >= 14 => Misses(Squares, x, y)
              /\ (\A i \in 1 .. 5 : ~ (ButtonsAt[i] <= x /\ x < ButtonsAt[i] + 6)) => Misses(Squares, x, y)
              /\ \A i \in 1 .. 5 : ButtonsAt[i] <= x /\ x < ButtonsAt[i] + 6 /\ 8 <= y /\ y < 14 =>
                   Paints(Squares, x, y, One(ButtonNames[i]))
<1>1. ASSUME NEW i \in 1 .. 5
      PROVE  /\ Squares[i] \in Clear /\ Squares[i].what = One(ButtonNames[i])
             /\ \A x, y : Spans(Squares[i], x, y) <=>
                  ButtonsAt[i] <= x /\ x < ButtonsAt[i] + 6 /\ 8 <= y /\ y < 8 + 6
  <2>1. PICK r : r = Region(One(ButtonNames[i]), ButtonsAt[i], 8, 6, 6)
    OBVIOUS
  <2>2. One(ButtonNames[i]) \in Whats /\ ButtonsAt[i] \in Int
    BY WhatIs, ButtonIs
  <2>3. 8 \in Int /\ 6 \in Int /\ 8 \notin {7, 14} /\ 8 + 6 - 1 \notin {7, 14}
    OBVIOUS
  <2>4. r \in Clear
    BY <2>1, <2>2, <2>3, ClearRegion
  <2>5. Squares[i] = r
    BY <2>1 DEF Squares
  <2> QED BY <2>1, <2>4, <2>5 DEF Region, Spans
<1>2. DOMAIN Squares = 1 .. 5 /\ Squares \in [1 .. 5 -> Clear]
  <2>1. DOMAIN Squares = 1 .. 5 /\ Squares = [i \in DOMAIN Squares |-> Squares[i]]
    BY DEF Squares
  <2> QED BY <1>1, <2>1
<1>3. Squares \in Seq(Clear)
  <2>1. 5 \in Nat
    OBVIOUS
  <2> QED BY <1>2, <2>1, SeqDef
<1>4. ASSUME NEW x \in Int, NEW y \in Int, y < 8 \/ y >= 14 PROVE Misses(Squares, x, y)
  BY <1>1, <1>2, <1>4 DEF Misses
<1>5. ASSUME NEW x \in Int, NEW y \in Int, \A i \in 1 .. 5 : ~ (ButtonsAt[i] <= x /\ x < ButtonsAt[i] + 6)
      PROVE  Misses(Squares, x, y)
  BY <1>1, <1>2, <1>5 DEF Misses
<1>6. ASSUME NEW x \in Int, NEW y \in Int, NEW i \in 1 .. 5,
             ButtonsAt[i] <= x, x < ButtonsAt[i] + 6, 8 <= y, y < 14
      PROVE  Paints(Squares, x, y, One(ButtonNames[i]))
  <2>1. Spans(Squares[i], x, y) /\ Squares[i].what = One(ButtonNames[i])
    BY <1>1, <1>6
  <2>2. ASSUME NEW j \in 1 .. 5, j > i PROVE ~ Spans(Squares[j], x, y)
    <3>1. ButtonsAt[i] + 6 < ButtonsAt[j] /\ ButtonsAt[j] \in Int /\ ButtonsAt[i] \in Int
      BY <2>2, ButtonIs
    <3> QED BY <1>1, <1>6, <3>1
  <2> QED BY <1>2, <2>1, <2>2 DEF Paints
<1> QED BY <1>3, <1>4, <1>5, <1>6

LEMMA AddressBarShows ==
  ASSUME wide \in Nat, wide >= 52
  PROVE  /\ AddressBar \in Seq(Clear)
         /\ \A x, y \in Int :
              /\ y < 7 \/ y >= 15 => Misses(AddressBar, x, y)
              /\ Here(x, y) /\ 7 <= y /\ y < 15 /\ ~ OnLedge(x, y) =>
                   Paints(AddressBar, x, y, HitAddressBar(x, y))
<1>1. PICK a : a = Region(One("address"), 0, 7, wide, 8)
  OBVIOUS
<1>2. PICK low : low = <<a>> \o Squares
  OBVIOUS
<1>4. a \in Clear
  <2>1. One("address") \in Whats
    BY WhatIs DEF Things
  <2>2. \A b \in {0, 0 + wide - 1} : b < 1 \/ (21 <= b /\ b < wide - 14) \/ wide - 1 <= b
    OBVIOUS
  <2>3. 0 \in Int /\ 7 \in Int /\ 8 \in Int /\ wide \in Int
    OBVIOUS
  <2> QED BY <1>1, <2>1, <2>2, <2>3, ClearRegion
<1>5. /\ a.what = One("address")
      /\ \A x, y : Spans(a, x, y) <=> 0 <= x /\ x < 0 + wide /\ 7 <= y /\ y < 7 + 8
  BY <1>1 DEF Region, Spans
<1>6. <<a>> \in Seq(Clear) /\ Squares \in Seq(Clear) /\ low \in Seq(Clear) /\ Badge \in Seq(Clear)
  BY <1>2, <1>4, OneRegion, SquaresShow, BadgeShows, Joined
<1>3. AddressBar = low \o Badge
  <2>1. PICK q : q = Squares
    OBVIOUS
  <2>2. /\ q[1] = Square(One("back"), BackX) /\ q[2] = Square(One("forward"), ForwardX)
        /\ q[3] = Square(One("reload"), ReloadX) /\ q[4] = Square(One("bookmark"), BookmarkX)
        /\ q[5] = Square(One("account"), AccountX)
    BY <2>1, Buttons, Sizes DEF Squares, Square, ButtonNames, ButtonsAt
  <2>3. q = <<q[1], q[2], q[3], q[4], q[5]>>
    BY <2>1 DEF Squares
  <2>4. low = <<a, q[1], q[2], q[3], q[4], q[5]>>
    <3>1. Len(q) = 5 /\ DOMAIN q = 1 .. 5 /\ \A i \in 1 .. 5 : q[i] \in Clear
      <4>1. DOMAIN q = 1 .. 5
        BY <2>1 DEF Squares
      <4>2. q \in Seq(Clear) /\ Len(q) \in Nat /\ DOMAIN q = 1 .. Len(q)
        BY <1>6, <2>1
      <4>3. 5 \in 1 .. Len(q) /\ 6 \notin 1 .. Len(q)
        BY <4>1, <4>2
      <4>4. Len(q) = 5
        BY <4>2, <4>3
      <4>5. \A i \in 1 .. 5 : q[i] \in Clear
        BY <4>2, <4>4, ElementOfSeq
      <4> QED BY <4>1, <4>4, <4>5
    <3>2. PICK s : s = <<a, q[1], q[2], q[3], q[4], q[5]>>
      OBVIOUS
    <3>3. /\ s \in Seq(Clear) /\ Len(s) = 6
          /\ s[1] = a /\ s[2] = q[1] /\ s[3] = q[2] /\ s[4] = q[3] /\ s[5] = q[4] /\ s[6] = q[5]
      BY <1>4, <3>1, <3>2
    <3>4. /\ low \in Seq(Clear) /\ Len(low) = 6 /\ low[1] = a /\ \A i \in 1 .. 5 : low[1 + i] = q[i]
      <4>1. PICK one : one = <<a>>
        OBVIOUS
      <4>2. one \in Seq(Clear) /\ Len(one) = 1 /\ one[1] = a
        BY <1>4, <4>1
      <4>3. q \in Seq(Clear) /\ low = one \o q
        BY <1>2, <1>6, <2>1, <4>1
      <4>4. low \in Seq(Clear) /\ Len(low) = Len(one) + Len(q)
        BY <4>2, <4>3, Joined
      <4>5. \A i \in 1 .. Len(q) : low[Len(one) + i] = q[i]
        BY <4>2, <4>3, Joined
      <4>6. low[1] = one[1]
        <5>1. 1 \in 1 .. Len(one)
          BY <4>2
        <5> QED BY <4>2, <4>3, <5>1, Joined
      <4> QED BY <3>1, <4>2, <4>4, <4>5, <4>6
    <3>5. \A i \in 1 .. 6 : low[i] = s[i]
      BY <3>3, <3>4
    <3> QED BY <3>2, <3>3, <3>4, <3>5, SeqEqual
  <2>5. a = Region(One("address"), 0, TabBar, wide, Address)
    BY <1>1, Sizes
  <2> QED BY <2>2, <2>4, <2>5 DEF AddressBar
<1>7. AddressBar \in Seq(Clear)
  BY <1>3, <1>6, Joined
<1>8. ASSUME NEW x \in Int, NEW y \in Int, y < 7 \/ y >= 15 PROVE Misses(AddressBar, x, y)
  <2>1. Misses(<<a>>, x, y)
    BY <1>4, <1>5, <1>8, OneRegion
  <2>2. Misses(Squares, x, y)
    BY <1>8, SquaresShow
  <2>3. Misses(low, x, y)
    BY <1>2, <1>6, <2>1, <2>2, MissesBoth
  <2>4. Misses(Badge, x, y)
    BY <1>8, BadgeShows
  <2> QED BY <1>3, <1>6, <2>3, <2>4, MissesBoth
<1>9. ASSUME NEW x \in Int, NEW y \in Int, Here(x, y), 7 <= y, y < 15, ~ OnLedge(x, y)
      PROVE  Paints(AddressBar, x, y, HitAddressBar(x, y))
  <2>1. Paints(<<a>>, x, y, One("address"))
    <3>1. Spans(a, x, y)
      BY <1>5, <1>9 DEF Here
    <3> QED BY <1>4, <1>5, <3>1, OneRegion
  <2>2. CASE \A i \in 1 .. 5 : ~ (ButtonsAt[i] <= x /\ x < ButtonsAt[i] + 6)
    <3>1. HitAddressBar(x, y) = One("address")
      BY <2>2, HitAddressIs
    <3>2. Misses(Squares, x, y)
      BY <2>2, SquaresShow
    <3>3. Paints(low, x, y, One("address"))
      BY <1>2, <1>6, <2>1, <3>2, ShowsLower
    <3>4. CASE Misses(Badge, x, y)
      BY <1>3, <1>6, <3>1, <3>3, <3>4, ShowsLower
    <3>5. CASE Paints(Badge, x, y, One("address"))
      BY <1>3, <1>6, <3>1, <3>5, ShowsUpper
    <3> QED BY <3>4, <3>5, BadgeShows
  <2>3. CASE \E i \in 1 .. 5 : ButtonsAt[i] <= x /\ x < ButtonsAt[i] + 6
    <3>1. PICK i \in 1 .. 5 : ButtonsAt[i] <= x /\ x < ButtonsAt[i] + 6
      BY <2>3
    <3>2. ButtonsAt[i] \in {1, 8, 15, wide - 14, wide - 7}
      BY DEF ButtonsAt
    <3>3. 8 <= y /\ y < 14
      <4>1. ButtonsAt[i] \in {BackX, ForwardX, ReloadX, BookmarkX, AccountX}
        BY <3>2, Buttons
      <4>2. y \notin {7, 14}
        BY <1>9, <3>1, <4>1 DEF OnLedge
      <4> QED BY <1>9, <4>2
    <3>4. HitAddressBar(x, y) = One(ButtonNames[i])
      BY <3>1, HitAddressIs
    <3>5. Paints(Squares, x, y, One(ButtonNames[i]))
      BY <3>1, <3>3, SquaresShow
    <3>6. Paints(low, x, y, One(ButtonNames[i]))
      BY <1>2, <1>6, <3>5, ShowsUpper
    <3>7. Misses(Badge, x, y)
      <4>1. ~ (wide - 30 <= x /\ x < wide - 18)
        BY <3>1, <3>2
      <4> QED BY <4>1, BadgeShows
    <3> QED BY <1>3, <1>6, <3>4, <3>6, <3>7, ShowsLower
  <2> QED BY <2>2, <2>3
<1> QED BY <1>7, <1>8, <1>9

LEMMA FindBarShows ==
  ASSUME wide \in Nat, wide >= 52
  PROVE  /\ FindBar \in Seq(Clear)
         /\ \A x, y \in Int : \/ Misses(FindBar, x, y)
                              \/ Paints(FindBar, x, y, One("find")) /\ y >= 17
<1>1. CASE ~ finding
  <2>1. FindBar = <<>>
    BY <1>1 DEF FindBar
  <2> QED BY <2>1, NoRegion
<1>2. CASE finding
  <2>1. PICK a : a = IF 0 >= wide - 67 THEN 0 ELSE wide - 67
    OBVIOUS
  <2>2. a \in Int /\ Max({0, wide - FindWidth - FindMargin}) = a
    <3>1. wide - FindWidth - FindMargin = wide - 67
      BY Sizes
    <3> QED BY <2>1, <3>1, MaxTwo
  <2>3. PICK r : r = Region(One("find"), a, 17, 65, 8)
    OBVIOUS
  <2>4. FindBar = <<r>>
    BY <1>2, <2>2, <2>3, Sizes DEF FindBar
  <2>5. One("find") \in Whats
    BY WhatIs DEF Things
  <2>6. 17 \in Int /\ 65 \in Int /\ 8 \in Int /\ 17 \notin {7, 14} /\ 17 + 8 - 1 \notin {7, 14}
    OBVIOUS
  <2>7. r \in Clear
    BY <2>2, <2>3, <2>5, <2>6, ClearRegion
  <2>8. r.what = One("find") /\ \A x, y \in Int : Spans(r, x, y) => y >= 17
    BY <2>3 DEF Region, Spans
  <2> QED BY <2>4, <2>7, <2>8, OneRegion
<1> QED BY <1>1, <1>2 DEF BarTypes

LEMMA HighlightShows ==
  ASSUME BarInv
  PROVE  /\ Highlight \in Seq(Clear)
         /\ \A x, y \in Int : \/ Misses(Highlight, x, y)
                              \/ Paints(Highlight, x, y, One("page")) /\ y >= 15
<1>1. PICK up : up = IF 15 - scroll >= 15 THEN 15 - scroll ELSE 15
  OBVIOUS
<1>2. PICK low : low = Min({Top - scroll + tall, high - Reserved})
  OBVIOUS
<1>3. /\ wide \in Nat /\ scroll \in Nat /\ tall \in Nat /\ high \in Nat /\ Reserved \in Nat
      /\ MaxOffset \in Nat
  <2>1. InNumbers
    BY Measures DEF BarInv
  <2>2. wide \in Nat /\ high \in Nat /\ tall \in Nat /\ Reserved \in Nat
    BY <2>1 DEF InNumbers, BarInv, BarTypes
  <2>3. Viewport \in Nat
    BY <2>1, <2>2 DEF InNumbers
  <2>4. MaxOffset \in Nat
    BY <2>1, <2>2, <2>3 DEF InNumbers
  <2> QED BY <2>2, <2>4 DEF BarInv
<1>4. up \in Int /\ up >= 15 /\ low \in Int
  <2>1. PICK e : e = 15 - scroll + tall
    OBVIOUS
  <2>2. PICK f : f = high - Reserved
    OBVIOUS
  <2>3. e \in Int /\ f \in Int
    BY <1>3, <2>1, <2>2
  <2>4. low = Min({e, f})
    BY <1>2, <2>1, <2>2, Sizes
  <2>5. low \in Int
    BY <2>3, <2>4, MinTwo
  <2> QED BY <1>1, <1>3, <2>5
<1>5. Max({Top - scroll, Top}) = up
  <2>1. PICK e : e = 15 - scroll
    OBVIOUS
  <2>2. e \in Int /\ 15 \in Int
    BY <1>3, <2>1
  <2>3. Max({e, 15}) = IF e >= 15 THEN e ELSE 15
    BY <2>2, MaxTwo
  <2> QED BY <1>1, <2>1, <2>3, Sizes
<1>6. Highlight = IF ~ open \/ nodes = 0 \/ low <= up THEN <<>> ELSE <<Region(One("page"), 0, up, wide, low - up)>>
  BY <1>2, <1>5 DEF Highlight
<1>7. CASE ~ open \/ nodes = 0 \/ low <= up
  <2>1. Highlight = <<>>
    BY <1>6, <1>7
  <2> QED BY <2>1, NoRegion
<1>8. CASE ~ (~ open \/ nodes = 0 \/ low <= up)
  <2>1. PICK tallness : tallness = low - up
    OBVIOUS
  <2>2. PICK r : r = Region(One("page"), 0, up, wide, tallness)
    OBVIOUS
  <2>3. Highlight = <<r>>
    BY <1>6, <1>8, <2>1, <2>2
  <2>4. One("page") \in Whats
    BY WhatIs DEF Things
  <2>5. 0 \in Int /\ wide \in Int /\ tallness \in Int /\ tallness >= 1
    BY <1>3, <1>4, <1>8, <2>1
  <2>6. up \notin {7, 14} /\ up + tallness - 1 \notin {7, 14}
    BY <1>4, <2>5
  <2>7. r \in Clear
    BY <1>4, <2>2, <2>4, <2>5, <2>6, ClearRegion
  <2>8. r.what = One("page")
    BY <2>2 DEF Region
  <2>9. ASSUME NEW x \in Int, NEW y \in Int, Spans(r, x, y) PROVE y >= 15
    <3>1. up <= y
      BY <2>2, <2>9 DEF Region, Spans
    <3> QED BY <1>4, <3>1
  <2> QED BY <2>3, <2>7, <2>8, <2>9, OneRegion
<1> QED BY <1>7, <1>8

-----------------------------------------------------------------------------
(* Bars: the strip of tabs                                                 *)

LEMMA WidthsAre == ASSUME wide \in Nat, count \in Nat \ {0} PROVE TabWidths \in Nat /\ TabWidths >= 20 * count
<1>1. PICK room : room = IF 0 >= wide - 7 THEN 0 ELSE wide - 7
  OBVIOUS
<1>2. room \in Nat /\ Max({0, wide - TabBar}) = room
  <2>1. wide - TabBar = wide - 7
    BY Sizes
  <2> QED BY <1>1, <2>1, MaxTwo
<1>3. PICK most : most = Min({50 * count, room})
  OBVIOUS
<1>4. most \in Int
  <2>1. 50 * count \in Int
    OBVIOUS
  <2> QED BY <1>2, <1>3, <2>1, MinTwo
<1>5. TabWidths = Max({20 * count, most})
  BY <1>2, <1>3, Sizes DEF TabWidths
<1>6. 20 * count \in Nat
  OBVIOUS
<1> QED BY <1>4, <1>5, <1>6, MaxTwo

LEMMA StartIs ==
  ASSUME wide \in Nat, count \in Nat \ {0}, NEW i \in Int
  PROVE  /\ TabStart(i) \in Int
         /\ \A x \in Int : TabStart(i) <= x <=> i * TabWidths <= x * count
<1>1. PICK a : a = i * TabWidths
  OBVIOUS
<1>2. a \in Int
  BY <1>1, WidthsAre
<1>3. TabStart(i) = (a + count - 1) \div count
  BY <1>1 DEF TabStart
<1> QED BY <1>1, <1>2, <1>3, CeilIs

LEMMA StartsApart ==
  ASSUME wide \in Nat, count \in Nat \ {0}, NEW i \in Int
  PROVE  TabStart(i) <= TabStart(i + 1) - 5
<1>1. PICK w : w = TabWidths
  OBVIOUS
<1>2. PICK x : x = TabStart(i + 1)
  OBVIOUS
<1>3. w \in Nat /\ w >= 20 * count /\ x \in Int
  BY <1>1, <1>2, WidthsAre, StartIs
<1>4. (i + 1) * w <= x * count
  BY <1>1, <1>2, <1>3, StartIs
<1>5. (i + 1) * w = i * w + w /\ (x - 5) * count = x * count - 5 * count
  BY <1>3
<1>6. i * w \in Int /\ x * count \in Int
  BY <1>3
<1>7. i * w <= (x - 5) * count
  BY <1>3, <1>4, <1>5, <1>6
<1> QED BY <1>1, <1>2, <1>3, <1>7, StartIs

LEMMA FirstAndLast ==
  ASSUME wide \in Nat, count \in Nat \ {0}
  PROVE  TabStart(0) = 0 /\ TabStart(count) = TabWidths
<1>1. PICK w : w = TabWidths
  OBVIOUS
<1>2. w \in Nat
  BY <1>1, WidthsAre
<1>3. TabStart(0) = 0
  <2>1. TabStart(0) <= 0
    <3>1. 0 * w <= 0 * count
      BY <1>2
    <3> QED BY <1>1, <3>1, StartIs
  <2>2. ~ (TabStart(0) <= -1)
    <3>1. ~ (0 * w <= (-1) * count) /\ -1 \in Int
      BY <1>2
    <3> QED BY <1>1, <3>1, StartIs
  <2> QED BY <2>1, <2>2, StartIs
<1>4. TabStart(count) = w
  <2>1. TabStart(count) <= w
    <3>1. count * w <= w * count
      BY <1>2
    <3> QED BY <1>1, <1>2, <3>1, StartIs
  <2>2. ~ (TabStart(count) <= w - 1)
    <3>1. (w - 1) * count = w * count - count /\ count * w = w * count /\ w * count \in Int
      BY <1>2
    <3>2. ~ (count * w <= (w - 1) * count) /\ w - 1 \in Int
      BY <1>2, <3>1
    <3> QED BY <1>1, <3>2, StartIs
  <2>3. PICK x : x = TabStart(count)
    OBVIOUS
  <2>4. x \in Int
    <3>1. count \in Int
      OBVIOUS
    <3> QED BY <2>3, <3>1, StartIs
  <2> QED BY <1>2, <2>1, <2>2, <2>3, <2>4
<1> QED BY <1>1, <1>3, <1>4

\* The tab at a place is the one whose number is computed from it.
TabAt(x) == (x * count) \div TabWidths

LEMMA TabAtIs ==
  ASSUME wide \in Nat, count \in Nat \ {0}, NEW x \in Nat
  PROVE  /\ TabAt(x) \in Int
         /\ x < TabWidths => TabAt(x) \in 0 .. count - 1
         /\ \A j \in Int : TabStart(j) <= x <=> j <= TabAt(x)
<1>1. PICK w : w = TabWidths
  OBVIOUS
<1>2. w \in Nat \ {0}
  BY <1>1, WidthsAre
<1>3. PICK b : b = x * count
  OBVIOUS
<1>4. b \in Nat
  BY <1>3
<1>5. PICK k : k = b \div w
  OBVIOUS
<1>6. k \in Int /\ w * k <= b /\ b < w * k + w /\ \A q \in Int : w * q <= b => q <= k
  BY <1>2, <1>4, <1>5, DivIs
<1>7. TabAt(x) = k
  BY <1>1, <1>3, <1>5 DEF TabAt
<1>8. k >= 0
  <2>1. w * 0 <= b
    BY <1>2, <1>4
  <2> QED BY <1>6, <2>1
<1>9. ASSUME x < w PROVE k < count
  <2>1. b < w * count
    BY <1>2, <1>3, <1>9
  <2>2. ASSUME k >= count PROVE FALSE
    <3>1. w * k >= w * count
      BY <1>2, <1>6, <2>2
    <3>2. w * k \in Int /\ w * count \in Int
      BY <1>2, <1>6
    <3> QED BY <1>4, <1>6, <2>1, <3>1, <3>2
  <2> QED BY <1>6, <2>2
<1>10. ASSUME NEW j \in Int PROVE TabStart(j) <= x <=> j <= k
  <2>1. TabStart(j) <= x <=> j * w <= b
    BY <1>1, <1>3, StartIs
  <2>2. j * w = w * j
    BY <1>2
  <2>3. j <= k => w * j <= w * k
    BY <1>2, <1>6
  <2>4. w * j \in Int /\ w * k \in Int
    BY <1>2, <1>6
  <2> QED BY <1>4, <1>6, <2>1, <2>2, <2>3, <2>4
<1> QED BY <1>1, <1>6, <1>7, <1>8, <1>9, <1>10

LEMMA PairIs == \A name \in Things, i \in Int : <<name, i>> \in Whats
  BY DEF Whats

LEMMA InTab ==
  ASSUME wide \in Nat, count \in Nat \ {0}, NEW x \in Nat, NEW j \in Int
  PROVE  /\ TabStart(j) \in Int /\ TabStart(j - 1) \in Int /\ TabStart(j - 1) <= TabStart(j) - 5
         /\ TabStart(j - 1) <= x /\ x < TabStart(j) <=> j = TabAt(x) + 1
<1>1. PICK i : i = j - 1
  OBVIOUS
<1>2. i \in Int /\ i + 1 = j
  BY <1>1
<1>3. PICK a : a = TabStart(i)
  OBVIOUS
<1>4. PICK b : b = TabStart(j)
  OBVIOUS
<1>5. a \in Int /\ b \in Int /\ a <= b - 5
  BY <1>2, <1>3, <1>4, StartIs, StartsApart
<1>6. PICK k : k = TabAt(x)
  OBVIOUS
<1>7. k \in Int /\ (a <= x <=> i <= k) /\ (b <= x <=> j <= k)
  BY <1>2, <1>3, <1>4, <1>6, TabAtIs
<1> QED BY <1>1, <1>2, <1>3, <1>4, <1>5, <1>6, <1>7

LEMMA InClose ==
  ASSUME wide \in Nat, count \in Nat \ {0}, NEW x \in Nat, NEW j \in Int
  PROVE  TabStart(j) - 5 <= x /\ x < TabStart(j) <=> j = TabAt(x) + 1 /\ TabStart(j) - 5 <= x
<1>1. PICK a : a = TabStart(j - 1)
  OBVIOUS
<1>2. PICK b : b = TabStart(j)
  OBVIOUS
<1>3. a \in Int /\ b \in Int /\ a <= b - 5 /\ (a <= x /\ x < b <=> j = TabAt(x) + 1)
  BY <1>1, <1>2, InTab
<1> QED BY <1>2, <1>3

LEMMA SeqOfClear ==
  ASSUME NEW n \in Nat, NEW f, f = [i \in 1 .. n |-> f[i]], \A i \in 1 .. n : f[i] \in Clear
  PROVE  f \in Seq(Clear) /\ DOMAIN f = 1 .. n
<1>1. f \in [1 .. n -> Clear]
  OBVIOUS
<1> QED BY <1>1, SeqDef

\* The tabs of the strip, and their crosses
TabRegions == [i \in 1 .. count |-> Region(<<"tab", i>>, TabStart(i - 1), 0, TabStart(i) - TabStart(i - 1), 7)]
CloseRegions == [i \in 1 .. count |-> Region(<<"close", i>>, TabStart(i) - 5, 0, TabStart(i) - (TabStart(i) - 5), 7)]

LEMMA TabsAre ==
  ASSUME wide \in Nat, count \in Nat \ {0}
  PROVE  /\ TabRegions \in Seq(Clear) /\ DOMAIN TabRegions = 1 .. count
         /\ \A i \in 1 .. count : TabRegions[i].what = <<"tab", i>>
         /\ \A i \in 1 .. count, x, y \in Int :
              Spans(TabRegions[i], x, y) <=> TabStart(i - 1) <= x /\ x < TabStart(i) /\ 0 <= y /\ y < 7
<1>1. ASSUME NEW i \in 1 .. count
      PROVE  /\ TabRegions[i] \in Clear /\ TabRegions[i].what = <<"tab", i>>
             /\ \A x, y \in Int :
                  Spans(TabRegions[i], x, y) <=> TabStart(i - 1) <= x /\ x < TabStart(i) /\ 0 <= y /\ y < 7
  <2>1. PICK a : a = TabStart(i - 1)
    OBVIOUS
  <2>2. PICK b : b = TabStart(i)
    OBVIOUS
  <2>3. a \in Int /\ b \in Int
    <3>1. i \in Int /\ i - 1 \in Int
      OBVIOUS
    <3> QED BY <2>1, <2>2, <3>1, StartIs
  <2>4. PICK w : w = b - a
    OBVIOUS
  <2>5. PICK r : r = Region(<<"tab", i>>, a, 0, w, 7)
    OBVIOUS
  <2>6. <<"tab", i>> \in Whats
    <3>1. i \in Int
      OBVIOUS
    <3> QED BY <3>1, PairIs DEF Things
  <2>7. w \in Int /\ 0 \in Int /\ 7 \in Int /\ 0 \notin {7, 14} /\ 0 + 7 - 1 \notin {7, 14}
    BY <2>3, <2>4
  <2>8. r \in Clear
    BY <2>3, <2>5, <2>6, <2>7, ClearRegion
  <2>9. TabRegions[i] = r
    BY <2>1, <2>2, <2>4, <2>5 DEF TabRegions
  <2>10. r.what = <<"tab", i>>
    BY <2>5 DEF Region
  <2>11. ASSUME NEW x \in Int, NEW y \in Int PROVE Spans(r, x, y) <=> a <= x /\ x < b /\ 0 <= y /\ y < 7
    <3>1. Spans(r, x, y) <=> a <= x /\ x < a + w /\ 0 <= y /\ y < 0 + 7
      BY <2>5 DEF Region, Spans
    <3> QED BY <2>3, <2>4, <3>1
  <2> QED BY <2>1, <2>2, <2>8, <2>9, <2>10, <2>11
<1>2. TabRegions = [i \in 1 .. count |-> TabRegions[i]]
  BY DEF TabRegions
<1>3. TabRegions \in Seq(Clear) /\ DOMAIN TabRegions = 1 .. count
  BY <1>1, <1>2, SeqOfClear
<1> QED BY <1>1, <1>3

LEMMA ClosesAre ==
  ASSUME wide \in Nat, count \in Nat \ {0}
  PROVE  /\ CloseRegions \in Seq(Clear) /\ DOMAIN CloseRegions = 1 .. count
         /\ \A i \in 1 .. count : CloseRegions[i].what = <<"close", i>>
         /\ \A i \in 1 .. count, x, y \in Int :
              Spans(CloseRegions[i], x, y) <=> TabStart(i) - 5 <= x /\ x < TabStart(i) /\ 0 <= y /\ y < 7
<1>1. ASSUME NEW i \in 1 .. count
      PROVE  /\ CloseRegions[i] \in Clear /\ CloseRegions[i].what = <<"close", i>>
             /\ \A x, y \in Int :
                  Spans(CloseRegions[i], x, y) <=> TabStart(i) - 5 <= x /\ x < TabStart(i) /\ 0 <= y /\ y < 7
  <2>1. PICK b : b = TabStart(i)
    OBVIOUS
  <2>2. PICK a : a = b - 5
    OBVIOUS
  <2>3. a \in Int /\ b \in Int
    <3>1. i \in Int
      OBVIOUS
    <3>2. b \in Int
      BY <2>1, <3>1, StartIs
    <3> QED BY <2>2, <3>2
  <2>4. PICK w : w = b - a
    OBVIOUS
  <2>5. PICK r : r = Region(<<"close", i>>, a, 0, w, 7)
    OBVIOUS
  <2>6. <<"close", i>> \in Whats
    <3>1. i \in Int
      OBVIOUS
    <3> QED BY <3>1, PairIs DEF Things
  <2>7. w \in Int /\ 0 \in Int /\ 7 \in Int /\ 0 \notin {7, 14} /\ 0 + 7 - 1 \notin {7, 14}
    BY <2>3, <2>4
  <2>8. r \in Clear
    BY <2>3, <2>5, <2>6, <2>7, ClearRegion
  <2>9. CloseRegions[i] = r
    BY <2>1, <2>2, <2>4, <2>5 DEF CloseRegions
  <2>10. r.what = <<"close", i>>
    BY <2>5 DEF Region
  <2>11. ASSUME NEW x \in Int, NEW y \in Int PROVE Spans(r, x, y) <=> a <= x /\ x < b /\ 0 <= y /\ y < 7
    <3>1. Spans(r, x, y) <=> a <= x /\ x < a + w /\ 0 <= y /\ y < 0 + 7
      BY <2>5 DEF Region, Spans
    <3> QED BY <2>3, <2>4, <3>1
  <2> QED BY <2>1, <2>2, <2>8, <2>9, <2>10, <2>11
<1>2. CloseRegions = [i \in 1 .. count |-> CloseRegions[i]]
  BY DEF CloseRegions
<1>3. CloseRegions \in Seq(Clear) /\ DOMAIN CloseRegions = 1 .. count
  BY <1>1, <1>2, SeqOfClear
<1> QED BY <1>1, <1>3

LEMMA BeyondTabs ==
  ASSUME wide \in Nat, count \in Nat \ {0}, NEW x \in Nat
  PROVE  /\ TabWidths \in Nat /\ TabAt(x) \in Int
         /\ x < TabWidths => TabAt(x) + 1 \in 1 .. count
         /\ x >= TabWidths => TabAt(x) + 1 \notin 1 .. count
<1>1. TabWidths \in Nat /\ TabAt(x) \in Int
  BY WidthsAre, TabAtIs
<1>2. x < TabWidths => TabAt(x) \in 0 .. count - 1
  BY TabAtIs
<1>3. x >= TabWidths => count <= TabAt(x)
  <2>1. count \in Int
    OBVIOUS
  <2>2. TabStart(count) <= x <=> count <= TabAt(x)
    BY <2>1, TabAtIs
  <2> QED BY <2>2, <1>1, FirstAndLast
<1> QED BY <1>1, <1>2, <1>3

LEMMA TabsShow ==
  ASSUME wide \in Nat, count \in Nat \ {0}, NEW x \in Nat, NEW y \in Int
  PROVE  /\ y >= 7 \/ x >= TabWidths => Misses(TabRegions, x, y)
         /\ 0 <= y /\ y < 7 /\ x < TabWidths => Paints(TabRegions, x, y, <<"tab", TabAt(x) + 1>>)
<1>1. PICK k : k = TabAt(x) + 1
  OBVIOUS
<1>2. ASSUME NEW i \in 1 .. count PROVE Spans(TabRegions[i], x, y) <=> i = k /\ 0 <= y /\ y < 7
  <2>1. i \in Int /\ x \in Int
    OBVIOUS
  <2>2. TabStart(i - 1) <= x /\ x < TabStart(i) <=> i = k
    BY <1>1, <2>1, InTab
  <2> QED BY <2>1, <2>2, TabsAre
<1>3. ASSUME y >= 7 \/ x >= TabWidths PROVE Misses(TabRegions, x, y)
  BY <1>1, <1>2, <1>3, BeyondTabs, TabsAre DEF Misses
<1>4. ASSUME 0 <= y, y < 7, x < TabWidths PROVE Paints(TabRegions, x, y, <<"tab", k>>)
  <2>1. k \in 1 .. count
    BY <1>1, <1>4, BeyondTabs
  <2>2. Spans(TabRegions[k], x, y) /\ TabRegions[k].what = <<"tab", k>> /\ k \in DOMAIN TabRegions
    BY <1>2, <1>4, <2>1, TabsAre
  <2>3. \A j \in DOMAIN TabRegions : j > k => ~ Spans(TabRegions[j], x, y)
    <3>1. \A j \in 1 .. count : j > k => j /= k
      BY <2>1
    <3> QED BY <1>2, <3>1, TabsAre
  <2> QED BY <2>2, <2>3 DEF Paints
<1> QED BY <1>1, <1>3, <1>4

LEMMA ClosesShow ==
  ASSUME wide \in Nat, count \in Nat \ {0}, NEW x \in Nat, NEW y \in Int
  PROVE  /\ y >= 7 \/ x >= TabWidths \/ ~ (x >= TabStart(TabAt(x) + 1) - 5) => Misses(CloseRegions, x, y)
         /\ 0 <= y /\ y < 7 /\ x < TabWidths /\ x >= TabStart(TabAt(x) + 1) - 5 =>
              Paints(CloseRegions, x, y, <<"close", TabAt(x) + 1>>)
<1>1. PICK k : k = TabAt(x) + 1
  OBVIOUS
<1>2. ASSUME NEW i \in 1 .. count
      PROVE  Spans(CloseRegions[i], x, y) <=> i = k /\ x >= TabStart(i) - 5 /\ 0 <= y /\ y < 7
  <2>1. i \in Int /\ x \in Int
    OBVIOUS
  <2>2. PICK b : b = TabStart(i)
    OBVIOUS
  <2>3. b \in Int
    BY <2>1, <2>2, StartIs
  <2>4. b - 5 <= x /\ x < b <=> i = k /\ b - 5 <= x
    BY <1>1, <2>1, <2>2, InClose
  <2>5. Spans(CloseRegions[i], x, y) <=> b - 5 <= x /\ x < b /\ 0 <= y /\ y < 7
    BY <2>1, <2>2, ClosesAre
  <2> QED BY <2>2, <2>3, <2>4, <2>5
<1>3. ASSUME y >= 7 \/ x >= TabWidths \/ ~ (x >= TabStart(k) - 5) PROVE Misses(CloseRegions, x, y)
  BY <1>1, <1>2, <1>3, BeyondTabs, ClosesAre DEF Misses
<1>4. ASSUME 0 <= y, y < 7, x < TabWidths, x >= TabStart(k) - 5 PROVE Paints(CloseRegions, x, y, <<"close", k>>)
  <2>1. k \in 1 .. count
    BY <1>1, <1>4, BeyondTabs
  <2>2. Spans(CloseRegions[k], x, y) /\ CloseRegions[k].what = <<"close", k>> /\ k \in DOMAIN CloseRegions
    BY <1>2, <1>4, <2>1, ClosesAre
  <2>3. \A j \in DOMAIN CloseRegions : j > k => ~ Spans(CloseRegions[j], x, y)
    <3>1. \A j \in 1 .. count : j > k => j /= k
      BY <2>1
    <3> QED BY <1>2, <3>1, ClosesAre
  <2> QED BY <2>2, <2>3 DEF Paints
<1> QED BY <1>1, <1>3, <1>4

LEMMA TabStripShows ==
  ASSUME wide \in Nat, wide >= 52, count \in Nat \ {0}
  PROVE  /\ TabStrip \in Seq(Clear)
         /\ \A x, y \in Int :
              /\ Here(x, y) /\ y >= 7 => Misses(TabStrip, x, y)
              /\ Here(x, y) /\ y < 7 => Paints(TabStrip, x, y, HitTabBar(x))
<1>1. PICK t : t = Region(One("tabs"), 0, 0, wide, 7)
  OBVIOUS
<1>2. PICK a : a = TabStart(count)
  OBVIOUS
<1>3. a \in Nat /\ a = TabWidths
  BY <1>2, FirstAndLast, WidthsAre
<1>4. PICK n : n = Region(One("new"), a, 0, 7, 7)
  OBVIOUS
<1>5. PICK c : c = IF count > 1 THEN CloseRegions ELSE <<>>
  OBVIOUS
<1>6. TabStrip = <<t>> \o TabRegions \o c \o <<n>>
  BY <1>1, <1>2, <1>4, <1>5, Sizes DEF TabStrip, TabRegions, CloseRegions
<1>7. t \in Clear /\ n \in Clear
  <2>1. One("tabs") \in Whats /\ One("new") \in Whats
    BY WhatIs DEF Things
  <2>2. 0 \in Int /\ 7 \in Int /\ 0 \notin {7, 14} /\ 0 + 7 - 1 \notin {7, 14} /\ wide \in Int /\ a \in Int
    BY <1>3
  <2> QED BY <1>1, <1>4, <2>1, <2>2, ClearRegion
<1>8. /\ t.what = One("tabs") /\ n.what = One("new")
      /\ \A x, y : Spans(t, x, y) <=> 0 <= x /\ x < 0 + wide /\ 0 <= y /\ y < 0 + 7
      /\ \A x, y : Spans(n, x, y) <=> a <= x /\ x < a + 7 /\ 0 <= y /\ y < 0 + 7
  BY <1>1, <1>4 DEF Region, Spans
<1>9. c \in Seq(Clear)
  BY <1>5, NoRegion, ClosesAre
<1>10. PICK low : low = <<t>> \o TabRegions
  OBVIOUS
<1>11. PICK mid : mid = low \o c
  OBVIOUS
<1>12. /\ <<t>> \in Seq(Clear) /\ <<n>> \in Seq(Clear) /\ TabRegions \in Seq(Clear)
       /\ low \in Seq(Clear) /\ mid \in Seq(Clear) /\ TabStrip \in Seq(Clear)
       /\ TabStrip = mid \o <<n>>
  <2>1. <<t>> \in Seq(Clear) /\ <<n>> \in Seq(Clear) /\ TabRegions \in Seq(Clear)
    BY <1>7, OneRegion, TabsAre
  <2>2. low \in Seq(Clear)
    BY <1>10, <2>1, Joined
  <2>3. mid \in Seq(Clear)
    BY <1>9, <1>11, <2>2, Joined
  <2>4. TabStrip = mid \o <<n>>
    BY <1>6, <1>10, <1>11
  <2> QED BY <2>1, <2>2, <2>3, <2>4, Joined
<1>13. ASSUME NEW x \in Int, NEW y \in Int, Here(x, y), y >= 7 PROVE Misses(TabStrip, x, y)
  <2>1. x \in Nat
    BY <1>13 DEF Here
  <2>2. ~ Spans(t, x, y) /\ ~ Spans(n, x, y)
    BY <1>8, <1>13
  <2>3. Misses(<<t>>, x, y) /\ Misses(<<n>>, x, y)
    BY <1>7, <2>2, OneRegion
  <2>4. Misses(TabRegions, x, y) /\ Misses(c, x, y)
    BY <1>5, <1>13, <2>1, TabsShow, ClosesShow, NoRegion
  <2>5. Misses(low, x, y)
    BY <1>10, <1>12, <2>3, <2>4, MissesBoth
  <2>6. Misses(mid, x, y)
    BY <1>9, <1>11, <1>12, <2>4, <2>5, MissesBoth
  <2> QED BY <1>12, <2>3, <2>6, MissesBoth
<1>14. ASSUME NEW x \in Int, NEW y \in Int, Here(x, y), y < 7 PROVE Paints(TabStrip, x, y, HitTabBar(x))
  <2>1. x \in Nat /\ x < wide /\ 0 <= y
    BY <1>14 DEF Here
  <2>2. PICK k : k = TabAt(x) + 1
    OBVIOUS
  <2>3. PICK b : b = TabStart(k)
    OBVIOUS
  <2>4. k \in Int /\ b \in Int
    <3>1. k \in Int
      BY <2>1, <2>2, BeyondTabs
    <3> QED BY <2>3, <3>1, StartIs
  <2>5. HitTabBar(x) = CASE x >= a /\ x < a + 7 -> One("new")
                         [] x >= a + 7 -> One("tabs")
                         [] x < a /\ (count > 1 /\ x >= b - 5) -> <<"close", k>>
                         [] x < a /\ ~ (count > 1 /\ x >= b - 5) -> <<"tab", k>>
    BY <1>2, <2>2, <2>3, Sizes DEF HitTabBar, TabAt
  <2>6. Paints(<<t>>, x, y, One("tabs"))
    <3>1. Spans(t, x, y)
      BY <1>8, <1>14, <2>1
    <3> QED BY <1>7, <1>8, <3>1, OneRegion
  <2>7. CASE x >= a
    <3>1. Misses(TabRegions, x, y) /\ Misses(c, x, y)
      BY <1>3, <1>5, <2>1, <2>7, TabsShow, ClosesShow, NoRegion
    <3>2. Paints(low, x, y, One("tabs"))
      BY <1>10, <1>12, <2>6, <3>1, ShowsLower
    <3>3. Paints(mid, x, y, One("tabs"))
      BY <1>9, <1>11, <1>12, <3>1, <3>2, ShowsLower
    <3>4. CASE x < a + 7
      <4>1. HitTabBar(x) = One("new")
        BY <1>3, <2>1, <2>5, <2>7, <3>4
      <4>2. Spans(n, x, y)
        BY <1>8, <1>14, <2>1, <2>7, <3>4
      <4>3. Paints(<<n>>, x, y, One("new"))
        BY <1>7, <1>8, <4>2, OneRegion
      <4> QED BY <1>12, <4>1, <4>3, ShowsUpper
    <3>5. CASE ~ (x < a + 7)
      <4>1. HitTabBar(x) = One("tabs")
        BY <1>3, <2>1, <2>5, <2>7, <3>5
      <4>2. ~ Spans(n, x, y)
        BY <1>8, <3>5
      <4>3. Misses(<<n>>, x, y)
        BY <1>7, <4>2, OneRegion
      <4> QED BY <1>12, <3>3, <4>1, <4>3, ShowsLower
    <3> QED BY <3>4, <3>5
  <2>8. CASE x < a
    <3>1. Misses(<<n>>, x, y)
      <4>1. ~ Spans(n, x, y)
        BY <1>3, <1>8, <2>1, <2>8
      <4> QED BY <1>7, <4>1, OneRegion
    <3>2. Paints(low, x, y, <<"tab", k>>)
      <4>1. Paints(TabRegions, x, y, <<"tab", k>>)
        BY <1>3, <1>14, <2>1, <2>2, <2>8, TabsShow
      <4> QED BY <1>10, <1>12, <4>1, ShowsUpper
    <3>3. CASE count > 1 /\ x >= b - 5
      <4>1. HitTabBar(x) = <<"close", k>>
        BY <1>3, <2>1, <2>5, <2>8, <3>3
      <4>2. Paints(c, x, y, <<"close", k>>)
        BY <1>3, <1>5, <1>14, <2>1, <2>2, <2>3, <2>8, <3>3, ClosesShow
      <4>3. Paints(mid, x, y, <<"close", k>>)
        BY <1>9, <1>11, <1>12, <4>2, ShowsUpper
      <4> QED BY <1>12, <3>1, <4>1, <4>3, ShowsLower
    <3>4. CASE ~ (count > 1 /\ x >= b - 5)
      <4>1. HitTabBar(x) = <<"tab", k>>
        BY <1>3, <2>1, <2>5, <2>8, <3>4
      <4>2. Misses(c, x, y)
        BY <1>5, <2>1, <2>2, <2>3, <3>4, ClosesShow, NoRegion
      <4>3. Paints(mid, x, y, <<"tab", k>>)
        BY <1>9, <1>11, <1>12, <3>2, <4>2, ShowsLower
      <4> QED BY <1>12, <3>1, <4>1, <4>3, ShowsLower
    <3> QED BY <3>3, <3>4
  <2> QED BY <1>3, <2>1, <2>7, <2>8
<1> QED BY <1>12, <1>13, <1>14

-----------------------------------------------------------------------------
(* Bars: the tools                                                         *)

LEMMA TwoRegions ==
  ASSUME NEW a \in Clear, NEW b \in Clear, NEW x, NEW y
  PROVE  /\ <<a, b>> \in Seq(Clear)
         /\ Spans(b, x, y) => Paints(<<a, b>>, x, y, b.what)
         /\ ~ Spans(b, x, y) /\ Spans(a, x, y) => Paints(<<a, b>>, x, y, a.what)
         /\ ~ Spans(b, x, y) /\ ~ Spans(a, x, y) => Misses(<<a, b>>, x, y)
<1>1. PICK s : s = <<a, b>>
  OBVIOUS
<1>2. s \in Seq(Clear) /\ DOMAIN s = {1, 2} /\ s[1] = a /\ s[2] = b
  BY <1>1
<1> QED BY <1>1, <1>2 DEF Paints, Misses

LEMMA ThreeRegions ==
  ASSUME NEW a \in Clear, NEW b \in Clear, NEW c \in Clear, NEW x, NEW y
  PROVE  /\ <<a, b, c>> \in Seq(Clear)
         /\ Spans(c, x, y) => Paints(<<a, b, c>>, x, y, c.what)
         /\ ~ Spans(c, x, y) /\ Spans(b, x, y) => Paints(<<a, b, c>>, x, y, b.what)
         /\ ~ Spans(c, x, y) /\ ~ Spans(b, x, y) /\ Spans(a, x, y) => Paints(<<a, b, c>>, x, y, a.what)
         /\ ~ Spans(c, x, y) /\ ~ Spans(b, x, y) /\ ~ Spans(a, x, y) => Misses(<<a, b, c>>, x, y)
<1>1. PICK s : s = <<a, b, c>>
  OBVIOUS
<1>2. s \in Seq(Clear) /\ DOMAIN s = {1, 2, 3} /\ s[1] = a /\ s[2] = b /\ s[3] = c
  BY <1>1
<1> QED BY <1>1, <1>2 DEF Paints, Misses

\* What is painted from the page's top down is clear of the ledges.
LEMMA LowRegion ==
  ASSUME NEW what \in Whats, NEW x \in Int, NEW y \in Int, NEW w \in Int, NEW h \in Int, y >= 15, h >= 1,
         NEW r, r = Region(what, x, y, w, h)
  PROVE  r \in Clear
<1>1. y \notin {7, 14} /\ y + h - 1 \notin {7, 14}
  OBVIOUS
<1> QED BY <1>1, ClearRegion

\* The tools are shown, on a canvas with room for them.
Shown == BarInv /\ Roomy /\ open

LEMMA PanelIs ==
  ASSUME Shown
  PROVE  /\ wide \in Nat /\ wide >= 70 /\ PanelTop \in Int /\ PanelTop >= 15 /\ high = PanelTop + 65
         /\ treeRow \in Nat /\ nodes \in Nat /\ treeRow <= nodes /\ TreeFrom = treeRow
<1>1. wide \in Nat /\ wide >= 70 /\ high \in Nat /\ high >= 80 /\ nodes \in Nat
  BY Sizes DEF Shown, Roomy, BarInv, BarTypes
<1>2. PanelTop = high - 65
  BY Sizes DEF PanelTop
<1>3. PICK most : most = IF nodes - 14 >= 0 THEN nodes - 14 ELSE 0
  OBVIOUS
<1>4. MaxTreeRow = most
  BY <1>3, Measures DEF InNumbers, Shown, BarInv
<1>5. most \in Nat /\ most <= nodes /\ treeRow \in 0 .. most
  BY <1>1, <1>3, <1>4 DEF Shown, BarInv
<1>6. TreeFrom = treeRow
  BY <1>4, <1>5, MinTwo DEF TreeFrom
<1> QED BY <1>1, <1>2, <1>5, <1>6

LEMMA ToolsLabelsShow ==
  ASSUME Shown
  PROVE  /\ ToolsLabels \in Seq(Clear)
         /\ \A x, y \in Int :
              /\ y < PanelTop \/ y >= PanelTop + 6 => Misses(ToolsLabels, x, y)
              /\ Here(x, y) /\ PanelTop <= y /\ y < PanelTop + 6 => Paints(ToolsLabels, x, y, HitToolsBar(x))
<1>1. PICK p : p = PanelTop
  OBVIOUS
<1>2. p \in Int /\ p >= 15 /\ wide \in Nat /\ wide >= 70
  BY <1>1, PanelIs
<1>3. PICK bar : bar = Region(One("toolbar"), 0, p, wide, 6)
  OBVIOUS
<1>4. PICK con : con = Region(One("console"), 0, p, 20, 6)
  OBVIOUS
<1>5. PICK els : els = Region(One("elements"), 20, p, 20, 6)
  OBVIOUS
<1>6. PICK pk : pk = Region(One("pick"), wide - 30, p, 15, 6)
  OBVIOUS
<1>7. PICK ref : ref = Region(One("refresh"), wide - 15, p, 15, 6)
  OBVIOUS
<1>8. /\ 0 \in Int /\ 6 \in Int /\ 20 \in Int /\ 15 \in Int /\ 6 >= 1 /\ wide \in Int
      /\ wide - 30 \in Int /\ wide - 15 \in Int
  BY <1>2
<1>9. /\ One("toolbar") \in Whats /\ One("console") \in Whats /\ One("elements") \in Whats
      /\ One("pick") \in Whats /\ One("refresh") \in Whats
  BY WhatIs DEF Things
<1>10. /\ bar \in Clear /\ bar.what = One("toolbar")
       /\ \A a, b \in Int : Spans(bar, a, b) <=> 0 <= a /\ a < 0 + wide /\ p <= b /\ b < p + 6
  <2>1. bar \in Clear
    BY <1>2, <1>3, <1>8, <1>9, LowRegion
  <2> QED BY <1>3, <2>1 DEF Region, Spans
<1>11. /\ con \in Clear /\ con.what = One("console")
       /\ \A a, b \in Int : Spans(con, a, b) <=> 0 <= a /\ a < 0 + 20 /\ p <= b /\ b < p + 6
  <2>1. con \in Clear
    BY <1>2, <1>4, <1>8, <1>9, LowRegion
  <2> QED BY <1>4, <2>1 DEF Region, Spans
<1>12. /\ els \in Clear /\ els.what = One("elements")
       /\ \A a, b \in Int : Spans(els, a, b) <=> 20 <= a /\ a < 20 + 20 /\ p <= b /\ b < p + 6
  <2>1. els \in Clear
    BY <1>2, <1>5, <1>8, <1>9, LowRegion
  <2> QED BY <1>5, <2>1 DEF Region, Spans
<1>13. /\ pk \in Clear /\ pk.what = One("pick")
       /\ \A a, b \in Int : Spans(pk, a, b) <=> wide - 30 <= a /\ a < wide - 30 + 15 /\ p <= b /\ b < p + 6
  <2>1. pk \in Clear
    BY <1>2, <1>6, <1>8, <1>9, LowRegion
  <2> QED BY <1>6, <2>1 DEF Region, Spans
<1>14. /\ ref \in Clear /\ ref.what = One("refresh")
       /\ \A a, b \in Int : Spans(ref, a, b) <=> wide - 15 <= a /\ a < wide - 15 + 15 /\ p <= b /\ b < p + 6
  <2>1. ref \in Clear
    BY <1>2, <1>7, <1>8, <1>9, LowRegion
  <2> QED BY <1>7, <2>1 DEF Region, Spans
<1>15. PICK s : s = <<bar, con, els>>
  OBVIOUS
<1>16. PICK t : t = IF ~ elements THEN <<>> ELSE <<pk, ref>>
  OBVIOUS
<1>17. ToolsLabels = s \o t
  <2>1. 2 * Action = 30
    BY Sizes
  <2> QED BY <1>1, <1>3, <1>4, <1>5, <1>6, <1>7, <1>15, <1>16, <2>1, Sizes DEF ToolsLabels
<1>18. s \in Seq(Clear) /\ t \in Seq(Clear)
  BY <1>10, <1>11, <1>12, <1>13, <1>14, <1>15, <1>16, ThreeRegions, TwoRegions, NoRegion
<1>19. ASSUME NEW x \in Int, NEW y \in Int, y < p \/ y >= p + 6 PROVE Misses(ToolsLabels, x, y)
  <2>1. ~ (p <= y /\ y < p + 6)
    BY <1>2, <1>19
  <2>2. Misses(s, x, y)
    BY <1>10, <1>11, <1>12, <1>15, <2>1, ThreeRegions
  <2>3. Misses(t, x, y)
    BY <1>13, <1>14, <1>16, <2>1, TwoRegions, NoRegion
  <2> QED BY <1>17, <1>18, <2>2, <2>3, MissesBoth
<1>20. ASSUME NEW x \in Int, NEW y \in Int, Here(x, y), p <= y, y < p + 6
       PROVE  Paints(ToolsLabels, x, y, HitToolsBar(x))
  <2>1. 0 <= x /\ x < wide
    BY <1>2, <1>20 DEF Here
  <2>2. HitToolsBar(x) = CASE x < 20 -> One("console")
                           [] x >= 20 /\ x < 40 -> One("elements")
                           [] x >= 40 /\ elements /\ x >= wide - 15 -> One("refresh")
                           [] x >= 40 /\ elements /\ x < wide - 15 /\ x >= wide - 30 -> One("pick")
                           [] OTHER -> One("toolbar")
    <3>1. 2 * Action = 30 /\ 2 * Label = 40
      BY Sizes
    <3> QED BY <3>1, Sizes DEF HitToolsBar
  <2>3. CASE elements /\ x >= wide - 30
    <3>1. t = <<pk, ref>>
      BY <1>16, <2>3
    <3>2. CASE x >= wide - 15
      <4>1. Spans(ref, x, y)
        BY <1>2, <1>14, <1>20, <2>1, <3>2
      <4>2. Paints(t, x, y, One("refresh"))
        BY <1>13, <1>14, <3>1, <4>1, TwoRegions
      <4>3. HitToolsBar(x) = One("refresh")
        <5>1. ~ (x < 20) /\ ~ (x >= 20 /\ x < 40) /\ x >= 40 /\ ~ (x < wide - 15)
          BY <1>2, <3>2
        <5> QED BY <2>2, <2>3, <3>2, <5>1
      <4> QED BY <1>17, <1>18, <4>2, <4>3, ShowsUpper
    <3>3. CASE ~ (x >= wide - 15)
      <4>1. Spans(pk, x, y) /\ ~ Spans(ref, x, y)
        BY <1>2, <1>13, <1>14, <1>20, <2>1, <2>3, <3>3
      <4>2. Paints(t, x, y, One("pick"))
        BY <1>13, <1>14, <3>1, <4>1, TwoRegions
      <4>3. HitToolsBar(x) = One("pick")
        <5>1. ~ (x < 20) /\ ~ (x >= 20 /\ x < 40) /\ x >= 40 /\ x < wide - 15 /\ ~ (x >= wide - 15)
          BY <1>2, <2>3, <3>3
        <5> QED BY <2>2, <2>3, <5>1
      <4> QED BY <1>17, <1>18, <4>2, <4>3, ShowsUpper
    <3> QED BY <3>2, <3>3
  <2>4. CASE ~ (elements /\ x >= wide - 30)
    <3>1. Misses(t, x, y)
      <4>1. CASE ~ elements
        BY <1>16, <4>1, NoRegion
      <4>2. CASE elements
        <5>1. ~ Spans(pk, x, y) /\ ~ Spans(ref, x, y)
          BY <1>2, <1>13, <1>14, <2>4, <4>2
        <5> QED BY <1>13, <1>14, <1>16, <4>2, <5>1, TwoRegions
      <4> QED BY <4>1, <4>2
    <3>2. Paints(s, x, y, HitToolsBar(x))
      <4>1. CASE x < 20
        <5>1. Spans(con, x, y) /\ ~ Spans(els, x, y)
          BY <1>11, <1>12, <1>20, <2>1, <4>1
        <5>2. HitToolsBar(x) = One("console")
          BY <2>2, <4>1
        <5> QED BY <1>10, <1>11, <1>12, <1>15, <5>1, <5>2, ThreeRegions
      <4>2. CASE x >= 20 /\ x < 40
        <5>1. Spans(els, x, y)
          BY <1>12, <1>20, <4>2
        <5>2. HitToolsBar(x) = One("elements")
          BY <2>2, <4>2
        <5> QED BY <1>10, <1>11, <1>12, <1>15, <5>1, <5>2, ThreeRegions
      <4>3. CASE x >= 40
        <5>1. Spans(bar, x, y) /\ ~ Spans(con, x, y) /\ ~ Spans(els, x, y)
          <6>1. Spans(bar, x, y)
            BY <1>2, <1>10, <1>20, <2>1
          <6>2. ~ Spans(con, x, y) /\ ~ Spans(els, x, y)
            BY <1>11, <1>12, <4>3
          <6> QED BY <6>1, <6>2
        <5>2. HitToolsBar(x) = One("toolbar")
          <6>1. /\ ~ (x < 20) /\ ~ (x >= 20 /\ x < 40)
                /\ ~ (x >= 40 /\ elements /\ x >= wide - 15)
                /\ ~ (x >= 40 /\ elements /\ x < wide - 15 /\ x >= wide - 30)
            BY <1>2, <2>4, <4>3
          <6> QED BY <2>2, <6>1
        <5> QED BY <1>10, <1>11, <1>12, <1>15, <5>1, <5>2, ThreeRegions
      <4> QED BY <4>1, <4>2, <4>3
    <3> QED BY <1>17, <1>18, <3>1, <3>2, ShowsLower
  <2> QED BY <2>3, <2>4
<1> QED BY <1>1, <1>17, <1>18, <1>19, <1>20, Joined

LEMMA ConsoleShows ==
  ASSUME Shown
  PROVE  /\ Console \in Seq(Clear)
         /\ \A x, y \in Int :
              /\ y < PanelTop + 6 => Misses(Console, x, y)
              /\ Here(x, y) /\ y >= PanelTop + 6 =>
                   Paints(Console, x, y, IF y - PanelTop - 6 >= 54 THEN One("input") ELSE One("log"))
<1>1. PICK p : p = PanelTop
  OBVIOUS
<1>2. p \in Int /\ p >= 15 /\ wide \in Nat /\ wide >= 70 /\ high = p + 65
  BY <1>1, PanelIs
<1>3. PICK t : t = p + 6
  OBVIOUS
<1>4. PICK u : u = p + 60
  OBVIOUS
<1>5. PICK lg : lg = Region(One("log"), 0, t, wide, 54)
  OBVIOUS
<1>6. PICK inp : inp = Region(One("input"), 0, u, wide, 5)
  OBVIOUS
<1>7. Console = <<lg, inp>>
  <2>1. PanelTop + ToolsBar = t /\ PanelHeight - ToolsBar - InputHeight = 54
    BY <1>1, <1>3, Sizes
  <2>2. PanelTop + PanelHeight - InputHeight = u
    BY <1>1, <1>2, <1>4, Sizes
  <2> QED BY <1>5, <1>6, <2>1, <2>2, Sizes DEF Console
<1>8. One("log") \in Whats /\ One("input") \in Whats
  BY WhatIs DEF Things
<1>9. /\ 0 \in Int /\ wide \in Int /\ 54 \in Int /\ 54 >= 1 /\ 5 \in Int /\ 5 >= 1
      /\ t \in Int /\ t >= 15 /\ u \in Int /\ u >= 15
  BY <1>2, <1>3, <1>4
<1>10. /\ lg \in Clear /\ lg.what = One("log")
       /\ \A a, b \in Int : Spans(lg, a, b) <=> 0 <= a /\ a < 0 + wide /\ t <= b /\ b < t + 54
  <2>1. lg \in Clear
    BY <1>5, <1>8, <1>9, LowRegion
  <2> QED BY <1>5, <2>1 DEF Region, Spans
<1>11. /\ inp \in Clear /\ inp.what = One("input")
       /\ \A a, b \in Int : Spans(inp, a, b) <=> 0 <= a /\ a < 0 + wide /\ u <= b /\ b < u + 5
  <2>1. inp \in Clear
    BY <1>6, <1>8, <1>9, LowRegion
  <2> QED BY <1>6, <2>1 DEF Region, Spans
<1>12. ASSUME NEW x \in Int, NEW y \in Int, y < p + 6 PROVE Misses(Console, x, y)
  <2>1. ~ Spans(lg, x, y) /\ ~ Spans(inp, x, y)
    BY <1>2, <1>3, <1>4, <1>10, <1>11, <1>12
  <2> QED BY <1>7, <1>10, <1>11, <2>1, TwoRegions
<1>13. ASSUME NEW x \in Int, NEW y \in Int, Here(x, y), y >= p + 6
       PROVE  Paints(Console, x, y, IF y - p - 6 >= 54 THEN One("input") ELSE One("log"))
  <2>1. 0 <= x /\ x < wide /\ y < p + 65
    BY <1>2, <1>13 DEF Here
  <2>2. CASE y - p - 6 >= 54
    <3>1. Spans(inp, x, y)
      BY <1>2, <1>4, <1>11, <2>1, <2>2
    <3> QED BY <1>7, <1>10, <1>11, <2>2, <3>1, TwoRegions
  <2>3. CASE ~ (y - p - 6 >= 54)
    <3>1. Spans(lg, x, y) /\ ~ Spans(inp, x, y)
      BY <1>2, <1>3, <1>4, <1>10, <1>11, <1>13, <2>1, <2>3
    <3> QED BY <1>7, <1>10, <1>11, <2>3, <3>1, TwoRegions
  <2> QED BY <2>2, <2>3
<1> QED BY <1>1, <1>7, <1>10, <1>11, <1>12, <1>13, TwoRegions

\* What is painted of the tree's rows
Rows == [r \in 1 .. Min({TreeRows, nodes - TreeFrom}) |-> Row(r)]

\* The row of the tree that is at a height below the top of the tree, counted from 1
RowAt(d) == d \div 4 + 1

LEMMA RowAtIs ==
  ASSUME NEW d \in Nat, NEW r \in Int
  PROVE  RowAt(d) \in Nat \ {0} /\ ((r - 1) * 4 <= d /\ d < (r - 1) * 4 + 4 <=> r = RowAt(d))
<1>1. PICK k : k = d \div 4
  OBVIOUS
<1>2. k \in Int /\ 4 * k <= d /\ d < 4 * k + 4
  BY <1>1
<1>3. RowAt(d) = k + 1
  BY <1>1 DEF RowAt
<1> QED BY <1>2, <1>3

LEMMA RowsAre ==
  ASSUME Shown
  PROVE  \E n \in Nat :
           /\ treeRow + n <= nodes
           /\ Rows \in Seq(Clear) /\ DOMAIN Rows = 1 .. n
           /\ \A r \in 1 .. n : Rows[r].what = <<"node", treeRow + r>>
           /\ \A r \in 1 .. n, x, y \in Int :
                Spans(Rows[r], x, y) <=>
                  /\ 0 <= x /\ x < wide \div 2
                  /\ PanelTop + 6 + (r - 1) * 4 <= y /\ y < PanelTop + 6 + (r - 1) * 4 + 4
<1>1. PICK t : t = PanelTop + 6
  OBVIOUS
<1>2. PICK half : half = wide \div 2
  OBVIOUS
<1>3. PICK left : left = nodes - treeRow
  OBVIOUS
<1>4. t \in Int /\ t >= 15 /\ half \in Int /\ left \in Nat /\ treeRow \in Nat /\ nodes \in Nat
  BY <1>1, <1>2, <1>3, PanelIs
<1>5. PICK n : n = IF 14 <= left THEN 14 ELSE left
  OBVIOUS
<1>6. n \in Nat /\ n <= left
  BY <1>4, <1>5
<1>7. Min({TreeRows, nodes - TreeFrom}) = n
  <2>1. 14 \in Int /\ left \in Int
    BY <1>4
  <2>2. Min({14, left}) = n
    BY <1>5, <2>1, MinTwo
  <2> QED BY <1>3, <2>2, PanelIs, Sizes
<1>8. ASSUME NEW r \in 1 .. n
      PROVE  /\ Rows[r] \in Clear /\ Rows[r].what = <<"node", treeRow + r>>
             /\ \A x, y \in Int :
                  Spans(Rows[r], x, y) <=>
                    0 <= x /\ x < half /\ t + (r - 1) * 4 <= y /\ y < t + (r - 1) * 4 + 4
  <2>1. PICK a : a = t + (r - 1) * 4
    OBVIOUS
  <2>2. a \in Int /\ a >= 15
    BY <1>4, <2>1
  <2>3. PICK i : i = treeRow + r
    OBVIOUS
  <2>4. PICK q : q = Region(<<"node", i>>, 0, a, half, 4)
    OBVIOUS
  <2>5. <<"node", i>> \in Whats
    <3>1. i \in Int
      BY <1>4, <2>3
    <3> QED BY <3>1, PairIs DEF Things
  <2>6. 0 \in Int /\ 4 \in Int /\ 4 >= 1
    OBVIOUS
  <2>7. q \in Clear
    BY <1>4, <2>2, <2>4, <2>5, <2>6, LowRegion
  <2>8. Rows[r] = q
    <3>1. PanelTop + ToolsBar + (r - 1) * RowHeight = a
      BY <1>1, <2>1, Sizes
    <3>2. Row(r) = q
      BY <1>2, <2>3, <2>4, <3>1, PanelIs, Sizes DEF Row
    <3> QED BY <1>7, <3>2 DEF Rows
  <2>9. ASSUME NEW x \in Int, NEW y \in Int
        PROVE  Spans(q, x, y) <=> 0 <= x /\ x < half /\ a <= y /\ y < a + 4
    <3>1. Spans(q, x, y) <=> 0 <= x /\ x < 0 + half /\ a <= y /\ y < a + 4
      BY <2>4 DEF Region, Spans
    <3> QED BY <1>4, <3>1
  <2>10. q.what = <<"node", treeRow + r>>
    BY <2>3, <2>4 DEF Region
  <2> QED BY <2>1, <2>7, <2>8, <2>9, <2>10
<1>9. Rows = [r \in 1 .. n |-> Rows[r]]
  BY <1>7 DEF Rows
<1>10. Rows \in Seq(Clear) /\ DOMAIN Rows = 1 .. n
  BY <1>6, <1>8, <1>9, SeqOfClear
<1>11. treeRow + n <= nodes
  BY <1>3, <1>4, <1>6
<1> QED BY <1>1, <1>2, <1>6, <1>8, <1>10, <1>11

LEMMA RowsShow ==
  ASSUME Shown
  PROVE  /\ Rows \in Seq(Clear)
         /\ \A x, y \in Int :
              /\ y < PanelTop + 6 \/ ~ (x < wide \div 2) => Misses(Rows, x, y)
              /\ Here(x, y) /\ y >= PanelTop + 6 /\ x < wide \div 2 =>
                   LET i == RowAt(y - PanelTop - 6)
                   IN \/ Misses(Rows, x, y)
                      \/ treeRow + i <= nodes /\ Paints(Rows, x, y, <<"node", treeRow + i>>)
<1>1. PICK t : t = PanelTop + 6
  OBVIOUS
<1>2. PICK half : half = wide \div 2
  OBVIOUS
<1>3. /\ t \in Int /\ PanelTop \in Int /\ t >= 15 /\ half \in Int /\ treeRow \in Nat /\ nodes \in Nat
      /\ wide \in Nat /\ high = t + 59
  BY <1>1, <1>2, PanelIs
<1>4. PICK n \in Nat :
        /\ treeRow + n <= nodes
        /\ Rows \in Seq(Clear) /\ DOMAIN Rows = 1 .. n
        /\ \A r \in 1 .. n : Rows[r].what = <<"node", treeRow + r>>
        /\ \A r \in 1 .. n, x, y \in Int :
             Spans(Rows[r], x, y) <=>
               /\ 0 <= x /\ x < half
               /\ t + (r - 1) * 4 <= y /\ y < t + (r - 1) * 4 + 4
  BY <1>1, <1>2, RowsAre
<1>5. ASSUME NEW x \in Int, NEW y \in Int, y < t \/ ~ (x < half) PROVE Misses(Rows, x, y)
  <2> SUFFICES ASSUME NEW r \in 1 .. n PROVE ~ Spans(Rows[r], x, y)
    BY <1>4 DEF Misses
  <2>1. Spans(Rows[r], x, y) <=>
          /\ 0 <= x /\ x < half
          /\ t + (r - 1) * 4 <= y /\ y < t + (r - 1) * 4 + 4
    BY <1>4
  <2> QED BY <1>3, <1>5, <2>1
<1>6. ASSUME NEW x \in Int, NEW y \in Int, Here(x, y), y >= t, x < half
      PROVE  LET i == RowAt(y - PanelTop - 6)
             IN \/ Misses(Rows, x, y)
                \/ treeRow + i <= nodes /\ Paints(Rows, x, y, <<"node", treeRow + i>>)
  <2>1. PICK d : d = y - t
    OBVIOUS
  <2>2. d \in Nat /\ d = y - PanelTop - 6 /\ y = t + d
    BY <1>1, <1>3, <1>6, <2>1
  <2>3. PICK i : i = RowAt(d)
    OBVIOUS
  <2>4. i \in Nat \ {0} /\ \A r \in Int : (r - 1) * 4 <= d /\ d < (r - 1) * 4 + 4 <=> r = i
    BY <2>2, <2>3, RowAtIs
  <2>5. 0 <= x
    BY <1>3, <1>6 DEF Here
  <2>6. ASSUME NEW r \in 1 .. n PROVE Spans(Rows[r], x, y) <=> r = i
    <3>1. PICK m : m = (r - 1) * 4
      OBVIOUS
    <3>2. m \in Int /\ r \in Int
      BY <3>1
    <3>3. m <= d /\ d < m + 4 <=> r = i
      BY <2>4, <3>1, <3>2
    <3>4. t + m <= y /\ y < t + m + 4 <=> m <= d /\ d < m + 4
      BY <1>3, <2>2, <3>2
    <3>5. Spans(Rows[r], x, y) <=> t + m <= y /\ y < t + m + 4
      BY <1>4, <1>6, <2>5, <3>1
    <3> QED BY <3>3, <3>4, <3>5
  <2>7. CASE i \in 1 .. n
    <3>1. i \in DOMAIN Rows /\ Spans(Rows[i], x, y) /\ Rows[i].what = <<"node", treeRow + i>>
      BY <1>4, <2>6, <2>7
    <3>2. \A j \in DOMAIN Rows : j > i => ~ Spans(Rows[j], x, y)
      <4>1. \A j \in 1 .. n : j > i => j /= i
        BY <2>4
      <4> QED BY <1>4, <2>6, <4>1
    <3>3. treeRow + i <= nodes
      BY <1>3, <1>4, <2>7
    <3>4. Paints(Rows, x, y, <<"node", treeRow + i>>)
      BY <3>1, <3>2 DEF Paints
    <3> QED BY <2>2, <2>3, <3>3, <3>4
  <2>8. CASE i \notin 1 .. n
    BY <1>4, <2>6, <2>8 DEF Misses
  <2> QED BY <2>7, <2>8
<1> QED BY <1>1, <1>2, <1>4, <1>5, <1>6

LEMMA TreeShows ==
  ASSUME Shown
  PROVE  /\ Tree \in Seq(Clear)
         /\ \A x, y \in Int :
              /\ y < PanelTop + 6 => Misses(Tree, x, y)
              /\ Here(x, y) /\ y >= PanelTop + 6 =>
                   \/ Paints(Tree, x, y, HitTree(x, y - PanelTop - 6))
                   \/ Paints(Tree, x, y, One("tree"))
<1>1. PICK t : t = PanelTop + 6
  OBVIOUS
<1>2. PICK half : half = wide \div 2
  OBVIOUS
<1>3. /\ t \in Int /\ PanelTop \in Int /\ t >= 15 /\ half \in Nat /\ half < wide
      /\ wide \in Nat /\ wide >= 70 /\ high = t + 59
  BY <1>1, <1>2, PanelIs
<1>4. PICK room : room = wide - half - 2
  OBVIOUS
<1>5. PICK size : size = Max({15, Min({35, room - 3})})
  OBVIOUS
<1>6. size \in Int /\ size >= 15
  <2>1. PICK m : m = Min({35, room - 3})
    OBVIOUS
  <2>2. 35 \in Int /\ room - 3 \in Int
    BY <1>3, <1>4
  <2>3. m \in Int
    <3>1. \A i, j \in Int : Min({i, j}) \in Int
      BY MinTwo
    <3> QED BY <2>1, <2>2, <3>1
  <2>4. 15 \in Int
    OBVIOUS
  <2>5. \A i, j \in Int : Max({i, j}) \in Int /\ Max({i, j}) >= i
    BY MaxTwo
  <2> QED BY <1>5, <2>1, <2>3, <2>4, <2>5
<1>7. PICK a : a = half + 2
  OBVIOUS
<1>8. PICK rest : rest = wide - half
  OBVIOUS
<1>9. PICK tr : tr = Region(One("tree"), 0, t, half, 59)
  OBVIOUS
<1>10. PICK det : det = Region(One("details"), half, t, rest, 59)
  OBVIOUS
<1>11. PICK dia : dia = Region(One("details"), a, t, size, size)
  OBVIOUS
<1>12. Tree = <<tr, det>> \o Rows \o <<dia>>
  <2>1. PanelTop + ToolsBar = t /\ PanelHeight - ToolsBar = 59
    BY <1>1, Sizes
  <2>2. dia = Diagram(wide \div 2 + 2, t, wide - wide \div 2 - 2)
    BY <1>2, <1>4, <1>5, <1>7, <1>11 DEF Diagram
  <2> QED BY <1>2, <1>8, <1>9, <1>10, <2>1, <2>2 DEF Tree, Rows
<1>13. One("tree") \in Whats /\ One("details") \in Whats
  BY WhatIs DEF Things
<1>14. /\ 0 \in Int /\ half \in Int /\ rest \in Int /\ a \in Int /\ 59 \in Int /\ 59 >= 1 /\ size >= 1
  BY <1>3, <1>6, <1>7, <1>8
<1>15. tr \in Clear
  BY <1>3, <1>9, <1>13, <1>14, LowRegion
<1>16. det \in Clear
  BY <1>3, <1>10, <1>13, <1>14, LowRegion
<1>17. dia \in Clear
  BY <1>3, <1>6, <1>11, <1>13, <1>14, LowRegion
<1>18. tr.what = One("tree") /\ \A x, y \in Int : Spans(tr, x, y) <=> 0 <= x /\ x < 0 + half /\ t <= y /\ y < t + 59
  BY <1>9 DEF Region, Spans
<1>19. /\ det.what = One("details")
       /\ \A x, y \in Int : Spans(det, x, y) <=> half <= x /\ x < half + rest /\ t <= y /\ y < t + 59
  BY <1>10 DEF Region, Spans
<1>20. /\ dia.what = One("details")
       /\ \A x, y \in Int : Spans(dia, x, y) <=> a <= x /\ x < a + size /\ t <= y /\ y < t + size
  BY <1>11 DEF Region, Spans
<1>21. PICK s : s = <<tr, det>>
  OBVIOUS
<1>22. PICK mid : mid = s \o Rows
  OBVIOUS
<1>23. /\ s \in Seq(Clear) /\ Rows \in Seq(Clear) /\ mid \in Seq(Clear) /\ <<dia>> \in Seq(Clear)
       /\ Tree \in Seq(Clear) /\ Tree = mid \o <<dia>>
  <2>1. s \in Seq(Clear) /\ Rows \in Seq(Clear) /\ <<dia>> \in Seq(Clear)
    BY <1>15, <1>16, <1>17, <1>21, TwoRegions, RowsShow, OneRegion
  <2>2. mid \in Seq(Clear)
    BY <1>22, <2>1, Joined
  <2>3. Tree = mid \o <<dia>>
    BY <1>12, <1>21, <1>22
  <2> QED BY <2>1, <2>2, <2>3, Joined
<1>24. ASSUME NEW x \in Int, NEW y \in Int, y < t PROVE Misses(Tree, x, y)
  <2>1. ~ Spans(tr, x, y) /\ ~ Spans(det, x, y) /\ ~ Spans(dia, x, y)
    BY <1>3, <1>18, <1>19, <1>20, <1>24
  <2>2. Misses(s, x, y) /\ Misses(<<dia>>, x, y)
    BY <1>15, <1>16, <1>17, <1>21, <2>1, TwoRegions, OneRegion
  <2>3. Misses(Rows, x, y)
    BY <1>1, <1>24, RowsShow
  <2>4. Misses(mid, x, y)
    BY <1>22, <1>23, <2>2, <2>3, MissesBoth
  <2> QED BY <1>23, <2>2, <2>4, MissesBoth
<1>25. ASSUME NEW x \in Int, NEW y \in Int, Here(x, y), y >= t
       PROVE  \/ Paints(Tree, x, y, HitTree(x, y - PanelTop - 6))
              \/ Paints(Tree, x, y, One("tree"))
  <2>1. 0 <= x /\ x < wide /\ y < t + 59
    BY <1>3, <1>25 DEF Here
  <2>2. PICK d : d = y - PanelTop - 6
    OBVIOUS
  <2>3. d \in Nat
    BY <1>1, <1>3, <1>25, <2>2
  <2>4. PICK i : i = RowAt(d)
    OBVIOUS
  <2>5. i \in Nat /\ treeRow \in Nat /\ nodes \in Nat
    <3>1. i \in Nat
      BY <2>3, <2>4, RowAtIs
    <3> QED BY <3>1, PanelIs
  <2>6. /\ x >= half => HitTree(x, d) = One("details")
        /\ x < half /\ treeRow + i <= nodes => HitTree(x, d) = <<"node", treeRow + i>>
    <3>1. PICK q : q = d \div 4
      OBVIOUS
    <3>2. q \in Int
      BY <2>3, <3>1
    <3>3. PICK row : row = q + treeRow + 1
      OBVIOUS
    <3>4. row = treeRow + i
      BY <2>4, <2>5, <3>1, <3>2, <3>3 DEF RowAt
    <3>5. HitTree(x, d) = CASE x >= half -> One("details")
                            [] x < half /\ row <= nodes -> <<"node", row>>
                            [] x < half /\ row > nodes -> One("tree")
      BY <1>2, <3>1, <3>3, Sizes DEF HitTree
    <3>6. x >= half => ~ (x < half)
      BY <1>3
    <3>7. x < half /\ row <= nodes => ~ (x >= half) /\ ~ (row > nodes)
      BY <1>3, <2>5, <3>4
    <3> QED BY <3>4, <3>5, <3>6, <3>7
  <2>7. CASE x >= half
    <3>1. Spans(det, x, y)
      BY <1>3, <1>8, <1>19, <1>25, <2>1, <2>7
    <3>2. Paints(s, x, y, One("details"))
      BY <1>15, <1>16, <1>19, <1>21, <3>1, TwoRegions
    <3>3. Misses(Rows, x, y)
      <4>1. ~ (x < half)
        BY <1>3, <2>7
      <4> QED BY <1>2, <4>1, RowsShow
    <3>4. Paints(mid, x, y, One("details"))
      BY <1>22, <1>23, <3>2, <3>3, ShowsLower
    <3>5. Paints(Tree, x, y, One("details"))
      <4>1. CASE Spans(dia, x, y)
        BY <1>17, <1>20, <1>23, <4>1, OneRegion, ShowsUpper
      <4>2. CASE ~ Spans(dia, x, y)
        BY <1>17, <1>23, <3>4, <4>2, OneRegion, ShowsLower
      <4> QED BY <4>1, <4>2
    <3> QED BY <2>2, <2>6, <2>7, <3>5
  <2>8. CASE x < half
    <3>1. Misses(<<dia>>, x, y)
      <4>1. ~ Spans(dia, x, y)
        BY <1>3, <1>7, <1>20, <2>8
      <4> QED BY <1>17, <4>1, OneRegion
    <3>2. Paints(s, x, y, One("tree"))
      <4>1. Spans(tr, x, y) /\ ~ Spans(det, x, y)
        BY <1>3, <1>18, <1>19, <1>25, <2>1, <2>8
      <4> QED BY <1>15, <1>16, <1>18, <1>21, <4>1, TwoRegions
    <3>3. \/ Misses(Rows, x, y)
          \/ treeRow + i <= nodes /\ Paints(Rows, x, y, <<"node", treeRow + i>>)
      BY <1>1, <1>2, <1>25, <2>2, <2>4, <2>8, RowsShow
    <3>4. CASE Misses(Rows, x, y)
      <4>1. Paints(mid, x, y, One("tree"))
        BY <1>22, <1>23, <3>2, <3>4, ShowsLower
      <4> QED BY <1>23, <3>1, <4>1, ShowsLower
    <3>5. CASE treeRow + i <= nodes /\ Paints(Rows, x, y, <<"node", treeRow + i>>)
      <4>1. Paints(mid, x, y, <<"node", treeRow + i>>)
        BY <1>22, <1>23, <3>5, ShowsUpper
      <4>2. Paints(Tree, x, y, <<"node", treeRow + i>>)
        BY <1>23, <3>1, <4>1, ShowsLower
      <4> QED BY <2>2, <2>6, <2>8, <3>5, <4>2
    <3> QED BY <3>3, <3>4, <3>5
  <2> QED BY <1>3, <2>7, <2>8
<1> QED BY <1>1, <1>23, <1>24, <1>25

LEMMA ToolsPanelShows ==
  ASSUME BarInv, Roomy
  PROVE  /\ ToolsPanel \in Seq(Clear)
         /\ \A x, y \in Int :
              /\ ~ open \/ y < PanelTop => Misses(ToolsPanel, x, y)
              /\ open /\ Here(x, y) /\ y >= PanelTop =>
                   \/ Paints(ToolsPanel, x, y, HitTools(x, y - PanelTop))
                   \/ Paints(ToolsPanel, x, y, One("tree"))
<1>1. CASE ~ open
  BY <1>1, NoRegion DEF ToolsPanel
<1>2. CASE open
  <2>1. Shown
    BY <1>2 DEF Shown
  <2>2. PICK p : p = PanelTop
    OBVIOUS
  <2>3. p \in Int
    BY <2>1, <2>2, PanelIs
  <2>4. PICK s : s = IF elements THEN Tree ELSE Console
    OBVIOUS
  <2>5. ToolsPanel = ToolsLabels \o s
    BY <1>2, <2>4 DEF ToolsPanel
  <2>6. s \in Seq(Clear) /\ ToolsLabels \in Seq(Clear)
    BY <2>1, <2>4, TreeShows, ConsoleShows, ToolsLabelsShow
  <2>7. ToolsPanel \in Seq(Clear)
    BY <2>5, <2>6, Joined
  <2>8. ASSUME NEW x \in Int, NEW y \in Int, y < p PROVE Misses(ToolsPanel, x, y)
    <3>1. y < p + 6
      BY <2>3, <2>8
    <3>2. Misses(s, x, y) /\ Misses(ToolsLabels, x, y)
      BY <2>1, <2>2, <2>4, <2>8, <3>1, TreeShows, ConsoleShows, ToolsLabelsShow
    <3> QED BY <2>5, <2>6, <3>2, MissesBoth
  <2>9. ASSUME NEW x \in Int, NEW y \in Int, Here(x, y), y >= p
        PROVE  Paints(ToolsPanel, x, y, HitTools(x, y - p)) \/ Paints(ToolsPanel, x, y, One("tree"))
    <3>1. PICK b : b = y - p - 6
      OBVIOUS
    <3>2. b \in Int
      BY <2>3, <3>1
    <3>3. HitTools(x, y - p) = CASE b < 0 -> HitToolsBar(x)
                                 [] b >= 0 /\ elements -> HitTree(x, b)
                                 [] b >= 0 /\ ~ elements -> IF b >= 54 THEN One("input") ELSE One("log")
      <4>1. PanelHeight - ToolsBar - InputHeight = 54 /\ ToolsBar = 6
        BY Sizes
      <4> QED BY <3>1, <4>1 DEF HitTools
    <3>4. CASE b < 0
      <4>1. y < p + 6 /\ p <= y
        BY <2>3, <2>9, <3>1, <3>4
      <4>2. Paints(ToolsLabels, x, y, HitToolsBar(x))
        BY <2>1, <2>2, <2>9, <4>1, ToolsLabelsShow
      <4>3. Misses(s, x, y)
        BY <2>1, <2>2, <2>4, <4>1, TreeShows, ConsoleShows
      <4>4. HitTools(x, y - p) = HitToolsBar(x)
        <5>1. ~ (b >= 0)
          BY <3>2, <3>4
        <5> QED BY <3>3, <3>4, <5>1
      <4> QED BY <2>5, <2>6, <4>2, <4>3, <4>4, ShowsLower
    <3>5. CASE ~ (b < 0)
      <4>1. y >= p + 6 /\ b >= 0
        BY <2>3, <3>1, <3>5
      <4>2. CASE elements
        <5>1. HitTools(x, y - p) = HitTree(x, b)
          BY <3>3, <3>5, <4>1, <4>2
        <5>2. Paints(s, x, y, HitTree(x, b)) \/ Paints(s, x, y, One("tree"))
          BY <2>1, <2>2, <2>4, <2>9, <3>1, <4>1, <4>2, TreeShows
        <5> QED BY <2>5, <2>6, <5>1, <5>2, ShowsUpper
      <4>3. CASE ~ elements
        <5>1. HitTools(x, y - p) = IF b >= 54 THEN One("input") ELSE One("log")
          BY <3>3, <3>5, <4>1, <4>3
        <5>2. Paints(s, x, y, IF b >= 54 THEN One("input") ELSE One("log"))
          BY <2>1, <2>2, <2>4, <2>9, <3>1, <4>1, <4>3, ConsoleShows
        <5> QED BY <2>5, <2>6, <5>1, <5>2, ShowsUpper
      <4> QED BY <4>2, <4>3
    <3> QED BY <3>4, <3>5
  <2> QED BY <1>2, <2>2, <2>7, <2>8, <2>9
<1> QED BY <1>1, <1>2 DEF BarInv, BarTypes

-----------------------------------------------------------------------------
(* Bars: every place answers for what is seen there                        *)

\* What is seen and lets clicks through
Passive == {"scrollbar", "find", "tree"}

LEMMA SeenAnswers ==
  ASSUME BarInv, Roomy
  PROVE  /\ Repaint \in Seq(Clear)
         /\ \A x, y \in Int : Here(x, y) /\ ~ OnLedge(x, y) =>
              LET seen == Atop(Repaint, x, y) IN seen[1] \in Passive \/ seen = Hit(x, y)
<1>1. /\ wide \in Nat /\ wide >= 52 /\ count \in Nat \ {0} /\ high \in Nat
      /\ open => PanelTop \in Int /\ PanelTop >= 15
  BY PanelIs DEF Shown, Roomy, BarInv, BarTypes
<1>2. PICK a : a = PageArea \o TabStrip
  OBVIOUS
<1>3. PICK b : b = a \o AddressBar
  OBVIOUS
<1>4. PICK c : c = b \o FindBar
  OBVIOUS
<1>5. PICK d : d = c \o Highlight
  OBVIOUS
<1>6. Repaint = d \o ToolsPanel
  BY <1>2, <1>3, <1>4, <1>5 DEF Repaint
<1>7. /\ PageArea \in Seq(Clear) /\ TabStrip \in Seq(Clear) /\ AddressBar \in Seq(Clear)
      /\ FindBar \in Seq(Clear) /\ Highlight \in Seq(Clear) /\ ToolsPanel \in Seq(Clear)
  BY <1>1, PageAreaShows, TabStripShows, AddressBarShows, FindBarShows, HighlightShows, ToolsPanelShows
<1>8. a \in Seq(Clear)
  BY <1>2, <1>7, Joined
<1>9. b \in Seq(Clear)
  BY <1>3, <1>7, <1>8, Joined
<1>10. c \in Seq(Clear)
  BY <1>4, <1>7, <1>9, Joined
<1>11. d \in Seq(Clear)
  BY <1>5, <1>7, <1>10, Joined
<1>12. Repaint \in Seq(Clear)
  BY <1>6, <1>7, <1>11, Joined
<1>13. ASSUME NEW x \in Int, NEW y \in Int, Here(x, y), ~ OnLedge(x, y)
       PROVE  LET seen == Atop(Repaint, x, y) IN seen[1] \in Passive \/ seen = Hit(x, y)
  <2>1. PICK p : p = PanelTop
    OBVIOUS
  <2>2. /\ y < 7 => Hit(x, y) = HitTabBar(x)
        /\ y >= 7 /\ y < 15 => Hit(x, y) = HitAddressBar(x, y)
        /\ y >= 15 /\ open /\ y >= p => Hit(x, y) = HitTools(x, y - p)
        /\ y >= 15 /\ ~ (open /\ y >= p) => Hit(x, y) = One("page")
    <3>1. Hit(x, y) = CASE y < 7 -> HitTabBar(x)
                        [] y >= 7 /\ y < 15 -> HitAddressBar(x, y)
                        [] y >= 15 /\ open /\ y >= p -> HitTools(x, y - p)
                        [] y >= 15 /\ ~ (open /\ y >= p) -> One("page")
      BY <2>1, Sizes DEF Hit
    <3>2. /\ y < 7 => ~ (y >= 7) /\ ~ (y >= 15)
          /\ y >= 7 => ~ (y < 7)
          /\ y < 15 => ~ (y >= 15)
          /\ y >= 15 => ~ (y < 7) /\ ~ (y < 15)
      OBVIOUS
    <3> QED BY <3>1, <3>2
  <2>3. \A name \in Passive : One(name)[1] \in Passive
    BY DEF One
  <2>4. CASE y < 15
    <3>1. \A w : Paints(b, x, y, w) => Paints(Repaint, x, y, w)
      <4>1. Misses(FindBar, x, y) /\ Misses(Highlight, x, y)
        BY <1>1, <2>4, FindBarShows, HighlightShows
      <4>2. Misses(ToolsPanel, x, y)
        <5>1. open => y < PanelTop
          BY <1>1, <2>4
        <5> QED BY <5>1, ToolsPanelShows
      <4> TAKE w
      <4> HAVE Paints(b, x, y, w)
      <4>3. Paints(c, x, y, w)
        BY <1>4, <1>7, <1>9, <4>1, ShowsLower
      <4>4. Paints(d, x, y, w)
        BY <1>5, <1>7, <1>10, <4>1, <4>3, ShowsLower
      <4> QED BY <1>6, <1>7, <1>11, <4>2, <4>4, ShowsLower
    <3>2. CASE y < 7
      <4>1. Paints(TabStrip, x, y, HitTabBar(x))
        BY <1>1, <1>13, <3>2, TabStripShows
      <4>2. Paints(a, x, y, HitTabBar(x))
        BY <1>2, <1>7, <4>1, ShowsUpper
      <4>3. Misses(AddressBar, x, y)
        BY <1>1, <3>2, AddressBarShows
      <4>4. Paints(b, x, y, HitTabBar(x))
        BY <1>3, <1>7, <1>8, <4>2, <4>3, ShowsLower
      <4>5. Paints(Repaint, x, y, Hit(x, y))
        BY <2>2, <3>1, <3>2, <4>4
      <4> QED BY <1>12, <4>5, AtopIs
    <3>3. CASE ~ (y < 7)
      <4>1. y >= 7 /\ 7 <= y
        BY <3>3
      <4>2. Paints(AddressBar, x, y, HitAddressBar(x, y))
        BY <1>1, <1>13, <2>4, <4>1, AddressBarShows
      <4>3. Paints(b, x, y, HitAddressBar(x, y))
        BY <1>3, <1>7, <1>8, <4>2, ShowsUpper
      <4>4. Paints(Repaint, x, y, Hit(x, y))
        BY <2>2, <2>4, <3>1, <4>1, <4>3
      <4> QED BY <1>12, <4>4, AtopIs
    <3> QED BY <3>2, <3>3
  <2>5. CASE ~ (y < 15)
    <3>1. y >= 15 /\ y >= 7
      BY <2>5
    <3>2. CASE open /\ y >= p
      <4>1. Paints(ToolsPanel, x, y, Hit(x, y)) \/ Paints(ToolsPanel, x, y, One("tree"))
        BY <1>13, <2>1, <2>2, <3>1, <3>2, ToolsPanelShows
      <4>2. Paints(Repaint, x, y, Hit(x, y)) \/ Paints(Repaint, x, y, One("tree"))
        BY <1>6, <1>7, <1>11, <4>1, ShowsUpper
      <4>3. Atop(Repaint, x, y) = Hit(x, y) \/ Atop(Repaint, x, y) = One("tree")
        BY <1>12, <4>2, AtopIs
      <4>4. "tree" \in Passive
        BY DEF Passive
      <4> QED BY <2>3, <4>3, <4>4
    <3>3. CASE ~ (open /\ y >= p)
      <4>1. Misses(ToolsPanel, x, y)
        <5>1. ~ open \/ y < PanelTop
          BY <1>1, <2>1, <3>3
        <5> QED BY <5>1, ToolsPanelShows
      <4>2. Misses(TabStrip, x, y) /\ Misses(AddressBar, x, y)
        BY <1>1, <1>13, <3>1, TabStripShows, AddressBarShows
      <4>3. PICK name \in {"page", "scrollbar"} : Paints(PageArea, x, y, One(name))
        BY <1>13, <3>1, PageAreaShows
      <4>4. Paints(a, x, y, One(name))
        BY <1>2, <1>7, <4>2, <4>3, ShowsLower
      <4>5. Paints(b, x, y, One(name))
        BY <1>3, <1>7, <1>8, <4>2, <4>4, ShowsLower
      <4>6. PICK over \in {"page", "scrollbar", "find"} : Paints(c, x, y, One(over))
        <5>1. CASE Misses(FindBar, x, y)
          BY <1>4, <1>7, <1>9, <4>5, <5>1, ShowsLower
        <5>2. CASE Paints(FindBar, x, y, One("find"))
          BY <1>4, <1>7, <1>9, <5>2, ShowsUpper
        <5> QED BY <1>1, <5>1, <5>2, FindBarShows
      <4>7. PICK top \in {"page", "scrollbar", "find"} : Paints(d, x, y, One(top))
        <5>1. CASE Misses(Highlight, x, y)
          BY <1>5, <1>7, <1>10, <4>6, <5>1, ShowsLower
        <5>2. CASE Paints(Highlight, x, y, One("page"))
          BY <1>5, <1>7, <1>10, <5>2, ShowsUpper
        <5> QED BY <5>1, <5>2, HighlightShows
      <4>8. Paints(Repaint, x, y, One(top))
        BY <1>6, <1>7, <1>11, <4>1, <4>7, ShowsLower
      <4>9. Atop(Repaint, x, y) = One(top)
        BY <1>12, <4>8, AtopIs
      <4>10. Hit(x, y) = One("page")
        BY <2>2, <3>1, <3>3
      <4>11. top = "page" \/ top \in Passive
        BY DEF Passive
      <4> QED BY <2>3, <4>9, <4>10, <4>11
    <3> QED BY <3>2, <3>3
  <2> QED BY <2>4, <2>5
<1> QED BY <1>12, <1>13

LEMMA AnswersOK == ASSUME BarInv PROVE ControlsAnswer
<1>1. PICK painted : painted = Repaint
  OBVIOUS
<1>2. PICK points : points = UNION {Corners(painted[i]) : i \in DOMAIN painted}
  OBVIOUS
<1>3. ASSUME Roomy, NEW p \in points, OnCanvas(p[1], p[2])
      PROVE  LET seen == Atop(painted, p[1], p[2]) IN seen[1] \in Passive \/ seen = Hit(p[1], p[2])
  <2>1. painted \in Seq(Clear)
    BY <1>1, <1>3, SeenAnswers
  <2>2. PICK i \in DOMAIN painted : p \in Corners(painted[i])
    BY <1>2
  <2>3. painted[i] \in Clear
    BY <2>1, <2>2
  <2>4. ~ OnLedge(p[1], p[2])
    BY <2>2, <2>3 DEF Clear
  <2>5. PICK x : x = p[1]
    OBVIOUS
  <2>6. PICK y : y = p[2]
    OBVIOUS
  <2>7. x \in Int /\ y \in Int /\ Here(x, y) /\ ~ OnLedge(x, y)
    <3>1. wide \in Int /\ high \in Int
      BY DEF BarInv, BarTypes
    <3>2. x \in 0 .. wide - 1 /\ y \in 0 .. high - 1
      BY <1>3, <2>5, <2>6 DEF OnCanvas
    <3> QED BY <2>4, <2>5, <2>6, <3>1, <3>2 DEF Here
  <2>8. Atop(painted, x, y)[1] \in Passive \/ Atop(painted, x, y) = Hit(x, y)
    BY <1>1, <1>3, <2>7, SeenAnswers
  <2> QED BY <2>5, <2>6, <2>8
<1> QED BY <1>1, <1>2, <1>3 DEF ControlsAnswer, ThingsAgree, Passive

\* At every corner of everything painted a click does what the thing seen there is
\* for, and the thumb is in its track (repaint, hit_tab_bar, handle_click).
THEOREM BarsTruth == BarsSpec => []BarsTellTruth
<1>1. BarInv => BarsTellTruth
  BY AnswersOK, ThumbOK DEF BarsTellTruth
<1> QED BY <1>1, BarsInvariant, PTL
=============================================================================
