-------------------------------- MODULE Window --------------------------------
(***************************************************************************)
(* The window's event loop. It sleeps until an event comes or the moment it *)
(* last armed, hands each event to the browser, and learns from the frame it *)
(* gets back, if it gets one, when the browser next wants to be woken. It    *)
(* holds back a resize until the window has kept its size for a while, and   *)
(* stretches the old picture over the window until then.                    *)
(* One dimension of sizes stands for both.                                  *)
(***************************************************************************)
EXTENDS Integers, FiniteSetsExt

CONSTANTS
  Sources,  \* what the browser may have to be woken for: scripts, sound, the update check
  Sizes,    \* sizes of the window, 0 when it is minimised
  Bucket,   \* a strict browser lays pages out in multiples of it
  Debounce, \* how long a size must last
  Delays,   \* after which the browser may ask to be woken
  MaxNow    \* bound on the clock

ASSUME WindowAssumption ==
  /\ Sizes \subseteq Nat /\ MaxNow \in Nat
  /\ Delays \subseteq Nat /\ IsFiniteSet(Delays)
  /\ Bucket \in Nat \ {0} /\ Debounce \in Nat \ {0}

VARIABLES
  now,
  inner,     \* the window's size
  lastSize, pendingResize, resizeAt, \* what the loop remembers of resizes
  surface, texture, \* sizes of what is drawn on and of the picture stretched over it
  shown,     \* the window shows the picture
  wakeAt,    \* wake_deadline
  armed,     \* the loop's ControlFlow
  level, canvas, laid, due \* of the browser: its setting, its canvas, the size it made
                           \* the canvas for, and when each source is due

browserVars == <<level, canvas, laid, due>>
resizeVars  == <<inner, lastSize, pendingResize, resizeAt, surface>>
winVars     == <<now, resizeVars, texture, shown, wakeAt, armed, browserVars>>

\* Later than anything: Wait, for the loop.
Never == MaxNow + Debounce + Max(Delays \cup {0}) + 1

Earliest(d) == Min({d[s] : s \in Sources} \cup {Never})

Reschedule(resize, wake) == Min({resize, wake})

Letterbox(size) == Max({1, size \div Bucket}) * Bucket

Resolve(l, size) == IF l = "strict" THEN Letterbox(size) ELSE size

\* Where in the picture a place in the window is.
PhysicalToContent(p) == (p * texture) \div Max({1, surface})

-----------------------------------------------------------------------------
(* What the browser answers: the times its sources are due, whether it has a *)
(* frame, and the size it has laid the page out for.                        *)

Answer(d, isFrame) == [due |-> d, frame |-> isFrame, level |-> level]

Silence == Answer(due, FALSE)

Later(t) == {Never} \cup {t + d : d \in Delays}

\* An event may start, move or stop timers; each handler that does gives a frame.
Busy(t) ==
  {Answer(d, TRUE) : d \in {due} \cup UNION {{[due EXCEPT ![s] = at] : at \in Later(t)} : s \in Sources}}

\* What is due at t. The update check, too, is set again whatever comes of it.
Ripe(t) == {s \in Sources : due[s] <= t}

\* Timers that are due run, and may be set again. A load may have arrived too.
Ticked(t, arrived) ==
  LET ripe == Ripe(t)
      next == {d \in [Sources -> Later(t) \cup {due[s] : s \in Sources}] :
                 \A s \in Sources : IF s \in ripe THEN d[s] \in Later(t) ELSE d[s] = due[s]}
  IN IF arrived THEN {Answer(d, TRUE) : d \in next} \cup Busy(t)
     ELSE {Answer(d, ripe # {}) : d \in next}

\* A setting changes at once; the canvas does not.
Settings == {[Answer(due, TRUE) EXCEPT !.level = l] : l \in {"strict", "standard"}}

\* What the browser is told of, but for a resize and a tick.
InputEvent ==
  {"MouseMoved", "MouseClick", "Scroll", "AccessibilityAction",
   "CharTyped", "Backspace", "Enter", "Escape", "ArrowLeft", "ArrowRight", "Home", "End",
   "NavigateBack", "NavigateForward", "NewTab", "CloseTab", "NextTab", "PreviousTab", "Find",
   "FindPrevious", "ToggleDevTools", "Reload", "ToggleBookmark", "FocusNext", "FocusPrevious"}
PointerEvents == {"MouseMoved", "MouseClick", "Scroll", "AccessibilityAction"}
KeyEvents     == InputEvent \ PointerEvents

\* A mouse that only moves; keys that only move a text cursor, if there is one.
Quiet == {"MouseMoved"}
OnlyInText == {"ArrowLeft", "ArrowRight", "Home", "End"}

Handle(event) ==
  CASE event \in Quiet      -> {Silence}
    [] event \in OnlyInText -> {Silence} \cup Busy(now)
    [] event \in {"MouseClick", "Enter"} -> Settings \cup Busy(now)
    [] OTHER                -> Busy(now)

\* A new picture, of the canvas's size, has still to be drawn.
UpdateTexture(fresh, size) ==
  /\ texture' = IF fresh THEN size ELSE texture
  /\ shown' = (shown /\ ~ fresh)

\* The loop shows a frame, and arms what it asks for.
Shows(a) ==
  /\ due' = a.due /\ level' = a.level
  /\ UpdateTexture(a.frame, canvas)
  /\ wakeAt' = IF a.frame THEN Earliest(a.due) ELSE wakeAt
  /\ armed' = IF a.frame THEN Reschedule(resizeAt, Earliest(a.due)) ELSE armed

-----------------------------------------------------------------------------
(* Events                                                                  *)

\* The window is made, the browser paints it once, and the loop starts.
WinInit ==
  /\ now = 0
  /\ inner \in Sizes \ {0}
  /\ lastSize = inner /\ surface = inner /\ laid = inner
  /\ pendingResize = 0 /\ resizeAt = Never
  /\ level \in {"strict", "standard"}
  /\ canvas = Resolve(level, inner) /\ texture = canvas
  /\ shown = FALSE
  /\ due \in [Sources -> {Never} \cup Delays]
  /\ wakeAt = Earliest(due) /\ armed = wakeAt

\* Variant: what is drawn on keeps its size until the page is laid out anew.
AsBefore(size) == surface

Reconfigured(size) == IF size > 0 THEN size ELSE surface

Resized(size) ==
  /\ inner' = size
  /\ surface' = Reconfigured(size)
  /\ IF size > 0 /\ size # lastSize
     THEN /\ lastSize' = size /\ pendingResize' = size
          /\ resizeAt' = now + Debounce
          /\ armed' = Reschedule(resizeAt', wakeAt)
     ELSE UNCHANGED <<lastSize, pendingResize, resizeAt, armed>>
  /\ UNCHANGED <<now, texture, shown, wakeAt, browserVars>>

\* Variant: the wake-up is cleared after the browser was asked, not before.
ClearedAfter(a, rings, wake) == IF rings THEN Never ELSE wake

\* The wake-up once the browser has answered, if it was asked.
Cleared(a, rings, wake) ==
  CASE a.frame              -> Earliest(a.due)
    [] ~ a.frame /\ rings   -> Never
    [] ~ a.frame /\ ~ rings -> wake

\* The armed moment has come: for the resize, for the browser, or for both. The
\* browser reads the clock again, later.
ResumeTimeReached ==
  /\ armed <= now
  /\ LET settled == resizeAt <= now
         size    == IF settled THEN Resolve(level, pendingResize) ELSE canvas
         wake    == IF settled THEN Earliest(due) ELSE wakeAt
         rings   == wake <= now
     IN \E t \in now .. now + 1, arrived \in BOOLEAN :
        \E a \in IF rings THEN Ticked(t, arrived) ELSE {Silence} :
          /\ canvas' = size
          /\ laid' = IF settled THEN pendingResize ELSE laid
          /\ UpdateTexture(settled \/ a.frame, size)
          /\ pendingResize' = IF settled THEN 0 ELSE pendingResize
          /\ resizeAt' = IF settled THEN Never ELSE resizeAt
          /\ wakeAt' = Cleared(a, rings, wake)
          /\ armed' = Reschedule(resizeAt', wakeAt')
          /\ due' = a.due /\ level' = a.level
  /\ UNCHANGED <<now, inner, lastSize, surface>>

\* A renderer's answer wakes the loop, also one the browser has taken already.
ExternalWake ==
  /\ \E arrived \in BOOLEAN : \E a \in Ticked(now, arrived) : Shows(a)
  /\ UNCHANGED <<now, canvas, laid, resizeVars>>

\* CursorMoved, MouseInput, MouseWheel and an assistive technology's requests.
Pointed ==
  /\ \E a \in UNION {Handle(event) : event \in PointerEvents} : Shows(a)
  /\ UNCHANGED <<now, canvas, laid, resizeVars>>

\* What a key says depends on the modifiers held; all the browser needs here is which
\* events there are.
KeyboardInput ==
  /\ \E a \in UNION {Handle(event) : event \in KeyEvents} : Shows(a)
  /\ UNCHANGED <<now, canvas, laid, resizeVars>>

\* If the surface was lost it is made again, and nothing is drawn.
RedrawRequested ==
  /\ ~ shown /\ shown' \in BOOLEAN
  /\ UNCHANGED <<now, wakeAt, armed, texture, resizeVars, browserVars>>

Passes ==
  /\ now < MaxNow
  /\ now' = now + 1
  /\ UNCHANGED <<wakeAt, armed, texture, shown, resizeVars, browserVars>>

WinNext ==
  \/ \E size \in Sizes : Resized(size)
  \/ ResumeTimeReached
  \/ ExternalWake
  \/ Pointed
  \/ KeyboardInput
  \/ RedrawRequested
  \/ Passes

WinSpec == WinInit /\ [][WinNext]_winVars

-----------------------------------------------------------------------------
(* Properties                                                              *)

\* Whatever the browser waits for, the loop will be up for it in time, and also for
\* a size the page is not laid out for yet: a frame replaces the wake-up, a silent
\* answer keeps it, one moment stands for two deadlines, and no event arms the
\* loop past either.
NothingIsForgotten ==
  /\ armed <= Earliest(due)
  /\ inner > 0 /\ laid # inner => armed <= resizeAt /\ resizeAt < Never

\* A click is taken where the window shows what was clicked: the picture stretched
\* over the window as it is, resized or not, is the browser's own canvas.
ClicksLandWhereShown ==
  \A p \in 0 .. inner - 1 :
    /\ PhysicalToContent(p) = (p * texture) \div inner
    /\ PhysicalToContent(p) \in 0 .. canvas - 1

\* A changed setting takes effect at once (a run shows that it does not).
LevelIsApplied == pendingResize = 0 => canvas = Resolve(level, lastSize)
=============================================================================
