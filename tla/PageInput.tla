----------------------------- MODULE PageInput ------------------------------
(***************************************************************************)
(* Keyboard and mouse on a page with form fields. The DOM, the focus and    *)
(* the text cursor live in the renderer's session; the app sees the page as *)
(* it was last rendered and keeps its own idea of what has the focus, by     *)
(* which it routes keys. Between the parts of one keystroke or click the     *)
(* page's listeners run, and may change the very fields it is about.         *)
(***************************************************************************)
EXTENDS Integers, FiniteSetsExt, SequencesExt

CONSTANTS
  Nodes,     \* elements of the page
  Kind,      \* of each: "text", "checkbox", "radio", "submit" or "link"
  Form,      \* of each: the form around it, or NoForm
  Order,     \* the nodes in document order
  MaxLen,    \* bound: the longest text
  MaxInputs, \* bound: what users do
  MaxDeeds,  \* bound: what scripts do
  NoNode, NoForm

ASSUME PageAssumption ==
  /\ NoNode \notin Nodes
  /\ Kind \in [Nodes -> {"text", "checkbox", "radio", "submit", "link"}]
  /\ Order \in Seq(Nodes) /\ ToSet(Order) = Nodes /\ Len(Order) = Cardinality(Nodes)
  /\ MaxLen \in Nat \ {0} /\ MaxInputs \in Nat /\ MaxDeeds \in Nat

VARIABLES
  dom,      \* value: the length of each value; checked; attached: in the document
  focused, cursor, \* of the session
  tree,     \* the app's layout_tree: which boxes, and which one is marked as focused
  keys,     \* focused_page_input: where the app believes keys go
  outlined, \* keyboard_focus
  loading,  \* a navigation is on its way
  handling, \* the message being handled, and where it is
  refused,  \* the last Focus was answered Unchanged
  cut,      \* a keydown listener shortened the field the key is for
  meddled,  \* scripts checked something or put an element back
  inputs, deeds

fields      == <<dom, focused, cursor>>
browser     == <<tree, keys, outlined, loading>>
inputGhosts == <<refused, cut, meddled>>
inputVars   == <<fields, browser, handling, inputGhosts, inputs, deeds>>

-----------------------------------------------------------------------------
(* State                                                                   *)

KeyActions == {"char", "backspace", "left", "right", "home", "end", "enter"}
Ways      == {"mouse", "keyboard", "assistive", "typing"}
RunStages == {"idle", "keydown", "edit", "click", "default", "changed", "submit", "reply", "panicked"}

NoRun == [at |-> "idle", way |-> "mouse", node |-> NoNode, key |-> "char",
         rendered |-> FALSE, prevented |-> FALSE, submits |-> FALSE]

InputTypeOK ==
  /\ dom.value \in [Nodes -> 0 .. MaxLen]
  /\ dom.checked \subseteq Nodes /\ dom.attached \subseteq Nodes
  /\ focused \in Nodes \cup {NoNode} /\ cursor \in 0 .. MaxLen
  /\ tree.boxes \subseteq Nodes /\ tree.focus \in tree.boxes \cup {NoNode}
  /\ keys \in Nodes \cup {NoNode} /\ outlined \in Nodes \cup {NoNode}
  /\ loading \in BOOLEAN
  /\ handling.at \in RunStages /\ handling.way \in Ways
  /\ handling.node \in Nodes \cup {NoNode} /\ handling.key \in KeyActions
  /\ handling.rendered \in BOOLEAN /\ handling.prevented \in BOOLEAN /\ handling.submits \in BOOLEAN
  /\ refused \in BOOLEAN /\ cut \in BOOLEAN /\ meddled \in BOOLEAN
  /\ inputs \in 0 .. MaxInputs /\ deeds \in 0 .. MaxDeeds

Page == [value |-> [n \in Nodes |-> IF Kind[n] = "text" THEN 1 ELSE 0],
         checked |-> {}, attached |-> Nodes]

\* What relayout shows with the focus on f
Shown(f) == [boxes |-> dom.attached, focus |-> IF f \in dom.attached THEN f ELSE NoNode]

Least(x, y) == Min({x, y})

-----------------------------------------------------------------------------
(* What scripts may do: change a value, take an element out (its parent     *)
(* pointer stays) or put it back, set or remove the checked attribute        *)

Changed ==
  \/ \E n \in Nodes, v \in 0 .. MaxLen - 1 : Kind[n] = "text" /\ dom' = [dom EXCEPT !.value[n] = v]
  \/ \E n \in Nodes : dom' = [dom EXCEPT !.attached = @ \ {n}]
  \/ \E n \in Nodes : dom' = [dom EXCEPT !.attached = @ \cup {n}]
  \/ \E n \in Nodes : Kind[n] = "radio" /\ dom' = [dom EXCEPT !.checked = SymDiff(@, {n})]

\* The listeners of an event together change one thing at most.
Listen ==
  \/ UNCHANGED <<dom, meddled, deeds>>
  \/ /\ deeds < MaxDeeds
     /\ deeds' = deeds + 1
     /\ Changed /\ dom' # dom
     /\ meddled' = (meddled \/ dom'.checked # dom.checked \/ ~ dom'.attached \subseteq dom.attached)

-----------------------------------------------------------------------------
(* handle_text_input                                                       *)

\* Variant: the cursor stays where the last key left it.
Unclamped(c, n) == c

Clamped(c, n) == Least(c, dom.value[n])

\* The focused node is looked up, and the cursor clamped to its value.
TextInput(k) ==
  LET found == focused \in dom.attached IN
  /\ handling' = [NoRun EXCEPT !.at = IF found THEN "keydown" ELSE "reply", !.way = "typing",
                         !.node = IF found THEN focused ELSE NoNode, !.key = k,
                         !.rendered = found]
  /\ focused' = IF found THEN focused ELSE NoNode
  /\ cursor' = IF found THEN Clamped(cursor, focused) ELSE cursor
  /\ UNCHANGED <<dom, browser, refused, meddled, deeds>>

Keydown ==
  LET n == handling.node IN
  /\ handling.at = "keydown"
  /\ Listen
  /\ cut' = (dom'.value[n] < dom.value[n])
  /\ \E stage \in {"reply",  \* preventDefault was called
                   IF handling.key # "enter" THEN "edit" ELSE IF Form[n] # NoForm THEN "submit" ELSE "reply"} :
       handling' = [handling EXCEPT !.at = stage]
  /\ UNCHANGED <<focused, cursor, browser, refused, inputs>>

\* The cursor after key k, in a text of length len
Moved(c, k, len) ==
  CASE k = "char"                -> Least(c, len) + 1
    [] k \in {"backspace", "left"} -> Max({0, c - 1})
    [] k = "right"               -> Least(c + 1, len)
    [] k = "end"                 -> len
    [] OTHER                     -> 0

Edited(c, k, len) ==
  CASE k = "char"               -> len + 1
    [] k = "backspace" /\ c > 0 -> len - 1
    [] OTHER                    -> len

\* chars.remove(cursor - 1) on a shorter text panics, and the process ends.
Panics == handling.key = "backspace" /\ cursor > dom.value[handling.node]

Edit ==
  LET n == handling.node
      len == dom.value[n] IN
  /\ handling.at = "edit"
  /\ ~ Panics
  /\ dom' = [dom EXCEPT !.value[n] = Edited(cursor, handling.key, len)]
  /\ cursor' = Moved(cursor, handling.key, len)
  /\ handling' = [handling EXCEPT !.at = IF dom' # dom THEN "changed" ELSE "reply"]
  /\ UNCHANGED <<focused, browser, inputGhosts, inputs, deeds>>

EditPanics ==
  /\ handling.at = "edit"
  /\ Panics
  /\ handling' = [handling EXCEPT !.at = "panicked"]
  /\ UNCHANGED <<fields, browser, inputGhosts, inputs, deeds>>

-----------------------------------------------------------------------------
(* dispatch_click                                                          *)

\* A click by any way on node n; it may be gone since it was rendered.
ClickOn(n, way) ==
  /\ handling' = [NoRun EXCEPT !.at = IF n \in dom.attached THEN "click" ELSE "reply", !.way = way,
                         !.node = n, !.rendered = n \in dom.attached]
  /\ UNCHANGED <<fields, browser, refused, cut, meddled, deeds>>

\* Radios below the form of n, or in the whole document; the model has one name.
Group(n) ==
  {m \in dom.attached : Kind[m] = "radio" /\ (Form[n] = NoForm \/ Form[m] = Form[n])}

\* apply_checkable_default_action
Toggled(n) ==
  CASE Kind[n] = "checkbox" -> SymDiff(dom.checked, {n})
    [] Kind[n] = "radio"    -> (dom.checked \ Group(n)) \cup {n}
    [] OTHER                -> dom.checked

\* The click listeners, which may prevent what follows
ClickListeners ==
  /\ handling.at = "click"
  /\ Listen
  /\ \/ handling' = [handling EXCEPT !.at = "reply", !.prevented = TRUE]
     \/ handling' = [handling EXCEPT !.at = "default"]
  /\ UNCHANGED <<focused, cursor, browser, refused, cut, inputs>>

SubmitsForm(n) == Kind[n] = "submit" /\ Form[n] # NoForm

\* The default action: toggle and fire change; or fire submit at the form
Default ==
  LET n == handling.node IN
  /\ handling.at = "default"
  /\ \/ /\ Kind[n] \in {"checkbox", "radio"}
        /\ handling' = [handling EXCEPT !.at = "changed"]
     \/ /\ SubmitsForm(n)
        /\ handling' = [handling EXCEPT !.at = "submit"]
     \/ /\ Kind[n] \notin {"checkbox", "radio"} /\ ~ SubmitsForm(n)
        /\ handling' = [handling EXCEPT !.at = "reply"]
  /\ dom' = [dom EXCEPT !.checked = Toggled(n)]
  /\ UNCHANGED <<focused, cursor, browser, inputGhosts, inputs, deeds>>

\* The submit listeners; unless prevented, build_form_submission
Submit ==
  /\ handling.at = "submit"
  /\ Listen
  /\ \E prevented \in BOOLEAN : handling' = [handling EXCEPT !.at = "reply", !.submits = ~ prevented]
  /\ UNCHANGED <<focused, cursor, browser, refused, cut, inputs>>

\* The listeners of change, after a toggle, or of input, after an edit
ChangeListeners ==
  /\ handling.at = "changed"
  /\ Listen
  /\ handling' = [handling EXCEPT !.at = "reply"]
  /\ UNCHANGED <<focused, cursor, browser, refused, cut, inputs>>

-----------------------------------------------------------------------------
(* The app: what users do                                                  *)

UserActs ==
  /\ handling.at = "idle"
  /\ inputs < MaxInputs
  /\ inputs' = inputs + 1

\* A key, where the app believes keys go to a field of the page
Press(k) ==
  /\ UserActs
  /\ keys # NoNode
  /\ k = "char" /\ focused # NoNode => dom.value[focused] < MaxLen
  /\ TextInput(k)
  /\ UNCHANGED cut

\* activate_page_keyboard_focus: Enter or the space bar on anything else
Activate ==
  /\ UserActs
  /\ keys = NoNode /\ outlined # NoNode
  /\ ClickOn(focused, "keyboard")

\* Whatever the app's tree shows may be clicked, with or without a mouse.
Point ==
  /\ UserActs
  /\ \/ \E n \in tree.boxes, way \in {"mouse", "assistive"} : ClickOn(n, way)
     \/ ClickOn(NoNode, "mouse")

\* Variant: only Tab tells the app of a new focus.
SyncOutline(t) == outlined' = t.focus /\ UNCHANGED keys

\* sync_page_keyboard_focus
Sync(t) ==
  /\ outlined' = t.focus
  /\ keys' = IF t.focus # NoNode /\ Kind[t.focus] = "text" THEN t.focus ELSE NoNode

\* The focus moves to f, the cursor to the end of its value; or to nothing.
FocusTo(f) ==
  /\ focused' = f
  /\ cursor' = IF f = NoNode THEN cursor ELSE dom.value[f]
  /\ tree' = Shown(f)

\* Where in the document the stops are
Stops == {i \in DOMAIN Order : Order[i] \in dom.attached}

\* The stop after, or before, the focused one, around the ends
NextStop(step) ==
  LET beyond == {i \in Stops : \E j \in Stops : Order[j] = focused /\ i * step > j * step}
      rest   == IF beyond = {} THEN Stops ELSE beyond IN
  IF Stops = {} THEN NoNode ELSE Order[IF step = 1 THEN Min(rest) ELSE Max(rest)]

\* Tab and Shift+Tab
MoveFocus(step) ==
  /\ UserActs
  /\ FocusTo(NextStop(step))
  /\ Sync(tree')
  /\ refused' = FALSE
  /\ UNCHANGED <<dom, loading, handling, cut, meddled, deeds>>

\* An assistive technology focuses an element; it may be gone.
FocusNode(n) ==
  /\ UserActs
  /\ n \in tree.boxes
  /\ IF n \in dom.attached THEN FocusTo(n) ELSE UNCHANGED <<focused, cursor, tree>>
  /\ Sync(tree')
  /\ refused' = FALSE
  /\ UNCHANGED <<dom, loading, handling, cut, meddled, deeds>>

\* blur_page_input_if_focused, where nothing else happens
LeaveField ==
  /\ UserActs
  /\ keys # NoNode
  /\ focused' = NoNode
  /\ tree' = Shown(NoNode)
  /\ keys' = NoNode /\ outlined' = NoNode
  /\ refused' = FALSE
  /\ UNCHANGED <<dom, cursor, loading, handling, cut, meddled, deeds>>

\* A timer of the page
TimerFires ==
  /\ handling.at = "idle"
  /\ Listen
  /\ deeds' # deeds
  /\ tree' = Shown(focused)
  /\ UNCHANGED <<focused, cursor, keys, outlined, loading, handling, refused, cut, inputs>>

\* poll_pending_navigations: a new page, with nothing focused
PageArrives ==
  /\ handling.at = "idle"
  /\ loading
  /\ dom' = Page
  /\ focused' = NoNode /\ cursor' = 0
  /\ tree' = [boxes |-> Nodes, focus |-> NoNode]
  /\ keys' = NoNode /\ outlined' = NoNode
  /\ loading' = FALSE
  /\ refused' = FALSE /\ cut' = FALSE /\ meddled' = FALSE
  /\ UNCHANGED <<handling, inputs, deeds>>

-----------------------------------------------------------------------------
(* The app: what it does with the answer                                   *)

TreeAfter(f) == IF handling.rendered THEN Shown(f) ELSE tree

AnswerTo(way) ==
  /\ handling.at = "reply" /\ handling.way = way
  /\ handling' = NoRun
  /\ UNCHANGED <<dom, cut, meddled, inputs, deeds>>

Typed ==
  /\ AnswerTo("typing")
  /\ tree' = TreeAfter(focused)
  /\ keys' = IF handling.submits THEN NoNode ELSE keys
  /\ loading' = (loading \/ handling.submits)
  /\ UNCHANGED <<focused, cursor, outlined, refused>>

Followed(n) == n # NoNode /\ Kind[n] = "link" /\ ~ handling.prevented

\* A clicked text field gets a Focus, and the app takes it for focused whatever
\* the answer; a click elsewhere is a blur, if a field was focused.
Clicked ==
  LET n == handling.node IN
  /\ AnswerTo("mouse")
  /\ CASE n # NoNode /\ Kind[n] = "text" ->
            /\ keys' = n /\ outlined' = n
            /\ IF n \in dom.attached
               THEN /\ focused' = n
                    /\ cursor' \in 0 .. dom.value[n]
                    /\ tree' = Shown(n)
                    /\ refused' = FALSE
               ELSE /\ tree' = TreeAfter(focused)
                    /\ refused' = TRUE
                    /\ UNCHANGED <<focused, cursor>>
       [] (n = NoNode \/ Kind[n] # "text") /\ keys # NoNode ->
            /\ focused' = NoNode
            /\ tree' = Shown(NoNode)
            /\ keys' = NoNode /\ outlined' = NoNode
            /\ refused' = FALSE
            /\ UNCHANGED cursor
       [] OTHER ->
            /\ tree' = TreeAfter(focused)
            /\ UNCHANGED <<focused, cursor, keys, outlined, refused>>
  /\ loading' = (loading \/ handling.submits \/ Followed(n))

\* Enter or the space bar: a link is followed, a submission is not looked at.
Activated ==
  /\ AnswerTo("keyboard")
  /\ tree' = TreeAfter(focused)
  /\ Sync(tree')
  /\ refused' = FALSE
  /\ loading' = (loading \/ (Followed(outlined) /\ outlined \in tree'.boxes))
  /\ UNCHANGED <<focused, cursor>>

\* Likewise; and the focus is where it was.
Assisted ==
  /\ AnswerTo("assistive")
  /\ tree' = TreeAfter(focused)
  /\ loading' = (loading \/ (Followed(handling.node) /\ handling.node \in tree'.boxes))
  /\ UNCHANGED <<focused, cursor, keys, outlined, refused>>

-----------------------------------------------------------------------------
InputInit ==
  /\ dom = Page
  /\ focused = NoNode /\ cursor = 0
  /\ tree = [boxes |-> Nodes, focus |-> NoNode]
  /\ keys = NoNode /\ outlined = NoNode /\ loading = FALSE
  /\ handling = NoRun
  /\ refused = FALSE /\ cut = FALSE /\ meddled = FALSE
  /\ inputs = 0 /\ deeds = 0

Users ==
  \/ \E k \in KeyActions : Press(k)
  \/ Activate \/ Point \/ LeaveField
  \/ \E step \in {-1, 1} : MoveFocus(step)
  \/ \E n \in Nodes : FocusNode(n)

Renderer ==
  \/ Keydown \/ Edit \/ EditPanics
  \/ ClickListeners \/ Default \/ Submit \/ ChangeListeners

Answers == Typed \/ Clicked \/ Activated \/ Assisted

InputNext == Users \/ Renderer \/ Answers \/ TimerFires \/ PageArrives

InputSpec == InputInit /\ [][InputNext]_inputVars

-----------------------------------------------------------------------------
(* Properties                                                              *)

\* The app and the session never have the focus on different elements, however
\* clicks, Tab, assistive technologies, scripts and navigations follow each other;
\* so a key edits the field that the user sees focused. The exception is a
\* clicked field that its own click listener took out: its Focus is refused, the
\* app takes it for focused, and keys go on to the field before it (handle_click).
FocusAgrees ==
  handling.at = "idle" /\ ~ refused =>
    /\ keys \in {NoNode, outlined}
    /\ focused # NoNode /\ outlined # NoNode => focused = outlined

\* The cursor is within the text when a key edits it, whatever scripts did to the
\* value since the last key (the clamp in handle_text_input); unless a keydown
\* listener of this very key shortened it, which is after the clamp.
EditsInRange ==
  handling.at = "edit" /\ ~ cut => cursor <= dom.value[handling.node]

\* No two radios of a group are checked, as long as no script checks one or puts
\* one back, though radios are taken out while they are clicked.
AtMostOneChecked ==
  ~ meddled =>
    \A m, n \in dom.checked \cap dom.attached :
      Kind[m] = "radio" /\ Kind[n] = "radio" /\ Form[m] = Form[n] => m = n

\* Listeners that run between the parts of a key or a click leave the text cursor
\* and the radio groups sound (handle_text_input, apply_checkable_default_action).
FieldsAreSound == EditsInRange /\ AtMostOneChecked

-----------------------------------------------------------------------------
(* What the comments in the source say, and the code does not do           *)

\* The clamp is "defensive against a script mutating .value": no key ends the
\* renderer's process.
NoKeyPanics == handling.at # "panicked"
=============================================================================
