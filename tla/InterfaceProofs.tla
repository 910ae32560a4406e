--------------------------- MODULE InterfaceProofs ----------------------------
(***************************************************************************)
(* Theorems about the window's event loop (Window) and the fields of a page  *)
(* (PageInput), for any sizes, delays and sources of wake-ups, and for any   *)
(* page, of any length of text and any number of inputs and scripts.        *)
(***************************************************************************)
EXTENDS PageInput, Window, TLAPS, FiniteSetTheorems, WellFoundedInduction

-----------------------------------------------------------------------------
(* Numbers                                                                 *)

LEMMA TwoMax == \A a, b \in Int : Max({a, b}) = IF a >= b THEN a ELSE b
<1> TAKE a, b \in Int
<1> DEFINE x == IF a >= b THEN a ELSE b
<1>1. x \in {a, b} /\ \A y \in {a, b} : x >= y
  OBVIOUS
<1>2. \A z \in {a, b} : (\A y \in {a, b} : z >= y) => z = x
  OBVIOUS
<1> QED BY <1>1, <1>2 DEF Max

\* Finite intervals are well-founded by inclusion, hence naturals by their order.
LEMMA Smallest ==
  ASSUME NEW N \in SUBSET Nat, N # {}
  PROVE  \E n \in N : \A m \in N : n <= m
<1> DEFINE T == {0 .. n : n \in N}
           R == StrictSubsetOrdering(Nat)
<1>1. T \subseteq FiniteSubsetsOf(Nat) /\ T # {}
  <2>1. \A n \in N : IsFiniteSet(0 .. n) /\ 0 .. n \in SUBSET Nat
    BY FS_Interval
  <2> QED BY <2>1 DEF FiniteSubsetsOf
<1>2. \E x \in T : \A y \in T : ~ (<<y, x>> \in R)
  <2>1. IsWellFoundedOn(R, FiniteSubsetsOf(Nat))
    BY FS_StrictSubsetOrderingWellFounded
  <2> HIDE DEF T, R
  <2> QED BY <1>1, <2>1, WFMin
<1>3. PICK n \in N : \A m \in N : ~ (<<0 .. m, 0 .. n>> \in R)
  BY <1>2
<1>4. ASSUME NEW m \in N, m < n PROVE FALSE
  <2>1. n \in 0 .. n /\ n \notin 0 .. m
    BY <1>4
  <2>2. 0 .. m \subseteq 0 .. n /\ 0 .. m # 0 .. n /\ 0 .. m \in SUBSET Nat /\ 0 .. n \in SUBSET Nat
    BY <2>1, <1>4
  <2> QED BY <2>2, <1>3 DEF StrictSubsetOrdering
<1> QED BY <1>3, <1>4

LEMMA MinIs ==
  ASSUME NEW N \in SUBSET Nat, N # {}
  PROVE  Min(N) \in N /\ \A m \in N : Min(N) <= m
BY Smallest DEF Min

LEMMA TwoMin == \A a, b \in Int : Min({a, b}) = IF a <= b THEN a ELSE b
<1> TAKE a, b \in Int
<1> DEFINE x == IF a <= b THEN a ELSE b
<1>1. x \in {a, b} /\ \A y \in {a, b} : x <= y
  OBVIOUS
<1>2. \A z \in {a, b} : (\A y \in {a, b} : z <= y) => z = x
  OBVIOUS
<1> QED BY <1>1, <1>2 DEF Min

LEMMA MaxIs ==
  ASSUME NEW N \in SUBSET Nat, N # {}, NEW k \in Nat, \A n \in N : n <= k
  PROVE  Max(N) \in N /\ \A m \in N : m <= Max(N)
<1> DEFINE D == {k - n : n \in N}
<1>1. D \in SUBSET Nat /\ D # {}
  <2>1. \A n \in N : k - n \in Nat
    OBVIOUS
  <2>2. PICK n \in N : TRUE
    OBVIOUS
  <2>3. k - n \in D
    OBVIOUS
  <2> QED BY <2>1, <2>3
<1>2. PICK d \in D : \A e \in D : d <= e
  BY <1>1, Smallest
<1>3. PICK n \in N : d = k - n
  BY <1>2
<1>4. \A m \in N : k - m \in D
  OBVIOUS
<1>5. \A m \in N : n >= m
  BY <1>2, <1>3, <1>4
<1> QED BY <1>3, <1>5 DEF Max

-----------------------------------------------------------------------------
(* PageInput: the inductive invariant                                      *)

NodeSets == SUBSET Nodes
Places   == Nodes \cup {NoNode}
Texts    == [Nodes -> 0 .. MaxLen]
Docs     == [value : Texts, checked : NodeSets, attached : NodeSets]
Trees    == [boxes : NodeSets, focus : Places]
Runs     == [at : RunStages, way : Ways, node : Places, key : KeyActions,
             rendered : BOOLEAN, prevented : BOOLEAN, submits : BOOLEAN]

InputTypes ==
  /\ dom \in Docs /\ tree \in Trees /\ handling \in Runs
  /\ focused \in Places /\ cursor \in 0 .. MaxLen
  /\ keys \in Places /\ outlined \in Places /\ loading \in BOOLEAN
  /\ refused \in BOOLEAN /\ cut \in BOOLEAN /\ meddled \in BOOLEAN
  /\ inputs \in 0 .. MaxInputs /\ deeds \in 0 .. MaxDeeds

\* A key on its way is for an element, and for a place in its text.
KeyPlaced ==
  /\ handling.at \in {"keydown", "edit", "click", "default"} => handling.node \in Nodes
  /\ handling.at \in {"keydown", "edit"} /\ handling.key = "char" => dom.value[handling.node] < MaxLen
  /\ handling.at = "keydown" => cursor <= dom.value[handling.node]

\* The app's tree never shows another focus than the session's.
TreeAgrees ==
  /\ tree.focus \in tree.boxes \cup {NoNode}
  /\ focused # NoNode /\ tree.focus # NoNode => tree.focus = focused

\* FocusAgrees, also while a message is handled.
AppAgrees ==
  ~ refused =>
    /\ keys \in {NoNode, outlined}
    /\ focused # NoNode /\ outlined # NoNode => focused = outlined

InputInv == InputTypes /\ KeyPlaced /\ TreeAgrees /\ AppAgrees /\ EditsInRange /\ AtMostOneChecked

-----------------------------------------------------------------------------
(* PageInput: what the actions are made of                                 *)

LEMMA LeastIs == \A x, y \in Int : Least(x, y) = IF x <= y THEN x ELSE y
BY TwoMin DEF Least

\* A listener may change what it likes, and what it changes is a page.
LEMMA Listened ==
  ASSUME PageAssumption, InputTypes, Listen
  PROVE  /\ dom' \in Docs /\ meddled' \in BOOLEAN /\ deeds' \in 0 .. MaxDeeds
         /\ \A n \in Nodes : dom.value[n] < MaxLen => dom'.value[n] < MaxLen
         /\ ~ meddled' => ~ meddled /\ dom'.checked = dom.checked /\ dom'.attached \subseteq dom.attached
<1> USE DEF PageAssumption
<1>1. CASE UNCHANGED <<dom, meddled, deeds>>
  BY <1>1 DEF InputTypes
<1>2. CASE ~ UNCHANGED <<dom, meddled, deeds>>
  <2>1. /\ deeds < MaxDeeds /\ deeds' = deeds + 1 /\ Changed
        /\ meddled' = (meddled \/ dom'.checked # dom.checked \/ ~ dom'.attached \subseteq dom.attached)
    BY <1>2 DEF Listen
  <2>2. dom' \in Docs /\ \A n \in Nodes : dom.value[n] < MaxLen => dom'.value[n] < MaxLen
    <3>1. CASE \E n \in Nodes, v \in 0 .. MaxLen - 1 : dom' = [dom EXCEPT !.value[n] = v]
      <4>1. PICK n \in Nodes, v \in 0 .. MaxLen - 1 : dom' = [dom EXCEPT !.value[n] = v]
        BY <3>1
      <4>2. v \in 0 .. MaxLen /\ dom.value \in Texts
        BY DEF InputTypes, Docs
      <4>3. [dom.value EXCEPT ![n] = v] \in Texts
        BY <4>2 DEF Texts
      <4>4. dom' = [dom EXCEPT !.value = [dom.value EXCEPT ![n] = v]]
        BY <4>1
      <4>5. dom' \in Docs /\ dom'.value = [dom.value EXCEPT ![n] = v]
        BY <4>3, <4>4 DEF InputTypes, Docs
      <4> QED BY <4>2, <4>5 DEF Texts
    <3>2. CASE \E A \in NodeSets : dom' = [dom EXCEPT !.attached = A] \/ dom' = [dom EXCEPT !.checked = A]
      BY <3>2 DEF InputTypes, Docs
    <3>3. \A n \in Nodes : /\ dom.attached \ {n} \in NodeSets /\ dom.attached \cup {n} \in NodeSets
                           /\ SymDiff(dom.checked, {n}) \in NodeSets
      BY DEF InputTypes, Docs, NodeSets, SymDiff
    <3>4. \/ \E n \in Nodes, v \in 0 .. MaxLen - 1 : dom' = [dom EXCEPT !.value[n] = v]
          \/ \E n \in Nodes : dom' = [dom EXCEPT !.attached = @ \ {n}]
          \/ \E n \in Nodes : dom' = [dom EXCEPT !.attached = @ \cup {n}]
          \/ \E n \in Nodes : dom' = [dom EXCEPT !.checked = SymDiff(@, {n})]
      BY <2>1 DEF Changed
    <3> QED BY <3>1, <3>2, <3>3, <3>4
  <2>3. deeds' \in 0 .. MaxDeeds
    BY <2>1 DEF InputTypes
  <2>4. meddled' \in BOOLEAN
    BY <2>1 DEF InputTypes
  <2>5. ~ meddled' => ~ meddled /\ dom'.checked = dom.checked /\ dom'.attached \subseteq dom.attached
    BY <2>1
  <2> QED BY <2>2, <2>3, <2>4, <2>5
<1> QED BY <1>1, <1>2

\* A listener leaves the groups of radios as they are, or is counted as meddling.
LEMMA ListenedChecked ==
  ASSUME PageAssumption, InputTypes, Listen, AtMostOneChecked
  PROVE  AtMostOneChecked'
BY Listened DEF AtMostOneChecked

LEMMA StopIs ==
  ASSUME PageAssumption, InputTypes, NEW step \in {-1, 1}
  PROVE  NextStop(step) \in Places
<1> DEFINE beyond == {i \in Stops : \E j \in Stops : Order[j] = focused /\ i * step > j * step}
           rest   == IF beyond = {} THEN Stops ELSE beyond
<1>1. CASE Stops = {}
  BY <1>1 DEF NextStop, Places
<1>2. CASE Stops # {}
  <2>1. Order \in Seq(Nodes) /\ Len(Order) \in Nat /\ DOMAIN Order = 1 .. Len(Order)
    BY DEF PageAssumption
  <2>2. rest \in SUBSET Nat /\ rest # {} /\ rest \subseteq DOMAIN Order /\ \A i \in rest : i <= Len(Order)
    BY <1>2, <2>1 DEF Stops
  <2>3. Min(rest) \in DOMAIN Order
    <3> HIDE DEF rest
    <3> QED BY <2>2, MinIs
  <2>4. Max(rest) \in DOMAIN Order
    <3> HIDE DEF rest
    <3> QED BY <2>1, <2>2, MaxIs
  <2>5. \A i \in DOMAIN Order : Order[i] \in Nodes
    BY <2>1
  <2>6. NextStop(step) = Order[IF step = 1 THEN Min(rest) ELSE Max(rest)]
    BY <1>2 DEF NextStop
  <2> QED BY <2>3, <2>4, <2>5, <2>6 DEF Places
<1> QED BY <1>1, <1>2

LEMMA ShownIs ==
  ASSUME InputTypes, NEW f \in Places
  PROVE  /\ Shown(f) \in Trees /\ Shown(f).focus \in Shown(f).boxes \cup {NoNode}
         /\ Shown(f).focus \in {f, NoNode}
BY DEF Shown, Trees, InputTypes, Docs, NodeSets, Places

LEMMA FocusIs ==
  ASSUME PageAssumption, InputTypes, NEW f \in Places, FocusTo(f)
  PROVE  /\ focused' = f /\ focused' \in Places /\ cursor' \in 0 .. MaxLen
         /\ tree' \in Trees /\ tree'.focus \in tree'.boxes \cup {NoNode} /\ tree'.focus \in {f, NoNode}
<1>1. f # NoNode => dom.value[f] \in 0 .. MaxLen
  BY DEF InputTypes, Docs, Texts, Places
<1> QED BY <1>1, ShownIs DEF FocusTo, InputTypes

LEMMA SyncIs ==
  ASSUME NEW t \in Trees, Sync(t)
  PROVE  outlined' = t.focus /\ outlined' \in Places /\ keys' \in {NoNode, outlined'} /\ keys' \in Places
BY DEF Sync, Trees, Places

-----------------------------------------------------------------------------
(* PageInput: one step preserves the invariant                             *)

LEMMA FirstPage ==
  ASSUME PageAssumption
  PROVE  Page \in Docs /\ Page.checked = {} /\ [boxes |-> Nodes, focus |-> NoNode] \in Trees
<1>1. /\ [n \in Nodes |-> IF Kind[n] = "text" THEN 1 ELSE 0] \in Texts
      /\ {} \in NodeSets /\ Nodes \in NodeSets
  BY DEF Texts, NodeSets, PageAssumption
<1> QED BY <1>1 DEF Page, Docs, Trees, Places

LEMMA InputStart == PageAssumption /\ InputInit => InputInv
<1> SUFFICES ASSUME PageAssumption, InputInit PROVE InputInv
  OBVIOUS
<1>1. Page \in Docs /\ Page.checked = {} /\ [boxes |-> Nodes, focus |-> NoNode] \in Trees
  BY FirstPage
<1>4. NoRun \in Runs /\ NoRun.at = "idle"
  BY DEF NoRun, Runs, RunStages, Ways, Places, KeyActions
<1>5. InputTypes
  <2>1. 0 \in 0 .. MaxLen /\ 0 \in 0 .. MaxInputs /\ 0 \in 0 .. MaxDeeds /\ NoNode \in Places
    BY DEF PageAssumption, Places
  <2> QED BY <1>1, <1>4, <2>1 DEF InputInit, InputTypes
<1> QED BY <1>1, <1>4, <1>5
        DEF InputInit, InputInv, KeyPlaced, TreeAgrees, AppAgrees, EditsInRange, AtMostOneChecked

LEMMA NewRun ==
  ASSUME NEW at \in RunStages, NEW way \in Ways, NEW n \in Places, NEW k \in KeyActions, NEW r \in BOOLEAN
  PROVE  [NoRun EXCEPT !.at = at, !.way = way, !.node = n, !.key = k, !.rendered = r] \in Runs
BY DEF NoRun, Runs, Ways, Places, KeyActions

LEMMA PressStep ==
  ASSUME PageAssumption, InputInv, NEW k \in KeyActions, Press(k)
  PROVE  InputInv'
<1>0. InputTypes /\ KeyPlaced /\ TreeAgrees /\ AppAgrees /\ EditsInRange /\ AtMostOneChecked
  BY DEF InputInv
<1> DEFINE found == focused \in dom.attached
<1>1. /\ handling' \in Runs /\ handling'.key = k
      /\ handling'.at \in {"keydown", "reply"}
      /\ handling'.at = "keydown" => handling'.node = focused /\ focused \in Nodes /\ cursor' <= dom.value[focused]
      /\ k = "char" /\ focused # NoNode => dom.value[focused] < MaxLen
      /\ focused' \in {focused, NoNode} /\ focused' \in Places /\ cursor' \in 0 .. MaxLen
      /\ inputs' \in 0 .. MaxInputs
      /\ NoNode \notin Nodes
      /\ UNCHANGED <<dom, tree, keys, outlined, loading, refused, cut, meddled, deeds>>
  <2>1. found => focused \in Nodes /\ focused # NoNode
    BY <1>0 DEF InputTypes, Docs, NodeSets, PageAssumption
  <2>2. found => dom.value[focused] \in 0 .. MaxLen
    BY <2>1, <1>0 DEF InputTypes, Docs, Texts
  <2>3. cursor' \in 0 .. MaxLen /\ (found => cursor' <= dom.value[focused])
    <3>1. cursor' = IF found THEN Least(cursor, dom.value[focused]) ELSE cursor
      BY DEF Press, TextInput, Clamped
    <3> QED BY <3>1, <2>2, <1>0, LeastIs DEF InputTypes
  <2>4. focused' \in {focused, NoNode} /\ focused' \in Places
    BY <1>0 DEF Press, TextInput, InputTypes, Places
  <2>5. inputs' \in 0 .. MaxInputs
    BY <1>0 DEF Press, UserActs, InputTypes, PageAssumption
  <2>6. UNCHANGED <<dom, tree, keys, outlined, loading, refused, cut, meddled, deeds>>
    BY DEF Press, TextInput, browser
  <2>7. /\ handling' \in Runs /\ handling'.key = k
        /\ handling'.at = IF found THEN "keydown" ELSE "reply"
        /\ found => handling'.node = focused
    <3>1. handling' = [NoRun EXCEPT !.at = IF found THEN "keydown" ELSE "reply", !.way = "typing",
                                   !.node = IF found THEN focused ELSE NoNode, !.key = k, !.rendered = found]
      BY DEF Press, TextInput
    <3>2. (IF found THEN "keydown" ELSE "reply") \in RunStages /\ "typing" \in Ways /\ found \in BOOLEAN
      BY DEF RunStages, Ways
    <3>3. (IF found THEN focused ELSE NoNode) \in Places
      BY <1>0 DEF InputTypes, Places
    <3>4. handling' \in Runs
      BY <3>1, <3>2, <3>3, NewRun
    <3> QED BY <3>1, <3>4 DEF NoRun
  <2>8. k = "char" /\ focused # NoNode => dom.value[focused] < MaxLen
    BY DEF Press
  <2>9. NoNode \notin Nodes
    BY DEF PageAssumption
  <2> QED BY <2>1, <2>3, <2>4, <2>5, <2>6, <2>7, <2>8, <2>9
<1>2. InputTypes'
  BY <1>0, <1>1 DEF InputTypes
<1>3. KeyPlaced'
  BY <1>0, <1>1 DEF KeyPlaced, InputTypes, Docs, Texts
<1>4. TreeAgrees'
  BY <1>0, <1>1 DEF TreeAgrees
<1>5. AppAgrees'
  BY <1>0, <1>1 DEF AppAgrees
<1>6. EditsInRange'
  BY <1>0, <1>1 DEF EditsInRange, KeyPlaced
<1>7. AtMostOneChecked'
  BY <1>0, <1>1 DEF AtMostOneChecked
<1> QED BY <1>2, <1>3, <1>4, <1>5, <1>6, <1>7 DEF InputInv

LEMMA AtStage ==
  ASSUME handling \in Runs, NEW at \in RunStages, NEW b \in BOOLEAN, NEW c \in BOOLEAN
  PROVE  /\ [handling EXCEPT !.at = at] \in Runs
         /\ [handling EXCEPT !.at = at, !.prevented = b] \in Runs
         /\ [handling EXCEPT !.at = at, !.submits = c] \in Runs
BY DEF Runs

LEMMA RunIs ==
  ASSUME InputTypes
  PROVE  /\ handling \in Runs /\ handling.node \in Places /\ handling.key \in KeyActions
         /\ handling.at \in RunStages /\ handling.submits \in BOOLEAN /\ handling.rendered \in BOOLEAN
BY DEF InputTypes, Runs

LEMMA KeydownStep ==
  ASSUME PageAssumption, InputInv, Keydown
  PROVE  InputInv'
<1>0. InputTypes /\ KeyPlaced /\ TreeAgrees /\ AppAgrees /\ EditsInRange /\ AtMostOneChecked
  BY DEF InputInv
<1> DEFINE n == handling.node
<1>1. /\ handling.at = "keydown" /\ n \in Nodes /\ MaxLen \in Nat /\ cursor \in 0 .. MaxLen
      /\ dom.value[n] \in 0 .. MaxLen /\ dom'.value[n] \in 0 .. MaxLen
      /\ handling' \in Runs /\ handling'.at \in {"reply", "edit", "submit"}
      /\ handling'.node = handling.node /\ handling'.key = handling.key
      /\ dom' \in Docs /\ meddled' \in BOOLEAN /\ deeds' \in 0 .. MaxDeeds
      /\ dom.value[n] < MaxLen => dom'.value[n] < MaxLen
      /\ ~ meddled' => ~ meddled /\ dom'.checked = dom.checked /\ dom'.attached \subseteq dom.attached
      /\ ~ cut' => dom.value[n] <= dom'.value[n]
      /\ cut' \in BOOLEAN
      /\ UNCHANGED <<focused, cursor, tree, keys, outlined, loading, refused, inputs>>
  <2>1. handling.at = "keydown" /\ Listen /\ cut' = (dom'.value[n] < dom.value[n])
    BY DEF Keydown
  <2>2. n \in Nodes
    BY <2>1, <1>0 DEF KeyPlaced
  <2>3. /\ dom' \in Docs /\ meddled' \in BOOLEAN /\ deeds' \in 0 .. MaxDeeds
        /\ dom.value[n] < MaxLen => dom'.value[n] < MaxLen
        /\ ~ meddled' => ~ meddled /\ dom'.checked = dom.checked /\ dom'.attached \subseteq dom.attached
    BY <1>0, <2>1, <2>2, Listened
  <2>4. dom.value[n] \in 0 .. MaxLen /\ dom'.value[n] \in 0 .. MaxLen
    BY <1>0, <2>2, <2>3 DEF InputTypes, Docs, Texts
  <2>11. MaxLen \in Nat /\ cursor \in 0 .. MaxLen
    BY <1>0 DEF InputTypes, PageAssumption
  <2>5. PICK at \in {"reply", "edit", "submit"} : handling' = [handling EXCEPT !.at = at]
    BY DEF Keydown
  <2>6. handling \in Runs /\ at \in RunStages
    BY <1>0 DEF InputTypes, RunStages
  <2>7. handling' \in Runs
    BY <2>5, <2>6, AtStage
  <2>8. handling'.at = at /\ handling'.node = handling.node /\ handling'.key = handling.key
    BY <2>5, <2>6 DEF Runs
  <2>9. UNCHANGED <<focused, cursor, tree, keys, outlined, loading, refused, inputs>>
    BY DEF Keydown, browser
  <2>10. cut' \in BOOLEAN /\ (~ cut' => dom.value[n] <= dom'.value[n])
    <3>1. ASSUME dom'.value[n] < dom.value[n] PROVE cut' = TRUE
      BY <3>1, <2>1, Zenon
    <3>2. ASSUME ~ cut' PROVE ~ (dom'.value[n] < dom.value[n])
      BY <3>2, <2>1
    <3>3. dom'.value[n] < dom.value[n] \/ dom.value[n] <= dom'.value[n]
      BY <2>4, <2>11
    <3>4. cut' \in BOOLEAN
      BY <2>1
    <3> QED BY <3>1, <3>2, <3>3, <3>4
  <2> QED BY <2>1, <2>2, <2>3, <2>4, <2>5, <2>7, <2>8, <2>9, <2>10, <2>11
<1>2. InputTypes'
  BY <1>0, <1>1 DEF InputTypes
<1>3. KeyPlaced'
  BY <1>0, <1>1 DEF KeyPlaced, InputTypes, Docs, Texts
<1>4. TreeAgrees'
  BY <1>0, <1>1 DEF TreeAgrees
<1>5. AppAgrees'
  BY <1>0, <1>1 DEF AppAgrees
<1>6. EditsInRange'
  BY <1>0, <1>1 DEF EditsInRange, KeyPlaced
<1>7. AtMostOneChecked'
  BY <1>0, <1>1 DEF AtMostOneChecked
<1> QED BY <1>2, <1>3, <1>4, <1>5, <1>6, <1>7 DEF InputInv

LEMMA EditStep ==
  ASSUME PageAssumption, InputInv, Edit
  PROVE  InputInv'
<1>0. InputTypes /\ KeyPlaced /\ TreeAgrees /\ AppAgrees /\ EditsInRange /\ AtMostOneChecked
  BY DEF InputInv
<1> DEFINE n == handling.node
           k == handling.key
           len == dom.value[n]
<1>1. /\ handling' \in Runs /\ handling'.at \in {"changed", "reply"}
      /\ dom' \in Docs /\ dom'.checked = dom.checked /\ dom'.attached = dom.attached
      /\ cursor' \in 0 .. MaxLen
      /\ UNCHANGED <<focused, tree, keys, outlined, loading, refused, cut, meddled, inputs, deeds>>
  <2>1. handling.at = "edit" /\ ~ (k = "backspace" /\ cursor > len)
    BY DEF Edit, Panics
  <2>2. n \in Nodes /\ k \in KeyActions /\ (k = "char" => len < MaxLen)
    BY <2>1, <1>0 DEF KeyPlaced, InputTypes, Runs
  <2>3. len \in 0 .. MaxLen /\ cursor \in 0 .. MaxLen /\ MaxLen \in Nat
    BY <1>0, <2>2 DEF InputTypes, Docs, Texts, PageAssumption
  <2>4. Moved(cursor, k, len) \in 0 .. MaxLen
    <3>1. Least(cursor, len) = (IF cursor <= len THEN cursor ELSE len)
      BY <2>3, LeastIs
    <3>2. Least(cursor + 1, len) = (IF cursor + 1 <= len THEN cursor + 1 ELSE len)
      BY <2>3, LeastIs
    <3>3. Max({0, cursor - 1}) = (IF 0 >= cursor - 1 THEN 0 ELSE cursor - 1)
      BY <2>3, TwoMax
    <3> QED BY <2>2, <2>3, <3>1, <3>2, <3>3, SMTT(30) DEF Moved, KeyActions
  <2>5. Edited(cursor, k, len) \in 0 .. MaxLen
    BY <2>1, <2>2, <2>3, SMTT(30) DEF Edited
  <2>6. PICK v \in 0 .. MaxLen : dom' = [dom EXCEPT !.value[n] = v]
    BY <2>5 DEF Edit
  <2>7. [dom.value EXCEPT ![n] = v] \in Texts
    BY <1>0, <2>6 DEF Texts, InputTypes, Docs
  <2>8. dom' = [dom EXCEPT !.value = [dom.value EXCEPT ![n] = v]]
    BY <2>6
  <2>9. dom' \in Docs /\ dom'.checked = dom.checked /\ dom'.attached = dom.attached
    BY <1>0, <2>7, <2>8 DEF InputTypes, Docs
  <2>10. cursor' \in 0 .. MaxLen
    BY <2>4 DEF Edit
  <2>11. PICK at \in {"changed", "reply"} : handling' = [handling EXCEPT !.at = at]
    BY DEF Edit
  <2>12. handling' \in Runs /\ handling'.at = at
    <3>1. handling \in Runs /\ at \in RunStages
      BY <1>0 DEF InputTypes, RunStages
    <3>2. handling' \in Runs
      BY <2>11, <3>1, AtStage
    <3> QED BY <2>11, <3>1, <3>2 DEF Runs
  <2>13. UNCHANGED <<focused, tree, keys, outlined, loading, refused, cut, meddled, inputs, deeds>>
    BY DEF Edit, browser, inputGhosts
  <2> QED BY <2>9, <2>10, <2>11, <2>12, <2>13
<1>2. InputTypes'
  BY <1>0, <1>1 DEF InputTypes
<1>3. KeyPlaced'
  BY <1>0, <1>1 DEF KeyPlaced, InputTypes, Docs, Texts
<1>4. TreeAgrees'
  BY <1>0, <1>1 DEF TreeAgrees
<1>5. AppAgrees'
  BY <1>0, <1>1 DEF AppAgrees
<1>6. EditsInRange'
  BY <1>0, <1>1 DEF EditsInRange, KeyPlaced
<1>7. AtMostOneChecked'
  BY <1>0, <1>1 DEF AtMostOneChecked
<1> QED BY <1>2, <1>3, <1>4, <1>5, <1>6, <1>7 DEF InputInv

LEMMA EditPanicsStep ==
  ASSUME PageAssumption, InputInv, EditPanics
  PROVE  InputInv'
<1>0. InputTypes /\ KeyPlaced /\ TreeAgrees /\ AppAgrees /\ EditsInRange /\ AtMostOneChecked
  BY DEF InputInv
<1>1. /\ handling' \in Runs /\ handling'.at = "panicked"
      /\ UNCHANGED <<dom, focused, cursor, tree, keys, outlined, loading, refused, cut, meddled, inputs, deeds>>
  <2>1. handling' = [handling EXCEPT !.at = "panicked"]
    BY DEF EditPanics
  <2>2. handling' \in Runs /\ handling'.at = "panicked"
    <3>1. handling \in Runs /\ "panicked" \in RunStages
      BY <1>0 DEF InputTypes, RunStages
    <3>2. handling' \in Runs
      BY <2>1, <3>1, AtStage
    <3> QED BY <2>1, <3>1, <3>2 DEF Runs
  <2> QED BY <2>2 DEF EditPanics, fields, browser, inputGhosts
<1>2. InputTypes'
  BY <1>0, <1>1 DEF InputTypes
<1>3. KeyPlaced'
  BY <1>0, <1>1 DEF KeyPlaced, InputTypes, Docs, Texts
<1>4. TreeAgrees'
  BY <1>0, <1>1 DEF TreeAgrees
<1>5. AppAgrees'
  BY <1>0, <1>1 DEF AppAgrees
<1>6. EditsInRange'
  BY <1>0, <1>1 DEF EditsInRange, KeyPlaced
<1>7. AtMostOneChecked'
  BY <1>0, <1>1 DEF AtMostOneChecked
<1> QED BY <1>2, <1>3, <1>4, <1>5, <1>6, <1>7 DEF InputInv

LEMMA ClickListenersStep ==
  ASSUME PageAssumption, InputInv, ClickListeners
  PROVE  InputInv'
<1>0. InputTypes /\ KeyPlaced /\ TreeAgrees /\ AppAgrees /\ EditsInRange /\ AtMostOneChecked
  BY DEF InputInv
<1>1. /\ handling.at = "click"
      /\ handling' \in Runs /\ handling'.at \in {"reply", "default"} /\ handling'.node = handling.node
      /\ dom' \in Docs /\ meddled' \in BOOLEAN /\ deeds' \in 0 .. MaxDeeds
      /\ ~ meddled' => ~ meddled /\ dom'.checked = dom.checked /\ dom'.attached \subseteq dom.attached
      /\ UNCHANGED <<focused, cursor, tree, keys, outlined, loading, refused, cut, inputs>>
  <2>1. handling.at = "click" /\ Listen
    BY DEF ClickListeners
  <2>2. /\ dom' \in Docs /\ meddled' \in BOOLEAN /\ deeds' \in 0 .. MaxDeeds
        /\ ~ meddled' => ~ meddled /\ dom'.checked = dom.checked /\ dom'.attached \subseteq dom.attached
    BY <1>0, <2>1, Listened
  <2>3. handling' \in Runs /\ handling'.at \in {"reply", "default"} /\ handling'.node = handling.node
    <3>1. handling \in Runs /\ "reply" \in RunStages /\ "default" \in RunStages /\ TRUE \in BOOLEAN
      BY <1>0 DEF InputTypes, RunStages
    <3>2. CASE handling' = [handling EXCEPT !.at = "reply", !.prevented = TRUE]
      <4>1. handling' \in Runs
        BY <3>1, <3>2, AtStage
      <4> QED BY <3>1, <3>2, <4>1 DEF Runs
    <3>3. CASE handling' = [handling EXCEPT !.at = "default"]
      <4>1. handling' \in Runs
        BY <3>1, <3>3, AtStage
      <4> QED BY <3>1, <3>3, <4>1 DEF Runs
    <3> QED BY <3>2, <3>3 DEF ClickListeners
  <2>4. UNCHANGED <<focused, cursor, tree, keys, outlined, loading, refused, cut, inputs>>
    BY DEF ClickListeners, browser
  <2> QED BY <2>1, <2>2, <2>3, <2>4
<1>2. InputTypes'
  BY <1>0, <1>1 DEF InputTypes
<1>3. KeyPlaced'
  BY <1>0, <1>1 DEF KeyPlaced, InputTypes, Docs, Texts
<1>4. TreeAgrees'
  BY <1>0, <1>1 DEF TreeAgrees
<1>5. AppAgrees'
  BY <1>0, <1>1 DEF AppAgrees
<1>6. EditsInRange'
  BY <1>0, <1>1 DEF EditsInRange, KeyPlaced
<1>7. AtMostOneChecked'
  BY <1>0, <1>1 DEF AtMostOneChecked
<1> QED BY <1>2, <1>3, <1>4, <1>5, <1>6, <1>7 DEF InputInv

LEMMA SubmitStep ==
  ASSUME PageAssumption, InputInv, Submit
  PROVE  InputInv'
<1>0. InputTypes /\ KeyPlaced /\ TreeAgrees /\ AppAgrees /\ EditsInRange /\ AtMostOneChecked
  BY DEF InputInv
<1>1. /\ handling.at = "submit"
      /\ handling' \in Runs /\ handling'.at \in {"reply"} /\ handling'.node = handling.node
      /\ dom' \in Docs /\ meddled' \in BOOLEAN /\ deeds' \in 0 .. MaxDeeds
      /\ ~ meddled' => ~ meddled /\ dom'.checked = dom.checked /\ dom'.attached \subseteq dom.attached
      /\ UNCHANGED <<focused, cursor, tree, keys, outlined, loading, refused, cut, inputs>>
  <2>1. handling.at = "submit" /\ Listen
    BY DEF Submit
  <2>2. /\ dom' \in Docs /\ meddled' \in BOOLEAN /\ deeds' \in 0 .. MaxDeeds
        /\ ~ meddled' => ~ meddled /\ dom'.checked = dom.checked /\ dom'.attached \subseteq dom.attached
    BY <1>0, <2>1, Listened
  <2>3. handling' \in Runs /\ handling'.at \in {"reply"} /\ handling'.node = handling.node
    <3>1. handling \in Runs /\ "reply" \in RunStages
      BY <1>0 DEF InputTypes, RunStages
    <3>2. PICK b \in BOOLEAN : handling' = [handling EXCEPT !.at = "reply", !.submits = b]
      BY DEF Submit
    <3>3. handling' \in Runs
      BY <3>1, <3>2, AtStage
    <3> QED BY <3>1, <3>2, <3>3 DEF Runs
  <2>4. UNCHANGED <<focused, cursor, tree, keys, outlined, loading, refused, cut, inputs>>
    BY DEF Submit, browser
  <2> QED BY <2>1, <2>2, <2>3, <2>4
<1>2. InputTypes'
  BY <1>0, <1>1 DEF InputTypes
<1>3. KeyPlaced'
  BY <1>0, <1>1 DEF KeyPlaced, InputTypes, Docs, Texts
<1>4. TreeAgrees'
  BY <1>0, <1>1 DEF TreeAgrees
<1>5. AppAgrees'
  BY <1>0, <1>1 DEF AppAgrees
<1>6. EditsInRange'
  BY <1>0, <1>1 DEF EditsInRange, KeyPlaced
<1>7. AtMostOneChecked'
  BY <1>0, <1>1 DEF AtMostOneChecked
<1> QED BY <1>2, <1>3, <1>4, <1>5, <1>6, <1>7 DEF InputInv

LEMMA ChangeListenersStep ==
  ASSUME PageAssumption, InputInv, ChangeListeners
  PROVE  InputInv'
<1>0. InputTypes /\ KeyPlaced /\ TreeAgrees /\ AppAgrees /\ EditsInRange /\ AtMostOneChecked
  BY DEF InputInv
<1>1. /\ handling.at = "changed"
      /\ handling' \in Runs /\ handling'.at \in {"reply"} /\ handling'.node = handling.node
      /\ dom' \in Docs /\ meddled' \in BOOLEAN /\ deeds' \in 0 .. MaxDeeds
      /\ ~ meddled' => ~ meddled /\ dom'.checked = dom.checked /\ dom'.attached \subseteq dom.attached
      /\ UNCHANGED <<focused, cursor, tree, keys, outlined, loading, refused, cut, inputs>>
  <2>1. handling.at = "changed" /\ Listen
    BY DEF ChangeListeners
  <2>2. /\ dom' \in Docs /\ meddled' \in BOOLEAN /\ deeds' \in 0 .. MaxDeeds
        /\ ~ meddled' => ~ meddled /\ dom'.checked = dom.checked /\ dom'.attached \subseteq dom.attached
    BY <1>0, <2>1, Listened
  <2>3. handling' \in Runs /\ handling'.at \in {"reply"} /\ handling'.node = handling.node
    <3>1. handling \in Runs /\ "reply" \in RunStages
      BY <1>0 DEF InputTypes, RunStages
    <3>2. handling' = [handling EXCEPT !.at = "reply"]
      BY DEF ChangeListeners
    <3>3. handling' \in Runs
      BY <3>1, <3>2, AtStage
    <3> QED BY <3>1, <3>2, <3>3 DEF Runs
  <2>4. UNCHANGED <<focused, cursor, tree, keys, outlined, loading, refused, cut, inputs>>
    BY DEF ChangeListeners, browser
  <2> QED BY <2>1, <2>2, <2>3, <2>4
<1>2. InputTypes'
  BY <1>0, <1>1 DEF InputTypes
<1>3. KeyPlaced'
  BY <1>0, <1>1 DEF KeyPlaced, InputTypes, Docs, Texts
<1>4. TreeAgrees'
  BY <1>0, <1>1 DEF TreeAgrees
<1>5. AppAgrees'
  BY <1>0, <1>1 DEF AppAgrees
<1>6. EditsInRange'
  BY <1>0, <1>1 DEF EditsInRange, KeyPlaced
<1>7. AtMostOneChecked'
  BY <1>0, <1>1 DEF AtMostOneChecked
<1> QED BY <1>2, <1>3, <1>4, <1>5, <1>6, <1>7 DEF InputInv

\* Toggling a radio leaves it the only one checked of those that are attached.
LEMMA ToggledIs ==
  ASSUME PageAssumption, InputTypes, NEW n \in Nodes
  PROVE  /\ Toggled(n) \in NodeSets
         /\ \A m \in Toggled(n) \cap dom.attached :
              Kind[m] = "radio" /\ m # n => m \in dom.checked /\ (Kind[n] = "radio" => Form[m] # Form[n])
<1>1. dom.checked \in SUBSET Nodes /\ dom.attached \in SUBSET Nodes
  BY DEF InputTypes, Docs, NodeSets
<1>2. CASE Kind[n] = "checkbox"
  <2>1. Toggled(n) = SymDiff(dom.checked, {n})
    BY <1>2 DEF Toggled
  <2>2. \A m \in SymDiff(dom.checked, {n}) : m \in dom.checked \/ m = n
    BY DEF SymDiff
  <2>3. Toggled(n) \in NodeSets
    BY <1>1, <2>1, <2>2 DEF NodeSets
  <2>4. Kind[n] # "radio"
    BY <1>2
  <2>5. \A m \in Toggled(n) : m \in dom.checked \/ m = n
    BY <2>1, <2>2
  <2> QED BY <2>3, <2>4, <2>5
<1>3. CASE Kind[n] = "radio"
  BY <1>1, <1>3 DEF Toggled, Group, NodeSets
<1>4. CASE Kind[n] # "checkbox" /\ Kind[n] # "radio"
  <2>1. Toggled(n) = dom.checked
    BY <1>4 DEF Toggled
  <2>2. Kind[n] # "radio"
    BY <1>4
  <2>3. Toggled(n) \in NodeSets /\ \A m \in Toggled(n) : m \in dom.checked
    BY <1>1, <2>1 DEF NodeSets
  <2> QED BY <2>2, <2>3
<1> QED BY <1>2, <1>3, <1>4

LEMMA DefaultStep ==
  ASSUME PageAssumption, InputInv, Default
  PROVE  InputInv'
<1>0. InputTypes /\ KeyPlaced /\ TreeAgrees /\ AppAgrees /\ EditsInRange /\ AtMostOneChecked
  BY DEF InputInv
<1> DEFINE n == handling.node
<1>1. /\ handling' \in Runs /\ handling'.at \in {"changed", "submit", "reply"}
      /\ dom' \in Docs /\ dom'.value = dom.value /\ dom'.attached = dom.attached /\ dom'.checked = Toggled(n)
      /\ n \in Nodes
      /\ \A m \in dom'.checked \cap dom'.attached :
           Kind[m] = "radio" /\ m # n => m \in dom.checked /\ (Kind[n] = "radio" => Form[m] # Form[n])
      /\ UNCHANGED <<focused, cursor, tree, keys, outlined, loading, refused, cut, meddled, inputs, deeds>>
  <2>1. n \in Nodes
    BY <1>0 DEF Default, KeyPlaced
  <2>2. dom' = [dom EXCEPT !.checked = Toggled(n)]
    BY DEF Default
  <2>3. Toggled(n) \in NodeSets
    BY <1>0, <2>1, ToggledIs
  <2>4. dom' \in Docs /\ dom'.value = dom.value /\ dom'.attached = dom.attached /\ dom'.checked = Toggled(n)
    BY <1>0, <2>2, <2>3 DEF InputTypes, Docs
  <2>5. PICK at \in {"changed", "submit", "reply"} : handling' = [handling EXCEPT !.at = at]
    BY DEF Default
  <2>6. handling \in Runs /\ at \in RunStages
    BY <1>0 DEF InputTypes, RunStages
  <2>7. handling' \in Runs
    BY <2>5, <2>6, AtStage
  <2>8. handling'.at = at
    BY <2>5, <2>6 DEF Runs
  <2>9. \A m \in Toggled(n) \cap dom.attached :
           Kind[m] = "radio" /\ m # n => m \in dom.checked /\ (Kind[n] = "radio" => Form[m] # Form[n])
    BY <1>0, <2>1, ToggledIs
  <2>10. UNCHANGED <<focused, cursor, tree, keys, outlined, loading, refused, cut, meddled, inputs, deeds>>
    BY DEF Default, browser, inputGhosts
  <2> QED BY <2>1, <2>4, <2>5, <2>7, <2>8, <2>9, <2>10
<1>2. InputTypes'
  BY <1>0, <1>1 DEF InputTypes
<1>3. KeyPlaced'
  BY <1>0, <1>1 DEF KeyPlaced, InputTypes, Docs, Texts
<1>4. TreeAgrees'
  BY <1>0, <1>1 DEF TreeAgrees
<1>5. AppAgrees'
  BY <1>0, <1>1 DEF AppAgrees
<1>6. EditsInRange'
  BY <1>0, <1>1 DEF EditsInRange, KeyPlaced
<1>7. AtMostOneChecked'
  BY <1>0, <1>1 DEF AtMostOneChecked
<1> QED BY <1>2, <1>3, <1>4, <1>5, <1>6, <1>7 DEF InputInv

-----------------------------------------------------------------------------
(* PageInput: what users do, and what the app does with an answer          *)

LEMMA Acted == ASSUME PageAssumption, InputTypes, UserActs PROVE handling.at = "idle" /\ inputs' \in 0 .. MaxInputs
BY DEF UserActs, InputTypes, PageAssumption

\* A click is a new message; nothing else changes yet.
LEMMA ClickedOn ==
  ASSUME PageAssumption, InputTypes, NEW n \in Places, NEW way \in Ways, ClickOn(n, way)
  PROVE  /\ handling' \in Runs /\ handling'.at \in {"click", "reply"}
         /\ handling'.at = "click" => handling'.node \in Nodes
         /\ UNCHANGED <<dom, focused, cursor, tree, keys, outlined, loading, refused, cut, meddled, deeds>>
<1> DEFINE found == n \in dom.attached
<1>1. handling' = [NoRun EXCEPT !.at = IF found THEN "click" ELSE "reply", !.way = way,
                               !.node = n, !.rendered = found]
  BY DEF ClickOn
<1>2. found => n \in Nodes
  BY DEF InputTypes, Docs, NodeSets
<1>3. (IF found THEN "click" ELSE "reply") \in RunStages /\ found \in BOOLEAN
  BY DEF RunStages
<1>4. handling' \in Runs
  BY <1>1, <1>3 DEF NoRun, Runs, Ways, Places, KeyActions
<1>5. handling'.at = (IF found THEN "click" ELSE "reply") /\ handling'.node = n
  BY <1>1 DEF NoRun
<1> QED BY <1>2, <1>4, <1>5 DEF ClickOn, fields, browser

LEMMA ActivateStep ==
  ASSUME PageAssumption, InputInv, Activate
  PROVE  InputInv'
<1>0. InputTypes /\ KeyPlaced /\ TreeAgrees /\ AppAgrees /\ EditsInRange /\ AtMostOneChecked
  BY DEF InputInv
<1>1. /\ inputs' \in 0 .. MaxInputs
      /\ handling' \in Runs /\ handling'.at \in {"click", "reply"}
      /\ handling'.at = "click" => handling'.node \in Nodes
      /\ UNCHANGED <<dom, focused, cursor, tree, keys, outlined, loading, refused, cut, meddled, deeds>>
  <2>1. focused \in Places /\ "keyboard" \in Ways
    BY <1>0 DEF InputTypes, Ways
  <2>2. ClickOn(focused, "keyboard") /\ UserActs
    BY DEF Activate
  <2> QED BY <1>0, <2>1, <2>2, ClickedOn, Acted
<1>2. InputTypes'
  BY <1>0, <1>1 DEF InputTypes
<1>3. KeyPlaced'
  BY <1>0, <1>1 DEF KeyPlaced, InputTypes, Docs, Texts
<1>4. TreeAgrees'
  BY <1>0, <1>1 DEF TreeAgrees
<1>5. AppAgrees'
  BY <1>0, <1>1 DEF AppAgrees
<1>6. EditsInRange'
  BY <1>0, <1>1 DEF EditsInRange, KeyPlaced
<1>7. AtMostOneChecked'
  BY <1>0, <1>1 DEF AtMostOneChecked
<1> QED BY <1>2, <1>3, <1>4, <1>5, <1>6, <1>7 DEF InputInv

LEMMA PointStep ==
  ASSUME PageAssumption, InputInv, Point
  PROVE  InputInv'
<1>0. InputTypes /\ KeyPlaced /\ TreeAgrees /\ AppAgrees /\ EditsInRange /\ AtMostOneChecked
  BY DEF InputInv
<1>1. /\ inputs' \in 0 .. MaxInputs
      /\ handling' \in Runs /\ handling'.at \in {"click", "reply"}
      /\ handling'.at = "click" => handling'.node \in Nodes
      /\ UNCHANGED <<dom, focused, cursor, tree, keys, outlined, loading, refused, cut, meddled, deeds>>
  <2>1. PICK n \in Places, way \in Ways : ClickOn(n, way)
    <3>1. tree.boxes \in SUBSET Places /\ NoNode \in Places /\ {"mouse", "assistive"} \subseteq Ways
      BY <1>0 DEF InputTypes, Trees, NodeSets, Places, Ways
    <3> QED BY <3>1 DEF Point
  <2>2. UserActs
    BY DEF Point
  <2> QED BY <1>0, <2>1, <2>2, ClickedOn, Acted
<1>2. InputTypes'
  BY <1>0, <1>1 DEF InputTypes
<1>3. KeyPlaced'
  BY <1>0, <1>1 DEF KeyPlaced, InputTypes, Docs, Texts
<1>4. TreeAgrees'
  BY <1>0, <1>1 DEF TreeAgrees
<1>5. AppAgrees'
  BY <1>0, <1>1 DEF AppAgrees
<1>6. EditsInRange'
  BY <1>0, <1>1 DEF EditsInRange, KeyPlaced
<1>7. AtMostOneChecked'
  BY <1>0, <1>1 DEF AtMostOneChecked
<1> QED BY <1>2, <1>3, <1>4, <1>5, <1>6, <1>7 DEF InputInv

LEMMA MoveFocusStep ==
  ASSUME PageAssumption, InputInv, NEW step \in {-1, 1}, MoveFocus(step)
  PROVE  InputInv'
<1>0. InputTypes /\ KeyPlaced /\ TreeAgrees /\ AppAgrees /\ EditsInRange /\ AtMostOneChecked
  BY DEF InputInv
<1>1. /\ handling' \in Runs /\ handling'.at = "idle" /\ inputs' \in 0 .. MaxInputs
      /\ focused' \in Places /\ cursor' \in 0 .. MaxLen
      /\ tree' \in Trees /\ tree'.focus \in tree'.boxes \cup {NoNode}
      /\ tree'.focus \in {focused', NoNode}
      /\ outlined' = tree'.focus /\ outlined' \in Places /\ keys' \in {NoNode, outlined'}
      /\ keys' \in Places
      /\ refused' = FALSE
      /\ UNCHANGED <<dom, loading, cut, meddled, deeds>>
  <2>1. NextStop(step) \in Places
    BY <1>0, StopIs
  <2>2. UserActs /\ FocusTo(NextStop(step)) /\ Sync(tree')
    BY DEF MoveFocus
  <2>3. /\ focused' = NextStop(step) /\ focused' \in Places /\ cursor' \in 0 .. MaxLen
        /\ tree' \in Trees /\ tree'.focus \in tree'.boxes \cup {NoNode} /\ tree'.focus \in {NextStop(step), NoNode}
    BY <1>0, <2>1, <2>2, FocusIs
  <2>4. /\ outlined' = tree'.focus /\ outlined' \in Places /\ keys' \in {NoNode, outlined'}
        /\ keys' \in Places
    BY <2>2, <2>3, SyncIs
  <2>5. handling.at = "idle" /\ handling \in Runs /\ inputs' \in 0 .. MaxInputs
    BY <1>0, <2>2, Acted, RunIs
  <2> QED BY <2>3, <2>4, <2>5 DEF MoveFocus
<1>2. InputTypes'
  BY <1>0, <1>1 DEF InputTypes
<1>3. KeyPlaced'
  BY <1>0, <1>1 DEF KeyPlaced, InputTypes, Docs, Texts
<1>4. TreeAgrees'
  BY <1>0, <1>1 DEF TreeAgrees
<1>5. AppAgrees'
  BY <1>0, <1>1 DEF AppAgrees
<1>6. EditsInRange'
  BY <1>0, <1>1 DEF EditsInRange, KeyPlaced
<1>7. AtMostOneChecked'
  BY <1>0, <1>1 DEF AtMostOneChecked
<1> QED BY <1>2, <1>3, <1>4, <1>5, <1>6, <1>7 DEF InputInv

LEMMA FocusNodeStep ==
  ASSUME PageAssumption, InputInv, NEW n \in Nodes, FocusNode(n)
  PROVE  InputInv'
<1>0. InputTypes /\ KeyPlaced /\ TreeAgrees /\ AppAgrees /\ EditsInRange /\ AtMostOneChecked
  BY DEF InputInv
<1>1. /\ handling' \in Runs /\ handling'.at = "idle" /\ inputs' \in 0 .. MaxInputs
      /\ focused' \in Places /\ cursor' \in 0 .. MaxLen
      /\ tree' \in Trees /\ tree'.focus \in tree'.boxes \cup {NoNode}
      /\ focused' # NoNode /\ tree'.focus # NoNode => tree'.focus = focused'
      /\ outlined' = tree'.focus /\ outlined' \in Places /\ keys' \in {NoNode, outlined'}
      /\ keys' \in Places
      /\ refused' = FALSE
      /\ UNCHANGED <<dom, loading, cut, meddled, deeds>>
  <2>1. UserActs /\ Sync(tree')
    BY DEF FocusNode
  <2>2. /\ focused' \in Places /\ cursor' \in 0 .. MaxLen
        /\ tree' \in Trees /\ tree'.focus \in tree'.boxes \cup {NoNode}
        /\ focused' # NoNode /\ tree'.focus # NoNode => tree'.focus = focused'
    <3>1. CASE n \in dom.attached
      <4>1. FocusTo(n) /\ n \in Places
        BY <3>1 DEF FocusNode, Places
      <4> QED BY <1>0, <4>1, FocusIs
    <3>2. CASE n \notin dom.attached
      <4>1. UNCHANGED <<focused, cursor, tree>>
        BY <3>2 DEF FocusNode
      <4> QED BY <1>0, <4>1 DEF InputTypes, TreeAgrees
    <3> QED BY <3>1, <3>2
  <2>4. /\ outlined' = tree'.focus /\ outlined' \in Places /\ keys' \in {NoNode, outlined'}
        /\ keys' \in Places
    BY <2>1, <2>2, SyncIs
  <2>5. handling.at = "idle" /\ handling \in Runs /\ inputs' \in 0 .. MaxInputs
    BY <1>0, <2>1, Acted, RunIs
  <2> QED BY <2>2, <2>4, <2>5 DEF FocusNode
<1>2. InputTypes'
  BY <1>0, <1>1 DEF InputTypes
<1>3. KeyPlaced'
  BY <1>0, <1>1 DEF KeyPlaced, InputTypes, Docs, Texts
<1>4. TreeAgrees'
  BY <1>0, <1>1 DEF TreeAgrees
<1>5. AppAgrees'
  BY <1>0, <1>1 DEF AppAgrees
<1>6. EditsInRange'
  BY <1>0, <1>1 DEF EditsInRange, KeyPlaced
<1>7. AtMostOneChecked'
  BY <1>0, <1>1 DEF AtMostOneChecked
<1> QED BY <1>2, <1>3, <1>4, <1>5, <1>6, <1>7 DEF InputInv

LEMMA LeaveFieldStep ==
  ASSUME PageAssumption, InputInv, LeaveField
  PROVE  InputInv'
<1>0. InputTypes /\ KeyPlaced /\ TreeAgrees /\ AppAgrees /\ EditsInRange /\ AtMostOneChecked
  BY DEF InputInv
<1>1. /\ handling' \in Runs /\ handling'.at = "idle" /\ inputs' \in 0 .. MaxInputs
      /\ focused' = NoNode /\ keys' = NoNode /\ outlined' = NoNode /\ NoNode \in Places
      /\ tree' \in Trees /\ tree'.focus \in tree'.boxes \cup {NoNode}
      /\ refused' = FALSE
      /\ UNCHANGED <<dom, cursor, loading, cut, meddled, deeds>>
  <2>1. UserActs /\ tree' = Shown(NoNode) /\ NoNode \in Places
    BY DEF LeaveField, Places
  <2>2. tree' \in Trees /\ tree'.focus \in tree'.boxes \cup {NoNode}
    BY <1>0, <2>1, ShownIs
  <2>5. handling.at = "idle" /\ handling \in Runs /\ inputs' \in 0 .. MaxInputs
    BY <1>0, <2>1, Acted, RunIs
  <2> QED BY <2>1, <2>2, <2>5 DEF LeaveField
<1>2. InputTypes'
  BY <1>0, <1>1 DEF InputTypes
<1>3. KeyPlaced'
  BY <1>0, <1>1 DEF KeyPlaced, InputTypes, Docs, Texts
<1>4. TreeAgrees'
  BY <1>0, <1>1 DEF TreeAgrees
<1>5. AppAgrees'
  BY <1>0, <1>1 DEF AppAgrees
<1>6. EditsInRange'
  BY <1>0, <1>1 DEF EditsInRange, KeyPlaced
<1>7. AtMostOneChecked'
  BY <1>0, <1>1 DEF AtMostOneChecked
<1> QED BY <1>2, <1>3, <1>4, <1>5, <1>6, <1>7 DEF InputInv

LEMMA TimerFiresStep ==
  ASSUME PageAssumption, InputInv, TimerFires
  PROVE  InputInv'
<1>0. InputTypes /\ KeyPlaced /\ TreeAgrees /\ AppAgrees /\ EditsInRange /\ AtMostOneChecked
  BY DEF InputInv
<1>1. /\ handling' \in Runs /\ handling'.at = "idle"
      /\ tree' \in Trees /\ tree'.focus \in tree'.boxes \cup {NoNode}
      /\ tree'.focus \in {focused, NoNode}
      /\ dom' \in Docs /\ meddled' \in BOOLEAN /\ deeds' \in 0 .. MaxDeeds
      /\ ~ meddled' => ~ meddled /\ dom'.checked = dom.checked /\ dom'.attached \subseteq dom.attached
      /\ UNCHANGED <<focused, cursor, keys, outlined, loading, refused, cut, inputs>>
  <2>1. Listen /\ handling.at = "idle" /\ handling \in Runs /\ focused \in Places
    BY <1>0, RunIs DEF TimerFires, InputTypes
  <2>2. /\ tree' \in Trees /\ tree'.focus \in tree'.boxes \cup {NoNode}
        /\ tree'.focus \in {focused, NoNode}
    BY <1>0, <2>1, ShownIs DEF TimerFires
  <2>3. /\ dom' \in Docs /\ meddled' \in BOOLEAN /\ deeds' \in 0 .. MaxDeeds
        /\ ~ meddled' => ~ meddled /\ dom'.checked = dom.checked /\ dom'.attached \subseteq dom.attached
    BY <1>0, <2>1, Listened
  <2> QED BY <2>1, <2>2, <2>3 DEF TimerFires
<1>2. InputTypes'
  BY <1>0, <1>1 DEF InputTypes
<1>3. KeyPlaced'
  BY <1>0, <1>1 DEF KeyPlaced, InputTypes, Docs, Texts
<1>4. TreeAgrees'
  BY <1>0, <1>1 DEF TreeAgrees
<1>5. AppAgrees'
  BY <1>0, <1>1 DEF AppAgrees
<1>6. EditsInRange'
  BY <1>0, <1>1 DEF EditsInRange, KeyPlaced
<1>7. AtMostOneChecked'
  BY <1>0, <1>1 DEF AtMostOneChecked
<1> QED BY <1>2, <1>3, <1>4, <1>5, <1>6, <1>7 DEF InputInv

LEMMA PageArrivesStep ==
  ASSUME PageAssumption, InputInv, PageArrives
  PROVE  InputInv'
<1>0. InputTypes /\ KeyPlaced /\ TreeAgrees /\ AppAgrees /\ EditsInRange /\ AtMostOneChecked
  BY DEF InputInv
<1>1. /\ handling' \in Runs /\ handling'.at = "idle"
      /\ dom' \in Docs /\ dom'.checked = {}
      /\ focused' = NoNode /\ keys' = NoNode /\ outlined' = NoNode /\ NoNode \in Places
      /\ cursor' = 0 /\ 0 \in 0 .. MaxLen
      /\ tree' \in Trees /\ tree'.focus = NoNode
      /\ loading' = FALSE /\ refused' = FALSE /\ cut' = FALSE /\ meddled' = FALSE
      /\ UNCHANGED <<inputs, deeds>>
  <2>1. NoNode \in Places /\ 0 \in 0 .. MaxLen /\ handling \in Runs
    BY <1>0, RunIs DEF Places, PageAssumption
  <2>2. dom' \in Docs /\ dom'.checked = {}
    BY FirstPage DEF PageArrives
  <2>3. tree' \in Trees /\ tree'.focus = NoNode
    BY FirstPage DEF PageArrives
  <2> QED BY <2>1, <2>2, <2>3 DEF PageArrives
<1>2. InputTypes'
  BY <1>0, <1>1 DEF InputTypes
<1>3. KeyPlaced'
  BY <1>0, <1>1 DEF KeyPlaced, InputTypes, Docs, Texts
<1>4. TreeAgrees'
  BY <1>0, <1>1 DEF TreeAgrees
<1>5. AppAgrees'
  BY <1>0, <1>1 DEF AppAgrees
<1>6. EditsInRange'
  BY <1>0, <1>1 DEF EditsInRange, KeyPlaced
<1>7. AtMostOneChecked'
  BY <1>0, <1>1 DEF AtMostOneChecked
<1> QED BY <1>2, <1>3, <1>4, <1>5, <1>6, <1>7 DEF InputInv

\* What the app shows after an answer has the session's focus, or none.
LEMMA TreeAfterIs ==
  ASSUME InputTypes, TreeAgrees
  PROVE  /\ TreeAfter(focused) \in Trees
         /\ TreeAfter(focused).focus \in TreeAfter(focused).boxes \cup {NoNode}
         /\ focused # NoNode /\ TreeAfter(focused).focus # NoNode => TreeAfter(focused).focus = focused
<1>1. focused \in Places /\ tree \in Trees
  BY DEF InputTypes
<1>2. CASE handling.rendered
  <2>1. TreeAfter(focused) = Shown(focused)
    BY <1>2 DEF TreeAfter
  <2> QED BY <1>1, <2>1, ShownIs
<1>3. CASE ~ handling.rendered
  BY <1>1, <1>3 DEF TreeAfter, TreeAgrees
<1> QED BY <1>2, <1>3

LEMMA Answered ==
  ASSUME PageAssumption, InputTypes, NEW way \in Ways, AnswerTo(way)
  PROVE  /\ handling' \in Runs /\ handling'.at = "idle"
         /\ UNCHANGED <<dom, cut, meddled, inputs, deeds>>
BY DEF AnswerTo, NoRun, Runs, RunStages, Ways, Places, KeyActions

LEMMA TypedStep ==
  ASSUME PageAssumption, InputInv, Typed
  PROVE  InputInv'
<1>0. InputTypes /\ KeyPlaced /\ TreeAgrees /\ AppAgrees /\ EditsInRange /\ AtMostOneChecked
  BY DEF InputInv
<1>1. /\ handling' \in Runs /\ handling'.at = "idle"
      /\ tree' \in Trees /\ tree'.focus \in tree'.boxes \cup {NoNode}
      /\ focused' # NoNode /\ tree'.focus # NoNode => tree'.focus = focused'
      /\ keys' \in {NoNode, keys} /\ NoNode \in Places /\ loading' \in BOOLEAN
      /\ UNCHANGED <<dom, focused, cursor, outlined, refused, cut, meddled, inputs, deeds>>
  <2>1. "typing" \in Ways /\ NoNode \in Places
    BY DEF Ways, Places
  <2>2. handling' \in Runs /\ handling'.at = "idle" /\ UNCHANGED <<dom, cut, meddled, inputs, deeds>>
    BY <1>0, <2>1, Answered DEF Typed
  <2>3. tree' = TreeAfter(focused) /\ UNCHANGED <<focused, cursor, outlined, refused>>
    BY DEF Typed
  <2>4. /\ tree' \in Trees /\ tree'.focus \in tree'.boxes \cup {NoNode}
        /\ focused' # NoNode /\ tree'.focus # NoNode => tree'.focus = focused'
    BY <1>0, <2>3, TreeAfterIs
  <2>5. keys' \in {NoNode, keys} /\ loading' \in BOOLEAN
    BY <1>0, RunIs DEF Typed, InputTypes
  <2> QED BY <2>1, <2>2, <2>3, <2>4, <2>5
<1>2. InputTypes'
  BY <1>0, <1>1 DEF InputTypes
<1>3. KeyPlaced'
  BY <1>0, <1>1 DEF KeyPlaced, InputTypes, Docs, Texts
<1>4. TreeAgrees'
  BY <1>0, <1>1 DEF TreeAgrees
<1>5. AppAgrees'
  BY <1>0, <1>1 DEF AppAgrees
<1>6. EditsInRange'
  BY <1>0, <1>1 DEF EditsInRange, KeyPlaced
<1>7. AtMostOneChecked'
  BY <1>0, <1>1 DEF AtMostOneChecked
<1> QED BY <1>2, <1>3, <1>4, <1>5, <1>6, <1>7 DEF InputInv

LEMMA ClickedStep ==
  ASSUME PageAssumption, InputInv, Clicked
  PROVE  InputInv'
<1>0. InputTypes /\ KeyPlaced /\ TreeAgrees /\ AppAgrees /\ EditsInRange /\ AtMostOneChecked
  BY DEF InputInv
<1>1. /\ handling' \in Runs /\ handling'.at = "idle"
      /\ tree' \in Trees /\ tree'.focus \in tree'.boxes \cup {NoNode}
      /\ focused' # NoNode /\ tree'.focus # NoNode => tree'.focus = focused'
      /\ keys' \in Places /\ outlined' \in Places /\ focused' \in Places /\ cursor' \in 0 .. MaxLen
      /\ refused' \in BOOLEAN /\ loading' \in BOOLEAN
      /\ \/ refused'
         \/ keys' = outlined' /\ focused' = outlined'
         \/ UNCHANGED <<focused, keys, outlined, refused>>
      /\ UNCHANGED <<dom, cut, meddled, inputs, deeds>>
  <2> DEFINE n == handling.node
  <2>1. "mouse" \in Ways /\ NoNode \in Places
    BY DEF Ways, Places
  <2>2. handling' \in Runs /\ handling'.at = "idle" /\ UNCHANGED <<dom, cut, meddled, inputs, deeds>>
    BY <1>0, <2>1, Answered DEF Clicked
  <2>3. n \in Places /\ loading' \in BOOLEAN
    BY <1>0, RunIs DEF Clicked, InputTypes, Followed
  <2>4. CASE n # NoNode /\ Kind[n] = "text" /\ n \in dom.attached
    <3>1. /\ keys' = n /\ outlined' = n /\ focused' = n /\ cursor' \in 0 .. dom.value[n]
          /\ tree' = Shown(n) /\ refused' = FALSE
      BY <2>4 DEF Clicked
    <3>2. dom.value[n] \in 0 .. MaxLen /\ MaxLen \in Nat
      BY <1>0, <2>3, <2>4 DEF InputTypes, Docs, Texts, Places, PageAssumption
    <3>3. cursor' \in 0 .. MaxLen
      BY <3>1, <3>2
    <3>4. tree' \in Trees /\ tree'.focus \in tree'.boxes \cup {NoNode} /\ tree'.focus \in {n, NoNode}
      BY <1>0, <2>3, <3>1, ShownIs
    <3> QED BY <2>2, <2>3, <3>1, <3>3, <3>4
  <2>5. CASE n # NoNode /\ Kind[n] = "text" /\ n \notin dom.attached
    <3>1. keys' = n /\ outlined' = n /\ tree' = TreeAfter(focused) /\ refused' = TRUE /\ UNCHANGED <<focused, cursor>>
      BY <2>5 DEF Clicked
    <3> QED BY <1>0, <2>2, <2>3, <3>1, TreeAfterIs DEF InputTypes
  <2>6. CASE (n = NoNode \/ Kind[n] # "text") /\ keys # NoNode
    <3>1. /\ focused' = NoNode /\ tree' = Shown(NoNode) /\ keys' = NoNode /\ outlined' = NoNode /\ refused' = FALSE
          /\ UNCHANGED cursor
      BY <2>6 DEF Clicked
    <3>2. tree' \in Trees /\ tree'.focus \in tree'.boxes \cup {NoNode}
      BY <1>0, <2>1, <3>1, ShownIs
    <3> QED BY <1>0, <2>1, <2>2, <2>3, <3>1, <3>2 DEF InputTypes
  <2>7. CASE (n = NoNode \/ Kind[n] # "text") /\ keys = NoNode
    <3>1. tree' = TreeAfter(focused) /\ UNCHANGED <<focused, cursor, keys, outlined, refused>>
      BY <2>7 DEF Clicked
    <3> QED BY <1>0, <2>2, <2>3, <3>1, TreeAfterIs DEF InputTypes
  <2> QED BY <2>4, <2>5, <2>6, <2>7
<1>2. InputTypes'
  BY <1>0, <1>1 DEF InputTypes
<1>3. KeyPlaced'
  BY <1>0, <1>1 DEF KeyPlaced, InputTypes, Docs, Texts
<1>4. TreeAgrees'
  BY <1>0, <1>1 DEF TreeAgrees
<1>5. AppAgrees'
  BY <1>0, <1>1 DEF AppAgrees
<1>6. EditsInRange'
  BY <1>0, <1>1 DEF EditsInRange, KeyPlaced
<1>7. AtMostOneChecked'
  BY <1>0, <1>1 DEF AtMostOneChecked
<1> QED BY <1>2, <1>3, <1>4, <1>5, <1>6, <1>7 DEF InputInv

LEMMA ActivatedStep ==
  ASSUME PageAssumption, InputInv, Activated
  PROVE  InputInv'
<1>0. InputTypes /\ KeyPlaced /\ TreeAgrees /\ AppAgrees /\ EditsInRange /\ AtMostOneChecked
  BY DEF InputInv
<1>1. /\ handling' \in Runs /\ handling'.at = "idle"
      /\ tree' \in Trees /\ tree'.focus \in tree'.boxes \cup {NoNode}
      /\ focused' # NoNode /\ tree'.focus # NoNode => tree'.focus = focused'
      /\ outlined' = tree'.focus /\ outlined' \in Places /\ keys' \in {NoNode, outlined'}
      /\ keys' \in Places
      /\ refused' = FALSE /\ loading' \in BOOLEAN
      /\ UNCHANGED <<dom, focused, cursor, cut, meddled, inputs, deeds>>
  <2>1. "keyboard" \in Ways
    BY DEF Ways
  <2>2. handling' \in Runs /\ handling'.at = "idle" /\ UNCHANGED <<dom, cut, meddled, inputs, deeds>>
    BY <1>0, <2>1, Answered DEF Activated
  <2>3. tree' = TreeAfter(focused) /\ UNCHANGED <<focused, cursor>> /\ Sync(tree') /\ refused' = FALSE
    BY DEF Activated
  <2>4. /\ tree' \in Trees /\ tree'.focus \in tree'.boxes \cup {NoNode}
        /\ focused' # NoNode /\ tree'.focus # NoNode => tree'.focus = focused'
    BY <1>0, <2>3, TreeAfterIs
  <2>5. /\ outlined' = tree'.focus /\ outlined' \in Places /\ keys' \in {NoNode, outlined'}
        /\ keys' \in Places
    BY <2>3, <2>4, SyncIs
  <2>6. loading' \in BOOLEAN
    BY <1>0 DEF Activated, InputTypes, Followed
  <2> QED BY <2>2, <2>3, <2>4, <2>5, <2>6
<1>2. InputTypes'
  BY <1>0, <1>1 DEF InputTypes
<1>3. KeyPlaced'
  BY <1>0, <1>1 DEF KeyPlaced, InputTypes, Docs, Texts
<1>4. TreeAgrees'
  BY <1>0, <1>1 DEF TreeAgrees
<1>5. AppAgrees'
  BY <1>0, <1>1 DEF AppAgrees
<1>6. EditsInRange'
  BY <1>0, <1>1 DEF EditsInRange, KeyPlaced
<1>7. AtMostOneChecked'
  BY <1>0, <1>1 DEF AtMostOneChecked
<1> QED BY <1>2, <1>3, <1>4, <1>5, <1>6, <1>7 DEF InputInv

LEMMA AssistedStep ==
  ASSUME PageAssumption, InputInv, Assisted
  PROVE  InputInv'
<1>0. InputTypes /\ KeyPlaced /\ TreeAgrees /\ AppAgrees /\ EditsInRange /\ AtMostOneChecked
  BY DEF InputInv
<1>1. /\ handling' \in Runs /\ handling'.at = "idle"
      /\ tree' \in Trees /\ tree'.focus \in tree'.boxes \cup {NoNode}
      /\ focused' # NoNode /\ tree'.focus # NoNode => tree'.focus = focused'
      /\ loading' \in BOOLEAN
      /\ UNCHANGED <<dom, focused, cursor, keys, outlined, refused, cut, meddled, inputs, deeds>>
  <2>1. "assistive" \in Ways
    BY DEF Ways
  <2>2. handling' \in Runs /\ handling'.at = "idle" /\ UNCHANGED <<dom, cut, meddled, inputs, deeds>>
    BY <1>0, <2>1, Answered DEF Assisted
  <2>3. tree' = TreeAfter(focused) /\ UNCHANGED <<focused, cursor, keys, outlined, refused>>
    BY DEF Assisted
  <2>4. /\ tree' \in Trees /\ tree'.focus \in tree'.boxes \cup {NoNode}
        /\ focused' # NoNode /\ tree'.focus # NoNode => tree'.focus = focused'
    BY <1>0, <2>3, TreeAfterIs
  <2>6. loading' \in BOOLEAN
    BY <1>0 DEF Assisted, InputTypes, Followed
  <2> QED BY <2>2, <2>3, <2>4, <2>6
<1>2. InputTypes'
  BY <1>0, <1>1 DEF InputTypes
<1>3. KeyPlaced'
  BY <1>0, <1>1 DEF KeyPlaced, InputTypes, Docs, Texts
<1>4. TreeAgrees'
  BY <1>0, <1>1 DEF TreeAgrees
<1>5. AppAgrees'
  BY <1>0, <1>1 DEF AppAgrees
<1>6. EditsInRange'
  BY <1>0, <1>1 DEF EditsInRange, KeyPlaced
<1>7. AtMostOneChecked'
  BY <1>0, <1>1 DEF AtMostOneChecked
<1> QED BY <1>2, <1>3, <1>4, <1>5, <1>6, <1>7 DEF InputInv

LEMMA InputSame == ASSUME InputInv, UNCHANGED inputVars PROVE InputInv'
BY DEF inputVars, fields, browser, inputGhosts, InputInv, InputTypes, KeyPlaced, TreeAgrees, AppAgrees,
       EditsInRange, AtMostOneChecked

\* The page, the session and the app are always of their types, and the hidden
\* agreements between them hold at every stage of every message (PageInput).
THEOREM InputInvariant == InputSpec => []InputInv
<1>1. InputInit => InputInv
  BY InputStart, PageAssumption
<1>2. InputInv /\ [InputNext]_inputVars => InputInv'
  <2> SUFFICES ASSUME InputInv, [InputNext]_inputVars PROVE InputInv'
    OBVIOUS
  <2> USE PageAssumption
  <2>1. CASE Users
    BY <2>1, PressStep, ActivateStep, PointStep, LeaveFieldStep, MoveFocusStep, FocusNodeStep DEF Users
  <2>2. CASE Renderer
    BY <2>2, KeydownStep, EditStep, EditPanicsStep, ClickListenersStep, DefaultStep, SubmitStep,
       ChangeListenersStep DEF Renderer
  <2>3. CASE Answers
    BY <2>3, TypedStep, ClickedStep, ActivatedStep, AssistedStep DEF Answers
  <2>4. CASE TimerFires
    BY <2>4, TimerFiresStep
  <2>5. CASE PageArrives
    BY <2>5, PageArrivesStep
  <2>6. CASE UNCHANGED inputVars
    BY <2>6, InputSame
  <2> QED BY <2>1, <2>2, <2>3, <2>4, <2>5, <2>6 DEF InputNext
<1> QED BY <1>1, <1>2, PTL DEF InputSpec

\* Every variable of PageInput has its type (the state of Session and Tab).
THEOREM InputTypeCorrect == InputSpec => []InputTypeOK
<1>1. InputInv => InputTypeOK
  BY DEF InputInv, InputTypes, TreeAgrees, InputTypeOK, Docs, Texts, NodeSets, Trees, Runs, Places
<1> QED BY <1>1, InputInvariant, PTL

\* Keys never go to another element than the one the session has focused, unless a
\* Focus was refused (handle_click, sync_page_keyboard_focus).
THEOREM FocusesAgree == InputSpec => []FocusAgrees
<1>1. InputInv => FocusAgrees
  BY DEF InputInv, AppAgrees, FocusAgrees
<1> QED BY <1>1, InputInvariant, PTL

\* Listeners that run inside a key or a click leave the cursor in the text, and one
\* radio of a group (handle_text_input, apply_checkable_default_action).
THEOREM FieldsStaySound == InputSpec => []FieldsAreSound
<1>1. InputInv => FieldsAreSound
  BY DEF InputInv, FieldsAreSound
<1> QED BY <1>1, InputInvariant, PTL

-----------------------------------------------------------------------------
(* Window: the inductive invariant                                         *)

Levels  == {"strict", "standard"}
Dues    == [Sources -> Nat]
Replies == [due : Dues, frame : BOOLEAN, level : Levels]

WinTypes ==
  /\ now \in 0 .. MaxNow
  /\ inner \in Nat /\ lastSize \in Nat \ {0} /\ pendingResize \in Nat /\ resizeAt \in Nat
  /\ surface \in Nat \ {0} /\ texture \in Nat /\ canvas \in Nat \ {0} /\ laid \in Nat
  /\ shown \in BOOLEAN /\ wakeAt \in Nat /\ armed \in Nat
  /\ level \in Levels /\ due \in Dues

\* The wake-up is the browser's own, and the loop is armed for the first of both.
WakesAgree == wakeAt = Earliest(due) /\ armed = Reschedule(resizeAt, wakeAt)

\* A size the window has kept is the one the page is laid out for, or will be.
ResizesAgree ==
  /\ inner > 0 => lastSize = inner /\ surface = inner
  /\ \/ resizeAt = Never /\ laid = lastSize
     \/ resizeAt <= MaxNow + Debounce /\ pendingResize = lastSize

PictureIsCanvas == texture = canvas

WinInv == WinTypes /\ WakesAgree /\ ResizesAgree /\ PictureIsCanvas

-----------------------------------------------------------------------------
(* Window: sets of times, and where in a picture a place is                *)

\* Finite sets are well-founded by inclusion, so a finite set of naturals is bounded.
LEMMA Bounded ==
  ASSUME NEW N \in SUBSET Nat, IsFiniteSet(N)
  PROVE  \E k \in Nat : \A n \in N : n <= k
<1> DEFINE Bound(S) == \E k \in Nat : \A n \in S : n <= k
           T == {S \in FiniteSubsetsOf(Nat) : ~ Bound(S)}
           R == StrictSubsetOrdering(Nat)
<1>1. CASE T = {}
  BY <1>1 DEF FiniteSubsetsOf
<1>2. CASE T # {}
  <2>1. PICK S \in T : \A U \in T : ~ (<<U, S>> \in R)
    <3>1. T \subseteq FiniteSubsetsOf(Nat) /\ IsWellFoundedOn(R, FiniteSubsetsOf(Nat))
      BY FS_StrictSubsetOrderingWellFounded
    <3> HIDE DEF T, R
    <3> QED BY <1>2, <3>1, WFMin
  <2>2. S \in SUBSET Nat /\ IsFiniteSet(S) /\ ~ Bound(S)
    BY DEF FiniteSubsetsOf
  <2>3. PICK x \in S : TRUE
    BY <2>2
  <2>4. IsFiniteSet(S \ {x}) /\ S \ {x} \in SUBSET Nat
    BY <2>2, FS_RemoveElement
  <2>5. <<S \ {x}, S>> \in R
    BY <2>2, <2>3 DEF StrictSubsetOrdering
  <2>6. Bound(S \ {x})
    <3>1. S \ {x} \notin T
      BY <2>1, <2>5
    <3> QED BY <2>4, <3>1 DEF FiniteSubsetsOf
  <2>7. PICK k \in Nat : \A n \in S \ {x} : n <= k
    BY <2>6
  <2>8. x \in Nat
    BY <2>2
  <2>9. \A n \in S : n <= k + x
    BY <2>2, <2>7, <2>8
  <2> QED BY <2>2, <2>8, <2>9
<1> QED BY <1>1, <1>2

LEMMA NeverIs == WindowAssumption => Never \in Nat /\ MaxNow + Debounce < Never
<1> SUFFICES ASSUME WindowAssumption PROVE Never \in Nat /\ MaxNow + Debounce < Never
  OBVIOUS
<1>1. Delays \cup {0} \in SUBSET Nat /\ IsFiniteSet(Delays \cup {0}) /\ Delays \cup {0} # {}
  BY FS_AddElement DEF WindowAssumption
<1>2. PICK k \in Nat : \A n \in Delays \cup {0} : n <= k
  BY <1>1, Bounded
<1>3. Max(Delays \cup {0}) \in Delays \cup {0}
  BY <1>1, <1>2, MaxIs
<1>4. Max(Delays \cup {0}) \in Nat
  BY <1>1, <1>3
<1> QED BY <1>4 DEF Never, WindowAssumption

LEMMA EarliestIs ==
  ASSUME WindowAssumption, NEW d \in Dues
  PROVE  /\ Earliest(d) \in Nat /\ Earliest(d) <= Never
         /\ \A s \in Sources : Earliest(d) <= d[s]
         /\ Earliest(d) = Never \/ \E s \in Sources : Earliest(d) = d[s]
<1> DEFINE N == {d[s] : s \in Sources} \cup {Never}
<1>1. N \in SUBSET Nat /\ N # {} /\ Never \in N /\ \A s \in Sources : d[s] \in N
  BY NeverIs DEF Dues
<1>2. Min(N) \in N /\ \A m \in N : Min(N) <= m
  <2> HIDE DEF N
  <2> QED BY <1>1, MinIs
<1>3. Earliest(d) = Min(N)
  BY DEF Earliest
<1>4. Earliest(d) \in N /\ (\A m \in N : Earliest(d) <= m) /\ Earliest(d) \in Nat
  BY <1>1, <1>2, <1>3
<1> QED BY <1>1, <1>4

LEMMA RescheduleIs ==
  ASSUME NEW x \in Nat, NEW y \in Nat
  PROVE  Reschedule(x, y) \in {x, y} /\ Reschedule(x, y) <= x /\ Reschedule(x, y) <= y
BY TwoMin DEF Reschedule

LEMMA DivBelow ==
  ASSUME NEW p \in Nat, NEW t \in Nat, NEW s \in Nat \ {0}, p < s, t > 0
  PROVE  (p * t) \div s \in 0 .. t - 1
<1> DEFINE q == (p * t) \div s
<1>1. p * t \in Nat /\ p * t < s * t
  OBVIOUS
<1>2. q \in Int /\ s * q <= p * t /\ p * t < s * q + s
  BY <1>1
<1>3. q >= 0
  OBVIOUS
<1>4. ASSUME q >= t PROVE FALSE
  <2> HIDE DEF q
  <2>1. \A x, y \in Nat : x * y \in Nat
    OBVIOUS
  <2>2. s * (q - t) \in Nat
    BY <1>2, <1>4, <2>1
  <2>3. s * (q - t) = s * q - s * t
    BY <1>2
  <2>4. s * q \in Int /\ s * t \in Int
    BY <1>2
  <2> QED BY <1>1, <1>2, <2>2, <2>3, <2>4
<1> QED BY <1>2, <1>3, <1>4

LEMMA ResolveIs ==
  ASSUME WindowAssumption, NEW l, NEW size \in Nat \ {0}
  PROVE  Resolve(l, size) \in Nat \ {0}
<1>1. Bucket \in Nat \ {0}
  BY DEF WindowAssumption
<1>2. size \div Bucket \in Nat
  BY <1>1
<1>3. Max({1, size \div Bucket}) \in Nat \ {0}
  BY <1>2, TwoMax
<1>4. \A x, y \in Nat \ {0} : x * y \in Nat \ {0}
  OBVIOUS
<1>5. Letterbox(size) \in Nat \ {0}
  BY <1>1, <1>3, <1>4 DEF Letterbox
<1> QED BY <1>5 DEF Resolve

-----------------------------------------------------------------------------
(* Window: what the browser answers                                        *)

\* An answer without a frame leaves what the browser waits for as it is.
IsReply(a) == a \in Replies /\ (~ a.frame => a.due = due)

LEMMA AnswerIs ==
  ASSUME WinTypes, NEW d \in Dues, NEW b \in BOOLEAN, b \/ d = due
  PROVE  IsReply(Answer(d, b)) /\ Answer(d, b).frame = b
BY DEF Answer, IsReply, Replies, WinTypes

LEMMA LaterIs == ASSUME WindowAssumption, NEW t \in Nat PROVE Later(t) \in SUBSET Nat
BY NeverIs DEF Later, WindowAssumption

LEMMA BusyIs ==
  ASSUME WindowAssumption, WinTypes, NEW t \in Nat, NEW a \in Busy(t)
  PROVE  IsReply(a) /\ a.frame
<1> DEFINE D == {due} \cup UNION {{[due EXCEPT ![s] = at] : at \in Later(t)} : s \in Sources}
<1>1. due \in Dues /\ Later(t) \in SUBSET Nat
  BY LaterIs DEF WinTypes
<1>2. D \in SUBSET Dues
  <2> SUFFICES ASSUME NEW s \in Sources, NEW at \in Later(t) PROVE [due EXCEPT ![s] = at] \in Dues
    BY <1>1
  <2> QED BY <1>1 DEF Dues
<1>3. PICK d \in D : a = Answer(d, TRUE)
  BY DEF Busy
<1> HIDE DEF D
<1> QED BY <1>2, <1>3, AnswerIs

\* A tick without a frame had nothing to run.
LEMMA TickedIs ==
  ASSUME WindowAssumption, WinTypes, NEW t \in Nat, NEW arrived \in BOOLEAN, NEW a \in Ticked(t, arrived)
  PROVE  IsReply(a) /\ (a.frame \/ Ripe(t) = {})
<1> DEFINE ripe == Ripe(t)
           next == {d \in [Sources -> Later(t) \cup {due[s] : s \in Sources}] :
                      \A s \in Sources : IF s \in ripe THEN d[s] \in Later(t) ELSE d[s] = due[s]}
<1>1. due \in Dues /\ Later(t) \in SUBSET Nat
  BY LaterIs DEF WinTypes
<1>2. \A d \in next : d \in Dues /\ (ripe = {} => d = due)
  <2> SUFFICES ASSUME NEW d \in next PROVE d \in Dues /\ (ripe = {} => d = due)
    OBVIOUS
  <2>1. d \in [Sources -> Later(t) \cup {due[s] : s \in Sources}]
    OBVIOUS
  <2>2. d \in Dues
    BY <1>1, <2>1 DEF Dues
  <2>3. ripe = {} => \A s \in Sources : d[s] = due[s]
    OBVIOUS
  <2> QED BY <1>1, <2>2, <2>3 DEF Dues
<1>3. CASE arrived
  <2>1. (\E d \in next : a = Answer(d, TRUE)) \/ a \in Busy(t)
    BY <1>3 DEF Ticked
  <2> HIDE DEF next
  <2> QED BY <1>2, <2>1, BusyIs, AnswerIs
<1>4. CASE ~ arrived
  <2>1. PICK d \in next : a = Answer(d, ripe # {})
    BY <1>4 DEF Ticked
  <2>2. d \in Dues /\ (ripe # {}) \in BOOLEAN /\ ((ripe # {}) \/ d = due)
    BY <1>2, <2>1
  <2> HIDE DEF next, ripe
  <2>3. IsReply(a) /\ a.frame = (ripe # {})
    BY <2>1, <2>2, AnswerIs
  <2>4. a.frame \/ ripe = {}
    BY <2>3
  <2> QED BY <2>3, <2>4 DEF ripe
<1> QED BY <1>3, <1>4

LEMMA SilenceIs == ASSUME WinTypes PROVE IsReply(Silence) /\ ~ Silence.frame /\ Silence.due = due
BY AnswerIs DEF Silence, Answer, WinTypes

LEMMA HandleIs ==
  ASSUME WindowAssumption, WinTypes, NEW event, NEW a \in Handle(event)
  PROVE  IsReply(a)
<1>1. now \in Nat
  BY DEF WinTypes, WindowAssumption
<1>2. ASSUME NEW l \in {"strict", "standard"}, a = [Answer(due, TRUE) EXCEPT !.level = l] PROVE IsReply(a)
  BY <1>2 DEF Answer, IsReply, Replies, Levels, WinTypes
<1>3. a = Silence \/ a \in Busy(now) \/ a \in Settings
  BY DEF Handle
<1> QED BY <1>1, <1>2, <1>3, SilenceIs, BusyIs DEF Settings

-----------------------------------------------------------------------------
(* Window: one step preserves the invariant                                *)

LEMMA WinStart == WindowAssumption /\ WinInit => WinInv
<1> SUFFICES ASSUME WindowAssumption, WinInit PROVE WinInv
  OBVIOUS
<1>1. inner \in Nat \ {0} /\ 0 \in 0 .. MaxNow /\ level \in Levels
  BY DEF WinInit, WindowAssumption, Levels
<1>2. canvas \in Nat \ {0}
  BY <1>1, ResolveIs DEF WinInit
<1>3. due \in Dues
  BY NeverIs DEF WinInit, Dues, WindowAssumption
<1>4. Earliest(due) \in Nat /\ Earliest(due) <= Never /\ Never \in Nat
  BY <1>3, EarliestIs, NeverIs
<1>5. WinTypes
  BY <1>1, <1>2, <1>3, <1>4 DEF WinInit, WinTypes
<1>6. Reschedule(Never, Earliest(due)) = Earliest(due)
  BY <1>4, TwoMin DEF Reschedule
<1>7. WakesAgree
  BY <1>6 DEF WinInit, WakesAgree
<1> QED BY <1>1, <1>5, <1>7 DEF WinInit, WinInv, ResizesAgree, PictureIsCanvas

\* A frame, or none: the wake-up stays the earliest of what the browser waits for.
LEMMA ShowsStep ==
  ASSUME WindowAssumption, WinInv, NEW a, IsReply(a), Shows(a), UNCHANGED <<now, canvas, laid, resizeVars>>
  PROVE  WinInv'
<1>0. WinTypes /\ WakesAgree /\ ResizesAgree /\ PictureIsCanvas
  BY DEF WinInv
<1>1. /\ a.due \in Dues /\ a.level \in Levels /\ a.frame \in BOOLEAN /\ (~ a.frame => a.due = due)
  BY DEF IsReply, Replies
<1>2. Earliest(a.due) \in Nat
  BY <1>1, EarliestIs
<1>3. Reschedule(resizeAt, Earliest(a.due)) \in Nat
  BY <1>0, <1>2, RescheduleIs DEF WinTypes
<1>4. /\ UNCHANGED <<now, canvas, laid, inner, lastSize, pendingResize, resizeAt, surface>>
      /\ due' = a.due /\ level' = a.level
      /\ texture' = IF a.frame THEN canvas ELSE texture
      /\ shown' = (shown /\ ~ a.frame)
      /\ wakeAt' = IF a.frame THEN Earliest(a.due) ELSE wakeAt
      /\ armed' = IF a.frame THEN Reschedule(resizeAt, Earliest(a.due)) ELSE armed
  BY DEF Shows, UpdateTexture, resizeVars
<1>5. wakeAt' = Earliest(due') /\ armed' = Reschedule(resizeAt', wakeAt')
  <2>1. CASE a.frame
    BY <1>4, <2>1
  <2>2. CASE ~ a.frame
    <3>1. due' = due /\ wakeAt' = wakeAt /\ armed' = armed /\ resizeAt' = resizeAt
      BY <1>1, <1>4, <2>2
    <3> QED BY <1>0, <3>1 DEF WakesAgree
  <2> QED BY <2>1, <2>2
<1>6. WinTypes'
  <2>1. shown' \in BOOLEAN /\ due' \in Dues /\ level' \in Levels
    BY <1>1, <1>4
  <2>2. texture' \in Nat /\ wakeAt' \in Nat /\ armed' \in Nat
    BY <1>0, <1>2, <1>3, <1>4 DEF WinTypes
  <2> QED BY <1>0, <1>4, <2>1, <2>2 DEF WinTypes
<1>7. ResizesAgree'
  BY <1>0, <1>4 DEF ResizesAgree, Never
<1>8. PictureIsCanvas'
  BY <1>0, <1>4 DEF PictureIsCanvas
<1> QED BY <1>5, <1>6, <1>7, <1>8 DEF WinInv, WakesAgree

LEMMA ResizedStep ==
  ASSUME WindowAssumption, WinInv, NEW size \in Sizes, Resized(size)
  PROVE  WinInv'
<1>0. WinTypes /\ WakesAgree /\ ResizesAgree /\ PictureIsCanvas /\ size \in Nat
  BY DEF WinInv, WindowAssumption
<1>1. /\ inner' = size /\ surface' = IF size > 0 THEN size ELSE surface
      /\ UNCHANGED <<now, texture, shown, wakeAt, level, canvas, laid, due>>
  BY DEF Resized, Reconfigured, browserVars
<1>2. CASE size > 0 /\ size # lastSize
  <2>1. /\ lastSize' = size /\ pendingResize' = size /\ resizeAt' = now + Debounce
        /\ armed' = Reschedule(resizeAt', wakeAt)
    BY <1>2 DEF Resized
  <2>2. resizeAt' \in Nat /\ resizeAt' <= MaxNow + Debounce /\ MaxNow + Debounce \in Nat
    BY <1>0, <2>1 DEF WinTypes, WindowAssumption
  <2>3. armed' \in Nat
    BY <1>0, <2>1, <2>2, RescheduleIs DEF WinTypes
  <2>4. WinTypes'
    BY <1>0, <1>1, <1>2, <2>1, <2>2, <2>3 DEF WinTypes
  <2>5. WakesAgree'
    BY <1>0, <1>1, <2>1 DEF WakesAgree, Earliest, Never
  <2>6. ResizesAgree'
    BY <1>1, <1>2, <2>1, <2>2 DEF ResizesAgree
  <2> QED BY <1>0, <1>1, <2>4, <2>5, <2>6 DEF WinInv, PictureIsCanvas
<1>3. CASE ~ (size > 0 /\ size # lastSize)
  <2>1. UNCHANGED <<lastSize, pendingResize, resizeAt, armed>>
    BY <1>3 DEF Resized
  <2>2. WinTypes'
    BY <1>0, <1>1, <2>1 DEF WinTypes
  <2>3. WakesAgree'
    BY <1>0, <1>1, <2>1 DEF WakesAgree, Earliest, Never
  <2>4. ResizesAgree'
    BY <1>0, <1>1, <1>3, <2>1 DEF ResizesAgree, Never
  <2> QED BY <1>0, <1>1, <2>2, <2>3, <2>4 DEF WinInv, PictureIsCanvas
<1> QED BY <1>2, <1>3

\* Whenever the loop asks the browser because its moment has come, there is a frame.
LEMMA RingsIsFrame ==
  ASSUME WindowAssumption, WinTypes, NEW t \in Nat, now <= t, Earliest(due) <= now, Ripe(t) = {}
  PROVE  FALSE
<1>1. due \in Dues /\ now \in 0 .. MaxNow /\ MaxNow \in Nat /\ Debounce \in Nat
  BY DEF WinTypes, WindowAssumption
<1>2. Earliest(due) = Never \/ \E s \in Sources : Earliest(due) = due[s]
  BY <1>1, EarliestIs
<1>3. Never \in Nat /\ MaxNow + Debounce < Never
  BY NeverIs
<1>4. \A s \in Sources : due[s] \in Nat /\ t < due[s]
  BY <1>1 DEF Ripe, Dues
<1> QED BY <1>1, <1>2, <1>3, <1>4

LEMMA ResumeStep ==
  ASSUME WindowAssumption, WinInv, ResumeTimeReached
  PROVE  WinInv'
<1> DEFINE settled == resizeAt <= now
           size    == IF settled THEN Resolve(level, pendingResize) ELSE canvas
           wake    == IF settled THEN Earliest(due) ELSE wakeAt
           rings   == wake <= now
<1>0. WinTypes /\ WakesAgree /\ ResizesAgree /\ PictureIsCanvas
  BY DEF WinInv
<1>1a. PICK t \in now .. now + 1, arrived \in BOOLEAN : \E a \in IF rings THEN Ticked(t, arrived) ELSE {Silence} :
        /\ canvas' = size
        /\ laid' = IF settled THEN pendingResize ELSE laid
        /\ UpdateTexture(settled \/ a.frame, size)
        /\ pendingResize' = IF settled THEN 0 ELSE pendingResize
        /\ resizeAt' = IF settled THEN Never ELSE resizeAt
        /\ wakeAt' = Cleared(a, rings, wake)
        /\ armed' = Reschedule(resizeAt', wakeAt')
        /\ due' = a.due /\ level' = a.level
  BY DEF ResumeTimeReached
<1>1. PICK a \in IF rings THEN Ticked(t, arrived) ELSE {Silence} :
        /\ canvas' = size
        /\ laid' = IF settled THEN pendingResize ELSE laid
        /\ UpdateTexture(settled \/ a.frame, size)
        /\ pendingResize' = IF settled THEN 0 ELSE pendingResize
        /\ resizeAt' = IF settled THEN Never ELSE resizeAt
        /\ wakeAt' = Cleared(a, rings, wake)
        /\ armed' = Reschedule(resizeAt', wakeAt')
        /\ due' = a.due /\ level' = a.level
  BY <1>1a
<1>2. UNCHANGED <<now, inner, lastSize, surface>>
  BY DEF ResumeTimeReached
<1>3. wake = Earliest(due)
  BY <1>0 DEF WakesAgree
<1>4. IsReply(a) /\ (a.frame \/ ~ rings)
  <2>1. t \in Nat /\ now <= t
    BY <1>0 DEF WinTypes, WindowAssumption
  <2>2. CASE rings
    <3>1. a \in Ticked(t, arrived)
      BY <1>1, <2>2
    <3>2. IsReply(a) /\ (a.frame \/ Ripe(t) = {})
      BY <1>0, <2>1, <3>1, TickedIs
    <3>3. Earliest(due) <= now
      BY <1>3, <2>2
    <3>4. Ripe(t) # {}
      BY <1>0, <2>1, <3>3, RingsIsFrame
    <3> QED BY <3>2, <3>4
  <2>3. CASE ~ rings
    <3>1. a = Silence
      BY <1>1, <2>3
    <3> QED BY <1>0, <2>3, <3>1, SilenceIs
  <2> QED BY <2>2, <2>3
<1>5. a.due \in Dues /\ a.level \in Levels /\ a.frame \in BOOLEAN /\ (~ a.frame => a.due = due)
  BY <1>4 DEF IsReply, Replies
<1>6. wakeAt' = Earliest(due')
  <2>1. CASE a.frame
    <3>1. Cleared(a, rings, wake) = Earliest(a.due)
      BY <2>1 DEF Cleared
    <3> QED BY <1>1, <3>1
  <2>2. CASE ~ a.frame
    <3>1. Cleared(a, rings, wake) = wake
      BY <1>4, <2>2 DEF Cleared
    <3>2. due' = due
      BY <1>1, <1>5, <2>2
    <3> QED BY <1>1, <1>3, <3>1, <3>2
  <2> QED BY <2>1, <2>2
<1>7. size \in Nat \ {0} /\ pendingResize' \in Nat /\ laid' \in Nat /\ resizeAt' \in Nat
  <2>1. settled => pendingResize = lastSize
    BY <1>0, NeverIs DEF ResizesAgree, WinTypes, WindowAssumption
  <2>2. settled => Resolve(level, pendingResize) \in Nat \ {0}
    BY <1>0, <2>1, ResolveIs DEF WinTypes
  <2> QED BY <1>0, <1>1, <2>2, NeverIs DEF WinTypes
<1>8. wakeAt' \in Nat /\ armed' \in Nat
  <2>1. Earliest(a.due) \in Nat /\ due' = a.due
    BY <1>1, <1>5, EarliestIs
  <2>2. wakeAt' \in Nat
    BY <1>6, <2>1 DEF Earliest, Never
  <2> QED BY <1>1, <1>7, <2>2, RescheduleIs
<1>9. texture' = canvas' /\ texture' \in Nat /\ shown' \in BOOLEAN
  <2>1. texture' = (IF settled \/ a.frame THEN size ELSE texture) /\ shown' = (shown /\ ~ (settled \/ a.frame))
    BY <1>1 DEF UpdateTexture
  <2>2. shown' \in BOOLEAN
    BY <2>1
  <2>3. ~ settled => size = texture
    BY <1>0 DEF PictureIsCanvas
  <2>4. texture' = size
    BY <2>1, <2>3
  <2> QED BY <1>1, <1>7, <2>2, <2>4
<1>10. WinTypes'
  BY <1>0, <1>1, <1>2, <1>5, <1>7, <1>8, <1>9 DEF WinTypes
<1>11. WakesAgree'
  BY <1>1, <1>6 DEF WakesAgree
<1>12. ResizesAgree'
  <2>1. inner' > 0 => lastSize' = inner' /\ surface' = inner'
    BY <1>0, <1>2 DEF ResizesAgree
  <2>2. CASE settled
    <3>1. pendingResize = lastSize
      BY <1>0, <2>2, NeverIs DEF ResizesAgree, WinTypes, WindowAssumption
    <3> QED BY <1>1, <1>2, <2>1, <2>2, <3>1 DEF ResizesAgree, Never
  <2>3. CASE ~ settled
    BY <1>0, <1>1, <1>2, <2>1, <2>3 DEF ResizesAgree, Never
  <2> QED BY <2>2, <2>3
<1>13. PictureIsCanvas'
  BY <1>9 DEF PictureIsCanvas
<1> QED BY <1>10, <1>11, <1>12, <1>13 DEF WinInv

\* Nothing the loop is armed for moves with the clock or the picture.
LEMMA PassesStep == ASSUME WindowAssumption, WinInv, Passes PROVE WinInv'
<1>1. /\ now' \in 0 .. MaxNow
      /\ UNCHANGED <<wakeAt, armed, texture, shown, inner, lastSize, pendingResize, resizeAt, surface,
                     level, canvas, laid, due>>
  BY DEF Passes, WinInv, WinTypes, WindowAssumption, resizeVars, browserVars
<1> QED BY <1>1 DEF WinInv, WinTypes, WakesAgree, ResizesAgree, PictureIsCanvas, Earliest, Never

LEMMA RedrawStep == ASSUME WinInv, RedrawRequested PROVE WinInv'
<1>1. /\ shown' \in BOOLEAN
      /\ UNCHANGED <<now, wakeAt, armed, texture, inner, lastSize, pendingResize, resizeAt, surface,
                     level, canvas, laid, due>>
  BY DEF RedrawRequested, resizeVars, browserVars
<1> QED BY <1>1 DEF WinInv, WinTypes, WakesAgree, ResizesAgree, PictureIsCanvas, Earliest, Never

LEMMA WinSame == ASSUME WinInv, UNCHANGED winVars PROVE WinInv'
BY DEF winVars, resizeVars, browserVars, WinInv, WinTypes, WakesAgree, ResizesAgree, PictureIsCanvas,
       Earliest, Never

\* The loop's clocks, sizes and pictures are those of the browser, at every event
\* (App::user_event, window_event and resumed_time_reached).
THEOREM WinInvariant == WinSpec => []WinInv
<1>1. WinInit => WinInv
  BY WinStart, WindowAssumption
<1>2. WinInv /\ [WinNext]_winVars => WinInv'
  <2> SUFFICES ASSUME WinInv, [WinNext]_winVars PROVE WinInv'
    OBVIOUS
  <2> USE WindowAssumption
  <2>0. WinTypes /\ now \in Nat
    BY DEF WinInv, WinTypes, WindowAssumption
  <2>1. CASE \E size \in Sizes : Resized(size)
    BY <2>1, ResizedStep
  <2>2. CASE ResumeTimeReached
    BY <2>2, ResumeStep
  <2>3. CASE ExternalWake
    <3>0. PICK arrived \in BOOLEAN : \E a \in Ticked(now, arrived) : Shows(a)
      BY <2>3 DEF ExternalWake
    <3>1. PICK a \in Ticked(now, arrived) : Shows(a)
      BY <3>0
    <3>2. IsReply(a)
      BY <2>0, <3>1, TickedIs
    <3> QED BY <2>3, <3>1, <3>2, ShowsStep DEF ExternalWake
  <2>4. CASE Pointed
    <3>1. \E event : \E a \in Handle(event) : Shows(a)
      BY <2>4 DEF Pointed
    <3> QED BY <2>0, <2>4, <3>1, HandleIs, ShowsStep DEF Pointed
  <2>5. CASE KeyboardInput
    <3>1. \E event : \E a \in Handle(event) : Shows(a)
      BY <2>5 DEF KeyboardInput
    <3> QED BY <2>0, <2>5, <3>1, HandleIs, ShowsStep DEF KeyboardInput
  <2>6. CASE RedrawRequested
    BY <2>6, RedrawStep
  <2>7. CASE Passes
    BY <2>7, PassesStep
  <2>8. CASE UNCHANGED winVars
    BY <2>8, WinSame
  <2> QED BY <2>1, <2>2, <2>3, <2>4, <2>5, <2>6, <2>7, <2>8 DEF WinNext
<1> QED BY <1>1, <1>2, PTL DEF WinSpec

\* The loop is up in time for whatever the browser waits for, and for a size the
\* page is not laid out for yet (wake_deadline, resize_deadline).
THEOREM NothingForgotten == WinSpec => []NothingIsForgotten
<1>1. WinInv => NothingIsForgotten
  <2> SUFFICES ASSUME WinInv PROVE NothingIsForgotten
    OBVIOUS
  <2>1. WinTypes /\ WakesAgree /\ ResizesAgree
    BY DEF WinInv
  <2>2. armed <= wakeAt /\ armed <= resizeAt
    BY <2>1, RescheduleIs DEF WakesAgree, WinTypes
  <2>3. inner > 0 /\ laid # inner => resizeAt < Never
    BY <2>1, NeverIs, WindowAssumption DEF ResizesAgree, WinTypes, WindowAssumption
  <2> QED BY <2>1, <2>2, <2>3 DEF NothingIsForgotten, WakesAgree
<1> QED BY <1>1, WinInvariant, PTL

\* A click on the stretched picture is on the same place of the browser's canvas
\* (physical_to_content).
THEOREM ClicksLand == WinSpec => []ClicksLandWhereShown
<1>1. WinInv => ClicksLandWhereShown
  <2> SUFFICES ASSUME WinInv, NEW p \in 0 .. inner - 1
               PROVE  /\ PhysicalToContent(p) = (p * texture) \div inner
                      /\ PhysicalToContent(p) \in 0 .. canvas - 1
    BY DEF ClicksLandWhereShown
  <2>1. inner \in Nat \ {0} /\ surface = inner /\ texture = canvas /\ canvas \in Nat \ {0}
    BY DEF WinInv, WinTypes, ResizesAgree, PictureIsCanvas
  <2>2. Max({1, surface}) = inner
    BY <2>1, TwoMax
  <2>3. PhysicalToContent(p) = (p * texture) \div inner
    BY <2>2 DEF PhysicalToContent
  <2>4. (p * canvas) \div inner \in 0 .. canvas - 1
    BY <2>1, DivBelow
  <2> QED BY <2>1, <2>3, <2>4
<1> QED BY <1>1, WinInvariant, PTL

=============================================================================
