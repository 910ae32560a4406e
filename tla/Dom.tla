-------------------------------- MODULE Dom ---------------------------------
(***************************************************************************)
(* The document of a session, as scripts change it. A node is reference      *)
(* counted: its parent's list and the script's object for it keep it alive,  *)
(* its pointer to its parent does not keep the parent. The app, and the      *)
(* registry of listeners, know nodes by id only, and may ask for one that is *)
(* gone: its memory may already hold another node.                           *)
(*                                                                           *)
(* Text nodes carry no data here, and no script can have an object for one.  *)
(***************************************************************************)
EXTENDS Integers, SequencesExt, FiniteSetsExt

CONSTANTS
  Memory,   \* places in memory: 1, where the document is, to some number
  Nothing,
  TextNode, \* a text node
  MaxCalls  \* bound: calls of scripts, clicks, and pages

ASSUME MemoryAssumption ==
  1 .. 3 \subseteq Memory /\ Memory \subseteq Nat \ {0} /\ {Nothing, TextNode} \cap Memory = {}

VARIABLES
  kids, up,   \* children, and parent, of the node in each cell
  id,         \* its NodeId, 0 in a free cell
  made,       \* how many were ever made: NEXT_NODE_ID
  born,       \* of each: its place among all nodes ever made; not in the code
  matching,   \* those with the class that scripts search for
  held,       \* those the scripts have an object for
  heard,      \* elementListeners: the ids registered there, and for which nodes
  shown,      \* likewise: the ids in the app's layout tree
  session,    \* "idle", "script", "click", or "gone": it ended, or hangs
  target,     \* of the click being dispatched
  calls

domVars == <<kids, up, id, made, born, matching, held, heard, shown, session, target, calls>>

DocNode == 1
Live == {c \in Memory : id[c] # 0}

----------------------------------------------------------------------------
(* Walks *)

\* The elements among the children of each node, and its parent, if it has one
Children == [c \in Live |-> ToSet(kids[c]) \ {TextNode}]
Parents  == [c \in Live |-> {up[c]} \ {Nothing}]

\* Where walks along f come from the nodes in S: what every set has in common that
\* has them, and that no walk leaves
Closed(f, T)  == \A c \in T : f[c] \subseteq T
Closure(f, S) ==
  DOMAIN f \ UNION {DOMAIN f \ T : T \in {U \in SUBSET DOMAIN f : S \subseteq U /\ Closed(f, U)}}

Reached(S) == Closure(Children, S)
Under(c)   == Reached(Children[c])

\* A walk down from c comes back to a node it is in, and recurses for ever.
Endless(c) == \E n \in Reached({c}) : n \in Under(n)

\* c, and what every walk up from it passes
ancestor_chain(c) == Closure(Parents, {c})

\* A walk up from c never arrives.
ClimbsForever(c) == \A n \in ancestor_chain(c) : up[n] # Nothing

find_by_node_id(i) == {c \in Reached({DocNode}) : id[c] = i}

----------------------------------------------------------------------------
(* Changes *)

\* Variant: the node is not taken from where it was.
PushedOn(p, c) ==
  [kids |-> [kids EXCEPT ![p] = Append(kids[p], c)], up |-> [up EXCEPT ![c] = p]]

\* Vec::retain of all but c, which is listed once (ListedOnce).
TakenFrom(list, c) ==
  IF c \in ToSet(list) THEN RemoveAt(list, CHOOSE i \in DOMAIN list : list[i] = c) ELSE list

\* append_child: taken from the node its pointer names, which may be out of date
Appended(p, c) ==
  LET k == [n \in Memory |-> IF n = up[c] THEN TakenFrom(kids[n], c) ELSE kids[n]]
  IN  [kids |-> [k EXCEPT ![p] = Append(k[p], c)], up |-> [up EXCEPT ![c] = p]]

\* set_text_content: the children that were there keep their pointers.
Retexted(n) == [kids |-> [kids EXCEPT ![n] = <<TextNode>>], up |-> up]

\* What is left of L when nothing keeps a node but the roots, and lists of nodes
\* that are kept: a node below itself stays.
Alive(L, k, roots) ==
  UNION {S \in SUBSET L : \A c \in S : c \in roots \/ \E p \in S : c \in ToSet(k[p])}

\* The tree becomes t, h is held, and whatever nothing keeps is freed.
Becomes(t, h, click) ==
  LET K == Alive(Live, t.kids, {DocNode, click} \cup h) IN
  /\ kids' = [c \in Memory |-> IF c \in K THEN t.kids[c] ELSE <<>>]
  /\ up' = [c \in Memory |-> IF c \in K /\ t.up[c] \in K THEN t.up[c] ELSE Nothing]
  /\ id' = [c \in Memory |-> IF c \in K THEN id[c] ELSE 0]
  /\ matching' = matching \cap K
  /\ held' = h /\ target' = click
  /\ UNCHANGED <<made, born>>

TreeNow == [kids |-> kids, up |-> up]

----------------------------------------------------------------------------
(* What a script does: each of these is counted. *)

Acting == session \in {"script", "click"} /\ calls < MaxCalls /\ calls' = calls + 1

\* Variant: the address serves as id.
AddressId(c, n) == c
\* next_node_id, for the n-th node ever made
FreshId(c, n)   == n

CreateElement(c) ==
  /\ Acting
  /\ c \in Memory \ Live
  /\ made' = made + 1
  /\ id' = [id EXCEPT ![c] = FreshId(c, made + 1)]
  /\ born' = [born EXCEPT ![c] = made + 1]
  /\ held' = held \cup {c}
  /\ UNCHANGED <<kids, up, matching, heard, shown, session, target>>

\* No check for an ancestor; a node that is its own parent is borrowed twice,
\* and the process panics.
AppendChild(p, c) ==
  /\ Acting
  /\ {p, c} \subseteq held
  /\ IF up[c] = c
     THEN session' = "gone" /\ UNCHANGED <<kids, up, id, made, born, matching, held, target>>
     ELSE Becomes(Appended(p, c), held, target) /\ UNCHANGED session
  /\ UNCHANGED <<heard, shown>>

SetText(n) ==
  /\ Acting
  /\ n \in held
  /\ Becomes(Retexted(n), held, target)
  /\ UNCHANGED <<heard, shown, session>>

\* A search below an element, or the document, for elements with a class; the
\* walk overflows the stack if it has no end, and so does textContent.
Search(c) ==
  /\ Acting
  /\ c \in held \cup {DocNode}
  /\ IF Endless(c) THEN session' = "gone" /\ UNCHANGED held
     ELSE held' = held \cup (Under(c) \cap matching) /\ UNCHANGED session
  /\ UNCHANGED <<kids, up, id, made, born, matching, heard, shown, target>>

\* getElementById
FindById(c) ==
  /\ Acting
  /\ c \in Under(DocNode)
  /\ held' = held \cup {c}
  /\ UNCHANGED <<kids, up, id, made, born, matching, heard, shown, session, target>>

\* classList.add, classList.remove; setAttribute, removeAttribute
SetClass(n) ==
  /\ Acting
  /\ n \in held
  /\ matching' = SymDiff(matching, {n})
  /\ UNCHANGED <<kids, up, id, made, born, held, heard, shown, session, target>>

AddEventListener(n) ==
  /\ Acting
  /\ n \in held
  /\ heard' = heard \cup {<<id[n], born[n]>>}
  /\ UNCHANGED <<kids, up, id, made, born, matching, held, shown, session, target>>

\* The engine collects the object of a node that scripts have no use for.
Collect(n) ==
  /\ n \in held
  /\ Becomes(TreeNow, held \ {n}, target)
  /\ UNCHANGED <<heard, shown, session, calls>>

----------------------------------------------------------------------------
(* The session. *)

RunScript ==
  /\ session = "idle" /\ session' = "script"
  /\ UNCHANGED <<kids, up, id, made, born, matching, held, heard, shown, target, calls>>

\* The app clicked a box it was shown: the chain is built before any listener runs.
Click(i) ==
  /\ session = "idle" /\ calls < MaxCalls /\ calls' = calls + 1
  /\ \E c \in find_by_node_id(i) : target' = c
  /\ session' = "click"
  /\ UNCHANGED <<kids, up, id, made, born, matching, held, heard, shown>>

EndScript ==
  /\ session = "script" /\ session' = "idle"
  /\ UNCHANGED <<kids, up, id, made, born, matching, held, heard, shown, target, calls>>

\* Unless they prevented it, the form around a button or a radio is looked for
\* after its listeners, from wherever they left it: find_ancestor_form.
EndClick ==
  /\ session = "click"
  /\ session' \in IF ClimbsForever(target) THEN {"idle", "gone"} ELSE {"idle"}
  /\ Becomes(TreeNow, held, Nothing)
  /\ UNCHANGED <<heard, shown, calls>>

\* The answer reaches the app: its layout tree has the ids of this document.
Render ==
  /\ session = "idle"
  /\ shown' = {<<id[c], born[c]>> : c \in Under(DocNode)}
  /\ UNCHANGED <<kids, up, id, made, born, matching, held, heard, session, target, calls>>

PageKids == [c \in Memory |-> IF c \in {1, 2} THEN <<c + 1>> ELSE <<>>]
PageUp   == [c \in Memory |-> IF c \in {2, 3} THEN c - 1 ELSE Nothing]

\* A new document in the same process: ids go on where they were, and the app
\* may still click on what it shows of the old one.
Navigate ==
  /\ session = "idle" /\ calls < MaxCalls /\ calls' = calls + 1
  /\ kids' = PageKids /\ up' = PageUp
  /\ made' = made + 3
  /\ id' = [c \in Memory |-> IF c <= 3 THEN FreshId(c, made + c) ELSE 0]
  /\ born' = [c \in Memory |-> IF c <= 3 THEN made + c ELSE 0]
  /\ matching' = {} /\ held' = {} /\ heard' = {}
  /\ UNCHANGED <<shown, session, target>>

DomInit ==
  /\ kids = PageKids /\ up = PageUp
  /\ id = [c \in Memory |-> IF c <= 3 THEN c ELSE 0] /\ born = id /\ made = 3
  /\ matching = {} /\ held = {} /\ heard = {} /\ shown = {}
  /\ session = "idle" /\ target = Nothing /\ calls = 0

DomCall ==
  \E n \in Memory :
    \/ CreateElement(n) \/ SetText(n) \/ Search(n) \/ FindById(n)
    \/ SetClass(n) \/ AddEventListener(n)
    \/ \E c \in Memory : AppendChild(n, c)

DomNext ==
  \/ DomCall \/ RunScript \/ EndScript \/ EndClick \/ Render \/ Navigate
  \/ \E n \in Memory : Collect(n)
  \/ \E box \in shown : Click(box[1])

DomSpec == DomInit /\ [][DomNext]_domVars

----------------------------------------------------------------------------
(* Properties. *)

\* "A node can never end up listed under two parents at once" (append_child): it
\* is listed once, by the parent it points to; though pointers to former parents
\* stay behind, and scripts may append a node to its own descendant.
ListedOnce ==
  \A p \in Live :
    /\ \A i, j \in DOMAIN kids[p] : kids[p][i] = kids[p][j] /\ kids[p][i] # TextNode => i = j
    /\ \A c \in Children[p] : up[c] = p

\* And so the document itself stays a tree, whatever was moved, dropped and adopted.
\* Searching down and dispatching up see the same: an element is found below c just if
\* a click on it passes c. And no walk of it hangs the page: down, none comes back to
\* where it was; up, all end at the document (append_child, query_selector_all,
\* ancestor_chain).
DocumentIsTree ==
  LET D == Reached({DocNode}) IN
  /\ up[DocNode] = Nothing
  /\ UNION {{c} \X Under(c) : c \in D} = UNION {(ancestor_chain(n) \ {n}) \X {n} : n \in D}

DocumentIsSound == ListedOnce /\ DocumentIsTree

\* An id that the app or the registry remembers is answered by the node it was
\* taken from, or by none: not by one that came into its place in memory, nor by
\* the next page, which clicks on the old one may reach (NodeId). No two nodes
\* answer to one id.
IdsNameTheirNode ==
  /\ \A known \in shown \cup heard : \A c \in Live : id[c] = known[1] => born[c] = known[2]
  /\ \A c, d \in Live : id[c] = id[d] => c = d

----------------------------------------------------------------------------
(* What searches find, and in which order, below a node of a document that is a tree.
   They go down one list inside another: a place of theirs is a node, and which of its
   children is next. *)

Places(c) == Reached({c}) \X (Nat \ {0})

\* Those below c that are in S, child by child, and each before those below it.
Found(c, S) ==
  LET walk[at \in Places(c)] ==
        LET n == at[1]
            i == at[2]
            e == kids[n][i]
        IN  IF i > Len(kids[n]) THEN <<>>
            ELSE IF e = TextNode THEN walk[<<n, i + 1>>]
            ELSE (IF e \in S THEN <<e>> ELSE <<>>) \o walk[<<e, 1>>] \o walk[<<n, i + 1>>]
  IN  walk[<<c, 1>>]

query_selector_all(c) == Found(c, matching)

\* Variant: of the children only.
FirstOfChildren(c) ==
  LET hits == SelectSeq(kids[c], LAMBDA n : n \in matching)
  IN  IF hits = <<>> THEN Nothing ELSE Head(hits)

\* find_first_selector_match, of the children in turn
query_selector_first(c) ==
  LET find[at \in Places(c)] ==
        LET n == at[1]
            i == at[2]
            e == kids[n][i]
            found == IF e \in matching THEN e ELSE find[<<e, 1>>]
        IN  IF i > Len(kids[n]) THEN Nothing
            ELSE IF e # TextNode /\ found # Nothing THEN found
            ELSE find[<<n, i + 1>>]
  IN  find[<<c, 1>>]

\* Document order: m is above n, or in a subtree that is listed before one with n.
Precedes(m, n) ==
  \/ n \in Under(m)
  \/ \E p \in Live : \E i, j \in DOMAIN kids[p] :
       /\ i < j /\ kids[p][i] # TextNode /\ kids[p][j] # TextNode
       /\ m \in Reached({kids[p][i]}) /\ n \in Reached({kids[p][j]})

\* querySelectorAll finds all that match below a node, once each and in document
\* order, and querySelector the first of them (query_selector_all,
\* query_selector_first).
QueriesAgree ==
  \A c \in Reached({DocNode}) : LET hits == query_selector_all(c) IN
    /\ ToSet(hits) = Under(c) \cap matching
    /\ \A i, j \in DOMAIN hits : i < j => hits[i] # hits[j] /\ Precedes(hits[i], hits[j])
    /\ query_selector_first(c) = IF hits = <<>> THEN Nothing ELSE Head(hits)

\* "LOOP_ITERATION_LIMIT caps a worst-case runaway script" (script.rs): no script
\* stops its session for good.
SessionsEnd == session # "gone"
=============================================================================
