------------------------------- MODULE Matching -------------------------------
(***************************************************************************)
(* Matching a chain of compounds against an element (css crate), from the   *)
(* right. steps[i] is how the i-th compound of a chain is joined to the one *)
(* before it ("none" for the first), suits[i] the elements that the i-th    *)
(* compound matches by itself. Documents are as in Selectors.               *)
(***************************************************************************)
EXTENDS Integers, Sequences, FiniteSetsExt

Doc == 0
NoParent == -1

Elements(d) == {n \in d.nodes : d.kind[n] = "element"}
ChildrenOf(d, p) == {n \in d.nodes : d.parent[n] = p}
ElementSiblings(d, n) == IF d.parent[n] = NoParent THEN {} ELSE ChildrenOf(d, d.parent[n]) \cap Elements(d)

PreviousNode(d, n) ==                  \* variant: a text between two elements counts
  LET before == {s \in d.nodes : d.parent[s] = d.parent[n] /\ d.parent[n] # NoParent /\ s < n}
  IN  IF before = {} THEN NoParent ELSE Max(before)

PreviousElement(d, n) ==
  LET before == {s \in ElementSiblings(d, n) : s < n}
  IN  IF before = {} THEN NoParent ELSE Max(before)

Joins == {"child", "descendant", "next", "later"}
Loose == {"descendant", "later"}       \* more than one candidate

\* The candidate for what is joined to n, or to a candidate that did not do.
Candidate(d, step, n) == IF step \in {"child", "descendant"} THEN d.parent[n] ELSE PreviousElement(d, n)

(* Whether the compounds before the last can be given elements when the last has n. At     *)
(* <<i, m>>, the compound before the i-th may have m or, by a loose join, one beyond.      *)
MatchesFrom(d, steps, suits, n) ==
  LET from[at \in (2 .. Len(steps)) \X (d.nodes \cup {Doc, NoParent})] ==
        LET i == at[1]  m == at[2]
        IN  /\ m \in d.nodes
            /\ \/ m \in suits[i - 1] /\ (i = 2 \/ from[<<i - 1, Candidate(d, steps[i - 1], m)>>])
               \/ steps[i] \in Loose /\ from[<<i, Candidate(d, steps[i], m)>>]
  IN  Len(steps) = 1 \/ from[<<Len(steps), Candidate(d, steps[Len(steps)], n)>>]

ChainMatches(d, steps, suits, n) == n \in suits[Len(steps)] /\ MatchesFrom(d, steps, suits, n)

-----------------------------------------------------------------------------
(* What the language says: an element for each compound, each joined to the next.          *)

IsDocument(d) ==                       \* numbered in document order, from its root
  /\ d.nodes \in SUBSET (Nat \ {0})
  /\ d.parent \in [d.nodes -> d.nodes \cup {Doc, NoParent}]
  /\ \A n \in d.nodes : d.parent[n] < n

IsChain(d, steps, suits) ==
  /\ Len(steps) \in Nat \ {0}
  /\ \A i \in 2 .. Len(steps) : steps[i] \in Joins
  /\ suits \in [1 .. Len(steps) -> SUBSET Elements(d)]

Above(d, n) ==
  LET above[m \in d.nodes] == IF d.parent[m] \in d.nodes THEN {d.parent[m]} \cup above[d.parent[m]] ELSE {}
  IN  above[n]

Related(d, step, m, n) ==
  CASE step = "child"      -> m = d.parent[n]
    [] step = "descendant" -> m \in Above(d, n)
    [] step = "next"       -> /\ m \in ElementSiblings(d, n) /\ m < n
                              /\ \A s \in ElementSiblings(d, n) : ~ (m < s /\ s < n)
    [] step = "later"      -> m \in ElementSiblings(d, n) /\ m < n

Assigned(d, steps, suits, n) ==
  \E f \in [1 .. Len(steps) -> Elements(d)] :
    /\ f[Len(steps)] = n
    /\ \A i \in 1 .. Len(steps) : f[i] \in suits[i]
    /\ \A i \in 2 .. Len(steps) : Related(d, steps[i], f[i - 1], f[i])
=============================================================================
