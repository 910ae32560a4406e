---------------------------- MODULE MCPageSessions ----------------------------
(* Small instances of PageSessions. *)
EXTENDS PageSessions, TLC

CONSTANTS t1, t2, t3, o1, o2, v1, v2

ThreeTabs  == {t1, t2, t3}
TwoOrigins == {o1, o2}
TwoValues  == {v1, v2}
Symmetry   == Permutations(ThreeTabs) \cup Permutations(TwoOrigins) \cup Permutations(TwoValues)
=============================================================================
