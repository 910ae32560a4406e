---------------------------- MODULE MCPageStorage ----------------------------
(* Small instances: what pages of two sites store, and one origin's database.
   The two share no state, and a behaviour is of one or of the other. *)
EXTENDS PageStorage, IndexedDb, TLC

CONSTANTS a, b
TwoSites == {a, b}
Symmetry == Permutations(TwoSites)

SitesRest == Init
DbRests   == DbInit

OnSites    == DbRests /\ Next /\ UNCHANGED dbVars
OnDatabase == SitesRest /\ DbNext /\ UNCHANGED vars

OriginInit == Init /\ DbInit
OriginSpec == OriginInit /\ [][OnSites \/ OnDatabase]_<<vars, dbVars>>
=============================================================================
