--------------------------- MODULE MCSyncDevices ----------------------------
(* Small instances of SyncDevices. *)
EXTENDS SyncDevices, TLC

CONSTANTS phone, laptop, b1, b2, v1, v2, here, there
TwoDevices == {phone, laptop}
TwoBookmarks == {b1, b2}
OneBookmark  == {b1}
TwoVisits    == {v1, v2}
V2Later      == (v1 :> 1) @@ (v2 :> 2)
OneServer  == {here}
DefaultServer == here
TwoServers == {here, there}

Symmetry == Permutations(TwoDevices) \cup Permutations(TwoBookmarks)
=============================================================================
