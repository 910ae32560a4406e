---------------------------- MODULE MCSyncServer ----------------------------
(* Small instances of SyncServer, and of the gate before it. What passes the
   gate is any request to the store, and what it holds in memory is nothing to
   the store: a behaviour is of one or of the other. *)
EXTENDS SyncServer, Gate

CONSTANTS alice, mallory, red, blue
TwoSecrets == {alice, mallory}
OneSecret  == {alice}
TwoData    == {red, blue}

StoreRests == Init
GateRests  == GateInit

AtStore == GateRests /\ Next /\ UNCHANGED gateVars
AtGate  == StoreRests /\ GateNext /\ UNCHANGED vars

GatedInit == Init /\ GateInit
GatedSpec == GatedInit /\ [][AtStore \/ AtGate]_<<vars, gateVars>>
=============================================================================
