---------------------------- MODULE SyncRegister ----------------------------
(***************************************************************************)
(* What FileSyncServer promises for one account, with no file in sight: a  *)
(* versioned register that a push replaces atomically when it names the    *)
(* current version and comes from the register's owner, that an operator   *)
(* may roll back to a value it held before, and whose answers are true of  *)
(* the value it holds when it gives them.                                  *)
(***************************************************************************)
EXTENDS Integers

CONSTANTS
  Secrets,  \* auth secrets (the register keeps their hash)
  Data,     \* ciphertexts
  NoBlob    \* no account yet

VARIABLES
  blob,     \* the value held
  past,     \* every value held so far
  reply     \* the last answer given

vars == <<blob, past, reply>>

Blob == [ver : Nat \ {0}, owner : Secrets, data : Data]

Version == IF blob = NoBlob THEN 0 ELSE blob.ver

\* What a client may be told.
NoReply      == [kind |-> "none"]
Failure      == [kind |-> "failure"]
Ok(v)        == [kind |-> "ok", ver |-> v]
Conflict(v)  == [kind |-> "conflict", ver |-> v]
Unauthorized == [kind |-> "unauthorized"]
NotFound     == [kind |-> "not found"]
Got(b)       == [kind |-> "got", ver |-> b.ver, data |-> b.data]

Init == blob = NoBlob /\ past = {} /\ reply = NoReply

\* SyncTransport::push, the case that stores: the first push makes its secret
\* the owner's.
Push(o, d, expected) ==
  /\ expected = Version
  /\ blob # NoBlob => blob.owner = o
  /\ blob' = [ver |-> Version + 1, owner |-> o, data |-> d]
  /\ past' = past \cup {blob'}
  /\ UNCHANGED reply

\* restore_backup
RollBack(b) ==
  /\ b \in past
  /\ b.ver < Version
  /\ blob' = b
  /\ UNCHANGED <<past, reply>>

\* The answers of push and pull, and an internal storage error.
Answer ==
  /\ \/ /\ blob # NoBlob
        /\ reply' \in {Ok(Version), Got(blob), Unauthorized}
     \/ blob = NoBlob /\ reply' = NotFound
     \/ reply' \in {Conflict(Version), Failure, NoReply}
  /\ UNCHANGED <<blob, past>>

Next ==
  \/ \E o \in Secrets, d \in Data, v \in {Version} : Push(o, d, v)
  \/ \E b \in past : RollBack(b)
  \/ Answer

Spec == Init /\ [][Next]_vars
=============================================================================
