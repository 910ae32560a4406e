----------------------------- MODULE SyncServer -----------------------------
(***************************************************************************)
(* The files of one account behind sync-server: FileSyncServer's push and  *)
(* pull, one request at a time, as the file operations they are made of;   *)
(* the rotating backups; the operator's restore command, a second process  *)
(* on the same files; and a server that may die between any two of them.   *)
(***************************************************************************)
EXTENDS Integers, FiniteSets

CONSTANTS
  Secrets,          \* auth secrets
  Data,             \* ciphertexts
  Cut,              \* what is left of a ciphertext whose write was cut short
  NoFile,           \* a file that does not exist
  Torn,             \* a file too short to hold a version
  Retention,        \* backup_retention
  OperatorWaits,    \* the operator stops the server, and only goes back in time
  MaxVersion,       \* bound: versions ever pushed
  MaxDeaths,        \* bound: times the server dies while it works
  MaxRestores       \* bound: restore commands

ASSUME RetentionAssumption == Retention \in Nat \ {0}
ASSUME DataAssumption == Cut \notin Data
ASSUME BoundsAssumption ==
  /\ MaxVersion \in Nat /\ MaxDeaths \in Nat /\ MaxRestores \in Nat
  /\ OperatorWaits \in BOOLEAN

VARIABLES
  live,     \* <account>.blob
  tmp,      \* <account>.blob.tmp, the one name that every writer uses
  backups,  \* backups/<account>/<version>.blob, by version
  srv,      \* where the server is
  req,      \* the request it handles
  copy,     \* the live file as backup_current_blob read it
  srvFd,    \* the name under which the file it has open for writing is found now
  op,       \* where the operator's restore command is
  opBlob,   \* the backup it has read
  opFd,     \* the name under which the file it has open is found now
  reply,    \* the last answer the server gave
  past,     \* every blob that a push ever made live
  deaths,
  restores

fileVars   == <<live, tmp, backups>>
srvVars    == <<srv, req, copy, srvFd>>
opVars     == <<op, opBlob, opFd>>
boundVars  == <<deaths, restores>>
vars == <<fileVars, srvVars, opVars, reply, past, boundVars>>

Versions == 1 .. MaxVersion
Blob     == [ver : Versions, owner : Secrets, data : Data]
CutBlob  == [ver : Versions, owner : Secrets, data : {Cut}]
File     == Blob \cup CutBlob \cup {NoFile, Torn}

\* A file that holds a version is neither absent nor too short for one.
ASSUME FileAssumption == \A b \in Blob \cup CutBlob : b \notin {NoFile, Torn}

R == INSTANCE SyncRegister WITH NoBlob <- NoFile, blob <- live

PushRequest == [op : {"push"}, secret : Secrets, data : Data, expected : 0 .. MaxVersion]
PullRequest == [op : {"pull"}, secret : Secrets]
NoRequest   == [op |-> "none"]

SrvStates == {"down", "idle", "backup", "backing", "open", "write", "rename", "done"}
OpStates  == {"idle", "open", "write", "rename"}
Fds       == {"none", "tmp", "live", "gone"}

TypeOK ==
  /\ live \in File /\ tmp \in File
  /\ backups \in [Versions -> File]
  /\ srv \in SrvStates /\ op \in OpStates
  /\ req \in PushRequest \cup PullRequest \cup {NoRequest}
  /\ srvFd \in Fds /\ opFd \in Fds
  /\ copy \in File /\ opBlob \in File
  /\ reply \in {R!NoReply, R!Failure, R!Unauthorized, R!NotFound}
                 \cup {R!Ok(v) : v \in Versions}
                 \cup {R!Conflict(v) : v \in 0 .. MaxVersion}
                 \cup {R!Got(b) : b \in Blob \cup CutBlob}
  /\ past \subseteq Blob
  /\ deaths \in 0 .. MaxDeaths /\ restores \in 0 .. MaxRestores

-----------------------------------------------------------------------------
(* The disk                                                                *)

\* A file that read_blob and backup_current_blob can take apart.
Readable(f) == f \notin {NoFile, Torn}

\* What a write of blob b can leave behind when it is cut short.
Part(b) == {Torn} \cup IF Readable(b) THEN {[b EXCEPT !.data = Cut]} ELSE {}

\* rename(tmp, live): an open file goes with its name, and the file that was
\* live has no name any more.
Renamed(fd) == CASE fd = "tmp" -> "live" [] fd = "live" -> "gone" [] OTHER -> fd
RenameTmp ==
  /\ live' = tmp
  /\ tmp' = NoFile

\* write_all into the file that is open as fd.
WriteTo(fd, c) ==
  /\ live' = IF fd = "live" THEN c ELSE live
  /\ tmp'  = IF fd = "tmp" THEN c ELSE tmp

\* Variant: prune_backups keeps the oldest versions.
OldestKept(B) ==
  [v \in Versions |->
     IF B[v] # NoFile /\ Cardinality({w \in Versions : B[w] # NoFile /\ w < v}) < Retention
       THEN B[v] ELSE NoFile]

\* prune_backups
Pruned(B) ==
  [v \in Versions |->
     IF B[v] # NoFile /\ Cardinality({w \in Versions : B[w] # NoFile /\ w > v}) < Retention
       THEN B[v] ELSE NoFile]

-----------------------------------------------------------------------------
(* The server                                                              *)

Version(f) == IF Readable(f) THEN f.ver ELSE 0

\* The blob that the push being handled will store.
New == [ver |-> req.expected + 1, owner |-> req.secret, data |-> req.data]

\* Variant of push's checks: any version at least as new will do.
NotOlder(r) ==
  IF Readable(live) /\ live.owner # r.secret THEN R!Unauthorized
  ELSE IF r.expected < Version(live) THEN R!Conflict(Version(live))
  ELSE R!NoReply

\* FileSyncServer::push up to write_blob: why it refuses r, if it does.
Refusal(r) ==
  IF Readable(live) /\ live.owner # r.secret THEN R!Unauthorized
  ELSE IF r.expected # Version(live) THEN R!Conflict(Version(live))
  ELSE R!NoReply

\* A PUT request arrives.
Push(r) ==
  /\ srv = "idle"
  /\ r.expected < MaxVersion
  /\ IF Refusal(r) = R!NoReply
       THEN srv' = "backup" /\ req' = r /\ UNCHANGED reply
       ELSE reply' = Refusal(r) /\ UNCHANGED <<srv, req>>
  /\ UNCHANGED <<fileVars, copy, srvFd, opVars, past, boundVars>>

\* A GET request arrives: FileSyncServer::pull
Pull(r) ==
  /\ srv = "idle"
  /\ reply' = IF ~Readable(live) THEN R!NotFound
              ELSE IF live.owner # r.secret THEN R!Unauthorized
              ELSE R!Got(live)
  /\ UNCHANGED <<fileVars, srvVars, opVars, past, boundVars>>

\* backup_current_blob: nothing to back up, or the live file is read and
\* fs::write opens the backup file and empties it.
OpenBackup ==
  /\ srv = "backup"
  /\ IF Readable(live)
       THEN /\ srv' = "backing"
            /\ copy' = live
            /\ backups' = [backups EXCEPT ![live.ver] = Torn]
       ELSE srv' = "open" /\ UNCHANGED <<copy, backups>>
  /\ UNCHANGED <<live, tmp, req, srvFd, opVars, reply, past, boundVars>>

\* The backup is written, and prune_backups runs.
WriteBackup ==
  /\ srv = "backing"
  /\ backups' = Pruned([backups EXCEPT ![copy.ver] = copy])
  /\ srv' = "open"
  /\ UNCHANGED <<live, tmp, req, copy, srvFd, opVars, reply, past, boundVars>>

\* Variant: write_blob writes the live file in place.
OpenLive ==
  /\ srv = "open"
  /\ live' = Torn
  /\ srvFd' = "live"
  /\ srv' = "write"
  /\ UNCHANGED <<tmp, backups, req, copy, opVars, reply, past, boundVars>>

\* write_blob: fs::write opens the temporary file and empties it ...
OpenTmp ==
  /\ srv = "open"
  /\ tmp' = Torn
  /\ srvFd' = "tmp"
  /\ srv' = "write"
  /\ UNCHANGED <<live, backups, req, copy, opVars, reply, past, boundVars>>

\* ... writes it and closes it ...
WriteTmp ==
  /\ srv = "write"
  /\ WriteTo(srvFd, New)
  /\ srvFd' = "none"
  /\ srv' = "rename"
  /\ UNCHANGED <<backups, req, copy, opVars, reply, past, boundVars>>

\* ... and renames it.
Rename ==
  /\ srv = "rename"
  /\ IF tmp = NoFile
       THEN /\ reply' = R!Failure
            /\ srv' = "idle" /\ req' = NoRequest
            /\ UNCHANGED <<live, tmp, opFd, past>>
       ELSE /\ RenameTmp
            /\ opFd' = Renamed(opFd)
            /\ past' = past \cup {New}
            /\ srv' = "done"
            /\ UNCHANGED <<reply, req>>
  /\ UNCHANGED <<backups, copy, srvFd, op, opBlob, boundVars>>

\* push returns the new version, and main responds.
Respond ==
  /\ srv = "done"
  /\ reply' = R!Ok(New.ver)
  /\ srv' = "idle" /\ req' = NoRequest
  /\ UNCHANGED <<fileVars, copy, srvFd, opVars, past, boundVars>>

\* A write of the backup or of the temporary file fails half way: push returns
\* SyncError::Transport, and what was written stays.
WriteFails ==
  /\ \/ /\ srv = "backing"
        /\ \E c \in Part(copy) : backups' = [backups EXCEPT ![copy.ver] = c]
        /\ UNCHANGED <<live, tmp>>
     \/ /\ srv = "write"
        /\ \E c \in Part(New) : WriteTo(srvFd, c)
        /\ UNCHANGED backups
  /\ reply' = R!Failure
  /\ srv' = "idle"
  /\ req' = NoRequest
  /\ srvFd' = "none"
  /\ UNCHANGED <<copy, opVars, past, boundVars>>

\* The server dies at work, an open file holding any part of what was written.
Die ==
  /\ srv \notin {"down", "idle"}
  /\ deaths < MaxDeaths
  /\ deaths' = deaths + 1
  /\ \/ UNCHANGED fileVars
     \/ /\ srv = "backing"
        /\ \E c \in Part(copy) : backups' = [backups EXCEPT ![copy.ver] = c]
        /\ UNCHANGED <<live, tmp>>
     \/ /\ srv = "write"
        /\ \E c \in Part(New) : WriteTo(srvFd, c)
        /\ UNCHANGED backups
  /\ srv' = "down"
  /\ req' = NoRequest
  /\ srvFd' = "none"
  /\ UNCHANGED <<copy, opVars, reply, past, restores>>

\* The operator stops and starts it.
Stop ==
  /\ srv = "idle"
  /\ srv' = "down"
  /\ UNCHANGED <<fileVars, req, copy, srvFd, opVars, reply, past, boundVars>>
Start ==
  /\ srv = "down"
  /\ OperatorWaits => op = "idle"
  /\ srv' = "idle"
  /\ UNCHANGED <<fileVars, req, copy, srvFd, opVars, reply, past, boundVars>>

-----------------------------------------------------------------------------
(* sync-server --restore <account> <version>                               *)

\* restore_backup reads the backup ...
RestoreRead(v) ==
  /\ op = "idle"
  /\ restores < MaxRestores
  /\ backups[v] # NoFile
  /\ OperatorWaits => srv = "down" /\ v < Version(live)
  /\ restores' = restores + 1
  /\ op' = "open"
  /\ opBlob' = backups[v]
  /\ UNCHANGED <<fileVars, srvVars, opFd, reply, past, deaths>>

\* ... opens the temporary file and empties it ...
RestoreOpen ==
  /\ op = "open"
  /\ tmp' = Torn
  /\ opFd' = "tmp"
  /\ op' = "write"
  /\ UNCHANGED <<live, backups, srvVars, opBlob, reply, past, boundVars>>

\* ... writes it, if need be only in part ...
RestoreWrite ==
  /\ op = "write"
  /\ \/ WriteTo(opFd, opBlob) /\ op' = "rename"
     \/ \E c \in Part(opBlob) : WriteTo(opFd, c) /\ op' = "idle"
  /\ opFd' = "none"
  /\ UNCHANGED <<backups, srvVars, opBlob, reply, past, boundVars>>

\* ... and renames it, unless it is gone.
RestoreRename ==
  /\ op = "rename"
  /\ IF tmp = NoFile
       THEN UNCHANGED <<live, tmp, srvFd>>
       ELSE /\ RenameTmp
            /\ srvFd' = Renamed(srvFd)
  /\ op' = "idle"
  /\ UNCHANGED <<backups, srv, req, copy, opBlob, opFd, reply, past, boundVars>>

-----------------------------------------------------------------------------
Init ==
  /\ live = NoFile /\ tmp = NoFile
  /\ backups = [v \in Versions |-> NoFile]
  /\ srv = "idle" /\ req = NoRequest /\ copy = NoFile /\ srvFd = "none"
  /\ op = "idle" /\ opBlob = NoFile /\ opFd = "none"
  /\ reply = R!NoReply
  /\ past = {}
  /\ deaths = 0 /\ restores = 0

Server ==
  \/ \E r \in PushRequest : Push(r)
  \/ \E r \in PullRequest : Pull(r)
  \/ OpenBackup \/ WriteBackup \/ OpenTmp \/ WriteTmp \/ Rename \/ Respond
  \/ WriteFails \/ Die \/ Stop \/ Start

Operator ==
  \/ \E v \in Versions : RestoreRead(v)
  \/ RestoreOpen \/ RestoreWrite \/ RestoreRename

Next == Server \/ Operator

Spec == Init /\ [][Next]_vars

-----------------------------------------------------------------------------
(* Properties                                                              *)

\* A crash or a failed write never leaves a half-written blob in the live
\* file's place, and an account that was once pushed never disappears: read_blob
\* would take either for "no account".
LiveIsWhole ==
  /\ live \in Blob \cup {NoFile}
  /\ past # {} => live # NoFile

\* As long as the operator restores nothing, the last Retention - 1 versions that
\* pushes have superseded stay among the backups, whole, whatever crashes and
\* whatever write fails -- a push that fails after its backup has already pruned
\* the last of Retention (backup_current_blob, prune_backups).
SupersededIsKept ==
  restores = 0 =>
    \A b \in past :
      b.ver < Version(live) /\ b.ver > Version(live) - Retention => backups[b.ver] = b

\* The files of an account behave like a versioned register: a push takes effect
\* at one instant or not at all, and every answer is true when it is given.
ImplementsRegister == R!Spec
=============================================================================
