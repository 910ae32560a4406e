-------------------------- MODULE SyncServerProofs --------------------------
(***************************************************************************)
(* Theorems about SyncServer, for every set of secrets and ciphertexts,    *)
(* every Retention and every bound: type correctness; that the live file   *)
(* is whole, provided that restores are made while the server is down;     *)
(* that superseded versions are kept; and that the files implement         *)
(* SyncRegister. At the end, about Gate, for any addresses, accounts and    *)
(* limits: no spacing of requests gets more through than the limits say.    *)
(***************************************************************************)
EXTENDS SyncServer, Gate, FiniteSetTheorems, TLAPS

-----------------------------------------------------------------------------
(* The inductive invariant                                                 *)

Working == srv \notin {"down", "idle"}
Storing == srv \in {"open", "write", "rename"}

\* What is being handled is a push within the bound, and what is being backed
\* up can be read.
TInv ==
  /\ TypeOK
  /\ Working => req \in PushRequest /\ req.expected < MaxVersion
  /\ srv = "backing" => copy \in Blob \cup CutBlob

\* Nobody writes the files beside the server: the operator waits, or has
\* restored nothing yet.
Alone == OperatorWaits \/ restores = 0

OneWriter ==
  /\ op # "idle" => srv = "down" /\ restores # 0
  /\ srvFd = IF srv = "write" THEN "tmp" ELSE "none"
  /\ opFd = IF op = "write" THEN "tmp" ELSE "none"

\* What push checked is still true until its blob is live, and the files it has
\* written are still there.
StillAccepted ==
  /\ Working /\ srv # "done" =>
       /\ req.expected = Version(live)
       /\ live # NoFile => live.owner = req.secret
  /\ srv = "backing" => copy = live /\ live # NoFile
  /\ srv = "rename" => tmp = New
  /\ srv = "done" => live = New

\* The operator goes back to a blob that was live once.
GoesBack ==
  /\ op # "idle" => opBlob \in past /\ opBlob.ver < Version(live)
  /\ op = "rename" => tmp = opBlob

LiveInPast ==
  /\ live \in past \cup {NoFile}
  /\ past # {} => live # NoFile

\* Only the backup of the live version may be cut short, and not once the push
\* has gone on to store its own.
OldBackupsWhole ==
  \A v \in Versions :
    v < Version(live) \/ (Storing /\ v = Version(live)) =>
      \/ backups[v] = NoFile
      \/ backups[v] \in past /\ backups[v].ver = v

WInv == OneWriter /\ StillAccepted /\ GoesBack /\ LiveInPast /\ OldBackupsWhole

\* Before the first restore versions only go up, and the last ones are kept.
OnlyUp ==
  /\ \A b \in past : b.ver <= Version(live) /\ (b.ver = Version(live) => b = live)
  /\ \A v \in Versions : backups[v] # NoFile => v <= Version(live)
Kept ==
  \A b \in past :
    /\ b.ver < Version(live) \/ Storing
    /\ b.ver > Version(live) - Retention
    => backups[b.ver] = b

KInv == restores = 0 => (OnlyUp /\ Kept)

IInv == TInv /\ (Alone => (WInv /\ KInv))
-----------------------------------------------------------------------------
(* Files and versions                                                      *)

\* Reading the version of a file that can be read.
LEMMA VersionOfFile ==
  ASSUME NEW f \in File
  PROVE  /\ Version(f) \in 0 .. MaxVersion
         /\ Readable(f) => f \in Blob \cup CutBlob /\ f.ver \in Versions /\ f.owner \in Secrets
         /\ Readable(f) => Version(f) = f.ver
         /\ ~Readable(f) => Version(f) = 0
  BY BoundsAssumption DEF File, Blob, CutBlob, Version, Readable, Versions

\* A whole blob can be read.
LEMMA BlobIsReadable ==
  ASSUME NEW b \in Blob
  PROVE  /\ b \in File /\ b # NoFile /\ Readable(b)
         /\ b.ver \in Versions /\ Version(b) = b.ver
  BY FileAssumption DEF File, Blob, Readable, Version

\* A write that is cut short leaves a file.
LEMMA PartIsFile ==
  ASSUME NEW b \in File, NEW c \in Part(b)
  PROVE  c \in File
<1>1. CASE c = Torn
  BY <1>1 DEF File
<1>2. CASE Readable(b) /\ c = [b EXCEPT !.data = Cut]
  <2>1. b \in Blob \cup CutBlob
    BY <1>2, VersionOfFile
  <2>2. c \in CutBlob
    BY <1>2, <2>1 DEF Blob, CutBlob
  <2> QED BY <2>2 DEF File
<1> QED BY <1>1, <1>2 DEF Part

\* The blob of a push within the bound is whole.
LEMMA NewIsBlob ==
  ASSUME req \in PushRequest, req.expected < MaxVersion
  PROVE  /\ New \in Blob
         /\ New.ver = req.expected + 1 /\ New.owner = req.secret /\ New.data = req.data
  BY BoundsAssumption DEF PushRequest, New, Blob, Versions

\* Writing keeps both files files.
LEMMA WriteToKeepsFiles ==
  ASSUME live \in File, tmp \in File, NEW fd, NEW c \in File, WriteTo(fd, c)
  PROVE  live' \in File /\ tmp' \in File
  BY DEF WriteTo

\* So does the rename of one to the other.
LEMMA RenameKeepsFiles ==
  ASSUME tmp \in File, RenameTmp
  PROVE  live' \in File /\ tmp' \in File
  BY DEF RenameTmp, File

LEMMA RenamedIsFd == ASSUME NEW fd \in Fds PROVE Renamed(fd) \in Fds
  BY DEF Fds, Renamed

\* And pruning.
LEMMA PrunedIsFiles ==
  ASSUME NEW B \in [Versions -> File]
  PROVE  Pruned(B) \in [Versions -> File]
  BY DEF Pruned, File

LEMMA SpecialFiles == NoFile \in File /\ Torn \in File
  BY DEF File

-----------------------------------------------------------------------------
(* Type correctness                                                        *)

Answers == {R!NoReply, R!Failure, R!Unauthorized, R!NotFound}
             \cup {R!Ok(v) : v \in Versions}
             \cup {R!Conflict(v) : v \in 0 .. MaxVersion}
             \cup {R!Got(b) : b \in Blob \cup CutBlob}

FilesOK == live \in File /\ tmp \in File /\ backups \in [Versions -> File]
SrvOK   == srv \in SrvStates /\ srvFd \in Fds /\ copy \in File
OpOK    == op \in OpStates /\ opFd \in Fds /\ opBlob \in File
ReqOK   == /\ req \in PushRequest \cup PullRequest \cup {NoRequest}
           /\ Working => req \in PushRequest /\ req.expected < MaxVersion
           /\ srv = "backing" => copy \in Blob \cup CutBlob
ReplyOK == reply \in Answers
RestOK  == /\ past \subseteq Blob
           /\ deaths \in 0 .. MaxDeaths /\ restores \in 0 .. MaxRestores

LEMMA TInvParts == TInv <=> FilesOK /\ SrvOK /\ OpOK /\ ReqOK /\ ReplyOK /\ RestOK
  BY DEF TInv, TypeOK, FilesOK, SrvOK, OpOK, ReqOK, ReplyOK, RestOK, Answers

LEMMA TInvPartsNext ==
  TInv' <=> FilesOK' /\ SrvOK' /\ OpOK' /\ ReqOK' /\ ReplyOK' /\ RestOK'
  BY TInvParts, PTL

LEMMA InitTInv == Init => TInv
<1> SUFFICES ASSUME Init PROVE TInv
  OBVIOUS
<1> USE DEF Init
<1>1. FilesOK /\ SrvOK /\ OpOK
  BY SpecialFiles DEF FilesOK, SrvOK, OpOK, SrvStates, OpStates, Fds
<1>2. ReqOK /\ ReplyOK
  BY DEF ReqOK, ReplyOK, Answers, Working
<1>3. RestOK
  BY BoundsAssumption DEF RestOK
<1> QED BY <1>1, <1>2, <1>3, TInvParts

\* A push is refused, or its files begin to be written.
LEMMA PushTInv == ASSUME TInv, NEW r \in PushRequest, Push(r) PROVE TInv'
<1> USE TInvParts DEF Push
<1>1. FilesOK' /\ OpOK' /\ RestOK'
  BY DEF FilesOK, OpOK, RestOK, fileVars, opVars, boundVars
<1>2. SrvOK' /\ ReqOK'
  BY DEF SrvOK, SrvStates, ReqOK, Working
<1>3. Version(live) \in 0 .. MaxVersion
  BY VersionOfFile DEF FilesOK
<1>4. Refusal(r) \in {R!NoReply, R!Unauthorized, R!Conflict(Version(live))}
  BY DEF Refusal
<1>5. ReplyOK'
  BY <1>3, <1>4 DEF ReplyOK, Answers
<1> QED BY <1>1, <1>2, <1>5, TInvPartsNext

LEMMA PullTInv == ASSUME TInv, NEW r \in PullRequest, Pull(r) PROVE TInv'
<1> USE TInvParts DEF Pull
<1>1. FilesOK' /\ OpOK' /\ RestOK' /\ SrvOK' /\ ReqOK'
  BY DEF FilesOK, OpOK, RestOK, SrvOK, ReqOK, Working, fileVars, opVars, boundVars, srvVars
<1>2. Readable(live) => live \in Blob \cup CutBlob
  BY VersionOfFile DEF FilesOK
<1>3. ReplyOK'
  BY <1>2 DEF ReplyOK, Answers
<1> QED BY <1>1, <1>3, TInvPartsNext

LEMMA BackupTInv == ASSUME TInv, OpenBackup \/ WriteBackup PROVE TInv'
<1> USE TInvParts
<1>1. CASE OpenBackup
  <2> USE <1>1 DEF OpenBackup
  <2>1. Readable(live) => live \in Blob \cup CutBlob /\ live.ver \in Versions
    BY VersionOfFile DEF FilesOK
  <2>2. FilesOK'
    BY <2>1, SpecialFiles DEF FilesOK
  <2>3. SrvOK'
    BY DEF SrvOK, SrvStates, FilesOK
  <2>4. ReqOK'
    BY <2>1 DEF ReqOK, Working
  <2>5. OpOK' /\ ReplyOK' /\ RestOK'
    BY DEF OpOK, ReplyOK, RestOK, opVars, boundVars, Answers
  <2> QED BY <2>2, <2>3, <2>4, <2>5, TInvPartsNext
<1>2. CASE WriteBackup
  <2> USE <1>2 DEF WriteBackup
  <2>1. [backups EXCEPT ![copy.ver] = copy] \in [Versions -> File]
    BY DEF FilesOK, SrvOK
  <2>2. FilesOK'
    BY <2>1, PrunedIsFiles DEF FilesOK
  <2>3. SrvOK' /\ ReqOK'
    BY DEF SrvOK, SrvStates, ReqOK, Working
  <2>4. OpOK' /\ ReplyOK' /\ RestOK'
    BY DEF OpOK, ReplyOK, RestOK, opVars, boundVars, Answers
  <2> QED BY <2>2, <2>3, <2>4, TInvPartsNext
<1> QED BY <1>1, <1>2

LEMMA StoreTInv == ASSUME TInv, OpenTmp \/ WriteTmp \/ Rename \/ Respond PROVE TInv'
<1> USE TInvParts
<1>1. Working => New \in Blob /\ New \in File /\ New.ver \in Versions
  BY NewIsBlob, BlobIsReadable DEF ReqOK
<1>2. CASE OpenTmp
  <2> USE <1>2 DEF OpenTmp
  <2>1. FilesOK' /\ SrvOK' /\ ReqOK'
    BY SpecialFiles DEF FilesOK, SrvOK, SrvStates, Fds, ReqOK, Working
  <2>2. OpOK' /\ ReplyOK' /\ RestOK'
    BY DEF OpOK, ReplyOK, RestOK, opVars, boundVars, Answers
  <2> QED BY <2>1, <2>2, TInvPartsNext
<1>3. CASE WriteTmp
  <2> USE <1>3 DEF WriteTmp
  <2>1. FilesOK'
    BY <1>1, WriteToKeepsFiles DEF FilesOK, Working
  <2>2. SrvOK' /\ ReqOK'
    BY DEF SrvOK, SrvStates, Fds, ReqOK, Working
  <2>3. OpOK' /\ ReplyOK' /\ RestOK'
    BY DEF OpOK, ReplyOK, RestOK, opVars, boundVars, Answers
  <2> QED BY <2>1, <2>2, <2>3, TInvPartsNext
<1>4. CASE Rename
  <2> USE <1>4 DEF Rename
  <2>1. FilesOK'
    BY RenameKeepsFiles DEF FilesOK
  <2>2. SrvOK' /\ ReqOK'
    BY DEF SrvOK, SrvStates, ReqOK, Working
  <2>3. OpOK'
    BY RenamedIsFd DEF OpOK
  <2>4. RestOK' /\ ReplyOK'
    BY <1>1 DEF RestOK, boundVars, ReplyOK, Answers, Working
  <2> QED BY <2>1, <2>2, <2>3, <2>4, TInvPartsNext
<1>5. CASE Respond
  <2> USE <1>5 DEF Respond
  <2>1. FilesOK' /\ OpOK' /\ RestOK'
    BY DEF FilesOK, OpOK, RestOK, fileVars, opVars, boundVars
  <2>2. SrvOK' /\ ReqOK'
    BY DEF SrvOK, SrvStates, ReqOK, Working
  <2>3. ReplyOK'
    BY <1>1 DEF ReplyOK, Answers, Working
  <2> QED BY <2>1, <2>2, <2>3, TInvPartsNext
<1> QED BY <1>2, <1>3, <1>4, <1>5

\* What a failed write or a death leaves on the disk.
LEMMA HalfWrittenIsFiles ==
  ASSUME TInv, Working,
         \/ UNCHANGED fileVars
         \/ /\ srv = "backing"
            /\ \E c \in Part(copy) : backups' = [backups EXCEPT ![copy.ver] = c]
            /\ UNCHANGED <<live, tmp>>
         \/ /\ srv = "write"
            /\ \E c \in Part(New) : WriteTo(srvFd, c)
            /\ UNCHANGED backups
  PROVE  FilesOK'
<1> USE TInvParts
<1>1. CASE UNCHANGED fileVars
  BY <1>1 DEF fileVars, FilesOK
<1>2. ASSUME NEW c \in Part(copy), backups' = [backups EXCEPT ![copy.ver] = c],
             UNCHANGED <<live, tmp>>
      PROVE  FilesOK'
  <2>1. c \in File
    BY PartIsFile DEF SrvOK
  <2> QED BY <1>2, <2>1 DEF FilesOK
<1>3. ASSUME NEW c \in Part(New), WriteTo(srvFd, c), UNCHANGED backups
      PROVE  FilesOK'
  <2>1. New \in File
    BY NewIsBlob, BlobIsReadable DEF ReqOK
  <2>2. c \in File
    BY <2>1, PartIsFile
  <2> QED BY <1>3, <2>2, WriteToKeepsFiles DEF FilesOK
<1> QED BY <1>1, <1>2, <1>3

LEMMA FailTInv == ASSUME TInv, WriteFails \/ Die PROVE TInv'
<1> USE TInvParts
<1>1. CASE WriteFails
  <2> USE <1>1 DEF WriteFails
  <2>1. FilesOK'
    BY HalfWrittenIsFiles DEF Working
  <2>2. SrvOK' /\ ReqOK'
    BY DEF SrvOK, SrvStates, Fds, ReqOK, Working
  <2>3. OpOK' /\ ReplyOK' /\ RestOK'
    BY DEF OpOK, ReplyOK, RestOK, opVars, boundVars, Answers
  <2> QED BY <2>1, <2>2, <2>3, TInvPartsNext
<1>2. CASE Die
  <2> USE <1>2 DEF Die
  <2>1. FilesOK'
    BY HalfWrittenIsFiles DEF Working
  <2>2. SrvOK' /\ ReqOK'
    BY DEF SrvOK, SrvStates, Fds, ReqOK, Working
  <2>3. OpOK' /\ ReplyOK'
    BY DEF OpOK, ReplyOK, opVars, Answers
  <2>4. RestOK'
    BY BoundsAssumption DEF RestOK
  <2> QED BY <2>1, <2>2, <2>3, <2>4, TInvPartsNext
<1> QED BY <1>1, <1>2

LEMMA StopStartTInv == ASSUME TInv, Stop \/ Start PROVE TInv'
<1> USE TInvParts DEF Stop, Start
<1>1. FilesOK' /\ OpOK' /\ ReplyOK' /\ RestOK'
  BY DEF FilesOK, OpOK, ReplyOK, RestOK, fileVars, opVars, boundVars, Answers
<1>2. SrvOK' /\ ReqOK'
  BY DEF SrvOK, SrvStates, ReqOK, Working
<1> QED BY <1>1, <1>2, TInvPartsNext

LEMMA OperatorTInv == ASSUME TInv, Operator PROVE TInv'
<1> USE TInvParts
<1>1. ASSUME NEW v \in Versions, RestoreRead(v) PROVE TInv'
  <2> USE <1>1 DEF RestoreRead
  <2>1. FilesOK' /\ ReplyOK' /\ SrvOK' /\ ReqOK'
    BY DEF FilesOK, ReplyOK, SrvOK, ReqOK, Working, fileVars, srvVars, Answers
  <2>2. OpOK'
    BY DEF OpOK, OpStates, FilesOK
  <2>3. RestOK'
    BY BoundsAssumption DEF RestOK
  <2> QED BY <2>1, <2>2, <2>3, TInvPartsNext
<1>2. CASE RestoreOpen
  <2> USE <1>2 DEF RestoreOpen
  <2>1. FilesOK' /\ OpOK'
    BY SpecialFiles DEF FilesOK, OpOK, OpStates, Fds
  <2>2. SrvOK' /\ ReqOK' /\ ReplyOK' /\ RestOK'
    BY DEF SrvOK, ReqOK, Working, ReplyOK, RestOK, srvVars, boundVars, Answers
  <2> QED BY <2>1, <2>2, TInvPartsNext
<1>3. CASE RestoreWrite
  <2> USE <1>3 DEF RestoreWrite
  <2>1. PICK c \in File : WriteTo(opFd, c)
    BY PartIsFile DEF OpOK
  <2>2. FilesOK'
    BY <2>1, WriteToKeepsFiles DEF FilesOK
  <2>3. OpOK'
    BY DEF OpOK, OpStates, Fds
  <2>4. SrvOK' /\ ReqOK' /\ ReplyOK' /\ RestOK'
    BY DEF SrvOK, ReqOK, Working, ReplyOK, RestOK, srvVars, boundVars, Answers
  <2> QED BY <2>2, <2>3, <2>4, TInvPartsNext
<1>4. CASE RestoreRename
  <2> USE <1>4 DEF RestoreRename
  <2>1. FilesOK'
    BY RenameKeepsFiles DEF FilesOK
  <2>2. SrvOK'
    BY RenamedIsFd DEF SrvOK
  <2>3. OpOK'
    BY DEF OpOK, OpStates
  <2>4. ReqOK' /\ ReplyOK' /\ RestOK'
    BY DEF ReqOK, Working, ReplyOK, RestOK, boundVars, Answers
  <2> QED BY <2>1, <2>2, <2>3, <2>4, TInvPartsNext
<1> QED BY <1>1, <1>2, <1>3, <1>4 DEF Operator

LEMMA StutterTInv == ASSUME TInv, UNCHANGED vars PROVE TInv'
<1> USE TInvParts
<1>1. FilesOK' /\ SrvOK' /\ OpOK' /\ ReqOK' /\ ReplyOK' /\ RestOK'
  BY DEF FilesOK, SrvOK, OpOK, ReqOK, ReplyOK, RestOK, Working, Answers,
         vars, fileVars, srvVars, opVars, boundVars
<1> QED BY <1>1, TInvPartsNext

LEMMA NextTInv == ASSUME TInv, [Next]_vars PROVE TInv'
<1>1. CASE Server
  BY <1>1, PushTInv, PullTInv, BackupTInv, StoreTInv, FailTInv, StopStartTInv DEF Server
<1>2. CASE Operator
  BY <1>2, OperatorTInv
<1>3. CASE UNCHANGED vars
  BY <1>3, StutterTInv
<1> QED BY <1>1, <1>2, <1>3 DEF Next

\* Every variable of the account's files, of the server and of the restore
\* command keeps its type.
THEOREM TypeCorrect == Spec => []TypeOK
<1>1. Spec => []TInv
  BY InitTInv, NextTInv, PTL DEF Spec
<1>2. TInv => TypeOK
  BY DEF TInv
<1> QED BY <1>1, <1>2, PTL

-----------------------------------------------------------------------------
(* The live file and the backups                                           *)

\* What is live can be read, unless there is no account yet.
LEMMA LiveIsReadable ==
  ASSUME TInv, LiveInPast
  PROVE  /\ live \in Blob \cup {NoFile}
         /\ Readable(live) <=> live # NoFile
         /\ live # NoFile => live \in Blob /\ live.ver \in Versions /\ Version(live) = live.ver
         /\ live = NoFile => Version(live) = 0
         /\ Version(live) \in 0 .. MaxVersion
<1>1. past \subseteq Blob
  BY DEF TInv, TypeOK
<1>2. live \in Blob \cup {NoFile}
  BY <1>1 DEF LiveInPast
<1>3. NoFile \in File /\ ~Readable(NoFile)
  BY SpecialFiles DEF Readable
<1> QED BY <1>2, <1>3, BlobIsReadable, VersionOfFile

\* Alone is not regained, and nobody restores while the server is up.
LEMMA AloneBefore == ASSUME TInv, [Next]_vars, Alone' PROVE Alone
<1> SUFFICES ASSUME restores # 0 PROVE restores' # 0
  BY DEF Alone
<1>1. restores \in Nat
  BY BoundsAssumption DEF TInv, TypeOK
<1> QED BY <1>1 DEF Next, Server, Operator, Push, Pull, OpenBackup, WriteBackup, OpenTmp,
          WriteTmp, Rename, Respond, WriteFails, Die, Stop, Start, RestoreRead, RestoreOpen,
          RestoreWrite, RestoreRename, vars, boundVars

LEMMA InitWInv == Init => WInv /\ KInv
<1> SUFFICES ASSUME Init PROVE WInv /\ KInv
  OBVIOUS
<1> USE DEF Init
<1>1. OneWriter /\ StillAccepted /\ GoesBack /\ LiveInPast
  BY DEF OneWriter, StillAccepted, GoesBack, LiveInPast, Working
<1>2. OldBackupsWhole /\ KInv
  BY DEF OldBackupsWhole, KInv, OnlyUp, Kept
<1> QED BY <1>1, <1>2 DEF WInv

LEMMA PushWInv == ASSUME TInv, WInv, NEW r \in PushRequest, Push(r) PROVE WInv'
<1> USE DEF Push, WInv, fileVars, opVars, boundVars
<1>1. OneWriter' /\ GoesBack' /\ LiveInPast'
  BY DEF OneWriter, GoesBack, LiveInPast
<1>2. StillAccepted'
  <2>1. CASE Refusal(r) = R!NoReply
    <3>1. r.expected = Version(live) /\ (Readable(live) => live.owner = r.secret)
      BY <2>1 DEF Refusal, R!NoReply, R!Unauthorized, R!Conflict
    <3> QED BY <2>1, <3>1, LiveIsReadable DEF StillAccepted, Working
  <2>2. CASE Refusal(r) # R!NoReply
    BY <2>2 DEF StillAccepted, Working
  <2> QED BY <2>1, <2>2
<1>3. OldBackupsWhole'
  BY DEF OldBackupsWhole, Storing
<1> QED BY <1>1, <1>2, <1>3

\* Steps that neither write a file nor go on with a push.
LEMMA IdleWInv ==
  ASSUME TInv, WInv, Alone,
         (\E r \in PullRequest : Pull(r)) \/ Stop \/ Start \/ UNCHANGED vars
  PROVE  WInv'
<1> USE DEF WInv, Pull, Stop, Start, vars, fileVars, srvVars, opVars, boundVars
<1>1. /\ live' = live /\ tmp' = tmp /\ req' = req /\ copy' = copy /\ New' = New
      /\ srv' # srv => srv' \in {"down", "idle"}
  BY DEF New
<1>2. StillAccepted'
  BY <1>1 DEF StillAccepted, Working
<1>3. OneWriter'
  BY DEF OneWriter, Alone
<1>4. GoesBack' /\ LiveInPast' /\ OldBackupsWhole'
  BY DEF GoesBack, LiveInPast, OldBackupsWhole, Storing
<1> QED BY <1>2, <1>3, <1>4

LEMMA OpenBackupWInv == ASSUME TInv, WInv, OpenBackup PROVE WInv'
<1> USE DEF OpenBackup, WInv, opVars, boundVars
<1>1. OneWriter' /\ GoesBack' /\ LiveInPast'
  BY DEF OneWriter, GoesBack, LiveInPast
<1>2. StillAccepted'
  BY LiveIsReadable DEF StillAccepted, Working
<1>3. OldBackupsWhole'
  <2>1. CASE live = NoFile
    BY <2>1, LiveIsReadable DEF OldBackupsWhole, Storing, Versions
  <2>2. CASE live # NoFile
    <3>1. backups' = [backups EXCEPT ![live.ver] = Torn] /\ live.ver = Version(live)
      BY <2>2, LiveIsReadable
    <3>2. DOMAIN backups = Versions /\ srv' = "backing" /\ live' = live /\ past' = past
      BY <2>2, LiveIsReadable DEF TInv, TypeOK
    <3>3. Version(live) \in Int
      BY LiveIsReadable
    <3>4. ASSUME NEW v \in Versions, v < Version(live) PROVE backups'[v] = backups[v]
      BY <3>1, <3>2, <3>3, <3>4 DEF Versions
    <3> QED BY <3>2, <3>4 DEF OldBackupsWhole, Storing
  <2> QED BY <2>1, <2>2
<1> QED BY <1>1, <1>2, <1>3

LEMMA WriteBackupWInv == ASSUME TInv, WInv, WriteBackup PROVE WInv'
<1> USE DEF WriteBackup, WInv, opVars, boundVars
<1>1. OneWriter' /\ GoesBack' /\ LiveInPast'
  BY DEF OneWriter, GoesBack, LiveInPast
<1>2. StillAccepted'
  BY DEF StillAccepted, Working
<1>3. copy = live /\ live \in Blob /\ live \in past /\ live.ver = Version(live)
  BY LiveIsReadable DEF StillAccepted, LiveInPast
<1>4. ASSUME NEW v \in Versions, v < Version(live) \/ v = Version(live)
      PROVE  backups'[v] = NoFile \/ (backups'[v] \in past /\ backups'[v].ver = v)
  <2> DEFINE B == [backups EXCEPT ![copy.ver] = copy]
  <2>1. B[v] = NoFile \/ (B[v] \in past /\ B[v].ver = v)
    BY <1>3, <1>4 DEF OldBackupsWhole, TInv, TypeOK
  <2>2. backups'[v] = B[v] \/ backups'[v] = NoFile
    BY DEF Pruned
  <2> QED BY <2>1, <2>2
<1>5. OldBackupsWhole'
  BY <1>4 DEF OldBackupsWhole, Storing
<1> QED BY <1>1, <1>2, <1>5

LEMMA StoreWInv == ASSUME TInv, WInv, OpenTmp \/ WriteTmp \/ Respond PROVE WInv'
<1> USE DEF OpenTmp, WriteTmp, Respond, WriteTo, WInv, fileVars, opVars, boundVars
<1>1. op = "idle" /\ live' = live /\ backups' = backups /\ past' = past
  BY DEF OneWriter
<1>2. OneWriter' /\ GoesBack' /\ LiveInPast'
  BY <1>1 DEF OneWriter, GoesBack, LiveInPast
<1>3. StillAccepted'
  BY <1>1 DEF StillAccepted, Working, OneWriter, New
<1>4. OldBackupsWhole'
  BY <1>1 DEF OldBackupsWhole, Storing
<1> QED BY <1>2, <1>3, <1>4

\* The pushed blob, one version up, becomes live, and what was live is old.
LEMMA RenameWInv == ASSUME TInv, WInv, Rename PROVE WInv'
<1> USE DEF Rename, WInv, boundVars
<1>1. CASE tmp = NoFile
  <2>1. OneWriter' /\ StillAccepted' /\ GoesBack' /\ LiveInPast'
    BY <1>1 DEF OneWriter, StillAccepted, Working, GoesBack, LiveInPast
  <2>2. OldBackupsWhole'
    BY <1>1 DEF OldBackupsWhole, Storing
  <2> QED BY <2>1, <2>2
<1>2. CASE tmp # NoFile
  <2>1. /\ live' = New /\ past' = past \cup {New} /\ srv' = "done"
        /\ req' = req /\ New' = New
    BY <1>2 DEF RenameTmp, StillAccepted, New
  <2>2. New \in Blob /\ Version(New) = Version(live) + 1 /\ New # NoFile
    BY NewIsBlob, BlobIsReadable DEF TInv, Working, StillAccepted
  <2>3. OneWriter' /\ GoesBack'
    BY <1>2 DEF OneWriter, GoesBack, Renamed
  <2>4. StillAccepted' /\ LiveInPast'
    BY <2>1, <2>2 DEF StillAccepted, LiveInPast, Working
  <2>5. OldBackupsWhole'
    BY <2>1, <2>2, LiveIsReadable DEF OldBackupsWhole, Storing, Versions
  <2> QED BY <2>3, <2>4, <2>5
<1> QED BY <1>1, <1>2

\* A failed write or a death leaves the live file and the older backups alone.
LEMMA FailWInv == ASSUME TInv, WInv, WriteFails \/ Die PROVE WInv'
<1> USE DEF WriteFails, Die, WInv, WriteTo, fileVars, opVars, boundVars
<1>1. live' = live /\ past' = past /\ op = "idle" /\ srv' \in {"idle", "down"}
  BY DEF OneWriter
<1>2. OneWriter' /\ GoesBack' /\ LiveInPast' /\ StillAccepted'
  BY <1>1 DEF OneWriter, GoesBack, LiveInPast, StillAccepted, Working
<1>3. ASSUME NEW v \in Versions, v < Version(live) PROVE backups'[v] = backups[v]
  <2>1. backups' = backups \/ (srv = "backing" /\ \E c : backups' = [backups EXCEPT ![copy.ver] = c])
    OBVIOUS
  <2>2. srv = "backing" => copy.ver = Version(live)
    BY LiveIsReadable DEF StillAccepted
  <2>3. srv = "backing" => copy.ver # v
    BY <1>3, <2>2, LiveIsReadable DEF Versions
  <2>4. DOMAIN backups = Versions
    BY DEF TInv, TypeOK
  <2> QED BY <2>1, <2>3, <2>4
<1>4. OldBackupsWhole'
  BY <1>1, <1>3 DEF OldBackupsWhole, Storing
<1> QED BY <1>2, <1>4

LEMMA RestoreReadWInv ==
  ASSUME TInv, WInv, Alone', NEW v \in Versions, RestoreRead(v)
  PROVE  WInv'
<1> USE DEF RestoreRead, WInv, fileVars, srvVars
<1>1. restores \in Nat /\ restores' # 0 /\ OperatorWaits
  BY BoundsAssumption DEF TInv, TypeOK, Alone
<1>2. backups[v] \in past /\ backups[v].ver = v
  BY <1>1 DEF OldBackupsWhole
<1>3. OneWriter' /\ GoesBack'
  BY <1>1, <1>2 DEF OneWriter, GoesBack
<1>4. LiveInPast' /\ StillAccepted' /\ OldBackupsWhole'
  BY DEF LiveInPast, StillAccepted, Working, New, OldBackupsWhole, Storing
<1> QED BY <1>3, <1>4

LEMMA RestoreWInv ==
  ASSUME TInv, WInv, RestoreOpen \/ RestoreWrite \/ RestoreRename
  PROVE  WInv'
<1> USE DEF RestoreOpen, RestoreWrite, RestoreRename, WInv, srvVars, boundVars
<1>1. srv = "down" /\ srv' = "down" /\ restores' = restores /\ restores # 0
      /\ backups' = backups /\ past' = past /\ opBlob' = opBlob
  BY DEF OneWriter
<1>2. StillAccepted'
  BY <1>1 DEF StillAccepted, Working
<1>3. CASE RestoreOpen \/ RestoreWrite
  <2>1. live' = live
    BY <1>3 DEF OneWriter, WriteTo
  <2>2. OneWriter' /\ LiveInPast' /\ OldBackupsWhole'
    BY <1>1, <1>3, <2>1 DEF OneWriter, LiveInPast, OldBackupsWhole, Storing
  <2>3. GoesBack'
    BY <1>1, <1>3, <2>1 DEF GoesBack, OneWriter, WriteTo
  <2> QED BY <1>2, <2>2, <2>3
<1>4. CASE RestoreRename
  <2>1. OneWriter' /\ GoesBack'
    BY <1>1, <1>4 DEF OneWriter, GoesBack, Renamed
  <2>2. CASE tmp = NoFile
    BY <1>1, <1>2, <1>4, <2>1, <2>2 DEF LiveInPast, OldBackupsWhole, Storing
  <2>3. CASE tmp # NoFile
    <3>1. live' = opBlob /\ opBlob \in past /\ opBlob.ver < Version(live)
      BY <1>4, <2>3 DEF RenameTmp, GoesBack
    <3>2. opBlob \in Blob /\ opBlob # NoFile /\ Version(opBlob) = opBlob.ver
      BY <3>1, BlobIsReadable DEF TInv, TypeOK
    <3>3. LiveInPast'
      BY <1>1, <3>1, <3>2 DEF LiveInPast
    <3>4. OldBackupsWhole'
      BY <1>1, <3>1, <3>2, LiveIsReadable, BlobIsReadable DEF OldBackupsWhole, Storing, Versions
    <3> QED BY <1>2, <2>1, <3>3, <3>4
  <2> QED BY <2>2, <2>3
<1> QED BY <1>3, <1>4

LEMMA NextWInv == ASSUME TInv, WInv, Alone', [Next]_vars PROVE WInv'
<1>0. Alone
  BY AloneBefore
<1>1. CASE Server
  BY <1>0, <1>1, PushWInv, IdleWInv, OpenBackupWInv, WriteBackupWInv, StoreWInv, RenameWInv, FailWInv
     DEF Server
<1>2. CASE Operator
  BY <1>2, RestoreReadWInv, RestoreWInv DEF Operator
<1>3. CASE UNCHANGED vars
  BY <1>0, <1>3, IdleWInv
<1> QED BY <1>1, <1>2, <1>3 DEF Next

-----------------------------------------------------------------------------
(* Superseded versions                                                     *)

\* Of the versions up to n, pruning keeps the last Retention.
LEMMA PrunedKeepsLast ==
  ASSUME NEW B \in [Versions -> File], NEW n \in Versions,
         \A v \in Versions : B[v] # NoFile => v <= n,
         NEW v \in Versions, v > n - Retention
  PROVE  Pruned(B)[v] = B[v]
<1> DEFINE Newer == {w \in Versions : B[w] # NoFile /\ w > v}
<1>1. Newer \subseteq v + 1 .. n
  BY DEF Versions
<1>2. IsFiniteSet(v + 1 .. n) /\ Cardinality(v + 1 .. n) = IF v + 1 > n THEN 0 ELSE n - v
  <2>1. v + 1 \in Int /\ n \in Int
    BY DEF Versions
  <2> QED BY <2>1, FS_Interval DEF Versions
<1>3. Cardinality(Newer) <= Cardinality(v + 1 .. n) /\ IsFiniteSet(Newer)
  BY <1>1, <1>2, FS_Subset
<1>4. Cardinality(Newer) \in Nat
  BY <1>3, FS_CardinalityType
<1>5. Cardinality(Newer) < Retention
  BY <1>2, <1>3, <1>4, RetentionAssumption DEF Versions
<1> QED BY <1>5 DEF Pruned

\* Steps that leave the live file and the backups alone and do not begin to
\* store.
LEMMA QuietKInv ==
  ASSUME KInv, live' = live, past' = past, backups' = backups,
         Storing' => Storing, restores' = 0 => restores = 0
  PROVE  KInv'
BY DEF KInv, OnlyUp, Kept

LEMMA OpenBackupKInv == ASSUME TInv, WInv, KInv, OpenBackup PROVE KInv'
<1> USE DEF OpenBackup, WInv, boundVars
<1> SUFFICES ASSUME restores = 0 PROVE OnlyUp' /\ Kept'
  BY DEF KInv
<1>1. CASE live = NoFile
  <2>1. past = {} /\ past' = past /\ live' = live /\ backups' = backups
    BY <1>1, LiveIsReadable DEF LiveInPast
  <2> QED BY <2>1 DEF KInv, OnlyUp, Kept
<1>2. CASE live # NoFile
  <2>1. /\ backups' = [backups EXCEPT ![live.ver] = Torn] /\ srv' = "backing"
        /\ live' = live /\ past' = past
        /\ live.ver = Version(live) /\ Version(live) \in Versions
    BY <1>2, LiveIsReadable
  <2>2. DOMAIN backups = Versions
    BY DEF TInv, TypeOK
  <2>3. OnlyUp'
    BY <2>1, <2>2 DEF KInv, OnlyUp, Versions
  <2>4. ASSUME NEW b \in past, b.ver < Version(live) PROVE backups'[b.ver] = backups[b.ver]
    <3>1. b.ver \in Versions
      BY BlobIsReadable DEF TInv, TypeOK
    <3> QED BY <2>1, <2>2, <2>4, <3>1 DEF Versions
  <2> QED BY <2>1, <2>3, <2>4 DEF KInv, Kept, Storing
<1> QED BY <1>1, <1>2

LEMMA WriteBackupKInv == ASSUME TInv, WInv, KInv, WriteBackup PROVE KInv'
<1> USE DEF WriteBackup, WInv, boundVars
<1> SUFFICES ASSUME restores = 0 PROVE OnlyUp' /\ Kept'
  BY DEF KInv
<1> DEFINE B == [backups EXCEPT ![copy.ver] = copy]
<1>1. copy = live /\ live # NoFile /\ live.ver = Version(live) /\ Version(live) \in Versions
  BY LiveIsReadable DEF StillAccepted
<1>2. B \in [Versions -> File] /\ live' = live /\ past' = past /\ backups' = Pruned(B)
  BY <1>1 DEF TInv, TypeOK
<1>3. \A v \in Versions : B[v] # NoFile => v <= Version(live)
  BY <1>1, <1>2 DEF KInv, OnlyUp, TInv, TypeOK, Versions
<1>4. OnlyUp'
  BY <1>2, <1>3 DEF KInv, OnlyUp, Pruned
<1>5. ASSUME NEW b \in past, b.ver > Version(live) - Retention PROVE backups'[b.ver] = b
  <2>1. b.ver \in Versions /\ b.ver <= Version(live) /\ (b.ver = Version(live) => b = live)
    BY BlobIsReadable DEF TInv, TypeOK, KInv, OnlyUp
  <2>2. B[b.ver] = b
    BY <1>1, <1>5, <2>1 DEF KInv, Kept, TInv, TypeOK, Versions
  <2> QED BY <1>1, <1>2, <1>3, <1>5, <2>1, <2>2, PrunedKeepsLast
<1> QED BY <1>2, <1>4, <1>5 DEF Kept

LEMMA RenameKInv == ASSUME TInv, WInv, KInv, Rename PROVE KInv'
<1> USE DEF Rename, WInv, boundVars
<1>1. CASE tmp = NoFile
  BY <1>1, QuietKInv DEF Storing
<1>2. CASE tmp # NoFile
  <2> SUFFICES ASSUME restores = 0 PROVE OnlyUp' /\ Kept'
    BY DEF KInv
  <2>1. /\ live' = New /\ past' = past \cup {New} /\ srv' = "done" /\ backups' = backups
        /\ Storing
    BY <1>2 DEF RenameTmp, StillAccepted, Storing
  <2>2. New \in Blob /\ Version(New) = Version(live) + 1 /\ New.ver = Version(live) + 1
    BY NewIsBlob, BlobIsReadable DEF TInv, Working, StillAccepted
  <2>3. Version(live) \in Int /\ \A b \in past : b.ver \in Int
    BY LiveIsReadable, BlobIsReadable DEF TInv, TypeOK, Versions
  <2>4. OnlyUp'
    BY <2>1, <2>2, <2>3 DEF KInv, OnlyUp, Versions
  <2>5. Kept'
    BY <2>1, <2>2, <2>3, RetentionAssumption DEF KInv, Kept, OnlyUp, Storing
  <2> QED BY <2>4, <2>5
<1> QED BY <1>1, <1>2

\* What a write that failed has spoilt is the backup of the live version.
LEMMA FailKInv == ASSUME TInv, WInv, KInv, WriteFails \/ Die PROVE KInv'
<1> USE DEF WriteFails, Die, WInv, WriteTo, fileVars, opVars, boundVars
<1> SUFFICES ASSUME restores = 0 PROVE OnlyUp' /\ Kept'
  BY DEF KInv
<1>1. live' = live /\ past' = past /\ op = "idle" /\ srv' \in {"idle", "down"}
  BY DEF OneWriter
<1>2. backups' = backups \/ (srv = "backing" /\ \E c : backups' = [backups EXCEPT ![copy.ver] = c])
  OBVIOUS
<1>3. srv = "backing" => copy.ver = Version(live) /\ Version(live) \in Versions
  BY LiveIsReadable DEF StillAccepted
<1>4. DOMAIN backups = Versions
  BY DEF TInv, TypeOK
<1>5. ASSUME NEW v \in Versions, v # Version(live) PROVE backups'[v] = backups[v]
  BY <1>2, <1>3, <1>4, <1>5
<1>6. OnlyUp'
  BY <1>1, <1>5, LiveIsReadable DEF KInv, OnlyUp, Versions
<1>7. Kept'
  <2>1. \A b \in past : b.ver \in Versions
    BY BlobIsReadable DEF TInv, TypeOK
  <2>2. Version(live) \in Int
    BY LiveIsReadable
  <2> QED BY <1>1, <1>5, <2>1, <2>2 DEF KInv, Kept, Storing, Versions
<1> QED BY <1>6, <1>7

LEMMA NextKInv == ASSUME TInv, WInv, KInv, [Next]_vars PROVE KInv'
<1>1. ASSUME (\E r \in PushRequest : Push(r)) \/ (\E r \in PullRequest : Pull(r))
             \/ OpenTmp \/ WriteTmp \/ Respond \/ Stop \/ Start \/ UNCHANGED vars
      PROVE  KInv'
  <2>1. live' = live /\ past' = past /\ backups' = backups /\ restores' = restores
    BY <1>1 DEF Push, Pull, OpenTmp, WriteTmp, WriteTo, Respond, Stop, Start, vars,
                fileVars, boundVars, WInv, OneWriter
  <2>2. Storing' => Storing
    BY <1>1 DEF Push, Pull, OpenTmp, WriteTmp, Respond, Stop, Start, vars, srvVars, Storing
  <2> QED BY <2>1, <2>2, QuietKInv
<1>2. ASSUME Operator PROVE KInv'
  <2>1. restores' # 0
    <3>1. restores \in Nat
      BY BoundsAssumption DEF TInv, TypeOK
    <3> QED BY <1>2, <3>1 DEF Operator, RestoreRead, RestoreOpen, RestoreWrite, RestoreRename,
                              boundVars, WInv, OneWriter
  <2> QED BY <2>1 DEF KInv
<1> QED BY <1>1, <1>2, OpenBackupKInv, WriteBackupKInv, RenameKInv, FailKInv DEF Next, Server

-----------------------------------------------------------------------------
(* The theorems                                                            *)

LEMMA NextIInv == ASSUME IInv, [Next]_vars PROVE IInv'
<1>1. TInv'
  BY NextTInv DEF IInv
<1>2. ASSUME Alone' PROVE WInv' /\ KInv'
  <2>1. Alone
    BY <1>2, AloneBefore DEF IInv
  <2> QED BY <1>2, <2>1, NextWInv, NextKInv DEF IInv
<1> QED BY <1>1, <1>2 DEF IInv

\* The inductive invariant: FileSyncServer's push is one writer between its
\* check and its rename, as long as no restore runs beside it.
THEOREM Invariant == Spec => []IInv
<1>1. Init => IInv
  BY InitTInv, InitWInv DEF IInv
<1>2. IInv /\ [Next]_vars => IInv'
  BY NextIInv
<1> QED BY <1>1, <1>2, PTL DEF Spec

\* If the operator stops the server for a restore, then whatever dies and
\* whatever write fails, the live file is a whole blob, and an account that was
\* once pushed does not disappear (write_blob's temporary file and rename).
THEOREM LiveStaysWhole == OperatorWaits => (Spec => []LiveIsWhole)
<1> SUFFICES ASSUME OperatorWaits PROVE Spec => []LiveIsWhole
  OBVIOUS
<1>1. IInv => LiveIsWhole
  <2> SUFFICES ASSUME IInv PROVE LiveIsWhole
    OBVIOUS
  <2>1. WInv /\ TInv
    BY DEF IInv, Alone
  <2> QED BY <2>1, LiveIsReadable DEF WInv, LiveInPast, LiveIsWhole
<1> QED BY <1>1, Invariant, PTL

\* Until the first restore the last Retention - 1 superseded versions stay among
\* the backups, whole (backup_current_blob, prune_backups).
THEOREM SupersededStays == Spec => []SupersededIsKept
<1>1. IInv => SupersededIsKept
  BY DEF IInv, Alone, KInv, Kept, SupersededIsKept
<1> QED BY <1>1, Invariant, PTL

\* A push that goes through is one step of the register, when the rename makes
\* it visible.
LEMMA RenameImplements == ASSUME TInv, WInv, Rename PROVE [R!Next]_R!vars
<1> USE DEF Rename, WInv
<1>1. CASE tmp = NoFile
  BY <1>1 DEF R!Next, R!Answer
<1>2. CASE tmp # NoFile
  <2>1. live' = New /\ past' = past \cup {New} /\ reply' = reply
    BY <1>2 DEF RenameTmp, StillAccepted
  <2>2. R!Version = Version(live)
    BY LiveIsReadable DEF R!Version
  <2>3. New = [ver |-> R!Version + 1, owner |-> req.secret, data |-> req.data]
    BY <2>2 DEF New, StillAccepted, Working
  <2>4. R!Push(req.secret, req.data, R!Version)
    BY <2>1, <2>3 DEF R!Push, StillAccepted, Working
  <2>5. req.secret \in Secrets /\ req.data \in Data
    BY DEF TInv, Working, PushRequest
  <2> QED BY <2>4, <2>5 DEF R!Next
<1> QED BY <1>1, <1>2

\* So is a restore.
LEMMA RestoreImplements == ASSUME TInv, WInv, RestoreRename PROVE [R!Next]_R!vars
<1> USE DEF RestoreRename, WInv
<1>1. CASE tmp = NoFile
  BY <1>1 DEF R!vars
<1>2. CASE tmp # NoFile
  <2>1. live' = opBlob /\ past' = past /\ reply' = reply
    BY <1>2 DEF RenameTmp, GoesBack
  <2>2. opBlob \in past /\ opBlob.ver < R!Version
    BY LiveIsReadable DEF GoesBack, R!Version
  <2>3. R!RollBack(opBlob)
    BY <2>1, <2>2 DEF R!RollBack
  <2> QED BY <2>2, <2>3 DEF R!Next
<1> QED BY <1>1, <1>2

\* Every answer is one that the register may give.
LEMMA RepliesImplement ==
  ASSUME TInv, WInv,
         (\E r \in PushRequest : Push(r)) \/ (\E r \in PullRequest : Pull(r))
           \/ Respond \/ WriteFails
  PROVE  [R!Next]_R!vars
<1> USE DEF WInv, fileVars
<1>1. R!Version = Version(live) /\ (Readable(live) <=> live # NoFile)
  BY LiveIsReadable DEF R!Version
<1>2. ASSUME NEW r \in PushRequest, Push(r) PROVE [R!Next]_R!vars
  <2>1. CASE Refusal(r) = R!NoReply
    BY <1>2, <2>1 DEF Push, R!vars
  <2>2. CASE Refusal(r) # R!NoReply
    <3>1. live' = live /\ past' = past /\ reply' = Refusal(r)
      BY <1>2, <2>2 DEF Push
    <3>2. (live # NoFile /\ reply' = R!Unauthorized) \/ reply' = R!Conflict(R!Version)
      BY <1>1, <2>2, <3>1 DEF Refusal
    <3> QED BY <3>1, <3>2 DEF R!Next, R!Answer
  <2> QED BY <2>1, <2>2
<1>3. ASSUME NEW r \in PullRequest, Pull(r) PROVE [R!Next]_R!vars
  BY <1>1, <1>3 DEF Pull, R!Next, R!Answer
<1>4. CASE Respond
  <2>1. live = New /\ New # NoFile /\ R!Version = New.ver
    BY <1>1, <1>4, NewIsBlob, BlobIsReadable DEF Respond, StillAccepted, TInv, Working
  <2> QED BY <1>4, <2>1 DEF Respond, R!Next, R!Answer
<1>5. CASE WriteFails
  BY <1>5 DEF WriteFails, WriteTo, OneWriter, R!Next, R!Answer
<1> QED BY <1>2, <1>3, <1>4, <1>5

\* Everything else changes nothing that the register shows.
LEMMA OthersStutter ==
  ASSUME TInv, WInv,
         OpenBackup \/ WriteBackup \/ OpenTmp \/ WriteTmp \/ Die \/ Stop \/ Start
           \/ (\E v \in Versions : RestoreRead(v)) \/ RestoreOpen \/ RestoreWrite
           \/ UNCHANGED vars
  PROVE  UNCHANGED R!vars
BY DEF WInv, OneWriter, OpenBackup, WriteBackup, OpenTmp, WriteTmp, WriteTo, Die, Stop, Start,
       RestoreRead, RestoreOpen, RestoreWrite, vars, fileVars, R!vars

\* If the operator stops the server for a restore, the files of an account are
\* a versioned register: FileSyncServer, with its temporary file, its backups
\* and its deaths, does nothing that SyncRegister does not allow.
THEOREM Refinement == OperatorWaits => (Spec => ImplementsRegister)
<1> SUFFICES ASSUME OperatorWaits PROVE Spec => R!Spec
  BY DEF ImplementsRegister
<1>1. Init => R!Init
  BY DEF Init, R!Init
<1>2. IInv /\ [Next]_vars => [R!Next]_R!vars
  <2> SUFFICES ASSUME IInv, [Next]_vars PROVE [R!Next]_R!vars
    OBVIOUS
  <2>1. TInv /\ WInv
    BY DEF IInv, Alone
  <2> QED BY <2>1, RenameImplements, RestoreImplements, RepliesImplement, OthersStutter
          DEF Next, Server, Operator
<1> QED BY <1>1, <1>2, Invariant, PTL DEF Spec, R!Spec

-----------------------------------------------------------------------------
(* Gate: the inductive invariant                                           *)

\* Times in the order they came.
Ordered(s) == \A i, j \in DOMAIN s : i <= j => s[i] <= s[j]
Past(s)    == \A i \in DOMAIN s : s[i] <= now

\* Of s, the requests let through in the window that begins at b.start are the
\* last c, the limit or less. What came before is not later than the window's
\* start, and all but MaxPerWindow of it is older by a whole window.
Through(b) == IF b.count < MaxPerWindow THEN b.count ELSE MaxPerWindow
BucketOK(b, s) ==
  /\ b \in [count : Nat, start : Nat] /\ b.start <= now
  /\ s \in Seq(Nat) /\ Past(s)
  /\ Through(b) <= Len(s) /\ (b.count = 0 => Len(s) = 0)
  /\ \A i \in 1 .. Len(s) :
       /\ i <= Len(s) - Through(b) => s[i] <= b.start
       /\ i <= Len(s) - Through(b) - MaxPerWindow => s[i] + Window <= b.start
  /\ AtMost(2 * MaxPerWindow, s, Window)

\* Once there are as many failures as allowed, the lock lasts from the last.
LockoutOK(l, s) ==
  /\ l \in [failures : Nat, until : Nat]
  /\ s \in Seq(Nat) /\ Past(s) /\ Ordered(s) /\ Len(s) = l.failures
  /\ l.failures >= MaxFailures => s[Len(s)] + Lockout <= l.until
  /\ AtMost(MaxFailures, s, Lockout)

GInv ==
  /\ now \in Nat
  /\ DOMAIN buckets = Addresses /\ DOMAIN passed = Addresses
  /\ DOMAIN lockouts = Accounts /\ DOMAIN guesses = Accounts
  /\ \A ip \in Addresses : BucketOK(buckets[ip], passed[ip])
  /\ \A a \in Accounts : LockoutOK(lockouts[a], guesses[a])

-----------------------------------------------------------------------------
LEMMA Limits ==
  /\ MaxPerWindow \in Nat /\ MaxPerWindow >= 1 /\ MaxFailures \in Nat /\ MaxFailures >= 1
  /\ Window \in Nat /\ Window >= 1 /\ Lockout \in Nat /\ Lockout >= 1
  /\ MaxTime \in Nat
  BY GateAssumption

LEMMA AppendNow ==
  ASSUME now \in Nat, NEW s \in Seq(Nat), NEW t, t = Append(s, now)
  PROVE  /\ t \in Seq(Nat) /\ Len(t) = Len(s) + 1
         /\ DOMAIN t = 1 .. Len(s) + 1 /\ DOMAIN s = 1 .. Len(s) /\ Len(s) \in Nat
         /\ t[Len(s) + 1] = now
         /\ \A i \in 1 .. Len(s) : t[i] = s[i] /\ s[i] \in Nat
  OBVIOUS

\* check_ip counts a request and lets it pass.
LEMMA PassKeeps ==
  ASSUME now \in Nat, NEW b, NEW s, BucketOK(b, s), Counted(b).count <= MaxPerWindow
  PROVE  BucketOK(Counted(b), Append(s, now))
<1>1. PICK t : t = Append(s, now)
  OBVIOUS
<1>2. PICK n \in Nat : n = Len(s)
  BY DEF BucketOK
<1>3. PICK c : c = Counted(b)
  OBVIOUS
<1>4. b \in [count : Nat, start : Nat] /\ b.count \in Nat /\ b.start \in Nat /\ b.start <= now
  BY DEF BucketOK
<1>5. /\ t \in Seq(Nat) /\ Len(t) = n + 1 /\ DOMAIN t = 1 .. n + 1 /\ DOMAIN s = 1 .. n
      /\ t[n + 1] = now /\ \A i \in 1 .. n : t[i] = s[i] /\ s[i] \in Nat
  BY <1>1, <1>2, AppendNow DEF BucketOK
<1>6. PICK k \in Nat : k = Through(b) /\ k <= MaxPerWindow /\ k <= n
  BY <1>2, <1>4, Limits DEF Through, BucketOK
<1>7. \A i \in 1 .. n : /\ s[i] <= now
                        /\ i <= n - k => s[i] <= b.start
                        /\ i <= n - k - MaxPerWindow => s[i] + Window <= b.start
  BY <1>2, <1>5, <1>6 DEF BucketOK, Past
<1>8. \/ c = [count |-> 1, start |-> now] /\ b.count = 0 /\ n = 0
      \/ c = [count |-> 1, start |-> now] /\ now - b.start >= Window
      \/ c = [b EXCEPT !.count = b.count + 1] /\ b.count # 0
  BY <1>2, <1>3 DEF Counted, BucketOK
<1>9. /\ c \in [count : Nat, start : Nat] /\ c.count \in Nat /\ c.start \in Nat
      /\ c.start <= now /\ c.count >= 1 /\ c.count <= MaxPerWindow
  BY <1>3, <1>4, <1>8
<1>10. PICK m \in Nat : m = Through(c) /\ m = c.count /\ m >= 1 /\ m <= MaxPerWindow
  BY <1>9, Limits DEF Through
<1>11. \/ m = 1 /\ c.start = now /\ n = 0
       \/ m = 1 /\ c.start = now /\ now - b.start >= Window
       \/ m = k + 1 /\ c.start = b.start
  BY <1>4, <1>6, <1>8, <1>9, <1>10, Limits DEF Through
<1>12. ASSUME NEW i \in 1 .. n + 1
       PROVE  /\ t[i] \in Nat /\ t[i] <= now
              /\ i <= n + 1 - m => t[i] <= c.start
              /\ i <= n + 1 - m - MaxPerWindow => t[i] + Window <= c.start
  <2>1. CASE i = n + 1
    BY <1>5, <1>10, <2>1, Limits
  <2>2. CASE i # n + 1
    <3>1. i \in 1 .. n /\ t[i] = s[i] /\ s[i] \in Nat
      BY <1>5, <2>2
    <3>2. i <= n - MaxPerWindow => i <= n - k
      BY <1>6, <3>1, Limits
    <3> QED BY <1>4, <1>7, <1>9, <1>11, <3>1, <3>2, Limits
  <2> QED BY <2>1, <2>2
<1>13. m <= n + 1
  BY <1>6, <1>11
<1>14. AtMost(2 * MaxPerWindow, t, Window)
  <2> SUFFICES ASSUME NEW i \in 1 .. n + 1, i + 2 * MaxPerWindow \in 1 .. n + 1
               PROVE  t[i + 2 * MaxPerWindow] - t[i] >= Window
    BY <1>5 DEF AtMost
  <2>1. CASE i + 2 * MaxPerWindow = n + 1
    <3>1. i <= n + 1 - m - MaxPerWindow
      BY <1>10, <2>1, Limits
    <3>2. t[i + 2 * MaxPerWindow] = now
      BY <1>5, <2>1
    <3>3. t[i] \in Nat /\ t[i] + Window <= c.start
      BY <1>12, <3>1
    <3> QED BY <1>9, <3>2, <3>3, Limits
  <2>2. CASE i + 2 * MaxPerWindow # n + 1
    <3>1. i \in 1 .. n /\ i + 2 * MaxPerWindow \in 1 .. n
      BY <2>2, Limits
    <3>2. s[i + 2 * MaxPerWindow] - s[i] >= Window
      BY <1>5, <3>1 DEF BucketOK, AtMost
    <3> QED BY <1>5, <3>1, <3>2
  <2> QED BY <2>1, <2>2
<1>15. BucketOK(c, t)
  <2>1. Past(t)
    BY <1>5, <1>12 DEF Past
  <2>2. Through(c) <= Len(t) /\ c.count # 0
    BY <1>5, <1>9, <1>10, <1>13
  <2>3. \A i \in 1 .. Len(t) :
          /\ i <= Len(t) - Through(c) => t[i] <= c.start
          /\ i <= Len(t) - Through(c) - MaxPerWindow => t[i] + Window <= c.start
    <3>1. Len(t) = n + 1 /\ Through(c) = m
      BY <1>5, <1>10
    <3> QED BY <1>12, <3>1, Limits
  <2> QED BY <1>5, <1>9, <1>14, <2>1, <2>2, <2>3 DEF BucketOK
<1> QED BY <1>1, <1>3, <1>15

\* check_ip counts a request and refuses it.
LEMMA RefuseKeeps ==
  ASSUME now \in Nat, NEW b, NEW s, BucketOK(b, s), Counted(b).count > MaxPerWindow
  PROVE  BucketOK(Counted(b), s)
<1>1. b \in [count : Nat, start : Nat] /\ b.count \in Nat /\ b.start \in Nat
  BY DEF BucketOK
<1>2. PICK c : c = Counted(b)
  OBVIOUS
<1>3. c = [b EXCEPT !.count = b.count + 1] /\ c.count > MaxPerWindow
  BY <1>1, <1>2, Limits DEF Counted
<1>4. /\ c \in [count : Nat, start : Nat] /\ c.start = b.start /\ c.count = b.count + 1
  BY <1>1, <1>3
<1>5. Through(c) = Through(b) /\ c.count # 0
  BY <1>1, <1>3, <1>4, Limits DEF Through
<1> QED BY <1>2, <1>4, <1>5 DEF BucketOK

\* record_auth_failure, which comes only when the lock has run out.
LEMMA GuessKeeps ==
  ASSUME now \in Nat, NEW l, NEW s, LockoutOK(l, s), ~(now < l.until)
  PROVE  LockoutOK(Failed(l), Append(s, now))
<1>1. PICK t : t = Append(s, now)
  OBVIOUS
<1>2. PICK f : f = Failed(l)
  OBVIOUS
<1>3. PICK n \in Nat : n = Len(s) /\ n = l.failures
  BY DEF LockoutOK
<1>4. l.failures \in Nat /\ l.until \in Nat
  BY DEF LockoutOK
<1>5. /\ t \in Seq(Nat) /\ Len(t) = n + 1 /\ DOMAIN t = 1 .. n + 1 /\ DOMAIN s = 1 .. n
      /\ t[n + 1] = now /\ \A i \in 1 .. n : t[i] = s[i] /\ s[i] \in Nat
  BY <1>1, <1>3, AppendNow DEF LockoutOK
<1>6. /\ \A i \in 1 .. n : s[i] <= now
      /\ \A i, j \in 1 .. n : i <= j => s[i] <= s[j]
      /\ n >= MaxFailures => s[n] + Lockout <= l.until
  BY <1>3, <1>5 DEF LockoutOK, Past, Ordered
<1>7. Past(t) /\ Ordered(t)
  <2>1. \A i \in 1 .. n + 1 : i = n + 1 \/ i \in 1 .. n
    OBVIOUS
  <2>2. Past(t)
    BY <1>5, <1>6, <2>1 DEF Past
  <2>3. Ordered(t)
    BY <1>5, <1>6, <2>1 DEF Ordered
  <2> QED BY <2>2, <2>3
<1>8. /\ f \in [failures : Nat, until : Nat] /\ f.failures = n + 1
      /\ f.failures >= MaxFailures => f.until = now + Lockout
  BY <1>2, <1>3, <1>4, Limits DEF Failed
<1>9. AtMost(MaxFailures, t, Lockout)
  <2> SUFFICES ASSUME NEW i \in 1 .. n + 1, i + MaxFailures \in 1 .. n + 1
               PROVE  t[i + MaxFailures] - t[i] >= Lockout
    BY <1>5 DEF AtMost
  <2>1. CASE i + MaxFailures = n + 1
    <3>1. i \in 1 .. n /\ n \in 1 .. n /\ i <= n /\ n >= MaxFailures
      BY <2>1, Limits
    <3>2. s[i] <= s[n] /\ s[n] + Lockout <= now /\ s[i] \in Nat /\ s[n] \in Nat
      BY <1>4, <1>5, <1>6, <3>1, Limits
    <3> QED BY <1>5, <2>1, <3>1, <3>2, Limits, SMTT(30)
  <2>2. CASE i + MaxFailures # n + 1
    <3>1. i \in 1 .. n /\ i + MaxFailures \in 1 .. n
      BY <2>2, Limits
    <3>2. s[i + MaxFailures] - s[i] >= Lockout
      BY <1>5, <3>1 DEF LockoutOK, AtMost
    <3> QED BY <1>5, <3>1, <3>2
  <2> QED BY <2>1, <2>2
<1>10. LockoutOK(f, t)
  BY <1>5, <1>7, <1>8, <1>9, Limits DEF LockoutOK
<1> QED BY <1>1, <1>2, <1>10

-----------------------------------------------------------------------------
LEMMA InitGInv == GateInit => GInv
<1> SUFFICES ASSUME GateInit PROVE GInv
  OBVIOUS
<1> USE DEF GateInit
<1>1. BucketOK(NoBucket, <<>>)
  BY Limits DEF BucketOK, NoBucket, Through, Past, AtMost
<1>2. LockoutOK(NoLockout, <<>>)
  BY Limits DEF LockoutOK, NoLockout, Past, Ordered, AtMost
<1> QED BY <1>1, <1>2 DEF GInv

\* What every request leaves alone, or changes at its address.
LEMMA RequestGInv ==
  ASSUME GInv, NEW ip \in Addresses,
         Refused(ip) \/ Turned(ip) \/ \E a \in Accounts : Guess(ip, a) \/ Serve(ip, a)
  PROVE  /\ now' = now /\ DOMAIN buckets' = Addresses /\ DOMAIN passed' = Addresses
         /\ \A i \in Addresses : BucketOK(buckets[i], passed[i])'
<1>1. /\ now' = now /\ now \in Nat /\ buckets' = [buckets EXCEPT ![ip] = Counted(buckets[ip])]
      /\ DOMAIN buckets = Addresses /\ DOMAIN passed = Addresses
  BY DEF GInv, Refused, Turned, Guess, Serve, Passes, Arrives
<1>2. \A b, s : BucketOK(b, s) => BucketOK(b, s)'
  BY <1>1 DEF BucketOK, Past
<1>3. BucketOK(buckets[ip], passed[ip])
  BY DEF GInv
<1>4. CASE Refused(ip)
  <2>1. passed' = passed /\ Counted(buckets[ip]).count > MaxPerWindow
    BY <1>1, <1>4 DEF Refused
  <2>2. BucketOK(Counted(buckets[ip]), passed[ip])
    BY <1>1, <1>3, <2>1, RefuseKeeps
  <2> QED BY <1>1, <1>2, <2>1, <2>2 DEF GInv
<1>5. CASE Passes(ip)
  <2>1. /\ passed' = [passed EXCEPT ![ip] = Append(passed[ip], now)]
        /\ Counted(buckets[ip]).count <= MaxPerWindow
    BY <1>1, <1>5 DEF Passes
  <2>2. BucketOK(Counted(buckets[ip]), Append(passed[ip], now))
    BY <1>1, <1>3, <2>1, PassKeeps
  <2> QED BY <1>1, <1>2, <2>1, <2>2 DEF GInv
<1> QED BY <1>4, <1>5 DEF Turned, Guess, Serve

LEMMA AccountsGInv ==
  ASSUME GInv, NEW ip \in Addresses,
         Refused(ip) \/ Turned(ip) \/ \E a \in Accounts : Guess(ip, a) \/ Serve(ip, a)
  PROVE  /\ DOMAIN lockouts' = Accounts /\ DOMAIN guesses' = Accounts
         /\ \A a \in Accounts : LockoutOK(lockouts[a], guesses[a])'
<1>1. now' = now /\ now \in Nat /\ DOMAIN lockouts = Accounts /\ DOMAIN guesses = Accounts
  BY RequestGInv DEF GInv
<1>2. \A l, s : LockoutOK(l, s) => LockoutOK(l, s)'
  BY <1>1 DEF LockoutOK, Past
<1>3. \A a \in Accounts : LockoutOK(lockouts[a], guesses[a])
  BY DEF GInv
<1>4. CASE Refused(ip) \/ Turned(ip)
  BY <1>1, <1>2, <1>3, <1>4 DEF Refused, Turned
<1>5. ASSUME NEW a \in Accounts, Guess(ip, a)
      PROVE  /\ DOMAIN lockouts' = Accounts /\ DOMAIN guesses' = Accounts
             /\ \A b \in Accounts : LockoutOK(lockouts[b], guesses[b])'
  <2>1. LockoutOK(Failed(lockouts[a]), Append(guesses[a], now))
    BY <1>1, <1>3, <1>5, GuessKeeps DEF Guess, Locked
  <2> QED BY <1>1, <1>2, <1>3, <1>5, <2>1 DEF Guess
<1>6. ASSUME NEW a \in Accounts, Serve(ip, a)
      PROVE  /\ DOMAIN lockouts' = Accounts /\ DOMAIN guesses' = Accounts
             /\ \A b \in Accounts : LockoutOK(lockouts[b], guesses[b])'
  <2>1. LockoutOK(NoLockout, <<>>)
    BY Limits DEF LockoutOK, NoLockout, Past, Ordered, AtMost
  <2> QED BY <1>1, <1>2, <1>3, <1>6, <2>1 DEF Serve
<1> QED BY <1>4, <1>5, <1>6

LEMMA NextGInv == ASSUME GInv, [GateNext]_gateVars PROVE GInv'
<1>1. CASE UNCHANGED gateVars
  BY <1>1 DEF gateVars, GInv, BucketOK, LockoutOK, Past
<1>2. CASE Wait
  <2>1. now' \in Nat /\ now <= now' /\ now \in Nat
    BY <1>2, Limits DEF Wait, GInv
  <2>2. ASSUME NEW b, NEW s, BucketOK(b, s) PROVE BucketOK(b, s)'
    BY <2>1, <2>2 DEF BucketOK, Past
  <2>3. ASSUME NEW l, NEW s, LockoutOK(l, s) PROVE LockoutOK(l, s)'
    BY <2>1, <2>3 DEF LockoutOK, Past
  <2> QED BY <1>2, <2>1, <2>2, <2>3 DEF Wait, GInv
<1>3. ASSUME NEW ip \in Addresses,
             Refused(ip) \/ Turned(ip) \/ \E a \in Accounts : Guess(ip, a) \/ Serve(ip, a)
      PROVE  GInv'
  BY <1>3, RequestGInv, AccountsGInv DEF GInv
<1> QED BY <1>1, <1>2, <1>3 DEF GateNext

\* However attempts are spaced and wherever they come from, and whatever the
\* limits are: an address gets at most twice MAX_REQUESTS_PER_IP_WINDOW requests
\* through in any span of IP_WINDOW, and at most MAX_AUTH_FAILURES wrong secrets
\* in a row are tried on an account in any span of LOCKOUT_DURATION
\* (RateLimiter::check_ip, check_account_lockout, record_auth_failure).
THEOREM AttemptsBounded == GateSpec => []AttemptsAreBounded
<1>1. GInv => AttemptsAreBounded
  BY DEF GInv, BucketOK, LockoutOK, AttemptsAreBounded, BurstsAreBounded, GuessesAreBounded
<1> QED BY <1>1, InitGInv, NextGInv, PTL DEF GateSpec
=============================================================================
