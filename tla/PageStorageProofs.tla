-------------------------- MODULE PageStorageProofs --------------------------
(***************************************************************************)
(* Theorems about PageStorage, for any sites and any number of processes,   *)
(* writes, requests and faults: types; that what a page wrote stays what it *)
(* reads; and that processes which follow one another hand everything on.   *)
(* And about what a page's scripts work on, for any number of calls. IndexedDb, *)
(* for any object stores, keys and quota: records and generated keys stay    *)
(* whole, and no version is saved before it was offered. Dom, for documents  *)
(* of any number of nodes: the document stays a tree, ids name one node, and *)
(* a search of the document finds all there is to find, in its order. And    *)
(* Matching, by which a search tells what a selector is about: for any       *)
(* document and selector, no way to match is missed and none made up. Last,  *)
(* Placement: for any grid, where its items go; and Declarations: for any    *)
(* rules and style attribute, which declaration of a property counts.        *)
(***************************************************************************)
EXTENDS PageStorage, IndexedDb, Dom, TLAPS, SequenceTheorems, FiniteSetTheorems, WellFoundedInduction

-----------------------------------------------------------------------------
(* The inductive invariant                                                 *)

Waited(n)   == ui \in Wait /\ ui.on = n
SeedNext(p) == p.queue # <<>> /\ p.queue[1].seed # NoSeed

\* A process out of the pool is gone, or saves what is left. A seed travels in a
\* load that is at the head of the queue, and nothing is saved before it is
\* taken. One that was never seeded has nothing to do, or is waited for.
Shape(p, waited) ==
  /\ p.site \in Sites \/ p = NoProc
  /\ p.pooled \/ p = NoProc \/ (Busy(p) /\ p.queue = <<>> /\ ~p.alive)
  /\ p.io = "none" => ~p.alive
  /\ \A i \in 1 .. Len(p.queue) :
       /\ p.queue[i].seed # NoSeed => i = 1 /\ p.queue[i].load
       /\ p.queue[i].load => p.seeded \/ p.retried
  /\ SeedNext(p) => ~Busy(p)
  /\ ~p.seeded => Quiet(p) \/ waited

\* Seeds come before anything a page writes, but for a process that was retried.
Own(p) ==
  ~p.retried =>
    /\ ~p.seeded => p.wrote = 0 /\ ~p.loaded
    /\ SeedNext(p) => p.wrote = 0
    /\ p.wrote # 0 => p.store[p.site] = p.wrote

UiOK ==
  /\ ui = New => \A n \in Procs : proc[n] = NoProc
  /\ ui \in Wait => proc[ui.on].pooled /\ (ui.asked.seed # NoSeed => ui.asked.load)

GInv == UiOK /\ \A n \in Procs : Shape(proc[n], Waited(n)) /\ Own(proc[n])

\* Processes follow one another, and nothing was cut short or cleared.
InTurn == ~shared /\ ~cut /\ ~cleared

One  == \A m, n \in Procs : proc[m] # NoProc /\ proc[n] # NoProc => m = n
Disk == (\A n \in Procs : ~Busy(proc[n])) => Loaded = latest

\* Of a process p, with file f, where l is what was written last: what its save
\* will leave in the file, ...
LoadedOf(f) == IF f \notin {Empty, Garbled} THEN f ELSE NoData
Saving(p, f, l) ==
  /\ p.io = "read" => Merge(LoadedOf(f), p.data) = l
  /\ p.io \in {"open", "write"} => p.data = l
  /\ p.io = "write" => f = Empty

\* ... and what its pages find, once it has taken its seed.
Fresh(p, l) ==
  \/ p.store[p.site] = l[p.site]
  \/ SeedNext(p)
  \/ ~p.seeded /\ ~p.loaded /\ \A i \in 1 .. Len(p.queue) : ~p.queue[i].load
Storing(p, f, l) ==
  /\ \A s \in Sites : p.store[s] # 0 => p.store[s] = l[s]
  /\ p.loaded => p.store[p.site] = l[p.site]
  /\ p.wrote # 0 => p.wrote = l[p.site] /\ p.store[p.site] = p.wrote
  /\ SeedNext(p) => p.queue[1].seed = f
  /\ p.alive => Fresh(p, l)

\* A load the UI thread waits for has been served, or carries the seed it would
\* be given now.
AskedOK ==
  ui \in Wait /\ ui.asked.load =>
    LET p == proc[ui.on] IN
    \/ p.queue = <<>> /\ p.io # "none"
    \/ /\ p.io \in {"ready", "none"} /\ ui.asked.seed = Seed
       /\ p.queue \in {<<>>, <<ui.asked>>}

XInv ==
  InTurn =>
    /\ One /\ Disk /\ AskedOK
    /\ \A n \in Procs : Saving(proc[n], file, latest) /\ Storing(proc[n], file, latest)

IInv == TypeOK /\ GInv /\ XInv

-----------------------------------------------------------------------------
(* Types                                                                   *)

LEMMA Values ==
  /\ NoData \in Store /\ \A s \in Sites : NoData[s] = 0
  /\ NoProc \in Proc /\ \A s \in Sites : Spawned(s) \in Proc
  /\ Empty \notin Store /\ Garbled \notin Store /\ NoSeed \notin Store
  /\ New \notin Wait /\ Idle \notin Wait /\ New # Idle
  /\ 1 \in Procs /\ MaxWrites \in Nat /\ MaxRequests \in Nat /\ MaxFaults \in Nat
<1>1. NoData \in Store /\ (\A s \in Sites : NoData[s] = 0) /\ MaxWrites \in Nat
      /\ 0 \in 0 .. MaxWrites
  BY BoundsAssumption DEF NoData, Store
<1>2. <<>> \in Seq(Request)
  OBVIOUS
<1>3. NoProc \in Proc
  BY <1>1, <1>2 DEF NoProc, Proc, IoStates
<1>4. \A s \in Sites : Spawned(s) \in Proc
  BY <1>3 DEF Spawned, Proc, IoStates
<1> QED BY <1>1, <1>3, <1>4, ValuesAssumption, BoundsAssumption DEF Procs

LEMMA MergeTyped == ASSUME NEW f \in Store, NEW g \in Store PROVE Merge(f, g) \in Store
BY DEF Merge, Store

LEMMA FileTyped ==
  ASSUME TypeOK
  PROVE  /\ Loaded \in Store /\ Seed \in Store \cup {NoSeed}
         /\ Loaded = LoadedOf(file)
         /\ Seed # NoSeed => Seed = file /\ Loaded = file
         /\ Seed = NoSeed => Loaded = NoData
BY Values DEF TypeOK, File, Loaded, Seed, Readable, LoadedOf

\* A step that puts P in the place of process n.
LEMMA Replaced ==
  ASSUME TypeOK, NEW n \in Procs, NEW P, proc' = [proc EXCEPT ![n] = P]
  PROVE  /\ proc'[n] = P /\ \A m \in Procs \ {n} : proc'[m] = proc[m]
         /\ P \in Proc => proc' \in [Procs -> Proc]
BY DEF TypeOK

LEMMA QueueTyped ==
  ASSUME NEW p \in Proc, NEW q \in Request
  PROVE  [p EXCEPT !.queue = Append(@, q)] \in Proc
BY DEF Proc

LEMMA QueueLoadTyped == ASSUME TypeOK, NEW p \in Proc PROVE QueueLoad(p) \in Proc
<1>1. PICK q : q = [load |-> TRUE, seed |-> IF p.seeded THEN NoSeed ELSE Seed]
  OBVIOUS
<1>2. q \in Request
  BY <1>1, FileTyped DEF Request
<1>3. PICK Q : Q = IF p.io = "none" THEN p.queue ELSE Append(p.queue, q)
  OBVIOUS
<1>4. Q \in Seq(Request)
  BY <1>2, <1>3 DEF Proc
<1>5. QueueLoad(p) = [p EXCEPT !.seeded = TRUE, !.queue = Q]
  BY <1>1, <1>3 DEF QueueLoad
<1> QED BY <1>4, <1>5 DEF Proc

LEMMA HandledTyped ==
  ASSUME NEW p \in Proc, p.queue # <<>>, NEW t \in Store, NEW v \in 0 .. MaxWrites,
         NEW changed \in BOOLEAN, NEW ok \in BOOLEAN
  PROVE  Handled(p, t, v, changed, ok) \in Proc
<1>1. Tail(p.queue) \in Seq(Request) /\ NoData \in Store
  BY Values DEF Proc
<1>2. (IF changed THEN t ELSE NoData) \in Store
      /\ (IF changed THEN "read" ELSE "ready") \in IoStates
  BY <1>1 DEF IoStates
<1> QED BY <1>1, <1>2 DEF Handled, Proc

LEMMA AskTyped ==
  ASSUME TypeOK, NEW n \in Procs, NEW p \in Proc, NEW q \in Request, NEW again \in BOOLEAN,
         Ask(n, p, q, again)
  PROVE  proc' \in [Procs -> Proc] /\ ui' \in Wait
<1>1. [p EXCEPT !.queue = Append(@, q)] \in Proc
  BY QueueTyped
<1> QED BY <1>1 DEF Ask, Wait, TypeOK

LEMMA UiType ==
  ASSUME TypeOK, GInv, Ui
  PROVE  TypeOK'
<1>0. MaxRequests \in Nat
  BY Values
<1>1. ASSUME NEW s \in Sites, Begin(s) PROVE TypeOK'
  <2>1. proc' \in [Procs -> Proc]
    <3>1. CASE \E n \in Procs : proc' = [proc EXCEPT ![n] = QueueLoad(@)]
      BY <3>1, QueueLoadTyped DEF TypeOK
    <3>2. CASE \E n \in Procs : proc' = [proc EXCEPT ![n] = QueueLoad(Spawned(s))]
      BY <3>2, QueueLoadTyped, Values DEF TypeOK
    <3> QED BY <1>1, <3>1, <3>2 DEF Begin
  <2>2. requests' \in 0 .. MaxRequests
    BY <1>0, <1>1 DEF Begin, Asking, TypeOK
  <2>3. shared' \in BOOLEAN
    <3>1. shared' = shared \/ shared' = (shared \/ Running # {})
      BY <1>1 DEF Begin
    <3> QED BY <3>1 DEF TypeOK
  <2> QED BY <1>1, <2>1, <2>2, <2>3 DEF Begin, TypeOK
<1>2. ASSUME NEW s \in Sites, Startup(s) PROVE TypeOK'
  <2>1. [load |-> TRUE, seed |-> Seed] \in Request
    BY FileTyped DEF Request
  <2>2. [Spawned(s) EXCEPT !.seeded = TRUE, !.used = TRUE] \in Proc
    BY Values DEF Proc
  <2>3. proc' \in [Procs -> Proc] /\ ui' \in Wait
    BY <1>2, <2>1, <2>2, Values, AskTyped DEF Startup
  <2> QED BY <1>0, <1>2, <2>3 DEF Startup, Asking, ghosts, TypeOK
<1>3. ASSUME NEW n \in Procs, Act(n) PROVE TypeOK'
  <2>1. [load |-> FALSE, seed |-> NoSeed] \in Request
    BY DEF Request
  <2>2. [proc[n] EXCEPT !.used = TRUE] \in Proc
    <3>1. PICK p : p = proc[n]
      OBVIOUS
    <3>2. p \in Proc
      BY <3>1 DEF TypeOK
    <3>3. [p EXCEPT !.used = TRUE] \in Proc
      BY <3>2 DEF Proc
    <3> QED BY <3>1, <3>3
  <2>3. proc' \in [Procs -> Proc] /\ ui' \in Wait
    BY <1>3, <2>1, <2>2, AskTyped DEF Act
  <2> QED BY <1>0, <1>3, <2>3 DEF Act, Asking, ghosts, TypeOK
<1>4. ASSUME NEW n \in Procs, Evict(n) PROVE TypeOK'
  <2>1. <<>> \in Seq(Request)
    OBVIOUS
  <2>2. [proc[n] EXCEPT !.pooled = FALSE, !.alive = FALSE, !.queue = <<>>] \in Proc
    BY <2>1, ZenonT(60) DEF TypeOK, Proc
  <2> QED BY <1>4, <2>2, Values DEF Evict, ghosts, bounds, TypeOK
<1>5. CASE Returns
  BY <1>5 DEF Returns, ghosts, bounds, TypeOK
<1>6. CASE Respawn
  <2>1. ui.on \in Procs /\ ui.asked \in Request /\ proc[ui.on].pooled
    BY <1>6 DEF Respawn, Wait, GInv, UiOK
  <2>2. proc[ui.on].site \in Sites
    BY <2>1 DEF GInv, Shape, NoProc
  <2>3. Spawned(proc[ui.on].site) \in Proc /\ ui.asked.load \in BOOLEAN
    BY <2>1, <2>2, Values DEF Request
  <2>4. [Spawned(proc[ui.on].site) EXCEPT !.used = TRUE, !.retried = ui.asked.load] \in Proc
    BY <2>3 DEF Proc
  <2>5. proc' \in [Procs -> Proc] /\ ui' \in Wait
    BY <1>6, <2>1, <2>4, AskTyped DEF Respawn
  <2> QED BY <1>6, <2>5 DEF Respawn, ghosts, bounds, TypeOK
<1> QED BY <1>1, <1>2, <1>3, <1>4, <1>5, <1>6 DEF Ui

\* What Serve does, with what its process has at hand: the queue's head q, and
\* the store t once the seed is taken.
LEMMA ServeSteps ==
  ASSUME TypeOK, GInv, NEW n \in Procs, Serve(n)
  PROVE  \E p \in Proc, q \in Request, t \in Store, ok \in BOOLEAN :
           /\ p = proc[n] /\ p.io = "ready" /\ p.queue # <<>> /\ p.alive
           /\ p.queue[1] = q /\ p.site \in Sites
           /\ t = (IF q.seed # NoSeed THEN Merge(p.store, q.seed) ELSE p.store)
           /\ q.load \/ ok = p.loaded
           /\ \/ /\ proc' = [proc EXCEPT ![n] = Handled(p, t, p.wrote, q.seed # NoSeed, ok)]
                 /\ UNCHANGED <<latest, cleared, writes>>
              \/ /\ q.load \/ p.loaded
                 /\ Sets(n, p, t, ok) \/ Clears(n, p, t, ok)
           /\ UNCHANGED <<file, ui, shared, mixed, cut, requests, faults>>
<1>1. PICK p \in Proc : p = proc[n]
  BY DEF TypeOK
<1>2. p.io = "ready" /\ p.queue # <<>> /\ p.alive
  BY <1>1 DEF Serve
<1>3. PICK q \in Request : p.queue[1] = q /\ Head(p.queue) = q
  BY <1>2 DEF Proc
<1>4. p.site \in Sites
  BY <1>1, <1>2 DEF GInv, Shape, NoProc
<1>5. PICK t : t = (IF q.seed # NoSeed THEN Merge(p.store, q.seed) ELSE p.store)
  OBVIOUS
<1>6. t \in Store
  BY <1>5, MergeTyped DEF Proc, Request
<1>7. PICK ok \in IF q.load THEN BOOLEAN ELSE {p.loaded} :
        \/ /\ proc' = [proc EXCEPT ![n] = Handled(p, t, p.wrote, q.seed # NoSeed, ok)]
           /\ UNCHANGED <<latest, cleared, writes>>
        \/ /\ q.load \/ p.loaded
           /\ Sets(n, p, t, ok) \/ Clears(n, p, t, ok)
  BY <1>1, <1>3, <1>5 DEF Serve
<1>8. ok \in BOOLEAN /\ (q.load \/ ok = p.loaded)
  BY <1>7 DEF Proc
<1> QED BY <1>1, <1>2, <1>3, <1>4, <1>5, <1>6, <1>7, <1>8 DEF Serve

LEMMA ServeType ==
  ASSUME TypeOK, GInv, NEW n \in Procs, Serve(n)
  PROVE  TypeOK'
<1>1. PICK p \in Proc, q \in Request, t \in Store, ok \in BOOLEAN :
         /\ p.queue # <<>> /\ p.site \in Sites
         /\ \/ /\ proc' = [proc EXCEPT ![n] = Handled(p, t, p.wrote, q.seed # NoSeed, ok)]
               /\ UNCHANGED <<latest, cleared, writes>>
            \/ Sets(n, p, t, ok) \/ Clears(n, p, t, ok)
         /\ UNCHANGED <<file, ui, shared, mixed, cut, requests, faults>>
  BY ServeSteps
<1>2. CASE /\ proc' = [proc EXCEPT ![n] = Handled(p, t, p.wrote, q.seed # NoSeed, ok)]
           /\ UNCHANGED <<latest, cleared, writes>>
  <2>1. p.wrote \in 0 .. MaxWrites
    BY DEF Proc
  <2>2. Handled(p, t, p.wrote, q.seed # NoSeed, ok) \in Proc
    BY <1>1, <2>1, HandledTyped
  <2> QED BY <1>1, <1>2, <2>2 DEF TypeOK
<1>3. CASE Sets(n, p, t, ok)
  <2>1. writes' \in 0 .. MaxWrites /\ writes + 1 \in 0 .. MaxWrites
    BY <1>3, Values DEF Sets, TypeOK
  <2>2. [t EXCEPT ![p.site] = writes + 1] \in Store /\ latest' \in Store
    BY <1>1, <1>3, <2>1 DEF Sets, Store, TypeOK
  <2>3. Handled(p, [t EXCEPT ![p.site] = writes + 1], writes + 1, TRUE, ok) \in Proc
    BY <1>1, <2>1, <2>2, HandledTyped
  <2> QED BY <1>1, <1>3, <2>1, <2>2, <2>3 DEF Sets, TypeOK
<1>4. CASE Clears(n, p, t, ok)
  <2>1. 0 \in 0 .. MaxWrites
    BY Values
  <2>2. [t EXCEPT ![p.site] = 0] \in Store /\ latest' \in Store
    BY <1>1, <1>4, <2>1 DEF Clears, Store, TypeOK
  <2>3. Handled(p, [t EXCEPT ![p.site] = 0], 0, TRUE, ok) \in Proc
    BY <1>1, <2>1, <2>2, HandledTyped
  <2> QED BY <1>1, <1>4, <2>2, <2>3 DEF Clears, TypeOK
<1> QED BY <1>1, <1>2, <1>3, <1>4

LEMMA SavedTyped == ASSUME NEW p \in Proc PROVE Saved(p) \in Proc
<1>1. [p EXCEPT !.io = "ready", !.data = NoData] \in Proc
  BY Values DEF Proc, IoStates
<1> QED BY <1>1, Values DEF Saved

LEMMA IoType ==
  ASSUME TypeOK, GInv, NEW n \in Procs, Io(n) \/ ChildDies(n)
  PROVE  TypeOK'
<1>1. CASE Serve(n)
  BY <1>1, ServeType
<1>2. CASE Breaks(n)
  <2>1. <<>> \in Seq(Request)
    OBVIOUS
  <2>2. [proc[n] EXCEPT !.io = "none", !.queue = <<>>] \in Proc
    BY <2>1, ZenonT(60) DEF TypeOK, Proc, IoStates
  <2> QED BY <1>2, <2>2 DEF Breaks, ghosts, bounds, TypeOK
<1>3. CASE PersistRead(n)
  <2>1. Merge(Loaded, proc[n].data) \in Store
    BY FileTyped, MergeTyped DEF TypeOK, Proc
  <2>2. [proc[n] EXCEPT !.data = Merge(Loaded, proc[n].data), !.io = "open"] \in Proc
    BY <2>1, ZenonT(60) DEF TypeOK, Proc, IoStates
  <2>3. mixed' \in BOOLEAN
    BY <1>3 DEF PersistRead
  <2> QED BY <1>3, <2>2, <2>3 DEF PersistRead, bounds, TypeOK
<1>4. CASE PersistOpen(n)
  <2>1. [proc[n] EXCEPT !.io = "write"] \in Proc
    BY ZenonT(60) DEF TypeOK, Proc, IoStates
  <2> QED BY <1>4, <2>1 DEF PersistOpen, ghosts, bounds, TypeOK, File
<1>5. CASE PersistWrite(n)
  <2>1. file' \in File
    BY <1>5 DEF PersistWrite, TypeOK, Proc, File
  <2>2. Saved(proc[n]) \in Proc
    BY SavedTyped DEF TypeOK
  <2> QED BY <1>5, <2>1, <2>2 DEF PersistWrite, ghosts, bounds, TypeOK
<1>6. CASE PersistFails(n)
  <2>1. file' \in File /\ faults' \in 0 .. MaxFaults
    BY <1>6, Values DEF PersistFails, Fault, TypeOK, File
  <2>2. Saved(proc[n]) \in Proc
    BY SavedTyped DEF TypeOK
  <2> QED BY <1>6, <2>1, <2>2 DEF PersistFails, TypeOK
<1>7. CASE ChildDies(n)
  <2>1. faults' \in 0 .. MaxFaults
    BY <1>7, Values DEF ChildDies, Fault, TypeOK
  <2>2. 0 \in 0 .. MaxWrites /\ NoData \in Store
    BY Values
  <2>3. [proc[n] EXCEPT !.alive = FALSE, !.loaded = FALSE, !.store = NoData, !.wrote = 0] \in Proc
    BY <2>2, ZenonT(60) DEF TypeOK, Proc
  <2> QED BY <1>7, <2>1, <2>3 DEF ChildDies, ghosts, TypeOK
<1> QED BY <1>1, <1>2, <1>3, <1>4, <1>5, <1>6, <1>7 DEF Io

LEMMA NextType == ASSUME TypeOK, GInv, [Next]_vars PROVE TypeOK'
<1>1. CASE Exit
  <2>1. faults' \in 0 .. MaxFaults /\ cut' \in BOOLEAN
    BY <1>1, Values DEF Exit, Fault, TypeOK
  <2> QED BY <1>1, <2>1, Values DEF Exit, TypeOK
<1>2. CASE UNCHANGED vars
  BY <1>2 DEF vars, ghosts, bounds, TypeOK
<1> QED BY <1>1, <1>2, UiType, IoType DEF Next
-----------------------------------------------------------------------------
(* Seeds, queues and what pages wrote                                      *)

LEMMA NoProcIsSound == \A w \in BOOLEAN : Shape(NoProc, w) /\ Own(NoProc)
BY DEF Shape, Own, NoProc, Busy, Quiet, SeedNext

\* A step that puts P in the place of process n, and after which whoever was
\* waited for still is, or has nothing to do.
LEMMA PutGInv ==
  ASSUME TypeOK, GInv, NEW n \in Procs, NEW P, proc' = [proc EXCEPT ![n] = P],
         Shape(P, Waited(n)'), Own(P), UiOK',
         \A m \in Procs \ {n} : Waited(m) => Waited(m)' \/ Quiet(proc[m])
  PROVE  GInv'
<1>1. proc'[n] = P /\ \A m \in Procs \ {n} : proc'[m] = proc[m]
  BY Replaced
<1>2. ASSUME NEW m \in Procs \ {n} PROVE Shape(proc[m], Waited(m)') /\ Own(proc[m])
  BY DEF GInv, Shape
<1> QED BY <1>1, <1>2 DEF GInv

\* The same when the UI thread stays where it is.
LEMMA PutGInvIo ==
  ASSUME TypeOK, GInv, NEW n \in Procs, NEW P, proc' = [proc EXCEPT ![n] = P], ui' = ui,
         Shape(P, Waited(n)), Own(P), P.pooled = proc[n].pooled, proc[n] # NoProc
  PROVE  GInv'
<1>1. proc'[n] = P /\ \A m \in Procs \ {n} : proc'[m] = proc[m]
  BY Replaced
<1>2. \A m \in Procs : Waited(m)' = Waited(m)
  BY DEF Waited
<1>3. UiOK'
  <2>1. ui = New => FALSE
    BY DEF GInv, UiOK
  <2>2. \A m \in Procs : proc'[m].pooled = proc[m].pooled
    BY <1>1
  <2>3. ui \in Wait => ui.on \in Procs
    BY DEF Wait
  <2> QED BY <2>1, <2>2, <2>3 DEF GInv, UiOK
<1>4. Shape(P, Waited(n)')
  BY <1>2
<1> QED BY <1>2, <1>3, <1>4, PutGInv

\* A load is queued for p while the UI thread is idle.
LEMMA QueueLoadSound ==
  ASSUME TypeOK, NEW p \in Proc, p.pooled, p.site \in Sites, Shape(p, FALSE), Own(p)
  PROVE  Shape(QueueLoad(p), FALSE) /\ Own(QueueLoad(p)) /\ QueueLoad(p).pooled
<1>1. PICK q : q = [load |-> TRUE, seed |-> IF p.seeded THEN NoSeed ELSE Seed]
  OBVIOUS
<1>2. q \in Request /\ q.load /\ (p.seeded => q.seed = NoSeed)
  BY <1>1, FileTyped DEF Request
<1>3. PICK Q : Q = IF p.io = "none" THEN p.queue ELSE Append(p.queue, q)
  OBVIOUS
<1>4. PICK P : P = [p EXCEPT !.seeded = TRUE, !.queue = Q]
  OBVIOUS
<1>5. QueueLoad(p) = P
  BY <1>1, <1>3, <1>4 DEF QueueLoad
<1>6. /\ P.seeded /\ P.queue = Q /\ P.io = p.io /\ P.site = p.site /\ P.pooled = p.pooled
      /\ P.alive = p.alive /\ P.retried = p.retried /\ P.wrote = p.wrote
      /\ P.store = p.store /\ P.loaded = p.loaded
  BY <1>4 DEF Proc
<1>7. ~p.seeded => p.queue = <<>> /\ ~Busy(p)
  BY DEF Shape, Quiet
<1>8. /\ \A i \in 1 .. Len(Q) : /\ Q[i].seed # NoSeed => i = 1 /\ Q[i].load
                                /\ Q[i].load => P.seeded \/ P.retried
      /\ SeedNext(P) => SeedNext(p) \/ ~p.seeded
  <2>1. CASE p.io = "none"
    BY <1>3, <1>6, <2>1 DEF Shape, SeedNext
  <2>2. CASE p.io # "none"
    <3>1. p.queue \in Seq(Request) /\ Q = Append(p.queue, q)
      BY <1>3, <2>2 DEF Proc
    <3>2. ASSUME NEW i \in 1 .. Len(Q)
          PROVE  Q[i].seed # NoSeed => i = 1 /\ Q[i].load
      <4>1. CASE i \in 1 .. Len(p.queue)
        BY <3>1, <4>1 DEF Shape
      <4>2. CASE i = Len(p.queue) + 1
        BY <1>2, <1>7, <3>1, <4>2
      <4> QED BY <3>1, <4>1, <4>2
    <3>3. SeedNext(P) /\ p.seeded => SeedNext(p)
      BY <1>2, <1>6, <3>1 DEF SeedNext
    <3> QED BY <1>6, <3>2, <3>3
  <2> QED BY <2>1, <2>2
<1>9. Shape(P, FALSE)
  BY <1>6, <1>7, <1>8 DEF Shape, Busy
<1>10. Own(P)
  BY <1>6, <1>8 DEF Own
<1> QED BY <1>5, <1>6, <1>9, <1>10

LEMMA SpawnedIsSound ==
  ASSUME NEW s \in Sites
  PROVE  /\ Shape(Spawned(s), FALSE) /\ Own(Spawned(s))
         /\ Spawned(s).pooled /\ Spawned(s).site = s
BY DEF Shape, Own, Spawned, NoProc, Busy, Quiet, SeedNext

LEMMA FirstAskedSound ==
  ASSUME NEW P \in Proc, NEW q \in Request,
         P.site \in Sites, P.pooled, P.io = "ready", P.queue = <<q>>, P.wrote = 0, ~P.loaded,
         q.seed # NoSeed => q.load, q.load => P.seeded \/ P.retried
  PROVE  Shape(P, TRUE) /\ Own(P)
<1>1. Len(P.queue) = 1 /\ P.queue[1] = q
  OBVIOUS
<1> QED BY <1>1 DEF Shape, Own, Busy, SeedNext

\* What Act makes of a process.
Asked(p, q) == [p EXCEPT !.used = TRUE, !.queue = Append(p.queue, q)]

LEMMA NextAskedSound ==
  ASSUME NEW p \in Proc, NEW P \in Proc, NEW q \in Request, ~q.load, q.seed = NoSeed,
         p.pooled, Shape(p, FALSE), Own(p),
         P = Asked(p, q)
  PROVE  Shape(P, TRUE) /\ Own(P)
<1>1. /\ P.queue = Append(p.queue, q) /\ P.io = p.io /\ P.site = p.site /\ P.pooled
      /\ P.alive = p.alive /\ P.retried = p.retried /\ P.wrote = p.wrote
      /\ P.store = p.store /\ P.loaded = p.loaded /\ P.seeded = p.seeded
  BY DEF Asked, Proc
<1>2. p.queue \in Seq(Request) /\ P.queue \in Seq(Request)
  BY DEF Proc
<1>3. p.site \in Sites
  BY DEF Shape, NoProc
<1>4. ASSUME NEW i \in 1 .. Len(P.queue)
      PROVE  /\ P.queue[i].seed # NoSeed => i = 1 /\ P.queue[i].load
             /\ P.queue[i].load => P.seeded \/ P.retried
  <2>1. CASE i \in 1 .. Len(p.queue)
    <3>1. P.queue[i] = p.queue[i]
      BY <1>1, <1>2, <2>1
    <3> QED BY <1>1, <2>1, <3>1 DEF Shape
  <2>2. CASE i = Len(p.queue) + 1
    BY <1>1, <1>2, <2>2
  <2> QED BY <1>1, <1>2, <2>1, <2>2
<1>5. SeedNext(P) => SeedNext(p)
  BY <1>1, <1>2 DEF SeedNext
<1>6. Shape(P, TRUE)
  BY <1>1, <1>3, <1>4, <1>5 DEF Shape, Busy
<1>7. Own(P)
  BY <1>1, <1>5 DEF Own
<1> QED BY <1>6, <1>7

LEMMA UiGInv ==
  ASSUME TypeOK, GInv, Ui, TypeOK'
  PROVE  GInv'
<1>1. ASSUME NEW s \in Sites, Begin(s) PROVE GInv'
  <2>1. /\ ui' = Idle /\ UiOK' /\ \A m \in Procs : ~Waited(m) /\ ~Waited(m)'
    BY <1>1, Values DEF Begin, UiOK, Waited
  <2>2. ASSUME NEW n \in Procs, proc[n].pooled, proc' = [proc EXCEPT ![n] = QueueLoad(@)]
        PROVE  GInv'
    <3>1. PICK p \in Proc : p = proc[n]
      BY DEF TypeOK
    <3>2. Shape(p, FALSE) /\ Own(p) /\ p.site \in Sites /\ p.pooled
      BY <2>1, <2>2, <3>1 DEF GInv, Shape, NoProc
    <3>3. Shape(QueueLoad(p), FALSE) /\ Own(QueueLoad(p))
      BY <3>2, QueueLoadSound
    <3>4. PICK P : P = QueueLoad(p)
      OBVIOUS
    <3>5. proc' = [proc EXCEPT ![n] = P] /\ Shape(P, Waited(n)') /\ Own(P)
      BY <2>1, <2>2, <3>1, <3>3, <3>4 DEF Shape
    <3> QED BY <2>1, <3>5, PutGInv
  <2>3. ASSUME NEW n \in Procs, proc' = [proc EXCEPT ![n] = QueueLoad(Spawned(s))]
        PROVE  GInv'
    <3>1. PICK p \in Proc : p = Spawned(s)
      BY Values
    <3>2. Shape(QueueLoad(p), FALSE) /\ Own(QueueLoad(p))
      BY <3>1, QueueLoadSound, SpawnedIsSound
    <3>3. PICK P : P = QueueLoad(p)
      OBVIOUS
    <3>4. proc' = [proc EXCEPT ![n] = P] /\ Shape(P, Waited(n)') /\ Own(P)
      BY <2>1, <2>3, <3>1, <3>2, <3>3 DEF Shape
    <3> QED BY <2>1, <3>4, PutGInv
  <2> QED BY <1>1, <2>2, <2>3 DEF Begin
<1>2. ASSUME NEW s \in Sites, Startup(s) PROVE GInv'
  <2>1. PICK q : q = [load |-> TRUE, seed |-> Seed]
    OBVIOUS
  <2>2. q \in Request /\ q.load
    BY <2>1, FileTyped DEF Request
  <2>3. PICK P : P = [[Spawned(s) EXCEPT !.seeded = TRUE, !.used = TRUE]
                        EXCEPT !.queue = Append(@, q)]
    OBVIOUS
  <2>4. /\ proc' = [proc EXCEPT ![1] = P] /\ 1 \in Procs
        /\ ui' = [on |-> 1, asked |-> q, again |-> FALSE] /\ ui' \in Wait
    BY <1>2, <2>1, <2>2, <2>3, Values DEF Startup, Ask, Wait
  <2>5. /\ P.site = s /\ P.pooled /\ P.io = "ready" /\ P.queue = <<q>> /\ P.wrote = 0
        /\ ~P.loaded /\ P.seeded
    BY <2>3 DEF Spawned, NoProc
  <2>6. P \in Proc /\ proc'[1] = P
    BY <2>4, Replaced DEF TypeOK
  <2>7. Shape(P, TRUE) /\ Own(P) /\ Waited(1)'
    BY <2>2, <2>4, <2>5, <2>6, FirstAskedSound DEF Waited
  <2>8. UiOK'
    BY <2>2, <2>4, <2>5, <2>6, Values DEF UiOK
  <2>9. \A m \in Procs : ~Waited(m)
    BY <1>2, Values DEF Startup, Waited
  <2>10. Shape(P, Waited(1)')
    BY <2>7
  <2> QED BY <2>4, <2>7, <2>8, <2>9, <2>10, PutGInv
<1>3. ASSUME NEW n \in Procs, Act(n) PROVE GInv'
  <2>1. PICK q : q = [load |-> FALSE, seed |-> NoSeed]
    OBVIOUS
  <2>2. q \in Request /\ ~q.load /\ q.seed = NoSeed
    BY <2>1 DEF Request
  <2>3. PICK p \in Proc : p = proc[n] /\ p.pooled
    BY <1>3 DEF TypeOK, Act
  <2>4. PICK P : P = Asked(p, q)
    OBVIOUS
  <2>5. /\ proc' = [proc EXCEPT ![n] = P] /\ ui = Idle
        /\ ui' = [on |-> n, asked |-> q, again |-> FALSE] /\ ui' \in Wait
    <3>1. [[p EXCEPT !.used = TRUE] EXCEPT !.queue = Append(@, q)] = P
      BY <2>4 DEF Asked, Proc
    <3> QED BY <1>3, <2>1, <2>2, <2>3, <3>1 DEF Act, Ask, Wait
  <2>6. P \in Proc /\ proc'[n] = P /\ P.pooled
    BY <2>3, <2>4, <2>5, Replaced DEF TypeOK, Asked, Proc
  <2>7. \A m \in Procs : ~Waited(m)
    BY <2>5, Values DEF Waited
  <2>8. Shape(p, FALSE) /\ Own(p)
    BY <2>3, <2>7 DEF GInv, Shape
  <2>9. Shape(P, TRUE) /\ Own(P) /\ Waited(n)'
    BY <2>2, <2>3, <2>4, <2>5, <2>6, <2>8, NextAskedSound DEF Waited
  <2>10. UiOK' /\ Shape(P, Waited(n)')
    BY <2>2, <2>5, <2>6, <2>9, Values DEF UiOK
  <2> QED BY <2>5, <2>7, <2>9, <2>10, PutGInv
<1>4. ASSUME NEW n \in Procs, Evict(n) PROVE GInv'
  <2>1. ui = Idle /\ ui' = Idle /\ \A m \in Procs : ~Waited(m) /\ ~Waited(m)'
    BY <1>4, Values DEF Evict, Waited
  <2>2. PICK p \in Proc : p = proc[n] /\ p.pooled
    BY <1>4 DEF TypeOK, Evict
  <2>3. PICK P : P = IF Busy(p) THEN [p EXCEPT !.pooled = FALSE, !.alive = FALSE, !.queue = <<>>]
                     ELSE NoProc
    OBVIOUS
  <2>4. proc' = [proc EXCEPT ![n] = P]
    BY <1>4, <2>2, <2>3 DEF Evict
  <2>5. Shape(P, Waited(n)') /\ Own(P)
    <3>1. CASE Busy(p)
      <4>1. /\ P.queue = <<>> /\ ~P.pooled /\ ~P.alive /\ P.io = p.io /\ P.site = p.site
            /\ P.retried = p.retried /\ P.wrote = p.wrote
            /\ P.store = p.store /\ P.loaded = p.loaded /\ P.seeded = p.seeded
        BY <2>3, <3>1 DEF Proc
      <4>2. Shape(p, FALSE) /\ Own(p) /\ p.site \in Sites
        BY <2>1, <2>2 DEF GInv, Shape, NoProc
      <4> QED BY <3>1, <4>1, <4>2 DEF Shape, Own, Busy, SeedNext, Quiet
    <3>2. CASE ~Busy(p)
      BY <2>3, <3>2, NoProcIsSound DEF Waited
    <3> QED BY <3>1, <3>2
  <2>6. UiOK'
    BY <2>1, Values DEF UiOK
  <2> QED BY <2>1, <2>4, <2>5, <2>6, PutGInv
<1>5. CASE Returns
  <2>1. ui' = Idle /\ proc' = proc /\ ui \in Wait /\ Quiet(proc[ui.on])
    BY <1>5 DEF Returns
  <2>2. \A m \in Procs : ~Waited(m)' /\ (Waited(m) => Quiet(proc[m]))
    BY <2>1, Values DEF Waited
  <2>3. UiOK'
    BY <2>1, Values DEF UiOK
  <2> QED BY <2>1, <2>2, <2>3 DEF GInv, Shape
<1>6. CASE Respawn
  <2>1. PICK n \in Procs, q \in Request : n = ui.on /\ q = ui.asked /\ ui \in Wait
    BY <1>6 DEF Respawn, Wait
  <2>2. proc[n].pooled /\ (q.seed # NoSeed => q.load) /\ proc[n].site \in Sites
    BY <2>1 DEF GInv, UiOK, Shape, NoProc
  <2>3. PICK s \in Sites : s = proc[n].site
    BY <2>2
  <2>4. PICK P : P = [[Spawned(s) EXCEPT !.used = TRUE, !.retried = q.load]
                        EXCEPT !.queue = Append(@, q)]
    OBVIOUS
  <2>5. /\ proc' = [proc EXCEPT ![n] = P]
        /\ ui' = [on |-> n, asked |-> q, again |-> TRUE] /\ ui' \in Wait
    BY <1>6, <2>1, <2>3, <2>4 DEF Respawn, Ask, Wait
  <2>6. /\ P.site = s /\ P.pooled /\ P.io = "ready" /\ P.queue = <<q>> /\ P.wrote = 0
        /\ ~P.loaded /\ P.retried = q.load
    BY <2>4 DEF Spawned, NoProc
  <2>7. P \in Proc /\ proc'[n] = P
    BY <2>5, Replaced DEF TypeOK
  <2>8. Shape(P, TRUE) /\ Own(P) /\ Waited(n)'
    BY <2>2, <2>5, <2>6, <2>7, FirstAskedSound DEF Waited
  <2>9. UiOK' /\ Shape(P, Waited(n)')
    BY <2>2, <2>5, <2>6, <2>7, <2>8, Values DEF UiOK
  <2>10. \A m \in Procs \ {n} : ~Waited(m)
    BY <2>1 DEF Waited
  <2> QED BY <2>5, <2>8, <2>9, <2>10, PutGInv
<1> QED BY <1>1, <1>2, <1>3, <1>4, <1>5, <1>6 DEF Ui

\* A request of p has been served, which leaves P.
Served(p, P) ==
  /\ P.queue = Tail(p.queue) /\ P.io \in {"read", "ready"}
  /\ P.site = p.site /\ P.pooled = p.pooled /\ P.alive = p.alive
  /\ P.retried = p.retried /\ P.seeded = p.seeded

\* The queue goes on, and what follows has no seed.
LEMMA ServedQueue ==
  ASSUME NEW p \in Proc, p.queue # <<>>, NEW P, Served(p, P), NEW w \in BOOLEAN, Shape(p, w)
  PROVE  /\ P.queue \in Seq(Request) /\ ~SeedNext(P)
         /\ \A i \in 1 .. Len(P.queue) : /\ P.queue[i] = p.queue[i + 1]
                                         /\ i + 1 \in 1 .. Len(p.queue)
                                         /\ P.queue[i].seed = NoSeed
                                         /\ P.queue[i].load => P.seeded \/ P.retried
<1>1. /\ p.queue \in Seq(Request) /\ P.queue \in Seq(Request)
      /\ \A i \in 1 .. Len(P.queue) : P.queue[i] = p.queue[i + 1] /\ i + 1 \in 1 .. Len(p.queue)
  BY DEF Served, Proc
<1>2. ASSUME NEW i \in 1 .. Len(P.queue)
      PROVE  P.queue[i].seed = NoSeed /\ (P.queue[i].load => P.seeded \/ P.retried)
  <2>1. P.queue[i] = p.queue[i + 1] /\ i + 1 \in 1 .. Len(p.queue) /\ i + 1 # 1
    BY <1>1
  <2> QED BY <2>1 DEF Shape, Served
<1>3. ~SeedNext(P)
  BY <1>1, <1>2 DEF SeedNext
<1> QED BY <1>1, <1>2, <1>3

LEMMA ServedShape ==
  ASSUME NEW p \in Proc, p.queue # <<>>, NEW P, Served(p, P), NEW w \in BOOLEAN, Shape(p, w),
         p.io = "ready", p.site \in Sites
  PROVE  Shape(P, w) /\ ~SeedNext(P)
<1>1. ~SeedNext(P) /\ \A i \in 1 .. Len(P.queue) :
         P.queue[i].seed = NoSeed /\ (P.queue[i].load => P.seeded \/ P.retried)
  BY ServedQueue
<1>2. ~p.seeded => w
  BY DEF Shape, Quiet
<1>3. p.pooled
  BY SitesAssumption DEF Shape, Busy, NoProc
<1> QED BY <1>1, <1>2, <1>3 DEF Shape, Served

LEMMA ServeGInv ==
  ASSUME TypeOK, GInv, NEW n \in Procs, Serve(n)
  PROVE  GInv'
<1>1. PICK p \in Proc, q \in Request, t \in Store, ok \in BOOLEAN :
           /\ p = proc[n] /\ p.io = "ready" /\ p.queue # <<>> /\ p.alive
           /\ p.queue[1] = q /\ p.site \in Sites
           /\ t = (IF q.seed # NoSeed THEN Merge(p.store, q.seed) ELSE p.store)
           /\ q.load \/ ok = p.loaded
           /\ \/ /\ proc' = [proc EXCEPT ![n] = Handled(p, t, p.wrote, q.seed # NoSeed, ok)]
                 /\ UNCHANGED <<latest, cleared, writes>>
              \/ /\ q.load \/ p.loaded
                 /\ Sets(n, p, t, ok) \/ Clears(n, p, t, ok)
           /\ UNCHANGED <<file, ui, shared, mixed, cut, requests, faults>>
  BY ServeSteps
<1>2. PICK w \in BOOLEAN : w = Waited(n)
  BY DEF Waited
<1>3. Shape(p, w) /\ Own(p)
  BY <1>1, <1>2 DEF GInv
<1>4. (q.load => p.seeded \/ p.retried) /\ SeedNext(p) = (q.seed # NoSeed)
  <2>1. 1 \in 1 .. Len(p.queue)
    BY <1>1 DEF Proc
  <2> QED BY <1>1, <1>3, <2>1 DEF Shape, SeedNext
<1>5. p # NoProc
  BY <1>1 DEF NoProc
\* The page leaves its storage alone, ...
<1>6. CASE proc' = [proc EXCEPT ![n] = Handled(p, t, p.wrote, q.seed # NoSeed, ok)]
  <2>1. PICK P : P = Handled(p, t, p.wrote, q.seed # NoSeed, ok)
    OBVIOUS
  <2>2. Served(p, P)
    BY <2>1 DEF Served, Handled, Proc
  <2>3. Shape(P, w) /\ ~SeedNext(P)
    BY <1>1, <1>3, <2>2, ServedShape
  <2>4. P.wrote = p.wrote /\ P.store = t /\ P.loaded = ok
    BY <2>1 DEF Handled, Proc
  <2>5. Own(P)
    BY <1>1, <1>3, <1>4, <2>2, <2>3, <2>4 DEF Own, Served
  <2> QED BY <1>1, <1>2, <1>5, <1>6, <2>1, <2>2, <2>3, <2>5, PutGInvIo DEF Served
\* ... sets an item, ...
<1>7. CASE (q.load \/ p.loaded) /\ Sets(n, p, t, ok)
  <2>1. PICK P : P = Handled(p, [t EXCEPT ![p.site] = writes + 1], writes + 1, TRUE, ok)
    OBVIOUS
  <2>2. Served(p, P)
    BY <2>1 DEF Served, Handled, Proc
  <2>3. Shape(P, w) /\ ~SeedNext(P)
    BY <1>1, <1>3, <2>2, ServedShape
  <2>4. P.wrote = writes + 1 /\ P.store = [t EXCEPT ![p.site] = writes + 1]
    BY <2>1 DEF Handled, Proc
  <2>5. P.store[P.site] = P.wrote
    BY <1>1, <2>2, <2>4 DEF Store, Served
  <2>6. Own(P)
    BY <1>1, <1>3, <1>4, <1>7, <2>2, <2>3, <2>5 DEF Own, Served
  <2> QED BY <1>1, <1>2, <1>5, <1>7, <2>1, <2>2, <2>3, <2>6, PutGInvIo DEF Sets, Served
\* ... or clears it.
<1>8. CASE (q.load \/ p.loaded) /\ Clears(n, p, t, ok)
  <2>1. PICK P : P = Handled(p, [t EXCEPT ![p.site] = 0], 0, TRUE, ok)
    OBVIOUS
  <2>2. Served(p, P)
    BY <2>1 DEF Served, Handled, Proc
  <2>3. Shape(P, w) /\ ~SeedNext(P)
    BY <1>1, <1>3, <2>2, ServedShape
  <2>4. P.wrote = 0
    BY <2>1 DEF Handled, Proc
  <2>5. Own(P)
    BY <1>1, <1>3, <1>4, <1>8, <2>2, <2>3, <2>4 DEF Own, Served
  <2>6. proc' = [proc EXCEPT ![n] = P] /\ ui' = ui
    BY <1>1, <1>8, <2>1 DEF Clears
  <2>7. P.pooled = proc[n].pooled /\ Shape(P, Waited(n)) /\ proc[n] # NoProc
    BY <1>1, <1>2, <1>5, <2>2, <2>3 DEF Served
  <2> QED BY <2>5, <2>6, <2>7, PutGInvIo
<1> QED BY <1>1, <1>6, <1>7, <1>8

LEMMA SavedSound ==
  ASSUME NEW p \in Proc, NEW w \in BOOLEAN, Shape(p, w), Own(p), Busy(p)
  PROVE  Shape(Saved(p), w) /\ Own(Saved(p)) /\ Saved(p).pooled = p.pooled
<1>1. CASE p.pooled
  <2>1. PICK P : P = [p EXCEPT !.io = "ready", !.data = NoData]
    OBVIOUS
  <2>2. Saved(p) = P
    BY <1>1, <2>1 DEF Saved
  <2>3. /\ P.io = "ready" /\ P.queue = p.queue /\ P.site = p.site /\ P.pooled
        /\ P.alive = p.alive /\ P.retried = p.retried /\ P.wrote = p.wrote
        /\ P.store = p.store /\ P.loaded = p.loaded /\ P.seeded = p.seeded
    BY <1>1, <2>1 DEF Proc
  <2>4. p.site \in Sites
    BY <1>1 DEF Shape, NoProc
  <2>5. Shape(P, w) /\ Own(P)
    BY <2>3, <2>4 DEF Shape, Own, Busy, SeedNext, Quiet
  <2> QED BY <1>1, <2>2, <2>3, <2>5
<1>2. CASE ~p.pooled
  <2>1. Saved(p) = NoProc /\ NoProc.pooled = FALSE /\ p.pooled = FALSE
    BY <1>2 DEF Saved, NoProc, Proc
  <2> QED BY <2>1, NoProcIsSound
<1> QED BY <1>1, <1>2

LEMMA IoGInv ==
  ASSUME TypeOK, GInv, NEW n \in Procs, Io(n) \/ ChildDies(n)
  PROVE  GInv'
<1>1. PICK p \in Proc, w \in BOOLEAN : p = proc[n] /\ w = Waited(n)
  BY DEF TypeOK, Waited
<1>2. Shape(p, w) /\ Own(p)
  BY <1>1 DEF GInv
<1>3. CASE Serve(n)
  BY <1>3, ServeGInv
<1>4. CASE Breaks(n)
  <2>1. PICK P : P = [p EXCEPT !.io = "none", !.queue = <<>>]
    OBVIOUS
  <2>2. /\ P.io = "none" /\ P.queue = <<>> /\ P.site = p.site /\ P.pooled = p.pooled
        /\ P.alive = p.alive /\ P.retried = p.retried /\ P.wrote = p.wrote
        /\ P.store = p.store /\ P.loaded = p.loaded /\ P.seeded = p.seeded
    BY <2>1 DEF Proc
  <2>3. ~p.alive /\ p # NoProc /\ p.queue # <<>> /\ p.io = "ready" /\ ui' = ui
    BY <1>1, <1>4 DEF Breaks, NoProc
  <2>4. proc' = [proc EXCEPT ![n] = P]
    BY <1>1, <1>4, <2>1 DEF Breaks
  <2>5. Shape(P, w) /\ Own(P)
    BY <1>2, <2>2, <2>3 DEF Shape, Own, Busy, SeedNext, Quiet
  <2> QED BY <1>1, <2>2, <2>3, <2>4, <2>5, PutGInvIo
<1>5. ASSUME NEW P, NEW i \in {"read", "open", "write"}, NEW j \in {"read", "open", "write"},
             NEW d, p.io = i, P = [p EXCEPT !.data = d, !.io = j],
             proc' = [proc EXCEPT ![n] = P], ui' = ui
      PROVE  GInv'
  <2>1. /\ P.io = j /\ P.queue = p.queue /\ P.site = p.site /\ P.pooled = p.pooled
        /\ P.alive = p.alive /\ P.retried = p.retried /\ P.wrote = p.wrote
        /\ P.store = p.store /\ P.loaded = p.loaded /\ P.seeded = p.seeded
    BY <1>5 DEF Proc
  <2>2. p # NoProc /\ Busy(p) /\ Busy(P)
    BY <1>5, <2>1 DEF NoProc, Busy
  <2>3. Shape(P, w) /\ Own(P)
    BY <1>2, <1>5, <2>1, <2>2 DEF Shape, Own, SeedNext, Quiet
  <2> QED BY <1>1, <1>5, <2>1, <2>2, <2>3, PutGInvIo
<1>6. CASE PersistRead(n)
  <2>1. PICK P : P = [p EXCEPT !.data = Merge(Loaded, p.data), !.io = "open"]
    OBVIOUS
  <2>2. p.io = "read" /\ proc' = [proc EXCEPT ![n] = P] /\ ui' = ui
    BY <1>1, <1>6, <2>1 DEF PersistRead
  <2> QED BY <1>5, <2>1, <2>2
<1>7. CASE PersistOpen(n)
  <2>1. PICK P : P = [p EXCEPT !.data = p.data, !.io = "write"]
    OBVIOUS
  <2>2. p.io = "open" /\ proc' = [proc EXCEPT ![n] = P] /\ ui' = ui
    <3>1. P = [p EXCEPT !.io = "write"]
      BY <2>1 DEF Proc
    <3> QED BY <1>1, <1>7, <3>1 DEF PersistOpen, ghosts
  <2> QED BY <1>5, <2>1, <2>2
<1>8. CASE PersistWrite(n) \/ PersistFails(n)
  <2>1. PICK P : P = Saved(p)
    OBVIOUS
  <2>2. p.io = "write" /\ proc' = [proc EXCEPT ![n] = P] /\ ui' = ui
    BY <1>1, <1>8, <2>1 DEF PersistWrite, PersistFails
  <2>3. Busy(p) /\ p # NoProc
    BY <2>2 DEF Busy, NoProc
  <2>4. Shape(P, w) /\ Own(P) /\ P.pooled = p.pooled
    BY <1>2, <2>1, <2>3, SavedSound
  <2> QED BY <1>1, <2>2, <2>3, <2>4, PutGInvIo
<1>9. CASE ChildDies(n)
  <2>1. PICK P : P = [p EXCEPT !.alive = FALSE, !.loaded = FALSE, !.store = NoData, !.wrote = 0]
    OBVIOUS
  <2>2. /\ P.io = p.io /\ P.queue = p.queue /\ P.site = p.site /\ P.pooled = p.pooled
        /\ ~P.alive /\ P.retried = p.retried /\ P.wrote = 0 /\ ~P.loaded /\ P.seeded = p.seeded
    BY <2>1 DEF Proc
  <2>3. p.alive /\ p # NoProc /\ ui' = ui
    BY <1>1, <1>9 DEF ChildDies, NoProc
  <2>4. proc' = [proc EXCEPT ![n] = P]
    BY <1>1, <1>9, <2>1 DEF ChildDies
  <2>5. Shape(P, w) /\ Own(P)
    BY <1>2, <2>2, <2>3 DEF Shape, Own, Busy, SeedNext, Quiet
  <2> QED BY <1>1, <2>2, <2>3, <2>4, <2>5, PutGInvIo
<1> QED BY <1>3, <1>4, <1>6, <1>7, <1>8, <1>9 DEF Io

LEMMA NextGInv == ASSUME TypeOK, GInv, [Next]_vars, TypeOK' PROVE GInv'
<1>1. CASE Exit
  <2>1. \A n \in Procs : proc'[n] = NoProc
    BY <1>1 DEF Exit
  <2>2. ui' = New /\ ui' \notin Wait /\ \A n \in Procs : Waited(n)' \in BOOLEAN
    BY <1>1, Values DEF Exit, Waited
  <2> QED BY <2>1, <2>2, NoProcIsSound DEF GInv, UiOK
<1>2. CASE UNCHANGED vars
  BY <1>2 DEF vars, GInv, UiOK, Waited
<1> QED BY <1>1, <1>2, UiGInv, IoGInv DEF Next
-----------------------------------------------------------------------------
(* Processes that follow one another                                       *)

LEMMA NoProcStores ==
  ASSUME NEW f, NEW l
  PROVE  ~Busy(NoProc) /\ Saving(NoProc, f, l) /\ Storing(NoProc, f, l)
BY Values DEF NoProc, Busy, Saving, Storing, SeedNext

\* A step that puts P in the place of process n, the only one there is.
LEMMA PutXInv ==
  ASSUME TypeOK, NEW n \in Procs, NEW P, proc' = [proc EXCEPT ![n] = P],
         \A m \in Procs \ {n} : proc[m] = NoProc,
         ~Busy(P) => Loaded' = latest', AskedOK',
         Saving(P, file', latest'), Storing(P, file', latest')
  PROVE  XInv'
<1>1. proc'[n] = P /\ \A m \in Procs \ {n} : proc'[m] = NoProc
  BY Replaced
<1>2. One' /\ Disk'
  BY <1>1 DEF One, Disk
<1>3. ASSUME NEW m \in Procs
      PROVE  Saving(proc'[m], file', latest') /\ Storing(proc'[m], file', latest')
  <2>1. PICK f : f = file'
    OBVIOUS
  <2>2. PICK l : l = latest'
    OBVIOUS
  <2>3. Saving(NoProc, f, l) /\ Storing(NoProc, f, l)
    BY NoProcStores
  <2> QED BY <1>1, <2>1, <2>2, <2>3
<1> QED BY <1>2, <1>3 DEF XInv

\* A process of the pool is the only one.
LEMMA OnlyOne ==
  ASSUME XInv, InTurn, NEW n \in Procs, proc[n].pooled \/ proc[n].io # "none"
  PROVE  proc[n] # NoProc /\ \A m \in Procs \ {n} : proc[m] = NoProc
<1>1. proc[n] # NoProc
  BY DEF NoProc
<1> QED BY <1>1 DEF XInv, One

\* Nobody is in the middle of a save, if n is not and is the only one.
LEMMA DiskIs ==
  ASSUME Disk, NEW n \in Procs, \A m \in Procs \ {n} : proc[m] = NoProc
  PROVE  ~Busy(proc[n]) => Loaded = latest
BY NoProcStores DEF Disk

LEMMA QueueLoadStores ==
  ASSUME TypeOK, NEW p \in Proc, p.site \in Sites, Shape(p, FALSE),
         ~Busy(p) => Loaded = latest, Saving(p, file, latest), Storing(p, file, latest)
  PROVE  /\ Saving(QueueLoad(p), file, latest) /\ Storing(QueueLoad(p), file, latest)
         /\ Busy(QueueLoad(p)) <=> Busy(p)
<1>1. PICK q : q = [load |-> TRUE, seed |-> IF p.seeded THEN NoSeed ELSE Seed]
  OBVIOUS
<1>2. q.load /\ q.seed = IF p.seeded THEN NoSeed ELSE Seed
  BY <1>1
<1>3. PICK Q : Q = IF p.io = "none" THEN p.queue ELSE Append(p.queue, q)
  OBVIOUS
<1>4. PICK P : P = [p EXCEPT !.seeded = TRUE, !.queue = Q]
  OBVIOUS
<1>5. QueueLoad(p) = P
  BY <1>1, <1>3, <1>4 DEF QueueLoad
<1>6. /\ P.queue = Q /\ P.io = p.io /\ P.site = p.site /\ P.alive = p.alive /\ P.wrote = p.wrote
      /\ P.store = p.store /\ P.loaded = p.loaded /\ P.data = p.data
  BY <1>4 DEF Proc
<1>7. ~p.seeded => p.queue = <<>> /\ ~Busy(p)
  BY DEF Shape, Quiet
<1>8. p.queue \in Seq(Request) /\ (p.queue # <<>> => Q # <<>> /\ Q[1] = p.queue[1])
      /\ (p.queue = <<>> /\ p.io # "none" => Q # <<>> /\ Q[1] = q)
      /\ (p.queue = <<>> /\ p.io = "none" => Q = <<>>)
  BY <1>3 DEF Proc
<1>9. SeedNext(P) => P.queue[1].seed = file
  <2>1. CASE p.queue # <<>>
    BY <1>6, <1>8, <2>1 DEF SeedNext, Storing
  <2>2. CASE p.queue = <<>>
    BY <1>2, <1>6, <1>8, <2>2, FileTyped DEF SeedNext
  <2> QED BY <2>1, <2>2
<1>10. ASSUME p.alive PROVE Fresh(P, latest)
  <2>1. Fresh(p, latest) /\ p.io # "none"
    BY <1>10 DEF Storing, Shape
  <2>2. CASE p.store[p.site] = latest[p.site]
    BY <1>6, <2>2 DEF Fresh
  <2>3. CASE SeedNext(p)
    BY <1>6, <1>8, <2>3 DEF SeedNext, Fresh
  <2>4. CASE ~p.seeded
    <3>1. CASE Seed # NoSeed
      BY <1>2, <1>6, <1>7, <1>8, <2>1, <2>4, <3>1 DEF SeedNext, Fresh
    <3>2. CASE Seed = NoSeed
      <4>1. latest[p.site] = 0
        BY <1>7, <2>4, <3>2, FileTyped, Values
      <4>2. p.store[p.site] = latest[p.site]
        BY <4>1 DEF Storing
      <4> QED BY <1>6, <4>2 DEF Fresh
    <3> QED BY <3>1, <3>2
  <2> QED BY <2>1, <2>2, <2>3, <2>4 DEF Fresh
<1>11. Storing(P, file, latest)
  BY <1>6, <1>9, <1>10 DEF Storing
<1>12. Saving(P, file, latest)
  BY <1>6 DEF Saving
<1> QED BY <1>5, <1>6, <1>11, <1>12 DEF Busy

\* A fresh process is asked for q: a load with the seed of now, or what its
\* predecessor did not answer.
LEMMA FirstAskedStores ==
  ASSUME TypeOK, NEW P, NEW q, P.site \in Sites, P.io = "ready", P.queue = <<q>>, P.wrote = 0,
         ~P.loaded, P.store = NoData, Loaded = latest,
         \/ q.load /\ q.seed = Seed
         \/ ~q.load /\ q.seed = NoSeed /\ ~P.seeded
  PROVE  Saving(P, file, latest) /\ Storing(P, file, latest)
<1>1. P.queue # <<>> /\ P.queue[1] = q /\ Len(P.queue) = 1
  OBVIOUS
<1>2. SeedNext(P) => q.seed = file
  BY <1>1, FileTyped DEF SeedNext
<1>3. Fresh(P, latest)
  <2>1. CASE q.load /\ q.seed = Seed /\ Seed = NoSeed
    BY <2>1, FileTyped DEF Fresh
  <2>2. CASE q.load /\ q.seed = Seed /\ Seed # NoSeed
    BY <1>1, <2>2 DEF Fresh, SeedNext
  <2>3. CASE ~q.load /\ ~P.seeded
    BY <1>1, <2>3 DEF Fresh
  <2> QED BY <2>1, <2>2, <2>3
<1> QED BY <1>1, <1>2, <1>3, Values DEF Storing, Saving

LEMMA NextAskedStores ==
  ASSUME TypeOK, NEW p \in Proc, NEW q \in Request, ~q.load, q.seed = NoSeed, NEW P,
         P = Asked(p, q),
         Saving(p, file, latest), Storing(p, file, latest)
  PROVE  Saving(P, file, latest) /\ Storing(P, file, latest) /\ (Busy(P) <=> Busy(p))
<1>1. /\ P.queue = Append(p.queue, q) /\ P.io = p.io /\ P.site = p.site /\ P.data = p.data
      /\ P.alive = p.alive /\ P.wrote = p.wrote
      /\ P.store = p.store /\ P.loaded = p.loaded /\ P.seeded = p.seeded
  BY DEF Asked, Proc
<1>2. p.queue \in Seq(Request) /\ P.queue \in Seq(Request)
  BY <1>1 DEF Proc
<1>3. SeedNext(P) = SeedNext(p) /\ (SeedNext(p) => P.queue[1] = p.queue[1])
  BY <1>1, <1>2 DEF SeedNext
<1>4. (\A i \in 1 .. Len(p.queue) : ~p.queue[i].load) => \A i \in 1 .. Len(P.queue) : ~P.queue[i].load
  <2> SUFFICES ASSUME \A i \in 1 .. Len(p.queue) : ~p.queue[i].load, NEW i \in 1 .. Len(P.queue)
               PROVE  ~P.queue[i].load
    OBVIOUS
  <2> QED BY <1>1, <1>2
<1>5. Fresh(p, latest) => Fresh(P, latest)
  BY <1>1, <1>3, <1>4 DEF Fresh
<1> QED BY <1>1, <1>3, <1>5 DEF Storing, Saving, Busy

LEMMA UiXInv ==
  ASSUME TypeOK, GInv, XInv, Ui, TypeOK', InTurn'
  PROVE  XInv'
<1>1. ASSUME NEW s \in Sites, Begin(s) PROVE XInv'
  <2>1. ui' = Idle /\ AskedOK' /\ file' = file /\ latest' = latest /\ \A m \in Procs : ~Waited(m)
    BY <1>1, Values DEF Begin, AskedOK, Waited
  <2>2. InTurn
    <3>1. shared' = shared \/ shared' = (shared \/ Running # {})
      BY <1>1 DEF Begin
    <3>2. cut' = cut /\ cleared' = cleared
      BY <1>1 DEF Begin
    <3>3. shared \in BOOLEAN /\ ~shared'
      BY DEF TypeOK, InTurn
    <3>4. ~shared
      BY <3>1, <3>3
    <3> QED BY <3>2, <3>4 DEF InTurn
  <2>3. Loaded' = Loaded
    BY <2>1 DEF Loaded, Readable
  <2>4. ASSUME NEW n \in Procs, proc[n].pooled, proc' = [proc EXCEPT ![n] = QueueLoad(@)]
        PROVE  XInv'
    <3>1. PICK p \in Proc : p = proc[n] /\ p.pooled
      BY <2>4 DEF TypeOK
    <3>2. PICK P : P = QueueLoad(p)
      OBVIOUS
    <3>3. Shape(p, FALSE) /\ p.site \in Sites /\ p # NoProc
      BY <2>1, <3>1 DEF GInv, Shape, NoProc
    <3>4. \A m \in Procs \ {n} : proc[m] = NoProc
      BY <2>2, <3>1, OnlyOne
    <3>5. ~Busy(p) => Loaded = latest
      BY <2>2, <3>1, <3>4, DiskIs DEF XInv
    <3>6. Saving(p, file, latest) /\ Storing(p, file, latest)
      BY <2>2, <3>1 DEF XInv
    <3>7. Saving(P, file, latest) /\ Storing(P, file, latest) /\ (Busy(P) <=> Busy(p))
      BY <3>2, <3>3, <3>5, <3>6, QueueLoadStores
    <3>8. Saving(P, file', latest') /\ Storing(P, file', latest') /\ (~Busy(P) => Loaded' = latest')
      BY <2>1, <2>3, <3>5, <3>7
    <3>9. proc' = [proc EXCEPT ![n] = P]
      BY <2>4, <3>1, <3>2
    <3> QED BY <2>1, <3>4, <3>8, <3>9, PutXInv
  <2>5. ASSUME NEW n \in Procs, proc' = [proc EXCEPT ![n] = QueueLoad(Spawned(s))],
               shared' = (shared \/ Running # {})
        PROVE  XInv'
    <3>1. PICK p \in Proc : p = Spawned(s)
      BY Values
    <3>2. PICK P : P = QueueLoad(p)
      OBVIOUS
    <3>3. \A m \in Procs : proc[m] = NoProc
      <4>1. Running = {}
        BY <2>5 DEF InTurn
      <4>2. \A m \in Procs : ~Present(proc[m])
        BY <4>1 DEF Running
      <4> QED BY <4>2 DEF Present, GInv, Shape, Busy
    <3>4. Shape(p, FALSE) /\ p.site \in Sites
      BY <3>1, SpawnedIsSound
    <3>5. Loaded = latest
      BY <2>2, <3>3, NoProcStores DEF XInv, Disk
    <3>6. Saving(p, file, latest) /\ Storing(p, file, latest)
      <4>1. /\ p.io = "ready" /\ p.queue = <<>> /\ ~p.loaded /\ ~p.seeded /\ p.wrote = 0
            /\ p.store = NoData
        BY <3>1 DEF Spawned, NoProc
      <4> QED BY <4>1, Values DEF Saving, Storing, Fresh, SeedNext
    <3>7. Saving(P, file, latest) /\ Storing(P, file, latest)
      BY <3>2, <3>4, <3>5, <3>6, QueueLoadStores
    <3>8. Saving(P, file', latest') /\ Storing(P, file', latest') /\ Loaded' = latest'
      BY <2>1, <2>3, <3>5, <3>7
    <3>9. proc' = [proc EXCEPT ![n] = P]
      BY <2>5, <3>1, <3>2
    <3> QED BY <2>1, <3>3, <3>8, <3>9, PutXInv
  <2> QED BY <1>1, <2>4, <2>5 DEF Begin
<1>2. ASSUME NEW s \in Sites, Startup(s) PROVE XInv'
  <2>1. PICK q : q = [load |-> TRUE, seed |-> Seed]
    OBVIOUS
  <2>2. q \in Request /\ q.load /\ q.seed = Seed
    BY <2>1, FileTyped DEF Request
  <2>3. PICK P : P = [[Spawned(s) EXCEPT !.seeded = TRUE, !.used = TRUE]
                        EXCEPT !.queue = Append(@, q)]
    OBVIOUS
  <2>4. /\ proc' = [proc EXCEPT ![1] = P] /\ 1 \in Procs
        /\ ui' = [on |-> 1, asked |-> q, again |-> FALSE] /\ ui = New
        /\ file' = file /\ latest' = latest
    BY <1>2, <2>1, <2>3, Values DEF Startup, Ask, ghosts
  <2>5. /\ P.site = s /\ P.io = "ready" /\ P.queue = <<q>> /\ P.wrote = 0
        /\ ~P.loaded /\ P.seeded /\ P.store = NoData
    BY <2>3 DEF Spawned, NoProc
  <2>6. \A m \in Procs : proc[m] = NoProc
    BY <2>4 DEF GInv, UiOK
  <2>7. InTurn
    BY <1>2 DEF Startup, ghosts, InTurn
  <2>8. Loaded = latest
    BY <2>6, <2>7, NoProcStores DEF XInv, Disk
  <2>9. Saving(P, file, latest) /\ Storing(P, file, latest)
    BY <2>2, <2>5, <2>8, FirstAskedStores
  <2>10. Saving(P, file', latest') /\ Storing(P, file', latest') /\ Loaded' = latest' /\ Seed' = Seed
    BY <2>4, <2>8, <2>9 DEF Loaded, Readable, Seed
  <2>11. AskedOK'
    <3>1. proc'[1] = P
      BY <2>4, Replaced
    <3> QED BY <2>2, <2>4, <2>5, <2>10, <3>1 DEF AskedOK
  <2> QED BY <2>4, <2>6, <2>10, <2>11, PutXInv
<1>3. ASSUME NEW n \in Procs, Act(n) PROVE XInv'
  <2>1. PICK q : q = [load |-> FALSE, seed |-> NoSeed]
    OBVIOUS
  <2>2. q \in Request /\ ~q.load /\ q.seed = NoSeed
    BY <2>1 DEF Request
  <2>3. PICK p \in Proc : p = proc[n] /\ p.pooled
    BY <1>3 DEF TypeOK, Act
  <2>4. PICK P : P = Asked(p, q)
    OBVIOUS
  <2>5. /\ proc' = [proc EXCEPT ![n] = P] /\ file' = file /\ latest' = latest
        /\ ui' = [on |-> n, asked |-> q, again |-> FALSE]
    <3>1. [[p EXCEPT !.used = TRUE] EXCEPT !.queue = Append(@, q)] = P
      BY <2>4 DEF Asked, Proc
    <3> QED BY <1>3, <2>1, <2>3, <3>1 DEF Act, Ask, ghosts
  <2>6. InTurn
    BY <1>3 DEF Act, ghosts, InTurn
  <2>7. \A m \in Procs \ {n} : proc[m] = NoProc
    BY <2>3, <2>6, OnlyOne
  <2>8. ~Busy(p) => Loaded = latest
    BY <2>3, <2>6, <2>7, DiskIs DEF XInv
  <2>9. Saving(p, file, latest) /\ Storing(p, file, latest)
    BY <2>3, <2>6 DEF XInv
  <2>10. Saving(P, file, latest) /\ Storing(P, file, latest) /\ (Busy(P) <=> Busy(p))
    BY <2>2, <2>3, <2>4, <2>9, NextAskedStores
  <2>11. Saving(P, file', latest') /\ Storing(P, file', latest') /\ (~Busy(P) => Loaded' = latest')
    BY <2>5, <2>8, <2>10 DEF Loaded, Readable
  <2>12. AskedOK'
    BY <2>2, <2>5 DEF AskedOK
  <2> QED BY <2>5, <2>7, <2>11, <2>12, PutXInv
<1>4. ASSUME NEW n \in Procs, Evict(n) PROVE XInv'
  <2>1. PICK p \in Proc : p = proc[n] /\ p.pooled
    BY <1>4 DEF TypeOK, Evict
  <2>2. PICK P : P = IF Busy(p) THEN [p EXCEPT !.pooled = FALSE, !.alive = FALSE, !.queue = <<>>]
                     ELSE NoProc
    OBVIOUS
  <2>3. /\ proc' = [proc EXCEPT ![n] = P] /\ file' = file /\ latest' = latest
        /\ InTurn /\ AskedOK' /\ Loaded' = Loaded
    BY <1>4, <2>1, <2>2, Values DEF Evict, ghosts, InTurn, AskedOK, Loaded, Readable
  <2>4. \A m \in Procs \ {n} : proc[m] = NoProc
    BY <2>1, <2>3, OnlyOne
  <2>5. ~Busy(p) => Loaded = latest
    BY <2>1, <2>3, <2>4, DiskIs DEF XInv
  <2>6. Saving(p, file, latest) /\ Storing(p, file, latest)
    BY <2>1, <2>3 DEF XInv
  <2>7. Saving(P, file, latest) /\ Storing(P, file, latest) /\ (~Busy(P) => Loaded = latest)
    <3>1. CASE Busy(p)
      <4>1. /\ P.queue = <<>> /\ ~P.alive /\ P.io = p.io /\ P.site = p.site
            /\ P.wrote = p.wrote /\ P.store = p.store /\ P.loaded = p.loaded /\ P.data = p.data
        BY <2>2, <3>1 DEF Proc
      <4> QED BY <2>6, <3>1, <4>1 DEF Saving, Storing, SeedNext, Busy
    <3>2. CASE ~Busy(p)
      BY <2>2, <2>5, <3>2, NoProcStores
    <3> QED BY <3>1, <3>2
  <2>8. Saving(P, file', latest') /\ Storing(P, file', latest') /\ (~Busy(P) => Loaded' = latest')
    BY <2>3, <2>7
  <2> QED BY <2>3, <2>4, <2>8, PutXInv
<1>5. CASE Returns
  <2>1. ui' = Idle /\ UNCHANGED <<file, proc, latest>> /\ InTurn
    BY <1>5 DEF Returns, ghosts, InTurn
  <2>2. AskedOK'
    BY <2>1, Values DEF AskedOK
  <2> QED BY <2>1, <2>2 DEF XInv, One, Disk, Loaded, Readable
<1>6. CASE Respawn
  <2>1. PICK n \in Procs, q \in Request : n = ui.on /\ q = ui.asked /\ ui \in Wait
    BY <1>6 DEF Respawn, Wait
  <2>2. proc[n].pooled /\ (q.seed # NoSeed => q.load) /\ proc[n].site \in Sites
    BY <2>1 DEF GInv, UiOK, Shape, NoProc
  <2>3. PICK s \in Sites : s = proc[n].site
    BY <2>2
  <2>4. PICK P : P = [[Spawned(s) EXCEPT !.used = TRUE, !.retried = q.load]
                        EXCEPT !.queue = Append(@, q)]
    OBVIOUS
  <2>5. /\ proc' = [proc EXCEPT ![n] = P] /\ file' = file /\ latest' = latest
        /\ ui' = [on |-> n, asked |-> q, again |-> TRUE] /\ proc[n].io = "none"
    BY <1>6, <2>1, <2>3, <2>4 DEF Respawn, Ask, ghosts
  <2>6. /\ P.site = s /\ P.io = "ready" /\ P.queue = <<q>> /\ P.wrote = 0
        /\ ~P.loaded /\ ~P.seeded /\ P.store = NoData
    BY <2>4 DEF Spawned, NoProc
  <2>7. InTurn
    BY <1>6 DEF Respawn, ghosts, InTurn
  <2>8. \A m \in Procs \ {n} : proc[m] = NoProc
    BY <2>2, <2>7, OnlyOne
  <2>9. Loaded = latest
    <3>1. ~Busy(proc[n])
      BY <2>5 DEF Busy
    <3> QED BY <2>7, <2>8, <3>1, DiskIs DEF XInv
  <2>10. q.load => q.seed = Seed
    BY <2>1, <2>5, <2>7 DEF XInv, AskedOK
  <2>11. Saving(P, file, latest) /\ Storing(P, file, latest)
    BY <2>2, <2>6, <2>9, <2>10, FirstAskedStores
  <2>12. Saving(P, file', latest') /\ Storing(P, file', latest') /\ Loaded' = latest' /\ Seed' = Seed
    BY <2>5, <2>9, <2>11 DEF Loaded, Readable, Seed
  <2>13. AskedOK'
    <3>1. proc'[n] = P
      BY <2>5, Replaced
    <3> QED BY <2>5, <2>6, <2>10, <2>12, <3>1 DEF AskedOK
  <2> QED BY <2>5, <2>8, <2>12, <2>13, PutXInv
<1> QED BY <1>1, <1>2, <1>3, <1>4, <1>5, <1>6 DEF Ui

\* What a served request leaves, if t is what its pages found, with the seed:
\* the store U, v the write that made it or what it was, and the file to come.
LEMMA ServedStores ==
  ASSUME NEW p \in Proc, p.queue # <<>>, p.site \in Sites, NEW P, Served(p, P),
         ~SeedNext(P), NEW f, NEW l \in Store,
         P.store \in Store, P.io = "read" => P.data = P.store,
         \A s \in Sites : P.store[s] # 0 => P.store[s] = l[s],
         \A s \in Sites : P.io = "read" /\ P.store[s] = 0 => LoadedOf(f)[s] = l[s],
         P.wrote # 0 => P.wrote = l[p.site] /\ P.store[p.site] = P.wrote,
         P.loaded => P.store[p.site] = l[p.site],
         p.alive => P.store[p.site] = l[p.site] \/ (~P.seeded /\ ~P.loaded
                      /\ \A i \in 1 .. Len(P.queue) : ~P.queue[i].load)
  PROVE  Saving(P, f, l) /\ Storing(P, f, l)
<1>1. P.io = "read" => Merge(LoadedOf(f), P.data) = l
  <2> SUFFICES ASSUME P.io = "read" PROVE Merge(LoadedOf(f), P.store) = l
    OBVIOUS
  <2>1. \A s \in Sites : (IF P.store[s] # 0 THEN P.store[s] ELSE LoadedOf(f)[s]) = l[s]
    OBVIOUS
  <2>2. l = [s \in Sites |-> l[s]]
    BY DEF Store
  <2> QED BY <2>1, <2>2 DEF Merge
<1>2. Saving(P, f, l)
  BY <1>1 DEF Saving, Served
<1>3. Storing(P, f, l)
  BY DEF Storing, Fresh, Served
<1> QED BY <1>2, <1>3

LEMMA ServeXInv ==
  ASSUME TypeOK, GInv, XInv, NEW n \in Procs, Serve(n), TypeOK', InTurn'
  PROVE  XInv'
<1>1. PICK p \in Proc, q \in Request, t \in Store, ok \in BOOLEAN :
           /\ p = proc[n] /\ p.io = "ready" /\ p.queue # <<>> /\ p.alive
           /\ p.queue[1] = q /\ p.site \in Sites
           /\ t = (IF q.seed # NoSeed THEN Merge(p.store, q.seed) ELSE p.store)
           /\ q.load \/ ok = p.loaded
           /\ \/ /\ proc' = [proc EXCEPT ![n] = Handled(p, t, p.wrote, q.seed # NoSeed, ok)]
                 /\ UNCHANGED <<latest, cleared, writes>>
              \/ /\ q.load \/ p.loaded
                 /\ Sets(n, p, t, ok) \/ Clears(n, p, t, ok)
           /\ UNCHANGED <<file, ui, shared, mixed, cut, requests, faults>>
  BY ServeSteps
<1>2. PICK w \in BOOLEAN : w = Waited(n)
  BY DEF Waited
<1>3. Shape(p, w)
  BY <1>1, <1>2 DEF GInv
<1>4. ~Clears(n, p, t, ok) /\ InTurn
  <2>1. ~Clears(n, p, t, ok)
    BY DEF Clears, InTurn
  <2>2. cleared' = cleared /\ shared' = shared /\ cut' = cut
    BY <1>1, <2>1 DEF Sets
  <2> QED BY <2>1, <2>2 DEF InTurn
<1>5. \A m \in Procs \ {n} : proc[m] = NoProc
  BY <1>1, <1>4, OnlyOne
<1>6. Loaded = latest /\ Loaded = LoadedOf(file) /\ latest \in Store
  BY <1>1, <1>4, <1>5, DiskIs, FileTyped DEF XInv, Busy, TypeOK
<1>7. Storing(p, file, latest) /\ SeedNext(p) = (q.seed # NoSeed)
  BY <1>1, <1>4 DEF XInv, SeedNext
\* What the pages find once the seed is taken.
<1>8. /\ \A s \in Sites : t[s] # 0 => t[s] = latest[s]
      /\ q.seed # NoSeed => \A s \in Sites : t[s] = latest[s]
      /\ q.seed = NoSeed => t = p.store
  <2>1. CASE q.seed # NoSeed
    <3>1. q.seed = file /\ q.seed \in Store
      BY <1>1, <1>7, <2>1 DEF SeedNext, Storing, Request
    <3>2. q.seed = latest
      BY <1>6, <3>1, Values DEF LoadedOf
    <3>3. ASSUME NEW s \in Sites PROVE t[s] = latest[s]
      BY <1>1, <1>7, <2>1, <3>2 DEF Merge, Storing
    <3> QED BY <2>1, <3>3
  <2>2. CASE q.seed = NoSeed
    BY <1>1, <1>7, <2>2 DEF Storing
  <2> QED BY <2>1, <2>2
<1>9. \/ t[p.site] = latest[p.site]
      \/ ~p.seeded /\ ~p.loaded /\ \A i \in 1 .. Len(p.queue) : ~p.queue[i].load
  BY <1>1, <1>7, <1>8 DEF Storing, Fresh
<1>10. q.load => t[p.site] = latest[p.site]
  <2>1. 1 \in 1 .. Len(p.queue)
    BY <1>1 DEF Proc
  <2> QED BY <1>1, <1>9, <2>1
<1>11. \A P : Served(p, P) /\ (\A i \in 1 .. Len(p.queue) : ~p.queue[i].load)
         => \A i \in 1 .. Len(P.queue) : ~P.queue[i].load
  BY <1>1, <1>3, ServedQueue, SMTT(30)
<1>12. ASSUME NEW P, Served(p, P), proc' = [proc EXCEPT ![n] = P] PROVE AskedOK'
  <2>1. proc'[n] = P /\ P.io # "none" /\ ui' = ui /\ file' = file
    BY <1>1, <1>12, Replaced DEF Served
  <2>2. ASSUME ui \in Wait, ui.asked.load PROVE ui.on = n /\ P.queue = <<>>
    <3>1. ui.on \in Procs /\ proc[ui.on].pooled
      BY <2>2 DEF Wait, GInv, UiOK
    <3>2. ui.on = n
      BY <1>5, <3>1 DEF NoProc
    <3>3. p.queue = <<ui.asked>>
      BY <1>1, <1>4, <2>2, <3>2 DEF XInv, AskedOK
    <3> QED BY <1>12, <3>2, <3>3 DEF Served
  <2> QED BY <2>1, <2>2 DEF AskedOK
<1>13. CASE proc' = [proc EXCEPT ![n] = Handled(p, t, p.wrote, q.seed # NoSeed, ok)]
            /\ UNCHANGED <<latest, cleared, writes>>
  <2>1. PICK P : P = Handled(p, t, p.wrote, q.seed # NoSeed, ok)
    OBVIOUS
  <2>2. /\ Served(p, P) /\ P.wrote = p.wrote /\ P.store = t /\ P.loaded = ok
        /\ P.io = (IF q.seed # NoSeed THEN "read" ELSE "ready") /\ (P.io = "read" => P.data = t)
    BY <2>1 DEF Served, Handled, Proc
  <2>3. ~SeedNext(P)
    BY <1>1, <1>3, <2>2, ServedShape
  <2>4. P.wrote # 0 => P.wrote = latest[p.site] /\ P.store[p.site] = P.wrote
    BY <1>1, <1>7, <1>8, <2>2 DEF Storing
  <2>5. P.loaded => P.store[p.site] = latest[p.site]
    BY <1>1, <1>7, <1>8, <1>10, <2>2 DEF Storing
  <2>6. P.store[p.site] = latest[p.site] \/ (~P.seeded /\ ~P.loaded
           /\ \A i \in 1 .. Len(P.queue) : ~P.queue[i].load)
    <3>1. CASE t[p.site] = latest[p.site]
      BY <2>2, <3>1
    <3>2. CASE ~p.seeded /\ ~p.loaded /\ \A i \in 1 .. Len(p.queue) : ~p.queue[i].load
      <4>1. 1 \in 1 .. Len(p.queue)
        BY <1>1 DEF Proc
      <4>2. ~q.load /\ ok = p.loaded
        BY <1>1, <3>2, <4>1
      <4> QED BY <1>11, <2>2, <3>2, <4>2 DEF Served
    <3> QED BY <1>9, <3>1, <3>2
  <2>7. \A s \in Sites : P.io = "read" /\ P.store[s] = 0 => LoadedOf(file)[s] = latest[s]
    BY <1>6
  <2>8. Saving(P, file, latest) /\ Storing(P, file, latest)
    BY <1>1, <1>6, <1>8, <2>2, <2>3, <2>4, <2>5, <2>6, <2>7, ServedStores
  <2>9. /\ Saving(P, file', latest') /\ Storing(P, file', latest')
        /\ Loaded' = latest' /\ proc' = [proc EXCEPT ![n] = P]
    BY <1>1, <1>6, <1>13, <2>1, <2>8 DEF Loaded, Readable
  <2> QED BY <1>5, <1>12, <2>2, <2>9, PutXInv
<1>14. CASE (q.load \/ p.loaded) /\ Sets(n, p, t, ok)
  <2>1. PICK P : P = Handled(p, [t EXCEPT ![p.site] = writes + 1], writes + 1, TRUE, ok)
    OBVIOUS
  <2>2. PICK l : l = latest'
    OBVIOUS
  <2>3. /\ Served(p, P) /\ P.wrote = writes + 1 /\ P.store = [t EXCEPT ![p.site] = writes + 1]
        /\ P.io = "read" /\ P.data = P.store
    BY <2>1 DEF Served, Handled, Proc
  <2>4. /\ l = [latest EXCEPT ![p.site] = writes + 1] /\ l \in Store
        /\ proc' = [proc EXCEPT ![n] = P] /\ file' = file
    BY <1>1, <1>14, <2>1, <2>2 DEF Sets, TypeOK
  <2>5. ~SeedNext(P)
    BY <1>1, <1>3, <2>3, ServedShape
  <2>6. /\ P.store[p.site] = writes + 1 /\ l[p.site] = writes + 1
        /\ \A s \in Sites \ {p.site} : P.store[s] = t[s] /\ l[s] = latest[s]
    <3>1. p.site \in Sites /\ DOMAIN t = Sites /\ DOMAIN latest = Sites
      BY <1>1, <1>6 DEF Store
    <3>2. P.store[p.site] = writes + 1 /\ \A s \in Sites \ {p.site} : P.store[s] = t[s]
      BY <2>3, <3>1
    <3>3. l[p.site] = writes + 1 /\ \A s \in Sites \ {p.site} : l[s] = latest[s]
      BY <2>4, <3>1
    <3> QED BY <3>2, <3>3
  <2>7. P.store \in Store
    BY <2>3, <2>4, <1>1, Values DEF Store, Sets
  <2>8. \A s \in Sites : /\ P.store[s] # 0 => P.store[s] = l[s]
                         /\ P.store[s] = 0 => LoadedOf(file)[s] = l[s]
    <3>1. writes + 1 # 0
      BY DEF TypeOK
    <3> QED BY <1>6, <1>8, <2>6, <3>1
  <2>9. Saving(P, file, l) /\ Storing(P, file, l)
    <3>1. Served(p, P) /\ P.io = "read" /\ P.data = P.store /\ P.wrote = l[p.site] /\ l \in Store
          /\ P.store[p.site] = l[p.site] /\ P.store[p.site] = P.wrote
      BY <2>3, <2>4, <2>6
    <3>2. \A s \in Sites : P.store[s] # 0 => P.store[s] = l[s]
      BY <2>8
    <3>3. \A s \in Sites : P.io = "read" /\ P.store[s] = 0 => LoadedOf(file)[s] = l[s]
      BY <2>8
    <3> QED BY <1>1, <2>5, <2>7, <3>1, <3>2, <3>3, ServedStores
  <2>10. Saving(P, file', latest') /\ Storing(P, file', latest') /\ Busy(P)
    BY <2>2, <2>3, <2>4, <2>9 DEF Busy
  <2> QED BY <1>5, <1>12, <2>3, <2>4, <2>10, PutXInv
<1> QED BY <1>1, <1>4, <1>13, <1>14

\* The request waited for stays as it was, or served.
LEMMA AskedKept ==
  ASSUME TypeOK, GInv, AskedOK, NEW n \in Procs, NEW P, proc' = [proc EXCEPT ![n] = P], ui' = ui,
         \A m \in Procs \ {n} : proc[m] = NoProc,
         proc[n].pooled =>
           /\ proc[n].queue = <<>> /\ proc[n].io # "none" => P.queue = <<>> /\ P.io # "none"
           /\ proc[n].io \in {"ready", "none"} =>
                P.io \in {"ready", "none"} /\ P.queue \in {<<>>, proc[n].queue} /\ Seed' = Seed
  PROVE  AskedOK'
<1> SUFFICES ASSUME ui \in Wait, ui.asked.load PROVE AskedOK'
  BY DEF AskedOK
<1>1. ui.on \in Procs /\ proc[ui.on].pooled
  BY DEF Wait, GInv, UiOK
<1>2. ~NoProc.pooled
  BY DEF NoProc
<1>3. ui.on = n
  BY <1>1, <1>2
<1>4. proc'[n] = P
  BY DEF TypeOK
<1> QED BY <1>1, <1>3, <1>4 DEF AskedOK

LEMMA SavedStores ==
  ASSUME NEW p \in Proc, p.io = "write", NEW w \in BOOLEAN, Shape(p, w), NEW f, NEW g, NEW l,
         Storing(p, f, l)
  PROVE  /\ Saving(Saved(p), g, l) /\ Storing(Saved(p), g, l)
         /\ p.pooled => Saved(p).queue = p.queue /\ Saved(p).io = "ready"
<1>1. CASE p.pooled
  <2>1. PICK P : P = [p EXCEPT !.io = "ready", !.data = NoData]
    OBVIOUS
  <2>2. Saved(p) = P
    BY <1>1, <2>1 DEF Saved
  <2>3. /\ P.io = "ready" /\ P.queue = p.queue /\ P.site = p.site
        /\ P.alive = p.alive /\ P.wrote = p.wrote
        /\ P.store = p.store /\ P.loaded = p.loaded /\ P.seeded = p.seeded
    BY <1>1, <2>1 DEF Proc
  <2>4. ~SeedNext(P) /\ ~SeedNext(p)
    BY <2>3 DEF Shape, Busy, SeedNext
  <2>5. Saving(P, g, l) /\ Storing(P, g, l)
    BY <2>3, <2>4 DEF Saving, Storing, Fresh
  <2> QED BY <1>1, <2>2, <2>3, <2>5
<1>2. CASE ~p.pooled
  BY <1>2, NoProcStores DEF Saved
<1> QED BY <1>1, <1>2

LEMMA IoXInv ==
  ASSUME TypeOK, GInv, XInv, NEW n \in Procs, Io(n) \/ ChildDies(n), TypeOK', InTurn'
  PROVE  XInv'
<1>1. PICK p \in Proc, w \in BOOLEAN : p = proc[n] /\ w = Waited(n)
  BY DEF TypeOK, Waited
<1>2. Shape(p, w)
  BY <1>1 DEF GInv
<1>3. CASE Serve(n)
  BY <1>3, ServeXInv
\* None of the others clears, and only a failed save is cut short.
<1>4. ASSUME UNCHANGED <<latest, shared, cleared>>, cut' = cut \/ cut' = TRUE, p.io # "none"
      PROVE  /\ InTurn /\ AskedOK /\ \A m \in Procs \ {n} : proc[m] = NoProc
             /\ ~Busy(p) => Loaded = latest
             /\ Saving(p, file, latest) /\ Storing(p, file, latest)
  <2>1. InTurn
    BY <1>4 DEF InTurn
  <2>2. \A m \in Procs \ {n} : proc[m] = NoProc
    BY <1>1, <1>4, <2>1, OnlyOne
  <2> QED BY <1>1, <2>1, <2>2, DiskIs DEF XInv
<1>5. CASE Breaks(n)
  <2>1. PICK P : P = [p EXCEPT !.io = "none", !.queue = <<>>]
    OBVIOUS
  <2>2. /\ P.io = "none" /\ P.queue = <<>> /\ P.site = p.site /\ P.alive = p.alive
        /\ P.wrote = p.wrote /\ P.store = p.store /\ P.loaded = p.loaded
    BY <2>1 DEF Proc
  <2>3. ~p.alive /\ p.queue # <<>> /\ p.io = "ready"
        /\ UNCHANGED <<file, ui, latest, shared, cleared, cut>>
    BY <1>1, <1>5 DEF Breaks, ghosts
  <2>4. proc' = [proc EXCEPT ![n] = P]
    BY <1>1, <1>5, <2>1 DEF Breaks
  <2>5. Saving(P, file, latest) /\ Storing(P, file, latest) /\ Loaded = latest
    BY <1>4, <2>2, <2>3 DEF Saving, Storing, SeedNext, Busy
  <2>6. Saving(P, file', latest') /\ Storing(P, file', latest') /\ Loaded' = latest' /\ Seed' = Seed
    BY <2>3, <2>5 DEF Loaded, Seed, Readable
  <2>7. AskedOK'
    BY <1>1, <1>4, <2>2, <2>3, <2>4, <2>6, AskedKept
  <2> QED BY <1>4, <2>3, <2>4, <2>6, <2>7, PutXInv
<1>6. CASE PersistRead(n)
  <2>1. PICK P : P = [p EXCEPT !.data = Merge(Loaded, p.data), !.io = "open"]
    OBVIOUS
  <2>2. /\ P.io = "open" /\ P.data = Merge(Loaded, p.data) /\ P.queue = p.queue
        /\ P.site = p.site /\ P.alive = p.alive /\ P.seeded = p.seeded
        /\ P.wrote = p.wrote /\ P.store = p.store /\ P.loaded = p.loaded
    BY <2>1 DEF Proc
  <2>3. p.io = "read" /\ UNCHANGED <<file, ui, latest, shared, cleared, cut>>
    BY <1>1, <1>6 DEF PersistRead
  <2>4. proc' = [proc EXCEPT ![n] = P]
    BY <1>1, <1>6, <2>1 DEF PersistRead
  <2>5. P.data = latest
    BY <1>4, <2>2, <2>3, FileTyped DEF Saving
  <2>6. Saving(P, file, latest) /\ Storing(P, file, latest)
    BY <1>4, <2>2, <2>3, <2>5 DEF Saving, Storing, SeedNext, Fresh
  <2>7. Saving(P, file', latest') /\ Storing(P, file', latest') /\ Busy(P)
    BY <2>2, <2>3, <2>6 DEF Busy
  <2>8. AskedOK'
    BY <1>1, <1>4, <2>2, <2>3, <2>4, AskedKept
  <2> QED BY <1>4, <2>3, <2>4, <2>7, <2>8, PutXInv
<1>7. CASE PersistOpen(n)
  <2>1. PICK P : P = [p EXCEPT !.io = "write"]
    OBVIOUS
  <2>2. /\ P.io = "write" /\ P.data = p.data /\ P.queue = p.queue
        /\ P.site = p.site /\ P.alive = p.alive /\ P.seeded = p.seeded
        /\ P.wrote = p.wrote /\ P.store = p.store /\ P.loaded = p.loaded
    BY <2>1 DEF Proc
  <2>3. p.io = "open" /\ file' = Empty /\ UNCHANGED <<ui, latest, shared, cleared, cut>>
    BY <1>1, <1>7 DEF PersistOpen, ghosts
  <2>4. proc' = [proc EXCEPT ![n] = P]
    BY <1>1, <1>7, <2>1 DEF PersistOpen
  <2>5. ~SeedNext(p)
    BY <1>2, <2>3 DEF Shape, Busy
  <2>6. Saving(P, Empty, latest) /\ Storing(P, Empty, latest)
    BY <1>4, <2>2, <2>3, <2>5 DEF Saving, Storing, SeedNext, Fresh
  <2>7. Saving(P, file', latest') /\ Storing(P, file', latest') /\ Busy(P)
    BY <2>2, <2>3, <2>6 DEF Busy
  <2>8. AskedOK'
    BY <1>1, <1>4, <2>2, <2>3, <2>4, AskedKept
  <2> QED BY <1>4, <2>3, <2>4, <2>7, <2>8, PutXInv
<1>8. CASE PersistWrite(n)
  <2>1. PICK P : P = Saved(p)
    OBVIOUS
  <2>2. p.io = "write" /\ UNCHANGED <<ui, latest, shared, cleared, cut>>
    BY <1>1, <1>8 DEF PersistWrite, ghosts
  <2>3. proc' = [proc EXCEPT ![n] = P]
    BY <1>1, <1>8, <2>1 DEF PersistWrite
  <2>4. file = Empty /\ file' = latest /\ Storing(p, file, latest)
    BY <1>1, <1>4, <1>8, <2>2 DEF PersistWrite, Saving
  <2>5. Loaded' = latest'
    BY <2>2, <2>4, Values DEF Loaded, Readable, TypeOK
  <2>6. PICK f : f = file
    OBVIOUS
  <2>7. PICK l : l = latest
    OBVIOUS
  <2>8. /\ Saving(P, l, l) /\ Storing(P, l, l)
        /\ p.pooled => P.queue = p.queue /\ P.io = "ready"
    BY <1>2, <2>1, <2>2, <2>4, <2>6, <2>7, SavedStores
  <2>9. Saving(P, file', latest') /\ Storing(P, file', latest')
    BY <2>2, <2>4, <2>7, <2>8
  <2>10. AskedOK'
    BY <1>1, <1>4, <2>2, <2>3, <2>8, AskedKept
  <2> QED BY <1>4, <2>2, <2>3, <2>5, <2>9, <2>10, PutXInv
<1>9. CASE PersistFails(n)
  BY <1>9 DEF PersistFails, InTurn
<1>10. CASE ChildDies(n)
  <2>1. PICK P : P = [p EXCEPT !.alive = FALSE, !.loaded = FALSE, !.store = NoData, !.wrote = 0]
    OBVIOUS
  <2>2. /\ P.io = p.io /\ P.data = p.data /\ P.queue = p.queue /\ ~P.alive /\ ~P.loaded
        /\ P.store = NoData /\ P.wrote = 0
    BY <2>1 DEF Proc
  <2>3. p.alive /\ UNCHANGED <<file, ui, latest, shared, cleared, cut>>
    BY <1>1, <1>10 DEF ChildDies, ghosts
  <2>4. proc' = [proc EXCEPT ![n] = P] /\ p.io # "none"
    BY <1>1, <1>2, <1>10, <2>1, <2>3 DEF ChildDies, Shape
  <2>5. Saving(P, file, latest) /\ Storing(P, file, latest) /\ (~Busy(P) => Loaded = latest)
    BY <1>4, <2>2, <2>3, <2>4, Values DEF Saving, Storing, SeedNext, Busy
  <2>6. Saving(P, file', latest') /\ Storing(P, file', latest') /\ (~Busy(P) => Loaded' = latest')
        /\ Seed' = Seed
    BY <2>3, <2>5 DEF Loaded, Seed, Readable
  <2>7. AskedOK'
    BY <1>1, <1>4, <2>2, <2>3, <2>4, <2>6, AskedKept
  <2> QED BY <1>4, <2>3, <2>4, <2>6, <2>7, PutXInv
<1> QED BY <1>3, <1>5, <1>6, <1>7, <1>8, <1>9, <1>10 DEF Io

LEMMA NextXInv == ASSUME TypeOK, GInv, XInv, [Next]_vars, TypeOK' PROVE XInv'
<1> SUFFICES ASSUME InTurn' PROVE XInv'
  BY DEF XInv
<1>1. CASE Exit
  <2>1. (\A n \in Procs : proc'[n] = NoProc) /\ ui' = New /\ UNCHANGED <<file, latest>>
    BY <1>1 DEF Exit
  <2>2. InTurn /\ \A n \in Procs : ~Busy(proc[n])
    <3>1. ~cut' /\ cut' = (cut \/ \E n \in Procs : Busy(proc[n]))
      BY <1>1 DEF Exit, InTurn
    <3>2. ~cut /\ \A n \in Procs : ~Busy(proc[n])
      BY <3>1
    <3> QED BY <1>1, <3>2 DEF Exit, InTurn
  <2>3. Loaded' = latest'
    BY <2>1, <2>2 DEF XInv, Disk, Loaded, Readable
  <2>4. PICK f : f = file
    OBVIOUS
  <2>5. PICK l : l = latest
    OBVIOUS
  <2>6. Saving(NoProc, f, l) /\ Storing(NoProc, f, l)
    BY NoProcStores
  <2>7. \A n \in Procs : Saving(proc'[n], file', latest') /\ Storing(proc'[n], file', latest')
    BY <2>1, <2>4, <2>5, <2>6
  <2>8. AskedOK'
    BY <2>1, Values DEF AskedOK
  <2> QED BY <2>1, <2>3, <2>7, <2>8 DEF XInv, One, Disk
<1>2. CASE UNCHANGED vars
  BY <1>2 DEF vars, ghosts, XInv, InTurn, One, Disk, AskedOK, Loaded, Readable, Seed
<1> QED BY <1>1, <1>2, UiXInv, IoXInv DEF Next

-----------------------------------------------------------------------------
(* The theorems                                                            *)

LEMMA InitIInv == Init => IInv
<1> SUFFICES ASSUME Init PROVE IInv
  OBVIOUS
<1>1. TypeOK
  <2>1. proc \in [Procs -> Proc] /\ file \in File /\ latest \in Store
    BY Values DEF Init, File
  <2>2. writes \in 0 .. MaxWrites /\ requests \in 0 .. MaxRequests /\ faults \in 0 .. MaxFaults
    BY BoundsAssumption DEF Init
  <2> QED BY <2>1, <2>2 DEF Init, TypeOK
<1>2. (\A n \in Procs : proc[n] = NoProc) /\ ui \notin Wait
  BY Values DEF Init
<1>3. GInv
  BY <1>2, NoProcIsSound DEF GInv, UiOK, Waited
<1>4. Loaded = latest
  BY DEF Init, Loaded, Readable
<1>5. XInv
  BY <1>2, <1>4, NoProcStores DEF XInv, One, Disk, AskedOK
<1> QED BY <1>1, <1>3, <1>5 DEF IInv

\* The inductive invariant: seeds come before what pages write, and processes
\* that follow one another agree with the file.
THEOREM Invariant == Spec => []IInv
<1>1. Init => IInv
  BY InitIInv
<1>2. IInv /\ [Next]_vars => IInv'
  BY NextType, NextGInv, NextXInv DEF IInv
<1> QED BY <1>1, <1>2, PTL DEF Spec

\* Every variable of the processes, their I/O threads and the file keeps its type.
THEOREM TypeCorrect == Spec => []TypeOK
<1>1. IInv => TypeOK
  BY DEF IInv
<1> QED BY <1>1, Invariant, PTL

\* As long as processes follow one another, nothing is cleared and no save is cut
\* short, pages find what was written before, whoever wrote it, and so does the
\* file (seed_if_needed, persist_encrypted_merge).
THEOREM OneProcessHandsOn == Spec => []OneProcessKeepsAll
<1>1. IInv => OneProcessKeepsAll
  BY DEF IInv, XInv, InTurn, Disk, Storing, OneProcessKeepsAll, OnDisk
<1> QED BY <1>1, Invariant, PTL

\* Whatever other processes do, what a page wrote stays what it reads: a seed
\* never replaces it (seed_if_needed, merge_into).
THEOREM OwnWritesAreKept == Spec => []OwnWritesStay
<1>1. IInv => OwnWritesStay
  BY DEF IInv, GInv, Own, XInv, InTurn, Storing, OwnWritesStay
<1> QED BY <1>1, Invariant, PTL

-----------------------------------------------------------------------------
(* IndexedDb: the inductive invariant                                      *)

\* A store lists each record once, and has generated none of the keys to come.
Stores == [keyed : BOOLEAN, auto : BOOLEAN, next : Nat, entries : SUBSET Nat, order : Seq(Nat),
           made : SUBSET Nat]
Listed(list, things) == IsInjective(list) /\ ToSet(list) = things
Wholes == {o \in Stores : Listed(o.order, o.entries) /\ \A k \in o.made : k < o.next}

\* A database lists each store once.
Contents  == UNION {[N -> Wholes] : N \in SUBSET Names}
Databases == {d \in [is : BOOLEAN, version : Nat, stores : Contents, order : Seq(Names), offered : Nat] :
                Listed(d.order, DOMAIN d.stores)}

Jobs == [kind : {"request", "open", "complete"}, tx : Nat, old : Nat, new : Nat, upgrade : BOOLEAN]

DbTypes ==
  /\ db \in Databases /\ saved \in Databases /\ jobs \in Seq(Jobs)
  /\ script \in {"idle", "script", "jobs"} /\ handle \in {"none", "database", "store"}
  /\ tx \in Nat /\ change \in BOOLEAN /\ ops \in Nat

\* The version in memory is that of the last upgrade queued, or was offered.
Raises(i) == i \in DOMAIN jobs /\ jobs[i].upgrade
Offers ==
  db.is =>
    \/ \E i \in DOMAIN jobs : /\ Raises(i) /\ jobs[i].new = db.version
                              /\ \A j \in DOMAIN jobs : Raises(j) => j <= i
    \/ db.offered = db.version /\ \A j \in DOMAIN jobs : ~ Raises(j)

DbInv == DbTypes /\ Offers /\ SavedWasOffered

-----------------------------------------------------------------------------
(* IndexedDb: lists, stores and databases                                  *)

LEMMA EmptyListed == Listed(<<>>, {})
  BY DEF Listed, IsInjective, ToSet

LEMMA AppendListed ==
  ASSUME NEW T, NEW list \in Seq(T), NEW things, Listed(list, things), NEW e \in T, e \notin things
  PROVE  Append(list, e) \in Seq(T) /\ Listed(Append(list, e), things \cup {e})
<1> DEFINE more == Append(list, e)
<1>1. /\ more \in Seq(T) /\ Len(more) = Len(list) + 1 /\ more[Len(list) + 1] = e
      /\ \A i \in 1 .. Len(list) : more[i] = list[i]
  OBVIOUS
<1>2. /\ DOMAIN list = 1 .. Len(list) /\ DOMAIN more = 1 .. Len(more) /\ Len(list) \in Nat
  BY <1>1
<1>3. \A i \in DOMAIN list : list[i] \in things
  BY DEF Listed, ToSet
<1>4. IsInjective(more)
  <2> SUFFICES ASSUME NEW i \in DOMAIN more, NEW j \in DOMAIN more, more[i] = more[j] PROVE i = j
    BY DEF IsInjective
  <2>1. CASE i \in DOMAIN list /\ j \in DOMAIN list
    BY <1>1, <1>2, <2>1 DEF Listed, IsInjective
  <2>2. CASE i = Len(list) + 1 /\ j = Len(list) + 1
    BY <2>2
  <2>3. CASE i \in DOMAIN list /\ j = Len(list) + 1
    BY <1>1, <1>2, <1>3, <2>3
  <2>4. CASE i = Len(list) + 1 /\ j \in DOMAIN list
    BY <1>1, <1>2, <1>3, <2>4
  <2> QED BY <1>1, <1>2, <2>1, <2>2, <2>3, <2>4
<1>5. ToSet(more) = things \cup {e}
  <2>1. \A x \in ToSet(more) : x \in things \cup {e}
    BY <1>1, <1>2, <1>3 DEF ToSet
  <2>2. \A x \in things : x \in ToSet(more)
    <3> SUFFICES ASSUME NEW x \in things PROVE x \in ToSet(more)
      OBVIOUS
    <3>1. PICK i \in DOMAIN list : list[i] = x
      BY DEF Listed, ToSet
    <3> QED BY <1>1, <1>2, <3>1 DEF ToSet
  <2>3. e \in ToSet(more)
    BY <1>1, <1>2 DEF ToSet
  <2> QED BY <2>1, <2>2, <2>3
<1> QED BY <1>1, <1>4, <1>5 DEF Listed

LEMMA WithoutListed ==
  ASSUME NEW T, NEW list \in Seq(T), NEW things, Listed(list, things), NEW e
  PROVE  Without(list, e) \in Seq(T) /\ Listed(Without(list, e), things \ {e})
<1>1. CASE e \notin things
  <2>1. Without(list, e) = list
    BY <1>1 DEF Without, Listed
  <2>2. things \ {e} = things
    BY <1>1
  <2> QED BY <2>1, <2>2
<1>2. CASE e \in things
  <2> DEFINE at == CHOOSE i \in DOMAIN list : list[i] = e
  <2>1. \E i \in DOMAIN list : list[i] = e
    BY <1>2 DEF Listed, ToSet
  <2>2. PICK k : k = at
    OBVIOUS
  <2>3. k \in DOMAIN list /\ list[k] = e
    BY <2>1, <2>2
  <2>4. DOMAIN list = 1 .. Len(list) /\ Len(list) \in Nat
    OBVIOUS
  <2>5. PICK less : less = RemoveAt(list, k)
    OBVIOUS
  <2>6. Without(list, e) = less
    BY <1>2, <2>2, <2>5 DEF Without, Listed
  <2>7. /\ less \in Seq(T) /\ Len(less) = Len(list) - 1
        /\ \A i \in 1 .. Len(less) : less[i] = IF i < k THEN list[i] ELSE list[i + 1]
    <3>10. PICK front : front = SubSeq(list, 1, k - 1)
      OBVIOUS
    <3>20. PICK back : back = SubSeq(list, k + 1, Len(list))
      OBVIOUS
    <3>1. front \in Seq(T) /\ Len(front) = k - 1 /\ \A i \in 1 .. k - 1 : front[i] = list[i]
      BY <2>3, <2>4, <3>10
    <3>2. back \in Seq(T) /\ Len(back) = Len(list) - k /\ \A i \in 1 .. Len(back) : back[i] = list[k + i]
      BY <2>3, <2>4, <3>20
    <3>3. less = front \o back
      BY <2>5, <3>10, <3>20 DEF RemoveAt
    <3>6. k \in Int /\ Len(front) + Len(back) = Len(list) - 1
      BY <2>3, <2>4, <3>1, <3>2
    <3>7. /\ less \in Seq(T) /\ Len(less) = Len(front) + Len(back)
          /\ \A i \in 1 .. Len(less) : less[i] = IF i <= Len(front) THEN front[i] ELSE back[i - Len(front)]
      <4>1. front \in Seq(T) /\ back \in Seq(T) /\ Len(front) \in Nat /\ Len(back) \in Nat
        BY <3>1, <3>2
      <4>2. /\ less \in Seq(T) /\ Len(less) = Len(front) + Len(back)
            /\ \A i \in 1 .. Len(front) + Len(back) : less[i] = IF i <= Len(front) THEN front[i] ELSE back[i - Len(front)]
        BY <3>3, <4>1, ConcatProperties
      <4> QED BY <4>2
    <3>4. less \in Seq(T) /\ Len(less) = Len(list) - 1
      BY <3>6, <3>7
    <3>5. \A i \in 1 .. Len(less) : less[i] = IF i < k THEN list[i] ELSE list[i + 1]
      <4> SUFFICES ASSUME NEW i \in 1 .. Len(less) PROVE less[i] = IF i < k THEN list[i] ELSE list[i + 1]
        OBVIOUS
      <4>1. CASE i < k
        BY <2>3, <2>4, <3>1, <3>7, <4>1
      <4>2. CASE i >= k
        <5>1. less[i] = back[i - (k - 1)]
          BY <2>3, <2>4, <3>1, <3>7, <4>2
        <5>2. i - (k - 1) \in 1 .. Len(back) /\ k + (i - (k - 1)) = i + 1
          BY <2>3, <2>4, <3>2, <3>4, <4>2
        <5> QED BY <2>3, <3>2, <4>2, <5>1, <5>2
      <4> QED BY <2>3, <2>4, <4>1, <4>2
    <3> QED BY <3>4, <3>5
  <2>8. DOMAIN less = 1 .. Len(less) /\ Len(less) \in Nat
    BY <2>7
  <2>9. IsInjective(less)
    <3> SUFFICES ASSUME NEW i \in DOMAIN less, NEW j \in DOMAIN less, less[i] = less[j] PROVE i = j
      BY DEF IsInjective
    <3> DEFINE a(n) == IF n < k THEN n ELSE n + 1
    <3>1. \A n \in DOMAIN less : a(n) \in DOMAIN list /\ less[n] = list[a(n)]
      BY <2>3, <2>4, <2>7, <2>8
    <3>2. a(i) = a(j)
      BY <3>1 DEF Listed, IsInjective
    <3> QED BY <2>3, <2>4, <2>8, <3>2
  <2>10. \A x \in ToSet(less) : x \in things /\ x # e
    <3> SUFFICES ASSUME NEW i \in DOMAIN less PROVE less[i] \in things /\ less[i] # e
      BY DEF ToSet
    <3> DEFINE n == IF i < k THEN i ELSE i + 1
    <3>1. n \in DOMAIN list /\ less[i] = list[n] /\ n # k
      BY <2>3, <2>4, <2>7, <2>8
    <3> HIDE DEF n
    <3> QED BY <2>3, <3>1 DEF Listed, IsInjective, ToSet
  <2>11. \A x \in things \ {e} : x \in ToSet(less)
    <3> SUFFICES ASSUME NEW x \in things \ {e} PROVE \E i \in DOMAIN less : less[i] = x
      BY DEF ToSet
    <3>1. PICK n \in DOMAIN list : list[n] = x
      BY DEF Listed, ToSet
    <3>2. CASE n < k
      BY <2>3, <2>4, <2>7, <2>8, <3>1, <3>2
    <3>3. CASE n > k
      <4>1. n - 1 \in DOMAIN less /\ less[n - 1] = list[(n - 1) + 1] /\ (n - 1) + 1 = n
        BY <2>3, <2>4, <2>7, <2>8, <3>1, <3>3
      <4> QED BY <3>1, <4>1
    <3> QED BY <2>3, <2>4, <3>1, <3>2, <3>3
  <2>12. ToSet(less) = things \ {e}
    BY <2>10, <2>11
  <2> QED BY <2>6, <2>7, <2>9, <2>12 DEF Listed
<1> QED BY <1>1, <1>2

LEMMA NoDatabaseWhole == NoDatabase \in Databases
<1>1. <<>> \in [{} -> Wholes] /\ DOMAIN <<>> = {}
  OBVIOUS
<1>2. <<>> \in Contents
  BY <1>1 DEF Contents
<1> QED BY <1>1, <1>2, EmptyListed DEF NoDatabase, Databases

LEMMA StoreParts ==
  ASSUME NEW o \in Wholes
  PROVE  /\ o \in Stores /\ Listed(o.order, o.entries) /\ (\A k \in o.made : k < o.next)
         /\ o.order \in Seq(Nat) /\ o.entries \in SUBSET Nat /\ o.next \in Nat /\ o.made \in SUBSET Nat
  BY DEF Wholes, Stores

LEMMA NewStoreWhole ==
  ASSUME NEW keyed \in BOOLEAN, NEW auto \in BOOLEAN PROVE NewStore(keyed, auto) \in Wholes
<1>1. <<>> \in Seq(Nat) /\ {} \in SUBSET Nat
  OBVIOUS
<1> QED BY <1>1, EmptyListed DEF NewStore, Wholes, Stores

LEMMA GeneratedWhole == ASSUME NEW o \in Wholes PROVE Generated(o) \in Wholes
<1>1. PICK n : n = o.next + 1
  OBVIOUS
<1>2. PICK m : m = o.made \cup {o.next}
  OBVIOUS
<1>3. n \in Nat /\ m \in SUBSET Nat /\ \A k \in m : k < n
  BY <1>1, <1>2, StoreParts
<1>4. Generated(o) = [o EXCEPT !.next = n, !.made = m]
  BY <1>1, <1>2 DEF Generated
<1> QED BY <1>3, <1>4 DEF Wholes, Stores

LEMMA RelistedWhole ==
  ASSUME NEW o \in Wholes, NEW es \in SUBSET Nat, NEW list \in Seq(Nat), Listed(list, es)
  PROVE  [o EXCEPT !.entries = es, !.order = list] \in Wholes
  BY DEF Wholes, Stores

LEMMA KeptWhole == ASSUME NEW o \in Wholes, NEW k \in Nat PROVE Kept(o, k) \in Wholes
<1>1. PICK es : es = o.entries \cup {k}
  OBVIOUS
<1>2. PICK list : list = IF k \in o.entries THEN o.order ELSE Append(o.order, k)
  OBVIOUS
<1>3. es \in SUBSET Nat /\ list \in Seq(Nat) /\ Listed(list, es)
  <2>1. CASE k \in o.entries
    <3>1. es = o.entries
      BY <1>1, <2>1
    <3> QED BY <1>2, <2>1, <3>1, StoreParts
  <2>2. CASE k \notin o.entries
    <3>1. list = Append(o.order, k)
      BY <1>2, <2>2
    <3> QED BY <1>1, <2>2, <3>1, StoreParts, AppendListed
  <2> QED BY <2>1, <2>2
<1>4. Kept(o, k) = [o EXCEPT !.entries = es, !.order = list]
  BY <1>1, <1>2 DEF Kept
<1> QED BY <1>3, <1>4, RelistedWhole, ZenonT(60)

LEMMA GoneWhole == ASSUME NEW o \in Wholes, NEW k PROVE Gone(o, k) \in Wholes
<1>1. PICK es : es = o.entries \ {k}
  OBVIOUS
<1>2. PICK list : list = Without(o.order, k)
  OBVIOUS
<1>3. es \in SUBSET Nat /\ list \in Seq(Nat) /\ Listed(list, es)
  BY <1>1, <1>2, StoreParts, WithoutListed
<1>4. Gone(o, k) = [o EXCEPT !.entries = es, !.order = list]
  BY <1>1, <1>2 DEF Gone
<1> QED BY <1>3, <1>4, RelistedWhole

LEMMA ClearedWhole == ASSUME NEW o \in Wholes PROVE [o EXCEPT !.entries = {}, !.order = <<>>] \in Wholes
<1>1. {} \in SUBSET Nat /\ <<>> \in Seq(Nat)
  OBVIOUS
<1> QED BY <1>1, EmptyListed, RelistedWhole

\* Of two databases: what the upgrades speak of is the same.
SameVersion(d, e) == e.is = d.is /\ e.version = d.version /\ e.offered = d.offered

LEMMA DatabaseParts ==
  ASSUME NEW d \in Databases
  PROVE  /\ d \in [is : BOOLEAN, version : Nat, stores : Contents, order : Seq(Names), offered : Nat]
         /\ d.version \in Nat /\ d.order \in Seq(Names) /\ Listed(d.order, DOMAIN d.stores)
         /\ d.stores \in Contents /\ DOMAIN d.stores \in SUBSET Names
         /\ d.stores \in [DOMAIN d.stores -> Wholes]
         /\ \A s \in DOMAIN d.stores : d.stores[s] \in Wholes
  BY DEF Databases, Contents

LEMMA StoreInto ==
  ASSUME NEW d \in Databases, NEW s \in DOMAIN d.stores, NEW o \in Wholes
  PROVE  /\ [d EXCEPT !.stores = [d.stores EXCEPT ![s] = o]] \in Databases
         /\ SameVersion(d, [d EXCEPT !.stores = [d.stores EXCEPT ![s] = o]])
<1>1. PICK N : N = DOMAIN d.stores
  OBVIOUS
<1>2. PICK f : f = [d.stores EXCEPT ![s] = o]
  OBVIOUS
<1>3. f \in [N -> Wholes] /\ DOMAIN f = N /\ N \in SUBSET Names
  BY <1>1, <1>2, DatabaseParts
<1>4. f \in Contents
  BY <1>3 DEF Contents
<1>5. PICK e : e = [d EXCEPT !.stores = f]
  OBVIOUS
<1>6. /\ e \in [is : BOOLEAN, version : Nat, stores : Contents, order : Seq(Names), offered : Nat]
      /\ e.order = d.order /\ e.stores = f /\ SameVersion(d, e)
  BY <1>4, <1>5, DatabaseParts DEF SameVersion
<1>7. e \in Databases
  BY <1>1, <1>3, <1>6, DatabaseParts DEF Databases
<1> QED BY <1>2, <1>5, <1>6, <1>7

LEMMA StoresInto ==
  ASSUME NEW d \in Databases, NEW N \in SUBSET Names, NEW f \in [N -> Wholes],
         NEW list \in Seq(Names), Listed(list, N)
  PROVE  /\ [d EXCEPT !.stores = f, !.order = list] \in Databases
         /\ SameVersion(d, [d EXCEPT !.stores = f, !.order = list])
<1>1. PICK e : e = [d EXCEPT !.stores = f, !.order = list]
  OBVIOUS
<1>2. f \in Contents /\ DOMAIN f = N
  BY DEF Contents
<1>3. /\ e \in [is : BOOLEAN, version : Nat, stores : Contents, order : Seq(Names), offered : Nat]
      /\ e.order = list /\ e.stores = f /\ SameVersion(d, e)
  BY <1>1, <1>2, DatabaseParts DEF SameVersion
<1>4. e \in Databases
  BY <1>2, <1>3 DEF Databases
<1> QED BY <1>1, <1>3, <1>4

LEMMA VersionInto ==
  ASSUME NEW d \in Databases, NEW v \in Nat
  PROVE  /\ [d EXCEPT !.is = TRUE, !.version = v] \in Databases
         /\ [d EXCEPT !.offered = v] \in Databases
  BY DEF Databases

-----------------------------------------------------------------------------
(* IndexedDb: every step preserves the invariant                           *)

LEMMA KeyOfIs ==
  ASSUME NEW o \in Wholes, NEW given \in Keys \cup {NoKey}, NEW inner \in Keys \cup {NoKey}
  PROVE  KeyOf(o, given, inner) \in Nat \cup {NoKey}
<1>1. o.keyed \in BOOLEAN /\ o.next \in Nat
  BY StoreParts DEF Stores
<1>2. given \in Nat \cup {NoKey} /\ inner \in Nat \cup {NoKey}
  BY KeysAssumption
<1> QED BY <1>1, <1>2 DEF KeyOf

LEMMA QuietJob ==
  ASSUME jobs \in Seq(Jobs), NEW job \in Jobs, ~ job.upgrade, jobs' = Append(jobs, job)
  PROVE  /\ jobs' \in Seq(Jobs) /\ DOMAIN jobs \subseteq DOMAIN jobs'
         /\ \A i \in DOMAIN jobs : jobs'[i] = jobs[i]
         /\ \A i \in DOMAIN jobs' : Raises(i)' => i \in DOMAIN jobs /\ Raises(i)
         /\ \A i \in DOMAIN jobs : Raises(i) => Raises(i)'
<1>1. /\ DOMAIN jobs = 1 .. Len(jobs) /\ DOMAIN jobs' = 1 .. Len(jobs) + 1
      /\ Len(jobs) \in Nat /\ jobs'[Len(jobs) + 1] = job /\ \A i \in DOMAIN jobs : jobs'[i] = jobs[i]
  OBVIOUS
<1>2. \A i \in DOMAIN jobs' : i \in DOMAIN jobs \/ i = Len(jobs) + 1
  BY <1>1
<1> QED BY <1>1, <1>2 DEF Raises

\* Nor does it disturb what is queued of them.
LEMMA QuietKeeps ==
  ASSUME jobs \in Seq(Jobs), Offers, NEW job \in Jobs, ~ job.upgrade, jobs' = Append(jobs, job),
         SameVersion(db, db')
  PROVE  Offers'
<1>1. CASE ~ db.is
  BY <1>1 DEF Offers, SameVersion
<1>2. CASE db.offered = db.version /\ \A j \in DOMAIN jobs : ~ Raises(j)
  BY <1>2, QuietJob DEF Offers, SameVersion
<1>3. CASE \E i \in DOMAIN jobs : /\ Raises(i) /\ jobs[i].new = db.version
                                  /\ \A j \in DOMAIN jobs : Raises(j) => j <= i
  <2>1. PICK i \in DOMAIN jobs : /\ Raises(i) /\ jobs[i].new = db.version
                                 /\ \A j \in DOMAIN jobs : Raises(j) => j <= i
    BY <1>3
  <2>2. i \in DOMAIN jobs' /\ Raises(i)' /\ jobs'[i].new = db'.version
    BY <2>1, QuietJob DEF SameVersion
  <2>3. \A j \in DOMAIN jobs' : Raises(j)' => j <= i
    BY <2>1, QuietJob
  <2> QED BY <2>2, <2>3 DEF Offers
<1> QED BY <1>1, <1>2, <1>3 DEF Offers

\* A call leaves the versions alone, and queues nothing that raises one.
LEMMA CallKeeps ==
  ASSUME DbInv, SameVersion(db, db'), UNCHANGED <<saved, script, tx>>, ops' = ops + 1,
         db' \in Databases, change' \in BOOLEAN, handle' \in {"none", "database", "store"},
         \/ UNCHANGED jobs
         \/ \E job \in Jobs : ~ job.upgrade /\ jobs' = Append(jobs, job)
  PROVE  DbInv'
<1>1. jobs' \in Seq(Jobs)
  BY DEF DbInv, DbTypes
<1>2. DbTypes'
  BY <1>1 DEF DbInv, DbTypes
<1>3. Offers'
  <2>1. CASE UNCHANGED jobs
    BY <2>1 DEF DbInv, Offers, Raises, SameVersion
  <2>2. CASE \E job \in Jobs : ~ job.upgrade /\ jobs' = Append(jobs, job)
    BY <2>2, QuietKeeps DEF DbInv, DbTypes
  <2> QED BY <2>1, <2>2
<1>4. SavedWasOffered'
  BY DEF DbInv, SavedWasOffered
<1> QED BY <1>2, <1>3, <1>4 DEF DbInv

LEMMA AnsweredIs ==
  ASSUME DbInv, Answered PROVE \E job \in Jobs : ~ job.upgrade /\ jobs' = Append(jobs, job)
<1> DEFINE job == [kind |-> "request", tx |-> tx, old |-> 0, new |-> 0, upgrade |-> FALSE]
<1>1. job \in Jobs /\ ~ job.upgrade
  BY DEF DbInv, DbTypes, Jobs
<1>2. jobs' = Append(jobs, job)
  BY DEF Answered, Queue
<1> QED BY <1>1, <1>2

\* What a call does to one store
LEMMA StoreCallKeeps ==
  ASSUME DbInv, NEW s \in DOMAIN db.stores, NEW o \in Wholes, Calling, Answered,
         db' = [db EXCEPT !.stores = [db.stores EXCEPT ![s] = o]],
         change' \in BOOLEAN, UNCHANGED <<script, handle, tx, saved>>
  PROVE  DbInv'
<1>1. db' \in Databases /\ SameVersion(db, db')
  BY StoreInto DEF DbInv, DbTypes
<1> QED BY <1>1, CallKeeps, AnsweredIs DEF Calling, DbInv, DbTypes

LEMMA TheStore ==
  ASSUME DbInv, NEW s, Has(s)
  PROVE  s \in DOMAIN db.stores /\ db.stores[s] \in Wholes
  BY DatabaseParts DEF DbInv, DbTypes, Has

LEMMA PutOK ==
  ASSUME DbInv, NEW s, NEW given \in Keys \cup {NoKey}, NEW inner \in Keys \cup {NoKey},
         NEW add \in BOOLEAN, Put(s, given, inner, add)
  PROVE  DbInv'
<1>1. s \in DOMAIN db.stores /\ db.stores[s] \in Wholes
  BY TheStore DEF Put
<1>2. PICK o : o = db.stores[s]
  OBVIOUS
<1>3. PICK k : k = KeyOf(o, given, inner)
  OBVIOUS
<1>4. PICK told : told = IF IsMade(o, given, inner) THEN Generated(o) ELSE o
  OBVIOUS
<1>5. PICK ok \in BOOLEAN : ok = (k # NoKey /\ ~(add /\ k \in o.entries) /\ Fits(o, k))
  OBVIOUS
<1>6. PICK new : new = IF ok THEN Kept(told, k) ELSE told
  OBVIOUS
<1>7. told \in Wholes
  BY <1>1, <1>2, <1>4, GeneratedWhole
<1>8. ok => k \in Nat
  BY <1>1, <1>2, <1>3, <1>5, KeyOfIs
<1>9. new \in Wholes
  BY <1>6, <1>7, <1>8, KeptWhole
<1>10. /\ db' = [db EXCEPT !.stores = [db.stores EXCEPT ![s] = new]]
       /\ change' = (change \/ ok) /\ Calling /\ Answered /\ UNCHANGED <<script, handle, tx, saved>>
  BY <1>2, <1>3, <1>4, <1>5, <1>6 DEF Put
<1> QED BY <1>1, <1>9, <1>10, StoreCallKeeps

LEMMA DeleteOK == ASSUME DbInv, NEW s, NEW k, Delete(s, k) PROVE DbInv'
<1>1. s \in DOMAIN db.stores /\ db.stores[s] \in Wholes
  BY TheStore DEF Delete
<1>2. Gone(db.stores[s], k) \in Wholes
  BY <1>1, GoneWhole
<1>3. (change \/ k \in db.stores[s].entries) \in BOOLEAN
  OBVIOUS
<1> QED BY <1>1, <1>2, <1>3, StoreCallKeeps DEF Delete

LEMMA ClearOK == ASSUME DbInv, NEW s, Clear(s) PROVE DbInv'
<1>1. s \in DOMAIN db.stores /\ db.stores[s] \in Wholes
  BY TheStore DEF Clear
<1>2. [db.stores[s] EXCEPT !.entries = {}, !.order = <<>>] \in Wholes
  BY <1>1, ClearedWhole
<1>3. (change \/ db.stores[s].entries # {}) \in BOOLEAN
  OBVIOUS
<1> QED BY <1>1, <1>2, <1>3, StoreCallKeeps DEF Clear

LEMMA ReadOK == ASSUME DbInv, Read PROVE DbInv'
<1>1. db' \in Databases /\ SameVersion(db, db')
  BY DEF Read, DbInv, DbTypes, SameVersion
<1>2. Answered /\ Calling /\ UNCHANGED <<saved, script, tx, handle, change>>
  BY DEF Read
<1> QED BY <1>1, <1>2, CallKeeps, AnsweredIs DEF Calling, DbInv, DbTypes

LEMMA TransactionOK == ASSUME DbInv, Transaction PROVE DbInv'
<1> DEFINE job == [kind |-> "complete", tx |-> tx + 1, old |-> 0, new |-> 0, upgrade |-> FALSE]
<1>1. PICK n : n = tx + 1
  OBVIOUS
<1>2. n \in Nat
  BY <1>1 DEF DbInv, DbTypes
<1>3. job \in Jobs /\ ~ job.upgrade /\ jobs' = Append(jobs, job)
  BY <1>1, <1>2 DEF Transaction, Queue, Jobs
<1>4. jobs' \in Seq(Jobs)
  BY <1>3 DEF DbInv, DbTypes
<1> HIDE DEF job
<1>5. DbTypes'
  BY <1>1, <1>2, <1>4 DEF Transaction, Calling, DbInv, DbTypes
<1>6. Offers'
  <2>1. SameVersion(db, db')
    BY DEF Transaction, SameVersion
  <2> QED BY <1>3, <2>1, QuietKeeps DEF DbInv, DbTypes
<1>7. SavedWasOffered'
  BY DEF Transaction, DbInv, SavedWasOffered
<1> QED BY <1>5, <1>6, <1>7 DEF DbInv

\* A version raised is that of the last upgrade queued.
LEMMA RaisingOffers ==
  ASSUME jobs \in Seq(Jobs), NEW job \in Jobs, job.upgrade, jobs' = Append(jobs, job),
         db'.is => job.new = db'.version
  PROVE  Offers'
<1>1. PICK n : n = Len(jobs) + 1
  OBVIOUS
<1>2. DOMAIN jobs' = 1 .. n /\ n \in Nat \ {0} /\ jobs'[n] = job
  BY <1>1
<1>3. Raises(n)' /\ n \in DOMAIN jobs'
  BY <1>2 DEF Raises
<1>4. \A j \in DOMAIN jobs' : j <= n
  BY <1>2
<1> QED BY <1>2, <1>3, <1>4 DEF Offers

LEMMA OpenOK == ASSUME DbInv, NEW asked \in 1 .. MaxVersion \cup {NoKey}, Open(asked) PROVE DbInv'
<1>1. PICK new : new = IF asked = NoKey THEN IF db.version = 0 THEN 1 ELSE db.version ELSE asked
  OBVIOUS
<1>2. PICK upgrade \in BOOLEAN : upgrade = (~db.is \/ new > db.version)
  OBVIOUS
<1>3. PICK job : job = [kind |-> "open", tx |-> 0, old |-> db.version, new |-> new, upgrade |-> upgrade]
  OBVIOUS
<1>4. /\ db \in Databases /\ db.version \in Nat /\ jobs \in Seq(Jobs)
  BY DatabaseParts DEF DbInv, DbTypes
<1>5. new \in Nat
  BY <1>1, <1>4, VersionAssumption
<1>6. job \in Jobs /\ job.upgrade = upgrade /\ job.new = new
  BY <1>2, <1>3, <1>4, <1>5 DEF Jobs
<1>7. /\ Calling /\ db' = (IF upgrade THEN Raised(new) ELSE db) /\ change' = (change \/ upgrade)
      /\ jobs' = Append(jobs, job) /\ UNCHANGED <<script, handle, tx, saved>>
  BY <1>1, <1>2, <1>3 DEF Open, Queue
<1>8. CASE upgrade
  <2>1. db' = [db EXCEPT !.is = TRUE, !.version = new]
    BY <1>7, <1>8 DEF Raised
  <2>2. db' \in Databases
    BY <1>4, <1>5, <2>1, VersionInto
  <2>3. db'.version = new
    BY <1>4, <2>1 DEF Databases
  <2>4. Offers'
    BY <1>4, <1>6, <1>7, <1>8, <2>3, RaisingOffers
  <2>5. jobs' \in Seq(Jobs)
    BY <1>4, <1>6, <1>7
  <2>6. DbTypes'
    BY <1>7, <2>2, <2>5 DEF DbInv, DbTypes, Calling
  <2>7. SavedWasOffered'
    BY <1>7 DEF DbInv, SavedWasOffered
  <2> QED BY <2>4, <2>6, <2>7 DEF DbInv
<1>9. CASE ~ upgrade
  <2>1. db' = db
    BY <1>7, <1>9
  <2>2. db' \in Databases /\ SameVersion(db, db')
    BY <1>4, <2>1 DEF SameVersion
  <2> QED BY <1>6, <1>7, <1>9, <2>2, CallKeeps DEF Calling, DbInv, DbTypes
<1> QED BY <1>8, <1>9

LEMMA DeleteDatabaseOK == ASSUME DbInv, DeleteDatabase PROVE DbInv'
<1> DEFINE job == [kind |-> "request", tx |-> 0, old |-> 0, new |-> 0, upgrade |-> FALSE]
<1>1. job \in Jobs /\ jobs' = Append(jobs, job)
  BY DEF DeleteDatabase, Queue, Jobs
<1>2. jobs' \in Seq(Jobs)
  BY <1>1 DEF DbInv, DbTypes
<1>3. db' = NoDatabase /\ db' \in Databases /\ ~ db'.is
  BY NoDatabaseWhole DEF DeleteDatabase, NoDatabase
<1>4. db.is \in BOOLEAN /\ change' \in BOOLEAN
  BY DatabaseParts DEF DbInv, DbTypes, DeleteDatabase
<1>5. DbTypes'
  BY <1>2, <1>3, <1>4 DEF DeleteDatabase, Calling, DbInv, DbTypes
<1>6. Offers' /\ SavedWasOffered'
  BY <1>3 DEF DeleteDatabase, DbInv, Offers, SavedWasOffered
<1> QED BY <1>5, <1>6 DEF DbInv

LEMMA CreateStoreOK ==
  ASSUME DbInv, NEW s \in Names, NEW keyed \in BOOLEAN, NEW auto \in BOOLEAN, CreateStore(s, keyed, auto)
  PROVE  DbInv'
<1>1. PICK N : N = DOMAIN db.stores \cup {s}
  OBVIOUS
<1>2. PICK f : f = [t \in N |-> IF t = s THEN NewStore(keyed, auto) ELSE db.stores[t]]
  OBVIOUS
<1>3. PICK list : list = Append(db.order, s)
  OBVIOUS
<1>4. db \in Databases
  BY DEF DbInv, DbTypes
<1>5. N \in SUBSET Names /\ f \in [N -> Wholes]
  BY <1>1, <1>2, <1>4, DatabaseParts, NewStoreWhole
<1>6. s \notin DOMAIN db.stores
  BY DEF CreateStore, Has
<1>7. list \in Seq(Names) /\ Listed(list, N)
  BY <1>1, <1>3, <1>4, <1>6, DatabaseParts, AppendListed
<1>8. db' = [db EXCEPT !.stores = f, !.order = list]
  BY <1>1, <1>2, <1>3 DEF CreateStore
<1>9. db' \in Databases /\ SameVersion(db, db')
  BY <1>4, <1>5, <1>7, <1>8, StoresInto
<1> QED BY <1>9, CallKeeps DEF CreateStore, Calling

LEMMA DeleteStoreOK == ASSUME DbInv, NEW s, DeleteStore(s) PROVE DbInv'
<1>1. PICK N : N = DOMAIN db.stores \ {s}
  OBVIOUS
<1>2. PICK f : f = [t \in N |-> db.stores[t]]
  OBVIOUS
<1>3. PICK list : list = Without(db.order, s)
  OBVIOUS
<1>4. db \in Databases
  BY DEF DbInv, DbTypes
<1>5. N \in SUBSET Names /\ f \in [N -> Wholes]
  BY <1>1, <1>2, <1>4, DatabaseParts
<1>6. list \in Seq(Names) /\ Listed(list, N)
  BY <1>1, <1>3, <1>4, DatabaseParts, WithoutListed
<1>7. db' = [db EXCEPT !.stores = f, !.order = list]
  BY <1>1, <1>2, <1>3 DEF DeleteStore
<1>8. db' \in Databases /\ SameVersion(db, db')
  BY <1>4, <1>5, <1>6, <1>7, StoresInto
<1> QED BY <1>8, CallKeeps DEF DeleteStore, Calling, DbInv, DbTypes

\* An upgrade handler is called for the version that was raised last, or an
\* upgrade queued later is still to come.
LEMMA RunJobOK == ASSUME DbInv, RunJob PROVE DbInv'
<1>1. PICK job : job = Head(jobs)
  OBVIOUS
<1>2. /\ jobs \in Seq(Jobs) /\ jobs # <<>> /\ jobs' = Tail(jobs) /\ job \in Jobs /\ jobs' \in Seq(Jobs)
      /\ db' = (IF job.upgrade /\ db.is THEN [db EXCEPT !.offered = job.new] ELSE db)
      /\ db \in Databases
  BY <1>1 DEF RunJob, DbInv, DbTypes
<1>3. /\ DOMAIN jobs = 1 .. Len(jobs) /\ Len(jobs) \in Nat \ {0} /\ DOMAIN jobs' = 1 .. Len(jobs) - 1
      /\ jobs[1] = job /\ \A i \in DOMAIN jobs' : jobs'[i] = jobs[i + 1]
  BY <1>1, <1>2
<1>4. job.new \in Nat
  BY <1>2 DEF Jobs
<1>5. db' \in Databases
  BY <1>2, <1>4, VersionInto
<1>6. db'.is = db.is /\ db'.version = db.version
  BY <1>2 DEF Databases
<1>7. DbTypes'
  BY <1>2, <1>5 DEF RunJob, DbInv, DbTypes
<1>8. \A i \in DOMAIN jobs' : Raises(i)' <=> Raises(i + 1)
  BY <1>3 DEF Raises
<1>9. Offers'
  <2> SUFFICES ASSUME db.is PROVE Offers'
    BY <1>6 DEF Offers
  <2>1. CASE \A j \in DOMAIN jobs : ~ Raises(j)
    <3>1. \A j \in DOMAIN jobs' : ~ Raises(j)'
      BY <1>3, <1>8, <2>1
    <3>2. ~ job.upgrade
      BY <1>3, <2>1 DEF Raises
    <3>3. db.offered = db.version
      BY <2>1 DEF DbInv, Offers
    <3> QED BY <1>2, <3>1, <3>2, <3>3 DEF Offers
  <2>2. CASE \E i \in DOMAIN jobs : /\ Raises(i) /\ jobs[i].new = db.version
                                    /\ \A j \in DOMAIN jobs : Raises(j) => j <= i
    <3>1. PICK i \in DOMAIN jobs : /\ Raises(i) /\ jobs[i].new = db.version
                                   /\ \A j \in DOMAIN jobs : Raises(j) => j <= i
      BY <2>2
    <3>2. CASE i = 1
      <4>1. \A j \in DOMAIN jobs' : ~ Raises(j)'
        BY <1>3, <1>8, <3>1, <3>2
      <4>2. db' = [db EXCEPT !.offered = job.new] /\ job.new = db.version
        BY <1>2, <1>3, <3>1, <3>2 DEF Raises
      <4>3. db'.offered = db'.version
        BY <1>2, <1>6, <4>2 DEF Databases
      <4> QED BY <4>1, <4>3 DEF Offers
    <3>3. CASE i # 1
      <4>1. PICK n : n = i - 1
        OBVIOUS
      <4>2. n \in DOMAIN jobs' /\ n + 1 = i
        BY <1>3, <3>1, <3>3, <4>1
      <4>3. Raises(n)' /\ jobs'[n].new = db'.version
        BY <1>3, <1>6, <1>8, <3>1, <4>2
      <4>4. \A j \in DOMAIN jobs' : Raises(j)' => j <= n
        BY <1>3, <1>8, <3>1, <4>2
      <4> QED BY <4>2, <4>3, <4>4 DEF Offers
    <3> QED BY <3>2, <3>3
  <2> QED BY <2>1, <2>2 DEF DbInv, Offers
<1>10. SavedWasOffered'
  BY DEF RunJob, DbInv, SavedWasOffered
<1> QED BY <1>7, <1>9, <1>10 DEF DbInv

\* With no event left, the version in memory was offered; so is what is saved.
LEMMA ReplyOK == ASSUME DbInv, Reply PROVE DbInv'
<1>1. DOMAIN jobs = {} /\ jobs' = jobs /\ db' = db
  BY DEF Reply, Drained
<1>2. db.is => db.offered = db.version
  BY <1>1 DEF DbInv, Offers
<1>3. saved' \in {db, saved}
  BY DEF Reply
<1>4. SavedWasOffered'
  BY <1>2, <1>3 DEF DbInv, SavedWasOffered
<1>5. DbTypes'
  BY <1>3 DEF Reply, DbInv, DbTypes
<1>6. Offers'
  BY <1>1 DEF DbInv, Offers, Raises
<1> QED BY <1>4, <1>5, <1>6 DEF DbInv

LEMMA RestartOK == ASSUME DbInv, Restart PROVE DbInv'
<1>1. jobs' = <<>> /\ DOMAIN jobs' = {} /\ jobs' \in Seq(Jobs)
  BY DEF Restart
<1>2. db' = saved /\ saved' = saved
  BY DEF Restart, Revived
<1>3. DbTypes'
  <2>1. db' \in Databases /\ saved' \in Databases /\ jobs' \in Seq(Jobs)
    BY <1>1, <1>2 DEF DbInv, DbTypes
  <2>2. tx' \in Nat /\ ops' \in Nat
    BY DEF Restart, DbInv, DbTypes
  <2>3. script' \in {"idle", "script", "jobs"} /\ handle' \in {"none", "database", "store"}
    BY DEF Restart
  <2>4. change' \in BOOLEAN
    BY DEF Restart
  <2> QED BY <2>1, <2>2, <2>3, <2>4 DEF DbTypes
<1>4. Offers'
  BY <1>1, <1>2 DEF DbInv, Offers, SavedWasOffered
<1>5. SavedWasOffered'
  BY <1>2 DEF DbInv, SavedWasOffered
<1> QED BY <1>3, <1>4, <1>5 DEF DbInv

LEMMA RunOK == ASSUME DbInv, Run PROVE DbInv'
<1>1. DbTypes'
  BY DEF Run, DbInv, DbTypes
<1>2. Offers' /\ SavedWasOffered'
  BY DEF Run, DbInv, Offers, Raises, SavedWasOffered
<1> QED BY <1>1, <1>2 DEF DbInv

LEMMA DbInitOK == DbInit => DbInv
<1> SUFFICES ASSUME DbInit PROVE DbInv
  OBVIOUS
<1>1. db \in Databases /\ saved \in Databases /\ ~ db.is /\ ~ saved.is
  BY NoDatabaseWhole DEF DbInit, NoDatabase
<1>2. jobs \in Seq(Jobs)
  BY DEF DbInit
<1>3. DbTypes
  BY <1>1, <1>2 DEF DbInit, DbTypes
<1> QED BY <1>1, <1>3 DEF DbInv, Offers, SavedWasOffered

\* The inductive invariant of IndexedDb: stores and databases are listed and generate
\* keys as RecordsAreWhole says; a version not yet offered has its upgrade queued.
THEOREM DbInvariant == DbSpec => []DbInv
<1>1. DbInit => DbInv
  BY DbInitOK
<1>2. ASSUME DbInv, [DbNext]_dbVars PROVE DbInv'
  <2>1. CASE FactoryCall
    BY <1>2, <2>1, OpenOK, DeleteDatabaseOK DEF FactoryCall
  <2>2. CASE DatabaseCall
    BY <1>2, <2>2, TransactionOK, DeleteStoreOK, CreateStoreOK DEF DatabaseCall
  <2>3. CASE StoreCall
    <3>1. CASE Read
      BY <1>2, <3>1, ReadOK
    <3>2. CASE \E s \in Names : Clear(s)
      BY <1>2, <3>2, ClearOK
    <3>3. CASE \E s \in Names : \E given, inner \in Keys \cup {NoKey}, add \in BOOLEAN :
                 Put(s, given, inner, add)
      BY <1>2, <3>3, PutOK
    <3>4. CASE \E s \in Names : \E k \in Keys : Delete(s, k)
      BY <1>2, <3>4, DeleteOK
    <3> QED BY <2>3, <3>1, <3>2, <3>3, <3>4 DEF StoreCall
  <2>4. CASE Run
    BY <1>2, <2>4, RunOK
  <2>5. CASE RunJob
    BY <1>2, <2>5, RunJobOK
  <2>6. CASE Reply
    BY <1>2, <2>6, ReplyOK
  <2>7. CASE Restart
    BY <1>2, <2>7, RestartOK
  <2>8. CASE UNCHANGED dbVars
    BY <1>2, <2>8 DEF dbVars, DbInv, DbTypes, Offers, Raises, SavedWasOffered
  <2> QED BY <1>2, <2>1, <2>2, <2>3, <2>4, <2>5, <2>6, <2>7, <2>8 DEF DbNext, DbCall
<1> QED BY <1>1, <1>2, PTL DEF DbSpec

\* However records and stores come and go, and through restarts, each is listed once
\* and no key is generated twice (ObjectStore, to_bytes and from_bytes).
THEOREM RecordsWhole == DbSpec => []RecordsAreWhole
<1>1. DbInv => RecordsAreWhole
  <2> SUFFICES ASSUME DbInv PROVE RecordsAreWhole
    OBVIOUS
  <2>1. db \in Databases
    BY DEF DbInv, DbTypes
  <2>2. /\ Listed(db.order, DOMAIN db.stores)
        /\ \A s \in DOMAIN db.stores : LET o == db.stores[s] IN
             Listed(o.order, o.entries) /\ \A k \in o.made : k < o.next
    BY <2>1, DatabaseParts, StoreParts
  <2> QED BY <2>2 DEF RecordsAreWhole, EachListedOnce, GeneratedKeysAreNew, Listed
<1> QED BY <1>1, DbInvariant, PTL

\* No version is saved whose upgrade handler was not called, whenever the process
\* died (IndexedDbStore::open, run_jobs).
THEOREM SavedOffered == DbSpec => []SavedWasOffered
<1>1. DbInv => SavedWasOffered
  BY DEF DbInv
<1> QED BY <1>1, DbInvariant, PTL

-----------------------------------------------------------------------------
(* Dom: the inductive invariant                                            *)

\* A tree: its root has no parent; parents are there; what is listed is there, and
\* points to who lists it.
TreeOf(k, u, L) ==
  /\ k \in [Memory -> Seq(Memory \cup {TextNode})] /\ u \in [Memory -> L \cup {Nothing}]
  /\ DocNode \in L /\ u[DocNode] = Nothing
  /\ \A p \in Memory :
       /\ IsInjective(k[p])
       /\ \A c \in ToSet(k[p]) \ {TextNode} : c \in L /\ p \in L /\ u[c] = p

\* Ids are given out once, and those that are known are those given out.
Numbered(L) ==
  /\ id \in [Memory -> Nat] /\ born \in [Memory -> Nat] /\ made \in Nat
  /\ \A c \in L : id[c] = born[c] /\ id[c] <= made
  /\ \A c, d \in L : id[c] = id[d] => c = d
  /\ \A known \in shown \cup heard : known[1] = known[2]

DomInv == TreeOf(kids, up, Live) /\ Numbered(Live) /\ held \subseteq Live \ {DocNode}

-----------------------------------------------------------------------------
(* Dom: walks                                                              *)

LEMMA ClosureHas ==
  ASSUME NEW N, NEW f \in [N -> SUBSET N], NEW S \in SUBSET N
  PROVE  S \subseteq Closure(f, S) /\ Closure(f, S) \subseteq N /\ Closed(f, Closure(f, S))
<1> DEFINE sets == {T \in SUBSET N : S \subseteq T /\ Closed(f, T)}
<1>1. Closure(f, S) = {c \in N : \A T \in sets : c \in T}
  BY DEF Closure
<1>2. \A c \in Closure(f, S) : \A d \in f[c] : d \in N /\ \A T \in sets : d \in T
  BY <1>1 DEF Closed
<1> QED BY <1>1, <1>2 DEF Closed

LEMMA ClosureLeast ==
  ASSUME NEW N, NEW f \in [N -> SUBSET N], NEW S, NEW T \in SUBSET N, S \subseteq T, Closed(f, T)
  PROVE  Closure(f, S) \subseteq T
BY DEF Closure

LEMMA ClosureInto ==
  ASSUME NEW N, NEW f \in [N -> SUBSET N], NEW S \in SUBSET N, NEW T \in SUBSET N,
         S \subseteq Closure(f, T)
  PROVE  Closure(f, S) \subseteq Closure(f, T)
<1>1. Closure(f, T) \in SUBSET N /\ Closed(f, Closure(f, T))
  BY ClosureHas
<1> QED BY <1>1, ClosureLeast

\* What walks come to they started at, or it is a step from where they come.
LEMMA ClosureFrom ==
  ASSUME NEW N, NEW f \in [N -> SUBSET N], NEW S \in SUBSET N, NEW c \in Closure(f, S)
  PROVE  c \in S \/ \E p \in Closure(f, S) : c \in f[p]
<1> DEFINE K == Closure(f, S)
           T == {d \in K : d \in S \/ \E p \in K : d \in f[p]}
<1>1. S \subseteq K /\ K \subseteq N /\ Closed(f, K)
  BY ClosureHas
<1>2. T \in SUBSET N /\ S \subseteq T
  BY <1>1
<1>3. Closed(f, T)
  <2> SUFFICES ASSUME NEW p \in T, NEW d \in f[p] PROVE d \in T
    BY DEF Closed
  <2>1. p \in K /\ d \in K
    BY <1>1 DEF Closed
  <2> QED BY <2>1
<1>4. K \subseteq T
  BY <1>2, <1>3, ClosureLeast
<1> QED BY <1>4

LEMMA WalksTyped ==
  ASSUME TreeOf(kids, up, Live)
  PROVE  Children \in [Live -> SUBSET Live] /\ Parents \in [Live -> SUBSET Live] /\ DocNode \in Live
<1>1. Live \subseteq Memory
  BY DEF Live
<1>2. \A c \in Live : ToSet(kids[c]) \ {TextNode} \subseteq Live
  BY <1>1 DEF TreeOf
<1>3. \A c \in Live : {up[c]} \ {Nothing} \subseteq Live
  BY <1>1 DEF TreeOf
<1> QED BY <1>2, <1>3 DEF Children, Parents, TreeOf

\* Who is listed points to who lists it, and has no other parent.
LEMMA ListedUp ==
  ASSUME TreeOf(kids, up, Live), NEW p \in Live, NEW c \in Children[p]
  PROVE  c \in Live /\ up[c] = p /\ c # DocNode /\ Parents[c] = {p}
<1>1. p \in Memory /\ Children[p] = ToSet(kids[p]) \ {TextNode}
  BY DEF Live, Children
<1>2. c \in Live /\ up[c] = p
  BY <1>1 DEF TreeOf
<1>3. p # Nothing
  BY <1>1, MemoryAssumption
<1>4. c # DocNode
  BY <1>2, <1>3 DEF TreeOf
<1> QED BY <1>2, <1>3, <1>4 DEF Parents

LEMMA ReachedLive ==
  ASSUME TreeOf(kids, up, Live), NEW c \in Live
  PROVE  Reached({c}) \subseteq Live /\ Under(c) \subseteq Live /\ DocNode \notin Under(c)
<1> DEFINE rest == Live \ {DocNode}
<1>1. Children \in [Live -> SUBSET Live] /\ rest \in SUBSET Live
  BY WalksTyped
<1>2. Closed(Children, Live) /\ Closed(Children, rest)
  BY <1>1, ListedUp DEF Closed
<1>3. Children[c] \subseteq rest
  BY <1>1, ListedUp
<1>4. Reached({c}) \subseteq Live
  BY <1>1, <1>2, ClosureLeast DEF Reached
<1>5. Under(c) \subseteq rest
  BY <1>1, <1>2, <1>3, ClosureLeast DEF Reached, Under
<1> QED BY <1>4, <1>5

-----------------------------------------------------------------------------
(* Dom: changes                                                            *)

LEMMA EmptyList == <<>> \in Seq(Memory \cup {TextNode}) /\ IsInjective(<<>>) /\ ToSet(<<>>) = {}
  BY EmptyListed DEF Listed

LEMMA TakenFromListed ==
  ASSUME NEW T, NEW list \in Seq(T), IsInjective(list), NEW c
  PROVE  /\ TakenFrom(list, c) \in Seq(T) /\ IsInjective(TakenFrom(list, c))
         /\ ToSet(TakenFrom(list, c)) = ToSet(list) \ {c}
<1>1. TakenFrom(list, c) = Without(list, c)
  BY DEF TakenFrom, Without
<1>2. PICK things : things = ToSet(list)
  OBVIOUS
<1>3. Listed(list, things)
  BY <1>2 DEF Listed
<1>4. Without(list, c) \in Seq(T) /\ Listed(Without(list, c), things \ {c})
  BY <1>3, WithoutListed
<1> QED BY <1>1, <1>2, <1>4 DEF Listed

LEMMA AppendedTree ==
  ASSUME TreeOf(kids, up, Live), NEW p \in Live, NEW c \in Live \ {DocNode}
  PROVE  TreeOf(Appended(p, c).kids, Appended(p, c).up, Live)
<1> DEFINE Lists == Seq(Memory \cup {TextNode})
           rest == [n \in Memory |-> IF n = up[c] THEN TakenFrom(kids[n], c) ELSE kids[n]]
<1>1. p \in Memory /\ c \in Memory /\ c # TextNode /\ p # Nothing /\ Live \subseteq Memory
  BY MemoryAssumption DEF Live
<1>2. /\ kids \in [Memory -> Lists] /\ up \in [Memory -> Live \cup {Nothing}]
      /\ DocNode \in Live /\ up[DocNode] = Nothing
      /\ \A n \in Memory : IsInjective(kids[n])
      /\ \A n \in Memory : \A d \in ToSet(kids[n]) \ {TextNode} : d \in Live /\ n \in Live /\ up[d] = n
  BY DEF TreeOf
<1>3. \A n \in Memory : rest[n] \in Lists /\ IsInjective(rest[n]) /\ ToSet(rest[n]) = ToSet(kids[n]) \ {c}
  <2> SUFFICES ASSUME NEW n \in Memory
      PROVE  rest[n] \in Lists /\ IsInjective(rest[n]) /\ ToSet(rest[n]) = ToSet(kids[n]) \ {c}
    OBVIOUS
  <2>1. kids[n] \in Lists /\ IsInjective(kids[n])
    BY <1>2
  <2>2. CASE n = up[c]
    <3>1. PICK list : list = kids[n]
      OBVIOUS
    <3>2. rest[n] = TakenFrom(list, c)
      BY <2>2, <3>1
    <3>3. /\ TakenFrom(list, c) \in Lists /\ IsInjective(TakenFrom(list, c))
          /\ ToSet(TakenFrom(list, c)) = ToSet(list) \ {c}
      BY <2>1, <3>1, TakenFromListed
    <3> QED BY <3>1, <3>2, <3>3
  <2>3. CASE n # up[c]
    <3>1. rest[n] = kids[n]
      BY <2>3
    <3>2. c \notin ToSet(kids[n])
      BY <1>1, <1>2, <2>3
    <3> QED BY <2>1, <3>1, <3>2
  <2> QED BY <2>2, <2>3
<1>4. PICK k : k = rest
  OBVIOUS
<1>5. PICK more : more = Append(k[p], c)
  OBVIOUS
<1>6. k \in [Memory -> Lists] /\ k[p] \in Lists
  BY <1>1, <1>3, <1>4
<1>7. more \in Lists /\ IsInjective(more) /\ ToSet(more) = ToSet(kids[p]) \cup {c}
  <2>1. PICK things : things = ToSet(kids[p]) \ {c}
    OBVIOUS
  <2>2. Listed(k[p], things) /\ c \notin things /\ c \in Memory \cup {TextNode}
    BY <1>1, <1>3, <1>4, <2>1 DEF Listed
  <2>3. PICK list : list = k[p]
    OBVIOUS
  <2>4. Append(list, c) \in Lists /\ Listed(Append(list, c), things \cup {c})
    BY <1>6, <2>2, <2>3, AppendListed
  <2> QED BY <1>5, <2>1, <2>3, <2>4 DEF Listed
<1>8. PICK k2 : k2 = [k EXCEPT ![p] = more]
  OBVIOUS
<1>9. PICK u2 : u2 = [up EXCEPT ![c] = p]
  OBVIOUS
<1>10. Appended(p, c).kids = k2 /\ Appended(p, c).up = u2
  BY <1>4, <1>5, <1>8, <1>9 DEF Appended
<1> HIDE DEF rest
<1>11. k2 \in [Memory -> Lists] /\ k2[p] = more /\ \A n \in Memory \ {p} : k2[n] = k[n]
  BY <1>1, <1>6, <1>7, <1>8
<1>12. /\ u2 \in [Memory -> Live \cup {Nothing}] /\ u2[c] = p
       /\ \A n \in Memory \ {c} : u2[n] = up[n]
  BY <1>1, <1>2, <1>9
<1>13. DocNode \in Live /\ u2[DocNode] = Nothing
  BY <1>1, <1>2, <1>12
<1>14. \A n \in Memory : IsInjective(k2[n])
  BY <1>3, <1>4, <1>7, <1>11
<1>15. \A n \in Memory : \A d \in ToSet(k2[n]) \ {TextNode} : d \in Live /\ n \in Live /\ u2[d] = n
  <2> SUFFICES ASSUME NEW n \in Memory, NEW d \in ToSet(k2[n]) \ {TextNode}
      PROVE  d \in Live /\ n \in Live /\ u2[d] = n
    OBVIOUS
  <2>1. CASE d = c
    <3>1. n = p
      <4>1. \A m \in Memory \ {p} : k2[m] = rest[m] /\ c \notin ToSet(rest[m])
        BY <1>3, <1>4, <1>11
      <4> QED BY <2>1, <4>1
    <3> QED BY <1>12, <2>1, <3>1
  <2>2. CASE d # c
    <3>1. d \in ToSet(kids[n]) \ {TextNode}
      <4>1. CASE n = p
        BY <1>7, <1>11, <2>2, <4>1
      <4>2. CASE n # p
        <5>1. k2[n] = rest[n] /\ ToSet(rest[n]) = ToSet(kids[n]) \ {c}
          BY <1>3, <1>4, <1>11, <4>2
        <5> QED BY <5>1
      <4> QED BY <4>1, <4>2
    <3>2. d \in Live /\ n \in Live /\ up[d] = n
      BY <1>2, <3>1
    <3> QED BY <1>1, <1>12, <2>2, <3>2
  <2> QED BY <2>1, <2>2
<1> QED BY <1>10, <1>11, <1>12, <1>13, <1>14, <1>15 DEF TreeOf

LEMMA RetextedTree ==
  ASSUME TreeOf(kids, up, Live), NEW n \in Live
  PROVE  TreeOf(Retexted(n).kids, Retexted(n).up, Live)
<1>1. <<TextNode>> \in Seq(Memory \cup {TextNode}) /\ IsInjective(<<TextNode>>) /\ ToSet(<<TextNode>>) = {TextNode}
  BY DEF IsInjective, ToSet
<1>2. PICK one : one = <<TextNode>>
  OBVIOUS
<1>3. Retexted(n).kids = [kids EXCEPT ![n] = one] /\ Retexted(n).up = up
  BY <1>2 DEF Retexted
<1>4. PICK k : k = [kids EXCEPT ![n] = one]
  OBVIOUS
<1>5. n \in Memory
  BY DEF Live
<1>6. /\ k \in [Memory -> Seq(Memory \cup {TextNode})] /\ k[n] = one
      /\ \A p \in Memory \ {n} : k[p] = kids[p]
  BY <1>1, <1>2, <1>4, <1>5 DEF TreeOf
<1>7. TreeOf(k, up, Live)
  <2>1. \A p \in Memory : k[p] = kids[p] \/ (p = n /\ k[p] = one)
    BY <1>6
  <2>2. IsInjective(one) /\ ToSet(one) \ {TextNode} = {}
    BY <1>1, <1>2
  <2>3. \A p \in Memory : /\ IsInjective(k[p])
                         /\ \A c \in ToSet(k[p]) \ {TextNode} : c \in Live /\ p \in Live /\ up[c] = p
    <3> SUFFICES ASSUME NEW p \in Memory
        PROVE  /\ IsInjective(k[p])
               /\ \A c \in ToSet(k[p]) \ {TextNode} : c \in Live /\ p \in Live /\ up[c] = p
      OBVIOUS
    <3>1. CASE k[p] = kids[p]
      BY <3>1 DEF TreeOf
    <3>2. CASE p = n /\ k[p] = one
      BY <2>2, <3>2
    <3> QED BY <2>1, <3>1, <3>2
  <2> QED BY <1>6, <2>3 DEF TreeOf
<1> QED BY <1>3, <1>4, <1>7

\* What nothing keeps goes, and lists of what stays are whole.
LEMMA AliveKeeps ==
  ASSUME NEW L, NEW k, NEW roots
  PROVE  /\ Alive(L, k, roots) \subseteq L /\ roots \cap L \subseteq Alive(L, k, roots)
         /\ \A p \in Alive(L, k, roots) : ToSet(k[p]) \cap L \subseteq Alive(L, k, roots)
<1> DEFINE Backed(S) == \A c \in S : c \in roots \/ \E p \in S : c \in ToSet(k[p])
           K == Alive(L, k, roots)
<1>1. K = UNION {S \in SUBSET L : Backed(S)}
  BY DEF Alive
<1>2. \A S \in SUBSET L : Backed(S) => S \subseteq K
  BY <1>1
<1>3. K \in SUBSET L
  BY <1>1
<1>4. \A c \in K : \E S \in SUBSET L : Backed(S) /\ c \in S
  BY <1>1
<1>5. Backed(K)
  BY <1>2, <1>4
<1>6. roots \cap L \subseteq K
  <2>1. Backed(roots \cap L) /\ roots \cap L \in SUBSET L
    OBVIOUS
  <2> QED BY <1>2, <2>1
<1>7. \A p \in K : ToSet(k[p]) \cap L \subseteq K
  <2> SUFFICES ASSUME NEW p \in K, NEW c \in ToSet(k[p]) \cap L PROVE c \in K
    OBVIOUS
  <2>1. Backed(K \cup {c}) /\ K \cup {c} \in SUBSET L
    BY <1>3, <1>5
  <2>2. K \cup {c} \subseteq K
    BY <1>2, <2>1
  <2> QED BY <2>2
<1> QED BY <1>3, <1>6, <1>7

LEMMA BecomesOK ==
  ASSUME NEW t, TreeOf(t.kids, t.up, Live), Numbered(Live), NEW h \in SUBSET (Live \ {DocNode}), NEW click,
         Becomes(t, h, click), UNCHANGED <<heard, shown>>
  PROVE  DomInv'
<1>1. PICK K : K = Alive(Live, t.kids, {DocNode, click} \cup h)
  OBVIOUS
<1>2. Live \subseteq Memory /\ DocNode \in Live
  BY DEF Live, TreeOf
<1>3. PICK k : k = t.kids
  OBVIOUS
<1>4. PICK u : u = t.up
  OBVIOUS
<1>5. /\ K \subseteq Live /\ DocNode \in K /\ h \subseteq K
      /\ \A p \in K : ToSet(k[p]) \cap Live \subseteq K
  BY <1>1, <1>2, <1>3, AliveKeeps
<1>6. /\ kids' = [c \in Memory |-> IF c \in K THEN k[c] ELSE <<>>]
      /\ up' = [c \in Memory |-> IF c \in K /\ u[c] \in K THEN u[c] ELSE Nothing]
      /\ id' = [c \in Memory |-> IF c \in K THEN id[c] ELSE 0]
      /\ held' = h /\ made' = made /\ born' = born
  BY <1>1, <1>3, <1>4 DEF Becomes
<1>7. TreeOf(k, u, Live)
  BY <1>3, <1>4
<1>8. Live' = K
  BY <1>2, <1>5, <1>6 DEF Live
<1>9. TreeOf(kids', up', K)
  <2>1. kids' \in [Memory -> Seq(Memory \cup {TextNode})] /\ \A p \in Memory : IsInjective(kids'[p])
    BY <1>6, <1>7, EmptyList DEF TreeOf
  <2>2. up' \in [Memory -> K \cup {Nothing}]
    BY <1>6, <1>7 DEF TreeOf
  <2>3. up'[DocNode] = Nothing
    BY <1>2, <1>5, <1>6, <1>7 DEF TreeOf
  <2>4. ASSUME NEW p \in Memory, NEW c \in ToSet(kids'[p]) \ {TextNode}
        PROVE  c \in K /\ p \in K /\ up'[c] = p
    <3>1. p \in K /\ c \in ToSet(k[p]) \ {TextNode}
      BY <1>6, <2>4, EmptyList
    <3>2. c \in Live /\ u[c] = p
      BY <1>7, <3>1 DEF TreeOf
    <3>3. c \in K
      BY <1>5, <3>1, <3>2
    <3> QED BY <1>2, <1>6, <3>1, <3>2, <3>3
  <2> QED BY <1>5, <2>1, <2>2, <2>3, <2>4 DEF TreeOf
<1>10. Numbered(K)'
  <2>1. /\ id \in [Memory -> Nat] /\ born \in [Memory -> Nat] /\ made \in Nat
        /\ \A c \in Live : id[c] = born[c] /\ id[c] <= made
        /\ \A c, d \in Live : id[c] = id[d] => c = d
        /\ \A known \in shown \cup heard : known[1] = known[2]
    BY DEF Numbered
  <2>2. id' \in [Memory -> Nat] /\ \A c \in K : id'[c] = id[c]
    BY <1>2, <1>5, <1>6, <2>1
  <2> QED BY <1>5, <1>6, <2>1, <2>2 DEF Numbered
<1>11. TreeOf(kids', up', Live') /\ Numbered(Live)' /\ held' \subseteq Live' \ {DocNode}
  <2>1. Numbered(Live)'
    BY <1>8, <1>10 DEF Numbered
  <2> QED BY <1>5, <1>6, <1>8, <1>9, <2>1
<1> QED BY <1>11 DEF DomInv, TreeOf

-----------------------------------------------------------------------------
(* Dom: each action                                                        *)

LEMMA TreeStays ==
  ASSUME DomInv, UNCHANGED <<kids, up, id, made, born, heard, shown>>, held' \subseteq Live \ {DocNode}
  PROVE  DomInv'
<1>1. Live' = Live
  BY DEF Live
<1>2. TreeOf(kids, up, Live)' /\ (held \subseteq Live \ {DocNode})'
  BY <1>1 DEF DomInv, TreeOf
<1>3. Numbered(Live)'
  BY <1>1 DEF DomInv, Numbered
<1> QED BY <1>2, <1>3 DEF DomInv

LEMMA CreateElementOK == ASSUME DomInv, NEW c \in Memory, CreateElement(c) PROVE DomInv'
<1>1. /\ c \notin Live /\ id' = [id EXCEPT ![c] = made + 1] /\ born' = [born EXCEPT ![c] = made + 1]
      /\ made' = made + 1 /\ held' = held \cup {c}
      /\ kids' = kids /\ up' = up /\ heard' = heard /\ shown' = shown
  BY DEF CreateElement, FreshId
<1>2. TreeOf(kids, up, Live) /\ Numbered(Live) /\ held \subseteq Live \ {DocNode}
  BY DEF DomInv
<1>3. id \in [Memory -> Nat] /\ born \in [Memory -> Nat] /\ made \in Nat /\ Live \subseteq Memory
  BY <1>2 DEF Numbered, Live
<1>4. /\ id' \in [Memory -> Nat] /\ born' \in [Memory -> Nat] /\ made' \in Nat
      /\ id'[c] = made + 1 /\ born'[c] = made + 1
      /\ \A d \in Memory \ {c} : id'[d] = id[d] /\ born'[d] = born[d]
  BY <1>1, <1>3
<1>5. PICK L : L = Live \cup {c}
  OBVIOUS
<1>6. Live' = L
  BY <1>1, <1>3, <1>4, <1>5 DEF Live
<1>7. TreeOf(kids', up', L)
  <2>1. up' \in [Memory -> L \cup {Nothing}]
    BY <1>1, <1>2, <1>5 DEF TreeOf
  <2> QED BY <1>1, <1>2, <1>5, <2>1 DEF TreeOf
<1>8. Numbered(Live)'
  <2>1. \A d \in L : id'[d] = born'[d] /\ id'[d] <= made'
    BY <1>1, <1>2, <1>3, <1>4, <1>5 DEF Numbered
  <2>2. \A d, e \in L : id'[d] = id'[e] => d = e
    <3>1. \A d \in Live : id'[d] = id[d] /\ id[d] <= made /\ id[d] \in Nat
      BY <1>1, <1>2, <1>3, <1>4 DEF Numbered
    <3>2. \A d \in Live : id'[d] # id'[c]
      BY <1>3, <1>4, <3>1
    <3>3. \A d, e \in Live : id'[d] = id'[e] => d = e
      BY <1>2, <3>1 DEF Numbered
    <3> QED BY <1>5, <3>2, <3>3
  <2>3. \A known \in shown' \cup heard' : known[1] = known[2]
    BY <1>1, <1>2 DEF Numbered
  <2> QED BY <1>4, <1>6, <2>1, <2>2, <2>3 DEF Numbered
<1>9. c # DocNode
  BY <1>1, <1>2 DEF TreeOf
<1>10. held' \subseteq Live' \ {DocNode}
  BY <1>1, <1>2, <1>5, <1>6, <1>9
<1> QED BY <1>6, <1>7, <1>8, <1>10 DEF DomInv, TreeOf

LEMMA AppendChildOK == ASSUME DomInv, NEW p, NEW c, AppendChild(p, c) PROVE DomInv'
<1>1. /\ TreeOf(kids, up, Live) /\ Numbered(Live) /\ held \in SUBSET (Live \ {DocNode})
      /\ p \in Live /\ c \in Live \ {DocNode} /\ UNCHANGED <<heard, shown>>
  BY DEF DomInv, AppendChild
<1>2. CASE up[c] = c
  BY <1>1, <1>2, TreeStays DEF AppendChild
<1>3. CASE up[c] # c
  <2>1. PICK t : t = Appended(p, c)
    OBVIOUS
  <2>2. TreeOf(t.kids, t.up, Live)
    BY <1>1, <2>1, AppendedTree
  <2>3. Becomes(t, held, target)
    BY <1>3, <2>1 DEF AppendChild
  <2> QED BY <1>1, <2>2, <2>3, BecomesOK
<1> QED BY <1>2, <1>3

LEMMA SetTextOK == ASSUME DomInv, NEW n, SetText(n) PROVE DomInv'
<1>1. /\ Numbered(Live) /\ held \in SUBSET (Live \ {DocNode}) /\ TreeOf(kids, up, Live)
      /\ n \in Live /\ UNCHANGED <<heard, shown>>
  BY DEF DomInv, SetText
<1>2. PICK t : t = Retexted(n)
  OBVIOUS
<1>3. TreeOf(t.kids, t.up, Live)
  BY <1>1, <1>2, RetextedTree
<1>4. Becomes(t, held, target)
  BY <1>2 DEF SetText
<1> QED BY <1>1, <1>3, <1>4, BecomesOK

LEMMA SearchOK == ASSUME DomInv, NEW c, Search(c) PROVE DomInv'
<1>1. c \in Live /\ Under(c) \subseteq Live \ {DocNode}
  <2>1. TreeOf(kids, up, Live)
    BY DEF DomInv
  <2>2. c \in Live
    BY <2>1 DEF DomInv, Search, TreeOf
  <2> QED BY <2>1, <2>2, ReachedLive
<1>2. held' \subseteq Live \ {DocNode}
  BY <1>1 DEF Search, DomInv
<1> QED BY <1>2, TreeStays DEF Search

LEMMA FindByIdOK == ASSUME DomInv, NEW c, FindById(c) PROVE DomInv'
<1>1. Under(DocNode) \subseteq Live \ {DocNode}
  <2>1. TreeOf(kids, up, Live)
    BY DEF DomInv
  <2>2. DocNode \in Live
    BY <2>1 DEF TreeOf
  <2> QED BY <2>1, <2>2, ReachedLive
<1>2. held' \subseteq Live \ {DocNode}
  BY <1>1 DEF FindById, DomInv
<1> QED BY <1>2, TreeStays DEF FindById

LEMMA AddEventListenerOK == ASSUME DomInv, NEW n, AddEventListener(n) PROVE DomInv'
<1>1. Live' = Live
  BY DEF Live, AddEventListener
<1>2. TreeOf(kids, up, Live)' /\ (held \subseteq Live \ {DocNode})'
  BY <1>1 DEF DomInv, TreeOf, AddEventListener
<1>3. id[n] = born[n]
  BY DEF DomInv, Numbered, AddEventListener
<1>4. heard' = heard \cup {<<id[n], born[n]>>}
  BY DEF AddEventListener
<1>5. \A known \in shown' \cup heard' : known[1] = known[2]
  BY <1>3, <1>4 DEF DomInv, Numbered, AddEventListener
<1>6. Numbered(Live)'
  BY <1>1, <1>5 DEF DomInv, Numbered, AddEventListener
<1> QED BY <1>2, <1>6 DEF DomInv

LEMMA RenderOK == ASSUME DomInv, Render PROVE DomInv'
<1>1. Live' = Live
  BY DEF Live, Render
<1>2. TreeOf(kids, up, Live)' /\ (held \subseteq Live \ {DocNode})'
  BY <1>1 DEF DomInv, TreeOf, Render
<1>3. \A c \in Under(DocNode) : id[c] = born[c]
  <2>1. TreeOf(kids, up, Live) /\ Numbered(Live)
    BY DEF DomInv
  <2>2. DocNode \in Live
    BY <2>1 DEF TreeOf
  <2>3. Under(DocNode) \subseteq Live
    BY <2>1, <2>2, ReachedLive
  <2> QED BY <2>1, <2>3 DEF Numbered
<1>4. \A known \in shown' \cup heard' : known[1] = known[2]
  BY <1>3 DEF DomInv, Numbered, Render
<1>5. Numbered(Live)'
  BY <1>1, <1>4 DEF DomInv, Numbered, Render
<1> QED BY <1>2, <1>5 DEF DomInv

LEMMA StillTree ==
  ASSUME DomInv, NEW h \in SUBSET held, NEW click, Becomes(TreeNow, h, click), UNCHANGED <<heard, shown>>
  PROVE  DomInv'
<1>1. PICK t : t = TreeNow
  OBVIOUS
<1>2. t.kids = kids /\ t.up = up
  BY <1>1 DEF TreeNow
<1>3. TreeOf(t.kids, t.up, Live) /\ Numbered(Live) /\ h \in SUBSET (Live \ {DocNode}) /\ Becomes(t, h, click)
  BY <1>1, <1>2 DEF DomInv
<1> QED BY <1>3, BecomesOK

LEMMA PageTree == TreeOf(PageKids, PageUp, 1 .. 3)
<1>1. {1, 2, 3} \subseteq Memory /\ Memory \subseteq Nat /\ TextNode \notin Memory /\ 1 .. 3 = {1, 2, 3}
  BY MemoryAssumption
<1>2. \A n \in Memory : <<n>> \in Seq(Memory \cup {TextNode}) /\ IsInjective(<<n>>) /\ ToSet(<<n>>) = {n}
  BY DEF IsInjective, ToSet
<1>3. PICK one : one = [n \in Memory |-> <<n>>]
  OBVIOUS
<1>4. \A n \in Memory : one[n] \in Seq(Memory \cup {TextNode}) /\ IsInjective(one[n]) /\ ToSet(one[n]) = {n}
  BY <1>2, <1>3
<1>5. PICK none : none = <<>>
  OBVIOUS
<1>6. none \in Seq(Memory \cup {TextNode}) /\ IsInjective(none) /\ ToSet(none) = {}
  BY <1>5, EmptyList
<1>7. /\ PageKids \in [Memory -> Seq(Memory \cup {TextNode})] /\ PageKids[1] = one[2] /\ PageKids[2] = one[3]
      /\ \A c \in Memory \ {1, 2} : PageKids[c] = none
  <2>1. \A c \in Memory : PageKids[c] = IF c \in {1, 2} THEN <<c + 1>> ELSE <<>>
    BY DEF PageKids
  <2>2. PageKids[1] = one[2] /\ PageKids[2] = one[3]
    BY <1>1, <1>3, <2>1
  <2>3. \A c \in Memory \ {1, 2} : PageKids[c] = none
    BY <1>5, <2>1
  <2>4. \A c \in Memory : PageKids[c] \in Seq(Memory \cup {TextNode})
    BY <1>1, <1>4, <1>6, <2>2, <2>3
  <2> QED BY <2>2, <2>3, <2>4 DEF PageKids
<1>8. /\ PageUp \in [Memory -> (1 .. 3) \cup {Nothing}] /\ PageUp[1] = Nothing /\ PageUp[2] = 1 /\ PageUp[3] = 2
  BY <1>1 DEF PageUp
<1>9. \A p \in Memory : IsInjective(PageKids[p])
  BY <1>1, <1>4, <1>6, <1>7
<1>10. ASSUME NEW p \in Memory, NEW c \in ToSet(PageKids[p]) \ {TextNode}
       PROVE  c \in 1 .. 3 /\ p \in 1 .. 3 /\ PageUp[c] = p
  <2>1. CASE p = 1
    <3>1. ToSet(PageKids[p]) = {2}
      BY <1>1, <1>4, <1>7, <2>1
    <3>2. c = 2
      BY <3>1
    <3> QED BY <1>8, <2>1, <3>2
  <2>2. CASE p = 2
    <3>1. ToSet(PageKids[p]) = {3}
      BY <1>1, <1>4, <1>7, <2>2
    <3>2. c = 3
      BY <3>1
    <3> QED BY <1>8, <2>2, <3>2
  <2>3. CASE p \notin {1, 2}
    BY <1>6, <1>7, <1>10, <2>3
  <2> QED BY <2>1, <2>2, <2>3
<1> QED BY <1>1, <1>7, <1>8, <1>9, <1>10 DEF TreeOf, DocNode

LEMMA NavigateOK == ASSUME DomInv, Navigate PROVE DomInv'
<1>1. /\ kids' = PageKids /\ up' = PageUp /\ made' = made + 3 /\ held' = {} /\ heard' = {}
      /\ id' = [c \in Memory |-> IF c <= 3 THEN made + c ELSE 0]
      /\ born' = [c \in Memory |-> IF c <= 3 THEN made + c ELSE 0] /\ shown' = shown
  BY DEF Navigate, FreshId
<1>2. made \in Nat /\ \A known \in shown : known[1] = known[2]
  BY DEF DomInv, Numbered
<1>3. 1 .. 3 \subseteq Memory /\ Memory \subseteq Nat \ {0}
  BY MemoryAssumption
<1>4. PICK L : L = 1 .. 3
  OBVIOUS
<1>5. \A c \in Memory : IF c \in L THEN id'[c] = made + c ELSE id'[c] = 0
  BY <1>1, <1>3, <1>4
<1>6. L \subseteq Nat \ {0} /\ L \subseteq Memory /\ \A c \in L : c <= 3
  BY <1>3, <1>4
<1>7. Live' = L
  <2>1. \A c \in L : made + c # 0
    BY <1>2, <1>6
  <2>2. \A c \in Memory : id'[c] # 0 <=> c \in L
    BY <1>5, <2>1
  <2>3. Live' = {c \in Memory : id'[c] # 0}
    BY DEF Live
  <2> QED BY <1>6, <2>2, <2>3
<1>8. TreeOf(kids', up', Live')
  BY <1>1, <1>4, <1>7, PageTree
<1>9. Numbered(Live)'
  <2>1. id' \in [Memory -> Nat] /\ born' \in [Memory -> Nat] /\ made' \in Nat
    BY <1>1, <1>2, <1>3
  <2>2. \A c \in L : id'[c] = born'[c] /\ id'[c] <= made'
    BY <1>1, <1>2, <1>5, <1>6
  <2>3. \A c, d \in L : id'[c] = id'[d] => c = d
    BY <1>2, <1>5, <1>6
  <2> QED BY <1>1, <1>2, <1>7, <2>1, <2>2, <2>3 DEF Numbered
<1>10. held' \subseteq Live' \ {DocNode}
  BY <1>1
<1> QED BY <1>8, <1>9, <1>10 DEF DomInv, TreeOf

LEMMA DomInitOK == DomInit => DomInv
<1> SUFFICES ASSUME DomInit PROVE DomInv
  OBVIOUS
<1>1. /\ kids = PageKids /\ up = PageUp /\ made = 3 /\ held = {} /\ heard = {} /\ shown = {}
      /\ id = [c \in Memory |-> IF c <= 3 THEN c ELSE 0] /\ born = id
  BY DEF DomInit
<1>2. 1 .. 3 \subseteq Memory /\ Memory \subseteq Nat \ {0}
  BY MemoryAssumption
<1>3. Live = 1 .. 3
  <2>1. \A c \in Memory : id[c] # 0 <=> c <= 3
    BY <1>1, <1>2
  <2>2. \A c \in Memory : c \in Nat \ {0} /\ (c \in 1 .. 3 <=> c <= 3)
    BY <1>2
  <2> QED BY <1>2, <2>1, <2>2 DEF Live
<1>4. TreeOf(kids, up, Live)
  BY <1>1, <1>3, PageTree
<1>5. Numbered(Live)
  BY <1>1, <1>2, <1>3 DEF Numbered
<1> QED BY <1>1, <1>4, <1>5 DEF DomInv

-----------------------------------------------------------------------------
(* Dom: theorems                                                           *)

\* Every node that is listed is live and points to the node that lists it, once; no id
\* is given twice; no script has an object for the document itself or for a node that
\* is gone. It holds from every page on (append_child, set_text_content, next_node_id).
THEOREM DomInvariant == DomSpec => []DomInv
<1>1. DomInit => DomInv
  BY DomInitOK
<1>2. DomInv /\ [DomNext]_domVars => DomInv'
  <2> SUFFICES ASSUME DomInv, [DomNext]_domVars PROVE DomInv'
    OBVIOUS
  <2>1. CASE \E n \in Memory : CreateElement(n)
    BY <2>1, CreateElementOK
  <2>2. CASE \E n, c \in Memory : AppendChild(n, c)
    BY <2>2, AppendChildOK
  <2>3. CASE \E n \in Memory : SetText(n)
    BY <2>3, SetTextOK
  <2>4. CASE \E n \in Memory : Search(n)
    BY <2>4, SearchOK
  <2>5. CASE \E n \in Memory : FindById(n)
    BY <2>5, FindByIdOK
  <2>6. CASE \E n \in Memory : SetClass(n)
    BY <2>6, TreeStays DEF SetClass, DomInv
  <2>7. CASE \E n \in Memory : AddEventListener(n)
    BY <2>7, AddEventListenerOK
  <2>8. CASE RunScript \/ EndScript \/ \E box \in shown : Click(box[1])
    BY <2>8, TreeStays DEF RunScript, EndScript, Click, DomInv
  <2>9. CASE EndClick
    BY <2>9, StillTree DEF EndClick
  <2>10. CASE Render
    BY <2>10, RenderOK
  <2>11. CASE Navigate
    BY <2>11, NavigateOK
  <2>12. CASE \E n \in Memory : Collect(n)
    <3>1. PICK n \in Memory : Collect(n)
      BY <2>12
    <3>2. held \ {n} \in SUBSET held
      OBVIOUS
    <3> QED BY <3>1, <3>2, StillTree DEF Collect
  <2>13. CASE UNCHANGED domVars
    BY <2>13, TreeStays DEF domVars, DomInv
  <2> QED BY <2>1, <2>2, <2>3, <2>4, <2>5, <2>6, <2>7, <2>8, <2>9, <2>10, <2>11, <2>12, <2>13
          DEF DomNext, DomCall
<1> QED BY <1>1, <1>2, PTL DEF DomSpec

\* Searches down and walks up meet the same nodes: below c is who has c above it.
LEMMA BelowIsAbove ==
  ASSUME TreeOf(kids, up, Live), NEW c \in Reached({DocNode}), NEW n
  PROVE  n \in Under(c) <=> n \in Reached({DocNode}) /\ n # c /\ c \in ancestor_chain(n)
<1> DEFINE D == Reached({DocNode})
<1>1. /\ Children \in [Live -> SUBSET Live] /\ Parents \in [Live -> SUBSET Live]
      /\ DocNode \in Live /\ DocNode \in Live /\ Live \subseteq Live
  BY WalksTyped DEF TreeOf
<1>2. D \in SUBSET Live /\ DocNode \in D /\ Closed(Children, D)
  BY <1>1, ClosureHas DEF Reached
<1>3. \A m \in D : m = DocNode \/ \E p \in D : m \in Children[p]
  <2> TAKE m \in D
  <2>1. {DocNode} \in SUBSET Live /\ m \in Closure(Children, {DocNode})
    BY <1>1 DEF Reached
  <2> QED BY <1>1, <2>1, ClosureFrom DEF Reached
<1>4. c \in Live /\ c \in D
  BY <1>2
<1>5. \A m \in Live : /\ Children[m] \in SUBSET Live
                      /\ Under(m) \in SUBSET Live /\ Children[m] \subseteq Under(m)
                      /\ Closed(Children, Under(m))
  BY <1>1, ClosureHas DEF Under, Reached
<1>6. \A m \in Live : \A d \in Under(m) : d \in Children[m] \/ \E p \in Under(m) : d \in Children[p]
  <2> TAKE m \in Live
  <2> TAKE d \in Under(m)
  <2>1. Children[m] \in SUBSET Live /\ d \in Closure(Children, Children[m])
    BY <1>5 DEF Under, Reached
  <2> QED BY <1>1, <2>1, ClosureFrom DEF Under, Reached
<1>7. \A m \in Live : /\ ancestor_chain(m) \in SUBSET Live /\ m \in ancestor_chain(m)
                      /\ Closed(Parents, ancestor_chain(m))
  BY <1>1, ClosureHas DEF ancestor_chain
\* The parent of who is below m is below m, or m.
<1>8. \A m \in Live : \A d \in Under(m) : up[d] = m \/ up[d] \in Under(m)
  <2> TAKE m \in Live
  <2> TAKE d \in Under(m)
  <2>1. CASE d \in Children[m]
    BY <2>1, ListedUp
  <2>2. CASE \E p \in Under(m) : d \in Children[p]
    BY <1>5, <2>2, ListedUp
  <2> QED BY <1>6, <2>1, <2>2
\* No node of the document is below itself: walks from the document never get to those.
<1>9. c \notin Under(c)
  <2> SUFFICES ASSUME c \in Under(c) PROVE FALSE
    OBVIOUS
  <2> DEFINE rest == D \ Under(c)
  <2>1. DocNode \notin Under(c)
    <3>1. D \subseteq Live
      BY <1>1, ReachedLive
    <3> QED BY <1>4, <3>1, ReachedLive
  <2>2. Closed(Children, rest)
    <3> SUFFICES ASSUME NEW m \in rest, NEW d \in Children[m] PROVE d \in rest
      BY DEF Closed
    <3>1. m \in Live /\ d \in D /\ up[d] = m
      BY <1>2, ListedUp DEF Closed
    <3>2. d \notin Under(c)
      BY <1>4, <1>8, <3>1
    <3> QED BY <3>1, <3>2
  <2>3. D \subseteq rest
    <3>1. rest \in SUBSET Live /\ {DocNode} \subseteq rest
      BY <1>2, <2>1
    <3> HIDE DEF rest
    <3>2. Closure(Children, {DocNode}) \subseteq rest
      BY <1>1, <2>2, <3>1, ClosureLeast
    <3> QED BY <3>2 DEF Reached
  <2> QED BY <1>4, <2>3
<1>10. n \in Under(c) => n \in D /\ c \in ancestor_chain(n)
  <2> DEFINE T == {m \in D : c \in ancestor_chain(m)}
  <2>1. \A m \in Live : m \in T => Children[m] \subseteq T
    <3> SUFFICES ASSUME NEW m \in Live, m \in T, NEW d \in Children[m] PROVE d \in T
      OBVIOUS
    <3>1. d \in D /\ d \in Live /\ Parents[d] = {m}
      BY <1>2, ListedUp DEF Closed
    <3>2. {m} \in SUBSET Live /\ {d} \in SUBSET Live /\ {m} \subseteq Closure(Parents, {d})
      BY <1>7, <3>1 DEF ancestor_chain, Closed
    <3>3. ancestor_chain(m) \subseteq ancestor_chain(d)
      BY <1>1, <3>2, ClosureInto DEF ancestor_chain
    <3> QED BY <3>1, <3>3
  <2>2. c \in T
    BY <1>4, <1>7
  <2>3. T \in SUBSET Live /\ Children[c] \subseteq T /\ Closed(Children, T)
    BY <1>2, <1>4, <2>1, <2>2 DEF Closed
  <2>4. Under(c) \subseteq T
    BY <1>1, <2>3, ClosureLeast DEF Under, Reached
  <2> QED BY <2>4
<1>11. ASSUME n \in D, c \in ancestor_chain(n), n # c
       PROVE  n \in Under(c)
  <2> DEFINE T == {m \in D : m = n \/ n \in Under(m)}
  <2>1. \A m \in T : Parents[m] \subseteq T
    <3> SUFFICES ASSUME NEW m \in T, NEW p \in Parents[m] PROVE p \in T
      OBVIOUS
    <3>1. m \in Live
      BY <1>2
    <3>2. p = up[m] /\ p # Nothing
      BY <3>1 DEF Parents
    <3>3. m # DocNode
      BY <3>2 DEF TreeOf
    <3>4. PICK q \in D : m \in Children[q]
      BY <1>3, <3>3
    <3>5. q \in Live /\ up[m] = q
      BY <1>2, <3>4, ListedUp
    <3>6. m \in Under(q) /\ Children[m] \subseteq Under(q)
      BY <1>5, <3>4, <3>5 DEF Closed
    <3>7. Under(m) \subseteq Under(q)
      BY <1>1, <1>5, <3>1, <3>5, <3>6, ClosureInto DEF Under, Reached
    <3> QED BY <3>2, <3>4, <3>5, <3>6, <3>7
  <2>2. T \in SUBSET Live /\ {n} \subseteq T /\ Closed(Parents, T)
    BY <1>2, <1>11, <2>1 DEF Closed
  <2>3. ancestor_chain(n) \subseteq T
    BY <1>1, <2>2, ClosureLeast DEF ancestor_chain
  <2> QED BY <1>11, <2>3
<1> QED BY <1>9, <1>10, <1>11

\* Whatever scripts move, drop and adopt: a node is listed once, by the parent it
\* points to, and the document stays a tree that looks the same from above and from
\* below (append_child, query_selector_all, ancestor_chain).
THEOREM DocumentSound == DomSpec => []DocumentIsSound
<1>1. DomInv => DocumentIsSound
  <2> SUFFICES ASSUME DomInv PROVE DocumentIsSound
    OBVIOUS
  <2>1. TreeOf(kids, up, Live)
    BY DEF DomInv
  <2>2. ListedOnce
    <3> SUFFICES ASSUME NEW p \in Live
        PROVE  /\ \A i, j \in DOMAIN kids[p] : kids[p][i] = kids[p][j] /\ kids[p][i] # TextNode => i = j
               /\ \A c \in Children[p] : up[c] = p
      BY DEF ListedOnce
    <3>1. p \in Live /\ IsInjective(kids[p])
      BY <2>1 DEF TreeOf, Live
    <3>2. \A i, j \in DOMAIN kids[p] : kids[p][i] = kids[p][j] => i = j
      BY <3>1 DEF IsInjective
    <3>3. \A c \in Children[p] : up[c] = p
      BY <2>1, <3>1, ListedUp
    <3> QED BY <3>2, <3>3
  <2>3. DocumentIsTree
    <3>1. PICK D : D = Reached({DocNode})
      OBVIOUS
    <3>2. PICK down : down = UNION {{c} \X Under(c) : c \in D}
      OBVIOUS
    <3>3. PICK upward : upward = UNION {(ancestor_chain(n) \ {n}) \X {n} : n \in D}
      OBVIOUS
    <3>4. \A e : e \in down <=> \E c \in D : \E n \in Under(c) : e = <<c, n>>
      BY <3>2
    <3>5. \A e : e \in upward <=> \E n \in D : \E c \in ancestor_chain(n) \ {n} : e = <<c, n>>
      BY <3>3
    <3>6. \A c \in D : \A n : n \in Under(c) <=> n \in D /\ n # c /\ c \in ancestor_chain(n)
      BY <2>1, <3>1, BelowIsAbove
    <3>7. \A n \in D : ancestor_chain(n) \subseteq D
      <4> TAKE n \in D
      <4>1. /\ Children \in [Live -> SUBSET Live] /\ Parents \in [Live -> SUBSET Live]
            /\ DocNode \in Live
        BY <2>1, WalksTyped
      <4>2. D \in SUBSET Live /\ Closed(Parents, D)
        <5>1. D \in SUBSET Live
          BY <3>1, <4>1, ClosureHas DEF Reached
        <5>2. ASSUME NEW m \in D, NEW p \in Parents[m] PROVE p \in D
          <6>1. m \in Live /\ p = up[m] /\ p # Nothing
            BY <5>1, <5>2 DEF Parents
          <6>2. {DocNode} \in SUBSET Live /\ m \in Closure(Children, {DocNode}) /\ m # DocNode
            BY <2>1, <3>1, <4>1, <6>1 DEF Reached, TreeOf
          <6>3. PICK q \in D : m \in Children[q]
            BY <3>1, <4>1, <6>2, ClosureFrom DEF Reached
          <6> QED BY <2>1, <5>1, <6>1, <6>3, ListedUp
        <5> QED BY <5>1, <5>2 DEF Closed
      <4>3. {n} \subseteq D
        OBVIOUS
      <4> QED BY <4>1, <4>2, <4>3, ClosureLeast DEF ancestor_chain
    <3>8. down = upward
      <4>1. \A e \in down : e \in upward
        BY <3>4, <3>5, <3>6
      <4>2. \A e \in upward : e \in down
        BY <3>4, <3>5, <3>6, <3>7
      <4> QED BY <4>1, <4>2
    <3>9. up[DocNode] = Nothing
      BY <2>1 DEF TreeOf
    <3> QED BY <3>1, <3>2, <3>3, <3>8, <3>9 DEF DocumentIsTree
  <2> QED BY <2>2, <2>3 DEF DocumentIsSound
<1> QED BY <1>1, DomInvariant, PTL

\* And so no walk of the document hangs: down, none comes back to where it was; up,
\* all end at the document (text_content, find_ancestor_form).
THEOREM DocumentWalksEnd ==
  DomSpec => [](~ Endless(DocNode) /\ \A c \in Reached({DocNode}) : DocNode \in ancestor_chain(c) /\ ~ ClimbsForever(c))
<1>1. DomInv => ~ Endless(DocNode) /\ \A c \in Reached({DocNode}) : DocNode \in ancestor_chain(c) /\ ~ ClimbsForever(c)
  <2> SUFFICES ASSUME DomInv
      PROVE  ~ Endless(DocNode) /\ \A c \in Reached({DocNode}) : DocNode \in ancestor_chain(c) /\ ~ ClimbsForever(c)
    OBVIOUS
  <2>1. TreeOf(kids, up, Live)
    BY DEF DomInv
  <2>2. ~ Endless(DocNode)
    BY <2>1, BelowIsAbove DEF Endless
  <2>3. /\ Children \in [Live -> SUBSET Live] /\ Parents \in [Live -> SUBSET Live]
        /\ DocNode \in Live /\ up[DocNode] = Nothing
    BY <2>1, WalksTyped DEF TreeOf
  <2>4. \A c \in Reached({DocNode}) : DocNode \in ancestor_chain(c)
    <3> TAKE c \in Reached({DocNode})
    <3>1. CASE c = DocNode
      BY <2>3, <3>1, ClosureHas DEF ancestor_chain
    <3>2. CASE c # DocNode
      <4>1. DocNode \in Reached({DocNode}) /\ Reached({DocNode}) \subseteq Live /\ Closed(Children, Reached({DocNode}))
        BY <2>3, ClosureHas DEF Reached
      <4>2. /\ Children[DocNode] \in SUBSET Live /\ Under(DocNode) \in SUBSET Live
            /\ Children[DocNode] \subseteq Under(DocNode) /\ Closed(Children, Under(DocNode))
        BY <2>3, ClosureHas DEF Under, Reached
      <4>3. Closed(Children, {DocNode} \cup Under(DocNode)) /\ {DocNode} \cup Under(DocNode) \in SUBSET Live
        BY <2>3, <4>2 DEF Closed
      <4>4. Reached({DocNode}) \subseteq {DocNode} \cup Under(DocNode)
        BY <2>3, <4>3, ClosureLeast DEF Reached
      <4>5. c \in Under(DocNode)
        BY <3>2, <4>4
      <4> QED BY <2>1, <4>1, <4>5, BelowIsAbove
    <3> QED BY <3>1, <3>2
  <2> QED BY <2>2, <2>3, <2>4 DEF ClimbsForever
<1> QED BY <1>1, DomInvariant, PTL

\* An id names the node it was made for, or none: of those the app was shown, and of
\* those with listeners, through every page of the process (NodeId, next_node_id).
THEOREM IdsName == DomSpec => []IdsNameTheirNode
<1>1. DomInv => IdsNameTheirNode
  BY DEF DomInv, Numbered, IdsNameTheirNode
<1> QED BY <1>1, DomInvariant, PTL

-----------------------------------------------------------------------------
(* Recursion                                                               *)

\* Whatever there is some of there is a least of: R leads down to an end.
Grounded(S, R) == \A T \in SUBSET S : T # {} => \E x \in T : \A y \in T : <<y, x>> \notin R

\* Calls, but at ends, for two places further down
Down(S, R, ends, a, b) ==
  /\ a \in [S -> S] /\ b \in [S -> S]
  /\ \A x \in S \ ends : <<a[x], x>> \in R /\ <<b[x], x>> \in R

Solves(f, S, ends, V0, G, a, b) ==
  \A x \in S : f[x] = IF x \in ends THEN V0 ELSE G[<<x, f[a[x]], f[b[x]]>>]

\* A recursive definition with two calls, both further down, has a solution.
LEMMA TwoCalls ==
  ASSUME NEW S, NEW R, Grounded(S, R), NEW ends, NEW a, NEW b, Down(S, R, ends, a, b),
         NEW V, NEW V0 \in V, NEW G \in [S \X V \X V -> V]
  PROVE  \E f \in [S -> V] : Solves(f, S, ends, V0, G, a, b)
<1> DEFINE
      Sound(T) == \A x \in S :
        /\ x \in ends => <<x, V0>> \in T
        /\ x \notin ends => \A u, v \in V :
             <<a[x], u>> \in T /\ <<b[x], v>> \in T => <<x, G[<<x, u, v>>]>> \in T
      W == {p \in S \X V : \A T \in SUBSET (S \X V) : Sound(T) => p \in T}
      From(x, w) == \/ x \in ends /\ w = V0
                    \/ x \notin ends /\ \E u, v \in V : /\ <<a[x], u>> \in W /\ <<b[x], v>> \in W
                                                        /\ w = G[<<x, u, v>>]
      Sole(x) == \E w \in V : <<x, w>> \in W /\ \A v \in V : <<x, v>> \in W => v = w
<1> /\ a \in [S -> S] /\ b \in [S -> S]
    /\ \A x \in S \ ends : <<a[x], x>> \in R /\ <<b[x], x>> \in R
  BY DEF Down
<1>1. \A x \in S, u, v \in V : G[<<x, u, v>>] \in V
  OBVIOUS
<1>2. W \in SUBSET (S \X V) /\ \A T \in SUBSET (S \X V) : Sound(T) => W \subseteq T
  OBVIOUS
<1>3. Sound(W)
  <2> SUFFICES ASSUME NEW x \in S
      PROVE  /\ x \in ends => <<x, V0>> \in W
             /\ x \notin ends => \A u, v \in V :
                  <<a[x], u>> \in W /\ <<b[x], v>> \in W => <<x, G[<<x, u, v>>]>> \in W
    OBVIOUS
  <2>1. x \in ends => <<x, V0>> \in W
    OBVIOUS
  <2>2. ASSUME x \notin ends, NEW u \in V, NEW v \in V, <<a[x], u>> \in W, <<b[x], v>> \in W
        PROVE  <<x, G[<<x, u, v>>]>> \in W
    <3>1. <<x, G[<<x, u, v>>]>> \in S \X V
      BY <1>1
    <3>2. ASSUME NEW T \in SUBSET (S \X V), Sound(T) PROVE <<x, G[<<x, u, v>>]>> \in T
      <4>1. <<a[x], u>> \in T /\ <<b[x], v>> \in T
        BY <1>2, <2>2, <3>2
      <4> QED BY <2>2, <3>2, <4>1
    <3> HIDE DEF Sound
    <3> QED BY <3>1, <3>2
  <2> HIDE DEF W
  <2> QED BY <2>1, <2>2
<1>4. \A x \in S, w \in V : <<x, w>> \in W => From(x, w)
  <2> DEFINE T == {p \in W : From(p[1], p[2])}
  <2>1. T \in SUBSET (S \X V)
    BY <1>2
  <2>2. \A x, w : <<x, w>> \in T <=> <<x, w>> \in W /\ From(x, w)
    <3> HIDE DEF W, From
    <3> TAKE x, w
    <3>1. PICK p : p = <<x, w>>
      OBVIOUS
    <3>2. p[1] = x /\ p[2] = w
      BY <3>1
    <3> QED BY <3>1, <3>2
  <2>3. Sound(T)
    <3> SUFFICES ASSUME NEW x \in S
        PROVE  /\ x \in ends => <<x, V0>> \in T
               /\ x \notin ends => \A u, v \in V :
                    <<a[x], u>> \in T /\ <<b[x], v>> \in T => <<x, G[<<x, u, v>>]>> \in T
      OBVIOUS
    <3>1. ASSUME x \in ends PROVE <<x, V0>> \in T
      <4>1. <<x, V0>> \in W /\ From(x, V0)
        BY <1>3, <3>1
      <4> HIDE DEF T, From
      <4> QED BY <2>2, <4>1
    <3>2. ASSUME x \notin ends, NEW u \in V, NEW v \in V, <<a[x], u>> \in T, <<b[x], v>> \in T
          PROVE  <<x, G[<<x, u, v>>]>> \in T
      <4>1. <<a[x], u>> \in W /\ <<b[x], v>> \in W
        <5> HIDE DEF T, W, From
        <5> QED BY <2>2, <3>2
      <4>2. <<x, G[<<x, u, v>>]>> \in W
        <5> HIDE DEF W
        <5> QED BY <1>3, <3>2, <4>1
      <4>3. From(x, G[<<x, u, v>>])
        <5> HIDE DEF W
        <5> QED BY <3>2, <4>1
      <4> HIDE DEF T, From
      <4> QED BY <2>2, <4>2, <4>3
    <3> HIDE DEF T
    <3> QED BY <3>1, <3>2
  <2>4. W \subseteq T
    <3> HIDE DEF T, W, Sound
    <3> QED BY <1>2, <2>1, <2>3
  <2> HIDE DEF T, W, From
  <2> QED BY <2>2, <2>4
<1> HIDE DEF W, From
<1>5. ASSUME NEW x \in S, x \in ends PROVE Sole(x)
  <2>1. <<x, V0>> \in W
    BY <1>3, <1>5
  <2>2. \A v \in V : <<x, v>> \in W => v = V0
    BY <1>4, <1>5 DEF From
  <2> QED BY <2>1, <2>2
<1>6. ASSUME NEW x \in S, x \notin ends, Sole(a[x]), Sole(b[x]) PROVE Sole(x)
  <2>1. PICK u \in V : <<a[x], u>> \in W /\ \A v \in V : <<a[x], v>> \in W => v = u
    BY <1>6
  <2>2. PICK v \in V : <<b[x], v>> \in W /\ \A w \in V : <<b[x], w>> \in W => w = v
    BY <1>6
  <2>3. <<x, G[<<x, u, v>>]>> \in W /\ G[<<x, u, v>>] \in V
    BY <1>1, <1>3, <1>6, <2>1, <2>2
  <2>4. \A w \in V : <<x, w>> \in W => w = G[<<x, u, v>>]
    BY <1>4, <1>6, <2>1, <2>2 DEF From
  <2> QED BY <2>3, <2>4
<1> HIDE DEF Sole
<1>7. \A x \in S : Sole(x)
  <2> DEFINE Bad == {x \in S : ~ Sole(x)}
  <2> SUFFICES ASSUME Bad # {} PROVE FALSE
    OBVIOUS
  <2>1. PICK x \in Bad : \A y \in Bad : <<y, x>> \notin R
    BY DEF Grounded
  <2>2. CASE x \in ends
    BY <1>5, <2>2
  <2>3. CASE x \notin ends
    <3>1. a[x] \in S /\ b[x] \in S /\ <<a[x], x>> \in R /\ <<b[x], x>> \in R
      BY <2>3
    <3>2. Sole(a[x]) /\ Sole(b[x])
      BY <2>1, <3>1
    <3> QED BY <1>6, <2>3, <3>2
  <2> QED BY <2>2, <2>3
<1> DEFINE f == [x \in S |-> CHOOSE w \in V : <<x, w>> \in W]
<1>8. \A x \in S : f[x] \in V /\ <<x, f[x]>> \in W /\ \A v \in V : <<x, v>> \in W => v = f[x]
  <2> TAKE x \in S
  <2>1. PICK w \in V : <<x, w>> \in W /\ \A v \in V : <<x, v>> \in W => v = w
    BY <1>7 DEF Sole
  <2>2. f[x] = w
    BY <2>1
  <2> QED BY <2>1, <2>2
<1>9. f \in [S -> V]
  BY <1>8
<1>10. ASSUME NEW x \in S PROVE f[x] = IF x \in ends THEN V0 ELSE G[<<x, f[a[x]], f[b[x]]>>]
  <2> HIDE DEF f
  <2>1. CASE x \in ends
    BY <1>3, <1>8, <2>1
  <2>2. CASE x \notin ends
    <3>1. <<a[x], f[a[x]]>> \in W /\ <<b[x], f[b[x]]>> \in W /\ f[a[x]] \in V /\ f[b[x]] \in V
      BY <1>8
    <3>2. <<x, G[<<x, f[a[x]], f[b[x]]>>]>> \in W /\ G[<<x, f[a[x]], f[b[x]]>>] \in V
      BY <1>1, <1>3, <2>2, <3>1
    <3> QED BY <1>8, <2>2, <3>2
  <2> QED BY <2>1, <2>2
<1> HIDE DEF f
<1> QED BY <1>9, <1>10 DEF Solves

-----------------------------------------------------------------------------
(* Dom: downward                                                           *)

LEMMA Smallest ==
  ASSUME NEW N \in SUBSET Nat, N # {}
  PROVE  \E n \in N : \A m \in N : n <= m
<1> DEFINE T == {0 .. n : n \in N}
           R == StrictSubsetOrdering(Nat)
<1>1. T \subseteq FiniteSubsetsOf(Nat) /\ T # {}
  <2>1. \A n \in N : IsFiniteSet(0 .. n) /\ 0 .. n \in SUBSET Nat
    BY FS_Interval
  <2> QED BY <2>1 DEF FiniteSubsetsOf
<1>2. \E x \in T : \A y \in T : ~ (<<y, x>> \in R)
  <2>1. IsWellFoundedOn(R, FiniteSubsetsOf(Nat))
    BY FS_StrictSubsetOrderingWellFounded
  <2> HIDE DEF T, R
  <2> QED BY <1>1, <2>1, WFMin
<1>3. PICK n \in N : \A m \in N : ~ (<<0 .. m, 0 .. n>> \in R)
  BY <1>2
<1>4. ASSUME NEW m \in N, m < n PROVE FALSE
  <2>1. n \in 0 .. n /\ n \notin 0 .. m
    BY <1>4
  <2>2. 0 .. m \subseteq 0 .. n /\ 0 .. m # 0 .. n /\ 0 .. m \in SUBSET Nat /\ 0 .. n \in SUBSET Nat
    BY <2>1, <1>4
  <2> QED BY <2>2, <1>3 DEF StrictSubsetOrdering
<1> QED BY <1>3, <1>4

\* What is reached from a node: itself, and what is below it; and from what is below
\* it, nothing else.
LEMMA ReachedIs ==
  ASSUME TreeOf(kids, up, Live), NEW c \in Live
  PROVE  /\ Reached({c}) = {c} \cup Under(c)
         /\ \A e \in Children[c] : Reached({e}) \subseteq Under(c)
         /\ \A m \in Under(c) : m \in Live /\ Under(m) \subseteq Under(c)
         /\ \A m \in Under(c) : \E e \in Children[c] : m \in Reached({e})
<1>1. Children \in [Live -> SUBSET Live]
  BY WalksTyped
<1>2. /\ c \in Reached({c}) /\ Reached({c}) \in SUBSET Live /\ Closed(Children, Reached({c}))
      /\ {c} \in SUBSET Live
  BY <1>1, ClosureHas DEF Reached
<1>3. Children[c] \in SUBSET Live /\ Children[c] \subseteq Reached({c})
  BY <1>1, <1>2 DEF Closed
<1>4. /\ Children[c] \subseteq Under(c) /\ Under(c) \in SUBSET Live /\ Closed(Children, Under(c))
  BY <1>1, <1>3, ClosureHas DEF Reached, Under
<1>5. Under(c) \subseteq Reached({c})
  BY <1>1, <1>2, <1>3, ClosureLeast DEF Reached, Under
<1>6. Reached({c}) \subseteq {c} \cup Under(c)
  <2>1. Closed(Children, {c} \cup Under(c)) /\ {c} \cup Under(c) \in SUBSET Live
    BY <1>4 DEF Closed
  <2> QED BY <1>1, <2>1, ClosureLeast DEF Reached
<1>7. \A e \in Children[c] : Reached({e}) \subseteq Under(c)
  BY <1>1, <1>4, ClosureLeast DEF Reached
<1>8. ASSUME NEW m \in Under(c) PROVE m \in Live /\ Under(m) \subseteq Under(c)
  <2>1. m \in Live /\ Children[m] \subseteq Under(c)
    BY <1>4 DEF Closed
  <2> QED BY <1>1, <1>4, <2>1, ClosureLeast DEF Under, Reached
<1>9. \A m \in Under(c) : \E e \in Children[c] : m \in Reached({e})
  <2> DEFINE T == {m \in Live : \E e \in Children[c] : m \in Reached({e})}
  <2>1. \A e \in Children[c] : /\ e \in Live /\ {e} \in SUBSET Live /\ e \in Reached({e})
                               /\ Reached({e}) \in SUBSET Live /\ Closed(Children, Reached({e}))
    BY <1>1, ClosureHas DEF Reached
  <2>2. Children[c] \subseteq T
    BY <2>1
  <2>3. Closed(Children, T)
    <3> SUFFICES ASSUME NEW m \in T, NEW d \in Children[m] PROVE d \in T
      BY DEF Closed
    <3>1. PICK e \in Children[c] : m \in Reached({e})
      OBVIOUS
    <3>2. d \in Reached({e}) /\ d \in Live
      BY <2>1, <3>1 DEF Closed
    <3> QED BY <3>1, <3>2
  <2>4. T \in SUBSET Live
    OBVIOUS
  <2> HIDE DEF T
  <2>5. Under(c) \subseteq T
    BY <1>1, <2>2, <2>3, <2>4, ClosureLeast DEF Under, Reached
  <2> QED BY <2>5 DEF T
<1> QED BY <1>5, <1>6, <1>2, <1>7, <1>8, <1>9

\* Below a node of the document, what is there is of the document, and not itself.
LEMMA InDocument ==
  ASSUME TreeOf(kids, up, Live), NEW c \in Reached({DocNode})
  PROVE  /\ c \in Live /\ c \in Memory /\ c \notin Under(c)
         /\ Reached({c}) \subseteq Reached({DocNode}) /\ Under(c) \subseteq Reached({DocNode})
         /\ c \in Reached({c})
         /\ \A n \in Reached({c}) : Children[n] \subseteq Reached({c})
<1>1. Children \in [Live -> SUBSET Live] /\ DocNode \in Live
  BY WalksTyped
<1>2. Reached({DocNode}) \in SUBSET Live /\ Closed(Children, Reached({DocNode}))
  BY <1>1, ClosureHas DEF Reached
<1>3. c \in Live /\ {c} \in SUBSET Live
  BY <1>2
<1>4. c \in Reached({c}) /\ Reached({c}) \subseteq Live /\ Closed(Children, Reached({c}))
  BY <1>1, <1>3, ClosureHas DEF Reached
<1>5. Reached({c}) \subseteq Reached({DocNode})
  BY <1>1, <1>2, <1>3, ClosureLeast DEF Reached
<1>6. c \notin Under(c) /\ Under(c) \subseteq Reached({DocNode})
  BY BelowIsAbove
<1> QED BY <1>3, <1>4, <1>5, <1>6 DEF Closed, Live

\* Of some nodes of a document there is one with none of them below it.
LEMMA Lowest ==
  ASSUME TreeOf(kids, up, Live), IsFiniteSet(Live), NEW S \in SUBSET Reached({DocNode}), S # {}
  PROVE  \E n \in S : \A m \in S : m \notin Under(n)
<1> DEFINE sizes == {Cardinality(Under(n)) : n \in S}
<1>1. \A n \in S : /\ n \in Reached({DocNode}) /\ n \in Live /\ n \notin Under(n) /\ Under(n) \in SUBSET Live
                   /\ \A m \in Under(n) : Under(m) \subseteq Under(n)
  BY InDocument, ReachedLive, ReachedIs
<1>2. \A n \in S : IsFiniteSet(Under(n)) /\ Cardinality(Under(n)) \in Nat
  BY <1>1, FS_Subset, FS_CardinalityType
<1>3. sizes \in SUBSET Nat /\ sizes # {}
  BY <1>2
<1>4. PICK least \in sizes : \A k \in sizes : least <= k
  <2> HIDE DEF sizes
  <2> QED BY <1>3, Smallest
<1>5. PICK n \in S : \A m \in S : Cardinality(Under(n)) <= Cardinality(Under(m))
  BY <1>4
<1>6. ASSUME NEW m \in S, m \in Under(n) PROVE FALSE
  <2>1. Under(m) \in SUBSET Under(n) /\ Under(m) # Under(n)
    BY <1>1, <1>6
  <2>2. Cardinality(Under(m)) <= Cardinality(Under(n)) /\ Cardinality(Under(n)) # Cardinality(Under(m))
    BY <1>2, <2>1, FS_Subset
  <2> QED BY <1>2, <1>5, <2>2
<1> QED BY <1>6

\* Ids are numbers up to how many nodes there were: there are so many at most.
LEMMA LiveFinite == ASSUME Numbered(Live) PROVE IsFiniteSet(Live)
<1> DEFINE f == [c \in Live |-> id[c]]
<1>1. \A c \in Live : c \in Memory /\ id[c] \in 1 .. made
  BY DEF Live, Numbered
<1>2. f \in [Live -> 1 .. made]
  BY <1>1
<1>3. \A c, d \in Live : f[c] = f[d] => c = d
  BY DEF Numbered
<1>4. f \in Injection(Live, 1 .. made)
  BY <1>2, <1>3 DEF Injection, IsInjective
<1>5. IsFiniteSet(1 .. made)
  BY FS_Interval DEF Numbered
<1> QED BY <1>4, <1>5, FS_Injection

\* No node is below two children of a node.
LEMMA Siblings ==
  ASSUME TreeOf(kids, up, Live), NEW n \in Reached({DocNode}), NEW d \in Children[n], NEW e \in Children[n], d # e
  PROVE  Reached({d}) \cap Reached({e}) = {}
<1>1. Children \in [Live -> SUBSET Live] /\ n \in Live /\ n \notin Under(n)
  BY WalksTyped, InDocument
<1>2. d \in Live /\ e \in Live /\ up[d] = n /\ up[e] = n
  BY <1>1, ListedUp
<1>3. /\ Reached({d}) \subseteq Under(n) /\ Reached({e}) \subseteq Under(n)
      /\ Reached({e}) = {e} \cup Under(e) /\ Under(e) \subseteq Live
  BY <1>1, <1>2, ReachedIs
<1>4. /\ d \in Reached({d}) /\ Reached({d}) \in SUBSET Live /\ Closed(Children, Reached({d}))
      /\ {d} \in SUBSET Live
  BY <1>1, <1>2, ClosureHas DEF Reached
\* Who is below e has a parent there.
<1>5. ASSUME NEW m \in Under(e) PROVE up[m] \in Reached({e})
  <2>1. Children[e] \in SUBSET Live /\ m \in Closure(Children, Children[e])
    BY <1>1, <1>2 DEF Under, Reached
  <2>2. m \in Children[e] \/ \E p \in Under(e) : m \in Children[p]
    BY <1>1, <2>1, ClosureFrom DEF Under, Reached
  <2>3. ASSUME NEW p \in Live, m \in Children[p] PROVE up[m] = p
    BY <2>3, ListedUp
  <2> QED BY <1>2, <1>3, <2>2, <2>3
<1>6. n \notin Reached({d}) /\ n \notin Reached({e})
  BY <1>1, <1>3
<1> DEFINE T == Reached({d}) \ Reached({e})
<1>7. d \in T
  <2>1. d \notin Under(e)
    BY <1>2, <1>5, <1>6
  <2> QED BY <1>3, <1>4, <2>1
<1>8. Closed(Children, T)
  <2> SUFFICES ASSUME NEW p \in T, NEW m \in Children[p] PROVE m \in T
    BY DEF Closed
  <2>1. p \in Live /\ m \in Reached({d}) /\ up[m] = p
    BY <1>4, ListedUp DEF Closed
  <2>2. m # e
    BY <1>2, <1>6, <2>1
  <2>3. m \notin Under(e)
    BY <1>5, <2>1
  <2> QED BY <1>3, <2>1, <2>2, <2>3
<1>9. T \in SUBSET Live /\ {d} \subseteq T
  BY <1>4, <1>7
<1> HIDE DEF T
<1>10. Reached({d}) \subseteq T
  BY <1>1, <1>8, <1>9, ClosureLeast DEF Reached
<1> QED BY <1>10 DEF T

-----------------------------------------------------------------------------
(* Dom: walks through a document, place by place                           *)

\* The places a walk from c is at before another: a child's first, and the next.
Before(c) ==
  {r \in Places(c) \X Places(c) :
     \/ r[1][1] \in Children[r[2][1]]
     \/ r[1][1] = r[2][1] /\ r[1][2] = r[2][2] + 1 /\ r[2][2] <= Len(kids[r[2][1]])}

LEMMA ListedAt ==
  ASSUME TreeOf(kids, up, Live), NEW n \in Live
  PROVE  /\ kids[n] \in Seq(Memory \cup {TextNode}) /\ Len(kids[n]) \in Nat
         /\ \A i \in Nat \ {0} : i <= Len(kids[n]) /\ kids[n][i] # TextNode => kids[n][i] \in Children[n]
         /\ \A e \in Children[n] : \E i \in DOMAIN kids[n] : kids[n][i] = e /\ e # TextNode
         /\ \A i, j \in DOMAIN kids[n] : kids[n][i] = kids[n][j] => i = j
         /\ DOMAIN kids[n] = 1 .. Len(kids[n])
<1>1. n \in Memory /\ Children[n] = ToSet(kids[n]) \ {TextNode}
  BY DEF Live, Children
<1>2. kids[n] \in Seq(Memory \cup {TextNode}) /\ IsInjective(kids[n])
  BY <1>1 DEF TreeOf
<1>3. \A i, j \in DOMAIN kids[n] : kids[n][i] = kids[n][j] => i = j
  BY <1>2 DEF IsInjective
<1>4. Len(kids[n]) \in Nat /\ DOMAIN kids[n] = 1 .. Len(kids[n])
  BY <1>2
<1>5. \A x : x \in ToSet(kids[n]) <=> \E i \in DOMAIN kids[n] : kids[n][i] = x
  BY DEF ToSet
<1>6. \A i \in Nat \ {0} : i <= Len(kids[n]) => i \in DOMAIN kids[n]
  BY <1>4
<1> QED BY <1>1, <1>2, <1>3, <1>4, <1>5, <1>6

LEMMA BeforeGrounded ==
  ASSUME TreeOf(kids, up, Live), IsFiniteSet(Live), NEW c \in Reached({DocNode})
  PROVE  Grounded(Places(c), Before(c))
<1> SUFFICES ASSUME NEW T \in SUBSET Places(c), T # {}
    PROVE  \E x \in T : \A y \in T : <<y, x>> \notin Before(c)
  BY DEF Grounded
<1> DEFINE at == {x[1] : x \in T}
<1>1. \A x \in T : x[1] \in Reached({c}) /\ x[2] \in Nat \ {0} /\ x = <<x[1], x[2]>>
  BY DEF Places
<1>2. at \in SUBSET Reached({DocNode}) /\ at # {}
  <2>1. Reached({c}) \subseteq Reached({DocNode})
    BY InDocument
  <2> QED BY <1>1, <2>1
<1>3. PICK n \in at : \A m \in at : m \notin Under(n)
  <2> HIDE DEF at
  <2> QED BY <1>2, Lowest
<1>4. n \in Live /\ Len(kids[n]) \in Nat
  BY <1>2, InDocument, ListedAt
<1>5. Children[n] \subseteq Under(n)
  <2>1. Children \in [Live -> SUBSET Live]
    BY WalksTyped
  <2> QED BY <1>4, <2>1, ClosureHas DEF Under, Reached
<1>6. \A y \in T : y[1] \notin Children[n]
  BY <1>3, <1>5
<1> DEFINE left == {k \in Nat : \E x \in T : x[1] = n /\ k = Len(kids[n]) - x[2]}
<1>7. CASE \E x \in T : x[1] = n /\ ~ (x[2] <= Len(kids[n]))
  <2>1. PICK x \in T : x[1] = n /\ ~ (x[2] <= Len(kids[n]))
    BY <1>7
  <2>2. \A y \in T : <<y, x>> \notin Before(c)
    BY <1>6, <2>1 DEF Before
  <2> QED BY <2>2
<1>8. CASE \A x \in T : x[1] = n => x[2] <= Len(kids[n])
  <2>1. \A x \in T : x[1] = n => Len(kids[n]) - x[2] \in left
    <3> TAKE x \in T
    <3> HAVE x[1] = n
    <3>1. x[2] \in Nat /\ x[2] <= Len(kids[n])
      BY <1>1, <1>8
    <3>2. Len(kids[n]) - x[2] \in Nat
      BY <1>4, <3>1
    <3> QED BY <3>2
  <2>2. left # {} /\ left \in SUBSET Nat
    <3>1. PICK x \in T : x[1] = n
      BY <1>3
    <3>2. Len(kids[n]) - x[2] \in left
      BY <2>1, <3>1
    <3> QED BY <3>2
  <2>3. PICK least \in left : \A k \in left : least <= k
    <3> HIDE DEF left
    <3> QED BY <2>2, Smallest
  <2>4. PICK x \in T : x[1] = n /\ least = Len(kids[n]) - x[2]
    OBVIOUS
  <2>5. ASSUME NEW y \in T, y[1] = n, y[2] = x[2] + 1 PROVE FALSE
    <3>1. Len(kids[n]) - y[2] \in left
      BY <2>1, <2>5
    <3>2. least <= Len(kids[n]) - y[2]
      BY <2>3, <3>1
    <3> HIDE DEF left
    <3> QED BY <1>1, <1>4, <2>4, <2>5, <3>2
  <2>6. \A y \in T : <<y, x>> \notin Before(c)
    BY <1>6, <2>4, <2>5 DEF Before
  <2> QED BY <2>6
<1> QED BY <1>7, <1>8

\* What holds where a list ends, and of a place whenever of those before it, holds.
LEMMA WalkInduction ==
  ASSUME TreeOf(kids, up, Live), IsFiniteSet(Live), NEW c \in Reached({DocNode}), NEW T,
         \A n \in Reached({c}) : \A i \in Nat \ {0} :
           (i <= Len(kids[n]) => /\ kids[n][i] # TextNode => <<kids[n][i], 1>> \in T
                                 /\ <<n, i + 1>> \in T)
           => <<n, i>> \in T
  PROVE  \A n \in Reached({c}) : \A i \in Nat \ {0} : <<n, i>> \in T
<1> SUFFICES ASSUME Places(c) \ T # {} PROVE FALSE
  BY DEF Places
<1>1. Grounded(Places(c), Before(c))
  BY BeforeGrounded
<1>2. PICK x \in Places(c) \ T : \A y \in Places(c) \ T : <<y, x>> \notin Before(c)
  <2>1. Places(c) \ T \in SUBSET Places(c)
    OBVIOUS
  <2> QED BY <1>1, <2>1 DEF Grounded
<1>3. PICK n \in Reached({c}), i \in Nat \ {0} : x = <<n, i>>
  BY <1>2 DEF Places
<1>4. n \in Live /\ Children[n] \subseteq Reached({c})
  BY <1>3, InDocument
<1>5. <<n, i>> \in Places(c) /\ <<n, i>> \notin T
  BY <1>2, <1>3
<1>6. ASSUME NEW m \in Reached({c}), NEW j \in Nat \ {0},
             m \in Children[n] \/ (m = n /\ j = i + 1 /\ i <= Len(kids[n]))
      PROVE  <<m, j>> \in T
  <2>1. PICK y : y = <<m, j>>
    OBVIOUS
  <2>2. y \in Places(c) /\ y[1] = m /\ y[2] = j
    BY <2>1 DEF Places
  <2>3. x \in Places(c) /\ x[1] = n /\ x[2] = i
    BY <1>2, <1>3
  <2>4. PICK r : r = <<y, x>>
    OBVIOUS
  <2>5. r \in Places(c) \X Places(c) /\ r[1] = y /\ r[2] = x
    BY <2>2, <2>3, <2>4
  <2>6. r \in Before(c)
    BY <1>6, <2>2, <2>3, <2>5 DEF Before
  <2> QED BY <1>2, <2>1, <2>2, <2>4, <2>6
<1>7. ASSUME i <= Len(kids[n])
      PROVE  (kids[n][i] # TextNode => <<kids[n][i], 1>> \in T) /\ <<n, i + 1>> \in T
  <2>1. kids[n][i] # TextNode => kids[n][i] \in Children[n]
    BY <1>4, <1>7, ListedAt
  <2>2. kids[n][i] # TextNode => <<kids[n][i], 1>> \in T
    <3>1. 1 \in Nat \ {0}
      OBVIOUS
    <3> QED BY <1>4, <1>6, <2>1, <3>1
  <2>3. <<n, i + 1>> \in T
    <3>1. i + 1 \in Nat \ {0} /\ n \in Reached({c})
      OBVIOUS
    <3> QED BY <1>6, <1>7, <3>1
  <2> QED BY <2>2, <2>3
<1> QED BY <1>5, <1>7

\* A walk that has V0 where a list ends, and from a child and the next one has G.
WalksBy(f, c, V0, G) ==
  \A n \in Reached({c}) : \A i \in Nat \ {0} :
    f[<<n, i>>] =
      IF i > Len(kids[n]) THEN V0
      ELSE G[<< <<n, i>>, f[IF kids[n][i] = TextNode THEN <<n, i + 1>> ELSE <<kids[n][i], 1>>],
                f[<<n, i + 1>>] >>]

\* A pair is made of its two parts.
LEMMA PairParts ==
  ASSUME NEW R, NEW N
  PROVE  \A x \in R \X N : x[1] \in R /\ x[2] \in N /\ x = <<x[1], x[2]>>
OBVIOUS

\* So walks come to an end, with a value at every place.
LEMMA WalkHas ==
  ASSUME TreeOf(kids, up, Live), IsFiniteSet(Live), NEW c \in Reached({DocNode}),
         NEW V, NEW V0 \in V, NEW G \in [Places(c) \X V \X V -> V]
  PROVE  \E f \in [Places(c) -> V] : WalksBy(f, c, V0, G)
<1> DEFINE S == Places(c)
           ends == {x \in S : x[2] > Len(kids[x[1]])}
           b == [x \in S |-> <<x[1], x[2] + 1>>]
           a == [x \in S |-> IF x \in ends \/ kids[x[1]][x[2]] = TextNode THEN <<x[1], x[2] + 1>>
                             ELSE <<kids[x[1]][x[2]], 1>>]
<1>1. \A x \in S : x[1] \in Reached({c}) /\ x[1] \in Live /\ x[2] \in Nat \ {0} /\ x = <<x[1], x[2]>>
  <2>1. Reached({c}) \subseteq Live
    BY InDocument, ReachedLive
  <2>2. S = Reached({c}) \X (Nat \ {0})
    BY DEF Places
  <2> HIDE DEF S, ends, a, b
  <2>3. \A x \in Reached({c}) \X (Nat \ {0}) :
           x[1] \in Reached({c}) /\ x[2] \in Nat \ {0} /\ x = <<x[1], x[2]>>
    BY PairParts
  <2> QED BY <2>1, <2>2, <2>3
<1>2. \A x \in S : <<x[1], x[2] + 1>> \in S
  <2> SUFFICES ASSUME NEW x \in S PROVE <<x[1], x[2] + 1>> \in S
    OBVIOUS
  <2>1. x[1] \in Reached({c}) /\ x[2] + 1 \in Nat \ {0}
    <3> HIDE DEF S, ends, a, b
    <3>1. x[1] \in Reached({c}) /\ x[2] \in Nat \ {0}
      BY <1>1
    <3> QED BY <3>1
  <2> QED BY <2>1 DEF Places
<1>3. b \in [S -> S]
  BY <1>2
<1>4. \A x \in S \ ends : kids[x[1]][x[2]] # TextNode =>
         <<kids[x[1]][x[2]], 1>> \in S /\ kids[x[1]][x[2]] \in Children[x[1]]
  <2> TAKE x \in S \ ends
  <2> HAVE kids[x[1]][x[2]] # TextNode
  <2>1. x[2] <= Len(kids[x[1]]) /\ x[2] \in Nat \ {0} /\ x[1] \in Live
    BY <1>1, ListedAt
  <2>2. kids[x[1]][x[2]] \in Children[x[1]]
    BY <2>1, ListedAt
  <2>3. kids[x[1]][x[2]] \in Reached({c})
    BY <1>1, <2>2, InDocument
  <2> QED BY <2>2, <2>3 DEF Places
<1>5. a \in [S -> S]
  BY <1>2, <1>4
<1>6. ASSUME NEW x \in S \ ends PROVE <<a[x], x>> \in Before(c) /\ <<b[x], x>> \in Before(c)
  <2>1. x[2] <= Len(kids[x[1]])
    BY <1>1, ListedAt
  <2>2. PICK y : y = <<x[1], x[2] + 1>>
    OBVIOUS
  <2>3. y \in S /\ y[1] = x[1] /\ y[2] = x[2] + 1 /\ b[x] = y
    BY <1>2, <2>2
  <2>4. <<y, x>> \in Before(c)
    <3>1. PICK r : r = <<y, x>>
      OBVIOUS
    <3>2. r \in S \X S /\ r[1] = y /\ r[2] = x
      BY <2>3, <3>1
    <3>3. r \in Before(c)
      BY <2>1, <2>3, <3>2 DEF Before
    <3> QED BY <3>1, <3>3
  <2>5. CASE kids[x[1]][x[2]] = TextNode
    BY <2>2, <2>3, <2>4, <2>5
  <2>6. CASE kids[x[1]][x[2]] # TextNode
    <3>1. PICK z : z = <<kids[x[1]][x[2]], 1>>
      OBVIOUS
    <3>2. z \in S /\ z[1] \in Children[x[1]] /\ a[x] = z
      BY <1>4, <2>6, <3>1
    <3>3. PICK r : r = <<z, x>>
      OBVIOUS
    <3>4. r \in S \X S /\ r[1] = z /\ r[2] = x
      BY <3>2, <3>3
    <3>5. r \in Before(c)
      BY <3>2, <3>4 DEF Before
    <3> QED BY <2>3, <2>4, <3>2, <3>3, <3>5
  <2> QED BY <2>5, <2>6
<1>7. Grounded(S, Before(c))
  BY BeforeGrounded
<1>8. PICK f \in [S -> V] : Solves(f, S, ends, V0, G, a, b)
  <2> HIDE DEF S, ends, a, b
  <2>1. Down(S, Before(c), ends, a, b)
    BY <1>3, <1>5, <1>6 DEF Down
  <2>2. G \in [S \X V \X V -> V]
    BY DEF S
  <2> QED BY <1>7, <2>1, <2>2, TwoCalls
<1>9. ASSUME NEW n \in Reached({c}), NEW i \in Nat \ {0}
      PROVE  f[<<n, i>>] =
               IF i > Len(kids[n]) THEN V0
               ELSE G[<< <<n, i>>, f[IF kids[n][i] = TextNode THEN <<n, i + 1>> ELSE <<kids[n][i], 1>>],
                         f[<<n, i + 1>>] >>]
  <2>1. PICK x : x = <<n, i>>
    OBVIOUS
  <2>2. x \in S /\ x[1] = n /\ x[2] = i /\ (x \in ends <=> i > Len(kids[n]))
    BY <2>1 DEF Places
  <2>3. b[x] = <<n, i + 1>>
    BY <2>2
  <2>4. x \notin ends => a[x] = IF kids[n][i] = TextNode THEN <<n, i + 1>> ELSE <<kids[n][i], 1>>
    BY <2>2
  <2> HIDE DEF S, ends, a, b
  <2> QED BY <1>8, <2>1, <2>2, <2>3, <2>4 DEF Solves
<1> QED BY <1>9 DEF WalksBy

\* What a search has found from a child e on: e, g below it, and h after it.
FoundOf(e, S, g, h) == (IF e \in S THEN <<e>> ELSE <<>>) \o g \o h
FirstOf(e, d, then) ==
  IF (IF e \in matching THEN e ELSE d) # Nothing THEN (IF e \in matching THEN e ELSE d) ELSE then

\* What the search has found from a place on
FoundAt(S, w, n, i) ==
  IF i > Len(kids[n]) THEN <<>>
  ELSE IF kids[n][i] = TextNode THEN w[<<n, i + 1>>]
  ELSE FoundOf(kids[n][i], S, w[<<kids[n][i], 1>>], w[<<n, i + 1>>])

FirstAt(w, n, i) ==
  IF i > Len(kids[n]) THEN Nothing
  ELSE IF kids[n][i] = TextNode THEN w[<<n, i + 1>>]
  ELSE FirstOf(kids[n][i], w[<<kids[n][i], 1>>], w[<<n, i + 1>>])

WalksFound(w, c, S) == \A n \in Reached({c}) : \A i \in Nat \ {0} : w[<<n, i>>] = FoundAt(S, w, n, i)
WalksFirst(w, c)    == \A n \in Reached({c}) : \A i \in Nat \ {0} : w[<<n, i>>] = FirstAt(w, n, i)

LEMMA FoundWalks ==
  ASSUME TreeOf(kids, up, Live), IsFiniteSet(Live), NEW c \in Reached({DocNode}), NEW S
  PROVE  \E w : Found(c, S) = w[<<c, 1>>] /\ WalksFound(w, c, S)
<1> DEFINE V == Seq(Memory)
           G == [y \in Places(c) \X V \X V |->
                   IF kids[y[1][1]][y[1][2]] \notin Memory THEN y[3]
                   ELSE FoundOf(kids[y[1][1]][y[1][2]], S, y[2], y[3])]
<1>1. <<>> \in V /\ \A e \in Memory : <<e>> \in V
  OBVIOUS
<1>2. \A p, q \in V : p \o q \in V
  OBVIOUS
<1>3. G \in [Places(c) \X V \X V -> V]
  <2> HIDE DEF V
  <2>1. ASSUME NEW e \in Memory, NEW p \in V, NEW q \in V
        PROVE  FoundOf(e, S, p, q) \in V
    <3>1. (IF e \in S THEN <<e>> ELSE <<>>) \in V
      BY <1>1
    <3> QED BY <1>2, <3>1 DEF FoundOf
  <2>2. ASSUME NEW y \in Places(c) \X V \X V PROVE G[y] \in V
    <3>1. y[2] \in V /\ y[3] \in V
      OBVIOUS
    <3> QED BY <2>1, <3>1
  <2> QED BY <2>2
<1>4. \A y \in Places(c) \X V \X V : G[y] =
        IF kids[y[1][1]][y[1][2]] \notin Memory THEN y[3]
        ELSE FoundOf(kids[y[1][1]][y[1][2]], S, y[2], y[3])
  <2> HIDE DEF V
  <2> QED OBVIOUS
<1>5. PICK f \in [Places(c) -> V] : WalksBy(f, c, <<>>, G)
  <2> HIDE DEF V, G
  <2> QED BY <1>1, <1>3, WalkHas
<1> HIDE DEF V, G
<1>6. ASSUME NEW n \in Reached({c}), NEW i \in Nat \ {0} PROVE f[<<n, i>>] = FoundAt(S, f, n, i)
  <2>1. n \in Live /\ Children[n] \subseteq Reached({c}) /\ Children[n] \subseteq Memory
    <3>1. n \in Live /\ Children[n] \subseteq Reached({c}) /\ Live \subseteq Memory
      BY InDocument, ReachedLive DEF Live
    <3> QED BY <3>1, WalksTyped
  <2>2. CASE i > Len(kids[n])
    BY <1>5, <2>2 DEF FoundAt, WalksBy
  <2>3. CASE ~ (i > Len(kids[n]))
    <3>1. kids[n][i] # TextNode => kids[n][i] \in Memory /\ kids[n][i] \in Reached({c})
      <4>1. i <= Len(kids[n])
        BY <2>1, <2>3, ListedAt
      <4>2. kids[n][i] # TextNode => kids[n][i] \in Children[n]
        BY <2>1, <4>1, ListedAt
      <4> QED BY <2>1, <4>2
    <3>2. TextNode \notin Memory
      BY MemoryAssumption
    <3>3. PICK k : k = IF kids[n][i] = TextNode THEN <<n, i + 1>> ELSE <<kids[n][i], 1>>
      OBVIOUS
    <3>4. <<n, i>> \in Places(c) /\ <<n, i + 1>> \in Places(c) /\ k \in Places(c)
      <4>1. <<n, i>> \in Places(c) /\ <<n, i + 1>> \in Places(c)
        <5>1. i + 1 \in Nat \ {0}
          OBVIOUS
        <5> QED BY <5>1 DEF Places
      <4>2. kids[n][i] # TextNode => <<kids[n][i], 1>> \in Places(c)
        BY <3>1 DEF Places
      <4> QED BY <3>3, <4>1, <4>2
    <3>5. f[k] \in V /\ f[<<n, i + 1>>] \in V
      BY <3>4
    <3>6. f[<<n, i>>] = G[<< <<n, i>>, f[k], f[<<n, i + 1>>] >>]
      BY <1>5, <2>3, <3>3 DEF WalksBy
    <3>7. PICK y : y = << <<n, i>>, f[k], f[<<n, i + 1>>] >>
      OBVIOUS
    <3>8. y \in Places(c) \X V \X V /\ y[1][1] = n /\ y[1][2] = i /\ y[2] = f[k] /\ y[3] = f[<<n, i + 1>>]
      BY <3>4, <3>5, <3>7
    <3>9. f[<<n, i>>] = IF kids[n][i] \notin Memory THEN f[<<n, i + 1>>]
                        ELSE FoundOf(kids[n][i], S, f[k], f[<<n, i + 1>>])
      BY <1>4, <3>6, <3>7, <3>8
    <3>10. CASE kids[n][i] = TextNode
      BY <2>3, <3>2, <3>9, <3>10 DEF FoundAt
    <3>11. CASE kids[n][i] # TextNode
      BY <2>3, <3>1, <3>3, <3>9, <3>11 DEF FoundAt
    <3> QED BY <3>10, <3>11
  <2> QED BY <2>2, <2>3
<1> DEFINE Eq(w) == w = [at \in Places(c) |-> FoundAt(S, w, at[1], at[2])]
           walk == CHOOSE w : Eq(w)
<1>7. Eq(f)
  <2>1. ASSUME NEW x \in Places(c) PROVE f[x] = FoundAt(S, f, x[1], x[2])
    <3>1. PICK n \in Reached({c}), i \in Nat \ {0} : x = <<n, i>>
      BY DEF Places
    <3>2. x[1] = n /\ x[2] = i
      BY <3>1
    <3> QED BY <1>6, <3>1, <3>2
  <2> QED BY <2>1
<1>8. Found(c, S) = walk[<<c, 1>>]
  BY DEF Found, FoundAt, FoundOf
<1>9. Eq(walk)
  <2> HIDE DEF Eq
  <2> QED BY <1>7
<1> HIDE DEF walk
<1>10. \A n \in Reached({c}) : \A i \in Nat \ {0} : walk[<<n, i>>] = FoundAt(S, walk, n, i)
  BY <1>9 DEF Places
<1> QED BY <1>8, <1>10 DEF WalksFound

LEMMA FirstWalks ==
  ASSUME TreeOf(kids, up, Live), IsFiniteSet(Live), NEW c \in Reached({DocNode})
  PROVE  \E w : query_selector_first(c) = w[<<c, 1>>] /\ WalksFirst(w, c)
<1> DEFINE V == Memory \cup {Nothing}
           G == [y \in Places(c) \X V \X V |->
                   IF kids[y[1][1]][y[1][2]] \notin Memory THEN y[3]
                   ELSE FirstOf(kids[y[1][1]][y[1][2]], y[2], y[3])]
<1>1. Nothing \in V
  OBVIOUS
<1>2. \A y \in Places(c) \X V \X V : G[y] =
        IF kids[y[1][1]][y[1][2]] \notin Memory THEN y[3] ELSE FirstOf(kids[y[1][1]][y[1][2]], y[2], y[3])
  <2> HIDE DEF V
  <2> QED OBVIOUS
<1>3. G \in [Places(c) \X V \X V -> V]
  <2>1. ASSUME NEW y \in Places(c) \X V \X V PROVE G[y] \in V
    <3>1. y[2] \in V /\ y[3] \in V
      OBVIOUS
    <3>2. Memory \subseteq V
      OBVIOUS
    <3> HIDE DEF V, G
    <3> QED BY <1>2, <3>1, <3>2 DEF FirstOf
  <2> HIDE DEF V
  <2> QED BY <2>1
<1>4. PICK f \in [Places(c) -> V] : WalksBy(f, c, Nothing, G)
  <2> HIDE DEF V, G
  <2> QED BY <1>1, <1>3, WalkHas
<1> HIDE DEF V, G
<1>6. ASSUME NEW n \in Reached({c}), NEW i \in Nat \ {0} PROVE f[<<n, i>>] = FirstAt(f, n, i)
  <2>1. n \in Live /\ Children[n] \subseteq Reached({c}) /\ Children[n] \subseteq Memory
    <3>1. n \in Live /\ Children[n] \subseteq Reached({c}) /\ Live \subseteq Memory
      BY InDocument, ReachedLive DEF Live
    <3> QED BY <3>1, WalksTyped
  <2>2. CASE i > Len(kids[n])
    BY <1>4, <2>2 DEF FirstAt, WalksBy
  <2>3. CASE ~ (i > Len(kids[n]))
    <3>1. kids[n][i] # TextNode => kids[n][i] \in Memory /\ kids[n][i] \in Reached({c})
      <4>1. i <= Len(kids[n])
        BY <2>1, <2>3, ListedAt
      <4>2. kids[n][i] # TextNode => kids[n][i] \in Children[n]
        BY <2>1, <4>1, ListedAt
      <4> QED BY <2>1, <4>2
    <3>2. TextNode \notin Memory
      BY MemoryAssumption
    <3>3. PICK k : k = IF kids[n][i] = TextNode THEN <<n, i + 1>> ELSE <<kids[n][i], 1>>
      OBVIOUS
    <3>4. <<n, i>> \in Places(c) /\ <<n, i + 1>> \in Places(c) /\ k \in Places(c)
      <4>1. <<n, i>> \in Places(c) /\ <<n, i + 1>> \in Places(c)
        <5>1. i + 1 \in Nat \ {0}
          OBVIOUS
        <5> QED BY <5>1 DEF Places
      <4>2. kids[n][i] # TextNode => <<kids[n][i], 1>> \in Places(c)
        BY <3>1 DEF Places
      <4> QED BY <3>3, <4>1, <4>2
    <3>5. f[k] \in V /\ f[<<n, i + 1>>] \in V
      BY <3>4
    <3>6. f[<<n, i>>] = G[<< <<n, i>>, f[k], f[<<n, i + 1>>] >>]
      BY <1>4, <2>3, <3>3 DEF WalksBy
    <3>7. PICK y : y = << <<n, i>>, f[k], f[<<n, i + 1>>] >>
      OBVIOUS
    <3>8. y \in Places(c) \X V \X V /\ y[1][1] = n /\ y[1][2] = i /\ y[2] = f[k] /\ y[3] = f[<<n, i + 1>>]
      BY <3>4, <3>5, <3>7
    <3>9. f[<<n, i>>] =
            IF kids[n][i] \notin Memory THEN f[<<n, i + 1>>] ELSE FirstOf(kids[n][i], f[k], f[<<n, i + 1>>])
      BY <1>2, <3>6, <3>7, <3>8
    <3>10. CASE kids[n][i] = TextNode
      BY <2>3, <3>2, <3>9, <3>10 DEF FirstAt
    <3>11. CASE kids[n][i] # TextNode
      BY <2>3, <3>1, <3>3, <3>9, <3>11 DEF FirstAt
    <3> QED BY <3>10, <3>11
  <2> QED BY <2>2, <2>3
<1> DEFINE Eq(w) == w = [at \in Places(c) |-> FirstAt(w, at[1], at[2])]
           walk == CHOOSE w : Eq(w)
<1>7. Eq(f)
  <2>1. ASSUME NEW x \in Places(c) PROVE f[x] = FirstAt(f, x[1], x[2])
    <3>1. PICK n \in Reached({c}), i \in Nat \ {0} : x = <<n, i>>
      BY DEF Places
    <3>2. x[1] = n /\ x[2] = i
      BY <3>1
    <3> QED BY <1>6, <3>1, <3>2
  <2> QED BY <2>1
<1>8. query_selector_first(c) = walk[<<c, 1>>]
  <2>1. \A w, n, i : FirstAt(w, n, i) =
          LET e == kids[n][i]
              found == IF e \in matching THEN e ELSE w[<<e, 1>>]
          IN  IF i > Len(kids[n]) THEN Nothing
              ELSE IF e # TextNode /\ found # Nothing THEN found
              ELSE w[<<n, i + 1>>]
    BY DEF FirstAt, FirstOf
  <2> QED BY <2>1 DEF query_selector_first
<1>9. Eq(walk)
  <2> HIDE DEF Eq
  <2> QED BY <1>7
<1> HIDE DEF walk
<1>10. \A n \in Reached({c}) : \A i \in Nat \ {0} : walk[<<n, i>>] = FirstAt(walk, n, i)
  BY <1>9 DEF Places
<1> QED BY <1>8, <1>10 DEF WalksFirst

-----------------------------------------------------------------------------
(* Dom: what searches find                                                 *)

InOrder(h, P) == \A i, j \in DOMAIN h : i < j => <<h[i], h[j]>> \in P

LEMMA OrderedConcat ==
  ASSUME NEW C, NEW P, NEW g \in Seq(C), NEW h \in Seq(C), InOrder(g, P), InOrder(h, P),
         \A x \in ToSet(g), y \in ToSet(h) : <<x, y>> \in P
  PROVE  g \o h \in Seq(C) /\ ToSet(g \o h) = ToSet(g) \cup ToSet(h) /\ InOrder(g \o h, P)
<1> DEFINE m == Len(g)
           q == g \o h
<1>1. q \in Seq(C) /\ Len(q) = m + Len(h) /\ m \in Nat /\ Len(h) \in Nat
  BY ConcatProperties
<1>2. DOMAIN q = 1 .. m + Len(h) /\ DOMAIN g = 1 .. m /\ DOMAIN h = 1 .. Len(h)
  BY <1>1
<1>3. \A i \in 1 .. m : q[i] = g[i]
  BY ConcatProperties
<1>4. \A i \in 1 .. Len(h) : q[m + i] = h[i]
  BY ConcatProperties
<1> HIDE DEF q, m
<1>5. \A i \in DOMAIN q : \/ i \in DOMAIN g /\ q[i] = g[i]
                          \/ i - m \in DOMAIN h /\ q[i] = h[i - m] /\ i > m
  <2> TAKE i \in DOMAIN q
  <2>1. CASE i <= m
    <3>1. i \in 1 .. m
      BY <1>1, <1>2, <2>1
    <3>2. i \in DOMAIN g /\ q[i] = g[i]
      BY <1>1, <1>2, <1>3, <3>1
    <3> QED BY <3>2
  <2>2. CASE i > m
    <3>1. i - m \in 1 .. Len(h) /\ m + (i - m) = i
      BY <1>1, <1>2, <2>2
    <3> QED BY <1>2, <1>4, <2>2, <3>1
  <2> QED BY <1>1, <1>2, <2>1, <2>2
<1>6. ToSet(q) = ToSet(g) \cup ToSet(h)
  <2>1. \A i \in DOMAIN g : i \in DOMAIN q /\ q[i] = g[i]
    BY <1>1, <1>2, <1>3
  <2>2. \A i \in DOMAIN h : m + i \in DOMAIN q /\ q[m + i] = h[i]
    BY <1>1, <1>2, <1>4
  <2>3. \A x : x \in ToSet(q) <=> \E i \in DOMAIN q : q[i] = x
    BY DEF ToSet
  <2>4. \A x : x \in ToSet(g) <=> \E i \in DOMAIN g : g[i] = x
    BY DEF ToSet
  <2>5. \A x : x \in ToSet(h) <=> \E i \in DOMAIN h : h[i] = x
    BY DEF ToSet
  <2>6. \A x \in ToSet(q) : x \in ToSet(g) \/ x \in ToSet(h)
    BY <1>5, <2>3, <2>4, <2>5
  <2>7. \A x \in ToSet(g) : x \in ToSet(q)
    BY <2>1, <2>3, <2>4
  <2>8. \A x \in ToSet(h) : x \in ToSet(q)
    BY <2>2, <2>3, <2>5
  <2> QED BY <2>6, <2>7, <2>8
<1>7. InOrder(q, P)
  <2> SUFFICES ASSUME NEW i \in DOMAIN q, NEW j \in DOMAIN q, i < j PROVE <<q[i], q[j]>> \in P
    BY DEF InOrder
  <2>1. i \in Nat /\ j \in Nat /\ (j <= m => i <= m)
    BY <1>1, <1>2
  <2>2. CASE j \in DOMAIN g /\ q[j] = g[j]
    <3>1. i \in DOMAIN g /\ q[i] = g[i]
      BY <1>1, <1>2, <1>3, <2>1, <2>2
    <3> QED BY <2>2, <3>1 DEF InOrder
  <2>3. CASE j - m \in DOMAIN h /\ q[j] = h[j - m] /\ j > m
    <3>1. CASE i \in DOMAIN g /\ q[i] = g[i]
      <4>1. q[i] \in ToSet(g) /\ q[j] \in ToSet(h)
        BY <2>3, <3>1 DEF ToSet
      <4> QED BY <4>1
    <3>2. CASE i - m \in DOMAIN h /\ q[i] = h[i - m] /\ i > m
      <4>1. i - m < j - m
        BY <1>1, <2>1
      <4> QED BY <2>3, <3>2, <4>1 DEF InOrder
    <3> QED BY <1>5, <3>1, <3>2
  <2> QED BY <1>5, <2>2, <2>3
<1> QED BY <1>1, <1>6, <1>7 DEF q

\* What is below n from its child i on
After(n, i) ==
  {m \in Live : \E j \in DOMAIN kids[n] :
     i <= j /\ kids[n][j] # TextNode /\ m \in Reached({kids[n][j]})}

LEMMA AfterIs ==
  ASSUME TreeOf(kids, up, Live), NEW n \in Reached({DocNode}), NEW i \in Nat \ {0}
  PROVE  /\ i > Len(kids[n]) => After(n, i) = {}
         /\ i <= Len(kids[n]) /\ kids[n][i] = TextNode => After(n, i) = After(n, i + 1)
         /\ i <= Len(kids[n]) /\ kids[n][i] # TextNode =>
              After(n, i) = Reached({kids[n][i]}) \cup After(n, i + 1)
         /\ After(n, 1) = Under(n)
<1>1. n \in Live /\ Len(kids[n]) \in Nat /\ DOMAIN kids[n] = 1 .. Len(kids[n])
  BY InDocument, ListedAt
<1>2. \A j \in DOMAIN kids[n] : j \in Nat \ {0} /\ j <= Len(kids[n]) /\ 1 <= j
  BY <1>1
<1>3. \A j \in DOMAIN kids[n] : kids[n][j] # TextNode => kids[n][j] \in Children[n]
  BY <1>1, <1>2, ListedAt
<1>4. \A e \in Children[n] : Reached({e}) \subseteq Live
  BY <1>1, ListedUp, ReachedLive
<1>5. \A j \in DOMAIN kids[n] : i <= j <=> j = i \/ i + 1 <= j
  BY <1>2
<1>6. i > Len(kids[n]) => After(n, i) = {}
  <2>1. i > Len(kids[n]) => \A j \in DOMAIN kids[n] : ~ (i <= j)
    BY <1>1, <1>2
  <2> QED BY <2>1 DEF After
<1>7. i <= Len(kids[n]) => i \in DOMAIN kids[n]
  BY <1>1
<1>8. ASSUME i <= Len(kids[n]), kids[n][i] = TextNode PROVE After(n, i) = After(n, i + 1)
  BY <1>5, <1>8 DEF After
<1>9. ASSUME i <= Len(kids[n]), kids[n][i] # TextNode
      PROVE  After(n, i) = Reached({kids[n][i]}) \cup After(n, i + 1)
  <2>1. i \in DOMAIN kids[n] /\ i <= i /\ Reached({kids[n][i]}) \subseteq Live
    <3>1. i \in DOMAIN kids[n]
      BY <1>7, <1>9
    <3>2. kids[n][i] \in Children[n]
      BY <1>3, <1>9, <3>1
    <3>3. i <= i
      OBVIOUS
    <3>4. Reached({kids[n][i]}) \subseteq Live
      BY <1>4, <3>2
    <3> QED BY <3>1, <3>3, <3>4
  <2>2. \A m \in After(n, i) : m \in Reached({kids[n][i]}) \/ m \in After(n, i + 1)
    BY <1>5 DEF After
  <2>3. \A m \in Reached({kids[n][i]}) : m \in After(n, i)
    BY <1>9, <2>1 DEF After
  <2>4. \A m \in After(n, i + 1) : m \in After(n, i)
    BY <1>5 DEF After
  <2> QED BY <2>2, <2>3, <2>4
<1>10. After(n, 1) = Under(n)
  <2>1. /\ \A e \in Children[n] : Reached({e}) \subseteq Under(n)
        /\ \A m \in Under(n) : m \in Live /\ \E e \in Children[n] : m \in Reached({e})
    BY <1>1, ReachedIs
  <2>2. \A m \in After(n, 1) : m \in Under(n)
    BY <1>3, <2>1 DEF After
  <2>3. ASSUME NEW m \in Under(n) PROVE m \in After(n, 1)
    <3>1. PICK e \in Children[n] : m \in Reached({e})
      BY <2>1
    <3>2. PICK j \in DOMAIN kids[n] : kids[n][j] = e /\ e # TextNode
      BY <1>1, ListedAt
    <3> QED BY <1>2, <2>1, <3>1, <3>2 DEF After
  <2> QED BY <2>2, <2>3
<1> QED BY <1>6, <1>8, <1>9, <1>10

\* Pairs of nodes, the first before the second in the document
Ahead == {r \in Memory \X Memory : r[1] # r[2] /\ Precedes(r[1], r[2])}

LEMMA AheadIs ==
  ASSUME NEW m \in Memory, NEW n \in Memory, m # n, Precedes(m, n) PROVE <<m, n>> \in Ahead
<1>1. PICK r : r = <<m, n>>
  OBVIOUS
<1>2. r \in Memory \X Memory /\ r[1] = m /\ r[2] = n
  BY <1>1
<1>3. r \in Ahead
  BY <1>2 DEF Ahead
<1> QED BY <1>1, <1>3

\* A search from a place on finds what matches there, in order.
Finds(h, S, n, i) == h \in Seq(Memory) /\ ToSet(h) = After(n, i) \cap S /\ InOrder(h, Ahead)

LEMMA FoundAtOK ==
  ASSUME TreeOf(kids, up, Live), NEW n \in Reached({DocNode}), NEW i \in Nat \ {0}, i <= Len(kids[n]),
         NEW e, e = kids[n][i], e # TextNode, NEW S,
         NEW g, Finds(g, S, e, 1), NEW h, Finds(h, S, n, i + 1)
  PROVE  Finds(FoundOf(e, S, g, h), S, n, i)
<1>1. /\ n \in Live /\ n \in Memory /\ e \in Children[n] /\ i \in DOMAIN kids[n]
      /\ DOMAIN kids[n] = 1 .. Len(kids[n]) /\ Len(kids[n]) \in Nat
  <2>1. n \in Live /\ n \in Memory
    BY InDocument
  <2> QED BY <2>1, ListedAt
<1>2. e \in Reached({DocNode}) /\ e \in Live /\ e \in Memory /\ e \notin Under(e)
  <2>1. DocNode \in Reached({DocNode}) /\ Reached({DocNode}) \subseteq Reached({DocNode})
    BY WalksTyped, ClosureHas DEF Reached
  <2>2. e \in Reached({DocNode})
    BY <1>1, <2>1, InDocument
  <2> QED BY <2>2, InDocument
<1>3. /\ Reached({e}) = {e} \cup Under(e) /\ Under(e) \subseteq Memory /\ Reached({e}) \subseteq Memory
      /\ Under(e) \subseteq Live
  <2>1. Live \subseteq Memory
    BY DEF Live
  <2> QED BY <1>2, <2>1, ReachedIs, ReachedLive
<1>4. /\ After(e, 1) = Under(e) /\ After(n, i) = Reached({e}) \cup After(n, i + 1)
  BY <1>2, AfterIs
\* A node from here on, below e or not, comes after those of e that are before it.
<1>5. ASSUME NEW m \in Reached({e}), NEW d \in After(n, i + 1) PROVE <<m, d>> \in Ahead
  <2>1. PICK j \in DOMAIN kids[n] : i + 1 <= j /\ kids[n][j] # TextNode /\ d \in Reached({kids[n][j]})
    BY DEF After
  <2>2. d \in Live /\ d \in Memory /\ m \in Memory
    BY <1>3 DEF After, Live
  <2>3. i < j /\ j \in Nat \ {0} /\ j <= Len(kids[n])
    BY <1>1, <2>1
  <2>4. kids[n][j] \in Children[n] /\ kids[n][j] # e
    BY <1>1, <2>1, <2>3, ListedAt
  <2>5. m # d
    BY <1>1, <2>1, <2>4, Siblings
  <2>6. Precedes(m, d)
    BY <1>1, <2>1, <2>3 DEF Precedes
  <2> QED BY <2>2, <2>5, <2>6, AheadIs
<1>6. \A d \in Under(e) : <<e, d>> \in Ahead
  <2> TAKE d \in Under(e)
  <2>1. d \in Memory /\ d # e /\ Precedes(e, d)
    BY <1>2, <1>3 DEF Precedes
  <2> QED BY <1>2, <2>1, AheadIs
<1>7. PICK one : one = IF e \in S THEN <<e>> ELSE <<>>
  OBVIOUS
<1>8. one \in Seq(Memory) /\ ToSet(one) = {e} \cap S /\ InOrder(one, Ahead)
  <2>1. CASE e \in S
    <3>1. one = <<e>>
      BY <1>7, <2>1
    <3>2. one \in Seq(Memory) /\ DOMAIN one = {1} /\ one[1] = e
      BY <1>2, <3>1
    <3>3. ToSet(one) = {e}
      BY <3>2 DEF ToSet
    <3> QED BY <2>1, <3>2, <3>3 DEF InOrder
  <2>2. CASE e \notin S
    <3>1. one = <<>>
      BY <1>7, <2>2
    <3>2. one \in Seq(Memory) /\ DOMAIN one = {}
      BY <3>1
    <3> QED BY <2>2, <3>2 DEF InOrder, ToSet
  <2> QED BY <2>1, <2>2
<1>9. g \in Seq(Memory) /\ ToSet(g) = Under(e) \cap S /\ InOrder(g, Ahead)
  BY <1>4 DEF Finds
<1>10. h \in Seq(Memory) /\ ToSet(h) = After(n, i + 1) \cap S /\ InOrder(h, Ahead)
  BY DEF Finds
<1>11. PICK p : p = one \o g
  OBVIOUS
<1>12. p \in Seq(Memory) /\ ToSet(p) = Reached({e}) \cap S /\ InOrder(p, Ahead)
  <2>1. \A x \in ToSet(one), y \in ToSet(g) : <<x, y>> \in Ahead
    BY <1>6, <1>8, <1>9
  <2>2. one \o g \in Seq(Memory) /\ ToSet(one \o g) = ToSet(one) \cup ToSet(g) /\ InOrder(one \o g, Ahead)
    BY <1>8, <1>9, <2>1, OrderedConcat
  <2> QED BY <1>3, <1>8, <1>9, <1>11, <2>2
<1>13. p \o h \in Seq(Memory) /\ ToSet(p \o h) = ToSet(p) \cup ToSet(h) /\ InOrder(p \o h, Ahead)
  <2>1. \A x \in ToSet(p), y \in ToSet(h) : <<x, y>> \in Ahead
    BY <1>5, <1>10, <1>12
  <2> QED BY <1>10, <1>12, <2>1, OrderedConcat
<1>14. Finds(p \o h, S, n, i)
  BY <1>4, <1>10, <1>12, <1>13 DEF Finds
<1> QED BY <1>7, <1>11, <1>14 DEF FoundOf

LEMMA SearchFinds ==
  ASSUME TreeOf(kids, up, Live), IsFiniteSet(Live), NEW c \in Reached({DocNode}), NEW S, NEW w, WalksFound(w, c, S)
  PROVE  \A n \in Reached({c}) : \A i \in Nat \ {0} : Finds(w[<<n, i>>], S, n, i)
<1> DEFINE T == {x \in Places(c) : Finds(w[x], S, x[1], x[2])}
<1>1. \A n \in Reached({c}) : \A i \in Nat \ {0} : <<n, i>> \in T <=> Finds(w[<<n, i>>], S, n, i)
  <2> TAKE n \in Reached({c})
  <2> TAKE i \in Nat \ {0}
  <2>1. PICK x : x = <<n, i>>
    OBVIOUS
  <2>2. x \in Places(c) /\ x[1] = n /\ x[2] = i
    BY <2>1 DEF Places
  <2> QED BY <2>1, <2>2
<1> HIDE DEF T
<1>2. ASSUME NEW n \in Reached({c}), NEW i \in Nat \ {0},
             i <= Len(kids[n]) => /\ kids[n][i] # TextNode => <<kids[n][i], 1>> \in T
                                  /\ <<n, i + 1>> \in T
      PROVE  <<n, i>> \in T
  <2>1. /\ n \in Reached({DocNode}) /\ n \in Live /\ Len(kids[n]) \in Nat
        /\ i + 1 \in Nat \ {0} /\ 1 \in Nat \ {0}
    <3>1. n \in Reached({DocNode}) /\ n \in Live
      BY InDocument
    <3> QED BY <3>1, ListedAt
  <2>2. w[<<n, i>>] = FoundAt(S, w, n, i) /\ (i <= Len(kids[n]) => ~ (i > Len(kids[n])))
    BY <2>1 DEF WalksFound
  <2>3. CASE i > Len(kids[n])
    <3>1. w[<<n, i>>] = <<>> /\ After(n, i) = {}
      BY <2>2, <2>1, <2>3, AfterIs DEF FoundAt
    <3>2. PICK h : h = <<>>
      OBVIOUS
    <3>3. h \in Seq(Memory) /\ ToSet(h) = {} /\ InOrder(h, Ahead)
      BY <3>2 DEF ToSet, InOrder
    <3>4. Finds(w[<<n, i>>], S, n, i)
      BY <3>1, <3>2, <3>3 DEF Finds
    <3> QED BY <1>1, <3>4
  <2>4. CASE i <= Len(kids[n]) /\ kids[n][i] = TextNode
    <3>1. w[<<n, i>>] = w[<<n, i + 1>>]
      BY <2>2, <2>4 DEF FoundAt
    <3>2. After(n, i) = After(n, i + 1)
      BY <2>1, <2>4, AfterIs
    <3>3. Finds(w[<<n, i + 1>>], S, n, i + 1)
      BY <1>1, <1>2, <2>1, <2>4
    <3>4. Finds(w[<<n, i>>], S, n, i)
      BY <3>1, <3>2, <3>3 DEF Finds
    <3> QED BY <1>1, <3>4
  <2>5. CASE i <= Len(kids[n]) /\ kids[n][i] # TextNode
    <3>1. PICK e : e = kids[n][i]
      OBVIOUS
    <3>2. e \in Children[n]
      BY <2>1, <2>5, <3>1, ListedAt
    <3>3. e \in Reached({c})
      BY <3>2, InDocument
    <3>4. Finds(w[<<e, 1>>], S, e, 1) /\ Finds(w[<<n, i + 1>>], S, n, i + 1)
      BY <1>1, <1>2, <2>1, <2>5, <3>1, <3>3
    <3>5. PICK g : g = w[<<e, 1>>]
      OBVIOUS
    <3>6. PICK h : h = w[<<n, i + 1>>]
      OBVIOUS
    <3>7. Finds(FoundOf(e, S, g, h), S, n, i)
      BY <2>1, <2>5, <3>1, <3>4, <3>5, <3>6, FoundAtOK
    <3>8. w[<<n, i>>] = FoundOf(e, S, g, h)
      BY <2>2, <2>5, <3>1, <3>5, <3>6 DEF FoundAt
    <3> QED BY <1>1, <3>7, <3>8
  <2> QED BY <2>1, <2>3, <2>4, <2>5
<1>3. \A n \in Reached({c}) : \A i \in Nat \ {0} : <<n, i>> \in T
  BY <1>2, WalkInduction
<1> QED BY <1>1, <1>3

HeadOf(h) == IF h = <<>> THEN Nothing ELSE Head(h)

LEMMA HeadOfConcat ==
  ASSUME NEW e \in Memory, NEW g \in Seq(Memory), NEW h \in Seq(Memory)
  PROVE  HeadOf(FoundOf(e, matching, g, h)) = FirstOf(e, HeadOf(g), HeadOf(h))
<1>1. Nothing \notin Memory
  BY MemoryAssumption
<1>2. HeadOf(<<e>> \o g \o h) = e
  <2>1. PICK q : q = <<e>> \o g \o h
    OBVIOUS
  <2>2. q \in Seq(Memory) /\ Len(q) > 0 /\ q[1] = e
    BY <2>1
  <2> QED BY <2>1, <2>2 DEF HeadOf
<1>3. <<>> \o g \o h = g \o h
  OBVIOUS
<1>4. ASSUME g = <<>> PROVE HeadOf(g \o h) = IF HeadOf(g) # Nothing THEN HeadOf(g) ELSE HeadOf(h)
  <2>1. g \o h = h /\ HeadOf(g) = Nothing
    BY <1>4 DEF HeadOf
  <2> QED BY <2>1
<1>5. ASSUME g # <<>> PROVE HeadOf(g \o h) = IF HeadOf(g) # Nothing THEN HeadOf(g) ELSE HeadOf(h)
  <2>1. HeadOf(g) = g[1] /\ g[1] \in Memory /\ Len(g) > 0
    BY <1>5 DEF HeadOf
  <2>2. PICK q : q = g \o h
    OBVIOUS
  <2>3. q \in Seq(Memory) /\ Len(q) > 0 /\ q[1] = g[1]
    BY <2>1, <2>2
  <2>4. HeadOf(q) = g[1]
    BY <2>3 DEF HeadOf
  <2> QED BY <1>1, <2>1, <2>2, <2>4
<1>6. CASE e \in matching
  <2>1. FoundOf(e, matching, g, h) = <<e>> \o g \o h /\ FirstOf(e, HeadOf(g), HeadOf(h)) = e
    BY <1>1, <1>6 DEF FoundOf, FirstOf
  <2> QED BY <1>2, <2>1
<1>7. CASE e \notin matching
  <2>1. FoundOf(e, matching, g, h) = <<>> \o g \o h
    BY <1>7 DEF FoundOf
  <2>2. FirstOf(e, HeadOf(g), HeadOf(h)) = IF HeadOf(g) # Nothing THEN HeadOf(g) ELSE HeadOf(h)
    BY <1>7 DEF FirstOf
  <2> QED BY <1>3, <1>4, <1>5, <2>1, <2>2
<1> QED BY <1>6, <1>7

LEMMA FirstIsHead ==
  ASSUME TreeOf(kids, up, Live), IsFiniteSet(Live), NEW c \in Reached({DocNode}), NEW w, WalksFound(w, c, matching),
         NEW f, WalksFirst(f, c)
  PROVE  \A n \in Reached({c}) : \A i \in Nat \ {0} : f[<<n, i>>] = HeadOf(w[<<n, i>>])
<1> DEFINE T == {x \in Places(c) : f[x] = HeadOf(w[x])}
<1>1. \A n \in Reached({c}) : \A i \in Nat \ {0} : <<n, i>> \in T <=> f[<<n, i>>] = HeadOf(w[<<n, i>>])
  <2> TAKE n \in Reached({c})
  <2> TAKE i \in Nat \ {0}
  <2>1. <<n, i>> \in Places(c)
    BY DEF Places
  <2> QED BY <2>1
<1> HIDE DEF T
<1>2. \A n \in Reached({c}) : \A i \in Nat \ {0} : w[<<n, i>>] \in Seq(Memory)
  BY SearchFinds DEF Finds
<1>3. ASSUME NEW n \in Reached({c}), NEW i \in Nat \ {0},
             i <= Len(kids[n]) => /\ kids[n][i] # TextNode => <<kids[n][i], 1>> \in T
                                  /\ <<n, i + 1>> \in T
      PROVE  <<n, i>> \in T
  <2>1. /\ n \in Reached({DocNode}) /\ n \in Live /\ Len(kids[n]) \in Nat
        /\ i + 1 \in Nat \ {0} /\ 1 \in Nat \ {0}
    <3>1. n \in Reached({DocNode}) /\ n \in Live
      BY InDocument
    <3> QED BY <3>1, ListedAt
  <2>2. /\ w[<<n, i>>] = FoundAt(matching, w, n, i) /\ f[<<n, i>>] = FirstAt(f, n, i)
        /\ i <= Len(kids[n]) => ~ (i > Len(kids[n]))
    <3>1. w[<<n, i>>] = FoundAt(matching, w, n, i)
      BY DEF WalksFound
    <3>2. f[<<n, i>>] = FirstAt(f, n, i)
      BY DEF WalksFirst
    <3> QED BY <2>1, <3>1, <3>2
  <2>3. CASE i > Len(kids[n])
    <3>1. w[<<n, i>>] = <<>>
      BY <2>2, <2>3 DEF FoundAt
    <3>2. f[<<n, i>>] = Nothing
      BY <2>2, <2>3 DEF FirstAt
    <3> QED BY <1>1, <3>1, <3>2 DEF HeadOf
  <2>4. CASE i <= Len(kids[n]) /\ kids[n][i] = TextNode
    <3>1. w[<<n, i>>] = w[<<n, i + 1>>]
      BY <2>2, <2>4 DEF FoundAt
    <3>2. f[<<n, i>>] = f[<<n, i + 1>>]
      BY <2>2, <2>4 DEF FirstAt
    <3>3. f[<<n, i + 1>>] = HeadOf(w[<<n, i + 1>>])
      BY <1>1, <1>3, <2>1, <2>4
    <3> QED BY <1>1, <3>1, <3>2, <3>3
  <2>5. CASE i <= Len(kids[n]) /\ kids[n][i] # TextNode
    <3>1. PICK e : e = kids[n][i]
      OBVIOUS
    <3>2. e \in Children[n]
      BY <2>1, <2>5, <3>1, ListedAt
    <3>3. e \in Reached({c}) /\ e \in Memory /\ e # Nothing
      <4>1. e \in Reached({c}) /\ e \in Live
        BY <2>1, <3>2, InDocument, ListedUp
      <4> QED BY <4>1, MemoryAssumption DEF Live
    <3>4. /\ f[<<e, 1>>] = HeadOf(w[<<e, 1>>]) /\ f[<<n, i + 1>>] = HeadOf(w[<<n, i + 1>>])
          /\ w[<<e, 1>>] \in Seq(Memory) /\ w[<<n, i + 1>>] \in Seq(Memory)
      BY <1>1, <1>2, <1>3, <2>1, <2>5, <3>1, <3>3
    <3>5. PICK g : g = w[<<e, 1>>]
      OBVIOUS
    <3>6. PICK h : h = w[<<n, i + 1>>]
      OBVIOUS
    <3>7. w[<<n, i>>] = FoundOf(e, matching, g, h)
      BY <2>2, <2>5, <3>1, <3>5, <3>6 DEF FoundAt
    <3>8. f[<<n, i>>] = FirstOf(e, HeadOf(g), HeadOf(h))
      BY <2>2, <2>5, <3>1, <3>4, <3>5, <3>6 DEF FirstAt
    <3>9. HeadOf(FoundOf(e, matching, g, h)) = FirstOf(e, HeadOf(g), HeadOf(h))
      BY <3>3, <3>4, <3>5, <3>6, HeadOfConcat
    <3> QED BY <1>1, <3>7, <3>8, <3>9
  <2> QED BY <2>1, <2>3, <2>4, <2>5
<1>4. \A n \in Reached({c}) : \A i \in Nat \ {0} : <<n, i>> \in T
  BY <1>3, WalkInduction
<1> QED BY <1>1, <1>4

\* Whatever the document has become, a search below a node of it ends, finds all that
\* match, once each and in document order; and a search for one finds the first of them
\* (query_selector_all, collect_selector_matches, query_selector_first).
THEOREM SearchesAgree == DomSpec => []QueriesAgree
<1>1. DomInv => QueriesAgree
  <2> SUFFICES ASSUME DomInv, NEW c \in Reached({DocNode})
      PROVE  /\ ToSet(query_selector_all(c)) = Under(c) \cap matching
             /\ \A i, j \in DOMAIN query_selector_all(c) : i < j =>
                  /\ query_selector_all(c)[i] # query_selector_all(c)[j]
                  /\ Precedes(query_selector_all(c)[i], query_selector_all(c)[j])
             /\ query_selector_first(c) =
                  IF query_selector_all(c) = <<>> THEN Nothing ELSE Head(query_selector_all(c))
    BY DEF QueriesAgree
  <2>1. TreeOf(kids, up, Live) /\ IsFiniteSet(Live)
    BY LiveFinite DEF DomInv
  <2>2. PICK w : Found(c, matching) = w[<<c, 1>>] /\ WalksFound(w, c, matching)
    BY <2>1, FoundWalks
  <2>3. PICK f : query_selector_first(c) = f[<<c, 1>>] /\ WalksFirst(f, c)
    BY <2>1, FirstWalks
  <2>4. PICK hits : hits = query_selector_all(c)
    OBVIOUS
  <2>5. c \in Reached({c}) /\ 1 \in Nat \ {0} /\ After(c, 1) = Under(c)
    <3>1. 1 \in Nat \ {0}
      OBVIOUS
    <3> QED BY <2>1, <3>1, InDocument, AfterIs
  <2>6. hits = w[<<c, 1>>]
    BY <2>2, <2>4 DEF query_selector_all
  <2>7. Finds(hits, matching, c, 1)
    BY <2>1, <2>2, <2>5, <2>6, SearchFinds
  <2>8. query_selector_first(c) = HeadOf(hits)
    BY <2>1, <2>2, <2>3, <2>5, <2>6, FirstIsHead
  <2>9. ToSet(hits) = Under(c) \cap matching
    BY <2>5, <2>7 DEF Finds
  <2>10. ASSUME NEW i \in DOMAIN hits, NEW j \in DOMAIN hits, i < j
         PROVE  hits[i] # hits[j] /\ Precedes(hits[i], hits[j])
    <3>1. PICK r : r = <<hits[i], hits[j]>>
      OBVIOUS
    <3>2. r \in Ahead
      BY <2>7, <2>10, <3>1 DEF Finds, InOrder
    <3>3. r[1] = hits[i] /\ r[2] = hits[j]
      BY <3>1
    <3>4. r[1] # r[2] /\ Precedes(r[1], r[2])
      BY <3>2 DEF Ahead
    <3> QED BY <3>3, <3>4
  <2> QED BY <2>4, <2>8, <2>9, <2>10 DEF HeadOf
<1> QED BY <1>1, DomInvariant, PTL

-----------------------------------------------------------------------------
(* Matching                                                                *)

Css == INSTANCE Matching

Spots(d) == d.nodes \cup {Css!Doc, Css!NoParent}

\* The elements that a join's search comes to from m on, m included
From(d, step, m) ==
  IF m \notin d.nodes THEN {}
  ELSE {m} \cup (IF step \in Css!Loose THEN {s \in d.nodes : Css!Related(d, step, s, m)} ELSE {})

\* There are earlier siblings, or there is a nearest.
LEMMA PreviousIs ==
  ASSUME NEW d, Css!IsDocument(d), NEW n \in d.nodes
  PROVE  LET p == Css!PreviousElement(d, n)
             before == {s \in Css!ElementSiblings(d, n) : s < n}
         IN  \/ before = {} /\ p = Css!NoParent
             \/ p \in before /\ \A s \in before : s <= p
<1> DEFINE before == {s \in Css!ElementSiblings(d, n) : s < n}
           N == {n - s : s \in before}
<1>1. n \in Nat /\ d.nodes \subseteq Nat
  BY DEF Css!IsDocument
<1>2. before \subseteq d.nodes
  BY DEF Css!ElementSiblings, Css!ChildrenOf
<1>3. Css!PreviousElement(d, n) = IF before = {} THEN Css!NoParent ELSE Css!Max(before)
  BY DEF Css!PreviousElement
<1>4. ASSUME before # {} PROVE Css!Max(before) \in before /\ \A s \in before : s <= Css!Max(before)
  <2>1. N \in SUBSET Nat /\ N # {}
    BY <1>1, <1>2, <1>4
  <2>2. PICK k \in N : \A j \in N : k <= j
    <3> HIDE DEF N
    <3> QED BY <2>1, Smallest
  <2>3. PICK p \in before : k = n - p
    BY <2>2
  <2>4. \A s \in before : p >= s
    <3> TAKE s \in before
    <3>1. n - p <= n - s
      BY <2>2, <2>3
    <3>2. n \in Nat /\ p \in Nat /\ s \in Nat
      BY <1>1, <1>2
    <3> HIDE DEF before, N
    <3> QED BY <3>1, <3>2
  <2> HIDE DEF before, N
  <2>5. Css!Max(before) \in before /\ \A s \in before : Css!Max(before) >= s
    BY <2>4 DEF Css!Max
  <2> QED BY <1>1, <1>2, <2>5
<1> HIDE DEF before
<1>5. \/ before = {} /\ Css!PreviousElement(d, n) = Css!NoParent
      \/ Css!PreviousElement(d, n) \in before /\ \A s \in before : s <= Css!PreviousElement(d, n)
  BY <1>3, <1>4
<1> QED BY <1>5 DEF before

\* The next candidate is before the last.
LEMMA CandidateIs ==
  ASSUME NEW d, Css!IsDocument(d), NEW n \in d.nodes, NEW step
  PROVE  Css!Candidate(d, step, n) \in Spots(d) /\ Css!Candidate(d, step, n) < n
<1>1. d.parent[n] \in Spots(d) /\ d.parent[n] < n /\ n \in Nat \ {0}
  BY DEF Css!IsDocument, Spots
<1>2. Css!PreviousElement(d, n) \in Spots(d) /\ Css!PreviousElement(d, n) < n
  <2>1. Css!ElementSiblings(d, n) \subseteq d.nodes
    BY DEF Css!ElementSiblings, Css!ChildrenOf
  <2> QED BY <1>1, <2>1, PreviousIs DEF Spots, Css!NoParent
<1> QED BY <1>1, <1>2 DEF Css!Candidate

\* Where a walk whose places count down can be
Counts(S, rank, R) == /\ \A x \in S : rank[x] \in Nat
                      /\ \A x, y \in S : <<y, x>> \in R => rank[y] < rank[x]

LEMMA CountsGrounded ==
  ASSUME NEW S, NEW rank, NEW R, Counts(S, rank, R)
  PROVE  Grounded(S, R)
<1> SUFFICES ASSUME NEW T \in SUBSET S, T # {}
    PROVE  \E x \in T : \A y \in T : <<y, x>> \notin R
  BY DEF Grounded
<1> DEFINE N == {rank[x] : x \in T}
<1>1. N \in SUBSET Nat /\ N # {}
  BY DEF Counts
<1>2. PICK k \in N : \A j \in N : k <= j
  <2> HIDE DEF N
  <2> QED BY <1>1, Smallest
<1>3. PICK x \in T : k = rank[x]
  BY <1>2
<1>4. ASSUME NEW y \in T, <<y, x>> \in R PROVE FALSE
  <2>1. rank[y] < rank[x] /\ rank[y] \in Nat /\ rank[x] \in Nat
    BY <1>4 DEF Counts
  <2>2. rank[x] <= rank[y]
    BY <1>2, <1>3
  <2> QED BY <2>1, <2>2
<1> QED BY <1>4

\* What is above a node is its parent and what is above that.
LEMMA AboveIs ==
  ASSUME NEW d, Css!IsDocument(d), NEW n \in d.nodes
  PROVE  /\ Css!Above(d, n) \subseteq d.nodes
         /\ Css!Above(d, n) = IF d.parent[n] \in d.nodes THEN {d.parent[n]} \cup Css!Above(d, d.parent[n]) ELSE {}
<1> DEFINE S == d.nodes
           V == SUBSET d.nodes
           R == {r \in S \X S : r[1] < r[2]}
           rank == [x \in S |-> x]
           ends == {x \in S : d.parent[x] \notin d.nodes}
           a == [x \in S |-> IF x \in ends THEN x ELSE d.parent[x]]
           G == [y \in S \X V \X V |-> IF y[1] \in ends THEN {} ELSE {d.parent[y[1]]} \cup y[2]]
<1>1. S \subseteq Nat /\ \A x \in S : d.parent[x] < x
  BY DEF Css!IsDocument
<1>2. Grounded(S, R)
  <2>1. Counts(S, rank, R)
    BY <1>1 DEF Counts
  <2> HIDE DEF S, R, rank
  <2> QED BY <2>1, CountsGrounded
<1>3. Down(S, R, ends, a, a)
  <2>1. a \in [S -> S]
    OBVIOUS
  <2>2. ASSUME NEW x \in S \ ends PROVE <<a[x], x>> \in R
    BY <1>1
  <2> HIDE DEF S, R, ends, a
  <2> QED BY <2>1, <2>2 DEF Down
<1>4. {} \in V
  OBVIOUS
<1>5. G \in [S \X V \X V -> V]
  <2>1. ASSUME NEW y \in S \X V \X V PROVE G[y] \in V
    <3>1. y[1] \in S /\ y[2] \in V
      OBVIOUS
    <3>2. y[1] \notin ends => d.parent[y[1]] \in d.nodes
      BY <3>1
    <3> QED BY <3>1, <3>2
  <2> QED BY <2>1
<1>6. PICK f \in [S -> V] : Solves(f, S, ends, {}, G, a, a)
  <2> HIDE DEF S, V, R, ends, a, G
  <2> QED BY <1>2, <1>3, <1>4, <1>5, TwoCalls
<1>7. \A x \in S : f[x] = IF d.parent[x] \in d.nodes THEN {d.parent[x]} \cup f[d.parent[x]] ELSE {}
  <2> TAKE x \in S
  <2>1. CASE x \in ends
    BY <1>6, <2>1 DEF Solves
  <2>2. CASE x \notin ends
    <3>1. a[x] = d.parent[x] /\ d.parent[x] \in d.nodes
      BY <2>2
    <3>2. f[x] = G[<<x, f[a[x]], f[a[x]]>>]
      <4> HIDE DEF S, V, ends, G, a
      <4> QED BY <1>6, <2>2 DEF Solves
    <3>3. <<x, f[a[x]], f[a[x]]>> \in S \X V \X V
      BY <3>1
    <3>4. G[<<x, f[a[x]], f[a[x]]>>] = {d.parent[x]} \cup f[a[x]]
      BY <2>2, <3>3
    <3> HIDE DEF S, V, ends, G, a
    <3> QED BY <3>1, <3>2, <3>4
  <2> QED BY <2>1, <2>2
<1> DEFINE Eq(g) == g = [m \in d.nodes |-> IF d.parent[m] \in d.nodes THEN {d.parent[m]} \cup g[d.parent[m]] ELSE {}]
<1>8. Eq(f)
  <2> DEFINE h == [m \in d.nodes |-> IF d.parent[m] \in d.nodes THEN {d.parent[m]} \cup f[d.parent[m]] ELSE {}]
  <2>1. \A m \in d.nodes : f[m] = h[m]
    BY <1>7
  <2>2. f \in [d.nodes -> V] /\ h = [m \in d.nodes |-> h[m]]
    OBVIOUS
  <2> HIDE DEF h, V
  <2>3. f = h
    BY <2>1, <2>2
  <2> QED BY <2>3 DEF h
<1> DEFINE w == CHOOSE g : Eq(g)
<1>9. Eq(w)
  <2> HIDE DEF Eq
  <2> QED BY <1>8
<1>10. \A m \in d.nodes : Css!Above(d, m) = w[m]
  BY DEF Css!Above
<1>11. \A m \in d.nodes : w[m] = IF d.parent[m] \in d.nodes THEN {d.parent[m]} \cup w[d.parent[m]] ELSE {}
  BY <1>9
<1> HIDE DEF w, Eq
<1>12. \A m \in d.nodes : Css!Above(d, m) = IF d.parent[m] \in d.nodes THEN {d.parent[m]} \cup Css!Above(d, d.parent[m]) ELSE {}
  BY <1>10, <1>11
<1>13. \A m \in d.nodes : Css!Above(d, m) \subseteq d.nodes
  <2> DEFINE Bad == {m \in d.nodes : ~ (Css!Above(d, m) \subseteq d.nodes)}
  <2> SUFFICES ASSUME Bad # {} PROVE FALSE
    OBVIOUS
  <2>1. PICK m \in Bad : \A j \in Bad : m <= j
    <3>1. Bad \in SUBSET Nat
      BY <1>1
    <3> HIDE DEF Bad
    <3> QED BY <3>1, Smallest
  <2>2. d.parent[m] < m /\ (d.parent[m] \in d.nodes => d.parent[m] \in Nat /\ m \in Nat)
    BY <1>1
  <2>3. d.parent[m] \in d.nodes => Css!Above(d, d.parent[m]) \subseteq d.nodes
    BY <2>1, <2>2
  <2> QED BY <1>12, <2>3
<1> QED BY <1>12, <1>13

\* What a join relates to a node is what its search comes to from the first candidate on.
LEMMA RelatedIs ==
  ASSUME NEW d, Css!IsDocument(d), NEW n \in d.nodes, NEW step \in Css!Joins
  PROVE  \A b \in Css!Elements(d) :
           Css!Related(d, step, b, n) <=> b \in From(d, step, Css!Candidate(d, step, n))
<1> SUFFICES ASSUME NEW b \in Css!Elements(d)
    PROVE  Css!Related(d, step, b, n) <=> b \in From(d, step, Css!Candidate(d, step, n))
  OBVIOUS
<1> DEFINE siblings == Css!ElementSiblings(d, n)
           p == Css!PreviousElement(d, n)
<1>1. b \in d.nodes /\ d.nodes \subseteq Nat
  BY DEF Css!Elements, Css!IsDocument
<1>2. CASE step = "child"
  <2>1. Css!Related(d, step, b, n) <=> b = d.parent[n]
    BY <1>2 DEF Css!Related
  <2>2. Css!Candidate(d, step, n) = d.parent[n] /\ step \notin Css!Loose
    BY <1>2 DEF Css!Candidate, Css!Loose
  <2> QED BY <1>1, <2>1, <2>2 DEF From
<1>3. CASE step = "descendant"
  <2>1. \A m, o : Css!Related(d, step, m, o) <=> m \in Css!Above(d, o)
    BY <1>3 DEF Css!Related
  <2>2. Css!Candidate(d, step, n) = d.parent[n] /\ step \in Css!Loose
    BY <1>3 DEF Css!Candidate, Css!Loose
  <2>3. d.parent[n] \in d.nodes => Css!Above(d, d.parent[n]) \subseteq d.nodes
    BY AboveIs
  <2>4. Css!Above(d, n) = IF d.parent[n] \in d.nodes THEN {d.parent[n]} \cup Css!Above(d, d.parent[n]) ELSE {}
    BY AboveIs
  <2> QED BY <1>1, <2>1, <2>2, <2>3, <2>4 DEF From
<1>4. /\ siblings \subseteq d.nodes
      /\ \A m \in siblings : Css!ElementSiblings(d, m) = siblings
  <2>1. siblings \subseteq d.nodes
    BY DEF Css!ElementSiblings, Css!ChildrenOf
  <2>2. ASSUME NEW m \in siblings PROVE Css!ElementSiblings(d, m) = siblings
    <3>1. d.parent[n] # Css!NoParent
      BY DEF Css!ElementSiblings
    <3>2. d.parent[m] = d.parent[n]
      BY <3>1 DEF Css!ElementSiblings, Css!ChildrenOf
    <3> QED BY <3>1, <3>2 DEF Css!ElementSiblings
  <2> QED BY <2>1, <2>2
<1>5. \/ p = Css!NoParent /\ \A s \in siblings : ~ (s < n)
      \/ p \in siblings /\ p < n /\ \A s \in siblings : s < n => s <= p
  BY PreviousIs
<1>6. Css!NoParent \notin d.nodes /\ n \in Nat
  BY <1>1 DEF Css!NoParent
<1>7. step \in {"next", "later"} => Css!Candidate(d, step, n) = p
  BY DEF Css!Candidate
<1>8. CASE step = "next"
  <2>1. Css!Related(d, step, b, n) <=> b \in siblings /\ b < n /\ \A s \in siblings : ~ (b < s /\ s < n)
    BY <1>8 DEF Css!Related
  <2>2. From(d, step, p) = IF p \notin d.nodes THEN {} ELSE {p}
    BY <1>8 DEF From, Css!Loose
  <2> HIDE DEF siblings, p
  <2>3. CASE p = Css!NoParent /\ \A s \in siblings : ~ (s < n)
    BY <1>6, <1>7, <1>8, <2>1, <2>2, <2>3
  <2>4. CASE p \in siblings /\ p < n /\ \A s \in siblings : s < n => s <= p
    <3>1. b \in Nat /\ p \in Nat
      BY <1>1, <1>4, <2>4
    <3>2. (b \in siblings /\ b < n /\ \A s \in siblings : ~ (b < s /\ s < n)) => b = p
      <4>1. b \in siblings /\ b < n => b <= p
        BY <2>4
      <4>2. (\A s \in siblings : ~ (b < s /\ s < n)) => ~ (b < p)
        BY <2>4
      <4> QED BY <3>1, <4>1, <4>2
    <3>3. \A s \in siblings : ~ (p < s /\ s < n)
      <4> TAKE s \in siblings
      <4>1. s \in Nat
        BY <1>1, <1>4
      <4> QED BY <2>4, <3>1, <4>1
    <3>4. b = p => b \in siblings /\ b < n /\ \A s \in siblings : ~ (b < s /\ s < n)
      BY <2>4, <3>3
    <3> QED BY <1>4, <1>7, <1>8, <2>1, <2>2, <2>4, <3>2, <3>4
  <2> QED BY <1>5, <2>3, <2>4
<1>9. CASE step = "later"
  <2>1. \A m, o : Css!Related(d, step, m, o) <=> m \in Css!ElementSiblings(d, o) /\ m < o
    BY <1>9 DEF Css!Related
  <2>2. From(d, step, p) = IF p \notin d.nodes THEN {}
                           ELSE {p} \cup {s \in d.nodes : s \in Css!ElementSiblings(d, p) /\ s < p}
    BY <1>9, <2>1 DEF From, Css!Loose
  <2> HIDE DEF siblings, p
  <2>3. CASE p = Css!NoParent /\ \A s \in siblings : ~ (s < n)
    BY <1>6, <1>7, <1>9, <2>1, <2>2, <2>3 DEF siblings
  <2>4. CASE p \in siblings /\ p < n /\ \A s \in siblings : s < n => s <= p
    <3>1. b \in Nat /\ p \in Nat
      BY <1>1, <1>4, <2>4
    <3>2. b \in siblings /\ b < n <=> b = p \/ (b \in siblings /\ b < p)
      BY <1>6, <2>4, <3>1
    <3>3. b \in From(d, step, p) <=> b = p \/ (b \in siblings /\ b < p)
      BY <1>1, <1>4, <2>2, <2>4
    <3>4. Css!Related(d, step, b, n) <=> b \in siblings /\ b < n
      BY <2>1 DEF siblings
    <3> QED BY <1>7, <1>9, <3>2, <3>3, <3>4
  <2> QED BY <1>5, <2>3, <2>4
<1> QED BY <1>2, <1>3, <1>8, <1>9 DEF Css!Joins

\* The search, place by place
TryAt(d, steps, suits, w, i, m) ==
  /\ m \in d.nodes
  /\ \/ m \in suits[i - 1] /\ (i = 2 \/ w[<<i - 1, Css!Candidate(d, steps[i - 1], m)>>])
     \/ steps[i] \in Css!Loose /\ w[<<i, Css!Candidate(d, steps[i], m)>>]

Tries(w, d, steps, suits) ==
  \A i \in 2 .. Len(steps) : \A m \in Spots(d) : w[<<i, m>>] <=> TryAt(d, steps, suits, w, i, m)

LEMMA MatchWalks ==
  ASSUME NEW d, Css!IsDocument(d), NEW steps, NEW suits, Css!IsChain(d, steps, suits)
  PROVE  \E w : /\ Tries(w, d, steps, suits)
                /\ \A n : Css!MatchesFrom(d, steps, suits, n)
                            <=> (Len(steps) = 1 \/ w[<<Len(steps), Css!Candidate(d, steps[Len(steps)], n)>>])
<1> DEFINE S == (2 .. Len(steps)) \X Spots(d)
           V == {{}, {{}}}
           rank == [x \in S |-> x[1] + x[2]]
           R == {r \in S \X S : rank[r[1]] < rank[r[2]]}
           ends == {x \in S : x[2] \notin d.nodes}
           b == [x \in S |-> IF x \in ends THEN x ELSE <<x[1], Css!Candidate(d, steps[x[1]], x[2])>>]
           a == [x \in S |-> IF x[1] = 2 \/ x \in ends THEN b[x]
                             ELSE <<x[1] - 1, Css!Candidate(d, steps[x[1] - 1], x[2])>>]
           Yes(x, u, v) == \/ x[2] \in suits[x[1] - 1] /\ (x[1] = 2 \/ u # {})
                           \/ steps[x[1]] \in Css!Loose /\ v # {}
           G == [y \in S \X V \X V |-> IF Yes(y[1], y[2], y[3]) THEN {{}} ELSE {}]
<1>1. Len(steps) \in Nat \ {0} /\ Spots(d) \subseteq Int /\ \A m \in Spots(d) : m >= -1
  BY DEF Css!IsChain, Css!IsDocument, Spots, Css!Doc, Css!NoParent
<1>2. \A x \in S : x[1] \in 2 .. Len(steps) /\ x[2] \in Spots(d) /\ x = <<x[1], x[2]>>
  OBVIOUS
<1>0. \A i \in 2 .. Len(steps) : \A m \in Spots(d) : <<i, m>> \in S /\ rank[<<i, m>>] = i + m
  <2> TAKE i \in 2 .. Len(steps)
  <2> TAKE m \in Spots(d)
  <2>1. PICK x : x = <<i, m>>
    OBVIOUS
  <2>2. x \in S /\ x[1] = i /\ x[2] = m
    BY <2>1
  <2>3. rank[x] = i + m
    BY <2>2
  <2> QED BY <2>1, <2>2, <2>3
<1>3. Grounded(S, R)
  <2>1. \A x \in S : rank[x] \in Nat
    <3> TAKE x \in S
    <3>1. x[1] \in Int /\ x[1] >= 2 /\ x[2] \in Int /\ x[2] >= -1
      BY <1>1, <1>2
    <3> QED BY <3>1
  <2>2. Counts(S, rank, R)
    <3> HIDE DEF S, rank
    <3> QED BY <2>1 DEF Counts
  <2> HIDE DEF S, R, rank
  <2> QED BY <2>2, CountsGrounded
<1>4. ASSUME NEW i \in 2 .. Len(steps), NEW m \in d.nodes
      PROVE  LET x == <<i, m>>  c == Css!Candidate(d, steps[i], m)  e == Css!Candidate(d, steps[i - 1], m)
             IN  /\ x \in S /\ x \notin ends
                 /\ b[x] = <<i, c>> /\ b[x] \in S /\ <<b[x], x>> \in R
                 /\ a[x] \in S /\ <<a[x], x>> \in R
                 /\ i # 2 => a[x] = <<i - 1, e>>
  <2>1. PICK x : x = <<i, m>>
    OBVIOUS
  <2>2. PICK c : c = Css!Candidate(d, steps[i], m)
    OBVIOUS
  <2>3. PICK e : e = Css!Candidate(d, steps[i - 1], m)
    OBVIOUS
  <2>4. c \in Spots(d) /\ c < m /\ e \in Spots(d) /\ e < m /\ m \in Spots(d) /\ m \in Int /\ c \in Int /\ e \in Int
    BY <1>1, <2>2, <2>3, CandidateIs DEF Spots
  <2>5. x \in S /\ x[1] = i /\ x[2] = m /\ x \notin ends
    BY <2>1, <2>4
  <2>6. b[x] = <<i, c>>
    BY <2>2, <2>5
  <2>7. b[x] \in S /\ rank[b[x]] = i + c
    <3> HIDE DEF S, rank, b
    <3> QED BY <1>0, <2>4, <2>6
  <2>8. rank[x] = i + m /\ i \in Int
    BY <2>5
  <2>9. <<b[x], x>> \in R
    <3>1. rank[b[x]] < rank[x]
      <4> HIDE DEF rank, b, S
      <4> QED BY <2>4, <2>7, <2>8
    <3> HIDE DEF rank, b, S
    <3> QED BY <2>5, <2>7, <3>1
  <2>10. CASE i = 2
    <3>1. a[x] = b[x]
      BY <2>5, <2>10
    <3> QED BY <2>1, <2>2, <2>3, <2>5, <2>6, <2>7, <2>9, <2>10, <3>1
  <2>11. CASE i # 2
    <3>1. a[x] = <<i - 1, e>>
      BY <2>3, <2>5, <2>11
    <3>2. a[x] \in S /\ rank[a[x]] = i - 1 + e
      <4>1. i - 1 \in 2 .. Len(steps)
        BY <1>1, <2>11
      <4> HIDE DEF S, rank, a
      <4> QED BY <1>0, <2>4, <3>1, <4>1
    <3>3. <<a[x], x>> \in R
      <4>1. rank[a[x]] < rank[x]
        <5> HIDE DEF rank, a, S
        <5> QED BY <2>4, <2>8, <3>2
      <4> HIDE DEF rank, a, S
      <4> QED BY <2>5, <3>2, <4>1
    <3> HIDE DEF S, R, ends, a, b
    <3> QED BY <2>1, <2>2, <2>3, <2>5, <2>6, <2>7, <2>9, <3>1, <3>2, <3>3
  <2> QED BY <2>10, <2>11
<1>5. Down(S, R, ends, a, b)
  <2>1. \A x \in S \ ends : \E i \in 2 .. Len(steps) : \E m \in d.nodes : x = <<i, m>>
    BY <1>2
  <2>2. \A x \in ends : b[x] = x /\ a[x] = x
    OBVIOUS
  <2>3. \A x \in S : a[x] \in S /\ b[x] \in S
    <3> HIDE DEF R, a, b
    <3> TAKE x \in S
    <3>1. CASE x \in ends
      BY <2>2, <3>1
    <3>2. CASE x \notin ends
      <4>1. PICK i \in 2 .. Len(steps), m \in d.nodes : x = <<i, m>>
        BY <2>1, <3>2
      <4> HIDE DEF S, ends
      <4> QED BY <1>4, <4>1
    <3> QED BY <3>1, <3>2
  <2>4. a \in [S -> S] /\ b \in [S -> S]
    BY <2>3
  <2>5. \A x \in S \ ends : <<a[x], x>> \in R /\ <<b[x], x>> \in R
    <3> TAKE x \in S \ ends
    <3>1. PICK i \in 2 .. Len(steps), m \in d.nodes : x = <<i, m>>
      BY <2>1
    <3> HIDE DEF S, ends, R, a, b
    <3> QED BY <1>4, <3>1
  <2> HIDE DEF S, R, ends, a, b
  <2> QED BY <2>4, <2>5 DEF Down
<1>6. {} \in V /\ G \in [S \X V \X V -> V]
  <2> HIDE DEF S, Yes
  <2> QED OBVIOUS
<1>7. PICK f \in [S -> V] : Solves(f, S, ends, {}, G, a, b)
  <2> HIDE DEF S, V, R, ends, a, b, G
  <2> QED BY <1>3, <1>5, <1>6, TwoCalls
<1> DEFINE g == [x \in S |-> f[x] # {}]
<1>8. ASSUME NEW i \in 2 .. Len(steps), NEW m \in Spots(d) PROVE g[<<i, m>>] <=> TryAt(d, steps, suits, g, i, m)
  <2>1. <<i, m>> \in S
    OBVIOUS
  <2>2. CASE m \notin d.nodes
    <3>1. f[<<i, m>>] = {}
      <4>1. <<i, m>> \in ends
        BY <2>1, <2>2
      <4> HIDE DEF S, V, ends, a, b, G
      <4> QED BY <1>7, <2>1, <4>1 DEF Solves
    <3>2. ~ g[<<i, m>>]
      BY <2>1, <3>1
    <3> QED BY <2>2, <3>2 DEF TryAt
  <2>3. CASE m \in d.nodes
    <3>1. PICK x : x = <<i, m>>
      OBVIOUS
    <3>2. PICK c : c = Css!Candidate(d, steps[i], m)
      OBVIOUS
    <3>3. PICK e : e = Css!Candidate(d, steps[i - 1], m)
      OBVIOUS
    <3>4. /\ x \in S /\ x \notin ends /\ b[x] = <<i, c>> /\ b[x] \in S /\ a[x] \in S
          /\ i # 2 => a[x] = <<i - 1, e>>
      <4> HIDE DEF S, ends, R, a, b
      <4> QED BY <1>4, <2>3, <3>1, <3>2, <3>3
    <3>5. f[x] = G[<<x, f[a[x]], f[b[x]]>>]
      <4> HIDE DEF S, V, ends, a, b, G
      <4> QED BY <1>7, <3>4 DEF Solves
    <3>6. f[x] = IF Yes(x, f[a[x]], f[b[x]]) THEN {{}} ELSE {}
      <4>1. f[a[x]] \in V /\ f[b[x]] \in V
        <5> HIDE DEF S, V, a, b
        <5> QED BY <3>4
      <4>2. \A u, v \in V : G[<<x, u, v>>] = IF Yes(x, u, v) THEN {{}} ELSE {}
        <5> HIDE DEF S, V, Yes
        <5> TAKE u \in V, v \in V
        <5>1. PICK y : y = <<x, u, v>>
          OBVIOUS
        <5>2. y \in S \X V \X V /\ y[1] = x /\ y[2] = u /\ y[3] = v
          BY <3>4, <5>1
        <5>3. G[y] = IF Yes(y[1], y[2], y[3]) THEN {{}} ELSE {}
          BY <5>2
        <5> QED BY <5>1, <5>2, <5>3
      <4> HIDE DEF S, V, Yes, G, a, b
      <4> QED BY <3>5, <4>1, <4>2
    <3>7. x[1] = i /\ x[2] = m
      BY <3>1
    <3>8. Yes(x, f[a[x]], f[b[x]])
            <=> (m \in suits[i - 1] /\ (i = 2 \/ f[a[x]] # {})) \/ (steps[i] \in Css!Loose /\ f[b[x]] # {})
      <4> HIDE DEF a, b
      <4> QED BY <3>7
    <3> HIDE DEF Yes
    <3>9. \A y \in S : g[y] <=> f[y] # {}
      <4> HIDE DEF S
      <4> QED OBVIOUS
    <3> HIDE DEF g, S, V, ends, a, b, G
    <3>10. f[x] # {} <=> Yes(x, f[a[x]], f[b[x]])
      BY <3>6
    <3>11. g[x] <=> (m \in suits[i - 1] /\ (i = 2 \/ g[a[x]])) \/ (steps[i] \in Css!Loose /\ g[b[x]])
      BY <3>4, <3>8, <3>9, <3>10
    <3>12. g[x] <=> (m \in suits[i - 1] /\ (i = 2 \/ g[<<i - 1, e>>])) \/ (steps[i] \in Css!Loose /\ g[<<i, c>>])
      BY <3>4, <3>11
    <3> QED BY <2>3, <3>1, <3>2, <3>3, <3>12 DEF TryAt
  <2> QED BY <2>2, <2>3
<1> DEFINE Body(h, at) == LET i == at[1]  m == at[2]
                          IN  /\ m \in d.nodes
                              /\ \/ m \in suits[i - 1] /\ (i = 2 \/ h[<<i - 1, Css!Candidate(d, steps[i - 1], m)>>])
                                 \/ steps[i] \in Css!Loose /\ h[<<i, Css!Candidate(d, steps[i], m)>>]
           Eq(h) == h = [at \in (2 .. Len(steps)) \X (d.nodes \cup {Css!Doc, Css!NoParent}) |-> Body(h, at)]
           w == CHOOSE h : Eq(h)
<1>9. Eq(g)
  <2>1. \A at \in S : g[at] = Body(g, at)
    <3> TAKE at \in S
    <3>0. g[at] \in BOOLEAN /\ Body(g, at) \in BOOLEAN
      OBVIOUS
    <3>1. PICK i \in 2 .. Len(steps), m \in Spots(d) : at = <<i, m>>
      BY <1>2
    <3>2. at[1] = i /\ at[2] = m
      BY <3>1
    <3>3. g[at] <=> Body(g, at)
      <4> HIDE DEF g, S
      <4> QED BY <1>8, <3>1, <3>2 DEF TryAt
    <3> HIDE DEF g, S, Body
    <3> QED BY <3>0, <3>3
  <2>2. g = [at \in S |-> g[at]]
    OBVIOUS
  <2> HIDE DEF g, Body
  <2>3. g = [at \in S |-> Body(g, at)]
    BY <2>1, <2>2
  <2> QED BY <2>3 DEF Spots
<1>10. Eq(w)
  <2> HIDE DEF Eq
  <2> QED BY <1>9
<1>11. ASSUME NEW i \in 2 .. Len(steps), NEW m \in Spots(d)
       PROVE  w[<<i, m>>] <=> TryAt(d, steps, suits, w, i, m)
  <2> HIDE DEF w
  <2>1. PICK at : at = <<i, m>>
    OBVIOUS
  <2>2. at \in (2 .. Len(steps)) \X (d.nodes \cup {Css!Doc, Css!NoParent}) /\ at[1] = i /\ at[2] = m
    BY <2>1 DEF Spots
  <2>3. w[at] = Body(w, at)
    <3> HIDE DEF Body
    <3> QED BY <1>10, <2>2
  <2>4. Body(w, at) <=> TryAt(d, steps, suits, w, i, m)
    BY <2>2 DEF TryAt
  <2> QED BY <2>1, <2>3, <2>4
<1>12. \A n : Css!MatchesFrom(d, steps, suits, n)
                = (Len(steps) = 1 \/ w[<<Len(steps), Css!Candidate(d, steps[Len(steps)], n)>>])
  BY DEF Css!MatchesFrom
<1> HIDE DEF w
<1>13. Tries(w, d, steps, suits)
  BY <1>11 DEF Tries
<1>14. \A n : Css!MatchesFrom(d, steps, suits, n)
                <=> (Len(steps) = 1 \/ w[<<Len(steps), Css!Candidate(d, steps[Len(steps)], n)>>])
  BY <1>12
<1> QED BY <1>13, <1>14

\* A way to give the first j compounds elements, the j-th of them c
Way(d, steps, suits, j, c) ==
  \E f \in [1 .. j -> Css!Elements(d)] :
    /\ f[j] = c
    /\ \A i \in 1 .. j : f[i] \in suits[i]
    /\ \A i \in 2 .. j : Css!Related(d, steps[i], f[i - 1], f[i])

LEMMA WayIs ==
  ASSUME NEW d, NEW steps, NEW suits, Css!IsChain(d, steps, suits),
         NEW j \in 1 .. Len(steps), NEW c
  PROVE  Way(d, steps, suits, j, c)
           <=> /\ c \in suits[j]
               /\ j = 1 \/ \E b \in Css!Elements(d) : /\ Css!Related(d, steps[j], b, c)
                                                      /\ Way(d, steps, suits, j - 1, b)
<1>1. Len(steps) \in Nat \ {0} /\ \A i \in 1 .. Len(steps) : suits[i] \subseteq Css!Elements(d)
  BY DEF Css!IsChain
<1>2. ASSUME Way(d, steps, suits, j, c)
      PROVE  c \in suits[j] /\ (j = 1 \/ \E b \in Css!Elements(d) : /\ Css!Related(d, steps[j], b, c)
                                                                    /\ Way(d, steps, suits, j - 1, b))
  <2>1. PICK f \in [1 .. j -> Css!Elements(d)] :
          /\ f[j] = c
          /\ \A i \in 1 .. j : f[i] \in suits[i]
          /\ \A i \in 2 .. j : Css!Related(d, steps[i], f[i - 1], f[i])
    BY <1>2 DEF Way
  <2>2. c \in suits[j]
    BY <2>1
  <2>3. ASSUME j # 1
        PROVE  \E b \in Css!Elements(d) : /\ Css!Related(d, steps[j], b, c)
                                          /\ Way(d, steps, suits, j - 1, b)
    <3>1. j - 1 \in 1 .. j /\ j \in 2 .. j /\ 1 .. j - 1 \subseteq 1 .. j /\ 2 .. j - 1 \subseteq 2 .. j
      BY <1>1, <2>3
    <3>2. f[j - 1] \in Css!Elements(d) /\ Css!Related(d, steps[j], f[j - 1], c)
      BY <2>1, <3>1
    <3> DEFINE g == [i \in 1 .. j - 1 |-> f[i]]
    <3>3. g \in [1 .. j - 1 -> Css!Elements(d)] /\ g[j - 1] = f[j - 1] /\ \A i \in 1 .. j - 1 : g[i] = f[i]
      <4>1. j - 1 \in 1 .. j - 1
        BY <3>1
      <4> QED BY <3>1, <4>1
    <3> HIDE DEF g
    <3>4. \A i \in 1 .. j - 1 : g[i] \in suits[i]
      BY <2>1, <3>1, <3>3
    <3>5. \A i \in 2 .. j - 1 : Css!Related(d, steps[i], g[i - 1], g[i])
      <4> TAKE i \in 2 .. j - 1
      <4>1. i \in 2 .. j /\ i \in 1 .. j - 1 /\ i - 1 \in 1 .. j - 1
        BY <3>1
      <4> QED BY <2>1, <3>3, <4>1
    <3>6. Way(d, steps, suits, j - 1, f[j - 1])
      BY <3>3, <3>4, <3>5 DEF Way
    <3> QED BY <3>2, <3>6
  <2> QED BY <2>2, <2>3
<1>3. ASSUME c \in suits[j], j = 1 PROVE Way(d, steps, suits, j, c)
  <2> DEFINE f == [i \in 1 .. 1 |-> c]
  <2>1. f \in [1 .. j -> Css!Elements(d)] /\ f[j] = c /\ \A i \in 1 .. j : f[i] \in suits[i]
    BY <1>1, <1>3
  <2>2. 2 .. j = {}
    BY <1>3
  <2> HIDE DEF f
  <2> QED BY <2>1, <2>2 DEF Way
<1>4. ASSUME c \in suits[j], NEW b \in Css!Elements(d), Css!Related(d, steps[j], b, c), Way(d, steps, suits, j - 1, b), j # 1
      PROVE  Way(d, steps, suits, j, c)
  <2>1. PICK g \in [1 .. j - 1 -> Css!Elements(d)] :
          /\ g[j - 1] = b
          /\ \A i \in 1 .. j - 1 : g[i] \in suits[i]
          /\ \A i \in 2 .. j - 1 : Css!Related(d, steps[i], g[i - 1], g[i])
    BY <1>4 DEF Way
  <2> DEFINE f == [i \in 1 .. j |-> IF i = j THEN c ELSE g[i]]
  <2>2. j \in Nat /\ j \in 1 .. j /\ j - 1 \in 1 .. j - 1 /\ 1 .. j = (1 .. j - 1) \cup {j} /\ j \notin 1 .. j - 1
    BY <1>1, <1>4
  <2>3. c \in Css!Elements(d)
    BY <1>1, <1>4
  <2>4. f \in [1 .. j -> Css!Elements(d)] /\ f[j] = c /\ \A i \in 1 .. j - 1 : f[i] = g[i]
    BY <2>1, <2>2, <2>3
  <2> HIDE DEF f
  <2>5. \A i \in 1 .. j : f[i] \in suits[i]
    BY <1>4, <2>1, <2>2, <2>4
  <2>6. ASSUME NEW i \in 2 .. j PROVE Css!Related(d, steps[i], f[i - 1], f[i])
    <3>1. CASE i = j
      <4>1. f[i - 1] = b
        BY <2>1, <2>2, <2>4, <3>1
      <4> QED BY <1>4, <2>4, <3>1, <4>1
    <3>2. CASE i # j
      <4>1. i \in 2 .. j - 1 /\ i \in 1 .. j - 1 /\ i - 1 \in 1 .. j - 1
        BY <2>2, <3>2
      <4> QED BY <2>1, <2>4, <4>1
    <3> QED BY <3>1, <3>2
  <2> QED BY <2>4, <2>5, <2>6 DEF Way
<1> QED BY <1>2, <1>3, <1>4

\* A search has an answer of yes where a candidate, there or beyond, ends a way.
LEMMA TriesFind ==
  ASSUME NEW d, Css!IsDocument(d), NEW steps, NEW suits, Css!IsChain(d, steps, suits),
         NEW w, Tries(w, d, steps, suits)
  PROVE  \A i \in 2 .. Len(steps) : \A m \in Spots(d) :
           w[<<i, m>>] <=> \E b \in From(d, steps[i], m) : Way(d, steps, suits, i - 1, b)
<1> DEFINE Good(i, m) == w[<<i, m>>] <=> \E b \in From(d, steps[i], m) : Way(d, steps, suits, i - 1, b)
           Bad == {x \in (2 .. Len(steps)) \X Spots(d) : ~ Good(x[1], x[2])}
           N == {x[1] + x[2] : x \in Bad}
<1>1. /\ Len(steps) \in Nat \ {0} /\ Spots(d) \subseteq Int /\ \A m \in Spots(d) : m >= -1
      /\ d.nodes \subseteq Spots(d) /\ Css!Elements(d) \subseteq d.nodes
      /\ \A i \in 2 .. Len(steps) : steps[i] \in Css!Joins
      /\ \A i \in 1 .. Len(steps) : suits[i] \subseteq Css!Elements(d)
  BY DEF Css!IsChain, Css!IsDocument, Spots, Css!Doc, Css!NoParent, Css!Elements
<1>2. \A x \in Bad : /\ x[1] \in 2 .. Len(steps) /\ x[2] \in Spots(d) /\ ~ Good(x[1], x[2])
                     /\ x[1] + x[2] \in Nat
  <2> HIDE DEF Good
  <2> TAKE x \in Bad
  <2>1. x[1] \in 2 .. Len(steps) /\ x[2] \in Spots(d) /\ ~ Good(x[1], x[2])
    OBVIOUS
  <2>2. x[1] + x[2] \in Nat
    BY <1>1, <2>1
  <2> QED BY <2>1, <2>2
<1> SUFFICES ASSUME Bad # {} PROVE FALSE
  <2>1. \A i \in 2 .. Len(steps) : \A m \in Spots(d) : Good(i, m)
    <3> HIDE DEF Good
    <3> TAKE i \in 2 .. Len(steps)
    <3> TAKE m \in Spots(d)
    <3>1. PICK x : x = <<i, m>>
      OBVIOUS
    <3>2. x \in (2 .. Len(steps)) \X Spots(d) /\ x[1] = i /\ x[2] = m
      BY <3>1
    <3> QED BY <3>2
  <2> QED BY <2>1
<1>3. PICK x \in Bad : \A y \in Bad : x[1] + x[2] <= y[1] + y[2]
  <2>1. N \in SUBSET Nat /\ N # {}
    <3> HIDE DEF Bad
    <3> QED BY <1>2
  <2>2. PICK k \in N : \A j \in N : k <= j
    <3> HIDE DEF N, Bad
    <3> QED BY <2>1, Smallest
  <2>3. PICK x \in Bad : k = x[1] + x[2]
    <3> HIDE DEF Bad
    <3> QED OBVIOUS
  <2>4. \A y \in Bad : k <= y[1] + y[2]
    <3> HIDE DEF Bad
    <3> QED BY <2>2
  <2> HIDE DEF Bad
  <2> QED BY <2>3, <2>4
<1>4. PICK i \in 2 .. Len(steps), m \in Spots(d) : i = x[1] /\ m = x[2]
  <2> HIDE DEF Bad, Good
  <2> QED BY <1>2
<1>5. ~ Good(i, m)
  <2> HIDE DEF Bad, Good
  <2> QED BY <1>2, <1>4
<1>6. ASSUME NEW j \in 2 .. Len(steps), NEW o \in Spots(d), j + o < i + m PROVE Good(j, o)
  <2>1. PICK y : y = <<j, o>>
    OBVIOUS
  <2>2. y \in (2 .. Len(steps)) \X Spots(d) /\ y[1] = j /\ y[2] = o
    BY <2>1
  <2>3. y \notin Bad
    <3>1. j \in Int /\ o \in Int /\ i \in Int /\ m \in Int
      BY <1>1
    <3> HIDE DEF Bad
    <3> QED BY <1>3, <1>4, <1>6, <2>2, <3>1
  <2> HIDE DEF Good
  <2> QED BY <2>2, <2>3
<1> HIDE DEF Bad
<1>7. w[<<i, m>>] <=> TryAt(d, steps, suits, w, i, m)
  BY DEF Tries
<1>8. m \in d.nodes
  BY <1>5, <1>7 DEF TryAt, From
<1>9. i \in Int /\ m \in Int /\ i - 1 \in 1 .. Len(steps) /\ (i # 2 => i - 1 \in 2 .. Len(steps))
  BY <1>1
<1>10. m \in suits[i - 1] /\ (i = 2 \/ w[<<i - 1, Css!Candidate(d, steps[i - 1], m)>>])
         <=> Way(d, steps, suits, i - 1, m)
  <2>1. Way(d, steps, suits, i - 1, m)
           <=> /\ m \in suits[i - 1]
               /\ i - 1 = 1 \/ \E b \in Css!Elements(d) : /\ Css!Related(d, steps[i - 1], b, m)
                                                          /\ Way(d, steps, suits, i - 1 - 1, b)
    BY <1>9, WayIs
  <2>2. CASE i = 2
    BY <2>1, <2>2
  <2>3. CASE i # 2
    <3> DEFINE e == Css!Candidate(d, steps[i - 1], m)
    <3>1. e \in Spots(d) /\ e < m /\ steps[i - 1] \in Css!Joins
      BY <1>1, <1>8, <1>9, <2>3, CandidateIs
    <3>2. Good(i - 1, e)
      <4>1. i - 1 + e < i + m
        BY <1>1, <1>9, <3>1
      <4> HIDE DEF Good, e
      <4> QED BY <1>6, <1>9, <2>3, <3>1, <4>1
    <3>3. \A b \in Css!Elements(d) : Css!Related(d, steps[i - 1], b, m) <=> b \in From(d, steps[i - 1], e)
      BY <1>8, <3>1, RelatedIs
    <3>4. \A b : Way(d, steps, suits, i - 1 - 1, b) => b \in Css!Elements(d)
      <4>1. i - 1 - 1 \in 1 .. Len(steps)
        BY <1>9, <2>3
      <4> QED BY <1>1, <4>1, WayIs
    <3> HIDE DEF e
    <3>5. w[<<i - 1, e>>]
            <=> \E b \in Css!Elements(d) : Css!Related(d, steps[i - 1], b, m) /\ Way(d, steps, suits, i - 1 - 1, b)
      BY <3>2, <3>3, <3>4
    <3> QED BY <1>9, <2>1, <2>3, <3>5 DEF e
  <2> QED BY <2>2, <2>3
<1>11. steps[i] \in Css!Loose
         => (w[<<i, Css!Candidate(d, steps[i], m)>>]
               <=> \E b \in Css!Elements(d) : Css!Related(d, steps[i], b, m) /\ Way(d, steps, suits, i - 1, b))
  <2> DEFINE c == Css!Candidate(d, steps[i], m)
  <2>1. c \in Spots(d) /\ c < m /\ steps[i] \in Css!Joins
    BY <1>1, <1>8, CandidateIs
  <2>2. Good(i, c)
    <3>1. i + c < i + m
      BY <1>1, <1>9, <2>1
    <3> HIDE DEF Good, c
    <3> QED BY <1>6, <2>1, <3>1
  <2>3. \A b \in Css!Elements(d) : Css!Related(d, steps[i], b, m) <=> b \in From(d, steps[i], c)
    BY <1>8, <2>1, RelatedIs
  <2>4. \A b : Way(d, steps, suits, i - 1, b) => b \in Css!Elements(d)
    BY <1>1, <1>9, WayIs
  <2> HIDE DEF c
  <2>5. w[<<i, c>>] <=> \E b \in Css!Elements(d) : Css!Related(d, steps[i], b, m) /\ Way(d, steps, suits, i - 1, b)
    BY <2>2, <2>3, <2>4
  <2> QED BY <2>5 DEF c
<1>12. w[<<i, m>>] <=> \/ Way(d, steps, suits, i - 1, m)
                       \/ /\ steps[i] \in Css!Loose
                          /\ \E b \in Css!Elements(d) : Css!Related(d, steps[i], b, m) /\ Way(d, steps, suits, i - 1, b)
  BY <1>7, <1>8, <1>10, <1>11 DEF TryAt
<1>13. \A b : Way(d, steps, suits, i - 1, b) => b \in Css!Elements(d) /\ b \in d.nodes
  BY <1>1, <1>9, WayIs
<1>14. Good(i, m)
  BY <1>8, <1>12, <1>13 DEF From
<1> QED BY <1>5, <1>14

(* Trying candidates one by one from the right, matches_from and selector_matches of the   *)
(* css crate find a way to give each compound of a selector an element if there is one:    *)
(* for every document, chain and element.                                                  *)
THEOREM MatchingIsComplete ==
  ASSUME NEW d, Css!IsDocument(d), NEW steps, NEW suits, Css!IsChain(d, steps, suits),
         NEW n \in d.nodes
  PROVE  Css!ChainMatches(d, steps, suits, n) <=> Css!Assigned(d, steps, suits, n)
<1> DEFINE k == Len(steps)
<1>1. k \in Nat \ {0} /\ k \in 1 .. k /\ \A i \in 2 .. k : steps[i] \in Css!Joins
  BY DEF Css!IsChain
<1>2. Css!Assigned(d, steps, suits, n) <=> Way(d, steps, suits, k, n)
  BY DEF Css!Assigned, Way
<1>3. PICK w : /\ Tries(w, d, steps, suits)
               /\ \A o : Css!MatchesFrom(d, steps, suits, o)
                           <=> (k = 1 \/ w[<<k, Css!Candidate(d, steps[k], o)>>])
  BY MatchWalks
<1>4. Way(d, steps, suits, k, n)
        <=> /\ n \in suits[k]
            /\ k = 1 \/ \E b \in Css!Elements(d) : /\ Css!Related(d, steps[k], b, n)
                                                   /\ Way(d, steps, suits, k - 1, b)
  BY <1>1, WayIs
<1>5. CASE k = 1
  BY <1>2, <1>3, <1>4, <1>5 DEF Css!ChainMatches
<1>6. CASE k # 1
  <2> DEFINE c == Css!Candidate(d, steps[k], n)
  <2>1. k \in 2 .. k /\ k - 1 \in 1 .. k /\ steps[k] \in Css!Joins /\ c \in Spots(d)
    <3>1. k \in 2 .. k /\ k - 1 \in 1 .. k
      <4> HIDE DEF k, c
      <4>1. k \in Nat /\ k # 0 /\ k # 1
        BY <1>1, <1>6
      <4> QED BY <4>1
    <3>2. c \in Spots(d)
      BY CandidateIs
    <3> HIDE DEF k, c
    <3> QED BY <1>1, <3>1, <3>2
  <2>2. w[<<k, c>>] <=> \E b \in From(d, steps[k], c) : Way(d, steps, suits, k - 1, b)
    <3> HIDE DEF c
    <3> QED BY <1>3, <2>1, TriesFind
  <2>3. \A b \in Css!Elements(d) : Css!Related(d, steps[k], b, n) <=> b \in From(d, steps[k], c)
    BY <2>1, RelatedIs
  <2>4. \A b : Way(d, steps, suits, k - 1, b) => b \in Css!Elements(d)
    <3>1. \A b : Way(d, steps, suits, k - 1, b) => b \in suits[k - 1]
      BY <2>1, WayIs
    <3> QED BY <2>1, <3>1 DEF Css!IsChain
  <2> HIDE DEF c
  <2>5. w[<<k, c>>] <=> \E b \in Css!Elements(d) : Css!Related(d, steps[k], b, n) /\ Way(d, steps, suits, k - 1, b)
    BY <2>2, <2>3, <2>4
  <2>6. Css!MatchesFrom(d, steps, suits, n) <=> w[<<k, c>>]
    BY <1>3, <1>6 DEF c
  <2> QED BY <1>2, <1>4, <1>6, <2>5, <2>6 DEF Css!ChainMatches
<1> QED BY <1>5, <1>6

-----------------------------------------------------------------------------
(* Placement                                                               *)

Grids == INSTANCE Placement

Place == [row : Nat \ {0}, col : Nat \ {0}, rows : Nat \ {0}, cols : Nat \ {0}]
Sized(item, columns) == item.rows \in Nat \ {0} /\ item.cols \in 1 .. columns

\* What is taken ends at some row.
Bounded(taken) == \E B \in Nat : \A r, c \in Nat : r > B => <<r, c>> \notin taken

\* A walk over the cells ends where the item crosses no edge and covers nothing that is taken.
Ends(at, item, columns, taken) == /\ ~ Grids!Crosses(at, item, columns)
                                  /\ Grids!Cells(Grids!PlaceAt(at, item)) \cap taken = {}
Nowhere == <<0, 0>>
Step(at, item, columns, taken) ==
  IF at = Nowhere \/ Ends(at, item, columns, taken) THEN Nowhere
  ELSE IF Grids!Crosses(at, item, columns) THEN <<at[1] + 1, 1>> ELSE <<at[1], at[2] + 1>>

StepsOf(item, columns, taken) ==
  {<<Step(at, item, columns, taken), at>> : at \in Grids!GridCells}

\* A cell is its row and its column, and is somewhere.
LEMMA CellIs ==
  ASSUME NEW at \in Grids!GridCells
  PROVE  /\ at[1] \in Nat \ {0} /\ at[2] \in Nat \ {0} /\ at = <<at[1], at[2]>> /\ at # Nowhere
BY DEF Grids!GridCells, Nowhere

\* The cells an item has when it is placed at a cell.
LEMMA CellsAre ==
  ASSUME NEW at \in Grids!GridCells, NEW item, item.rows \in Nat \ {0}, item.cols \in Nat \ {0}, NEW x
  PROVE  x \in Grids!Cells(Grids!PlaceAt(at, item)) <=>
           \E r \in at[1] .. at[1] + item.rows - 1, c \in at[2] .. at[2] + item.cols - 1 : x = <<r, c>>
BY DEF Grids!Cells, Grids!PlaceAt

\* Where a walk goes next: nowhere, to the next row, or one column on.
LEMMA StepIs ==
  ASSUME NEW at \in Grids!GridCells, NEW item, NEW columns, NEW taken
  PROVE  /\ Step(at, item, columns, taken) \in Grids!GridCells \cup {Nowhere}
         /\ Ends(at, item, columns, taken) => Step(at, item, columns, taken) = Nowhere
         /\ Grids!Crosses(at, item, columns) => Step(at, item, columns, taken) = <<at[1] + 1, 1>>
         /\ ~ Grids!Crosses(at, item, columns) /\ ~ Ends(at, item, columns, taken) =>
              Step(at, item, columns, taken) = <<at[1], at[2] + 1>>
<1>1. at[1] \in Nat \ {0} /\ at[2] \in Nat \ {0} /\ at # Nowhere
  BY CellIs
<1>2. <<at[1] + 1, 1>> \in Grids!GridCells /\ <<at[1], at[2] + 1>> \in Grids!GridCells
  BY <1>1 DEF Grids!GridCells
<1> QED BY <1>1, <1>2 DEF Step, Ends

\* Below what is taken, the first row has room.
LEMMA RoomBelow ==
  ASSUME NEW columns \in Nat \ {0}, NEW item, Sized(item, columns), NEW taken, NEW B \in Nat,
         \A r, c \in Nat : r > B => <<r, c>> \notin taken,
         NEW at \in Grids!GridCells, at[1] > B
  PROVE  ~ Grids!Crosses(at, item, columns) => Ends(at, item, columns, taken)
<1>1. at[1] \in Nat \ {0} /\ at[2] \in Nat \ {0} /\ item.rows \in Nat \ {0} /\ item.cols \in Nat \ {0}
  BY CellIs DEF Sized
<1>2. ASSUME NEW x, x \in Grids!Cells(Grids!PlaceAt(at, item)) PROVE x \notin taken
  <2>1. PICK r \in at[1] .. at[1] + item.rows - 1, c \in at[2] .. at[2] + item.cols - 1 : x = <<r, c>>
    BY <1>1, <1>2, CellsAre
  <2>2. r \in Nat /\ c \in Nat /\ r > B
    BY <1>1, <2>1
  <2> QED BY <2>1, <2>2
<1> QED BY <1>2 DEF Ends

\* It does so: no row is left before its end, and below what is taken the walk ends.
LEMMA WalksDown ==
  ASSUME NEW columns \in Nat \ {0}, NEW item, Sized(item, columns), NEW taken, Bounded(taken)
  PROVE  Grounded(Grids!GridCells \cup {Nowhere}, StepsOf(item, columns, taken))
<1> DEFINE S == Grids!GridCells \cup {Nowhere}
           R == StepsOf(item, columns, taken)
           Onto(at) == Step(at, item, columns, taken)
<1> item.cols \in 1 .. columns
  BY DEF Sized
<1> SUFFICES ASSUME NEW T \in SUBSET S, T # {}
    PROVE  \E x \in T : \A y \in T : <<y, x>> \notin R
  BY DEF Grounded
<1>1. \A x, y : <<y, x>> \in R => x \in Grids!GridCells /\ y = Onto(x)
  <2> SUFFICES ASSUME NEW x, NEW y, <<y, x>> \in R PROVE x \in Grids!GridCells /\ y = Onto(x)
    OBVIOUS
  <2>1. PICK at \in Grids!GridCells : <<y, x>> = <<Onto(at), at>>
    BY DEF StepsOf
  <2> HIDE DEF Onto
  <2> QED BY <2>1
<1>2. PICK B \in Nat : \A r, c \in Nat : r > B => <<r, c>> \notin taken
  BY DEF Bounded
<1>3. ASSUME Nowhere \in T PROVE \E x \in T : \A y \in T : <<y, x>> \notin R
  BY <1>1, <1>3, CellIs
<1>4. ASSUME Nowhere \notin T, NEW x \in T, x[1] > B PROVE \E z \in T : \A y \in T : <<y, z>> \notin R
  <2> HIDE DEF R, Onto
  <2>1. \A z \in T : z[1] > B /\ ~ Grids!Crosses(z, item, columns) => \A y \in T : <<y, z>> \notin R
    <3> SUFFICES ASSUME NEW z \in T, z[1] > B, ~ Grids!Crosses(z, item, columns), NEW y \in T, <<y, z>> \in R
        PROVE  FALSE
      OBVIOUS
    <3>1. Ends(z, item, columns, taken) /\ z \in Grids!GridCells
      BY <1>1, <1>2, RoomBelow
    <3>2. Onto(z) = Nowhere
      BY <3>1, StepIs DEF Onto
    <3> QED BY <1>1, <1>4, <3>2
  <2>2. CASE ~ Grids!Crosses(x, item, columns)
    BY <1>4, <2>1, <2>2
  <2>3. CASE Grids!Crosses(x, item, columns)
    <3>1. x \in Grids!GridCells /\ Onto(x) = <<x[1] + 1, 1>>
      BY <1>4, <2>3, StepIs DEF Onto
    <3>2. CASE <<x[1] + 1, 1>> \notin T
      BY <1>1, <3>1, <3>2
    <3>3. CASE <<x[1] + 1, 1>> \in T
      <4>1. PICK z : z = <<x[1] + 1, 1>>
        OBVIOUS
      <4>2. z \in T /\ z[1] > B /\ z[2] = 1
        BY <1>4, <3>1, <3>3, <4>1, CellIs
      <4>3. ~ Grids!Crosses(z, item, columns)
        BY <4>2 DEF Grids!Crosses
      <4> QED BY <2>1, <4>2, <4>3
    <3> QED BY <3>2, <3>3
  <2> QED BY <2>2, <2>3
<1>5. ASSUME Nowhere \notin T, \A x \in T : x[1] <= B PROVE \E z \in T : \A y \in T : <<y, z>> \notin R
  <2> HIDE DEF R, Onto
  <2> DEFINE Left == {B - x[1] : x \in T}
  <2>1. T \subseteq Grids!GridCells
    BY <1>5
  <2>2. Left \in SUBSET Nat /\ Left # {}
    <3>1. \A x \in T : B - x[1] \in Nat
      BY <1>5, <2>1, CellIs
    <3> QED BY <3>1
  <2>3. PICK n \in Left : \A m \in Left : n <= m
    <3> HIDE DEF Left
    <3> QED BY <2>2, Smallest
  <2>4. PICK x \in T : n = B - x[1]
    BY <2>3
  <2>5. \A y \in T : y[1] <= x[1]
    <3> TAKE y \in T
    <3>1. n <= B - y[1]
      BY <2>3
    <3>2. x[1] \in Nat /\ y[1] \in Nat
      BY <2>1, CellIs
    <3> QED BY <2>4, <3>1, <3>2
  <2> DEFINE Crossing == {y \in T : y[1] = x[1] /\ Grids!Crosses(y, item, columns)}
  <2>6. CASE Crossing # {}
    <3>1. PICK z \in T : z[1] = x[1] /\ Grids!Crosses(z, item, columns)
      BY <2>6
    <3>2. Onto(z) = <<z[1] + 1, 1>> /\ z[1] \in Nat
      BY <2>1, <3>1, StepIs, CellIs DEF Onto
    <3>3. Onto(z) \notin T
      <4>1. PICK y : y = <<z[1] + 1, 1>>
        OBVIOUS
      <4>2. y[1] > x[1]
        BY <3>1, <3>2, <4>1
      <4>3. y \in T => y[1] <= x[1] /\ y[1] \in Nat /\ x[1] \in Nat
        BY <2>1, <2>5, CellIs
      <4> QED BY <3>2, <4>1, <4>2, <4>3
    <3> QED BY <1>1, <3>3
  <2>7. CASE Crossing = {}
    <3> DEFINE Rest == {columns - y[2] : y \in {y \in T : y[1] = x[1]}}
    <3>1. \A y \in T : y[1] = x[1] => columns - y[2] \in Nat
      <4> TAKE y \in T
      <4> HAVE y[1] = x[1]
      <4>1. ~ Grids!Crosses(y, item, columns)
        BY <2>7
      <4>2. y[2] \in Nat \ {0}
        BY <2>1, CellIs
      <4> QED BY <4>1, <4>2 DEF Grids!Crosses
    <3>2. Rest \in SUBSET Nat /\ Rest # {}
      BY <3>1
    <3>3. PICK m \in Rest : \A k \in Rest : m <= k
      <4> HIDE DEF Rest
      <4> QED BY <3>2, Smallest
    <3>4. PICK z \in T : z[1] = x[1] /\ m = columns - z[2]
      BY <3>3
    <3>5. \A y \in T : y[1] = x[1] => y[2] <= z[2]
      <4> TAKE y \in T
      <4> HAVE y[1] = x[1]
      <4>1. m <= columns - y[2]
        BY <3>3
      <4>2. y[2] \in Nat /\ z[2] \in Nat
        BY <2>1, CellIs
      <4> QED BY <3>4, <4>1, <4>2
    <3>6. ~ Grids!Crosses(z, item, columns)
      BY <2>7, <3>4
    <3>7. ASSUME NEW y \in T, <<y, z>> \in R PROVE FALSE
      <4>1. z \in Grids!GridCells /\ y = Onto(z) /\ y # Nowhere /\ z[1] \in Nat /\ z[2] \in Nat
        BY <1>1, <1>5, <3>7, <2>1, CellIs
      <4>2. y = <<z[1], z[2] + 1>>
        BY <3>6, <4>1, StepIs DEF Onto
      <4>3. y[1] = x[1] /\ y[2] = z[2] + 1
        BY <3>4, <4>2
      <4>4. y[2] <= z[2]
        BY <3>5, <4>3
      <4> QED BY <4>1, <4>3, <4>4
    <3> QED BY <3>7
  <2> QED BY <2>6, <2>7
<1> QED
  <2>1. CASE Nowhere \in T
    BY <1>3, <2>1
  <2>2. CASE Nowhere \notin T
    <3>1. \A x \in T : x[1] \in Nat
      BY <2>2, CellIs
    <3>2. (\E x \in T : x[1] > B) \/ (\A x \in T : x[1] <= B)
      BY <3>1
    <3> HIDE DEF R, Onto
    <3> QED BY <2>2, <3>2, <1>4, <1>5
  <2> QED BY <2>1, <2>2

\* The order in which a walk passes the cells
NotAfter(at, c) == at[1] < c[1] \/ (at[1] = c[1] /\ at[2] <= c[2])

FirstFree(e, at, item, columns, taken) ==
  /\ e \in Grids!GridCells /\ Ends(e, item, columns, taken) /\ NotAfter(at, e)
  /\ \A c \in Grids!GridCells : NotAfter(at, c) /\ Ends(c, item, columns, taken) => NotAfter(e, c)

\* What the walk comes to is the first cell from where it starts that has room.
LEMMA FreePlaceIs ==
  ASSUME NEW columns \in Nat \ {0}, NEW item, Sized(item, columns), NEW taken, Bounded(taken),
         NEW at \in Grids!GridCells
  PROVE  \E e : FirstFree(e, at, item, columns, taken)
                /\ Grids!FreePlace(at, item, columns, taken) = Grids!PlaceAt(e, item)
<1> DEFINE S == Grids!GridCells \cup {Nowhere}
           R == StepsOf(item, columns, taken)
           Over(x) == x = Nowhere \/ Ends(x, item, columns, taken)
           P(x) == Grids!PlaceAt(x, item)
           V == {P(x) : x \in S}
           a == [x \in S |-> Step(x, item, columns, taken)]
           G == [y \in S \X V \X V |-> IF Over(y[1]) THEN P(y[1]) ELSE y[2]]
<1>1. Grounded(S, R)
  BY WalksDown
<1>2. \A x \in S : a[x] \in S
  <2> TAKE x \in S
  <2>1. CASE x = Nowhere
    BY <2>1 DEF Step
  <2>2. CASE x \in Grids!GridCells
    BY <2>2, StepIs
  <2> QED BY <2>1, <2>2
<1>3. Down(S, R, {Nowhere}, a, a)
  <2>1. a \in [S -> S]
    BY <1>2
  <2>2. ASSUME NEW x \in S \ {Nowhere} PROVE <<a[x], x>> \in R
    BY DEF StepsOf
  <2> HIDE DEF S, R, a
  <2> QED BY <2>1, <2>2 DEF Down
<1>4. P(Nowhere) \in V
  OBVIOUS
<1>5. G \in [S \X V \X V -> V]
  <2>1. ASSUME NEW y \in S \X V \X V PROVE G[y] \in V
    <3>1. y[1] \in S /\ y[2] \in V
      OBVIOUS
    <3>2. P(y[1]) \in V
      BY <3>1
    <3> HIDE DEF S, V, P, Over
    <3> QED BY <3>1, <3>2
  <2> HIDE DEF S, V, P, Over
  <2> QED BY <2>1
<1>6. PICK f \in [S -> V] : Solves(f, S, {Nowhere}, P(Nowhere), G, a, a)
  <2> HIDE DEF S, V, R, a, G, P
  <2> QED BY <1>1, <1>3, <1>4, <1>5, TwoCalls
<1>7. \A x \in Grids!GridCells : f[x] = IF Ends(x, item, columns, taken) THEN P(x) ELSE f[Step(x, item, columns, taken)]
  <2> TAKE x \in Grids!GridCells
  <2>1. x \in S /\ x # Nowhere
    BY CellIs
  <2>2. f[x] = G[<<x, f[a[x]], f[a[x]]>>] /\ a[x] \in S /\ a[x] = Step(x, item, columns, taken)
    <3>1. a[x] \in S /\ a[x] = Step(x, item, columns, taken)
      BY <1>2, <2>1
    <3> HIDE DEF S, V, G, a, P
    <3> QED BY <1>6, <2>1, <3>1 DEF Solves
  <2>3. <<x, f[a[x]], f[a[x]]>> \in S \X V \X V
    <3> HIDE DEF S, V, G, a, P
    <3> QED BY <2>1, <2>2
  <2>4. G[<<x, f[a[x]], f[a[x]]>>] = IF Over(x) THEN P(x) ELSE f[a[x]]
    <3> HIDE DEF S, V, a, P, Over
    <3> QED BY <2>3
  <2> HIDE DEF S, V, G, a, P
  <2> QED BY <2>1, <2>2, <2>4
<1> DEFINE Eq(g) == g = [x \in Grids!GridCells |->
                          IF Grids!Crosses(x, item, columns) THEN g[<<x[1] + 1, 1>>]
                          ELSE IF Grids!Cells(Grids!PlaceAt(x, item)) \cap taken # {} THEN g[<<x[1], x[2] + 1>>]
                          ELSE Grids!PlaceAt(x, item)]
           h == [x \in Grids!GridCells |-> f[x]]
           w == CHOOSE g : Eq(g)
<1>8. Eq(h)
  <2>1. ASSUME NEW x \in Grids!GridCells
        PROVE  h[x] = IF Grids!Crosses(x, item, columns) THEN h[<<x[1] + 1, 1>>]
                      ELSE IF Grids!Cells(Grids!PlaceAt(x, item)) \cap taken # {} THEN h[<<x[1], x[2] + 1>>]
                      ELSE Grids!PlaceAt(x, item)
    <3>1. <<x[1] + 1, 1>> \in Grids!GridCells /\ <<x[1], x[2] + 1>> \in Grids!GridCells
      BY CellIs DEF Grids!GridCells
    <3>2. h[x] = IF Ends(x, item, columns, taken) THEN P(x) ELSE f[Step(x, item, columns, taken)]
      BY <1>7
    <3>3. h[<<x[1] + 1, 1>>] = f[<<x[1] + 1, 1>>] /\ h[<<x[1], x[2] + 1>>] = f[<<x[1], x[2] + 1>>]
      BY <3>1
    <3> HIDE DEF h
    <3> QED BY <3>2, <3>3, StepIs DEF Ends
  <2> DEFINE k == [x \in Grids!GridCells |->
                    IF Grids!Crosses(x, item, columns) THEN h[<<x[1] + 1, 1>>]
                    ELSE IF Grids!Cells(Grids!PlaceAt(x, item)) \cap taken # {} THEN h[<<x[1], x[2] + 1>>]
                    ELSE Grids!PlaceAt(x, item)]
  <2>2. \A x \in Grids!GridCells : h[x] = k[x]
    <3> HIDE DEF h
    <3> QED BY <2>1
  <2>3. h = [x \in Grids!GridCells |-> h[x]] /\ k = [x \in Grids!GridCells |-> k[x]]
    OBVIOUS
  <2> HIDE DEF h, k
  <2>4. h = k
    BY <2>2, <2>3
  <2> QED BY <2>4 DEF k
<1>9. Eq(w)
  <2> HIDE DEF Eq, h
  <2> QED BY <1>8
<1>10. Grids!FreePlace(at, item, columns, taken) = w[at]
  BY DEF Grids!FreePlace
<1>11. \A x \in Grids!GridCells : w[x] = IF Ends(x, item, columns, taken) THEN P(x) ELSE w[Step(x, item, columns, taken)]
  <2> TAKE x \in Grids!GridCells
  <2>1. w[x] = IF Grids!Crosses(x, item, columns) THEN w[<<x[1] + 1, 1>>]
               ELSE IF Grids!Cells(Grids!PlaceAt(x, item)) \cap taken # {} THEN w[<<x[1], x[2] + 1>>]
               ELSE Grids!PlaceAt(x, item)
    <3> HIDE DEF w
    <3> QED BY <1>9
  <2> HIDE DEF w
  <2> QED BY <2>1, StepIs DEF Ends
<1> HIDE DEF w, Eq, h, P
<1> DEFINE Done(x) == \E e : FirstFree(e, x, item, columns, taken) /\ w[x] = P(e)
<1>12. ASSUME NEW x \in Grids!GridCells, Ends(x, item, columns, taken) PROVE Done(x)
  <2>1. w[x] = P(x)
    BY <1>11, <1>12
  <2>2. NotAfter(x, x)
    BY CellIs DEF NotAfter
  <2>3. FirstFree(x, x, item, columns, taken)
    BY <1>12, <2>2 DEF FirstFree
  <2> QED BY <2>1, <2>3
<1>13. ASSUME NEW x \in Grids!GridCells, ~ Ends(x, item, columns, taken),
              NEW y \in Grids!GridCells, y = Step(x, item, columns, taken), Done(y)
       PROVE  Done(x)
  <2>1. PICK e : FirstFree(e, y, item, columns, taken) /\ w[y] = P(e)
    BY <1>13
  <2>2. w[x] = P(e)
    BY <1>11, <1>13, <2>1
  <2>3. x[1] \in Nat /\ x[2] \in Nat /\ y[1] \in Nat /\ y[2] \in Nat /\ e[1] \in Nat /\ e[2] \in Nat
    BY <2>1, CellIs DEF FirstFree
  <2>4. \/ Grids!Crosses(x, item, columns) /\ y[1] = x[1] + 1 /\ y[2] = 1
        \/ ~ Grids!Crosses(x, item, columns) /\ y[1] = x[1] /\ y[2] = x[2] + 1
    BY <1>13, StepIs
  <2>5. NotAfter(x, e)
    BY <2>1, <2>3, <2>4 DEF NotAfter, FirstFree
  <2>6. ASSUME NEW c \in Grids!GridCells, NotAfter(x, c), Ends(c, item, columns, taken) PROVE NotAfter(e, c)
    <3>1. c[1] \in Nat \ {0} /\ c[2] \in Nat \ {0} /\ c = <<c[1], c[2]>> /\ x = <<x[1], x[2]>>
      BY CellIs
    <3>2. NotAfter(y, c)
      <4>1. CASE Grids!Crosses(x, item, columns) /\ y[1] = x[1] + 1 /\ y[2] = 1
        <5>1. c[1] # x[1]
          <6> SUFFICES ASSUME c[1] = x[1] PROVE FALSE
            OBVIOUS
          <6>1. x[2] <= c[2]
            BY <2>3, <2>6, <3>1 DEF NotAfter
          <6>2. Grids!Crosses(c, item, columns)
            BY <2>3, <3>1, <4>1, <6>1 DEF Grids!Crosses, Sized
          <6> QED BY <2>6, <6>2 DEF Ends
        <5> QED BY <2>3, <2>6, <3>1, <4>1, <5>1 DEF NotAfter
      <4>2. CASE y[1] = x[1] /\ y[2] = x[2] + 1
        <5>1. c # x
          BY <1>13, <2>6
        <5>2. c[1] # x[1] \/ c[2] # x[2]
          BY <3>1, <5>1
        <5> QED BY <2>3, <2>6, <3>1, <4>2, <5>2 DEF NotAfter
      <4> QED BY <2>4, <4>1, <4>2
    <3> QED BY <2>1, <2>6, <3>2 DEF FirstFree
  <2>7. FirstFree(e, x, item, columns, taken)
    BY <2>1, <2>5, <2>6 DEF FirstFree
  <2> QED BY <2>2, <2>7
<1>14. \A x \in Grids!GridCells : Done(x)
  <2> DEFINE Bad == {x \in Grids!GridCells : ~ Done(x)}
  <2> HIDE DEF Done
  <2> SUFFICES ASSUME Bad # {} PROVE FALSE
    OBVIOUS
  <2>1. PICK x \in Bad : \A y \in Bad : <<y, x>> \notin R
    <3>1. Bad \in SUBSET S
      OBVIOUS
    <3> HIDE DEF Bad, S, R
    <3> QED BY <1>1, <3>1 DEF Grounded
  <2>2. ~ Ends(x, item, columns, taken) /\ x \in Grids!GridCells
    BY <1>12, <2>1
  <2>3. PICK y : y = Step(x, item, columns, taken)
    OBVIOUS
  <2>4. <<y, x>> \in R
    BY <2>2, <2>3 DEF StepsOf
  <2>5. y \in Grids!GridCells
    <3>1. <<x[1] + 1, 1>> \in Grids!GridCells /\ <<x[1], x[2] + 1>> \in Grids!GridCells
      BY <2>2, CellIs DEF Grids!GridCells
    <3> QED BY <2>2, <2>3, <3>1, StepIs
  <2>6. Done(y)
    BY <2>1, <2>4, <2>5
  <2> QED BY <1>13, <2>1, <2>2, <2>3, <2>5, <2>6
<1> QED BY <1>10, <1>14 DEF P

\* Finitely many numbers have a bound.
LEMMA FiniteBound ==
  ASSUME NEW N \in SUBSET Nat, IsFiniteSet(N)
  PROVE  \E B \in Nat : \A n \in N : n <= B
<1> DEFINE BoundedBy(M) == \E B \in Nat : \A n \in M : n <= B
           T == {M \in FiniteSubsetsOf(Nat) : ~ BoundedBy(M)}
           R == StrictSubsetOrdering(Nat)
<1> SUFFICES ASSUME ~ BoundedBy(N) PROVE FALSE
  OBVIOUS
<1>1. T \subseteq FiniteSubsetsOf(Nat) /\ T # {}
  BY DEF FiniteSubsetsOf
<1>2. PICK M \in T : \A L \in T : ~ (<<L, M>> \in R)
  <2>1. IsWellFoundedOn(R, FiniteSubsetsOf(Nat))
    BY FS_StrictSubsetOrderingWellFounded
  <2> HIDE DEF T, R
  <2> QED BY <1>1, <2>1, WFMin
<1>3. M \in SUBSET Nat /\ IsFiniteSet(M) /\ ~ BoundedBy(M)
  BY <1>2 DEF FiniteSubsetsOf
<1>4. PICK n : n \in M
  <2>1. BoundedBy({})
    OBVIOUS
  <2> HIDE DEF BoundedBy
  <2> QED BY <1>3, <2>1
<1>5. M \ {n} \in SUBSET Nat /\ IsFiniteSet(M \ {n}) /\ M \ {n} \subseteq M /\ M \ {n} # M
  BY <1>3, <1>4, FS_Subset
<1>6. BoundedBy(M \ {n})
  <2>1. <<M \ {n}, M>> \in R
    BY <1>3, <1>5 DEF StrictSubsetOrdering
  <2>2. M \ {n} \in FiniteSubsetsOf(Nat)
    BY <1>5 DEF FiniteSubsetsOf
  <2> HIDE DEF BoundedBy, R
  <2> QED BY <1>2, <2>1, <2>2
<1>7. PICK B \in Nat : \A m \in M \ {n} : m <= B
  BY <1>6
<1>8. BoundedBy(M)
  <2>1. n \in Nat
    BY <1>3, <1>4
  <2>2. CASE n <= B
    BY <1>7, <2>2
  <2>3. CASE B < n
    <3>1. \A m \in M : m <= n
      BY <1>3, <1>7, <2>1, <2>3
    <3> QED BY <2>1, <3>1
  <2> QED BY <2>1, <2>2, <2>3
<1> QED BY <1>3, <1>8

-----------------------------------------------------------------------------
(* Items, one after the other                                              *)

GridItems(columns, Words) == [area : SUBSET Words, rows : Nat \ {0}, cols : 1 .. columns]
Placed == [places : Seq(Place), at : Grids!GridCells, taken : {t \in SUBSET (Nat \X Nat) : Bounded(t)}]

\* The cells of a place are between its edges.
LEMMA CellsTyped ==
  ASSUME NEW p \in Place
  PROVE  /\ Grids!Cells(p) \in SUBSET (Nat \X Nat)
         /\ \A x \in Grids!Cells(p) : x[1] <= p.row + p.rows
         /\ \A r, c \in Nat : <<r, c>> \in Grids!Cells(p) <=>
              p.row <= r /\ r < p.row + p.rows /\ p.col <= c /\ c < p.col + p.cols
BY DEF Place, Grids!Cells

\* Before any item, what is taken has a bound: named areas are finitely many.
LEMMA BareTyped ==
  ASSUME NEW A, IsFiniteSet(A), NEW named \in [A -> Place]
  PROVE  Grids!Bare(named) \in Placed
<1> DEFINE N == {named[a].row + named[a].rows : a \in A}
           Taken == UNION {Grids!Cells(named[a]) : a \in DOMAIN named}
<1>1. N \in SUBSET Nat
  BY DEF Place
<1>2. IsFiniteSet(N)
  <2> DEFINE f == [a \in A |-> named[a].row + named[a].rows]
  <2>1. f \in [A -> N] /\ \A n \in N : \E a \in A : f[a] = n
    OBVIOUS
  <2> HIDE DEF f, N
  <2>2. f \in Surjection(A, N)
    BY <2>1 DEF Surjection
  <2> QED BY <2>2, FS_Surjection
<1>3. PICK B \in Nat : \A n \in N : n <= B
  <2> HIDE DEF N
  <2> QED BY <1>1, <1>2, FiniteBound
<1>4. Taken \in SUBSET (Nat \X Nat)
  BY CellsTyped
<1>5. ASSUME NEW r \in Nat, NEW c \in Nat, r > B, <<r, c>> \in Taken PROVE FALSE
  <2>1. PICK a \in A : <<r, c>> \in Grids!Cells(named[a])
    BY <1>5
  <2>2. named[a] \in Place /\ named[a].row + named[a].rows <= B
    BY <1>3
  <2>3. r < named[a].row + named[a].rows /\ named[a].row + named[a].rows \in Nat
    BY <2>1, <2>2, CellsTyped DEF Place
  <2> QED BY <1>5, <2>2, <2>3
<1>6. Bounded(Taken)
  <2> HIDE DEF Taken
  <2> QED BY <1>5 DEF Bounded
<1>7. <<>> \in Seq(Place) /\ <<1, 1>> \in Grids!GridCells
  BY DEF Grids!GridCells
<1>8. Grids!Bare(named) = [places |-> <<>>, at |-> <<1, 1>>, taken |-> Taken]
  BY DEF Grids!Bare
<1> HIDE DEF Taken
<1> QED BY <1>4, <1>6, <1>7, <1>8 DEF Placed

\* Where an item goes: to an area it names, or where the walk first finds room.
ToArea(s, t, item, named) ==
  \E a \in item.area \cap DOMAIN named :
    /\ t.places = Append(s.places, named[a])
    /\ t.at = s.at /\ t.taken = s.taken

ToRoom(s, t, item, columns, named) ==
  /\ item.area \cap DOMAIN named = {}
  /\ \E e : /\ FirstFree(e, s.at, item, columns, s.taken)
            /\ t.places = Append(s.places, Grids!PlaceAt(e, item))
            /\ t.taken = s.taken \cup Grids!Cells(Grids!PlaceAt(e, item))
            /\ t.at = <<e[1], e[2] + item.cols>>

\* An item more, and the places are still places; it went to its area or to room.
LEMMA WithItemIs ==
  ASSUME NEW columns \in Nat \ {0}, NEW Words, NEW item \in GridItems(columns, Words),
         NEW A, NEW named \in [A -> Place], NEW s \in Placed, NEW t, t = Grids!WithItem(s, item, columns, named)
  PROVE  /\ t \in Placed
         /\ ToArea(s, t, item, named) \/ ToRoom(s, t, item, columns, named)
<1> DEFINE areas == item.area \cap DOMAIN named
<1>1. /\ s.places \in Seq(Place) /\ s.at \in Grids!GridCells /\ s.taken \in SUBSET (Nat \X Nat) /\ Bounded(s.taken)
      /\ s = [places |-> s.places, at |-> s.at, taken |-> s.taken]
  BY DEF Placed
<1>2. CASE areas # {}
  <2>1. PICK a : a = CHOOSE b \in areas : TRUE
    OBVIOUS
  <2>2. a \in areas /\ named[a] \in Place
    BY <1>2, <2>1
  <2>3. t = [s EXCEPT !.places = Append(@, named[a])]
    BY <1>2, <2>1 DEF Grids!WithItem
  <2>4. t = [places |-> Append(s.places, named[a]), at |-> s.at, taken |-> s.taken]
    BY <1>1, <2>3
  <2>5. t.places = Append(s.places, named[a]) /\ t.at = s.at /\ t.taken = s.taken
    BY <2>4
  <2>6. Append(s.places, named[a]) \in Seq(Place)
    BY <1>1, <2>2
  <2>7. t \in Placed
    BY <1>1, <2>4, <2>6 DEF Placed
  <2> QED BY <2>2, <2>5, <2>7 DEF ToArea
<1>3. CASE areas = {}
  <2>1. Sized(item, columns)
    BY DEF GridItems, Sized
  <2>2. PICK e : /\ FirstFree(e, s.at, item, columns, s.taken)
                 /\ Grids!FreePlace(s.at, item, columns, s.taken) = Grids!PlaceAt(e, item)
    BY <1>1, <2>1, FreePlaceIs
  <2>3. PICK p : p = Grids!PlaceAt(e, item)
    OBVIOUS
  <2>4. e \in Grids!GridCells /\ e[1] \in Nat \ {0} /\ e[2] \in Nat \ {0}
    BY <2>2, CellIs DEF FirstFree
  <2>5. p.row = e[1] /\ p.col = e[2] /\ p.rows = item.rows /\ p.cols = item.cols /\ p \in Place
    BY <2>1, <2>3, <2>4 DEF Grids!PlaceAt, Place, Sized
  <2>6. t = [places |-> Append(s.places, p), taken |-> s.taken \cup Grids!Cells(p), at |-> <<e[1], e[2] + item.cols>>]
    BY <1>3, <2>2, <2>3, <2>5 DEF Grids!WithItem
  <2>7. Append(s.places, p) \in Seq(Place)
    BY <1>1, <2>5
  <2>8. <<e[1], e[2] + item.cols>> \in Grids!GridCells
    BY <2>1, <2>4 DEF Grids!GridCells, Sized
  <2>9. s.taken \cup Grids!Cells(p) \in SUBSET (Nat \X Nat)
    BY <1>1, <2>5, CellsTyped
  <2>10. Bounded(s.taken \cup Grids!Cells(p))
    <3>1. PICK B \in Nat : \A r, c \in Nat : r > B => <<r, c>> \notin s.taken
      BY <1>1 DEF Bounded
    <3>2. p.row + p.rows \in Nat
      BY <2>5 DEF Place
    <3>3. B + (p.row + p.rows) \in Nat
      BY <3>2
    <3>4. \A r, c \in Nat : r > B + (p.row + p.rows) => <<r, c>> \notin s.taken /\ <<r, c>> \notin Grids!Cells(p)
      <4> TAKE r, c \in Nat
      <4> HAVE r > B + (p.row + p.rows)
      <4>1. r > B /\ ~ (r < p.row + p.rows)
        BY <3>2
      <4> QED BY <2>5, <3>1, <4>1, CellsTyped
    <3> QED BY <3>3, <3>4 DEF Bounded
  <2>11. t \in Placed
    BY <2>6, <2>7, <2>8, <2>9, <2>10 DEF Placed
  <2>12. t.places = Append(s.places, p) /\ t.taken = s.taken \cup Grids!Cells(p) /\ t.at = <<e[1], e[2] + item.cols>>
    BY <2>6
  <2> QED BY <1>3, <2>2, <2>3, <2>11, <2>12 DEF ToRoom
<1> QED BY <1>2, <1>3

\* Whether an item is where it should be
WellPlaced(i, items, columns, named, P) ==
  /\ i \notin Grids!Auto(items, named) => \E a \in items[i].area \cap DOMAIN named : P[i] = named[a]
  /\ i \in Grids!Auto(items, named) =>
       /\ P[i] = Grids!PlaceAt(<<P[i].row, P[i].col>>, items[i])
       /\ P[i].row >= 1 /\ P[i].col >= 1
       /\ Grids!Fits(P[i], i, items, columns, named, P)
       /\ \A c \in (1 .. P[i].row) \X (1 .. columns) :
            Grids!Fits(Grids!PlaceAt(c, items[i]), i, items, columns, named, P) =>
              ~ Grids!Before(Grids!PlaceAt(c, items[i]), P[i])

\* It is, whatever is placed later.
LEMMA WellPlacedStays ==
  ASSUME NEW items, NEW columns, NEW named, NEW i \in Nat, DOMAIN items \subseteq Nat, NEW P, NEW Q,
         \A j \in DOMAIN items : j <= i => Q[j] = P[j], i \in DOMAIN items, WellPlaced(i, items, columns, named, P)
  PROVE  WellPlaced(i, items, columns, named, Q)
<1>1. Q[i] = P[i]
  OBVIOUS
<1>2. \A p : Grids!Fits(p, i, items, columns, named, P) <=> Grids!Fits(p, i, items, columns, named, Q)
  <2> TAKE p
  <2>1. \A j \in Grids!Auto(items, named) : j < i => Q[j] = P[j]
    <3>1. Grids!Auto(items, named) \subseteq DOMAIN items
      BY DEF Grids!Auto
    <3>2. \A j \in DOMAIN items : j < i => j <= i
      OBVIOUS
    <3> QED BY <3>1, <3>2
  <2> QED BY <2>1 DEF Grids!Fits
<1> QED BY <1>1, <1>2 DEF WellPlaced

Autos(k, items, named) == {j \in 1 .. k : j \in Grids!Auto(items, named)}

\* What is known after k items: they are where they should be; the walk is beyond all that
\* it placed, right behind the last; and what is taken is what has a name, and what it placed.
Filled(k, s, items, columns, named) ==
  /\ s \in Placed /\ Len(s.places) = k
  /\ \A i \in 1 .. k : WellPlaced(i, items, columns, named, s.places)
  /\ \A j \in Autos(k, items, named) :
       LET p == s.places[j] IN p.row < s.at[1] \/ (p.row = s.at[1] /\ p.col + p.cols <= s.at[2])
  /\ \A x : x \in s.taken <=> \/ \E a \in DOMAIN named : x \in Grids!Cells(named[a])
                              \/ \E j \in Autos(k, items, named) : x \in Grids!Cells(s.places[j])
  /\ \/ s.at = <<1, 1>>
     \/ \E l \in Autos(k, items, named) :
          s.at[1] = s.places[l].row /\ s.at[2] = s.places[l].col + s.places[l].cols

\* An item that goes to the area it names leaves the others where they are.
LEMMA AreaFills ==
  ASSUME NEW columns \in Nat \ {0}, NEW Words, NEW items \in Seq(GridItems(columns, Words)),
         NEW A, NEW named \in [A -> Place], NEW k \in Nat, k + 1 \in DOMAIN items,
         NEW s, NEW t \in Placed, Filled(k, s, items, columns, named), ToArea(s, t, items[k + 1], named)
  PROVE  Filled(k + 1, t, items, columns, named)
<1>1. PICK a \in items[k + 1].area \cap DOMAIN named :
        t.places = Append(s.places, named[a]) /\ t.at = s.at /\ t.taken = s.taken
  BY DEF ToArea
<1>2. s.places \in Seq(Place) /\ Len(s.places) = k /\ named[a] \in Place
  BY DEF Filled, Placed
<1>3. Len(t.places) = k + 1 /\ t.places[k + 1] = named[a] /\ \A j \in 1 .. k : t.places[j] = s.places[j]
  BY <1>1, <1>2
<1>4. k + 1 \notin Grids!Auto(items, named)
  BY DEF Grids!Auto
<1>5. Autos(k + 1, items, named) = Autos(k, items, named) /\ Autos(k, items, named) \subseteq 1 .. k
  BY <1>4 DEF Autos
<1>6. ASSUME NEW i \in 1 .. k + 1 PROVE WellPlaced(i, items, columns, named, t.places)
  <2>1. CASE i = k + 1
    BY <1>1, <1>3, <1>4, <2>1 DEF WellPlaced
  <2>2. CASE i \in 1 .. k
    <3>1. WellPlaced(i, items, columns, named, s.places)
      BY <2>2 DEF Filled
    <3>2. DOMAIN items = 1 .. Len(items) /\ i \in DOMAIN items /\ Len(items) \in Nat
      BY <2>2
    <3>3. \A j \in DOMAIN items : j <= i => t.places[j] = s.places[j]
      BY <1>3, <2>2, <3>2
    <3> QED BY <2>2, <3>1, <3>2, <3>3, WellPlacedStays
  <2> QED BY <2>1, <2>2
<1>7. \A j \in Autos(k, items, named) : t.places[j] = s.places[j]
  BY <1>3, <1>5
<1> QED BY <1>1, <1>3, <1>5, <1>6, <1>7 DEF Filled

\* Order goes on, from where an item ends to the walk and to what it comes to.
LEMMA OrderGoesOn ==
  ASSUME NEW at, NEW q, NEW p, at[1] \in Nat, at[2] \in Nat,
         q.row \in Nat, q.col \in Nat, q.cols \in Nat \ {0}, p.row \in Nat, p.col \in Nat, p.cols \in Nat,
         q.row < at[1] \/ (q.row = at[1] /\ q.col + q.cols <= at[2]),
         at[1] < p.row \/ (at[1] = p.row /\ at[2] <= p.col)
  PROVE  /\ Grids!Before(q, p)
         /\ q.row < p.row \/ (q.row = p.row /\ q.col + q.cols <= p.col + p.cols)
<1> PICK r \in Nat, c \in Nat : r = at[1] /\ c = at[2]
  OBVIOUS
<1> QED BY DEF Grids!Before

\* A cell after an item's first one, and not in that row of it, is not before its end.
LEMMA BehindGoesOn ==
  ASSUME NEW at, NEW c, c[1] \in Nat, c[2] \in Nat,
         NEW row \in Nat, NEW col \in Nat, NEW cols \in Nat, at[1] = row, at[2] = col + cols,
         c[1] > row \/ (c[1] = row /\ c[2] > col), ~ (c[1] = row /\ c[2] > col /\ c[2] < col + cols)
  PROVE  NotAfter(at, c)
<1>1. PICK x \in Nat, y \in Nat : x = c[1] /\ y = c[2]
  OBVIOUS
<1>2. row < x \/ (row = x /\ col + cols <= y)
  BY <1>1
<1> QED BY <1>1, <1>2 DEF NotAfter

\* An item that goes to room is at the first place that fits it, in the whole grid.
LEMMA RoomFills ==
  ASSUME NEW columns \in Nat \ {0}, NEW Words, NEW items \in Seq(GridItems(columns, Words)),
         NEW A, NEW named \in [A -> Place], NEW k \in Nat, k + 1 \in DOMAIN items,
         NEW s, NEW t \in Placed, Filled(k, s, items, columns, named), ToRoom(s, t, items[k + 1], columns, named)
  PROVE  Filled(k + 1, t, items, columns, named)
<1> DEFINE n == k + 1
           item == items[n]
           Earlier == Autos(k, items, named)
<1>1. item.rows \in Nat \ {0} /\ item.cols \in 1 .. columns /\ item.area \cap DOMAIN named = {}
  <2>1. item \in GridItems(columns, Words)
    OBVIOUS
  <2> QED BY <2>1 DEF GridItems, ToRoom
<1>2. PICK e : /\ FirstFree(e, s.at, item, columns, s.taken)
               /\ t.places = Append(s.places, Grids!PlaceAt(e, item))
               /\ t.taken = s.taken \cup Grids!Cells(Grids!PlaceAt(e, item))
               /\ t.at = <<e[1], e[2] + item.cols>>
  BY DEF ToRoom
<1>3. PICK p : p = Grids!PlaceAt(e, item)
  OBVIOUS
<1>4. e \in Grids!GridCells /\ e = <<e[1], e[2]>> /\ e[1] \in Nat \ {0} /\ e[2] \in Nat \ {0}
  BY <1>2, CellIs DEF FirstFree
<1>5. p.row = e[1] /\ p.col = e[2] /\ p.rows = item.rows /\ p.cols = item.cols /\ p \in Place
  BY <1>1, <1>3, <1>4 DEF Grids!PlaceAt, Place
<1>6. s.places \in Seq(Place) /\ Len(s.places) = k /\ s \in Placed /\ s.at \in Grids!GridCells
  BY DEF Filled, Placed
<1>7. Len(t.places) = n /\ t.places[n] = p /\ \A j \in 1 .. k : t.places[j] = s.places[j]
  BY <1>2, <1>3, <1>5, <1>6
<1>8. n \in Grids!Auto(items, named)
  BY <1>1 DEF Grids!Auto
<1>9. Autos(n, items, named) = Earlier \cup {n} /\ Earlier \subseteq 1 .. k
  BY <1>8 DEF Autos
<1>10. \A j \in Earlier : t.places[j] = s.places[j] /\ s.places[j] \in Place
  BY <1>6, <1>7, <1>9
<1>11. \A j \in Grids!Auto(items, named) : j < n => j \in Earlier
  BY DEF Grids!Auto, Autos
<1>12. s.at[1] \in Nat \ {0} /\ s.at[2] \in Nat \ {0} /\ NotAfter(s.at, e) /\ Ends(e, item, columns, s.taken)
  BY <1>2, <1>6, CellIs DEF FirstFree
<1>13. \A j \in Earlier : LET q == s.places[j] IN
         /\ q.row \in Nat \ {0} /\ q.col \in Nat \ {0} /\ q.cols \in Nat \ {0} /\ q.rows \in Nat \ {0}
         /\ q.row < s.at[1] \/ (q.row = s.at[1] /\ q.col + q.cols <= s.at[2])
  BY <1>10 DEF Filled, Place
<1>14. \A j \in Earlier : LET q == s.places[j] IN
         /\ Grids!Before(q, p)
         /\ q.row < p.row \/ (q.row = p.row /\ q.col + q.cols <= p.col + p.cols)
  <2> TAKE j \in Earlier
  <2>1. PICK q : q = s.places[j]
    OBVIOUS
  <2>2. /\ q.row \in Nat \ {0} /\ q.col \in Nat \ {0} /\ q.cols \in Nat \ {0}
        /\ q.row < s.at[1] \/ (q.row = s.at[1] /\ q.col + q.cols <= s.at[2])
    BY <1>13, <2>1
  <2>3. s.at[1] < p.row \/ (s.at[1] = p.row /\ s.at[2] <= p.col)
    BY <1>5, <1>12 DEF NotAfter
  <2>4. p.row \in Nat /\ p.col \in Nat /\ p.cols \in Nat
    BY <1>5 DEF Place
  <2>5. Grids!Before(q, p) /\ (q.row < p.row \/ (q.row = p.row /\ q.col + q.cols <= p.col + p.cols))
    <3> HIDE DEF item, n, Earlier
    <3> QED BY <1>12, <2>2, <2>3, <2>4, OrderGoesOn
  <2> QED BY <2>1, <2>5
<1>15. ASSUME NEW q
       PROVE  Grids!Cells(q) \cap s.taken = {} <=>
                /\ \A a \in DOMAIN named : Grids!Cells(q) \cap Grids!Cells(named[a]) = {}
                /\ \A j \in Earlier : Grids!Cells(q) \cap Grids!Cells(s.places[j]) = {}
  <2>1. \A x : x \in s.taken <=> \/ \E a \in DOMAIN named : x \in Grids!Cells(named[a])
                                 \/ \E j \in Earlier : x \in Grids!Cells(s.places[j])
    BY DEF Filled
  <2> HIDE DEF Earlier
  <2> QED BY <2>1
<1>16. Grids!Fits(p, n, items, columns, named, t.places)
  <2>1. p.col + p.cols - 1 <= columns
    BY <1>4, <1>5, <1>1, <1>12 DEF Ends, Grids!Crosses
  <2>2. Grids!Cells(p) \cap s.taken = {}
    BY <1>3, <1>12 DEF Ends
  <2> HIDE DEF Earlier, n
  <2> QED BY <1>10, <1>11, <1>14, <1>15, <2>1, <2>2 DEF Grids!Fits
<1>17. ASSUME NEW c \in (1 .. p.row) \X (1 .. columns), Grids!Fits(Grids!PlaceAt(c, item), n, items, columns, named, t.places)
       PROVE  ~ Grids!Before(Grids!PlaceAt(c, item), p)
  <2>1. PICK q : q = Grids!PlaceAt(c, item)
    OBVIOUS
  <2>2. c \in Grids!GridCells /\ c[1] \in Nat \ {0} /\ c[2] \in Nat \ {0} /\ c = <<c[1], c[2]>>
    BY <1>4, <1>5 DEF Grids!GridCells
  <2>3. q.row = c[1] /\ q.col = c[2] /\ q.rows = item.rows /\ q.cols = item.cols /\ q \in Place
    BY <1>1, <2>1, <2>2 DEF Grids!PlaceAt, Place
  <2>4. /\ q.col + q.cols - 1 <= columns
        /\ \A a \in DOMAIN named : Grids!Cells(q) \cap Grids!Cells(named[a]) = {}
        /\ \A j \in Earlier : Grids!Cells(q) \cap Grids!Cells(s.places[j]) = {} /\ Grids!Before(s.places[j], q)
    <3>1. \A j \in Earlier : j \in Grids!Auto(items, named) /\ j < n
      BY <1>9 DEF Autos
    <3> HIDE DEF Earlier, n
    <3> QED BY <1>10, <1>17, <2>1, <3>1 DEF Grids!Fits
  <2>5. Ends(c, item, columns, s.taken)
    <3>1. ~ Grids!Crosses(c, item, columns)
      BY <1>1, <2>2, <2>3, <2>4 DEF Grids!Crosses
    <3>2. Grids!Cells(q) \cap s.taken = {}
      BY <1>15, <2>4
    <3> QED BY <2>1, <3>1, <3>2 DEF Ends
  <2>6. NotAfter(s.at, c)
    <3>1. CASE s.at = <<1, 1>>
      BY <2>2, <3>1 DEF NotAfter
    <3>2. ASSUME NEW l \in Earlier, s.at[1] = s.places[l].row /\ s.at[2] = s.places[l].col + s.places[l].cols
          PROVE  NotAfter(s.at, c)
      <4>1. PICK b : b = s.places[l]
        OBVIOUS
      <4>2. b \in Place /\ Grids!Before(b, q) /\ Grids!Cells(q) \cap Grids!Cells(b) = {}
        BY <1>10, <2>4, <4>1
      <4>3. b.row \in Nat \ {0} /\ b.col \in Nat \ {0} /\ b.rows \in Nat \ {0} /\ b.cols \in Nat \ {0}
        BY <4>2 DEF Place
      <4>4. c[1] > b.row \/ (c[1] = b.row /\ c[2] > b.col)
        BY <2>2, <2>3, <4>2, <4>3 DEF Grids!Before
      <4>5. CASE c[1] = b.row /\ c[2] > b.col /\ c[2] < b.col + b.cols
        <5>1. <<c[1], c[2]>> \in Grids!Cells(b)
          BY <2>2, <4>2, <4>3, <4>5, CellsTyped
        <5>2. <<c[1], c[2]>> \in Grids!Cells(q)
          BY <1>1, <2>2, <2>3, CellsTyped
        <5> QED BY <4>2, <5>1, <5>2
      <4>6. CASE ~ (c[1] = b.row /\ c[2] > b.col /\ c[2] < b.col + b.cols)
        <5>1. PICK row \in Nat, col \in Nat, cols \in Nat : row = b.row /\ col = b.col /\ cols = b.cols
          BY <4>3
        <5>2. /\ s.at[1] = row /\ s.at[2] = col + cols
              /\ c[1] > row \/ (c[1] = row /\ c[2] > col)
              /\ ~ (c[1] = row /\ c[2] > col /\ c[2] < col + cols)
          BY <3>2, <4>1, <4>4, <4>6, <5>1
        <5>3. c[1] \in Nat /\ c[2] \in Nat
          BY <2>2
        <5> QED BY <5>2, <5>3, BehindGoesOn
      <4> QED BY <4>5, <4>6
    <3> QED BY <3>1, <3>2 DEF Filled
  <2>7. NotAfter(e, c)
    BY <1>2, <2>2, <2>5, <2>6 DEF FirstFree
  <2>8. ~ Grids!Before(q, p)
    BY <1>4, <1>5, <2>2, <2>3, <2>7 DEF Grids!Before, NotAfter
  <2> QED BY <2>1, <2>8
<1>18. WellPlaced(n, items, columns, named, t.places)
  <2>1. p = Grids!PlaceAt(<<p.row, p.col>>, item) /\ p.row >= 1 /\ p.col >= 1
    BY <1>3, <1>4, <1>5
  <2> HIDE DEF n, Earlier
  <2> QED BY <1>7, <1>8, <1>16, <1>17, <2>1 DEF WellPlaced, n
<1>19. ASSUME NEW i \in 1 .. n PROVE WellPlaced(i, items, columns, named, t.places)
  <2>1. CASE i = n
    BY <1>18, <2>1
  <2>2. CASE i \in 1 .. k
    <3>1. WellPlaced(i, items, columns, named, s.places)
      BY <2>2 DEF Filled
    <3>2. DOMAIN items = 1 .. Len(items) /\ i \in DOMAIN items /\ Len(items) \in Nat
      BY <2>2
    <3>3. \A j \in DOMAIN items : j <= i => t.places[j] = s.places[j]
      BY <1>7, <2>2, <3>2
    <3> QED BY <2>2, <3>1, <3>2, <3>3, WellPlacedStays
  <2> QED BY <2>1, <2>2
<1>20. t.at[1] = p.row /\ t.at[2] = p.col + p.cols
  BY <1>2, <1>5
<1>21. \A j \in Autos(n, items, named) :
         LET q == t.places[j] IN q.row < t.at[1] \/ (q.row = t.at[1] /\ q.col + q.cols <= t.at[2])
  <2> TAKE j \in Autos(n, items, named)
  <2>1. CASE j = n
    <3>1. p.row \in Nat /\ p.col \in Nat /\ p.cols \in Nat
      BY <1>5 DEF Place
    <3> QED BY <1>7, <1>20, <2>1, <3>1
  <2>2. CASE j \in Earlier
    <3>1. PICK q : q = s.places[j]
      OBVIOUS
    <3>2. q.row < p.row \/ (q.row = p.row /\ q.col + q.cols <= p.col + p.cols)
      BY <1>14, <2>2, <3>1
    <3> QED BY <1>10, <1>20, <2>2, <3>1, <3>2
  <2> QED BY <1>9, <2>1, <2>2
<1>22. \A x : x \in t.taken <=> \/ \E a \in DOMAIN named : x \in Grids!Cells(named[a])
                                \/ \E j \in Autos(n, items, named) : x \in Grids!Cells(t.places[j])
  <2> TAKE x
  <2>1. x \in t.taken <=> x \in s.taken \/ x \in Grids!Cells(p)
    BY <1>2, <1>3
  <2>2. x \in s.taken <=> \/ \E a \in DOMAIN named : x \in Grids!Cells(named[a])
                          \/ \E j \in Earlier : x \in Grids!Cells(s.places[j])
    BY DEF Filled
  <2> HIDE DEF Earlier, n
  <2> QED BY <1>7, <1>9, <1>10, <2>1, <2>2
<1>23. \E l \in Autos(n, items, named) : t.at[1] = t.places[l].row /\ t.at[2] = t.places[l].col + t.places[l].cols
  BY <1>7, <1>9, <1>20
<1> HIDE DEF Earlier, item
<1> QED BY <1>7, <1>19, <1>21, <1>22, <1>23 DEF Filled

\* The items of a grid, for any number of them, of columns, and of areas that have a name:
\* every item that names an area has it, and every other is at the first place that fits it,
\* beyond those before it (place_items in grid.rs). The walk for a place always ends.
THEOREM GridPlacement ==
  ASSUME NEW columns \in Nat \ {0}, NEW Words, NEW items \in Seq(GridItems(columns, Words)),
         NEW A, IsFiniteSet(A), NEW named \in [A -> Place]
  PROVE  Grids!PlacedWell(items, columns, named, Grids!PlaceItems(items, columns, named))
<1> DEFINE S == 0 .. Len(items)
           V == Placed
           rank == [k \in S |-> k]
           R == {r \in S \X S : r[1] < r[2]}
           a == [k \in S |-> IF k = 0 THEN 0 ELSE k - 1]
           Bare == Grids!Bare(named)
           With(s, k) == Grids!WithItem(s, items[k], columns, named)
           G == [y \in S \X V \X V |-> IF y[1] = 0 THEN Bare ELSE With(y[2], y[1])]
<1>1. Len(items) \in Nat /\ DOMAIN items = 1 .. Len(items) /\ S \in SUBSET Nat
  OBVIOUS
<1>2. Bare \in V
  BY BareTyped
<1>3. ASSUME NEW k \in S, k # 0, NEW s \in V
      PROVE  /\ With(s, k) \in V
             /\ ToArea(s, With(s, k), items[k], named) \/ ToRoom(s, With(s, k), items[k], columns, named)
  <2>1. items[k] \in GridItems(columns, Words)
    BY <1>3
  <2> QED BY <2>1, WithItemIs
<1>4. Grounded(S, R)
  <2>1. Counts(S, rank, R)
    BY <1>1 DEF Counts
  <2> HIDE DEF S, R, rank
  <2> QED BY <2>1, CountsGrounded
<1>5. Down(S, R, {0}, a, a)
  <2>1. a \in [S -> S]
    BY <1>1
  <2>2. ASSUME NEW k \in S \ {0} PROVE <<a[k], k>> \in R
    BY <1>1
  <2> HIDE DEF S, R, a
  <2> QED BY <2>1, <2>2 DEF Down
<1>6. G \in [S \X V \X V -> V]
  <2>1. ASSUME NEW y \in S \X V \X V PROVE G[y] \in V
    <3>1. y[1] \in S /\ y[2] \in V
      OBVIOUS
    <3> HIDE DEF S, V, Bare, With
    <3> QED BY <1>2, <1>3, <3>1
  <2> HIDE DEF S, V, Bare, With
  <2> QED BY <2>1
<1>7. PICK f \in [S -> V] : Solves(f, S, {0}, Bare, G, a, a)
  <2> HIDE DEF S, V, R, a, G, Bare
  <2> QED BY <1>2, <1>4, <1>5, <1>6, TwoCalls
<1>8. \A k \in S : f[k] = IF k = 0 THEN Bare ELSE With(f[k - 1], k)
  <2> TAKE k \in S
  <2>1. CASE k = 0
    <3> HIDE DEF S, V, a, G, Bare
    <3> QED BY <1>7, <2>1 DEF Solves
  <2>2. CASE k # 0
    <3>1. a[k] = k - 1 /\ a[k] \in S
      BY <1>1, <2>2
    <3> HIDE DEF S, V, a, G, Bare, With
    <3>2. f[k] = G[<<k, f[a[k]], f[a[k]]>>]
      BY <1>7, <2>2 DEF Solves
    <3>3. <<k, f[a[k]], f[a[k]]>> \in S \X V \X V
      BY <3>1
    <3>4. G[<<k, f[a[k]], f[a[k]]>>] = With(f[a[k]], k)
      BY <2>2, <3>3 DEF G
    <3> QED BY <2>2, <3>1, <3>2, <3>4
  <2> QED BY <2>1, <2>2
<1> DEFINE Eq(g) == g = [k \in 0 .. Len(items) |-> IF k = 0 THEN Bare ELSE With(g[k - 1], k)]
           w == CHOOSE g : Eq(g)
<1>9. Eq(f)
  <2> DEFINE h == [k \in 0 .. Len(items) |-> IF k = 0 THEN Bare ELSE With(f[k - 1], k)]
  <2>1. \A k \in S : f[k] = h[k]
    BY <1>8
  <2>2. f = [k \in S |-> f[k]] /\ h = [k \in S |-> h[k]]
    OBVIOUS
  <2> HIDE DEF h, V, S
  <2>3. f = h
    BY <2>1, <2>2
  <2> QED BY <2>3 DEF h
<1>10. Eq(w)
  <2> HIDE DEF Eq
  <2> QED BY <1>9
<1>11. Grids!PlaceItems(items, columns, named) = w[Len(items)].places
  BY DEF Grids!PlaceItems
<1>12. \A k \in S : w[k] = IF k = 0 THEN Bare ELSE With(w[k - 1], k)
  <2> HIDE DEF w, Bare, With
  <2> QED BY <1>10
<1> HIDE DEF w, Eq, Bare, With
<1> DEFINE Fine(k) == Filled(k, w[k], items, columns, named)
<1>13. Fine(0)
  <2>1. w[0] = Bare /\ 0 \in S
    BY <1>1, <1>12
  <2>2. Bare = [places |-> <<>>, at |-> <<1, 1>>, taken |-> UNION {Grids!Cells(named[b]) : b \in DOMAIN named}]
    BY DEF Bare, Grids!Bare
  <2>3. Autos(0, items, named) = {}
    BY DEF Autos
  <2>4. \A x : x \in Bare.taken <=> \E b \in DOMAIN named : x \in Grids!Cells(named[b])
    BY <2>2
  <2>5. Len(Bare.places) = 0 /\ Bare.at = <<1, 1>>
    BY <2>2
  <2> QED BY <1>2, <2>1, <2>3, <2>4, <2>5 DEF Filled
<1>14. ASSUME NEW k \in Nat, k + 1 \in S, Fine(k) PROVE Fine(k + 1)
  <2>1. w[k + 1] = With(w[k], k + 1)
    BY <1>1, <1>12, <1>14
  <2>2. w[k] \in V
    BY <1>14 DEF Filled
  <2>3. /\ w[k + 1] \in V
        /\ ToArea(w[k], w[k + 1], items[k + 1], named) \/ ToRoom(w[k], w[k + 1], items[k + 1], columns, named)
    BY <1>3, <1>14, <2>1, <2>2
  <2>4. k + 1 \in DOMAIN items
    BY <1>1, <1>14
  <2> QED BY <1>14, <2>3, <2>4, AreaFills, RoomFills
<1>15. \A k \in S : Fine(k)
  <2> DEFINE Bad == {k \in S : ~ Fine(k)}
  <2> HIDE DEF Fine
  <2> SUFFICES ASSUME Bad # {} PROVE FALSE
    OBVIOUS
  <2>1. PICK k \in Bad : \A j \in Bad : k <= j
    <3>1. Bad \in SUBSET Nat
      BY <1>1
    <3> HIDE DEF Bad
    <3> QED BY <3>1, Smallest
  <2>2. k # 0 /\ k \in S
    BY <1>13, <2>1
  <2>3. k - 1 \in S /\ k - 1 \in Nat /\ (k - 1) + 1 = k /\ ~ (k <= k - 1)
    BY <1>1, <2>2
  <2>4. Fine(k - 1)
    BY <2>1, <2>3
  <2>5. Fine((k - 1) + 1)
    BY <1>14, <2>2, <2>3, <2>4
  <2> QED BY <2>1, <2>3, <2>5
<1> DEFINE P == Grids!PlaceItems(items, columns, named)
<1>16. Len(P) = Len(items) /\ \A i \in 1 .. Len(items) : WellPlaced(i, items, columns, named, P)
  <2>1. Fine(Len(items))
    BY <1>1, <1>15
  <2> QED BY <1>11, <2>1 DEF Filled
<1> HIDE DEF P
<1>17. Grids!Auto(items, named) \subseteq DOMAIN items
  BY DEF Grids!Auto
<1>18. Grids!PlacedWell(items, columns, named, P)
  BY <1>1, <1>16, <1>17 DEF Grids!PlacedWell, WellPlaced
<1> QED BY <1>18 DEF P

-----------------------------------------------------------------------------
(* Declarations                                                            *)

Sheet == INSTANCE Declarations

\* What comes before an element of a set, and how much of it there is
BelowIn(S, B, x) == {y \in S : <<y, x>> \in B}
RankIn(S, B, x)  == Cardinality(BelowIn(S, B, x))

StrictOrder(S, B) ==
  /\ \A x \in S : <<x, x>> \notin B
  /\ \A x, y, z \in S : <<x, y>> \in B /\ <<y, z>> \in B => <<x, z>> \in B
  /\ \A x, y \in S : x = y \/ <<x, y>> \in B \/ <<y, x>> \in B

\* Ranks in a finite order count up from 0, each rank once.
LEMMA RanksCount ==
  ASSUME NEW S, IsFiniteSet(S), NEW B, StrictOrder(S, B)
  PROVE  /\ Cardinality(S) \in Nat
         /\ \A x \in S : RankIn(S, B, x) \in 0 .. Cardinality(S) - 1
         /\ \A x, y \in S : <<x, y>> \in B => RankIn(S, B, x) < RankIn(S, B, y)
         /\ \A i \in 0 .. Cardinality(S) - 1 : \E x \in S : RankIn(S, B, x) = i
<1> DEFINE n == Cardinality(S)
           T == 0 .. n - 1
           r == [x \in S |-> RankIn(S, B, x)]
<1>1. n \in Nat
  BY FS_CardinalityType
<1>2. \A x \in S : IsFiniteSet(BelowIn(S, B, x)) /\ RankIn(S, B, x) \in Nat
  <2> TAKE x \in S
  <2>1. BelowIn(S, B, x) \in SUBSET S
    BY DEF BelowIn
  <2> QED BY <2>1, FS_Subset, FS_CardinalityType DEF RankIn
<1>3. \A x \in S : RankIn(S, B, x) \in T
  <2> TAKE x \in S
  <2>1. BelowIn(S, B, x) \in SUBSET (S \ {x})
    BY DEF BelowIn, StrictOrder
  <2>2. IsFiniteSet(S \ {x}) /\ Cardinality(S \ {x}) = n - 1
    BY FS_RemoveElement
  <2>3. RankIn(S, B, x) <= n - 1
    BY <2>1, <2>2, FS_Subset DEF RankIn
  <2> QED BY <1>1, <1>2, <2>3
<1>4. \A x, y \in S : <<x, y>> \in B => RankIn(S, B, x) < RankIn(S, B, y)
  <2> SUFFICES ASSUME NEW x \in S, NEW y \in S, <<x, y>> \in B PROVE RankIn(S, B, x) < RankIn(S, B, y)
    OBVIOUS
  <2>1. x \in BelowIn(S, B, y)
    BY DEF BelowIn
  <2>2. BelowIn(S, B, x) \in SUBSET (BelowIn(S, B, y) \ {x})
    BY DEF BelowIn, StrictOrder
  <2>3. /\ IsFiniteSet(BelowIn(S, B, y) \ {x})
        /\ Cardinality(BelowIn(S, B, y) \ {x}) = RankIn(S, B, y) - 1
    BY <1>2, <2>1, FS_RemoveElement DEF RankIn
  <2>4. RankIn(S, B, x) <= RankIn(S, B, y) - 1
    BY <2>2, <2>3, FS_Subset DEF RankIn
  <2> QED BY <1>2, <2>4
<1>5. r \in Injection(S, T)
  <2>1. r \in [S -> T]
    BY <1>3
  <2>2. \A x, y \in S : RankIn(S, B, x) = RankIn(S, B, y) => x = y
    <3> TAKE x, y \in S
    <3>1. RankIn(S, B, x) \in Nat /\ RankIn(S, B, y) \in Nat
      BY <1>2
    <3>2. <<x, y>> \in B => RankIn(S, B, x) < RankIn(S, B, y)
      BY <1>4
    <3>3. <<y, x>> \in B => RankIn(S, B, y) < RankIn(S, B, x)
      BY <1>4
    <3>4. x = y \/ <<x, y>> \in B \/ <<y, x>> \in B
      BY DEF StrictOrder
    <3> QED BY <3>1, <3>2, <3>3, <3>4
  <2>3. \A x, y \in S : r[x] = r[y] => x = y
    BY <2>2
  <2> HIDE DEF r, T
  <2> QED BY <2>1, <2>3 DEF Injection, IsInjective
<1>6. r \in Surjection(S, T)
  <2>1. IsFiniteSet(T) /\ Cardinality(T) = n
    BY <1>1, FS_Interval
  <2> HIDE DEF r, T
  <2> QED BY <1>5, <2>1, FS_Injection
<1>7. \A i \in T : \E x \in S : RankIn(S, B, x) = i
  <2>1. \A i \in T : \E x \in S : r[x] = i
    <3> HIDE DEF r, T
    <3> QED BY <1>6 DEF Surjection
  <2> QED BY <2>1
<1> QED BY <1>1, <1>3, <1>4, <1>7

\* A sequence that has at each index the element of that rank has them all, in order.
RankedBy(s, S, B) ==
  /\ DOMAIN s = 1 .. Cardinality(S)
  /\ \A i \in DOMAIN s : s[i] = CHOOSE x \in S : RankIn(S, B, x) = i - 1

\* Every element is somewhere in it, and what is before another comes earlier.
LEMMA RankedIsSorted ==
  ASSUME NEW S, IsFiniteSet(S), NEW B, StrictOrder(S, B), NEW s, RankedBy(s, S, B)
  PROVE  /\ Cardinality(S) \in Nat
         /\ \A i \in DOMAIN s : s[i] \in S
         /\ \A x \in S : \E i \in DOMAIN s : s[i] = x
         /\ \A i, j \in DOMAIN s : i < j => <<s[i], s[j]>> \in B
<1>1. /\ Cardinality(S) \in Nat
      /\ \A x \in S : RankIn(S, B, x) \in 0 .. Cardinality(S) - 1
      /\ \A x, y \in S : <<x, y>> \in B => RankIn(S, B, x) < RankIn(S, B, y)
      /\ \A i \in 0 .. Cardinality(S) - 1 : \E x \in S : RankIn(S, B, x) = i
  BY RanksCount
<1>2. \A i \in DOMAIN s : i \in Nat /\ i - 1 \in 0 .. Cardinality(S) - 1
  BY <1>1 DEF RankedBy
<1>3. \A i \in DOMAIN s : s[i] \in S /\ RankIn(S, B, s[i]) = i - 1
  <2> TAKE i \in DOMAIN s
  <2>1. \E x \in S : RankIn(S, B, x) = i - 1
    BY <1>1, <1>2
  <2> QED BY <2>1 DEF RankedBy
<1>4. \A x \in S : \E i \in DOMAIN s : s[i] = x
  <2> TAKE x \in S
  <2>1. PICK i : i = RankIn(S, B, x) + 1
    OBVIOUS
  <2>2. i \in DOMAIN s /\ i - 1 = RankIn(S, B, x)
    BY <1>1, <2>1 DEF RankedBy
  <2>3. s[i] \in S /\ RankIn(S, B, s[i]) = RankIn(S, B, x) /\ RankIn(S, B, x) \in Nat
    BY <1>1, <1>3, <2>2
  <2>4. s[i] = x
    <3>1. <<s[i], x>> \in B => RankIn(S, B, s[i]) < RankIn(S, B, x)
      BY <1>1, <2>3
    <3>2. <<x, s[i]>> \in B => RankIn(S, B, x) < RankIn(S, B, s[i])
      BY <1>1, <2>3
    <3>3. s[i] = x \/ <<s[i], x>> \in B \/ <<x, s[i]>> \in B
      BY <2>3 DEF StrictOrder
    <3> QED BY <2>3, <3>1, <3>2, <3>3
  <2> QED BY <2>2, <2>4
<1>5. \A i, j \in DOMAIN s : i < j => <<s[i], s[j]>> \in B
  <2> SUFFICES ASSUME NEW i \in DOMAIN s, NEW j \in DOMAIN s, i < j PROVE <<s[i], s[j]>> \in B
    OBVIOUS
  <2>1. /\ s[i] \in S /\ s[j] \in S /\ i \in Nat /\ j \in Nat
        /\ RankIn(S, B, s[i]) = i - 1 /\ RankIn(S, B, s[j]) = j - 1
    BY <1>2, <1>3
  <2>2. s[i] # s[j]
    BY <2>1
  <2>3. <<s[j], s[i]>> \notin B
    <3>1. <<s[j], s[i]>> \in B => j - 1 < i - 1
      BY <1>1, <2>1
    <3> QED BY <2>1, <3>1
  <2> QED BY <2>1, <2>2, <2>3 DEF StrictOrder
<1> QED BY <1>1, <1>3, <1>4, <1>5

\* Rules whose declarations are properties with values, and weights for some of them
Decls(Properties, Terms) == [property : Properties, value : Terms]
Triple == [1 .. 3 -> Nat]
SheetOK(rules, weight, M, Properties, Terms) ==
  /\ M \in SUBSET Nat /\ IsFiniteSet(M) /\ weight \in [M -> Triple]
  /\ \A i \in M : rules[i].declarations \in Seq(Decls(Properties, Terms))

\* Specificities, compared from the left
LEMMA LighterIs ==
  ASSUME NEW v \in Triple, NEW w \in Triple
  PROVE  Sheet!Lighter(v, w) <=> \/ v[1] < w[1]
                                 \/ v[1] = w[1] /\ v[2] < w[2]
                                 \/ v[1] = w[1] /\ v[2] = w[2] /\ v[3] < w[3]
<1>1. 1 .. 3 = {1, 2, 3} /\ (1 .. 1 - 1) = {} /\ (1 .. 2 - 1) = {1} /\ (1 .. 3 - 1) = {1, 2}
  OBVIOUS
<1>2. Sheet!Lighter(v, w) <=>
        \/ v[1] < w[1] /\ \A j \in 1 .. 1 - 1 : v[j] = w[j]
        \/ v[2] < w[2] /\ \A j \in 1 .. 2 - 1 : v[j] = w[j]
        \/ v[3] < w[3] /\ \A j \in 1 .. 3 - 1 : v[j] = w[j]
  BY <1>1 DEF Sheet!Lighter
<1> QED BY <1>1, <1>2

\* They are in a linear order.
LEMMA LighterOrders ==
  ASSUME NEW u \in Triple, NEW v \in Triple, NEW w \in Triple
  PROVE  /\ ~ Sheet!Lighter(u, u)
         /\ Sheet!Lighter(u, v) /\ Sheet!Lighter(v, w) => Sheet!Lighter(u, w)
         /\ u = v \/ Sheet!Lighter(u, v) \/ Sheet!Lighter(v, u)
<1>1. /\ u[1] \in Nat /\ u[2] \in Nat /\ u[3] \in Nat
      /\ v[1] \in Nat /\ v[2] \in Nat /\ v[3] \in Nat
      /\ w[1] \in Nat /\ w[2] \in Nat /\ w[3] \in Nat
  BY DEF Triple
<1>2. u[1] = v[1] /\ u[2] = v[2] /\ u[3] = v[3] => u = v
  <2> SUFFICES ASSUME u[1] = v[1] /\ u[2] = v[2] /\ u[3] = v[3] PROVE u = v
    OBVIOUS
  <2>1. \A i \in 1 .. 3 : i = 1 \/ i = 2 \/ i = 3
    OBVIOUS
  <2>2. \A i \in 1 .. 3 : u[i] = v[i]
    BY <2>1
  <2> QED BY <2>2 DEF Triple
<1>3. ~ Sheet!Lighter(u, u)
  BY <1>1, LighterIs
<1>4. Sheet!Lighter(u, v) /\ Sheet!Lighter(v, w) => Sheet!Lighter(u, w)
  BY <1>1, LighterIs
<1>5. u = v \/ Sheet!Lighter(u, v) \/ Sheet!Lighter(v, u)
  BY <1>1, <1>2, LighterIs
<1> QED BY <1>3, <1>4, <1>5

\* The declarations that apply are places of declarations, and finitely many.
LEMMA PushedIs ==
  ASSUME NEW rules, NEW weight, NEW M, NEW Properties, NEW Terms, SheetOK(rules, weight, M, Properties, Terms)
  PROVE  /\ \A x \in Sheet!Pushed(rules, weight) :
              /\ x[1] \in M /\ x[1] \in Nat /\ x[2] \in Nat /\ x = <<x[1], x[2]>> /\ weight[x[1]] \in Triple
              /\ Sheet!Declaration(rules, x) \in Decls(Properties, Terms)
         /\ IsFiniteSet(Sheet!Pushed(rules, weight))
<1> DEFINE Of(i) == {i} \X DOMAIN rules[i].declarations
           All == {Of(i) : i \in M}
<1>1. \A i \in M : rules[i].declarations \in Seq(Decls(Properties, Terms)) /\ i \in Nat /\ weight[i] \in Triple
  BY DEF SheetOK
<1>2. Sheet!Pushed(rules, weight) = UNION All
  BY DEF SheetOK, Sheet!Pushed
<1>3. ASSUME NEW x \in UNION All
      PROVE  /\ x[1] \in M /\ x[1] \in Nat /\ x[2] \in Nat /\ x = <<x[1], x[2]>> /\ weight[x[1]] \in Triple
             /\ Sheet!Declaration(rules, x) \in Decls(Properties, Terms)
  <2>1. PICK i \in M : x \in Of(i)
    BY <1>3
  <2>2. PICK ds \in Seq(Decls(Properties, Terms)) : ds = rules[i].declarations
    BY <1>1
  <2>3. PICK j \in DOMAIN ds : x = <<i, j>>
    BY <2>1, <2>2
  <2>4. x[1] = i /\ x[2] = j /\ j \in Nat /\ ds[j] \in Decls(Properties, Terms)
    BY <2>3
  <2> QED BY <1>1, <2>2, <2>3, <2>4 DEF Sheet!Declaration
<1>4. IsFiniteSet(UNION All)
  <2>1. IsFiniteSet(All)
    <3> DEFINE f == [i \in M |-> Of(i)]
    <3>1. f \in [M -> All] /\ \A y \in All : \E i \in M : f[i] = y
      OBVIOUS
    <3> HIDE DEF f, All
    <3>2. f \in Surjection(M, All)
      BY <3>1 DEF Surjection
    <3>3. IsFiniteSet(M)
      BY DEF SheetOK
    <3> QED BY <3>2, <3>3, FS_Surjection
  <2>2. \A i \in M : IsFiniteSet(Of(i))
    <3> TAKE i \in M
    <3>1. PICK ds \in Seq(Decls(Properties, Terms)) : ds = rules[i].declarations
      BY <1>1
    <3>2. IsFiniteSet(1 .. Len(ds))
      BY FS_Interval
    <3>3. DOMAIN ds = 1 .. Len(ds)
      OBVIOUS
    <3>4. IsFiniteSet({i})
      BY FS_Singleton
    <3>5. IsFiniteSet({i} \X DOMAIN ds)
      BY <3>2, <3>3, <3>4, FS_Product
    <3> QED BY <3>1, <3>5
  <2>3. \A T \in All : IsFiniteSet(T)
    <3> HIDE DEF Of
    <3> QED BY <2>2
  <2> HIDE DEF All
  <2> QED BY <2>1, <2>3, FS_UNION
<1> HIDE DEF All
<1> QED BY <1>2, <1>3, <1>4

\* The sort key orders them linearly: by weight, then the rule, then the place in it.
EarlierPairs(S, weight) == {z \in S \X S : Sheet!Earlier(weight, z[1], z[2])}

\* No two declarations that apply are left in no order.
LEMMA EarlierOrders ==
  ASSUME NEW rules, NEW weight, NEW M, NEW Properties, NEW Terms, SheetOK(rules, weight, M, Properties, Terms),
         NEW S, S = Sheet!Pushed(rules, weight)
  PROVE  /\ StrictOrder(S, EarlierPairs(S, weight))
         /\ \A x, y \in S : <<x, y>> \in EarlierPairs(S, weight) <=> Sheet!Earlier(weight, x, y)
<1> DEFINE B == EarlierPairs(S, weight)
           E(x, y) == Sheet!Earlier(weight, x, y)
           I(x, y) == Sheet!InOrder(x, y)
           W(x) == weight[x[1]]
<1>1. \A x \in S : x[1] \in Nat /\ x[2] \in Nat /\ x = <<x[1], x[2]>> /\ W(x) \in Triple
  BY PushedIs
<1>2. \A x, y \in S : <<x, y>> \in B <=> E(x, y)
  <2> TAKE x, y \in S
  <2>1. PICK z : z = <<x, y>>
    OBVIOUS
  <2>2. z \in S \X S /\ z[1] = x /\ z[2] = y
    BY <2>1
  <2> HIDE DEF E
  <2> QED BY <2>1, <2>2 DEF EarlierPairs, E
<1>3. \A x, y, z \in S : ~ I(x, x) /\ (I(x, y) /\ I(y, z) => I(x, z)) /\ (x = y \/ I(x, y) \/ I(y, x))
  <2> TAKE x, y, z \in S
  <2>1. /\ x[1] \in Nat /\ x[2] \in Nat /\ y[1] \in Nat /\ y[2] \in Nat /\ z[1] \in Nat /\ z[2] \in Nat
        /\ x = <<x[1], x[2]>> /\ y = <<y[1], y[2]>>
    BY <1>1
  <2>2. ~ I(x, x) /\ (I(x, y) /\ I(y, z) => I(x, z))
    BY <2>1 DEF Sheet!InOrder
  <2>3. x[1] = y[1] /\ x[2] = y[2] => x = y
    BY <2>1
  <2>4. x = y \/ I(x, y) \/ I(y, x)
    BY <2>1, <2>3 DEF Sheet!InOrder
  <2> QED BY <2>2, <2>4
<1>4. \A x, y \in S : E(x, y) <=> Sheet!Lighter(W(x), W(y)) \/ (W(x) = W(y) /\ I(x, y))
  BY DEF Sheet!Earlier
<1>5. \A x, y, z \in S : /\ ~ Sheet!Lighter(W(x), W(x))
                         /\ Sheet!Lighter(W(x), W(y)) /\ Sheet!Lighter(W(y), W(z)) => Sheet!Lighter(W(x), W(z))
                         /\ W(x) = W(y) \/ Sheet!Lighter(W(x), W(y)) \/ Sheet!Lighter(W(y), W(x))
  <2> TAKE x, y, z \in S
  <2>1. W(x) \in Triple /\ W(y) \in Triple /\ W(z) \in Triple
    BY <1>1
  <2> HIDE DEF W
  <2> QED BY <2>1, LighterOrders
<1> HIDE DEF B, E, I, W
<1>6. \A x \in S : <<x, x>> \notin B
  BY <1>2, <1>3, <1>4, <1>5
<1>7. \A x, y, z \in S : <<x, y>> \in B /\ <<y, z>> \in B => <<x, z>> \in B
  <2> TAKE x, y, z \in S
  <2>1. E(x, y) /\ E(y, z) => E(x, z)
    BY <1>3, <1>4, <1>5
  <2> QED BY <1>2, <2>1
<1>8. \A x, y \in S : x = y \/ <<x, y>> \in B \/ <<y, x>> \in B
  <2> TAKE x, y \in S
  <2>1. x = y \/ E(x, y) \/ E(y, x)
    BY <1>3, <1>4, <1>5
  <2> QED BY <1>2, <2>1
<1>9. StrictOrder(S, B)
  BY <1>6, <1>7, <1>8 DEF StrictOrder
<1> QED BY <1>2, <1>9 DEF B, E

\* What a style may be
Styles(Properties, Terms) == UNION {[D -> Terms] : D \in SUBSET Properties}

\* To set a property makes a style of a style.
LEMMA SetTyped ==
  ASSUME NEW Properties, NEW Terms, NEW style \in Styles(Properties, Terms), NEW p \in Properties, NEW v \in Terms,
         NEW t, t = Sheet!Set(style, p, v)
  PROVE  t \in Styles(Properties, Terms)
<1>1. PICK D \in SUBSET Properties : style \in [D -> Terms]
  BY DEF Styles
<1>2. t = [q \in D \cup {p} |-> IF q = p THEN v ELSE style[q]]
  BY <1>1 DEF Sheet!Set
<1>3. t \in [D \cup {p} -> Terms] /\ D \cup {p} \in SUBSET Properties
  BY <1>1, <1>2
<1> QED BY <1>3 DEF Styles

\* A style t after the first k declarations of ds were set in one: each property has
\* what was declared last, and what it had before if nothing was.
Told(k, ds, style, t) ==
  /\ DOMAIN t = DOMAIN style \cup {ds[j].property : j \in 1 .. k}
  /\ \A j \in 1 .. k : (\A i \in 1 .. k : ds[i].property = ds[j].property => i <= j)
                         => t[ds[j].property] = ds[j].value
  /\ \A p \in DOMAIN style : (\A j \in 1 .. k : ds[j].property # p) => t[p] = style[p]

\* One more declaration goes the same way.
LEMMA ToldGoesOn ==
  ASSUME NEW Properties, NEW Terms, NEW style \in Styles(Properties, Terms),
         NEW ds \in Seq(Decls(Properties, Terms)), NEW k \in Nat, k + 1 \in DOMAIN ds,
         NEW s \in Styles(Properties, Terms), Told(k, ds, style, s),
         NEW p, p = ds[k + 1].property, NEW v, v = ds[k + 1].value,
         NEW t, DOMAIN t = DOMAIN s \cup {p}, t[p] = v, \A q \in DOMAIN s : q # p => t[q] = s[q]
  PROVE  Told(k + 1, ds, style, t)
<1>1. p = ds[k + 1].property
  OBVIOUS
<1>2. v = ds[k + 1].value
  OBVIOUS
<1>3. /\ DOMAIN t = DOMAIN s \cup {p}
      /\ t[p] = v
      /\ \A q \in DOMAIN s : q # p => t[q] = s[q]
  OBVIOUS
<1>4. /\ \A j \in 1 .. k + 1 : j \in 1 .. k \/ j = k + 1
      /\ \A j \in 1 .. k : j \in 1 .. k + 1 /\ ~ (k + 1 <= j)
      /\ k + 1 \in 1 .. k + 1
  OBVIOUS
<1>5. /\ DOMAIN s = DOMAIN style \cup {ds[j].property : j \in 1 .. k}
      /\ \A j \in 1 .. k : (\A i \in 1 .. k : ds[i].property = ds[j].property => i <= j)
                             => s[ds[j].property] = ds[j].value
      /\ \A q \in DOMAIN style : (\A j \in 1 .. k : ds[j].property # q) => s[q] = style[q]
  BY DEF Told
<1>6. DOMAIN t = DOMAIN style \cup {ds[j].property : j \in 1 .. k + 1}
  BY <1>1, <1>3, <1>4, <1>5
<1>7. ASSUME NEW j \in 1 .. k + 1, \A i \in 1 .. k + 1 : ds[i].property = ds[j].property => i <= j
      PROVE  t[ds[j].property] = ds[j].value
  <2>1. CASE j = k + 1
    BY <1>1, <1>2, <1>3, <2>1
  <2>2. CASE j \in 1 .. k
    <3>1. PICK q : q = ds[j].property
      OBVIOUS
    <3>2. q # p
      BY <1>1, <1>4, <1>7, <2>2, <3>1
    <3>3. s[q] = ds[j].value
      BY <1>4, <1>5, <1>7, <2>2, <3>1
    <3>4. q \in DOMAIN s
      BY <1>5, <2>2, <3>1
    <3> QED BY <1>3, <3>1, <3>2, <3>3, <3>4
  <2> QED BY <1>4, <2>1, <2>2
<1>8. ASSUME NEW q \in DOMAIN style, \A j \in 1 .. k + 1 : ds[j].property # q
      PROVE  t[q] = style[q]
  <2>1. q # p
    BY <1>1, <1>4, <1>8
  <2>2. s[q] = style[q]
    BY <1>4, <1>5, <1>8
  <2>3. q \in DOMAIN s
    BY <1>5
  <2> QED BY <1>3, <2>1, <2>2, <2>3
<1>9. Told(k + 1, ds, style, t)
  BY <1>6, <1>7, <1>8 DEF Told
<1> QED BY <1>9

\* Every declaration of a block is set in turn.
LEMMA SetAllIs ==
  ASSUME NEW Properties, NEW Terms, NEW style \in Styles(Properties, Terms),
         NEW ds \in Seq(Decls(Properties, Terms)), NEW t, t = Sheet!SetAll(style, ds)
  PROVE  t \in Styles(Properties, Terms) /\ Told(Len(ds), ds, style, t)
<1> DEFINE S == 0 .. Len(ds)
           V == Styles(Properties, Terms)
           rank == [k \in S |-> k]
           R == {r \in S \X S : r[1] < r[2]}
           a == [k \in S |-> IF k = 0 THEN 0 ELSE k - 1]
           With(s, k) == Sheet!Set(s, ds[k].property, ds[k].value)
           G == [y \in S \X V \X V |-> IF y[1] = 0 THEN style ELSE With(y[2], y[1])]
<1>1. Len(ds) \in Nat /\ DOMAIN ds = 1 .. Len(ds) /\ S \in SUBSET Nat
  OBVIOUS
<1>2. ASSUME NEW k \in S, k # 0, NEW s \in V
      PROVE  /\ With(s, k) \in V
             /\ DOMAIN With(s, k) = DOMAIN s \cup {ds[k].property}
             /\ With(s, k)[ds[k].property] = ds[k].value
             /\ \A q \in DOMAIN s : q # ds[k].property => With(s, k)[q] = s[q]
  <2>1. ds[k] \in Decls(Properties, Terms)
    BY <1>2
  <2>2. PICK d \in Decls(Properties, Terms) : d = ds[k]
    BY <2>1
  <2>3. d.property \in Properties /\ d.value \in Terms
    BY DEF Decls
  <2>4. PICK p \in Properties : p = d.property
    BY <2>3
  <2>5. PICK v \in Terms : v = d.value
    BY <2>3
  <2>6. PICK r : r = Sheet!Set(s, p, v)
    OBVIOUS
  <2>7. /\ r \in Styles(Properties, Terms)
        /\ DOMAIN r = DOMAIN s \cup {p}
        /\ r[p] = v
        /\ \A q \in DOMAIN s : q # p => r[q] = s[q]
    <3>1. r \in Styles(Properties, Terms)
      BY <2>6, SetTyped
    <3>2. r = [q \in DOMAIN s \cup {p} |-> IF q = p THEN v ELSE s[q]]
      BY <2>6 DEF Sheet!Set
    <3> HIDE DEF V
    <3> QED BY <3>1, <3>2
  <2>8. With(s, k) = r
    BY <2>2, <2>4, <2>5, <2>6
  <2> HIDE DEF With
  <2> QED BY <2>2, <2>4, <2>5, <2>7, <2>8
<1>3. Grounded(S, R)
  <2>1. Counts(S, rank, R)
    BY <1>1 DEF Counts
  <2> HIDE DEF S, R, rank
  <2> QED BY <2>1, CountsGrounded
<1>4. Down(S, R, {0}, a, a)
  <2>1. a \in [S -> S]
    BY <1>1
  <2>2. ASSUME NEW k \in S \ {0} PROVE <<a[k], k>> \in R
    BY <1>1
  <2> HIDE DEF S, R, a
  <2> QED BY <2>1, <2>2 DEF Down
<1>5. G \in [S \X V \X V -> V]
  <2>1. ASSUME NEW y \in S \X V \X V PROVE G[y] \in V
    <3>1. y[1] \in S /\ y[2] \in V
      OBVIOUS
    <3> HIDE DEF S, V, With
    <3> QED BY <1>2, <3>1 DEF V
  <2> HIDE DEF S, V, With
  <2> QED BY <2>1
<1>6. PICK f \in [S -> V] : Solves(f, S, {0}, style, G, a, a)
  <2> HIDE DEF S, R, a, G
  <2> QED BY <1>3, <1>4, <1>5, TwoCalls
<1>7. \A k \in S : f[k] = IF k = 0 THEN style ELSE With(f[k - 1], k)
  <2> TAKE k \in S
  <2>1. CASE k = 0
    <3> HIDE DEF S, V, a, G
    <3> QED BY <1>6, <2>1 DEF Solves
  <2>2. CASE k # 0
    <3>1. a[k] = k - 1 /\ a[k] \in S
      BY <1>1, <2>2
    <3> HIDE DEF S, V, a, G, With
    <3>2. f[k] = G[<<k, f[a[k]], f[a[k]]>>]
      BY <1>6, <2>2 DEF Solves
    <3>3. <<k, f[a[k]], f[a[k]]>> \in S \X V \X V
      BY <1>6, <3>1
    <3>4. G[<<k, f[a[k]], f[a[k]]>>] = With(f[a[k]], k)
      BY <2>2, <3>3 DEF G
    <3> QED BY <2>2, <3>1, <3>2, <3>4
  <2> QED BY <2>1, <2>2
<1> DEFINE Eq(g) == g = [k \in 0 .. Len(ds) |-> IF k = 0 THEN style ELSE With(g[k - 1], k)]
           w == CHOOSE g : Eq(g)
<1>8. Eq(f)
  <2> DEFINE h == [k \in 0 .. Len(ds) |-> IF k = 0 THEN style ELSE With(f[k - 1], k)]
  <2>1. \A k \in S : f[k] = h[k]
    BY <1>7
  <2>2. f = [k \in S |-> f[k]] /\ h = [k \in S |-> h[k]]
    OBVIOUS
  <2> HIDE DEF h, V, S
  <2>3. f = h
    BY <2>1, <2>2
  <2> QED BY <2>3 DEF h
<1>9. Eq(w)
  <2> HIDE DEF Eq
  <2> QED BY <1>8
<1>10. t = w[Len(ds)]
  BY DEF Sheet!SetAll
<1>11. \A k \in S : w[k] = IF k = 0 THEN style ELSE With(w[k - 1], k)
  <2> HIDE DEF w, With
  <2> QED BY <1>9
<1> HIDE DEF w, Eq
<1> DEFINE Fine(k) == w[k] \in V /\ Told(k, ds, style, w[k])
<1>12. Fine(0)
  <2>1. w[0] = style /\ 0 \in S
    BY <1>1, <1>11
  <2>2. 1 .. 0 = {}
    OBVIOUS
  <2> QED BY <2>1, <2>2 DEF Told
<1>13. ASSUME NEW k \in Nat, k + 1 \in S, Fine(k) PROVE Fine(k + 1)
  <2>1. w[k + 1] = With(w[k], k + 1)
    BY <1>1, <1>11, <1>13
  <2>2. k + 1 \in DOMAIN ds /\ k + 1 # 0
    BY <1>1, <1>13
  <2>3. /\ w[k + 1] \in V
        /\ DOMAIN w[k + 1] = DOMAIN w[k] \cup {ds[k + 1].property}
        /\ w[k + 1][ds[k + 1].property] = ds[k + 1].value
        /\ \A q \in DOMAIN w[k] : q # ds[k + 1].property => w[k + 1][q] = w[k][q]
    <3> HIDE DEF S, V, With
    <3>1. PICK s \in V : s = w[k]
      BY <1>13
    <3>2. PICK n \in S : n = k + 1
      BY <1>13
    <3>3. PICK r : r = With(s, n)
      OBVIOUS
    <3>4. /\ r \in V
          /\ DOMAIN r = DOMAIN s \cup {ds[n].property}
          /\ r[ds[n].property] = ds[n].value
          /\ \A q \in DOMAIN s : q # ds[n].property => r[q] = s[q]
      BY <1>2, <2>2, <3>2, <3>3
    <3>5. w[k + 1] = r
      BY <2>1, <3>1, <3>2, <3>3
    <3> QED BY <3>1, <3>2, <3>4, <3>5
  <2>4. PICK s \in V : s = w[k] /\ Told(k, ds, style, s)
    BY <1>13
  <2>5. PICK r \in V : r = w[k + 1]
    BY <2>3
  <2>6. Told(k + 1, ds, style, r)
    <3>1. PICK p : p = ds[k + 1].property
      OBVIOUS
    <3>2. PICK v : v = ds[k + 1].value
      OBVIOUS
    <3>3. DOMAIN r = DOMAIN s \cup {p} /\ r[p] = v /\ \A q \in DOMAIN s : q # p => r[q] = s[q]
      BY <2>3, <2>4, <2>5, <3>1, <3>2
    <3> QED BY <2>2, <2>4, <3>1, <3>2, <3>3, ToldGoesOn
  <2> QED BY <2>5, <2>6
<1>14. \A k \in S : Fine(k)
  <2> DEFINE Bad == {k \in S : ~ Fine(k)}
  <2> HIDE DEF Fine
  <2> SUFFICES ASSUME Bad # {} PROVE FALSE
    OBVIOUS
  <2>1. PICK k \in Bad : \A j \in Bad : k <= j
    <3>1. Bad \in SUBSET Nat
      BY <1>1
    <3> HIDE DEF Bad
    <3> QED BY <3>1, Smallest
  <2>2. k # 0 /\ k \in S
    BY <1>12, <2>1
  <2>3. k - 1 \in S /\ k - 1 \in Nat /\ (k - 1) + 1 = k /\ ~ (k <= k - 1)
    BY <1>1, <2>2
  <2>4. Fine(k - 1)
    BY <2>1, <2>3
  <2>5. Fine((k - 1) + 1)
    BY <1>13, <2>2, <2>3, <2>4
  <2> QED BY <2>1, <2>3, <2>5
<1>15. Fine(Len(ds))
  BY <1>1, <1>14
<1> QED BY <1>10, <1>15

\* A property that is declared has a last declaration.
LEMMA HasLast ==
  ASSUME NEW Properties, NEW Terms, NEW ds \in Seq(Decls(Properties, Terms)),
         NEW j \in DOMAIN ds
  PROVE  Sheet!Final(ds[j].property, ds) # {}
<1> DEFINE p == ds[j].property
           n == Len(ds)
           J == {i \in DOMAIN ds : ds[i].property = p}
           N == {n - i : i \in J}
<1>1. n \in Nat /\ DOMAIN ds = 1 .. n
  OBVIOUS
<1>2. J \subseteq 1 .. n /\ j \in J
  BY <1>1
<1>3. N \in SUBSET Nat /\ N # {}
  <2> HIDE DEF J, n
  <2> QED BY <1>1, <1>2
<1>4. PICK m \in N : \A k \in N : m <= k
  <2> HIDE DEF N
  <2> QED BY <1>3, Smallest
<1>5. PICK l \in J : m = n - l
  OBVIOUS
<1>6. \A i \in J : i <= l
  <2> TAKE i \in J
  <2>1. n - l <= n - i
    BY <1>4, <1>5
  <2> HIDE DEF J, n
  <2> QED BY <1>1, <1>2, <2>1
<1>7. l \in Sheet!Final(p, ds)
  BY <1>6 DEF Sheet!Final
<1> QED BY <1>7

\* How much is in a set, from within Declarations
LEMMA SheetSize == \A T : Sheet!Cardinality(T) = Cardinality(T)
BY DEF Sheet!Cardinality, Cardinality

\* What the rules declare, in the order it is applied: everything, what outweighs later.
LEMMA DeclaredIs ==
  ASSUME NEW rules, NEW weight, NEW M, NEW Properties, NEW Terms, SheetOK(rules, weight, M, Properties, Terms),
         NEW S, S = Sheet!Pushed(rules, weight), NEW ds, ds = Sheet!Declared(rules, weight)
  PROVE  /\ ds \in Seq(Decls(Properties, Terms))
         /\ \E s : /\ DOMAIN s = DOMAIN ds
                   /\ \A k \in DOMAIN ds : s[k] \in S /\ ds[k] = Sheet!Declaration(rules, s[k])
                   /\ \A x \in S : \E k \in DOMAIN ds : s[k] = x
                   /\ \A i, k \in DOMAIN ds : i < k => Sheet!Earlier(weight, s[i], s[k])
<1> DEFINE B == EarlierPairs(S, weight)
           n == Cardinality(S)
           s == [i \in 1 .. n |->
                   CHOOSE x \in S : Cardinality({y \in S : Sheet!Earlier(weight, y, x)}) = i - 1]
<1>1. ds = [k \in DOMAIN s |-> Sheet!Declaration(rules, s[k])]
  <2> DEFINE o == [i \in 1 .. Sheet!Cardinality(S) |->
                     CHOOSE x \in S : Sheet!Cardinality({y \in S : Sheet!Earlier(weight, y, x)}) = i - 1]
  <2>1. ds = [k \in DOMAIN o |-> Sheet!Declaration(rules, o[k])]
    BY DEF Sheet!Declared, Sheet!Sorted
  <2>2. o = s
    <3> DEFINE P(i, x) == Sheet!Cardinality({y \in S : Sheet!Earlier(weight, y, x)}) = i - 1
               Q(i, x) == Cardinality({y \in S : Sheet!Earlier(weight, y, x)}) = i - 1
    <3>1. \A i, x : P(i, x) <=> Q(i, x)
      <4> TAKE i, x
      <4>1. PICK T : T = {y \in S : Sheet!Earlier(weight, y, x)}
        OBVIOUS
      <4>2. Sheet!Cardinality(T) = Cardinality(T)
        BY SheetSize
      <4> QED BY <4>1, <4>2
    <3>2. Sheet!Cardinality(S) = Cardinality(S)
      BY SheetSize
    <3> HIDE DEF P, Q
    <3>3. \A i : (CHOOSE x \in S : P(i, x)) = CHOOSE x \in S : Q(i, x)
      BY <3>1
    <3>4. [i \in 1 .. Sheet!Cardinality(S) |-> CHOOSE x \in S : P(i, x)]
            = [i \in 1 .. Cardinality(S) |-> CHOOSE x \in S : Q(i, x)]
      BY <3>2, <3>3
    <3> QED BY <3>4 DEF P, Q
  <2> HIDE DEF o, s
  <2> QED BY <2>1, <2>2
<1>2. StrictOrder(S, B) /\ \A x, y \in S : <<x, y>> \in B <=> Sheet!Earlier(weight, x, y)
  BY EarlierOrders
<1>3. \A x \in S : {y \in S : Sheet!Earlier(weight, y, x)} = BelowIn(S, B, x)
  <2> HIDE DEF B
  <2> QED BY <1>2 DEF BelowIn
<1>4. \A i \in 1 .. n : s[i] = CHOOSE x \in S : RankIn(S, B, x) = i - 1
  <2> TAKE i \in 1 .. n
  <2>1. \A x \in S : Cardinality({y \in S : Sheet!Earlier(weight, y, x)}) = i - 1 <=> RankIn(S, B, x) = i - 1
    BY <1>3 DEF RankIn
  <2>2. (CHOOSE x \in S : Cardinality({y \in S : Sheet!Earlier(weight, y, x)}) = i - 1)
          = CHOOSE x \in S : RankIn(S, B, x) = i - 1
    <3> DEFINE P(x) == Cardinality({y \in S : Sheet!Earlier(weight, y, x)}) = i - 1
               Q(x) == RankIn(S, B, x) = i - 1
    <3> HIDE DEF P, Q
    <3>1. \A x \in S : P(x) <=> Q(x)
      BY <2>1 DEF P, Q
    <3>2. (CHOOSE x \in S : P(x)) = CHOOSE x \in S : Q(x)
      BY <3>1
    <3> QED BY <3>2 DEF P, Q
  <2> QED BY <2>2
<1>5. DOMAIN s = 1 .. n
  OBVIOUS
<1>6. PICK r : r = s
  OBVIOUS
<1> HIDE DEF s
<1>7. RankedBy(r, S, B)
  BY <1>4, <1>5, <1>6 DEF RankedBy
<1>8. IsFiniteSet(S)
  BY PushedIs
<1> HIDE DEF B
<1>9. /\ Cardinality(S) \in Nat
      /\ \A i \in DOMAIN r : r[i] \in S
      /\ \A x \in S : \E i \in DOMAIN r : r[i] = x
      /\ \A i, j \in DOMAIN r : i < j => <<r[i], r[j]>> \in B
  BY <1>2, <1>7, <1>8, RankedIsSorted
<1>10. DOMAIN ds = 1 .. n /\ DOMAIN r = 1 .. n /\ \A k \in 1 .. n : ds[k] = Sheet!Declaration(rules, r[k])
  BY <1>1, <1>5, <1>6
<1>11. ds \in Seq(Decls(Properties, Terms))
  <2>1. \A k \in 1 .. n : Sheet!Declaration(rules, r[k]) \in Decls(Properties, Terms)
    BY <1>9, <1>10, PushedIs
  <2>2. ds = [k \in 1 .. n |-> ds[k]] /\ \A k \in 1 .. n : ds[k] \in Decls(Properties, Terms)
    BY <1>1, <1>5, <1>10, <2>1
  <2>3. n \in Nat
    BY <1>9
  <2> HIDE DEF n
  <2>4. ds \in [1 .. n -> Decls(Properties, Terms)]
    BY <2>2
  <2> QED BY <2>3, <2>4, SeqDef
<1>12. \A i, k \in DOMAIN ds : i < k => Sheet!Earlier(weight, r[i], r[k])
  BY <1>2, <1>9, <1>10
<1>13. /\ DOMAIN r = DOMAIN ds
       /\ \A k \in DOMAIN ds : r[k] \in S /\ ds[k] = Sheet!Declaration(rules, r[k])
       /\ \A x \in S : \E k \in DOMAIN ds : r[k] = x
  BY <1>9, <1>10
<1> QED BY <1>11, <1>12, <1>13

\* The style of an element, for any number of rules that match it, of declarations, and of
\* specificities: of each property that is declared, the last in the style attribute counts,
\* and failing that the one nothing outweighs, by specificity, then the later rule, then the
\* later declaration (compute_style in lib.rs of css); and no property is made up.
THEOREM HeaviestDeclaration ==
  ASSUME NEW rules, NEW weight, NEW M, NEW Properties, NEW Terms, SheetOK(rules, weight, M, Properties, Terms),
         NEW inline \in Seq(Decls(Properties, Terms))
  PROVE  Sheet!SpecifiedWell(rules, weight, inline, Sheet!Specified(rules, weight, inline))
<1>1. PICK S : S = Sheet!Pushed(rules, weight)
  OBVIOUS
<1>2. PICK ds : ds = Sheet!Declared(rules, weight)
  OBVIOUS
<1>3. ds \in Seq(Decls(Properties, Terms))
  BY <1>1, <1>2, DeclaredIs
<1>4. PICK s : /\ DOMAIN s = DOMAIN ds
               /\ \A k \in DOMAIN ds : s[k] \in S /\ ds[k] = Sheet!Declaration(rules, s[k])
               /\ \A x \in S : \E k \in DOMAIN ds : s[k] = x
               /\ \A i, k \in DOMAIN ds : i < k => Sheet!Earlier(weight, s[i], s[k])
  BY <1>1, <1>2, DeclaredIs
<1>5. Sheet!NoStyle \in Styles(Properties, Terms) /\ DOMAIN Sheet!NoStyle = {}
  <2>1. Sheet!NoStyle = [p \in {} |-> <<>>]
    BY DEF Sheet!NoStyle
  <2>2. [p \in {} |-> <<>>] \in [{} -> Terms] /\ DOMAIN [p \in {} |-> <<>>] = {}
    OBVIOUS
  <2>3. {} \in SUBSET Properties
    OBVIOUS
  <2> QED BY <2>1, <2>2, <2>3 DEF Styles
<1>6. PICK t : t = Sheet!SetAll(Sheet!NoStyle, ds)
  OBVIOUS
<1>7. t \in Styles(Properties, Terms) /\ Told(Len(ds), ds, Sheet!NoStyle, t)
  BY <1>3, <1>5, <1>6, SetAllIs
<1>8. PICK u : u = Sheet!SetAll(t, inline)
  OBVIOUS
<1>9. Told(Len(inline), inline, t, u)
  BY <1>7, <1>8, SetAllIs
<1>10. Sheet!Specified(rules, weight, inline) = u
  BY <1>2, <1>6, <1>8 DEF Sheet!Specified
<1>11. DOMAIN ds = 1 .. Len(ds) /\ DOMAIN inline = 1 .. Len(inline) /\ \A k \in DOMAIN ds : k \in Nat
  BY <1>3
<1>12. /\ DOMAIN t = {ds[k].property : k \in DOMAIN ds}
       /\ \A k \in DOMAIN ds : (\A i \in DOMAIN ds : ds[i].property = ds[k].property => i <= k)
                                 => t[ds[k].property] = ds[k].value
  BY <1>5, <1>7, <1>11 DEF Told
<1>13. /\ DOMAIN u = DOMAIN t \cup {inline[j].property : j \in DOMAIN inline}
       /\ \A j \in DOMAIN inline : (\A i \in DOMAIN inline : inline[i].property = inline[j].property => i <= j)
                                     => u[inline[j].property] = inline[j].value
       /\ \A p \in DOMAIN t : (\A j \in DOMAIN inline : inline[j].property # p) => u[p] = t[p]
  BY <1>9, <1>11 DEF Told
<1>14. {ds[k].property : k \in DOMAIN ds} = {Sheet!Declaration(rules, x).property : x \in S}
  <2>1. \A k \in DOMAIN ds : \E x \in S : ds[k].property = Sheet!Declaration(rules, x).property
    BY <1>4
  <2>2. \A x \in S : \E k \in DOMAIN ds : ds[k].property = Sheet!Declaration(rules, x).property
    BY <1>4
  <2> QED BY <2>1, <2>2
<1>15. ASSUME NEW p \in DOMAIN u, NEW j \in Sheet!Final(p, inline) PROVE u[p] = inline[j].value
  BY <1>13, <1>15 DEF Sheet!Final
<1>16. ASSUME NEW p \in DOMAIN u, Sheet!Final(p, inline) = {}
       PROVE  \E x \in Sheet!Heaviest(p, rules, weight) : u[p] = Sheet!Declaration(rules, x).value
  <2>1. \A j \in DOMAIN inline : inline[j].property # p
    BY <1>16, HasLast
  <2>2. p \in DOMAIN t /\ u[p] = t[p]
    BY <1>13, <2>1
  <2>3. PICK i \in DOMAIN ds : ds[i].property = p
    BY <1>12, <2>2
  <2>4. PICK k : k \in Sheet!Final(p, ds)
    BY <1>3, <2>3, HasLast
  <2>5. /\ k \in DOMAIN ds /\ ds[k].property = p
        /\ \A m \in DOMAIN ds : ds[m].property = p => m <= k
    BY <2>4 DEF Sheet!Final
  <2>6. t[p] = ds[k].value
    BY <1>12, <2>5
  <2>7. s[k] \in S /\ ds[k] = Sheet!Declaration(rules, s[k])
    BY <1>4, <2>5
  <2>8. ASSUME NEW y \in S, Sheet!Declaration(rules, y).property = p
        PROVE  y = s[k] \/ Sheet!Earlier(weight, y, s[k])
    <3>1. PICK m \in DOMAIN ds : s[m] = y
      BY <1>4
    <3>2. ds[m].property = p
      BY <1>4, <2>8, <3>1
    <3>3. m <= k /\ m \in Nat /\ k \in Nat
      BY <1>11, <2>5, <3>2
    <3>4. m = k \/ m < k
      BY <3>3
    <3> QED BY <1>4, <2>5, <3>1, <3>4
  <2>9. s[k] \in Sheet!Heaviest(p, rules, weight)
    BY <1>1, <2>5, <2>7, <2>8 DEF Sheet!Heaviest
  <2> QED BY <2>2, <2>6, <2>7, <2>9
<1>17. Sheet!SpecifiedWell(rules, weight, inline, u)
  BY <1>1, <1>12, <1>13, <1>14, <1>15, <1>16 DEF Sheet!SpecifiedWell
<1> QED BY <1>10, <1>17
=============================================================================
