-------------------------- MODULE RendererPoolProofs --------------------------
(***************************************************************************)
(* Theorems about RendererPool, for every set of sites and pages and every *)
(* bound: type correctness, the tab strip, the pool, and the invariants    *)
(* that make the pairing of requests and replies over I/O threads correct. *)
(***************************************************************************)
EXTENDS RendererPool, TLAPS, SequenceTheorems

-----------------------------------------------------------------------------
(* The inductive invariant                                                 *)

\* What a blocked UI thread is waiting for.
Awaits(pc) ==
  CASE pc = "action"  -> {"action"}
    [] pc = "render"  -> {"navigate"}
    [] pc = "ticking" -> {"tick"}
    [] OTHER          -> {"close"}

UiOK ==
  /\ ui \in Blocked => /\ call \in Call
                       /\ call.kind \in Awaits(ui)
                       /\ call.url \in IF ui = "render" THEN Urls ELSE {NoUrl}
  /\ ui \in {"closingOld", "apply"} => outcome \in Outcome

\* Request and reply under an id answer a message of kind k of tab t for page u.
Matches(p, id, t, k, u) ==
  /\ id < p.next
  /\ \A i \in DOMAIN p.queue :
       p.queue[i].id = id => /\ p.queue[i].tab = t
                             /\ p.queue[i].kind = k
                             /\ p.queue[i].url = u
  /\ \A r \in p.replies :
       r.id = id => /\ r.tab = t
                    /\ r.kind \in RepliesOf(k)
                    /\ k = "navigate" /\ r.kind = "rendered" => r.page = u

\* Every id in use was handed out by queue_request.
IdsBelow(p) == /\ \A i \in DOMAIN p.queue : p.queue[i].id < p.next
               /\ \A r \in p.replies : r.id < p.next
CallMatches ==
  ui \in Blocked => Matches(pool[call.site], call.id, call.tab, call.kind, call.url)

\* A well-formed pool that has seen n spawns.
PoolOK(P, n) == /\ P \in [Sites -> Process]
                /\ \A s \in Sites : /\ IdsBelow(P[s])
                                    /\ P[s].inc <= n
                                    /\ P[s].io # "none" => P[s].inc >= 1

Incarnations ==
  \A t \in TabIds : HasPending(t) => tab[t].pending.inc \in 1 .. spawns

PendingMatches ==
  \A t \in TabIds :
    LET n == tab[t].pending IN
    HasPending(t) /\ pool[n.site].inc = n.inc =>
      Matches(pool[n.site], n.id, t, "navigate", n.url)

Inv1 == TypeOK /\ UiOK /\ TabStripOK /\ PoolOK(pool, spawns)
Inv2 == /\ ReferencedSitesPooled
        /\ NoVainWait
        /\ CallMatches
        /\ Incarnations
        /\ PendingMatches
IInv == Inv1 /\ Inv2

-----------------------------------------------------------------------------
(* What each operation on one process keeps                                *)

\* q is p some steps later, in the same incarnation.
Evolves(p, q) ==
  /\ q \in Process
  /\ q.inc = p.inc
  /\ q.io = "none" <=> p.io = "none"
  /\ IdsBelow(q)
  /\ \A id \in Nat, t \in TabIds, k \in RequestKinds, u \in Urls \cup {NoUrl} :
       Matches(p, id, t, k, u) => Matches(q, id, t, k, u)

\* A wait for id on p is not in vain.
Answerable(p, id) == p.io = "exited" \/ InQueue(p, id) \/ Answers(p, id) # {}

\* A process stays one whatever well-typed queue and counter it is given.
LEMMA QueueTyped ==
  ASSUME NEW p \in Process, NEW n \in Nat, NEW Q \in Seq(Request)
  PROVE  [p EXCEPT !.next = n, !.queue = Q] \in Process
BY DEF Process

\* The page a message of kind k carries.
PagesOf(k) == IF k = "navigate" THEN Urls ELSE {NoUrl}

\* Queueing a message keeps the process, and the new id is that message's.
LEMMA EnqueueKeeps ==
  ASSUME NEW p \in Process, IdsBelow(p),
         NEW t \in TabIds, NEW k \in RequestKinds,
         NEW u \in PagesOf(k)
  PROVE  /\ Evolves(p, Enqueue(p, t, k, u))
         /\ Enqueue(p, t, k, u).io = p.io
         /\ Matches(Enqueue(p, t, k, u), p.next, t, k, u)
         /\ Answerable(Enqueue(p, t, k, u), p.next)
<1> DEFINE q == Enqueue(p, t, k, u)
           m == [id |-> p.next, tab |-> t, kind |-> k, url |-> u]
<1>1. m \in Request
  BY DEF PagesOf, Request, RequestKinds, Process
<1>2. /\ p.queue \in Seq(Request) /\ p.next \in Nat /\ p.replies \subseteq Reply
      /\ p.io \in IoStates /\ p.inc \in Nat /\ p.alive \in BOOLEAN
      /\ p.sessions \in [TabIds -> Urls \cup {NoUrl}]
  BY DEF Process
<1>3. /\ q.next = p.next + 1 /\ q.replies = p.replies /\ q.io = p.io /\ q.inc = p.inc
      /\ q.queue = IF p.io = "exited" THEN p.queue ELSE Append(p.queue, m)
  BY DEF Enqueue, Process
<1>4. q.queue \in Seq(Request)
  BY <1>1, <1>2, <1>3
<1>5. q \in Process
  <2> DEFINE Q == IF p.io = "exited" THEN p.queue ELSE Append(p.queue, m)
  <2>1. Q \in Seq(Request)
    BY <1>1, <1>2
  <2>2. q = [p EXCEPT !.next = p.next + 1, !.queue = Q]
    BY DEF Enqueue
  <2>3. p.next + 1 \in Nat
    BY <1>2
  <2> HIDE DEF Q
  <2>4. [p EXCEPT !.next = p.next + 1, !.queue = Q] \in Process
    BY ONLY <2>1, <2>3, p \in Process, QueueTyped
  <2> QED BY <2>2, <2>4
<1>6. ASSUME NEW i \in DOMAIN q.queue
      PROVE  q.queue[i] = m \/ (i \in DOMAIN p.queue /\ q.queue[i] = p.queue[i])
  BY <1>2, <1>3
<1>7. \A i \in DOMAIN p.queue : p.queue[i].id \in Nat
  BY <1>2 DEF Request
<1>12. \A r \in p.replies : r.id \in Nat
  BY <1>2 DEF Reply
<1>8. IdsBelow(q)
  BY <1>2, <1>3, <1>6, <1>7, <1>12 DEF IdsBelow
<1>9. ASSUME NEW id \in Nat, NEW t2 \in TabIds, NEW k2 \in RequestKinds,
             NEW u2 \in Urls \cup {NoUrl}, Matches(p, id, t2, k2, u2)
      PROVE  Matches(q, id, t2, k2, u2)
  BY <1>2, <1>3, <1>6, <1>9 DEF Matches
<1>10. Matches(q, p.next, t, k, u)
  BY <1>2, <1>3, <1>6, <1>7, <1>12 DEF Matches, IdsBelow
<1>11. Answerable(q, p.next)
  <2>1. CASE p.io = "exited"
    BY <2>1, <1>3 DEF Answerable
  <2>2. CASE p.io # "exited"
    <3>1. Len(q.queue) \in DOMAIN q.queue /\ q.queue[Len(q.queue)] = m
      BY <2>2, <1>2, <1>3
    <3> QED BY <3>1 DEF Answerable, InQueue
  <2> QED BY <2>1, <2>2
<1> QED BY <1>3, <1>5, <1>8, <1>9, <1>10, <1>11 DEF Evolves
\* What the child answers to a message fits the message.
AnswersTo(r, h) ==
  /\ r.id = h.id
  /\ r.tab = h.tab
  /\ r.kind \in RepliesOf(h.kind)
  /\ h.kind = "navigate" /\ r.kind = "rendered" => r.page = h.url

\* Moving the oldest message from the queue to the replies keeps the process,
\* and leaves no wait in vain.
LEMMA ConsumeKeeps ==
  ASSUME NEW p \in Process, IdsBelow(p), p.queue # <<>>, p.io # "exited", p.io # "none",
         NEW q \in Process, q.inc = p.inc, q.next = p.next, q.io # "none",
         q.queue = Tail(p.queue),
         NEW r \in Reply, AnswersTo(r, Head(p.queue)),
         q.replies = p.replies \cup {r}
  PROVE  /\ Evolves(p, q)
         /\ \A id \in Nat : Answerable(p, id) => Answerable(q, id)
<1>1. /\ p.queue \in Seq(Request) /\ p.next \in Nat /\ p.replies \subseteq Reply
  BY DEF Process
<1>2. /\ 1 \in DOMAIN p.queue
      /\ p.queue[1] = Head(p.queue)
      /\ \A i \in DOMAIN q.queue : i + 1 \in DOMAIN p.queue /\ q.queue[i] = p.queue[i + 1]
      /\ \A i \in DOMAIN p.queue : i # 1 => i - 1 \in DOMAIN q.queue /\ q.queue[i - 1] = p.queue[i]
  BY <1>1
<1>3. IdsBelow(q)
  BY <1>2 DEF IdsBelow, AnswersTo
<1>4. ASSUME NEW id \in Nat, NEW t \in TabIds, NEW k \in RequestKinds,
             NEW u \in Urls \cup {NoUrl}, Matches(p, id, t, k, u)
      PROVE  Matches(q, id, t, k, u)
  BY <1>2, <1>4 DEF Matches, AnswersTo
<1>5. ASSUME NEW id \in Nat, Answerable(p, id)
      PROVE  Answerable(q, id)
  <2>1. CASE Answers(p, id) # {}
    BY <2>1 DEF Answerable, Answers
  <2>2. CASE InQueue(p, id)
    <3>1. PICK i \in DOMAIN p.queue : p.queue[i].id = id
      BY <2>2 DEF InQueue
    <3>2. CASE i = 1
      BY <3>1, <3>2, <1>2 DEF Answerable, Answers, AnswersTo
    <3>3. CASE i # 1
      BY <3>1, <3>3, <1>2 DEF Answerable, InQueue
    <3> QED BY <3>2, <3>3
  <2> QED BY <1>5, <2>1, <2>2 DEF Answerable
<1> QED BY <1>3, <1>4, <1>5 DEF Evolves

\* A round trip keeps the process (run_renderer_io).
LEMMA AnsweredKeeps ==
  ASSUME NEW p \in Process, IdsBelow(p), p.queue # <<>>, p.io = "ready",
         NEW a \in RendererAnswers(p, Head(p.queue))
  PROVE  /\ Evolves(p, Answered(p, Head(p.queue), a))
         /\ \A id \in Nat : Answerable(p, id) => Answerable(Answered(p, Head(p.queue), a), id)
<1> DEFINE h == Head(p.queue)
           r == ReplyTo(h, a)
           q == Answered(p, h, a)
<1>1. /\ p.queue \in Seq(Request) /\ p.next \in Nat /\ p.replies \subseteq Reply
      /\ p.sessions \in [TabIds -> Urls \cup {NoUrl}]
  BY DEF Process
<1>2. h \in Request
  BY <1>1
<1>3. /\ h.id \in Nat /\ h.tab \in TabIds /\ h.kind \in RequestKinds
      /\ h.kind = "navigate" => h.url \in Urls
  BY <1>2 DEF Request, RequestKinds
<1>9. a \in RendererAnswers(p, h)
  OBVIOUS
<1>4. /\ a.kind \in ReplyKinds /\ a.timer \in BOOLEAN
      /\ a.kind = "rendered" => a.page \in Urls
      /\ a.kind # "rendered" => a.page = NoUrl
      /\ a.kind \in RepliesOf(h.kind)
      /\ h.kind = "navigate" /\ a.kind = "rendered" => a.page = h.url
  <2> HIDE DEF h
  <2>1. CASE h.kind = "navigate"
    <3>1. a \in [kind : {"rendered"}, page : {h.url}, timer : BOOLEAN]
                 \cup [kind : {"error"}, page : {NoUrl}, timer : {FALSE}]
      BY <2>1, <1>9 DEF RendererAnswers
    <3> QED BY <2>1, <3>1, <1>3 DEF ReplyKinds, RepliesOf
  <2>2. CASE h.kind = "close"
    <3>1. a \in [kind : {"closed"}, page : {NoUrl}, timer : {FALSE}]
      BY <2>2, <1>9 DEF RendererAnswers
    <3> QED BY <2>2, <3>1 DEF ReplyKinds, RepliesOf
  <2>3. CASE h.kind \notin {"navigate", "close"}
    <3>1. p.sessions[h.tab] \in Urls \cup {NoUrl}
      BY <1>1, <1>3
    <3>2. \/ a \in [kind : {"unchanged"}, page : {NoUrl}, timer : BOOLEAN]
          \/ /\ p.sessions[h.tab] # NoUrl
             /\ a \in [kind : {"rendered"}, page : {p.sessions[h.tab]}, timer : BOOLEAN]
      BY <2>3, <1>9 DEF RendererAnswers
    <3> QED BY <2>3, <3>1, <3>2 DEF ReplyKinds, RepliesOf
  <2> QED BY <2>1, <2>2, <2>3
<1>5. r \in Reply /\ AnswersTo(r, h)
  <2> HIDE DEF h
  <2> QED BY <1>3, <1>4 DEF Reply, ReplyTo, AnswersTo
<1>6. SessionAfter(p, h, a) \in Urls \cup {NoUrl}
  <2> HIDE DEF h
  <2> QED BY <1>1, <1>3, <1>4 DEF SessionAfter
<1>7. q \in Process
  <2>1. Tail(p.queue) \in Seq(Request)
    BY <1>1
  <2>2. [p.sessions EXCEPT ![h.tab] = SessionAfter(p, h, a)] \in [TabIds -> Urls \cup {NoUrl}]
    BY <1>1, <1>6
  <2> DEFINE T == Tail(p.queue)
             S == [p.sessions EXCEPT ![h.tab] = SessionAfter(p, h, a)]
  <2>3. q = [p EXCEPT !.io = "waking", !.queue = T, !.replies = @ \cup {r}, !.sessions = S]
    BY DEF Answered
  <2> HIDE DEF T, S, r, h
  <2>4. [p EXCEPT !.io = "waking", !.queue = T, !.replies = @ \cup {r}, !.sessions = S] \in Process
    BY <2>1, <2>2, <1>5 DEF T, S, Process, IoStates
  <2> QED BY <2>3, <2>4
<1>8. /\ q.inc = p.inc /\ q.next = p.next /\ q.io = "waking"
      /\ q.queue = Tail(p.queue) /\ q.replies = p.replies \cup {r}
  BY DEF Answered, Process
<1> HIDE DEF q, r
<1> QED BY <1>5, <1>7, <1>8, ConsumeKeeps DEF q

\* So does a round trip that finds the pipe broken.
LEMMA BrokenKeeps ==
  ASSUME NEW p \in Process, IdsBelow(p), p.queue # <<>>, p.io = "ready"
  PROVE  /\ Evolves(p, Broken(p, Head(p.queue)))
         /\ \A id \in Nat : Answerable(p, id) => Answerable(Broken(p, Head(p.queue)), id)
<1> DEFINE h == Head(p.queue)
           r == ReplyTo(h, NoReply)
           q == Broken(p, h)
<1>1. p.queue \in Seq(Request) /\ p.replies \subseteq Reply
  BY DEF Process
<1>2. h \in Request
  BY <1>1
<1>3. h.id \in Nat /\ h.tab \in TabIds /\ h.kind \in RequestKinds
  BY <1>2 DEF Request, RequestKinds
<1>4. r \in Reply /\ AnswersTo(r, h)
  <2> HIDE DEF h
  <2> QED BY <1>3 DEF Reply, ReplyKinds, ReplyTo, NoReply, AnswersTo, RepliesOf
<1>5. q \in Process
  <2> DEFINE T == Tail(p.queue)
  <2>1. T \in Seq(Request)
    BY <1>1
  <2>2. q = [p EXCEPT !.io = "failing", !.queue = T, !.replies = @ \cup {r}]
    BY DEF Broken
  <2> HIDE DEF T, r, h
  <2>3. [p EXCEPT !.io = "failing", !.queue = T, !.replies = @ \cup {r}] \in Process
    BY <2>1, <1>4 DEF Process, IoStates
  <2> QED BY <2>2, <2>3
<1>6. /\ q.inc = p.inc /\ q.next = p.next /\ q.io = "failing"
      /\ q.queue = Tail(p.queue) /\ q.replies = p.replies \cup {r}
  BY DEF Broken, Process
<1> HIDE DEF q, r
<1> QED BY <1>4, <1>5, <1>6, ConsumeKeeps DEF q

\* wake(), and after a failure the exit of the thread: what is still queued is
\* lost, but who waits for it is told.
LEMMA WokenKeeps ==
  ASSUME NEW p \in Process, IdsBelow(p), p.io \in {"waking", "failing"}
  PROVE  /\ Evolves(p, Woken(p))
         /\ \A id \in Nat : Answerable(p, id) => Answerable(Woken(p), id)
<1>1. <<>> \in Seq(Request)
  OBVIOUS
<1>2. CASE p.io = "waking"
  BY <1>2 DEF Woken, Process, IoStates, Evolves, IdsBelow, Matches, Answerable, InQueue, Answers
<1>3. CASE p.io = "failing"
  <2> DEFINE q == [p EXCEPT !.io = "exited", !.queue = <<>>]
  <2>1. q \in Process
    BY <1>1 DEF Process, IoStates
  <2>2. /\ q.io = "exited" /\ q.queue = <<>> /\ q.next = p.next /\ q.inc = p.inc
        /\ q.replies = p.replies
    BY DEF Process
  <2>3. Woken(p) = q
    BY <1>3 DEF Woken
  <2> HIDE DEF q
  <2>4. DOMAIN q.queue = {}
    BY <2>2
  <2> QED BY <1>3, <2>1, <2>2, <2>3, <2>4 DEF Evolves, IdsBelow, Matches, Answerable
<1> QED BY <1>2, <1>3

\* The death of a child changes nothing the browser process can see.
LEMMA KilledKeeps ==
  ASSUME NEW p \in Process, IdsBelow(p)
  PROVE  /\ Evolves(p, Killed(p))
         /\ Killed(p).io = p.io
         /\ \A id \in Nat : Answerable(p, id) => Answerable(Killed(p), id)
<1>1. Killed(p) \in Process
  BY DEF Killed, Process
<1>2. /\ Killed(p).io = p.io /\ Killed(p).queue = p.queue /\ Killed(p).next = p.next
      /\ Killed(p).inc = p.inc /\ Killed(p).replies = p.replies
  BY DEF Killed, Process
<1> QED BY <1>1, <1>2 DEF Evolves, IdsBelow, Matches, Answerable, InQueue, Answers

\* Taking the replies to one id keeps the process (take_reply).
LEMMA WithoutKeeps ==
  ASSUME NEW p \in Process, IdsBelow(p), NEW id \in Nat
  PROVE  Evolves(p, Without(p, id)) /\ Without(p, id).io = p.io
<1>1. Without(p, id) \in Process
  BY DEF Without, Process
<1>2. /\ Without(p, id).io = p.io /\ Without(p, id).queue = p.queue
      /\ Without(p, id).next = p.next /\ Without(p, id).inc = p.inc
      /\ Without(p, id).replies \subseteq p.replies
  BY DEF Without, Process
<1> QED BY <1>1, <1>2 DEF Evolves, IdsBelow, Matches

\* A child just spawned, and no child at all.
LEMMA SpawnedTyped ==
  ASSUME NEW n \in Nat
  PROVE  /\ Spawned(n) \in Process /\ IdsBelow(Spawned(n))
         /\ Spawned(n).io = "ready" /\ Spawned(n).inc = n
         /\ NoProcess \in Process /\ IdsBelow(NoProcess)
         /\ NoProcess.io = "none" /\ NoProcess.inc = 0
<1>1. <<>> \in Seq(Request) /\ DOMAIN <<>> = {}
  OBVIOUS
<1>2. NoProcess \in Process
  BY <1>1 DEF NoProcess, Process, IoStates
<1>3. Spawned(n) \in Process
  BY <1>2 DEF Spawned, Process, IoStates
<1>4. /\ NoProcess.queue = <<>> /\ NoProcess.replies = {} /\ NoProcess.io = "none"
      /\ NoProcess.inc = 0
  BY DEF NoProcess
<1>5. /\ Spawned(n).queue = <<>> /\ Spawned(n).replies = {} /\ Spawned(n).io = "ready"
      /\ Spawned(n).inc = n
  BY <1>4 DEF Spawned, NoProcess
<1> QED BY <1>1, <1>2, <1>3, <1>4, <1>5 DEF IdsBelow

-----------------------------------------------------------------------------
(* What the handlers do to the pool                                        *)

\* Q is P some steps later: a process went on, or it is not an incarnation that
\* existed when n children had been spawned.
Follows(P, Q, n) ==
  \A s \in Sites : Evolves(P[s], Q[s]) \/ Q[s].inc \notin 1 .. n

\* No process went away.
StillPooled(P, Q) == \A s \in Sites : P[s].io # "none" => Q[s].io # "none"
LEMMA FollowsSelf ==
  ASSUME NEW P, NEW n \in Nat, PoolOK(P, n)
  PROVE  \A m \in Nat : Follows(P, P, m)
BY DEF PoolOK, Follows, Evolves

LEMMA FollowsTransitive ==
  ASSUME NEW P, NEW Q, NEW R, NEW m \in Nat, Follows(P, Q, m), Follows(Q, R, m)
  PROVE  Follows(P, R, m)
<1> SUFFICES ASSUME NEW s \in Sites
             PROVE  Evolves(P[s], R[s]) \/ R[s].inc \notin 1 .. m
  BY DEF Follows
<1>1. CASE R[s].inc \notin 1 .. m
  BY <1>1
<1>2. CASE Evolves(Q[s], R[s]) /\ Q[s].inc \notin 1 .. m
  BY <1>2 DEF Evolves
<1>3. CASE Evolves(Q[s], R[s]) /\ Evolves(P[s], Q[s])
  BY <1>3 DEF Evolves
<1> QED BY <1>1, <1>2, <1>3 DEF Follows

\* One process goes on.
LEMMA PutEvolved ==
  ASSUME NEW P, NEW n \in Nat, PoolOK(P, n), NEW s \in Sites, NEW q, Evolves(P[s], q)
  PROVE  LET Q == [P EXCEPT ![s] = q]
         IN  /\ PoolOK(Q, n)
             /\ \A m \in Nat : Follows(P, Q, m)
             /\ StillPooled(P, Q)
             /\ Q[s] = q
BY DEF PoolOK, Follows, StillPooled, Evolves

\* One site gets a new child (get_or_spawn, respawn).
LEMMA PutSpawned ==
  ASSUME NEW P, NEW n \in Nat, PoolOK(P, n), NEW s \in Sites
  PROVE  LET Q == [P EXCEPT ![s] = Spawned(n + 1)]
         IN  /\ PoolOK(Q, n + 1)
             /\ Follows(P, Q, n)
             /\ StillPooled(P, Q)
             /\ Q[s] = Spawned(n + 1)
             /\ Q[s].io = "ready"
             /\ Q[s].inc = n + 1
<1>1. n + 1 \in Nat
  OBVIOUS
<1> DEFINE q == Spawned(n + 1)
<1>2. q \in Process /\ IdsBelow(q) /\ q.io = "ready" /\ q.inc = n + 1
  BY <1>1, SpawnedTyped
<1> HIDE DEF q
<1>3. LET Q == [P EXCEPT ![s] = q]
      IN  /\ PoolOK(Q, n + 1)
          /\ Follows(P, Q, n)
          /\ StillPooled(P, Q)
          /\ Q[s] = q /\ Q[s].io = "ready" /\ Q[s].inc = n + 1
  <2>1. \A o \in Sites : P[o].inc \in Nat
    BY DEF PoolOK, Process
  <2>2. \A o \in Sites : Evolves(P[o], P[o])
    BY DEF PoolOK, Evolves
  <2> QED BY <1>2, <2>1, <2>2 DEF PoolOK, Follows, StillPooled
<1> QED BY <1>3 DEF q

\* A sweep takes processes away, but none that an open tab refers to.
LEMMA EvictKeeps ==
  ASSUME NEW P, NEW n \in Nat, PoolOK(P, n), NEW ts, NEW tb
  PROVE  /\ PoolOK(Evict(P, ts, tb), n)
         /\ \A m \in Nat : Follows(P, Evict(P, ts, tb), m)
         /\ \A s \in Sites : Referenced(ts, tb, s) => Evict(P, ts, tb)[s] = P[s]
<1> DEFINE Q == Evict(P, ts, tb)
<1>1. /\ NoProcess \in Process /\ IdsBelow(NoProcess) /\ NoProcess.inc = 0
      /\ NoProcess.io = "none"
  BY SpawnedTyped
<1>2. \A s \in Sites : Q[s] = IF Referenced(ts, tb, s) THEN P[s] ELSE NoProcess
  BY DEF Evict
<1>3. PoolOK(Q, n)
  <2>1. Q \in [Sites -> Process]
    BY <1>1 DEF Evict, PoolOK
  <2> QED BY <1>1, <1>2, <2>1 DEF PoolOK
<1>4. ASSUME NEW m \in Nat
      PROVE  Follows(P, Q, m)
  BY <1>1, <1>2 DEF Follows, PoolOK, Evolves
<1> QED BY <1>2, <1>3, <1>4

\* Queueing a message and waiting for its answer (try_send).
LEMMA SendKeeps ==
  ASSUME NEW P, NEW n \in Nat, PoolOK(P, n), NEW s \in Sites, NEW t \in TabIds,
         NEW k \in RequestKinds, NEW u \in PagesOf(k),
         NEW retry \in BOOLEAN, Send(P, s, t, k, u, retry)
  PROVE  /\ PoolOK(pool', n)
         /\ \A m \in Nat : Follows(P, pool', m)
         /\ StillPooled(P, pool')
         /\ call' \in Call
         /\ call'.kind = k /\ call'.url = u /\ call'.site = s
         /\ Answerable(pool'[s], call'.id)
         /\ Matches(pool'[s], call'.id, call'.tab, k, u)
<1> DEFINE q == Enqueue(P[s], t, k, u)
<1>1. P[s] \in Process /\ IdsBelow(P[s])
  BY DEF PoolOK
<1>2. /\ Evolves(P[s], q)
      /\ Matches(q, P[s].next, t, k, u)
      /\ Answerable(q, P[s].next)
  BY <1>1, EnqueueKeeps
<1>3. /\ pool' = [P EXCEPT ![s] = q]
      /\ call' = [site |-> s, id |-> P[s].next, tab |-> t, kind |-> k,
                  url |-> u, retried |-> retry]
  BY DEF Send
<1>4. u \in Urls \cup {NoUrl} /\ P[s].next \in Nat
  BY <1>1 DEF Process, PagesOf
<1> HIDE DEF q
<1>5. call' \in Call
  BY <1>3, <1>4 DEF Call
<1>6. /\ PoolOK(pool', n)
      /\ \A m \in Nat : Follows(P, pool', m)
      /\ StillPooled(P, pool')
      /\ pool'[s] = q
  BY <1>2, <1>3, PutEvolved, ZenonT(60)
<1>7. /\ call'.kind = k /\ call'.url = u /\ call'.site = s
      /\ call'.id = P[s].next /\ call'.tab = t
  BY <1>3
<1> QED BY <1>2, <1>5, <1>6, <1>7

\* Taking the answer a blocked handler waited for.
LEMMA DrainedKeeps ==
  ASSUME NEW n \in Nat, PoolOK(pool, n), call \in Call
  PROVE  /\ PoolOK(Drained, n)
         /\ \A m \in Nat : Follows(pool, Drained, m)
         /\ StillPooled(pool, Drained)
<1>1. call.site \in Sites /\ call.id \in Nat
  BY DEF Call
<1>2. Evolves(pool[call.site], Without(pool[call.site], call.id))
  BY <1>1, WithoutKeeps DEF PoolOK
<1> QED BY <1>1, <1>2, PutEvolved DEF Drained

LEMMA AnswerTyped ==
  ASSUME NEW n \in Nat, PoolOK(pool, n), call \in Call, BoundsAssumption
  PROVE  NoReply \in Reply /\ Answer \in Reply
<1>1. call.site \in Sites
  BY DEF Call
<1>2. \A r \in Answers(pool[call.site], call.id) : r \in Reply
  BY <1>1 DEF Answers, PoolOK, Process
<1>3. NoReply \in Reply
  BY BoundsAssumption DEF NoReply, Reply, ReplyKinds, TabIds
<1> QED BY <1>2, <1>3 DEF Answer

\* apply_server_message_kind_to_tab gives a tab its state.
LEMMA ApplyReplyTyped ==
  ASSUME NEW tb \in Tab, NEW r \in Reply
  PROVE  ApplyReply(tb, r) \in Tab /\ ApplyReply(tb, r).pending = tb.pending
         /\ ApplyReply(tb, r).site = tb.site
<1>1. r.timer \in BOOLEAN /\ (r.kind = "rendered" => r.page \in Urls)
  BY DEF Reply
<1> QED BY <1>1 DEF ApplyReply, Tab

\* Closing the tab at position i of n leaves the others in their order.
LEMMA RemoveAtKeeps ==
  ASSUME NEW S, NEW q \in Seq(S), NEW i \in DOMAIN q
  PROVE  /\ RemoveAt(q, i) \in Seq(S)
         /\ Len(RemoveAt(q, i)) = Len(q) - 1
         /\ \A j \in 1 .. Len(q) - 1 :
              RemoveAt(q, i)[j] = q[IF j < i THEN j ELSE j + 1]
<1> DEFINE A == SubSeq(q, 1, i - 1)
           B == SubSeq(q, i + 1, Len(q))
<1>1. A \in Seq(S) /\ Len(A) = i - 1 /\ \A j \in 1 .. i - 1 : A[j] = q[j]
  OBVIOUS
<1>2. B \in Seq(S) /\ Len(B) = Len(q) - i /\ \A j \in 1 .. Len(q) - i : B[j] = q[i + j]
  OBVIOUS
<1>3. RemoveAt(q, i) = A \o B
  BY DEF RemoveAt
<1> HIDE DEF A, B
<1>4. /\ A \o B \in Seq(S) /\ Len(A \o B) = Len(q) - 1
      /\ \A j \in 1 .. Len(q) - 1 : (A \o B)[j] = q[IF j < i THEN j ELSE j + 1]
  BY <1>1, <1>2
<1> QED BY <1>3, <1>4
\* apply_navigation_outcome starts: the pool goes on, and if the handler blocks
\* then for an answer that will come.
LEMMA StartOutcomeKeeps ==
  ASSUME NEW P, NEW n \in Nat, PoolOK(P, n), NEW t \in TabIds, NEW u \in Urls,
         NEW old \in Sites \cup {NoSite}, NEW new \in Sites, NEW r \in Reply,
         StartOutcome(P, t, u, old, new, r)
  PROVE  /\ PoolOK(pool', n)
         /\ \A m \in Nat : Follows(P, pool', m)
         /\ StillPooled(P, pool')
         /\ outcome' \in Outcome
         /\ outcome'.new = new /\ outcome'.reply = r
         /\ \/ ui' = "apply" /\ call' = NoCall
            \/ /\ ui' = "closingOld"
               /\ call' \in Call /\ call'.kind = "close" /\ call'.url = NoUrl
               /\ P[call'.site].io # "none"
               /\ Answerable(pool'[call'.site], call'.id)
               /\ Matches(pool'[call'.site], call'.id, call'.tab, "close", NoUrl)
<1>1. /\ outcome' \in Outcome
      /\ outcome'.new = new /\ outcome'.reply = r
  BY DEF StartOutcome, Outcome
<1>2. CASE ui' = "apply" /\ pool' = P /\ call' = NoCall
  BY <1>1, <1>2, FollowsSelf DEF StillPooled
<1>3. CASE /\ ui' = "closingOld" /\ Send(P, old, t, "close", NoUrl, FALSE)
           /\ Pooled(P, old)
  <2>1. old \in Sites /\ P[old].io # "none"
    BY <1>3 DEF Pooled
  <2>2. "close" \in RequestKinds /\ NoUrl \in PagesOf("close")
    BY DEF RequestKinds, PagesOf
  <2>3. /\ PoolOK(pool', n)
        /\ \A m \in Nat : Follows(P, pool', m)
        /\ StillPooled(P, pool')
        /\ call' \in Call
        /\ call'.kind = "close" /\ call'.url = NoUrl /\ call'.site = old
        /\ Answerable(pool'[old], call'.id)
        /\ Matches(pool'[old], call'.id, call'.tab, "close", NoUrl)
    BY <1>3, <2>1, <2>2, SendKeeps
  <2> QED BY <1>1, <1>3, <2>1, <2>3
<1> QED BY <1>2, <1>3 DEF StartOutcome

\* The end of a click or a render, on a pool P that goes on from the current one.
LEMMA SettleKeeps ==
  ASSUME NEW P, NEW n \in Nat, PoolOK(P, n), PoolOK(pool, n),
         TypeOK, UiOK, ui \in {"action", "render"}, BoundsAssumption, Settle(P)
  PROVE  /\ PoolOK(pool', n)
         /\ \A m \in Nat : Follows(P, pool', m)
         /\ StillPooled(P, pool')
         /\ tab' \in [TabIds -> Tab]
         /\ \A t \in TabIds : tab'[t].pending = tab[t].pending /\ tab'[t].site = tab[t].site
         /\ \/ ui' = "idle" /\ call' = NoCall /\ outcome' = outcome
            \/ /\ outcome' \in Outcome /\ outcome'.new = call.site
               /\ \/ ui' = "apply" /\ call' = NoCall
                  \/ /\ ui' = "closingOld"
                     /\ call' \in Call /\ call'.kind = "close" /\ call'.url = NoUrl
                     /\ P[call'.site].io # "none"
                     /\ Answerable(pool'[call'.site], call'.id)
                     /\ Matches(pool'[call'.site], call'.id, call'.tab, "close", NoUrl)
<1>1. /\ call \in Call /\ call.tab \in TabIds /\ call.site \in Sites
      /\ Answer \in Reply
  BY AnswerTyped DEF UiOK, Blocked, Call
<1>2. tab \in [TabIds -> Tab]
  BY DEF TypeOK
<1>3. CASE ui = "action"
  <2>1. /\ tab' = [tab EXCEPT ![call.tab] = ApplyReply(@, Answer)]
        /\ pool' = P /\ ui' = "idle" /\ call' = NoCall /\ outcome' = outcome
    BY <1>3 DEF Settle
  <2>2. /\ ApplyReply(tab[call.tab], Answer) \in Tab
        /\ ApplyReply(tab[call.tab], Answer).pending = tab[call.tab].pending
        /\ ApplyReply(tab[call.tab], Answer).site = tab[call.tab].site
    BY <1>1, <1>2, ApplyReplyTyped
  <2>3. /\ tab' \in [TabIds -> Tab]
        /\ \A t \in TabIds : tab'[t].pending = tab[t].pending /\ tab'[t].site = tab[t].site
    BY <1>1, <1>2, <2>1, <2>2
  <2> QED BY <2>1, <2>3, FollowsSelf DEF StillPooled
<1>4. CASE ui = "render"
  <2>1. /\ tab' = tab
        /\ StartOutcome(P, call.tab, call.url, tab[call.tab].site, call.site, Answer)
    BY <1>4 DEF Settle
  <2>2. call.url \in Urls /\ tab[call.tab].site \in Sites \cup {NoSite}
    BY <1>1, <1>2, <1>4 DEF UiOK, Blocked, Tab
  <2> DEFINE old == tab[call.tab].site
  <2> HIDE DEF old
  <2>3. StartOutcome(P, call.tab, call.url, old, call.site, Answer) /\ old \in Sites \cup {NoSite}
    BY <2>1, <2>2 DEF old
  <2>4. /\ PoolOK(pool', n)
        /\ \A m \in Nat : Follows(P, pool', m)
        /\ StillPooled(P, pool')
        /\ outcome' \in Outcome
        /\ outcome'.new = call.site
        /\ \/ ui' = "apply" /\ call' = NoCall
           \/ /\ ui' = "closingOld"
              /\ call' \in Call /\ call'.kind = "close" /\ call'.url = NoUrl
              /\ P[call'.site].io # "none"
              /\ Answerable(pool'[call'.site], call'.id)
              /\ Matches(pool'[call'.site], call'.id, call'.tab, "close", NoUrl)
    BY <1>1, <2>2, <2>3, StartOutcomeKeeps
  <2> QED BY <1>2, <2>1, <2>4
<1> QED BY <1>3, <1>4

-----------------------------------------------------------------------------
(* Type correctness                                                        *)

\* What is not in a record of the state is in the sets those records come from.
LEMMA Constants ==
  ASSUME BoundsAssumption, UrlsAssumption
  PROVE  /\ 0 \in TabIds /\ BlankTab \in Tab /\ NoPending = BlankTab.pending
         /\ \A u \in Urls : SiteOf[u] \in Sites
BY DEF TabIds, BlankTab, Tab, BoundsAssumption, UrlsAssumption

\* One step of the first layer of the invariant.
Step1 == /\ Inv1'
         /\ Follows(pool, pool', spawns)
         /\ spawns' >= spawns

LEMMA InitInv1 ==
  ASSUME Init, BoundsAssumption, UrlsAssumption
  PROVE  Inv1
<1>1. TypeOK
  <2>1. pool \in [Sites -> Process]
    BY SpawnedTyped DEF Init
  <2>2. tab \in [TabIds -> Tab]
    BY Constants DEF Init
  <2>3. tabs \in Seq(TabIds)
    BY Constants DEF Init
  <2> QED BY <2>1, <2>2, <2>3 DEF Init, TypeOK, UiStates
<1>2. UiOK
  BY DEF Init, UiOK, Blocked
<1>3. TabStripOK
  BY DEF Init, TabStripOK
<1>4. PoolOK(pool, spawns)
  BY SpawnedTyped DEF Init, PoolOK
<1> QED BY <1>1, <1>2, <1>3, <1>4 DEF Inv1

\* Where the UI thread is, as the first layer sees it.
LEMMA ActiveTabOpen ==
  ASSUME Inv1
  PROVE  /\ ActiveTab \in TabIds
         /\ \A i \in DOMAIN tabs : tabs[i] \in TabIds
         /\ \A t \in TabIds : tab[t] \in Tab
         /\ \A t \in TabIds : tab[t].site \in Sites \cup {NoSite}
         /\ Open \subseteq TabIds
BY DEF Inv1, TypeOK, TabStripOK, ActiveTab, Open, Tab, ToSet
\* A step that leaves the tab strip alone keeps the first layer, when what it
\* does change is well-typed.
LEMMA KeepStrip ==
  ASSUME Inv1, UNCHANGED <<tabs, active, nextTab>>,
         PoolOK(pool', spawns'), Follows(pool, pool', spawns),
         spawns' \in {spawns, spawns + 1},
         tab' \in [TabIds -> Tab],
         ui' \in UiStates, call' \in Call \cup {NoCall},
         due' \subseteq TabIds, todo' \subseteq TabIds,
         outcome' \in Outcome \cup {NoOutcome},
         wake' \in BOOLEAN, events' \in Nat, crashes' \in Nat,
         UiOK'
  PROVE  Step1
<1>1. spawns \in Nat
  BY DEF Inv1, TypeOK
<1>2. spawns' \in Nat /\ spawns' >= spawns
  BY <1>1
<1>3. TypeOK'
  BY <1>2 DEF Inv1, TypeOK, PoolOK
<1>4. TabStripOK'
  BY DEF Inv1, TabStripOK
<1> QED BY <1>2, <1>3, <1>4 DEF Step1, Inv1

\* So does a step of the handlers that, with the bookkeeping of timers, polls and
\* wakes, is left as it was.
LEMMA KeepRest ==
  ASSUME Inv1, UNCHANGED <<tabs, active, nextTab, due, todo, wake, crashes>>,
         events' \in {events, events + 1},
         PoolOK(pool', spawns'), Follows(pool, pool', spawns),
         spawns' \in {spawns, spawns + 1},
         tab' \in [TabIds -> Tab],
         ui' \in UiStates, call' \in Call \cup {NoCall},
         outcome' \in Outcome \cup {NoOutcome},
         UiOK'
  PROVE  Step1
<1>1. /\ due \subseteq TabIds /\ todo \subseteq TabIds
      /\ wake \in BOOLEAN /\ events \in Nat /\ crashes \in Nat
  BY DEF Inv1, TypeOK
<1>2. events' \in Nat
  BY <1>1
<1> QED BY <1>1, <1>2, KeepStrip

\* The pool as it is, for steps that do not touch it.
LEMMA SamePool ==
  ASSUME Inv1, pool' = pool, spawns' = spawns
  PROVE  PoolOK(pool', spawns') /\ Follows(pool, pool', spawns)
BY FollowsSelf DEF Inv1, TypeOK

\* One process of the pool goes on in a step of an I/O thread or a child.
LEMMA OneProcess ==
  ASSUME Inv1, NEW s \in Sites, NEW q, Evolves(pool[s], q),
         pool' = [pool EXCEPT ![s] = q], spawns' = spawns
  PROVE  PoolOK(pool', spawns') /\ Follows(pool, pool', spawns)
BY PutEvolved DEF Inv1, TypeOK

\* Queueing on a pool reached from the current one.
LEMMA SendFrom ==
  ASSUME NEW P, NEW n \in Nat, PoolOK(P, n), NEW m \in Nat, Follows(pool, P, m),
         NEW s \in Sites, NEW t \in TabIds, NEW k \in RequestKinds,
         NEW u \in PagesOf(k),
         NEW retry \in BOOLEAN, Send(P, s, t, k, u, retry)
  PROVE  /\ PoolOK(pool', n) /\ Follows(pool, pool', m)
         /\ call' \in Call /\ call'.kind = k /\ call'.url = u
<1>1. /\ PoolOK(pool', n)
      /\ \A j \in Nat : Follows(P, pool', j)
      /\ call' \in Call /\ call'.kind = k /\ call'.url = u
  BY SendKeeps
<1>2. Follows(pool, pool', m)
  BY <1>1, FollowsTransitive
<1> QED BY <1>1, <1>2

\* A sweep of a pool reached from the current one.
LEMMA EvictFrom ==
  ASSUME NEW P, NEW n \in Nat, PoolOK(P, n), NEW m \in Nat, Follows(pool, P, m),
         NEW ts, NEW tb, pool' = Evict(P, ts, tb)
  PROVE  PoolOK(pool', n) /\ Follows(pool, pool', m)
<1>1. /\ PoolOK(pool', n)
      /\ \A j \in Nat : Follows(P, pool', j)
  BY EvictKeeps
<1>2. Follows(pool, pool', m)
  BY <1>1, FollowsTransitive
<1> QED BY <1>1, <1>2

\* The pool after a blocked handler took its answer.
LEMMA DrainedFrom ==
  ASSUME Inv1, ui \in Blocked
  PROVE  /\ call \in Call
         /\ spawns \in Nat
         /\ PoolOK(Drained, spawns)
         /\ Follows(pool, Drained, spawns)
         /\ StillPooled(pool, Drained)
<1>1. call \in Call /\ spawns \in Nat /\ PoolOK(pool, spawns)
  BY DEF Inv1, UiOK, TypeOK
<1> QED BY <1>1, DrainedKeeps
\* begin_render with the tab's new pending_navigation, on a pool reached from
\* the current one.
LEMMA QueueNavigateKeeps ==
  ASSUME NEW P, NEW n \in Nat, PoolOK(P, n), NEW m \in Nat, Follows(pool, P, m),
         NEW t \in TabIds, NEW u \in Urls, tab \in [TabIds -> Tab],
         UrlsAssumption, SitesAssumption, QueueNavigate(P, t, u)
  PROVE  LET s == SiteOf[u]
             x == tab'[t].pending
         IN  /\ PoolOK(pool', n) /\ Follows(pool, pool', m) /\ StillPooled(P, pool')
             /\ tab' \in [TabIds -> Tab]
             /\ \A o \in TabIds : o # t => tab'[o] = tab[o]
             /\ tab'[t].site = tab[t].site
             /\ x \in Pending /\ x.site = s /\ x.url = u /\ x.inc = P[s].inc
             /\ pool'[s].inc = P[s].inc
             /\ Matches(pool'[s], x.id, t, "navigate", u)
<1> DEFINE s == SiteOf[u]
           q == Enqueue(P[s], t, "navigate", u)
           x == [id |-> P[s].next, inc |-> P[s].inc, site |-> s,
                 oldSite |-> tab[t].site, url |-> u]
<1>1. s \in Sites /\ P[s] \in Process /\ IdsBelow(P[s])
  BY UrlsAssumption DEF PoolOK
<1>2. "navigate" \in RequestKinds /\ u \in PagesOf("navigate")
  BY DEF RequestKinds, PagesOf
<1>3. Evolves(P[s], q) /\ Matches(q, P[s].next, t, "navigate", u)
  BY <1>1, <1>2, EnqueueKeeps
<1>4. /\ pool' = [P EXCEPT ![s] = q]
      /\ tab' = [tab EXCEPT ![t].want = u, ![t].pending = x]
  BY DEF QueueNavigate
<1>5. q.inc = P[s].inc
  BY <1>3 DEF Evolves
<1>6. tab[t] \in Tab /\ tab[t].site \in Sites \cup {NoSite}
  BY DEF Tab
<1>7. x \in Pending
  BY <1>1, <1>6 DEF Pending, Process
<1> HIDE DEF q, x, s
<1>8. /\ PoolOK(pool', n) /\ StillPooled(P, pool') /\ pool'[s] = q
      /\ \A j \in Nat : Follows(P, pool', j)
  BY <1>1, <1>3, <1>4, PutEvolved, ZenonT(60)
<1>9. Follows(pool, pool', m)
  BY <1>8, FollowsTransitive
<1>10. /\ tab' \in [TabIds -> Tab]
       /\ \A o \in TabIds : o # t => tab'[o] = tab[o]
       /\ tab'[t].site = tab[t].site /\ tab'[t].pending = x
  BY <1>4, <1>6, <1>7 DEF Tab
<1>11. x.site = s /\ x.url = u /\ x.inc = P[s].inc /\ x.id = P[s].next
  BY DEF x
<1> QED BY <1>3, <1>5, <1>7, <1>8, <1>9, <1>10, <1>11 DEF s
\* The handlers that only a user event starts and that never block.
LEMMA TabEvents1 ==
  ASSUME Inv1, BoundsAssumption, UrlsAssumption,
         OpenNewTab \/ \E i \in DOMAIN tabs : SwitchTab(i)
  PROVE  Step1
<1>1. CASE OpenNewTab
  <2>1. PoolOK(pool', spawns') /\ Follows(pool, pool', spawns)
    BY <1>1, SamePool DEF OpenNewTab
  <2>2. nextTab \in TabIds
    BY <1>1 DEF OpenNewTab, Inv1, TypeOK, TabIds
  <2>3. tab' \in [TabIds -> Tab] /\ tabs' \in Seq(TabIds) /\ nextTab' \in Nat /\ active' \in Nat
    BY <1>1, <2>2, Constants DEF OpenNewTab, Inv1, TypeOK
  <2>4. TypeOK'
    BY <1>1, <2>3, <2>1 DEF OpenNewTab, UserEvent, Inv1, TypeOK, PoolOK
  <2>5. TabStripOK'
    BY <1>1, <2>2, SMTT(30) DEF OpenNewTab, Inv1, TypeOK, TabStripOK, TabIds
  <2>6. UiOK'
    BY <1>1 DEF OpenNewTab, UserEvent, UiOK, Blocked
  <2> QED BY <1>1, <2>1, <2>4, <2>5, <2>6 DEF Step1, Inv1, TypeOK, OpenNewTab
<1>2. ASSUME NEW i \in DOMAIN tabs, SwitchTab(i)
      PROVE  Step1
  <2>1. PoolOK(pool', spawns') /\ Follows(pool, pool', spawns)
    BY <1>2, SamePool DEF SwitchTab
  <2>2. i \in 1 .. Len(tabs)
    BY DEF Inv1, TypeOK
  <2>3. TypeOK' /\ TabStripOK'
    BY <1>2, <2>2 DEF SwitchTab, UserEvent, Inv1, TypeOK, TabStripOK
  <2>4. UiOK'
    BY <1>2 DEF SwitchTab, UserEvent, UiOK, Blocked
  <2> QED BY <1>2, <2>1, <2>3, <2>4 DEF Step1, Inv1, TypeOK, SwitchTab
<1> QED BY <1>1, <1>2

\* close_tab: the index it leaves names an open tab.
LEMMA CloseTab1 ==
  ASSUME Inv1, BoundsAssumption, UrlsAssumption, NEW i \in DOMAIN tabs, CloseTab(i)
  PROVE  Step1
<1> DEFINE t == tabs[i]
           s == tab[t].site
<1>1. /\ tabs \in Seq(TabIds) /\ active \in 1 .. Len(tabs) /\ nextTab \in Nat
      /\ i \in 1 .. Len(tabs) /\ t \in TabIds /\ spawns \in Nat
      /\ tab \in [TabIds -> Tab] /\ PoolOK(pool, spawns)
  BY DEF Inv1, TypeOK, TabStripOK
<1>2. /\ tabs' \in Seq(TabIds) /\ Len(tabs') = Len(tabs) - 1
      /\ \A j \in 1 .. Len(tabs) - 1 : tabs'[j] = tabs[IF j < i THEN j ELSE j + 1]
  <2>1. PICK left : left = RemoveAt(tabs, i)
    OBVIOUS
  <2>2. /\ left \in Seq(TabIds) /\ Len(left) = Len(tabs) - 1
        /\ \A j \in 1 .. Len(tabs) - 1 : left[j] = tabs[IF j < i THEN j ELSE j + 1]
    BY <1>1, <2>1, RemoveAtKeeps
  <2>3. tabs' = left
    BY <2>1 DEF CloseTab
  <2> QED BY <2>2, <2>3
<1>3. /\ active' \in 1 .. Len(tabs')
  BY <1>1, <1>2 DEF CloseTab, ActiveAfterClose
<1> DEFINE from(j) == IF j < i THEN j ELSE j + 1
<1>4. /\ \A j, k \in 1 .. Len(tabs') : tabs'[j] = tabs'[k] => j = k
      /\ \A j \in 1 .. Len(tabs') : tabs'[j] < nextTab
  <2>1. \A j \in 1 .. Len(tabs') : from(j) \in 1 .. Len(tabs) /\ tabs'[j] = tabs[from(j)]
    BY <1>1, <1>2
  <2>2. \A j, k \in 1 .. Len(tabs') : from(j) = from(k) => j = k
    BY <1>1, <1>2
  <2>3. /\ \A j, k \in 1 .. Len(tabs) : tabs[j] = tabs[k] => j = k
        /\ \A j \in 1 .. Len(tabs) : tabs[j] < nextTab
    BY <1>1 DEF Inv1, TabStripOK
  <2> HIDE DEF from
  <2> QED BY <2>1, <2>2, <2>3
<1>5. TabStripOK'
  <2>1. DOMAIN tabs' = 1 .. Len(tabs') /\ nextTab' = nextTab
    BY <1>2 DEF CloseTab
  <2> QED BY <1>3, <1>4, <2>1 DEF TabStripOK
<1>6. /\ PoolOK(pool', spawns') /\ Follows(pool, pool', spawns)
      /\ \/ ui' = "idle" /\ call' = call
         \/ ui' = "closing" /\ call' \in Call /\ call'.kind = "close" /\ call'.url = NoUrl
  <2>1. CASE s = NoSite /\ UNCHANGED <<pool, ui, call>>
    BY <2>1, SamePool DEF CloseTab, UserEvent
  <2>2. CASE Pooled(pool, s) /\ ui' = "closing" /\ Send(pool, s, t, "close", NoUrl, FALSE)
    <3>1. s \in Sites
      BY <2>2 DEF Pooled
    <3>2. "close" \in RequestKinds /\ NoUrl \in PagesOf("close")
      BY DEF RequestKinds, PagesOf
    <3>3. Follows(pool, pool, spawns)
      BY <1>1, FollowsSelf
    <3> HIDE DEF s, t
    <3>4. /\ PoolOK(pool', spawns) /\ Follows(pool, pool', spawns)
          /\ call' \in Call /\ call'.kind = "close" /\ call'.url = NoUrl
      BY <1>1, <2>2, <3>1, <3>2, <3>3, SendFrom
    <3> QED BY <2>2, <3>4 DEF CloseTab
  <2>3. CASE pool' = Evict(pool, tabs', tab') /\ UNCHANGED <<ui, call>>
    BY <1>1, <2>3, FollowsSelf, EvictFrom DEF CloseTab, UserEvent
  <2> QED BY <2>1, <2>2, <2>3 DEF CloseTab
<1>7. tab' \in [TabIds -> Tab]
  BY <1>1, Constants DEF CloseTab
<1>8. TypeOK'
  BY <1>2, <1>3, <1>6, <1>7 DEF CloseTab, UserEvent, Inv1, TypeOK, PoolOK, UiStates, Blocked
<1>9. UiOK'
  BY <1>6 DEF UiOK, Blocked, Awaits
<1> QED BY <1>1, <1>5, <1>6, <1>8, <1>9 DEF Step1, Inv1, CloseTab

\* A local about: page: at once, or after its CloseTab was answered.
LEMMA LoadAbout1 ==
  ASSUME Inv1, BoundsAssumption, UrlsAssumption, LoadAbout
  PROVE  Step1
<1> DEFINE t == ActiveTab
           s == tab[t].site
<1>1. /\ t \in TabIds /\ tab \in [TabIds -> Tab] /\ spawns \in Nat /\ PoolOK(pool, spawns)
      /\ events \in Nat /\ call \in Call \cup {NoCall} /\ outcome \in Outcome \cup {NoOutcome}
  BY ActiveTabOpen DEF Inv1, TypeOK
<1>2. Follows(pool, pool, spawns)
  BY <1>1, FollowsSelf
<1>3. tab' \in [TabIds -> Tab]
  <2>1. tab[t] \in Tab /\ tab[t].timer \in BOOLEAN
    BY <1>1 DEF Tab
  <2>2. /\ [tab[t] EXCEPT !.want = About] \in Tab
        /\ \A b \in BOOLEAN : [tab[t] EXCEPT !.want = About, !.url = About, !.page = About,
                                            !.site = NoSite, !.timer = b] \in Tab
    BY <2>1 DEF Tab
  <2>3. \/ tab' = [tab EXCEPT ![t] = [tab[t] EXCEPT !.want = About]]
        \/ \E b \in BOOLEAN :
             tab' = [tab EXCEPT ![t] = [tab[t] EXCEPT !.want = About, !.url = About,
                                                      !.page = About, !.site = NoSite,
                                                      !.timer = b]]
    BY <1>1, <2>1 DEF LoadAbout
  <2> HIDE DEF s, t
  <2> QED BY <1>1, <2>2, <2>3
<1>4. /\ PoolOK(pool', spawns) /\ Follows(pool, pool', spawns)
      /\ \/ ui' = "idle" /\ call' = call
         \/ ui' = "leaving" /\ call' \in Call /\ call'.kind = "close" /\ call'.url = NoUrl
  <2>1. CASE Pooled(pool, s)
    <3>1. s \in Sites /\ ui' = "leaving" /\ Send(pool, s, t, "close", NoUrl, FALSE)
      BY <2>1 DEF LoadAbout, Pooled
    <3>2. "close" \in RequestKinds /\ NoUrl \in PagesOf("close")
      BY DEF RequestKinds, PagesOf
    <3> HIDE DEF s, t
    <3>3. /\ PoolOK(pool', spawns) /\ Follows(pool, pool', spawns)
          /\ call' \in Call /\ call'.kind = "close" /\ call'.url = NoUrl
      BY <1>1, <1>2, <3>1, <3>2, SendFrom
    <3> QED BY <3>1, <3>3
  <2>2. CASE ~Pooled(pool, s)
    <3>1. /\ pool' = IF s = NoSite THEN pool ELSE Evict(pool, tabs, tab')
          /\ ui' = "idle" /\ call' = call
      BY <2>2 DEF LoadAbout, UserEvent
    <3> QED BY <1>1, <1>2, <3>1, EvictFrom
  <2> QED BY <2>1, <2>2
<1>5. UiOK'
  BY <1>4 DEF UiOK, Blocked, Awaits
<1> HIDE DEF s, t
<1> QED BY <1>1, <1>3, <1>4, <1>5, KeepRest DEF LoadAbout, UserEvent, UiStates, Blocked

LEMMA ForegroundAction1 ==
  ASSUME Inv1, BoundsAssumption, UrlsAssumption, ForegroundAction
  PROVE  Step1
<1> DEFINE t == ActiveTab
           s == tab[t].site
<1>1. /\ t \in TabIds /\ tab \in [TabIds -> Tab] /\ spawns \in Nat /\ PoolOK(pool, spawns)
      /\ events \in Nat /\ outcome \in Outcome \cup {NoOutcome}
  BY ActiveTabOpen DEF Inv1, TypeOK
<1>2. Follows(pool, pool, spawns)
  BY <1>1, FollowsSelf
<1>3. s \in Sites /\ ui' = "action" /\ Send(pool, s, t, "action", NoUrl, FALSE)
  BY DEF ForegroundAction, Pooled
<1>4. "action" \in RequestKinds /\ NoUrl \in PagesOf("action")
  BY DEF RequestKinds, PagesOf
<1> HIDE DEF s, t
<1>5. /\ PoolOK(pool', spawns) /\ Follows(pool, pool', spawns)
      /\ call' \in Call /\ call'.kind = "action" /\ call'.url = NoUrl
  BY <1>1, <1>2, <1>3, <1>4, SendFrom
<1>6. UiOK'
  BY <1>3, <1>5 DEF UiOK, Blocked, Awaits
<1> QED BY <1>1, <1>3, <1>5, <1>6, KeepRest DEF ForegroundAction, UserEvent, UiStates, Blocked

\* A handler that starts apply_navigation_outcome on a pool reached from this one.
LEMMA StartOutcomeFrom ==
  ASSUME NEW P, NEW n \in Nat, PoolOK(P, n), NEW m \in Nat, Follows(pool, P, m),
         NEW t \in TabIds, NEW u \in Urls, NEW old \in Sites \cup {NoSite},
         NEW new \in Sites, NEW r \in Reply, StartOutcome(P, t, u, old, new, r)
  PROVE  /\ PoolOK(pool', n) /\ Follows(pool, pool', m)
         /\ outcome' \in Outcome /\ ui' \in UiStates /\ call' \in Call \cup {NoCall}
         /\ UiOK'
<1>1. /\ PoolOK(pool', n)
      /\ \A j \in Nat : Follows(P, pool', j)
      /\ outcome' \in Outcome
      /\ \/ ui' = "apply" /\ call' = NoCall
         \/ /\ ui' = "closingOld"
            /\ call' \in Call /\ call'.kind = "close" /\ call'.url = NoUrl
  BY StartOutcomeKeeps
<1>2. Follows(pool, pool', m)
  BY <1>1, FollowsTransitive
<1>3. UiOK'
  BY <1>1 DEF UiOK, Blocked, Awaits
<1> QED BY <1>1, <1>2, <1>3 DEF UiStates, Blocked
LEMMA BeginNavigate1 ==
  ASSUME Inv1, BoundsAssumption, UrlsAssumption, SitesAssumption,
         NEW u \in Urls, BeginNavigate(u)
  PROVE  Step1
<1> DEFINE t == ActiveTab
           s == SiteOf[u]
<1>1. /\ t \in TabIds /\ tab \in [TabIds -> Tab] /\ spawns \in Nat /\ PoolOK(pool, spawns)
      /\ events \in Nat /\ call \in Call \cup {NoCall} /\ outcome \in Outcome \cup {NoOutcome}
      /\ s \in Sites /\ tab[t] \in Tab /\ tab[t].site \in Sites \cup {NoSite}
  BY ActiveTabOpen, Constants DEF Inv1, TypeOK
<1>2. Follows(pool, pool, spawns)
  BY <1>1, FollowsSelf
<1>3. CASE QueueNavigate(pool, t, u) /\ UNCHANGED <<spawns, ui, call, outcome>>
  <2> HIDE DEF t
  <2>1. /\ PoolOK(pool', spawns) /\ Follows(pool, pool', spawns)
        /\ tab' \in [TabIds -> Tab]
    BY <1>1, <1>2, <1>3, QueueNavigateKeeps
  <2>2. ui' = "idle" /\ UiOK'
    BY <1>3 DEF BeginNavigate, UserEvent, UiOK, Blocked
  <2> QED BY <1>1, <1>3, <2>1, <2>2, KeepRest DEF BeginNavigate, UserEvent, UiStates
<1>4. CASE /\ spawns' = spawns + 1
           /\ QueueNavigate([pool EXCEPT ![s] = Spawned(spawns + 1)], t, u)
           /\ UNCHANGED <<ui, call, outcome>>
  <2> DEFINE P == [pool EXCEPT ![s] = Spawned(spawns + 1)]
  <2>1. PoolOK(P, spawns + 1) /\ Follows(pool, P, spawns)
    BY <1>1, PutSpawned
  <2>2. spawns + 1 \in Nat /\ QueueNavigate(P, t, u)
    BY <1>1, <1>4
  <2> HIDE DEF t, P, s
  <2>3. /\ PoolOK(pool', spawns + 1) /\ Follows(pool, pool', spawns)
        /\ tab' \in [TabIds -> Tab]
    BY <1>1, <2>1, <2>2, QueueNavigateKeeps
  <2>4. ui' = "idle" /\ UiOK'
    BY <1>4 DEF BeginNavigate, UserEvent, UiOK, Blocked
  <2> QED BY <1>1, <1>4, <2>3, <2>4, KeepRest DEF BeginNavigate, UserEvent, UiStates
<1>5. CASE /\ StartOutcome(pool, t, u, tab[t].site, s, NoReply)
           /\ tab' = [tab EXCEPT ![t].want = u]
           /\ UNCHANGED spawns
  <2>1. NoReply \in Reply
    BY Constants DEF NoReply, Reply, ReplyKinds
  <2>2. tab' \in [TabIds -> Tab]
    BY <1>1, <1>5 DEF Tab
  <2> DEFINE old == tab[t].site
  <2>3. StartOutcome(pool, t, u, old, s, NoReply) /\ old \in Sites \cup {NoSite}
    BY <1>1, <1>5
  <2> HIDE DEF t, s, old
  <2>4. /\ PoolOK(pool', spawns) /\ Follows(pool, pool', spawns)
        /\ outcome' \in Outcome /\ ui' \in UiStates /\ call' \in Call \cup {NoCall}
        /\ UiOK'
    BY <1>1, <1>2, <2>1, <2>3, StartOutcomeFrom
  <2> QED BY <1>1, <1>5, <2>2, <2>4, KeepRest DEF BeginNavigate, UserEvent
<1> QED BY <1>3, <1>4, <1>5 DEF BeginNavigate

LEMMA StartupNavigate1 ==
  ASSUME Inv1, BoundsAssumption, UrlsAssumption, SitesAssumption,
         NEW u \in Urls, StartupNavigate(u)
  PROVE  Step1
<1> DEFINE t == ActiveTab
           s == SiteOf[u]
<1>1. /\ t \in TabIds /\ tab \in [TabIds -> Tab] /\ spawns \in Nat /\ PoolOK(pool, spawns)
      /\ events \in Nat /\ call \in Call \cup {NoCall} /\ outcome \in Outcome \cup {NoOutcome}
      /\ s \in Sites /\ tab[t] \in Tab /\ tab[t].site \in Sites \cup {NoSite}
  BY ActiveTabOpen, Constants DEF Inv1, TypeOK
<1>2. Follows(pool, pool, spawns)
  BY <1>1, FollowsSelf
<1>3. tab' \in [TabIds -> Tab]
  BY <1>1 DEF StartupNavigate, Tab
<1>4. CASE /\ spawns' = spawns + 1
           /\ ui' = "render"
           /\ Send([pool EXCEPT ![s] = Spawned(spawns + 1)], s, t, "navigate", u, FALSE)
           /\ UNCHANGED outcome
  <2> DEFINE P == [pool EXCEPT ![s] = Spawned(spawns + 1)]
  <2>1. PoolOK(P, spawns + 1) /\ Follows(pool, P, spawns)
    BY <1>1, PutSpawned
  <2>5. Send(P, s, t, "navigate", u, FALSE)
    BY <1>4
  <2>2. /\ spawns + 1 \in Nat
        /\ "navigate" \in RequestKinds /\ u \in PagesOf("navigate")
    BY <1>1 DEF RequestKinds, PagesOf
  <2> HIDE DEF t, P, s
  <2>3. /\ PoolOK(pool', spawns + 1) /\ Follows(pool, pool', spawns)
        /\ call' \in Call /\ call'.kind = "navigate" /\ call'.url = u
    BY <1>1, <2>1, <2>2, <2>5, SendFrom
  <2>4. UiOK'
    BY <1>4, <2>3 DEF UiOK, Blocked, Awaits
  <2> QED BY <1>1, <1>3, <1>4, <2>3, <2>4, KeepRest DEF StartupNavigate, UserEvent, UiStates, Blocked
<1>5. CASE StartOutcome(pool, t, u, tab[t].site, s, NoReply) /\ UNCHANGED spawns
  <2>1. NoReply \in Reply
    BY Constants DEF NoReply, Reply, ReplyKinds
  <2> DEFINE old == tab[t].site
  <2>2. StartOutcome(pool, t, u, old, s, NoReply) /\ old \in Sites \cup {NoSite}
    BY <1>1, <1>5
  <2> HIDE DEF t, s, old
  <2>3. /\ PoolOK(pool', spawns) /\ Follows(pool, pool', spawns)
        /\ outcome' \in Outcome /\ ui' \in UiStates /\ call' \in Call \cup {NoCall}
        /\ UiOK'
    BY <1>1, <1>2, <2>1, <2>2, StartOutcomeFrom
  <2> QED BY <1>1, <1>3, <1>5, <2>3, KeepRest DEF StartupNavigate, UserEvent
<1> QED BY <1>4, <1>5 DEF StartupNavigate

\* The returns that take the acknowledgement of a CloseTab.
LEMMA CloseReturns1 ==
  ASSUME Inv1, BoundsAssumption, UrlsAssumption,
         CloseTabReturns \/ LeaveReturns \/ CloseOldReturns
  PROVE  Step1
<1>1. ui \in Blocked
  BY DEF CloseTabReturns, LeaveReturns, CloseOldReturns, Blocked
<1>2. /\ spawns \in Nat /\ PoolOK(Drained, spawns) /\ Follows(pool, Drained, spawns)
  BY <1>1, DrainedFrom
<1>3. /\ ActiveTab \in TabIds /\ tab \in [TabIds -> Tab]
      /\ events \in Nat /\ outcome \in Outcome \cup {NoOutcome}
  BY ActiveTabOpen DEF Inv1, TypeOK
<1>4. CASE CloseTabReturns
  <2>1. PoolOK(pool', spawns') /\ Follows(pool, pool', spawns)
    BY <1>2, <1>4, EvictFrom DEF CloseTabReturns
  <2>2. UiOK' /\ ui' = "idle"
    BY <1>4 DEF CloseTabReturns, UiOK, Blocked
  <2> QED BY <1>3, <1>4, <2>1, <2>2, KeepRest DEF CloseTabReturns, UiStates
<1>5. CASE LeaveReturns
  <2>1. PoolOK(pool', spawns') /\ Follows(pool, pool', spawns)
    BY <1>2, <1>5, EvictFrom DEF LeaveReturns
  <2>2. tab' \in [TabIds -> Tab]
    BY <1>3, <1>5 DEF LeaveReturns, Tab
  <2>3. UiOK' /\ ui' = "idle"
    BY <1>5 DEF LeaveReturns, UiOK, Blocked
  <2> QED BY <1>3, <1>5, <2>1, <2>2, <2>3, KeepRest DEF LeaveReturns, UiStates
<1>6. CASE CloseOldReturns
  <2>1. PoolOK(pool', spawns') /\ Follows(pool, pool', spawns)
    BY <1>2, <1>6 DEF CloseOldReturns
  <2>2. outcome \in Outcome
    BY <1>6 DEF CloseOldReturns, Inv1, UiOK
  <2>3. UiOK' /\ ui' = "apply"
    BY <1>6, <2>2 DEF CloseOldReturns, UiOK, Blocked
  <2> QED BY <1>3, <1>6, <2>1, <2>2, <2>3, KeepRest DEF CloseOldReturns, UiStates
<1> QED BY <1>4, <1>5, <1>6

LEMMA FinishOutcome1 ==
  ASSUME Inv1, BoundsAssumption, UrlsAssumption, FinishOutcome
  PROVE  Step1
<1>1. /\ spawns \in Nat /\ PoolOK(pool, spawns) /\ tab \in [TabIds -> Tab] /\ events \in Nat
      /\ call \in Call \cup {NoCall}
  BY DEF Inv1, TypeOK
<1>2. outcome \in Outcome
  BY DEF FinishOutcome, Inv1, UiOK
<1>3. PoolOK(pool', spawns') /\ Follows(pool, pool', spawns)
  BY <1>1, FollowsSelf, EvictFrom DEF FinishOutcome
<1>4. tab' \in [TabIds -> Tab]
  <2>1. /\ outcome.tab \in TabIds /\ outcome.url \in Urls /\ outcome.new \in Sites
        /\ outcome.reply \in Reply
    BY <1>2 DEF Outcome
  <2>2. /\ outcome.reply.timer \in BOOLEAN
        /\ outcome.reply.kind = "rendered" => outcome.reply.page \in Urls
    BY <2>1 DEF Reply
  <2>3. PICK page \in Urls \cup {Failed}, site \in Sites \cup {NoSite}, timer \in BOOLEAN :
          tab' = [tab EXCEPT ![outcome.tab].page = page, ![outcome.tab].url = outcome.url,
                             ![outcome.tab].site = site, ![outcome.tab].timer = timer]
    BY <2>1, <2>2 DEF FinishOutcome
  <2> QED BY <1>1, <2>1, <2>3, SMTT(30) DEF Tab
<1>5. UiOK' /\ ui' = "poll"
  BY DEF FinishOutcome, UiOK, Blocked
<1> QED BY <1>1, <1>3, <1>4, <1>5, KeepRest DEF FinishOutcome, UiStates

\* The returns of a click or a render: the answer, a retry or a second failure.
LEMMA Foreground1 ==
  ASSUME Inv1, BoundsAssumption, UrlsAssumption,
         RespawnAndRetry \/ ForegroundReturns \/ RespawnFails
  PROVE  Step1
<1>1. ui \in {"action", "render"} /\ ui \in Blocked /\ ui \in UiStates
  BY DEF RespawnAndRetry, ForegroundReturns, RespawnFails, Blocked, UiStates
<1>2. /\ spawns \in Nat /\ PoolOK(pool, spawns)
      /\ call \in Call
      /\ PoolOK(Drained, spawns) /\ Follows(pool, Drained, spawns)
  BY <1>1, DrainedFrom DEF Inv1, TypeOK
<1>3. /\ tab \in [TabIds -> Tab] /\ events \in Nat /\ outcome \in Outcome \cup {NoOutcome}
  BY DEF Inv1, TypeOK
<1>4. /\ call.site \in Sites /\ call.tab \in TabIds /\ call.kind \in RequestKinds
      /\ call.url \in PagesOf(call.kind)
      /\ call.kind \in Awaits(ui)
      /\ call.url \in IF ui = "render" THEN Urls ELSE {NoUrl}
  BY <1>1, <1>2 DEF Call, Inv1, UiOK, Awaits, PagesOf
<1>5. CASE RespawnAndRetry
  <2> DEFINE P == [pool EXCEPT ![call.site] = Spawned(spawns + 1)]
  <2>1. Send(P, call.site, call.tab, call.kind, call.url, TRUE)
    BY <1>5 DEF RespawnAndRetry
  <2>2. /\ PoolOK(P, spawns + 1) /\ Follows(pool, P, spawns) /\ spawns + 1 \in Nat
    BY <1>2, <1>4, PutSpawned
  <2> DEFINE site == call.site
             t == call.tab
             k == call.kind
             u == call.url
  <2>3. /\ Send(P, site, t, k, u, TRUE)
        /\ site \in Sites /\ t \in TabIds /\ k \in RequestKinds
        /\ u \in PagesOf(k)
    BY <1>4, <2>1
  <2> HIDE DEF P, site, t, k, u
  <2>4. /\ PoolOK(pool', spawns + 1) /\ Follows(pool, pool', spawns)
        /\ call' \in Call /\ call'.kind = k /\ call'.url = u
    BY <1>2, <2>2, <2>3, SendFrom
  <2>5. UiOK'
    BY <1>1, <1>4, <1>5, <2>4 DEF RespawnAndRetry, UiOK, k, u
  <2> QED BY <1>1, <1>3, <1>5, <2>4, <2>5, KeepRest DEF RespawnAndRetry
<1>6. ASSUME NEW P, PoolOK(P, spawns), Follows(pool, P, spawns), Settle(P),
             UNCHANGED <<tabs, active, nextTab, spawns, due, todo, wake, events, crashes>>
      PROVE  Step1
  <2>1. /\ PoolOK(pool', spawns)
        /\ \A j \in Nat : Follows(P, pool', j)
        /\ tab' \in [TabIds -> Tab]
        /\ \/ ui' = "idle" /\ call' = NoCall /\ outcome' = outcome
           \/ /\ outcome' \in Outcome
              /\ \/ ui' = "apply" /\ call' = NoCall
                 \/ /\ ui' = "closingOld"
                    /\ call' \in Call /\ call'.kind = "close" /\ call'.url = NoUrl
    BY <1>1, <1>2, <1>6, SettleKeeps DEF Inv1
  <2>2. Follows(pool, pool', spawns)
    BY <1>2, <1>6, <2>1, FollowsTransitive
  <2>3. UiOK'
    BY <2>1 DEF UiOK, Blocked, Awaits
  <2> QED BY <1>3, <1>6, <2>1, <2>2, <2>3, KeepRest DEF UiStates, Blocked
<1>7. CASE ForegroundReturns
  BY <1>2, <1>6, <1>7 DEF ForegroundReturns
<1>8. CASE RespawnFails
  <2> DEFINE P == [Drained EXCEPT ![call.site] = Killed(@)]
  <2>1. Evolves(Drained[call.site], Killed(Drained[call.site]))
    BY <1>2, <1>4, KilledKeeps DEF PoolOK
  <2>2. PoolOK(P, spawns) /\ \A j \in Nat : Follows(Drained, P, j)
    BY <1>2, <1>4, <2>1, PutEvolved
  <2>3. Follows(pool, P, spawns)
    BY <1>2, <2>2, FollowsTransitive
  <2> QED BY <1>6, <1>8, <2>2, <2>3 DEF RespawnFails
<1> QED BY <1>5, <1>7, <1>8
\* handle_tick: its start, a due tab, the renderer's answer.
LEMMA TickSteps1 ==
  ASSUME Inv1, BoundsAssumption, UrlsAssumption,
         Tick \/ (\E t \in due : TickTab(t)) \/ TickReturns
  PROVE  Step1
<1>1. /\ tab \in [TabIds -> Tab] /\ spawns \in Nat /\ PoolOK(pool, spawns)
      /\ events \in Nat /\ crashes \in Nat /\ due \subseteq TabIds /\ todo \subseteq TabIds
      /\ call \in Call \cup {NoCall} /\ outcome \in Outcome \cup {NoOutcome} /\ wake \in BOOLEAN
  BY DEF Inv1, TypeOK
<1>2. ASSUME NEW ds \in SUBSET {t \in Open : tab[t].timer}, BeginTick(ds)
      PROVE  Step1
  <2>1. due' \subseteq TabIds
    BY <1>2, ActiveTabOpen DEF BeginTick
  <2>2. PoolOK(pool', spawns') /\ Follows(pool, pool', spawns)
    BY <1>2, SamePool DEF BeginTick
  <2>3. UiOK' /\ ui' = "tick" /\ events' \in Nat /\ wake' = FALSE
    BY <1>1, <1>2 DEF BeginTick, UiOK, Blocked
  <2> QED BY <1>1, <1>2, <2>1, <2>2, <2>3, KeepStrip DEF BeginTick, UiStates
<1>3. ASSUME NEW t \in due, TickTab(t)
      PROVE  Step1
  <2> DEFINE s == tab[t].site
  <2>1. t \in TabIds /\ due' \subseteq TabIds
    BY <1>1, <1>3 DEF TickTab
  <2>2. CASE Pooled(pool, s)
    <3>1. /\ s \in Sites /\ ui' = "ticking" /\ Send(pool, s, t, "tick", NoUrl, FALSE)
          /\ tab' = tab
      BY <1>3, <2>2 DEF TickTab, Pooled
    <3>2. "tick" \in RequestKinds /\ NoUrl \in PagesOf("tick")
      BY DEF RequestKinds, PagesOf
    <3>3. Follows(pool, pool, spawns)
      BY <1>1, FollowsSelf
    <3> HIDE DEF s
    <3>4. /\ PoolOK(pool', spawns) /\ Follows(pool, pool', spawns)
          /\ call' \in Call /\ call'.kind = "tick" /\ call'.url = NoUrl
      BY <1>1, <2>1, <3>1, <3>2, <3>3, SendFrom
    <3>5. UiOK'
      BY <3>1, <3>4 DEF UiOK, Blocked, Awaits
    <3> QED BY <1>1, <1>3, <2>1, <3>1, <3>4, <3>5, KeepStrip DEF TickTab, UiStates, Blocked
  <2>3. CASE ~Pooled(pool, s)
    <3>1. /\ tab' = [tab EXCEPT ![t].timer = FALSE, ![t].site = NoSite]
          /\ pool' = pool /\ call' = call /\ ui' = "tick" /\ spawns' = spawns
      BY <1>3, <2>3 DEF TickTab
    <3>2. tab' \in [TabIds -> Tab]
      <4>1. [tab[t] EXCEPT !.timer = FALSE, !.site = NoSite] \in Tab
        BY <1>1, <2>1, ZenonT(60) DEF Tab
      <4>2. tab' = [tab EXCEPT ![t] = [tab[t] EXCEPT !.timer = FALSE, !.site = NoSite]]
        BY <1>1, <2>1, <3>1
      <4> QED BY <1>1, <2>1, <4>1, <4>2
    <3>3. PoolOK(pool', spawns') /\ Follows(pool, pool', spawns)
      BY <3>1, SamePool
    <3>4. UiOK'
      BY <3>1 DEF UiOK, Blocked
    <3> QED BY <1>1, <1>3, <2>1, <3>1, <3>2, <3>3, <3>4, KeepStrip DEF TickTab, UiStates
  <2> QED BY <2>2, <2>3
<1>4. CASE TickReturns
  <2>1. ui \in Blocked
    BY <1>4 DEF TickReturns, Blocked
  <2>2. /\ call \in Call /\ PoolOK(Drained, spawns) /\ Follows(pool, Drained, spawns)
    BY <2>1, DrainedFrom
  <2>3. Answer \in Reply /\ call.tab \in TabIds
    BY <1>1, <2>2, AnswerTyped DEF Call
  <2>4. ApplyReply(tab[call.tab], Answer) \in Tab
    BY <1>1, <2>3, ApplyReplyTyped
  <2>5. tab' \in [TabIds -> Tab]
    BY <1>1, <1>4, <2>3, <2>4 DEF TickReturns
  <2>6. UiOK' /\ ui' = "tick"
    BY <1>4 DEF TickReturns, UiOK, Blocked
  <2> QED BY <1>1, <1>4, <2>2, <2>5, <2>6, KeepStrip DEF TickReturns, UiStates
<1> QED BY <1>2, <1>3, <1>4 DEF Tick

\* poll_pending_navigations: its start, a tab with a reply, a tab without, its end.
LEMMA PollSteps1 ==
  ASSUME Inv1, BoundsAssumption, UrlsAssumption,
         BeginPoll \/ (\E t \in todo : PollTab(t)) \/ PollDone
  PROVE  Step1
<1>1. /\ tab \in [TabIds -> Tab] /\ spawns \in Nat /\ PoolOK(pool, spawns)
      /\ events \in Nat /\ crashes \in Nat /\ due \subseteq TabIds /\ todo \subseteq TabIds
      /\ call \in Call \cup {NoCall} /\ outcome \in Outcome \cup {NoOutcome} /\ wake \in BOOLEAN
  BY DEF Inv1, TypeOK
<1>2. CASE BeginPoll
  <2>1. todo' \subseteq TabIds
    BY <1>2, ActiveTabOpen DEF BeginPoll
  <2>2. PoolOK(pool', spawns') /\ Follows(pool, pool', spawns)
    BY <1>2, SamePool DEF BeginPoll
  <2>3. UiOK' /\ ui' = "poll"
    BY <1>2 DEF BeginPoll, UiOK, Blocked
  <2> QED BY <1>1, <1>2, <2>1, <2>2, <2>3, KeepStrip DEF BeginPoll, UiStates
<1>3. CASE PollDone
  <2>1. PoolOK(pool', spawns') /\ Follows(pool, pool', spawns)
    BY <1>3, SamePool DEF PollDone
  <2>2. UiOK' /\ ui' = "idle"
    BY <1>3 DEF PollDone, UiOK, Blocked
  <2> QED BY <1>1, <1>3, <2>1, <2>2, KeepStrip DEF PollDone, UiStates
<1>4. ASSUME NEW t \in todo, PollTab(t)
      PROVE  Step1
  <2> DEFINE n == tab[t].pending
  <2>1. t \in TabIds /\ todo' \subseteq TabIds
    BY <1>1, <1>4 DEF PollTab
  <2>2. CASE UNCHANGED <<tab, pool, ui, call, outcome>>
    <3>1. PoolOK(pool', spawns') /\ Follows(pool, pool', spawns)
      BY <1>4, <2>2, SamePool DEF PollTab
    <3>2. UiOK' /\ ui' = "poll"
      BY <1>4, <2>2 DEF PollTab, UiOK, Blocked
    <3> QED BY <1>1, <1>4, <2>1, <2>2, <3>1, <3>2, KeepStrip DEF PollTab, UiStates
  <2>3. ASSUME Pooled(pool, n.site), NEW r \in Answers(pool[n.site], n.id),
               tab' = [tab EXCEPT ![t].pending = NoPending],
               StartOutcome([pool EXCEPT ![n.site] = Without(@, n.id)],
                            t, n.url, n.oldSite, n.site, r)
        PROVE  Step1
    <3>1. tab[t] \in Tab /\ n.site \in Sites
      BY <1>1, <2>1, <2>3 DEF Pooled
    <3>2. n \in Pending
      <4>1. SitesAssumption => NoPending.site \notin Sites
        BY DEF NoPending, SitesAssumption
      <4> QED BY <3>1, <4>1, SitesAssumption DEF Tab
    <3>3. n.url \in Urls /\ n.oldSite \in Sites \cup {NoSite} /\ n.id \in Nat
      BY <3>2 DEF Pending
    <3>4. tab' \in [TabIds -> Tab]
      BY <1>1, <2>1, <2>3, <3>1 DEF Tab
    <3>5. r \in Reply
      BY <1>1, <2>3, <3>1 DEF PoolOK, Process, Answers
    <3> DEFINE P == [pool EXCEPT ![n.site] = Without(@, n.id)]
               u == n.url
               old == n.oldSite
               new == n.site
               m == spawns
    <3>6. Evolves(pool[n.site], Without(pool[n.site], n.id))
      BY <1>1, <3>1, <3>3, WithoutKeeps DEF PoolOK
    <3>7. PoolOK(P, spawns) /\ Follows(pool, P, spawns)
      BY <1>1, <3>1, <3>6, PutEvolved
    <3>8. StartOutcome(P, t, u, old, new, r)
      BY <2>3
    <3>9. u \in Urls /\ old \in Sites \cup {NoSite} /\ new \in Sites
      BY <3>1, <3>3
    <3> HIDE DEF P, u, old, new, n
    <3>10. /\ PoolOK(pool', spawns) /\ Follows(pool, pool', spawns)
           /\ outcome' \in Outcome /\ ui' \in UiStates /\ call' \in Call \cup {NoCall}
           /\ UiOK'
      BY <1>1, <2>1, <3>5, <3>7, <3>8, <3>9, StartOutcomeFrom
    <3> QED BY <1>1, <1>4, <2>1, <3>4, <3>10, KeepStrip DEF PollTab
  <2> QED BY <1>4, <2>2, <2>3 DEF PollTab
<1> QED BY <1>2, <1>3, <1>4

\* What an I/O thread or a child does to its process.
LEMMA IoSteps1 ==
  ASSUME Inv1, NEW s \in Sites, IoStep(s) \/ Crash(s)
  PROVE  /\ Step1
         /\ UNCHANGED <<tabs, active, nextTab, tab, spawns, ui, call, due, todo, outcome>>
         /\ Evolves(pool[s], pool'[s])
         /\ \A id \in Nat : Answerable(pool[s], id) => Answerable(pool'[s], id)
         /\ \A o \in Sites : o # s => pool'[o] = pool[o]
<1> DEFINE p == pool[s]
           h == Head(p.queue)
<1>1. /\ tab \in [TabIds -> Tab] /\ spawns \in Nat /\ PoolOK(pool, spawns)
      /\ events \in Nat /\ crashes \in Nat /\ due \subseteq TabIds /\ todo \subseteq TabIds
      /\ call \in Call \cup {NoCall} /\ outcome \in Outcome \cup {NoOutcome} /\ wake \in BOOLEAN
      /\ ui \in UiStates /\ UiOK
      /\ pool \in [Sites -> Process] /\ p \in Process /\ IdsBelow(p)
  BY DEF Inv1, TypeOK, PoolOK
<1>2. PICK q : /\ pool' = [pool EXCEPT ![s] = q]
               /\ Evolves(p, q)
               /\ \A id \in Nat : Answerable(p, id) => Answerable(q, id)
  <2>1. CASE RoundTrip(s)
    <3>1. PICK a \in RendererAnswers(p, h) : pool' = [pool EXCEPT ![s] = Answered(p, h, a)]
      BY <2>1 DEF RoundTrip
    <3>2. p.queue # <<>> /\ p.io = "ready"
      BY <2>1 DEF RoundTrip
    <3> HIDE DEF p
    <3> QED BY <1>1, <3>1, <3>2, AnsweredKeeps
  <2>2. CASE RoundTripBreaks(s)
    <3>1. /\ pool' = [pool EXCEPT ![s] = Broken(p, h)]
          /\ p.queue # <<>> /\ p.io = "ready"
      BY <2>2 DEF RoundTripBreaks
    <3> HIDE DEF p
    <3> QED BY <1>1, <3>1, BrokenKeeps
  <2>3. CASE WakeUi(s)
    BY <1>1, <2>3, WokenKeeps DEF WakeUi
  <2>4. CASE Crash(s)
    BY <1>1, <2>4, KilledKeeps DEF Crash
  <2> QED BY <2>1, <2>2, <2>3, <2>4 DEF IoStep
<1>3. /\ UNCHANGED <<tabs, active, nextTab, tab, spawns, ui, call, due, todo, outcome>>
      /\ wake' \in BOOLEAN /\ events' \in Nat /\ crashes' \in Nat
  <2>1. CASE RoundTrip(s)
    BY <1>1, <2>1 DEF RoundTrip
  <2>2. CASE RoundTripBreaks(s)
    BY <1>1, <2>2 DEF RoundTripBreaks
  <2>3. CASE WakeUi(s)
    BY <1>1, <2>3 DEF WakeUi
  <2>4. CASE Crash(s)
    BY <1>1, <2>4 DEF Crash
  <2> QED BY <2>1, <2>2, <2>3, <2>4 DEF IoStep
<1>4. PoolOK(pool', spawns') /\ Follows(pool, pool', spawns)
  BY <1>1, <1>2, <1>3, OneProcess
<1>5. UiOK'
  BY <1>1, <1>3 DEF UiOK
<1>6. Step1
  BY <1>1, <1>3, <1>4, <1>5, KeepStrip
<1>7. pool'[s] = q /\ \A o \in Sites : o # s => pool'[o] = pool[o]
  BY <1>1, <1>2
<1> QED BY <1>2, <1>3, <1>6, <1>7

\* The first layer is inductive, and no step changes the past of a process.
LEMMA NextInv1 ==
  ASSUME Inv1, [Next]_vars, BoundsAssumption, UrlsAssumption, SitesAssumption
  PROVE  Step1
<1>1. CASE User
  BY <1>1, TabEvents1, CloseTab1, LoadAbout1, ForegroundAction1, BeginNavigate1,
     StartupNavigate1 DEF User
<1>2. CASE UiStep
  BY <1>2, CloseReturns1, FinishOutcome1, Foreground1, TickSteps1, PollSteps1 DEF UiStep
<1>3. CASE Tick
  BY <1>3, TickSteps1
<1>4. CASE \E s \in Sites : IoStep(s) \/ Crash(s)
  BY <1>4, IoSteps1
<1>5. CASE UNCHANGED vars
  <2>1. PoolOK(pool', spawns') /\ Follows(pool, pool', spawns)
    BY <1>5, SamePool DEF vars
  <2>2. TypeOK' /\ UiOK' /\ TabStripOK' /\ spawns' >= spawns
    BY <1>5 DEF vars, Inv1, TypeOK, UiOK, TabStripOK
  <2> QED BY <2>1, <2>2 DEF Step1, Inv1
<1> QED BY <1>1, <1>2, <1>3, <1>4, <1>5 DEF Next

\* The state of the browser process is always well-typed: every index, id, site
\* and message is of the kind the code takes it for.
THEOREM TypeCorrect == Spec => []TypeOK
<1>1. Init => Inv1
  BY InitInv1, BoundsAssumption, UrlsAssumption
<1>2. Inv1 /\ [Next]_vars => Inv1'
  BY NextInv1, BoundsAssumption, UrlsAssumption, SitesAssumption DEF Step1
<1>3. Inv1 => TypeOK
  BY DEF Inv1
<1> QED BY <1>1, <1>2, <1>3, PTL DEF Spec

\* active_tab_index always names an open tab, open tabs have distinct ids, and
\* all of them were allocated (close_tab's index arithmetic, next_tab_id).
THEOREM TabStripCorrect == Spec => []TabStripOK
<1>1. Init => Inv1
  BY InitInv1, BoundsAssumption, UrlsAssumption
<1>2. Inv1 /\ [Next]_vars => Inv1'
  BY NextInv1, BoundsAssumption, UrlsAssumption, SitesAssumption DEF Step1
<1>3. Inv1 => TabStripOK
  BY DEF Inv1
<1> QED BY <1>1, <1>2, <1>3, PTL DEF Spec

\* Through all answers and failures every tab shows a page, and the active index
\* names an open one (send_with_respawn, Browser).
THEOREM TabsSound == Spec => []TabsAreSound
<1>1. TypeOK /\ TabStripOK => TabsAreSound
  BY DEF TabsAreSound
<1> QED BY <1>1, TypeCorrect, TabStripCorrect, PTL

\* Only close_tab takes a tab away.
LEMMA OnlyCloseTab ==
  ASSUME Inv1, [Next]_vars, Len(tabs') < Len(tabs)
  PROVE  \E i \in DOMAIN tabs : CloseTab(i)
<1>1. /\ tabs \in Seq(TabIds)
      /\ tabs' # tabs
  BY DEF Inv1, TypeOK
<1>2. CASE User
  <2>1. ~OpenNewTab
    <3>1. OpenNewTab => Len(tabs') = Len(tabs) + 1
      BY <1>1 DEF OpenNewTab
    <3> QED BY <1>1, <3>1
  <2> QED BY <1>1, <1>2, <2>1 DEF User, SwitchTab, LoadAbout, ForegroundAction, BeginNavigate,
                                  StartupNavigate
<1>3. CASE UiStep
  BY <1>1, <1>3 DEF UiStep, CloseTabReturns, LeaveReturns, CloseOldReturns, FinishOutcome,
       RespawnAndRetry, ForegroundReturns, RespawnFails, TickTab, TickReturns, BeginPoll,
       PollTab, PollDone
<1>4. CASE Tick
  BY <1>1, <1>4 DEF Tick, BeginTick
<1>5. CASE \E s \in Sites : IoStep(s) \/ Crash(s)
  BY <1>1, <1>5 DEF IoStep, RoundTrip, RoundTripBreaks, WakeUi, Crash
<1>6. CASE UNCHANGED vars
  BY <1>1, <1>6 DEF vars
<1> QED BY <1>2, <1>3, <1>4, <1>5, <1>6 DEF Next

\* Closing another tab leaves the active tab active, and closing the active one
\* activates its right neighbour, or the last tab (close_tab).
THEOREM ActiveTabSurvives == Spec => ActiveTabSurvivesClose
<1> DEFINE Survives ==
      Len(tabs') < Len(tabs) =>
        \/ tabs'[active'] = ActiveTab
        \/ /\ ActiveTab \notin ToSet(tabs')
           /\ \/ active' = active
              \/ active = Len(tabs) /\ active' = Len(tabs')
<1>1. ASSUME Inv1, [Next]_vars PROVE [Survives]_vars
  <2> SUFFICES ASSUME Len(tabs') < Len(tabs) PROVE Survives
    OBVIOUS
  <2>1. PICK i \in DOMAIN tabs : CloseTab(i)
    BY <1>1, OnlyCloseTab
  <2>2. /\ tabs \in Seq(TabIds) /\ active \in 1 .. Len(tabs) /\ i \in 1 .. Len(tabs)
        /\ \A j, k \in 1 .. Len(tabs) : tabs[j] = tabs[k] => j = k
    BY <1>1 DEF Inv1, TypeOK, TabStripOK
  <2>3. /\ tabs' \in Seq(TabIds) /\ Len(tabs') = Len(tabs) - 1
        /\ \A j \in 1 .. Len(tabs) - 1 : tabs'[j] = tabs[IF j < i THEN j ELSE j + 1]
        /\ active' = ActiveAfterClose(i) /\ Len(tabs) > 1
    BY <2>1, <2>2, RemoveAtKeeps DEF CloseTab
  <2>4. CASE active # i
    <3>1. active' = (IF active < i THEN active ELSE active - 1) /\ active' \in 1 .. Len(tabs) - 1
      BY <2>2, <2>3, <2>4 DEF ActiveAfterClose
    <3>2. (IF active' < i THEN active' ELSE active' + 1) = active
      BY <2>2, <2>4, <3>1
    <3>3. tabs'[active'] = tabs[active]
      BY <2>3, <3>1, <3>2
    <3> QED BY <3>3 DEF ActiveTab
  <2>5. CASE active = i
    <3>1. ActiveTab \notin ToSet(tabs')
      <4> SUFFICES ASSUME NEW j \in 1 .. Len(tabs) - 1, tabs'[j] = tabs[active] PROVE FALSE
        BY <2>2, <2>3 DEF ToSet, ActiveTab
      <4>1. (IF j < i THEN j ELSE j + 1) \in 1 .. Len(tabs)
        BY <2>2
      <4> QED BY <2>2, <2>3, <2>5, <4>1
    <3>2. active' = active \/ (active = Len(tabs) /\ active' = Len(tabs'))
      BY <2>2, <2>3, <2>5 DEF ActiveAfterClose
    <3> QED BY <3>1, <3>2
  <2> QED BY <2>2, <2>4, <2>5
<1>2. Init => Inv1
  BY InitInv1, BoundsAssumption, UrlsAssumption
<1>3. Inv1 /\ [Next]_vars => Inv1'
  BY NextInv1, BoundsAssumption, UrlsAssumption, SitesAssumption DEF Step1
<1>4. Inv1 /\ [Next]_vars => [Survives]_vars
  BY <1>1
<1> QED BY <1>2, <1>3, <1>4, PTL DEF Spec, ActiveTabSurvivesClose
-----------------------------------------------------------------------------
(* A navigation in flight keeps its reply                                  *)

\* Steps that start no navigation keep what is known of those in flight.
LEMMA PendingKept ==
  ASSUME Inv1, SitesAssumption, Step1, Incarnations, PendingMatches,
         \A t \in TabIds : tab'[t].pending \in {tab[t].pending, NoPending}
  PROVE  Incarnations' /\ PendingMatches'
<1> SUFFICES ASSUME NEW t \in TabIds, tab'[t].pending.site # NoSite
             PROVE  LET n == tab'[t].pending
                    IN  /\ n.inc \in 1 .. spawns'
                        /\ pool'[n.site].inc = n.inc =>
                             Matches(pool'[n.site], n.id, t, "navigate", n.url)
  BY DEF Incarnations, PendingMatches, HasPending
<1> DEFINE n == tab'[t].pending
<1>1. n = tab[t].pending /\ n.site # NoSite
  BY DEF NoPending
<1>2. tab[t] \in Tab /\ spawns \in Nat /\ spawns' \in Nat /\ spawns' >= spawns
  BY DEF Inv1, TypeOK, Step1
<1>3. n \in Pending
  BY <1>1, <1>2 DEF Tab, NoPending
<1>4. n.inc \in 1 .. spawns
  BY <1>1 DEF Incarnations, HasPending
<1>5. pool[n.site].inc = n.inc => Matches(pool[n.site], n.id, t, "navigate", n.url)
  BY <1>1 DEF PendingMatches, HasPending
<1>6. n.site \in Sites /\ n.id \in Nat /\ n.url \in Urls \cup {NoUrl} /\ "navigate" \in RequestKinds
  BY <1>3 DEF Pending, RequestKinds
<1> HIDE DEF n
<1>7. Evolves(pool[n.site], pool'[n.site]) \/ pool'[n.site].inc \notin 1 .. spawns
  BY <1>6 DEF Step1, Follows
<1>8. ASSUME pool'[n.site].inc = n.inc
      PROVE  Matches(pool'[n.site], n.id, t, "navigate", n.url)
  <2>1. Evolves(pool[n.site], pool'[n.site])
    BY <1>4, <1>7, <1>8
  <2>2. pool[n.site].inc = n.inc
    BY <2>1, <1>8 DEF Evolves
  <2> QED BY <1>5, <1>6, <2>1, <2>2 DEF Evolves
<1>9. n.inc \in 1 .. spawns'
  BY <1>2, <1>4
<1> QED BY <1>8, <1>9 DEF n

\* Changing other fields of one tab leaves every pending navigation alone.
LEMMA TabUpdate ==
  ASSUME Inv1, NEW t \in TabIds, NEW x,
         x.pending \in {tab[t].pending, NoPending}, tab' = [tab EXCEPT ![t] = x]
  PROVE  \A o \in TabIds : tab'[o].pending \in {tab[o].pending, NoPending}
BY DEF Inv1, TypeOK

\* Every step but the start of a navigation.
QuietStep ==
  \/ OpenNewTab
  \/ \E i \in DOMAIN tabs : SwitchTab(i) \/ CloseTab(i)
  \/ LoadAbout
  \/ ForegroundAction
  \/ \E u \in Urls : StartupNavigate(u)
  \/ UiStep
  \/ Tick
  \/ \E s \in Sites : IoStep(s) \/ Crash(s)

\* Only the start of a navigation sets a pending navigation.
LEMMA PendingUntouched ==
  ASSUME Inv1, QuietStep, BoundsAssumption, UrlsAssumption
  PROVE  \A t \in TabIds : tab'[t].pending \in {tab[t].pending, NoPending}
<1>1. /\ ActiveTab \in TabIds /\ tab \in [TabIds -> Tab]
      /\ \A i \in DOMAIN tabs : tabs[i] \in TabIds
      /\ BlankTab.pending = NoPending
      /\ due \subseteq TabIds /\ todo \subseteq TabIds
  BY ActiveTabOpen DEF Inv1, TypeOK, BlankTab
<1>2. CASE tab' = tab
  BY <1>2
<1>3. CASE OpenNewTab
  BY <1>1, <1>3 DEF OpenNewTab, BlankTab
<1>4. CASE \E i \in DOMAIN tabs : CloseTab(i)
  BY <1>1, <1>4 DEF CloseTab
<1>5. CASE LoadAbout
  <2>1. CASE Pooled(pool, tab[ActiveTab].site)
    BY <1>1, <1>5, <2>1 DEF LoadAbout, Tab
  <2>2. CASE ~Pooled(pool, tab[ActiveTab].site)
    <3>1. tab[ActiveTab] \in Tab
      BY <1>1
    <3>2. tab' = [tab EXCEPT ![ActiveTab].want = About, ![ActiveTab].url = About,
                             ![ActiveTab].page = About, ![ActiveTab].site = NoSite,
                             ![ActiveTab].timer = @ /\ tab[ActiveTab].site = NoSite]
      BY <1>5, <2>2 DEF LoadAbout
    <3>3. tab'[ActiveTab].pending = tab[ActiveTab].pending
      BY <1>1, <3>1, <3>2 DEF Tab
    <3> QED BY <1>1, <3>2, <3>3
  <2> QED BY <2>1, <2>2
<1>6. CASE \E u \in Urls : StartupNavigate(u)
  BY <1>1, <1>6 DEF StartupNavigate, Tab
<1>7. CASE LeaveReturns
  BY <1>1, <1>7 DEF LeaveReturns, Tab
<1>8. CASE FinishOutcome
  <2>1. outcome.tab \in TabIds
    BY <1>8 DEF FinishOutcome, Inv1, UiOK, Outcome
  <2>2. PICK t \in TabIds : t = outcome.tab
    BY <2>1
  <2>3. PICK page, site, timer : tab' = [tab EXCEPT ![t].page = page, ![t].url = outcome.url,
                                                   ![t].site = site, ![t].timer = timer]
    BY <1>8, <2>2 DEF FinishOutcome
  <2>4. tab[t] \in Tab
    BY <1>1
  <2>5. tab'[t].pending = tab[t].pending
    BY <1>1, <2>3, <2>4 DEF Tab
  <2> QED BY <1>1, <2>3, <2>5
<1>9. CASE ForegroundReturns \/ RespawnFails
  <2>1. ui \in Blocked /\ ui \in {"action", "render"}
    BY <1>9 DEF ForegroundReturns, RespawnFails, Blocked
  <2>2. call \in Call /\ call.tab \in TabIds
    BY <2>1 DEF Inv1, UiOK, Call
  <2>3. CASE tab' = [tab EXCEPT ![call.tab] = ApplyReply(@, Answer)]
    <3>1. Answer \in Reply
      BY <2>2, AnswerTyped DEF Inv1, TypeOK
    <3>2. ApplyReply(tab[call.tab], Answer).pending = tab[call.tab].pending
      BY <1>1, <2>2, <3>1, ApplyReplyTyped
    <3> QED BY <1>1, <2>2, <2>3, <3>2
  <2> QED BY <1>2, <1>9, <2>3 DEF ForegroundReturns, RespawnFails, Settle
<1>10. CASE \E t \in due : TickTab(t)
  <2>1. PICK t \in due : TickTab(t)
    BY <1>10
  <2>2. CASE tab' = [tab EXCEPT ![t].timer = FALSE, ![t].site = NoSite]
    <3>1. t \in TabIds /\ tab[t] \in Tab
      BY <1>1
    <3>2. tab'[t].pending = tab[t].pending
      BY <1>1, <2>2, <3>1 DEF Tab
    <3> QED BY <1>1, <2>2, <3>1, <3>2
  <2> QED BY <1>2, <2>1, <2>2 DEF TickTab
<1>11. CASE TickReturns
  <2>1. call \in Call /\ call.tab \in TabIds
    BY <1>11 DEF TickReturns, Inv1, UiOK, Blocked, Call
  <2>2. Answer \in Reply
    BY <2>1, AnswerTyped DEF Inv1, TypeOK
  <2>3. ApplyReply(tab[call.tab], Answer).pending = tab[call.tab].pending
    BY <1>1, <2>1, <2>2, ApplyReplyTyped
  <2> QED BY <1>1, <1>11, <2>1, <2>3 DEF TickReturns
<1>12. CASE \E t \in todo : PollTab(t)
  BY <1>1, <1>12 DEF PollTab, Tab
<1>13. CASE \/ \E i \in DOMAIN tabs : SwitchTab(i)
            \/ ForegroundAction \/ CloseTabReturns \/ CloseOldReturns \/ RespawnAndRetry
            \/ BeginPoll \/ PollDone \/ Tick \/ \E s \in Sites : IoStep(s) \/ Crash(s)
  BY <1>2, <1>13 DEF SwitchTab, ForegroundAction, CloseTabReturns, CloseOldReturns,
     RespawnAndRetry, BeginPoll, PollDone, Tick, BeginTick, IoStep, RoundTrip,
     RoundTripBreaks, WakeUi, Crash
<1> QED BY <1>3, <1>4, <1>5, <1>6, <1>7, <1>8, <1>9, <1>10, <1>11, <1>12, <1>13
        DEF QuietStep, UiStep

\* A navigation begun on a process waits for its own reply.
LEMMA BeginNavigatePending ==
  ASSUME Inv1, Incarnations, PendingMatches, Step1,
         BoundsAssumption, UrlsAssumption, SitesAssumption,
         NEW u \in Urls, BeginNavigate(u)
  PROVE  Incarnations' /\ PendingMatches'
<1> DEFINE t == ActiveTab
           s == SiteOf[u]
<1>1. /\ t \in TabIds /\ tab \in [TabIds -> Tab] /\ spawns \in Nat /\ PoolOK(pool, spawns)
      /\ s \in Sites /\ tab[t] \in Tab
  BY ActiveTabOpen, Constants DEF Inv1, TypeOK
<1>2. CASE StartOutcome(pool, t, u, tab[t].site, s, NoReply)
           /\ tab' = [tab EXCEPT ![t].want = u]
  <2>1. \A o \in TabIds : tab'[o].pending \in {tab[o].pending, NoPending}
    BY <1>1, <1>2 DEF Tab
  <2> QED BY <2>1, PendingKept
<1>3. ASSUME NEW P, PoolOK(P, spawns'), Follows(pool, P, spawns), QueueNavigate(P, t, u),
             P[s].inc \in 1 .. spawns'
      PROVE  Incarnations' /\ PendingMatches'
  <2>0. spawns' \in Nat
    BY DEF Step1, Inv1, TypeOK
  <2> DEFINE x == tab'[t].pending
  <2> HIDE DEF t
  <2>1. /\ \A o \in TabIds : o # t => tab'[o] = tab[o]
        /\ x \in Pending /\ x.site = s /\ x.url = u /\ x.inc = P[s].inc
        /\ Matches(pool'[s], x.id, t, "navigate", u)
    BY <1>1, <1>3, <2>0, QueueNavigateKeeps
  <2> HIDE DEF x
  <2>2. x.inc \in 1 .. spawns' /\ Matches(pool'[x.site], x.id, t, "navigate", x.url)
    BY <1>3, <2>1
  <2>3. ASSUME NEW o \in TabIds, o # t, tab'[o].pending.site # NoSite
        PROVE  LET n == tab'[o].pending
               IN  /\ n.inc \in 1 .. spawns'
                   /\ pool'[n.site].inc = n.inc =>
                        Matches(pool'[n.site], n.id, o, "navigate", n.url)
    <3> DEFINE n == tab'[o].pending
    <3>1. n = tab[o].pending /\ n.site # NoSite /\ tab[o] \in Tab
      BY <1>1, <2>1, <2>3
    <3>2. n \in Pending
      BY <3>1 DEF Tab, NoPending
    <3>3. n.inc \in 1 .. spawns
      BY <3>1 DEF Incarnations, HasPending
    <3>4. pool[n.site].inc = n.inc => Matches(pool[n.site], n.id, o, "navigate", n.url)
      BY <3>1 DEF PendingMatches, HasPending
    <3>5. n.site \in Sites /\ n.id \in Nat /\ n.url \in Urls \cup {NoUrl}
          /\ "navigate" \in RequestKinds
      BY <3>2 DEF Pending, RequestKinds
    <3> HIDE DEF n
    <3>6. Evolves(pool[n.site], pool'[n.site]) \/ pool'[n.site].inc \notin 1 .. spawns
      BY <3>5 DEF Step1, Follows
    <3>7. ASSUME pool'[n.site].inc = n.inc
          PROVE  Matches(pool'[n.site], n.id, o, "navigate", n.url)
      <4>1. Evolves(pool[n.site], pool'[n.site])
        BY <3>3, <3>6, <3>7
      <4>2. pool[n.site].inc = n.inc
        BY <4>1, <3>7 DEF Evolves
      <4> QED BY <3>4, <3>5, <4>1, <4>2 DEF Evolves
    <3>8. n.inc \in 1 .. spawns'
      BY <1>1, <2>0, <3>3 DEF Step1
    <3> QED BY <3>7, <3>8 DEF n
  <2> QED BY <2>2, <2>3 DEF Incarnations, PendingMatches, HasPending, x
<1>4. CASE Pooled(pool, s) /\ QueueNavigate(pool, t, u) /\ spawns' = spawns
  <2>1. pool[s].inc \in 1 .. spawns
    BY <1>1, <1>4 DEF PoolOK, Pooled, Process
  <2> QED BY <1>1, <1>3, <1>4, <2>1, FollowsSelf
<1>5. CASE /\ spawns' = spawns + 1
           /\ QueueNavigate([pool EXCEPT ![s] = Spawned(spawns + 1)], t, u)
  <2> DEFINE P == [pool EXCEPT ![s] = Spawned(spawns + 1)]
  <2>1. PoolOK(P, spawns') /\ Follows(pool, P, spawns) /\ P[s].inc \in 1 .. spawns'
    BY <1>1, <1>5, PutSpawned
  <2>2. QueueNavigate(P, t, u)
    BY <1>5
  <2> HIDE DEF P
  <2> QED BY <1>3, <2>1, <2>2
<1> QED BY <1>2, <1>4, <1>5 DEF BeginNavigate
-----------------------------------------------------------------------------
(* Who waits is answered                                                   *)

\* A handler that queues its message on a running process does not wait in vain.
LEMMA SendWaits ==
  ASSUME NEW P, NEW n \in Nat, PoolOK(P, n), NEW s \in Sites, P[s].io # "none",
         NEW t \in TabIds, NEW k \in RequestKinds, NEW u \in PagesOf(k),
         NEW retry \in BOOLEAN, Send(P, s, t, k, u, retry)
  PROVE  NoVainWait' /\ CallMatches'
<1>1. /\ StillPooled(P, pool')
      /\ call'.kind = k /\ call'.url = u /\ call'.site = s
      /\ Answerable(pool'[s], call'.id)
      /\ Matches(pool'[s], call'.id, call'.tab, k, u)
  BY SendKeeps
<1>2. Pooled(pool', s)
  BY <1>1 DEF StillPooled, Pooled
<1> QED BY <1>1, <1>2 DEF NoVainWait, CallMatches, Answerable

LEMMA StartOutcomeWaits ==
  ASSUME NEW P, NEW n \in Nat, PoolOK(P, n), NEW t \in TabIds, NEW u \in Urls,
         NEW old \in Sites \cup {NoSite}, NEW new \in Sites, NEW r \in Reply,
         StartOutcome(P, t, u, old, new, r)
  PROVE  NoVainWait' /\ CallMatches'
<1>1. CASE ui' = "apply"
  BY <1>1 DEF NoVainWait, CallMatches, Blocked
<1>2. CASE Pooled(P, old) /\ Send(P, old, t, "close", NoUrl, FALSE)
  <2>1. /\ old \in Sites /\ P[old].io # "none"
        /\ "close" \in RequestKinds /\ NoUrl \in PagesOf("close")
    BY <1>2 DEF Pooled, RequestKinds, PagesOf
  <2> QED BY <1>2, <2>1, SendWaits
<1> QED BY <1>1, <1>2 DEF StartOutcome

\* Steps after which the UI thread is not blocked.
LEMMA NotWaiting ==
  ASSUME ui' \notin Blocked
  PROVE  NoVainWait' /\ CallMatches'
BY DEF NoVainWait, CallMatches

LEMMA WaitsKept ==
  ASSUME Inv1, NoVainWait, CallMatches, Next,
         BoundsAssumption, UrlsAssumption, SitesAssumption
  PROVE  NoVainWait' /\ CallMatches'
<1>1. /\ ActiveTab \in TabIds /\ tab \in [TabIds -> Tab]
      /\ spawns \in Nat /\ PoolOK(pool, spawns)
      /\ \A i \in DOMAIN tabs : tabs[i] \in TabIds
      /\ \A t \in TabIds : tab[t].site \in Sites \cup {NoSite}
      /\ due \subseteq TabIds /\ todo \subseteq TabIds
      /\ NoReply \in Reply
      /\ \A u \in Urls : SiteOf[u] \in Sites
  <2>1. NoReply \in Reply
    BY Constants DEF NoReply, Reply, ReplyKinds
  <2> QED BY <2>1, ActiveTabOpen, Constants DEF Inv1, TypeOK
<1>3. /\ \A k \in {"close", "action", "tick"} : k \in RequestKinds /\ NoUrl \in PagesOf(k)
      /\ "navigate" \in RequestKinds /\ \A u \in Urls : u \in PagesOf("navigate")
  BY DEF PagesOf, RequestKinds
<1>4. ASSUME NEW s, Pooled(pool, s), NEW t \in TabIds, NEW k \in {"close", "action", "tick"},
             Send(pool, s, t, k, NoUrl, FALSE)
      PROVE  NoVainWait' /\ CallMatches'
  <2>1. s \in Sites /\ pool[s].io # "none"
    BY <1>4 DEF Pooled
  <2> QED BY <1>1, <1>3, <1>4, <2>1, SendWaits
<1>5. CASE ui' \notin Blocked
  BY <1>5, NotWaiting
<1>6. CASE \E i \in DOMAIN tabs : CloseTab(i)
  <2>1. PICK i \in DOMAIN tabs : CloseTab(i)
    BY <1>6
  <2> DEFINE t == tabs[i]
             s == tab[t].site
  <2>2. CASE Pooled(pool, s) /\ Send(pool, s, t, "close", NoUrl, FALSE)
    <3>1. t \in TabIds
      BY <1>1
    <3> HIDE DEF s, t
    <3> QED BY <1>4, <2>2, <3>1
  <2>3. CASE UNCHANGED <<ui, call>>
    BY <1>5, <2>1, <2>3 DEF CloseTab, UserEvent, Blocked
  <2> QED BY <2>1, <2>2, <2>3 DEF CloseTab
<1>7. CASE LoadAbout
  <2> DEFINE t == ActiveTab
             s == tab[t].site
  <2>1. CASE Pooled(pool, s) /\ Send(pool, s, t, "close", NoUrl, FALSE)
    <3>1. t \in TabIds
      BY <1>1
    <3> HIDE DEF s, t
    <3> QED BY <1>4, <2>1, <3>1
  <2>2. CASE UNCHANGED <<ui, call>>
    BY <1>5, <1>7, <2>2 DEF LoadAbout, UserEvent, Blocked
  <2> QED BY <1>7, <2>1, <2>2 DEF LoadAbout
<1>8. CASE ForegroundAction
  <2> DEFINE t == ActiveTab
             s == tab[t].site
  <2>1. Pooled(pool, s) /\ Send(pool, s, t, "action", NoUrl, FALSE) /\ t \in TabIds
    BY <1>1, <1>8 DEF ForegroundAction
  <2> HIDE DEF s, t
  <2> QED BY <1>4, <2>1
<1>9. CASE \E u \in Urls : BeginNavigate(u)
  <2>1. PICK u \in Urls : BeginNavigate(u)
    BY <1>9
  <2> DEFINE t == ActiveTab
             old == tab[t].site
             new == SiteOf[u]
  <2>2. CASE StartOutcome(pool, t, u, old, new, NoReply)
    <3>1. t \in TabIds /\ old \in Sites \cup {NoSite} /\ new \in Sites
      BY <1>1
    <3> HIDE DEF t, old, new
    <3> QED BY <1>1, <2>2, <3>1, StartOutcomeWaits
  <2>3. CASE UNCHANGED <<ui, call>>
    BY <1>5, <2>1, <2>3 DEF BeginNavigate, UserEvent, Blocked
  <2> QED BY <2>1, <2>2, <2>3 DEF BeginNavigate
<1>10. CASE \E u \in Urls : StartupNavigate(u)
  <2>1. PICK u \in Urls : StartupNavigate(u)
    BY <1>10
  <2> DEFINE t == ActiveTab
             old == tab[t].site
             new == SiteOf[u]
             P == [pool EXCEPT ![new] = Spawned(spawns + 1)]
  <2>2. CASE StartOutcome(pool, t, u, old, new, NoReply)
    <3>1. t \in TabIds /\ old \in Sites \cup {NoSite} /\ new \in Sites
      BY <1>1
    <3> HIDE DEF t, old, new
    <3> QED BY <1>1, <2>2, <3>1, StartOutcomeWaits
  <2>3. CASE Send(P, new, t, "navigate", u, FALSE)
    <3>1. t \in TabIds /\ new \in Sites /\ spawns + 1 \in Nat
      BY <1>1
    <3>2. PoolOK(P, spawns + 1) /\ P[new].io # "none"
      BY <1>1, <3>1, PutSpawned
    <3> HIDE DEF t, new, P
    <3> QED BY <1>3, <2>3, <3>1, <3>2, SendWaits
  <2> QED BY <2>1, <2>2, <2>3 DEF StartupNavigate
<1>11. CASE RespawnAndRetry
  <2>1. /\ ui \in {"action", "render"} /\ ui \in Blocked
        /\ Send([pool EXCEPT ![call.site] = Spawned(spawns + 1)],
                call.site, call.tab, call.kind, call.url, TRUE)
    BY <1>11 DEF RespawnAndRetry, Blocked
  <2>2. /\ call.site \in Sites /\ call.tab \in TabIds /\ call.kind \in RequestKinds
        /\ call.url \in PagesOf(call.kind)
    BY <2>1 DEF Inv1, UiOK, Awaits, Call, PagesOf
  <2> DEFINE s == call.site
             t == call.tab
             k == call.kind
             u == call.url
             P == [pool EXCEPT ![s] = Spawned(spawns + 1)]
  <2>3. spawns + 1 \in Nat /\ PoolOK(P, spawns + 1) /\ P[s].io # "none"
    BY <1>1, <2>2, PutSpawned
  <2>4. /\ Send(P, s, t, k, u, TRUE)
        /\ s \in Sites /\ t \in TabIds /\ k \in RequestKinds /\ u \in PagesOf(k)
    BY <2>1, <2>2
  <2> HIDE DEF P, s, t, k, u
  <2> QED BY <2>3, <2>4, SendWaits
<1>12. CASE ForegroundReturns \/ RespawnFails
  <2>1. ui \in {"action", "render"} /\ ui \in Blocked
    BY <1>12 DEF ForegroundReturns, RespawnFails, Blocked
  <2>2. /\ call \in Call /\ PoolOK(Drained, spawns)
        /\ Answer \in Reply
    BY <1>1, <2>1, DrainedFrom, AnswerTyped
  <2>3. call.site \in Sites /\ call.tab \in TabIds
    BY <2>2 DEF Call
  <2>4. ASSUME NEW P, PoolOK(P, spawns), Settle(P)
        PROVE  NoVainWait' /\ CallMatches'
    <3>1. CASE ui' = "idle"
      BY <1>5, <3>1 DEF Blocked
    <3>2. CASE /\ ui = "render"
               /\ StartOutcome(P, call.tab, call.url, tab[call.tab].site, call.site, Answer)
      <4> DEFINE t == call.tab
                 u == call.url
                 old == tab[t].site
                 new == call.site
      <4>1. t \in TabIds /\ u \in Urls /\ old \in Sites \cup {NoSite} /\ new \in Sites
        BY <1>1, <2>1, <2>3, <3>2 DEF Inv1, UiOK
      <4>2. StartOutcome(P, t, u, old, new, Answer)
        BY <3>2
      <4> HIDE DEF t, u, old, new
      <4> QED BY <1>1, <2>2, <2>4, <4>1, <4>2, StartOutcomeWaits
    <3> QED BY <2>4, <3>1, <3>2 DEF Settle
  <2>5. CASE ForegroundReturns
    BY <2>2, <2>4, <2>5 DEF ForegroundReturns
  <2>6. CASE RespawnFails
    <3> DEFINE P == [Drained EXCEPT ![call.site] = Killed(@)]
    <3>1. Evolves(Drained[call.site], Killed(Drained[call.site]))
      BY <2>2, <2>3, KilledKeeps DEF PoolOK
    <3>2. PoolOK(P, spawns)
      BY <1>1, <2>2, <2>3, <3>1, PutEvolved
    <3> QED BY <2>4, <2>6, <3>2 DEF RespawnFails
  <2> QED BY <1>12, <2>5, <2>6
<1>13. CASE \E t \in due : TickTab(t)
  <2>1. PICK t \in due : TickTab(t)
    BY <1>13
  <2> DEFINE s == tab[t].site
  <2>2. CASE Pooled(pool, s) /\ Send(pool, s, t, "tick", NoUrl, FALSE)
    <3>1. t \in TabIds
      BY <1>1
    <3> HIDE DEF s
    <3> QED BY <1>4, <2>2, <3>1
  <2>3. CASE ui' = "tick"
    BY <1>5, <2>3 DEF Blocked
  <2> QED BY <2>1, <2>2, <2>3 DEF TickTab
<1>14. CASE \E t \in todo : PollTab(t)
  <2>1. PICK t \in todo : PollTab(t)
    BY <1>14
  <2> DEFINE n == tab[t].pending
  <2>2. CASE ui' = "poll"
    BY <1>5, <2>2 DEF Blocked
  <2>3. ASSUME Pooled(pool, n.site), NEW r \in Answers(pool[n.site], n.id),
               StartOutcome([pool EXCEPT ![n.site] = Without(@, n.id)],
                            t, n.url, n.oldSite, n.site, r)
        PROVE  NoVainWait' /\ CallMatches'
    <3>1. t \in TabIds /\ tab[t] \in Tab /\ n.site \in Sites
      BY <1>1, <2>3 DEF Pooled
    <3>2. n \in Pending
      <4>1. NoPending.site \notin Sites
        BY SitesAssumption DEF NoPending
      <4> QED BY <3>1, <4>1 DEF Tab
    <3>3. n.url \in Urls /\ n.oldSite \in Sites \cup {NoSite} /\ n.id \in Nat
      BY <3>2 DEF Pending
    <3>4. r \in Reply
      BY <1>1, <2>3, <3>1 DEF PoolOK, Process, Answers
    <3> DEFINE P == [pool EXCEPT ![n.site] = Without(@, n.id)]
               u == n.url
               old == n.oldSite
               new == n.site
    <3>5. Evolves(pool[n.site], Without(pool[n.site], n.id))
      BY <1>1, <3>1, <3>3, WithoutKeeps DEF PoolOK
    <3>6. PoolOK(P, spawns)
      BY <1>1, <3>1, <3>5, PutEvolved, ZenonT(60)
    <3>7. /\ StartOutcome(P, t, u, old, new, r)
          /\ u \in Urls /\ old \in Sites \cup {NoSite} /\ new \in Sites
      BY <2>3, <3>1, <3>3
    <3> HIDE DEF P, u, old, new, n
    <3> QED BY <1>1, <3>1, <3>4, <3>6, <3>7, StartOutcomeWaits
  <2> QED BY <2>1, <2>2, <2>3 DEF PollTab
<1>15. CASE \E s \in Sites : IoStep(s) \/ Crash(s)
  <2>1. PICK s \in Sites : IoStep(s) \/ Crash(s)
    BY <1>15
  <2>2. /\ ui' = ui /\ call' = call
        /\ Evolves(pool[s], pool'[s])
        /\ \A id \in Nat : Answerable(pool[s], id) => Answerable(pool'[s], id)
        /\ \A o \in Sites : o # s => pool'[o] = pool[o]
    BY <2>1, IoSteps1
  <2>3. CASE ui \in Blocked
    <3>1. /\ call.site \in Sites /\ call.id \in Nat /\ call.tab \in TabIds
          /\ call.kind \in RequestKinds /\ call.url \in Urls \cup {NoUrl}
      BY <2>3 DEF Inv1, UiOK, Call
    <3>2. /\ pool[call.site].io # "none"
          /\ Answerable(pool[call.site], call.id)
          /\ Matches(pool[call.site], call.id, call.tab, call.kind, call.url)
      BY <2>3 DEF NoVainWait, CallMatches, Pooled, Answerable
    <3>3. /\ pool'[call.site].io # "none"
          /\ Answerable(pool'[call.site], call.id)
          /\ Matches(pool'[call.site], call.id, call.tab, call.kind, call.url)
      <4>1. CASE call.site = s
        BY <2>2, <3>1, <3>2, <4>1 DEF Evolves
      <4>2. CASE call.site # s
        BY <2>2, <3>1, <3>2, <4>2
      <4> QED BY <4>1, <4>2
    <3> QED BY <2>2, <3>1, <3>3 DEF NoVainWait, CallMatches, Pooled, Answerable
  <2>4. CASE ui \notin Blocked
    BY <1>5, <2>2, <2>4
  <2> QED BY <2>3, <2>4
<1>16. CASE OpenNewTab \/ \E i \in DOMAIN tabs : SwitchTab(i)
  BY <1>5, <1>16 DEF OpenNewTab, SwitchTab, UserEvent, Blocked
<1>17. CASE CloseTabReturns \/ LeaveReturns \/ CloseOldReturns \/ FinishOutcome
  BY <1>5, <1>17 DEF CloseTabReturns, LeaveReturns, CloseOldReturns, FinishOutcome, Blocked
<1>18. CASE TickReturns \/ BeginPoll \/ PollDone \/ Tick
  BY <1>5, <1>18 DEF TickReturns, BeginPoll, PollDone, Tick, BeginTick, Blocked
<1> QED BY <1>6, <1>7, <1>8, <1>9, <1>10, <1>11, <1>12, <1>13, <1>14, <1>15, <1>16,
           <1>17, <1>18 DEF Next, User, UiStep
-----------------------------------------------------------------------------
(* No sweep takes away what a tab needs                                    *)

\* Pool P has a process for every site the tabs ts, in state tb, refer to.
SitesPooled(P, ts, tb) ==
  \A s \in Sites : Referenced(ts, tb, s) => P[s].io # "none"

LEMMA SitesPooledMeans ==
  ASSUME Inv1, SitesAssumption
  PROVE  ReferencedSitesPooled <=>
           /\ SitesPooled(pool, tabs, tab)
           /\ ui \in {"closingOld", "apply"} /\ outcome.reply.kind = "rendered"
                => Pooled(pool, outcome.new)
<1>1. \A t \in TabIds : /\ tab[t].site \in Sites \cup {NoSite}
                        /\ tab[t].pending.site \in Sites \cup {NoSite}
  BY DEF Inv1, TypeOK, Tab, Pending, NoPending
<1>2. \A i \in DOMAIN tabs : tabs[i] \in TabIds
  BY ActiveTabOpen
<1> QED BY <1>1, <1>2, SitesAssumption
        DEF ReferencedSitesPooled, SitesPooled, Referenced, Pooled, HasPending, Open, ToSet

\* A sweep spares them, and so does whatever takes no process away.
LEMMA SweepSpares ==
  ASSUME NEW P, NEW Q, NEW ts, NEW tb, SitesPooled(P, ts, tb),
         StillPooled(P, Q) \/ Q = Evict(P, ts, tb)
  PROVE  SitesPooled(Q, ts, tb)
BY DEF SitesPooled, StillPooled, Evict

LEMMA ReferencedKept ==
  ASSUME Inv1, ReferencedSitesPooled, NoVainWait, Step1, Next,
         BoundsAssumption, UrlsAssumption, SitesAssumption
  PROVE  ReferencedSitesPooled'
<1>1. /\ ActiveTab \in TabIds /\ tab \in [TabIds -> Tab]
      /\ spawns \in Nat /\ PoolOK(pool, spawns) /\ tabs \in Seq(TabIds)
      /\ \A i \in DOMAIN tabs : tabs[i] \in TabIds
      /\ \A t \in TabIds : tab[t].site \in Sites \cup {NoSite}
      /\ \A u \in Urls : SiteOf[u] \in Sites
      /\ due \subseteq TabIds /\ todo \subseteq TabIds
  BY ActiveTabOpen, Constants DEF Inv1, TypeOK
<1>2. /\ SitesPooled(pool, tabs, tab)
      /\ ui \in {"closingOld", "apply"} /\ outcome.reply.kind = "rendered"
           => Pooled(pool, outcome.new)
  BY SitesPooledMeans, SitesAssumption
<1>3. SUFFICES /\ SitesPooled(pool', tabs', tab')
               /\ ui' \in {"closingOld", "apply"} /\ outcome'.reply.kind = "rendered"
                    => Pooled(pool', outcome'.new)
  <2>1. /\ \A t \in TabIds : /\ tab'[t].site \in Sites \cup {NoSite}
                           /\ tab'[t].pending.site \in Sites \cup {NoSite}
    BY DEF Step1, Inv1, TypeOK, Tab, Pending, NoPending
  <2>2. \A i \in DOMAIN tabs' : tabs'[i] \in TabIds
    BY DEF Step1, Inv1, TypeOK
  <2> QED BY <2>1, <2>2, SitesAssumption
          DEF ReferencedSitesPooled, SitesPooled, Referenced, Pooled, HasPending, Open, ToSet
<1> DEFINE NeedsPooled == ui' \in {"closingOld", "apply"} /\ outcome'.reply.kind = "rendered"
                            => Pooled(pool', outcome'.new)
\* From the current pool by spawning and queueing to P, and by a sweep to pool'.
<1>4. ASSUME NEW P, StillPooled(pool, P),
             StillPooled(P, pool') \/ pool' = Evict(P, tabs', tab'),
             \A s \in Sites : Referenced(tabs', tab', s) =>
                                Referenced(tabs, tab, s) \/ P[s].io # "none"
      PROVE  SitesPooled(pool', tabs', tab')
  <2>1. SitesPooled(P, tabs', tab')
    BY <1>2, <1>4 DEF SitesPooled, StillPooled
  <2> QED BY <1>4, <2>1, SweepSpares
<1>5. ASSUME NEW P, UNCHANGED tabs,
             \A t \in TabIds :
               /\ \/ tab'[t].site \in {tab[t].site, NoSite}
                  \/ P[tab'[t].site].io # "none"
               /\ \/ tab'[t].pending.site \in {tab[t].pending.site, NoSite}
                  \/ P[tab'[t].pending.site].io # "none"
      PROVE  \A s \in Sites : Referenced(tabs', tab', s) =>
                                Referenced(tabs, tab, s) \/ P[s].io # "none"
  BY <1>1, <1>5, SitesAssumption DEF Referenced
<1>6. StillPooled(pool, pool) /\ (pool' = pool => StillPooled(pool, pool'))
  BY DEF StillPooled
<1>7. NoPending.site = NoSite
  BY DEF NoPending
\* Steps that keep every tab's sites, every process, and the handler's outcome.
<1>8. ASSUME UNCHANGED tabs, StillPooled(pool, pool'),
             \A t \in TabIds : tab'[t].site \in {tab[t].site, NoSite},
             \A t \in TabIds : tab'[t].pending \in {tab[t].pending, NoPending}
      PROVE  SitesPooled(pool', tabs', tab')
  BY <1>4, <1>5, <1>6, <1>7, <1>8
<1>9. ASSUME QuietStep
      PROVE  \A t \in TabIds : tab'[t].pending \in {tab[t].pending, NoPending}
  BY <1>9, PendingUntouched
<1>10. /\ \A k \in {"close", "action", "tick"} : k \in RequestKinds /\ NoUrl \in PagesOf(k)
       /\ "navigate" \in RequestKinds /\ \A u \in Urls : u \in PagesOf("navigate")
  BY DEF PagesOf, RequestKinds
<1>11. ASSUME NEW s, Pooled(pool, s), NEW t \in TabIds, NEW k \in {"close", "action", "tick"},
              Send(pool, s, t, k, NoUrl, FALSE)
       PROVE  StillPooled(pool, pool')
  <2>1. s \in Sites
    BY <1>11 DEF Pooled
  <2> QED BY <1>1, <1>10, <1>11, <2>1, SendKeeps
<1>12. NoReply \in Reply /\ NoReply.kind = "broken"
  BY Constants DEF NoReply, Reply, ReplyKinds
<1>13. CASE OpenNewTab
  <2>1. nextTab \in TabIds
    BY <1>13 DEF OpenNewTab, Inv1, TypeOK, TabIds
  <2>2. /\ tabs' = Append(tabs, nextTab) /\ tab' = [tab EXCEPT ![nextTab] = BlankTab]
        /\ pool' = pool /\ ui' = "idle"
    BY <1>13 DEF OpenNewTab, UserEvent
  <2>3. BlankTab.site = NoSite /\ BlankTab.pending.site = NoSite
    BY DEF BlankTab, NoPending
  <2>4. \A i \in DOMAIN tabs' : \/ i \in DOMAIN tabs /\ tabs'[i] = tabs[i]
                                \/ tabs'[i] = nextTab
    BY <1>1, <2>2
  <2>5. \A s \in Sites : Referenced(tabs', tab', s) => Referenced(tabs, tab, s)
    BY <1>1, <2>1, <2>2, <2>3, <2>4, SitesAssumption DEF Referenced
  <2> QED BY <1>4, <1>6, <2>2, <2>5
<1>14. CASE \E i \in DOMAIN tabs : SwitchTab(i)
  <2>1. UNCHANGED <<tabs, tab, pool>> /\ ui' = "idle"
    BY <1>14 DEF SwitchTab, UserEvent
  <2> QED BY <1>6, <1>8, <2>1
<1>15. CASE \E i \in DOMAIN tabs : CloseTab(i)
  <2>1. PICK i \in DOMAIN tabs : CloseTab(i)
    BY <1>15
  <2> DEFINE t == tabs[i]
             s == tab[t].site
  <2>2. /\ tabs' = RemoveAt(tabs, i) /\ tab' = [tab EXCEPT ![t] = BlankTab] /\ t \in TabIds
        /\ ui' \in {"idle", "closing"}
    BY <1>1, <2>1 DEF CloseTab, UserEvent
  <2>3. \A j \in DOMAIN tabs' : \E k \in DOMAIN tabs : tabs'[j] = tabs[k]
    <3>1. /\ Len(RemoveAt(tabs, i)) = Len(tabs) - 1 /\ RemoveAt(tabs, i) \in Seq(TabIds)
          /\ \A j \in 1 .. Len(tabs) - 1 :
               RemoveAt(tabs, i)[j] = tabs[IF j < i THEN j ELSE j + 1]
      BY <1>1, RemoveAtKeeps
    <3>2. \A j \in 1 .. Len(tabs) - 1 : (IF j < i THEN j ELSE j + 1) \in DOMAIN tabs
      BY <1>1
    <3> QED BY <2>2, <3>1, <3>2
  <2>4. BlankTab.site = NoSite /\ BlankTab.pending.site = NoSite
    BY DEF BlankTab, NoPending
  <2>5. \A o \in Sites : Referenced(tabs', tab', o) => Referenced(tabs, tab, o)
    <3> HIDE DEF t
    <3> QED BY <1>1, <2>2, <2>3, <2>4, SitesAssumption DEF Referenced
  <2>6. CASE Pooled(pool, s) /\ Send(pool, s, t, "close", NoUrl, FALSE)
    <3> HIDE DEF s, t
    <3>1. StillPooled(pool, pool')
      BY <1>11, <2>2, <2>6
    <3> QED BY <1>4, <1>6, <2>2, <2>5, <3>1
  <2>7. CASE pool' = pool \/ pool' = Evict(pool, tabs', tab')
    <3> HIDE DEF s, t
    <3> QED BY <1>4, <1>6, <2>2, <2>5, <2>7
  <2> QED BY <2>1, <2>6, <2>7 DEF CloseTab
<1>16. CASE LoadAbout
  <2> DEFINE t == ActiveTab
             s == tab[t].site
  <2>1. ~(ui' \in {"closingOld", "apply"}) /\ UNCHANGED tabs
    BY <1>16 DEF LoadAbout, UserEvent
  <2>2. \A o \in TabIds : tab'[o].pending \in {tab[o].pending, NoPending}
    BY <1>9, <1>16 DEF QuietStep
  <2>3. CASE Pooled(pool, s)
    <3>1. Send(pool, s, t, "close", NoUrl, FALSE) /\ tab' = [tab EXCEPT ![t].want = About]
      BY <1>16, <2>3 DEF LoadAbout
    <3>2. \A o \in TabIds : tab'[o].site = tab[o].site
      BY <1>1, <3>1 DEF Tab
    <3> HIDE DEF s, t
    <3>3. StillPooled(pool, pool')
      BY <1>1, <1>11, <2>3, <3>1 DEF t
    <3> QED BY <1>8, <2>1, <2>2, <3>2, <3>3
  <2>4. CASE ~Pooled(pool, s)
    <3>1. /\ pool' = IF s = NoSite THEN pool ELSE Evict(pool, tabs, tab')
          /\ tab' = [tab EXCEPT ![t].want = About, ![t].url = About,
                                  ![t].page = About, ![t].site = NoSite,
                                  ![t].timer = @ /\ s = NoSite]
      BY <1>16, <2>4 DEF LoadAbout
    <3>2. \A o \in TabIds : tab'[o].site \in {tab[o].site, NoSite}
      <4>1. tab[t] \in Tab
        BY <1>1
      <4>2. tab'[t].site = NoSite
        BY <1>1, <3>1, <4>1 DEF Tab
      <4> HIDE DEF s, t
      <4> QED BY <1>1, <3>1, <4>2 DEF t
    <3>3. pool' = pool \/ pool' = Evict(pool, tabs', tab')
      BY <2>1, <3>1
    <3> HIDE DEF s, t
    <3>4. \A o \in Sites : Referenced(tabs', tab', o) =>
                             Referenced(tabs, tab, o) \/ pool[o].io # "none"
      BY <1>5, <1>7, <2>1, <2>2, <3>2
    <3> QED BY <1>4, <1>6, <2>1, <3>3, <3>4
  <2> QED BY <2>3, <2>4
<1>17. CASE ForegroundAction
  <2> DEFINE t == ActiveTab
             s == tab[t].site
  <2>1. /\ UNCHANGED <<tabs, tab>> /\ ui' = "action"
        /\ Pooled(pool, s) /\ Send(pool, s, t, "action", NoUrl, FALSE) /\ t \in TabIds
    BY <1>1, <1>17 DEF ForegroundAction
  <2> HIDE DEF s, t
  <2>2. StillPooled(pool, pool')
    BY <1>11, <2>1
  <2> QED BY <1>8, <2>1, <2>2
<1>18. CASE \E u \in Urls : BeginNavigate(u)
  <2>1. PICK u \in Urls : BeginNavigate(u)
    BY <1>18
  <2> DEFINE t == ActiveTab
             s == SiteOf[u]
             old == tab[t].site
             Q == [pool EXCEPT ![s] = Spawned(spawns + 1)]
  <2>2. t \in TabIds /\ s \in Sites /\ old \in Sites \cup {NoSite} /\ tab[t] \in Tab
        /\ UNCHANGED tabs
    BY <1>1, <2>1 DEF BeginNavigate
  <2>3. CASE StartOutcome(pool, t, u, old, s, NoReply) /\ tab' = [tab EXCEPT ![t].want = u]
    <3>1. \A o \in TabIds : tab'[o].site = tab[o].site /\ tab'[o].pending = tab[o].pending
      BY <1>1, <2>2, <2>3 DEF Tab
    <3> HIDE DEF t, s, old
    <3>2. StillPooled(pool, pool') /\ outcome'.reply = NoReply
      BY <1>1, <1>12, <2>2, <2>3, StartOutcomeKeeps
    <3> QED BY <1>8, <1>12, <2>2, <3>1, <3>2
  <2>4. ASSUME NEW P, NEW n \in Nat, PoolOK(P, n), NEW m \in Nat, Follows(pool, P, m),
               StillPooled(pool, P), P[s].io # "none", QueueNavigate(P, t, u), ui' = ui
        PROVE  /\ SitesPooled(pool', tabs', tab')
               /\ NeedsPooled
    <3>1. ui' = "idle"
      BY <2>1, <2>4 DEF BeginNavigate, UserEvent
    <3> HIDE DEF t
    <3>2. /\ StillPooled(P, pool')
          /\ \A o \in TabIds : o # t => tab'[o] = tab[o]
          /\ tab'[t].site = tab[t].site
          /\ tab'[t].pending.site = s
      BY <1>1, <2>2, <2>4, UrlsAssumption, SitesAssumption, QueueNavigateKeeps
    <3> HIDE DEF s
    <3>3. \A o \in TabIds :
            /\ tab'[o].site = tab[o].site
            /\ tab'[o].pending = tab[o].pending \/ P[tab'[o].pending.site].io # "none"
      BY <2>4, <3>2
    <3>4. \A o \in Sites : Referenced(tabs', tab', o) =>
                             Referenced(tabs, tab, o) \/ P[o].io # "none"
      BY <1>5, <2>2, <3>3
    <3> QED BY <1>4, <2>4, <3>1, <3>2, <3>4
  <2>5. CASE Pooled(pool, s) /\ QueueNavigate(pool, t, u) /\ ui' = ui
    <3>1. pool[s].io # "none" /\ Follows(pool, pool, spawns)
      BY <1>1, <2>5, FollowsSelf DEF Pooled
    <3> QED BY <1>1, <1>6, <2>4, <2>5, <3>1
  <2>6. CASE QueueNavigate(Q, t, u) /\ ui' = ui
    <3>0. spawns + 1 \in Nat
      BY <1>1
    <3>1. /\ PoolOK(Q, spawns + 1) /\ Follows(pool, Q, spawns)
          /\ StillPooled(pool, Q) /\ Q[s].io # "none"
      <4> HIDE DEF s
      <4> QED BY <1>1, <2>2, PutSpawned
    <3>2. QueueNavigate(Q, t, u) /\ ui' = ui
      BY <2>6
    <3> HIDE DEF Q, t, s
    <3> QED BY <1>1, <2>4, <3>0, <3>1, <3>2
  <2>7. \/ StartOutcome(pool, t, u, old, s, NoReply) /\ tab' = [tab EXCEPT ![t].want = u]
        \/ Pooled(pool, s) /\ QueueNavigate(pool, t, u) /\ ui' = ui
        \/ QueueNavigate(Q, t, u) /\ ui' = ui
    BY <2>1 DEF BeginNavigate
  <2> QED BY <2>3, <2>5, <2>6, <2>7
<1>19. CASE \E u \in Urls : StartupNavigate(u)
  <2>1. PICK u \in Urls : StartupNavigate(u)
    BY <1>19
  <2> DEFINE t == ActiveTab
             s == SiteOf[u]
             old == tab[t].site
             P == [pool EXCEPT ![s] = Spawned(spawns + 1)]
  <2>2. /\ t \in TabIds /\ s \in Sites /\ old \in Sites \cup {NoSite} /\ spawns + 1 \in Nat
        /\ UNCHANGED tabs
    BY <1>1, <2>1 DEF StartupNavigate
  <2>3. \A o \in TabIds : tab'[o].site = tab[o].site /\ tab'[o].pending = tab[o].pending
    BY <1>1, <2>1 DEF StartupNavigate, Tab
  <2>4. CASE StartOutcome(pool, t, u, old, s, NoReply)
    <3> HIDE DEF t, s, old
    <3>1. StillPooled(pool, pool') /\ outcome'.reply = NoReply
      BY <1>1, <1>12, <2>2, <2>4, StartOutcomeKeeps
    <3> QED BY <1>8, <1>12, <2>2, <2>3, <3>1
  <2>5. CASE Send(P, s, t, "navigate", u, FALSE) /\ ui' = "render"
    <3>1. PoolOK(P, spawns + 1) /\ StillPooled(pool, P)
      BY <1>1, <2>2, PutSpawned
    <3> HIDE DEF t, s, P
    <3>2. StillPooled(P, pool')
      BY <1>10, <2>2, <2>5, <3>1, SendKeeps
    <3>3. StillPooled(pool, pool')
      BY <3>1, <3>2 DEF StillPooled
    <3> QED BY <1>8, <2>2, <2>3, <2>5, <3>3
  <2> QED BY <2>1, <2>4, <2>5 DEF StartupNavigate
<1>20. CASE CloseTabReturns
  <2>1. /\ pool' = Evict(Drained, tabs', tab') /\ UNCHANGED <<tabs, tab>> /\ ui' = "idle"
        /\ ui \in Blocked
    BY <1>20 DEF CloseTabReturns, Blocked
  <2>2. StillPooled(pool, Drained)
    BY <2>1, DrainedFrom
  <2> QED BY <1>4, <1>5, <2>1, <2>2
<1>21. CASE LeaveReturns
  <2>1. /\ pool' = Evict(Drained, tabs', tab') /\ UNCHANGED tabs /\ ui' = "idle"
        /\ ui \in Blocked
    BY <1>21 DEF LeaveReturns, Blocked
  <2>2. StillPooled(pool, Drained)
    BY <2>1, DrainedFrom
  <2>3. \A o \in TabIds : tab'[o].pending \in {tab[o].pending, NoPending}
    BY <1>9, <1>21 DEF QuietStep, UiStep
  <2>4. \A o \in TabIds : tab'[o].site \in {tab[o].site, NoSite}
    BY <1>1, <1>21 DEF LeaveReturns, Tab
  <2>5. \A o \in Sites : Referenced(tabs', tab', o) =>
                           Referenced(tabs, tab, o) \/ Drained[o].io # "none"
    BY <1>5, <1>7, <2>1, <2>3, <2>4
  <2> QED BY <1>4, <2>1, <2>2, <2>5
<1>22. CASE CloseOldReturns
  <2>1. /\ pool' = Drained /\ UNCHANGED <<tabs, tab, outcome>> /\ ui = "closingOld"
        /\ ui \in Blocked
    BY <1>22 DEF CloseOldReturns, Blocked
  <2>2. StillPooled(pool, pool')
    BY <2>1, DrainedFrom
  <2>3. NeedsPooled
    BY <1>2, <2>1, <2>2 DEF StillPooled, Pooled
  <2> QED BY <1>8, <2>1, <2>2, <2>3
<1>23. CASE FinishOutcome
  <2> DEFINE t == outcome.tab
             new == outcome.new
             ok == outcome.reply.kind = "rendered"
  <2>1. /\ UNCHANGED tabs /\ ui = "apply" /\ ui' = "poll"
        /\ pool' = Evict(pool, tabs', tab')
    BY <1>23 DEF FinishOutcome
  <2>2. t \in TabIds
    BY <2>1 DEF Inv1, UiOK, Outcome
  <2>3. tab'[t].site = IF ok THEN new ELSE NoSite
    <3>1. tab[t] \in Tab
      BY <1>1, <2>2
    <3> QED BY <1>1, <1>23, <2>2, <3>1 DEF FinishOutcome, Tab
  <2>4. \A o \in TabIds : o # t => tab'[o] = tab[o]
    BY <1>1, <1>23, <2>2 DEF FinishOutcome
  <2>5. ok => pool[new].io # "none"
    BY <1>2, <2>1 DEF Pooled
  <2>6. \A o \in TabIds : tab'[o].pending \in {tab[o].pending, NoPending}
    BY <1>9, <1>23 DEF QuietStep, UiStep
  <2> HIDE DEF t, new, ok
  <2>7. \A o \in TabIds : \/ tab'[o].site \in {tab[o].site, NoSite}
                          \/ pool[tab'[o].site].io # "none"
    BY <2>3, <2>4, <2>5
  <2>8. \A o \in Sites : Referenced(tabs', tab', o) =>
                           Referenced(tabs, tab, o) \/ pool[o].io # "none"
    BY <1>5, <1>7, <2>1, <2>6, <2>7
  <2> QED BY <1>4, <1>6, <2>1, <2>8
<1>24. CASE RespawnAndRetry
  <2>1. /\ ui \in {"action", "render"} /\ ui \in Blocked /\ UNCHANGED <<tabs, tab, ui>>
        /\ Send([pool EXCEPT ![call.site] = Spawned(spawns + 1)],
                call.site, call.tab, call.kind, call.url, TRUE)
    BY <1>24 DEF RespawnAndRetry, Blocked
  <2>2. /\ call.site \in Sites /\ call.tab \in TabIds /\ call.kind \in RequestKinds
        /\ call.url \in PagesOf(call.kind)
    BY <2>1 DEF Inv1, UiOK, Awaits, Call, PagesOf
  <2> DEFINE s == call.site
             t == call.tab
             k == call.kind
             u == call.url
             P == [pool EXCEPT ![s] = Spawned(spawns + 1)]
  <2>3. spawns + 1 \in Nat /\ PoolOK(P, spawns + 1) /\ StillPooled(pool, P)
    <3>1. spawns + 1 \in Nat
      BY <1>1
    <3>2. PoolOK(P, spawns + 1) /\ StillPooled(pool, P)
      <4>1. s \in Sites
        BY <2>2
      <4> HIDE DEF s
      <4> QED BY <1>1, <4>1, PutSpawned
    <3> QED BY <3>1, <3>2
  <2>4. /\ Send(P, s, t, k, u, TRUE)
        /\ s \in Sites /\ t \in TabIds /\ k \in RequestKinds /\ u \in PagesOf(k)
    BY <2>1, <2>2
  <2> HIDE DEF P, s, t, k, u
  <2>5. StillPooled(P, pool')
    BY <2>3, <2>4, SendKeeps
  <2>6. StillPooled(pool, pool')
    BY <2>3, <2>5 DEF StillPooled
  <2> QED BY <1>8, <2>1, <2>6
<1>25. CASE ForegroundReturns \/ RespawnFails
  <2>1. ui \in {"action", "render"} /\ ui \in Blocked /\ UNCHANGED tabs
    BY <1>25 DEF ForegroundReturns, RespawnFails, Blocked
  <2>2. /\ call \in Call /\ PoolOK(Drained, spawns) /\ StillPooled(pool, Drained)
    BY <2>1, DrainedFrom
  <2>3. call.site \in Sites /\ pool[call.site].io # "none"
    BY <2>1, <2>2 DEF Call, NoVainWait, Pooled
  <2>4. ASSUME NEW P, PoolOK(P, spawns), StillPooled(pool, P), Settle(P)
        PROVE  /\ SitesPooled(pool', tabs', tab')
               /\ NeedsPooled
    <3>1. /\ StillPooled(P, pool')
          /\ \A t \in TabIds : tab'[t].pending = tab[t].pending /\ tab'[t].site = tab[t].site
          /\ ui' = "idle" \/ outcome'.new = call.site
      BY <1>1, <2>1, <2>4, SettleKeeps, BoundsAssumption DEF Inv1
    <3>2. StillPooled(pool, pool')
      BY <2>4, <3>1 DEF StillPooled
    <3>3. NeedsPooled
      BY <2>3, <3>1, <3>2 DEF StillPooled, Pooled
    <3> QED BY <1>8, <2>1, <3>1, <3>2, <3>3
  <2>5. CASE ForegroundReturns
    BY <2>2, <2>4, <2>5 DEF ForegroundReturns
  <2>6. CASE RespawnFails
    <3> DEFINE P == [Drained EXCEPT ![call.site] = Killed(@)]
    <3>1. Evolves(Drained[call.site], Killed(Drained[call.site]))
      BY <2>2, <2>3, KilledKeeps DEF PoolOK
    <3>2. PoolOK(P, spawns) /\ StillPooled(Drained, P)
      BY <1>1, <2>2, <2>3, <3>1, PutEvolved
    <3>3. StillPooled(pool, P)
      BY <2>2, <3>2 DEF StillPooled
    <3> QED BY <2>4, <2>6, <3>2, <3>3 DEF RespawnFails
  <2> QED BY <1>25, <2>5, <2>6
<1>26. CASE \E t \in due : TickTab(t)
  <2>1. PICK t \in due : TickTab(t)
    BY <1>26
  <2> DEFINE s == tab[t].site
  <2>2. t \in TabIds /\ UNCHANGED tabs /\ ui' \in {"tick", "ticking"}
    BY <1>1, <2>1 DEF TickTab
  <2>3. CASE Pooled(pool, s) /\ Send(pool, s, t, "tick", NoUrl, FALSE) /\ tab' = tab
    <3> HIDE DEF s
    <3>1. StillPooled(pool, pool')
      BY <1>11, <2>2, <2>3
    <3> QED BY <1>8, <2>2, <2>3, <3>1
  <2>4. CASE pool' = pool /\ tab' = [tab EXCEPT ![t].timer = FALSE, ![t].site = NoSite]
    <3>1. tab[t] \in Tab
      BY <1>1, <2>2
    <3>2. tab'[t].site = NoSite /\ tab'[t].pending = tab[t].pending
      BY <1>1, <2>2, <2>4, <3>1 DEF Tab
    <3>3. \A o \in TabIds : o # t => tab'[o] = tab[o]
      BY <1>1, <2>2, <2>4
    <3> QED BY <1>6, <1>8, <2>2, <2>4, <3>2, <3>3
  <2> QED BY <2>1, <2>3, <2>4 DEF TickTab
<1>27. CASE TickReturns
  <2>1. /\ pool' = Drained /\ UNCHANGED tabs /\ ui' = "tick" /\ ui \in Blocked
        /\ tab' = [tab EXCEPT ![call.tab] = ApplyReply(@, Answer)]
    BY <1>27 DEF TickReturns, Blocked
  <2>2. call \in Call /\ call.tab \in TabIds /\ StillPooled(pool, Drained)
    BY <2>1, DrainedFrom DEF Call
  <2>3. Answer \in Reply
    BY <1>1, <2>2, AnswerTyped, BoundsAssumption
  <2>4. /\ ApplyReply(tab[call.tab], Answer).pending = tab[call.tab].pending
        /\ ApplyReply(tab[call.tab], Answer).site = tab[call.tab].site
    BY <1>1, <2>2, <2>3, ApplyReplyTyped
  <2>5. \A o \in TabIds : tab'[o].site = tab[o].site /\ tab'[o].pending = tab[o].pending
    BY <1>1, <2>1, <2>2, <2>4
  <2> QED BY <1>8, <2>1, <2>2, <2>5
<1>28. CASE BeginPoll \/ PollDone \/ Tick
  <2>1. UNCHANGED <<tabs, tab, pool>> /\ ui' \in {"tick", "poll", "idle"}
    BY <1>28 DEF BeginPoll, PollDone, Tick, BeginTick
  <2> QED BY <1>6, <1>8, <2>1
<1>29. CASE \E t \in todo : PollTab(t)
  <2>1. PICK t \in todo : PollTab(t)
    BY <1>29
  <2> DEFINE n == tab[t].pending
  <2>2. t \in TabIds /\ UNCHANGED tabs
    BY <1>1, <2>1 DEF PollTab
  <2>3. CASE UNCHANGED <<tab, pool, ui, call, outcome>>
    BY <1>2, <1>6, <1>8, <2>2, <2>3 DEF Pooled
  <2>4. ASSUME Pooled(pool, n.site), NEW r \in Answers(pool[n.site], n.id),
               tab' = [tab EXCEPT ![t].pending = NoPending],
               StartOutcome([pool EXCEPT ![n.site] = Without(@, n.id)],
                            t, n.url, n.oldSite, n.site, r)
        PROVE  /\ SitesPooled(pool', tabs', tab')
               /\ NeedsPooled
    <3>1. tab[t] \in Tab /\ n.site \in Sites /\ pool[n.site].io # "none"
      BY <1>1, <2>2, <2>4 DEF Pooled
    <3>2. n \in Pending
      <4>1. NoPending.site \notin Sites
        BY SitesAssumption DEF NoPending
      <4> QED BY <3>1, <4>1 DEF Tab
    <3>3. n.url \in Urls /\ n.oldSite \in Sites \cup {NoSite} /\ n.id \in Nat
      BY <3>2 DEF Pending
    <3>4. r \in Reply
      BY <1>1, <2>4, <3>1 DEF PoolOK, Process, Answers
    <3>5. \A o \in TabIds : /\ tab'[o].site = tab[o].site
                            /\ tab'[o].pending \in {tab[o].pending, NoPending}
      BY <1>1, <2>2, <2>4, <3>1 DEF Tab
    <3> DEFINE P == [pool EXCEPT ![n.site] = Without(@, n.id)]
               u == n.url
               old == n.oldSite
               new == n.site
    <3>6. Evolves(pool[n.site], Without(pool[n.site], n.id))
      BY <1>1, <3>1, <3>3, WithoutKeeps DEF PoolOK
    <3>7. PoolOK(P, spawns) /\ StillPooled(pool, P)
      BY <1>1, <3>1, <3>6, PutEvolved
    <3>8. /\ StartOutcome(P, t, u, old, new, r)
          /\ u \in Urls /\ old \in Sites \cup {NoSite} /\ new \in Sites
          /\ pool[new].io # "none"
      BY <2>4, <3>1, <3>3
    <3> HIDE DEF P, u, old, new, n
    <3>9. StillPooled(P, pool') /\ outcome'.new = new
      BY <1>1, <2>2, <3>4, <3>7, <3>8, StartOutcomeKeeps
    <3>10. StillPooled(pool, pool')
      BY <3>7, <3>9 DEF StillPooled
    <3>11. NeedsPooled
      BY <3>8, <3>9, <3>10 DEF StillPooled, Pooled
    <3> QED BY <1>8, <2>2, <3>5, <3>10, <3>11
  <2> QED BY <2>1, <2>3, <2>4 DEF PollTab
<1>30. CASE \E s \in Sites : IoStep(s) \/ Crash(s)
  <2>1. PICK s \in Sites : IoStep(s) \/ Crash(s)
    BY <1>30
  <2>2. /\ UNCHANGED <<tabs, tab, ui, outcome>>
        /\ Evolves(pool[s], pool'[s])
        /\ \A o \in Sites : o # s => pool'[o] = pool[o]
    BY <2>1, IoSteps1
  <2>3. StillPooled(pool, pool')
    BY <2>2 DEF StillPooled, Evolves
  <2>4. NeedsPooled
    BY <1>2, <2>2, <2>3 DEF StillPooled, Pooled
  <2> QED BY <1>8, <2>2, <2>3, <2>4
<1> QED BY <1>13, <1>14, <1>15, <1>16, <1>17, <1>18, <1>19, <1>20, <1>21, <1>22, <1>23,
           <1>24, <1>25, <1>26, <1>27, <1>28, <1>29, <1>30 DEF Next, User, UiStep

-----------------------------------------------------------------------------
(* The theorems                                                            *)

LEMMA InitInv2 ==
  ASSUME Init, Inv1, SitesAssumption
  PROVE  Inv2
<1>1. /\ \A t \in TabIds : tab[t].site = NoSite /\ tab[t].pending.site = NoSite
      /\ Open \subseteq TabIds /\ ui = "idle"
  BY ActiveTabOpen DEF Init, BlankTab, NoPending
<1> QED BY <1>1 DEF Inv2, ReferencedSitesPooled, NoVainWait, CallMatches, Incarnations,
                    PendingMatches, HasPending, Blocked

\* The second layer is inductive relative to the first.
LEMMA NextInv2 ==
  ASSUME IInv, [Next]_vars, BoundsAssumption, UrlsAssumption, SitesAssumption
  PROVE  IInv'
<1>1. Step1
  BY NextInv1 DEF IInv
<1>2. CASE Next
  <2>1. ReferencedSitesPooled'
    BY <1>1, <1>2, ReferencedKept DEF IInv, Inv2
  <2>2. NoVainWait' /\ CallMatches'
    BY <1>2, WaitsKept DEF IInv, Inv2
  <2>3. Incarnations' /\ PendingMatches'
    <3>1. CASE \E u \in Urls : BeginNavigate(u)
      BY <1>1, <3>1, BeginNavigatePending DEF IInv, Inv2
    <3>2. CASE QuietStep
      BY <1>1, <3>2, PendingUntouched, PendingKept DEF IInv, Inv2
    <3> QED BY <1>2, <3>1, <3>2 DEF Next, User, QuietStep
  <2> QED BY <1>1, <2>1, <2>2, <2>3 DEF IInv, Inv2, Step1
<1>3. CASE UNCHANGED vars
  <2>1. Inv1'
    BY <1>1 DEF Step1
  <2>2. ReferencedSitesPooled'
    BY <1>3 DEF vars, IInv, Inv2, ReferencedSitesPooled, Pooled, HasPending, Open
  <2>3. NoVainWait' /\ CallMatches'
    BY <1>3 DEF vars, IInv, Inv2, NoVainWait, CallMatches, Pooled
  <2>4. Incarnations' /\ PendingMatches'
    BY <1>3 DEF vars, IInv, Inv2, Incarnations, PendingMatches, HasPending
  <2> QED BY <2>1, <2>2, <2>3, <2>4 DEF IInv, Inv2
<1> QED BY <1>2, <1>3

\* The inductive invariant holds throughout.
THEOREM Invariant == Spec => []IInv
<1>1. Init => IInv
  BY InitInv1, InitInv2, BoundsAssumption, UrlsAssumption, SitesAssumption DEF IInv
<1>2. IInv /\ [Next]_vars => IInv'
  BY NextInv2, BoundsAssumption, UrlsAssumption, SitesAssumption
<1> QED BY <1>1, <1>2, PTL DEF Spec

\* A sweep never kills a process that an open tab shows or waits for
\* (evict_unreferenced_renderer_processes).
THEOREM ReferencedSitesAreKept == Spec => []ReferencedSitesPooled
<1>1. IInv => ReferencedSitesPooled
  BY DEF IInv, Inv2
<1> QED BY <1>1, Invariant, PTL

\* The UI thread never blocks for an answer that cannot come: a crash, a respawn
\* or a sweep cannot strand it (try_send, wait_for_reply).
THEOREM WaitsAreAnswered == Spec => []NoVainWait
<1>1. IInv => NoVainWait
  BY DEF IInv, Inv2
<1> QED BY <1>1, Invariant, PTL

\* A blocked handler takes the answer to its own message, whatever else is queued
\* on the process for other tabs (wait_for_reply).
THEOREM BlockingRepliesAreOwn == Spec => []BlockingReplyIsOwn
<1>1. IInv => BlockingReplyIsOwn
  BY DEF IInv, Inv2, CallMatches, BlockingReplyIsOwn, Matches, Answers
<1> QED BY <1>1, Invariant, PTL

\* Within one incarnation of a process, what is filed under a pending
\* navigation's id is the answer to that navigation (take_reply).
THEOREM PendingRepliesAreOwn == Spec => []PendingReplyIsOwn
<1>1. IInv => PendingReplyIsOwn
  <2> SUFFICES ASSUME IInv, NEW t \in Open, HasPending(t),
                      pool[tab[t].pending.site].inc = tab[t].pending.inc,
                      NEW r \in Answers(pool[tab[t].pending.site], tab[t].pending.id)
               PROVE  /\ r.tab = t
                      /\ r.kind \in RepliesOf("navigate")
                      /\ r.kind = "rendered" => r.page = tab[t].pending.url
    BY DEF PendingReplyIsOwn
  <2>1. t \in TabIds
    BY ActiveTabOpen DEF IInv
  <2> DEFINE n == tab[t].pending
  <2>2. Matches(pool[n.site], n.id, t, "navigate", n.url)
    BY <2>1 DEF IInv, Inv2, PendingMatches
  <2> QED BY <2>2 DEF Matches, Answers
<1> QED BY <1>1, Invariant, PTL
=============================================================================
