------------------------- MODULE PageSessionsProofs -------------------------
(***************************************************************************)
(* Theorems about PageSessions, for any tabs, origins, values, delays,      *)
(* scripts and messages: after every message all pages know the store, the  *)
(* app has all of it and a wake for every timer, and no promise job is left. *)
(***************************************************************************)
EXTENDS PageSessions, TLAPS, SequenceTheorems, FiniteSetTheorems, WellFoundedInduction

-----------------------------------------------------------------------------
(* The inductive invariant                                                 *)

Mem == [store : [Origins -> Item], dirty : BOOLEAN, session : [Tabs -> Session \cup {NoSession}]]
Run == [at : Stages, kind : Kinds, tab : Tabs \cup {NoTab}, in : Tabs \cup {NoTab}, back : Stages,
        changes : Seq(Change), todo : Seq(Change), left : SUBSET Tabs,
        wait : Delays \cup {NoWake}, began : Nat]

\* Types, and that no timer is set too far ahead.
Types ==
  /\ TypeOK
  /\ mem \in Mem /\ run \in Run
  /\ \A t \in Live : \A i \in DOMAIN S(t).timers : S(t).timers[i].at <= MaxTime + MaxDelay

\* Whose scripts run, and which changes are on their way, at each stage.
Placed ==
  /\ run.at = "idle" => run = Idle
  /\ run.at # "idle" => run.tab \in Tabs
  /\ run.at \in Scripts \cup {"tick"} => run.in = run.tab /\ run.tab \in Live
  /\ run.at = "tick" => run.back \in {"idle", "tail"}
  /\ run.at = "jobs" => /\ run.in \in Live /\ run.back \in {"listeners", "tail", "fire"}
                        /\ run.back = "fire" <=> run.in # run.tab
  /\ run.at = "fire" => run.back = "fire" /\ (run.todo # <<>> => run.in \in Live \ {run.tab})
  /\ run.back = "fire" => run.at \in {"jobs", "fire"}
  /\ run.left \subseteq Live \ {run.tab, run.in}
  /\ ~ Firing => run.changes = <<>> /\ run.todo = <<>> /\ run.left = {}

\* A change of the store is reported, or still to be.
Reported ==
  /\ ~ mem.dirty => copy = mem.store
  /\ Resting => ~ mem.dirty

\* Only the session whose scripts run has promise jobs.
JobsOK ==
  \A t \in Live \ aborted :
    S(t).jobs # 0 =>
      t = run.in /\ (run.at \in Scripts \cup {"jobs"} \/ (run.at = "tick" /\ run.back = "tail"))

\* The app, or the reply on its way, has a wake for every timer.
Until(w, t) == \A i \in DOMAIN S(t).timers : w # NoWake /\ w <= Max({S(t).timers[i].at, now})
WakesOK ==
  /\ \A t \in Live \ nudged : t # run.tab => Until(wake[t], t)
  /\ Firing => /\ run.wait # NoWake => run.wait + now <= MaxTime + MaxDelay
               /\ run.tab \in Live => \A i \in DOMAIN S(run.tab).timers :
                    run.wait # NoWake /\ run.wait + now <= Max({S(run.tab).timers[i].at, now})

\* Lists of changes are of one origin.
OfOne(s, o) == \A i \in DOMAIN s : s[i].origin = o
ListsOK ==
  /\ \A t \in Live : OfOne(S(t).pending, S(t).origin)
  /\ run.changes # <<>> => OfOne(run.changes, Last(run.changes).origin)
  /\ run.todo # <<>> => /\ run.changes # <<>> /\ Last(run.todo) = Last(run.changes)
                        /\ OfOne(run.todo, Last(run.changes).origin)

\* A page knows the store, or will be told of the last change.
Knows(t)       == S(t).knows = mem.store[S(t).origin]
WillHear(t, s) == s # <<>> /\ Last(s).origin = S(t).origin
Latest(s)      == s # <<>> => Last(s).value = mem.store[Last(s).origin]
AllHear ==
  /\ Latest(run.changes)
  /\ run.tab \in Live => Knows(run.tab) /\ Latest(S(run.tab).pending)
  /\ \A t \in Live \ {run.tab} :
       /\ S(t).pending = <<>>
       /\ \/ Knows(t)
          \/ ~ Firing /\ run.tab \in Live /\ WillHear(t, S(run.tab).pending)
          \/ t \in run.left /\ WillHear(t, run.changes)
          \/ t = run.in /\ WillHear(t, run.todo)
  /\ Firing /\ run.tab \in Live => S(run.tab).pending = <<>>
KnowsOK == ~ relayed => AllHear

IInv == Types /\ Placed /\ Reported /\ JobsOK /\ WakesOK /\ ListsOK /\ KnowsOK

-----------------------------------------------------------------------------
(* Numbers and sequences                                                   *)

LEMMA TwoMax == \A a, b \in Int : Max({a, b}) = IF a >= b THEN a ELSE b
<1> TAKE a, b \in Int
<1> DEFINE x == IF a >= b THEN a ELSE b
<1>1. x \in {a, b} /\ \A y \in {a, b} : x >= y
  OBVIOUS
<1>2. \A z \in {a, b} : (\A y \in {a, b} : z >= y) => z = x
  OBVIOUS
<1> QED BY <1>1, <1>2 DEF Max

\* Finite intervals are well-founded by inclusion, hence naturals by their order.
LEMMA Smallest ==
  ASSUME NEW N \in SUBSET Nat, N # {}
  PROVE  \E n \in N : \A m \in N : n <= m
<1> DEFINE T == {0 .. n : n \in N}
           R == StrictSubsetOrdering(Nat)
<1>1. T \subseteq FiniteSubsetsOf(Nat) /\ T # {}
  <2>1. \A n \in N : IsFiniteSet(0 .. n) /\ 0 .. n \in SUBSET Nat
    BY FS_Interval
  <2> QED BY <2>1 DEF FiniteSubsetsOf
<1>2. \E x \in T : \A y \in T : ~ (<<y, x>> \in R)
  <2>1. IsWellFoundedOn(R, FiniteSubsetsOf(Nat))
    BY FS_StrictSubsetOrderingWellFounded
  <2> HIDE DEF T, R
  <2> QED BY <1>1, <2>1, WFMin
<1>3. PICK n \in N : \A m \in N : ~ (<<0 .. m, 0 .. n>> \in R)
  BY <1>2
<1>4. ASSUME NEW m \in N, m < n PROVE FALSE
  <2>1. n \in 0 .. n /\ n \notin 0 .. m
    BY <1>4
  <2>2. 0 .. m \subseteq 0 .. n /\ 0 .. m # 0 .. n /\ 0 .. m \in SUBSET Nat /\ 0 .. n \in SUBSET Nat
    BY <2>1, <1>4
  <2> QED BY <2>2, <1>3 DEF StrictSubsetOrdering
<1> QED BY <1>3, <1>4

LEMMA MinIs ==
  ASSUME NEW N \in SUBSET Nat, N # {}
  PROVE  Min(N) \in N /\ \A m \in N : Min(N) <= m
BY Smallest DEF Min

LEMMA AppendLast ==
  ASSUME NEW A, NEW s \in Seq(A), NEW e \in A
  PROVE  /\ Append(s, e) \in Seq(A) /\ Append(s, e) # <<>> /\ Last(Append(s, e)) = e
         /\ \A i \in DOMAIN Append(s, e) : Append(s, e)[i] = e \/ (i \in DOMAIN s /\ Append(s, e)[i] = s[i])
BY AppendProperties DEF Last

LEMMA TailLast ==
  ASSUME NEW A, NEW s \in Seq(A), s # <<>>
  PROVE  /\ Tail(s) \in Seq(A) /\ Head(s) \in A /\ Head(s) = s[1] /\ 1 \in DOMAIN s
         /\ Tail(s) = <<>> => Head(s) = Last(s)
         /\ Tail(s) # <<>> => Last(Tail(s)) = Last(s)
         /\ \A i \in DOMAIN Tail(s) : i + 1 \in DOMAIN s /\ Tail(s)[i] = s[i + 1]
<1>1. /\ Len(s) \in Nat \ {0} /\ Len(Tail(s)) = Len(s) - 1 /\ Tail(s) \in Seq(A) /\ Head(s) \in A
      /\ Head(s) = s[1] /\ DOMAIN s = 1 .. Len(s) /\ DOMAIN Tail(s) = 1 .. Len(Tail(s))
  BY HeadTailProperties, EmptySeq, LenProperties
<1>2. \A i \in 1 .. Len(Tail(s)) : Tail(s)[i] = s[i + 1]
  BY HeadTailProperties
<1>3. Tail(s) = <<>> => Len(s) = 1
  BY <1>1
<1>4. ASSUME Tail(s) # <<>> PROVE Last(Tail(s)) = Last(s)
  <2>1. Len(Tail(s)) \in Nat \ {0}
    BY <1>1, <1>4, EmptySeq
  <2> QED BY <1>1, <1>2, <2>1 DEF Last
<1>5. Tail(s) = <<>> => Head(s) = Last(s)
  BY <1>1, <1>3 DEF Last
<1>6. \A i \in DOMAIN Tail(s) : i + 1 \in DOMAIN s /\ Tail(s)[i] = s[i + 1]
  BY <1>1, <1>2
<1> QED BY <1>1, <1>4, <1>5, <1>6

LEMMA Removed ==
  ASSUME NEW A, NEW s \in Seq(A), NEW i \in DOMAIN s
  PROVE  /\ RemoveAt(s, i) \in Seq(A)
         /\ \A j \in DOMAIN RemoveAt(s, i) : \E k \in DOMAIN s : RemoveAt(s, i)[j] = s[k]
<1> DEFINE a == SubSeq(s, 1, i - 1)
           b == SubSeq(s, i + 1, Len(s))
<1>1. Len(s) \in Nat /\ DOMAIN s = 1 .. Len(s) /\ \A k \in 1 .. Len(s) : s[k] \in A
  BY LenProperties, ElementOfSeq
<1>2. a \in Seq(A) /\ Len(a) = i - 1 /\ \A k \in 1 .. i - 1 : a[k] = s[k]
  <2>1. \A k \in 1 .. i - 1 : s[k] \in A
    BY <1>1
  <2>2. /\ a \in Seq(A) /\ Len(a) = IF 1 <= i - 1 THEN (i - 1) - 1 + 1 ELSE 0
        /\ \A k \in 1 .. (i - 1) - 1 + 1 : a[k] = s[1 + k - 1]
    BY <1>1, <2>1, SubSeqProperties
  <2> QED BY <1>1, <2>2
<1>3. b \in Seq(A) /\ Len(b) = Len(s) - i /\ \A k \in 1 .. Len(s) - i : b[k] = s[i + k]
  <2>1. \A k \in i + 1 .. Len(s) : s[k] \in A
    BY <1>1
  <2>2. /\ b \in Seq(A) /\ Len(b) = IF i + 1 <= Len(s) THEN Len(s) - (i + 1) + 1 ELSE 0
        /\ \A k \in 1 .. Len(s) - (i + 1) + 1 : b[k] = s[(i + 1) + k - 1]
    BY <1>1, <2>1, SubSeqProperties
  <2> QED BY <1>1, <2>2, SMTT(30)
<1> HIDE DEF a, b
<1>4. /\ a \o b \in Seq(A) /\ Len(a \o b) = Len(a) + Len(b)
      /\ \A j \in 1 .. Len(a) + Len(b) : (a \o b)[j] = IF j <= Len(a) THEN a[j] ELSE b[j - Len(a)]
  BY <1>2, <1>3, ConcatProperties
<1>5. PICK r : r = a \o b
  OBVIOUS
<1>6. RemoveAt(s, i) = r
  BY <1>5 DEF RemoveAt, a, b
<1>7. r \in Seq(A) /\ DOMAIN r = 1 .. (Len(s) - 1)
  <2>1. r \in Seq(A) /\ Len(r) = Len(s) - 1
    <3>1. Len(a) + Len(b) = Len(s) - 1
      BY <1>1, <1>2, <1>3
    <3> QED BY <3>1, <1>4, <1>5
  <2> QED BY <2>1, LenProperties
<1>8. ASSUME NEW j \in DOMAIN r PROVE \E k \in DOMAIN s : r[j] = s[k]
  <2>1. j \in 1 .. (Len(s) - 1) /\ r[j] = IF j <= i - 1 THEN a[j] ELSE b[j - (i - 1)]
    <3>1. j \in 1 .. (Len(s) - 1) /\ Len(a) = i - 1 /\ Len(a) + Len(b) = Len(s) - 1
      BY <1>1, <1>2, <1>3, <1>7, <1>8
    <3> QED BY <3>1, <1>4, <1>5
  <2>2. CASE j <= i - 1
    <3>1. r[j] = s[j] /\ j \in DOMAIN s
      BY <2>1, <2>2, <1>1, <1>2
    <3> QED BY <3>1
  <2>3. CASE ~ (j <= i - 1)
    <3>1. r[j] = s[j + 1] /\ j + 1 \in DOMAIN s
      BY <2>1, <2>3, <1>1, <1>3
    <3> QED BY <3>1
  <2> QED BY <2>2, <2>3
<1> QED BY <1>6, <1>7, <1>8

-----------------------------------------------------------------------------
(* What scripts do                                                         *)

InTime(p) == \A i \in DOMAIN p.timers : p.timers[i].at <= MaxTime + MaxDelay

\* What a callback of session t may make of memory m.
Acts(m, t, n) ==
  LET p == m.session[t]
      q == n.session[t]
      o == p.origin IN
  /\ n \in Mem /\ q \in Session /\ InTime(q) /\ q.origin = o
  /\ \A u \in Tabs \ {t} : n.session[u] = m.session[u]
  /\ \A x \in Origins \ {o} : n.store[x] = m.store[x]
  /\ ~ n.dirty => n.store = m.store /\ ~ m.dirty
  /\ \/ n.store = m.store /\ q.pending = p.pending /\ q.knows \in {p.knows, m.store[o]}
     \/ /\ n.store # m.store /\ q.knows = n.store[o]
        /\ q.pending = Append(p.pending, [origin |-> o, value |-> n.store[o]])

\* The memory with another session of t
With(m, t, q) == [m EXCEPT !.session[t] = q]

LEMMA WithIs ==
  ASSUME NEW m \in Mem, NEW t \in Tabs, NEW q \in Session \cup {NoSession}
  PROVE  /\ With(m, t, q) \in Mem /\ With(m, t, q).session[t] = q
         /\ With(m, t, q).store = m.store /\ With(m, t, q).dirty = m.dirty
         /\ \A u \in Tabs \ {t} : With(m, t, q).session[u] = m.session[u]
BY DEF With, Mem

LEMMA WithActs ==
  ASSUME NEW m \in Mem, NEW t \in Tabs, m.session[t] \in Session, NEW q \in Session, InTime(q),
         q.origin = m.session[t].origin, q.pending = m.session[t].pending,
         q.knows = m.session[t].knows
  PROVE  Acts(m, t, With(m, t, q))
BY WithIs DEF Acts

LEMMA StoreActs ==
  ASSUME NEW m \in Mem, NEW t \in Tabs, m.session[t] \in Session, InTime(m.session[t]),
         NEW v \in Item
  PROVE  Acts(m, t, Store(m, t, v))
<1> DEFINE p == m.session[t]
           o == p.origin
           c == [origin |-> o, value |-> v]
           l == IF m.store[o] = v THEN p.pending ELSE Append(p.pending, c)
           q == [p EXCEPT !.knows = v, !.pending = l]
           n == Store(m, t, v)
<1>1. o \in Origins /\ c \in Change /\ p.pending \in Seq(Change)
  BY DEF Session, Change
<1>2. l \in Seq(Change)
  BY <1>1, AppendProperties
<1>3. /\ q \in Session /\ q.origin = o /\ q.knows = v /\ q.pending = l /\ q.timers = p.timers
  BY <1>2 DEF Session
<1>4. /\ n.store = [m.store EXCEPT ![o] = v] /\ n.dirty = TRUE
      /\ n.session = [m.session EXCEPT ![t] = q] /\ n \in Mem
  <2>1. n = [m EXCEPT !.store = [m.store EXCEPT ![o] = v], !.dirty = TRUE,
                      !.session = [m.session EXCEPT ![t] = q]]
    BY DEF Store, Mem, Session
  <2>2. /\ [m.store EXCEPT ![o] = v] \in [Origins -> Item]
        /\ [m.session EXCEPT ![t] = q] \in [Tabs -> Session \cup {NoSession}]
    BY <1>1, <1>3 DEF Mem
  <2> HIDE DEF n, q
  <2> QED BY <2>1, <2>2 DEF Mem
<1>5. n.session[t] = q /\ \A u \in Tabs \ {t} : n.session[u] = m.session[u]
  <2> HIDE DEF n, q
  <2> QED BY <1>4 DEF Mem
<1>6. n.store[o] = v /\ \A x \in Origins \ {o} : n.store[x] = m.store[x]
  <2> HIDE DEF n, q
  <2> QED BY <1>1, <1>4 DEF Mem
<1>7. n.store = m.store <=> m.store[o] = v
  <2> HIDE DEF n, q
  <2> QED BY <1>1, <1>4, <1>6 DEF Mem
<1> HIDE DEF n, q
<1>8. InTime(q)
  BY <1>3 DEF InTime
<1>9. \/ n.store = m.store /\ q.pending = p.pending /\ q.knows = m.store[o]
      \/ /\ n.store # m.store /\ q.knows = n.store[o]
         /\ q.pending = Append(p.pending, [origin |-> o, value |-> n.store[o]])
  BY <1>3, <1>6, <1>7
<1>10. n.session[t] \in Session /\ InTime(n.session[t]) /\ n.session[t].origin = o
  BY <1>3, <1>5, <1>8
<1>11. \/ /\ n.store = m.store /\ n.session[t].pending = p.pending
          /\ n.session[t].knows \in {p.knows, m.store[o]}
       \/ /\ n.store # m.store /\ n.session[t].knows = n.store[o]
          /\ n.session[t].pending = Append(p.pending, [origin |-> o, value |-> n.store[o]])
  BY <1>5, <1>9
<1> HIDE DEF p, o
<1> QED BY <1>4, <1>5, <1>6, <1>10, <1>11 DEF Acts, n, p, o

LEMMA DeedsAct ==
  ASSUME NEW m \in Mem, NEW t \in Tabs, m.session[t] \in Session, InTime(m.session[t]),
         now \in 0 .. MaxTime, NEW n \in Deeds(m, t)
  PROVE  Acts(m, t, n)
<1> DEFINE p == m.session[t]
<1>1. ASSUME n = m PROVE Acts(m, t, n)
  BY <1>1 DEF Acts, Mem, Session
<1>2. ASSUME NEW v \in Item, n = Store(m, t, v) PROVE Acts(m, t, n)
  BY <1>2, StoreActs
<1>3. ASSUME n = Queue(m, t) PROVE Acts(m, t, n)
  <2> DEFINE q == [p EXCEPT !.jobs = p.jobs + 1]
  <2>1. q \in Session /\ q.timers = p.timers
        /\ q.origin = p.origin /\ q.pending = p.pending /\ q.knows = p.knows
    BY DEF Session
  <2>2. n = With(m, t, q)
    BY <1>3 DEF Queue, With, Mem, Session
  <2> HIDE DEF q
  <2>3. InTime(q)
    BY <2>1 DEF InTime
  <2> QED BY <2>1, <2>2, <2>3, WithActs
<1>4. ASSUME NEW d \in 0 .. MaxDelay, n = SetTimeout(m, t, d) PROVE Acts(m, t, n)
  <2> DEFINE x == [id |-> p.next, at |-> now + d]
             q == [p EXCEPT !.timers = Append(p.timers, x), !.next = p.next + 1]
  <2>1. x \in Timer /\ x.at <= MaxTime + MaxDelay /\ p.timers \in Seq(Timer)
    BY ConstantsAssumption DEF Session, Timer
  <2>2. /\ Append(p.timers, x) \in Seq(Timer)
        /\ \A i \in DOMAIN Append(p.timers, x) :
             Append(p.timers, x)[i] = x \/ (i \in DOMAIN p.timers /\ Append(p.timers, x)[i] = p.timers[i])
    BY <2>1, AppendLast
  <2>3. /\ q \in Session /\ q.timers = Append(p.timers, x)
        /\ q.origin = p.origin /\ q.pending = p.pending /\ q.knows = p.knows
    <3>1. PICK l : l = Append(p.timers, x)
      OBVIOUS
    <3>2. l \in Seq(Timer) /\ p.next + 1 \in Nat
      BY <2>2, <3>1 DEF Session
    <3> HIDE DEF x
    <3>3. q = [p EXCEPT !.timers = l, !.next = p.next + 1]
      BY <3>1
    <3> QED BY <3>1, <3>2, <3>3 DEF Session
  <2>4. n = With(m, t, q)
    BY <1>4 DEF SetTimeout, With, Mem, Session
  <2> HIDE DEF q, x
  <2>5. InTime(q)
    BY <2>1, <2>2, <2>3 DEF InTime
  <2> QED BY <2>3, <2>4, <2>5, WithActs
<1>5. ASSUME NEW i \in DOMAIN p.timers, n = ClearTimeout(m, t, i) PROVE Acts(m, t, n)
  <2> DEFINE l == RemoveAt(p.timers, i)
             q == [p EXCEPT !.timers = l]
  <2>1. /\ l \in Seq(Timer)
        /\ \A j \in DOMAIN l : \E k \in DOMAIN p.timers : l[j] = p.timers[k]
    BY Removed DEF Session
  <2> HIDE DEF l
  <2>2. /\ q \in Session /\ q.timers = l
        /\ q.origin = p.origin /\ q.pending = p.pending /\ q.knows = p.knows
    BY <2>1 DEF Session
  <2>3. n = With(m, t, q)
    BY <1>5 DEF ClearTimeout, With, Mem, Session, l
  <2> HIDE DEF q
  <2>4. InTime(q)
    BY <2>1, <2>2 DEF InTime
  <2> QED BY <2>2, <2>3, <2>4, WithActs
<1> QED BY <1>1, <1>2, <1>3, <1>4, <1>5 DEF Deeds, RemoveItem, Item

LEMMA RunsAct ==
  ASSUME NEW m \in Mem, NEW t \in Tabs, m.session[t] \in Session, InTime(m.session[t]),
         now \in 0 .. MaxTime, Runs(m, t)
  PROVE  Acts(m, t, mem') /\ (ops \in 0 .. MaxOps => ops' \in 0 .. MaxOps)
<1>1. Acts(m, t, m)
  BY DEF Acts, Mem, Session
<1> QED BY <1>1, DeedsAct, ConstantsAssumption DEF Runs, Does

\* The next wake is not after any timer.
LEMMA WaitIs ==
  ASSUME Types, NEW t \in Tabs
  PROVE  /\ Wait(t) \in Delays \cup {NoWake} /\ (Wait(t) # NoWake => Wait(t) + now <= MaxTime + MaxDelay)
         /\ t \in Live => \A i \in DOMAIN S(t).timers :
              Wait(t) # NoWake /\ Wait(t) + now <= Max({S(t).timers[i].at, now})
<1> DEFINE N == {x.at : x \in ToSet(S(t).timers)}
<1>1. now \in Nat /\ MaxTime \in Nat /\ MaxDelay \in Nat /\ now <= MaxTime /\ NoWake \notin Nat
  BY ConstantsAssumption DEF Types, TypeOK
<1>2. CASE t \notin Live \/ S(t).timers = <<>>
  BY <1>2 DEF Wait
<1>3. CASE t \in Live /\ S(t).timers # <<>>
  <2>1. S(t) \in Session /\ InTime(S(t))
    BY <1>3 DEF Types, TypeOK, Live, S, InTime
  <2>2. S(t).timers \in Seq(Timer) /\ 1 \in DOMAIN S(t).timers
    BY <1>3, <2>1, TailLast DEF Session
  <2>3. \A i \in DOMAIN S(t).timers : S(t).timers[i] \in Timer
    BY <2>2, ElementOfSeq, LenProperties
  <2>4. N \in SUBSET Nat /\ N # {} /\ \A a \in N : a <= MaxTime + MaxDelay
    BY <2>1, <2>2, <2>3 DEF ToSet, Timer, InTime
  <2>5. \A i \in DOMAIN S(t).timers : S(t).timers[i].at \in N
    BY DEF ToSet
  <2>6. Min(N) \in Nat /\ Min(N) <= MaxTime + MaxDelay /\ \A a \in N : Min(N) <= a
    BY <2>4, MinIs
  <2>7. Wait(t) = Max({0, Min(N) - now})
    BY <1>3 DEF Wait
  <2> HIDE DEF N
  <2>8. Wait(t) = IF 0 >= Min(N) - now THEN 0 ELSE Min(N) - now
    BY <1>1, <2>6, <2>7, TwoMax
  <2>9. Wait(t) \in Nat /\ Wait(t) + now <= MaxTime + MaxDelay /\ Wait(t) \in Delays
    BY <1>1, <2>6, <2>8 DEF Delays
  <2>10. ASSUME NEW i \in DOMAIN S(t).timers PROVE Wait(t) + now <= Max({S(t).timers[i].at, now})
    <3>1. S(t).timers[i].at \in Nat /\ Min(N) <= S(t).timers[i].at
      BY <2>3, <2>5, <2>6 DEF Timer
    <3> QED BY <3>1, <1>1, <2>6, <2>8, TwoMax
  <2> QED BY <1>1, <2>9, <2>10
<1> QED BY <1>2, <1>3

-----------------------------------------------------------------------------
(* A callback runs                                                         *)

\* A callback of session t, which knew k of the store, ran.
Acted(t, k) ==
  LET o == S(t).origin IN
  /\ mem' \in Mem /\ Live' = Live
  /\ S(t)' \in Session /\ InTime(S(t)') /\ S(t)'.origin = o
  /\ \A u \in Tabs \ {t} : S(u)' = S(u)
  /\ \A x \in Origins \ {o} : mem'.store[x] = mem.store[x]
  /\ ~ mem'.dirty => mem'.store = mem.store /\ ~ mem.dirty
  /\ \/ /\ mem'.store = mem.store /\ S(t)'.pending = S(t).pending
        /\ S(t)'.knows \in {k, mem.store[o]}
     \/ /\ mem'.store # mem.store /\ S(t)'.knows = mem'.store[o]
        /\ S(t)'.pending = Append(S(t).pending, [origin |-> o, value |-> mem'.store[o]])

LEMMA LiveIs ==
  ASSUME Types, NEW t \in Live
  PROVE  t \in Tabs /\ S(t) \in Session /\ InTime(S(t)) /\ S(t).origin \in Origins
BY DEF Types, TypeOK, Live, S, InTime, Session

LEMMA ActedIs ==
  ASSUME Types, NEW t \in Live, NEW q \in Session, InTime(q),
         q.origin = S(t).origin, q.pending = S(t).pending, Runs(With(mem, t, q), t)
  PROVE  Acted(t, q.knows) /\ ops' \in 0 .. MaxOps
<1>1. mem \in Mem /\ now \in 0 .. MaxTime /\ ops \in 0 .. MaxOps /\ t \in Tabs
  BY DEF Types, TypeOK, Live
<1>2. PICK m : m = With(mem, t, q)
  OBVIOUS
<1>3. /\ m \in Mem /\ m.session[t] = q /\ m.store = mem.store /\ m.dirty = mem.dirty
      /\ \A u \in Tabs \ {t} : m.session[u] = mem.session[u]
  BY <1>1, <1>2, WithIs
<1>4. Acts(m, t, mem') /\ ops' \in 0 .. MaxOps
  BY <1>1, <1>2, <1>3, RunsAct
<1>5. /\ mem' \in Mem /\ S(t)' \in Session /\ InTime(S(t)') /\ S(t)'.origin = S(t).origin
      /\ \A u \in Tabs \ {t} : S(u)' = S(u)
  BY <1>1, <1>3, <1>4 DEF Acts, S
<1>6. Live' = Live
  BY <1>1, <1>5, SessionsAssumption DEF Live, S
<1>7. PICK o : o = S(t).origin
  OBVIOUS
<1>8. PICK n : n = mem'
  OBVIOUS
<1>9. S(t) = mem.session[t] /\ S(t)' = n.session[t] /\ q.origin = o /\ q.pending = S(t).pending
  BY <1>7, <1>8 DEF S
<1>10. /\ \A x \in Origins \ {o} : n.store[x] = mem.store[x]
       /\ ~ n.dirty => n.store = mem.store /\ ~ mem.dirty
  BY <1>3, <1>4, <1>8, <1>9 DEF Acts
<1>11. \/ /\ n.store = mem.store /\ S(t)'.pending = S(t).pending
          /\ S(t)'.knows \in {q.knows, mem.store[o]}
       \/ /\ n.store # mem.store /\ S(t)'.knows = n.store[o]
          /\ S(t)'.pending = Append(S(t).pending, [origin |-> o, value |-> n.store[o]])
  BY <1>3, <1>4, <1>8, <1>9 DEF Acts
<1> QED BY <1>4, <1>5, <1>6, <1>7, <1>8, <1>10, <1>11 DEF Acted

LEMMA ActedSessions ==
  ASSUME Types, ListsOK, NEW t \in Live, NEW k, Acted(t, k)
  PROVE  \A u \in Live : /\ S(u)' \in Session /\ InTime(S(u)') /\ S(u)'.origin = S(u).origin
                         /\ OfOne(S(u)'.pending, S(u).origin)
<1> TAKE u \in Live
<1>1. u \in Tabs /\ S(u) \in Session /\ InTime(S(u)) /\ OfOne(S(u).pending, S(u).origin)
  BY LiveIs DEF ListsOK
<1>2. CASE u # t
  BY <1>1, <1>2 DEF Acted
<1>3. CASE u = t
  <2>1. S(t)' \in Session /\ InTime(S(t)') /\ S(t)'.origin = S(t).origin
    BY DEF Acted
  <2>2. CASE S(t)'.pending = S(t).pending
    BY <1>1, <1>3, <2>1, <2>2
  <2>3. CASE \E v \in Item : S(t)'.pending = Append(S(t).pending, [origin |-> S(t).origin, value |-> v])
    <3>1. PICK v \in Item : S(t)'.pending = Append(S(t).pending, [origin |-> S(t).origin, value |-> v])
      BY <2>3
    <3>2. PICK c : c = [origin |-> S(t).origin, value |-> v]
      OBVIOUS
    <3>3. c \in Change /\ c.origin = S(t).origin /\ S(t).pending \in Seq(Change)
      BY <3>2, <1>1, <1>3, LiveIs DEF Session, Change
    <3>4. PICK l : l = Append(S(t).pending, c)
      OBVIOUS
    <3>5. \A i \in DOMAIN l : l[i] = c \/ (i \in DOMAIN S(t).pending /\ l[i] = S(t).pending[i])
      BY <3>3, <3>4, AppendLast
    <3>6. OfOne(l, S(t).origin)
      BY <3>3, <3>5, <1>1, <1>3 DEF OfOne
    <3> QED BY <3>1, <3>2, <3>4, <3>6, <2>1, <1>3
  <2>4. S(t).origin \in Origins /\ mem' \in Mem
    BY LiveIs DEF Acted
  <2>5. mem'.store[S(t).origin] \in Item
    BY <2>4 DEF Mem
  <2> QED BY <2>2, <2>3, <2>5 DEF Acted
<1> QED BY <1>2, <1>3

LEMMA ActedMem ==
  ASSUME Types, ListsOK, NEW t \in Live, NEW k, Acted(t, k)
  PROVE  /\ (mem \in Mem)' /\ mem'.store \in [Origins -> Item] /\ mem'.dirty \in BOOLEAN
         /\ mem'.session \in [Tabs -> Session \cup {NoSession}]
         /\ \A u \in Live' : \A i \in DOMAIN S(u)'.timers : S(u)'.timers[i].at <= MaxTime + MaxDelay
BY ActedSessions DEF Acted, Mem, InTime

\* A callback of the tab a message is for, which knows the store.
LEMMA OwnKnows ==
  ASSUME Types, ListsOK, NEW t \in Live, t = run.tab, ~ Firing, run.left = {}, run.todo = <<>>,
         run.changes = <<>>, KnowsOK, Acted(t, S(t).knows), relayed' = relayed, run'.tab = t,
         run'.changes = <<>>, run'.left = {}, run'.todo = <<>>, run'.in = run.in, ~ Firing'
  PROVE  KnowsOK'
<1> SUFFICES ASSUME ~ relayed PROVE AllHear'
  BY DEF KnowsOK
<1> DEFINE o == S(t).origin
           c == [origin |-> o, value |-> mem'.store[o]]
<1>1. o \in Origins /\ S(t)'.origin = o /\ S(t).knows = mem.store[o] /\ Latest(S(t).pending)
  BY LiveIs DEF Acted, KnowsOK, AllHear, Knows
<1>2. S(t).pending \in Seq(Change) /\ mem'.store[o] \in Item /\ mem' \in Mem
  BY <1>1, LiveIs DEF Session, Acted, Mem
<1>3. c \in Change /\ c.origin = o /\ c.value = mem'.store[o]
  BY <1>1, <1>2 DEF Change
<1> HIDE DEF c
<1>4. PICK l : l = Append(S(t).pending, c)
  OBVIOUS
<1>5. l # <<>> /\ Last(l) = c
  BY <1>2, <1>3, <1>4, AppendLast
<1>6. \/ mem'.store = mem.store /\ S(t)'.pending = S(t).pending /\ S(t)'.knows = mem.store[o]
      \/ mem'.store # mem.store /\ S(t)'.knows = mem'.store[o] /\ S(t)'.pending = l
  BY <1>1, <1>4 DEF Acted, c
<1>7. Knows(t)'
  BY <1>1, <1>6 DEF Knows
<1>8. Latest(S(t).pending)'
  BY <1>1, <1>3, <1>5, <1>6 DEF Latest
<1>9. ASSUME NEW u \in Live' \ {t}
      PROVE  S(u)'.pending = <<>> /\ (Knows(u)' \/ WillHear(u, S(t).pending)')
  <2>1. u \in Live \ {t} /\ S(u)' = S(u) /\ S(u).origin \in Origins
    BY <1>9, LiveIs DEF Acted
  <2>2. S(u).pending = <<>> /\ (Knows(u) \/ WillHear(u, S(t).pending))
    BY <2>1 DEF KnowsOK, AllHear, WillHear
  <2>3. CASE mem'.store = mem.store /\ S(t)'.pending = S(t).pending
    BY <2>1, <2>2, <2>3 DEF Knows, WillHear
  <2>4. CASE S(t)'.pending = l /\ S(u).origin = o
    BY <2>1, <2>2, <2>4, <1>3, <1>5 DEF WillHear
  <2>5. CASE S(u).origin # o
    <3>1. mem'.store[S(u).origin] = mem.store[S(u).origin]
      BY <2>1, <2>5 DEF Acted
    <3>2. ~ WillHear(u, S(t).pending)
      <4>1. OfOne(S(t).pending, o)
        BY DEF ListsOK
      <4>2. S(t).pending # <<>> => Last(S(t).pending).origin = o
        <5>1. S(t).pending # <<>> => Len(S(t).pending) \in DOMAIN S(t).pending
          BY <1>2, LenProperties, EmptySeq
        <5> QED BY <5>1, <4>1 DEF OfOne, Last
      <4> QED BY <4>2, <2>5 DEF WillHear
    <3> QED BY <2>1, <2>2, <3>1, <3>2 DEF Knows
  <2> QED BY <2>2, <2>1, <2>3, <2>4, <2>5, <1>6
<1>10. Latest(run.changes)'
  BY DEF Latest
<1>11. t \in Live'
  BY DEF Acted
<1> QED BY <1>7, <1>8, <1>9, <1>10, <1>11 DEF AllHear

\* The message's own scripts run.
LEMMA OwnStep ==
  ASSUME IInv, NEW t \in Live, t = run.tab, t = run.in, ~ Firing, Acted(t, S(t).knows),
         run.at \in Scripts \cup {"tick", "jobs"}, ops' \in 0 .. MaxOps,
         \/ run' = run /\ run.at # "tick"
         \/ run' = [run EXCEPT !.back = "tail"] /\ run.at = "tick",
         UNCHANGED <<now, app, ghosts, messages>>
  PROVE  IInv'
<1> DEFINE F(r) == /\ r.at = run.at /\ r.tab = t /\ r.in = t /\ r.kind = run.kind /\ r.wait = run.wait
                   /\ r.began = run.began /\ r.changes = <<>> /\ r.todo = <<>> /\ r.left = {}
                   /\ (r.back = run.back /\ r.at # "tick") \/ (r.back = "tail" /\ r.at = "tick")
<1>1. run \in Run /\ run.changes = <<>> /\ run.todo = <<>> /\ run.left = {} /\ t \in Tabs
      /\ run.at \in {"script", "listeners", "tick", "jobs"}
  BY DEF IInv, Types, Placed, Live, Scripts
<1>2. F(run') /\ run' \in Run
  <2>1. CASE run' = run /\ run.at # "tick"
    BY <1>1, <2>1
  <2>2. CASE run' = [run EXCEPT !.back = "tail"] /\ run.at = "tick"
    BY <1>1, <2>2 DEF Run, Stages
  <2> QED BY <2>1, <2>2
<1>3. F(run') /\ run' \in Run /\ ~ Firing' /\ run'.at # "idle" /\ Live' = Live /\ t \in Live'
  BY <1>1, <1>2 DEF Firing, Acted
<1>4. Types'
  <2>1. TypeOK'
    BY <1>1, <1>3, ActedMem DEF IInv, Types, TypeOK, Run, app, ghosts
  <2> QED BY <2>1, <1>3, ActedMem DEF IInv, Types
<1>5. Placed'
  BY <1>1, <1>3 DEF IInv, Placed, Scripts, Firing
<1>6. Reported'
  BY <1>3 DEF IInv, Reported, Acted, Resting, app
<1>7. JobsOK'
  <2> SUFFICES ASSUME NEW u \in Live' \ aborted', S(u)'.jobs # 0, u # t PROVE FALSE
    BY <1>1, <1>3 DEF JobsOK, Scripts
  <2>1. u \in Live \ aborted /\ S(u).jobs # 0
    BY <1>3 DEF Acted, Live, ghosts
  <2> QED BY <2>1 DEF IInv, JobsOK
<1>8. WakesOK'
  <2>1. \A u \in Live \ {t} : S(u)' = S(u)
    BY DEF Acted, Live
  <2>2. ASSUME NEW u \in Live' \ nudged', u # run.tab PROVE Until(wake[u], u)'
    <3>1. u \in Live \ nudged /\ S(u)' = S(u)
      BY <1>3, <2>1, <2>2 DEF ghosts
    <3> QED BY <2>2, <3>1 DEF IInv, WakesOK, Until, app
  <2> QED BY <1>3, <2>2 DEF WakesOK
<1>9. ListsOK'
  BY <1>3, ActedSessions DEF IInv, ListsOK
<1>10. KnowsOK'
  BY <1>1, <1>3, OwnKnows DEF IInv, ghosts
<1> QED BY <1>4, <1>5, <1>6, <1>7, <1>8, <1>9, <1>10 DEF IInv

\* A storage handler, or a job of one, runs in another session.
LEMMA FiredStep ==
  ASSUME IInv, NEW t \in Live, t # run.tab, t = run.in, Firing, NEW k \in Item, Acted(t, k),
         run.at \in {"fire", "jobs"}, ops' \in 0 .. MaxOps, run' \in Run, run'.at = "jobs",
         \A f \in {"kind", "tab", "in", "back", "changes", "left", "wait", "began"} : run'[f] = run[f],
         \/ k = S(t).knows /\ run'.todo = run.todo
         \/ run.todo # <<>> /\ Concerned /\ k = Head(run.todo).value /\ run'.todo = Tail(run.todo),
         relayed' = (relayed \/ mem'.store # mem.store),
         nudged' = IF S(t)'.timers # S(t).timers THEN nudged \cup {t} ELSE nudged,
         UNCHANGED <<now, app, aborted, messages>>
  PROVE  IInv'
<1> DEFINE F(r) == /\ r.tab = run.tab /\ r.in = t /\ r.kind = run.kind /\ r.wait = run.wait
                   /\ r.began = run.began /\ r.changes = run.changes /\ r.left = run.left
                   /\ r.back = "fire" /\ r.at = "jobs"
<1>1. F(run')
  BY DEF Firing
<1>2. /\ run \in Run /\ t \in Tabs /\ run.tab \in Tabs /\ Live' = Live /\ Firing' /\ t \in Live'
      /\ run.left \subseteq Live \ {run.tab, t} /\ run.todo \in Seq(Change)
  BY <1>1 DEF IInv, Types, Placed, Live, Firing, Acted, Run
<1>3. Types'
  <2>1. TypeOK'
    BY <1>1, <1>2, ActedMem DEF IInv, Types, TypeOK, Run, app
  <2> QED BY <2>1, <1>1, ActedMem DEF IInv, Types
<1>4. Placed'
  BY <1>1, <1>2 DEF IInv, Placed, Scripts, Firing
<1>5. Reported'
  BY <1>1 DEF IInv, Reported, Acted, Resting, app
<1>6. JobsOK'
  <2> SUFFICES ASSUME NEW u \in Live' \ aborted', S(u)'.jobs # 0, u # t PROVE FALSE
    BY <1>1, <1>2 DEF JobsOK, Scripts
  <2>1. u \in Live \ aborted /\ S(u).jobs # 0
    BY <1>2 DEF Acted, Live
  <2> QED BY <2>1 DEF IInv, JobsOK
<1>7. WakesOK'
  <2>1. \A u \in Live \ {t} : S(u)' = S(u)
    BY DEF Acted, Live
  <2>2. ASSUME NEW u \in Live' \ nudged', u # run.tab PROVE Until(wake[u], u)'
    <3>1. u \in Live \ nudged /\ S(u)'.timers = S(u).timers
      BY <1>2, <2>1, <2>2
    <3> QED BY <2>2, <3>1 DEF IInv, WakesOK, Until, app
  <2>3. run.tab \in Live => S(run.tab)' = S(run.tab)
    BY <2>1
  <2> QED BY <1>1, <1>2, <2>2, <2>3 DEF IInv, WakesOK, app
<1>8. \A u \in Live' : OfOne(S(u)'.pending, S(u)'.origin)
  BY <1>2, ActedSessions DEF IInv
<1>9. /\ run'.todo # <<>> => /\ run.todo # <<>> /\ Last(run'.todo) = Last(run.todo)
                             /\ OfOne(run'.todo, Last(run.changes).origin)
      /\ run.todo # <<>> => Head(run.todo).origin = Last(run.changes).origin /\ Last(run.todo) = Last(run.changes)
                            /\ (Tail(run.todo) = <<>> => Head(run.todo) = Last(run.todo))
  <2>1. run.todo # <<>> =>
          /\ Last(run.todo) = Last(run.changes) /\ OfOne(run.todo, Last(run.changes).origin)
          /\ Head(run.todo) = run.todo[1] /\ 1 \in DOMAIN run.todo
          /\ Tail(run.todo) = <<>> => Head(run.todo) = Last(run.todo)
          /\ Tail(run.todo) # <<>> => Last(Tail(run.todo)) = Last(run.todo)
          /\ \A i \in DOMAIN Tail(run.todo) : i + 1 \in DOMAIN run.todo /\ Tail(run.todo)[i] = run.todo[i + 1]
    BY <1>2, TailLast DEF IInv, ListsOK
  <2>2. PICK l : l = Tail(run.todo)
    OBVIOUS
  <2>3. run.todo # <<>> =>
          /\ Head(run.todo).origin = Last(run.changes).origin
          /\ \A i \in DOMAIN l : l[i].origin = Last(run.changes).origin
    BY <2>1, <2>2 DEF OfOne
  <2> QED BY <2>1, <2>2, <2>3 DEF OfOne
<1>10. ListsOK'
  BY <1>1, <1>8, <1>9 DEF IInv, ListsOK
<1>11. KnowsOK'
  <2> SUFFICES ASSUME ~ relayed, mem'.store = mem.store PROVE AllHear'
    BY DEF KnowsOK
  <2>1. AllHear
    BY DEF IInv, KnowsOK
  <2>2. S(t)'.pending = S(t).pending /\ S(t)'.origin = S(t).origin /\ S(t)'.knows \in {k, mem.store[S(t).origin]}
        /\ \A u \in Live \ {t} : S(u)' = S(u)
    BY DEF Acted, Live
  <2>3. Latest(run.changes)' /\ Latest(run.changes)
    BY <1>1, <2>1 DEF AllHear, Latest
  <2>4. run.tab \in Live => Knows(run.tab)' /\ Latest(S(run.tab).pending)' /\ S(run.tab)'.pending = <<>>
    BY <2>1, <2>2 DEF AllHear, Knows, Latest
  <2>5. ASSUME NEW u \in Live \ {run.tab, t}
        PROVE  S(u)'.pending = <<>> /\ (Knows(u)' \/ (u \in run.left /\ WillHear(u, run.changes)'))
    BY <1>1, <2>1, <2>2 DEF AllHear, Knows, WillHear
  <2>6. S(t)'.pending = <<>> /\ (Knows(t)' \/ WillHear(t, run.todo)')
    <3>1. S(t).pending = <<>> /\ (Knows(t) \/ WillHear(t, run.todo))
      BY <1>2, <2>1 DEF AllHear
    <3>2. CASE k = S(t).knows /\ run'.todo = run.todo
      BY <2>2, <3>1, <3>2 DEF Knows, WillHear
    <3>3. CASE run.todo # <<>> /\ Concerned /\ k = Head(run.todo).value /\ run'.todo = Tail(run.todo)
      <4>1. S(t).origin = Last(run.changes).origin /\ run.changes # <<>>
        BY <1>9, <3>3 DEF Concerned, IInv, ListsOK
      <4>2. CASE Tail(run.todo) = <<>>
        <5>1. k = mem.store[S(t).origin]
          BY <1>9, <2>3, <3>3, <4>1, <4>2 DEF Latest
        <5> QED BY <2>2, <3>1, <5>1 DEF Knows
      <4>3. CASE Tail(run.todo) # <<>>
        BY <1>9, <2>2, <3>1, <3>3, <4>1, <4>3 DEF WillHear
      <4> QED BY <4>2, <4>3
    <3> QED BY <3>2, <3>3
  <2> QED BY <1>1, <1>2, <2>3, <2>4, <2>5, <2>6 DEF AllHear
<1> QED BY <1>3, <1>4, <1>5, <1>6, <1>7, <1>10, <1>11 DEF IInv

-----------------------------------------------------------------------------
(* Every action preserves the invariant                                    *)

LEMMA ScriptSafe == IInv /\ Script => IInv'
<1> SUFFICES ASSUME IInv, Script PROVE IInv'
  OBVIOUS
<1> DEFINE t == run.tab
<1>1. t \in Live /\ t = run.in /\ ~ Firing /\ run.at # "tick"
  BY DEF IInv, Placed, Script, Scripts, Firing
<1>2. With(mem, t, S(t)) = mem
  BY <1>1 DEF IInv, Types, Mem, With, S, Live
<1>3. Runs(With(mem, t, S(t)), t)
  BY <1>2 DEF Script, Runs
<1>4. Acted(t, S(t).knows) /\ ops' \in 0 .. MaxOps
  BY <1>1, <1>3, LiveIs, ActedIs DEF IInv
<1> QED BY <1>1, <1>4, OwnStep DEF Script, Scripts

LEMMA RunTimerSafe == IInv /\ RunTimer => IInv'
<1> SUFFICES ASSUME IInv, RunTimer PROVE IInv'
  OBVIOUS
<1> DEFINE t == run.tab
           l == RemoveAt(S(t).timers, Min(Due(t)))
           q == [S(t) EXCEPT !.timers = l]
<1>1. t \in Live /\ t = run.in /\ ~ Firing /\ run.at = "tick"
  BY DEF IInv, Placed, RunTimer, Scripts, Firing
<1>2. S(t) \in Session /\ InTime(S(t)) /\ S(t).timers \in Seq(Timer)
  BY <1>1, LiveIs DEF IInv, Session
<1>3. Min(Due(t)) \in DOMAIN S(t).timers
  <2>1. Due(t) # {} /\ Due(t) \subseteq DOMAIN S(t).timers /\ Due(t) \in SUBSET Nat
    BY <1>2, LenProperties DEF RunTimer, Due
  <2> QED BY <2>1, MinIs
<1>4. l \in Seq(Timer) /\ \A j \in DOMAIN l : \E k \in DOMAIN S(t).timers : l[j] = S(t).timers[k]
  BY <1>2, <1>3, Removed
<1>5. With(mem, t, q) = [mem EXCEPT !.session[t].timers = RemoveAt(@, Min(Due(t)))]
  BY <1>1 DEF IInv, Types, Mem, With, S, Live
<1> HIDE DEF l
<1>6. /\ q \in Session /\ q.timers = l
      /\ q.origin = S(t).origin /\ q.pending = S(t).pending /\ q.knows = S(t).knows
  BY <1>2, <1>4 DEF Session
<1> HIDE DEF q
<1>7. InTime(q)
  BY <1>2, <1>4, <1>6 DEF InTime
<1>8. Runs(With(mem, t, q), t)
  BY <1>5 DEF RunTimer
<1>9. Acted(t, S(t).knows) /\ ops' \in 0 .. MaxOps
  BY <1>1, <1>6, <1>7, <1>8, ActedIs DEF IInv
<1> QED BY <1>1, <1>9, OwnStep DEF RunTimer

LEMMA RunJobSafe == IInv /\ RunJob => IInv'
<1> SUFFICES ASSUME IInv, RunJob PROVE IInv'
  OBVIOUS
<1> DEFINE t == run.in
           q == [S(t) EXCEPT !.jobs = @ - 1]
<1>1. t \in Live /\ run.at = "jobs" /\ run \in Run
  BY DEF IInv, Types, Placed, RunJob
<1>2. S(t) \in Session /\ InTime(S(t)) /\ S(t).knows \in Item
  BY <1>1, LiveIs DEF IInv, Session
<1>3. With(mem, t, q) = [mem EXCEPT !.session[t].jobs = @ - 1]
  BY <1>1 DEF IInv, Types, Mem, With, S, Live
<1>4. /\ q \in Session /\ q.timers = S(t).timers
      /\ q.origin = S(t).origin /\ q.pending = S(t).pending /\ q.knows = S(t).knows
  <2>1. S(t).jobs > 0
    BY DEF RunJob
  <2> QED BY <1>2, <2>1 DEF Session
<1> HIDE DEF q
<1>5. InTime(q)
  BY <1>2, <1>4 DEF InTime
<1>6. Runs(With(mem, t, q), t)
  BY <1>3 DEF RunJob
<1>7. Acted(t, S(t).knows) /\ ops' \in 0 .. MaxOps
  BY <1>1, <1>4, <1>5, <1>6, ActedIs DEF IInv
<1>8. CASE ~ Firing
  <2>1. t = run.tab
    BY <1>1, <1>8 DEF IInv, Placed, Firing
  <2>2. UNCHANGED ghosts
    <3>1. relayed \in BOOLEAN
      BY DEF IInv, Types, TypeOK
    <3>2. /\ relayed' = (relayed \/ (Firing /\ mem'.store # mem.store))
          /\ nudged' = nudged /\ aborted' = aborted
      BY <1>8 DEF RunJob
    <3>3. relayed' = relayed
      BY <3>1, <3>2, <1>8
    <3> QED BY <3>2, <3>3 DEF ghosts
  <2> QED BY <1>1, <1>7, <1>8, <2>1, <2>2, OwnStep DEF RunJob
<1>9. CASE Firing
  <2>1. /\ t # run.tab
        /\ relayed' = (relayed \/ mem'.store # mem.store)
        /\ nudged' = IF S(t)'.timers # S(t).timers THEN nudged \cup {t} ELSE nudged
        /\ UNCHANGED <<run, now, app, aborted, messages>>
    BY <1>1, <1>9 DEF IInv, Placed, Firing, RunJob, S
  <2> QED BY <1>1, <1>2, <1>7, <1>9, <2>1, FiredStep
<1> QED BY <1>8, <1>9

LEMMA FireSafe == IInv /\ Fire => IInv'
<1> SUFFICES ASSUME IInv, Fire PROVE IInv'
  OBVIOUS
<1> DEFINE t == run.in
           k == Head(run.todo).value
           q == [S(t) EXCEPT !.knows = k]
<1>1. /\ t \in Live /\ t # run.tab /\ Firing /\ run.at = "fire" /\ run \in Run /\ run.todo # <<>>
      /\ Concerned
  BY DEF IInv, Types, Placed, Fire, Firing
<1>2. S(t) \in Session /\ InTime(S(t))
  BY <1>1, LiveIs DEF IInv
<1>3. k \in Item /\ Tail(run.todo) \in Seq(Change)
  <2>1. Tail(run.todo) \in Seq(Change) /\ Head(run.todo) \in Change
    BY <1>1, TailLast DEF Run
  <2> QED BY <2>1 DEF Change
<1>4. With(mem, t, q) = [mem EXCEPT !.session[t].knows = k]
  BY <1>1 DEF IInv, Types, Mem, With, S, Live
<1> HIDE DEF k
<1>5. /\ q \in Session /\ q.timers = S(t).timers /\ q.knows = k
      /\ q.origin = S(t).origin /\ q.pending = S(t).pending
  BY <1>2, <1>3 DEF Session
<1> HIDE DEF q
<1>6. InTime(q)
  BY <1>2, <1>5 DEF InTime
<1>7. Runs(With(mem, t, q), t)
  BY <1>4 DEF Fire, k
<1>8. Acted(t, k) /\ ops' \in 0 .. MaxOps
  BY <1>1, <1>5, <1>6, <1>7, ActedIs DEF IInv
<1>9. /\ relayed' = (relayed \/ mem'.store # mem.store)
      /\ nudged' = IF S(t)'.timers # S(t).timers THEN nudged \cup {t} ELSE nudged
      /\ UNCHANGED <<now, app, aborted, messages>>
  <2>1. run'.in = run.in
    BY <1>1 DEF Fire, Run
  <2> QED BY <2>1 DEF Fire, S
<1>10. /\ run' \in Run /\ run'.at = "jobs" /\ run'.todo = Tail(run.todo)
       /\ \A f \in {"kind", "tab", "in", "back", "changes", "left", "wait", "began"} : run'[f] = run[f]
  <2>1. PICK l : l = Tail(run.todo)
    OBVIOUS
  <2>2. run' = [run EXCEPT !.at = "jobs", !.todo = l] /\ l \in Seq(Change)
    BY <1>3, <2>1 DEF Fire
  <2> QED BY <1>1, <2>1, <2>2 DEF Run, Stages
<1> QED BY <1>1, <1>3, <1>8, <1>9, <1>10, FiredStep DEF k

\* The memory is as it was.
LEMMA StillStep ==
  ASSUME IInv, UNCHANGED <<mem, now, app, relayed, nudged, ops, messages>>,
         run' \in Run, run.at # "idle", run'.at # "idle", run'.tab = run.tab, run'.wait = run.wait,
         run'.began = run.began, Firing' <=> Firing, aborted' \subseteq Tabs
  PROVE  Types' /\ Reported' /\ WakesOK' /\ Live' = Live /\ (\A t \in Live : S(t)' = S(t))
<1>1. Live' = Live /\ \A t \in Live : S(t)' = S(t)
  BY DEF Live, S
<1>2. Types'
  <2>1. TypeOK'
    BY DEF IInv, Types, TypeOK, Run, app
  <2> QED BY <2>1, <1>1 DEF IInv, Types
<1>3. Reported'
  BY DEF IInv, Reported, Resting, app
<1>4. WakesOK'
  BY <1>1 DEF IInv, WakesOK, Until, app
<1> QED BY <1>1, <1>2, <1>3, <1>4

\* ... and so are the changes on their way.
LEMMA ControlStep ==
  ASSUME IInv, UNCHANGED <<mem, now, app, relayed, nudged, ops, messages>>,
         run' \in Run, run.at # "idle", run'.at # "idle", Firing' <=> Firing, aborted' \subseteq Tabs,
         \A f \in {"kind", "tab", "in", "changes", "todo", "left", "wait", "began"} : run'[f] = run[f]
  PROVE  Types' /\ Reported' /\ WakesOK' /\ ListsOK' /\ KnowsOK' /\ Live' = Live /\ (\A t \in Live : S(t)' = S(t))
<1>1. /\ run'.tab = run.tab /\ run'.wait = run.wait /\ run'.began = run.began /\ run'.in = run.in
      /\ run'.changes = run.changes /\ run'.todo = run.todo /\ run'.left = run.left
  OBVIOUS
<1>2. Types' /\ Reported' /\ WakesOK' /\ Live' = Live /\ (\A t \in Live : S(t)' = S(t))
  BY <1>1, StillStep
<1>3. ListsOK'
  BY <1>1, <1>2 DEF IInv, ListsOK
<1>4. KnowsOK'
  BY <1>1, <1>2 DEF IInv, KnowsOK, AllHear, Knows, Latest, WillHear, S
<1> QED BY <1>2, <1>3, <1>4

LEMMA ScriptEndsSafe == IInv /\ ScriptEnds => IInv'
<1> SUFFICES ASSUME IInv, ScriptEnds PROVE IInv'
  OBVIOUS
<1>1. PICK stage \in {"listeners", "tail"} : run' = [run EXCEPT !.at = "jobs", !.back = stage]
  BY DEF ScriptEnds, AfterJobs
<1>2. /\ run \in Run /\ run.at \in Scripts /\ run.in = run.tab /\ run.tab \in Live /\ run.back # "fire"
      /\ run.at # "idle" /\ aborted \subseteq Tabs
  BY DEF IInv, Types, TypeOK, Placed, ScriptEnds, Scripts
<1>3. /\ run' \in Run /\ run'.at = "jobs" /\ run'.back = stage
      /\ \A f \in {"kind", "tab", "in", "changes", "todo", "left", "wait", "began"} : run'[f] = run[f]
  BY <1>1, <1>2 DEF Run, Stages
<1>4. UNCHANGED <<mem, now, app, relayed, nudged, ops, messages, aborted>> /\ ~ Firing /\ ~ Firing'
  BY <1>2, <1>3 DEF ScriptEnds, ghosts, Firing
<1>5. Types' /\ Reported' /\ WakesOK' /\ ListsOK' /\ KnowsOK' /\ Live' = Live /\ (\A t \in Live : S(t)' = S(t))
  BY <1>2, <1>3, <1>4, ControlStep
<1>6. /\ run'.tab = run.tab /\ run'.in = run.in /\ run'.left = run.left
      /\ run'.changes = run.changes /\ run'.todo = run.todo
  BY <1>3
<1>7. Placed'
  BY <1>2, <1>3, <1>4, <1>5, <1>6 DEF IInv, Placed, Scripts, Live
<1>8. JobsOK'
  BY <1>2, <1>3, <1>4, <1>5, <1>6 DEF IInv, JobsOK
<1> QED BY <1>5, <1>7, <1>8 DEF IInv

LEMMA DispatchFailsSafe == IInv /\ DispatchFails => IInv'
<1> SUFFICES ASSUME IInv, DispatchFails PROVE IInv'
  OBVIOUS
<1>1. PICK stage \in {"listeners", "tail"} : run' = [run EXCEPT !.at = stage]
  BY DEF DispatchFails, AfterJobs
<1>2. /\ run \in Run /\ run.at \in Scripts /\ run.in = run.tab /\ run.tab \in Live /\ run.back # "fire"
      /\ run.at # "idle" /\ aborted \subseteq Tabs
  BY DEF IInv, Types, TypeOK, Placed, DispatchFails, Scripts
<1>3. /\ run' \in Run /\ run'.at = stage /\ run'.back = run.back
      /\ \A f \in {"kind", "tab", "in", "changes", "todo", "left", "wait", "began"} : run'[f] = run[f]
  BY <1>1, <1>2 DEF Run, Stages
<1>4. /\ UNCHANGED <<mem, now, app, relayed, nudged, ops, messages>>
      /\ aborted' = aborted \cup {run.tab}
      /\ ~ Firing /\ ~ Firing' /\ aborted' \subseteq Tabs
  BY <1>2, <1>3 DEF DispatchFails, Firing, Live
<1>5. Types' /\ Reported' /\ WakesOK' /\ ListsOK' /\ KnowsOK' /\ Live' = Live /\ (\A t \in Live : S(t)' = S(t))
  BY <1>2, <1>3, <1>4, ControlStep
<1>6. /\ run'.tab = run.tab /\ run'.in = run.in /\ run'.left = run.left
      /\ run'.changes = run.changes /\ run'.todo = run.todo
  BY <1>3
<1>7. Placed'
  BY <1>2, <1>3, <1>4, <1>5, <1>6 DEF IInv, Placed, Scripts, Live
<1>8. JobsOK'
  BY <1>2, <1>3, <1>4, <1>5, <1>6 DEF IInv, JobsOK
<1> QED BY <1>5, <1>7, <1>8 DEF IInv

LEMMA TimersEndSafe == IInv /\ TimersEnd => IInv'
<1> SUFFICES ASSUME IInv, TimersEnd PROVE IInv'
  OBVIOUS
<1>1. /\ run \in Run /\ run.at = "tick" /\ run.in = run.tab /\ run.tab \in Live
      /\ run.back \in {"idle", "tail"}
      /\ aborted \subseteq Tabs
  BY DEF IInv, Types, TypeOK, Placed, TimersEnd
<1>2. /\ run' \in Run /\ run'.at = (IF run.back = "tail" THEN "jobs" ELSE "tail") /\ run'.back = run.back
      /\ \A f \in {"kind", "tab", "in", "changes", "todo", "left", "wait", "began"} : run'[f] = run[f]
  BY <1>1 DEF TimersEnd, Run, Stages
<1>3. UNCHANGED <<mem, now, app, relayed, nudged, ops, messages, aborted>> /\ ~ Firing /\ ~ Firing'
  BY <1>1, <1>2 DEF TimersEnd, ghosts, Firing
<1>4. Types' /\ Reported' /\ WakesOK' /\ ListsOK' /\ KnowsOK' /\ Live' = Live /\ (\A t \in Live : S(t)' = S(t))
  BY <1>1, <1>2, <1>3, ControlStep
<1>5. /\ run'.tab = run.tab /\ run'.in = run.in /\ run'.left = run.left
      /\ run'.changes = run.changes /\ run'.todo = run.todo
  BY <1>2
<1>6. Placed'
  BY <1>1, <1>2, <1>3, <1>4, <1>5 DEF IInv, Placed, Scripts, Live
<1>7. JobsOK'
  BY <1>1, <1>2, <1>3, <1>4, <1>5 DEF IInv, JobsOK, Scripts
<1> QED BY <1>4, <1>6, <1>7 DEF IInv

LEMMA JobsEndSafe == IInv /\ JobsEnd => IInv'
<1> SUFFICES ASSUME IInv, JobsEnd PROVE IInv'
  OBVIOUS
<1>1. /\ run \in Run /\ run.at = "jobs" /\ run.in \in Live /\ run.back \in {"listeners", "tail", "fire"}
      /\ run.tab \in Tabs /\ aborted \subseteq Tabs /\ S(run.in).jobs = 0
  BY DEF IInv, Types, TypeOK, Placed, JobsEnd
<1>2. /\ run' \in Run /\ run'.at = run.back /\ run'.back = run.back
      /\ \A f \in {"kind", "tab", "in", "changes", "todo", "left", "wait", "began"} : run'[f] = run[f]
  BY <1>1 DEF JobsEnd, Run, Stages
<1>3. /\ UNCHANGED <<mem, now, app, relayed, nudged, ops, messages>> /\ aborted' = aborted \ {run.in}
      /\ (Firing' <=> Firing) /\ aborted' \subseteq Tabs
  BY <1>1, <1>2 DEF JobsEnd, Firing
<1>4. Types' /\ Reported' /\ WakesOK' /\ ListsOK' /\ KnowsOK' /\ Live' = Live /\ (\A t \in Live : S(t)' = S(t))
  BY <1>1, <1>2, <1>3, ControlStep
<1>5. /\ run'.tab = run.tab /\ run'.in = run.in /\ run'.left = run.left
      /\ run'.changes = run.changes /\ run'.todo = run.todo
  BY <1>2
<1>6. Placed'
  BY <1>1, <1>2, <1>3, <1>4, <1>5 DEF IInv, Placed, Scripts, Firing
<1>7. JobsOK'
  <2> SUFFICES ASSUME NEW t \in Live, t \notin aborted \ {run.in}, S(t).jobs # 0 PROVE FALSE
    BY <1>3, <1>4 DEF JobsOK
  <2>1. t # run.in /\ t \notin aborted
    BY <1>1
  <2> QED BY <2>1 DEF IInv, JobsOK
<1> QED BY <1>4, <1>6, <1>7 DEF IInv

LEMMA SkipSafe == IInv /\ Skip => IInv'
<1> SUFFICES ASSUME IInv, Skip PROVE IInv'
  OBVIOUS
<1> DEFINE t == run.in
<1>1. /\ run \in Run /\ run.at = "fire" /\ Firing /\ run.todo # <<>> /\ t \in Live \ {run.tab}
      /\ run.todo \in Seq(Change) /\ aborted \subseteq Tabs /\ ~ Concerned /\ run.tab \in Tabs
  BY DEF IInv, Types, TypeOK, Placed, Skip, Firing, Run
<1>2. PICK l : l = Tail(run.todo)
  OBVIOUS
<1>3. /\ l \in Seq(Change)
      /\ l # <<>> => Last(l) = Last(run.todo)
      /\ Head(run.todo) = run.todo[1] /\ 1 \in DOMAIN run.todo /\ Len(run.todo) \in DOMAIN run.todo
      /\ \A i \in DOMAIN l : i + 1 \in DOMAIN run.todo /\ l[i] = run.todo[i + 1]
  BY <1>1, <1>2, TailLast, LenProperties, EmptySeq
<1>4. /\ run' = [run EXCEPT !.todo = l]
      /\ UNCHANGED <<mem, now, app, relayed, nudged, ops, messages, aborted>>
  BY <1>2 DEF Skip, ghosts
<1>5. /\ run' \in Run /\ run'.at = "fire" /\ run'.back = run.back /\ run'.todo = l
      /\ run'.tab = run.tab /\ run'.in = t /\ run'.left = run.left /\ run'.wait = run.wait
      /\ run'.began = run.began /\ run'.changes = run.changes
  BY <1>1, <1>3, <1>4 DEF Run
<1>6. Firing'
  BY <1>1, <1>5 DEF Firing
<1>7. Types' /\ Reported' /\ WakesOK' /\ Live' = Live /\ (\A u \in Live : S(u)' = S(u))
  BY <1>1, <1>4, <1>5, <1>6, StillStep
<1>8. Placed'
  BY <1>1, <1>5, <1>6, <1>7 DEF IInv, Placed, Scripts, Firing
<1>9. JobsOK'
  BY <1>1, <1>4, <1>5, <1>7 DEF IInv, JobsOK, Scripts
<1>10. /\ OfOne(l, Last(run.changes).origin)
       /\ Head(run.todo).origin = Last(run.changes).origin
       /\ Last(run.todo).origin = Last(run.changes).origin
  <2>1. OfOne(run.todo, Last(run.changes).origin)
    BY <1>1 DEF IInv, ListsOK
  <2>2. OfOne(l, Last(run.changes).origin)
    BY <1>3, <2>1 DEF OfOne
  <2>3. Head(run.todo).origin = Last(run.changes).origin /\ Last(run.todo).origin = Last(run.changes).origin
    BY <1>3, <2>1 DEF OfOne, Last
  <2> QED BY <2>2, <2>3
<1>11. ListsOK'
  BY <1>3, <1>5, <1>7, <1>10, <1>1 DEF IInv, ListsOK
<1>12. KnowsOK'
  <2> SUFFICES ASSUME ~ relayed PROVE AllHear'
    BY <1>4 DEF KnowsOK
  <2>1. AllHear /\ ~ WillHear(t, run.todo)
    BY <1>1, <1>10 DEF IInv, KnowsOK, WillHear, Concerned
  <2> QED BY <1>1, <1>4, <1>5, <1>6, <1>7, <2>1 DEF AllHear, Knows, Latest, WillHear
<1> QED BY <1>7, <1>8, <1>9, <1>11, <1>12 DEF IInv

LEMMA NextTabSafe == ASSUME NEW u \in Tabs PROVE IInv /\ NextTab(u) => IInv'
<1> SUFFICES ASSUME IInv, NextTab(u) PROVE IInv'
  OBVIOUS
<1>1. /\ run \in Run /\ run.at = "fire" /\ Firing /\ run.todo = <<>> /\ u \in Live \ {run.tab, run.in}
      /\ aborted \subseteq Tabs /\ run.tab \in Tabs /\ u \in run.left
  BY DEF IInv, Types, TypeOK, Placed, NextTab, Firing
<1>2. /\ run' = [run EXCEPT !.in = u, !.todo = run.changes, !.left = @ \ {u}]
      /\ UNCHANGED <<mem, now, app, relayed, nudged, ops, messages, aborted>>
  BY DEF NextTab, ghosts
<1>3. /\ run' \in Run /\ run'.at = "fire" /\ run'.back = run.back /\ run'.todo = run.changes
      /\ run'.tab = run.tab /\ run'.in = u /\ run'.left = run.left \ {u} /\ run'.wait = run.wait
      /\ run'.began = run.began /\ run'.changes = run.changes
  BY <1>1, <1>2 DEF Run
<1>4. Firing'
  BY <1>1, <1>3 DEF Firing
<1>5. Types' /\ Reported' /\ WakesOK' /\ Live' = Live /\ (\A t \in Live : S(t)' = S(t))
  BY <1>1, <1>2, <1>3, <1>4, StillStep
<1>6. Placed'
  BY <1>1, <1>3, <1>4, <1>5 DEF IInv, Placed, Scripts, Firing
<1>7. JobsOK'
  BY <1>1, <1>2, <1>3, <1>5 DEF IInv, JobsOK, Scripts
<1>8. ListsOK'
  BY <1>1, <1>3, <1>5 DEF IInv, ListsOK
<1>9. KnowsOK'
  <2> SUFFICES ASSUME ~ relayed PROVE AllHear'
    BY <1>2 DEF KnowsOK
  <2>1. AllHear /\ \A t : ~ WillHear(t, run.todo)
    BY <1>1, <1>2 DEF IInv, KnowsOK, WillHear
  <2>2. Latest(run.changes)' /\ (Firing /\ run.tab \in Live => S(run.tab).pending = <<>>)'
        /\ (run.tab \in Live => Knows(run.tab) /\ Latest(S(run.tab).pending))'
    BY <1>1, <1>2, <1>3, <1>5, <2>1 DEF AllHear, Knows, Latest
  <2>3. ASSUME NEW t \in Live \ {run.tab}
        PROVE  /\ S(t)'.pending = <<>>
               /\ \/ Knows(t)'
                  \/ t \in run'.left /\ WillHear(t, run.changes)'
                  \/ t = run'.in /\ WillHear(t, run.todo)'
    <3>1. S(t).pending = <<>> /\ (Knows(t) \/ (t \in run.left /\ WillHear(t, run.changes)))
      BY <1>1, <2>1 DEF AllHear
    <3> QED BY <1>2, <1>3, <1>5, <3>1 DEF Knows, WillHear
  <2> QED BY <1>3, <1>5, <2>2, <2>3 DEF AllHear
<1> QED BY <1>5, <1>6, <1>7, <1>8, <1>9 DEF IInv

LEMMA DrainSafe == IInv /\ Drain => IInv'
<1> SUFFICES ASSUME IInv, Drain PROVE IInv'
  OBVIOUS
<1>a. PICK t : t = run.tab
  OBVIOUS
<1>b. PICK w, l, q, f : /\ w = Wait(t) /\ l = IF t \in Live THEN S(t).pending ELSE <<>>
                        /\ q = [S(t) EXCEPT !.pending = <<>>] /\ f = Live \ {t}
  OBVIOUS
<1>1. /\ run \in Run /\ run.at = "tail" /\ ~ Firing /\ t \in Tabs /\ run.todo = <<>>
      /\ mem \in Mem /\ aborted \subseteq Tabs /\ <<>> \in Seq(Change)
  BY <1>a DEF IInv, Types, TypeOK, Placed, Drain, Firing
<1>2. /\ w \in Delays \cup {NoWake} /\ (w # NoWake => w + now <= MaxTime + MaxDelay)
      /\ t \in Live => \A i \in DOMAIN S(t).timers :
           w # NoWake /\ w + now <= Max({S(t).timers[i].at, now})
  BY <1>b, <1>1, WaitIs DEF IInv
<1>3. l \in Seq(Change)
  BY <1>b, <1>1, LiveIs DEF IInv, Session
<1>4. /\ run' = [run EXCEPT !.at = "fire", !.back = "fire", !.in = NoTab, !.wait = w, !.changes = l, !.left = f]
      /\ mem' = IF t \in Live THEN With(mem, t, q) ELSE mem
  <2>1. t \in Live => With(mem, t, q) = [mem EXCEPT !.session[t].pending = <<>>]
    BY <1>a, <1>b, <1>1 DEF With, Mem, S
  <2> QED BY <1>a, <1>b, <2>1 DEF Drain
<1>5. /\ run' \in Run /\ run'.at = "fire" /\ run'.back = "fire" /\ run'.todo = <<>>
      /\ run'.tab = t /\ run'.in = NoTab /\ run'.left = Live \ {t} /\ run'.wait = w
      /\ run'.began = run.began /\ run'.changes = l
  <2>1. f \subseteq Tabs
    BY <1>b DEF Live
  <2>2. run \in Run /\ run.tab = t /\ run.todo = <<>> /\ w \in Delays \cup {NoWake} /\ l \in Seq(Change)
    BY <1>a, <1>1, <1>2, <1>3
  <2>3. run' = [run EXCEPT !.at = "fire", !.back = "fire", !.in = NoTab, !.wait = w, !.changes = l, !.left = f]
    BY <1>4
  <2>4. /\ run' \in Run /\ run'.at = "fire" /\ run'.back = "fire" /\ run'.todo = <<>>
        /\ run'.tab = t /\ run'.in = NoTab /\ run'.left = f /\ run'.wait = w
        /\ run'.began = run.began /\ run'.changes = l
    BY <2>1, <2>2, <2>3 DEF Run, Stages
  <2> QED BY <1>b, <2>4
<1>6. UNCHANGED <<now, app, relayed, nudged, ops, messages, aborted>>
  BY DEF Drain, ghosts
<1>7. /\ mem' \in Mem /\ mem'.store = mem.store /\ mem'.dirty = mem.dirty
      /\ \A u \in Tabs \ {t} : S(u)' = S(u)
      /\ t \notin Live => S(t)' = S(t)
      /\ t \in Live => S(t)' \in Session /\ S(t)' = q
  <2>1. CASE t \notin Live
    BY <1>1, <1>4, <2>1 DEF S
  <2>2. CASE t \in Live
    <3>1. q \in Session
      BY <1>b, <1>1, <2>2, LiveIs DEF IInv, Session
    <3> QED BY <1>1, <1>4, <2>2, <3>1, WithIs DEF S
  <2> QED BY <2>1, <2>2
<1>8. t \in Live => /\ q.timers = S(t).timers /\ q.origin = S(t).origin /\ q.jobs = S(t).jobs
                    /\ q.knows = S(t).knows /\ q.pending = <<>> /\ S(t) \in Session
  BY <1>b, <1>1, LiveIs DEF IInv, Session
<1>9. Live' = Live
  BY <1>7, SessionsAssumption DEF Live, S
<1>10. \A u \in Live : /\ S(u)' \in Session /\ S(u)'.timers = S(u).timers /\ S(u)'.origin = S(u).origin
                       /\ S(u)'.jobs = S(u).jobs /\ S(u)'.knows = S(u).knows
                       /\ S(u)'.pending = IF u = t THEN <<>> ELSE S(u).pending
  BY <1>7, <1>8, LiveIs DEF IInv, Live
<1>11. Types'
  <2>1. TypeOK'
    BY <1>5, <1>6, <1>7 DEF IInv, Types, TypeOK, Run, Mem, app
  <2> QED BY <2>1, <1>5, <1>7, <1>9, <1>10 DEF IInv, Types
<1>12. Firing'
  BY <1>5 DEF Firing
<1>13. Placed'
  BY <1>1, <1>5, <1>9, <1>12, ConstantsAssumption DEF Placed, Scripts, Live
<1>14. Reported'
  BY <1>1, <1>5, <1>6, <1>7 DEF IInv, Reported, Resting, app
<1>15. JobsOK'
  BY <1>1, <1>6, <1>9, <1>10 DEF IInv, JobsOK, Scripts
<1>16. WakesOK'
  <2>1. \A u \in Live' \ nudged' : u # t => Until(wake[u], u)'
    BY <1>a, <1>6, <1>9, <1>10 DEF IInv, WakesOK, Until, app
  <2>2. /\ run'.wait # NoWake => run'.wait + now' <= MaxTime + MaxDelay
        /\ t \in Live => \A i \in DOMAIN S(t)'.timers :
             run'.wait # NoWake /\ run'.wait + now' <= Max({S(t)'.timers[i].at, now'})
    <3>1. now' = now /\ run'.wait = w
      BY <1>5, <1>6
    <3> QED BY <1>2, <1>10, <3>1
  <2>3. run'.tab = t /\ Live' = Live
    BY <1>5, <1>9
  <2> QED BY <2>1, <2>2, <2>3 DEF WakesOK
<1>17. l # <<>> => t \in Live /\ l = S(t).pending /\ OfOne(l, S(t).origin) /\ Last(l).origin = S(t).origin
  <2> SUFFICES ASSUME l # <<>> PROVE t \in Live /\ l = S(t).pending /\ OfOne(l, S(t).origin) /\ Last(l).origin = S(t).origin
    OBVIOUS
  <2>1. t \in Live /\ l = S(t).pending
    BY <1>b
  <2>2. OfOne(l, S(t).origin)
    BY <2>1 DEF IInv, ListsOK
  <2>3. Len(l) \in DOMAIN l
    BY <1>3, LenProperties, EmptySeq
  <2> QED BY <2>1, <2>2, <2>3 DEF OfOne, Last
<1>18. ListsOK'
  <2>1. \A u \in Live' : OfOne(S(u)'.pending, S(u)'.origin)
    <3>1. \A o : OfOne(<<>>, o)
      BY DEF OfOne
    <3> QED BY <1>9, <1>10, <3>1 DEF IInv, ListsOK
  <2> QED BY <1>5, <1>17, <2>1 DEF ListsOK
<1>19. KnowsOK'
  <2> SUFFICES ASSUME ~ relayed PROVE AllHear'
    BY <1>6 DEF KnowsOK
  <2>1. AllHear
    BY DEF IInv, KnowsOK
  <2>2. t \in Live => Latest(S(t).pending) /\ Knows(t) /\ l = S(t).pending
    BY <1>a, <1>b, <2>1 DEF AllHear
  <2>3. Latest(run.changes)' /\ Latest(<<>>)'
    BY <1>5, <1>7, <1>17, <2>2 DEF Latest
  <2>4. t \in Live => Knows(t)' /\ S(t)'.pending = <<>>
    BY <1>7, <1>10, <2>2 DEF Knows
  <2>5. ASSUME NEW u \in Live \ {t}
        PROVE  S(u)'.pending = <<>> /\ (Knows(u)' \/ WillHear(u, run.changes)')
    <3>1. S(u).pending = <<>> /\ (Knows(u) \/ (t \in Live /\ WillHear(u, S(t).pending)))
      <4>1. run.left = {}
        BY <1>1 DEF IInv, Placed
      <4> QED BY <1>a, <1>1, <2>1, <4>1 DEF AllHear, WillHear
    <3> QED BY <1>5, <1>7, <1>10, <2>2, <3>1 DEF Knows, WillHear
  <2> QED BY <1>5, <1>9, <2>3, <2>4, <2>5 DEF AllHear
<1> QED BY <1>11, <1>13, <1>14, <1>15, <1>16, <1>18, <1>19 DEF IInv

LEMMA TimerIs ==
  ASSUME Types, NEW t \in Live, NEW i \in DOMAIN S(t).timers
  PROVE  S(t).timers[i].at \in Nat
<1>1. S(t).timers \in Seq(Timer)
  BY LiveIs DEF Session
<1>2. S(t).timers[i] \in Timer
  BY <1>1, ElementOfSeq, LenProperties
<1> QED BY <1>2 DEF Timer

LEMMA ReplySafe == IInv /\ Reply => IInv'
<1> SUFFICES ASSUME IInv, Reply PROVE IInv'
  OBVIOUS
<1>a. PICK t : t = run.tab
  OBVIOUS
<1>1. /\ run \in Run /\ run.at = "fire" /\ Firing /\ run.todo = <<>> /\ run.left = {} /\ t \in Tabs
      /\ run.began \in 0 .. now /\ now \in Nat /\ mem \in Mem
  BY <1>a, ConstantsAssumption DEF IInv, Types, TypeOK, Placed, Reply, Firing
<1>2. PICK d : d = IF run.kind = "tick" THEN run.began ELSE now
  OBVIOUS
<1>3. PICK w : w = IF run.wait = NoWake THEN NoWake ELSE run.wait + d
  OBVIOUS
<1>4. d \in Nat /\ d <= now
  BY <1>1, <1>2
<1>5. /\ run' = Idle /\ wake' = [wake EXCEPT ![t] = w] /\ nudged' = nudged \ {t}
      /\ copy' = Report /\ mem' = [mem EXCEPT !.dirty = FALSE]
      /\ UNCHANGED <<now, relayed, aborted, ops, messages>>
  BY <1>a, <1>2, <1>3 DEF Reply
<1>6. /\ run.wait \in Delays \cup {NoWake} /\ (run.wait # NoWake => run.wait + now <= MaxTime + MaxDelay)
      /\ t \in Live => \A i \in DOMAIN S(t).timers :
           run.wait # NoWake /\ run.wait + now <= Max({S(t).timers[i].at, now})
  BY <1>a, <1>1 DEF IInv, WakesOK, Run
<1>7. /\ w \in Delays \cup {NoWake}
      /\ t \in Live => \A i \in DOMAIN S(t).timers : w # NoWake /\ w <= Max({S(t).timers[i].at, now})
  <2>1. CASE run.wait = NoWake
    BY <2>1, <1>3, <1>6
  <2>2. CASE run.wait # NoWake
    <3>1. /\ run.wait \in Nat /\ w = run.wait + d /\ run.wait + now \in Nat
          /\ MaxTime \in Nat /\ MaxDelay \in Nat /\ run.wait + now <= MaxTime + MaxDelay
      BY <2>2, <1>1, <1>3, <1>6, ConstantsAssumption DEF Delays
    <3>2. w \in Nat /\ w <= run.wait + now /\ w \in Delays /\ w # NoWake
      BY <3>1, <1>1, <1>4, ConstantsAssumption DEF Delays
    <3>3. ASSUME t \in Live, NEW i \in DOMAIN S(t).timers PROVE w <= Max({S(t).timers[i].at, now})
      <4>1. S(t).timers[i].at \in Nat
        BY <3>3, TimerIs DEF IInv
      <4>2. run.wait + now <= Max({S(t).timers[i].at, now})
        BY <3>3, <1>6
      <4>3. PICK a : a = S(t).timers[i].at
        OBVIOUS
      <4>4. PICK b : b = Max({a, now})
        OBVIOUS
      <4>5. b \in Nat
        BY <4>1, <4>3, <4>4, <1>1, TwoMax
      <4>6. w <= b
        BY <4>2, <4>3, <4>4, <4>5, <3>1, <3>2
      <4> QED BY <4>3, <4>4, <4>6
    <3> QED BY <3>2, <3>3
  <2> QED BY <2>1, <2>2
<1>8. /\ mem' \in Mem /\ mem'.store = mem.store /\ mem'.session = mem.session /\ mem'.dirty = FALSE
      /\ Live' = Live /\ \A u \in Live : S(u)' = S(u)
  BY <1>1, <1>5 DEF Mem, Live, S
<1>9. /\ run' \in Run /\ run'.at = "idle" /\ run'.kind = "none" /\ run'.tab = NoTab /\ run'.in = NoTab
      /\ run'.back = "idle" /\ run'.changes = <<>> /\ run'.todo = <<>> /\ run'.left = {}
      /\ run'.wait = NoWake /\ run'.began = 0 /\ run' = Idle /\ ~ Firing'
  <2>1. <<>> \in Seq(Change)
    OBVIOUS
  <2> QED BY <1>5, <2>1 DEF Idle, Run, Stages, Kinds, Firing
<1>10. Types'
  <2>1. wake' \in [Tabs -> Delays \cup {NoWake}]
    BY <1>5, <1>7 DEF IInv, Types, TypeOK
  <2>2. copy' \in [Origins -> Item]
    BY <1>5, <1>1 DEF IInv, Types, TypeOK, Report, Mem
  <2>3. TypeOK'
    BY <1>1, <1>5, <1>8, <1>9, <2>1, <2>2 DEF IInv, Types, TypeOK, Mem, Run
  <2> QED BY <2>3, <1>8, <1>9 DEF IInv, Types
<1>11. Placed'
  BY <1>9, ConstantsAssumption DEF Placed, Scripts, Live
<1>12. Reported'
  BY <1>5, <1>8 DEF IInv, Reported, Report
<1>13. JobsOK'
  <2> SUFFICES ASSUME NEW u \in Live \ aborted, S(u).jobs # 0 PROVE FALSE
    BY <1>5, <1>8 DEF JobsOK
  <2> QED BY <1>1 DEF IInv, JobsOK, Scripts
<1>14. WakesOK'
  <2>1. ASSUME NEW u \in Live \ (nudged \ {t}) PROVE Until(wake[u], u)'
    <3>1. CASE u = t
      <4>1. wake'[t] = w /\ S(t)' = S(t) /\ now' = now
        BY <3>1, <1>1, <1>5, <1>8 DEF IInv, Types, TypeOK
      <4> QED BY <3>1, <4>1, <1>7 DEF Until
    <3>2. CASE u # t
      <4>1. wake'[u] = wake[u] /\ S(u)' = S(u) /\ now' = now
        BY <3>2, <1>5, <1>8 DEF IInv, Types, TypeOK, Live
      <4> QED BY <1>a, <3>2, <4>1 DEF IInv, WakesOK, Until
    <3> QED BY <3>1, <3>2
  <2> QED BY <2>1, <1>5, <1>8, <1>9 DEF WakesOK
<1>15. ListsOK'
  BY <1>8, <1>9 DEF IInv, ListsOK
<1>16. KnowsOK'
  <2> SUFFICES ASSUME ~ relayed PROVE AllHear'
    BY <1>5 DEF KnowsOK
  <2>1. AllHear
    BY DEF IInv, KnowsOK
  <2>2. \A u \in Live : S(u).pending = <<>> /\ Knows(u)
    BY <1>1, <2>1 DEF AllHear, WillHear
  <2>3. \A u \in Live : S(u)'.pending = <<>> /\ Knows(u)'
    BY <1>8, <2>2 DEF Knows
  <2>4. NoTab \notin Live
    BY ConstantsAssumption DEF Live
  <2> QED BY <1>8, <1>9, <2>3, <2>4 DEF AllHear, Latest
<1> QED BY <1>10, <1>11, <1>12, <1>13, <1>14, <1>15, <1>16 DEF IInv

\* Between messages
LEMMA RestIs ==
  ASSUME IInv, run.at = "idle"
  PROVE  /\ run = Idle /\ ~ Firing /\ ~ mem.dirty /\ copy = mem.store
         /\ \A t \in Live \ aborted : S(t).jobs = 0
         /\ \A t \in Live \ nudged : Until(wake[t], t)
         /\ ~ relayed => \A t \in Live : Knows(t) /\ S(t).pending = <<>>
<1>1. /\ run = Idle /\ run.back = "idle" /\ run.tab = NoTab /\ run.in = NoTab /\ run.left = {}
      /\ run.todo = <<>>
  BY DEF IInv, Placed, Idle
<1>2. NoTab \notin Live
  BY ConstantsAssumption DEF Live
<1>3. ~ Firing /\ ~ mem.dirty /\ copy = mem.store
  BY <1>1 DEF Firing, IInv, Reported, Resting
<1>4. \A t \in Live \ aborted : S(t).jobs = 0
  BY <1>1, <1>2 DEF IInv, JobsOK
<1>5. \A t \in Live \ nudged : Until(wake[t], t)
  BY <1>1, <1>2 DEF IInv, WakesOK
<1>6. ~ relayed => \A t \in Live : Knows(t) /\ S(t).pending = <<>>
  BY <1>1, <1>2 DEF IInv, KnowsOK, AllHear, WillHear
<1> QED BY <1>1, <1>3, <1>4, <1>5, <1>6

LEMMA BeginIs ==
  ASSUME Types, NEW t \in Tabs, NEW kind \in Kinds, NEW stage \in Stages, Begin(t, kind, stage)
  PROVE  /\ run' \in Run /\ run'.at = stage /\ run'.kind = kind /\ run'.tab = t /\ run'.in = t
         /\ run'.back = "idle" /\ run'.changes = <<>> /\ run'.todo = <<>> /\ run'.left = {}
         /\ run'.wait = NoWake /\ run'.began = now /\ ~ Firing'
<1>1. <<>> \in Seq(Change)
  OBVIOUS
<1>2. now \in Nat
  BY ConstantsAssumption DEF Types, TypeOK
<1> QED BY <1>1, <1>2 DEF Begin, Idle, Run, Stages, Firing

LEMMA NavigateSafe == ASSUME NEW t \in Tabs PROVE IInv /\ Navigate(t) => IInv'
<1> SUFFICES ASSUME IInv, Navigate(t) PROVE IInv'
  OBVIOUS
<1>1. /\ run.at = "idle" /\ UNCHANGED <<now, app, relayed, nudged, ops>> /\ aborted' = aborted \ {t}
      /\ messages' \in 0 .. MaxMessages /\ mem \in Mem
  BY ConstantsAssumption DEF Navigate, Send, IInv, Types, TypeOK
<1>2. PICK q \in Session \cup {NoSession}, at \in {"script", "tail"}, kind \in {"load", "close"} :
        /\ mem' = With(mem, t, q) /\ Begin(t, kind, at)
        /\ at = "script" => q # NoSession
        /\ q # NoSession => /\ q.pending = <<>> /\ q.timers = <<>> /\ q.jobs = 0
                            /\ q.knows = mem.store[q.origin]
  <2>1. CASE mem' = [mem EXCEPT !.session[t] = NoSession] /\ Begin(t, "close", "tail")
    <3>1. mem' = With(mem, t, NoSession)
      BY <2>1, <1>1 DEF With, Mem
    <3> QED BY <2>1, <3>1
  <2>2. ASSUME NEW o \in Origins, mem' = [mem EXCEPT !.session[t] = Fresh(o)], Begin(t, "load", "script")
        PROVE  \E q \in Session :
                 /\ mem' = With(mem, t, q) /\ Begin(t, "load", "script")
                 /\ q.pending = <<>> /\ q.timers = <<>> /\ q.jobs = 0 /\ q.knows = mem.store[q.origin]
    <3>1. mem' = With(mem, t, Fresh(o))
      BY <2>2, <1>1 DEF With, Mem
    <3>2. /\ Fresh(o) \in Session /\ Fresh(o).pending = <<>> /\ Fresh(o).timers = <<>>
          /\ Fresh(o).jobs = 0 /\ Fresh(o).knows = mem.store[Fresh(o).origin]
      <4>1. <<>> \in Seq(Change) /\ <<>> \in Seq(Timer)
        OBVIOUS
      <4>2. mem.store[o] \in Item
        BY <1>1 DEF Mem
      <4> QED BY <4>1, <4>2 DEF Fresh, Session
    <3> QED BY <2>2, <3>1, <3>2
  <2>3. \A q \in Session : q # NoSession
    BY SessionsAssumption
  <2> QED BY <2>1, <2>2, <2>3 DEF Navigate
<1>3. /\ run' \in Run /\ run'.at = at /\ run'.tab = t /\ run'.in = t
      /\ run'.back = "idle" /\ run'.changes = <<>> /\ run'.todo = <<>> /\ run'.left = {}
      /\ run'.began = now /\ ~ Firing'
  BY <1>2, BeginIs DEF IInv, Stages, Kinds
<1>4. PICK m : m = With(mem, t, q)
  OBVIOUS
<1>5. /\ mem' \in Mem /\ mem'.store = mem.store /\ mem'.dirty = mem.dirty /\ S(t)' = q
      /\ \A u \in Tabs \ {t} : S(u)' = S(u)
  BY <1>1, <1>2, <1>4, WithIs DEF S
<1>6. Live' \ {t} = Live \ {t} /\ (t \in Live' <=> q # NoSession) /\ Live' \subseteq Tabs
  BY <1>5 DEF Live, S
<1>7. /\ ~ mem.dirty /\ copy = mem.store
      /\ \A u \in Live \ aborted : S(u).jobs = 0
      /\ \A u \in Live \ nudged : Until(wake[u], u)
      /\ ~ relayed => \A u \in Live : Knows(u) /\ S(u).pending = <<>>
  BY <1>1, RestIs
<1>8. Types'
  <2>1. TypeOK'
    BY <1>1, <1>3, <1>5 DEF IInv, Types, TypeOK, Run, Mem, app
  <2>2. ASSUME NEW u \in Live', NEW i \in DOMAIN S(u)'.timers
        PROVE  S(u)'.timers[i].at <= MaxTime + MaxDelay
    <3>1. CASE u = t
      BY <3>1, <2>2, <1>2, <1>5, <1>6
    <3>2. CASE u # t
      BY <3>2, <2>2, <1>5, <1>6 DEF IInv, Types
    <3> QED BY <3>1, <3>2
  <2> QED BY <2>1, <2>2, <1>3, <1>5 DEF Types
<1>9. Placed'
  BY <1>2, <1>3, <1>6 DEF Placed, Scripts
<1>10. Reported'
  BY <1>1, <1>3, <1>5, <1>7 DEF Reported, Resting, app
<1>11. JobsOK'
  BY <1>1, <1>2, <1>5, <1>6, <1>7 DEF JobsOK, Live
<1>12. WakesOK'
  <2> SUFFICES ASSUME NEW u \in Live' \ nudged, u # t PROVE Until(wake[u], u)'
    BY <1>1, <1>3 DEF WakesOK
  <2>1. u \in Live \ nudged /\ S(u)' = S(u)
    BY <1>5, <1>6
  <2> QED BY <1>1, <1>7, <2>1 DEF Until, app
<1>13. ListsOK'
  <2>1. ASSUME NEW u \in Live' PROVE OfOne(S(u)'.pending, S(u)'.origin)
    <3>1. CASE u = t
      BY <3>1, <1>2, <1>5, <1>6 DEF OfOne
    <3>2. CASE u # t
      BY <3>2, <1>5, <1>6 DEF IInv, ListsOK
    <3> QED BY <3>1, <3>2
  <2> QED BY <2>1, <1>3 DEF ListsOK
<1>14. KnowsOK'
  <2> SUFFICES ASSUME ~ relayed PROVE AllHear'
    BY <1>1 DEF KnowsOK
  <2>1. ASSUME NEW u \in Live' PROVE S(u)'.pending = <<>> /\ Knows(u)'
    <3>1. CASE u = t
      BY <3>1, <1>2, <1>5, <1>6 DEF Knows
    <3>2. CASE u # t
      BY <3>2, <1>5, <1>6, <1>7 DEF Knows
    <3> QED BY <3>1, <3>2
  <2> QED BY <2>1, <1>3 DEF AllHear, Latest
<1> QED BY <1>8, <1>9, <1>10, <1>11, <1>12, <1>13, <1>14 DEF IInv

LEMMA CloseTabSafe == ASSUME NEW t \in Tabs PROVE IInv /\ CloseTab(t) => IInv'
BY NavigateSafe DEF CloseTab, Navigate

\* A message to a tab that does not change the memory itself
LEMMA StartStep ==
  ASSUME IInv, NEW t \in Live, NEW kind \in Kinds, NEW at \in {"script", "tick"},
         run.at = "idle", Begin(t, kind, at), messages' \in 0 .. MaxMessages,
         UNCHANGED <<mem, now, app, ghosts, ops>>
  PROVE  IInv'
<1>1. /\ run' \in Run /\ run'.at = at /\ run'.tab = t /\ run'.in = t
      /\ run'.back = "idle" /\ run'.changes = <<>> /\ run'.todo = <<>> /\ run'.left = {}
      /\ run'.began = now /\ ~ Firing'
  BY BeginIs DEF IInv, Stages, Live
<1>2. t \in Tabs /\ Live' = Live /\ \A u \in Live : S(u)' = S(u)
  BY DEF Live, S
<1>3. /\ ~ mem.dirty /\ copy = mem.store
      /\ \A u \in Live \ aborted : S(u).jobs = 0
      /\ \A u \in Live \ nudged : Until(wake[u], u)
      /\ ~ relayed => \A u \in Live : Knows(u) /\ S(u).pending = <<>>
  BY RestIs
<1>4. Types'
  <2>1. TypeOK'
    BY <1>1 DEF IInv, Types, TypeOK, Run, app, ghosts
  <2> QED BY <2>1, <1>1, <1>2 DEF IInv, Types
<1>5. Placed'
  BY <1>1, <1>2 DEF Placed, Scripts
<1>6. Reported'
  BY <1>1, <1>3 DEF Reported, Resting, app
<1>7. JobsOK'
  BY <1>2, <1>3 DEF JobsOK, ghosts
<1>8. WakesOK'
  BY <1>1, <1>2, <1>3 DEF WakesOK, Until, app, ghosts
<1>9. ListsOK'
  BY <1>1, <1>2 DEF IInv, ListsOK
<1>10. KnowsOK'
  BY <1>1, <1>2, <1>3 DEF KnowsOK, AllHear, Latest, Knows, ghosts
<1> QED BY <1>4, <1>5, <1>6, <1>7, <1>8, <1>9, <1>10 DEF IInv

LEMMA InteractSafe == ASSUME NEW t \in Tabs PROVE IInv /\ Interact(t) => IInv'
<1> SUFFICES ASSUME IInv, Interact(t) PROVE IInv'
  OBVIOUS
<1>1. messages' \in 0 .. MaxMessages
  BY ConstantsAssumption DEF Interact, Send, IInv, Types, TypeOK
<1>2. PICK kind \in {"event", "eval"} : Begin(t, kind, "script")
  BY DEF Interact
<1> QED BY <1>1, <1>2, StartStep DEF Interact, Kinds

LEMMA TickSafe == ASSUME NEW t \in Tabs PROVE IInv /\ Tick(t) => IInv'
<1> SUFFICES ASSUME IInv, Tick(t) PROVE IInv'
  OBVIOUS
<1>1. messages' \in 0 .. MaxMessages
  BY DEF Tick, IInv, Types, TypeOK
<1> QED BY <1>1, StartStep DEF Tick, Kinds

LEMMA PassesSafe == IInv /\ Passes => IInv'
<1> SUFFICES ASSUME IInv, Passes PROVE IInv'
  OBVIOUS
<1>1. /\ UNCHANGED <<mem, run, app, ghosts, ops, messages>> /\ now' = now + 1 /\ now \in Nat
      /\ now' \in 0 .. MaxTime
  BY ConstantsAssumption DEF Passes, IInv, Types, TypeOK
<1>2. Live' = Live /\ Firing' = Firing /\ ~ Firing /\ \A t \in Live : S(t)' = S(t)
  BY <1>1 DEF Live, S, Firing, Passes, IInv, Placed
<1>3. Types'
  <2>1. TypeOK'
    BY <1>1 DEF IInv, Types, TypeOK, app, ghosts
  <2> QED BY <2>1, <1>1, <1>2 DEF IInv, Types
<1>4. Placed'
  BY <1>1, <1>2 DEF IInv, Placed
<1>5. Reported' /\ JobsOK' /\ ListsOK'
  BY <1>1, <1>2 DEF IInv, Reported, Resting, JobsOK, ListsOK, app, ghosts
<1>6. WakesOK'
  <2>1. ASSUME NEW t \in Live \ nudged, t # run.tab, NEW i \in DOMAIN S(t).timers
        PROVE  wake[t] # NoWake /\ wake[t] <= Max({S(t).timers[i].at, now + 1})
    <3>1. PICK a : a = S(t).timers[i].at
      OBVIOUS
    <3>2. a \in Nat /\ wake[t] # NoWake /\ wake[t] <= Max({a, now})
      BY <2>1, <3>1, TimerIs DEF IInv, WakesOK, Until
    <3>3. wake[t] \in Delays
      BY <3>2 DEF IInv, Types, TypeOK, Live
    <3>4. wake[t] \in Int
      BY <3>3, ConstantsAssumption DEF Delays
    <3>5. wake[t] <= Max({a, now + 1})
      BY <1>1, <3>2, <3>4, TwoMax
    <3> QED BY <3>1, <3>2, <3>5
  <2> QED BY <2>1, <1>1, <1>2 DEF WakesOK, Until, app, ghosts
<1>7. KnowsOK'
  BY <1>1, <1>2 DEF IInv, KnowsOK, AllHear, Knows, Latest, WillHear, ghosts
<1> QED BY <1>3, <1>4, <1>5, <1>6, <1>7 DEF IInv

-----------------------------------------------------------------------------
(* Theorems                                                                *)

LEMMA InitIInv == Init => IInv
<1> SUFFICES ASSUME Init PROVE IInv
  OBVIOUS
<1>1. /\ run \in Run /\ run = Idle /\ run.at = "idle" /\ run.kind = "none" /\ run.tab = NoTab
      /\ run.in = NoTab /\ run.back = "idle" /\ run.changes = <<>> /\ run.todo = <<>> /\ run.left = {}
      /\ run.wait = NoWake /\ run.began = 0 /\ ~ Firing
  <2>1. <<>> \in Seq(Change)
    OBVIOUS
  <2> QED BY <2>1 DEF Init, Idle, Run, Stages, Kinds, Firing
<1>2. mem \in Mem /\ Live = {} /\ mem.dirty = FALSE /\ copy = mem.store
  BY DEF Init, Mem, Live, Item
<1>3. TypeOK
  <2>1. /\ run.at \in Stages /\ run.kind \in Kinds /\ run.back \in Stages
        /\ run.tab \in Tabs \cup {NoTab} /\ run.in \in Tabs \cup {NoTab}
        /\ run.changes \in Seq(Change) /\ run.todo \in Seq(Change) /\ run.left \subseteq Tabs
        /\ run.wait \in Delays \cup {NoWake}
    BY <1>1 DEF Run
  <2>2. /\ run.began \in 0 .. now /\ now \in 0 .. MaxTime /\ ops \in 0 .. MaxOps
        /\ messages \in 0 .. MaxMessages
    BY <1>1, ConstantsAssumption DEF Init
  <2>3. copy \in [Origins -> Item] /\ wake \in [Tabs -> Delays \cup {NoWake}]
    BY DEF Init, Item
  <2>4. /\ mem.store \in [Origins -> Item] /\ mem.dirty \in BOOLEAN
        /\ mem.session \in [Tabs -> Session \cup {NoSession}]
    BY <1>2 DEF Mem
  <2>5. relayed \in BOOLEAN /\ nudged \subseteq Tabs /\ aborted \subseteq Tabs
    BY DEF Init
  <2> QED BY <2>1, <2>2, <2>3, <2>4, <2>5 DEF TypeOK
<1>4. Types /\ Placed /\ Reported /\ JobsOK /\ WakesOK /\ ListsOK
  BY <1>1, <1>2, <1>3 DEF Types, Placed, Reported, JobsOK, WakesOK, ListsOK, Scripts
<1>5. KnowsOK
  BY <1>1, <1>2 DEF KnowsOK, AllHear, Latest
<1> QED BY <1>4, <1>5 DEF IInv

LEMMA NextIInv == IInv /\ [Next]_vars => IInv'
<1> SUFFICES ASSUME IInv, [Next]_vars PROVE IInv'
  OBVIOUS
<1>1. CASE Message
  BY <1>1, NavigateSafe, CloseTabSafe, InteractSafe, TickSafe DEF Message
<1>2. CASE Handle
  BY <1>2, ScriptSafe, ScriptEndsSafe, DispatchFailsSafe, RunTimerSafe, TimersEndSafe, RunJobSafe,
     JobsEndSafe, DrainSafe, NextTabSafe, SkipSafe, FireSafe, ReplySafe DEF Handle
<1>3. CASE Passes
  BY <1>3, PassesSafe
<1>4. CASE UNCHANGED vars
  <2>1. UNCHANGED <<mem, run, now, copy, wake, relayed, nudged, aborted, ops, messages>>
    BY <1>4 DEF vars, app, ghosts
  <2>2. Types' /\ Placed'
    BY <2>1 DEF IInv, Types, TypeOK, Placed, Live, S, Firing
  <2>3. Reported' /\ JobsOK'
    BY <2>1 DEF IInv, Reported, Resting, JobsOK, Live, S
  <2>4. WakesOK'
    BY <2>1 DEF IInv, WakesOK, Until, Live, S, Firing
  <2>5. ListsOK'
    BY <2>1 DEF IInv, ListsOK, Live, S
  <2>6. KnowsOK'
    BY <2>1 DEF IInv, KnowsOK, AllHear, Knows, Latest, WillHear, Live, S, Firing
  <2> QED BY <2>2, <2>3, <2>4, <2>5, <2>6 DEF IInv
<1> QED BY <1>1, <1>2, <1>3, <1>4 DEF Next

\* The invariant holds in every state: who runs and what is on its way at each
\* stage of handle_message, what each page knows or will hear of the store, and
\* what the app and the reply on its way know of it and of the timers.
THEOREM Invariant == Spec => []IInv
<1>1. Init => IInv
  BY InitIInv
<1>2. IInv /\ [Next]_vars => IInv'
  BY NextIInv
<1> QED BY <1>1, <1>2, PTL DEF Spec

\* The types of the process, of handle_message and of the app's copies.
THEOREM TypeCorrect == Spec => []TypeOK
<1>1. IInv => TypeOK
  BY DEF IInv, Types
<1> QED BY <1>1, Invariant, PTL

\* After every message the pages of an origin know its store, as long as no
\* storage handler changed it (dispatch_pending_storage_events).
THEOREM PagesKnow == Spec => []PagesKnowStore
<1>1. IInv => PagesKnowStore
  BY RestIs DEF PagesKnowStore, Resting, Knows
<1> QED BY <1>1, Invariant, PTL

\* After every message the app's copy is the store, whoever changed it last
\* (reported_local_storage_if_changed).
THEOREM ReportsComplete == Spec => []ReportsAreComplete
<1>1. IInv => ReportsAreComplete
  BY RestIs DEF ReportsAreComplete, Resting
<1> QED BY <1>1, Invariant, PTL

\* Between messages a wake is known for every timer and no promise job is left,
\* for any number of tabs and timers (next_wake_in_millis, run_jobs).
THEOREM NothingLeft == Spec => []NothingIsLeftWaiting
<1>1. ASSUME IInv, Resting PROVE TimersAreAwaited /\ JobsAreDone
  <2>1. /\ \A t \in Live \ aborted : S(t).jobs = 0
        /\ \A t \in Live \ nudged : Until(wake[t], t)
    BY <1>1, RestIs DEF Resting
  <2>2. ASSUME NEW t \in Live \ nudged, NEW x \in ToSet(S(t).timers)
        PROVE  wake[t] # NoWake /\ wake[t] <= Max({x.at, now})
    BY <2>1, <2>2 DEF Until, ToSet
  <2> QED BY <2>1, <2>2 DEF TimersAreAwaited, JobsAreDone
<1>2. IInv => NothingIsLeftWaiting
  BY <1>1 DEF NothingIsLeftWaiting, TimersAreAwaited, JobsAreDone
<1> QED BY <1>2, Invariant, PTL
=============================================================================
