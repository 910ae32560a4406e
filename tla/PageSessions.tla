---------------------------- MODULE PageSessions ----------------------------
(***************************************************************************)
(* Inside a renderer process: the sessions of several tabs share one        *)
(* localStorage. A message to a tab runs scripts of its session, or its due *)
(* timers; what they changed in the store is then announced to the other    *)
(* sessions of the origin, whose handlers are scripts too; and the reply     *)
(* tells the app what the store now holds and when the tab's next timer is  *)
(* due. One message is handled at a time.                                   *)
(***************************************************************************)
EXTENDS Integers, FiniteSetsExt, SequencesExt

CONSTANTS
  Tabs, Origins,
  Values,      \* what pages store
  MaxDelay,    \* bound: the longest setTimeout
  MaxTime,     \* bound: the clock
  MaxOps,      \* bound: what scripts do
  MaxMessages, \* bound: messages other than Tick
  Absent,      \* nothing stored
  NoSession, NoTab, NoWake

ASSUME ConstantsAssumption ==
  /\ Absent \notin Values /\ NoTab \notin Tabs /\ NoWake \notin Nat
  /\ MaxDelay \in Nat /\ MaxTime \in Nat /\ MaxOps \in Nat /\ MaxMessages \in Nat

VARIABLES
  mem,     \* the process: local_storage, whether it changed since it was reported, tabs
  run,     \* where handle_message is
  now,     \* the clock
  copy,    \* the app: the store as last reported
  wake,    \* the app: next_wake_at of each tab
  relayed, \* a storage handler ever changed the store
  nudged,  \* tabs whose timers a storage handler set since their last reply
  aborted, \* tabs an event's dispatch was cut off in
  ops, messages

app    == <<copy, wake>>
ghosts == <<relayed, nudged, aborted>>
vars   == <<mem, run, now, app, ghosts, ops, messages>>

-----------------------------------------------------------------------------
(* Sessions                                                                *)

\* One key; a StorageChange names its new value, Absent for removeItem and clear.
Item   == Values \cup {Absent}
Change == [origin : Origins, value : Item]
Timer  == [id : Nat, at : Nat]

\* knows: what the page's scripts were last told of the store, or did to it.
Session == [origin : Origins, pending : Seq(Change), timers : Seq(Timer), next : Nat,
            jobs : Nat, knows : Item]
ASSUME SessionsAssumption == NoSession \notin Session

Fresh(o) == [origin |-> o, pending |-> <<>>, timers |-> <<>>, next |-> 1, jobs |-> 0,
             knows |-> mem.store[o]]

Live   == {t \in Tabs : mem.session[t] # NoSession}
S(t)   == mem.session[t]

Kinds  == {"load", "event", "eval", "tick", "close", "none"}
Stages == {"idle", "script", "listeners", "tick", "jobs", "tail", "fire"}

\* tab: whom the message is for; in: whose scripts run; back: the stage after
\* run_jobs; todo: changes still to be fired into `in`; left: the other tabs.
Idle == [at |-> "idle", kind |-> "none", tab |-> NoTab, in |-> NoTab, back |-> "idle",
         changes |-> <<>>, todo |-> <<>>, left |-> {}, wait |-> NoWake, began |-> 0]

Delays == 0 .. MaxTime + MaxDelay

TypeOK ==
  /\ mem.store \in [Origins -> Item] /\ mem.dirty \in BOOLEAN
  /\ mem.session \in [Tabs -> Session \cup {NoSession}]
  /\ run.at \in Stages /\ run.kind \in Kinds /\ run.back \in Stages
  /\ run.tab \in Tabs \cup {NoTab} /\ run.in \in Tabs \cup {NoTab}
  /\ run.changes \in Seq(Change) /\ run.todo \in Seq(Change) /\ run.left \subseteq Tabs
  /\ run.wait \in Delays \cup {NoWake} /\ run.began \in 0 .. now
  /\ now \in 0 .. MaxTime
  /\ copy \in [Origins -> Item]
  /\ wake \in [Tabs -> Delays \cup {NoWake}]
  /\ relayed \in BOOLEAN /\ nudged \subseteq Tabs /\ aborted \subseteq Tabs
  /\ ops \in 0 .. MaxOps /\ messages \in 0 .. MaxMessages

-----------------------------------------------------------------------------
(* What a script of session t may do to memory m                           *)

\* Variant: only a key that was there before makes an event.
StoreKnownOnly(m, t, v) ==
  LET o == m.session[t].origin IN
  [m EXCEPT !.store[o] = v, !.dirty = TRUE, !.session[t].knows = v,
            !.session[t].pending = IF m.store[o] \in {v, Absent} THEN @
                                   ELSE Append(@, [origin |-> o, value |-> v])]

\* localStorage: item, and the event for other tabs if it is a change.
Store(m, t, v) ==
  LET o == m.session[t].origin IN
  [m EXCEPT !.store[o] = v,
            !.dirty = TRUE,
            !.session[t].knows = v,
            !.session[t].pending = IF m.store[o] = v THEN @
                                   ELSE Append(@, [origin |-> o, value |-> v])]

\* removeItem and clear change nothing when nothing is stored.
RemoveItem(m, t) ==
  IF m.store[m.session[t].origin] = Absent THEN m ELSE Store(m, t, Absent)

SetTimeout(m, t, d) ==
  [m EXCEPT !.session[t].timers = Append(@, [id |-> m.session[t].next, at |-> now + d]),
            !.session[t].next = @ + 1]

\* Ids are never given twice, so that i is the only timer of its id.
ClearTimeout(m, t, i) == [m EXCEPT !.session[t].timers = RemoveAt(@, i)]

\* A promise was resolved.
Queue(m, t) == [m EXCEPT !.session[t].jobs = @ + 1]

Deeds(m, t) ==
  {Store(m, t, v) : v \in Values} \cup {RemoveItem(m, t), Queue(m, t)}
    \cup {SetTimeout(m, t, d) : d \in 0 .. MaxDelay}
    \cup {ClearTimeout(m, t, i) : i \in DOMAIN m.session[t].timers}

Does(m, t) ==
  /\ ops < MaxOps
  /\ ops' = ops + 1
  /\ mem' \in Deeds(m, t)

\* A callback of session t runs on memory m: it does one thing or nothing.
Runs(m, t) ==
  \/ mem' = m /\ UNCHANGED ops
  \/ Does(m, t)

\* Variant: the newest timer's.
WaitNewest(t) ==
  IF t \notin Live \/ S(t).timers = <<>> THEN NoWake
  ELSE Max({0, Last(S(t).timers).at - now})

\* next_wake_in_millis
Wait(t) ==
  IF t \notin Live \/ S(t).timers = <<>> THEN NoWake
  ELSE Max({0, Min({x.at : x \in ToSet(S(t).timers)}) - now})

-----------------------------------------------------------------------------
(* handle_message: the message itself                                      *)

Begin(t, kind, stage) ==
  run' = [Idle EXCEPT !.at = stage, !.kind = kind, !.tab = t, !.in = t, !.began = now]

Send == messages < MaxMessages /\ messages' = messages + 1

\* Navigate: a new session, whose scripts run; or it fails, and leaves none.
Navigate(t) ==
  /\ run.at = "idle"
  /\ Send
  /\ \/ /\ \E o \in Origins : mem' = [mem EXCEPT !.session[t] = Fresh(o)]
        /\ Begin(t, "load", "script")
     \/ /\ mem' = [mem EXCEPT !.session[t] = NoSession]
        /\ Begin(t, "close", "tail")
  /\ aborted' = aborted \ {t}
  /\ UNCHANGED <<now, app, relayed, nudged, ops>>

CloseTab(t) ==
  /\ run.at = "idle"
  /\ t \in Live
  /\ Send
  /\ mem' = [mem EXCEPT !.session[t] = NoSession]
  /\ Begin(t, "close", "tail")
  /\ aborted' = aborted \ {t}
  /\ UNCHANGED <<now, app, relayed, nudged, ops>>

\* Click, TextInput, ... dispatch events; EvalConsoleExpression runs a script.
Interact(t) ==
  /\ run.at = "idle"
  /\ t \in Live
  /\ Send
  /\ \E kind \in {"event", "eval"} : Begin(t, kind, "script")
  /\ UNCHANGED <<mem, now, app, ghosts, ops>>

\* The app's handle_tick: a wake is due.
Tick(t) ==
  /\ run.at = "idle"
  /\ t \in Live
  /\ wake[t] # NoWake /\ wake[t] <= now
  /\ Begin(t, "tick", "tick")
  /\ UNCHANGED <<mem, now, app, ghosts, ops, messages>>

\* A page's scripts, and then its load listeners; the listeners of one event, and
\* perhaps of another (keydown, then input); or a console expression
Scripts == {"script", "listeners"}

AfterJobs ==
  CASE run.at = "script" /\ run.kind = "load"  -> {"listeners"}
    [] run.at = "script" /\ run.kind = "event" -> {"listeners", "tail"}
    [] OTHER                                   -> {"tail"}

Script ==
  /\ run.at \in Scripts
  /\ Does(mem, run.tab)
  /\ UNCHANGED <<run, now, app, ghosts, messages>>

\* ... each followed by run_jobs
ScriptEnds ==
  /\ run.at \in Scripts
  /\ \E stage \in AfterJobs : run' = [run EXCEPT !.at = "jobs", !.back = stage]
  /\ UNCHANGED <<mem, now, app, ghosts, ops, messages>>

\* A listener exceeded a limit: dispatch_event returns before run_jobs.
DispatchFails ==
  /\ run.at \in Scripts /\ run.kind = "event"
  /\ \E stage \in AfterJobs : run' = [run EXCEPT !.at = stage]
  /\ aborted' = aborted \cup {run.tab}
  /\ UNCHANGED <<mem, now, app, relayed, nudged, ops, messages>>

\* Session::tick: the first timer in the list that is due, by the clock of now
Due(t) == {i \in DOMAIN S(t).timers : S(t).timers[i].at <= now}

RunTimer ==
  LET t == run.tab IN
  /\ run.at = "tick"
  /\ Due(t) # {}
  /\ Runs([mem EXCEPT !.session[t].timers = RemoveAt(@, Min(Due(t)))], t)
  /\ run' = [run EXCEPT !.back = "tail"]
  /\ UNCHANGED <<now, app, ghosts, messages>>

\* ... until none is; run_jobs only if any ran
TimersEnd ==
  /\ run.at = "tick"
  /\ Due(run.tab) = {}
  /\ run' = [run EXCEPT !.at = IF run.back = "tail" THEN "jobs" ELSE "tail"]
  /\ UNCHANGED <<mem, now, app, ghosts, ops, messages>>

\* run_jobs
Firing == run.back = "fire"

RunJob ==
  LET t == run.in
      m == [mem EXCEPT !.session[t].jobs = @ - 1] IN
  /\ run.at = "jobs"
  /\ S(t).jobs > 0
  /\ Runs(m, t)
  /\ relayed' = (relayed \/ (Firing /\ mem'.store # mem.store))
  /\ nudged' = IF Firing /\ mem'.session[t].timers # S(t).timers THEN nudged \cup {t} ELSE nudged
  /\ UNCHANGED <<run, now, app, aborted, messages>>

JobsEnd ==
  /\ run.at = "jobs"
  /\ S(run.in).jobs = 0
  /\ run' = [run EXCEPT !.at = run.back]
  /\ aborted' = aborted \ {run.in}
  /\ UNCHANGED <<mem, now, app, relayed, nudged, ops, messages>>

-----------------------------------------------------------------------------
(* handle_message: its tail                                                *)

\* drain_storage_events of the tab the message was for
Drain ==
  LET t == run.tab IN
  /\ run.at = "tail"
  /\ run' = [run EXCEPT !.at = "fire", !.back = "fire", !.in = NoTab, !.wait = Wait(t),
                        !.changes = IF t \in Live THEN S(t).pending ELSE <<>>,
                        !.left = Live \ {t}]
  /\ mem' = IF t \in Live THEN [mem EXCEPT !.session[t].pending = <<>>] ELSE mem
  /\ UNCHANGED <<now, app, ghosts, ops, messages>>

\* The next of the other tabs, in any order
NextTab(u) ==
  /\ run.at = "fire"
  /\ run.todo = <<>>
  /\ u \in run.left
  /\ run' = [run EXCEPT !.in = u, !.todo = run.changes, !.left = @ \ {u}]
  /\ UNCHANGED <<mem, now, app, ghosts, ops, messages>>

\* A change of another origin does not concern the session.
Concerned == S(run.in).origin = Head(run.todo).origin

Skip ==
  /\ run.at = "fire"
  /\ run.todo # <<>>
  /\ ~ Concerned
  /\ run' = [run EXCEPT !.todo = Tail(@)]
  /\ UNCHANGED <<mem, now, app, ghosts, ops, messages>>

\* fire_storage_event: a handler of another session, and then run_jobs
Fire ==
  LET u == run.in IN
  /\ run.at = "fire"
  /\ run.todo # <<>>
  /\ Concerned
  /\ Runs([mem EXCEPT !.session[u].knows = Head(run.todo).value], u)
  /\ relayed' = (relayed \/ mem'.store # mem.store)
  /\ nudged' = IF mem'.session[u].timers # S(u).timers THEN nudged \cup {u} ELSE nudged
  /\ run' = [run EXCEPT !.at = "jobs", !.todo = Tail(@)]
  /\ UNCHANGED <<now, app, aborted, messages>>

\* Variant: a report names the changes drained from the tab's own session only.
ReportOwn ==
  IF run.changes = <<>> THEN copy
  ELSE [copy EXCEPT ![Last(run.changes).origin] = Last(run.changes).value]

\* reported_local_storage_if_changed
Report == IF mem.dirty THEN mem.store ELSE copy

\* The reply; the app takes the time from before a tick, or from after the answer.
Reply ==
  LET t == run.tab IN
  /\ run.at = "fire"
  /\ run.todo = <<>> /\ run.left = {}
  /\ copy' = Report
  /\ mem' = [mem EXCEPT !.dirty = FALSE]
  /\ wake' = [wake EXCEPT ![t] = IF run.wait = NoWake THEN NoWake
                                 ELSE run.wait + (IF run.kind = "tick" THEN run.began ELSE now)]
  /\ nudged' = nudged \ {t}
  /\ run' = Idle
  /\ UNCHANGED <<now, relayed, aborted, ops, messages>>

\* Time passes while the process waits for messages, and while timers run.
Passes ==
  /\ run.at \in {"idle", "tick"}
  /\ now < MaxTime
  /\ now' = now + 1
  /\ UNCHANGED <<mem, run, app, ghosts, ops, messages>>

-----------------------------------------------------------------------------
Init ==
  /\ mem = [store |-> [o \in Origins |-> Absent], dirty |-> FALSE,
            session |-> [t \in Tabs |-> NoSession]]
  /\ run = Idle
  /\ now = 0
  /\ copy = [o \in Origins |-> Absent]
  /\ wake = [t \in Tabs |-> NoWake]
  /\ relayed = FALSE /\ nudged = {} /\ aborted = {}
  /\ ops = 0 /\ messages = 0

Message == \E t \in Tabs : Navigate(t) \/ CloseTab(t) \/ Interact(t) \/ Tick(t)

Handle ==
  \/ Script \/ ScriptEnds \/ DispatchFails \/ RunTimer \/ TimersEnd \/ RunJob \/ JobsEnd
  \/ Drain \/ (\E u \in Tabs : NextTab(u)) \/ Skip \/ Fire \/ Reply

Next == Message \/ Handle \/ Passes

Spec == Init /\ [][Next]_vars

-----------------------------------------------------------------------------
(* Properties                                                              *)

Resting == run.at = "idle"

\* After every message, all pages of an origin know what the store holds:
\* every change reached every other session of its origin, in order, and no
\* other (dispatch_pending_storage_events). As long as no handler of such an
\* event changes the store itself: those changes wait for the next message to
\* its tab, by when they may be old, and are lost when it is closed.
PagesKnowStore ==
  Resting /\ ~relayed => \A t \in Live : S(t).knows = mem.store[S(t).origin]

\* After every message the app has been told all the store holds, whoever
\* changed it: scripts, timers, jobs, or handlers in other tabs
\* (reported_local_storage_if_changed runs last).
ReportsAreComplete == Resting => copy = mem.store

\* The app knows of a wake for every timer, no later than it is due, though
\* only the first is ever told. A storage handler's timers are told with the
\* next reply to its tab, whenever that is.
TimersAreAwaited ==
  Resting =>
    \A t \in Live \ nudged : \A x \in ToSet(S(t).timers) :
      wake[t] # NoWake /\ wake[t] <= Max({x.at, now})

\* No reaction to a promise waits for another message, unless the dispatch of
\* an event was cut off (run_jobs, everywhere scripts can run).
JobsAreDone == Resting => \A t \in Live \ aborted : S(t).jobs = 0

\* Between messages every timer has a wake that will run it, and no reaction to
\* a promise is left for it (next_wake_in_millis, run_jobs).
NothingIsLeftWaiting == TimersAreAwaited /\ JobsAreDone
=============================================================================
