---------------------------- MODULE SyncDevices -----------------------------
(***************************************************************************)
(* The devices of one account, each with its bookmarks, visits and         *)
(* settings in memory and in bookmarks.enc, and the sync servers they push *)
(* to and pull from over a network that loses requests, loses answers and  *)
(* delivers late. A server is what SyncServer implements: a register with  *)
(* a version, here for the one account and the one secret of its devices.  *)
(***************************************************************************)
EXTENDS Integers, FiniteSets

CONSTANTS
  Devices,   \* browsers that share the account
  Bookmarks, \* bookmarked URLs
  Visits,    \* visits of pages: a URL and a time
  VisitedAt, \* the time of each visit, by the clock of its device
  MaxHistory, \* MAX_HISTORY_ENTRIES
  Servers,   \* sync server URLs
  Default,   \* DEFAULT_SYNC_SERVER_URL
  Torn,      \* bookmarks.enc while it is being written
  Attempts,  \* MAX_PUSH_ATTEMPTS
  MaxTime,   \* bound: times a setting can be changed at
  MaxOps,    \* bound: what the users do
  MaxFaults  \* bound: crashes, unreadable answers, requests that arrive late

ASSUME ServersAssumption == Default \in Servers
ASSUME HistoryAssumption ==
  /\ Bookmarks \cap Visits = {} /\ VisitedAt \in [Visits -> Nat]
  /\ MaxHistory \in Nat \ {0}
ASSUME BoundsAssumption ==
  /\ Attempts \in Nat \ {0} /\ MaxTime \in Nat /\ MaxOps \in Nat
  /\ MaxFaults \in Nat

VARIABLES
  dev,       \* each device
  server,    \* each server's version and payload
  late,      \* pushes that their sender gave up on and that may still arrive
  removed,   \* items some user ever removed
  pruned,    \* visits some device ever dropped because its history was full
  stored,    \* items each server ever stored
  garbled,   \* an answer could not be decrypted or parsed
  blind,     \* a push ever replaced a payload its sender had not merged
  ops,
  faults

ghosts == <<removed, pruned, stored, garbled, blind>>
vars == <<dev, server, late, ghosts, ops, faults>>

-----------------------------------------------------------------------------
(* SyncPayload. Bookmarks and history are sets here: the order of the lists *)
(* and the copies of one URL are SyncPayload's business; where the order    *)
(* says which visit goes first, any visit it may put first can go. Of the   *)
(* settings, the only one that sync itself reads is the server's URL.       *)

Items   == Bookmarks \cup Visits
Payload == [items : SUBSET Items, url : Servers, at : 0 .. MaxTime]
NewPayload == [items |-> {}, url |-> Default, at |-> 0]

\* The visits among items, and what of them a payload `after` lacks because they
\* were too many.
History(items) == items \cap Visits
IsFull(items)  == Cardinality(History(items)) > MaxHistory
Pruned(items, after) == IF IsFull(items) THEN History(items) \ after ELSE {}

\* What the cap leaves of a history sorted by time: its newest visits. Among visits
\* of one second the lists decide.
Newest(items) ==
  IF ~IsFull(items) THEN {items}
  ELSE {items \ old : old \in {S \in SUBSET History(items) :
          /\ Cardinality(S) = Cardinality(History(items)) - MaxHistory
          /\ \A h \in S, k \in History(items) \ S : VisitedAt[h] <= VisitedAt[k]}}

\* Variant: the conflict is settled for the device.
TakeOwn(p, q) == {p}

\* SyncPayload::merge
Merge(p, q) ==
  {[items |-> kept,
    url   |-> IF q.at > p.at THEN q.url ELSE p.url,
    at    |-> IF q.at > p.at THEN q.at ELSE p.at] : kept \in Newest(p.items \cup q.items)}

\* SyncPayload::record_visit drops the front of its list, which is sorted up to the
\* last merge and in the order of the visits after it.
WithVisit(p, i) ==
  LET all == p.items \cup {i} IN
  {[p EXCEPT !.items = kept] :
     kept \in IF IsFull(all) THEN {all \ {h} : h \in History(p.items)} ELSE {all}}

\* Which blob of which server was last merged into, or made from, a payload.
NoBase == [on |-> Default, ver |-> 0]
Base   == [on : Servers, ver : Nat]

\* A device. pc is where its UI thread is: in sync_push ("push", "repull"), in
\* sync_pull ("pull"), in save_bookmarks ("save", "saving"), or back in the
\* event loop; next is where it goes from save_bookmarks.
Pcs == {"off", "idle", "pull", "save", "saving", "push", "repull"}
Device ==
  [pc : Pcs, next : {"idle", "start", "push"}, to : Servers, left : 0 .. Attempts,
   local : Payload, disk : Payload \cup {Torn}, ver : Nat, base : Base]
NewDevice ==
  [pc |-> "idle", next |-> "idle", to |-> Default, left |-> 0,
   local |-> NewPayload, disk |-> NewPayload, ver |-> 0, base |-> NoBase]

Message == [to : Servers, ver : Nat, load : Payload, base : Base]

TypeOK ==
  /\ dev \in [Devices -> Device]
  /\ server \in [Servers -> [ver : Nat, load : Payload]]
  /\ late \subseteq Message
  /\ removed \subseteq Items /\ pruned \subseteq Visits
  /\ stored \in [Servers -> SUBSET Items]
  /\ garbled \in BOOLEAN /\ blind \in BOOLEAN
  /\ ops \in Nat /\ faults \in Nat

-----------------------------------------------------------------------------
(* What the user does                                                      *)

UserAt(d) == /\ dev[d].pc = "idle"
             /\ ops < MaxOps
             /\ ops' = ops + 1

\* save_bookmarks next, then `then`.
SaveThen(d, p, then) ==
  dev' = [dev EXCEPT ![d].local = p, ![d].pc = "save", ![d].next = then]

\* bookmark_current_page
Bookmark(d, i) ==
  /\ UserAt(d)
  /\ SaveThen(d, [dev[d].local EXCEPT !.items = @ \cup {i}], "start")
  /\ UNCHANGED <<server, late, ghosts, faults>>

\* apply_navigation_outcome records a visit and saves it, without a push. Two visits
\* of a URL in one second are one here.
Visit(d, i) ==
  LET mine == dev[d].local IN
  /\ UserAt(d)
  /\ i \notin mine.items
  /\ \E p \in WithVisit(mine, i) :
       /\ SaveThen(d, p, "idle")
       /\ pruned' = pruned \cup Pruned(mine.items \cup {i}, p.items)
  /\ UNCHANGED <<server, late, removed, stored, garbled, blind, faults>>

\* toggle_bookmark_current_page of a bookmarked page; history:clear
Remove(d, S) ==
  /\ UserAt(d)
  /\ SaveThen(d, [dev[d].local EXCEPT !.items = @ \ S], "start")
  /\ removed' = removed \cup (S \cap dev[d].local.items)
  /\ UNCHANGED <<server, late, pruned, stored, garbled, blind, faults>>

\* apply_setting of the sync server's URL; clocks of devices need not agree.
SetServer(d, s, t) ==
  /\ UserAt(d)
  /\ SaveThen(d, [dev[d].local EXCEPT !.url = s, !.at = t], "start")
  /\ UNCHANGED <<server, late, ghosts, faults>>

\* The account page's "sync now"
SyncNow(d) ==
  /\ UserAt(d)
  /\ dev' = [dev EXCEPT ![d].pc = "pull"]
  /\ UNCHANGED <<server, late, ghosts, faults>>

-----------------------------------------------------------------------------
(* bookmarks.enc                                                           *)

\* write_secret_file truncates the file ...
OpenDisk(d) ==
  /\ dev[d].pc = "save"
  /\ dev' = [dev EXCEPT ![d].disk = Torn, ![d].pc = "saving"]
  /\ UNCHANGED <<server, late, ghosts, ops, faults>>

\* sync_push starts: the URL is read once, for all attempts.
StartPush(x) == [x EXCEPT !.pc = "push", !.to = x.local.url, !.left = Attempts]

\* ... and writes it; then the handler goes on.
WriteDisk(d) ==
  /\ dev[d].pc = "saving"
  /\ LET x == [dev[d] EXCEPT !.disk = dev[d].local] IN
     dev' = [dev EXCEPT ![d] =
               IF x.next = "start" THEN StartPush(x) ELSE [x EXCEPT !.pc = x.next]]
  /\ UNCHANGED <<server, late, ghosts, ops, faults>>

\* The browser dies; started again, load_or_init_bookmarks takes a file it
\* cannot decrypt for an empty one, sync_version is 0, and sync_pull runs.
Crash(d) ==
  /\ dev[d].pc # "off"
  /\ faults < MaxFaults
  /\ faults' = faults + 1
  /\ dev' = [dev EXCEPT ![d].pc = "off"]
  /\ UNCHANGED <<server, late, ghosts, ops>>
Restart(d) ==
  /\ dev[d].pc = "off"
  /\ dev' = [dev EXCEPT ![d] =
               [NewDevice EXCEPT !.pc = "pull",
                                 !.local = IF dev[d].disk = Torn THEN NewPayload ELSE dev[d].disk,
                                 !.disk = dev[d].disk]]
  /\ UNCHANGED <<server, late, ghosts, ops, faults>>

-----------------------------------------------------------------------------
(* sync_push                                                               *)

\* Variant of FileSyncServer::push: only versions ahead of its own are refused.
NotAhead(m) == m.ver <= server[m.to].ver

\* FileSyncServer::push stores m: its version is the current one.
Current(m) == m.ver = server[m.to].ver

\* m replaces a payload that its sender has not merged.
Replaces(m) ==
  /\ server[m.to].ver # 0
  /\ m.base # [on |-> m.to, ver |-> server[m.to].ver]

Store(m) ==
  /\ Current(m)
  /\ server' = [server EXCEPT ![m.to] = [ver |-> @.ver + 1, load |-> m.load]]
  /\ stored' = [stored EXCEPT ![m.to] = @ \cup m.load.items]
  /\ blind' = (blind \/ Replaces(m))
  /\ UNCHANGED <<removed, pruned, garbled>>

\* What device d sends.
Sent(d) == [to |-> dev[d].to, ver |-> dev[d].ver, load |-> dev[d].local, base |-> dev[d].base]

Pushing(d) == dev[d].pc = "push" /\ dev[d].left > 0

\* Ok(new_version)
PushStored(d) ==
  LET v == server[dev[d].to].ver + 1 IN
  /\ Pushing(d)
  /\ Store(Sent(d))
  /\ dev' = [dev EXCEPT ![d].pc = "idle", ![d].ver = v, ![d].base = [on |-> dev[d].to, ver |-> v]]
  /\ UNCHANGED <<late, ops, faults>>

\* It was stored, but the answer is lost.
PushAnswerLost(d) ==
  /\ Pushing(d)
  /\ Store(Sent(d))
  /\ dev' = [dev EXCEPT ![d].pc = "idle"]
  /\ UNCHANGED <<late, ops, faults>>

\* Err(Conflict)
PushRefused(d) ==
  /\ Pushing(d)
  /\ ~Current(Sent(d))
  /\ dev' = [dev EXCEPT ![d].pc = "repull", ![d].left = @ - 1]
  /\ UNCHANGED <<server, late, ghosts, ops, faults>>

\* Err(Transport): the request is lost ...
PushFails(d) ==
  /\ Pushing(d)
  /\ dev' = [dev EXCEPT ![d].pc = "idle"]
  /\ UNCHANGED <<server, late, ghosts, ops, faults>>

\* ... or timed out, and still under way.
PushTimesOut(d) ==
  /\ Pushing(d)
  /\ faults < MaxFaults
  /\ faults' = faults + 1
  /\ late' = late \cup {Sent(d)}
  /\ dev' = [dev EXCEPT ![d].pc = "idle"]
  /\ UNCHANGED <<server, ghosts, ops>>

LateArrives(m) ==
  /\ late' = late \ {m}
  /\ \/ Store(m)
     \/ ~Current(m) /\ UNCHANGED <<server, ghosts>>
  /\ UNCHANGED <<dev, ops, faults>>

PushGivesUp(d) ==
  /\ dev[d].pc = "push"
  /\ dev[d].left = 0
  /\ dev' = [dev EXCEPT ![d].pc = "idle"]
  /\ UNCHANGED <<server, late, ghosts, ops, faults>>

-----------------------------------------------------------------------------
(* Pulls: after a conflict, at startup and by hand                         *)

Source(d) == IF dev[d].pc = "repull" THEN dev[d].to ELSE dev[d].local.url

\* The device takes the version, and base if it can read the payload too.
Merged(d, p) ==
  [dev[d] EXCEPT !.ver = server[Source(d)].ver, !.local = p, !.pc = "save",
                 !.base = [on |-> Source(d), ver |-> server[Source(d)].ver]]

\* Device d takes p, made of its own payload and the one it pulled, and goes on from
\* save_bookmarks.
PulledBy(d) == Merge(dev[d].local, server[Source(d)].load)
Takes(d, p, next) ==
  /\ server[Source(d)].ver # 0
  /\ dev' = [dev EXCEPT ![d] = [Merged(d, p) EXCEPT !.next = next]]
  /\ pruned' = pruned \cup Pruned(dev[d].local.items \cup server[Source(d)].load.items, p.items)
  /\ UNCHANGED <<server, late, removed, stored, garbled, blind, ops, faults>>

\* A conflict: merge, save, and push again.
Repull(d) ==
  /\ dev[d].pc = "repull"
  /\ \E p \in PulledBy(d) : Takes(d, p, "push")

\* sync_pull: what it merged is pushed back if it differs from what it got --
\* and it may differ in the order of its lists alone.
Pull(d, reordered) ==
  /\ dev[d].pc = "pull"
  /\ \E p \in PulledBy(d) :
       Takes(d, p, IF p # server[Source(d)].load \/ reordered THEN "start" ELSE "idle")

\* The payload does not decrypt or does not parse; its version is kept.
PullGarbled(d) ==
  /\ dev[d].pc \in {"repull", "pull"}
  /\ server[Source(d)].ver # 0
  /\ faults < MaxFaults
  /\ faults' = faults + 1
  /\ garbled' = TRUE
  /\ dev' = [dev EXCEPT ![d].pc = "idle", ![d].ver = server[Source(d)].ver]
  /\ UNCHANGED <<server, late, removed, pruned, stored, blind, ops>>

\* The server is out of reach, or knows no such account.
PullFails(d) ==
  /\ dev[d].pc \in {"repull", "pull"}
  /\ dev' = [dev EXCEPT ![d].pc = "idle"]
  /\ UNCHANGED <<server, late, ghosts, ops, faults>>

-----------------------------------------------------------------------------
Init ==
  /\ dev = [d \in Devices |-> NewDevice]
  /\ server = [s \in Servers |-> [ver |-> 0, load |-> NewPayload]]
  /\ late = {}
  /\ removed = {} /\ pruned = {}
  /\ stored = [s \in Servers |-> {}]
  /\ garbled = FALSE /\ blind = FALSE
  /\ ops = 0 /\ faults = 0

User(d) ==
  \/ \E i \in Bookmarks : Bookmark(d, i)
  \/ \E i \in Visits : Visit(d, i)
  \/ \E i \in dev[d].local.items \cap Bookmarks : Remove(d, {i})
  \/ Remove(d, Visits)
  \/ \E s \in Servers, t \in 0 .. MaxTime : SetServer(d, s, t)
  \/ SyncNow(d)

Step(d) ==
  \/ OpenDisk(d) \/ WriteDisk(d)
  \/ PushStored(d) \/ PushAnswerLost(d) \/ PushRefused(d) \/ PushFails(d) \/ PushTimesOut(d)
  \/ PushGivesUp(d)
  \/ Repull(d) \/ PullGarbled(d) \/ PullFails(d)
  \/ \E reordered \in BOOLEAN : Pull(d, reordered)

Next ==
  \/ \E d \in Devices : User(d) \/ Step(d) \/ Crash(d) \/ Restart(d)
  \/ \E m \in late : LateArrives(m)

Spec == Init /\ [][Next]_vars

-----------------------------------------------------------------------------
(* Properties                                                              *)

\* A push never replaces a payload its device has not merged into its own --
\* "refuse a stale push instead of silently letting it clobber newer data" --
\* whatever is lost, late or restarted, as long as every answer can be read.
NoBlindOverwrite == ~garbled => ~blind

\* What a server once stored it keeps, until some user removes it or a device whose
\* history is full drops it as one of its oldest visits: no device's push, retry,
\* late request or restart loses another device's additions
\* (SyncPayload::merge and record_visit, sync_push, sync_pull).
StoredSurvives ==
  ~garbled =>
    \A s \in Servers : stored[s] \ (removed \cup pruned) \subseteq server[s].load.items
=============================================================================
