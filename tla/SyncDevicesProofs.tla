-------------------------- MODULE SyncDevicesProofs --------------------------
(***************************************************************************)
(* Theorems about SyncDevices with one sync server, for any devices and    *)
(* any number of attempts, faults and things users do: types; that no push *)
(* replaces what its device has not merged; and that what was once stored  *)
(* stays until somebody removes it, visits until a full history drops them. *)
(* With two servers the first is false.                                     *)
(***************************************************************************)
EXTENDS SyncDevices, TLAPS

OneServer == Servers = {Default}

-----------------------------------------------------------------------------
(* The inductive invariant                                                 *)

\* What is in a state, and in a message, as far as pushes depend on it. The
\* version a device holds is that of the payload it merged last.
KnowsBase(x) ==
  x.base = [on |-> Default, ver |-> x.ver]

\* What need not be there any more: what users removed, and what the cap on the
\* history cost.
Gone == removed \cup pruned

\* A device at the server's version, like a late message at it, has all that was
\* stored and is not gone.
UpToDate(ver, items) ==
  /\ ver <= server[Default].ver
  /\ ver = server[Default].ver => stored[Default] \ Gone \subseteq items

ServerOK ==
  /\ stored[Default] \ Gone \subseteq server[Default].load.items
  /\ server[Default].ver = 0 => stored[Default] = {}
DevicesOK ==
  \A d \in Devices : KnowsBase(dev[d]) /\ UpToDate(dev[d].ver, dev[d].local.items)
LateOK ==
  \A m \in late : KnowsBase(m) /\ UpToDate(m.ver, m.load.items)

MInv == ~garbled => ~blind /\ ServerOK /\ DevicesOK /\ LateOK

IInv == TypeOK /\ MInv

-----------------------------------------------------------------------------
(* Types                                                                   *)

LEMMA NewPayloadType == NewPayload \in Payload
  BY ServersAssumption, BoundsAssumption DEF NewPayload, Payload

LEMMA NewDeviceType == NewDevice \in Device
  BY NewPayloadType, ServersAssumption, BoundsAssumption
     DEF NewDevice, Device, Pcs, NoBase, Base

\* What a merge and a visit make of items: all but the visits the cap cost.
LEMMA NewestKeeps ==
  ASSUME NEW items \in SUBSET Items, NEW kept \in Newest(items)
  PROVE  /\ kept \in SUBSET Items
         /\ items \ Pruned(items, kept) \subseteq kept
<1>1. CASE ~IsFull(items)
  BY <1>1 DEF Newest
<1>2. CASE IsFull(items)
  <2>1. PICK old \in SUBSET History(items) : kept = items \ old
    BY <1>2 DEF Newest
  <2> QED BY <1>2, <2>1 DEF Pruned, History
<1> QED BY <1>1, <1>2

LEMMA MergeKeeps ==
  ASSUME NEW p \in Payload, NEW q \in Payload, NEW r \in Merge(p, q)
  PROVE  /\ r \in Payload
         /\ (p.items \cup q.items) \ Pruned(p.items \cup q.items, r.items) \subseteq r.items
<1>1. PICK all : all = p.items \cup q.items
  OBVIOUS
<1>2. PICK kept \in Newest(all) :
        r = [items |-> kept,
             url   |-> IF q.at > p.at THEN q.url ELSE p.url,
             at    |-> IF q.at > p.at THEN q.at ELSE p.at]
  BY <1>1 DEF Merge
<1>3. all \in SUBSET Items
  BY <1>1 DEF Payload
<1>4. kept \in SUBSET Items /\ all \ Pruned(all, kept) \subseteq kept
  BY <1>3, NewestKeeps
<1>5. r \in Payload
  BY <1>2, <1>4 DEF Payload
<1> QED BY <1>1, <1>2, <1>4, <1>5

LEMMA VisitKeeps ==
  ASSUME NEW p \in Payload, NEW i \in Visits, NEW r \in WithVisit(p, i)
  PROVE  /\ r \in Payload
         /\ p.items \ Pruned(p.items \cup {i}, r.items) \subseteq r.items
<1>1. PICK all : all = p.items \cup {i}
  OBVIOUS
<1>2. PICK kept : /\ r = [p EXCEPT !.items = kept]
                  /\ kept \in IF IsFull(all) THEN {all \ {h} : h \in History(p.items)} ELSE {all}
  BY <1>1 DEF WithVisit
<1>3. all \in SUBSET Items
  BY <1>1 DEF Payload, Items
<1>4. kept \in SUBSET Items /\ all \ Pruned(all, kept) \subseteq kept
  <2>1. CASE ~IsFull(all)
    BY <1>2, <1>3, <2>1
  <2>2. CASE IsFull(all)
    <3>1. PICK h \in History(p.items) : kept = all \ {h}
      BY <1>2, <2>2
    <3> QED BY <1>1, <1>3, <2>2, <3>1 DEF Pruned, History
  <2> QED BY <2>1, <2>2
<1>5. r \in Payload /\ r.items = kept
  BY <1>2, <1>4 DEF Payload
<1> QED BY <1>1, <1>4, <1>5

LEMMA PrunedType ==
  ASSUME NEW items, NEW after PROVE Pruned(items, after) \subseteq Visits
  BY DEF Pruned, History

LEMMA SentType ==
  ASSUME TypeOK, NEW d \in Devices
  PROVE  Sent(d) \in Message
  BY DEF TypeOK, Device, Sent, Message

LEMMA SourceType ==
  ASSUME TypeOK, NEW d \in Devices
  PROVE  Source(d) \in Servers
  BY DEF TypeOK, Device, Source, Payload

\* The parts of a state that steps replace.
DevOK    == dev \in [Devices -> Device]
ServedOK == /\ server \in [Servers -> [ver : Nat, load : Payload]]
            /\ stored \in [Servers -> SUBSET Items]
            /\ blind \in BOOLEAN
RestOK   == /\ late \subseteq Message
            /\ removed \subseteq Items /\ pruned \subseteq Visits /\ garbled \in BOOLEAN
            /\ ops \in Nat /\ faults \in Nat

LEMMA TypeParts == TypeOK <=> DevOK /\ ServedOK /\ RestOK
  BY DEF TypeOK, DevOK, ServedOK, RestOK

LEMMA TypePartsNext == TypeOK' <=> DevOK' /\ ServedOK' /\ RestOK'
  BY TypeParts, PTL

LEMMA InitType == Init => TypeOK
<1> SUFFICES ASSUME Init PROVE TypeOK
  OBVIOUS
<1>1. DevOK
  BY NewDeviceType DEF Init, DevOK
<1>2. ServedOK
  BY NewPayloadType DEF Init, ServedOK
<1>3. RestOK
  BY DEF Init, RestOK
<1> QED BY <1>1, <1>2, <1>3, TypeParts

LEMMA UserType == ASSUME TypeOK, NEW d \in Devices, User(d) PROVE TypeOK'
<1> USE TypeParts
<1>1. dev[d] \in Device /\ ops' \in Nat
  <2>1. UserAt(d)
    BY DEF User, Bookmark, Visit, Remove, SetServer, SyncNow
  <2> QED BY <2>1 DEF DevOK, RestOK, UserAt
<1>2. ASSUME NEW p \in Payload, NEW then \in {"idle", "start"}, SaveThen(d, p, then) PROVE DevOK'
  BY <1>1, <1>2 DEF SaveThen, DevOK, Device, Pcs
<1>3. ASSUME NEW S \in SUBSET Items
      PROVE  /\ [dev[d].local EXCEPT !.items = @ \cup S] \in Payload
             /\ [dev[d].local EXCEPT !.items = @ \ S] \in Payload
  BY <1>1 DEF Device, Payload
<1>4. ASSUME NEW i \in Items, Bookmark(d, i) PROVE TypeOK'
  <2>1. DevOK'
    BY <1>2, <1>3, <1>4 DEF Bookmark
  <2>2. ServedOK' /\ RestOK'
    BY <1>1, <1>4 DEF Bookmark, ServedOK, RestOK, ghosts
  <2> QED BY <2>1, <2>2, TypePartsNext
<1>10. ASSUME NEW i \in Visits, Visit(d, i) PROVE TypeOK'
  <2>1. PICK p \in WithVisit(dev[d].local, i) :
          /\ SaveThen(d, p, "idle")
          /\ pruned' = pruned \cup Pruned(dev[d].local.items \cup {i}, p.items)
    BY <1>10 DEF Visit
  <2>2. p \in Payload
    BY <1>1, VisitKeeps DEF Device
  <2>3. DevOK'
    BY <1>2, <2>1, <2>2
  <2>4. pruned' \subseteq Visits
    BY <2>1, PrunedType DEF RestOK
  <2>5. ServedOK' /\ RestOK'
    BY <1>1, <1>10, <2>4 DEF Visit, ServedOK, RestOK
  <2> QED BY <2>3, <2>5, TypePartsNext
<1>5. ASSUME NEW S \in SUBSET Items, Remove(d, S) PROVE TypeOK'
  <2>1. DevOK'
    BY <1>2, <1>3, <1>5 DEF Remove
  <2>2. ServedOK' /\ RestOK'
    BY <1>1, <1>5 DEF Remove, ServedOK, RestOK
  <2> QED BY <2>1, <2>2, TypePartsNext
<1>6. ASSUME NEW s \in Servers, NEW t \in 0 .. MaxTime, SetServer(d, s, t) PROVE TypeOK'
  <2>1. [dev[d].local EXCEPT !.url = s, !.at = t] \in Payload
    BY <1>1 DEF Device, Payload
  <2>2. DevOK'
    BY <1>2, <1>6, <2>1 DEF SetServer
  <2>3. ServedOK' /\ RestOK'
    BY <1>1, <1>6 DEF SetServer, ServedOK, RestOK, ghosts
  <2> QED BY <2>2, <2>3, TypePartsNext
<1>7. CASE SyncNow(d)
  <2>1. DevOK'
    BY <1>1, <1>7 DEF SyncNow, DevOK, Device, Pcs
  <2>2. ServedOK' /\ RestOK'
    BY <1>1, <1>7 DEF SyncNow, ServedOK, RestOK, ghosts
  <2> QED BY <2>1, <2>2, TypePartsNext
<1>8. Bookmarks \subseteq Items /\ Visits \subseteq Items
  BY DEF Items
<1>9. \A i \in Bookmarks : {i} \in SUBSET Items
  BY <1>8
<1> QED BY <1>4, <1>5, <1>6, <1>7, <1>8, <1>9, <1>10 DEF User

LEMMA DiskType ==
  ASSUME TypeOK, NEW d \in Devices, OpenDisk(d) \/ WriteDisk(d) \/ Crash(d) \/ Restart(d)
  PROVE  TypeOK'
<1> USE TypeParts
<1>1. dev[d] \in Device
  BY DEF DevOK
<1>2. ServedOK' /\ RestOK'
  BY DEF OpenDisk, WriteDisk, Crash, Restart, ServedOK, RestOK, ghosts
<1>3. CASE OpenDisk(d) \/ Crash(d)
  BY <1>1, <1>2, <1>3, TypePartsNext DEF OpenDisk, Crash, DevOK, Device, Pcs
<1>4. CASE WriteDisk(d)
  <2> DEFINE x == [dev[d] EXCEPT !.disk = dev[d].local]
  <2>1. x \in Device
    BY <1>1 DEF Device
  <2> HIDE DEF x
  <2>2. StartPush(x) \in Device
    <3>1. x.local.url \in Servers /\ Attempts \in 0 .. Attempts
      BY <2>1, BoundsAssumption DEF Device, Payload
    <3> QED BY <2>1, <3>1 DEF StartPush, Device, Pcs
  <2>3. x.next # "start" => [x EXCEPT !.pc = x.next] \in Device
    BY <2>1 DEF Device, Pcs
  <2>4. DevOK'
    BY <1>4, <2>2, <2>3 DEF WriteDisk, DevOK, x
  <2> QED BY <1>2, <2>4, TypePartsNext
<1>5. CASE Restart(d)
  <2>1. DevOK'
    BY <1>1, <1>5, NewDeviceType, NewPayloadType DEF Restart, DevOK, Device, Pcs
  <2> QED BY <1>2, <2>1, TypePartsNext
<1> QED BY <1>3, <1>4, <1>5

\* The server's part of a push.
LEMMA StoreType ==
  ASSUME ServedOK, NEW m \in Message, Store(m)
  PROVE  ServedOK' /\ removed' = removed /\ pruned' = pruned /\ garbled' = garbled
<1>1. server[m.to].ver + 1 \in Nat /\ m.load \in Payload /\ m.load.items \in SUBSET Items
  BY DEF ServedOK, Message, Payload
<1>2. blind' \in BOOLEAN
  BY DEF Store, ServedOK
<1>3. server' \in [Servers -> [ver : Nat, load : Payload]] /\ stored' \in [Servers -> SUBSET Items]
  BY <1>1 DEF Store, ServedOK
<1> QED BY <1>2, <1>3 DEF Store, ServedOK

LEMMA PushType ==
  ASSUME TypeOK, NEW d \in Devices,
         PushStored(d) \/ PushAnswerLost(d) \/ PushRefused(d) \/ PushFails(d)
           \/ PushTimesOut(d) \/ PushGivesUp(d)
  PROVE  TypeOK'
<1> USE TypeParts
<1>1. dev[d] \in Device /\ Sent(d) \in Message /\ Sent(d).to = dev[d].to
  BY SentType DEF DevOK, Sent
<1>2. CASE PushStored(d)
  <2>1. ServedOK' /\ RestOK'
    BY <1>1, <1>2, StoreType DEF PushStored, RestOK
  <2>2. server[dev[d].to].ver + 1 \in Nat /\ dev[d].to \in Servers
    BY <1>1 DEF ServedOK, Device
  <2>3. DevOK'
    BY <1>1, <1>2, <2>2 DEF PushStored, DevOK, Device, Pcs, Base
  <2> QED BY <2>1, <2>3, TypePartsNext
<1>3. CASE PushAnswerLost(d)
  <2>1. ServedOK' /\ RestOK'
    BY <1>1, <1>3, StoreType DEF PushAnswerLost, RestOK
  <2>2. DevOK'
    BY <1>1, <1>3 DEF PushAnswerLost, DevOK, Device, Pcs
  <2> QED BY <2>1, <2>2, TypePartsNext
<1>4. CASE PushRefused(d)
  <2>1. dev[d].left - 1 \in 0 .. Attempts
    BY <1>1, <1>4, BoundsAssumption DEF PushRefused, Pushing, Device
  <2>2. DevOK'
    BY <1>1, <1>4, <2>1 DEF PushRefused, DevOK, Device, Pcs
  <2>3. ServedOK' /\ RestOK'
    BY <1>4 DEF PushRefused, ServedOK, RestOK, ghosts
  <2> QED BY <2>2, <2>3, TypePartsNext
<1>5. CASE PushFails(d) \/ PushTimesOut(d) \/ PushGivesUp(d)
  <2>1. DevOK'
    BY <1>1, <1>5 DEF PushFails, PushTimesOut, PushGivesUp, DevOK, Device, Pcs
  <2>2. ServedOK' /\ RestOK'
    BY <1>1, <1>5 DEF PushFails, PushTimesOut, PushGivesUp, ServedOK, RestOK, ghosts
  <2> QED BY <2>1, <2>2, TypePartsNext
<1> QED BY <1>2, <1>3, <1>4, <1>5

LEMMA PullType ==
  ASSUME TypeOK, NEW d \in Devices,
         Repull(d) \/ PullGarbled(d) \/ PullFails(d) \/ \E reordered \in BOOLEAN : Pull(d, reordered)
  PROVE  TypeOK'
<1> USE TypeParts
<1> DEFINE s == server[Source(d)]
<1>1. dev[d] \in Device /\ Source(d) \in Servers /\ s \in [ver : Nat, load : Payload]
  BY SourceType DEF DevOK, ServedOK
<1>2. \A p \in PulledBy(d) : p \in Payload
  BY <1>1, MergeKeeps DEF Device, PulledBy
<1>3. ASSUME NEW p \in Payload, NEW n \in {"idle", "start", "push"}
      PROVE  [Merged(d, p) EXCEPT !.next = n] \in Device
  BY <1>1 DEF Merged, Device, Pcs, Base
<1>4. ASSUME NEW p \in PulledBy(d), NEW n \in {"idle", "start", "push"}, Takes(d, p, n)
      PROVE  TypeOK'
  <2>1. DevOK'
    BY <1>2, <1>3, <1>4 DEF Takes, DevOK
  <2>2. pruned' \subseteq Visits
    BY <1>4, PrunedType DEF Takes, RestOK
  <2>3. ServedOK' /\ RestOK'
    BY <1>4, <2>2 DEF Takes, ServedOK, RestOK
  <2> QED BY <2>1, <2>3, TypePartsNext
<1>5. CASE PullGarbled(d) \/ PullFails(d)
  <2>1. DevOK'
    BY <1>1, <1>5 DEF PullGarbled, PullFails, DevOK, Device, Pcs
  <2>2. CASE PullGarbled(d)
    BY <2>1, <2>2, TypePartsNext DEF PullGarbled, ServedOK, RestOK
  <2>3. CASE PullFails(d)
    BY <2>1, <2>3, TypePartsNext DEF PullFails, ServedOK, RestOK, ghosts
  <2> QED BY <1>5, <2>2, <2>3
<1>6. CASE Repull(d)
  BY <1>4, <1>6 DEF Repull
<1>7. ASSUME NEW reordered \in BOOLEAN, Pull(d, reordered) PROVE TypeOK'
  BY <1>4, <1>7 DEF Pull
<1> QED BY <1>5, <1>6, <1>7

LEMMA LateType == ASSUME TypeOK, NEW m \in late, LateArrives(m) PROVE TypeOK'
<1> USE TypeParts
<1>1. m \in Message
  BY DEF RestOK
<1>2. DevOK' /\ RestOK'
  BY <1>1, StoreType DEF LateArrives, DevOK, RestOK, ghosts
<1>3. ServedOK'
  BY <1>1, StoreType DEF LateArrives, ServedOK, ghosts
<1> QED BY <1>2, <1>3, TypePartsNext

LEMMA NextType == ASSUME TypeOK, [Next]_vars PROVE TypeOK'
<1>1. CASE UNCHANGED vars
  BY <1>1 DEF vars, ghosts, TypeOK
<1> QED BY <1>1, UserType, DiskType, PushType, PullType, LateType DEF Next, Step

\* Devices, servers and messages keep their types.
THEOREM TypeCorrect == Spec => []TypeOK
  BY InitType, NextType, PTL DEF Spec

-----------------------------------------------------------------------------
(* Versions and payloads, with one server                                  *)

LEMMA OnlyServer ==
  ASSUME OneServer, TypeOK
  PROVE  /\ \A d \in Devices : dev[d].to = Default /\ Source(d) = Default
         /\ \A m \in late : m.to = Default
         /\ server[Default].ver \in Nat /\ server[Default].load \in Payload
         /\ \A d \in Devices : dev[d] \in Device
<1>1. \A d \in Devices : dev[d] \in Device /\ Source(d) \in Servers
  BY SourceType DEF TypeOK
<1>2. \A m \in late : m \in Message
  BY DEF TypeOK
<1> QED BY <1>1, <1>2 DEF OneServer, TypeOK, Device, Message

\* A device whose payload may only have grown, or lost what is gone, by a step
\* that leaves the server alone.
LEMMA DeviceSteps ==
  ASSUME MInv, NEW d \in Devices, DOMAIN dev = Devices,
         NEW x, dev' = [dev EXCEPT ![d] = x], KnowsBase(x),
         ~garbled => UpToDate(x.ver, x.local.items)',
         server' = server, stored' = stored, late' = late,
         Gone \subseteq Gone', garbled' = garbled, blind' = blind
  PROVE  MInv'
<1> SUFFICES ASSUME ~garbled PROVE (~blind /\ ServerOK /\ DevicesOK /\ LateOK)'
  BY DEF MInv
<1>1. \A v, I : UpToDate(v, I) => UpToDate(v, I)'
  BY DEF UpToDate
<1>2. DevicesOK'
  <2> SUFFICES ASSUME NEW e \in Devices
               PROVE  (KnowsBase(dev[e]) /\ UpToDate(dev[e].ver, dev[e].local.items))'
    BY DEF DevicesOK
  <2>1. CASE e = d
    BY <2>1 DEF KnowsBase
  <2>2. CASE e # d
    BY <1>1, <2>2 DEF MInv, DevicesOK, KnowsBase
  <2> QED BY <2>1, <2>2
<1>3. ServerOK' /\ LateOK'
  BY <1>1 DEF MInv, ServerOK, LateOK, KnowsBase
<1> QED BY <1>2, <1>3 DEF MInv

\* What a push at the current version does, whoever sends it: it is no blind
\* overwrite, and every device and message is left behind.
LEMMA StoreSteps ==
  ASSUME OneServer, TypeOK, MInv, ~garbled, NEW m, m.to = Default, m.load \in Payload,
         KnowsBase(m), UpToDate(m.ver, m.load.items), Store(m)
  PROVE  /\ ~blind' /\ ServerOK'
         /\ server'[Default].ver = server[Default].ver + 1
         /\ stored'[Default] \ Gone' \subseteq m.load.items
         /\ \A v \in Nat : \A I : UpToDate(v, I) => UpToDate(v, I)'
         /\ garbled' = garbled
<1>1. /\ m.ver = server[Default].ver /\ Gone' = Gone /\ garbled' = garbled
      /\ server'[Default] = [ver |-> server[Default].ver + 1, load |-> m.load]
      /\ stored'[Default] = stored[Default] \cup m.load.items
  BY ServersAssumption DEF Store, Current, TypeOK, Gone
<1>2. stored[Default] \ Gone \subseteq m.load.items
  BY <1>1 DEF UpToDate
<1>3. server[Default].ver \in Nat
  BY OnlyServer
<1>4. ~blind'
  BY <1>1 DEF Store, Replaces, KnowsBase, MInv
<1>5. ServerOK'
  BY <1>1, <1>2, <1>3 DEF ServerOK
<1>6. ASSUME NEW v \in Nat, NEW I, UpToDate(v, I) PROVE UpToDate(v, I)'
  <2>1. v <= server[Default].ver
    BY <1>6 DEF UpToDate
  <2> QED BY <1>1, <1>3, <2>1 DEF UpToDate
<1> QED BY <1>1, <1>2, <1>4, <1>5, <1>6

-----------------------------------------------------------------------------
(* The invariant is kept                                                   *)

LEMMA InitMInv == Init => MInv
<1> SUFFICES ASSUME Init PROVE ServerOK /\ DevicesOK /\ LateOK /\ ~blind
  BY DEF MInv
<1> USE ServersAssumption DEF Init
<1>1. ServerOK /\ LateOK /\ ~blind
  BY DEF ServerOK, LateOK
<1>2. DevicesOK
  <2> SUFFICES ASSUME NEW d \in Devices
               PROVE  KnowsBase(dev[d]) /\ UpToDate(dev[d].ver, dev[d].local.items)
    BY DEF DevicesOK
  <2>1. dev[d].ver = 0 /\ dev[d].base = [on |-> Default, ver |-> 0]
    BY DEF NewDevice, NoBase
  <2>2. server[Default].ver = 0 /\ stored[Default] = {}
    OBVIOUS
  <2> QED BY <2>1, <2>2 DEF KnowsBase, UpToDate
<1> QED BY <1>1, <1>2

LEMMA UserMInv == ASSUME OneServer, TypeOK, MInv, NEW d \in Devices, User(d) PROVE MInv'
<1>1. /\ DOMAIN dev = Devices /\ dev[d] \in Device /\ server' = server /\ stored' = stored
      /\ late' = late /\ garbled' = garbled /\ blind' = blind
  BY OnlyServer DEF TypeOK, User, Bookmark, Visit, Remove, SetServer, SyncNow, ghosts
<1>2. ~garbled => KnowsBase(dev[d]) /\ UpToDate(dev[d].ver, dev[d].local.items)
  BY DEF MInv, DevicesOK
<1>3. garbled => MInv'
  BY <1>1 DEF MInv
<1>4. ASSUME NEW p, NEW then, SaveThen(d, p, then), ~garbled, Gone \subseteq Gone',
             dev[d].local.items \ Gone' \subseteq p.items
      PROVE  MInv'
  <2>1. PICK x : x = [dev[d] EXCEPT !.local = p, !.pc = "save", !.next = then]
    OBVIOUS
  <2>2. /\ x.ver = dev[d].ver /\ x.base = dev[d].base /\ x.local = p
        /\ dev' = [dev EXCEPT ![d] = x]
    BY <1>1, <1>4, <2>1 DEF Device, SaveThen
  <2>3. KnowsBase(x)
    BY <1>2, <1>4, <2>2 DEF KnowsBase
  <2>4. UpToDate(x.ver, x.local.items)'
    BY <1>1, <1>2, <1>4, <2>2 DEF UpToDate
  <2> QED BY <1>1, <1>4, <2>2, <2>3, <2>4, DeviceSteps
<1>5. ASSUME NEW i, Bookmark(d, i), ~garbled PROVE MInv'
  <2>1. PICK p, then : /\ p = [dev[d].local EXCEPT !.items = @ \cup {i}]
                       /\ SaveThen(d, p, then)
    BY <1>5 DEF Bookmark
  <2>2. dev[d].local.items \subseteq p.items /\ Gone' = Gone
    BY <1>1, <1>5, <2>1 DEF Device, Payload, Bookmark, ghosts, Gone
  <2> QED BY <1>4, <1>5, <2>1, <2>2
<1>9. ASSUME NEW i \in Visits, Visit(d, i), ~garbled PROVE MInv'
  <2>1. PICK p \in WithVisit(dev[d].local, i) :
          /\ SaveThen(d, p, "idle")
          /\ pruned' = pruned \cup Pruned(dev[d].local.items \cup {i}, p.items)
    BY <1>9 DEF Visit
  <2>2. removed' = removed
    BY <1>9 DEF Visit
  <2>3. dev[d].local.items \ Pruned(dev[d].local.items \cup {i}, p.items) \subseteq p.items
    BY <1>1, VisitKeeps DEF Device
  <2>4. Gone \subseteq Gone' /\ dev[d].local.items \ Gone' \subseteq p.items
    BY <2>1, <2>2, <2>3 DEF Gone
  <2> QED BY <1>4, <1>9, <2>1, <2>4
<1>6. ASSUME NEW S, Remove(d, S), ~garbled PROVE MInv'
  <2>1. PICK p, then : /\ p = [dev[d].local EXCEPT !.items = @ \ S]
                       /\ SaveThen(d, p, then)
    BY <1>6 DEF Remove
  <2>2. /\ p.items = dev[d].local.items \ S
        /\ removed' = removed \cup (S \cap dev[d].local.items)
    BY <1>1, <1>6, <2>1 DEF Device, Payload, Remove
  <2>3. pruned' = pruned
    BY <1>6 DEF Remove
  <2>4. Gone \subseteq Gone' /\ dev[d].local.items \ Gone' \subseteq p.items
    BY <2>2, <2>3 DEF Gone
  <2> QED BY <1>4, <1>6, <2>1, <2>4
<1>7. ASSUME NEW s, NEW t, SetServer(d, s, t), ~garbled PROVE MInv'
  <2>1. PICK p, then : /\ p = [dev[d].local EXCEPT !.url = s, !.at = t]
                       /\ SaveThen(d, p, then)
    BY <1>7 DEF SetServer
  <2>2. p.items = dev[d].local.items /\ Gone' = Gone
    BY <1>1, <1>7, <2>1 DEF Device, Payload, SetServer, ghosts, Gone
  <2> QED BY <1>4, <1>7, <2>1, <2>2
<1>8. ASSUME SyncNow(d), ~garbled PROVE MInv'
  <2>1. PICK x : x = [dev[d] EXCEPT !.pc = "pull"]
    OBVIOUS
  <2>2. /\ x.ver = dev[d].ver /\ x.base = dev[d].base /\ x.local = dev[d].local
        /\ dev' = [dev EXCEPT ![d] = x] /\ Gone' = Gone
    BY <1>1, <1>8, <2>1 DEF Device, SyncNow, ghosts, Gone
  <2>3. KnowsBase(x) /\ UpToDate(x.ver, x.local.items)'
    BY <1>1, <1>2, <1>8, <2>2 DEF KnowsBase, UpToDate
  <2> QED BY <1>1, <2>2, <2>3, DeviceSteps
<1> QED BY <1>3, <1>5, <1>6, <1>7, <1>8, <1>9 DEF User

\* Steps of a device that change neither its payload nor its version.
LEMMA SameMInv ==
  ASSUME MInv, NEW d \in Devices, DOMAIN dev = Devices, NEW x,
         dev' = [dev EXCEPT ![d] = x], x.ver = dev[d].ver, x.base = dev[d].base,
         x.local = dev[d].local, UNCHANGED <<server, late, ghosts>>
  PROVE  MInv'
<1>0. server' = server /\ late' = late /\ Gone' = Gone /\ stored' = stored
      /\ garbled' = garbled /\ blind' = blind
  BY DEF ghosts, Gone
<1>1. garbled => MInv'
  BY <1>0 DEF MInv
<1>2. ASSUME ~garbled PROVE KnowsBase(x) /\ UpToDate(x.ver, x.local.items)'
  BY <1>0, <1>2 DEF MInv, DevicesOK, KnowsBase, UpToDate
<1> QED BY <1>0, <1>1, <1>2, DeviceSteps

LEMMA StepsMInv ==
  ASSUME OneServer, TypeOK, MInv, NEW d \in Devices,
         OpenDisk(d) \/ WriteDisk(d) \/ Crash(d) \/ PushRefused(d) \/ PushFails(d)
           \/ PushGivesUp(d) \/ PullFails(d)
  PROVE  MInv'
<1>1. DOMAIN dev = Devices /\ dev[d] \in Device /\ UNCHANGED <<server, late, ghosts>>
  BY OnlyServer DEF TypeOK, OpenDisk, WriteDisk, Crash, PushRefused, PushFails, PushGivesUp,
                    PullFails
<1>2. PICK x : /\ dev' = [dev EXCEPT ![d] = x]
               /\ x.ver = dev[d].ver /\ x.base = dev[d].base /\ x.local = dev[d].local
  <2>1. CASE WriteDisk(d)
    <3>1. PICK y : y = [dev[d] EXCEPT !.disk = dev[d].local]
      OBVIOUS
    <3>2. PICK x : x = IF y.next = "start" THEN StartPush(y) ELSE [y EXCEPT !.pc = y.next]
      OBVIOUS
    <3>5. dev' = [dev EXCEPT ![d] = x]
      BY <2>1, <3>1, <3>2 DEF WriteDisk
    <3>3. y.ver = dev[d].ver /\ y.base = dev[d].base /\ y.local = dev[d].local /\ y \in Device
      BY <1>1, <3>1 DEF Device
    <3>4. x.ver = y.ver /\ x.base = y.base /\ x.local = y.local
      BY <3>2, <3>3 DEF StartPush, Device
    <3> QED BY <3>3, <3>4, <3>5
  <2>2. CASE OpenDisk(d)
    BY <1>1, <2>2 DEF OpenDisk, Device
  <2>3. CASE PushRefused(d)
    BY <1>1, <2>3, SMTT(30) DEF PushRefused, Device
  <2>4. CASE Crash(d)
    <3>1. PICK x : x = [dev[d] EXCEPT !.pc = "off"]
      OBVIOUS
    <3>2. x.ver = dev[d].ver /\ x.base = dev[d].base /\ x.local = dev[d].local
      BY <1>1, <3>1 DEF Device
    <3>3. dev' = [dev EXCEPT ![d] = x]
      BY <2>4, <3>1 DEF Crash
    <3> QED BY <3>2, <3>3
  <2>5. CASE PushFails(d) \/ PushGivesUp(d) \/ PullFails(d)
    BY <1>1, <2>5 DEF PushFails, PushGivesUp, PullFails, Device
  <2> QED BY <2>1, <2>2, <2>3, <2>4, <2>5
<1> QED BY <1>1, <1>2, SameMInv

\* A restart forgets the version; a stored payload is then pulled before a push.
LEMMA RestartMInv ==
  ASSUME OneServer, TypeOK, MInv, NEW d \in Devices, Restart(d)
  PROVE  MInv'
<1>1. DOMAIN dev = Devices
  BY DEF TypeOK
<1>2. PICK x : /\ dev' = [dev EXCEPT ![d] = x]
               /\ x.ver = 0 /\ x.base = [on |-> Default, ver |-> 0]
  <2>1. PICK x : /\ x = [NewDevice EXCEPT
                           !.pc = "pull",
                           !.local = IF dev[d].disk = Torn THEN NewPayload ELSE dev[d].disk,
                           !.disk = dev[d].disk]
                 /\ dev' = [dev EXCEPT ![d] = x]
    BY DEF Restart
  <2>2. x.ver = NewDevice.ver /\ x.base = NewDevice.base
    BY <2>1, NewDeviceType DEF Device
  <2> QED BY <2>1, <2>2 DEF NewDevice, NoBase
<1>3. /\ server' = server /\ stored' = stored /\ late' = late /\ Gone' = Gone
      /\ garbled' = garbled /\ blind' = blind
  BY DEF Restart, ghosts, Gone
<1>4. KnowsBase(x)
  BY <1>2 DEF KnowsBase
<1>5. ~garbled => UpToDate(x.ver, x.local.items)'
  BY <1>2, <1>3, OnlyServer DEF MInv, ServerOK, UpToDate
<1> QED BY <1>1, <1>2, <1>3, <1>4, <1>5, DeviceSteps

\* After a pull, a device has what the server has, but for visits the cap cost.
LEMMA TakesMInv ==
  ASSUME OneServer, TypeOK, MInv, NEW d \in Devices, NEW p \in PulledBy(d), NEW n, Takes(d, p, n)
  PROVE  MInv'
<1>1. /\ DOMAIN dev = Devices /\ dev[d] \in Device /\ server[Default].ver \in Nat
      /\ Source(d) = Default /\ server[Default].load \in Payload
  BY OnlyServer DEF TypeOK
<1>2. /\ server' = server /\ stored' = stored /\ late' = late /\ removed' = removed
      /\ garbled' = garbled /\ blind' = blind
  BY DEF Takes
<1>3. PICK lost : /\ lost = Pruned(dev[d].local.items \cup server[Default].load.items, p.items)
                  /\ pruned' = pruned \cup lost
  BY <1>1 DEF Takes
<1>4. PICK x : x = [Merged(d, p) EXCEPT !.next = n]
  OBVIOUS
<1>5. dev' = [dev EXCEPT ![d] = x]
  BY <1>4 DEF Takes
<1>6. /\ x.ver = server[Default].ver /\ x.local = p
      /\ x.base = [on |-> Default, ver |-> server[Default].ver]
  BY <1>1, <1>4 DEF Merged, Device
<1>7. KnowsBase(x)
  BY <1>6 DEF KnowsBase
<1>8. server[Default].load.items \ lost \subseteq p.items
  <2>1. dev[d].local \in Payload /\ p \in Merge(dev[d].local, server[Default].load)
    BY <1>1 DEF Device, PulledBy
  <2>2. (dev[d].local.items \cup server[Default].load.items) \ lost \subseteq p.items
    BY <1>1, <1>3, <2>1, MergeKeeps
  <2> QED BY <2>2
<1>9. Gone' = Gone \cup lost
  BY <1>2, <1>3 DEF Gone
<1>10. ~garbled => UpToDate(x.ver, x.local.items)'
  BY <1>1, <1>2, <1>6, <1>8, <1>9 DEF MInv, ServerOK, UpToDate
<1> QED BY <1>1, <1>2, <1>5, <1>7, <1>9, <1>10, DeviceSteps

LEMMA MergedMInv ==
  ASSUME OneServer, TypeOK, MInv, NEW d \in Devices,
         Repull(d) \/ \E reordered \in BOOLEAN : Pull(d, reordered)
  PROVE  MInv'
BY TakesMInv DEF Repull, Pull

\* What a device sends is as up to date as the device.
LEMMA SentIsUpToDate ==
  ASSUME OneServer, TypeOK, MInv, ~garbled, NEW d \in Devices
  PROVE  /\ Sent(d).to = Default /\ Sent(d).load \in Payload /\ Sent(d).ver = dev[d].ver
         /\ Sent(d).load = dev[d].local
         /\ KnowsBase(Sent(d)) /\ UpToDate(Sent(d).ver, Sent(d).load.items)
BY OnlyServer DEF Sent, Device, MInv, DevicesOK, KnowsBase

LEMMA PushMInv ==
  ASSUME OneServer, TypeOK, MInv, NEW d \in Devices, PushStored(d) \/ PushAnswerLost(d)
  PROVE  MInv'
<1>1. garbled' = garbled /\ late' = late
  BY DEF PushStored, PushAnswerLost, Store
<1> SUFFICES ASSUME ~garbled PROVE (~blind /\ ServerOK /\ DevicesOK /\ LateOK)'
  BY <1>1 DEF MInv
<1>2. PICK m : m = Sent(d)
  OBVIOUS
<1>3. /\ m.to = Default /\ m.load \in Payload /\ m.load = dev[d].local /\ m.ver = dev[d].ver
      /\ KnowsBase(m) /\ UpToDate(m.ver, m.load.items) /\ Store(m)
  BY <1>2, SentIsUpToDate DEF PushStored, PushAnswerLost
<1>4. /\ ~blind' /\ ServerOK' /\ server'[Default].ver = server[Default].ver + 1
      /\ stored'[Default] \ Gone' \subseteq m.load.items
      /\ \A v \in Nat : \A I : UpToDate(v, I) => UpToDate(v, I)'
  BY <1>3, StoreSteps
<1>5. \A e \in Devices : dev[e] \in Device /\ KnowsBase(dev[e])
                         /\ UpToDate(dev[e].ver, dev[e].local.items)
  BY OnlyServer DEF MInv, DevicesOK
<1>6. \A e \in Devices : e # d => dev'[e] = dev[e]
  BY DEF TypeOK, PushStored, PushAnswerLost
<1>7. (KnowsBase(dev[d]) /\ UpToDate(dev[d].ver, dev[d].local.items))'
  <2>1. CASE PushStored(d)
    <3>1. PICK v : v = server[Default].ver + 1
      OBVIOUS
    <3>2. dev[d].to = Default
      BY OnlyServer
    <3>3. dev' = [dev EXCEPT ![d].pc = "idle", ![d].ver = v, ![d].base = [on |-> Default, ver |-> v]]
      BY <2>1, <3>1, <3>2 DEF PushStored
    <3>4. dev'[d].ver = v /\ dev'[d].base = [on |-> Default, ver |-> v]
          /\ dev'[d].local = dev[d].local
      BY <1>5, <3>3 DEF TypeOK, Device
    <3>5. server[Default].ver \in Nat
      BY OnlyServer
    <3> QED BY <1>3, <1>4, <3>1, <3>4, <3>5 DEF KnowsBase, UpToDate
  <2>2. CASE PushAnswerLost(d)
    <3>1. dev'[d].ver = dev[d].ver /\ dev'[d].base = dev[d].base /\ dev'[d].local = dev[d].local
      BY <1>5, <2>2 DEF PushAnswerLost, TypeOK, Device
    <3>2. dev[d].ver \in Nat
      BY <1>5 DEF Device
    <3> QED BY <1>4, <1>5, <3>1, <3>2 DEF KnowsBase, UpToDate
  <2> QED BY <2>1, <2>2
<1>8. DevicesOK'
  <2> SUFFICES ASSUME NEW e \in Devices
               PROVE  (KnowsBase(dev[e]) /\ UpToDate(dev[e].ver, dev[e].local.items))'
    BY DEF DevicesOK
  <2>1. CASE e = d
    BY <1>7, <2>1
  <2>2. CASE e # d
    BY <1>4, <1>5, <1>6, <2>2 DEF Device, KnowsBase
  <2> QED BY <2>1, <2>2
<1>9. LateOK'
  <2>1. \A l \in late : l.ver \in Nat /\ KnowsBase(l) /\ UpToDate(l.ver, l.load.items)
    BY DEF TypeOK, Message, MInv, LateOK
  <2> QED BY <1>1, <1>4, <2>1 DEF LateOK, KnowsBase
<1> QED BY <1>4, <1>8, <1>9

LEMMA LateMInv == ASSUME OneServer, TypeOK, MInv, NEW m \in late, LateArrives(m) PROVE MInv'
<1>1. garbled' = garbled /\ late' \subseteq late /\ dev' = dev
  BY DEF LateArrives, Store, ghosts
<1> SUFFICES ASSUME ~garbled PROVE (~blind /\ ServerOK /\ DevicesOK /\ LateOK)'
  BY <1>1 DEF MInv
<1>2. m \in Message /\ m.to = Default /\ KnowsBase(m) /\ UpToDate(m.ver, m.load.items)
  BY OnlyServer DEF TypeOK, MInv, LateOK
<1>3. ~blind' /\ ServerOK' /\ \A v \in Nat : \A I : UpToDate(v, I) => UpToDate(v, I)'
  <2>1. CASE Store(m)
    BY <1>2, <2>1, StoreSteps DEF Message
  <2>2. CASE UNCHANGED <<server, ghosts>>
    BY <2>2 DEF MInv, ServerOK, UpToDate, ghosts, Gone
  <2> QED BY <2>1, <2>2 DEF LateArrives
<1>4. \A l \in late : l.ver \in Nat /\ KnowsBase(l) /\ UpToDate(l.ver, l.load.items)
  BY DEF TypeOK, Message, MInv, LateOK
<1>5. \A e \in Devices : dev[e].ver \in Nat /\ KnowsBase(dev[e])
                         /\ UpToDate(dev[e].ver, dev[e].local.items)
  BY OnlyServer DEF MInv, DevicesOK, Device
<1>6. DevicesOK'
  BY <1>1, <1>3, <1>5 DEF DevicesOK, KnowsBase
<1>7. LateOK'
  BY <1>1, <1>3, <1>4 DEF LateOK, KnowsBase
<1> QED BY <1>3, <1>6, <1>7

LEMMA TimeoutMInv ==
  ASSUME OneServer, TypeOK, MInv, NEW d \in Devices, PushTimesOut(d)
  PROVE  MInv'
<1>1. PICK x : /\ dev' = [dev EXCEPT ![d] = x]
               /\ x = [dev[d] EXCEPT !.pc = "idle"]
  BY DEF PushTimesOut
<1>2. x.ver = dev[d].ver /\ x.base = dev[d].base /\ x.local = dev[d].local
  BY <1>1, OnlyServer DEF Device
<1>3. UNCHANGED <<server, ghosts>> /\ late' = late \cup {Sent(d)}
  BY DEF PushTimesOut
<1> SUFFICES ASSUME ~garbled PROVE (~blind /\ ServerOK /\ DevicesOK /\ LateOK)'
  BY <1>3 DEF MInv, ghosts
<1>4. \A v, I : UpToDate(v, I) => UpToDate(v, I)'
  BY <1>3 DEF UpToDate, ghosts, Gone
<1>5. ServerOK' /\ ~blind'
  BY <1>3 DEF MInv, ServerOK, ghosts, Gone
<1>6. DevicesOK'
  BY <1>1, <1>2, <1>4 DEF MInv, DevicesOK, KnowsBase, TypeOK
<1>7. LateOK'
  BY <1>3, <1>4, SentIsUpToDate DEF MInv, LateOK, KnowsBase
<1> QED BY <1>5, <1>6, <1>7

LEMMA NextMInv == ASSUME OneServer, TypeOK, MInv, [Next]_vars PROVE MInv'
<1>1. ASSUME NEW d \in Devices, PullGarbled(d) PROVE MInv'
  BY <1>1 DEF PullGarbled, MInv
<1>2. CASE UNCHANGED vars
  BY <1>2 DEF vars, ghosts, MInv, ServerOK, DevicesOK, LateOK, KnowsBase, UpToDate, Gone
<1> QED BY <1>1, <1>2, UserMInv, StepsMInv, RestartMInv, MergedMInv, PushMInv, LateMInv,
           TimeoutMInv DEF Next, Step

-----------------------------------------------------------------------------
(* The theorems                                                            *)

THEOREM Invariant == OneServer => (Spec => []IInv)
<1> SUFFICES ASSUME OneServer PROVE Spec => []IInv
  OBVIOUS
<1>1. Init => IInv
  BY InitType, InitMInv DEF IInv
<1>2. IInv /\ [Next]_vars => IInv'
  BY NextType, NextMInv DEF IInv
<1> QED BY <1>1, <1>2, PTL DEF Spec

\* With one server no push replaces a payload that its device has not merged,
\* however many devices push, and whatever is lost, late or restarted
\* (Browser::sync_push, FileSyncServer::push).
THEOREM NoBlindOverwrites == OneServer => (Spec => []NoBlindOverwrite)
<1> SUFFICES ASSUME OneServer PROVE Spec => []NoBlindOverwrite
  OBVIOUS
<1>1. IInv => NoBlindOverwrite
  BY DEF IInv, MInv, NoBlindOverwrite
<1> QED BY <1>1, Invariant, PTL

\* With one server, what was once stored stays until some user removes it, and a
\* visit until a full history drops it (Browser::sync_push, Browser::sync_pull,
\* SyncPayload::merge, record_visit).
THEOREM StoredStays == OneServer => (Spec => []StoredSurvives)
<1> SUFFICES ASSUME OneServer PROVE Spec => []StoredSurvives
  OBVIOUS
<1>1. IInv => StoredSurvives
  BY DEF IInv, MInv, ServerOK, StoredSurvives, OneServer, Gone
<1> QED BY <1>1, Invariant, PTL
=============================================================================
