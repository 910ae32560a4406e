------------------------------ MODULE IndexedDb ------------------------------
(***************************************************************************)
(* indexedDB of one origin in a renderer process: one database, its object  *)
(* stores, and what a page's script sees of them. Every call takes effect   *)
(* at once; the events that answer it come as microtasks, which the session *)
(* runs after the script and before its reply. The reply carries the store  *)
(* if it changed, and a process that dies is seeded with what was saved.    *)
(*                                                                          *)
(* A record is abstracted to its key and weighs 1; a generated key is a     *)
(* number, and a page may use numbers as keys too.                          *)
(***************************************************************************)
EXTENDS Integers, SequencesExt

CONSTANTS
  Names,       \* object stores
  Keys,        \* keys pages give: numbers, from 1
  NoKey,
  Quota,       \* MAX_BYTES_PER_ORIGIN, in records
  MaxVersion,  \* bound: versions pages ask for
  MaxOps       \* bound: calls

ASSUME KeysAssumption == Keys \subseteq Nat \ {0} /\ NoKey \notin Nat
ASSUME VersionAssumption == MaxVersion \in Nat

VARIABLES
  db,      \* the database; version 0 and no stores while there is none
  jobs,    \* the microtasks queued
  script,  \* where the session is: running a script, its microtasks, or neither
  handle,  \* what the page was given: "none", a "database", or an object "store" too
  tx,      \* its latest transaction, 0 before the first
  change,  \* IndexedDbStore::version, or whether it moved since the last reply
  saved,   \* what the browser has of it
  ops

dbVars == <<db, jobs, script, handle, tx, change, saved, ops>>

\* made: the keys the store generated. offered: the version a page's upgrade
\* handler was last called for. Neither is in the code.
NewStore(keyed, auto) ==
  [keyed |-> keyed, auto |-> auto, next |-> 1, entries |-> {}, order |-> <<>>, made |-> {}]
NoDatabase == [is |-> FALSE, version |-> 0, stores |-> <<>>, order |-> <<>>, offered |-> 0]

Has(s) == db.is /\ s \in DOMAIN db.stores

\* Vec::retain of all but e, which is listed once (EachListedOnce).
Without(list, e) ==
  IF e \in ToSet(list) THEN RemoveAt(list, CHOOSE i \in DOMAIN list : list[i] = e) ELSE list

----------------------------------------------------------------------------
(* Calls of a script: each is counted, and answered by what it queues. *)

Calling == script # "idle" /\ ops < MaxOps /\ ops' = ops + 1

Queue(job)   == jobs' = Append(jobs, job)
Answered     == Queue([kind |-> "request", tx |-> tx, old |-> 0, new |-> 0, upgrade |-> FALSE])

\* IndexedDbStore::open: the version rises here, before any handler ran.
Raised(v) == [db EXCEPT !.is = TRUE, !.version = v]

Open(asked) ==
  LET new     == IF asked = NoKey THEN IF db.version = 0 THEN 1 ELSE db.version ELSE asked
      upgrade == ~db.is \/ new > db.version
  IN  /\ Calling
      /\ db' = IF upgrade THEN Raised(new) ELSE db
      /\ change' = (change \/ upgrade)
      /\ Queue([kind |-> "open", tx |-> 0, old |-> db.version, new |-> new, upgrade |-> upgrade])
      /\ UNCHANGED <<script, handle, tx, saved>>

\* delete_database, from the page's indexedDB itself.
DeleteDatabase ==
  /\ Calling
  /\ db' = NoDatabase
  /\ change' = (change \/ db.is)
  /\ Queue([kind |-> "request", tx |-> 0, old |-> 0, new |-> 0, upgrade |-> FALSE])
  /\ UNCHANGED <<script, handle, tx, saved>>

\* Not only in an upgrade: any database object will do. A failure throws, and what
\* it returns takes requests of no transaction.
CreateStore(s, keyed, auto) ==
  /\ Calling /\ handle # "none"
  /\ db.is /\ ~Has(s)
  /\ db' = [db EXCEPT !.stores = [t \in DOMAIN db.stores \cup {s} |->
                                    IF t = s THEN NewStore(keyed, auto) ELSE db.stores[t]],
                      !.order  = Append(db.order, s)]
  /\ change' = TRUE /\ handle' = "store"
  /\ UNCHANGED <<jobs, script, tx, saved>>

DeleteStore(s) ==
  /\ Calling /\ handle # "none"
  /\ Has(s)
  /\ db' = [db EXCEPT !.stores = [t \in DOMAIN db.stores \ {s} |-> db.stores[t]],
                      !.order  = Without(db.order, s)]
  /\ change' = TRUE
  /\ UNCHANGED <<jobs, script, handle, tx, saved>>

\* buildTransaction: complete comes one microtask later, whatever is asked of it.
Transaction ==
  /\ Calling /\ handle # "none"
  /\ tx' = tx + 1 /\ handle' = "store"
  /\ Queue([kind |-> "complete", tx |-> tx + 1, old |-> 0, new |-> 0, upgrade |-> FALSE])
  /\ UNCHANGED <<db, script, change, saved>>

\* The key a record gets, or NoKey for a ConstraintError: given: the argument;
\* inner: what the record has at the key path.
KeyOf(o, given, inner) ==
  CASE o.keyed /\ given # NoKey -> NoKey
    [] o.keyed /\ given = NoKey /\ inner # NoKey -> inner
    [] ~o.keyed /\ given # NoKey -> given
    [] given = NoKey /\ (o.keyed => inner = NoKey) -> IF o.auto THEN o.next ELSE NoKey
IsMade(o, given, inner) == o.auto /\ given = NoKey /\ (o.keyed => inner = NoKey)

\* The generator moves even if the record is then refused.
Generated(o) == [o EXCEPT !.next = o.next + 1, !.made = o.made \cup {o.next}]

Fits(o, k) == Cardinality(o.entries \ {k}) + 1 <= Quota

Kept(o, k) ==
  [o EXCEPT !.entries = o.entries \cup {k},
            !.order   = IF k \in o.entries THEN o.order ELSE Append(o.order, k)]

Put(s, given, inner, add) ==
  LET o    == db.stores[s]
      k    == KeyOf(o, given, inner)
      told == IF IsMade(o, given, inner) THEN Generated(o) ELSE o
      ok   == k # NoKey /\ ~(add /\ k \in o.entries) /\ Fits(o, k)
  IN  /\ Calling /\ handle = "store"
      /\ Has(s) /\ (~o.keyed => inner = NoKey)
      /\ db' = [db EXCEPT !.stores = [db.stores EXCEPT ![s] = IF ok THEN Kept(told, k) ELSE told]]
      /\ change' = (change \/ ok)
      /\ Answered
      /\ UNCHANGED <<script, handle, tx, saved>>

Gone(o, k) == [o EXCEPT !.entries = o.entries \ {k}, !.order = Without(o.order, k)]

Delete(s, k) ==
  /\ Calling /\ handle = "store"
  /\ Has(s)
  /\ db' = [db EXCEPT !.stores = [db.stores EXCEPT ![s] = Gone(db.stores[s], k)]]
  /\ change' = (change \/ k \in db.stores[s].entries)
  /\ Answered
  /\ UNCHANGED <<script, handle, tx, saved>>

Clear(s) ==
  /\ Calling /\ handle = "store"
  /\ Has(s)
  /\ db' = [db EXCEPT !.stores = [db.stores EXCEPT
              ![s] = [db.stores[s] EXCEPT !.entries = {}, !.order = <<>>]]]
  /\ change' = (change \/ db.stores[s].entries # {})
  /\ Answered
  /\ UNCHANGED <<script, handle, tx, saved>>

\* get, getAll, getAllKeys, count; or any call on a store that is not there.
Read ==
  /\ Calling /\ handle = "store"
  /\ Answered
  /\ UNCHANGED <<db, script, handle, tx, change, saved>>

----------------------------------------------------------------------------
(* The session. *)

\* A script: the page's own, a timer's, an event handler's.
Run ==
  /\ script = "idle" /\ script' = "script"
  /\ UNCHANGED <<db, jobs, handle, tx, change, saved, ops>>

\* run_jobs: the next microtask. Opening calls the upgrade handler, if the
\* version rose, and then reports success, whatever the handler did.
RunJob ==
  /\ script # "idle" /\ jobs # <<>>
  /\ LET job == Head(jobs) IN
     /\ handle' = IF job.kind = "open" /\ handle = "none" THEN "database" ELSE handle
     /\ db' = IF job.upgrade /\ db.is THEN [db EXCEPT !.offered = job.new] ELSE db
  /\ jobs' = Tail(jobs)
  /\ script' = "jobs"
  /\ UNCHANGED <<tx, change, saved, ops>>

\* Variant: the reply does not wait for the microtasks.
AnyTime == TRUE

\* run_jobs before every reply
Drained == jobs = <<>>

\* Variant: the generators start over.
RevivedFromOne ==
  [saved EXCEPT !.stores = [s \in DOMAIN saved.stores |-> [saved.stores[s] EXCEPT !.next = 1]]]

\* to_bytes and from_bytes: the version counter stays behind.
Revived == saved

\* The reply: with the store, if it changed.
Reply ==
  /\ script # "idle" /\ Drained
  /\ script' = "idle"
  /\ saved' = IF change THEN db ELSE saved
  /\ change' = FALSE
  /\ UNCHANGED <<db, jobs, handle, tx, ops>>

\* The process dies, in the middle of a script too, and is started again.
Restart ==
  /\ ops < MaxOps /\ ops' = ops + 1
  /\ db' = Revived
  /\ jobs' = <<>> /\ script' = "idle" /\ handle' = "none" /\ tx' = 0 /\ change' = FALSE
  /\ UNCHANGED saved

DbInit ==
  /\ db = NoDatabase /\ saved = NoDatabase
  /\ jobs = <<>> /\ script = "idle" /\ handle = "none" /\ tx = 0
  /\ change = FALSE /\ ops = 0

\* window.indexedDB, the objects of a database, and those of an object store.
FactoryCall == DeleteDatabase \/ \E v \in 1 .. MaxVersion \cup {NoKey} : Open(v)

DatabaseCall ==
  \/ Transaction
  \/ \E s \in Names : DeleteStore(s) \/ \E keyed, auto \in BOOLEAN : CreateStore(s, keyed, auto)

StoreCall ==
  \/ Read
  \/ \E s \in Names :
       \/ Clear(s)
       \/ \E given, inner \in Keys \cup {NoKey}, add \in BOOLEAN : Put(s, given, inner, add)
       \/ \E k \in Keys : Delete(s, k)

DbCall == FactoryCall \/ DatabaseCall \/ StoreCall

DbNext == DbCall \/ Run \/ RunJob \/ Reply \/ Restart

DbSpec == DbInit /\ [][DbNext]_dbVars

----------------------------------------------------------------------------
(* Properties. *)

\* getAll, getAllKeys and count agree: whatever was put, deleted, cleared and
\* put again, each record is listed once, and so is each object store; before
\* and after a restart (ObjectStore::order, Database::store_order).
EachListedOnce ==
  /\ IsInjective(db.order) /\ ToSet(db.order) = DOMAIN db.stores
  /\ \A s \in DOMAIN db.stores : LET o == db.stores[s] IN
       IsInjective(o.order) /\ ToSet(o.order) = o.entries

\* A generated key is never one the store generated before, though the record
\* was deleted, refused, or saved by an earlier process (next_auto_key).
GeneratedKeysAreNew ==
  \A s \in DOMAIN db.stores : \A k \in db.stores[s].made : k < db.stores[s].next

\* However records come and go, and through restarts, a store lists each once and
\* generates no key twice (ObjectStore, to_bytes and from_bytes).
RecordsAreWhole == EachListedOnce /\ GeneratedKeysAreNew

\* A version is raised before its upgrade handler runs, yet never saved so: the
\* handler of the version on disk was called, whenever the process died.
SavedWasOffered == saved.is => saved.offered = saved.version

\* "A real transaction auto-commits once every request it was given has
\* settled": no request's event comes after the transaction's complete
\* (buildTransaction in INDEXED_DB_PRELUDE_JS).
CompleteComesLast ==
  \A i, j \in DOMAIN jobs :
    i < j /\ jobs[i].kind = "complete" /\ jobs[j].kind = "request" => jobs[i].tx # jobs[j].tx
=============================================================================
