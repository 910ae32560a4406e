----------------------------- MODULE PageStorage -----------------------------
(***************************************************************************)
(* What pages store: each renderer process keeps a store of its own, seeded *)
(* once from an encrypted file that all processes share; it reports the     *)
(* store when it changed, and the I/O thread of that process merges the     *)
(* report into the file. Cookies, localStorage and IndexedDB are three such *)
(* files with one mechanism; this is one of them.                           *)
(*                                                                          *)
(* The UI thread queues requests and may block for an answer; the I/O       *)
(* threads read, truncate and write the file with no lock between them;     *)
(* children die; the browser itself may end between any two steps.          *)
(***************************************************************************)
EXTENDS Integers, SequencesExt

CONSTANTS
  Sites,       \* sites, each with one origin
  MaxProcs,    \* bound: processes whose I/O threads run at the same time
  MaxWrites,   \* bound: what pages write
  MaxRequests, \* bound: what the UI thread asks for
  MaxFaults,   \* bound: deaths of children, ends of the browser, failed saves
  Empty,       \* the file is missing, or truncated and not written
  Garbled,     \* the file does not decrypt
  NoSeed,      \* initial_local_storage = None
  NoSite,      \* of a process that does not exist
  New, Idle    \* the UI thread has just started; is in its event loop

ASSUME SitesAssumption == NoSite \notin Sites
ASSUME BoundsAssumption ==
  /\ MaxProcs \in Nat \ {0} /\ MaxWrites \in Nat
  /\ MaxRequests \in Nat /\ MaxFaults \in Nat

VARIABLES
  file,    \* local_storage.enc
  proc,    \* each renderer process with its I/O thread
  ui,      \* where the UI thread is
  latest,  \* what a page of each site wrote last
  shared,  \* two processes ever existed at the same time
  mixed,   \* two saves were ever due or under way at the same time
  cut,     \* a save was ever cut short
  cleared, \* a page ever cleared its storage
  writes, requests, faults

ghosts == <<latest, shared, mixed, cut, cleared>>
bounds == <<writes, requests, faults>>
vars   == <<file, proc, ui, ghosts, bounds>>

Procs == 1 .. MaxProcs

\* An entry by origin: its content, named by the write that made it, or 0 for none.
Store  == [Sites -> 0 .. MaxWrites]
NoData == [s \in Sites |-> 0]
File   == Store \cup {Empty, Garbled}

\* A Navigate, with its seed, or anything else.
Request == [load : BOOLEAN, seed : Store \cup {NoSeed}]

\* RendererProcess and its child. io: the I/O thread waits for requests, is
\* about to read, to truncate or to write the file, or has ended; used: a tab
\* shows the site; loaded: the child has a session; wrote: what its pages wrote
\* last; retried: it was given a Navigate seeded for its predecessor.
IoStates == {"none", "ready", "read", "open", "write"}
Proc == [site : Sites \cup {NoSite}, pooled : BOOLEAN, alive : BOOLEAN, seeded : BOOLEAN,
         store : Store, queue : Seq(Request), io : IoStates, data : Store,
         used : BOOLEAN, loaded : BOOLEAN, wrote : 0 .. MaxWrites, retried : BOOLEAN]
NoProc == [site |-> NoSite, pooled |-> FALSE, alive |-> FALSE,
           seeded |-> FALSE, store |-> NoData, queue |-> <<>>, io |-> "none",
           data |-> NoData, used |-> FALSE, loaded |-> FALSE, wrote |-> 0,
           retried |-> FALSE]
Spawned(s) == [NoProc EXCEPT !.site = s, !.pooled = TRUE, !.alive = TRUE, !.io = "ready"]

\* The UI thread blocks for the answer to request `asked` of process `on`.
Wait == [on : Procs, asked : Request, again : BOOLEAN]

\* What stands for the lack of a store, and for no wait, is neither.
ASSUME ValuesAssumption ==
  /\ \A f \in Store : f \notin {Empty, Garbled, NoSeed}
  /\ \A w \in Wait : w \notin {New, Idle}
  /\ New # Idle

TypeOK ==
  /\ file \in File
  /\ proc \in [Procs -> Proc]
  /\ ui \in Wait \cup {New, Idle}
  /\ latest \in Store
  /\ shared \in BOOLEAN /\ mixed \in BOOLEAN /\ cut \in BOOLEAN /\ cleared \in BOOLEAN
  /\ writes \in 0 .. MaxWrites /\ requests \in 0 .. MaxRequests
  /\ faults \in 0 .. MaxFaults

-----------------------------------------------------------------------------
(* Stores                                                                  *)

\* Variant: what is there already wins.
KeepOld(old, new) == [s \in Sites |-> IF old[s] # 0 THEN old[s] ELSE new[s]]

\* merge_into and merge_persisted_json: every entry of the new store replaces
\* the old one's of the same origin.
Merge(old, new) == [s \in Sites |-> IF new[s] # 0 THEN new[s] ELSE old[s]]

\* load_encrypted_storage
Readable == file \notin {Empty, Garbled}
Loaded   == IF Readable THEN file ELSE NoData
Seed     == IF Readable THEN file ELSE NoSeed

-----------------------------------------------------------------------------
(* The UI thread                                                           *)

Asking == requests < MaxRequests /\ requests' = requests + 1

Busy(p)    == p.io \in {"read", "open", "write"}
Quiet(p)   == p.queue = <<>> /\ ~Busy(p)
Present(p) == p.pooled \/ p.io # "none"
Running    == {n \in Procs : Present(proc[n])}
Unused(n)  == n \notin Running /\ \A o \in Procs : o < n => o \in Running

\* Variant of seed_if_needed: seeded stays false.
QueueLoadUnmarked(p) ==
  [p EXCEPT !.queue = Append(@, [load |-> TRUE, seed |-> IF p.seeded THEN NoSeed ELSE Seed])]

\* begin_render: seed_if_needed, then queue_request
QueueLoad(p) ==
  [p EXCEPT !.seeded = TRUE,
            !.queue = IF p.io = "none" THEN @
                      ELSE Append(@, [load |-> TRUE,
                                      seed |-> IF p.seeded THEN NoSeed ELSE Seed])]

\* A page load by the address bar, a link or a form: get_or_spawn, begin_render
Begin(s) ==
  /\ ui \in {New, Idle}
  /\ ui' = Idle
  /\ Asking
  /\ \/ \E n \in Procs :
          /\ proc[n].pooled /\ proc[n].site = s
          /\ proc' = [proc EXCEPT ![n] = QueueLoad(@)]
          /\ UNCHANGED shared
     \/ /\ \A n \in Procs : ~(proc[n].pooled /\ proc[n].site = s)
        /\ \E n \in Procs :
             /\ Unused(n)
             /\ proc' = [proc EXCEPT ![n] = QueueLoad(Spawned(s))]
        /\ shared' = (shared \/ Running # {})
  /\ UNCHANGED <<file, latest, mixed, cut, cleared, writes, faults>>

\* Queue request q on fresh process p of id n and block for its answer.
Ask(n, p, q, again) ==
  /\ proc' = [proc EXCEPT ![n] = [p EXCEPT !.queue = Append(@, q)]]
  /\ ui' = [on |-> n, asked |-> q, again |-> again]

\* The page named on the command line: render, which blocks
Startup(s) ==
  /\ ui = New
  /\ Asking
  /\ Ask(1, [Spawned(s) EXCEPT !.seeded = TRUE, !.used = TRUE],
         [load |-> TRUE, seed |-> Seed], FALSE)
  /\ UNCHANGED <<file, ghosts, writes, faults>>

\* click, focus, text_input, ... on a tab that shows the site
Act(n) ==
  /\ ui = Idle
  /\ proc[n].pooled
  /\ proc[n].loaded \/ proc[n].used
  /\ Asking
  /\ Ask(n, [proc[n] EXCEPT !.used = TRUE], [load |-> FALSE, seed |-> NoSeed], FALSE)
  /\ UNCHANGED <<file, ghosts, writes, faults>>

\* The answer came.
Returns ==
  /\ ui \in Wait
  /\ Quiet(proc[ui.on])
  /\ proc[ui.on].io = "ready" \/ ui.again
  /\ ui' = Idle
  /\ UNCHANGED <<file, proc, ghosts, bounds>>

\* It cannot come: send_with_respawn replaces the process, which starts
\* unseeded, and sends the same request once more.
Respawn ==
  /\ ui \in Wait
  /\ proc[ui.on].io = "none"
  /\ ~ui.again
  /\ Ask(ui.on, [Spawned(proc[ui.on].site) EXCEPT !.used = TRUE, !.retried = ui.asked.load],
         ui.asked, TRUE)
  /\ UNCHANGED <<file, ghosts, bounds>>

\* No tab shows the site or waits for it. A tab that showed it has waited for
\* the answer to its CloseTab; a load nobody waits for any more may still run.
Evict(n) ==
  /\ ui = Idle
  /\ proc[n].pooled
  /\ Quiet(proc[n]) \/ ~proc[n].used
  /\ proc' = [proc EXCEPT ![n] =
                IF Busy(@) THEN [@ EXCEPT !.pooled = FALSE, !.alive = FALSE, !.queue = <<>>]
                ELSE NoProc]
  /\ UNCHANGED <<file, ui, ghosts, bounds>>

-----------------------------------------------------------------------------
(* A child and its I/O thread                                              *)

\* Process p after its child seeded itself and its page did as it liked: wrote
\* entry v, cleared its storage (v = 0), or neither (store t stays). What
\* changed is reported: all of the store.
Handled(p, t, v, changed, ok) ==
  [p EXCEPT !.store = t,
            !.wrote = v,
            !.data = IF changed THEN t ELSE NoData,
            !.io = IF changed THEN "read" ELSE "ready",
            !.queue = Tail(@),
            !.loaded = ok]

\* The page sets an item, or clears its storage, having store t: setItem, clear.
Sets(n, p, t, ok) ==
  /\ writes < MaxWrites
  /\ writes' = writes + 1
  /\ latest' = [latest EXCEPT ![p.site] = writes + 1]
  /\ proc' = [proc EXCEPT ![n] =
                Handled(p, [t EXCEPT ![p.site] = writes + 1], writes + 1, TRUE, ok)]
  /\ UNCHANGED cleared

Clears(n, p, t, ok) ==
  /\ t[p.site] # 0
  /\ latest' = [latest EXCEPT ![p.site] = 0]
  /\ cleared' = TRUE
  /\ proc' = [proc EXCEPT ![n] = Handled(p, [t EXCEPT ![p.site] = 0], 0, TRUE, ok)]
  /\ UNCHANGED writes

\* handle_message, and the I/O thread reads the answer.
Serve(n) ==
  LET p == proc[n]
      q == Head(p.queue)
      seeded == q.seed # NoSeed
      t == IF seeded THEN Merge(p.store, q.seed) ELSE p.store
      runs == q.load \/ p.loaded IN
  /\ p.io = "ready" /\ p.queue # <<>> /\ p.alive
  /\ \E ok \in IF q.load THEN BOOLEAN ELSE {p.loaded} :
       \/ /\ proc' = [proc EXCEPT ![n] = Handled(p, t, p.wrote, seeded, ok)]
          /\ UNCHANGED <<latest, cleared, writes>>
       \/ runs /\ (Sets(n, p, t, ok) \/ Clears(n, p, t, ok))
  /\ UNCHANGED <<file, ui, shared, mixed, cut, requests, faults>>

\* The pipe is broken: the thread reports it and ends, and its queue with it.
Breaks(n) ==
  /\ proc[n].io = "ready" /\ proc[n].queue # <<>> /\ ~proc[n].alive
  /\ proc' = [proc EXCEPT ![n].io = "none", ![n].queue = <<>>]
  /\ UNCHANGED <<file, ui, ghosts, bounds>>

\* persist_encrypted_merge: the file is read and the report merged into it ...
PersistRead(n) ==
  /\ proc[n].io = "read"
  /\ proc' = [proc EXCEPT ![n].data = Merge(Loaded, @), ![n].io = "open"]
  /\ mixed' = (mixed \/ \E m \in Procs \ {n} : Busy(proc[m]))
  /\ UNCHANGED <<file, ui, latest, shared, cut, cleared, bounds>>

\* ... write_secret_file truncates it ...
PersistOpen(n) ==
  /\ proc[n].io = "open"
  /\ file' = Empty
  /\ proc' = [proc EXCEPT ![n].io = "write"]
  /\ UNCHANGED <<ui, ghosts, bounds>>

\* The thread goes on, unless its process is gone.
Saved(p) == IF p.pooled THEN [p EXCEPT !.io = "ready", !.data = NoData] ELSE NoProc

\* ... and writes it. What another thread wrote meanwhile is overwritten from
\* the start, and what was longer stays behind the end.
PersistWrite(n) ==
  /\ proc[n].io = "write"
  /\ \/ file' = proc[n].data
     \/ file # Empty /\ file' = Garbled
  /\ proc' = [proc EXCEPT ![n] = Saved(@)]
  /\ UNCHANGED <<ui, ghosts, bounds>>

Fault == faults < MaxFaults /\ faults' = faults + 1

\* The disk is full: some of it is written.
PersistFails(n) ==
  /\ proc[n].io = "write"
  /\ Fault
  /\ file' \in {file, Garbled}
  /\ proc' = [proc EXCEPT ![n] = Saved(@)]
  /\ cut' = TRUE
  /\ UNCHANGED <<ui, latest, shared, mixed, cleared, writes, requests>>

ChildDies(n) ==
  /\ proc[n].alive
  /\ Fault
  /\ proc' = [proc EXCEPT ![n].alive = FALSE, ![n].loaded = FALSE, ![n].store = NoData,
                          ![n].wrote = 0]
  /\ UNCHANGED <<file, ui, ghosts, writes, requests>>

\* The browser ends, whatever its threads are doing, and is started again.
Exit ==
  /\ Fault
  /\ proc' = [n \in Procs |-> NoProc]
  /\ ui' = New
  /\ cut' = (cut \/ \E n \in Procs : Busy(proc[n]))
  /\ UNCHANGED <<file, latest, shared, mixed, cleared, writes, requests>>

-----------------------------------------------------------------------------
Init ==
  /\ file = Empty
  /\ proc = [n \in Procs |-> NoProc]
  /\ ui = New
  /\ latest = NoData
  /\ shared = FALSE /\ mixed = FALSE /\ cut = FALSE /\ cleared = FALSE
  /\ writes = 0 /\ requests = 0 /\ faults = 0

Ui ==
  \/ \E s \in Sites : Begin(s) \/ Startup(s)
  \/ \E n \in Procs : Act(n) \/ Evict(n)
  \/ Returns \/ Respawn

Io(n) ==
  \/ Serve(n) \/ Breaks(n)
  \/ PersistRead(n) \/ PersistOpen(n) \/ PersistWrite(n) \/ PersistFails(n)

Next ==
  \/ Ui
  \/ \E n \in Procs : Io(n) \/ ChildDies(n)
  \/ Exit

Spec == Init /\ [][Next]_vars

-----------------------------------------------------------------------------
(* Properties                                                              *)

\* What is on disk when no thread is at it: the newest of every site.
OnDisk ==
  (\A n \in Procs : ~Busy(proc[n])) => \A s \in Sites : latest[s] # 0 => Loaded[s] = latest[s]

\* As long as processes follow one another, pages find what they and the pages
\* of processes before them wrote, in memory and on disk, through evictions,
\* respawns and restarts (seed_if_needed, persist_encrypted_merge).
OneProcessKeepsAll ==
  ~shared /\ ~cut /\ ~cleared =>
    /\ OnDisk
    /\ \A n \in Procs : proc[n].loaded => proc[n].store[proc[n].site] = latest[proc[n].site]

\* Whatever other processes do, nothing but its own writes changes what a page
\* reads: a seed never replaces them. A process that was respawned for a retry
\* has been seeded and does not know it, and is safe only on its own.
OwnWritesStay ==
  \A n \in Procs :
    LET p == proc[n] IN
    (p.retried => ~shared /\ ~cut /\ ~cleared) /\ p.wrote # 0 => p.store[p.site] = p.wrote

-----------------------------------------------------------------------------
(* What the comments in the source say, and the code does not do           *)

\* "Several concurrent, independent renderer processes", each reporting its own
\* entries, keep one another's on disk -- "without a later report from a
\* DIFFERENT site's process clobbering an earlier one's" -- here even only as
\* long as no two of their saves meet.
ReportsKeepOthers == ~mixed /\ ~cut /\ ~cleared => OnDisk
=============================================================================
