# Formal models of Abyssal Browser

TLA+ models of the parts of Abyssal Browser in which several things happen at once, and of
its style and layout algorithms, checked with TLC on small instances; and theorems about the
renderer pool, the sync server and its gate, the devices, page storage, page sessions, fetching, and the interface
(tabs, a page's fields and the window) that the TLA+ proof system checks for every instance. Source paths below are relative to the repository; line numbers refer to the commit the models were written against.
`PROJECT.json` maps every definition to the lines it models.

Contents: 1 the system, 2 the modules, 3 renderer pool, 4 sync server and gate, 5 devices,
6 page storage, 7 page sessions, 8 page input, 9 page scripts: document and database,
10 the interface, 11 the window, 12 style, layout and painting, 13 bars, 14 fetching,
15 what the runs show, 16 proofs, 17 disagreements with the comments and documents,
18 what is not modelled, 19 plan, 20 running it.

## 1. The system

### Processes and how they talk

    user --events--> app (UI thread) --channel--> I/O thread (one per site)
                       ^      |                     |  stdin/stdout, length-prefixed JSON
                       |      |  <--reply channel-- |
                       |      |  <--ExternalWake--- v
                       |      |                   renderer child (sandboxed, one per site)
                       |      +--HTTP--> sync-server --> <account>.blob, backups/
                       +------ .enc files in the data directory <-- I/O threads

* The privileged `app` process owns the window, the tabs, the account, the encrypted
  files and the sync client. Its UI thread runs one event handler at a time.
* For each registrable domain it keeps at most one `renderer` child. A dedicated I/O
  thread writes one request to the child, waits for the answer, sends the answer over a
  channel and posts an `ExternalWake` to the window's event queue.
* Page loads are asynchronous (`begin_render`, then polled in `handle_tick`); clicks,
  focus changes, text input, timers and closing a session are blocking round trips
  (`try_send`/`wait_for_reply`).
* Optional synchronisation: each browser pushes its whole encrypted payload with the
  version it last saw, and merges when refused. The server (`sync-server`) handles one
  request at a time over `FileSyncServer`; the operator may run its restore command as
  a second process on the same files.

### Components

| Component | Source | State | Operations | Correct when |
|---|---|---|---|---|
| Browser, tabs, navigation | `src/app/src/main.rs` | tabs, active index, per tab: site, URL, tree, next wake, pending navigation | open, close, switch, navigate, click, tick, poll | the index names a tab; a page is shown in the tab and under the URL it was asked for; the UI thread never hangs |
| Renderer pool and I/O threads | same | site -> process; per process: queue, reply channel, pending replies, next id | get_or_spawn, queue, take, wait, respawn, evict | no process in use is evicted; every answer reaches its question |
| Renderer | `src/renderer/src` | per tab a session: document, scripts, timers, stores | one `handle_message` per request | it answers every request from the session of that tab |
| IPC protocol | `src/ipc/src` | none | read/write a message | replies keep the order of requests |
| Sync store | `src/sync/src/lib.rs` | live blob, temporary file, backups per version | push, pull, prune, restore | atomic versioned register; backups stay |
| Sync server loop | `src/sync-server/src/main.rs` | rate limiter | one request at a time; restore command | as the store |
| Rate limiter | `src/sync-server/src/rate_limit.rs` | windows, failures, lockouts | check, record | limits hold over time |
| Sync in the browser | `src/app/src/main.rs` | payload, `sync_version`, `bookmarks.enc` | push with retry, pull, save | nothing another device stored is lost |
| Sync payload | `src/storage/src/lib.rs` | bookmarks, history, settings | add, remove, merge | merging loses no addition but visits beyond the cap |
| Encrypted page storage | `src/app`, `src/renderer` | `.enc` files, in-process stores | seed, report, merge | no site loses data of another |
| Scripts, timers, IndexedDB | `src/renderer/src` | timers, listeners, databases | tick, dispatch, open | handlers end; versions and stores agree |
| Account and encryption | `src/account/src` | the key file | derive, encrypt | (library calls) |
| Network, cache, privacy | `src/network/src`, `src/privacy/src` | cookies, cache files | fetch, redirect, filter | a filter applies to every hop; nothing kept for one site reaches another |
| Interface: bars, history, find, tools, media | `src/app/src/main.rs`, `media_playback.rs` | per tab: address bar, find bar, history, tools, playback | keys, buttons, replies, ticks | nothing outlives the page it is about; Back and Forward return; what is shown is what is heard |
| Window event loop | `src/render/src/window.rs` | deadlines, resize in progress, surface | resize, wake, redraw, point | no deadline is slept through; a click lands where its target is shown |
| CSS, layout, text, painting | `src/css` ... `src/render` | none | pure functions | agree with a reference definition; painted and hit alike |
| DOM | `src/dom/src`, `src/html/src` | nodes, ids | append, search, dispatch | the document is a tree; an id names one node for ever |
| Sandbox, userscripts, packaging | several | little | | |

`PROJECT.json` lists all 26 components with their status.

### What is hard here

* One process and one reply channel serve all tabs of a site: a blocking click can
  receive, before its own answer, the answer to another tab's page load.
* A child may die at any moment; the I/O thread finds out at the next request, sends one
  failure, and exits. Replacing the process restarts its request ids at zero.
* A sweep that kills unreferenced processes runs in the middle of other handlers.
* A reply and the wake that announces it are two steps; the tick that polls may run before,
  between and after them.
* The sync store is a handful of file operations, any of which can fail or be the last,
  and a second process may run on the same files.
* A push may be stored and its answer lost, or arrive after the sender gave up.
* Every encrypted file is truncated and rewritten in place, page stores from several threads.
* A page stays on show, and can be used, until the reply with its successor arrives; each thing
  a tab keeps about its page must go with it, by whichever of a dozen ways the page is left.
* One sleep of the event loop stands for several deadlines, and each event re-arms it.
* Scripts run in the middle of a click or a key and may change what it is about.
* Redirects take a request to hosts, cookies and partitions it was not started for.
* What is painted and what a click hits are computed by separate code.

The full list, each item at its line with the properties that watch it, is under `hazards`
in `PROJECT.json`; those no property covers yet say why.

## 2. The modules

| Module | Kind | Models |
|---|---|---|
| `RendererPool` | component | tabs, pool, I/O threads, children, navigation |
| `MCRendererPool` | model checking | its small instances |
| `RendererPoolProofs` | proofs | its theorems |
| `SyncRegister` | abstract specification | what the sync store promises |
| `SyncServer` | component | the sync store as file operations, with crashes and restore |
| `MCSyncServer` | model checking | its small instances |
| `SyncServerProofs` | proofs | its theorems, the refinement among them, and that of `Gate` |
| `SyncDevices` | composition | devices, their disks, the network, servers as registers |
| `MCSyncDevices` | model checking | its small instances |
| `SyncDevicesProofs` | proofs | its theorems |
| `PageStorage` | component | what pages store: in-process stores, seeds, reports, I/O threads saving one shared file |
| `MCPageStorage` | model checking | its small instances, with one of `IndexedDb` |
| `PageStorageProofs` | proofs | its theorems, and those of `IndexedDb`, `Dom`, `Matching`, `Placement` and `Declarations` |
| `PageSessions` | component | inside one renderer process: tabs' sessions, their scripts, timers and promise jobs, the shared `localStorage`, storage events |
| `MCPageSessions` | model checking | its small instances |
| `PageSessionsProofs` | proofs | its theorems |
| `PageInput` | component | keys, clicks and focus between the app and a page whose listeners change it |
| `Dom` | component | the document as scripts change it: nodes, ids, listeners, searches |
| `IndexedDb` | component | a database: versions, object stores, keys, quota, restarts |
| `Chrome` | component | tabs' own state: address bar, find, history, tools, media |
| `Window` | component | the event loop: deadlines, resizes, redraws, places |
| `MCChrome` | model checking | the small instance of `Chrome`, `PageInput` and `Window` |
| `ChromeProofs` | proofs | the theorems about `Chrome` and `Bars` |
| `InterfaceProofs` | proofs | the theorems about `PageInput` and `Window` |
| `Selectors`, `Matching`, `Declarations`, `Cascade` | algorithms | selectors and what they match; specificity, which declaration counts, inheritance, the browser's own sheet |
| `Placement`, `Boxes`, `Layout` | algorithms | where grid items go; the tree of boxes; lines, floats, flex, grid, positions, hit tests |
| `Painting` | algorithms | what is painted where: boxes, borders, text, media controls, search results |
| `Bars` | component | the browser's own controls: where they are painted and what a click there does |
| `MCEngine` | model checking | bounded documents, the definitions they are compared with, the instances of `Bars` and `Dom` |
| `Fetch` | component | fetchers, redirects, cookies, the shared cache, blocking |
| `MCFetch` | model checking | its small instance |
| `FetchProofs` | proofs | its theorems |
| `Gate` | component | the limits in front of the sync store |

`SyncServer` is shown to implement `SyncRegister`; `SyncDevices` composes devices with servers
that behave as that register (`Current` and `Store` are its `Push`), so the file
operations need not be interleaved with the devices' steps.

Where two components share no state, one run takes them one at a time: in `sync_server`, `page_storage`,
`chrome` and `engine` a behaviour leaves one of its subjects in its initial state for good and is a behaviour
of the other. This checks exactly what separate runs would check.

Components whose variables have a type worth stating have an invariant `TypeOK` (`InputTypeOK` in `PageInput`). All are
proved; that of `RendererPool` is part of a run, too. The types of `Fetch`, `Window`, `Chrome` and `Bars` are part of the inductive
invariants in their proof modules.
Definitions commented as a *variant* are plausible
mistakes in the definition that follows; replacing the definition by its variant makes
TLC find the property named in `PROJECT.json` (`mutants`) violated, which shows the
property depends on the code being as it is.

## 3. RendererPool

**State.** `tabs`, `active`, `nextTab` are the tab strip of `Browser`; `tab[t]` the state of
a tab (its `renderer_site`, `current_url`, the page its tree shows, whether a wake is set,
its `pending_navigation`); `pool[s]` the `RendererProcess` of site `s` with the state of its
I/O thread (`io`), its queue, its undelivered replies and the sessions of its child; `ui` and
`call` say in which handler, and waiting for what, the UI thread is; `due`, `todo`, `outcome`
are the local variables of `handle_tick`, `poll_pending_navigations` and
`apply_navigation_outcome`, which survive blocking calls; `wake` is the posted
`ExternalWake`. `spawns`, `inc` and `want` are not in the code: they count and name incarnations
of a process and remember the newest page asked of a tab, so that properties can mention them.

**Actions.** One per handler, cut where the code blocks. A handler without a blocking
call is one action (`OpenNewTab`, `SwitchTab`, `BeginNavigate`, ...). A blocking handler is an action
that sends (`Send`) and one that continues (`CloseTabReturns`, `LeaveReturns`, `ForegroundReturns`,
`RespawnAndRetry`, `RespawnFails`, `TickReturns`, `CloseOldReturns`, `FinishOutcome`). `BeginTick`,
`TickTab`, `BeginPoll`, `PollTab`, `PollDone` are the stages of `handle_tick`. `RoundTrip`,
`RoundTripBreaks` and `WakeUi` are the loop of `run_renderer_io`; `Crash` is the death of a child.
Between two blocking points only I/O threads, children and crashes run; no other handler does.

**Abstractions.**
* `reply_rx` and `pending_replies` are one set: `take_reply` drains the first into the second
  before it looks, and looks only at ids.
* Write, handle and read back are one step of the I/O thread: nobody else sees the pipe.
* A late `wake()` of an evicted process is left out: it causes a tick that does nothing.
* One mouse click may do several round trips (focus, click, navigate); they are successive events.
* The history stack is left out; back and forward are navigations like others.
* Settings pages, find, downloads, devtools and media progress are left out (section 18).
* What page scripts do is abstracted to what a child may answer: from a session, a new tree
  or none and a timer or none; without one, nothing.
* A restart of the whole browser loses all modelled state, so it is not an action.

**Fairness.** Weak fairness of `UiStep` (a handler that can go on does: no other thread holds
what it needs), of delivering a posted `ExternalWake` (the event loop drains its queue), and of
each I/O thread with its child. The last means that a child answers every request: the network
has timeouts (15 s for HTTP and 10 s for DNS over HTTPS, `src/network/src/lib.rs` 335 and 516)
and the script runtime has limits on loops and recursion. It is an assumption where the code
has no overall limit, see the hazard on timers. Users, timers and crashes have no
fairness. `CHECK_DEADLOCK FALSE`: an idle browser waits for input.

**Bounds.** `MaxTabs` tab ids ever allocated, `MaxEvents` user events and timer expiries,
`MaxCrashes` crashes. They sit in the guards of the events only; no handler that has
begun is cut off. Two sites give shared and separate processes; three tab ids give closing
left, right, at and beside the active tab; four events reach two loads in flight on one process with
a blocking click between them; one crash reaches every respawn path, and a respawn that fails
is a choice at each. The history needed for an id to be used twice is longer: that run has
six events and one site.

## 4. SyncServer, SyncRegister and Gate

**State.** `live`, `tmp` and `backups` are the files of one account: whole, missing (`NoFile`), emptied by
`open` (`Torn`), or with a ciphertext cut short (`Cut`). `srv` is the server's position between two file
operations, `req` its request, `copy` what `backup_current_blob` read, `srvFd` where the file it
has open is to be found (a rename moves it). `op`, `opBlob`, `opFd` are the same for the restore command.
`past` collects every blob that was ever made live by a push.

**Actions.** `Push` is authentication and the version check, then `OpenBackup`, `WriteBackup`
(with the pruning), `OpenTmp`, `WriteTmp`, `Rename`, `Respond`. `fs::write` is an open that truncates
and a write. `WriteFails` and `Die` end it at any of these with any part written.
`RestoreRead`, `RestoreOpen`, `RestoreWrite`, `RestoreRename` are the restore command.

**Abstractions.** One account, as accounts share no file. A file of 8 to 39 bytes is treated like a shorter one:
`read_blob` refuses both. `rename` is atomic and what was written before it is there
after it; the code calls no `fsync`, and whether a power failure may reorder the two on disk is
a matter of the file system that the model leaves out. The deletions of one `prune_backups`
are one step: a crash between two leaves more backups, never fewer. Header parsing
is left out. Retention is at least 1.

**Environment.** With `OperatorWaits` the operator stops the server before a restore and restores
only versions older than the live one. Without it, section 17.

**Bounds.** Versions up to 4 with a retention of 2 let pruning delete twice; two secrets and two
ciphertexts let blobs differ; one death and one restore at any point, and failed writes without bound.
The bounds restrict new pushes only, so deadlock is checked.

**Properties.** `LiveIsWhole`; `SupersededIsKept`; `ImplementsRegister`: every step of the file operations
is a step of the register under `blob <- live`, or changes nothing it sees. A push takes effect at
the rename, and answers are true at that moment. `SupersededIsKept` is stated as long as nothing was
restored, for a reason TLC showed: with versions 2 and 3 in the backups, restore
version 1; the next push backs up version 1, and `prune_backups`, which keeps the highest
numbers, deletes that backup immediately.

**Gate.** What a request passes before it reaches the store. `buckets` counts the requests of each address in its current
window, `lockouts` the wrong secrets for each account and until when it is locked. `Refused` and `Turned` are the two answers 429,
`Guess` is a request with a wrong secret, `Serve` one that reaches the store, `Wait` the clock. An account nobody has pushed to
yet takes any secret. `passed` and `guesses` remember the times of what got through, for `AttemptsAreBounded`:
in any span of a window's length an address gets at most twice its limit through (windows are fixed: a full one may end
just before the next begins), and in any span of a lockout's length, from whatever addresses, at most `MaxFailures` wrong secrets for
one account reach the store between two right ones. Two addresses and six requests let one account be attacked from both; the
limits are 2 per window of 2 and 2 failures per lockout of 3, with a clock up to 4, so that a window and a lockout end and begin again.
Failures are not reset when a lockout ends, so that the next wrong secret locks again at once. The limiter is in
memory, and a stopped server forgets it; it has no state in common with the store.

## 5. SyncDevices

**State.** Each device has its payload in memory and on disk (`local`, `disk`), `ver` (`sync_version`),
and its UI thread's position `pc` within `sync_push`, `sync_pull` and `save_bookmarks`. `server` holds a
version and a payload per server URL. `late` are requests whose sender timed out.
`base` (the blob a device last merged or stored), `removed`, `pruned`, `stored`, `garbled` and `blind` are there
for the properties.

**Actions.** `Bookmark`, `Visit`, `Remove`, `SetServer`, `SyncNow` are what users do; `OpenDisk` and
`WriteDisk` the truncation and the write of `bookmarks.enc`; `PushStored`, `PushRefused`,
`PushAnswerLost`, `PushFails`, `PushTimesOut`, `PushGivesUp`, `Repull`, `Pull`, `PullGarbled`, `PullFails` are the outcomes
the code tells apart; `LateArrives` is a request delivered after its sender gave up; `Crash` and
`Restart` the browser's death and its next start.

**Abstractions.** The UI thread blocks during a request, so a request and its answer are one step. Lists are
sets; since `sync_pull` compares lists, `Pull` may take them to differ even if the sets
agree. Of the settings, only the server's URL is kept. The cap on history is `MaxHistory`: `Merge` leaves the newest visits,
and among those of one second any the lists may put last (`Newest`); `Visit` drops what is first in the list, which is sorted only up
to the last merge, so any visit but the new one may go (`WithVisit`). What a device drops so is in `pruned`, and leaves the server with its next push. A failing save is left out except for a crash in the middle.

**Bounds.** Two devices, one bookmark, two visits at different times, a history of one (of the code's 500), four user actions, two faults, two attempts. A conflict needs
two devices that each add; a second conflict in the same push needs a third store in between;
a late request, a restart or an undecryptable answer is one fault each. The two visits overflow the history of the device
that makes both or of the one that merges the other's, and the bookmark is what must not go with them. Safety only, no fairness;
`CHECK_DEADLOCK FALSE`: idle devices wait for users. Devices are interchangeable
(`SYMMETRY`), and all properties of the run are invariants.

## 6. PageStorage

Cookies, `localStorage` and IndexedDB are kept by one mechanism in three encrypted files; the model has
one of them.

**State.** `file` is `local_storage.enc`: a store, missing or truncated (`Empty`), or not decrypting
(`Garbled`). `proc[n]` is a renderer process with its child and its I/O thread: `pooled` (it is in
`renderers`), `alive` (the child), `seeded` (`storage_seeded`), `store` (the child's own), `queue`, and `io`, the
thread's position: waiting for requests, about to read, to truncate, or to write the file with `data`, or ended.
`ui` is the UI thread: just started, in its event loop, or blocked for an answer (`Wait`). `latest`, `shared`,
`mixed`, `cut`, `cleared` and the fields `used`, `wrote`, `retried` are not in the code: they remember what a page
wrote last and what has happened so far.

**Actions.** `Begin` is an asynchronous page load with `seed_if_needed`; `Startup` the blocking one of the
command line; `Act` any other request; `Returns` and `Respawn` end the wait; `Evict` is the sweep. `Serve` is
`handle_message`: the child takes the seed, the page writes, clears, or does neither, and what changed is reported.
`PersistRead`, `PersistOpen`, `PersistWrite` are `persist_encrypted_merge`: read and merge, truncate,
write, with no lock between threads. `PersistFails`, `Breaks`, `ChildDies` and `Exit` are a full disk, a broken pipe, a dead
child and the end of the browser between any two steps.

**Abstractions.**
* One origin per site, and an origin's entries change as a whole: they are named by the write that made them.
  `merge_into` and `merge_persisted_json` replace origin by origin, so nothing finer is told apart.
* A request, the child's work and its answer are one step of the I/O thread, as in `RendererPool`.
* A write over a file that another thread made longer may leave a tail behind its end, hence `Garbled`.
  A read during another thread's write sees the file before it or after it, or truncated.
* A tab that showed a site waits for the answer to `CloseTab` before the sweep; this is the guard of `Evict`. A process
  no tab ever showed may still have a superseded load running when it is evicted.

**Bounds.** Two processes at a time (`MaxProcs`): one reads the file while the other is at any step of its own save. Three
writes (`MaxWrites`) let each site write and one overwrite; four requests (`MaxRequests`) a load and an act each;
two faults (`MaxFaults`) a dead child followed by a restart. Sites are interchangeable (`SYMMETRY`). Safety only, no fairness;
`CHECK_DEADLOCK FALSE`: an idle browser waits for its user.

**Properties.** `OneProcessKeepsAll`: as long as processes follow one another, and no save was cut short and nothing
cleared, every page finds the newest entries in memory and, between saves, on disk. `OwnWritesStay`: whatever other processes
do, no seed replaces what a page of this process wrote. The exception is a process that
`send_with_respawn` gave its predecessor's `Navigate`: it has taken that seed and is not marked as seeded, so that its next load seeds it
again, from a file others may have changed. The conditions are not for convenience: without each, TLC finds a
counterexample. Two processes put each other's entries back (section 17, item 1); when two saves
meet, one is lost; a save that is cut short leaves a file that does not decrypt and is then taken for empty; and a
cleared origin is absent from the report, so that the merge keeps its old entries on disk.

## 7. PageSessions

What happens inside a renderer process while it handles a message, which `RendererPool` and `PageStorage` take as
one step: `handle_message`, the `Session` of each tab, and the times the app keeps for it.

**State.** `mem` is the process: `store` (`local_storage`, one item for each origin), `dirty` (its version
differs from `last_reported_local_storage_version`), and `session[t]` with its origin, `pending` (`storage_events`),
`timers` in the order they were set, `next` (`nextTimerId`) and `jobs`, the promise jobs the interpreter holds. `run`
is where `handle_message` is: the message's tab, the session whose scripts run, the changes drained and what is left
to fire (`Skip` passes over a change of another origin than the session's, `Fire` takes one that is `Concerned`). `copy` and `wake` are the app's: the store as last reported, and `next_wake_at`. `knows`, `relayed`, `nudged`
and `aborted` are not in the code: what the scripts of a page were last told of its item or did to it; whether a
storage handler ever changed the store; tabs whose timers such a handler set since their last reply; tabs with a
dispatch that was cut off.

**Actions.** `Navigate`, `CloseTab`, `Interact` and `Tick` are the messages. `Script` is one thing a script does
through the natives it has (`Deeds`): store, remove, set or clear a timer, resolve a promise. `ScriptEnds`
and `DispatchFails` end a piece of script, with and without `run_jobs`; a page load runs scripts, jobs, load listeners,
jobs; an event may be followed by another (a keydown by an input). `RunTimer` and `TimersEnd` are the loop of `tick`,
which reads the clock at every turn; `RunJob` and `JobsEnd` are `run_jobs`. `Drain`, `NextTab`, `Fire` and `Reply` are
the tail: `next_wake_in_millis` is read first, the tab's own changes are drained and fired into the other sessions of
the origin, in the unspecified order of a hash map, each followed by `run_jobs`, and the reply carries the store if it changed.

**Abstractions.** One key in each origin; `clear` is `removeItem`. A callback or handler does one thing or nothing,
which also stands for one that throws. Time is discrete and passes only while the process waits and between timers: the
time the rest of a message takes, by which wakes are later than they should be, is not counted. At most two
dispatches follow each other in one message.

**Bounds.** Three tabs on two origins: the source of a change, a tab that hears of it, and a third that shares the origin
or does not. Four messages (`MaxMessages`) are three loads and one more; ticks are not counted. Three things done
(`MaxOps`) let a change be made, be answered by a handler with a promise or a timer, and that do something in turn. Tabs,
origins and values are interchangeable (`SYMMETRY`). Safety only; `CHECK_DEADLOCK FALSE`: the process waits for messages.

**Properties.** Each speaks of the time between messages and has the exception the code needs. `PagesKnowStore`: every
page knows what the store holds for it, unless a storage handler ever changed the store: such a change stays in its own
session's `storage_events`, which nobody drains until that tab gets a message. `ReportsAreComplete`: the app has the store
as it is, whoever changed it, handlers included, since the report is made last. `TimersAreAwaited`: for every timer the app
has a wake no later than it is due, although it is only told the first and each reply replaces it; timers set by a
storage handler are excepted, since the reply is another tab's. `JobsAreDone`: no promise job waits for another message,
unless the interpreter cut off a dispatch, after which `dispatch_event` returns before `run_jobs`.

## 8. PageInput

Keyboard and mouse on a page with form fields: the app decides from the page as it was last rendered where a key or
click goes, the renderer's session acts on the page as it is, and the page's listeners run in between.

**State.** `dom` is what the properties tell apart: the length of each field's value, which elements have the
`checked` attribute, and which are in the document. `focused` and `cursor` are the session's. `tree` is the tab's
`layout_tree` (its boxes and the one marked as focused), `keys` its `focused_page_input`, `outlined` its
`keyboard_focus`, `loading` a navigation begun and not yet applied. `handling` is the message being handled: what it is,
its target, and where in it the renderer is. `refused`, `cut` and `meddled` are not in the code: the last `Focus` was refused; a
listener of this keydown shortened the field; a script checked something or put an element back.

**Actions.** `Press`, `Activate`, `Point`, `MoveFocus`, `FocusNode`, `LeaveField` are what users do: a key for a field, Enter or the space bar
on something else, a click with the mouse or an assistive technology, Tab, an assistive technology's focus, leaving a field.
`Keydown`, `Edit`, `EditPanics` continue `handle_text_input`; `ClickListeners` and `Default` `dispatch_click`; `Submit`
and `ChangeListeners` belong to both. They are cut where listeners run: `Listen` lets those of one event change one
thing. `Typed`, `Clicked`, `Activated`, `Assisted` are what the app does with the answer: `Clicked` sends a
`Focus` or `Blur` first, `Activated` looks up the focus in the new tree. `TimerFires` is a timer's script, `PageArrives` a new page.

**Abstractions.**
* A text is its length. All radios have one name. Types and forms of elements do not change, and nothing is hidden.
* A script takes one element out of the document or puts one back, not a whole form; an element that is out keeps its
  pointer to the form above it, as `set_text_content` leaves it.
* The address bar, find bar and console do not have the keys; going to them is `LeaveField`, as both call
  `blur_page_input_if_focused`.
* The old page is gone when the navigation is applied, not when the renderer has the new one (section 17).
* Nothing crashes other than by the panic; that a click may respawn the process is in `RendererPool`.

**Bounds.** Two fields (one outside the form), two radios and a submit button: a focus to move, a key to go to
the wrong field, a group to have two checked. Texts up to two characters (`MaxLen`), one at first, so that cursors are before, in
and after them; four things users do (`MaxInputs`) focus a field, move on, and do one thing in each; two things scripts do (`MaxDeeds`)
change a field under the cursor or take out what was clicked, and one more.
There is no link: following one brings a page on its way, as a submission does; the model and the proofs have both. Safety only; `CHECK_DEADLOCK FALSE`: the app waits for
its user.

**Properties.** `FocusAgrees`: whatever order clicks, Tab, assistive technologies, scripts and navigations come in, the app and the session do not have the
focus on different elements, so keys edit the field that shows the cursor; excepted is the time after a refused
`Focus`, which `handle_click` ignores. `EditsInRange`: when a key edits, the cursor is within the text; excepted is a keydown
listener that shortens it, the case that panics (section 17). `AtMostOneChecked`: a radio group has at most one
checked member, though the clicked radio or others are taken out by the click's own listeners.

## 9. Dom and IndexedDb

**Dom: state.** A few memory cells, each with a node or free. `kids` and `up` are a node's children and its weak pointer
to its parent, `id` its `NodeId`. `held` are the nodes scripts have objects for: together with the children of what is alive they
are the reference counts, and `Collect` frees a node nothing refers to. `heard` is the registry of
listeners, `shown` the app's layout tree; both know nodes by id only. `made` is the global counter ids come from; `born` tells apart the
nodes a cell has held, which no code can. `session` is a script, a click being dispatched, idle, or gone.

**Dom: actions.** `CreateElement`, `AppendChild`, `SetText`, `SetClass`, `AddEventListener`, `Search` (`querySelector`) and `FindById` are
calls scripts make; `RunScript`, `Click` and their ends are the messages around them; `Render` gives the app a new tree, `Navigate` a new
document. `AppendChild` takes the node out of its old parent and leaves what the code leaves: pointers of nodes that were taken out by
setting text still name their old parent. A walk that would not end, or a borrow that panics, ends the session.

Where a walk comes to (`Reached`, `Under`, `ancestor_chain`) is the least set of nodes that it does not leave, so that walks without an end have a
meaning. The two searches (`query_selector_all` through `Found`, and `query_selector_first`) are the code's recursions, over places: the `i`-th child of a node, from which a search
goes down and then on to the next. They are asked of the session's document only, where they have a solution (section 16).

**Dom: properties.** `DocumentIsSound`: a node is listed once, by the parent it points to, and the document stays a tree, though scripts can append a node to its own
descendant (outside the document): looking down for a node and dispatching up from it agree, which leaves no walk without an end. `QueriesAgree`: `querySelectorAll` finds
all elements of the document that match, each once and in document order, and `querySelector` finds the first of them. `IdsNameTheirNode`: an id the app
or the registry remembers is answered by the node it was taken from or by none, though memory is used again and pages change.
Four cells hold the document and up to three elements, so that one can be freed and its place used again; six calls (`MaxCalls`) let one be made, moved
twice, dropped and asked for.

**IndexedDb: state.** `db` is the one database of an origin, with its object stores; `jobs` the microtasks queued (the events that answer
a call), `handle` what the page was given, `tx` its latest transaction, `change` whether the store moved since the last reply, `saved`
what the browser has on disk. The keys a store generated and the version its upgrade handler was last called for are remembered for the properties.

**IndexedDb: actions.** Every method of the prelude that changes something, and `Read` for those that do not: `Open`, `DeleteDatabase`,
`CreateStore`, `DeleteStore`, `Transaction`, `Put`, `Delete`, `Clear`. A call takes effect at once; `Run` starts a script, `RunJob` runs one event,
`Reply` saves, `Restart` loses what was not saved.

**IndexedDb: properties.** `RecordsAreWhole`: a record and an object store are listed once, in memory and after a restart, and no key is
generated twice. `SavedWasOffered`: the version is raised before the upgrade handler runs, but never saved so. One object store with
two keys and a quota of two records meets every refusal; two versions one upgrade of an existing database; seven calls (`MaxOps`) an
open, its upgrade, three writes and a restart.

## 10. Chrome

**State.** `tabs` and `active`. A tab is a record of what `Tab` in `src/app/src/main.rs` keeps: the page (`url`, `live` when it is of a
renderer), `scroll`, the history (`back`, `fwd`), the navigation on its way (`pending`), the address bar (`text`, `cursor`, `sel`,
`editing`), the find bar, the developer tools, the focus, and the playback of the page's sound. `made` says of each thing kept about a
page (matches, console, snapshot, selected node, decoded sound, stream, dials) whether it is of the page shown, or was made while another page was on its
way; when that page is shown these become *stale* and *left*.

**Actions.** One per key (`CharTyped`, `Backspace`, `Arrow`, `Enter`, `Escape`, `NavigateBack`, `NavigateForward`, `ReloadKey`, `Find`, `FindPrevious`,
`FocusMove`, `Scroll`, `ToggleDevTools`), per area clicked (`ClickButton`, `ClickBar`, `ClickTools`, `ClickPage`, `ClickMedia`) and per tab command; `Arrive` is a reply, `Wake` a
page's timer, `Sound` the audio thread, `MediaTick` the progress tick. Operators take a tab to a tab or to the set of tabs it may become; an action
applies one to the active tab. Requests to a renderer are answered at once here; that they may be late or fail is in `RendererPool`.

**Bounds.** Two tabs over a page of the browser's own and two pages of the web, one longer than the window and with two search results; addresses of one
and two characters; four things a user does (`MaxEvents`); sounds of bounded `Duration`. Four events load a page, start something on it, leave it and come back.

**Properties.** `LeftoversAreLate`: whatever way a page is left, what the tab kept about it goes with it; only what was made while
its successor was loading outlives it (the list of those is in section 17). `HistoryRoundTrip`: Back and then Forward lead to the address, the place on the page and the
history one came from. It is stated of a tab with nothing on its way, because two quick Backs lose a page (section 17).
`PlaybackAgrees`: what the page shows of its sound is what is heard, through plays, pauses, seeks, mutes and ends; exempt are pages about to be
replaced, sounds that outlived their page, and a device that refused to go on after a seek. `AddressBarOK`: cursor and selection stay in the text
although late replies replace it while it is edited.

## 11. Window

**State.** `now`; `inner`, `lastSize`, `pendingResize`, `resizeAt` of the debounced resize; `surface`, `texture` and `shown` for what is drawn on, the
picture stretched over it, and whether it is on screen; `wakeAt` and `armed` (the loop's `ControlFlow`); of the browser `level`, its setting, `canvas`,
`laid`, and when each source is `due`. One dimension of sizes stands for both, and 0 is a minimised window.

**Actions.** One per event the loop handles: `Resized`, `ResumeTimeReached`, `ExternalWake`, `Pointed`, `KeyboardInput`, `RedrawRequested`; `Passes` is time.
Each ends in `Shows`, which takes over a frame or keeps the old one and arms the loop for the earlier of the two deadlines.

**Properties.** `NothingIsForgotten`: the loop is never armed past the moment a script, the sound, or a resize needs it, although there is one sleep for
all of them and every event arms it anew. `ClicksLandWhereShown`: a point of the window is taken to the place of the picture shown there, also while the
window has been resized and the page has not. Safety only: that the loop wakes when armed is the window system's.

**Bounds.** Two sources, sizes 0, 1 and 3, a letterbox of 2, a debounce of 2, delays of 0 and 2, a clock up to 3: a resize and a source can each come first,
at once, or be overtaken by another.

## 12. Selectors, Matching, Declarations, Cascade, Placement, Boxes, Layout, Painting

These are the code's algorithms as operators over a document given as functions of its nodes. `MCEngine` gives them bounded inputs: a
behaviour picks a document, works out its styles or its page, and stops. The properties compare the output with definitions
that do not follow the code. All but `Matching`, `Declarations` and `Placement` use recursive operators and are outside the prover's reach.

* `Selectors`: from the tokens of a selector to compounds and combinators, specificity, and what one compound matches. `Matching`: whether a chain of compounds
  matches, from the right, trying ancestors and earlier siblings. `MatchingIsSearch`: it finds a match exactly if there is some way to give each compound an
  element; of `Matching` this is also proved (section 16). Every selector of up to three compounds with all four combinators and the pseudo-classes that count, on all five-node trees of three kinds of
  elements and texts.
* `Declarations`: the declarations of the rules that match, sorted by weight and order and applied one over the other, and over them the style attribute.
  `Cascade`: parsed sheets, inheritance, font sizes, and the browser's own sheet rule by rule. `HeaviestWins`:
  each property has the value of the heaviest claim to it, or the parent's; for what an element itself is given this is also proved (section 16). Up to three blocks
  and two style attributes.
* `Boxes`: building the tree, edges, sizes, margins that meet, the room floats leave, flex lines and main sizes, grid tracks and named areas. `Placement`: which
  cells of a grid each item gets. `Layout`:
  the pass itself. `LayoutBox` gives each kind of container the layouts of its contents as a function, as the code's `layout_box` recurses from within each.
  `FlowKeepsApart`: words, images and floats never cover one another nor leave their container, no word is lost, and adjoining blocks are the larger of
  their margins apart. Flows of up to three children, floats and inline runs at two widths. `ItemsKeepApart`: grid and flex items never overlap, a grid item has
  the area it names or is at the first place that fits it after those before it, and in a row with one line free and missing room is shared as asked. Of where
  grid items go this is also proved (section 16). Up to four grid items with spans and named areas, and flex rows of three.
* `Painting`: the list of areas painted, in order, and search results. `PositionsAgree`: absolute boxes are where their offsets say, text moves with its
  box, a click goes to the element seen there, and the controls of a medium are hit where they are painted. Three nested boxes with every position; media of
  nine sizes.

**Abstractions.** Integers in place of floats. A word is its width; a text a sequence of words. Percentages other than of widths and colours other than names are
left out, and so is what a parser does with malformed sheets, except that a selector that does not parse is dropped. One pixel stands for a glyph's
rounding.

## 13. Bars

**State.** The canvas (`wide`, `high`), the number of tabs, the page's height and scroll, the open bars and tools, and the rows and scroll of the two views of the
tools. A unit of length is four pixels.

**Actions.** `CanvasResized`, `Wheel`, `ToggleTools`, `PressTools`, `PageAnswers`, `TurnFinding`. `Repaint` is the list of what is painted, in order; `Hit` what
`handle_click` does at a place. They are written apart, as in the code.

**Properties.** `BarsTellTruth`: at each corner of each thing painted a click does what the thing seen there is for, and the scrollbar's thumb
is in its track and at its end when the page is. It is stated where there is room for the controls (`Roomy`); below, they lie on one another (section 17). Passive
are the scrollbar, the find bar and the rest of the tree's last row, which let clicks through.

**Bounds.** Three canvases (too narrow for the buttons, too low for the tools, and one with room), one or three tabs, trees of none, 15 and 16 rows (one more than
fits), two page heights, logs of none and 14 messages.

## 14. Fetch

**State.** `page`: what each process shows; `jar`: the cookies of each fetcher, by partition; `calls`: what each fetcher is fetching, with its place in the redirect loop;
`cache`: the responses all processes share on disk. Each process has its main fetcher and a worker thread for images, whose copy has no cache and whose cookies
are dropped.

**Actions.** `Navigate`, `Subresource`, `ScriptFetch`, `Download` start a fetch; `OpenBatch`, `FetchImage`, `CloseBatch` are the image threads; `Redirect`, `Answer`, `Fail` are
what servers and the network do; `Use` takes the result; `Tick` is the clock the cache ages by.

**Properties.** `StoredIsOwnAndFresh`: no cookie and no cached response received on one site is used on another, whichever process kept it, and a response is given out
only before its age is up and never for a form. `HopsAreAllowed`: no request is sent that the list names, by path and query if it is the first (`PathAndQuery`) and by path alone after a redirect (`UrlPath`), all judged against the
same page; and a form's body goes on only past redirects that ask for it. That both are judged alike, as the comments say, is `SameCallOnEveryHop`: it fails where a place is listed
by its query (section 17).

**Bounds.** Two sites of which one has a subdomain, a tracker with one path listed and one listed with a query only, local files, one process each; two redirects (`MaxRedirects`, of the code's ten), two fetches (`MaxRequests`), ages 0
and 1 with a clock up to 1 (`MaxTime`). Two fetches make one keep what the other may find. Safety only; a behaviour ends when its fetches are used up.

**Abstractions.** A URL is its host, its path, its query, and whether it has a port or tracking parameters; a map of cookies or responses is a function changed by `Put`. A body is where it came from; a put to the disk cache is one step (section 18); names and connections are one step that may fail; one cookie name stands for all. How cookies outlive their process is in
`PageStorage`.

## 15. What the runs show

| Run | Config | Result | Distinct states |
|---|---|---|---|
| `pool_safety` | `RendererPoolSafety.cfg` | all hold | 1.85 million |
| `pool_liveness` | `RendererPoolLiveness.cfg` | both hold | 146 thousand |
| `sync_server` | `SyncServerCrash.cfg` | all hold | 500 thousand |
| `sync_devices` | `SyncDevices.cfg` | both hold | 4.2 million |
| `page_storage` | `PageStorage.cfg` | all hold | 4.1 million |
| `page_sessions` | `PageSessions.cfg` | all hold | 1.9 million |
| `chrome` | `Chrome.cfg` | all hold | 1.5 million |
| `engine` | `Engine.cfg` | all hold | 260 thousand |
| `fetch` | `Fetch.cfg` | both hold | 209 thousand |
| `page_storage_reports`, `page_input_backspace`, `fetch_redirect_query` | `PageStorageReports.cfg`, `PageInputBackspace.cfg`, `FetchRedirectQuery.cfg` | violated, section 17 | until the first |

* `pool_safety`: `TabsAreSound` (`TypeOK`, of which the page of a tab is the part that could go wrong, and `TabStripOK`: the index always names one of distinct tabs), `ReferencedSitesPooled`
  (no sweep kills a process that a page or a load in flight needs, even inside another handler),
  `NoVainWait` (a blocked UI thread has its message queued, its reply waiting, or a
  disconnected channel), `BlockingReplyIsOwn` and `PendingReplyIsOwn` (nobody takes another request's
  reply, for queued loads as long as the process was not replaced), `ActiveTabSurvivesClose`.
* `pool_liveness`: `UiComesBack` (every handler ends, whatever dies) and `NavigationEnds`
  (without a crash every load is polled and applied: no wake is lost).
* `sync_server`: section 4, with `AttemptsAreBounded` of the gate.
* `sync_devices`: `NoBlindOverwrite` (no push replaces a payload its sender has not merged) and
  `StoredSurvives` (what a server once stored stays, unless a user removed it or it is a visit that a full history dropped), over lost answers,
  late requests, conflicts, crashes while saving. Both exclude histories with an answer that
  could not be read, for which the code is known to overwrite (see hazards).
* `page_storage`: section 6, and `IndexedDb` of section 9; a behaviour is of sites and their processes, or of a database. `page_sessions`: section 7, with `NothingIsLeftWaiting`, which is `TimersAreAwaited` and `JobsAreDone`.
* `chrome`: sections 8, 10 and 11; a behaviour is of the tabs, of a page's fields, or of the window. `FieldsAreSound` is `EditsInRange`
  and `AtMostOneChecked`.
* `engine`: sections 12 and 13, and `Dom` of section 9; a behaviour is of one input to style or layout, of the bars, or of a document and its scripts.
* `fetch`: section 14.

The other configurations check one claim each and end in a counterexample; section 17 says of which.

## 16. Proofs

Each theorem is about every value of the constants that meets the assumptions its module names: any number of
sites, devices, accounts, versions, faults and steps.

| Module | Theorem | Statement |
|---|---|---|
| `RendererPoolProofs` | `TypeCorrect` | `Spec => []TypeOK` |
| | `TabStripCorrect` | `Spec => []TabStripOK` |
| | `TabsSound` | `Spec => []TabsAreSound` |
| | `Invariant` | `Spec => []IInv` |
| | `ReferencedSitesAreKept` | `Spec => []ReferencedSitesPooled` |
| | `WaitsAreAnswered` | `Spec => []NoVainWait` |
| | `BlockingRepliesAreOwn` | `Spec => []BlockingReplyIsOwn` |
| | `PendingRepliesAreOwn` | `Spec => []PendingReplyIsOwn` |
| | `ActiveTabSurvives` | `Spec => ActiveTabSurvivesClose` |
| `SyncServerProofs` | `TypeCorrect` | `Spec => []TypeOK` |
| | `Invariant` | `Spec => []IInv` |
| | `LiveStaysWhole` | `OperatorWaits => (Spec => []LiveIsWhole)` |
| | `SupersededStays` | `Spec => []SupersededIsKept` |
| | `Refinement` | `OperatorWaits => (Spec => ImplementsRegister)` |
| | `AttemptsBounded` | `GateSpec => []AttemptsAreBounded` |
| `SyncDevicesProofs` | `TypeCorrect` | `Spec => []TypeOK` |
| | `Invariant` | `OneServer => (Spec => []IInv)` |
| | `NoBlindOverwrites` | `OneServer => (Spec => []NoBlindOverwrite)` |
| | `StoredStays` | `OneServer => (Spec => []StoredSurvives)` |
| `PageStorageProofs` | `TypeCorrect` | `Spec => []TypeOK` |
| | `Invariant` | `Spec => []IInv` |
| | `OneProcessHandsOn` | `Spec => []OneProcessKeepsAll` |
| | `OwnWritesAreKept` | `Spec => []OwnWritesStay` |
| | `DbInvariant` | `DbSpec => []DbInv` |
| | `RecordsWhole` | `DbSpec => []RecordsAreWhole` |
| | `SavedOffered` | `DbSpec => []SavedWasOffered` |
| | `DomInvariant` | `DomSpec => []DomInv` |
| | `DocumentSound` | `DomSpec => []DocumentIsSound` |
| | `DocumentWalksEnd` | `DomSpec => [](~ Endless(Doc) /\ ...)`: no walk of the document hangs |
| | `IdsName` | `DomSpec => []IdsNameTheirNode` |
| | `SearchesAgree` | `DomSpec => []QueriesAgree` |
| | `MatchingIsComplete` | `ChainMatches(d, ...) <=> Assigned(d, ...)` for every document and chain |
| | `GridPlacement` | `PlacedWell(items, columns, named, PlaceItems(...))` for every grid |
| | `HeaviestDeclaration` | `SpecifiedWell(rules, weight, inline, Specified(...))` for all rules and style attributes |
| `PageSessionsProofs` | `TypeCorrect` | `Spec => []TypeOK` |
| | `Invariant` | `Spec => []IInv` |
| | `PagesKnow` | `Spec => []PagesKnowStore` |
| | `ReportsComplete` | `Spec => []ReportsAreComplete` |
| | `NothingLeft` | `Spec => []NothingIsLeftWaiting` |
| `FetchProofs` | `Invariant` | `Spec => []IInv` |
| | `HopsAllowed` | `Spec => []HopsAreAllowed` |
| | `SameCallWithoutQueryRules` | `NoQueryRules => (Spec => []SameCallOnEveryHop)` |
| | `StoredOwnAndFresh` | `Spec => []StoredIsOwnAndFresh` |
| `InterfaceProofs` | `InputInvariant` | `InputSpec => []InputInv` |
| | `InputTypeCorrect` | `InputSpec => []InputTypeOK` |
| | `FocusesAgree` | `InputSpec => []FocusAgrees` |
| | `FieldsStaySound` | `InputSpec => []FieldsAreSound` |
| | `WinInvariant` | `WinSpec => []WinInv` |
| | `NothingForgotten` | `WinSpec => []NothingIsForgotten` |
| | `ClicksLand` | `WinSpec => []ClicksLandWhereShown` |
| `ChromeProofs` | `Invariant` | `Spec => []IInv` |
| | `BarsSound` | `Spec => []AddressBarOK` |
| | `NothingStale` | `Spec => []LeftoversAreLate` |
| | `SoundShown` | `Spec => []PlaybackAgrees` |
| | `RoundTrips` | `Spec => []HistoryRoundTrip` |
| | `BarsInvariant` | `BarsSpec => []BarInv` |
| | `BarsTruth` | `BarsSpec => []BarsTellTruth` |

**RendererPool.** `BlockingReplyIsOwn` alone is not inductive: it speaks of replies that have arrived and says nothing of
the request that is still queued, nor of an id that was not handed out yet. `Matches(p, id, t, k, u)`
is the strengthening: everything process `p` holds under `id`, queued or answered, belongs to a message of
kind `k` of tab `t` for page `u`, and `id` was handed out. `Evolves(p, q)` says that `q` is the same
incarnation of `p` some operations later and that whatever matched in `p` matches in `q`; one lemma
per operation shows that it `Evolves` (`EnqueueKeeps`, `AnsweredKeeps`, `BrokenKeeps`, `WokenKeeps`,
`KilledKeeps`, `WithoutKeeps`). `IInv` has two halves. `Inv1` is types, tab strip and a well-formed
pool, proved first and on its own; `Inv2` adds that referenced sites are in the pool, that waits are not in vain,
that the current call matches (`CallMatches`), that pending navigations name incarnations
that existed (`Incarnations`), and that they match as long as theirs lives (`PendingMatches`). The last
needs the incarnation: without it the statement is false, as `RendererPoolClaims.cfg` shows.
Each half is preserved by lemmas for groups of actions, put together in `NextInv1` and `NextInv2`.
`ActiveTabSurvivesClose` follows from the types and the tab strip: only a close removes an element.

**SyncServer.** `LiveIsWhole` says nothing of the temporary file that becomes live at a rename, nor of the backups a
restore reads. `WInv` does: only one of server and operator is between opening the temporary file and renaming it
(`OneWriter`), so that what is renamed is whole; the request being stored still expects the live version (`StillAccepted`); what the
operator has read is an older version (`GoesBack`); the live file is a blob from `past`; and only the backup of the live
version may be cut short, the older ones are whole and from `past` (`OldBackupsWhole`): a version is
backed up while it is live, and a failed backup is repeated before the version is superseded. All this holds while
`Alone`: the operator waits, or has not restored. `KInv` adds, before any restore, that versions only go up and that
`past` has every newest version among the backups (`Kept`); that pruning keeps them is a fact about
cardinalities, `PrunedKeepsLast`. `SupersededIsKept` speaks only of histories without a restore, so that its theorem
needs no assumption on the operator. The other two do: `SyncServerRestoreLive.cfg` is the counterexample. The refinement
goes action by action: `PushRename` is `Push`, the operator's rename is `Restore`, answers are answers,
and every other step leaves `live` and `reply` alone.

**SyncDevices.** Who holds the server's version has merged what is stored there: `KnowsBase` says that the version which a
device, or a delayed push, holds is that of the payload it merged last, and `UpToDate` that it is not above the server's and
that, if it is the server's, nothing stored is missing, but for what was removed or pruned (`Gone`). `MergeKeeps` and `VisitKeeps` say of a merge and of a visit that whatever they drop goes to `pruned`. A push is accepted at the server's version only, hence is never blind,
and the server's payload after it has all that was stored. Both need that a version names one payload, which holds
for one server and fails for two (`SyncDevicesSwitch.cfg`); they exclude, as the properties do, histories with an
answer that could not be read.

**PageStorage.** What a page reads depends on seeds that are still in a queue and on saves that are half done. `Shape` says where
a seed may be: in a load at the head of the queue, with no save before it is taken; and that a process that was never seeded is idle or
waited for. With `Own` (before the seed nothing was written) this gives `OwnWritesStay` for every process that was not
retried, whatever is in the file. The rest, `XInv`, is about processes that follow one another (`InTurn`, `One`): between saves the file has
what pages wrote last (`Disk`); at each step of a save, what it is about to leave there is that (`Saving`); and a living process finds it, or
has a seed before it that is it, or has yet to be given one (`Storing`, `Fresh`). `AskedOK` is for `send_with_respawn`: the request kept for the retry
carries the seed that a new one would carry, because the process that failed it has saved nothing. It needs
`ValuesAssumption`, that the values standing for a missing file, no seed and no wait are different from stores and waits.

**IndexedDb.** What stores and databases list is preserved call by call; that a removed entry leaves a list without holes or doubles
is `WithoutListed`, once for both. `SavedWasOffered` looks at a moment when no event is queued. `Offers` is for the others: either nothing queued raises
a version and the one in memory was offered, or the last upgrade queued is to the version in memory; calls put theirs at the
end, events are taken from the head, and a restart loses both memory and queue.

**Dom.** A list and a pointer are kept in step by `append_child` alone; `set_text_content` and the death of a node each change one of the two. What holds is one-sided
(`TreeOf`): who is listed is live and points to who lists it, once; a pointer to a former parent is only known to name a live node, or none. Freeing keeps that
because what a kept node lists is kept (`AliveKeeps`). That the document is a tree follows: its root has no parent, and
who lists a node below itself is below it too, so that no walk from the root ever enters such a loop (`BelowIsAbove`). Those arguments are about least sets
(`ClosureHas`, `ClosureLeast`, `ClosureFrom`), where an induction over paths would be out of the prover's reach. `DocumentWalksEnd` draws the conclusion for
the recursions of the code.

`SearchesAgree` is about what two such recursions return. No bound on the document is assumed: its nodes are finitely many because ids are numbers the
counter has passed and no two nodes share one (`LiveFinite`). In a document without a loop every set of its nodes has one with none
of the set below it (`Lowest`), and every set of places one from which the walk comes to no other of the set (`BeforeGrounded`). From this there follow that a recursion which asks for two
results further down has a solution (`TwoCalls`, proved with the library's theorems on well-founded relations), and an induction over places (`WalkInduction`): if some place failed, one of them
would lead to none that fails. With it a search holds exactly what is below its place (`WalksFound`), in order and once (`FoundAtOK`), because what is below one child is neither below nor
before another (`Siblings`, `Precedes`), and the first search returns the head of the other (`FirstIsHead`).

**Matching.** The search for a chain is one recursion over pairs of a compound and a candidate. Each call is for an earlier compound or an earlier candidate of the
same one, because nodes are numbered in document order (`CandidateIs`), so that the recursion has a solution (`MatchWalks`, by `TwoCalls`). What a loose combinator relates to an element is
what its search comes to from the first candidate on (`RelatedIs`), and a way for a chain is one for the chain without its last compound, to a related element (`WayIs`). At the pair with the
least sum where the search is wrong both would be right (`TriesFind`). The assumptions, that parents and siblings come in document order and that only elements match compounds, are
checked of the documents and selectors of `MCEngine` (`DocumentsAndChains`).

**Placement.** The loop of `place_items` over cells is a recursion over all cells of a grid that has no last row. From any set of cells one can be picked whose next cell is not
in the set (`WalksDown`): below the last row that is taken the walk ends, and above it the last cell of the lowest row does. So the recursion has a
solution, and it is the first cell with room from where the walk starts (`FreePlaceIs`). Over the items, `Filled` is the inductive invariant: what is taken is what has a name
and what was placed, all of which the walk is beyond, and it stands right behind the last. The latter makes "first" a fact of the whole grid: a cell between that corner and the walk is
one the last item covers (`RoomFills`). Assumed are a column at least, spans of at least one, none wider than the grid, and finitely many named areas; that `Layout` gives such is
checked of the grids of `MCEngine` (`GridIsPlaced`).

**Declarations.** The sort is given by what it does: at each index the one element with that many before it. That there is one, for any finite set in a linear order, is a counting
argument: ranks are below the number of elements and differ from element to element, so that each is taken (`RanksCount`); hence the list has every declaration, in order (`RankedIsSorted`).
The sort key is such an order (`EarlierOrders`) because weights are compared from the left and places break ties. Applying a list of declarations is a recursion over its length, and `Told`
its inductive invariant: after some of them, each property has what was declared last among these, and otherwise what it had (`SetAllIs`). Last in the list is then the same as outweighed by none.
Assumed are finitely many rules that match, and specificities of three numbers; the latter is checked of the selectors of `MCEngine` (`WellSpecified`).

**Gate.** Windows are fixed, so that the bound on any span is not visible in one bucket. `BucketOK` relates a bucket
to the times of what passed: what its window let through is at the end of them, all before came no later than
the window's start, and all but `MaxPerWindow` of that a whole window earlier. Two requests that are twice the limit
apart are then at least a window apart. `LockoutOK` is similar: as many failures as recorded, and from the limit on a lock that
lasts a lockout from the last.

**PageSessions.** A page knows the store or will be told of the last change; but between a write and its event the change is in one
of four places. `KnowsOK` names them: the `pending` list of the session that wrote, the `changes` taken from it (for the pages in
`left`), the `todo` of the page whose handlers run; and in each the last change has the value stored. That the list a page is given
is about its origin at all is `ListsOK`. `WakesOK` is similar: every timer has a wake in the app or, while a reply
is made, in that reply. Both lean on `Placed`, which says for each stage of a message whose scripts run and which lists are empty, on `Reported` (the app has a copy
of the store, or it is dirty), and on `JobsOK` (nobody else has promise jobs).

**Fetch.** `Fine(c)` follows a fetch from hop to hop: what it carries and was given is of its own site, the hop it is at is allowed by what it was judged by (`JudgedPath`), and it has a body only if
every redirect so far was a 307. What is kept in jars and cache under a partition was received on that site
(`CookiesOwn`, `EntriesOwn`). If no place is listed by its query alone (`NoQueryRules`), what both judge by comes to the same, and `SameCallOnEveryHop` follows from the invariant. `Types` has the one fact about processes: a fetch of a page is made while nothing else of its process is fetched by others.

**PageInput.** The browser, its copy of the tree and the session each have a focus, and a message changes them at different times.
`AppAgrees` is `FocusAgrees` for the time inside a message; it holds there because the browser's copy never shows another
focus than the session's (`TreeAgrees`). `KeyPlaced` says of a key on its way what was true when it was let through, where
scripts cannot have changed it since.

**Window.** The wake-up and the time the loop is armed for are functions of what is due and of the resize waited for (`WakesAgree`); a resize
the window has kept was laid out or is waited for, with the size to come (`ResizesAgree`).

**Chrome.** A tab is `Good` if its address bar and matches are sound (`BarOK`, `FoundOK`), nothing of an earlier page is taken for this one's
(`MadeOK`), a stream is of fetched sound and ticks (`Streams`), and the page shows what is heard (`Tells`). Each of the
model's operators takes good tabs to good tabs, one lemma each, so that an event preserves `IInv` by its operators' lemmas.
`MadeOK` is stronger than the property: while a page is on its way, nothing of the page being left may be kept but what comes late.
Some operators are built from others that leave a tab half changed: a `Semi` tab's page was not told yet, a `Bare` one
was left, and one `Ready` may be replaced. `HistoryRoundTrip` is about two steps and their loads; `BackIs` and `ForwardIs` say what
the histories and addresses are after each.

**Bars.** `BarInv` says that page and tree are scrolled within their heights; the rest is geometry. A picture `Paints` something at a place if the
last of its regions that spans the place is that, or it `Misses` the place; a picture on top of another decides unless it misses. One lemma per bar
says what it paints at every place and that it is what a click there does, for canvases of any size in `Roomy` and any number of tabs: which tab a place is in is computed by a
division on one side and by the tabs' rounded starts on the other (`TabAtIs`). This is shown for every place of the canvas but the four pixels above and below a button
of the address bar, where the button answers and the bar is seen (`OnLedge`, section 17); no region has a corner there, which is why the property speaks of corners.

**Only model-checked.** Liveness (the prover has no reasoning about fairness and `ENABLED` that would reach it), and the
properties of the algorithms of section 12, which are written with recursive operators that the
prover does not take (of `MatchingIsSearch`, the part that is about chains is proved, and what one compound matches is not; of
`HeaviestWins`, which declaration an element's own style takes, and not what it inherits or how large its font is; of
`ItemsKeepApart`, which cells grid items get, and not the pixels of their tracks). Induction over data cannot be had from the library's theorems,
whose hypotheses are about operators; where a proof needs it (a finite set of numbers has a greatest member, `Bounded`
in `InterfaceProofs`; searches of a document, above), the smallest counterexample among the subsets of a finite set takes its place.

## 17. Where the code and its comments disagree

Three runs each check one claim of the repository and end in a counterexample.

1. **Old entries reported back** (`page_storage_reports`). A process is seeded with the entries of all sites and reports
   all it holds, the seeded ones included; its report takes back what another site's process has written since. Comments
   (`src/network/src/lib.rs` 1033-1043, `src/renderer/src/local_storage.rs` 208-211) say that merging keeps a later report
   of a different site's process from clobbering an earlier one's.
2. **Backspace past the end** (`page_input_backspace`). The cursor is clamped, then keydown listeners run, then Backspace
   removes the character before the cursor; if a listener shortened the value, there is none, and the process panics. The
   comment on the clamp calls it defensive against a script that changes the value.
3. **A redirect loses its query** (`fetch_redirect_query`). A first request is judged by its path with its query, a redirect by `url.path()`, which has none: what
   the list names by its query alone is blocked at first hand and contacted by redirect. Comments (`src/network/src/lib.rs` 19-21, 616-618) say that both use the exact same
   `privacy::should_block` call, and `src/privacy/src/lib.rs` 69-70 that the path it is given has its query.

Others have a configuration here, which ends in a counterexample as well, and are not among the listed runs. Where a
configuration has its claim commented out, exchange the comments.

| Configuration | Property | What happens |
|---|---|---|
| `RendererPoolLostNavigation.cfg` | `EveryNavigationEnds` | `get_or_spawn` returns a process whose I/O thread has exited; the message is dropped and polling takes the missing reply for one not yet there. Comments promise a failed page and a fresh process. |
| `RendererPoolClaims.cfg` | `ReplyMatchesNavigation` | A click respawns a dead process, ids restart at 0, and another tab's load, waiting under an old id, takes the reply of a newer request. Its comment argues from ids being unique within a process. |
| `RendererPoolClaims.cfg` | `NewerNavigationWins` | A page is asked for, then a local page; the load is not cancelled and replaces it. The comment on `PendingNavigation` promises that a newer navigation supersedes an older one. |
| `SyncServerRestoreLive.cfg` | `LiveIsWhole` | `TESTING.md` allows a restore beside a running server; it may read a backup that is being written and make an empty file live. |
| `SyncDevicesSwitch.cfg` | `NoBlindOverwrite` | The server is changed and `sync_version` kept; if the new one happens to be at that version, its payload is replaced unmerged. |
| `EngineClaims.cfg` | `ContentsMoveAlong` | A grid item's rectangle moves to its row, its contents stay where they were laid out, although `src/layout/src/grid.rs` 326-329 speaks of final positions. Flex items likewise. |
| `EngineClaims.cfg` | `SeenIsHit` | Clicks on the find bar and the scrollbar go to the page; a click below the last whole row of the tree selects a row not shown. |
| `ChromeClaims.cfg` | `OneInputMode` | A click on the address bar leaves the find bar open, though the comment on `finding_in_page` says that they exclude each other. |
| `ChromeClaims.cfg` | `LevelIsApplied` | A changed fingerprinting level changes the setting and not the canvas until the next resize; the comment on `apply_setting` says that it takes effect immediately. |
| `FetchClaims.cfg` | `OwnSiteOnly` | A download keeps its cookies under another site's partition than its process's, against the comment on `merge_into`. |
| `FetchClaims.cfg` | `OwnSubdomainReached` | A redirect to the site's own subdomain is judged third-party, against the comment on `HttpFetcher::new`. |
| `PageStorage.cfg` | `CompleteComesLast` | A transaction's `complete` event comes before those of its requests. |
| `EngineClaims.cfg` | `SessionsEnd` | Appending a node to its descendant makes later walks of either endless, or panics on a borrow; a click listener can make the search for the target's form endless (`src/renderer/src/script.rs` 1972-1985). `LOOP_ITERATION_LIMIT` reaches none of these. |

The rest have none; the models do what the code does, and properties are stated so as to allow it.

* **Pages and tabs.** A click on the old page while a load of the same site is queued is answered by the
  new page's session and shown under the old address; the comment on `begin_navigate` (`src/app/src/main.rs` 2932) says that the
  tab keeps showing what it showed. `find_matches` are those of the last change of the query, of a page that may have changed since. Sound, dials, snapshot and
  console made while another page is on its way stay with that page. Two quick Backs push the same address twice and lose a page. The local pages' loaders
  do not reset the page signals, `focused_page_input` and `keyboard_focus`. A late reply replaces an address being typed. A seek whose device refuses to go on is not
  told to the page.
* **Scripts.** The comment on `drain_storage_events` says that it is called on whichever session
  ran script; handlers of storage events run in sessions it is not called on. Enter or the space bar on a submit button
  builds a submission that is then dropped (`Activated`), though the comment on `activate_focused` calls it the same event as
  a click. After a refused `Focus` the app keeps `focused_page_input`, whose comment says that it is cleared. The quota of IndexedDB is per object store,
  though documented per origin; opening a lower version succeeds; object stores can be made outside an upgrade; explicit numeric keys do not advance the generator.
* **Gate.** After a lockout one wrong secret locks again (`src/sync-server/src/rate_limit.rs` 112). Answers 404, 409 and 500 count neither as failure nor as success.
* **Fetching.** Cookies of a redirect's hops are kept under the first URL's partition and its `Cookie` header goes to every hop; a chain's cookies are lost if a
  later hop fails; a page on a port is third-party to itself; tracking parameters are not stripped from redirects.
* **Layout.** The media bar is painted from the top of a box lower than it and hit from its bottom; below 64 pixels play and mute overlap. Moving a box does not move the text of
  an input in it. Free room in a flex row is computed without the items' margins, and a column drops the last bottom margin. A box that is missed hides what sticks out of it.
* **Bars.** Below 208 pixels of width the page-signals badge lies on other buttons, below 140 the star and the account button on forward and reload, below 280 the labels of
  the tools on each other; with the tools open and less than 320 pixels of height they lie on the address bar. The four pixels above and below
  a button of the address bar are the button's for a click, not for the eye. A redraw that finds the surface lost makes it anew and asks for no other.

## 18. What is not modelled, and why

* Libraries do the work: encryption, HTML parsing, the script interpreter, image and media decoding, TLS.
* Pure output: glyphs and pixels, the wire encoding of messages, the contents of the browser's own pages, reports to developer tools and
  assistive technologies, which read a session and change nothing.
* One-time set-up: sandbox policies, packaging, the mnemonic's checksum.
* One writer and no order to speak of: userscript files, the update check.
* Inside a put of the disk cache: the temporary file of a key is one for all processes (`src/network/src/disk_cache.rs` 107-113), so that one may rename what another is still writing, and a
  cut body can be read as a whole one. In `Fetch` a put is one step, and no property is about a body's bytes.
* Of the parsers of CSS and HTML only what is accepted of a selector; of styles a subset of the properties.
* In the renderer's prelude: `fetch` of scripts beyond the request it makes, canvas, the objects that only read.
* The order of the lists in a sync payload (planned).

## 19. Plan

Done: `RendererPool` with runs and proofs (the browser's most concurrent part), `SyncRegister` and
`SyncServer` with their refinement and its proof, `SyncDevices` on top of the register with proofs, `PageStorage` with proofs, `PageSessions`, `PageInput`; then `Gate` with its proof,
`Dom`, `IndexedDb`, `Chrome`, `Window`, the style and layout algorithms with `Painting`, `Bars`, and `Fetch`; then the proofs of `PageSessions`, `Fetch`,
`PageInput`, `Window`, `Chrome`, `IndexedDb`, `Bars`, `Dom`, `Matching`, `Placement` and `Declarations`.

Next:

1. The lists of a sync payload: merge and order against a reference; do two devices stop pushing at each other?
   With it, liveness of `SyncDevices` after a change of server, and a restore among its actions.
2. `Chrome` with replies that may be late for another tab, on top of `RendererPool`.
3. Percentages and nested flex and grid containers in `Layout`.

## 20. Running it

    tlc -workers 2 -config RendererPoolSafety.cfg MCRendererPool.tla
    tlapm RendererPoolProofs.tla      (likewise SyncServerProofs, SyncDevicesProofs,
                                       PageStorageProofs, PageSessionsProofs, FetchProofs,
                                       InterfaceProofs, ChromeProofs)

| Configurations | Module |
|---|---|
| `RendererPool*.cfg` | `MCRendererPool` |
| `SyncServer*.cfg` | `MCSyncServer` |
| `SyncDevices*.cfg` | `MCSyncDevices` |
| `PageStorage*.cfg` | `MCPageStorage` |
| `PageSessions.cfg` | `MCPageSessions` |
| `Chrome*.cfg`, `PageInputBackspace.cfg` | `MCChrome` |
| `Engine*.cfg` | `MCEngine` |
| `Fetch*.cfg` | `MCFetch` |

The longest run takes about three minutes. The modules use the TLA+ community modules and the proof library.
