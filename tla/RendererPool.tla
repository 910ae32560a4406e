---------------------------- MODULE RendererPool ----------------------------
(***************************************************************************)
(* The browser process of Abyssal Browser: its tabs, its pool of sandboxed *)
(* renderer processes (one per site), the I/O thread of each process, and  *)
(* the two ways a page load travels between them -- the blocking round     *)
(* trip of try_send and the queued, later polled, asynchronous Navigate.   *)
(*                                                                         *)
(* Three kinds of actor take steps: the UI thread (one handler at a time,  *)
(* which may block inside a handler waiting for a reply), one I/O thread   *)
(* per process together with the renderer child it talks to in lockstep,   *)
(* and the environment (the user, and crashes of a child).                 *)
(***************************************************************************)
EXTENDS Integers, SequencesExt

CONSTANTS
  Sites,      \* registrable domains: the keys of the pool
  Urls,       \* pages a tab can navigate to
  SiteOf,     \* site_for_url
  About,      \* the local about: pages, which never reach a renderer
  Failed,     \* the local "Failed to load" page
  NoSite,     \* renderer_site = None
  NoUrl,      \* no page
  MaxTabs,    \* bound: tab ids ever allocated
  MaxEvents,  \* bound: user events and timer expiries
  MaxCrashes  \* bound: renderer children that die

ASSUME SitesAssumption == NoSite \notin Sites
ASSUME UrlsAssumption  == /\ SiteOf \in [Urls -> Sites]
                          /\ About \notin Urls
                          /\ Failed \notin Urls
                          /\ NoUrl \notin Urls
                          /\ NoUrl # About
ASSUME BoundsAssumption == /\ MaxTabs \in Nat \ {0}
                           /\ MaxEvents \in Nat
                           /\ MaxCrashes \in Nat

TabIds == 0 .. MaxTabs - 1

VARIABLES
  tabs,     \* Browser::tabs: the open tabs' ids, left to right
  active,   \* Browser::active_tab_index (1-based here)
  nextTab,  \* Browser::next_tab_id
  tab,      \* each tab's state, by id
  pool,     \* RendererPool::processes, by site
  spawns,   \* how many children were ever spawned; names incarnations
  ui,       \* where the UI thread is
  call,     \* the try_send the UI thread is blocked in
  due,      \* tabs whose timers the running handle_tick has still to tick
  todo,     \* tabs poll_pending_navigations has still to look at
  outcome,  \* arguments of the running apply_navigation_outcome
  wake,     \* an ExternalWake event waits in the window's event queue
  events,   \* user events so far
  crashes   \* crashes so far

vars == <<tabs, active, nextTab, tab, pool, spawns, ui, call, due, todo,
          outcome, wake, events, crashes>>

-----------------------------------------------------------------------------
(* Data                                                                    *)

RequestKinds == {"navigate", "action", "tick", "close"}
ReplyKinds   == {"rendered", "unchanged", "error", "closed", "broken"}

\* Only a Navigate names a page, and only a Rendered answer carries one.
Request ==
  [id : Nat, tab : TabIds, kind : {"navigate"}, url : Urls]
    \cup [id : Nat, tab : TabIds, kind : RequestKinds \ {"navigate"}, url : {NoUrl}]
Reply ==
  [id : Nat, tab : TabIds, kind : {"rendered"}, page : Urls, timer : BOOLEAN]
    \cup [id : Nat, tab : TabIds, kind : ReplyKinds \ {"rendered"}, page : {NoUrl},
          timer : BOOLEAN]

\* PendingNavigation; inc is the incarnation the request was queued on, which
\* the code does not record.
Pending == [id : Nat, inc : Nat, site : Sites, oldSite : Sites \cup {NoSite}, url : Urls]
NoPending == [id |-> 0, inc |-> 0, site |-> NoSite, oldSite |-> NoSite, url |-> NoUrl]

\* page is what the tab's layout_tree shows and url its current_url; want is
\* the newest page anyone asked this tab for, which the code does not record.
Tab == [site : Sites \cup {NoSite}, url : Urls \cup {About},
        page : Urls \cup {About, Failed}, timer : BOOLEAN,
        pending : Pending \cup {NoPending}, want : Urls \cup {About}]
BlankTab == [site |-> NoSite, url |-> About, page |-> About, timer |-> FALSE,
             pending |-> NoPending, want |-> About]

\* RendererProcess. io is the state of run_renderer_io: "ready" between round
\* trips, "waking" or "failing" after a reply was sent and before wake(),
\* "exited" afterwards if the pipe broke. replies stands for reply_rx and
\* pending_replies together: take_reply drains the one into the other before
\* it looks, and looks only at ids.
IoStates == {"none", "ready", "waking", "failing", "exited"}
Process == [io : IoStates, alive : BOOLEAN, inc : Nat, next : Nat,
            queue : Seq(Request), replies : SUBSET Reply,
            sessions : [TabIds -> Urls \cup {NoUrl}]]
NoProcess == [io |-> "none", alive |-> FALSE, inc |-> 0, next |-> 0,
              queue |-> <<>>, replies |-> {},
              sessions |-> [t \in TabIds |-> NoUrl]]
\* RendererProcess::spawn
Spawned(inc) == [NoProcess EXCEPT !.io = "ready", !.alive = TRUE, !.inc = inc]

\* A dead child; its sessions die with it.
Killed(p) == [p EXCEPT !.alive = FALSE, !.sessions = [t \in TabIds |-> NoUrl]]

Call == [site : Sites, id : Nat, tab : TabIds, kind : RequestKinds,
         url : Urls \cup {NoUrl}, retried : BOOLEAN]
NoCall == [site |-> NoSite, id |-> 0, tab |-> 0, kind |-> "tick",
           url |-> NoUrl, retried |-> FALSE]

NoReply == [id |-> 0, tab |-> 0, kind |-> "broken", page |-> NoUrl, timer |-> FALSE]
Outcome == [tab : TabIds, url : Urls, old : Sites \cup {NoSite}, new : Sites,
            reply : Reply]
NoOutcome == [tab |-> 0, url |-> NoUrl, old |-> NoSite, new |-> NoSite,
              reply |-> NoReply]

Blocked == {"action", "render", "closing", "leaving", "ticking", "closingOld"}
UiStates == Blocked \cup {"idle", "tick", "poll", "apply"}

TypeOK ==
  /\ tabs \in Seq(TabIds)
  /\ active \in Nat
  /\ nextTab \in Nat
  /\ tab \in [TabIds -> Tab]
  /\ pool \in [Sites -> Process]
  /\ spawns \in Nat
  /\ ui \in UiStates
  /\ call \in Call \cup {NoCall}
  /\ due \subseteq TabIds
  /\ todo \subseteq TabIds
  /\ outcome \in Outcome \cup {NoOutcome}
  /\ wake \in BOOLEAN
  /\ events \in Nat
  /\ crashes \in Nat

-----------------------------------------------------------------------------
(* Helpers of the browser process                                          *)

Open       == ToSet(tabs)
ActiveTab  == tabs[active]
Pooled(p, s)   == s \in Sites /\ p[s].io # "none"
HasPending(t)  == tab[t].pending.site # NoSite

\* Variants of queue_request: the id is not advanced; a thread that is about to
\* exit is taken for gone without the caller being told.
EnqueueSameId(p, t, kind, u) ==
  [p EXCEPT !.queue = Append(@, [id |-> p.next, tab |-> t, kind |-> kind, url |-> u])]
EnqueueUnlessFailing(p, t, kind, u) ==
  [p EXCEPT !.next = @ + 1,
            !.queue = IF p.io \in {"failing", "exited"} THEN @
                      ELSE Append(@, [id |-> p.next, tab |-> t, kind |-> kind, url |-> u])]

\* queue_request: the id is spent even when the I/O thread has already exited
\* and the message goes nowhere.
Enqueue(p, t, kind, u) ==
  [p EXCEPT !.next = @ + 1,
            !.queue = IF p.io = "exited" THEN @
                      ELSE Append(@, [id |-> p.next, tab |-> t, kind |-> kind, url |-> u])]

\* Variant of take_reply: replies that are not the one looked for are dropped.
WithoutAny(p, id) == [p EXCEPT !.replies = {}]

\* take_reply
Answers(p, id) == {r \in p.replies : r.id = id}
Without(p, id) == [p EXCEPT !.replies = {r \in @ : r.id # id}]

\* Variant of the sweep: a navigation in flight does not count as a reference.
ReferencedByPage(ts, tb, s) == \E i \in DOMAIN ts : s = tb[ts[i]].site

\* evict_unreferenced_renderer_processes over the open tabs ts and their state tb
Referenced(ts, tb, s) ==
  \E i \in DOMAIN ts : s \in {tb[ts[i]].site, tb[ts[i]].pending.site}
Evict(p, ts, tb) ==
  [s \in Sites |-> IF Referenced(ts, tb, s) THEN p[s] ELSE NoProcess]

\* Variant: an Unchanged is drawn like a Rendered.
ApplyAnyReply(tb, r) ==
  IF r.kind = "closed" THEN tb ELSE [tb EXCEPT !.page = r.page, !.timer = r.timer]

\* apply_server_message_kind_to_tab; a round trip that failed counts as
\* Unchanged { next_wake_in_millis: None }
ApplyReply(tb, r) ==
  IF r.kind = "rendered" THEN [tb EXCEPT !.page = r.page, !.timer = r.timer]
  ELSE IF r.kind = "closed" THEN tb
  ELSE [tb EXCEPT !.timer = r.timer]

\* Queue a message on site s of pool p and block in wait_for_reply.
Send(p, s, t, kind, u, retry) ==
  /\ call' = [site |-> s, id |-> p[s].next, tab |-> t, kind |-> kind,
              url |-> u, retried |-> retry]
  /\ pool' = [p EXCEPT ![s] = Enqueue(@, t, kind, u)]

\* Variant of wait_for_reply: the disconnected channel is not noticed.
CanReturnAnswered == Answers(pool[call.site], call.id) # {}

\* wait_for_reply can return: its reply arrived, or the I/O thread is gone.
CanReturn == \/ Answers(pool[call.site], call.id) # {}
             \/ pool[call.site].io = "exited"
Answer == IF Answers(pool[call.site], call.id) # {}
            THEN CHOOSE r \in Answers(pool[call.site], call.id) : TRUE
            ELSE NoReply
Drained == [pool EXCEPT ![call.site] = Without(@, call.id)]

\* A user event starts: the UI thread is back in its event loop.
UserEvent == /\ ui = "idle"
             /\ events < MaxEvents
             /\ events' = events + 1

-----------------------------------------------------------------------------
(* Tabs                                                                    *)

\* open_new_tab, with the built-in demo page it loads
OpenNewTab ==
  /\ UserEvent
  /\ nextTab < MaxTabs
  /\ tabs' = Append(tabs, nextTab)
  /\ active' = Len(tabs) + 1
  /\ nextTab' = nextTab + 1
  /\ tab' = [tab EXCEPT ![nextTab] = BlankTab]
  /\ UNCHANGED <<pool, spawns, ui, call, due, todo, outcome, wake, crashes>>

\* InputEvent::NextTab and a click on a tab
SwitchTab(i) ==
  /\ UserEvent
  /\ active' = i
  /\ UNCHANGED <<tabs, nextTab, tab, pool, spawns, ui, call, due, todo, outcome, wake, crashes>>

\* Variants of the index arithmetic: not clamped, and not shifted.
ActiveUnclamped(i) == IF active > i THEN active - 1 ELSE active
ActiveUnshifted(i) == IF active > Len(tabs) - 1 THEN Len(tabs) - 1 ELSE active

ActiveAfterClose(i) ==
  IF active > Len(tabs) - 1 THEN Len(tabs) - 1
  ELSE IF active > i THEN active - 1
  ELSE active

\* close_tab: only a tab with a renderer_site sends CloseTab and evicts.
CloseTab(i) ==
  LET t == tabs[i]
      s == tab[t].site IN
  /\ UserEvent
  /\ Len(tabs) > 1
  /\ tabs' = RemoveAt(tabs, i)
  /\ active' = ActiveAfterClose(i)
  /\ tab' = [tab EXCEPT ![t] = BlankTab]
  /\ \/ /\ s = NoSite
        /\ UNCHANGED <<pool, ui, call>>
     \/ /\ Pooled(pool, s)
        /\ ui' = "closing"
        /\ Send(pool, s, t, "close", NoUrl, FALSE)
     \/ /\ s # NoSite /\ ~Pooled(pool, s)
        /\ pool' = Evict(pool, tabs', tab')
        /\ UNCHANGED <<ui, call>>
  /\ UNCHANGED <<nextTab, spawns, due, todo, outcome, wake, crashes>>

\* RendererProcess::close_tab returned, whatever came back; then the sweep.
CloseTabReturns ==
  /\ ui = "closing"
  /\ CanReturn
  /\ pool' = Evict(Drained, tabs, tab)
  /\ ui' = "idle"
  /\ call' = NoCall
  /\ UNCHANGED <<tabs, active, nextTab, tab, spawns, due, todo, outcome, wake, events, crashes>>

-----------------------------------------------------------------------------
(* Local about: pages                                                      *)

\* load_demo_page / load_bookmarks_page / ...: leave_renderer_backed_page first
LoadAbout ==
  LET t == ActiveTab
      s == tab[t].site IN
  /\ UserEvent
  /\ IF Pooled(pool, s)
       THEN /\ ui' = "leaving"
            /\ Send(pool, s, t, "close", NoUrl, FALSE)
            /\ tab' = [tab EXCEPT ![t].want = About]
       ELSE /\ tab' = [tab EXCEPT ![t].want = About, ![t].url = About,
                                  ![t].page = About, ![t].site = NoSite,
                                  ![t].timer = @ /\ s = NoSite]
            /\ pool' = IF s = NoSite THEN pool ELSE Evict(pool, tabs, tab')
            /\ UNCHANGED <<ui, call>>
  /\ UNCHANGED <<tabs, active, nextTab, spawns, due, todo, outcome, wake, crashes>>

LeaveReturns ==
  /\ ui = "leaving"
  /\ CanReturn
  /\ tab' = [tab EXCEPT ![ActiveTab].site = NoSite, ![ActiveTab].timer = FALSE,
                        ![ActiveTab].url = About, ![ActiveTab].page = About]
  /\ pool' = Evict(Drained, tabs, tab')
  /\ ui' = "idle"
  /\ call' = NoCall
  /\ UNCHANGED <<tabs, active, nextTab, spawns, due, todo, outcome, wake, events, crashes>>

-----------------------------------------------------------------------------
(* Navigation                                                              *)

\* apply_navigation_outcome, first half: an old site the tab no longer shows
\* gets a CloseTab, and the UI thread blocks for its acknowledgement.
StartOutcome(p, t, u, old, new, r) ==
  LET live == IF r.kind = "rendered" THEN new ELSE NoSite IN
  /\ outcome' = [tab |-> t, url |-> u, old |-> old, new |-> new, reply |-> r]
  /\ IF old # live /\ Pooled(p, old)
       THEN ui' = "closingOld" /\ Send(p, old, t, "close", NoUrl, FALSE)
       ELSE ui' = "apply" /\ pool' = p /\ call' = NoCall

CloseOldReturns ==
  /\ ui = "closingOld"
  /\ CanReturn
  /\ pool' = Drained
  /\ ui' = "apply"
  /\ call' = NoCall
  /\ UNCHANGED <<tabs, active, nextTab, tab, spawns, due, todo, outcome, wake, events, crashes>>

\* apply_navigation_outcome, second half: the tab shows the page, or the local
\* "Failed to load" page (expect_render_outcome takes only Rendered), and the
\* sweep runs.
FinishOutcome ==
  LET t == outcome.tab
      r == outcome.reply
      ok == r.kind = "rendered" IN
  /\ ui = "apply"
  /\ tab' = [tab EXCEPT ![t].page = IF ok THEN r.page ELSE Failed,
                        ![t].url = outcome.url,
                        ![t].site = IF ok THEN outcome.new ELSE NoSite,
                        ![t].timer = ok /\ r.timer]
  /\ pool' = Evict(pool, tabs, tab')
  /\ ui' = "poll"
  /\ outcome' = NoOutcome
  /\ UNCHANGED <<tabs, active, nextTab, spawns, call, due, todo, wake, events, crashes>>

\* Variant: the pending navigation records the id the next message will get.
QueueNavigateNextId(p, t, u) ==
  LET s == SiteOf[u] IN
  /\ pool' = [p EXCEPT ![s] = Enqueue(@, t, "navigate", u)]
  /\ tab' = [tab EXCEPT ![t].want = u,
                        ![t].pending = [id |-> p[s].next + 1, inc |-> p[s].inc, site |-> s,
                                        oldSite |-> tab[t].site, url |-> u]]

\* begin_render on site s of p, and the tab's new pending_navigation, which
\* replaces an older one.
QueueNavigate(p, t, u) ==
  LET s == SiteOf[u] IN
  /\ pool' = [p EXCEPT ![s] = Enqueue(@, t, "navigate", u)]
  /\ tab' = [tab EXCEPT ![t].want = u,
                        ![t].pending = [id |-> p[s].next, inc |-> p[s].inc, site |-> s,
                                        oldSite |-> tab[t].site, url |-> u]]

\* begin_navigate_without_history_with_body: get_or_spawn takes a process that
\* is in the pool as it is, dead or alive, and may fail to spawn a missing one.
BeginNavigate(u) ==
  LET t == ActiveTab
      s == SiteOf[u] IN
  /\ UserEvent
  /\ \/ /\ Pooled(pool, s)
        /\ QueueNavigate(pool, t, u)
        /\ UNCHANGED <<spawns, ui, call, outcome>>
     \/ /\ ~Pooled(pool, s)
        /\ spawns' = spawns + 1
        /\ QueueNavigate([pool EXCEPT ![s] = Spawned(spawns + 1)], t, u)
        /\ UNCHANGED <<ui, call, outcome>>
     \/ /\ ~Pooled(pool, s)
        /\ StartOutcome(pool, t, u, tab[t].site, s, NoReply)
        /\ tab' = [tab EXCEPT ![t].want = u]
        /\ UNCHANGED spawns
  /\ UNCHANGED <<tabs, active, nextTab, due, todo, wake, crashes>>

\* navigate, the blocking load of the URL given on the command line
StartupNavigate(u) ==
  LET t == ActiveTab
      s == SiteOf[u] IN
  /\ UserEvent
  /\ events = 0
  /\ tab' = [tab EXCEPT ![t].want = u]
  /\ \/ /\ spawns' = spawns + 1
        /\ ui' = "render"
        /\ Send([pool EXCEPT ![s] = Spawned(spawns + 1)], s, t, "navigate", u, FALSE)
        /\ UNCHANGED outcome
     \/ /\ StartOutcome(pool, t, u, tab[t].site, s, NoReply)
        /\ UNCHANGED spawns
  /\ UNCHANGED <<tabs, active, nextTab, due, todo, wake, crashes>>

-----------------------------------------------------------------------------
(* Blocking round trips that respawn: click, focus, text input, render     *)

\* click / focus / blur / text_input / ... on the active tab
ForegroundAction ==
  LET t == ActiveTab
      s == tab[t].site IN
  /\ UserEvent
  /\ Pooled(pool, s)
  /\ ui' = "action"
  /\ Send(pool, s, t, "action", NoUrl, FALSE)
  /\ UNCHANGED <<tabs, active, nextTab, tab, spawns, due, todo, outcome, wake, crashes>>

MustRespawn == Answer.kind = "broken" /\ ~call.retried

\* send_with_respawn after a failed try_send: kill the child, replace the whole
\* RendererProcess and send the same message once more.
RespawnAndRetry ==
  /\ ui \in {"action", "render"}
  /\ CanReturn
  /\ MustRespawn
  /\ spawns' = spawns + 1
  /\ Send([pool EXCEPT ![call.site] = Spawned(spawns + 1)],
          call.site, call.tab, call.kind, call.url, TRUE)
  /\ UNCHANGED <<tabs, active, nextTab, tab, ui, due, todo, outcome, wake, events, crashes>>

\* The caller gets its answer from pool p: an action is applied to its tab, a
\* render continues in apply_navigation_outcome.
Settle(p) ==
  \/ /\ ui = "action"
     /\ tab' = [tab EXCEPT ![call.tab] = ApplyReply(@, Answer)]
     /\ pool' = p
     /\ ui' = "idle"
     /\ call' = NoCall
     /\ UNCHANGED outcome
  \/ /\ ui = "render"
     /\ StartOutcome(p, call.tab, call.url, tab[call.tab].site, call.site, Answer)
     /\ UNCHANGED tab

\* A reply that is not a pipe failure, or the failure of the retry.
ForegroundReturns ==
  /\ ui \in {"action", "render"}
  /\ CanReturn
  /\ ~MustRespawn
  /\ Settle(Drained)
  /\ UNCHANGED <<tabs, active, nextTab, spawns, due, todo, wake, events, crashes>>

\* respawn() could not spawn: the old RendererProcess stays, its child killed.
RespawnFails ==
  /\ ui \in {"action", "render"}
  /\ CanReturn
  /\ MustRespawn
  /\ Settle([Drained EXCEPT ![call.site] = Killed(@)])
  /\ UNCHANGED <<tabs, active, nextTab, spawns, due, todo, wake, events, crashes>>

-----------------------------------------------------------------------------
(* InputEvent::Tick                                                        *)

First(S, t) == t \in S /\ \A o \in S : t <= o

\* handle_tick starts, on an ExternalWake or because a deadline passed; ds are
\* the tabs whose next_wake_at is due.
BeginTick(ds) ==
  /\ ui = "idle"
  /\ \/ wake /\ ds = {} /\ UNCHANGED events
     \/ events < MaxEvents /\ events' = events + 1
  /\ wake' = FALSE
  /\ due' = ds
  /\ ui' = "tick"
  /\ UNCHANGED <<tabs, active, nextTab, tab, pool, spawns, call, todo, outcome, crashes>>

\* One due tab: tick blocks for the renderer's answer.
TickTab(t) ==
  LET s == tab[t].site IN
  /\ ui = "tick"
  /\ First(due, t)
  /\ due' = due \ {t}
  /\ IF Pooled(pool, s)
       THEN /\ ui' = "ticking"
            /\ Send(pool, s, t, "tick", NoUrl, FALSE)
            /\ UNCHANGED tab
       ELSE /\ tab' = [tab EXCEPT ![t].timer = FALSE, ![t].site = NoSite]
            /\ UNCHANGED <<ui, call, pool>>
  /\ UNCHANGED <<tabs, active, nextTab, spawns, todo, outcome, wake, events, crashes>>

TickReturns ==
  /\ ui = "ticking"
  /\ CanReturn
  /\ tab' = [tab EXCEPT ![call.tab] = ApplyReply(@, Answer)]
  /\ pool' = Drained
  /\ ui' = "tick"
  /\ call' = NoCall
  /\ UNCHANGED <<tabs, active, nextTab, spawns, due, todo, outcome, wake, events, crashes>>

\* Timers done: poll_pending_navigations collects the tabs it will look at.
BeginPoll ==
  /\ ui = "tick"
  /\ due = {}
  /\ todo' = {t \in Open : HasPending(t)}
  /\ ui' = "poll"
  /\ UNCHANGED <<tabs, active, nextTab, tab, pool, spawns, call, due, outcome, wake, events, crashes>>

\* One tab: take_reply does not wait; without a reply the tab is left alone.
PollTab(t) ==
  LET n == tab[t].pending
      ready == Pooled(pool, n.site) /\ Answers(pool[n.site], n.id) # {} IN
  /\ ui = "poll"
  /\ First(todo, t)
  /\ todo' = todo \ {t}
  /\ IF ready
       THEN /\ tab' = [tab EXCEPT ![t].pending = NoPending]
            /\ \E r \in Answers(pool[n.site], n.id) :
                 StartOutcome([pool EXCEPT ![n.site] = Without(@, n.id)],
                              t, n.url, n.oldSite, n.site, r)
       ELSE UNCHANGED <<tab, pool, ui, call, outcome>>
  /\ UNCHANGED <<tabs, active, nextTab, spawns, due, wake, events, crashes>>

PollDone ==
  /\ ui = "poll"
  /\ todo = {}
  /\ ui' = "idle"
  /\ UNCHANGED <<tabs, active, nextTab, tab, pool, spawns, call, due, todo, outcome, wake,
                 events, crashes>>

-----------------------------------------------------------------------------
(* The I/O threads and the renderer children                               *)

\* RendererState::handle_message: what a child may answer, by request kind and
\* the session it holds for that tab.
RendererAnswers(p, q) ==
  LET shown == p.sessions[q.tab] IN
  CASE q.kind = "navigate" ->
         [kind : {"rendered"}, page : {q.url}, timer : BOOLEAN]
           \cup [kind : {"error"}, page : {NoUrl}, timer : {FALSE}]
    [] q.kind = "close" -> [kind : {"closed"}, page : {NoUrl}, timer : {FALSE}]
    [] OTHER ->
         IF shown = NoUrl THEN [kind : {"unchanged"}, page : {NoUrl}, timer : {FALSE}]
         ELSE [kind : {"rendered"}, page : {shown}, timer : BOOLEAN]
                \cup [kind : {"unchanged"}, page : {NoUrl}, timer : BOOLEAN]

SessionAfter(p, q, a) ==
  IF q.kind = "navigate" THEN a.page
  ELSE IF q.kind = "close" THEN NoUrl
  ELSE p.sessions[q.tab]

ReplyTo(q, a) == [id |-> q.id, tab |-> q.tab, kind |-> a.kind, page |-> a.page,
                  timer |-> a.timer]

\* What answering request q with a does to a process.
Answered(p, q, a) ==
  [p EXCEPT !.io = "waking",
            !.queue = Tail(@),
            !.replies = @ \cup {ReplyTo(q, a)},
            !.sessions = [@ EXCEPT ![q.tab] = SessionAfter(p, q, a)]]
\* What finding the pipe broken does: this request's own reply says so, once.
Broken(p, q) ==
  [p EXCEPT !.io = "failing",
            !.queue = Tail(@),
            !.replies = @ \cup {ReplyTo(q, NoReply)}]
\* What the I/O thread does once it has called wake(): after a failure it exits,
\* and what is still queued is dropped with its channel.
Woken(p) ==
  IF p.io = "waking" THEN [p EXCEPT !.io = "ready"]
  ELSE [p EXCEPT !.io = "exited", !.queue = <<>>]

\* run_renderer_io: one request written, handled and answered.
RoundTrip(s) ==
  LET p == pool[s]
      q == Head(p.queue) IN
  /\ p.io = "ready" /\ p.queue # <<>> /\ p.alive
  /\ \E a \in RendererAnswers(p, q) : pool' = [pool EXCEPT ![s] = Answered(p, q, a)]
  /\ UNCHANGED <<tabs, active, nextTab, tab, spawns, ui, call, due, todo, outcome, wake,
                 events, crashes>>

RoundTripBreaks(s) ==
  LET p == pool[s] IN
  /\ p.io = "ready" /\ p.queue # <<>> /\ ~p.alive
  /\ pool' = [pool EXCEPT ![s] = Broken(p, Head(p.queue))]
  /\ UNCHANGED <<tabs, active, nextTab, tab, spawns, ui, call, due, todo, outcome, wake,
                 events, crashes>>

\* wake(), after the reply was sent
WakeUi(s) ==
  /\ pool[s].io \in {"waking", "failing"}
  /\ wake' = TRUE
  /\ pool' = [pool EXCEPT ![s] = Woken(@)]
  /\ UNCHANGED <<tabs, active, nextTab, tab, spawns, ui, call, due, todo, outcome,
                 events, crashes>>

\* A child dies: a crash, or the sandbox killing it.
Crash(s) ==
  /\ pool[s].alive
  /\ crashes < MaxCrashes
  /\ crashes' = crashes + 1
  /\ pool' = [pool EXCEPT ![s] = Killed(@)]
  /\ UNCHANGED <<tabs, active, nextTab, tab, spawns, ui, call, due, todo, outcome, wake, events>>

-----------------------------------------------------------------------------
Init ==
  /\ tabs = <<0>>
  /\ active = 1
  /\ nextTab = 1
  /\ tab = [t \in TabIds |-> BlankTab]
  /\ pool = [s \in Sites |-> NoProcess]
  /\ spawns = 0
  /\ ui = "idle"
  /\ call = NoCall
  /\ due = {}
  /\ todo = {}
  /\ outcome = NoOutcome
  /\ wake = FALSE
  /\ events = 0
  /\ crashes = 0

User ==
  \/ OpenNewTab
  \/ \E i \in DOMAIN tabs : SwitchTab(i) \/ CloseTab(i)
  \/ LoadAbout
  \/ ForegroundAction
  \/ \E u \in Urls : BeginNavigate(u) \/ StartupNavigate(u)

\* The rest of a handler that is already running.
UiStep ==
  \/ CloseTabReturns
  \/ LeaveReturns
  \/ CloseOldReturns
  \/ FinishOutcome
  \/ RespawnAndRetry
  \/ ForegroundReturns
  \/ RespawnFails
  \/ \E t \in due : TickTab(t)
  \/ TickReturns
  \/ BeginPoll
  \/ \E t \in todo : PollTab(t)
  \/ PollDone

Tick == \E ds \in SUBSET {t \in Open : tab[t].timer} : BeginTick(ds)

IoStep(s) == RoundTrip(s) \/ RoundTripBreaks(s) \/ WakeUi(s)

Next ==
  \/ User
  \/ UiStep
  \/ Tick
  \/ \E s \in Sites : IoStep(s) \/ Crash(s)

\* The UI thread runs its handlers to their end, the event loop delivers a wake
\* that was posted, every I/O thread and child runs. Nobody has to click, no
\* timer has to fire and nothing has to crash.
Fairness ==
  /\ WF_vars(UiStep)
  /\ WF_vars(wake /\ BeginTick({}))
  /\ \A s \in Sites : WF_vars(IoStep(s))

Spec == Init /\ [][Next]_vars /\ Fairness

-----------------------------------------------------------------------------
(* Properties                                                              *)

\* The active index always names an open tab, the ids of the open tabs are
\* distinct and were all allocated: Browser indexes self.tabs with it unchecked.
TabStripOK ==
  /\ active \in 1 .. Len(tabs)
  /\ \A i, j \in DOMAIN tabs : tabs[i] = tabs[j] => i = j
  /\ \A i \in DOMAIN tabs : tabs[i] < nextTab

\* And whatever a process answers, dies of or leaves unanswered, every tab still
\* shows a page and every other variable is of its type, too (send_with_respawn).
TabsAreSound == TypeOK /\ TabStripOK

\* No sweep kills a process some tab shows or waits for: the site of every open
\* tab's page and of every navigation in flight is in the pool, even in the
\* middle of a handler (evict_unreferenced_renderer_processes).
ReferencedSitesPooled ==
  /\ \A t \in Open : /\ tab[t].site # NoSite => Pooled(pool, tab[t].site)
                     /\ HasPending(t) => Pooled(pool, tab[t].pending.site)
  /\ ui \in {"closingOld", "apply"} /\ outcome.reply.kind = "rendered"
        => Pooled(pool, outcome.new)

InQueue(p, id) == \E i \in DOMAIN p.queue : p.queue[i].id = id

\* The UI thread never blocks for an answer that cannot come: while try_send
\* waits, its message is queued, or its reply is there, or the I/O thread is
\* gone and wait_for_reply returns an error.
NoVainWait ==
  ui \in Blocked =>
    /\ Pooled(pool, call.site)
    /\ \/ pool[call.site].io = "exited"
       \/ InQueue(pool[call.site], call.id)
       \/ Answers(pool[call.site], call.id) # {}

RepliesOf(kind) ==
  CASE kind = "navigate" -> {"rendered", "error", "broken"}
    [] kind = "close"    -> {"closed", "broken"}
    [] OTHER             -> {"rendered", "unchanged", "broken"}

\* A blocked try_send takes the answer to its own message, never one queued
\* earlier for another tab of the same process (wait_for_reply, take_reply).
BlockingReplyIsOwn ==
  ui \in Blocked =>
    \A r \in Answers(pool[call.site], call.id) :
      r.tab = call.tab /\ r.kind \in RepliesOf(call.kind)

\* As long as the process was not respawned since, the reply under a pending
\* navigation's id is the reply to that navigation of that tab.
PendingReplyIsOwn ==
  \A t \in Open :
    LET n == tab[t].pending IN
    HasPending(t) /\ pool[n.site].inc = n.inc =>
      \A r \in Answers(pool[n.site], n.id) :
        /\ r.tab = t
        /\ r.kind \in RepliesOf("navigate")
        /\ r.kind = "rendered" => r.page = n.url

\* Closing some other tab leaves the active tab active; closing the active one
\* activates the tab that takes its place (close_tab's index arithmetic).
ActiveTabSurvivesClose ==
  [][Len(tabs') < Len(tabs) =>
       \/ tabs'[active'] = ActiveTab
       \/ /\ ActiveTab \notin ToSet(tabs')
          /\ \/ active' = active
             \/ active = Len(tabs) /\ active' = Len(tabs')]_vars

\* The UI thread gets back to its event loop, whatever crashes.
UiComesBack == ui # "idle" ~> ui = "idle"

\* A page load that no crash touches ends: its reply is polled and applied, and
\* the wake posted by the I/O thread is enough to have it polled.
NavigationEnds ==
  \A t \in TabIds :
    HasPending(t) /\ crashes = 0 ~> ~HasPending(t) \/ crashes > 0

-----------------------------------------------------------------------------
(* What the comments in the source say, and the code does not do           *)

\* A newer navigation supersedes an older one that is still loading: what
\* poll_pending_navigations applies to a tab is what was last asked of it.
NewerNavigationWins ==
  ui = "apply" => outcome.url = tab[outcome.tab].want

\* Every navigation is answered: a broken pipe is reported as a failed load.
EveryNavigationEnds ==
  \A t \in TabIds : HasPending(t) ~> ~HasPending(t)

\* Ids unique per process are enough to pair replies with navigations: a
\* rendered page is applied to the tab and the URL it was rendered for.
ReplyMatchesNavigation ==
  ui = "apply" /\ outcome.reply.kind = "rendered" =>
    outcome.reply.tab = outcome.tab /\ outcome.reply.page = outcome.url
=============================================================================
