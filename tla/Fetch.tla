-------------------------------- MODULE Fetch --------------------------------
(***************************************************************************)
(* How a renderer process gets a document, a subresource or a download:    *)
(* the privacy policy first, then its own cookies and the response cache   *)
(* all processes share, then the network, one redirect at a time.          *)
(*                                                                          *)
(* Each process has one fetcher, the main one; a batch of images is fetched *)
(* by worker threads, each with a copy of it that has no cache and whose    *)
(* cookies are thrown away. Servers answer what they like and time passes.  *)
(* How cookies outlive their process is the matter of PageStorage.          *)
(*                                                                          *)
(* Bodies are abstracted to where they came from; resolving a name and      *)
(* connecting is one step that may fail; one cookie name stands for all.    *)
(***************************************************************************)
EXTENDS Integers, Sequences

CONSTANTS
  Hosts,        \* host names of servers
  NoHost,       \* the host of a file:// URL
  SiteOf,       \* privacy::registrable_domain of each host, and the site of local files
  Urls,         \* the URLs pages and servers name
  Listed,       \* the hosts and paths, with or without a query, the block list names
  Workers,      \* image threads of a process
  Ages,         \* the max-age servers answer with; 0: the response is not to be kept
  MaxRedirects, \* MAX_REDIRECTS
  MaxTime,      \* bound: how far the clock goes
  MaxRequests,  \* bound: fetches
  Open,         \* the page each process shows at the start, or None
  Main, None

\* One process for a site, and one for local files.
Files == SiteOf[NoHost]
Procs == {SiteOf[h] : h \in DOMAIN SiteOf}

\* query: without the tracking parameters, which `tracked` stands for; "" if none.
Url == [host : Hosts \cup {NoHost}, path : STRING, query : STRING, port : BOOLEAN,
        tracked : BOOLEAN]

ASSUME UrlsAssumption ==
  /\ NoHost \notin Hosts /\ DOMAIN SiteOf = Hosts \cup {NoHost}
  /\ \A h \in Hosts : SiteOf[h] # SiteOf[NoHost]
  /\ Urls \subseteq Url /\ Listed \subseteq Hosts \X (STRING \X STRING)
  /\ Open \in [Procs -> Url \cup {None}]
  /\ \A p \in Procs : Open[p] = None \/ SiteOf[Open[p].host] = p
  /\ Main \notin Workers /\ Ages \subseteq Nat

VARIABLES
  page,   \* the page each process shows: the URL it was asked for
  jar,    \* the cookies of each fetcher, by partition
  calls,  \* what each fetcher is fetching
  cache,  \* the cached responses, by partition and URL
  now, requests

vars == <<page, jar, calls, cache, now, requests>>

\* A map with one more entry, or another one under a key it has
Put(map, key, value) ==
  [x \in DOMAIN map \cup {key} |-> IF x = key THEN value ELSE map[x]]

----------------------------------------------------------------------------
(* The policy. *)

\* The host of a URL as extract_host cuts it out, with the port it names.
Host(u) == IF u.port THEN <<u.host, "port">> ELSE <<u.host>>

IsFile(u) == u.host = NoHost

\* extract_path: the path with its query.
PathAndQuery(u) == <<u.path, u.query>>

\* The path the URL parser finds, which has no query.
UrlPath(u) == <<u.path, "">>

\* The host the URL parser finds, which has no port.
PageHost(u) == IF IsFile(u) THEN None ELSE <<u.host>>

\* site_for_url: the process a URL is sent to.
Site(u) == SiteOf[u.host]

StripTrackingParams(u) == [u EXCEPT !.tracked = FALSE]

\* RequestContext::is_third_party: another host, were it of the same site.
IsThirdParty(host, top) == top # None /\ host # top

\* Blocklist::is_blocked, which takes the port off.
IsBlocked(host, path) == <<Head(host), path>> \in Listed

ShouldBlock(host, path, top) == IsThirdParty(host, top) /\ IsBlocked(host, path)

\* Variant: kept under the site of the host that answered.
PartitionByHost(u, top) == <<SiteOf[u.host], Host(u)>>

\* StoragePartitionKey::for_request
PartitionFor(u, top) ==
  <<SiteOf[Head(IF top = None THEN Host(u) ELSE top)], Host(u)>>

----------------------------------------------------------------------------
(* Parts of a fetch. *)

\* A fetch. url: what was asked for, without tracking parameters; at: the hop
\* it is at; posted, body: it carried, still carries a form; past: the redirects
\* that answered one; set: the cookie received so far; stage: what comes next;
\* got: what it ended with.
Call(kind, url, top, body) ==
  [kind |-> kind, url |-> url, at |-> url, top |-> top, posted |-> body, body |-> body,
   hops |-> 0, past |-> {}, cookie |-> None, set |-> None,
   stage |-> "sent", got |-> None]

Key(c) == PartitionFor(c.url, c.top)

\* The site under which a fetch is made, whatever its key says.
Context(c) == SiteOf[Head(IF c.top = None THEN Host(c.url) ELSE c.top)]

\* Of a fetch that ended only what its caller reads is left: what was asked for,
\* and, if it was blocked, where.
Got(c, got) ==
  [Call(c.kind, c.url, c.top, c.posted) EXCEPT
     !.at = IF got.how = "blocked" THEN c.at ELSE c.url,
     !.body = FALSE, !.stage = "done", !.got = got]
Ended(c, how)     == Got(c, [how |-> how])
Cookie(host, c)   == [by |-> host, site |-> Context(c)]
Kept(held, c)     == IF c.set = None THEN held ELSE Put(held, Key(c), c.set)
CookieFor(f, c) == IF Key(c) \in DOMAIN f THEN f[Key(c)] ELSE None

IsFresh(entry) == now < entry.stored + entry.age

\* DiskCache::get: only the main fetcher has a cache, and only a GET reads it.
Hit(f, c) ==
  /\ f = Main /\ ~c.body
  /\ <<Key(c), c.url>> \in DOMAIN cache
  /\ IsFresh(cache[<<Key(c), c.url>>])

\* DiskCache::put. It writes a temporary file and renames it; that two processes that
\* put one key share the temporary file, and may publish a cut body, is left out.
MayCache(f, c) == f = Main /\ ~c.posted
Cached(c, age) ==
  Put(cache, <<Key(c), c.url>>,
      [stored |-> now, age |-> age, posted |-> c.posted, site |-> Context(c)])

\* fetch_in_context_with_body up to the network.
Opened(p, f, asked) ==
  LET c == [asked EXCEPT !.url = StripTrackingParams(asked.url),
                         !.at  = StripTrackingParams(asked.url)]
      blocked == ShouldBlock(Host(c.url), PathAndQuery(c.url), c.top)
  IN  CASE IsFile(c.url) -> Ended(asked, IF p = Files THEN "file" ELSE "failed")
        [] ~IsFile(c.url) /\ blocked -> Ended(c, "blocked")
        [] ~IsFile(c.url) /\ ~blocked /\ Hit(f, c) ->
             Got(c, [how |-> "cache", entry |-> cache[<<Key(c), c.url>>], at |-> now])
        [] ~IsFile(c.url) /\ ~blocked /\ ~Hit(f, c) ->
             [c EXCEPT !.cookie = CookieFor(jar[p][f], c)]

Asks(p, f, c) ==
  /\ requests < MaxRequests
  /\ f \notin DOMAIN calls[p]
  /\ calls' = [calls EXCEPT ![p] = Put(calls[p], f, Opened(p, f, c))]
  /\ requests' = requests + 1
  /\ UNCHANGED <<page, jar, cache, now>>

Goes(p, f, c) ==
  /\ calls' = [calls EXCEPT ![p] = Put(calls[p], f, c)]
  /\ UNCHANGED <<page, now, requests>>

\* No batch of images is under way.
Alone(p) == DOMAIN jar[p] = {Main}

----------------------------------------------------------------------------
(* What starts a fetch. *)

\* renderer::navigate: the page itself, or the answer to a form.
Navigate(p, u, body) ==
  /\ Site(u) = p /\ Alone(p)
  /\ Asks(p, Main, Call("page", u, None, body))

\* Scripts, stylesheets, media: none for a page whose URL has no host.
Subresource(p, u) ==
  /\ page[p] # None /\ ~IsFile(page[p]) /\ Alone(p)
  /\ Asks(p, Main, Call("part", u, PageHost(page[p]), FALSE))

\* The page's own fetch(): a page without a host asks as if at top level.
ScriptFetch(p, u) ==
  /\ page[p] # None /\ IsFile(page[p]) /\ Alone(p)
  /\ Asks(p, Main, Call("part", u, None, FALSE))

DownloadFor(u, open) == Call("part", u, PageHost(open), FALSE)

\* Browser::download: the process of the file's site gets it, for the page the
\* user is on.
Download(p, u) ==
  /\ Site(u) = p /\ Alone(p)
  /\ \E q \in Procs :
       /\ page[q] # None
       /\ Asks(p, Main, DownloadFor(u, page[q]))

\* clone_for_concurrent_use for every thread.
OpenBatch(p) ==
  /\ page[p] # None /\ ~IsFile(page[p]) /\ Alone(p)
  /\ calls[p] = <<>>
  /\ requests < MaxRequests
  /\ jar' = [jar EXCEPT ![p] = [f \in Workers \cup {Main} |-> jar[p][Main]]]
  /\ UNCHANGED <<page, calls, cache, now, requests>>

FetchImage(p, w, u) ==
  /\ ~Alone(p)
  /\ Asks(p, w, Call("part", u, PageHost(page[p]), FALSE))

\* The threads have ended, and with them their cookies.
CloseBatch(p) ==
  /\ ~Alone(p) /\ calls[p] = <<>>
  /\ jar' = [jar EXCEPT ![p] = [f \in {Main} |-> jar[p][Main]]]
  /\ UNCHANGED <<page, calls, cache, now, requests>>

----------------------------------------------------------------------------
(* HttpFetcher::fetch, hop by hop. *)

\* The process of local files has no network, and a redirect to a file has no
\* name to resolve.
Reached(p, c) == c.stage = "sent" /\ p # Files /\ ~IsFile(c.at)

\* No address, no connection, no answer in time. Nothing the chain set is kept.
Fail(p, f) ==
  LET c == calls[p][f] IN
  /\ c.stage = "sent"
  /\ Goes(p, f, Ended(c, "failed"))
  /\ UNCHANGED <<jar, cache>>

\* Variant: only the first request is judged.
RedirectUnchecked(u, top) == FALSE

\* redirect_should_block, on every hop and against the same page, but not by the
\* query of the hop
RedirectShouldBlock(u, top) == ~IsFile(u) /\ ShouldBlock(PageHost(u), UrlPath(u), top)

\* Only 307 (and 308) keep the method and the body.
KeepsBody(status) == status = 307

TooMany(c) == c.hops = MaxRedirects

\* Which status it is matters to a form only.
Redirects(c) == IF c.body THEN {302, 303, 307} ELSE {302}

Redirect(p, f, status, target, sets) ==
  LET c    == calls[p][f]
      next == [c EXCEPT !.at   = target,
                        !.hops = c.hops + 1,
                        !.body = c.body /\ KeepsBody(status),
                        !.past = IF c.body THEN c.past \cup {status} ELSE c.past,
                        !.set  = IF sets THEN Cookie(c.at.host, c) ELSE c.set]
  IN  /\ Reached(p, c)
      /\ Goes(p, f,
           CASE target = None -> Ended(c, "failed")
             [] target # None /\ RedirectShouldBlock(target, c.top) -> Ended(next, "blocked")
             [] target # None /\ ~RedirectShouldBlock(target, c.top) ->
                  IF TooMany(next) THEN Ended(next, "failed")
                    ELSE next)
      /\ UNCHANGED <<jar, cache>>

\* A final response: its cookies and the chain's are kept under the partition
\* of the URL asked for; a GET's is cached as long as it allows. An age of 0
\* stands for every answer that is not to be cached, of whatever status.
Answer(p, f, age, sets) ==
  LET c     == calls[p][f]
      ended == [c EXCEPT !.set = IF sets THEN Cookie(c.at.host, c) ELSE c.set]
  IN  /\ Reached(p, c)
      /\ Goes(p, f, Ended(ended, "loaded"))
      /\ jar' = [jar EXCEPT ![p][f] = Kept(jar[p][f], ended)]
      /\ cache' = IF MayCache(f, c) /\ age # 0 THEN Cached(c, age) ELSE cache

\* The renderer has what it asked for. A page replaces the one before, unless
\* nothing came.
Use(p, f) ==
  LET c    == calls[p][f]
      came == c.kind = "page" /\ c.got.how \notin {"blocked", "failed"}
  IN  /\ c.stage = "done"
      /\ calls' = [calls EXCEPT ![p] = [g \in DOMAIN calls[p] \ {f} |-> calls[p][g]]]
      /\ page' = IF came THEN [page EXCEPT ![p] = c.url] ELSE page
      /\ UNCHANGED <<jar, cache, now, requests>>

Tick ==
  /\ now < MaxTime
  /\ now' = now + 1
  /\ UNCHANGED <<page, jar, calls, cache, requests>>

----------------------------------------------------------------------------
Init ==
  /\ page = Open
  /\ jar = [p \in Procs |-> [f \in {Main} |-> <<>>]]
  /\ calls = [p \in Procs |-> <<>>]
  /\ cache = <<>>
  /\ now = 0 /\ requests = 0

Process(p) ==
  \/ OpenBatch(p) \/ CloseBatch(p)
  \/ \E u \in Urls :
       \/ \E body \in BOOLEAN : Navigate(p, u, body)
       \/ Subresource(p, u) \/ ScriptFetch(p, u) \/ Download(p, u)
       \/ \E w \in Workers : FetchImage(p, w, u)
  \/ \E f \in DOMAIN calls[p] : Fail(p, f) \/ Use(p, f)

Server(p) == \E f \in DOMAIN calls[p], sets \in BOOLEAN :
  \/ \E status \in Redirects(calls[p][f]), u \in Urls \cup {None} :
       Redirect(p, f, status, u, sets)
  \/ \E age \in Ages : Answer(p, f, age, sets)

Next == Tick \/ \E p \in Procs : Process(p) \/ Server(p)

Spec == Init /\ [][Next]_vars

----------------------------------------------------------------------------
(* Properties. *)

Calls == UNION {{calls[p][f] : f \in DOMAIN calls[p]} : p \in Procs}

\* What of a hop the list was asked about: at the first the query, too.
JudgedPath(c) == IF c.hops = 0 THEN PathAndQuery(c.at) ELSE UrlPath(c.at)

\* Named(c, path): the list names the hop a request is at, and it is not the host of
\* the page itself.
Named(c, path) ==
  /\ c.top # None /\ c.at.host # Head(c.top)
  /\ <<c.at.host, path>> \in Listed

\* Whatever servers redirect to and whichever thread asks, no host is sent a request
\* the list names: by path and query if it is the first, by its path after a redirect.
\* All are judged against the same page
\* (FilteringFetcher::fetch_in_context_with_body, redirect_should_block).
BlockedNeverContacted == \A c \in Calls : c.stage = "sent" => ~Named(c, JudgedPath(c))

\* "Both the initial request and every redirect hop use the exact same
\* `privacy::should_block` call" (network's module docs), of "the path (plus query
\* string, if any) of the resource being requested" (privacy::RequestContext): a
\* redirect leads nowhere a first request could not go.
SameCallOnEveryHop == \A c \in Calls : c.stage = "sent" => ~Named(c, PathAndQuery(c.at))

\* What was received while the user was on one site is never used on another:
\* the cookies a request carries and the cached response it is given came from
\* the same top-level site, across processes and the shared cache
\* (StoragePartitionKey::for_request).
PartitionsStayApart ==
  \A c \in Calls :
    /\ c.cookie # None => c.cookie.site = Context(c)
    /\ c.stage = "done" /\ c.got.how = "cache" => c.got.entry.site = Context(c)

\* A cached response is given out only before its age is up, and never stands
\* for the answer to a form (DiskCache::get, put; fetch_in_context_with_body).
ServedFresh ==
  \A c \in Calls : c.stage = "done" /\ c.got.how = "cache" =>
    /\ c.got.at - c.got.entry.stored < c.got.entry.age
    /\ ~c.got.entry.posted /\ ~c.posted

\* A form's body goes on past a redirect only while every redirect on the way
\* asked for it (HttpFetcher::fetch on 307 and 308).
BodyStopsAtRedirect ==
  \A c \in Calls : c.stage = "sent" /\ c.body => c.past \subseteq {307}

\* What a request is given of what was kept, a cookie or a response, is of its own
\* site and still fresh, whichever process kept it and whoever asks now
\* (PartitionedCookieJar, DiskCache).
StoredIsOwnAndFresh == PartitionsStayApart /\ ServedFresh

\* No request goes where the list forbids, a redirected one as far as its path says,
\* or takes a form's body where no redirect asked for it (HttpFetcher::fetch).
HopsAreAllowed == BlockedNeverContacted /\ BodyStopsAtRedirect

\* "every renderer process only ever creates partition keys whose top_level_site
\* is the one site it renders" (PartitionedCookieJar::merge_into): a process's
\* own answers are kept under its own site.
OwnSiteOnly ==
  \A p \in Procs : \A k \in DOMAIN jar[p][Main] : k[1] = p

\* "a redirect to the requesting site's own subdomain is correctly treated as
\* first-party, not blocked outright" (HttpFetcher::new).
OwnSubdomainReached ==
  \A c \in Calls : c.stage = "done" /\ c.got.how = "blocked" /\ c.at # c.url =>
    SiteOf[c.at.host] # Context(c)
=============================================================================
