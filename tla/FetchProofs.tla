----------------------------- MODULE FetchProofs -----------------------------
(***************************************************************************)
(* Theorems about Fetch, for any hosts, sites, URLs, block list and number  *)
(* of image threads: what a fetch is given of what was kept is of its own   *)
(* site and fresh, and every hop of it is one the policy allows: the first  *)
(* as its path and query are judged, a redirect as its path is.             *)
(***************************************************************************)
EXTENDS Fetch, TLAPS

-----------------------------------------------------------------------------
(* The inductive invariant                                                 *)

Sites     == Procs
Tops      == {None} \cup {<<h>> : h \in DOMAIN SiteOf}
Cookies   == [by : DOMAIN SiteOf, site : Sites]
Entries   == [stored : Nat, age : Nat, posted : BOOLEAN, site : Sites]
Outcomes  == [how : {"file", "failed", "blocked", "loaded"}]
               \cup [how : {"cache"}, entry : Entries, at : Nat]
Pasts     == SUBSET {302, 303, 307}
Received  == Cookies \cup {None}
Results   == Outcomes \cup {None}
Fetches   == [kind : {"page", "part"}, url : Url, at : Url, top : Tops, posted : BOOLEAN,
              body : BOOLEAN, hops : Nat, past : Pasts, cookie : Received, set : Received,
              stage : {"sent", "done"}, got : Results]

Fetchers == Workers \cup {Main}

\* The image threads have cookies of their own only while the page is there.
Types ==
  /\ page \in [Procs -> Url \cup {None}]
  /\ DOMAIN jar = Procs /\ DOMAIN calls = Procs
  /\ \A p \in Procs :
       /\ DOMAIN jar[p] \in {{Main}, Fetchers}
       /\ Alone(p) \/ (page[p] # None /\ ~ IsFile(page[p]))
       /\ DOMAIN calls[p] \subseteq DOMAIN jar[p]
       /\ \A f \in DOMAIN calls[p] : calls[p][f] \in Fetches
       /\ \A f \in DOMAIN calls[p] : calls[p][f].kind = "page" => Alone(p)
  /\ now \in Nat /\ requests \in Nat

\* What is kept under a partition was received on its site.
CookiesOwn == \A p \in Procs : \A f \in DOMAIN jar[p] : \A k \in DOMAIN jar[p][f] :
                jar[p][f][k] \in Cookies /\ jar[p][f][k].site = k[1]
EntriesOwn == \A k \in DOMAIN cache :
                cache[k] \in Entries /\ cache[k].site = k[1][1] /\ ~ cache[k].posted

\* What a fetch carries or was given is its own, and the hop it is at is allowed.
Allowed(c) == ~Named(c, JudgedPath(c))
Fine(c) ==
  /\ c.cookie # None => c.cookie.site = Context(c)
  /\ c.set # None => c.set.site = Context(c)
  /\ c.stage = "sent" => Allowed(c) /\ (c.body => c.past \subseteq {307})
  /\ c.body => c.posted
  /\ c.stage = "done" => c.got \in Outcomes
  /\ c.stage = "done" /\ c.got.how = "cache" =>
       /\ c.got.entry.site = Context(c) /\ c.got.at < c.got.entry.stored + c.got.entry.age
       /\ ~ c.got.entry.posted /\ ~ c.posted
CallsFine == \A p \in Procs : \A f \in DOMAIN calls[p] : Fine(calls[p][f])

IInv == Types /\ CookiesOwn /\ EntriesOwn /\ CallsFine

-----------------------------------------------------------------------------
(* Parts of a fetch                                                        *)

LEMMA PutIs ==
  ASSUME NEW map, NEW key, NEW value
  PROVE  /\ DOMAIN Put(map, key, value) = DOMAIN map \cup {key}
         /\ Put(map, key, value)[key] = value
         /\ \A x \in DOMAIN map \ {key} : Put(map, key, value)[x] = map[x]
BY DEF Put

LEMMA UrlIs ==
  ASSUME NEW u \in Url
  PROVE  /\ u.host \in DOMAIN SiteOf /\ SiteOf[u.host] \in Sites
         /\ Host(u) \in {<<u.host>>, <<u.host, "port">>} /\ Head(Host(u)) = u.host
         /\ PageHost(u) \in Tops
         /\ StripTrackingParams(u) \in Url /\ StripTrackingParams(u).host = u.host
<1>1. u.host \in DOMAIN SiteOf /\ u.port \in BOOLEAN
  BY UrlsAssumption DEF Url
<1>2. SiteOf[u.host] \in Sites /\ PageHost(u) \in Tops
  BY <1>1 DEF Sites, Procs, PageHost, Tops
<1>3. Host(u) \in {<<u.host>>, <<u.host, "port">>} /\ Head(Host(u)) = u.host
  BY <1>1 DEF Host
<1>4. StripTrackingParams(u) \in Url /\ StripTrackingParams(u).host = u.host
  BY DEF Url, StripTrackingParams
<1> QED BY <1>1, <1>2, <1>3, <1>4

\* A key names the site a fetch is made under.
LEMMA KeyIs ==
  ASSUME NEW c \in Fetches
  PROVE  /\ Context(c) \in Sites /\ Key(c)[1] = Context(c)
<1>1. CASE c.top = None
  <2>1. c.url \in Url
    BY DEF Fetches
  <2> QED BY <1>1, <2>1, UrlIs DEF Context, Key, PartitionFor
<1>2. CASE c.top # None
  <2>1. PICK h \in DOMAIN SiteOf : c.top = <<h>>
    BY <1>2 DEF Fetches, Tops
  <2> QED BY <1>2, <2>1 DEF Context, Key, PartitionFor, Sites, Procs
<1> QED BY <1>1, <1>2

\* The policy lets through only what the list does not name, or the page's host.
LEMMA PassesAllowed ==
  ASSUME NEW u \in Url, NEW top \in Tops, NEW path, ~ ShouldBlock(Host(u), path, top)
  PROVE  <<u.host, path>> \notin Listed \/ top = None \/ u.host = Head(top)
<1>1. Head(Host(u)) = u.host
  BY UrlIs
<1> QED BY <1>1 DEF ShouldBlock, IsThirdParty, IsBlocked

LEMMA CallIs ==
  ASSUME NEW kind \in {"page", "part"}, NEW u \in Url, NEW top \in Tops, NEW body \in BOOLEAN
  PROVE  LET c == Call(kind, u, top, body) IN
         /\ c \in Fetches /\ c.kind = kind /\ c.url = u /\ c.at = u /\ c.top = top
         /\ c.posted = body /\ c.body = body /\ c.past = {} /\ c.cookie = None /\ c.set = None
         /\ c.stage = "sent" /\ c.got = None /\ c.hops = 0
BY DEF Call, Fetches, Pasts, Received, Results

\* What a fetch ended with is all that is left of it.
LEMMA GotIs ==
  ASSUME NEW c \in Fetches, NEW got \in Outcomes
  PROVE  LET e == Got(c, got) IN
         /\ e \in Fetches /\ e.kind = c.kind /\ e.url = c.url /\ e.top = c.top /\ e.posted = c.posted
         /\ e.body = FALSE /\ e.cookie = None /\ e.set = None /\ e.stage = "done" /\ e.got = got
         /\ Context(e) = Context(c)
<1>1. /\ c.kind \in {"page", "part"} /\ c.url \in Url /\ c.at \in Url /\ c.top \in Tops
      /\ c.posted \in BOOLEAN
  BY DEF Fetches
<1>2. PICK b : b = Call(c.kind, c.url, c.top, c.posted)
  OBVIOUS
<1>3. /\ b \in Fetches /\ b.kind = c.kind /\ b.url = c.url /\ b.top = c.top /\ b.posted = c.posted
      /\ b.cookie = None /\ b.set = None
  BY <1>1, <1>2, CallIs
<1>4. PICK a : a = IF got.how = "blocked" THEN c.at ELSE c.url
  OBVIOUS
<1>5. a \in Url
  BY <1>1, <1>4
<1>6. PICK e : e = [b EXCEPT !.at = a, !.body = FALSE, !.stage = "done", !.got = got]
  OBVIOUS
<1>7. e = Got(c, got)
  BY <1>2, <1>4, <1>6 DEF Got
<1>8. /\ e \in Fetches /\ e.kind = b.kind /\ e.url = b.url /\ e.top = b.top /\ e.posted = b.posted
      /\ e.body = FALSE /\ e.cookie = b.cookie /\ e.set = b.set /\ e.stage = "done" /\ e.got = got
  <2>1. got \in Results
    BY DEF Results
  <2> QED BY <1>3, <1>5, <1>6, <2>1 DEF Fetches
<1>9. Context(e) = Context(c)
  BY <1>3, <1>8 DEF Context
<1> QED BY <1>3, <1>7, <1>8, <1>9

LEMMA EndedFine ==
  ASSUME NEW c \in Fetches, NEW how \in {"file", "failed", "blocked", "loaded"}
  PROVE  Ended(c, how) \in Fetches /\ Fine(Ended(c, how)) /\ Ended(c, how).kind = c.kind
<1>1. PICK got : got = [how |-> how]
  OBVIOUS
<1>2. got \in Outcomes /\ got.how # "cache"
  BY <1>1 DEF Outcomes
<1>3. PICK e : e = Got(c, got)
  OBVIOUS
<1>4. /\ e \in Fetches /\ e.kind = c.kind /\ e.body = FALSE /\ e.cookie = None /\ e.set = None
      /\ e.stage = "done" /\ e.got = got
  BY <1>2, <1>3, GotIs
<1>5. Fine(e)
  BY <1>2, <1>4 DEF Fine
<1> QED BY <1>1, <1>3, <1>4, <1>5 DEF Ended

\* Up to the network: a fetch ends, is given what is kept, or is allowed.
LEMMA OpenedFine ==
  ASSUME IInv, NEW p \in Procs, NEW f \in DOMAIN jar[p], NEW kind \in {"page", "part"},
         NEW u \in Url, NEW top \in Tops, NEW body \in BOOLEAN
  PROVE  LET o == Opened(p, f, Call(kind, u, top, body)) IN
         o \in Fetches /\ Fine(o) /\ o.kind = kind
<1>1. PICK a : a = Call(kind, u, top, body)
  OBVIOUS
<1>2. /\ a \in Fetches /\ a.kind = kind /\ a.url = u /\ a.top = top /\ a.posted = body /\ a.body = body
      /\ a.past = {} /\ a.cookie = None /\ a.set = None /\ a.stage = "sent" /\ a.got = None
      /\ a.hops = 0
  BY <1>1, CallIs
<1>3. PICK v : v = StripTrackingParams(a.url)
  OBVIOUS
<1>4. v \in Url
  BY <1>2, <1>3, UrlIs
<1>5. PICK c : c = [a EXCEPT !.url = v, !.at = v]
  OBVIOUS
<1>6. /\ c \in Fetches /\ c.kind = kind /\ c.url = v /\ c.at = v /\ c.top = top /\ c.posted = body
      /\ c.body = body /\ c.past = {} /\ c.cookie = None /\ c.set = None /\ c.stage = "sent"
      /\ c.hops = 0
  BY <1>2, <1>4, <1>5 DEF Fetches
<1>7. PICK o : o = Opened(p, f, a)
  OBVIOUS
<1>8. o = LET blocked == ShouldBlock(Host(c.url), PathAndQuery(c.url), c.top) IN
          CASE IsFile(c.url) -> Ended(a, IF p = Files THEN "file" ELSE "failed")
            [] ~IsFile(c.url) /\ blocked -> Ended(c, "blocked")
            [] ~IsFile(c.url) /\ ~blocked /\ Hit(f, c) ->
                 Got(c, [how |-> "cache", entry |-> cache[<<Key(c), c.url>>], at |-> now])
            [] ~IsFile(c.url) /\ ~blocked /\ ~Hit(f, c) ->
                 [c EXCEPT !.cookie = CookieFor(jar[p][f], c)]
  BY <1>3, <1>5, <1>7 DEF Opened
<1>9. Context(c) \in Sites /\ Key(c)[1] = Context(c)
  BY <1>6, KeyIs
<1>10. CASE IsFile(c.url)
  <2>1. o \in {Ended(a, "file"), Ended(a, "failed")}
    BY <1>8, <1>10
  <2> QED BY <1>1, <1>2, <1>7, <2>1, EndedFine
<1>11. CASE ~IsFile(c.url) /\ ShouldBlock(Host(c.url), PathAndQuery(c.url), c.top)
  <2>1. o = Ended(c, "blocked")
    BY <1>8, <1>11
  <2> QED BY <1>1, <1>6, <1>7, <2>1, EndedFine
<1>12. CASE ~IsFile(c.url) /\ ~ShouldBlock(Host(c.url), PathAndQuery(c.url), c.top) /\ Hit(f, c)
  <2>1. PICK n : n = cache[<<Key(c), c.url>>]
    OBVIOUS
  <2>2. /\ n \in Entries /\ n.site = Context(c) /\ ~ n.posted /\ now < n.stored + n.age /\ ~ c.body
    <3>1. <<Key(c), c.url>> \in DOMAIN cache /\ <<Key(c), c.url>>[1] = Key(c)
          /\ ~ c.body /\ IsFresh(n)
      BY <1>12, <2>1 DEF Hit
    <3> QED BY <1>9, <2>1, <3>1 DEF IInv, Types, EntriesOwn, IsFresh
  <2>3. PICK got : got = [how |-> "cache", entry |-> n, at |-> now]
    OBVIOUS
  <2>4. got \in Outcomes /\ got.how = "cache" /\ got.entry = n /\ got.at = now
    BY <2>2, <2>3 DEF Outcomes, IInv, Types
  <2>5. o = Got(c, got)
    BY <1>8, <1>12, <2>1, <2>3
  <2>6. /\ o \in Fetches /\ o.kind = kind /\ o.posted = body /\ o.body = FALSE /\ o.cookie = None
        /\ o.set = None /\ o.stage = "done" /\ o.got = got /\ Context(o) = Context(c)
    BY <1>6, <2>4, <2>5, GotIs
  <2>7. Fine(o)
    BY <1>6, <2>2, <2>4, <2>6 DEF Fine
  <2> QED BY <1>1, <1>7, <2>6, <2>7
<1>13. CASE ~IsFile(c.url) /\ ~ShouldBlock(Host(c.url), PathAndQuery(c.url), c.top) /\ ~ Hit(f, c)
  <2>1. PICK k : k = CookieFor(jar[p][f], c)
    OBVIOUS
  <2>2. k \in Received /\ (k # None => k.site = Context(c))
    BY <1>9, <2>1 DEF CookieFor, IInv, Types, CookiesOwn, Received
  <2>3. o = [c EXCEPT !.cookie = k]
    BY <1>8, <1>13, <2>1
  <2>4. /\ o \in Fetches /\ o.kind = kind /\ o.url = v /\ o.at = v /\ o.top = top /\ o.posted = body
        /\ o.body = body /\ o.past = {} /\ o.cookie = k /\ o.set = None /\ o.stage = "sent"
        /\ o.hops = 0
    BY <1>6, <2>2, <2>3 DEF Fetches
  <2>5. Context(o) = Context(c)
    BY <1>6, <2>4 DEF Context
  <2>6. Allowed(o)
    <3>1. JudgedPath(o) = PathAndQuery(c.url)
      BY <1>6, <2>4 DEF JudgedPath
    <3>2. <<v.host, PathAndQuery(c.url)>> \notin Listed \/ top = None \/ v.host = Head(top)
      BY <1>4, <1>6, <1>13, PassesAllowed
    <3> QED BY <2>4, <3>1, <3>2 DEF Allowed, Named
  <2>7. Fine(o)
    BY <2>2, <2>4, <2>5, <2>6 DEF Fine
  <2> QED BY <1>1, <1>7, <2>4, <2>7
<1> QED BY <1>10, <1>11, <1>12, <1>13

-----------------------------------------------------------------------------
(* Every action preserves the invariant                                    *)

\* A fetch goes on as o.
LEMMA GoesSafe ==
  ASSUME IInv, NEW p \in Procs, NEW f \in DOMAIN jar[p], NEW o \in Fetches, Fine(o),
         o.kind = "page" => Alone(p), calls' = [calls EXCEPT ![p] = Put(calls[p], f, o)],
         page' = page, now' = now, requests' \in Nat,
         DOMAIN jar' = Procs, \A q \in Procs : DOMAIN jar'[q] = DOMAIN jar[q],
         CookiesOwn', EntriesOwn'
  PROVE  IInv'
<1>1. PICK m : m = Put(calls[p], f, o)
  OBVIOUS
<1>2. DOMAIN m = DOMAIN calls[p] \cup {f} /\ m[f] = o /\ \A x \in DOMAIN calls[p] \ {f} : m[x] = calls[p][x]
  BY <1>1 DEF Put
<1>3. calls' = [calls EXCEPT ![p] = m] /\ DOMAIN calls = Procs
  BY <1>1 DEF IInv, Types
<1>4. ASSUME NEW q \in Procs
      PROVE  /\ DOMAIN calls'[q] \subseteq DOMAIN jar'[q] /\ (Alone(q)' <=> Alone(q))
             /\ \A g \in DOMAIN calls'[q] :
                  /\ calls'[q][g] \in Fetches /\ Fine(calls'[q][g])
                  /\ calls'[q][g].kind = "page" => Alone(q)
  <2>1. Alone(q)' <=> Alone(q)
    BY DEF Alone
  <2>2. CASE q = p
    <3>1. calls'[q] = m
      BY <1>3, <2>2
    <3>2. ASSUME NEW g \in DOMAIN m
          PROVE  m[g] \in Fetches /\ Fine(m[g]) /\ (m[g].kind = "page" => Alone(p))
      <4>1. CASE g = f
        BY <4>1, <1>2
      <4>2. CASE g # f
        BY <4>2, <1>2 DEF IInv, Types, CallsFine
      <4> QED BY <4>1, <4>2
    <3> QED BY <1>2, <2>1, <2>2, <3>1, <3>2 DEF IInv, Types
  <2>3. CASE q # p
    <3>1. calls'[q] = calls[q]
      BY <1>3, <2>3
    <3> QED BY <2>1, <3>1 DEF IInv, Types, CallsFine
  <2> QED BY <2>2, <2>3
<1>5. Types'
  BY <1>3, <1>4 DEF IInv, Types, IsFile
<1>6. CallsFine'
  BY <1>4 DEF CallsFine
<1> QED BY <1>5, <1>6 DEF IInv

\* A fetch is asked for.
LEMMA AsksSafe ==
  ASSUME IInv, NEW p \in Procs, NEW f \in DOMAIN jar[p], NEW kind \in {"page", "part"},
         NEW u \in Url, NEW top \in Tops, NEW body \in BOOLEAN, kind = "page" => Alone(p),
         Asks(p, f, Call(kind, u, top, body))
  PROVE  IInv'
<1>1. PICK o : o = Opened(p, f, Call(kind, u, top, body))
  OBVIOUS
<1>2. o \in Fetches /\ Fine(o) /\ o.kind = kind
  BY <1>1, OpenedFine
<1>3. /\ calls' = [calls EXCEPT ![p] = Put(calls[p], f, o)] /\ requests' \in Nat
      /\ UNCHANGED <<page, jar, cache, now>>
  BY <1>1 DEF Asks, IInv, Types
<1>4. CookiesOwn' /\ EntriesOwn' /\ DOMAIN jar' = Procs
  BY <1>3 DEF IInv, Types, CookiesOwn, EntriesOwn
<1> QED BY <1>2, <1>3, <1>4, GoesSafe

LEMMA MainIs == IInv => \A p \in Procs : Main \in DOMAIN jar[p] /\ page[p] \in Url \cup {None}
BY DEF IInv, Types, Fetchers

LEMMA NavigateSafe ==
  ASSUME IInv, NEW p \in Procs, NEW u \in Urls, NEW body \in BOOLEAN, Navigate(p, u, body)
  PROVE  IInv'
<1>1. Alone(p) /\ Asks(p, Main, Call("page", u, None, body)) /\ u \in Url /\ None \in Tops
  BY UrlsAssumption DEF Navigate, Tops
<1> QED BY <1>1, MainIs, AsksSafe

LEMMA PartSafe ==
  ASSUME IInv, NEW p \in Procs, NEW u \in Urls, NEW f \in DOMAIN jar[p], NEW top \in Tops,
         Asks(p, f, Call("part", u, top, FALSE))
  PROVE  IInv'
<1>1. u \in Url
  BY UrlsAssumption
<1> QED BY <1>1, AsksSafe

LEMMA SubresourceSafe ==
  ASSUME IInv, NEW p \in Procs, NEW u \in Urls,
         Subresource(p, u) \/ ScriptFetch(p, u) \/ Download(p, u) \/ \E w \in Workers : FetchImage(p, w, u)
  PROVE  IInv'
<1>1. CASE Subresource(p, u)
  <2>1. PageHost(page[p]) \in Tops
    BY <1>1, MainIs, UrlIs DEF Subresource
  <2> QED BY <1>1, <2>1, MainIs, PartSafe DEF Subresource
<1>2. CASE ScriptFetch(p, u)
  BY <1>2, MainIs, PartSafe DEF ScriptFetch, Tops
<1>3. CASE Download(p, u)
  <2>1. PICK q \in Procs : page[q] # None /\ Asks(p, Main, Call("part", u, PageHost(page[q]), FALSE))
    BY <1>3 DEF Download, DownloadFor
  <2>2. PageHost(page[q]) \in Tops
    BY <2>1, MainIs, UrlIs
  <2> QED BY <2>1, <2>2, MainIs, PartSafe
<1>4. ASSUME NEW w \in Workers, FetchImage(p, w, u) PROVE IInv'
  <2>1. page[p] # None /\ w \in DOMAIN jar[p]
    BY <1>4 DEF FetchImage, IInv, Types, Fetchers, Alone
  <2>2. PageHost(page[p]) \in Tops
    BY <2>1, MainIs, UrlIs
  <2> QED BY <1>4, <2>1, <2>2, PartSafe DEF FetchImage
<1> QED BY <1>1, <1>2, <1>3, <1>4

LEMMA FailSafe ==
  ASSUME IInv, NEW p \in Procs, NEW f \in DOMAIN calls[p], Fail(p, f)
  PROVE  IInv'
<1>1. PICK c : c = calls[p][f]
  OBVIOUS
<1>2. c \in Fetches /\ (c.kind = "page" => Alone(p)) /\ f \in DOMAIN jar[p]
  BY <1>1 DEF IInv, Types
<1>3. PICK o : o = Ended(c, "failed")
  OBVIOUS
<1>4. o \in Fetches /\ Fine(o) /\ o.kind = c.kind
  BY <1>2, <1>3, EndedFine
<1>5. calls' = [calls EXCEPT ![p] = Put(calls[p], f, o)] /\ UNCHANGED <<page, now, requests, jar, cache>>
  BY <1>1, <1>3 DEF Fail, Goes
<1>6. CookiesOwn' /\ EntriesOwn' /\ DOMAIN jar' = Procs /\ requests' \in Nat
  BY <1>5 DEF IInv, Types, CookiesOwn, EntriesOwn
<1> QED BY <1>2, <1>4, <1>5, <1>6, GoesSafe

\* The cookie a response sets is of the site the fetch is made under.
LEMMA CookieIs ==
  ASSUME NEW c \in Fetches, Fine(c), NEW sets \in BOOLEAN
  PROVE  LET k == IF sets THEN Cookie(c.at.host, c) ELSE c.set IN
         k \in Received /\ (k # None => k \in Cookies /\ k.site = Context(c))
<1>1. c.set \in Received /\ c.at \in Url /\ c.at.host \in DOMAIN SiteOf /\ Context(c) \in Sites
  <2>1. c.at \in Url /\ c.set \in Received
    BY DEF Fetches
  <2> QED BY <2>1, UrlIs, KeyIs
<1>2. Cookie(c.at.host, c) \in Cookies /\ Cookie(c.at.host, c).site = Context(c)
  BY <1>1 DEF Cookie, Cookies
<1> QED BY <1>1, <1>2 DEF Fine, Received

LEMMA RedirectSafe ==
  ASSUME IInv, NEW p \in Procs, NEW f \in DOMAIN calls[p], NEW sets \in BOOLEAN,
         NEW status \in Redirects(calls[p][f]), NEW target \in Urls \cup {None},
         Redirect(p, f, status, target, sets)
  PROVE  IInv'
<1>1. PICK c : c = calls[p][f]
  OBVIOUS
<1>2. /\ c \in Fetches /\ (c.kind = "page" => Alone(p)) /\ f \in DOMAIN jar[p] /\ Fine(c)
      /\ c.stage = "sent"
  BY <1>1 DEF IInv, Types, CallsFine, Redirect, Reached
<1>3. PICK k : k = IF sets THEN Cookie(c.at.host, c) ELSE c.set
  OBVIOUS
<1>4. k \in Received /\ (k # None => k.site = Context(c))
  BY <1>2, <1>3, CookieIs
<1>5. PICK b, s : b = (c.body /\ KeepsBody(status)) /\ s = IF c.body THEN c.past \cup {status} ELSE c.past
  OBVIOUS
<1>6. /\ b \in BOOLEAN /\ s \in Pasts /\ (b => c.body /\ s \subseteq {307})
  <2>1. c.body \in BOOLEAN /\ c.past \in Pasts /\ status \in {302, 303, 307}
    BY <1>1, <1>2 DEF Fetches, Redirects
  <2>2. b \in BOOLEAN /\ (b => c.body /\ status = 307)
    BY <1>5, <2>1 DEF KeepsBody
  <2>3. s \in Pasts
    BY <1>5, <2>1 DEF Pasts
  <2> QED BY <1>2, <1>5, <2>2, <2>3 DEF Fine
<1>7. PICK next : next = [c EXCEPT !.at = target, !.hops = c.hops + 1, !.body = b, !.past = s, !.set = k]
  OBVIOUS
<1>8. PICK o : o = CASE target = None -> Ended(c, "failed")
             [] target # None /\ RedirectShouldBlock(target, c.top) -> Ended(next, "blocked")
             [] target # None /\ ~RedirectShouldBlock(target, c.top) ->
                  IF TooMany(next) THEN Ended(next, "failed") ELSE next
  OBVIOUS
<1>9. calls' = [calls EXCEPT ![p] = Put(calls[p], f, o)] /\ UNCHANGED <<page, now, requests, jar, cache>>
  BY <1>1, <1>3, <1>5, <1>7, <1>8 DEF Redirect, Goes
<1>10. target # None =>
         /\ target \in Url /\ next \in Fetches /\ next.kind = c.kind /\ next.at = target
         /\ next.body = b /\ next.past = s /\ next.set = k /\ next.cookie = c.cookie
         /\ next.stage = "sent" /\ next.url = c.url /\ next.top = c.top /\ next.posted = c.posted
         /\ next.hops # 0
  <2> SUFFICES ASSUME target # None
               PROVE  /\ target \in Url /\ next \in Fetches /\ next.kind = c.kind /\ next.at = target
                      /\ next.body = b /\ next.past = s /\ next.set = k /\ next.cookie = c.cookie
                      /\ next.stage = "sent" /\ next.url = c.url /\ next.top = c.top
                      /\ next.posted = c.posted /\ next.hops # 0
    OBVIOUS
  <2>1. target \in Url
    BY UrlsAssumption
  <2>2. c.hops + 1 \in Nat
    BY <1>2 DEF Fetches
  <2>3. PICK h : h = c.hops + 1
    OBVIOUS
  <2>4. next = [c EXCEPT !.at = target, !.hops = h, !.body = b, !.past = s, !.set = k]
    BY <1>7, <2>3
  <2>5. h # 0 /\ h \in Nat
    BY <1>2, <2>2, <2>3 DEF Fetches
  <2> QED BY <1>2, <1>4, <1>6, <2>1, <2>4, <2>5, ZenonT(60) DEF Fetches
<1>11. o \in Fetches /\ Fine(o) /\ o.kind = c.kind
  <2>1. CASE target = None
    BY <1>2, <1>8, <2>1, EndedFine
  <2>2. CASE target # None /\ (RedirectShouldBlock(target, c.top) \/ TooMany(next))
    <3>1. o \in {Ended(next, "blocked"), Ended(next, "failed")}
      BY <1>8, <2>2
    <3> QED BY <1>10, <2>2, <3>1, EndedFine
  <2>3. CASE target # None /\ ~RedirectShouldBlock(target, c.top) /\ ~TooMany(next)
    <3>1. o = next
      BY <1>8, <2>3
    <3>2. Context(o) = Context(c)
      BY <1>10, <2>3, <3>1 DEF Context
    <3>3. Allowed(o)
      <4>1. o.at = target /\ o.top = c.top /\ c.top \in Tops /\ JudgedPath(o) = UrlPath(target)
        BY <1>2, <1>10, <2>3, <3>1 DEF Fetches, JudgedPath
      <4>2. CASE IsFile(target)
        BY <4>1, <4>2, UrlsAssumption DEF Allowed, Named, IsFile
      <4>3. CASE ~ IsFile(target)
        <5>1. ~ ShouldBlock(<<target.host>>, UrlPath(target), c.top)
          BY <2>3, <4>3 DEF RedirectShouldBlock, PageHost
        <5>2. \/ <<target.host, UrlPath(target)>> \notin Listed
              \/ c.top = None \/ c.top = <<target.host>>
          BY <5>1 DEF ShouldBlock, IsThirdParty, IsBlocked
        <5> QED BY <4>1, <5>2 DEF Allowed, Named
      <4> QED BY <4>2, <4>3
    <3>4. Fine(o)
      BY <1>2, <1>4, <1>6, <1>10, <2>3, <3>1, <3>2, <3>3 DEF Fine
    <3> QED BY <1>10, <2>3, <3>1, <3>4
  <2> QED BY <2>1, <2>2, <2>3
<1>12. CookiesOwn' /\ EntriesOwn' /\ DOMAIN jar' = Procs /\ requests' \in Nat
  BY <1>9 DEF IInv, Types, CookiesOwn, EntriesOwn
<1> QED BY <1>2, <1>9, <1>11, <1>12, GoesSafe

LEMMA AnswerSafe ==
  ASSUME IInv, NEW p \in Procs, NEW f \in DOMAIN calls[p], NEW sets \in BOOLEAN, NEW age \in Ages,
         Answer(p, f, age, sets)
  PROVE  IInv'
<1>1. PICK c : c = calls[p][f]
  OBVIOUS
<1>2. c \in Fetches /\ (c.kind = "page" => Alone(p)) /\ f \in DOMAIN jar[p] /\ Fine(c)
  BY <1>1 DEF IInv, Types, CallsFine
<1>3. PICK k : k = IF sets THEN Cookie(c.at.host, c) ELSE c.set
  OBVIOUS
<1>4. k \in Received /\ (k # None => k \in Cookies /\ k.site = Context(c))
  BY <1>2, <1>3, CookieIs
<1>5. PICK e : e = [c EXCEPT !.set = k]
  OBVIOUS
<1>6. e \in Fetches /\ e.kind = c.kind /\ e.url = c.url /\ e.top = c.top /\ e.set = k
  BY <1>2, <1>4, <1>5 DEF Fetches
<1>7. Context(e) = Context(c) /\ Key(e)[1] = Context(e) /\ Key(c)[1] = Context(c) /\ Context(c) \in Sites
  BY <1>2, <1>6, KeyIs DEF Context
<1>8. PICK o : o = Ended(e, "loaded")
  OBVIOUS
<1>9. o \in Fetches /\ Fine(o) /\ o.kind = c.kind
  BY <1>6, <1>8, EndedFine
<1>10. PICK held : held = Kept(jar[p][f], e)
  OBVIOUS
<1>11. /\ calls' = [calls EXCEPT ![p] = Put(calls[p], f, o)] /\ UNCHANGED <<page, now, requests>>
       /\ jar' = [jar EXCEPT ![p][f] = held]
       /\ cache' = IF MayCache(f, c) /\ age # 0 THEN Cached(c, age) ELSE cache
  BY <1>1, <1>3, <1>5, <1>8, <1>10 DEF Answer, Goes
<1>12. \A x \in DOMAIN held : held[x] \in Cookies /\ held[x].site = x[1]
  <2>1. \A x \in DOMAIN jar[p][f] : jar[p][f][x] \in Cookies /\ jar[p][f][x].site = x[1]
    BY <1>2 DEF IInv, CookiesOwn
  <2>2. CASE k = None
    BY <1>6, <1>10, <2>1, <2>2 DEF Kept
  <2>3. CASE k # None
    <3>1. PICK b, key : b = jar[p][f] /\ key = Key(e)
      OBVIOUS
    <3>2. held = Put(b, key, k)
      BY <1>6, <1>10, <2>3, <3>1 DEF Kept
    <3> QED BY <1>4, <1>7, <2>1, <2>3, <3>1, <3>2 DEF Put
  <2> QED BY <2>2, <2>3
<1>13. DOMAIN jar = Procs /\ DOMAIN jar' = Procs /\ \A q \in Procs : DOMAIN jar'[q] = DOMAIN jar[q]
  BY <1>11 DEF IInv, Types
<1>14. CookiesOwn'
  <2> SUFFICES ASSUME NEW q \in Procs, NEW g \in DOMAIN jar'[q], NEW x \in DOMAIN jar'[q][g]
               PROVE  jar'[q][g][x] \in Cookies /\ jar'[q][g][x].site = x[1]
    BY DEF CookiesOwn
  <2>1. g \in DOMAIN jar[q]
    BY <1>13
  <2>2. CASE q = p /\ g = f
    <3>1. jar'[q][g] = held
      BY <1>2, <1>11, <1>13, <2>2
    <3> QED BY <1>12, <3>1
  <2>3. CASE ~ (q = p /\ g = f)
    <3>1. jar'[q][g] = jar[q][g]
      BY <1>11, <1>13, <2>1, <2>3
    <3> QED BY <2>1, <3>1 DEF IInv, CookiesOwn
  <2> QED BY <2>2, <2>3
<1>15. EntriesOwn'
  <2>1. CASE cache' = cache
    BY <2>1 DEF IInv, EntriesOwn
  <2>2. CASE MayCache(f, c) /\ age # 0
    <3>1. PICK key, n : /\ key = <<Key(c), c.url>>
                        /\ n = [stored |-> now, age |-> age, posted |-> c.posted, site |-> Context(c)]
      OBVIOUS
    <3>2. key[1][1] = Context(c)
      BY <1>7, <3>1
    <3>3. n \in Entries /\ n.site = Context(c) /\ ~ n.posted
      <4>1. now \in Nat /\ age \in Nat /\ c.posted = FALSE
        BY <1>2, <2>2, UrlsAssumption DEF IInv, Types, MayCache, Fetches
      <4> QED BY <1>7, <3>1, <4>1 DEF Entries
    <3>4. cache' = Put(cache, key, n)
      BY <1>11, <2>2, <3>1 DEF Cached
    <3>5. /\ DOMAIN cache' = DOMAIN cache \cup {key} /\ cache'[key] = n
          /\ \A x \in DOMAIN cache \ {key} : cache'[x] = cache[x]
      BY <3>4 DEF Put
    <3>6. \A x \in DOMAIN cache : cache[x] \in Entries /\ cache[x].site = x[1][1] /\ ~ cache[x].posted
      BY DEF IInv, EntriesOwn
    <3>7. ASSUME NEW x \in DOMAIN cache'
          PROVE  cache'[x] \in Entries /\ cache'[x].site = x[1][1] /\ ~ cache'[x].posted
      <4>1. CASE x = key
        BY <3>2, <3>3, <3>5, <4>1
      <4>2. CASE x # key
        BY <3>5, <3>6, <4>2
      <4> QED BY <4>1, <4>2
    <3> QED BY <3>7 DEF EntriesOwn
  <2> QED BY <1>11, <2>1, <2>2
<1>16. requests' \in Nat
  BY <1>11 DEF IInv, Types
<1> QED BY <1>2, <1>9, <1>11, <1>13, <1>14, <1>15, <1>16, GoesSafe

LEMMA UseSafe ==
  ASSUME IInv, NEW p \in Procs, NEW f \in DOMAIN calls[p], Use(p, f)
  PROVE  IInv'
<1>1. PICK c, m : c = calls[p][f] /\ m = [g \in DOMAIN calls[p] \ {f} |-> calls[p][g]]
  OBVIOUS
<1>2. c \in Fetches /\ (c.kind = "page" => Alone(p)) /\ c.url \in Url
  BY <1>1 DEF IInv, Types, Fetches
<1>3. /\ calls' = [calls EXCEPT ![p] = m] /\ UNCHANGED <<jar, cache, now, requests>>
      /\ page' = page \/ (page' = [page EXCEPT ![p] = c.url] /\ c.kind = "page")
  BY <1>1 DEF Use
<1>4. DOMAIN calls = Procs /\ DOMAIN calls' = Procs
  BY <1>3 DEF IInv, Types
<1>5. page' \in [Procs -> Url \cup {None}] /\ \A q \in Procs : page'[q] = page[q] \/ Alone(q)
  <2>1. page \in [Procs -> Url \cup {None}]
    BY DEF IInv, Types
  <2>2. CASE page' = page
    BY <2>1, <2>2
  <2>3. CASE page' = [page EXCEPT ![p] = c.url] /\ c.kind = "page"
    BY <1>2, <2>1, <2>3
  <2> QED BY <1>3, <2>2, <2>3
<1>6. ASSUME NEW q \in Procs
      PROVE  /\ DOMAIN calls'[q] \subseteq DOMAIN calls[q]
             /\ \A g \in DOMAIN calls'[q] : calls'[q][g] = calls[q][g]
  BY <1>1, <1>3, <1>4
<1>7. \A q \in Procs : Alone(q)' <=> Alone(q)
  BY <1>3 DEF Alone
<1>8. Types'
  <2> SUFFICES ASSUME NEW q \in Procs
               PROVE  /\ DOMAIN jar[q] \in {{Main}, Fetchers}
                      /\ Alone(q) \/ (page'[q] # None /\ ~ IsFile(page'[q]))
                      /\ DOMAIN calls'[q] \subseteq DOMAIN jar[q]
                      /\ \A g \in DOMAIN calls'[q] : /\ calls'[q][g] \in Fetches
                                                     /\ calls'[q][g].kind = "page" => Alone(q)
    BY <1>3, <1>4, <1>5, <1>7 DEF IInv, Types, IsFile
  <2>1. /\ DOMAIN jar[q] \in {{Main}, Fetchers} /\ DOMAIN calls[q] \subseteq DOMAIN jar[q]
        /\ Alone(q) \/ (page[q] # None /\ ~ IsFile(page[q]))
        /\ \A g \in DOMAIN calls[q] : /\ calls[q][g] \in Fetches
                                      /\ calls[q][g].kind = "page" => Alone(q)
    BY DEF IInv, Types
  <2>2. Alone(q) \/ (page'[q] # None /\ ~ IsFile(page'[q]))
    BY <1>5, <2>1
  <2>3. ASSUME NEW g \in DOMAIN calls'[q]
        PROVE  g \in DOMAIN calls[q] /\ calls'[q][g] \in Fetches /\ (calls'[q][g].kind = "page" => Alone(q))
    <3>1. g \in DOMAIN calls[q] /\ calls'[q][g] = calls[q][g]
      BY <1>6
    <3>2. calls[q][g] \in Fetches /\ (calls[q][g].kind = "page" => Alone(q))
      BY <3>1 DEF IInv, Types
    <3> QED BY <3>1, <3>2
  <2>4. DOMAIN calls'[q] \subseteq DOMAIN jar[q]
    BY <2>1, <2>3
  <2> QED BY <2>1, <2>2, <2>3, <2>4
<1>9. CallsFine'
  BY <1>6 DEF IInv, CallsFine
<1>10. CookiesOwn' /\ EntriesOwn'
  BY <1>3 DEF IInv, CookiesOwn, EntriesOwn
<1> QED BY <1>8, <1>9, <1>10 DEF IInv

\* The threads of a batch begin with copies of the cookies, and end without.
LEMMA BatchSafe ==
  ASSUME IInv, NEW p \in Procs, OpenBatch(p) \/ CloseBatch(p)
  PROVE  IInv'
<1>1. PICK D \in {{Main}, Fetchers} :
        /\ jar' = [jar EXCEPT ![p] = [f \in D |-> jar[p][Main]]]
        /\ D = {Main} \/ (page[p] # None /\ ~ IsFile(page[p]))
  BY DEF OpenBatch, CloseBatch, Fetchers
<1>2. UNCHANGED <<page, calls, cache, now, requests>> /\ calls[p] = <<>>
  BY DEF OpenBatch, CloseBatch
<1>3. PICK j : j = [f \in D |-> jar[p][Main]]
  OBVIOUS
<1>4. DOMAIN jar = Procs /\ jar' = [jar EXCEPT ![p] = j] /\ DOMAIN j = D /\ Main \in DOMAIN jar[p]
  BY <1>1, <1>3, MainIs DEF IInv, Types
<1>5. DOMAIN jar' = Procs /\ \A q \in Procs : jar'[q] = IF q = p THEN j ELSE jar[q]
  BY <1>4
<1>6. DOMAIN calls[p] = {}
  BY <1>2
<1>7. Types'
  <2> SUFFICES ASSUME NEW q \in Procs
               PROVE  /\ DOMAIN jar'[q] \in {{Main}, Fetchers}
                      /\ Alone(q)' \/ (page[q] # None /\ ~ IsFile(page[q]))
                      /\ DOMAIN calls[q] \subseteq DOMAIN jar'[q]
                      /\ \A f \in DOMAIN calls[q] : calls[q][f].kind = "page" => Alone(q)'
    BY <1>2, <1>5 DEF IInv, Types, IsFile
  <2>1. CASE q = p
    BY <1>1, <1>4, <1>5, <1>6, <2>1 DEF Alone
  <2>2. CASE q # p
    BY <1>5, <2>2 DEF IInv, Types, Alone
  <2> QED BY <2>1, <2>2
<1>8. CookiesOwn'
  <2> SUFFICES ASSUME NEW q \in Procs, NEW f \in DOMAIN jar'[q], NEW k \in DOMAIN jar'[q][f]
               PROVE  jar'[q][f][k] \in Cookies /\ jar'[q][f][k].site = k[1]
    BY DEF CookiesOwn
  <2>1. CASE q = p
    <3>1. jar'[q][f] = jar[p][Main]
      BY <1>3, <1>4, <1>5, <2>1
    <3> QED BY <1>4, <3>1 DEF IInv, CookiesOwn
  <2>2. CASE q # p
    BY <1>5, <2>2 DEF IInv, CookiesOwn
  <2> QED BY <2>1, <2>2
<1>9. EntriesOwn' /\ CallsFine'
  BY <1>2 DEF IInv, EntriesOwn, CallsFine
<1> QED BY <1>7, <1>8, <1>9 DEF IInv

-----------------------------------------------------------------------------
(* Theorems                                                                *)

LEMMA InitIInv == Init => IInv
<1> SUFFICES ASSUME Init PROVE IInv
  OBVIOUS
<1>1. /\ page = Open /\ jar = [p \in Procs |-> [f \in {Main} |-> <<>>]]
      /\ calls = [p \in Procs |-> <<>>] /\ cache = <<>> /\ now = 0 /\ requests = 0
  BY DEF Init
<1>2. DOMAIN cache = {} /\ \A p \in Procs : DOMAIN calls[p] = {} /\ DOMAIN jar[p] = {Main}
                                           /\ \A f \in DOMAIN jar[p] : DOMAIN jar[p][f] = {}
  BY <1>1
<1>3. page \in [Procs -> Url \cup {None}]
  BY <1>1, UrlsAssumption
<1> QED BY <1>1, <1>2, <1>3 DEF IInv, Types, CookiesOwn, EntriesOwn, CallsFine, Alone

LEMMA NextIInv == IInv /\ [Next]_vars => IInv'
<1> SUFFICES ASSUME IInv, [Next]_vars PROVE IInv'
  OBVIOUS
<1>1. CASE Tick
  <2>1. UNCHANGED <<page, jar, calls, cache, requests>> /\ now' \in Nat
    BY <1>1 DEF Tick, IInv, Types
  <2>2. Types'
    BY <2>1 DEF IInv, Types, Alone, IsFile
  <2> QED BY <2>1, <2>2 DEF IInv, CookiesOwn, EntriesOwn, CallsFine
<1>2. ASSUME NEW p \in Procs, Process(p) PROVE IInv'
  BY <1>2, NavigateSafe, SubresourceSafe, FailSafe, UseSafe, BatchSafe DEF Process
<1>3. ASSUME NEW p \in Procs, Server(p) PROVE IInv'
  BY <1>3, RedirectSafe, AnswerSafe DEF Server
<1>4. CASE UNCHANGED vars
  BY <1>4 DEF vars, IInv, Types, CookiesOwn, EntriesOwn, CallsFine, Alone, IsFile
<1> QED BY <1>1, <1>2, <1>3, <1>4 DEF Next

\* The invariant holds in every state: every cookie and entry is kept under the
\* site it was received on, and every fetch carries its own and is at a hop the
\* policy allows: by path and query if it is the first, by its path after a redirect.
THEOREM Invariant == Spec => []IInv
<1>1. Init => IInv
  BY InitIInv
<1>2. IInv /\ [Next]_vars => IInv'
  BY NextIInv
<1> QED BY <1>1, <1>2, PTL DEF Spec

LEMMA CallsAre == IInv => \A c \in Calls : c \in Fetches /\ Fine(c)
BY DEF Calls, IInv, Types, CallsFine

\* No first request goes to a place of another host than the page's that is listed
\* with its path and query, no redirected one to a place listed with its path alone --
\* what is listed by its query a redirect does reach --, and a form's body goes on past
\* no redirect but a 307 (redirect_should_block, HttpFetcher::fetch).
THEOREM HopsAllowed == Spec => []HopsAreAllowed
<1>1. IInv => BlockedNeverContacted
  BY CallsAre DEF BlockedNeverContacted, Fine, Allowed
<1>2. IInv => BodyStopsAtRedirect
  BY CallsAre DEF BodyStopsAtRedirect, Fine
<1>3. IInv => HopsAreAllowed
  BY <1>1, <1>2 DEF HopsAreAllowed
<1> QED BY <1>3, Invariant, PTL

\* The list names no place by its query alone.
NoQueryRules == \A h, path, query :
  <<h, <<path, query>>>> \in Listed => <<h, <<path, "">>>> \in Listed

\* With a list that names no place by its query alone, a redirect leads nowhere a first
\* request could not go, as the comments say of every list (redirect_should_block).
THEOREM SameCallWithoutQueryRules == NoQueryRules => (Spec => []SameCallOnEveryHop)
<1> SUFFICES ASSUME NoQueryRules PROVE Spec => []SameCallOnEveryHop
  OBVIOUS
<1>1. ASSUME NEW c, ~ Named(c, JudgedPath(c)) PROVE ~ Named(c, PathAndQuery(c.at))
  BY <1>1 DEF NoQueryRules, Named, JudgedPath, PathAndQuery, UrlPath
<1>2. IInv => SameCallOnEveryHop
  BY <1>1, CallsAre DEF SameCallOnEveryHop, Fine, Allowed
<1> QED BY <1>2, Invariant, PTL

\* A cookie or a cached response is used only on the site it was received on,
\* and a response only while it is fresh (StoragePartitionKey::for_request,
\* DiskCache::get).
THEOREM StoredOwnAndFresh == Spec => []StoredIsOwnAndFresh
<1>1. IInv => PartitionsStayApart
  BY CallsAre DEF PartitionsStayApart, Fine
<1>2. ASSUME IInv PROVE ServedFresh
  <2>1. ASSUME NEW c \in Calls, c.stage = "done", c.got.how = "cache"
        PROVE  c.got.at \in Nat /\ c.got.entry.stored \in Nat /\ c.got.entry.age \in Nat
    <3>1. c.got \in Outcomes
      BY <1>2, <2>1, CallsAre DEF Fine
    <3> QED BY <2>1, <3>1 DEF Outcomes, Entries
  <2>2. ASSUME NEW c \in Calls, c.stage = "done", c.got.how = "cache"
        PROVE  /\ c.got.at < c.got.entry.stored + c.got.entry.age
               /\ ~ c.got.entry.posted /\ ~ c.posted
    BY <1>2, <2>2, CallsAre DEF Fine
  <2>3. ASSUME NEW c \in Calls, c.stage = "done", c.got.how = "cache"
        PROVE  c.got.at - c.got.entry.stored < c.got.entry.age
    BY <2>1, <2>2, <2>3
  <2> QED BY <2>2, <2>3 DEF ServedFresh
<1>3. IInv => StoredIsOwnAndFresh
  BY <1>1, <1>2 DEF StoredIsOwnAndFresh
<1> QED BY <1>3, Invariant, PTL
=============================================================================
