-------------------------------- MODULE Gate --------------------------------
(***************************************************************************)
(* What a request to sync-server passes before the store: a number of        *)
(* requests from each address in a window of time, and a lockout of accounts *)
(* for which wrong secrets keep coming, from whatever address. The server    *)
(* handles one request at a time; all of this is in memory.                  *)
(***************************************************************************)
EXTENDS Integers, Sequences

CONSTANTS
  Addresses,    \* remote IP addresses
  Accounts,
  MaxPerWindow, \* MAX_REQUESTS_PER_IP_WINDOW
  Window,       \* IP_WINDOW
  MaxFailures,  \* MAX_AUTH_FAILURES
  Lockout,      \* LOCKOUT_DURATION
  MaxTime,      \* bound: of the clock
  MaxRequests   \* bound

ASSUME GateAssumption ==
  {MaxPerWindow, Window, MaxFailures, Lockout, MaxTime, MaxRequests} \subseteq Nat \ {0}

VARIABLES
  now,
  buckets,  \* ip_buckets: count and window_start of each address
  lockouts, \* account_lockouts: failures, and locked_until
  exists,   \* accounts that were ever pushed
  requests, \* how many came
  passed,   \* the times of those that check_ip let through, by address; not in the code
  guesses   \* likewise: the times of the wrong secrets that reached the store, by account,
            \* since the last right one

gateVars == <<now, buckets, lockouts, exists, requests, passed, guesses>>

NoBucket  == [count |-> 0, start |-> 0]
NoLockout == [failures |-> 0, until |-> 0]

----------------------------------------------------------------------------
\* check_ip: refused requests count, and the next window starts with a request.
Counted(b) ==
  IF b.count = 0 \/ now - b.start >= Window THEN [count |-> 1, start |-> now]
  ELSE [b EXCEPT !.count = b.count + 1]

\* check_account_lockout
Locked(a) == now < lockouts[a].until

\* Variant: the account is locked after one failure more.
FailedLate(l) ==
  [failures |-> l.failures + 1,
   until    |-> IF l.failures + 1 > MaxFailures THEN now + Lockout ELSE l.until]

\* record_auth_failure: once at the limit, every further failure locks again.
Failed(l) ==
  [failures |-> l.failures + 1,
   until    |-> IF l.failures + 1 >= MaxFailures THEN now + Lockout ELSE l.until]

----------------------------------------------------------------------------
Arrives(ip) ==
  /\ requests < MaxRequests /\ requests' = requests + 1
  /\ buckets' = [buckets EXCEPT ![ip] = Counted(buckets[ip])]
  /\ UNCHANGED now

\* 429, whatever the request is
Refused(ip) ==
  /\ Arrives(ip)
  /\ buckets'[ip].count > MaxPerWindow
  /\ UNCHANGED <<lockouts, exists, passed, guesses>>

Passes(ip) ==
  /\ Arrives(ip)
  /\ buckets'[ip].count <= MaxPerWindow
  /\ passed' = [passed EXCEPT ![ip] = Append(passed[ip], now)]

\* No account in the path, no secret, no such method; the account is locked; or the
\* store answers 404, 409 or 500, which are neither a failure nor a success.
Turned(ip) ==
  /\ Passes(ip)
  /\ UNCHANGED <<lockouts, exists, guesses>>

\* A push or pull reaches the store with a wrong secret: 401.
Guess(ip, a) ==
  /\ Passes(ip)
  /\ a \in exists /\ ~ Locked(a)
  /\ lockouts' = [lockouts EXCEPT ![a] = Failed(lockouts[a])]
  /\ guesses' = [guesses EXCEPT ![a] = Append(guesses[a], now)]
  /\ UNCHANGED exists

\* With the right one, or as its first push: 200, and the account is forgotten.
Serve(ip, a) ==
  /\ Passes(ip)
  /\ ~ Locked(a)
  /\ exists' = exists \cup {a}
  /\ lockouts' = [lockouts EXCEPT ![a] = NoLockout]
  /\ guesses' = [guesses EXCEPT ![a] = <<>>]

\* Time passes, up to the bound.
Wait ==
  /\ now' = IF now < MaxTime THEN now + 1 ELSE now
  /\ UNCHANGED <<buckets, lockouts, exists, requests, passed, guesses>>

GateInit ==
  /\ now = 0 /\ requests = 0 /\ exists = {}
  /\ buckets = [ip \in Addresses |-> NoBucket]
  /\ lockouts = [a \in Accounts |-> NoLockout]
  /\ passed = [ip \in Addresses |-> <<>>] /\ guesses = [a \in Accounts |-> <<>>]

GateNext ==
  \/ Wait
  \/ \E ip \in Addresses :
       \/ Refused(ip) \/ Turned(ip)
       \/ \E a \in Accounts : Guess(ip, a) \/ Serve(ip, a)

GateSpec == GateInit /\ [][GateNext]_gateVars

----------------------------------------------------------------------------
(* Properties. *)

\* At most n of the times in s fall into any span of d.
AtMost(n, s, d) == \A i \in DOMAIN s : i + n \in DOMAIN s => s[i + n] - s[i] >= d

\* However requests are spaced, at most twice the limit of one address pass in any
\* span of a window (windows are fixed, and one may end just where the next starts).
BurstsAreBounded == \A ip \in Addresses : AtMost(2 * MaxPerWindow, passed[ip], Window)

\* Wrong secrets for one account, from whatever addresses and however they are
\* spaced, reach the store no more than MaxFailures times in any lockout's span,
\* as long as no right one comes in between.
GuessesAreBounded == \A a \in Accounts : AtMost(MaxFailures, guesses[a], Lockout)

\* However attempts are spaced and wherever they come from, the windows and the
\* lockouts bound them (RateLimiter::check_ip, record_auth_failure).
AttemptsAreBounded == BurstsAreBounded /\ GuessesAreBounded
=============================================================================
