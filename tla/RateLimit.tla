------------------------------ MODULE RateLimit ------------------------------
(***************************************************************************)
(* The request limit of the API: the middleware of rate_limit.py in every  *)
(* replica, with the buckets in Postgres (rate_limit_pg.py).               *)
(*                                                                         *)
(* A check is one statement, under the lock of the bucket's row, with the  *)
(* clock of the database as it was when the transaction began: checks can  *)
(* take the lock in another order than they began in.  Tokens are counted  *)
(* in parts, One of them to a token, and the time in seconds.              *)
(***************************************************************************)
EXTENDS Integers, FiniteSets

CONSTANTS Checker,              \* checks under way at once, in whichever replica
          Limited,              \* paths with a limiter
          ApiKey, Address, NoApiKey,
          One, Burst, Rate,     \* parts in a token; of each path: capacity, refill per second
          MaxTime, MaxChecks    \* bounds

ASSUME RateLimitAssumption ==
  /\ NoApiKey \notin ApiKey /\ One \in Nat \ {0} /\ MaxTime \in Nat /\ MaxChecks \in Nat
  /\ Burst \in [Limited -> Nat \ {0}] /\ Rate \in [Limited -> Nat \ {0}]

VARIABLES
  clock,      \* of the database
  buckets,    \* the rows: tokens, when they were counted, the last decision
  check,      \* what each check is doing
  served,     \* bucket, second -> checks that began in it and were allowed
  checks

lvars == <<clock, buckets, check, served, checks>>

\* client_key: the key of the caller, or else where it calls from.
ClientKey(key, address) == IF key # NoApiKey THEN <<"key", key>> ELSE <<"ip", address>>
Client == {ClientKey(k, a) : k \in ApiKey \cup {NoApiKey}, a \in Address}
Bucket == Limited \X Client
NoBucket  == [there |-> FALSE, tokens |-> 0, at |-> 0, allowed |-> TRUE, retry |-> 0]
Quiet  == [pc |-> "idle", bucket |-> <<>>, start |-> 0]

LInit ==
  /\ clock = 0 /\ checks = 0
  /\ buckets = [b \in Bucket |-> NoBucket]
  /\ check = [w \in Checker |-> Quiet]
  /\ served = [x \in Bucket \X (0 .. MaxTime) |-> 0]

Tick ==
  /\ clock < MaxTime
  /\ clock' = clock + 1
  /\ UNCHANGED <<buckets, check, served, checks>>

\* A request for a path with a limiter: the transaction of its check begins.
Begin(w, path, key, address) ==
  /\ check[w].pc = "idle" /\ checks < MaxChecks
  /\ check' = [check EXCEPT ![w] = [pc |-> "begun", bucket |-> <<path, ClientKey(key, address)>>, start |-> clock]]
  /\ checks' = checks + 1
  /\ UNCHANGED <<clock, buckets, served>>

\* The tokens there are now: a new row is full, and one refills up to its
\* capacity by the time since it was counted, which may be before.
Least(a, b) == IF a < b THEN a ELSE b
FilledEitherWay(path, row, now) ==
  IF row.there THEN Least(Burst[path], row.tokens + (IF now > row.at THEN now - row.at ELSE row.at - now) * Rate[path])
  ELSE Burst[path]
Filled(path, row, now) ==
  IF row.there THEN Least(Burst[path], row.tokens + (now - row.at) * Rate[path]) ELSE Burst[path]
\* Retry-After, whole seconds: at least one.
RetryAfter(path, tokens) ==
  LET wait == (One - tokens + Rate[path] - 1) \div Rate[path] IN IF wait < 1 THEN 1 ELSE wait

\* The statement and its commit: refill, decide and spend.
Check(w) ==
  /\ check[w].pc = "begun"
  /\ LET b      == check[w].bucket
         now    == check[w].start
         filled == Filled(b[1], buckets[b], now)
         ok     == filled >= One
         left   == IF ok THEN filled - One ELSE filled IN
     /\ buckets' = [buckets EXCEPT ![b] = [there |-> TRUE, tokens |-> left, at |-> now, allowed |-> ok,
                                           retry |-> IF ok THEN 0 ELSE RetryAfter(b[1], left)]]
     /\ served' = IF ok THEN [served EXCEPT ![<<b, now>>] = @ + 1] ELSE served
  /\ check' = [check EXCEPT ![w] = Quiet]
  /\ UNCHANGED <<clock, checks>>

\* The database cannot be reached: a 500, and nothing is spent.
CheckFails(w) ==
  /\ check[w].pc = "begun"
  /\ check' = [check EXCEPT ![w] = Quiet]
  /\ UNCHANGED <<clock, buckets, served, checks>>

LNext ==
  \/ Tick
  \/ \E w \in Checker, p \in Limited, k \in ApiKey \cup {NoApiKey}, a \in Address : Begin(w, p, k, a)
  \/ \E w \in Checker : Check(w)
  \/ \E w \in Checker : CheckFails(w)

LSpec == LInit /\ [][LNext]_lvars

-----------------------------------------------------------------------------
ServedIn(b, from, to) ==
  LET sum[t \in from - 1 .. to] == IF t < from THEN 0 ELSE sum[t - 1] + served[<<b, t>>] IN sum[to]

\* Over any stretch of time the replicas together allow a client no more on a
\* path than a full bucket and what it refills in that time, however the
\* checks overlap; and a client that is refused and asks again when it was
\* told to, with nobody else on its bucket since, is allowed.
BudgetHolds ==
  \A b \in Bucket :
    /\ \A from \in 0 .. MaxTime : \A to \in from .. MaxTime :
         ServedIn(b, from, to) * One <= Burst[b[1]] + (to - from) * Rate[b[1]]
    /\ ~buckets[b].allowed /\ Burst[b[1]] >= One =>
         Filled(b[1], buckets[b], buckets[b].at + buckets[b].retry) >= One
=============================================================================
