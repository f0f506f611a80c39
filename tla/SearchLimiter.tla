----------------------------- MODULE SearchLimiter -----------------------------
(***************************************************************************)
(* The search budget of the relay: searchlimit.go, called from the request *)
(* chain of relay.go for the address Hardened leaves the request with.     *)
(* Requests run concurrently; each reads the clock before it gets the      *)
(* limiter's lock.  Time passes in ticks, Rate tokens each.  A bucket      *)
(* keeps the age of its last take, which is as much as the code's `last`   *)
(* tells apart from now.                                                   *)
(***************************************************************************)
EXTENDS RelayGate, Integers

CONSTANTS
  Env,       \* environments the relay may be started in
  Client,    \* requesting parties
  PeerOf(_), \* the transport peer a client's requests come from
  ClaimsOf(_), \* what its requests may carry in X-Forwarded-For
  Filter,
  Handler,   \* requests that run at the same time
  NoClient,
  Ceiling, Burst, Rate,
  MaxStale   \* bound: ticks between reading the clock and taking the lock

ASSUME SearchLimiterAssumption ==
  /\ {Ceiling, Burst, Rate} \subseteq Nat \ {0} /\ MaxStale \in Nat
  /\ NoClient \notin Client

\* A hop in front of the relay rewrites X-Forwarded-For: what reaches a trusted
\* peer's requests is the one address it saw (Hardened, relay.go:352).
ASSUME ProxiesAssumption ==
  \A env \in Env : Loads(env) =>
    \A c \in Client : Trusted(FromEnv(env), PeerOf(c)) =>
      \A from, other \in ClaimsOf(c) : from = other

VARIABLES
  cfg,
  buckets,  \* per address: tokens and the age of the last take
  handler,  \* the take each request is about to make, and how old its clock is
  debt,     \* what each client has been granted beyond what has refilled since
  swept,    \* whether the table has ever been swept
  last      \* the last take: whose, and whether it was granted

limiterVars == <<cfg, buckets, handler, debt, swept, last>>

NoTake == [client |-> NoClient, ip |-> NoAddress, stale |-> 0]

\* An age beyond which a bucket is full for every clock a request may hold.
MaxAge == Burst + MaxStale

LimiterInit ==
  /\ \E env \in Env : Loads(env) /\ cfg = FromEnv(env)
  /\ buckets = <<>>
  /\ handler = [h \in Handler |-> NoTake]
  /\ debt = [c \in Client |-> 0] /\ swept = FALSE
  /\ last = [client |-> NoClient, granted |-> FALSE]

\* What is granted beyond the budget is counted up to here.
MaxDebt == Burst + Rate * MaxStale + 1

-----------------------------------------------------------------------------
(* The request chain *)

\* Over-cap filters are refused before, and filters without a search string are
\* left to khatru's limiter: neither gets as far as the search budget.
Request(h, c, filter, forwardedFor) ==
  LET request == [peer |-> PeerOf(c), forwardedFor |-> forwardedFor,
                  path |-> "/", kind |-> "websocket"]
  IN /\ handler[h] = NoTake
     /\ Served(request)
     /\ ~FilterTooComplex(filter) /\ filter.search
     /\ handler' = [handler EXCEPT ![h] =
          [client |-> c, ip |-> ClientIP(cfg, request), stale |-> 0]]
     /\ UNCHANGED <<cfg, buckets, debt, swept, last>>

\* A fault: a bucket is full only if a take left it so.
LiteralIsFull(bucket, stale) == bucket.tokens >= Burst

IsFull(bucket, stale) == bucket.tokens + (bucket.age - stale) * Rate >= Burst

\* A new address at the ceiling.
Crowded(ip) == ip \notin DOMAIN buckets /\ Cardinality(DOMAIN buckets) >= Ceiling

\* sweepLocked.
Swept(stale) ==
  [ip \in {o \in DOMAIN buckets : ~IsFull(buckets[o], stale)} |-> buckets[ip]]

\* Whether the table has a bucket for the address or may get one.
HasRoom(ip, table) == ip \in DOMAIN table \/ Cardinality(DOMAIN table) < Ceiling

\* The bucket after the lazy refill; a clock older than the last take adds nothing.
Refilled(bucket, stale) ==
  IF bucket.age > stale
    THEN [tokens |-> Min({Burst, bucket.tokens + (bucket.age - stale) * Rate}), age |-> stale]
    ELSE bucket

\* take, under the lock.
Take(h) ==
  LET ip == handler[h].ip
      stale == handler[h].stale
      table == IF Crowded(ip) THEN Swept(stale) ELSE buckets
      bucket == IF ip \in DOMAIN table
                  THEN Refilled(table[ip], stale)
                  ELSE [tokens |-> Burst, age |-> stale]
      room == HasRoom(ip, table)
      granted == room /\ bucket.tokens >= 1
  IN /\ handler[h] # NoTake
     /\ handler' = [handler EXCEPT ![h] = NoTake]
     /\ buckets' = IF room
          THEN [o \in DOMAIN table \cup {ip} |->
                  IF o # ip THEN table[o]
                  ELSE [bucket EXCEPT !.tokens = IF granted THEN @ - 1 ELSE @]]
          ELSE table
     /\ debt' = [debt EXCEPT ![handler[h].client] =
          IF granted THEN Min({@ + 1, MaxDebt}) ELSE @]
     /\ swept' = (swept \/ Crowded(ip))
     /\ last' = [client |-> handler[h].client, granted |-> granted]
     /\ UNCHANGED cfg

Tick ==
  /\ \A h \in Handler : handler[h].stale < MaxStale \/ handler[h] = NoTake
  /\ handler' = [h \in Handler |->
       IF handler[h] = NoTake THEN NoTake ELSE [handler[h] EXCEPT !.stale = @ + 1]]
  /\ buckets' = [ip \in DOMAIN buckets |->
       [buckets[ip] EXCEPT !.age = Min({@ + 1, MaxAge})]]
  /\ debt' = [c \in Client |-> Max({0, debt[c] - Rate})]
  /\ UNCHANGED <<cfg, swept, last>>

Asks(c) ==
  \E h \in Handler, filter \in Filter, from \in ClaimsOf(c) :
    Request(h, c, filter, from)

LimiterNext ==
  \/ \E c \in Client : Asks(c)
  \/ \E h \in Handler : Take(h)
  \/ Tick

LimiterSpec == LimiterInit /\ [][LimiterNext]_limiterVars

\* The clock goes on, a handler gets the lock, and each client may come back.
LimiterFairSpec ==
  /\ LimiterSpec
  /\ WF_limiterVars(Tick) /\ \A h \in Handler : WF_limiterVars(Take(h))
  /\ WF_limiterVars(\E c \in Client : Asks(c))

-----------------------------------------------------------------------------
(* Properties *)

\* Whatever address a client claims and however its requests interleave, until the
\* table is first swept it is granted no more searches in any time than the burst
\* and what refills in that time (relay.go, searchRate*), but for the refill of one
\* clock reading held too long.  (Each sweep may give such a reading back once more.)
BudgetHolds == ~swept => \A c \in Client : debt[c] < MaxDebt

\* "New IPs fail closed until draining buckets refill and get swept"
\* (searchlimit.go:17): when only one client still asks, it is served again and again.
LoneClientIsServed ==
  \A c \in Client :
    <>[](last.client = c /\ \A h \in Handler : handler[h].client \in {c, NoClient})
      => []<>(last.granted)
=============================================================================
