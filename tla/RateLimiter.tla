---------------------------- MODULE RateLimiter ----------------------------
(***************************************************************************)
(* The gateway's rate limiting: RateLimitMiddleware.dispatch over          *)
(* TokenBucketRateLimiter.is_allowed.  A request is checked against the    *)
(* counter of its user and endpoint group, then against the counter of its *)
(* address.  A check is two Redis commands with an await between them: GET,*)
(* then SETEX (no counter) or INCR (counter below the limit), so requests  *)
(* interleave between them and a counter can expire between them.          *)
(*                                                                         *)
(* The middleware is taken with rate limiting enabled, Redis reachable and *)
(* a path that is not exempt: every other case passes the request on.      *)
(***************************************************************************)
EXTENDS Naturals, Sequences, FiniteSets

CONSTANTS
  InFlight,  \* requests handled at the same time
  Keys,      \* Redis counters
  KeysOf,    \* the counters a request is checked against, in order
  Limit,     \* limit of each counter
  Window     \* window_s, in ticks

ASSUME RateAssumption ==
  /\ IsFiniteSet(InFlight)
  /\ KeysOf \in [InFlight -> Seq(Keys)]
  /\ \A r \in InFlight : KeysOf[r] # <<>>
  /\ Limit \in [Keys -> Nat \ {0}]
  /\ Window \in Nat \ {0}

VARIABLES
  counter,  \* value of each Redis counter, 0 when there is none
  ttl,      \* ticks until the counter expires, NoTTL when it never does
  pc,       \* where each request is
  level,    \* which of its counters a request is being checked against
  passed    \* history: checks each counter has passed since it was created

rateVars == <<counter, ttl, pc, level, passed>>

NoTTL == Window + 1

RateTypeOK ==
  /\ counter \in [Keys -> Nat]
  /\ ttl \in [Keys -> 0 .. NoTTL]
  /\ pc \in [InFlight -> {"new", "get", "setex", "incr", "forwarded", "rejected"}]
  /\ level \in [InFlight -> Nat] /\ \A r \in InFlight : level[r] \in DOMAIN KeysOf[r]
  /\ passed \in [Keys -> Nat]

RateInit ==
  /\ counter = [k \in Keys |-> 0]
  /\ ttl = [k \in Keys |-> 0]
  /\ pc = [r \in InFlight |-> "new"]
  /\ level = [r \in InFlight |-> 1]
  /\ passed = [k \in Keys |-> 0]

Key(r) == KeysOf[r][level[r]]

-----------------------------------------------------------------------------

Arrive(r) ==
  /\ pc[r] = "new"
  /\ pc' = [pc EXCEPT ![r] = "get"]
  /\ UNCHANGED <<counter, ttl, level, passed>>

\* is_allowed answers yes: on to the address counter, or to the next handler.
Pass(r) ==
  /\ passed' = [passed EXCEPT ![Key(r)] = @ + 1]
  /\ IF level[r] < Len(KeysOf[r])
     THEN /\ level' = [level EXCEPT ![r] = @ + 1]
          /\ pc' = [pc EXCEPT ![r] = "get"]
     ELSE /\ pc' = [pc EXCEPT ![r] = "forwarded"]
          /\ UNCHANGED level

\* 429 with the counter's remaining lifetime as Retry-After.
Reject(r) ==
  /\ pc' = [pc EXCEPT ![r] = "rejected"]
  /\ UNCHANGED <<level, passed>>

\* Mutated forms, here and below: plausible bugs that the properties catch.
\* No specification uses them.
GetOffByOne(r) ==
  /\ pc[r] = "get"
  /\ IF counter[Key(r)] + 1 >= Limit[Key(r)]
     THEN Reject(r)
     ELSE /\ pc' = [pc EXCEPT ![r] = IF counter[Key(r)] = 0 THEN "setex" ELSE "incr"]
          /\ UNCHANGED <<level, passed>>
  /\ UNCHANGED <<counter, ttl>>

GetRenewingLifetime(r) ==
  /\ pc[r] = "get"
  /\ IF counter[Key(r)] >= Limit[Key(r)]
     THEN Reject(r) /\ ttl' = [ttl EXCEPT ![Key(r)] = Window]
     ELSE /\ pc' = [pc EXCEPT ![r] = IF counter[Key(r)] = 0 THEN "setex" ELSE "incr"]
          /\ UNCHANGED <<level, passed, ttl>>
  /\ UNCHANGED counter

Get(r) ==
  /\ pc[r] = "get"
  /\ IF counter[Key(r)] >= Limit[Key(r)]
     THEN Reject(r)
     ELSE /\ pc' = [pc EXCEPT ![r] = IF counter[Key(r)] = 0 THEN "setex" ELSE "incr"]
          /\ UNCHANGED <<level, passed>>
  /\ UNCHANGED <<counter, ttl>>

SetEx(r) ==
  /\ pc[r] = "setex"
  /\ counter' = [counter EXCEPT ![Key(r)] = 1]
  /\ ttl' = [ttl EXCEPT ![Key(r)] = Window]
  /\ Pass(r)

IncrUnchecked(r) ==
  /\ pc[r] = "incr"
  /\ counter' = [counter EXCEPT ![Key(r)] = @ + 1]
  /\ ttl' = [ttl EXCEPT ![Key(r)] = IF counter[Key(r)] = 0 THEN NoTTL ELSE @]
  /\ Pass(r)

\* INCR creates a counter that is not there, without a lifetime.
Incr(r) ==
  /\ pc[r] = "incr"
  /\ counter' = [counter EXCEPT ![Key(r)] = @ + 1]
  /\ ttl' = [ttl EXCEPT ![Key(r)] = IF counter[Key(r)] = 0 THEN NoTTL ELSE @]
  /\ IF counter[Key(r)] + 1 <= Limit[Key(r)] THEN Pass(r) ELSE Reject(r)

\* The request is over and its connection brings the next one.
Respond(r) ==
  /\ pc[r] \in {"forwarded", "rejected"}
  /\ pc' = [pc EXCEPT ![r] = "new"]
  /\ level' = [level EXCEPT ![r] = 1]
  /\ UNCHANGED <<counter, ttl, passed>>

\* Time passes: Redis drops the counters whose lifetime is over.
Tick ==
  LET expired == {k \in Keys : ttl[k] = 1} IN
  /\ ttl' = [k \in Keys |-> IF ttl[k] \in {0, NoTTL} THEN ttl[k] ELSE ttl[k] - 1]
  /\ counter' = [k \in Keys |-> IF k \in expired THEN 0 ELSE counter[k]]
  /\ passed' = [k \in Keys |-> IF k \in expired THEN 0 ELSE passed[k]]
  /\ UNCHANGED <<pc, level>>

Step(r) == Arrive(r) \/ Get(r) \/ SetEx(r) \/ Incr(r) \/ Respond(r)

RateNext == Tick \/ \E r \in InFlight : Step(r)

RateSpec == RateInit /\ [][RateNext]_rateVars

\* Time does not stop; that further requests arrive is not assumed.
FairRateSpec == RateSpec /\ WF_rateVars(Tick)

-----------------------------------------------------------------------------
(* Properties. *)

Sharing(k) == Cardinality({r \in InFlight : \E i \in DOMAIN KeysOf[r] : KeysOf[r][i] = k})

\* What the check guarantees under concurrency: each request in flight can
\* restart the count of a window once, so a window lets through at most its
\* limit for every request that shares the counter.
WindowBound == \A k \in Keys : passed[k] <= Sharing(k) * Limit[k]

\* A request is turned away only when its counter has let the limit through:
\* races and expiries never cost a client part of its quota.
NoEarlyRejection ==
  [][\A r \in InFlight : pc[r] # "rejected" /\ pc'[r] = "rejected" =>
       passed[Key(r)] >= Limit[Key(r)]]_rateVars

\* A used up quota comes back: as long as a counter has a lifetime, requests
\* that are turned away at it do not keep it alive.
QuotaReturns ==
  \A k \in Keys : [](ttl[k] # NoTTL) => (counter[k] >= Limit[k] ~> counter[k] < Limit[k])

-----------------------------------------------------------------------------
(* What the documentation of the class says and the code does not do. *)

\* A counter that is created has a lifetime.
CountersExpire == \A k \in Keys : counter[k] # 0 => ttl[k] # NoTTL

=============================================================================
