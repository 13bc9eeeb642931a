----------------------------- MODULE LLMRouter -----------------------------
(***************************************************************************)
(* The chat endpoint of the LLM router: the routing decision, the call to  *)
(* the chosen backend under retries, the fallback of low-sensitivity       *)
(* requests from Claude to the local model, and the two circuit breakers   *)
(* the calls report to.                                                    *)
(*                                                                         *)
(* Requests run concurrently on one event loop.  A request is suspended    *)
(* while a backend works on its call and while it sleeps before a retry;   *)
(* between these awaits its code is one step, the reading and writing of a *)
(* breaker included.  What a backend does is any outcome the adapters tell *)
(* apart.  Messages, truncation and token tracking are left out.           *)
(*                                                                         *)
(* A breaker compares its failure count with the threshold only, so counts *)
(* above it are not told apart; its clock counts ticks up to Recovery.     *)
(***************************************************************************)
EXTENDS Naturals

CONSTANTS
  Requests,   \* requests that may be in progress at the same time
  Threshold,  \* circuit_breaker_failure_threshold
  Recovery,   \* circuit_breaker_recovery_timeout_s, in ticks
  Max429,     \* llm_retry_max_429
  Max5xx      \* llm_retry_max_5xx

ASSUME RouterAssumption ==
  Threshold \in Nat \ {0} /\ Recovery \in Nat \ {0} /\ Max429 \in Nat /\ Max5xx \in Nat

VARIABLES
  breaker,  \* _cb_claude and _cb_local
  req       \* the locals of each request's _execute_with_retry, and its reply

vars == <<breaker, req>>

Backends == {"claude", "local"}

Sensitivities == {"high", "low"}

\* "auto": the model is "auto" or not in the registry.
Models == {"auto", "cloud", "local"}

\* What the adapters raise.  "adapter" is any other AdapterError, timeouts the
\* adapter itself notices and unavailable models included.
Errors == {"rate_limit", "server", "adapter", "auth"}

AtLeast(m, n) == IF m >= n THEN m ELSE n

MaxRetries == AtLeast(Max429, Max5xx)
MaxAttempts == MaxRetries + 2

TypeOK ==
  /\ breaker \in [Backends -> [state : {"closed", "open", "half_open"},
                               failures : 0 .. Threshold, age : 0 .. Recovery]]
  /\ req \in [Requests -> [pc : {"replied", "calling", "backoff", "fallback"},
                           model : Models, sensitivity : Sensitivities,
                           attempts : 0 .. MaxAttempts, timeouts : 0 .. 1,
                           error : Errors \cup {"none"},
                           reply : {"none", "ok", "429", "500", "502", "503", "504"}]]

Idle(m, s, reply) ==
  [pc |-> "replied", model |-> m, sensitivity |-> s, attempts |-> 0, timeouts |-> 0,
   error |-> "none", reply |-> reply]

Init ==
  /\ breaker = [b \in Backends |-> [state |-> "closed", failures |-> 0, age |-> 0]]
  /\ req = [r \in Requests |-> Idle("auto", "low", "ok")]

-----------------------------------------------------------------------------
(* The routing engine. *)

Decide(model, sensitivity) ==
  CASE model = "cloud" -> "claude"
    [] model = "local" -> "local"
    [] model = "auto"  -> IF sensitivity = "high" THEN "local" ELSE "claude"

BackendOf(r) == Decide(req[r].model, req[r].sensitivity)

\* can_fallback_to_local, for a request that was routed to Claude.
MayFallBack(model, sensitivity) ==
  Decide(model, sensitivity) = "claude" /\ sensitivity = "low"

-----------------------------------------------------------------------------
(* The circuit breaker, as functions of its record. *)

\* The state property: reading it moves an open breaker on when it is due.
StateRead(c) ==
  IF c.state = "open" /\ c.age >= Recovery
  THEN [state |-> "half_open", failures |-> c.failures, age |-> 0]
  ELSE c

IsOpen(b) == StateRead(breaker[b]).state = "open"

\* Mutated forms, here and below: plausible bugs that the properties catch.
\* No specification uses them.
SuccessClosesAlways(c) == [state |-> "closed", failures |-> 0, age |-> c.age]

RecordSuccess(c) ==
  [state |-> IF c.state = "half_open" THEN "closed" ELSE c.state, failures |-> 0, age |-> c.age]

Counted(c) == IF c.failures < Threshold THEN c.failures + 1 ELSE Threshold

FailureOffByOne(c) ==
  IF c.state = "half_open" \/ c.failures >= Threshold
  THEN [state |-> "open", failures |-> Counted(c), age |-> 0]
  ELSE [c EXCEPT !.failures = Counted(c)]

RecordFailure(c) ==
  IF c.state = "half_open" \/ Counted(c) >= Threshold
  THEN [state |-> "open", failures |-> Counted(c), age |-> 0]
  ELSE [c EXCEPT !.failures = Counted(c)]

\* Time passes, for both breakers at once.
Tick ==
  /\ \E b \in Backends : breaker[b].state = "open" /\ breaker[b].age < Recovery
  /\ breaker' = [b \in Backends |->
       IF breaker[b].state = "open" /\ breaker[b].age < Recovery
       THEN [breaker[b] EXCEPT !.age = @ + 1] ELSE breaker[b]]
  /\ UNCHANGED req

-----------------------------------------------------------------------------
(* A request arrives. *)

Reply(r, code) == req' = [req EXCEPT ![r] = Idle(req[r].model, req[r].sensitivity, code)]

Arrives(r, model, sensitivity, pc) ==
  req' = [req EXCEPT ![r] =
    [pc |-> pc, model |-> model, sensitivity |-> sensitivity,
     attempts |-> IF pc = "calling" THEN 1 ELSE 0, timeouts |-> 0,
     error |-> "none", reply |-> "none"]]

\* The breaker lets it through; in half-open every request is let through.
Admitted(r, model, sensitivity) ==
  LET b == Decide(model, sensitivity) IN
  /\ req[r].pc = "replied"
  /\ ~IsOpen(b)
  /\ breaker' = [breaker EXCEPT ![b] = StateRead(@)]
  /\ Arrives(r, model, sensitivity, "calling")

\* Claude's breaker is open: the local backend is called, whatever its breaker says.
FallsBackAtOnce(r, model, sensitivity) ==
  /\ req[r].pc = "replied"
  /\ IsOpen(Decide(model, sensitivity))
  /\ MayFallBack(model, sensitivity)
  /\ Arrives(r, model, sensitivity, "fallback")
  /\ UNCHANGED breaker

Refused(r, model, sensitivity) ==
  /\ req[r].pc = "replied"
  /\ IsOpen(Decide(model, sensitivity))
  /\ ~MayFallBack(model, sensitivity)
  /\ req' = [req EXCEPT ![r] = Idle(model, sensitivity, "503")]
  /\ UNCHANGED breaker

-----------------------------------------------------------------------------
(* The retry loop. *)

Succeeded(r) ==
  /\ req[r].pc = "calling"
  /\ breaker' = [breaker EXCEPT ![BackendOf(r)] = RecordSuccess(@)]
  /\ Reply(r, "ok")

Goes(r, pc, attempts, timeouts, error) ==
  req' = [req EXCEPT ![r] =
    [pc |-> pc, model |-> req[r].model, sensitivity |-> req[r].sensitivity,
     attempts |-> attempts, timeouts |-> timeouts, error |-> error, reply |-> "none"]]

FirstTimeoutUncounted(r) ==
  /\ req[r].pc = "calling" /\ req[r].timeouts = 0
  /\ Goes(r, "backoff", req[r].attempts, 0, "none")
  /\ UNCHANGED breaker

FirstTimeout(r) ==
  /\ req[r].pc = "calling" /\ req[r].timeouts = 0
  /\ Goes(r, "backoff", req[r].attempts, 1, "none")
  /\ UNCHANGED breaker

\* No fallback here: a request that timed out twice is answered.
SecondTimeout(r) ==
  /\ req[r].pc = "calling" /\ req[r].timeouts = 1
  /\ breaker' = [breaker EXCEPT ![BackendOf(r)] = RecordFailure(@)]
  /\ Reply(r, "504")

RetriesOf(error) == IF error = "rate_limit" THEN Max429 ELSE Max5xx

\* total_attempts counts every attempt, those that timed out included.
FailsAndBacksOff(r, error) ==
  /\ req[r].pc = "calling"
  /\ req[r].attempts <= RetriesOf(error)
  /\ Goes(r, "backoff", req[r].attempts, req[r].timeouts, error)
  /\ UNCHANGED breaker

FailsForGood(r, error) ==
  /\ req[r].pc = "calling"
  /\ req[r].attempts > RetriesOf(error)
  /\ breaker' = [breaker EXCEPT ![BackendOf(r)] = RecordFailure(@)]
  /\ IF MayFallBack(req[r].model, req[r].sensitivity)
     THEN Goes(r, "fallback", req[r].attempts, req[r].timeouts, "none")
     ELSE Reply(r, IF error = "rate_limit" THEN "429" ELSE "502")

\* An answer the adapter cannot take apart raises through the handlers, and no
\* breaker hears of it.
Crashes(r) ==
  /\ req[r].pc = "calling"
  /\ Reply(r, "500")
  /\ UNCHANGED breaker

\* After the sleep the backend is called again; the breaker is not consulted.
Retries(r) ==
  /\ req[r].pc = "backoff"
  /\ Goes(r, "calling", req[r].attempts + 1, req[r].timeouts, "none")
  /\ UNCHANGED breaker

FallbackSucceeds(r) ==
  /\ req[r].pc = "fallback"
  /\ breaker' = [breaker EXCEPT !["local"] = RecordSuccess(@)]
  /\ Reply(r, "ok")

\* One attempt, without the retry loop: any exception is the end of it.
FallbackFails(r) ==
  /\ req[r].pc = "fallback"
  /\ breaker' = [breaker EXCEPT !["local"] = RecordFailure(@)]
  /\ Reply(r, "503")

-----------------------------------------------------------------------------

Arrival(r) ==
  \E m \in Models, s \in Sensitivities :
    Admitted(r, m, s) \/ FallsBackAtOnce(r, m, s) \/ Refused(r, m, s)

Continue(r) ==
  \/ Succeeded(r) \/ FirstTimeout(r) \/ SecondTimeout(r) \/ Crashes(r)
  \/ \E e \in Errors : FailsAndBacksOff(r, e) \/ FailsForGood(r, e)
  \/ Retries(r) \/ FallbackSucceeds(r) \/ FallbackFails(r)

Next == Tick \/ \E r \in Requests : Arrival(r) \/ Continue(r)

Spec == Init /\ [][Next]_vars

-----------------------------------------------------------------------------
(* Properties. *)

\* A closed breaker has fewer consecutive failures on record than its
\* threshold, whatever late results arrive while it is open or half-open: the
\* failures that opened it do not count against it once it has recovered.
ClosedBelowThreshold ==
  \A b \in Backends : breaker[b].state = "closed" => breaker[b].failures < Threshold

\* A request calls its backend at most twice more often than the larger retry
\* limit, in whatever order its attempts time out, are limited and fail.
AttemptsBounded == \A r \in Requests : req[r].attempts <= MaxAttempts

\* Why: an error is retried within the limits only, and a timeout, which is
\* retried whatever the count, once.  Inductive, and stronger.
AttemptBudget ==
  \A r \in Requests :
    /\ req[r].pc = "calling" => req[r].attempts <= MaxRetries + 1 + req[r].timeouts
    /\ req[r].pc = "backoff" => req[r].attempts <= MaxRetries + req[r].timeouts
    /\ req[r].pc = "fallback" => req[r].attempts <= MaxAttempts
    /\ req[r].pc = "replied" => req[r].attempts = 0

\* A breaker changes state along the arrows of its documentation only: results
\* of calls that were under way when it opened take it nowhere else.
Arrows == {<<"closed", "open">>, <<"open", "half_open">>,
           <<"half_open", "closed">>, <<"half_open", "open">>}

FollowsAutomaton ==
  [][\A b \in Backends :
       breaker'[b].state # breaker[b].state => <<breaker[b].state, breaker'[b].state>> \in Arrows]_vars

=============================================================================
