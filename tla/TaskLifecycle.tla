--------------------------- MODULE TaskLifecycle ---------------------------
(***************************************************************************)
(* The task half of the orchestration service: the HTTP handlers that      *)
(* create, cancel and retry an analysis task, and the background coroutine *)
(* _run_agent that each creation and each retry hands to the event loop.   *)
(*                                                                         *)
(* The service runs on one event loop, so the code between two awaits is   *)
(* one step.  _run_agent awaits in two places only: while the agent loop   *)
(* runs under its overall timeout, and while the output is formatted after *)
(* that timeout.  Everything a handler does to the task record is atomic;  *)
(* what interleaves is handlers with the runs that are suspended.          *)
(*                                                                         *)
(* A task record lives in memory (_tasks, _outputs).  Its title, parameters*)
(* and counters are left out; started_at, which follows the status, too.   *)
(***************************************************************************)
EXTENDS Naturals

CONSTANTS
  Tasks,    \* task ids, fresh UUIDs in the code
  MaxRuns   \* bound: runs of one task (the creation and its retries)

ASSUME MaxRunsAssumption == MaxRuns \in Nat \ {0}

VARIABLES
  status,        \* _tasks[t]["status"], or "absent" before creation
  errorMessage,  \* where _tasks[t]["error_message"] came from
  completedAt,   \* whether _tasks[t]["completed_at"] is set
  runs,          \* how many runs of _run_agent were created for the task
  pc,            \* where each run of each task is
  outputs        \* the run that stored the task's preview and citations (0: none)

vars == <<status, errorMessage, completedAt, runs, pc, outputs>>

Statuses == {"absent", "pending", "running", "completed", "failed", "cancelled"}

RunIds == 1 .. MaxRuns

\* "queued": created, not yet scheduled by the loop.  "looping": awaiting
\* runner.run().  "formatting": awaiting _force_format_output after a timeout.
Suspended == {"queued", "looping", "formatting"}
Started == {"looping", "formatting"}

TypeOK ==
  /\ status \in [Tasks -> Statuses]
  /\ errorMessage \in [Tasks -> {"none", "fatal_error", "exception"}]
  /\ completedAt \in [Tasks -> BOOLEAN]
  /\ runs \in [Tasks -> 0 .. MaxRuns]
  /\ pc \in [Tasks -> [RunIds -> Suspended \cup {"unborn", "ended"}]]
  /\ outputs \in [Tasks -> 0 .. MaxRuns]

Init ==
  /\ status = [t \in Tasks |-> "absent"]
  /\ errorMessage = [t \in Tasks |-> "none"]
  /\ completedAt = [t \in Tasks |-> FALSE]
  /\ runs = [t \in Tasks |-> 0]
  /\ pc = [t \in Tasks |-> [n \in RunIds |-> "unborn"]]
  /\ outputs = [t \in Tasks |-> 0]

-----------------------------------------------------------------------------
(* The status machine. *)

AllowedTransitions ==
  {<<"pending", "running">>, <<"pending", "cancelled">>,
   <<"running", "completed">>, <<"running", "failed">>, <<"running", "cancelled">>,
   <<"failed", "running">>}

CanTransition(from, to) == <<from, to>> \in AllowedTransitions

-----------------------------------------------------------------------------
(* The HTTP handlers. *)

\* asyncio.create_task(_run_agent(t)): the run is queued on the event loop.
Spawn(t) ==
  /\ runs[t] < MaxRuns
  /\ runs' = [runs EXCEPT ![t] = @ + 1]
  /\ pc' = [pc EXCEPT ![t][runs[t] + 1] = "queued"]

CreateTask(t) ==
  /\ status[t] = "absent"
  /\ status' = [status EXCEPT ![t] = "pending"]
  /\ Spawn(t)
  /\ UNCHANGED <<errorMessage, completedAt, outputs>>

\* Cancelling only writes the record: the suspended run is not touched.
CancelTask(t) ==
  /\ CanTransition(status[t], "cancelled")
  /\ status' = [status EXCEPT ![t] = "cancelled"]
  /\ completedAt' = [completedAt EXCEPT ![t] = TRUE]
  /\ UNCHANGED <<errorMessage, runs, pc, outputs>>

\* Mutated forms, here and below: plausible bugs that the properties catch.
\* No specification uses them.
RetryTaskAlsoCancelled(t) ==
  /\ status[t] \in {"failed", "cancelled"}
  /\ status' = [status EXCEPT ![t] = "running"]
  /\ completedAt' = [completedAt EXCEPT ![t] = FALSE]
  /\ errorMessage' = [errorMessage EXCEPT ![t] = "none"]
  /\ Spawn(t)
  /\ UNCHANGED outputs

RetryTask(t) ==
  /\ status[t] = "failed"
  /\ status' = [status EXCEPT ![t] = "running"]
  /\ completedAt' = [completedAt EXCEPT ![t] = FALSE]
  /\ errorMessage' = [errorMessage EXCEPT ![t] = "none"]
  /\ Spawn(t)
  /\ UNCHANGED outputs

-----------------------------------------------------------------------------
(* _run_agent, one action per stretch of code between two awaits. *)

\* A run that finds its task neither running nor able to run returns.
RunRefused(t, n) ==
  /\ pc[t][n] = "queued"
  /\ status[t] # "running"
  /\ ~CanTransition(status[t], "running")
  /\ pc' = [pc EXCEPT ![t][n] = "ended"]
  /\ UNCHANGED <<status, errorMessage, completedAt, runs, outputs>>

RunStartsUnchecked(t, n) ==
  /\ pc[t][n] = "queued"
  /\ status' = [status EXCEPT ![t] = "running"]
  /\ pc' = [pc EXCEPT ![t][n] = "looping"]
  /\ UNCHANGED <<errorMessage, completedAt, runs, outputs>>

RunStarts(t, n) ==
  /\ pc[t][n] = "queued"
  /\ status[t] = "running" \/ CanTransition(status[t], "running")
  /\ status' = [status EXCEPT ![t] = "running"]
  /\ pc' = [pc EXCEPT ![t][n] = "looping"]
  /\ UNCHANGED <<errorMessage, completedAt, runs, outputs>>

SettleKeepsFirstOutput(t, n, fatal) ==
  /\ outputs' = [outputs EXCEPT ![t] = IF @ = 0 THEN n ELSE @]
  /\ status' = [status EXCEPT ![t] = IF fatal THEN "failed" ELSE "completed"]
  /\ errorMessage' = [errorMessage EXCEPT ![t] = IF fatal THEN "fatal_error" ELSE @]
  /\ completedAt' = [completedAt EXCEPT ![t] = TRUE]
  /\ pc' = [pc EXCEPT ![t][n] = "ended"]
  /\ UNCHANGED runs

\* The tail of _run_agent: outputs are stored, then the status is written
\* without looking at what it has become during the awaits.
Settle(t, n, fatal) ==
  /\ outputs' = [outputs EXCEPT ![t] = n]
  /\ status' = [status EXCEPT ![t] = IF fatal THEN "failed" ELSE "completed"]
  /\ errorMessage' = [errorMessage EXCEPT ![t] = IF fatal THEN "fatal_error" ELSE @]
  /\ completedAt' = [completedAt EXCEPT ![t] = TRUE]
  /\ pc' = [pc EXCEPT ![t][n] = "ended"]
  /\ UNCHANGED runs

LoopReturns(t, n) ==
  /\ pc[t][n] = "looping"
  /\ \E fatal \in BOOLEAN : Settle(t, n, fatal)

LoopRaises(t, n) ==
  /\ pc[t][n] = "looping"
  /\ status' = [status EXCEPT ![t] = "failed"]
  /\ errorMessage' = [errorMessage EXCEPT ![t] = "exception"]
  /\ completedAt' = [completedAt EXCEPT ![t] = TRUE]
  /\ pc' = [pc EXCEPT ![t][n] = "ended"]
  /\ UNCHANGED <<runs, outputs>>

\* task_timeout_minutes elapsed: what was generated so far is formatted.
LoopTimesOut(t, n) ==
  /\ pc[t][n] = "looping"
  /\ pc' = [pc EXCEPT ![t][n] = "formatting"]
  /\ UNCHANGED <<status, errorMessage, completedAt, runs, outputs>>

\* The loop may have been cut off after it had already set fatal_error.
TimeoutFormatted(t, n) ==
  /\ pc[t][n] = "formatting"
  /\ \E fatal \in BOOLEAN : Settle(t, n, fatal)

-----------------------------------------------------------------------------

RunStep(t, n) ==
  \/ RunRefused(t, n)
  \/ RunStarts(t, n)
  \/ LoopReturns(t, n)
  \/ LoopRaises(t, n)
  \/ LoopTimesOut(t, n)
  \/ TimeoutFormatted(t, n)

Handler(t) == CreateTask(t) \/ CancelTask(t) \/ RetryTask(t)

Next == \E t \in Tasks : Handler(t) \/ \E n \in RunIds : RunStep(t, n)

\* The event loop resumes every coroutine that is ready, wait_for ends the
\* agent loop after task_timeout_minutes and the HTTP client has a timeout of
\* its own, so no run is suspended forever.  Handlers run when clients call.
Fairness == \A t \in Tasks, n \in RunIds : WF_vars(RunStep(t, n))

Spec == Init /\ [][Next]_vars

FairSpec == Spec /\ Fairness

-----------------------------------------------------------------------------
(* What the handlers serve. *)

HasSuspendedRun(t) == \E n \in RunIds : pc[t][n] \in Suspended
HasStartedRun(t) == \E n \in RunIds : pc[t][n] \in Started

\* preview_output answers 409 unless the task is completed; 0 stands for that.
PreviewedRun(t) == IF status[t] = "completed" THEN outputs[t] ELSE 0

(* What a client of the service sees of a task: its status, and how far the *)
(* work behind it is.  The service implements TaskContract under this view. *)
WorkOf(t) ==
  IF HasStartedRun(t) THEN "started" ELSE IF HasSuspendedRun(t) THEN "queued" ELSE "none"

Contract == INSTANCE TaskContract WITH work <- [t \in Tasks |-> WorkOf(t)]

-----------------------------------------------------------------------------
(* Safety. *)

\* At most one run of a task is suspended at a time, whatever the order of
\* cancellations, failures and retries: two runs would both write the record.
SingleRun ==
  \A t \in Tasks : \A m, n \in RunIds :
    pc[t][m] \in Suspended /\ pc[t][n] \in Suspended => m = n

\* A task shown as pending or running has a run behind it: nothing can leave
\* it waiting for a coroutine that is gone.
ActiveHasRun ==
  \A t \in Tasks : status[t] \in {"pending", "running"} => HasSuspendedRun(t)

\* A completed or failed task has no run left that could still write to it,
\* so a retry (allowed on failed) never overlaps the run it replaces.
SettledHasNoRun ==
  \A t \in Tasks : status[t] \in {"completed", "failed"} => ~HasSuspendedRun(t)

\* The preview of a completed task comes from the last run created for it,
\* never from an earlier failed attempt.
ServesLatestRun ==
  \A t \in Tasks : status[t] = "completed" => PreviewedRun(t) = runs[t]

\* error_message is set exactly while the task is failed: no message of an
\* earlier attempt survives in a task that was retried, completed or cancelled.
ErrorIffFailed ==
  \A t \in Tasks : errorMessage[t] # "none" <=> status[t] = "failed"

\* completed_at is set exactly while the task is completed, failed or cancelled.
CompletedAtIffEnded ==
  \A t \in Tasks : completedAt[t] <=> status[t] \in {"completed", "failed", "cancelled"}

\* A completed task never changes status again.
CompletedIsFinal ==
  [][\A t \in Tasks : status[t] = "completed" => status'[t] = "completed"]_vars

\* A task cancelled before its run has started stays cancelled for good.
CancelBeforeStartHolds ==
  [][\A t \in Tasks :
       status[t] = "cancelled" /\ ~HasStartedRun(t) => status'[t] = "cancelled"]_vars

\* What the state diagram of status_machine.py:7 says of a cancelled task, and
\* tests/test_status_machine.py:49 of its table: it is terminal.  The code does
\* not keep it: a run that is suspended when the cancellation comes writes its
\* own result at its end (app.py:560), whatever the status has become.
CancelledIsFinal ==
  [][\A t \in Tasks : status[t] = "cancelled" => status'[t] = "cancelled"]_vars

\* What ties the runs to the status, and makes the invariants above inductive:
\* runs are numbered in the order they are created, only the newest can still
\* be suspended, and its stage follows from the status unless it was cancelled.
RunBookkeeping ==
  \A t \in Tasks :
    /\ \A n \in RunIds : pc[t][n] = "unborn" <=> n > runs[t]
    /\ \A n \in RunIds : n < runs[t] => pc[t][n] = "ended"
    /\ status[t] = "absent" <=> runs[t] = 0
    /\ status[t] = "pending" => pc[t][runs[t]] = "queued"
    /\ status[t] = "running" => pc[t][runs[t]] \in Suspended
    /\ status[t] \in {"completed", "failed"} => pc[t][runs[t]] = "ended"
    /\ status[t] = "completed" => outputs[t] = runs[t]

-----------------------------------------------------------------------------
(* Liveness and refinement. *)

\* The service implements the task contract, its progress included: only work
\* that has not started can be cancelled for good (CancelledIsFinal, which asks
\* for more, is violated), retries wait for the end of the failed work, and work
\* under way always reports a result.
ImplementsContract == Contract!Spec

=============================================================================
