----------------------------- MODULE TaskProofs -----------------------------
(***************************************************************************)
(* Proofs about TaskLifecycle, for any set of tasks and any number of      *)
(* runs, and about TaskPage, which extends it, for any formats, loads,     *)
(* polls, retries and restarts.                                            *)
(*                                                                         *)
(* RunBookkeeping is the strengthening that makes the safety properties    *)
(* of the tasks inductive: SingleRun alone is not, since a retry creates a *)
(* run without looking whether one is suspended, and only the bookkeeping  *)
(* says that a failed task has none.                                       *)
(*                                                                         *)
(* Whether an exported file may be replaced is decided nowhere in the      *)
(* output service.  What keeps a run from writing over a newer one, unless *)
(* it has given the call up, is that only the newest run of a task is ever *)
(* between its start and its end, which follows from the bookkeeping too.  *)
(* The last part is about the page of a completed task: its output was     *)
(* asked for.                                                              *)
(***************************************************************************)
EXTENDS TaskPage, TLAPS

-----------------------------------------------------------------------------
(* The tasks.                                                              *)

\* The inductive invariant.
IInv ==
  /\ TypeOK
  /\ RunBookkeeping
  /\ ErrorIffFailed
  /\ CompletedAtIffEnded

\* The type invariant holds initially ...
LEMMA TypeInit == Init => TypeOK
BY MaxRunsAssumption
   DEF Init, TypeOK, Statuses, RunIds, Suspended

\* ... and every step preserves it.
LEMMA TypeStep == TypeOK /\ [Next]_vars => TypeOK'
<1> SUFFICES ASSUME TypeOK, [Next]_vars PROVE TypeOK'
  OBVIOUS
<1> USE MaxRunsAssumption DEF TypeOK, Statuses, RunIds, Suspended
<1>1. ASSUME NEW t \in Tasks, CreateTask(t) PROVE TypeOK'
  BY <1>1 DEF CreateTask, Spawn
<1>2. ASSUME NEW t \in Tasks, CancelTask(t) PROVE TypeOK'
  BY <1>2 DEF CancelTask
<1>3. ASSUME NEW t \in Tasks, RetryTask(t) PROVE TypeOK'
  BY <1>3 DEF RetryTask, Spawn
<1>4. ASSUME NEW t \in Tasks, NEW n \in RunIds, RunStep(t, n) PROVE TypeOK'
  <2>1. CASE RunRefused(t, n)
    BY <2>1 DEF RunRefused
  <2>2. CASE RunStarts(t, n)
    BY <2>2 DEF RunStarts
  <2>3. CASE LoopReturns(t, n)
    BY <2>3 DEF LoopReturns, Settle
  <2>4. CASE LoopRaises(t, n)
    BY <2>4 DEF LoopRaises
  <2>5. CASE LoopTimesOut(t, n)
    BY <2>5 DEF LoopTimesOut
  <2>6. CASE TimeoutFormatted(t, n)
    BY <2>6 DEF TimeoutFormatted, Settle
  <2> QED
    BY <1>4, <2>1, <2>2, <2>3, <2>4, <2>5, <2>6 DEF RunStep
<1>5. CASE UNCHANGED vars
  BY <1>5 DEF vars
<1> QED
  BY <1>1, <1>2, <1>3, <1>4, <1>5 DEF Next, Handler

\* Every reachable state is well typed.
THEOREM TypeCorrect == Spec => []TypeOK
BY TypeInit, TypeStep, PTL DEF Spec

-----------------------------------------------------------------------------

\* The inductive invariant holds initially.
LEMMA IInvInit == Init => IInv
<1> SUFFICES ASSUME Init PROVE IInv
  OBVIOUS
<1>1. TypeOK
  BY TypeInit
<1>2. RunBookkeeping
  <2>1. \A t \in Tasks, n \in RunIds : pc[t][n] = "unborn" /\ n > runs[t]
    BY MaxRunsAssumption DEF Init, RunIds
  <2>2. \A t \in Tasks : status[t] = "absent" /\ runs[t] = 0
    BY DEF Init
  <2>3. \A t \in Tasks, n \in RunIds : ~(n < runs[t])
    BY <2>2, MaxRunsAssumption DEF RunIds
  <2> QED
    BY <2>1, <2>2, <2>3 DEF RunBookkeeping
<1>3. ErrorIffFailed /\ CompletedAtIffEnded
  BY DEF Init, ErrorIffFailed, CompletedAtIffEnded
<1> QED
  BY <1>1, <1>2, <1>3 DEF IInv

\* A suspended run is the newest one of its task.
LEMMA SuspendedIsNewest ==
  ASSUME IInv, NEW t \in Tasks, NEW n \in RunIds, pc[t][n] \in Suspended
  PROVE  n = runs[t]
<1>1. runs[t] \in Nat /\ n \in Nat
  BY MaxRunsAssumption DEF IInv, TypeOK, RunIds
<1>2. ~(n > runs[t])
  BY DEF IInv, RunBookkeeping, Suspended
<1>3. ~(n < runs[t])
  BY DEF IInv, RunBookkeeping, Suspended
<1> QED
  BY <1>1, <1>2, <1>3

\* What the handlers do preserves the invariant.
LEMMA HandlerStep ==
  ASSUME IInv, NEW t \in Tasks, Handler(t)
  PROVE  IInv'
<1> USE MaxRunsAssumption
    DEF IInv, TypeOK, RunBookkeeping, ErrorIffFailed, CompletedAtIffEnded, RunIds, Suspended
<1>0. TypeOK'
  BY TypeStep DEF Next
<1>1. CASE CreateTask(t)
  BY <1>0, <1>1 DEF CreateTask, Spawn
<1>2. CASE CancelTask(t)
  BY <1>0, <1>2 DEF CancelTask, CanTransition, AllowedTransitions
<1>3. CASE RetryTask(t)
  BY <1>0, <1>3 DEF RetryTask, Spawn
<1> QED
  BY <1>1, <1>2, <1>3 DEF Handler

\* The tail of the newest run preserves the bookkeeping, whatever the status was.
LEMMA SettleBookkeeping ==
  ASSUME IInv, TypeOK', NEW t \in Tasks, NEW n \in RunIds, n = runs[t],
         NEW fatal \in BOOLEAN, Settle(t, n, fatal)
  PROVE  RunBookkeeping'
<1> USE MaxRunsAssumption DEF IInv, TypeOK, RunIds, Settle
<1>1. /\ pc'[t] = [pc[t] EXCEPT ![n] = "ended"]
      /\ status'[t] \in {"completed", "failed"}
      /\ runs' = runs /\ runs[t] # 0
      /\ outputs'[t] = runs[t]
  OBVIOUS
<1>2. \A s \in Tasks \ {t} : /\ pc'[s] = pc[s] /\ status'[s] = status[s]
                            /\ outputs'[s] = outputs[s]
  OBVIOUS
<1>3. pc[t] \in [RunIds -> Suspended \cup {"unborn", "ended"}]
  OBVIOUS
<1> QED
  BY <1>1, <1>2, <1>3 DEF RunBookkeeping

\* What a run does preserves the invariant.
LEMMA RunPreserves ==
  ASSUME IInv, NEW t \in Tasks, NEW n \in RunIds, RunStep(t, n)
  PROVE  IInv'
<1>0. TypeOK'
  BY TypeStep DEF Next, IInv
<1>1. pc[t][n] \in Suspended
  BY DEF RunStep, RunRefused, RunStarts, LoopReturns, LoopRaises, LoopTimesOut,
         TimeoutFormatted, Suspended
<1>2. n = runs[t]
  BY <1>1, SuspendedIsNewest
<1>3. ASSUME NEW fatal \in BOOLEAN, Settle(t, n, fatal) PROVE IInv'
  <2>1. RunBookkeeping'
    BY <1>0, <1>2, <1>3, SettleBookkeeping
  <2>2. ErrorIffFailed'
    <3>1. status[t] # "failed"
      BY <1>1, <1>2 DEF IInv, RunBookkeeping, Suspended
    <3> QED
      BY <1>3, <3>1 DEF Settle, IInv, TypeOK, ErrorIffFailed
  <2>3. CompletedAtIffEnded'
    BY <1>3 DEF Settle, IInv, TypeOK, CompletedAtIffEnded
  <2> QED
    BY <1>0, <2>1, <2>2, <2>3 DEF IInv
<1>4. CASE LoopReturns(t, n)
  BY <1>3, <1>4 DEF LoopReturns
<1>5. CASE TimeoutFormatted(t, n)
  BY <1>3, <1>5 DEF TimeoutFormatted
<1> USE MaxRunsAssumption
    DEF IInv, TypeOK, RunBookkeeping, ErrorIffFailed, CompletedAtIffEnded, RunIds, Suspended
<1>6. CASE RunRefused(t, n)
  BY <1>0, <1>2, <1>6 DEF RunRefused, CanTransition, AllowedTransitions
<1>7. CASE RunStarts(t, n)
  BY <1>0, <1>2, <1>7 DEF RunStarts, CanTransition, AllowedTransitions
<1>8. CASE LoopRaises(t, n)
  BY <1>0, <1>2, <1>8 DEF LoopRaises
<1>9. CASE LoopTimesOut(t, n)
  BY <1>0, <1>2, <1>9 DEF LoopTimesOut
<1> QED
  BY <1>4, <1>5, <1>6, <1>7, <1>8, <1>9 DEF RunStep

\* Handlers, runs and stuttering are all the steps there are.
LEMMA IInvStep == IInv /\ [Next]_vars => IInv'
<1> SUFFICES ASSUME IInv, [Next]_vars PROVE IInv'
  OBVIOUS
<1>1. ASSUME NEW t \in Tasks, Handler(t) PROVE IInv'
  BY <1>1, HandlerStep
<1>2. ASSUME NEW t \in Tasks, NEW n \in RunIds, RunStep(t, n) PROVE IInv'
  BY <1>2, RunPreserves
<1>3. CASE UNCHANGED vars
  BY <1>3 DEF vars, IInv, TypeOK, RunBookkeeping, ErrorIffFailed, CompletedAtIffEnded
<1> QED
  BY <1>1, <1>2, <1>3 DEF Next

\* The inductive invariant holds in every reachable state.
THEOREM Invariance == Spec => []IInv
BY IInvInit, IInvStep, PTL DEF Spec

-----------------------------------------------------------------------------
(* The safety properties. *)

\* No two runs of one task are ever suspended together, for any number of
\* retries and any interleaving of handlers and runs.
THEOREM SingleRunHolds == Spec => []SingleRun
<1>1. IInv => SingleRun
  BY SuspendedIsNewest DEF SingleRun
<1> QED
  BY <1>1, Invariance, PTL

\* A task that is shown as active always has a run behind it, and a task that
\* is shown as completed or failed never has one.
THEOREM StatusMatchesRuns == Spec => [](ActiveHasRun /\ SettledHasNoRun)
<1>1. IInv => ActiveHasRun
  BY MaxRunsAssumption
     DEF IInv, TypeOK, RunBookkeeping, ActiveHasRun, HasSuspendedRun, RunIds, Suspended
<1>2. IInv => SettledHasNoRun
  <2> SUFFICES ASSUME IInv, NEW t \in Tasks, status[t] \in {"completed", "failed"},
                      NEW n \in RunIds, pc[t][n] \in Suspended
               PROVE  FALSE
    BY DEF SettledHasNoRun, HasSuspendedRun
  <2>1. n = runs[t]
    BY SuspendedIsNewest
  <2> QED
    BY <2>1 DEF IInv, RunBookkeeping, Suspended
<1> QED
  BY <1>1, <1>2, Invariance, PTL

\* What a completed task serves comes from its last run, and its error message
\* and completion time agree with its status.
THEOREM RecordsAgree == Spec => [](ServesLatestRun /\ ErrorIffFailed /\ CompletedAtIffEnded)
<1>1. IInv => ServesLatestRun
  BY DEF IInv, RunBookkeeping, ServesLatestRun, PreviewedRun
<1>2. IInv => ErrorIffFailed /\ CompletedAtIffEnded
  BY DEF IInv
<1> QED
  BY <1>1, <1>2, Invariance, PTL

-----------------------------------------------------------------------------
(* What a step may never do. *)

\* A completed task keeps its status and its newest run: no handler may change it, and the
\* only steps that write a status without looking, the last ones of a run, find no run left.
LEMMA CompletedIsKept ==
  ASSUME IInv, [Next]_vars, NEW s \in Tasks, status[s] = "completed"
  PROVE  status'[s] = "completed" /\ runs'[s] = runs[s]
<1> USE DEF IInv, TypeOK
<1>1. ASSUME NEW t \in Tasks, Handler(t)
      PROVE  status'[s] = "completed" /\ runs'[s] = runs[s]
  BY <1>1 DEF Handler, CreateTask, CancelTask, RetryTask, Spawn, CanTransition, AllowedTransitions
<1>2. ASSUME NEW t \in Tasks, NEW n \in RunIds, RunStep(t, n)
      PROVE  status'[s] = "completed" /\ runs'[s] = runs[s]
  <2>1. pc[t][n] \in Suspended
    BY <1>2 DEF RunStep, RunRefused, RunStarts, LoopReturns, LoopRaises, LoopTimesOut,
                TimeoutFormatted, Suspended
  <2>2. n = runs[t]
    BY <2>1, SuspendedIsNewest
  <2>3. t # s
    BY <2>1, <2>2 DEF RunBookkeeping, Suspended
  <2> QED
    BY <1>2, <2>3 DEF RunStep, RunRefused, RunStarts, LoopReturns, LoopRaises, LoopTimesOut,
                      TimeoutFormatted, Settle
<1>3. CASE UNCHANGED vars
  BY <1>3 DEF vars
<1> QED
  BY <1>1, <1>2, <1>3 DEF Next

\* No step takes a completed task away from that status.
THEOREM CompletedStays == Spec => CompletedIsFinal
<1>1. IInv /\ [Next]_vars =>
        [\A t \in Tasks : status[t] = "completed" => status'[t] = "completed"]_vars
  BY CompletedIsKept
<1> QED
  BY <1>1, Invariance, PTL DEF Spec, CompletedIsFinal

\* A task cancelled while its run is still queued stays cancelled: the run is
\* refused when the event loop gets to it.
THEOREM EarlyCancelStays == Spec => CancelBeforeStartHolds
<1>1. IInv /\ [Next]_vars =>
        [\A t \in Tasks :
           status[t] = "cancelled" /\ ~HasStartedRun(t) => status'[t] = "cancelled"]_vars
  <2> SUFFICES ASSUME IInv, Next, NEW s \in Tasks,
                      status[s] = "cancelled", ~HasStartedRun(s)
               PROVE  status'[s] = "cancelled"
    OBVIOUS
  <2> USE DEF IInv, TypeOK
  <2>1. ASSUME NEW t \in Tasks, Handler(t) PROVE status'[s] = "cancelled"
    BY <2>1 DEF Handler, CreateTask, CancelTask, RetryTask, CanTransition, AllowedTransitions
  <2>2. ASSUME NEW t \in Tasks, NEW n \in RunIds, RunStep(t, n)
        PROVE  status'[s] = "cancelled"
    <3>1. CASE RunRefused(t, n) \/ LoopTimesOut(t, n)
      BY <3>1 DEF RunRefused, LoopTimesOut
    <3>2. CASE RunStarts(t, n)
      BY <3>2 DEF RunStarts, CanTransition, AllowedTransitions
    <3>3. CASE LoopReturns(t, n) \/ LoopRaises(t, n) \/ TimeoutFormatted(t, n)
      <4>1. t # s
        BY <3>3 DEF LoopReturns, LoopRaises, TimeoutFormatted, HasStartedRun, Started
      <4> QED
        BY <3>3, <4>1 DEF LoopReturns, LoopRaises, TimeoutFormatted, Settle
    <3> QED
      BY <2>2, <3>1, <3>2, <3>3 DEF RunStep
  <2> QED
    BY <2>1, <2>2 DEF Next
<1> QED
  BY <1>1, Invariance, PTL DEF Spec, CancelBeforeStartHolds

-----------------------------------------------------------------------------
(* TaskLifecycle implements TaskContract, as far as safety goes. *)

\* WorkOf, without its quantifiers.
Stages ==
  \A t \in Tasks : WorkOf(t) =
    IF runs[t] = 0 \/ pc[t][runs[t]] \notin Suspended THEN "none"
    ELSE IF pc[t][runs[t]] = "queued" THEN "queued" ELSE "started"

\* The work behind a task can be read off its newest run.
LEMMA WorkIsNewestRun == IInv => Stages
<1> SUFFICES ASSUME IInv, NEW t \in Tasks
             PROVE  WorkOf(t) =
                      IF runs[t] = 0 \/ pc[t][runs[t]] \notin Suspended THEN "none"
                      ELSE IF pc[t][runs[t]] = "queued" THEN "queued" ELSE "started"
  BY DEF Stages
<1>1. \A n \in RunIds : pc[t][n] \in Suspended => n = runs[t]
  BY SuspendedIsNewest
<1>2. runs[t] = 0 \/ runs[t] \in RunIds
  BY MaxRunsAssumption DEF IInv, TypeOK, RunIds
<1>3. ~(0 \in RunIds)
  BY DEF RunIds
<1> QED
  BY <1>1, <1>2, <1>3 DEF WorkOf, HasStartedRun, HasSuspendedRun, Suspended, Started

\* The same after a step.
LEMMA WorkIsNewestRunNext == IInv' => Stages'
BY WorkIsNewestRun, PTL

\* No task has work behind it initially.
LEMMA ContractInit == Init => Contract!Init
<1> SUFFICES ASSUME Init PROVE Contract!Init
  OBVIOUS
<1>1. \A t \in Tasks : WorkOf(t) = "none"
  BY DEF Init, WorkOf, HasStartedRun, HasSuspendedRun, Started, Suspended
<1> QED
  BY <1>1 DEF Init, Contract!Init

\* Every step of the service is a step of the contract or leaves it unchanged.
LEMMA ContractStep == IInv /\ [Next]_vars => [Contract!Next]_(Contract!contractVars)
<1> SUFFICES ASSUME IInv, [Next]_vars PROVE [Contract!Next]_(Contract!contractVars)
  OBVIOUS
<1>1. IInv' /\ Stages /\ Stages'
  BY IInvStep, WorkIsNewestRun, WorkIsNewestRunNext
<1>2. ASSUME NEW t \in Tasks, NEW w, WorkOf(t)' = w,
             \A s \in Tasks \ {t} : pc'[s] = pc[s]
      PROVE  [s \in Tasks |-> WorkOf(s)'] = [[s \in Tasks |-> WorkOf(s)] EXCEPT ![t] = w]
  <2>1. \A s \in Tasks \ {t} : WorkOf(s)' = WorkOf(s)
    BY <1>2 DEF WorkOf, HasStartedRun, HasSuspendedRun
  <2> QED
    BY <1>2, <2>1
<1>3. ASSUME NEW t \in Tasks, CreateTask(t) PROVE Contract!Submit(t)
  <2>1. WorkOf(t)' = "queued"
    BY <1>1, <1>3, MaxRunsAssumption
       DEF CreateTask, Spawn, Stages, IInv, TypeOK, RunIds, Suspended
  <2>2. [s \in Tasks |-> WorkOf(s)'] = [[s \in Tasks |-> WorkOf(s)] EXCEPT ![t] = "queued"]
    BY <1>2, <1>3, <2>1 DEF CreateTask, Spawn, IInv, TypeOK
  <2> QED
    BY <1>3, <2>2 DEF CreateTask, Contract!Submit
<1>4. ASSUME NEW t \in Tasks, CancelTask(t) PROVE Contract!Cancel(t)
  <2>1. [s \in Tasks |-> WorkOf(s)'] = [s \in Tasks |-> WorkOf(s)]
    BY <1>4 DEF CancelTask, WorkOf, HasStartedRun, HasSuspendedRun
  <2> QED
    BY <1>4, <2>1
       DEF CancelTask, CanTransition, AllowedTransitions, Contract!Cancel
<1>5. ASSUME NEW t \in Tasks, RetryTask(t) PROVE Contract!Retry(t)
  <2>0. WorkOf(t) = "none"
    BY <1>1, <1>5 DEF RetryTask, Stages, IInv, RunBookkeeping, Suspended
  <2>1. WorkOf(t)' = "queued"
    BY <1>1, <1>5, MaxRunsAssumption
       DEF RetryTask, Spawn, Stages, IInv, TypeOK, RunIds, Suspended
  <2>2. [s \in Tasks |-> WorkOf(s)'] = [[s \in Tasks |-> WorkOf(s)] EXCEPT ![t] = "queued"]
    BY <1>2, <1>5, <2>1 DEF RetryTask, Spawn, IInv, TypeOK
  <2> QED
    BY <1>5, <2>0, <2>2 DEF RetryTask, Contract!Retry
<1>6. ASSUME NEW t \in Tasks, NEW n \in RunIds, RunStep(t, n)
      PROVE  Contract!Progress(t) \/ UNCHANGED <<status, [s \in Tasks |-> WorkOf(s)]>>
  <2>1. pc[t][n] \in Suspended
    BY <1>6 DEF RunStep, RunRefused, RunStarts, LoopReturns, LoopRaises, LoopTimesOut,
                TimeoutFormatted, Suspended
  <2>2. n = runs[t] /\ n # 0 /\ runs' = runs
    BY <1>6, <2>1, SuspendedIsNewest
       DEF RunIds, RunStep, RunRefused, RunStarts, LoopReturns, LoopRaises, LoopTimesOut,
           TimeoutFormatted, Settle
  <2>3. \A s \in Tasks \ {t} : pc'[s] = pc[s]
    BY <1>6 DEF RunStep, RunRefused, RunStarts, LoopReturns, LoopRaises, LoopTimesOut,
                TimeoutFormatted, Settle, IInv, TypeOK
  <2>4. /\ pc \in [Tasks -> [RunIds -> Suspended \cup {"unborn", "ended"}]]
        /\ pc[t] \in [RunIds -> Suspended \cup {"unborn", "ended"}]
    BY DEF IInv, TypeOK
  <2>5. ASSUME pc'[t][n] = "ended"
        PROVE  [s \in Tasks |-> WorkOf(s)'] = [[s \in Tasks |-> WorkOf(s)] EXCEPT ![t] = "none"]
    <3>1. WorkOf(t)' = "none"
      BY <1>1, <2>2, <2>5 DEF Stages, Suspended
    <3> QED
      BY <1>2, <2>3, <3>1
  <2>6. CASE RunRefused(t, n)
    <3>1. WorkOf(t) = "queued"
      BY <1>1, <2>2, <2>6 DEF RunRefused, Stages, Suspended
    <3>2. status[t] = "cancelled"
      BY <2>2, <2>6
         DEF RunRefused, CanTransition, AllowedTransitions, IInv, TypeOK, Statuses,
             RunBookkeeping
    <3>3. pc'[t][n] = "ended" /\ status' = status
      BY <2>4, <2>6 DEF RunRefused
    <3> QED
      BY <2>5, <3>1, <3>2, <3>3 DEF Contract!Drop, Contract!Progress
  <2>7. CASE RunStarts(t, n)
    <3>1. WorkOf(t) = "queued"
      BY <1>1, <2>2, <2>7 DEF RunStarts, Stages, Suspended
    <3>2. pc'[t][n] = "looping"
      BY <2>4, <2>7 DEF RunStarts
    <3>3. WorkOf(t)' = "started"
      BY <1>1, <2>2, <3>2 DEF Stages, Suspended
    <3>4. [s \in Tasks |-> WorkOf(s)'] = [[s \in Tasks |-> WorkOf(s)] EXCEPT ![t] = "started"]
      BY <1>2, <2>3, <3>3
    <3>5. status[t] \in {"pending", "running"}
      BY <2>2, <2>7
         DEF RunStarts, CanTransition, AllowedTransitions, IInv, RunBookkeeping
    <3> QED
      BY <2>7, <3>1, <3>4, <3>5 DEF RunStarts, Contract!Begin, Contract!Progress
  <2>8. CASE LoopReturns(t, n) \/ LoopRaises(t, n) \/ TimeoutFormatted(t, n)
    <3>1. WorkOf(t) = "started"
      BY <1>1, <2>2, <2>8 DEF LoopReturns, LoopRaises, TimeoutFormatted, Stages, Suspended
    <3>2. status[t] \in {"running", "cancelled"}
      BY <2>1, <2>2, <2>8
         DEF LoopReturns, LoopRaises, TimeoutFormatted, IInv, TypeOK, Statuses,
             RunBookkeeping, Suspended
    <3>3. pc'[t][n] = "ended"
      BY <2>4, <2>8 DEF LoopReturns, LoopRaises, TimeoutFormatted, Settle
    <3>4. \E st \in {"completed", "failed"} : status' = [status EXCEPT ![t] = st]
      BY <2>8 DEF LoopReturns, LoopRaises, TimeoutFormatted, Settle
    <3>5. Contract!Report(t)
      BY <2>5, <3>3, <3>4 DEF Contract!Report
    <3> QED
      BY <3>1, <3>2, <3>5 DEF Contract!Finish, Contract!Overrule, Contract!Progress
  <2>9. CASE LoopTimesOut(t, n)
    <3>1. pc'[t][n] = "formatting"
      BY <2>4, <2>9 DEF LoopTimesOut
    <3>2. WorkOf(t) = "started" /\ WorkOf(t)' = "started"
      BY <1>1, <2>2, <2>9, <3>1 DEF LoopTimesOut, Stages, Suspended
    <3>3. [s \in Tasks |-> WorkOf(s)'] = [[s \in Tasks |-> WorkOf(s)] EXCEPT ![t] = "started"]
      BY <1>2, <2>3, <3>2
    <3> QED
      BY <2>9, <3>2, <3>3 DEF LoopTimesOut
  <2> QED
    BY <1>6, <2>6, <2>7, <2>8, <2>9 DEF RunStep
<1>7. CASE UNCHANGED vars
  BY <1>7 DEF vars, WorkOf, HasStartedRun, HasSuspendedRun, Contract!contractVars
<1> QED
  BY <1>3, <1>4, <1>5, <1>6, <1>7
     DEF Next, Handler, Contract!Next, Contract!contractVars

\* The service implements the task contract: seen from outside, work that has
\* not started is the only work a cancellation stops, and a retry never
\* overlaps the run it replaces.
THEOREM Implementation == Spec => Contract!SafeSpec
BY ContractInit, ContractStep, Invariance, PTL DEF Spec, Contract!SafeSpec

-----------------------------------------------------------------------------
(* The page and the exported files.                                        *)

\* No file, and no call that was given up, is of a run that does not exist yet.
FilesAreOfRuns ==
  /\ exports \in [Formats -> Nat]
  /\ \A f \in Formats : exports[f] <= runs[Task]
  /\ \A n \in late : n \in RunIds /\ n <= runs[Task]

\* The inductive invariant: that of the tasks, and the bound on files and calls.
PageInv == IInv /\ FilesAreOfRuns

\* The page's system starts with the tasks' initial states and no files.
LEMMA PageInvInit == PageInit => PageInv
BY IInvInit, TaskPageAssumption DEF PageInit, PageInv, FilesAreOfRuns, Init

\* A step of a task only adds runs.
LEMMA RunsOnlyGrow ==
  ASSUME IInv, [Next]_vars
  PROVE  \A t \in Tasks : runs[t] \in Nat /\ runs'[t] \in Nat /\ runs[t] <= runs'[t]
<1> SUFFICES ASSUME NEW s \in Tasks
             PROVE  runs[s] \in Nat /\ runs'[s] \in Nat /\ runs[s] <= runs'[s]
  OBVIOUS
<1>0. runs \in [Tasks -> Nat]
  BY MaxRunsAssumption DEF IInv, TypeOK
<1>1. ASSUME NEW t \in Tasks, Handler(t) PROVE runs'[s] \in {runs[s], runs[s] + 1}
  BY <1>0, <1>1 DEF Handler, CreateTask, CancelTask, RetryTask, Spawn
<1>2. ASSUME NEW t \in Tasks, NEW n \in RunIds, RunStep(t, n) PROVE runs' = runs
  BY <1>2 DEF RunStep, RunRefused, RunStarts, LoopReturns, LoopRaises, LoopTimesOut,
              TimeoutFormatted, Settle
<1>3. CASE UNCHANGED vars
  BY <1>0, <1>3 DEF vars
<1> QED
  BY <1>0, <1>1, <1>2, <1>3 DEF Next

\* Whatever the page and the store do, the tasks take a step of their own or none.
LEMMA PageStepsTask == [PageNext]_pagesVars => [Next]_vars
<1> SUFFICES ASSUME [PageNext]_pagesVars PROVE [Next]_vars
  OBVIOUS
<1> USE TaskPageAssumption
<1>1. CASE ServersStep
  BY <1>1 DEF ServersStep, ServerStep, StoreRestarts, FormatOutput, GiveUpFormat, LateFormat, Next
<1>2. CASE OpenPage \/ Refresh
  BY <1>2 DEF OpenPage, Refresh, Load
<1>3. CASE LoadStep
  BY <1>3 DEF LoadStep, AnswerLoad, ApplyLoad, LoadFails
<1>4. CASE PollStep
  BY <1>4 DEF PollStep, Poll, AnswerPoll, ApplyPoll, PollFails
<1>5. CASE OutputStep
  BY <1>5 DEF OutputStep, AnswerFetch, ApplyFetch, FetchFails
<1>6. CASE RetryStep
  BY <1>6 DEF RetryStep, RetryPressed, AnswerRetry, ApplyRetry, RetryFails, Next, Handler
<1>7. CASE UNCHANGED pagesVars
  BY <1>7 DEF pagesVars, vars
<1> QED
  BY <1>1, <1>2, <1>3, <1>4, <1>5, <1>6, <1>7 DEF PageNext

\* What a step does to the files: each is left, removed by a restart, or
\* replaced by one of the newest run or of a call that was given up.  Only the
\* newest run gives calls up.
FilesFollow ==
  /\ exports' \in [Formats -> Nat]
  /\ \A f \in Formats : exports'[f] \in {exports[f], 0, runs[Task]} \cup late
  /\ late' \subseteq late \cup ({runs[Task]} \cap RunIds)

\* Every step does no more than that to the files.
LEMMA FilesAreReplaced == PageInv /\ [PageNext]_pagesVars => FilesFollow
<1> SUFFICES ASSUME PageInv, [PageNext]_pagesVars PROVE FilesFollow
  OBVIOUS
<1> USE DEF PageInv, FilesAreOfRuns
<1>0. CASE UNCHANGED <<exports, late>>
  BY <1>0 DEF FilesFollow
<1>1. CASE StoreRestarts
  BY <1>1 DEF StoreRestarts, FilesFollow
<1>a. ASSUME NEW n \in RunIds, pc[Task][n] \in Started PROVE n = runs[Task] /\ n \in Nat
  BY <1>a, SuspendedIsNewest, TaskPageAssumption, MaxRunsAssumption DEF Started, Suspended, RunIds
<1>2. ASSUME NEW n \in RunIds, FormatOutput(n) \/ GiveUpFormat(n) \/ LateFormat(n)
      PROVE  FilesFollow
  <2>1. CASE FormatOutput(n)
    BY <1>a, <2>1 DEF FormatOutput, GenerateOutput, FilesFollow
  <2>2. CASE GiveUpFormat(n)
    BY <1>a, <2>2 DEF GiveUpFormat, FilesFollow
  <2>3. CASE LateFormat(n)
    BY <2>3, MaxRunsAssumption DEF LateFormat, GenerateOutput, FilesFollow, RunIds
  <2> QED
    BY <1>2, <2>1, <2>2, <2>3
<1>3. CASE ServerStep
  BY <1>0, <1>3 DEF ServerStep, storeVars
<1>4. CASE OpenPage \/ Refresh
  BY <1>0, <1>4 DEF OpenPage, Refresh, Load, storeVars
<1>5. CASE LoadStep
  BY <1>0, <1>5 DEF LoadStep, AnswerLoad, ApplyLoad, LoadFails, storeVars
<1>6. CASE PollStep
  BY <1>0, <1>6 DEF PollStep, Poll, AnswerPoll, ApplyPoll, PollFails, storeVars
<1>7. CASE OutputStep
  BY <1>0, <1>7 DEF OutputStep, AnswerFetch, ApplyFetch, FetchFails, storeVars
<1>8. CASE RetryStep
  BY <1>0, <1>8 DEF RetryStep, RetryPressed, AnswerRetry, ApplyRetry, RetryFails, storeVars
<1>9. CASE UNCHANGED pagesVars
  BY <1>0, <1>9 DEF pagesVars
<1> QED
  BY <1>1, <1>2, <1>3, <1>4, <1>5, <1>6, <1>7, <1>8, <1>9 DEF PageNext, ServersStep

\* Every step preserves the invariant.
LEMMA PageInvStep == PageInv /\ [PageNext]_pagesVars => PageInv'
<1> SUFFICES ASSUME PageInv, [PageNext]_pagesVars PROVE PageInv'
  OBVIOUS
<1>1. [Next]_vars
  BY PageStepsTask
<1>2. IInv'
  BY <1>1, IInvStep DEF PageInv
<1>3. runs[Task] \in Nat /\ runs'[Task] \in Nat /\ runs[Task] <= runs'[Task]
  BY <1>1, RunsOnlyGrow, TaskPageAssumption DEF PageInv
<1>4. FilesFollow
  BY FilesAreReplaced
<1>5. \A n \in late : n \in Nat /\ n \in RunIds /\ n <= runs[Task]
  BY MaxRunsAssumption DEF PageInv, FilesAreOfRuns, RunIds
<1>6. \A f \in Formats : exports'[f] <= runs'[Task]
  <2> SUFFICES ASSUME NEW f \in Formats PROVE exports'[f] <= runs'[Task]
    OBVIOUS
  <2>1. exports'[f] \in Nat /\ exports'[f] <= runs[Task]
    BY <1>3, <1>4, <1>5 DEF FilesFollow, PageInv, FilesAreOfRuns
  <2> QED
    BY <1>3, <2>1
<1>7. \A n \in late' : n \in RunIds /\ n <= runs'[Task]
  BY <1>3, <1>4, <1>5 DEF FilesFollow
<1> QED
  BY <1>2, <1>4, <1>6, <1>7 DEF PageInv, FilesAreOfRuns, FilesFollow, RunIds

\* The runs' bookkeeping and the bound on the files hold in every reachable state.
THEOREM PageInvariance == PageSpec => []PageInv
BY PageInvInit, PageInvStep, PTL DEF PageSpec

\* An exported file is replaced by one of an earlier run only by a call that
\* this run had given up, for any number of retries, loads, polls, calls given up
\* and restarts of the output service.
THEOREM ExportsOnlyGetNewer == PageSpec => NewerExportsStay
<1>1. PageInv /\ [PageNext]_pagesVars =>
        [\A f \in Formats :
           ExportOutput(f)' # 0 /\ ExportOutput(f)' < ExportOutput(f)
             => ExportOutput(f)' \in late]_pagesVars
  <2> SUFFICES ASSUME PageInv, [PageNext]_pagesVars, NEW f \in Formats,
                      exports'[f] # 0, exports'[f] < exports[f]
               PROVE  exports'[f] \in late
    BY DEF ExportOutput
  <2>1. exports'[f] \in {exports[f], 0, runs[Task]} \cup late
    BY FilesAreReplaced DEF FilesFollow
  <2>2. runs[Task] \in Nat
    BY RunsOnlyGrow, PageStepsTask, TaskPageAssumption DEF PageInv
  <2> QED
    BY <2>1, <2>2 DEF PageInv, FilesAreOfRuns
<1> QED
  BY <1>1, PageInvariance, PTL DEF PageSpec, NewerExportsStay

-----------------------------------------------------------------------------
(* The page and the output of a completed task.                            *)
(*                                                                         *)
(* Whatever order answers come in, what says that the task has completed   *)
(* stays true, because a completed task stays so and its last run stays    *)
(* the newest.  So the page may ask for the output as soon as it hears of  *)
(* it: the call is not refused, and its answer is what remains to be shown.*)

Completed == status[Task] = "completed"

\* A task as the page is told of it, and the calls of the page.
Told == [status : Statuses \cup {"asked"}, error : BOOLEAN]

PageTyped ==
  /\ task \in Told
  /\ loads \in [1 .. MaxLoads -> Told]
  /\ polls \in [1 .. MaxPolls -> Statuses \cup {"idle", "asked"}]

\* What the page holds, and what is on its way to it.
PageKnows ==
  /\ \A i \in 1 .. MaxLoads : loads[i].status = "completed" => Completed
  /\ \A i \in 1 .. MaxPolls : polls[i] = "completed" => Completed
  /\ task.status = "completed" => Completed
  /\ fetch # "idle" => Completed
  /\ fetch # "refused"
  /\ loaded => Completed /\ output = runs[Task]

\* A page that shows a completed task holds the output of its last run, is about to get it, or
\* has told the user that it could not be had.
OutputFollows == task.status = "completed" => loaded \/ fetch # "idle" \/ gaveUp

OutputInv == PageTyped /\ PageKnows /\ OutputFollows

\* The page starts empty.
LEMMA OutputInit == PageInit => OutputInv
BY DEF PageInit, OutputInv, PageTyped, PageKnows, OutputFollows, Told, None, Statuses

\* A completed task stays so, with the run whose output it has.
LEMMA TaskIsKept ==
  ASSUME IInv, [PageNext]_pagesVars
  PROVE  /\ Completed => Completed' /\ runs'[Task] = runs[Task]
         /\ Completed => outputs[Task] = runs[Task] /\ runs[Task] # 0
<1>1. [Next]_vars
  BY PageStepsTask
<1>2. Task \in Tasks
  BY TaskPageAssumption
<1>3. Completed => Completed' /\ runs'[Task] = runs[Task]
  BY <1>1, <1>2, CompletedIsKept DEF Completed
<1>4. Completed => outputs[Task] = runs[Task] /\ runs[Task] # 0
  BY <1>2 DEF Completed, IInv, RunBookkeeping
<1> QED
  BY <1>3, <1>4

\* What the servers answer.
LEMMA AnswersTyped ==
  ASSUME IInv
  PROVE  /\ TaskStatus \in Statuses /\ TaskDetail \in Told
         /\ TaskStatus = "completed" <=> Completed
         /\ TaskDetail.status = "completed" <=> Completed
BY TaskPageAssumption DEF IInv, TypeOK, TaskStatus, TaskDetail, Told, Completed

\* The page comes to know of a task: if it has completed, the output is asked for.
LEMMA SettingTask ==
  ASSUME OutputInv, NEW t \in Told, SetTask(t), t.status = "completed" => Completed
  PROVE  /\ task' \in Told
         /\ task'.status = "completed" => Completed
         /\ task'.status = "completed" => loaded \/ fetch' # "idle" \/ gaveUp
         /\ fetch' # "idle" => Completed
         /\ fetch' # "refused"
BY DEF OutputInv, PageKnows, OutputFollows, SetTask

\* A step that leaves what the page knows, but for what it is still to be told.
LEMMA OnlyAnswers ==
  ASSUME IInv, OutputInv, [PageNext]_pagesVars, PageTyped',
         UNCHANGED <<task, fetch, output, loaded, gaveUp>>,
         \A i \in 1 .. MaxLoads : loads'[i].status = "completed" => Completed,
         \A i \in 1 .. MaxPolls : polls'[i] = "completed" => Completed
  PROVE  OutputInv'
BY TaskIsKept DEF OutputInv, PageKnows, OutputFollows

\* Loads and polls.
LEMMA TellingStep ==
  ASSUME IInv, OutputInv, LoadStep \/ PollStep \/ OpenPage \/ Refresh
  PROVE  OutputInv'
<1>0. [PageNext]_pagesVars /\ Asked \in Told /\ None \in Told
  BY DEF PageNext, Told, Asked, None, Statuses
<1> USE DEF outputVars, loadVars
<1>1. CASE OpenPage \/ Refresh
  <2>1. PageTyped'
    BY <1>0, <1>1 DEF OpenPage, Refresh, Load, OutputInv, PageTyped
  <2>2. \A i \in 1 .. MaxLoads : loads'[i].status = "completed" => Completed
    <3>1. \A i \in 1 .. MaxLoads : loads'[i] = loads[i] \/ loads'[i] = Asked
      BY <1>1 DEF OpenPage, Refresh, Load, OutputInv, PageTyped
    <3>2. Asked.status # "completed"
      BY DEF Asked
    <3> QED
      BY <3>1, <3>2 DEF OutputInv, PageKnows
  <2> QED
    BY <1>0, <1>1, <2>1, <2>2, OnlyAnswers DEF OpenPage, Refresh, Load, OutputInv, PageKnows
<1>2. ASSUME NEW i \in 1 .. MaxLoads, AnswerLoad(i) PROVE OutputInv'
  <2>1. PageTyped'
    BY <1>2, AnswersTyped DEF AnswerLoad, OutputInv, PageTyped
  <2>2. \A j \in 1 .. MaxLoads : loads'[j].status = "completed" => Completed
    BY <1>2, AnswersTyped DEF AnswerLoad, OutputInv, PageTyped, PageKnows
  <2> QED
    BY <1>0, <1>2, <2>1, <2>2, OnlyAnswers DEF AnswerLoad, OutputInv, PageKnows
<1>3. ASSUME NEW i \in 1 .. MaxLoads, LoadFails(i) PROVE OutputInv'
  <2>1. PageTyped'
    BY <1>0, <1>3 DEF LoadFails, OutputInv, PageTyped
  <2>2. \A j \in 1 .. MaxLoads : loads'[j].status = "completed" => Completed
    BY <1>3 DEF LoadFails, OutputInv, PageTyped, PageKnows, None
  <2> QED
    BY <1>0, <1>3, <2>1, <2>2, OnlyAnswers DEF LoadFails, OutputInv, PageKnows
<1>4. ASSUME NEW i \in 1 .. MaxLoads, ApplyLoad(i) PROVE OutputInv'
  <2>1. loads[i] \in Told /\ SetTask(loads[i]) /\ (loads[i].status = "completed" => Completed)
    BY <1>4 DEF ApplyLoad, OutputInv, PageTyped, PageKnows
  <2>2. PageTyped'
    BY <1>0, <1>4, <2>1, SettingTask DEF ApplyLoad, OutputInv, PageTyped
  <2>3. \A j \in 1 .. MaxLoads : loads'[j].status = "completed" => Completed
    BY <1>4 DEF ApplyLoad, OutputInv, PageTyped, PageKnows, None
  <2> QED
    BY <1>0, <1>4, <2>1, <2>2, <2>3, SettingTask, TaskIsKept DEF ApplyLoad, OutputInv, PageKnows, OutputFollows
<1>5. ASSUME NEW i \in 1 .. MaxPolls, Poll(i) \/ AnswerPoll(i) \/ PollFails(i) PROVE OutputInv'
  <2>1. PageTyped'
    BY <1>5, AnswersTyped DEF Poll, AnswerPoll, PollFails, OutputInv, PageTyped
  <2>2. \A j \in 1 .. MaxPolls : polls'[j] = "completed" => Completed
    BY <1>5, AnswersTyped DEF Poll, AnswerPoll, PollFails, OutputInv, PageTyped, PageKnows
  <2> QED
    BY <1>0, <1>5, <2>1, <2>2, OnlyAnswers DEF Poll, AnswerPoll, PollFails, OutputInv, PageKnows
<1>6. ASSUME NEW i \in 1 .. MaxPolls, ApplyPoll(i) PROVE OutputInv'
  <2>1. [task EXCEPT !.status = polls[i]] \in Told
    BY <1>6 DEF ApplyPoll, OutputInv, PageTyped, Told
  <2>2. [task EXCEPT !.status = polls[i]].status = "completed" => Completed
    BY <1>6 DEF OutputInv, PageTyped, PageKnows, Told
  <2>3. SetTask([task EXCEPT !.status = polls[i]])
    BY <1>6 DEF ApplyPoll
  <2>4. PageTyped'
    BY <1>6, <2>1, <2>2, <2>3, SettingTask DEF ApplyPoll, OutputInv, PageTyped
  <2>5. \A j \in 1 .. MaxPolls : polls'[j] = "completed" => Completed
    BY <1>6 DEF ApplyPoll, OutputInv, PageTyped, PageKnows
  <2> QED
    BY <1>0, <1>6, <2>1, <2>2, <2>3, <2>4, <2>5, SettingTask, TaskIsKept
       DEF ApplyPoll, OutputInv, PageKnows, OutputFollows
<1> QED
  BY <1>1, <1>2, <1>3, <1>4, <1>5, <1>6 DEF LoadStep, PollStep

\* The call for the output, and what the servers and the retry button do.
LEMMA OtherPageStep ==
  ASSUME IInv, OutputInv, OutputStep \/ RetryStep \/ ServersStep \/ UNCHANGED pagesVars
  PROVE  OutputInv'
<1>0. [PageNext]_pagesVars
  BY DEF PageNext
<1> USE DEF outputVars, loadVars
<1>1. CASE AnswerFetch
  <2>1. Completed /\ PreviewedRun(Task) # 0
    BY <1>0, <1>1, TaskIsKept DEF AnswerFetch, OutputInv, PageKnows, PreviewedRun, Completed
  <2>2. fetch' = "answered"
    BY <1>1, <2>1 DEF AnswerFetch
  <2> QED
    BY <1>0, <1>1, <2>1, <2>2, TaskIsKept DEF AnswerFetch, OutputInv, PageTyped, PageKnows, OutputFollows
<1>2. CASE ApplyFetch
  BY <1>0, <1>2, TaskIsKept DEF ApplyFetch, OutputInv, PageTyped, PageKnows, OutputFollows
<1>3. CASE FetchFails
  BY <1>0, <1>3, TaskIsKept DEF FetchFails, OutputInv, PageTyped, PageKnows, OutputFollows
<1>4. CASE ApplyRetry
  BY <1>0, <1>4, TaskIsKept DEF ApplyRetry, OutputInv, PageTyped, PageKnows, OutputFollows, Told, Statuses
<1>5. CASE RetryPressed \/ AnswerRetry \/ RetryFails \/ ServersStep \/ UNCHANGED pagesVars
  <2>1. UNCHANGED <<task, fetch, output, loaded, gaveUp, loads, polls>>
    BY <1>5 DEF RetryPressed, AnswerRetry, RetryFails, ServersStep, ServerStep, StoreRestarts, FormatOutput,
                GiveUpFormat, LateFormat, pageOnlyVars, pageVars, pagesVars
  <2>2. PageTyped'
    BY <2>1 DEF OutputInv, PageTyped
  <2> QED
    BY <1>0, <2>1, <2>2, OnlyAnswers DEF OutputInv, PageKnows
<1> QED
  BY <1>1, <1>2, <1>3, <1>4, <1>5 DEF OutputStep, RetryStep

\* Whatever order the answers come in, a page that shows a completed task has the output of its
\* last run, has asked for it, or said that it failed; a call for it is never refused.
\* (TaskOutput.tsx fetches it once, when the status changes.)
THEOREM OutputIsFollowed == PageSpec => [](OutputFollows /\ PageKnows)
<1>1. PageInv /\ OutputInv /\ [PageNext]_pagesVars => OutputInv'
  BY TellingStep, OtherPageStep DEF PageInv, PageNext
<1>2. OutputInv => OutputFollows /\ PageKnows
  BY DEF OutputInv
<1> QED
  BY <1>1, <1>2, OutputInit, PageInvariance, PTL DEF PageSpec

=============================================================================
