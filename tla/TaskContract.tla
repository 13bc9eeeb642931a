---------------------------- MODULE TaskContract ----------------------------
(***************************************************************************)
(* What the orchestration service promises of one task, seen from outside: *)
(* its status and the stage of the work behind it.  A cancellation wins    *)
(* only over work that has not started; work that has started reports its  *)
(* own result in the end, and a failed task may be tried again once its    *)
(* work is over.                                                           *)
(*                                                                         *)
(* This is less than status_machine.py:7 says, for which a cancelled task  *)
(* is terminal: Overrule is what the code adds to that diagram.            *)
(***************************************************************************)
CONSTANT Tasks

VARIABLES
  status,
  work     \* "none", "queued" or "started"

contractVars == <<status, work>>

Init ==
  /\ status = [t \in Tasks |-> "absent"]
  /\ work = [t \in Tasks |-> "none"]

Submit(t) ==
  /\ status[t] = "absent"
  /\ status' = [status EXCEPT ![t] = "pending"]
  /\ work' = [work EXCEPT ![t] = "queued"]

Retry(t) ==
  /\ status[t] = "failed" /\ work[t] = "none"
  /\ status' = [status EXCEPT ![t] = "running"]
  /\ work' = [work EXCEPT ![t] = "queued"]

Cancel(t) ==
  /\ status[t] \in {"pending", "running"}
  /\ status' = [status EXCEPT ![t] = "cancelled"]
  /\ UNCHANGED work

Begin(t) ==
  /\ work[t] = "queued" /\ status[t] \in {"pending", "running"}
  /\ status' = [status EXCEPT ![t] = "running"]
  /\ work' = [work EXCEPT ![t] = "started"]

Drop(t) ==
  /\ work[t] = "queued" /\ status[t] = "cancelled"
  /\ work' = [work EXCEPT ![t] = "none"]
  /\ UNCHANGED status

Report(t) ==
  /\ \E s \in {"completed", "failed"} : status' = [status EXCEPT ![t] = s]
  /\ work' = [work EXCEPT ![t] = "none"]

Finish(t) == work[t] = "started" /\ status[t] = "running" /\ Report(t)

\* The cancellation came after the work had started: its result replaces it.
Overrule(t) == work[t] = "started" /\ status[t] = "cancelled" /\ Report(t)

Progress(t) == Begin(t) \/ Drop(t) \/ Finish(t) \/ Overrule(t)

Next == \E t \in Tasks : Submit(t) \/ Retry(t) \/ Cancel(t) \/ Progress(t)

SafeSpec == Init /\ [][Next]_contractVars

Spec == SafeSpec /\ \A t \in Tasks : WF_contractVars(Progress(t))

=============================================================================
