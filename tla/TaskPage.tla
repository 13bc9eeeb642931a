------------------------------ MODULE TaskPage ------------------------------
(***************************************************************************)
(* One task, the page of the web client that follows it, and the store of  *)
(* exported files: the task server (TaskLifecycle), the TaskOutput page    *)
(* with its hooks useRequest and usePolling, and the output service.       *)
(*                                                                         *)
(* The page loads the task when it is opened or refreshed, polls its       *)
(* status while it shows it as pending or running, and fetches the output  *)
(* when it comes to show it as completed.  Each call is a request that the *)
(* server answers at some moment and an answer that the page applies       *)
(* later: answers may overtake each other.                                 *)
(*                                                                         *)
(* Progress, titles and citations are left out (the page reads citations   *)
(* from a field that the preview does not have).                           *)
(***************************************************************************)
EXTENDS TaskLifecycle

CONSTANTS
  Task,         \* the task whose page is open
  Formats,      \* the formats the page offers for export
  Requested,    \* the task's output_formats
  MaxLoads,     \* bound: loads of the task's detail (opening and refreshing)
  MaxPolls,     \* bound: status polls in flight
  MaxFailures   \* bound: calls of the page that fail on the way, exports that
                \* are given up, and restarts of the output service

ASSUME TaskPageAssumption ==
  /\ Task \in Tasks
  /\ Requested \subseteq Formats

VARIABLES
  exports,   \* _output_store["task:format"]: the run whose file it is (0: none)
  late,      \* the runs that gave up a call which the output service may still serve
  task,      \* the page's task: its status and whether it has an error_message
  runId,     \* useRequest's counter, the newest load
  loading,   \* useRequest's loading
  failed,    \* whether useRequest's error is set
  loads,     \* each load: not sent, asked, answered or over
  polls,     \* each poll in flight: idle, asked or the status it answers
  fetch,     \* the call for the output: idle, asked or the run it answers
  output,    \* the run whose output the page holds (0: none)
  loaded,    \* outputLoaded
  gaveUp,    \* whether the page has told the user that the output failed
  retrying,  \* the page's call to retry: idle, asked, done or refused
  failures

storeVars == <<exports, late>>
loadVars == <<runId, loading, failed, loads>>
outputVars == <<output, loaded, gaveUp>>
pageVars == <<task, runId, loading, failed, loads, polls, fetch, output, loaded,
              gaveUp, retrying, failures>>
pagesVars == <<status, errorMessage, completedAt, runs, pc, outputs,
               exports, late, task, runId, loading, failed, loads, polls, fetch,
               output, loaded, gaveUp, retrying, failures>>

None == [status |-> "absent", error |-> FALSE]
Asked == [status |-> "asked", error |-> FALSE]

PageInit ==
  /\ Init
  /\ exports = [f \in Formats |-> 0] /\ late = {}
  /\ task = None
  /\ runId = 0 /\ loading = FALSE /\ failed = FALSE
  /\ loads = [i \in 1 .. MaxLoads |-> None]
  /\ polls = [i \in 1 .. MaxPolls |-> "idle"]
  /\ fetch = "idle" /\ output = 0 /\ loaded = FALSE /\ gaveUp = FALSE
  /\ retrying = "idle" /\ failures = 0

Fails == failures < MaxFailures /\ failures' = failures + 1

-----------------------------------------------------------------------------
(* The servers. *)

\* What the detail and the status endpoints answer.
TaskDetail == [status |-> status[Task], error |-> errorMessage[Task] # "none"]
TaskStatus == status[Task]

\* Other clients, and the background runs.
ServerStep ==
  /\ \/ Handler(Task)
     \/ \E n \in RunIds : RunStep(Task, n)
  /\ UNCHANGED <<storeVars, pageVars>>

\* What the store and the failures leave alone.
pageOnlyVars == <<task, loadVars, polls, fetch, outputVars, retrying>>

\* Each format is generated, or fails by itself.
GenerateAll(formats) == SUBSET formats

\* What could be generated is stored, the other files are left as they were.
GenerateOutput(n) ==
  \E generated \in GenerateAll(Requested) :
    exports' = [f \in Formats |-> IF f \in generated THEN n ELSE exports[f]]

\* A run has its sections formatted; an error of the output service does not end it.
FormatOutput(n) ==
  /\ pc[Task][n] \in Started
  /\ GenerateOutput(n)
  /\ UNCHANGED <<vars, late, pageVars>>

\* A run no longer waits for its call: the HTTP client or the tool times out, or
\* the overall timeout ends the loop.  It goes on, or ends and is retried.
GiveUpFormat(n) ==
  /\ pc[Task][n] \in Started
  /\ n \notin late /\ Fails
  /\ late' = late \cup {n}
  /\ UNCHANGED <<vars, exports, pageOnlyVars>>

\* The handler of the output service does not ask whether anybody still waits.
LateFormat(n) ==
  /\ n \in late
  /\ GenerateOutput(n)
  /\ late' = late \ {n}
  /\ UNCHANGED <<vars, pageVars>>

\* The run whose file an export gets; 0 stands for its 404.
ExportOutput(f) == exports[f]

\* The store is in memory, and so are the calls under way.
StoreRestarts ==
  /\ Fails
  /\ exports' = [f \in Formats |-> 0]
  /\ late' = {}
  /\ UNCHANGED <<vars, pageOnlyVars>>

-----------------------------------------------------------------------------
(* What the page does when its task changes. *)

IsRunningStarted(t) == t.status = "running"

IsRunning(t) == t.status \in {"running", "pending"}


\* The effect on the task's status calls for the output whenever the page
\* comes to show the task as completed.  (It might call again while a call
\* is out, after a late answer: both get the same output.)
SetTask(t) ==
  /\ task' = t
  /\ fetch' = IF /\ t.status = "completed" /\ task.status # "completed"
                 /\ ~loaded /\ fetch = "idle"
              THEN "asked" ELSE fetch

-----------------------------------------------------------------------------
(* useRequest: loading the task. *)

Load ==
  /\ runId < MaxLoads
  /\ runId' = runId + 1
  /\ loading' = TRUE /\ failed' = FALSE
  /\ loads' = [loads EXCEPT ![runId + 1] = Asked]
  /\ UNCHANGED <<vars, storeVars, task, polls, fetch, outputVars, retrying, failures>>

OpenPage == runId = 0 /\ status[Task] # "absent" /\ Load

\* The buttons are there only when the page has a task and is not loading it.
ButtonsShown == ~loading /\ ~failed /\ task # None

Refresh == ButtonsShown /\ Load

AnswerLoad(i) ==
  /\ loads[i] = Asked
  /\ loads' = [loads EXCEPT ![i] = TaskDetail]
  /\ UNCHANGED <<vars, storeVars, task, runId, loading, failed, polls, fetch,
                 outputVars, retrying, failures>>

\* The task is set inside the request, also by a load that is not the newest.
ApplyLoad(i) ==
  /\ loads[i] \notin {None, Asked}
  /\ SetTask(loads[i])
  /\ loads' = [loads EXCEPT ![i] = None]
  /\ loading' = (loading /\ i # runId)
  /\ failed' = (failed /\ i # runId)
  /\ UNCHANGED <<vars, storeVars, runId, polls, outputVars, retrying, failures>>

LoadFails(i) ==
  /\ loads[i] # None /\ Fails
  /\ loads' = [loads EXCEPT ![i] = None]
  /\ loading' = (loading /\ i # runId)
  /\ failed' = (failed \/ i = runId)
  /\ UNCHANGED <<vars, storeVars, task, runId, polls, fetch, outputVars, retrying>>

-----------------------------------------------------------------------------
(* usePolling: at once when the page comes to show a running task, then at   *)
(* every interval, whether or not the polls before have been answered.       *)

Poll(i) ==
  /\ IsRunning(task)
  /\ polls[i] = "idle"
  /\ polls' = [polls EXCEPT ![i] = "asked"]
  /\ UNCHANGED <<vars, storeVars, task, loadVars, fetch, outputVars, retrying, failures>>

AnswerPoll(i) ==
  /\ polls[i] = "asked"
  /\ polls' = [polls EXCEPT ![i] = TaskStatus]
  /\ UNCHANGED <<vars, storeVars, task, loadVars, fetch, outputVars, retrying, failures>>

\* Only the status is replaced: the page learns error_message from loads.
ApplyPoll(i) ==
  /\ polls[i] \notin {"idle", "asked"}
  /\ SetTask([task EXCEPT !.status = polls[i]])
  /\ polls' = [polls EXCEPT ![i] = "idle"]
  /\ UNCHANGED <<vars, storeVars, loadVars, outputVars, retrying, failures>>

\* A failed poll is silent.
PollFails(i) ==
  /\ polls[i] # "idle" /\ Fails
  /\ polls' = [polls EXCEPT ![i] = "idle"]
  /\ UNCHANGED <<vars, storeVars, task, loadVars, fetch, outputVars, retrying>>

-----------------------------------------------------------------------------
(* The output. *)

AnswerFetch ==
  /\ fetch = "asked"
  /\ fetch' = IF PreviewedRun(Task) = 0 THEN "refused" ELSE "answered"
  /\ UNCHANGED <<vars, storeVars, task, loadVars, polls, outputVars, retrying, failures>>

\* The preview of a completed task does not change any more, so what was
\* answered is read when it is applied.
ApplyFetch ==
  /\ fetch = "answered"
  /\ fetch' = "idle"
  /\ output' = outputs[Task]
  /\ loaded' = TRUE
  /\ UNCHANGED <<vars, storeVars, task, loadVars, polls, gaveUp, retrying, failures>>

\* The effect does not run again until the status changes.
FetchFails ==
  /\ \/ fetch = "refused" /\ UNCHANGED failures
     \/ fetch \in {"asked", "answered"} /\ Fails
  /\ fetch' = "idle"
  /\ gaveUp' = TRUE
  /\ UNCHANGED <<vars, storeVars, task, loadVars, polls, output, loaded, retrying>>

OutputShown == task.status = "completed" /\ output # 0

-----------------------------------------------------------------------------
(* The retry button, which stands beside the error message. *)

RetryPressed ==
  /\ ButtonsShown /\ task.status = "failed" /\ task.error
  /\ retrying = "idle"
  /\ retrying' = "asked"
  /\ UNCHANGED <<vars, storeVars, task, loadVars, polls, fetch, outputVars, failures>>

AnswerRetry ==
  /\ retrying = "asked"
  /\ \/ RetryTask(Task) /\ retrying' = "done"
     \/ status[Task] # "failed" /\ retrying' = "refused" /\ UNCHANGED vars
  /\ UNCHANGED <<storeVars, task, loadVars, polls, fetch, outputVars, failures>>

ApplyRetry ==
  /\ retrying = "done"
  /\ retrying' = "idle"
  /\ loaded' = FALSE
  /\ task' = [status |-> "pending", error |-> FALSE]
  /\ UNCHANGED <<vars, storeVars, loadVars, polls, fetch, output, gaveUp, failures>>

RetryFails ==
  /\ \/ retrying = "refused" /\ UNCHANGED failures
     \/ retrying \in {"asked", "done"} /\ Fails
  /\ retrying' = "idle"
  /\ UNCHANGED <<vars, storeVars, task, loadVars, polls, fetch, outputVars>>

-----------------------------------------------------------------------------

ServersStep ==
  \/ ServerStep
  \/ StoreRestarts
  \/ \E n \in RunIds : FormatOutput(n) \/ GiveUpFormat(n) \/ LateFormat(n)

LoadStep == \E i \in 1 .. MaxLoads : AnswerLoad(i) \/ ApplyLoad(i) \/ LoadFails(i)

PollStep ==
  \E i \in 1 .. MaxPolls : Poll(i) \/ AnswerPoll(i) \/ ApplyPoll(i) \/ PollFails(i)

OutputStep == AnswerFetch \/ ApplyFetch \/ FetchFails

RetryStep == RetryPressed \/ AnswerRetry \/ ApplyRetry \/ RetryFails

PageNext == ServersStep \/ OpenPage \/ Refresh \/ LoadStep \/ PollStep \/ OutputStep \/ RetryStep

\* Every call is answered or fails, the interval fires while it is set, and the
\* runs go on as TaskLifecycle assumes.  What users do is up to them.
PageFairness ==
  /\ \A n \in RunIds : WF_pagesVars(RunStep(Task, n) /\ UNCHANGED <<storeVars, pageVars>>)
  /\ \A i \in 1 .. MaxLoads : WF_pagesVars(AnswerLoad(i) \/ ApplyLoad(i))
  /\ \A i \in 1 .. MaxPolls :
       WF_pagesVars(Poll(i)) /\ WF_pagesVars(AnswerPoll(i) \/ ApplyPoll(i))
  /\ WF_pagesVars(AnswerFetch \/ ApplyFetch \/ FetchFails)
  /\ WF_pagesVars(AnswerRetry \/ ApplyRetry \/ RetryFails)

PageSpec == PageInit /\ [][PageNext]_pagesVars /\ PageFairness

-----------------------------------------------------------------------------
(* What must hold. *)

\* An exported file is replaced by one of an earlier run only if that run had
\* given up the call which writes it (output_service/app.py:193 overwrites without
\* asking): whatever is cancelled, retried or lost, the exports that a run waits
\* for reach the store in the order of the runs.
NewerExportsStay ==
  [][\A f \in Formats :
       ExportOutput(f)' # 0 /\ ExportOutput(f)' < ExportOutput(f)
         => ExportOutput(f)' \in late]_pagesVars

\* A page does not show a task as pending or running forever.
RunningIsFollowed ==
  task.status \in {"pending", "running"} ~> task.status \notin {"pending", "running"}

\* What is on its way to the page and would stop its polling.
LateEnds ==
  \/ \E i \in 1 .. MaxLoads : loads[i].status \in {"failed", "cancelled"}
  \/ \E i \in 1 .. MaxPolls : polls[i] \in {"failed", "cancelled"}


=============================================================================
