----------------------------- MODULE AgentLoop -----------------------------
(***************************************************************************)
(* One run of the agent: AgentLoopRunner.run with the planning call, the   *)
(* tool calls made through _run_with_timeout_and_retry, the progress       *)
(* tracker and the output formatting that is forced at the end; and the    *)
(* overall timeout by which _run_agent can cut it off at any await.        *)
(*                                                                         *)
(* What the language model answers is any of the outcomes _plan tells      *)
(* apart.  Tools are told apart by what they change here: sections and the *)
(* output; "other" stands for search_kb, verify_citations,                 *)
(* extract_key_claims and compare_policies, whose chunks, citations and    *)
(* texts steer nothing below.  The conversation sent to the model is left  *)
(* out: every outcome of _plan is allowed whatever was sent.               *)
(***************************************************************************)
EXTENDS Naturals, Sequences, SequencesExt

CONSTANTS
  MaxIter,      \* settings.agent_max_iterations
  ToolAttempts,  \* attempts per tool call: max_retries + 1
  Planned,      \* titles of the sections the workflow plan starts with
  Titles,       \* titles the model may ask for
  Estimate      \* total_steps_estimate of the task type

ASSUME LoopAssumption ==
  /\ MaxIter \in Nat \ {0} /\ ToolAttempts \in Nat \ {0} /\ Estimate \in Nat
  /\ Planned \subseteq Titles

VARIABLES
  at,         \* the await the run is suspended at, or how it ended
  iteration,  \* state.iteration
  failures,   \* _parse_failure_count
  fatal,      \* state.fatal_error is set
  call,       \* the tool call being made
  attempt,    \* its attempt
  history,    \* state.tool_call_history: tool and success of each call
  stepIndex,  \* the progress tracker's step_index
  sections,   \* titles of state.generated_sections, in order
  remaining,  \* state.remaining_sections
  forced      \* how often _force_format_output has run

loopVars == <<at, iteration, failures, fatal, call, attempt, history, stepIndex,
          sections, remaining, forced>>

planVars == <<failures, fatal>>
toolVars == <<call, attempt, history, stepIndex, sections, remaining>>

Calls == [tool : {"generate_section"}, title : Titles]
           \cup [tool : {"format_output", "other"}]

NoCall == [tool |-> "none"]

Awaiting == {"planning", "tool", "forcing_limit", "forcing", "late_forcing"}

LoopTypeOK ==
  /\ at \in {"loop", "exit", "done", "raised"} \cup Awaiting
  /\ iteration \in 0 .. MaxIter
  /\ failures \in 0 .. 2 /\ fatal \in BOOLEAN
  /\ call \in Calls \cup {NoCall}
  /\ attempt \in 0 .. ToolAttempts
  /\ history \in Seq([tool : {"generate_section", "format_output", "other"}, success : BOOLEAN])
  /\ stepIndex \in Nat
  /\ sections \in Seq(Titles) /\ remaining \subseteq Planned
  /\ forced \in 0 .. 2

LoopInit ==
  /\ at = "loop" /\ iteration = 0
  /\ failures = 0 /\ fatal = FALSE
  /\ call = NoCall /\ attempt = 0 /\ history = <<>> /\ stepIndex = 0
  /\ sections = <<>> /\ remaining = Planned
  /\ forced = 0

-----------------------------------------------------------------------------
(* Planning. *)

BeginIteration ==
  /\ at = "loop" /\ iteration < MaxIter
  /\ iteration' = iteration + 1
  /\ at' = "planning"
  /\ UNCHANGED <<planVars, toolVars, forced>>

\* The planning call failed with an HTTP error, or the answer has neither a
\* tool call nor a text that can be parsed.  The second failure is fatal.
PlanFails ==
  /\ at = "planning"
  /\ failures' = failures + 1
  /\ fatal' = (failures + 1 >= 2)
  /\ at' = IF failures + 1 >= 2 THEN "exit" ELSE "loop"
  /\ UNCHANGED <<iteration, toolVars, forced>>

\* Mutated forms, here and below: plausible bugs that the properties catch.
\* No specification uses them.
PlanEmptyUncounted ==
  /\ at = "planning"
  /\ iteration' = iteration - 1
  /\ at' = "loop"
  /\ UNCHANGED <<planVars, toolVars, forced>>

\* An answer without choices is neither a failure nor an action.
PlanEmpty ==
  /\ at = "planning"
  /\ at' = "loop"
  /\ UNCHANGED <<iteration, planVars, toolVars, forced>>

\* A body that is not JSON raises through run().
PlanRaises ==
  /\ at = "planning"
  /\ at' = "raised"
  /\ UNCHANGED <<iteration, planVars, toolVars, forced>>

PlanFinish ==
  /\ at = "planning"
  /\ at' = "exit"
  /\ UNCHANGED <<iteration, planVars, toolVars, forced>>

PlanTool(c) ==
  /\ at = "planning"
  /\ call' = c /\ attempt' = 1
  /\ at' = "tool"
  /\ UNCHANGED <<iteration, planVars, history, stepIndex, sections, remaining, forced>>

\* A tool that is not registered: the model is told so, nothing is recorded.
PlanUnknownTool ==
  /\ at = "planning"
  /\ at' = "loop"
  /\ UNCHANGED <<iteration, planVars, toolVars, forced>>

-----------------------------------------------------------------------------
(* The tool call. *)

\* One record per call, and one step of progress, whatever its attempts.
CallRecorded(ok) ==
  /\ history' = Append(history, [tool |-> call.tool, success |-> ok])
  /\ stepIndex' = stepIndex + 1
  /\ call' = NoCall /\ attempt' = 0
  /\ at' = "loop"

\* The tool returned and did its work.
ToolWorks ==
  /\ at = "tool"
  /\ CallRecorded(TRUE)
  /\ IF call.tool = "generate_section"
     THEN /\ sections' = Append(sections, call.title)
          /\ remaining' = remaining \ {call.title}
     ELSE UNCHANGED <<sections, remaining>>
  /\ UNCHANGED <<iteration, planVars, forced>>

ToolSwallowsErrorAsDone ==
  /\ at = "tool"
  /\ CallRecorded(TRUE)
  /\ remaining' = IF call.tool = "generate_section" THEN remaining \ {call.title} ELSE remaining
  /\ UNCHANGED <<iteration, planVars, sections, forced>>

\* The tool's HTTP call failed: every tool catches the error and returns it in
\* its result, so the call counts as a success.
ToolSwallowsError ==
  /\ at = "tool"
  /\ CallRecorded(TRUE)
  /\ UNCHANGED <<iteration, planVars, sections, remaining, forced>>

\* The attempt timed out or raised.
AttemptFails ==
  /\ at = "tool" /\ attempt < ToolAttempts
  /\ attempt' = attempt + 1
  /\ UNCHANGED <<at, iteration, planVars, call, history, stepIndex, sections, remaining,
                 forced>>

ToolSkipped ==
  /\ at = "tool" /\ attempt = ToolAttempts
  /\ CallRecorded(FALSE)
  /\ UNCHANGED <<iteration, planVars, sections, remaining, forced>>

-----------------------------------------------------------------------------
(* The end of the run. *)

HasFinished == \E i \in DOMAIN history : history[i] = [tool |-> "format_output", success |-> TRUE]

LeaveLoopTrustingSkipped ==
  /\ at = "exit" \/ (at = "loop" /\ iteration >= MaxIter)
  /\ at' = IF \E i \in DOMAIN history : history[i].tool = "format_output" THEN "done"
           ELSE IF iteration >= MaxIter THEN "forcing_limit" ELSE "forcing"
  /\ UNCHANGED <<iteration, planVars, toolVars, forced>>

LeaveLoop ==
  /\ at = "exit" \/ (at = "loop" /\ iteration >= MaxIter)
  /\ at' = IF HasFinished THEN "done"
           ELSE IF iteration >= MaxIter THEN "forcing_limit" ELSE "forcing"
  /\ UNCHANGED <<iteration, planVars, toolVars, forced>>

\* _force_format_output calls the tool with all sections, outside the history;
\* whether the output service produced anything, an error is only logged.
ForceOutput ==
  /\ forced' = forced + 1
  /\ UNCHANGED <<iteration, planVars, toolVars>>

\* The forced call at the iteration limit leaves no record, so run() finds the
\* output still missing and forces it again.
ForceAtLimit ==
  /\ at = "forcing_limit"
  /\ ForceOutput
  /\ at' = IF HasFinished THEN "done" ELSE "forcing"

ForceAtEnd ==
  /\ at = "forcing"
  /\ ForceOutput
  /\ at' = "done"

\* wait_for cancels run() at the await it is suspended at, and _run_agent
\* formats the output itself.
OverallTimeout ==
  /\ at \in Awaiting \ {"late_forcing"}
  /\ call' = NoCall /\ attempt' = 0
  /\ at' = "late_forcing"
  /\ UNCHANGED <<iteration, planVars, history, stepIndex, sections, remaining, forced>>

ForceAfterTimeout ==
  /\ at = "late_forcing"
  /\ ForceOutput
  /\ at' = "done"

-----------------------------------------------------------------------------

Plan ==
  \/ PlanFails \/ PlanEmpty \/ PlanRaises \/ PlanFinish \/ PlanUnknownTool
  \/ \E c \in Calls : PlanTool(c)

Tool == ToolWorks \/ ToolSwallowsError \/ AttemptFails \/ ToolSkipped

Finish == LeaveLoop \/ ForceAtLimit \/ ForceAtEnd \/ ForceAfterTimeout

Ended == at \in {"done", "raised"}

LoopNext == BeginIteration \/ Plan \/ Tool \/ Finish \/ OverallTimeout

LoopSpec == LoopInit /\ [][LoopNext]_loopVars

\* Every HTTP call of the run has a timeout, so no await lasts forever.
FairLoopSpec == LoopSpec /\ WF_loopVars(LoopNext)

-----------------------------------------------------------------------------
(* Properties. *)

\* A run that returns has either a format_output call that did not fail in its
\* history or has forced the output: a task is never completed without an
\* attempt at its output, also when the model's own attempts were skipped.
OutputAttempted == at = "done" => HasFinished \/ forced > 0

\* Every planned section is either still remaining or generated, never both
\* and never lost, through retries, skipped calls and swallowed errors.
SectionsAccounted ==
  /\ remaining \cap ToSet(sections) = {}
  /\ Planned \subseteq remaining \cup ToSet(sections)

\* Every run ends.
RunEnds == <>Ended

=============================================================================
