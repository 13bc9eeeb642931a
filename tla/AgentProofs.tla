----------------------------- MODULE AgentProofs -----------------------------
(***************************************************************************)
(* Proofs about the agent and what it asks the language model through:     *)
(* AgentLoop, for any limits and any sections, its types, that a run which *)
(* returns has attempted its output, that no planned section is lost, how  *)
(* many steps a run takes at most, and that it is a run of TaskLifecycle;  *)
(* LLMRouter, for any number of concurrent requests and any limits, its    *)
(* types, the bound on the attempts of a request, which rests on           *)
(* AttemptBudget, what a closed breaker has on record, and the arrows      *)
(* along which a breaker changes.                                          *)
(***************************************************************************)
EXTENDS AgentLoop, LLMRouter, TLAPS

-----------------------------------------------------------------------------
(* The inductive invariant.  Two failed plans end the loop, so the loop is *)
(* never left with a third; and the output is forced at the limit, again   *)
(* at the end and once after a timeout, which follows neither of the last. *)

InBounds ==
  /\ at \in {"loop", "planning", "tool"} => failures < 2 /\ forced = 0
  /\ at \in {"exit", "forcing_limit"} => forced = 0
  /\ at \in {"forcing", "late_forcing"} => forced <= 1
  /\ at = "tool" => call \in Calls

LoopIInv == LoopTypeOK /\ InBounds /\ OutputAttempted /\ SectionsAccounted

\* The history's entries.
Entry == [tool : {"generate_section", "format_output", "other"}, success : BOOLEAN]

\* What is in a sequence that grew.
LEMMA ToSetOfAppend ==
  ASSUME NEW S, NEW s \in Seq(S), NEW e \in S
  PROVE  Append(s, e) \in Seq(S) /\ ToSet(Append(s, e)) = ToSet(s) \cup {e}
<1>1. /\ Append(s, e) \in Seq(S) /\ Len(s) \in Nat
      /\ DOMAIN s = 1 .. Len(s) /\ DOMAIN Append(s, e) = 1 .. Len(s) + 1
      /\ \A i \in 1 .. Len(s) : Append(s, e)[i] = s[i]
      /\ Append(s, e)[Len(s) + 1] = e
  OBVIOUS
<1>. QED
  BY <1>1 DEF ToSet

\* The invariant holds initially.
LEMMA LoopInitIInv == LoopInit => LoopIInv
<1>. SUFFICES ASSUME LoopInit PROVE LoopIInv
  OBVIOUS
<1>1. LoopTypeOK
  <2>1. history \in Seq(Entry) /\ sections \in Seq(Titles)
    BY DEF LoopInit
  <2>2. at = "loop" /\ fatal \in BOOLEAN /\ call \in Calls \cup {NoCall} /\ remaining \subseteq Planned
    BY DEF LoopInit
  <2>3. /\ iteration \in 0 .. MaxIter /\ failures \in 0 .. 2 /\ attempt \in 0 .. ToolAttempts
        /\ stepIndex \in Nat /\ forced \in 0 .. 2
    BY LoopAssumption DEF LoopInit
  <2>. QED
    BY <2>1, <2>2, <2>3 DEF LoopTypeOK, Entry
<1>2. ToSet(sections) = {}
  BY DEF LoopInit, ToSet
<1>. QED
  BY <1>1, <1>2 DEF LoopInit, LoopIInv, InBounds, OutputAttempted, SectionsAccounted

\* Planning touches neither the history nor the sections.
LEMMA PlanStep ==
  ASSUME LoopIInv, BeginIteration \/ Plan
  PROVE  LoopIInv'
<1>1. LoopTypeOK'
  <2>1. CASE BeginIteration
    BY <2>1, LoopAssumption DEF LoopIInv, LoopTypeOK, BeginIteration, planVars, toolVars, Awaiting
  <2>2. CASE PlanFails
    BY <2>2 DEF LoopIInv, LoopTypeOK, InBounds, PlanFails, planVars, toolVars, Awaiting
  <2>3. CASE PlanEmpty \/ PlanRaises \/ PlanFinish \/ PlanUnknownTool
    BY <2>3 DEF LoopIInv, LoopTypeOK, PlanEmpty, PlanRaises, PlanFinish, PlanUnknownTool, planVars, toolVars
  <2>4. ASSUME NEW c \in Calls, PlanTool(c)
        PROVE  LoopTypeOK'
    BY <2>4, LoopAssumption DEF LoopIInv, LoopTypeOK, PlanTool, planVars, Awaiting
  <2>. QED
    BY <2>1, <2>2, <2>3, <2>4 DEF Plan
<1>2. InBounds'
  BY DEF LoopIInv, LoopTypeOK, InBounds, BeginIteration, Plan, PlanFails, PlanEmpty, PlanRaises, PlanFinish,
         PlanUnknownTool, PlanTool, planVars, toolVars
<1>3. UNCHANGED <<sections, remaining>> /\ at' # "done"
  BY DEF BeginIteration, Plan, PlanFails, PlanEmpty, PlanRaises, PlanFinish,
         PlanUnknownTool, PlanTool, toolVars
<1>. QED
  BY <1>1, <1>2, <1>3 DEF LoopIInv, OutputAttempted, SectionsAccounted

\* A call's record.
LEMMA Recorded ==
  ASSUME LoopIInv, at = "tool", NEW ok \in BOOLEAN, CallRecorded(ok)
  PROVE  /\ history' \in Seq(Entry) /\ stepIndex' \in Nat /\ call' = NoCall /\ attempt' = 0 /\ at' = "loop"
<1>1. [tool |-> call.tool, success |-> ok] \in Entry
  BY DEF LoopIInv, InBounds, Calls, Entry
<1>2. history \in Seq(Entry) /\ stepIndex \in Nat
  BY DEF LoopIInv, LoopTypeOK, Entry
<1>. QED
  BY <1>1, <1>2, ToSetOfAppend DEF CallRecorded

\* Only a tool that works moves a section, from the remaining to the generated.
LEMMA ToolStep ==
  ASSUME LoopIInv, Tool
  PROVE  LoopIInv'
<1>1. CASE AttemptFails
  <2>1. LoopTypeOK'
    BY <1>1, LoopAssumption DEF LoopIInv, LoopTypeOK, AttemptFails, planVars
  <2>. QED
    BY <1>1, <2>1 DEF LoopIInv, AttemptFails, planVars, InBounds, OutputAttempted, HasFinished, SectionsAccounted
<1>2. ASSUME NEW ok \in BOOLEAN, at = "tool", CallRecorded(ok), UNCHANGED <<iteration, planVars, forced>>,
             sections' \in Seq(Titles), remaining' \subseteq Planned, SectionsAccounted'
      PROVE  LoopIInv'
  <2>1. history' \in Seq(Entry) /\ stepIndex' \in Nat /\ call' = NoCall /\ attempt' = 0 /\ at' = "loop"
    BY <1>2, Recorded
  <2>2. LoopTypeOK'
    BY <1>2, <2>1, LoopAssumption DEF LoopIInv, LoopTypeOK, planVars, Entry
  <2>3. InBounds' /\ OutputAttempted'
    BY <1>2, <2>1 DEF LoopIInv, InBounds, OutputAttempted, planVars
  <2>. QED
    BY <1>2, <2>2, <2>3 DEF LoopIInv
<1>3. CASE ToolSwallowsError \/ ToolSkipped
  <2>1. SectionsAccounted' /\ sections' \in Seq(Titles) /\ remaining' \subseteq Planned
    BY <1>3 DEF LoopIInv, LoopTypeOK, ToolSwallowsError, ToolSkipped, SectionsAccounted
  <2>. QED
    BY <1>2, <1>3, <2>1 DEF ToolSwallowsError, ToolSkipped
<1>4. CASE ToolWorks
  <2>1. CASE call.tool = "generate_section"
    <3>1. call.title \in Titles
      BY <1>4, <2>1 DEF LoopIInv, InBounds, ToolWorks, Calls
    <3>2. sections' \in Seq(Titles) /\ ToSet(sections') = ToSet(sections) \cup {call.title}
      <4>1. sections \in Seq(Titles) /\ sections' = Append(sections, call.title)
        BY <1>4, <2>1 DEF LoopIInv, LoopTypeOK, ToolWorks
      <4>. QED
        BY <3>1, <4>1, ToSetOfAppend
    <3>3. remaining' = remaining \ {call.title} /\ remaining \subseteq Planned
      BY <1>4, <2>1 DEF ToolWorks, LoopIInv, LoopTypeOK
    <3>4. SectionsAccounted'
      BY <3>2, <3>3 DEF LoopIInv, SectionsAccounted
    <3>. QED
      BY <1>2, <1>4, <3>2, <3>3, <3>4 DEF ToolWorks
  <2>2. CASE call.tool # "generate_section"
    <3>1. UNCHANGED <<sections, remaining>>
      BY <1>4, <2>2 DEF ToolWorks
    <3>2. SectionsAccounted' /\ sections' \in Seq(Titles) /\ remaining' \subseteq Planned
      BY <3>1 DEF LoopIInv, LoopTypeOK, SectionsAccounted
    <3>. QED
      BY <1>2, <1>4, <3>2 DEF ToolWorks
  <2>. QED
    BY <2>1, <2>2
<1>. QED
  BY <1>1, <1>3, <1>4 DEF Tool

\* The end of the run: it is done only with an output or after forcing one.
LEMMA FinishStep ==
  ASSUME LoopIInv, Finish \/ OverallTimeout
  PROVE  LoopIInv'
<1>1. LoopTypeOK'
  <2>1. CASE LeaveLoop
    BY <2>1 DEF LoopIInv, LoopTypeOK, LeaveLoop, planVars, toolVars, Awaiting
  <2>2. CASE ForceAtLimit \/ ForceAtEnd \/ ForceAfterTimeout
    BY <2>2 DEF LoopIInv, LoopTypeOK, InBounds, ForceAtLimit, ForceAtEnd, ForceAfterTimeout, ForceOutput,
                planVars, toolVars, Awaiting
  <2>3. CASE OverallTimeout
    BY <2>3, LoopAssumption DEF LoopIInv, LoopTypeOK, OverallTimeout, planVars, Awaiting
  <2>. QED
    BY <2>1, <2>2, <2>3 DEF Finish
<1>2. InBounds' /\ OutputAttempted'
  BY DEF LoopIInv, LoopTypeOK, InBounds, OutputAttempted, HasFinished, Finish, LeaveLoop, ForceAtLimit,
         ForceAtEnd, ForceAfterTimeout, ForceOutput, OverallTimeout, planVars, toolVars, Awaiting
<1>3. UNCHANGED <<sections, remaining>>
  BY DEF Finish, LeaveLoop, ForceAtLimit, ForceAtEnd, ForceAfterTimeout, ForceOutput, OverallTimeout, toolVars
<1>. QED
  BY <1>1, <1>2, <1>3 DEF LoopIInv, SectionsAccounted

\* Every step preserves the invariant.
LEMMA LoopIInvStep == LoopIInv /\ [LoopNext]_loopVars => LoopIInv'
<1>. SUFFICES ASSUME LoopIInv, [LoopNext]_loopVars PROVE LoopIInv'
  OBVIOUS
<1>1. CASE UNCHANGED loopVars
  BY <1>1 DEF loopVars, LoopIInv, LoopTypeOK, InBounds, OutputAttempted, HasFinished, SectionsAccounted
<1>. QED
  BY <1>1, PlanStep, ToolStep, FinishStep DEF LoopNext

-----------------------------------------------------------------------------
(* The theorems about the agent loop. *)

\* The inductive invariant holds in every reachable state.
THEOREM LoopInvariance == LoopSpec => []LoopIInv
BY LoopInitIInv, LoopIInvStep, PTL DEF LoopSpec

\* Every variable keeps its type; the output is forced at most twice.
THEOREM LoopTypeCorrect == LoopSpec => []LoopTypeOK
<1>1. LoopIInv => LoopTypeOK
  BY DEF LoopIInv
<1>. QED
  BY <1>1, LoopInvariance, PTL

\* A run that returns has attempted its output.
THEOREM OutputIsAttempted == LoopSpec => []OutputAttempted
<1>1. LoopIInv => OutputAttempted
  BY DEF LoopIInv
<1>. QED
  BY <1>1, LoopInvariance, PTL

\* No planned section is lost or counted twice.
THEOREM SectionsStayAccounted == LoopSpec => []SectionsAccounted
<1>1. LoopIInv => SectionsAccounted
  BY DEF LoopIInv
<1>. QED
  BY <1>1, LoopInvariance, PTL

-----------------------------------------------------------------------------
(* How long a run may go on: every step ends it, or uses up an iteration,  *)
(* an attempt or a forced output.                                          *)

Stages == {"loop", "exit", "done", "raised"} \cup Awaiting

\* What the iterations after the n-th may take: each its beginning, a plan and the attempts.
Iterations(n) == (MaxIter - n) * (ToolAttempts + 2)

\* The steps left at a stage of iteration n and attempt a: those of the iteration, of later ones
\* and of the end.
Left(stage, n, a) ==
  CASE stage \in {"done", "raised"} -> 0
    [] stage = "late_forcing"       -> 1
    [] stage = "forcing"            -> 2
    [] stage = "forcing_limit"      -> 3
    [] stage = "exit"               -> 4
    [] stage = "loop"               -> Iterations(n) + 5
    [] stage = "planning"           -> Iterations(n) + ToolAttempts + 6
    [] stage = "tool"               -> Iterations(n) + (ToolAttempts - a) + 6

StepsLeft == Left(at, iteration, attempt)

\* The iterations left are a natural number of steps, and each takes its share of them.
LEMMA IterationsShrink ==
  ASSUME NEW n \in 0 .. MaxIter
  PROVE  /\ Iterations(n) \in Nat
         /\ n < MaxIter => Iterations(n) = Iterations(n + 1) + ToolAttempts + 2
<1>1. MaxIter - n \in Nat /\ ToolAttempts + 2 \in Nat
  BY LoopAssumption
<1>2. ASSUME NEW m \in Nat, NEW a \in Nat
      PROVE  m * a \in Nat /\ (m + 1) * a = m * a + a
  OBVIOUS
<1>3. ASSUME n < MaxIter
      PROVE  Iterations(n) = Iterations(n + 1) + ToolAttempts + 2
  <2>1. MaxIter - (n + 1) \in Nat /\ MaxIter - n = (MaxIter - (n + 1)) + 1
    BY <1>3, LoopAssumption
  <2>2. (MaxIter - n) * (ToolAttempts + 2) = (MaxIter - (n + 1)) * (ToolAttempts + 2) + (ToolAttempts + 2)
    BY <1>1, <1>2, <2>1
  <2>3. (MaxIter - (n + 1)) * (ToolAttempts + 2) \in Nat /\ ToolAttempts \in Nat
    BY <1>1, <1>2, <2>1, LoopAssumption
  <2>. QED
    BY <2>2, <2>3 DEF Iterations
<1>. QED
  BY <1>1, <1>2, <1>3 DEF Iterations

\* What is left, at each stage.
LEMMA LeftAt ==
  ASSUME NEW stage \in Stages, NEW n \in 0 .. MaxIter, NEW a \in 0 .. ToolAttempts
  PROVE  /\ Left(stage, n, a) \in Nat
         /\ stage \in {"done", "raised"} => Left(stage, n, a) = 0
         /\ stage = "late_forcing" => Left(stage, n, a) = 1
         /\ stage = "forcing" => Left(stage, n, a) = 2
         /\ stage = "forcing_limit" => Left(stage, n, a) = 3
         /\ stage = "exit" => Left(stage, n, a) = 4
         /\ stage = "loop" => Left(stage, n, a) = Iterations(n) + 5
         /\ stage = "planning" => Left(stage, n, a) = Iterations(n) + ToolAttempts + 6
         /\ stage = "tool" => Left(stage, n, a) = Iterations(n) + (ToolAttempts - a) + 6
<1>1. Iterations(n) \in Nat /\ ToolAttempts \in Nat /\ ToolAttempts - a \in Nat
  BY IterationsShrink, LoopAssumption
<1>. QED
  BY <1>1 DEF Left, Stages, Awaiting

\* Each step leaves fewer than there were.
LEMMA StepsShrink ==
  ASSUME LoopIInv, LoopIInv', LoopNext
  PROVE  StepsLeft' \in Nat /\ StepsLeft' < StepsLeft
<1>1. /\ at \in Stages /\ iteration \in 0 .. MaxIter /\ attempt \in 0 .. ToolAttempts
      /\ at' \in Stages /\ iteration' \in 0 .. MaxIter /\ attempt' \in 0 .. ToolAttempts
  BY DEF LoopIInv, LoopTypeOK, Stages
<1>2. StepsLeft = Left(at, iteration, attempt) /\ StepsLeft' = Left(at', iteration', attempt')
  BY DEF StepsLeft
<1>3. StepsLeft \in Nat /\ StepsLeft' \in Nat
  BY <1>1, <1>2, LeftAt
<1>4. /\ Iterations(iteration) \in Nat /\ ToolAttempts \in Nat
      /\ ToolAttempts - attempt \in Nat /\ ToolAttempts - attempt' \in Nat
  <2>1. Iterations(iteration) \in Nat
    BY <1>1, IterationsShrink
  <2>2. ToolAttempts \in Nat
    BY LoopAssumption
  <2>3. ASSUME NEW a \in 0 .. ToolAttempts PROVE ToolAttempts - a \in Nat
    BY <2>2
  <2>. QED
    BY <1>1, <2>1, <2>2, <2>3
<1>5. CASE BeginIteration
  <2>1. /\ at = "loop" /\ at' = "planning" /\ iteration < MaxIter /\ iteration' = iteration + 1
    BY <1>5 DEF BeginIteration
  <2>2. StepsLeft = Iterations(iteration) + 5 /\ StepsLeft' = Iterations(iteration + 1) + ToolAttempts + 6
    BY <1>1, <1>2, <2>1, LeftAt
  <2>3. Iterations(iteration) = Iterations(iteration + 1) + ToolAttempts + 2
    BY <1>1, <2>1, IterationsShrink
  <2>4. Iterations(iteration + 1) \in Nat
    BY <1>1, <2>1, IterationsShrink
  <2>. QED
    BY <1>4, <2>2, <2>3, <2>4
<1>6. CASE Plan
  <2>1. at = "planning" /\ iteration' = iteration
    BY <1>6 DEF Plan, PlanFails, PlanEmpty, PlanRaises, PlanFinish, PlanUnknownTool, PlanTool, toolVars
  <2>2. at' \in {"loop", "exit", "raised"} \/ (at' = "tool" /\ attempt' = 1)
    BY <1>6 DEF Plan, PlanFails, PlanEmpty, PlanRaises, PlanFinish, PlanUnknownTool, PlanTool
  <2>3. StepsLeft = Iterations(iteration) + ToolAttempts + 6
    BY <1>1, <1>2, <2>1, LeftAt
  <2>4. \/ StepsLeft' = Iterations(iteration) + 5 \/ StepsLeft' = 4 \/ StepsLeft' = 0
        \/ StepsLeft' = Iterations(iteration) + (ToolAttempts - 1) + 6
    BY <1>1, <1>2, <2>1, <2>2, LeftAt
  <2>. QED
    BY <1>4, <2>3, <2>4
<1>7. CASE Tool
  <2>1. at = "tool" /\ iteration' = iteration
    BY <1>7 DEF Tool, ToolWorks, ToolSwallowsError, AttemptFails, ToolSkipped
  <2>2. at' = "loop" \/ (at' = "tool" /\ attempt' = attempt + 1)
    BY <1>7, <2>1 DEF Tool, ToolWorks, ToolSwallowsError, AttemptFails, ToolSkipped, CallRecorded
  <2>3. StepsLeft = Iterations(iteration) + (ToolAttempts - attempt) + 6
    BY <1>1, <1>2, <2>1, LeftAt
  <2>4. \/ StepsLeft' = Iterations(iteration) + 5
        \/ StepsLeft' = Iterations(iteration) + (ToolAttempts - (attempt + 1)) + 6
    BY <1>1, <1>2, <2>1, <2>2, LeftAt
  <2>5. attempt \in Nat
    BY <1>1, LoopAssumption
  <2>. QED
    BY <1>4, <2>3, <2>4, <2>5
<1>8. CASE LeaveLoop
  <2>1. at \in {"exit", "loop"} /\ at' \in {"done", "forcing_limit", "forcing"}
    BY <1>8 DEF LeaveLoop
  <2>2. StepsLeft = 4 \/ StepsLeft = Iterations(iteration) + 5
    BY <1>1, <1>2, <2>1, LeftAt
  <2>3. StepsLeft' = 0 \/ StepsLeft' = 3 \/ StepsLeft' = 2
    BY <1>1, <1>2, <2>1, LeftAt
  <2>. QED
    BY <1>4, <2>2, <2>3
<1>9. CASE ForceAtLimit \/ ForceAtEnd \/ ForceAfterTimeout
  <2>1. \/ at = "forcing_limit" /\ at' \in {"done", "forcing"}
        \/ at \in {"forcing", "late_forcing"} /\ at' = "done"
    BY <1>9 DEF ForceAtLimit, ForceAtEnd, ForceAfterTimeout
  <2>. QED
    BY <1>1, <1>2, <2>1, LeftAt
<1>10. CASE OverallTimeout
  <2>1. at \in {"planning", "tool", "forcing_limit", "forcing"} /\ at' = "late_forcing"
    BY <1>10 DEF OverallTimeout, Awaiting
  <2>2. \/ StepsLeft = Iterations(iteration) + ToolAttempts + 6
        \/ StepsLeft = Iterations(iteration) + (ToolAttempts - attempt) + 6
        \/ StepsLeft = 3 \/ StepsLeft = 2
    BY <1>1, <1>2, <2>1, LeftAt
  <2>3. StepsLeft' = 1
    BY <1>1, <1>2, <2>1, LeftAt
  <2>. QED
    BY <1>4, <2>2, <2>3
<1>. QED
  BY <1>3, <1>5, <1>6, <1>7, <1>8, <1>9, <1>10 DEF LoopNext, Finish

\* A run takes no more steps than it has left at first: MaxIter iterations of a beginning, a plan
\* and the attempts of a tool, and five at its end, whatever the model answers and whichever calls
\* fail.  This is why it ends once its calls do.
THEOREM RunsAreBounded ==
  LoopSpec => [](StepsLeft \in 0 .. Iterations(0) + 5) /\ [][StepsLeft' < StepsLeft]_loopVars
<1>. DEFINE Bounded == StepsLeft \in 0 .. Iterations(0) + 5
<1>0. Iterations(0) \in Nat
  BY IterationsShrink, LoopAssumption
<1>1. LoopInit => Bounded
  <2>. SUFFICES ASSUME LoopInit PROVE Bounded
    OBVIOUS
  <2>1. StepsLeft = Iterations(0) + 5
    BY LoopAssumption, LeftAt DEF LoopInit, StepsLeft, Stages
  <2>. QED
    BY <1>0, <2>1
<1>2. LoopIInv /\ LoopIInv' /\ [LoopNext]_loopVars => [StepsLeft' < StepsLeft]_loopVars
  BY StepsShrink
<1>3. LoopIInv /\ LoopIInv' /\ Bounded /\ [LoopNext]_loopVars => Bounded'
  <2>. SUFFICES ASSUME LoopIInv, LoopIInv', Bounded, [LoopNext]_loopVars PROVE Bounded'
    OBVIOUS
  <2>1. CASE LoopNext
    BY <1>0, <2>1, StepsShrink
  <2>2. CASE UNCHANGED loopVars
    BY <2>2 DEF loopVars, StepsLeft
  <2>. QED
    BY <2>1, <2>2
<1>. QED
  BY <1>1, <1>2, <1>3, LoopInvariance, PTL DEF LoopSpec

-----------------------------------------------------------------------------
(* A run of the agent is what TaskLifecycle calls a run.                   *)

\* What _run_agent has made of its task, when nobody cancels it: the record is written in the
\* step in which the loop returns or raises, or the output is formatted after the timeout.
StatusShown ==
  CASE at = "done"   -> IF fatal THEN "failed" ELSE "completed"
    [] at = "raised" -> "failed"
    [] OTHER         -> "running"

ErrorShown ==
  CASE at = "done" /\ fatal -> "fatal_error"
    [] at = "raised"        -> "exception"
    [] OTHER                -> "none"

StageShown == IF Ended THEN "ended" ELSE IF at = "late_forcing" THEN "formatting" ELSE "looping"

\* The service with one task and its first run.
Task == INSTANCE TaskLifecycle WITH
  Tasks <- {"task"}, MaxRuns <- 1,
  status <- [t \in {"task"} |-> StatusShown],
  errorMessage <- [t \in {"task"} |-> ErrorShown],
  completedAt <- [t \in {"task"} |-> Ended],
  runs <- [t \in {"task"} |-> 1],
  pc <- [t \in {"task"} |-> [n \in 1 .. 1 |-> StageShown]],
  outputs <- [t \in {"task"} |-> IF at = "done" THEN 1 ELSE 0]

\* Records of one task, and of its one run, are what is written last.
LEMMA OneRecord ==
  ASSUME NEW x, NEW y
  PROVE  /\ [t \in {"task"} |-> x]["task"] = x
         /\ [[t \in {"task"} |-> x] EXCEPT !["task"] = y] = [t \in {"task"} |-> y]
OBVIOUS

LEMMA OneStage ==
  ASSUME NEW x, NEW y
  PROVE  /\ [t \in {"task"} |-> [n \in 1 .. 1 |-> x]]["task"][1] = x
         /\ [[t \in {"task"} |-> [n \in 1 .. 1 |-> x]] EXCEPT !["task"][1] = y]
              = [t \in {"task"} |-> [n \in 1 .. 1 |-> y]]
<1>1. [n \in 1 .. 1 |-> x][1] = x /\ [[n \in 1 .. 1 |-> x] EXCEPT ![1] = y] = [n \in 1 .. 1 |-> y]
  OBVIOUS
<1>. QED
  BY <1>1

\* What each step of the loop shows of the task.
LEMMA LoopShows ==
  ASSUME LoopTypeOK, LoopNext
  PROVE  \/ UNCHANGED <<StatusShown, ErrorShown, Ended, StageShown, at = "done">>
         \/ StageShown = "looping" /\ at' = "done" /\ fatal' \in BOOLEAN
         \/ StageShown = "looping" /\ at' = "raised" /\ at # "done"
         \/ StageShown = "looping" /\ at' = "late_forcing" /\ at # "done"
         \/ StageShown = "formatting" /\ at' = "done" /\ fatal' \in BOOLEAN
<1>. USE DEF StageShown, StatusShown, ErrorShown, Ended, LoopTypeOK
<1>1. CASE BeginIteration
  BY <1>1 DEF BeginIteration
<1>2. CASE Plan
  BY <1>2 DEF Plan, PlanFails, PlanEmpty, PlanRaises, PlanFinish, PlanUnknownTool, PlanTool
<1>3. CASE Tool
  BY <1>3 DEF Tool, ToolWorks, ToolSwallowsError, AttemptFails, ToolSkipped, CallRecorded
<1>4. CASE LeaveLoop
  BY <1>4 DEF LeaveLoop, planVars
<1>5. CASE ForceAtLimit \/ ForceAtEnd \/ ForceAfterTimeout
  BY <1>5 DEF ForceAtLimit, ForceAtEnd, ForceAfterTimeout, ForceOutput, planVars
<1>6. CASE OverallTimeout
  BY <1>6 DEF OverallTimeout, Awaiting
<1>. QED
  BY <1>1, <1>2, <1>3, <1>4, <1>5, <1>6 DEF LoopNext, Finish

\* A step of the loop is a step of the run, or shows nothing.
LEMMA LoopStepsTask ==
  ASSUME LoopTypeOK, [LoopNext]_loopVars
  PROVE  [Task!RunStep("task", 1)]_(Task!vars)
<1>1. CASE UNCHANGED <<StatusShown, ErrorShown, Ended, StageShown, at = "done">>
  BY <1>1 DEF Task!vars
<1>2. CASE UNCHANGED loopVars
  <2>1. UNCHANGED <<StatusShown, ErrorShown, Ended, StageShown, at = "done">>
    BY <1>2 DEF loopVars, StatusShown, ErrorShown, Ended, StageShown
  <2>. QED
    BY <1>1, <2>1
<1>3. ASSUME StageShown \in {"looping", "formatting"}, at' = "done", fatal' \in BOOLEAN
      PROVE  Task!Settle("task", 1, fatal')
  <2>1. at # "done" /\ at # "raised"
    BY <1>3 DEF StageShown, Ended
  <2>2. ErrorShown = "none" /\ StageShown' = "ended" /\ Ended'
    BY <1>3, <2>1 DEF ErrorShown, StageShown, Ended
  <2>3. /\ StatusShown' = IF fatal' THEN "failed" ELSE "completed"
        /\ ErrorShown' = IF fatal' THEN "fatal_error" ELSE "none"
    BY <1>3 DEF StatusShown, ErrorShown
  <2>. QED
    BY <1>3, <2>2, <2>3, OneRecord, OneStage DEF Task!Settle
<1>4. ASSUME StageShown = "looping", at' = "raised", at # "done"
      PROVE  Task!LoopRaises("task", 1)
  <2>1. StageShown' = "ended" /\ Ended' /\ StatusShown' = "failed" /\ ErrorShown' = "exception"
    BY <1>4 DEF StageShown, Ended, StatusShown, ErrorShown
  <2>. QED
    BY <1>4, <2>1, OneRecord, OneStage DEF Task!LoopRaises
<1>5. ASSUME StageShown = "looping", at' = "late_forcing", at # "done"
      PROVE  Task!LoopTimesOut("task", 1)
  <2>1. StageShown' = "formatting" /\ UNCHANGED <<StatusShown, ErrorShown, Ended>>
    BY <1>5 DEF StageShown, Ended, StatusShown, ErrorShown
  <2>. QED
    BY <1>5, <2>1, OneRecord, OneStage DEF Task!LoopTimesOut
<1>6. CASE StageShown = "looping" /\ at' = "done" /\ fatal' \in BOOLEAN
  <2>1. Task!Settle("task", 1, fatal')
    BY <1>3, <1>6
  <2>2. Task!LoopReturns("task", 1)
    BY <1>6, <2>1, OneStage DEF Task!LoopReturns
  <2>. QED
    BY <2>2 DEF Task!RunStep
<1>7. CASE StageShown = "formatting" /\ at' = "done" /\ fatal' \in BOOLEAN
  <2>1. Task!Settle("task", 1, fatal')
    BY <1>3, <1>7
  <2>2. Task!TimeoutFormatted("task", 1)
    BY <1>7, <2>1, OneStage DEF Task!TimeoutFormatted
  <2>. QED
    BY <2>2 DEF Task!RunStep
<1>. QED
  BY <1>1, <1>2, <1>4, <1>5, <1>6, <1>7, LoopShows DEF Task!RunStep

\* The agent loop with its timeout implements the run of TaskLifecycle: it starts as one that has
\* begun, and whatever it does, the task sees nothing or a step of _run_agent, with its one
\* ending: the output and fatal_error of the loop, an exception, or both after the timeout.
THEOREM LoopRunsTask ==
  LoopSpec => Task!HasStartedRun("task") /\ [][Task!RunStep("task", 1)]_(Task!vars)
<1>1. LoopInit => Task!HasStartedRun("task")
  BY OneStage DEF LoopInit, StageShown, Ended, Task!HasStartedRun, Task!RunIds, Task!Started
<1>2. LoopTypeOK /\ [LoopNext]_loopVars => [Task!RunStep("task", 1)]_(Task!vars)
  BY LoopStepsTask
<1>. QED
  BY <1>1, <1>2, LoopTypeCorrect, PTL DEF LoopSpec

-----------------------------------------------------------------------------
(* The router: its limits and its breakers. *)

\* The limits are natural numbers, and each error's limit is within MaxRetries.
LEMMA Limits ==
  /\ MaxRetries \in Nat /\ MaxAttempts \in Nat /\ MaxAttempts = MaxRetries + 2
  /\ \A e \in Errors : RetriesOf(e) \in Nat /\ RetriesOf(e) <= MaxRetries
BY RouterAssumption DEF MaxRetries, MaxAttempts, AtLeast, RetriesOf, Errors

\* What the operations of the breaker make of its record.
Breaker == [state : {"closed", "open", "half_open"}, failures : 0 .. Threshold,
            age : 0 .. Recovery]

\* They keep it well formed.
LEMMA BreakerTypes ==
  ASSUME NEW c \in Breaker
  PROVE  /\ StateRead(c) \in Breaker
         /\ RecordSuccess(c) \in Breaker
         /\ RecordFailure(c) \in Breaker
BY RouterAssumption DEF Breaker, StateRead, RecordSuccess, RecordFailure, Counted

\* A closed record is below the threshold.
BelowThreshold(c) == c.state = "closed" => c.failures < Threshold

\* Each operation of the breaker preserves that.
LEMMA BreakerBelowThreshold ==
  ASSUME NEW c \in Breaker, BelowThreshold(c)
  PROVE  /\ BelowThreshold(StateRead(c))
         /\ BelowThreshold(RecordSuccess(c))
         /\ BelowThreshold(RecordFailure(c))
BY RouterAssumption
   DEF Breaker, BelowThreshold, StateRead, RecordSuccess, RecordFailure, Counted

\* The inductive invariant.
IInv == TypeOK /\ AttemptBudget /\ ClosedBelowThreshold

\* The possible values of a request and of the reply to it.
Codes == {"none", "ok", "429", "500", "502", "503", "504"}

Record == [pc : {"replied", "calling", "backoff", "fallback"},
           model : Models, sensitivity : Sensitivities,
           attempts : 0 .. MaxAttempts, timeouts : 0 .. 1,
           error : Errors \cup {"none"}, reply : Codes]

\* The attempts a single request may have made, by what it is waiting for.
InBudget(q) ==
  /\ q.pc = "calling" => q.attempts <= MaxRetries + 1 + q.timeouts
  /\ q.pc = "backoff" => q.attempts <= MaxRetries + q.timeouts
  /\ q.pc = "fallback" => q.attempts <= MaxAttempts
  /\ q.pc = "replied" => q.attempts = 0

\* The invariant, one breaker and one request at a time.
Parts ==
  /\ breaker \in [Backends -> Breaker]
  /\ req \in [Requests -> Record]
  /\ \A b \in Backends : BelowThreshold(breaker[b])
  /\ \A r \in Requests : InBudget(req[r])

\* The two forms of the invariant agree.
LEMMA IInvByParts == IInv <=> Parts
BY DEF IInv, TypeOK, AttemptBudget, ClosedBelowThreshold, Parts, Breaker, Record, Codes,
       BelowThreshold, InBudget

\* A step that replaces at most one breaker and one request, by sound ones.
LEMMA Replacement ==
  ASSUME IInv, NEW r \in Requests, NEW q \in Record, InBudget(q),
         req' = [req EXCEPT ![r] = q],
         NEW b \in Backends, NEW c \in Breaker, BelowThreshold(c),
         breaker' = [breaker EXCEPT ![b] = c]
  PROVE  IInv'
<1>1. Parts
  BY IInvByParts
<1>2. /\ breaker' \in [Backends -> Breaker]
      /\ req' \in [Requests -> Record]
  BY <1>1 DEF Parts
<1>3. \A x \in Backends : BelowThreshold(breaker'[x])
  BY <1>1 DEF Parts
<1>4. \A x \in Requests : InBudget(req'[x])
  BY <1>1 DEF Parts
<1>5. Parts'
  BY <1>2, <1>3, <1>4 DEF Parts, Breaker, Record, Backends, BelowThreshold, InBudget
<1>6. (IInv <=> Parts)'
  BY IInvByParts, PTL
<1>. QED
  BY <1>5, <1>6

\* The same for a step that leaves the breakers alone.
LEMMA RequestReplacement ==
  ASSUME IInv, NEW r \in Requests, NEW q \in Record, InBudget(q),
         req' = [req EXCEPT ![r] = q], UNCHANGED breaker
  PROVE  IInv'
<1>1. Parts
  BY IInvByParts
<1>2. "local" \in Backends /\ breaker' = [breaker EXCEPT !["local"] = breaker["local"]]
  BY <1>1 DEF Parts, Backends
<1>3. breaker["local"] \in Breaker /\ BelowThreshold(breaker["local"])
  BY <1>1, <1>2 DEF Parts
<1>. QED
  BY <1>2, <1>3, Replacement

\* The records that the actions build are sound.
LEMMA IdleSound ==
  ASSUME NEW m \in Models, NEW s \in Sensitivities, NEW code \in Codes
  PROVE  Idle(m, s, code) \in Record /\ InBudget(Idle(m, s, code))
BY Limits DEF Idle, Record, InBudget

\* The invariant holds initially.
LEMMA InitIInv == Init => IInv
<1>. SUFFICES ASSUME Init PROVE Parts
  BY IInvByParts
<1>1. Idle("auto", "low", "ok") \in Record /\ InBudget(Idle("auto", "low", "ok"))
  BY IdleSound DEF Models, Sensitivities, Codes
<1>. QED
  BY <1>1, RouterAssumption DEF Init, Parts, Breaker, BelowThreshold

\* Every request is routed to one of the two backends.
LEMMA DecideType ==
  ASSUME NEW m \in Models, NEW s \in Sensitivities
  PROVE  Decide(m, s) \in Backends
BY DEF Decide, Models, Backends

\* An arriving request preserves it, admitted or not.
LEMMA ArrivalStep ==
  ASSUME IInv, NEW r \in Requests, Arrival(r)
  PROVE  IInv'
<1>1. Parts
  BY IInvByParts
<1>2. PICK m \in Models, s \in Sensitivities :
        Admitted(r, m, s) \/ FallsBackAtOnce(r, m, s) \/ Refused(r, m, s)
  BY DEF Arrival
<1>. DEFINE b == Decide(m, s)
            q(pc) == [pc |-> pc, model |-> m, sensitivity |-> s,
                      attempts |-> IF pc = "calling" THEN 1 ELSE 0, timeouts |-> 0,
                      error |-> "none", reply |-> "none"]
<1>3. b \in Backends
  BY DecideType
<1>4. \A pc \in {"calling", "fallback"} : q(pc) \in Record /\ InBudget(q(pc))
  BY Limits DEF Record, InBudget, Codes
<1>5. CASE Admitted(r, m, s)
  <2>1. StateRead(breaker[b]) \in Breaker /\ BelowThreshold(StateRead(breaker[b]))
    BY <1>1, <1>3, BreakerTypes, BreakerBelowThreshold DEF Parts
  <2>2. breaker' = [breaker EXCEPT ![b] = StateRead(breaker[b])]
    BY <1>5 DEF Admitted
  <2>3. req' = [req EXCEPT ![r] = q("calling")]
    BY <1>5 DEF Admitted, Arrives
  <2>. HIDE DEF b, q
  <2>. QED
    BY <1>3, <1>4, <2>1, <2>2, <2>3, Replacement
<1>6. CASE FallsBackAtOnce(r, m, s)
  <2>1. req' = [req EXCEPT ![r] = q("fallback")] /\ UNCHANGED breaker
    BY <1>6 DEF FallsBackAtOnce, Arrives
  <2>. HIDE DEF q
  <2>. QED
    BY <1>4, <2>1, RequestReplacement
<1>7. CASE Refused(r, m, s)
  <2>1. req' = [req EXCEPT ![r] = Idle(m, s, "503")] /\ UNCHANGED breaker
    BY <1>7 DEF Refused
  <2>. QED
    BY <2>1, IdleSound, RequestReplacement DEF Codes
<1>. QED
  BY <1>2, <1>5, <1>6, <1>7

\* A request that waits keeps its model and its sensitivity.
LEMMA GoesSound ==
  ASSUME IInv, NEW r \in Requests,
         NEW pc \in {"calling", "backoff", "fallback"}, NEW attempts \in 0 .. MaxAttempts,
         NEW timeouts \in 0 .. 1, NEW error \in Errors \cup {"none"},
         pc = "calling" => attempts <= MaxRetries + 1 + timeouts,
         pc = "backoff" => attempts <= MaxRetries + timeouts,
         Goes(r, pc, attempts, timeouts, error)
  PROVE  \E q \in Record : InBudget(q) /\ req' = [req EXCEPT ![r] = q]
<1>. DEFINE q == [pc |-> pc, model |-> req[r].model, sensitivity |-> req[r].sensitivity,
                  attempts |-> attempts, timeouts |-> timeouts, error |-> error,
                  reply |-> "none"]
<1>1. req[r] \in Record
  BY IInvByParts DEF Parts
<1>2. q \in Record
  BY <1>1 DEF Record, Codes
<1>3. InBudget(q)
  BY Limits DEF InBudget
<1>4. req' = [req EXCEPT ![r] = q]
  BY DEF Goes
<1>. QED
  BY <1>2, <1>3, <1>4

\* A reply to a request that is in progress.
LEMMA ReplySound ==
  ASSUME IInv, NEW r \in Requests, NEW code \in Codes, Reply(r, code)
  PROVE  \E q \in Record : InBudget(q) /\ req' = [req EXCEPT ![r] = q]
<1>1. req[r].model \in Models /\ req[r].sensitivity \in Sensitivities
  BY IInvByParts DEF Parts, Record
<1>. QED
  BY <1>1, IdleSound DEF Reply

\* A result that is reported to a breaker leaves it sound.
LEMMA ReportedSound ==
  ASSUME IInv, NEW b \in Backends,
         \/ breaker' = [breaker EXCEPT ![b] = RecordSuccess(breaker[b])]
         \/ breaker' = [breaker EXCEPT ![b] = RecordFailure(breaker[b])]
  PROVE  \E c \in Breaker : BelowThreshold(c) /\ breaker' = [breaker EXCEPT ![b] = c]
BY IInvByParts, BreakerTypes, BreakerBelowThreshold DEF Parts

\* Both kinds of change at once.
LEMMA ContinueByParts ==
  ASSUME IInv, NEW r \in Requests, NEW b \in Backends,
         \E q \in Record : InBudget(q) /\ req' = [req EXCEPT ![r] = q],
         \/ UNCHANGED breaker
         \/ \E c \in Breaker : BelowThreshold(c) /\ breaker' = [breaker EXCEPT ![b] = c]
  PROVE  IInv'
BY Replacement, RequestReplacement

\* What becomes of a call, a sleep or a fallback preserves it.
LEMMA ContinueStep ==
  ASSUME IInv, NEW r \in Requests, Continue(r)
  PROVE  IInv'
<1>1. req[r] \in Record /\ InBudget(req[r])
  BY IInvByParts DEF Parts
<1>2. BackendOf(r) \in Backends
  BY <1>1, DecideType DEF BackendOf, Record
<1>3. "local" \in Backends
  BY DEF Backends
<1>4. /\ req[r].attempts \in 0 .. MaxAttempts /\ req[r].timeouts \in 0 .. 1
      /\ req[r].error \in Errors \cup {"none"}
  BY <1>1 DEF Record
<1>5. CASE Succeeded(r)
  <2>1. Reply(r, "ok") /\ "ok" \in Codes
    BY <1>5 DEF Succeeded, Codes
  <2>2. breaker' = [breaker EXCEPT ![BackendOf(r)] = RecordSuccess(breaker[BackendOf(r)])]
    BY <1>5 DEF Succeeded
  <2>. QED
    BY <1>2, <2>1, <2>2, ReplySound, ReportedSound, ContinueByParts
<1>6. CASE FirstTimeout(r)
  <2>1. Goes(r, "backoff", req[r].attempts, 1, "none") /\ UNCHANGED breaker
    BY <1>6 DEF FirstTimeout
  <2>2. req[r].attempts <= MaxRetries + 1
    BY <1>1, <1>4, <1>6, Limits DEF FirstTimeout, InBudget
  <2>. QED
    BY <1>2, <1>4, <2>1, <2>2, GoesSound, ContinueByParts
<1>7. CASE SecondTimeout(r)
  <2>1. Reply(r, "504") /\ "504" \in Codes
    BY <1>7 DEF SecondTimeout, Codes
  <2>2. breaker' = [breaker EXCEPT ![BackendOf(r)] = RecordFailure(breaker[BackendOf(r)])]
    BY <1>7 DEF SecondTimeout
  <2>. QED
    BY <1>2, <2>1, <2>2, ReplySound, ReportedSound, ContinueByParts
<1>8. CASE Crashes(r)
  <2>1. Reply(r, "500") /\ "500" \in Codes /\ UNCHANGED breaker
    BY <1>8 DEF Crashes, Codes
  <2>. QED
    BY <1>2, <2>1, ReplySound, ContinueByParts
<1>9. ASSUME NEW e \in Errors, FailsAndBacksOff(r, e)
      PROVE  IInv'
  <2>1. Goes(r, "backoff", req[r].attempts, req[r].timeouts, e) /\ UNCHANGED breaker
    BY <1>9 DEF FailsAndBacksOff
  <2>2. req[r].attempts <= MaxRetries + req[r].timeouts
    BY <1>4, <1>9, Limits DEF FailsAndBacksOff
  <2>. QED
    BY <1>2, <1>4, <2>1, <2>2, GoesSound, ContinueByParts
<1>10. ASSUME NEW e \in Errors, FailsForGood(r, e)
       PROVE  IInv'
  <2>1. breaker' = [breaker EXCEPT ![BackendOf(r)] = RecordFailure(breaker[BackendOf(r)])]
    BY <1>10 DEF FailsForGood
  <2>2. CASE MayFallBack(req[r].model, req[r].sensitivity)
    <3>1. Goes(r, "fallback", req[r].attempts, req[r].timeouts, "none")
      BY <1>10, <2>2 DEF FailsForGood
    <3>. QED
      BY <1>2, <1>4, <2>1, <3>1, GoesSound, ReportedSound, ContinueByParts
  <2>3. CASE ~MayFallBack(req[r].model, req[r].sensitivity)
    <3>1. Reply(r, IF e = "rate_limit" THEN "429" ELSE "502")
      BY <1>10, <2>3 DEF FailsForGood
    <3>2. (IF e = "rate_limit" THEN "429" ELSE "502") \in Codes
      BY DEF Codes
    <3>. QED
      BY <1>2, <2>1, <3>1, <3>2, ReplySound, ReportedSound, ContinueByParts
  <2>. QED
    BY <2>2, <2>3
<1>11. CASE Retries(r)
  <2>1. Goes(r, "calling", req[r].attempts + 1, req[r].timeouts, "none") /\ UNCHANGED breaker
    BY <1>11 DEF Retries
  <2>2. req[r].attempts + 1 <= MaxRetries + 1 + req[r].timeouts
    BY <1>1, <1>4, <1>11, Limits DEF Retries, InBudget
  <2>3. req[r].attempts + 1 \in 0 .. MaxAttempts
    BY <1>4, <2>2, Limits
  <2>. QED
    BY <1>2, <1>4, <2>1, <2>2, <2>3, GoesSound, ContinueByParts
<1>12. CASE FallbackSucceeds(r)
  <2>1. Reply(r, "ok") /\ "ok" \in Codes
    BY <1>12 DEF FallbackSucceeds, Codes
  <2>2. breaker' = [breaker EXCEPT !["local"] = RecordSuccess(breaker["local"])]
    BY <1>12 DEF FallbackSucceeds
  <2>. QED
    BY <1>3, <2>1, <2>2, ReplySound, ReportedSound, ContinueByParts
<1>13. CASE FallbackFails(r)
  <2>1. Reply(r, "503") /\ "503" \in Codes
    BY <1>13 DEF FallbackFails, Codes
  <2>2. breaker' = [breaker EXCEPT !["local"] = RecordFailure(breaker["local"])]
    BY <1>13 DEF FallbackFails
  <2>. QED
    BY <1>3, <2>1, <2>2, ReplySound, ReportedSound, ContinueByParts
<1>. QED
  BY <1>5, <1>6, <1>7, <1>8, <1>9, <1>10, <1>11, <1>12, <1>13 DEF Continue

\* Time only ages the open breakers.
LEMMA TickStep ==
  ASSUME IInv, Tick
  PROVE  IInv'
<1>1. Parts
  BY IInvByParts
<1>. DEFINE aged(b) == IF breaker[b].state = "open" /\ breaker[b].age < Recovery
                       THEN [breaker[b] EXCEPT !.age = @ + 1] ELSE breaker[b]
<1>2. breaker' = [b \in Backends |-> aged(b)] /\ req' = req
  BY DEF Tick
<1>3. ASSUME NEW b \in Backends
      PROVE  aged(b) \in Breaker /\ BelowThreshold(aged(b))
  <2>1. breaker[b] \in Breaker /\ BelowThreshold(breaker[b])
    BY <1>1 DEF Parts
  <2>. QED
    BY <2>1, RouterAssumption DEF Breaker, BelowThreshold
<1>. HIDE DEF aged
<1>4. Parts'
  BY <1>1, <1>2, <1>3 DEF Parts, Backends, Breaker, Record, BelowThreshold, InBudget
<1>5. (IInv <=> Parts)'
  BY IInvByParts, PTL
<1>. QED
  BY <1>4, <1>5

\* Time, arrivals, continuations and stuttering are all the steps there are.
LEMMA IInvStep == IInv /\ [Next]_vars => IInv'
<1>. SUFFICES ASSUME IInv, [Next]_vars PROVE IInv'
  OBVIOUS
<1>1. CASE Tick
  BY <1>1, TickStep
<1>2. ASSUME NEW r \in Requests, Arrival(r) PROVE IInv'
  BY <1>2, ArrivalStep
<1>3. ASSUME NEW r \in Requests, Continue(r) PROVE IInv'
  BY <1>3, ContinueStep
<1>4. CASE UNCHANGED vars
  BY <1>4 DEF vars, IInv, TypeOK, AttemptBudget, ClosedBelowThreshold
<1>. QED
  BY <1>1, <1>2, <1>3, <1>4 DEF Next

-----------------------------------------------------------------------------
(* The theorems about the router. *)

\* The inductive invariant holds in every reachable state.
THEOREM Invariance == Spec => []IInv
BY InitIInv, IInvStep, PTL DEF Spec

\* Every variable keeps its type.
THEOREM TypeCorrect == Spec => []TypeOK
<1>1. IInv => TypeOK
  BY DEF IInv
<1>. QED
  BY <1>1, Invariance, PTL

\* No request makes more attempts than the larger retry limit plus two.
THEOREM AttemptsAreBounded == Spec => []AttemptsBounded
<1>1. IInv => AttemptsBounded
  <2>. SUFFICES ASSUME IInv, NEW r \in Requests PROVE req[r].attempts <= MaxAttempts
    BY DEF AttemptsBounded
  <2>1. req[r] \in Record /\ InBudget(req[r])
    BY IInvByParts DEF Parts
  <2>. QED
    BY <2>1, Limits DEF Record, InBudget
<1>. QED
  BY <1>1, Invariance, PTL

\* A closed breaker has fewer failures on record than its threshold.
THEOREM ClosedStaysBelowThreshold == Spec => []ClosedBelowThreshold
<1>1. IInv => ClosedBelowThreshold
  BY DEF IInv
<1>. QED
  BY <1>1, Invariance, PTL

\* The state follows the arrows, or stays.
Along(c, d) == d.state # c.state => <<c.state, d.state>> \in Arrows

\* Each operation of the breaker follows them, whatever the record.  A
\* recorded failure opens a closed breaker or a half-open one only: an open
\* one stays open.
LEMMA BreakerAlong ==
  ASSUME NEW c \in Breaker
  PROVE  Along(c, StateRead(c)) /\ Along(c, RecordSuccess(c)) /\ Along(c, RecordFailure(c))
BY DEF Breaker, Along, Arrows, StateRead, RecordSuccess, RecordFailure

\* What a step of a request does to the breakers.
LEMMA OneOperation ==
  ASSUME IInv, NEW r \in Requests, Arrival(r) \/ Continue(r)
  PROVE  \/ UNCHANGED breaker
         \/ \E b \in Backends, c \in Breaker :
              breaker' = [breaker EXCEPT ![b] = c] /\ Along(breaker[b], c)
<1>1. breaker \in [Backends -> Breaker] /\ req[r] \in Record
  BY IInvByParts DEF Parts
<1>2. \A b \in Backends :
        /\ StateRead(breaker[b]) \in Breaker /\ Along(breaker[b], StateRead(breaker[b]))
        /\ RecordSuccess(breaker[b]) \in Breaker /\ Along(breaker[b], RecordSuccess(breaker[b]))
        /\ RecordFailure(breaker[b]) \in Breaker /\ Along(breaker[b], RecordFailure(breaker[b]))
  BY <1>1, BreakerTypes, BreakerAlong
<1>3. BackendOf(r) \in Backends /\ "local" \in Backends
  BY <1>1, DecideType DEF BackendOf, Record, Backends
<1>4. CASE Arrival(r)
  <2>1. PICK m \in Models, s \in Sensitivities :
          Admitted(r, m, s) \/ FallsBackAtOnce(r, m, s) \/ Refused(r, m, s)
    BY <1>4 DEF Arrival
  <2>2. \/ UNCHANGED breaker
        \/ breaker' = [breaker EXCEPT ![Decide(m, s)] = StateRead(breaker[Decide(m, s)])]
    BY <2>1 DEF Admitted, FallsBackAtOnce, Refused
  <2>3. Decide(m, s) \in Backends
    BY DecideType
  <2>. QED
    BY <1>2, <2>2, <2>3
<1>5. CASE Continue(r)
  <2>1. \/ UNCHANGED breaker
        \/ \E b \in {BackendOf(r), "local"} :
             \/ breaker' = [breaker EXCEPT ![b] = RecordSuccess(breaker[b])]
             \/ breaker' = [breaker EXCEPT ![b] = RecordFailure(breaker[b])]
    BY <1>5 DEF Continue, Succeeded, FirstTimeout, SecondTimeout, Crashes, FailsAndBacksOff,
                FailsForGood, Retries, FallbackSucceeds, FallbackFails
  <2>. QED
    BY <1>2, <1>3, <2>1
<1>. QED
  BY <1>4, <1>5

\* Breakers change along the arrows only, late results included.
THEOREM AutomatonIsFollowed == Spec => FollowsAutomaton
<1>. DEFINE A == \A b \in Backends :
       breaker'[b].state # breaker[b].state => <<breaker[b].state, breaker'[b].state>> \in Arrows
<1>1. ASSUME IInv, [Next]_vars
      PROVE  [A]_vars
  <2>1. breaker \in [Backends -> Breaker]
    BY <1>1, IInvByParts DEF Parts
  <2>2. CASE Tick
    BY <2>1, <2>2 DEF Tick, Breaker
  <2>3. ASSUME NEW r \in Requests, Arrival(r) \/ Continue(r)
        PROVE  A
    BY <1>1, <2>1, <2>3, OneOperation DEF Along
  <2>4. CASE UNCHANGED vars
    BY <2>4
  <2>. QED
    BY <1>1, <2>2, <2>3, <2>4 DEF Next
<1>. QED
  BY <1>1, Invariance, PTL DEF Spec, FollowsAutomaton

=============================================================================
