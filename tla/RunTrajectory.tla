--------------------------- MODULE RunTrajectory ---------------------------
(***************************************************************************)
(* What the event log of a run tells: the events each step of AgentRuntime *)
(* emits, in the order of the code, and the trajectory                     *)
(* trajectoryFromEvents (src/agent/runtime/trajectory.ts) makes of them,   *)
(* kept as the log grows.  An event carries the fields the trajectory      *)
(* reads; events it does not read are left out.                            *)
(***************************************************************************)
EXTENDS AgentRuntimeProperties, SequencesExt

VARIABLE trajectory

EventType == {"TOOL_SELECTED", "TOOL_COMPLETED", "TOOL_FAILED",
              "EVALUATION_COMPLETED", "RETRY_STARTED", "STRATEGY_CHANGED",
              "MEMORY_WRITTEN", "MODEL_CALL_COMPLETED", "MODEL_CALL_FAILED",
              "GOAL_COMPLETED", "GOAL_FAILED", "RUN_LIMIT_REACHED"}

NoActionId == 0

Event(type) == [type |-> type]

\* Events that are correlated with an action; about: what the payload says.
ActionEvent(type, actionId, about) ==
  [type |-> type, actionId |-> actionId, about |-> about]

TrajectoryStep == [taskId : Nat, actionId : Nat,
                   toolStatus : {"none", "ok", "error"},
                   verdict : OutcomeVerdict \cup {"none"}]

Trajectory == [steps : Seq(TrajectoryStep), retries : Nat,
               strategyChanges : Nat, memoryWrites : Nat, modelCalls : Nat,
               finalStatus : {"none", "completed", "failed", "limit_reached"}]

EmptyTrajectory == [steps |-> << >>, retries |-> 0, strategyChanges |-> 0,
                    memoryWrites |-> 0, modelCalls |-> 0,
                    finalStatus |-> "none"]

-----------------------------------------------------------------------------
(* trajectoryFromEvents. *)

\* stepFor: the last step of the action, 0 for undefined.
StepFor(steps, actionId) ==
  IF actionId = NoActionId THEN 0
  ELSE SelectLastInSeq(steps, LAMBDA step : step.actionId = actionId)

WithToolStatus(steps, event, toolStatus) ==
  LET i == StepFor(steps, event.actionId)
  IN  IF i = 0 THEN steps ELSE [steps EXCEPT ![i].toolStatus = toolStatus]

\* Mutant: the verdict of the claim replaces that of the step.
WithVerdict_Replaces(steps, event) ==
  LET own == StepFor(steps, event.actionId)
      i == IF own # 0 THEN own ELSE Len(steps)
  IN  IF i = 0 THEN steps ELSE [steps EXCEPT ![i].verdict = event.about]

\* An evaluation without an action, that of a finish claim, is told by the
\* last step, but only if that step has no evaluation of its own.
WithVerdict(steps, event) ==
  LET own == StepFor(steps, event.actionId)
      i == IF own # 0 THEN own ELSE Len(steps)
  IN  IF i = 0 \/ steps[i].verdict # "none" THEN steps
      ELSE [steps EXCEPT ![i].verdict = event.about]

FinalStatus(type) ==
  CASE type = "GOAL_COMPLETED" -> "completed"
    [] type = "GOAL_FAILED" -> "failed"
    [] type = "RUN_LIMIT_REACHED" -> "limit_reached"

\* One turn of the loop over the events.
Told(t, event) ==
  CASE event.type = "TOOL_SELECTED" ->
         [t EXCEPT !.steps = Append(@, [taskId |-> event.about,
                                        actionId |-> event.actionId,
                                        toolStatus |-> "none",
                                        verdict |-> "none"])]
    [] event.type = "TOOL_COMPLETED" ->
         [t EXCEPT !.steps = WithToolStatus(@, event, "ok")]
    [] event.type = "TOOL_FAILED" ->
         [t EXCEPT !.steps = WithToolStatus(@, event, "error")]
    [] event.type = "EVALUATION_COMPLETED" ->
         [t EXCEPT !.steps = WithVerdict(@, event)]
    [] event.type = "RETRY_STARTED" -> [t EXCEPT !.retries = @ + 1]
    [] event.type = "STRATEGY_CHANGED" -> [t EXCEPT !.strategyChanges = @ + 1]
    [] event.type = "MEMORY_WRITTEN" -> [t EXCEPT !.memoryWrites = @ + 1]
    [] event.type \in {"MODEL_CALL_COMPLETED", "MODEL_CALL_FAILED"} ->
         [t EXCEPT !.modelCalls = @ + 1]
    [] OTHER -> [t EXCEPT !.finalStatus = FinalStatus(event.type)]

\* The loop over the events.
ToldAll(t, events) ==
  LET told[i \in 0 .. Len(events)] ==
        IF i = 0 THEN t ELSE Told(told[i - 1], events[i])
  IN  told[Len(events)]

-----------------------------------------------------------------------------
(* The events of each step. *)

\* The terminal event a step announces comes last; a GOAL_FAILED has a cause.
TerminalEvent(announced) ==
  Event(IF announced \in {"GOAL_FAILED:gave_up", "GOAL_FAILED:unrecoverable"}
          THEN "GOAL_FAILED" ELSE announced)

Announced ==
  [i \in 1 .. Len(terminal') - Len(terminal) |->
     TerminalEvent(terminal'[Len(terminal) + i])]

Emits(events) == trajectory' = ToldAll(trajectory, events \o Announced)

\* A request announces every call it makes and how it ended; all but the last
\* of a request that is retried or asked again may have failed too, which the
\* count of the trajectory does not tell apart.
ModelCalls(calls) == [i \in 1 .. calls |-> Event("MODEL_CALL_COMPLETED")]

\* attempt() up to the executor's await.
Selected(calls) ==
  ModelCalls(calls)
    \o (IF AttemptsOn(task) = {} THEN << >> ELSE << Event("RETRY_STARTED") >>)
    \o << ActionEvent("TOOL_SELECTED", usage.toolCalls + 1, task) >>

ToolEnded(result) ==
  << ActionEvent(IF result = "ok" THEN "TOOL_COMPLETED" ELSE "TOOL_FAILED",
                 usage.toolCalls, result) >>

Evaluated(actionId, verdict) ==
  << ActionEvent("EVALUATION_COMPLETED", actionId, verdict) >>

Revised(calls, strategyChanged) ==
  ModelCalls(calls)
    \o (IF strategyChanged THEN << Event("STRATEGY_CHANGED") >> ELSE << >>)

TrajectoryInit == Init /\ trajectory = EmptyTrajectory

Silent == (Start \/ BeginIteration) /\ UNCHANGED trajectory

Ends == (StopAtLimit \/ CompleteWhenNoTaskLeft) /\ Emits(<< >>)

MemoryTold ==
  \E calls \in EmbeddingCalls :
    \/ RetrieveMemory(calls) /\ Emits(ModelCalls(calls))
    \/ /\ WriteRecord(calls)
       /\ Emits(Append(ModelCalls(calls), Event("MEMORY_WRITTEN")))
    \/ EnvironmentThrows(calls) /\ Emits(ModelCalls(calls))

ModelTold ==
  \E calls \in 1 .. CallsPerRequest :
    \/ /\ \/ \E proposals \in Proposals(<< >>) :
               CreateInitialPlan(calls, proposals)
          \/ SelectGiveUp(calls)
          \/ SelectFinish(calls)
          \/ ModelRequestThrows(calls)
       /\ Emits(ModelCalls(calls))
    \/ SelectAct(calls) /\ Emits(Selected(calls))
    \/ \E proposals \in Proposals(plan.tasks), strategyChanged \in BOOLEAN :
         /\ RevisePlan(calls, proposals, strategyChanged)
         /\ Emits(Revised(calls, strategyChanged))

ToolTold ==
  \E result \in {"ok", "error"} : Observe(result) /\ Emits(ToolEnded(result))

EvaluatorTold ==
  \E verdict \in Verdicts :
    \/ /\ \E ingested \in BOOLEAN : Evaluate(verdict, ingested)
       /\ Emits(Evaluated(usage.toolCalls, verdict))
    \/ /\ AcceptClaim(verdict) \/ RejectClaim(verdict)
       /\ Emits(Evaluated(NoActionId, verdict))

TrajectoryNext ==
  Silent \/ Ends \/ MemoryTold \/ ModelTold \/ ToolTold \/ EvaluatorTold

TrajectorySpec ==
  TrajectoryInit /\ [][TrajectoryNext]_<< vars, trajectory >>

-----------------------------------------------------------------------------

FinalStatusOf(s) ==
  CASE s \in {"created", "running"} -> "none"
    [] s = "gave_up" -> "failed"
    [] OTHER -> s

\* The log of a run, also of one that was cut short, tells the run as it was
\* (trajectory.ts): its final status, its counts, and for every tool call the
\* task it was made for, how the tool ended and the verdict on it, never that
\* of another attempt or of a finish claim.  Knowledge was read by a tool call
\* the log tells to have succeeded.
LogTellsRun ==
  /\ trajectory \in Trajectory
  /\ trajectory.finalStatus = FinalStatusOf(status)
  /\ trajectory.retries = usage.retries
  /\ trajectory.strategyChanges = usage.strategyChanges
  /\ plan.version > 0 => plan.strategy = 1 + trajectory.strategyChanges
  /\ trajectory.memoryWrites = Len(written)
  /\ trajectory.modelCalls = usage.modelCalls
  /\ Len(trajectory.steps) = usage.toolCalls
  /\ \A i \in DOMAIN attempts :
       LET step == trajectory.steps[attempts[i].action]
       IN  /\ step.taskId = attempts[i].task
           /\ step.verdict = attempts[i].verdict
           /\ step.toolStatus # "none"
  /\ \A i \in DOMAIN trajectory.steps :
       trajectory.steps[i].verdict # "none" =>
         \E a \in DOMAIN attempts :
           attempts[a].action = trajectory.steps[i].actionId
  /\ \A k \in DOMAIN written :
       written[k].kind = "knowledge" =>
         trajectory.steps[written[k].action].toolStatus = "ok"
=============================================================================
