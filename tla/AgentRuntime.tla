---------------------------- MODULE AgentRuntime ----------------------------
(***************************************************************************)
(* The autonomous control loop of src/agent/runtime/agent-runtime.ts with  *)
(* the run session it drives, composed with the default components of      *)
(* create-run.ts: ModelPlanner, ModelActionSelector, ToolExecutor and      *)
(* OutcomeLearner.  The model, the tools, the evaluator, the retriever and *)
(* the memory store are the environment: each answers in any way its       *)
(* contract allows, or throws.                                             *)
(*                                                                         *)
(* pc names the await the run is suspended at; one action is everything    *)
(* the code does from one await to the next.  The loop is sequential, so   *)
(* nothing else writes this state while it is suspended.                   *)
(***************************************************************************)
EXTENDS ModelPlanner

CONSTANTS
  MaxIterations,    \* RunLimits.maxIterations
  MaxToolCalls,     \* RunLimits.maxToolCalls
  MaxModelCalls,    \* RunLimits.maxModelCalls
  CallsPerRequest,  \* most model calls one request makes (ResilientModel)
  SemanticIndex,    \* whether memory is indexed by an embedding model
  MaxProposals,     \* bound: most tasks one proposal of the model names
  Verdicts          \* the verdicts the evaluator gives, of OutcomeVerdict

OutcomeVerdict == {"success", "partial", "failure", "inconclusive"}

ASSUME LimitsAssumption ==
  /\ MaxIterations \in Nat
  /\ MaxToolCalls \in Nat
  /\ MaxModelCalls \in Nat
  /\ CallsPerRequest \in Nat \ {0}
  /\ MaxProposals \in Nat \ {0}
  /\ SemanticIndex \in BOOLEAN

ASSUME VerdictsAssumption == Verdicts \subseteq OutcomeVerdict

VARIABLES
  pc,          \* the await the run is suspended at
  status,      \* RunSession.status
  terminal,    \* terminal events emitted so far, in order
  plan,        \* the current plan; version 0 stands for undefined
  lastTaskId,  \* the last task id the id generator handed out
  task,        \* the task of this iteration, NoTaskId outside one
  attempts,    \* every evaluated attempt, of every task, in order
  evaluation,  \* the verdict the run acts on, "none" before the first
  observed,    \* status of the last tool result, "none" before the first
  pending,     \* the memory records of this attempt still to be put
  written,     \* the records put into the memory store, in order
  lessons,     \* tasks of the lessons announced by LESSON_CREATED, in order
  usage        \* RunUsage; tokens and time are left to the environment

vars == << pc, status, terminal, plan, lastTaskId, task, attempts, evaluation,
           observed, pending, written, lessons, usage >>

RunStatus == {"created", "running", "completed", "gave_up", "failed",
              "limit_reached"}

\* An attempt keeps its action's number: the selector draws one action id
\* per tool call, so the count of tool calls identifies the action.
Attempt == [task : Nat, action : Nat, verdict : OutcomeVerdict]

\* outcome: the verdict of the attempt the record stems from.
MemoryRecord == [kind : {"decision", "experience", "knowledge", "lesson"},
                 task : Nat, action : Nat, outcome : OutcomeVerdict]

IsFinished == status \notin {"created", "running"}

Proposals(tasks) ==
  UNION {[1 .. n -> {NoTaskId} \cup {tasks[i].id : i \in DOMAIN tasks}] :
           n \in 1 .. MaxProposals}

RunUsage == [iterations : Nat, toolCalls : Nat, modelCalls : Nat,
             memoryReads : Nat, memoryWrites : Nat, retries : Nat,
             strategyChanges : Nat]

ZeroUsage == [iterations |-> 0, toolCalls |-> 0, modelCalls |-> 0,
              memoryReads |-> 0, memoryWrites |-> 0, retries |-> 0,
              strategyChanges |-> 0]

Init ==
  /\ pc = "constructed"
  /\ status = "created"
  /\ terminal = << >>
  /\ plan = [version |-> 0, strategy |-> 0, tasks |-> << >>]
  /\ lastTaskId = 0
  /\ task = NoTaskId
  /\ attempts = << >>
  /\ evaluation = "none"
  /\ observed = "none"
  /\ pending = << >>
  /\ written = << >>
  /\ lessons = << >>
  /\ usage = ZeroUsage

-----------------------------------------------------------------------------
(* Memory retrieval and the initial plan. *)

\* run() up to the first await: the session is running, the search begins.
Start ==
  /\ pc = "constructed"
  /\ pc' = "retrieving"
  /\ status' = "running"
  /\ UNCHANGED << terminal, plan, lastTaskId, task, attempts, evaluation,
                  observed, pending, written, lessons, usage >>

\* With a semantic index wired in (local-docker-run.ts), a search and a put
\* make one embedding call at most, and it counts as a model call.
EmbeddingCalls == IF SemanticIndex THEN 0 .. 1 ELSE {0}

RetrieveMemory(calls) ==
  /\ pc = "retrieving"
  /\ pc' = "planning"
  /\ usage' = [usage EXCEPT !.memoryReads = @ + 1, !.modelCalls = @ + calls]
  /\ UNCHANGED << status, terminal, plan, lastTaskId, task, attempts,
                  evaluation, observed, pending, written, lessons >>

\* Model requests count every call they make the moment it starts.
SpendModelCalls(n) == usage' = [usage EXCEPT !.modelCalls = @ + n]

CreateInitialPlan(calls, proposals) ==
  /\ pc = "planning"
  /\ pc' = "head"
  /\ plan' = [version |-> 1, strategy |-> 1,
              tasks |-> InitialTasks(proposals)]
  /\ lastTaskId' = FreshUpTo(<< >>, proposals, Len(proposals))
  /\ SpendModelCalls(calls)
  /\ UNCHANGED << status, terminal, task, attempts, evaluation, observed,
                  pending, written, lessons >>

-----------------------------------------------------------------------------
(* The head of the loop.  A limit is looked at before the plan is. *)

\* Mutant: a limit stops the run only once it is exceeded.
CountedLimitReached_Exceeded ==
  \/ usage.iterations > MaxIterations
  \/ usage.toolCalls > MaxToolCalls
  \/ usage.modelCalls > MaxModelCalls

CountedLimitReached ==
  \/ usage.iterations >= MaxIterations
  \/ usage.toolCalls >= MaxToolCalls
  \/ usage.modelCalls >= MaxModelCalls

\* maxTotalTokens and maxDurationMs depend on what the provider reports and
\* on the clock: either may be found reached at any head of the loop.
StopAtLimit ==
  /\ pc = "head"
  /\ \E meteredLimitReached \in BOOLEAN :
       CountedLimitReached \/ meteredLimitReached
  /\ pc' = "returned"
  /\ status' = "limit_reached"
  /\ terminal' = Append(terminal, "RUN_LIMIT_REACHED")
  /\ UNCHANGED << plan, lastTaskId, task, attempts, evaluation, observed,
                  pending, written, lessons, usage >>

CompleteGoal ==
  /\ pc' = "returned"
  /\ status' = "completed"
  /\ terminal' = Append(terminal, "GOAL_COMPLETED")
  /\ task' = NoTaskId

CompleteWhenNoTaskLeft ==
  /\ pc = "head"
  /\ ~ CountedLimitReached
  /\ Runnable(plan.tasks) = {}
  /\ CompleteGoal
  /\ UNCHANGED << plan, lastTaskId, attempts, evaluation, observed, pending,
                  written, lessons, usage >>

BeginIteration ==
  /\ pc = "head"
  /\ ~ CountedLimitReached
  /\ Runnable(plan.tasks) # {}
  /\ LET next == NextTask(plan.tasks)
     IN  /\ task' = next.id
         /\ plan' = IF next.status = "pending"
                      THEN [plan EXCEPT !.tasks =
                              WithTaskStatus(@, next.id, "in_progress")]
                      ELSE plan
  /\ usage' = [usage EXCEPT !.iterations = @ + 1]
  /\ pc' = "selecting"
  /\ UNCHANGED << status, terminal, lastTaskId, attempts, evaluation, observed,
                  pending, written, lessons >>

-----------------------------------------------------------------------------
(* One iteration: select, execute, evaluate, learn, write memory. *)

AttemptsOn(id) == {i \in DOMAIN attempts : attempts[i].task = id}

SelectGiveUp(calls) ==
  /\ pc = "selecting"
  /\ pc' = "returned"
  /\ status' = "gave_up"
  /\ terminal' = Append(terminal, "GOAL_FAILED:gave_up")
  /\ SpendModelCalls(calls)
  /\ UNCHANGED << plan, lastTaskId, task, attempts, evaluation, observed,
                  pending, written, lessons >>

SelectFinish(calls) ==
  /\ pc = "selecting"
  /\ pc' = "claiming"
  /\ SpendModelCalls(calls)
  /\ UNCHANGED << status, terminal, plan, lastTaskId, task, attempts,
                  evaluation, observed, pending, written, lessons >>

\* The selector sets retryOf exactly when the task was attempted before; the
\* executor counts the tool call before it invokes the tool.
SelectAct(calls) ==
  /\ pc = "selecting"
  /\ pc' = "executing"
  /\ usage' = [usage EXCEPT
                 !.modelCalls = @ + calls,
                 !.toolCalls = @ + 1,
                 !.retries = IF AttemptsOn(task) = {} THEN @ ELSE @ + 1]
  /\ UNCHANGED << status, terminal, plan, lastTaskId, task, attempts,
                  evaluation, observed, pending, written, lessons >>

\* A tool that fails is an observation like any other.
Observe(result) ==
  /\ pc = "executing"
  /\ pc' = "evaluating"
  /\ observed' = result
  /\ UNCHANGED << status, terminal, plan, lastTaskId, task, attempts,
                  evaluation, pending, written, lessons, usage >>

\* Mutant: the failure of any task counts as the contrast.
HasContrast_AnyTask(verdict) ==
  /\ verdict = "success"
  /\ \E i \in DOMAIN attempts : attempts[i].verdict # "success"

\* OutcomeLearner: a lesson needs a success after a failed attempt of the task.
HasContrast(verdict) ==
  /\ verdict = "success"
  /\ \E i \in AttemptsOn(task) : attempts[i].verdict # "success"

\* Mutant: knowledge read by an attempt takes the place of its experience.
RecordsOf_KnowledgeInstead(verdict, ingested) ==
  LET Record(kind) == [kind |-> kind, task |-> task,
                       action |-> usage.toolCalls, outcome |-> verdict]
  IN  << Record("decision"),
         Record(IF ingested THEN "knowledge" ELSE "experience") >>
      \o (IF HasContrast(verdict) THEN << Record("lesson") >> ELSE << >>)

\* The records of one attempt, in the order attempt() puts them.
RecordsOf(verdict, ingested) ==
  LET Record(kind) == [kind |-> kind, task |-> task,
                       action |-> usage.toolCalls, outcome |-> verdict]
  IN  << Record("decision"), Record("experience") >>
      \o (IF ingested THEN << Record("knowledge") >> ELSE << >>)
      \o (IF HasContrast(verdict) THEN << Record("lesson") >> ELSE << >>)

\* The verdict decides, whatever the tool reported.  Only the output of a
\* tool that succeeded can be ingested, and the ingestor may still refuse it.
Evaluate(verdict, ingested) ==
  /\ pc = "evaluating"
  /\ ingested => observed = "ok"
  /\ pc' = "writing"
  /\ evaluation' = verdict
  /\ attempts' = Append(attempts, [task |-> task, action |-> usage.toolCalls,
                                   verdict |-> verdict])
  /\ pending' = RecordsOf(verdict, ingested)
  /\ UNCHANGED << status, terminal, plan, lastTaskId, task, observed, written,
                  lessons, usage >>

\* One put succeeds.  What follows it up to the next await belongs to the
\* step: the next lesson is announced before it is put, and after the last
\* record the task is completed or the failure is handed to the planner.
WriteRecord(calls) ==
  /\ pc = "writing"
  /\ written' = Append(written, Head(pending))
  /\ usage' = [usage EXCEPT !.memoryWrites = @ + 1, !.modelCalls = @ + calls]
  /\ pending' = Tail(pending)
  /\ lessons' = IF Len(pending) > 1 /\ pending[2].kind = "lesson"
                  THEN Append(lessons, pending[2].task)
                  ELSE lessons
  /\ \/ /\ Len(pending) > 1
        /\ UNCHANGED << pc, plan >>
     \/ /\ Len(pending) = 1
        /\ evaluation = "success"
        /\ plan' = [plan EXCEPT !.tasks = WithTaskStatus(@, task, "completed")]
        /\ pc' = "head"
     \/ /\ Len(pending) = 1
        /\ evaluation # "success"
        /\ pc' = "revising"
        /\ UNCHANGED plan
  /\ UNCHANGED << status, terminal, lastTaskId, task, attempts, evaluation,
                  observed >>

-----------------------------------------------------------------------------
(* A claim that the goal is done, and the handling of a failure. *)

\* Mutant: the run is completed, and the loop goes on to find no task left.
AcceptClaim_LoopsOn(verdict) ==
  /\ pc = "claiming"
  /\ verdict = "success"
  /\ evaluation' = verdict
  /\ plan' = [plan EXCEPT !.tasks = WithRemainingTasksSkipped(@)]
  /\ pc' = "head"
  /\ status' = "completed"
  /\ terminal' = Append(terminal, "GOAL_COMPLETED")
  /\ task' = NoTaskId
  /\ UNCHANGED << lastTaskId, attempts, observed, pending, written, lessons,
                  usage >>

AcceptClaim(verdict) ==
  /\ pc = "claiming"
  /\ verdict = "success"
  /\ evaluation' = verdict
  /\ plan' = [plan EXCEPT !.tasks = WithRemainingTasksSkipped(@)]
  /\ CompleteGoal
  /\ UNCHANGED << lastTaskId, attempts, observed, pending, written, lessons,
                  usage >>

RejectClaim(verdict) ==
  /\ pc = "claiming"
  /\ verdict # "success"
  /\ evaluation' = verdict
  /\ pc' = "revising"
  /\ UNCHANGED << status, terminal, plan, lastTaskId, task, attempts, observed,
                  pending, written, lessons, usage >>

RevisePlan(calls, proposals, strategyChanged) ==
  /\ pc = "revising"
  /\ pc' = "head"
  /\ plan' = [version |-> plan.version + 1,
              strategy |-> IF strategyChanged THEN plan.strategy + 1
                                              ELSE plan.strategy,
              tasks |-> RevisedTasks(plan.tasks, proposals, lastTaskId)]
  /\ lastTaskId' = lastTaskId + FreshUpTo(plan.tasks, proposals, Len(proposals))
  /\ usage' = [usage EXCEPT
                 !.modelCalls = @ + calls,
                 !.strategyChanges = IF strategyChanged THEN @ + 1 ELSE @]
  /\ UNCHANGED << status, terminal, task, attempts, evaluation, observed,
                  pending, written, lessons >>

-----------------------------------------------------------------------------
(* An await that throws ends in the catch block of run(). *)

\* Mutant: the failure is announced but the session is never finished.
Catch_Unfinished ==
  /\ pc' = "returned"
  /\ terminal' = Append(terminal, "GOAL_FAILED:unrecoverable")
  /\ UNCHANGED status

Catch ==
  /\ pc' = "returned"
  /\ IF IsFinished
       THEN UNCHANGED << status, terminal >>
       ELSE /\ status' = "failed"
            /\ terminal' = Append(terminal, "GOAL_FAILED:unrecoverable")

\* A model request that fails has spent its calls all the same.
ModelRequestThrows(calls) ==
  /\ pc \in {"planning", "selecting", "revising"}
  /\ SpendModelCalls(calls)
  /\ Catch
  /\ UNCHANGED << plan, lastTaskId, task, attempts, evaluation, observed,
                  pending, written, lessons >>

\* Retriever or precondition probe, evaluator, memory store; the executor turns
\* every failure of a tool into an observation.  A put that throws has stored
\* and embedded nothing, and the records behind it are given up.
EnvironmentThrows(calls) ==
  /\ pc \in {"retrieving", "evaluating", "writing", "claiming"}
  /\ calls > 0 => pc = "retrieving"
  /\ SpendModelCalls(calls)
  /\ Catch
  /\ UNCHANGED << plan, lastTaskId, task, attempts, evaluation, observed,
                  pending, written, lessons >>

-----------------------------------------------------------------------------

MemoryStep ==
  \E calls \in EmbeddingCalls :
    \/ RetrieveMemory(calls)
    \/ WriteRecord(calls)
    \/ EnvironmentThrows(calls)

ModelStep ==
  \E calls \in 1 .. CallsPerRequest :
    \/ \E proposals \in Proposals(<< >>) : CreateInitialPlan(calls, proposals)
    \/ SelectGiveUp(calls)
    \/ SelectFinish(calls)
    \/ SelectAct(calls)
    \/ \E proposals \in Proposals(plan.tasks), strategyChanged \in BOOLEAN :
         RevisePlan(calls, proposals, strategyChanged)
    \/ ModelRequestThrows(calls)

EvaluatorStep ==
  \E verdict \in Verdicts :
    \/ \E ingested \in BOOLEAN : Evaluate(verdict, ingested)
    \/ AcceptClaim(verdict)
    \/ RejectClaim(verdict)

Next ==
  \/ Start
  \/ MemoryStep
  \/ StopAtLimit
  \/ CompleteWhenNoTaskLeft
  \/ BeginIteration
  \/ ModelStep
  \/ \E result \in {"ok", "error"} : Observe(result)
  \/ EvaluatorStep

Spec == Init /\ [][Next]_vars

\* Every await settles: model calls, commands and requests carry a timeout,
\* and the store and the evaluator are local.
FairSpec == Spec /\ WF_vars(Next)
=============================================================================
