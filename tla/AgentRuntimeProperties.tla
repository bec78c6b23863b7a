----------------------- MODULE AgentRuntimeProperties -----------------------
(***************************************************************************)
(* What makes the control loop of AgentRuntime correct.                    *)
(***************************************************************************)
EXTENDS AgentRuntime

-----------------------------------------------------------------------------
(* Types. *)

Awaits == {"retrieving", "planning", "selecting", "executing", "evaluating",
           "writing", "claiming", "revising"}

TerminalEvents == {"GOAL_COMPLETED", "GOAL_FAILED:gave_up",
                   "GOAL_FAILED:unrecoverable", "RUN_LIMIT_REACHED"}

\* The type invariant of the run: every variable has its type, and a record
\* is still to be put exactly while the run is suspended in writeRecord.
TypeOK ==
  /\ pc \in Awaits \cup {"constructed", "head", "returned"}
  /\ status \in RunStatus
  /\ terminal \in Seq(TerminalEvents)
  /\ plan \in [version : Nat, strategy : Nat, tasks : Seq(Task)]
  /\ lastTaskId \in Nat
  /\ task \in Nat
  /\ attempts \in Seq(Attempt)
  /\ evaluation \in OutcomeVerdict \cup {"none"}
  /\ observed \in {"none", "ok", "error"}
  /\ pending \in Seq(MemoryRecord)
  /\ pc = "writing" => pending # << >>
  /\ written \in Seq(MemoryRecord)
  /\ lessons \in Seq(Nat)
  /\ usage \in RunUsage

-----------------------------------------------------------------------------
(* Termination. *)

Lifecycle == INSTANCE RunLifecycle

\* The run implements the abstract lifecycle: it starts once, ends once, and
\* its one terminal event is the one its final status stands for.  The catch
\* block of run() must not announce a second end.
ImplementsLifecycle == Lifecycle!LifecycleSpec

\* Every run ends (docs/architecture.md: "maxIterations bounds the run
\* unconditionally"): however the model, the tools and the evaluator answer,
\* a run whose awaits settle reaches a final status.
Termination == <>IsFinished

-----------------------------------------------------------------------------
(* Resource limits. *)

\* Limits are looked at only at the head of the loop, so an iteration may
\* overshoot, but never by more than its own requests: an iteration makes one
\* tool call and at most two model requests (select, then revise), and writes
\* three records when it ends in a revision.  The first plan is requested
\* before any limit is looked at.
ModelCallCeiling ==
  LET puts == IF SemanticIndex THEN 3 ELSE 0
      search == IF SemanticIndex THEN 1 ELSE 0
  IN  IF MaxModelCalls = 0 \/ MaxIterations = 0 \/ MaxToolCalls = 0
        THEN CallsPerRequest + search
        ELSE MaxModelCalls - 1 + 2 * CallsPerRequest + puts

UsageBounded ==
  /\ usage.iterations <= MaxIterations
  /\ usage.toolCalls <= MaxToolCalls
  /\ usage.modelCalls <= ModelCallCeiling

-----------------------------------------------------------------------------
(* Plans and verdicts: success is the evaluator's word, never the model's. *)

\* A goal is declared complete only right after a verdict of success: neither
\* a finish claim nor a revised plan may end a run on a failure, so a revision
\* always leaves a task to run.
CompletionFollowsSuccess == status = "completed" => evaluation = "success"

\* A task of the plan is completed only by an attempt of its own that the
\* evaluator judged a success, whatever revisions the plan went through.
CompletedTasksConfirmed ==
  \A id \in CompletedIds(plan.tasks) :
    \E i \in AttemptsOn(id) : attempts[i].verdict = "success"

\* A task that succeeded is never worked on again: no revision brings a
\* completed task back under its id.
NoAttemptAfterSuccess ==
  \A i, j \in DOMAIN attempts :
    i < j /\ attempts[i].task = attempts[j].task
      => attempts[i].verdict # "success"

\* Completed tasks survive every later step, plan revisions included
\* (planner.ts: "they are preserved automatically").
CompletedTasksKept ==
  [][CompletedIds(plan.tasks) \subseteq CompletedIds(plan'.tasks)]_vars

-----------------------------------------------------------------------------
(* Memory: what outlives the run, also when it dies between two writes. *)

\* In the store, at any moment a crash may freeze it, a lesson comes with its
\* evidence: an earlier experience of the same task that did not succeed,
\* then the experience of the success it was drawn from.
LessonsBacked ==
  \A k \in DOMAIN written : written[k].kind = "lesson" =>
    \E i, j \in 1 .. (k - 1) :
      /\ i < j
      /\ \A n \in {i, j} : /\ written[n].kind = "experience"
                           /\ written[n].task = written[k].task
      /\ written[i].outcome # "success"
      /\ written[j].outcome = "success"
      /\ written[j].action = written[k].action

\* Unless the run failed or an attempt is still being written, every attempt
\* is remembered by exactly one experience with its verdict, and every
\* announced lesson is in the store.
MemoryComplete ==
  pc # "writing" /\ status # "failed" =>
    /\ \A a \in DOMAIN attempts :
         Cardinality({k \in DOMAIN written :
                        written[k] = [kind |-> "experience",
                                      task |-> attempts[a].task,
                                      action |-> attempts[a].action,
                                      outcome |-> attempts[a].verdict]}) = 1
    /\ Len(lessons) =
         Cardinality({k \in DOMAIN written : written[k].kind = "lesson"})

\* The store tells the run: every lesson with its evidence at any moment, and
\* every attempt and announced lesson once it is written (attempt, writeRecord).
MemoryKept == LessonsBacked /\ MemoryComplete
=============================================================================
