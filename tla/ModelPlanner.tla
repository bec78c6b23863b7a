---------------------------- MODULE ModelPlanner ----------------------------
(***************************************************************************)
(* How src/agent/planner.ts turns the model's proposal into the tasks of a *)
(* plan.  A proposal is a non-empty sequence of task ids: the id the model *)
(* echoes, or NoTaskId when it gives none.  An id the previous plan does   *)
(* not hold counts as none.                                                *)
(***************************************************************************)
EXTENDS PlanTasks, Subsequences, FiniteSets

NoTaskId == 0

\* existing.get(id): a Map built from the task list keeps the last entry.
PositionsOf(tasks, id) == {i \in DOMAIN tasks : tasks[i].id = id}

Existing(tasks, id) ==
  tasks[CHOOSE i \in PositionsOf(tasks, id) :
          \A j \in PositionsOf(tasks, id) : j <= i]

\* The echoed id names a task that is not completed yet: it keeps identity
\* and status.
IsKept(tasks, id) ==
  /\ PositionsOf(tasks, id) # {}
  /\ Existing(tasks, id).status # "completed"

NewTask(id) == [id |-> id, status |-> "pending", dependsOn |-> {}]

\* How many of the first n proposals become new tasks, i.e. draw a fresh id.
FreshUpTo(tasks, proposals, n) ==
  Cardinality({m \in 1 .. n : ~ IsKept(tasks, proposals[m])})

\* materialiseTasks; lastId is the last task id handed out so far.
Materialise(tasks, proposals, lastId) ==
  [n \in DOMAIN proposals |->
     IF IsKept(tasks, proposals[n])
       THEN Existing(tasks, proposals[n])
       ELSE NewTask(lastId + FreshUpTo(tasks, proposals, n))]

\* createPlan: nothing exists yet, every proposal is a new task.
InitialTasks(proposals) == Materialise(<< >>, proposals, 0)

\* Mutant: a task under way is taken for a finished one.
RevisedTasks_PendingOnly(tasks, proposals, lastId) ==
  LET revised == Materialise(tasks, proposals, lastId)
  IN  Subsequence(tasks, {i \in DOMAIN tasks : tasks[i].status = "completed"})
      \o Subsequence(revised,
                     {i \in DOMAIN revised : revised[i].status = "pending"})

\* Mutant: the revision replaces the plan, completed tasks included.
RevisedTasks_Replaced(tasks, proposals, lastId) ==
  Materialise(tasks, proposals, lastId)

\* revisePlan: completed tasks are carried over in front of the revised ones.
RevisedTasks(tasks, proposals, lastId) ==
  LET revised == Materialise(tasks, proposals, lastId)
  IN  Subsequence(tasks, {i \in DOMAIN tasks : tasks[i].status = "completed"})
      \o Subsequence(revised,
                     {i \in DOMAIN revised : revised[i].status # "completed"})
=============================================================================
