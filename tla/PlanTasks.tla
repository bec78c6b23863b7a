------------------------------ MODULE PlanTasks ------------------------------
(***************************************************************************)
(* The pure helpers of src/agent/runtime/plan-tasks.ts: which task of a    *)
(* plan runs next, and how the status of its tasks changes.  A plan's      *)
(* tasks are a sequence of records; a task id is a natural number, and its *)
(* description and expected evidence, which no helper reads, are left out. *)
(***************************************************************************)
EXTENDS Integers, Sequences

TaskStatus == {"pending", "in_progress", "completed", "failed", "skipped"}

Task == [id : Nat, status : TaskStatus, dependsOn : SUBSET Nat]

\* DONE: a task with one of these statuses is never picked again.
Done == {"completed", "skipped"}

CompletedIds(tasks) ==
  {tasks[i].id : i \in {k \in DOMAIN tasks : tasks[k].status = "completed"}}

\* Mutant: only a skipped task counts as done.
Runnable_CompletedToo(tasks) ==
  {i \in DOMAIN tasks : /\ tasks[i].status # "skipped"
                        /\ tasks[i].dependsOn \subseteq CompletedIds(tasks)}

\* The positions of the tasks that are not done and whose dependencies are
\* all completed.
Runnable(tasks) ==
  {i \in DOMAIN tasks : /\ tasks[i].status \notin Done
                        /\ tasks[i].dependsOn \subseteq CompletedIds(tasks)}

\* The first runnable task; meaningful only when Runnable(tasks) # {}, the
\* code returns undefined otherwise.
NextTask(tasks) ==
  tasks[CHOOSE i \in Runnable(tasks) : \A j \in Runnable(tasks) : i <= j]

\* Every task with this id changes, not only the first.
WithTaskStatus(tasks, id, status) ==
  [i \in DOMAIN tasks |->
     IF tasks[i].id = id THEN [tasks[i] EXCEPT !.status = status] ELSE tasks[i]]

\* Mutant: what is left of an accepted goal counts as completed.
WithRemainingTasksSkipped_Completed(tasks) ==
  [i \in DOMAIN tasks |-> [tasks[i] EXCEPT !.status = "completed"]]

WithRemainingTasksSkipped(tasks) ==
  [i \in DOMAIN tasks |->
     IF tasks[i].status \in Done THEN tasks[i]
                                 ELSE [tasks[i] EXCEPT !.status = "skipped"]]
=============================================================================
