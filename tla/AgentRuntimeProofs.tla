-------------------------- MODULE AgentRuntimeProofs --------------------------
(***************************************************************************)
(* Proofs about the control loop of AgentRuntime, for every limit, every   *)
(* proposal length and every set of verdicts the constants may stand for.  *)
(* They begin with facts about the operators of PlanTasks and ModelPlanner *)
(* for every list of tasks and every proposal, which the proofs about the  *)
(* loop cite, and end with what the event log of RunTrajectory tells.      *)
(***************************************************************************)
EXTENDS RunTrajectory, SubsequenceTheorems, FiniteSetTheorems

-----------------------------------------------------------------------------
(* The task that runs next, and the status of the tasks.                   *)

\* A non-empty set of positions has a last one.
LEMMA GreatestPosition ==
  ASSUME NEW n \in Nat, NEW T \in SUBSET (1 .. n), T # {}
  PROVE  \E x \in T : \A y \in T : y <= x
<1> DEFINE U == {n - y : y \in T}
<1>1. U \in SUBSET Nat /\ U # {}
  <2>1. PICK y \in T : TRUE
    OBVIOUS
  <2>2. \A x \in 1 .. n : n - x \in Nat
    OBVIOUS
  <2> QED
    BY <2>1, <2>2
<1>2. PICK u \in U : \A v \in U : u <= v
  <2> HIDE DEF U
  <2> QED
    BY <1>1, LeastNatural
<1>3. PICK x \in T : u = n - x
  OBVIOUS
<1>4. ASSUME NEW y \in T PROVE y <= x
  <2>1. n - x <= n - y
    BY <1>2, <1>3
  <2>2. x \in Nat /\ y \in Nat
    OBVIOUS
  <2> QED
    BY <2>1, <2>2
<1> QED
  BY <1>4

\* selectNextTask returns a task of the plan that is not done and whose
\* dependencies are completed.
LEMMA NextTaskRunnable ==
  ASSUME NEW tasks \in Seq(Task), Runnable(tasks) # {}
  PROVE  \E i \in Runnable(tasks) : NextTask(tasks) = tasks[i]
<1>1. Runnable(tasks) \in SUBSET Nat
  BY DEF Runnable
<1>2. \E i \in Runnable(tasks) : \A j \in Runnable(tasks) : i <= j
  BY <1>1, LeastNatural
<1> QED
  BY <1>2 DEF NextTask

\* withTaskStatus yields as many tasks, and changes nothing but the status of
\* the tasks with the given id.
LEMMA WithTaskStatusTasks ==
  ASSUME NEW tasks \in Seq(Task), NEW id, NEW new \in TaskStatus
  PROVE  /\ WithTaskStatus(tasks, id, new) \in Seq(Task)
         /\ DOMAIN WithTaskStatus(tasks, id, new) = DOMAIN tasks
         /\ \A i \in DOMAIN tasks :
              /\ WithTaskStatus(tasks, id, new)[i].id = tasks[i].id
              /\ WithTaskStatus(tasks, id, new)[i].dependsOn = tasks[i].dependsOn
              /\ WithTaskStatus(tasks, id, new)[i].status =
                   IF tasks[i].id = id THEN new ELSE tasks[i].status
<1> DEFINE result == WithTaskStatus(tasks, id, new)
<1>1. DOMAIN result = 1 .. Len(tasks) /\ Len(tasks) \in Nat
  BY DEF WithTaskStatus
<1>2. ASSUME NEW i \in 1 .. Len(tasks)
      PROVE  /\ result[i] \in Task
             /\ result[i].id = tasks[i].id
             /\ result[i].dependsOn = tasks[i].dependsOn
             /\ result[i].status = IF tasks[i].id = id THEN new ELSE tasks[i].status
  <2>1. tasks[i] \in Task
    OBVIOUS
  <2>2. result[i] = IF tasks[i].id = id THEN [tasks[i] EXCEPT !.status = new]
                                        ELSE tasks[i]
    BY DEF WithTaskStatus
  <2> QED
    BY <2>1, <2>2 DEF Task
<1>3. result = [i \in 1 .. Len(tasks) |-> result[i]]
  BY <1>1 DEF WithTaskStatus
<1> HIDE DEF result
<1>4. result \in Seq(Task)
  BY <1>1, <1>2, <1>3
<1>5. DOMAIN result = DOMAIN tasks
  BY <1>1
<1> QED
  BY <1>2, <1>4, <1>5 DEF result

\* withRemainingTasksSkipped yields tasks again.
LEMMA WithRemainingTasksSkippedTasks ==
  ASSUME NEW tasks \in Seq(Task)
  PROVE  WithRemainingTasksSkipped(tasks) \in Seq(Task)
<1> DEFINE result == WithRemainingTasksSkipped(tasks)
<1>1. ASSUME NEW i \in 1 .. Len(tasks)
      PROVE  (IF tasks[i].status \in Done THEN tasks[i]
              ELSE [tasks[i] EXCEPT !.status = "skipped"]) \in Task
  <2>1. tasks[i] \in Task
    OBVIOUS
  <2> QED
    BY <2>1 DEF Task, TaskStatus
<1>2. DOMAIN tasks = 1 .. Len(tasks) /\ Len(tasks) \in Nat
  OBVIOUS
<1>3. result = [i \in 1 .. Len(tasks) |->
                  IF tasks[i].status \in Done THEN tasks[i]
                  ELSE [tasks[i] EXCEPT !.status = "skipped"]]
  BY <1>2 DEF WithRemainingTasksSkipped
<1> QED
  BY <1>1, <1>2, <1>3

-----------------------------------------------------------------------------
(* Creating and revising a plan.                                           *)

\* The planner finds a task of the plan for an id the plan holds.
LEMMA ExistingTask ==
  ASSUME NEW tasks \in Seq(Task), NEW id, PositionsOf(tasks, id) # {}
  PROVE  \E i \in 1 .. Len(tasks) : /\ Existing(tasks, id) = tasks[i]
                                    /\ tasks[i].id = id
<1>1. PositionsOf(tasks, id) \in SUBSET (1 .. Len(tasks)) /\ Len(tasks) \in Nat
  BY DEF PositionsOf
<1>2. \E i \in PositionsOf(tasks, id) : \A j \in PositionsOf(tasks, id) : j <= i
  BY <1>1, GreatestPosition
<1>3. PICK i \in PositionsOf(tasks, id) : Existing(tasks, id) = tasks[i]
  BY <1>2 DEF Existing
<1> QED
  BY <1>1, <1>3 DEF PositionsOf

\* How many ids a proposal draws grows along the proposal, and counts every
\* task that is new.
LEMMA FreshCount ==
  ASSUME NEW tasks, NEW proposals, NEW n \in Nat, NEW m \in 0 .. n
  PROVE  /\ FreshUpTo(tasks, proposals, n) \in Nat
         /\ FreshUpTo(tasks, proposals, m) \in 0 .. FreshUpTo(tasks, proposals, n)
         /\ m # 0 /\ ~ IsKept(tasks, proposals[m])
              => FreshUpTo(tasks, proposals, m) # 0
<1> DEFINE fresh(k) == {x \in 1 .. k : ~ IsKept(tasks, proposals[x])}
<1>1. IsFiniteSet(fresh(n)) /\ IsFiniteSet(fresh(m))
  <2>1. IsFiniteSet(1 .. n) /\ IsFiniteSet(1 .. m)
    BY FS_Interval
  <2>2. fresh(n) \subseteq 1 .. n /\ fresh(m) \subseteq 1 .. m
    OBVIOUS
  <2> QED
    BY <2>1, <2>2, FS_Subset
<1>2. fresh(m) \subseteq fresh(n)
  OBVIOUS
<1>3. m # 0 /\ ~ IsKept(tasks, proposals[m]) => m \in fresh(m)
  OBVIOUS
<1>4. \A k : FreshUpTo(tasks, proposals, k) = Cardinality(fresh(k))
  BY DEF FreshUpTo
<1> HIDE DEF fresh
<1>5. Cardinality(fresh(n)) \in Nat /\ Cardinality(fresh(m)) \in Nat
  BY <1>1, FS_CardinalityType
<1>6. Cardinality(fresh(m)) <= Cardinality(fresh(n))
  BY <1>1, <1>2, FS_Subset
<1>7. m \in fresh(m) => Cardinality(fresh(m)) # 0
  BY <1>1, FS_EmptySet
<1> QED
  BY <1>3, <1>4, <1>5, <1>6, <1>7

\* A task materialised from a proposal is one of the plan's tasks that is not
\* completed, or a new one with an id no task had before.
MaterialisedFrom(tasks, t, lastId, newLast) ==
  \/ /\ \E i \in 1 .. Len(tasks) : t = tasks[i]
     /\ t.status # "completed"
  \/ /\ t.id \in (lastId + 1) .. newLast
     /\ t = NewTask(t.id)

LEMMA MaterialiseTasks ==
  ASSUME NEW tasks \in Seq(Task), NEW n \in Nat,
         NEW proposals \in [1 .. n -> Nat], NEW lastId \in Nat
  PROVE  /\ Materialise(tasks, proposals, lastId) \in Seq(Task)
         /\ Len(Materialise(tasks, proposals, lastId)) = n
         /\ \A m \in 1 .. n :
              MaterialisedFrom(tasks, Materialise(tasks, proposals, lastId)[m],
                               lastId, lastId + FreshUpTo(tasks, proposals, n))
<1> DEFINE result == Materialise(tasks, proposals, lastId)
           newLast == lastId + FreshUpTo(tasks, proposals, n)
<1>1. ASSUME NEW m \in 1 .. n
      PROVE  result[m] \in Task /\ MaterialisedFrom(tasks, result[m], lastId, newLast)
  <2>1. CASE IsKept(tasks, proposals[m])
    <3>1. result[m] = Existing(tasks, proposals[m])
      BY <2>1 DEF Materialise
    <3>2. /\ PositionsOf(tasks, proposals[m]) # {}
          /\ Existing(tasks, proposals[m]).status # "completed"
      BY <2>1 DEF IsKept
    <3>3. PICK i \in 1 .. Len(tasks) : Existing(tasks, proposals[m]) = tasks[i]
      BY <3>2, ExistingTask
    <3>4. tasks[i] \in Task
      OBVIOUS
    <3> QED
      BY <3>1, <3>2, <3>3, <3>4 DEF MaterialisedFrom
  <2>2. CASE ~ IsKept(tasks, proposals[m])
    <3>1. result[m] = NewTask(lastId + FreshUpTo(tasks, proposals, m))
      BY <2>2 DEF Materialise
    <3>2. PICK id : id = lastId + FreshUpTo(tasks, proposals, m)
      OBVIOUS
    <3>3. id \in Nat /\ id \in (lastId + 1) .. newLast
      <4>1. m \in 0 .. n /\ m # 0
        OBVIOUS
      <4>2. /\ FreshUpTo(tasks, proposals, n) \in Nat
            /\ FreshUpTo(tasks, proposals, m) \in 0 .. FreshUpTo(tasks, proposals, n)
            /\ FreshUpTo(tasks, proposals, m) # 0
        BY <2>2, <4>1, FreshCount
      <4> QED
        BY <3>2, <4>2
    <3>4. NewTask(id) \in Task /\ NewTask(id).id = id
      BY <3>3 DEF NewTask, Task, TaskStatus
    <3> QED
      BY <3>1, <3>2, <3>3, <3>4 DEF MaterialisedFrom
  <2> QED
    BY <2>1, <2>2
<1>2. result = [m \in 1 .. n |-> result[m]]
  BY DEF Materialise
<1> HIDE DEF result
<1>3. result \in Seq(Task) /\ Len(result) = n
  BY <1>1, <1>2
<1> QED
  BY <1>1, <1>3 DEF result

\* What a plan keeps and gains in a revision: its completed tasks stay, every
\* other task is MaterialisedFrom the old plan, and some task is not completed.
RevisionOf(tasks, revised, lastId, newLast) ==
  /\ revised \in Seq(Task)
  /\ \A k \in 1 .. Len(revised) :
       \/ /\ revised[k].status = "completed"
          /\ \E i \in 1 .. Len(tasks) : revised[k] = tasks[i]
       \/ MaterialisedFrom(tasks, revised[k], lastId, newLast)
  /\ \A i \in 1 .. Len(tasks) :
       tasks[i].status = "completed" =>
         \E k \in 1 .. Len(revised) : revised[k] = tasks[i]
  /\ \E k \in 1 .. Len(revised) : revised[k].status # "completed"

\* revisePlan keeps its promise for every plan and every non-empty proposal.
LEMMA RevisedTasksContent ==
  ASSUME NEW tasks \in Seq(Task), NEW n \in Nat \ {0},
         NEW proposals \in [1 .. n -> Nat], NEW lastId \in Nat
  PROVE  RevisionOf(tasks, RevisedTasks(tasks, proposals, lastId), lastId,
                    lastId + FreshUpTo(tasks, proposals, n))
<1> DEFINE newLast == lastId + FreshUpTo(tasks, proposals, n)
           new == Materialise(tasks, proposals, lastId)
           keepOld == {i \in DOMAIN tasks : tasks[i].status = "completed"}
           keepNew == {i \in DOMAIN new : new[i].status # "completed"}
           old == Subsequence(tasks, keepOld)
           rest == Subsequence(new, keepNew)
<1>1. /\ new \in Seq(Task) /\ Len(new) = n
      /\ \A m \in 1 .. n : MaterialisedFrom(tasks, new[m], lastId, newLast)
  <2>1. n \in Nat
    OBVIOUS
  <2> QED
    BY <2>1, MaterialiseTasks
<1>2. KeptPrefix(Task, tasks, keepOld, Len(tasks), old)
  BY SubsequenceContent
<1>3. KeptPrefix(Task, new, keepNew, Len(new), rest)
  <2> HIDE DEF new, keepNew
  <2> QED
    BY <1>1, SubsequenceContent
<1>4. RevisedTasks(tasks, proposals, lastId) = old \o rest
  BY DEF RevisedTasks
<1>5. \A i \in 1 .. Len(tasks) : i \in keepOld <=> tasks[i].status = "completed"
  OBVIOUS
<1>6. \A m \in 1 .. n : m \in keepNew
  <2> SUFFICES ASSUME NEW m \in 1 .. n PROVE m \in keepNew
    OBVIOUS
  <2>1. MaterialisedFrom(tasks, new[m], lastId, newLast) /\ m \in DOMAIN new
    BY <1>1
  <2>2. new[m].status # "completed"
    BY <2>1 DEF MaterialisedFrom, NewTask
  <2> QED
    BY <2>1, <2>2
<1>7. \A m \in keepNew : new[m].status # "completed"
  OBVIOUS
<1> HIDE DEF new, keepOld, keepNew, old, rest
<1>8. old \in Seq(Task) /\ rest \in Seq(Task)
  BY <1>2, <1>3 DEF KeptPrefix
<1> DEFINE both == old \o rest
<1>9. /\ both \in Seq(Task)
      /\ Len(both) = Len(old) + Len(rest)
      /\ \A k \in 1 .. Len(both) :
           both[k] = IF k <= Len(old) THEN old[k] ELSE rest[k - Len(old)]
  BY <1>8, ConcatProperties
<1>10. Len(old) \in Nat /\ Len(rest) \in Nat
  BY <1>8
<1> HIDE DEF both
<1>11. ASSUME NEW k \in 1 .. Len(both)
       PROVE  \/ /\ both[k].status = "completed"
                 /\ \E i \in 1 .. Len(tasks) : both[k] = tasks[i]
              \/ MaterialisedFrom(tasks, both[k], lastId, newLast)
  <2>1. CASE k <= Len(old)
    <3>1. k \in 1 .. Len(old) /\ both[k] = old[k]
      BY <2>1, <1>9, <1>10
    <3>2. PICK i \in (1 .. Len(tasks)) \cap keepOld : old[k] = tasks[i]
      BY <3>1, <1>2 DEF KeptPrefix
    <3> QED
      BY <3>1, <3>2, <1>5
  <2>2. CASE ~ (k <= Len(old))
    <3>1. k - Len(old) \in 1 .. Len(rest) /\ both[k] = rest[k - Len(old)]
      BY <2>2, <1>9, <1>10
    <3>2. PICK j \in (1 .. Len(new)) \cap keepNew : rest[k - Len(old)] = new[j]
      BY <3>1, <1>3 DEF KeptPrefix
    <3> QED
      BY <3>1, <3>2, <1>1
  <2> QED
    BY <2>1, <2>2
<1>12. ASSUME NEW i \in 1 .. Len(tasks), tasks[i].status = "completed"
       PROVE  \E k \in 1 .. Len(both) : both[k] = tasks[i]
  <2>1. PICK k \in 1 .. Len(old) : old[k] = tasks[i]
    BY <1>2, <1>5, <1>12 DEF KeptPrefix
  <2>2. k \in 1 .. Len(both) /\ k <= Len(old)
    BY <1>9, <1>10
  <2> QED
    BY <2>1, <2>2, <1>9
<1>13. \E k \in 1 .. Len(both) : both[k].status # "completed"
  <2>1. 1 \in 1 .. n /\ 1 \in (1 .. Len(new)) \cap keepNew
    BY <1>1, <1>6
  <2>2. PICK j \in 1 .. Len(rest) : rest[j] = new[1]
    BY <2>1, <1>3 DEF KeptPrefix
  <2>3. /\ Len(old) + j \in 1 .. Len(both)
        /\ ~ (Len(old) + j <= Len(old))
        /\ (Len(old) + j) - Len(old) = j
    BY <1>9, <1>10
  <2>4. both[Len(old) + j] = rest[j]
    BY <2>3, <1>9
  <2> QED
    BY <2>1, <2>2, <2>3, <2>4, <1>7
<1> QED
  BY <1>4, <1>9, <1>11, <1>12, <1>13 DEF both, newLast, RevisionOf

\* createPlan: the tasks of a first plan are all new, and there is one at least.
LEMMA InitialTasksContent ==
  ASSUME NEW n \in Nat \ {0}, NEW proposals \in [1 .. n -> Nat]
  PROVE  /\ InitialTasks(proposals) \in Seq(Task)
         /\ Len(InitialTasks(proposals)) = n
         /\ \A k \in 1 .. n :
              LET t == InitialTasks(proposals)[k]
              IN  /\ t.id \in 1 .. FreshUpTo(<< >>, proposals, n)
                  /\ t = NewTask(t.id)
<1>1. PICK none : none = << >>
  OBVIOUS
<1>2. none \in Seq(Task) /\ 1 .. Len(none) = {}
  BY <1>1, EmptySeq
<1>3. PICK zero : zero = 0
  OBVIOUS
<1>4. n \in Nat /\ n \in 0 .. n /\ zero \in Nat
  BY <1>3
<1>5. PICK new : new = Materialise(none, proposals, zero)
  OBVIOUS
<1>6. /\ new \in Seq(Task) /\ Len(new) = n
      /\ \A m \in 1 .. n :
           MaterialisedFrom(none, new[m], zero, zero + FreshUpTo(none, proposals, n))
  <2>1. none \in Seq(Task) /\ n \in Nat /\ zero \in Nat
    BY <1>2, <1>4
  <2> QED
    BY <1>5, <2>1, MaterialiseTasks, ZenonT(30)
<1>7. new = InitialTasks(proposals)
  BY <1>1, <1>3, <1>5 DEF InitialTasks
<1>8. FreshUpTo(none, proposals, n) \in Nat
  BY <1>4, FreshCount
<1>9. /\ zero + FreshUpTo(none, proposals, n) = FreshUpTo(<< >>, proposals, n)
      /\ zero + 1 = 1
  BY <1>1, <1>3, <1>8
<1> QED
  BY <1>2, <1>6, <1>7, <1>9, Zenon DEF MaterialisedFrom

-----------------------------------------------------------------------------
(* Identity and completion: an id stands for one task as long as it lives. *)

\* Every task's id was handed out.
KnownTasks(tasks, lastId) == \A i \in DOMAIN tasks : tasks[i].id \in 1 .. lastId

\* A proposal may echo an id twice; the two tasks are then the same.
SameTask(tasks) ==
  \A i, j \in DOMAIN tasks : tasks[i].id = tasks[j].id => tasks[i] = tasks[j]

\* As long as the run goes on no task waits for another or is given up.
OpenTasks(tasks) ==
  \A i \in DOMAIN tasks :
    /\ tasks[i].dependsOn = {}
    /\ tasks[i].status \in {"pending", "in_progress", "completed"}

\* A first plan.
LEMMA InitialPlanFacts ==
  ASSUME NEW n \in Nat \ {0}, NEW proposals \in [1 .. n -> Nat]
  PROVE  /\ KnownTasks(InitialTasks(proposals), FreshUpTo(<< >>, proposals, n))
         /\ SameTask(InitialTasks(proposals))
         /\ OpenTasks(InitialTasks(proposals))
         /\ CompletedIds(InitialTasks(proposals)) = {}
         /\ \E i \in DOMAIN InitialTasks(proposals) :
              InitialTasks(proposals)[i].status # "completed"
<1> DEFINE tasks == InitialTasks(proposals)
<1>1. tasks \in Seq(Task) /\ Len(tasks) = n
  BY InitialTasksContent
<1>2. DOMAIN tasks = 1 .. n /\ 1 \in 1 .. n
  BY <1>1
<1>3. ASSUME NEW k \in 1 .. n
      PROVE  /\ tasks[k].id \in 1 .. FreshUpTo(<< >>, proposals, n)
             /\ tasks[k] = NewTask(tasks[k].id)
  BY InitialTasksContent
<1>4. \A id : NewTask(id).status = "pending" /\ NewTask(id).dependsOn = {}
  BY DEF NewTask
<1> HIDE DEF tasks
<1>5. KnownTasks(tasks, FreshUpTo(<< >>, proposals, n))
  BY <1>2, <1>3, Zenon DEF KnownTasks
<1>6. SameTask(tasks)
  BY <1>2, <1>3, Zenon DEF SameTask
<1>7. \A k \in 1 .. n : tasks[k].status = "pending" /\ tasks[k].dependsOn = {}
  BY <1>3, <1>4, Zenon
<1>8. OpenTasks(tasks)
  BY <1>2, <1>7 DEF OpenTasks
<1>9. CompletedIds(tasks) = {}
  BY <1>2, <1>7 DEF CompletedIds
<1>10. \E i \in DOMAIN tasks : tasks[i].status # "completed"
  BY <1>2, <1>7
<1> QED
  BY <1>5, <1>6, <1>8, <1>9, <1>10 DEF tasks

\* A revision neither loses nor invents a completed task, and an id still
\* stands for one task.
LEMMA RevisionFacts ==
  ASSUME NEW tasks \in Seq(Task), NEW revised, NEW lastId \in Nat,
         NEW newLast \in Nat, lastId <= newLast,
         KnownTasks(tasks, lastId), SameTask(tasks), OpenTasks(tasks),
         RevisionOf(tasks, revised, lastId, newLast)
  PROVE  /\ KnownTasks(revised, newLast)
         /\ SameTask(revised)
         /\ OpenTasks(revised)
         /\ CompletedIds(revised) = CompletedIds(tasks)
         /\ \E i \in DOMAIN revised : revised[i].status # "completed"
<1>1. revised \in Seq(Task)
  BY DEF RevisionOf
<1>2. DOMAIN revised = 1 .. Len(revised) /\ DOMAIN tasks = 1 .. Len(tasks)
  BY <1>1
<1> DEFINE Old(t) == \E i \in DOMAIN tasks : t = tasks[i]
           New(t) == t.id \in (lastId + 1) .. newLast /\ t = NewTask(t.id)
<1>3. ASSUME NEW k \in DOMAIN revised
      PROVE  Old(revised[k]) \/ (New(revised[k]) /\ revised[k].status # "completed")
  <2>1. CASE Old(revised[k])
    BY <2>1
  <2>2. CASE ~ Old(revised[k])
    <3>1. New(revised[k])
      BY <1>2, <2>2, Zenon DEF RevisionOf, MaterialisedFrom
    <3>2. revised[k].status # "completed"
      BY <3>1 DEF NewTask
    <3> QED
      BY <3>1, <3>2
  <2> QED
    BY <2>1, <2>2
<1>4. ASSUME NEW t, Old(t)
      PROVE  t.id \in 1 .. lastId
  BY <1>4 DEF KnownTasks
<1>5. \A x \in 1 .. lastId : x \in 1 .. newLast /\ x \notin (lastId + 1) .. newLast
  OBVIOUS
<1>6. \A x \in (lastId + 1) .. newLast : x \in 1 .. newLast
  OBVIOUS
<1>7. KnownTasks(revised, newLast)
  <2> HIDE DEF Old
  <2> QED
    BY <1>3, <1>4, <1>5, <1>6, Zenon DEF KnownTasks
<1>8. SameTask(revised)
  <2> SUFFICES ASSUME NEW i \in DOMAIN revised, NEW j \in DOMAIN revised,
                      revised[i].id = revised[j].id
               PROVE  revised[i] = revised[j]
    BY DEF SameTask
  <2>1. CASE Old(revised[i]) /\ Old(revised[j])
    BY <2>1, Zenon DEF SameTask
  <2>2. CASE ~ Old(revised[i])
    <3>1. New(revised[i])
      BY <1>3, <2>2
    <3>2. ~ Old(revised[j])
      BY <3>1, <1>4, <1>5, Zenon
    <3> QED
      BY <3>1, <3>2, <1>3, Zenon
  <2>3. CASE ~ Old(revised[j])
    <3>1. New(revised[j])
      BY <1>3, <2>3
    <3>2. ~ Old(revised[i])
      BY <3>1, <1>4, <1>5, Zenon
    <3> QED
      BY <3>1, <3>2, <1>3, Zenon
  <2> QED
    BY <2>1, <2>2, <2>3
<1>9. OpenTasks(revised)
  <2> SUFFICES ASSUME NEW k \in DOMAIN revised
               PROVE  /\ revised[k].dependsOn = {}
                      /\ revised[k].status \in {"pending", "in_progress", "completed"}
    BY DEF OpenTasks
  <2>1. CASE Old(revised[k])
    BY <2>1 DEF OpenTasks
  <2>2. CASE ~ Old(revised[k])
    <3>1. revised[k] = NewTask(revised[k].id)
      BY <1>3, <2>2
    <3> QED
      BY <3>1 DEF NewTask
  <2> QED
    BY <2>1, <2>2
<1>10. CompletedIds(revised) \subseteq CompletedIds(tasks)
  <2> SUFFICES ASSUME NEW k \in DOMAIN revised, revised[k].status = "completed"
               PROVE  revised[k].id \in CompletedIds(tasks)
    BY DEF CompletedIds
  <2>1. Old(revised[k])
    BY <1>3
  <2> QED
    BY <2>1 DEF CompletedIds
<1>11. CompletedIds(tasks) \subseteq CompletedIds(revised)
  <2> SUFFICES ASSUME NEW i \in DOMAIN tasks, tasks[i].status = "completed"
               PROVE  tasks[i].id \in CompletedIds(revised)
    BY DEF CompletedIds
  <2>1. PICK k \in 1 .. Len(revised) : revised[k] = tasks[i]
    BY <1>2 DEF RevisionOf
  <2> QED
    BY <1>2, <2>1 DEF CompletedIds
<1>12. \E i \in DOMAIN revised : revised[i].status # "completed"
  BY <1>2 DEF RevisionOf
<1> QED
  BY <1>7, <1>8, <1>9, <1>10, <1>11, <1>12

\* A task that starts or completes: the ids do not change, an id still stands
\* for one task, and of the completed ones only this task's id may change.
LEMMA StatusFacts ==
  ASSUME NEW tasks \in Seq(Task), NEW lastId \in Nat, NEW id,
         NEW new \in {"in_progress", "completed"},
         KnownTasks(tasks, lastId), SameTask(tasks), OpenTasks(tasks)
  PROVE  LET result == WithTaskStatus(tasks, id, new)
         IN  /\ KnownTasks(result, lastId)
             /\ SameTask(result)
             /\ OpenTasks(result)
             /\ DOMAIN result = DOMAIN tasks
             /\ \A i \in DOMAIN tasks : result[i].id = tasks[i].id
             /\ new = "completed" =>
                  /\ CompletedIds(result) \subseteq CompletedIds(tasks) \cup {id}
                  /\ CompletedIds(tasks) \subseteq CompletedIds(result)
                  /\ (\E i \in DOMAIN tasks : tasks[i].id = id)
                       => id \in CompletedIds(result)
             /\ new = "in_progress" /\ id \notin CompletedIds(tasks)
                  => CompletedIds(result) = CompletedIds(tasks)
<1> DEFINE result == WithTaskStatus(tasks, id, new)
<1>1. new \in TaskStatus
  BY DEF TaskStatus
<1>2. /\ result \in Seq(Task)
      /\ DOMAIN result = DOMAIN tasks
      /\ \A i \in DOMAIN tasks :
           /\ result[i].id = tasks[i].id
           /\ result[i].dependsOn = tasks[i].dependsOn
           /\ result[i].status = IF tasks[i].id = id THEN new ELSE tasks[i].status
  BY <1>1, WithTaskStatusTasks
<1>3. \A i \in DOMAIN tasks :
        result[i] = IF tasks[i].id = id THEN [tasks[i] EXCEPT !.status = new] ELSE tasks[i]
  BY DEF WithTaskStatus
<1> HIDE DEF result
<1>4. KnownTasks(result, lastId)
  BY <1>2 DEF KnownTasks
<1>5. SameTask(result)
  <2> SUFFICES ASSUME NEW i \in DOMAIN tasks, NEW j \in DOMAIN tasks,
                      tasks[i].id = tasks[j].id
               PROVE  result[i] = result[j]
    BY <1>2 DEF SameTask
  <2>1. tasks[i] = tasks[j]
    BY DEF SameTask
  <2> QED
    BY <2>1, <1>3, Zenon
<1>6. OpenTasks(result)
  BY <1>2 DEF OpenTasks
<1>7. ASSUME new = "completed"
      PROVE  /\ CompletedIds(result) \subseteq CompletedIds(tasks) \cup {id}
             /\ CompletedIds(tasks) \subseteq CompletedIds(result)
             /\ (\E i \in DOMAIN tasks : tasks[i].id = id)
                  => id \in CompletedIds(result)
  BY <1>2, <1>7 DEF CompletedIds
<1>8. ASSUME new = "in_progress", id \notin CompletedIds(tasks)
      PROVE  CompletedIds(result) = CompletedIds(tasks)
  BY <1>2, <1>8 DEF CompletedIds
<1> QED
  BY <1>2, <1>4, <1>5, <1>6, <1>7, <1>8 DEF result

\* Skipping what is left neither completes a task nor undoes a completion.
LEMMA SkippedFacts ==
  ASSUME NEW tasks \in Seq(Task), NEW lastId \in Nat,
         KnownTasks(tasks, lastId), SameTask(tasks)
  PROVE  LET result == WithRemainingTasksSkipped(tasks)
         IN  /\ KnownTasks(result, lastId)
             /\ SameTask(result)
             /\ CompletedIds(result) = CompletedIds(tasks)
<1> DEFINE result == WithRemainingTasksSkipped(tasks)
<1>1. /\ DOMAIN result = DOMAIN tasks
      /\ \A i \in DOMAIN tasks :
           result[i] = IF tasks[i].status \in Done THEN tasks[i]
                       ELSE [tasks[i] EXCEPT !.status = "skipped"]
  BY DEF WithRemainingTasksSkipped
<1> HIDE DEF result
<1>2. ASSUME NEW i \in DOMAIN tasks
      PROVE  /\ result[i].id = tasks[i].id
             /\ result[i].status = "completed" <=> tasks[i].status = "completed"
  <2>1. tasks[i] \in Task
    OBVIOUS
  <2>2. CASE tasks[i].status \in Done
    BY <1>1, <2>2
  <2>3. CASE tasks[i].status \notin Done
    <3>1. result[i] = [tasks[i] EXCEPT !.status = "skipped"]
      BY <1>1, <2>3
    <3>2. tasks[i].status # "completed"
      BY <2>3 DEF Done
    <3> QED
      BY <2>1, <3>1, <3>2 DEF Task
  <2> QED
    BY <2>2, <2>3
<1>3. KnownTasks(result, lastId)
  BY <1>1, <1>2 DEF KnownTasks
<1>4. SameTask(result)
  <2> SUFFICES ASSUME NEW i \in DOMAIN tasks, NEW j \in DOMAIN tasks,
                      tasks[i].id = tasks[j].id
               PROVE  result[i] = result[j]
    BY <1>1, <1>2 DEF SameTask
  <2>1. tasks[i] = tasks[j]
    BY DEF SameTask
  <2> QED
    BY <2>1, <1>1, Zenon
<1>5. CompletedIds(result) = CompletedIds(tasks)
  BY <1>1, <1>2 DEF CompletedIds
<1> QED
  BY <1>3, <1>4, <1>5 DEF result

-----------------------------------------------------------------------------
(* Types. *)

\* A proposal is a non-empty sequence of natural numbers.
LEMMA ProposalType ==
  ASSUME NEW tasks \in Seq(Task), NEW proposals \in Proposals(tasks)
  PROVE  \E n \in Nat \ {0} : /\ proposals \in [1 .. n -> Nat]
                              /\ Len(proposals) = n
<1>1. PICK n \in 1 .. MaxProposals :
        proposals \in [1 .. n -> {NoTaskId} \cup {tasks[i].id : i \in DOMAIN tasks}]
  BY DEF Proposals
<1>2. \A i \in DOMAIN tasks : tasks[i].id \in Nat
  <2> SUFFICES ASSUME NEW i \in DOMAIN tasks PROVE tasks[i].id \in Nat
    OBVIOUS
  <2>1. tasks[i] \in Task
    OBVIOUS
  <2> QED
    BY <2>1 DEF Task
<1>3. {NoTaskId} \cup {tasks[i].id : i \in DOMAIN tasks} \subseteq Nat
  BY <1>2 DEF NoTaskId
<1>4. n \in Nat \ {0}
  BY LimitsAssumption
<1>5. proposals \in [1 .. n -> Nat]
  BY <1>1, <1>3
<1>6. Len(proposals) = n
  BY <1>4, <1>5
<1> QED
  BY <1>4, <1>5, <1>6

\* The records of an attempt: a decision and an experience, and at most one
\* knowledge and one lesson record, the latter only after a success.
LEMMA RecordsType ==
  ASSUME TypeOK, NEW verdict \in OutcomeVerdict, NEW ingested \in BOOLEAN
  PROVE  /\ RecordsOf(verdict, ingested) \in Seq(MemoryRecord)
         /\ Len(RecordsOf(verdict, ingested)) \in 2 .. 4
         /\ verdict # "success" => Len(RecordsOf(verdict, ingested)) # 4
<1> DEFINE Record(kind) == [kind |-> kind, task |-> task,
                            action |-> usage.toolCalls, outcome |-> verdict]
           first == << Record("decision"), Record("experience") >>
           second == IF ingested THEN << Record("knowledge") >> ELSE << >>
           third == IF HasContrast(verdict) THEN << Record("lesson") >> ELSE << >>
<1>1. task \in Nat /\ usage.toolCalls \in Nat
  BY DEF TypeOK, RunUsage
<1>2. \A kind \in {"decision", "experience", "knowledge", "lesson"} :
        Record(kind) \in MemoryRecord
  BY <1>1 DEF MemoryRecord
<1>3. RecordsOf(verdict, ingested) = first \o second \o third
  BY DEF RecordsOf
<1>4. HasContrast(verdict) => verdict = "success"
  BY DEF HasContrast
<1> HIDE DEF Record
<1>5. first \in Seq(MemoryRecord) /\ Len(first) = 2
  BY <1>2
<1>6. second \in Seq(MemoryRecord) /\ (Len(second) = 0 \/ Len(second) = 1)
  BY <1>2
<1>7. /\ third \in Seq(MemoryRecord)
      /\ Len(third) = 0 \/ (Len(third) = 1 /\ verdict = "success")
  BY <1>2, <1>4
<1> HIDE DEF first, second, third
<1>8. /\ first \o second \in Seq(MemoryRecord)
      /\ Len(first \o second) = Len(first) + Len(second)
  BY <1>5, <1>6, ConcatProperties
<1>9. /\ (first \o second) \o third \in Seq(MemoryRecord)
      /\ Len((first \o second) \o third) = Len(first \o second) + Len(third)
  BY <1>7, <1>8, ConcatProperties
<1>10. /\ Len(first) + Len(second) + Len(third) \in 2 .. 4
       /\ verdict # "success" => Len(first) + Len(second) + Len(third) # 4
  <2>1. \A b, c \in {0, 1} : 2 + b + c \in 2 .. 4 /\ (c = 0 => 2 + b + c # 4)
    OBVIOUS
  <2>2. Len(first) = 2 /\ Len(second) \in {0, 1} /\ Len(third) \in {0, 1}
    BY <1>5, <1>6, <1>7, Zenon
  <2>3. verdict # "success" => Len(third) = 0
    BY <1>7, Zenon
  <2> QED
    BY <2>1, <2>2, <2>3, Zenon
<1> QED
  BY <1>3, <1>8, <1>9, <1>10

\* A counter of the usage that changes leaves a usage.
LEMMA CounterType ==
  ASSUME NEW u \in RunUsage, NEW n \in Nat
  PROVE  /\ [u EXCEPT !.iterations = n] \in RunUsage
         /\ [u EXCEPT !.toolCalls = n] \in RunUsage
         /\ [u EXCEPT !.modelCalls = n] \in RunUsage
         /\ [u EXCEPT !.memoryReads = n] \in RunUsage
         /\ [u EXCEPT !.memoryWrites = n] \in RunUsage
         /\ [u EXCEPT !.retries = n] \in RunUsage
         /\ [u EXCEPT !.strategyChanges = n] \in RunUsage
BY DEF RunUsage

\* What a step adds to the usage is counted in the same type.
LEMMA UsageType ==
  ASSUME usage \in RunUsage, NEW n \in Nat, NEW m \in Nat
  PROVE  /\ [usage EXCEPT !.modelCalls = @ + n] \in RunUsage
         /\ [usage EXCEPT !.iterations = @ + 1] \in RunUsage
         /\ [usage EXCEPT !.memoryReads = @ + 1, !.modelCalls = @ + n] \in RunUsage
         /\ [usage EXCEPT !.memoryWrites = @ + 1, !.modelCalls = @ + n] \in RunUsage
         /\ [usage EXCEPT !.modelCalls = @ + n, !.strategyChanges = m] \in RunUsage
         /\ [usage EXCEPT !.modelCalls = @ + n, !.toolCalls = @ + 1,
                          !.retries = m] \in RunUsage
<1> DEFINE read == [usage EXCEPT !.memoryReads = @ + 1]
           wrote == [usage EXCEPT !.memoryWrites = @ + 1]
           called == [usage EXCEPT !.modelCalls = @ + n]
           acted == [called EXCEPT !.toolCalls = usage.toolCalls + 1]
<1>1. /\ usage.modelCalls + n \in Nat /\ usage.toolCalls + 1 \in Nat
      /\ usage.iterations + 1 \in Nat
      /\ usage.memoryReads + 1 \in Nat /\ usage.memoryWrites + 1 \in Nat
  BY DEF RunUsage
<1>2. /\ read \in RunUsage /\ wrote \in RunUsage /\ called \in RunUsage
      /\ [usage EXCEPT !.iterations = @ + 1] \in RunUsage
  BY <1>1, CounterType, Zenon
<1>3. acted \in RunUsage
  <2> HIDE DEF called
  <2> QED
    BY <1>1, <1>2, CounterType, Zenon
<1>4. /\ [usage EXCEPT !.memoryReads = @ + 1, !.modelCalls = @ + n]
           = [read EXCEPT !.modelCalls = usage.modelCalls + n]
      /\ [usage EXCEPT !.memoryWrites = @ + 1, !.modelCalls = @ + n]
           = [wrote EXCEPT !.modelCalls = usage.modelCalls + n]
      /\ [usage EXCEPT !.modelCalls = @ + n, !.strategyChanges = m]
           = [called EXCEPT !.strategyChanges = m]
      /\ [usage EXCEPT !.modelCalls = @ + n, !.toolCalls = @ + 1, !.retries = m]
           = [acted EXCEPT !.retries = m]
  OBVIOUS
<1>5. called = [usage EXCEPT !.modelCalls = @ + n]
  OBVIOUS
<1> HIDE DEF read, wrote, called, acted
<1>6. /\ [read EXCEPT !.modelCalls = usage.modelCalls + n] \in RunUsage
      /\ [wrote EXCEPT !.modelCalls = usage.modelCalls + n] \in RunUsage
      /\ [called EXCEPT !.strategyChanges = m] \in RunUsage
      /\ [acted EXCEPT !.retries = m] \in RunUsage
  BY <1>1, <1>2, <1>3, CounterType, Zenon
<1> QED
  BY <1>2, <1>4, <1>5, <1>6, Zenon

\* Every step of the run preserves the types.
LEMMA TypeStep == TypeOK /\ [Next]_vars => TypeOK'
<1> SUFFICES ASSUME TypeOK, [Next]_vars PROVE TypeOK'
  OBVIOUS
<1> USE DEF TypeOK, Awaits, RunStatus, TerminalEvents
<1>0. \A n \in EmbeddingCalls \cup (1 .. CallsPerRequest) : n \in Nat
  BY LimitsAssumption DEF EmbeddingCalls
<1>1. CASE Start
  BY <1>1 DEF Start
<1>2. ASSUME NEW calls \in EmbeddingCalls, RetrieveMemory(calls)
      PROVE  TypeOK'
  BY <1>2, <1>0, UsageType DEF RetrieveMemory
<1>3. ASSUME NEW calls \in EmbeddingCalls, WriteRecord(calls)
      PROVE  TypeOK'
  <2>1. /\ Head(pending) \in MemoryRecord /\ Tail(pending) \in Seq(MemoryRecord)
        /\ Len(pending) > 1 => Tail(pending) # << >>
    <3>1. pending \in Seq(MemoryRecord) /\ pending # << >>
      BY <1>3 DEF WriteRecord
    <3>2. /\ Head(pending) \in MemoryRecord /\ Tail(pending) \in Seq(MemoryRecord)
          /\ Len(Tail(pending)) = Len(pending) - 1
      BY <3>1, HeadTailProperties
    <3>3. \A n \in Nat : n > 1 => n - 1 # 0
      OBVIOUS
    <3>4. Len(pending) \in Nat
      BY <3>1, LenProperties
    <3> QED
      BY <3>2, <3>3, <3>4, EmptySeq, Zenon
  <2>2. Len(pending) > 1 => pending[2].task \in Nat
    <3>1. Len(pending) > 1 => pending[2] \in MemoryRecord
      OBVIOUS
    <3> QED
      BY <3>1 DEF MemoryRecord
  <2>3. plan' \in [version : Nat, strategy : Nat, tasks : Seq(Task)]
    <3>1. "completed" \in TaskStatus /\ plan.tasks \in Seq(Task)
      BY DEF TaskStatus
    <3>2. WithTaskStatus(plan.tasks, task, "completed") \in Seq(Task)
      BY <3>1, WithTaskStatusTasks
    <3> QED
      BY <1>3, <3>2 DEF WriteRecord
  <2>4. usage' \in RunUsage
    BY <1>3, <1>0, UsageType DEF WriteRecord
  <2>5. lessons' \in Seq(Nat)
    BY <1>3, <2>2 DEF WriteRecord
  <2>6. pending' \in Seq(MemoryRecord) /\ written' \in Seq(MemoryRecord)
    BY <1>3, <2>1 DEF WriteRecord
  <2>7. /\ pc' \in {"writing", "head", "revising"}
        /\ pc' = "writing" => pending' # << >>
    BY <1>3, <2>1 DEF WriteRecord
  <2> QED
    BY <1>3, <2>3, <2>4, <2>5, <2>6, <2>7 DEF WriteRecord
<1>4. ASSUME NEW calls \in EmbeddingCalls, EnvironmentThrows(calls)
      PROVE  TypeOK'
  <2>1. usage' \in RunUsage
    BY <1>4, <1>0, UsageType DEF EnvironmentThrows, SpendModelCalls
  <2>2. status' \in RunStatus /\ terminal' \in Seq(TerminalEvents)
    <3>1. CASE IsFinished
      <4>1. << status, terminal >>' = << status, terminal >>
        BY <1>4, <3>1, Zenon DEF EnvironmentThrows, Catch
      <4> QED
        BY <4>1
    <3>2. CASE ~ IsFinished
      <4>1. /\ status' = "failed"
            /\ terminal' = Append(terminal, "GOAL_FAILED:unrecoverable")
        BY <1>4, <3>2, Zenon DEF EnvironmentThrows, Catch
      <4> QED
        BY <4>1
    <3> QED
      BY <3>1, <3>2
  <2> QED
    BY <1>4, <2>1, <2>2 DEF EnvironmentThrows, Catch
<1>5. CASE StopAtLimit
  BY <1>5 DEF StopAtLimit
<1>6. CASE CompleteWhenNoTaskLeft
  BY <1>6 DEF CompleteWhenNoTaskLeft, CompleteGoal, NoTaskId
<1>7. CASE BeginIteration
  <2>1. plan.tasks \in Seq(Task) /\ "in_progress" \in TaskStatus
    BY DEF TaskStatus
  <2>2. PICK i \in Runnable(plan.tasks) : NextTask(plan.tasks) = plan.tasks[i]
    BY <1>7, <2>1, NextTaskRunnable DEF BeginIteration
  <2>3. NextTask(plan.tasks).id \in Nat
    <3>1. plan.tasks[i] \in Task
      BY <2>1 DEF Runnable
    <3> QED
      BY <2>2, <3>1 DEF Task
  <2>4. WithTaskStatus(plan.tasks, NextTask(plan.tasks).id, "in_progress") \in Seq(Task)
    BY <2>1, WithTaskStatusTasks
  <2>5. plan' \in [version : Nat, strategy : Nat, tasks : Seq(Task)]
    BY <1>7, <2>4 DEF BeginIteration
  <2>6. usage' \in RunUsage
    BY <1>7, <1>0, UsageType DEF BeginIteration
  <2> QED
    BY <1>7, <2>3, <2>5, <2>6 DEF BeginIteration
<1>8. ASSUME NEW calls \in 1 .. CallsPerRequest,
             NEW proposals \in Proposals(<< >>), CreateInitialPlan(calls, proposals)
      PROVE  TypeOK'
  <2>1. << >> \in Seq(Task)
    BY EmptySeq
  <2>2. PICK n \in Nat \ {0} : proposals \in [1 .. n -> Nat] /\ Len(proposals) = n
    BY <2>1, ProposalType
  <2>3. InitialTasks(proposals) \in Seq(Task)
    BY <2>2, InitialTasksContent
  <2>4. FreshUpTo(<< >>, proposals, Len(proposals)) \in Nat
    BY <2>2, FreshCount
  <2>5. usage' \in RunUsage
    BY <1>8, <1>0, UsageType DEF CreateInitialPlan, SpendModelCalls
  <2> QED
    BY <1>8, <2>3, <2>4, <2>5 DEF CreateInitialPlan
<1>9. ASSUME NEW calls \in 1 .. CallsPerRequest, SelectGiveUp(calls)
      PROVE  TypeOK'
  <2>1. usage' \in RunUsage
    BY <1>9, <1>0, UsageType DEF SelectGiveUp, SpendModelCalls
  <2> QED
    BY <1>9, <2>1 DEF SelectGiveUp
<1>10. ASSUME NEW calls \in 1 .. CallsPerRequest, SelectFinish(calls)
       PROVE  TypeOK'
  BY <1>10, <1>0, UsageType DEF SelectFinish, SpendModelCalls
<1>11. ASSUME NEW calls \in 1 .. CallsPerRequest, SelectAct(calls)
       PROVE  TypeOK'
  <2>1. usage.retries \in Nat /\ usage.retries + 1 \in Nat
    BY SMTT(30) DEF RunUsage
  <2>2. usage' \in RunUsage
    BY <1>11, <1>0, <2>1, UsageType DEF SelectAct
  <2> QED
    BY <1>11, <2>2 DEF SelectAct
<1>12. ASSUME NEW calls \in 1 .. CallsPerRequest,
              NEW proposals \in Proposals(plan.tasks), NEW changed \in BOOLEAN,
              RevisePlan(calls, proposals, changed)
       PROVE  TypeOK'
  <2>1. plan.tasks \in Seq(Task)
    OBVIOUS
  <2>2. PICK n \in Nat \ {0} : proposals \in [1 .. n -> Nat] /\ Len(proposals) = n
    BY <2>1, ProposalType
  <2>3. RevisedTasks(plan.tasks, proposals, lastTaskId) \in Seq(Task)
    BY <2>1, <2>2, RevisedTasksContent DEF RevisionOf
  <2>4. FreshUpTo(plan.tasks, proposals, Len(proposals)) \in Nat
    BY <2>2, FreshCount
  <2>5. usage' \in RunUsage
    <3>1. usage.strategyChanges \in Nat /\ usage.strategyChanges + 1 \in Nat
      BY SMTT(30) DEF RunUsage
    <3> QED
      BY <1>12, <1>0, <3>1, UsageType DEF RevisePlan
  <2>6. plan' \in [version : Nat, strategy : Nat, tasks : Seq(Task)]
    BY <1>12, <2>3, SMTT(30) DEF RevisePlan
  <2>7. lastTaskId' \in Nat
    BY <1>12, <2>4, SMTT(30) DEF RevisePlan
  <2> QED
    BY <1>12, <2>5, <2>6, <2>7 DEF RevisePlan
<1>13. ASSUME NEW calls \in 1 .. CallsPerRequest, ModelRequestThrows(calls)
       PROVE  TypeOK'
  <2>1. usage' \in RunUsage
    BY <1>13, <1>0, UsageType DEF ModelRequestThrows, SpendModelCalls
  <2>2. status' \in RunStatus /\ terminal' \in Seq(TerminalEvents)
    <3>1. CASE IsFinished
      <4>1. << status, terminal >>' = << status, terminal >>
        BY <1>13, <3>1, Zenon DEF ModelRequestThrows, Catch
      <4> QED
        BY <4>1
    <3>2. CASE ~ IsFinished
      <4>1. /\ status' = "failed"
            /\ terminal' = Append(terminal, "GOAL_FAILED:unrecoverable")
        BY <1>13, <3>2, Zenon DEF ModelRequestThrows, Catch
      <4> QED
        BY <4>1
    <3> QED
      BY <3>1, <3>2
  <2> QED
    BY <1>13, <2>1, <2>2 DEF ModelRequestThrows, Catch
<1>14. ASSUME NEW result \in {"ok", "error"}, Observe(result)
       PROVE  TypeOK'
  BY <1>14 DEF Observe
<1>15. ASSUME NEW verdict \in Verdicts, NEW ingested \in BOOLEAN,
              Evaluate(verdict, ingested)
       PROVE  TypeOK'
  <2>1. verdict \in OutcomeVerdict
    BY VerdictsAssumption
  <2>2. /\ RecordsOf(verdict, ingested) \in Seq(MemoryRecord)
        /\ RecordsOf(verdict, ingested) # << >>
    <3>1. RecordsOf(verdict, ingested) \in Seq(MemoryRecord)
      BY <2>1, RecordsType
    <3>2. Len(RecordsOf(verdict, ingested)) \in 2 .. 4 /\ 0 \notin 2 .. 4
      BY <2>1, RecordsType
    <3> QED
      BY <3>1, <3>2, EmptySeq, Zenon
  <2>3. [task |-> task, action |-> usage.toolCalls, verdict |-> verdict] \in Attempt
    BY <2>1 DEF Attempt, RunUsage
  <2> QED
    BY <1>15, <2>1, <2>2, <2>3 DEF Evaluate
<1>16. ASSUME NEW verdict \in Verdicts, AcceptClaim(verdict)
       PROVE  TypeOK'
  <2>1. verdict \in OutcomeVerdict
    BY VerdictsAssumption
  <2>2. WithRemainingTasksSkipped(plan.tasks) \in Seq(Task)
    BY WithRemainingTasksSkippedTasks
  <2>3. plan' \in [version : Nat, strategy : Nat, tasks : Seq(Task)]
    BY <1>16, <2>2 DEF AcceptClaim
  <2> QED
    BY <1>16, <2>1, <2>3 DEF AcceptClaim, CompleteGoal, NoTaskId
<1>17. ASSUME NEW verdict \in Verdicts, RejectClaim(verdict)
       PROVE  TypeOK'
  BY <1>17, VerdictsAssumption DEF RejectClaim
<1>18. CASE UNCHANGED vars
  BY <1>18 DEF vars
<1> QED
  BY <1>1, <1>2, <1>3, <1>4, <1>5, <1>6, <1>7, <1>8, <1>9, <1>10, <1>11, <1>12,
     <1>13, <1>14, <1>15, <1>16, <1>17, <1>18
     DEF Next, MemoryStep, ModelStep, EvaluatorStep

\* The variables of a run keep their types.
THEOREM RunTypes == Spec => []TypeOK
<1>1. Init => TypeOK
  BY EmptySeq DEF Init, TypeOK, TerminalEvents, Awaits, RunStatus, ZeroUsage, RunUsage, NoTaskId
<1> QED
  BY <1>1, TypeStep, PTL DEF Spec

-----------------------------------------------------------------------------
(* The lifecycle. *)

\* Where the run is suspended says how far its session is: it is constructed
\* before it is run, and it returns exactly when its session is finished.
RunPhase ==
  /\ pc = "constructed" <=> status = "created"
  /\ pc = "returned" <=> status \in Lifecycle!FinalStatus

\* While the run is under way, it goes on or ends once.
LifecycleGoesOn ==
  /\ pc \notin {"constructed", "returned"}
  /\ pc' \notin {"constructed", "returned"}
  /\ UNCHANGED << status, terminal >>

LifecycleEnds ==
  /\ pc \notin {"constructed", "returned"}
  /\ pc' = "returned"
  /\ \E final \in Lifecycle!FinalStatus :
       status' = final /\ terminal' = Append(terminal, Lifecycle!EventOf(final))

\* The catch block ends a run that is under way.
LEMMA CatchEnds ==
  ASSUME TypeOK, RunPhase, Catch, pc \notin {"constructed", "returned"}
  PROVE  LifecycleEnds
<1>1. status = "running"
  BY DEF TypeOK, RunStatus, RunPhase, Lifecycle!FinalStatus
<1>2. ~ IsFinished
  BY <1>1 DEF IsFinished
<1>3. /\ pc' = "returned"
      /\ status' = "failed"
      /\ terminal' = Append(terminal, "GOAL_FAILED:unrecoverable")
  BY <1>2, Zenon DEF Catch
<1> QED
  BY <1>3 DEF LifecycleEnds, Lifecycle!FinalStatus, Lifecycle!EventOf

\* Every step starts the run, goes on with it, ends it, or stutters.
LEMMA StepPhase ==
  ASSUME TypeOK, RunPhase, [Next]_vars
  PROVE  Start \/ LifecycleGoesOn \/ LifecycleEnds \/ UNCHANGED << pc, status, terminal >>
<1>1. ASSUME NEW calls \in EmbeddingCalls, RetrieveMemory(calls)
      PROVE  LifecycleGoesOn
  BY <1>1 DEF RetrieveMemory, LifecycleGoesOn
<1>2. ASSUME NEW calls \in EmbeddingCalls, WriteRecord(calls)
      PROVE  LifecycleGoesOn
  BY <1>2 DEF WriteRecord, LifecycleGoesOn
<1>3. ASSUME NEW calls \in EmbeddingCalls, EnvironmentThrows(calls)
      PROVE  LifecycleEnds
  BY <1>3, CatchEnds DEF EnvironmentThrows
<1>4. CASE StopAtLimit
  BY <1>4 DEF StopAtLimit, LifecycleEnds, Lifecycle!FinalStatus, Lifecycle!EventOf
<1>5. CASE CompleteWhenNoTaskLeft
  BY <1>5 DEF CompleteWhenNoTaskLeft, CompleteGoal, LifecycleEnds,
              Lifecycle!FinalStatus, Lifecycle!EventOf
<1>6. CASE BeginIteration
  BY <1>6 DEF BeginIteration, LifecycleGoesOn
<1>7. ASSUME NEW calls \in 1 .. CallsPerRequest,
             NEW proposals \in Proposals(<< >>), CreateInitialPlan(calls, proposals)
      PROVE  LifecycleGoesOn
  BY <1>7 DEF CreateInitialPlan, LifecycleGoesOn
<1>8. ASSUME NEW calls \in 1 .. CallsPerRequest, SelectGiveUp(calls)
      PROVE  LifecycleEnds
  BY <1>8 DEF SelectGiveUp, LifecycleEnds, Lifecycle!FinalStatus, Lifecycle!EventOf
<1>9. ASSUME NEW calls \in 1 .. CallsPerRequest, SelectFinish(calls) \/ SelectAct(calls)
      PROVE  LifecycleGoesOn
  BY <1>9 DEF SelectFinish, SelectAct, LifecycleGoesOn
<1>10. ASSUME NEW calls \in 1 .. CallsPerRequest,
              NEW proposals \in Proposals(plan.tasks), NEW changed \in BOOLEAN,
              RevisePlan(calls, proposals, changed)
       PROVE  LifecycleGoesOn
  BY <1>10 DEF RevisePlan, LifecycleGoesOn
<1>11. ASSUME NEW calls \in 1 .. CallsPerRequest, ModelRequestThrows(calls)
       PROVE  LifecycleEnds
  BY <1>11, CatchEnds DEF ModelRequestThrows
<1>12. ASSUME NEW result \in {"ok", "error"}, Observe(result)
       PROVE  LifecycleGoesOn
  BY <1>12 DEF Observe, LifecycleGoesOn
<1>13. ASSUME NEW verdict \in Verdicts, NEW ingested \in BOOLEAN,
              Evaluate(verdict, ingested)
       PROVE  LifecycleGoesOn
  BY <1>13 DEF Evaluate, LifecycleGoesOn
<1>14. ASSUME NEW verdict \in Verdicts, AcceptClaim(verdict)
       PROVE  LifecycleEnds
  BY <1>14 DEF AcceptClaim, CompleteGoal, LifecycleEnds, Lifecycle!FinalStatus,
               Lifecycle!EventOf
<1>15. ASSUME NEW verdict \in Verdicts, RejectClaim(verdict)
       PROVE  LifecycleGoesOn
  BY <1>15 DEF RejectClaim, LifecycleGoesOn
<1>16. CASE UNCHANGED vars
  BY <1>16 DEF vars
<1> QED
  BY <1>1, <1>2, <1>3, <1>4, <1>5, <1>6, <1>7, <1>8, <1>9, <1>10, <1>11, <1>12,
     <1>13, <1>14, <1>15, <1>16
     DEF Next, MemoryStep, ModelStep, EvaluatorStep

\* A step of the run is a step of the lifecycle or leaves it alone.
LEMMA LifecycleStep ==
  TypeOK /\ RunPhase /\ [Next]_vars
    => RunPhase' /\ [Lifecycle!LifecycleNext]_(Lifecycle!lifecycle)
<1> SUFFICES ASSUME TypeOK, RunPhase, [Next]_vars
             PROVE  RunPhase' /\ [Lifecycle!LifecycleNext]_(Lifecycle!lifecycle)
  OBVIOUS
<1> USE DEF RunPhase, Lifecycle!LifecycleNext, Lifecycle!lifecycle
<1>1. CASE Start
  BY <1>1 DEF Start, Lifecycle!Begin, Lifecycle!FinalStatus
<1>2. CASE LifecycleGoesOn
  BY <1>2 DEF LifecycleGoesOn
<1>3. CASE LifecycleEnds
  <2>1. status = "running"
    BY <1>3 DEF LifecycleEnds, TypeOK, RunStatus, Lifecycle!FinalStatus
  <2>2. PICK final \in Lifecycle!FinalStatus :
          /\ status' = final
          /\ terminal' = Append(terminal, Lifecycle!EventOf(final))
    BY <1>3 DEF LifecycleEnds
  <2>3. Lifecycle!End(final)
    BY <2>1, <2>2 DEF Lifecycle!End
  <2>4. RunPhase'
    BY <1>3, <2>2 DEF LifecycleEnds, Lifecycle!FinalStatus
  <2> QED
    BY <2>3, <2>4
<1>4. CASE UNCHANGED << pc, status, terminal >>
  BY <1>4
<1> QED
  BY <1>1, <1>2, <1>3, <1>4, StepPhase

\* The control loop implements the lifecycle.
THEOREM RunImplementsLifecycle == Spec => ImplementsLifecycle
<1>1. Init => RunPhase /\ Lifecycle!LifecycleInit
  BY DEF Init, RunPhase, Lifecycle!LifecycleInit, Lifecycle!FinalStatus
<1>2. Spec => []TypeOK
  BY RunTypes
<1> QED
  BY <1>1, <1>2, LifecycleStep, PTL
     DEF Spec, ImplementsLifecycle, Lifecycle!LifecycleSpec

-----------------------------------------------------------------------------
(* Resource limits. *)

\* The embedding calls n puts make at most.
Puts(n) == IF SemanticIndex THEN n ELSE 0

\* The records an attempt puts at most: a success may come with a lesson.
RecordLimit == IF evaluation = "success" THEN 4 ELSE 3

\* The inductive form of UsageBounded: what each await leaves of the limits.
\* An iteration begins strictly below every limit; a request adds at most
\* CallsPerRequest calls, and a put still to come at most one.
LimitsInv ==
  /\ usage.iterations <= MaxIterations
  /\ usage.toolCalls <= MaxToolCalls
  /\ pc \in {"constructed", "retrieving"} => usage.modelCalls = 0
  /\ pc = "planning" => usage.modelCalls <= Puts(1)
  /\ pc \in {"selecting", "executing", "evaluating", "claiming", "writing", "revising"}
       => MaxIterations > 0 /\ MaxToolCalls > 0 /\ MaxModelCalls > 0
  /\ pc = "selecting" => /\ usage.toolCalls < MaxToolCalls
                         /\ usage.modelCalls < MaxModelCalls
  /\ pc \in {"executing", "evaluating", "claiming"}
       => usage.modelCalls < MaxModelCalls + CallsPerRequest
  /\ pc = "writing" => /\ Len(pending) <= RecordLimit
                       /\ usage.modelCalls + Puts(Len(pending))
                            < MaxModelCalls + CallsPerRequest + Puts(RecordLimit)
  /\ pc = "revising"
       => usage.modelCalls < MaxModelCalls + CallsPerRequest + Puts(3)
  /\ pc \in {"head", "returned"} => usage.modelCalls <= ModelCallCeiling

\* What the steps add to the counters the limits are about.
LEMMA UsageAdds ==
  ASSUME usage \in RunUsage, NEW n \in Nat, NEW u
  PROVE  /\ \/ u = [usage EXCEPT !.modelCalls = @ + n]
            \/ u = [usage EXCEPT !.memoryReads = @ + 1, !.modelCalls = @ + n]
            \/ u = [usage EXCEPT !.memoryWrites = @ + 1, !.modelCalls = @ + n]
            => /\ u.iterations = usage.iterations
               /\ u.toolCalls = usage.toolCalls
               /\ u.modelCalls = usage.modelCalls + n
         /\ u = [usage EXCEPT !.iterations = @ + 1]
            => /\ u.iterations = usage.iterations + 1
               /\ u.toolCalls = usage.toolCalls
               /\ u.modelCalls = usage.modelCalls
<1>1. u = [usage EXCEPT !.modelCalls = @ + n]
      => /\ u.iterations = usage.iterations
         /\ u.toolCalls = usage.toolCalls
         /\ u.modelCalls = usage.modelCalls + n
  BY DEF RunUsage
<1>2. u = [usage EXCEPT !.memoryReads = @ + 1, !.modelCalls = @ + n]
      => /\ u.iterations = usage.iterations
         /\ u.toolCalls = usage.toolCalls
         /\ u.modelCalls = usage.modelCalls + n
  BY DEF RunUsage
<1>3. u = [usage EXCEPT !.memoryWrites = @ + 1, !.modelCalls = @ + n]
      => /\ u.iterations = usage.iterations
         /\ u.toolCalls = usage.toolCalls
         /\ u.modelCalls = usage.modelCalls + n
  BY DEF RunUsage
<1>4. u = [usage EXCEPT !.iterations = @ + 1]
      => /\ u.iterations = usage.iterations + 1
         /\ u.toolCalls = usage.toolCalls
         /\ u.modelCalls = usage.modelCalls
  BY DEF RunUsage
<1> QED
  BY <1>1, <1>2, <1>3, <1>4

\* A search or a put makes one embedding call at most.
LEMMA EmbeddingBound ==
  \A n \in EmbeddingCalls : n \in Nat /\ n <= Puts(1)
BY LimitsAssumption DEF EmbeddingCalls, Puts

\* What each await leaves of the limits is preserved by every step.
LEMMA LimitsStep == TypeOK /\ LimitsInv /\ [Next]_vars => LimitsInv'
<1> SUFFICES ASSUME TypeOK, LimitsInv, [Next]_vars PROVE LimitsInv'
  OBVIOUS
<1>a. /\ MaxIterations \in Nat /\ MaxToolCalls \in Nat /\ MaxModelCalls \in Nat
      /\ CallsPerRequest \in Nat \ {0}
  BY LimitsAssumption
<1>b. /\ usage \in RunUsage
      /\ usage.iterations \in Nat /\ usage.toolCalls \in Nat /\ usage.modelCalls \in Nat
  BY DEF TypeOK, RunUsage
<1>c. \A n \in 1 .. CallsPerRequest : n \in Nat /\ n <= CallsPerRequest
  BY <1>a
<1> USE DEF LimitsInv, ModelCallCeiling, Puts, RecordLimit
<1>1. CASE Start
  BY <1>1, <1>a, <1>b DEF Start
<1>2. ASSUME NEW calls \in EmbeddingCalls, RetrieveMemory(calls)
      PROVE  LimitsInv'
  <2>1. calls \in Nat /\ calls <= Puts(1)
    BY EmbeddingBound
  <2>2. /\ usage'.iterations = usage.iterations
        /\ usage'.toolCalls = usage.toolCalls
        /\ usage'.modelCalls = usage.modelCalls + calls
    BY <1>2, <1>b, <2>1, UsageAdds DEF RetrieveMemory
  <2> QED
    BY <1>2, <1>a, <1>b, <2>1, <2>2 DEF RetrieveMemory
<1>3. ASSUME NEW calls \in EmbeddingCalls, WriteRecord(calls)
      PROVE  LimitsInv'
  <2>1. calls \in Nat /\ calls <= Puts(1)
    BY EmbeddingBound
  <2>2. /\ usage'.iterations = usage.iterations
        /\ usage'.toolCalls = usage.toolCalls
        /\ usage'.modelCalls = usage.modelCalls + calls
    BY <1>3, <1>b, <2>1, UsageAdds DEF WriteRecord
  <2>3. /\ pending \in Seq(MemoryRecord) /\ pending # << >>
        /\ pc = "writing" /\ pending' = Tail(pending) /\ evaluation' = evaluation
    BY <1>3 DEF WriteRecord, TypeOK
  <2>4. Len(pending) \in Nat /\ Len(pending') = Len(pending) - 1
    BY <2>3, HeadTailProperties, LenProperties
  <2>5. \/ pc' = "writing"
        \/ pc' = "head" /\ evaluation = "success" /\ Len(pending) = 1
        \/ pc' = "revising" /\ evaluation # "success" /\ Len(pending) = 1
    BY <1>3, <2>3 DEF WriteRecord
  <2>6. /\ usage.modelCalls + Puts(Len(pending))
             < MaxModelCalls + CallsPerRequest + Puts(RecordLimit)
        /\ Len(pending) <= RecordLimit /\ RecordLimit' = RecordLimit
        /\ usage.iterations <= MaxIterations /\ usage.toolCalls <= MaxToolCalls
        /\ MaxIterations > 0 /\ MaxToolCalls > 0 /\ MaxModelCalls > 0
    BY <2>3
  <2> HIDE DEF LimitsInv
  <2>7. CASE pc' = "writing"
    BY <1>a, <1>b, <2>1, <2>2, <2>4, <2>6, <2>7 DEF LimitsInv
  <2>8. CASE pc' = "head" /\ evaluation = "success" /\ Len(pending) = 1
    BY <1>a, <1>b, <2>1, <2>2, <2>6, <2>8 DEF LimitsInv
  <2>9. CASE pc' = "revising" /\ evaluation # "success" /\ Len(pending) = 1
    BY <1>a, <1>b, <2>1, <2>2, <2>6, <2>9 DEF LimitsInv
  <2> QED
    BY <2>5, <2>7, <2>8, <2>9
<1>4. ASSUME NEW calls \in EmbeddingCalls, EnvironmentThrows(calls)
      PROVE  LimitsInv'
  <2>1. calls \in Nat /\ calls <= Puts(1)
    BY EmbeddingBound
  <2>2. /\ usage'.iterations = usage.iterations
        /\ usage'.toolCalls = usage.toolCalls
        /\ usage'.modelCalls = usage.modelCalls + calls
    BY <1>4, <1>b, <2>1, UsageAdds DEF EnvironmentThrows, SpendModelCalls
  <2>3. /\ pc \in {"retrieving", "evaluating", "writing", "claiming"}
        /\ calls > 0 => pc = "retrieving"
        /\ pc' = "returned"
    BY <1>4 DEF EnvironmentThrows, Catch
  <2>4. Len(pending) \in Nat
    BY LenProperties DEF TypeOK
  <2> QED
    BY <1>a, <1>b, <2>1, <2>2, <2>3, <2>4
<1>5. CASE StopAtLimit
  BY <1>5, <1>a, <1>b DEF StopAtLimit
<1>6. CASE CompleteWhenNoTaskLeft
  BY <1>6, <1>a, <1>b DEF CompleteWhenNoTaskLeft, CompleteGoal
<1>7. CASE BeginIteration
  <2>1. /\ usage'.iterations = usage.iterations + 1
        /\ usage'.toolCalls = usage.toolCalls
        /\ usage'.modelCalls = usage.modelCalls
    BY <1>7, <1>b, UsageAdds DEF BeginIteration
  <2>2. /\ usage.iterations < MaxIterations
        /\ usage.toolCalls < MaxToolCalls
        /\ usage.modelCalls < MaxModelCalls
    BY <1>7, <1>a, <1>b DEF BeginIteration, CountedLimitReached
  <2> QED
    BY <1>7, <1>a, <1>b, <2>1, <2>2 DEF BeginIteration
<1>8. ASSUME NEW calls \in 1 .. CallsPerRequest,
             NEW proposals \in Proposals(<< >>), CreateInitialPlan(calls, proposals)
      PROVE  LimitsInv'
  <2>1. /\ usage'.iterations = usage.iterations
        /\ usage'.toolCalls = usage.toolCalls
        /\ usage'.modelCalls = usage.modelCalls + calls
    BY <1>8, <1>b, <1>c, UsageAdds DEF CreateInitialPlan, SpendModelCalls
  <2> QED
    BY <1>8, <1>a, <1>b, <1>c, <2>1 DEF CreateInitialPlan
<1>9. ASSUME NEW calls \in 1 .. CallsPerRequest, SelectGiveUp(calls) \/ SelectFinish(calls)
      PROVE  LimitsInv'
  <2>1. /\ usage'.iterations = usage.iterations
        /\ usage'.toolCalls = usage.toolCalls
        /\ usage'.modelCalls = usage.modelCalls + calls
    BY <1>9, <1>b, <1>c, UsageAdds DEF SelectGiveUp, SelectFinish, SpendModelCalls
  <2> QED
    BY <1>9, <1>a, <1>b, <1>c, <2>1 DEF SelectGiveUp, SelectFinish
<1>10. ASSUME NEW calls \in 1 .. CallsPerRequest, SelectAct(calls)
       PROVE  LimitsInv'
  <2>1. /\ usage'.iterations = usage.iterations
        /\ usage'.toolCalls = usage.toolCalls + 1
        /\ usage'.modelCalls = usage.modelCalls + calls
    <3>1. PICK m : m = IF AttemptsOn(task) = {} THEN usage.retries ELSE usage.retries + 1
      OBVIOUS
    <3>2. usage' = [usage EXCEPT !.modelCalls = @ + calls, !.toolCalls = @ + 1,
                                 !.retries = m]
      BY <1>10, <3>1 DEF SelectAct
    <3>3. calls \in Nat
      BY <1>c
    <3> QED
      BY <1>b, <3>2, <3>3 DEF RunUsage
  <2> QED
    BY <1>10, <1>a, <1>b, <1>c, <2>1 DEF SelectAct
<1>11. ASSUME NEW calls \in 1 .. CallsPerRequest,
              NEW proposals \in Proposals(plan.tasks), NEW changed \in BOOLEAN,
              RevisePlan(calls, proposals, changed)
       PROVE  LimitsInv'
  <2>1. /\ usage'.iterations = usage.iterations
        /\ usage'.toolCalls = usage.toolCalls
        /\ usage'.modelCalls = usage.modelCalls + calls
    <3>1. PICK m : m = IF changed THEN usage.strategyChanges + 1 ELSE usage.strategyChanges
      OBVIOUS
    <3>2. usage' = [usage EXCEPT !.modelCalls = @ + calls, !.strategyChanges = m]
      BY <1>11, <3>1 DEF RevisePlan
    <3>3. calls \in Nat
      BY <1>c
    <3> QED
      BY <1>b, <3>2, <3>3 DEF RunUsage
  <2>2. pc = "revising" /\ pc' = "head"
    BY <1>11 DEF RevisePlan
  <2> QED
    BY <1>a, <1>b, <1>c, <2>1, <2>2
<1>12. ASSUME NEW calls \in 1 .. CallsPerRequest, ModelRequestThrows(calls)
       PROVE  LimitsInv'
  <2>1. /\ usage'.iterations = usage.iterations
        /\ usage'.toolCalls = usage.toolCalls
        /\ usage'.modelCalls = usage.modelCalls + calls
    BY <1>12, <1>b, <1>c, UsageAdds DEF ModelRequestThrows, SpendModelCalls
  <2>2. pc \in {"planning", "selecting", "revising"} /\ pc' = "returned"
    BY <1>12 DEF ModelRequestThrows, Catch
  <2> QED
    BY <1>a, <1>b, <1>c, <2>1, <2>2
<1>13. ASSUME NEW result \in {"ok", "error"}, Observe(result)
       PROVE  LimitsInv'
  BY <1>13, <1>a, <1>b DEF Observe
<1>14. ASSUME NEW verdict \in Verdicts, NEW ingested \in BOOLEAN,
              Evaluate(verdict, ingested)
       PROVE  LimitsInv'
  <2>1. /\ Len(RecordsOf(verdict, ingested)) \in 2 .. 4
        /\ verdict # "success" => Len(RecordsOf(verdict, ingested)) # 4
    BY RecordsType, VerdictsAssumption
  <2>2. /\ pc = "evaluating" /\ pc' = "writing" /\ usage' = usage
        /\ evaluation' = verdict /\ pending' = RecordsOf(verdict, ingested)
    BY <1>14 DEF Evaluate
  <2> HIDE DEF LimitsInv
  <2>3. Len(pending') \in Nat /\ Len(pending') <= RecordLimit'
    <3>1. PICK n : n = Len(pending')
      OBVIOUS
    <3>2. n \in 2 .. 4 /\ (verdict # "success" => n # 4)
      BY <2>1, <2>2, <3>1, Zenon
    <3>3. RecordLimit' = IF verdict = "success" THEN 4 ELSE 3
      BY <2>2
    <3>4. n \in Nat /\ n <= RecordLimit'
      BY <3>2, <3>3
    <3> QED
      BY <3>1, <3>4
  <2> QED
    BY <1>a, <1>b, <2>2, <2>3 DEF LimitsInv
<1>15. ASSUME NEW verdict \in Verdicts, AcceptClaim(verdict)
       PROVE  LimitsInv'
  BY <1>15, <1>a, <1>b, SMTT(30) DEF AcceptClaim, CompleteGoal
<1>16. ASSUME NEW verdict \in Verdicts, RejectClaim(verdict)
       PROVE  LimitsInv'
  BY <1>16, <1>a, <1>b DEF RejectClaim
<1>17. CASE UNCHANGED vars
  BY <1>17 DEF vars
<1> QED
  BY <1>1, <1>2, <1>3, <1>4, <1>5, <1>6, <1>7, <1>8, <1>9, <1>10, <1>11, <1>12,
     <1>13, <1>14, <1>15, <1>16, <1>17
     DEF Next, MemoryStep, ModelStep, EvaluatorStep

\* No run exceeds its limits by more than what one iteration may spend.
THEOREM RunUsageBounded == Spec => []UsageBounded
<1>1. Init => LimitsInv
  BY LimitsAssumption DEF Init, ZeroUsage, LimitsInv, Puts, RecordLimit, ModelCallCeiling
<1>2. TypeOK /\ LimitsInv => UsageBounded
  <2> SUFFICES ASSUME TypeOK, LimitsInv PROVE UsageBounded
    OBVIOUS
  <2>1. usage.modelCalls \in Nat /\ Len(pending) \in Nat
    BY LenProperties DEF TypeOK, RunUsage
  <2>2. usage.modelCalls <= ModelCallCeiling
    <3> USE LimitsAssumption DEF LimitsInv, ModelCallCeiling, Puts, RecordLimit
    <3>1. CASE pc \in {"constructed", "retrieving", "planning"}
      BY <2>1, <3>1
    <3>2. CASE pc \in {"selecting", "executing", "evaluating", "claiming"}
      BY <2>1, <3>2
    <3>3. CASE pc = "writing"
      BY <2>1, <3>3
    <3>4. CASE pc = "revising"
      BY <2>1, <3>4
    <3>5. CASE pc \in {"head", "returned"}
      BY <3>5
    <3> QED
      BY <3>1, <3>2, <3>3, <3>4, <3>5 DEF TypeOK, Awaits
  <2> QED
    BY <2>2 DEF LimitsInv, UsageBounded
<1>3. Spec => []TypeOK
  BY RunTypes
<1> QED
  BY <1>1, <1>2, <1>3, LimitsStep, PTL DEF Spec

-----------------------------------------------------------------------------
(* What is left of a run. Liveness itself is TLC's: this is the number that  *)
(* makes it true.                                                            *)

\* The awaits still to come before the next head of the loop, or the end;
\* each record to be put is one.
AwaitsFrom ==
  [constructed |-> 4, retrieving |-> 3, planning |-> 2, head |-> 1, selecting |-> 9,
   executing |-> 8, evaluating |-> 7, claiming |-> 3, revising |-> 2, returned |-> 0]

AwaitsLeft == IF pc = "writing" THEN 2 + Len(pending) ELSE AwaitsFrom[pc]

\* What is left at each await.
LEMMA AwaitsAt ==
  /\ AwaitsFrom["constructed"] = 4 /\ AwaitsFrom["retrieving"] = 3
  /\ AwaitsFrom["planning"] = 2 /\ AwaitsFrom["head"] = 1
  /\ AwaitsFrom["selecting"] = 9 /\ AwaitsFrom["executing"] = 8
  /\ AwaitsFrom["evaluating"] = 7 /\ AwaitsFrom["claiming"] = 3
  /\ AwaitsFrom["revising"] = 2 /\ AwaitsFrom["returned"] = 0
BY DEF AwaitsFrom

\* A natural number of awaits is left, and none only when the run has returned.
LEMMA AwaitsCount ==
  ASSUME NEW at \in Awaits \cup {"constructed", "head", "returned"},
         NEW records \in Seq(MemoryRecord),
         NEW left, left = IF at = "writing" THEN 2 + Len(records) ELSE AwaitsFrom[at]
  PROVE  left \in Nat /\ (left = 0 <=> at = "returned")
<1>1. Len(records) \in Nat
  BY LenProperties
<1> QED
  BY <1>1, AwaitsAt DEF Awaits

\* The steps a run still has at most: nine for each iteration it may begin.
RunStepsLeft ==
  IF pc = "returned" THEN 0 ELSE 9 * (MaxIterations - usage.iterations) + AwaitsLeft

\* A step spends no iteration, or it begins one.
LEMMA IterationsSpent ==
  ASSUME TypeOK, Next
  PROVE  \/ BeginIteration /\ usage'.iterations = usage.iterations + 1
         \/ ~ BeginIteration /\ usage'.iterations = usage.iterations
<1>0. usage \in RunUsage
  BY DEF TypeOK
<1>1. ASSUME NEW calls \in Nat
      PROVE  \A n \in Nat :
               \/ usage' = [usage EXCEPT !.modelCalls = @ + calls]
               \/ usage' = [usage EXCEPT !.memoryReads = @ + 1, !.modelCalls = @ + calls]
               \/ usage' = [usage EXCEPT !.memoryWrites = @ + 1, !.modelCalls = @ + calls]
               \/ usage' = [usage EXCEPT !.modelCalls = @ + calls, !.strategyChanges = n]
               \/ usage' = [usage EXCEPT !.modelCalls = @ + calls, !.toolCalls = @ + 1,
                                         !.retries = n]
               => usage'.iterations = usage.iterations
  BY <1>0 DEF RunUsage
<1>2. usage.strategyChanges \in Nat /\ usage.retries \in Nat
  BY <1>0 DEF RunUsage
<1>3. \A n \in Nat : n + 1 \in Nat
  OBVIOUS
<1>4. 1 .. CallsPerRequest \subseteq Nat /\ EmbeddingCalls \subseteq Nat
  BY LimitsAssumption DEF EmbeddingCalls
<1>5. CASE BeginIteration
  BY <1>0, <1>5 DEF BeginIteration, RunUsage
<1>6. CASE ~ BeginIteration
  <2>1. ASSUME NEW calls \in EmbeddingCalls,
               RetrieveMemory(calls) \/ WriteRecord(calls) \/ EnvironmentThrows(calls)
        PROVE  usage'.iterations = usage.iterations
    BY <1>1, <1>2, <1>4, <2>1
       DEF RetrieveMemory, WriteRecord, EnvironmentThrows, SpendModelCalls
  <2>2. ASSUME NEW calls \in 1 .. CallsPerRequest,
               \/ \E proposals \in Proposals(<< >>) : CreateInitialPlan(calls, proposals)
               \/ SelectGiveUp(calls) \/ SelectFinish(calls) \/ ModelRequestThrows(calls)
        PROVE  usage'.iterations = usage.iterations
    BY <1>1, <1>2, <1>4, <2>2
       DEF CreateInitialPlan, SelectGiveUp, SelectFinish, ModelRequestThrows, SpendModelCalls
  <2>3. ASSUME NEW calls \in 1 .. CallsPerRequest, SelectAct(calls)
        PROVE  usage'.iterations = usage.iterations
    <3>1. PICK n \in Nat : n = IF AttemptsOn(task) = {} THEN usage.retries ELSE usage.retries + 1
      BY <1>2, <1>3
    <3>2. usage' = [usage EXCEPT !.modelCalls = @ + calls, !.toolCalls = @ + 1, !.retries = n]
      BY <2>3, <3>1 DEF SelectAct
    <3> QED
      BY <1>1, <1>4, <3>2
  <2>4. ASSUME NEW calls \in 1 .. CallsPerRequest, NEW proposals, NEW changed \in BOOLEAN,
               RevisePlan(calls, proposals, changed)
        PROVE  usage'.iterations = usage.iterations
    <3>1. PICK n \in Nat : n = IF changed THEN usage.strategyChanges + 1 ELSE usage.strategyChanges
      BY <1>2, <1>3
    <3>2. usage' = [usage EXCEPT !.modelCalls = @ + calls, !.strategyChanges = n]
      BY <2>4, <3>1 DEF RevisePlan
    <3> QED
      BY <1>1, <1>4, <3>2
  <2>5. ASSUME \/ Start \/ StopAtLimit \/ CompleteWhenNoTaskLeft
               \/ \E result \in {"ok", "error"} : Observe(result)
               \/ EvaluatorStep
        PROVE  usage'.iterations = usage.iterations
    <3>1. usage' = usage
      BY <2>5 DEF Start, StopAtLimit, CompleteWhenNoTaskLeft, Observe, EvaluatorStep,
                  Evaluate, AcceptClaim, RejectClaim
    <3> QED
      BY <3>1
  <2> QED
    BY <1>6, <2>1, <2>2, <2>3, <2>4, <2>5 DEF Next, MemoryStep, ModelStep
<1> QED
  BY <1>5, <1>6

\* Whatever an await leads to, fewer are left before the head of the loop.
LEMMA AwaitsRunOut ==
  ASSUME TypeOK, LimitsInv, Next
  PROVE  /\ ~ BeginIteration => AwaitsLeft' < AwaitsLeft
         /\ BeginIteration => AwaitsLeft = 1 /\ AwaitsLeft' = 9
<1>1. Len(pending) \in Nat
  BY LenProperties DEF TypeOK
<1>2. AwaitsLeft \in Nat /\ AwaitsLeft' \in Nat /\ (AwaitsLeft = 0 <=> pc = "returned")
  BY TypeStep, AwaitsCount DEF TypeOK, AwaitsLeft
<1>3. ASSUME pc' = "returned", pc # "returned" PROVE AwaitsLeft' < AwaitsLeft
  <2>1. AwaitsLeft' = 0
    BY <1>3, AwaitsAt DEF AwaitsLeft
  <2> QED
    BY <1>2, <1>3, <2>1
<1>4. CASE Start \/ \E calls \in EmbeddingCalls : RetrieveMemory(calls)
  <2>1. \/ pc = "constructed" /\ pc' = "retrieving"
        \/ pc = "retrieving" /\ pc' = "planning"
    BY <1>4 DEF Start, RetrieveMemory
  <2> QED
    BY <2>1, AwaitsAt DEF AwaitsLeft, BeginIteration
<1>5. ASSUME NEW calls \in EmbeddingCalls, WriteRecord(calls)
      PROVE  AwaitsLeft' < AwaitsLeft /\ ~ BeginIteration
  <2>1. pending' = Tail(pending) /\ Len(pending) >= 1 /\ pc = "writing"
    BY <1>1, <1>5 DEF WriteRecord
  <2>2. Len(pending') = Len(pending) - 1
    BY <2>1 DEF TypeOK
  <2>3. AwaitsLeft = 2 + Len(pending)
    BY <2>1 DEF AwaitsLeft
  <2>4. CASE pc' = "writing"
    <3>1. AwaitsLeft' = 2 + Len(pending')
      BY <2>4 DEF AwaitsLeft
    <3> QED
      BY <1>1, <2>1, <2>2, <2>3, <3>1 DEF BeginIteration
  <2>5. CASE pc' \in {"head", "revising"}
    <3>1. AwaitsLeft' \in {1, 2}
      BY <2>5, AwaitsAt DEF AwaitsLeft
    <3> QED
      BY <1>1, <2>1, <2>3, <3>1 DEF BeginIteration
  <2> QED
    BY <1>5, <2>1, <2>4, <2>5 DEF WriteRecord
<1>6. CASE StopAtLimit \/ CompleteWhenNoTaskLeft
  BY <1>3, <1>6 DEF StopAtLimit, CompleteWhenNoTaskLeft, CompleteGoal, BeginIteration
<1>7. CASE BeginIteration
  BY <1>7, AwaitsAt DEF BeginIteration, AwaitsLeft
<1>8. ASSUME NEW calls, \/ EnvironmentThrows(calls) \/ ModelRequestThrows(calls)
                        \/ SelectGiveUp(calls)
      PROVE  AwaitsLeft' < AwaitsLeft /\ ~ BeginIteration
  BY <1>3, <1>8 DEF EnvironmentThrows, ModelRequestThrows, SelectGiveUp, Catch, BeginIteration
<1>9. ASSUME NEW calls, NEW proposals, NEW changed,
             \/ CreateInitialPlan(calls, proposals) \/ SelectFinish(calls) \/ SelectAct(calls)
             \/ RevisePlan(calls, proposals, changed)
      PROVE  AwaitsLeft' < AwaitsLeft /\ ~ BeginIteration
  <2>1. \/ pc \in {"planning", "revising"} /\ pc' = "head"
        \/ pc = "selecting" /\ pc' \in {"claiming", "executing"}
    BY <1>9 DEF CreateInitialPlan, SelectFinish, SelectAct, RevisePlan
  <2> QED
    BY <2>1, AwaitsAt DEF AwaitsLeft, BeginIteration
<1>10. ASSUME NEW result, Observe(result)
       PROVE  AwaitsLeft' < AwaitsLeft /\ ~ BeginIteration
  BY <1>10, AwaitsAt DEF Observe, AwaitsLeft, BeginIteration
<1>11. ASSUME NEW verdict \in Verdicts, NEW ingested \in BOOLEAN, Evaluate(verdict, ingested)
       PROVE  AwaitsLeft' < AwaitsLeft /\ ~ BeginIteration
  <2>1. Len(RecordsOf(verdict, ingested)) \in 2 .. 4
    BY RecordsType, VerdictsAssumption
  <2>2. pc = "evaluating" /\ pc' = "writing" /\ pending' = RecordsOf(verdict, ingested)
    BY <1>11 DEF Evaluate
  <2>3. AwaitsLeft = 7 /\ AwaitsLeft' = 2 + Len(pending')
    BY <2>2, AwaitsAt DEF AwaitsLeft
  <2> QED
    <3>1. PICK n \in 2 .. 4 : n = Len(pending')
      BY <2>1, <2>2
    <3> QED
      BY <2>2, <2>3, <3>1 DEF BeginIteration
<1>12. ASSUME NEW verdict, AcceptClaim(verdict) \/ RejectClaim(verdict)
       PROVE  AwaitsLeft' < AwaitsLeft /\ ~ BeginIteration
  <2>1. pc = "claiming" /\ pc' \in {"returned", "revising"}
    BY <1>12 DEF AcceptClaim, RejectClaim, CompleteGoal
  <2> QED
    BY <2>1, AwaitsAt DEF AwaitsLeft, BeginIteration
<1> QED
  BY <1>4, <1>5, <1>6, <1>7, <1>8, <1>9, <1>10, <1>11, <1>12
     DEF Next, MemoryStep, ModelStep, EvaluatorStep

\* A run that has returned takes no step, and every step of one that has not
\* leaves less to do: whatever the model, the tools and the evaluator answer,
\* the loop of run() does not go on for ever.
THEOREM RunRunsOut ==
  Spec => [](RunStepsLeft \in Nat) /\ [][RunStepsLeft' < RunStepsLeft]_vars
<1>1. ASSUME TypeOK, LimitsInv
      PROVE  RunStepsLeft \in Nat
  <2>2. AwaitsLeft \in Nat
    BY <1>1, AwaitsCount DEF TypeOK, AwaitsLeft
  <2>1. usage.iterations \in Nat /\ usage.iterations <= MaxIterations
    BY <1>1 DEF TypeOK, RunUsage, LimitsInv
  <2> QED
    BY <2>1, <2>2, LimitsAssumption DEF RunStepsLeft
<1>2. ASSUME TypeOK, LimitsInv, Next
      PROVE  RunStepsLeft' < RunStepsLeft
  <2>1. /\ usage.iterations \in Nat /\ MaxIterations \in Nat
        /\ usage.iterations <= MaxIterations
    BY <1>2, LimitsAssumption DEF TypeOK, RunUsage, LimitsInv
  <2>2. AwaitsLeft \in Nat /\ AwaitsLeft' \in Nat
    BY <1>2, TypeStep, AwaitsCount DEF TypeOK, AwaitsLeft
  <2>3. CASE BeginIteration
    <3>1. /\ AwaitsLeft = 1 /\ AwaitsLeft' = 9
          /\ usage'.iterations = usage.iterations + 1
          /\ pc = "head" /\ pc' = "selecting"
      BY <1>2, <2>3, AwaitsRunOut, IterationsSpent DEF BeginIteration
    <3>2. /\ RunStepsLeft = 9 * (MaxIterations - usage.iterations) + 1
          /\ RunStepsLeft' = 9 * (MaxIterations - (usage.iterations + 1)) + 9
      BY <3>1 DEF RunStepsLeft
    <3> QED
      BY <2>1, <3>2
  <2>4. CASE ~ BeginIteration
    <3>1. /\ AwaitsLeft' < AwaitsLeft
          /\ usage'.iterations = usage.iterations
      BY <1>2, <2>4, AwaitsRunOut, IterationsSpent
    <3>2. PICK spare \in Nat : spare = 9 * (MaxIterations - usage.iterations)
      BY <2>1
    <3>3. pc # "returned"
      BY <2>2, <3>1, AwaitsAt DEF AwaitsLeft
    <3>4. /\ RunStepsLeft = spare + AwaitsLeft
          /\ RunStepsLeft' \in {0, spare + AwaitsLeft'}
      BY <3>1, <3>2, <3>3 DEF RunStepsLeft
    <3> QED
      BY <2>2, <3>1, <3>2, <3>4
  <2> QED
    BY <2>3, <2>4
<1>3. Init => LimitsInv
  BY LimitsAssumption DEF Init, ZeroUsage, LimitsInv, Puts, RecordLimit, ModelCallCeiling
<1>4. TypeOK /\ LimitsInv => RunStepsLeft \in Nat
  BY <1>1
<1>5. TypeOK /\ LimitsInv /\ [Next]_vars => [RunStepsLeft' < RunStepsLeft]_vars
  BY <1>2
<1> QED
  BY <1>3, <1>4, <1>5, RunTypes, LimitsStep, PTL DEF Spec

-----------------------------------------------------------------------------
(* The plan and its history. *)

\* Every id stands for one task of the plan and was handed out before; while
\* the run is under way no task waits for another.
Identity ==
  /\ KnownTasks(plan.tasks, lastTaskId)
  /\ SameTask(plan.tasks)
  /\ pc # "returned" => OpenTasks(plan.tasks)

\* Before the first plan there is neither a task nor an attempt.
NothingYet ==
  pc \in {"constructed", "retrieving", "planning"} =>
    plan.tasks = << >> /\ attempts = << >>

\* The task under way is one of the plan's, and not a completed one.
UnderWay ==
  /\ pc \in {"selecting", "executing", "evaluating", "writing"} =>
       \E i \in DOMAIN plan.tasks : plan.tasks[i].id = task
  /\ pc \in {"selecting", "executing", "evaluating"} =>
       task \notin CompletedIds(plan.tasks)

\* The attempt whose records are being put is the last one.
LastAttempt ==
  pc = "writing" => /\ attempts # << >>
                    /\ attempts[Len(attempts)].task = task
                    /\ attempts[Len(attempts)].verdict = evaluation

\* A success completes its task, once its records are put.
Credited ==
  pc # "returned" =>
    \A i \in DOMAIN attempts :
      attempts[i].verdict = "success" =>
        \/ attempts[i].task \in CompletedIds(plan.tasks)
        \/ pc = "writing" /\ i = Len(attempts)

\* The loop goes on with a task left to do, or right after a success.
HeadOpen ==
  pc = "head" =>
    \/ evaluation = "success"
    \/ \E i \in DOMAIN plan.tasks : plan.tasks[i].status # "completed"

\* The inductive invariant of the plan.
PlanInv ==
  /\ Identity
  /\ NothingYet
  /\ UnderWay
  /\ LastAttempt
  /\ Credited
  /\ HeadOpen
  /\ CompletionFollowsSuccess
  /\ CompletedTasksConfirmed
  /\ NoAttemptAfterSuccess

\* A run that goes on is not completed.
LEMMA NotCompleted ==
  ASSUME RunPhase, pc # "returned"
  PROVE  status # "completed"
BY DEF RunPhase, Lifecycle!FinalStatus

\* Steps that leave the plan, the attempts and the verdict alone.
QuietMove ==
  \/ pc' = "returned"
  \/ pc = "constructed" /\ pc' = "retrieving"
  \/ pc = "retrieving" /\ pc' = "planning"
  \/ pc = "selecting" /\ pc' \in {"claiming", "executing"}
  \/ pc = "executing" /\ pc' = "evaluating"
  \/ pc = "writing" /\ pc' = "writing"
  \/ pc = "writing" /\ pc' = "revising" /\ evaluation # "success"

LEMMA QuietStep ==
  ASSUME PlanInv, QuietMove, pc # "returned",
         UNCHANGED << plan, lastTaskId, task, attempts, evaluation >>,
         status' = "completed" => evaluation = "success"
  PROVE  PlanInv'
<1>1. /\ plan' = plan /\ lastTaskId' = lastTaskId /\ task' = task
      /\ attempts' = attempts /\ evaluation' = evaluation
  OBVIOUS
<1>2. Identity'
  BY <1>1 DEF PlanInv, Identity
<1>3. NothingYet'
  BY <1>1 DEF PlanInv, NothingYet, QuietMove
<1>4. UnderWay'
  BY <1>1 DEF PlanInv, UnderWay, QuietMove
<1>5. LastAttempt'
  BY <1>1 DEF PlanInv, LastAttempt, QuietMove
<1>6. Credited'
  <2>1. CASE pc = "writing" /\ pc' = "revising" /\ evaluation # "success"
    <3>1. attempts[Len(attempts)].verdict # "success"
      BY <2>1 DEF PlanInv, LastAttempt
    <3> QED
      BY <1>1, <2>1, <3>1 DEF PlanInv, Credited
  <2>2. CASE pc' # "returned" /\ (pc = "writing" => pc' = "writing")
    BY <1>1, <2>2 DEF PlanInv, Credited
  <2>3. CASE pc' = "returned"
    BY <2>3 DEF Credited
  <2> QED
    BY <2>1, <2>2, <2>3 DEF QuietMove
<1>7. HeadOpen'
  BY DEF HeadOpen, QuietMove
<1>8. CompletionFollowsSuccess'
  BY <1>1 DEF CompletionFollowsSuccess
<1>9. CompletedTasksConfirmed' /\ NoAttemptAfterSuccess'
  BY <1>1 DEF PlanInv, CompletedTasksConfirmed, NoAttemptAfterSuccess, AttemptsOn
<1> QED
  BY <1>2, <1>3, <1>4, <1>5, <1>6, <1>7, <1>8, <1>9 DEF PlanInv

\* createPlan.
LEMMA CreateInitialPlanStep ==
  ASSUME TypeOK, RunPhase, PlanInv, NEW calls,
         NEW proposals \in Proposals(<< >>), CreateInitialPlan(calls, proposals)
  PROVE  PlanInv' /\ CompletedIds(plan.tasks) \subseteq CompletedIds(plan'.tasks)
<1>1. << >> \in Seq(Task)
  BY EmptySeq
<1>2. PICK n \in Nat \ {0} : proposals \in [1 .. n -> Nat] /\ Len(proposals) = n
  BY <1>1, ProposalType
<1>3. /\ pc = "planning" /\ pc' = "head"
      /\ plan'.tasks = InitialTasks(proposals)
      /\ lastTaskId' = FreshUpTo(<< >>, proposals, n)
      /\ task' = task /\ attempts' = attempts /\ evaluation' = evaluation
      /\ status' = status
  BY <1>2 DEF CreateInitialPlan
<1>4. plan.tasks = << >> /\ attempts = << >>
  BY <1>3 DEF PlanInv, NothingYet
<1>5. DOMAIN attempts = {} /\ CompletedIds(plan.tasks) = {}
  BY <1>4 DEF CompletedIds
<1>6. /\ KnownTasks(plan'.tasks, lastTaskId')
      /\ SameTask(plan'.tasks)
      /\ OpenTasks(plan'.tasks)
      /\ CompletedIds(plan'.tasks) = {}
      /\ \E i \in DOMAIN plan'.tasks : plan'.tasks[i].status # "completed"
  BY <1>2, <1>3, InitialPlanFacts
<1>7. Identity' /\ NothingYet' /\ UnderWay' /\ LastAttempt' /\ HeadOpen'
  BY <1>3, <1>6 DEF Identity, NothingYet, UnderWay, LastAttempt, HeadOpen
<1>8. Credited' /\ NoAttemptAfterSuccess'
  BY <1>3, <1>5 DEF Credited, NoAttemptAfterSuccess
<1>9. CompletedTasksConfirmed'
  BY <1>6 DEF CompletedTasksConfirmed
<1>10. CompletionFollowsSuccess'
  BY <1>3, NotCompleted DEF CompletionFollowsSuccess
<1> QED
  BY <1>5, <1>7, <1>8, <1>9, <1>10 DEF PlanInv

\* The head of the loop takes the next task up.
LEMMA BeginIterationStep ==
  ASSUME TypeOK, RunPhase, PlanInv, BeginIteration
  PROVE  PlanInv' /\ CompletedIds(plan.tasks) \subseteq CompletedIds(plan'.tasks)
<1> DEFINE tasks == plan.tasks
<1>1. /\ tasks \in Seq(Task) /\ lastTaskId \in Nat
      /\ KnownTasks(tasks, lastTaskId) /\ SameTask(tasks) /\ OpenTasks(tasks)
  BY DEF TypeOK, PlanInv, Identity, BeginIteration
<1>2. PICK i \in Runnable(tasks) : NextTask(tasks) = tasks[i]
  BY <1>1, NextTaskRunnable DEF BeginIteration
<1>3. PICK id : id = tasks[i].id
  OBVIOUS
<1>4. /\ pc = "head" /\ pc' = "selecting" /\ task' = id
      /\ attempts' = attempts /\ evaluation' = evaluation /\ status' = status
      /\ lastTaskId' = lastTaskId
      /\ plan'.tasks = IF tasks[i].status = "pending"
                         THEN WithTaskStatus(tasks, id, "in_progress")
                         ELSE tasks
  BY <1>2, <1>3 DEF BeginIteration, TypeOK
<1>5. i \in DOMAIN tasks /\ tasks[i].status # "completed"
  BY <1>2 DEF Runnable, Done
<1>6. id \notin CompletedIds(tasks)
  <2> SUFFICES ASSUME NEW j \in DOMAIN tasks, tasks[j].status = "completed",
                      tasks[j].id = id
               PROVE  FALSE
    BY DEF CompletedIds
  <2>1. tasks[j] = tasks[i]
    BY <1>1, <1>3, <1>5 DEF SameTask
  <2> QED
    BY <1>5, <2>1
<1>7. /\ KnownTasks(plan'.tasks, lastTaskId)
      /\ SameTask(plan'.tasks)
      /\ OpenTasks(plan'.tasks)
      /\ DOMAIN plan'.tasks = DOMAIN tasks
      /\ plan'.tasks[i].id = tasks[i].id
      /\ CompletedIds(plan'.tasks) = CompletedIds(tasks)
  <2>1. CASE tasks[i].status = "pending"
    <3> HIDE DEF tasks
    <3>1. plan'.tasks = WithTaskStatus(tasks, id, "in_progress")
      BY <1>4, <2>1
    <3> QED
      BY <1>1, <1>5, <1>6, <3>1, StatusFacts
  <2>2. CASE tasks[i].status # "pending"
    BY <1>1, <1>4, <2>2
  <2> QED
    BY <2>1, <2>2
<1>8. Identity' /\ NothingYet' /\ LastAttempt' /\ HeadOpen'
  BY <1>4, <1>7 DEF Identity, NothingYet, LastAttempt, HeadOpen
<1>9. UnderWay'
  BY <1>3, <1>4, <1>5, <1>6, <1>7 DEF UnderWay
<1>10. Credited'
  BY <1>4, <1>7 DEF PlanInv, Credited
<1>11. CompletionFollowsSuccess'
  BY <1>4, NotCompleted DEF CompletionFollowsSuccess
<1>12. CompletedTasksConfirmed' /\ NoAttemptAfterSuccess'
  BY <1>4, <1>7 DEF PlanInv, CompletedTasksConfirmed, NoAttemptAfterSuccess, AttemptsOn
<1> QED
  BY <1>7, <1>8, <1>9, <1>10, <1>11, <1>12 DEF PlanInv

\* An attempt is judged.
LEMMA EvaluateStep ==
  ASSUME TypeOK, RunPhase, PlanInv, NEW verdict \in Verdicts, NEW ingested,
         Evaluate(verdict, ingested)
  PROVE  PlanInv'
<1>1. PICK a : a = [task |-> task, action |-> usage.toolCalls, verdict |-> verdict]
  OBVIOUS
<1>2. /\ pc = "evaluating" /\ pc' = "writing"
      /\ evaluation' = verdict /\ attempts' = Append(attempts, a)
      /\ plan' = plan /\ lastTaskId' = lastTaskId /\ task' = task /\ status' = status
  BY <1>1 DEF Evaluate
<1>3. PICK n \in Nat : n = Len(attempts)
  BY LenProperties DEF TypeOK
<1>4. /\ Len(attempts') = n + 1
      /\ DOMAIN attempts' = 1 .. (n + 1)
      /\ \A i \in 1 .. n : attempts'[i] = attempts[i]
      /\ attempts'[n + 1] = a
      /\ DOMAIN attempts = 1 .. n
  <2>1. a \in Attempt
    BY <1>1, VerdictsAssumption DEF Attempt, TypeOK, RunUsage
  <2>2. attempts \in Seq(Attempt)
    BY DEF TypeOK
  <2>3. /\ Append(attempts, a) \in Seq(Attempt)
        /\ Len(Append(attempts, a)) = n + 1
        /\ \A i \in 1 .. n : Append(attempts, a)[i] = attempts[i]
        /\ Append(attempts, a)[n + 1] = a
    BY <1>3, <2>1, <2>2, AppendProperties
  <2>4. /\ DOMAIN attempts = 1 .. n
        /\ DOMAIN Append(attempts, a) = 1 .. Len(Append(attempts, a))
    BY <1>3, <2>2, <2>3, LenProperties
  <2> QED
    BY <1>2, <2>3, <2>4, Zenon
<1>5. a.task = task /\ a.verdict = verdict
  BY <1>1
<1>6. \A i \in 1 .. (n + 1) : i = n + 1 \/ i \in 1 .. n
  BY <1>3
<1>7. Identity' /\ NothingYet' /\ UnderWay' /\ HeadOpen'
  BY <1>2 DEF PlanInv, Identity, NothingYet, UnderWay, HeadOpen
<1>8. LastAttempt'
  <2>1. attempts' # << >>
    BY <1>3, <1>4
  <2> QED
    BY <1>2, <1>4, <1>5, <2>1, Zenon DEF LastAttempt
<1>9. CompletionFollowsSuccess'
  BY <1>2, NotCompleted DEF CompletionFollowsSuccess
<1>10. \A i \in 1 .. n : attempts[i].verdict = "success"
         => attempts[i].task \in CompletedIds(plan.tasks)
  BY <1>2, <1>4 DEF PlanInv, Credited
<1>11. Credited'
  <2> SUFFICES ASSUME NEW i \in 1 .. (n + 1), attempts'[i].verdict = "success"
               PROVE  attempts'[i].task \in CompletedIds(plan'.tasks) \/ i = n + 1
    BY <1>2, <1>4 DEF Credited
  <2> QED
    BY <1>2, <1>4, <1>6, <1>10, Zenon
<1>12. CompletedTasksConfirmed'
  <2> SUFFICES ASSUME NEW id \in CompletedIds(plan'.tasks)
               PROVE  \E i \in DOMAIN attempts' :
                        attempts'[i].task = id /\ attempts'[i].verdict = "success"
    BY DEF CompletedTasksConfirmed, AttemptsOn
  <2>1. PICK i \in DOMAIN attempts :
          attempts[i].task = id /\ attempts[i].verdict = "success"
    BY <1>2 DEF PlanInv, CompletedTasksConfirmed, AttemptsOn
  <2>2. i \in 1 .. n /\ i \in DOMAIN attempts'
    BY <1>3, <1>4
  <2> QED
    BY <1>4, <2>1, <2>2, Zenon
<1>13. NoAttemptAfterSuccess'
  <2> SUFFICES ASSUME NEW i \in 1 .. (n + 1), NEW j \in 1 .. (n + 1), i < j,
                      attempts'[i].task = attempts'[j].task
               PROVE  attempts'[i].verdict # "success"
    BY <1>4 DEF NoAttemptAfterSuccess
  <2>1. i \in 1 .. n
    BY <1>3
  <2>2. CASE j \in 1 .. n
    <3>1. attempts[i].verdict # "success"
      BY <1>4, <2>1, <2>2 DEF PlanInv, NoAttemptAfterSuccess
    <3> QED
      BY <1>4, <2>1, <3>1
  <2>3. CASE j = n + 1
    <3>1. attempts[i].task = task /\ attempts'[i] = attempts[i]
      BY <1>4, <1>5, <2>1, <2>3
    <3>2. task \notin CompletedIds(plan.tasks)
      BY <1>2 DEF PlanInv, UnderWay
    <3> QED
      BY <1>10, <2>1, <3>1, <3>2
  <2> QED
    BY <1>6, <2>2, <2>3
<1> QED
  BY <1>7, <1>8, <1>9, <1>11, <1>12, <1>13 DEF PlanInv

\* The last record of a success is put: the task is completed.
LEMMA CompleteTaskStep ==
  ASSUME TypeOK, RunPhase, PlanInv,
         pc = "writing", pc' = "head", evaluation = "success",
         plan'.tasks = WithTaskStatus(plan.tasks, task, "completed"),
         UNCHANGED << status, lastTaskId, task, attempts, evaluation >>
  PROVE  PlanInv' /\ CompletedIds(plan.tasks) \subseteq CompletedIds(plan'.tasks)
<1>1. /\ status' = status /\ lastTaskId' = lastTaskId /\ task' = task
      /\ attempts' = attempts /\ evaluation' = evaluation
  OBVIOUS
<1> DEFINE tasks == plan.tasks
<1>2. /\ tasks \in Seq(Task) /\ lastTaskId \in Nat
      /\ KnownTasks(tasks, lastTaskId) /\ SameTask(tasks) /\ OpenTasks(tasks)
      /\ \E i \in DOMAIN tasks : tasks[i].id = task
      /\ plan'.tasks = WithTaskStatus(tasks, task, "completed")
  BY DEF TypeOK, PlanInv, Identity, UnderWay
<1> HIDE DEF tasks
<1>3. /\ KnownTasks(plan'.tasks, lastTaskId)
      /\ SameTask(plan'.tasks)
      /\ OpenTasks(plan'.tasks)
      /\ CompletedIds(plan'.tasks) \subseteq CompletedIds(tasks) \cup {task}
      /\ CompletedIds(tasks) \subseteq CompletedIds(plan'.tasks)
      /\ task \in CompletedIds(plan'.tasks)
  BY <1>2, StatusFacts
<1>4. Identity' /\ NothingYet' /\ UnderWay' /\ LastAttempt' /\ HeadOpen'
  BY <1>1, <1>3 DEF Identity, NothingYet, UnderWay, LastAttempt, HeadOpen
<1>5. /\ Len(attempts) \in DOMAIN attempts
      /\ attempts[Len(attempts)].task = task
      /\ attempts[Len(attempts)].verdict = "success"
  <2>1. /\ attempts # << >> /\ attempts \in Seq(Attempt)
        /\ attempts[Len(attempts)].task = task
        /\ attempts[Len(attempts)].verdict = evaluation
    BY DEF PlanInv, LastAttempt, TypeOK
  <2>2. Len(attempts) \in DOMAIN attempts
    BY <2>1
  <2> QED
    BY <2>1, <2>2
<1>6. Credited'
  BY <1>1, <1>3, <1>5 DEF PlanInv, Credited, tasks
<1>7. CompletedTasksConfirmed'
  <2> SUFFICES ASSUME NEW id \in CompletedIds(plan'.tasks)
               PROVE  \E i \in DOMAIN attempts :
                        attempts[i].task = id /\ attempts[i].verdict = "success"
    BY <1>1 DEF CompletedTasksConfirmed, AttemptsOn
  <2>1. CASE id = task
    BY <1>5, <2>1
  <2>2. CASE id # task
    <3>1. id \in CompletedIds(plan.tasks)
      BY <1>3, <2>2 DEF tasks
    <3> QED
      BY <3>1 DEF PlanInv, CompletedTasksConfirmed, AttemptsOn
  <2> QED
    BY <2>1, <2>2
<1>8. NoAttemptAfterSuccess' /\ CompletionFollowsSuccess'
  BY <1>1 DEF PlanInv, NoAttemptAfterSuccess, CompletionFollowsSuccess
<1> QED
  BY <1>3, <1>4, <1>6, <1>7, <1>8 DEF PlanInv, tasks

\* revisePlan.
LEMMA RevisePlanStep ==
  ASSUME TypeOK, RunPhase, PlanInv, NEW calls, NEW changed,
         NEW proposals \in Proposals(plan.tasks), RevisePlan(calls, proposals, changed)
  PROVE  PlanInv' /\ CompletedIds(plan.tasks) \subseteq CompletedIds(plan'.tasks)
<1> DEFINE tasks == plan.tasks
<1>1. tasks \in Seq(Task) /\ lastTaskId \in Nat
  BY DEF TypeOK
<1>2. PICK n \in Nat \ {0} : proposals \in [1 .. n -> Nat] /\ Len(proposals) = n
  BY <1>1, ProposalType
<1>3. /\ pc = "revising" /\ pc' = "head" /\ status' = status
      /\ task' = task /\ attempts' = attempts /\ evaluation' = evaluation
      /\ plan'.tasks = RevisedTasks(tasks, proposals, lastTaskId)
      /\ lastTaskId' = lastTaskId + FreshUpTo(tasks, proposals, n)
  BY <1>2 DEF RevisePlan
<1>4. KnownTasks(tasks, lastTaskId) /\ SameTask(tasks) /\ OpenTasks(tasks)
  BY <1>3 DEF PlanInv, Identity
<1> HIDE DEF tasks
<1>5. lastTaskId' \in Nat /\ lastTaskId <= lastTaskId'
  <2>1. n \in Nat /\ n \in 0 .. n
    OBVIOUS
  <2>2. FreshUpTo(tasks, proposals, n) \in Nat
    BY <2>1, FreshCount
  <2> QED
    BY <1>1, <1>3, <2>2
<1>6. RevisionOf(tasks, plan'.tasks, lastTaskId, lastTaskId')
  BY <1>1, <1>2, <1>3, RevisedTasksContent
<1>7. /\ KnownTasks(plan'.tasks, lastTaskId')
      /\ SameTask(plan'.tasks)
      /\ OpenTasks(plan'.tasks)
      /\ CompletedIds(plan'.tasks) = CompletedIds(tasks)
      /\ \E i \in DOMAIN plan'.tasks : plan'.tasks[i].status # "completed"
  BY <1>1, <1>4, <1>5, <1>6, RevisionFacts
<1>8. Identity' /\ NothingYet' /\ UnderWay' /\ LastAttempt' /\ HeadOpen'
  BY <1>3, <1>7 DEF Identity, NothingYet, UnderWay, LastAttempt, HeadOpen
<1>9. Credited'
  BY <1>3, <1>7 DEF PlanInv, Credited, tasks
<1>10. CompletionFollowsSuccess'
  BY <1>3, NotCompleted DEF CompletionFollowsSuccess
<1>11. CompletedTasksConfirmed' /\ NoAttemptAfterSuccess'
  BY <1>3, <1>7 DEF PlanInv, CompletedTasksConfirmed, NoAttemptAfterSuccess,
                    AttemptsOn, tasks
<1> QED
  BY <1>7, <1>8, <1>9, <1>10, <1>11 DEF PlanInv, tasks

\* The evaluator rules on a claim that the goal is done.
LEMMA ClaimStep ==
  ASSUME TypeOK, RunPhase, PlanInv, NEW verdict \in Verdicts,
         AcceptClaim(verdict) \/ RejectClaim(verdict)
  PROVE  PlanInv' /\ CompletedIds(plan.tasks) \subseteq CompletedIds(plan'.tasks)
<1>1. plan.tasks \in Seq(Task) /\ lastTaskId \in Nat
  BY DEF TypeOK
<1>2. /\ pc = "claiming" /\ pc' \in {"returned", "revising"}
      /\ evaluation' = verdict /\ attempts' = attempts /\ lastTaskId' = lastTaskId
      /\ pc' = "returned" => verdict = "success"
      /\ pc' = "revising" => status' = status /\ plan' = plan /\ task' = task
  BY DEF AcceptClaim, RejectClaim, CompleteGoal
<1>3. KnownTasks(plan.tasks, lastTaskId) /\ SameTask(plan.tasks) /\ OpenTasks(plan.tasks)
  BY <1>2 DEF PlanInv, Identity
<1>4. /\ KnownTasks(plan'.tasks, lastTaskId)
      /\ SameTask(plan'.tasks)
      /\ CompletedIds(plan'.tasks) = CompletedIds(plan.tasks)
  <2>1. CASE AcceptClaim(verdict)
    <3>1. plan'.tasks = WithRemainingTasksSkipped(plan.tasks)
      BY <2>1 DEF AcceptClaim, TypeOK
    <3> QED
      BY <1>1, <1>3, <3>1, SkippedFacts
  <2>2. CASE RejectClaim(verdict)
    <3>1. plan' = plan
      BY <2>2 DEF RejectClaim
    <3> QED
      BY <1>3, <3>1
  <2> QED
    BY <2>1, <2>2
<1>5. pc' # "returned" => OpenTasks(plan'.tasks)
  BY <1>2, <1>3
<1>6. Identity' /\ NothingYet' /\ UnderWay' /\ LastAttempt' /\ HeadOpen'
  BY <1>2, <1>4, <1>5 DEF Identity, NothingYet, UnderWay, LastAttempt, HeadOpen
<1>7. Credited'
  BY <1>2, <1>4 DEF PlanInv, Credited
<1>8. CompletionFollowsSuccess'
  BY <1>2, NotCompleted DEF CompletionFollowsSuccess
<1>9. CompletedTasksConfirmed' /\ NoAttemptAfterSuccess'
  BY <1>2, <1>4 DEF PlanInv, CompletedTasksConfirmed, NoAttemptAfterSuccess, AttemptsOn
<1> QED
  BY <1>4, <1>6, <1>7, <1>8, <1>9 DEF PlanInv

\* A run that finds no task to run has just succeeded.
LEMMA CompleteWhenNoTaskLeftStep ==
  ASSUME TypeOK, PlanInv, CompleteWhenNoTaskLeft
  PROVE  evaluation = "success"
<1>1. pc = "head" /\ Runnable(plan.tasks) = {}
  BY DEF CompleteWhenNoTaskLeft
<1>2. ASSUME NEW i \in DOMAIN plan.tasks, plan.tasks[i].status # "completed"
      PROVE  FALSE
  <2>1. /\ plan.tasks[i].dependsOn = {}
        /\ plan.tasks[i].status \in {"pending", "in_progress"}
    BY <1>1, <1>2 DEF PlanInv, Identity, OpenTasks
  <2>2. i \in Runnable(plan.tasks)
    BY <2>1 DEF Runnable, Done
  <2> QED
    BY <1>1, <2>2
<1> QED
  BY <1>1, <1>2 DEF PlanInv, HeadOpen

\* Every step preserves the invariant of the plan, and no completed task is lost.
PlanKept ==
  PlanInv' /\ CompletedIds(plan.tasks) \subseteq CompletedIds(plan'.tasks)

LEMMA PlanStep == TypeOK /\ RunPhase /\ PlanInv /\ [Next]_vars => PlanKept
<1> SUFFICES ASSUME TypeOK, RunPhase, PlanInv, [Next]_vars PROVE PlanKept
  OBVIOUS
<1>q. ASSUME QuietMove, pc # "returned",
             UNCHANGED << plan, lastTaskId, task, attempts, evaluation >>,
             status' = "completed" => evaluation = "success"
      PROVE  PlanKept
  <2>1. PlanInv'
    BY <1>q, QuietStep
  <2>2. plan' = plan
    BY <1>q
  <2> QED
    BY <2>1, <2>2 DEF PlanKept
<1>n. pc # "returned" => status # "completed"
  BY NotCompleted
<1>1. CASE Start
  BY <1>1, <1>q DEF Start, QuietMove
<1>2. ASSUME NEW calls \in EmbeddingCalls, RetrieveMemory(calls)
      PROVE  PlanKept
  BY <1>2, <1>q, <1>n DEF RetrieveMemory, QuietMove
<1>3. ASSUME NEW calls \in EmbeddingCalls, WriteRecord(calls)
      PROVE  PlanKept
  <2>1. /\ pc = "writing"
        /\ UNCHANGED << status, lastTaskId, task, attempts, evaluation >>
    BY <1>3 DEF WriteRecord
  <2>2. CASE pc' # "head" /\ plan' = plan
    <3>1. QuietMove
      BY <1>3, <2>2 DEF WriteRecord, QuietMove
    <3> QED
      BY <1>q, <1>n, <2>1, <2>2, <3>1
  <2>3. CASE pc' = "head" /\ evaluation = "success"
    <3>1. plan'.tasks = WithTaskStatus(plan.tasks, task, "completed")
      BY <1>3, <2>3 DEF WriteRecord, TypeOK
    <3> QED
      BY <2>1, <2>3, <3>1, CompleteTaskStep DEF PlanKept
  <2> QED
    BY <1>3, <2>2, <2>3 DEF WriteRecord
<1>4. ASSUME NEW calls \in EmbeddingCalls, EnvironmentThrows(calls)
      PROVE  PlanKept
  <2>1. /\ pc # "returned" /\ pc' = "returned" /\ status' # "completed"
        /\ UNCHANGED << plan, lastTaskId, task, attempts, evaluation >>
    BY <1>4, <1>n DEF EnvironmentThrows, Catch
  <2> QED
    BY <2>1, <1>q DEF QuietMove
<1>5. CASE StopAtLimit
  BY <1>5, <1>q DEF StopAtLimit, QuietMove
<1>6. CASE CompleteWhenNoTaskLeft
  <2>1. /\ pc # "returned" /\ pc' = "returned" /\ evaluation = "success"
        /\ UNCHANGED << plan, lastTaskId, attempts, evaluation >>
    BY <1>6, CompleteWhenNoTaskLeftStep DEF CompleteWhenNoTaskLeft, CompleteGoal
  <2>2. /\ plan' = plan /\ lastTaskId' = lastTaskId /\ attempts' = attempts
        /\ evaluation' = evaluation /\ pc' = "returned"
    BY <2>1
  <2>3. Identity' /\ NothingYet' /\ UnderWay' /\ LastAttempt' /\ Credited' /\ HeadOpen'
    BY <2>2 DEF PlanInv, Identity, NothingYet, UnderWay, LastAttempt, Credited, HeadOpen
  <2>4. CompletionFollowsSuccess' /\ CompletedTasksConfirmed' /\ NoAttemptAfterSuccess'
    BY <2>1, <2>2 DEF PlanInv, CompletionFollowsSuccess, CompletedTasksConfirmed,
                      NoAttemptAfterSuccess, AttemptsOn
  <2> QED
    BY <2>2, <2>3, <2>4 DEF PlanInv, PlanKept
<1>7. CASE BeginIteration
  BY <1>7, BeginIterationStep DEF PlanKept
<1>8. ASSUME NEW calls \in 1 .. CallsPerRequest,
             NEW proposals \in Proposals(<< >>), CreateInitialPlan(calls, proposals)
      PROVE  PlanKept
  BY <1>8, CreateInitialPlanStep DEF PlanKept
<1>9. ASSUME NEW calls \in 1 .. CallsPerRequest, SelectGiveUp(calls)
      PROVE  PlanKept
  BY <1>9, <1>q DEF SelectGiveUp, QuietMove
<1>10. ASSUME NEW calls \in 1 .. CallsPerRequest, SelectFinish(calls) \/ SelectAct(calls)
       PROVE  PlanKept
  BY <1>10, <1>q, <1>n DEF SelectFinish, SelectAct, QuietMove
<1>11. ASSUME NEW calls \in 1 .. CallsPerRequest,
              NEW proposals \in Proposals(plan.tasks), NEW changed \in BOOLEAN,
              RevisePlan(calls, proposals, changed)
       PROVE  PlanKept
  BY <1>11, RevisePlanStep DEF PlanKept
<1>12. ASSUME NEW calls \in 1 .. CallsPerRequest, ModelRequestThrows(calls)
       PROVE  PlanKept
  <2>1. /\ pc # "returned" /\ pc' = "returned" /\ status' # "completed"
        /\ UNCHANGED << plan, lastTaskId, task, attempts, evaluation >>
    BY <1>12, <1>n DEF ModelRequestThrows, Catch
  <2> QED
    BY <2>1, <1>q DEF QuietMove
<1>13. ASSUME NEW result \in {"ok", "error"}, Observe(result)
       PROVE  PlanKept
  BY <1>13, <1>q, <1>n DEF Observe, QuietMove
<1>14. ASSUME NEW verdict \in Verdicts, NEW ingested \in BOOLEAN,
              Evaluate(verdict, ingested)
       PROVE  PlanKept
  BY <1>14, EvaluateStep DEF Evaluate, PlanKept
<1>15. ASSUME NEW verdict \in Verdicts, AcceptClaim(verdict) \/ RejectClaim(verdict)
       PROVE  PlanKept
  BY <1>15, ClaimStep DEF PlanKept
<1>16. CASE UNCHANGED vars
  <2>1. /\ pc' = pc /\ status' = status /\ plan' = plan /\ lastTaskId' = lastTaskId
        /\ task' = task /\ attempts' = attempts /\ evaluation' = evaluation
    BY <1>16 DEF vars
  <2> QED
    BY <2>1 DEF PlanKept, PlanInv, Identity, NothingYet, UnderWay, LastAttempt, Credited,
                HeadOpen, CompletionFollowsSuccess, CompletedTasksConfirmed,
                NoAttemptAfterSuccess, AttemptsOn
<1> QED
  BY <1>1, <1>2, <1>3, <1>4, <1>5, <1>6, <1>7, <1>8, <1>9, <1>10, <1>11, <1>12,
     <1>13, <1>14, <1>15, <1>16
     DEF Next, MemoryStep, ModelStep, EvaluatorStep

\* The invariant of the plan holds throughout every run.
LEMMA PlanInvariant == Spec => [](TypeOK /\ RunPhase /\ PlanInv)
<1>1. Init => RunPhase
  BY DEF Init, RunPhase, Lifecycle!FinalStatus
<1>2. Init => PlanInv
  <2> SUFFICES ASSUME Init PROVE PlanInv
    OBVIOUS
  <2>1. /\ pc = "constructed" /\ status = "created" /\ attempts = << >>
        /\ plan.tasks = << >>
    BY DEF Init
  <2>2. DOMAIN attempts = {} /\ DOMAIN plan.tasks = {} /\ CompletedIds(plan.tasks) = {}
    BY <2>1 DEF CompletedIds
  <2> QED
    BY <2>1, <2>2
       DEF PlanInv, Identity, KnownTasks, SameTask, OpenTasks, NothingYet, UnderWay,
           LastAttempt, Credited, HeadOpen, CompletionFollowsSuccess,
           CompletedTasksConfirmed, NoAttemptAfterSuccess
<1>3. Spec => []TypeOK
  BY RunTypes
<1>4. TypeOK /\ RunPhase /\ PlanInv /\ [Next]_vars => RunPhase' /\ PlanInv'
  BY LifecycleStep, PlanStep DEF PlanKept
<1> QED
  BY <1>1, <1>2, <1>3, <1>4, PTL DEF Spec

\* A goal is declared complete only right after a verdict of success.
THEOREM RunCompletionFollowsSuccess == Spec => []CompletionFollowsSuccess
<1>1. PlanInv => CompletionFollowsSuccess
  BY DEF PlanInv
<1> QED
  BY <1>1, PlanInvariant, PTL

\* A completed task rests on a successful attempt of its own.
THEOREM RunCompletedTasksConfirmed == Spec => []CompletedTasksConfirmed
<1>1. PlanInv => CompletedTasksConfirmed
  BY DEF PlanInv
<1> QED
  BY <1>1, PlanInvariant, PTL

\* A task that succeeded is never worked on again.
THEOREM RunNoAttemptAfterSuccess == Spec => []NoAttemptAfterSuccess
<1>1. PlanInv => NoAttemptAfterSuccess
  BY DEF PlanInv
<1> QED
  BY <1>1, PlanInvariant, PTL

\* Completed tasks survive every later step, revisions of the plan included.
THEOREM RunCompletedTasksKept == Spec => CompletedTasksKept
<1>1. TypeOK /\ RunPhase /\ PlanInv /\ [Next]_vars
        => [CompletedIds(plan.tasks) \subseteq CompletedIds(plan'.tasks)]_vars
  BY PlanStep DEF PlanKept
<1> QED
  BY <1>1, PlanInvariant, PTL DEF Spec, CompletedTasksKept

-----------------------------------------------------------------------------
(* The memory of a run. *)

\* The record of an attempt, of each kind.
RecordOf(a, kind) == [kind |-> kind, task |-> attempts[a].task,
                      action |-> attempts[a].action, outcome |-> attempts[a].verdict]

\* No two attempts share an action, and the last action may be under way.
ActionsCounted ==
  /\ \A a, b \in DOMAIN attempts : a < b => attempts[a].action < attempts[b].action
  /\ \A a \in DOMAIN attempts : attempts[a].action <= usage.toolCalls
  /\ pc \in {"executing", "evaluating"} =>
       \A a \in DOMAIN attempts : attempts[a].action < usage.toolCalls

\* The store holds records of attempts, in the order of the attempts.
StoreOfAttempts ==
  /\ \A k \in DOMAIN written :
       \E a \in DOMAIN attempts : written[k] = RecordOf(a, written[k].kind)
  /\ \A k, l \in DOMAIN written : k < l => written[k].action <= written[l].action

\* The experience of the attempt is in the store once.
Remembered(a) ==
  \E k \in DOMAIN written :
    /\ written[k] = RecordOf(a, "experience")
    /\ \A l \in DOMAIN written : written[l] = RecordOf(a, "experience") => l = k

\* The experience of the last attempt is still to be put.
ExperiencePending ==
  pc = "writing" /\ \E k \in DOMAIN pending : pending[k].kind = "experience"

AttemptsRemembered ==
  /\ \A a \in DOMAIN attempts : a < Len(attempts) => Remembered(a)
  /\ attempts # << >> /\ ~ ExperiencePending /\ status # "failed"
       => Remembered(Len(attempts))
  /\ ExperiencePending =>
       \A l \in DOMAIN written : written[l] # RecordOf(Len(attempts), "experience")

\* What is still to be put are records of the last attempt; its experience
\* comes once, its lesson last, and only for a success after a failure.
PendingOfLast ==
  pc = "writing" =>
    /\ attempts # << >>
    /\ \A k \in DOMAIN pending : pending[k] = RecordOf(Len(attempts), pending[k].kind)
    /\ \A k, l \in DOMAIN pending :
         pending[k].kind = "experience" /\ pending[l].kind = "experience" => k = l
    /\ \A k \in DOMAIN pending : pending[k].kind = "lesson" =>
         /\ k = Len(pending)
         /\ attempts[Len(attempts)].verdict = "success"
         /\ \E a \in DOMAIN attempts :
              /\ a < Len(attempts)
              /\ attempts[a].task = attempts[Len(attempts)].task
              /\ attempts[a].verdict # "success"

LessonsWritten == {k \in DOMAIN written : written[k].kind = "lesson"}

\* A lesson is announced before it is put.
LessonAnnounced == pc = "writing" /\ pending[1].kind = "lesson"

LessonsCounted ==
  status # "failed" =>
    Len(lessons) = Cardinality(LessonsWritten) + IF LessonAnnounced THEN 1 ELSE 0

\* The inductive invariant of the memory.
StoreInv ==
  /\ ActionsCounted
  /\ StoreOfAttempts
  /\ AttemptsRemembered
  /\ PendingOfLast
  /\ LessonsCounted
  /\ LessonsBacked

LEMMA RecordFields ==
  \A a, kind : /\ RecordOf(a, kind).kind = kind
               /\ RecordOf(a, kind).task = attempts[a].task
               /\ RecordOf(a, kind).action = attempts[a].action
               /\ RecordOf(a, kind).outcome = attempts[a].verdict
BY DEF RecordOf

LEMMA LessonsFinite ==
  ASSUME TypeOK
  PROVE  IsFiniteSet(LessonsWritten) /\ Cardinality(LessonsWritten) \in Nat
<1>1. Len(written) \in Nat /\ DOMAIN written = 1 .. Len(written)
  BY LenProperties DEF TypeOK
<1>2. IsFiniteSet(1 .. Len(written))
  BY <1>1, FS_Interval
<1>3. LessonsWritten \in SUBSET (1 .. Len(written))
  BY <1>1 DEF LessonsWritten
<1> QED
  BY <1>2, <1>3, FS_Subset, FS_CardinalityType

\* Steps that neither judge an attempt nor put a record.
StoreQuiet ==
  /\ UNCHANGED << attempts, written, pending, lessons >>
  /\ pc' # "writing"
  /\ pc = "writing" => status' = "failed"
  /\ status = "failed" => status' = "failed"
  /\ \/ /\ usage'.toolCalls = usage.toolCalls
        /\ pc' \in {"executing", "evaluating"} => pc \in {"executing", "evaluating"}
     \/ usage'.toolCalls = usage.toolCalls + 1

LEMMA StoreQuietStep ==
  ASSUME TypeOK, StoreInv, StoreQuiet
  PROVE  StoreInv'
<1>1. /\ attempts' = attempts /\ written' = written /\ pending' = pending
      /\ lessons' = lessons
  BY DEF StoreQuiet
<1>2. \A a, kind : RecordOf(a, kind)' = RecordOf(a, kind)
  BY <1>1 DEF RecordOf
<1>3. ActionsCounted'
  <2>1. /\ usage.toolCalls \in Nat
        /\ \A a \in DOMAIN attempts : attempts[a].action \in Nat
    <3>1. attempts \in Seq(Attempt) /\ usage.toolCalls \in Nat
      BY DEF TypeOK, RunUsage
    <3>2. \A a \in DOMAIN attempts : attempts[a] \in Attempt
      BY <3>1
    <3> QED
      BY <3>1, <3>2 DEF Attempt
  <2>2. CASE usage'.toolCalls = usage.toolCalls + 1
    <3>1. \A a \in DOMAIN attempts : attempts[a].action < usage'.toolCalls
      BY <2>1, <2>2 DEF StoreInv, ActionsCounted
    <3> QED
      BY <1>1, <2>1, <2>2, <3>1 DEF StoreInv, ActionsCounted
  <2>3. CASE usage'.toolCalls = usage.toolCalls
    <3>1. /\ \A a, b \in DOMAIN attempts : a < b => attempts[a].action < attempts[b].action
          /\ \A a \in DOMAIN attempts : attempts[a].action <= usage'.toolCalls
      BY <2>3 DEF StoreInv, ActionsCounted
    <3>2. ASSUME pc' \in {"executing", "evaluating"}
          PROVE  \A a \in DOMAIN attempts : attempts[a].action < usage'.toolCalls
      <4>1. CASE pc \in {"executing", "evaluating"}
        BY <2>3, <4>1 DEF StoreInv, ActionsCounted
      <4>2. CASE pc \notin {"executing", "evaluating"}
        BY <2>1, <3>2, <4>2 DEF StoreInv, ActionsCounted, StoreQuiet
      <4> QED
        BY <4>1, <4>2
    <3> QED
      BY <1>1, <3>1, <3>2 DEF ActionsCounted
  <2> QED
    BY <2>2, <2>3 DEF StoreQuiet
<1>4. StoreOfAttempts' /\ LessonsBacked'
  BY <1>1, <1>2 DEF StoreInv, StoreOfAttempts, LessonsBacked
<1>5. \A a : Remembered(a)' <=> Remembered(a)
  BY <1>1, <1>2 DEF Remembered
<1>6. AttemptsRemembered'
  BY <1>1, <1>2, <1>5 DEF StoreInv, AttemptsRemembered, ExperiencePending, StoreQuiet
<1>7. PendingOfLast'
  BY DEF PendingOfLast, StoreQuiet
<1>8. LessonsCounted'
  <2>1. LessonsWritten' = LessonsWritten
    BY <1>1 DEF LessonsWritten
  <2>2. ASSUME status' # "failed"
        PROVE  Len(lessons') = Cardinality(LessonsWritten')
    <3>1. pc # "writing" /\ status # "failed"
      BY <2>2 DEF StoreQuiet
    <3>2. Len(lessons) = Cardinality(LessonsWritten) + 0
      BY <3>1 DEF StoreInv, LessonsCounted, LessonAnnounced
    <3>3. Len(lessons) \in Nat /\ Cardinality(LessonsWritten) \in Nat
      BY LenProperties, LessonsFinite DEF TypeOK
    <3> QED
      BY <1>1, <2>1, <3>2, <3>3
  <2>3. ~ LessonAnnounced'
    BY DEF LessonAnnounced, StoreQuiet
  <2>4. Cardinality(LessonsWritten') \in Nat
    BY <2>1, LessonsFinite
  <2> QED
    BY <2>2, <2>3, <2>4 DEF LessonsCounted
<1> QED
  BY <1>3, <1>4, <1>6, <1>7, <1>8 DEF StoreInv

\* Records joined to records.
LEMMA JoinThird ==
  ASSUME NEW d, NEW e, NEW m
  PROVE  << d, e >> \o << m >> = << d, e, m >>
<1> DEFINE T == {d, e, m}
<1>1. << d, e >> \in Seq(T) /\ << m >> \in Seq(T) /\ << d, e, m >> \in Seq(T)
  OBVIOUS
<1>2. /\ << d, e >> \o << m >> \in Seq(T)
      /\ Len(<< d, e >> \o << m >>) = 3
      /\ \A i \in 1 .. 3 : (<< d, e >> \o << m >>)[i] = << d, e, m >>[i]
  BY <1>1
<1> QED
  BY <1>1, <1>2, SeqEqual

LEMMA JoinFourth ==
  ASSUME NEW d, NEW e, NEW m, NEW l
  PROVE  << d, e, m >> \o << l >> = << d, e, m, l >>
<1> DEFINE T == {d, e, m, l}
<1>1. << d, e, m >> \in Seq(T) /\ << l >> \in Seq(T) /\ << d, e, m, l >> \in Seq(T)
  OBVIOUS
<1>2. /\ << d, e, m >> \o << l >> \in Seq(T)
      /\ Len(<< d, e, m >> \o << l >>) = 4
      /\ \A i \in 1 .. 4 : (<< d, e, m >> \o << l >>)[i] = << d, e, m, l >>[i]
  BY <1>1
<1> QED
  BY <1>1, <1>2, SeqEqual

LEMMA JoinNothing ==
  ASSUME NEW d, NEW e, NEW m
  PROVE  << d, e >> \o << >> = << d, e >> /\ << d, e, m >> \o << >> = << d, e, m >>
<1> DEFINE T == {d, e, m}
<1>1. << d, e >> \in Seq(T) /\ << d, e, m >> \in Seq(T)
  OBVIOUS
<1> QED
  BY <1>1, ConcatEmptySeq

\* The records of an attempt in their order: the experience is the second, a
\* lesson the last.
LEMMA RecordsShape ==
  ASSUME NEW verdict, NEW ingested \in BOOLEAN
  PROVE  LET records == RecordsOf(verdict, ingested)
             Record(kind) == [kind |-> kind, task |-> task,
                              action |-> usage.toolCalls, outcome |-> verdict]
         IN  /\ DOMAIN records = 1 .. Len(records) /\ Len(records) \in 2 .. 4
             /\ records[1] = Record("decision") /\ records[2] = Record("experience")
             /\ \A k \in DOMAIN records :
                  /\ records[k] = Record(records[k].kind)
                  /\ k > 2 => records[k].kind # "experience"
                  /\ records[k].kind = "lesson" => k = Len(records) /\ HasContrast(verdict)
<1> DEFINE Record(kind) == [kind |-> kind, task |-> task,
                            action |-> usage.toolCalls, outcome |-> verdict]
           records == RecordsOf(verdict, ingested)
           Shape == /\ DOMAIN records = 1 .. Len(records) /\ Len(records) \in 2 .. 4
                    /\ records[1] = Record("decision") /\ records[2] = Record("experience")
                    /\ \A k \in DOMAIN records :
                         /\ records[k] = Record(records[k].kind)
                         /\ k > 2 => records[k].kind # "experience"
                         /\ records[k].kind = "lesson" =>
                              k = Len(records) /\ HasContrast(verdict)
<1>1. \A kind : Record(kind).kind = kind
  OBVIOUS
<1>2. PICK d, e, m, l : /\ d = Record("decision") /\ e = Record("experience")
                        /\ m = Record("knowledge") /\ l = Record("lesson")
  OBVIOUS
<1>3. records = << d, e >> \o (IF ingested THEN << m >> ELSE << >>)
                           \o (IF HasContrast(verdict) THEN << l >> ELSE << >>)
  BY <1>2 DEF RecordsOf
<1> HIDE DEF Record, records
<1>4. ASSUME ingested /\ HasContrast(verdict)
      PROVE  Shape
  <2>1. records = << d, e, m, l >>
    <3>1. records = << d, e >> \o << m >> \o << l >>
      BY <1>3, <1>4, Zenon
    <3>2. << d, e >> \o << m >> = << d, e, m >>
      BY JoinThird, Zenon
    <3> QED
      BY <3>1, <3>2, JoinFourth
  <2>2. DOMAIN records = 1 .. Len(records)
    BY <2>1
  <2> QED
    BY <1>1, <1>2, <1>4, <2>1, <2>2
<1>5. ASSUME ingested /\ ~ HasContrast(verdict)
      PROVE  Shape
  <2>1. records = << d, e, m >>
    BY <1>3, <1>5, JoinThird, JoinNothing, Zenon
  <2>2. DOMAIN records = 1 .. Len(records)
    BY <2>1
  <2> QED
    BY <1>1, <1>2, <2>1, <2>2
<1>6. ASSUME ~ ingested /\ HasContrast(verdict)
      PROVE  Shape
  <2>1. records = << d, e, l >>
    BY <1>3, <1>6, JoinThird, JoinNothing, Zenon
  <2>2. DOMAIN records = 1 .. Len(records)
    BY <2>1
  <2> QED
    BY <1>1, <1>2, <1>6, <2>1, <2>2
<1>7. ASSUME ~ ingested /\ ~ HasContrast(verdict)
      PROVE  Shape
  <2>1. records = << d, e >>
    BY <1>3, <1>7, JoinNothing, Zenon
  <2>2. DOMAIN records = 1 .. Len(records)
    BY <2>1
  <2> QED
    BY <1>1, <1>2, <2>1, <2>2
<1> QED
  BY <1>4, <1>5, <1>6, <1>7, Zenon DEF Shape, Record, records

\* An attempt is judged: its records are to be put.
LEMMA StoreEvaluateStep ==
  ASSUME TypeOK, RunPhase, StoreInv, NEW verdict \in Verdicts,
         NEW ingested \in BOOLEAN, Evaluate(verdict, ingested)
  PROVE  StoreInv'
<1>1. PICK a : a = [task |-> task, action |-> usage.toolCalls, verdict |-> verdict]
  OBVIOUS
<1>2. PICK n \in Nat : n = Len(attempts)
  BY LenProperties DEF TypeOK
<1>3. /\ pc = "evaluating" /\ pc' = "writing" /\ attempts' = Append(attempts, a)
      /\ pending' = RecordsOf(verdict, ingested)
      /\ task' = task /\ written' = written /\ lessons' = lessons /\ usage' = usage
      /\ status' = status
  BY <1>1 DEF Evaluate
<1>4. status # "failed"
  BY <1>3 DEF RunPhase, Lifecycle!FinalStatus
<1>5. /\ Len(attempts') = n + 1 /\ DOMAIN attempts' = 1 .. (n + 1)
      /\ DOMAIN attempts = 1 .. n
      /\ \A i \in 1 .. n : attempts'[i] = attempts[i]
      /\ attempts'[n + 1] = a
  <2>1. a \in Attempt /\ attempts \in Seq(Attempt)
    BY <1>1, VerdictsAssumption DEF Attempt, TypeOK, RunUsage
  <2>2. /\ Append(attempts, a) \in Seq(Attempt)
        /\ Len(Append(attempts, a)) = n + 1
        /\ \A i \in 1 .. n : Append(attempts, a)[i] = attempts[i]
        /\ Append(attempts, a)[n + 1] = a
    BY <1>2, <2>1, AppendProperties
  <2>3. /\ DOMAIN attempts = 1 .. n
        /\ DOMAIN Append(attempts, a) = 1 .. Len(Append(attempts, a))
    BY <1>2, <2>1, <2>2, LenProperties
  <2> QED
    BY <1>3, <2>2, <2>3, Zenon
<1>6. /\ usage.toolCalls \in Nat
      /\ \A i \in 1 .. n : attempts[i].action \in Nat /\ attempts[i].action < usage.toolCalls
  <2>1. \A i \in 1 .. n : attempts[i] \in Attempt
    BY <1>5 DEF TypeOK
  <2>2. usage.toolCalls \in Nat
    BY DEF TypeOK, RunUsage
  <2> QED
    BY <1>3, <1>5, <2>1, <2>2 DEF StoreInv, ActionsCounted, Attempt
<1>7. a.task = task /\ a.action = usage.toolCalls /\ a.verdict = verdict
  BY <1>1
<1>8. \A i \in 1 .. (n + 1) : i \in 1 .. n \/ i = n + 1
  BY <1>2
<1>9. ActionsCounted'
  <2>1. ASSUME NEW i \in 1 .. (n + 1), NEW j \in 1 .. (n + 1), i < j
        PROVE  attempts'[i].action < attempts'[j].action
    <3>1. i \in 1 .. n
      BY <1>2, <2>1
    <3>2. CASE j \in 1 .. n
      BY <1>5, <2>1, <3>1, <3>2 DEF StoreInv, ActionsCounted
    <3>3. CASE j = n + 1
      BY <1>5, <1>6, <1>7, <3>1, <3>3
    <3> QED
      BY <1>8, <3>2, <3>3
  <2>2. ASSUME NEW i \in 1 .. (n + 1)
        PROVE  attempts'[i].action <= usage'.toolCalls
    BY <1>3, <1>5, <1>6, <1>7, <1>8
  <2> QED
    BY <1>3, <1>5, <2>1, <2>2 DEF ActionsCounted
<1>10. \A i \in 1 .. n : \A kind : RecordOf(i, kind)' = RecordOf(i, kind)
  BY <1>5 DEF RecordOf
<1>11. \A kind : RecordOf(n + 1, kind)' = [kind |-> kind, task |-> task,
                                           action |-> usage.toolCalls, outcome |-> verdict]
  BY <1>5, <1>7 DEF RecordOf
<1>12. StoreOfAttempts'
  <2>1. ASSUME NEW k \in DOMAIN written
        PROVE  \E i \in 1 .. (n + 1) : written'[k] = RecordOf(i, written[k].kind)'
    <3>1. PICK i \in 1 .. n : written[k] = RecordOf(i, written[k].kind)
      BY <1>5 DEF StoreInv, StoreOfAttempts
    <3>2. i \in 1 .. (n + 1) /\ attempts'[i] = attempts[i]
      BY <1>2, <1>5
    <3> QED
      BY <1>3, <3>1, <3>2 DEF RecordOf
  <2> QED
    BY <1>3, <1>5, <2>1 DEF StoreInv, StoreOfAttempts
<1>13. \A i \in 1 .. n : Remembered(i) => Remembered(i)'
  BY <1>3, <1>10 DEF Remembered
<1>14. ~ ExperiencePending /\ n \in Nat /\ (n # 0 => attempts # << >>)
  BY <1>2, <1>3 DEF ExperiencePending
<1>15. \A i \in 1 .. n : Remembered(i)
  <2> SUFFICES ASSUME NEW i \in 1 .. n PROVE Remembered(i)
    OBVIOUS
  <2>1. CASE i < n
    BY <1>2, <1>5, <2>1 DEF StoreInv, AttemptsRemembered
  <2>2. CASE i = n
    BY <1>2, <1>4, <1>14, <2>2 DEF StoreInv, AttemptsRemembered
  <2> QED
    BY <2>1, <2>2
<1>16. ASSUME NEW l \in DOMAIN written
       PROVE  written[l] # RecordOf(n + 1, "experience")'
  <2>1. PICK i \in 1 .. n : written[l] = RecordOf(i, written[l].kind)
    BY <1>5 DEF StoreInv, StoreOfAttempts
  <2>2. written[l].action = attempts[i].action
    BY <2>1, RecordFields
  <2>3. written[l].action # usage.toolCalls
    BY <1>6, <2>2
  <2>4. PICK record : record = RecordOf(n + 1, "experience")'
    OBVIOUS
  <2>5. record.action = usage.toolCalls
    BY <1>5, <1>7, <2>4 DEF RecordOf
  <2> QED
    BY <2>3, <2>4, <2>5
<1> DEFINE records == RecordsOf(verdict, ingested)
           Record(kind) == [kind |-> kind, task |-> task,
                            action |-> usage.toolCalls, outcome |-> verdict]
<1>17. /\ DOMAIN records = 1 .. Len(records) /\ Len(records) \in 2 .. 4
       /\ records[1] = Record("decision") /\ records[2] = Record("experience")
       /\ \A k \in DOMAIN records :
            /\ records[k] = Record(records[k].kind)
            /\ k > 2 => records[k].kind # "experience"
            /\ records[k].kind = "lesson" => k = Len(records) /\ HasContrast(verdict)
  BY RecordsShape
<1>18. pending' = records
  BY <1>3
<1>19. /\ \A kind : RecordOf(n + 1, kind)' = Record(kind)
       /\ Record("decision").kind = "decision" /\ Record("experience").kind = "experience"
  BY <1>11
<1> HIDE DEF records, Record
<1>20. ExperiencePending'
  BY <1>3, <1>17, <1>18, <1>19 DEF ExperiencePending
<1>21. AttemptsRemembered'
  BY <1>2, <1>3, <1>5, <1>13, <1>15, <1>16, <1>20 DEF AttemptsRemembered
<1>22. PendingOfLast'
  <2>1. attempts' # << >>
    BY <1>2, <1>5
  <2>2. \A k \in DOMAIN records :
          records[k] = [kind |-> records[k].kind, task |-> attempts'[n + 1].task,
                        action |-> attempts'[n + 1].action,
                        outcome |-> attempts'[n + 1].verdict]
    BY <1>5, <1>7, <1>17 DEF Record
  <2>3. ASSUME NEW k \in DOMAIN records, records[k].kind = "experience"
        PROVE  k = 2
    BY <1>17, <1>19, <2>3
  <2>4. ASSUME HasContrast(verdict)
        PROVE  /\ attempts'[n + 1].verdict = "success"
               /\ \E i \in 1 .. (n + 1) :
                    /\ i < n + 1
                    /\ attempts'[i].task = attempts'[n + 1].task
                    /\ attempts'[i].verdict # "success"
    <3>1. PICK i \in 1 .. n : attempts[i].task = task /\ attempts[i].verdict # "success"
      BY <1>5, <2>4 DEF HasContrast, AttemptsOn
    <3>2. verdict = "success"
      BY <2>4 DEF HasContrast
    <3>3. i \in 1 .. (n + 1) /\ i < n + 1
      BY <1>2
    <3> QED
      BY <1>5, <1>7, <3>1, <3>2, <3>3
  <2>5. \A k \in DOMAIN records : records[k].kind = "lesson" =>
          k = Len(records) /\ HasContrast(verdict)
    BY <1>17
  <2> QED
    BY <1>5, <1>18, <2>1, <2>2, <2>3, <2>4, <2>5 DEF PendingOfLast, RecordOf
<1>23. LessonsCounted' /\ LessonsBacked'
  <2>1. LessonsWritten' = LessonsWritten
    BY <1>3 DEF LessonsWritten
  <2>2. ~ LessonAnnounced /\ ~ LessonAnnounced'
    BY <1>3, <1>17, <1>18, <1>19 DEF LessonAnnounced
  <2> QED
    BY <1>3, <1>4, <2>1, <2>2 DEF StoreInv, LessonsCounted, LessonsBacked
<1> QED
  BY <1>9, <1>12, <1>21, <1>22, <1>23 DEF StoreInv

\* One record is put.
LEMMA StorePutStep ==
  ASSUME TypeOK, RunPhase, StoreInv, NEW calls, WriteRecord(calls)
  PROVE  StoreInv'
<1>0. PICK last : last = Len(attempts)
  OBVIOUS
<1>1. /\ pc = "writing" /\ status' = status /\ attempts' = attempts
      /\ status # "failed"
  BY DEF WriteRecord, RunPhase, Lifecycle!FinalStatus
<1>2. usage'.toolCalls = usage.toolCalls
  BY DEF WriteRecord, TypeOK, RunUsage
<1>3. /\ attempts \in Seq(Attempt) /\ attempts # << >>
      /\ last \in Nat /\ last \in DOMAIN attempts /\ DOMAIN attempts = 1 .. last
  BY <1>0, <1>1 DEF TypeOK, StoreInv, PendingOfLast
<1>4. /\ usage.toolCalls \in Nat
      /\ \A a \in DOMAIN attempts : attempts[a].action \in Nat
  <2>1. \A a \in DOMAIN attempts : attempts[a] \in Attempt
    BY <1>3
  <2> QED
    BY <2>1 DEF TypeOK, RunUsage, Attempt
<1>5. PICK h : h = Head(pending)
  OBVIOUS
<1>6. PICK p \in Nat \ {0} : /\ p = Len(pending) /\ DOMAIN pending = 1 .. p
                             /\ h = pending[1]
  BY <1>1, <1>5, LenProperties, EmptySeq DEF TypeOK
<1>7. PICK w \in Nat : w = Len(written) /\ DOMAIN written = 1 .. w
  BY LenProperties DEF TypeOK
<1>8. /\ DOMAIN written' = 1 .. (w + 1)
      /\ \A k \in 1 .. w : written'[k] = written[k]
      /\ written'[w + 1] = h
  <2>1. written \in Seq(MemoryRecord) /\ h \in MemoryRecord
    BY <1>6 DEF TypeOK
  <2>2. written' = Append(written, h)
    BY <1>5 DEF WriteRecord
  <2> QED
    BY <1>7, <2>1, <2>2
<1>9. /\ Len(pending') = p - 1 /\ DOMAIN pending' = 1 .. (p - 1)
      /\ \A k \in 1 .. (p - 1) : pending'[k] = pending[k + 1]
  <2>1. pending \in Seq(MemoryRecord) /\ pending' = Tail(pending)
    BY DEF TypeOK, WriteRecord
  <2> QED
    BY <1>6, <2>1
<1>10. /\ pc' = "writing" <=> p > 1
       /\ lessons' = IF p > 1 /\ pending[2].kind = "lesson"
                     THEN Append(lessons, pending[2].task) ELSE lessons
  BY <1>1, <1>6 DEF WriteRecord
<1>11. \A a, kind : RecordOf(a, kind)' = RecordOf(a, kind)
  BY <1>1 DEF RecordOf
<1>12. /\ \A k \in 1 .. p : pending[k] = RecordOf(last, pending[k].kind)
       /\ \A k, l \in 1 .. p :
            pending[k].kind = "experience" /\ pending[l].kind = "experience" => k = l
       /\ \A k \in 1 .. p : pending[k].kind = "lesson" =>
            /\ k = p
            /\ attempts[last].verdict = "success"
            /\ \E a \in DOMAIN attempts :
                 /\ a < last
                 /\ attempts[a].task = attempts[last].task
                 /\ attempts[a].verdict # "success"
  BY <1>0, <1>1, <1>6 DEF StoreInv, PendingOfLast
<1>13. h = RecordOf(last, h.kind) /\ h.action = attempts[last].action
  BY <1>6, <1>12, RecordFields
<1>14. \A k \in 1 .. (w + 1) : k \in 1 .. w \/ k = w + 1
  BY <1>7
<1>15. \A k \in 1 .. w : \E a \in DOMAIN attempts :
         /\ written[k] = RecordOf(a, written[k].kind)
         /\ written[k].action = attempts[a].action
         /\ written[k].action \in Nat /\ written[k].action <= h.action
  <2> SUFFICES ASSUME NEW k \in 1 .. w
               PROVE  \E a \in DOMAIN attempts :
                        /\ written[k] = RecordOf(a, written[k].kind)
                        /\ written[k].action = attempts[a].action
                        /\ written[k].action \in Nat /\ written[k].action <= h.action
    OBVIOUS
  <2>1. PICK a \in DOMAIN attempts : written[k] = RecordOf(a, written[k].kind)
    BY <1>7 DEF StoreInv, StoreOfAttempts
  <2>2. written[k].action = attempts[a].action
    BY <2>1, RecordFields
  <2>3. attempts[a].action <= attempts[last].action
    <3>1. CASE a = last
      BY <1>4, <3>1
    <3>2. CASE a < last
      BY <1>3, <1>4, <3>2 DEF StoreInv, ActionsCounted
    <3> QED
      BY <1>3, <3>1, <3>2
  <2> QED
    BY <1>4, <1>13, <2>1, <2>2, <2>3
<1>16. ActionsCounted'
  <2>1. pc' \notin {"executing", "evaluating"}
    BY <1>1 DEF WriteRecord
  <2> QED
    BY <1>1, <1>2, <2>1 DEF StoreInv, ActionsCounted
<1>17. StoreOfAttempts'
  <2>1. ASSUME NEW k \in 1 .. (w + 1)
        PROVE  \E a \in DOMAIN attempts : written'[k] = RecordOf(a, written'[k].kind)
    BY <1>3, <1>8, <1>13, <1>14, <1>15
  <2>2. ASSUME NEW k \in 1 .. (w + 1), NEW l \in 1 .. (w + 1), k < l
        PROVE  written'[k].action <= written'[l].action
    <3>1. k \in 1 .. w
      BY <1>7, <2>2
    <3>2. CASE l \in 1 .. w
      BY <1>7, <1>8, <2>2, <3>1, <3>2 DEF StoreInv, StoreOfAttempts
    <3>3. CASE l = w + 1
      BY <1>8, <1>15, <3>1, <3>3
    <3> QED
      BY <1>14, <3>2, <3>3
  <2> QED
    BY <1>1, <1>8, <2>1, <2>2 DEF StoreOfAttempts, RecordOf
<1>18. ASSUME NEW a \in DOMAIN attempts, Remembered(a),
              a < last \/ h.kind # "experience"
       PROVE  Remembered(a)'
  <2>1. h # RecordOf(a, "experience")
    <3>1. CASE h.kind # "experience"
      BY <3>1, RecordFields
    <3>2. CASE a < last
      <4>1. attempts[a].action < attempts[last].action
        BY <1>3, <3>2 DEF StoreInv, ActionsCounted
      <4>2. attempts[a].action # attempts[last].action
        BY <1>3, <1>4, <4>1
      <4>3. RecordOf(a, "experience").action = attempts[a].action
        BY RecordFields
      <4> QED
        BY <1>13, <4>2, <4>3
    <3> QED
      BY <1>18, <3>1, <3>2
  <2>2. PICK k \in 1 .. w :
          /\ written[k] = RecordOf(a, "experience")
          /\ \A l \in 1 .. w : written[l] = RecordOf(a, "experience") => l = k
    BY <1>7, <1>18 DEF Remembered
  <2>3. k \in 1 .. (w + 1)
    BY <1>7
  <2>4. \A l \in 1 .. (w + 1) : written'[l] = RecordOf(a, "experience") => l = k
    BY <1>8, <1>14, <2>1, <2>2
  <2> QED
    BY <1>8, <1>11, <2>2, <2>3, <2>4 DEF Remembered
<1>19. ASSUME ExperiencePending
       PROVE  /\ h.kind = "experience" => Remembered(last)'
              /\ h.kind = "experience" => ~ ExperiencePending'
              /\ h.kind # "experience" => ExperiencePending'
              /\ h.kind # "experience" =>
                   \A l \in 1 .. (w + 1) : written'[l] # RecordOf(last, "experience")
  <2>1. \A l \in 1 .. w : written[l] # RecordOf(last, "experience")
    BY <1>0, <1>7, <1>19 DEF StoreInv, AttemptsRemembered
  <2>2. ASSUME h.kind = "experience"
        PROVE  Remembered(last)' /\ ~ ExperiencePending'
    <3>1. h = RecordOf(last, "experience")
      BY <1>13, <2>2
    <3>2. \A l \in 1 .. (w + 1) : written'[l] = RecordOf(last, "experience") <=> l = w + 1
      BY <1>7, <1>8, <1>14, <2>1, <3>1
    <3>3. w + 1 \in 1 .. (w + 1)
      BY <1>7
    <3>4. \A k \in 1 .. (p - 1) : pending'[k].kind # "experience"
      <4> SUFFICES ASSUME NEW k \in 1 .. (p - 1), pending[k + 1].kind = "experience"
                   PROVE  FALSE
        BY <1>9
      <4>1. k + 1 \in 1 .. p /\ 1 \in 1 .. p /\ k + 1 # 1
        BY <1>6
      <4> QED
        BY <1>6, <1>12, <2>2, <4>1
    <3>5. Remembered(last)'
      BY <1>8, <1>11, <3>2, <3>3 DEF Remembered
    <3>6. ~ ExperiencePending'
      BY <1>9, <3>4 DEF ExperiencePending
    <3> QED
      BY <3>5, <3>6
  <2>3. ASSUME h.kind # "experience"
        PROVE  /\ ExperiencePending'
               /\ \A l \in 1 .. (w + 1) : written'[l] # RecordOf(last, "experience")
    <3>1. PICK k \in 1 .. p : pending[k].kind = "experience"
      BY <1>6, <1>19 DEF ExperiencePending
    <3>2. k # 1
      BY <1>6, <2>3, <3>1
    <3>3. k - 1 \in 1 .. (p - 1) /\ p > 1 /\ (k - 1) + 1 = k
      BY <1>6, <3>2
    <3>4. pending'[k - 1].kind = "experience"
      BY <1>9, <3>1, <3>3
    <3>5. h # RecordOf(last, "experience")
      BY <2>3, RecordFields
    <3> QED
      BY <1>8, <1>9, <1>10, <1>14, <2>1, <3>3, <3>4, <3>5 DEF ExperiencePending
  <2> QED
    BY <2>2, <2>3
<1>20. ASSUME ~ ExperiencePending
       PROVE  ~ ExperiencePending' /\ h.kind # "experience" /\ Remembered(last)
  <2>1. \A k \in 1 .. p : pending[k].kind # "experience"
    BY <1>1, <1>6, <1>20 DEF ExperiencePending
  <2>2. \A k \in 1 .. (p - 1) : pending'[k].kind # "experience"
    <3> SUFFICES ASSUME NEW k \in 1 .. (p - 1)
                 PROVE  pending[k + 1].kind # "experience"
      BY <1>9
    <3>1. k + 1 \in 1 .. p
      BY <1>6
    <3> QED
      BY <2>1, <3>1
  <2>3. 1 \in 1 .. p
    BY <1>6
  <2> QED
    BY <1>0, <1>1, <1>3, <1>6, <1>9, <1>20, <2>1, <2>2, <2>3
       DEF ExperiencePending, StoreInv, AttemptsRemembered
<1>21. AttemptsRemembered'
  <2>1. \A a \in DOMAIN attempts : a < last => Remembered(a)'
    BY <1>0, <1>18 DEF StoreInv, AttemptsRemembered
  <2>2. ~ ExperiencePending' => Remembered(last)'
    <3>1. CASE ExperiencePending
      BY <1>19, <3>1
    <3>2. CASE ~ ExperiencePending
      BY <1>3, <1>18, <1>20, <3>2
    <3> QED
      BY <3>1, <3>2
  <2>3. ExperiencePending' =>
          \A l \in 1 .. (w + 1) : written'[l] # RecordOf(last, "experience")
    BY <1>19, <1>20
  <2> QED
    BY <1>0, <1>1, <1>8, <2>1, <2>2, <2>3 DEF AttemptsRemembered, RecordOf
<1>22. PendingOfLast'
  <2>1. \A k \in 1 .. (p - 1) : k + 1 \in 1 .. p /\ (k + 1 = p => k = p - 1)
    BY <1>6
  <2>2. \A k \in 1 .. (p - 1) : pending'[k] = RecordOf(last, pending'[k].kind)
    BY <1>9, <1>12, <2>1
  <2>3. \A k, l \in 1 .. (p - 1) :
          pending'[k].kind = "experience" /\ pending'[l].kind = "experience" => k = l
    <3> SUFFICES ASSUME NEW k \in 1 .. (p - 1), NEW l \in 1 .. (p - 1),
                        pending'[k].kind = "experience", pending'[l].kind = "experience"
                 PROVE  k = l
      OBVIOUS
    <3>1. k + 1 = l + 1
      BY <1>9, <1>12, <2>1
    <3> QED
      BY <3>1
  <2>4. \A k \in 1 .. (p - 1) : pending'[k].kind = "lesson" =>
          /\ k = p - 1
          /\ attempts[last].verdict = "success"
          /\ \E a \in DOMAIN attempts :
               /\ a < last
               /\ attempts[a].task = attempts[last].task
               /\ attempts[a].verdict # "success"
    BY <1>9, <1>12, <2>1
  <2> QED
    BY <1>0, <1>1, <1>3, <1>9, <2>2, <2>3, <2>4 DEF PendingOfLast, RecordOf
<1>23. h.kind = "lesson" => p = 1
  <2>1. 1 \in 1 .. p
    BY <1>6
  <2> QED
    BY <1>6, <1>12, <2>1
<1>24. LessonsBacked'
  <2>1. ASSUME NEW k \in 1 .. w, written[k].kind = "lesson"
        PROVE  \E i, j \in 1 .. (k - 1) :
                 /\ i < j
                 /\ \A n \in {i, j} : /\ written'[n].kind = "experience"
                                      /\ written'[n].task = written'[k].task
                 /\ written'[i].outcome # "success"
                 /\ written'[j].outcome = "success"
                 /\ written'[j].action = written'[k].action
    <3>1. PICK i \in 1 .. (k - 1), j \in 1 .. (k - 1) :
            /\ i < j
            /\ \A n \in {i, j} : /\ written[n].kind = "experience"
                                 /\ written[n].task = written[k].task
            /\ written[i].outcome # "success"
            /\ written[j].outcome = "success"
            /\ written[j].action = written[k].action
      BY <1>7, <2>1 DEF StoreInv, LessonsBacked
    <3>2. i \in 1 .. w /\ j \in 1 .. w
      BY <1>7
    <3>3. written'[i] = written[i] /\ written'[j] = written[j] /\ written'[k] = written[k]
      BY <1>8, <3>2
    <3> QED
      BY <3>1, <3>3
  <2>2. ASSUME h.kind = "lesson"
        PROVE  \E i, j \in 1 .. w :
                 /\ i < j
                 /\ \A n \in {i, j} : /\ written'[n].kind = "experience"
                                      /\ written'[n].task = h.task
                 /\ written'[i].outcome # "success"
                 /\ written'[j].outcome = "success"
                 /\ written'[j].action = h.action
    <3>1. ~ ExperiencePending
      <4> SUFFICES ASSUME NEW k \in 1 .. p, pending[k].kind = "experience"
                   PROVE  FALSE
        BY <1>6 DEF ExperiencePending
      <4>1. k = 1
        BY <1>23, <2>2
      <4> QED
        BY <1>6, <2>2, <4>1
    <3>2. PICK j \in 1 .. w : written[j] = RecordOf(last, "experience")
      BY <1>7, <1>20, <3>1 DEF Remembered
    <3>3. PICK a \in DOMAIN attempts : /\ a < last
                                       /\ attempts[a].task = attempts[last].task
                                       /\ attempts[a].verdict # "success"
      BY <1>6, <1>12, <2>2
    <3>4. PICK i \in 1 .. w : written[i] = RecordOf(a, "experience")
      BY <1>0, <1>7, <3>3 DEF StoreInv, AttemptsRemembered, Remembered
    <3>5. attempts[last].verdict = "success"
      BY <1>6, <1>12, <2>2
    <3>6. /\ written[j].kind = "experience" /\ written[j].task = attempts[last].task
          /\ written[j].action = attempts[last].action /\ written[j].outcome = "success"
      BY <3>2, <3>5, RecordFields
    <3>7. /\ written[i].kind = "experience" /\ written[i].task = attempts[last].task
          /\ written[i].action = attempts[a].action /\ written[i].outcome # "success"
      BY <3>3, <3>4, RecordFields
    <3>8. h.task = attempts[last].task
      BY <1>13, RecordFields
    <3>9. i < j
      <4>1. attempts[a].action < attempts[last].action
        BY <1>3, <3>3 DEF StoreInv, ActionsCounted
      <4>2. j < i => written[j].action <= written[i].action
        BY <1>7 DEF StoreInv, StoreOfAttempts
      <4>3. j # i /\ ~ (j < i)
        BY <1>3, <1>4, <3>3, <3>6, <3>7, <4>1, <4>2
      <4> QED
        BY <1>7, <4>3
    <3> QED
      BY <1>8, <1>13, <3>6, <3>7, <3>8, <3>9
  <2>3. (w + 1) - 1 = w
    BY <1>7
  <2>4. ASSUME NEW k \in 1 .. (w + 1), written'[k].kind = "lesson"
        PROVE  \E i, j \in 1 .. (k - 1) :
                 /\ i < j
                 /\ \A n \in {i, j} : /\ written'[n].kind = "experience"
                                      /\ written'[n].task = written'[k].task
                 /\ written'[i].outcome # "success"
                 /\ written'[j].outcome = "success"
                 /\ written'[j].action = written'[k].action
    <3>1. CASE k \in 1 .. w
      BY <1>8, <2>1, <2>4, <3>1
    <3>2. CASE k = w + 1
      BY <1>8, <2>2, <2>3, <2>4, <3>2
    <3> QED
      BY <1>14, <3>1, <3>2
  <2> QED
    BY <1>8, <2>4 DEF LessonsBacked
<1>25. LessonsCounted'
  <2>1. IsFiniteSet(LessonsWritten) /\ Cardinality(LessonsWritten) \in Nat
    BY LessonsFinite
  <2>2. Len(lessons) = Cardinality(LessonsWritten) + IF h.kind = "lesson" THEN 1 ELSE 0
    BY <1>1, <1>6 DEF StoreInv, LessonsCounted, LessonAnnounced
  <2>3. Cardinality(LessonsWritten') =
          Cardinality(LessonsWritten) + IF h.kind = "lesson" THEN 1 ELSE 0
    <3>1. w + 1 \notin LessonsWritten
      BY <1>7 DEF LessonsWritten
    <3>2. CASE h.kind = "lesson"
      <4>1. LessonsWritten' = LessonsWritten \cup {w + 1}
        BY <1>7, <1>8, <1>14, <3>2 DEF LessonsWritten
      <4> QED
        BY <2>1, <3>1, <3>2, <4>1, FS_AddElement
    <3>3. CASE h.kind # "lesson"
      <4>1. LessonsWritten' = LessonsWritten
        BY <1>7, <1>8, <1>14, <3>3 DEF LessonsWritten
      <4> QED
        BY <2>1, <3>3, <4>1
    <3> QED
      BY <3>2, <3>3
  <2>4. LessonAnnounced' <=> p > 1 /\ pending[2].kind = "lesson"
    <3>1. p > 1 => pending'[1] = pending[2]
      BY <1>6, <1>9
    <3> QED
      BY <1>10, <3>1 DEF LessonAnnounced
  <2>5. Len(lessons') = Len(lessons) + IF p > 1 /\ pending[2].kind = "lesson" THEN 1 ELSE 0
    <3>1. p > 1 => pending[2].task \in Nat
      <4>1. pending \in Seq(MemoryRecord)
        BY DEF TypeOK
      <4>2. p > 1 => pending[2] \in MemoryRecord
        BY <1>6, <4>1
      <4> QED
        BY <4>2 DEF MemoryRecord
    <3>2. lessons \in Seq(Nat)
      BY DEF TypeOK
    <3> QED
      BY <1>10, <3>1, <3>2
  <2> QED
    BY <2>1, <2>2, <2>3, <2>4, <2>5 DEF LessonsCounted
<1> QED
  BY <1>16, <1>17, <1>21, <1>22, <1>24, <1>25 DEF StoreInv

\* Every step preserves the invariant of the memory.
LEMMA StoreStep == TypeOK /\ RunPhase /\ StoreInv /\ [Next]_vars => StoreInv'
<1> SUFFICES ASSUME TypeOK, RunPhase, StoreInv, [Next]_vars PROVE StoreInv'
  OBVIOUS
<1>q. ASSUME StoreQuiet PROVE StoreInv'
  BY <1>q, StoreQuietStep
<1>f. status = "failed" => pc = "returned"
  BY DEF RunPhase, Lifecycle!FinalStatus
<1>t. usage \in RunUsage /\ usage.toolCalls \in Nat
  BY DEF TypeOK, RunUsage
<1>1. CASE Start
  BY <1>1, <1>q, <1>f DEF Start, StoreQuiet
<1>2. ASSUME NEW calls \in EmbeddingCalls, RetrieveMemory(calls)
      PROVE  StoreInv'
  <2>1. usage'.toolCalls = usage.toolCalls
    BY <1>2, <1>t DEF RetrieveMemory, RunUsage
  <2> QED
    BY <1>2, <1>q, <1>f, <2>1 DEF RetrieveMemory, StoreQuiet
<1>3. ASSUME NEW calls \in EmbeddingCalls, WriteRecord(calls)
      PROVE  StoreInv'
  BY <1>3, StorePutStep
<1>4. ASSUME NEW calls \in EmbeddingCalls, EnvironmentThrows(calls)
      PROVE  StoreInv'
  <2>1. usage'.toolCalls = usage.toolCalls
    BY <1>4, <1>t DEF EnvironmentThrows, SpendModelCalls, RunUsage
  <2>2. ~ IsFinished
    BY <1>4 DEF EnvironmentThrows, RunPhase, TypeOK, RunStatus, Lifecycle!FinalStatus, IsFinished
  <2>3. pc' = "returned" /\ status' = "failed"
    BY <1>4, <2>2 DEF EnvironmentThrows, Catch
  <2> QED
    BY <1>4, <1>q, <2>1, <2>3 DEF EnvironmentThrows, StoreQuiet
<1>5. CASE StopAtLimit
  BY <1>5, <1>q, <1>f DEF StopAtLimit, StoreQuiet
<1>6. CASE CompleteWhenNoTaskLeft
  BY <1>6, <1>q, <1>f DEF CompleteWhenNoTaskLeft, CompleteGoal, StoreQuiet
<1>7. CASE BeginIteration
  <2>1. usage'.toolCalls = usage.toolCalls
    BY <1>7, <1>t DEF BeginIteration, RunUsage
  <2> QED
    BY <1>7, <1>q, <1>f, <2>1 DEF BeginIteration, StoreQuiet
<1>8. ASSUME NEW calls \in 1 .. CallsPerRequest,
             NEW proposals \in Proposals(<< >>), CreateInitialPlan(calls, proposals)
      PROVE  StoreInv'
  <2>1. usage'.toolCalls = usage.toolCalls
    BY <1>8, <1>t DEF CreateInitialPlan, SpendModelCalls, RunUsage
  <2> QED
    BY <1>8, <1>q, <1>f, <2>1 DEF CreateInitialPlan, StoreQuiet
<1>9. ASSUME NEW calls \in 1 .. CallsPerRequest, SelectGiveUp(calls) \/ SelectFinish(calls)
      PROVE  StoreInv'
  <2>1. usage'.toolCalls = usage.toolCalls
    BY <1>9, <1>t DEF SelectGiveUp, SelectFinish, SpendModelCalls, RunUsage
  <2> QED
    BY <1>9, <1>q, <1>f, <2>1 DEF SelectGiveUp, SelectFinish, StoreQuiet
<1>10. ASSUME NEW calls \in 1 .. CallsPerRequest, SelectAct(calls)
       PROVE  StoreInv'
  <2>1. usage'.toolCalls = usage.toolCalls + 1
    BY <1>10, <1>t DEF SelectAct, RunUsage
  <2> QED
    BY <1>10, <1>q, <1>f, <2>1 DEF SelectAct, StoreQuiet
<1>11. ASSUME NEW calls \in 1 .. CallsPerRequest,
              NEW proposals \in Proposals(plan.tasks), NEW changed \in BOOLEAN,
              RevisePlan(calls, proposals, changed)
       PROVE  StoreInv'
  <2>1. usage'.toolCalls = usage.toolCalls
    BY <1>11, <1>t DEF RevisePlan, RunUsage
  <2> QED
    BY <1>11, <1>q, <1>f, <2>1 DEF RevisePlan, StoreQuiet
<1>12. ASSUME NEW calls \in 1 .. CallsPerRequest, ModelRequestThrows(calls)
       PROVE  StoreInv'
  <2>1. usage'.toolCalls = usage.toolCalls
    BY <1>12, <1>t DEF ModelRequestThrows, SpendModelCalls, RunUsage
  <2>2. ~ IsFinished
    BY <1>12 DEF ModelRequestThrows, RunPhase, TypeOK, RunStatus, Lifecycle!FinalStatus,
                 IsFinished
  <2>3. pc' = "returned" /\ status' = "failed"
    BY <1>12, <2>2 DEF ModelRequestThrows, Catch
  <2> QED
    BY <1>12, <1>q, <2>1, <2>3 DEF ModelRequestThrows, StoreQuiet
<1>13. ASSUME NEW result \in {"ok", "error"}, Observe(result)
       PROVE  StoreInv'
  BY <1>13, <1>q, <1>f DEF Observe, StoreQuiet
<1>14. ASSUME NEW verdict \in Verdicts, NEW ingested \in BOOLEAN,
              Evaluate(verdict, ingested)
       PROVE  StoreInv'
  BY <1>14, StoreEvaluateStep
<1>15. ASSUME NEW verdict \in Verdicts, AcceptClaim(verdict) \/ RejectClaim(verdict)
       PROVE  StoreInv'
  BY <1>15, <1>q, <1>f DEF AcceptClaim, RejectClaim, CompleteGoal, StoreQuiet
<1>16. CASE UNCHANGED vars
  <2>1. /\ pc' = pc /\ status' = status /\ attempts' = attempts /\ written' = written
        /\ pending' = pending /\ lessons' = lessons /\ usage' = usage
    BY <1>16 DEF vars
  <2> QED
    BY <2>1 DEF StoreInv, ActionsCounted, StoreOfAttempts, AttemptsRemembered, Remembered,
                ExperiencePending, RecordOf, PendingOfLast, LessonsCounted,
                LessonsWritten, LessonAnnounced, LessonsBacked
<1> QED
  BY <1>1, <1>2, <1>3, <1>4, <1>5, <1>6, <1>7, <1>8, <1>9, <1>10, <1>11, <1>12,
     <1>13, <1>14, <1>15, <1>16
     DEF Next, MemoryStep, ModelStep, EvaluatorStep

\* At rest, what was judged is what is remembered.
LEMMA StoreTellsRun ==
  ASSUME TypeOK, StoreInv
  PROVE  MemoryKept
<1>1. ASSUME pc # "writing", status # "failed", NEW a \in DOMAIN attempts
      PROVE  Cardinality({k \in DOMAIN written :
                            written[k] = [kind |-> "experience",
                                          task |-> attempts[a].task,
                                          action |-> attempts[a].action,
                                          outcome |-> attempts[a].verdict]}) = 1
  <2>1. /\ Len(attempts) \in Nat /\ DOMAIN attempts = 1 .. Len(attempts)
        /\ attempts # << >>
    <3>1. Len(attempts) \in Nat /\ DOMAIN attempts = 1 .. Len(attempts)
      BY LenProperties DEF TypeOK
    <3> QED
      BY <1>1, <3>1
  <2>2. ~ ExperiencePending
    BY <1>1 DEF ExperiencePending
  <2>3. Remembered(a)
    <3>1. CASE a < Len(attempts)
      BY <1>1, <3>1 DEF StoreInv, AttemptsRemembered
    <3>2. CASE a = Len(attempts)
      BY <1>1, <2>1, <2>2, <3>2 DEF StoreInv, AttemptsRemembered
    <3> QED
      BY <1>1, <2>1, <3>1, <3>2
  <2>4. PICK k \in DOMAIN written :
          {l \in DOMAIN written : written[l] = RecordOf(a, "experience")} = {k}
    BY <2>3 DEF Remembered
  <2> QED
    BY <2>4, FS_Singleton DEF RecordOf
<1>2. ASSUME pc # "writing", status # "failed"
      PROVE  Len(lessons) =
               Cardinality({k \in DOMAIN written : written[k].kind = "lesson"})
  <2>1. Cardinality(LessonsWritten) \in Nat
    BY LessonsFinite
  <2> QED
    BY <1>2, <2>1 DEF StoreInv, LessonsCounted, LessonAnnounced, LessonsWritten
<1> QED
  BY <1>1, <1>2 DEF StoreInv, MemoryKept, MemoryComplete

\* The store tells the run: at any moment a lesson has its evidence before it,
\* and unless the run failed every attempt is remembered once and every
\* announced lesson is there.
THEOREM RunMemoryKept == Spec => []MemoryKept
<1>1. Init => StoreInv
  <2> SUFFICES ASSUME Init PROVE StoreInv
    OBVIOUS
  <2>1. /\ pc = "constructed" /\ attempts = << >> /\ written = << >> /\ lessons = << >>
    BY DEF Init
  <2>2. DOMAIN attempts = {} /\ DOMAIN written = {} /\ Len(lessons) = 0
    BY <2>1
  <2>3. LessonsWritten = {} /\ Cardinality(LessonsWritten) = 0
    BY <2>2, FS_EmptySet DEF LessonsWritten
  <2> QED
    BY <2>1, <2>2, <2>3
       DEF StoreInv, ActionsCounted, StoreOfAttempts, AttemptsRemembered,
           ExperiencePending, PendingOfLast, LessonsCounted, LessonAnnounced, LessonsBacked
<1>2. TypeOK /\ RunPhase /\ StoreInv /\ [Next]_vars => StoreInv'
  BY StoreStep
<1>3. TypeOK /\ StoreInv => MemoryKept
  BY StoreTellsRun
<1> QED
  BY <1>1, <1>2, <1>3, PlanInvariant, PTL DEF Spec

-----------------------------------------------------------------------------
(* What the log of a run tells.                                            *)

\* What one event makes of the trajectory told so far.
ToldStep(t, events, f, i) == IF i = 0 THEN t ELSE Told(f[i - 1], events[i])

IsToldUpTo(t, events, n, f) == f = [i \in 0 .. n |-> ToldStep(t, events, f, i)]

\* The recursive function ToldAll is defined by does exist.
LEMMA ToldExists ==
  ASSUME NEW t, NEW events, NEW len \in Nat
  PROVE  \E f : IsToldUpTo(t, events, len, f)
<1> DEFINE Bad == {n \in 0 .. len : ~ \E f : IsToldUpTo(t, events, n, f)}
<1>1. SUFFICES ASSUME Bad # {} PROVE FALSE
  <2>1. len \in 0 .. len
    OBVIOUS
  <2> QED
    BY <2>1
<1>2. PICK n \in Bad : \A m \in Bad : n <= m
  <2>1. Bad \in SUBSET Nat
    OBVIOUS
  <2> HIDE DEF Bad
  <2> QED
    BY <1>1, <2>1, LeastNatural
<1>3. n # 0
  <2>1. IsToldUpTo(t, events, 0, [i \in 0 .. 0 |-> t])
    BY DEF ToldStep, IsToldUpTo
  <2> QED
    BY <2>1
<1>4. n - 1 \in 0 .. len /\ n \in 1 .. len
  BY <1>3
<1>5. PICK f : IsToldUpTo(t, events, n - 1, f)
  <2>1. n - 1 \notin Bad
    BY <1>2, <1>4
  <2> QED
    BY <2>1, <1>4
<1> DEFINE g == [i \in 0 .. n |-> IF i = n THEN ToldStep(t, events, f, n) ELSE f[i]]
<1>6. ASSUME NEW i \in 0 .. n
      PROVE  g[i] = ToldStep(t, events, g, i)
  <2>1. CASE i = n
    <3>1. g[n - 1] = f[n - 1]
      BY <1>4
    <3> QED
      BY <2>1, <3>1, <1>4 DEF ToldStep
  <2>2. CASE i # n
    <3>1. i \in 0 .. n - 1
      BY <2>2, <1>4
    <3>2. f[i] = ToldStep(t, events, f, i)
      BY <3>1, <1>5 DEF IsToldUpTo
    <3>3. i # 0 => g[i - 1] = f[i - 1]
      BY <3>1, <1>4
    <3> QED
      BY <3>1, <3>2, <3>3, <2>2 DEF ToldStep
  <2> QED
    BY <2>1, <2>2
<1>7. g = [i \in 0 .. n |-> ToldStep(t, events, g, i)]
  <2>1. g = [i \in 0 .. n |-> g[i]]
    OBVIOUS
  <2> HIDE DEF g
  <2> QED
    BY <2>1, <1>6
<1> QED
  BY <1>7 DEF IsToldUpTo

\* Two such functions agree as far as both go.
LEMMA ToldUnique ==
  ASSUME NEW t, NEW events, NEW others, NEW m \in Nat, NEW n \in Nat, m <= n, NEW f, NEW g,
         IsToldUpTo(t, events, m, f), IsToldUpTo(t, others, n, g),
         \A i \in 1 .. m : events[i] = others[i]
  PROVE  f[m] = g[m]
<1> DEFINE Same == {i \in 0 .. m : f[i] # g[i]}
<1>1. SUFFICES ASSUME Same # {} PROVE FALSE
  BY DEF Same
<1>2. PICK i \in Same : \A j \in Same : i <= j
  <2>1. Same \in SUBSET Nat
    OBVIOUS
  <2> HIDE DEF Same
  <2> QED
    BY <1>1, <2>1, LeastNatural
<1>3. f[i] = ToldStep(t, events, f, i) /\ g[i] = ToldStep(t, others, g, i)
  <2>1. i \in 0 .. m /\ i \in 0 .. n
    BY <1>2
  <2> QED
    BY <2>1 DEF IsToldUpTo
<1>4. i # 0
  BY <1>3 DEF ToldStep
<1>5. i - 1 \in 0 .. m /\ i - 1 \notin Same
  BY <1>2, <1>4
<1>6. f[i - 1] = g[i - 1] /\ events[i] = others[i]
  BY <1>4, <1>5
<1> QED
  BY <1>3, <1>4, <1>6 DEF ToldStep

LEMMA ToldNothing ==
  ASSUME NEW t
  PROVE  ToldAll(t, << >>) = t
<1> DEFINE f == CHOOSE g : IsToldUpTo(t, << >>, 0, g)
<1>1. IsToldUpTo(t, << >>, 0, f)
  BY ToldExists
<1>2. ToldAll(t, << >>) = f[0]
  BY DEF ToldAll, IsToldUpTo, ToldStep
<1>3. f[0] = t
  <2> HIDE DEF f
  <2> QED
    BY <1>1 DEF IsToldUpTo, ToldStep
<1> QED
  BY <1>2, <1>3

\* One more event is told after those before it.
LEMMA ToldOneMore ==
  ASSUME NEW t, NEW S, NEW events \in Seq(S), NEW event
  PROVE  ToldAll(t, events \o << event >>) = Told(ToldAll(t, events), event)
<1> DEFINE more == events \o << event >>
           n == Len(events)
           f == CHOOSE h : IsToldUpTo(t, events, Len(events), h)
           g == CHOOSE h : IsToldUpTo(t, more, Len(more), h)
<1>1. /\ n \in Nat /\ Len(more) = n + 1 /\ more[n + 1] = event
      /\ \A i \in 1 .. n : events[i] = more[i]
  OBVIOUS
<1>2. IsToldUpTo(t, events, n, f) /\ IsToldUpTo(t, more, n + 1, g)
  <2>1. IsToldUpTo(t, events, Len(events), f)
    BY <1>1, ToldExists
  <2>2. IsToldUpTo(t, more, Len(more), g)
    <3>1. Len(more) \in Nat
      BY <1>1
    <3> HIDE DEF more
    <3> QED
      BY <3>1, ToldExists
  <2> QED
    BY <1>1, <2>1, <2>2
<1>3. ToldAll(t, events) = f[n] /\ ToldAll(t, more) = g[n + 1]
  <2>1. ToldAll(t, events) = f[Len(events)]
    BY DEF ToldAll, IsToldUpTo, ToldStep
  <2>2. ToldAll(t, more) = g[Len(more)]
    BY DEF ToldAll, IsToldUpTo, ToldStep
  <2> QED
    BY <1>1, <2>1, <2>2
<1> HIDE DEF f, g, more, n
<1>4. f[n] = g[n]
  BY <1>1, <1>2, ToldUnique
<1>5. g[n + 1] = Told(g[n], event)
  BY <1>1, <1>2 DEF IsToldUpTo, ToldStep
<1> QED
  BY <1>3, <1>4, <1>5 DEF more

\* One more call is one more event.
LEMMA OneMoreCall ==
  ASSUME NEW n \in Nat, NEW e, e = Event("MODEL_CALL_COMPLETED")
  PROVE  ModelCalls(n) \in Seq({e}) /\ ModelCalls(n + 1) = ModelCalls(n) \o << e >>
<1>1. PICK s : s = ModelCalls(n)
  OBVIOUS
<1>2. PICK t : t = ModelCalls(n + 1)
  OBVIOUS
<1>3. s \in Seq({e}) /\ Len(s) = n /\ \A i \in 1 .. n : s[i] = e
  <2>1. s \in [1 .. n -> {e}]
    BY <1>1 DEF ModelCalls
  <2>2. \A i \in 1 .. n : s[i] = e
    BY <1>1 DEF ModelCalls
  <2> QED
    BY <2>1, <2>2, SeqDef
<1>4. t \in Seq({e}) /\ Len(t) = n + 1 /\ \A i \in 1 .. n + 1 : t[i] = e
  <2>1. t \in [1 .. n + 1 -> {e}] /\ n + 1 \in Nat
    BY <1>2 DEF ModelCalls
  <2>2. \A i \in 1 .. n + 1 : t[i] = e
    BY <1>2 DEF ModelCalls
  <2> QED
    BY <2>1, <2>2, SeqDef
<1>5. << e >> \in Seq({e}) /\ Len(<< e >>) = 1 /\ << e >>[1] = e
  OBVIOUS
<1>6. PICK u : u = s \o << e >>
  OBVIOUS
<1>7. u \in Seq({e}) /\ Len(u) = n + 1
  BY <1>3, <1>5, <1>6, ConcatProperties
<1>8. \A i \in 1 .. n + 1 : u[i] = e
  BY <1>7, ElementOfSeq
<1>9. t = u
  BY <1>4, <1>7, <1>8, SeqEqual
<1> QED
  BY <1>1, <1>2, <1>3, <1>6, <1>9

\* The calls of a request add up.
LEMMA ToldModelCalls ==
  ASSUME NEW t \in Trajectory, NEW calls \in Nat
  PROVE  ToldAll(t, ModelCalls(calls)) = [t EXCEPT !.modelCalls = @ + calls]
<1> DEFINE Good == {n \in Nat : ToldAll(t, ModelCalls(n)) = [t EXCEPT !.modelCalls = @ + n]}
<1>1. 0 \in Good
  <2>1. ModelCalls(0) = << >>
    BY DEF ModelCalls
  <2>2. [t EXCEPT !.modelCalls = @ + 0] = t
    BY DEF Trajectory
  <2> QED
    BY <2>1, <2>2, ToldNothing
<1>2. ASSUME NEW n \in Good PROVE n + 1 \in Good
  <2>1. n \in Nat /\ ToldAll(t, ModelCalls(n)) = [t EXCEPT !.modelCalls = @ + n]
    OBVIOUS
  <2> HIDE DEF Good
  <2>2. PICK call : call = Event("MODEL_CALL_COMPLETED")
    OBVIOUS
  <2>4. ModelCalls(n) \in Seq({call}) /\ ModelCalls(n + 1) = ModelCalls(n) \o << call >>
    BY <2>1, <2>2, OneMoreCall
  <2>5. ToldAll(t, ModelCalls(n + 1)) = Told(ToldAll(t, ModelCalls(n)), call)
    <3>1. PICK es, S : es = ModelCalls(n) /\ S = {call}
      OBVIOUS
    <3>2. es \in Seq(S)
      BY <2>4, <3>1
    <3>3. ToldAll(t, es \o << call >>) = Told(ToldAll(t, es), call)
      BY <3>2, ToldOneMore
    <3> QED
      BY <2>4, <3>1, <3>3
  <2>6. PICK u : u = [t EXCEPT !.modelCalls = @ + n]
    OBVIOUS
  <2>7. Told(u, call) = [u EXCEPT !.modelCalls = @ + 1]
    BY <2>2 DEF Told, Event
  <2>8. [u EXCEPT !.modelCalls = @ + 1] = [t EXCEPT !.modelCalls = @ + (n + 1)]
    <3>1. t.modelCalls \in Nat
      BY DEF Trajectory
    <3>2. t.modelCalls + (n + 1) = (t.modelCalls + n) + 1
      BY <2>1, <3>1
    <3>3. u.modelCalls = t.modelCalls + n
      BY <2>6 DEF Trajectory
    <3>4. [u EXCEPT !.modelCalls = u.modelCalls + 1]
            = [t EXCEPT !.modelCalls = u.modelCalls + 1]
      BY <2>6 DEF Trajectory
    <3> QED
      BY <3>2, <3>3, <3>4
  <2> QED
    BY <2>1, <2>5, <2>6, <2>7, <2>8 DEF Good
<1>3. Good \in SUBSET Nat
  OBVIOUS
<1> HIDE DEF Good
<1>4. Good = Nat
  BY <1>1, <1>2, <1>3, NaturalSet
<1> QED
  BY <1>4 DEF Good

\* The terminal event, if there is one, is told last.
LEMMA ToldAnnounced ==
  ASSUME TypeOK, NEW S, NEW events \in Seq(S), Emits(events)
  PROVE  /\ terminal' = terminal => trajectory' = ToldAll(trajectory, events)
         /\ \A type : terminal' = Append(terminal, type) =>
              trajectory' = Told(ToldAll(trajectory, events), TerminalEvent(type))
<1>1. Len(terminal) \in Nat /\ terminal \in Seq(TerminalEvents)
  BY DEF TypeOK
<1>2. ASSUME terminal' = terminal PROVE trajectory' = ToldAll(trajectory, events)
  <2>1. Announced = << >>
    BY <1>1, <1>2 DEF Announced
  <2> QED
    BY <2>1 DEF Emits
<1>3. ASSUME NEW type, terminal' = Append(terminal, type)
      PROVE  trajectory' = Told(ToldAll(trajectory, events), TerminalEvent(type))
  <2>1. Len(terminal') = Len(terminal) + 1 /\ terminal'[Len(terminal) + 1] = type
    BY <1>1, <1>3
  <2>2. Announced = << TerminalEvent(type) >>
    <3>1. Announced = [i \in 1 .. 1 |-> TerminalEvent(terminal'[Len(terminal) + i])]
      BY <1>1, <2>1 DEF Announced
    <3>2. Announced = [i \in 1 .. 1 |-> TerminalEvent(type)]
      BY <2>1, <3>1
    <3> QED
      BY <3>2
  <2> QED
    BY <2>2, ToldOneMore DEF Emits
<1> QED
  BY <1>2, <1>3

-----------------------------------------------------------------------------
\* A trajectory by its fields.
Tale(steps, retries, changes, writes, calls, final) ==
  [steps |-> steps, retries |-> retries, strategyChanges |-> changes,
   memoryWrites |-> writes, modelCalls |-> calls, finalStatus |-> final]

LEMMA TrajectoryTale ==
  ASSUME NEW t \in Trajectory
  PROVE  /\ t = Tale(t.steps, t.retries, t.strategyChanges, t.memoryWrites, t.modelCalls,
                     t.finalStatus)
         /\ t.steps \in Seq(TrajectoryStep) /\ t.retries \in Nat /\ t.strategyChanges \in Nat
         /\ t.memoryWrites \in Nat /\ t.modelCalls \in Nat
         /\ t.finalStatus \in {"none", "completed", "failed", "limit_reached"}
BY DEF Trajectory, Tale

LEMMA TaleFields ==
  ASSUME NEW s, NEW r, NEW c, NEW w, NEW m, NEW e, NEW t, t = Tale(s, r, c, w, m, e)
  PROVE  /\ t.steps = s /\ t.retries = r /\ t.strategyChanges = c
         /\ t.memoryWrites = w /\ t.modelCalls = m /\ t.finalStatus = e
BY DEF Tale

LEMMA TaleTyped ==
  ASSUME NEW s \in Seq(TrajectoryStep), NEW r \in Nat, NEW c \in Nat, NEW w \in Nat, NEW m \in Nat,
         NEW e \in {"none", "completed", "failed", "limit_reached"}
  PROVE  Tale(s, r, c, w, m, e) \in Trajectory
BY DEF Trajectory, Tale

EndTold(type) ==
  IF type \in {"GOAL_FAILED:gave_up", "GOAL_FAILED:unrecoverable"} THEN "failed"
  ELSE IF type = "GOAL_COMPLETED" THEN "completed" ELSE "limit_reached"

\* What each event adds to a trajectory.
LEMMA ToldEach ==
  ASSUME NEW s, NEW r, NEW c, NEW w, NEW m, NEW e
  PROVE  LET t == Tale(s, r, c, w, m, e)
         IN  /\ Told(t, Event("RETRY_STARTED")) = Tale(s, r + 1, c, w, m, e)
             /\ Told(t, Event("STRATEGY_CHANGED")) = Tale(s, r, c + 1, w, m, e)
             /\ Told(t, Event("MEMORY_WRITTEN")) = Tale(s, r, c, w + 1, m, e)
             /\ \A type \in TerminalEvents :
                  Told(t, TerminalEvent(type)) = Tale(s, r, c, w, m, EndTold(type))
<1>1. PICK t : t = Tale(s, r, c, w, m, e)
  OBVIOUS
<1>2. Told(t, Event("RETRY_STARTED")) = Tale(s, r + 1, c, w, m, e)
  BY <1>1 DEF Told, Event, Tale
<1>3. Told(t, Event("STRATEGY_CHANGED")) = Tale(s, r, c + 1, w, m, e)
  BY <1>1 DEF Told, Event, Tale
<1>4. Told(t, Event("MEMORY_WRITTEN")) = Tale(s, r, c, w + 1, m, e)
  BY <1>1 DEF Told, Event, Tale
<1>5. ASSUME NEW type \in TerminalEvents
      PROVE  Told(t, TerminalEvent(type)) = Tale(s, r, c, w, m, EndTold(type))
  <2>1. PICK event : event = TerminalEvent(type)
    OBVIOUS
  <2>2. /\ event.type \in {"GOAL_COMPLETED", "GOAL_FAILED", "RUN_LIMIT_REACHED"}
        /\ FinalStatus(event.type) = EndTold(type)
    BY <2>1 DEF TerminalEvents, TerminalEvent, Event, FinalStatus, EndTold
  <2>3. Told(t, event) = [t EXCEPT !.finalStatus = FinalStatus(event.type)]
    BY <2>2 DEF Told
  <2> QED
    BY <1>1, <2>1, <2>2, <2>3 DEF Tale
<1> QED
  BY <1>1, <1>2, <1>3, <1>4, <1>5

LEMMA ToldSelection ==
  ASSUME NEW s, NEW r, NEW c, NEW w, NEW m, NEW e, NEW event, event.type = "TOOL_SELECTED"
  PROVE  Told(Tale(s, r, c, w, m, e), event)
           = Tale(Append(s, [taskId |-> event.about, actionId |-> event.actionId,
                             toolStatus |-> "none", verdict |-> "none"]), r, c, w, m, e)
BY DEF Told, Tale

LEMMA ToldEnd ==
  ASSUME NEW s, NEW r, NEW c, NEW w, NEW m, NEW e, NEW event, NEW result \in {"ok", "error"},
         event.type = IF result = "ok" THEN "TOOL_COMPLETED" ELSE "TOOL_FAILED"
  PROVE  Told(Tale(s, r, c, w, m, e), event) = Tale(WithToolStatus(s, event, result), r, c, w, m, e)
BY DEF Told, Tale

LEMMA ToldEvaluation ==
  ASSUME NEW s, NEW r, NEW c, NEW w, NEW m, NEW e, NEW event, event.type = "EVALUATION_COMPLETED"
  PROVE  Told(Tale(s, r, c, w, m, e), event) = Tale(WithVerdict(s, event), r, c, w, m, e)
BY DEF Told, Tale

LEMMA ToldCalls ==
  ASSUME NEW s, NEW r, NEW c, NEW w, NEW m, NEW e, Tale(s, r, c, w, m, e) \in Trajectory,
         NEW n \in Nat
  PROVE  ToldAll(Tale(s, r, c, w, m, e), ModelCalls(n)) = Tale(s, r, c, w, m + n, e)
<1>1. PICK t : t = Tale(s, r, c, w, m, e)
  OBVIOUS
<1>2. t \in Trajectory
  BY <1>1
<1>3. ToldAll(t, ModelCalls(n)) = [t EXCEPT !.modelCalls = @ + n]
  BY <1>2, ToldModelCalls
<1>4. [t EXCEPT !.modelCalls = @ + n] = Tale(s, r, c, w, m + n, e)
  BY <1>1 DEF Tale
<1> QED
  BY <1>1, <1>3, <1>4

\* Where the step of an action is.
LEMMA StepForAction ==
  ASSUME NEW s \in Seq(TrajectoryStep), \A i \in DOMAIN s : s[i].actionId = i
  PROVE  /\ StepFor(s, NoActionId) = 0
         /\ \A a \in 1 .. Len(s) : StepFor(s, a) = a
<1>1. StepFor(s, NoActionId) = 0
  BY DEF StepFor
<1>2. ASSUME NEW a \in 1 .. Len(s) PROVE StepFor(s, a) = a
  <2>1. a # NoActionId /\ DOMAIN s = 1 .. Len(s)
    BY DEF NoActionId
  <2>2. {i \in 1 .. Len(s) : s[i].actionId = a} = {a}
    BY <2>1
  <2>3. Max({a}) = a
    BY DEF Max
  <2>4. StepFor(s, a) = IF {i \in 1 .. Len(s) : s[i].actionId = a} # {}
                          THEN Max({i \in 1 .. Len(s) : s[i].actionId = a}) ELSE 0
    BY <2>1, Zenon DEF StepFor, SelectLastInSeq
  <2> QED
    BY <2>2, <2>3, <2>4
<1> QED
  BY <1>1, <1>2

-----------------------------------------------------------------------------
\* The trajectory after a step, by what it adds.
Tells(steps, retries, changes, writes, calls, final) ==
  trajectory' = Tale(steps, trajectory.retries + retries, trajectory.strategyChanges + changes,
                     trajectory.memoryWrites + writes, trajectory.modelCalls + calls, final)

\* Calls alone, and the end of the run after them.
LEMMA CallsTold ==
  ASSUME TypeOK, trajectory \in Trajectory, NEW n \in Nat, Emits(ModelCalls(n))
  PROVE  /\ terminal' = terminal => Tells(trajectory.steps, 0, 0, 0, n, trajectory.finalStatus)
         /\ \A type \in TerminalEvents : terminal' = Append(terminal, type) =>
              Tells(trajectory.steps, 0, 0, 0, n, EndTold(type))
<1>1. PICK s, r, c, w, m, e :
        /\ s = trajectory.steps /\ r = trajectory.retries /\ c = trajectory.strategyChanges
        /\ w = trajectory.memoryWrites /\ m = trajectory.modelCalls /\ e = trajectory.finalStatus
  OBVIOUS
<1>0. /\ s \in Seq(TrajectoryStep) /\ r \in Nat /\ c \in Nat /\ w \in Nat /\ m \in Nat
      /\ e \in {"none", "completed", "failed", "limit_reached"}
      /\ trajectory = Tale(s, r, c, w, m, e)
  BY <1>1, TrajectoryTale
<1>2. r + 0 = r /\ c + 0 = c /\ w + 0 = w
  BY <1>0
<1>3. PICK S, es : es = ModelCalls(n) /\ es \in Seq(S)
  BY OneMoreCall
<1>4. /\ terminal' = terminal => trajectory' = ToldAll(trajectory, es)
      /\ \A type : terminal' = Append(terminal, type) =>
           trajectory' = Told(ToldAll(trajectory, es), TerminalEvent(type))
  BY <1>3, ToldAnnounced
<1>5. ToldAll(trajectory, es) = Tale(s, r, c, w, m + n, e)
  <2>1. ToldAll(Tale(s, r, c, w, m, e), ModelCalls(n)) = Tale(s, r, c, w, m + n, e)
    BY <1>0, ToldCalls
  <2> QED
    BY <1>0, <1>3, <2>1
<1>6. \A type \in TerminalEvents :
        Told(Tale(s, r, c, w, m + n, e), TerminalEvent(type))
          = Tale(s, r, c, w, m + n, EndTold(type))
  BY ToldEach
<1>7. terminal' = terminal => trajectory' = Tale(s, r + 0, c + 0, w + 0, m + n, e)
  BY <1>2, <1>4, <1>5
<1>8. \A type \in TerminalEvents : terminal' = Append(terminal, type) =>
        trajectory' = Tale(s, r + 0, c + 0, w + 0, m + n, EndTold(type))
  BY <1>2, <1>4, <1>5, <1>6
<1> QED
  BY <1>1, <1>7, <1>8 DEF Tells

\* A last event after the calls and, if `middle` is there, another one.
LEMMA LastTold ==
  ASSUME TypeOK, trajectory \in Trajectory, NEW n \in Nat, NEW last, terminal' = terminal,
         NEW middle
  PROVE  /\ Emits(ModelCalls(n) \o << last >>) =>
              trajectory' = Told(ToldAll(trajectory, ModelCalls(n)), last)
         /\ Emits(ModelCalls(n) \o << middle >> \o << last >>) =>
              trajectory' = Told(Told(ToldAll(trajectory, ModelCalls(n)), middle), last)
<1>1. PICK S, es : es = ModelCalls(n) /\ es \in Seq(S)
  BY OneMoreCall
<1>2. PICK T : T = S \cup {middle, last}
  OBVIOUS
<1>3. es \in Seq(T)
  BY <1>1, <1>2, SeqMonotonic
<1>4. es \o << last >> \in Seq(T) /\ es \o << middle >> \in Seq(T)
  BY <1>2, <1>3
<1>5. (es \o << middle >>) \o << last >> \in Seq(T)
  BY <1>2, <1>4
<1>6. Emits(es \o << last >>) => trajectory' = ToldAll(trajectory, es \o << last >>)
  BY <1>4, ToldAnnounced
<1>7. Emits((es \o << middle >>) \o << last >>) =>
        trajectory' = ToldAll(trajectory, (es \o << middle >>) \o << last >>)
  BY <1>5, ToldAnnounced
<1>8. ToldAll(trajectory, es \o << last >>) = Told(ToldAll(trajectory, es), last)
  BY <1>3, ToldOneMore
<1>9. ToldAll(trajectory, es \o << middle >>) = Told(ToldAll(trajectory, es), middle)
  BY <1>3, ToldOneMore
<1>10. ToldAll(trajectory, (es \o << middle >>) \o << last >>)
         = Told(ToldAll(trajectory, es \o << middle >>), last)
  BY <1>4, ToldOneMore
<1> QED
  BY <1>1, <1>6, <1>7, <1>8, <1>9, <1>10

LEMMA NoCalls == ModelCalls(0) = << >>
BY DEF ModelCalls

\* After the calls the trajectory so far counts them.
LEMMA AfterCalls ==
  ASSUME trajectory \in Trajectory, NEW n \in Nat
  PROVE  ToldAll(trajectory, ModelCalls(n))
           = Tale(trajectory.steps, trajectory.retries, trajectory.strategyChanges,
                  trajectory.memoryWrites, trajectory.modelCalls + n, trajectory.finalStatus)
<1>1. PICK s, r, c, w, m, e :
        /\ s = trajectory.steps /\ r = trajectory.retries /\ c = trajectory.strategyChanges
        /\ w = trajectory.memoryWrites /\ m = trajectory.modelCalls /\ e = trajectory.finalStatus
  OBVIOUS
<1>2. trajectory = Tale(s, r, c, w, m, e)
  BY <1>1, TrajectoryTale
<1>3. ToldAll(Tale(s, r, c, w, m, e), ModelCalls(n)) = Tale(s, r, c, w, m + n, e)
  BY <1>2, ToldCalls
<1> QED
  BY <1>1, <1>2, <1>3

\* A record is put after its embedding call.
LEMMA PutTold ==
  ASSUME TypeOK, trajectory \in Trajectory, NEW n \in Nat, terminal' = terminal,
         Emits(Append(ModelCalls(n), Event("MEMORY_WRITTEN")))
  PROVE  Tells(trajectory.steps, 0, 0, 1, n, trajectory.finalStatus)
<1>1. PICK last : last = Event("MEMORY_WRITTEN")
  OBVIOUS
<1>2. PICK S, es : es = ModelCalls(n) /\ es \in Seq(S)
  BY OneMoreCall
<1>3. Append(es, last) = es \o << last >>
  BY <1>2, AppendIsConcat
<1>4. Emits(ModelCalls(n) \o << last >>)
  BY <1>1, <1>2, <1>3
<1>5. trajectory' = Told(ToldAll(trajectory, ModelCalls(n)), last)
  BY <1>4, LastTold
<1>6. /\ trajectory.retries + 0 = trajectory.retries
      /\ trajectory.strategyChanges + 0 = trajectory.strategyChanges
  BY TrajectoryTale
<1> QED
  BY <1>1, <1>5, <1>6, AfterCalls, ToldEach DEF Tells

\* A revision, and whether it changed the strategy.
LEMMA RevisionTold ==
  ASSUME TypeOK, trajectory \in Trajectory, NEW n \in Nat, terminal' = terminal,
         NEW changed \in BOOLEAN, Emits(Revised(n, changed))
  PROVE  Tells(trajectory.steps, 0, IF changed THEN 1 ELSE 0, 0, n, trajectory.finalStatus)
<1>1. PICK S, es : es = ModelCalls(n) /\ es \in Seq(S)
  BY OneMoreCall
<1>2. CASE ~ changed
  <2>1. Revised(n, changed) = ModelCalls(n)
    BY <1>1, <1>2, ConcatEmptySeq DEF Revised
  <2> QED
    BY <1>2, <2>1, CallsTold
<1>3. CASE changed
  <2>1. PICK last : last = Event("STRATEGY_CHANGED")
    OBVIOUS
  <2>2. Emits(ModelCalls(n) \o << last >>)
    BY <1>3, <2>1 DEF Revised
  <2>3. trajectory' = Told(ToldAll(trajectory, ModelCalls(n)), last)
    BY <2>2, LastTold
  <2>4. /\ trajectory.retries + 0 = trajectory.retries
        /\ trajectory.memoryWrites + 0 = trajectory.memoryWrites
    BY TrajectoryTale
  <2> QED
    BY <1>3, <2>1, <2>3, <2>4, AfterCalls, ToldEach DEF Tells
<1> QED
  BY <1>2, <1>3

\* A selection, and whether it retries the task.
LEMMA SelectionTold ==
  ASSUME TypeOK, trajectory \in Trajectory, NEW n \in Nat, terminal' = terminal, Emits(Selected(n))
  PROVE  Tells(Append(trajectory.steps,
                      [taskId |-> task, actionId |-> usage.toolCalls + 1, toolStatus |-> "none",
                       verdict |-> "none"]),
               IF AttemptsOn(task) = {} THEN 0 ELSE 1, 0, 0, n, trajectory.finalStatus)
<1>1. PICK S, es : es = ModelCalls(n) /\ es \in Seq(S)
  BY OneMoreCall
<1>2. PICK a, last : a = usage.toolCalls + 1 /\ last = ActionEvent("TOOL_SELECTED", a, task)
  OBVIOUS
<1>3. PICK middle : middle = Event("RETRY_STARTED")
  OBVIOUS
<1>4. /\ trajectory.strategyChanges + 0 = trajectory.strategyChanges
      /\ trajectory.memoryWrites + 0 = trajectory.memoryWrites
      /\ trajectory.retries + 0 = trajectory.retries
  BY TrajectoryTale
<1>7. last.type = "TOOL_SELECTED" /\ last.actionId = a /\ last.about = task
  BY <1>2 DEF ActionEvent
<1>5. CASE AttemptsOn(task) = {}
  <2>1. Selected(n) = ModelCalls(n) \o << last >>
    BY <1>1, <1>2, <1>5, ConcatEmptySeq DEF Selected
  <2>2. trajectory' = Told(ToldAll(trajectory, ModelCalls(n)), last)
    BY <2>1, LastTold
  <2> QED
    BY <1>2, <1>4, <1>5, <1>7, <2>2, AfterCalls, ToldSelection DEF Tells
<1>6. CASE AttemptsOn(task) # {}
  <2>1. Selected(n) = ModelCalls(n) \o << middle >> \o << last >>
    BY <1>2, <1>3, <1>6 DEF Selected
  <2>2. trajectory' = Told(Told(ToldAll(trajectory, ModelCalls(n)), middle), last)
    BY <2>1, LastTold
  <2>3. Told(ToldAll(trajectory, ModelCalls(n)), middle)
          = Tale(trajectory.steps, trajectory.retries + 1, trajectory.strategyChanges,
                 trajectory.memoryWrites, trajectory.modelCalls + n, trajectory.finalStatus)
    BY <1>3, AfterCalls, ToldEach
  <2> QED
    BY <1>2, <1>4, <1>6, <1>7, <2>2, <2>3, ToldSelection DEF Tells
<1> QED
  BY <1>5, <1>6

LEMMA ToldAlone ==
  ASSUME NEW t, NEW event
  PROVE  ToldAll(t, << event >>) = Told(t, event)
<1>1. PICK none, S : none = << >> /\ S = {event}
  OBVIOUS
<1>2. none \in Seq(S) /\ none \o << event >> = << event >>
  BY <1>1
<1>3. ToldAll(t, none \o << event >>) = Told(ToldAll(t, none), event)
  BY <1>2, ToldOneMore
<1> QED
  BY <1>1, <1>2, <1>3, ToldNothing

\* The end of a tool call.
LEMMA EndedTold ==
  ASSUME TypeOK, trajectory \in Trajectory, terminal' = terminal, NEW result \in {"ok", "error"},
         Emits(ToolEnded(result))
  PROVE  \E type :
           Tells(WithToolStatus(trajectory.steps, ActionEvent(type, usage.toolCalls, result),
                                result), 0, 0, 0, 0, trajectory.finalStatus)
<1>1. PICK type, last : /\ type = IF result = "ok" THEN "TOOL_COMPLETED" ELSE "TOOL_FAILED"
                        /\ last = ActionEvent(type, usage.toolCalls, result)
  OBVIOUS
<1>2. ToolEnded(result) = << last >> /\ last.type = type
  BY <1>1 DEF ToolEnded, ActionEvent
<1>3. PICK es, S : es = << last >> /\ S = {last}
  OBVIOUS
<1>4. es \in Seq(S) /\ Emits(es)
  BY <1>2, <1>3
<1>5. trajectory' = Told(trajectory, last)
  BY <1>3, <1>4, ToldAnnounced, ToldAlone
<1>6. PICK s, r, c, w, m, e :
        /\ s = trajectory.steps /\ r = trajectory.retries /\ c = trajectory.strategyChanges
        /\ w = trajectory.memoryWrites /\ m = trajectory.modelCalls /\ e = trajectory.finalStatus
  OBVIOUS
<1>7. trajectory = Tale(s, r, c, w, m, e)
  BY <1>6, TrajectoryTale
<1>8. r + 0 = r /\ c + 0 = c /\ w + 0 = w /\ m + 0 = m
  BY <1>6, TrajectoryTale
<1>9. Told(Tale(s, r, c, w, m, e), last) = Tale(WithToolStatus(s, last, result), r, c, w, m, e)
  BY <1>1, <1>2, ToldEnd
<1>10. trajectory' = Tale(WithToolStatus(s, last, result), r, c, w, m, e)
  BY <1>5, <1>7, <1>9
<1> QED
  BY <1>1, <1>6, <1>8, <1>10 DEF Tells

\* A verdict, on an attempt or on a claim, and the end of the run after it.
LEMMA EvaluationTold ==
  ASSUME TypeOK, trajectory \in Trajectory, NEW a, NEW verdict, Emits(Evaluated(a, verdict)),
         NEW steps,
         steps = WithVerdict(trajectory.steps, ActionEvent("EVALUATION_COMPLETED", a, verdict))
  PROVE  /\ terminal' = terminal => Tells(steps, 0, 0, 0, 0, trajectory.finalStatus)
         /\ \A type \in TerminalEvents : terminal' = Append(terminal, type) =>
              Tells(steps, 0, 0, 0, 0, EndTold(type))
<1>1. PICK last : last = ActionEvent("EVALUATION_COMPLETED", a, verdict)
  OBVIOUS
<1>2. last.type = "EVALUATION_COMPLETED" /\ steps = WithVerdict(trajectory.steps, last)
  BY <1>1 DEF ActionEvent
<1>3. PICK es, S : es = << last >> /\ S = {last}
  OBVIOUS
<1>4. es \in Seq(S) /\ Emits(es)
  BY <1>1, <1>3 DEF Evaluated
<1>5. ToldAll(trajectory, es) = Told(trajectory, last)
  BY <1>3, ToldAlone
<1>6. PICK s, r, c, w, m, e :
        /\ s = trajectory.steps /\ r = trajectory.retries /\ c = trajectory.strategyChanges
        /\ w = trajectory.memoryWrites /\ m = trajectory.modelCalls /\ e = trajectory.finalStatus
  OBVIOUS
<1>7. trajectory = Tale(s, r, c, w, m, e)
  BY <1>6, TrajectoryTale
<1>11. r + 0 = r /\ c + 0 = c /\ w + 0 = w /\ m + 0 = m
  BY <1>6, TrajectoryTale
<1>8. Told(trajectory, last) = Tale(steps, r, c, w, m, e)
  <2>1. steps = WithVerdict(s, last)
    BY <1>2, <1>6
  <2>2. Told(Tale(s, r, c, w, m, e), last) = Tale(WithVerdict(s, last), r, c, w, m, e)
    BY <1>2, ToldEvaluation
  <2> QED
    BY <1>7, <2>1, <2>2
<1>9. terminal' = terminal => trajectory' = Tale(steps, r, c, w, m, e)
  BY <1>4, <1>5, <1>6, <1>8, ToldAnnounced
<1>10. ASSUME NEW type \in TerminalEvents, terminal' = Append(terminal, type)
       PROVE  trajectory' = Tale(steps, r, c, w, m, EndTold(type))
  <2>1. trajectory' = Told(ToldAll(trajectory, es), TerminalEvent(type))
    BY <1>4, <1>10, ToldAnnounced
  <2>2. Told(Tale(steps, r, c, w, m, e), TerminalEvent(type))
          = Tale(steps, r, c, w, m, EndTold(type))
    BY ToldEach
  <2> QED
    BY <1>5, <1>6, <1>8, <2>1, <2>2
<1> QED
  BY <1>6, <1>11, <1>9, <1>10 DEF Tells

-----------------------------------------------------------------------------
\* The counts of the trajectory are those of the run.
CountsTold ==
  /\ trajectory.finalStatus = FinalStatusOf(status)
  /\ trajectory.retries = usage.retries
  /\ trajectory.strategyChanges = usage.strategyChanges
  /\ IF plan.version = 0 THEN trajectory.strategyChanges = 0
     ELSE plan.strategy = 1 + trajectory.strategyChanges
  /\ pc \notin {"constructed", "retrieving", "planning", "returned"} => plan.version # 0
  /\ pc \in {"constructed", "retrieving", "planning"} => plan.version = 0
  /\ trajectory.memoryWrites = Len(written)
  /\ trajectory.modelCalls = usage.modelCalls

\* The last step is that of the tool call under way; what the run does not
\* know yet, its step does not tell.
LastStepTold ==
  LET last == trajectory.steps[Len(trajectory.steps)]
  IN  /\ pc \in {"executing", "evaluating"} =>
           trajectory.steps # << >> /\ last.taskId = task /\ last.verdict = "none"
      /\ pc = "executing" => last.toolStatus = "none"
      /\ pc = "evaluating" => last.toolStatus = observed /\ observed # "none"

\* A step for every tool call, and on it what its attempt came to.
StepsTold ==
  /\ Len(trajectory.steps) = usage.toolCalls
  /\ \A i \in DOMAIN trajectory.steps : trajectory.steps[i].actionId = i
  /\ \A a \in DOMAIN attempts :
       /\ attempts[a].action \in DOMAIN trajectory.steps
       /\ LET step == trajectory.steps[attempts[a].action]
          IN  /\ step.taskId = attempts[a].task
              /\ step.verdict = attempts[a].verdict
              /\ step.toolStatus # "none"
  /\ \A i \in DOMAIN trajectory.steps :
       IF trajectory.steps[i].verdict # "none"
       THEN \E a \in DOMAIN attempts : attempts[a].action = i
       ELSE /\ i = Len(trajectory.steps)
            /\ pc \in {"executing", "evaluating"} \/ status = "failed"
  /\ LastStepTold

ReadByTool(record) ==
  record.kind = "knowledge" =>
    /\ record.action \in DOMAIN trajectory.steps
    /\ trajectory.steps[record.action].toolStatus = "ok"

\* Knowledge, put or still to be put, was read by a tool that succeeded.
KnowledgeTold ==
  /\ \A k \in DOMAIN written : ReadByTool(written[k])
  /\ pc = "writing" => \A k \in DOMAIN pending : ReadByTool(pending[k])

\* The inductive invariant of the log.
TellsInv == trajectory \in Trajectory /\ CountsTold /\ StepsTold /\ KnowledgeTold

Unplanned == {"constructed", "retrieving", "planning"}

\* The plan keeps its version and strategy, is made, or is revised.
PlanMoves(changes) ==
  \/ /\ plan'.version = plan.version /\ plan'.strategy = plan.strategy
     /\ changes = 0
     /\ pc # "returned"
     /\ pc' = "returned" \/ (pc \in Unplanned <=> pc' \in Unplanned)
  \/ /\ pc = "planning" /\ pc' = "head"
     /\ plan'.version = 1 /\ plan'.strategy = 1 /\ changes = 0
  \/ /\ pc = "revising" /\ pc' = "head"
     /\ plan'.version = plan.version + 1 /\ plan'.strategy = plan.strategy + changes

LEMMA FinalStatusType ==
  \A s \in RunStatus : FinalStatusOf(s) \in {"none", "completed", "failed", "limit_reached"}
BY DEF RunStatus, FinalStatusOf

\* What a step adds to the counts of the run it adds to those of its log.
LEMMA CountsKept ==
  ASSUME TypeOK, TypeOK', trajectory \in Trajectory, CountsTold,
         NEW steps \in Seq(TrajectoryStep), NEW r \in Nat, NEW c \in Nat, NEW w \in Nat,
         NEW n \in Nat, NEW final,
         Tells(steps, r, c, w, n, final), final = FinalStatusOf(status'),
         usage'.retries = usage.retries + r,
         usage'.strategyChanges = usage.strategyChanges + c,
         usage'.modelCalls = usage.modelCalls + n,
         Len(written') = Len(written) + w, PlanMoves(c)
  PROVE  trajectory' \in Trajectory /\ trajectory'.steps = steps /\ CountsTold'
<1>1. /\ trajectory.retries \in Nat /\ trajectory.strategyChanges \in Nat
      /\ trajectory.memoryWrites \in Nat /\ trajectory.modelCalls \in Nat
  BY DEF Trajectory
<1>2. PICK r2, c2, w2, n2 :
        /\ r2 = trajectory.retries + r /\ c2 = trajectory.strategyChanges + c
        /\ w2 = trajectory.memoryWrites + w /\ n2 = trajectory.modelCalls + n
  OBVIOUS
<1>3. r2 \in Nat /\ c2 \in Nat /\ w2 \in Nat /\ n2 \in Nat
  <2>1. \A a, b \in Nat : a + b \in Nat
    OBVIOUS
  <2> QED
    BY <1>1, <1>2, <2>1, Zenon
<1>4. trajectory' = Tale(steps, r2, c2, w2, n2, final)
  BY <1>2 DEF Tells
<1>5. final \in {"none", "completed", "failed", "limit_reached"}
  BY FinalStatusType DEF TypeOK
<1>6. trajectory' \in Trajectory
  BY <1>3, <1>4, <1>5, TaleTyped
<1>7. /\ trajectory'.steps = steps /\ trajectory'.retries = r2
      /\ trajectory'.strategyChanges = c2 /\ trajectory'.memoryWrites = w2
      /\ trajectory'.modelCalls = n2 /\ trajectory'.finalStatus = final
  BY <1>4, TaleFields
<1>8. /\ trajectory'.finalStatus = FinalStatusOf(status')
      /\ trajectory'.retries = usage'.retries
      /\ trajectory'.strategyChanges = usage'.strategyChanges
      /\ trajectory'.memoryWrites = Len(written')
      /\ trajectory'.modelCalls = usage'.modelCalls
  BY <1>2, <1>7 DEF CountsTold
<1>9. plan.version \in Nat /\ plan.strategy \in Nat
  BY DEF TypeOK
<1>10. /\ IF plan'.version = 0 THEN c2 = 0 ELSE plan'.strategy = 1 + c2
       /\ pc' \notin Unplanned \cup {"returned"} => plan'.version # 0
       /\ pc' \in Unplanned => plan'.version = 0
  <2>1. /\ c2 = trajectory.strategyChanges + c
        /\ trajectory.strategyChanges + 0 = trajectory.strategyChanges
    BY <1>1, <1>2
  <2>2. CASE /\ plan'.version = plan.version /\ plan'.strategy = plan.strategy
             /\ c = 0 /\ pc # "returned"
             /\ pc' = "returned" \/ (pc \in Unplanned <=> pc' \in Unplanned)
    BY <2>1, <2>2 DEF CountsTold, Unplanned
  <2>3. CASE /\ pc = "planning" /\ pc' = "head"
             /\ plan'.version = 1 /\ plan'.strategy = 1 /\ c = 0
    BY <2>1, <2>3 DEF CountsTold, Unplanned
  <2>4. CASE /\ pc = "revising" /\ pc' = "head"
             /\ plan'.version = plan.version + 1 /\ plan'.strategy = plan.strategy + c
    <3>1. plan.version # 0 /\ plan.strategy = 1 + trajectory.strategyChanges
      BY <2>4 DEF CountsTold
    <3> QED
      BY <1>1, <1>9, <2>1, <2>4, <3>1, SMTT(30) DEF Unplanned
  <2> QED
    BY <2>2, <2>3, <2>4 DEF PlanMoves
<1>11. CountsTold'
  BY <1>7, <1>8, <1>10 DEF CountsTold, Unplanned
<1> QED
  BY <1>6, <1>7, <1>11

\* A step that neither calls a tool nor judges an attempt.
StepsQuiet ==
  /\ trajectory'.steps = trajectory.steps
  /\ attempts' = attempts /\ usage'.toolCalls = usage.toolCalls
  /\ pc' \notin {"executing", "evaluating"}
  /\ pc # "returned"
  /\ pc \in {"executing", "evaluating"} => status' = "failed"

LEMMA StepsQuietKept ==
  ASSUME TypeOK, RunPhase, StepsTold, StepsQuiet
  PROVE  StepsTold'
<1>1. status # "failed"
  BY DEF StepsQuiet, RunPhase, Lifecycle!FinalStatus
<1>2. PICK s : s = trajectory.steps /\ trajectory'.steps = s
  BY DEF StepsQuiet
<1>3. LastStepTold'
  BY DEF LastStepTold, StepsQuiet
<1>4. /\ Len(s) = usage.toolCalls
      /\ \A i \in DOMAIN s : s[i].actionId = i
      /\ \A a \in DOMAIN attempts :
           /\ attempts[a].action \in DOMAIN s
           /\ LET step == s[attempts[a].action]
              IN  /\ step.taskId = attempts[a].task
                  /\ step.verdict = attempts[a].verdict
                  /\ step.toolStatus # "none"
  BY <1>2 DEF StepsTold
<1>5. \A i \in DOMAIN s :
        IF s[i].verdict # "none"
        THEN \E a \in DOMAIN attempts : attempts[a].action = i
        ELSE i = Len(s) /\ (pc' \in {"executing", "evaluating"} \/ status' = "failed")
  BY <1>1, <1>2 DEF StepsTold, StepsQuiet
<1> QED
  BY <1>2, <1>3, <1>4, <1>5 DEF StepsTold, StepsQuiet

\* The same of a step that puts no record either.
LEMMA QuietTold ==
  ASSUME TypeOK, TypeOK', RunPhase, TellsInv, NEW c \in Nat, NEW n \in Nat, NEW final,
         Tells(trajectory.steps, 0, c, 0, n, final), final = FinalStatusOf(status'),
         usage'.retries = usage.retries, usage'.toolCalls = usage.toolCalls,
         usage'.strategyChanges = usage.strategyChanges + c,
         usage'.modelCalls = usage.modelCalls + n,
         PlanMoves(c), attempts' = attempts, written' = written,
         pc' \notin {"executing", "evaluating", "writing"}, pc # "returned",
         pc \in {"executing", "evaluating"} => status' = "failed"
  PROVE  TellsInv'
<1>1. trajectory \in Trajectory /\ CountsTold /\ StepsTold /\ KnowledgeTold
  BY DEF TellsInv
<1>2. trajectory.steps \in Seq(TrajectoryStep)
  BY <1>1 DEF Trajectory
<1>3. usage'.retries = usage.retries + 0 /\ Len(written') = Len(written) + 0
  <2>1. usage.retries \in Nat /\ Len(written) \in Nat
    BY LenProperties DEF TypeOK, RunUsage
  <2> QED
    BY <2>1
<1>4. trajectory' \in Trajectory /\ trajectory'.steps = trajectory.steps /\ CountsTold'
  BY <1>1, <1>2, <1>3, CountsKept
<1>5. StepsTold'
  BY <1>1, <1>4, StepsQuietKept DEF StepsQuiet
<1>6. KnowledgeTold'
  BY <1>1, <1>4 DEF KnowledgeTold, ReadByTool
<1> QED
  BY <1>4, <1>5, <1>6 DEF TellsInv

\* Of what the log counts, the step adds n model calls only.
AddsCalls(n) ==
  /\ usage'.retries = usage.retries /\ usage'.toolCalls = usage.toolCalls
  /\ usage'.strategyChanges = usage.strategyChanges
  /\ usage'.modelCalls = usage.modelCalls + n

LEMMA UsageAddsCalls ==
  ASSUME usage \in RunUsage, NEW n \in Nat,
         \/ usage' = [usage EXCEPT !.modelCalls = @ + n]
         \/ usage' = [usage EXCEPT !.memoryReads = @ + 1, !.modelCalls = @ + n]
         \/ usage' = [usage EXCEPT !.memoryWrites = @ + 1, !.modelCalls = @ + n]
         \/ n = 0 /\ usage' = [usage EXCEPT !.iterations = @ + 1]
         \/ n = 0 /\ usage' = usage
  PROVE  AddsCalls(n)
<1>0. usage.modelCalls + 0 = usage.modelCalls
  BY DEF RunUsage
<1>1. CASE usage' = [usage EXCEPT !.modelCalls = @ + n]
  BY <1>1 DEF RunUsage, AddsCalls
<1>2. CASE usage' = [usage EXCEPT !.memoryReads = @ + 1, !.modelCalls = @ + n]
  BY <1>2 DEF RunUsage, AddsCalls
<1>3. CASE usage' = [usage EXCEPT !.memoryWrites = @ + 1, !.modelCalls = @ + n]
  BY <1>3 DEF RunUsage, AddsCalls
<1>4. CASE n = 0 /\ usage' = [usage EXCEPT !.iterations = @ + 1]
  BY <1>0, <1>4 DEF RunUsage, AddsCalls
<1>5. CASE n = 0 /\ usage' = usage
  BY <1>0, <1>5 DEF RunUsage, AddsCalls
<1> QED
  BY <1>1, <1>2, <1>3, <1>4, <1>5

LEMMA NoChange ==
  ASSUME TypeOK
  PROVE  usage.strategyChanges + 0 = usage.strategyChanges
<1>1. usage.strategyChanges \in Nat
  BY DEF TypeOK, RunUsage
<1> QED
  BY <1>1

\* A step that makes calls and goes on, or ends the run after them.
LEMMA CallsStep ==
  ASSUME TypeOK, TypeOK', RunPhase, TellsInv, NEW n \in Nat, Emits(ModelCalls(n)),
         AddsCalls(n), PlanMoves(0), attempts' = attempts, written' = written,
         pc' \notin {"executing", "evaluating", "writing"}, pc # "returned",
         pc \in {"executing", "evaluating"} => status' = "failed",
         \/ terminal' = terminal /\ status' = status
         \/ \E type \in TerminalEvents :
              terminal' = Append(terminal, type) /\ EndTold(type) = FinalStatusOf(status')
  PROVE  TellsInv'
<1>1. trajectory \in Trajectory /\ trajectory.finalStatus = FinalStatusOf(status)
  BY DEF TellsInv, CountsTold
<1>2. PICK final : /\ Tells(trajectory.steps, 0, 0, 0, n, final)
                   /\ final = FinalStatusOf(status')
  <2>1. CASE terminal' = terminal /\ status' = status
    BY <1>1, <2>1, CallsTold
  <2>2. ASSUME NEW type \in TerminalEvents, terminal' = Append(terminal, type),
               EndTold(type) = FinalStatusOf(status')
        PROVE  Tells(trajectory.steps, 0, 0, 0, n, EndTold(type))
    BY <1>1, <2>2, CallsTold
  <2> QED
    BY <2>1, <2>2
<1>3. usage'.strategyChanges = usage.strategyChanges + 0
  BY NoChange DEF AddsCalls
<1> QED
  BY <1>2, <1>3, QuietTold DEF AddsCalls

\* A session that is started or begins an iteration tells nothing.
LEMMA SilentStep ==
  ASSUME TypeOK, TypeOK', RunPhase, TellsInv, Silent
  PROVE  TellsInv'
<1>1. trajectory \in Trajectory /\ trajectory.finalStatus = FinalStatusOf(status)
  BY DEF TellsInv, CountsTold
<1>2. FinalStatusOf(status') = FinalStatusOf(status)
  BY DEF Silent, Start, BeginIteration, RunPhase, FinalStatusOf
<1>3. PICK s, r, c, w, m, e :
        /\ s = trajectory.steps /\ r = trajectory.retries /\ c = trajectory.strategyChanges
        /\ w = trajectory.memoryWrites /\ m = trajectory.modelCalls /\ e = trajectory.finalStatus
  OBVIOUS
<1>4. trajectory = Tale(s, r, c, w, m, e)
  BY <1>1, <1>3, TrajectoryTale
<1>5. r + 0 = r /\ c + 0 = c /\ w + 0 = w /\ m + 0 = m
  BY <1>1, <1>3, TrajectoryTale
<1>6. Tells(s, 0, 0, 0, 0, e)
  BY <1>3, <1>4, <1>5 DEF Tells, Silent
<1>7. AddsCalls(0)
  BY UsageAddsCalls DEF Silent, Start, BeginIteration, TypeOK
<1>8. usage'.strategyChanges = usage.strategyChanges + 0
  BY <1>7, NoChange DEF AddsCalls
<1>9. PlanMoves(0) /\ pc' \in {"retrieving", "selecting"}
  BY DEF Silent, Start, BeginIteration, PlanMoves, Unplanned, TypeOK
<1>10. pc \in {"constructed", "head"} /\ attempts' = attempts /\ written' = written
  BY DEF Silent, Start, BeginIteration
<1> QED
  BY <1>1, <1>2, <1>3, <1>6, <1>7, <1>8, <1>9, <1>10, QuietTold DEF AddsCalls

\* The run stops at a limit or because nothing is left to do.
LEMMA EndsStep ==
  ASSUME TypeOK, TypeOK', RunPhase, TellsInv, Ends
  PROVE  TellsInv'
<1>1. Emits(ModelCalls(0))
  BY NoCalls DEF Ends
<1>2. AddsCalls(0)
  BY UsageAddsCalls DEF Ends, StopAtLimit, CompleteWhenNoTaskLeft, TypeOK
<1>3. PlanMoves(0)
  BY DEF Ends, StopAtLimit, CompleteWhenNoTaskLeft, CompleteGoal, PlanMoves
<1>4. \E type \in TerminalEvents :
        terminal' = Append(terminal, type) /\ EndTold(type) = FinalStatusOf(status')
  BY DEF Ends, StopAtLimit, CompleteWhenNoTaskLeft, CompleteGoal, TerminalEvents, EndTold,
         FinalStatusOf
<1>5. pc = "head" /\ pc' = "returned" /\ attempts' = attempts /\ written' = written
  BY DEF Ends, StopAtLimit, CompleteWhenNoTaskLeft, CompleteGoal
<1> QED
  BY <1>1, <1>2, <1>3, <1>4, <1>5, CallsStep

\* The catch block tells the failure.
LEMMA CatchTold ==
  ASSUME TypeOK, RunPhase, Catch, pc \notin {"constructed", "returned"}
  PROVE  /\ pc' = "returned" /\ status' = "failed"
         /\ \E type \in TerminalEvents :
              terminal' = Append(terminal, type) /\ EndTold(type) = FinalStatusOf(status')
<1>1. ~ IsFinished
  BY DEF RunPhase, TypeOK, RunStatus, Lifecycle!FinalStatus, IsFinished
<1>2. /\ pc' = "returned" /\ status' = "failed"
      /\ terminal' = Append(terminal, "GOAL_FAILED:unrecoverable")
  BY <1>1 DEF Catch
<1> QED
  BY <1>2 DEF TerminalEvents, EndTold, FinalStatusOf

\* A memory search, or an environment that throws.
LEMMA SearchStep ==
  ASSUME TypeOK, TypeOK', RunPhase, TellsInv, NEW n \in EmbeddingCalls,
         RetrieveMemory(n) \/ EnvironmentThrows(n), Emits(ModelCalls(n))
  PROVE  TellsInv'
<1>0. n \in Nat
  BY EmbeddingBound
<1>u. usage \in RunUsage
  BY DEF TypeOK
<1>1. CASE RetrieveMemory(n)
  <2>1. AddsCalls(n)
    BY <1>0, <1>u, <1>1, UsageAddsCalls DEF RetrieveMemory
  <2>2. PlanMoves(0)
    BY <1>1 DEF RetrieveMemory, PlanMoves, Unplanned
  <2>3. /\ terminal' = terminal /\ status' = status /\ attempts' = attempts
        /\ written' = written /\ pc = "retrieving" /\ pc' = "planning"
    BY <1>1 DEF RetrieveMemory
  <2> QED
    BY <1>0, <2>1, <2>2, <2>3, CallsStep
<1>2. CASE EnvironmentThrows(n)
  <2>1. AddsCalls(n)
    BY <1>0, <1>u, <1>2, UsageAddsCalls DEF EnvironmentThrows, SpendModelCalls
  <2>2. Catch /\ pc \notin {"constructed", "returned"}
    BY <1>2 DEF EnvironmentThrows
  <2>3. /\ pc' = "returned" /\ status' = "failed"
        /\ \E type \in TerminalEvents :
             terminal' = Append(terminal, type) /\ EndTold(type) = FinalStatusOf(status')
    BY <2>2, CatchTold
  <2>4. attempts' = attempts /\ written' = written /\ plan' = plan
    BY <1>2 DEF EnvironmentThrows
  <2>5. PlanMoves(0)
    BY <2>2, <2>3, <2>4 DEF PlanMoves
  <2> QED
    BY <1>0, <2>1, <2>2, <2>3, <2>4, <2>5, CallsStep
<1> QED
  BY <1>1, <1>2

\* The first plan is made.
LEMMA FirstPlanStep ==
  ASSUME TypeOK, TypeOK', RunPhase, TellsInv, NEW n \in 1 .. CallsPerRequest, NEW proposals,
         CreateInitialPlan(n, proposals), Emits(ModelCalls(n))
  PROVE  TellsInv'
<1>0. n \in Nat
  BY LimitsAssumption
<1>u. usage \in RunUsage
  BY DEF TypeOK
<1>1. AddsCalls(n)
  BY <1>0, <1>u, UsageAddsCalls DEF CreateInitialPlan, SpendModelCalls
<1>2. PlanMoves(0)
  BY DEF CreateInitialPlan, PlanMoves
<1>3. /\ terminal' = terminal /\ status' = status /\ attempts' = attempts
      /\ written' = written /\ pc = "planning" /\ pc' = "head"
  BY DEF CreateInitialPlan
<1> QED
  BY <1>0, <1>1, <1>2, <1>3, CallsStep

\* A request of the selector that calls no tool, or one that fails.
LEMMA RequestStep ==
  ASSUME TypeOK, TypeOK', RunPhase, TellsInv, NEW n \in 1 .. CallsPerRequest,
         SelectGiveUp(n) \/ SelectFinish(n) \/ ModelRequestThrows(n), Emits(ModelCalls(n))
  PROVE  TellsInv'
<1>0. n \in Nat
  BY LimitsAssumption
<1>u. usage \in RunUsage
  BY DEF TypeOK
<1>1. AddsCalls(n)
  BY <1>0, <1>u, UsageAddsCalls DEF SelectGiveUp, SelectFinish, ModelRequestThrows, SpendModelCalls
<1>2. /\ attempts' = attempts /\ written' = written /\ plan' = plan
      /\ pc \in {"planning", "selecting", "revising"}
  BY DEF SelectGiveUp, SelectFinish, ModelRequestThrows
<1>3. CASE SelectGiveUp(n)
  <2>1. \E type \in TerminalEvents :
          terminal' = Append(terminal, type) /\ EndTold(type) = FinalStatusOf(status')
    BY <1>3 DEF SelectGiveUp, TerminalEvents, EndTold, FinalStatusOf
  <2>2. pc' = "returned"
    BY <1>3 DEF SelectGiveUp
  <2>3. PlanMoves(0)
    BY <1>2, <2>2 DEF PlanMoves
  <2> QED
    BY <1>0, <1>1, <1>2, <2>1, <2>2, <2>3, CallsStep
<1>4. CASE SelectFinish(n)
  <2>1. terminal' = terminal /\ status' = status /\ pc = "selecting" /\ pc' = "claiming"
    BY <1>4 DEF SelectFinish
  <2>2. PlanMoves(0)
    BY <1>2, <2>1 DEF PlanMoves, Unplanned
  <2> QED
    BY <1>0, <1>1, <1>2, <2>1, <2>2, CallsStep
<1>5. CASE ModelRequestThrows(n)
  <2>1. Catch
    BY <1>5 DEF ModelRequestThrows
  <2>2. /\ pc' = "returned"
        /\ \E type \in TerminalEvents :
             terminal' = Append(terminal, type) /\ EndTold(type) = FinalStatusOf(status')
    BY <1>2, <2>1, CatchTold
  <2>3. PlanMoves(0)
    BY <1>2, <2>2 DEF PlanMoves
  <2> QED
    BY <1>0, <1>1, <1>2, <2>2, <2>3, CallsStep
<1> QED
  BY <1>3, <1>4, <1>5

\* A plan is revised.
LEMMA RevisionStep ==
  ASSUME TypeOK, TypeOK', RunPhase, TellsInv, NEW n \in 1 .. CallsPerRequest, NEW proposals,
         NEW changed \in BOOLEAN, RevisePlan(n, proposals, changed), Emits(Revised(n, changed))
  PROVE  TellsInv'
<1>0. n \in Nat
  BY LimitsAssumption
<1>1. PICK c \in Nat : c = IF changed THEN 1 ELSE 0
  OBVIOUS
<1>2. /\ pc = "revising" /\ pc' = "head" /\ terminal' = terminal /\ status' = status
      /\ attempts' = attempts /\ written' = written
  BY DEF RevisePlan
<1>3. trajectory \in Trajectory /\ trajectory.finalStatus = FinalStatusOf(status')
  BY <1>2 DEF TellsInv, CountsTold
<1>4. Tells(trajectory.steps, 0, c, 0, n, trajectory.finalStatus)
  BY <1>0, <1>1, <1>2, <1>3, RevisionTold
<1>5. /\ usage'.retries = usage.retries /\ usage'.toolCalls = usage.toolCalls
      /\ usage'.strategyChanges = usage.strategyChanges + c
      /\ usage'.modelCalls = usage.modelCalls + n
  <2>1. usage \in RunUsage /\ usage.strategyChanges + 0 = usage.strategyChanges
    BY NoChange DEF TypeOK
  <2>2. usage' = [usage EXCEPT !.modelCalls = @ + n,
                               !.strategyChanges = IF changed THEN @ + 1 ELSE @]
    BY DEF RevisePlan
  <2>3. IF changed THEN usage.strategyChanges + 1 = usage.strategyChanges + c
                   ELSE usage.strategyChanges = usage.strategyChanges + c
    BY <1>1, <2>1
  <2> QED
    BY <2>1, <2>2, <2>3 DEF RunUsage
<1>6. PlanMoves(c)
  <2>1. /\ plan'.version = plan.version + 1
        /\ plan'.strategy = IF changed THEN plan.strategy + 1 ELSE plan.strategy
    BY DEF RevisePlan
  <2>2. plan.strategy + 0 = plan.strategy
    BY DEF TypeOK
  <2> QED
    BY <1>1, <1>2, <2>1, <2>2 DEF PlanMoves
<1> QED
  BY <1>0, <1>2, <1>3, <1>4, <1>5, <1>6, QuietTold

\* The verdict on a claim is told by no step: each has its own.
LEMMA ClaimToldByNone ==
  ASSUME trajectory \in Trajectory, StepsTold, pc = "claiming", status # "failed", NEW verdict
  PROVE  trajectory.steps
           = WithVerdict(trajectory.steps,
                         ActionEvent("EVALUATION_COMPLETED", NoActionId, verdict))
<1>1. PICK s : s = trajectory.steps
  OBVIOUS
<1>2. s \in Seq(TrajectoryStep)
  BY <1>1 DEF Trajectory
<1>3. PICK event : event = ActionEvent("EVALUATION_COMPLETED", NoActionId, verdict)
  OBVIOUS
<1>4. event.actionId = NoActionId
  BY <1>3 DEF ActionEvent
<1>5. StepFor(s, event.actionId) = 0
  BY <1>4 DEF StepFor
<1>6. Len(s) # 0 => s[Len(s)].verdict # "none"
  <2>1. ASSUME Len(s) # 0, s[Len(s)].verdict = "none" PROVE FALSE
    <3>1. Len(s) \in DOMAIN s
      BY <1>2, <2>1
    <3> QED
      BY <1>1, <2>1, <3>1 DEF StepsTold
  <2> QED
    BY <2>1
<1>7. WithVerdict(s, event) = s
  BY <1>5, <1>6 DEF WithVerdict
<1> QED
  BY <1>1, <1>3, <1>7

\* A claim is accepted or rejected.
LEMMA ClaimTold ==
  ASSUME TypeOK, TypeOK', RunPhase, TellsInv, NEW verdict,
         AcceptClaim(verdict) \/ RejectClaim(verdict), Emits(Evaluated(NoActionId, verdict))
  PROVE  TellsInv'
<1>0. trajectory \in Trajectory /\ StepsTold /\ trajectory.finalStatus = FinalStatusOf(status)
  BY DEF TellsInv, CountsTold
<1>1. /\ pc = "claiming" /\ pc' \in {"returned", "revising"} /\ attempts' = attempts
      /\ written' = written /\ usage' = usage
      /\ \/ terminal' = terminal /\ status' = status
         \/ \E type \in TerminalEvents :
              terminal' = Append(terminal, type) /\ EndTold(type) = FinalStatusOf(status')
  BY DEF AcceptClaim, RejectClaim, CompleteGoal, TerminalEvents, EndTold, FinalStatusOf
<1>2. PlanMoves(0)
  BY DEF AcceptClaim, RejectClaim, CompleteGoal, PlanMoves, Unplanned, TypeOK
<1>3. status # "failed"
  BY <1>1 DEF RunPhase, Lifecycle!FinalStatus
<1>4. PICK steps : /\ steps = trajectory.steps
                   /\ steps = WithVerdict(trajectory.steps,
                               ActionEvent("EVALUATION_COMPLETED", NoActionId, verdict))
  BY <1>0, <1>1, <1>3, ClaimToldByNone
<1>5. PICK final : Tells(steps, 0, 0, 0, 0, final) /\ final = FinalStatusOf(status')
  BY <1>0, <1>1, <1>4, EvaluationTold
<1>6. AddsCalls(0)
  BY <1>1, UsageAddsCalls DEF TypeOK
<1>7. usage'.strategyChanges = usage.strategyChanges + 0
  BY <1>6, NoChange DEF AddsCalls
<1>8. Tells(trajectory.steps, 0, 0, 0, 0, final)
  BY <1>4, <1>5
<1> QED
  BY <1>1, <1>2, <1>5, <1>6, <1>7, <1>8, QuietTold DEF AddsCalls

\* A record is put.
LEMMA PutStep ==
  ASSUME TypeOK, TypeOK', RunPhase, TellsInv, NEW n \in EmbeddingCalls, WriteRecord(n),
         Emits(Append(ModelCalls(n), Event("MEMORY_WRITTEN")))
  PROVE  TellsInv'
<1>0. n \in Nat
  BY EmbeddingBound
<1>1. trajectory \in Trajectory /\ CountsTold /\ StepsTold /\ KnowledgeTold
  BY DEF TellsInv
<1>2. /\ pc = "writing" /\ pc' \in {"writing", "head", "revising"} /\ terminal' = terminal
      /\ status' = status /\ attempts' = attempts
      /\ written' = Append(written, Head(pending)) /\ pending' = Tail(pending)
  BY DEF WriteRecord
<1>3. /\ written \in Seq(MemoryRecord) /\ pending \in Seq(MemoryRecord) /\ pending # << >>
      /\ usage \in RunUsage
  BY <1>2 DEF TypeOK
<1>4. AddsCalls(n)
  BY <1>0, <1>3, UsageAddsCalls DEF WriteRecord
<1>5. usage'.strategyChanges = usage.strategyChanges + 0 /\ usage'.retries = usage.retries + 0
  <2>1. usage.retries \in Nat
    BY <1>3 DEF RunUsage
  <2> QED
    BY <1>4, <2>1, NoChange DEF AddsCalls
<1>6. PlanMoves(0)
  BY DEF WriteRecord, PlanMoves, Unplanned, TypeOK
<1>7. Tells(trajectory.steps, 0, 0, 1, n, trajectory.finalStatus)
  BY <1>0, <1>1, <1>2, PutTold
<1>8. Len(written') = Len(written) + 1
  BY <1>2, <1>3
<1>9. trajectory' \in Trajectory /\ trajectory'.steps = trajectory.steps /\ CountsTold'
  <2>1. trajectory.steps \in Seq(TrajectoryStep)
    BY <1>1 DEF Trajectory
  <2>2. trajectory.finalStatus = FinalStatusOf(status')
    BY <1>1, <1>2 DEF CountsTold
  <2> QED
    BY <1>0, <1>1, <1>4, <1>5, <1>6, <1>7, <1>8, <2>1, <2>2, CountsKept DEF AddsCalls
<1>10. StepsTold'
  BY <1>1, <1>2, <1>4, <1>9, StepsQuietKept DEF StepsQuiet, AddsCalls
<1>11. \A record : ReadByTool(record)' <=> ReadByTool(record)
  BY <1>9 DEF ReadByTool
<1>12. \A k \in DOMAIN written' : ReadByTool(written'[k])
  <2>1. ReadByTool(Head(pending))
    <3>1. 1 \in DOMAIN pending /\ Head(pending) = pending[1]
      BY <1>3
    <3> QED
      BY <1>1, <1>2, <3>1 DEF KnowledgeTold
  <2>2. ASSUME NEW k \in DOMAIN written' PROVE ReadByTool(written'[k])
    <3>1. CASE k \in DOMAIN written
      BY <1>1, <1>2, <1>3, <3>1 DEF KnowledgeTold
    <3>2. CASE k \notin DOMAIN written
      BY <1>2, <1>3, <2>1, <3>2
    <3> QED
      BY <3>1, <3>2
  <2> QED
    BY <2>2
<1>13. \A k \in DOMAIN pending' : ReadByTool(pending'[k])
  <2>1. ASSUME NEW k \in DOMAIN pending' PROVE ReadByTool(pending'[k])
    <3>1. k + 1 \in DOMAIN pending /\ pending'[k] = pending[k + 1]
      BY <1>2, <1>3
    <3> QED
      BY <1>1, <1>2, <3>1 DEF KnowledgeTold
  <2> QED
    BY <2>1
<1>14. KnowledgeTold'
  BY <1>11, <1>12, <1>13 DEF KnowledgeTold
<1> QED
  BY <1>9, <1>10, <1>14 DEF TellsInv

\* A tool is called: the log tells its step.
LEMMA ActStep ==
  ASSUME TypeOK, TypeOK', RunPhase, TellsInv, NEW n \in 1 .. CallsPerRequest, SelectAct(n),
         Emits(Selected(n))
  PROVE  TellsInv'
<1>0. n \in Nat
  BY LimitsAssumption
<1>1. trajectory \in Trajectory /\ CountsTold /\ StepsTold /\ KnowledgeTold
  BY DEF TellsInv
<1>2. /\ pc = "selecting" /\ pc' = "executing" /\ terminal' = terminal /\ status' = status
      /\ attempts' = attempts /\ written' = written /\ plan' = plan /\ task' = task
  BY DEF SelectAct
<1>3. status # "failed"
  BY <1>2 DEF RunPhase, Lifecycle!FinalStatus
<1>4. PICK r \in Nat : r = IF AttemptsOn(task) = {} THEN 0 ELSE 1
  OBVIOUS
<1>5. PICK s, step : /\ s = trajectory.steps
                     /\ step = [taskId |-> task, actionId |-> usage.toolCalls + 1,
                                toolStatus |-> "none", verdict |-> "none"]
  OBVIOUS
<1>6. s \in Seq(TrajectoryStep) /\ Len(s) \in Nat
  BY <1>1, <1>5, LenProperties DEF Trajectory
<1>7. usage \in RunUsage /\ usage.toolCalls \in Nat /\ task \in Nat
  BY DEF TypeOK, RunUsage
<1>8. step \in TrajectoryStep
  BY <1>5, <1>7 DEF TrajectoryStep
<1>9. PICK t : t = Append(s, step)
  OBVIOUS
<1>10. /\ t \in Seq(TrajectoryStep) /\ Len(t) = Len(s) + 1 /\ t[Len(s) + 1] = step
       /\ DOMAIN s = 1 .. Len(s) /\ DOMAIN t = 1 .. (Len(s) + 1)
       /\ \A i \in DOMAIN s : t[i] = s[i]
  BY <1>6, <1>8, <1>9
<1>11. Tells(t, r, 0, 0, n, trajectory.finalStatus)
  BY <1>0, <1>1, <1>2, <1>4, <1>5, <1>9, SelectionTold
<1>12. /\ usage'.retries = usage.retries + r /\ usage'.toolCalls = usage.toolCalls + 1
       /\ usage'.strategyChanges = usage.strategyChanges
       /\ usage'.modelCalls = usage.modelCalls + n
  <2>1. usage' = [usage EXCEPT !.modelCalls = @ + n, !.toolCalls = @ + 1,
                               !.retries = IF AttemptsOn(task) = {} THEN @ ELSE @ + 1]
    BY DEF SelectAct
  <2>2. usage.retries + 0 = usage.retries
    BY <1>7 DEF RunUsage
  <2>3. (IF AttemptsOn(task) = {} THEN usage.retries ELSE usage.retries + 1) = usage.retries + r
    BY <1>4, <2>2
  <2> QED
    BY <1>7, <2>1, <2>3 DEF RunUsage
<1>13. PlanMoves(0)
  BY <1>2 DEF PlanMoves, Unplanned
<1>14. Len(written') = Len(written) + 0 /\ usage'.strategyChanges = usage.strategyChanges + 0
  <2>1. Len(written) \in Nat
    BY LenProperties DEF TypeOK
  <2> QED
    BY <1>2, <1>12, <2>1, NoChange
<1>15. trajectory' \in Trajectory /\ trajectory'.steps = t /\ CountsTold'
  <2>1. trajectory.finalStatus = FinalStatusOf(status')
    BY <1>1, <1>2 DEF CountsTold
  <2> QED
    BY <1>0, <1>1, <1>10, <1>11, <1>12, <1>13, <1>14, <2>1, CountsKept
<1>16. Len(s) = usage.toolCalls
  BY <1>1, <1>5 DEF StepsTold
<1>17. StepsTold'
  <2>1. Len(t) = usage'.toolCalls
    BY <1>10, <1>12, <1>16
  <2>2. \A i \in DOMAIN t : t[i].actionId = i
    <3>1. \A i \in DOMAIN s : s[i].actionId = i
      BY <1>1, <1>5 DEF StepsTold
    <3>2. step.actionId = Len(s) + 1
      BY <1>5, <1>16
    <3> QED
      BY <1>6, <1>10, <3>1, <3>2
  <2>3. ASSUME NEW a \in DOMAIN attempts
        PROVE  /\ attempts[a].action \in DOMAIN t
               /\ t[attempts[a].action].taskId = attempts[a].task
               /\ t[attempts[a].action].verdict = attempts[a].verdict
               /\ t[attempts[a].action].toolStatus # "none"
    <3>1. /\ attempts[a].action \in DOMAIN s
          /\ s[attempts[a].action].taskId = attempts[a].task
          /\ s[attempts[a].action].verdict = attempts[a].verdict
          /\ s[attempts[a].action].toolStatus # "none"
      BY <1>1, <1>5 DEF StepsTold
    <3> QED
      BY <1>6, <1>10, <3>1
  <2>4. ASSUME NEW i \in DOMAIN t
        PROVE  IF t[i].verdict # "none"
               THEN \E a \in DOMAIN attempts : attempts[a].action = i
               ELSE i = Len(t)
    <3>1. CASE i \in DOMAIN s
      <4>1. s[i].verdict # "none" /\ \E a \in DOMAIN attempts : attempts[a].action = i
        BY <1>1, <1>2, <1>3, <1>5, <3>1 DEF StepsTold
      <4> QED
        BY <1>10, <3>1, <4>1
    <3>2. CASE i = Len(s) + 1
      BY <1>5, <1>10, <3>2
    <3> QED
      BY <1>6, <1>10, <3>1, <3>2
  <2>5. LastStepTold'
    <3>1. t # << >> /\ t[Len(t)] = step
      BY <1>6, <1>10
    <3>2. step.taskId = task /\ step.verdict = "none" /\ step.toolStatus = "none"
      BY <1>5
    <3> QED
      BY <1>2, <1>15, <3>1, <3>2 DEF LastStepTold
  <2> QED
    BY <1>2, <1>15, <2>1, <2>2, <2>3, <2>4, <2>5 DEF StepsTold
<1>18. KnowledgeTold'
  <2>1. \A k \in DOMAIN written : ReadByTool(written[k])'
    BY <1>1, <1>2, <1>5, <1>6, <1>10, <1>15 DEF KnowledgeTold, ReadByTool
  <2> QED
    BY <1>2, <2>1 DEF KnowledgeTold, ReadByTool
<1> QED
  BY <1>15, <1>17, <1>18 DEF TellsInv

\* While a tool call is under way its step is the last one.
LEMMA StepUnderWay ==
  ASSUME TypeOK, trajectory \in Trajectory, StepsTold, pc \in {"executing", "evaluating"},
         NEW s, s = trajectory.steps, NEW n, n = usage.toolCalls
  PROVE  /\ s \in Seq(TrajectoryStep) /\ n \in Nat /\ n \in 1 .. Len(s) /\ n = Len(s)
         /\ DOMAIN s = 1 .. n /\ StepFor(s, n) = n
         /\ s[n].taskId = task /\ s[n].verdict = "none"
<1>1. s \in Seq(TrajectoryStep) /\ DOMAIN s = 1 .. Len(s) /\ Len(s) \in Nat
  BY LenProperties DEF Trajectory
<1>2. n = Len(s) /\ s # << >> /\ s[n].taskId = task /\ s[n].verdict = "none"
  BY DEF StepsTold, LastStepTold
<1>3. n \in 1 .. Len(s)
  BY <1>1, <1>2
<1>4. \A i \in DOMAIN s : s[i].actionId = i
  BY DEF StepsTold
<1>5. StepFor(s, n) = n
  BY <1>1, <1>3, <1>4, StepForAction
<1> QED
  BY <1>1, <1>2, <1>3, <1>5

\* The tool ends: its step tells how.
LEMMA ObserveStep ==
  ASSUME TypeOK, TypeOK', RunPhase, TellsInv, NEW result \in {"ok", "error"}, Observe(result),
         Emits(ToolEnded(result))
  PROVE  TellsInv'
<1>1. trajectory \in Trajectory /\ CountsTold /\ StepsTold /\ KnowledgeTold
  BY DEF TellsInv
<1>2. /\ pc = "executing" /\ pc' = "evaluating" /\ terminal' = terminal /\ status' = status
      /\ attempts' = attempts /\ written' = written /\ plan' = plan /\ task' = task
      /\ usage' = usage /\ observed' = result
  BY DEF Observe
<1>3. status # "failed"
  BY <1>2 DEF RunPhase, Lifecycle!FinalStatus
<1>4. PICK s, n : s = trajectory.steps /\ n = usage.toolCalls
  OBVIOUS
<1>5. /\ s \in Seq(TrajectoryStep) /\ n \in Nat /\ n \in 1 .. Len(s) /\ n = Len(s)
      /\ DOMAIN s = 1 .. n /\ StepFor(s, n) = n
      /\ s[n].taskId = task /\ s[n].verdict = "none"
  BY <1>1, <1>2, <1>4, StepUnderWay
<1>6. s[n].toolStatus = "none"
  BY <1>1, <1>2, <1>4, <1>5 DEF StepsTold, LastStepTold
<1>7. PICK type, event : /\ event = ActionEvent(type, n, result)
                         /\ Tells(WithToolStatus(s, event, result), 0, 0, 0, 0,
                                  trajectory.finalStatus)
  BY <1>1, <1>2, <1>4, EndedTold
<1>8. PICK t : t = [s EXCEPT ![n].toolStatus = result]
  OBVIOUS
<1>9. WithToolStatus(s, event, result) = t
  <2>1. event.actionId = n
    BY <1>7 DEF ActionEvent
  <2>2. n # 0
    BY <1>5
  <2> QED
    BY <1>5, <1>8, <2>1, <2>2 DEF WithToolStatus
<1>10. /\ t \in Seq(TrajectoryStep) /\ DOMAIN t = DOMAIN s /\ Len(t) = Len(s)
       /\ \A i \in DOMAIN s : /\ t[i].taskId = s[i].taskId /\ t[i].actionId = s[i].actionId
                              /\ t[i].verdict = s[i].verdict
                              /\ i # n => t[i].toolStatus = s[i].toolStatus
       /\ t[n].toolStatus = result
  <2>1. s[n] \in TrajectoryStep
    BY <1>5
  <2>2. PICK step : step = [s[n] EXCEPT !.toolStatus = result]
    OBVIOUS
  <2>3. /\ step \in TrajectoryStep /\ step.taskId = s[n].taskId
        /\ step.actionId = s[n].actionId /\ step.verdict = s[n].verdict
        /\ step.toolStatus = result
    BY <2>1, <2>2 DEF TrajectoryStep
  <2>4. t = [s EXCEPT ![n] = step]
    BY <1>5, <1>8, <2>2
  <2>5. /\ t \in Seq(TrajectoryStep) /\ DOMAIN t = DOMAIN s /\ Len(t) = Len(s)
        /\ t[n] = step /\ \A i \in DOMAIN s : i # n => t[i] = s[i]
    BY <1>5, <2>3, <2>4, ExceptSeq
  <2> QED
    BY <2>3, <2>5
<1>11. AddsCalls(0)
  BY <1>2, UsageAddsCalls DEF TypeOK
<1>12. /\ usage'.retries = usage.retries + 0 /\ Len(written') = Len(written) + 0
       /\ usage'.strategyChanges = usage.strategyChanges + 0
  <2>1. usage.retries \in Nat /\ Len(written) \in Nat
    BY LenProperties DEF TypeOK, RunUsage
  <2> QED
    BY <1>2, <2>1, NoChange
<1>13. PlanMoves(0)
  BY <1>2 DEF PlanMoves, Unplanned
<1>14. trajectory' \in Trajectory /\ trajectory'.steps = t /\ CountsTold'
  <2>1. trajectory.finalStatus = FinalStatusOf(status')
    BY <1>1, <1>2 DEF CountsTold
  <2>2. Tells(t, 0, 0, 0, 0, trajectory.finalStatus)
    BY <1>7, <1>9
  <2> QED
    BY <1>1, <1>10, <1>11, <1>12, <1>13, <2>1, <2>2, CountsKept DEF AddsCalls
<1>15. StepsTold'
  <2>1. Len(t) = usage.toolCalls /\ \A i \in DOMAIN t : t[i].actionId = i
    BY <1>1, <1>4, <1>10 DEF StepsTold
  <2>2. ASSUME NEW a \in DOMAIN attempts
        PROVE  /\ attempts[a].action \in DOMAIN t
               /\ t[attempts[a].action].taskId = attempts[a].task
               /\ t[attempts[a].action].verdict = attempts[a].verdict
               /\ t[attempts[a].action].toolStatus # "none"
    <3>1. /\ attempts[a].action \in DOMAIN s
          /\ s[attempts[a].action].taskId = attempts[a].task
          /\ s[attempts[a].action].verdict = attempts[a].verdict
          /\ s[attempts[a].action].toolStatus # "none"
      BY <1>1, <1>4 DEF StepsTold
    <3> QED
      BY <1>6, <1>10, <3>1
  <2>3. ASSUME NEW i \in DOMAIN t
        PROVE  IF t[i].verdict # "none"
               THEN \E a \in DOMAIN attempts : attempts[a].action = i
               ELSE i = Len(t)
    BY <1>1, <1>3, <1>4, <1>10 DEF StepsTold
  <2>4. LastStepTold'
    <3>1. t # << >> /\ t[Len(t)] = t[n]
      BY <1>5, <1>10
    <3>2. t[n].taskId = task /\ t[n].verdict = "none" /\ t[n].toolStatus = result
      BY <1>5, <1>10
    <3> QED
      BY <1>2, <1>14, <3>1, <3>2 DEF LastStepTold
  <2> QED
    BY <1>2, <1>14, <2>1, <2>2, <2>3, <2>4 DEF StepsTold
<1>16. KnowledgeTold'
  <2>1. \A k \in DOMAIN written : ReadByTool(written[k])'
    BY <1>1, <1>2, <1>4, <1>6, <1>10, <1>14 DEF KnowledgeTold, ReadByTool
  <2> QED
    BY <1>2, <2>1 DEF KnowledgeTold, ReadByTool
<1> QED
  BY <1>14, <1>15, <1>16 DEF TellsInv

LEMMA ElementsOfTwo ==
  ASSUME NEW d, NEW e, NEW k \in DOMAIN << d, e >>
  PROVE  << d, e >>[k] = d \/ << d, e >>[k] = e
OBVIOUS

LEMMA ElementsOfThree ==
  ASSUME NEW d, NEW e, NEW l, NEW k \in DOMAIN << d, e, l >>
  PROVE  << d, e, l >>[k] = d \/ << d, e, l >>[k] = e \/ << d, e, l >>[k] = l
OBVIOUS

\* Without an ingestion no record is knowledge.
LEMMA NothingIngested ==
  ASSUME NEW verdict, NEW ingested, ~ ingested, NEW records,
         records = RecordsOf(verdict, ingested), NEW k \in DOMAIN records
  PROVE  records[k].kind # "knowledge"
<1> DEFINE Record(kind) == [kind |-> kind, task |-> task,
                            action |-> usage.toolCalls, outcome |-> verdict]
<1>1. PICK d, e, l : d = Record("decision") /\ e = Record("experience") /\ l = Record("lesson")
  OBVIOUS
<1>2. d.kind # "knowledge" /\ e.kind # "knowledge" /\ l.kind # "knowledge"
  BY <1>1
<1>3. records = << d, e >> \o << >> \o (IF HasContrast(verdict) THEN << l >> ELSE << >>)
  BY <1>1 DEF RecordsOf
<1>4. records = << d, e >> \/ records = << d, e, l >>
  BY <1>3, JoinNothing, JoinThird, ZenonT(30)
<1>5. records[k] = d \/ records[k] = e \/ records[k] = l
  <2>1. CASE records = << d, e >>
    <3>1. k \in DOMAIN << d, e >> /\ records[k] = << d, e >>[k]
      BY <2>1, Zenon
    <3> QED
      BY <3>1, ElementsOfTwo, Zenon
  <2>2. CASE records = << d, e, l >>
    <3>1. k \in DOMAIN << d, e, l >> /\ records[k] = << d, e, l >>[k]
      BY <2>2, Zenon
    <3>2. << d, e, l >>[k] = d \/ << d, e, l >>[k] = e \/ << d, e, l >>[k] = l
      BY <3>1, ElementsOfThree
    <3> QED
      BY <3>1, <3>2, Zenon
  <2> QED
    BY <1>4, <2>1, <2>2, Zenon
<1> QED
  BY <1>2, <1>5, Zenon

\* The attempt is judged: its step tells the verdict.
LEMMA JudgedStep ==
  ASSUME TypeOK, TypeOK', RunPhase, TellsInv, NEW verdict \in Verdicts,
         NEW ingested \in BOOLEAN, Evaluate(verdict, ingested),
         Emits(Evaluated(usage.toolCalls, verdict))
  PROVE  TellsInv'
<1>1. trajectory \in Trajectory /\ CountsTold /\ StepsTold /\ KnowledgeTold
  BY DEF TellsInv
<1>2. /\ pc = "evaluating" /\ pc' = "writing" /\ terminal' = terminal /\ status' = status
      /\ written' = written /\ plan' = plan /\ usage' = usage
      /\ pending' = RecordsOf(verdict, ingested) /\ (ingested => observed = "ok")
  BY DEF Evaluate
<1>3. status # "failed"
  BY <1>2 DEF RunPhase, Lifecycle!FinalStatus
<1>4. PICK s, n : s = trajectory.steps /\ n = usage.toolCalls
  OBVIOUS
<1>5. /\ s \in Seq(TrajectoryStep) /\ n \in Nat /\ n \in 1 .. Len(s) /\ n = Len(s)
      /\ DOMAIN s = 1 .. n /\ StepFor(s, n) = n
      /\ s[n].taskId = task /\ s[n].verdict = "none"
  BY <1>1, <1>2, <1>4, StepUnderWay
<1>6. s[n].toolStatus = observed /\ observed # "none"
  BY <1>1, <1>2, <1>4, <1>5 DEF StepsTold, LastStepTold
<1>7. PICK event, t : /\ event = ActionEvent("EVALUATION_COMPLETED", n, verdict)
                      /\ t = [s EXCEPT ![n].verdict = verdict]
  OBVIOUS
<1>8. t = WithVerdict(s, event)
  <2>1. event.actionId = n /\ event.about = verdict
    BY <1>7 DEF ActionEvent
  <2>2. n # 0
    BY <1>5
  <2> QED
    BY <1>5, <1>7, <2>1, <2>2 DEF WithVerdict
<1>9. Tells(t, 0, 0, 0, 0, trajectory.finalStatus)
  BY <1>1, <1>2, <1>4, <1>7, <1>8, EvaluationTold
<1>v. verdict \in OutcomeVerdict /\ verdict # "none"
  BY VerdictsAssumption DEF OutcomeVerdict
<1>10. /\ t \in Seq(TrajectoryStep) /\ DOMAIN t = DOMAIN s /\ Len(t) = Len(s)
       /\ \A i \in DOMAIN s : /\ t[i].taskId = s[i].taskId /\ t[i].actionId = s[i].actionId
                              /\ t[i].toolStatus = s[i].toolStatus
                              /\ i # n => t[i].verdict = s[i].verdict
       /\ t[n].verdict = verdict
  <2>1. s[n] \in TrajectoryStep
    BY <1>5
  <2>2. PICK step : step = [s[n] EXCEPT !.verdict = verdict]
    OBVIOUS
  <2>3. /\ step \in TrajectoryStep /\ step.taskId = s[n].taskId
        /\ step.actionId = s[n].actionId /\ step.toolStatus = s[n].toolStatus
        /\ step.verdict = verdict
    BY <1>v, <2>1, <2>2 DEF TrajectoryStep
  <2>4. t = [s EXCEPT ![n] = step]
    BY <1>5, <1>7, <2>2
  <2>5. /\ t \in Seq(TrajectoryStep) /\ DOMAIN t = DOMAIN s /\ Len(t) = Len(s)
        /\ t[n] = step /\ \A i \in DOMAIN s : i # n => t[i] = s[i]
    BY <1>5, <2>3, <2>4, ExceptSeq
  <2> QED
    BY <2>3, <2>5
<1>11. AddsCalls(0)
  BY <1>2, UsageAddsCalls DEF TypeOK
<1>12. /\ usage'.retries = usage.retries + 0 /\ Len(written') = Len(written) + 0
       /\ usage'.strategyChanges = usage.strategyChanges + 0
  <2>1. usage.retries \in Nat /\ Len(written) \in Nat
    BY LenProperties DEF TypeOK, RunUsage
  <2> QED
    BY <1>2, <2>1, NoChange
<1>13. PlanMoves(0)
  BY <1>2 DEF PlanMoves, Unplanned
<1>14. trajectory' \in Trajectory /\ trajectory'.steps = t /\ CountsTold'
  <2>1. trajectory.finalStatus = FinalStatusOf(status')
    BY <1>1, <1>2 DEF CountsTold
  <2> QED
    BY <1>1, <1>9, <1>10, <1>11, <1>12, <1>13, <2>1, CountsKept DEF AddsCalls
<1>15. PICK attempt, m :
         /\ attempt = [task |-> task, action |-> n, verdict |-> verdict]
         /\ m = Len(attempts)
  OBVIOUS
<1>16. /\ m \in Nat /\ DOMAIN attempts = 1 .. m /\ DOMAIN attempts' = 1 .. (m + 1)
       /\ \A a \in 1 .. m : attempts'[a] = attempts[a]
       /\ attempts'[m + 1] = attempt
  <2>1. attempts' = Append(attempts, attempt)
    BY <1>4, <1>15 DEF Evaluate
  <2>2. attempts \in Seq(Attempt) /\ attempt \in Attempt
    BY <1>5, <1>v, <1>15 DEF TypeOK, Attempt
  <2> QED
    BY <1>15, <2>1, <2>2
<1>17. \A a \in 1 .. m : /\ attempts[a].action \in DOMAIN s /\ attempts[a].action # n
                         /\ s[attempts[a].action].taskId = attempts[a].task
                         /\ s[attempts[a].action].verdict = attempts[a].verdict
                         /\ s[attempts[a].action].toolStatus # "none"
  <2>1. ASSUME NEW a \in 1 .. m
        PROVE  /\ attempts[a].action \in DOMAIN s
               /\ s[attempts[a].action].taskId = attempts[a].task
               /\ s[attempts[a].action].verdict = attempts[a].verdict
               /\ s[attempts[a].action].toolStatus # "none"
    BY <1>1, <1>4, <1>16 DEF StepsTold
  <2>2. ASSUME NEW a \in 1 .. m PROVE attempts[a].verdict # "none"
    <3>1. attempts[a] \in Attempt
      BY <1>16 DEF TypeOK
    <3> QED
      BY <3>1 DEF Attempt, OutcomeVerdict
  <2> QED
    BY <1>5, <2>1, <2>2
<1>18. attempt.task = task /\ attempt.action = n /\ attempt.verdict = verdict
  BY <1>15
<1>19. StepsTold'
  <2>1. Len(t) = usage.toolCalls /\ \A i \in DOMAIN t : t[i].actionId = i
    BY <1>1, <1>4, <1>10 DEF StepsTold
  <2>2. ASSUME NEW a \in DOMAIN attempts'
        PROVE  /\ attempts'[a].action \in DOMAIN t
               /\ t[attempts'[a].action].taskId = attempts'[a].task
               /\ t[attempts'[a].action].verdict = attempts'[a].verdict
               /\ t[attempts'[a].action].toolStatus # "none"
    <3>1. CASE a \in 1 .. m
      BY <1>10, <1>16, <1>17, <3>1, SMTT(30)
    <3>2. CASE a = m + 1
      BY <1>5, <1>6, <1>10, <1>16, <1>18, <3>2
    <3> QED
      BY <1>16, <3>1, <3>2
  <2>3. ASSUME NEW i \in DOMAIN t
        PROVE  t[i].verdict # "none" /\ \E a \in DOMAIN attempts' : attempts'[a].action = i
    <3>1. CASE i = n
      <4>1. t[i].verdict # "none"
        BY <1>v, <1>10, <3>1
      <4>2. m + 1 \in DOMAIN attempts' /\ attempts'[m + 1].action = i
        BY <1>16, <1>18, <3>1
      <4> QED
        BY <4>1, <4>2
    <3>2. CASE i # n
      <4>1. s[i].verdict # "none"
        BY <1>1, <1>4, <1>5, <1>10, <3>2 DEF StepsTold
      <4>2. PICK a \in 1 .. m : attempts[a].action = i
        BY <1>1, <1>4, <1>10, <1>16, <4>1 DEF StepsTold
      <4> QED
        BY <1>10, <1>16, <3>2, <4>1, <4>2, SMTT(30)
    <3> QED
      BY <3>1, <3>2
  <2>4. LastStepTold'
    BY <1>2 DEF LastStepTold
  <2> QED
    BY <1>2, <1>14, <2>1, <2>2, <2>3, <2>4 DEF StepsTold
<1>20. KnowledgeTold'
  <2>1. \A k \in DOMAIN written : ReadByTool(written[k])'
    BY <1>1, <1>2, <1>4, <1>10, <1>14 DEF KnowledgeTold, ReadByTool
  <2> DEFINE records == RecordsOf(verdict, ingested)
             Record(kind) == [kind |-> kind, task |-> task,
                              action |-> usage.toolCalls, outcome |-> verdict]
  <2>2. \A k \in DOMAIN records : records[k] = Record(records[k].kind)
    BY RecordsShape, ZenonT(30)
  <2>3. \A kind : Record(kind).action = n
    BY <1>4
  <2>4. ingested => s[n].toolStatus = "ok"
    BY <1>2, <1>6
  <2>5. pending' = records
    BY <1>2
  <2>8. ASSUME NEW k \in DOMAIN records, records[k].kind = "knowledge"
        PROVE  s[n].toolStatus = "ok"
    <3>1. CASE ingested
      BY <2>4, <3>1
    <3>2. CASE ~ ingested
      BY <2>8, <3>2, NothingIngested
    <3> QED
      BY <3>1, <3>2
  <2> HIDE DEF records, Record
  <2>6. ASSUME NEW k \in DOMAIN records, records[k].kind = "knowledge"
        PROVE  records[k].action \in DOMAIN t /\ t[records[k].action].toolStatus = "ok"
    <3>1. records[k].action = n
      BY <2>2, <2>3
    <3>2. s[n].toolStatus = "ok"
      BY <2>6, <2>8
    <3> QED
      BY <1>5, <1>10, <3>1, <3>2
  <2>7. \A k \in DOMAIN pending' : ReadByTool(pending[k])'
    BY <1>14, <2>5, <2>6 DEF ReadByTool
  <2> QED
    BY <1>2, <2>1, <2>7 DEF KnowledgeTold, ReadByTool
<1> QED
  BY <1>14, <1>19, <1>20 DEF TellsInv

\* Every step of the log is a step of the run.
LEMMA LogFollowsRun == TrajectoryNext => Next
BY DEF TrajectoryNext, Silent, Ends, MemoryTold, ModelTold, ToolTold, EvaluatorTold,
       Next, MemoryStep, ModelStep, EvaluatorStep

\* Every step of the run keeps its log telling it.
LEMMA TellsStep ==
  ASSUME TypeOK, TypeOK', RunPhase, TellsInv, [TrajectoryNext]_<< vars, trajectory >>
  PROVE  TellsInv'
<1>1. CASE Silent
  BY <1>1, SilentStep
<1>2. CASE Ends
  BY <1>2, EndsStep
<1>3. CASE MemoryTold
  <2>1. PICK calls \in EmbeddingCalls :
          \/ RetrieveMemory(calls) /\ Emits(ModelCalls(calls))
          \/ /\ WriteRecord(calls)
             /\ Emits(Append(ModelCalls(calls), Event("MEMORY_WRITTEN")))
          \/ EnvironmentThrows(calls) /\ Emits(ModelCalls(calls))
    BY <1>3 DEF MemoryTold
  <2> QED
    BY <2>1, SearchStep, PutStep
<1>4. CASE ModelTold
  <2>1. PICK calls \in 1 .. CallsPerRequest :
          \/ /\ \/ \E proposals \in Proposals(<< >>) :
                     CreateInitialPlan(calls, proposals)
                \/ SelectGiveUp(calls)
                \/ SelectFinish(calls)
                \/ ModelRequestThrows(calls)
             /\ Emits(ModelCalls(calls))
          \/ SelectAct(calls) /\ Emits(Selected(calls))
          \/ \E proposals \in Proposals(plan.tasks), strategyChanged \in BOOLEAN :
               /\ RevisePlan(calls, proposals, strategyChanged)
               /\ Emits(Revised(calls, strategyChanged))
    BY <1>4, Zenon DEF ModelTold
  <2>2. ASSUME NEW proposals, CreateInitialPlan(calls, proposals), Emits(ModelCalls(calls))
        PROVE  TellsInv'
    BY <2>2, FirstPlanStep
  <2>3. ASSUME SelectGiveUp(calls) \/ SelectFinish(calls) \/ ModelRequestThrows(calls),
               Emits(ModelCalls(calls))
        PROVE  TellsInv'
    BY <2>3, RequestStep
  <2>4. ASSUME SelectAct(calls), Emits(Selected(calls)) PROVE TellsInv'
    BY <2>4, ActStep
  <2>5. ASSUME NEW proposals, NEW changed \in BOOLEAN, RevisePlan(calls, proposals, changed),
               Emits(Revised(calls, changed))
        PROVE  TellsInv'
    BY <2>5, RevisionStep
  <2> QED
    BY <2>1, <2>2, <2>3, <2>4, <2>5, Zenon
<1>5. CASE ToolTold
  BY <1>5, ObserveStep DEF ToolTold
<1>6. CASE EvaluatorTold
  <2>1. PICK verdict \in Verdicts :
          \/ /\ \E ingested \in BOOLEAN : Evaluate(verdict, ingested)
             /\ Emits(Evaluated(usage.toolCalls, verdict))
          \/ /\ AcceptClaim(verdict) \/ RejectClaim(verdict)
             /\ Emits(Evaluated(NoActionId, verdict))
    BY <1>6 DEF EvaluatorTold
  <2>2. ASSUME NEW ingested \in BOOLEAN, Evaluate(verdict, ingested),
               Emits(Evaluated(usage.toolCalls, verdict))
        PROVE  TellsInv'
    BY <2>2, JudgedStep
  <2>3. ASSUME AcceptClaim(verdict) \/ RejectClaim(verdict),
               Emits(Evaluated(NoActionId, verdict))
        PROVE  TellsInv'
    BY <2>3, ClaimTold
  <2> QED
    BY <2>1, <2>2, <2>3, Zenon
<1>7. CASE UNCHANGED << vars, trajectory >>
  <2>1. /\ pc' = pc /\ status' = status /\ plan' = plan /\ task' = task
        /\ attempts' = attempts /\ observed' = observed /\ pending' = pending
        /\ written' = written /\ usage' = usage /\ trajectory' = trajectory
    BY <1>7 DEF vars
  <2> QED
    BY <2>1 DEF TellsInv, CountsTold, StepsTold, LastStepTold, KnowledgeTold, ReadByTool
<1> QED
  BY <1>1, <1>2, <1>3, <1>4, <1>5, <1>6, <1>7 DEF TrajectoryNext

\* What the invariant says of the log is what a reader of it learns.
LEMMA TellsRun ==
  ASSUME TypeOK, RunPhase, TellsInv
  PROVE  LogTellsRun
<1>1. trajectory \in Trajectory /\ CountsTold /\ StepsTold /\ KnowledgeTold
  BY DEF TellsInv
<1>2. plan.version > 0 => plan.strategy = 1 + trajectory.strategyChanges
  <2>1. plan.version \in Nat
    BY DEF TypeOK
  <2> QED
    BY <1>1, <2>1 DEF CountsTold
<1>3. \A k \in DOMAIN written : written[k].kind = "knowledge" =>
        trajectory.steps[written[k].action].toolStatus = "ok"
  BY <1>1 DEF KnowledgeTold, ReadByTool
<1>4. ASSUME NEW i \in DOMAIN trajectory.steps, trajectory.steps[i].verdict # "none"
      PROVE  \E a \in DOMAIN attempts : attempts[a].action = trajectory.steps[i].actionId
  BY <1>1, <1>4 DEF StepsTold
<1>5. \A i \in DOMAIN attempts :
        LET step == trajectory.steps[attempts[i].action]
        IN  /\ step.taskId = attempts[i].task
            /\ step.verdict = attempts[i].verdict
            /\ step.toolStatus # "none"
  BY <1>1 DEF StepsTold
<1>6. /\ trajectory.finalStatus = FinalStatusOf(status)
      /\ trajectory.retries = usage.retries
      /\ trajectory.strategyChanges = usage.strategyChanges
      /\ trajectory.memoryWrites = Len(written)
      /\ trajectory.modelCalls = usage.modelCalls
      /\ Len(trajectory.steps) = usage.toolCalls
  BY <1>1 DEF CountsTold, StepsTold
<1> QED
  BY <1>1, <1>2, <1>3, <1>4, <1>5, <1>6 DEF LogTellsRun

\* Without its log, a run with a log is a run of the control loop.
LEMMA LogOfRun == TrajectorySpec => Spec
<1>1. TrajectoryInit => Init
  BY DEF TrajectoryInit
<1>2. [TrajectoryNext]_<< vars, trajectory >> => [Next]_vars
  BY LogFollowsRun
<1> QED
  BY <1>1, <1>2, PTL DEF TrajectorySpec, Spec

\* The log of a run, also of one cut short, tells the run as it was
\* (trajectory.ts, the events of agent-runtime.ts): its end, its counts, and for
\* every tool call its task, how the tool ended and the verdict on it.
THEOREM RunToldByLog == TrajectorySpec => []LogTellsRun
<1>1. TrajectoryInit => TellsInv
  <2> SUFFICES ASSUME TrajectoryInit PROVE TellsInv
    OBVIOUS
  <2>1. /\ pc = "constructed" /\ status = "created" /\ plan.version = 0
        /\ attempts = << >> /\ written = << >> /\ usage = ZeroUsage
        /\ trajectory = EmptyTrajectory
    BY DEF TrajectoryInit, Init
  <2>2. trajectory \in Trajectory /\ trajectory.steps = << >>
    BY <2>1, EmptySeq DEF EmptyTrajectory, Trajectory
  <2>3. DOMAIN attempts = {} /\ DOMAIN written = {} /\ Len(written) = 0
    BY <2>1
  <2>4. DOMAIN trajectory.steps = {} /\ Len(trajectory.steps) = 0
    BY <2>2
  <2>5. CountsTold
    BY <2>1, <2>3 DEF CountsTold, EmptyTrajectory, ZeroUsage, FinalStatusOf
  <2>6. StepsTold
    BY <2>1, <2>3, <2>4 DEF StepsTold, LastStepTold, ZeroUsage
  <2> QED
    BY <2>1, <2>2, <2>3, <2>5, <2>6 DEF TellsInv, KnowledgeTold
<1>2. TypeOK /\ TypeOK' /\ RunPhase /\ TellsInv /\ [TrajectoryNext]_<< vars, trajectory >>
        => TellsInv'
  BY TellsStep
<1>3. TypeOK /\ RunPhase /\ TellsInv => LogTellsRun
  BY TellsRun
<1>4. TrajectorySpec => [](TypeOK /\ RunPhase)
  BY LogOfRun, PlanInvariant, PTL
<1> QED
  BY <1>1, <1>2, <1>3, <1>4, PTL DEF TrajectorySpec
=============================================================================
