------------------------ MODULE LocalLinuxProperties ------------------------
(***************************************************************************)
(* What LocalLinuxEnvironment keeps.  The first group holds whatever calls *)
(* run at the same time; the second only when one caller makes one call    *)
(* after the other, as the agent loop does.                                *)
(***************************************************************************)
EXTENDS LocalLinuxEnvironment

\* One caller starts, stops and destroys an environment: the composition that
\* made it.
ASSUME OneOwner == \A c, d \in Owners : c = d

CallType ==
  [method : Method, request : Request, process : 0 .. MaxProcesses,
   answer : ContainerStatus \cup Words
              \cup {"none", "ok", "missing", "failed", "nothing"}]

\* The variables have their types.
TypeOK ==
  /\ container \in ContainerStatus
  /\ os \in [ProcessId -> LeaderStatus]
  /\ phase \in Phase
  /\ processCounter \in 0 .. MaxProcesses
  /\ processes \in Seq(TrackedProcess)
  /\ calls \in [Callers -> CallType]

StatusOf(i) == processes[i].status
LeaderOf(i) == os[processes[i].id]

\* Concurrent starts give every process an id of its own, and an answer that
\* arrives late is filed under the id its call drew (startProcess).
ProcessIdsDistinct ==
  /\ \A i, j \in DOMAIN processes :
       processes[i].id = processes[j].id => i = j
  /\ \A i \in DOMAIN processes : LeaderOf(i) # "none"

\* An exit code is reported only of a process that wrote one: neither a
\* process somebody killed nor one that merely could not be asked gets a code
\* (refreshProcess, stopProcess).
ExitCodeHonest ==
  \A i \in DOMAIN processes :
    processes[i].withCode =>
      StatusOf(i) = "exited" /\ LeaderOf(i) \in {"lingering", "finished"}

\* The leader of a process reported killed is dead, whichever of stopProcess,
\* stop and destroy reported it and whatever ran meanwhile.
KilledIsDead ==
  \A i \in DOMAIN processes : StatusOf(i) = "killed" => LeaderOf(i) # "alive"

\* Every call returns or throws, the loop of getState over a growing map of
\* processes included.
CallsSettle == \A c \in Callers : ~ Idle(c) ~> Idle(c)

(***************************************************************************)
(* One call at a time.                                                     *)
(***************************************************************************)

\* Once the environment is stopped or destroyed no process is reported
\* running, and none runs: the map has been brought up to date, and the
\* container is gone or halted (stop, destroy).
NothingRunsOnceDown ==
  /\ phase \in {"stopped", "destroyed"} =>
       /\ \A i \in DOMAIN processes : StatusOf(i) # "running"
       /\ \A p \in ProcessId : os[p] \in {"none", "finished", "gone"}
  /\ phase = "destroyed" => container = "absent"

\* A process reported exited does not run (refreshProcess).
ExitedIsDead ==
  \A i \in DOMAIN processes : StatusOf(i) = "exited" => LeaderOf(i) # "alive"

\* A live process of the container is tracked, or the call that started it is
\* still waiting for its pid (startProcess).
LiveProcessIsKnown ==
  \A p \in ProcessId :
    os[p] \in {"alive", "lingering", "orphaned"} =>
      \/ IsTracked(p)
      \/ \E c \in Callers : calls[c].request = "startScript"
                              /\ calls[c].process = p

\* A report is never taken back: killed stays killed, an ended process is not
\* reported running again, and an environment that was destroyed stays so.
ReportsAreFinal ==
  [][/\ phase = "destroyed" => phase' = "destroyed"
     /\ \A i \in DOMAIN processes :
          /\ processes'[i].status = "running" => StatusOf(i) = "running"
          /\ StatusOf(i) = "killed" => processes'[i].status = "killed"]_vars

\* The map of processes and the container agree: nothing runs once the
\* environment is down, what exited is dead, and what lives is known.
ReportsMatchContainer ==
  NothingRunsOnceDown /\ ExitedIsDead /\ LiveProcessIsKnown
=============================================================================
