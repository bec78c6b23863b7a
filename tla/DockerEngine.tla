---------------------------- MODULE DockerEngine ----------------------------
(***************************************************************************)
(* The container engine as src/sandbox/local/docker-cli-runtime.ts shows   *)
(* it to the environment: one container of one name, the background        *)
(* processes in it, and for every request the outcomes it can have.  An    *)
(* outcome is the answer DockerCliRuntime returns and the state the engine *)
(* is left in; with the faults in Faults a request may fail before or      *)
(* after it took effect.                                                   *)
(***************************************************************************)
EXTENDS Naturals

CONSTANTS
  MaxProcesses,  \* bound: background processes started by one environment
  Faults         \* what may go wrong in the engine, of Fault

\* "refused": a request fails and changes nothing.  "halfDone": stop or rm
\* fails (or its client times out) after it took effect.  "halfCreated": run
\* fails after it created the container.  "hung": the client of an exec is
\* killed by the host-side timeout, whether or not the script ran.  "dies":
\* the container halts or is removed by someone else.
Fault == {"refused", "halfDone", "halfCreated", "hung", "dies"}

ASSUME FaultsAssumption == MaxProcesses \in Nat /\ Faults \subseteq Fault

ProcessId == 1 .. MaxProcesses

ContainerStatus == {"absent", "created", "running", "exited"}

\* The leader of a process is alive; has written its exit file, with or
\* without members of its group left ("lingering", "finished"); or is dead
\* without an exit file, again with or without others ("orphaned", "gone").
LeaderStatus == {"none", "alive", "lingering", "finished", "orphaned", "gone"}

VARIABLES
  container,  \* the container of this name
  os          \* what has become of each process: [ProcessId -> LeaderStatus]

engine == << container, os >>

EngineInit ==
  /\ container = "absent"
  /\ os = [p \in ProcessId |-> "none"]

\* Nothing in a container survives its end.
Ended == [p \in ProcessId |->
            CASE os[p] \in {"alive", "orphaned"} -> "gone"
              [] os[p] = "lingering" -> "finished"
              [] OTHER -> os[p]]

Outcome(answer, c, o) == [answer |-> answer, container |-> c, os |-> o]

Answered(answer) == Outcome(answer, container, os)

Allows(fault, outcomes) == IF fault \in Faults THEN outcomes ELSE {}

Refused == Allows("refused", {Answered("failed")})

\* docker image inspect, docker inspect: "missing" is no such image, no such
\* container.
ImageOutcomes == {Answered("ok"), Answered("missing")} \cup Refused

InspectOutcomes ==
  {Answered(IF container = "absent" THEN "missing" ELSE container)}
    \cup Refused

\* docker run --detach --name: the name must be free.
CreateOutcomes ==
  IF container # "absent" THEN {Answered("failed")}
  ELSE {Outcome("ok", "running", os)} \cup Refused
         \cup Allows("halfCreated", {Outcome("failed", "created", os),
                                     Outcome("failed", "running", os)})

\* docker stop: a container that is not running is stopped already.
StopOutcomes ==
  LET halted == IF container = "running" THEN "exited" ELSE container
  IN IF container = "absent" THEN {Answered("failed")}
     ELSE {Outcome("ok", halted, Ended)} \cup Refused
            \cup Allows("halfDone", {Outcome("failed", halted, Ended)})

\* docker rm --force: "missing" is no such container.
RemoveOutcomes ==
  IF container = "absent" THEN {Answered("missing")} \cup Refused
  ELSE {Outcome("ok", "absent", Ended)} \cup Refused
         \cup Allows("halfDone", {Outcome("failed", "absent", Ended)})

\* docker exec of a script whose answer and effect are given; a container that
\* does not run answers with an error of the daemon.
ExecOutcomes(answer, after, hungAnswer) ==
  IF container # "running" THEN {Answered("failed")}
  ELSE {Outcome(answer, container, after)} \cup Refused
         \cup Allows("hung", {Answered(hungAnswer),
                              Outcome(hungAnswer, container, after)})

\* A command or a file operation: what it does to files is left out.
CommandOutcomes == ExecOutcomes("ok", os, "silent")

\* START_PROCESS_SCRIPT: the caller takes a missing pid for a failure.
StartScriptOutcomes(p) ==
  ExecOutcomes("ok", [os EXCEPT ![p] = "alive"], "failed")

\* STOP_PROCESS_SCRIPT: SIGTERM to the group, then wait until the leader has
\* ended, which ends the script: a member that ignores the signal survives.
\* "nothing" is exit 3.
AfterSignal(status) ==
  CASE status = "alive" -> {"gone", "orphaned"}
    [] status = "lingering" -> {"finished", "lingering"}
    [] status = "orphaned" -> {"gone", "orphaned"}
    [] OTHER -> {}

StopScriptOutcomes(p) ==
  IF AfterSignal(os[p]) = {}
  THEN ExecOutcomes("nothing", os, "failed")
  ELSE UNION {ExecOutcomes("ok", [os EXCEPT ![p] = s], "failed") :
                s \in AfterSignal(os[p])}

\* PROCESS_STATUS_SCRIPT: "exited" comes with a code, "gone" without; a client
\* that was killed leaves an empty output.
StatusScriptOutcomes(p) ==
  ExecOutcomes(CASE os[p] = "alive" -> "running"
                 [] os[p] \in {"lingering", "finished"} -> "exited"
                 [] OTHER -> "gone", os, "silent")

\* The command of a process ends by itself or its leader is killed inside the
\* container; either may leave members of the group behind.
ProcessEnds(p) ==
  /\ os[p] = "alive"
  /\ \E s \in {"lingering", "finished", "orphaned", "gone"} :
       os' = [os EXCEPT ![p] = s]
  /\ UNCHANGED container

GroupEnds(p) ==
  /\ \/ os[p] = "lingering" /\ os' = [os EXCEPT ![p] = "finished"]
     \/ os[p] = "orphaned" /\ os' = [os EXCEPT ![p] = "gone"]
  /\ UNCHANGED container

\* The container halts, or somebody else removes it.
ContainerDies ==
  /\ "dies" \in Faults
  /\ \/ container = "running" /\ container' = "exited"
     \/ container # "absent" /\ container' = "absent"
  /\ os' = Ended

EngineMoves ==
  \/ \E p \in ProcessId : ProcessEnds(p) \/ GroupEnds(p)
  \/ ContainerDies
=============================================================================
