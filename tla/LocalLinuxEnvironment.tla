----------------------- MODULE LocalLinuxEnvironment -----------------------
(***************************************************************************)
(* src/sandbox/local/local-linux-environment.ts: one environment, which    *)
(* owns one container, and the calls Callers make on it.  Every method is  *)
(* asynchronous: it runs to its first request to the engine, is suspended  *)
(* there, and goes on when the answer arrives; meanwhile other calls run.  *)
(* One action is all a method does from one await to the next.             *)
(*                                                                         *)
(* RunCommand stands for the file operations too: all are single execs     *)
(* that leave the state kept here alone.                                   *)
(***************************************************************************)
EXTENDS DockerEngine, Sequences

CONSTANTS
  Callers,  \* who calls the environment, each one call at a time
  Owners    \* the callers that own its lifecycle: start, stop, destroy

ASSUME OwnersAssumption == Owners \subseteq Callers

VARIABLES
  phase,           \* LocalLinuxEnvironment.phase
  processCounter,  \* LocalLinuxEnvironment.processCounter
  processes,       \* the map of tracked processes, in its insertion order
  calls            \* the call each caller is in

environment == << phase, processCounter, processes >>
vars == << container, os, phase, processCounter, processes, calls >>

Phase == {"created", "running", "stopped", "destroyed"}

ProcessStatus == {"running", "exited", "killed"}

\* TrackedProcess and its ProcessState; withCode: exitCode is known.
TrackedProcess == [id : ProcessId, status : ProcessStatus, withCode : BOOLEAN]

State(id, status, withCode) ==
  [id |-> id, status |-> status, withCode |-> withCode]

Method == {"none", "startContainer", "runCommand", "startProcess",
           "stopProcess", "getState", "stop", "destroy"}

Request == {"none", "image", "create", "command", "startScript",
            "stopScript", "statusScript", "inspect", "stop", "remove"}

\* Which method a caller is in, the request it waits for, the process that
\* request is about, and the engine's answer once there is one.
Call(method, request, process) ==
  [method |-> method, request |-> request, process |-> process,
   answer |-> "none"]

NoCall == Call("none", "none", 0)

Init ==
  /\ EngineInit
  /\ phase = "created"
  /\ processCounter = 0
  /\ processes = << >>
  /\ calls = [c \in Callers |-> NoCall]

Idle(c) == calls[c] = NoCall

Answer(c, method, request, answers) ==
  /\ calls[c].method = method
  /\ calls[c].request = request
  /\ calls[c].answer \in answers

Await(c, method, request, process) ==
  calls' = [calls EXCEPT ![c] = Call(method, request, process)]

Return(c) == calls' = [calls EXCEPT ![c] = NoCall]

IsTracked(p) == \E i \in DOMAIN processes : processes[i].id = p

Tracked(p) == CHOOSE i \in DOMAIN processes : processes[i].id = p

(***************************************************************************)
(* The engine answers a request.                                           *)
(***************************************************************************)
Outcomes(request, p) ==
  CASE request = "image" -> ImageOutcomes
    [] request = "create" -> CreateOutcomes
    [] request = "inspect" -> InspectOutcomes
    [] request = "stop" -> StopOutcomes
    [] request = "remove" -> RemoveOutcomes
    [] request = "command" -> CommandOutcomes
    [] request = "startScript" -> StartScriptOutcomes(p)
    [] request = "stopScript" -> StopScriptOutcomes(p)
    [] request = "statusScript" -> StatusScriptOutcomes(p)

EngineAnswers(c) ==
  /\ ~ Idle(c)
  /\ calls[c].answer = "none"
  /\ \E o \in Outcomes(calls[c].request, calls[c].process) :
       /\ container' = o.container
       /\ os' = o.os
       /\ calls' = [calls EXCEPT ![c].answer = o.answer]
  /\ UNCHANGED environment

(***************************************************************************)
(* startContainer                                                          *)
(***************************************************************************)
StartContainer(c) ==
  /\ Idle(c)
  /\ phase \notin {"running", "destroyed"}
  /\ Await(c, "startContainer", "image", 0)
  /\ UNCHANGED << engine, environment >>

CreateContainer(c) ==
  /\ Answer(c, "startContainer", "image", {"ok"})
  /\ Await(c, "startContainer", "create", 0)
  /\ UNCHANGED << engine, environment >>

ContainerStarted(c) ==
  /\ Answer(c, "startContainer", "create", {"ok"})
  /\ phase' = "running"
  /\ Return(c)
  /\ UNCHANGED << engine, processCounter, processes >>

StartFails(c) ==
  /\ \/ Answer(c, "startContainer", "image", {"missing", "failed"})
     \/ Answer(c, "startContainer", "create", {"failed"})
  /\ Return(c)
  /\ UNCHANGED << engine, environment >>

(***************************************************************************)
(* runCommand: the caller gets an exit status, a timeout or an error.      *)
(***************************************************************************)
RunCommand(c) ==
  /\ Idle(c)
  /\ phase = "running"
  /\ Await(c, "runCommand", "command", 0)
  /\ UNCHANGED << engine, environment >>

CommandReturns(c) ==
  /\ Answer(c, "runCommand", "command", {"ok", "silent", "failed"})
  /\ Return(c)
  /\ UNCHANGED << engine, environment >>

(***************************************************************************)
(* startProcess.  The counter moves even if exec then refuses.             *)
(***************************************************************************)
StartProcess(c) ==
  /\ Idle(c)
  /\ processCounter < MaxProcesses  \* bound
  /\ processCounter' = processCounter + 1
  /\ IF phase = "running"
     THEN Await(c, "startProcess", "startScript", processCounter + 1)
     ELSE UNCHANGED calls
  /\ UNCHANGED << engine, phase, processes >>

\* Mutant: the process is tracked under the counter of now, not of the call.
ProcessStarted_ReadsCounter(c) ==
  /\ Answer(c, "startProcess", "startScript", {"ok"})
  /\ processes' = Append(processes, State(processCounter, "running", FALSE))
  /\ Return(c)
  /\ UNCHANGED << engine, phase, processCounter >>

ProcessStarted(c) ==
  /\ Answer(c, "startProcess", "startScript", {"ok"})
  /\ processes' = Append(processes, State(calls[c].process, "running", FALSE))
  /\ Return(c)
  /\ UNCHANGED << engine, phase, processCounter >>

ProcessNotStarted(c) ==
  /\ Answer(c, "startProcess", "startScript", {"failed"})
  /\ Return(c)
  /\ UNCHANGED << engine, environment >>

(***************************************************************************)
(* stopProcess, and refreshProcess, which it shares with getState.         *)
(***************************************************************************)
StopProcess(c, p) ==
  /\ Idle(c)
  /\ IsTracked(p)
  /\ phase = "running"
  /\ Await(c, "stopProcess", "stopScript", p)
  /\ UNCHANGED << engine, environment >>

\* Mutant: a stopped process is forgotten.
ProcessStopped_Forgets(c) ==
  /\ Answer(c, "stopProcess", "stopScript", {"ok"})
  /\ processes' = SelectSeq(processes, LAMBDA t : t.id # calls[c].process)
  /\ Return(c)
  /\ UNCHANGED << engine, phase, processCounter >>

ProcessStopped(c) ==
  /\ Answer(c, "stopProcess", "stopScript", {"ok"})
  /\ processes' = [processes EXCEPT ![Tracked(calls[c].process)] =
                     State(calls[c].process, "killed", FALSE)]
  /\ Return(c)
  /\ UNCHANGED << engine, phase, processCounter >>

\* Exit 3: the process has ended before, so its state is refreshed unless that
\* has happened already; exec throws if the container has stopped meanwhile.
NothingToStop(c) ==
  /\ Answer(c, "stopProcess", "stopScript", {"nothing"})
  /\ IF /\ processes[Tracked(calls[c].process)].status = "running"
        /\ phase = "running"
     THEN Await(c, "stopProcess", "statusScript", calls[c].process)
     ELSE Return(c)
  /\ UNCHANGED << engine, environment >>

\* Mutant: a stop that failed is taken for done.
StopProcessFails_Killed(c) ==
  /\ Answer(c, "stopProcess", "stopScript", {"failed"})
  /\ processes' = [processes EXCEPT ![Tracked(calls[c].process)] =
                     State(calls[c].process, "killed", FALSE)]
  /\ Return(c)
  /\ UNCHANGED << engine, phase, processCounter >>

StopProcessFails(c) ==
  /\ Answer(c, "stopProcess", "stopScript", {"failed"})
  /\ Return(c)
  /\ UNCHANGED << engine, environment >>

\* Mutant: a code is read without an exit file.
Refreshed_AnyCode(tracked, word) ==
  IF word = "running" THEN tracked
  ELSE State(tracked.id, "exited", TRUE)

\* What a refresh makes of the word the status script printed.
Refreshed(tracked, word) ==
  IF word = "running" THEN tracked
  ELSE State(tracked.id, "exited", word = "exited")

\* Mutant: the answer is filed under the latest process.
RefreshedProcesses_Last(c) ==
  [processes EXCEPT ![Len(processes)] = Refreshed(@, calls[c].answer)]

RefreshedProcesses(c) ==
  LET i == Tracked(calls[c].process)
  IN [processes EXCEPT ![i] = Refreshed(@, calls[c].answer)]

Words == {"running", "exited", "gone", "silent"}

StopRefreshed(c) ==
  /\ Answer(c, "stopProcess", "statusScript", Words)
  /\ processes' = RefreshedProcesses(c)
  /\ Return(c)
  /\ UNCHANGED << engine, phase, processCounter >>

RefreshFails(c) ==
  /\ \E method \in {"stopProcess", "getState"} :
       Answer(c, method, "statusScript", {"failed"})
  /\ Return(c)
  /\ UNCHANGED << engine, environment >>

(***************************************************************************)
(* getState: inspect the container, then refresh one after the other the   *)
(* processes found running when the loop gets to them.                     *)
(***************************************************************************)
GetState(c) ==
  /\ Idle(c)
  /\ phase \in {"running", "stopped"}
  /\ Await(c, "getState", "inspect", 0)
  /\ UNCHANGED << engine, environment >>

\* Mutant: every process is refreshed, whatever its state.
RefreshFrom_All(c, ps, i) ==
  IF i > Len(ps) \/ phase # "running"
  THEN Return(c)
  ELSE Await(c, "getState", "statusScript", ps[i].id)

\* The loop over the tracked processes ps goes on at position i.
RefreshFrom(c, ps, i) ==
  LET rest == {j \in i .. Len(ps) : ps[j].status = "running"}
      next == CHOOSE j \in rest : \A k \in rest : j <= k
  IN IF rest = {} \/ phase # "running"  \* done, or exec throws
     THEN Return(c)
     ELSE Await(c, "getState", "statusScript", ps[next].id)

Inspected(c) ==
  /\ Answer(c, "getState", "inspect", ContainerStatus \cup {"missing", "failed"})
  /\ IF calls[c].answer = "running"
     THEN RefreshFrom(c, processes, 1)
     ELSE Return(c)
  /\ UNCHANGED << engine, environment >>

\* Mutant: the loop does not advance.
StateRefreshed_Stays(c) ==
  /\ Answer(c, "getState", "statusScript", Words)
  /\ processes' = RefreshedProcesses(c)
  /\ RefreshFrom(c, RefreshedProcesses(c), Tracked(calls[c].process))
  /\ UNCHANGED << engine, phase, processCounter >>

StateRefreshed(c) ==
  /\ Answer(c, "getState", "statusScript", Words)
  /\ processes' = RefreshedProcesses(c)
  /\ RefreshFrom(c, RefreshedProcesses(c), Tracked(calls[c].process) + 1)
  /\ UNCHANGED << engine, phase, processCounter >>

(***************************************************************************)
(* stop and destroy                                                        *)
(***************************************************************************)
\* Mutant: the tracked processes are left as they are.
AllKilled_None == processes

AllKilled ==
  [i \in DOMAIN processes |->
     IF processes[i].status = "running"
     THEN [processes[i] EXCEPT !.status = "killed"]
     ELSE processes[i]]

Stop(c) ==
  /\ Idle(c)
  /\ phase = "running"
  /\ Await(c, "stop", "stop", 0)
  /\ UNCHANGED << engine, environment >>

Stopped(c) ==
  /\ Answer(c, "stop", "stop", {"ok"})
  /\ phase' = "stopped"
  /\ processes' = AllKilled
  /\ Return(c)
  /\ UNCHANGED << engine, processCounter >>

\* Nothing was created yet: no request is made.
DestroyNew(c) ==
  /\ Idle(c)
  /\ phase = "created"
  /\ phase' = "destroyed"
  /\ processes' = AllKilled
  /\ UNCHANGED << engine, processCounter, calls >>

Destroy(c) ==
  /\ Idle(c)
  /\ phase \in {"running", "stopped"}
  /\ Await(c, "destroy", "remove", 0)
  /\ UNCHANGED << engine, environment >>

Destroyed(c) ==
  /\ Answer(c, "destroy", "remove", {"ok", "missing"})
  /\ phase' = "destroyed"
  /\ processes' = AllKilled
  /\ Return(c)
  /\ UNCHANGED << engine, processCounter >>

StopOrDestroyFails(c) ==
  /\ \/ Answer(c, "stop", "stop", {"failed"})
     \/ Answer(c, "destroy", "remove", {"failed"})
  /\ Return(c)
  /\ UNCHANGED << engine, environment >>

(***************************************************************************)
(* The calls a caller may make, and how the pending ones go on.            *)
(***************************************************************************)
OwnerCalls(c) == StartContainer(c) \/ Stop(c) \/ DestroyNew(c) \/ Destroy(c)

UserCalls(c) ==
  \/ RunCommand(c)
  \/ StartProcess(c)
  \/ \E p \in ProcessId : StopProcess(c, p)
  \/ GetState(c)

Continues(c) ==
  \/ CreateContainer(c) \/ ContainerStarted(c) \/ StartFails(c)
  \/ CommandReturns(c)
  \/ ProcessStarted(c) \/ ProcessNotStarted(c)
  \/ ProcessStopped(c) \/ NothingToStop(c) \/ StopProcessFails(c)
  \/ StopRefreshed(c) \/ RefreshFails(c)
  \/ Inspected(c) \/ StateRefreshed(c)
  \/ Stopped(c) \/ Destroyed(c) \/ StopOrDestroyFails(c)

\* A call under way moves.
Progress(c) == EngineAnswers(c) \/ Continues(c)

Moves == EngineMoves /\ UNCHANGED << environment, calls >>

Next ==
  \/ \E c \in Owners : OwnerCalls(c)
  \/ \E c \in Callers : UserCalls(c) \/ Progress(c)
  \/ Moves

Spec == Init /\ [][Next]_vars

FairSpec == Spec /\ \A c \in Callers : WF_vars(Progress(c))
=============================================================================
