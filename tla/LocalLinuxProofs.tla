-------------------------- MODULE LocalLinuxProofs --------------------------
(***************************************************************************)
(* Proofs about LocalLinuxEnvironment: first for any number of callers and *)
(* processes and any faults of the engine, then, from the line "One call   *)
(* at a time" on, for the single caller the agent loop is, and last for    *)
(* the run in a local container, LocalDockerRun.                           *)
(***************************************************************************)
EXTENDS LocalLinuxProperties, LocalDockerRun, SequenceTheorems, WellFoundedInduction, TLAPS

USE FaultsAssumption, OwnersAssumption

(***************************************************************************)
(* The inductive invariant: what the engine, the pending calls and the map *)
(* of processes know of each other.                                        *)
(***************************************************************************)
Live == {"alive", "lingering", "orphaned"}

ByScript == {"startScript", "stopScript", "statusScript"}

ByOwner == {"image", "create", "stop", "remove"}

\* Processes only live in a container that runs.
EngineInv ==
  \A p \in ProcessId : os[p] \in Live => container = "running"

\* A pending call waits for a request, and the requests of the lifecycle are
\* the owner's.
RequestsInv ==
  \A c \in Callers :
    /\ calls[c].request = "none" => Idle(c)
    /\ calls[c].request \in ByScript => calls[c].process \in 1 .. processCounter
    /\ calls[c].request \in ByOwner => c \in Owners

\* Two starts under way have drawn different ids, which nothing tracks yet;
\* the other scripts are about tracked processes.
ScriptsInv ==
  /\ \A c, d \in Callers :
       /\ calls[c].request = "startScript"
       /\ calls[d].request = "startScript"
       /\ calls[c].process = calls[d].process
       => c = d
  /\ \A c \in Callers :
       /\ calls[c].request = "startScript" => ~ IsTracked(calls[c].process)
       /\ calls[c].request \in {"stopScript", "statusScript"} =>
            IsTracked(calls[c].process)

\* What an answer that nobody has read yet says is still so when it is read.
AnswersInv ==
  \A c \in Callers :
    LET request == calls[c].request
        answer == calls[c].answer
        p == calls[c].process
    IN /\ request = "startScript" /\ answer = "ok" => os[p] # "none"
       /\ request = "stopScript" /\ answer = "ok" => os[p] # "alive"
       /\ request = "statusScript" /\ answer = "exited" =>
            os[p] \in {"lingering", "finished"}
       /\ request \in {"stop", "remove"} /\ answer \in {"ok", "missing"} =>
            container # "running"

\* Nothing is tracked, and nothing starts, before the first start.
CreatedInv ==
  phase = "created" =>
    /\ processes = << >>
    /\ \A c \in Callers : calls[c].request # "startScript"

TrackedInv ==
  /\ \A i \in DOMAIN processes : processes[i].id <= processCounter
  /\ ProcessIdsDistinct
  /\ ExitCodeHonest
  /\ KilledIsDead

EnvironmentInv ==
  /\ EngineInv
  /\ RequestsInv
  /\ ScriptsInv
  /\ AnswersInv
  /\ CreatedInv
  /\ TrackedInv

(***************************************************************************)
(* What the outcomes of a request can be.                                  *)
(***************************************************************************)
EngineAnswer ==
  ContainerStatus \cup Words \cup {"none", "ok", "missing", "failed", "nothing"}

EngineTypes ==
  /\ container \in ContainerStatus
  /\ os \in [ProcessId -> LeaderStatus]

EngineOutcome ==
  [answer : EngineAnswer, container : ContainerStatus,
   os : [ProcessId -> LeaderStatus]]

\* No outcome brings a process back, forgets one, lets one outlive its container,
\* or starts a container that was not to be created; only the start script
\* makes its process live.
Effect(request, p, o) ==
  /\ o \in EngineOutcome
  /\ request # "create" /\ o.container = "running" => container = "running"
  /\ \A q \in ProcessId :
       /\ os[q] # "none" => o.os[q] # "none"
       /\ o.os[q] \in Live => o.container = "running"
       /\ request # "startScript" \/ q # p =>
            /\ os[q] # "alive" => o.os[q] # "alive"
            /\ os[q] \in {"lingering", "finished"} =>
                 o.os[q] \in {"lingering", "finished"}

\* An answer that reports success tells the truth about the state it leaves.
Truthful(request, p, o) ==
  /\ request = "startScript" /\ o.answer = "ok" => o.os[p] # "none"
  /\ request = "stopScript" /\ o.answer = "ok" => o.os[p] # "alive"
  /\ request = "statusScript" /\ o.answer = "exited" =>
       o.os[p] \in {"lingering", "finished"}
  /\ request \in {"stop", "remove"} /\ o.answer \in {"ok", "missing"} =>
       o.container # "running"

\* The end of a container ends what lives in it and keeps what has ended.
LEMMA EndedFacts ==
  ASSUME EngineTypes
  PROVE  /\ Ended \in [ProcessId -> LeaderStatus]
         /\ \A q \in ProcessId :
              /\ Ended[q] \notin Live
              /\ os[q] # "none" => Ended[q] # "none"
              /\ os[q] \in {"lingering", "finished"} => Ended[q] = "finished"
  BY DEF EngineTypes, Ended, LeaderStatus, Live

\* The requests about the container.
LEMMA ContainerRequests ==
  ASSUME EngineTypes, EngineInv, NEW p,
         NEW request \in {"image", "create", "inspect", "stop", "remove"},
         NEW o \in Outcomes(request, p)
  PROVE  Effect(request, p, o) /\ Truthful(request, p, o)
<1> USE DEF EngineTypes, EngineInv, Effect, Truthful, EngineOutcome, EngineAnswer,
            Outcome, Answered, Allows, Refused
<1>1. CASE request = "image"
  BY <1>1 DEF Outcomes, ImageOutcomes
<1>2. CASE request = "create"
  BY <1>2 DEF Outcomes, CreateOutcomes, ContainerStatus
<1>3. CASE request = "inspect"
  BY <1>3 DEF Outcomes, InspectOutcomes
<1>4. CASE request = "stop"
  BY <1>4, EndedFacts DEF Outcomes, StopOutcomes, ContainerStatus, Live
<1>5. CASE request = "remove"
  BY <1>5, EndedFacts DEF Outcomes, RemoveOutcomes, ContainerStatus, Live
<1> QED
  BY <1>1, <1>2, <1>3, <1>4, <1>5

\* An exec leaves the container as it is; an answer of its script comes only
\* with the script's effect, which takes place only where the container runs.
LEMMA ExecFacts ==
  ASSUME NEW answer, NEW after, NEW hungAnswer,
         NEW o \in ExecOutcomes(answer, after, hungAnswer)
  PROVE  /\ o = [answer |-> o.answer, container |-> o.container, os |-> o.os]
         /\ o.container = container
         /\ o.answer \in {answer, hungAnswer, "failed"}
         /\ o.os \in {os, after}
         /\ o.os # os => container = "running"
         /\ o.answer \notin {hungAnswer, "failed"} => o.os = after
  BY DEF ExecOutcomes, Outcome, Answered, Allows, Refused

\* A script that changes the status of one process to s, and that of no other.
LEMMA ScriptEffect ==
  ASSUME EngineTypes, EngineInv, NEW p \in ProcessId, NEW s \in LeaderStatus,
         NEW request \in {"startScript", "stopScript"},
         NEW o \in ExecOutcomes("ok", [os EXCEPT ![p] = s], "failed"),
         s # "none",
         request = "stopScript" => /\ s # "alive"
                                   /\ os[p] \in {"lingering", "finished"} =>
                                        s \in {"lingering", "finished"}
  PROVE  Effect(request, p, o) /\ Truthful(request, p, o)
<1> USE DEF EngineTypes, EngineInv
<1>1. /\ o = [answer |-> o.answer, container |-> o.container, os |-> o.os]
      /\ o.container = container
      /\ o.answer \in {"ok", "failed"}
      /\ o.answer = "ok" => o.os = [os EXCEPT ![p] = s]
      /\ o.os = os \/ (o.os = [os EXCEPT ![p] = s] /\ container = "running")
  BY ExecFacts
<1>2. o.os \in [ProcessId -> LeaderStatus]
  BY <1>1
<1>3. o \in EngineOutcome
  BY <1>1, <1>2 DEF EngineOutcome, EngineAnswer
<1>4. \A q \in ProcessId :
        /\ q # p => o.os[q] = os[q]
        /\ o.os[q] = os[q] \/ (o.os[q] = s /\ container = "running")
  BY <1>1
<1>5. o.answer = "ok" => o.os[p] = s
  BY <1>1
<1> QED
  BY <1>1, <1>3, <1>4, <1>5 DEF Effect, Truthful

\* The requests that run a script about a process, and commands.
LEMMA ScriptRequests ==
  ASSUME EngineTypes, EngineInv, NEW p \in ProcessId,
         NEW request \in {"startScript", "stopScript", "statusScript"},
         NEW o \in Outcomes(request, p)
  PROVE  Effect(request, p, o) /\ Truthful(request, p, o)
<1> USE DEF EngineTypes, EngineInv, Effect, Truthful, EngineOutcome, EngineAnswer
<1>1. CASE request = "startScript"
  <2>1. o \in ExecOutcomes("ok", [os EXCEPT ![p] = "alive"], "failed")
    BY <1>1 DEF Outcomes, StartScriptOutcomes
  <2>2. "alive" \in LeaderStatus
    BY DEF LeaderStatus
  <2> QED
    BY <1>1, <2>1, <2>2, ScriptEffect, Zenon
<1>2. CASE request = "stopScript"
  <2>1. o \in StopScriptOutcomes(p)
    BY <1>2 DEF Outcomes
  <2>2. CASE AfterSignal(os[p]) = {}
    <3>1. o \in ExecOutcomes("nothing", os, "failed")
      BY <2>1, <2>2 DEF StopScriptOutcomes
    <3> QED
      BY <1>2, <3>1, ExecFacts
  <2>3. ASSUME NEW s \in AfterSignal(os[p]),
               o \in ExecOutcomes("ok", [os EXCEPT ![p] = s], "failed")
        PROVE  Effect(request, p, o) /\ Truthful(request, p, o)
    <3>1. /\ s \in LeaderStatus \ {"none", "alive"}
          /\ s \in Live => os[p] \in Live
          /\ os[p] \in {"lingering", "finished"} => s \in {"lingering", "finished"}
      BY <2>3 DEF AfterSignal, LeaderStatus, Live
    <3> QED
      BY <1>2, <2>3, <3>1, ScriptEffect, ZenonT(30)
  <2> QED
    BY <2>1, <2>2, <2>3 DEF StopScriptOutcomes
<1>3. CASE request = "statusScript"
  <2> DEFINE word == CASE os[p] = "alive" -> "running"
                       [] os[p] \in {"lingering", "finished"} -> "exited"
                       [] OTHER -> "gone"
  <2>1. o \in ExecOutcomes(word, os, "silent")
    BY <1>3 DEF Outcomes, StatusScriptOutcomes
  <2>2. /\ word \in Words
        /\ word = "exited" => os[p] \in {"lingering", "finished"}
    BY DEF Words
  <2> HIDE DEF word
  <2> QED
    BY <1>3, <2>1, <2>2, ExecFacts DEF Words
<1> QED
  BY <1>1, <1>2, <1>3

LEMMA CommandRequests ==
  ASSUME EngineTypes, EngineInv, NEW p, NEW o \in Outcomes("command", p)
  PROVE  Effect("command", p, o) /\ Truthful("command", p, o)
<1>1. o \in ExecOutcomes("ok", os, "silent")
  BY DEF Outcomes, CommandOutcomes
<1> QED
  BY <1>1, ExecFacts
     DEF EngineTypes, EngineInv, Effect, Truthful, EngineOutcome, EngineAnswer, Words

\* The outcome of whatever request a call waits for.
LEMMA PendingRequest ==
  ASSUME EngineTypes, EngineInv,
         NEW request \in Request \ {"none"}, NEW p,
         request \in ByScript => p \in ProcessId,
         NEW o \in Outcomes(request, p)
  PROVE  Effect(request, p, o) /\ Truthful(request, p, o)
  BY ContainerRequests, ScriptRequests, CommandRequests DEF Request, ByScript

\* What the engine does by itself ends processes and containers only.
LEMMA EngineAlone ==
  ASSUME EngineTypes, EngineInv, EngineMoves
  PROVE  /\ Effect("none", 0, [answer |-> "none", container |-> container',
                               os |-> os'])
         /\ container \in ContainerStatus
<1> USE DEF EngineTypes, EngineInv, Effect, EngineOutcome, EngineAnswer
<1>1. ASSUME NEW p \in ProcessId, ProcessEnds(p) \/ GroupEnds(p)
      PROVE  Effect("none", 0, [answer |-> "none", container |-> container',
                                os |-> os'])
  BY <1>1 DEF ProcessEnds, GroupEnds, LeaderStatus, Live
<1>2. CASE ContainerDies
  BY <1>2, EndedFacts DEF ContainerDies, ContainerStatus, LeaderStatus, Live
<1> QED
  BY <1>1, <1>2 DEF EngineMoves

-----------------------------------------------------------------------------
(* A step of a call.  Most steps leave the engine alone and end the call or  *)
(* make its next request; what they do to the map keeps the ids in it.       *)

Inv == TypeOK /\ EnvironmentInv

SameIds ==
  /\ DOMAIN processes' = DOMAIN processes
  /\ \A i \in DOMAIN processes : processes'[i].id = processes[i].id

\* What a caller may turn to: nothing, or a request it is entitled to make.
Turn(c, call) ==
  \/ call = NoCall
  \/ /\ call \in CallType
     /\ call.answer = "none" /\ call.request # "none"
     /\ call.request \in ByOwner => c \in Owners
     /\ call.request = "startScript" =>
          /\ phase = "running"
          /\ processCounter' = processCounter + 1
          /\ call.process = processCounter'
     /\ call.request \in {"stopScript", "statusScript"} =>
          IsTracked(call.process)

LEMMA NoCallType == NoCall \in CallType
  BY DEF NoCall, Call, CallType, Method, Request

\* The entries of the map, by position.
LEMMA EntryFacts ==
  ASSUME TypeOK, TrackedInv, NEW i \in DOMAIN processes
  PROVE  /\ processes[i] \in TrackedProcess
         /\ processes[i].id \in 1 .. processCounter
         /\ i \in Nat
<1>1. processes \in Seq(TrackedProcess) /\ processCounter \in Nat
  BY DEF TypeOK
<1>2. i \in 1 .. Len(processes)
  BY <1>1
<1>3. processes[i] \in TrackedProcess
  BY <1>1, <1>2
<1> QED
  BY <1>1, <1>2, <1>3 DEF TrackedInv, TrackedProcess, ProcessId

\* A tracked id has its place in the map.
LEMMA TrackedFacts ==
  ASSUME TypeOK, TrackedInv, NEW p, IsTracked(p)
  PROVE  /\ Tracked(p) \in DOMAIN processes
         /\ processes[Tracked(p)].id = p
         /\ p \in ProcessId /\ p \in 1 .. processCounter
         /\ processes[Tracked(p)] \in TrackedProcess
<1>1. PICK i \in DOMAIN processes : processes[i].id = p
  BY DEF IsTracked
<1>2. Tracked(p) \in DOMAIN processes /\ processes[Tracked(p)].id = p
  BY <1>1, Zenon DEF Tracked
<1> QED
  BY <1>2, EntryFacts DEF TrackedProcess

\* Such a step keeps what the calls know of the rest.
LEMMA TurnKeeps ==
  ASSUME Inv, NEW c \in Callers, NEW call, Turn(c, call),
         calls' = [calls EXCEPT ![c] = call],
         UNCHANGED engine, SameIds,
         processCounter' \in processCounter .. processCounter + 1,
         processCounter' <= MaxProcesses,
         phase' = "created" => phase = "created",
         phase' = "created" => processes' = << >>
  PROVE  /\ calls' \in [Callers -> CallType]
         /\ EngineInv' /\ RequestsInv' /\ ScriptsInv' /\ AnswersInv' /\ CreatedInv'
<1> USE DEF Inv, EnvironmentInv
<1>1. /\ calls \in [Callers -> CallType]
      /\ processCounter \in Nat /\ processCounter' \in Nat
      /\ container' = container /\ os' = os
  BY DEF TypeOK, engine
<1>2. call \in CallType /\ call.answer = "none"
  BY NoCallType DEF Turn, NoCall, Call
<1>3. /\ calls' \in [Callers -> CallType]
      /\ calls'[c] = call
      /\ \A d \in Callers : d # c => calls'[d] = calls[d]
  BY <1>1, <1>2
<1>4. \A p : IsTracked(p)' <=> IsTracked(p)
  BY DEF SameIds, IsTracked
<1>5. EngineInv'
  BY <1>1 DEF EngineInv
<1>6. call.request = "none" => call = NoCall
  BY DEF Turn
<1>7. call.request \in ByScript => call.process \in 1 .. processCounter'
  <2>1. CASE call = NoCall
    BY <2>1 DEF NoCall, Call, ByScript
  <2>2. CASE call.request = "startScript"
    BY <2>2, <1>1 DEF Turn, NoCall, Call
  <2>3. CASE call.request \in {"stopScript", "statusScript"} /\ call # NoCall
    BY <2>3, <1>1, TrackedFacts DEF Turn
  <2> QED
    BY <2>1, <2>2, <2>3 DEF ByScript
<1>8. RequestsInv'
  <2> SUFFICES ASSUME NEW d \in Callers
               PROVE  /\ calls'[d].request = "none" => Idle(d)'
                      /\ calls'[d].request \in ByScript =>
                           calls'[d].process \in 1 .. processCounter'
                      /\ calls'[d].request \in ByOwner => d \in Owners
    BY DEF RequestsInv
  <2>1. CASE d = c
    BY <2>1, <1>3, <1>6, <1>7 DEF Idle, Turn, NoCall, Call, ByOwner
  <2>2. CASE d # c
    <3>1. calls'[d] = calls[d]
      BY <2>2, <1>3
    <3>2. calls[d].process \in 1 .. processCounter =>
            calls[d].process \in 1 .. processCounter'
      BY <1>1
    <3> QED
      BY <3>1, <3>2 DEF RequestsInv, Idle
  <2> QED
    BY <2>1, <2>2
<1>9. ScriptsInv'
  <2>1. \A d \in Callers : d # c /\ calls[d].request = "startScript" =>
          calls[d].process \in 1 .. processCounter
    BY DEF RequestsInv, ByScript
  <2>2. call.request = "startScript" =>
          /\ call.process = processCounter + 1
          /\ ~ IsTracked(call.process)
    <3>1. call.request = "startScript" => call.process = processCounter + 1
      BY DEF Turn, NoCall, Call
    <3>2. \A i \in DOMAIN processes : processes[i].id \in 1 .. processCounter
      BY EntryFacts
    <3> QED
      BY <3>1, <3>2, <1>1 DEF IsTracked
  <2>3. call.request = "startScript" =>
          \A d \in Callers : d # c /\ calls[d].request = "startScript" =>
            calls[d].process # call.process
    BY <2>1, <2>2, <1>1
  <2>4. call.request \in {"stopScript", "statusScript"} => IsTracked(call.process)
    BY DEF Turn, NoCall, Call
  <2> QED
    BY <1>3, <1>4, <2>2, <2>3, <2>4 DEF ScriptsInv
<1>10. AnswersInv'
  BY <1>1, <1>2, <1>3 DEF AnswersInv
<1>11. CreatedInv'
  BY <1>1, <1>3 DEF CreatedInv, Turn, NoCall, Call
<1> QED
  BY <1>3, <1>5, <1>8, <1>9, <1>10, <1>11

\* A step that leaves map and engine alone keeps what is tracked.
LEMMA TrackedKept ==
  ASSUME TypeOK, TrackedInv, UNCHANGED << engine, processes >>,
         processCounter' \in processCounter .. processCounter + 1
  PROVE  TrackedInv'
<1>1. /\ os' = os /\ processes' = processes
      /\ processCounter \in Nat /\ processCounter' \in Nat
      /\ processCounter <= processCounter'
  BY DEF engine, TypeOK
<1>2. \A i \in DOMAIN processes : processes[i].id <= processCounter'
  BY <1>1, EntryFacts
<1> QED
  BY <1>1, <1>2
     DEF TrackedInv, ProcessIdsDistinct, ExitCodeHonest, KilledIsDead, StatusOf,
         LeaderOf

\* What may be reported of a process.
Report(t) ==
  /\ t \in TrackedProcess
  /\ t.withCode => t.status = "exited" /\ os[t.id] \in {"lingering", "finished"}
  /\ t.status = "killed" => os[t.id] # "alive"

\* A step that replaces reports by others of the same processes keeps what is
\* tracked.
LEMMA ReportsKeep ==
  ASSUME TypeOK, TrackedInv, UNCHANGED engine, UNCHANGED processCounter,
         processes' \in Seq(TrackedProcess), SameIds,
         \A i \in DOMAIN processes : Report(processes'[i])
  PROVE  TrackedInv'
<1>1. os' = os /\ processCounter' = processCounter
  BY DEF engine
<1>2. \A i \in DOMAIN processes' : processes'[i].id <= processCounter'
  BY <1>1 DEF SameIds, TrackedInv
<1>3. ProcessIdsDistinct'
  BY <1>1 DEF SameIds, TrackedInv, ProcessIdsDistinct, LeaderOf
<1>4. ExitCodeHonest' /\ KilledIsDead'
  BY <1>1 DEF SameIds, Report, ExitCodeHonest, KilledIsDead, StatusOf, LeaderOf
<1> QED
  BY <1>2, <1>3, <1>4 DEF TrackedInv

\* The reports there are, are such reports.
LEMMA ReportsHold ==
  ASSUME TypeOK, TrackedInv
  PROVE  \A i \in DOMAIN processes : Report(processes[i])
<1> TAKE i \in DOMAIN processes
<1>1. processes[i] \in TrackedProcess
  BY EntryFacts
<1> QED
  BY <1>1 DEF Report, TrackedInv, ExitCodeHonest, KilledIsDead, StatusOf, LeaderOf

\* One report is replaced.
LEMMA OneReport ==
  ASSUME TypeOK, TrackedInv, UNCHANGED engine, UNCHANGED processCounter,
         NEW i \in DOMAIN processes, NEW t, Report(t), t.id = processes[i].id,
         processes' = [processes EXCEPT ![i] = t]
  PROVE  /\ processes' \in Seq(TrackedProcess)
         /\ SameIds
         /\ TrackedInv'
<1>1. processes \in Seq(TrackedProcess) /\ t \in TrackedProcess
  BY DEF TypeOK, Report
<1>2. processes' \in Seq(TrackedProcess)
  BY <1>1
<1>3. SameIds
  BY DEF SameIds
<1>4. \A j \in DOMAIN processes : Report(processes'[j])
  BY ReportsHold
<1> QED
  BY <1>2, <1>3, <1>4, ReportsKeep

\* Every running process is marked killed, while nothing lives.
LEMMA AllKilledKeeps ==
  ASSUME TypeOK, TrackedInv, UNCHANGED engine, UNCHANGED processCounter,
         \A p \in ProcessId : os[p] \notin Live,
         processes' = AllKilled
  PROVE  /\ processes' \in Seq(TrackedProcess)
         /\ SameIds
         /\ TrackedInv'
         /\ processes = << >> => processes' = << >>
<1>1. processes \in Seq(TrackedProcess)
  BY DEF TypeOK
<1>2. /\ DOMAIN processes' = DOMAIN processes
      /\ \A i \in DOMAIN processes :
           /\ processes'[i] \in TrackedProcess
           /\ processes'[i].id = processes[i].id
           /\ Report(processes'[i])
  <2>1. DOMAIN processes' = DOMAIN processes
    BY DEF AllKilled
  <2>2. ASSUME NEW i \in DOMAIN processes
        PROVE  /\ processes'[i] \in TrackedProcess
               /\ processes'[i].id = processes[i].id
               /\ Report(processes'[i])
    <3>1. Report(processes[i]) /\ processes[i] \in TrackedProcess
      BY ReportsHold, EntryFacts
    <3>2. CASE processes[i].status = "running"
      <4>1. processes'[i] = [processes[i] EXCEPT !.status = "killed"]
        BY <3>2 DEF AllKilled
      <4>2. /\ processes'[i] \in TrackedProcess
            /\ processes'[i].id = processes[i].id
            /\ processes'[i].status = "killed"
            /\ processes'[i].withCode = processes[i].withCode
        BY <4>1, <3>1 DEF TrackedProcess, ProcessStatus
      <4> QED
        BY <4>2, <3>1, <3>2 DEF Report, TrackedProcess, Live
    <3>3. CASE processes[i].status # "running"
      BY <3>3, <3>1 DEF AllKilled
    <3> QED
      BY <3>2, <3>3
  <2> QED
    BY <2>1, <2>2
<1>3. processes' \in Seq(TrackedProcess)
  <2>1. processes' = [i \in 1 .. Len(processes) |-> processes'[i]]
    BY <1>1 DEF AllKilled
  <2>2. \A i \in 1 .. Len(processes) : processes'[i] \in TrackedProcess
    BY <1>1, <1>2
  <2>3. Len(processes) \in Nat
    BY <1>1
  <2> QED
    BY <2>1, <2>2, <2>3
<1>4. processes = << >> => processes' = << >>
  BY <1>1, <1>2, <1>3
<1>5. SameIds
  BY <1>2 DEF SameIds
<1> QED
  BY <1>2, <1>3, <1>4, <1>5, ReportsKeep

-----------------------------------------------------------------------------
(* The steps.                                                              *)

LEMMA InvInit == Init => Inv
<1> SUFFICES ASSUME Init
             PROVE  Inv
  OBVIOUS
<1> USE DEF Init, EngineInit
<1>1. NoCall \in CallType
  BY NoCallType
<1>2. TypeOK
  BY <1>1, EmptySeq DEF TypeOK, ContainerStatus, LeaderStatus, Phase
<1>3. \A c \in Callers : calls[c] = NoCall /\ calls[c].request = "none"
  BY DEF NoCall, Call
<1>4. EngineInv
  BY DEF EngineInv, Live
<1>5. RequestsInv /\ ScriptsInv /\ AnswersInv /\ CreatedInv
  BY <1>3 DEF RequestsInv, ScriptsInv, AnswersInv, CreatedInv, ByScript, ByOwner, Idle
<1>6. TrackedInv
  BY DEF TrackedInv, ProcessIdsDistinct, ExitCodeHonest, KilledIsDead
<1> QED
  BY <1>2, <1>4, <1>5, <1>6 DEF Inv, EnvironmentInv

\* A call makes its next request or returns, and nothing else changes.
LEMMA QuietStep ==
  ASSUME Inv, NEW c \in Callers, NEW call, Turn(c, call),
         calls' = [calls EXCEPT ![c] = call],
         UNCHANGED << engine, phase, processes >>,
         processCounter' \in processCounter .. processCounter + 1,
         processCounter' <= MaxProcesses
  PROVE  Inv'
<1> USE DEF Inv, EnvironmentInv
<1>1. SameIds
  BY DEF SameIds
<1>2. phase' = "created" => phase = "created" /\ processes' = << >>
  BY DEF CreatedInv
<1>3. TrackedInv'
  BY TrackedKept
<1>4. /\ calls' \in [Callers -> CallType]
      /\ EngineInv' /\ RequestsInv' /\ ScriptsInv' /\ AnswersInv' /\ CreatedInv'
  BY <1>1, <1>2, TurnKeeps
<1>5. TypeOK'
  BY <1>4 DEF TypeOK, engine
<1> QED
  BY <1>3, <1>4, <1>5

\* A call returns or goes on, and replaces reports.
LEMMA ReportStep ==
  ASSUME Inv, NEW c \in Callers, NEW call, Turn(c, call),
         calls' = [calls EXCEPT ![c] = call],
         UNCHANGED << engine, processCounter >>,
         phase' \in Phase, phase' = "created" => phase = "created",
         processes' \in Seq(TrackedProcess), SameIds, TrackedInv'
  PROVE  Inv'
<1> USE DEF Inv, EnvironmentInv
<1>1. phase' = "created" => processes' = << >>
  BY DEF CreatedInv, SameIds
<1>2. processCounter' = processCounter /\ processCounter \in 0 .. MaxProcesses
  BY DEF TypeOK
<1>3. /\ processCounter' \in processCounter .. processCounter + 1
      /\ processCounter' <= MaxProcesses
  BY <1>2
<1>4. /\ calls' \in [Callers -> CallType]
      /\ EngineInv' /\ RequestsInv' /\ ScriptsInv' /\ AnswersInv' /\ CreatedInv'
  BY <1>1, <1>3, TurnKeeps
<1>5. TypeOK'
  BY <1>2, <1>4 DEF TypeOK, engine
<1> QED
  BY <1>4, <1>5

\* Waiting for a request that is not about a process, or about a tracked one.
LEMMA AwaitTurn ==
  ASSUME Inv, NEW c \in Callers, NEW method \in Method,
         NEW request \in Request \ {"none", "startScript"},
         NEW p \in 0 .. MaxProcesses,
         request \in ByOwner => c \in Owners,
         request \in {"stopScript", "statusScript"} => IsTracked(p)
  PROVE  Turn(c, Call(method, request, p))
  BY DEF Turn, Call, CallType

LEMMA NoTurn == \A c \in Callers : Turn(c, NoCall)
  BY DEF Turn

\* The answers of the engine.
LEMMA AnswerStep ==
  ASSUME Inv, NEW c \in Callers, EngineAnswers(c)
  PROVE  Inv'
<1> DEFINE request == calls[c].request
           p == calls[c].process
<1> USE DEF Inv, EnvironmentInv
<1>1. EngineTypes /\ EngineInv /\ calls \in [Callers -> CallType]
  BY DEF TypeOK, EngineTypes
<1>2. request \in Request \ {"none"}
  BY <1>1 DEF EngineAnswers, RequestsInv, CallType
<1>3. PICK o \in Outcomes(request, p) :
        /\ container' = o.container
        /\ os' = o.os
        /\ calls' = [calls EXCEPT ![c].answer = o.answer]
  BY DEF EngineAnswers
<1>4. request \in ByScript => p \in 1 .. processCounter /\ p \in ProcessId
  BY DEF RequestsInv, TypeOK, ProcessId
<1> HIDE DEF request, p
<1>5. Effect(request, p, o) /\ Truthful(request, p, o)
  BY <1>1, <1>2, <1>4, PendingRequest
<1>6. /\ phase' = phase /\ processes' = processes
      /\ processCounter' = processCounter
  BY DEF EngineAnswers, environment
<1>7. o.answer \in EngineAnswer /\ EngineTypes'
  BY <1>3, <1>5 DEF Effect, EngineOutcome, EngineTypes
<1>8. /\ calls' \in [Callers -> CallType]
      /\ \A d \in Callers :
           /\ calls'[d].request = calls[d].request
           /\ calls'[d].process = calls[d].process
           /\ d # c => calls'[d] = calls[d]
      /\ calls'[c].answer = o.answer
  BY <1>1, <1>3, <1>7 DEF CallType, EngineAnswer
<1>9. TypeOK'
  BY <1>6, <1>7, <1>8 DEF TypeOK, EngineTypes
<1>10. EngineInv'
  BY <1>3, <1>5 DEF EngineInv, Effect
<1>11. RequestsInv'
  BY <1>2, <1>6, <1>8 DEF RequestsInv, Idle, request
<1>12. ScriptsInv'
  BY <1>6, <1>8 DEF ScriptsInv, IsTracked
<1>13. CreatedInv'
  BY <1>6, <1>8 DEF CreatedInv
<1>14. \A q \in ProcessId : IsTracked(q) =>
         /\ os[q] # "none" => os'[q] # "none"
         /\ os[q] # "alive" => os'[q] # "alive"
         /\ os[q] \in {"lingering", "finished"} =>
              os'[q] \in {"lingering", "finished"}
  <2>1. request = "startScript" => ~ IsTracked(p)
    BY DEF ScriptsInv, request, p
  <2> QED
    BY <1>3, <1>5, <2>1 DEF Effect
<1>15. TrackedInv'
  <2>1. \A i \in DOMAIN processes :
          processes[i].id \in ProcessId /\ IsTracked(processes[i].id)
    BY EntryFacts DEF TrackedProcess, IsTracked
  <2> QED
    BY <1>6, <1>14, <2>1
       DEF TrackedInv, ProcessIdsDistinct, ExitCodeHonest, KilledIsDead,
           StatusOf, LeaderOf
<1>16. AnswersInv'
  <2>1. ASSUME NEW d \in Callers
        PROVE  LET r == calls'[d].request
                   a == calls'[d].answer
                   q == calls'[d].process
               IN /\ r = "startScript" /\ a = "ok" => os'[q] # "none"
                  /\ r = "stopScript" /\ a = "ok" => os'[q] # "alive"
                  /\ r = "statusScript" /\ a = "exited" =>
                       os'[q] \in {"lingering", "finished"}
                  /\ r \in {"stop", "remove"} /\ a \in {"ok", "missing"} =>
                       container' # "running"
    <3>1. CASE d = c
      BY <3>1, <1>3, <1>5, <1>8 DEF Truthful, request, p
    <3>2. CASE d # c
      <4>1. calls'[d] = calls[d]
        BY <3>2, <1>8
      <4>2. calls[d].request \in ByScript => calls[d].process \in ProcessId
        BY DEF RequestsInv, TypeOK, ProcessId
      <4>3. calls[d].request \in {"stopScript", "statusScript"} =>
              IsTracked(calls[d].process)
        BY DEF ScriptsInv
      <4>4. calls[d].request = "startScript" /\ os[calls[d].process] # "none" =>
              os'[calls[d].process] # "none"
        BY <1>3, <1>5, <4>2 DEF Effect, ByScript
      <4>5. calls[d].request \in {"stop", "remove"} =>
              (container' = "running" => container = "running")
        <5>1. calls[d].request \in ByOwner /\ request = "create" => d = c
          BY OneOwner DEF RequestsInv, ByOwner, request
        <5> QED
          BY <1>3, <1>5, <3>2, <5>1 DEF Effect, ByOwner
      <4> QED
        BY <1>14, <4>1, <4>2, <4>3, <4>4, <4>5 DEF AnswersInv, ByScript
    <3> QED
      BY <3>1, <3>2
  <2> QED
    BY <2>1 DEF AnswersInv
<1> QED
  BY <1>9, <1>10, <1>11, <1>12, <1>13, <1>15, <1>16

\* Processes end, and the container dies.
LEMMA EngineStep ==
  ASSUME Inv, Moves
  PROVE  Inv'
<1> USE DEF Inv, EnvironmentInv
<1>1. EngineTypes /\ EngineInv
  BY DEF TypeOK, EngineTypes
<1>2. /\ phase' = phase /\ processes' = processes /\ calls' = calls
      /\ processCounter' = processCounter
  BY DEF Moves, environment
<1>3. Effect("none", 0, [answer |-> "none", container |-> container', os |-> os'])
  BY <1>1, EngineAlone DEF Moves
<1>4. /\ EngineTypes'
      /\ container' = "running" => container = "running"
      /\ \A q \in ProcessId :
           /\ os[q] # "none" => os'[q] # "none"
           /\ os'[q] \in Live => container' = "running"
           /\ os[q] # "alive" => os'[q] # "alive"
           /\ os[q] \in {"lingering", "finished"} =>
                os'[q] \in {"lingering", "finished"}
  BY <1>3 DEF Effect, EngineOutcome, EngineTypes
<1>5. TypeOK'
  BY <1>2, <1>4 DEF TypeOK, EngineTypes
<1>6. EngineInv'
  BY <1>4 DEF EngineInv
<1>7. RequestsInv' /\ ScriptsInv' /\ CreatedInv'
  BY <1>2 DEF RequestsInv, ScriptsInv, CreatedInv, Idle, IsTracked
<1>8. AnswersInv'
  <2>1. \A d \in Callers :
          calls[d].request \in ByScript => calls[d].process \in ProcessId
    BY DEF RequestsInv, TypeOK, ProcessId
  <2> QED
    BY <1>2, <1>4, <2>1 DEF AnswersInv, ByScript
<1>9. TrackedInv'
  <2>1. \A i \in DOMAIN processes : processes[i].id \in ProcessId
    BY EntryFacts DEF TrackedProcess
  <2> QED
    BY <1>2, <1>4, <2>1
       DEF TrackedInv, ProcessIdsDistinct, ExitCodeHonest, KilledIsDead,
           StatusOf, LeaderOf
<1> QED
  BY <1>5, <1>6, <1>7, <1>8, <1>9

\* A call begins.
LEMMA BeginStep ==
  ASSUME Inv, NEW c \in Callers,
         (c \in Owners /\ OwnerCalls(c)) \/ UserCalls(c)
  PROVE  Inv'
<1> USE DEF Inv, EnvironmentInv
<1>1. ASSUME NEW method \in Method, NEW request \in Request \ {"none", "startScript"},
             NEW p \in 0 .. MaxProcesses,
             request \in ByOwner => c \in Owners,
             request \in {"stopScript", "statusScript"} => IsTracked(p),
             Await(c, method, request, p), UNCHANGED << engine, environment >>
      PROVE  Inv'
  <2>1. Turn(c, Call(method, request, p))
    BY <1>1, AwaitTurn
  <2>2. calls' = [calls EXCEPT ![c] = Call(method, request, p)]
    BY <1>1 DEF Await
  <2>3. /\ processCounter' \in processCounter .. processCounter + 1
        /\ processCounter' <= MaxProcesses
    BY <1>1 DEF environment, TypeOK
  <2> QED
    BY <1>1, <2>1, <2>2, <2>3, QuietStep DEF environment
<1>2. CASE c \in Owners /\ (StartContainer(c) \/ Stop(c) \/ Destroy(c))
  BY <1>1, <1>2 DEF StartContainer, Stop, Destroy, Method, Request, ByOwner
<1>3. CASE DestroyNew(c)
  <2>1. processes = << >>
    BY <1>3 DEF DestroyNew, CreatedInv
  <2>2. processes' = << >>
    BY <1>3, <2>1 DEF DestroyNew, AllKilled
  <2>3. /\ SameIds /\ UNCHANGED << engine, processes >>
        /\ processCounter' \in processCounter .. processCounter + 1
    BY <1>3, <2>1, <2>2 DEF SameIds, DestroyNew, TypeOK
  <2>4. TrackedInv'
    BY <2>3, TrackedKept
  <2>5. calls' = calls /\ container' = container /\ os' = os
        /\ phase' = "destroyed" /\ processCounter' = processCounter
    BY <1>3 DEF DestroyNew, engine
  <2>6. TypeOK'
    BY <2>1, <2>2, <2>5 DEF TypeOK, Phase
  <2>7. EngineInv' /\ RequestsInv' /\ ScriptsInv' /\ AnswersInv' /\ CreatedInv'
    BY <2>1, <2>2, <2>5 DEF EngineInv, RequestsInv, ScriptsInv, AnswersInv,
       CreatedInv, Idle, IsTracked
  <2> QED
    BY <2>4, <2>6, <2>7
<1>4. CASE RunCommand(c) \/ GetState(c)
  BY <1>1, <1>4 DEF RunCommand, GetState, Method, Request, ByOwner
<1>5. CASE StartProcess(c)
  <2>1. /\ processCounter' = processCounter + 1
        /\ processCounter' \in processCounter .. processCounter + 1
        /\ processCounter' \in 1 .. MaxProcesses
        /\ processCounter' <= MaxProcesses
        /\ UNCHANGED << engine, phase, processes >>
    BY <1>5 DEF StartProcess, TypeOK
  <2>2. CASE phase = "running"
    <3>1. calls' = [calls EXCEPT ![c] =
                      Call("startProcess", "startScript", processCounter + 1)]
      BY <1>5, <2>2 DEF StartProcess, Await
    <3>2. Turn(c, Call("startProcess", "startScript", processCounter + 1))
      BY <2>1, <2>2 DEF Turn, Call, CallType, Method, Request, ByOwner
    <3> QED
      BY <2>1, <3>1, <3>2, QuietStep
  <2>3. CASE phase # "running"
    <3>1. calls' = [calls EXCEPT ![c] = NoCall]
      BY <1>5, <2>3 DEF StartProcess, Idle, TypeOK
    <3> QED
      BY <2>1, <3>1, NoTurn, QuietStep
  <2> QED
    BY <2>2, <2>3
<1>6. ASSUME NEW p \in ProcessId, StopProcess(c, p)
      PROVE  Inv'
  BY <1>1, <1>6 DEF StopProcess, Method, Request, ByOwner, ProcessId
<1> QED
  BY <1>2, <1>3, <1>4, <1>5, <1>6 DEF OwnerCalls, UserCalls

\* A call returns without a change.
LEMMA ReturnStep ==
  ASSUME Inv, NEW c \in Callers, Return(c), UNCHANGED << engine, environment >>
  PROVE  Inv'
<1>1. calls' = [calls EXCEPT ![c] = NoCall]
  BY DEF Return
<1>2. /\ processCounter' \in processCounter .. processCounter + 1
      /\ processCounter' <= MaxProcesses
      /\ phase' = phase /\ processes' = processes
  BY DEF environment, Inv, TypeOK
<1> QED
  BY <1>1, <1>2, NoTurn, QuietStep

\* A call that was answered returns, or asks for the next thing.
LEMMA QuietContinues ==
  ASSUME Inv, NEW c \in Callers,
         \/ CreateContainer(c) \/ StartFails(c) \/ CommandReturns(c)
         \/ ProcessNotStarted(c) \/ StopProcessFails(c)
         \/ RefreshFails(c) \/ StopOrDestroyFails(c)
         \/ NothingToStop(c)
  PROVE  Inv'
<1> USE DEF Inv, EnvironmentInv
<1>1. CASE \/ StartFails(c) \/ CommandReturns(c)
           \/ ProcessNotStarted(c) \/ StopProcessFails(c)
           \/ RefreshFails(c) \/ StopOrDestroyFails(c)
  BY <1>1, ReturnStep DEF StartFails, CommandReturns, ProcessNotStarted,
     StopProcessFails, RefreshFails, StopOrDestroyFails
<1>2. /\ UNCHANGED environment =>
           /\ UNCHANGED << phase, processes >>
           /\ processCounter' \in processCounter .. processCounter + 1
           /\ processCounter' <= MaxProcesses
  BY DEF environment, TypeOK
<1>3. CASE CreateContainer(c)
  <2>1. c \in Owners
    BY <1>3 DEF CreateContainer, Answer, RequestsInv, ByOwner
  <2>2. Turn(c, Call("startContainer", "create", 0))
    BY <2>1, AwaitTurn DEF Method, Request, TypeOK
  <2> QED
    BY <1>2, <1>3, <2>2, QuietStep DEF CreateContainer, Await
<1>4. CASE NothingToStop(c)
  <2>1. /\ IsTracked(calls[c].process) /\ calls[c].process \in 0 .. MaxProcesses
        /\ UNCHANGED << engine, environment >>
    BY <1>4 DEF NothingToStop, Answer, ScriptsInv, TypeOK, CallType
  <2>2. Turn(c, Call("stopProcess", "statusScript", calls[c].process))
    BY <2>1, AwaitTurn DEF Method, Request, ByOwner
  <2>3. CASE Return(c)
    BY <2>1, <2>3, ReturnStep
  <2>4. CASE Await(c, "stopProcess", "statusScript", calls[c].process)
    BY <1>2, <2>1, <2>2, <2>4, QuietStep DEF Await
  <2> QED
    BY <1>4, <2>3, <2>4 DEF NothingToStop
<1> QED
  BY <1>1, <1>3, <1>4

Asked(c) == calls[c].request \in {"stopScript", "statusScript"}

ReportOf(p, t) == t.id = p /\ Report(t)

Replaced(i, t) == processes' = [processes EXCEPT ![i] = t]

\* A script about a tracked process has been answered: its report is replaced.
LEMMA ReportReplaced ==
  ASSUME Inv, NEW c \in Callers, NEW call, NEW t,
         Asked(c), ReportOf(calls[c].process, t),
         Replaced(Tracked(calls[c].process), t),
         UNCHANGED << engine, phase, processCounter >>,
         Turn(c, call), calls' = [calls EXCEPT ![c] = call]
  PROVE  Inv'
<1> USE DEF Inv, EnvironmentInv, Asked, ReportOf, Replaced
<1>1. IsTracked(calls[c].process)
  BY DEF ScriptsInv
<1>2. /\ Tracked(calls[c].process) \in DOMAIN processes
      /\ processes[Tracked(calls[c].process)].id = calls[c].process
  BY <1>1, TrackedFacts
<1>3. processes' \in Seq(TrackedProcess) /\ SameIds /\ TrackedInv'
  BY <1>2, OneReport
<1>4. phase' \in Phase /\ (phase' = "created" => phase = "created")
  BY DEF TypeOK
<1> QED
  BY <1>3, <1>4, ReportStep

\* A report is a report of its process.
LEMMA StateFacts ==
  ASSUME NEW p \in ProcessId, NEW s \in ProcessStatus, NEW b \in BOOLEAN
  PROVE  /\ State(p, s, b) \in TrackedProcess
         /\ State(p, s, b).id = p
         /\ State(p, s, b).status = s
         /\ State(p, s, b).withCode = b
  BY DEF State, TrackedProcess

\* The report a stopProcess leaves.
LEMMA StoppedStep ==
  ASSUME Inv, NEW c \in Callers, ProcessStopped(c)
  PROVE  Inv'
<1> DEFINE p == calls[c].process
           t == State(p, "killed", FALSE)
<1>1. Asked(c) /\ IsTracked(p) /\ os[p] # "alive"
  BY DEF ProcessStopped, Answer, Asked, Inv, EnvironmentInv, ScriptsInv, AnswersInv
<1>2. p \in ProcessId
  BY <1>1, TrackedFacts DEF Inv, EnvironmentInv
<1>3. ReportOf(p, t)
  BY <1>1, <1>2, StateFacts DEF ReportOf, Report, ProcessStatus
<1>4. Replaced(Tracked(p), t)
  BY DEF Replaced, ProcessStopped
<1>5. calls' = [calls EXCEPT ![c] = NoCall] /\ Turn(c, NoCall)
  BY NoTurn DEF ProcessStopped, Return
<1>6. UNCHANGED << engine, phase, processCounter >>
  BY DEF ProcessStopped
<1> HIDE DEF t
<1> QED
  BY <1>1, <1>3, <1>4, <1>5, <1>6, ReportReplaced

\* The report a status script leaves, whatever the call then turns to.
LEMMA RefreshStep ==
  ASSUME Inv, NEW c \in Callers, NEW call, Turn(c, call),
         calls[c].request = "statusScript", calls[c].answer \in Words,
         processes' = RefreshedProcesses(c),
         UNCHANGED << engine, phase, processCounter >>,
         calls' = [calls EXCEPT ![c] = call]
  PROVE  Inv'
<1> DEFINE i == Tracked(calls[c].process)
           t == Refreshed(processes[i], calls[c].answer)
<1>1. /\ Asked(c) /\ IsTracked(calls[c].process)
      /\ calls[c].answer = "exited" =>
           os[calls[c].process] \in {"lingering", "finished"}
  BY DEF Asked, Inv, EnvironmentInv, ScriptsInv, AnswersInv
<1>2. /\ i \in DOMAIN processes /\ processes[i].id = calls[c].process
      /\ calls[c].process \in ProcessId
  BY <1>1, TrackedFacts DEF Inv, EnvironmentInv
<1>3. Report(processes[i])
  BY <1>2, ReportsHold DEF Inv, EnvironmentInv
<1>4. Replaced(i, t)
  BY <1>2 DEF Replaced, RefreshedProcesses
<1>5. ReportOf(calls[c].process, t)
  <2>1. CASE calls[c].answer = "running"
    BY <2>1, <1>2, <1>3 DEF Refreshed, ReportOf
  <2>2. CASE calls[c].answer = "exited"
    <3>1. t = State(calls[c].process, "exited", TRUE)
      BY <2>2, <1>2, Zenon DEF Refreshed
    <3>2. /\ State(calls[c].process, "exited", TRUE).id = calls[c].process
          /\ State(calls[c].process, "exited", TRUE).status = "exited"
          /\ State(calls[c].process, "exited", TRUE) \in TrackedProcess
      BY <1>2 DEF State, TrackedProcess, ProcessStatus
    <3> QED
      BY <3>1, <3>2, <2>2, <1>1 DEF ReportOf, Report
  <2>3. CASE calls[c].answer \notin {"running", "exited"}
    <3>1. t = State(calls[c].process, "exited", FALSE)
      BY <2>3, <1>2, Zenon DEF Refreshed
    <3>2. /\ State(calls[c].process, "exited", FALSE).id = calls[c].process
          /\ State(calls[c].process, "exited", FALSE).status = "exited"
          /\ State(calls[c].process, "exited", FALSE).withCode = FALSE
          /\ State(calls[c].process, "exited", FALSE) \in TrackedProcess
      BY <1>2 DEF State, TrackedProcess, ProcessStatus
    <3> QED
      BY <3>1, <3>2 DEF ReportOf, Report
  <2> QED
    BY <2>1, <2>2, <2>3
<1> HIDE DEF t
<1> QED
  BY <1>1, <1>4, <1>5, ReportReplaced

\* A set of natural numbers has a least member.
LEMMA SmallestInSet ==
  ASSUME NEW S \in SUBSET Nat, S # {}
  PROVE  \E j \in S : \A k \in S : j <= k
<1>1. PICK j \in S : \A k \in S : ~ (<< k, j >> \in OpToRel(<, Nat))
  BY NatLessThanWellFounded, WFMin
<1>2. \A k \in S : ~ (k < j)
  BY <1>1 DEF OpToRel
<1> QED
  BY <1>2

\* The loop of getState turns to a tracked process, or ends.
LEMMA LoopTurn ==
  ASSUME Inv, NEW c \in Callers, NEW ps \in Seq(TrackedProcess), NEW i \in Nat \ {0},
         \A j \in DOMAIN ps : IsTracked(ps[j].id),
         RefreshFrom(c, ps, i)
  PROVE  \E call : Turn(c, call) /\ calls' = [calls EXCEPT ![c] = call]
<1> DEFINE rest == {j \in i .. Len(ps) : ps[j].status = "running"}
           next == CHOOSE j \in rest : \A k \in rest : j <= k
<1>1. CASE rest = {} \/ phase # "running"
  <2>1. calls' = [calls EXCEPT ![c] = NoCall]
    BY <1>1 DEF RefreshFrom, Return
  <2> QED
    BY <2>1, NoTurn
<1>2. CASE rest # {} /\ phase = "running"
  <2>1. /\ rest \subseteq Nat
        /\ \A j \in rest : j \in DOMAIN ps
    OBVIOUS
  <2>2. next \in rest
    <3>1. \E j \in rest : \A k \in rest : j <= k
      BY <1>2, <2>1, SmallestInSet
    <3> QED
      BY <3>1
  <2>3. ps[next] \in TrackedProcess /\ IsTracked(ps[next].id)
    BY <2>1, <2>2
  <2>4. ps[next].id \in 0 .. MaxProcesses
    BY <2>3 DEF TrackedProcess, ProcessId
  <2>5. Turn(c, Call("getState", "statusScript", ps[next].id))
    BY <2>3, <2>4, AwaitTurn DEF Method, Request, ByOwner
  <2>6. calls' = [calls EXCEPT ![c] = Call("getState", "statusScript", ps[next].id)]
    BY <1>2 DEF RefreshFrom, Await
  <2> QED
    BY <2>5, <2>6
<1> QED
  BY <1>1, <1>2

\* A refreshed map holds reports of the same processes.
LEMMA RefreshedSame ==
  ASSUME Inv, NEW c \in Callers, calls[c].request = "statusScript"
  PROVE  /\ RefreshedProcesses(c) \in Seq(TrackedProcess)
         /\ \A j \in DOMAIN RefreshedProcesses(c) :
              IsTracked(RefreshedProcesses(c)[j].id)
<1> DEFINE i == Tracked(calls[c].process)
           t == Refreshed(processes[i], calls[c].answer)
<1>1. IsTracked(calls[c].process)
  BY DEF Inv, EnvironmentInv, ScriptsInv
<1>2. /\ i \in DOMAIN processes /\ processes[i].id = calls[c].process
      /\ calls[c].process \in ProcessId /\ processes[i] \in TrackedProcess
  BY <1>1, TrackedFacts DEF Inv, EnvironmentInv
<1>3. t \in TrackedProcess /\ t.id = processes[i].id
  <2>1. \A b \in BOOLEAN :
          /\ State(processes[i].id, "exited", b) \in TrackedProcess
          /\ State(processes[i].id, "exited", b).id = processes[i].id
    BY <1>2 DEF State, TrackedProcess, ProcessStatus
  <2>2. \/ t = processes[i]
        \/ t = State(processes[i].id, "exited", TRUE)
        \/ t = State(processes[i].id, "exited", FALSE)
    BY Zenon DEF Refreshed
  <2> HIDE DEF t
  <2> QED
    BY <1>2, <2>1, <2>2
<1>4. RefreshedProcesses(c) = [processes EXCEPT ![i] = t]
  BY <1>2 DEF RefreshedProcesses
<1>5. processes \in Seq(TrackedProcess)
  BY DEF Inv, TypeOK
<1> HIDE DEF i, t
<1>6. \A j \in DOMAIN processes : [processes EXCEPT ![i] = t][j].id = processes[j].id
  BY <1>2, <1>3
<1> QED
  BY <1>2, <1>3, <1>4, <1>5, <1>6 DEF IsTracked

\* The loop of getState, and the refresh at the end of a stopProcess.
LEMMA RefreshContinues ==
  ASSUME Inv, NEW c \in Callers,
         Inspected(c) \/ StateRefreshed(c) \/ StopRefreshed(c)
  PROVE  Inv'
<1>1. CASE Inspected(c)
  <2>1. UNCHANGED << engine, environment >>
    BY <1>1 DEF Inspected
  <2>2. CASE Return(c)
    BY <2>1, <2>2, ReturnStep
  <2>3. CASE RefreshFrom(c, processes, 1)
    <3>1. /\ processes \in Seq(TrackedProcess)
          /\ \A j \in DOMAIN processes : IsTracked(processes[j].id)
      BY DEF Inv, TypeOK, IsTracked
    <3>2. PICK call : Turn(c, call) /\ calls' = [calls EXCEPT ![c] = call]
      BY <2>3, <3>1, LoopTurn
    <3>3. /\ UNCHANGED << engine, phase, processes >>
          /\ processCounter' \in processCounter .. processCounter + 1
          /\ processCounter' <= MaxProcesses
      BY <2>1 DEF environment, Inv, TypeOK
    <3> QED
      BY <3>2, <3>3, QuietStep
  <2> QED
    BY <1>1, <2>2, <2>3 DEF Inspected
<1>2. CASE StateRefreshed(c)
  <2>1. /\ calls[c].request = "statusScript" /\ calls[c].answer \in Words
        /\ processes' = RefreshedProcesses(c)
        /\ UNCHANGED << engine, phase, processCounter >>
        /\ RefreshFrom(c, RefreshedProcesses(c), Tracked(calls[c].process) + 1)
    BY <1>2 DEF StateRefreshed, Answer
  <2>2. /\ RefreshedProcesses(c) \in Seq(TrackedProcess)
        /\ \A j \in DOMAIN RefreshedProcesses(c) :
             IsTracked(RefreshedProcesses(c)[j].id)
    BY <2>1, RefreshedSame
  <2>3. Tracked(calls[c].process) + 1 \in Nat \ {0}
    <3>1. Tracked(calls[c].process) \in DOMAIN processes
      BY <2>1, TrackedFacts DEF Inv, EnvironmentInv, ScriptsInv
    <3>2. Tracked(calls[c].process) \in Nat
      BY <3>1, EntryFacts DEF Inv, EnvironmentInv
    <3> QED
      BY <3>2
  <2>4. PICK call : Turn(c, call) /\ calls' = [calls EXCEPT ![c] = call]
    BY <2>1, <2>2, <2>3, LoopTurn
  <2> QED
    BY <2>1, <2>4, RefreshStep
<1>3. CASE StopRefreshed(c)
  <2>1. /\ calls[c].request = "statusScript" /\ calls[c].answer \in Words
        /\ processes' = RefreshedProcesses(c)
        /\ UNCHANGED << engine, phase, processCounter >>
        /\ calls' = [calls EXCEPT ![c] = NoCall]
    BY <1>3 DEF StopRefreshed, Answer, Return
  <2> QED
    BY <2>1, NoTurn, RefreshStep
<1> QED
  BY <1>1, <1>2, <1>3

\* The lifecycle calls that succeed.
LEMMA OwnerContinues ==
  ASSUME Inv, NEW c \in Callers, ContainerStarted(c) \/ Stopped(c) \/ Destroyed(c)
  PROVE  Inv'
<1>1. /\ calls' = [calls EXCEPT ![c] = NoCall] /\ Turn(c, NoCall)
      /\ UNCHANGED << engine, processCounter >>
      /\ phase' \in Phase /\ phase' # "created"
  BY NoTurn DEF ContainerStarted, Stopped, Destroyed, Return, Phase
<1>2. TypeOK /\ TrackedInv /\ processes \in Seq(TrackedProcess)
  BY DEF Inv, EnvironmentInv, TypeOK
<1>3. CASE ContainerStarted(c)
  <2>1. processes' = processes
    BY <1>3 DEF ContainerStarted
  <2>2. SameIds
    BY <2>1 DEF SameIds
  <2>3. processCounter' \in processCounter .. processCounter + 1
    BY <1>1, <1>2 DEF TypeOK
  <2>4. UNCHANGED << engine, processes >>
    BY <1>1, <2>1
  <2>5. TrackedInv'
    BY <1>2, <2>3, <2>4, TrackedKept
  <2>6. processes' \in Seq(TrackedProcess)
    BY <1>2, <2>1
  <2> QED
    BY <1>1, <2>2, <2>5, <2>6, ReportStep
<1>4. CASE Stopped(c) \/ Destroyed(c)
  <2>1. /\ processes' = AllKilled
        /\ calls[c].request \in {"stop", "remove"}
        /\ calls[c].answer \in {"ok", "missing"}
    BY <1>4 DEF Stopped, Destroyed, Answer
  <2>2. container # "running"
    BY <2>1 DEF Inv, EnvironmentInv, AnswersInv
  <2>3. \A p \in ProcessId : os[p] \notin Live
    BY <2>2 DEF Inv, EnvironmentInv, EngineInv
  <2>4. processes' \in Seq(TrackedProcess) /\ SameIds /\ TrackedInv'
    BY <1>1, <1>2, <2>1, <2>3, AllKilledKeeps
  <2> QED
    BY <1>1, <2>4, ReportStep
<1> QED
  BY <1>3, <1>4

\* The pid has arrived: the process is tracked under the id its call drew.
LEMMA StartedStep ==
  ASSUME Inv, NEW c \in Callers, ProcessStarted(c)
  PROVE  Inv'
<1> DEFINE p == calls[c].process
           n == Len(processes)
           t == State(p, "running", FALSE)
<1> USE DEF Inv, EnvironmentInv
<1>1. calls[c].request = "startScript" /\ calls[c].answer = "ok"
  BY DEF ProcessStarted, Answer
<1>2. /\ p \in 1 .. processCounter /\ p \in ProcessId
      /\ ~ IsTracked(p) /\ os[p] # "none"
  BY <1>1 DEF RequestsInv, ByScript, ScriptsInv, AnswersInv, TypeOK, ProcessId
<1>3. phase # "created"
  BY <1>1 DEF CreatedInv
<1>4. /\ container' = container /\ os' = os /\ phase' = phase
      /\ processCounter' = processCounter
  BY DEF ProcessStarted, engine
<1>5. processes \in Seq(TrackedProcess) /\ n \in Nat
  BY DEF TypeOK
<1>6. /\ t \in TrackedProcess /\ t.id = p /\ t.status = "running"
      /\ t.withCode = FALSE
  BY <1>2 DEF State, TrackedProcess, ProcessStatus
<1>7. processes' = Append(processes, t)
  BY DEF ProcessStarted
<1> HIDE DEF p, t
<1>8. /\ processes' \in Seq(TrackedProcess)
      /\ DOMAIN processes = 1 .. n
      /\ DOMAIN processes' = 1 .. n + 1
      /\ \A i \in 1 .. n : processes'[i] = processes[i]
      /\ processes'[n + 1] = t
  BY <1>5, <1>6, <1>7
<1>9. \A q : IsTracked(q)' => IsTracked(q) \/ q = p
  <2> SUFFICES ASSUME NEW q, NEW i \in DOMAIN processes', processes'[i].id = q
               PROVE  IsTracked(q) \/ q = p
    BY DEF IsTracked
  <2> QED
    BY <1>5, <1>6, <1>8 DEF IsTracked
<1>10. \A q : IsTracked(q) => IsTracked(q)'
  <2> SUFFICES ASSUME NEW q, NEW i \in DOMAIN processes, processes[i].id = q
               PROVE  IsTracked(q)'
    BY DEF IsTracked
  <2>1. i \in DOMAIN processes' /\ processes'[i].id = q
    BY <1>5, <1>8
  <2> QED
    BY <2>1 DEF IsTracked
<1>11. /\ calls' \in [Callers -> CallType]
       /\ calls'[c] = NoCall
       /\ \A d \in Callers : d # c => calls'[d] = calls[d]
  BY NoCallType DEF ProcessStarted, Return, TypeOK
<1>12. NoCall.request = "none"
  BY DEF NoCall, Call
<1>13. TypeOK'
  BY <1>4, <1>8, <1>11 DEF TypeOK
<1>14. EngineInv' /\ CreatedInv'
  BY <1>3, <1>4 DEF EngineInv, CreatedInv
<1>15. RequestsInv' /\ AnswersInv'
  BY <1>4, <1>11, <1>12 DEF RequestsInv, AnswersInv, Idle, ByScript, ByOwner
<1>16. ScriptsInv'
  BY <1>1, <1>9, <1>10, <1>11, <1>12 DEF ScriptsInv, p
<1>17. TrackedInv'
  <2>1. \A i \in 1 .. n : processes[i].id # p
    BY <1>2, <1>8 DEF IsTracked
  <2>2. \A i \in DOMAIN processes' : i \in 1 .. n \/ i = n + 1
    BY <1>5, <1>8
  <2>3. \A i \in DOMAIN processes' : processes'[i].id <= processCounter'
    <3>1. p <= processCounter
      BY <1>2
    <3> QED
      BY <3>1, <1>4, <1>6, <1>8, <2>2 DEF TrackedInv
  <2>4. ProcessIdsDistinct'
    <3>1. ASSUME NEW i \in DOMAIN processes', NEW j \in DOMAIN processes',
                 processes'[i].id = processes'[j].id
          PROVE  i = j
      BY <3>1, <1>6, <1>8, <2>1, <2>2 DEF TrackedInv, ProcessIdsDistinct
    <3>2. ASSUME NEW i \in DOMAIN processes'
          PROVE  os'[processes'[i].id] # "none"
      BY <3>2, <1>2, <1>4, <1>6, <1>8, <2>2
         DEF TrackedInv, ProcessIdsDistinct, LeaderOf
    <3> QED
      BY <3>1, <3>2 DEF ProcessIdsDistinct, LeaderOf
  <2>5. ASSUME NEW i \in DOMAIN processes'
        PROVE  /\ processes'[i].withCode =>
                    /\ processes'[i].status = "exited"
                    /\ os'[processes'[i].id] \in {"lingering", "finished"}
               /\ processes'[i].status = "killed" =>
                    os'[processes'[i].id] # "alive"
    <3>1. CASE i = n + 1
      BY <3>1, <1>6, <1>8
    <3>2. CASE i \in 1 .. n
      <4>1. Report(processes[i])
        BY <3>2, <1>8, ReportsHold
      <4> QED
        BY <3>2, <4>1, <1>4, <1>8 DEF Report
    <3> QED
      BY <3>1, <3>2, <2>2
  <2>6. ExitCodeHonest' /\ KilledIsDead'
    BY <2>5 DEF ExitCodeHonest, KilledIsDead, StatusOf, LeaderOf
  <2> QED
    BY <2>3, <2>4, <2>6 DEF TrackedInv
<1> QED
  BY <1>13, <1>14, <1>15, <1>16, <1>17

LEMMA InvStep == Inv /\ [Next]_vars => Inv'
<1> SUFFICES ASSUME Inv, [Next]_vars
             PROVE  Inv'
  OBVIOUS
<1>1. ASSUME NEW c \in Callers, (c \in Owners /\ OwnerCalls(c)) \/ UserCalls(c)
      PROVE  Inv'
  BY <1>1, BeginStep
<1>2. ASSUME NEW c \in Callers, EngineAnswers(c)
      PROVE  Inv'
  BY <1>2, AnswerStep
<1>3. ASSUME NEW c \in Callers, Continues(c)
      PROVE  Inv'
  BY <1>3, QuietContinues, RefreshContinues, OwnerContinues, StartedStep,
     StoppedStep DEF Continues
<1>4. CASE Moves
  BY <1>4, EngineStep
<1>5. CASE UNCHANGED vars
  BY <1>5 DEF vars, Inv, EnvironmentInv, TypeOK, EngineInv, RequestsInv,
     ScriptsInv, AnswersInv, CreatedInv, TrackedInv, ProcessIdsDistinct,
     ExitCodeHonest, KilledIsDead, StatusOf, LeaderOf, Idle, IsTracked
<1> QED
  BY <1>1, <1>2, <1>3, <1>4, <1>5 DEF Next, Progress

-----------------------------------------------------------------------------
(* The theorems.                                                           *)

\* Every variable of the environment and of its engine keeps its type.
THEOREM EnvironmentTypes == Spec => []TypeOK
<1>1. Inv => TypeOK
  BY DEF Inv
<1> QED
  BY <1>1, InvInit, InvStep, PTL DEF Spec

\* No two processes ever share an id, however many callers start them at once,
\* and every tracked process has been started (startProcess).
THEOREM EnvironmentProcessIdsDistinct == Spec => []ProcessIdsDistinct
<1>1. Inv => ProcessIdsDistinct
  BY DEF Inv, EnvironmentInv, TrackedInv
<1> QED
  BY <1>1, InvInit, InvStep, PTL DEF Spec

\* An exit code is only ever reported of a process that wrote one
\* (refreshProcess, stopProcess).
THEOREM EnvironmentExitCodeHonest == Spec => []ExitCodeHonest
<1>1. Inv => ExitCodeHonest
  BY DEF Inv, EnvironmentInv, TrackedInv
<1> QED
  BY <1>1, InvInit, InvStep, PTL DEF Spec

\* The leader of a process reported killed is dead, whatever calls and faults
\* there were (stopProcess, stop, destroy).
THEOREM EnvironmentKilledIsDead == Spec => []KilledIsDead
<1>1. Inv => KilledIsDead
  BY DEF Inv, EnvironmentInv, TrackedInv
<1> QED
  BY <1>1, InvInit, InvStep, PTL DEF Spec


-----------------------------------------------------------------------------
(* One call at a time, as the agent loop makes them: with one caller nothing *)
(* comes between a request and what the method makes of the answer.          *)

OneCaller == \A c, d \in Callers : c = d

\* The client of an exec is not killed at its deadline, and no docker run
\* fails after it created the container.
NothingHalfKnown == Faults \cap {"hung", "halfCreated"} = {}

\* While a call waits the phase stays what it was when the method asked for it,
\* and so does the report of the process it asks about.
Awaited(call) ==
  /\ call.request \in {"image", "create"} => phase \in {"created", "stopped"}
  /\ call.request \in ByScript \cup {"stop"} => phase = "running"
  /\ call.request = "remove" => phase \in {"running", "stopped"}
  /\ call.request = "statusScript" =>
       \A i \in DOMAIN processes :
         processes[i].id = call.process => processes[i].status = "running"

AwaitedInv == \A c \in Callers : Awaited(calls[c])

\* What an answer of the engine says is all there is to know.
Known(call) ==
  /\ call.request = "remove" /\ call.answer \in {"ok", "missing"} =>
       container = "absent"
  /\ call.request = "startScript" /\ call.answer # "ok" => os[call.process] = "none"
  /\ call.request = "statusScript" =>
       /\ call.answer # "silent"
       /\ call.answer \in {"exited", "gone"} => os[call.process] # "alive"

KnownInv == \A c \in Callers : Known(calls[c])

\* While the environment is not running nothing lives, and nothing is reported
\* running; the container exists only from its creation on.
DownInv ==
  /\ phase # "running" =>
       /\ \A i \in DOMAIN processes : processes[i].status # "running"
       /\ \A p \in ProcessId : os[p] \notin Live
  /\ phase = "destroyed" => container = "absent"
  /\ phase = "created" /\ container # "absent" =>
       \E c \in Callers : calls[c].request = "create" /\ calls[c].answer = "ok"

\* Only ids that were drawn have processes.
StartsInv == \A p \in ProcessId : p > processCounter => os[p] = "none"


-----------------------------------------------------------------------------
(* With one caller a request is awaited in the phase it was made in.        *)

\* A call that begins, goes on or ends leaves the report of what it asks about.
LEMMA AwaitedTurn ==
  ASSUME OneCaller, TypeOK, NEW c \in Callers, NEW call,
         calls' = [calls EXCEPT ![c] = call], Awaited(call)'
  PROVE  AwaitedInv'
  BY DEF OneCaller, TypeOK, AwaitedInv

LEMMA NothingAwaited == Awaited(NoCall) /\ Awaited(NoCall)'
  BY DEF Awaited, NoCall, Call, ByScript

LEMMA ReturnAwaited ==
  ASSUME OneCaller, TypeOK, NEW c \in Callers, Return(c)
  PROVE  AwaitedInv'
  BY AwaitedTurn, NothingAwaited DEF Return

\* The next process the loop of getState asks about is one reported running.
LEMMA LoopAwaited ==
  ASSUME OneCaller, TypeOK, Inv', NEW c \in Callers, NEW i \in Nat \ {0},
         phase' = phase, RefreshFrom(c, processes', i)
  PROVE  AwaitedInv'
<1> DEFINE rest == {j \in i .. Len(processes') : processes'[j].status = "running"}
           next == CHOOSE j \in rest : \A k \in rest : j <= k
<1>1. CASE rest = {} \/ phase # "running"
  BY <1>1, ReturnAwaited DEF RefreshFrom
<1>2. CASE rest # {} /\ phase = "running"
  <2>1. processes' \in Seq(TrackedProcess)
    BY DEF Inv, TypeOK
  <2>2. rest \subseteq Nat /\ \A j \in rest : j \in DOMAIN processes'
    BY <2>1
  <2>3. next \in rest
    <3>1. \E j \in rest : \A k \in rest : j <= k
      BY <1>2, <2>2, SmallestInSet
    <3> QED
      BY <3>1
  <2>4. PICK n \in DOMAIN processes' :
          /\ processes'[n].status = "running"
          /\ calls' = [calls EXCEPT ![c] = Call("getState", "statusScript", processes'[n].id)]
    BY <1>2, <2>2, <2>3 DEF RefreshFrom, Await
  <2>5. \A j \in DOMAIN processes' : processes'[j].id = processes'[n].id => j = n
    BY DEF Inv, EnvironmentInv, TrackedInv, ProcessIdsDistinct
  <2>6. PICK call : call = Call("getState", "statusScript", processes'[n].id)
    OBVIOUS
  <2>7. call.request = "statusScript" /\ call.process = processes'[n].id
    BY <2>6 DEF Call
  <2>8. Awaited(call)'
    BY <1>2, <2>4, <2>5, <2>7 DEF Awaited, ByScript
  <2> QED
    BY <2>4, <2>6, <2>8, AwaitedTurn
<1> QED
  BY <1>1, <1>2

LEMMA BeginAwaited ==
  ASSUME OneCaller, Inv, AwaitedInv, NEW c \in Callers, OwnerCalls(c) \/ UserCalls(c)
  PROVE  AwaitedInv'
<1>1. ASSUME NEW method, NEW request, NEW p, Await(c, method, request, p),
             UNCHANGED << phase, processes >>,
             request \in {"image", "command", "startScript", "stopScript", "inspect",
                         "stop", "remove"},
             request = "image" => phase \in {"created", "stopped"},
             request \in {"startScript", "stopScript", "stop"} => phase = "running",
             request = "remove" => phase \in {"running", "stopped"}
      PROVE  AwaitedInv'
  <2>1. PICK call : call = Call(method, request, p)
    OBVIOUS
  <2>2. call.request = request
    BY <2>1 DEF Call
  <2>3. Awaited(call)'
    BY <1>1, <2>2 DEF Awaited, ByScript
  <2> QED
    BY <1>1, <2>1, <2>3, AwaitedTurn DEF Await, Inv
<1>2. phase \in Phase
  BY DEF Inv, TypeOK
<1>3. CASE StartContainer(c) \/ Stop(c) \/ Destroy(c)
  BY <1>1, <1>2, <1>3 DEF StartContainer, Stop, Destroy, environment, Phase
<1>4. CASE RunCommand(c) \/ GetState(c) \/ \E p \in ProcessId : StopProcess(c, p)
  BY <1>1, <1>4 DEF RunCommand, GetState, StopProcess, environment
<1>5. CASE DestroyNew(c)
  <2>1. calls[c] = NoCall /\ calls' = calls
    BY <1>5 DEF DestroyNew, Idle
  <2>2. \A d \in Callers : calls'[d] = NoCall
    BY <2>1 DEF OneCaller
  <2> QED
    BY <2>2, NothingAwaited DEF AwaitedInv
<1>6. CASE StartProcess(c)
  <2>1. CASE phase = "running"
    BY <1>1, <1>6, <2>1 DEF StartProcess
  <2>2. CASE phase # "running"
    <3>1. calls' = calls /\ phase' = phase /\ processes' = processes
      BY <1>6, <2>2 DEF StartProcess
    <3> QED
      BY <3>1 DEF AwaitedInv, Awaited
  <2> QED
    BY <2>1, <2>2
<1> QED
  BY <1>3, <1>4, <1>5, <1>6 DEF OwnerCalls, UserCalls

LEMMA ContinueAwaited ==
  ASSUME OneCaller, Inv, Inv', AwaitedInv, NEW c \in Callers, Continues(c)
  PROVE  AwaitedInv'
<1>1. TypeOK
  BY DEF Inv
<1>2. CASE Return(c)
  BY <1>1, <1>2, ReturnAwaited
<1>3. CASE CreateContainer(c)
  <2>1. calls[c].request = "image"
    BY <1>3 DEF CreateContainer, Answer
  <2>2. PICK call : call = Call("startContainer", "create", 0)
    OBVIOUS
  <2>3. call.request = "create" /\ phase' = phase /\ phase \in {"created", "stopped"}
    BY <1>3, <2>1, <2>2 DEF Call, CreateContainer, environment, AwaitedInv, Awaited
  <2>4. Awaited(call)'
    BY <2>3 DEF Awaited, ByScript
  <2> QED
    BY <1>1, <1>3, <2>2, <2>4, AwaitedTurn DEF CreateContainer, Await
<1>4. CASE NothingToStop(c) /\ ~ Return(c)
  <2>1. /\ calls[c].request = "stopScript" /\ phase' = phase /\ processes' = processes
        /\ processes[Tracked(calls[c].process)].status = "running" /\ phase = "running"
        /\ Await(c, "stopProcess", "statusScript", calls[c].process)
    BY <1>4 DEF NothingToStop, Answer, environment
  <2>2. PICK call : call = Call("stopProcess", "statusScript", calls[c].process)
    OBVIOUS
  <2>3. call.request = "statusScript" /\ call.process = calls[c].process
    BY <2>2 DEF Call
  <2>4. IsTracked(calls[c].process)
    BY <2>1 DEF Inv, EnvironmentInv, ScriptsInv
  <2>5. \A i \in DOMAIN processes :
          processes[i].id = calls[c].process => i = Tracked(calls[c].process)
    BY <2>4, TrackedFacts DEF Inv, EnvironmentInv, TrackedInv, ProcessIdsDistinct
  <2>6. Awaited(call)'
    BY <2>1, <2>3, <2>5 DEF Awaited, ByScript
  <2> QED
    BY <1>1, <2>1, <2>2, <2>6, AwaitedTurn DEF Await
<1>5. CASE Inspected(c) /\ ~ Return(c)
  <2>1. RefreshFrom(c, processes', 1) /\ phase' = phase
    BY <1>5 DEF Inspected, environment
  <2> QED
    BY <1>1, <2>1, LoopAwaited
<1>6. CASE StateRefreshed(c)
  <2>1. /\ calls[c].request = "statusScript" /\ phase' = phase
        /\ RefreshFrom(c, processes', Tracked(calls[c].process) + 1)
    BY <1>6 DEF StateRefreshed, Answer
  <2>2. Tracked(calls[c].process) + 1 \in Nat \ {0}
    <3>1. Tracked(calls[c].process) \in DOMAIN processes
      BY <2>1, TrackedFacts DEF Inv, EnvironmentInv, ScriptsInv
    <3>2. Tracked(calls[c].process) \in Nat
      BY <3>1, EntryFacts DEF Inv, EnvironmentInv
    <3> QED
      BY <3>2
  <2> QED
    BY <1>1, <2>1, <2>2, LoopAwaited
<1> QED
  BY <1>2, <1>3, <1>4, <1>5, <1>6
     DEF Continues, ContainerStarted, StartFails, CommandReturns, ProcessStarted, ProcessNotStarted,
         ProcessStopped, NothingToStop, StopProcessFails, StopRefreshed, RefreshFails, Inspected,
         Stopped, Destroyed, StopOrDestroyFails

LEMMA AnswerAwaited ==
  ASSUME Inv, AwaitedInv, NEW c \in Callers, EngineAnswers(c)
  PROVE  AwaitedInv'
<1>1. PICK o \in Outcomes(calls[c].request, calls[c].process) :
        calls' = [calls EXCEPT ![c].answer = o.answer]
  BY DEF EngineAnswers
<1>2. \A d \in Callers : /\ calls'[d].request = calls[d].request
                         /\ calls'[d].process = calls[d].process
  BY <1>1 DEF Inv, TypeOK, CallType
<1>3. phase' = phase /\ processes' = processes
  BY DEF EngineAnswers, environment
<1> QED
  BY <1>2, <1>3 DEF AwaitedInv, Awaited

LEMMA AwaitedStep ==
  ASSUME OneCaller, Inv, Inv', AwaitedInv, [Next]_vars
  PROVE  AwaitedInv'
<1>1. CASE UNCHANGED << phase, processes, calls >>
  BY <1>1 DEF AwaitedInv, Awaited
<1>2. ASSUME NEW c \in Callers, OwnerCalls(c) \/ UserCalls(c) \/ Progress(c)
      PROVE  AwaitedInv'
  BY <1>2, BeginAwaited, ContinueAwaited, AnswerAwaited DEF Progress
<1> QED
  BY <1>1, <1>2 DEF Next, vars, Moves, environment


-----------------------------------------------------------------------------
(* A report is never taken back.                                            *)

\* What a step does to the phase and to each report.
Final ==
  /\ phase = "destroyed" => phase' = "destroyed"
  /\ \A i \in DOMAIN processes :
       /\ processes'[i].status = "running" => StatusOf(i) = "running"
       /\ StatusOf(i) = "killed" => processes'[i].status = "killed"

\* The report of one process gives way to the report that it has ended.
LEMMA ReplacedFinal ==
  ASSUME TypeOK, TrackedInv, phase' = phase, NEW p, IsTracked(p), NEW t,
         Replaced(Tracked(p), t),
         \/ t = processes[Tracked(p)]
         \/ t.status = "killed"
         \/ t.status = "exited" /\ processes[Tracked(p)].status = "running"
  PROVE  Final
<1>1. Tracked(p) \in DOMAIN processes
  BY TrackedFacts
<1>2. /\ processes'[Tracked(p)] = t
      /\ \A i \in DOMAIN processes : i # Tracked(p) => processes'[i] = processes[i]
  BY <1>1 DEF Replaced
<1>3. ASSUME NEW i \in DOMAIN processes
      PROVE  /\ processes'[i].status = "running" => processes[i].status = "running"
             /\ processes[i].status = "killed" => processes'[i].status = "killed"
  <2>1. CASE i # Tracked(p)
    BY <2>1, <1>2
  <2>2. CASE i = Tracked(p)
    BY <2>2, <1>2
  <2> QED
    BY <2>1, <2>2
<1> QED
  BY <1>3 DEF Final, StatusOf

\* A process that was asked about was reported running when it was.
LEMMA RefreshFinal ==
  ASSUME Inv, AwaitedInv, NEW c \in Callers,
         calls[c].request = "statusScript", calls[c].answer \in Words,
         processes' = RefreshedProcesses(c), phase' = phase
  PROVE  Final
<1> DEFINE p == calls[c].process
           t == Refreshed(processes[Tracked(p)], calls[c].answer)
<1>1. IsTracked(p)
  BY DEF Inv, EnvironmentInv, ScriptsInv
<1>2. /\ Tracked(p) \in DOMAIN processes
      /\ processes[Tracked(p)].id = p /\ p \in ProcessId
  BY <1>1, TrackedFacts DEF Inv, EnvironmentInv
<1>3. processes[Tracked(p)].status = "running"
  BY <1>2 DEF AwaitedInv, Awaited
<1>4. Replaced(Tracked(p), t)
  BY DEF Replaced, RefreshedProcesses
<1>5. t = processes[Tracked(p)] \/ t.status = "exited"
  <2>1. \A b \in BOOLEAN : State(p, "exited", b).status = "exited"
    BY DEF State
  <2>2. \/ t = processes[Tracked(p)]
        \/ t = State(p, "exited", TRUE)
        \/ t = State(p, "exited", FALSE)
    BY <1>2, Zenon DEF Refreshed
  <2> HIDE DEF t
  <2> QED
    BY <2>1, <2>2
<1> HIDE DEF t
<1> QED
  BY <1>1, <1>3, <1>4, <1>5, ReplacedFinal DEF Inv, EnvironmentInv

\* Stop and destroy mark the running ones killed and leave the others.
LEMMA AllKilledFinal ==
  ASSUME TypeOK, processes' = AllKilled, phase = "destroyed" => phase' = "destroyed"
  PROVE  Final
<1>1. ASSUME NEW i \in DOMAIN processes
      PROVE  /\ processes'[i].status = "running" => processes[i].status = "running"
             /\ processes[i].status = "killed" => processes'[i].status = "killed"
  <2>1. CASE processes[i].status = "running"
    BY <2>1
  <2>2. CASE processes[i].status # "running"
    <3>1. processes'[i] = processes[i]
      BY <2>2 DEF AllKilled
    <3> QED
      BY <3>1
  <2> QED
    BY <2>1, <2>2
<1> QED
  BY <1>1 DEF Final, StatusOf

LEMMA StepFinal ==
  ASSUME Inv, AwaitedInv, [Next]_vars
  PROVE  Final
<1> USE DEF Inv, EnvironmentInv
<1>1. CASE UNCHANGED environment
  BY <1>1 DEF environment, Final, StatusOf
<1>2. ASSUME NEW c \in Callers, StartProcess(c)
      PROVE  Final
  BY <1>2 DEF StartProcess, Final, StatusOf
<1>3. ASSUME NEW c \in Callers, DestroyNew(c)
      PROVE  Final
  BY <1>3, AllKilledFinal DEF DestroyNew
<1>4. ASSUME NEW c \in Callers, Stopped(c) \/ Destroyed(c)
      PROVE  Final
  <2>1. processes' = AllKilled
    BY <1>4 DEF Stopped, Destroyed
  <2>2. phase = "destroyed" => phase' = "destroyed"
    BY <1>4 DEF Stopped, Destroyed, Answer, AwaitedInv, Awaited
  <2> QED
    BY <2>1, <2>2, AllKilledFinal
<1>5. ASSUME NEW c \in Callers, ContainerStarted(c)
      PROVE  Final
  <2>1. phase # "destroyed"
    BY <1>5 DEF ContainerStarted, Answer, AwaitedInv, Awaited
  <2> QED
    BY <1>5, <2>1 DEF ContainerStarted, Final, StatusOf
<1>6. ASSUME NEW c \in Callers, ProcessStarted(c)
      PROVE  Final
  <2>1. processes \in Seq(TrackedProcess) /\ phase' = phase
    BY <1>6 DEF TypeOK, ProcessStarted
  <2>2. PICK t : processes' = Append(processes, t)
    BY <1>6 DEF ProcessStarted
  <2>3. \A i \in DOMAIN processes : processes'[i] = processes[i]
    BY <2>1, <2>2
  <2> QED
    BY <2>1, <2>3 DEF Final, StatusOf
<1>7. ASSUME NEW c \in Callers, ProcessStopped(c)
      PROVE  Final
  <2>1. calls[c].request = "stopScript" /\ phase' = phase
    BY <1>7 DEF ProcessStopped, Answer
  <2>2. IsTracked(calls[c].process)
    BY <2>1 DEF ScriptsInv
  <2>3. calls[c].process \in ProcessId
    BY <2>2, TrackedFacts
  <2>4. PICK t : t = State(calls[c].process, "killed", FALSE)
    OBVIOUS
  <2>5. t.status = "killed"
    BY <2>4 DEF State
  <2>6. Replaced(Tracked(calls[c].process), t)
    BY <1>7, <2>4 DEF ProcessStopped, Replaced
  <2> QED
    BY <2>1, <2>2, <2>5, <2>6, ReplacedFinal
<1>8. ASSUME NEW c \in Callers, StopRefreshed(c) \/ StateRefreshed(c)
      PROVE  Final
  BY <1>8, RefreshFinal DEF StopRefreshed, StateRefreshed, Answer
<1>9. ASSUME NEW c \in Callers, OwnerCalls(c) \/ UserCalls(c)
      PROVE  Final
  BY <1>1, <1>2, <1>3, <1>9 DEF OwnerCalls, UserCalls, StartContainer, Stop, Destroy,
     RunCommand, StopProcess, GetState
<1>10. ASSUME NEW c \in Callers, Progress(c)
      PROVE  Final
  BY <1>1, <1>4, <1>5, <1>6, <1>7, <1>8, <1>10
     DEF Progress, EngineAnswers, Continues, CreateContainer, StartFails, CommandReturns,
         ProcessNotStarted, NothingToStop, StopProcessFails, RefreshFails, Inspected,
         StopOrDestroyFails
<1> QED
  BY <1>1, <1>9, <1>10 DEF Next, vars, Moves, environment

LEMMA AwaitedInit == Init => AwaitedInv
<1> SUFFICES ASSUME Init, NEW c \in Callers
             PROVE  Awaited(calls[c])
  BY DEF AwaitedInv
<1> QED
  BY NothingAwaited DEF Init

\* A caller that makes one call after the other never sees a report taken back:
\* killed stays killed, an ended process is not reported running again, and
\* destroyed is final, whatever goes wrong in the engine (refreshProcess, stop,
\* destroy).
THEOREM EnvironmentReportsAreFinal ==
  ASSUME OneCaller
  PROVE  Spec => ReportsAreFinal
<1>1. Init => Inv /\ AwaitedInv
  BY InvInit, AwaitedInit
<1>2. Inv /\ AwaitedInv /\ [Next]_vars => Inv' /\ AwaitedInv' /\ Final
  BY InvStep, AwaitedStep, StepFinal
<1>3. Final => [/\ phase = "destroyed" => phase' = "destroyed"
                /\ \A i \in DOMAIN processes :
                     /\ processes'[i].status = "running" => StatusOf(i) = "running"
                     /\ StatusOf(i) = "killed" => processes'[i].status = "killed"]_vars
  BY DEF Final
<1> QED
  BY <1>1, <1>2, <1>3, PTL DEF Spec, ReportsAreFinal


-----------------------------------------------------------------------------
(* What the reports and the container have to do with each other.          *)

\* With nothing half known an outcome brings no process to life but the one the
\* start script reports, and no container but the one docker run reports.
Calm(request, p, o) ==
  /\ \A q \in ProcessId :
       request # "startScript" \/ q # p \/ o.answer # "ok" =>
         /\ o.os[q] \in Live => os[q] \in Live
         /\ os[q] = "none" => o.os[q] = "none"
  /\ request # "create" \/ o.answer # "ok" =>
       (container = "absent" => o.container = "absent")
  /\ request = "remove" /\ o.answer \in {"ok", "missing"} => o.container = "absent"
  /\ request = "statusScript" =>
       /\ o.answer # "silent"
       /\ o.answer \in {"exited", "gone"} => o.os[p] # "alive"

LEMMA EndedCalm ==
  ASSUME EngineTypes, NEW q \in ProcessId
  PROVE  /\ Ended[q] \notin Live
         /\ os[q] = "none" => Ended[q] = "none"
  BY DEF EngineTypes, Ended, LeaderStatus, Live

\* An exec whose client is not killed changes nothing unless it answers.
LEMMA ExecCalm ==
  ASSUME NothingHalfKnown, NEW answer, NEW after, NEW hungAnswer,
         answer \notin {"failed", hungAnswer},
         NEW o \in ExecOutcomes(answer, after, hungAnswer)
  PROVE  /\ o.container = container
         /\ o.answer \in {answer, "failed"}
         /\ o.answer # answer => o.os = os
         /\ o.os \in {os, after}
  BY DEF NothingHalfKnown, ExecOutcomes, Outcome, Answered, Allows, Refused

LEMMA ContainerCalm ==
  ASSUME NothingHalfKnown, EngineTypes, NEW p,
         NEW request \in {"image", "create", "inspect", "stop", "remove"},
         NEW o \in Outcomes(request, p)
  PROVE  Calm(request, p, o)
<1> USE DEF Calm, Outcome, Answered, Allows, Refused, NothingHalfKnown
<1>1. CASE request = "image"
  BY <1>1 DEF Outcomes, ImageOutcomes
<1>2. CASE request = "create"
  BY <1>2 DEF Outcomes, CreateOutcomes
<1>3. CASE request = "inspect"
  BY <1>3 DEF Outcomes, InspectOutcomes
<1>4. CASE request = "stop"
  BY <1>4, EndedCalm DEF Outcomes, StopOutcomes
<1>5. CASE request = "remove"
  BY <1>5, EndedCalm DEF Outcomes, RemoveOutcomes
<1> QED
  BY <1>1, <1>2, <1>3, <1>4, <1>5

LEMMA ScriptCalm ==
  ASSUME NothingHalfKnown, EngineTypes, NEW p \in ProcessId,
         NEW request \in {"startScript", "stopScript", "statusScript"},
         NEW o \in Outcomes(request, p)
  PROVE  Calm(request, p, o)
<1>1. CASE request = "startScript"
  <2>1. o \in ExecOutcomes("ok", [os EXCEPT ![p] = "alive"], "failed")
    BY <1>1 DEF Outcomes, StartScriptOutcomes
  <2>2. /\ o.container = container
        /\ o.answer # "ok" => o.os = os
        /\ o.os \in {os, [os EXCEPT ![p] = "alive"]}
    BY <2>1, ExecCalm
  <2>3. \A q \in ProcessId : q # p => o.os[q] = os[q]
    BY <2>2 DEF EngineTypes
  <2> QED
    BY <1>1, <2>2, <2>3 DEF Calm
<1>2. CASE request = "stopScript"
  <2>1. o \in StopScriptOutcomes(p)
    BY <1>2 DEF Outcomes
  <2>2. CASE AfterSignal(os[p]) = {}
    <3>1. o \in ExecOutcomes("nothing", os, "failed")
      BY <2>1, <2>2 DEF StopScriptOutcomes
    <3>2. o.container = container /\ o.os = os
      BY <3>1, ExecCalm
    <3> QED
      BY <1>2, <3>2 DEF Calm
  <2>3. ASSUME NEW s \in AfterSignal(os[p]),
               o \in ExecOutcomes("ok", [os EXCEPT ![p] = s], "failed")
        PROVE  Calm(request, p, o)
    <3>1. /\ o.container = container
          /\ o.os \in {os, [os EXCEPT ![p] = s]}
      BY <2>3, ExecCalm
    <3>2. (s \in Live => os[p] \in Live) /\ os[p] # "none"
      BY <2>3 DEF AfterSignal, Live
    <3>3. \A q \in ProcessId : o.os[q] = os[q] \/ (q = p /\ o.os[q] = s)
      BY <3>1 DEF EngineTypes
    <3> QED
      BY <1>2, <3>1, <3>2, <3>3 DEF Calm
  <2> QED
    BY <2>1, <2>2, <2>3 DEF StopScriptOutcomes
<1>3. CASE request = "statusScript"
  <2> DEFINE word == CASE os[p] = "alive" -> "running"
                       [] os[p] \in {"lingering", "finished"} -> "exited"
                       [] OTHER -> "gone"
  <2>1. o \in ExecOutcomes(word, os, "silent")
    BY <1>3 DEF Outcomes, StatusScriptOutcomes
  <2>2. /\ word \in {"running", "exited", "gone"}
        /\ word \in {"exited", "gone"} => os[p] # "alive"
    OBVIOUS
  <2> HIDE DEF word
  <2>3. o.container = container /\ o.os = os /\ o.answer \in {word, "failed"}
    BY <2>1, <2>2, ExecCalm
  <2> QED
    BY <1>3, <2>2, <2>3 DEF Calm
<1> QED
  BY <1>1, <1>2, <1>3

LEMMA PendingCalm ==
  ASSUME NothingHalfKnown, EngineTypes,
         NEW request \in Request \ {"none"}, NEW p,
         request \in ByScript => p \in ProcessId,
         NEW o \in Outcomes(request, p)
  PROVE  Calm(request, p, o)
<1>1. CASE request = "command"
  <2>1. o \in ExecOutcomes("ok", os, "silent")
    BY <1>1 DEF Outcomes, CommandOutcomes
  <2>2. o.container = container /\ o.os = os
    BY <2>1, ExecCalm
  <2> QED
    BY <1>1, <2>2 DEF Calm
<1> QED
  BY <1>1, ContainerCalm, ScriptCalm DEF Request, ByScript

LEMMA MovesCalm ==
  ASSUME EngineTypes, EngineMoves
  PROVE  Calm("none", 0, [answer |-> "none", container |-> container', os |-> os'])
<1> USE DEF EngineTypes, Calm
<1>1. ASSUME NEW p \in ProcessId, ProcessEnds(p) \/ GroupEnds(p)
      PROVE  Calm("none", 0, [answer |-> "none", container |-> container', os |-> os'])
  BY <1>1 DEF ProcessEnds, GroupEnds, LeaderStatus, Live
<1>2. CASE ContainerDies
  BY <1>2, EndedCalm DEF ContainerDies
<1> QED
  BY <1>1, <1>2 DEF EngineMoves


\* A live process is known through the map or through the one call there is.
MatchInv == KnownInv /\ DownInv /\ StartsInv /\ ExitedIsDead /\ LiveProcessIsKnown

LEMMA AnswerMatches ==
  ASSUME OneCaller, NothingHalfKnown, Inv, AwaitedInv, MatchInv,
         NEW c \in Callers, EngineAnswers(c)
  PROVE  MatchInv'
<1> DEFINE request == calls[c].request
           p == calls[c].process
<1> USE DEF Inv, EnvironmentInv, MatchInv
<1>1. EngineTypes /\ EngineInv /\ calls \in [Callers -> CallType]
  BY DEF TypeOK, EngineTypes
<1>2. request \in Request \ {"none"}
  BY <1>1 DEF EngineAnswers, RequestsInv, CallType
<1>3. PICK o \in Outcomes(request, p) :
        /\ container' = o.container
        /\ os' = o.os
        /\ calls' = [calls EXCEPT ![c].answer = o.answer]
  BY DEF EngineAnswers
<1>4. request \in ByScript =>
        p \in 1 .. processCounter /\ p \in ProcessId /\ p <= processCounter
  BY DEF RequestsInv, TypeOK, ProcessId
<1>5. \A d \in Callers : d = c
  BY DEF OneCaller
<1>6. calls[c].answer = "none"
  BY DEF EngineAnswers
<1>7. /\ request = "startScript" => phase = "running" /\ os[p] = "none" /\ ~ IsTracked(p)
      /\ request = "create" => phase \in {"created", "stopped"}
  BY <1>6 DEF AwaitedInv, Awaited, ByScript, KnownInv, Known, ScriptsInv
<1> HIDE DEF request, p
<1>8. Effect(request, p, o) /\ Calm(request, p, o)
  BY <1>1, <1>2, <1>4, PendingRequest, PendingCalm
<1>9. /\ phase' = phase /\ processes' = processes
      /\ processCounter' = processCounter
  BY DEF EngineAnswers, environment
<1>10. /\ calls'[c].request = request
       /\ calls'[c].process = p
       /\ calls'[c].answer = o.answer
  BY <1>1, <1>3 DEF CallType, request, p
<1>11. KnownInv'
  <2>1. request = "startScript" /\ o.answer # "ok" => o.os[p] = "none"
    BY <1>4, <1>7, <1>8 DEF Calm, ByScript
  <2>2. Known(calls[c])'
    BY <1>3, <1>8, <1>10, <2>1 DEF Known, Calm
  <2> QED
    BY <1>5, <2>2 DEF KnownInv
<1>12. StartsInv'
  <2>1. ASSUME NEW q \in ProcessId, q > processCounter
        PROVE  o.os[q] = "none"
    <3>1. request = "startScript" => q # p
      BY <2>1, <1>4 DEF ByScript, ProcessId, TypeOK
    <3>2. os[q] = "none"
      BY <2>1 DEF StartsInv
    <3> QED
      BY <3>1, <3>2, <1>8 DEF Calm
  <2> QED
    BY <2>1, <1>3, <1>9 DEF StartsInv
<1>13. DownInv'
  <2>1. phase # "running" =>
          /\ \A i \in DOMAIN processes : processes[i].status # "running"
          /\ \A q \in ProcessId : o.os[q] \notin Live
    BY <1>7, <1>8 DEF DownInv, Calm
  <2>2. phase = "destroyed" => o.container = "absent"
    BY <1>7, <1>8 DEF DownInv, Calm
  <2>3. phase = "created" /\ o.container # "absent" =>
          request = "create" /\ o.answer = "ok"
    BY <1>5, <1>6, <1>8 DEF DownInv, Calm
  <2> QED
    BY <2>1, <2>2, <2>3, <1>3, <1>9, <1>10 DEF DownInv
<1>14. LiveProcessIsKnown'
  <2>1. ASSUME NEW q \in ProcessId, o.os[q] \in Live
        PROVE  IsTracked(q) \/ (request = "startScript" /\ p = q)
    <3>1. CASE request = "startScript" /\ p = q
      BY <3>1
    <3>2. CASE ~ (request = "startScript" /\ p = q)
      <4>1. os[q] \in Live
        BY <2>1, <3>2, <1>8 DEF Calm
      <4> QED
        BY <4>1, <1>5 DEF LiveProcessIsKnown, Live, request, p
    <3> QED
      BY <3>1, <3>2
  <2>2. \A q : IsTracked(q)' = IsTracked(q)
    BY <1>9 DEF IsTracked
  <2> QED
    BY <2>1, <2>2, <1>3, <1>10 DEF LiveProcessIsKnown, Live
<1>15. ExitedIsDead'
  <2>1. ASSUME NEW i \in DOMAIN processes, processes[i].status = "exited"
        PROVE  o.os[processes[i].id] # "alive"
    <3>1. processes[i].id \in ProcessId
      BY EntryFacts DEF TrackedProcess
    <3>2. request # "startScript" \/ processes[i].id # p
      BY <1>7 DEF IsTracked
    <3>3. os[processes[i].id] # "alive"
      BY <2>1 DEF ExitedIsDead, StatusOf, LeaderOf
    <3> QED
      BY <3>1, <3>2, <3>3, <1>8 DEF Effect
  <2> QED
    BY <2>1, <1>3, <1>9 DEF ExitedIsDead, StatusOf, LeaderOf
<1> QED
  BY <1>11, <1>12, <1>13, <1>14, <1>15

LEMMA MovesMatch ==
  ASSUME OneCaller, Inv, MatchInv, Moves
  PROVE  MatchInv'
<1> USE DEF Inv, EnvironmentInv, MatchInv
<1>1. EngineTypes /\ EngineInv
  BY DEF TypeOK, EngineTypes
<1>2. /\ phase' = phase /\ processes' = processes /\ calls' = calls
      /\ processCounter' = processCounter
  BY DEF Moves, environment
<1>3. /\ Effect("none", 0, [answer |-> "none", container |-> container', os |-> os'])
      /\ Calm("none", 0, [answer |-> "none", container |-> container', os |-> os'])
  BY <1>1, EngineAlone, MovesCalm DEF Moves
<1>4. /\ container = "absent" => container' = "absent"
      /\ \A q \in ProcessId :
           /\ os'[q] \in Live => os[q] \in Live
           /\ os[q] = "none" => os'[q] = "none"
           /\ os[q] # "alive" => os'[q] # "alive"
  BY <1>3 DEF Effect, Calm
<1>5. \A c \in Callers :
        calls[c].request \in ByScript => calls[c].process \in ProcessId
  BY DEF RequestsInv, TypeOK, ProcessId
<1>6. \A i \in DOMAIN processes : processes[i].id \in ProcessId
  BY EntryFacts DEF TrackedProcess
<1>7. KnownInv'
  BY <1>2, <1>4, <1>5 DEF KnownInv, Known, ByScript
<1>8. DownInv' /\ StartsInv'
  BY <1>2, <1>4 DEF DownInv, StartsInv
<1>9. ExitedIsDead'
  BY <1>2, <1>4, <1>6 DEF ExitedIsDead, StatusOf, LeaderOf
<1>10. LiveProcessIsKnown'
  BY <1>2, <1>4 DEF LiveProcessIsKnown, Live, IsTracked
<1> QED
  BY <1>7, <1>8, <1>9, <1>10

\* A step of a call that leaves the engine alone.
LEMMA TurnMatches ==
  ASSUME OneCaller, Inv, MatchInv, NEW c \in Callers, NEW call,
         calls' = [calls EXCEPT ![c] = call], Known(call)',
         UNCHANGED engine, processCounter' \in Nat, processCounter <= processCounter',
         \A q : IsTracked(q) => IsTracked(q)',
         \A p : calls[c].request = "startScript" /\ calls[c].process = p =>
                calls[c].answer # "ok" \/ IsTracked(p)',
         DownInv', ExitedIsDead'
  PROVE  MatchInv'
<1> USE DEF Inv, MatchInv
<1>1. \A d \in Callers : d = c
  BY DEF OneCaller
<1>2. container' = container /\ os' = os
  BY DEF engine
<1>3. calls'[c] = call
  BY DEF TypeOK
<1>4. KnownInv'
  BY <1>1, <1>3 DEF KnownInv, Known
<1>5. StartsInv'
  BY <1>2 DEF StartsInv, TypeOK, ProcessId
<1>6. LiveProcessIsKnown'
  <2>1. ASSUME NEW q \in ProcessId, os[q] \in Live
        PROVE  IsTracked(q)'
    <3>1. CASE calls[c].request = "startScript" /\ calls[c].process = q
      <4>1. Known(calls[c])
        BY DEF KnownInv
      <4>2. os[calls[c].process] # "none"
        BY <2>1, <3>1 DEF Live
      <4>3. calls[c].answer = "ok"
        BY <3>1, <4>1, <4>2 DEF Known
      <4> QED
        BY <3>1, <4>3
    <3>2. CASE ~ (calls[c].request = "startScript" /\ calls[c].process = q)
      BY <2>1, <3>2, <1>1 DEF LiveProcessIsKnown, Live
    <3> QED
      BY <3>1, <3>2
  <2> QED
    BY <2>1, <1>2 DEF LiveProcessIsKnown, Live
<1> QED
  BY <1>4, <1>5, <1>6

LEMMA NothingKnown == Known(NoCall) /\ Known(NoCall)'
  BY DEF Known, NoCall, Call

\* Such a step that leaves the map alone too.
LEMMA QuietMatches ==
  ASSUME OneCaller, Inv, MatchInv, NEW c \in Callers, NEW call,
         calls' = [calls EXCEPT ![c] = call], Known(call)',
         UNCHANGED << engine, phase, processes >>,
         processCounter' \in Nat, processCounter <= processCounter',
         calls[c].request \in {"create", "startScript"} => calls[c].answer # "ok"
  PROVE  MatchInv'
<1> USE DEF Inv, MatchInv
<1>1. container' = container /\ os' = os /\ phase' = phase /\ processes' = processes
  BY DEF engine
<1>2. \A d \in Callers : d = c
  BY DEF OneCaller
<1>3. DownInv'
  BY <1>1, <1>2 DEF DownInv
<1>4. ExitedIsDead'
  BY <1>1 DEF ExitedIsDead, StatusOf, LeaderOf
<1>5. \A q : IsTracked(q) => IsTracked(q)'
  BY <1>1 DEF IsTracked
<1> QED
  BY <1>3, <1>4, <1>5, TurnMatches

\* A request but the start script is known for what it is until it is answered.
LEMMA NewKnown ==
  ASSUME NEW method, NEW request, NEW p, request # "startScript"
  PROVE  Known(Call(method, request, p))'
  BY DEF Known, Call


LEMMA BeginMatches ==
  ASSUME OneCaller, Inv, MatchInv, NEW c \in Callers, OwnerCalls(c) \/ UserCalls(c)
  PROVE  MatchInv'
<1> USE DEF Inv, MatchInv
<1>1. /\ Idle(c) /\ calls[c].request = "none" /\ processCounter \in Nat
      /\ \A d \in Callers : d = c
      /\ calls \in [Callers -> CallType]
  BY DEF OwnerCalls, UserCalls, StartContainer, Stop, DestroyNew, Destroy, RunCommand,
     StartProcess, StopProcess, GetState, Idle, NoCall, Call, TypeOK, OneCaller
<1>2. ASSUME NEW method, NEW request, NEW p, request # "startScript",
             Await(c, method, request, p), UNCHANGED << engine, environment >>
      PROVE  MatchInv'
  <2>1. PICK call : call = Call(method, request, p)
    OBVIOUS
  <2>2. Known(call)' /\ calls' = [calls EXCEPT ![c] = call]
    BY <1>2, <2>1, NewKnown DEF Await
  <2>3. /\ UNCHANGED << engine, phase, processes >>
        /\ processCounter' \in Nat /\ processCounter <= processCounter'
    BY <1>1, <1>2 DEF environment
  <2> QED
    BY <1>1, <2>2, <2>3, QuietMatches
<1>3. CASE StartContainer(c) \/ Stop(c) \/ Destroy(c) \/ RunCommand(c) \/ GetState(c)
  BY <1>2, <1>3 DEF StartContainer, Stop, Destroy, RunCommand, GetState
<1>4. ASSUME NEW p \in ProcessId, StopProcess(c, p)
      PROVE  MatchInv'
  BY <1>2, <1>4 DEF StopProcess
<1>5. CASE StartProcess(c)
  <2>1. /\ UNCHANGED << engine, phase, processes >>
        /\ processCounter' = processCounter + 1
        /\ processCounter' \in Nat /\ processCounter <= processCounter'
        /\ processCounter + 1 \in ProcessId
    BY <1>1, <1>5 DEF StartProcess, ProcessId, TypeOK
  <2>2. CASE phase = "running"
    <3>1. PICK call : call = Call("startProcess", "startScript", processCounter + 1)
      OBVIOUS
    <3>2. call.request = "startScript" /\ call.process = processCounter + 1
      BY <3>1 DEF Call
    <3>3. os'[call.process] = "none"
      <4>1. os[processCounter + 1] = "none"
        BY <1>1, <2>1 DEF StartsInv
      <4> QED
        BY <2>1, <3>2, <4>1 DEF engine
    <3>4. Known(call)'
      BY <3>2, <3>3 DEF Known
    <3>5. calls' = [calls EXCEPT ![c] = call]
      BY <1>5, <2>2, <3>1 DEF StartProcess, Await
    <3> QED
      BY <1>1, <2>1, <3>4, <3>5, QuietMatches
  <2>3. CASE phase # "running"
    <3>1. calls' = [calls EXCEPT ![c] = NoCall]
      BY <1>1, <1>5, <2>3 DEF StartProcess, Idle
    <3> QED
      BY <1>1, <2>1, <3>1, NothingKnown, QuietMatches
  <2> QED
    BY <2>2, <2>3
<1>6. CASE DestroyNew(c)
  <2>1. /\ phase = "created" /\ phase' = "destroyed" /\ processes = << >>
        /\ container' = container /\ os' = os /\ processCounter' = processCounter
        /\ calls' = calls /\ calls[c] = NoCall
    BY <1>6 DEF DestroyNew, engine, EnvironmentInv, CreatedInv, Idle
  <2>2. processes' = << >>
    BY <1>6, <2>1 DEF DestroyNew, AllKilled
  <2>3. container' = "absent"
    BY <1>1, <2>1 DEF DownInv
  <2>4. DownInv'
    BY <2>1, <2>2, <2>3 DEF DownInv
  <2>5. ExitedIsDead'
    BY <2>2 DEF ExitedIsDead
  <2>6. \A q : IsTracked(q) => IsTracked(q)'
    BY <2>1, <2>2 DEF IsTracked
  <2>7. calls' = [calls EXCEPT ![c] = NoCall]
    BY <1>1, <2>1
  <2>8. /\ UNCHANGED engine
        /\ processCounter' \in Nat /\ processCounter <= processCounter'
    BY <1>1, <2>1 DEF engine
  <2> QED
    BY <1>1, <2>4, <2>5, <2>6, <2>7, <2>8, NothingKnown, TurnMatches
<1> QED
  BY <1>3, <1>4, <1>5, <1>6 DEF OwnerCalls, UserCalls

\* Where a loop or a refresh goes is known for what it is.
LEMMA LoopKnown ==
  ASSUME NEW c \in Callers, NEW ps, NEW i, RefreshFrom(c, ps, i)
  PROVE  \E call : Known(call)' /\ calls' = [calls EXCEPT ![c] = call]
<1>1. \/ calls' = [calls EXCEPT ![c] = NoCall]
      \/ \E p : calls' = [calls EXCEPT ![c] = Call("getState", "statusScript", p)]
  BY DEF RefreshFrom, Return, Await
<1> QED
  BY <1>1, NothingKnown, NewKnown

LEMMA QuietContinueMatches ==
  ASSUME OneCaller, Inv, MatchInv, NEW c \in Callers,
         \/ CreateContainer(c) \/ StartFails(c) \/ CommandReturns(c)
         \/ ProcessNotStarted(c) \/ StopProcessFails(c)
         \/ RefreshFails(c) \/ StopOrDestroyFails(c)
         \/ NothingToStop(c) \/ Inspected(c)
  PROVE  MatchInv'
<1> USE DEF Inv, MatchInv
<1>1. /\ UNCHANGED << engine, environment >>
      /\ calls[c].request \in {"create", "startScript"} => calls[c].answer # "ok"
  BY DEF CreateContainer, StartFails, CommandReturns, ProcessNotStarted, StopProcessFails,
     RefreshFails, StopOrDestroyFails, NothingToStop, Inspected, Answer
<1>2. /\ UNCHANGED << engine, phase, processes >>
      /\ processCounter' \in Nat /\ processCounter <= processCounter'
  BY <1>1 DEF environment, TypeOK
<1>3. \E call : Known(call)' /\ calls' = [calls EXCEPT ![c] = call]
  <2>1. CASE Return(c)
    BY <2>1, NothingKnown DEF Return
  <2>2. CASE CreateContainer(c) \/ (NothingToStop(c) /\ ~ Return(c))
    BY <2>2, NewKnown DEF CreateContainer, NothingToStop, Await
  <2>3. CASE Inspected(c)
    BY <2>1, <2>3, LoopKnown DEF Inspected
  <2> QED
    BY <2>1, <2>2, <2>3 DEF StartFails, CommandReturns, ProcessNotStarted,
       StopProcessFails, RefreshFails, StopOrDestroyFails
<1> QED
  BY <1>1, <1>2, <1>3, QuietMatches


\* A report is replaced, in a phase in which the container runs.
LEMMA ReplacedMatches ==
  ASSUME OneCaller, Inv, AwaitedInv, MatchInv, NEW c \in Callers, NEW call, NEW t,
         Asked(c), Replaced(Tracked(calls[c].process), t),
         t.id = calls[c].process, t.status = "exited" => os[calls[c].process] # "alive",
         calls' = [calls EXCEPT ![c] = call], Known(call)',
         UNCHANGED << engine, phase, processCounter >>
  PROVE  MatchInv'
<1> USE DEF Inv, EnvironmentInv, MatchInv, Asked
<1>1. PICK p : p = calls[c].process
  OBVIOUS
<1>2. PICK k : k = Tracked(p)
  OBVIOUS
<1>3. k \in DOMAIN processes /\ processes[k].id = p
  BY <1>1, <1>2, TrackedFacts DEF ScriptsInv
<1>4. /\ DOMAIN processes' = DOMAIN processes
      /\ processes'[k] = t
      /\ \A j \in DOMAIN processes : j # k => processes'[j] = processes[j]
  BY <1>1, <1>2, <1>3 DEF Replaced
<1>5. \A j \in DOMAIN processes : processes'[j].id = processes[j].id
  BY <1>1, <1>3, <1>4
<1>6. \A q : IsTracked(q) => IsTracked(q)'
  BY <1>4, <1>5 DEF IsTracked
<1>7. phase' = "running"
  BY DEF AwaitedInv, Awaited, ByScript
<1>8. DownInv'
  BY <1>7 DEF DownInv
<1>9. ExitedIsDead'
  <2>1. ASSUME NEW j \in DOMAIN processes, processes'[j].status = "exited"
        PROVE  os[processes'[j].id] # "alive"
    <3>1. CASE j = k
      BY <2>1, <3>1, <1>1, <1>4
    <3>2. CASE j # k
      BY <2>1, <3>2, <1>4 DEF ExitedIsDead, StatusOf, LeaderOf
    <3> QED
      BY <3>1, <3>2
  <2> QED
    BY <2>1, <1>4 DEF ExitedIsDead, StatusOf, LeaderOf, engine
<1>10. processCounter' \in Nat /\ processCounter <= processCounter'
  BY DEF TypeOK
<1> QED
  BY <1>6, <1>8, <1>9, <1>10, TurnMatches

\* A refresh finds out that a process has ended only if it has.
LEMMA RefreshMatches ==
  ASSUME OneCaller, Inv, AwaitedInv, MatchInv, NEW c \in Callers, NEW call,
         calls[c].request = "statusScript", calls[c].answer \in Words,
         processes' = RefreshedProcesses(c),
         calls' = [calls EXCEPT ![c] = call], Known(call)',
         UNCHANGED << engine, phase, processCounter >>
  PROVE  MatchInv'
<1> DEFINE p == calls[c].process
           t == Refreshed(processes[Tracked(p)], calls[c].answer)
<1> USE DEF Inv, EnvironmentInv, MatchInv
<1>1. IsTracked(p)
  BY DEF ScriptsInv
<1>2. Tracked(p) \in DOMAIN processes /\ processes[Tracked(p)].id = p
  BY <1>1, TrackedFacts
<1>3. processes[Tracked(p)].status = "running"
  BY <1>2 DEF AwaitedInv, Awaited
<1>4. Replaced(Tracked(p), t)
  BY DEF Replaced, RefreshedProcesses
<1>5. Known(calls[c])
  BY DEF KnownInv
<1>6. calls[c].answer = "running" \/ os[p] # "alive"
  BY <1>5 DEF Known, Words
<1>7. t.id = p /\ (t.status = "exited" => os[p] # "alive")
  <2>1. CASE calls[c].answer = "running"
    <3>1. t = processes[Tracked(p)]
      BY <2>1, Zenon DEF Refreshed
    <3> QED
      BY <3>1, <1>2, <1>3
  <2>2. CASE calls[c].answer # "running"
    <3>1. t = State(p, "exited", TRUE) \/ t = State(p, "exited", FALSE)
      BY <1>2, <2>2, Zenon DEF Refreshed
    <3>2. t.id = p
      BY <3>1 DEF State
    <3> QED
      BY <3>2, <2>2, <1>6
  <2> QED
    BY <2>1, <2>2
<1>8. Asked(c)
  BY DEF Asked
<1> HIDE DEF t
<1> QED
  BY <1>4, <1>7, <1>8, ReplacedMatches

LEMMA ReportMatches ==
  ASSUME OneCaller, Inv, AwaitedInv, MatchInv, NEW c \in Callers,
         ProcessStopped(c) \/ StopRefreshed(c) \/ StateRefreshed(c)
  PROVE  MatchInv'
<1>1. CASE ProcessStopped(c)
  <2>1. PICK t : t = State(calls[c].process, "killed", FALSE)
    OBVIOUS
  <2>2. t.id = calls[c].process /\ t.status # "exited"
    BY <2>1 DEF State
  <2>3. /\ Asked(c)
        /\ Replaced(Tracked(calls[c].process), t)
        /\ calls' = [calls EXCEPT ![c] = NoCall]
        /\ UNCHANGED << engine, phase, processCounter >>
    BY <1>1, <2>1 DEF ProcessStopped, Answer, Asked, Replaced, Return
  <2> QED
    BY <2>2, <2>3, NothingKnown, ReplacedMatches
<1>2. CASE StopRefreshed(c)
  <2>1. /\ calls[c].request = "statusScript" /\ calls[c].answer \in Words
        /\ processes' = RefreshedProcesses(c)
        /\ calls' = [calls EXCEPT ![c] = NoCall]
        /\ UNCHANGED << engine, phase, processCounter >>
    BY <1>2 DEF StopRefreshed, Answer, Return
  <2> QED
    BY <2>1, NothingKnown, RefreshMatches
<1>3. CASE StateRefreshed(c)
  <2>1. /\ calls[c].request = "statusScript" /\ calls[c].answer \in Words
        /\ processes' = RefreshedProcesses(c)
        /\ UNCHANGED << engine, phase, processCounter >>
    BY <1>3 DEF StateRefreshed, Answer
  <2>2. PICK call : Known(call)' /\ calls' = [calls EXCEPT ![c] = call]
    BY <1>3, LoopKnown DEF StateRefreshed
  <2> QED
    BY <2>1, <2>2, RefreshMatches
<1> QED
  BY <1>1, <1>2, <1>3

\* The pid has arrived: the call gives way to the entry in the map.
LEMMA StartedMatches ==
  ASSUME OneCaller, Inv, AwaitedInv, MatchInv, NEW c \in Callers, ProcessStarted(c)
  PROVE  MatchInv'
<1> USE DEF Inv, EnvironmentInv, MatchInv
<1>1. PICK p : p = calls[c].process
  OBVIOUS
<1>2. PICK t : t = State(p, "running", FALSE)
  OBVIOUS
<1>3. t.id = p /\ t.status = "running"
  BY <1>2 DEF State
<1>4. /\ processes' = Append(processes, t)
      /\ calls' = [calls EXCEPT ![c] = NoCall]
      /\ UNCHANGED << engine, phase, processCounter >>
      /\ calls[c].request = "startScript"
  BY <1>1, <1>2 DEF ProcessStarted, Return, Answer
<1>5. processes \in Seq(TrackedProcess) /\ Len(processes) \in Nat
  BY DEF TypeOK
<1>6. /\ DOMAIN processes = 1 .. Len(processes)
      /\ DOMAIN processes' = 1 .. Len(processes) + 1
      /\ \A i \in DOMAIN processes : processes'[i] = processes[i]
      /\ processes'[Len(processes) + 1] = t
  BY <1>4, <1>5
<1>7. \A q : IsTracked(q) => IsTracked(q)'
  <2> SUFFICES ASSUME NEW q, NEW i \in DOMAIN processes, processes[i].id = q
               PROVE  IsTracked(q)'
    BY DEF IsTracked
  <2>1. i \in DOMAIN processes' /\ processes'[i].id = q
    BY <1>5, <1>6
  <2> QED
    BY <2>1 DEF IsTracked
<1>8. IsTracked(p)'
  <2>1. Len(processes) + 1 \in DOMAIN processes'
    BY <1>5, <1>6
  <2> QED
    BY <2>1, <1>3, <1>6 DEF IsTracked
<1>9. DownInv'
  <2>1. phase' = "running"
    BY <1>4 DEF AwaitedInv, Awaited, ByScript
  <2> QED
    BY <2>1 DEF DownInv
<1>10. ExitedIsDead'
  <2>1. ASSUME NEW i \in DOMAIN processes', processes'[i].status = "exited"
        PROVE  os[processes'[i].id] # "alive"
    <3>1. i # Len(processes) + 1
      BY <2>1, <1>3, <1>6
    <3>2. i \in DOMAIN processes
      BY <3>1, <1>5, <1>6
    <3> QED
      BY <2>1, <3>2, <1>6 DEF ExitedIsDead, StatusOf, LeaderOf
  <2> QED
    BY <2>1, <1>4 DEF ExitedIsDead, StatusOf, LeaderOf, engine
<1>11. processCounter' \in Nat /\ processCounter <= processCounter'
  BY <1>4 DEF TypeOK
<1> QED
  BY <1>1, <1>4, <1>7, <1>8, <1>9, <1>10, <1>11, NothingKnown, TurnMatches

\* The container has started; or it is down, and so is all there is in it.
LEMMA LifecycleMatches ==
  ASSUME OneCaller, Inv, AwaitedInv, MatchInv, NEW c \in Callers,
         ContainerStarted(c) \/ Stopped(c) \/ Destroyed(c)
  PROVE  MatchInv'
<1> USE DEF Inv, EnvironmentInv, MatchInv
<1>1. /\ calls' = [calls EXCEPT ![c] = NoCall]
      /\ container' = container /\ os' = os /\ UNCHANGED engine
      /\ calls[c].request \in {"create", "stop", "remove"}
      /\ processCounter' = processCounter
  BY DEF ContainerStarted, Stopped, Destroyed, Return, Answer, engine
<1>2. processCounter' \in Nat /\ processCounter <= processCounter'
  BY <1>1 DEF TypeOK
<1>3. CASE ContainerStarted(c)
  <2>1. phase' = "running" /\ processes' = processes
    BY <1>3 DEF ContainerStarted
  <2>2. DownInv'
    BY <2>1 DEF DownInv
  <2>3. ExitedIsDead' /\ \A q : IsTracked(q) => IsTracked(q)'
    BY <1>1, <2>1 DEF ExitedIsDead, StatusOf, LeaderOf, IsTracked
  <2> QED
    BY <1>1, <1>2, <2>2, <2>3, NothingKnown, TurnMatches
<1>4. CASE Stopped(c) \/ Destroyed(c)
  <2>1. /\ processes' = AllKilled /\ phase' \in {"stopped", "destroyed"}
        /\ phase' = "destroyed" => Destroyed(c)
        /\ calls[c].request \in {"stop", "remove"}
        /\ calls[c].answer \in {"ok", "missing"}
    BY <1>4 DEF Stopped, Destroyed, Answer
  <2>2. container # "running"
    BY <2>1 DEF AnswersInv
  <2>3. \A q \in ProcessId : os[q] \notin Live
    BY <2>2 DEF EngineInv
  <2>4. phase' = "destroyed" => container = "absent"
    <3>1. Known(calls[c])
      BY DEF KnownInv
    <3> QED
      BY <2>1, <3>1 DEF Destroyed, Answer, Known
  <2>5. /\ DOMAIN processes' = DOMAIN processes
        /\ \A i \in DOMAIN processes :
             /\ processes'[i].id = processes[i].id
             /\ processes'[i].status # "running"
             /\ processes'[i].status = "exited" => processes[i].status = "exited"
    <3>1. DOMAIN processes' = DOMAIN processes
      BY <2>1 DEF AllKilled
    <3>2. ASSUME NEW i \in DOMAIN processes
          PROVE  /\ processes'[i].id = processes[i].id
                 /\ processes'[i].status # "running"
                 /\ processes'[i].status = "exited" => processes[i].status = "exited"
      <4>1. processes[i] \in TrackedProcess
        BY EntryFacts
      <4>2. CASE processes[i].status = "running"
        <5>1. processes'[i] = [processes[i] EXCEPT !.status = "killed"]
          BY <2>1, <4>2 DEF AllKilled
        <5> QED
          BY <4>1, <5>1 DEF TrackedProcess
      <4>3. CASE processes[i].status # "running"
        <5>1. processes'[i] = processes[i]
          BY <2>1, <4>3 DEF AllKilled
        <5> QED
          BY <4>3, <5>1
      <4> QED
        BY <4>2, <4>3
    <3> QED
      BY <3>1, <3>2
  <2>6. DownInv'
    BY <1>1, <2>1, <2>3, <2>4, <2>5 DEF DownInv
  <2>7. ExitedIsDead'
    BY <1>1, <2>5 DEF ExitedIsDead, StatusOf, LeaderOf
  <2>8. \A q : IsTracked(q) => IsTracked(q)'
    BY <2>5 DEF IsTracked
  <2> QED
    BY <1>1, <1>2, <2>6, <2>7, <2>8, NothingKnown, TurnMatches
<1> QED
  BY <1>3, <1>4

LEMMA MatchStep ==
  ASSUME OneCaller, NothingHalfKnown, Inv, AwaitedInv, MatchInv, [Next]_vars
  PROVE  MatchInv'
<1>1. CASE UNCHANGED vars
  BY <1>1 DEF vars, MatchInv, KnownInv, Known, DownInv, StartsInv, ExitedIsDead,
     LiveProcessIsKnown, StatusOf, LeaderOf, IsTracked
<1>2. ASSUME NEW c \in Callers, OwnerCalls(c) \/ UserCalls(c)
      PROVE  MatchInv'
  BY <1>2, BeginMatches
<1>3. ASSUME NEW c \in Callers, Progress(c)
      PROVE  MatchInv'
  BY <1>3, AnswerMatches, QuietContinueMatches, ReportMatches, StartedMatches,
     LifecycleMatches DEF Progress, Continues
<1> QED
  BY <1>1, <1>2, <1>3, MovesMatch DEF Next

LEMMA MatchInit == Init => MatchInv
<1> SUFFICES ASSUME Init
             PROVE  MatchInv
  OBVIOUS
<1>1. KnownInv
  BY NothingKnown DEF Init, KnownInv
<1>2. DownInv /\ StartsInv /\ ExitedIsDead /\ LiveProcessIsKnown
  BY DEF Init, EngineInit, DownInv, StartsInv, ExitedIsDead, LiveProcessIsKnown, Live
<1> QED
  BY <1>1, <1>2 DEF MatchInv

\* For a caller that makes one call after the other, and an engine that leaves
\* nothing half known, the map tells what the container does: nothing runs and
\* nothing is reported running once the environment is down, what is reported
\* exited is dead, and every live process is tracked or about to be (stop,
\* destroy, refreshProcess, startProcess).
THEOREM EnvironmentMatchesContainer ==
  ASSUME OneCaller, NothingHalfKnown
  PROVE  Spec => []ReportsMatchContainer
<1> DEFINE Alone == Inv /\ AwaitedInv /\ MatchInv
<1>1. Init => Alone
  BY InvInit, AwaitedInit, MatchInit
<1>2. Alone /\ [Next]_vars => Alone'
  BY InvStep, AwaitedStep, MatchStep
<1>3. Alone => ReportsMatchContainer
  <2> SUFFICES ASSUME Alone
               PROVE  ReportsMatchContainer
    OBVIOUS
  <2>1. \A p \in ProcessId :
          os[p] \notin Live => os[p] \in {"none", "finished", "gone"}
    BY DEF Inv, TypeOK, LeaderStatus, Live
  <2>2. NothingRunsOnceDown
    BY <2>1 DEF MatchInv, DownInv, NothingRunsOnceDown, StatusOf
  <2> QED
    BY <2>2 DEF MatchInv, ReportsMatchContainer
<1> HIDE DEF Alone
<1> QED
  BY <1>1, <1>2, <1>3, PTL DEF Spec
(***************************************************************************)
(* The run in a local container (LocalDockerRun): the same environment     *)
(* with main and the SIGINT handler for callers, for every set of faults   *)
(* of the engine, every number of actions and every set of points at which *)
(* SIGINT may arrive.                                                      *)
(***************************************************************************)
USE InterruptAssumption, CallersAssumption

-----------------------------------------------------------------------------
(* The inductive invariant.                                                *)

\* The calls main and the handler make, and what they can be answered.
Purposes ==
  {<< "none", "none" >>, << "startContainer", "image" >>, << "startContainer", "create" >>,
   << "runCommand", "command" >>, << "destroy", "remove" >>}

Answers == {"none", "ok", "missing", "failed", "silent"}

RunCall ==
  [method : Method, request : Request, process : {0}, answer : Answers]

CallsInv ==
  /\ calls \in [Callers -> RunCall]
  /\ \A c \in Callers :
       /\ << calls[c].method, calls[c].request >> \in Purposes
       /\ calls[c].method = "none" => calls[c] = NoCall

Waits(c, method) == calls[c].method = method

\* The handler destroys the sandbox if SIGINT has arrived, and does nothing
\* before.
HandlerWaits ==
  /\ cleaned <=> stopRequested
  /\ cleaned => Waits("handler", "destroy")
  /\ ~ cleaned => Waits("handler", "none")

\* Where a process that has not exited is: what main waits for tells what has
\* been opened, started and cleaned up.
Preflight ==
  /\ ~ hasCleanup /\ ~ hasEnvironment /\ ~ cleaned /\ ~ stopRequested
  /\ store = "unopened" /\ phase = "created"
  /\ Waits("main", "none") /\ Waits("handler", "none")

Starting ==
  /\ hasCleanup /\ ~ hasEnvironment /\ ~ cleaned /\ ~ stopRequested
  /\ store = "open" /\ phase = "created"
  /\ Waits("main", "startContainer") /\ Waits("handler", "none")

InSandbox ==
  /\ hasCleanup /\ hasEnvironment
  /\ store = "open" /\ phase = "running"

AliveInv ==
  exitCode = Alive =>
    /\ main = "preflight" => Preflight
    /\ main = "starting" => Starting
    /\ main \in {"running", "acting", "destroying", "done"} => InSandbox
    /\ main = "running" => Waits("main", "none") /\ HandlerWaits
    /\ main = "acting" => Waits("main", "runCommand") /\ HandlerWaits
    /\ main = "destroying" =>
         /\ cleaned /\ ~ stopRequested
         /\ Waits("main", "destroy") /\ Waits("handler", "none")
    /\ main = "done" =>
         cleaned /\ Waits("main", "none") /\ HandlerWaits

\* What a process that has exited leaves: only SIGINT while main destroys the
\* sandbox, or a second one while the handler does, leaves a cleanup half done.
ExitedInv ==
  exitCode # Alive =>
    /\ exitCode = Killed => main \in {"running", "acting", "done"}
    /\ stopRequested /\ exitCode # Killed =>
         /\ exitCode = 130
         /\ hasCleanup /\ main # "destroying" => store = "closed"
    /\ main \in {"running", "acting"} => cleaned
    /\ \A c \in Callers :
         /\ Waits(c, "startContainer") => c = "main" /\ main = "starting"
         /\ Waits(c, "destroy") =>
              /\ cleaned /\ store = "open"
              /\ \/ c = "main" /\ main = "destroying"
                 \/ c = "handler" /\ exitCode = Killed

\* While the engine has not failed to create or to remove it, a container is
\* there from the create that reported it to the remove that reported it gone.
ContainerInv ==
  reliable =>
    /\ \A c \in Callers :
         /\ calls[c].request \in {"create", "remove"} => calls[c].answer # "failed"
         /\ calls[c].request = "remove" /\ calls[c].answer # "none" => container = "absent"
    /\ main = "preflight" => container = "absent"
    /\ main = "starting" /\ exitCode = Alive /\ container # "absent" =>
         calls["main"].request = "create" /\ calls["main"].answer = "ok"
    /\ /\ exitCode # Alive
       /\ main # "starting"
       /\ \A c \in Callers : ~ Waits(c, "destroy")
       => container = "absent"

RunInv == RunTypeOK /\ CallsInv /\ AliveInv /\ ExitedInv /\ ContainerInv

-----------------------------------------------------------------------------
(* What the engine makes of a request.                                     *)

\* Whatever is asked but a creation, a container that is not there stays so.
LEMMA OutcomeFacts ==
  ASSUME NEW request \in {"image", "create", "command", "remove"},
         NEW o \in Outcomes(request, 0)
  PROVE  /\ o.answer \in Answers \ {"none"}
         /\ request # "create" /\ container = "absent" => o.container = "absent"
         /\ request = "create" /\ o.answer # "failed" => o.answer = "ok"
         /\ request = "remove" /\ o.answer # "failed" => o.container = "absent"
<1> USE DEF Outcome, Answered, Allows, Refused, Answers
<1>1. CASE request = "image"
  BY <1>1 DEF Outcomes, ImageOutcomes
<1>2. CASE request = "create"
  BY <1>2 DEF Outcomes, CreateOutcomes
<1>3. CASE request = "command"
  BY <1>3 DEF Outcomes, CommandOutcomes, ExecOutcomes
<1>4. CASE request = "remove"
  BY <1>4 DEF Outcomes, RemoveOutcomes
<1> QED
  BY <1>1, <1>2, <1>3, <1>4

LEMMA NoCallFacts ==
  /\ NoCall \in RunCall
  /\ NoCall.method = "none" /\ NoCall.request = "none" /\ NoCall.answer = "none"
  BY DEF NoCall, Call, RunCall, Method, Request, Answers

\* A call that begins or goes on.
LEMMA CallFacts ==
  ASSUME NEW method, NEW request, << method, request >> \in Purposes
  PROVE  /\ Call(method, request, 0) \in RunCall
         /\ Call(method, request, 0).method = method
         /\ Call(method, request, 0).request = request
         /\ Call(method, request, 0).answer = "none"
  BY DEF Call, RunCall, Purposes, Method, Request, Answers

\* One caller turns to another call.
Turns(c, method, request) ==
  /\ calls' \in [Callers -> RunCall]
  /\ \A d \in Callers : d # c => calls'[d] = calls[d]
  /\ calls'[c].method = method /\ calls'[c].request = request
  /\ calls'[c].answer = "none"
  /\ CallsInv'

LEMMA AwaitTurns ==
  ASSUME CallsInv, NEW c \in Callers, NEW method, NEW request,
         << method, request >> \in Purposes, method # "none",
         Await(c, method, request, 0)
  PROVE  Turns(c, method, request)
<1>1. PICK call : call = Call(method, request, 0)
  OBVIOUS
<1>2. /\ call \in RunCall
      /\ call.method = method /\ call.request = request /\ call.answer = "none"
  BY <1>1, CallFacts
<1>3. calls' = [calls EXCEPT ![c] = call]
  BY <1>1 DEF Await
<1>4. /\ calls' \in [Callers -> RunCall] /\ calls'[c] = call
      /\ \A d \in Callers : d # c => calls'[d] = calls[d]
  BY <1>2, <1>3 DEF CallsInv
<1> QED
  BY <1>2, <1>4 DEF Turns, CallsInv

LEMMA ReturnTurns ==
  ASSUME CallsInv, NEW c \in Callers, Return(c)
  PROVE  Turns(c, "none", "none")
<1>1. calls' = [calls EXCEPT ![c] = NoCall]
  BY DEF Return
<1>2. /\ calls' \in [Callers -> RunCall] /\ calls'[c] = NoCall
      /\ \A d \in Callers : d # c => calls'[d] = calls[d]
  BY <1>1, NoCallFacts DEF CallsInv
<1> QED
  BY <1>2, NoCallFacts DEF Turns, CallsInv, Purposes


-----------------------------------------------------------------------------
(* The steps.                                                              *)

LEMMA RunInvInit == RunInit => RunInv
<1> SUFFICES ASSUME RunInit
             PROVE  RunInv
  OBVIOUS
<1> USE NoCallFacts DEF RunInit, Init, EngineInit, Alive
<1>1. RunTypeOK
  <2>1. actions \in 0 .. MaxActions
    OBVIOUS
  <2>2. main \in MainPoint
    BY DEF MainPoint
  <2> QED
    BY <2>1, <2>2 DEF RunTypeOK
<1>2. CallsInv
  BY DEF CallsInv, Purposes
<1>3. AliveInv /\ ExitedInv
  BY DEF AliveInv, ExitedInv, Preflight, Waits
<1>4. ContainerInv
  BY DEF ContainerInv
<1> QED
  BY <1>1, <1>2, <1>3, <1>4 DEF RunInv

\* The engine answers a request of the run.
LEMMA EngineWorksStep ==
  ASSUME RunInv, EngineWorks
  PROVE  RunInv'
<1> USE DEF RunInv
<1>1. PICK c \in Callers :
        /\ EngineAnswers(c)
        /\ reliable' = (reliable /\ ~ (/\ calls[c].request \in {"create", "remove"}
                                       /\ calls'[c].answer = "failed"))
  BY DEF EngineWorks
<1>2. UNCHANGED << control, phase >>
  BY <1>1 DEF EngineWorks, EngineAnswers, environment
<1>3. /\ calls[c].request \in {"image", "create", "command", "remove"}
      /\ calls[c].process = 0 /\ calls[c].answer = "none"
      /\ calls \in [Callers -> RunCall]
  BY <1>1 DEF EngineAnswers, Idle, CallsInv, Purposes, RunCall
<1>4. PICK o \in Outcomes(calls[c].request, 0) :
        /\ container' = o.container
        /\ calls' = [calls EXCEPT ![c].answer = o.answer]
  BY <1>1, <1>3 DEF EngineAnswers
<1>5. PICK answer \in Answers \ {"none"} : answer = o.answer
  BY <1>3, OutcomeFacts
<1>6. /\ calls' \in [Callers -> RunCall]
      /\ \A d \in Callers : /\ calls'[d].method = calls[d].method
                            /\ calls'[d].request = calls[d].request
                            /\ d # c => calls'[d] = calls[d]
      /\ calls'[c].answer = answer
  BY <1>3, <1>4, <1>5 DEF RunCall
<1>7. /\ calls[c].request # "create" /\ container = "absent" => container' = "absent"
      /\ calls[c].request = "create" /\ answer # "failed" => answer = "ok"
      /\ calls[c].request = "remove" /\ answer # "failed" => container' = "absent"
  BY <1>3, <1>4, <1>5, OutcomeFacts
<1>8. RunTypeOK'
  BY <1>1, <1>2 DEF RunTypeOK, control
<1>9. CallsInv'
  BY <1>3, <1>6, NoCallFacts DEF CallsInv, Purposes
<1>10. AliveInv' /\ ExitedInv'
  BY <1>2, <1>6 DEF AliveInv, ExitedInv, control, Preflight, Starting, InSandbox,
     HandlerWaits, Waits
<1>11. ContainerInv'
  <2> SUFFICES ASSUME reliable'
               PROVE  ContainerInv'
    BY DEF ContainerInv
  <2>1. reliable /\ (calls[c].request \in {"create", "remove"} => answer # "failed")
    BY <1>1, <1>6
  <2>2. main' = main /\ exitCode' = exitCode
    BY <1>2 DEF control
  <2>3. calls[c].request = "create" =>
          /\ main = "starting" /\ c = "main"
          /\ \A d \in Callers : calls[d].request # "remove"
    <3>1. \A d \in Callers :
            /\ calls[d].request = "create" => Waits(d, "startContainer")
            /\ calls[d].request = "remove" => Waits(d, "destroy")
      BY DEF CallsInv, Purposes, Waits
    <3>2. ASSUME calls[c].request = "create"
          PROVE  main = "starting" /\ c = "main"
      BY <3>1, <3>2 DEF AliveInv, ExitedInv, Preflight, Starting, HandlerWaits, Waits,
         RunTypeOK, MainPoint
    <3>3. main = "starting" => \A d \in Callers : ~ Waits(d, "destroy")
      BY DEF AliveInv, ExitedInv, Starting, Waits
    <3> QED
      BY <3>1, <3>2, <3>3
  <2>4. calls[c].request # "create" => (container = "absent" => container' = "absent")
    BY <1>7
  <2>5. ASSUME NEW d \in Callers
        PROVE  /\ calls'[d].request \in {"create", "remove"} => calls'[d].answer # "failed"
               /\ calls'[d].request = "remove" /\ calls'[d].answer # "none" =>
                    container' = "absent"
    <3>1. CASE d = c
      BY <3>1, <1>6, <1>7, <2>1
    <3>2. CASE d # c
      <4>1. calls'[d] = calls[d]
        BY <3>2, <1>6
      <4> QED
        BY <4>1, <2>1, <2>3, <2>4 DEF ContainerInv
    <3> QED
      BY <3>1, <3>2
  <2>6. main' = "preflight" => container' = "absent"
    BY <2>1, <2>2, <2>3, <2>4 DEF ContainerInv
  <2>7. main' = "starting" /\ exitCode' = Alive /\ container' # "absent" =>
          calls'["main"].request = "create" /\ calls'["main"].answer = "ok"
    <3> SUFFICES ASSUME main = "starting", exitCode = Alive, container' # "absent"
                 PROVE  calls'["main"].request = "create" /\ calls'["main"].answer = "ok"
      BY <2>2
    <3>1. CASE container = "absent"
      BY <3>1, <1>6, <1>7, <2>1, <2>3, <2>4
    <3>2. CASE container # "absent"
      BY <3>2, <1>3, <1>6, <2>1 DEF ContainerInv
    <3> QED
      BY <3>1, <3>2
  <2>8. exitCode' # Alive /\ main' # "starting"
          /\ (\A d \in Callers : ~ Waits(d, "destroy")') => container' = "absent"
    <3> SUFFICES ASSUME exitCode # Alive, main # "starting",
                        \A d \in Callers : ~ Waits(d, "destroy")
                 PROVE  container' = "absent"
      BY <1>6, <2>2 DEF Waits
    <3> QED
      BY <2>1, <2>3, <2>4 DEF ContainerInv
  <2> QED
    BY <2>5, <2>6, <2>7, <2>8 DEF ContainerInv
<1> QED
  BY <1>8, <1>9, <1>10, <1>11


\* What the engine does by itself does not bring a container.
LEMMA EngineChangesStep ==
  ASSUME RunInv, EngineChanges
  PROVE  RunInv'
<1> USE DEF RunInv
<1>1. /\ container = "absent" => container' = "absent"
      /\ UNCHANGED << control, reliable, calls, phase >>
  BY DEF EngineChanges, Moves, EngineMoves, ProcessEnds, GroupEnds, ContainerDies, environment
<1>2. RunTypeOK' /\ CallsInv'
  BY <1>1 DEF RunTypeOK, CallsInv, control
<1>3. AliveInv' /\ ExitedInv'
  BY <1>1 DEF AliveInv, ExitedInv, control, Preflight, Starting, InSandbox,
     HandlerWaits, Waits
<1>4. ContainerInv'
  BY <1>1 DEF ContainerInv, control, Waits
<1> QED
  BY <1>2, <1>3, <1>4

\* A step of main or of the handler: the container is left alone, and one of
\* them may turn to another call.
LEMMA ContainerKept ==
  ASSUME RunInv, UNCHANGED << container, reliable >>,
         \/ UNCHANGED calls
         \/ \E c \in Callers, method \in Method, request \in Request :
              Turns(c, method, request),
         main' = "preflight" => main = "preflight",
         main' = "starting" /\ exitCode' = Alive /\ reliable /\ container # "absent" =>
           calls'["main"].request = "create" /\ calls'["main"].answer = "ok",
         /\ exitCode' # Alive /\ main' # "starting" /\ reliable
         /\ \A c \in Callers : calls'[c].method # "destroy"
         => container = "absent"
  PROVE  ContainerInv'
<1> SUFFICES ASSUME reliable
             PROVE  ContainerInv'
  BY DEF ContainerInv
<1>1. ASSUME NEW d \in Callers
      PROVE  /\ calls'[d].request \in {"create", "remove"} => calls'[d].answer # "failed"
             /\ calls'[d].request = "remove" /\ calls'[d].answer # "none" =>
                  container = "absent"
  <2>1. calls'[d] = calls[d] \/ calls'[d].answer = "none"
    BY DEF Turns
  <2> QED
    BY <2>1 DEF RunInv, ContainerInv
<1>2. main' = "preflight" => container = "absent"
  BY DEF RunInv, ContainerInv
<1> QED
  BY <1>1, <1>2 DEF ContainerInv, Waits

\* What can be said while main has not started the container.
LEMMA BeforeStart ==
  ASSUME RunInv, exitCode = Alive,
         \/ PreflightFails \/ StartSandbox \/ IndexFails \/ ImageFound
         \/ SandboxStarted \/ SandboxNotStarted,
         UNCHANGED reliable
  PROVE  RunInv'
<1> USE DEF RunInv
<1>0. "main" \in Callers /\ "handler" \in Callers /\ "main" # "handler"
  OBVIOUS
<1>1. CASE PreflightFails \/ IndexFails
  <2>1. /\ main' = "done" /\ exitCode' = 1 /\ Preflight /\ main = "preflight"
        /\ UNCHANGED << vars, hasEnvironment, actions, stopRequested >>
    BY <1>1 DEF PreflightFails, IndexFails, MainReturns, AliveInv, Preflight
  <2>2. UNCHANGED << calls, container, phase >>
    BY <2>1 DEF vars
  <2>3. RunTypeOK'
    BY <1>1, <2>1 DEF RunTypeOK, PreflightFails, IndexFails, MainPoint
  <2>4. CallsInv'
    BY <2>2 DEF CallsInv
  <2>5. AliveInv'
    BY <2>1 DEF AliveInv, Alive
  <2>6. ExitedInv'
    BY <1>0, <2>1, <2>2 DEF ExitedInv, Preflight, Waits
  <2>7. ContainerInv'
    BY <2>1, <2>2, ContainerKept DEF ContainerInv
  <2> QED
    BY <2>3, <2>4, <2>5, <2>6, <2>7
<1>2. CASE StartSandbox
  <2>1. /\ main' = "starting" /\ main = "preflight" /\ Preflight
        /\ hasCleanup' = TRUE /\ store' = "open"
        /\ Await("main", "startContainer", "image", 0)
        /\ UNCHANGED << container, phase, hasEnvironment, cleaned, actions,
                        stopRequested, exitCode >>
    BY <1>2 DEF StartSandbox, StartContainer, AliveInv, environment, engine
  <2>2. Turns("main", "startContainer", "image")
    BY <1>0, <2>1, AwaitTurns DEF Purposes
  <2>3. RunTypeOK'
    BY <2>1 DEF RunTypeOK, MainPoint
  <2>4. AliveInv'
    BY <1>0, <2>1, <2>2 DEF AliveInv, Preflight, Starting, Waits, Turns
  <2>5. ExitedInv'
    BY <2>1 DEF ExitedInv
  <2>6. ContainerInv'
    BY <1>0, <2>1, <2>2, ContainerKept DEF ContainerInv, Method, Request
  <2> QED
    BY <2>2, <2>3, <2>4, <2>5, <2>6 DEF Turns
<1>3. CASE ImageFound
  <2>1. /\ main = "starting" /\ Starting
        /\ calls["main"].request = "image"
        /\ Await("main", "startContainer", "create", 0)
        /\ UNCHANGED << container, phase, control >>
    BY <1>3 DEF ImageFound, CreateContainer, Answer, AliveInv, environment, engine
  <2>2. Turns("main", "startContainer", "create")
    BY <1>0, <2>1, AwaitTurns DEF Purposes
  <2>3. RunTypeOK'
    BY <2>1 DEF RunTypeOK, control
  <2>4. AliveInv'
    BY <1>0, <2>1, <2>2 DEF AliveInv, Starting, Waits, Turns, control
  <2>5. ExitedInv'
    BY <2>1 DEF ExitedInv, control
  <2>6. reliable => container = "absent"
    BY <2>1 DEF ContainerInv
  <2>7. ContainerInv'
    BY <1>0, <2>1, <2>2, <2>6, ContainerKept DEF control, Method, Request
  <2> QED
    BY <2>2, <2>3, <2>4, <2>5, <2>7 DEF Turns
<1>4. CASE SandboxStarted
  <2>1. /\ main = "starting" /\ main' = "running" /\ Starting
        /\ hasEnvironment' = TRUE /\ phase' = "running"
        /\ Return("main")
        /\ UNCHANGED << container, hasCleanup, cleaned, store, actions,
                        stopRequested, exitCode >>
    BY <1>4 DEF SandboxStarted, ContainerStarted, AliveInv, engine
  <2>2. Turns("main", "none", "none")
    BY <1>0, <2>1, ReturnTurns
  <2>3. RunTypeOK'
    BY <2>1 DEF RunTypeOK, MainPoint
  <2>4. AliveInv'
    BY <1>0, <2>1, <2>2 DEF AliveInv, Starting, InSandbox, HandlerWaits, Waits, Turns
  <2>5. ExitedInv'
    BY <2>1 DEF ExitedInv
  <2>6. ContainerInv'
    BY <1>0, <2>1, <2>2, ContainerKept DEF Method, Request
  <2> QED
    BY <2>2, <2>3, <2>4, <2>5, <2>6 DEF Turns
<1>5. CASE SandboxNotStarted
  <2>1. /\ main = "starting" /\ main' = "done" /\ Starting /\ exitCode' = 1
        /\ cleaned' = TRUE /\ store' = "closed"
        /\ Return("main")
        /\ \/ calls["main"].request = "image"
           \/ calls["main"].request = "create" /\ calls["main"].answer = "failed"
        /\ UNCHANGED << container, phase, hasCleanup, hasEnvironment, actions,
                        stopRequested >>
    BY <1>5 DEF SandboxNotStarted, StartFails, Answer, MainReturns, AliveInv, Starting,
       environment, engine
  <2>2. Turns("main", "none", "none")
    BY <1>0, <2>1, ReturnTurns
  <2>3. RunTypeOK'
    BY <2>1 DEF RunTypeOK, MainPoint
  <2>4. AliveInv'
    BY <2>1 DEF AliveInv, Alive
  <2>5. ExitedInv'
    BY <1>0, <2>1, <2>2 DEF ExitedInv, Starting, Waits, Turns
  <2>6. reliable => container = "absent"
    BY <1>0, <2>1 DEF ContainerInv
  <2>7. ContainerInv'
    BY <1>0, <2>1, <2>2, <2>6, ContainerKept DEF Method, Request
  <2> QED
    BY <2>2, <2>3, <2>4, <2>5, <2>7 DEF Turns
<1> QED
  BY <1>1, <1>2, <1>3, <1>4, <1>5


\* A cleanup of c that is over: the sandbox is gone, or the engine has failed.
LEMMA CleanupOver ==
  ASSUME RunInv, NEW c \in Callers, CleanupFinishes(c)
  PROVE  /\ Turns(c, "none", "none") /\ Waits(c, "destroy")
         /\ UNCHANGED << container, cleaned >> /\ store' = "closed"
         /\ reliable => container = "absent"
<1> USE DEF RunInv
<1>1. /\ Return(c) /\ container' = container /\ calls[c].method = "destroy"
      /\ cleaned' = cleaned /\ store' = "closed"
      /\ \/ calls[c].request = "remove" /\ calls[c].answer \in {"ok", "missing"}
         \/ calls[c].answer = "failed"
  BY DEF CleanupFinishes, Destroyed, StopOrDestroyFails, Answer, environment, engine
<1>2. calls[c].request = "remove"
  BY <1>1 DEF CallsInv, Purposes
<1>3. reliable => container = "absent"
  BY <1>1, <1>2 DEF ContainerInv
<1> QED
  BY <1>1, <1>3, ReturnTurns DEF Waits

\* From the start of the container on.
LEMMA AfterStart ==
  ASSUME RunInv, exitCode = Alive, Act \/ Observe \/ RunEnds \/ SandboxDestroyed,
         UNCHANGED reliable
  PROVE  RunInv'
<1> USE DEF RunInv
<1>0. "main" \in Callers /\ "handler" \in Callers /\ "main" # "handler"
  OBVIOUS
<1>1. CASE Act
  <2>1. /\ main = "running" /\ main' = "acting" /\ actions < MaxActions
        /\ actions' = actions + 1 /\ Await("main", "runCommand", "command", 0)
        /\ UNCHANGED << container, phase, hasCleanup, hasEnvironment, cleaned, store,
                        stopRequested, exitCode >>
    BY <1>1 DEF Act, RunCommand, AliveInv, InSandbox, environment, engine
  <2>2. Turns("main", "runCommand", "command")
    BY <1>0, <2>1, AwaitTurns DEF Purposes
  <2>3. RunTypeOK'
    BY <2>1 DEF RunTypeOK, MainPoint
  <2>4. AliveInv'
    BY <1>0, <2>1, <2>2 DEF AliveInv, InSandbox, HandlerWaits, Waits, Turns
  <2>5. ExitedInv'
    BY <2>1 DEF ExitedInv
  <2>6. ContainerInv'
    BY <1>0, <2>1, <2>2, ContainerKept DEF Method, Request
  <2> QED
    BY <2>2, <2>3, <2>4, <2>5, <2>6 DEF Turns
<1>2. CASE Observe
  <2>1. /\ main = "acting" /\ main' = "running" /\ Return("main")
        /\ UNCHANGED << container, phase, hasCleanup, hasEnvironment, cleaned, store,
                        actions, stopRequested, exitCode >>
    BY <1>2 DEF Observe, CommandReturns, environment, engine
  <2>2. Turns("main", "none", "none")
    BY <1>0, <2>1, ReturnTurns
  <2>3. RunTypeOK'
    BY <2>1 DEF RunTypeOK, MainPoint
  <2>4. AliveInv'
    BY <1>0, <2>1, <2>2 DEF AliveInv, InSandbox, HandlerWaits, Waits, Turns
  <2>5. ExitedInv'
    BY <2>1 DEF ExitedInv
  <2>6. ContainerInv'
    BY <1>0, <2>1, <2>2, ContainerKept DEF Method, Request
  <2> QED
    BY <2>2, <2>3, <2>4, <2>5, <2>6 DEF Turns
<1>3. CASE RunEnds
  <2>1. /\ main = "running" /\ InSandbox /\ HandlerWaits
        /\ UNCHANGED << hasCleanup, hasEnvironment, actions, stopRequested >>
    BY <1>3 DEF RunEnds, AliveInv
  <2>2. CASE CleanupDestroys("main") /\ main' = "destroying" /\ UNCHANGED exitCode
    <3>1. /\ ~ cleaned /\ cleaned' = TRUE /\ store' = store
          /\ UNCHANGED << container, phase >>
          /\ Await("main", "destroy", "remove", 0)
      BY <2>2 DEF CleanupDestroys, Destroy, environment, engine
    <3>2. Turns("main", "destroy", "remove")
      BY <1>0, <3>1, AwaitTurns DEF Purposes
    <3>3. RunTypeOK'
      BY <2>1, <2>2, <3>1 DEF RunTypeOK, MainPoint
    <3>4. AliveInv'
      BY <1>0, <2>1, <2>2, <3>1, <3>2 DEF AliveInv, InSandbox, HandlerWaits, Waits, Turns
    <3>5. ExitedInv'
      BY <2>2 DEF ExitedInv
    <3>6. ContainerInv'
      BY <1>0, <2>1, <2>2, <3>1, <3>2, ContainerKept DEF Method, Request
    <3> QED
      BY <3>2, <3>3, <3>4, <3>5, <3>6 DEF Turns
  <2>3. ASSUME CleanupReturns, NEW code \in MainCodes, MainReturns(code)
        PROVE  RunInv'
    <3>1. /\ cleaned /\ cleaned' = TRUE /\ store' = store /\ UNCHANGED vars
          /\ main' = "done" /\ stopRequested /\ exitCode' = exitCode
      BY <2>1, <2>3 DEF CleanupReturns, MainReturns, InSandbox, HandlerWaits
    <3>2. UNCHANGED << calls, container, phase >>
      BY <3>1 DEF vars
    <3>3. RunTypeOK'
      BY <2>1, <3>1 DEF RunTypeOK, MainPoint
    <3>4. CallsInv'
      BY <3>2 DEF CallsInv
    <3>5. AliveInv'
      BY <2>1, <3>1, <3>2 DEF AliveInv, InSandbox, HandlerWaits, Waits
    <3>6. ExitedInv'
      BY <3>1 DEF ExitedInv
    <3>7. ContainerInv'
      BY <3>1, <3>2, ContainerKept
    <3> QED
      BY <3>3, <3>4, <3>5, <3>6, <3>7
  <2> QED
    BY <1>3, <2>2, <2>3 DEF RunEnds
<1>4. CASE SandboxDestroyed
  <2>1. PICK code \in {0, 1, 2} : MainReturns(code)
    BY <1>4 DEF SandboxDestroyed, MainCodes
  <2>2. /\ main = "destroying" /\ InSandbox /\ cleaned /\ ~ stopRequested
        /\ Waits("handler", "none")
        /\ main' = "done" /\ exitCode' = code
        /\ UNCHANGED << hasCleanup, hasEnvironment, actions, stopRequested >>
    BY <1>4, <2>1 DEF SandboxDestroyed, MainReturns, AliveInv
  <2>3. /\ Turns("main", "none", "none")
        /\ UNCHANGED << container, cleaned >> /\ store' = "closed"
        /\ reliable => container = "absent"
    BY <1>0, <1>4, CleanupOver DEF SandboxDestroyed
  <2>4. RunTypeOK'
    BY <2>2, <2>3 DEF RunTypeOK, MainPoint
  <2>5. AliveInv'
    BY <2>2 DEF AliveInv, Alive
  <2>6. ExitedInv'
    BY <1>0, <2>2, <2>3 DEF ExitedInv, Waits, Turns
  <2>7. ContainerInv'
    BY <1>0, <2>2, <2>3, ContainerKept DEF Method, Request
  <2> QED
    BY <2>3, <2>4, <2>5, <2>6, <2>7 DEF Turns
<1> QED
  BY <1>1, <1>2, <1>3, <1>4

\* SIGINT, and the end of its handler.
LEMMA InterruptStep ==
  ASSUME RunInv, exitCode = Alive, Interrupt, UNCHANGED reliable
  PROVE  RunInv'
<1> USE DEF RunInv
<1>0. "main" \in Callers /\ "handler" \in Callers /\ "main" # "handler"
  OBVIOUS
<1>1. /\ ~ stopRequested /\ stopRequested' = TRUE /\ main # "done" /\ main \in MainPoint
      /\ UNCHANGED << main, hasCleanup, hasEnvironment, actions >>
  BY DEF Interrupt
<1>2. CASE CleanupDestroys("handler") /\ UNCHANGED exitCode
  <2>1. /\ ~ cleaned /\ hasEnvironment /\ cleaned' = TRUE /\ store' = store
        /\ UNCHANGED << container, phase >>
        /\ Await("handler", "destroy", "remove", 0)
    BY <1>2 DEF CleanupDestroys, Destroy, environment, engine
  <2>2. Turns("handler", "destroy", "remove")
    BY <1>0, <2>1, AwaitTurns DEF Purposes
  <2>3. main \in {"running", "acting"} /\ InSandbox
    BY <1>1, <2>1 DEF AliveInv, Preflight, Starting, MainPoint
  <2>4. RunTypeOK'
    BY <1>1, <1>2, <2>1 DEF RunTypeOK
  <2>5. AliveInv'
    BY <1>0, <1>1, <1>2, <2>1, <2>2, <2>3
       DEF AliveInv, InSandbox, HandlerWaits, Waits, Turns
  <2>6. ExitedInv'
    BY <1>2 DEF ExitedInv
  <2>7. ContainerInv'
    BY <1>0, <1>1, <1>2, <2>1, <2>2, <2>3, ContainerKept DEF Method, Request
  <2> QED
    BY <2>2, <2>4, <2>5, <2>6, <2>7 DEF Turns
<1>3. CASE hasCleanup /\ CleanupReturns /\ exitCode' = 130
  <2>1. /\ cleaned \/ ~ hasEnvironment
        /\ cleaned' = TRUE /\ store' = (IF cleaned THEN store ELSE "closed")
    BY <1>3 DEF CleanupReturns
  <2>2. UNCHANGED << calls, container, phase >>
    BY <1>3 DEF CleanupReturns, vars
  <2>3. \/ main = "starting" /\ Starting /\ store' = "closed"
        \/ /\ main = "destroying" /\ store' = "open" /\ cleaned
           /\ Waits("main", "destroy") /\ Waits("handler", "none")
    BY <1>1, <1>3, <2>1 DEF AliveInv, Preflight, InSandbox, Starting, HandlerWaits, MainPoint
  <2>4. RunTypeOK'
    BY <1>1, <1>3, <2>1, <2>3 DEF RunTypeOK
  <2>5. CallsInv'
    BY <2>2 DEF CallsInv
  <2>6. AliveInv'
    BY <1>3 DEF AliveInv, Alive
  <2>7. ExitedInv'
    BY <1>0, <1>1, <1>3, <2>1, <2>2, <2>3 DEF ExitedInv, Starting, Waits, Killed
  <2>8. ContainerInv'
    BY <1>0, <1>1, <1>3, <2>2, <2>3, ContainerKept DEF Alive, Waits
  <2> QED
    BY <2>4, <2>5, <2>6, <2>7, <2>8
<1>4. CASE ~ hasCleanup /\ exitCode' = 130 /\ UNCHANGED << vars, cleaned, store >>
  <2>1. main = "preflight" /\ Preflight
    BY <1>1, <1>4 DEF AliveInv, Starting, InSandbox, MainPoint
  <2>2. UNCHANGED << calls, container, phase >>
    BY <1>4 DEF vars
  <2>3. RunTypeOK'
    BY <1>1, <1>4 DEF RunTypeOK
  <2>4. CallsInv'
    BY <2>2 DEF CallsInv
  <2>5. AliveInv'
    BY <1>4 DEF AliveInv, Alive
  <2>6. ExitedInv'
    BY <1>0, <1>1, <1>4, <2>1, <2>2 DEF ExitedInv, Preflight, Waits, Killed
  <2>7. ContainerInv'
    BY <1>1, <2>1, <2>2, ContainerKept DEF ContainerInv
  <2> QED
    BY <2>3, <2>4, <2>5, <2>6, <2>7
<1> QED
  BY <1>2, <1>3, <1>4 DEF Interrupt

LEMMA HandlerExitsStep ==
  ASSUME RunInv, exitCode = Alive, HandlerExits, UNCHANGED reliable
  PROVE  RunInv'
<1> USE DEF RunInv
<1>0. "main" \in Callers /\ "handler" \in Callers /\ "main" # "handler"
  OBVIOUS
<1>1. /\ exitCode' = 130
      /\ UNCHANGED << main, hasCleanup, hasEnvironment, actions, stopRequested >>
  BY DEF HandlerExits
<1>2. /\ Turns("handler", "none", "none") /\ Waits("handler", "destroy")
      /\ UNCHANGED << container, cleaned >> /\ store' = "closed"
      /\ reliable => container = "absent"
  BY <1>0, CleanupOver DEF HandlerExits
<1>3. /\ main \in {"running", "acting", "done"} /\ cleaned
      /\ calls["main"].method \in {"none", "runCommand"}
  BY <1>0, <1>2 DEF AliveInv, Preflight, Starting, HandlerWaits, Waits, RunTypeOK, MainPoint
<1>4. RunTypeOK'
  BY <1>1, <1>2 DEF RunTypeOK
<1>5. AliveInv'
  BY <1>1 DEF AliveInv, Alive
<1>6. ExitedInv'
  BY <1>0, <1>1, <1>2, <1>3 DEF ExitedInv, Waits, Turns
<1>7. ContainerInv'
  BY <1>0, <1>1, <1>2, <1>3, ContainerKept DEF Method, Request
<1> QED
  BY <1>2, <1>4, <1>5, <1>6, <1>7 DEF Turns

\* A second SIGINT: the handler waits for the end of the sandbox, and will not
\* see it.
LEMMA KilledStep ==
  ASSUME RunInv, exitCode = Alive, KilledBySignal, UNCHANGED reliable
  PROVE  RunInv'
<1> USE DEF RunInv
<1>0. "main" \in Callers /\ "handler" \in Callers /\ "main" # "handler"
  OBVIOUS
<1>1. /\ stopRequested /\ exitCode' = Killed /\ Killed # Alive
      /\ UNCHANGED << vars, main, hasCleanup, hasEnvironment, cleaned, store,
                      actions, stopRequested >>
  BY DEF KilledBySignal, Killed, Alive
<1>2. UNCHANGED << calls, container, phase >>
  BY <1>1 DEF vars
<1>3. /\ main \in {"running", "acting", "done"} /\ InSandbox /\ cleaned
      /\ Waits("handler", "destroy") /\ calls["main"].method \in {"none", "runCommand"}
  BY <1>0, <1>1 DEF AliveInv, Preflight, Starting, HandlerWaits, Waits, RunTypeOK, MainPoint
<1>4. RunTypeOK'
  BY <1>1 DEF RunTypeOK
<1>5. CallsInv'
  BY <1>2 DEF CallsInv
<1>6. AliveInv'
  BY <1>1 DEF AliveInv
<1>7. ExitedInv'
  BY <1>0, <1>1, <1>2, <1>3 DEF ExitedInv, InSandbox, Waits
<1>8. ContainerInv'
  BY <1>0, <1>1, <1>2, <1>3, ContainerKept DEF Waits
<1> QED
  BY <1>4, <1>5, <1>6, <1>7, <1>8

LEMMA RunInvStep == RunInv /\ [RunNext]_runVars => RunInv'
<1> SUFFICES ASSUME RunInv, [RunNext]_runVars
             PROVE  RunInv'
  OBVIOUS
<1>1. CASE UNCHANGED runVars
  BY <1>1 DEF runVars, vars, control, RunInv, RunTypeOK, CallsInv, AliveInv, ExitedInv,
     ContainerInv, Preflight, Starting, InSandbox, HandlerWaits, Waits
<1>2. CASE exitCode = Alive /\ MainStep /\ UNCHANGED reliable
  BY <1>2, BeforeStart, AfterStart DEF MainStep
<1>3. CASE /\ exitCode = Alive
           /\ Interrupt \/ HandlerExits \/ KilledBySignal
           /\ UNCHANGED reliable
  BY <1>3, InterruptStep, HandlerExitsStep, KilledStep
<1> QED
  BY <1>1, <1>2, <1>3, EngineWorksStep, EngineChangesStep DEF RunNext

-----------------------------------------------------------------------------
(* The theorems.                                                           *)

\* However main and the SIGINT handler overlap, and whatever the engine fails
\* at, the sandbox is destroyed by one of them only and while the store is open,
\* and an interrupted process exits with 130 and its cleanup behind it (cleanup
\* of local-docker-run.ts, main of agent.ts).
THEOREM RunExitsInOrder == RunSpec => []OrderlyExit
<1>1. RunInv => OrderlyExit
  <2> SUFFICES ASSUME RunInv
               PROVE  OneOrderlyCleanup /\ InterruptedExit
    BY DEF OrderlyExit, RunInv
  <2> USE DEF RunInv
  <2>1. "main" \in Callers /\ "handler" \in Callers /\ "main" # "handler"
    OBVIOUS
  <2>2. InterruptedExit
    BY DEF InterruptedExit, ExitedInv
  <2>3. \A c \in Callers : calls[c].method = "destroy" => cleaned /\ store = "open"
    BY DEF AliveInv, ExitedInv, Preflight, Starting, InSandbox, HandlerWaits, Waits,
       RunTypeOK, MainPoint
  <2>4. ~ (calls["main"].method = "destroy" /\ calls["handler"].method = "destroy")
    BY <2>1 DEF AliveInv, ExitedInv, Preflight, Starting, HandlerWaits, Waits,
       RunTypeOK, MainPoint
  <2>5. main \in {"running", "acting"} /\ ~ cleaned => phase = "running" /\ store = "open"
    BY DEF AliveInv, ExitedInv, InSandbox
  <2> QED
    BY <2>1, <2>2, <2>3, <2>4, <2>5 DEF OneOrderlyCleanup
<1> QED
  BY <1>1, RunInvInit, RunInvStep, PTL DEF RunSpec

\* When the process has exited and the engine has done what it was still asked
\* to do, no container of the run is left, unless the engine failed to create or
\* remove it or SIGINT came while it was being started ("The sandbox is destroyed
\* on success, failure, and a second cleanup call", local-docker-run.ts).
THEOREM RunLeavesNoSandbox == RunSpec => []NoSandboxLeft
<1>1. RunInv => NoSandboxLeft
  <2> SUFFICES ASSUME RunInv, exitCode # Alive, reliable, main # "starting",
                      \A c \in Callers : calls[c].request = "none" \/ calls[c].answer # "none"
               PROVE  container = "absent"
    BY DEF NoSandboxLeft
  <2>1. CASE \E c \in Callers : Waits(c, "destroy")
    <3>1. PICK c \in Callers : calls[c].method = "destroy"
      BY <2>1 DEF Waits
    <3>2. calls[c].request = "remove"
      BY <3>1 DEF RunInv, CallsInv, Purposes
    <3>3. calls[c].answer # "none"
      BY <3>2
    <3> QED
      BY <3>2, <3>3 DEF RunInv, ContainerInv
  <2>2. CASE \A c \in Callers : ~ Waits(c, "destroy")
    BY <2>2 DEF RunInv, ContainerInv
  <2> QED
    BY <2>1, <2>2
<1> QED
  BY <1>1, RunInvInit, RunInvStep, PTL DEF RunSpec
=============================================================================
