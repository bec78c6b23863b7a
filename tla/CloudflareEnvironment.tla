----------------------- MODULE CloudflareEnvironment ------------------------
(***************************************************************************)
(* CloudflareSandboxEnvironment: every method is one or more requests of   *)
(* the client, each an await between which other methods run. The          *)
(* environment keeps the processes it knows of, merged with the sandbox's  *)
(* list by getState, and whether it was destroyed. No method but getState  *)
(* asks for the latter.                                                    *)
(***************************************************************************)
EXTENDS CloudflareSandbox

CONSTANTS
  Commands,         \* commands given: "command" and the empty one
  Paths,            \* paths given: "/absolute" and "relative" inside a directory, "/top" in the root
  FileCalls         \* of readFile, writeFile, deleteFile, exists, listFiles

ASSUME EnvironmentAssumption ==
  /\ MaxIds \in Nat
  /\ FileCalls \subseteq {"readFile", "writeFile", "deleteFile", "exists", "listFiles"}

VARIABLES
  calls,            \* caller -> the method under way
  known,            \* knownProcesses: id -> status, "none" if unknown
  destroyed,
  ids,              \* ids given: processes and staged inputs
  answer,           \* what a method returned in the last step
  observed          \* caller -> what held throughout its getState: see Observe

environmentVars == <<calls, known, destroyed, ids, answer>>
vars == <<sandboxVars, environmentVars, observed>>

NoCall == [op |-> "none", at |-> "none", n |-> 0, target |-> 0, timed |-> FALSE, staged |-> FALSE,
           text |-> "", list |-> None, listed |-> FALSE, informed |-> FALSE, result |-> "none",
           expired |-> FALSE, cut |-> FALSE]
NoAnswer == [by |-> "none", n |-> 0, op |-> "none", status |-> "none", timedOut |-> FALSE,
             expired |-> FALSE, cut |-> FALSE]
Nothing == [ran |-> {}, idle |-> {}]

Init ==
  /\ SandboxInit
  /\ calls = [c \in Callers |-> NoCall]
  /\ known = None /\ destroyed = FALSE /\ ids = 0
  /\ answer = NoAnswer
  /\ observed = [c \in Callers |-> Nothing]

Free(c) == calls[c].op = "none"
At(c, op, at) == calls[c].op = op /\ calls[c].at = at
FreshId == ids < MaxIds /\ ids' = ids + 1
NoId == UNCHANGED ids
Begin(c, call) == Free(c) /\ calls' = [calls EXCEPT ![c] = call] /\ answer' = NoAnswer
GoOn(c, call) == calls' = [calls EXCEPT ![c] = call] /\ answer' = NoAnswer
Quiet == UNCHANGED <<processes, staged, secrets>>

(* The method returns, or throws the error of this code. *)
Ends(c, call, status, timedOut) ==
  /\ calls' = [calls EXCEPT ![c] = NoCall]
  /\ answer' = [by |-> c, n |-> call.n, op |-> call.op, status |-> status, timedOut |-> timedOut,
                expired |-> call.expired, cut |-> call.cut]

Return(c, status) == Ends(c, calls[c], status, FALSE)

ReturnReply(c, reply) ==
  Return(c, IF reply.ok THEN "ok" ELSE EnvironmentCode(reply.kind))

-----------------------------------------------------------------------------
(* runCommand: with stdin the payload is staged in a file first and the command reads it; with
   a deadline the command runs under timeout(1). *)
ExecRequest(call) ==
  Request("exec", 0, IF call.staged \/ call.timed THEN "command" ELSE call.text)

Exec(c, call) ==
  /\ GoOn(c, [call EXCEPT !.at = "exec"])
  /\ Send(c, [ExecRequest(call) EXCEPT !.timeout = IF call.timed THEN "positive" ELSE "none"])

RunCommand(c, timed, text) ==
  LET call == [NoCall EXCEPT !.op = "exec", !.timed = timed, !.text = text]
  IN /\ Free(c)
     /\ \/ Exec(c, call) /\ NoId
        \/ /\ FreshId
           /\ GoOn(c, [call EXCEPT !.staged = TRUE, !.n = ids + 1, !.at = "stage"])
           /\ Send(c, Request("writeFile", ids + 1, "/absolute"))
     /\ Quiet /\ UNCHANGED <<known, destroyed, abandoned>>

(* A bug: the finally that removes the staged file is not reached by an exception. *)
Finish_NotAfterError(c, call, status, timedOut) ==
  IF call.staged /\ status = "ok"
  THEN /\ GoOn(c, [call EXCEPT !.at = "unstage", !.timed = timedOut, !.result = status])
       /\ Send(c, Request("deleteFile", call.n, "/absolute"))
  ELSE Ends(c, call, status, timedOut) /\ Done(c)

(* The finally block: the staged file is removed before the method ends as it does. From here
   `timed` is the timedOut of the result. *)
Finish(c, call, status, timedOut) ==
  IF call.staged
  THEN /\ GoOn(c, [call EXCEPT !.at = "unstage", !.timed = timedOut, !.result = status])
       /\ Send(c, Request("deleteFile", call.n, "/absolute"))
  ELSE Ends(c, call, status, timedOut) /\ Done(c)

(* The backstop: a request deadline is reported as the command's, and so is the deadline of the
   staging before it. *)
CommandFails(c, call, kind) ==
  LET backstop == kind = "request_timeout" /\ call.timed
  IN Finish(c, call,
            IF backstop THEN "ok" ELSE EnvironmentCode(kind), backstop)

CommandStaged(c, reply, lost) ==
  /\ At(c, "exec", "stage")
  /\ Learns(c, reply, lost)
  /\ IF reply.ok THEN Exec(c, calls[c])
     ELSE CommandFails(c, [calls[c] EXCEPT !.cut = lost], reply.kind)
  /\ Quiet /\ NoId /\ UNCHANGED <<known, destroyed>>

(* A bug: 137, the status after SIGKILL, is missed. *)
TimedOut_ExitOfTerm(timed, exit, late) == timed /\ exit = 124 /\ late

(* `late`: by the clock of this side the deadline has passed, staging and network included;
   it has, if timeout(1) ended the command. *)
TimedOut(timed, exit, late) == timed /\ exit \in {124, 137} /\ late

CommandRan(c, reply, lost) ==
  LET call == [calls[c] EXCEPT !.expired = reply.expired]
  IN /\ At(c, "exec", "exec")
     /\ Learns(c, reply, lost)
     /\ IF reply.ok
        THEN \E late \in IF reply.expired THEN {TRUE} ELSE BOOLEAN :
               Finish(c, call, "ok", TimedOut(call.timed, reply.exit, late))
        ELSE CommandFails(c, call, reply.kind)
     /\ Quiet /\ NoId /\ UNCHANGED <<known, destroyed>>

CommandUnstaged(c, reply, lost) ==
  LET call == [calls[c] EXCEPT !.cut = @ \/ ~reply.ok]
  IN /\ At(c, "exec", "unstage")
     /\ Learns(c, reply, lost)
     /\ Finish(c, [call EXCEPT !.staged = FALSE], call.result, call.timed)
     /\ Quiet /\ NoId /\ UNCHANGED <<known, destroyed>>

-----------------------------------------------------------------------------
(* The methods of one request. writeFile makes the directory first, if the path names one. *)
HasParent(path) == path # "/top"

FileCall(c, op, path) ==
  LET first == IF op = "writeFile" /\ HasParent(path) THEN "mkdir" ELSE op
  IN /\ Begin(c, [NoCall EXCEPT !.op = op, !.at = first, !.text = path])
     /\ Send(c, Request(first, 0, path))
     /\ Quiet /\ NoId /\ UNCHANGED <<known, destroyed, abandoned>>

FileAnswered(c, reply, lost) ==
  /\ calls[c].op \in FileCalls
  /\ Learns(c, reply, lost)
  /\ IF calls[c].at = "mkdir" /\ reply.ok
     THEN /\ GoOn(c, [calls[c] EXCEPT !.at = "writeFile"])
          /\ Send(c, Request("writeFile", 0, calls[c].text))
     ELSE ReturnReply(c, reply) /\ Done(c)
  /\ Quiet /\ NoId /\ UNCHANGED <<known, destroyed>>

StartProcess(c, command) ==
  /\ FreshId
  /\ Begin(c, [NoCall EXCEPT !.op = "startProcess", !.n = ids + 1])
  /\ Send(c, Request("startProcess", ids + 1, command))
  /\ Quiet /\ UNCHANGED <<known, destroyed, abandoned>>

(* Only the answer tells the id: without it the process is not known, running or not. What it
   is filed as is what the sandbox said of it then. *)
ProcessStarted(c, reply, lost) ==
  /\ calls[c].op = "startProcess"
  /\ Learns(c, reply, lost)
  /\ known' = IF reply.ok THEN [known EXCEPT ![calls[c].n] = ProcessStatus(reply.status)] ELSE known
  /\ ReturnReply(c, reply) /\ Done(c)
  /\ Quiet /\ NoId /\ UNCHANGED destroyed

StopProcess(c, p) ==
  /\ Begin(c, [NoCall EXCEPT !.op = "stopProcess", !.target = p])
  /\ Send(c, [Request("killProcess", 0, "") EXCEPT !.target = p])
  /\ Quiet /\ NoId /\ UNCHANGED <<known, destroyed, abandoned>>

ProcessStopped(c, reply, lost) ==
  /\ calls[c].op = "stopProcess"
  /\ Learns(c, reply, lost)
  /\ known' = IF reply.ok THEN [known EXCEPT ![calls[c].target] = "killed"] ELSE known
  /\ ReturnReply(c, reply) /\ Done(c)
  /\ Quiet /\ NoId /\ UNCHANGED destroyed

Destroy(c) ==
  /\ Begin(c, [NoCall EXCEPT !.op = "destroy"])
  /\ Send(c, Request("destroy", 0, ""))
  /\ Quiet /\ NoId /\ UNCHANGED <<known, destroyed, abandoned>>

Destroyed(c, reply, lost) ==
  /\ calls[c].op = "destroy"
  /\ Learns(c, reply, lost)
  /\ destroyed' = (destroyed \/ reply.ok)
  /\ ReturnReply(c, reply) /\ Done(c)
  /\ Quiet /\ NoId /\ UNCHANGED known

-----------------------------------------------------------------------------
(* Bugs of the merge: processes started elsewhere left out; the sandbox's own words; a termination forgotten. *)
Merged_KnownOnly(live) ==
  [p \in Ids |->
     IF known[p] # "none" /\ live[p] # "none" THEN ProcessStatus(live[p])
     ELSE IF known[p] = "running" THEN "exited" ELSE known[p]]

Merged_Raw(live) ==
  [p \in Ids |->
     IF live[p] # "none" THEN live[p]
     ELSE IF known[p] = "running" THEN "exited" ELSE known[p]]

Merged_ForgetsKilled(live) ==
  [p \in Ids |->
     IF live[p] # "none" THEN ProcessStatus(live[p])
     ELSE IF known[p] = "running" THEN "exited" ELSE known[p]]

(* mergeProcesses: `live` is the sandbox's list. *)
Merged(live) ==
  [p \in Ids |->
     IF live[p] # "none"
     THEN IF known[p] = "killed" /\ ProcessStatus(live[p]) # "running"
          THEN "killed" ELSE ProcessStatus(live[p])
     ELSE IF known[p] = "running" THEN "exited" ELSE known[p]]

(* getState of a destroyed environment asks nobody. *)
GetStopped(c) ==
  /\ Free(c) /\ destroyed
  /\ answer' = [NoAnswer EXCEPT !.by = c, !.op = "getState", !.status = "stopped"]
  /\ UNCHANGED <<sandboxVars, calls, known, destroyed, ids>>

(* listProcesses and info together; the merge when both have answered, with what is known by
   then. The first to fail ends the method. *)
GetState(c) ==
  /\ ~destroyed
  /\ Begin(c, [NoCall EXCEPT !.op = "getState"])
  /\ Send(c, Request("listProcesses", 0, ""))
  /\ Quiet /\ NoId /\ UNCHANGED <<known, destroyed, abandoned>>

StateKnown(c, call) ==
  IF call.listed /\ call.informed
  THEN known' = Merged(call.list) /\ Return(c, "ready")
  ELSE GoOn(c, call) /\ UNCHANGED known

StateUnknown(c, kind) ==
  /\ Return(c, CASE kind = "unauthorized" -> "internal"
                 [] kind \in {"container_unavailable", "request_timeout"} -> "starting"
                 [] OTHER -> "error")
  /\ UNCHANGED known

StateListed(c, reply, lost) ==
  /\ calls[c].op = "getState" /\ ~calls[c].listed
  /\ Learns(c, reply, lost)
  /\ IF reply.ok THEN StateKnown(c, [calls[c] EXCEPT !.list = reply.list, !.listed = TRUE])
     ELSE StateUnknown(c, reply.kind)
  /\ Done(c)
  /\ Quiet /\ NoId /\ UNCHANGED destroyed

(* The request for info changes nothing: only its answer is modelled. *)
StateInformed(c) ==
  /\ calls[c].op = "getState" /\ ~calls[c].informed
  /\ \/ StateKnown(c, [calls[c] EXCEPT !.informed = TRUE]) /\ UNCHANGED requests
     \/ (\E kind \in ErrorKinds : StateUnknown(c, kind)) /\ Done(c)
  /\ Quiet /\ NoId /\ UNCHANGED <<destroyed, abandoned>>

-----------------------------------------------------------------------------
(* What the properties compare a state with: the processes that ran, and those that did not,
   from the start of the getState to now. *)
Observe ==
  observed' = [c \in Callers |->
    LET live == {p \in Ids : processes'[p] = "running"}
    IN CASE calls[c].op = "getState" ->
              [ran |-> observed[c].ran \cap live, idle |-> observed[c].idle \ live]
         [] calls[c].op # "getState" /\ calls'[c].op = "getState" ->
              [ran |-> live, idle |-> Ids \ live]
         [] OTHER -> Nothing]

CallBegins(c) ==
  \/ \E timed \in BOOLEAN, text \in Commands : RunCommand(c, timed, text)
  \/ \E op \in FileCalls, path \in Paths : FileCall(c, op, path)
  \/ \E command \in Commands : StartProcess(c, command)
  \/ \E p \in Ids : StopProcess(c, p)
  \/ Destroy(c)
  \/ GetStopped(c)
  \/ GetState(c)

CallGoesOn(c) ==
  \/ \E lost \in BOOLEAN, reply \in {requests[c].reply} \cup {Failed(k) : k \in LostKinds} :
       \/ CommandStaged(c, reply, lost) \/ CommandRan(c, reply, lost)
       \/ CommandUnstaged(c, reply, lost) \/ FileAnswered(c, reply, lost)
       \/ ProcessStarted(c, reply, lost) \/ ProcessStopped(c, reply, lost)
       \/ Destroyed(c, reply, lost) \/ StateListed(c, reply, lost)
  \/ StateInformed(c)

SandboxStep ==
  /\ \/ \E c \in Callers : ServeRequest(c)
     \/ \E r \in abandoned : ServeAbandoned(r)
     \/ \E p \in Ids : ProcessEnds(p) \/ RecordDropped(p)
     \/ ContainerStops
  /\ answer' = NoAnswer /\ UNCHANGED <<calls, known, destroyed, ids>>

Next ==
  /\ \/ \E c \in Callers : CallBegins(c) \/ CallGoesOn(c)
     \/ SandboxStep
  /\ Observe

Spec == Init /\ [][Next]_vars
=============================================================================
