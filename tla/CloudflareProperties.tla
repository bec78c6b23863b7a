------------------------ MODULE CloudflareProperties ------------------------
(* What an agent that holds a Cloudflare environment may rely on. *)
EXTENDS CloudflareEnvironment

-----------------------------------------------------------------------------
(* The types of the state. *)
CloudflareTypeOK ==
  /\ processes \in [Ids -> {"none", "running", "completed", "failed", "killed"}]
  /\ known \in [Ids -> {"none", "running", "exited", "killed"}]
  /\ staged \subseteq 1..ids /\ ids \in 0..MaxIds
  /\ \A c \in Callers : requests[c].request.op # "none" => calls[c].op # "none"
  /\ DOMAIN calls = Callers /\ destroyed \in BOOLEAN

(* getState that answers `ready` shows as running every process that ran throughout the call,
   those included whose startProcess was never answered, and none that did not run at any time
   of it; whatever other methods did to the table between the two requests and the merge
   (mergeProcesses). *)
StateTellsProcesses ==
  answer.op = "getState" /\ answer.status = "ready" =>
    /\ \A p \in observed[answer.by].ran : known[p] = "running"
    /\ \A p \in observed[answer.by].idle : known[p] # "running"

(* The file that carries the stdin of a command is removed when runCommand ends, however it
   does, unless the removal failed, or the staging was given up unanswered: it may be served
   after the removal (the finally block of runCommand). *)
StdinRemoved ==
  answer.op = "exec" /\ ~answer.cut => answer.n \notin staged

(* A command that timeout(1) ended is reported as timed out, never with the exit status of
   timeout(1) as its own (runCommand). *)
ExpiredIsTold ==
  answer.op = "exec" /\ answer.status = "ok" /\ answer.expired => answer.timedOut

(* While the gateway has no secret, or the client another one, nothing that is asked of it
   reaches the sandbox, whichever way the requests go (fail closed). *)
UnauthorizedReachesNothing ==
  secrets.gateway # secrets.client => processes = None /\ staged = {}

(* The environment forgets no process it has seen, and one it terminated is never filed as
   exited in the same step: it stays killed, or is seen to run still (mergeProcesses). Only the
   late answer to its own startProcess files it as the sandbox saw it then. *)
TerminatedNotRefiled ==
  [][\A p \in Ids :
       /\ known[p] # "none" => known'[p] # "none"
       /\ known[p] = "killed" =>
            \/ known'[p] \in {"killed", "running"}
            \/ answer'.op = "startProcess" /\ answer'.n = p]_vars

(* A command leaves nothing staged behind and is told of truly (runCommand). *)
CloudflareInv == CloudflareTypeOK /\ StdinRemoved /\ ExpiredIsTold
=============================================================================
