------------------------- MODULE CloudflareSandbox --------------------------
(***************************************************************************)
(* One sandbox behind its gateway, and the HTTP client that calls it       *)
(* (http-sandbox-client.ts, gateway.ts, sdk-sandbox-client.ts). A call is  *)
(* one request and one answer. The client gives up at its deadline or when *)
(* the connection breaks; the gateway may then still serve the request:    *)
(* such requests are `abandoned`. The sandbox itself is external: it ends  *)
(* processes, drops their records, and may stop with all it holds; the     *)
(* next call starts it anew.                                               *)
(***************************************************************************)
EXTENDS GatewayProtocol, FiniteSets

CONSTANTS
  Callers,
  MaxIds,           \* bound: processes started and inputs staged
  MaxAbandoned,     \* bound: requests abandoned and not served, of those that change something
  SdkErrors         \* errors [name, code] the SDK throws

Ids == 1..MaxIds
None == [p \in Ids |-> "none"]

VARIABLES
  secrets,          \* the bearer tokens of gateway and client: fixed
  processes,        \* id -> status of its record, "none" without one
  staged,           \* ids of the commands whose stdin file exists
  requests,         \* caller -> its request under way
  abandoned         \* requests not served that nobody waits for

sandboxVars == <<secrets, processes, staged, requests, abandoned>>

Ok == [ok |-> TRUE, kind |-> "none", list |-> None, status |-> "none", exit |-> 0,
       expired |-> FALSE]
Failed(kind) == [Ok EXCEPT !.ok = FALSE, !.kind = kind]
NoRequest == [op |-> "none", n |-> 0, target |-> 0, text |-> "", timeout |-> "none"]
Idle == [request |-> NoRequest, answered |-> FALSE, reply |-> Ok]

SandboxInit ==
  /\ secrets \in [gateway : {"none", "secret"}, client : {"secret", "other"}]
  /\ processes = None /\ staged = {}
  /\ requests = [c \in Callers |-> Idle]
  /\ abandoned = {}

ExitCodes == {0, 124, 137}
StartStati == {"running", "completed", "failed"}
Live == {p \in Ids : processes[p] = "running"}
Request(op, n, text) == [NoRequest EXCEPT !.op = op, !.n = n, !.text = text]

-----------------------------------------------------------------------------
(* The SDK performs a request and answers `reply`. SIGTERM may end a process at once or leave
   it running for a while. A process may have ended when its record is answered. A command ends
   by itself, with any status, or timeout(1) ends it. *)
Serves(r, reply) ==
  \/ /\ r.op = "startProcess"
     /\ \E status \in StartStati :
          /\ processes' = [processes EXCEPT ![r.n] = status]
          /\ reply = [Ok EXCEPT !.status = status]
     /\ UNCHANGED staged
  \/ /\ r.op = "killProcess" /\ processes[r.target] = "none"
     /\ reply = Failed("process_not_found") /\ UNCHANGED <<processes, staged>>
  \/ /\ r.op = "killProcess" /\ processes[r.target] # "none"
     /\ \/ processes[r.target] = "running"
           /\ \E status \in {"killed", "failed"} : processes' = [processes EXCEPT ![r.target] = status]
        \/ UNCHANGED processes
     /\ reply = Ok /\ UNCHANGED staged
  \/ /\ r.op = "listProcesses"
     /\ reply = [Ok EXCEPT !.list = processes] /\ UNCHANGED <<processes, staged>>
  \/ /\ r.op = "exec"
     /\ \/ \E exit \in ExitCodes : reply = [Ok EXCEPT !.exit = exit]
        \/ r.timeout = "positive" /\ \E exit \in {124, 137} :
             reply = [Ok EXCEPT !.exit = exit, !.expired = TRUE]
     /\ UNCHANGED <<processes, staged>>
  \/ /\ r.op = "writeFile" /\ r.n # 0
     /\ staged' = staged \cup {r.n} /\ reply = Ok /\ UNCHANGED processes
  \/ /\ r.op = "deleteFile" /\ r.n # 0
     /\ staged' = staged \ {r.n} /\ reply = Ok /\ UNCHANGED processes
  \/ /\ r.op = "destroy"
     /\ processes' = None /\ staged' = {} /\ reply = Ok
  \/ /\ r.op \in {"writeFile", "mkdir", "deleteFile", "readFile", "exists", "listFiles"} /\ r.n = 0
     /\ reply = Ok /\ UNCHANGED <<processes, staged>>

Replies(r) ==
  {Failed(k) : k \in {"unauthorized", "invalid_request", "process_not_found"}
                       \cup {ClassifySdkError(e) : e \in SdkErrors}}
  \cup CASE r.op = "listProcesses" -> {[Ok EXCEPT !.list = processes]}
         [] r.op = "startProcess" -> {[Ok EXCEPT !.status = status] : status \in StartStati}
         [] r.op = "exec" -> {[Ok EXCEPT !.exit = e, !.expired = x] : e \in ExitCodes, x \in BOOLEAN}
         [] OTHER -> {Ok}

(* The gateway's answer: a refusal, what the SDK answers, or the kind of the error it throws,
   which says nothing of whether the request was performed. *)
GatewayAnswers(r, reply) ==
  \/ /\ Refusal(secrets, r) # "none"
     /\ reply = Failed(Refusal(secrets, r)) /\ UNCHANGED <<processes, staged>>
  \/ Refusal(secrets, r) = "none" /\ Serves(r, reply)
  \/ /\ Refusal(secrets, r) = "none"
     /\ \E error \in SdkErrors : reply = Failed(ClassifySdkError(error))
     /\ \/ UNCHANGED <<processes, staged>>
        \/ r.op \notin {"exec", "listProcesses"} /\ \E done \in Replies(r) : Serves(r, done)

ServeRequest(c) ==
  LET r == requests[c].request
  IN /\ r.op # "none" /\ ~requests[c].answered
     /\ \E reply \in Replies(r) :
          /\ GatewayAnswers(r, reply)
          /\ requests' = [requests EXCEPT ![c].answered = TRUE, ![c].reply = reply]
     /\ UNCHANGED <<secrets, abandoned>>

ServeAbandoned(r) ==
  /\ r \in abandoned
  /\ abandoned' = abandoned \ {r}
  /\ \E reply \in Replies(r) : GatewayAnswers(r, reply)
  /\ UNCHANGED <<secrets, requests>>

(* What a caller that waits learns: the answer; or, at any time, that the deadline passed
   (request_timeout), the connection broke or what came back was no answer (protocol,
   unauthorized). `lost` tells the two apart. *)
Changes(r) == r.op \in {"startProcess", "killProcess", "destroy"} \/ r.n # 0
LostKinds == {"request_timeout", "protocol", "unauthorized"}

Learns(c, reply, lost) ==
  LET x == requests[c]
  IN /\ x.request.op # "none"
     /\ \/ x.answered /\ reply = x.reply /\ ~lost /\ UNCHANGED abandoned
        \/ /\ lost /\ reply \in {Failed(k) : k \in LostKinds}
           /\ \/ /\ ~x.answered /\ Changes(x.request) /\ Cardinality(abandoned) < MaxAbandoned
                 /\ abandoned' = abandoned \cup {x.request}
              \/ UNCHANGED abandoned

Send(c, r) == requests' = [requests EXCEPT ![c] = [Idle EXCEPT !.request = r]]
Done(c) == requests' = [requests EXCEPT ![c] = Idle]

-----------------------------------------------------------------------------
(* The sandbox by itself: a process ends; the record of an ended one goes; all goes. *)
ProcessEnds(p) ==
  /\ processes[p] = "running"
  /\ \E status \in {"completed", "failed"} : processes' = [processes EXCEPT ![p] = status]
  /\ UNCHANGED <<secrets, staged, requests, abandoned>>

RecordDropped(p) ==
  /\ processes[p] \notin {"none", "running"}
  /\ processes' = [processes EXCEPT ![p] = "none"]
  /\ UNCHANGED <<secrets, staged, requests, abandoned>>

ContainerStops ==
  /\ processes # None \/ staged # {}
  /\ processes' = None /\ staged' = {}
  /\ UNCHANGED <<secrets, requests, abandoned>>
=============================================================================
