-------------------------- MODULE CloudflareProofs --------------------------
(***************************************************************************)
(* What is proved of a Cloudflare environment, for any callers, any bound  *)
(* on the ids and on the requests abandoned, any errors of the SDK.        *)
(* Every step is an Exchange of one caller (a method begins, goes on or    *)
(* ends, the sandbox being as it was), or a step of the sandbox (the       *)
(* methods being where they were); the invariants are proved from the two. *)
(***************************************************************************)
EXTENDS CloudflareProperties, TLAPS

-----------------------------------------------------------------------------
(* Types. *)
Stati == {"none", "running", "completed", "failed", "killed"}
Texts == Commands \cup Paths \cup {"", "command", "/absolute"}
Kinds == ErrorKinds \cup {"none"} \cup {ClassifySdkError(e) : e \in SdkErrors}
Methods == FileCalls \cup {"none", "exec", "startProcess", "stopProcess", "destroy", "getState"}
Results == {"none", "ok", "not_found", "permission_denied", "unavailable", "internal"}
Places == Operations \cup {"none", "stage", "unstage"}

Call ==
  [op : Methods, at : Places, n : 0..MaxIds, target : 0..MaxIds, timed : BOOLEAN,
   staged : BOOLEAN, text : Texts, list : [Ids -> Stati], listed : BOOLEAN, informed : BOOLEAN,
   result : Results, expired : BOOLEAN, cut : BOOLEAN]
Asked ==
  [op : Operations \cup {"none"}, n : 0..MaxIds, target : 0..MaxIds, text : Texts,
   timeout : {"none", "positive"}]
Reply ==
  [ok : BOOLEAN, kind : Kinds, list : [Ids -> Stati], status : Stati, exit : ExitCodes,
   expired : BOOLEAN]
Pending == [request : Asked, answered : BOOLEAN, reply : Reply]
Seen == [ran : SUBSET Ids, idle : SUBSET Ids]

TypesKnown ==
  /\ secrets \in [gateway : {"none", "secret"}, client : {"secret", "other"}]
  /\ processes \in [Ids -> Stati]
  /\ known \in [Ids -> {"none", "running", "exited", "killed"}]
  /\ ids \in 0..MaxIds /\ staged \subseteq 1..ids
  /\ calls \in [Callers -> Call] /\ requests \in [Callers -> Pending]
  /\ abandoned \subseteq Asked
  /\ destroyed \in BOOLEAN /\ observed \in [Callers -> Seen]

-----------------------------------------------------------------------------
(* The request that a method waits for, and what the method knows at that place. *)
Waits(call, r) ==
  /\ call.op = "none" => call.n = 0 /\ r = NoRequest
  /\ call.op = "exec" /\ call.at = "stage" =>
       call.staged /\ r.op = "writeFile" /\ r.n = call.n
  /\ call.op = "exec" /\ call.at = "exec" =>
       r.op = "exec" /\ r.n = 0 /\ (r.timeout = "positive" => call.timed)
  /\ call.op = "exec" /\ call.at \in {"stage", "exec"} =>
       ~call.expired /\ ~call.cut /\ (call.staged <=> call.n # 0)
  /\ call.op = "exec" /\ call.at = "unstage" =>
       /\ call.staged /\ call.n # 0 /\ r.op = "deleteFile" /\ r.n = call.n
       /\ call.expired /\ call.result = "ok" => call.timed
  /\ call.op = "exec" => call.at \in {"stage", "exec", "unstage"}
  /\ call.op = "startProcess" => r.op = "startProcess" /\ r.n = call.n
  /\ call.op = "getState" => IF call.listed THEN r = NoRequest ELSE r.op = "listProcesses"
  /\ call.op # "getState" => ~call.listed
  /\ call.op \notin {"exec", "startProcess"} => call.n = 0 /\ r.n = 0
  /\ r.op = "writeFile" /\ r.n # 0 => call.op = "exec" /\ call.at = "stage"
  /\ r.op = "deleteFile" /\ r.n # 0 => call.op = "exec" /\ call.at = "unstage"

MethodsWait == \A c \in Callers : Waits(calls[c], requests[c].request)

(* An id is given once: to a process or to one staged input. *)
IdsGivenOnce ==
  /\ \A c \in Callers : calls[c].n <= ids
  /\ \A c, d \in Callers : calls[c].n # 0 /\ calls[c].n = calls[d].n => c = d
  /\ \A r \in abandoned : r.n <= ids

(* A staging given up unanswered is remembered by its runCommand. *)
StagingRemembered ==
  \A r \in abandoned, c \in Callers :
    r.op = "writeFile" /\ r.n # 0 /\ r.n = calls[c].n => calls[c].cut

(* An answer is the answer to its request. *)
RepliesHonest ==
  \A c \in Callers :
    LET x == requests[c]
    IN x.answered =>
         /\ x.request.op # "none"
         /\ x.reply.expired => /\ x.reply.ok /\ x.reply.exit \in {124, 137}
                               /\ x.request.op = "exec" /\ x.request.timeout = "positive"
         /\ x.reply.ok /\ x.request.op = "startProcess" => x.reply.status \in StartStati

(* Once the removal has been confirmed the file is gone for good. *)
RemovalLasts ==
  \A c \in Callers :
    /\ calls[c].op = "exec" /\ calls[c].at = "unstage" /\ ~calls[c].cut
    /\ requests[c].answered /\ requests[c].reply.ok
    => calls[c].n \notin staged

(* A list agrees with what was observed. *)
Agrees(list, seen) ==
  /\ \A p \in seen.ran : list[p] = "running"
  /\ \A p \in seen.idle : list[p] # "running"

ListsAgree ==
  \A c \in Callers : calls[c].op = "getState" =>
    /\ Agrees(processes, observed[c])
    /\ calls[c].listed => Agrees(calls[c].list, observed[c])
    /\ ~calls[c].listed /\ requests[c].answered /\ requests[c].reply.ok =>
         Agrees(requests[c].reply.list, observed[c])

MethodsInv ==
  TypesKnown /\ MethodsWait /\ IdsGivenOnce /\ StagingRemembered /\ RepliesHonest /\ RemovalLasts /\ ListsAgree

-----------------------------------------------------------------------------
(* The values the records start from have their types; so has every record made of them. *)
LEMMA NoneType == None \in [Ids -> Stati]
BY DEF None, Stati

LEMMA NoCallType == NoCall \in Call
<1>1. "none" \in Methods /\ "none" \in Places /\ "none" \in Results /\ "" \in Texts /\ 0 \in 0..MaxIds
  BY EnvironmentAssumption DEF Methods, Places, Results, Texts, Operations
<1> QED
  BY <1>1, NoneType DEF Call, NoCall

LEMMA OkType == Ok \in Reply
BY NoneType DEF Ok, Reply, Kinds, ExitCodes, Stati

LEMMA FailedType ==
  ASSUME NEW kind \in Kinds
  PROVE  Failed(kind) \in Reply /\ ~Failed(kind).ok /\ ~Failed(kind).expired
<1>1. Ok.expired = FALSE
  BY DEF Ok
<1> QED
  BY <1>1, OkType DEF Failed, Reply

LEMMA NoRequestType == NoRequest \in Asked
BY EnvironmentAssumption DEF NoRequest, Asked, Texts

LEMMA RequestType ==
  ASSUME NEW op \in Operations, NEW n \in 0..MaxIds, NEW text \in Texts
  PROVE  /\ Request(op, n, text) \in Asked
         /\ Request(op, n, text).op = op /\ Request(op, n, text).n = n
         /\ Request(op, n, text).timeout = "none"
<1>1. NoRequest.timeout = "none"
  BY DEF NoRequest
<1> QED
  BY <1>1, NoRequestType DEF Request, Asked

LEMMA PlainRequestType ==
  ASSUME NEW op \in Operations, NEW text \in Texts
  PROVE  /\ Request(op, 0, text) \in Asked
         /\ Request(op, 0, text).op = op /\ Request(op, 0, text).n = 0
         /\ Request(op, 0, text).timeout = "none"
<1>1. PICK n \in 0..MaxIds : n = 0
  BY EnvironmentAssumption
<1> QED
  BY <1>1, RequestType

LEMMA IdleType == Idle \in Pending /\ Idle.request = NoRequest /\ ~Idle.answered
BY NoRequestType, OkType DEF Idle, Pending

LEMMA SentType ==
  ASSUME NEW r \in Asked, NEW x, x = [Idle EXCEPT !.request = r]
  PROVE  x \in Pending /\ x.request = r /\ ~x.answered
BY IdleType DEF Pending

LEMMA CodeType == ASSUME NEW kind PROVE EnvironmentCode(kind) \in Results \ {"none", "ok"}
BY DEF EnvironmentCode, Results


-----------------------------------------------------------------------------
(* One step of the method of c: from here on it is `call`, and waits as `x` tells. *)
Listens(c, call, x) ==
  \/ ~call.listed /\ ~x.answered
  \/ /\ calls[c].op = "getState" /\ x = requests[c]
     /\ call.listed = calls[c].listed /\ call.list = calls[c].list
  \/ /\ calls[c].op = "getState" /\ ~calls[c].listed /\ requests[c].answered /\ requests[c].reply.ok
     /\ call.listed /\ call.list = requests[c].reply.list

Abandons(c, call) ==
  \/ abandoned' = abandoned
  \/ /\ abandoned' = abandoned \cup {requests[c].request}
     /\ requests[c].request.op = "writeFile" /\ call.n # 0 => call.cut

Exchange(c, call, x) ==
  /\ calls' = [calls EXCEPT ![c] = call] /\ requests' = [requests EXCEPT ![c] = x]
  /\ UNCHANGED <<secrets, processes, staged>>
  /\ call \in Call /\ x \in Pending /\ Waits(call, x.request)
  /\ x.answered => x = requests[c] /\ call.op = "getState"
  /\ call.op = "getState" => Listens(c, call, x)
  /\ \/ ids' = ids /\ call.n \in {0, calls[c].n}
     \/ ids' = ids + 1 /\ ids' <= MaxIds /\ call.n = ids' /\ ~call.cut /\ calls[c].n = 0
  /\ calls[c].cut /\ call.n # 0 /\ call.n = calls[c].n => call.cut
  /\ Abandons(c, call)

LEMMA ExchangeKeepsTypes ==
  ASSUME TypesKnown, NEW c \in Callers, NEW call, NEW x, Exchange(c, call, x),
         known' \in [Ids -> {"none", "running", "exited", "killed"}], destroyed' \in BOOLEAN, Observe
  PROVE  TypesKnown'
<1> USE DEF Exchange, Abandons
<1>1. calls' \in [Callers -> Call] /\ requests' \in [Callers -> Pending]
  BY DEF TypesKnown
<1>2. abandoned' \subseteq Asked
  BY DEF TypesKnown, Pending
<1>3. ids' \in 0..MaxIds /\ staged' \subseteq 1..ids'
  BY EnvironmentAssumption DEF TypesKnown
<1>4. observed' \in [Callers -> Seen]
  BY DEF TypesKnown, Observe, Seen, Nothing
<1> QED
  BY <1>1, <1>2, <1>3, <1>4 DEF TypesKnown

LEMMA ExchangeKeepsIds ==
  ASSUME TypesKnown, IdsGivenOnce, StagingRemembered, NEW c \in Callers, NEW call, NEW x, Exchange(c, call, x),
         MethodsWait
  PROVE  IdsGivenOnce' /\ StagingRemembered' /\ MethodsWait'
<1> USE DEF Exchange, Abandons
<1>1. /\ \A d \in Callers : calls'[d] = (IF d = c THEN call ELSE calls[d])
      /\ \A d \in Callers : requests'[d] = (IF d = c THEN x ELSE requests[d])
      /\ \A d \in Callers : calls[d].n \in Nat /\ requests[d].request.n \in Nat
      /\ \A r \in abandoned : r.n \in Nat
      /\ ids \in Nat
  BY EnvironmentAssumption DEF TypesKnown, Call, Pending, Asked
<1>2. \A d \in Callers : requests[d].request.n # 0 => requests[d].request.n = calls[d].n
  BY DEF MethodsWait, Waits
<1>3. IdsGivenOnce'
  BY <1>1, <1>2 DEF IdsGivenOnce
<1>4. MethodsWait'
  BY <1>1 DEF MethodsWait
<1>5. StagingRemembered'
  <2> SUFFICES ASSUME NEW r \in abandoned', NEW d \in Callers,
                      r.op = "writeFile", r.n # 0, r.n = calls'[d].n
               PROVE  calls'[d].cut
    BY DEF StagingRemembered
  <2>1. CASE r \in abandoned
    BY <2>1, <1>1 DEF StagingRemembered, IdsGivenOnce
  <2>2. CASE r \notin abandoned
    <3>1. r = requests[c].request /\ r.n = calls[c].n
      BY <2>2, <1>2
    <3>2. calls[c].n # 0 => ids' = ids
      OBVIOUS
    <3>3. d = c
      BY <3>1, <1>1 DEF IdsGivenOnce
    <3> QED
      BY <3>1, <3>3, <2>2, <1>1
  <2> QED
    BY <2>1, <2>2
<1> QED
  BY <1>3, <1>4, <1>5

LEMMA ExchangeKeepsReplies ==
  ASSUME TypesKnown, RepliesHonest, RemovalLasts, ListsAgree, NEW c \in Callers, NEW call, NEW x,
         Exchange(c, call, x), Observe
  PROVE  RepliesHonest' /\ RemovalLasts' /\ ListsAgree'
<1> USE DEF Exchange, Abandons
<1>1. /\ \A d \in Callers : calls'[d] = (IF d = c THEN call ELSE calls[d])
      /\ \A d \in Callers : requests'[d] = (IF d = c THEN x ELSE requests[d])
  BY DEF TypesKnown
<1>2. RepliesHonest'
  BY <1>1 DEF RepliesHonest
<1>3. RemovalLasts'
  BY <1>1 DEF RemovalLasts
<1>4. ListsAgree'
  <2> SUFFICES ASSUME NEW d \in Callers, calls'[d].op = "getState"
               PROVE  /\ Agrees(processes', observed'[d])
                      /\ calls'[d].listed => Agrees(calls'[d].list, observed'[d])
                      /\ ~calls'[d].listed /\ requests'[d].answered /\ requests'[d].reply.ok =>
                           Agrees(requests'[d].reply.list, observed'[d])
    BY DEF ListsAgree, Agrees
  <2>1. CASE calls[d].op = "getState"
    <3>1. /\ observed'[d].ran \subseteq observed[d].ran
          /\ observed'[d].idle \subseteq observed[d].idle
      BY <2>1 DEF Observe
    <3>2. \A list : Agrees(list, observed[d]) => Agrees(list, observed'[d])
      BY <3>1 DEF Agrees
    <3>3. CASE d # c
      BY <3>2, <3>3, <2>1, <1>1 DEF ListsAgree
    <3>4. CASE d = c
      BY <3>2, <3>4, <2>1, <1>1 DEF ListsAgree, Listens
    <3> QED
      BY <3>3, <3>4
  <2>2. CASE calls[d].op # "getState"
    <3>1. d = c /\ ~call.listed /\ ~x.answered
      BY <2>2, <1>1 DEF Listens
    <3>2. observed'[d] = [ran |-> {p \in Ids : processes'[p] = "running"},
                          idle |-> Ids \ {p \in Ids : processes'[p] = "running"}]
      BY <2>2 DEF Observe
    <3> QED
      BY <3>1, <3>2, <1>1 DEF Agrees
  <2> QED
    BY <2>1, <2>2
<1> QED
  BY <1>2, <1>3, <1>4


-----------------------------------------------------------------------------
(* What the gateway does of a request, whatever it answers. *)
Performs(r, reply) ==
  /\ processes' \in [Ids -> Stati] /\ reply \in Reply
  /\ staged' \subseteq staged \/ (r.op = "writeFile" /\ r.n # 0 /\ staged' = staged \cup {r.n})
  /\ reply.ok /\ r.op = "deleteFile" /\ r.n # 0 => r.n \notin staged'
  /\ reply.ok /\ r.op = "listProcesses" => reply.list = processes /\ processes' = processes
  /\ reply.expired => reply.ok /\ reply.exit \in {124, 137} /\ r.op = "exec" /\ r.timeout = "positive"
  /\ reply.ok /\ r.op = "startProcess" => reply.status \in StartStati

LEMMA ServesPerforms ==
  ASSUME TypesKnown, NEW r \in Asked, NEW reply, Serves(r, reply)
  PROVE  Performs(r, reply)
<1>1. processes \in [Ids -> Stati] /\ Ok.ok /\ ~Ok.expired /\ Ok \in Reply
  BY OkType DEF TypesKnown, Ok
<1>2. CASE r.op = "startProcess"
  <2>1. PICK status \in StartStati : /\ processes' = [processes EXCEPT ![r.n] = status]
                                     /\ reply = [Ok EXCEPT !.status = status] /\ staged' = staged
    BY <1>2 DEF Serves
  <2>2. status \in Stati
    BY DEF StartStati, Stati
  <2>3. reply \in Reply /\ ~reply.expired /\ reply.status = status
    BY <2>1, <2>2, <1>1 DEF Reply
  <2> QED
    BY <2>1, <2>2, <2>3, <1>1, <1>2 DEF Performs
<1>3. CASE r.op = "killProcess"
  <2>1. reply \in Reply /\ ~reply.expired
    BY <1>1, <1>3, FailedType DEF Serves, Kinds, ErrorKinds
  <2>2. processes' \in [Ids -> Stati] /\ staged' = staged
    BY <1>1, <1>3 DEF Serves, Stati
  <2> QED
    BY <2>1, <2>2, <1>3 DEF Performs
<1>4. CASE r.op = "listProcesses"
  <2>1. reply = [Ok EXCEPT !.list = processes] /\ processes' = processes /\ staged' = staged
    BY <1>4 DEF Serves
  <2>2. reply \in Reply /\ ~reply.expired /\ reply.list = processes
    BY <2>1, <1>1 DEF Reply
  <2> QED
    BY <2>1, <2>2, <1>1, <1>4 DEF Performs
<1>5. CASE r.op = "exec"
  <2>1. processes' = processes /\ staged' = staged
    BY <1>5 DEF Serves
  <2>2. \/ \E exit \in ExitCodes : reply = [Ok EXCEPT !.exit = exit]
        \/ r.timeout = "positive" /\ \E exit \in {124, 137} :
             reply = [Ok EXCEPT !.exit = exit, !.expired = TRUE]
    BY <1>5 DEF Serves
  <2>3. CASE \E exit \in ExitCodes : reply = [Ok EXCEPT !.exit = exit]
    <3>1. reply \in Reply /\ ~reply.expired
      BY <2>3, <1>1 DEF Reply
    <3> QED
      BY <3>1, <2>1, <1>1, <1>5 DEF Performs
  <2>4. CASE r.timeout = "positive" /\ \E exit \in {124, 137} :
               reply = [Ok EXCEPT !.exit = exit, !.expired = TRUE]
    <3>1. PICK exit \in {124, 137} : reply = [Ok EXCEPT !.exit = exit, !.expired = TRUE]
      BY <2>4
    <3>2. exit \in ExitCodes
      BY DEF ExitCodes
    <3>3. reply \in Reply /\ reply.exit = exit /\ reply.ok
      BY <3>1, <3>2, <1>1 DEF Reply
    <3> QED
      BY <3>3, <2>1, <2>4, <1>1, <1>5 DEF Performs
  <2> QED
    BY <2>2, <2>3, <2>4
<1>6. CASE r.op = "writeFile" /\ r.n # 0
  BY <1>1, <1>6 DEF Serves, Performs
<1>7. CASE r.op = "deleteFile" /\ r.n # 0
  BY <1>1, <1>7 DEF Serves, Performs
<1>8. CASE r.op = "destroy"
  BY <1>1, <1>8, NoneType DEF Serves, Performs
<1>9. CASE r.op \in {"writeFile", "mkdir", "deleteFile", "readFile", "exists", "listFiles"} /\ r.n = 0
  BY <1>1, <1>9 DEF Serves, Performs
<1> QED
  BY <1>2, <1>3, <1>4, <1>5, <1>6, <1>7, <1>8, <1>9 DEF Serves

LEMMA GatewayPerforms ==
  ASSUME TypesKnown, NEW r \in Asked, NEW reply, GatewayAnswers(r, reply)
  PROVE  /\ Performs(r, reply)
         /\ secrets.client # secrets.gateway => processes' = processes /\ staged' = staged
<1>1. processes \in [Ids -> Stati]
  BY DEF TypesKnown
<1>2. CASE Refusal(secrets, r) # "none"
  <2>1. Refusal(secrets, r) \in Kinds
    BY <1>2 DEF Refusal, Kinds, ErrorKinds
  <2>2. reply = Failed(Refusal(secrets, r)) /\ processes' = processes /\ staged' = staged
    BY <1>2 DEF GatewayAnswers
  <2> QED
    BY <1>1, <2>1, <2>2, FailedType DEF Performs
<1>3. CASE Refusal(secrets, r) = "none"
  <2>1. secrets.client = secrets.gateway
    BY <1>3 DEF Refusal
  <2>2. CASE Serves(r, reply)
    BY <2>1, <2>2, ServesPerforms
  <2>3. CASE ~Serves(r, reply)
    <3>1. PICK error \in SdkErrors : reply = Failed(ClassifySdkError(error))
      BY <1>3, <2>3 DEF GatewayAnswers
    <3>2. ClassifySdkError(error) \in Kinds
      BY DEF Kinds
    <3>3. reply \in Reply /\ ~reply.ok /\ ~reply.expired
      BY <3>1, <3>2, FailedType
    <3>4. (processes' = processes /\ staged' = staged) \/ \E done \in Replies(r) : Serves(r, done)
      BY <1>3, <2>3 DEF GatewayAnswers
    <3>5. CASE processes' = processes /\ staged' = staged
      BY <3>3, <3>5, <1>1, <2>1 DEF Performs
    <3>6. CASE \E done \in Replies(r) : Serves(r, done)
      <4>1. \E done : Performs(r, done)
        BY <3>6, ServesPerforms
      <4> QED
        BY <4>1, <3>3, <2>1 DEF Performs
    <3> QED
      BY <3>4, <3>5, <3>6
  <2> QED
    BY <2>2, <2>3
<1> QED
  BY <1>2, <1>3

(* A step of the sandbox: the request of a caller is served, or one that nobody waits for, or
   something happens in it that nobody asked for. *)
Served(c, reply) ==
  /\ requests' = [requests EXCEPT ![c].answered = TRUE, ![c].reply = reply]
  /\ abandoned' = abandoned /\ requests[c].request.op # "none" /\ Performs(requests[c].request, reply)
ServedLate(r, reply) ==
  requests' = requests /\ abandoned' \subseteq abandoned /\ Performs(r, reply)
Unasked ==
  requests' = requests /\ abandoned' = abandoned /\ processes' \in [Ids -> Stati] /\ staged' \subseteq staged

SandboxMoves ==
  \/ \E c \in Callers, reply \in Reply : Served(c, reply)
  \/ \E r \in abandoned, reply \in Reply : ServedLate(r, reply)
  \/ Unasked

LEMMA SandboxStepMoves ==
  ASSUME TypesKnown, SandboxStep
  PROVE  /\ SandboxMoves
         /\ UNCHANGED <<secrets, calls, known, destroyed, ids>> /\ answer' = NoAnswer
         /\ secrets.client # secrets.gateway /\ processes = None /\ staged = {} =>
              processes' = None /\ staged' = {}
<1>1. processes \in [Ids -> Stati]
  BY DEF TypesKnown
<1>2. UNCHANGED <<calls, known, destroyed, ids>> /\ answer' = NoAnswer
  BY DEF SandboxStep
<1>3. ASSUME NEW c \in Callers, ServeRequest(c)
      PROVE  /\ SandboxMoves /\ secrets' = secrets
             /\ secrets.client # secrets.gateway => processes' = processes /\ staged' = staged
  <2>1. requests[c].request \in Asked
    BY DEF TypesKnown, Pending
  <2>2. PICK reply : /\ GatewayAnswers(requests[c].request, reply)
                     /\ requests' = [requests EXCEPT ![c].answered = TRUE, ![c].reply = reply]
    BY <1>3 DEF ServeRequest
  <2>3. reply \in Reply /\ Served(c, reply)
    BY <2>1, <2>2, <1>3, GatewayPerforms DEF Served, Performs, ServeRequest
  <2> QED
    BY <2>1, <2>2, <2>3, <1>3, GatewayPerforms DEF SandboxMoves, ServeRequest
<1>4. ASSUME NEW r \in abandoned, ServeAbandoned(r)
      PROVE  /\ SandboxMoves /\ secrets' = secrets
             /\ secrets.client # secrets.gateway => processes' = processes /\ staged' = staged
  <2>1. r \in Asked
    BY DEF TypesKnown
  <2>2. PICK reply : GatewayAnswers(r, reply)
    BY <1>4 DEF ServeAbandoned
  <2>3. reply \in Reply /\ ServedLate(r, reply)
    BY <2>1, <2>2, <1>4, GatewayPerforms DEF ServedLate, Performs, ServeAbandoned
  <2> QED
    BY <2>1, <2>2, <2>3, <1>4, GatewayPerforms DEF SandboxMoves, ServeAbandoned
<1>5. ASSUME NEW p \in Ids, ProcessEnds(p) \/ RecordDropped(p)
      PROVE  /\ SandboxMoves /\ secrets' = secrets
             /\ processes = None => FALSE
  <2>1. processes' \in [Ids -> Stati]
    BY <1>1, <1>5 DEF ProcessEnds, RecordDropped, Stati
  <2>2. processes[p] # "none"
    BY <1>5 DEF ProcessEnds, RecordDropped
  <2> QED
    BY <2>1, <2>2, <1>5 DEF ProcessEnds, RecordDropped, SandboxMoves, Unasked, None
<1>6. ASSUME ContainerStops
      PROVE  SandboxMoves /\ secrets' = secrets /\ processes' = None /\ staged' = {}
  BY <1>6, NoneType DEF ContainerStops, SandboxMoves, Unasked
<1> QED
  BY <1>2, <1>3, <1>4, <1>5, <1>6 DEF SandboxStep


LEMMA SandboxKeepsTypes ==
  ASSUME TypesKnown, MethodsWait, IdsGivenOnce, SandboxMoves, UNCHANGED <<secrets, calls, known, destroyed, ids>>,
         Observe
  PROVE  TypesKnown'
<1>1. observed' \in [Callers -> Seen]
  BY DEF TypesKnown, Observe, Seen, Nothing
<1>2. \A c \in Callers : requests[c].request \in Asked
  BY DEF TypesKnown, Pending
<1>3. \A c \in Callers : requests[c].request.op = "writeFile" /\ requests[c].request.n # 0 =>
                           requests[c].request.n \in 1..ids
  <2>1. \A c \in Callers : calls[c].n \in Nat /\ ids \in Nat
    BY EnvironmentAssumption DEF TypesKnown, Call
  <2> QED
    BY <2>1 DEF MethodsWait, Waits, IdsGivenOnce
<1>4. \A r \in abandoned : r.n # 0 => r.n \in 1..ids
  <2>1. \A r \in abandoned : r.n \in Nat /\ ids \in Nat
    BY EnvironmentAssumption DEF TypesKnown, Asked
  <2> QED
    BY <2>1 DEF IdsGivenOnce
<1>5. requests' \in [Callers -> Pending] /\ abandoned' \subseteq abandoned
  <2>1. ASSUME NEW c \in Callers, NEW reply \in Reply, Served(c, reply)
        PROVE  requests' \in [Callers -> Pending]
    <3>1. PICK x : x = [requests[c] EXCEPT !.answered = TRUE, !.reply = reply]
      OBVIOUS
    <3>2. x \in Pending
      BY <3>1 DEF TypesKnown, Pending
    <3>3. requests' = [requests EXCEPT ![c] = x]
      BY <2>1, <3>1 DEF Served
    <3> QED
      BY <3>2, <3>3 DEF TypesKnown
  <2> QED
    BY <2>1 DEF SandboxMoves, Served, ServedLate, Unasked, TypesKnown
<1>6. processes' \in [Ids -> Stati] /\ staged' \subseteq 1..ids
  <2>1. ASSUME NEW c \in Callers, NEW reply \in Reply, Served(c, reply)
        PROVE  processes' \in [Ids -> Stati] /\ staged' \subseteq 1..ids
    BY <2>1, <1>3 DEF Served, Performs, TypesKnown
  <2>2. ASSUME NEW r \in abandoned, NEW reply \in Reply, ServedLate(r, reply)
        PROVE  processes' \in [Ids -> Stati] /\ staged' \subseteq 1..ids
    BY <2>2, <1>4 DEF ServedLate, Performs, TypesKnown
  <2>3. ASSUME Unasked PROVE processes' \in [Ids -> Stati] /\ staged' \subseteq 1..ids
    BY <2>3 DEF Unasked, TypesKnown
  <2> QED
    BY <2>1, <2>2, <2>3 DEF SandboxMoves
<1> QED
  BY <1>1, <1>5, <1>6 DEF TypesKnown

LEMMA SandboxKeepsRequests ==
  ASSUME TypesKnown, SandboxMoves, NEW c \in Callers
  PROVE  /\ requests'[c].request = requests[c].request /\ abandoned' \subseteq abandoned
         /\ requests'[c] # requests[c] =>
              /\ requests'[c].answered /\ requests[c].request.op # "none"
              /\ Performs(requests[c].request, requests'[c].reply)
<1>1. ASSUME NEW d \in Callers, NEW reply \in Reply, Served(d, reply)
      PROVE  requests'[c].request = requests[c].request /\
             (requests'[c] # requests[c] =>
                /\ requests'[c].answered /\ requests[c].request.op # "none"
                /\ Performs(requests[c].request, requests'[c].reply))
  <2>1. requests'[c] = IF c = d THEN [requests[c] EXCEPT !.answered = TRUE, !.reply = reply] ELSE requests[c]
    BY <1>1 DEF Served, TypesKnown
  <2>2. requests[c] \in Pending
    BY DEF TypesKnown
  <2>3. c = d => requests'[c].request = requests[c].request /\ requests'[c].answered
                 /\ requests'[c].reply = reply
    BY <2>1, <2>2 DEF Pending
  <2> QED
    BY <2>1, <2>3, <1>1 DEF Served
<1> QED
  BY <1>1 DEF SandboxMoves, Served, ServedLate, Unasked

LEMMA SandboxKeepsReplies ==
  ASSUME MethodsInv, SandboxMoves, UNCHANGED <<secrets, calls, known, destroyed, ids>>, Observe
  PROVE  /\ MethodsWait' /\ IdsGivenOnce' /\ StagingRemembered' /\ RepliesHonest' /\ RemovalLasts'
         /\ ListsAgree'
<1> USE DEF MethodsInv
<1>1. MethodsWait' /\ IdsGivenOnce' /\ StagingRemembered'
  <2>1. /\ \A c \in Callers : requests'[c].request = requests[c].request
        /\ abandoned' \subseteq abandoned
    <3>1. CASE Callers = {}
      BY <3>1 DEF SandboxMoves, ServedLate, Unasked
    <3>2. CASE Callers # {}
      BY <3>2, SandboxKeepsRequests
    <3> QED
      BY <3>1, <3>2
  <2>2. MethodsWait'
    BY <2>1 DEF MethodsWait
  <2>3. IdsGivenOnce'
    BY <2>1 DEF IdsGivenOnce
  <2>4. StagingRemembered'
    BY <2>1 DEF StagingRemembered
  <2> QED
    BY <2>2, <2>3, <2>4
<1>2. RepliesHonest'
  BY SandboxKeepsRequests DEF RepliesHonest, Performs
<1>3. RemovalLasts'
  <2> SUFFICES ASSUME NEW c \in Callers, calls[c].op = "exec", calls[c].at = "unstage", ~calls[c].cut,
                      requests'[c].answered, requests'[c].reply.ok
               PROVE  calls[c].n \notin staged'
    BY DEF RemovalLasts
  <2>1. /\ calls[c].n # 0 /\ requests[c].request.op = "deleteFile"
        /\ requests[c].request.n = calls[c].n
    BY DEF MethodsWait, Waits
  <2>2. CASE requests'[c] # requests[c]
    BY <2>1, <2>2, SandboxKeepsRequests DEF Performs
  <2>3. CASE requests'[c] = requests[c]
    <3>1. calls[c].n \notin staged
      BY <2>3 DEF RemovalLasts
    <3>2. ASSUME NEW d \in Callers, NEW reply \in Reply, Served(d, reply)
          PROVE  calls[c].n \notin staged'
      <4>1. requests[d].request.op = "writeFile" /\ requests[d].request.n # 0 =>
              requests[d].request.n # calls[c].n
        BY <2>1 DEF MethodsWait, Waits, IdsGivenOnce
      <4> QED
        BY <4>1, <3>1, <3>2 DEF Served, Performs
    <3>3. ASSUME NEW r \in abandoned, NEW reply \in Reply, ServedLate(r, reply)
          PROVE  calls[c].n \notin staged'
      <4>1. r.op = "writeFile" /\ r.n # 0 => r.n # calls[c].n
        BY DEF StagingRemembered
      <4> QED
        BY <4>1, <3>1, <3>3 DEF ServedLate, Performs
    <3> QED
      BY <3>1, <3>2, <3>3 DEF SandboxMoves, Unasked
  <2> QED
    BY <2>2, <2>3
<1>4. ListsAgree'
  <2> SUFFICES ASSUME NEW c \in Callers, calls[c].op = "getState"
               PROVE  /\ Agrees(processes', observed'[c])
                      /\ calls[c].listed => Agrees(calls[c].list, observed'[c])
                      /\ ~calls[c].listed /\ requests'[c].answered /\ requests'[c].reply.ok =>
                           Agrees(requests'[c].reply.list, observed'[c])
    BY DEF ListsAgree, Agrees
  <2>1. observed'[c] = [ran |-> observed[c].ran \cap {p \in Ids : processes'[p] = "running"},
                        idle |-> observed[c].idle \ {p \in Ids : processes'[p] = "running"}]
    BY DEF Observe
  <2>2. observed[c] \in Seen
    BY DEF TypesKnown
  <2>3. Agrees(processes', observed'[c])
    BY <2>1, <2>2 DEF Agrees, Seen
  <2>4. \A list : Agrees(list, observed[c]) => Agrees(list, observed'[c])
    BY <2>1 DEF Agrees
  <2>5. ~calls[c].listed /\ requests'[c].answered /\ requests'[c].reply.ok =>
           Agrees(requests'[c].reply.list, observed'[c])
    <3>1. CASE requests'[c] # requests[c]
      <4>1. ~calls[c].listed => requests[c].request.op = "listProcesses"
        BY DEF MethodsWait, Waits
      <4>2. ~calls[c].listed /\ requests'[c].reply.ok =>
              requests'[c].reply.list = processes /\ processes' = processes
        BY <3>1, <4>1, SandboxKeepsRequests DEF Performs
      <4> QED
        BY <4>2, <2>3
    <3>2. CASE requests'[c] = requests[c]
      BY <3>2, <2>4 DEF ListsAgree
    <3> QED
      BY <3>1, <3>2
  <2> QED
    BY <2>3, <2>4, <2>5 DEF ListsAgree
<1> QED
  BY <1>1, <1>2, <1>3, <1>4


-----------------------------------------------------------------------------
(* A method that returns, and one that sends its next request, make an exchange. *)
LEMMA NothingWaits ==
  /\ Waits(NoCall, Idle.request) /\ NoCall.op = "none" /\ NoCall.n = 0
  /\ ~NoCall.listed /\ ~NoCall.staged /\ ~NoCall.cut /\ ~NoCall.expired /\ ~NoCall.informed
<1>1. /\ NoCall.op = "none" /\ NoCall.n = 0 /\ NoCall.at = "none"
      /\ ~NoCall.listed /\ ~NoCall.staged /\ ~NoCall.cut /\ ~NoCall.expired /\ ~NoCall.informed
  BY DEF NoCall
<1>2. NoRequest.op = "none" /\ NoRequest.n = 0
  BY DEF NoRequest
<1> QED
  BY <1>1, <1>2, IdleType DEF Waits

LEMMA EndsExchange ==
  ASSUME NEW c \in Callers, calls' = [calls EXCEPT ![c] = NoCall], Done(c),
         UNCHANGED <<secrets, processes, staged, ids>>,
         abandoned' \in {abandoned, abandoned \cup {requests[c].request}}
  PROVE  Exchange(c, NoCall, Idle)
BY NothingWaits, IdleType, NoCallType DEF Exchange, Abandons, Done

LEMMA SendExchange ==
  ASSUME NEW c \in Callers, NEW call \in Call, NEW r \in Asked, calls' = [calls EXCEPT ![c] = call], Send(c, r),
         UNCHANGED <<secrets, processes, staged>>, Waits(call, r), ~call.listed,
         \/ ids' = ids /\ call.n \in {0, calls[c].n}
         \/ ids' = ids + 1 /\ ids' <= MaxIds /\ call.n = ids' /\ ~call.cut /\ calls[c].n = 0,
         calls[c].cut /\ call.n # 0 /\ call.n = calls[c].n => call.cut, Abandons(c, call)
  PROVE  \E x \in Pending : Exchange(c, call, x)
<1>1. PICK x : x = [Idle EXCEPT !.request = r]
  OBVIOUS
<1>2. x \in Pending /\ x.request = r /\ ~x.answered
  BY <1>1, SentType
<1>3. requests' = [requests EXCEPT ![c] = x]
  BY <1>1 DEF Send
<1>4. Exchange(c, call, x)
  BY <1>2, <1>3 DEF Exchange, Listens
<1> QED
  BY <1>2, <1>4

(* What a method that waits learns. *)
LEMMA Learned ==
  ASSUME TypesKnown, NEW c \in Callers, NEW reply, NEW lost \in BOOLEAN, Learns(c, reply, lost)
  PROVE  /\ reply \in Reply /\ requests[c].request.op # "none"
         /\ ~lost => requests[c].answered /\ reply = requests[c].reply /\ abandoned' = abandoned
         /\ lost => ~reply.ok /\ ~reply.expired
         /\ abandoned' \in {abandoned, abandoned \cup {requests[c].request}}
<1>1. requests[c] \in Pending
  BY DEF TypesKnown
<1>2. CASE ~lost
  BY <1>1, <1>2 DEF Learns, Pending
<1>3. CASE lost
  <2>1. PICK kind \in LostKinds : reply = Failed(kind)
    BY <1>3 DEF Learns
  <2>2. kind \in Kinds
    BY DEF LostKinds, Kinds, ErrorKinds
  <2> QED
    BY <1>3, <2>1, <2>2, FailedType DEF Learns
<1> QED
  BY <1>2, <1>3

-----------------------------------------------------------------------------
(* What a method may do besides: the table and the answer. *)
KnownKept ==
  /\ known' \in [Ids -> {"none", "running", "exited", "killed"}]
  /\ \A p \in Ids :
       /\ known[p] # "none" => known'[p] # "none"
       /\ known[p] = "killed" =>
            \/ known'[p] \in {"killed", "running"}
            \/ answer'.op = "startProcess" /\ answer'.n = p

CommandTold ==
  answer'.op = "exec" =>
    /\ ~answer'.cut => answer'.n \notin staged
    /\ answer'.status = "ok" /\ answer'.expired => answer'.timedOut

StateTold ==
  answer'.op = "getState" /\ answer'.status = "ready" =>
    \E list \in [Ids -> Stati] :
      /\ answer'.by \in Callers /\ calls[answer'.by].op = "getState"
      /\ Agrees(list, observed[answer'.by]) /\ known' = Merged(list)

MethodStep(c) ==
  /\ \E call, x : Exchange(c, call, x)
  /\ KnownKept /\ CommandTold /\ StateTold /\ destroyed' \in BOOLEAN

LEMMA NoAnswerTold == answer' = NoAnswer => CommandTold /\ StateTold
BY DEF NoAnswer, CommandTold, StateTold

LEMMA KnownUnchanged == TypesKnown /\ known' = known => KnownKept
BY DEF TypesKnown, KnownKept

LEMMA OtherTold ==
  ASSUME NEW c, NEW k, NEW status, NEW timedOut, Ends(c, k, status, timedOut),
         k.op \notin {"exec", "getState"}
  PROVE  CommandTold /\ StateTold
BY DEF Ends, CommandTold, StateTold

(* The end of a command, and the removal of its input that comes before it. *)
LEMMA FinishStep ==
  ASSUME TypesKnown, NEW c \in Callers, NEW k \in Call, NEW status \in Results, NEW timedOut \in BOOLEAN,
         Finish(c, k, status, timedOut), k.op = "exec", ~k.listed, k.n = calls[c].n, k.staged => k.n # 0,
         k.expired /\ status = "ok" => timedOut, calls[c].cut => k.cut,
         ~k.staged /\ ~k.cut => k.n \notin staged,
         UNCHANGED <<secrets, processes, staged, ids, known, destroyed>>,
         abandoned' \in {abandoned, abandoned \cup {requests[c].request}},
         abandoned' # abandoned /\ requests[c].request.op = "writeFile" => k.cut
  PROVE  MethodStep(c)
<1>1. KnownKept /\ destroyed' \in BOOLEAN
  BY KnownUnchanged DEF TypesKnown
<1>2. CASE k.staged
  <2>1. PICK call : call = [k EXCEPT !.at = "unstage", !.timed = timedOut, !.result = status]
    OBVIOUS
  <2>2. /\ call \in Call /\ call.op = "exec" /\ call.at = "unstage" /\ call.n = k.n /\ call.staged
        /\ call.cut = k.cut /\ call.expired = k.expired /\ call.timed = timedOut
        /\ call.result = status /\ ~call.listed
    <3>1. "unstage" \in Places
      BY DEF Places, Operations
    <3> QED
      BY <2>1, <3>1, <1>2 DEF Call
  <2>3. PICK r : r = Request("deleteFile", k.n, "/absolute")
    OBVIOUS
  <2>4. r \in Asked /\ r.op = "deleteFile" /\ r.n = k.n
    <3>1. "deleteFile" \in Operations /\ "/absolute" \in Texts /\ k.n \in 0..MaxIds
      BY DEF Operations, Texts, Call
    <3> QED
      BY <2>3, <3>1, RequestType
  <2>5. calls' = [calls EXCEPT ![c] = call] /\ Send(c, r) /\ answer' = NoAnswer
    BY <1>2, <2>1, <2>3 DEF Finish, GoOn
  <2>6. Waits(call, r)
    BY <2>2, <2>4, <1>2 DEF Waits
  <2>7. Abandons(c, call)
    BY <2>2 DEF Abandons
  <2>8. \E x \in Pending : Exchange(c, call, x)
    BY <2>2, <2>4, <2>5, <2>6, <2>7, SendExchange
  <2> QED
    BY <1>1, <2>5, <2>8, NoAnswerTold DEF MethodStep
<1>3. CASE ~k.staged
  <2>1. Ends(c, k, status, timedOut) /\ Done(c)
    BY <1>3 DEF Finish
  <2>2. Exchange(c, NoCall, Idle)
    BY <2>1, EndsExchange DEF Ends
  <2>3. CommandTold /\ StateTold
    BY <2>1, <1>3 DEF Ends, CommandTold, StateTold
  <2> QED
    BY <1>1, <2>2, <2>3 DEF MethodStep
<1> QED
  BY <1>2, <1>3


-----------------------------------------------------------------------------
(* runCommand. *)
LEMMA ExecStep ==
  ASSUME TypesKnown, NEW c \in Callers, NEW k \in Call, Exec(c, k), k.op = "exec", ~k.listed, ~k.expired, ~k.cut,
         k.staged <=> k.n # 0, k.n \in {0, calls[c].n}, calls[c].cut => k.n = 0,
         UNCHANGED <<secrets, processes, staged, ids, known, destroyed, abandoned>>
  PROVE  MethodStep(c)
<1>1. PICK call : call = [k EXCEPT !.at = "exec"]
  OBVIOUS
<1>2. /\ call \in Call /\ call.op = "exec" /\ call.at = "exec" /\ call.n = k.n
      /\ call.staged = k.staged /\ call.timed = k.timed /\ ~call.cut /\ ~call.expired /\ ~call.listed
  <2>1. "exec" \in Places
    BY DEF Places, Operations
  <2> QED
    BY <1>1, <2>1 DEF Call
<1>3. PICK q : q = ExecRequest(k)
  OBVIOUS
<1>4. q \in Asked /\ q.op = "exec" /\ q.n = 0
  <2>1. PICK text \in Texts : text = IF k.staged \/ k.timed THEN "command" ELSE k.text
    BY DEF Texts, Call
  <2>2. "exec" \in Operations /\ 0 \in 0..MaxIds
    BY EnvironmentAssumption DEF Operations
  <2> QED
    BY <1>3, <2>1, <2>2, RequestType DEF ExecRequest
<1>5. PICK timeout \in {"none", "positive"} : timeout = IF k.timed THEN "positive" ELSE "none"
  OBVIOUS
<1>6. PICK r : r = [q EXCEPT !.timeout = timeout]
  OBVIOUS
<1>7. r \in Asked /\ r.op = "exec" /\ r.n = 0 /\ (r.timeout = "positive" => k.timed)
  BY <1>4, <1>5, <1>6 DEF Asked
<1>8. calls' = [calls EXCEPT ![c] = call] /\ Send(c, r) /\ answer' = NoAnswer
  BY <1>1, <1>3, <1>5, <1>6 DEF Exec, GoOn
<1>9. Waits(call, r)
  BY <1>2, <1>7 DEF Waits
<1>10. \E x \in Pending : Exchange(c, call, x)
  BY <1>2, <1>7, <1>8, <1>9, SendExchange DEF Abandons
<1> QED
  BY <1>8, <1>10, NoAnswerTold, KnownUnchanged DEF MethodStep, TypesKnown

LEMMA FailsStep ==
  ASSUME TypesKnown, NEW c \in Callers, NEW k \in Call, NEW kind, CommandFails(c, k, kind),
         k.op = "exec", ~k.listed, ~k.expired, k.n = calls[c].n, k.staged => k.n # 0, calls[c].cut => k.cut,
         ~k.staged /\ ~k.cut => k.n \notin staged,
         UNCHANGED <<secrets, processes, staged, ids, known, destroyed>>,
         abandoned' \in {abandoned, abandoned \cup {requests[c].request}},
         abandoned' # abandoned /\ requests[c].request.op = "writeFile" => k.cut
  PROVE  MethodStep(c)
<1>1. PICK backstop \in BOOLEAN : backstop = (kind = "request_timeout" /\ k.timed)
  OBVIOUS
<1>2. PICK status \in Results : status = IF backstop THEN "ok" ELSE EnvironmentCode(kind)
  BY CodeType DEF Results
<1>3. Finish(c, k, status, backstop)
  BY <1>1, <1>2 DEF CommandFails
<1> QED
  BY <1>3, FinishStep

LEMMA RunCommandStep ==
  ASSUME MethodsInv, NEW c \in Callers, NEW timed \in BOOLEAN, NEW text \in Commands, RunCommand(c, timed, text)
  PROVE  MethodStep(c)
<1>1. PICK k : k = [NoCall EXCEPT !.op = "exec", !.timed = timed, !.text = text]
  OBVIOUS
<1>2. /\ k \in Call /\ k.op = "exec" /\ k.n = 0
      /\ ~k.staged /\ k.timed = timed /\ ~k.cut /\ ~k.expired /\ ~k.listed
  <2>1. "exec" \in Methods /\ text \in Texts
    BY DEF Methods, Texts
  <2> QED
    BY <1>1, <2>1, NoCallType, NothingWaits DEF Call
<1>3. calls[c].op = "none" /\ calls[c] \in Call /\ calls[c].n = 0
  BY DEF RunCommand, Free, MethodsInv, TypesKnown, MethodsWait, Waits
<1>4. ids \in Nat
  BY EnvironmentAssumption DEF MethodsInv, TypesKnown
<1>5. CASE Exec(c, k) /\ NoId
  BY <1>2, <1>3, <1>5, ExecStep DEF RunCommand, NoId, Quiet, MethodsInv
<1>6. CASE /\ FreshId
           /\ GoOn(c, [k EXCEPT !.staged = TRUE, !.n = ids + 1, !.at = "stage"])
           /\ Send(c, Request("writeFile", ids + 1, "/absolute"))
  <2>1. PICK n : n = ids + 1
    OBVIOUS
  <2>2. n \in 1..MaxIds /\ ids' = n /\ n # 0
    BY <1>4, <1>6, <2>1, EnvironmentAssumption DEF FreshId
  <2>3. PICK call : call = [k EXCEPT !.staged = TRUE, !.n = n, !.at = "stage"]
    OBVIOUS
  <2>4. /\ call \in Call /\ call.op = "exec" /\ call.at = "stage" /\ call.n = n
        /\ call.staged /\ ~call.cut /\ ~call.expired /\ ~call.listed
    <3>1. "stage" \in Places /\ n \in 0..MaxIds
      BY <2>2 DEF Places, Operations
    <3> QED
      BY <1>2, <2>3, <3>1 DEF Call
  <2>5. PICK r : r = Request("writeFile", n, "/absolute")
    OBVIOUS
  <2>6. r \in Asked /\ r.op = "writeFile" /\ r.n = n
    <3>1. "writeFile" \in Operations /\ "/absolute" \in Texts /\ n \in 0..MaxIds
      BY <2>2 DEF Operations, Texts
    <3> QED
      BY <2>5, <3>1, RequestType
  <2>7. calls' = [calls EXCEPT ![c] = call] /\ Send(c, r) /\ answer' = NoAnswer
    BY <1>6, <2>1, <2>3, <2>5 DEF GoOn
  <2>8. Waits(call, r)
    BY <2>2, <2>4, <2>6 DEF Waits
  <2>9. ids' = ids + 1 /\ ids' <= MaxIds /\ call.n = ids' /\ ~call.cut /\ calls[c].n = 0
    BY <1>3, <2>1, <2>2, <2>4, EnvironmentAssumption
  <2>10. UNCHANGED <<secrets, processes, staged, known, destroyed, abandoned>>
    BY DEF RunCommand, Quiet
  <2>11. \E x \in Pending : Exchange(c, call, x)
    BY <1>3, <2>2, <2>4, <2>6, <2>7, <2>8, <2>9, <2>10, SendExchange DEF Abandons
  <2> QED
    BY <2>7, <2>10, <2>11, NoAnswerTold, KnownUnchanged DEF MethodStep, TypesKnown, MethodsInv
<1> QED
  BY <1>1, <1>5, <1>6 DEF RunCommand

LEMMA CommandStagedStep ==
  ASSUME MethodsInv, NEW c \in Callers, NEW reply, NEW lost \in BOOLEAN, CommandStaged(c, reply, lost)
  PROVE  MethodStep(c)
<1> USE DEF MethodsInv
<1>1. /\ calls[c] \in Call /\ calls[c].op = "exec" /\ calls[c].at = "stage"
      /\ Waits(calls[c], requests[c].request)
  BY DEF CommandStaged, At, TypesKnown, MethodsWait
<1>2. /\ calls[c].staged /\ calls[c].n # 0 /\ ~calls[c].expired /\ ~calls[c].cut
  BY <1>1 DEF Waits
<1>3. /\ reply \in Reply
      /\ ~lost => abandoned' = abandoned
      /\ lost => ~reply.ok
      /\ abandoned' \in {abandoned, abandoned \cup {requests[c].request}}
  BY Learned DEF CommandStaged
<1>4. UNCHANGED <<secrets, processes, staged, ids, known, destroyed>>
  BY DEF CommandStaged, Quiet, NoId
<1>5. CASE reply.ok
  <2>1. Exec(c, calls[c]) /\ ~calls[c].listed
    BY <1>1, <1>5 DEF CommandStaged, Waits
  <2> QED
    BY <2>1, <1>1, <1>2, <1>3, <1>4, <1>5, ExecStep
<1>6. CASE ~reply.ok
  <2>1. PICK k : k = [calls[c] EXCEPT !.cut = lost]
    OBVIOUS
  <2>2. /\ k \in Call /\ k.op = "exec" /\ ~k.listed /\ k.n = calls[c].n /\ k.staged /\ ~k.expired
        /\ k.cut = lost
    <3>1. ~calls[c].listed
      BY <1>1 DEF Waits
    <3> QED
      BY <2>1, <1>1, <1>2, <3>1 DEF Call
  <2>3. CommandFails(c, k, reply.kind)
    BY <1>6, <2>1 DEF CommandStaged
  <2> QED
    BY <2>2, <2>3, <1>2, <1>3, <1>4, FailsStep
<1> QED
  BY <1>5, <1>6

LEMMA CommandRanStep ==
  ASSUME MethodsInv, NEW c \in Callers, NEW reply, NEW lost \in BOOLEAN, CommandRan(c, reply, lost)
  PROVE  MethodStep(c)
<1> USE DEF MethodsInv
<1>1. /\ calls[c] \in Call /\ calls[c].op = "exec" /\ calls[c].at = "exec"
      /\ Waits(calls[c], requests[c].request)
  BY DEF CommandRan, At, TypesKnown, MethodsWait
<1>2. /\ calls[c].staged <=> calls[c].n # 0
      /\ ~calls[c].cut /\ ~calls[c].listed /\ requests[c].request.op = "exec"
      /\ requests[c].request.timeout = "positive" => calls[c].timed
  BY <1>1 DEF Waits
<1>3. /\ reply \in Reply
      /\ ~lost => requests[c].answered /\ reply = requests[c].reply
      /\ lost => ~reply.ok /\ ~reply.expired
      /\ abandoned' \in {abandoned, abandoned \cup {requests[c].request}}
  BY Learned DEF CommandRan
<1>4. UNCHANGED <<secrets, processes, staged, ids, known, destroyed>>
  BY DEF CommandRan, Quiet, NoId
<1>5. PICK k : k = [calls[c] EXCEPT !.expired = reply.expired]
  OBVIOUS
<1>6. /\ k \in Call /\ k.op = "exec" /\ ~k.listed /\ k.n = calls[c].n /\ k.staged = calls[c].staged
      /\ ~k.cut /\ k.expired = reply.expired /\ k.timed = calls[c].timed
  <2>1. reply.expired \in BOOLEAN
    BY <1>3 DEF Reply
  <2> QED
    BY <1>1, <1>2, <1>5, <2>1 DEF Call
<1>7. reply.expired => reply.exit \in {124, 137} /\ k.timed
  BY <1>2, <1>3, <1>6 DEF RepliesHonest
<1>8. ~k.staged => k.n \notin staged
  BY <1>2, <1>6 DEF TypesKnown
<1>9. CASE reply.ok
  <2>1. PICK late \in IF reply.expired THEN {TRUE} ELSE BOOLEAN :
          Finish(c, k, "ok", TimedOut(k.timed, reply.exit, late))
    BY <1>5, <1>9 DEF CommandRan
  <2>2. PICK timedOut \in BOOLEAN : timedOut = TimedOut(k.timed, reply.exit, late)
    BY DEF TimedOut
  <2>3. k.expired => timedOut
    BY <1>6, <1>7, <2>1, <2>2 DEF TimedOut
  <2>4. Finish(c, k, "ok", timedOut) /\ "ok" \in Results
    BY <2>1, <2>2 DEF Results
  <2> QED
    BY <1>2, <1>3, <1>4, <1>6, <1>8, <2>3, <2>4, FinishStep
<1>10. CASE ~reply.ok
  <2>1. CommandFails(c, k, reply.kind) /\ ~k.expired
    <3>1. ~reply.expired
      BY <1>3, <1>10 DEF RepliesHonest
    <3> QED
      BY <1>5, <1>6, <1>10, <3>1 DEF CommandRan
  <2> QED
    BY <1>2, <1>3, <1>4, <1>6, <1>8, <2>1, FailsStep
<1> QED
  BY <1>9, <1>10

LEMMA CommandUnstagedStep ==
  ASSUME MethodsInv, NEW c \in Callers, NEW reply, NEW lost \in BOOLEAN, CommandUnstaged(c, reply, lost)
  PROVE  MethodStep(c)
<1> USE DEF MethodsInv
<1>1. /\ calls[c] \in Call /\ calls[c].op = "exec" /\ calls[c].at = "unstage"
      /\ Waits(calls[c], requests[c].request)
  BY DEF CommandUnstaged, At, TypesKnown, MethodsWait
<1>2. /\ calls[c].n # 0 /\ requests[c].request.op = "deleteFile" /\ ~calls[c].listed
      /\ calls[c].expired /\ calls[c].result = "ok" => calls[c].timed
  BY <1>1 DEF Waits
<1>3. /\ reply \in Reply
      /\ ~lost => requests[c].answered /\ reply = requests[c].reply
      /\ lost => ~reply.ok
      /\ abandoned' \in {abandoned, abandoned \cup {requests[c].request}}
  BY Learned DEF CommandUnstaged
<1>4. UNCHANGED <<secrets, processes, staged, ids, known, destroyed>>
  BY DEF CommandUnstaged, Quiet, NoId
<1>5. PICK cut \in BOOLEAN : cut = (calls[c].cut \/ ~reply.ok)
  OBVIOUS
<1>6. PICK k : k = [calls[c] EXCEPT !.cut = cut, !.staged = FALSE]
  OBVIOUS
<1>7. /\ k \in Call /\ k.op = "exec" /\ ~k.listed /\ k.n = calls[c].n /\ ~k.staged
      /\ k.cut = cut /\ k.expired = calls[c].expired
  BY <1>1, <1>2, <1>5, <1>6 DEF Call
<1>8. ~k.cut => k.n \notin staged
  BY <1>1, <1>3, <1>5, <1>7 DEF RemovalLasts
<1>9. Finish(c, k, calls[c].result, calls[c].timed)
  <2>1. k = [[calls[c] EXCEPT !.cut = cut] EXCEPT !.staged = FALSE]
    BY <1>1, <1>6 DEF Call
  <2>2. [calls[c] EXCEPT !.cut = cut].result = calls[c].result
         /\ [calls[c] EXCEPT !.cut = cut].timed = calls[c].timed
    BY <1>1 DEF Call
  <2>3. [calls[c] EXCEPT !.cut = @ \/ ~reply.ok] = [calls[c] EXCEPT !.cut = cut]
    BY <1>5
  <2> QED
    BY <2>1, <2>2, <2>3 DEF CommandUnstaged
<1>10. calls[c].result \in Results /\ calls[c].timed \in BOOLEAN /\ (calls[c].cut => k.cut)
  BY <1>1, <1>5, <1>7 DEF Call
<1> QED
  BY <1>2, <1>3, <1>4, <1>7, <1>8, <1>9, <1>10, FinishStep


-----------------------------------------------------------------------------
(* The other methods: how they begin, and how they return. *)
LEMMA BeginStep ==
  ASSUME MethodsInv, NEW c \in Callers, NEW k \in Call, NEW r \in Asked, Begin(c, k), Send(c, r), Waits(k, r),
         ~k.listed, ~k.cut, \/ NoId /\ k.n = 0
                            \/ FreshId /\ k.n = ids + 1,
         Quiet, UNCHANGED <<known, destroyed, abandoned>>
  PROVE  MethodStep(c)
<1>1. calls[c].n = 0 /\ ids \in Nat
  BY EnvironmentAssumption DEF Begin, Free, MethodsInv, TypesKnown, MethodsWait, Waits
<1>2. \/ ids' = ids /\ k.n \in {0, calls[c].n}
      \/ ids' = ids + 1 /\ ids' <= MaxIds /\ k.n = ids' /\ ~k.cut /\ calls[c].n = 0
  BY <1>1, EnvironmentAssumption DEF NoId, FreshId
<1>3. \E x \in Pending : Exchange(c, k, x)
  BY <1>1, <1>2, SendExchange DEF Begin, Quiet, Abandons
<1> QED
  BY <1>3, NoAnswerTold, KnownUnchanged DEF Begin, MethodStep, MethodsInv, TypesKnown

LEMMA ReturnStep ==
  ASSUME TypesKnown, NEW c \in Callers, NEW reply, NEW lost \in BOOLEAN, Learns(c, reply, lost),
         ReturnReply(c, reply), Done(c), calls[c].op \notin {"exec", "getState"},
         Quiet, NoId, KnownKept, destroyed' \in BOOLEAN
  PROVE  MethodStep(c)
<1>1. Exchange(c, NoCall, Idle)
  BY EndsExchange, Learned DEF ReturnReply, Return, Ends, Quiet, NoId
<1>2. CommandTold /\ StateTold
  BY OtherTold DEF ReturnReply, Return
<1> QED
  BY <1>1, <1>2 DEF MethodStep

LEMMA FileCallStep ==
  ASSUME MethodsInv, NEW c \in Callers, NEW op \in FileCalls, NEW path \in Paths, FileCall(c, op, path)
  PROVE  MethodStep(c)
<1>1. PICK at \in Places : at = IF op = "writeFile" /\ HasParent(path) THEN "mkdir" ELSE op
  BY EnvironmentAssumption DEF Places, Operations
<1>2. PICK k : k = [NoCall EXCEPT !.op = op, !.at = at, !.text = path]
  OBVIOUS
<1>3. k \in Call /\ k.op = op /\ k.n = 0 /\ ~k.listed /\ ~k.cut
  <2>1. op \in Methods /\ path \in Texts
    BY DEF Methods, Texts
  <2> QED
    BY <1>2, <2>1, NoCallType, NothingWaits DEF Call
<1>4. PICK r : r = Request(at, 0, path)
  OBVIOUS
<1>5. r \in Asked /\ r.n = 0
  <2>1. at \in Operations /\ path \in Texts
    BY <1>1, EnvironmentAssumption DEF Operations, Texts
  <2> QED
    BY <1>4, <2>1, PlainRequestType
<1>6. Waits(k, r)
  BY <1>3, <1>5, EnvironmentAssumption DEF Waits
<1>7. Begin(c, k) /\ Send(c, r)
  BY <1>1, <1>2, <1>4 DEF FileCall
<1> QED
  BY <1>3, <1>5, <1>6, <1>7, BeginStep DEF FileCall

LEMMA FileAnsweredStep ==
  ASSUME MethodsInv, NEW c \in Callers, NEW reply, NEW lost \in BOOLEAN, FileAnswered(c, reply, lost)
  PROVE  MethodStep(c)
<1> USE DEF MethodsInv
<1>1. calls[c] \in Call /\ calls[c].op \in FileCalls /\ Waits(calls[c], requests[c].request)
  BY DEF FileAnswered, TypesKnown, MethodsWait
<1>2. calls[c].op \notin {"none", "exec", "getState", "startProcess"}
  BY <1>1, EnvironmentAssumption
<1>3. calls[c].n = 0 /\ ~calls[c].listed
  BY <1>1, <1>2 DEF Waits
<1>4. CASE ReturnReply(c, reply) /\ Done(c)
  BY <1>2, <1>4, ReturnStep, KnownUnchanged DEF FileAnswered, TypesKnown
<1>5. CASE /\ GoOn(c, [calls[c] EXCEPT !.at = "writeFile"])
           /\ Send(c, Request("writeFile", 0, calls[c].text))
           /\ calls[c].at = "mkdir"
  <2>1. PICK k : k = [calls[c] EXCEPT !.at = "writeFile"]
    OBVIOUS
  <2>2. PICK r : r = Request("writeFile", 0, calls[c].text)
    OBVIOUS
  <2>3. r \in Asked /\ r.n = 0
    <3>1. "writeFile" \in Operations /\ calls[c].text \in Texts
      BY <1>1, EnvironmentAssumption DEF Operations, Call
    <3> QED
      BY <2>2, <3>1, PlainRequestType
  <2>4. "writeFile" \in Places
    BY DEF Places, Operations
  <2>5. QED
    <3>1. k \in Call /\ k.op = calls[c].op /\ k.n = 0 /\ ~k.listed /\ k.cut = calls[c].cut
      BY <1>1, <1>3, <2>1, <2>4 DEF Call
    <3>2. Waits(k, r)
      BY <1>2, <2>3, <3>1 DEF Waits
    <3>3. ids' = ids /\ UNCHANGED <<secrets, processes, staged, known, destroyed>> /\ Abandons(c, k)
      BY <3>1, Learned DEF FileAnswered, Quiet, NoId, Abandons
    <3>4. calls' = [calls EXCEPT ![c] = k] /\ Send(c, r) /\ answer' = NoAnswer
      BY <1>5, <2>1, <2>2 DEF GoOn
    <3>5. \E x \in Pending : Exchange(c, k, x)
      BY <2>3, <3>1, <3>2, <3>3, <3>4, SendExchange
    <3> QED
      BY <3>3, <3>4, <3>5, NoAnswerTold, KnownUnchanged DEF MethodStep, TypesKnown
<1> QED
  BY <1>4, <1>5 DEF FileAnswered

LEMMA StartProcessStep ==
  ASSUME MethodsInv, NEW c \in Callers, NEW command \in Commands, StartProcess(c, command)
  PROVE  MethodStep(c)
<1>1. PICK n : n = ids + 1
  OBVIOUS
<1>2. n \in 1..MaxIds /\ ids \in Nat
  BY <1>1, EnvironmentAssumption DEF StartProcess, FreshId, MethodsInv, TypesKnown
<1>3. PICK k : k = [NoCall EXCEPT !.op = "startProcess", !.n = n]
  OBVIOUS
<1>4. k \in Call /\ k.op = "startProcess" /\ k.n = n /\ ~k.listed /\ ~k.cut
  <2>1. "startProcess" \in Methods /\ n \in 0..MaxIds
    BY <1>2 DEF Methods
  <2> QED
    BY <1>3, <2>1, NoCallType, NothingWaits DEF Call
<1>5. PICK r : r = Request("startProcess", n, command)
  OBVIOUS
<1>6. r \in Asked /\ r.op = "startProcess" /\ r.n = n
  <2>1. "startProcess" \in Operations /\ command \in Texts
    BY DEF Operations, Texts
  <2>2. n \in 0..MaxIds
    BY <1>2
  <2> QED
    BY <1>5, <2>1, <2>2, RequestType
<1>7. Waits(k, r)
  BY <1>4, <1>6 DEF Waits
<1>8. Begin(c, k) /\ Send(c, r)
  BY <1>1, <1>3, <1>5 DEF StartProcess
<1> QED
  BY <1>1, <1>4, <1>6, <1>7, <1>8, BeginStep DEF StartProcess

LEMMA ProcessStartedStep ==
  ASSUME MethodsInv, NEW c \in Callers, NEW reply, NEW lost \in BOOLEAN, ProcessStarted(c, reply, lost)
  PROVE  MethodStep(c)
<1> USE DEF MethodsInv
<1>1. KnownKept
  <2>1. CASE ~reply.ok
    BY <2>1, KnownUnchanged DEF ProcessStarted
  <2>2. CASE reply.ok
    <3>1. reply.status \in StartStati
      <4>1. requests[c].answered /\ reply = requests[c].reply
        BY <2>2, Learned DEF ProcessStarted
      <4>2. requests[c].request.op = "startProcess"
        BY DEF ProcessStarted, MethodsWait, Waits
      <4> QED
        BY <4>1, <4>2, <2>2 DEF RepliesHonest
    <3>2. ProcessStatus(reply.status) \in {"running", "exited"}
      BY <3>1 DEF StartStati, ProcessStatus
    <3>3. known' = [known EXCEPT ![calls[c].n] = ProcessStatus(reply.status)]
      BY <2>2 DEF ProcessStarted
    <3>4. answer'.op = "startProcess" /\ answer'.n = calls[c].n
      BY DEF ProcessStarted, ReturnReply, Return, Ends
    <3> QED
      BY <3>2, <3>3, <3>4 DEF KnownKept, TypesKnown
  <2> QED
    BY <2>1, <2>2
<1> QED
  BY <1>1, ReturnStep DEF ProcessStarted, TypesKnown

LEMMA StopProcessStep ==
  ASSUME MethodsInv, NEW c \in Callers, NEW p \in Ids, StopProcess(c, p)
  PROVE  MethodStep(c)
<1>1. PICK k : k = [NoCall EXCEPT !.op = "stopProcess", !.target = p]
  OBVIOUS
<1>2. p \in 0..MaxIds
  BY EnvironmentAssumption DEF Ids
<1>3. k \in Call /\ k.op = "stopProcess" /\ k.n = 0 /\ ~k.listed /\ ~k.cut
  <2>1. "stopProcess" \in Methods
    BY DEF Methods
  <2> QED
    BY <1>1, <1>2, <2>1, NoCallType, NothingWaits DEF Call
<1>4. PICK q : q = Request("killProcess", 0, "")
  OBVIOUS
<1>5. q \in Asked /\ q.op = "killProcess" /\ q.n = 0
  <2>1. "killProcess" \in Operations /\ "" \in Texts
    BY EnvironmentAssumption DEF Operations, Texts
  <2> QED
    BY <1>4, <2>1, PlainRequestType
<1>6. PICK r : r = [q EXCEPT !.target = p]
  OBVIOUS
<1>7. r \in Asked /\ r.op = "killProcess" /\ r.n = 0
  BY <1>2, <1>5, <1>6 DEF Asked
<1>8. Waits(k, r)
  BY <1>3, <1>7 DEF Waits
<1>9. Begin(c, k) /\ Send(c, r)
  BY <1>1, <1>4, <1>6 DEF StopProcess
<1> QED
  BY <1>3, <1>7, <1>8, <1>9, BeginStep DEF StopProcess

LEMMA ProcessStoppedStep ==
  ASSUME MethodsInv, NEW c \in Callers, NEW reply, NEW lost \in BOOLEAN, ProcessStopped(c, reply, lost)
  PROVE  MethodStep(c)
<1> USE DEF MethodsInv
<1>1. KnownKept
  BY DEF ProcessStopped, KnownKept, TypesKnown
<1> QED
  BY <1>1, ReturnStep DEF ProcessStopped, TypesKnown

LEMMA DestroyStep ==
  ASSUME MethodsInv, NEW c \in Callers, Destroy(c)
  PROVE  MethodStep(c)
<1>1. PICK k : k = [NoCall EXCEPT !.op = "destroy"]
  OBVIOUS
<1>2. k \in Call /\ k.op = "destroy" /\ k.n = 0 /\ ~k.listed /\ ~k.cut
  <2>1. "destroy" \in Methods
    BY DEF Methods
  <2> QED
    BY <1>1, <2>1, NoCallType, NothingWaits DEF Call
<1>3. PICK r : r = Request("destroy", 0, "")
  OBVIOUS
<1>4. r \in Asked /\ r.op = "destroy" /\ r.n = 0
  <2>1. "destroy" \in Operations /\ "" \in Texts
    BY EnvironmentAssumption DEF Operations, Texts
  <2> QED
    BY <1>3, <2>1, PlainRequestType
<1>5. Waits(k, r)
  BY <1>2, <1>4 DEF Waits
<1> QED
  BY <1>1, <1>2, <1>3, <1>4, <1>5, BeginStep DEF Destroy

LEMMA DestroyedStep ==
  ASSUME MethodsInv, NEW c \in Callers, NEW reply, NEW lost \in BOOLEAN, Destroyed(c, reply, lost)
  PROVE  MethodStep(c)
<1>1. destroyed' \in BOOLEAN
  BY DEF Destroyed
<1> QED
  BY <1>1, ReturnStep, KnownUnchanged DEF Destroyed, MethodsInv


-----------------------------------------------------------------------------
(* getState. *)
LEMMA MergedKept ==
  ASSUME TypesKnown, NEW list \in [Ids -> Stati], known' = Merged(list)
  PROVE  KnownKept
<1>1. \A s \in Stati \ {"none"} : ProcessStatus(s) \in {"running", "exited", "killed"}
  BY DEF Stati, ProcessStatus
<1>2. ASSUME NEW p \in Ids
      PROVE  /\ Merged(list)[p] \in {"none", "running", "exited", "killed"}
             /\ known[p] # "none" => Merged(list)[p] # "none"
             /\ known[p] = "killed" => Merged(list)[p] \in {"killed", "running"}
  <2>1. known[p] \in {"none", "running", "exited", "killed"} /\ list[p] \in Stati
    BY DEF TypesKnown
  <2>2. Merged(list)[p] =
          IF list[p] # "none"
          THEN IF known[p] = "killed" /\ ProcessStatus(list[p]) # "running"
               THEN "killed" ELSE ProcessStatus(list[p])
          ELSE IF known[p] = "running" THEN "exited" ELSE known[p]
    BY DEF Merged
  <2> QED
    BY <1>1, <2>1, <2>2
<1>3. Merged(list) \in [Ids -> {"none", "running", "exited", "killed"}]
  <2>1. Merged(list) = [p \in Ids |-> Merged(list)[p]]
    BY DEF Merged
  <2> QED
    BY <1>2, <2>1
<1> QED
  BY <1>2, <1>3 DEF KnownKept

(* The merge shows what the list shows. *)
LEMMA MergedAgrees ==
  ASSUME TypesKnown, NEW list \in [Ids -> Stati], NEW seen \in Seen, Agrees(list, seen)
  PROVE  Agrees(Merged(list), seen)
<1>1. \A s \in Stati \ {"none"} : ProcessStatus(s) = "running" <=> s = "running"
  BY DEF Stati, ProcessStatus
<1>2. \A p \in Ids : Merged(list)[p] = "running" <=> list[p] = "running"
  <2> SUFFICES ASSUME NEW p \in Ids PROVE Merged(list)[p] = "running" <=> list[p] = "running"
    OBVIOUS
  <2>1. list[p] \in Stati
    OBVIOUS
  <2>2. Merged(list)[p] =
          IF list[p] # "none"
          THEN IF known[p] = "killed" /\ ProcessStatus(list[p]) # "running"
               THEN "killed" ELSE ProcessStatus(list[p])
          ELSE IF known[p] = "running" THEN "exited" ELSE known[p]
    BY DEF Merged
  <2> QED
    BY <1>1, <2>1, <2>2
<1> QED
  BY <1>2 DEF Agrees, Seen

LEMMA GetStateStep ==
  ASSUME MethodsInv, NEW c \in Callers, GetState(c)
  PROVE  MethodStep(c)
<1>1. PICK k : k = [NoCall EXCEPT !.op = "getState"]
  OBVIOUS
<1>2. k \in Call /\ k.op = "getState" /\ k.n = 0 /\ ~k.listed /\ ~k.cut
  <2>1. "getState" \in Methods
    BY DEF Methods
  <2> QED
    BY <1>1, <2>1, NoCallType, NothingWaits DEF Call
<1>3. PICK r : r = Request("listProcesses", 0, "")
  OBVIOUS
<1>4. r \in Asked /\ r.op = "listProcesses" /\ r.n = 0
  <2>1. "listProcesses" \in Operations /\ "" \in Texts
    BY DEF Operations, Texts
  <2> QED
    BY <1>3, <2>1, PlainRequestType
<1>5. Waits(k, r)
  BY <1>2, <1>4 DEF Waits
<1> QED
  BY <1>1, <1>2, <1>3, <1>4, <1>5, BeginStep DEF GetState

(* It returns: with what the two answers tell, or with what the first failure tells. *)
LEMMA StateReturns ==
  ASSUME MethodsInv, NEW c \in Callers, NEW status, Return(c, status), calls[c].op = "getState",
         Quiet, NoId, destroyed' = destroyed,
         \/ Done(c) /\ abandoned' \in {abandoned, abandoned \cup {requests[c].request}}
         \/ requests' = requests /\ calls[c].listed /\ abandoned' = abandoned,
         \/ status # "ready" /\ known' = known
         \/ \E list \in [Ids -> Stati] : Agrees(list, observed[c]) /\ known' = Merged(list)
  PROVE  MethodStep(c)
<1> USE DEF MethodsInv
<1>1. \E x : Exchange(c, NoCall, x)
  <2>1. CASE Done(c) /\ abandoned' \in {abandoned, abandoned \cup {requests[c].request}}
    BY <2>1, EndsExchange DEF Return, Ends, Quiet, NoId
  <2>2. CASE requests' = requests /\ calls[c].listed /\ abandoned' = abandoned
    <3>1. requests[c].request = NoRequest
      BY <2>2 DEF MethodsWait, Waits
    <3>2. ~requests[c].answered
      <4>1. NoRequest.op = "none"
        BY DEF NoRequest
      <4> QED
        BY <3>1, <4>1 DEF RepliesHonest
    <3>3. requests' = [requests EXCEPT ![c] = requests[c]] /\ requests[c] \in Pending
      BY <2>2 DEF TypesKnown
    <3>4. Waits(NoCall, requests[c].request)
      BY <3>1, NothingWaits, IdleType
    <3> QED
      BY <2>2, <3>2, <3>3, <3>4, NothingWaits, NoCallType DEF Exchange, Abandons, Return, Ends, Quiet, NoId
  <2> QED
    BY <2>1, <2>2
<1>2. /\ answer'.op = "getState" /\ answer'.by = c /\ answer'.status = status
  BY DEF Return, Ends
<1>3. CommandTold /\ StateTold
  BY <1>2 DEF CommandTold, StateTold
<1>4. KnownKept
  BY MergedKept, KnownUnchanged
<1> QED
  BY <1>1, <1>3, <1>4 DEF MethodStep, TypesKnown

LEMMA UnknownReturns ==
  ASSUME NEW c, NEW kind, StateUnknown(c, kind)
  PROVE  \E status : Return(c, status) /\ status # "ready" /\ known' = known
<1>1. PICK status : status = CASE kind = "unauthorized" -> "internal"
                               [] kind \in {"container_unavailable", "request_timeout"} -> "starting"
                               [] OTHER -> "error"
  OBVIOUS
<1>2. status # "ready"
  BY <1>1
<1> QED
  BY <1>1, <1>2 DEF StateUnknown

(* It learns one of its two answers and waits for the other. *)
LEMMA StateGoesOn ==
  ASSUME MethodsInv, NEW c \in Callers, NEW k \in Call, GoOn(c, k), calls[c].op = "getState",
         k.op = "getState", k.n = 0, NEW x \in Pending, requests' = [requests EXCEPT ![c] = x],
         Listens(c, k, x), x.answered => x = requests[c], Waits(k, x.request),
         Quiet, NoId, UNCHANGED <<known, destroyed, abandoned>>
  PROVE  MethodStep(c)
<1>1. Exchange(c, k, x)
  BY DEF Exchange, Abandons, GoOn, Quiet, NoId
<1> QED
  BY <1>1, NoAnswerTold, KnownUnchanged DEF GoOn, MethodStep, MethodsInv, TypesKnown

LEMMA StateListedStep ==
  ASSUME MethodsInv, NEW c \in Callers, NEW reply, NEW lost \in BOOLEAN, StateListed(c, reply, lost)
  PROVE  MethodStep(c)
<1> USE DEF MethodsInv
<1>1. /\ calls[c] \in Call /\ calls[c].op = "getState" /\ ~calls[c].listed /\ calls[c].n = 0
  BY DEF StateListed, TypesKnown, MethodsWait, Waits
<1>2. /\ reply \in Reply
      /\ reply.ok => requests[c].answered /\ reply = requests[c].reply /\ abandoned' = abandoned
      /\ abandoned' \in {abandoned, abandoned \cup {requests[c].request}}
  BY Learned DEF StateListed
<1>3. CASE ~reply.ok
  BY <1>1, <1>2, <1>3, UnknownReturns, StateReturns DEF StateListed
<1>4. CASE reply.ok
  <2>1. PICK k : k = [calls[c] EXCEPT !.list = reply.list, !.listed = TRUE]
    OBVIOUS
  <2>2. /\ k \in Call /\ k.op = "getState" /\ k.n = 0 /\ k.listed /\ k.list = reply.list
        /\ reply.list \in [Ids -> Stati]
    <3>1. reply.list \in [Ids -> Stati]
      BY <1>2 DEF Reply
    <3> QED
      BY <1>1, <2>1, <3>1 DEF Call
  <2>3. Agrees(reply.list, observed[c])
    BY <1>1, <1>2, <1>4 DEF ListsAgree
  <2>4. StateKnown(c, k) /\ Done(c)
    BY <1>4, <2>1 DEF StateListed
  <2>5. CASE k.informed
    <3>1. known' = Merged(reply.list) /\ Return(c, "ready")
      BY <2>2, <2>4, <2>5 DEF StateKnown
    <3> QED
      BY <1>1, <1>2, <2>2, <2>3, <2>4, <3>1, StateReturns DEF StateListed
  <2>6. CASE ~k.informed
    <3>1. GoOn(c, k) /\ known' = known
      BY <2>4, <2>6 DEF StateKnown
    <3>2. Waits(k, Idle.request)
      <4>1. NoRequest.op = "none" /\ NoRequest.n = 0
        BY DEF NoRequest
      <4> QED
        BY <2>2, <4>1, IdleType DEF Waits
    <3>3. Listens(c, k, Idle)
      BY <1>1, <1>2, <1>4, <2>2 DEF Listens
    <3> QED
      BY <1>1, <1>2, <1>4, <2>2, <2>4, <3>1, <3>2, <3>3, IdleType, StateGoesOn DEF StateListed, Done
  <2> QED
    BY <2>5, <2>6
<1> QED
  BY <1>3, <1>4

LEMMA StateInformedStep ==
  ASSUME MethodsInv, NEW c \in Callers, StateInformed(c)
  PROVE  MethodStep(c)
<1> USE DEF MethodsInv
<1>1. /\ calls[c] \in Call /\ calls[c].op = "getState" /\ calls[c].n = 0 /\ requests[c] \in Pending
      /\ Waits(calls[c], requests[c].request)
  BY DEF StateInformed, TypesKnown, MethodsWait, Waits
<1>2. Quiet /\ NoId /\ UNCHANGED <<destroyed, abandoned>>
  BY DEF StateInformed
<1>3. CASE (\E kind \in ErrorKinds : StateUnknown(c, kind)) /\ Done(c)
  BY <1>1, <1>2, <1>3, UnknownReturns, StateReturns
<1>4. CASE StateKnown(c, [calls[c] EXCEPT !.informed = TRUE]) /\ UNCHANGED requests
  <2>1. PICK k : k = [calls[c] EXCEPT !.informed = TRUE]
    OBVIOUS
  <2>2. /\ k \in Call /\ k.op = "getState" /\ k.n = 0 /\ k.informed
        /\ k.listed = calls[c].listed /\ k.list = calls[c].list /\ k.list \in [Ids -> Stati]
    BY <1>1, <2>1 DEF Call
  <2>3. CASE k.listed
    <3>1. known' = Merged(k.list) /\ Return(c, "ready")
      BY <1>4, <2>1, <2>2, <2>3 DEF StateKnown
    <3>2. Agrees(k.list, observed[c])
      BY <1>1, <2>2, <2>3 DEF ListsAgree
    <3> QED
      BY <1>1, <1>2, <1>4, <2>2, <2>3, <3>1, <3>2, StateReturns
  <2>4. CASE ~k.listed
    <3>1. GoOn(c, k) /\ known' = known
      BY <1>4, <2>1, <2>4 DEF StateKnown
    <3>2. Waits(k, requests[c].request)
      BY <1>1, <2>2 DEF Waits
    <3>3. requests' = [requests EXCEPT ![c] = requests[c]]
      BY <1>4 DEF TypesKnown
    <3>4. Listens(c, k, requests[c])
      BY <1>1, <2>2 DEF Listens
    <3> QED
      BY <1>1, <1>2, <2>2, <3>1, <3>2, <3>3, <3>4, StateGoesOn
  <2> QED
    BY <2>3, <2>4
<1> QED
  BY <1>3, <1>4 DEF StateInformed


-----------------------------------------------------------------------------
(* The steps together. *)
LEMMA MethodSteps ==
  ASSUME MethodsInv, NEW c \in Callers, CallBegins(c) \/ CallGoesOn(c)
  PROVE  MethodStep(c) \/ GetStopped(c)
<1>1. CASE CallBegins(c)
  BY <1>1, RunCommandStep, FileCallStep, StartProcessStep, StopProcessStep, DestroyStep, GetStateStep
     DEF CallBegins
<1>2. CASE CallGoesOn(c)
  <2>1. CASE StateInformed(c)
    BY <2>1, StateInformedStep
  <2>2. ASSUME NEW lost \in BOOLEAN, NEW reply,
               \/ CommandStaged(c, reply, lost) \/ CommandRan(c, reply, lost)
               \/ CommandUnstaged(c, reply, lost) \/ FileAnswered(c, reply, lost)
               \/ ProcessStarted(c, reply, lost) \/ ProcessStopped(c, reply, lost)
               \/ Destroyed(c, reply, lost) \/ StateListed(c, reply, lost)
        PROVE  MethodStep(c)
    BY <2>2, CommandStagedStep, CommandRanStep, CommandUnstagedStep, FileAnsweredStep,
       ProcessStartedStep, ProcessStoppedStep, DestroyedStep, StateListedStep
  <2> QED
    BY <1>2, <2>1, <2>2 DEF CallGoesOn
<1> QED
  BY <1>1, <1>2

(* No method but getState is told of the state, and it is told what holds. *)
Told == StdinRemoved /\ ExpiredIsTold /\ StateTellsProcesses

LEMMA MethodTells ==
  ASSUME TypesKnown, NEW c \in Callers, MethodStep(c), Observe
  PROVE  Told'
<1>1. staged' = staged
  BY DEF MethodStep, Exchange
<1>2. StdinRemoved' /\ ExpiredIsTold'
  BY <1>1 DEF MethodStep, CommandTold, StdinRemoved, ExpiredIsTold
<1>3. StateTellsProcesses'
  <2> SUFFICES ASSUME answer'.op = "getState", answer'.status = "ready"
               PROVE  Agrees(known', observed'[answer'.by])
    BY DEF StateTellsProcesses, Agrees
  <2>1. PICK d \in Callers : answer'.by = d /\ calls[d].op = "getState"
    BY DEF MethodStep, StateTold
  <2>2. PICK list \in [Ids -> Stati] : Agrees(list, observed[d]) /\ known' = Merged(list)
    BY <2>1 DEF MethodStep, StateTold
  <2>3. Agrees(known', observed[d])
    BY <2>2, MergedAgrees DEF TypesKnown
  <2>4. observed'[d].ran \subseteq observed[d].ran /\ observed'[d].idle \subseteq observed[d].idle
    BY <2>1 DEF Observe
  <2> QED
    BY <2>1, <2>3, <2>4 DEF Agrees
<1> QED
  BY <1>2, <1>3 DEF Told

LEMMA ExchangeKeeps ==
  ASSUME MethodsInv, NEW c \in Callers, MethodStep(c), Observe
  PROVE  MethodsInv'
<1>1. PICK call, x : Exchange(c, call, x)
  BY DEF MethodStep
<1> QED
  BY <1>1, ExchangeKeepsTypes, ExchangeKeepsIds, ExchangeKeepsReplies DEF MethodsInv, MethodStep, KnownKept

LEMMA SandboxKeeps ==
  ASSUME MethodsInv, SandboxMoves, UNCHANGED <<secrets, calls, known, destroyed, ids>>, Observe
  PROVE  MethodsInv'
BY SandboxKeepsTypes, SandboxKeepsReplies DEF MethodsInv

(* A destroyed environment that answers a getState moves nothing. *)
LEMMA StoppedMoves ==
  ASSUME TypesKnown, NEW c, GetStopped(c)
  PROVE  /\ SandboxMoves /\ UNCHANGED <<sandboxVars, calls, known, destroyed, ids>>
         /\ answer'.op = "getState" /\ answer'.status = "stopped"
BY DEF GetStopped, sandboxVars, SandboxMoves, Unasked, TypesKnown, NoAnswer

(* What is proved of every reachable state. *)
CloudflareInductive == MethodsInv /\ Told /\ UnauthorizedReachesNothing

LEMMA InitInductive == Init => CloudflareInductive
<1> SUFFICES ASSUME Init PROVE CloudflareInductive
  OBVIOUS
<1>1. /\ \A c \in Callers : calls[c] = NoCall /\ requests[c] = Idle
      /\ abandoned = {} /\ staged = {} /\ ids = 0 /\ processes = None
  BY DEF Init, SandboxInit
<1>2. TypesKnown
  <2>1. Nothing \in Seen
    BY DEF Nothing, Seen
  <2>2. known \in [Ids -> {"none", "running", "exited", "killed"}]
    BY DEF Init, None
  <2>3. ids \in 0..MaxIds
    BY <1>1, EnvironmentAssumption
  <2> QED
    BY <2>1, <2>2, <2>3, NoneType, NoCallType, IdleType DEF Init, SandboxInit, TypesKnown
<1>3. /\ MethodsWait /\ IdsGivenOnce /\ StagingRemembered /\ RepliesHonest /\ RemovalLasts /\ ListsAgree
  BY <1>1, NothingWaits, IdleType
     DEF MethodsWait, IdsGivenOnce, StagingRemembered, RepliesHonest, RemovalLasts, ListsAgree
<1>4. Told
  BY DEF Init, NoAnswer, Told, StdinRemoved, ExpiredIsTold, StateTellsProcesses
<1> QED
  BY <1>1, <1>2, <1>3, <1>4 DEF CloudflareInductive, MethodsInv, UnauthorizedReachesNothing

LEMMA NextInductive ==
  ASSUME CloudflareInductive, Next
  PROVE  CloudflareInductive'
<1> USE DEF CloudflareInductive
<1>1. MethodsInv /\ TypesKnown /\ Observe
  BY DEF MethodsInv, Next
<1>2. ASSUME NEW c \in Callers, MethodStep(c) PROVE CloudflareInductive'
  <2>1. UNCHANGED <<secrets, processes, staged>>
    BY <1>2 DEF MethodStep, Exchange
  <2> QED
    BY <1>1, <1>2, <2>1, ExchangeKeeps, MethodTells DEF UnauthorizedReachesNothing
<1>3. ASSUME NEW c \in Callers, GetStopped(c) PROVE CloudflareInductive'
  <2>1. MethodsInv'
    BY <1>1, <1>3, StoppedMoves, SandboxKeeps DEF sandboxVars
  <2>2. Told'
    BY <1>1, <1>3, StoppedMoves DEF Told, StdinRemoved, ExpiredIsTold, StateTellsProcesses
  <2>3. UnauthorizedReachesNothing'
    BY <1>1, <1>3, StoppedMoves DEF sandboxVars, UnauthorizedReachesNothing
  <2> QED
    BY <2>1, <2>2, <2>3
<1>4. ASSUME SandboxStep PROVE CloudflareInductive'
  <2>1. MethodsInv'
    BY <1>1, <1>4, SandboxStepMoves, SandboxKeeps
  <2>2. Told'
    BY <1>1, <1>4, SandboxStepMoves DEF NoAnswer, Told, StdinRemoved, ExpiredIsTold, StateTellsProcesses
  <2>3. UnauthorizedReachesNothing'
    BY <1>1, <1>4, SandboxStepMoves DEF UnauthorizedReachesNothing
  <2> QED
    BY <2>1, <2>2, <2>3
<1> QED
  BY <1>1, <1>2, <1>3, <1>4, MethodSteps DEF Next

LEMMA StutterInductive == CloudflareInductive /\ UNCHANGED vars => CloudflareInductive'
BY DEF vars, sandboxVars, environmentVars, CloudflareInductive, MethodsInv, TypesKnown, MethodsWait, IdsGivenOnce,
       StagingRemembered, RepliesHonest, RemovalLasts, ListsAgree, Told, StdinRemoved, ExpiredIsTold,
       StateTellsProcesses, UnauthorizedReachesNothing, Agrees

LEMMA Inductive == Spec => []CloudflareInductive
<1>1. CloudflareInductive /\ [Next]_vars => CloudflareInductive'
  BY NextInductive, StutterInductive
<1> QED
  BY <1>1, InitInductive, PTL DEF Spec

-----------------------------------------------------------------------------
(* A command leaves nothing staged behind, unless the removal failed or the staging was given up
   unanswered, and a command that timeout(1) ended is reported as timed out: runCommand keeps
   both, whatever its requests meet and the other methods do meanwhile. *)
THEOREM CommandsLeaveNothing == Spec => []CloudflareInv
<1>1. CloudflareInductive => CloudflareInv
  <2> SUFFICES ASSUME CloudflareInductive PROVE CloudflareInv
    OBVIOUS
  <2>1. \A c \in Callers : requests[c].request.op # "none" => calls[c].op # "none"
    <3>1. NoRequest.op = "none"
      BY DEF NoRequest
    <3> QED
      BY <3>1 DEF CloudflareInductive, MethodsInv, MethodsWait, Waits
  <2> QED
    BY <2>1 DEF CloudflareInductive, MethodsInv, TypesKnown, Stati, Told, CloudflareInv, CloudflareTypeOK
<1> QED
  BY <1>1, Inductive, PTL

(* getState that answers `ready` shows every process that ran throughout the call as running and
   none that did not run at any time of it, for any number of callers: the merge of
   mergeProcesses reads the table as it is by then, and still tells what its list told. *)
THEOREM StateIsTold == Spec => []StateTellsProcesses
<1>1. CloudflareInductive => StateTellsProcesses
  BY DEF CloudflareInductive, Told
<1> QED
  BY <1>1, Inductive, PTL

(* A gateway without a secret, or whose client has another one, lets nothing reach the sandbox,
   served at once or after its caller gave up (createGatewayHandler fails closed). *)
THEOREM GatewayFailsClosed == Spec => []UnauthorizedReachesNothing
<1>1. CloudflareInductive => UnauthorizedReachesNothing
  BY DEF CloudflareInductive
<1> QED
  BY <1>1, Inductive, PTL

(* The environment forgets no process it has seen, and files none it terminated as exited
   (mergeProcesses and the calls that write the table). *)
THEOREM TerminationsKept == Spec => TerminatedNotRefiled
<1> DEFINE Kept == \A p \in Ids : /\ known[p] # "none" => known'[p] # "none"
                                  /\ known[p] = "killed" =>
                                       \/ known'[p] \in {"killed", "running"}
                                       \/ answer'.op = "startProcess" /\ answer'.n = p
<1>1. CloudflareInductive /\ [Next]_vars => [Kept]_vars
  <2> SUFFICES ASSUME CloudflareInductive, Next PROVE Kept
    OBVIOUS
  <2>1. MethodsInv /\ TypesKnown
    BY DEF CloudflareInductive, MethodsInv
  <2>2. ASSUME known' = known PROVE Kept
    BY <2>2
  <2>3. ASSUME NEW c \in Callers, MethodStep(c) PROVE Kept
    BY <2>3 DEF MethodStep, KnownKept
  <2> QED
    BY <2>1, <2>2, <2>3, MethodSteps, StoppedMoves, SandboxStepMoves DEF Next
<1> QED
  BY <1>1, Inductive, PTL DEF Spec, TerminatedNotRefiled
=============================================================================
