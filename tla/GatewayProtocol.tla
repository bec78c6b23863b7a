-------------------------- MODULE GatewayProtocol ---------------------------
(***************************************************************************)
(* The vocabulary between the Cloudflare environment and its gateway       *)
(* (protocol.ts, sandbox-client.ts, gateway.ts): what the gateway refuses, *)
(* how an error of the SDK becomes a kind and a kind the error an agent    *)
(* sees, how the states of a process are named. A request is               *)
(* [op, n, target, text, timeout]; `text` is the command or the path,      *)
(* of which only the form matters.                                         *)
(***************************************************************************)
EXTENDS Integers, TLC

Operations == {"exec", "startProcess", "listProcesses", "killProcess", "readFile", "writeFile",
               "mkdir", "deleteFile", "exists", "listFiles", "info", "destroy"}

ErrorKinds == {"file_not_found", "process_not_found", "permission_denied",
               "container_unavailable", "request_timeout", "unauthorized", "invalid_request",
               "protocol", "unknown"}

(* classifySdkError: the class of the error decides, and failing that its code. *)
KindOfName ==
  "FileNotFoundError" :> "file_not_found" @@ "ProcessNotFoundError" :> "process_not_found"
  @@ "PermissionDeniedError" :> "permission_denied"
  @@ "CommandPermissionDeniedError" :> "permission_denied"
  @@ "ProcessPermissionDeniedError" :> "permission_denied"
  @@ "ContainerUnavailableError" :> "container_unavailable"
  @@ "OperationInterruptedError" :> "container_unavailable"
  @@ "RPCTransportError" :> "container_unavailable" @@ "TimeoutError" :> "request_timeout"

KindOfCode ==
  "FILE_NOT_FOUND" :> "file_not_found" @@ "PROCESS_NOT_FOUND" :> "process_not_found"
  @@ "PERMISSION_DENIED" :> "permission_denied"

ClassifySdkError(error) ==
  IF error.name \in DOMAIN KindOfName THEN KindOfName[error.name]
  ELSE IF error.code \in DOMAIN KindOfCode THEN KindOfCode[error.code]
  ELSE "unknown"

(* toEnvironmentError: the code of the ExecutionEnvironmentError. *)
EnvironmentCode(kind) ==
  CASE kind \in {"file_not_found", "process_not_found"} -> "not_found"
    [] kind = "permission_denied" -> "permission_denied"
    [] kind \in {"container_unavailable", "request_timeout"} -> "unavailable"
    [] OTHER -> "internal"

(* toProcessStatus *)
ProcessStatus(status) ==
  CASE status \in {"starting", "running"} -> "running"
    [] status = "killed" -> "killed"
    [] status \in {"completed", "failed", "error"} -> "exited"

-----------------------------------------------------------------------------
(* validateRequest, with validateExecOptions for the deadline of a command. *)
ValidRequest(r) ==
  /\ r.op \in {"exec", "startProcess"} => r.text # "" /\ r.timeout \in {"none", "positive"}
  /\ r.op = "killProcess" => r.target # 0
  /\ r.op \in {"readFile", "writeFile", "mkdir", "deleteFile", "exists", "listFiles"}
       => r.text \in {"/absolute", "/top"}

(* A bug: the token is compared only where one is configured. *)
Refusal_FailsOpen(secrets, r) ==
  IF secrets.gateway # "none" /\ secrets.client # secrets.gateway THEN "unauthorized"
  ELSE IF r.op \notin Operations \/ ~ValidRequest(r) THEN "invalid_request"
  ELSE "none"

(* createGatewayHandler, up to dispatch: without a secret of its own it refuses everything. *)
Refusal(secrets, r) ==
  IF secrets.gateway = "none" \/ secrets.client # secrets.gateway THEN "unauthorized"
  ELSE IF r.op \notin Operations \/ ~ValidRequest(r) THEN "invalid_request"
  ELSE "none"
=============================================================================
