--------------------------- MODULE ToolProperties ---------------------------
(* What the tools and the evaluator promise, over every interleaving with the processes that
   commands leave behind and every failure of an environment call. *)
EXTENDS OutcomeEvaluation

ToolTypeOK ==
  /\ files \in [Files -> Contents \cup {Absent}]
  /\ leftover \in BOOLEAN
  /\ call.tool \in ToolNames \cup {"none"} /\ (call.tool = "none" <=> At("idle"))
  /\ scratch \subseteq {"request", "response"}
  /\ result.status \in {"none", "ok", "error"}
  /\ result.status = "error" <=> result.error # "none"
  /\ evaluation.step \in {"idle", "checking", "reading", "done", "threw"}
  /\ evaluation.verdict \in {"none", "success", "failure", "partial", "inconclusive"}

(* Whatever path a proposal holds, a file the tools touch, a directory a command runs in and an
   event they announce are inside the workspace; the root itself is never deleted
   (resolveWorkspacePath, parseInput). *)
WorkspaceOnly ==
  /\ ~At("idle") /\ call.tool \in FileTools \cup {"shell.run", "git"} => IsPrefix(Root, Target)
  /\ At("deleting") => Target # Root
  /\ \A i \in DOMAIN events :
       ".." \notin {events[i].path[k] : k \in DOMAIN events[i].path}

Announced(type) == {events[i].path : i \in {k \in DOMAIN events : events[k].type = type}}
Did(what) == {t.path : t \in {u \in touched : u.type = what}}

(* The dashboard learns of a file that a tool created, changed or deleted only once that has
   happened, also when a call fails half-way, and of everything that an ok result stands for;
   the artifacts of a result are files it wrote (fs.write, fs.delete, code.run, invokeTool). *)
ChangesAnnounced ==
  /\ Announced("FILE_CREATED") \cup Announced("FILE_CHANGED") \subseteq Did("written")
  /\ Announced("FILE_DELETED") \subseteq Did("deleted")
  /\ result.status = "ok" =>
       /\ Did("written") = Announced("FILE_CREATED") \cup Announced("FILE_CHANGED")
       /\ Did("deleted") = Announced("FILE_DELETED")
       /\ result.artifacts = Did("written")

Times(type) == Cardinality({i \in DOMAIN events : events[i].type = type})

(* A command that was announced is announced as finished, unless the call fails: then the error
   result is all that closes it (runObservedCommand). *)
CommandsClosed ==
  /\ Times("COMMAND_FINISHED") <= Times("COMMAND_STARTED")
  /\ result.status = "ok" => Times("COMMAND_FINISHED") = Times("COMMAND_STARTED")
  /\ result.status = "ok" /\ result.tool \in {"shell.run", "git", "code.run"} =>
       Times("COMMAND_FINISHED") = 1

(* "Nobody can mistake a truncated result for the whole thing" (support/output.ts): a text that
   is not marked truncated is all of what the sandbox received, through the three caps a web
   page goes through, for characters of every width. *)
TruncationTold ==
  result.status = "ok" /\ ~result.output.truncated => result.output.shown = result.output.total

(* An HTTP request whose script ran to its end leaves no scratch file (curlRequest). *)
ScratchCleared ==
  result.status = "ok" /\ result.tool \in HttpTools => scratch = {}

(* A verdict rests on the criteria, each as it was at some moment of the evaluation, also while
   a process changes the files: success on all of them holding, failure on none, partial on
   both; what a tool's status was decides nothing by itself
   (DeterministicEvaluator.evaluate, verdictFromDecisive). *)
VerdictJustified ==
  LET been(value) == {i \in DOMAIN evaluation.ever : value \in evaluation.ever[i]}
      all == DOMAIN Criteria
  IN /\ evaluation.verdict = "success" => all # {} /\ been(TRUE) = all
     /\ evaluation.verdict = "failure" => all # {} /\ been(FALSE) = all
     /\ evaluation.verdict = "partial" =>
          \E i \in been(TRUE), j \in been(FALSE) : i # j
     /\ evaluation.verdict = "inconclusive" => all = {}

(* What a tool announces, and what it leaves behind, is what it did, however its calls to the
   environment ended (invokeTool, runObservedCommand, curlRequest). *)
ToolInv == ToolTypeOK /\ ChangesAnnounced /\ CommandsClosed /\ ScratchCleared

(* "Only a failed transport (DNS, refused connection, timeout) makes the tool call fail"
   (http-request-tool.ts:23-24): so a request whose transport failed is an error. curl's exit
   code counts only while no status has come, so that a response cut short is a result, and
   its body is not marked as truncated. *)
FailedTransportIsError ==
  result.status = "ok" /\ result.tool = "http.request" => result.exit = 0
=============================================================================
