--------------------------- MODULE ToolInvocation ---------------------------
(***************************************************************************)
(* invokeTool and the standard tools, one action per call that a tool      *)
(* makes to the execution environment.  The runtime invokes one tool at a  *)
(* time, but a command may leave processes behind, which change files at   *)
(* any moment.  An environment call may fail before or after its effect.   *)
(***************************************************************************)
EXTENDS ToolInputs, FiniteSets

CONSTANTS
  Files,            \* paths below Root that something may be at
  Contents,         \* [length, marked, json, keys]: what a check asks of a file
  RawInputs,        \* inputs the model may propose
  Responses,        \* what curl may get
  OutputLengths,    \* lengths of a command's output
  SearchEnabled     \* web.search is registered: a search provider is configured

(* What the environment reports, and what the model's JSON holds, by its types: the sizes are
   natural, a character takes one to four bytes, the text of a page is no longer than the page. *)
ASSUME ToolsAssumption ==
  /\ IsFiniteSet(Files) /\ Root \notin Files
  /\ \A c \in Contents : c.length \in Nat /\ c.marked \in BOOLEAN
  /\ \A raw \in RawInputs :
       /\ raw.path.segments \in Seq(STRING) /\ raw.cap \in Nat /\ raw.content \in Contents
  /\ \A response \in Responses :
       response.chars \in Nat /\ response.width \in 1 .. 4 /\ response.markup \in Nat \ {0}
  /\ OutputLengths \subseteq Nat

VARIABLES
  files,            \* path -> content, or Absent
  leftover,         \* a command left a process behind
  call,             \* the invocation under way: tool, raw input, step, what it found
  events,           \* what it announced, in order
  scratch,          \* its scratch files in the sandbox
  touched,          \* what the environment did to which path on its behalf
  result            \* the latest ToolResult

toolVars == <<files, leftover, call, events, scratch, touched, result>>

Absent == [length |-> 0, marked |-> FALSE, json |-> "absent", keys |-> {}]
Blank == CHOOSE c \in Contents : TRUE
NoOutput == [shown |-> 0, total |-> 0, truncated |-> FALSE]
NoInput == [path |-> [absolute |-> TRUE, segments |-> Root], fits |-> TRUE, url |-> "http",
            args |-> << >>, cap |-> 0, content |-> Blank, body |-> FALSE]
NoCall == [tool |-> "none", raw |-> NoInput, step |-> "idle", existed |-> FALSE]
NoResult == [tool |-> "none", status |-> "none", error |-> "none", retryable |-> FALSE,
             http |-> 0, exit |-> 0, created |-> FALSE, output |-> NoOutput, artifacts |-> {}]

ToolInit ==
  /\ files = [f \in Files |-> Absent] /\ leftover = FALSE
  /\ call = NoCall /\ events = << >> /\ scratch = {} /\ touched = {} /\ result = NoResult

-----------------------------------------------------------------------------
Target == Resolved(call.raw.path)
Exists(path) == path = Root \/ (path \in Files /\ files[path] # Absent)
At(step) == call.step = step
Goes(step) == call' = [call EXCEPT !.step = step]
Event(type, path) == [type |-> type, path |-> path]
CodeFile == Root \o <<".agent", "code">>

Ok == [NoResult EXCEPT !.tool = call.tool, !.status = "ok"]

\* A mutant: the call is not forgotten.
Settles_KeepsTool(answer) == result' = answer /\ call' = [call EXCEPT !.step = "idle"]

Settles(answer) == result' = answer /\ call' = NoCall

Fails(cause) ==
  /\ result' = [NoResult EXCEPT !.tool = call.tool, !.status = "error",
                                !.error = ToolError(cause).code,
                                !.retryable = ToolError(cause).retryable]
  /\ call' = NoCall

FirstStep(tool, raw) ==
  CASE tool = "fs.read" -> "reading" [] tool = "fs.write" -> "looking"
    [] tool = "fs.list" -> "listing" [] tool = "fs.delete" -> "deleting"
    [] tool = "code.run" -> "saving" [] tool \in {"shell.run", "git"} -> "running"
    [] tool = "web.search" -> "searching"
    [] OTHER -> IF tool = "http.request" /\ raw.body THEN "staging" ELSE "requesting"

Registered == IF SearchEnabled THEN ToolNames ELSE ToolNames \ {"web.search"}

(* invokeTool, up to the tool's first call; shell.run and git announce their command first. *)
Invoke(tool, raw) ==
  /\ At("idle")
  /\ scratch' = {} /\ touched' = {}
  /\ UNCHANGED <<files, leftover>>
  /\ \/ /\ tool \in Registered /\ Parses(tool, raw)
        /\ call' = [tool |-> tool, raw |-> raw, step |-> FirstStep(tool, raw), existed |-> FALSE]
        /\ events' = IF tool \in {"shell.run", "git"}
                     THEN <<Event("COMMAND_STARTED", Resolved(raw.path))>> ELSE << >>
        /\ result' = NoResult
     \/ /\ tool \notin Registered \/ ~Parses(tool, raw)
        /\ result' = [NoResult EXCEPT !.tool = tool, !.status = "error",
                        !.error = IF tool \in Registered THEN "invalid_input" ELSE "unknown_tool",
                        !.retryable = tool \in Registered]
        /\ events' = << >> /\ UNCHANGED call

(* A call to the environment throws, having done what it was asked for or not. *)
CallFails(cause) ==
  /\ ~At("idle")
  /\ \/ UNCHANGED <<files, scratch, touched>>
     \/ /\ At("writing") /\ Target \in Files
        /\ files' = [files EXCEPT ![Target] = call.raw.content]
        /\ touched' = touched \cup {Event("written", Target)} /\ UNCHANGED scratch
     \/ /\ At("deleting") /\ Target \in Files
        /\ files' = [files EXCEPT ![Target] = Absent]
        /\ touched' = touched \cup {Event("deleted", Target)} /\ UNCHANGED scratch
     \/ /\ At("saving") /\ touched' = {Event("written", CodeFile)} /\ UNCHANGED <<files, scratch>>
     \/ /\ At("staging") /\ scratch' = {"request"} /\ UNCHANGED <<files, touched>>
     \/ /\ At("requesting") /\ scratch' = scratch \cup {"response"} /\ UNCHANGED <<files, touched>>
  /\ Fails(cause)
  /\ UNCHANGED <<leftover, events>>

(* fs.read *)
ReadFile ==
  /\ At("reading") /\ Target \in Files /\ Exists(Target)
  /\ Settles([Ok EXCEPT !.output = CapText(files[Target].length, Cap(call.raw.cap))])
  /\ UNCHANGED <<files, leftover, events, scratch, touched>>

(* fs.list; the entries are those of the root, the one directory. *)
ListDirectory ==
  /\ At("listing") /\ Target = Root
  /\ Settles([Ok EXCEPT !.output = CapText(Cardinality({f \in Files : Exists(f)}),
                                             MaxListEntries)])
  /\ UNCHANGED <<files, leftover, events, scratch, touched>>

(* fs.read, fs.list and fs.delete of what is not there or is no file. *)
NotFound ==
  /\ \/ At("reading") \/ At("listing") \/ At("deleting")
  /\ IF At("listing") THEN Target # Root ELSE Target \notin Files \/ ~Exists(Target)
  /\ \E cause \in {"not_found", "internal"} : Fails(cause)
  /\ UNCHANGED <<files, leftover, events, scratch, touched>>

\* A mutant: the file is announced, then written.
LookForFile_Announces ==
  /\ At("looking")
  /\ call' = [call EXCEPT !.step = "writing", !.existed = Exists(Target)]
  /\ events' = Append(events, Event(IF Exists(Target) THEN "FILE_CHANGED" ELSE "FILE_CREATED",
                                    Target))
  /\ UNCHANGED <<files, leftover, scratch, touched, result>>

(* fs.write asks whether the file exists, then writes it. *)
LookForFile ==
  /\ At("looking")
  /\ call' = [call EXCEPT !.step = "writing", !.existed = Exists(Target)]
  /\ UNCHANGED <<files, leftover, events, scratch, touched, result>>

WriteFile ==
  /\ At("writing") /\ Target \in Files
  /\ files' = [files EXCEPT ![Target] = call.raw.content]
  /\ touched' = touched \cup {Event("written", Target)}
  /\ events' = Append(events, Event(IF call.existed THEN "FILE_CHANGED" ELSE "FILE_CREATED",
                                    Target))
  /\ Settles([Ok EXCEPT !.created = ~call.existed, !.artifacts = {Target}])
  /\ UNCHANGED <<leftover, scratch>>

DeleteFile ==
  /\ At("deleting") /\ Target \in Files /\ Exists(Target)
  /\ files' = [files EXCEPT ![Target] = Absent]
  /\ touched' = touched \cup {Event("deleted", Target)}
  /\ events' = Append(events, Event("FILE_DELETED", Target))
  /\ Settles(Ok)
  /\ UNCHANGED <<leftover, scratch>>

(* code.run saves the program, announces it and its command, and runs it. *)
SaveProgram ==
  /\ At("saving")
  /\ touched' = {Event("written", CodeFile)}
  /\ events' = <<Event("FILE_CREATED", CodeFile), Event("COMMAND_STARTED", Root)>>
  /\ Goes("running")
  /\ UNCHANGED <<files, leftover, scratch, result>>

(* What a command may do to the workspace: change a file, leave a process behind. *)
CommandEffect ==
  /\ \/ UNCHANGED files
     \/ \E f \in Files, c \in Contents \cup {Absent} : files' = [files EXCEPT ![f] = c]
  /\ leftover' \in {leftover, TRUE}

\* A mutant: a command that timed out is not announced as finished.
Narration_ExitsOnly(exit, length) ==
  (IF length > 0 THEN <<Event("COMMAND_OUTPUT", Root)>> ELSE << >>)
    \o (IF exit # -1 THEN <<Event("COMMAND_FINISHED", Root)>> ELSE << >>)

(* runObservedCommand: what it emits once the command is back, ... *)
Narration(exit, length) ==
  (IF length > 0 THEN <<Event("COMMAND_OUTPUT", Root)>> ELSE << >>)
    \o <<Event("COMMAND_FINISHED", Root)>>

(* ... for an exit code, also one other than 0, is data, and so is a timeout (-1). *)
CommandReturns(exit, length) ==
  /\ At("running")
  /\ CommandEffect
  /\ events' = events \o Narration(exit, length)
  /\ Settles([Ok EXCEPT !.exit = exit, !.output = CapText(length, MaxOutput),
                        !.artifacts = IF call.tool = "code.run" THEN {CodeFile} ELSE {}])
  /\ UNCHANGED <<scratch, touched>>

(* curlRequest writes the body of the request first, if it has one. *)
StageRequest ==
  /\ At("staging") /\ scratch' = {"request"} /\ Goes("requesting")
  /\ UNCHANGED <<files, leftover, events, touched, result>>

\* A mutant: the script removes what curl wrote, and not the request.
ScriptRemoves_Response == {"response"}

ScriptRemoves == {"request", "response"}

(* The script ran to its end, whatever curl came to. *)
CurlReturns(response) ==
  /\ At("requesting")
  /\ scratch' = scratch \ ScriptRemoves
  /\ IF TransportFailed(response) THEN Fails("transport")
     ELSE Settles([Ok EXCEPT !.http = response.status, !.exit = response.exit,
                             !.output = IF call.tool = "web.fetch"
                                        THEN Page(response, Cap(call.raw.cap))
                                        ELSE Body(response, Cap(call.raw.cap))])
  /\ UNCHANGED <<files, leftover, events, touched>>

(* The script is killed at its timeout: what it wrote stays. *)
CurlTimesOut ==
  /\ At("requesting")
  /\ scratch' \in {scratch, scratch \cup {"response"}}
  /\ Fails("transport")
  /\ UNCHANGED <<files, leftover, events, touched>>

(* web.search asks its provider, outside the sandbox. *)
SearchReturns ==
  /\ At("searching") /\ Settles(Ok)
  /\ UNCHANGED <<files, leftover, events, scratch, touched>>

(* A process that a command left behind. *)
LeftoverActs ==
  /\ leftover
  /\ \E f \in Files, c \in Contents \cup {Absent} : files' = [files EXCEPT ![f] = c]
  /\ UNCHANGED <<leftover, call, events, scratch, touched, result>>

ToolStep ==
  \/ \E tool \in ToolNames \cup {"unknown"}, raw \in RawInputs : Invoke(tool, raw)
  \/ \E cause \in EnvironmentErrors \ {"not_found"} : CallFails(cause)
  \/ ReadFile \/ ListDirectory \/ NotFound
  \/ LookForFile \/ WriteFile \/ DeleteFile
  \/ SaveProgram
  \/ \E exit \in {0, 1, -1}, length \in OutputLengths : CommandReturns(exit, length)
  \/ StageRequest \/ CurlTimesOut \/ SearchReturns
  \/ \E response \in Responses : CurlReturns(response)
=============================================================================
