------------------------------ MODULE ChatWire ------------------------------
(***************************************************************************)
(* What the OpenAI-compatible adapter makes of one HTTP exchange (wire.ts, *)
(* provider.ts, transport.ts): pure functions of the server's reply. A     *)
(* text is [form, value]: how a JSON value lies in it, if one does; a JSON *)
(* value is the record of what the parsers ask of it.                      *)
(***************************************************************************)
EXTENDS Integers, Sequences, FiniteSets, TLC

CONSTANTS
  Tools,            \* sequence: the tools offered, as ToolRegistry names them
  Sanitised         \* name -> the name with "__" for what function names cannot hold

ASSUME ToolsAssumption == Tools \in Seq(DOMAIN Sanitised)

FinishTool == "finish"
GiveUpTool == "give_up"

(* kindForStatus *)
KindForStatus(http) ==
  CASE http \in {401, 403} -> "authentication"
    [] http = 429 -> "rate_limited"
    [] http \in {408, 504} -> "timeout"
    [] http >= 500 /\ http # 504 -> "server"
    [] OTHER -> "bad_request"

(* postJson, then parseChatCompletion: the kind of the error, "none" when there is a completion. *)
ReplyError(reply) ==
  IF reply.fetch \in {"network", "timeout"} THEN reply.fetch
  ELSE IF reply.http \notin 200..299 THEN KindForStatus(reply.http)
  ELSE IF reply.body \in {"not_json", "not_object", "error", "no_choices", "no_message"} THEN "server"
  ELSE "none"

(* toUsage: the counts, or zeros marked as not reported. *)
Usage(reply) == IF reply.usage = "reported" THEN 1 ELSE 0

-----------------------------------------------------------------------------
NoJson == [object |-> FALSE, kind |-> "none", tool |-> "none", input |-> FALSE, text |-> FALSE,
           rationale |-> FALSE, extras |-> FALSE, fits |-> FALSE]

(* extractJson: the whole text, a fenced block, or the outermost brackets. *)
HasJson(text) == text.form \in {"direct", "fenced", "embedded"}

(* proposalFromToolCall: what each kind of proposal must have. `text` is the summary or the
   reason; `extras` says that confidence and alternatives, if present, are well formed. *)
ArgumentsFit(tool, args) ==
  /\ args.object
  /\ CASE tool = FinishTool -> args.text /\ args.rationale
       [] tool = GiveUpTool -> args.text
       [] OTHER -> args.rationale /\ args.extras /\ args.input

Refused == [ok |-> FALSE, tool |-> "none"]
Proposal(tool, args) == IF ArgumentsFit(tool, args) THEN [ok |-> TRUE, tool |-> tool] ELSE Refused

(* A bug: the tool a JSON proposal names is not looked up. *)
ParseProposal_AnyTool(raw) ==
  CASE raw.object /\ raw.kind \in {FinishTool, GiveUpTool} -> Proposal(raw.kind, raw)
    [] raw.object /\ raw.kind = "tool" -> Proposal(raw.tool, raw)
    [] OTHER -> Refused

(* parseToolActionProposal *)
ParseProposal(raw) ==
  CASE raw.object /\ raw.kind \in {FinishTool, GiveUpTool} -> Proposal(raw.kind, raw)
    [] raw.object /\ raw.kind = "tool" /\ \E i \in DOMAIN Tools : Tools[i] = raw.tool ->
         Proposal(raw.tool, raw)
    [] OTHER -> Refused

-----------------------------------------------------------------------------
(* ToolNameMap: the first name not taken of the sanitised one and its numbered variants. *)
Numbered(base, n) == IF n = 1 THEN base ELSE base \o "_" \o ToString(n)

(* What is known of strings: the numbered variants of a name differ. *)
ASSUME NumberedAssumption ==
  \A i, m, n \in DOMAIN Tools :
    Numbered(Sanitised[Tools[i]], m) = Numbered(Sanitised[Tools[i]], n) => m = n

(* A bug: the name is taken though another tool has it. *)
WireName_Unchecked == [i \in 1..Len(Tools) |-> Sanitised[Tools[i]]]

NextName(name, i) ==
  LET base == Sanitised[Tools[i]]
      taken == {name[j] : j \in 1..(i - 1)}
      free == {n \in 1..i : Numbered(base, n) \notin taken}
  IN Numbered(base, CHOOSE n \in free : \A m \in free : n <= m)

WireName ==
  LET name[i \in 1..Len(Tools)] == NextName(name, i)
  IN name

(* toWireTools: the tool described under a name; finish and give_up keep theirs, and the calls
   of these two are recognised before the map is asked. The later of two tools with one name
   would take it in the map. *)
OriginalName(wire) ==
  IF wire \in {FinishTool, GiveUpTool} THEN wire
  ELSE LET named == {i \in DOMAIN Tools : WireName[i] = wire}
       IN IF named = {} THEN "none" ELSE Tools[CHOOSE i \in named : \A j \in named : j <= i]

(* proposalFromCompletion: the first tool call, or else the text, is the proposal. *)
ProposalFrom(reply) ==
  IF reply.calls # <<>>
  THEN LET call == reply.calls[1]
           tool == OriginalName(call.name)
       IN IF tool = "none" \/ ~HasJson(call.arguments) THEN Refused
          ELSE Proposal(tool, call.arguments.value)
  ELSE IF HasJson(reply.content) THEN ParseProposal(reply.content.value) ELSE Refused

(* requestToolAction: with native calls, or as JSON alone. *)
ToolProposal(toolMode, reply) ==
  IF toolMode = "tools" THEN ProposalFrom(reply)
  ELSE IF HasJson(reply.content) THEN ParseProposal(reply.content.value) ELSE Refused

(* What generate, structuredGenerate and requestToolAction come to: "valid", "invalid" (a failed
   parse in the response, or an invalid_response error), or the kind of the error thrown. *)
OutcomeOf(kind, toolMode, reply) ==
  IF ReplyError(reply) # "none" THEN ReplyError(reply)
  ELSE IF \/ kind = "text"
          \/ kind = "structured" /\ HasJson(reply.content) /\ reply.content.value.fits
          \/ kind = "tool" /\ ToolProposal(toolMode, reply).ok
       THEN "valid" ELSE "invalid"
=============================================================================
