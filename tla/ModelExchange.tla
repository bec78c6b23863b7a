--------------------------- MODULE ModelExchange ----------------------------
(***************************************************************************)
(* A request to the model down to the wire: ResilientModel, whose provider *)
(* is OpenAICompatibleProvider: each call is one HTTP exchange, and what   *)
(* the server replies decides how it ends. Of a completion that is thrown  *)
(* away the tokens are not recorded.                                       *)
(***************************************************************************)
EXTENDS ResilientModel, ChatWire

CONSTANT
  ServerReplies     \* what the server may do with a request; `meant` is the tool the model
                    \* means, by the description it was given

\* The server fails in the ways ResilientModel reckons with, and no other.
ASSUME RepliesAssumption ==
  \A reply \in ServerReplies : ReplyError(reply) \in Errors \cup {"none"}

(* The model means the tool whose description it was sent under the name it uses, and finish or
   give_up by theirs; a name it was never sent stands for no tool. *)
ASSUME MeantAssumption ==
  \A reply \in ServerReplies :
    /\ reply.calls # <<>> =>
         LET used == reply.calls[1].name
         IN IF used \in {FinishTool, GiveUpTool} THEN reply.meant = used
            ELSE (\E i \in DOMAIN Tools : used = WireName[i]) =>
                   \E i \in DOMAIN Tools : used = WireName[i] /\ reply.meant = Tools[i]
    /\ HasJson(reply.content) /\ reply.content.value.object =>
         LET said == reply.content.value
         IN /\ said.kind \in {FinishTool, GiveUpTool} => reply.meant = said.kind
            /\ said.kind = "tool" => reply.meant = said.tool

VARIABLES
  toolMode,         \* "tools" or "json"
  spent,            \* completions whose usage the server reported
  counted,          \* of those, the ones in a MODEL_CALL_COMPLETED record
  proposal          \* the proposal the request returned, and the reply it was made of

exchangeVars == <<vars, toolMode, spent, counted, proposal>>

NoProposal == [tool |-> "none", meant |-> "none"]

ExchangeInit ==
  /\ Init
  /\ toolMode \in {"tools", "json"}
  /\ spent = 0 /\ counted = 0 /\ proposal = NoProposal

PostRequest == StartCall /\ UNCHANGED <<toolMode, spent, counted, proposal>>

(* Usage goes into the record of the call, which a thrown error has none of. *)
Counted_Always(reply, outcome) == counted' = counted + Usage(reply)

Counted(reply, outcome) ==
  counted' = counted + IF outcome = "valid" \/ (outcome = "invalid" /\ kind = "structured")
                       THEN Usage(reply) ELSE 0

ReplyArrives(reply) ==
  LET outcome == OutcomeOf(kind, toolMode, reply)
  IN /\ pc = "calling"
     /\ \/ outcome = "valid" /\ ProviderAnswers
        \/ outcome = "invalid" /\ ProviderAnswersInvalid
        \/ outcome \notin {"valid", "invalid"} /\ ProviderFails(outcome)
     /\ spent' = spent + IF ReplyError(reply) = "none" THEN Usage(reply) ELSE 0
     /\ Counted(reply, outcome)
     /\ proposal' = IF outcome = "valid" /\ kind = "tool"
                    THEN [tool |-> ToolProposal(toolMode, reply).tool, meant |-> reply.meant]
                    ELSE proposal
     /\ UNCHANGED toolMode

BackoffEnds == WakeUp /\ UNCHANGED <<toolMode, spent, counted, proposal>>

ExchangeNext ==
  \/ PostRequest
  \/ \E reply \in ServerReplies : ReplyArrives(reply)
  \/ BackoffEnds

ExchangeSpec == ExchangeInit /\ [][ExchangeNext]_exchangeVars /\ WF_exchangeVars(ExchangeNext)

-----------------------------------------------------------------------------
(* Every token the server reports is in the records of the run exactly once, but for completions
   that are no tool action: each of them is thrown away with its usage, which the limit on
   tokens therefore misses (requestToolAction throws, InstrumentedModelProvider records). *)
UsageAccounted ==
  LET discarded == {i \in DOMAIN calls : calls[i] = "invalid"}
  IN /\ counted <= spent
     /\ spent - counted <= IF kind = "tool" THEN Cardinality(discarded) ELSE 0

(* A request for a tool action returns a proposal of a tool that was offered, or of finish or
   give_up, and it is the tool that the model was told the name it used stands for: no two
   offered tools share a name on the wire (ToolNameMap, parseToolActionProposal). *)
ProposalAsMeant ==
  pc = "returned" /\ kind = "tool" =>
    /\ proposal.tool \in {FinishTool, GiveUpTool} \cup {Tools[i] : i \in DOMAIN Tools}
    /\ proposal.tool = proposal.meant
=============================================================================
