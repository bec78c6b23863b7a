-------------------------- MODULE MCModelExchange ---------------------------
(* Three tools whose names collide on the wire; a reply for each way of answering and failing. *)
EXTENDS ModelExchange

MCTools == <<"fs.read", "fs__read", "fs/read">>
MCSanitised == [t \in {"fs.read", "fs__read", "fs/read"} |-> "fs__read"]

Good == [NoJson EXCEPT !.object = TRUE, !.input = TRUE, !.text = TRUE, !.rationale = TRUE,
                       !.extras = TRUE, !.fits = TRUE]
Text(form, value) == [form |-> form, value |-> value]
Prose == Text("none", NoJson)

Completion == [fetch |-> "answers", http |-> 200, body |-> "completion", usage |-> "reported", content |-> Prose,
               calls |-> <<>>, meant |-> "nothing"]
Call(name, arguments) == [Completion EXCEPT !.calls = <<[name |-> name, arguments |-> arguments]>>]
Says(text) == [Completion EXCEPT !.content = text]

Means(tool, reply) == [reply EXCEPT !.meant = tool]

(* A tool is called by the name under which its description was sent: that of its position. *)
NativeCalls ==
  {Means(MCTools[i], Call(WireName[i], Text("direct", Good))) : i \in 1..3}
  \cup {Means(t, Call(t, Text("direct", Good))) : t \in {"finish", "give_up"}}
BadCalls ==
  {Call("fs__read_9", Text("direct", Good)), Means("finish", Call("finish", Prose))}
  \cup {Means("fs.read", Call("fs__read", Text("direct", bad))) :
           bad \in {[Good EXCEPT !.rationale = FALSE], [Good EXCEPT !.extras = FALSE],
                    [Good EXCEPT !.input = FALSE]}}
  \cup {Means("finish", Call("finish", Text("direct", [Good EXCEPT !.text = FALSE])))}

JsonProposals ==
  {Means("fs.read", Says(Text(form, [Good EXCEPT !.kind = "tool", !.tool = "fs.read"]))) :
     form \in {"direct", "fenced", "embedded"}}
  \cup {Means(k, Says(Text("direct", [Good EXCEPT !.kind = k]))) : k \in {"finish", "give_up"}}
BadProposals ==
  {Means("fs.write", Says(Text("direct", [Good EXCEPT !.kind = "tool", !.tool = "fs.write"]))),
   Says(Text("direct", [Good EXCEPT !.kind = "ponder"])),
   Says(Text("direct", NoJson)),
   [Says(Prose) EXCEPT !.usage = "none"]}

Failures ==
  {[Completion EXCEPT !.http = h] : h \in {401, 403, 408, 418, 429, 500, 504}}
  \cup {[Completion EXCEPT !.fetch = f] : f \in {"network", "timeout"}}
  \cup {[Completion EXCEPT !.body = b] :
          b \in {"not_json", "not_object", "error", "no_choices", "no_message"}}

MCReplies == NativeCalls \cup BadCalls \cup JsonProposals \cup BadProposals \cup Failures
=============================================================================
