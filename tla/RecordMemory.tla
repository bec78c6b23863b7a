---------------------------- MODULE RecordMemory ----------------------------
(***************************************************************************)
(* What a memory of records promises its users: a record that was          *)
(* remembered stays, its owner is the run that first wrote it, only that   *)
(* run replaces its content, and a record keeps the place at which it was  *)
(* first remembered. The store of the agent implements it.                 *)
(***************************************************************************)
EXTENDS Sequences, SequencesExt

CONSTANT Records    \* what may be remembered: records with an id and an owner

VARIABLES
  content,          \* the record remembered under each known id
  order             \* the known ids, in the order they were first remembered

Init ==
  /\ content = [id \in {} |-> {}]
  /\ order = <<>>

(* A new record joins the end; a known one is replaced in its place, by its owner only. *)
Remember(record) ==
  /\ record.recordId \in DOMAIN content => content[record.recordId].runId = record.runId
  /\ content' = [id \in DOMAIN content \cup {record.recordId} |->
                   IF id = record.recordId THEN record ELSE content[id]]
  /\ order' = IF record.recordId \in DOMAIN content THEN order
              ELSE Append(order, record.recordId)

Next == \E record \in Records : Remember(record)

Spec == Init /\ [][Next]_<<content, order>>
=============================================================================
