-------------------------- MODULE MCIndexedMemory ---------------------------
(* A small memory: three ids of two kinds, one of them put again with another text, one drawn by two
   runs, and two embedding models. *)
EXTENDS IndexedMemoryProperties, TLC

Record(id, kind, run, at, text, tags) ==
  [recordId |-> id, kind |-> kind, runId |-> run, createdAt |-> at, text |-> text,
   tags |-> tags, valid |-> TRUE]

MCRecords == {
  Record(1, "experience", "r1", 1, {"write", "report"}, {"ok"}),
  Record(1, "experience", "r1", 1, {"retry"}, {}),
  Record(1, "experience", "r2", 2, {"report"}, {"ok"}),
  Record(2, "experience", "r1", 2, {"what", "write"}, {"ok"}),
  Record(3, "knowledge", "r2", 2, {"style"}, {"ok"}),
  Record(3, "knowledge", "r2", 2, {}, {}),
  [Record(2, "experience", "r1", 1, {}, {}) EXCEPT !.valid = FALSE] }

MCQueries == {
  [text |-> {"write", "report"}, kinds |-> {"experience", "knowledge"}, tags |-> {}, limit |-> 2],
  [text |-> {"write", "report"}, kinds |-> {"experience", "knowledge"}, tags |-> {"ok"}, limit |-> 1],
  [text |-> {"what"}, kinds |-> {"experience", "knowledge"}, tags |-> {}, limit |-> 1] }

(* Texts about the same thing are near, whether or not they share a term. *)
MCSimilarity(a, b) ==
  IF a = b THEN 100 ELSE IF a \cap b # {} THEN 80 ELSE IF "style" \in a \cup b THEN 60 ELSE 20

Reply(dimensions) == [index |-> 0, dimensions |-> dimensions]
(* Nothing tells one model from another. *)
ModelSymmetry == Permutations(Models)

MCReplies == {<<Reply(2)>>, <<Reply(3)>>, <<>>}
=============================================================================
