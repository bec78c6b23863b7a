---------------------- MODULE IndexedMemoryProperties -----------------------
(* What the memory of the agent keeps, under failing embeddings, interrupts, crashes and a
   change of embedding model. *)
EXTENDS IndexedMemory

(* Every variable holds what the code puts there; in particular no row is of an invalid record. *)
MemoryTypeOK ==
  /\ \A id \in Stored : rows[id].record \in {r \in Records : r.valid} /\ rows[id].record.recordId = id
  /\ \A id \in Indexed : vectors[id].model \in Models /\ vectors[id].dimensions > 0
  /\ tagRows \subseteq Stored \X UNION {r.tags : r \in Records}
  /\ isOpen \in BOOLEAN /\ model \in Models /\ observedDimensions \in Nat
  /\ op.call \in {"none", "index", "backfill", "search"}
  /\ owed \subseteq Stored /\ mine \subseteq Indexed
  /\ puts \in 0 .. MaxPuts /\ opens \in 1 .. MaxOpens

Earlier(a, b) == rows[a].seq < rows[b].seq

(* The store implements a memory that forgets nothing, whatever the index does and whenever a
   process ends: see RecordMemory. *)
Memory == INSTANCE RecordMemory WITH
  content <- [id \in Stored |-> rows[id].record],
  order <- SortedList(Stored, Earlier)
RemembersRecords == Memory!Spec

(* The table of tags queries filter by says what the records say. *)
TagsMatchBody ==
  tagRows = UNION {{<<id, tag>> : tag \in rows[id].record.tags} : id \in Stored}

(* The index never runs ahead of the store, and is behind it only where an indexing failed, was cut
   off, or is under way. *)
IndexFollowsStore ==
  /\ Indexed \subseteq Stored
  /\ \A id \in Stored :
       \/ id \in Indexed /\ vectors[id].text = rows[id].record.text
       \/ id \in owed
       \/ op.call = "index" /\ op.record.recordId = id

(* After a backfill that reports no failure every record has a vector of the current model. *)
BackfillComplete ==
  returned.call = "backfill" /\ returned.failed = 0 => \A id \in Stored : HoldsVector(id)

(* The vectors a process wrote can all be compared with the queries it embeds, although the model
   behind the name may change its dimensions: they all have those of the first answer. *)
OwnVectorsComparable ==
  \A id \in mine : HoldsVector(id) /\ vectors[id].dimensions = observedDimensions

-----------------------------------------------------------------------------
HitIds(list) == [i \in DOMAIN list |-> list[i].record.recordId]

Kept == {returned.selection.hits[i].hit : i \in DOMAIN returned.selection.hits}
Dropped == {returned.selection.dropped[i].hit : i \in DOMAIN returned.selection.dropped}
HitKinds(hits) == {h.record.kind : h \in hits}

(* What is returned and what is reported as dropped are together what matched; as many hits as the
   limit allows; and for every hit that diversity lifted over the limit one is displaced. *)
SelectionAccounted ==
  returned.call = "retrieve" =>
    LET selection == returned.selection
        lifted == {i \in DOMAIN selection.hits : selection.hits[i].keptByDiversity}
        displaced == {i \in DOMAIN selection.dropped :
                        selection.dropped[i].reason = "displaced_by_diversity"}
    IN /\ Kept \cup Dropped = ToSet(returned.ranked)
       /\ Kept \cap Dropped = {}
       /\ Len(selection.hits) = Min({Len(returned.ranked), returned.query.limit})
       /\ Cardinality(lifted) = Cardinality(displaced)

(* No kind of memory that matched is left out while another kind is returned twice, and a hit is
   never dropped for a lower one of its own kind. *)
KindsRepresented ==
  returned.call = "retrieve" /\ KindDiversity =>
    /\ \A h \in Dropped, k \in Kept : h.record.kind = k.record.kind => RanksBefore(k, h)
    /\ HitKinds(Dropped) \subseteq HitKinds(Kept)
       \/ \A h, k \in Kept : h.record.kind = k.record.kind => h = k

(* Without the semantic stage the hybrid retriever finds and ranks what the lexical one does. *)
DegradesToLexical ==
  returned.call = "retrieve" /\ ~returned.ran =>
    HitIds(returned.ranked) = HitIds(LexicalHits(Terms(returned.query.text), returned.candidates))

(* A record found by meaning alone is near the query by the text it has now, unless its indexing is
   still owed. *)
FoundByMeaning ==
  returned.call = "retrieve" =>
    \A i \in DOMAIN returned.ranked :
      LET hit == returned.ranked[i]
      IN "keyword" \notin hit.matchedBy =>
           \/ Similarity(returned.query.text, hit.record.text) >= SemanticThreshold
           \/ hit.record.recordId \in owed

(* Rows, tags and vectors agree with each other, and what a backfill or a process says of them is so:
   put's transaction, tryIndex, backfill, and the check of dimensions. *)
MemoryInv ==
  /\ MemoryTypeOK /\ TagsMatchBody
  /\ IndexFollowsStore /\ BackfillComplete /\ OwnVectorsComparable

(* The limit of a retrieval is kept to, openly, and no kind suffers by it (rankHits). *)
SelectionFair == SelectionAccounted /\ KindsRepresented
=============================================================================
