---------------------------- MODULE MemoryStore -----------------------------
(***************************************************************************)
(* The memory store on SQLite (sqlite-memory-store.ts): one row per record *)
(* with the columns queries filter and order by, and a table of tags. A    *)
(* put is one transaction, run without an await inside: other callers see  *)
(* all of it or nothing, and so does a process that comes after a crash.   *)
(*                                                                         *)
(* A text is the set of words it contains, blank when there is none.       *)
(***************************************************************************)
EXTENDS Integers, FiniteSets, Sequences, FiniteSetsExt, SortedLists

CONSTANT Records    \* [recordId, kind, runId, createdAt, text, tags, valid]

ASSUME RecordsAssumption ==
  \A r \in Records :
    /\ r.recordId \in Nat /\ r.createdAt \in Nat
    /\ IsFiniteSet(r.text)
    /\ r.valid \in BOOLEAN

VARIABLES
  rows,             \* record id -> [record, seq]
  tagRows,          \* the pairs <<record id, tag>> of memory_record_tags
  isOpen            \* the process has the file open

storeVars == <<rows, tagRows, isOpen>>

StoreInit ==
  /\ rows = [id \in {} |-> {}]
  /\ tagRows = {}
  /\ isOpen = TRUE

Stored == DOMAIN rows

LastSeq == IF Stored = {} THEN 0 ELSE Max({rows[id].seq : id \in Stored})

(* selectOwner finds another run: the ids of two runs collide. *)
Conflicts(record) ==
  record.recordId \in Stored /\ rows[record.recordId].record.runId # record.runId

(* A bug: a record is not looked at before it is stored. *)
Refused_Unchecked(record) == ~isOpen \/ Conflicts(record)

(* requireOpen, assertStorableRecord and the check of the owner. *)
Refused(record) == ~isOpen \/ ~record.valid \/ Conflicts(record)

(* A bug: the table of tags keeps what an earlier version of the record was tagged with. *)
Upsert_KeepsOldTags(record) ==
  LET id == record.recordId
      seq == IF id \in Stored THEN rows[id].seq ELSE LastSeq + 1
  IN /\ rows' = [other \in Stored \cup {id} |->
                   IF other = id THEN [record |-> record, seq |-> seq] ELSE rows[other]]
     /\ tagRows' = tagRows \cup {<<id, tag>> : tag \in record.tags}
     /\ UNCHANGED isOpen

(* A bug: INSERT OR REPLACE, which gives a known record a new place. *)
Upsert_Replaces(record) ==
  LET id == record.recordId
  IN /\ rows' = [other \in Stored \cup {id} |->
                   IF other = id THEN [record |-> record, seq |-> LastSeq + 1] ELSE rows[other]]
     /\ tagRows' = {row \in tagRows : row[1] # id} \cup {<<id, tag>> : tag \in record.tags}
     /\ UNCHANGED isOpen

(* The committed transaction of put: the row is inserted or its columns updated, seq kept. *)
Upsert(record) ==
  LET id == record.recordId
      seq == IF id \in Stored THEN rows[id].seq ELSE LastSeq + 1
  IN /\ rows' = [other \in Stored \cup {id} |->
                   IF other = id THEN [record |-> record, seq |-> seq] ELSE rows[other]]
     /\ tagRows' = {row \in tagRows : row[1] # id} \cup {<<id, tag>> : tag \in record.tags}
     /\ UNCHANGED isOpen

-----------------------------------------------------------------------------
(* A query is [kinds, tags, limit]: the kinds wanted, the tags a record must all have. *)
Matches(query, id) ==
  /\ rows[id].record.kind \in query.kinds
  /\ \A tag \in query.tags : <<id, tag>> \in tagRows

(* ORDER BY created_at, seq *)
Older(a, b) ==
  \/ rows[a].record.createdAt < rows[b].record.createdAt
  \/ rows[a].record.createdAt = rows[b].record.createdAt /\ rows[a].seq < rows[b].seq

Take(list, limit) == SubSeq(list, 1, Min({limit, Len(list)}))

Query(query) ==
  LET found == SortedList({id \in Stored : Matches(query, id)}, Older)
  IN Take([i \in DOMAIN found |-> rows[found[i]].record], query.limit)
=============================================================================
