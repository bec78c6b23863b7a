--------------------------- MODULE IndexedMemory ----------------------------
(***************************************************************************)
(* The memory a run uses: a store that indexes what it stores              *)
(* (indexed-memory-store.ts), its backfill, and retrieval over both        *)
(* (HybridRetriever.retrieve), in processes that come one after the other. *)
(* One caller uses it: `op` is the call that is suspended, always at the   *)
(* answer of the embedding server. The process may be interrupted, which   *)
(* closes the files under the pending call, or crash; the next process may *)
(* be configured with another embedding model.                             *)
(***************************************************************************)
EXTENDS MemoryStore, SemanticIndex, Retrieval

CONSTANTS
  Models,           \* embedding models a process may be configured with
  Replies,          \* replies of the embedding server for one text
  Queries,          \* [text, kinds, tags, limit], what is retrieved for
  MaxCandidates,    \* of the retriever
  MaxPuts, MaxOpens \* bounds: puts, and processes

ASSUME MemoryAssumption ==
  /\ \A reply \in Replies : reply \in Seq([index : Int, dimensions : Int])
  /\ \A query \in Queries :
       /\ IsFiniteSet(query.text) /\ query.limit \in Nat
       /\ \A record \in Records : Similarity(query.text, record.text) \in Int
  /\ MaxCandidates \in Nat /\ MaxPuts \in Nat /\ MaxOpens \in Nat \ {0}

VARIABLES
  op,               \* the pending call
  owed,             \* records whose last indexing failed, or was cut off
  mine,             \* records whose vector this process wrote
  returned,         \* what the last call returned
  puts, opens

memoryVars == <<storeVars, indexVars, op, owed, mine, returned, puts, opens>>

Idle == [call |-> "none"]
IsIdle == op = Idle

Init ==
  /\ StoreInit
  /\ vectors = [id \in {} |-> {}]
  /\ model \in Models
  /\ observedDimensions = 0
  /\ op = Idle
  /\ owed = {} /\ mine = {}
  /\ returned = Idle
  /\ puts = 0 /\ opens = 1

-----------------------------------------------------------------------------
(* What an indexing that failed leaves behind: put() returns all the same, backfill() counts it. *)
WithFailure(call) == IF call.call = "backfill" THEN [call EXCEPT !.failed = @ + 1] ELSE call

(* A bug: index() trusts that a vector of the record is one of its text. *)
BeginIndexing_OnceOnly(record, next, done) ==
  LET id == record.recordId
  IN \/ /\ record.text = {}
        /\ op' = WithFailure(done)
        /\ owed' = owed \cup {id}
     \/ /\ record.text # {} /\ HoldsVector(id)
        /\ op' = done
        /\ owed' = owed \ {id}
     \/ /\ record.text # {} /\ ~HoldsVector(id)
        /\ op' = next
        /\ UNCHANGED owed

(* tryIndex up to its await: the call `next` waits for the vector, or goes on as `done`. *)
BeginIndexing(record, next, done) ==
  LET id == record.recordId
  IN \/ /\ record.text = {}
        /\ op' = WithFailure(done)
        /\ owed' = owed \cup {id}
     \/ /\ record.text # {} /\ UpToDate(id, record.text)
        /\ op' = done
        /\ owed' = owed \ {id}
     \/ /\ record.text # {} /\ ~UpToDate(id, record.text)
        /\ op' = next
        /\ UNCHANGED owed

Indexing(record, after) ==
  [call |-> "index", record |-> record, after |-> after]

(* put(): the store first; only what it accepted is indexed. *)
Put(record) ==
  /\ IsIdle /\ puts < MaxPuts
  /\ puts' = puts + 1
  /\ \/ /\ Refused(record)
        /\ UNCHANGED <<storeVars, op, owed>>
     \/ /\ ~Refused(record)
        /\ Upsert(record)
        /\ BeginIndexing(record, Indexing(record, Idle), Idle)
  /\ returned' = Idle
  /\ UNCHANGED <<indexVars, mine, opens>>

(* The transaction fails and is rolled back: the caller gets an error, nothing is indexed. *)
PutFails(record) ==
  /\ IsIdle /\ puts < MaxPuts /\ ~Refused(record)
  /\ puts' = puts + 1
  /\ returned' = Idle
  /\ UNCHANGED <<storeVars, indexVars, op, owed, mine, opens>>

(* The server's reply for a record: its vector is stored, unless the reply is rejected or the
   file was closed meanwhile. *)
VectorArrives(reply) ==
  /\ op.call = "index"
  /\ LET id == op.record.recordId
         kept == Accepted(reply, 1) /\ isOpen
     IN /\ observedDimensions' = IF Accepted(reply, 1) THEN reply[1].dimensions
                                 ELSE observedDimensions
        /\ IF kept
           THEN /\ StoreVector(id, op.record.text, reply[1].dimensions)
                /\ op' = op.after
                /\ owed' = owed \ {id}
                /\ mine' = mine \cup {id}
           ELSE /\ op' = WithFailure(op.after)
                /\ owed' = owed \cup {id}
                /\ UNCHANGED <<vectors, mine>>
  /\ UNCHANGED <<storeVars, model, returned, puts, opens>>

(* The embedding call fails: the failure is reported, the record stays stored. *)
EmbeddingFails ==
  /\ op.call = "index"
  /\ op' = WithFailure(op.after)
  /\ owed' = owed \cup {op.record.recordId}
  /\ UNCHANGED <<storeVars, indexVars, mine, returned, puts, opens>>

-----------------------------------------------------------------------------
AllRecords == [kinds |-> {r.kind : r \in Records}, tags |-> {}, limit |-> Cardinality(Stored)]

(* backfill(): the records are read once, then looked at one by one. *)
Backfill ==
  /\ IsIdle /\ isOpen
  /\ op' = [call |-> "backfill", rest |-> Query(AllRecords), failed |-> 0]
  /\ returned' = Idle
  /\ UNCHANGED <<storeVars, indexVars, owed, mine, puts, opens>>

(* A bug: whatever model made it, a vector counts as held. *)
SkippedByBackfill_AnyModel(id) == id \in Indexed

(* A record the index holds for this model is skipped. *)
SkippedByBackfill(id) == HoldsVector(id)

BackfillNext ==
  /\ op.call = "backfill" /\ op.rest # <<>> /\ isOpen
  /\ LET record == Head(op.rest)
         after == [op EXCEPT !.rest = Tail(op.rest)]
     IN IF SkippedByBackfill(record.recordId)
        THEN op' = after /\ UNCHANGED owed
        ELSE BeginIndexing(record, Indexing(record, after), after)
  /\ UNCHANGED <<storeVars, indexVars, mine, returned, puts, opens>>

BackfillReturns ==
  /\ op.call = "backfill" /\ op.rest = <<>>
  /\ op' = Idle
  /\ returned' = [call |-> "backfill", failed |-> op.failed]
  /\ UNCHANGED <<storeVars, indexVars, owed, mine, puts, opens>>

(* contains() throws once the file is closed, and backfill with it. *)
BackfillThrows ==
  /\ op.call = "backfill" /\ op.rest # <<>> /\ ~isOpen
  /\ op' = Idle
  /\ UNCHANGED <<storeVars, indexVars, owed, mine, returned, puts, opens>>

-----------------------------------------------------------------------------
(* What retrieve returns, once the cosines are known or the search failed. *)
Retrieved(query, candidates, ran, degraded, scores) ==
  LET ranked == HybridHits(Terms(query.text), scores, candidates)
  IN [call |-> "retrieve", query |-> query, candidates |-> candidates, ran |-> ran,
      degraded |-> degraded, ranked |-> ranked, selection |-> RankHits(ranked, query.limit)]

NoScores == [id \in {} |-> 0]

CandidateIds(candidates) == {r.recordId : r \in ToSet(candidates)}

(* retrieve(): the candidates, and the vectors to compare if there are any. *)
Retrieve(query) ==
  /\ IsIdle /\ isOpen
  /\ LET candidates == IF query.text = {} THEN <<>>
                       ELSE Query([kinds |-> query.kinds, tags |-> query.tags,
                                   limit |-> MaxCandidates])
         compared == CandidateRows(CandidateIds(candidates))
     IN IF compared = {}
        THEN /\ op' = Idle
             /\ returned' = Retrieved(query, candidates, candidates # <<>>, FALSE, NoScores)
        ELSE /\ op' = [call |-> "search", query |-> query, candidates |-> candidates,
                       compared |-> compared]
             /\ returned' = Idle
  /\ UNCHANGED <<storeVars, indexVars, owed, mine, puts, opens>>

(* The reply for the query's text: cosines, or a search that failed. *)
QueryVectorArrives(reply) ==
  /\ op.call = "search"
  /\ op' = Idle
  /\ observedDimensions' = IF Accepted(reply, 1) THEN reply[1].dimensions ELSE observedDimensions
  /\ returned' = IF Accepted(reply, 1)
                 THEN Retrieved(op.query, op.candidates, TRUE, FALSE,
                        SearchScores(op.compared, op.query.text, reply[1].dimensions))
                 ELSE Retrieved(op.query, op.candidates, FALSE, TRUE, NoScores)
  /\ UNCHANGED <<storeVars, vectors, model, owed, mine, puts, opens>>

QueryEmbeddingFails ==
  /\ op.call = "search"
  /\ op' = Idle
  /\ returned' = Retrieved(op.query, op.candidates, FALSE, TRUE, NoScores)
  /\ UNCHANGED <<storeVars, indexVars, owed, mine, puts, opens>>

-----------------------------------------------------------------------------
(* cleanup of an interrupted command line: index and store are closed, the call goes on. *)
Close ==
  /\ isOpen
  /\ isOpen' = FALSE
  /\ returned' = Idle
  /\ UNCHANGED <<rows, tagRows, indexVars, op, owed, mine, puts, opens>>

(* The process ends, in order or not; what it had not committed is gone. *)
ProcessEnds ==
  /\ isOpen \/ ~IsIdle
  /\ isOpen' = FALSE
  /\ owed' = IF op.call = "index" THEN owed \cup {op.record.recordId} ELSE owed
  /\ op' = Idle /\ returned' = Idle
  /\ UNCHANGED <<rows, tagRows, indexVars, mine, puts, opens>>

Open(nextModel) ==
  /\ ~isOpen /\ IsIdle /\ opens < MaxOpens
  /\ opens' = opens + 1
  /\ isOpen' = TRUE
  /\ model' = nextModel
  /\ observedDimensions' = 0
  /\ mine' = {}
  /\ returned' = Idle
  /\ UNCHANGED <<rows, tagRows, vectors, op, owed, puts>>

Next ==
  \/ \E record \in Records : Put(record) \/ PutFails(record)
  \/ \E reply \in Replies : VectorArrives(reply) \/ QueryVectorArrives(reply)
  \/ EmbeddingFails
  \/ Backfill \/ BackfillNext \/ BackfillReturns \/ BackfillThrows
  \/ \E query \in Queries : Retrieve(query)
  \/ QueryEmbeddingFails
  \/ Close \/ ProcessEnds
  \/ \E nextModel \in Models : Open(nextModel)

Spec == Init /\ [][Next]_memoryVars
=============================================================================
