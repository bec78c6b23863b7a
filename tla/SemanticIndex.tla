--------------------------- MODULE SemanticIndex ----------------------------
(***************************************************************************)
(* The semantic index on SQLite (sqlite-semantic-index.ts) and the         *)
(* embedding provider it asks (openai-compatible/embedding-provider.ts):   *)
(* one vector per record, next to the model that made it and the hash of   *)
(* the text it was made of. A vector is known by that model, its number    *)
(* of dimensions and the text, which is also the hash. Models names the    *)
(* models in use; what answers behind a name may change its dimensions.    *)
(***************************************************************************)
EXTENDS Integers, FiniteSets, Sequences, SequencesExt, FiniteSetsExt, SortedLists

CONSTANTS
  MaxVectors,                \* maxCandidates of the index
  Similarity(_, _)           \* cosine of two texts, in hundredths

ASSUME VectorsAssumption == MaxVectors \in Nat

VARIABLES
  vectors,                   \* record id -> [model, dimensions, text, seq]
  model,                     \* descriptor of this process's embedding provider
  observedDimensions         \* what its first answer had; 0 before

indexVars == <<vectors, model, observedDimensions>>

Indexed == DOMAIN vectors

HoldsVector(id) == id \in Indexed /\ vectors[id].model = model

(* index() has nothing to do: the vector of this very text is there. *)
UpToDate(id, text) == HoldsVector(id) /\ vectors[id].text = text

(* upsert.run: a new vector replaces the old one and moves to the end. *)
StoreVector(id, text, dimensions) ==
  LET last == IF Indexed = {} THEN 0 ELSE Max({vectors[other].seq : other \in Indexed})
      vector == [model |-> model, dimensions |-> dimensions, text |-> text, seq |-> last + 1]
  IN vectors' = [other \in Indexed \cup {id} |-> IF other = id THEN vector ELSE vectors[other]]

-----------------------------------------------------------------------------
(* parseEmbeddings: a reply is the list of [index, dimensions] it carries for n inputs. *)
WellFormedReply(reply, n) ==
  /\ Len(reply) = n
  /\ \A i \in DOMAIN reply : reply[i].index \in 0 .. n - 1 /\ reply[i].dimensions > 0
  /\ \A i, j \in DOMAIN reply : reply[i].index = reply[j].index => i = j

(* A bug: the dimensions of later answers are not compared with the first. *)
Accepted_AnyDimensions(reply, n) ==
  /\ WellFormedReply(reply, n)
  /\ \A i, j \in DOMAIN reply : reply[i].dimensions = reply[j].dimensions

(* checkDimensions: all alike, and alike those of the first answer. *)
Accepted(reply, n) ==
  /\ WellFormedReply(reply, n)
  /\ \A i, j \in DOMAIN reply : reply[i].dimensions = reply[j].dimensions
  /\ observedDimensions # 0 => reply[1].dimensions = observedDimensions

-----------------------------------------------------------------------------
(* candidateRows: the latest vectors of this model among the records given. *)
CandidateRows(within) ==
  LET comparable == {id \in within : HoldsVector(id)}
      Newer(a, b) == vectors[a].seq > vectors[b].seq
      sorted == SortedList(comparable, Newer)
  IN ToSet(SubSeq(sorted, 1, Min({MaxVectors, Len(sorted)})))

(* The scores search returns, for the candidates of the dimension of the query's vector. *)
SearchScores(compared, text, dimensions) ==
  [id \in {c \in compared : vectors[c].dimensions = dimensions} |->
     Similarity(text, vectors[id].text)]
=============================================================================
