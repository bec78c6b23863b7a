----------------------------- MODULE Retrieval ------------------------------
(***************************************************************************)
(* How records are scored and ranked for a query: the hybrid retriever     *)
(* (hybrid-retriever.ts) and the lexical one (lexical-retriever.ts). A hit *)
(* is [record, score, matchedBy]. A cosine is in hundredths, and the score *)
(* of a hit in hundredths of what one term of the query counts for: a      *)
(* record with all the terms of a query of n has 100 * n.  The score for a *)
(* query of no term is the cosine.                                         *)
(***************************************************************************)
EXTENDS Integers, FiniteSets, Sequences, SequencesExt, FiniteSetsExt, SortedLists

CONSTANTS
  StopWords,            \* words that are no terms: STOPWORDS, and those too short
  SemanticThreshold,    \* a cosine below it is no match
  KindDiversity         \* keep the best hit of every kind

ASSUME RetrievalAssumption == SemanticThreshold \in Int /\ KindDiversity \in BOOLEAN

(* Score descending, then newer first, then by id. *)
RanksBefore(a, b) ==
  \/ a.score > b.score
  \/ /\ a.score = b.score
     /\ \/ a.record.createdAt > b.record.createdAt
        \/ /\ a.record.createdAt = b.record.createdAt
           /\ a.record.recordId < b.record.recordId

Ranked(hits) == SortedList(hits, RanksBefore)

(* lexicalTerms *)
Terms(text) == text \ StopWords

Overlap(terms, record) == Cardinality(terms \cap Terms(record.text))

(* A bug: the share is taken of the record's terms. *)
Coverage_OfRecord(terms, record) ==
  IF Terms(record.text) = {} THEN 0
  ELSE (100 * Cardinality(terms) * Overlap(terms, record)) \div Cardinality(Terms(record.text))

(* keywordCoverage: the share of the query's terms found in the record. *)
Coverage(terms, record) == 100 * Overlap(terms, record)

(* score(), the same count before it was made a share. *)
LexicalHits(terms, candidates) ==
  Ranked({[record |-> r, score |-> Overlap(terms, r), matchedBy |-> {"metadata", "keyword"}] :
            r \in {c \in ToSet(candidates) : Overlap(terms, c) > 0}})

-----------------------------------------------------------------------------
(* A bug: every record the index returned counts as a match, however far away. *)
Admitted_Always(scores, record) == record.recordId \in DOMAIN scores

(* semanticHit, for the cosines the index returned: a function of some of the records. *)
Admitted(scores, record) ==
  record.recordId \in DOMAIN scores /\ scores[record.recordId] >= SemanticThreshold

(* What the cosine counts for beside the count of the terms. *)
CosineWeight(terms) == IF terms = {} THEN 1 ELSE Cardinality(terms)

HybridHit(terms, scores, record) ==
  LET keyword == Coverage(terms, record)
      semantic == Admitted(scores, record)
  IN [record |-> record,
      score |-> keyword + (IF semantic THEN CosineWeight(terms) * scores[record.recordId] ELSE 0),
      matchedBy |-> {"metadata"} \cup {s \in {"keyword"} : keyword > 0}
                                 \cup {s \in {"semantic"} : semantic}]

HybridHits(terms, scores, candidates) ==
  Ranked({HybridHit(terms, scores, r) :
            r \in {c \in ToSet(candidates) : Coverage(terms, c) > 0 \/ Admitted(scores, c)}})

-----------------------------------------------------------------------------
(* Whether no better hit is of the same kind: kindsSeen does not hold its kind yet. *)
BestOfKind(ranked, i) == \A j \in 1 .. i - 1 : ranked[j].record.kind # ranked[i].record.kind

(* A bug: the limit is looked at after a hit was chosen. *)
FirstPass_OneTooMany(ranked, limit) ==
  {i \in DOMAIN ranked :
     /\ BestOfKind(ranked, i)
     /\ Cardinality({j \in 1 .. i - 1 : BestOfKind(ranked, j)}) <= limit}

(* The first pass of rankHits: the best hit of each kind, in ranked order, up to the limit. *)
FirstPass(ranked, limit) ==
  {i \in DOMAIN ranked :
     /\ BestOfKind(ranked, i)
     /\ Cardinality({j \in 1 .. i - 1 : BestOfKind(ranked, j)}) < limit}

(* The second pass: the rest in ranked order until the limit is reached. *)
ChosenWithDiversity(ranked, limit) ==
  LET first == FirstPass(ranked, limit)
  IN first \cup {i \in DOMAIN ranked \ first :
       Cardinality(first) + Cardinality((1 .. i - 1) \ first) < limit}

(* A bug: diversity is applied to what the plain limit left. *)
Chosen_AfterLimit(ranked, limit) == {i \in DOMAIN ranked : i <= limit}

Chosen(ranked, limit) ==
  IF ~KindDiversity \/ Len(ranked) <= limit
  THEN {i \in DOMAIN ranked : i <= limit}
  ELSE ChosenWithDiversity(ranked, limit)

(* What rankHits returns: the hits in ranked order with the ranks they had, and those dropped. *)
RankHits(ranked, limit) ==
  LET chosen == Chosen(ranked, limit)
      Reason(i) == IF KindDiversity /\ i <= limit THEN "displaced_by_diversity" ELSE "below_limit"
  IN [hits |-> [n \in 1 .. Cardinality(chosen) |->
                  LET i == Ascending(chosen)[n]
                  IN [hit |-> ranked[i], rankBefore |-> i,
                      keptByDiversity |-> KindDiversity /\ Len(ranked) > limit /\ i > limit]],
      dropped |-> [n \in 1 .. Len(ranked) - Cardinality(chosen) |->
                     LET i == Ascending(DOMAIN ranked \ chosen)[n]
                     IN [hit |-> ranked[i], rankBefore |-> i, reason |-> Reason(i)]]]
=============================================================================
