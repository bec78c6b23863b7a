------------------------ MODULE ModelExchangeProofs ------------------------
(***************************************************************************)
(* Proofs about ResilientModel, for every retry and re-ask budget and      *)
(* every set of provider errors; and about ModelExchange, where the        *)
(* request goes over the wire: it is a request of ResilientModel, so that  *)
(* what is proved of every provider holds of the OpenAI-compatible one.    *)
(***************************************************************************)
EXTENDS ModelExchange, SubsequenceTheorems, FiniteSetTheorems, FunctionTheorems

USE BudgetAssumption

\* Every variable of a request keeps its type; in particular neither counter
\* ever passes its budget.
LEMMA TypeStep == TypeOK /\ [Next]_vars => TypeOK'
<1> SUFFICES ASSUME TypeOK, [Next]_vars
             PROVE  TypeOK'
  OBVIOUS
<1> USE DEF TypeOK
<1>1. CASE StartCall
  BY <1>1 DEF StartCall
<1>2. CASE ProviderAnswers
  BY <1>2 DEF ProviderAnswers, EndCall, Event, Outcome
<1>3. CASE ProviderAnswersInvalid
  BY <1>3 DEF ProviderAnswersInvalid, EndCall, Event, Outcome
<1>4. ASSUME NEW error \in Errors, ProviderFails(error)
      PROVE  TypeOK'
  BY <1>4 DEF ProviderFails, EndCall, Event, Outcome
<1>5. CASE WakeUp
  BY <1>5 DEF WakeUp
<1>6. CASE UNCHANGED vars
  BY <1>6 DEF vars
<1> QED
  BY <1>1, <1>2, <1>3, <1>4, <1>5, <1>6 DEF Next

\* Every variable of a request keeps its type, for every budget and every set of
\* errors (ResilientModelProvider's two loops, InstrumentedModelProvider's count).
THEOREM RequestTypes == Spec => []TypeOK
<1>1. Init => TypeOK
  BY EmptySeq DEF Init, TypeOK
<1> QED
  BY <1>1, TypeStep, PTL DEF Spec

-----------------------------------------------------------------------------
(* The bound on calls.  A ready request has made the calls its re-asks and   *)
(* retries account for; a call under way, or one that just ended, is one     *)
(* more.  Every re-ask enters withRetries anew, hence the product.           *)

\* The most calls that a number of finished rounds of withRetries can make.
RoundCalls(rounds) == rounds * (MaxRetries + 1)

CallsInvariant ==
  /\ pc = "ready" => attempt <= RoundCalls(reasks) + retries
  /\ pc # "ready" => attempt \in 1 .. RoundCalls(reasks) + retries + 1

\* One more round allows MaxRetries + 1 more calls, and fewer rounds never
\* allow more.
LEMMA RoundCallsGrow ==
  ASSUME NEW r \in Nat
  PROVE  /\ RoundCalls(r) \in Nat
         /\ RoundCalls(r + 1) = RoundCalls(r) + MaxRetries + 1
         /\ \A m \in Nat : r <= m => RoundCalls(r) <= RoundCalls(m)
<1>1. RoundCalls(r) \in Nat
  BY DEF RoundCalls
<1>2. RoundCalls(r + 1) = RoundCalls(r) + MaxRetries + 1
  BY DEF RoundCalls
<1>3. ASSUME NEW m \in Nat, r <= m
      PROVE  RoundCalls(r) <= RoundCalls(m)
  <2>1. m * (MaxRetries + 1) = r * (MaxRetries + 1) + (m - r) * (MaxRetries + 1)
    OBVIOUS
  <2>2. (m - r) * (MaxRetries + 1) >= 0
    BY <1>3
  <2> QED
    BY <2>1, <2>2 DEF RoundCalls
<1> QED
  BY <1>1, <1>2, <1>3

\* No request makes more than CallBudget calls, whatever the provider does,
\* and one that settled made at least one.
THEOREM RequestCallsBounded == Spec => []CallsBounded
<1>1. Init => CallsInvariant
  BY DEF Init, CallsInvariant, RoundCalls
<1>2. TypeOK /\ CallsInvariant /\ [Next]_vars => CallsInvariant'
  <2> SUFFICES ASSUME TypeOK, CallsInvariant, [Next]_vars
               PROVE  CallsInvariant'
    OBVIOUS
  <2>0. RoundCalls(reasks) \in Nat /\ attempt \in Nat /\ retries \in 0 .. MaxRetries
    <3>1. reasks \in Nat /\ attempt \in Nat /\ retries \in 0 .. MaxRetries
      BY DEF TypeOK
    <3> QED
      BY <3>1, RoundCallsGrow
  <2>1. CASE StartCall
    BY <2>0, <2>1 DEF StartCall, CallsInvariant
  <2>2. CASE ProviderAnswers
    BY <2>0, <2>2 DEF ProviderAnswers, EndCall, CallsInvariant
  <2>3. CASE ProviderAnswersInvalid
    <3>1. CASE reasks' = reasks
      BY <2>0, <2>3, <3>1 DEF ProviderAnswersInvalid, EndCall, CallsInvariant,
        TypeOK
    <3>2. CASE reasks' = reasks + 1 /\ retries' = 0 /\ pc' = "ready"
      <4>1. RoundCalls(reasks') = RoundCalls(reasks) + MaxRetries + 1
        BY <3>2, RoundCallsGrow DEF TypeOK
      <4>2. attempt' = attempt /\ attempt <= RoundCalls(reasks) + retries + 1
        BY <2>3 DEF ProviderAnswersInvalid, EndCall, CallsInvariant
      <4> QED
        BY <2>0, <3>2, <4>1, <4>2 DEF CallsInvariant
    <3> QED
      BY <2>3, <3>1, <3>2 DEF ProviderAnswersInvalid
  <2>4. ASSUME NEW error \in Errors, ProviderFails(error)
        PROVE  CallsInvariant'
    BY <2>0, <2>4 DEF ProviderFails, EndCall, CallsInvariant
  <2>5. CASE WakeUp
    BY <2>0, <2>5 DEF WakeUp, CallsInvariant
  <2>6. CASE UNCHANGED vars
    BY <2>6 DEF vars, CallsInvariant
  <2> QED
    BY <2>1, <2>2, <2>3, <2>4, <2>5, <2>6 DEF Next
<1>3. TypeOK /\ CallsInvariant => CallsBounded
  <2> SUFFICES ASSUME TypeOK, CallsInvariant
               PROVE  CallsBounded
    OBVIOUS
  <2>1. RoundCalls(reasks) <= RoundCalls(MaxReasks)
    BY RoundCallsGrow DEF TypeOK
  <2>2. RoundCalls(reasks) \in Nat /\ RoundCalls(MaxReasks) \in Nat
    <3>1. reasks \in Nat /\ MaxReasks \in Nat
      BY DEF TypeOK
    <3> QED
      BY <3>1, RoundCallsGrow
  <2>3. CallBudget = RoundCalls(MaxReasks) + MaxRetries + 1
    BY DEF CallBudget, RoundCalls
  <2> QED
    BY <2>1, <2>2, <2>3 DEF CallsBounded, CallsInvariant, TypeOK
<1> QED
  BY <1>1, <1>2, <1>3, RequestTypes, PTL DEF Spec

-----------------------------------------------------------------------------
(* What is left of a request.  Liveness itself is TLC's: this is the number  *)
(* that makes it true.                                                       *)

\* The steps a request still has at most: three for every retry it may make
\* in this round, as many rounds as re-asks are left, and what is under way.
StepsUnderWay ==
  IF pc = "ready" THEN 2 ELSE IF pc = "calling" THEN 1 ELSE 0

RetriesLeft(rounds, made) == RoundCalls(rounds) + MaxRetries - made

Budget == 3 * RetriesLeft(MaxReasks - reasks, retries) + StepsUnderWay

StepsLeft == IF pc \in {"returned", "threw"} THEN 0 ELSE Budget

\* A request that has settled takes no step, and every step of one that has
\* not leaves less to do: no provider keeps withRetries or the re-ask loops
\* going for ever.
THEOREM RequestRunsOut ==
  Spec => [](StepsLeft \in Nat) /\ [][StepsLeft' < StepsLeft]_vars
<1>1. ASSUME TypeOK
      PROVE  StepsLeft \in Nat
  <2>1. MaxReasks - reasks \in Nat /\ MaxRetries - retries \in Nat /\ StepsUnderWay \in Nat
    BY <1>1, BudgetAssumption DEF TypeOK, StepsUnderWay
  <2>2. PICK rounds \in Nat : rounds = RoundCalls(MaxReasks - reasks)
    BY <2>1, RoundCallsGrow
  <2> QED
    BY <1>1, <2>1, <2>2, BudgetAssumption DEF StepsLeft, Budget, RetriesLeft, TypeOK
<1>2. ASSUME TypeOK, Next
      PROVE  Budget' < Budget
  <2>1. /\ MaxReasks \in Nat /\ MaxRetries \in Nat /\ reasks \in 0 .. MaxReasks
        /\ retries \in 0 .. MaxRetries /\ MaxReasks - reasks \in Nat
    BY <1>2, BudgetAssumption DEF TypeOK
  <2>2. PICK rounds \in Nat : rounds = RoundCalls(MaxReasks - reasks)
    BY <2>1, RoundCallsGrow
  <2>3. Budget = 3 * (rounds + MaxRetries - retries) + StepsUnderWay
    BY <2>2 DEF Budget, RetriesLeft
  <2>4. ASSUME reasks' = reasks
        PROVE  Budget' = 3 * (rounds + MaxRetries - retries') + StepsUnderWay'
    BY <2>2, <2>4 DEF Budget, RetriesLeft
  <2>5. CASE StartCall
    <3>1. /\ reasks' = reasks /\ retries' = retries
          /\ StepsUnderWay = 2 /\ StepsUnderWay' = 1
      BY <2>5 DEF StartCall, StepsUnderWay
    <3> QED
      BY <2>1, <2>3, <2>4, <3>1
  <2>6. CASE ProviderAnswers \/ \E error \in Errors : ProviderFails(error)
    <3>1. /\ reasks' = reasks /\ retries' = retries
          /\ StepsUnderWay = 1 /\ StepsUnderWay' = 0
      BY <2>6 DEF ProviderAnswers, ProviderFails, EndCall, StepsUnderWay
    <3> QED
      BY <2>1, <2>3, <2>4, <3>1
  <2>7. CASE WakeUp
    <3>1. /\ reasks' = reasks /\ retries' = retries + 1
          /\ StepsUnderWay = 0 /\ StepsUnderWay' = 2
      BY <2>7 DEF WakeUp, StepsUnderWay
    <3> QED
      BY <2>1, <2>3, <2>4, <3>1
  <2>8. CASE ProviderAnswersInvalid
    <3>1. StepsUnderWay = 1
      BY <2>8 DEF ProviderAnswersInvalid, EndCall, StepsUnderWay
    <3>2. CASE reasks >= MaxReasks
      <4>1. reasks' = reasks /\ retries' = retries /\ StepsUnderWay' = 0
        BY <2>1, <2>8, <3>2 DEF ProviderAnswersInvalid, StepsUnderWay
      <4> QED
        BY <2>1, <2>3, <2>4, <3>1, <4>1
    <3>3. CASE reasks < MaxReasks
      <4>1. reasks' = reasks + 1 /\ retries' = 0 /\ StepsUnderWay' = 2
        BY <2>1, <2>8, <3>3 DEF ProviderAnswersInvalid, StepsUnderWay
      <4>2. PICK left \in Nat : left = MaxReasks - (reasks + 1) /\ left + 1 = MaxReasks - reasks
        BY <2>1, <3>3
      <4>3. PICK fewer \in Nat : fewer = RoundCalls(left) /\ rounds = fewer + MaxRetries + 1
        BY <2>2, <4>2, RoundCallsGrow
      <4>4. Budget' = 3 * (fewer + MaxRetries - 0) + 2
        BY <4>1, <4>2, <4>3 DEF Budget, RetriesLeft
      <4> QED
        BY <2>1, <2>3, <3>1, <4>3, <4>4
    <3> QED
      BY <2>1, <3>2, <3>3
  <2> QED
    BY <1>2, <2>5, <2>6, <2>7, <2>8 DEF Next
<1>3. ASSUME TypeOK, Next
      PROVE  StepsLeft' < StepsLeft
  <2>1. pc \notin {"returned", "threw"} /\ (pc' \in {"returned", "threw"} => pc = "calling")
    BY <1>3 DEF Next, StartCall, EndCall, ProviderAnswers, ProviderAnswersInvalid, ProviderFails,
               WakeUp
  <2>2. CASE pc' \in {"returned", "threw"}
    <3>1. StepsUnderWay = 1
      BY <2>1, <2>2 DEF StepsUnderWay
    <3>2. MaxReasks - reasks \in Nat /\ MaxRetries - retries \in Nat
      BY <1>3, BudgetAssumption DEF TypeOK
    <3>3. PICK rounds \in Nat : rounds = RoundCalls(MaxReasks - reasks)
      BY <3>2, RoundCallsGrow
    <3>4. Budget > 0
      BY <1>3, <3>1, <3>2, <3>3, BudgetAssumption DEF Budget, RetriesLeft, TypeOK
    <3> QED
      BY <2>1, <2>2, <3>4 DEF StepsLeft
  <2>3. CASE pc' \notin {"returned", "threw"}
    BY <1>2, <1>3, <2>1, <2>3 DEF StepsLeft
  <2> QED
    BY <2>2, <2>3
<1>4. TypeOK => StepsLeft \in Nat
  BY <1>1
<1>5. TypeOK /\ [Next]_vars => [StepsLeft' < StepsLeft]_vars
  BY <1>3
<1> QED
  BY <1>4, <1>5, RequestTypes, PTL DEF Spec
-----------------------------------------------------------------------------
(* What the events tell.  They come in pairs, one pair a call, and the calls *)
(* that ended are as many as the attempts, less the one under way.           *)

PairsInvariant ==
  /\ CallsClosed
  /\ Len(calls) = IF pc = "calling" THEN attempt - 1 ELSE attempt
  /\ pc = "calling" => attempt >= 1

\* After an even number of events, one more announces the next call.
LEMMA PairOpens ==
  ASSUME TypeOK, PairsInvariant, pc # "calling", pc' = "calling",
         attempt' = attempt + 1,
         events' = Append(events, [type |-> "MODEL_CALL_STARTED",
                                   attempt |-> attempt + 1])
  PROVE  CallsClosed'
<1>0. /\ attempt \in Nat
      /\ events \in Seq([type : {"MODEL_CALL_STARTED", "MODEL_CALL_COMPLETED",
                                 "MODEL_CALL_FAILED"}, attempt : Nat])
  BY DEF TypeOK
<1>1. Len(events) = 2 * attempt
  BY DEF PairsInvariant, CallsClosed
<1>2. /\ Len(events') = 2 * attempt + 1
      /\ \A i \in 1 .. Len(events) : events'[i] = events[i]
      /\ events'[2 * attempt + 1] = [type |-> "MODEL_CALL_STARTED",
                                     attempt |-> attempt + 1]
  BY <1>0, <1>1
<1>3. (2 * attempt + 1) % 2 = 1 /\ (2 * attempt + 2) \div 2 = attempt + 1
  BY <1>0
<1>4. ASSUME NEW i \in DOMAIN events'
      PROVE  /\ (events'[i].type = "MODEL_CALL_STARTED") <=> (i % 2 = 1)
             /\ events'[i].attempt = (i + 1) \div 2
  <2>1. CASE i \in 1 .. Len(events)
    <3>1. events'[i] = events[i] /\ i \in DOMAIN events
      BY <1>0, <1>2, <2>1
    <3> QED
      BY <3>1 DEF PairsInvariant, CallsClosed
  <2>2. CASE i = 2 * attempt + 1
    BY <1>0, <1>2, <1>3, <2>2
  <2>3. i \in 1 .. Len(events')
    BY <1>0
  <2>4. i \in 1 .. Len(events) \/ i = 2 * attempt + 1
    BY <1>0, <1>1, <1>2, <2>3
  <2> QED
    BY <2>1, <2>2, <2>4
<1>5. Len(events') = 2 * attempt' - 1
  <2>1. 2 * (attempt + 1) - 1 = 2 * attempt + 1
    BY <1>0
  <2> QED
    BY <1>2, <2>1
<1> QED
  BY <1>4, <1>5, Zenon DEF CallsClosed

\* After an odd number of events, one more closes the call under way.
LEMMA PairCloses ==
  ASSUME TypeOK, PairsInvariant, pc = "calling", pc' # "calling",
         NEW type \in {"MODEL_CALL_COMPLETED", "MODEL_CALL_FAILED"},
         attempt' = attempt,
         events' = Append(events, [type |-> type, attempt |-> attempt])
  PROVE  CallsClosed'
<1>0. /\ attempt \in Nat
      /\ events \in Seq([type : {"MODEL_CALL_STARTED", "MODEL_CALL_COMPLETED",
                                 "MODEL_CALL_FAILED"}, attempt : Nat])
  BY DEF TypeOK
<1>1. Len(events) = 2 * attempt - 1 /\ attempt >= 1
  BY DEF PairsInvariant, CallsClosed
<1>2. /\ Len(events') = 2 * attempt
      /\ \A i \in 1 .. Len(events) : events'[i] = events[i]
      /\ events'[2 * attempt] = [type |-> type, attempt |-> attempt]
  BY <1>0, <1>1
<1>3. (2 * attempt) % 2 = 0 /\ (2 * attempt + 1) \div 2 = attempt
  BY <1>0
<1>4. ASSUME NEW i \in DOMAIN events'
      PROVE  /\ (events'[i].type = "MODEL_CALL_STARTED") <=> (i % 2 = 1)
             /\ events'[i].attempt = (i + 1) \div 2
  <2>1. CASE i \in 1 .. Len(events)
    <3>1. events'[i] = events[i] /\ i \in DOMAIN events
      BY <1>0, <1>2, <2>1
    <3> QED
      BY <3>1 DEF PairsInvariant, CallsClosed
  <2>2. CASE i = 2 * attempt
    BY <1>0, <1>2, <1>3, <2>2
  <2>3. i \in 1 .. Len(events')
    BY <1>0
  <2>4. i \in 1 .. Len(events) \/ i = 2 * attempt
    <3>1. \A n \in 1 .. (2 * attempt) : n \in 1 .. (2 * attempt - 1) \/ n = 2 * attempt
      BY <1>0
    <3> QED
      BY <1>1, <1>2, <2>3, <3>1, Zenon
  <2> QED
    BY <2>1, <2>2, <2>4
<1> QED
  BY <1>2, <1>4 DEF CallsClosed

\* Every step keeps the events in pairs.
LEMMA PairsStep == TypeOK /\ PairsInvariant /\ [Next]_vars => PairsInvariant'
<1> SUFFICES ASSUME TypeOK, PairsInvariant, [Next]_vars
             PROVE  PairsInvariant'
  OBVIOUS
<1>0. attempt \in Nat /\ calls \in Seq(Outcome)
  BY DEF TypeOK
<1>1. CASE StartCall
  <2>1. CallsClosed'
    BY <1>1, PairOpens DEF StartCall, PairsInvariant
  <2> QED
    BY <1>0, <1>1, <2>1 DEF StartCall, PairsInvariant
<1>2. ASSUME NEW outcome \in Outcome,
             NEW type \in {"MODEL_CALL_COMPLETED", "MODEL_CALL_FAILED"},
             EndCall(outcome, type), pc' # "calling"
      PROVE  PairsInvariant'
  <2>1. CallsClosed'
    BY <1>2, PairCloses DEF EndCall, Event
  <2>2. Len(calls') = Len(calls) + 1
    BY <1>0, <1>2 DEF EndCall
  <2> QED
    BY <1>0, <1>2, <2>1, <2>2 DEF EndCall, PairsInvariant
<1>3. CASE ProviderAnswers
  BY <1>2, <1>3 DEF ProviderAnswers, Outcome
<1>4. CASE ProviderAnswersInvalid
  <2>1. pc' # "calling"
    BY <1>4 DEF ProviderAnswersInvalid
  <2>2. "invalid" \in Outcome
    BY DEF Outcome
  <2>3. CASE kind = "tool"
    <3>1. EndCall("invalid", "MODEL_CALL_FAILED")
      BY <1>4, <2>3 DEF ProviderAnswersInvalid
    <3> QED
      BY <1>2, <2>1, <2>2, <3>1
  <2>4. CASE kind # "tool"
    <3>1. EndCall("invalid", "MODEL_CALL_COMPLETED")
      BY <1>4, <2>4 DEF ProviderAnswersInvalid
    <3> QED
      BY <1>2, <2>1, <2>2, <3>1
  <2> QED
    BY <2>3, <2>4
<1>5. ASSUME NEW error \in Errors, ProviderFails(error)
      PROVE  PairsInvariant'
  BY <1>2, <1>5 DEF ProviderFails, Outcome
<1>6. CASE WakeUp
  BY <1>6 DEF WakeUp, PairsInvariant, CallsClosed
<1>7. CASE UNCHANGED vars
  BY <1>7 DEF vars, PairsInvariant, CallsClosed
<1> QED
  BY <1>1, <1>3, <1>4, <1>5, <1>6, <1>7 DEF Next

\* The records of a request's calls are what InstrumentedModelProvider means
\* them to be: each call is announced, then closed, under its own number,
\* before the next one starts.
THEOREM RequestCallsClosed == Spec => []CallsClosed
<1>1. Init => PairsInvariant
  BY DEF Init, PairsInvariant, CallsClosed
<1>2. PairsInvariant => CallsClosed
  BY DEF PairsInvariant
<1> QED
  BY <1>1, <1>2, PairsStep, RequestTypes, PTL DEF Spec

-----------------------------------------------------------------------------
(* What the calls tell.  A permanent failure ends the request; the failures  *)
(* of the round of withRetries that is on are its retries, each of a kind    *)
(* worth retrying; the invalid answers so far are the re-asks.               *)

InvalidCalls == {i \in DOMAIN calls : calls[i] = "invalid"}

\* The failures that the round of withRetries has met.
Failed == IF pc = "sleeping" THEN retries + 1 ELSE retries

PermanentEnds ==
  \A k \in DOMAIN calls :
    calls[k] \in PermanentKinds => k = Len(calls) /\ pc = "threw"

RoundRetryable ==
  pc \notin {"returned", "threw"} =>
    /\ Failed <= Len(calls)
    /\ \A i \in (Len(calls) - Failed + 1) .. Len(calls) : calls[i] \in RetryableKinds

InvalidReasked ==
  pc \notin {"returned", "threw"} => Cardinality(InvalidCalls) = reasks

HonestInvariant == PermanentEnds /\ RoundRetryable /\ InvalidReasked /\ OutcomeHonest

\* A call that ends is the last of the calls, and the others stay; it counts
\* as invalid when it ended so.
LEMMA CallEnds ==
  ASSUME TypeOK, NEW outcome \in Outcome, calls' = Append(calls, outcome)
  PROVE  /\ Len(calls) \in Nat /\ Len(calls') = Len(calls) + 1
         /\ DOMAIN calls = 1 .. Len(calls) /\ DOMAIN calls' = 1 .. Len(calls')
         /\ \A i \in DOMAIN calls : calls'[i] = calls[i]
         /\ calls'[Len(calls')] = outcome
         /\ outcome # "invalid" => InvalidCalls' = InvalidCalls
         /\ outcome = "invalid" =>
              Cardinality(InvalidCalls') = Cardinality(InvalidCalls) + 1
<1>1. calls \in Seq(Outcome)
  BY DEF TypeOK
<1>2. /\ Len(calls) \in Nat /\ Len(calls') = Len(calls) + 1
      /\ DOMAIN calls = 1 .. Len(calls) /\ DOMAIN calls' = 1 .. Len(calls')
      /\ \A i \in DOMAIN calls : calls'[i] = calls[i]
      /\ calls'[Len(calls')] = outcome
  BY <1>1
<1>3. ASSUME outcome # "invalid"
      PROVE  InvalidCalls' = InvalidCalls
  BY <1>2, <1>3 DEF InvalidCalls
<1>4. ASSUME outcome = "invalid"
      PROVE  Cardinality(InvalidCalls') = Cardinality(InvalidCalls) + 1
  <2>1. InvalidCalls' = InvalidCalls \cup {Len(calls')}
    BY <1>2, <1>4 DEF InvalidCalls
  <2>2. Len(calls') \notin InvalidCalls
    BY <1>2 DEF InvalidCalls
  <2>3. IsFiniteSet(InvalidCalls)
    <3>1. IsFiniteSet(1 .. Len(calls)) /\ InvalidCalls \subseteq 1 .. Len(calls)
      BY <1>2, FS_Interval DEF InvalidCalls
    <3> QED
      BY <3>1, FS_Subset
  <2> QED
    BY <2>1, <2>2, <2>3, FS_AddElement
<1> QED
  BY <1>2, <1>3, <1>4

\* A failure worth retrying is one failure more of the round.
LEMMA RoundFails ==
  ASSUME TypeOK, HonestInvariant, pc = "calling",
         NEW error \in Errors, error \in RetryableKinds,
         calls' = Append(calls, error)
  PROVE  /\ retries + 1 <= Len(calls')
         /\ \A i \in (Len(calls') - retries) .. Len(calls') : calls'[i] \in RetryableKinds
<1>1. /\ Len(calls) \in Nat /\ Len(calls') = Len(calls) + 1
      /\ DOMAIN calls = 1 .. Len(calls)
      /\ \A i \in DOMAIN calls : calls'[i] = calls[i]
      /\ calls'[Len(calls')] = error
  BY CallEnds DEF Outcome
<1>2. /\ retries \in Nat /\ retries <= Len(calls)
      /\ \A i \in (Len(calls) - retries + 1) .. Len(calls) : calls[i] \in RetryableKinds
  BY DEF HonestInvariant, RoundRetryable, Failed, TypeOK
<1> QED
  BY <1>1, <1>2

\* Every step keeps the calls telling this.
LEMMA HonestStep == TypeOK /\ HonestInvariant /\ [Next]_vars => HonestInvariant'
<1> SUFFICES ASSUME TypeOK, HonestInvariant, [Next]_vars
             PROVE  HonestInvariant'
  OBVIOUS
<1>1. CASE StartCall
  <2>1. UNCHANGED <<InvalidCalls, Failed>>
    BY <1>1 DEF StartCall, InvalidCalls, Failed
  <2> QED
    BY <1>1, <2>1 DEF StartCall, HonestInvariant, PermanentEnds, RoundRetryable,
      InvalidReasked, OutcomeHonest
<1>2. CASE ProviderAnswers
  <2>1. calls' = Append(calls, "valid") /\ pc' = "returned" /\ pc = "calling"
    BY <1>2 DEF ProviderAnswers, EndCall
  <2>2. PermanentEnds'
    BY <2>1, CallEnds DEF HonestInvariant, PermanentEnds, PermanentKinds, Outcome
  <2>3. OutcomeHonest'
    BY <2>1, CallEnds DEF OutcomeHonest, Outcome
  <2> QED
    BY <2>1, <2>2, <2>3 DEF HonestInvariant, RoundRetryable, InvalidReasked
<1>3. CASE ProviderAnswersInvalid
  <2>1. calls' = Append(calls, "invalid") /\ pc = "calling" /\ kind' = kind
    BY <1>3 DEF ProviderAnswersInvalid, EndCall
  <2>2. PermanentEnds'
    BY <2>1, CallEnds DEF HonestInvariant, PermanentEnds, PermanentKinds, Outcome
  <2>3. Cardinality(InvalidCalls') = reasks + 1 /\ calls'[Len(calls')] = "invalid"
    BY <2>1, CallEnds DEF HonestInvariant, InvalidReasked, Outcome
  <2>4. CASE reasks < MaxReasks
    <3>1. reasks' = reasks + 1 /\ retries' = 0 /\ pc' = "ready"
      BY <1>3, <2>4 DEF ProviderAnswersInvalid, TypeOK
    <3>2. RoundRetryable'
      BY <2>1, <3>1, CallEnds DEF RoundRetryable, Failed, Outcome
    <3>3. InvalidReasked' /\ OutcomeHonest'
      BY <2>3, <3>1 DEF InvalidReasked, OutcomeHonest
    <3> QED
      BY <2>2, <3>2, <3>3 DEF HonestInvariant
  <2>5. CASE reasks >= MaxReasks
    <3>1. reasks = MaxReasks
      BY <2>5 DEF TypeOK
    <3>2. pc' = (IF kind = "tool" THEN "threw" ELSE "returned") /\ kind # "text"
      BY <1>3, <3>1 DEF ProviderAnswersInvalid
    <3>3. SpentReasks'
      BY <2>3, <3>1 DEF SpentReasks, InvalidCalls
    <3>4. OutcomeHonest'
      BY <2>1, <2>3, <3>2, <3>3 DEF OutcomeHonest, TypeOK, RequestKind
    <3> QED
      BY <2>2, <3>2, <3>4 DEF HonestInvariant, RoundRetryable, InvalidReasked
  <2> QED
    BY <2>4, <2>5 DEF TypeOK
<1>4. ASSUME NEW error \in Errors, ProviderFails(error)
      PROVE  HonestInvariant'
  <2>1. calls' = Append(calls, error) /\ pc = "calling" /\ kind' = kind
        /\ retries' = retries /\ reasks' = reasks
    BY <1>4 DEF ProviderFails, EndCall
  <2>2. error \in Outcome /\ error # "invalid" /\ error # "valid"
    BY ErrorsAssumption DEF Outcome, ModelErrorKind
  <2>3. CASE error \in RetryableKinds /\ retries < MaxRetries
    <3>1. pc' = "sleeping"
      BY <1>4, <2>3 DEF ProviderFails
    <3>2. error \notin PermanentKinds
      BY <2>3 DEF RetryableKinds, PermanentKinds
    <3>3. PermanentEnds'
      BY <2>1, <2>2, <3>2, CallEnds DEF HonestInvariant, PermanentEnds
    <3>4. RoundRetryable'
      <4>1. Failed' = retries + 1
        BY <2>1, <3>1 DEF Failed
      <4>2. Len(calls') - (retries + 1) + 1 = Len(calls') - retries
        BY <2>1, <2>2, CallEnds DEF TypeOK
      <4> QED
        BY <2>1, <2>3, <4>1, <4>2, RoundFails DEF RoundRetryable
    <3>5. InvalidReasked' /\ OutcomeHonest'
      BY <2>1, <2>2, <3>1, CallEnds DEF HonestInvariant, InvalidReasked, OutcomeHonest
    <3> QED
      BY <3>3, <3>4, <3>5 DEF HonestInvariant
  <2>4. CASE ~(error \in RetryableKinds /\ retries < MaxRetries)
    <3>1. pc' = "threw"
      BY <1>4, <2>4 DEF ProviderFails
    <3>2. PermanentEnds'
      BY <2>1, <2>2, <3>1, CallEnds DEF HonestInvariant, PermanentEnds
    <3>3. error \in RetryableKinds => SpentRetries'
      <4> SUFFICES ASSUME error \in RetryableKinds
                   PROVE  SpentRetries'
        OBVIOUS
      <4>1. retries = MaxRetries
        BY <2>4 DEF TypeOK
      <4>2. /\ retries + 1 <= Len(calls')
            /\ \A i \in (Len(calls') - retries) .. Len(calls') : calls'[i] \in RetryableKinds
        BY <2>1, RoundFails
      <4>3. Len(calls') \in Nat /\ DOMAIN calls' = 1 .. Len(calls')
        BY <2>1, <2>2, CallEnds
      <4>4. Len(calls') - MaxRetries \in DOMAIN calls'
        BY <4>1, <4>2, <4>3
      <4>5. Len(calls') - (Len(calls') - MaxRetries) = MaxRetries
        BY <4>3
      <4> QED
        BY <4>1, <4>2, <4>4, <4>5 DEF SpentRetries
    <3>4. OutcomeHonest'
      BY <2>1, <2>2, <3>1, <3>3, CallEnds DEF OutcomeHonest
    <3> QED
      BY <3>1, <3>2, <3>4 DEF HonestInvariant, RoundRetryable, InvalidReasked
  <2> QED
    BY <2>3, <2>4
<1>5. CASE WakeUp
  <2>1. UNCHANGED <<InvalidCalls, Failed>>
    BY <1>5 DEF WakeUp, InvalidCalls, Failed
  <2> QED
    BY <1>5, <2>1 DEF WakeUp, HonestInvariant, PermanentEnds, RoundRetryable,
      InvalidReasked, OutcomeHonest
<1>6. CASE UNCHANGED vars
  <2>1. UNCHANGED <<InvalidCalls, Failed, SpentRetries, SpentReasks>>
    BY <1>6 DEF vars, InvalidCalls, Failed, SpentRetries, SpentReasks
  <2> QED
    BY <1>6, <2>1 DEF vars, HonestInvariant, PermanentEnds, RoundRetryable,
      InvalidReasked, OutcomeHonest
<1> QED
  BY <1>1, <1>2, <1>3, <1>4, <1>5, <1>6 DEF Next

\* No call follows the only permanent failure there can be.
LEMMA NothingFollows ==
  ASSUME TypeOK, PairsInvariant, PermanentEnds
  PROVE  NoCallAfterPermanentFailure
<1> SUFFICES ASSUME NEW i \in DOMAIN events, events[i].type = "MODEL_CALL_STARTED",
                    NEW k \in 1 .. (events[i].attempt - 1)
             PROVE  calls[k] \notin PermanentKinds
  BY DEF NoCallAfterPermanentFailure
<1>1. /\ attempt \in Nat /\ calls \in Seq(Outcome)
      /\ i \in 1 .. Len(events) /\ Len(events) \in Nat
  BY DEF TypeOK
<1>2. events[i].attempt = (i + 1) \div 2 /\ i % 2 = 1
  BY DEF PairsInvariant, CallsClosed
<1> DEFINE upTo == (i + 1) \div 2
<1>5. upTo \in Nat /\ k \in 1 .. (upTo - 1) /\ 2 * upTo = i + 1
  <2>1. i % 2 = 1 /\ i \in Nat
    BY <1>1, <1>2
  <2>2. upTo \in Nat /\ 2 * upTo = i + 1
    BY <2>1
  <2> QED
    BY <1>2, <2>2
<1> HIDE DEF upTo
<1>3. CASE pc = "calling"
  <2>1. Len(events) = 2 * attempt - 1 /\ Len(calls) = attempt - 1
    BY <1>3 DEF PairsInvariant, CallsClosed
  <2>2. k \in DOMAIN calls
    BY <1>1, <1>5, <2>1
  <2> QED
    BY <1>3, <2>2 DEF PermanentEnds
<1>4. CASE pc # "calling"
  <2>1. Len(events) = 2 * attempt /\ Len(calls) = attempt
    BY <1>4 DEF PairsInvariant, CallsClosed
  <2>2. k \in DOMAIN calls /\ k < Len(calls)
    BY <1>1, <1>5, <2>1
  <2> QED
    BY <2>2 DEF PermanentEnds
<1> QED
  BY <1>3, <1>4

\* A request that meets failures never calls again after a permanent one, and
\* reports what its last call came to: it gives up only when the failure is
\* permanent or the budget it draws on is spent (withRetries, re-ask loops).
THEOREM RequestFailuresHonest == Spec => []FailuresHonest
<1>1. Init => PairsInvariant
  BY DEF Init, PairsInvariant, CallsClosed
<1>2. Init => HonestInvariant
  <2> SUFFICES ASSUME Init
               PROVE  HonestInvariant
    OBVIOUS
  <2>1. InvalidCalls = {} /\ Failed = 0
    BY DEF Init, InvalidCalls, Failed
  <2>2. Cardinality(InvalidCalls) = 0
    BY <2>1, FS_EmptySet
  <2> QED
    BY <2>1, <2>2 DEF Init, HonestInvariant, PermanentEnds, RoundRetryable,
      InvalidReasked, OutcomeHonest
<1>3. TypeOK /\ PairsInvariant /\ HonestInvariant => FailuresHonest
  BY NothingFollows DEF HonestInvariant, FailuresHonest
<1> QED
  BY <1>1, <1>2, <1>3, PairsStep, HonestStep, RequestTypes, PTL DEF Spec

-----------------------------------------------------------------------------
(* The request over the wire.                                               *)

\* Whatever the server replies, the call ends in a way ResilientModel allows.
LEMMA ReplyIsOutcome ==
  ASSUME NEW reply \in ServerReplies, ReplyArrives(reply)
  PROVE  Next
<1> DEFINE outcome == OutcomeOf(kind, toolMode, reply)
<1>1. outcome \in {"valid", "invalid"} \cup Errors
  <2>1. ReplyError(reply) \in Errors \cup {"none"}
    BY RepliesAssumption
  <2>2. CASE ReplyError(reply) # "none"
    BY <2>1, <2>2 DEF OutcomeOf
  <2>3. CASE ReplyError(reply) = "none"
    BY <2>3 DEF OutcomeOf
  <2> QED
    BY <2>2, <2>3
<1>2. \/ outcome = "valid" /\ ProviderAnswers
      \/ outcome = "invalid" /\ ProviderAnswersInvalid
      \/ outcome \notin {"valid", "invalid"} /\ ProviderFails(outcome)
  BY DEF ReplyArrives
<1> HIDE DEF outcome
<1> QED
  BY <1>1, <1>2 DEF Next

\* Every step over the wire is a step of the request or leaves it alone.
LEMMA ExchangeStep == [ExchangeNext]_exchangeVars => [Next]_vars
<1> SUFFICES ASSUME [ExchangeNext]_exchangeVars
             PROVE  [Next]_vars
  OBVIOUS
<1>1. CASE PostRequest
  BY <1>1 DEF PostRequest, Next
<1>2. ASSUME NEW reply \in ServerReplies, ReplyArrives(reply)
      PROVE  Next
  BY <1>2, ReplyIsOutcome
<1>3. CASE BackoffEnds
  BY <1>3 DEF BackoffEnds, Next
<1>4. CASE UNCHANGED exchangeVars
  BY <1>4 DEF exchangeVars
<1> QED
  BY <1>1, <1>2, <1>3, <1>4 DEF ExchangeNext

\* A request to the OpenAI-compatible provider implements the request of ResilientModel: no
\* reply of the server makes a call end, or be followed, in another way
\* (openai-compatible/provider.ts under models/resilient-provider.ts).
THEOREM ExchangeImplementsRequest == ExchangeSpec => Spec
<1>1. ExchangeInit => Init
  BY DEF ExchangeInit
<1> QED
  BY <1>1, ExchangeStep, PTL DEF ExchangeSpec, Spec

\* Whatever the server replies, one request costs at most CallBudget calls and a settled one at
\* least one (the bound the runtime's limits on model calls reckon with).
THEOREM ExchangeCallsBounded == ExchangeSpec => []CallsBounded
BY ExchangeImplementsRequest, RequestCallsBounded, PTL

\* Whatever the server replies, the records of the request's calls are closed in order and its
\* failures are treated and reported as ResilientModel promises (instrumented-provider.ts and
\* resilient-provider.ts around the OpenAI-compatible provider).
THEOREM ExchangeTold == ExchangeSpec => [](CallsClosed /\ FailuresHonest)
BY ExchangeImplementsRequest, RequestCallsClosed, RequestFailuresHonest, PTL

-----------------------------------------------------------------------------
(* The accounting of tokens. *)

UsageInvariant == UsageAccounted /\ spent \in Nat /\ counted \in Nat

(* A reply ends the call as valid or invalid when it brings a completion, with an error when not. *)
LEMMA CompletionOrError ==
  ASSUME NEW reply \in ServerReplies
  PROVE  LET outcome == OutcomeOf(kind, toolMode, reply)
         IN /\ outcome \in {"valid", "invalid"} => ReplyError(reply) = "none"
            /\ outcome \notin {"valid", "invalid"} => ReplyError(reply) # "none"
            /\ outcome \in Outcome
<1>1. ReplyError(reply) \in Errors \cup {"none"} /\ Errors \subseteq ModelErrorKind
  BY RepliesAssumption, ErrorsAssumption
<1>2. CASE ReplyError(reply) # "none"
  <2>1. ReplyError(reply) \notin {"valid", "invalid"} /\ ReplyError(reply) \in Outcome
    BY <1>1, <1>2 DEF ModelErrorKind, Outcome
  <2>2. OutcomeOf(kind, toolMode, reply) = ReplyError(reply)
    BY <1>2 DEF OutcomeOf
  <2> QED
    BY <1>2, <2>1, <2>2
<1>3. CASE ReplyError(reply) = "none"
  <2>1. OutcomeOf(kind, toolMode, reply) \in {"valid", "invalid"}
    BY <1>3 DEF OutcomeOf
  <2> QED
    BY <1>3, <2>1 DEF Outcome
<1> QED
  BY <1>2, <1>3

LEMMA UsageStep == TypeOK /\ UsageInvariant /\ [ExchangeNext]_exchangeVars => UsageInvariant'
<1> SUFFICES ASSUME TypeOK, UsageInvariant, [ExchangeNext]_exchangeVars
             PROVE  UsageInvariant'
  OBVIOUS
<1>0. /\ spent \in Nat /\ counted \in Nat /\ counted <= spent
      /\ spent - counted <= IF kind = "tool" THEN Cardinality(InvalidCalls) ELSE 0
  BY DEF UsageInvariant, UsageAccounted, InvalidCalls
<1>1. CASE calls' = calls /\ kind' = kind /\ spent' = spent /\ counted' = counted
  BY <1>0, <1>1 DEF UsageInvariant, UsageAccounted
<1>2. ASSUME NEW reply \in ServerReplies, ReplyArrives(reply)
      PROVE  UsageInvariant'
  <2> DEFINE outcome == OutcomeOf(kind, toolMode, reply)
  <2>1. /\ outcome \in {"valid", "invalid"} => ReplyError(reply) = "none"
        /\ outcome \notin {"valid", "invalid"} => ReplyError(reply) # "none"
        /\ outcome \in Outcome
    BY CompletionOrError
  <2>2. /\ spent' = spent + IF ReplyError(reply) = "none" THEN Usage(reply) ELSE 0
        /\ counted' = counted + IF outcome = "valid" \/ (outcome = "invalid" /\ kind = "structured")
                                THEN Usage(reply) ELSE 0
    BY <1>2 DEF ReplyArrives, Counted
  <2>3. \/ outcome = "valid" /\ ProviderAnswers
        \/ outcome = "invalid" /\ ProviderAnswersInvalid
        \/ outcome \notin {"valid", "invalid"} /\ ProviderFails(outcome)
    BY <1>2 DEF ReplyArrives
  <2>4. Usage(reply) \in {0, 1}
    BY DEF Usage
  <2> HIDE DEF outcome
  <2>5. calls' = Append(calls, outcome) /\ kind' = kind
    BY <2>3 DEF ProviderAnswers, ProviderAnswersInvalid, ProviderFails, EndCall
  <2>6. outcome # "invalid" => InvalidCalls' = InvalidCalls
    BY <2>1, <2>5, CallEnds
  <2>7. outcome = "invalid" =>
          Cardinality(InvalidCalls') = Cardinality(InvalidCalls) + 1 /\ kind # "text"
    BY <2>1, <2>3, <2>5, CallEnds DEF ProviderAnswersInvalid
  <2>8. Cardinality(InvalidCalls) \in Nat
    <3>1. IsFiniteSet(1 .. Len(calls)) /\ InvalidCalls \subseteq 1 .. Len(calls)
      BY FS_Interval DEF TypeOK, InvalidCalls
    <3> QED
      BY <3>1, FS_Subset, FS_CardinalityType
  <2>9. /\ spent' \in Nat /\ counted' \in Nat /\ counted' <= spent'
        /\ spent' - counted' <= IF kind = "tool" THEN Cardinality(InvalidCalls') ELSE 0
    <3>1. kind \in {"text", "structured", "tool"}
      BY DEF TypeOK, RequestKind
    <3>2. CASE outcome = "valid"
      BY <1>0, <2>1, <2>2, <2>4, <2>6, <3>2
    <3>3. CASE outcome = "invalid"
      BY <1>0, <2>1, <2>2, <2>4, <2>7, <2>8, <3>1, <3>3
    <3>4. CASE outcome \notin {"valid", "invalid"}
      BY <1>0, <2>1, <2>2, <2>6, <3>4
    <3> QED
      BY <3>2, <3>3, <3>4
  <2> QED
    BY <2>5, <2>9 DEF UsageInvariant, UsageAccounted, InvalidCalls
<1> QED
  BY <1>1, <1>2 DEF ExchangeNext, PostRequest, StartCall, BackoffEnds, WakeUp, exchangeVars, vars

\* The tokens a server reports are in the records of the request once each; only the completions
\* that are no tool action are missing from them, at most one for each invalid answer
\* (requestToolAction throws, InstrumentedModelProvider records).
THEOREM ExchangeUsageAccounted == ExchangeSpec => []UsageAccounted
<1>1. ExchangeInit => UsageInvariant
  <2> SUFFICES ASSUME ExchangeInit
               PROVE  UsageInvariant
    OBVIOUS
  <2>1. {i \in DOMAIN calls : calls[i] = "invalid"} = {}
    BY DEF ExchangeInit, Init
  <2>2. Cardinality({i \in DOMAIN calls : calls[i] = "invalid"}) = 0
    BY <2>1, FS_EmptySet
  <2> QED
    BY <2>2 DEF ExchangeInit, UsageInvariant, UsageAccounted
<1>2. UsageInvariant => UsageAccounted
  BY DEF UsageInvariant
<1> QED
  BY <1>1, <1>2, UsageStep, ExchangeImplementsRequest, RequestTypes, PTL DEF ExchangeSpec

-----------------------------------------------------------------------------
(* The names of the tools on the wire. *)

(* The name of a tool depends on the names before it alone. *)
LEMMA NextNameOfEarlier ==
  ASSUME NEW f, NEW g, NEW i \in Nat, \A j \in 1..(i - 1) : f[j] = g[j]
  PROVE  NextName(f, i) = NextName(g, i)
<1>1. {f[j] : j \in 1..(i - 1)} = {g[j] : j \in 1..(i - 1)}
  OBVIOUS
<1> QED
  BY <1>1 DEF NextName

(* The loop of ToolNameMap comes to an end: the names it gives are those it should. *)
LEMMA WireNameGiven == WireName = [i \in 1..Len(Tools) |-> NextName(WireName, i)]
<1> DEFINE Names(f, n) == f = [i \in 1..n |-> NextName(f, i)]
           Given == {n \in Nat : \E f : Names(f, n)}
<1>1. 0 \in Given
  <2> DEFINE f == [i \in 1..0 |-> 0]
  <2>1. f = [i \in 1..0 |-> NextName(f, i)]
    OBVIOUS
  <2> QED
    BY <2>1
<1>2. ASSUME NEW n \in Given
      PROVE  n + 1 \in Given
  <2>1. PICK f : Names(f, n)
    OBVIOUS
  <2> DEFINE g == [i \in 1..(n + 1) |-> IF i <= n THEN f[i] ELSE NextName(f, n + 1)]
  <2>2. ASSUME NEW i \in 1..(n + 1)
        PROVE  g[i] = NextName(g, i)
    <3>1. \A j \in 1..(i - 1) : g[j] = f[j]
      OBVIOUS
    <3>2. NextName(g, i) = NextName(f, i)
      <4> HIDE DEF g
      <4> QED
        BY <3>1, NextNameOfEarlier
    <3>3. g[i] = NextName(f, i)
      <4>1. CASE i <= n
        BY <2>1, <4>1
      <4>2. CASE i = n + 1
        BY <4>2
      <4> QED
        BY <4>1, <4>2
    <3> QED
      BY <3>2, <3>3
  <2>3. g = [i \in 1..(n + 1) |-> NextName(g, i)]
    BY <2>2
  <2>4. n + 1 \in Nat
    OBVIOUS
  <2> HIDE DEF g
  <2> QED
    BY <2>3, <2>4
<1>3. Len(Tools) \in Given
  <2> HIDE DEF Given
  <2>1. Given = Nat
    <3>1. Given \subseteq Nat
      BY DEF Given
    <3> QED
      BY <1>1, <1>2, <3>1, NaturalSet
  <2> QED
    BY <2>1, ToolsAssumption
<1>4. \E f : Names(f, Len(Tools))
  BY <1>3
<1>5. Names(CHOOSE f : Names(f, Len(Tools)), Len(Tools))
  BY <1>4
<1> QED
  BY <1>5 DEF WireName

(* Of as many variants of its name as there are tools up to it, one is not taken by a tool before
   it; and that is the one it gets. *)
LEMMA NameIsFree ==
  ASSUME NEW i \in 1..Len(Tools), NEW f
  PROVE  NextName(f, i) \notin {f[j] : j \in 1..(i - 1)}
<1> DEFINE base == Sanitised[Tools[i]]
           taken == {f[j] : j \in 1..(i - 1)}
           free == {n \in 1..i : Numbered(base, n) \notin taken}
<1>0. Len(Tools) \in Nat /\ DOMAIN Tools = 1..Len(Tools)
  BY ToolsAssumption
<1>1. free # {}
  <2> SUFFICES ASSUME \A n \in 1..i : Numbered(base, n) \in taken
               PROVE  FALSE
    OBVIOUS
  <2>1. IsFiniteSet(taken) /\ Cardinality(taken) <= i - 1
    <3> DEFINE h == [j \in 1..(i - 1) |-> f[j]]
    <3>1. h \in Surjection(1..(i - 1), taken)
      BY DEF Surjection
    <3>2. IsFiniteSet(1..(i - 1)) /\ Cardinality(1..(i - 1)) = i - 1
      BY <1>0, FS_Interval
    <3> HIDE DEF h, taken
    <3> QED
      BY <3>1, <3>2, FS_Surjection
  <2>2. IsFiniteSet(1..i) /\ Cardinality(1..i) = i
    BY <1>0, FS_Interval
  <2> DEFINE v == [n \in 1..i |-> Numbered(base, n)]
  <2>3. v \in [1..i -> taken]
    <3>1. \A n \in 1..i : Numbered(base, n) \in taken
      BY Zenon
    <3> HIDE DEF taken
    <3> QED
      BY <3>1
  <2>4. Cardinality(taken) < Cardinality(1..i)
    <3>1. Cardinality(taken) \in Nat
      BY <2>1, FS_CardinalityType
    <3> HIDE DEF taken
    <3> QED
      BY <1>0, <2>1, <2>2, <3>1
  <2>5. PICK m, n \in 1..i : m # n /\ v[m] = v[n]
    <3> HIDE DEF taken, v
    <3> QED
      BY <2>1, <2>2, <2>3, <2>4, FS_PigeonHole, Zenon
  <2>6. m \in DOMAIN Tools /\ n \in DOMAIN Tools /\ i \in DOMAIN Tools
    <3> HIDE DEF taken, v, free, base
    <3> QED
      BY <1>0
  <2> QED
    BY <2>5, <2>6, NumberedAssumption
<1>2. \E n \in free : \A m \in free : n <= m
  <2>1. free \in SUBSET Nat
    BY <1>0
  <2> HIDE DEF free
  <2> QED
    BY <1>1, <2>1, LeastNatural
<1>3. (CHOOSE n \in free : \A m \in free : n <= m) \in free
  <2> HIDE DEF free
  <2> QED
    BY <1>2
<1>4. NextName(f, i) = Numbered(base, CHOOSE n \in free : \A m \in free : n <= m)
  BY DEF NextName
<1> QED
  BY <1>3, <1>4

\* However many tools are sanitised to one name, no two of them share a name on the wire: the map
\* from the name the model used back to the tool has one answer ("The map is bijective within one
\* request", ToolNameMap in openai-compatible/wire.ts).
THEOREM WireNamesDistinct ==
  \A i, j \in 1..Len(Tools) : WireName[i] = WireName[j] => i = j
<1>1. ASSUME NEW i \in 1..Len(Tools), NEW j \in 1..Len(Tools), j < i
      PROVE  WireName[i] # WireName[j]
  <2>1. WireName[i] = NextName(WireName, i)
    <3> DEFINE f == WireName
    <3>1. f = [k \in 1..Len(Tools) |-> NextName(f, k)]
      BY WireNameGiven
    <3> HIDE DEF f
    <3>2. f[i] = NextName(f, i)
      BY <3>1
    <3> QED
      BY <3>2 DEF f
  <2>2. j \in 1..(i - 1)
    BY <1>1, ToolsAssumption
  <2> QED
    BY <2>1, <2>2, NameIsFree
<1> SUFFICES ASSUME NEW i \in 1..Len(Tools), NEW j \in 1..Len(Tools),
                    WireName[i] = WireName[j], i # j
             PROVE  FALSE
  OBVIOUS
<1>2. i < j \/ j < i
  BY ToolsAssumption
<1> QED
  BY <1>1, <1>2

(* A name that was given to a tool leads back to that tool. *)
LEMMA OriginalOfWire ==
  ASSUME NEW i \in DOMAIN Tools, WireName[i] \notin {FinishTool, GiveUpTool}
  PROVE  OriginalName(WireName[i]) = Tools[i]
<1> DEFINE named == {k \in DOMAIN Tools : WireName[k] = WireName[i]}
<1>0. DOMAIN Tools = 1..Len(Tools) /\ Len(Tools) \in Nat
  BY ToolsAssumption
<1>1. named = {i}
  BY <1>0, WireNamesDistinct
<1>2. (CHOOSE k \in {i} : \A j \in {i} : j <= k) = i
  BY <1>0
<1>3. OriginalName(WireName[i]) =
        IF named = {} THEN "none" ELSE Tools[CHOOSE k \in named : \A j \in named : j <= k]
  BY DEF OriginalName
<1> HIDE DEF named
<1> QED
  BY <1>1, <1>2, <1>3

Offered == {FinishTool, GiveUpTool} \cup {Tools[i] : i \in DOMAIN Tools}

(* A proposal that is accepted is of the tool it is made for. *)
LEMMA AcceptedProposal ==
  ASSUME NEW tool, NEW args, Proposal(tool, args).ok
  PROVE  Proposal(tool, args).tool = tool
BY DEF Proposal, Refused

(* A proposal said as JSON that is accepted is of the tool it names, which is offered. *)
LEMMA SaidAsMeant ==
  ASSUME NEW reply \in ServerReplies, HasJson(reply.content),
         ParseProposal(reply.content.value).ok
  PROVE  LET tool == ParseProposal(reply.content.value).tool
         IN tool = reply.meant /\ tool \in Offered
<1> DEFINE said == reply.content.value
<1>1. CASE said.object /\ said.kind \in {FinishTool, GiveUpTool}
  <2>1. said.kind # "tool"
    BY <1>1 DEF FinishTool, GiveUpTool
  <2>2. ParseProposal(said) = Proposal(said.kind, said)
    BY <1>1, <2>1 DEF ParseProposal
  <2>3. reply.meant = said.kind
    BY <1>1, MeantAssumption
  <2> QED
    BY <1>1, <2>2, <2>3, AcceptedProposal DEF Offered
<1>2. CASE /\ said.object /\ said.kind = "tool"
           /\ \E i \in DOMAIN Tools : Tools[i] = said.tool
  <2>1. said.kind \notin {FinishTool, GiveUpTool}
    BY <1>2 DEF FinishTool, GiveUpTool
  <2>2. ParseProposal(said) = Proposal(said.tool, said)
    BY <1>2, <2>1 DEF ParseProposal
  <2>3. reply.meant = said.tool
    BY <1>2, MeantAssumption
  <2> QED
    BY <1>2, <2>2, <2>3, AcceptedProposal DEF Offered
<1>3. CASE /\ ~(said.object /\ said.kind \in {FinishTool, GiveUpTool})
           /\ ~(/\ said.object /\ said.kind = "tool"
                /\ \E i \in DOMAIN Tools : Tools[i] = said.tool)
  <2>1. ParseProposal(said) = Refused
    BY <1>3 DEF ParseProposal
  <2> QED
    BY <2>1 DEF Refused
<1> QED
  BY <1>1, <1>2, <1>3

(* So is one made as a native call, of the tool described under the name it uses. *)
LEMMA CalledAsMeant ==
  ASSUME NEW reply \in ServerReplies, reply.calls # <<>>, ProposalFrom(reply).ok
  PROVE  ProposalFrom(reply).tool = reply.meant /\ ProposalFrom(reply).tool \in Offered
<1> DEFINE used == reply.calls[1].name
           tool == OriginalName(used)
           arguments == reply.calls[1].arguments
<1>1. tool # "none" /\ ProposalFrom(reply) = Proposal(tool, arguments.value)
  <2>1. ProposalFrom(reply) = IF tool = "none" \/ ~HasJson(arguments) THEN Refused
                              ELSE Proposal(tool, arguments.value)
    BY DEF ProposalFrom
  <2> HIDE DEF tool, arguments
  <2> QED
    BY <2>1 DEF Refused
<1>2. ProposalFrom(reply).tool = tool
  BY <1>1, AcceptedProposal
<1>3. CASE used \in {FinishTool, GiveUpTool}
  <2>1. tool = used
    BY <1>3 DEF OriginalName
  <2>2. reply.meant = used
    BY <1>3, MeantAssumption
  <2> QED
    BY <1>2, <1>3, <2>1, <2>2 DEF Offered
<1>4. CASE used \notin {FinishTool, GiveUpTool}
  <2>1. \E i \in DOMAIN Tools : used = WireName[i]
    <3> SUFFICES ASSUME \A i \in DOMAIN Tools : used # WireName[i]
                 PROVE  tool = "none"
      BY <1>1
    <3>1. {i \in DOMAIN Tools : WireName[i] = used} = {}
      OBVIOUS
    <3> QED
      BY <1>4, <3>1 DEF OriginalName
  <2>2. PICK i \in DOMAIN Tools : used = WireName[i] /\ reply.meant = Tools[i]
    BY <1>4, <2>1, MeantAssumption
  <2>3. tool = Tools[i]
    BY <1>4, <2>2, OriginalOfWire
  <2> QED
    BY <1>2, <2>2, <2>3 DEF Offered
<1> QED
  BY <1>3, <1>4

\* The proposal of a tool action that a request returns is of a tool that was offered, and of the
\* one the model means: the one described to it under the name it used, whichever names the tools
\* have and in whatever form the proposal came (ToolNameMap, parseToolActionProposal).
THEOREM ExchangeProposalAsMeant == ExchangeSpec => []ProposalAsMeant
<1>1. ExchangeInit => ProposalAsMeant
  BY DEF ExchangeInit, Init, ProposalAsMeant
<1>2. TypeOK /\ ProposalAsMeant /\ [ExchangeNext]_exchangeVars => ProposalAsMeant'
  <2> SUFFICES ASSUME TypeOK, ProposalAsMeant, [ExchangeNext]_exchangeVars
               PROVE  ProposalAsMeant'
    OBVIOUS
  <2>1. CASE PostRequest
    BY <2>1 DEF PostRequest, StartCall, ProposalAsMeant
  <2>2. ASSUME NEW reply \in ServerReplies, ReplyArrives(reply)
        PROVE  ProposalAsMeant'
    <3> SUFFICES ASSUME pc' = "returned", kind' = "tool"
                 PROVE  proposal'.tool \in Offered /\ proposal'.tool = proposal'.meant
      BY DEF ProposalAsMeant, Offered
    <3> DEFINE outcome == OutcomeOf(kind, toolMode, reply)
    <3>1. outcome = "valid" /\ kind = "tool"
      <4>1. \/ outcome = "valid" /\ ProviderAnswers
            \/ outcome = "invalid" /\ ProviderAnswersInvalid
            \/ outcome \notin {"valid", "invalid"} /\ ProviderFails(outcome)
        BY <2>2 DEF ReplyArrives
      <4> HIDE DEF outcome
      <4> QED
        BY <4>1 DEF ProviderAnswers, ProviderAnswersInvalid, ProviderFails, EndCall
    <3>2. proposal' = [tool |-> ToolProposal(toolMode, reply).tool, meant |-> reply.meant]
      BY <2>2, <3>1 DEF ReplyArrives
    <3>3. ToolProposal(toolMode, reply).ok
      <4>1. ReplyError(reply) # "valid"
        BY RepliesAssumption, ErrorsAssumption DEF ModelErrorKind
      <4> QED
        BY <3>1, <4>1 DEF OutcomeOf
    <3>4. /\ ToolProposal(toolMode, reply).tool = reply.meant
          /\ ToolProposal(toolMode, reply).tool \in Offered
      <4>1. CASE toolMode = "tools" /\ reply.calls # <<>>
        BY <3>3, <4>1, CalledAsMeant DEF ToolProposal
      <4>2. CASE ~(toolMode = "tools" /\ reply.calls # <<>>)
        <5>1. ToolProposal(toolMode, reply) =
                IF HasJson(reply.content) THEN ParseProposal(reply.content.value) ELSE Refused
          BY <4>2 DEF ToolProposal, ProposalFrom
        <5>2. HasJson(reply.content)
          BY <3>3, <5>1 DEF Refused
        <5> QED
          BY <3>3, <5>1, <5>2, SaidAsMeant
      <4> QED
        BY <4>1, <4>2
    <3> QED
      BY <3>2, <3>4
  <2>3. CASE BackoffEnds
    BY <2>3 DEF BackoffEnds, WakeUp, ProposalAsMeant
  <2>4. CASE UNCHANGED exchangeVars
    BY <2>4 DEF exchangeVars, vars, ProposalAsMeant
  <2> QED
    BY <2>1, <2>2, <2>3, <2>4 DEF ExchangeNext
<1> QED
  BY <1>1, <1>2, ExchangeImplementsRequest, RequestTypes, PTL DEF ExchangeSpec
=============================================================================
