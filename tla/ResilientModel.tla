--------------------------- MODULE ResilientModel ---------------------------
(***************************************************************************)
(* One request to the model as the planner and the selector make it:       *)
(* Resilient(Instrumented(provider)), the composition of                   *)
(* src/agent/runtime/create-run.ts.  The resilient layer retries transient *)
(* failures and re-asks invalid answers; the instrumented layer announces  *)
(* every call it passes on and how the call ended.  The provider is the    *)
(* environment: it answers, or fails with any of Errors.                   *)
(***************************************************************************)
EXTENDS Integers, Sequences, FiniteSets

CONSTANTS
  MaxRetries,  \* ResilienceOptions.maxRetries
  MaxReasks,   \* ResilienceOptions.maxReasks
  Errors       \* the error kinds the provider fails with, of ModelErrorKind

ModelErrorKind == {"authentication", "rate_limited", "network", "timeout",
                   "server", "bad_request", "invalid_response",
                   "configuration", "unknown"}

\* Mutant: a rejected credential is tried again.
RetryableKinds_Authentication ==
  {"rate_limited", "network", "timeout", "server", "authentication"}

RetryableKinds == {"rate_limited", "network", "timeout", "server"}

ASSUME BudgetAssumption == MaxRetries \in Nat /\ MaxReasks \in Nat

\* An invalid answer is modelled by ProviderAnswersInvalid, not as an error.
ASSUME ErrorsAssumption == Errors \subseteq ModelErrorKind \ {"invalid_response"}

\* generate, structuredGenerate and requestToolAction.  An invalid answer is
\* a parse failure in the response for "structured" and an invalid_response
\* error for "tool"; plain text is never invalid.
RequestKind == {"text", "structured", "tool"}

VARIABLES
  pc,       \* "ready" to call, "calling", "sleeping", "returned", "threw"
  kind,     \* which method of the provider was asked
  attempt,  \* AttemptCounter.current
  retries,  \* the local of withRetries, fresh in every re-ask
  reasks,   \* re-asks made by this request
  calls,    \* how each finished call ended: "valid", "invalid" or its error
  events    \* the MODEL_CALL_* events of this request, in order

vars == << pc, kind, attempt, retries, reasks, calls, events >>

Outcome == {"valid", "invalid"} \cup Errors

Init ==
  /\ pc = "ready"
  /\ kind \in RequestKind
  /\ attempt = 0
  /\ retries = 0
  /\ reasks = 0
  /\ calls = << >>
  /\ events = << >>

\* Mutant: attempts are numbered within a round of retries.
Event_PerRound(type) == [type |-> type, attempt |-> retries + 1]

Event(type) == [type |-> type, attempt |-> attempt]

\* attempts.next(), then the instrumented provider starts the call.
StartCall ==
  /\ pc = "ready"
  /\ pc' = "calling"
  /\ attempt' = attempt + 1
  /\ events' = Append(events, [type |-> "MODEL_CALL_STARTED",
                               attempt |-> attempt + 1])
  /\ UNCHANGED << kind, retries, reasks, calls >>

\* The call under way ends: the provider's answer, or the error it throws.
EndCall(outcome, type) ==
  /\ pc = "calling"
  /\ calls' = Append(calls, outcome)
  /\ events' = Append(events, Event(type))
  /\ UNCHANGED << kind, attempt >>

ProviderAnswers ==
  /\ EndCall("valid", "MODEL_CALL_COMPLETED")
  /\ pc' = "returned"
  /\ UNCHANGED << retries, reasks >>

\* The rejected answer goes back to the model while the re-ask budget lasts;
\* each re-ask enters withRetries anew.  Once the budget is spent the last
\* answer is returned (structured) or thrown (tool).
ProviderAnswersInvalid ==
  /\ kind # "text"
  /\ EndCall("invalid", IF kind = "tool" THEN "MODEL_CALL_FAILED"
                                         ELSE "MODEL_CALL_COMPLETED")
  /\ \/ /\ reasks < MaxReasks
        /\ reasks' = reasks + 1
        /\ retries' = 0
        /\ pc' = "ready"
     \/ /\ reasks >= MaxReasks
        /\ pc' = IF kind = "tool" THEN "threw" ELSE "returned"
        /\ UNCHANGED << retries, reasks >>

\* Mutant: one retry too few.
ProviderFails_OffByOne(error) ==
  /\ EndCall(error, "MODEL_CALL_FAILED")
  /\ pc' = IF error \in RetryableKinds /\ retries + 1 < MaxRetries
             THEN "sleeping" ELSE "threw"
  /\ UNCHANGED << retries, reasks >>

ProviderFails(error) ==
  /\ EndCall(error, "MODEL_CALL_FAILED")
  /\ pc' = IF error \in RetryableKinds /\ retries < MaxRetries
             THEN "sleeping" ELSE "threw"
  /\ UNCHANGED << retries, reasks >>

\* Mutant: the retry is not counted.
WakeUp_Uncounted ==
  /\ pc = "sleeping"
  /\ pc' = "ready"
  /\ UNCHANGED << kind, attempt, retries, reasks, calls, events >>

\* Mutant: the budget is looked at again after the backoff, off by one.
WakeUp_Rechecks ==
  /\ pc = "sleeping"
  /\ retries + 1 < MaxRetries
  /\ pc' = "ready"
  /\ retries' = retries + 1
  /\ UNCHANGED << kind, attempt, reasks, calls, events >>

\* The backoff ends.
WakeUp ==
  /\ pc = "sleeping"
  /\ pc' = "ready"
  /\ retries' = retries + 1
  /\ UNCHANGED << kind, attempt, reasks, calls, events >>

Next ==
  \/ StartCall
  \/ ProviderAnswers
  \/ ProviderAnswersInvalid
  \/ \E error \in Errors : ProviderFails(error)
  \/ WakeUp

Spec == Init /\ [][Next]_vars

\* The transport aborts a call after its timeout and the backoff is a timer.
FairSpec == Spec /\ WF_vars(Next)

-----------------------------------------------------------------------------

\* The type invariant; a sleeping request has a retry left to wake up to.
TypeOK ==
  /\ pc \in {"ready", "calling", "sleeping", "returned", "threw"}
  /\ kind \in RequestKind
  /\ attempt \in Nat
  /\ retries \in 0 .. MaxRetries
  /\ pc = "sleeping" => retries < MaxRetries
  /\ reasks \in 0 .. MaxReasks
  /\ calls \in Seq(Outcome)
  /\ events \in Seq([type : {"MODEL_CALL_STARTED", "MODEL_CALL_COMPLETED",
                             "MODEL_CALL_FAILED"},
                     attempt : Nat])

\* The most calls one request can make; AgentRuntime's CallsPerRequest.
CallBudget == (MaxRetries + 1) * (MaxReasks + 1)

\* However the provider behaves, a settled request made at least one call and
\* no request makes more than CallBudget (ADR-003: "Recovery is layered and
\* bounded"); the runtime's limits count on it.
CallsBounded ==
  /\ attempt <= CallBudget
  /\ pc \in {"returned", "threw"} => attempt >= 1

\* Every call is announced once and closed exactly once, under its own
\* attempt number, before the next one starts; only the call under way is open.
CallsClosed ==
  /\ Len(events) = IF pc = "calling" THEN 2 * attempt - 1 ELSE 2 * attempt
  /\ \A i \in DOMAIN events :
       /\ (events[i].type = "MODEL_CALL_STARTED") <=> (i % 2 = 1)
       /\ events[i].attempt = (i + 1) \div 2

\* The failures a call may not follow (ADR-003: authentication, configuration
\* and bad_request are never retried); stated apart from RetryableKinds.
PermanentKinds == {"authentication", "configuration", "bad_request", "unknown"}

\* No call follows a permanent failure, in whatever round of retries or
\* re-asks it happened.
NoCallAfterPermanentFailure ==
  \A i \in DOMAIN events :
    events[i].type = "MODEL_CALL_STARTED" =>
      \A k \in 1 .. (events[i].attempt - 1) : calls[k] \notin PermanentKinds

\* The last call and the MaxRetries before it all failed in a way worth
\* retrying: withRetries has no retry left.
SpentRetries ==
  \E start \in DOMAIN calls :
    /\ Len(calls) - start = MaxRetries
    /\ \A i \in start .. Len(calls) : calls[i] \in RetryableKinds

\* The last invalid answer is one more than the re-ask budget.
SpentReasks ==
  Cardinality({i \in DOMAIN calls : calls[i] = "invalid"}) = MaxReasks + 1

\* The layer reports exactly what the last call came to, and it gives up only
\* on a permanent failure or when the budget the failure draws on is spent.
OutcomeHonest ==
  /\ pc = "returned" =>
       \/ calls[Len(calls)] = "valid"
       \/ calls[Len(calls)] = "invalid" /\ kind = "structured" /\ SpentReasks
  /\ pc = "threw" =>
       \/ calls[Len(calls)] \in Errors \ RetryableKinds
       \/ calls[Len(calls)] \in RetryableKinds /\ SpentRetries
       \/ calls[Len(calls)] = "invalid" /\ kind = "tool" /\ SpentReasks

\* A request that meets failures draws on its budgets as far as they go and no
\* further, and owns up to how it ended (withRetries, the re-ask loops).
FailuresHonest == NoCallAfterPermanentFailure /\ OutcomeHonest

\* Every request is settled: it returns or throws.
RequestSettles == <>(pc \in {"returned", "threw"})
=============================================================================
