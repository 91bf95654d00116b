---------------------------- MODULE LlmStackProofs ----------------------------
(***************************************************************************)
(* What CircuitBreaker and, around it, LlmStack guarantee for every set of *)
(* callers, every budget of attempts, every backoff and every              *)
(* configuration of the breaker.                                           *)
(***************************************************************************)
EXTENDS LlmStack, FiniteSetTheorems, TLAPS

(***************************************************************************)
(* The circuit breaker.                                                    *)
(***************************************************************************)

\* The inductive invariant.  HalfOpenIsQuiet needs TypeOK for the age of the
\* last failure to be a number; the other conjuncts support each other only
\* through the state they speak of.
BreakerInv ==
  /\ TypeOK
  /\ FieldsAgree

USE DEF CircuitState, CallState, Age, Never

\* The breaker starts in the invariant.
LEMMA InitInv == Init => BreakerInv
  BY TimeoutAssumption, ThresholdAssumption, CancelsAssumption
  DEF Init, BreakerInv, TypeOK, FieldsAgree, ClosedBelowThreshold,
      TrippedHasFailure, HalfOpenIsQuiet

\* A failure leaves the counter within the width of its type, and where the
\* breaker stays Closed, below the threshold.
LEMMA FailureCount ==
  ASSUME NEW n \in 0..(CounterSize - 1)
  PROVE  (n + 1) % CounterSize \in 0..(CounterSize - 1)
  BY ThresholdAssumption

\* The record of a failure keeps the types.
LEMMA FailedType == ASSUME TypeOK, NEW c \in Callers, Failed(c) PROVE TypeOK'
<1> USE TimeoutAssumption, ThresholdAssumption, CancelsAssumption
<1>1. consecutive_failures' \in 0..(CounterSize - 1)
  BY FailureCount DEF TypeOK, Failed
<1>2. state' \in CircuitState
  BY DEF TypeOK, Failed, AfterFailure
<1>3. QED
  BY <1>1, <1>2 DEF TypeOK, Failed, Return

\* Every step keeps the fields and the callers' states in their types.
LEMMA NextType == TypeOK /\ [Next]_vars => TypeOK'
<1> SUFFICES ASSUME TypeOK, [Next]_vars PROVE TypeOK'
  OBVIOUS
<1> USE TimeoutAssumption, ThresholdAssumption, CancelsAssumption
<1>1. ASSUME NEW c \in Callers, Call(c) PROVE TypeOK'
  BY <1>1 DEF TypeOK, Call, PassThrough, Probe, ShortCircuit, Admit
<1>2. ASSUME NEW c \in Callers, RecordSuccess(c) PROVE TypeOK'
  BY <1>2 DEF TypeOK, RecordSuccess, Return
<1>3. ASSUME NEW c \in Callers, RecordFailure(c) PROVE TypeOK'
  BY <1>3, FailedType DEF RecordFailure
<1>4. ASSUME NEW c \in Callers, Cancel(c) PROVE TypeOK'
  BY <1>4 DEF TypeOK, Cancel, Return
<1>5. CASE Tick
  BY <1>5 DEF TypeOK, Tick
<1>6. CASE UpstreamChange
  BY <1>6 DEF TypeOK, UpstreamChange
<1>7. CASE UNCHANGED vars
  BY <1>7 DEF TypeOK, vars
<1>8. QED
  BY <1>1, <1>2, <1>3, <1>4, <1>5, <1>6, <1>7 DEF Next

\* The record of a failure keeps the invariant, whether or not the endpoint
\* is to blame.
LEMMA FailedInv ==
  ASSUME BreakerInv, NEW c \in Callers, Failed(c) PROVE BreakerInv'
<1> USE TimeoutAssumption, ThresholdAssumption
<1>1. TypeOK /\ TypeOK'
  BY FailedType DEF BreakerInv
<1>2. state' # "HalfOpen"
  BY <1>1 DEF TypeOK, Failed, AfterFailure
<1>3. state' = "Closed" => consecutive_failures' < FailureThreshold
  BY <1>1, FailureCount DEF TypeOK, Failed, AfterFailure
<1>4. last_failure' = 0
  BY DEF Failed
<1>5. QED
  BY <1>1, <1>2, <1>3, <1>4
  DEF BreakerInv, FieldsAgree, ClosedBelowThreshold, TrippedHasFailure,
      HalfOpenIsQuiet

\* Every step keeps the invariant.
LEMMA NextInv == BreakerInv /\ [Next]_vars => BreakerInv'
<1> SUFFICES ASSUME BreakerInv, [Next]_vars PROVE BreakerInv'
  OBVIOUS
<1> USE TimeoutAssumption, ThresholdAssumption
<1>1. TypeOK /\ TypeOK'
  BY NextType DEF BreakerInv
<1>2. FieldsAgree
  BY DEF BreakerInv
<1> USE DEF FieldsAgree, ClosedBelowThreshold, TrippedHasFailure,
            HalfOpenIsQuiet, WindowElapsed
<1>3. ASSUME NEW c \in Callers, Call(c) PROVE FieldsAgree'
  BY <1>1, <1>2, <1>3 DEF TypeOK, Call, PassThrough, Probe, ShortCircuit
<1>4. ASSUME NEW c \in Callers, RecordSuccess(c) PROVE FieldsAgree'
  BY <1>1, <1>2, <1>4 DEF TypeOK, RecordSuccess
<1>5. ASSUME NEW c \in Callers, RecordFailure(c) PROVE FieldsAgree'
  BY <1>5, FailedInv DEF RecordFailure, BreakerInv
<1>6. ASSUME NEW c \in Callers, Cancel(c) PROVE FieldsAgree'
  BY <1>2, <1>6 DEF Cancel
<1>7. ASSUME Tick PROVE FieldsAgree'
  BY <1>1, <1>2, <1>7 DEF TypeOK, Tick
<1>8. ASSUME UpstreamChange PROVE FieldsAgree'
  BY <1>2, <1>8 DEF UpstreamChange
<1>9. ASSUME UNCHANGED vars PROVE FieldsAgree'
  BY <1>2, <1>9 DEF vars
<1>10. QED
  BY <1>1, <1>3, <1>4, <1>5, <1>6, <1>7, <1>8, <1>9 DEF Next, BreakerInv

\* The fields of the breaker keep their types: the counter stays a u32 however
\* many calls fail (circuit_breaker.rs:147).
THEOREM TypeCorrect == Spec => []TypeOK
<1>1. Spec => []BreakerInv
  BY InitInv, NextInv, PTL DEF Spec
<1>2. BreakerInv => TypeOK
  BY DEF BreakerInv
<1>3. QED
  BY <1>1, <1>2, PTL

\* The invariant holds in every reachable state, with any number of callers.
THEOREM BreakerCorrect == Spec => []BreakerInv
  BY InitInv, NextInv, PTL DEF Spec

\* A breaker that is Closed has not reached its threshold, HalfOpen is never
\* within the window of a failure, and a tripped breaker knows when it failed.
THEOREM StateMatchesHistory == Spec => []FieldsAgree
<1>1. BreakerInv => FieldsAgree
  BY DEF BreakerInv
<1>2. QED
  BY <1>1, BreakerCorrect, PTL

\* No call reaches the endpoint while the breaker is not Closed and a failure
\* is younger than the window.
LEMMA StepIsQuiet ==
  BreakerInv /\ [Next]_vars =>
    [state # "Closed" /\ ~WindowElapsed => InFlight' \subseteq InFlight]_vars
<1> SUFFICES ASSUME BreakerInv, Next, state # "Closed", ~WindowElapsed
             PROVE  InFlight' \subseteq InFlight
  OBVIOUS
<1>1. pc \in [Callers -> CallState]
  BY DEF BreakerInv, TypeOK
<1>2. state = "Open"
  BY DEF BreakerInv, FieldsAgree, TypeOK, HalfOpenIsQuiet
<1>3. ASSUME NEW c \in Callers, Call(c) PROVE InFlight' \subseteq InFlight
  <2>1. ShortCircuit(c)
    BY <1>2, <1>3 DEF Call, PassThrough, Probe
  <2>2. QED
    BY <1>1, <2>1 DEF ShortCircuit, InFlight
<1>4. ASSUME NEW c \in Callers,
             RecordSuccess(c) \/ RecordFailure(c) \/ Cancel(c)
      PROVE  InFlight' \subseteq InFlight
  BY <1>1, <1>4
  DEF RecordSuccess, RecordFailure, Failed, Cancel, Return, InFlight
<1>5. CASE Tick \/ UpstreamChange
  BY <1>5 DEF Tick, UpstreamChange, InFlight
<1>6. QED
  BY <1>3, <1>4, <1>5 DEF Next

\* The endpoint is left alone for a full window after every recorded failure.
THEOREM EndpointLeftAlone == Spec => QuietWindow
  BY BreakerCorrect, StepIsQuiet, PTL DEF Spec, QuietWindow

-----------------------------------------------------------------------------
(* Refinement of RestingEndpoint.                                          *)

LEMMA InitRefines == Init => Endpoint!Init
  BY DEF Init, Endpoint!Init, Resting, InFlight

LEMMA StepRefines ==
  BreakerInv /\ [Next]_vars => [Endpoint!Next]_<<Resting, InFlight>>
<1> SUFFICES ASSUME BreakerInv, [Next]_vars
             PROVE  [Endpoint!Next]_<<Resting, InFlight>>
  OBVIOUS
<1> USE TimeoutAssumption
<1>1. TypeOK /\ HalfOpenIsQuiet
  BY DEF BreakerInv, FieldsAgree
<1>2. ASSUME NEW c \in Callers, PassThrough(c)
      PROVE  Endpoint!Start(c)
  BY <1>1, <1>2
  DEF TypeOK, HalfOpenIsQuiet, PassThrough, Admit, Endpoint!Start, Resting,
      InFlight, WindowElapsed
<1>3. ASSUME NEW c \in Callers, Probe(c)
      PROVE  Endpoint!Start(c)
  BY <1>1, <1>3
  DEF TypeOK, Probe, Admit, Endpoint!Start, Resting, InFlight, WindowElapsed
<1>4. ASSUME NEW c \in Callers, ShortCircuit(c)
      PROVE  UNCHANGED <<Resting, InFlight>>
  BY <1>1, <1>4 DEF TypeOK, ShortCircuit, Resting, InFlight, WindowElapsed
<1>5. ASSUME NEW c \in Callers,
             RecordSuccess(c) \/ RecordFailure(c) \/ Cancel(c)
      PROVE  Endpoint!Finish(c)
  <2>1. c \in InFlight /\ InFlight' = InFlight \ {c}
    BY <1>1, <1>5
    DEF TypeOK, RecordSuccess, RecordFailure, Failed, Cancel, Return, InFlight
  <2>2. Resting' \in BOOLEAN
    BY DEF Resting
  <2>3. QED
    BY <2>1, <2>2 DEF Endpoint!Finish
<1>6. CASE Tick
  BY <1>1, <1>6
  DEF TypeOK, Tick, Endpoint!Next, Endpoint!Wake, Resting, InFlight,
      WindowElapsed
<1>7. CASE UpstreamChange \/ UNCHANGED vars
  BY <1>7 DEF UpstreamChange, vars, Resting, InFlight, WindowElapsed
<1>8. QED
  BY <1>2, <1>3, <1>4, <1>5, <1>6, <1>7 DEF Next, Call, Endpoint!Next

\* The breaker implements RestingEndpoint.
THEOREM BreakerKeepsPromise == Spec => KeepsPromise
  BY InitRefines, StepRefines, BreakerCorrect, PTL
  DEF Spec, KeepsPromise, Endpoint!Spec

(***************************************************************************)
(* A call through retry, breaker, request and receipt.                     *)
(***************************************************************************)

\* Where a call is: its attempts, its place in the breaker and its receipt
\* agree.
Progress ==
  \A c \in Callers :
    /\ stage[c] = "trying" <=> pc[c] = "inner"
    /\ sent[c] = IF stage[c] \in {"trying", "answered", "signing"}
                   THEN attempt[c] + 1
                 ELSE IF stage[c] = "ready" THEN attempt[c] ELSE sent[c]
    /\ stage[c] # "done" => receipt[c] = None
    /\ stage[c] = "signing" => read[c] # None

StackInv ==
  BreakerInv /\ StackTypeOK /\ Progress /\ OutcomeExplained

-----------------------------------------------------------------------------
(* The breaker's part of a step.                                           *)

LEMMA BreakerPart ==
  ASSUME BreakerInv, [StackNext]_stackVars PROVE BreakerInv'
<1>1. ASSUME NEW c \in Callers, Admitted(c) \/ Refused(c) PROVE BreakerInv'
  BY <1>1, NextInv DEF Admitted, Refused, Next, Call
<1>2. ASSUME NEW c \in Callers, AttemptFails(c) PROVE BreakerInv'
  BY <1>2, FailedInv DEF AttemptFails
<1>3. ASSUME NEW c \in Callers, AttemptSucceeds(c) PROVE BreakerInv'
  BY <1>3, NextInv DEF AttemptSucceeds, Next
<1>4. ASSUME UNCHANGED vars PROVE BreakerInv'
  BY <1>4, NextInv
<1>5. ASSUME NEW c \in Callers, ReadPrev(c) \/ AdvancePrev(c)
      PROVE  BreakerInv'
  BY <1>5, <1>4 DEF ReadPrev, AdvancePrev
<1>6. ASSUME NEW c \in Callers, DropTrying(c) PROVE BreakerInv'
  BY <1>6, NextInv DEF DropTrying, Next
<1>7. ASSUME NEW c \in Callers, DropWaiting(c) PROVE BreakerInv'
  BY <1>7, CancelsAssumption
  DEF DropWaiting, BreakerInv, TypeOK, FieldsAgree, ClosedBelowThreshold,
      TrippedHasFailure, HalfOpenIsQuiet, WindowElapsed
<1>8. ASSUME Elapse PROVE BreakerInv'
  BY <1>8, <1>4, NextInv DEF Elapse, Next
<1>9. ASSUME EndpointChanges PROVE BreakerInv'
  BY <1>9, NextInv DEF EndpointChanges, Next
<1>10. QED
  BY <1>1, <1>2, <1>3, <1>4, <1>5, <1>6, <1>7, <1>8, <1>9
  DEF StackNext, stackVars

-----------------------------------------------------------------------------
(* Types and outcomes.                                                     *)

LEMMA StackInitInv == StackInit => StackInv
<1> SUFFICES ASSUME StackInit PROVE StackInv
  OBVIOUS
<1>1. BreakerInv
  BY InitInv DEF StackInit
<1>2. StackTypeOK
  BY <1>1, RetryAssumption
  DEF StackInit, StackTypeOK, BreakerInv, Stages, Answers, Errors
<1>3. Progress /\ OutcomeExplained
  BY DEF StackInit, Init, Progress, OutcomeExplained
<1>4. QED
  BY <1>1, <1>2, <1>3 DEF StackInv

\* A backoff is within its cap.
LEMMA BackoffCapped ==
  ASSUME NEW n, NEW w \in Backoffs(n) PROVE w \in 0..MaxBackoff
<1>1. Window(n) \in 0..MaxBackoff
  BY RetryAssumption DEF Window
<1>2. QED
  BY <1>1, RetryAssumption DEF Backoffs

LEMMA FailuresAreErrors ==
  ASSUME NEW c, NEW e \in Failures(c) PROVE e \in Errors \ {"CircuitOpen"}
  BY DEF Failures, ErrorOf, Outcomes, Bodies, Errors

LEMMA StackNextInv == StackInv /\ [StackNext]_stackVars => StackInv'
<1> SUFFICES ASSUME StackInv, [StackNext]_stackVars PROVE StackInv'
  OBVIOUS
<1>1. BreakerInv' /\ TypeOK'
  BY BreakerPart DEF StackInv, BreakerInv
<1> DEFINE Rest == StackTypeOK /\ Progress /\ OutcomeExplained
<1>2. TypeOK /\ Rest
  BY DEF StackInv, BreakerInv
<1> USE RetryAssumption, ReceiptAssumption
<1> USE DEF StackTypeOK, Progress, OutcomeExplained, Stages, Answers, Errors,
            IsRetryable, clientVars, receiptVars, historyVars
<1>3. ASSUME NEW c \in Callers, Admitted(c) PROVE Rest'
  <2>1. pc' = [pc EXCEPT ![c] = "inner"] /\ pc[c] # "inner"
    BY <1>3 DEF Admitted, PassThrough, Probe, Admit
  <2>2. StackTypeOK'
    BY <1>1, <1>2, <1>3 DEF Admitted
  <2>3. Progress' /\ OutcomeExplained'
    BY <1>2, <1>3, <2>1 DEF Admitted, TypeOK
  <2>4. QED
    BY <2>2, <2>3
<1>4. ASSUME NEW c \in Callers, Refused(c) PROVE Rest'
  <2>1. pc' = [pc EXCEPT ![c] = "Open"] /\ pc[c] # "inner"
    BY <1>4 DEF Refused, ShortCircuit
  <2>2. StackTypeOK'
    BY <1>1, <1>2, <1>4 DEF Refused, Done
  <2>3. Progress' /\ OutcomeExplained'
    BY <1>2, <1>4, <2>1 DEF Refused, Done, TypeOK
  <2>4. QED
    BY <2>2, <2>3
<1>5. ASSUME NEW c \in Callers, AttemptFails(c) PROVE Rest'
  <2>1. pc' = [pc EXCEPT ![c] = "Inner"] /\ stage[c] = "trying"
        /\ UNCHANGED <<receiptVars, historyVars>>
    BY <1>5 DEF AttemptFails, Failed, Return
  <2>2. PICK e \in Failures(c) :
          \/ Retries(c, e) /\ GoOn(c)
          \/ ~Retries(c, e) /\ Done(c, e) /\ UNCHANGED <<attempt, wait>>
    BY <1>5 DEF AttemptFails
  <2>3. CASE Retries(c, e) /\ GoOn(c)
    <3>1. PICK w \in Backoffs(attempt[c]) : wait' = [wait EXCEPT ![c] = w]
      BY <2>3 DEF GoOn
    <3>2. StackTypeOK'
      BY <1>1, <1>2, <2>1, <2>3, <3>1, BackoffCapped DEF GoOn, Retries
    <3>3. Progress' /\ OutcomeExplained'
      BY <1>2, <2>1, <2>3 DEF GoOn, TypeOK
    <3>4. QED
      BY <3>2, <3>3
  <2>4. CASE ~Retries(c, e) /\ Done(c, e) /\ UNCHANGED <<attempt, wait>>
    <3>1. e \in Errors \ {"CircuitOpen"}
      BY FailuresAreErrors
    <3>2. StackTypeOK'
      BY <1>1, <1>2, <2>1, <2>4, <3>1 DEF Done
    <3>3. Progress' /\ OutcomeExplained'
      BY <1>2, <2>1, <2>4, <3>1 DEF Done, Retries, TypeOK
    <3>4. QED
      BY <3>2, <3>3
  <2>5. QED
    BY <2>2, <2>3, <2>4
<1>6. ASSUME NEW c \in Callers, AttemptSucceeds(c) PROVE Rest'
  <2>1. pc' = [pc EXCEPT ![c] = "Ok"] /\ stage[c] = "trying"
    BY <1>6 DEF AttemptSucceeds, RecordSuccess, Return
  <2>2. StackTypeOK'
    BY <1>1, <1>2, <1>6 DEF AttemptSucceeds
  <2>3. Progress' /\ OutcomeExplained'
    BY <1>2, <1>6, <2>1 DEF AttemptSucceeds, TypeOK
  <2>4. QED
    BY <2>2, <2>3
<1>7. ASSUME NEW c \in Callers, ReadPrev(c) PROVE Rest'
  <2>1. StackTypeOK'
    BY <1>1, <1>2, <1>7 DEF ReadPrev, Signing
  <2>2. Progress' /\ OutcomeExplained'
    BY <1>2, <1>7 DEF ReadPrev, vars
  <2>3. QED
    BY <2>1, <2>2
<1>8. ASSUME NEW c \in Callers, AdvancePrev(c) PROVE Rest'
  <2>1. StackTypeOK'
    BY <1>1, <1>2, <1>8 DEF AdvancePrev, Done
  <2>2. Progress' /\ OutcomeExplained'
    BY <1>2, <1>8 DEF AdvancePrev, Done, vars
  <2>3. QED
    BY <2>1, <2>2
<1>9. ASSUME NEW c \in Callers, DropTrying(c) PROVE Rest'
  <2>1. pc' = [pc EXCEPT ![c] = "idle"] /\ stage[c] = "trying"
    BY <1>9 DEF DropTrying, Cancel, Return
  <2>2. StackTypeOK'
    BY <1>1, <1>2, <1>9 DEF DropTrying, Done
  <2>3. Progress' /\ OutcomeExplained'
    BY <1>2, <1>9, <2>1 DEF DropTrying, Done, TypeOK
  <2>4. QED
    BY <2>2, <2>3
<1>10. ASSUME NEW c \in Callers, DropWaiting(c) PROVE Rest'
  <2>1. StackTypeOK'
    BY <1>1, <1>2, <1>10 DEF DropWaiting, Done
  <2>2. Progress' /\ OutcomeExplained'
    BY <1>2, <1>10 DEF DropWaiting, Done
  <2>3. QED
    BY <2>1, <2>2
<1>11. ASSUME Elapse PROVE Rest'
  <2>1. pc' = pc
    BY <1>11 DEF Elapse, Tick, vars
  <2>2. StackTypeOK'
    BY <1>1, <1>2, <1>11 DEF Elapse
  <2>3. Progress' /\ OutcomeExplained'
    BY <1>2, <1>11, <2>1 DEF Elapse
  <2>4. QED
    BY <2>2, <2>3
<1>12. ASSUME EndpointChanges \/ UNCHANGED stackVars PROVE Rest'
  <2>1. UNCHANGED <<pc, clientVars, receiptVars, historyVars>>
    BY <1>12 DEF EndpointChanges, UpstreamChange, stackVars, vars
  <2>2. QED
    BY <1>1, <1>2, <2>1
<1>13. QED
  BY <1>1, <1>3, <1>4, <1>5, <1>6, <1>7, <1>8, <1>9, <1>10, <1>11, <1>12
  DEF StackNext, StackInv

\* The invariant holds in every reachable state.
LEMMA StackCorrect == StackSpec => []StackInv
  BY StackInitInv, StackNextInv, PTL DEF StackSpec

\* The types of the stack's variables: attempts, backoffs and requests stay
\* within the configuration (retry.rs:68-116).
THEOREM StackTypeCorrect == StackSpec => []StackTypeOK
<1>1. StackInv => StackTypeOK
  BY DEF StackInv
<1>2. QED
  BY <1>1, StackCorrect, PTL

\* What a call returns tells what it did, with any number of callers and any
\* behaviour of the endpoint and of the breaker.
THEOREM OutcomesExplained == StackSpec => []OutcomeExplained
<1>1. StackInv => OutcomeExplained
  BY DEF StackInv
<1>2. QED
  BY <1>1, StackCorrect, PTL

-----------------------------------------------------------------------------
(* Retry storms.                                                           *)

LEMMA InFlightFinite ==
  /\ IsFiniteSet(InFlight)
  /\ Cardinality(InFlight) \in Nat
  /\ Cardinality(Callers) \in Nat
  /\ Cardinality(InFlight) <= Cardinality(Callers)
  BY CallersAssumption, FS_Subset, FS_CardinalityType DEF InFlight

\* What was let through is counted as a failure, under way or dropped.
BurstCounted ==
  /\ state = "Closed" =>
       burst <= consecutive_failures + Cardinality(InFlight) + cancels
  /\ state = "HalfOpen" => burst <= Cardinality(InFlight) + cancels

StormInv == BurstCounted /\ StormBounded

\* A call that is let through is one more in flight, one that ends one less.
LEMMA Starts ==
  ASSUME TypeOK, NEW c \in Callers, Admit(c, state'), pc[c] # "inner"
  PROVE  Cardinality(InFlight') = Cardinality(InFlight) + 1
<1>1. InFlight' = InFlight \cup {c} /\ c \notin InFlight
  BY DEF TypeOK, Admit, InFlight
<1>2. QED
  BY <1>1, InFlightFinite, FS_AddElement

LEMMA Ends ==
  ASSUME TypeOK, NEW c \in Callers, NEW r, pc[c] = "inner", Return(c, r),
         r # "inner"
  PROVE  Cardinality(InFlight') = Cardinality(InFlight) - 1
<1>1. InFlight' = InFlight \ {c} /\ c \in InFlight
  BY DEF TypeOK, Return, InFlight
<1>2. QED
  BY <1>1, InFlightFinite, FS_RemoveElement

LEMMA StormInit == StackInit => StormInv
<1> SUFFICES ASSUME StackInit PROVE StormInv
  OBVIOUS
<1>1. burst = 0 /\ cancels = 0 /\ consecutive_failures = 0
  BY DEF StackInit, Init
<1>2. QED
  BY <1>1, InFlightFinite, ThresholdAssumption
  DEF StormInv, BurstCounted, StormBounded

LEMMA StormNext ==
  StackInv /\ StormInv /\ [StackNext]_stackVars => StormInv'
<1> SUFFICES ASSUME StackInv, StormInv, [StackNext]_stackVars PROVE StormInv'
  OBVIOUS
<1>1. /\ TypeOK /\ TypeOK' /\ ClosedBelowThreshold
      /\ burst \in Nat /\ cancels \in Nat /\ consecutive_failures \in Nat
  BY BreakerPart DEF StackInv, BreakerInv, FieldsAgree, TypeOK, StackTypeOK
<1>2. /\ Cardinality(InFlight) \in Nat
      /\ Cardinality(Callers) \in Nat
      /\ Cardinality(InFlight) <= Cardinality(Callers)
  BY InFlightFinite
<1>3. /\ Cardinality(InFlight)' \in Nat
      /\ Cardinality(InFlight)' <= Cardinality(Callers)
  BY InFlightFinite, CallersAssumption, FS_Subset, FS_CardinalityType
  DEF InFlight
<1> USE ThresholdAssumption
<1> USE DEF StormInv, BurstCounted, StormBounded, ClosedBelowThreshold
<1>4. ASSUME NEW c \in Callers, Admitted(c) PROVE StormInv'
  <2>1. /\ Admit(c, state') /\ pc[c] # "inner"
        /\ UNCHANGED <<consecutive_failures, cancels>>
        /\ \/ state # "Open" /\ state' = state
           \/ state = "Open" /\ state' = "HalfOpen"
    BY <1>4 DEF Admitted, PassThrough, Probe
  <2>2. Cardinality(InFlight)' = Cardinality(InFlight) + 1
    BY <1>1, <2>1, Starts
  <2>3. burst' = IF state = "Open" THEN 1 ELSE burst + 1
    BY <1>4 DEF Admitted
  <2>4. QED
    BY <1>1, <1>2, <1>3, <2>1, <2>2, <2>3 DEF TypeOK, CircuitState
<1>5. ASSUME NEW c \in Callers, AttemptFails(c) PROVE StormInv'
  <2>1. /\ Return(c, "Inner") /\ pc[c] = "inner"
        /\ burst' = burst /\ cancels' = cancels
        /\ consecutive_failures' = (consecutive_failures + 1) % CounterSize
        /\ state' = AfterFailure(consecutive_failures')
    BY <1>5 DEF AttemptFails, Failed, historyVars
  <2>2. Cardinality(InFlight)' = Cardinality(InFlight) - 1
    BY <1>1, <2>1, Ends
  <2>3. state' # "HalfOpen" /\ (state' = "Closed" => state = "Closed")
    BY <1>1, <2>1 DEF AfterFailure, TypeOK, CircuitState
  <2>4. state = "Closed" => consecutive_failures' = consecutive_failures + 1
    BY <1>1, <2>1
  <2>5. QED
    BY <1>1, <1>2, <1>3, <2>1, <2>2, <2>3, <2>4
<1>6. ASSUME NEW c \in Callers, AttemptSucceeds(c) PROVE StormInv'
  <2>1. burst' = 0 /\ state' = "Closed" /\ consecutive_failures' = 0
        /\ cancels' = cancels
    BY <1>6 DEF AttemptSucceeds, RecordSuccess
  <2>2. QED
    BY <1>1, <1>2, <1>3, <2>1
<1>7. ASSUME NEW c \in Callers, DropTrying(c) PROVE StormInv'
  <2>1. /\ Return(c, "idle") /\ pc[c] = "inner"
        /\ burst' = burst /\ cancels' = cancels + 1 /\ state' = state
        /\ consecutive_failures' = consecutive_failures
    BY <1>7 DEF DropTrying, Cancel, historyVars
  <2>2. Cardinality(InFlight)' = Cardinality(InFlight) - 1
    BY <1>1, <2>1, Ends
  <2>3. QED
    BY <1>1, <1>2, <1>3, <2>1, <2>2
<1>8. ASSUME NEW c \in Callers, DropWaiting(c) PROVE StormInv'
  <2>1. /\ burst' = burst /\ cancels' = cancels + 1 /\ state' = state
        /\ consecutive_failures' = consecutive_failures /\ pc' = pc
    BY <1>8 DEF DropWaiting, historyVars
  <2>2. InFlight' = InFlight
    BY <2>1 DEF InFlight
  <2>3. QED
    BY <1>1, <1>2, <2>1, <2>2
<1>9. ASSUME NEW c \in Callers, Refused(c) PROVE StormInv'
  <2>1. /\ burst' = burst /\ cancels' = cancels /\ state' = state
        /\ consecutive_failures' = consecutive_failures
        /\ pc' = [pc EXCEPT ![c] = "Open"] /\ pc[c] # "inner"
    BY <1>9 DEF Refused, ShortCircuit, historyVars
  <2>2. InFlight' = InFlight
    BY <1>1, <2>1 DEF InFlight, TypeOK
  <2>3. QED
    BY <1>1, <1>2, <2>1, <2>2
<1>10. ASSUME UNCHANGED <<state, consecutive_failures, pc, cancels, burst>>
       PROVE  StormInv'
  <2>1. InFlight' = InFlight
    BY <1>10 DEF InFlight
  <2>2. QED
    BY <1>10, <2>1
<1>11. ASSUME NEW c \in Callers, ReadPrev(c) \/ AdvancePrev(c)
       PROVE  StormInv'
  BY <1>11, <1>10 DEF ReadPrev, AdvancePrev, vars, historyVars
<1>12. ASSUME Elapse \/ EndpointChanges \/ UNCHANGED stackVars
       PROVE  StormInv'
  BY <1>12, <1>10
  DEF Elapse, Tick, EndpointChanges, UpstreamChange, stackVars, vars,
      historyVars
<1>13. QED
  BY <1>4, <1>5, <1>6, <1>7, <1>8, <1>9, <1>11, <1>12 DEF StackNext

\* No retry storm, with any finite number of callers and any budget of
\* attempts: the bound does not depend on max_retries.
THEOREM NoRetryStorm == StackSpec => []StormBounded
<1>1. StackSpec => []StormInv
  BY StackCorrect, StormInit, StormNext, PTL DEF StackSpec
<1>2. StormInv => StormBounded
  BY DEF StormInv
<1>3. QED
  BY <1>1, <1>2, PTL

-----------------------------------------------------------------------------
(* Receipts.                                                               *)

Receipted == {c \in Callers : receipt[c] # None}

\* Receipts and the hash that was read last name receipts that were signed;
\* whoever is signing at the same time has met; nothing follows the last
\* receipt yet; and who has read a hash has met all that followed it since.
ReceiptInv ==
  /\ prev # Genesis => prev \in Receipted
  /\ \A c \in Signing : read[c] # Genesis => read[c] \in Receipted
  /\ \A c \in Receipted : receipt[c] # Genesis => receipt[c] \in Receipted
  /\ \A c, d \in Signing : c # d => d \in met[c]
  /\ \A c \in Receipted : receipt[c] # prev
  /\ \A c \in Signing, d \in Receipted :
       receipt[d] = read[c] => d \in met[c] /\ c \in met[d]
  /\ ReceiptsForkInOverlap

LEMMA ReceiptInit == StackInit => ReceiptInv
  BY ReceiptAssumption
  DEF StackInit, ReceiptInv, Receipted, Signing, ReceiptsForkInOverlap

\* A step that leaves receipts and the set of signing callers alone.
LEMMA ReceiptKept ==
  ASSUME ReceiptInv, UNCHANGED receiptVars, Signing' = Signing
  PROVE  ReceiptInv'
<1>1. Receipted' = Receipted
  BY DEF Receipted, receiptVars
<1>2. QED
  BY <1>1 DEF ReceiptInv, ReceiptsForkInOverlap, receiptVars

LEMMA ReadKeepsReceipts ==
  ASSUME StackInv, ReceiptInv, NEW c \in Callers, ReadPrev(c)
  PROVE  ReceiptInv'
<1>1. StackTypeOK /\ Progress
  BY DEF StackInv
<1>2. /\ UNCHANGED <<prev, receipt>>
      /\ read' = [read EXCEPT ![c] = prev]
      /\ Signing' = Signing \cup {c} /\ c \notin Signing
      /\ c \notin Receipted /\ Receipted' = Receipted
  BY <1>1 DEF ReadPrev, StackTypeOK, Progress, Signing, Receipted
<1>3. \A d \in Callers :
        met'[d] = IF d = c THEN Signing
                  ELSE IF d \in Signing THEN met[d] \cup {c} ELSE met[d]
  BY DEF ReadPrev
<1>4. \A d \in Callers : d # c => read'[d] = read[d]
  BY <1>1, <1>2 DEF StackTypeOK
<1>5. read'[c] = prev
  BY <1>1, <1>2 DEF StackTypeOK
<1>6. Signing \subseteq Callers /\ Receipted \subseteq Callers
  BY DEF Signing, Receipted
<1>7. \A a, b \in Signing' : a # b => b \in met'[a]
  BY <1>2, <1>3, <1>6 DEF ReceiptInv
<1>8. \A a \in Signing', d \in Receipted' :
        receipt'[d] = read'[a] => d \in met'[a] /\ a \in met'[d]
  <2> SUFFICES ASSUME NEW a \in Signing', NEW d \in Receipted',
                      receipt'[d] = read'[a]
               PROVE  d \in met'[a] /\ a \in met'[d]
    OBVIOUS
  <2>1. a # c
    BY <1>2, <1>5 DEF ReceiptInv
  <2>2. d # c /\ a \in Signing /\ d \in Receipted /\ receipt[d] = read[a]
    BY <1>2, <1>4, <1>6, <2>1
  <2>3. d \in met[a] /\ a \in met[d]
    BY <2>2 DEF ReceiptInv
  <2>4. QED
    BY <1>3, <1>6, <2>1, <2>2, <2>3
<1>9. ReceiptsForkInOverlap'
  <2>1. \A a, b \in Callers : a # c /\ b \in met[a] => b \in met'[a]
    BY <1>3
  <2>2. \A a \in Callers : receipt'[a] # None => a # c
    BY <1>2 DEF Receipted
  <2>3. QED
    BY <1>2, <2>1, <2>2 DEF ReceiptInv, ReceiptsForkInOverlap
<1>10. QED
  BY <1>2, <1>4, <1>5, <1>6, <1>7, <1>8, <1>9 DEF ReceiptInv

LEMMA AdvanceKeepsReceipts ==
  ASSUME StackInv, ReceiptInv, NEW c \in Callers, AdvancePrev(c)
  PROVE  ReceiptInv'
<1>1. StackTypeOK /\ Progress
  BY DEF StackInv
<1>2. /\ UNCHANGED <<read, met>> /\ prev' = c
      /\ receipt' = [receipt EXCEPT ![c] = read[c]]
      /\ c \in Signing /\ Signing' = Signing \ {c}
      /\ read[c] # None
      /\ c \notin Receipted /\ Receipted' = Receipted \cup {c}
  BY <1>1
  DEF AdvancePrev, Done, StackTypeOK, Progress, Signing, Receipted
<1>3. /\ receipt'[c] = read[c]
      /\ \A d \in Callers : d # c => receipt'[d] = receipt[d]
  BY <1>1, <1>2 DEF StackTypeOK
<1>4. Signing \subseteq Callers /\ Receipted \subseteq Callers
  BY DEF Signing, Receipted
<1>5. c # Genesis /\ c # None
  BY ReceiptAssumption
<1>6. \A d \in Receipted' : receipt'[d] # prev'
  BY <1>2, <1>3, <1>4, <1>5 DEF ReceiptInv
<1>7. \A a \in Signing', d \in Receipted' :
        receipt'[d] = read'[a] => d \in met'[a] /\ a \in met'[d]
  BY <1>2, <1>3, <1>4 DEF ReceiptInv
<1>8. ReceiptsForkInOverlap'
  <2>1. \A a \in Callers : receipt'[a] # None => a \in Receipted \cup {c}
    BY <1>3 DEF Receipted
  <2>2. QED
    BY <1>2, <1>3, <1>4, <2>1 DEF ReceiptInv, ReceiptsForkInOverlap, Receipted
<1>9. /\ prev' # Genesis => prev' \in Receipted'
      /\ \A a \in Signing' : read'[a] # Genesis => read'[a] \in Receipted'
      /\ \A d \in Receipted' :
           receipt'[d] # Genesis => receipt'[d] \in Receipted'
      /\ \A a, b \in Signing' : a # b => b \in met'[a]
  BY <1>2, <1>3, <1>4 DEF ReceiptInv
<1>10. QED
  BY <1>6, <1>7, <1>8, <1>9 DEF ReceiptInv

LEMMA ReceiptNext ==
  StackInv /\ ReceiptInv /\ [StackNext]_stackVars => ReceiptInv'
<1> SUFFICES ASSUME StackInv, ReceiptInv, [StackNext]_stackVars
             PROVE  ReceiptInv'
  OBVIOUS
<1>1. StackTypeOK
  BY DEF StackInv
<1>2. ASSUME NEW c \in Callers,
             \/ Admitted(c) \/ Refused(c) \/ AttemptFails(c)
             \/ AttemptSucceeds(c) \/ DropTrying(c) \/ DropWaiting(c)
      PROVE  ReceiptInv'
  <2>1. /\ UNCHANGED receiptVars
        /\ stage[c] \in {"ready", "trying"}
        /\ \E s \in Stages \ {"signing"} : stage' = [stage EXCEPT ![c] = s]
    BY <1>2
    DEF Admitted, Refused, AttemptFails, AttemptSucceeds, DropTrying,
        DropWaiting, GoOn, Done, Stages
  <2>2. Signing' = Signing
    BY <1>1, <2>1 DEF Signing, StackTypeOK
  <2>3. QED
    BY <2>1, <2>2, ReceiptKept
<1>3. ASSUME NEW c \in Callers, ReadPrev(c) \/ AdvancePrev(c)
      PROVE  ReceiptInv'
  BY <1>3, ReadKeepsReceipts, AdvanceKeepsReceipts
<1>4. ASSUME Elapse \/ EndpointChanges \/ UNCHANGED stackVars
      PROVE  ReceiptInv'
  <2>1. UNCHANGED <<stage, receiptVars>>
    BY <1>4 DEF Elapse, EndpointChanges, clientVars, stackVars
  <2>2. QED
    BY <2>1, ReceiptKept DEF Signing
<1>5. QED
  BY <1>2, <1>3, <1>4 DEF StackNext

\* Receipts fork only among calls that were signing at the same time.
THEOREM ReceiptsForkOnlyInOverlap == StackSpec => []ReceiptsForkInOverlap
<1>1. StackSpec => []ReceiptInv
  BY StackCorrect, ReceiptInit, ReceiptNext, PTL DEF StackSpec
<1>2. ReceiptInv => ReceiptsForkInOverlap
  BY DEF ReceiptInv
<1>3. QED
  BY <1>1, <1>2, PTL

=============================================================================
