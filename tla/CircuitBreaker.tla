--------------------------- MODULE CircuitBreaker ---------------------------
(***************************************************************************)
(* LlmCircuitBreaker, the decorator that stops calls to a failing model    *)
(* endpoint (crates/argus-llm/src/circuit_breaker.rs).                     *)
(*                                                                         *)
(* Concurrent callers share the breaker.  A call is three steps: the check *)
(* of the state under the lock, the inner call with no lock held, and the  *)
(* recording of its outcome under the locks.  All three fields are locked  *)
(* in the order state, consecutive_failures, last_failure, and nothing is  *)
(* written before the last lock of a step is held, so each step is atomic  *)
(* even if the caller's future is dropped while it waits for a lock.       *)
(***************************************************************************)
EXTENDS Naturals, FiniteSets

CONSTANTS
  Callers,            \* tasks that share one breaker
  FailureThreshold,   \* config.failure_threshold
  RecoveryTimeout,    \* config.recovery_timeout, in clock ticks
  HalfOpenMaxProbes,  \* config.half_open_max_probes
  CounterSize,        \* number of values of the failure counter (2^32 for u32)
  MaxCancels          \* bound: how many in-flight futures are dropped

ASSUME ThresholdAssumption ==
  /\ FailureThreshold \in Nat
  /\ CounterSize \in Nat
  /\ FailureThreshold < CounterSize
  /\ 1 < CounterSize
ASSUME TimeoutAssumption == RecoveryTimeout \in Nat
ASSUME ProbesAssumption == HalfOpenMaxProbes \in Nat
ASSUME CancelsAssumption == MaxCancels \in Nat

VARIABLES
  state,                 \* the breaker's CircuitState
  consecutive_failures,  \* the failure counter
  last_failure,          \* age of the last failure, saturating; Never if none
  pc,                    \* per caller: in the inner call, or its last result
  entered,               \* per caller in flight: the state it was admitted in
  upstream,              \* whether inner calls succeed, up or down
  cancels                \* futures dropped so far

vars == <<state, consecutive_failures, last_failure, pc, entered, upstream,
          cancels>>

-----------------------------------------------------------------------------

\* Only `elapsed >= recovery_timeout` is ever asked of last_failure, so its
\* age is kept up to RecoveryTimeout and stays there.
Never == RecoveryTimeout + 1
Age == 0..RecoveryTimeout

CircuitState == {"Closed", "Open", "HalfOpen"}

\* "idle": no call made yet; "inner": awaiting the inner client; the others
\* are what the last call returned (Ok, CircuitError::Open, ::Inner).
CallState == {"idle", "inner", "Ok", "Open", "Inner"}

InFlight == {c \in Callers : pc[c] = "inner"}

\* Some(t) => t.elapsed() >= recovery_timeout; None => Duration::MAX.
WindowElapsed == last_failure >= RecoveryTimeout

Init ==
  /\ state = "Closed"
  /\ consecutive_failures = 0
  /\ last_failure = Never
  /\ pc = [c \in Callers |-> "idle"]
  /\ entered = [c \in Callers |-> "none"]
  /\ upstream = "up"
  /\ cancels = 0

-----------------------------------------------------------------------------
(* Step 1 of call: check the state.                                        *)

\* Delegate to the inner client, remembering the state that let c through.
Admit(c, s) ==
  /\ pc' = [pc EXCEPT ![c] = "inner"]
  /\ entered' = [entered EXCEPT ![c] = s]

\* Not Open: the call goes through, in HalfOpen as in Closed.
PassThrough(c) ==
  /\ pc[c] # "inner"
  /\ state # "Open"
  /\ Admit(c, state)
  /\ UNCHANGED <<state, consecutive_failures, last_failure, upstream, cancels>>

\* Mutant of Probe: the window is not looked at.
ProbeAnytime(c) ==
  /\ pc[c] # "inner"
  /\ state = "Open"
  /\ state' = "HalfOpen"
  /\ Admit(c, "HalfOpen")
  /\ UNCHANGED <<consecutive_failures, last_failure, upstream, cancels>>

\* Open and the recovery window is over: HalfOpen, and the call is a probe.
Probe(c) ==
  /\ pc[c] # "inner"
  /\ state = "Open"
  /\ WindowElapsed
  /\ state' = "HalfOpen"
  /\ Admit(c, "HalfOpen")
  /\ UNCHANGED <<consecutive_failures, last_failure, upstream, cancels>>

\* Mutant of ShortCircuit: a refused call counts as a failure.
ShortCircuitExtends(c) ==
  /\ pc[c] # "inner"
  /\ state = "Open"
  /\ ~WindowElapsed
  /\ pc' = [pc EXCEPT ![c] = "Open"]
  /\ last_failure' = 0
  /\ UNCHANGED <<state, consecutive_failures, entered, upstream, cancels>>

\* Open within the window: Err(CircuitError::Open), nothing else happens.
ShortCircuit(c) ==
  /\ pc[c] # "inner"
  /\ state = "Open"
  /\ ~WindowElapsed
  /\ pc' = [pc EXCEPT ![c] = "Open"]
  /\ UNCHANGED <<state, consecutive_failures, last_failure, entered, upstream,
                 cancels>>

Call(c) == PassThrough(c) \/ Probe(c) \/ ShortCircuit(c)

-----------------------------------------------------------------------------
(* Steps 2 and 3 of call: the inner client answers, the outcome is         *)
(* recorded.  The breaker does not look at which error it got, so a call   *)
(* fails whatever the reason, a missing API key or a 4xx included.         *)

Return(c, result) ==
  /\ pc' = [pc EXCEPT ![c] = result]
  /\ entered' = [entered EXCEPT ![c] = "none"]

\* Mutant of RecordSuccess: the counter is reset, the state forgotten.
RecordSuccessKeepsState(c) ==
  /\ pc[c] = "inner"
  /\ upstream = "up"
  /\ consecutive_failures' = 0
  /\ Return(c, "Ok")
  /\ UNCHANGED <<state, last_failure, upstream, cancels>>

RecordSuccess(c) ==
  /\ pc[c] = "inner"
  /\ upstream = "up"
  /\ consecutive_failures' = 0
  /\ state' = "Closed"
  /\ Return(c, "Ok")
  /\ UNCHANGED <<last_failure, upstream, cancels>>

\* Mutant of AfterFailure: an off-by-one.
AfterFailureOffByOne(n) ==
  IF state = "HalfOpen" \/ (state = "Closed" /\ n > FailureThreshold)
    THEN "Open" ELSE state

\* The state after a failure that brings the counter to n.
AfterFailure(n) ==
  IF state = "HalfOpen" \/ (state = "Closed" /\ n >= FailureThreshold)
    THEN "Open" ELSE state

\* record_failure, whatever the error: `*failures += 1` on a u32, which wraps
\* in a release build.
Failed(c) ==
  /\ pc[c] = "inner"
  /\ consecutive_failures' = (consecutive_failures + 1) % CounterSize
  /\ last_failure' = 0
  /\ state' = AfterFailure(consecutive_failures')
  /\ Return(c, "Inner")
  /\ UNCHANGED <<upstream, cancels>>

RecordFailure(c) == upstream = "down" /\ Failed(c)

\* The caller's future is dropped during the inner call (its HTTP client
\* went away): neither record_success nor record_failure runs.
Cancel(c) ==
  /\ pc[c] = "inner"
  /\ cancels < MaxCancels
  /\ cancels' = cancels + 1
  /\ Return(c, "idle")
  /\ UNCHANGED <<state, consecutive_failures, last_failure, upstream>>

-----------------------------------------------------------------------------
(* Environment: the clock and the endpoint.                                *)

Tick ==
  /\ last_failure < RecoveryTimeout
  /\ last_failure' = last_failure + 1
  /\ UNCHANGED <<state, consecutive_failures, pc, entered, upstream, cancels>>

UpstreamChange ==
  /\ upstream' = IF upstream = "up" THEN "down" ELSE "up"
  /\ UNCHANGED <<state, consecutive_failures, last_failure, pc, entered,
                 cancels>>

Next ==
  \/ \E c \in Callers :
       Call(c) \/ RecordSuccess(c) \/ RecordFailure(c) \/ Cancel(c)
  \/ Tick
  \/ UpstreamChange

Spec == Init /\ [][Next]_vars

\* The clock advances and an inner call always answers: the HTTP client has a
\* timeout.  That callers keep coming is an assumption on the service's users;
\* the breaker has no timer and only moves when it is called.
Fairness ==
  /\ WF_vars(Tick)
  /\ \A c \in Callers : /\ WF_vars(Call(c))
                        /\ WF_vars(RecordSuccess(c) \/ RecordFailure(c))

FairSpec == Spec /\ Fairness

-----------------------------------------------------------------------------
(* Invariants.                                                             *)

TypeOK ==
  /\ state \in CircuitState
  /\ consecutive_failures \in 0..(CounterSize - 1)
  /\ last_failure \in Age \cup {Never}
  /\ pc \in [Callers -> CallState]
  /\ entered \in [Callers -> {"none", "Closed", "HalfOpen"}]
  /\ upstream \in {"up", "down"}
  /\ cancels \in 0..MaxCancels

\* A breaker that still lets everything through has not yet seen the number
\* of consecutive failures that trips it, whatever order the concurrent calls
\* recorded their outcomes in (circuit_breaker.rs:136-163).
ClosedBelowThreshold ==
  state = "Closed" =>
    \/ consecutive_failures < FailureThreshold
    \/ consecutive_failures = 0

\* A tripped breaker knows when it failed: the `unwrap_or(Duration::MAX)` of
\* circuit_breaker.rs:111, which would end the window at once, is never taken.
TrippedHasFailure == state # "Closed" => last_failure # Never

\* HalfOpen holds only while no failure is younger than the recovery window:
\* a failure recorded in HalfOpen by any call, the probe or one that was
\* admitted long before, ends it (circuit_breaker.rs:156-158).
HalfOpenIsQuiet == state = "HalfOpen" => WindowElapsed

\* The three fields, each behind a lock of its own, tell one story.
FieldsAgree == ClosedBelowThreshold /\ TrippedHasFailure /\ HalfOpenIsQuiet

-----------------------------------------------------------------------------
(* Action properties.                                                      *)

\* While the breaker is not Closed and a failure is younger than the window,
\* no call reaches the endpoint: the calls in flight can only finish.  "inner
\* must not be called while open" (circuit_breaker.rs:244, 283-287), for
\* concurrent callers.
QuietWindow ==
  [][state # "Closed" /\ ~WindowElapsed => InFlight' \subseteq InFlight]_vars

-----------------------------------------------------------------------------
(* Refinement: the breaker keeps the promise of RestingEndpoint.           *)

Resting == state # "Closed" /\ ~WindowElapsed

Endpoint == INSTANCE RestingEndpoint
  WITH resting <- Resting, inflight <- InFlight

\* Every step of the breaker is a step of RestingEndpoint or leaves it alone:
\* calls start only while the endpoint does not rest, and a rest begins or is
\* cut short only by the outcome of a call (circuit_breaker.rs:100-164).
KeepsPromise == Endpoint!Spec

-----------------------------------------------------------------------------
(* Liveness, under FairSpec.                                               *)

\* The rest of the endpoint always ends, with or without new callers: refused
\* calls do not extend it, and the late failures that do are finitely many.
RestEnds == Endpoint!FairSpec

\* Once the endpoint works for good, the breaker closes and stays closed.
Recovers == <>[](upstream = "up") => <>[](state = "Closed")

-----------------------------------------------------------------------------
(* A statement of the module's documentation that the code does not keep.  *)

Probes == {c \in InFlight : entered[c] = "HalfOpen"}

\* "Probe state: a single call is allowed through to test recovery" and "Max
\* concurrent probes in HalfOpen (we use 1 for now)" (circuit_breaker.rs:29,
\* 40): half_open_max_probes is never read.
ProbesBounded ==
  state = "HalfOpen" => Cardinality(Probes) <= HalfOpenMaxProbes

=============================================================================
