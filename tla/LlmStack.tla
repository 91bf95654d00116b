------------------------------- MODULE LlmStack -------------------------------
(***************************************************************************)
(* A call of the model through all of its decorators (crates/argus-llm):   *)
(* RetryClient around NimClient, which signs a receipt for every answer    *)
(* and holds the LlmCircuitBreaker (with_circuit_breaker) around the       *)
(* OpenAICompatClient that does the HTTP request.                          *)
(*                                                                         *)
(* Each caller makes one call.  The breaker's part of a step is an action  *)
(* of CircuitBreaker; its `upstream' is down while requests are answered   *)
(* by anything but a completion.                                           *)
(***************************************************************************)
EXTENDS CircuitBreaker

CONSTANTS
  Keyless,         \* the callers whose API key is empty
  MaxRetries,      \* config.max_retries: attempts after the first
  InitialBackoff,  \* config.initial_backoff, in clock ticks
  MaxBackoff,      \* config.max_backoff, in clock ticks
  Jitter,          \* config.jitter
  ShiftBits,       \* width of the shifted 1 and cap of the exponent, 32
  Genesis,         \* the zero hash the receipts start from
  None             \* no receipt

ASSUME CallersAssumption == IsFiniteSet(Callers) /\ Keyless \subseteq Callers
ASSUME RetryAssumption ==
  /\ MaxRetries \in Nat /\ InitialBackoff \in Nat /\ MaxBackoff \in Nat
  /\ Jitter \in BOOLEAN
  /\ ShiftBits \in Nat \ {0}
ASSUME ReceiptAssumption ==
  None # Genesis /\ None \notin Callers /\ Genesis \notin Callers

VARIABLES
  stage,    \* per caller: where its call is
  attempt,  \* per caller: the loop variable of RetryClient::complete
  wait,     \* per caller: what is left of its backoff, in ticks
  answer,   \* per caller: what its call returned
  prev,     \* NimClient.prev_hash: the last receipt, as its hash
  read,     \* per caller: the prev_hash it read
  receipt,  \* per caller: the prev_hash its receipt carries, None without one
  sent,     \* per caller: attempts the breaker let through, a history
  burst,    \* calls let through since the last answer or probe, a history
  met       \* per caller: who was signing while it was, a history

clientVars == <<stage, attempt, wait, answer>>
receiptVars == <<prev, read, receipt, met>>
historyVars == <<sent, burst>>
stackVars == <<vars, clientVars, receiptVars, historyVars>>

\* "ready": asleep or about to try; "trying": inside the breaker; "answered":
\* NimClient has the response; "signing": it has read prev_hash.
Stages == {"ready", "trying", "answered", "signing", "done"}

\* The variants of LlmError, Api by the class of its status.
Errors == {"RateLimited", "Timeout", "Http", "Api5xx", "Api4xx", "Parse",
           "MissingKey", "CircuitOpen"}
Answers == {"none", "Ok", "dropped"} \cup Errors

StackInit ==
  /\ Init
  /\ stage = [c \in Callers |-> "ready"]
  /\ attempt = [c \in Callers |-> 0]
  /\ wait = [c \in Callers |-> 0]
  /\ answer = [c \in Callers |-> "none"]
  /\ prev = Genesis
  /\ read = [c \in Callers |-> None]
  /\ receipt = [c \in Callers |-> None]
  /\ sent = [c \in Callers |-> 0]
  /\ burst = 0
  /\ met = [c \in Callers |-> {}]

-----------------------------------------------------------------------------
(* OpenAICompatClient: what becomes of a request.                          *)

\* What a body may be that is no completion: it stops coming, or takes longer
\* than the timeout; it is no ApiResponse; its list of choices is empty.
Bodies == {"cut", "garbage", "no choices"}

Outcomes == {"unreachable", "timeout", "429", "503", "500", "400"} \cup Bodies

\* An error status counts for itself, whether its body is an ApiError or not.
ErrorOf(outcome) ==
  CASE outcome = "unreachable" -> "Http"
    [] outcome = "timeout" -> "Timeout"
    [] outcome \in {"429", "503"} -> "RateLimited"
    [] outcome = "500" -> "Api5xx"
    [] outcome = "400" -> "Api4xx"
    [] outcome \in Bodies -> "Parse"

\* An empty key is refused before anything is sent.
Failures(c) ==
  IF c \in Keyless THEN {"MissingKey"}
  ELSE IF upstream = "down" THEN {ErrorOf(o) : o \in Outcomes}
  ELSE {}

-----------------------------------------------------------------------------
(* RetryClient.                                                            *)

IsRetryable(e) == e \in {"RateLimited", "Timeout", "Http", "Api5xx"}

Smaller(a, b) == IF a < b THEN a ELSE b

\* The doubled backoff, capped.  The exponent is capped at the width of the
\* shifted 1, where a release build shifts by nothing.
Window(n) ==
  LET doubled == InitialBackoff * 2^(Smaller(n, ShiftBits) % ShiftBits)
  IN  IF doubled \in 0..MaxBackoff THEN doubled ELSE MaxBackoff

\* backoff_for: the random range is half open.
Backoffs(n) ==
  IF Jitter /\ Window(n) > 0 THEN 0..(Window(n) - 1) ELSE {Window(n)}

\* The breaker lets an attempt of c through.
Admitted(c) ==
  /\ stage[c] = "ready" /\ wait[c] = 0
  /\ PassThrough(c) \/ Probe(c)
  /\ stage' = [stage EXCEPT ![c] = "trying"]
  /\ sent' = [sent EXCEPT ![c] = @ + 1]
  /\ burst' = IF state = "Open" THEN 1 ELSE burst + 1
  /\ UNCHANGED <<attempt, wait, answer, receiptVars>>

\* c's call returns r.
Done(c, r) ==
  /\ stage' = [stage EXCEPT ![c] = "done"]
  /\ answer' = [answer EXCEPT ![c] = r]

\* The breaker refuses it: CircuitOpen is not retryable.
Refused(c) ==
  /\ stage[c] = "ready" /\ wait[c] = 0
  /\ ShortCircuit(c)
  /\ Done(c, "CircuitOpen")
  /\ UNCHANGED <<attempt, wait, receiptVars, historyVars>>

\* Mutant of Retries: one attempt too few.
RetriesOnceLess(c, e) == IsRetryable(e) /\ attempt[c] + 1 < MaxRetries

\* There is another attempt after the error e.
Retries(c, e) == IsRetryable(e) /\ attempt[c] < MaxRetries

\* Mutant of GoOn: the attempt is not counted.
GoOnUncounted(c) ==
  /\ stage' = [stage EXCEPT ![c] = "ready"]
  /\ \E w \in Backoffs(attempt[c]) : wait' = [wait EXCEPT ![c] = w]
  /\ UNCHANGED <<attempt, answer>>

\* The backoff, and then the next round of the loop.
GoOn(c) ==
  /\ stage' = [stage EXCEPT ![c] = "ready"]
  /\ \E w \in Backoffs(attempt[c]) : wait' = [wait EXCEPT ![c] = w]
  /\ attempt' = [attempt EXCEPT ![c] = @ + 1]
  /\ UNCHANGED answer

\* An attempt fails: the breaker counts it, whatever the error, and the call
\* goes on or returns the error.
AttemptFails(c) ==
  /\ stage[c] = "trying"
  /\ \E e \in Failures(c) :
       \/ Retries(c, e) /\ GoOn(c)
       \/ ~Retries(c, e) /\ Done(c, e) /\ UNCHANGED <<attempt, wait>>
  /\ Failed(c)
  /\ UNCHANGED <<receiptVars, historyVars>>

\* The model answers; the breaker records it before NimClient has the answer.
AttemptSucceeds(c) ==
  /\ stage[c] = "trying" /\ c \notin Keyless
  /\ RecordSuccess(c)
  /\ stage' = [stage EXCEPT ![c] = "answered"]
  /\ burst' = 0
  /\ UNCHANGED <<attempt, wait, answer, receiptVars, sent>>

-----------------------------------------------------------------------------
(* NimClient: the receipt of an answer.  There is no await between the     *)
(* answer and the return, but callers may run on other threads.            *)

Signing == {c \in Callers : stage[c] = "signing"}

ReadPrev(c) ==
  /\ stage[c] = "answered"
  /\ stage' = [stage EXCEPT ![c] = "signing"]
  /\ read' = [read EXCEPT ![c] = prev]
  /\ met' = [d \in Callers |->
               IF d = c THEN Signing
               ELSE IF d \in Signing THEN met[d] \cup {c} ELSE met[d]]
  /\ UNCHANGED <<vars, attempt, wait, answer, prev, receipt, historyVars>>

\* Mutant of AdvancePrev: prev_hash is not advanced.
AdvancePrevForgotten(c) ==
  /\ stage[c] = "signing"
  /\ receipt' = [receipt EXCEPT ![c] = read[c]]
  /\ Done(c, "Ok")
  /\ UNCHANGED <<vars, attempt, wait, prev, read, met, historyVars>>

\* The receipt is signed over the hash that was read, and becomes the hash
\* that is read next; the answer is returned.
AdvancePrev(c) ==
  /\ stage[c] = "signing"
  /\ receipt' = [receipt EXCEPT ![c] = read[c]]
  /\ prev' = c
  /\ Done(c, "Ok")
  /\ UNCHANGED <<vars, attempt, wait, read, met, historyVars>>

-----------------------------------------------------------------------------
(* Environment.                                                            *)

\* The caller's future is dropped, during a request or between two.
DropTrying(c) ==
  /\ stage[c] = "trying"
  /\ Cancel(c)
  /\ Done(c, "dropped")
  /\ UNCHANGED <<attempt, wait, receiptVars, historyVars>>
DropWaiting(c) ==
  /\ stage[c] = "ready" /\ attempt[c] > 0
  /\ cancels < MaxCancels
  /\ cancels' = cancels + 1
  /\ Done(c, "dropped")
  /\ UNCHANGED <<state, consecutive_failures, last_failure, pc, entered,
                 upstream, attempt, wait, receiptVars, historyVars>>

\* A tick of the clock that somebody waits for.
Elapse ==
  /\ \/ Tick
     \/ /\ \E c \in Callers : stage[c] = "ready" /\ wait[c] > 0
        /\ last_failure >= RecoveryTimeout
        /\ UNCHANGED vars
  /\ wait' = [c \in Callers |->
                IF stage[c] = "ready" /\ wait[c] > 0 THEN wait[c] - 1
                ELSE wait[c]]
  /\ UNCHANGED <<stage, attempt, answer, receiptVars, historyVars>>

EndpointChanges ==
  UpstreamChange /\ UNCHANGED <<clientVars, receiptVars, historyVars>>

StackNext ==
  \/ \E c \in Callers :
       \/ Admitted(c) \/ Refused(c) \/ AttemptFails(c) \/ AttemptSucceeds(c)
       \/ ReadPrev(c) \/ AdvancePrev(c) \/ DropTrying(c) \/ DropWaiting(c)
  \/ Elapse
  \/ EndpointChanges

StackSpec == StackInit /\ [][StackNext]_stackVars

\* The clock advances, a request is answered within the client's timeout of
\* 120 s, and a task that can go on does.  Nobody has to begin a call.
StackFairness ==
  /\ WF_stackVars(Elapse)
  /\ \A c \in Callers :
       /\ WF_stackVars(attempt[c] > 0 /\ (Admitted(c) \/ Refused(c)))
       /\ WF_stackVars(AttemptFails(c) \/ AttemptSucceeds(c))
       /\ WF_stackVars(ReadPrev(c) \/ AdvancePrev(c))

FairStackSpec == StackSpec /\ StackFairness

-----------------------------------------------------------------------------
(* Properties.                                                             *)

StackTypeOK ==
  /\ TypeOK
  /\ stage \in [Callers -> Stages]
  /\ attempt \in [Callers -> 0..MaxRetries]
  /\ wait \in [Callers -> 0..MaxBackoff]
  /\ answer \in [Callers -> Answers]
  /\ prev \in Callers \cup {Genesis}
  /\ read \in [Callers -> Callers \cup {Genesis, None}]
  /\ receipt \in [Callers -> Callers \cup {Genesis, None}]
  /\ sent \in [Callers -> 0..(MaxRetries + 1)]
  /\ burst \in Nat
  /\ met \in [Callers -> SUBSET Callers]

\* What a call returns tells what it did: a transient error only after the
\* whole budget of attempts, a refusal only with a part of it spent, and an
\* answer is the only thing a receipt was signed for (retry.rs:99-116,
\* nim.rs:199-240).
OutcomeExplained ==
  \A c \in Callers : stage[c] = "done" =>
    /\ IsRetryable(answer[c]) => sent[c] = MaxRetries + 1
    /\ answer[c] = "CircuitOpen" => sent[c] <= MaxRetries
    /\ answer[c] \notin {"CircuitOpen", "dropped"} => sent[c] > 0
    /\ answer[c] = "Ok" <=> receipt[c] # None

\* "no retry storms on NIM outage" (README.md:344): however many callers
\* retry, an endpoint that does not answer gets no more calls than trip the
\* breaker and those that were under way by then, in the first window and
\* after each probe; a dropped call is one the breaker does not count.
StormBounded ==
  burst <= (IF FailureThreshold = 0 THEN 0 ELSE FailureThreshold - 1)
             + Cardinality(Callers) + cancels

\* Two receipts claim one predecessor only if they were being signed at the
\* same time (nim.rs:218-240, two critical sections on prev_hash).
ReceiptsForkInOverlap ==
  \A c, d \in Callers :
    c # d /\ receipt[c] # None /\ receipt[c] = receipt[d] => d \in met[c]

\* A call that was begun ends, whatever the endpoint and the breaker do
\* (retry.rs:100: the loop is bounded, and so is every wait in it).
CallEnds ==
  \A c \in Callers :
    stage[c] # "ready" \/ attempt[c] > 0 ~> stage[c] = "done"

=============================================================================
