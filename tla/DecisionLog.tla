----------------------------- MODULE DecisionLog -----------------------------
(***************************************************************************)
(* The orchestrator of crates/argus-agent/src/lib.rs and its decision log, *)
(* beside the audit chain of module HashChain: another chain, with its own *)
(* idea of what an entry's hash is made of, shown to implement a chain.    *)
(*                                                                         *)
(* No program of the repository has an orchestrator.  Its host here works  *)
(* as the crate is meant to be used: it has a plan validated, routes to    *)
(* one role after the other, has the reports scanned before a synthesizer  *)
(* gets them, and appends to the log as it likes.                          *)
(***************************************************************************)
EXTENDS Specialists

CONSTANTS
  Plans,      \* routing plans a host may come up with
  Documents,  \* what the agents before a synthesizer may have reported
  MaxLog      \* bound: entries of the log

ASSUME MaxLogAssumption == MaxLog \in Nat
ASSUME PlansAssumption == Plans \subseteq Seq(AgentRole)
ASSUME DocumentsAssumption == Documents \subseteq JsonValues

VARIABLES
  log,       \* DecisionLog.entries
  plan,      \* the plan under way
  routed,    \* how many of its roles have been routed to
  delivered  \* what synthesizers were given

reviewVars == <<plan, routed, delivered>>
hostVars == <<log, reviewVars>>

NoHash == <<>>  \* the prev_hash of the first entry

\* Mutant of EntryHash: the hash of the entry before is left out.
EntryHashAlone(prev_hash, input, output) == <<NoHash, input, output>>

\* BLAKE3 of prev_hash, input, "|" and output: not of the agent, the kind, the
\* reasoning or the time.
EntryHash(prev_hash, input, output) == <<prev_hash, input, output>>

\* DecisionLog::append, onto the hash of the last entry.
AppendEntry(spiffe_id, decision_type, input, output) ==
  LET prev_hash == IF log = <<>> THEN NoHash ELSE Last(log).entry_hash IN
  log' = Append(log, [spiffe_id |-> spiffe_id, decision_type |-> decision_type,
                      input |-> input, output |-> output,
                      prev_hash |-> prev_hash,
                      entry_hash |-> EntryHash(prev_hash, input, output)])

SpiffeId(role) == IF find_specialist(role) THEN role ELSE "unknown"

record_routing(role) ==
  AppendEntry(SpiffeId(role), "TaskRouted", "review", "routed to " \o role)

record_cordon_block(role) ==
  AppendEntry(SpiffeId(role), "CordonViolationBlocked",
              "attempted to pass raw code to synthesizer",
              "blocked by CordonEnforcer")

\* A plan that passes is begun; one that does not changes nothing.
Validate(p) ==
  /\ routed = Len(plan) /\ Len(log) < MaxLog
  /\ validate_routing_plan_safety(p)
  /\ plan' = p /\ routed' = 0
  /\ UNCHANGED <<log, delivered>>

Role == plan[routed + 1]

Advance(n) == routed' = n /\ UNCHANGED plan

\* A role that may see code.
Route ==
  /\ routed < Len(plan) /\ Len(log) < MaxLog
  /\ ~is_cordon_enforced(SpecOf[Role])
  /\ record_routing(Role)
  /\ Advance(routed + 1)
  /\ UNCHANGED delivered

\* A role under the Cordon Principle gets what passes the scan, or the attempt
\* is recorded and ends the review.
Synthesize(doc) ==
  /\ routed < Len(plan) /\ Len(log) < MaxLog
  /\ is_cordon_enforced(SpecOf[Role])
  /\ verify_safe_to_synthesize(SpecOf[Role].context_required)
  /\ IF scan_for_raw_code(doc)
       THEN /\ record_cordon_block(Role)
            /\ Advance(Len(plan))
            /\ UNCHANGED delivered
       ELSE /\ record_routing(Role)
            /\ Advance(routed + 1)
            /\ delivered' = delivered \cup {[doc |-> doc, after |-> routed]}

\* The log is public: a host appends for itself.
HostAppends ==
  /\ Len(log) < MaxLog
  /\ AppendEntry("host", "DefensiveHalt", "review", "halted")
  /\ UNCHANGED reviewVars

HostNext ==
  \/ \E p \in Plans : Validate(p)
  \/ Route
  \/ \E doc \in Documents : Synthesize(doc)
  \/ HostAppends

HostInit == log = <<>> /\ plan = <<>> /\ routed = 0 /\ delivered = {}

-----------------------------------------------------------------------------
(* Properties.                                                             *)

Places == 1..MaxLog

\* The place of the entry with that hash.
PlaceOf(hash) ==
  IF hash = NoHash THEN 0
  ELSE CHOOSE i \in DOMAIN log : log[i].entry_hash = hash

\* The place each entry is linked to.
Links == [i \in Places |-> IF i > Len(log) THEN MaxLog + 1
                           ELSE PlaceOf(log[i].prev_hash)]

Log == INSTANCE HashChain
  WITH Entries <- Places, Genesis <- 0, None <- MaxLog + 1,
       head <- Len(log), link <- Links

\* The log is the hash chain it claims to be, "maintains a simple BLAKE3 hash
\* chain" (lib.rs:273): a hash tells which entry came before, although most of
\* an entry is not hashed and the entries of blocked attempts read the same.
ImplementsHashChain == Log!Spec

\* The descriptions of an agent agree: whoever a task was routed to has, if it
\* has one, a prompt that is run with the temperature and the number of tokens
\* of its spec, within its own limit; it is offered by the A2A card; and it is
\* under the Cordon Principle in its constraints just when the enforcer lets
\* its context pass (lib.rs:103-235, 358-369; prompts/*.md; argus-verify/src/
\* routes.rs:149-195).
SpecialistsAgree ==
  \A i \in DOMAIN log : log[i].spiffe_id \in AgentRole =>
    LET spec == SpecOf[log[i].spiffe_id]
        prompt == load_embedded[spec.prompt_name]
    IN  /\ spec \in AgentSpec
        /\ spec.prompt_name \in DOMAIN load_embedded
        /\ spec.default_temperature = prompt.temperature
        /\ spec.default_max_tokens = prompt.max_tokens
        /\ spec.default_temperature <= spec.max_temperature
        /\ log[i].spiffe_id \in CardSkills
        /\ is_cordon_enforced(spec) <=>
             verify_safe_to_synthesize(spec.context_required)

\* What is nested in a value, level by level.
Level(value, n) ==
  LET level[i \in 0..n] ==
        IF i = 0 THEN value.parts ELSE UNION {part.value.parts : part \in level[i - 1]}
  IN  level[n]
Nested(value) == UNION {Level(value, n) : n \in 0..(JsonDepth - 1)}

\* "a synthesizer agent must NEVER receive raw code" (lib.rs:347-349): it is
\* never the first of a review, and gets no document that has a diff in it or
\* a field for one, at whatever depth.
CordonHolds ==
  \A d \in delivered :
    /\ d.after > 0
    /\ ~LooksLikeDiff(d.doc.text)
    /\ \A part \in Nested(d.doc) :
         part.key \notin RawKeys /\ ~LooksLikeDiff(part.value.text)

=============================================================================
