----------------------------- MODULE Specialists -----------------------------
(***************************************************************************)
(* The specialists of ARGUS as four places describe them: the specs and    *)
(* the Cordon Principle of crates/argus-agent, the embedded prompts and    *)
(* their loader (crates/apohara-argus-core), and the A2A card that argus-  *)
(* verify serves.  Temperatures are in hundredths.                         *)
(***************************************************************************)
EXTENDS Naturals, FiniteSets, Sequences, SequencesExt

CONSTANTS
  JsonValues,  \* JSON values, with what is nested in them
  JsonDepth    \* how deep they are nested at most; 128 to serde_json

AgentRole == {"aegis-scope", "aegis-security", "aegis-slop", "aegis-arch",
              "aegis-verdict", "aegis-lens"}

PromptName == {"slop-detector", "redteam-security", "architecture-fit",
               "verdict-synthesizer"}
NoPrompt == ""
Unlimited == 200  \* no MaxTemperature: above every temperature

\* An AgentSpec; max_temperature is the argument of its MaxTemperature.
AgentSpec == [prompt_name : PromptName \cup {NoPrompt},
              context_required : {"DiffOnly", "DiffPlusRepoSample",
                                  "OtherAgentsOutputs"},
              constraints : SUBSET {"NoRawCode", "MustProduceJson",
                                    "NoMergeDecisions"},
              max_temperature : Nat, default_temperature : Nat,
              default_max_tokens : Nat]

aegis_slop_spec ==
  [prompt_name |-> "slop-detector", context_required |-> "DiffOnly",
   constraints |-> {"MustProduceJson"}, max_temperature |-> 10,
   default_temperature |-> 10, default_max_tokens |-> 1024]

aegis_security_spec ==
  [prompt_name |-> "redteam-security", context_required |-> "DiffOnly",
   constraints |-> {"MustProduceJson"}, max_temperature |-> 0,
   default_temperature |-> 0, default_max_tokens |-> 1536]

\* Mutant of aegis_arch_spec: the number of tokens of its neighbour.
aegis_arch_spec_copied == [aegis_slop_spec EXCEPT
  !.prompt_name = "architecture-fit", !.context_required = "DiffPlusRepoSample",
  !.max_temperature = 20, !.default_temperature = 20]

aegis_arch_spec ==
  [prompt_name |-> "architecture-fit", context_required |-> "DiffPlusRepoSample",
   constraints |-> {"MustProduceJson"}, max_temperature |-> 20,
   default_temperature |-> 20, default_max_tokens |-> 1280]

aegis_verdict_spec ==
  [prompt_name |-> "verdict-synthesizer", context_required |-> "OtherAgentsOutputs",
   constraints |-> {"NoRawCode", "NoMergeDecisions"}, max_temperature |-> 30,
   default_temperature |-> 30, default_max_tokens |-> 1024]

aegis_orchestrator_spec ==
  [prompt_name |-> NoPrompt, context_required |-> "DiffOnly",
   constraints |-> {"NoMergeDecisions"}, max_temperature |-> Unlimited,
   default_temperature |-> 0, default_max_tokens |-> 0]

\* AgentSpec::canonical.
SpecOf == [role \in AgentRole |->
  CASE role = "aegis-slop" -> aegis_slop_spec
    [] role = "aegis-security" -> aegis_security_spec
    [] role = "aegis-arch" -> aegis_arch_spec
    [] role = "aegis-verdict" -> aegis_verdict_spec
    [] OTHER -> aegis_orchestrator_spec]

is_cordon_enforced(spec) == "NoRawCode" \in spec.constraints

\* Orchestrator::canonical.
specialists == <<"aegis-slop", "aegis-security", "aegis-arch", "aegis-verdict">>

find_specialist(role) == role \in ToSet(specialists)

-----------------------------------------------------------------------------
(* The Cordon Principle.                                                   *)

routing_plan_for_pr_review == specialists
routing_plan_for_weekly_digest == <<"aegis-lens">>

\* Mutant of validate_routing_plan_safety: the last role is looked at.
validate_last(plan) ==
  \A i \in DOMAIN plan :
    find_specialist(plan[i]) =>
      ~(is_cordon_enforced(SpecOf[plan[i]]) /\ i = Len(plan))

\* FALSE is Err(InvalidSpec).
validate_routing_plan_safety(plan) ==
  \A i \in DOMAIN plan :
    find_specialist(plan[i]) =>
      ~(is_cordon_enforced(SpecOf[plan[i]]) /\ i = 1)

verify_safe_to_synthesize(context) == context = "OtherAgentsOutputs"

\* What the scan asks of a string: a line that begins with "+ " or "- ", and a
\* line feed.
Text == [marked : BOOLEAN, linefeed : BOOLEAN]
LooksLikeDiff(s) == s.marked /\ s.linefeed

\* Keys with "raw" and "code" in them, and raw_diff.
RawKeys == {"raw_code", "raw_diff"}

\* A JSON value: its text, if it is a string, and what an array (under the key
\* "") or an object holds.
ASSUME JsonAssumption ==
  /\ JsonDepth \in Nat
  /\ \A value \in JsonValues : \A part \in value.parts : part.value \in JsonValues

NoText == [marked |-> FALSE, linefeed |-> FALSE]
Leaf(s) == [text |-> s, parts |-> {}]
Node(parts) == [text |-> NoText, parts |-> parts]

\* Mutant of scan_for_raw_code: what is nested is not walked.
scan_shallow(value) ==
  \/ LooksLikeDiff(value.text)
  \/ \E part \in value.parts :
       part.key \in RawKeys \/ LooksLikeDiff(part.value.text)

\* TRUE is Err(RawCodeLeak).  The calls for values that hold no value make up
\* raw[0], those for values that hold such values raw[1], and so on.
scan_for_raw_code(value) ==
  LET raw[n \in 0..JsonDepth] ==
        {v \in JsonValues :
           \/ LooksLikeDiff(v.text)
           \/ \E part \in v.parts :
                part.key \in RawKeys \/ (n > 0 /\ part.value \in raw[n - 1])}
  IN  value \in raw[JsonDepth]

-----------------------------------------------------------------------------
(* The prompts.                                                            *)

\* A line of a prompt file: a fence (---), empty, or of its metadata or text.
LineKind == {"fence", "empty", "metadata", "text"}

\* The first line that is not empty, from line i on.
SkipEmpty(lines, i) ==
  CHOOSE k \in i..(Len(lines) + 1) :
    /\ \A j \in i..(k - 1) : lines[j] = "empty"
    /\ k <= Len(lines) => lines[k] # "empty"

Bad == [ok |-> FALSE, yaml |-> <<>>, body |-> <<>>]

\* Where a fence may close: not on the line the metadata begins with.
Closers(lines) ==
  {j \in (SkipEmpty(lines, 2) + 1)..Len(lines) : lines[j] = "fence"}

Parsed(lines, j) ==
  [ok |-> TRUE, yaml |-> SubSeq(lines, SkipEmpty(lines, 2), j - 1),
   body |-> SubSeq(lines, SkipEmpty(lines, j + 1), Len(lines))]

\* parse_prompt, without what the YAML parser makes of the metadata.
parse_prompt(lines) ==
  IF lines = <<>> \/ lines[1] # "fence" \/ Closers(lines) = {} THEN Bad
  ELSE Parsed(lines, Min(Closers(lines)))

\* An embedded file (prompts/*.md): the metadata it begins with, and its text.
EmbeddedFile == <<"fence", "metadata", "fence", "empty", "text", "empty", "text">>

\* What the metadata of the four files say.
SlopPrompt == [temperature |-> 10, max_tokens |-> 1024]
SecurityPrompt == [temperature |-> 0, max_tokens |-> 1536]
ArchPrompt == [temperature |-> 20, max_tokens |-> 1280]
VerdictPrompt == [temperature |-> 30, max_tokens |-> 1024]

Embedded ==
  [name \in PromptName |->
    CASE name = "slop-detector" -> SlopPrompt
      [] name = "redteam-security" -> SecurityPrompt
      [] name = "architecture-fit" -> ArchPrompt
      [] name = "verdict-synthesizer" -> VerdictPrompt]

\* PromptLibrary::load_embedded, by the name in the metadata: all or nothing.
load_embedded ==
  IF parse_prompt(EmbeddedFile).ok /\ parse_prompt(EmbeddedFile).yaml = <<"metadata">>
    THEN Embedded ELSE <<>>

-----------------------------------------------------------------------------
(* The A2A card.                                                           *)

\* build_agent_card: its skills, by the roles they are named for.
CardSkills == {"aegis-slop", "aegis-security", "aegis-arch", "aegis-verdict",
               "aegis-lens"}

=============================================================================
