----------------------------- MODULE MCHashChain -----------------------------
(* Instances of Ledgers for TLC.                                           *)
EXTENDS Ledgers, TLC

AnyEntry == Permutations(Entries)

\* What append makes of payloads.
Chained(payloads) ==
  [i \in DOMAIN payloads |-> append(SubSeq(payloads, 1, i - 1), payloads[i])]

\* Of any payloads: honest beginnings, rewritten ends, chains made up from the
\* genesis hash on.
Chains == {Chained(payloads) : payloads \in UNION {[1..n -> Entries] : n \in 0..3}}

\* One field of one entry altered.
Altered(s) ==
  UNION {{[s EXCEPT ![i].payload = e], [s EXCEPT ![i].hash = <<e>>],
          [s EXCEPT ![i].hash = Append(s[i].prev_hash, e)],
          [s EXCEPT ![i].prev_hash = <<e>>]} : i \in DOMAIN s, e \in Entries}

\* An entry taken out, or moved to the place before.
Shifted(s) ==
  {RemoveAt(s, i) : i \in DOMAIN s} \cup
  {[s EXCEPT ![i] = s[i - 1], ![i - 1] = s[i]] : i \in 2..Len(s)}

SomeStories ==
  LET Honest == {Chained(payloads) : payloads \in UNION {SetToSeqs(S) : S \in kSubset(3, Entries)}}
  IN  Chains \cup UNION {Altered(s) \cup Shifted(s) : s \in Honest}

\* Hashes as they are, and as if only their first payload showed, or none.
SomeShortenings ==
  LET Hashes == UNION {[1..n -> Entries] : n \in 0..Cardinality(Entries)}
  IN  {[h \in Hashes |-> SubSeq(h, 1, IF k < Len(h) THEN k ELSE Len(h))] : k \in {0, 1, Cardinality(Entries)}}

\* The orchestrator's own two plans, and others with a synthesizer, also one
\* that follows somebody who is no specialist.
ShortPlans ==
  {routing_plan_for_pr_review, routing_plan_for_weekly_digest} \cup
  {<<"aegis-verdict">>, <<"aegis-scope", "aegis-verdict">>,
   <<"aegis-verdict", "aegis-slop">>, <<"aegis-arch", "aegis-verdict">>}

\* A clean report and an empty one; a diff alone, in a list, in a field of a
\* report and in a field of one of its findings; a field for one; and code
\* quoted on a single line.
SomeReports ==
  LET Diff == Leaf([marked |-> TRUE, linefeed |-> TRUE])
      Line == Leaf([marked |-> TRUE, linefeed |-> FALSE])
      Prose == Leaf([marked |-> FALSE, linefeed |-> TRUE])
      In(key, value) == Node({[key |-> key, value |-> value]})
  IN  {Node({}), In("summary", Prose), In("quote", Line), Diff, In("", Diff),
       In("summary", Diff), In("findings", In("", In("quote", Diff))),
       In("findings", In("", In("raw_diff", Line)))}

\* They and what is nested in them.
SomeValues ==
  LET Inside(values) == {part.value : part \in UNION {v.parts : v \in values}}
  IN  SomeReports \cup Inside(SomeReports) \cup Inside(Inside(SomeReports))
        \cup Inside(Inside(Inside(SomeReports)))

=============================================================================
