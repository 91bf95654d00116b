------------------------------- MODULE Lens -------------------------------
(***************************************************************************)
(* Aegis Lens (crates/argus-lens/src/lib.rs): the digest of a week of      *)
(* pull requests, and the mock pull requests both commands seed it with    *)
(* (crates/argus-lens/src/main.rs, crates/apohara-argus-cli/src/main.rs).  *)
(* Pure operators; a risk is in hundredths.                                *)
(***************************************************************************)
EXTENDS Integers, Sequences, FiniteSets, Functions

\* The n pull requests of --mock-prs: the k-th, counted from 1, has an author
\* of its own, a risk that turns round at 0.8, and only the first a critical
\* finding.
MockPRs(n) ==
  [k \in 1..n |-> [author |-> k, risk |-> 20 + ((15 * (k - 1)) % 80),
                   critical_findings |-> IF k = 1 THEN 1 ELSE 0]]

\* The risks of the pull requests at the places in own.
RiskSum(prs, own) ==
  LET sum[k \in 0..Len(prs)] ==
        IF k = 0 THEN 0 ELSE sum[k - 1] + (IF k \in own THEN prs[k].risk ELSE 0)
  IN  sum[Len(prs)]

TeamSummary(prs, team) ==
  LET own == {k \in DOMAIN prs : prs[k].author = team} IN
  [pr_count |-> Cardinality(own), risk_sum |-> RiskSum(prs, own),
   high_risk_count |-> Cardinality({k \in own : prs[k].risk >= 70})]

\* The first five at 0.5 or above, in the order they came.
Offenders(prs) ==
  LET top[k \in 0..Len(prs)] ==
        IF k = 0 THEN <<>>
        ELSE IF prs[k].risk >= 50 /\ Len(top[k - 1]) < 5 THEN Append(top[k - 1], prs[k])
        ELSE top[k - 1]
  IN  top[Len(prs)]

\* LensRunner::aggregate; the averages are these sums over these counts, and
\* a team is its author.
Aggregate(prs) ==
  [prs_analyzed |-> Len(prs),
   risk_sum |-> RiskSum(prs, DOMAIN prs),
   critical_findings |-> Cardinality({k \in DOMAIN prs : prs[k].critical_findings > 0}),
   top_offenders |-> Offenders(prs),
   by_team |-> [team \in {prs[k].author : k \in DOMAIN prs} |-> TeamSummary(prs, team)]]

-----------------------------------------------------------------------------
(* What makes a digest of prs, whose authors are at most Len(prs), true.   *)

\* What the teams up to last have together.
Together(has, last) ==
  LET sum[t \in 0..last] ==
        IF t = 0 THEN 0 ELSE sum[t - 1] + (IF t \in DOMAIN has THEN has[t] ELSE 0)
  IN  sum[last]

DigestIsTrue(digest, prs) ==
  LET teams == DOMAIN digest.by_team IN
  /\ digest.prs_analyzed = Len(prs)
  /\ Together([t \in teams |-> digest.by_team[t].pr_count], Len(prs)) = Len(prs)
  /\ Together([t \in teams |-> digest.by_team[t].risk_sum], Len(prs)) = digest.risk_sum
  /\ \A k \in DOMAIN prs :
       prs[k] \in Range(digest.top_offenders) <=>
         /\ prs[k].risk >= 50
         /\ Cardinality({j \in 1..(k - 1) : prs[j].risk >= 50}) < 5

=============================================================================
