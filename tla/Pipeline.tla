------------------------------ MODULE Pipeline ------------------------------
(***************************************************************************)
(* AnalysisPipeline::run (crates/argus-slop/src/pipeline.rs): three        *)
(* analyzers at once, any of which may fail, and one verdict; and what     *)
(* Aegis Guard, the pre-commit hook, decides from it (crates/argus-guard/  *)
(* src/lib.rs).                                                            *)
(*                                                                         *)
(* Scores are multiples of 1/20 and risks multiples of 1/100, written as   *)
(* integers.  An analyzer's score is what the model answered, taken as it  *)
(* is: nothing keeps it between 0 and 1.                                   *)
(***************************************************************************)
EXTENDS Integers

CONSTANTS
  Scores,         \* scores the slop and the architecture analyzer may give
  FindingCounts,  \* how many security findings there may be
  None            \* no report: the analyzer failed

ASSUME ScoresAssumption == Scores \subseteq Int /\ FindingCounts \subseteq Nat
ASSUME NoneAssumption == None \notin Int

Severities == {"None", "Info", "Low", "Medium", "High", "Critical"}
SecurityReports == [highest_severity : Severities, findings : FindingCounts]

ASSUME ReportAssumption == None \notin SecurityReports

VARIABLES
  pending,   \* analyzers still running
  slop,      \* the slop score, or None
  security,  \* the security report, or None
  arch,      \* the architecture fit, 0 perfect, or None
  verdict,   \* status and risk of the verdict; status "none" before
  decision   \* what the guard decided; "none" before

vars == <<pending, slop, security, arch, verdict, decision>>

Analyzers == {"slop", "security", "arch"}

Init ==
  /\ pending = Analyzers
  /\ slop = None /\ security = None /\ arch = None
  /\ verdict = [status |-> "none", risk |-> 0]
  /\ decision = "none"

\* VerdictStatus, and of a Verdict what is decided from it.
Statuses == {"Approved", "ReviewRequired", "Halted"}
Verdicts == [status : Statuses, risk : 0..100]

-----------------------------------------------------------------------------

\* Analyzer::run: the prompt, the answer of the model and its parsing give a
\* report, or one of them fails.
RunsTo(reports) == reports \cup {None}

\* An analyzer ends.
SlopEnds ==
  /\ "slop" \in pending
  /\ slop' \in RunsTo(Scores)
  /\ pending' = pending \ {"slop"}
  /\ UNCHANGED <<security, arch, verdict, decision>>

SecurityEnds ==
  /\ "security" \in pending
  /\ security' \in RunsTo(SecurityReports)
  /\ pending' = pending \ {"security"}
  /\ UNCHANGED <<slop, arch, verdict, decision>>

ArchEnds ==
  /\ "arch" \in pending
  /\ arch' \in RunsTo(Scores)
  /\ pending' = pending \ {"arch"}
  /\ UNCHANGED <<slop, security, verdict, decision>>

-----------------------------------------------------------------------------

Least(a, b) == IF a < b THEN a ELSE b
Clamp(x) == IF x < 0 THEN 0 ELSE IF x > 100 THEN 100 ELSE x

\* Mutants of Status: a score far beyond is taken for an error; approval is
\* the answer when nothing halts.
StatusInRange(s, sec, a) ==
  IF \/ sec.highest_severity \in {"Critical", "High"}
     \/ s > 14 /\ a > 10
     \/ s > 17 /\ s <= 20
     \/ a > 14
    THEN "Halted"
  ELSE IF s > 10 \/ a > 10 THEN "ReviewRequired" ELSE "Approved"
StatusLax(s, sec, a) ==
  IF \/ sec.highest_severity \in {"Critical", "High"}
     \/ s > 17
    THEN "Halted"
  ELSE "Approved"

\* The decision logic on three reports.
Status(s, sec, a) ==
  IF \/ sec.highest_severity \in {"Critical", "High"}
     \/ s > 14 /\ a > 10
     \/ s > 17
     \/ a > 14
    THEN "Halted"
  ELSE IF s > 10 \/ a > 10 THEN "ReviewRequired" ELSE "Approved"

\* Mutant of Risk: the sum as it is.
RiskUnclamped(s, sec, a) == 2 * s + 2 * a + Least(5 * sec.findings, 20)

\* The weighted risk; each finding weighs 5, all of them 20 at most.
Risk(s, sec, a) == Clamp(2 * s + 2 * a + Least(5 * sec.findings, 20))

\* Mutant of Synthesize: a missing security report counts as a clean one.
SynthesizeLenient ==
  IF slop = None \/ arch = None
    THEN [status |-> "ReviewRequired", risk |-> 50]
    ELSE LET sec == IF security = None
                      THEN [highest_severity |-> "None", findings |-> 0]
                      ELSE security
         IN  [status |-> Status(slop, sec, arch), risk |-> Risk(slop, sec, arch)]

\* synthesize: with a report missing, the defensive default.
Synthesize ==
  IF slop = None \/ security = None \/ arch = None
    THEN [status |-> "ReviewRequired", risk |-> 50]
    ELSE [status |-> Status(slop, security, arch),
          risk |-> Risk(slop, security, arch)]

\* join! returns when the last analyzer has ended.
Verdict ==
  /\ pending = {}
  /\ verdict.status = "none"
  /\ verdict' = Synthesize
  /\ UNCHANGED <<pending, slop, security, arch, decision>>

\* Decision::from_risk.  On the threshold, the rounding of the f32 risk
\* decides: both answers are possible.
FromRisk(risk) ==
  {d \in {"Allow", "Warn", "Block"} :
     \/ d = "Block" /\ risk >= 70
     \/ d = "Warn"  /\ risk >= 30 /\ risk <= 70
     \/ d = "Allow" /\ risk <= 30}

\* GuardRunner::run: nothing but failures is a Block.
Guard ==
  /\ verdict.status # "none"
  /\ decision = "none"
  /\ IF slop = None /\ security = None /\ arch = None
       THEN decision' = "Block"
       ELSE decision' \in FromRisk(verdict.risk)
  /\ UNCHANGED <<pending, slop, security, arch, verdict>>

Next == SlopEnds \/ SecurityEnds \/ ArchEnds \/ Verdict \/ Guard

Spec == Init /\ [][Next]_vars

-----------------------------------------------------------------------------
(* Properties.                                                             *)

TypeOK ==
  /\ pending \subseteq Analyzers
  /\ slop \in Scores \cup {None} /\ arch \in Scores \cup {None}
  /\ security \in SecurityReports \cup {None}
  /\ verdict \in Verdicts \cup {[status |-> "none", risk |-> 0]}
  /\ decision \in {"none", "Allow", "Warn", "Block"}

Complete == slop # None /\ security # None /\ arch # None

\* Nobody is told that all is well on a partial analysis: neither an Approved
\* verdict nor an Allow of the guard rests on a missing report (pipeline.rs:
\* 41-42; argus-guard/src/lib.rs:128-135).
BlindIsNeverFine ==
  verdict.status = "Approved" \/ decision = "Allow" => Complete

\* The two answers drawn from one analysis do not contradict each other: what
\* the guard blocks, the verdict does not approve, although one looks at the
\* weighted risk and the other at the scores (pipeline.rs:106-123; argus-guard/
\* src/lib.rs:27-35).
BlockedNotApproved == decision = "Block" => verdict.status # "Approved"

Rank(status) ==
  CASE status = "Approved" -> 0 [] status = "ReviewRequired" -> 1
    [] status = "Halted" -> 2
SeverityRank(severity) ==
  CASE severity = "None" -> 0 [] severity = "Info" -> 1 [] severity = "Low" -> 2
    [] severity = "Medium" -> 3 [] severity = "High" -> 4
    [] severity = "Critical" -> 5

\* A report that is worse in every respect is never judged milder: neither
\* the status nor the risk has a gap between its thresholds (pipeline.rs:
\* 106-123).
WorseIsNotMilder ==
  verdict.status # "none" /\ Complete =>
    \A s, a \in Scores : \A sec \in SecurityReports :
      /\ s >= slop /\ a >= arch /\ sec.findings >= security.findings
      /\ SeverityRank(sec.highest_severity)
           >= SeverityRank(security.highest_severity)
      => /\ Rank(Status(s, sec, a)) >= Rank(verdict.status)
         /\ Risk(s, sec, a) >= verdict.risk

-----------------------------------------------------------------------------
(* A statement of the documentation that the code does not keep.           *)

\* "Aegis Guard [...] Blocks critical issues" (README.md:52): the guard looks
\* at the weighted risk, in which one critical finding weighs 0.05.
CriticalIsBlocked ==
  decision # "none" /\ Complete =>
    (security.highest_severity = "Critical" => decision = "Block")

=============================================================================
