------------------------------ MODULE Snippet ------------------------------
(***************************************************************************)
(* The analysis without a model: the five deterministic rules              *)
(* (crates/argus-slop/src/deterministic.rs) and the verdict the dashboard  *)
(* draws from them for a pasted snippet (crates/argus-dashboard/src/       *)
(* main.rs, analyze_snippet).  Pure operators on code, a sequence of lines.*)
(*                                                                         *)
(* Of a line only what a rule looks for is kept: the function it declares, *)
(* the braces in it, whether it counts as code (neither blank nor a //     *)
(* comment), the names in it and the patterns it matches.                  *)
(***************************************************************************)
EXTENDS Integers, Sequences, FiniteSets

CONSTANT OVERSIZED_FN_LOC  \* the lines a function may have

ASSUME OversizedAssumption == OVERSIZED_FN_LOC \in Nat

NoName == "-"
Patterns == {"test_attr", "todo", "swallowed", "unwrap", "narrative", "tautology"}
LineType ==
  {line \in [decl : {"none", "fn", "pub fn"}, name : STRING, test : BOOLEAN,
             braces : Seq({"open", "close"}), code : BOOLEAN, blank : BOOLEAN,
             names : SUBSET STRING, marks : SUBSET Patterns, secrets : Nat] :
     /\ line.decl # "none" => line.name # NoName /\ "test_attr" \notin line.marks
     /\ line.blank => line.secrets = 0}

-----------------------------------------------------------------------------
(* SLOP-001, functions that are too long.                                  *)

Outside == [depth |-> 0, open |-> FALSE, body |-> 0, name |-> NoName, at |-> 0,
            found |-> {}]

Declares(s, line, i) ==
  IF s.depth = 0 /\ line.decl # "none"
    THEN [s EXCEPT !.name = line.name, !.at = i, !.open = TRUE, !.body = 0]
    ELSE s

\* A brace opens a block, or closes one; the outermost one ends the function.
Brace(s, b) ==
  IF b = "open"
    THEN IF s.depth = 0 /\ ~s.open
           THEN [s EXCEPT !.depth = 1, !.open = TRUE, !.body = 0]
           ELSE [s EXCEPT !.depth = @ + 1]
  ELSE IF s.depth # 1 THEN [s EXCEPT !.depth = @ - 1]
  ELSE [s EXCEPT !.depth = 0, !.open = FALSE, !.name = NoName,
          !.found = IF s.open /\ s.name # NoName /\ s.body > OVERSIZED_FN_LOC
                      THEN @ \cup {s.at} ELSE @]

Braces(s, bs) ==
  LET after[k \in 0..Len(bs)] == IF k = 0 THEN s ELSE Brace(after[k - 1], bs[k])
  IN  after[Len(bs)]

CountLine(s, line) ==
  IF s.depth > 0 /\ line.code THEN [s EXCEPT !.body = @ + 1] ELSE s

\* The scan after the first n lines of the code.
Scan(code, n) ==
  LET scan[i \in 0..n] ==
        IF i = 0 THEN Outside
        ELSE CountLine(Braces(Declares(scan[i - 1], code[i], i), code[i].braces),
                       code[i])
  IN  scan[n]

slop_001_oversized(code) ==
  {<<"SLOP-001", i>> : i \in Scan(code, Len(code)).found}

-----------------------------------------------------------------------------
(* The other rules look at one line, or at one line and a flag.            *)

slop_002_swallowed(code) ==
  {<<"SLOP-002", i>> : i \in {j \in DOMAIN code : "swallowed" \in code[j].marks}}

slop_003_todo(code) ==
  {<<"SLOP-003", i>> : i \in {j \in DOMAIN code : "todo" \in code[j].marks}}

\* Mutant of InTest: the attribute counts for the next line only.
InTestNextLine(code, n) ==
  /\ n > 0
  /\ \/ "test_attr" \in code[n].marks
     \/ code[n].decl # "none" /\ code[n].test

\* The flag after n lines: the attribute sets it, a function sets it to
\* whether its name begins with test_.
InTest(code, n) ==
  LET flag[i \in 0..n] ==
        IF i = 0 THEN FALSE
        ELSE IF "test_attr" \in code[i].marks THEN TRUE
        ELSE IF code[i].decl # "none" THEN code[i].test
        ELSE flag[i - 1]
  IN  flag[n]

slop_004_unwrap(code) ==
  {<<"SLOP-004", i>> : i \in
     {j \in DOMAIN code : "unwrap" \in code[j].marks /\ ~InTest(code, j)}}

\* A public function no other line of the file names.
slop_005_unused_pub(code) ==
  {<<"SLOP-005", i>> : i \in
     {j \in DOMAIN code :
        /\ code[j].decl = "pub fn"
        /\ \A k \in DOMAIN code \ {j} : code[j].name \notin code[k].names}}

run_deterministic_rules(code) ==
  slop_001_oversized(code) \cup slop_002_swallowed(code) \cup slop_003_todo(code)
    \cup slop_004_unwrap(code) \cup slop_005_unused_pub(code)

-----------------------------------------------------------------------------
(* The verdict on a snippet.                                               *)

Lines(code, pattern) == Cardinality({i \in DOMAIN code : pattern \in code[i].marks})

naive_hardcoded_secret(code) ==
  LET hits[i \in 0..Len(code)] ==
        IF i = 0 THEN 0 ELSE hits[i - 1] + code[i].secrets
  IN  hits[Len(code)]

\* More than 40% of the lines are narrative.
Narrative(code) == 5 * Lines(code, "narrative") > 2 * Len(code)

ArchHits(code) ==
  (IF Narrative(code) THEN 1 ELSE 0)
  + (IF Lines(code, "tautology") > 0 THEN 1 ELSE 0)

\* The risk in hundredths, times the number of lines: the share of narrative
\* lines is a fraction.
SnippetRisk(code) ==
  (10 * Cardinality(run_deterministic_rules(code))
     + 45 * naive_hardcoded_secret(code) + 5 * ArchHits(code)) * Len(code)
  + 20 * Lines(code, "narrative")

SnippetStatus(code) ==
  IF naive_hardcoded_secret(code) > 0 \/ SnippetRisk(code) >= 85 * Len(code)
    THEN "Halted"
  ELSE IF \/ SnippetRisk(code) >= 30 * Len(code)
          \/ Cardinality(run_deterministic_rules(code)) > 2
    THEN "ReviewRequired"
  ELSE "Approved"

Blank(code) == \A i \in DOMAIN code : code[i].blank

-----------------------------------------------------------------------------
(* What the rules are meant to find, said without a scan.                  *)

\* What the first m braces add to the depth.
Net(bs, m) == Cardinality({k \in 1..m : bs[k] = "open"})
              - Cardinality({k \in 1..m : bs[k] = "close"})
DepthAfter(code, n) ==
  LET sum[i \in 0..n] ==
        IF i = 0 THEN 0 ELSE sum[i - 1] + Net(code[i].braces, Len(code[i].braces))
  IN  sum[n]

\* Braces match, and no line goes on after the one that ends an outermost block.
Balanced(code) ==
  \A n \in DOMAIN code :
    /\ DepthAfter(code, n) >= 0
    /\ \A m \in 1..(Len(code[n].braces) - 1) :
         DepthAfter(code, n - 1) + Net(code[n].braces, m) > 0

\* The function declared at i ends at j: the braces are balanced again and
\* were not before, once opened.
EndsAt(code, i, j) ==
  /\ DepthAfter(code, i - 1) = 0 /\ DepthAfter(code, j) = 0
  /\ \E k \in i..j : code[k].braces # <<>>
  /\ \A k \in i..(j - 1) : DepthAfter(code, k) > 0 \/ code[k].braces = <<>>
  /\ \A k \in (i + 1)..j : DepthAfter(code, k - 1) = 0 => code[k].decl = "none"

OversizedFunctions(code) ==
  {i \in DOMAIN code :
     /\ code[i].decl # "none"
     /\ \E j \in i..Len(code) :
          /\ EndsAt(code, i, j)
          /\ Cardinality({k \in i..(j - 1) :
                            code[k].code /\ DepthAfter(code, k) > 0})
               > OVERSIZED_FN_LOC}

\* Line i lies in the function declared at f, and in none that is nested in it
\* or follows an attribute within it.
InFunction(code, f, i) ==
  /\ code[f].decl # "none"
  /\ \E j \in i..Len(code) : EndsAt(code, f, j)
  /\ \A k \in (f + 1)..i : code[k].decl = "none" /\ "test_attr" \notin code[k].marks

=============================================================================
