----------------------------- MODULE MCPipeline -----------------------------
(* Instances of EntryPoints for TLC.                                       *)
EXTENDS EntryPoints, TLC

\* Both sides of the thresholds 0.5, 0.7 and 0.85, the ends of the range, and
\* answers beyond them.
Boundaries == {-4, 10, 11, 14, 15, 18, 24}
Counts == {0, 5}

SomePRs == {0, 12}
AnyKey == Permutations(Keys)

Line(decl, name, test, braces, code, names, marks, secrets) ==
  [decl |-> decl, name |-> name, test |-> test, braces |-> braces, code |-> code,
   blank |-> FALSE, names |-> names, marks |-> marks, secrets |-> secrets]

Opening == Line("pub fn", "load", FALSE, <<"open">>, TRUE, {"load"}, {}, 0)
TestFn  == Line("fn", "test_load", TRUE, <<"open">>, TRUE, {"load"}, {}, 0)
Closing == Line("none", NoName, FALSE, <<"close">>, TRUE, {}, {}, 0)
Unwrap  == Line("none", NoName, FALSE, <<>>, TRUE, {}, {"unwrap"}, 0)
Else    == Line("none", NoName, FALSE, <<"close", "open">>, TRUE, {}, {}, 0)
Attr    == Line("none", NoName, FALSE, <<>>, TRUE, {}, {"test_attr"}, 0)
Todo    == Line("none", NoName, FALSE, <<>>, FALSE, {}, {"todo", "narrative"}, 0)
Swallow == Line("none", NoName, FALSE, <<"open", "close">>, TRUE, {}, {"swallowed"}, 0)
Secret  == Line("none", NoName, FALSE, <<>>, TRUE, {}, {}, 1)
Taut    == Line("none", NoName, FALSE, <<>>, TRUE, {}, {"tautology"}, 0)
Empty   == [Line("none", NoName, FALSE, <<>>, FALSE, {}, {}, 0) EXCEPT !.blank = TRUE]

AllLines == {Opening, TestFn, Closing, Unwrap, Else, Attr, Todo, Swallow, Secret, Taut, Empty}
FewLines == {Opening, Closing, Unwrap, Else, Attr, TestFn}

\* Every snippet of up to two lines, and of up to four lines of six kinds.
Pasted == UNION {[1..n -> AllLines] : n \in 0..2} \cup
          UNION {[1..n -> FewLines] : n \in 3..4}

=============================================================================
