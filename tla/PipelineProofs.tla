--------------------------- MODULE PipelineProofs ---------------------------
(***************************************************************************)
(* What the pipeline, the guard and the ways in guarantee for all integer  *)
(* scores, any number of findings, all keys and all snippets.              *)
(***************************************************************************)
EXTENDS EntryPoints, RecursionFacts, FiniteSetTheorems, TLAPS

-----------------------------------------------------------------------------
(* Recursive functions over the lines and the braces of a line.            *)

\* What the fields of a line are.
LEMMA LineFacts ==
  ASSUME NEW code \in Seq(LineType), NEW k \in 1..Len(code)
  PROVE  /\ code[k].test \in BOOLEAN /\ code[k].code \in BOOLEAN
         /\ code[k].braces \in Seq({"open", "close"}) /\ code[k].secrets \in Nat
         /\ code[k].decl # "none" =>
              code[k].name # NoName /\ "test_attr" \notin code[k].marks
         /\ code[k].blank => code[k].secrets = 0
<1>1. code[k] \in LineType
  OBVIOUS
<1>2. QED
  BY <1>1 DEF LineType

\* The net of one more brace.
LEMMA NetSteps ==
  ASSUME NEW bs \in Seq({"open", "close"})
  PROVE  /\ Net(bs, 0) = 0
         /\ \A m \in 0..Len(bs) : Net(bs, m) \in Int
         /\ \A m \in 1..Len(bs) :
              Net(bs, m) = Net(bs, m - 1) + (IF bs[m] = "open" THEN 1 ELSE -1)
<1> DEFINE Opens(m) == {k \in 1..m : bs[k] = "open"}
           Closes(m) == {k \in 1..m : bs[k] = "close"}
<1>1. ASSUME NEW m \in Nat
      PROVE  /\ IsFiniteSet(Opens(m)) /\ IsFiniteSet(Closes(m))
             /\ Cardinality(Opens(m)) \in Nat /\ Cardinality(Closes(m)) \in Nat
  <2>1. IsFiniteSet(1..m)
    BY FS_Interval
  <2>2. QED
    BY <2>1, FS_Subset, FS_CardinalityType
<1>a. ASSUME NEW m \in Nat
      PROVE  Net(bs, m) = Cardinality(Opens(m)) - Cardinality(Closes(m))
  BY DEF Net
<1>2. Net(bs, 0) = 0
  <2>1. Opens(0) = {} /\ Closes(0) = {}
    OBVIOUS
  <2>2. Net(bs, 0) = Cardinality(Opens(0)) - Cardinality(Closes(0))
    <3> HIDE DEF Opens, Closes
    <3>1. QED
      BY <1>a
  <2>3. Cardinality(Opens(0)) = 0 /\ Cardinality(Closes(0)) = 0
    BY <2>1, FS_EmptySet
  <2> HIDE DEF Opens, Closes
  <2>4. QED
    BY <2>2, <2>3
<1>3. ASSUME NEW m \in 1..Len(bs)
      PROVE  Net(bs, m) = Net(bs, m - 1) + (IF bs[m] = "open" THEN 1 ELSE -1)
  <2>0. bs[m] \in {"open", "close"} /\ m \in Nat /\ m - 1 \in Nat
    OBVIOUS
  <2>n. /\ Net(bs, m) = Cardinality(Opens(m)) - Cardinality(Closes(m))
        /\ Net(bs, m - 1) = Cardinality(Opens(m - 1)) - Cardinality(Closes(m - 1))
    <3> HIDE DEF Opens, Closes
    <3>1. QED
      BY <1>a, <2>0
  <2>1. CASE bs[m] = "open"
    <3>1. /\ Opens(m) = Opens(m - 1) \cup {m} /\ m \notin Opens(m - 1)
          /\ Closes(m) = Closes(m - 1)
      BY <2>1
    <3> HIDE DEF Opens, Closes
    <3>2. Cardinality(Opens(m)) = Cardinality(Opens(m - 1)) + 1
      BY <1>1, <2>0, <3>1, FS_AddElement
    <3>3. QED
      BY <1>1, <2>n, <2>0, <2>1, <3>1, <3>2
  <2>2. CASE bs[m] = "close"
    <3>1. /\ Closes(m) = Closes(m - 1) \cup {m} /\ m \notin Closes(m - 1)
          /\ Opens(m) = Opens(m - 1)
      BY <2>2
    <3> HIDE DEF Opens, Closes
    <3>2. Cardinality(Closes(m)) = Cardinality(Closes(m - 1)) + 1
      BY <1>1, <2>0, <3>1, FS_AddElement
    <3>3. Cardinality(Opens(m)) = Cardinality(Opens(m - 1))
      BY <3>1
    <3>4. Net(bs, m) = Net(bs, m - 1) - 1
      BY <1>1, <2>n, <2>0, <3>2, <3>3
    <3>5. Net(bs, m - 1) \in Int
      BY <1>1, <2>n, <2>0
    <3>6. QED
      BY <2>2, <3>4, <3>5
  <2>3. QED
    BY <2>0, <2>1, <2>2
<1>4. \A m \in 0..Len(bs) : Net(bs, m) \in Int
  <2> HIDE DEF Opens, Closes
  <2>1. QED
    BY <1>1, <1>a
<1>5. QED
  BY <1>2, <1>3, <1>4

\* A state of the scan, with names out of Names.
ScanStates(Names) ==
  [depth : Int, open : BOOLEAN, body : Nat, name : Names \cup {NoName}, at : Nat,
   found : SUBSET Nat]

\* The depth, line by line.
LEMMA DepthIs ==
  ASSUME NEW code \in Seq(LineType), NEW n \in 0..Len(code)
  PROVE  \E h \in [0..n -> Int] :
           /\ DepthAfter(code, n) = h[n]
           /\ h[0] = 0
           /\ \A k \in 1..n : h[k] = h[k - 1] + Net(code[k].braces, Len(code[k].braces))
<1> DEFINE N == n
           T == Int
           start == 0
           Step(k, x) == x + Net(code[k].braces, Len(code[k].braces))
           F == [k \in Nat |-> [x \in T |-> IF k \in 1..N THEN Step(k, x) ELSE x]]
           Body(h) == [k \in 0..N |-> IF k = 0 THEN start ELSE h[k - 1] + Net(code[k].braces, Len(code[k].braces))]
           H == CHOOSE h : h = Body(h)
<1>1. N \in Nat /\ start \in T
  OBVIOUS
<1>2. ASSUME NEW k \in 1..N, NEW x \in T PROVE Step(k, x) \in T
  <2>1. Net(code[k].braces, Len(code[k].braces)) \in Int
    BY LineFacts, NetSteps
  <2>2. QED
    BY <2>1
<1>3. F \in [Nat -> [T -> T]]
  <2> HIDE DEF T, N, Step
  <2>1. QED
    BY <1>2
<1>4. PICK g \in [0..N -> T] : Recurses(g, start, F, N)
  <2> HIDE DEF F, T, N, start
  <2>1. QED
    BY <1>1, <1>3, RecursionExists
<1>5. g[0] = start /\ \A k \in 1..N : g[k] = Step(k, g[k - 1])
  <2> HIDE DEF T, N, Step, start
  <2>1. ASSUME NEW k \in 1..N PROVE F[k][g[k - 1]] = Step(k, g[k - 1])
    <3>1. k \in Nat /\ g[k - 1] \in T
      BY <1>1
    <3>2. QED
      BY <3>1
  <2> HIDE DEF F
  <2>2. QED
    BY <1>4, <2>1 DEF Recurses
<1>6. \A h : Body(h) = [k \in 0..N |-> IF k = 0 THEN start ELSE Step(k, h[k - 1])]
  OBVIOUS
<1>7. g = Body(g)
  <2> HIDE DEF T, N, Step, start, Body
  <2>1. ASSUME NEW k \in 0..N
        PROVE  g[k] = IF k = 0 THEN start ELSE Step(k, g[k - 1])
    BY <1>1, <1>5
  <2>2. g = [k \in 0..N |-> IF k = 0 THEN start ELSE Step(k, g[k - 1])]
    BY <2>1
  <2>3. QED
    BY <1>6, <2>2
<1>8. H = Body(H)
  <2> HIDE DEF Body
  <2>1. QED
    BY <1>7
<1>9. H = [k \in 0..N |-> IF k = 0 THEN start ELSE Step(k, H[k - 1])]
  <2> HIDE DEF H, N, Step, start, Body
  <2>1. QED
    BY <1>6, <1>8
<1>10. H[0] = start /\ \A k \in 1..N : H[k] = Step(k, H[k - 1])
  <2> HIDE DEF H, N, Step, start
  <2>1. H[0] = start
    BY <1>1, <1>9
  <2>2. ASSUME NEW k \in 1..N PROVE H[k] = Step(k, H[k - 1])
    BY <1>1, <1>9
  <2>3. QED
    BY <2>1, <2>2
<1>11. \A k \in 0..N : H[k] \in T
  <2> DEFINE P == {k \in 0..N : H[k] \in T}
  <2> HIDE DEF H, N, T, Step, start
  <2>1. 0 \in P
    BY <1>1, <1>10
  <2>2. \A k \in 1..N : k - 1 \in P => k \in P
    BY <1>1, <1>2, <1>10
  <2>3. \A k \in 0..N : k \in P
    <3> HIDE DEF P
    <3>1. QED
      BY <1>1, <2>1, <2>2, Climbs
  <2>4. QED
    BY <2>3
<1>12. DepthAfter(code, n) = H[N]
  BY DEF DepthAfter
<1>13. H \in [0..N -> T]
  <2> HIDE DEF H, N, T, Step, start
  <2>1. QED
    BY <1>9, <1>11
<1>14. QED
  <2> HIDE DEF H
  <2>1. QED
    BY <1>10, <1>12, <1>13

\* The flag of the tests, line by line.
LEMMA FlagIs ==
  ASSUME NEW code \in Seq(LineType), NEW n \in 0..Len(code)
  PROVE  \E h \in [0..n -> BOOLEAN] :
           /\ InTest(code, n) = h[n]
           /\ h[0] = FALSE
           /\ \A k \in 1..n : h[k] = (IF "test_attr" \in code[k].marks THEN TRUE
                  ELSE IF code[k].decl # "none" THEN code[k].test ELSE h[k - 1])
<1> DEFINE N == n
           T == BOOLEAN
           start == FALSE
           Step(k, x) == (IF "test_attr" \in code[k].marks THEN TRUE
                  ELSE IF code[k].decl # "none" THEN code[k].test ELSE x)
           F == [k \in Nat |-> [x \in T |-> IF k \in 1..N THEN Step(k, x) ELSE x]]
           Body(h) == [k \in 0..N |-> IF k = 0 THEN start ELSE (IF "test_attr" \in code[k].marks THEN TRUE
                  ELSE IF code[k].decl # "none" THEN code[k].test ELSE h[k - 1])]
           H == CHOOSE h : h = Body(h)
<1>1. N \in Nat /\ start \in T
  OBVIOUS
<1>2. ASSUME NEW k \in 1..N, NEW x \in T PROVE Step(k, x) \in T
  <2>1. code[k].test \in BOOLEAN
    BY LineFacts
  <2>2. CASE "test_attr" \in code[k].marks
    BY <2>2
  <2>3. CASE "test_attr" \notin code[k].marks /\ code[k].decl # "none"
    BY <2>1, <2>3
  <2>4. CASE "test_attr" \notin code[k].marks /\ code[k].decl = "none"
    BY <2>4
  <2>5. QED
    BY <2>2, <2>3, <2>4
<1>3. F \in [Nat -> [T -> T]]
  <2> HIDE DEF T, N, Step
  <2>1. QED
    BY <1>2
<1>4. PICK g \in [0..N -> T] : Recurses(g, start, F, N)
  <2> HIDE DEF F, T, N, start
  <2>1. QED
    BY <1>1, <1>3, RecursionExists
<1>5. g[0] = start /\ \A k \in 1..N : g[k] = Step(k, g[k - 1])
  <2> HIDE DEF T, N, Step, start
  <2>1. ASSUME NEW k \in 1..N PROVE F[k][g[k - 1]] = Step(k, g[k - 1])
    <3>1. k \in Nat /\ g[k - 1] \in T
      BY <1>1
    <3>2. QED
      BY <3>1
  <2> HIDE DEF F
  <2>2. QED
    BY <1>4, <2>1 DEF Recurses
<1>6. \A h : Body(h) = [k \in 0..N |-> IF k = 0 THEN start ELSE Step(k, h[k - 1])]
  OBVIOUS
<1>7. g = Body(g)
  <2> HIDE DEF T, N, Step, start, Body
  <2>1. ASSUME NEW k \in 0..N
        PROVE  g[k] = IF k = 0 THEN start ELSE Step(k, g[k - 1])
    BY <1>1, <1>5
  <2>2. g = [k \in 0..N |-> IF k = 0 THEN start ELSE Step(k, g[k - 1])]
    BY <2>1
  <2>3. QED
    BY <1>6, <2>2
<1>8. H = Body(H)
  <2> HIDE DEF Body
  <2>1. QED
    BY <1>7
<1>9. H = [k \in 0..N |-> IF k = 0 THEN start ELSE Step(k, H[k - 1])]
  <2> HIDE DEF H, N, Step, start, Body
  <2>1. QED
    BY <1>6, <1>8
<1>10. H[0] = start /\ \A k \in 1..N : H[k] = Step(k, H[k - 1])
  <2> HIDE DEF H, N, Step, start
  <2>1. H[0] = start
    BY <1>1, <1>9
  <2>2. ASSUME NEW k \in 1..N PROVE H[k] = Step(k, H[k - 1])
    BY <1>1, <1>9
  <2>3. QED
    BY <2>1, <2>2
<1>11. \A k \in 0..N : H[k] \in T
  <2> DEFINE P == {k \in 0..N : H[k] \in T}
  <2> HIDE DEF H, N, T, Step, start
  <2>1. 0 \in P
    BY <1>1, <1>10
  <2>2. \A k \in 1..N : k - 1 \in P => k \in P
    BY <1>1, <1>2, <1>10
  <2>3. \A k \in 0..N : k \in P
    <3> HIDE DEF P
    <3>1. QED
      BY <1>1, <2>1, <2>2, Climbs
  <2>4. QED
    BY <2>3
<1>12. InTest(code, n) = H[N]
  BY DEF InTest
<1>13. H \in [0..N -> T]
  <2> HIDE DEF H, N, T, Step, start
  <2>1. QED
    BY <1>9, <1>11
<1>14. QED
  <2> HIDE DEF H
  <2>1. QED
    BY <1>10, <1>12, <1>13

\* The secrets, line by line.
LEMMA HitsAre ==
  ASSUME NEW code \in Seq(LineType)
  PROVE  \E h \in [0..Len(code) -> Nat] :
           /\ naive_hardcoded_secret(code) = h[Len(code)]
           /\ h[0] = 0
           /\ \A k \in 1..Len(code) : h[k] = h[k - 1] + code[k].secrets
<1> DEFINE N == Len(code)
           T == Nat
           start == 0
           Step(k, x) == x + code[k].secrets
           F == [k \in Nat |-> [x \in T |-> IF k \in 1..N THEN Step(k, x) ELSE x]]
           Body(h) == [k \in 0..N |-> IF k = 0 THEN start ELSE h[k - 1] + code[k].secrets]
           H == CHOOSE h : h = Body(h)
<1>1. N \in Nat /\ start \in T
  OBVIOUS
<1>2. ASSUME NEW k \in 1..N, NEW x \in T PROVE Step(k, x) \in T
  BY LineFacts
<1>3. F \in [Nat -> [T -> T]]
  <2> HIDE DEF T, N, Step
  <2>1. QED
    BY <1>2
<1>4. PICK g \in [0..N -> T] : Recurses(g, start, F, N)
  <2> HIDE DEF F, T, N, start
  <2>1. QED
    BY <1>1, <1>3, RecursionExists
<1>5. g[0] = start /\ \A k \in 1..N : g[k] = Step(k, g[k - 1])
  <2> HIDE DEF T, N, Step, start
  <2>1. ASSUME NEW k \in 1..N PROVE F[k][g[k - 1]] = Step(k, g[k - 1])
    <3>1. k \in Nat /\ g[k - 1] \in T
      BY <1>1
    <3>2. QED
      BY <3>1
  <2> HIDE DEF F
  <2>2. QED
    BY <1>4, <2>1 DEF Recurses
<1>6. \A h : Body(h) = [k \in 0..N |-> IF k = 0 THEN start ELSE Step(k, h[k - 1])]
  OBVIOUS
<1>7. g = Body(g)
  <2> HIDE DEF T, N, Step, start, Body
  <2>1. ASSUME NEW k \in 0..N
        PROVE  g[k] = IF k = 0 THEN start ELSE Step(k, g[k - 1])
    BY <1>1, <1>5
  <2>2. g = [k \in 0..N |-> IF k = 0 THEN start ELSE Step(k, g[k - 1])]
    BY <2>1
  <2>3. QED
    BY <1>6, <2>2
<1>8. H = Body(H)
  <2> HIDE DEF Body
  <2>1. QED
    BY <1>7
<1>9. H = [k \in 0..N |-> IF k = 0 THEN start ELSE Step(k, H[k - 1])]
  <2> HIDE DEF H, N, Step, start, Body
  <2>1. QED
    BY <1>6, <1>8
<1>10. H[0] = start /\ \A k \in 1..N : H[k] = Step(k, H[k - 1])
  <2> HIDE DEF H, N, Step, start
  <2>1. H[0] = start
    BY <1>1, <1>9
  <2>2. ASSUME NEW k \in 1..N PROVE H[k] = Step(k, H[k - 1])
    BY <1>1, <1>9
  <2>3. QED
    BY <2>1, <2>2
<1>11. \A k \in 0..N : H[k] \in T
  <2> DEFINE P == {k \in 0..N : H[k] \in T}
  <2> HIDE DEF H, N, T, Step, start
  <2>1. 0 \in P
    BY <1>1, <1>10
  <2>2. \A k \in 1..N : k - 1 \in P => k \in P
    BY <1>1, <1>2, <1>10
  <2>3. \A k \in 0..N : k \in P
    <3> HIDE DEF P
    <3>1. QED
      BY <1>1, <2>1, <2>2, Climbs
  <2>4. QED
    BY <2>3
<1>12. naive_hardcoded_secret(code) = H[N]
  BY DEF naive_hardcoded_secret
<1>13. H \in [0..N -> T]
  <2> HIDE DEF H, N, T, Step, start
  <2>1. QED
    BY <1>9, <1>11
<1>14. QED
  <2> HIDE DEF H
  <2>1. QED
    BY <1>10, <1>12, <1>13

\* States with other values in some fields.
LEMMA OpenedTyped ==
  ASSUME NEW Names, NEW s \in ScanStates(Names), NEW d \in Int, NEW o \in BOOLEAN, NEW b \in Nat
  PROVE  [s EXCEPT !.depth = d, !.open = o, !.body = b] \in ScanStates(Names)
BY DEF ScanStates

LEMMA EndedTyped ==
  ASSUME NEW Names, NEW s \in ScanStates(Names), NEW d \in Int, NEW o \in BOOLEAN,
         NEW m \in Names \cup {NoName}, NEW f \in SUBSET Nat
  PROVE  [s EXCEPT !.depth = d, !.open = o, !.name = m, !.found = f] \in ScanStates(Names)
BY DEF ScanStates

LEMMA NamedTyped ==
  ASSUME NEW Names, NEW s \in ScanStates(Names), NEW m \in Names \cup {NoName}, NEW i \in Nat, NEW o \in BOOLEAN, NEW b \in Nat
  PROVE  [s EXCEPT !.name = m, !.at = i, !.open = o, !.body = b] \in ScanStates(Names)
BY DEF ScanStates

\* A brace leads from state to state.
LEMMA BraceTyped ==
  ASSUME NEW Names, NEW s \in ScanStates(Names), NEW b
  PROVE  Brace(s, b) \in ScanStates(Names)
<1> DEFINE opened == [s EXCEPT !.depth = 1, !.open = TRUE, !.body = 0]
           deeper == [s EXCEPT !.depth = @ + 1]
           higher == [s EXCEPT !.depth = @ - 1]
           more == IF s.open /\ s.name # NoName /\ s.body > OVERSIZED_FN_LOC
                     THEN s.found \cup {s.at} ELSE s.found
           ended == [s EXCEPT !.depth = 0, !.open = FALSE, !.name = NoName, !.found = more]
<1>1. opened \in ScanStates(Names)
  <2> DEFINE d == 1 o == TRUE c == 0
  <2>1. d \in Int /\ o \in BOOLEAN /\ c \in Nat
    OBVIOUS
  <2>2. opened = [s EXCEPT !.depth = d, !.open = o, !.body = c]
    OBVIOUS
  <2> HIDE DEF d, o, c, opened
  <2>3. QED
    BY <2>1, <2>2, OpenedTyped
<1>2. deeper \in ScanStates(Names) /\ higher \in ScanStates(Names)
  BY DEF ScanStates
<1>3. ended \in ScanStates(Names)
  <2>1. more \in SUBSET Nat
    BY DEF ScanStates
  <2> DEFINE d == 0 o == FALSE m == NoName
  <2>2. d \in Int /\ o \in BOOLEAN /\ m \in Names \cup {NoName}
    OBVIOUS
  <2>3. ended = [s EXCEPT !.depth = d, !.open = o, !.name = m, !.found = more]
    OBVIOUS
  <2> HIDE DEF d, o, m, more, ended
  <2>4. QED
    BY <2>1, <2>2, <2>3, EndedTyped
<1>4. Brace(s, b) \in {opened, deeper, higher, ended}
  BY DEF Brace
<1>5. QED
  <2> HIDE DEF opened, deeper, higher, ended
  <2>1. QED
    BY <1>1, <1>2, <1>3, <1>4

\* The braces of a line, one by one.
LEMMA BracesAre ==
  ASSUME NEW Names, NEW s \in ScanStates(Names), NEW bs \in Seq({"open", "close"})
  PROVE  \E h \in [0..Len(bs) -> ScanStates(Names)] :
           /\ Braces(s, bs) = h[Len(bs)]
           /\ h[0] = s
           /\ \A k \in 1..Len(bs) : h[k] = Brace(h[k - 1], bs[k])
<1> DEFINE N == Len(bs)
           T == ScanStates(Names)
           start == s
           Step(k, x) == Brace(x, bs[k])
           F == [k \in Nat |-> [x \in T |-> IF k \in 1..N THEN Step(k, x) ELSE x]]
           Body(h) == [k \in 0..N |-> IF k = 0 THEN start ELSE Brace(h[k - 1], bs[k])]
           H == CHOOSE h : h = Body(h)
<1>1. N \in Nat /\ start \in T
  OBVIOUS
<1>2. ASSUME NEW k \in 1..N, NEW x \in T PROVE Step(k, x) \in T
  BY BraceTyped
<1>3. F \in [Nat -> [T -> T]]
  <2> HIDE DEF T, N, Step
  <2>1. QED
    BY <1>2
<1>4. PICK g \in [0..N -> T] : Recurses(g, start, F, N)
  <2> HIDE DEF F, T, N, start
  <2>1. QED
    BY <1>1, <1>3, RecursionExists
<1>5. g[0] = start /\ \A k \in 1..N : g[k] = Step(k, g[k - 1])
  <2> HIDE DEF T, N, Step, start
  <2>1. ASSUME NEW k \in 1..N PROVE F[k][g[k - 1]] = Step(k, g[k - 1])
    <3>1. k \in Nat /\ g[k - 1] \in T
      BY <1>1
    <3>2. QED
      BY <3>1
  <2> HIDE DEF F
  <2>2. QED
    BY <1>4, <2>1 DEF Recurses
<1>6. \A h : Body(h) = [k \in 0..N |-> IF k = 0 THEN start ELSE Step(k, h[k - 1])]
  OBVIOUS
<1>7. g = Body(g)
  <2> HIDE DEF T, N, Step, start, Body
  <2>1. ASSUME NEW k \in 0..N
        PROVE  g[k] = IF k = 0 THEN start ELSE Step(k, g[k - 1])
    BY <1>1, <1>5
  <2>2. g = [k \in 0..N |-> IF k = 0 THEN start ELSE Step(k, g[k - 1])]
    BY <2>1
  <2>3. QED
    BY <1>6, <2>2
<1>8. H = Body(H)
  <2> HIDE DEF Body
  <2>1. QED
    BY <1>7
<1>9. H = [k \in 0..N |-> IF k = 0 THEN start ELSE Step(k, H[k - 1])]
  <2> HIDE DEF H, N, Step, start, Body
  <2>1. QED
    BY <1>6, <1>8
<1>10. H[0] = start /\ \A k \in 1..N : H[k] = Step(k, H[k - 1])
  <2> HIDE DEF H, N, Step, start
  <2>1. H[0] = start
    BY <1>1, <1>9
  <2>2. ASSUME NEW k \in 1..N PROVE H[k] = Step(k, H[k - 1])
    BY <1>1, <1>9
  <2>3. QED
    BY <2>1, <2>2
<1>11. \A k \in 0..N : H[k] \in T
  <2> DEFINE P == {k \in 0..N : H[k] \in T}
  <2> HIDE DEF H, N, T, Step, start
  <2>1. 0 \in P
    BY <1>1, <1>10
  <2>2. \A k \in 1..N : k - 1 \in P => k \in P
    BY <1>1, <1>2, <1>10
  <2>3. \A k \in 0..N : k \in P
    <3> HIDE DEF P
    <3>1. QED
      BY <1>1, <2>1, <2>2, Climbs
  <2>4. QED
    BY <2>3
<1>12. Braces(s, bs) = H[N]
  BY DEF Braces
<1>13. H \in [0..N -> T]
  <2> HIDE DEF H, N, T, Step, start
  <2>1. QED
    BY <1>9, <1>11
<1>14. QED
  <2> HIDE DEF H
  <2>1. QED
    BY <1>10, <1>12, <1>13

-----------------------------------------------------------------------------
(* What the braces of a line do to the scan.                               *)

\* x is s in a block of depth d.
Inside(x, s, d) ==
  /\ x.depth = d /\ x.open
  /\ x.body = (IF s.open THEN s.body ELSE 0)
  /\ x.name = s.name /\ x.at = s.at /\ x.found = s.found

\* x is s after the end of an outermost block.
Ends(x, s) ==
  /\ x.depth = 0 /\ ~x.open /\ x.name = NoName
  /\ x.found = IF s.name # NoName /\ s.body > OVERSIZED_FN_LOC
                 THEN s.found \cup {s.at} ELSE s.found

LEMMA OpeningDoes ==
  ASSUME NEW Names, NEW s \in ScanStates(Names), s.depth >= 0, s.depth > 0 => s.open
  PROVE  Inside(Brace(s, "open"), s, s.depth + 1)
<1> DEFINE r == Brace(s, "open")
<1>1. r.depth = s.depth + 1
  BY DEF ScanStates, Brace
<1>2. r.name = s.name /\ r.at = s.at /\ r.found = s.found
  BY DEF ScanStates, Brace
<1>3. r.body = (IF s.depth = 0 /\ ~s.open THEN 0 ELSE s.body)
  BY DEF ScanStates, Brace
<1>4. CASE s.depth = 0
  <2>1. r.open
    BY <1>4 DEF ScanStates, Brace
  <2> HIDE DEF r
  <2>2. r.body = (IF s.open THEN s.body ELSE 0)
    BY <1>3, <1>4
  <2>3. Inside(r, s, s.depth + 1)
    BY <1>1, <1>2, <2>1, <2>2 DEF Inside
  <2>4. QED
    BY <2>3 DEF r
<1>5. CASE s.depth # 0
  <2>0. s.open
    BY <1>5 DEF ScanStates
  <2>1. r.open = s.open
    BY <1>5 DEF ScanStates, Brace
  <2> HIDE DEF r
  <2>2. r.body = (IF s.open THEN s.body ELSE 0)
    BY <1>3, <1>5, <2>0
  <2>3. Inside(r, s, s.depth + 1)
    BY <1>1, <1>2, <2>0, <2>1, <2>2 DEF Inside
  <2>4. QED
    BY <2>3 DEF r
<1>6. QED
  BY <1>4, <1>5

LEMMA ClosingDoes ==
  ASSUME NEW Names, NEW s \in ScanStates(Names), s.depth > 0, s.open
  PROVE  /\ s.depth > 1 => Inside(Brace(s, "close"), s, s.depth - 1)
         /\ s.depth = 1 => Ends(Brace(s, "close"), s)
<1> DEFINE r == Brace(s, "close")
<1>1. CASE s.depth > 1
  <2>1. r = [s EXCEPT !.depth = @ - 1]
    BY <1>1 DEF ScanStates, Brace
  <2>2. r.depth = s.depth - 1 /\ r.open = s.open /\ r.body = s.body
    BY <2>1 DEF ScanStates
  <2>3. r.name = s.name /\ r.at = s.at /\ r.found = s.found
    BY <2>1 DEF ScanStates
  <2> HIDE DEF r
  <2>4. Inside(r, s, s.depth - 1)
    BY <2>2, <2>3 DEF Inside
  <2>5. QED
    BY <1>1, <2>4 DEF r
<1>2. CASE s.depth = 1
  <2> DEFINE more == IF s.open /\ s.name # NoName /\ s.body > OVERSIZED_FN_LOC
                       THEN s.found \cup {s.at} ELSE s.found
  <2>1. r = [s EXCEPT !.depth = 0, !.open = FALSE, !.name = NoName, !.found = more]
    BY <1>2 DEF ScanStates, Brace
  <2>2. more = IF s.name # NoName /\ s.body > OVERSIZED_FN_LOC
                 THEN s.found \cup {s.at} ELSE s.found
    OBVIOUS
  <2> HIDE DEF r, more
  <2>3. r.depth = 0 /\ r.name = NoName /\ r.found = more
    BY <2>1 DEF ScanStates
  <2>4. ~r.open
    BY <2>1 DEF ScanStates
  <2>5. Ends(r, s)
    BY <2>2, <2>3, <2>4 DEF Ends
  <2>6. QED
    BY <1>2, <2>5 DEF r
<1>3. QED
  BY <1>1, <1>2 DEF ScanStates

\* One brace, inside a block afterwards or at the end of one.
LEMMA BraceDoes ==
  ASSUME NEW Names, NEW s \in ScanStates(Names), s.depth >= 0, s.depth > 0 => s.open,
         NEW b \in {"open", "close"}, NEW d,
         d = s.depth + (IF b = "open" THEN 1 ELSE -1), d >= 0
  PROVE  /\ d > 0 => Inside(Brace(s, b), s, d)
         /\ d = 0 => Ends(Brace(s, b), s)
<1>0. s.depth \in Int
  BY DEF ScanStates
<1>1. CASE b = "open"
  <2>1. d = s.depth + 1 /\ d > 0
    BY <1>0, <1>1
  <2>2. Inside(Brace(s, "open"), s, d)
    BY <2>1, OpeningDoes
  <2>3. QED
    BY <1>0, <1>1, <2>1, <2>2
<1>2. CASE b = "close"
  <2>1. d = s.depth - 1 /\ s.depth > 0 /\ s.open
    BY <1>0, <1>2
  <2>2. /\ s.depth > 1 => Inside(Brace(s, "close"), s, d)
        /\ s.depth = 1 => Ends(Brace(s, "close"), s)
    BY <2>1, ClosingDoes
  <2>3. QED
    BY <1>0, <1>2, <2>1, <2>2
<1>3. QED
  BY <1>1, <1>2

\* All the braces of a line that touches the outermost level at its end only.
LEMMA BracesDo ==
  ASSUME NEW Names, NEW s \in ScanStates(Names), s.depth >= 0, s.depth > 0 => s.open,
         ~s.open => s.name = NoName,
         NEW bs \in Seq({"open", "close"}), bs # <<>>,
         \A m \in 1..(Len(bs) - 1) : s.depth + Net(bs, m) > 0,
         NEW d, d = s.depth + Net(bs, Len(bs)), d >= 0
  PROVE  /\ Braces(s, bs) \in ScanStates(Names)
         /\ d > 0 => Inside(Braces(s, bs), s, d)
         /\ d = 0 => Ends(Braces(s, bs), s)
<1> DEFINE L == Len(bs)
           D(m) == s.depth + Net(bs, m)
<1>0. L \in Nat /\ L > 0 /\ s.depth \in Int
  BY DEF ScanStates
<1>1. PICK h \in [0..Len(bs) -> ScanStates(Names)] :
           /\ Braces(s, bs) = h[Len(bs)]
           /\ h[0] = s
           /\ \A k \in 1..Len(bs) : h[k] = Brace(h[k - 1], bs[k])
  BY BracesAre
<1>2. /\ D(0) = s.depth
      /\ \A m \in 0..L : D(m) \in Int
      /\ \A m \in 1..L : D(m) = D(m - 1) + (IF bs[m] = "open" THEN 1 ELSE -1)
  <2>1. /\ Net(bs, 0) = 0
        /\ \A m \in 0..Len(bs) : Net(bs, m) \in Int
        /\ \A m \in 1..Len(bs) :
             Net(bs, m) = Net(bs, m - 1) + (IF bs[m] = "open" THEN 1 ELSE -1)
    BY NetSteps
  <2>2. ASSUME NEW m \in 1..L
        PROVE  D(m) = D(m - 1) + (IF bs[m] = "open" THEN 1 ELSE -1)
    <3>1. m - 1 \in 0..L /\ m \in 0..L
      BY <1>0
    <3>2. Net(bs, m) \in Int /\ Net(bs, m - 1) \in Int
      BY <2>1, <3>1
    <3>3. QED
      BY <1>0, <2>1, <3>2
  <2>3. QED
    BY <1>0, <2>1, <2>2
<1>3. D(L) = d /\ \A m \in 1..(L - 1) : D(m) > 0
  OBVIOUS
<1> HIDE DEF D
<1> DEFINE Good(k) == k > 0 => Inside(h[k], s, D(k))
           P == {k \in 0..(L - 1) : Good(k)}
<1>4. ASSUME NEW k \in 1..L, Good(k - 1)
      PROVE  /\ h[k - 1] \in ScanStates(Names) /\ h[k] = Brace(h[k - 1], bs[k])
             /\ h[k - 1].depth = D(k - 1) /\ D(k - 1) >= 0
             /\ D(k - 1) > 0 => h[k - 1].open
             /\ bs[k] \in {"open", "close"}
             /\ D(k) = D(k - 1) + (IF bs[k] = "open" THEN 1 ELSE -1)
  <2>1. h[k - 1] \in ScanStates(Names) /\ h[k] = Brace(h[k - 1], bs[k])
    BY <1>0, <1>1
  <2>2. CASE k = 1
    BY <1>0, <1>1, <1>2, <2>1, <2>2
  <2>3. CASE k # 1
    <3>1. k - 1 \in 1..(L - 1) /\ k - 1 > 0
      BY <1>0, <2>3
    <3>2. Inside(h[k - 1], s, D(k - 1))
      BY <1>4, <3>1
    <3>3. D(k - 1) > 0 /\ D(k - 1) \in Int
      BY <1>2, <1>3, <3>1, <1>0
    <3>4. h[k - 1].depth = D(k - 1) /\ h[k - 1].open
      BY <3>2 DEF Inside
    <3>5. QED
      BY <1>2, <2>1, <3>3, <3>4
  <2>4. QED
    BY <2>2, <2>3
<1>5. ASSUME NEW k \in 1..L, Good(k - 1), D(k) > 0 PROVE Good(k)
  <2>1. Inside(Brace(h[k - 1], bs[k]), h[k - 1], D(k))
    <3> DEFINE x == h[k - 1]
               b == bs[k]
               e == D(k)
    <3>1. /\ x \in ScanStates(Names) /\ x.depth >= 0 /\ (x.depth > 0 => x.open)
          /\ b \in {"open", "close"} /\ e = x.depth + (IF b = "open" THEN 1 ELSE -1)
          /\ e > 0 /\ e >= 0
      <4>1. D(k) \in Int
        BY <1>2
      <4>2. QED
        BY <1>4, <1>5, <4>1
    <3> HIDE DEF x, b, e
    <3>2. Inside(Brace(x, b), x, e)
      BY <3>1, BraceDoes
    <3>3. QED
      BY <3>2 DEF x, b, e
  <2>2. Inside(h[k], h[k - 1], D(k))
    BY <1>4, <1>5, <2>1
  <2>3. CASE k = 1
    BY <1>1, <2>2, <2>3
  <2>4. CASE k # 1
    <3>1. Inside(h[k - 1], s, D(k - 1))
      BY <1>5, <2>4
    <3>2. QED
      BY <2>2, <3>1 DEF Inside
  <2>5. QED
    BY <2>3, <2>4
<1>6. Good(L - 1)
  <2>1. 0 \in P
    BY <1>0
  <2>2. ASSUME NEW k \in 1..(L - 1), k - 1 \in P PROVE k \in P
    <3>1. D(k) > 0 /\ k \in 1..L /\ Good(k - 1)
      BY <1>0, <1>3, <2>2
    <3>2. Good(k)
      BY <1>5, <3>1
    <3> HIDE DEF Good
    <3>3. QED
      BY <1>0, <3>2
  <2>3. \A k \in 0..(L - 1) : k \in P
    <3> HIDE DEF P, L
    <3>1. L - 1 \in Nat
      BY <1>0
    <3>2. QED
      BY <2>1, <2>2, <3>1, Climbs
  <2>4. QED
    BY <1>0, <2>3
<1>7. CASE d > 0
  <2>1. L \in 1..L /\ D(L) > 0
    BY <1>0, <1>3, <1>7
  <2>2. Good(L)
    BY <1>5, <1>6, <2>1
  <2>3. Inside(h[L], s, d)
    BY <1>0, <1>3, <2>2
  <2>4. QED
    BY <1>0, <1>1, <1>7, <2>3
<1>8. CASE d = 0
  <2> DEFINE x == h[L - 1]
             b == bs[L]
  <2>0. L \in 1..L
    BY <1>0
  <2>1. /\ x \in ScanStates(Names) /\ x.depth >= 0 /\ (x.depth > 0 => x.open)
        /\ b \in {"open", "close"} /\ d = x.depth + (IF b = "open" THEN 1 ELSE -1)
        /\ h[L] = Brace(x, b)
    BY <1>3, <1>4, <1>6, <2>0
  <2>2. Ends(h[L], x)
    <3> HIDE DEF x, b
    <3>1. Ends(Brace(x, b), x)
      BY <1>8, <2>1, BraceDoes
    <3>2. QED
      BY <2>1, <3>1
  <2>3. Ends(h[L], s)
    <3>1. CASE L = 1
      BY <1>1, <2>2, <3>1
    <3>2. CASE L # 1
      <4>0. L - 1 > 0
        <5> HIDE DEF L
        <5>1. QED
          BY <1>0, <3>2
      <4>1. Inside(x, s, D(L - 1))
        BY <1>6, <4>0
      <4>2. s.open \in BOOLEAN /\ x.name = s.name /\ x.at = s.at /\ x.found = s.found
            /\ x.body = (IF s.open THEN s.body ELSE 0)
        BY <4>1 DEF Inside, ScanStates
      <4> HIDE DEF x
      <4>3. CASE s.open
        BY <2>2, <4>2, <4>3 DEF Ends
      <4>4. CASE ~s.open
        BY <2>2, <4>2, <4>4 DEF Ends
      <4>5. QED
        BY <4>3, <4>4
    <3>3. QED
      BY <3>1, <3>2
  <2>4. QED
    BY <1>0, <1>1, <1>8, <2>3
<1>9. QED
  <2>1. d \in Int
    BY <1>0, <1>2, <1>3
  <2>2. QED
    BY <1>0, <1>1, <1>7, <1>8, <2>1

-----------------------------------------------------------------------------
(* The functions that SLOP-001 reports.                                    *)

\* The depth after one more line.
LEMMA Depths ==
  ASSUME NEW code \in Seq(LineType)
  PROVE  /\ DepthAfter(code, 0) = 0
         /\ \A n \in 0..Len(code) : DepthAfter(code, n) \in Int
         /\ \A n \in 1..Len(code) :
              DepthAfter(code, n) =
                DepthAfter(code, n - 1) + Net(code[n].braces, Len(code[n].braces))
<1> DEFINE N(k) == Net(code[k].braces, Len(code[k].braces))
           D(k) == DepthAfter(code, k)
           IsSum(h, n) == h[0] = 0 /\ \A k \in 1..n : h[k] = h[k - 1] + N(k)
<1>1. ASSUME NEW n \in 0..Len(code)
      PROVE  \E h \in [0..n -> Int] : D(n) = h[n] /\ IsSum(h, n)
  BY DepthIs
<1> HIDE DEF D, N
<1>2. D(0) = 0
  <2>0. 0 \in 0..Len(code)
    OBVIOUS
  <2> HIDE DEF IsSum
  <2>1. PICK h \in [0..0 -> Int] : D(0) = h[0] /\ IsSum(h, 0)
    BY <1>1, <2>0
  <2> USE DEF IsSum
  <2>2. QED
    BY <2>1
<1>3. ASSUME NEW n \in 0..Len(code) PROVE D(n) \in Int
  <2>1. PICK h \in [0..n -> Int] : D(n) = h[n]
    BY <1>1
  <2>2. QED
    BY <2>1
<1>4. ASSUME NEW n \in 1..Len(code) PROVE D(n) = D(n - 1) + N(n)
  <2>0. n - 1 \in 0..Len(code) /\ n \in 0..Len(code) /\ n \in Nat /\ n - 1 \in Nat
    OBVIOUS
  <2>1. PICK h \in [0..n -> Int] : D(n) = h[n] /\ IsSum(h, n)
    BY <1>1, <2>0
  <2>2. PICK g \in [0..(n - 1) -> Int] : D(n - 1) = g[n - 1] /\ IsSum(g, n - 1)
    BY <1>1, <2>0
  <2> DEFINE P == {k \in 0..(n - 1) : g[k] = h[k]}
  <2>3. 0 \in P
    BY <2>0, <2>1, <2>2
  <2>4. ASSUME NEW k \in 1..(n - 1), k - 1 \in P PROVE k \in P
    BY <2>0, <2>1, <2>2, <2>4
  <2>5. n - 1 \in P
    <3>1. \A k \in 0..(n - 1) : k \in P
      <4> HIDE DEF P
      <4>1. QED
        BY <2>0, <2>3, <2>4, Climbs
    <3> HIDE DEF P
    <3>2. QED
      BY <2>0, <3>1
  <2>6. h[n] = h[n - 1] + N(n)
    BY <2>0, <2>1
  <2>7. QED
    BY <2>1, <2>2, <2>5, <2>6
<1>5. /\ D(0) = 0
      /\ \A n \in 0..Len(code) : D(n) \in Int
      /\ \A n \in 1..Len(code) : D(n) = D(n - 1) + N(n)
  BY <1>2, <1>3, <1>4
<1>6. QED
  BY <1>5 DEF D, N

\* The names in the declarations.
NamesOf(code) == {code[k].name : k \in 1..Len(code)}

\* A line leads from state to state.
LEMMA LineTyped ==
  ASSUME NEW code \in Seq(LineType), NEW k \in 1..Len(code),
         NEW s \in ScanStates(NamesOf(code))
  PROVE  /\ Declares(s, code[k], k) \in ScanStates(NamesOf(code))
         /\ \A r \in ScanStates(NamesOf(code)) :
              CountLine(r, code[k]) \in ScanStates(NamesOf(code))
         /\ CountLine(Braces(Declares(s, code[k], k), code[k].braces), code[k])
              \in ScanStates(NamesOf(code))
<1> DEFINE T == ScanStates(NamesOf(code))
<1>1. Declares(s, code[k], k) \in T
  <2> DEFINE m == code[k].name
             o == TRUE
             c == 0
  <2>1. m \in NamesOf(code) \cup {NoName} /\ k \in Nat /\ o \in BOOLEAN /\ c \in Nat
    BY DEF NamesOf
  <2>2. Declares(s, code[k], k) \in
          {s, [s EXCEPT !.name = m, !.at = k, !.open = o, !.body = c]}
    BY DEF Declares
  <2> HIDE DEF m, o, c
  <2>3. [s EXCEPT !.name = m, !.at = k, !.open = o, !.body = c] \in T
    BY <2>1, NamedTyped
  <2> HIDE DEF T
  <2>4. s \in T
    BY DEF T
  <2>5. QED
    BY <2>2, <2>3, <2>4
<1>2. ASSUME NEW r \in T PROVE CountLine(r, code[k]) \in T
  BY DEF CountLine, ScanStates
<1>3. ASSUME NEW r \in T PROVE Braces(r, code[k].braces) \in T
  <2> DEFINE bs == code[k].braces
  <2>1. bs \in Seq({"open", "close"})
    BY LineFacts
  <2> HIDE DEF bs
  <2>2. PICK h \in [0..Len(bs) -> T] : Braces(r, bs) = h[Len(bs)]
    BY <2>1, BracesAre
  <2>3. Len(bs) \in 0..Len(bs)
    BY <2>1
  <2> HIDE DEF T
  <2>4. Braces(r, bs) \in T
    BY <2>2, <2>3
  <2>5. QED
    BY <2>4 DEF bs
<1>4. QED
  <2> HIDE DEF T
  <2>1. CountLine(Braces(Declares(s, code[k], k), code[k].braces), code[k]) \in T
    BY <1>1, <1>2, <1>3
  <2>2. QED
    BY <1>1, <1>2, <2>1 DEF T

\* The scan, line by line.
LEMMA ScanIs ==
  ASSUME NEW code \in Seq(LineType), NEW n \in 0..Len(code)
  PROVE  \E h \in [0..n -> ScanStates(NamesOf(code))] :
           /\ Scan(code, n) = h[n]
           /\ h[0] = Outside
           /\ \A k \in 1..n : h[k] = CountLine(Braces(Declares(h[k - 1], code[k], k), code[k].braces), code[k])
<1> DEFINE N == n
           T == ScanStates(NamesOf(code))
           start == Outside
           Step(k, x) == CountLine(Braces(Declares(x, code[k], k), code[k].braces), code[k])
           F == [k \in Nat |-> [x \in T |-> IF k \in 1..N THEN Step(k, x) ELSE x]]
           Body(h) == [k \in 0..N |-> IF k = 0 THEN start ELSE CountLine(Braces(Declares(h[k - 1], code[k], k), code[k].braces), code[k])]
           H == CHOOSE h : h = Body(h)
<1>1. N \in Nat /\ start \in T
  BY DEF Outside, ScanStates
<1>2. ASSUME NEW k \in 1..N, NEW x \in T PROVE Step(k, x) \in T
  <2>1. k \in 1..Len(code)
    OBVIOUS
  <2> HIDE DEF N
  <2>2. QED
    BY <2>1, LineTyped
<1>3. F \in [Nat -> [T -> T]]
  <2> HIDE DEF T, N, Step
  <2>1. QED
    BY <1>2
<1>4. PICK g \in [0..N -> T] : Recurses(g, start, F, N)
  <2> HIDE DEF F, T, N, start
  <2>1. QED
    BY <1>1, <1>3, RecursionExists
<1>5. g[0] = start /\ \A k \in 1..N : g[k] = Step(k, g[k - 1])
  <2> HIDE DEF T, N, Step, start
  <2>1. ASSUME NEW k \in 1..N PROVE F[k][g[k - 1]] = Step(k, g[k - 1])
    <3>1. k \in Nat /\ g[k - 1] \in T
      BY <1>1
    <3>2. QED
      BY <3>1
  <2> HIDE DEF F
  <2>2. QED
    BY <1>4, <2>1 DEF Recurses
<1>6. \A h : Body(h) = [k \in 0..N |-> IF k = 0 THEN start ELSE Step(k, h[k - 1])]
  OBVIOUS
<1>7. g = Body(g)
  <2> HIDE DEF T, N, Step, start, Body
  <2>1. ASSUME NEW k \in 0..N
        PROVE  g[k] = IF k = 0 THEN start ELSE Step(k, g[k - 1])
    BY <1>1, <1>5
  <2>2. g = [k \in 0..N |-> IF k = 0 THEN start ELSE Step(k, g[k - 1])]
    BY <2>1
  <2>3. QED
    BY <1>6, <2>2
<1>8. H = Body(H)
  <2> HIDE DEF Body
  <2>1. QED
    BY <1>7
<1>9. H = [k \in 0..N |-> IF k = 0 THEN start ELSE Step(k, H[k - 1])]
  <2> HIDE DEF H, N, Step, start, Body
  <2>1. QED
    BY <1>6, <1>8
<1>10. H[0] = start /\ \A k \in 1..N : H[k] = Step(k, H[k - 1])
  <2> HIDE DEF H, N, Step, start
  <2>1. H[0] = start
    BY <1>1, <1>9
  <2>2. ASSUME NEW k \in 1..N PROVE H[k] = Step(k, H[k - 1])
    BY <1>1, <1>9
  <2>3. QED
    BY <2>1, <2>2
<1>11. \A k \in 0..N : H[k] \in T
  <2> DEFINE P == {k \in 0..N : H[k] \in T}
  <2> HIDE DEF H, N, T, Step, start
  <2>1. 0 \in P
    BY <1>1, <1>10
  <2>2. \A k \in 1..N : k - 1 \in P => k \in P
    BY <1>1, <1>2, <1>10
  <2>3. \A k \in 0..N : k \in P
    <3> HIDE DEF P
    <3>1. QED
      BY <1>1, <2>1, <2>2, Climbs
  <2>4. QED
    BY <2>3
<1>12. Scan(code, n) = H[N]
  BY DEF Scan
<1>13. H \in [0..N -> T]
  <2> HIDE DEF H, N, T, Step, start
  <2>1. QED
    BY <1>9, <1>11
<1>14. QED
  <2> HIDE DEF H
  <2>1. QED
    BY <1>10, <1>12, <1>13

\* Line n goes on with the function declared at i.
Awaits(code, i, n) ==
  /\ code[i].decl # "none" /\ DepthAfter(code, i - 1) = 0
  /\ \A k \in i..(n - 1) : DepthAfter(code, k) > 0 \/ code[k].braces = <<>>
  /\ \A k \in (i + 1)..n : DepthAfter(code, k - 1) = 0 => code[k].decl = "none"

\* The function declared at i has not ended with line n.
OpenAt(code, i, n) ==
  Awaits(code, i, n) /\ (DepthAfter(code, n) > 0 \/ code[n].braces = <<>>)

BodyOf(code, i, n) ==
  Cardinality({k \in i..n : code[k].code /\ DepthAfter(code, k) > 0})

\* The functions that end with line j and are too long.
EndAndBig(code, i, j) ==
  code[i].decl # "none" /\ EndsAt(code, i, j) /\ BodyOf(code, i, j - 1) > OVERSIZED_FN_LOC
Big(code, n) == {i \in 1..n : \E j \in i..n : EndAndBig(code, i, j)}

\* To end is to await a line with which the braces match, after the first one.
LEMMA EndsIs ==
  ASSUME NEW code, NEW i, NEW j, code[i].decl # "none"
  PROVE  EndsAt(code, i, j) <=>
           /\ Awaits(code, i, j) /\ DepthAfter(code, j) = 0
           /\ \E k \in i..j : code[k].braces # <<>>
BY DEF EndsAt, Awaits

\* What a line does to who awaits it.
LEMMA AwaitsSteps ==
  ASSUME NEW code \in Seq(LineType), NEW n \in 1..Len(code)
  PROVE  /\ Awaits(code, n, n) <=> code[n].decl # "none" /\ DepthAfter(code, n - 1) = 0
         /\ \A i \in 1..(n - 1) :
              Awaits(code, i, n) <=>
                /\ OpenAt(code, i, n - 1)
                /\ DepthAfter(code, n - 1) = 0 => code[n].decl = "none"
<1>1. Awaits(code, n, n) <=> code[n].decl # "none" /\ DepthAfter(code, n - 1) = 0
  BY DEF Awaits
<1>2. ASSUME NEW i \in 1..(n - 1)
      PROVE  Awaits(code, i, n) <=>
               /\ OpenAt(code, i, n - 1)
               /\ DepthAfter(code, n - 1) = 0 => code[n].decl = "none"
  <2>1. i..(n - 1) = i..(n - 2) \cup {n - 1} /\ n - 1 - 1 = n - 2
    OBVIOUS
  <2>2. (i + 1)..n = (i + 1)..(n - 1) \cup {n}
    OBVIOUS
  <2> DEFINE Deep(k) == DepthAfter(code, k) > 0 \/ code[k].braces = <<>>
             Next1(k) == DepthAfter(code, k - 1) = 0 => code[k].decl = "none"
  <2> HIDE DEF Deep, Next1
  <2>3. (\A k \in i..(n - 1) : Deep(k)) <=> (\A k \in i..(n - 2) : Deep(k)) /\ Deep(n - 1)
    BY <2>1
  <2>4. (\A k \in (i + 1)..n : Next1(k)) <=>
          (\A k \in (i + 1)..(n - 1) : Next1(k)) /\ Next1(n)
    BY <2>2
  <2>5. QED
    BY <2>1, <2>3, <2>4 DEF Awaits, OpenAt, Deep, Next1
<1>3. QED
  BY <1>1, <1>2

\* The lines counted.
LEMMA BodySteps ==
  ASSUME NEW code \in Seq(LineType), NEW n \in 1..Len(code), NEW i \in 1..n
  PROVE  /\ BodyOf(code, n, n - 1) = 0
         /\ BodyOf(code, i, n - 1) \in Nat
         /\ BodyOf(code, i, n) =
              BodyOf(code, i, n - 1)
                + (IF code[n].code /\ DepthAfter(code, n) > 0 THEN 1 ELSE 0)
<1> DEFINE Counts(k) == code[k].code /\ DepthAfter(code, k) > 0
           S(m) == {k \in i..m : Counts(k)}
<1>1. BodyOf(code, n, n - 1) = 0
  <2>1. {k \in n..(n - 1) : Counts(k)} = {}
    OBVIOUS
  <2>2. QED
    BY <2>1, FS_EmptySet DEF BodyOf
<1>2. IsFiniteSet(S(n - 1)) /\ Cardinality(S(n - 1)) \in Nat
  <2>1. IsFiniteSet(i..(n - 1)) /\ S(n - 1) \subseteq i..(n - 1)
    BY FS_Interval
  <2> HIDE DEF S
  <2>2. QED
    BY <2>1, FS_Subset, FS_CardinalityType
<1>3. BodyOf(code, i, n) = Cardinality(S(n)) /\ BodyOf(code, i, n - 1) = Cardinality(S(n - 1))
  BY DEF BodyOf
<1>4. CASE Counts(n)
  <2>1. S(n) = S(n - 1) \cup {n} /\ n \notin S(n - 1)
    <3> HIDE DEF Counts
    <3>1. QED
      BY <1>4
  <2>2. Cardinality(S(n)) = Cardinality(S(n - 1)) + 1
    <3> HIDE DEF S
    <3>1. QED
      BY <1>2, <2>1, FS_AddElement
  <2> HIDE DEF S
  <2>3. QED
    BY <1>1, <1>2, <1>3, <1>4, <2>2
<1>5. CASE ~Counts(n)
  <2>1. S(n) = S(n - 1)
    <3> HIDE DEF Counts
    <3>1. QED
      BY <1>5
  <2> HIDE DEF S
  <2>2. QED
    BY <1>1, <1>2, <1>3, <1>5, <2>1
<1>6. QED
  BY <1>4, <1>5

\* The functions too long that end with line n.
LEMMA BigSteps ==
  ASSUME NEW code \in Seq(LineType), NEW n \in 1..Len(code)
  PROVE  Big(code, n) = Big(code, n - 1) \cup {i \in 1..n : EndAndBig(code, i, n)}
<1>1. ASSUME NEW i \in 1..n
      PROVE  (\E j \in i..n : EndAndBig(code, i, j)) <=>
               (\E j \in i..(n - 1) : EndAndBig(code, i, j)) \/ EndAndBig(code, i, n)
  <2>1. i..n = i..(n - 1) \cup {n}
    OBVIOUS
  <2>2. QED
    BY <2>1
<1>2. ASSUME NEW i \in 1..n, \E j \in i..(n - 1) : EndAndBig(code, i, j)
      PROVE  i \in 1..(n - 1)
  BY <1>2
<1>3. 1..(n - 1) \subseteq 1..n
  OBVIOUS
<1>4. QED
  BY <1>1, <1>2, <1>3 DEF Big

\* A function that has not ended where the braces match has not begun.
LEMMA Unopened ==
  ASSUME NEW code \in Seq(LineType), NEW n \in 1..Len(code), NEW i \in 1..n,
         OpenAt(code, i, n), DepthAfter(code, n) = 0
  PROVE  \A k \in i..n : code[k].braces = <<>>
<1> DEFINE Fine(m) == \A j \in 1..m : OpenAt(code, j, m) /\ DepthAfter(code, m) = 0 =>
                        \A k \in j..m : code[k].braces = <<>>
           P == {m \in 0..Len(code) : Fine(m)}
<1>0. Len(code) \in Nat
  OBVIOUS
<1>1. 0 \in P
  OBVIOUS
<1>2. ASSUME NEW m \in 1..Len(code), m - 1 \in P PROVE m \in P
  <2>1. ASSUME NEW j \in 1..m, OpenAt(code, j, m), DepthAfter(code, m) = 0, NEW k \in j..m
        PROVE  code[k].braces = <<>>
    <3>1. code[m].braces = <<>> /\ Awaits(code, j, m)
      BY <2>1 DEF OpenAt
    <3>2. CASE k = m
      BY <3>1, <3>2
    <3>3. CASE k # m
      <4>1. j \in 1..(m - 1) /\ k \in j..(m - 1) /\ m - 1 \in 0..Len(code)
        BY <3>3
      <4>2. OpenAt(code, j, m - 1)
        BY <3>1, <4>1, AwaitsSteps
      <4>3. DepthAfter(code, m - 1) = 0
        <5>1. Net(code[m].braces, Len(code[m].braces)) = 0
          <6>1. <<>> \in Seq({"open", "close"})
            OBVIOUS
          <6>2. Net(<<>>, Len(<<>>)) = 0
            BY <6>1, NetSteps
          <6>3. QED
            BY <3>1, <6>2
        <5>2. DepthAfter(code, m - 1) \in Int
          BY <4>1, Depths
        <5>3. DepthAfter(code, m) = DepthAfter(code, m - 1) + Net(code[m].braces, Len(code[m].braces))
          BY Depths
        <5>4. QED
          BY <2>1, <5>1, <5>2, <5>3
      <4>4. QED
        BY <1>2, <4>1, <4>2, <4>3
    <3>4. QED
      BY <3>2, <3>3
  <2>2. Fine(m)
    BY <2>1
  <2> HIDE DEF Fine
  <2>3. QED
    BY <2>2
<1>3. n \in P
  <2>1. \A m \in 0..Len(code) : m \in P
    <3> HIDE DEF P
    <3>1. QED
      BY <1>0, <1>1, <1>2, Climbs
  <2> HIDE DEF P
  <2>2. QED
    BY <1>0, <2>1
<1>4. QED
  BY <1>3

\* What the scan knows before the braces of line n, of the functions Open,
\* whose lines so far are Count.
Knows(s, depth, found, Open(_), Count(_), n) ==
  /\ s.depth = depth /\ depth >= 0 /\ (s.depth > 0 => s.open)
  /\ ~s.open => s.name = NoName
  /\ s.found = found
  /\ s.name # NoName => s.at \in 1..n /\ Open(s.at) /\ s.body = Count(s.at)
  /\ \A i \in 1..n : Open(i) => s.name # NoName /\ s.at = i

Declared(code, n, s) ==
  Knows(s, DepthAfter(code, n - 1), Big(code, n - 1),
        LAMBDA i : Awaits(code, i, n), LAMBDA i : BodyOf(code, i, n - 1), n)

Scanned(code, n, s) ==
  Knows(s, DepthAfter(code, n), Big(code, n),
        LAMBDA i : OpenAt(code, i, n), LAMBDA i : BodyOf(code, i, n), n)

\* The declaration.
LEMMA DeclaresDoes ==
  ASSUME NEW code \in Seq(LineType), NEW n \in 1..Len(code),
         NEW s \in ScanStates(NamesOf(code)), Scanned(code, n - 1, s)
  PROVE  Declared(code, n, Declares(s, code[n], n))
<1> DEFINE e == Declares(s, code[n], n)
           D == DepthAfter(code, n - 1)
<1>1. /\ s.depth = D /\ D >= 0 /\ (s.depth > 0 => s.open) /\ (~s.open => s.name = NoName)
      /\ s.found = Big(code, n - 1)
      /\ s.name # NoName => /\ s.at \in 1..(n - 1) /\ OpenAt(code, s.at, n - 1)
                            /\ s.body = BodyOf(code, s.at, n - 1)
      /\ \A i \in 1..(n - 1) : OpenAt(code, i, n - 1) => s.name # NoName /\ s.at = i
  BY DEF Scanned, Knows
<1>2. /\ Awaits(code, n, n) <=> code[n].decl # "none" /\ D = 0
      /\ \A i \in 1..(n - 1) :
           Awaits(code, i, n) <=> OpenAt(code, i, n - 1) /\ (D = 0 => code[n].decl = "none")
  BY AwaitsSteps
<1>3. CASE D = 0 /\ code[n].decl # "none"
  <2>1. code[n].name # NoName /\ BodyOf(code, n, n - 1) = 0
    BY <1>3, LineFacts, BodySteps
  <2>2. e = [s EXCEPT !.name = code[n].name, !.at = n, !.open = TRUE, !.body = 0]
    BY <1>1, <1>3 DEF Declares
  <2>3. e.name = code[n].name /\ e.at = n /\ e.body = 0 /\ e.depth = s.depth /\ e.found = s.found
    BY <2>2 DEF ScanStates
  <2>4. e.open
    BY <2>2 DEF ScanStates
  <2>5. \A i \in 1..n : Awaits(code, i, n) <=> i = n
    <3>1. ASSUME NEW i \in 1..n PROVE i \in 1..(n - 1) \/ i = n
      OBVIOUS
    <3>2. QED
      BY <1>2, <1>3, <3>1
  <2> HIDE DEF e, D
  <2>6. Declared(code, n, e)
    <3>1. e.depth = D /\ D >= 0 /\ (e.depth > 0 => e.open) /\ (~e.open => e.name = NoName)
      BY <1>1, <2>3, <2>4
    <3>2. e.name # NoName => e.at \in 1..n /\ Awaits(code, e.at, n) /\ e.body = BodyOf(code, e.at, n - 1)
      BY <2>1, <2>3, <2>5
    <3>3. \A i \in 1..n : Awaits(code, i, n) => e.name # NoName /\ e.at = i
      BY <2>1, <2>3, <2>5
    <3>4. e.found = Big(code, n - 1)
      BY <1>1, <2>3
    <3>5. QED
      BY <3>1, <3>2, <3>3, <3>4 DEF Declared, Knows, D
  <2>7. QED
    BY <2>6 DEF e
<1>4. CASE ~(D = 0 /\ code[n].decl # "none")
  <2>1. e = s
    BY <1>1, <1>4 DEF Declares
  <2>2. \A i \in 1..n : Awaits(code, i, n) <=> i \in 1..(n - 1) /\ OpenAt(code, i, n - 1)
    <3>1. ASSUME NEW i \in 1..n PROVE i \in 1..(n - 1) \/ i = n
      OBVIOUS
    <3>2. QED
      BY <1>2, <1>4, <3>1
  <2> HIDE DEF e, D
  <2>3. Declared(code, n, e)
    <3>1. 1..(n - 1) \subseteq 1..n
      OBVIOUS
    <3>2. e.name # NoName => e.at \in 1..n /\ Awaits(code, e.at, n) /\ e.body = BodyOf(code, e.at, n - 1)
      BY <1>1, <2>1, <2>2, <3>1
    <3>3. \A i \in 1..n : Awaits(code, i, n) => e.name # NoName /\ e.at = i
      BY <1>1, <2>1, <2>2
    <3>4. QED
      BY <1>1, <2>1, <3>2, <3>3 DEF Declared, Knows, D
  <2>4. QED
    BY <2>3 DEF e
<1>5. QED
  BY <1>3, <1>4

\* The braces of the line, and the line itself.
LEMMA LineDoes ==
  ASSUME NEW code \in Seq(LineType), Balanced(code), NEW n \in 1..Len(code),
         NEW s \in ScanStates(NamesOf(code)), Declared(code, n, s)
  PROVE  Scanned(code, n, CountLine(Braces(s, code[n].braces), code[n]))
<1> DEFINE bs == code[n].braces
           D == DepthAfter(code, n)
           D0 == DepthAfter(code, n - 1)
           r == Braces(s, bs)
           t == CountLine(r, code[n])
           T == ScanStates(NamesOf(code))
           one == IF code[n].code /\ D > 0 THEN 1 ELSE 0
<1>1. /\ s.depth = D0 /\ D0 >= 0 /\ (s.depth > 0 => s.open) /\ (~s.open => s.name = NoName)
      /\ s.found = Big(code, n - 1)
      /\ s.name # NoName => /\ s.at \in 1..n /\ Awaits(code, s.at, n)
                            /\ s.body = BodyOf(code, s.at, n - 1)
      /\ \A i \in 1..n : Awaits(code, i, n) => s.name # NoName /\ s.at = i
  BY DEF Declared, Knows
<1>2. /\ bs \in Seq({"open", "close"}) /\ D0 \in Int /\ D \in Int
      /\ D = D0 + Net(bs, Len(bs)) /\ D >= 0
      /\ \A m \in 1..(Len(bs) - 1) : D0 + Net(bs, m) > 0
  <2>1. n - 1 \in 0..Len(code) /\ n \in 0..Len(code) /\ n \in DOMAIN code
    OBVIOUS
  <2>2. bs \in Seq({"open", "close"})
    BY LineFacts
  <2>3. D0 \in Int /\ D \in Int /\ D = D0 + Net(bs, Len(bs))
    BY <2>1, Depths
  <2>4. D >= 0 /\ \A m \in 1..(Len(bs) - 1) : D0 + Net(bs, m) > 0
    BY <2>1 DEF Balanced
  <2>5. QED
    BY <2>2, <2>3, <2>4
<1>3. \A i \in 1..n : BodyOf(code, i, n) = BodyOf(code, i, n - 1) + one
                      /\ BodyOf(code, i, n - 1) \in Nat
  BY BodySteps
<1>4. Big(code, n) = Big(code, n - 1) \cup {i \in 1..n : EndAndBig(code, i, n)}
  BY BigSteps
<1>5. \A i \in 1..n : EndAndBig(code, i, n) <=>
        /\ Awaits(code, i, n) /\ D = 0 /\ (\E k \in i..n : code[k].braces # <<>>)
        /\ BodyOf(code, i, n - 1) > OVERSIZED_FN_LOC
  BY EndsIs DEF EndAndBig, Awaits
<1>6. \A i \in 1..n : OpenAt(code, i, n) <=> Awaits(code, i, n) /\ (D > 0 \/ bs = <<>>)
  BY DEF OpenAt
<1>7. ASSUME r \in T, r.depth = D
      PROVE  /\ t.depth = D /\ t.open = r.open /\ t.name = r.name /\ t.at = r.at
             /\ t.found = r.found
             /\ t.body = r.body + one
  <2>0. code[n].code \in BOOLEAN
    BY LineFacts
  <2> HIDE DEF r, D
  <2>1. CASE D > 0 /\ code[n].code
    <3>1. t = [r EXCEPT !.body = @ + 1]
      BY <1>7, <2>1 DEF CountLine
    <3>2. one = 1
      BY <2>1
    <3> HIDE DEF t, one
    <3>3. QED
      BY <1>7, <3>1, <3>2 DEF ScanStates
  <2>2. CASE ~(D > 0 /\ code[n].code)
    <3>1. t = r
      BY <1>7, <2>2 DEF CountLine
    <3>2. one = 0
      BY <2>0, <2>2
    <3>3. r.body \in Nat
      BY <1>7 DEF ScanStates
    <3> HIDE DEF t, one
    <3>4. QED
      BY <1>7, <3>1, <3>2, <3>3
  <2>3. QED
    BY <2>1, <2>2
<1>8. ASSUME r \in T, r.depth = D, r.depth > 0 => r.open, ~r.open => r.name = NoName,
             r.name = s.name, r.at = s.at, r.found = s.found,
             s.name # NoName => r.body = s.body,
             D > 0 \/ bs = <<>>
      PROVE  Scanned(code, n, t)
  <2> HIDE DEF r, bs, D, one, T, t
  <2>1. {i \in 1..n : EndAndBig(code, i, n)} = {}
    <3>1. ASSUME NEW i \in 1..n, EndAndBig(code, i, n) PROVE FALSE
      <4>1. /\ Awaits(code, i, n) /\ D = 0
            /\ \E k \in i..n : code[k].braces # <<>>
        BY <1>5, <3>1
      <4>2. OpenAt(code, i, n)
        BY <1>6, <1>8, <4>1
      <4>3. \A k \in i..n : code[k].braces = <<>>
        BY <4>1, <4>2, Unopened DEF D
      <4>4. QED
        BY <4>1, <4>3
    <3>2. QED
      BY <3>1
  <2>2. t.found = Big(code, n)
    BY <1>1, <1>4, <1>7, <1>8, <2>1
  <2>3. \A i \in 1..n : OpenAt(code, i, n) <=> Awaits(code, i, n)
    BY <1>6, <1>8
  <2>4. t.name # NoName => t.at \in 1..n /\ OpenAt(code, t.at, n) /\ t.body = BodyOf(code, t.at, n)
    BY <1>1, <1>3, <1>7, <1>8, <2>3
  <2>5. \A i \in 1..n : OpenAt(code, i, n) => t.name # NoName /\ t.at = i
    BY <1>1, <1>7, <1>8, <2>3
  <2>6. t.depth = D /\ D >= 0 /\ (t.depth > 0 => t.open) /\ (~t.open => t.name = NoName)
    BY <1>2, <1>7, <1>8
  <2>7. QED
    BY <2>2, <2>4, <2>5, <2>6 DEF Scanned, Knows, D
<1>9. CASE bs = <<>>
  <2>1. r = s
    <3>1. PICK h \in [0..Len(bs) -> T] : r = h[Len(bs)] /\ h[0] = s
      <4> HIDE DEF bs
      <4>1. QED
        BY <1>2, BracesAre
    <3>2. QED
      BY <1>9, <3>1
  <2>2. D = D0
    <3>1. Net(bs, Len(bs)) = 0
      <4>1. Net(bs, 0) = 0
        BY <1>2, NetSteps
      <4>2. QED
        BY <1>9, <4>1
    <3> HIDE DEF bs, D, D0
    <3>2. QED
      BY <1>2, <3>1
  <2> HIDE DEF r, bs, D, D0, t
  <2>3. r \in T
    BY <2>1
  <2>4. /\ r.depth = D /\ (r.depth > 0 => r.open) /\ (~r.open => r.name = NoName)
        /\ r.name = s.name /\ r.at = s.at /\ r.found = s.found
        /\ s.name # NoName => r.body = s.body
    BY <1>1, <2>1, <2>2
  <2> HIDE DEF T
  <2>5. Scanned(code, n, t)
    BY <1>8, <1>9, <2>3, <2>4
  <2>6. QED
    BY <2>5 DEF t, r, bs
<1>10. CASE bs # <<>>
  <2>1. r \in T /\ (D > 0 => Inside(r, s, D)) /\ (D = 0 => Ends(r, s))
    <3> HIDE DEF r, bs, D, D0
    <3>1. /\ Braces(s, bs) \in ScanStates(NamesOf(code))
          /\ D > 0 => Inside(Braces(s, bs), s, D)
          /\ D = 0 => Ends(Braces(s, bs), s)
      BY <1>1, <1>2, <1>10, BracesDo
    <3>2. QED
      BY <3>1 DEF r
  <2>2. CASE D > 0
    <3>1. /\ r.depth = D /\ r.open /\ r.body = (IF s.open THEN s.body ELSE 0)
          /\ r.name = s.name /\ r.at = s.at /\ r.found = s.found
      BY <2>1, <2>2 DEF Inside
    <3>2. s.open \in BOOLEAN
      BY DEF ScanStates
    <3> HIDE DEF r, bs, D, D0, t
    <3>3. s.name # NoName => r.body = s.body
      BY <1>1, <3>1, <3>2
    <3>4. /\ r \in T /\ r.depth = D /\ (r.depth > 0 => r.open) /\ (~r.open => r.name = NoName)
          /\ r.name = s.name /\ r.at = s.at /\ r.found = s.found
          /\ s.name # NoName => r.body = s.body
          /\ D > 0 \/ bs = <<>>
      BY <2>1, <2>2, <3>1, <3>3
    <3> HIDE DEF T
    <3>5. Scanned(code, n, t)
      BY <1>8, <3>4
    <3>6. QED
      BY <3>5 DEF t, r, bs
  <2>3. CASE D = 0
    <3>1. /\ r.depth = 0 /\ ~r.open /\ r.name = NoName
          /\ r.found = IF s.name # NoName /\ s.body > OVERSIZED_FN_LOC
                         THEN s.found \cup {s.at} ELSE s.found
      BY <2>1, <2>3 DEF Ends
    <3> HIDE DEF r, bs, D, D0, t, one
    <3>2. \A i \in 1..n : ~OpenAt(code, i, n)
      BY <1>6, <1>10, <2>3
    <3>3. \A i \in 1..n : EndAndBig(code, i, n) <=>
            Awaits(code, i, n) /\ BodyOf(code, i, n - 1) > OVERSIZED_FN_LOC
      <4>1. \A i \in 1..n : n \in i..n
        OBVIOUS
      <4>2. \A i \in 1..n : \E k \in i..n : code[k].braces # <<>>
        BY <1>10, <4>1 DEF bs
      <4>3. QED
        BY <1>5, <2>3, <4>2
    <3>4. {i \in 1..n : EndAndBig(code, i, n)} =
            IF s.name # NoName /\ s.body > OVERSIZED_FN_LOC THEN {s.at} ELSE {}
      <4>1. CASE s.name # NoName
        <5>1. \A i \in 1..n : Awaits(code, i, n) <=> i = s.at
          BY <1>1, <4>1
        <5>2. s.at \in 1..n /\ s.body = BodyOf(code, s.at, n - 1)
          BY <1>1, <4>1
        <5>3. QED
          BY <3>3, <4>1, <5>1, <5>2
      <4>2. CASE s.name = NoName
        BY <1>1, <3>3, <4>2
      <4>3. QED
        BY <4>1, <4>2
    <3>5. r.found = Big(code, n)
      BY <1>1, <1>4, <3>1, <3>4
    <3>6. t.depth = D /\ t.name = NoName /\ t.found = Big(code, n)
      BY <1>7, <2>1, <2>3, <3>1, <3>5
    <3>7. ~(t.depth > 0)
      BY <2>3, <3>6
    <3>8. Scanned(code, n, t)
      BY <1>2, <2>3, <3>2, <3>6, <3>7 DEF Scanned, Knows, D
    <3>9. QED
      BY <3>8 DEF t, r, bs
  <2>4. QED
    BY <1>2, <2>2, <2>3
<1>11. QED
  BY <1>9, <1>10

\* SLOP-001 reports the functions with too many lines.
LEMMA OversizedFound ==
  ASSUME NEW code \in Seq(LineType), Balanced(code)
  PROVE  slop_001_oversized(code) = {<<"SLOP-001", i>> : i \in OversizedFunctions(code)}
<1> DEFINE N == Len(code)
           T == ScanStates(NamesOf(code))
<1>0. N \in Nat /\ N \in 0..N
  OBVIOUS
<1>1. PICK h \in [0..N -> T] :
           /\ Scan(code, N) = h[N]
           /\ h[0] = Outside
           /\ \A k \in 1..N :
                h[k] = CountLine(Braces(Declares(h[k - 1], code[k], k), code[k].braces), code[k])
  BY <1>0, ScanIs
<1> DEFINE P == {k \in 0..N : Scanned(code, k, h[k])}
<1>2. 0 \in P
  <2>1. DepthAfter(code, 0) = 0 /\ Big(code, 0) = {}
    BY Depths DEF Big
  <2>2. QED
    <3>1. /\ h[0].depth = 0 /\ h[0].name = NoName /\ h[0].found = {} /\ ~h[0].open
      BY <1>1 DEF Outside
    <3>2. Scanned(code, 0, h[0])
      BY <2>1, <3>1 DEF Scanned, Knows
    <3>3. QED
      BY <1>0, <3>2
<1>3. ASSUME NEW k \in 1..N, k - 1 \in P PROVE k \in P
  <2> DEFINE s == h[k - 1]
             e == Declares(s, code[k], k)
  <2>1. s \in T /\ Scanned(code, k - 1, s)
    BY <1>0, <1>1, <1>3
  <2>2. e \in T /\ Declared(code, k, e)
    <3> HIDE DEF s
    <3>1. QED
      BY <2>1, LineTyped, DeclaresDoes
  <2>3. Scanned(code, k, CountLine(Braces(e, code[k].braces), code[k]))
    <3> HIDE DEF e
    <3>1. QED
      BY <2>2, LineDoes
  <2>4. QED
    BY <1>0, <1>1, <2>3
<1>4. Scanned(code, N, Scan(code, N))
  <2>1. \A k \in 0..N : k \in P
    <3> HIDE DEF P, N
    <3>1. QED
      BY <1>0, <1>2, <1>3, Climbs
  <2>2. N \in P
    <3> HIDE DEF P
    <3>1. QED
      BY <1>0, <2>1
  <2>3. QED
    BY <1>1, <2>2
<1>5. Scan(code, N).found = Big(code, N)
  BY <1>4 DEF Scanned, Knows
<1>6. Big(code, N) = OversizedFunctions(code)
  BY DEF Big, EndAndBig, BodyOf, OversizedFunctions
<1>7. QED
  BY <1>5, <1>6 DEF slop_001_oversized

-----------------------------------------------------------------------------
(* The flag of the tests and the secrets.                                  *)

\* The flag of the unwraps at once: the last line up to n that is an attribute
\* or declares a function is an attribute, or its function is named as a test.
FlagStands(code, n) ==
  \E i \in 1..n :
    /\ "test_attr" \in code[i].marks \/ (code[i].decl # "none" /\ code[i].test)
    /\ \A k \in (i + 1)..n :
         code[k].decl = "none" /\ "test_attr" \notin code[k].marks

\* The flag is up inside a test.
LEMMA FlagIsStanding ==
  ASSUME NEW code \in Seq(LineType), NEW n \in 0..Len(code)
  PROVE  InTest(code, n) <=> FlagStands(code, n)
<1> DEFINE Attr(k) == "test_attr" \in code[k].marks
           Test(k) == Attr(k) \/ (code[k].decl # "none" /\ code[k].test)
           Plain(k) == code[k].decl = "none" /\ ~Attr(k)
           Within(k) == \E i \in 1..k : Test(i) /\ \A m \in (i + 1)..k : Plain(m)
<1>1. PICK h \in [0..n -> BOOLEAN] :
           /\ InTest(code, n) = h[n]
           /\ h[0] = FALSE
           /\ \A k \in 1..n : h[k] = (IF Attr(k) THEN TRUE
                                      ELSE IF code[k].decl # "none" THEN code[k].test
                                      ELSE h[k - 1])
  BY FlagIs
<1>2. \A k : FlagStands(code, k) <=> Within(k)
  BY DEF FlagStands
<1> DEFINE P == {k \in 0..n : h[k] <=> Within(k)}
<1>3. 0 \in P
  BY <1>1
<1>4. ASSUME NEW k \in 1..n, k - 1 \in P PROVE k \in P
  <2>0. k \in 1..k /\ (k + 1)..k = {} /\ k \in 0..n /\ h[k] \in BOOLEAN
    OBVIOUS
  <2>1. CASE Attr(k)
    <3>1. h[k]
      BY <1>1, <2>1
    <3>2. Test(k)
      BY <2>1
    <3>3. Within(k)
      <4> HIDE DEF Test, Plain
      <4>1. QED
        BY <2>0, <3>2
    <3> HIDE DEF Within
    <3>4. QED
      BY <2>0, <3>1, <3>3
  <2>2. CASE ~Attr(k) /\ code[k].decl # "none"
    <3>1. h[k] = code[k].test /\ code[k].test \in BOOLEAN
      <4> HIDE DEF Attr
      <4>1. code[k].test \in BOOLEAN
        BY LineFacts
      <4>2. QED
        BY <1>1, <2>2, <4>1
    <3>2. Test(k) <=> code[k].test
      BY <2>2, <3>1
    <3>3. ~Plain(k)
      BY <2>2
    <3>4. Within(k) <=> Test(k)
      <4> HIDE DEF Test, Plain
      <4>1. ASSUME NEW i \in 1..k, Test(i), \A m \in (i + 1)..k : Plain(m) PROVE i = k
        BY <3>3, <4>1
      <4>2. QED
        BY <2>0, <4>1
    <3> HIDE DEF Within, Test
    <3>5. QED
      BY <2>0, <3>1, <3>2, <3>4
  <2>3. CASE ~Attr(k) /\ code[k].decl = "none"
    <3>1. h[k] = h[k - 1] /\ h[k - 1] \in BOOLEAN
      <4> HIDE DEF Attr
      <4>1. h[k] = (IF Attr(k) THEN TRUE
                    ELSE IF code[k].decl # "none" THEN code[k].test ELSE h[k - 1])
        BY <1>1
      <4>2. k - 1 \in 0..n
        OBVIOUS
      <4>3. h[k - 1] \in BOOLEAN
        BY <4>2
      <4>4. h[k] = h[k - 1]
        BY <2>3, <4>1
      <4>5. QED
        BY <4>3, <4>4
    <3>2. ~Test(k) /\ Plain(k)
      BY <2>3
    <3>3. Within(k) <=> Within(k - 1)
      <4> HIDE DEF Test, Plain
      <4>1. ASSUME NEW i \in 1..(k - 1) PROVE (i + 1)..k = (i + 1)..(k - 1) \cup {k}
        OBVIOUS
      <4>2. 1..k = 1..(k - 1) \cup {k}
        OBVIOUS
      <4>3. QED
        BY <3>2, <4>1, <4>2
    <3>4. h[k - 1] <=> Within(k - 1)
      BY <1>4
    <3> HIDE DEF Within
    <3>5. QED
      BY <2>0, <3>1, <3>3, <3>4
  <2> HIDE DEF P
  <2>4. QED
    BY <2>1, <2>2, <2>3
<1>5. \A k \in 0..n : k \in P
  <2> HIDE DEF P
  <2>1. n \in Nat
    OBVIOUS
  <2>2. QED
    BY <1>3, <1>4, <2>1, Climbs
<1>6. h[n] <=> Within(n)
  <2>1. n \in P
    <3> HIDE DEF P
    <3>1. QED
      BY <1>5
  <2> HIDE DEF Within
  <2>2. QED
    BY <2>1
<1>7. QED
  <2> HIDE DEF Within
  <2>1. h[n] \in BOOLEAN
    OBVIOUS
  <2>2. QED
    BY <1>1, <1>2, <1>6, <2>1

\* SLOP-004 reports the unwraps of a function unless it is named as a test.
LEMMA UnwrapsFound ==
  ASSUME NEW code \in Seq(LineType), NEW i \in DOMAIN code, "unwrap" \in code[i].marks,
         NEW f \in 1..i, InFunction(code, f, i)
  PROVE  <<"SLOP-004", i>> \in slop_004_unwrap(code) <=> ~code[f].test
<1>1. i \in 0..Len(code) /\ i \in Nat /\ f \in 1..Len(code)
  OBVIOUS
<1>2. InTest(code, i) <=> FlagStands(code, i)
  BY <1>1, FlagIsStanding
<1>3. <<"SLOP-004", i>> \in slop_004_unwrap(code) <=> ~InTest(code, i)
  <2> DEFINE J == {j \in DOMAIN code : "unwrap" \in code[j].marks /\ ~InTest(code, j)}
  <2>1. i \in J <=> ~InTest(code, i)
    OBVIOUS
  <2>2. slop_004_unwrap(code) = {<<"SLOP-004", j>> : j \in J}
    BY DEF slop_004_unwrap
  <2> HIDE DEF J
  <2>3. QED
    BY <2>1, <2>2
<1>4. /\ code[f].decl # "none" /\ "test_attr" \notin code[f].marks
      /\ \A k \in (f + 1)..i : code[k].decl = "none" /\ "test_attr" \notin code[k].marks
  BY <1>1, LineFacts DEF InFunction
<1>5. ASSUME NEW m \in 1..i,
             "test_attr" \in code[m].marks \/ (code[m].decl # "none" /\ code[m].test),
             \A k \in (m + 1)..i : code[k].decl = "none" /\ "test_attr" \notin code[k].marks
      PROVE  m = f
  <2>1. ~(f < m)
    <3>1. f < m => m \in (f + 1)..i
      BY <1>1
    <3>2. QED
      BY <1>4, <1>5, <3>1
  <2>2. ~(m < f)
    <3>1. m < f => f \in (m + 1)..i
      BY <1>1
    <3>2. QED
      BY <1>4, <1>5, <3>1
  <2>3. QED
    BY <1>1, <2>1, <2>2
<1>6. FlagStands(code, i) <=> code[f].test
  <2>1. ASSUME FlagStands(code, i) PROVE code[f].test
    <3>1. PICK m \in 1..i :
            /\ "test_attr" \in code[m].marks \/ (code[m].decl # "none" /\ code[m].test)
            /\ \A k \in (m + 1)..i : code[k].decl = "none" /\ "test_attr" \notin code[k].marks
      BY <2>1 DEF FlagStands
    <3>2. m = f
      BY <1>5, <3>1
    <3>3. QED
      BY <1>4, <3>1, <3>2
  <2>2. ASSUME code[f].test PROVE FlagStands(code, i)
    BY <1>4, <2>2 DEF FlagStands
  <2>3. QED
    BY <1>1, <2>1, <2>2, LineFacts
<1>7. QED
  BY <1>2, <1>3, <1>6

\* Blank lines hold no secret.
LEMMA BlankIsClean ==
  ASSUME NEW code \in Seq(LineType), Blank(code)
  PROVE  naive_hardcoded_secret(code) = 0
<1> DEFINE N == Len(code)
<1>1. PICK h \in [0..N -> Nat] :
           /\ naive_hardcoded_secret(code) = h[N]
           /\ h[0] = 0
           /\ \A k \in 1..N : h[k] = h[k - 1] + code[k].secrets
  BY HitsAre
<1>2. ASSUME NEW k \in 1..N PROVE code[k].secrets = 0
  BY LineFacts DEF Blank
<1> DEFINE P == {k \in 0..N : h[k] = 0}
<1>3. N \in Nat /\ 0 \in P
  BY <1>1
<1>4. \A k \in 1..N : k - 1 \in P => k \in P
  BY <1>1, <1>2
<1>5. \A k \in 0..N : k \in P
  <2> HIDE DEF P, N
  <2>1. QED
    BY <1>3, <1>4, Climbs
<1>6. N \in P
  <2> HIDE DEF P
  <2>1. QED
    BY <1>3, <1>5
<1>7. QED
  BY <1>1, <1>6

-----------------------------------------------------------------------------
(* The pipeline and the guard.                                            *)

\* The verdict is what synthesize makes of reports that no longer change.
VerdictKept == verdict.status # "none" => pending = {} /\ verdict = Synthesize

NoReport == slop = None /\ security = None /\ arch = None

\* The decision is what the guard makes of the verdict.
DecisionKept ==
  decision # "none" =>
    /\ verdict.status # "none"
    /\ NoReport => decision = "Block"
    /\ (~Complete /\ decision = "Block") \/ decision \in FromRisk(verdict.risk)

PipelineInv == TypeOK /\ VerdictKept /\ DecisionKept

USE NoneAssumption, ScoresAssumption, ReportAssumption DEF Analyzers

\* Reports are integers and records where they are not None.
LEMMA ReportTypes ==
  ASSUME TypeOK, Complete
  PROVE  /\ slop \in Int /\ arch \in Int
         /\ security \in SecurityReports /\ security.findings \in Nat
  BY DEF TypeOK, Complete, SecurityReports

\* The risk is a percentage.
LEMMA RiskRange ==
  ASSUME NEW s \in Int, NEW a \in Int, NEW sec, sec.findings \in Nat
  PROVE  Risk(s, sec, a) \in 0..100
<1>1. 2 * s + 2 * a + Least(5 * sec.findings, 20) \in Int
  BY DEF Least
<1>2. QED
  BY <1>1 DEF Risk, Clamp

\* synthesize makes a verdict.
LEMMA SynthesizeType ==
  ASSUME TypeOK
  PROVE  Synthesize \in Verdicts
<1> USE DEF Verdicts, Statuses
<1>1. CASE Complete
  BY <1>1, ReportTypes, RiskRange DEF Complete, Synthesize, Status
<1>2. CASE ~Complete
  BY <1>2 DEF Complete, Synthesize
<1>3. QED
  BY <1>1, <1>2

\* The risk of a verdict is a percentage.
LEMMA VerdictRange == TypeOK => verdict.risk \in 0..100
  BY DEF TypeOK, Verdicts

\* The pipeline starts in the invariant.
LEMMA InitPipeline == Init => PipelineInv
  BY DEF Init, PipelineInv, TypeOK, VerdictKept, DecisionKept

\* Every step keeps the invariant.
LEMMA NextPipeline == PipelineInv /\ [Next]_vars => PipelineInv'
<1> SUFFICES ASSUME PipelineInv, [Next]_vars PROVE PipelineInv'
  OBVIOUS
<1> USE DEF PipelineInv
<1>1. CASE SlopEnds \/ SecurityEnds \/ ArchEnds
  <2>1. verdict.status = "none" /\ decision = "none"
    BY <1>1 DEF VerdictKept, DecisionKept, SlopEnds, RunsTo, SecurityEnds, ArchEnds
  <2>2. verdict' = verdict /\ decision' = decision
    BY <1>1 DEF RunsTo, SlopEnds, SecurityEnds, ArchEnds
  <2>3. TypeOK'
    BY <1>1 DEF TypeOK, SlopEnds, RunsTo, SecurityEnds, ArchEnds
  <2>4. QED
    BY <2>1, <2>2, <2>3 DEF VerdictKept, DecisionKept
<1>2. CASE Verdict
  <2>1. TypeOK'
    BY <1>2, SynthesizeType DEF Verdict, TypeOK
  <2>2. decision = "none"
    BY <1>2 DEF Verdict, DecisionKept
  <2>3. QED
    BY <1>2, <2>1, <2>2 DEF Verdict, VerdictKept, DecisionKept, Synthesize
<1>3. CASE Guard
  <2>1. /\ UNCHANGED <<pending, slop, security, arch, verdict>>
        /\ verdict.status # "none"
    BY <1>3 DEF Guard
  <2>2. TypeOK'
    BY <1>3, <2>1 DEF Guard, TypeOK, FromRisk
  <2>3. VerdictKept'
    BY <2>1 DEF VerdictKept, Synthesize
  <2>4. DecisionKept'
    BY <1>3, <2>1 DEF Guard, DecisionKept, NoReport, Complete, FromRisk
  <2>5. QED
    BY <2>2, <2>3, <2>4
<1>4. CASE UNCHANGED vars
  BY <1>4 DEF vars, TypeOK, VerdictKept, DecisionKept, FromRisk, Complete,
              NoReport, Synthesize
<1>5. QED
  BY <1>1, <1>2, <1>3, <1>4 DEF Next

\* A pipeline that is made anew is in the invariant.
LEMMA IdlePipeline ==
  ASSUME NEW analyzers \in SUBSET Analyzers, Idle(analyzers)
  PROVE  PipelineInv'
  BY DEF Idle, PipelineInv, TypeOK, VerdictKept, DecisionKept

\* Each tool has analyzers of its own.
LEMMA SpecialistType ==
  ASSUME NEW tool \in Tools
  PROVE  Specialist(tool) \in SUBSET Analyzers
  BY DEF Tools, Specialist

\* What the entry points do to the pipeline: nothing, a step of it, or a new
\* one.
LEMMA EntrySteps ==
  EntryNext => \/ [Next]_vars
               \/ \E analyzers \in SUBSET Analyzers : Idle(analyzers)
<1> SUFFICES ASSUME EntryNext PROVE \/ [Next]_vars
                                   \/ \E analyzers \in SUBSET Analyzers : Idle(analyzers)
  OBVIOUS
<1>1. CASE StartProgram \/ OtherCaller
  BY <1>1 DEF StartProgram, Starts, OtherCaller
<1>2. CASE Done
  BY <1>2 DEF Done
<1>3. CASE Asks
  BY <1>3 DEF Asks, RunCommand, DemoAnalyze, ApiRefuses, ApiAccepts, SubmitForm,
              AcceptsKey, AnalyzeSnippet, GetPage, GetBriefing, GetEnterprise,
              CallTool
<1>4. CASE ReadDiff
  BY <1>4 DEF ReadDiff, Analyzes
<1>5. CASE ReadKey
  BY <1>5 DEF ReadKey, Analyzes
<1>6. CASE ToolRuns
  <2>1. call.door \in Tools /\ Idle(Specialist(call.door))
    BY <1>6 DEF ToolRuns
  <2>2. QED
    BY <2>1, SpecialistType
<1>7. CASE AnalyzerEnds \/ Judges
  BY <1>7 DEF AnalyzerEnds, Judges, Next
<1>8. CASE \/ RefusesCommand \/ EmptyDiff \/ ListPrompts \/ Health \/ LensFails
           \/ LensScript \/ LensWrites \/ Fetch \/ ToolRefuses \/ GuardAnswers
           \/ VerifyAnswers \/ WebAnswers \/ SpecialistAnswers \/ VerdictAnswers
  BY <1>8 DEF RefusesCommand, EmptyDiff, ListPrompts, Health, LensFails,
              LensScript, LensWrites, Fetch, ToolRefuses, GuardAnswers,
              VerifyAnswers, WebAnswers, SpecialistAnswers, VerdictAnswers
<1>9. QED
  BY <1>1, <1>2, <1>3, <1>4, <1>5, <1>6, <1>7, <1>8 DEF EntryNext, Works

\* Whichever way analyses are asked for, the invariant is kept.
LEMMA EntryPipeline == PipelineInv /\ [EntryNext]_allVars => PipelineInv'
<1> SUFFICES ASSUME PipelineInv, [EntryNext]_allVars PROVE PipelineInv'
  OBVIOUS
<1>1. CASE [Next]_vars
  BY <1>1, NextPipeline
<1>2. CASE \E analyzers \in SUBSET Analyzers : Idle(analyzers)
  BY <1>2, IdlePipeline
<1>3. UNCHANGED allVars => UNCHANGED vars
  BY DEF allVars, vars
<1>4. QED
  BY <1>1, <1>2, <1>3, EntrySteps

\* What is not blocked is not above the threshold.
LEMMA PassedRisk ==
  ASSUME NEW risk \in 0..100, NEW d \in FromRisk(risk), d # "Block"
  PROVE  risk <= 70
  BY DEF FromRisk

\* Only a complete analysis is approved.
LEMMA ApprovedComplete ==
  ASSUME PipelineInv, verdict.status = "Approved"
  PROVE  Complete
  BY DEF PipelineInv, VerdictKept, Complete, Synthesize

\* Every reachable state satisfies the invariant.
LEMMA AlwaysPipelineInv == EntrySpec => []PipelineInv
<1>1. EntryInit => PipelineInv
  BY InitPipeline DEF EntryInit
<1>2. QED
  BY <1>1, EntryPipeline, PTL DEF EntrySpec

\* Reports, verdict and decision keep their types, and the risk stays within
\* 0 and 1 whatever the models answer (types.rs:40-43, pipeline.rs:119-123).
THEOREM TypeCorrect == EntrySpec => []TypeOK
<1>1. PipelineInv => TypeOK
  BY DEF PipelineInv
<1>2. QED
  BY <1>1, AlwaysPipelineInv, PTL

\* Neither an approval nor an Allow rests on a missing report (pipeline.rs:
\* 41-42, argus-guard/src/lib.rs:128-135).
THEOREM NeverFineBlind == EntrySpec => []BlindIsNeverFine
<1>1. ASSUME PipelineInv, ~Complete PROVE verdict.status # "Approved"
  BY <1>1, ApprovedComplete
<1>2. ASSUME PipelineInv, ~Complete PROVE decision # "Allow"
  <2>1. ASSUME decision = "Allow" PROVE FALSE
    <3>1. verdict.status # "none" /\ "Allow" \in FromRisk(verdict.risk)
      BY <1>2, <2>1 DEF PipelineInv, DecisionKept
    <3>2. verdict.risk = 50
      BY <1>2, <3>1 DEF PipelineInv, VerdictKept, Complete, Synthesize
    <3>3. verdict.risk <= 30
      BY <3>1 DEF FromRisk
    <3>4. QED
      BY <3>2, <3>3
  <2>2. QED
    BY <2>1
<1>3. PipelineInv => BlindIsNeverFine
  BY <1>1, <1>2 DEF BlindIsNeverFine
<1>4. QED
  BY <1>3, AlwaysPipelineInv, PTL

\* The guard blocks nothing that the verdict approves (pipeline.rs:106-123,
\* argus-guard/src/lib.rs:27-35).
THEOREM GuardAgrees == EntrySpec => []BlockedNotApproved
<1>1. ASSUME PipelineInv, decision = "Block", verdict.status = "Approved"
      PROVE  FALSE
  <2>1. Complete /\ verdict.risk >= 70
    BY <1>1 DEF PipelineInv, VerdictKept, DecisionKept, Complete, Synthesize,
                FromRisk
  <2>2. /\ slop \in Int /\ arch \in Int /\ security.findings \in Nat
        /\ Status(slop, security, arch) = "Approved"
        /\ Risk(slop, security, arch) >= 70
    BY <1>1, <2>1, ReportTypes
    DEF PipelineInv, VerdictKept, Complete, Synthesize
  <2>3. slop <= 10 /\ arch <= 10
    BY <2>2 DEF Status
  <2>4. Least(5 * security.findings, 20) \in Int
        /\ Least(5 * security.findings, 20) <= 20
    BY <2>2 DEF Least
  <2>5. QED
    BY <2>2, <2>3, <2>4 DEF Risk, Clamp
<1>2. PipelineInv => BlockedNotApproved
  BY <1>1 DEF BlockedNotApproved
<1>3. QED
  BY <1>2, AlwaysPipelineInv, PTL

\* No worse report is judged milder, in status or in risk (pipeline.rs:106-123).
THEOREM NoMilderVerdict == EntrySpec => []WorseIsNotMilder
<1>1. ASSUME PipelineInv, verdict.status # "none", Complete,
             NEW s \in Scores, NEW a \in Scores, NEW sec \in SecurityReports,
             s >= slop, a >= arch, sec.findings >= security.findings,
             SeverityRank(sec.highest_severity)
               >= SeverityRank(security.highest_severity)
      PROVE  /\ Rank(Status(s, sec, a)) >= Rank(verdict.status)
             /\ Risk(s, sec, a) >= verdict.risk
  <2>1. /\ verdict.status = Status(slop, security, arch)
        /\ verdict.risk = Risk(slop, security, arch)
    BY <1>1 DEF PipelineInv, VerdictKept, Complete, Synthesize
  <2>2. /\ slop \in Int /\ arch \in Int /\ s \in Int /\ a \in Int
        /\ security.findings \in Nat /\ sec.findings \in Nat
        /\ security.highest_severity \in Severities
        /\ sec.highest_severity \in Severities
    BY <1>1, ReportTypes DEF PipelineInv, SecurityReports
  <2>3. Least(5 * sec.findings, 20) >= Least(5 * security.findings, 20)
        /\ Least(5 * sec.findings, 20) \in Int
        /\ Least(5 * security.findings, 20) \in Int
    BY <1>1, <2>2 DEF Least
  <2>4. Risk(s, sec, a) >= Risk(slop, security, arch)
    BY <1>1, <2>2, <2>3 DEF Risk, Clamp
  <2>5. security.highest_severity \in {"Critical", "High"} =>
          sec.highest_severity \in {"Critical", "High"}
    BY <1>1, <2>2 DEF Severities, SeverityRank
  <2>6. Rank(Status(s, sec, a)) >= Rank(Status(slop, security, arch))
    BY <1>1, <2>2, <2>5 DEF Status, Rank
  <2>7. QED
    BY <2>1, <2>4, <2>6
<1>2. PipelineInv => WorseIsNotMilder
  BY <1>1 DEF WorseIsNotMilder
<1>3. QED
  BY <1>2, AlwaysPipelineInv, PTL

-----------------------------------------------------------------------------
(* The callers: what they are told, and whose key is charged.              *)

\* A call has its fields, whatever they hold.
CallRecord ==
  call = [door |-> call.door, given |-> call.given, key |-> call.key,
          step |-> call.step, prs |-> call.prs, code |-> call.code]

Waiting == {"idle", "asked", "fetched", "writing"}

\* There is no verdict before an analysis.
NotYet == call.step \in Waiting => verdict.status = "none"

\* An analysis has somebody's key, or the empty one, with which no analyzer
\* gives a report.
KeyUsed ==
  call.step = "analysis" =>
    call.key \in Keys \/ (call.key = "empty" /\ NoReport)

\* A form that still waits finds in the environment a key given while it waited
\* if there is one, and else its own if it gave one.
KeySeen ==
  call.door \in Forms /\ call.step \in {"asked", "fetched"} =>
    /\ later # {} => env \in later
    /\ later = {} /\ call.given \in Keys => env = call.given

\* A digest that ended well is the one that was written.
DigestWritten ==
  Told /\ call.door \in {"lens", "argus-lens"} /\ answer.code = "exit 0" =>
    briefing = Written /\ call.prs \in PullRequests

ApprovalTold ==
  Told /\ answer.status = "Approved" /\ call.door # "snippet" =>
    Complete /\ call.key \in Keys

ExitTold ==
  Told /\ call.door = "verify" =>
    (answer.code = "exit 1" <=> verdict.status = "Halted")

GuardTold ==
  Told /\ call.door \in {"guard", "argus-guard"} /\ answer.code = "exit 0" =>
    answer.status = "empty" \/ (~NoReport /\ verdict.risk <= 70)

\* Who waits for the key to be read has fetched a diff.
FetchedFor == call.step = "fetched" => call.door \in Forms \cup {"verify"}

\* A digest that is written is of pull requests.
PRsGiven ==
  call.step = "writing" =>
    call.prs \in PullRequests /\ call.door \in {"lens", "argus-lens"}

Kinds ==
  /\ CallRecord
  /\ env \in EnvKeys
  /\ briefing.state \in {"none", "part", "whole"}

EntryInv ==
  /\ Kinds /\ FetchedFor /\ PRsGiven /\ NotYet /\ KeyUsed /\ KeySeen
  /\ DigestWritten /\ ApprovalTold /\ ExitTold /\ GuardTold

\* What an answer changes.
LEMMA AnswerEffect ==
  ASSUME CallRecord, NEW STATE code, NEW STATE status, Answer(code, status)
  PROVE  /\ CallRecord' /\ Told'
         /\ call'.door = call.door /\ call'.key = call.key
         /\ call'.prs = call.prs
         /\ answer' = [code |-> code, status |-> status]
  BY DEF CallRecord, Answer, Told

\* What a new call is.
LEMMA ArrivalEffect ==
  ASSUME NEW program, NEW door, NEW given, NEW step, NEW code,
         ArrivesWith(program, door, given, step, code)
  PROVE  /\ CallRecord' /\ call.step = "idle"
         /\ call'.door = door /\ call'.step = step
  BY DEF ArrivesWith, CallRecord

\* What a call becomes when its analysis begins.
LEMMA AnalysisEffect ==
  ASSUME CallRecord, NEW STATE key, Analyzes(key)
  PROVE  /\ CallRecord' /\ call'.step = "analysis" /\ call'.key = key
         /\ call'.door = call.door
  BY DEF CallRecord, Analyzes

\* The callers start in the invariant.
LEMMA InitEntry == EntryInit => EntryInv
  BY DEF EntryInit, Init, EntryInv, Kinds, CallRecord, FetchedFor, PRsGiven,
         NotYet, KeyUsed, KeySeen, DigestWritten, ApprovalTold, ExitTold, GuardTold, NoCall,
         NoAnswer, EnvKeys, Told, Forms

\* A new call and whatever it is told at once keep the invariant.
LEMMA AsksKeep == EntryInv /\ Asks => EntryInv'
<1> SUFFICES ASSUME EntryInv, Asks PROVE EntryInv'
  OBVIOUS
<1> USE DEF EntryInv, Kinds
<1>1. UNCHANGED <<vars, briefing>>
  BY DEF Asks, RunCommand, DemoAnalyze, ApiRefuses, ApiAccepts, SubmitForm,
         AcceptsKey, AnalyzeSnippet, GetPage, GetBriefing, GetEnterprise, CallTool
<1>2. CASE RunCommand \/ CallTool
  <2>1. CallRecord' /\ call'.step = "asked" /\ call'.door \in Commands \cup Tools
    BY <1>2, ArrivalEffect DEF RunCommand, CallTool, Arrives
  <2>2. call.step = "idle" /\ UNCHANGED env
    BY <1>2 DEF RunCommand, CallTool, Arrives, ArrivesWith
  <2>3. QED
    BY <1>1, <2>1, <2>2
    DEF vars, FetchedFor, PRsGiven, NotYet, KeyUsed, KeySeen, DigestWritten,
        ApprovalTold, ExitTold, GuardTold, Told, Waiting, Commands, Tools, Forms
<1>3. CASE ApiAccepts \/ SubmitForm
  <2>1. CallRecord' /\ call.step = "idle" /\ call'.step = "asked"
    BY <1>3, ArrivalEffect DEF ApiAccepts, SubmitForm, AcceptsKey, Arrives
  <2>2. PICK door \in Forms, given \in Keys \cup {"unset"} :
          /\ Arrives("dashboard", door, given, "asked")
          /\ env' = EnvAfter(given) /\ later' = {}
    BY <1>3 DEF ApiAccepts, SubmitForm, AcceptsKey, Forms
  <2>3. call'.given = given
    BY <2>2 DEF Arrives, ArrivesWith
  <2>4. env' \in EnvKeys /\ (call'.given \in Keys => env' = call'.given)
    BY <2>2, <2>3, KeysAssumption DEF EnvAfter, EnvKeys
  <2>5. QED
    BY <1>1, <2>1, <2>2, <2>4
    DEF vars, FetchedFor, PRsGiven, NotYet, KeyUsed, KeySeen, DigestWritten,
        ApprovalTold, ExitTold, GuardTold, Told, Waiting
<1>4. CASE \/ DemoAnalyze \/ ApiRefuses \/ AnalyzeSnippet \/ GetPage
           \/ GetBriefing \/ GetEnterprise
  <2>1. /\ CallRecord' /\ call'.step = "answered"
        /\ call'.door \in {"api", "snippet", "weekly", "api_briefing"}
                            \cup Pages \cup Enterprise
    BY <1>4, ArrivalEffect
    DEF DemoAnalyze, ApiRefuses, AnalyzeSnippet, GetPage, GetBriefing,
        GetEnterprise, Arrives
  <2>2. answer'.status # "Approved" \/ call'.door = "snippet"
    <3>1. CASE AnalyzeSnippet
      BY <3>1, ArrivalEffect DEF AnalyzeSnippet
    <3>2. CASE DemoAnalyze \/ ApiRefuses \/ GetPage \/ GetBriefing \/ GetEnterprise
      BY <3>2 DEF DemoAnalyze, ApiRefuses, GetPage, GetBriefing, GetEnterprise
    <3>3. QED
      BY <1>4, <3>1, <3>2
  <2>3. UNCHANGED env
    BY <1>4 DEF DemoAnalyze, ApiRefuses, AnalyzeSnippet, GetPage, GetBriefing,
                GetEnterprise
  <2>4. QED
    BY <1>1, <2>1, <2>2, <2>3
    DEF FetchedFor, PRsGiven, NotYet, KeyUsed, KeySeen, DigestWritten, ApprovalTold,
        ExitTold, GuardTold, Told, Waiting, Pages, Enterprise
<1>5. QED
  BY <1>2, <1>3, <1>4 DEF Asks

\* What is told without an analysis.
Refuses ==
  /\ call.step \in {"asked", "fetched"}
  /\ call' = [call EXCEPT !.step = "answered"]
  /\ UNCHANGED <<vars, env, briefing>>
  /\ answer'.status # "Approved"
  /\ answer'.code = "exit 0" =>
       /\ call.door \notin {"lens", "argus-lens"}
       /\ answer'.status = "empty" \/ call.door \notin {"guard", "argus-guard"}
  /\ answer'.code = "exit 1" => call.door # "verify"

\* Answers without an analysis keep the invariant.
LEMMA RefusalsKeep == EntryInv /\ Refuses => EntryInv'
<1> SUFFICES ASSUME EntryInv, Refuses PROVE EntryInv'
  OBVIOUS
<1> USE DEF EntryInv, Kinds
<1>1. CallRecord' /\ Told' /\ call'.door = call.door
  BY DEF Refuses, CallRecord, Told
<1>2. /\ call.step \in {"asked", "fetched"} /\ UNCHANGED <<vars, env, briefing>>
      /\ verdict.status = "none"
  BY DEF Refuses, NotYet, Waiting
<1>3. ApprovalTold' /\ DigestWritten' /\ GuardTold'
  BY <1>1 DEF Refuses, ApprovalTold, DigestWritten, GuardTold
<1>4. ExitTold'
  BY <1>1, <1>2 DEF Refuses, ExitTold, vars
<1>5. QED
  BY <1>1, <1>2, <1>3, <1>4
  DEF FetchedFor, PRsGiven, NotYet, KeyUsed, KeySeen, Told, Waiting

\* The answers after an analysis keep the invariant.
LEMMA AnalysisAnswersKeep ==
  ASSUME EntryInv, PipelineInv, NEW STATE code, NEW STATE status,
         call.step = "analysis",
         call.door \notin {"lens", "argus-lens"},
         status = verdict.status \/ status = "none",
         call.door = "verify" => (code = "exit 1" <=> verdict.status = "Halted"),
         call.door \in {"guard", "argus-guard"} =>
           decision # "none" /\ code = GuardExit(decision),
         Answer(code, status), UNCHANGED <<vars, env, briefing>>
  PROVE  EntryInv'
<1> USE DEF EntryInv, Kinds
<1>1. /\ CallRecord' /\ Told'
      /\ call'.door = call.door /\ call'.key = call.key
      /\ answer' = [code |-> code, status |-> status]
  BY AnswerEffect
<1>2. ApprovalTold'
  <2>1. ASSUME status = "Approved" PROVE Complete /\ call.key \in Keys
    <3>1. Complete
      BY <2>1, ApprovedComplete
    <3>2. QED
      BY <3>1 DEF KeyUsed, NoReport, Complete
  <2>2. QED
    BY <1>1, <2>1 DEF ApprovalTold, vars, Complete
<1>3. GuardTold'
  <2>1. ASSUME call.door \in {"guard", "argus-guard"}, code = "exit 0"
        PROVE  ~NoReport /\ verdict.risk <= 70
    <3>1. decision # "none" /\ decision # "Block"
      BY <2>1 DEF GuardExit
    <3>2. ~NoReport
      BY <3>1 DEF PipelineInv, DecisionKept
    <3>3. decision \in FromRisk(verdict.risk)
      BY <3>1, <3>2 DEF PipelineInv, DecisionKept
    <3>4. verdict.risk \in 0..100
      BY VerdictRange DEF PipelineInv
    <3>5. verdict.risk <= 70
      BY <3>1, <3>3, <3>4, PassedRisk
    <3>6. QED
      BY <3>2, <3>5
  <2>2. QED
    BY <1>1, <2>1 DEF GuardTold, NoReport, vars
<1>4. ExitTold'
  BY <1>1 DEF ExitTold, vars
<1>5. QED
  BY <1>1, <1>2, <1>3, <1>4
  DEF FetchedFor, PRsGiven, NotYet, KeyUsed, KeySeen, DigestWritten, Told, Waiting

\* An analysis that begins keeps the invariant.
LEMMA BeginningsKeep ==
  ASSUME EntryInv, NEW analyzers, NEW STATE key, Idle(analyzers),
         CallRecord', call'.step = "analysis", call'.key = key,
         key \in Keys \cup {"empty"}, UNCHANGED <<env, briefing>>
  PROVE  EntryInv'
  BY DEF Idle, EntryInv, Kinds, FetchedFor, PRsGiven, NotYet, KeyUsed, KeySeen,
         DigestWritten, ApprovalTold, ExitTold, GuardTold, NoReport, Told, Waiting

\* Every step towards an answer keeps the invariant.
LEMMA WorksKeep == EntryInv /\ PipelineInv /\ Works => EntryInv'
<1> SUFFICES ASSUME EntryInv, PipelineInv, Works PROVE EntryInv'
  OBVIOUS
<1>1. CASE \/ RefusesCommand \/ EmptyDiff \/ ListPrompts \/ Health
           \/ LensFails \/ ToolRefuses
  <2>1. Refuses
    <3>1. CASE RefusesCommand
      BY <3>1 DEF RefusesCommand, Answer, Refuses
    <3>2. CASE EmptyDiff
      BY <3>2 DEF EmptyDiff, Begins, Answer, Refuses
    <3>3. CASE ListPrompts
      BY <3>3 DEF ListPrompts, Begins, Answer, Refuses
    <3>4. CASE Health
      <4>1. PICK code \in {"exit 0", "exit 1", "exit 2"} : Answer(code, "none")
        BY <3>4 DEF Health
      <4>2. call.step = "asked" /\ call.door = "health"
            /\ UNCHANGED <<vars, env, briefing>>
        BY <3>4 DEF Health, Begins
      <4>3. /\ call' = [call EXCEPT !.step = "answered"]
            /\ answer'.status = "none"
        BY <4>1 DEF Answer
      <4>4. QED
        BY <4>2, <4>3 DEF Refuses
    <3>5. CASE LensFails
      BY <3>5 DEF LensFails, Begins, Answer, Refuses
    <3>6. CASE ToolRefuses
      BY <3>6 DEF ToolRefuses, Answer, Refuses
    <3>7. QED
      BY <1>1, <3>1, <3>2, <3>3, <3>4, <3>5, <3>6
  <2>2. QED
    BY <2>1, RefusalsKeep
<1>2. CASE ReadDiff
  <2>1. CASE Answer("exit 2", "none") /\ UNCHANGED vars
    <3>1. Refuses
      BY <1>2, <2>1 DEF ReadDiff, Begins, Answer, Refuses
    <3>2. QED
      BY <3>1, RefusalsKeep
  <2>2. CASE Analyzes(CliKey)
    <3>1. /\ Idle(Analyzers) /\ CallRecord' /\ call'.step = "analysis"
          /\ call'.key = CliKey /\ CliKey \in Keys
      BY <1>2, <2>2, AnalysisEffect DEF ReadDiff, Begins, Analyzes, EntryInv, Kinds
    <3>2. QED
      BY <1>2, <3>1, BeginningsKeep DEF ReadDiff
  <2>3. QED
    BY <1>2, <2>1, <2>2 DEF ReadDiff
<1>3. CASE LensScript
  <2>1. PICK n \in PullRequests \ {0} :
          call' = [call EXCEPT !.step = "writing", !.prs = n, !.key = CliKey]
    BY <1>3 DEF LensScript
  <2>2. /\ CallRecord' /\ call'.step = "writing" /\ call'.prs = n
        /\ call.step = "asked" /\ call'.door \in {"lens", "argus-lens"}
    BY <1>3, <2>1 DEF EntryInv, Kinds, CallRecord, LensScript, Begins
  <2>3. briefing'.state = "part" /\ UNCHANGED <<vars, env>>
    BY <1>3 DEF LensScript
  <2>4. QED
    BY <2>2, <2>3
    DEF EntryInv, Kinds, FetchedFor, PRsGiven, NotYet, KeyUsed, KeySeen, DigestWritten,
        ApprovalTold, ExitTold, GuardTold, Told, Waiting, vars
<1>4. CASE LensWrites
  <2>1. PICK code \in {"exit 0", "exit 2"} :
          /\ Answer(code, "none")
          /\ code = "exit 0" => briefing' = Written
          /\ code = "exit 2" => UNCHANGED briefing
    BY <1>4 DEF LensWrites
  <2>2. /\ CallRecord' /\ Told'
        /\ call'.door = call.door /\ call'.prs = call.prs
        /\ answer' = [code |-> code, status |-> "none"]
    BY <2>1, AnswerEffect DEF EntryInv, Kinds
  <2>3. call.step = "writing" /\ UNCHANGED <<vars, env>>
    BY <1>4 DEF LensWrites
  <2>4. Written' = Written /\ Written.state = "whole"
    BY <2>2 DEF Written, Rendered
  <2>5. DigestWritten'
    BY <2>1, <2>2, <2>3, <2>4 DEF DigestWritten, EntryInv, PRsGiven
  <2>6. ExitTold'
    BY <2>1, <2>2, <2>3 DEF ExitTold, EntryInv, NotYet, Waiting, vars
  <2>7. KeySeen' /\ KeyUsed' /\ ApprovalTold' /\ GuardTold'
    BY <2>2, <2>3 DEF EntryInv, PRsGiven, KeySeen, KeyUsed, ApprovalTold,
                      GuardTold, Told
  <2>8. QED
    BY <2>1, <2>2, <2>3, <2>4, <2>5, <2>6, <2>7
    DEF EntryInv, Kinds, FetchedFor, PRsGiven, NotYet, KeyUsed, KeySeen, ApprovalTold,
        GuardTold, Told, Waiting, vars
<1>5. CASE Fetch
  <2>1. CASE Answer(Failure(call.door), "error")
    <3>1. Refuses
      BY <1>5, <2>1 DEF Fetch, Answer, Failure, Forms, Refuses
    <3>2. QED
      BY <3>1, RefusalsKeep
  <2>2. CASE call' = [call EXCEPT !.step = "fetched"] /\ UNCHANGED answer
    <3>1. /\ CallRecord' /\ call'.step = "fetched" /\ call'.door = call.door
          /\ call'.given = call.given /\ call.step = "asked"
      BY <1>5, <2>2 DEF EntryInv, Kinds, CallRecord, Fetch
    <3>2. /\ UNCHANGED <<vars, env, later, briefing>>
          /\ call.door \in Forms \cup {"verify"}
      BY <1>5 DEF Fetch
    <3>3. QED
      BY <3>1, <3>2
      DEF EntryInv, Kinds, FetchedFor, PRsGiven, NotYet, KeyUsed, KeySeen, DigestWritten,
          ApprovalTold, ExitTold, GuardTold, Told, Waiting, vars
  <2>3. QED
    BY <1>5, <2>1, <2>2 DEF Fetch
<1>6. CASE ReadKey
  <2>1. CASE env = "unset"
    <3>1. call.door \in Forms \cup {"verify"}
      BY <1>6 DEF ReadKey, EntryInv, FetchedFor
    <3>2. Refuses
      <4>1. /\ call.step = "fetched" /\ Answer(Failure(call.door), "error")
            /\ UNCHANGED <<vars, env, briefing>>
        BY <1>6, <2>1 DEF ReadKey
      <4>2. QED
        BY <3>1, <4>1 DEF Answer, Failure, Forms, Refuses
    <3>3. QED
      BY <3>2, RefusalsKeep
  <2>2. CASE env # "unset"
    <3>1. Analyzes(env) /\ env \in Keys \cup {"empty"}
      BY <1>6, <2>2 DEF ReadKey, EntryInv, Kinds, EnvKeys
    <3>2. /\ Idle(Analyzers) /\ CallRecord' /\ call'.step = "analysis"
          /\ call'.key = env
      BY <3>1, AnalysisEffect DEF Analyzes, EntryInv, Kinds
    <3>3. QED
      BY <1>6, <3>1, <3>2, BeginningsKeep DEF ReadKey
  <2>3. QED
    BY <2>1, <2>2
<1>7. CASE ToolRuns
  <2>1. /\ CallRecord' /\ call'.step = "analysis" /\ call'.key = env
        /\ Idle(Specialist(call.door))
    BY <1>7 DEF ToolRuns, EntryInv, Kinds, CallRecord
  <2>2. QED
    BY <1>7, <2>1, BeginningsKeep DEF ToolRuns
<1>8. CASE AnalyzerEnds
  <2>1. call.step = "analysis" /\ UNCHANGED entryVars
    BY <1>8 DEF AnalyzerEnds
  <2>2. call.key # "empty" \/ NoReport'
    BY <1>8 DEF AnalyzerEnds, KeyWorks, NoReport
  <2>3. QED
    BY <2>1, <2>2, KeysAssumption
    DEF entryVars, EntryInv, Kinds, CallRecord, FetchedFor, PRsGiven, NotYet, KeyUsed,
        KeySeen, DigestWritten, ApprovalTold, ExitTold, GuardTold, Told, Waiting
<1>9. CASE Judges
  <2>1. call.step = "analysis" /\ UNCHANGED <<entryVars, slop, security, arch>>
    BY <1>9 DEF Judges, Verdict, Guard
  <2>2. QED
    BY <2>1
    DEF entryVars, EntryInv, Kinds, CallRecord, FetchedFor, PRsGiven, NotYet, KeyUsed,
        KeySeen, DigestWritten, ApprovalTold, ExitTold, GuardTold, NoReport,
        Told, Waiting
<1>10. CASE GuardAnswers
  BY <1>10, AnalysisAnswersKeep DEF GuardAnswers
<1>11. CASE VerifyAnswers
  BY <1>11, AnalysisAnswersKeep DEF VerifyAnswers, VerifyExit
<1>12. CASE WebAnswers \/ VerdictAnswers
  BY <1>12, AnalysisAnswersKeep DEF WebAnswers, VerdictAnswers, Forms
<1>13. CASE SpecialistAnswers
  <2>1. /\ call.step = "analysis" /\ call.door \in Tools
        /\ UNCHANGED <<vars, env, briefing>>
        /\ \E code \in {"-32000", "report"} : Answer(code, "none")
    BY <1>13 DEF SpecialistAnswers
  <2>2. QED
    BY <2>1, AnalysisAnswersKeep DEF Tools
<1>14. QED
  BY <1>1, <1>2, <1>3, <1>4, <1>5, <1>6, <1>7, <1>8, <1>9, <1>10, <1>11, <1>12,
     <1>13 DEF Works

\* What goes on around a call that does not move keeps the invariant.
LEMMA AroundKeeps ==
  ASSUME EntryInv, UNCHANGED <<vars, call, answer, briefing>>,
         env' \in EnvKeys, KeySeen'
  PROVE  EntryInv'
<1>1. Kinds'
  BY DEF EntryInv, Kinds, CallRecord, EnvKeys
<1>2. FetchedFor' /\ PRsGiven' /\ NotYet' /\ KeyUsed'
  BY DEF vars, EntryInv, FetchedFor, PRsGiven, NotYet, KeyUsed, NoReport
<1>3. ApprovalTold' /\ ExitTold' /\ GuardTold'
  BY DEF vars, EntryInv, ApprovalTold, ExitTold, GuardTold, Told, NoReport,
         Complete
<1>4. DigestWritten'
  BY DEF EntryInv, DigestWritten, Told, Written
<1>5. QED
  BY <1>1, <1>2, <1>3, <1>4 DEF EntryInv

\* Every step keeps the invariant of the callers.
LEMMA NextEntry == EntryInv /\ PipelineInv /\ [EntryNext]_allVars => EntryInv'
<1> SUFFICES ASSUME EntryInv, PipelineInv, [EntryNext]_allVars PROVE EntryInv'
  OBVIOUS
<1>1. CASE Asks
  BY <1>1, AsksKeep
<1>2. CASE Works
  BY <1>2, WorksKeep
<1>3. CASE StartProgram
  <2>1. /\ call.step = "idle" /\ env' \in EnvKeys
        /\ UNCHANGED <<vars, call, answer, briefing>>
    BY <1>3 DEF StartProgram, Starts
  <2>2. KeySeen'
    BY <2>1 DEF KeySeen
  <2>3. QED
    BY <2>1, <2>2, AroundKeeps
<1>4. CASE OtherCaller
  <2>1. /\ UNCHANGED <<vars, call, answer, briefing>> /\ env' \in EnvKeys
        /\ call.step \in {"asked", "fetched"} => env' \in later'
    BY <1>4 DEF OtherCaller, EnvKeys
  <2>2. KeySeen'
    BY <2>1 DEF KeySeen, Forms
  <2>3. QED
    BY <2>1, <2>2, AroundKeeps
<1>5. CASE Done
  <2>1. /\ call' = NoCall /\ verdict'.status = "none"
        /\ UNCHANGED <<env, briefing>>
    BY <1>5 DEF Done, Idle
  <2>2. QED
    BY <2>1
    DEF NoCall, EntryInv, Kinds, CallRecord, FetchedFor, PRsGiven, NotYet, KeyUsed,
        KeySeen, DigestWritten, ApprovalTold, ExitTold, GuardTold, Told, Waiting,
        Forms
<1>6. CASE UNCHANGED allVars
  <2>1. UNCHANGED <<vars, call, answer, env, later, briefing>>
    BY <1>6 DEF allVars, entryVars
  <2>2. KeySeen' /\ env' \in EnvKeys
    BY <2>1 DEF EntryInv, Kinds, KeySeen
  <2>3. QED
    BY <2>1, <2>2, AroundKeeps
<1>7. QED
  BY <1>1, <1>2, <1>3, <1>4, <1>5, <1>6 DEF EntryNext

\* Every reachable state satisfies the invariant of the callers.
LEMMA AlwaysEntryInv == EntrySpec => []EntryInv
  BY InitEntry, NextEntry, AlwaysPipelineInv, PTL DEF EntrySpec

-----------------------------------------------------------------------------
(* The types of calls, answers and the file of the digest.                 *)

CallSteps == {"idle", "asked", "fetched", "writing", "analysis", "answered"}
ToldStatuses == {"none", "error", "empty", "part", "whole"} \cup Statuses
Digests == {Aggregate(MockPRs(n)) : n \in PullRequests \cup {0}}

CallTypes ==
  /\ call.step \in CallSteps
  /\ call.given \in Keys \cup {"unset"} /\ call.key \in EnvKeys

AnswerTypes == answer.status \in ToldStatuses

SurroundingTypes ==
  /\ settings \subseteq {"demo", "premium"}
  /\ env \in EnvKeys /\ later \subseteq EnvKeys
  /\ briefing.state \in {"none", "part", "whole"} /\ briefing.digest \in Digests

EntryTypes == CallTypes /\ AnswerTypes /\ SurroundingTypes

\* What is shown before there is a digest is the digest of no pull request.
LEMMA NoDigestIsOne == NoDigest \in Digests
<1>1. MockPRs(0) = <<>>
  BY DEF MockPRs
<1>2. QED
  BY <1>1 DEF NoDigest, Digests

\* What a snippet is told is one of the three statuses.
LEMMA SnippetTold ==
  ASSUME NEW code PROVE SnippetResponse(code).status \in Statuses
  BY DEF SnippetResponse, SnippetStatus, Statuses

\* A call is answered, with a status that there is.
Answered ==
  /\ call' = [call EXCEPT !.step = "answered"]
  /\ answer'.status \in ToldStatuses

\* A call on its way, with a key that there is or none.
Proceeds ==
  /\ \E step \in CallSteps, given \in Keys \cup {"unset"}, key \in EnvKeys :
       call'.step = step /\ call'.given = given /\ call'.key = key
  /\ UNCHANGED answer

\* Both keep the types.
LEMMA StepTyped ==
  ASSUME CallRecord, CallTypes, AnswerTypes, Answered \/ Proceeds
  PROVE  CallTypes' /\ AnswerTypes'
<1>1. CASE Answered
  BY <1>1 DEF CallRecord, CallTypes, AnswerTypes, CallSteps, Answered
<1>2. CASE Proceeds
  BY <1>2 DEF CallTypes, AnswerTypes, Proceeds
<1>3. QED
  BY <1>1, <1>2

\* A new call has the types.
LEMMA ArrivalTyped ==
  ASSUME NEW program, NEW door, NEW given \in Keys \cup {"unset"},
         NEW step \in CallSteps, NEW code,
         ArrivesWith(program, door, given, step, code)
  PROVE  CallTypes'
  BY DEF ArrivesWith, CallTypes, EnvKeys, CallSteps

\* A call and whatever it is told at once keep the types.
LEMMA AsksTyped == EntryTypes /\ Asks => EntryTypes'
<1> SUFFICES ASSUME EntryTypes, Asks PROVE EntryTypes'
  OBVIOUS
<1>1. CallTypes'
  BY ArrivalTyped
  DEF Asks, RunCommand, DemoAnalyze, ApiRefuses, ApiAccepts, SubmitForm, AcceptsKey,
      AnalyzeSnippet, GetPage, GetBriefing, GetEnterprise, CallTool, Arrives,
      CallSteps
<1>2. AnswerTypes'
  <2>1. CASE AnalyzeSnippet
    <3>1. PICK code \in Snippets :
            answer' = IF Blank(code) THEN [code |-> "400", status |-> "none"]
                      ELSE SnippetResponse(code)
      BY <2>1 DEF AnalyzeSnippet
    <3>2. QED
      BY <3>1, SnippetTold DEF AnswerTypes, ToldStatuses
  <2>2. CASE ~AnalyzeSnippet
    BY <2>2
    DEF EntryTypes, SurroundingTypes, Asks, RunCommand, DemoAnalyze, ApiRefuses,
        ApiAccepts, SubmitForm, AcceptsKey, GetPage, GetBriefing, GetEnterprise,
        CallTool, AnswerTypes, ToldStatuses
  <2>3. QED
    BY <2>1, <2>2
<1>3. SurroundingTypes'
  BY DEF EntryTypes, SurroundingTypes, Asks, RunCommand, DemoAnalyze, ApiRefuses,
         ApiAccepts, SubmitForm, AcceptsKey, AnalyzeSnippet, GetPage, GetBriefing,
         GetEnterprise, CallTool, EnvAfter, EnvKeys
<1>4. QED
  BY <1>1, <1>2, <1>3 DEF EntryTypes

\* So does an analysis that begins.
LEMMA BeginningProceeds ==
  ASSUME CallRecord, NEW STATE key, key \in EnvKeys, Analyzes(key)
  PROVE  Proceeds
<1>1. call'.step = "analysis" /\ call'.given = "unset" /\ call'.key = key
  BY DEF CallRecord, Analyzes
<1>2. QED
  BY <1>1 DEF Analyzes, Proceeds, CallSteps

\* Every step towards an answer is an answer or takes the call on.
LEMMA WorksAnswerOrProceed ==
  ASSUME CallRecord, CallTypes, env \in EnvKeys, TypeOK, Works
  PROVE  Answered \/ Proceeds
<1>1. verdict.status # "none" => verdict.status \in ToldStatuses
  BY DEF TypeOK, Verdicts, ToldStatuses
<1> USE DEF Answered, ToldStatuses
<1>2. CASE RefusesCommand \/ EmptyDiff \/ ListPrompts \/ LensFails \/ ToolRefuses
  <2>1. CASE RefusesCommand
    BY <2>1 DEF RefusesCommand, Answer
  <2>2. CASE EmptyDiff
    BY <2>2 DEF EmptyDiff, Answer
  <2>3. CASE ListPrompts
    BY <2>3 DEF ListPrompts, Answer
  <2>4. CASE LensFails
    BY <2>4 DEF LensFails, Answer
  <2>5. CASE ToolRefuses
    BY <2>5 DEF ToolRefuses, Answer
  <2>6. QED
    BY <1>2, <2>1, <2>2, <2>3, <2>4, <2>5
<1>3. CASE Health \/ SpecialistAnswers \/ LensWrites
  <2>1. PICK code \in {"exit 0", "exit 1", "exit 2", "-32000", "report"} :
          Answer(code, "none")
    BY <1>3 DEF Health, SpecialistAnswers, LensWrites
  <2>2. /\ call' = [call EXCEPT !.step = "answered"]
        /\ answer'.status = "none"
    BY <2>1 DEF Answer
  <2>3. QED
    BY <2>2
<1>4. CASE GuardAnswers
  <2>1. verdict.status # "none" \/ verdict.status \in ToldStatuses
    BY DEF ToldStatuses
  <2>2. QED
    BY <1>1, <1>4, <2>1 DEF GuardAnswers, Answer
<1>5. CASE VerifyAnswers \/ WebAnswers \/ VerdictAnswers
  BY <1>1, <1>5 DEF VerifyAnswers, WebAnswers, VerdictAnswers, Answer
<1>6. CASE ReadDiff
  <2>1. Answer("exit 2", "none") \/ (Analyzes(CliKey) /\ CliKey \in Keys)
    BY <1>6 DEF ReadDiff, Begins
  <2>2. CASE Answer("exit 2", "none")
    BY <2>2 DEF Answer
  <2>3. CASE Analyzes(CliKey) /\ CliKey \in Keys
    BY <2>3, BeginningProceeds DEF EnvKeys
  <2>4. QED
    BY <2>1, <2>2, <2>3
<1>7. CASE LensScript
  <2>1. \E n \in PullRequests \ {0} :
          call' = [call EXCEPT !.step = "writing", !.prs = n, !.key = CliKey]
    BY <1>7 DEF LensScript
  <2>2. CliKey \in EnvKeys /\ UNCHANGED answer
    BY <1>7 DEF LensScript, Begins, EnvKeys
  <2>3. /\ call'.step = "writing" /\ call'.key = CliKey /\ call'.given = call.given
    BY <2>1 DEF CallRecord
  <2>4. QED
    BY <2>2, <2>3 DEF Proceeds, CallTypes, CallSteps
<1>8. CASE Fetch
  <2>1. \/ Answer(Failure(call.door), "error")
        \/ call' = [call EXCEPT !.step = "fetched"] /\ UNCHANGED answer
    BY <1>8 DEF Fetch
  <2>2. QED
    BY <2>1 DEF Answer, CallRecord, CallTypes, Proceeds, CallSteps
<1>9. CASE ReadKey
  <2>1. Answer(Failure(call.door), "error") \/ Analyzes(env)
    BY <1>9 DEF ReadKey
  <2>2. QED
    BY <2>1, BeginningProceeds DEF Answer
<1>10. CASE ToolRuns
  BY <1>10 DEF ToolRuns, CallRecord, CallTypes, Proceeds, CallSteps
<1>11. CASE AnalyzerEnds \/ Judges
  BY <1>11 DEF AnalyzerEnds, Judges, entryVars, CallTypes, Proceeds
<1>12. QED
  BY <1>2, <1>3, <1>4, <1>5, <1>6, <1>7, <1>8, <1>9, <1>10, <1>11 DEF Works

\* The file of the digest holds a digest of the pull requests of the call.
LEMMA WrittenTyped ==
  ASSUME PRsGiven, LensWrites, SurroundingTypes PROVE SurroundingTypes'
<1>1. Written.state = "whole" /\ Written.digest \in Digests
  BY DEF PRsGiven, LensWrites, Written, Rendered, Digests
<1>2. QED
  BY <1>1 DEF LensWrites, SurroundingTypes

\* Every step towards an answer keeps the types.
LEMMA WorksTyped ==
  EntryTypes /\ EntryInv /\ PipelineInv /\ Works => EntryTypes'
<1> SUFFICES ASSUME EntryTypes, EntryInv, PipelineInv, Works PROVE EntryTypes'
  OBVIOUS
<1>1. CallRecord /\ CallTypes /\ env \in EnvKeys /\ TypeOK /\ PRsGiven
  BY DEF EntryTypes, EntryInv, Kinds, PipelineInv
<1>2. CallTypes' /\ AnswerTypes'
  BY <1>1, WorksAnswerOrProceed, StepTyped DEF EntryTypes
<1>3. CASE LensWrites
  BY <1>1, <1>2, <1>3, WrittenTyped DEF EntryTypes
<1>4. CASE LensScript
  BY <1>2, <1>4, NoDigestIsOne DEF EntryTypes, LensScript, SurroundingTypes
<1>5. CASE ~LensScript /\ ~LensWrites
  <2>1. later' \in {later, {}} /\ UNCHANGED <<settings, env, briefing>>
    BY <1>5
    DEF Works, RefusesCommand, ReadDiff, EmptyDiff, ListPrompts, Health, LensFails,
        Fetch, ReadKey, ToolRefuses, ToolRuns, AnalyzerEnds, Judges, GuardAnswers,
        VerifyAnswers, WebAnswers, SpecialistAnswers, VerdictAnswers, entryVars
  <2>2. QED
    BY <1>2, <2>1 DEF EntryTypes, SurroundingTypes
<1>6. QED
  BY <1>3, <1>4, <1>5

\* Every step keeps the types.
LEMMA NextTyped ==
  EntryTypes /\ EntryInv /\ PipelineInv /\ [EntryNext]_allVars => EntryTypes'
<1> SUFFICES ASSUME EntryTypes, EntryInv, PipelineInv, [EntryNext]_allVars
             PROVE  EntryTypes'
  OBVIOUS
<1>1. CASE Asks
  BY <1>1, AsksTyped
<1>2. CASE Works
  BY <1>2, WorksTyped
<1>3. CASE StartProgram
  BY <1>3 DEF StartProgram, Starts, SettingsOf, EntryTypes, CallTypes, AnswerTypes,
              SurroundingTypes
<1>4. CASE OtherCaller
  BY <1>4 DEF OtherCaller, EntryTypes, CallTypes, AnswerTypes, SurroundingTypes,
              EnvKeys
<1>5. CASE Done
  BY <1>5 DEF Done, NoCall, NoAnswer, EntryTypes, CallTypes, AnswerTypes,
              SurroundingTypes, EnvKeys, CallSteps, ToldStatuses
<1>6. CASE UNCHANGED allVars
  BY <1>6 DEF allVars, entryVars, EntryTypes, CallTypes, AnswerTypes,
              SurroundingTypes
<1>7. QED
  BY <1>1, <1>2, <1>3, <1>4, <1>5, <1>6 DEF EntryNext

\* Keys, calls and answers keep their types, and the file of the digest always
\* holds a digest of some number of pull requests, whole or in part, whichever
\* way in is used (apohara-argus-cli/src/main.rs, argus-dashboard/src/main.rs).
THEOREM EntryTypeCorrect == EntrySpec => []EntryTypeOK
<1>1. EntryInit => EntryTypes
  BY NoDigestIsOne
  DEF EntryInit, NoCall, NoAnswer, EntryTypes, CallTypes, AnswerTypes,
      SurroundingTypes, EnvKeys, CallSteps, ToldStatuses
<1>2. EntrySpec => []EntryTypes
  BY <1>1, NextTyped, AlwaysEntryInv, AlwaysPipelineInv, PTL DEF EntrySpec
<1>3. EntryTypes /\ PipelineInv => EntryTypeOK
  BY DEF EntryTypes, CallTypes, AnswerTypes, SurroundingTypes, EntryTypeOK,
         PipelineInv, CallSteps, ToldStatuses, Digests
<1>4. QED
  BY <1>2, <1>3, AlwaysPipelineInv, PTL

-----------------------------------------------------------------------------
(* The digest.                                                             *)

PullRequestType == [author : Nat, risk : Int, critical_findings : Nat]

\* What a pull request is.
LEMMA PullRequestFacts ==
  ASSUME NEW prs \in Seq(PullRequestType)
  PROVE  \A k \in 1..Len(prs) : prs[k] \in PullRequestType /\ prs[k].risk \in Int
<1>1. ASSUME NEW k \in 1..Len(prs) PROVE prs[k] \in PullRequestType
  OBVIOUS
<1>2. ASSUME NEW pr \in PullRequestType PROVE pr.risk \in Int
  BY DEF PullRequestType
<1>3. QED
  BY <1>1, <1>2

\* The sum of the risks, pull request by pull request.
SumsRisks(h, prs, own) ==
  /\ RiskSum(prs, own) = h[Len(prs)]
  /\ h[0] = 0
  /\ \A k \in 1..Len(prs) : h[k] = h[k - 1] + (IF k \in own THEN prs[k].risk ELSE 0)

LEMMA RiskSumIs ==
  ASSUME NEW prs \in Seq(PullRequestType), NEW own
  PROVE  \E h \in [0..Len(prs) -> Int] : SumsRisks(h, prs, own)
<1> DEFINE N == Len(prs)
           T == Int
           start == 0
           Step(k, x) == x + (IF k \in own THEN prs[k].risk ELSE 0)
           F == [k \in Nat |-> [x \in T |-> IF k \in 1..N THEN Step(k, x) ELSE x]]
           Body(h) == [k \in 0..N |-> IF k = 0 THEN start ELSE h[k - 1] + (IF k \in own THEN prs[k].risk ELSE 0)]
           H == CHOOSE h : h = Body(h)
<1>1. N \in Nat /\ start \in T
  OBVIOUS
<1>2. ASSUME NEW k \in 1..N, NEW x \in T PROVE Step(k, x) \in T
  <2>1. prs[k].risk \in Int
    BY PullRequestFacts
  <2>2. QED
    BY <2>1
<1>3. F \in [Nat -> [T -> T]]
  <2> HIDE DEF T, N, Step
  <2>1. QED
    BY <1>2
<1>4. PICK g \in [0..N -> T] : Recurses(g, start, F, N)
  <2> HIDE DEF F, T, N, start
  <2>1. QED
    BY <1>1, <1>3, RecursionExists
<1>5. g[0] = start /\ \A k \in 1..N : g[k] = Step(k, g[k - 1])
  <2> HIDE DEF T, N, Step, start
  <2>1. ASSUME NEW k \in 1..N PROVE F[k][g[k - 1]] = Step(k, g[k - 1])
    <3>1. k \in Nat /\ g[k - 1] \in T
      BY <1>1
    <3>2. QED
      BY <3>1
  <2> HIDE DEF F
  <2>2. QED
    BY <1>4, <2>1 DEF Recurses
<1>6. \A h : Body(h) = [k \in 0..N |-> IF k = 0 THEN start ELSE Step(k, h[k - 1])]
  OBVIOUS
<1>7. g = Body(g)
  <2> HIDE DEF T, N, Step, start, Body
  <2>1. ASSUME NEW k \in 0..N
        PROVE  g[k] = IF k = 0 THEN start ELSE Step(k, g[k - 1])
    BY <1>1, <1>5
  <2>2. g = [k \in 0..N |-> IF k = 0 THEN start ELSE Step(k, g[k - 1])]
    BY <2>1
  <2>3. QED
    BY <1>6, <2>2
<1>8. H = Body(H)
  <2> HIDE DEF Body
  <2>1. QED
    BY <1>7
<1>9. H = [k \in 0..N |-> IF k = 0 THEN start ELSE Step(k, H[k - 1])]
  <2> HIDE DEF H, N, Step, start, Body
  <2>1. QED
    BY <1>6, <1>8
<1>10. H[0] = start /\ \A k \in 1..N : H[k] = Step(k, H[k - 1])
  <2> HIDE DEF H, N, Step, start
  <2>1. H[0] = start
    BY <1>1, <1>9
  <2>2. ASSUME NEW k \in 1..N PROVE H[k] = Step(k, H[k - 1])
    BY <1>1, <1>9
  <2>3. QED
    BY <2>1, <2>2
<1>11. \A k \in 0..N : H[k] \in T
  <2> DEFINE P == {k \in 0..N : H[k] \in T}
  <2> HIDE DEF H, N, T, Step, start
  <2>1. 0 \in P
    BY <1>1, <1>10
  <2>2. \A k \in 1..N : k - 1 \in P => k \in P
    BY <1>1, <1>2, <1>10
  <2>3. \A k \in 0..N : k \in P
    <3> HIDE DEF P
    <3>1. QED
      BY <1>1, <2>1, <2>2, Climbs
  <2>4. QED
    BY <2>3
<1>12. RiskSum(prs, own) = H[N]
  BY DEF RiskSum
<1>13. H \in [0..N -> T]
  <2> HIDE DEF H, N, T, Step, start
  <2>1. QED
    BY <1>9, <1>11
<1>14. QED
  <2>1. SumsRisks(H, prs, own)
    <3> HIDE DEF H
    <3>1. QED
      BY <1>10, <1>12, <1>13 DEF SumsRisks
  <2> HIDE DEF H, N, T
  <2>2. QED
    BY <1>13, <2>1 DEF N, T

\* What the teams have together, team by team.
SumsTeams(h, has, teams, last) ==
  /\ Together(has, last) = h[last]
  /\ h[0] = 0
  /\ \A t \in 1..last : h[t] = h[t - 1] + (IF t \in teams THEN has[t] ELSE 0)

LEMMA TogetherIs ==
  ASSUME NEW last \in Nat, NEW teams, NEW has \in [teams -> Int]
  PROVE  \E h \in [0..last -> Int] : SumsTeams(h, has, teams, last)
<1> DEFINE N == last
           T == Int
           start == 0
           Step(k, x) == x + (IF k \in DOMAIN has THEN has[k] ELSE 0)
           F == [k \in Nat |-> [x \in T |-> IF k \in 1..N THEN Step(k, x) ELSE x]]
           Body(h) == [k \in 0..N |-> IF k = 0 THEN start ELSE h[k - 1] + (IF k \in DOMAIN has THEN has[k] ELSE 0)]
           H == CHOOSE h : h = Body(h)
<1>1. N \in Nat /\ start \in T
  OBVIOUS
<1>2. ASSUME NEW k \in 1..N, NEW x \in T PROVE Step(k, x) \in T
  OBVIOUS
<1>3. F \in [Nat -> [T -> T]]
  <2> HIDE DEF T, N, Step
  <2>1. QED
    BY <1>2
<1>4. PICK g \in [0..N -> T] : Recurses(g, start, F, N)
  <2> HIDE DEF F, T, N, start
  <2>1. QED
    BY <1>1, <1>3, RecursionExists
<1>5. g[0] = start /\ \A k \in 1..N : g[k] = Step(k, g[k - 1])
  <2> HIDE DEF T, N, Step, start
  <2>1. ASSUME NEW k \in 1..N PROVE F[k][g[k - 1]] = Step(k, g[k - 1])
    <3>1. k \in Nat /\ g[k - 1] \in T
      BY <1>1
    <3>2. QED
      BY <3>1
  <2> HIDE DEF F
  <2>2. QED
    BY <1>4, <2>1 DEF Recurses
<1>6. \A h : Body(h) = [k \in 0..N |-> IF k = 0 THEN start ELSE Step(k, h[k - 1])]
  OBVIOUS
<1>7. g = Body(g)
  <2> HIDE DEF T, N, Step, start, Body
  <2>1. ASSUME NEW k \in 0..N
        PROVE  g[k] = IF k = 0 THEN start ELSE Step(k, g[k - 1])
    BY <1>1, <1>5
  <2>2. g = [k \in 0..N |-> IF k = 0 THEN start ELSE Step(k, g[k - 1])]
    BY <2>1
  <2>3. QED
    BY <1>6, <2>2
<1>8. H = Body(H)
  <2> HIDE DEF Body
  <2>1. QED
    BY <1>7
<1>9. H = [k \in 0..N |-> IF k = 0 THEN start ELSE Step(k, H[k - 1])]
  <2> HIDE DEF H, N, Step, start, Body
  <2>1. QED
    BY <1>6, <1>8
<1>10. H[0] = start /\ \A k \in 1..N : H[k] = Step(k, H[k - 1])
  <2> HIDE DEF H, N, Step, start
  <2>1. H[0] = start
    BY <1>1, <1>9
  <2>2. ASSUME NEW k \in 1..N PROVE H[k] = Step(k, H[k - 1])
    BY <1>1, <1>9
  <2>3. QED
    BY <2>1, <2>2
<1>11. \A k \in 0..N : H[k] \in T
  <2> DEFINE P == {k \in 0..N : H[k] \in T}
  <2> HIDE DEF H, N, T, Step, start
  <2>1. 0 \in P
    BY <1>1, <1>10
  <2>2. \A k \in 1..N : k - 1 \in P => k \in P
    BY <1>1, <1>2, <1>10
  <2>3. \A k \in 0..N : k \in P
    <3> HIDE DEF P
    <3>1. QED
      BY <1>1, <2>1, <2>2, Climbs
  <2>4. QED
    BY <2>3
<1>12. Together(has, last) = H[N]
  BY DEF Together
<1>13. H \in [0..N -> T]
  <2> HIDE DEF H, N, T, Step, start
  <2>1. QED
    BY <1>9, <1>11
<1>14. QED
  <2>1. SumsTeams(H, has, teams, last)
    <3> HIDE DEF H
    <3>1. QED
      BY <1>10, <1>12, <1>13 DEF SumsTeams
  <2> HIDE DEF H, N, T
  <2>2. QED
    BY <1>13, <2>1 DEF N, T

\* The offenders, pull request by pull request.
FillsTop(h, prs) ==
  /\ Offenders(prs) = h[Len(prs)]
  /\ h[0] = <<>>
  /\ \A k \in 1..Len(prs) : h[k] = IF prs[k].risk >= 50 /\ Len(h[k - 1]) < 5
                                    THEN Append(h[k - 1], prs[k]) ELSE h[k - 1]

LEMMA OffendersAre ==
  ASSUME NEW prs \in Seq(PullRequestType)
  PROVE  \E h \in [0..Len(prs) -> Seq(PullRequestType)] : FillsTop(h, prs)
<1> DEFINE N == Len(prs)
           T == Seq(PullRequestType)
           start == <<>>
           Step(k, x) == IF prs[k].risk >= 50 /\ Len(x) < 5 THEN Append(x, prs[k]) ELSE x
           F == [k \in Nat |-> [x \in T |-> IF k \in 1..N THEN Step(k, x) ELSE x]]
           Body(h) == [k \in 0..N |-> IF k = 0 THEN start ELSE IF prs[k].risk >= 50 /\ Len(h[k - 1]) < 5 THEN Append(h[k - 1], prs[k]) ELSE h[k - 1]]
           H == CHOOSE h : h = Body(h)
<1>1. N \in Nat /\ start \in T
  OBVIOUS
<1>2. ASSUME NEW k \in 1..N, NEW x \in T PROVE Step(k, x) \in T
  OBVIOUS
<1>3. F \in [Nat -> [T -> T]]
  <2> HIDE DEF T, N, Step
  <2>1. QED
    BY <1>2
<1>4. PICK g \in [0..N -> T] : Recurses(g, start, F, N)
  <2> HIDE DEF F, T, N, start
  <2>1. QED
    BY <1>1, <1>3, RecursionExists
<1>5. g[0] = start /\ \A k \in 1..N : g[k] = Step(k, g[k - 1])
  <2> HIDE DEF T, N, Step, start
  <2>1. ASSUME NEW k \in 1..N PROVE F[k][g[k - 1]] = Step(k, g[k - 1])
    <3>1. k \in Nat /\ g[k - 1] \in T
      BY <1>1
    <3>2. QED
      BY <3>1
  <2> HIDE DEF F
  <2>2. QED
    BY <1>4, <2>1 DEF Recurses
<1>6. \A h : Body(h) = [k \in 0..N |-> IF k = 0 THEN start ELSE Step(k, h[k - 1])]
  OBVIOUS
<1>7. g = Body(g)
  <2> HIDE DEF T, N, Step, start, Body
  <2>1. ASSUME NEW k \in 0..N
        PROVE  g[k] = IF k = 0 THEN start ELSE Step(k, g[k - 1])
    BY <1>1, <1>5
  <2>2. g = [k \in 0..N |-> IF k = 0 THEN start ELSE Step(k, g[k - 1])]
    BY <2>1
  <2>3. QED
    BY <1>6, <2>2
<1>8. H = Body(H)
  <2> HIDE DEF Body
  <2>1. QED
    BY <1>7
<1>9. H = [k \in 0..N |-> IF k = 0 THEN start ELSE Step(k, H[k - 1])]
  <2> HIDE DEF H, N, Step, start, Body
  <2>1. QED
    BY <1>6, <1>8
<1>10. H[0] = start /\ \A k \in 1..N : H[k] = Step(k, H[k - 1])
  <2> HIDE DEF H, N, Step, start
  <2>1. H[0] = start
    BY <1>1, <1>9
  <2>2. ASSUME NEW k \in 1..N PROVE H[k] = Step(k, H[k - 1])
    BY <1>1, <1>9
  <2>3. QED
    BY <2>1, <2>2
<1>11. \A k \in 0..N : H[k] \in T
  <2> DEFINE P == {k \in 0..N : H[k] \in T}
  <2> HIDE DEF H, N, T, Step, start
  <2>1. 0 \in P
    BY <1>1, <1>10
  <2>2. \A k \in 1..N : k - 1 \in P => k \in P
    BY <1>1, <1>2, <1>10
  <2>3. \A k \in 0..N : k \in P
    <3> HIDE DEF P
    <3>1. QED
      BY <1>1, <2>1, <2>2, Climbs
  <2>4. QED
    BY <2>3
<1>12. Offenders(prs) = H[N]
  BY DEF Offenders
<1>13. H \in [0..N -> T]
  <2> HIDE DEF H, N, T, Step, start
  <2>1. QED
    BY <1>9, <1>11
<1>14. QED
  <2>1. FillsTop(H, prs)
    <3> HIDE DEF H
    <3>1. QED
      BY <1>10, <1>12, <1>13 DEF FillsTop
  <2> HIDE DEF H, N, T
  <2>2. QED
    BY <1>13, <2>1 DEF N, T

\* How many of the first k are in K.
Upto(K, k) == Cardinality({j \in 1..k : j \in K})

LEMMA UptoNone == ASSUME NEW K PROVE Upto(K, 0) = 0
<1>1. {j \in 1..0 : j \in K} = {}
  OBVIOUS
<1>2. QED
  BY <1>1, FS_EmptySet DEF Upto

LEMMA UptoSteps ==
  ASSUME NEW K, NEW k \in Nat, k > 0
  PROVE  /\ Upto(K, k) \in Nat
         /\ Upto(K, k) = Upto(K, k - 1) + (IF k \in K THEN 1 ELSE 0)
<1> DEFINE Less == {j \in 1..(k - 1) : j \in K}
           More == {j \in 1..k : j \in K}
<1>1. IsFiniteSet(1..(k - 1)) /\ IsFiniteSet(1..k)
  BY FS_Interval
<1>2. IsFiniteSet(Less) /\ IsFiniteSet(More)
  BY <1>1, FS_Subset
<1>3. Cardinality(Less) \in Nat /\ Cardinality(More) \in Nat
  BY <1>2, FS_CardinalityType
<1>4. CASE k \in K
  <2>1. More = Less \cup {k} /\ k \notin Less
    BY <1>4
  <2> HIDE DEF Less, More
  <2>2. Cardinality(More) = Cardinality(Less) + 1
    BY <1>2, <2>1, FS_AddElement
  <2>3. QED
    BY <1>3, <1>4, <2>2 DEF Less, More, Upto
<1>5. CASE k \notin K
  <2>1. More = Less
    BY <1>5
  <2>2. QED
    BY <1>3, <1>5, <2>1 DEF Upto
<1>6. QED
  BY <1>4, <1>5

\* part[t][k] is what team t has of the first k.
Splits(part, team, weight, n) ==
  /\ part \in [1..n -> [0..n -> Int]] /\ weight \in [1..n -> Int]
  /\ \A k \in 1..n : team[k] \in 1..n
  /\ \A t \in 1..n : part[t][0] = 0
  /\ \A t \in 1..n : \A k \in 1..n :
       part[t][k] = part[t][k - 1] + (IF team[k] = t THEN weight[k] ELSE 0)

\* g[k] is the sum of the first k steps.
Running(g, step, n) ==
  g \in [0..n -> Int] /\ g[0] = 0 /\ \A k \in 1..n : g[k] = g[k - 1] + step[k]

Wholes(part, n) == [t \in 1..n |-> part[t][n]]

\* A team that nobody is in has nothing.
LEMMA NobodysPart ==
  ASSUME NEW n \in Nat, NEW team, NEW part, NEW weight, Splits(part, team, weight, n),
         NEW t \in 1..n, \A k \in 1..n : team[k] # t
  PROVE  part[t][n] = 0
<1> DEFINE Q == {k \in 0..n : part[t][k] = 0}
<1>1. 0 \in Q /\ n \in 0..n
  BY DEF Splits
<1>2. ASSUME NEW k \in 1..n, k - 1 \in Q PROVE k \in Q
  <2>1. part[t][k] = part[t][k - 1] + (IF team[k] = t THEN weight[k] ELSE 0)
    BY DEF Splits
  <2>2. part[t][k] = part[t][k - 1] + 0
    BY <2>1
  <2>3. part[t][k - 1] = 0 /\ k \in 0..n
    BY <1>2
  <2>4. QED
    BY <2>2, <2>3
<1>3. \A k \in 0..n : k \in Q
  <2> HIDE DEF Q
  <2>1. QED
    BY <1>1, <1>2, Climbs
<1>4. QED
  BY <1>1, <1>3

\* What is summed up team by team is what is summed up one by one.
LEMMA Regrouped ==
  ASSUME NEW n \in Nat, NEW team, NEW part, NEW weight,
         Splits(part, team, weight, n),
         NEW all, Running(all, weight, n),
         NEW teams, Running(teams, Wholes(part, n), n)
  PROVE  teams[n] = all[n]
<1>1. /\ part \in [1..n -> [0..n -> Int]] /\ weight \in [1..n -> Int]
      /\ \A k \in 1..n : team[k] \in 1..n
      /\ \A t \in 1..n : part[t][0] = 0
      /\ \A t \in 1..n : \A k \in 1..n :
           part[t][k] = part[t][k - 1] + (IF team[k] = t THEN weight[k] ELSE 0)
  BY DEF Splits
<1>2. all \in [0..n -> Int] /\ all[0] = 0 /\ \A k \in 1..n : all[k] = all[k - 1] + weight[k]
  BY DEF Running
<1>3. teams \in [0..n -> Int] /\ teams[0] = 0 /\ \A t \in 1..n : teams[t] = teams[t - 1] + part[t][n]
  BY DEF Running, Wholes
<1>4. ASSUME NEW t \in 1..n, NEW k \in 1..n
      PROVE  part[t][k] = part[t][k - 1] + (IF team[k] = t THEN weight[k] ELSE 0)
  BY <1>1
<1> DEFINE Fits(g, k) == g[0] = 0 /\ \A t \in 1..n : g[t] = g[t - 1] + part[t][k]
           P == {k \in 0..n : \A g \in [0..n -> Int] : Fits(g, k) => g[n] = all[k]}
<1>5. /\ n \in 0..n /\ 0 \in 0..n
      /\ \A k \in 1..n : k \in 0..n /\ k - 1 \in 0..n /\ team[k] \in 1..n /\ weight[k] \in Int
      /\ \A t \in 1..n : \A k \in 0..n : part[t][k] \in Int
  <2>1. n \in 0..n /\ 0 \in 0..n
    OBVIOUS
  <2>2. \A k \in 1..n : k \in 0..n /\ k - 1 \in 0..n
    OBVIOUS
  <2>3. \A k \in 1..n : team[k] \in 1..n /\ weight[k] \in Int
    BY <1>1
  <2>4. \A t \in 1..n : \A k \in 0..n : part[t][k] \in Int
    <3>1. ASSUME NEW t \in 1..n, NEW k \in 0..n PROVE part[t][k] \in Int
      <4>1. part[t] \in [0..n -> Int]
        BY <1>1
      <4>2. QED
        BY <4>1
    <3>2. QED
      BY <3>1
  <2> HIDE DEF Fits, P
  <2>5. QED
    BY <2>1, <2>2, <2>3, <2>4
<1>6. 0 \in P
  <2>1. ASSUME NEW g \in [0..n -> Int], Fits(g, 0) PROVE g[n] = 0
    <3> DEFINE Q == {t \in 0..n : g[t] = 0}
    <3>1. 0 \in Q
      BY <2>1
    <3>2. ASSUME NEW t \in 1..n, t - 1 \in Q PROVE t \in Q
      <4>1. g[t] = g[t - 1] + part[t][0]
        BY <2>1
      <4>2. part[t][0] = 0 /\ g[t - 1] = 0 /\ t \in 0..n
        BY <1>5, <1>1, <3>2
      <4> HIDE DEF P
      <4>3. QED
        BY <4>1, <4>2
    <3>3. \A t \in 0..n : t \in Q
      <4> HIDE DEF Q
      <4>1. QED
        BY <3>1, <3>2, Climbs
    <3>4. QED
      BY <1>5, <3>3
  <2> HIDE DEF Fits
  <2>2. QED
    BY <1>5, <1>2, <2>1
<1>7. ASSUME NEW k \in 1..n, k - 1 \in P PROVE k \in P
  <2>1. ASSUME NEW g \in [0..n -> Int], Fits(g, k) PROVE g[n] = all[k]
    <3> DEFINE w == weight[k]
               x == team[k]
               f == [t \in 0..n |-> g[t] - (IF t >= x THEN w ELSE 0)]
    <3>1. x \in 1..n /\ w \in Int /\ k \in 0..n /\ k - 1 \in 0..n /\ n \in 0..n /\ 0 \in 0..n
      <4> HIDE DEF P, Fits
      <4>1. QED
        BY <1>5
    <3>2. f \in [0..n -> Int] /\ f[0] = 0 /\ f[n] = g[n] - w
      <4>1. g[0] = 0
        BY <2>1
      <4> HIDE DEF P, Fits, w, x
      <4>2. ~(0 >= x) /\ n >= x /\ w \in Int /\ 0 \in 0..n /\ n \in 0..n
        BY <3>1
      <4>3. f[0] = g[0] - 0 /\ f[n] = g[n] - w
        BY <4>2
      <4>4. ASSUME NEW t \in 0..n PROVE g[t] - (IF t >= x THEN w ELSE 0) \in Int
        <5> DEFINE d == IF t >= x THEN w ELSE 0
        <5>1. g[t] \in Int
          OBVIOUS
        <5>2. d \in Int
          BY <4>2
        <5> HIDE DEF d, f
        <5>3. g[t] - d \in Int
          BY <5>1, <5>2
        <5>4. QED
          BY <5>3 DEF d
      <4>5. f \in [0..n -> Int]
        BY <4>4
      <4>6. QED
        BY <4>1, <4>3, <4>5
    <3>3. ASSUME NEW t \in 1..n PROVE f[t] = f[t - 1] + part[t][k - 1]
      <4>1. t \in 0..n /\ t - 1 \in 0..n /\ t \in Nat /\ x \in Nat
        <5> HIDE DEF P, Fits, f, w, x
        <5>1. QED
          BY <1>5, <3>1
      <4>2. g[t] = g[t - 1] + part[t][k]
        BY <2>1
      <4>3. part[t][k] = part[t][k - 1] + (IF x = t THEN w ELSE 0)
        <5> HIDE DEF P, Fits, f
        <5>1. QED
          BY <1>4
      <4>4. /\ f[t] = g[t] - (IF t >= x THEN w ELSE 0)
            /\ f[t - 1] = g[t - 1] - (IF t - 1 >= x THEN w ELSE 0)
        <5> HIDE DEF P, Fits, w, x
        <5>1. QED
          BY <4>1
      <4>5. g[t] \in Int /\ g[t - 1] \in Int /\ part[t][k] \in Int /\ part[t][k - 1] \in Int
        <5> HIDE DEF P, Fits, f, w, x
        <5>1. QED
          BY <1>5, <3>1, <4>1
      <4> DEFINE gt == g[t]
                 gl == g[t - 1]
                 pk == part[t][k]
                 pl == part[t][k - 1]
      <4>6. gt \in Int /\ gl \in Int /\ pk \in Int /\ pl \in Int /\ w \in Int
        BY <3>1, <4>5
      <4>7. /\ gt = gl + pk /\ pk = pl + (IF x = t THEN w ELSE 0)
            /\ f[t] = gt - (IF t >= x THEN w ELSE 0)
            /\ f[t - 1] = gl - (IF t - 1 >= x THEN w ELSE 0)
        BY <4>2, <4>3, <4>4
      <4> HIDE DEF f, w, x, gt, gl, pk, pl, P, Fits
      <4>8. gt - (IF t >= x THEN w ELSE 0) = (gl - (IF t - 1 >= x THEN w ELSE 0)) + pl
        <5>1. CASE x = t
          <6>1. gt = gl + pk /\ pk = pl + w /\ t >= x /\ ~(t - 1 >= x)
            BY <4>1, <4>7, <5>1
          <6>2. QED
            BY <4>6, <6>1
        <5>2. CASE x < t
          <6>1. gt = gl + pk /\ pk = pl + 0 /\ t >= x /\ t - 1 >= x
            BY <4>1, <4>7, <5>2
          <6>2. QED
            BY <4>6, <6>1
        <5>3. CASE t < x
          <6>1. gt = gl + pk /\ pk = pl + 0 /\ ~(t >= x) /\ ~(t - 1 >= x)
            BY <4>1, <4>7, <5>3
          <6>2. QED
            BY <4>6, <6>1
        <5>4. QED
          BY <4>1, <5>1, <5>2, <5>3
      <4>9. QED
        BY <4>7, <4>8 DEF pl
    <3>4. Fits(f, k - 1)
      <4> HIDE DEF f, P
      <4>1. QED
        BY <3>2, <3>3
    <3>5. f[n] = all[k - 1]
      <4>1. \A h \in [0..n -> Int] : Fits(h, k - 1) => h[n] = all[k - 1]
        BY <1>7
      <4> HIDE DEF f, Fits, P
      <4>2. QED
        BY <3>2, <3>4, <4>1
    <3>6. all[k] = all[k - 1] + w /\ all[k - 1] \in Int /\ g[n] \in Int
      <4> HIDE DEF f, Fits, P
      <4>1. QED
        BY <1>2, <3>1
    <3> DEFINE gn == g[n]
               al == all[k - 1]
    <3>7. gn \in Int /\ al \in Int /\ w \in Int /\ gn - w = al /\ all[k] = al + w
      BY <3>1, <3>2, <3>5, <3>6
    <3> HIDE DEF f, Fits, P, w, gn, al
    <3>8. gn = al + w
      BY <3>7
    <3>9. QED
      BY <3>7, <3>8 DEF gn
  <2> HIDE DEF Fits
  <2>2. QED
    BY <1>5, <2>1
<1>8. \A k \in 0..n : k \in P
  <2> HIDE DEF P
  <2>1. QED
    BY <1>6, <1>7, Climbs
<1>9. Fits(teams, n)
  <2> HIDE DEF P
  <2>1. QED
    BY <1>3
<1>10. \A g \in [0..n -> Int] : Fits(g, n) => g[n] = all[n]
  <2> HIDE DEF Fits
  <2>1. QED
    BY <1>5, <1>8
<1>11. QED
  <2> HIDE DEF Fits, P
  <2>1. QED
    BY <1>9, <1>10, <1>3

\* Pull requests as the digest is given them: authors are counted from 1, and
\* no two are the same.
DigestInput(prs) ==
  /\ prs \in Seq(PullRequestType)
  /\ \A k \in DOMAIN prs : prs[k].author \in 1..Len(prs)
  /\ \A j, k \in DOMAIN prs : prs[j] = prs[k] => j = k

\* Nobody's pull request is left out or counted twice.
LEMMA TeamsHaveAll ==
  ASSUME NEW prs, DigestInput(prs)
  PROVE  LET n == Len(prs)
             teams == {prs[k].author : k \in DOMAIN prs}
             Own(t) == {k \in DOMAIN prs : prs[k].author = t}
         IN /\ Together([t \in teams |-> Cardinality(Own(t))], n) = n
            /\ Together([t \in teams |-> RiskSum(prs, Own(t))], n)
                 = RiskSum(prs, DOMAIN prs)
<1> DEFINE n == Len(prs)
           teams == {prs[k].author : k \in DOMAIN prs}
           Own(t) == {k \in DOMAIN prs : prs[k].author = t}
           team == [k \in 1..n |-> prs[k].author]
<1>1. /\ prs \in Seq(PullRequestType) /\ n \in Nat /\ DOMAIN prs = 1..n
      /\ team \in [1..n -> 1..n] /\ teams \subseteq 1..n
  BY DEF DigestInput
<1>2. ASSUME NEW t \in 1..n, t \notin teams PROVE \A k \in 1..n : team[k] # t
  BY <1>1, <1>2
<1>3. ASSUME NEW t, NEW k \in 1..n PROVE k \in Own(t) <=> team[k] = t
  BY <1>1
<1>4. Together([t \in teams |-> Cardinality(Own(t))], n) = n
  <2> DEFINE part == [t \in 1..n |-> [k \in 0..n |-> Upto(Own(t), k)]]
             weight == [k \in 1..n |-> 1]
             all == [k \in 0..n |-> k]
             has == [t \in teams |-> Cardinality(Own(t))]
  <2>1. ASSUME NEW t PROVE Upto(Own(t), n) = Cardinality(Own(t))
    <3>1. {j \in 1..n : j \in Own(t)} = Own(t)
      BY <1>1
    <3> HIDE DEF n, Own
    <3>2. QED
      BY <3>1 DEF Upto
  <2>2. ASSUME NEW t, NEW k \in 1..n
        PROVE  /\ Upto(Own(t), k) \in Nat
               /\ Upto(Own(t), k) = Upto(Own(t), k - 1) + (IF k \in Own(t) THEN 1 ELSE 0)
    <3>1. k \in Nat /\ k > 0
      BY <1>1
    <3> HIDE DEF Own
    <3>2. QED
      BY <3>1, UptoSteps
  <2>3. ASSUME NEW t, NEW k \in 0..n PROVE Upto(Own(t), k) \in Nat
    <3> HIDE DEF Own, n
    <3>1. CASE k = 0
      BY <3>1, UptoNone
    <3>2. CASE k # 0
      <4>1. k \in 1..n
        BY <1>1, <3>2
      <4>2. QED
        BY <2>2, <4>1
    <3>3. QED
      BY <3>1, <3>2
  <2>4. has \in [teams -> Int]
    <3>1. ASSUME NEW t \in teams PROVE Cardinality(Own(t)) \in Int
      <4> HIDE DEF Own, teams, n
      <4>1. Upto(Own(t), n) \in Nat
        BY <1>1, <2>3
      <4>2. QED
        BY <2>1, <4>1
    <3> HIDE DEF Own, teams
    <3>2. QED
      BY <3>1
  <2>5. PICK h \in [0..n -> Int] : SumsTeams(h, has, teams, n)
    <3> HIDE DEF has, teams, n
    <3>1. QED
      BY <1>1, <2>4, TogetherIs
  <2>6. /\ part \in [1..n -> [0..n -> Int]] /\ weight \in [1..n -> Int]
        /\ all \in [0..n -> Int]
    <3> HIDE DEF Own, n
    <3>1. weight \in [1..n -> Int] /\ all \in [0..n -> Int]
      BY <1>1
    <3>2. part \in [1..n -> [0..n -> Int]]
      BY <2>3
    <3>3. QED
      BY <3>1, <3>2
  <2>7. ASSUME NEW t \in 1..n, NEW k \in 1..n
        PROVE  part[t][k] = part[t][k - 1] + (IF team[k] = t THEN weight[k] ELSE 0)
    <3>1. part[t][k] = Upto(Own(t), k) /\ part[t][k - 1] = Upto(Own(t), k - 1)
      <4> HIDE DEF Own, n
      <4>1. k \in 0..n /\ k - 1 \in 0..n
        BY <1>1
      <4>2. QED
        BY <4>1
    <3>2. weight[k] = 1
      OBVIOUS
    <3> HIDE DEF Own, n, part, weight, team
    <3>3. QED
      BY <1>3, <2>2, <3>1, <3>2
  <2>8. \A t \in 1..n : part[t][0] = 0 /\ part[t][n] = Cardinality(Own(t))
    <3> HIDE DEF Own, n
    <3>1. 0 \in 0..n /\ n \in 0..n
      BY <1>1
    <3>2. QED
      BY <2>1, UptoNone, <3>1
  <2>9. Splits(part, team, weight, n)
    <3> HIDE DEF Own, n, part, weight, team
    <3>1. QED
      BY <1>1, <2>6, <2>7, <2>8 DEF Splits
  <2>10. ASSUME NEW t \in 1..n PROVE h[t] = h[t - 1] + part[t][n]
    <3>1. t \in teams => has[t] = Cardinality(Own(t))
      <4> HIDE DEF Own, teams
      <4>1. QED
        OBVIOUS
    <3> HIDE DEF Own, n, part, weight, team, has, teams
    <3>2. t \notin teams => part[t][n] = 0
      <4>1. ASSUME t \notin teams PROVE part[t][n] = 0
        <5>1. \A k \in 1..n : team[k] # t
          BY <1>2, <4>1
        <5>2. QED
          BY <1>1, <2>9, <5>1, NobodysPart
      <4>2. QED
        BY <4>1
    <3>3. QED
      BY <2>5, <2>8, <3>1, <3>2 DEF SumsTeams
  <2>11. all[0] = 0 /\ all[n] = n /\ \A k \in 1..n : all[k] = all[k - 1] + weight[k]
    <3> HIDE DEF n
    <3>1. QED
      BY <1>1
  <2>12. h[n] = all[n]
    <3> HIDE DEF Own, n, part, weight, team, has, teams, all
    <3>1. \A t \in 1..n : Wholes(part, n)[t] = part[t][n]
      BY DEF Wholes
    <3>2. Running(h, Wholes(part, n), n)
      BY <2>5, <2>10, <3>1 DEF SumsTeams, Running
    <3>3. Running(all, weight, n)
      BY <2>6, <2>11 DEF Running
    <3>4. n \in Nat
      BY <1>1
    <3>5. QED
      BY <2>9, <3>2, <3>3, <3>4, Regrouped
  <2>13. QED
    BY <2>5, <2>11, <2>12 DEF SumsTeams, has
<1>5. Together([t \in teams |-> RiskSum(prs, Own(t))], n) = RiskSum(prs, DOMAIN prs)
  <2> DEFINE part == [t \in 1..n |-> CHOOSE h \in [0..n -> Int] : SumsRisks(h, prs, Own(t))]
             weight == [k \in 1..n |-> prs[k].risk]
             has == [t \in teams |-> RiskSum(prs, Own(t))]
  <2>1. ASSUME NEW own PROVE \E h \in [0..n -> Int] : SumsRisks(h, prs, own)
    BY <1>1, RiskSumIs
  <2>2. ASSUME NEW t \in 1..n PROVE part[t] \in [0..n -> Int] /\ SumsRisks(part[t], prs, Own(t))
    <3> HIDE DEF Own, n
    <3>1. QED
      BY <2>1
  <2>3. PICK all \in [0..n -> Int] : SumsRisks(all, prs, DOMAIN prs)
    <3> HIDE DEF Own, n
    <3>1. QED
      BY <2>1
  <2>4. weight \in [1..n -> Int]
    BY <1>1, PullRequestFacts
  <2>5. part \in [1..n -> [0..n -> Int]]
    <3> HIDE DEF Own, n
    <3>1. QED
      BY <2>2
  <2>6. has \in [teams -> Int]
    <3>1. ASSUME NEW t \in teams PROVE RiskSum(prs, Own(t)) \in Int
      <4>1. t \in 1..n /\ n \in 0..n
        BY <1>1
      <4>2. RiskSum(prs, Own(t)) = part[t][n] /\ part[t] \in [0..n -> Int]
        <5>1. SumsRisks(part[t], prs, Own(t)) /\ part[t] \in [0..n -> Int]
          <6> HIDE DEF part, n
          <6>1. QED
            BY <2>2, <4>1
        <5> HIDE DEF part, Own
        <5>2. QED
          BY <5>1 DEF SumsRisks
      <4> HIDE DEF part, Own, n
      <4>3. QED
        BY <4>1, <4>2
    <3> HIDE DEF Own, teams
    <3>2. QED
      BY <3>1
  <2>7. PICK h \in [0..n -> Int] : SumsTeams(h, has, teams, n)
    <3> HIDE DEF has, teams, n
    <3>1. QED
      BY <1>1, <2>6, TogetherIs
  <2>8. ASSUME NEW t \in 1..n
        PROVE  /\ RiskSum(prs, Own(t)) = part[t][n]
               /\ part[t][0] = 0
               /\ \A k \in 1..n :
                    part[t][k] = part[t][k - 1] + (IF k \in Own(t) THEN prs[k].risk ELSE 0)
    <3>1. SumsRisks(part[t], prs, Own(t))
      <4> HIDE DEF part, n
      <4>1. QED
        BY <2>2
    <3> HIDE DEF part, Own
    <3>2. QED
      BY <3>1 DEF SumsRisks
  <2>9. ASSUME NEW t \in 1..n, NEW k \in 1..n
        PROVE  part[t][k] = part[t][k - 1] + (IF team[k] = t THEN weight[k] ELSE 0)
    <3>1. weight[k] = prs[k].risk
      OBVIOUS
    <3> HIDE DEF part, Own, n, weight, team
    <3>2. QED
      BY <1>3, <2>8, <3>1
  <2>10. Splits(part, team, weight, n)
    <3> HIDE DEF Own, n, part, weight, team
    <3>1. QED
      BY <1>1, <2>4, <2>5, <2>8, <2>9 DEF Splits
  <2>11. ASSUME NEW t \in 1..n PROVE h[t] = h[t - 1] + part[t][n]
    <3>1. t \in teams => has[t] = RiskSum(prs, Own(t))
      <4> HIDE DEF Own, teams
      <4>1. QED
        OBVIOUS
    <3> HIDE DEF Own, n, part, weight, team, has, teams
    <3>2. t \notin teams => part[t][n] = 0
      <4>1. ASSUME t \notin teams PROVE part[t][n] = 0
        <5>1. \A k \in 1..n : team[k] # t
          BY <1>2, <4>1
        <5>2. QED
          BY <1>1, <2>10, <5>1, NobodysPart
      <4>2. QED
        BY <4>1
    <3>3. QED
      BY <2>7, <2>8, <3>1, <3>2 DEF SumsTeams
  <2>12. /\ all[0] = 0 /\ all[n] = RiskSum(prs, DOMAIN prs)
         /\ \A k \in 1..n : all[k] = all[k - 1] + weight[k]
    <3>1. \A k \in 1..n : k \in DOMAIN prs /\ weight[k] = prs[k].risk
      BY <1>1
    <3> HIDE DEF weight, Own
    <3>2. QED
      BY <2>3, <3>1 DEF SumsRisks
  <2>13. \A t \in 1..n : part[t][0] = 0
    BY <2>8
  <2>14. h[n] = all[n]
    <3> HIDE DEF Own, n, part, weight, team, has, teams
    <3>1. \A t \in 1..n : Wholes(part, n)[t] = part[t][n]
      BY DEF Wholes
    <3>2. Running(h, Wholes(part, n), n)
      BY <2>7, <2>11, <3>1 DEF SumsTeams, Running
    <3>3. Running(all, weight, n)
      BY <2>3, <2>12 DEF Running
    <3>4. n \in Nat
      BY <1>1
    <3>5. QED
      BY <2>10, <3>2, <3>3, <3>4, Regrouped
  <2>15. QED
    BY <2>7, <2>12, <2>14 DEF SumsTeams, has
<1>6. QED
  BY <1>4, <1>5

\* The offenders are the risky ones with fewer than five risky before them.
LEMMA OffendersFound ==
  ASSUME NEW prs, DigestInput(prs)
  PROVE  \A k \in DOMAIN prs :
           prs[k] \in Range(Offenders(prs)) <=>
             /\ prs[k].risk >= 50
             /\ Cardinality({j \in 1..(k - 1) : prs[j].risk >= 50}) < 5
<1> DEFINE n == Len(prs)
           risky == {j \in DOMAIN prs : prs[j].risk >= 50}
           Count(k) == Upto(risky, k)
           Top(k) == {j \in 1..k : j \in risky /\ Count(j - 1) < 5}
<1>1. prs \in Seq(PullRequestType) /\ n \in Nat /\ DOMAIN prs = 1..n
  BY DEF DigestInput
<1>2. PICK top \in [0..n -> Seq(PullRequestType)] : FillsTop(top, prs)
  BY <1>1, OffendersAre
<1>3. /\ Offenders(prs) = top[n]
       /\ top[0] = <<>>
       /\ \A k \in 1..n : top[k] = IF prs[k].risk >= 50 /\ Len(top[k - 1]) < 5
                                     THEN Append(top[k - 1], prs[k]) ELSE top[k - 1]
  BY <1>2 DEF FillsTop
<1>4. Count(0) = 0
  <2> HIDE DEF risky
  <2>1. QED
    BY UptoNone
<1>5. ASSUME NEW k \in 1..n
      PROVE  Count(k) \in Nat /\ Count(k) = Count(k - 1) + (IF k \in risky THEN 1 ELSE 0)
  <2>1. k \in Nat /\ k > 0
    BY <1>1
  <2> HIDE DEF risky
  <2>2. QED
    BY <2>1, UptoSteps
<1> DEFINE Holds(k) == /\ Len(top[k]) = IF Count(k) < 5 THEN Count(k) ELSE 5
                       /\ {top[k][i] : i \in 1..Len(top[k])} = {prs[j] : j \in Top(k)}
           P == {k \in 0..n : Count(k) \in Nat /\ Holds(k)}
<1>6. 0 \in P
  <2>1. Top(0) = {} /\ Len(top[0]) = 0 /\ 0 \in 0..n
    BY <1>1, <1>3
  <2> HIDE DEF Count, Top
  <2>2. {top[0][i] : i \in 1..Len(top[0])} = {} /\ {prs[j] : j \in Top(0)} = {}
    BY <2>1
  <2>3. QED
    BY <1>4, <2>1, <2>2
<1>7. ASSUME NEW k \in 1..n, k - 1 \in P PROVE k \in P
  <2>1. /\ Count(k - 1) \in Nat /\ Holds(k - 1)
        /\ top[k - 1] \in Seq(PullRequestType) /\ k \in 0..n /\ prs[k] \in PullRequestType
    <3>1. k \in 0..n /\ k - 1 \in 0..n /\ prs[k] \in PullRequestType
      <4> HIDE DEF P, n
      <4>1. k \in 0..n /\ k - 1 \in 0..n
        BY <1>1
      <4>2. prs[k] \in PullRequestType
        BY <1>1, PullRequestFacts DEF n
      <4>3. QED
        BY <4>1, <4>2
    <3>2. Count(k - 1) \in Nat /\ Holds(k - 1)
      <4> HIDE DEF Count, Holds, n
      <4>1. QED
        BY <1>7
    <3> HIDE DEF Count, Holds, n, P
    <3>3. QED
      BY <3>1, <3>2
  <2>2. k \in risky <=> prs[k].risk >= 50
    BY <1>1
  <2>3. Top(k) = IF k \in risky /\ Count(k - 1) < 5 THEN Top(k - 1) \cup {k} ELSE Top(k - 1)
    <3> HIDE DEF Count, risky
    <3>1. ASSUME NEW j PROVE j \in 1..k <=> j \in 1..(k - 1) \/ j = k
      BY <1>1
    <3>2. k \notin 1..(k - 1)
      BY <1>1
    <3>3. CASE k \in risky /\ Count(k - 1) < 5
      BY <3>1, <3>2, <3>3
    <3>4. CASE ~(k \in risky /\ Count(k - 1) < 5)
      BY <3>1, <3>2, <3>4
    <3>5. QED
      BY <3>3, <3>4
  <2>4. Len(top[k - 1]) < 5 <=> Count(k - 1) < 5
    <3> HIDE DEF Count, Top
    <3>1. QED
      BY <2>1
  <2>5. CASE k \in risky /\ Count(k - 1) < 5
    <3> HIDE DEF Count, Top, risky
    <3> DEFINE s == top[k - 1]
               e == prs[k]
    <3>1. top[k] = Append(s, e)
      BY <1>3, <2>2, <2>4, <2>5
    <3>2. s \in Seq(PullRequestType) /\ e \in PullRequestType
      BY <2>1
    <3> HIDE DEF s, e
    <3>3. /\ Len(Append(s, e)) = Len(s) + 1
          /\ {Append(s, e)[i] : i \in 1..Len(Append(s, e))} = {s[i] : i \in 1..Len(s)} \cup {e}
      <4>1. /\ Len(Append(s, e)) = Len(s) + 1 /\ Len(s) \in Nat
            /\ \A i \in 1..(Len(s) + 1) :
                 Append(s, e)[i] = IF i \in 1..Len(s) THEN s[i] ELSE e
        BY <3>2
      <4> DEFINE a == Append(s, e)
                 m == Len(s)
      <4>2. m \in Nat /\ m + 1 \in 1..(m + 1) /\ m + 1 \notin 1..m
        BY <4>1
      <4>3. \A i \in 1..(m + 1) : a[i] = IF i \in 1..m THEN s[i] ELSE e
        BY <4>1
      <4>4. \A i : i \in 1..(m + 1) <=> i \in 1..m \/ i = m + 1
        BY <4>2
      <4> HIDE DEF a, m
      <4>5. {a[i] : i \in 1..(m + 1)} = {s[i] : i \in 1..m} \cup {e}
        BY <4>2, <4>3, <4>4
      <4>6. QED
        BY <4>1, <4>5 DEF a, m
    <3>4. {prs[j] : j \in Top(k)} = {prs[j] : j \in Top(k - 1)} \cup {e}
      BY <2>3, <2>5 DEF e
    <3>5. Count(k) = Count(k - 1) + 1 /\ Count(k) \in Nat
      BY <1>5, <2>5
    <3>6. Len(s) = Count(k - 1) /\ {s[i] : i \in 1..Len(s)} = {prs[j] : j \in Top(k - 1)}
      BY <2>1, <2>5 DEF s
    <3>7. Len(top[k]) = IF Count(k) < 5 THEN Count(k) ELSE 5
      BY <2>1, <2>5, <3>1, <3>3, <3>5, <3>6
    <3>8. {top[k][i] : i \in 1..Len(top[k])} = {prs[j] : j \in Top(k)}
      BY <3>1, <3>3, <3>4, <3>6
    <3>9. QED
      BY <2>1, <3>5, <3>7, <3>8
  <2>6. CASE ~(k \in risky /\ Count(k - 1) < 5)
    <3> HIDE DEF Count, Top, risky
    <3>1. top[k] = top[k - 1] /\ Top(k) = Top(k - 1)
      BY <1>3, <2>2, <2>3, <2>4, <2>6
    <3>2. Count(k) \in Nat /\ Count(k) = Count(k - 1) + (IF k \in risky THEN 1 ELSE 0)
      BY <1>5
    <3>3. Len(top[k - 1]) = IF Count(k) < 5 THEN Count(k) ELSE 5
      BY <2>1, <2>6, <3>2
    <3>4. QED
      BY <2>1, <3>1, <3>2, <3>3
  <2>7. QED
    BY <2>5, <2>6
<1>8. \A k \in 0..n : k \in P
  <2> HIDE DEF P
  <2>1. QED
    BY <1>1, <1>6, <1>7, Climbs
<1>9. top[n] \in Seq(PullRequestType) /\ {top[n][i] : i \in 1..Len(top[n])} = {prs[j] : j \in Top(n)}
  <2>1. n \in P
    <3> HIDE DEF P, n
    <3>1. QED
      BY <1>1, <1>8
  <2>2. Holds(n)
    <3> HIDE DEF Count, Holds, n
    <3>1. QED
      BY <2>1
  <2>3. top[n] \in Seq(PullRequestType)
    <3> HIDE DEF P, n
    <3>1. QED
      BY <1>1
  <2> HIDE DEF Count, Top, P, n
  <2>4. QED
    BY <2>2, <2>3
<1>10. Range(Offenders(prs)) = {prs[j] : j \in Top(n)}
  <2> DEFINE s == top[n]
  <2>1. s = Offenders(prs) /\ DOMAIN s = 1..Len(s)
    <3>1. s \in Seq(PullRequestType)
      BY <1>9
    <3> HIDE DEF s
    <3>2. DOMAIN s = 1..Len(s)
      BY <3>1
    <3>3. s = Offenders(prs)
      BY <1>3 DEF s
    <3>4. QED
      BY <3>2, <3>3
  <2>2. {s[i] : i \in 1..Len(s)} = {prs[j] : j \in Top(n)}
    BY <1>9
  <2> HIDE DEF Top, s
  <2>3. QED
    BY <2>1, <2>2 DEF Range
<1>11. ASSUME NEW k \in DOMAIN prs
       PROVE  prs[k] \in Range(Offenders(prs)) <=>
                /\ prs[k].risk >= 50
                /\ Cardinality({j \in 1..(k - 1) : prs[j].risk >= 50}) < 5
  <2>1. {j \in 1..(k - 1) : prs[j].risk >= 50} = {j \in 1..(k - 1) : j \in risky}
    BY <1>1
  <2>2. prs[k] \in {prs[j] : j \in Top(n)} <=> k \in Top(n)
    <3>1. Top(n) \subseteq DOMAIN prs
      BY <1>1
    <3> HIDE DEF Top
    <3>2. QED
      BY <3>1 DEF DigestInput
  <2>3. k \in Top(n) <=> prs[k].risk >= 50 /\ Count(k - 1) < 5
    <3>1. k \in 1..n /\ (k \in risky <=> prs[k].risk >= 50)
      BY <1>1
    <3> HIDE DEF Count, risky
    <3>2. QED
      BY <3>1
  <2>4. Count(k - 1) = Cardinality({j \in 1..(k - 1) : prs[j].risk >= 50})
    <3> HIDE DEF risky
    <3>1. QED
      BY <2>1 DEF Upto
  <2> HIDE DEF Count, Top
  <2>5. QED
    BY <1>10, <2>2, <2>3, <2>4
<1>12. QED
  BY <1>11

\* The digest of any pull requests of that kind is true.
LEMMA DigestsAreTrue ==
  ASSUME NEW prs, DigestInput(prs)
  PROVE  DigestIsTrue(Aggregate(prs), prs)
<1> DEFINE n == Len(prs)
           teams == {prs[k].author : k \in DOMAIN prs}
           Own(t) == {k \in DOMAIN prs : prs[k].author = t}
           digest == Aggregate(prs)
<1>1. /\ digest.prs_analyzed = n
      /\ digest.risk_sum = RiskSum(prs, DOMAIN prs)
      /\ digest.top_offenders = Offenders(prs)
      /\ digest.by_team = [t \in teams |-> TeamSummary(prs, t)]
  BY DEF Aggregate
<1>2. ASSUME NEW t \in teams
      PROVE  /\ digest.by_team[t].pr_count = Cardinality(Own(t))
             /\ digest.by_team[t].risk_sum = RiskSum(prs, Own(t))
  <2>1. /\ TeamSummary(prs, t).pr_count = Cardinality(Own(t))
        /\ TeamSummary(prs, t).risk_sum = RiskSum(prs, Own(t))
    BY DEF TeamSummary
  <2> HIDE DEF teams, Own, digest
  <2>2. QED
    BY <1>1, <2>1
<1>3. DOMAIN digest.by_team = teams
  <2> HIDE DEF teams, digest
  <2>1. QED
    BY <1>1
<1>4. /\ [t \in teams |-> digest.by_team[t].pr_count] = [t \in teams |-> Cardinality(Own(t))]
      /\ [t \in teams |-> digest.by_team[t].risk_sum] = [t \in teams |-> RiskSum(prs, Own(t))]
  <2> HIDE DEF teams, Own, digest
  <2>1. QED
    BY <1>2
<1>5. /\ Together([t \in teams |-> Cardinality(Own(t))], n) = n
      /\ Together([t \in teams |-> RiskSum(prs, Own(t))], n) = RiskSum(prs, DOMAIN prs)
  BY TeamsHaveAll
<1>6. QED
  <2> HIDE DEF teams, Own, digest, n
  <2>1. /\ Together([t \in teams |-> digest.by_team[t].pr_count], n) = n
        /\ Together([t \in teams |-> digest.by_team[t].risk_sum], n) = digest.risk_sum
    BY <1>1, <1>4, <1>5
  <2>2. QED
    BY <1>1, <1>3, <2>1, OffendersFound DEF DigestIsTrue, digest, n

\* The pull requests of --mock-prs are of that kind, however many.
LEMMA MockInput == \A k \in Nat : DigestInput(MockPRs(k))
<1>1. ASSUME NEW n \in Nat PROVE DigestInput(MockPRs(n))
  <2> DEFINE prs == MockPRs(n)
  <2>1. \A k \in 1..n : (15 * (k - 1)) % 80 \in Int
    OBVIOUS
  <2>2. /\ prs = [k \in 1..n |-> prs[k]] /\ DOMAIN prs = 1..n
        /\ \A k \in 1..n : prs[k].author = k /\ prs[k] \in PullRequestType
    <3>1. ASSUME NEW k \in 1..n PROVE prs[k].author = k /\ prs[k] \in PullRequestType
      <4>1. prs[k] = [author |-> k, risk |-> 20 + ((15 * (k - 1)) % 80),
                      critical_findings |-> IF k = 1 THEN 1 ELSE 0]
        BY DEF MockPRs
      <4> DEFINE r == 20 + ((15 * (k - 1)) % 80)
                 c == IF k = 1 THEN 1 ELSE 0
      <4>2. r \in Int /\ c \in Nat /\ k \in Nat
        BY <2>1
      <4>3. prs[k] = [author |-> k, risk |-> r, critical_findings |-> c]
        BY <4>1
      <4> HIDE DEF r, c, prs
      <4>4. QED
        BY <4>2, <4>3 DEF PullRequestType
    <3>2. prs = [k \in 1..n |-> prs[k]] /\ DOMAIN prs = 1..n
      BY DEF MockPRs
    <3>3. QED
      BY <3>1, <3>2
  <2> HIDE DEF prs
  <2>3. prs \in Seq(PullRequestType) /\ Len(prs) = n
    BY <2>2
  <2>4. QED
    BY <2>2, <2>3 DEF DigestInput, prs
<1>2. QED
  BY <1>1

-----------------------------------------------------------------------------
\* Whichever way an analysis was asked for, what its caller is told is what
\* was found out, for all keys, scores, findings and numbers of pull requests
\* (apohara-argus-cli/src/main.rs:90-206, 253-290; argus-lens/src/lib.rs:77-145;
\* argus-dashboard/src/main.rs:91-135).
THEOREM ToldTruly == EntrySpec => []ToldWhatIsSo
<1>1. ASSUME EntryInv PROVE ToldWhatIsSo
  <2>1. Told /\ call.door \in {"lens", "argus-lens"} /\ answer.code = "exit 0" =>
          /\ briefing.state = "whole"
          /\ DigestIsTrue(briefing.digest, MockPRs(call.prs))
    <3>1. SUFFICES ASSUME Told, call.door \in {"lens", "argus-lens"},
                          answer.code = "exit 0"
                   PROVE  /\ briefing.state = "whole"
                          /\ DigestIsTrue(briefing.digest, MockPRs(call.prs))
      OBVIOUS
    <3>2. briefing = Written /\ call.prs \in PullRequests
      BY <1>1, <3>1 DEF EntryInv, DigestWritten
    <3>3. Written.state = "whole" /\ Written.digest = Aggregate(MockPRs(call.prs))
      BY DEF Written, Rendered
    <3>4. DigestInput(MockPRs(call.prs))
      BY <3>2, PullRequestsAssumption, MockInput
    <3>5. DigestIsTrue(Aggregate(MockPRs(call.prs)), MockPRs(call.prs))
      BY <3>4, DigestsAreTrue
    <3>6. QED
      BY <3>2, <3>3, <3>5
  <2>2. Told /\ answer.status = "Approved" /\ call.door # "snippet" =>
          Complete /\ call.key \in Keys
    BY <1>1 DEF EntryInv, ApprovalTold
  <2>3. Told /\ call.door = "verify" =>
          (answer.code = "exit 1" <=> verdict.status = "Halted")
    BY <1>1 DEF EntryInv, ExitTold
  <2>4. Told /\ call.door \in {"guard", "argus-guard"} /\ answer.code = "exit 0" =>
          \/ answer.status = "empty"
          \/ /\ slop # None \/ security # None \/ arch # None
             /\ verdict.risk <= 70
    BY <1>1 DEF EntryInv, GuardTold, NoReport
  <2>5. QED
    BY <2>1, <2>2, <2>3, <2>4 DEF ToldWhatIsSo
<1>2. EntryInv => ToldWhatIsSo
  BY <1>1
<1>3. QED
  BY <1>2, AlwaysEntryInv, PTL

\* An analysis behind a form of the dashboard is charged to a key which another
\* caller gave while it waited, if one did, and else to its own caller's, if he
\* gave one: for any number of keys and callers.  Of a caller who gave none, and
\* after whom none came, it says nothing: his analysis is charged to what is
\* left in the environment (argus-dashboard/src/main.rs:110-124, 164-169).
THEOREM LastKeyCounts == EntrySpec => LastKeyCharged
<1>1. ASSUME EntryInv, [EntryNext]_allVars,
             call.door \in Forms, call.step = "fetched", call'.step = "analysis"
      PROVE  /\ later # {} => call'.key \in later
             /\ later = {} /\ call.given \in Keys => call'.key = call.given
  <2>1. CASE ReadKey
    <3>1. Analyzes(env) \/ Answer(Failure(call.door), "error")
      BY <2>1 DEF ReadKey
    <3>2. Analyzes(env)
      BY <1>1, <3>1 DEF EntryInv, Kinds, CallRecord, Answer
    <3>3. call'.key = env
      BY <1>1, <3>2, AnalysisEffect DEF EntryInv, Kinds
    <3>4. QED
      BY <1>1, <3>3 DEF EntryInv, KeySeen
  <2>2. CASE Works /\ ~ReadKey
    BY <1>1, <2>2
    DEF Works, RefusesCommand, ReadDiff, EmptyDiff, ListPrompts, Health, LensFails,
        LensScript, LensWrites, Fetch, ToolRefuses, ToolRuns, AnalyzerEnds, Judges,
        GuardAnswers, VerifyAnswers, WebAnswers, SpecialistAnswers, VerdictAnswers,
        Begins, Forms, Tools
  <2>3. CASE StartProgram \/ OtherCaller \/ Done
    BY <1>1, <2>3 DEF StartProgram, Starts, OtherCaller, Done
  <2>4. CASE Asks
    BY <1>1, <2>4, ArrivalEffect
    DEF Asks, RunCommand, DemoAnalyze, ApiRefuses, ApiAccepts, SubmitForm,
        AcceptsKey, AnalyzeSnippet, GetPage, GetBriefing, GetEnterprise, CallTool,
        Arrives, ArrivesWith
  <2>5. CASE UNCHANGED allVars
    BY <1>1, <2>5 DEF allVars, entryVars
  <2>6. QED
    BY <1>1, <2>1, <2>2, <2>3, <2>4, <2>5 DEF EntryNext
<1>2. EntryInv /\ [EntryNext]_allVars =>
        [call.door \in Forms /\ call.step = "fetched" /\ call'.step = "analysis"
           => /\ later # {} => call'.key \in later
              /\ later = {} /\ call.given \in Keys => call'.key = call.given]_allVars
  BY <1>1
<1>3. QED
  BY <1>2, AlwaysEntryInv, PTL DEF EntrySpec, LastKeyCharged

-----------------------------------------------------------------------------
(* The answer about a snippet.                                             *)

\* A call with a snippet is answered at once, with what the rules say of it.
SnippetAnswered ==
  call.door = "snippet" =>
    /\ call.step = "answered" /\ call.code \in Snippets
    /\ answer = IF Blank(call.code) THEN [code |-> "400", status |-> "none"]
                ELSE SnippetResponse(call.code)

\* Every step towards an answer is that of a call that waits, and leaves its
\* door.
LEMMA WorksWait ==
  ASSUME CallRecord, Works
  PROVE  call.step # "answered" /\ call'.door = call.door
<1>1. call.step # "answered"
  <2>1. RefusesCommand \/ EmptyDiff \/ ListPrompts \/ Health \/ LensFails =>
          call.step # "answered"
    BY DEF RefusesCommand, EmptyDiff, ListPrompts, Health, LensFails, Begins
  <2>2. LensWrites \/ ToolRefuses \/ GuardAnswers \/ VerifyAnswers \/ WebAnswers =>
          call.step # "answered"
    BY DEF LensWrites, ToolRefuses, GuardAnswers, VerifyAnswers, WebAnswers
  <2>3. SpecialistAnswers \/ VerdictAnswers \/ ReadDiff \/ LensScript \/ Fetch \/ ReadKey =>
          call.step # "answered"
    BY DEF SpecialistAnswers, VerdictAnswers, ReadDiff, LensScript, Fetch, ReadKey, Begins
  <2>4. ToolRuns \/ AnalyzerEnds \/ Judges => call.step # "answered"
    BY DEF ToolRuns, AnalyzerEnds, Judges
  <2>5. QED
    BY <2>1, <2>2, <2>3, <2>4 DEF Works
<1>2. ASSUME NEW STATE code, NEW STATE status, Answer(code, status) PROVE call'.door = call.door
  BY <1>2 DEF Answer, CallRecord
<1>3. ASSUME NEW STATE key, Analyzes(key) PROVE call'.door = call.door
  BY <1>3, AnalysisEffect
<1>4. CASE RefusesCommand \/ EmptyDiff \/ ListPrompts \/ Health \/ LensFails
  <2>1. CASE RefusesCommand
    BY <1>2, <2>1 DEF RefusesCommand
  <2>2. CASE EmptyDiff
    BY <1>2, <2>2 DEF EmptyDiff, Begins, Answer, CallRecord
  <2>3. CASE ListPrompts
    BY <1>2, <2>3 DEF ListPrompts, Begins, Answer, CallRecord
  <2>4. CASE Health
    BY <1>2, <2>4 DEF Health, Begins, Answer, CallRecord
  <2>5. CASE LensFails
    BY <1>2, <2>5 DEF LensFails, Begins, Answer, CallRecord
  <2>6. QED
    BY <1>4, <2>1, <2>2, <2>3, <2>4, <2>5
<1>5. CASE LensWrites \/ ToolRefuses \/ GuardAnswers \/ VerifyAnswers \/ WebAnswers
  BY <1>2, <1>5 DEF LensWrites, ToolRefuses, GuardAnswers, VerifyAnswers, WebAnswers
<1>6. CASE SpecialistAnswers \/ VerdictAnswers
  BY <1>2, <1>6 DEF SpecialistAnswers, VerdictAnswers
<1>7. CASE ReadDiff
  BY <1>2, <1>3, <1>7 DEF ReadDiff, Begins
<1>8. CASE LensScript
  BY <1>8 DEF LensScript, Begins, CallRecord
<1>9. CASE Fetch \/ ReadKey
  BY <1>2, <1>3, <1>9 DEF Fetch, ReadKey, CallRecord
<1>10. CASE ToolRuns
  BY <1>10 DEF ToolRuns, CallRecord
<1>11. CASE AnalyzerEnds \/ Judges
  BY <1>11 DEF AnalyzerEnds, Judges, entryVars
<1>12. QED
  BY <1>1, <1>4, <1>5, <1>6, <1>7, <1>8, <1>9, <1>10, <1>11 DEF Works

\* Every step keeps it.
LEMMA NextSnippet ==
  EntryInv /\ SnippetAnswered /\ [EntryNext]_allVars => SnippetAnswered'
<1> SUFFICES ASSUME EntryInv, SnippetAnswered, [EntryNext]_allVars
             PROVE  SnippetAnswered'
  OBVIOUS
<1>1. CASE AnalyzeSnippet
  <2>1. PICK code \in Snippets :
          /\ ArrivesWith("dashboard", "snippet", "unset", "answered", code)
          /\ answer' = IF Blank(code) THEN [code |-> "400", status |-> "none"]
                       ELSE SnippetResponse(code)
    BY <1>1 DEF AnalyzeSnippet
  <2>2. call'.step = "answered" /\ call'.code = code
    BY <2>1 DEF ArrivesWith
  <2>3. QED
    BY <2>1, <2>2 DEF SnippetAnswered
<1>2. CASE Asks /\ ~AnalyzeSnippet
  <2>1. call'.door # "snippet"
    BY <1>2, ArrivalEffect
    DEF Asks, RunCommand, DemoAnalyze, ApiRefuses, ApiAccepts, SubmitForm, AcceptsKey,
        GetPage, GetBriefing, GetEnterprise, CallTool, Arrives, Commands, Tools,
        Enterprise, Pages
  <2>2. QED
    BY <2>1 DEF SnippetAnswered
<1>3. CASE Works
  BY <1>3, WorksWait DEF EntryInv, Kinds, SnippetAnswered
<1>4. CASE StartProgram \/ OtherCaller
  BY <1>4 DEF StartProgram, Starts, OtherCaller, SnippetAnswered
<1>5. CASE Done
  BY <1>5 DEF Done, NoCall, SnippetAnswered
<1>6. CASE UNCHANGED allVars
  BY <1>6 DEF allVars, entryVars, SnippetAnswered
<1>7. QED
  BY <1>1, <1>2, <1>3, <1>4, <1>5, <1>6 DEF EntryNext

\* On every snippet, of any length, the rule of the long functions reports
\* those with too many lines, if its braces match and its outermost blocks end
\* with their line; the rule of the unwraps reports those of a function just if
\* its name does not begin with test_, attribute or not; and a snippet with a
\* secret in it is halted (deterministic.rs:75-208; argus-dashboard/src/
\* main.rs:385-391).
THEOREM RulesFindAll == EntrySpec => []RulesExact
<1>1. EntryInit => SnippetAnswered
  BY DEF EntryInit, NoCall, SnippetAnswered
<1>2. EntrySpec => []SnippetAnswered
  BY <1>1, NextSnippet, AlwaysEntryInv, PTL DEF EntrySpec
<1>3. ASSUME SnippetAnswered PROVE RulesExact
  <2> SUFFICES ASSUME call.door = "snippet" PROVE RulesExact
    BY DEF RulesExact
  <2>1. call.code \in Seq(LineType)
    BY <1>3, SnippetsAssumption DEF SnippetAnswered
  <2>2. Balanced(call.code) =>
          slop_001_oversized(call.code) =
            {<<"SLOP-001", i>> : i \in OversizedFunctions(call.code)}
    BY <2>1, OversizedFound
  <2>3. ASSUME NEW i \in DOMAIN call.code, NEW f \in 1..i,
               "unwrap" \in call.code[i].marks, InFunction(call.code, f, i)
        PROVE  <<"SLOP-004", i>> \in slop_004_unwrap(call.code) <=> ~call.code[f].test
    BY <2>1, <2>3, UnwrapsFound
  <2>4. naive_hardcoded_secret(call.code) > 0 => answer.status = "Halted"
    <3> SUFFICES ASSUME naive_hardcoded_secret(call.code) > 0
                 PROVE  answer.status = "Halted"
      OBVIOUS
    <3>1. ~Blank(call.code)
      BY <2>1, BlankIsClean
    <3>2. answer = SnippetResponse(call.code)
      BY <1>3, <3>1 DEF SnippetAnswered
    <3>3. SnippetStatus(call.code) = "Halted"
      BY DEF SnippetStatus
    <3>4. QED
      BY <3>2, <3>3 DEF SnippetResponse
  <2>5. QED
    BY <2>2, <2>3, <2>4 DEF RulesExact
<1>4. SnippetAnswered => RulesExact
  BY <1>3
<1>5. QED
  BY <1>2, <1>4, PTL

=============================================================================
