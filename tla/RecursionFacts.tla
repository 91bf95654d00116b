---------------------------- MODULE RecursionFacts ----------------------------
(***************************************************************************)
(* Facts about recursive functions.  Induction over the numbers is least   *)
(* counterexamples here: an induction theorem takes an operator as its     *)
(* parameter, a set of counterexamples is a set.                           *)
(***************************************************************************)
EXTENDS Naturals, WellFoundedInduction, TLAPS

\* Among numbers there is a least one.
LEMMA LeastNat ==
  ASSUME NEW S \in SUBSET Nat, S # {}
  PROVE  \E m \in S : \A k \in S : m <= k
<1>1. PICK m \in S : \A k \in S : <<k, m>> \notin OpToRel(<, Nat)
  BY NatLessThanWellFounded, WFMin
<1>2. \A k \in S : ~(k < m)
  BY <1>1 DEF OpToRel
<1>3. QED
  BY <1>2

\* What holds of 0 and goes up by one step holds up to n.
LEMMA Climbs ==
  ASSUME NEW n \in Nat, NEW P, 0 \in P, \A k \in 1..n : k - 1 \in P => k \in P
  PROVE  \A k \in 0..n : k \in P
<1> DEFINE Gaps == {k \in 0..n : k \notin P}
<1>1. SUFFICES ASSUME Gaps # {} PROVE FALSE
  OBVIOUS
<1>2. PICK m \in Gaps : \A k \in Gaps : m <= k
  <2>1. Gaps \in SUBSET Nat
    OBVIOUS
  <2> HIDE DEF Gaps
  <2>2. QED
    BY <1>1, <2>1, LeastNat
<1>3. m \in 1..n /\ m - 1 \in 0..n /\ ~(m <= m - 1)
  OBVIOUS
<1>4. m - 1 \in P
  BY <1>2, <1>3
<1>5. QED
  BY <1>3, <1>4

\* g is defined from its value at 0 upwards.
Recurses(g, s0, F, last) ==
  g[0] = s0 /\ \A k \in 1..last : g[k] = F[k][g[k - 1]]

\* There is such a function.
LEMMA RecursionExists ==
  ASSUME NEW S, NEW s0 \in S, NEW F \in [Nat -> [S -> S]], NEW last \in Nat
  PROVE  \E g \in [0..last -> S] : Recurses(g, s0, F, last)
<1> DEFINE Fits(g, m) == g[0] = s0 /\ \A k \in 1..m : g[k] = F[k][g[k - 1]]
           Gaps == {m \in Nat : ~\E g \in [0..m -> S] : Fits(g, m)}
<1>1. SUFFICES ASSUME Gaps # {} PROVE FALSE
  BY DEF Recurses
<1>2. PICK m \in Gaps : \A k \in Gaps : m <= k
  BY <1>1, LeastNat
<1>3. m # 0
  <2>1. [i \in 0..0 |-> s0] \in [0..0 -> S] /\ Fits([i \in 0..0 |-> s0], 0)
    OBVIOUS
  <2>2. QED
    BY <2>1
<1>4. m - 1 \in Nat /\ m - 1 \notin Gaps
  <2>1. m \in Nat
    OBVIOUS
  <2>2. m - 1 \in Nat /\ ~(m <= m - 1)
    BY <1>3, <2>1
  <2> HIDE DEF Gaps
  <2>3. QED
    BY <1>2, <2>2
<1>5. PICK g \in [0..(m - 1) -> S] : Fits(g, m - 1)
  BY <1>4
<1> DEFINE h == [i \in 0..m |-> IF i = m THEN F[m][g[m - 1]] ELSE g[i]]
<1>6. h \in [0..m -> S]
  BY <1>3
<1>7. h[0] = s0
  BY <1>3, <1>5
<1>8. ASSUME NEW k \in 1..m PROVE h[k] = F[k][h[k - 1]]
  <2>1. k - 1 \in 0..m /\ k - 1 # m /\ h[k - 1] = g[k - 1]
    OBVIOUS
  <2>2. CASE k = m
    BY <2>1, <2>2
  <2>3. CASE k # m
    <3>1. k \in 1..(m - 1) /\ h[k] = g[k]
      BY <2>3
    <3>2. QED
      BY <1>5, <2>1, <3>1
  <2>4. QED
    BY <2>2, <2>3
<1>9. Fits(h, m)
  BY <1>7, <1>8
<1>10. QED
  BY <1>6, <1>9

=============================================================================
