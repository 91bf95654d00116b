--------------------------- MODULE HashChainProofs ---------------------------
(***************************************************************************)
(* What a hash chain guarantees for every set of entries, as long as each  *)
(* entry is linked and becomes the head in one step; and what the decision *)
(* log and its orchestrator guarantee for every plan and every document.   *)
(***************************************************************************)
EXTENDS Ledgers, RecursionFacts, FiniteSetTheorems, TLAPS

\* A written entry follows a written entry or the genesis hash.  Linear is not
\* inductive without it: an entry not yet written might already have a
\* follower.
Closed == \A e \in Written : link[e] \in Written \cup {Genesis}

ChainInv == TypeOK /\ Closed /\ Linear /\ Rooted

\* The empty chain satisfies the invariant.
LEMMA InitChain == Init => ChainInv
  BY GenesisAssumption, NoneAssumption
  DEF Init, ChainInv, TypeOK, Closed, Linear, Rooted, Written

\* What Extend(e) writes: e, linked to the old head, and nothing else.
LEMMA Extended ==
  ASSUME TypeOK, NEW e \in Entries, Extend(e)
  PROVE  /\ Written' = Written \cup {e}
         /\ e \notin Written
         /\ link'[e] = head
         /\ \A f \in Written : link'[f] = link[f]
         /\ head' = e
  BY NoneAssumption DEF TypeOK, Extend, Written

\* Every step keeps the invariant.
LEMMA NextChain == ChainInv /\ [Next]_<<head, link>> => ChainInv'
<1> SUFFICES ASSUME ChainInv, [Next]_<<head, link>> PROVE ChainInv'
  OBVIOUS
<1>1. CASE UNCHANGED <<head, link>>
  BY <1>1 DEF ChainInv, TypeOK, Closed, Linear, Rooted, Written
<1>2. CASE Next
  <2> PICK e \in Entries : Extend(e)
    BY <1>2 DEF Next
  <2>1. /\ Written' = Written \cup {e}
        /\ e \notin Written
        /\ link'[e] = head
        /\ \A f \in Written : link'[f] = link[f]
        /\ head' = e
    BY Extended DEF ChainInv
  <2>2. /\ head = Genesis \/ head \in Written
        /\ \A f \in Written : link[f] # head /\ link[f] # e
    BY <2>1, GenesisAssumption DEF ChainInv, Closed, Linear, Written
  <2>3. TypeOK'
    BY DEF ChainInv, TypeOK, Extend
  <2>4. Closed'
    BY <2>1, <2>2 DEF ChainInv, Closed
  <2>5. Linear'
    BY <2>1, <2>2, GenesisAssumption DEF ChainInv, Linear
  <2>6. Rooted'
    <3> SUFFICES ASSUME NEW S \in SUBSET Written', S # {}
                 PROVE  \E f \in S : link'[f] \notin S
      BY DEF Rooted
    <3>1. CASE S \subseteq {e}
      BY <3>1, <2>1, <2>2, GenesisAssumption
    <3>2. CASE ~(S \subseteq {e})
      <4>1. S \ {e} \in SUBSET Written /\ S \ {e} # {}
        BY <3>2, <2>1
      <4>2. PICK f \in S \ {e} : link[f] \notin S \ {e}
        BY <4>1 DEF ChainInv, Rooted
      <4>3. QED
        BY <4>1, <4>2, <2>1, <2>2
    <3>3. QED
      BY <3>1, <3>2
  <2>7. QED
    BY <2>3, <2>4, <2>5, <2>6 DEF ChainInv
<1>3. QED
  BY <1>1, <1>2

\* A chain whose writer reads and replaces the head in one step never forks
\* and never runs in a circle (chain.rs:33-44).
THEOREM ChainCorrect == Spec => [](TypeOK /\ Linear /\ Rooted)
<1>1. Spec => []ChainInv
  BY InitChain, NextChain, PTL DEF Spec
<1>2. ChainInv => TypeOK /\ Linear /\ Rooted
  BY DEF ChainInv
<1>3. QED
  BY <1>1, <1>2, PTL

-----------------------------------------------------------------------------
(* The ledger and the stories verify_chain is handed.                      *)

\* What the fields of an entry are.
LEMMA EntryFacts ==
  ASSUME NEW s \in Seq(ChainEntry), NEW i \in 1..Len(s)
  PROVE  /\ s[i] \in ChainEntry
         /\ s[i].prev_hash \in Seq(Entries) /\ s[i].hash \in Seq(Entries)
         /\ s[i].payload \in Entries
<1>1. s[i] \in ChainEntry
  OBVIOUS
<1>2. QED
  BY <1>1 DEF ChainEntry

\* The payloads up to a place, and those up to the next one.
LEMMA PayloadsStep ==
  ASSUME NEW s \in Seq(ChainEntry)
  PROVE  /\ Payloads(s, 0) = GENESIS_HASH
         /\ \A i \in 1..Len(s) :
              /\ Payloads(s, i - 1) \in Seq(Entries)
              /\ Payloads(s, i) = Append(Payloads(s, i - 1), s[i].payload)
<1>1. \A n \in 0..Len(s) : Payloads(s, n) \in Seq(Entries) /\ Len(Payloads(s, n)) = n
  BY EntryFacts DEF Payloads
<1>2. Payloads(s, 0) = GENESIS_HASH
  BY <1>1 DEF GENESIS_HASH
<1>3. ASSUME NEW i \in 1..Len(s)
      PROVE  Payloads(s, i) = Append(Payloads(s, i - 1), s[i].payload)
  <2> DEFINE p == Payloads(s, i - 1)
             q == Append(p, s[i].payload)
  <2>1. p \in Seq(Entries) /\ Len(p) = i - 1 /\ s[i].payload \in Entries
    BY <1>1, EntryFacts
  <2>2. q \in Seq(Entries) /\ Len(q) = i
    BY <2>1
  <2>3. Payloads(s, i) \in Seq(Entries) /\ Len(Payloads(s, i)) = i
    BY <1>1
  <2>4. ASSUME NEW k \in 1..i PROVE q[k] = Payloads(s, i)[k]
    <3>1. Payloads(s, i)[k] = s[k].payload
      BY DEF Payloads
    <3>2. CASE k = i
      BY <2>1, <3>1, <3>2
    <3>3. CASE k # i
      <4>1. k \in 1..(i - 1)
        BY <3>3
      <4>2. p[k] = s[k].payload
        BY <4>1 DEF Payloads
      <4>3. q[k] = p[k]
        BY <2>1, <4>1
      <4>4. QED
        BY <3>1, <4>2, <4>3
    <3>4. QED
      BY <3>2, <3>3
  <2> HIDE DEF p, q
  <2>5. q = Payloads(s, i)
    BY <2>2, <2>3, <2>4
  <2>6. QED
    BY <2>5 DEF p, q
<1>4. QED
  BY <1>1, <1>2, <1>3

\* What verify_chain accepts is what was hashed anew from the beginning: at the
\* first hash that is not that of all the payloads up to there, it stops.
LEMMA VerifiedIsRehashed ==
  ASSUME NEW s \in Seq(ChainEntry)
  PROVE  VerifyChain(s) <=> s # <<>> /\ Rehashed(s)
<1>1. /\ DOMAIN s = 1..Len(s) /\ Len(s) \in Nat
      /\ \A i \in 1..Len(s) : s[i] \in ChainEntry
  OBVIOUS
<1>2. ASSUME VerifyChain(s) PROVE Rehashed(s)
  <2> DEFINE D == {i \in 1..Len(s) : s[i].hash # Payloads(s, i)}
  <2>1. ASSUME NEW i \in 1..Len(s), \A k \in D : i <= k
        PROVE  s[i].prev_hash = Payloads(s, i - 1)
    <3>1. s[i].prev_hash = ExpectedPrev(s, i)
      BY <1>1, <1>2 DEF VerifyChain
    <3>2. CASE i = 1
      BY <3>1, <3>2, PayloadsStep DEF ExpectedPrev
    <3>3. CASE i # 1
      <4>1. i - 1 \in 1..Len(s) /\ i - 1 \notin D
        BY <1>1, <2>1, <3>3
      <4>2. s[i].prev_hash = s[i - 1].hash
        BY <3>1, <3>3 DEF ExpectedPrev
      <4>3. QED
        BY <4>1, <4>2
    <3>4. QED
      BY <3>2, <3>3
  <2>2. D = {}
    <3>1. SUFFICES ASSUME D # {} PROVE FALSE
      OBVIOUS
    <3>2. PICK m \in D : \A k \in D : m <= k
      <4>1. D \in SUBSET Nat
        BY <1>1
      <4>2. QED
        BY <3>1, <4>1, LeastNat
    <3>3. s[m].prev_hash = Payloads(s, m - 1)
      BY <2>1, <3>2
    <3>4. s[m].hash = Append(s[m].prev_hash, s[m].payload)
      BY <1>1, <1>2 DEF VerifyChain
    <3>5. QED
      BY <3>3, <3>4, PayloadsStep
  <2>3. \A i \in 1..Len(s) :
          s[i].prev_hash = Payloads(s, i - 1) /\ s[i].hash = Payloads(s, i)
    BY <2>1, <2>2
  <2>4. QED
    BY <1>1, <2>3 DEF Rehashed
<1>3. ASSUME s # <<>>, Rehashed(s) PROVE VerifyChain(s)
  <2>1. ASSUME NEW i \in 1..Len(s)
        PROVE  /\ s[i].prev_hash = ExpectedPrev(s, i)
               /\ s[i].hash = Append(s[i].prev_hash, s[i].payload)
    <3>1. s[i].prev_hash = Payloads(s, i - 1) /\ s[i].hash = Payloads(s, i)
      BY <1>1, <1>3 DEF Rehashed
    <3>2. CASE i = 1
      BY <3>1, <3>2, PayloadsStep DEF ExpectedPrev
    <3>3. CASE i # 1
      <4>1. i - 1 \in 1..Len(s)
        BY <1>1, <3>3
      <4>2. s[i - 1].hash = Payloads(s, i - 1)
        BY <1>1, <1>3, <4>1 DEF Rehashed
      <4>3. QED
        BY <3>1, <3>3, <4>2, PayloadsStep DEF ExpectedPrev
    <3>4. QED
      BY <3>2, <3>3
  <2>2. QED
    BY <1>1, <1>3, <2>1 DEF VerifyChain
<1>4. VerifyChain(s) => s # <<>>
  BY DEF VerifyChain
<1>5. QED
  BY <1>2, <1>3, <1>4

\* The ledger has each written entry once, the head's last, and every hash in
\* it is that of all the payloads up to there.
LedgerInv ==
  /\ ledger \in Seq(ChainEntry)
  /\ \A i \in DOMAIN ledger : ledger[i].payload \in Written
  /\ \A i, j \in DOMAIN ledger : ledger[i].payload = ledger[j].payload => i = j
  /\ head = IF ledger = <<>> THEN Genesis ELSE ledger[Len(ledger)].payload
  /\ Rehashed(ledger)

\* The hash that is carried along is that of the last entry.
LEMMA HeadHashIs ==
  ASSUME LedgerInv
  PROVE  HeadHash = Payloads(ledger, Len(ledger))
<1>1. ledger \in Seq(ChainEntry) /\ Len(ledger) \in Nat /\ DOMAIN ledger = 1..Len(ledger)
  BY DEF LedgerInv
<1>2. CASE ledger = <<>>
  <2>1. Len(ledger) = 0 /\ head = Genesis
    BY <1>2 DEF LedgerInv
  <2>2. QED
    BY <1>1, <2>1, PayloadsStep DEF HeadHash
<1>3. CASE ledger # <<>>
  <2> DEFINE n == Len(ledger)
  <2>1. n \in 1..Len(ledger) /\ head = ledger[n].payload
    BY <1>1, <1>3 DEF LedgerInv
  <2>2. head # Genesis
    BY <1>1, <2>1, EntryFacts, GenesisAssumption
  <2>3. ledger[n] \in ToSet(ledger) /\ ledger[n].payload = head
    BY <1>1, <2>1 DEF ToSet
  <2>4. \A entry \in ToSet(ledger) : entry.payload = head => entry = ledger[n]
    BY <1>1, <2>1 DEF ToSet, LedgerInv
  <2> DEFINE last == CHOOSE entry \in ToSet(ledger) : entry.payload = head
  <2>5. last \in ToSet(ledger) /\ last.payload = head
    BY <2>3
  <2>6. last = ledger[n]
    <3> HIDE DEF last
    <3>1. QED
      BY <2>4, <2>5
  <2>7. HeadHash = ledger[n].hash
    BY <2>2, <2>6 DEF HeadHash
  <2>8. ledger[n].hash = Payloads(ledger, n)
    BY <1>1, <2>1 DEF LedgerInv, Rehashed
  <2>9. QED
    BY <2>7, <2>8
<1>4. QED
  BY <1>2, <1>3

\* One more entry.
LEMMA OneMore ==
  ASSUME NEW s \in Seq(ChainEntry), NEW x \in ChainEntry
  PROVE  /\ Append(s, x) \in Seq(ChainEntry)
         /\ Len(Append(s, x)) = Len(s) + 1
         /\ DOMAIN Append(s, x) = 1..(Len(s) + 1)
         /\ Append(s, x)[Len(s) + 1] = x
         /\ \A i \in 1..Len(s) : Append(s, x)[i] = s[i]
  OBVIOUS

\* A longer sequence has the same payloads up to the old end.
LEMMA PayloadsStay ==
  ASSUME NEW s \in Seq(ChainEntry), NEW x \in ChainEntry, NEW n \in 0..Len(s)
  PROVE  Payloads(Append(s, x), n) = Payloads(s, n)
<1>1. \A i \in 1..n : Append(s, x)[i] = s[i]
  OBVIOUS
<1>2. QED
  BY <1>1 DEF Payloads

\* Every step keeps it.
LEMMA NextLedger ==
  ChainInv /\ LedgerInv /\ [LedgerNext]_<<head, link, ledger>> => LedgerInv'
<1> SUFFICES ASSUME ChainInv, LedgerInv, [LedgerNext]_<<head, link, ledger>>
             PROVE  LedgerInv'
  OBVIOUS
<1>1. CASE UNCHANGED <<head, link, ledger>>
  BY <1>1 DEF LedgerInv, Written
<1>2. CASE LedgerNext
  <2> PICK e \in Entries : WriteEntry(e)
    BY <1>2 DEF LedgerNext
  <2> DEFINE n == Len(ledger)
             x == append(HeadHash, e)
  <2>1. /\ Written' = Written \cup {e} /\ e \notin Written
        /\ head' = e
        /\ ledger' = Append(ledger, x)
    BY Extended DEF ChainInv, WriteEntry
  <2>2. ledger \in Seq(ChainEntry) /\ n \in Nat /\ DOMAIN ledger = 1..n
    BY DEF LedgerInv
  <2>3. HeadHash = Payloads(ledger, n)
    BY HeadHashIs
  <2>4. HeadHash \in Seq(Entries)
    <3>1. \A i \in 1..n : ledger[i].payload \in Entries
      BY <2>2, EntryFacts
    <3>2. Payloads(ledger, n) = [i \in 1..n |-> ledger[i].payload]
      BY DEF Payloads
    <3> HIDE DEF n
    <3>3. QED
      BY <2>2, <2>3, <3>1, <3>2
  <2>5. /\ x \in ChainEntry
        /\ x.prev_hash = HeadHash /\ x.payload = e /\ x.hash = Append(HeadHash, e)
    <3>1. Append(HeadHash, e) \in Seq(Entries)
      BY <2>4
    <3>2. QED
      BY <2>4, <3>1 DEF append, ChainEntry
  <2>a. n = Len(ledger)
    OBVIOUS
  <2> HIDE DEF x, n
  <2>6. /\ ledger' \in Seq(ChainEntry) /\ Len(ledger') = n + 1
        /\ DOMAIN ledger' = 1..(n + 1) /\ ledger'[n + 1] = x
        /\ \A i \in 1..n : ledger'[i] = ledger[i]
    <3>1. /\ Append(ledger, x) \in Seq(ChainEntry)
          /\ Len(Append(ledger, x)) = Len(ledger) + 1
          /\ DOMAIN Append(ledger, x) = 1..(Len(ledger) + 1)
          /\ Append(ledger, x)[Len(ledger) + 1] = x
          /\ \A i \in 1..Len(ledger) : Append(ledger, x)[i] = ledger[i]
      BY <2>2, <2>5, OneMore
    <3>2. QED
      BY <2>1, <2>a, <3>1
  <2>7. \A i \in 1..(n + 1) : ledger'[i].payload \in Written'
    BY <2>1, <2>2, <2>5, <2>6 DEF LedgerInv
  <2>8. \A i, j \in 1..(n + 1) : ledger'[i].payload = ledger'[j].payload => i = j
    BY <2>1, <2>2, <2>5, <2>6 DEF LedgerInv
  <2>9. ledger' # <<>> /\ head' = ledger'[Len(ledger')].payload
    BY <2>1, <2>2, <2>5, <2>6
  <2>10. ASSUME NEW i \in 1..(n + 1)
         PROVE  /\ ledger'[i].prev_hash = Payloads(ledger', i - 1)
                /\ ledger'[i].hash = Payloads(ledger', i)
    <3>1. \A k \in 0..n : Payloads(ledger', k) = Payloads(ledger, k)
      BY <2>1, <2>2, <2>5, PayloadsStay
    <3>2. CASE i \in 1..n
      <4>1. /\ ledger[i].prev_hash = Payloads(ledger, i - 1)
            /\ ledger[i].hash = Payloads(ledger, i)
        BY <2>2, <3>2 DEF LedgerInv, Rehashed
      <4>2. i \in 0..n /\ i - 1 \in 0..n
        BY <2>2, <3>2
      <4>3. QED
        BY <2>6, <3>1, <3>2, <4>1, <4>2
    <3>3. CASE i = n + 1
      <4>1. Payloads(ledger', n) = HeadHash
        BY <2>2, <2>3, <3>1
      <4>2. Payloads(ledger', n + 1) = Append(Payloads(ledger', n), ledger'[n + 1].payload)
        <5>1. n + 1 \in 1..Len(ledger') /\ (n + 1) - 1 = n
          BY <2>2, <2>6
        <5>2. QED
          BY <2>6, <5>1, PayloadsStep
      <4>3. i - 1 = n /\ ledger'[i] = x
        BY <2>2, <2>6, <3>3
      <4>4. /\ x.prev_hash = Payloads(ledger', n)
            /\ x.hash = Append(Payloads(ledger', n), ledger'[n + 1].payload)
        BY <2>5, <2>6, <4>1
      <4>5. QED
        BY <3>3, <4>2, <4>3, <4>4
    <3>4. QED
      BY <2>2, <3>2, <3>3
  <2>11. QED
    BY <2>6, <2>7, <2>8, <2>9, <2>10 DEF LedgerInv, Rehashed
<1>3. QED
  BY <1>1, <1>2

\* A ledger is a chain with its entries written down.
LEMMA LedgerSafe == LedgerSpec => [](ChainInv /\ LedgerInv)
<1>1. LedgerInit => ChainInv /\ LedgerInv
  <2>1. LedgerInit => LedgerInv
    BY DEF LedgerInit, Init, LedgerInv, Rehashed
  <2>2. QED
    BY <2>1, InitChain DEF LedgerInit
<1>2. [LedgerNext]_<<head, link, ledger>> => [Next]_<<head, link>>
  BY DEF LedgerNext, WriteEntry, Next
<1>3. QED
  BY <1>1, <1>2, NextChain, NextLedger, PTL DEF LedgerSpec

\* A beginning of what was hashed from the beginning is just that.
LEMMA BeginningRehashed ==
  ASSUME NEW s \in Seq(ChainEntry), Rehashed(s), NEW n \in 1..Len(s)
  PROVE  SubSeq(s, 1, n) \in Seq(ChainEntry) /\ SubSeq(s, 1, n) # <<>>
         /\ Rehashed(SubSeq(s, 1, n))
<1> DEFINE t == SubSeq(s, 1, n)
<1>1. /\ t \in Seq(ChainEntry) /\ Len(t) = n /\ DOMAIN t = 1..n
      /\ \A i \in 1..n : t[i] = s[i]
  OBVIOUS
<1> HIDE DEF t
<1>2. \A k \in 0..n : Payloads(t, k) = Payloads(s, k)
  BY <1>1 DEF Payloads
<1>3. ASSUME NEW i \in 1..n
      PROVE  t[i].prev_hash = Payloads(t, i - 1) /\ t[i].hash = Payloads(t, i)
  <2>1. i \in DOMAIN s /\ i \in 0..n /\ i - 1 \in 0..n
    OBVIOUS
  <2>2. s[i].prev_hash = Payloads(s, i - 1) /\ s[i].hash = Payloads(s, i)
    BY <2>1 DEF Rehashed
  <2>3. QED
    BY <1>1, <1>2, <2>1, <2>2
<1>4. t # <<>>
  BY <1>1
<1>5. QED
  BY <1>1, <1>3, <1>4 DEF Rehashed, t

\* An entry is its three fields.
LEMMA SameEntry ==
  ASSUME NEW x \in ChainEntry, NEW y \in ChainEntry,
         x.prev_hash = y.prev_hash, x.hash = y.hash, x.payload = y.payload
  PROVE  x = y
  BY DEF ChainEntry

\* Two chains hashed from the beginning that have a hash in common have it at
\* the same place, and the same entries up to there.
LEMMA OneHashOnePast ==
  ASSUME NEW s \in Seq(ChainEntry), Rehashed(s), NEW i \in 1..Len(s),
         NEW t \in Seq(ChainEntry), Rehashed(t), NEW n \in 1..Len(t),
         s[i].hash = t[n].hash
  PROVE  SubSeq(s, 1, i) = SubSeq(t, 1, n)
<1>1. \A k \in 1..Len(s) : s[k].prev_hash = Payloads(s, k - 1) /\ s[k].hash = Payloads(s, k)
  BY DEF Rehashed
<1>2. \A k \in 1..Len(t) : t[k].prev_hash = Payloads(t, k - 1) /\ t[k].hash = Payloads(t, k)
  BY DEF Rehashed
<1>3. Payloads(s, i) = Payloads(t, n)
  BY <1>1, <1>2
<1>4. i = n
  <2>1. DOMAIN Payloads(s, i) = 1..i /\ DOMAIN Payloads(t, n) = 1..n
    BY DEF Payloads
  <2>2. 1..i = 1..n
    BY <1>3, <2>1
  <2>3. QED
    BY <2>2
<1>5. \A k \in 1..i : s[k].payload = t[k].payload
  <2>1. \A k \in 1..i : Payloads(s, i)[k] = s[k].payload /\ Payloads(t, i)[k] = t[k].payload
    BY DEF Payloads
  <2>2. QED
    BY <1>3, <1>4, <2>1
<1>6. \A m \in 0..i : Payloads(s, m) = Payloads(t, m)
  BY <1>5 DEF Payloads
<1>7. ASSUME NEW k \in 1..i PROVE s[k] = t[k]
  <2>1. /\ k \in 1..Len(s) /\ k \in 1..Len(t)
        /\ k \in 0..i /\ k - 1 \in 0..i
    BY <1>4
  <2>2. /\ s[k].prev_hash = t[k].prev_hash /\ s[k].hash = t[k].hash
        /\ s[k].payload = t[k].payload
    BY <1>1, <1>2, <1>5, <1>6, <2>1
  <2>3. s[k] \in ChainEntry /\ t[k] \in ChainEntry
    BY <2>1
  <2>4. QED
    BY <2>2, <2>3, SameEntry
<1>8. SubSeq(s, 1, i) = [k \in 1..i |-> s[k]] /\ SubSeq(t, 1, n) = [k \in 1..i |-> t[k]]
  BY <1>4
<1>9. QED
  BY <1>7, <1>8

\* The history and its beginnings verify; so does whatever was hashed anew from
\* the beginning, and nothing else; and a verified chain with a hash of the
\* history in it has the entries of the history up to there.  For any number
\* of entries and any stories, honest or not (chain.rs:33-76).
THEOREM HistoryIsOneStory == LedgerSpec => []OneStory
<1>1. ASSUME LedgerInv PROVE OneStory
  <2>1. /\ ledger \in Seq(ChainEntry) /\ DOMAIN ledger = 1..Len(ledger)
        /\ Rehashed(ledger)
    BY <1>1 DEF LedgerInv
  <2>2. ASSUME NEW n \in DOMAIN ledger PROVE VerifyChain(SubSeq(ledger, 1, n))
    <3>1. /\ SubSeq(ledger, 1, n) \in Seq(ChainEntry) /\ SubSeq(ledger, 1, n) # <<>>
          /\ Rehashed(SubSeq(ledger, 1, n))
      BY <2>1, BeginningRehashed
    <3>2. QED
      BY <3>1, VerifiedIsRehashed
  <2>3. \A s \in Stories : VerifyChain(s) <=> s # <<>> /\ Rehashed(s)
    BY VerifiedIsRehashed, StoriesAssumption
  <2>4. ASSUME NEW s \in Stories, VerifyChain(s), NEW i \in DOMAIN s,
               NEW n \in DOMAIN ledger, s[i].hash = ledger[n].hash
        PROVE  SubSeq(s, 1, i) = SubSeq(ledger, 1, n)
    <3>1. s \in Seq(ChainEntry) /\ Rehashed(s) /\ i \in 1..Len(s) /\ n \in 1..Len(ledger)
      BY <2>1, <2>3, <2>4, StoriesAssumption
    <3>2. QED
      BY <2>1, <2>4, <3>1, OneHashOnePast
  <2>5. QED
    BY <2>2, <2>3, <2>4 DEF OneStory
<1>2. ChainInv /\ LedgerInv => OneStory
  BY <1>1
<1>3. QED
  BY <1>2, LedgerSafe, PTL

-----------------------------------------------------------------------------
(* The chain page.                                                         *)

\* The cards of a story, one for each entry.
LEMMA CardsOf ==
  ASSUME NEW s \in Seq(ChainEntry), NEW shorten
  PROVE  /\ Len(Cards(s, shorten)) = Len(s)
         /\ \A i \in 1..Len(s) :
              /\ Cards(s, shorten)[i].prev_hash = shorten[s[i].prev_hash]
              /\ Cards(s, shorten)[i].current_hash = shorten[s[i].hash]
  BY DEF Cards

\* What is linked contents the page, however hashes are shortened.
LEMMA LinkedContents ==
  ASSUME NEW s \in Seq(ChainEntry), NEW shorten,
         \A i \in 2..Len(s) : s[i].prev_hash = s[i - 1].hash
  PROVE  PageVerifies(Cards(s, shorten))
<1>1. ASSUME NEW i \in 2..Len(s)
      PROVE  Cards(s, shorten)[i - 1].current_hash = Cards(s, shorten)[i].prev_hash
  <2>1. i \in 1..Len(s) /\ i - 1 \in 1..Len(s) /\ s[i].prev_hash = s[i - 1].hash
    OBVIOUS
  <2>2. QED
    BY <2>1, CardsOf
<1>2. Len(Cards(s, shorten)) = Len(s)
  BY CardsOf
<1>3. QED
  BY <1>1, <1>2 DEF PageVerifies

\* What was hashed from the beginning is linked.
LEMMA RehashedIsLinked ==
  ASSUME NEW s \in Seq(ChainEntry), Rehashed(s)
  PROVE  \A i \in 2..Len(s) : s[i].prev_hash = s[i - 1].hash
<1>1. ASSUME NEW i \in 2..Len(s) PROVE s[i].prev_hash = s[i - 1].hash
  <2>1. i \in DOMAIN s /\ i - 1 \in DOMAIN s
    OBVIOUS
  <2>2. s[i].prev_hash = Payloads(s, i - 1) /\ s[i - 1].hash = Payloads(s, i - 1)
    BY <2>1 DEF Rehashed
  <2>3. QED
    BY <2>2
<1>2. QED
  BY <1>1

\* The page is content with any stretch of the history and with what
\* verify_chain accepts, and what contents it is linked throughout as long as
\* no two hashes look alike, for any number of entries and any way of
\* shortening hashes (main.rs:1560-1577, 1646-1651, chain.rs:47-76).
THEOREM PageNeverStricter == LedgerSpec => []PageAgrees
<1>1. ASSUME LedgerInv, NEW shorten \in Shortenings,
             NEW m \in DOMAIN ledger, NEW n \in DOMAIN ledger
      PROVE  PageVerifies(Cards(SubSeq(ledger, m, n), shorten))
  <2> DEFINE t == SubSeq(ledger, m, n)
  <2>1. /\ ledger \in Seq(ChainEntry) /\ DOMAIN ledger = 1..Len(ledger)
        /\ Len(ledger) \in Nat /\ Rehashed(ledger)
    BY <1>1 DEF LedgerInv
  <2>2. /\ t \in Seq(ChainEntry)
        /\ \A i \in 1..Len(t) : t[i] = ledger[m + i - 1] /\ m + i - 1 \in 1..Len(ledger)
    BY <2>1
  <2>3. Len(t) \in Nat
    BY <2>2
  <2> HIDE DEF t
  <2>4. ASSUME NEW i \in 2..Len(t) PROVE t[i].prev_hash = t[i - 1].hash
    <3>1. i \in 1..Len(t) /\ i - 1 \in 1..Len(t)
      BY <2>3
    <3>2. t[i] = ledger[m + i - 1] /\ t[i - 1] = ledger[(m + i - 1) - 1]
      <4>1. m + (i - 1) - 1 = (m + i - 1) - 1
        BY <2>1, <3>1
      <4>2. t[i - 1] = ledger[m + (i - 1) - 1]
        BY <2>2, <3>1
      <4>3. QED
        BY <2>2, <3>1, <4>1, <4>2
    <3>3. m + i - 1 \in 2..Len(ledger)
      BY <2>1, <2>2, <3>1
    <3>4. QED
      BY <2>1, <3>2, <3>3, RehashedIsLinked
  <2>5. PageVerifies(Cards(t, shorten))
    BY <2>2, <2>4, LinkedContents
  <2>6. QED
    BY <2>5 DEF t
<1>2. ASSUME NEW shorten \in Shortenings, NEW s \in Stories, VerifyChain(s)
      PROVE  PageVerifies(Cards(s, shorten))
  <2>1. s \in Seq(ChainEntry)
    BY StoriesAssumption
  <2>2. Rehashed(s)
    BY <1>2, <2>1, VerifiedIsRehashed
  <2>3. QED
    BY <2>1, <2>2, RehashedIsLinked, LinkedContents
<1>3. ASSUME NEW shorten \in Shortenings, IsInjective(shorten), NEW s \in Stories,
             PageVerifies(Cards(s, shorten)), NEW i \in 2..Len(s)
      PROVE  s[i].prev_hash = s[i - 1].hash
  <2>1. s \in Seq(ChainEntry)
    BY StoriesAssumption
  <2>2. i \in 1..Len(s) /\ i - 1 \in 1..Len(s) /\ DOMAIN s = 1..Len(s)
    BY <2>1
  <2>3. shorten[s[i - 1].hash] = shorten[s[i].prev_hash]
    BY <1>3, <2>1, <2>2, CardsOf DEF PageVerifies
  <2>4. s[i - 1].hash \in DOMAIN shorten /\ s[i].prev_hash \in DOMAIN shorten
    BY <2>2, ShorteningsAssumption
  <2>5. QED
    BY <1>3, <2>3, <2>4 DEF IsInjective
<1>4. ChainInv /\ LedgerInv => PageAgrees
  BY <1>1, <1>2, <1>3 DEF PageAgrees
<1>5. QED
  BY <1>4, LedgerSafe, PTL

-----------------------------------------------------------------------------
(* The orchestrator.                                                       *)

\* The steps of the audit chain are those of a chain, whatever the orchestrator
\* does: what is proved of LedgerSpec holds of LedgersSpec.
LEMMA LedgersAreChain == LedgersSpec => LedgerSpec
<1>1. LedgersInit => LedgerInit
  BY DEF LedgersInit
<1>2. [LedgersNext]_<<head, link, ledger, hostVars>> => [LedgerNext]_<<head, link, ledger>>
  BY DEF LedgersNext
<1>3. QED
  BY <1>1, <1>2, PTL DEF LedgerSpec, LedgersSpec

\* The values the scan catches when it walks n levels down.
Caught(n) ==
  LET raw[m \in 0..JsonDepth] ==
        {v \in JsonValues :
           \/ LooksLikeDiff(v.text)
           \/ \E part \in v.parts :
                part.key \in RawKeys \/ (m > 0 /\ part.value \in raw[m - 1])}
  IN  raw[n]

\* Caught is the function it is defined as.
LEMMA CaughtIs ==
  \A n \in 0..JsonDepth :
    Caught(n) = {v \in JsonValues :
                   \/ LooksLikeDiff(v.text)
                   \/ \E part \in v.parts :
                        part.key \in RawKeys \/ (n > 0 /\ part.value \in Caught(n - 1))}
<1> DEFINE Step(X) == {v \in JsonValues :
                         \/ LooksLikeDiff(v.text)
                         \/ \E part \in v.parts : part.key \in RawKeys \/ part.value \in X}
           Deepest == {v \in JsonValues :
                         \/ LooksLikeDiff(v.text)
                         \/ \E part \in v.parts : part.key \in RawKeys}
           F == [k \in Nat |-> [X \in SUBSET JsonValues |-> Step(X)]]
           Body(raw) == [m \in 0..JsonDepth |->
                           {v \in JsonValues :
                              \/ LooksLikeDiff(v.text)
                              \/ \E part \in v.parts :
                                   part.key \in RawKeys
                                   \/ (m > 0 /\ part.value \in raw[m - 1])}]
           Raw == CHOOSE raw : raw = Body(raw)
<1>1. F \in [Nat -> [SUBSET JsonValues -> SUBSET JsonValues]]
  OBVIOUS
<1>2. Deepest \in SUBSET JsonValues
  OBVIOUS
<1>3. PICK g \in [0..JsonDepth -> SUBSET JsonValues] :
        g[0] = Deepest /\ \A k \in 1..JsonDepth : g[k] = F[k][g[k - 1]]
  <2> DEFINE T == SUBSET JsonValues
  <2>1. JsonDepth \in Nat /\ Deepest \in T /\ F \in [Nat -> [T -> T]]
    BY <1>1, <1>2, JsonAssumption
  <2> HIDE DEF F, Deepest, T
  <2>2. PICK g \in [0..JsonDepth -> T] : Recurses(g, Deepest, F, JsonDepth)
    BY <2>1, RecursionExists
  <2>3. QED
    BY <2>2 DEF T, Recurses
<1>4. \A k \in 1..JsonDepth : g[k] = Step(g[k - 1])
  <2>1. ASSUME NEW k \in 1..JsonDepth PROVE g[k] = Step(g[k - 1])
    <3>1. k \in Nat /\ g[k - 1] \in SUBSET JsonValues
      BY JsonAssumption
    <3>2. F[k][g[k - 1]] = Step(g[k - 1])
      BY <3>1
    <3>3. QED
      BY <1>3, <3>2
  <2>2. QED
    BY <2>1
<1>5. \A m \in 0..JsonDepth : g[m] = Body(g)[m]
  <2>1. ASSUME NEW m \in 0..JsonDepth PROVE g[m] = Body(g)[m]
    <3>1. CASE m = 0
      BY <1>3, <3>1
    <3>2. CASE m \in 1..JsonDepth
      BY <1>4, <3>2
    <3>3. QED
      BY JsonAssumption, <3>1, <3>2
  <2>2. QED
    BY <2>1
<1>6. g = Body(g)
  <2>1. DOMAIN Body(g) = 0..JsonDepth /\ DOMAIN g = 0..JsonDepth
    OBVIOUS
  <2>2. Body(g) = [m \in 0..JsonDepth |-> Body(g)[m]]
    OBVIOUS
  <2>3. g = [m \in 0..JsonDepth |-> g[m]]
    OBVIOUS
  <2> HIDE DEF Body
  <2>4. QED
    BY <1>5, <2>2, <2>3
<1>7. Raw = Body(Raw)
  <2> HIDE DEF Body
  <2>1. QED
    BY <1>6
<1>8. \A n : Caught(n) = Raw[n]
  BY DEF Caught
<1>9. \A n \in 0..JsonDepth : Raw[n] = Body(Raw)[n]
  <2> HIDE DEF Body, Raw
  <2>1. QED
    BY <1>7
<1>10. QED
  <2> HIDE DEF Raw
  <2>1. QED
    BY <1>8, <1>9

\* What a value holds on one level is held by what the level above it holds.
LEMMA LevelsAre ==
  ASSUME NEW value \in JsonValues, NEW n \in Nat
  PROVE  \E level \in [0..n -> SUBSET UNION {v.parts : v \in JsonValues}] :
           /\ Level(value, n) = level[n]
           /\ level[0] = value.parts
           /\ \A k \in 1..n :
                level[k] = UNION {part.value.parts : part \in level[k - 1]}
<1> DEFINE Parts == UNION {v.parts : v \in JsonValues}
           T == SUBSET Parts
           Step(X) == UNION {part.value.parts : part \in X}
           F == [k \in Nat |-> [X \in T |-> Step(X)]]
           Body(level) == [i \in 0..n |-> IF i = 0 THEN value.parts
                                          ELSE UNION {part.value.parts : part \in level[i - 1]}]
           Lev == CHOOSE level : level = Body(level)
<1>1. \A X \in T : Step(X) \in T
  <2>1. ASSUME NEW X \in T, NEW part \in X PROVE part.value \in JsonValues
    BY JsonAssumption
  <2>2. QED
    BY <2>1
<1>2. F \in [Nat -> [T -> T]]
  <2> HIDE DEF T, Step
  <2>1. QED
    BY <1>1
<1>3. value.parts \in T
  OBVIOUS
<1>4. PICK g \in [0..n -> T] : g[0] = value.parts /\ \A k \in 1..n : g[k] = F[k][g[k - 1]]
  <2> DEFINE s0 == value.parts
  <2> HIDE DEF F, T, s0
  <2>1. n \in Nat /\ s0 \in T /\ F \in [Nat -> [T -> T]]
    BY <1>2, <1>3 DEF s0
  <2>2. PICK g \in [0..n -> T] : Recurses(g, s0, F, n)
    BY <2>1, RecursionExists
  <2>3. QED
    BY <2>2 DEF s0, Recurses
<1>5. \A k \in 1..n : g[k] = Step(g[k - 1])
  <2>1. ASSUME NEW k \in 1..n PROVE g[k] = Step(g[k - 1])
    <3> HIDE DEF T, Step
    <3>1. k \in Nat /\ k - 1 \in 0..n /\ g[k - 1] \in T
      BY <1>4
    <3>2. F[k][g[k - 1]] = Step(g[k - 1])
      BY <3>1
    <3>3. QED
      BY <1>4, <3>2
  <2>2. QED
    BY <2>1
<1>6. g = Body(g)
  <2>1. \A i \in 0..n : g[i] = Body(g)[i]
    <3>1. ASSUME NEW i \in 0..n PROVE g[i] = Body(g)[i]
      <4>1. CASE i = 0
        BY <1>4, <4>1
      <4>2. CASE i \in 1..n
        BY <1>5, <4>2
      <4>3. QED
        BY <4>1, <4>2
    <3>2. QED
      BY <3>1
  <2>2. Body(g) = [i \in 0..n |-> Body(g)[i]]
    OBVIOUS
  <2>3. g = [i \in 0..n |-> g[i]]
    OBVIOUS
  <2> HIDE DEF Body
  <2>4. QED
    BY <2>1, <2>2, <2>3
<1>7. Lev = Body(Lev)
  <2> HIDE DEF Body
  <2>1. QED
    BY <1>6
<1>8. Lev[0] = value.parts
  <2>1. Body(Lev)[0] = value.parts
    OBVIOUS
  <2> HIDE DEF Lev, Body
  <2>2. QED
    BY <1>7, <2>1
<1>9. \A k \in 1..n : Lev[k] = Step(Lev[k - 1])
  <2> HIDE DEF Lev
  <2>1. \A k \in 1..n : Body(Lev)[k] = Step(Lev[k - 1])
    OBVIOUS
  <2> HIDE DEF Body, Step
  <2>2. QED
    BY <1>7, <2>1
<1>10. Lev \in [0..n -> T]
  <2>1. Lev = [i \in 0..n |-> Lev[i]]
    <3>1. Body(Lev) = [i \in 0..n |-> Body(Lev)[i]]
      OBVIOUS
    <3> HIDE DEF Lev, Body
    <3>2. QED
      BY <1>7, <3>1
  <2> DEFINE Odd == {i \in Nat : i <= n /\ Lev[i] \notin T}
  <2> HIDE DEF Lev, T, Step
  <2>2. SUFFICES ASSUME Odd # {} PROVE FALSE
    BY <2>1
  <2>3. PICK i \in Odd : \A k \in Odd : i <= k
    BY <2>2, LeastNat
  <2>4. i # 0
    BY <1>3, <1>8
  <2>5. i \in 1..n /\ i - 1 \in Nat /\ i - 1 <= n /\ ~(i <= i - 1)
    BY <2>4
  <2>6. i - 1 \notin Odd
    BY <2>3, <2>5
  <2>7. Lev[i - 1] \in T
    BY <2>5, <2>6
  <2>8. QED
    BY <1>1, <1>9, <2>5, <2>7
<1>11. Level(value, n) = Lev[n]
  BY DEF Level
<1>12. QED
  <2> HIDE DEF Lev
  <2>1. QED
    BY <1>8, <1>9, <1>10, <1>11

\* What is not caught holds no diff and no field for one, at whatever depth.
LEMMA NothingNested ==
  ASSUME NEW value \in JsonValues, ~scan_for_raw_code(value)
  PROVE  /\ ~LooksLikeDiff(value.text)
         /\ \A part \in Nested(value) :
              part.key \notin RawKeys /\ ~LooksLikeDiff(part.value.text)
<1> DEFINE D == JsonDepth
<1>1. D \in Nat
  BY JsonAssumption
<1>2. value \notin Caught(D)
  BY DEF scan_for_raw_code, Caught
<1>3. \A n \in 0..D : \A v \in JsonValues : v \notin Caught(n) =>
        /\ ~LooksLikeDiff(v.text)
        /\ \A part \in v.parts :
             /\ part.key \notin RawKeys /\ part.value \in JsonValues
             /\ n > 0 => part.value \notin Caught(n - 1)
  BY CaughtIs, JsonAssumption
<1>4. ASSUME NEW n \in 0..(D - 1), NEW part \in Level(value, n)
      PROVE  part.key \notin RawKeys /\ ~LooksLikeDiff(part.value.text)
  <2>1. n \in Nat /\ n < D
    BY <1>1
  <2>2. PICK level \in [0..n -> SUBSET UNION {v.parts : v \in JsonValues}] :
           /\ Level(value, n) = level[n]
           /\ level[0] = value.parts
           /\ \A k \in 1..n :
                level[k] = UNION {p.value.parts : p \in level[k - 1]}
    BY <2>1, LevelsAre
  <2> DEFINE Clean(k) == \A p \in level[k] :
                /\ p.key \notin RawKeys /\ p.value \in JsonValues
                /\ p.value \notin Caught(D - k - 1)
             Odd == {k \in Nat : k <= n /\ ~Clean(k)}
  <2>3. Odd = {}
    <3>1. SUFFICES ASSUME Odd # {} PROVE FALSE
      OBVIOUS
    <3>2. PICK k \in Odd : \A j \in Odd : k <= j
      BY <3>1, LeastNat
    <3>3. k \in Nat /\ k <= n
      OBVIOUS
    <3>4. CASE k = 0
      <4>1. Clean(0)
        BY <1>1, <1>2, <1>3, <2>1, <2>2
      <4>2. QED
        BY <3>4, <4>1
    <3>5. CASE k # 0
      <4>1. /\ k - 1 \in Nat /\ k - 1 <= n /\ ~(k <= k - 1) /\ k \in 1..n
            /\ D - k \in 0..D /\ D - k > 0 /\ D - (k - 1) - 1 = D - k
        BY <1>1, <2>1, <3>3, <3>5
      <4>2. Clean(k - 1)
        <5> HIDE DEF Clean
        <5>1. k - 1 \notin Odd
          BY <3>2, <4>1
        <5>2. QED
          BY <4>1, <5>1
      <4>3. \A p \in level[k - 1] : p.value \in JsonValues /\ p.value \notin Caught(D - k)
        BY <4>1, <4>2
      <4>4. Clean(k)
        <5>1. SUFFICES ASSUME NEW p \in level[k]
                       PROVE  /\ p.key \notin RawKeys /\ p.value \in JsonValues
                              /\ p.value \notin Caught(D - k - 1)
          OBVIOUS
        <5>2. PICK q \in level[k - 1] : p \in q.value.parts
          BY <2>2, <4>1
        <5>3. QED
          BY <1>3, <4>1, <4>3, <5>2
      <4>5. QED
        BY <4>4
    <3>6. QED
      BY <3>4, <3>5
  <2>4. Clean(n)
    <3> HIDE DEF Clean
    <3>1. QED
      BY <2>1, <2>3
  <2>5. D - n - 1 \in 0..D
    BY <1>1, <2>1
  <2>6. QED
    BY <1>3, <2>2, <2>4, <2>5
<1>5. ~LooksLikeDiff(value.text)
  BY <1>1, <1>2, <1>3
<1>6. QED
  BY <1>4, <1>5 DEF Nested

\* What the orchestrator keeps to.
CordonInv ==
  /\ plan \in Seq(AgentRole) /\ routed \in 0..Len(plan)
  /\ validate_routing_plan_safety(plan)
  /\ \A d \in delivered :
       d.after > 0 /\ d.doc \in JsonValues /\ ~scan_for_raw_code(d.doc)

\* A role under the Cordon Principle is not the first of a plan that passed.
LEMMA NeverFirst ==
  ASSUME CordonInv, routed < Len(plan), is_cordon_enforced(SpecOf[Role])
  PROVE  routed > 0
<1>1. plan \in Seq(AgentRole) /\ routed \in Nat /\ Len(plan) \in Nat
  BY DEF CordonInv
<1>2. Role \in AgentRole /\ routed + 1 \in DOMAIN plan
  BY <1>1 DEF Role
<1>3. Role = "aegis-verdict"
  BY <1>2 DEF is_cordon_enforced, SpecOf, AgentRole, aegis_slop_spec,
              aegis_security_spec, aegis_arch_spec, aegis_orchestrator_spec
<1>4. find_specialist(Role)
  <2>1. specialists[4] = "aegis-verdict" /\ 4 \in DOMAIN specialists
    BY DEF specialists
  <2>2. QED
    BY <1>3, <2>1 DEF find_specialist, ToSet
<1>5. routed + 1 # 1
  <2> HIDE DEF find_specialist, is_cordon_enforced
  <2>1. QED
    BY <1>2, <1>4 DEF CordonInv, validate_routing_plan_safety, Role
<1>6. QED
  BY <1>1, <1>5

\* Every step keeps to it.
LEMMA NextCordon ==
  CordonInv /\ [LedgersNext]_<<head, link, ledger, hostVars>> => CordonInv'
<1> SUFFICES ASSUME CordonInv, [LedgersNext]_<<head, link, ledger, hostVars>>
             PROVE  CordonInv'
  OBVIOUS
<1>1. CASE UNCHANGED reviewVars
  BY <1>1 DEF CordonInv, reviewVars, validate_routing_plan_safety
<1>2. CASE \E p \in Plans : Validate(p)
  <2>1. PICK p \in Plans : Validate(p)
    BY <1>2
  <2>2. p \in Seq(AgentRole) /\ Len(p) \in Nat
    BY PlansAssumption
  <2>3. plan' = p /\ routed' = 0 /\ delivered' = delivered
        /\ validate_routing_plan_safety(p)
    BY <2>1 DEF Validate
  <2>4. QED
    BY <2>2, <2>3 DEF CordonInv, validate_routing_plan_safety
<1>3. CASE Route
  <2>1. /\ plan' = plan /\ routed' = routed + 1 /\ delivered' = delivered
        /\ routed < Len(plan)
    BY <1>3 DEF Route, Advance
  <2>2. QED
    BY <2>1 DEF CordonInv, validate_routing_plan_safety
<1>4. CASE \E doc \in Documents : Synthesize(doc)
  <2>1. PICK doc \in Documents : Synthesize(doc)
    BY <1>4
  <2>2. routed > 0
    BY <2>1, NeverFirst DEF Synthesize
  <2>3. doc \in JsonValues
    BY DocumentsAssumption
  <2>4. /\ plan' = plan /\ routed' \in {routed + 1, Len(plan)}
        /\ routed < Len(plan)
        /\ \/ delivered' = delivered
           \/ /\ delivered' = delivered \cup {[doc |-> doc, after |-> routed]}
              /\ ~scan_for_raw_code(doc)
    BY <2>1 DEF Synthesize, Advance
  <2>5. plan \in Seq(AgentRole) /\ routed' \in 0..Len(plan)
    BY <2>4 DEF CordonInv
  <2>6. \A d \in delivered' :
          d.after > 0 /\ d.doc \in JsonValues /\ ~scan_for_raw_code(d.doc)
    BY <2>2, <2>3, <2>4 DEF CordonInv
  <2>7. QED
    BY <2>4, <2>5, <2>6 DEF CordonInv, validate_routing_plan_safety
<1>5. CASE HostAppends
  BY <1>1, <1>5 DEF HostAppends
<1>6. QED
  BY <1>1, <1>2, <1>3, <1>4, <1>5 DEF LedgersNext, HostNext, reviewVars, hostVars

\* A synthesizer is never the first of a review and never given raw code, for
\* every plan and every document, nested as deep as may be (lib.rs:347-349,
\* 358-454).
THEOREM CordonPrinciple == LedgersSpec => []CordonHolds
<1>1. LedgersInit => CordonInv
  <2>1. SUFFICES ASSUME LedgersInit PROVE CordonInv
    OBVIOUS
  <2>2. plan = <<>> /\ routed = 0 /\ delivered = {}
    BY <2>1 DEF LedgersInit, HostInit
  <2>3. QED
    BY <2>2 DEF CordonInv, validate_routing_plan_safety
<1>2. CordonInv => CordonHolds
  BY NothingNested DEF CordonInv, CordonHolds
<1>3. QED
  BY <1>1, <1>2, NextCordon, PTL DEF LedgersSpec

-----------------------------------------------------------------------------
(* The specialists.                                                        *)

\* An embedded file parses, and its metadata are what is between the fences.
LEMMA EmbeddedFileParses ==
  parse_prompt(EmbeddedFile).ok /\ parse_prompt(EmbeddedFile).yaml = <<"metadata">>
<1> DEFINE f == EmbeddedFile
<1>1. /\ f \in Seq(LineKind) /\ Len(f) = 7 /\ f # <<>>
      /\ f[1] = "fence" /\ f[2] = "metadata" /\ f[3] = "fence" /\ f[4] = "empty"
      /\ f[5] = "text" /\ f[6] = "empty" /\ f[7] = "text"
  BY DEF EmbeddedFile, LineKind
<1>2. SkipEmpty(f, 2) = 2
  <2> DEFINE Begins(k) == /\ \A j \in 2..(k - 1) : f[j] = "empty"
                          /\ k <= Len(f) => f[k] # "empty"
  <2> HIDE DEF f
  <2>1. 2 \in 2..(Len(f) + 1) /\ Begins(2)
    BY <1>1
  <2>2. \A k \in 2..(Len(f) + 1) : Begins(k) => k = 2
    <3>1. ASSUME NEW k \in 2..(Len(f) + 1), Begins(k), k # 2 PROVE FALSE
      <4>1. 2 \in 2..(k - 1)
        BY <1>1, <3>1
      <4>2. QED
        BY <1>1, <3>1, <4>1
    <3>2. QED
      BY <3>1
  <2>3. SkipEmpty(f, 2) = CHOOSE k \in 2..(Len(f) + 1) : Begins(k)
    BY DEF SkipEmpty
  <2> HIDE DEF Begins
  <2>4. QED
    BY <2>1, <2>2, <2>3
<1> HIDE DEF f
<1>3. Closers(f) = {3}
  BY <1>1, <1>2 DEF Closers
<1>4. Min(Closers(f)) = 3
  BY <1>3 DEF Min
<1>5. parse_prompt(f) = Parsed(f, 3)
  BY <1>1, <1>3, <1>4 DEF parse_prompt
<1>6. SubSeq(f, 2, 2) = <<"metadata">>
  <2>1. SubSeq(f, 2, 2) = [i \in 1..1 |-> f[i + 1]]
    BY <1>1
  <2>2. SubSeq(f, 2, 2) = [i \in 1..1 |-> "metadata"]
    BY <1>1, <2>1
  <2>3. [i \in 1..1 |-> "metadata"] = <<"metadata">>
    OBVIOUS
  <2>4. QED
    BY <2>2, <2>3
<1>7. QED
  BY <1>2, <1>5, <1>6 DEF Parsed, f

\* What an agent that a task is routed to should be.
Agrees(role) ==
  LET spec == SpecOf[role]
      prompt == load_embedded[spec.prompt_name]
  IN  /\ spec \in AgentSpec
      /\ spec.prompt_name \in DOMAIN load_embedded
      /\ spec.default_temperature = prompt.temperature
      /\ spec.default_max_tokens = prompt.max_tokens
      /\ spec.default_temperature <= spec.max_temperature
      /\ role \in CardSkills
      /\ is_cordon_enforced(spec) <=>
           verify_safe_to_synthesize(spec.context_required)

\* Every specialist is.
LEMMA EverySpecialistAgrees ==
  ASSUME NEW role, find_specialist(role)
  PROVE  Agrees(role)
<1>1. role \in {"aegis-slop", "aegis-security", "aegis-arch", "aegis-verdict"}
  BY DEF find_specialist, specialists, ToSet
<1>2. load_embedded = Embedded
  BY EmbeddedFileParses DEF load_embedded
<1>3. CASE role = "aegis-slop"
  <2>1. SpecOf[role] = aegis_slop_spec
    BY <1>3 DEF SpecOf, AgentRole
  <2>2. aegis_slop_spec \in AgentSpec
    BY DEF aegis_slop_spec, AgentSpec, PromptName
  <2>3. load_embedded["slop-detector"] = Embedded["slop-detector"]
        /\ "slop-detector" \in DOMAIN load_embedded
    BY <1>2 DEF Embedded, PromptName
  <2>4. /\ aegis_slop_spec.prompt_name = "slop-detector"
        /\ aegis_slop_spec.default_temperature = Embedded["slop-detector"].temperature
        /\ aegis_slop_spec.default_max_tokens = Embedded["slop-detector"].max_tokens
        /\ aegis_slop_spec.default_temperature <= aegis_slop_spec.max_temperature
    BY DEF aegis_slop_spec, Embedded, SlopPrompt, PromptName
  <2>5. is_cordon_enforced(aegis_slop_spec) <=>
          verify_safe_to_synthesize(aegis_slop_spec.context_required)
    BY DEF aegis_slop_spec, is_cordon_enforced, verify_safe_to_synthesize
  <2>6. role \in CardSkills
    BY <1>3 DEF CardSkills
  <2>7. QED
    BY <2>1, <2>2, <2>3, <2>4, <2>5, <2>6 DEF Agrees
<1>4. CASE role = "aegis-security"
  <2>1. SpecOf[role] = aegis_security_spec
    BY <1>4 DEF SpecOf, AgentRole
  <2>2. aegis_security_spec \in AgentSpec
    BY DEF aegis_security_spec, AgentSpec, PromptName
  <2>3. load_embedded["redteam-security"] = Embedded["redteam-security"]
        /\ "redteam-security" \in DOMAIN load_embedded
    BY <1>2 DEF Embedded, PromptName
  <2>4. /\ aegis_security_spec.prompt_name = "redteam-security"
        /\ aegis_security_spec.default_temperature = Embedded["redteam-security"].temperature
        /\ aegis_security_spec.default_max_tokens = Embedded["redteam-security"].max_tokens
        /\ aegis_security_spec.default_temperature <= aegis_security_spec.max_temperature
    BY DEF aegis_security_spec, Embedded, SecurityPrompt, PromptName
  <2>5. is_cordon_enforced(aegis_security_spec) <=>
          verify_safe_to_synthesize(aegis_security_spec.context_required)
    BY DEF aegis_security_spec, is_cordon_enforced, verify_safe_to_synthesize
  <2>6. role \in CardSkills
    BY <1>4 DEF CardSkills
  <2>7. QED
    BY <2>1, <2>2, <2>3, <2>4, <2>5, <2>6 DEF Agrees
<1>5. CASE role = "aegis-arch"
  <2>1. SpecOf[role] = aegis_arch_spec
    BY <1>5 DEF SpecOf, AgentRole
  <2>2. aegis_arch_spec \in AgentSpec
    BY DEF aegis_arch_spec, AgentSpec, PromptName
  <2>3. load_embedded["architecture-fit"] = Embedded["architecture-fit"]
        /\ "architecture-fit" \in DOMAIN load_embedded
    BY <1>2 DEF Embedded, PromptName
  <2>4. /\ aegis_arch_spec.prompt_name = "architecture-fit"
        /\ aegis_arch_spec.default_temperature = Embedded["architecture-fit"].temperature
        /\ aegis_arch_spec.default_max_tokens = Embedded["architecture-fit"].max_tokens
        /\ aegis_arch_spec.default_temperature <= aegis_arch_spec.max_temperature
    BY DEF aegis_arch_spec, Embedded, ArchPrompt, PromptName
  <2>5. is_cordon_enforced(aegis_arch_spec) <=>
          verify_safe_to_synthesize(aegis_arch_spec.context_required)
    BY DEF aegis_arch_spec, is_cordon_enforced, verify_safe_to_synthesize
  <2>6. role \in CardSkills
    BY <1>5 DEF CardSkills
  <2>7. QED
    BY <2>1, <2>2, <2>3, <2>4, <2>5, <2>6 DEF Agrees
<1>6. CASE role = "aegis-verdict"
  <2>1. SpecOf[role] = aegis_verdict_spec
    BY <1>6 DEF SpecOf, AgentRole
  <2>2. aegis_verdict_spec \in AgentSpec
    BY DEF aegis_verdict_spec, AgentSpec, PromptName
  <2>3. load_embedded["verdict-synthesizer"] = Embedded["verdict-synthesizer"]
        /\ "verdict-synthesizer" \in DOMAIN load_embedded
    BY <1>2 DEF Embedded, PromptName
  <2>4. /\ aegis_verdict_spec.prompt_name = "verdict-synthesizer"
        /\ aegis_verdict_spec.default_temperature = Embedded["verdict-synthesizer"].temperature
        /\ aegis_verdict_spec.default_max_tokens = Embedded["verdict-synthesizer"].max_tokens
        /\ aegis_verdict_spec.default_temperature <= aegis_verdict_spec.max_temperature
    BY DEF aegis_verdict_spec, Embedded, VerdictPrompt, PromptName
  <2>5. is_cordon_enforced(aegis_verdict_spec) <=>
          verify_safe_to_synthesize(aegis_verdict_spec.context_required)
    BY DEF aegis_verdict_spec, is_cordon_enforced, verify_safe_to_synthesize
  <2>6. role \in CardSkills
    BY <1>6 DEF CardSkills
  <2>7. QED
    BY <2>1, <2>2, <2>3, <2>4, <2>5, <2>6 DEF Agrees
<1>7. QED
  BY <1>1, <1>3, <1>4, <1>5, <1>6

-----------------------------------------------------------------------------
(* The decision log.                                                       *)

\* Whose entry it may be.
Writer(id) == id \in {"unknown", "host"} \/ find_specialist(id)

\* The log is a hash chain: each entry has the hash of the one before it, and
\* no two have the same.
LogInv ==
  /\ \E S : log \in Seq(S)
  /\ Len(log) <= MaxLog
  /\ \A i \in 1..Len(log) :
       /\ log[i].prev_hash = IF i = 1 THEN NoHash ELSE log[i - 1].entry_hash
       /\ log[i].entry_hash = <<log[i].prev_hash, log[i].input, log[i].output>>
       /\ Writer(log[i].spiffe_id)
  /\ \A i, j \in 1..Len(log) : log[i].entry_hash = log[j].entry_hash => i = j

\* A step leaves the log alone or appends an entry to it.
LEMMA LogSteps ==
  ASSUME LedgersNext
  PROVE  \/ UNCHANGED log
         \/ /\ Len(log) < MaxLog
            /\ \E spiffe_id, decision_type, input, output :
                 /\ AppendEntry(spiffe_id, decision_type, input, output)
                 /\ Writer(spiffe_id)
<1>1. \A role : Writer(SpiffeId(role))
  BY DEF Writer, SpiffeId
<1>2. ASSUME Len(log) < MaxLog, NEW role, record_routing(role) \/ record_cordon_block(role)
      PROVE  \E spiffe_id, decision_type, input, output :
                 /\ AppendEntry(spiffe_id, decision_type, input, output)
                 /\ Writer(spiffe_id)
  <2> HIDE DEF Writer, SpiffeId
  <2>1. CASE record_routing(role)
    BY <1>1, <2>1 DEF record_routing
  <2>2. CASE record_cordon_block(role)
    BY <1>1, <2>2 DEF record_cordon_block
  <2>3. QED
    BY <1>2, <2>1, <2>2
<1>3. CASE LedgerNext /\ UNCHANGED hostVars
  BY <1>3 DEF hostVars
<1>4. CASE \E p \in Plans : Validate(p)
  BY <1>4 DEF Validate
<1>5. CASE Route
  BY <1>2, <1>5 DEF Route
<1>6. CASE \E doc \in Documents : Synthesize(doc)
  BY <1>2, <1>6 DEF Synthesize
<1>7. CASE HostAppends
  <2>1. Writer("host")
    BY DEF Writer
  <2>2. QED
    BY <1>7, <2>1 DEF HostAppends
<1>8. QED
  BY <1>3, <1>4, <1>5, <1>6, <1>7 DEF LedgersNext, HostNext

\* An append keeps the log a chain: were the new hash an old one, the entries
\* before the two would have the same hash as well.
LEMMA NextLog == LogInv /\ [LedgersNext]_<<head, link, ledger, hostVars>> => LogInv'
<1> SUFFICES ASSUME LogInv, [LedgersNext]_<<head, link, ledger, hostVars>>
             PROVE  LogInv'
  OBVIOUS
<1>1. CASE UNCHANGED log
  BY <1>1 DEF LogInv
<1>2. CASE /\ Len(log) < MaxLog
           /\ \E spiffe_id, decision_type, input, output :
                /\ AppendEntry(spiffe_id, decision_type, input, output)
                /\ Writer(spiffe_id)
  <2>1. PICK spiffe_id, decision_type, input, output :
               /\ AppendEntry(spiffe_id, decision_type, input, output)
               /\ Writer(spiffe_id)
    BY <1>2
  <2> DEFINE n == Len(log)
             prev == IF log = <<>> THEN NoHash ELSE Last(log).entry_hash
             entry == [spiffe_id |-> spiffe_id, decision_type |-> decision_type,
                       input |-> input, output |-> output,
                       prev_hash |-> prev,
                       entry_hash |-> EntryHash(prev, input, output)]
  <2>2. PICK S : log \in Seq(S)
    BY DEF LogInv
  <2>3. n \in Nat /\ (log = <<>> <=> n = 0)
    BY <2>2
  <2>4. log' = Append(log, entry)
    BY <2>1 DEF AppendEntry
  <2>5. /\ entry.prev_hash = prev /\ entry.input = input /\ entry.output = output
        /\ entry.spiffe_id = spiffe_id /\ entry.entry_hash = <<prev, input, output>>
    BY DEF EntryHash
  <2>6. prev = IF n = 0 THEN NoHash ELSE log[n].entry_hash
    BY <2>3 DEF Last
  <2> HIDE DEF entry, prev
  <2>7. log' \in Seq(S \cup {entry})
    BY <2>2, <2>4
  <2>8. /\ Len(log') = n + 1 /\ log'[n + 1] = entry
        /\ \A i \in 1..n : log'[i] = log[i]
    BY <2>2, <2>4
  <2>9. \A i \in 1..n : log[i].entry_hash # entry.entry_hash
    <3>1. SUFFICES ASSUME NEW i \in 1..n, log[i].entry_hash = entry.entry_hash
                   PROVE  FALSE
      OBVIOUS
    <3>2. /\ log[i].entry_hash = <<log[i].prev_hash, log[i].input, log[i].output>>
          /\ log[i].prev_hash = IF i = 1 THEN NoHash ELSE log[i - 1].entry_hash
      BY DEF LogInv
    <3>3. prev = log[i].prev_hash
      BY <2>5, <3>1, <3>2
    <3>4. n > 0 /\ prev = log[n].entry_hash
      BY <2>3, <2>6
    <3>5. prev # NoHash
      <4>1. n \in 1..n
        BY <2>3, <3>4
      <4>2. prev = <<log[n].prev_hash, log[n].input, log[n].output>>
        BY <3>4, <4>1 DEF LogInv
      <4>3. QED
        BY <4>2 DEF NoHash
    <3>6. i # 1 /\ log[i - 1].entry_hash = log[n].entry_hash
      BY <3>2, <3>3, <3>4, <3>5
    <3>7. i - 1 \in 1..n /\ n \in 1..n
      BY <2>3, <3>6
    <3>8. i - 1 = n
      BY <3>6, <3>7 DEF LogInv
    <3>9. QED
      BY <2>3, <3>8
  <2>10. \A i \in 1..Len(log') :
           /\ log'[i].prev_hash = IF i = 1 THEN NoHash ELSE log'[i - 1].entry_hash
           /\ log'[i].entry_hash = <<log'[i].prev_hash, log'[i].input, log'[i].output>>
           /\ Writer(log'[i].spiffe_id)
    <3>1. ASSUME NEW i \in 1..(n + 1)
          PROVE  /\ log'[i].prev_hash = IF i = 1 THEN NoHash ELSE log'[i - 1].entry_hash
                 /\ log'[i].entry_hash = <<log'[i].prev_hash, log'[i].input, log'[i].output>>
                 /\ Writer(log'[i].spiffe_id)
      <4>1. CASE i = n + 1
        <5>1. i # 1 => i - 1 \in 1..n /\ i - 1 = n
          BY <2>3, <4>1
        <5>2. QED
          BY <2>1, <2>3, <2>5, <2>6, <2>8, <4>1, <5>1
      <4>2. CASE i \in 1..n
        <5>1. i # 1 => i - 1 \in 1..n
          BY <2>3, <4>2
        <5>2. QED
          BY <2>8, <4>2, <5>1 DEF LogInv
      <4>3. QED
        BY <2>3, <4>1, <4>2
    <3>2. QED
      BY <2>8, <3>1
  <2>11. \A i, j \in 1..Len(log') : log'[i].entry_hash = log'[j].entry_hash => i = j
    <3>1. ASSUME NEW i \in 1..(n + 1), NEW j \in 1..(n + 1),
                 log'[i].entry_hash = log'[j].entry_hash
          PROVE  i = j
      <4>1. CASE i \in 1..n /\ j \in 1..n
        BY <2>8, <3>1, <4>1 DEF LogInv
      <4>2. CASE i = n + 1 \/ j = n + 1
        <5>1. i \in 1..n \/ i = n + 1
          BY <2>3
        <5>2. j \in 1..n \/ j = n + 1
          BY <2>3
        <5>3. QED
          BY <2>8, <2>9, <3>1, <4>2, <5>1, <5>2
      <4>3. QED
        BY <2>3, <4>1, <4>2
    <3>2. QED
      BY <2>8, <3>1
  <2>12. Len(log') <= MaxLog
    BY <1>2, <2>3, <2>8, MaxLogAssumption
  <2>13. QED
    BY <2>7, <2>10, <2>11, <2>12 DEF LogInv
<1>3. CASE LedgersNext
  BY <1>1, <1>2, <1>3, LogSteps
<1>4. QED
  BY <1>1, <1>3 DEF hostVars

\* The empty log is one.
LEMMA InitLog == LedgersInit => LogInv
<1>1. SUFFICES ASSUME LedgersInit PROVE LogInv
  OBVIOUS
<1>2. log = <<>> /\ log \in Seq({})
  BY <1>1 DEF LedgersInit, HostInit
<1>3. QED
  BY <1>2, MaxLogAssumption DEF LogInv

\* Every agent a task was routed to is what its descriptions agree on, for
\* every plan, also plans with roles that are no specialists (lib.rs:103-235,
\* 358-369; prompts/*.md; argus-verify/src/routes.rs:149-195).
THEOREM DescriptionsAgree == LedgersSpec => []SpecialistsAgree
<1>1. LogInv => SpecialistsAgree
  <2>1. ASSUME LogInv, NEW i \in DOMAIN log, log[i].spiffe_id \in AgentRole
        PROVE  Agrees(log[i].spiffe_id)
    <3>1. i \in 1..Len(log)
      BY <2>1 DEF LogInv
    <3>2. Writer(log[i].spiffe_id)
      BY <2>1, <3>1 DEF LogInv
    <3>3. find_specialist(log[i].spiffe_id)
      BY <2>1, <3>2 DEF Writer, AgentRole
    <3>4. QED
      BY <3>3, EverySpecialistAgrees
  <2>2. QED
    BY <2>1 DEF SpecialistsAgree, Agrees
<1>2. QED
  BY <1>1, InitLog, NextLog, PTL DEF LedgersSpec

\* The links of the log as those of a chain of places: each entry is linked to
\* the place before its own.
LEMMA PlacesAre ==
  ASSUME LogInv, NEW i \in 1..Len(log)
  PROVE  PlaceOf(log[i].prev_hash) = i - 1
<1>1. Len(log) \in Nat /\ DOMAIN log = 1..Len(log)
  BY DEF LogInv
<1>2. CASE i = 1
  <2>1. log[i].prev_hash = NoHash
    BY <1>2 DEF LogInv
  <2>2. QED
    BY <1>2, <2>1 DEF PlaceOf
<1>3. CASE i # 1
  <2> DEFINE h == log[i - 1].entry_hash
  <2>1. i - 1 \in 1..Len(log) /\ log[i].prev_hash = h
    BY <1>1, <1>3 DEF LogInv
  <2>2. \A j \in 1..Len(log) : log[j].entry_hash = h => j = i - 1
    BY <2>1 DEF LogInv
  <2>3. h # NoHash
    <3>1. h = <<log[i - 1].prev_hash, log[i - 1].input, log[i - 1].output>>
      BY <2>1 DEF LogInv
    <3>2. QED
      BY <3>1 DEF NoHash
  <2> HIDE DEF h
  <2>4. PlaceOf(h) = CHOOSE j \in 1..Len(log) : log[j].entry_hash = h
    BY <1>1, <2>3 DEF PlaceOf
  <2>5. log[i - 1].entry_hash = h
    BY DEF h
  <2>6. QED
    BY <2>1, <2>2, <2>4, <2>5
<1>4. QED
  BY <1>2, <1>3

\* So the links are those of a chain.
LEMMA LinksAre ==
  LogInv => Links = [i \in Places |-> IF i > Len(log) THEN MaxLog + 1 ELSE i - 1]
<1> SUFFICES ASSUME LogInv
             PROVE  Links = [i \in Places |-> IF i > Len(log) THEN MaxLog + 1 ELSE i - 1]
  OBVIOUS
<1>1. ASSUME NEW i \in Places, ~(i > Len(log))
      PROVE  PlaceOf(log[i].prev_hash) = i - 1
  <2>1. i \in 1..Len(log)
    BY <1>1 DEF LogInv, Places
  <2>2. QED
    BY <2>1, PlacesAre
<1>2. QED
  BY <1>1 DEF Links

\* The decision log is the hash chain it claims to be: its steps are those of
\* the audit chain's specification, for every plan, document and host, although
\* most of an entry is not hashed (lib.rs:273-345).
THEOREM LogImplementsChain == LedgersSpec => ImplementsHashChain
<1>1. LedgersInit => Log!Init
  <2>1. SUFFICES ASSUME LedgersInit PROVE Log!Init
    OBVIOUS
  <2>2. Len(log) = 0
    BY <2>1 DEF LedgersInit, HostInit
  <2>3. Links = [i \in Places |-> MaxLog + 1]
    BY <2>2 DEF Links, Places
  <2>4. QED
    BY <2>2, <2>3 DEF Log!Init
<1>2. LogInv /\ LogInv' /\ [LedgersNext]_<<head, link, ledger, hostVars>>
        => [Log!Next]_<<Len(log), Links>>
  <2> SUFFICES ASSUME LogInv, LogInv', [LedgersNext]_<<head, link, ledger, hostVars>>
               PROVE  [Log!Next]_<<Len(log), Links>>
    OBVIOUS
  <2>1. CASE UNCHANGED log
    <3>1. Len(log') = Len(log) /\ Links' = Links
      BY <2>1 DEF Links, PlaceOf
    <3>2. QED
      BY <3>1
  <2>2. CASE /\ Len(log) < MaxLog
             /\ \E spiffe_id, decision_type, input, output :
                  /\ AppendEntry(spiffe_id, decision_type, input, output)
                  /\ Writer(spiffe_id)
    <3> DEFINE n == Len(log)
    <3>1. n \in Nat /\ Len(log') = n + 1
      <4>1. PICK S, spiffe_id, decision_type, input, output :
                log \in Seq(S) /\ AppendEntry(spiffe_id, decision_type, input, output)
        BY <2>2 DEF LogInv
      <4>2. PICK entry : log' = Append(log, entry)
        BY <4>1 DEF AppendEntry
      <4>3. QED
        BY <4>1, <4>2
    <3>2. n + 1 \in Places
      BY <2>2, <3>1, MaxLogAssumption DEF Places
    <3>3. Links = [i \in Places |-> IF i > n THEN MaxLog + 1 ELSE i - 1]
      BY LinksAre
    <3>4. Links' = [i \in Places |-> IF i > n + 1 THEN MaxLog + 1 ELSE i - 1]
      <4>1. Links' = [i \in Places |-> IF i > Len(log') THEN MaxLog + 1 ELSE i - 1]
        <5>1. (LogInv => Links = [i \in Places |-> IF i > Len(log) THEN MaxLog + 1 ELSE i - 1])'
          BY LinksAre, PTL
        <5>2. QED
          BY <5>1 DEF Places
      <4>2. QED
        BY <3>1, <4>1
    <3>5. Links[n + 1] = MaxLog + 1
      BY <3>1, <3>2, <3>3
    <3>6. Links' = [Links EXCEPT ![n + 1] = n]
      <4> HIDE DEF n
      <4>1. \A i \in Places : i \in Nat
        BY DEF Places
      <4>2. \A i \in Places : (IF i > n + 1 THEN MaxLog + 1 ELSE i - 1)
               = IF i = n + 1 THEN n ELSE IF i > n THEN MaxLog + 1 ELSE i - 1
        BY <3>1, <4>1
      <4>3. Links' = [i \in Places |-> IF i = n + 1 THEN n
                                       ELSE IF i > n THEN MaxLog + 1 ELSE i - 1]
        BY <3>4, <4>2
      <4>4. [Links EXCEPT ![n + 1] = n]
              = [i \in Places |-> IF i = n + 1 THEN n ELSE Links[i]]
        BY <3>3
      <4>5. \A i \in Places : Links[i] = IF i > n THEN MaxLog + 1 ELSE i - 1
        BY <3>3
      <4>6. QED
        BY <4>3, <4>4, <4>5
    <3>7. Log!Extend(n + 1)
      BY <3>1, <3>5, <3>6 DEF Log!Extend
    <3>8. QED
      BY <3>2, <3>7 DEF Log!Next
  <2>3. CASE LedgersNext
    BY <2>1, <2>2, <2>3, LogSteps
  <2>4. QED
    BY <2>1, <2>3 DEF hostVars
<1>3. QED
  BY <1>1, <1>2, InitLog, NextLog, PTL DEF LedgersSpec, ImplementsHashChain, Log!Spec

=============================================================================
