----------------------------- MODULE AuditLedger -----------------------------
(***************************************************************************)
(* The entries of the chain of module HashChain as they are written down,  *)
(* and verify_chain, which is handed entries by whoever has them           *)
(* (crates/argus-crypto/src/chain.rs).  It has nothing to go by but the    *)
(* entries: the hash takes no key, so anybody can compute it.              *)
(*                                                                         *)
(* As BLAKE3 is taken as injective, a hash is the sequence of the payloads *)
(* that went into it, one after the other; no payload for GENESIS_HASH.    *)
(***************************************************************************)
EXTENDS HashChain, Sequences, SequencesExt

CONSTANT
  Stories  \* what verify_chain may be handed, by an honest keeper or not

GENESIS_HASH == <<>>

ChainEntry == [prev_hash : Seq(Entries), hash : Seq(Entries), payload : Entries]

ASSUME StoriesAssumption == Stories \subseteq Seq(ChainEntry)

VARIABLE ledger  \* the entries written, in order

append(prev_hash, payload) ==
  [prev_hash |-> prev_hash, hash |-> Append(prev_hash, payload), payload |-> payload]

\* The head as it is carried from one append to the next: the hash of the entry
\* that it stands for.
HeadHash ==
  IF head = Genesis THEN GENESIS_HASH
  ELSE (CHOOSE entry \in ToSet(ledger) : entry.payload = head).hash

LedgerInit == Init /\ ledger = <<>>

WriteEntry(e) ==
  /\ Extend(e)
  /\ ledger' = Append(ledger, append(HeadHash, e))

LedgerNext == \E e \in Entries : WriteEntry(e)

LedgerSpec == LedgerInit /\ [][LedgerNext]_<<head, link, ledger>>

-----------------------------------------------------------------------------

\* The hash that an entry must have as its prev_hash.
ExpectedPrev(entries, i) == IF i = 1 THEN GENESIS_HASH ELSE entries[i - 1].hash

\* Mutant of VerifyChain: no hash is computed again, only the links are read.
VerifyLinksOnly(entries) ==
  /\ entries # <<>>
  /\ \A i \in DOMAIN entries : entries[i].prev_hash = ExpectedPrev(entries, i)

\* verify_chain: Err(Empty) or Err(Broken) is FALSE.
VerifyChain(entries) ==
  /\ entries # <<>>
  /\ \A i \in DOMAIN entries :
       /\ entries[i].prev_hash = ExpectedPrev(entries, i)
       /\ entries[i].hash = Append(entries[i].prev_hash, entries[i].payload)

-----------------------------------------------------------------------------

Payloads(entries, n) == [i \in 1..n |-> entries[i].payload]

\* Every hash is that of all the payloads up to its place.
Rehashed(entries) ==
  \A i \in DOMAIN entries :
    /\ entries[i].prev_hash = Payloads(entries, i - 1)
    /\ entries[i].hash = Payloads(entries, i)

\* What a verified chain says and what it does not say (chain.rs:1-7, 33-76).
\* The history and its beginnings verify.  So does anything else that was
\* hashed anew from the first entry that differs, and nothing but that: an
\* entry altered, taken out, put in or moved shows just when the hashes after
\* it are not computed again, and a chain made up from the genesis hash on
\* verifies.  But whoever has kept one hash of the history elsewhere cannot be
\* told another story up to it: a verified chain that has this hash, at
\* whatever place, has the entries of the history up to there and no others.
OneStory ==
  /\ \A n \in DOMAIN ledger : VerifyChain(SubSeq(ledger, 1, n))
  /\ \A s \in Stories : VerifyChain(s) <=> s # <<>> /\ Rehashed(s)
  /\ \A s \in Stories : VerifyChain(s) =>
       \A i \in DOMAIN s, n \in DOMAIN ledger :
         s[i].hash = ledger[n].hash => SubSeq(s, 1, i) = SubSeq(ledger, 1, n)

=============================================================================
