------------------------------ MODULE ChainPage ------------------------------
(***************************************************************************)
(* GET /chain of the dashboard: audit events as cards, and a button that   *)
(* says whether their chain is intact (crates/argus-dashboard/src/main.rs).*)
(***************************************************************************)
EXTENDS AuditLedger

CONSTANT
  Shortenings  \* ways in which hashes may look when they are shortened

\* Every hash on the page looks somehow.
ASSUME ShorteningsAssumption ==
  \A shorten \in Shortenings, s \in Stories : \A i \in DOMAIN s :
    s[i].prev_hash \in DOMAIN shorten /\ s[i].hash \in DOMAIN shorten

\* render_chain_events: what the two attributes of each card say, the first 16
\* characters of a hash.
Cards(entries, shorten) ==
  [i \in DOMAIN entries |->
    [prev_hash |-> shorten[entries[i].prev_hash],
     current_hash |-> shorten[entries[i].hash]]]

\* Mutant of PageVerifies: each card is compared with the one after it.
PageVerifiesBackwards(cards) ==
  \A i \in 2..Len(cards) : cards[i].current_hash = cards[i - 1].prev_hash

\* The script behind the button: neither the hashes themselves nor where the
\* first card comes from are looked at.
PageVerifies(cards) ==
  \A i \in 2..Len(cards) : cards[i - 1].current_hash = cards[i].prev_hash

\* The button is weaker than verify_chain (chain.rs:47-76) and never stricter:
\* it is content with every stretch of the history and with whatever else is
\* accepted there; and what contents it is linked from entry to entry, altered
\* or not, only as long as no two hashes begin alike (main.rs:1560-1577,
\* 1646-1651).
PageAgrees ==
  \A shorten \in Shortenings :
    /\ \A m, n \in DOMAIN ledger :
         PageVerifies(Cards(SubSeq(ledger, m, n), shorten))
    /\ \A s \in Stories : VerifyChain(s) => PageVerifies(Cards(s, shorten))
    /\ IsInjective(shorten) => \A s \in Stories :
         PageVerifies(Cards(s, shorten)) =>
           \A i \in 2..Len(s) : s[i].prev_hash = s[i - 1].hash

=============================================================================
