------------------------------ MODULE HashChain ------------------------------
(***************************************************************************)
(* The hash chain that the ledgers of argus-verify and argus-llm are meant *)
(* to be: every entry carries the hash of the entry before it, and the     *)
(* writer remembers the hash of the last one (crates/argus-crypto/src/     *)
(* chain.rs).                                                              *)
(*                                                                         *)
(* BLAKE3 is taken as injective and every payload as distinct (each has a  *)
(* timestamp or a UUID), so the hash of an entry stands for the entry.     *)
(* What the entries look like, and what somebody may make of them who does *)
(* not write them, is in module AuditLedger.                               *)
(***************************************************************************)

CONSTANTS
  Entries,  \* the entries that may be written; each at most once
  Genesis,  \* GENESIS_HASH, the prev_hash of the first entry
  None      \* the link of an entry not written

ASSUME GenesisAssumption == Genesis \notin Entries
ASSUME NoneAssumption == None \notin Entries /\ None # Genesis

VARIABLES
  head,  \* hash of the last entry, Genesis at first
  link   \* link[e]: the prev_hash of e, None if e is not written

Written == {e \in Entries : link[e] # None}

Init ==
  /\ head = Genesis
  /\ link = [e \in Entries |-> None]

\* Mutant of Extend: the head is not advanced.
ExtendStale(e) ==
  /\ link[e] = None
  /\ link' = [link EXCEPT ![e] = head]
  /\ UNCHANGED head

\* append: the entry takes the head's hash as its prev_hash, and its own hash
\* becomes the head, in one step.
Extend(e) ==
  /\ link[e] = None
  /\ link' = [link EXCEPT ![e] = head]
  /\ head' = e

Next == \E e \in Entries : Extend(e)

Spec == Init /\ [][Next]_<<head, link>>

-----------------------------------------------------------------------------

TypeOK ==
  /\ head \in Entries \cup {Genesis}
  /\ link \in [Entries -> Entries \cup {Genesis, None}]

\* The chain does not fork: no two entries claim the same predecessor, the
\* head is written and nothing follows it yet (chain.rs:33-44 with the head
\* carried from one call to the next).
Linear ==
  /\ \A e, f \in Written : link[e] = link[f] => e = f
  /\ head # Genesis => head \in Written
  /\ \A e \in Written : link[e] # head

\* Links lead back to the genesis hash: every set of entries has one that
\* follows an entry outside the set.
Rooted ==
  \A S \in SUBSET Written : S # {} => \E e \in S : link[e] \notin S

=============================================================================
