------------------------------- MODULE Ledgers -------------------------------
(***************************************************************************)
(* The audit ledger with the page that shows it, and the orchestrator with *)
(* its decision log: two chains that are written side by side and share    *)
(* nothing.                                                                *)
(***************************************************************************)
EXTENDS ChainPage, DecisionLog

LedgersInit == LedgerInit /\ HostInit

LedgersNext ==
  \/ LedgerNext /\ UNCHANGED hostVars
  \/ HostNext /\ UNCHANGED <<head, link, ledger>>

LedgersSpec == LedgersInit /\ [][LedgersNext]_<<head, link, ledger, hostVars>>

=============================================================================
