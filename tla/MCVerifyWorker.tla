--------------------------- MODULE MCVerifyWorker ---------------------------
(* Instances of VerifyWorker for TLC.                                      *)
EXTENDS VerifyWorker

=============================================================================
