----------------------------- MODULE MCLlmStack -----------------------------
(* Instances of LlmStack for TLC.                                          *)
EXTENDS LlmStack

=============================================================================
