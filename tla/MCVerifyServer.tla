--------------------------- MODULE MCVerifyServer ---------------------------
(* Instances of VerifyServer for TLC.                                      *)
EXTENDS VerifyServer, TLC

CONSTANTS r1, r2, r3, r4, k1, p1, p2, a1, a2

\* r1, and its repetition r2 with another API key; r3 uses their idempotency
\* key for another pull request and brings no API key; r4 has no idempotency
\* key.
SameKey == r1 :> k1 @@ r2 :> k1 @@ r3 :> k1 @@ r4 :> None
TwoPullRequests == r1 :> p1 @@ r2 :> p1 @@ r3 :> p2 @@ r4 :> p1
KeylessThird == r1 :> a1 @@ r2 :> a2 @@ r3 :> None @@ r4 :> a1

=============================================================================
