--------------------------- MODULE RestingEndpoint ---------------------------
(***************************************************************************)
(* What a circuit breaker promises the endpoint it protects, whatever the  *)
(* number of callers: it is either reachable or resting, no call starts    *)
(* while it rests, only the end of a call may send it to rest, and a rest  *)
(* ends by itself.                                                         *)
(***************************************************************************)
CONSTANT Callers

VARIABLES
  resting,   \* the endpoint is left alone
  inflight   \* the callers it is serving

Init == resting = FALSE /\ inflight = {}

Start(c) ==
  /\ ~resting
  /\ inflight' = inflight \cup {c}
  /\ UNCHANGED resting

\* The outcome of a call may begin a rest, prolong it or end it.
Finish(c) ==
  /\ c \in inflight
  /\ inflight' = inflight \ {c}
  /\ resting' \in BOOLEAN

Wake ==
  /\ resting
  /\ resting' = FALSE
  /\ UNCHANGED inflight

Next == (\E c \in Callers : Start(c) \/ Finish(c)) \/ Wake

Spec == Init /\ [][Next]_<<resting, inflight>>
FairSpec == Spec /\ WF_<<resting, inflight>>(Wake)

=============================================================================
