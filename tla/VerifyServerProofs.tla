------------------------- MODULE VerifyServerProofs -------------------------
(***************************************************************************)
(* What POST /analyze guarantees for every set of requests, keys and pull  *)
(* requests, however they interleave.                                      *)
(***************************************************************************)
EXTENDS VerifyServer, TLAPS

\* A key is at hand wherever the handler is about to use one.
KeyAtHand ==
  \A r \in Requests :
    /\ pc[r] = "set" => nim_key[r] # None
    /\ pc[r] = "diff" => env # None
    /\ pc[r] \in {"review", "put"} => billed[r] # None
    /\ pc[r] \in {"lookup", "put"} => IdemKey[r] # None

\* The cache holds finished reviews, each under its own key and pull request.
CacheFits ==
  \A k \in IdemKeys : cache[k] # None =>
    LET q == cache[k].body
    IN  /\ IdemKey[q] = k /\ PrUrl[q] = cache[k].pr
        /\ pc[q] = "done" /\ billed[q] # None

\* The inductive invariant.
ServerInv == TypeOK /\ KeyAtHand /\ CacheFits /\ AnswerFits

USE DEF Busy, Ended, Goto, Entry, clientVars

\* The server starts in the invariant.
LEMMA InitServer == Init => ServerInv
  BY NoneAssumption, RequestAssumption, ServerAssumption, DisconnectsAssumption
  DEF Init, EmptyCache, ServerInv, TypeOK, KeyAtHand, CacheFits, AnswerFits

\* No action leaves the types.
LEMMA NextType == TypeOK /\ KeyAtHand /\ [Next]_vars => TypeOK'
<1> SUFFICES ASSUME TypeOK, KeyAtHand, [Next]_vars PROVE TypeOK'
  OBVIOUS
<1> USE RequestAssumption, ServerAssumption, DisconnectsAssumption
<1>1. ASSUME NEW r \in Requests, Receive(r) \/ Miss(r) \/ Unauthorized(r)
      PROVE  TypeOK'
  <2>1. CASE Receive(r)
    <3>1. met' \in [Requests -> SUBSET Requests]
      BY <2>1 DEF TypeOK, Receive, InFlight
    <3>2. QED
      BY <2>1, <3>1 DEF TypeOK, Receive
  <2>2. CASE Miss(r) \/ Unauthorized(r)
    BY <2>2 DEF TypeOK, Miss, Unauthorized
  <2>3. QED
    BY <1>1, <2>1, <2>2
<1>2. ASSUME NEW r \in Requests, Hit(r) PROVE TypeOK'
  <2>1. cache[IdemKey[r]] \in Entry
    BY <1>2 DEF Hit, Get, Fresh, TypeOK, KeyAtHand
  <2>2. QED
    BY <1>2, <2>1 DEF TypeOK, Hit
<1>3. ASSUME NEW r \in Requests, Resolve(r) \/ SetEnv(r) PROVE TypeOK'
  BY <1>3 DEF TypeOK, Resolve, Resolved, SetEnv
<1>4. ASSUME NEW r \in Requests, Review(r) \/ Fail(r) \/ Reviewed(r)
      PROVE  TypeOK'
  BY <1>4 DEF TypeOK, Review, Fail, Reviewed
<1>5. ASSUME NEW r \in Requests, Put(r) PROVE TypeOK'
  <2>1. [body |-> r, pr |-> PrUrl[r], age |-> 0] \in Entry
    OBVIOUS
  <2>2. QED
    BY <1>5, <2>1 DEF TypeOK, Put
<1>6. ASSUME NEW r \in Requests, Disconnect(r) PROVE TypeOK'
  BY <1>6 DEF TypeOK, Disconnect
<1>7. CASE Cleanup
  BY <1>7 DEF TypeOK, Cleanup
<1>8. CASE Tick
  BY <1>8 DEF TypeOK, Tick, Fresh
<1>9. CASE UNCHANGED vars
  BY <1>9 DEF TypeOK, vars
<1>10. QED
  BY <1>1, <1>2, <1>3, <1>4, <1>5, <1>6, <1>7, <1>8, <1>9 DEF Next, Handle

\* The handler never comes to use a key it does not have.
LEMMA NextKey == TypeOK /\ KeyAtHand /\ [Next]_vars => KeyAtHand'
<1> SUFFICES ASSUME TypeOK, KeyAtHand, [Next]_vars PROVE KeyAtHand'
  OBVIOUS
<1> USE NoneAssumption DEF TypeOK, KeyAtHand
<1>1. ASSUME NEW r \in Requests, Receive(r) \/ Hit(r) \/ Miss(r) \/ Unauthorized(r)
      PROVE  KeyAtHand'
  BY <1>1 DEF Receive, Hit, Miss, Unauthorized
<1>2. ASSUME NEW r \in Requests, Resolve(r) PROVE KeyAtHand'
  BY <1>2 DEF Resolve
<1>3. ASSUME NEW r \in Requests, SetEnv(r) PROVE KeyAtHand'
  BY <1>3 DEF SetEnv
<1>4. ASSUME NEW r \in Requests, Review(r) \/ Fail(r) PROVE KeyAtHand'
  BY <1>4 DEF Review, Fail
<1>5. ASSUME NEW r \in Requests, Reviewed(r) \/ Put(r) PROVE KeyAtHand'
  BY <1>5 DEF Reviewed, Put
<1>6. ASSUME NEW r \in Requests, Disconnect(r) PROVE KeyAtHand'
  BY <1>6 DEF Disconnect
<1>7. CASE Cleanup \/ Tick \/ UNCHANGED vars
  BY <1>7 DEF Cleanup, Tick, vars
<1>8. QED
  BY <1>1, <1>2, <1>3, <1>4, <1>5, <1>6, <1>7 DEF Next, Handle

\* A finished request stays finished, and its bill does not change.
LEMMA DoneStays ==
  ASSUME TypeOK, [Next]_vars, NEW q \in Requests, pc[q] = "done"
  PROVE  pc'[q] = "done" /\ billed'[q] = billed[q] /\ answer'[q] = answer[q]
<1> USE DEF TypeOK
<1>1. ASSUME NEW r \in Requests, Receive(r) \/ Handle(r) \/ Disconnect(r)
      PROVE  pc'[q] = "done" /\ billed'[q] = billed[q] /\ answer'[q] = answer[q]
  BY <1>1 DEF Receive, Handle, Hit, Miss, Resolve, Unauthorized, SetEnv, Review,
              Fail, Reviewed, Put, Disconnect
<1>2. CASE Cleanup \/ Tick \/ UNCHANGED vars
  BY <1>2 DEF Cleanup, Tick, vars
<1>3. QED
  BY <1>1, <1>2 DEF Next

\* What the cache holds fits its key and its pull request.
LEMMA NextCache ==
  TypeOK /\ KeyAtHand /\ CacheFits /\ [Next]_vars => CacheFits'
<1> SUFFICES ASSUME TypeOK, KeyAtHand, CacheFits, [Next]_vars,
                    NEW k \in IdemKeys, cache'[k] # None
             PROVE  /\ IdemKey[cache'[k].body] = k
                    /\ PrUrl[cache'[k].body] = cache'[k].pr
                    /\ pc'[cache'[k].body] = "done"
                    /\ billed'[cache'[k].body] # None
  BY DEF CacheFits
<1>1. ASSUME cache[k] # None, cache'[k].body = cache[k].body,
             cache'[k].pr = cache[k].pr
      PROVE  /\ IdemKey[cache'[k].body] = k
             /\ PrUrl[cache'[k].body] = cache'[k].pr
             /\ pc'[cache'[k].body] = "done"
             /\ billed'[cache'[k].body] # None
  <2>1. cache[k].body \in Requests
    BY <1>1, NoneAssumption DEF TypeOK
  <2>2. QED
    BY <1>1, <2>1, DoneStays DEF CacheFits
<1>2. CASE cache'[k] = cache[k]
  BY <1>1, <1>2
<1>3. ASSUME NEW r \in Requests, Put(r), cache'[k] # cache[k]
      PROVE  /\ IdemKey[cache'[k].body] = k
             /\ PrUrl[cache'[k].body] = cache'[k].pr
             /\ pc'[cache'[k].body] = "done"
             /\ billed'[cache'[k].body] # None
  <2>1. k = IdemKey[r] /\ cache'[k] = [body |-> r, pr |-> PrUrl[r], age |-> 0]
    BY <1>3 DEF Put, TypeOK
  <2>2. pc'[r] = "done" /\ billed'[r] # None
    BY <1>3 DEF Put, TypeOK, KeyAtHand
  <2>3. QED
    BY <2>1, <2>2
<1>4. ASSUME Cleanup PROVE cache'[k] = cache[k]
  BY <1>4 DEF Cleanup
<1>5. ASSUME Tick, cache'[k] # cache[k]
      PROVE  /\ cache[k] # None
             /\ cache'[k].body = cache[k].body /\ cache'[k].pr = cache[k].pr
  BY <1>5, NoneAssumption DEF Tick, Fresh, TypeOK
<1>6. QED
  BY <1>1, <1>2, <1>3, <1>4, <1>5
  DEF Next, Handle, vars, Receive, Hit, Miss, Resolve, Unauthorized, SetEnv,
      Review, Fail, Reviewed, Disconnect

\* An answer fits its request: a cached one does because the cache fits.
LEMMA NextAnswer ==
  TypeOK /\ KeyAtHand /\ CacheFits /\ AnswerFits /\ [Next]_vars => AnswerFits'
<1> SUFFICES ASSUME TypeOK, KeyAtHand, CacheFits, AnswerFits, [Next]_vars,
                    NEW r \in Requests, pc'[r] = "done"
             PROVE  /\ answer'[r] # None /\ billed'[answer'[r]] # None
                    /\ PrUrl[answer'[r]] = PrUrl[r]
                    /\ \/ answer'[r] = r
                       \/ /\ IdemKey[answer'[r]] = IdemKey[r]
                          /\ pc'[answer'[r]] = "done"
  BY DEF AnswerFits
<1>1. CASE pc[r] = "done"
  <2>1. answer'[r] = answer[r] /\ answer[r] \in Requests
    BY <1>1, DoneStays DEF AnswerFits, TypeOK
  <2>2. CASE answer[r] = r
    BY <1>1, <2>1, <2>2, DoneStays DEF AnswerFits
  <2>3. CASE answer[r] # r
    BY <1>1, <2>1, <2>3, DoneStays DEF AnswerFits
  <2>4. QED
    BY <2>2, <2>3
<1>2. CASE Hit(r)
  <2>1. /\ IdemKey[r] \in IdemKeys /\ cache[IdemKey[r]] # None
        /\ cache[IdemKey[r]].pr = PrUrl[r]
    BY <1>2, RequestAssumption DEF Hit, Get, Fresh, KeyAtHand
  <2>2. cache[IdemKey[r]].body \in Requests
    BY <2>1 DEF TypeOK
  <2>3. answer'[r] = cache[IdemKey[r]].body
    BY <1>2 DEF Hit, TypeOK
  <2>4. QED
    BY <2>1, <2>2, <2>3, DoneStays, NoneAssumption DEF CacheFits
<1>3. CASE Put(r) \/ Reviewed(r)
  <2>1. answer'[r] = r /\ billed'[r] # None
    BY <1>3 DEF Put, Reviewed, KeyAtHand, TypeOK
  <2>2. QED
    BY <2>1, NoneAssumption
<1>4. CASE pc[r] # "done" /\ ~Hit(r) /\ ~Put(r) /\ ~Reviewed(r)
  <2>1. ASSUME NEW q \in Requests, Receive(q) \/ Handle(q) \/ Disconnect(q)
        PROVE  pc'[r] # "done"
    BY <1>4, <2>1 DEF TypeOK, Receive, Handle, Hit, Miss, Resolve, Unauthorized,
       SetEnv, Review, Fail, Reviewed, Put, Disconnect
  <2>2. CASE Cleanup \/ Tick \/ UNCHANGED vars
    BY <1>4, <2>2 DEF Cleanup, Tick, vars
  <2>3. QED
    BY <2>1, <2>2 DEF Next
<1>5. QED
  BY <1>1, <1>2, <1>3, <1>4

\* Every reachable state satisfies the invariant.
LEMMA AlwaysServerInv == Spec => []ServerInv
<1>1. ServerInv /\ [Next]_vars => ServerInv'
  BY NextType, NextKey, NextCache, NextAnswer DEF ServerInv
<1>2. QED
  BY InitServer, <1>1, PTL DEF Spec

\* The handler's variables, the environment and the cache keep their types.
THEOREM TypeCorrect == Spec => []TypeOK
<1>1. ServerInv => TypeOK
  BY DEF ServerInv
<1>2. QED
  BY <1>1, AlwaysServerInv, PTL

\* However requests interleave, are dropped and share idempotency keys, an
\* answer is a finished review of the pull request that was asked about
\* (main.rs:165-226, cache.rs:75-96).
THEOREM AnswersFit == Spec => []AnswerFits
<1>1. ServerInv => AnswerFits
  BY DEF ServerInv
<1>2. QED
  BY <1>1, AlwaysServerInv, PTL

\* The hourly cleanup changes no answer (cache.rs:98-105).
THEOREM CleanupChangesNoAnswer == Spec => CleanupInvisible
<1>1. ASSUME TypeOK, Cleanup, NEW r \in Requests, IdemKey[r] # None
      PROVE  Get(r) <=> Get(r)'
  BY <1>1, RequestAssumption DEF Cleanup, Get, Fresh
<1>2. TypeOK /\ [Next]_vars =>
        [Cleanup => \A r \in Requests : IdemKey[r] # None => (Get(r) <=> Get(r)')]_vars
  BY <1>1
<1>3. QED
  BY <1>2, TypeCorrect, PTL DEF Spec, CleanupInvisible

-----------------------------------------------------------------------------
(* Whom a request in flight can be mistaken for.                           *)

\* Requests in flight have met.
MetInFlight == \A q, r \in InFlight : q # r => q \in met[r]

\* A key is resolved once, and is the one of the header if there is one.
KeysResolved ==
  \A r \in Requests :
    /\ pc[r] \in {"idle", "lookup", "resolve"} => nim_key[r] = None
    /\ Header[r] # None /\ nim_key[r] # None => nim_key[r] = Header[r]

\* While a request awaits its diff, the environment holds its key, or that of
\* one that came in between.
EnvStrays ==
  \A r \in Requests :
    pc[r] = "diff" => \E q \in met[r] \cup {r} : env = nim_key[q]

\* What the cache has for a request that is to be reviewed, it got since that
\* request looked.
CacheStrays ==
  \A r \in Requests :
    pc[r] \in {"resolve", "set", "diff"} /\ IdemKey[r] # None /\ Get(r)
      => cache[IdemKey[r]].body \in met[r]

StrayInv ==
  MetInFlight /\ KeysResolved /\ EnvStrays /\ CacheStrays /\ KeyOfContemporary

\* The lists of those one has met only grow, and get the newcomer.
LEMMA NextMet ==
  TypeOK /\ MetInFlight /\ [Next]_vars
    => MetInFlight' /\ \A r \in Requests : met[r] \subseteq met'[r]
<1> SUFFICES ASSUME TypeOK, MetInFlight, [Next]_vars
             PROVE  MetInFlight' /\ \A r \in Requests : met[r] \subseteq met'[r]
  OBVIOUS
<1>1. ASSUME NEW r \in Requests, Receive(r)
      PROVE  MetInFlight' /\ \A q \in Requests : met[q] \subseteq met'[q]
  <2>1. /\ r \notin InFlight /\ InFlight' = InFlight \cup {r}
        /\ InFlight \subseteq Requests
    BY <1>1 DEF Receive, InFlight, TypeOK
  <2>2. /\ met'[r] = met[r] \cup InFlight
        /\ \A q \in InFlight : met'[q] = met[q] \cup {r}
        /\ \A q \in Requests \ (InFlight \cup {r}) : met'[q] = met[q]
    BY <1>1, <2>1 DEF Receive
  <2>3. QED
    BY <2>1, <2>2 DEF MetInFlight
<1>2. ASSUME met' = met, InFlight' \subseteq InFlight
      PROVE  MetInFlight' /\ \A q \in Requests : met[q] \subseteq met'[q]
  BY <1>2 DEF MetInFlight
<1>3. ASSUME NEW r \in Requests, Handle(r) \/ Disconnect(r)
      PROVE  met' = met /\ InFlight' \subseteq InFlight
  BY <1>3 DEF Handle, Hit, Miss, Resolve, Unauthorized, SetEnv, Review, Fail,
              Reviewed, Put, Disconnect, InFlight, TypeOK
<1>4. ASSUME Cleanup \/ Tick \/ UNCHANGED vars
      PROVE  met' = met /\ InFlight' \subseteq InFlight
  BY <1>4 DEF Cleanup, Tick, vars, InFlight
<1>5. QED
  BY <1>1, <1>2, <1>3, <1>4 DEF Next

\* A resolved key stays.
LEMMA NextResolved ==
  TypeOK /\ KeysResolved /\ [Next]_vars
    => /\ KeysResolved'
       /\ \A r \in Requests : nim_key[r] # None => nim_key'[r] = nim_key[r]
<1> SUFFICES ASSUME TypeOK, KeysResolved, [Next]_vars
             PROVE  /\ KeysResolved'
                    /\ \A r \in Requests :
                         nim_key[r] # None => nim_key'[r] = nim_key[r]
  OBVIOUS
<1> USE DEF TypeOK, KeysResolved
<1>1. ASSUME NEW r \in Requests, Resolve(r)
      PROVE  /\ KeysResolved'
             /\ \A q \in Requests : nim_key[q] # None => nim_key'[q] = nim_key[q]
  BY <1>1 DEF Resolve, Resolved
<1>2. ASSUME nim_key' = nim_key,
             \A r \in Requests :
               pc'[r] \in {"idle", "lookup", "resolve"}
                 => pc[r] \in {"idle", "lookup", "resolve"}
      PROVE  /\ KeysResolved'
             /\ \A q \in Requests : nim_key[q] # None => nim_key'[q] = nim_key[q]
  BY <1>2
<1>3. ASSUME NEW r \in Requests,
             \/ Receive(r) \/ Hit(r) \/ Miss(r) \/ Unauthorized(r) \/ SetEnv(r)
             \/ Review(r) \/ Fail(r) \/ Reviewed(r) \/ Put(r) \/ Disconnect(r)
      PROVE  /\ nim_key' = nim_key
             /\ \A q \in Requests :
                  pc'[q] \in {"idle", "lookup", "resolve"}
                    => pc[q] \in {"idle", "lookup", "resolve"}
  BY <1>3 DEF Receive, Hit, Miss, Unauthorized, SetEnv, Review, Fail, Reviewed,
              Put, Disconnect
<1>4. CASE Cleanup \/ Tick \/ UNCHANGED vars
  BY <1>4 DEF Cleanup, Tick, vars
<1>5. QED
  BY <1>1, <1>2, <1>3, <1>4 DEF Next, Handle

\* Whoever replaces the key in the environment has met those who await a diff.
LEMMA NextEnv ==
  TypeOK /\ KeyAtHand /\ StrayInv /\ [Next]_vars => EnvStrays'
<1> SUFFICES ASSUME TypeOK, KeyAtHand, StrayInv, [Next]_vars,
                    NEW r \in Requests, pc'[r] = "diff"
             PROVE  \E q \in met'[r] \cup {r} : env' = nim_key'[q]
  BY DEF EnvStrays
<1>1. \A q \in Requests : met[q] \subseteq met'[q]
  BY NextMet DEF StrayInv
<1>2. ASSUME NEW q \in Requests, SetEnv(q)
      PROVE  \E p \in met'[r] \cup {r} : env' = nim_key'[p]
  <2>1. env' = nim_key'[q] /\ q \in InFlight
    BY <1>2 DEF SetEnv, InFlight
  <2>2. q = r \/ q \in met[r]
    BY <1>2, <2>1 DEF SetEnv, InFlight, TypeOK, StrayInv, MetInFlight
  <2>3. QED
    BY <1>1, <2>1, <2>2
<1>3. ASSUME env' = env, pc[r] = "diff"
      PROVE  \E p \in met'[r] \cup {r} : env' = nim_key'[p]
  <2>1. PICK q \in met[r] \cup {r} : env = nim_key[q] /\ env # None
    BY <1>3 DEF StrayInv, EnvStrays, KeyAtHand
  <2>2. nim_key'[q] = nim_key[q]
    BY <2>1, NextResolved DEF StrayInv, TypeOK
  <2>3. QED
    BY <1>1, <1>3, <2>1, <2>2
<1>4. ASSUME NEW q \in Requests,
             \/ Receive(q) \/ Hit(q) \/ Miss(q) \/ Resolve(q) \/ Unauthorized(q)
             \/ Review(q) \/ Fail(q) \/ Reviewed(q) \/ Put(q) \/ Disconnect(q)
      PROVE  env' = env /\ pc[r] = "diff"
  BY <1>4 DEF TypeOK, Receive, Hit, Miss, Resolve, Unauthorized, Review, Fail,
              Reviewed, Put, Disconnect
<1>5. ASSUME Cleanup \/ Tick \/ UNCHANGED vars
      PROVE  env' = env /\ pc[r] = "diff"
  BY <1>5 DEF Cleanup, Tick, vars
<1>6. QED
  BY <1>2, <1>3, <1>4, <1>5 DEF Next, Handle

\* Only a request that is put makes the cache answer what it did not.
LEMMA GetAppears ==
  ASSUME TypeOK, NEW r \in Requests, IdemKey[r] # None, Get(r)',
         Cleanup \/ Tick \/ UNCHANGED cache
  PROVE  Get(r) /\ cache'[IdemKey[r]].body = cache[IdemKey[r]].body
<1>1. IdemKey[r] \in IdemKeys /\ cache[IdemKey[r]] \in Entry \cup {None}
  BY RequestAssumption DEF TypeOK
<1>2. CASE Cleanup
  BY <1>1, <1>2 DEF Cleanup, Get, Fresh
<1>3. CASE Tick
  BY <1>1, <1>3, NoneAssumption, ServerAssumption DEF Tick, Get, Fresh
<1>4. CASE UNCHANGED cache
  BY <1>4 DEF Get, Fresh
<1>5. QED
  BY <1>2, <1>3, <1>4

\* Whoever fills the cache has met those who are to be reviewed.
LEMMA NextStray ==
  TypeOK /\ KeyAtHand /\ StrayInv /\ [Next]_vars => CacheStrays'
<1> SUFFICES ASSUME TypeOK, KeyAtHand, StrayInv, [Next]_vars,
                    NEW r \in Requests, pc'[r] \in {"resolve", "set", "diff"},
                    IdemKey[r] # None, Get(r)'
             PROVE  cache'[IdemKey[r]].body \in met'[r]
  BY DEF CacheStrays
<1>1. \A q \in Requests : met[q] \subseteq met'[q]
  BY NextMet DEF StrayInv
<1>2. ASSUME NEW q \in Requests, Put(q)
      PROVE  cache'[IdemKey[r]].body \in met'[r]
  <2>1. /\ q # r /\ q \in InFlight /\ r \in InFlight /\ pc'[r] = pc[r]
        /\ IdemKey[r] \in IdemKeys
    BY <1>2, RequestAssumption DEF Put, InFlight, TypeOK
  <2>2. CASE IdemKey[q] = IdemKey[r]
    BY <1>1, <1>2, <2>1, <2>2 DEF Put, TypeOK, StrayInv, MetInFlight
  <2>3. CASE IdemKey[q] # IdemKey[r]
    <3>1. cache'[IdemKey[r]] = cache[IdemKey[r]]
      BY <1>2, <2>3 DEF Put, TypeOK
    <3>2. QED
      BY <1>1, <2>1, <3>1 DEF StrayInv, CacheStrays, Get, Fresh
  <2>4. QED
    BY <2>2, <2>3
<1>3. ASSUME NEW q \in Requests, Miss(q)
      PROVE  cache'[IdemKey[r]].body \in met'[r]
  BY <1>1, <1>3, GetAppears DEF Miss, TypeOK, StrayInv, CacheStrays
<1>4. ASSUME NEW q \in Requests,
             \/ Receive(q) \/ Hit(q) \/ Resolve(q) \/ Unauthorized(q)
             \/ SetEnv(q) \/ Review(q) \/ Fail(q) \/ Reviewed(q) \/ Disconnect(q)
      PROVE  UNCHANGED cache /\ pc[r] \in {"resolve", "set", "diff"}
  BY <1>4 DEF TypeOK, Receive, Hit, Resolve, Unauthorized, SetEnv, Review, Fail,
              Reviewed, Disconnect
<1>5. ASSUME Cleanup \/ Tick \/ UNCHANGED vars
      PROVE  /\ Cleanup \/ Tick \/ UNCHANGED cache
             /\ pc[r] \in {"resolve", "set", "diff"}
  BY <1>5 DEF Cleanup, Tick, vars
<1>6. ASSUME Cleanup \/ Tick \/ UNCHANGED cache,
             pc[r] \in {"resolve", "set", "diff"}
      PROVE  cache'[IdemKey[r]].body \in met'[r]
  BY <1>1, <1>6, GetAppears DEF StrayInv, CacheStrays
<1>7. QED
  BY <1>2, <1>3, <1>4, <1>5, <1>6 DEF Next, Handle

\* The key of a review is one that was in the environment while it waited.
LEMMA NextContemporary ==
  TypeOK /\ KeyAtHand /\ StrayInv /\ [Next]_vars => KeyOfContemporary'
<1> SUFFICES ASSUME TypeOK, KeyAtHand, StrayInv, [Next]_vars,
                    NEW r \in Requests, billed'[r] # None
             PROVE  \E q \in met'[r] \cup {r} :
                      /\ billed'[r] = nim_key'[q]
                      /\ Header[q] # None => nim_key'[q] = Header[q]
  BY DEF KeyOfContemporary
<1>1. /\ \A q \in Requests : met[q] \subseteq met'[q]
      /\ \A q \in Requests : nim_key[q] # None => nim_key'[q] = nim_key[q]
  BY NextMet, NextResolved DEF StrayInv
<1>2. ASSUME NEW q \in met[r] \cup {r}, billed'[r] = nim_key[q]
      PROVE  \E p \in met'[r] \cup {r} :
               /\ billed'[r] = nim_key'[p]
               /\ Header[p] # None => nim_key'[p] = Header[p]
  <2>1. q \in Requests /\ nim_key'[q] = nim_key[q] /\ q \in met'[r] \cup {r}
    BY <1>1, <1>2 DEF TypeOK
  <2>2. Header[q] # None => nim_key[q] = Header[q]
    BY <1>2, <2>1 DEF StrayInv, KeysResolved
  <2>3. QED
    BY <1>2, <2>1, <2>2
<1>3. CASE billed'[r] = billed[r]
  BY <1>2, <1>3 DEF StrayInv, KeyOfContemporary
<1>4. ASSUME NEW q \in Requests, Review(q), billed'[r] # billed[r]
      PROVE  \E p \in met[r] \cup {r} : billed'[r] = nim_key[p]
  BY <1>4 DEF Review, TypeOK, StrayInv, EnvStrays
<1>5. QED
  BY <1>2, <1>3, <1>4
  DEF Next, Handle, vars, Receive, Hit, Miss, Resolve, Unauthorized, SetEnv,
      Fail, Reviewed, Put, Disconnect, Cleanup, Tick

\* Every reachable state satisfies it.
LEMMA AlwaysStrayInv == Spec => []StrayInv
<1>1. Init => StrayInv
  BY DEF Init, StrayInv, MetInFlight, InFlight, KeysResolved, EnvStrays,
         CacheStrays, KeyOfContemporary
<1>2. ServerInv => TypeOK /\ KeyAtHand
  BY DEF ServerInv
<1>3. TypeOK /\ KeyAtHand /\ StrayInv /\ [Next]_vars => StrayInv'
  BY NextMet, NextResolved, NextEnv, NextStray, NextContemporary DEF StrayInv
<1>4. QED
  BY <1>1, <1>2, <1>3, AlwaysServerInv, PTL DEF Spec

\* A key strays no further than to a request in flight with the one that brought
\* it; in particular, who meets no other request is billed to its own (main.rs:
\* 184-198, lib.rs:152-162).
THEOREM KeysOfContemporaries == Spec => []KeyOfContemporary
<1>1. StrayInv => KeyOfContemporary
  BY DEF StrayInv
<1>2. QED
  BY <1>1, AlwaysStrayInv, PTL

\* Nobody is billed for a review that the cache could have answered with when
\* it came (main.rs:165-181).
THEOREM NoReviewOfTheCached == Spec => CachedNotReviewed
<1>1. StrayInv /\ [Next]_vars =>
        [\A r \in Requests :
           pc[r] = "diff" /\ pc'[r] = "review" /\ IdemKey[r] # None /\ Get(r)
             => cache[IdemKey[r]].body \in met[r]]_vars
  BY DEF StrayInv, CacheStrays
<1>2. QED
  BY <1>1, AlwaysStrayInv, PTL DEF Spec, CachedNotReviewed

=============================================================================
