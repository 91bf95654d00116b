------------------------- MODULE VerifyWorkerProofs -------------------------
(***************************************************************************)
(* What VerifyWorker guarantees for every set of requests and under any    *)
(* interleaving of them.                                                   *)
(***************************************************************************)
EXTENDS VerifyWorker, RecursionFacts, FiniteSetTheorems, TLAPS

\* Where a request is before and after it has its ledger entry, and before it
\* has its audit event.  A dropped request may be on either side.
Unledgered == {"idle", "diff", "reviewed", "linking", "failed"}
Ledgered == {"comment", "label", "audit", "signing", "storing", "done"}
Unaudited == Unledgered \cup {"comment", "label", "audit", "signing"}

Stages ==
  \A r \in Requests :
    /\ pc[r] \in Unledgered => ledger[r] = None
    /\ pc[r] \in Ledgered => ledger[r] # None
    /\ pc[r] \in Unaudited => audit[r] = None
    /\ pc[r] \in {"storing", "done"} => audit[r] # None

\* A hash that is a head, that was read as one or that an entry carries is the
\* genesis hash or the hash of a written entry.
Known(link, h) == h = Genesis \/ (h \in Requests /\ link[h] # None)

HashesKnown ==
  /\ Known(ledger, prev_hash)
  /\ Known(audit, audit_prev_hash)
  /\ \A r \in Requests :
       /\ pc[r] = "linking" => Known(ledger, seen[r])
       /\ pc[r] = "signing" => Known(audit, seen[r])
       /\ ledger[r] # None => Known(ledger, ledger[r])
       /\ audit[r] # None => Known(audit, audit[r])

USE DEF Busy, Ended, Links, ledgerVars, auditVars, commentVars, labelVars,
        githubVars, clientVars, Goto, Sent

-----------------------------------------------------------------------------

\* No action leaves the types.
LEMMA NextType == TypeOK /\ [Next]_vars => TypeOK'
<1> SUFFICES ASSUME TypeOK, [Next]_vars PROVE TypeOK'
  OBVIOUS
<1> USE HashAssumption, DisconnectsAssumption
<1>1. ASSUME NEW r \in Requests, Start(r) \/ Fail(r) \/ Review(r) PROVE TypeOK'
  <2>1. met' \in [Requests -> SUBSET Requests]
    BY <1>1 DEF TypeOK, Start, Fail, Review, InFlight
  <2>2. QED
    BY <1>1, <2>1 DEF TypeOK, Start, Fail, Review
<1>2. ASSUME NEW r \in Requests, ReadLedgerHead(r) \/ ReadAuditHead(r)
      PROVE  TypeOK'
  BY <1>2 DEF TypeOK, ReadLedgerHead, ReadAuditHead
<1>3. ASSUME NEW r \in Requests, AdvanceLedger(r) PROVE TypeOK'
  BY <1>3 DEF TypeOK, AdvanceLedger
<1>4. ASSUME NEW r \in Requests, Comment(r) PROVE TypeOK'
  BY <1>4 DEF TypeOK, Comment
<1>5. ASSUME NEW r \in Requests, Label(r) PROVE TypeOK'
  BY <1>5 DEF TypeOK, Label
<1>6. ASSUME NEW r \in Requests, AdvanceAudit(r) PROVE TypeOK'
  BY <1>6 DEF TypeOK, AdvanceAudit
<1>7. ASSUME NEW r \in Requests, Store(r) PROVE TypeOK'
  BY <1>7 DEF TypeOK, Store
<1>8. ASSUME NEW r \in Requests, Disconnect(r) PROVE TypeOK'
  BY <1>8 DEF TypeOK, Disconnect
<1>9. CASE UNCHANGED vars
  BY <1>9 DEF TypeOK, vars
<1>10. QED
  BY <1>1, <1>2, <1>3, <1>4, <1>5, <1>6, <1>7, <1>8, <1>9 DEF Next, Work

\* The stages are in step with the two chains.  A head that was read is never
\* None, which is what makes an advanced chain longer.
LEMMA NextStages ==
  TypeOK /\ Stages /\ HashesKnown /\ [Next]_vars => Stages'
<1> SUFFICES ASSUME TypeOK, Stages, HashesKnown, [Next]_vars PROVE Stages'
  OBVIOUS
<1> USE HashAssumption DEF TypeOK, Stages, Unledgered, Ledgered, Unaudited
<1>1. ASSUME NEW r \in Requests, Start(r) \/ Fail(r) \/ Review(r) PROVE Stages'
  BY <1>1 DEF Start, Fail, Review
<1>2. ASSUME NEW r \in Requests, ReadLedgerHead(r) \/ ReadAuditHead(r)
      PROVE  Stages'
  BY <1>2 DEF ReadLedgerHead, ReadAuditHead
<1>3. ASSUME NEW r \in Requests, AdvanceLedger(r) PROVE Stages'
  BY <1>3 DEF AdvanceLedger, HashesKnown, Known
<1>4. ASSUME NEW r \in Requests, Comment(r) \/ Label(r) PROVE Stages'
  BY <1>4 DEF Comment, Label
<1>5. ASSUME NEW r \in Requests, AdvanceAudit(r) PROVE Stages'
  BY <1>5 DEF AdvanceAudit, HashesKnown, Known
<1>6. ASSUME NEW r \in Requests, Store(r) \/ Disconnect(r) PROVE Stages'
  BY <1>6 DEF Store, Disconnect
<1>7. CASE UNCHANGED vars
  BY <1>7 DEF vars
<1>8. QED
  BY <1>1, <1>2, <1>3, <1>4, <1>5, <1>6, <1>7 DEF Next, Work

\* Every hash in the worker's hands is that of an entry already written.
LEMMA NextHashes ==
  TypeOK /\ Stages /\ HashesKnown /\ [Next]_vars => HashesKnown'
<1> SUFFICES ASSUME TypeOK, Stages, HashesKnown, [Next]_vars PROVE HashesKnown'
  OBVIOUS
<1> USE HashAssumption DEF TypeOK, HashesKnown, Known
<1>1. ASSUME NEW r \in Requests, Start(r) \/ Fail(r) \/ Review(r)
      PROVE  HashesKnown'
  BY <1>1 DEF Start, Fail, Review
<1>2. ASSUME NEW r \in Requests, ReadLedgerHead(r) \/ ReadAuditHead(r)
      PROVE  HashesKnown'
  BY <1>2 DEF ReadLedgerHead, ReadAuditHead
<1>3. ASSUME NEW r \in Requests, AdvanceLedger(r) PROVE HashesKnown'
  <2>1. seen[r] # None /\ Known(ledger, seen[r])
    BY <1>3 DEF AdvanceLedger
  <2>2. \A h : Known(ledger, h) => Known(ledger', h)
    BY <1>3, <2>1 DEF AdvanceLedger
  <2>3. QED
    BY <1>3, <2>1, <2>2 DEF AdvanceLedger
<1>4. ASSUME NEW r \in Requests, Comment(r) \/ Label(r) PROVE HashesKnown'
  BY <1>4 DEF Comment, Label
<1>5. ASSUME NEW r \in Requests, AdvanceAudit(r) PROVE HashesKnown'
  <2>1. seen[r] # None /\ Known(audit, seen[r])
    BY <1>5 DEF AdvanceAudit
  <2>2. \A h : Known(audit, h) => Known(audit', h)
    BY <1>5, <2>1 DEF AdvanceAudit
  <2>3. QED
    BY <1>5, <2>1, <2>2 DEF AdvanceAudit
<1>6. ASSUME NEW r \in Requests, Store(r) \/ Disconnect(r) PROVE HashesKnown'
  BY <1>6 DEF Store, Disconnect
<1>7. CASE UNCHANGED vars
  BY <1>7 DEF vars
<1>8. QED
  BY <1>1, <1>2, <1>3, <1>4, <1>5, <1>6, <1>7 DEF Next, Work

-----------------------------------------------------------------------------

\* A rooted set of links stays rooted when an unwritten entry is linked to the
\* genesis hash or to a written one.
LEMMA RootedGrows ==
  ASSUME NEW link \in [Requests -> Links], NEW r \in Requests,
         link[r] = None,
         NEW h, Known(link, h),
         \A q \in Requests : link[q] # None => Known(link, link[q]),
         \A S \in SUBSET {q \in Requests : link[q] # None} :
           S # {} => \E q \in S : link[q] \notin S,
         NEW new, new = [link EXCEPT ![r] = h]
  PROVE  \A S \in SUBSET {q \in Requests : new[q] # None} :
           S # {} => \E q \in S : new[q] \notin S
<1> DEFINE W == {q \in Requests : link[q] # None}
<1>1. /\ {q \in Requests : new[q] # None} \subseteq W \cup {r}
      /\ r \notin W
      /\ new[r] = h /\ h # r
      /\ \A q \in W : new[q] = link[q] /\ link[q] # r
  BY HashAssumption DEF Known
<1> SUFFICES ASSUME NEW S \in SUBSET (W \cup {r}), S # {}
             PROVE  \E q \in S : new[q] \notin S
  BY <1>1
<1>2. CASE S \subseteq {r}
  BY <1>1, <1>2
<1>3. CASE ~(S \subseteq {r})
  <2>1. S \ {r} \in SUBSET W /\ S \ {r} # {}
    BY <1>3
  <2>2. PICK q \in S \ {r} : link[q] \notin S \ {r}
    BY <2>1
  <2>3. QED
    BY <1>1, <2>1, <2>2
<1>4. QED
  BY <1>2, <1>3

\* No interleaving makes either chain run in a circle.
LEMMA NextRooted ==
  TypeOK /\ Stages /\ HashesKnown /\ LinksRooted /\ [Next]_vars => LinksRooted'
<1> SUFFICES ASSUME TypeOK, Stages, HashesKnown, LinksRooted, [Next]_vars
             PROVE  LinksRooted'
  OBVIOUS
<1> USE DEF LinksRooted, Ledger!Rooted, Ledger!Written, Audit!Rooted,
            Audit!Written
<1>1. CASE UNCHANGED <<ledger, audit>>
  BY <1>1
<1>2. ASSUME NEW r \in Requests, AdvanceLedger(r) PROVE LinksRooted'
  <2>1. /\ ledger[r] = None
        /\ Known(ledger, seen[r])
        /\ \A q \in Requests : ledger[q] # None => Known(ledger, ledger[q])
        /\ ledger \in [Requests -> Links]
    BY <1>2 DEF AdvanceLedger, Stages, Unledgered, HashesKnown, TypeOK
  <2>2. ledger' = [ledger EXCEPT ![r] = seen[r]] /\ audit' = audit
    BY <1>2 DEF AdvanceLedger
  <2>3. Ledger!Rooted'
    BY <2>1, <2>2, RootedGrows
  <2>4. QED
    BY <2>2, <2>3
<1>3. ASSUME NEW r \in Requests, AdvanceAudit(r) PROVE LinksRooted'
  <2>1. /\ audit[r] = None
        /\ Known(audit, seen[r])
        /\ \A q \in Requests : audit[q] # None => Known(audit, audit[q])
        /\ audit \in [Requests -> Links]
    BY <1>3 DEF AdvanceAudit, Stages, Unaudited, HashesKnown, TypeOK
  <2>2. audit' = [audit EXCEPT ![r] = seen[r]] /\ ledger' = ledger
    BY <1>3 DEF AdvanceAudit
  <2>3. Audit!Rooted'
    BY <2>1, <2>2, RootedGrows
  <2>4. QED
    BY <2>2, <2>3
<1>4. QED
  BY <1>1, <1>2, <1>3
  DEF Next, Work, vars, Start, Fail, Review, ReadLedgerHead, Comment, Label,
      ReadAuditHead, Store, Disconnect

-----------------------------------------------------------------------------

\* What reached the pull request has its ledger entry already.
LEMMA NextPublished ==
  TypeOK /\ Stages /\ HashesKnown /\ PublishedIsLedgered /\ [Next]_vars
    => PublishedIsLedgered'
<1> SUFFICES ASSUME TypeOK, Stages, HashesKnown, PublishedIsLedgered,
                    [Next]_vars
             PROVE  PublishedIsLedgered'
  OBVIOUS
<1> USE DEF PublishedIsLedgered, Ledger!Written
<1>1. CASE UNCHANGED <<githubVars, ledger>>
  BY <1>1
<1>2. ASSUME NEW r \in Requests, AdvanceLedger(r) PROVE PublishedIsLedgered'
  BY <1>2, HashAssumption DEF AdvanceLedger, HashesKnown, Known, TypeOK
<1>3. ASSUME NEW r \in Requests, Comment(r) \/ Label(r) \/ Disconnect(r)
      PROVE  PublishedIsLedgered'
  <2>1. pc[r] \in {"comment", "label"} => ledger[r] # None
    BY DEF Stages, Ledgered
  <2>2. CASE Comment(r)
    BY <2>1, <2>2 DEF Comment
  <2>3. CASE Label(r)
    BY <2>1, <2>3 DEF Label
  <2>4. CASE Disconnect(r)
    BY <2>1, <2>4 DEF Disconnect
  <2>5. QED
    BY <1>3, <2>2, <2>3, <2>4
<1>4. QED
  BY <1>1, <1>2, <1>3
  DEF Next, Work, vars, Start, Fail, Review, ReadLedgerHead, ReadAuditHead,
      AdvanceAudit, Store

\* An event is not in the store before its request has stored it.
NotYetStored ==
  \A r \in Requests :
    pc[r] \in Unaudited \cup {"storing"} => r \notin ToSet(store)

\* Appending adds one event, and keeps the others where they are.
LEMMA Appended ==
  ASSUME store \in Seq(Requests), NEW r \in Requests,
         NEW longer, longer = Append(store, r)
  PROVE  /\ ToSet(longer) = ToSet(store) \cup {r}
         /\ IsInjective(store) /\ r \notin ToSet(store) => IsInjective(longer)
<1>1. /\ Len(longer) = Len(store) + 1
      /\ DOMAIN longer = 1..Len(longer) /\ DOMAIN store = 1..Len(store)
      /\ Len(store) \in Nat
      /\ \A i \in 1..Len(store) : longer[i] = store[i]
      /\ longer[Len(longer)] = r
  OBVIOUS
<1>2. ToSet(longer) = ToSet(store) \cup {r}
  BY <1>1 DEF ToSet
<1>3. ASSUME IsInjective(store), r \notin ToSet(store) PROVE IsInjective(longer)
  BY <1>1, <1>3 DEF IsInjective, ToSet
<1>4. QED
  BY <1>2, <1>3

\* The store gets every event once, except those whose request was dropped.
LEMMA NextStore ==
  TypeOK /\ Stages /\ HashesKnown /\ NotYetStored /\ StoreComplete /\ [Next]_vars
    => NotYetStored' /\ StoreComplete'
<1> SUFFICES ASSUME TypeOK, Stages, HashesKnown, NotYetStored, StoreComplete,
                    [Next]_vars
             PROVE  NotYetStored' /\ StoreComplete'
  OBVIOUS
<1> USE HashAssumption DEF TypeOK, NotYetStored, StoreComplete, Unaudited, Unledgered,
                           Audit!Written
<1>1. ASSUME NEW r \in Requests,
             \/ Start(r) \/ Fail(r) \/ Review(r)
             \/ ReadLedgerHead(r) \/ AdvanceLedger(r)
             \/ Comment(r) \/ Label(r) \/ ReadAuditHead(r)
      PROVE  NotYetStored' /\ StoreComplete'
  <2>1. UNCHANGED <<store, audit>>
    BY <1>1 DEF Start, Fail, Review, ReadLedgerHead, AdvanceLedger, Comment,
                Label, ReadAuditHead
  <2>2. /\ pc[r] \in Unaudited /\ pc'[r] \in Unaudited
        /\ \A q \in Requests : q # r => pc'[q] = pc[q]
    BY <1>1 DEF Start, Fail, Review, ReadLedgerHead, AdvanceLedger, Comment,
                Label, ReadAuditHead
  <2>3. QED
    BY <2>1, <2>2 DEF Stages
<1>2. ASSUME NEW r \in Requests, AdvanceAudit(r)
      PROVE  NotYetStored' /\ StoreComplete'
  BY <1>2 DEF AdvanceAudit, Stages, HashesKnown, Known
<1>3. ASSUME NEW r \in Requests, Store(r)
      PROVE  NotYetStored' /\ StoreComplete'
  <2>1. /\ store' = Append(store, r) /\ audit' = audit
        /\ pc' = [pc EXCEPT ![r] = "done"] /\ pc[r] = "storing"
    BY <1>3 DEF Store
  <2>2. ToSet(store') = ToSet(store) \cup {r} /\ IsInjective(store')
    BY <2>1, Appended
  <2>3. audit[r] # None
    BY <2>1 DEF Stages
  <2>4. NotYetStored'
    BY <2>1, <2>2
  <2>5. StoreComplete'
    BY <2>1, <2>2, <2>3
  <2>6. QED
    BY <2>4, <2>5
<1>4. ASSUME NEW r \in Requests, Disconnect(r)
      PROVE  NotYetStored' /\ StoreComplete'
  BY <1>4 DEF Disconnect, Suspended
<1>5. CASE UNCHANGED vars
  BY <1>5 DEF vars
<1>6. QED
  BY <1>1, <1>2, <1>3, <1>4, <1>5 DEF Next, Work

-----------------------------------------------------------------------------

\* The inductive invariant: the properties, and what they lean on.
WorkerInv ==
  /\ TypeOK /\ Stages /\ HashesKnown /\ NotYetStored
  /\ LinksRooted /\ PublishedIsLedgered /\ StoreComplete

\* A worker without requests satisfies the invariant.
LEMMA InitWorker == Init => WorkerInv
<1> SUFFICES ASSUME Init PROVE WorkerInv
  OBVIOUS
<1> USE HashAssumption, DisconnectsAssumption DEF Init
<1>1. ToSet(store) = {} /\ IsInjective(store) /\ emitted \in Seq(Requests)
  BY DEF ToSet, IsInjective
<1>2. TypeOK
  BY DEF TypeOK
<1>3. Ledger!Written = {} /\ Audit!Written = {}
  BY DEF Ledger!Written, Audit!Written
<1>4. Stages /\ HashesKnown /\ NotYetStored
  BY <1>1 DEF Stages, HashesKnown, Known, NotYetStored, Unledgered, Ledgered,
              Unaudited
<1>5. LinksRooted
  BY <1>3 DEF LinksRooted, Ledger!Rooted, Audit!Rooted
<1>6. PublishedIsLedgered /\ StoreComplete
  BY <1>1, <1>3 DEF PublishedIsLedgered, StoreComplete
<1>7. QED
  BY <1>2, <1>4, <1>5, <1>6 DEF WorkerInv

\* Every reachable state satisfies the invariant.
LEMMA AlwaysWorkerInv == Spec => []WorkerInv
<1>1. WorkerInv /\ [Next]_vars => WorkerInv'
  BY NextType, NextStages, NextHashes, NextRooted, NextPublished, NextStore
  DEF WorkerInv
<1>2. QED
  BY InitWorker, <1>1, PTL DEF Spec

\* The worker's fields and the requests' states keep their types (lib.rs:68-99).
THEOREM TypeCorrect == Spec => []TypeOK
<1>1. WorkerInv => TypeOK
  BY DEF WorkerInv
<1>2. QED
  BY <1>1, AlwaysWorkerInv, PTL

\* Whatever requests interleave, both chains lead back to the genesis hash
\* (lib.rs:184-204, 267-291).
THEOREM ChainsRooted == Spec => []LinksRooted
<1>1. WorkerInv => LinksRooted
  BY DEF WorkerInv
<1>2. QED
  BY <1>1, AlwaysWorkerInv, PTL

\* Ledger, pull request and store tell one story: nothing is published without
\* its ledger entry, an error answer means that nothing was recorded, and the
\* store loses no event but those of dropped requests (lib.rs:131-294).
THEOREM TrailComplete == Spec => []AuditTrail
<1>1. ASSUME WorkerInv PROVE RefusedLeavesNoTrace
  BY <1>1
  DEF WorkerInv, RefusedLeavesNoTrace, Stages, Unledgered, Unaudited,
      PublishedIsLedgered, StoreComplete, Ledger!Written, Audit!Written
<1>2. WorkerInv => AuditTrail
  BY <1>1 DEF WorkerInv, AuditTrail
<1>3. QED
  BY <1>2, AlwaysWorkerInv, PTL

-----------------------------------------------------------------------------
(* Who can fork a chain.                                                   *)

\* Requests in flight have met, and meeting is mutual.
MetInFlight ==
  /\ \A q, r \in InFlight : q # r => q \in met[r]
  /\ \A q, r \in Requests : q \in met[r] => r \in met[q]

\* Nothing follows a head yet.
HeadsFollowNothing ==
  \A q \in Requests : ledger[q] # prev_hash /\ audit[q] # audit_prev_hash

\* What a request that read the head h knows of a chain: h is still the head,
\* or others came in between; and it has met everybody who is chained to h.
Reader(r, h, head, link) ==
  /\ h = head \/ met[r] # {}
  /\ \A q \in Requests : link[q] = h => q \in met[r]

Readers ==
  \A r \in Requests :
    /\ pc[r] = "linking" => Reader(r, seen[r], prev_hash, ledger)
    /\ pc[r] = "signing" => Reader(r, seen[r], audit_prev_hash, audit)

ForkInv == MetInFlight /\ HeadsFollowNothing /\ Readers /\ ForksOverlapped

\* The lists of those one has met only grow, and get the newcomer.
LEMMA NextMet ==
  TypeOK /\ MetInFlight /\ [Next]_vars
    => MetInFlight' /\ \A r \in Requests : met[r] \subseteq met'[r]
<1> SUFFICES ASSUME TypeOK, MetInFlight, [Next]_vars
             PROVE  /\ MetInFlight'
                    /\ \A r \in Requests : met[r] \subseteq met'[r]
  OBVIOUS
<1>1. ASSUME NEW r \in Requests, Start(r)
      PROVE  MetInFlight' /\ \A q \in Requests : met[q] \subseteq met'[q]
  <2>1. /\ r \notin InFlight /\ InFlight' = InFlight \cup {r}
        /\ InFlight \subseteq Requests
    BY <1>1 DEF Start, Goto, InFlight, Busy, TypeOK
  <2>2. /\ met'[r] = met[r] \cup InFlight
        /\ \A q \in InFlight : met'[q] = met[q] \cup {r}
        /\ \A q \in Requests \ (InFlight \cup {r}) : met'[q] = met[q]
    BY <1>1, <2>1 DEF Start
  <2>3. ASSUME NEW q \in Requests, NEW p \in Requests
        PROVE  q \in met'[p] <=> \/ q \in met[p]
                                 \/ p = r /\ q \in InFlight
                                 \/ q = r /\ p \in InFlight
    <3>1. CASE p = r
      BY <3>1, <2>1, <2>2
    <3>2. CASE p \in InFlight
      BY <3>2, <2>1, <2>2
    <3>3. CASE p \in Requests \ (InFlight \cup {r})
      BY <3>3, <2>1, <2>2
    <3>4. QED
      BY <3>1, <3>2, <3>3
  <2>4. \A q \in Requests : met[q] \subseteq met'[q]
    BY <2>1, <2>2
  <2>5. MetInFlight'
    BY <2>1, <2>3 DEF MetInFlight
  <2>6. QED
    BY <2>4, <2>5
<1> USE DEF TypeOK, MetInFlight, InFlight
<1>2. CASE met' = met /\ InFlight' \subseteq InFlight
  BY <1>2
<1>3. ASSUME NEW r \in Requests, Work(r) \/ Disconnect(r)
      PROVE  met' = met /\ InFlight' \subseteq InFlight
  BY <1>3 DEF Work, Fail, Review, ReadLedgerHead, AdvanceLedger, Comment, Label,
              ReadAuditHead, AdvanceAudit, Store, Disconnect, Suspended
<1>4. ASSUME UNCHANGED vars PROVE met' = met /\ InFlight' \subseteq InFlight
  BY <1>4 DEF vars
<1>5. QED
  BY <1>1, <1>2, <1>3, <1>4 DEF Next

\* Every step keeps forks among requests that met.
LEMMA NextFork ==
  TypeOK /\ Stages /\ HashesKnown /\ ForkInv /\ [Next]_vars => ForkInv'
<1> SUFFICES ASSUME TypeOK, Stages, HashesKnown, ForkInv, [Next]_vars
             PROVE  ForkInv'
  OBVIOUS
<1> USE DEF ForkInv
<1>1. MetInFlight' /\ \A r \in Requests : met[r] \subseteq met'[r]
  BY NextMet
<1>2. ASSUME NEW r \in Requests,
             \/ Start(r) \/ Fail(r) \/ Review(r) \/ Comment(r) \/ Label(r)
             \/ Store(r) \/ Disconnect(r)
      PROVE  HeadsFollowNothing' /\ Readers' /\ ForksOverlapped'
  <2>1. UNCHANGED <<seen, prev_hash, ledger, audit_prev_hash, audit>>
    BY <1>2 DEF Start, Fail, Review, Comment, Label, Store, Disconnect
  <2>2. \A q \in Requests : pc'[q] \in {"linking", "signing"} => pc'[q] = pc[q]
    BY <1>2 DEF TypeOK, Start, Fail, Review, Comment, Label, Store, Disconnect
  <2>3. HeadsFollowNothing' /\ ForksOverlapped'
    BY <1>1, <2>1 DEF HeadsFollowNothing, ForksOverlapped
  <2>4. Readers'
    BY <1>1, <2>1, <2>2 DEF Readers, Reader
  <2>5. QED
    BY <2>3, <2>4
<1>3. ASSUME NEW r \in Requests, ReadLedgerHead(r) \/ ReadAuditHead(r)
      PROVE  HeadsFollowNothing' /\ Readers' /\ ForksOverlapped'
  <2>1. UNCHANGED <<prev_hash, ledger, audit_prev_hash, audit, met>>
    BY <1>3 DEF ReadLedgerHead, ReadAuditHead
  <2>2. /\ pc'[r] = "linking" => seen'[r] = prev_hash
        /\ pc'[r] = "signing" => seen'[r] = audit_prev_hash
        /\ \A q \in Requests : q # r => pc'[q] = pc[q] /\ seen'[q] = seen[q]
    BY <1>3 DEF TypeOK, ReadLedgerHead, ReadAuditHead
  <2>3. HeadsFollowNothing' /\ ForksOverlapped'
    BY <2>1 DEF HeadsFollowNothing, ForksOverlapped
  <2>4. Readers'
    BY <2>1, <2>2 DEF Readers, Reader, HeadsFollowNothing
  <2>5. QED
    BY <2>3, <2>4
<1>4. ASSUME NEW r \in Requests, AdvanceLedger(r)
      PROVE  HeadsFollowNothing' /\ Readers' /\ ForksOverlapped'
  <2>1. /\ r \in InFlight /\ pc[r] = "linking" /\ pc'[r] = "comment"
        /\ ledger' = [ledger EXCEPT ![r] = seen[r]] /\ prev_hash' = r
        /\ UNCHANGED <<seen, audit_prev_hash, audit, met>>
        /\ \A q \in Requests : q # r => pc'[q] = pc[q]
    BY <1>4 DEF AdvanceLedger, TypeOK, InFlight
  <2>2. /\ ledger[r] = None /\ Known(ledger, seen[r])
        /\ \A q \in Requests : ledger[q] # None => Known(ledger, ledger[q])
        /\ Reader(r, seen[r], prev_hash, ledger)
    BY <2>1 DEF Stages, Unledgered, HashesKnown, Readers
  <2>3. ledger'[r] = seen[r] /\ \A q \in Requests : q # r => ledger'[q] = ledger[q]
    BY <2>1 DEF TypeOK
  <2>4. \A q \in Requests : ledger'[q] # r
    BY <2>2, <2>3, HashAssumption DEF Known
  <2>5. \A q \in Requests :
          q # r /\ ledger'[q] = seen[r] => q \in met[r] /\ r \in met[q]
    BY <2>2, <2>3 DEF Reader, MetInFlight
  <2>6. HeadsFollowNothing' /\ ForksOverlapped'
    BY <2>1, <2>3, <2>4, <2>5 DEF HeadsFollowNothing, ForksOverlapped
  <2>7. ASSUME NEW q \in InFlight, q # r
        PROVE  q \in Requests /\ r \in met[q]
    BY <2>1, <2>7 DEF MetInFlight, InFlight
  <2>8. ASSUME NEW q \in Requests, q # r, pc[q] = "linking"
        PROVE  Reader(q, seen[q], r, ledger')
    BY <2>3, <2>7, <2>8 DEF Readers, Reader, InFlight, Busy
  <2>9. Readers'
    BY <2>1, <2>8 DEF Readers, Reader
  <2>10. QED
    BY <2>6, <2>9
<1>5. ASSUME NEW r \in Requests, AdvanceAudit(r)
      PROVE  HeadsFollowNothing' /\ Readers' /\ ForksOverlapped'
  <2>1. /\ r \in InFlight /\ pc[r] = "signing" /\ pc'[r] = "storing"
        /\ audit' = [audit EXCEPT ![r] = seen[r]] /\ audit_prev_hash' = r
        /\ UNCHANGED <<seen, prev_hash, ledger, met>>
        /\ \A q \in Requests : q # r => pc'[q] = pc[q]
    BY <1>5 DEF AdvanceAudit, TypeOK, InFlight
  <2>2. /\ audit[r] = None /\ Known(audit, seen[r])
        /\ \A q \in Requests : audit[q] # None => Known(audit, audit[q])
        /\ Reader(r, seen[r], audit_prev_hash, audit)
    BY <2>1 DEF Stages, Unaudited, HashesKnown, Readers
  <2>3. audit'[r] = seen[r] /\ \A q \in Requests : q # r => audit'[q] = audit[q]
    BY <2>1 DEF TypeOK
  <2>4. \A q \in Requests : audit'[q] # r
    BY <2>2, <2>3, HashAssumption DEF Known
  <2>5. \A q \in Requests :
          q # r /\ audit'[q] = seen[r] => q \in met[r] /\ r \in met[q]
    BY <2>2, <2>3 DEF Reader, MetInFlight
  <2>6. HeadsFollowNothing' /\ ForksOverlapped'
    BY <2>1, <2>3, <2>4, <2>5 DEF HeadsFollowNothing, ForksOverlapped
  <2>7. ASSUME NEW q \in InFlight, q # r
        PROVE  q \in Requests /\ r \in met[q]
    BY <2>1, <2>7 DEF MetInFlight, InFlight
  <2>8. ASSUME NEW q \in Requests, q # r, pc[q] = "signing"
        PROVE  Reader(q, seen[q], r, audit')
    BY <2>3, <2>7, <2>8 DEF Readers, Reader, InFlight, Busy
  <2>9. Readers'
    BY <2>1, <2>8 DEF Readers, Reader
  <2>10. QED
    BY <2>6, <2>9
<1>6. CASE UNCHANGED vars
  BY <1>6 DEF vars, MetInFlight, InFlight, HeadsFollowNothing, Readers, Reader,
              ForksOverlapped
<1>7. QED
  BY <1>1, <1>2, <1>3, <1>4, <1>5, <1>6 DEF Next, Work

\* Every reachable state satisfies it.
LEMMA AlwaysForkInv == Spec => []ForkInv
<1>1. Init => ForkInv
  BY HashAssumption
  DEF Init, ForkInv, MetInFlight, InFlight, HeadsFollowNothing, Readers,
      ForksOverlapped
<1>2. WorkerInv => TypeOK /\ Stages /\ HashesKnown
  BY DEF WorkerInv
<1>3. QED
  BY <1>1, <1>2, NextFork, AlwaysWorkerInv, PTL DEF Spec

\* Entries that claim one predecessor are of requests that were in flight
\* together: the two locks of a head let a chain fork no further
\* (lib.rs:184-204, 267-291).
THEOREM ForksNeedOverlap == Spec => []ForksOverlapped
<1>1. ForkInv => ForksOverlapped
  BY DEF ForkInv
<1>2. QED
  BY <1>1, AlwaysForkInv, PTL

\* As long as requests come one at a time, ledger and audit log go on as the
\* hash chains that the worker's comments describe (lib.rs:72-79, 86-90).
THEOREM ApartRequestsChain == Spec => ChainsWhenApart
<1>1. ASSUME WorkerInv, ForkInv, [Next]_vars, Apart'
      PROVE  /\ [Ledger!Next]_<<prev_hash, ledger>>
             /\ [Audit!Next]_<<audit_prev_hash, audit>>
  <2>1. CASE UNCHANGED <<ledgerVars, audit_prev_hash, audit>>
    BY <2>1
  <2>2. ASSUME NEW r \in Requests, AdvanceLedger(r)
        PROVE  Ledger!Next /\ UNCHANGED <<audit_prev_hash, audit>>
    <3>1. seen[r] = prev_hash /\ ledger[r] = None
      BY <1>1, <2>2
      DEF AdvanceLedger, ForkInv, Readers, Reader, Apart, WorkerInv, Stages,
          Unledgered
    <3>2. QED
      BY <2>2, <3>1 DEF AdvanceLedger, Ledger!Next, Ledger!Extend
  <2>3. ASSUME NEW r \in Requests, AdvanceAudit(r)
        PROVE  Audit!Next /\ UNCHANGED <<prev_hash, ledger>>
    <3>1. seen[r] = audit_prev_hash /\ audit[r] = None
      BY <1>1, <2>3
      DEF AdvanceAudit, ForkInv, Readers, Reader, Apart, WorkerInv, Stages,
          Unaudited, Unledgered
    <3>2. QED
      BY <2>3, <3>1 DEF AdvanceAudit, Audit!Next, Audit!Extend
  <2>4. QED
    BY <1>1, <2>1, <2>2, <2>3
    DEF Next, Work, vars, Start, Fail, Review, ReadLedgerHead, Comment, Label,
        ReadAuditHead, Store, Disconnect
<1>2. QED
  BY <1>1, AlwaysWorkerInv, AlwaysForkInv, PTL DEF Spec, ChainsWhenApart

-----------------------------------------------------------------------------
(* What the answers say of the ledger.                                     *)

\* The entry that the last answer told of.
LastReceipt == IF store = <<>> THEN Genesis ELSE store[Len(store)]

\* What the i-th answer follows on.
ReceiptBefore(i) == IF i = 1 THEN Genesis ELSE store[i - 1]

\* Of requests that come one at a time, the one in flight has the head, or the
\* last answer's entry or a lost one is the head still; and each entry follows
\* on such a head.
InOrder ==
  /\ prev_hash \in {LastReceipt} \cup Lost \cup InFlight
  /\ \A r \in InFlight : ledger[r] # None =>
       prev_hash = r /\ ledger[r] \in {LastReceipt} \cup Lost
  /\ \A i \in DOMAIN store : ledger[store[i]] \in {ReceiptBefore(i)} \cup Lost

StoredIsDone == \A i \in DOMAIN store : pc[store[i]] = "done"

ReceiptInv == StoredIsDone /\ (Apart => InOrder)

\* A request that is alone saw the head that is there.
LEMMA AloneReads ==
  ASSUME TypeOK, ForkInv, Apart, NEW r \in Requests, pc[r] = "linking"
  PROVE  seen[r] = prev_hash /\ InFlight = {r}
BY DEF ForkInv, Readers, Reader, MetInFlight, Apart, InFlight, TypeOK

\* Only a finished request's answer is given.
LEMMA NextDone == TypeOK /\ StoredIsDone /\ [Next]_vars => StoredIsDone'
<1> SUFFICES ASSUME TypeOK, StoredIsDone, [Next]_vars PROVE StoredIsDone'
  OBVIOUS
<1> USE DEF TypeOK, StoredIsDone
<1>1. ASSUME NEW r \in Requests, Store(r) PROVE StoredIsDone'
  <2>1. store' = Append(store, r) /\ pc' = [pc EXCEPT ![r] = "done"]
    BY <1>1 DEF Store
  <2>2. QED
    BY <2>1
<1>2. ASSUME UNCHANGED store,
             \A q \in Requests : pc[q] = "done" => pc'[q] = "done"
      PROVE  StoredIsDone'
  <2>1. \A i \in DOMAIN store : store[i] \in Requests
    OBVIOUS
  <2>2. QED
    BY <1>2, <2>1
<1>3. ASSUME NEW r \in Requests,
             \/ Start(r) \/ Fail(r) \/ Review(r) \/ ReadLedgerHead(r)
             \/ AdvanceLedger(r) \/ Comment(r) \/ Label(r)
             \/ ReadAuditHead(r) \/ AdvanceAudit(r) \/ Disconnect(r)
      PROVE  /\ UNCHANGED store
             /\ \A q \in Requests : pc[q] = "done" => pc'[q] = "done"
  BY <1>3 DEF Start, Fail, Review, ReadLedgerHead, AdvanceLedger, Comment,
              Label, ReadAuditHead, AdvanceAudit, Disconnect, Suspended
<1>4. CASE UNCHANGED vars
  BY <1>4 DEF vars
<1>5. QED
  BY <1>1, <1>2, <1>3, <1>4 DEF Next, Work

\* Alone, a request puts one entry on the chain of those answered or lost.
LEMMA NextInOrder ==
  TypeOK /\ Stages /\ HashesKnown /\ ForkInv /\ ReceiptInv /\ [Next]_vars
    => (Apart' => InOrder')
<1> SUFFICES ASSUME TypeOK, Stages, HashesKnown, ForkInv, ReceiptInv,
                    [Next]_vars, Apart'
             PROVE  InOrder'
  OBVIOUS
<1>1. Apart /\ InOrder /\ StoredIsDone
  BY NextMet DEF ForkInv, Apart, ReceiptInv, TypeOK
<1>2. \A q, r \in InFlight : q = r
  BY <1>1 DEF ForkInv, MetInFlight, Apart, InFlight
<1>3. /\ InFlight \subseteq Requests
      /\ \A q \in Requests : q \in InFlight <=> pc[q] \in Busy
      /\ \A q \in Requests : q \in Lost <=> pc[q] = "dropped"
  BY DEF InFlight, Lost
<1>4. \A i \in DOMAIN store : store[i] \in Requests
  BY DEF TypeOK
<1>5. ASSUME UNCHANGED <<store, ledger, prev_hash>>,
             InFlight' \subseteq InFlight, Lost \subseteq Lost',
             prev_hash \in InFlight => prev_hash \in InFlight' \cup Lost'
      PROVE  InOrder'
  BY <1>1, <1>5 DEF InOrder, LastReceipt, ReceiptBefore
<1>6. ASSUME NEW r \in Requests, Start(r) PROVE InOrder'
  <2>1. met'[r] = met[r] \cup InFlight
    BY <1>6 DEF Start, TypeOK
  <2>2. InFlight = {} /\ InFlight' \subseteq {r} /\ Lost' = Lost
    BY <1>6, <2>1 DEF Apart, Start, InFlight, Lost, TypeOK
  <2>3. ledger[r] = None /\ UNCHANGED <<store, ledger, prev_hash>>
    BY <1>6 DEF Start, Stages, Unledgered
  <2>4. QED
    BY <1>1, <2>2, <2>3 DEF InOrder, LastReceipt, ReceiptBefore
<1>7. ASSUME NEW r \in Requests, Fail(r) PROVE InOrder'
  <2>1. /\ UNCHANGED <<store, ledger, prev_hash>>
        /\ InFlight' \subseteq InFlight /\ Lost \subseteq Lost'
        /\ \A q \in InFlight : q # r => q \in InFlight'
    BY <1>7 DEF Fail, InFlight, Lost, TypeOK
  <2>2. prev_hash # r
    BY <1>7, HashAssumption DEF Fail, Stages, Unledgered, HashesKnown, Known
  <2>3. QED
    BY <1>5, <2>1, <2>2
<1>8. ASSUME NEW r \in Requests,
             \/ Review(r) \/ ReadLedgerHead(r) \/ Comment(r) \/ Label(r)
             \/ ReadAuditHead(r) \/ AdvanceAudit(r)
      PROVE  InOrder'
  <2>1. /\ UNCHANGED <<store, ledger, prev_hash>>
        /\ InFlight' = InFlight /\ Lost' = Lost
    BY <1>8 DEF Review, ReadLedgerHead, Comment, Label, ReadAuditHead,
                AdvanceAudit, InFlight, Lost, TypeOK
  <2>2. QED
    BY <1>5, <2>1
<1>9. ASSUME NEW r \in Requests, AdvanceLedger(r) PROVE InOrder'
  <2>1. /\ pc[r] = "linking" /\ r \in InFlight
        /\ ledger' = [ledger EXCEPT ![r] = seen[r]] /\ prev_hash' = r
        /\ store' = store /\ InFlight' = InFlight /\ Lost' = Lost
    BY <1>9 DEF AdvanceLedger, InFlight, Lost, TypeOK
  <2>2. seen[r] = prev_hash /\ InFlight = {r} /\ ledger[r] = None
    BY <1>1, <2>1, AloneReads DEF Stages, Unledgered
  <2>3. prev_hash # r
    BY <2>2, HashAssumption DEF HashesKnown, Known
  <2>4. ledger'[r] = prev_hash /\ \A q \in Requests : q # r => ledger'[q] = ledger[q]
    BY <2>1, <2>2 DEF TypeOK
  <2>5. prev_hash \in {LastReceipt} \cup Lost
    BY <1>1, <2>2, <2>3 DEF InOrder
  <2>6. \A i \in DOMAIN store : store[i] # r
    BY <1>1, <2>1 DEF StoredIsDone
  <2>7. LastReceipt' = LastReceipt
    BY <2>1 DEF LastReceipt
  <2>8. \A i \in DOMAIN store : ledger'[store[i]] \in {ReceiptBefore(i)} \cup Lost
    BY <1>1, <1>4, <2>4, <2>6 DEF InOrder
  <2>9. QED
    BY <2>1, <2>2, <2>4, <2>5, <2>7, <2>8 DEF InOrder, ReceiptBefore
<1>10. ASSUME NEW r \in Requests, Store(r) PROVE InOrder'
  <2>1. /\ pc[r] = "storing" /\ r \in InFlight
        /\ store' = Append(store, r) /\ UNCHANGED <<ledger, prev_hash>>
        /\ InFlight' \subseteq InFlight \ {r} /\ Lost' = Lost
    BY <1>10 DEF Store, InFlight, Lost, TypeOK
  <2>2. InFlight' = {}
    BY <1>2, <2>1
  <2>3. prev_hash = r /\ ledger[r] \in {LastReceipt} \cup Lost
    BY <1>1, <2>1 DEF InOrder, Stages, Ledgered
  <2>4. PICK n \in Nat : n = Len(store)
    BY DEF TypeOK
  <2>5. /\ DOMAIN store = 1..n
        /\ Len(store') = n + 1 /\ DOMAIN store' = 1..(n + 1)
        /\ \A i \in 1..n : store'[i] = store[i]
        /\ store'[n + 1] = r
        /\ LastReceipt = IF n = 0 THEN Genesis ELSE store[n]
    BY <2>1, <2>4 DEF TypeOK, LastReceipt
  <2>6. LastReceipt' = r
    BY <2>1, <2>5 DEF LastReceipt
  <2>7. ReceiptBefore(n + 1)' = LastReceipt
    BY <2>5 DEF ReceiptBefore
  <2>8. ASSUME NEW i \in DOMAIN store'
        PROVE  ledger'[store'[i]] \in {ReceiptBefore(i)'} \cup Lost'
    <3>1. CASE i \in 1..n
      <4>1. ReceiptBefore(i)' = ReceiptBefore(i)
        BY <2>5, <3>1 DEF ReceiptBefore
      <4>2. QED
        BY <1>1, <2>1, <2>5, <3>1, <4>1 DEF InOrder
    <3>2. CASE i = n + 1
      BY <2>1, <2>3, <2>5, <2>7, <3>2
    <3>3. QED
      BY <2>5, <3>1, <3>2
  <2>9. QED
    BY <2>1, <2>2, <2>3, <2>6, <2>8 DEF InOrder
<1>11. ASSUME NEW r \in Requests, Disconnect(r) PROVE InOrder'
  <2>1. /\ UNCHANGED <<store, ledger, prev_hash>>
        /\ InFlight' \subseteq InFlight /\ Lost' = Lost \cup {r}
        /\ \A q \in InFlight : q # r => q \in InFlight'
    BY <1>11 DEF Disconnect, Suspended, InFlight, Lost, TypeOK
  <2>2. QED
    BY <1>5, <2>1
<1>12. CASE UNCHANGED vars
  BY <1>5, <1>12 DEF vars, InFlight, Lost
<1>13. QED
  BY <1>6, <1>7, <1>8, <1>9, <1>10, <1>11, <1>12 DEF Next, Work

\* Every reachable state satisfies it.
LEMMA AlwaysReceiptInv == Spec => []ReceiptInv
<1>1. Init => ReceiptInv
  BY HashAssumption
  DEF Init, ReceiptInv, StoredIsDone, InOrder, LastReceipt, InFlight, Lost
<1>2. ASSUME WorkerInv, ForkInv, ReceiptInv, [Next]_vars PROVE ReceiptInv'
  BY <1>2, NextDone, NextInOrder DEF WorkerInv, ReceiptInv
<1>3. QED
  BY <1>1, <1>2, AlwaysWorkerInv, AlwaysForkInv, PTL DEF Spec

\* The ledger can be put together from the answers, up to what was lost with
\* its client, and without such losses in their order, if requests came one at
\* a time (lib.rs:206-223, 292-311).
THEOREM LedgerFromAnswers == Spec => []ReceiptsChain
<1>1. ASSUME WorkerInv, ReceiptInv PROVE ReceiptsChain
  <2> SUFFICES ASSUME NEW i \in DOMAIN store
               PROVE  /\ ledger[store[i]] \in {Genesis} \cup {r \in Requests :
                           pc[r] \in Busy \cup {"done", "dropped"}}
                      /\ Apart /\ ledger[store[i]] \notin Lost =>
                           ledger[store[i]] = ReceiptBefore(i)
    <3>1. DOMAIN Answers = DOMAIN store
      BY DEF Answers
    <3>2. \A i \in DOMAIN store :
            /\ Answers[i].review.prev_ledger_hash = ledger[store[i]]
            /\ Answers[i].review.ledger_signature = store[i]
      BY DEF Answers, AnalyzeResponse, Receipt
    <3>3. \A i \in DOMAIN store : i # 1 => i - 1 \in DOMAIN store
      BY <1>1 DEF WorkerInv, TypeOK
    <3>4. QED
      BY <3>1, <3>2, <3>3 DEF ReceiptsChain, ReceiptBefore
  <2>1. store[i] \in Requests /\ pc[store[i]] = "done"
    BY <1>1 DEF WorkerInv, TypeOK, ReceiptInv, StoredIsDone
  <2>2. ledger[store[i]] # None
    BY <1>1, <2>1 DEF WorkerInv, Stages, Ledgered
  <2>3. Known(ledger, ledger[store[i]])
    BY <1>1, <2>1, <2>2 DEF WorkerInv, HashesKnown
  <2>4. \A r \in Requests : ledger[r] # None =>
          pc[r] \in Busy \cup {"done", "dropped"}
    BY <1>1 DEF WorkerInv, TypeOK, Stages, Unledgered
  <2>5. Apart => ledger[store[i]] \in {ReceiptBefore(i)} \cup Lost
    BY <1>1 DEF ReceiptInv, InOrder
  <2>6. QED
    BY <2>3, <2>4, <2>5 DEF Known
<1>2. QED
  BY <1>1, AlwaysWorkerInv, AlwaysReceiptInv, PTL

-----------------------------------------------------------------------------
(* What an export shows of the audit chain.                                *)

LastEmitted == IF emitted = <<>> THEN Genesis ELSE emitted[Len(emitted)]

\* What the event stamped t follows on.
EventBefore(t) == IF t = 1 THEN Genesis ELSE emitted[t - 1]

\* Every audit event is emitted, and once.
EmittedOnce ==
  /\ \A r \in Requests : audit[r] # None => \E t \in DOMAIN emitted : emitted[t] = r
  /\ \A t \in DOMAIN emitted : audit[emitted[t]] # None
  /\ \A t, u \in DOMAIN emitted : emitted[t] = emitted[u] => t = u

\* Of requests that come one at a time, the one in flight emitted last, if it
\* did; each event follows on the one emitted before it; and the events arrive
\* at the store in the order of their stamps.
InTime ==
  /\ audit_prev_hash = LastEmitted
  /\ \A t \in DOMAIN emitted : audit[emitted[t]] = EventBefore(t)
  /\ \A r \in InFlight : audit[r] # None => emitted # <<>> /\ r = LastEmitted
  /\ \A i, j \in DOMAIN store : \A t, u \in DOMAIN emitted :
       i < j /\ emitted[t] = store[i] /\ emitted[u] = store[j] => t < u

\* As many requests were dropped as clients went away.
LossesCounted == IsFiniteSet(Lost) /\ Cardinality(Lost) = disconnects

ExportInv == EmittedOnce /\ (Apart => InTime) /\ LossesCounted

\* Only a leaving client makes a request dropped, and only that one.
LEMMA NextLosses ==
  TypeOK /\ LossesCounted /\ [Next]_vars => LossesCounted'
<1> SUFFICES ASSUME TypeOK, LossesCounted, [Next]_vars PROVE LossesCounted'
  OBVIOUS
<1>1. CASE Lost' = Lost /\ UNCHANGED disconnects
  BY <1>1 DEF LossesCounted
<1>2. ASSUME NEW r \in Requests, Disconnect(r) PROVE LossesCounted'
  <2>1. Lost' = Lost \cup {r} /\ r \notin Lost /\ disconnects' = disconnects + 1
    BY <1>2 DEF Disconnect, Suspended, Lost, TypeOK
  <2>2. IsFiniteSet(Lost) /\ Cardinality(Lost) = disconnects
    BY DEF LossesCounted
  <2>3. IsFiniteSet(Lost \cup {r}) /\ Cardinality(Lost \cup {r}) = disconnects + 1
    BY <2>1, <2>2, FS_AddElement
  <2>4. QED
    BY <2>1, <2>3 DEF LossesCounted
<1>3. ASSUME NEW r \in Requests, Start(r) \/ Work(r)
      PROVE  Lost' = Lost /\ UNCHANGED disconnects
  BY <1>3 DEF Work, Start, Fail, Review, ReadLedgerHead, AdvanceLedger, Comment,
              Label, ReadAuditHead, AdvanceAudit, Store, Lost, TypeOK
<1>4. CASE UNCHANGED vars
  BY <1>1, <1>4 DEF vars, Lost
<1>5. QED
  BY <1>1, <1>2, <1>3, <1>4 DEF Next

\* An event is stamped when it is linked.
LEMMA NextEmitted ==
  TypeOK /\ Stages /\ HashesKnown /\ EmittedOnce /\ [Next]_vars => EmittedOnce'
<1> SUFFICES ASSUME TypeOK, Stages, HashesKnown, EmittedOnce, [Next]_vars
             PROVE  EmittedOnce'
  OBVIOUS
<1>1. CASE UNCHANGED <<audit, emitted>>
  BY <1>1 DEF EmittedOnce
<1>2. ASSUME NEW r \in Requests, AdvanceAudit(r) PROVE EmittedOnce'
  <2>1. /\ audit[r] = None /\ seen[r] # None
        /\ audit' = [audit EXCEPT ![r] = seen[r]] /\ emitted' = Append(emitted, r)
    BY <1>2, HashAssumption
    DEF AdvanceAudit, Stages, Unaudited, HashesKnown, Known
  <2>2. audit'[r] # None /\ \A q \in Requests : q # r => audit'[q] = audit[q]
    BY <2>1 DEF TypeOK
  <2>3. PICK n \in Nat : n = Len(emitted)
    BY DEF TypeOK
  <2>4. /\ DOMAIN emitted = 1..n /\ DOMAIN emitted' = 1..(n + 1)
        /\ emitted'[n + 1] = r
        /\ \A t \in 1..n : emitted'[t] = emitted[t] /\ emitted[t] \in Requests
    BY <2>1, <2>3 DEF TypeOK
  <2>5. \A t \in 1..n : emitted[t] # r
    BY <2>1, <2>4 DEF EmittedOnce
  <2>6. \A q \in Requests : audit'[q] # None => \E t \in 1..(n + 1) : emitted'[t] = q
    <3>1. ASSUME NEW q \in Requests, audit'[q] # None
          PROVE  \E t \in 1..(n + 1) : emitted'[t] = q
      <4>1. CASE q = r
        BY <2>3, <2>4, <4>1
      <4>2. CASE q # r
        <5>1. PICK t \in 1..n : emitted[t] = q
          BY <2>2, <2>4, <3>1, <4>2 DEF EmittedOnce
        <5>2. QED
          BY <2>3, <2>4, <5>1
      <4>3. QED
        BY <4>1, <4>2
    <3>2. QED
      BY <3>1
  <2>7. \A t \in 1..(n + 1) : audit'[emitted'[t]] # None
    <3>1. \A t \in 1..n : audit[emitted[t]] # None
      BY <2>4 DEF EmittedOnce
    <3>2. \A t \in 1..(n + 1) : t = n + 1 \/ t \in 1..n
      BY <2>3
    <3>3. QED
      BY <2>2, <2>4, <2>5, <3>1, <3>2
  <2>8. \A t, u \in 1..(n + 1) : emitted'[t] = emitted'[u] => t = u
    <3>1. \A t, u \in 1..n : emitted[t] = emitted[u] => t = u
      BY <2>4 DEF EmittedOnce
    <3>2. \A t \in 1..(n + 1) : t = n + 1 \/ t \in 1..n
      BY <2>3
    <3>3. QED
      BY <2>4, <2>5, <3>1, <3>2
  <2>9. QED
    BY <2>4, <2>6, <2>7, <2>8 DEF EmittedOnce
<1>3. QED
  BY <1>1, <1>2
  DEF Next, Work, vars, Start, Fail, Review, ReadLedgerHead, AdvanceLedger,
      Comment, Label, ReadAuditHead, Store, Disconnect

\* Alone, a request puts one event on the chain and stores it before another
\* puts one.
LEMMA NextInTime ==
  TypeOK /\ Stages /\ HashesKnown /\ ForkInv /\ StoredIsDone /\ EmittedOnce
    /\ (Apart => InTime) /\ [Next]_vars => (Apart' => InTime')
<1> SUFFICES ASSUME TypeOK, Stages, HashesKnown, ForkInv, StoredIsDone, EmittedOnce,
                    Apart => InTime, [Next]_vars, Apart'
             PROVE  InTime'
  OBVIOUS
<1>1. Apart /\ InTime
  BY NextMet DEF ForkInv, Apart, TypeOK
<1>2. \A q, r \in InFlight : q = r
  BY <1>1 DEF ForkInv, MetInFlight, Apart, InFlight
<1>3. \A q \in Requests : q \in InFlight <=> pc[q] \in Busy
  BY DEF InFlight
<1>4. ASSUME UNCHANGED <<audit_prev_hash, audit, emitted, store>>,
             \A q \in InFlight' : q \in InFlight \/ audit[q] = None
      PROVE  InTime'
  <2>1. LastEmitted' = LastEmitted /\ \A t : EventBefore(t)' = EventBefore(t)
    BY <1>4 DEF LastEmitted, EventBefore
  <2>2. QED
    BY <1>1, <1>4, <2>1 DEF InTime
<1>5. ASSUME NEW r \in Requests, Start(r) PROVE InTime'
  <2>1. /\ audit[r] = None /\ InFlight' = InFlight \cup {r}
        /\ UNCHANGED <<audit_prev_hash, audit, emitted, store>>
    BY <1>5 DEF Start, Stages, Unaudited, Unledgered, InFlight, TypeOK
  <2>2. QED
    BY <1>4, <2>1
<1>6. ASSUME NEW r \in Requests,
             \/ Fail(r) \/ Review(r) \/ ReadLedgerHead(r) \/ AdvanceLedger(r)
             \/ Comment(r) \/ Label(r) \/ ReadAuditHead(r) \/ Disconnect(r)
      PROVE  InTime'
  <2>1. /\ InFlight' \subseteq InFlight
        /\ UNCHANGED <<audit_prev_hash, audit, emitted, store>>
    BY <1>6 DEF Fail, Review, ReadLedgerHead, AdvanceLedger, Comment, Label,
                ReadAuditHead, Disconnect, Suspended, InFlight, TypeOK
  <2>2. QED
    BY <1>4, <2>1
<1>7. ASSUME NEW r \in Requests, AdvanceAudit(r) PROVE InTime'
  <2>1. /\ pc[r] = "signing" /\ r \in InFlight
        /\ audit' = [audit EXCEPT ![r] = seen[r]] /\ audit_prev_hash' = r
        /\ emitted' = Append(emitted, r)
        /\ store' = store /\ InFlight' = InFlight
    BY <1>7 DEF AdvanceAudit, InFlight, TypeOK
  <2>2. seen[r] = audit_prev_hash /\ audit[r] = None
    BY <1>1, <2>1 DEF ForkInv, Readers, Reader, Apart, Stages, Unaudited
  <2>3. audit'[r] = LastEmitted /\ \A q \in Requests : q # r => audit'[q] = audit[q]
    BY <1>1, <2>1, <2>2 DEF TypeOK, InTime
  <2>4. PICK n \in Nat : n = Len(emitted)
    BY DEF TypeOK
  <2>5. /\ DOMAIN emitted = 1..n /\ DOMAIN emitted' = 1..(n + 1)
        /\ Len(emitted') = n + 1 /\ emitted'[n + 1] = r /\ emitted' # <<>>
        /\ \A t \in 1..n : emitted'[t] = emitted[t] /\ emitted[t] \in Requests
        /\ LastEmitted = IF n = 0 THEN Genesis ELSE emitted[n]
    BY <2>1, <2>4 DEF TypeOK, LastEmitted
  <2>6. \A t \in 1..n : emitted[t] # r
    BY <2>2, <2>5 DEF EmittedOnce
  <2>7. LastEmitted' = r
    BY <2>5 DEF LastEmitted
  <2>8. ASSUME NEW t \in 1..(n + 1) PROVE audit'[emitted'[t]] = EventBefore(t)'
    <3>1. CASE t = n + 1
      BY <2>3, <2>4, <2>5, <3>1 DEF EventBefore
    <3>2. CASE t \in 1..n
      <4>1. EventBefore(t)' = EventBefore(t)
        BY <2>4, <2>5, <3>2 DEF EventBefore
      <4>2. QED
        BY <1>1, <2>3, <2>5, <2>6, <3>2, <4>1 DEF InTime
    <3>3. QED
      BY <2>4, <3>1, <3>2
  <2>9. \A q \in InFlight' : q = r
    BY <1>2, <2>1
  <2>10. \A i \in DOMAIN store : store[i] # r
    BY <2>1 DEF StoredIsDone
  <2>11. ASSUME NEW i \in DOMAIN store, NEW j \in DOMAIN store,
                NEW t \in 1..(n + 1), NEW u \in 1..(n + 1),
                i < j, emitted'[t] = store[i], emitted'[u] = store[j]
         PROVE  t < u
    <3>1. t \in 1..n /\ u \in 1..n
      BY <2>4, <2>5, <2>10, <2>11
    <3>2. QED
      BY <1>1, <2>5, <2>11, <3>1 DEF InTime
  <2>12. QED
    BY <2>1, <2>5, <2>7, <2>8, <2>9, <2>11 DEF InTime
<1>8. ASSUME NEW r \in Requests, Store(r) PROVE InTime'
  <2>1. /\ pc[r] = "storing" /\ r \in InFlight
        /\ store' = Append(store, r) /\ UNCHANGED <<audit_prev_hash, audit, emitted>>
        /\ InFlight' \subseteq InFlight
    BY <1>8 DEF Store, InFlight, TypeOK
  <2>2. emitted # <<>> /\ r = emitted[Len(emitted)]
    BY <1>1, <2>1 DEF Stages, InTime, LastEmitted
  <2>3. PICK n \in Nat : n = Len(store)
    BY DEF TypeOK
  <2>4. /\ DOMAIN store = 1..n /\ DOMAIN store' = 1..(n + 1)
        /\ store'[n + 1] = r
        /\ \A i \in 1..n : store'[i] = store[i] /\ store[i] # r
    <3>1. \A i \in DOMAIN store : store[i] # r
      BY <2>1 DEF StoredIsDone
    <3>2. /\ DOMAIN store = 1..n /\ DOMAIN store' = 1..(n + 1)
          /\ store'[n + 1] = r /\ \A i \in 1..n : store'[i] = store[i]
      BY <2>1, <2>3 DEF TypeOK
    <3>3. QED
      BY <3>1, <3>2
  <2>5. LastEmitted' = LastEmitted /\ \A t : EventBefore(t)' = EventBefore(t)
    BY <2>1 DEF LastEmitted, EventBefore
  <2>6. ASSUME NEW i \in 1..(n + 1), NEW j \in 1..(n + 1),
               NEW t \in DOMAIN emitted, NEW u \in DOMAIN emitted,
               i < j, emitted[t] = store'[i], emitted[u] = store'[j]
        PROVE  t < u
    <3>1. i \in 1..n
      BY <2>3, <2>6
    <3>2. CASE j \in 1..n
      BY <1>1, <2>4, <2>6, <3>1, <3>2 DEF InTime
    <3>3. CASE j = n + 1
      <4>1. Len(emitted) \in DOMAIN emitted /\ DOMAIN emitted = 1..Len(emitted)
            /\ Len(emitted) \in Nat
        BY <2>2 DEF TypeOK
      <4>2. u = Len(emitted)
        BY <2>2, <2>4, <2>6, <3>3, <4>1 DEF EmittedOnce
      <4>3. t # Len(emitted)
        BY <2>2, <2>4, <2>6, <3>1
      <4>4. QED
        BY <4>1, <4>2, <4>3
    <3>4. QED
      BY <2>3, <3>2, <3>3
  <2>7. QED
    BY <1>1, <2>1, <2>4, <2>5, <2>6 DEF InTime
<1>9. CASE UNCHANGED vars
  BY <1>4, <1>9 DEF vars, InFlight
<1>10. QED
  BY <1>5, <1>6, <1>7, <1>8, <1>9 DEF Next, Work

\* Every reachable state satisfies it.
LEMMA AlwaysExportInv == Spec => []ExportInv
<1>1. Init => ExportInv
  <2>1. SUFFICES ASSUME Init PROVE ExportInv
    OBVIOUS
  <2>2. Lost = {} /\ InFlight = {} /\ emitted = <<>> /\ store = <<>> /\ disconnects = 0
        /\ audit_prev_hash = Genesis /\ \A r \in Requests : audit[r] = None
    BY <2>1 DEF Init, Lost, InFlight
  <2>3. IsFiniteSet(Lost) /\ Cardinality(Lost) = 0
    BY <2>2, FS_EmptySet
  <2>4. QED
    BY <2>2, <2>3 DEF ExportInv, EmittedOnce, InTime, LastEmitted, LossesCounted
<1>2. ASSUME WorkerInv, ForkInv, ReceiptInv, ExportInv, [Next]_vars PROVE ExportInv'
  BY <1>2, NextEmitted, NextInTime, NextLosses DEF WorkerInv, ReceiptInv, ExportInv
<1>3. QED
  BY <1>1, <1>2, AlwaysWorkerInv, AlwaysForkInv, AlwaysReceiptInv, PTL DEF Spec

\* The stamp of an event is its place.
LEMMA StampIs ==
  ASSUME EmittedOnce, NEW t \in DOMAIN emitted
  PROVE  Stamp(emitted[t]) = t
BY DEF EmittedOnce, Stamp

Among(r, from, to) == Stamp(r) >= from /\ Stamp(r) <= to

\* What is found among the first n events of the store.
LEMMA FoundIs ==
  ASSUME TypeOK, NEW from, NEW to
  PROVE  \E found \in [0..Len(store) -> Seq(Requests)] :
           /\ QueryRange(from, to) = found[Len(store)]
           /\ found[0] = <<>>
           /\ \A n \in 1..Len(store) :
                found[n] = IF Among(store[n], from, to)
                             THEN Append(found[n - 1], store[n])
                           ELSE found[n - 1]
<1> DEFINE N == Len(store)
           T == Seq(Requests)
           F == [n \in Nat |-> [s \in T |->
                  IF n \in 1..N /\ Among(store[n], from, to)
                    THEN Append(s, store[n]) ELSE s]]
           Body(found) ==
             [n \in 0..Len(store) |->
                IF n = 0 THEN <<>>
                ELSE IF Stamp(store[n]) >= from /\ Stamp(store[n]) <= to
                  THEN Append(found[n - 1], store[n])
                ELSE found[n - 1]]
           Found == CHOOSE found : found = Body(found)
<1>1. N \in Nat /\ \A n \in 1..N : store[n] \in Requests
  BY DEF TypeOK
<1>2. F \in [Nat -> [T -> T]] /\ <<>> \in T
  <2>1. ASSUME NEW n \in Nat, NEW s \in T
        PROVE  (IF n \in 1..N /\ Among(store[n], from, to)
                  THEN Append(s, store[n]) ELSE s) \in T
    BY <1>1
  <2>2. <<>> \in T
    OBVIOUS
  <2> HIDE DEF T, N
  <2>3. QED
    BY <2>1, <2>2
<1>3. PICK g \in [0..N -> T] : g[0] = <<>> /\ \A n \in 1..N : g[n] = F[n][g[n - 1]]
  <2> DEFINE none == <<>>
  <2> HIDE DEF F, T, N, none
  <2>1. N \in Nat /\ none \in T /\ F \in [Nat -> [T -> T]]
    BY <1>1, <1>2 DEF none
  <2>2. PICK g \in [0..N -> T] : Recurses(g, none, F, N)
    BY <2>1, RecursionExists
  <2>3. QED
    BY <2>2 DEF Recurses, none
<1>4. \A n \in 1..N : g[n] = IF Among(store[n], from, to)
                               THEN Append(g[n - 1], store[n]) ELSE g[n - 1]
  <2>1. ASSUME NEW n \in 1..N
        PROVE  F[n][g[n - 1]] = IF Among(store[n], from, to)
                                  THEN Append(g[n - 1], store[n]) ELSE g[n - 1]
    <3> HIDE DEF T, N
    <3>1. n \in Nat /\ g[n - 1] \in T
      BY <1>1
    <3>2. QED
      BY <3>1
  <2> HIDE DEF F
  <2>2. QED
    BY <1>3, <2>1
<1>5. g = Body(g)
  <2>1. \A n \in 0..N : g[n] = Body(g)[n]
    <3>1. ASSUME NEW n \in 0..N PROVE g[n] = Body(g)[n]
      <4>1. CASE n = 0
        BY <1>1, <1>3, <4>1
      <4>2. CASE n \in 1..N
        <5>1. n # 0 /\ n \in 0..Len(store)
          BY <1>1, <4>2
        <5>2. Body(g)[n] = IF Among(store[n], from, to)
                             THEN Append(g[n - 1], store[n]) ELSE g[n - 1]
          BY <5>1 DEF Among
        <5> HIDE DEF Body
        <5>3. QED
          BY <1>4, <4>2, <5>2
      <4>3. QED
        BY <1>1, <4>1, <4>2
    <3>2. QED
      BY <3>1
  <2>2. Body(g) = [n \in 0..N |-> Body(g)[n]]
    OBVIOUS
  <2>3. g = [n \in 0..N |-> g[n]]
    OBVIOUS
  <2> HIDE DEF Body
  <2>4. QED
    BY <2>1, <2>2, <2>3
<1>6. Found = Body(Found)
  <2> HIDE DEF Body
  <2>1. QED
    BY <1>5
<1>7. /\ Found[0] = <<>>
      /\ \A n \in 1..N : Found[n] = IF Among(store[n], from, to)
                                     THEN Append(Found[n - 1], store[n]) ELSE Found[n - 1]
  <2> HIDE DEF Found
  <2>1. /\ Body(Found)[0] = <<>>
        /\ \A n \in 1..N : Body(Found)[n] =
             IF Among(store[n], from, to)
               THEN Append(Found[n - 1], store[n]) ELSE Found[n - 1]
    BY <1>1 DEF Among
  <2> HIDE DEF Body
  <2>2. QED
    BY <1>6, <2>1
<1>8. Found \in [0..N -> T]
  <2> DEFINE Odd == {n \in Nat : n <= N /\ Found[n] \notin T}
  <2>1. Found = [n \in 0..N |-> Found[n]]
    <3> HIDE DEF Found
    <3>1. Body(Found) = [n \in 0..N |-> Body(Found)[n]]
      OBVIOUS
    <3> HIDE DEF Body
    <3>2. QED
      BY <1>6, <3>1
  <2> HIDE DEF Found, N, T, F
  <2>2. SUFFICES ASSUME Odd # {} PROVE FALSE
    BY <1>1, <2>1
  <2>3. PICK n \in Odd : \A k \in Odd : n <= k
    BY <2>2, LeastNat
  <2>4. n # 0
    BY <1>2, <1>7
  <2>5. n \in 1..N /\ n - 1 \in Nat /\ n - 1 <= N /\ ~(n <= n - 1)
    BY <1>1, <2>4
  <2>6. Found[n - 1] \in T
    BY <2>3, <2>5
  <2>7. Append(Found[n - 1], store[n]) \in T
    BY <1>1, <2>5, <2>6 DEF T
  <2>8. QED
    BY <1>7, <2>5, <2>6, <2>7
<1>9. QueryRange(from, to) = Found[N]
  BY DEF QueryRange
<1>10. QED
  <2> HIDE DEF Found
  <2>1. QED
    BY <1>7, <1>8, <1>9

\* The events of the store are emitted, in the order of their stamps.
LEMMA StoreStamped ==
  ASSUME TypeOK, EmittedOnce, InTime, ToSet(store) \subseteq Audit!Written
  PROVE  /\ \A i \in 1..Len(store) :
              /\ Stamp(store[i]) \in DOMAIN emitted
              /\ emitted[Stamp(store[i])] = store[i]
         /\ \A i, j \in 1..Len(store) : i < j => Stamp(store[i]) < Stamp(store[j])
<1>1. DOMAIN store = 1..Len(store)
  BY DEF TypeOK
<1>2. ASSUME NEW i \in 1..Len(store)
      PROVE  /\ Stamp(store[i]) \in DOMAIN emitted
             /\ emitted[Stamp(store[i])] = store[i]
  <2>1. store[i] \in Requests /\ audit[store[i]] # None
    BY <1>1 DEF ToSet, Audit!Written
  <2>2. PICK t \in DOMAIN emitted : emitted[t] = store[i]
    BY <2>1 DEF EmittedOnce
  <2>3. Stamp(store[i]) = t
    BY <2>2, StampIs
  <2>4. QED
    BY <2>2, <2>3
<1>3. QED
  BY <1>1, <1>2 DEF InTime

\* An export holds what is stored and stamped within its bounds, in the order
\* of the stamps.
LEMMA ExportedAre ==
  ASSUME TypeOK, EmittedOnce, InTime, ToSet(store) \subseteq Audit!Written,
         NEW from, NEW to, NEW q, q = QueryRange(from, to)
  PROVE  /\ q \in Seq(Requests)
         /\ \A i \in 1..Len(q) : \E j \in 1..Len(store) :
              q[i] = store[j] /\ Among(store[j], from, to)
         /\ \A j \in 1..Len(store) : Among(store[j], from, to) =>
              \E i \in 1..Len(q) : q[i] = store[j]
         /\ \A i, k \in 1..Len(q) : i < k => Stamp(q[i]) < Stamp(q[k])
<1> DEFINE N == Len(store)
<1>1. N \in Nat /\ \A n \in 1..N : store[n] \in Requests
  BY DEF TypeOK
<1>2. \A i, j \in 1..N : i < j => Stamp(store[i]) < Stamp(store[j])
  BY StoreStamped
<1>3. PICK found \in [0..N -> Seq(Requests)] :
           /\ q = found[N]
           /\ found[0] = <<>>
           /\ \A n \in 1..N :
                found[n] = IF Among(store[n], from, to)
                             THEN Append(found[n - 1], store[n])
                           ELSE found[n - 1]
  BY FoundIs
<1> DEFINE Comes(n) == \A i \in 1..Len(found[n]) : \E j \in 1..n :
              found[n][i] = store[j] /\ Among(store[j], from, to)
           Whole(n) == \A j \in 1..n : Among(store[j], from, to) =>
              \E i \in 1..Len(found[n]) : found[n][i] = store[j]
           Sorted(n) == \A i, k \in 1..Len(found[n]) :
              i < k => Stamp(found[n][i]) < Stamp(found[n][k])
           Odd == {n \in Nat : n <= N /\ ~(Comes(n) /\ Whole(n) /\ Sorted(n))}
<1> HIDE DEF N
<1>4. Comes(0) /\ Whole(0) /\ Sorted(0)
  BY <1>3
<1>5. ASSUME NEW n \in 1..N, Comes(n - 1), Whole(n - 1), Sorted(n - 1)
      PROVE  Comes(n) /\ Whole(n) /\ Sorted(n)
  <2>1. CASE ~Among(store[n], from, to)
    <3>1. found[n] = found[n - 1]
      BY <1>3, <2>1
    <3>2. \A j \in 1..n : j = n \/ j \in 1..(n - 1)
      BY <1>1
    <3>3. \A j \in 1..(n - 1) : j \in 1..n
      BY <1>1
    <3>4. Comes(n)
      BY <1>5, <3>1, <3>3
    <3>5. Whole(n)
      BY <1>5, <2>1, <3>1, <3>2
    <3>6. Sorted(n)
      BY <1>5, <3>1
    <3>7. QED
      BY <3>4, <3>5, <3>6
  <2>2. CASE Among(store[n], from, to)
    <3> DEFINE before == found[n - 1]
    <3>1. before \in Seq(Requests) /\ found[n] = Append(before, store[n])
          /\ store[n] \in Requests
      <4>1. n - 1 \in 0..N /\ store[n] \in Requests
        BY <1>1
      <4>2. found[n] = Append(found[n - 1], store[n])
        BY <1>3, <2>2
      <4>3. QED
        BY <4>1, <4>2
    <3>2. PICK m \in Nat : m = Len(before)
      BY <3>1
    <3>3. /\ Len(found[n]) = m + 1 /\ found[n][m + 1] = store[n]
          /\ \A i \in 1..m : found[n][i] = before[i]
      BY <3>1, <3>2
    <3>4. /\ \A i \in 1..(m + 1) : i = m + 1 \/ i \in 1..m
          /\ \A i \in 1..m : i \in 1..(m + 1) /\ i < m + 1
          /\ m + 1 \in 1..(m + 1)
      BY <3>2
    <3>5. /\ \A j \in 1..n : j = n \/ j \in 1..(n - 1)
          /\ \A j \in 1..(n - 1) : j \in 1..n /\ j \in 1..N /\ j < n
          /\ n \in 1..n
      BY <1>1
    <3>6. /\ \A i \in 1..m : \E j \in 1..(n - 1) :
               before[i] = store[j] /\ Among(store[j], from, to)
          /\ \A j \in 1..(n - 1) : Among(store[j], from, to) =>
               \E i \in 1..m : before[i] = store[j]
          /\ \A i, k \in 1..m : i < k => Stamp(before[i]) < Stamp(before[k])
      BY <1>5, <3>2
    <3> HIDE DEF before
    <3>7. Comes(n)
      <4>1. ASSUME NEW i \in 1..(m + 1)
            PROVE  \E j \in 1..n : found[n][i] = store[j] /\ Among(store[j], from, to)
        <5>1. CASE i \in 1..m
          BY <3>3, <3>5, <3>6, <5>1
        <5>2. CASE i = m + 1
          BY <2>2, <3>3, <3>5, <5>2
        <5>3. QED
          BY <3>4, <5>1, <5>2
      <4>2. QED
        BY <3>3, <4>1
    <3>8. Whole(n)
      BY <3>3, <3>4, <3>5, <3>6
    <3>9. Sorted(n)
      <4>1. ASSUME NEW i \in 1..(m + 1), NEW k \in 1..(m + 1), i < k
            PROVE  Stamp(found[n][i]) < Stamp(found[n][k])
        <5>1. i \in 1..m
          BY <3>2, <4>1
        <5>2. CASE k \in 1..m
          BY <3>3, <3>6, <4>1, <5>1, <5>2
        <5>3. CASE k = m + 1
          <6>1. PICK j \in 1..(n - 1) : before[i] = store[j]
            BY <3>6, <5>1
          <6>2. Stamp(store[j]) < Stamp(store[n])
            BY <1>2, <3>5 DEF N
          <6>3. QED
            BY <3>3, <5>1, <5>3, <6>1, <6>2
        <5>4. QED
          BY <3>4, <5>2, <5>3
      <4>2. QED
        BY <3>3, <4>1
    <3>10. QED
      BY <3>7, <3>8, <3>9
  <2>3. QED
    BY <2>1, <2>2
<1>6. Comes(N) /\ Whole(N) /\ Sorted(N)
  <2> HIDE DEF Comes, Whole, Sorted
  <2>1. SUFFICES ASSUME Odd # {} PROVE FALSE
    <3>1. N \in Nat /\ N <= N
      BY <1>1
    <3>2. N \notin Odd => Comes(N) /\ Whole(N) /\ Sorted(N)
      BY <3>1
    <3>3. QED
      BY <3>2
  <2>2. PICK n \in Odd : \A k \in Odd : n <= k
    BY <2>1, LeastNat
  <2>3. n # 0
    BY <1>4
  <2>4. n \in 1..N /\ n - 1 \in Nat /\ n - 1 <= N /\ ~(n <= n - 1)
    BY <1>1, <2>3
  <2>5. Comes(n - 1) /\ Whole(n - 1) /\ Sorted(n - 1)
    BY <2>2, <2>4
  <2>6. QED
    BY <1>5, <2>4, <2>5
<1>7. q \in Seq(Requests)
  BY <1>1, <1>3
<1>8. QED
  BY <1>3, <1>6, <1>7 DEF N

\* So many numbers cannot be told apart by fewer members of a sequence and a set.
LEMMA Counted ==
  ASSUME NEW a \in Nat, NEW b \in Nat, a <= b,
         NEW f, \A s, t \in a..b : f[s] = f[t] => s = t,
         NEW R, NEW q \in Seq(R), NEW L, IsFiniteSet(L),
         \A s \in a..b : f[s] \in L \/ \E i \in 1..Len(q) : q[i] = f[s]
  PROVE  b - a < Len(q) + Cardinality(L)
<1> DEFINE Q == {q[i] : i \in 1..Len(q)}
           g == [i \in 1..Len(q) |-> q[i]]
           h == [s \in a..b |-> f[s]]
<1>1. Len(q) \in Nat
  OBVIOUS
<1>2. IsFiniteSet(1..Len(q)) /\ Cardinality(1..Len(q)) = Len(q)
  BY <1>1, FS_Interval
<1>3. g \in Surjection(1..Len(q), Q)
  BY DEF Surjection
<1>4. IsFiniteSet(Q) /\ Cardinality(Q) <= Len(q)
  <2> HIDE DEF g, Q
  <2>1. QED
    BY <1>2, <1>3, FS_Surjection
<1>5. /\ IsFiniteSet(Q \cup L) /\ Cardinality(Q \cup L) <= Len(q) + Cardinality(L)
      /\ Cardinality(L) \in Nat /\ Cardinality(Q \cup L) \in Nat
  <2> HIDE DEF Q
  <2>1. IsFiniteSet(Q \cup L)
        /\ Cardinality(Q \cup L) = Cardinality(Q) + Cardinality(L) - Cardinality(Q \cap L)
    BY <1>4, FS_Union
  <2>2. IsFiniteSet(Q \cap L)
    BY <1>4, FS_Intersection
  <2>3. /\ Cardinality(Q) \in Nat /\ Cardinality(L) \in Nat
        /\ Cardinality(Q \cap L) \in Nat /\ Cardinality(Q \cup L) \in Nat
    BY <1>4, <2>1, <2>2, FS_CardinalityType
  <2>4. QED
    BY <1>1, <1>4, <2>1, <2>3
<1>6. h \in Injection(a..b, Q \cup L)
  <2>1. \A s \in a..b : f[s] \in Q \cup L
    OBVIOUS
  <2>2. h \in [a..b -> Q \cup L]
    <3> HIDE DEF Q
    <3>1. QED
      BY <2>1
  <2>3. \A s, t \in a..b : h[s] = h[t] => s = t
    OBVIOUS
  <2> HIDE DEF h, Q
  <2>4. QED
    BY <2>2, <2>3 DEF Injection, IsInjective
<1>7. Cardinality(a..b) <= Cardinality(Q \cup L)
  <2> HIDE DEF h, Q
  <2>1. QED
    BY <1>5, <1>6, FS_Injection
<1>8. Cardinality(a..b) = b - a + 1
  BY FS_Interval
<1>9. QED
  <2> HIDE DEF Q
  <2>1. QED
    BY <1>1, <1>5, <1>7, <1>8

\* Who emitted an event that is not stored was dropped, or was the last to emit.
LEMMA NotStored ==
  ASSUME TypeOK, EmittedOnce, InTime, StoreComplete, NEW t \in DOMAIN emitted,
         emitted[t] \notin Lost, NEW u \in DOMAIN emitted, t < u
  PROVE  \E j \in 1..Len(store) : store[j] = emitted[t]
<1> DEFINE r == emitted[t]
<1>1. r \in Requests /\ r \in Audit!Written
  BY DEF TypeOK, EmittedOnce, Audit!Written
<1>2. r \in ToSet(store)
  <2>1. SUFFICES ASSUME pc[r] = "storing" PROVE FALSE
    BY <1>1 DEF StoreComplete, Lost
  <2>2. r = LastEmitted /\ emitted # <<>>
    BY <1>1, <2>1 DEF InTime, InFlight, Audit!Written
  <2>3. emitted[Len(emitted)] = emitted[t] /\ Len(emitted) \in DOMAIN emitted
    BY <2>2 DEF LastEmitted, TypeOK
  <2>4. t = Len(emitted)
    BY <2>3 DEF EmittedOnce
  <2>5. QED
    BY <2>4 DEF TypeOK
<1>3. QED
  BY <1>2 DEF ToSet, TypeOK

\* Every export there may be shows a stretch of the audit chain, up to events
\* lost with their clients, if requests came one at a time: for any number of
\* requests, any bounds and any default (routes.rs:49-79, audit_store.rs:41-85).
THEOREM ExportsVerify == Spec => []ExportVerifies
<1>1. ASSUME WorkerInv, ExportInv, Apart,
             NEW export \in Exports, export.events # <<>>
      PROVE  LET events == export.events
                 m == export.manifest
             IN  /\ \A i \in 2..Len(events) :
                      \/ events[i].prev_hash = events[i - 1].audit_id
                      \/ events[i].prev_hash \in Lost
                 /\ \A i \in DOMAIN events :
                      /\ events[i].prev_hash = Genesis <=> events[i].timestamp = 1
                      /\ events[i].timestamp \in m.first_at..m.last_at
                 /\ m.count + disconnects > m.last_at - m.first_at
  <2>1. TypeOK /\ EmittedOnce /\ InTime /\ LossesCounted /\ StoreComplete
        /\ ToSet(store) \subseteq Audit!Written
    BY <1>1 DEF WorkerInv, ExportInv, StoreComplete
  <2>2. PICK from \in DOMAIN emitted \cup {None}, to \in DOMAIN emitted \cup {None},
             now \in Len(emitted)..(Len(emitted) + 1) :
               export = AuditExport(from, to, now)
    BY DEF Exports
  <2>3. DOMAIN emitted = 1..Len(emitted) /\ Len(emitted) \in Nat /\ Len(store) \in Nat
    BY <2>1 DEF TypeOK
  <2> DEFINE lower == IF from = None THEN now - Year ELSE from
             upper == IF to = None THEN now ELSE to
             q == QueryRange(lower, upper)
             n == Len(q)
             events == [i \in DOMAIN q |-> Event(q[i])]
  <2>4. lower \in Int /\ upper \in Int
    BY <2>2, <2>3, YearAssumption
  <2>5. export.events = events
        /\ export.manifest = IF events = <<>> THEN None ELSE ManifestFor(events)
    BY <2>2 DEF AuditExport
  <2> HIDE DEF lower, upper
  <2>6. /\ q \in Seq(Requests)
        /\ \A i \in 1..Len(q) : \E j \in 1..Len(store) :
              q[i] = store[j] /\ Among(store[j], lower, upper)
        /\ \A j \in 1..Len(store) : Among(store[j], lower, upper) =>
              \E i \in 1..Len(q) : q[i] = store[j]
        /\ \A i, k \in 1..Len(q) : i < k => Stamp(q[i]) < Stamp(q[k])
    BY <2>1, ExportedAre
  <2> HIDE DEF q
  <2>7. n \in Nat /\ DOMAIN q = 1..n
    BY <2>6
  <2>8. /\ DOMAIN events = 1..n /\ Len(events) = n
        /\ \A i \in 1..n : /\ events[i].audit_id = q[i]
                           /\ events[i].timestamp = Stamp(q[i])
                           /\ events[i].prev_hash = audit[q[i]]
    BY <2>7 DEF Event
  <2>9. n > 0
    <3>1. SUFFICES ASSUME n = 0 PROVE events = <<>>
      BY <1>1, <2>5, <2>7
    <3>2. DOMAIN q = {}
      BY <2>7, <3>1
    <3>3. QED
      BY <3>2
  <2>10. events # <<>>
    BY <1>1, <2>5
  <2>11. /\ export.manifest.count = n
         /\ export.manifest.first_at = Stamp(q[1])
         /\ export.manifest.last_at = Stamp(q[n])
    <3>1. Head(events) = events[1] /\ Last(events) = events[n]
      BY <2>8 DEF Last
    <3>2. export.manifest = [count |-> n, first_at |-> Stamp(q[1]), last_at |-> Stamp(q[n])]
      <4> HIDE DEF events
      <4>1. QED
        BY <2>5, <2>8, <2>9, <2>10, <2>7, <3>1 DEF ManifestFor
    <3>3. QED
      BY <3>2
  <2> HIDE DEF events
  <2>12. ASSUME NEW i \in 1..n
         PROVE  /\ Stamp(q[i]) \in 1..Len(emitted) /\ emitted[Stamp(q[i])] = q[i]
                /\ Among(q[i], lower, upper)
                /\ audit[q[i]] = EventBefore(Stamp(q[i]))
    <3>1. PICK j \in 1..Len(store) : q[i] = store[j] /\ Among(store[j], lower, upper)
      BY <2>6
    <3>2. Stamp(store[j]) \in DOMAIN emitted /\ emitted[Stamp(store[j])] = store[j]
      BY <2>1, StoreStamped
    <3>3. audit[emitted[Stamp(store[j])]] = EventBefore(Stamp(store[j]))
      BY <2>1, <3>2 DEF InTime
    <3>4. QED
      BY <2>3, <3>1, <3>2, <3>3
  \* Between two stamps of an export every event is in it, or lost.
  <2>13. ASSUME NEW i \in 1..n, NEW k \in 1..n, NEW t \in 1..Len(emitted),
                Stamp(q[i]) <= t, t < Stamp(q[k]), emitted[t] \notin Lost
         PROVE  \E x \in 1..n : q[x] = emitted[t] /\ Stamp(q[x]) = t
    <3>1. Stamp(q[k]) \in DOMAIN emitted
      BY <2>3, <2>12
    <3>2. PICK j \in 1..Len(store) : store[j] = emitted[t]
      BY <2>1, <2>3, <2>13, <3>1, NotStored
    <3>3. Stamp(store[j]) = t
      BY <2>1, <2>3, <3>2, StampIs
    <3>4. Among(store[j], lower, upper)
      <4>1. /\ Stamp(q[i]) >= lower /\ Stamp(q[k]) <= upper
            /\ Stamp(q[i]) \in Nat /\ Stamp(q[k]) \in Nat
        BY <2>12 DEF Among
      <4>2. t >= lower /\ t <= upper
        BY <2>4, <2>13, <4>1
      <4>3. QED
        BY <3>3, <4>2 DEF Among
    <3>5. PICK x \in 1..n : q[x] = store[j]
      BY <2>6, <3>4
    <3>6. QED
      BY <3>2, <3>3, <3>5
  <2>14. ASSUME NEW i \in 2..n
         PROVE  audit[q[i]] = q[i - 1] \/ audit[q[i]] \in Lost
    <3>1. i \in 1..n /\ i - 1 \in 1..n /\ i - 1 < i
      BY <2>7
    <3> DEFINE s == Stamp(q[i])
               p == Stamp(q[i - 1])
    <3>2. /\ s \in 1..Len(emitted) /\ p \in 1..Len(emitted) /\ p < s
          /\ audit[q[i]] = EventBefore(s)
      BY <2>6, <2>12, <3>1
    <3> HIDE DEF s, p
    <3>3. /\ s # 1 /\ s - 1 \in 1..Len(emitted) /\ p <= s - 1 /\ s - 1 < s
      BY <2>3, <3>2
    <3>4. audit[q[i]] = emitted[s - 1]
      BY <3>2, <3>3 DEF EventBefore
    <3>5. SUFFICES ASSUME emitted[s - 1] \notin Lost PROVE emitted[s - 1] = q[i - 1]
      BY <3>4
    <3>6. PICK x \in 1..n : q[x] = emitted[s - 1] /\ Stamp(q[x]) = s - 1
      BY <2>13, <3>1, <3>3, <3>5 DEF s, p
    <3>7. x < i
      <4>1. ~(i < x) /\ x # i
        <5>1. i < x => s < Stamp(q[x])
          BY <2>6, <3>1 DEF s
        <5>2. x = i => Stamp(q[x]) = s
          BY DEF s
        <5>3. QED
          BY <3>2, <3>6, <5>1, <5>2
      <4>2. QED
        BY <3>1, <4>1
    <3>8. ~(x < i - 1)
      <4>1. x < i - 1 => Stamp(q[x]) < p
        BY <2>6, <3>1 DEF p
      <4>2. QED
        BY <3>2, <3>3, <3>6, <4>1
    <3>9. x = i - 1
      BY <3>1, <3>7, <3>8
    <3>10. QED
      BY <3>6, <3>9
  <2>15. ASSUME NEW i \in 1..n
         PROVE  /\ audit[q[i]] = Genesis <=> Stamp(q[i]) = 1
                /\ Stamp(q[i]) \in Stamp(q[1])..Stamp(q[n])
    <3>1. /\ Stamp(q[i]) \in 1..Len(emitted) /\ Stamp(q[1]) \in 1..Len(emitted)
          /\ Stamp(q[n]) \in 1..Len(emitted)
          /\ audit[q[i]] = EventBefore(Stamp(q[i]))
      BY <2>7, <2>9, <2>12
    <3>2. Stamp(q[1]) <= Stamp(q[i]) /\ Stamp(q[i]) <= Stamp(q[n])
      <4>1. 1 \in 1..n /\ n \in 1..n
        BY <2>7, <2>9
      <4>2. /\ 1 < i => Stamp(q[1]) < Stamp(q[i])
            /\ i < n => Stamp(q[i]) < Stamp(q[n])
        BY <2>6, <4>1
      <4>3. i \in Int /\ n \in Int /\ 1 <= i /\ i <= n
        BY <2>7
      <4>4. QED
        BY <2>3, <3>1, <4>2, <4>3
    <3>3. Stamp(q[i]) # 1 => EventBefore(Stamp(q[i])) \in Requests
      <4>1. SUFFICES ASSUME Stamp(q[i]) # 1
                     PROVE  emitted[Stamp(q[i]) - 1] \in Requests
        BY DEF EventBefore
      <4>2. Stamp(q[i]) - 1 \in DOMAIN emitted
        BY <2>3, <3>1, <4>1
      <4>3. QED
        BY <2>1, <4>2 DEF TypeOK
    <3>4. Stamp(q[i]) = 1 => EventBefore(Stamp(q[i])) = Genesis
      BY DEF EventBefore
    <3>5. QED
      BY <2>3, <3>1, <3>2, <3>3, <3>4, HashAssumption
  <2>16. Stamp(q[n]) - Stamp(q[1]) < n + disconnects
    <3>1. 1 \in 1..n /\ n \in 1..n
      BY <2>7, <2>9
    <3> DEFINE a == Stamp(q[1])
               b == Stamp(q[n])
    <3>2. a \in 1..Len(emitted) /\ b \in 1..Len(emitted) /\ a <= b
          /\ emitted[b] = q[n]
      BY <2>12, <2>15, <3>1
    <3> HIDE DEF a, b
    <3>3. \A s, t \in a..b : emitted[s] = emitted[t] => s = t
      BY <2>1, <2>3, <3>2 DEF EmittedOnce
    <3>4. ASSUME NEW s \in a..b
          PROVE  emitted[s] \in Lost \/ \E i \in 1..Len(q) : q[i] = emitted[s]
      <4>1. CASE s = b
        BY <3>1, <3>2, <4>1
      <4>2. CASE s # b
        <5>1. s \in 1..Len(emitted) /\ a <= s /\ s < b
          BY <2>3, <3>2, <4>2
        <5>2. QED
          BY <2>13, <3>1, <5>1 DEF a, b
      <4>3. QED
        BY <4>1, <4>2
    <3>5. b - a < Len(q) + Cardinality(Lost)
      <4>1. a \in Nat /\ b \in Nat /\ a <= b /\ IsFiniteSet(Lost)
        BY <2>1, <3>2 DEF LossesCounted
      <4>2. QED
        BY <2>6, <3>3, <3>4, <4>1, Counted
    <3>6. QED
      BY <2>1, <3>5 DEF LossesCounted, a, b
  <2>17. disconnects \in Nat
    BY <2>1, DisconnectsAssumption DEF TypeOK
  <2>18. \A i \in 2..n : /\ i \in 1..n /\ i - 1 \in 1..n
    BY <2>7
  <2>19. Stamp(q[n]) \in Nat /\ Stamp(q[1]) \in Nat
    BY <2>7, <2>9, <2>12
  <2>20. \A i \in 2..n : \/ events[i].prev_hash = events[i - 1].audit_id
                        \/ events[i].prev_hash \in Lost
    BY <2>8, <2>14, <2>18
  <2>21. \A i \in 1..n : /\ events[i].prev_hash = Genesis <=> events[i].timestamp = 1
                        /\ events[i].timestamp \in
                             export.manifest.first_at..export.manifest.last_at
    BY <2>8, <2>11, <2>15
  <2>22. export.manifest.count + disconnects
           > export.manifest.last_at - export.manifest.first_at
    BY <2>7, <2>11, <2>16, <2>17, <2>19
  <2>23. QED
    BY <2>5, <2>8, <2>20, <2>21, <2>22
<1>2. WorkerInv /\ ExportInv => ExportVerifies
  BY <1>1 DEF ExportVerifies
<1>3. QED
  BY <1>2, AlwaysWorkerInv, AlwaysExportInv, PTL

=============================================================================
