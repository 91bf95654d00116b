---------------------------- MODULE VerifyWorker ----------------------------
(***************************************************************************)
(* VerifyWorker::analyze (crates/argus-verify/src/lib.rs), run by several  *)
(* HTTP requests at once on a multi-threaded runtime, and the in-memory    *)
(* audit store behind GET /audit/export (audit_store.rs).                  *)
(*                                                                         *)
(* The worker keeps two hash chains, the ledger of reviews (prev_hash) and *)
(* the audit log (audit_prev_hash).  Each head is a mutex that analyze     *)
(* locks twice, to read the head and to replace it, and not in between.    *)
(***************************************************************************)
EXTENDS Integers, Sequences, SequencesExt

CONSTANTS
  Requests,        \* calls of analyze
  PostComment,     \* the requests with post_comment = true
  SetLabels,       \* the requests with set_labels = true
  Genesis,         \* WORKER_GENESIS
  None,            \* no value
  MaxDisconnects,  \* bound: how many clients go away before the answer
  Year             \* how many moments back an export goes by default

ASSUME OptionsAssumption ==
  PostComment \subseteq Requests /\ SetLabels \subseteq Requests
ASSUME HashAssumption ==
  /\ Genesis \notin Requests
  /\ None \notin Requests
  /\ None # Genesis
ASSUME DisconnectsAssumption == MaxDisconnects \in Nat
ASSUME YearAssumption == Year \in Nat

VARIABLES
  pc,               \* per request: where analyze is
  seen,             \* per request: the head it read last
  prev_hash,        \* head of the review ledger
  ledger,           \* per request: prev_ledger_hash of its entry, or None
  audit_prev_hash,  \* head of the audit chain
  audit,            \* per request: prev_hash of its audit event, or None
  emitted,          \* audit events in the order of their timestamps
  store,            \* InMemoryAuditStore.events, in arrival order
  comments,         \* requests whose comment is on the pull request
  labelled,         \* requests whose label was put on the pull request
  comment_posted,   \* requests whose answer says so
  labels_set,       \* requests whose answer says so
  disconnects,      \* clients gone so far
  met               \* per request: those that were in flight with it, a history

vars == <<pc, seen, prev_hash, ledger, audit_prev_hash, audit, emitted, store,
          comments, labelled, comment_posted, labels_set, disconnects, met>>

ledgerVars == <<prev_hash, ledger>>
auditVars == <<audit_prev_hash, audit, emitted>>
commentVars == <<comments, comment_posted>>
labelVars == <<labelled, labels_set>>
githubVars == <<commentVars, labelVars>>
clientVars == <<disconnects, met>>

-----------------------------------------------------------------------------

Busy == {"diff", "reviewed", "linking", "comment", "label", "audit", "signing",
         "storing"}
Ended == {"done", "failed", "dropped"}

InFlight == {r \in Requests : pc[r] \in Busy}

Init ==
  /\ pc = [r \in Requests |-> "idle"]
  /\ seen = [r \in Requests |-> None]
  /\ prev_hash = Genesis
  /\ ledger = [r \in Requests |-> None]
  /\ audit_prev_hash = Genesis
  /\ audit = [r \in Requests |-> None]
  /\ emitted = <<>>
  /\ store = <<>>
  /\ comments = {}
  /\ labelled = {}
  /\ comment_posted = {}
  /\ labels_set = {}
  /\ disconnects = 0
  /\ met = [r \in Requests |-> {}]

Goto(r, from, to) ==
  /\ pc[r] = from
  /\ pc' = [pc EXCEPT ![r] = to]

-----------------------------------------------------------------------------

Start(r) ==
  /\ Goto(r, "idle", "diff")
  /\ met' = [q \in Requests |->
               met[q] \cup (IF q = r THEN InFlight
                           ELSE IF q \in InFlight THEN {r} ELSE {})]
  /\ UNCHANGED <<seen, ledgerVars, auditVars, githubVars, store, disconnects>>

\* Mutant of Fail: a comment that GitHub refuses fails the request.
FailOnComment(r) ==
  /\ pc[r] \in {"diff", "comment"}
  /\ pc' = [pc EXCEPT ![r] = "failed"]
  /\ UNCHANGED <<seen, ledgerVars, auditVars, githubVars, store, clientVars>>

\* A malformed URL, no GitHub client, a diff that cannot be fetched or no key
\* in the environment: analyze returns its error.
Fail(r) ==
  /\ Goto(r, "diff", "failed")
  /\ UNCHANGED <<seen, ledgerVars, auditVars, githubVars, store, clientVars>>

\* The diff arrives and the pipeline, which tolerates every failure, answers.
Review(r) ==
  /\ Goto(r, "diff", "reviewed")
  /\ UNCHANGED <<seen, ledgerVars, auditVars, githubVars, store, clientVars>>

\* First lock of prev_hash.
ReadLedgerHead(r) ==
  /\ Goto(r, "reviewed", "linking")
  /\ seen' = [seen EXCEPT ![r] = prev_hash]
  /\ UNCHANGED <<ledgerVars, auditVars, githubVars, store, clientVars>>

\* Mutant of AdvanceLedger: the head is not replaced.
AdvanceLedgerStale(r) ==
  /\ Goto(r, "linking", "comment")
  /\ ledger' = [ledger EXCEPT ![r] = seen[r]]
  /\ UNCHANGED <<prev_hash, seen, auditVars, githubVars, store, clientVars>>

\* The entry is built on the head that was read; second lock of prev_hash.
AdvanceLedger(r) ==
  /\ Goto(r, "linking", "comment")
  /\ ledger' = [ledger EXCEPT ![r] = seen[r]]
  /\ prev_hash' = r
  /\ UNCHANGED <<seen, auditVars, githubVars, store, clientVars>>

\* What a call of GitHubClient comes to: the request arrives or not, and Ok is
\* the answer only if it did.
Sent ==
  {call \in [arrived : BOOLEAN, ok : BOOLEAN] : call.ok => call.arrived}

\* An error is swallowed: the answer then says comment_posted = false.
Comment(r) ==
  /\ Goto(r, "comment", "label")
  /\ \/ /\ r \in PostComment
        /\ \E call \in Sent :
             /\ comments' = IF call.arrived THEN comments \cup {r} ELSE comments
             /\ comment_posted' =
                  IF call.ok THEN comment_posted \cup {r} ELSE comment_posted
     \/ r \notin PostComment /\ UNCHANGED commentVars
  /\ UNCHANGED <<seen, ledgerVars, auditVars, labelVars, store, clientVars>>

Label(r) ==
  /\ Goto(r, "label", "audit")
  /\ \/ /\ r \in SetLabels
        /\ \E call \in Sent :
             /\ labelled' = IF call.arrived THEN labelled \cup {r} ELSE labelled
             /\ labels_set' =
                  IF call.ok THEN labels_set \cup {r} ELSE labels_set
     \/ r \notin SetLabels /\ UNCHANGED labelVars
  /\ UNCHANGED <<seen, ledgerVars, auditVars, commentVars, store, clientVars>>

\* First lock of audit_prev_hash.
ReadAuditHead(r) ==
  /\ Goto(r, "audit", "signing")
  /\ seen' = [seen EXCEPT ![r] = audit_prev_hash]
  /\ UNCHANGED <<ledgerVars, auditVars, githubVars, store, clientVars>>

\* Mutant of AdvanceAudit: every event is chained to the genesis hash, as the
\* ledger's entries once were (lib.rs:76-79).
AdvanceAuditReset(r) ==
  /\ Goto(r, "signing", "storing")
  /\ audit' = [audit EXCEPT ![r] = Genesis]
  /\ emitted' = Append(emitted, r)
  /\ audit_prev_hash' = r
  /\ UNCHANGED <<seen, ledgerVars, githubVars, store, clientVars>>

\* emit_audit_event stamps, signs and logs the event; then the second lock of
\* audit_prev_hash replaces the head with next_prev_hash.
AdvanceAudit(r) ==
  /\ Goto(r, "signing", "storing")
  /\ audit' = [audit EXCEPT ![r] = seen[r]]
  /\ emitted' = Append(emitted, r)
  /\ audit_prev_hash' = r
  /\ UNCHANGED <<seen, ledgerVars, githubVars, store, clientVars>>

\* Mutant of Store: the newest event is put in front.
StoreInFront(r) ==
  /\ Goto(r, "storing", "done")
  /\ store' = <<r>> \o store
  /\ UNCHANGED <<seen, ledgerVars, auditVars, githubVars, clientVars>>

\* InMemoryAuditStore::append, once its write lock is granted, and the answer.
Store(r) ==
  /\ Goto(r, "storing", "done")
  /\ store' = Append(store, r)
  /\ UNCHANGED <<seen, ledgerVars, auditVars, githubVars, clientVars>>

\* analyze suspends on the diff and the pipeline, on the two GitHub calls if
\* they are asked for, and on the lock of the store.
Suspended(r) ==
  \/ pc[r] \in {"diff", "storing"}
  \/ pc[r] = "comment" /\ r \in PostComment
  \/ pc[r] = "label" /\ r \in SetLabels

\* The client goes away and the server drops the suspended future.  A comment
\* or a label on its way may still arrive.
Disconnect(r) ==
  /\ Suspended(r)
  /\ disconnects < MaxDisconnects
  /\ disconnects' = disconnects + 1
  /\ pc' = [pc EXCEPT ![r] = "dropped"]
  /\ \/ UNCHANGED <<comments, labelled>>
     \/ /\ pc[r] = "comment"
        /\ comments' = comments \cup {r}
        /\ UNCHANGED labelled
     \/ /\ pc[r] = "label"
        /\ labelled' = labelled \cup {r}
        /\ UNCHANGED comments
  /\ UNCHANGED <<seen, ledgerVars, auditVars, comment_posted, labels_set, store,
                 met>>

Work(r) ==
  \/ Fail(r) \/ Review(r)
  \/ ReadLedgerHead(r) \/ AdvanceLedger(r)
  \/ Comment(r) \/ Label(r)
  \/ ReadAuditHead(r) \/ AdvanceAudit(r) \/ Store(r)

Next == \E r \in Requests : Start(r) \/ Work(r) \/ Disconnect(r)

Spec == Init /\ [][Next]_vars

-----------------------------------------------------------------------------
(* What callers and auditors are given.                                    *)

\* The time stamp of an event is its place in the order of emission.
Stamp(r) == CHOOSE t \in DOMAIN emitted : emitted[t] = r

\* AuditEvent, with the fields that tell events apart and link them.
Event(r) == [audit_id |-> r, timestamp |-> Stamp(r), prev_hash |-> audit[r]]

\* query_range: the events stamped within the bounds, in arrival order.  found[n]
\* are those among the first n.
QueryRange(from, to) ==
  LET found[n \in 0..Len(store)] ==
        IF n = 0 THEN <<>>
        ELSE IF Stamp(store[n]) >= from /\ Stamp(store[n]) <= to
          THEN Append(found[n - 1], store[n])
        ELSE found[n - 1]
  IN  found[Len(store)]

\* manifest_for a non-empty export; the digest is left out.
ManifestFor(events) ==
  [count |-> Len(events), first_at |-> Head(events).timestamp,
   last_at |-> Last(events).timestamp]

\* The body of GET /audit/export: the events and, unless there are none, their
\* manifest.  A bound left out of the query is None.
AuditExport(from, to, now) ==
  LET found == QueryRange(IF from = None THEN now - Year ELSE from,
                          IF to = None THEN now ELSE to)
      events == [i \in DOMAIN found |-> Event(found[i])]
  IN  [events |-> events,
       manifest |-> IF events = <<>> THEN None ELSE ManifestFor(events)]

\* Every export there may be now, or when a little time has passed.
Exports ==
  {AuditExport(from, to, now) :
     from, to \in DOMAIN emitted \cup {None},
     now \in Len(emitted)..(Len(emitted) + 1)}

\* PRReview: the entry of the ledger, which is kept in the answer and nowhere
\* else.
Receipt(r) == [ledger_signature |-> r, prev_ledger_hash |-> ledger[r]]

AnalyzeResponse(r) ==
  [review |-> Receipt(r), comment_posted |-> r \in comment_posted,
   labels_set |-> r \in labels_set]

\* The answers that were given, in their order: Store gives one.
Answers == [i \in DOMAIN store |-> AnalyzeResponse(store[i])]

-----------------------------------------------------------------------------
(* Invariants, whatever the number of requests in flight.                  *)

Links == Requests \cup {Genesis, None}

TypeOK ==
  /\ pc \in [Requests -> {"idle"} \cup Busy \cup Ended]
  /\ seen \in [Requests -> Links]
  /\ prev_hash \in Requests \cup {Genesis}
  /\ ledger \in [Requests -> Links]
  /\ audit_prev_hash \in Requests \cup {Genesis}
  /\ audit \in [Requests -> Links]
  /\ emitted \in Seq(Requests)
  /\ store \in Seq(Requests)
  /\ comments \subseteq Requests
  /\ labelled \subseteq Requests
  /\ comment_posted \subseteq Requests
  /\ labels_set \subseteq Requests
  /\ disconnects \in 0..MaxDisconnects
  /\ met \in [Requests -> SUBSET Requests]

Ledger == INSTANCE HashChain
  WITH Entries <- Requests, head <- prev_hash, link <- ledger
Audit == INSTANCE HashChain
  WITH Entries <- Requests, head <- audit_prev_hash, link <- audit

\* However the requests interleave between the two locks of a head, the links
\* of both chains lead back to the genesis hash (lib.rs:184-204, 267-291).
LinksRooted == Ledger!Rooted /\ Audit!Rooted

\* How far a chain can fork: two entries claim one predecessor only if their
\* requests were in flight together, so at most as many do as there were at one
\* time.  A head that has been replaced never comes back, and a request that
\* comes later is chained to what was there when it came (lib.rs:184-204,
\* 267-291).
ForksOverlapped ==
  \A chain \in {ledger, audit} : \A q, r \in Requests :
    q # r /\ chain[q] # None /\ chain[q] = chain[r] => q \in met[r]

\* Whatever reaches the pull request was ledgered before, and whoever is told
\* of a comment or a label finds it there (lib.rs:198-254).
PublishedIsLedgered ==
  /\ comment_posted \subseteq comments
  /\ labels_set \subseteq labelled
  /\ comments \cup labelled \subseteq Ledger!Written

\* A request that was refused has left nothing behind, in particular no entry
\* that a later one is chained to (lib.rs:133-153: every early return comes
\* before the first side effect).
RefusedLeavesNoTrace ==
  \A r \in Requests : pc[r] = "failed" =>
    /\ r \notin Ledger!Written \cup Audit!Written
    /\ r \notin comments \cup labelled \cup ToSet(store)

\* The store misses an audit event only while its request is about to store
\* it, or because its client went away meanwhile; and holds none twice.  An
\* answered request has its event in the store (lib.rs:294).
StoreComplete ==
  /\ \A r \in Audit!Written \ ToSet(store) : pc[r] \in {"storing", "dropped"}
  /\ ToSet(store) \subseteq Audit!Written
  /\ IsInjective(store)
  /\ \A r \in Requests : pc[r] = "done" => r \in ToSet(store)

\* What the three records of a review, the ledger, the pull request and the
\* audit store, say of one another: nothing is published that is not ledgered,
\* nothing at all is left of a refused request, and no event is lost but that
\* of a request cut off just before the store (lib.rs:131-294).
AuditTrail == PublishedIsLedgered /\ RefusedLeavesNoTrace /\ StoreComplete

-----------------------------------------------------------------------------
(* What holds as long as requests come one at a time.                      *)

Apart == \A r \in Requests : met[r] = {}

Lost == {r \in Requests : pc[r] = "dropped"}

\* Each head's two locks then make one step, and both chains go on as hash
\* chains do (lib.rs:72-79: "Each `analyze()` call reads this, uses it as the
\* `prev_hash` [...] then advances it to the new entry's hash").
ChainsWhenApart ==
  [][Apart' => /\ [Ledger!Next]_<<prev_hash, ledger>>
               /\ [Audit!Next]_<<audit_prev_hash, audit>>]_vars

\* Every export is then a stretch of the audit chain: each event follows the
\* one above it, or one that its client's leaving kept from the store; only the
\* oldest follows the genesis hash; and the manifest spans the events above it
\* and counts them all (routes.rs:49-79, audit_store.rs:41-85, where the order
\* of arrival is taken for the order of the stamps).
ExportVerifies ==
  Apart => \A export \in {e \in Exports : e.events # <<>>} :
    LET events == export.events
        m == export.manifest
    IN  /\ \A i \in 2..Len(events) :
             \/ events[i].prev_hash = events[i - 1].audit_id
             \/ events[i].prev_hash \in Lost
        /\ \A i \in DOMAIN events :
             /\ events[i].prev_hash = Genesis <=> events[i].timestamp = 1
             /\ events[i].timestamp \in m.first_at..m.last_at
        /\ m.count + disconnects > m.last_at - m.first_at

\* Whoever keeps the answers can put the ledger together again: a receipt
\* refers to one that was given, to one still to come, or to one lost with its
\* client; and, with requests one at a time, to the one given before it, or to
\* one lost (lib.rs:206-223, 292-311).
ReceiptsChain ==
  \A i \in DOMAIN Answers :
    LET prev == Answers[i].review.prev_ledger_hash
    IN  /\ prev \in {Genesis} \cup {r \in Requests :
                       pc[r] \in Busy \cup {"done", "dropped"}}
        /\ Apart /\ prev \notin Lost =>
             prev = IF i = 1 THEN Genesis
                    ELSE Answers[i - 1].review.ledger_signature

-----------------------------------------------------------------------------
(* A statement of the documentation that the code does not keep.           *)

\* "Every verdict is cryptographically chained to the previous one"
\* (docs/for-ciso.md:52), of the ledger and of the audit log: two requests at
\* once may both be chained to the one before them.
ChainsAreLinear == Ledger!Linear /\ Audit!Linear

=============================================================================
