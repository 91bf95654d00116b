---------------------------- MODULE VerifyServer ----------------------------
(***************************************************************************)
(* POST /analyze of argus-verify (crates/argus-verify/src/main.rs): the    *)
(* idempotency cache (cache.rs) around VerifyWorker::analyze, and the API  *)
(* key, which travels from the handler to the worker in the environment    *)
(* of the process.                                                         *)
(*                                                                         *)
(* The worker is here what the handler sees of it: it awaits the diff,     *)
(* reads the key, awaits the review, and answers or fails.  VerifyWorker   *)
(* is the inside of that.                                                  *)
(***************************************************************************)
EXTENDS Naturals

CONSTANTS
  Requests,       \* HTTP requests; a retry is another request
  IdemKeys,       \* values of X-Idempotency-Key
  PullRequests,   \* values of pr_url
  ApiKeys,        \* values of X-LLM-Key
  None,           \* no value
  IdemKey,        \* per request: its X-Idempotency-Key, or None
  PrUrl,          \* per request: its pr_url
  Header,         \* per request: its X-LLM-Key, or None
  ServerKey,      \* ARGUS_NIM_KEY at start, or None
  Ttl,            \* time to live of a cache entry, in clock ticks
  MaxDisconnects  \* bound: how many clients go away before the answer

\* CacheEntry; only `elapsed < ttl` is asked of its age, which stops at Ttl.
Entry == [body : Requests, pr : PullRequests, age : 0..Ttl]

ASSUME NoneAssumption ==
  /\ None \notin Requests \cup IdemKeys \cup ApiKeys
  /\ None \notin Entry
ASSUME RequestAssumption ==
  /\ IdemKey \in [Requests -> IdemKeys \cup {None}]
  /\ PrUrl \in [Requests -> PullRequests]
  /\ Header \in [Requests -> ApiKeys \cup {None}]
ASSUME ServerAssumption == ServerKey \in ApiKeys \cup {None} /\ Ttl \in Nat \ {0}
ASSUME DisconnectsAssumption == MaxDisconnects \in Nat

VARIABLES
  pc,          \* per request: where the handler is
  nim_key,     \* per request: the key the handler resolved
  env,         \* ARGUS_NIM_KEY of the process, or None
  billed,      \* per request: the key its review was run with, or None
  answer,      \* per request: the request whose review it was answered with
  cache,       \* per idempotency key: its entry, or None
  disconnects, \* clients gone so far
  met          \* per request: those that were in flight with it, a history

vars == <<pc, nim_key, env, billed, answer, cache, disconnects, met>>

clientVars == <<disconnects, met>>

-----------------------------------------------------------------------------

Busy == {"lookup", "resolve", "set", "diff", "review", "put"}
Ended == {"done", "unauthorized", "failed", "dropped"}

InFlight == {r \in Requests : pc[r] \in Busy}

Fresh(e) == e # None /\ e.age < Ttl

\* IdempotencyCache::new.
EmptyCache == [k \in IdemKeys |-> None]

Init ==
  /\ pc = [r \in Requests |-> "idle"]
  /\ nim_key = [r \in Requests |-> None]
  /\ env = ServerKey
  /\ billed = [r \in Requests |-> None]
  /\ answer = [r \in Requests |-> None]
  /\ cache = EmptyCache
  /\ disconnects = 0
  /\ met = [r \in Requests |-> {}]

Goto(r, from, to) ==
  /\ pc[r] = from
  /\ pc' = [pc EXCEPT ![r] = to]

-----------------------------------------------------------------------------

Receive(r) ==
  /\ Goto(r, "idle", IF IdemKey[r] = None THEN "resolve" ELSE "lookup")
  /\ met' = [q \in Requests |->
               met[q] \cup (IF q = r THEN InFlight
                           ELSE IF q \in InFlight THEN {r} ELSE {})]
  /\ UNCHANGED <<nim_key, env, billed, answer, cache, disconnects>>

\* Mutant of Get: the pull request is not looked at.
GetAnyPr(r) == Fresh(cache[IdemKey[r]])

\* IdempotencyCache::get finds a verdict for r.
Get(r) ==
  LET e == cache[IdemKey[r]] IN Fresh(e) /\ e.pr = PrUrl[r]

\* The cached verdict is the answer.
Hit(r) ==
  /\ Goto(r, "lookup", "done")
  /\ Get(r)
  /\ answer' = [answer EXCEPT ![r] = cache[IdemKey[r]].body]
  /\ UNCHANGED <<nim_key, env, billed, cache, clientVars>>

\* Mutant of Miss: a verdict that is found does not end the request.
MissAlways(r) ==
  /\ Goto(r, "lookup", "resolve")
  /\ UNCHANGED <<nim_key, env, billed, answer, cache, clientVars>>

Miss(r) ==
  /\ Goto(r, "lookup", "resolve")
  /\ ~Get(r)
  /\ UNCHANGED <<nim_key, env, billed, answer, cache, clientVars>>

\* Mutant of Resolved: the environment comes before the header.
ResolvedFromEnv(r) == IF env # None THEN env ELSE Header[r]

\* The key of the header, or else of the environment.
Resolved(r) == IF Header[r] # None THEN Header[r] ELSE env

Resolve(r) ==
  /\ Resolved(r) # None
  /\ Goto(r, "resolve", "set")
  /\ nim_key' = [nim_key EXCEPT ![r] = Resolved(r)]
  /\ UNCHANGED <<env, billed, answer, cache, clientVars>>

\* No key anywhere: 401.
Unauthorized(r) ==
  /\ Resolved(r) = None
  /\ Goto(r, "resolve", "unauthorized")
  /\ UNCHANGED <<nim_key, env, billed, answer, cache, clientVars>>

\* std::env::set_var, and analyze starts to fetch the diff.
SetEnv(r) ==
  /\ Goto(r, "set", "diff")
  /\ env' = nim_key[r]
  /\ UNCHANGED <<nim_key, billed, answer, cache, clientVars>>

\* The diff has arrived; analyze reads the key and runs the pipeline with it.
Review(r) ==
  /\ Goto(r, "diff", "review")
  /\ billed' = [billed EXCEPT ![r] = env]
  /\ UNCHANGED <<nim_key, env, answer, cache, clientVars>>

\* A bad URL, no GitHub client or no diff: 500, and nothing is cached.
Fail(r) ==
  /\ Goto(r, "diff", "failed")
  /\ UNCHANGED <<nim_key, env, billed, answer, cache, clientVars>>

\* analyze has answered; without an idempotency key, so has the handler.
Reviewed(r) ==
  /\ IF IdemKey[r] = None
       THEN /\ Goto(r, "review", "done")
            /\ answer' = [answer EXCEPT ![r] = r]
       ELSE /\ Goto(r, "review", "put")
            /\ UNCHANGED answer
  /\ UNCHANGED <<nim_key, env, billed, cache, clientVars>>

\* IdempotencyCache::put, last write wins, and the answer.
Put(r) ==
  /\ Goto(r, "put", "done")
  /\ answer' = [answer EXCEPT ![r] = r]
  /\ cache' = [cache EXCEPT ![IdemKey[r]] =
                 [body |-> r, pr |-> PrUrl[r], age |-> 0]]
  /\ UNCHANGED <<nim_key, env, billed, clientVars>>

\* The client goes away while the handler awaits a lock of the cache, the
\* diff or the review, and the handler's future is dropped.
Disconnect(r) ==
  /\ pc[r] \in {"lookup", "diff", "review", "put"}
  /\ disconnects < MaxDisconnects
  /\ disconnects' = disconnects + 1
  /\ pc' = [pc EXCEPT ![r] = "dropped"]
  /\ UNCHANGED <<nim_key, env, billed, answer, cache, met>>

\* Mutants of Cleanup: it keeps the wrong side; it keeps what is as old as the
\* time to live; it clears the verdict and leaves the entry.
CleanupFresh ==
  /\ cache' = [k \in IdemKeys |-> IF Fresh(cache[k]) THEN None ELSE cache[k]]
  /\ UNCHANGED <<pc, nim_key, env, billed, answer, clientVars>>
CleanupInclusive ==
  /\ cache' = [k \in IdemKeys |->
                 IF cache[k] # None /\ cache[k].age <= Ttl
                   THEN cache[k] ELSE None]
  /\ UNCHANGED <<pc, nim_key, env, billed, answer, clientVars>>

CleanupBodies ==
  /\ cache' = [k \in IdemKeys |->
                 IF Fresh(cache[k]) \/ cache[k] = None
                   THEN cache[k] ELSE [cache[k] EXCEPT !.body = None]]
  /\ UNCHANGED <<pc, nim_key, env, billed, answer, clientVars>>

\* The hourly cleanup_expired.
Cleanup ==
  /\ cache' = [k \in IdemKeys |-> IF Fresh(cache[k]) THEN cache[k] ELSE None]
  /\ UNCHANGED <<pc, nim_key, env, billed, answer, clientVars>>

\* The clock.
Tick ==
  /\ \E k \in IdemKeys : Fresh(cache[k])
  /\ cache' = [k \in IdemKeys |->
                 IF Fresh(cache[k]) THEN [cache[k] EXCEPT !.age = @ + 1]
                                    ELSE cache[k]]
  /\ UNCHANGED <<pc, nim_key, env, billed, answer, clientVars>>

Handle(r) ==
  \/ Hit(r) \/ Miss(r) \/ Resolve(r) \/ Unauthorized(r) \/ SetEnv(r)
  \/ Review(r) \/ Fail(r) \/ Reviewed(r) \/ Put(r)

Next ==
  \/ \E r \in Requests : Receive(r) \/ Handle(r) \/ Disconnect(r)
  \/ Cleanup
  \/ Tick

Spec == Init /\ [][Next]_vars

\* The clock advances and the background task of main.rs:76-91 comes round.
FairSpec == Spec /\ WF_vars(Tick) /\ WF_vars(Cleanup)

-----------------------------------------------------------------------------
(* Properties.                                                             *)

TypeOK ==
  /\ pc \in [Requests -> {"idle"} \cup Busy \cup Ended]
  /\ nim_key \in [Requests -> ApiKeys \cup {None}]
  /\ env \in ApiKeys \cup {None}
  /\ billed \in [Requests -> ApiKeys \cup {None}]
  /\ answer \in [Requests -> Requests \cup {None}]
  /\ cache \in [IdemKeys -> Entry \cup {None}]
  /\ disconnects \in 0..MaxDisconnects
  /\ met \in [Requests -> SUBSET Requests]

\* Whoever is answered gets a review of the pull request it asked about, its
\* own or one that was run, to its end, for the same idempotency key: "a
\* caller cannot reuse a key across distinct PRs by accident" (cache.rs:14-16).
AnswerFits ==
  \A r \in Requests : pc[r] = "done" =>
    LET q == answer[r]
    IN  /\ q # None /\ billed[q] # None /\ PrUrl[q] = PrUrl[r]
        /\ q = r \/ (IdemKey[q] = IdemKey[r] /\ pc[q] = "done")

\* The cleanup never changes what a request would be answered with
\* (cache.rs:98-105).
CleanupInvisible ==
  [][Cleanup => \A r \in Requests : IdemKey[r] # None => (Get(r) <=> Get(r)')]_vars

\* "so the map cannot grow unboundedly" (main.rs:76-77, cache.rs:9-11): an
\* entry that nobody renews leaves the map.
ExpiredGo ==
  \A k \in IdemKeys : cache[k] # None ~> cache[k] = None

\* How far a key can stray: a review runs with the key of its caller, or of a
\* caller that was in flight with it; and whose key is used, it is the one it
\* brought, if it brought one.  A key left behind in the environment is used
\* only by callers that bring none (main.rs:184-198, lib.rs:152).
KeyOfContemporary ==
  \A r \in Requests : billed[r] # None =>
    \E q \in met[r] \cup {r} :
      /\ billed[r] = nim_key[q]
      /\ Header[q] # None => nim_key[q] = Header[q]

\* A request is reviewed while the cache has a verdict for it only if that is
\* the verdict of a request in flight with it (main.rs:165-181; cache.rs:3-6).
CachedNotReviewed ==
  [][\A r \in Requests :
       pc[r] = "diff" /\ pc'[r] = "review" /\ IdemKey[r] # None /\ Get(r)
         => cache[IdemKey[r]].body \in met[r]]_vars

-----------------------------------------------------------------------------
(* A statement of the documentation that the code does not keep.           *)

\* Whoever brings a key pays with it: "The user provides their own NVIDIA NIM
\* API key per request" (argus-llm/src/lib.rs:3), although the key is read
\* from the environment long after it was put there (main.rs:198, lib.rs:152).
OwnKey ==
  \A r \in Requests :
    billed[r] # None /\ Header[r] # None => billed[r] = Header[r]

=============================================================================
