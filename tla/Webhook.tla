------------------------------- MODULE Webhook -------------------------------
(***************************************************************************)
(* The GitHub App's webhook (crates/argus-github-app/src/webhook.rs) and   *)
(* one pull request: pushes change its diff, GitHub delivers an event for  *)
(* each of them, late, in any order and sometimes again, and every event   *)
(* that passes the guards spawns a review of its own, which nothing orders *)
(* or limits.                                                              *)
(*                                                                         *)
(* A review fetches the diff as it is then, whatever the event was about,  *)
(* runs the deterministic rules, posts a comment and puts a label.         *)
(***************************************************************************)
EXTENDS Naturals

CONSTANTS
  Reviews,      \* the spawned handle_pr_event tasks
  Deliveries,   \* the requests that may come
  Environments, \* the environments the App may be started in
  Names,        \* names of repositories, events, labels, secrets and tokens
  MaxPushes,    \* bound: pushes to the pull request
  Signals,      \* per version of the diff: its error, warning and info counts
  MaxFaults,    \* bound: failed GitHub calls and crashes
  None          \* no value

INSTANCE AppConfig

Version == 0..MaxPushes

\* What the guards see of a request about the pull request, whose repository is
\* called "repo".
Delivery ==
  [small : BOOLEAN,               \* at most MAX_PAYLOAD_BYTES
   key : Names \cup {"", None},   \* the HMAC's key; None: no digest, or not one
   event : Names,                 \* X-GitHub-Event
   json : BOOLEAN,                \* its body parses
   trusted : BOOLEAN,             \* its hosts' names end in TRUSTED_HOSTS
   action : Names]                \* its action

ASSUME DeliveriesAssumption == Deliveries \subseteq Delivery
ASSUME EnvironmentsAssumption == Environments \subseteq Environment
ASSUME SignalsAssumption ==
  /\ MaxPushes \in Nat
  /\ Signals \in [Version -> [error : Nat, warning : Nat, info : Nat]]
ASSUME NoneAssumption ==
  /\ None \notin Reviews /\ None \notin Deliveries
  /\ None \notin Version
ASSUME NamesAssumption ==
  /\ {"secret", "pull_request"} \subseteq Names
  /\ "" \notin Names /\ None \notin Names \cup {""}
ASSUME FaultsAssumption == MaxFaults \in Nat

VARIABLES
  env,          \* the environment of the process
  version,      \* version of the diff
  undelivered,  \* pushes whose event GitHub has yet to deliver
  missed,       \* an event of a push came and started no review
  pc,           \* per review: where handle_pr_event is
  cause,        \* per review: the request that spawned it
  diff,         \* per review: the version it fetched, or None
  commented,    \* reviews whose comment is on the pull request
  labels,       \* labels of the pull request
  labeller,     \* the review that labelled it last, or None
  overlapped,   \* two reviews were under way at once at some time
  faults        \* failed calls and crashes so far

vars == <<env, version, undelivered, missed, pc, cause, diff, commented,
          labels, labeller, overlapped, faults>>

requestVars == <<env, version, undelivered, missed, cause, overlapped>>
reviewVars == <<pc, cause, diff, commented, labels, labeller>>

Config == from_env(env)

Verdicts == {"approved", "needs-review"}

Busy == {"fetch", "comment", "label"}
Ended == {"done", "failed", "lost"}

Active == {r \in Reviews : pc[r] \in Busy}

Init ==
  /\ env \in Environments
  /\ version = 0
  /\ undelivered = 1
  /\ missed = FALSE
  /\ pc = [r \in Reviews |-> "idle"]
  /\ cause = [r \in Reviews |-> None]
  /\ diff = [r \in Reviews |-> None]
  /\ commented = {}
  /\ labels = {"user"}
  /\ labeller = None
  /\ overlapped = FALSE
  /\ faults = 0

-----------------------------------------------------------------------------
(* The request.                                                            *)

Actions == {"opened", "synchronize", "reopened"}

\* signature::verify: a digest of the body under the secret of the App.
Verified(d) == d.key = Config.webhook_secret

\* Mutant of Answer: the repository is not looked at.
AnswerAnyRepo(d) ==
  IF ~d.small THEN "413"
  ELSE IF ~Verified(d) THEN "401"
  ELSE IF ~event_allowed(Config, d.event) THEN "422"
  ELSE IF ~d.json THEN "400"
  ELSE IF ~d.trusted THEN "422"
  ELSE IF d.action \notin Actions THEN "200 ignored"
  ELSE IF ~HasToken(env) THEN "200 no token"
  ELSE "200 queued"

\* webhook_handler, a flat list of guard clauses: the first that fails answers.
Answer(d) ==
  IF ~d.small THEN "413"
  ELSE IF ~Verified(d) THEN "401"
  ELSE IF ~event_allowed(Config, d.event) THEN "422"
  ELSE IF ~d.json THEN "400"
  ELSE IF ~repo_allowed(Config, "repo") THEN "403"
  ELSE IF ~d.trusted THEN "422"
  ELSE IF d.action \notin Actions THEN "200 ignored"
  ELSE IF ~HasToken(env) THEN "200 no token"
  ELSE "200 queued"

\* GitHub's event about a push to the pull request, signed with the secret it
\* was given when the App was created.
Notice(d) ==
  /\ d.small /\ d.key = "secret" /\ d.event \in default_events
  /\ d.json /\ d.trusted /\ d.action \in Actions

\* The App serves POST /webhook, once it has started.
Reached == Starts(env) /\ WebhookUrl(env) = <<"home", "webhook">>

\* No review: nothing at the URL that answers, or an answer that is not
\* "queued".  Of a request that is refused nothing is kept; of GitHub's event
\* about a push it is remembered that it will not come again.
Miss(d) ==
  /\ Notice(d)
  /\ undelivered > 0
  /\ ~Reached \/ Answer(d) # "200 queued"
  /\ undelivered' = undelivered - 1
  /\ missed' = TRUE
  /\ UNCHANGED <<env, version, reviewVars, overlapped, faults>>

\* The review is spawned and the request answered at once.  GitHub delivers
\* an event for the first time or again.
Queue(d, r) ==
  /\ Reached
  /\ Answer(d) = "200 queued"
  /\ pc[r] = "idle"
  /\ pc' = [pc EXCEPT ![r] = "fetch"]
  /\ cause' = [cause EXCEPT ![r] = d]
  /\ undelivered' \in {undelivered, undelivered - 1} \cap Nat
  /\ undelivered' # undelivered => Notice(d)
  /\ overlapped' = (overlapped \/ Active # {})
  /\ UNCHANGED <<env, version, missed, diff, commented, labels, labeller,
                 faults>>

-----------------------------------------------------------------------------
(* The review.                                                             *)

Goto(r, from, to) ==
  /\ pc[r] = from
  /\ pc' = [pc EXCEPT ![r] = to]

Fault ==
  /\ faults < MaxFaults
  /\ faults' = faults + 1

\* Mutant of Fetch: the diff of the head commit that the first event named.
FetchFirst(r) ==
  /\ Goto(r, "fetch", "comment")
  /\ diff' = [diff EXCEPT ![r] = 0]
  /\ UNCHANGED <<requestVars, commented, labels, labeller, faults>>

\* get_diff asks for the pull request, not for the event's commit.
Fetch(r) ==
  /\ Goto(r, "fetch", IF May("diff") THEN "comment" ELSE "failed")
  /\ diff' = [diff EXCEPT ![r] = version]
  /\ UNCHANGED <<requestVars, commented, labels, labeller, faults>>

FetchFails(r) ==
  /\ Goto(r, "fetch", "failed")
  /\ Fault
  /\ UNCHANGED <<requestVars, diff, commented, labels, labeller>>

\* Mutant of Comment: a failed comment ends the review.
CommentFailsReview(r) ==
  /\ \/ /\ Goto(r, "comment", "label")
        /\ commented' = commented \cup {r}
        /\ UNCHANGED faults
     \/ /\ Goto(r, "comment", "failed")
        /\ Fault
        /\ UNCHANGED commented
  /\ UNCHANGED <<requestVars, diff, labels, labeller>>

\* post_verdict_comment: a failure is logged, the review goes on.  A call that
\* fails may have reached GitHub all the same.
Comment(r) ==
  /\ Goto(r, "comment", "label")
  /\ \/ /\ commented' = IF May("comment") THEN commented \cup {r} ELSE commented
        /\ UNCHANGED faults
     \/ commented' \in {commented, commented \cup {r}} /\ Fault
  /\ UNCHANGED <<requestVars, diff, labels, labeller>>

\* The weighted score in hundredths.
Score(s) == LET raw == 40 * s.error + 15 * s.warning + 5 * s.info
            IN  IF raw > 100 THEN 100 ELSE raw

\* compose_verdict.  On a score of 0.5 the rounding of the f32 sum decides:
\* both answers are possible.
Slugs(v) ==
  LET s == Signals[v]
  IN  (IF s.error = 0 /\ Score(s) <= 50 THEN {"approved"} ELSE {})
      \cup (IF s.error > 0 \/ Score(s) >= 50 THEN {"needs-review"} ELSE {})

\* set_labels replaces all labels of the pull request.
SetLabels(r) ==
  /\ \E slug \in Slugs(diff[r]) : labels' = {label_for(Config, slug)}
  /\ labeller' = r

\* set_verdict_label; a failure is logged.
Label(r) ==
  /\ Goto(r, "label", "done")
  /\ \/ /\ IF May("label") THEN SetLabels(r) ELSE UNCHANGED <<labels, labeller>>
        /\ UNCHANGED faults
     \/ (SetLabels(r) \/ UNCHANGED <<labels, labeller>>) /\ Fault
  /\ UNCHANGED <<requestVars, diff, commented>>

Work(r) == Fetch(r) \/ FetchFails(r) \/ Comment(r) \/ Label(r)

-----------------------------------------------------------------------------
(* The environment.                                                        *)

Push ==
  /\ version < MaxPushes
  /\ version' = version + 1
  /\ undelivered' = undelivered + 1
  /\ UNCHANGED <<env, missed, reviewVars, overlapped, faults>>

\* The process ends, and with it the spawned reviews: main.rs waits for none.
Crash ==
  /\ Active # {}
  /\ Fault
  /\ pc' = [r \in Reviews |-> IF r \in Active THEN "lost" ELSE pc[r]]
  /\ UNCHANGED <<requestVars, diff, commented, labels, labeller>>

Next ==
  \/ \E d \in Deliveries : Miss(d) \/ \E r \in Reviews : Queue(d, r)
  \/ \E r \in Reviews : Work(r)
  \/ Push
  \/ Crash

Spec == Init /\ [][Next]_vars

\* A spawned task is run, and its HTTP calls end: the client has a timeout of
\* 30 seconds.
FairSpec == Spec /\ \A r \in Reviews : WF_vars(Work(r))

-----------------------------------------------------------------------------
(* Properties.                                                             *)

TypeOK ==
  /\ env \in Environments
  /\ version \in Version
  /\ undelivered \in 0..(version + 1)
  /\ missed \in BOOLEAN
  /\ pc \in [Reviews -> {"idle"} \cup Busy \cup Ended]
  /\ cause \in [Reviews -> Deliveries \cup {None}]
  /\ diff \in [Reviews -> Version \cup {None}]
  /\ commented \subseteq Reviews
  /\ labels \subseteq {"user"} \cup {label_for(Config, slug) : slug \in Verdicts}
  /\ labeller \in Reviews \cup {None}
  /\ overlapped \in BOOLEAN
  /\ faults \in 0..MaxFaults

\* What the operator has set, read without the code's parsing: a list names
\* what stands between two commas, blanks apart.
Lists(list, name) == name # "" /\ \E p \in list : p.name = name

InScope(repo) ==
  \/ env.repos = None
  \/ \A p \in env.repos : p.name = ""
  \/ Lists(env.repos, repo)

Listens(event) ==
  IF env.events = None THEN event = "pull_request" ELSE Lists(env.events, event)

Invited(d) ==
  /\ d.small /\ d.json /\ d.trusted /\ d.action \in Actions
  /\ d.key \in Names /\ d.key = env.secret
  /\ Listens(d.event) /\ InScope("repo")

\* "keeps the App from doing anything it was not invited to do" (cordon.rs:
\* 1-2): whatever the environment, every review is there because of a request
\* under the secret, about an event and a repository that the operator listed.
ReviewsInvited == \A r \in Reviews : pc[r] # "idle" => Invited(cause[r])

\* And the other way round: a push whose event starts no review is one that
\* the operator's settings exclude, by a list, for want of a secret, a token or
\* an address, or a secret that is not GitHub's.  What comes when the App has
\* no token does not come again once it has (main.rs:14-19, webhook.rs:98-104).
MissedByChoice ==
  missed =>
    \/ env.secret # "secret" \/ env.token \in {None, ""} \/ env.url = None
    \/ ~InScope("repo") \/ ~Listens("pull_request")

OneVerdict == \A a, b \in labels : a = b

\* Every push was delivered and heard, every review has ended, no call failed.
Settled == undelivered = 0 /\ ~missed /\ Active = {} /\ faults = 0

\* When all is settled the last version has its comment, in whatever order the
\* events were delivered and the reviews went: the diff is fetched after the
\* event was received (webhook.rs:268).
HeadIsReviewed == Settled => \E r \in commented : diff[r] = version

\* The pull request never carries two verdicts, however many reviews it had and
\* whatever they said.  When all is settled and no two reviews overlapped, the
\* label is that of the last version, although late and repeated events are
\* reviewed as well (argus-github/src/lib.rs:191, webhook.rs:350-376).
LabelIsCurrent ==
  /\ OneVerdict
  /\ Settled /\ ~overlapped =>
       /\ labeller # None
       /\ diff[labeller] = version
       /\ labels \subseteq {label_for(Config, slug) : slug \in Slugs(version)}

\* "a failed comment post must NOT fail the whole review, because the label
\* may still land" (webhook.rs:319-321): a review that has its diff goes on to
\* its label, unless the process ends.
LabelTried ==
  \A r \in Reviews : pc[r] = "comment" ~> pc[r] \in {"done", "lost"}

=============================================================================
