---------------------------- MODULE WebhookProofs ----------------------------
(***************************************************************************)
(* What the webhook guarantees in any environment, for any number of       *)
(* reviews, pushes and faults.                                             *)
(***************************************************************************)
EXTENDS Webhook, TLAPS

USE SignalsAssumption, NoneAssumption, FaultsAssumption DEF Version

\* A review past a step has taken it, or something failed.
Progress ==
  \A r \in Reviews :
    /\ pc[r] \in {"comment", "label", "done"} => diff[r] \in Version
    /\ faults = 0 /\ pc[r] \in {"label", "done"} => r \in commented

\* Somebody has fetched the last version, or is about to.
HeadCovered ==
  undelivered = 0 /\ ~missed /\ faults = 0 =>
    \E r \in Reviews :
      \/ pc[r] = "fetch"
      \/ pc[r] \in {"comment", "label", "done"} /\ diff[r] = version

\* Without overlap there is one review at a time.
OneActive == ~overlapped => \A q, r \in Active : q = r

\* Without overlap the last review has the last version.
LastIsCurrent ==
  undelivered = 0 /\ ~missed /\ faults = 0 /\ ~overlapped =>
    /\ \A r \in Active : pc[r] = "fetch" \/ diff[r] = version
    /\ Active = {} =>
         /\ labeller # None
         /\ diff[labeller] = version
         /\ labels \subseteq {label_for(Config, slug) : slug \in Slugs(version)}

WorkInv == OneVerdict /\ Progress /\ HeadCovered /\ OneActive /\ LastIsCurrent

WebhookInv == TypeOK /\ ReviewsInvited /\ MissedByChoice /\ WorkInv

\* The lists that from_env makes name what the operator listed.
LEMMA ParsedNames ==
  ASSUME NEW list \in SUBSET Piece, NEW name
  PROVE  /\ name \in Parsed(list) <=> Lists(list, name)
         /\ Parsed(list) = {} <=> \A p \in list : p.name = ""
  BY DEF Parsed, Trimmed, Lists

\* A repository, or an event, passes its guard iff the operator listed it.
LEMMA GuardsMeanLists ==
  ASSUME env \in Environments
  PROVE  /\ \A repo : repo_allowed(Config, repo) <=> InScope(repo)
         /\ \A event : event_allowed(Config, event) <=> Listens(event)
<1>1. env \in Environment
  BY EnvironmentsAssumption
<1>2. ASSUME NEW repo PROVE repo_allowed(Config, repo) <=> InScope(repo)
  <2>1. Config.allowed_repos = Parsed(OrElse(env.repos, {}))
    BY DEF Config, from_env
  <2>2. CASE env.repos = None
    <3>1. Parsed({}) = {}
      BY DEF Parsed
    <3>2. QED
      BY <2>1, <2>2, <3>1 DEF repo_allowed, InScope, OrElse
  <2>3. CASE env.repos # None
    <3>1. env.repos \in SUBSET Piece
      <4>1. env.repos \in (SUBSET Piece) \cup {None}
        BY <1>1 DEF Environment
      <4>2. QED
        BY <2>3, <4>1, Zenon
    <3>2. Config.allowed_repos = Parsed(env.repos)
      BY <2>1, <2>3, Zenon DEF OrElse
    <3>3. /\ repo \in Parsed(env.repos) <=> Lists(env.repos, repo)
          /\ Parsed(env.repos) = {} <=> \A p \in env.repos : p.name = ""
      BY <3>1, ParsedNames
    <3>4. QED
      BY <2>3, <3>2, <3>3, Zenon DEF repo_allowed, InScope
  <2>4. QED
    BY <2>2, <2>3
<1>3. ASSUME NEW event PROVE event_allowed(Config, event) <=> Listens(event)
  <2>1. CASE env.events = None
    BY <2>1 DEF event_allowed, Listens, Config, from_env
  <2>2. CASE env.events # None
    <3>1. env.events \in SUBSET Piece
      BY <1>1, <2>2 DEF Environment
    <3>2. QED
      BY <2>2, <3>1, ParsedNames DEF event_allowed, Listens, Config, from_env
  <2>3. QED
    BY <2>1, <2>2
<1>4. QED
  BY <1>2, <1>3

\* A request that is queued was invited.
LEMMA QueuedInvited ==
  ASSUME TypeOK, NEW d \in Deliveries, Reached, Answer(d) = "200 queued"
  PROVE  Invited(d)
<1>1. /\ d.small /\ Verified(d) /\ event_allowed(Config, d.event) /\ d.json
      /\ repo_allowed(Config, "repo") /\ d.trusted /\ d.action \in Actions
  BY DEF Answer
<1>2. env \in Environments
  BY DEF TypeOK
<1>3. Listens(d.event) /\ InScope("repo")
  BY <1>1, <1>2, GuardsMeanLists
<1>4. d.key = env.secret /\ d.key \in Names
  <2>1. d.key = env.secret
    BY <1>1 DEF Verified, Config, from_env
  <2>2. env.secret \in Setting /\ env.secret \notin {None, ""}
    BY <1>2, EnvironmentsAssumption DEF Environment, Reached, Starts
  <2>3. QED
    BY <2>1, <2>2 DEF Setting
<1>5. QED
  BY <1>1, <1>3, <1>4 DEF Invited

\* An event of a push that starts no review is one that the settings exclude.
LEMMA MissExcluded ==
  ASSUME TypeOK, NEW d \in Deliveries, Miss(d)
  PROVE  \/ env.secret # "secret" \/ env.token \in {None, ""} \/ env.url = None
         \/ ~InScope("repo") \/ ~Listens("pull_request")
<1> SUFFICES ASSUME env.secret = "secret", env.token \notin {None, ""},
                    env.url # None, InScope("repo"), Listens("pull_request")
             PROVE  FALSE
  OBVIOUS
<1>1. env \in Environments
  BY DEF TypeOK
<1>2. /\ d.small /\ d.key = "secret" /\ d.event = "pull_request"
      /\ d.json /\ d.trusted /\ d.action \in Actions
  BY DEF Miss, Notice, default_events
<1>3. repo_allowed(Config, "repo") /\ event_allowed(Config, d.event)
  BY <1>1, <1>2, GuardsMeanLists
<1>4. HasToken(env) /\ Verified(d)
  BY <1>2 DEF HasToken, Verified, Config, from_env
<1>5. Answer(d) = "200 queued"
  BY <1>2, <1>3, <1>4 DEF Answer
<1>6. Reached
  <2>1. env.secret # ""
    BY Zenon
  <2>2. env.secret # None
    BY NamesAssumption
  <2>3. QED
    BY <2>1, <2>2 DEF Reached, Starts, WebhookUrl
<1>7. QED
  BY <1>5, <1>6 DEF Miss

\* The labels of a version are labels of the App.
LEMMA SlugType ==
  ASSUME NEW v \in Version
  PROVE  {label_for(Config, slug) : slug \in Slugs(v)}
           \subseteq {label_for(Config, slug) : slug \in Verdicts}
  BY DEF Slugs, Verdicts

\* The webhook starts in the invariant.
LEMMA InitWebhook == Init => WebhookInv
<1> SUFFICES ASSUME Init PROVE WebhookInv
  OBVIOUS
<1>1. TypeOK
  <2>1. version \in Version /\ undelivered \in 0..(version + 1)
    BY DEF Init
  <2>2. /\ pc \in [Reviews -> {"idle"} \cup Busy \cup Ended]
        /\ cause \in [Reviews -> Deliveries \cup {None}]
        /\ diff \in [Reviews -> Version \cup {None}]
    BY Zenon DEF Init
  <2>3. labels \subseteq
          {"user"} \cup {label_for(Config, slug) : slug \in Verdicts}
    BY DEF Init
  <2>4. /\ env \in Environments /\ missed \in BOOLEAN /\ overlapped \in BOOLEAN
        /\ faults \in 0..MaxFaults
    <3>1. faults \in 0..MaxFaults
      BY DEF Init
    <3>2. QED
      BY <3>1, Zenon DEF Init
  <2>5. commented \subseteq Reviews /\ labeller \in Reviews \cup {None}
    BY DEF Init
  <2>6. QED
    BY <2>1, <2>2, <2>3, <2>4, <2>5 DEF TypeOK
<1>2. Active = {}
  BY DEF Init, Active, Busy
<1>3. ReviewsInvited /\ MissedByChoice /\ OneVerdict /\ Progress
  BY DEF Init, ReviewsInvited, MissedByChoice, OneVerdict, Progress
<1>4. HeadCovered /\ OneActive /\ LastIsCurrent
  BY <1>2 DEF Init, HeadCovered, OneActive, LastIsCurrent
<1>5. QED
  BY <1>1, <1>3, <1>4 DEF WebhookInv, WorkInv

\* Only a push changes the version, only GitHub's missed event the history, and
\* nothing the environment.
LEMMA Frame ==
  ASSUME [Next]_vars
  PROVE  /\ env' = env
         /\ missed' = missed \/ \E d \in Deliveries : Miss(d)
  BY DEF Next, vars, Miss, Queue, Work, Fetch, FetchFails, Comment, Label, Push,
         Crash, requestVars

\* An invitation stays one.
LEMMA InvitedStays ==
  ASSUME env' = env, NEW d PROVE Invited(d)' <=> Invited(d)
  BY DEF Invited, InScope, Listens

\* A request is about the reviews and the counters only.
LEMMA RequestType ==
  ASSUME TypeOK,
         \/ \E d \in Deliveries : Miss(d) \/ \E r \in Reviews : Queue(d, r)
         \/ Push
  PROVE  TypeOK'
<1>1. ASSUME NEW d \in Deliveries, Miss(d) PROVE TypeOK'
  <2>1. undelivered' \in 0..(version + 1) /\ missed' \in BOOLEAN
    <3>1. /\ version \in Version /\ undelivered \in 0..(version + 1)
          /\ undelivered > 0 /\ undelivered' = undelivered - 1
      BY <1>1, Zenon DEF Miss, TypeOK
    <3>2. undelivered' \in 0..(version + 1)
      BY <3>1
    <3>3. QED
      BY <1>1, <3>2, Zenon DEF Miss
  <2>2. UNCHANGED <<env, version, reviewVars, overlapped, faults>>
    BY <1>1 DEF Miss
  <2>3. UNCHANGED <<pc, cause, diff, commented, labels, labeller>>
    BY <2>2 DEF reviewVars
  <2>4. labels' \subseteq
          {"user"} \cup {label_for(Config', slug) : slug \in Verdicts}
    BY <2>2, <2>3 DEF TypeOK, Config
  <2>5. QED
    BY <2>1, <2>2, <2>3, <2>4 DEF TypeOK
<1>2. ASSUME NEW d \in Deliveries, NEW r \in Reviews, Queue(d, r)
      PROVE  TypeOK'
  <2>1. pc' \in [Reviews -> {"idle"} \cup Busy \cup Ended]
    BY <1>2 DEF Queue, TypeOK, Busy
  <2>2. cause' \in [Reviews -> Deliveries \cup {None}]
    BY <1>2 DEF Queue, TypeOK
  <2>3. undelivered' \in 0..(version + 1)
    <3>1. undelivered \in 0..(version + 1) /\ version \in Nat
      BY DEF TypeOK
    <3>2. undelivered' \in {undelivered, undelivered - 1} \cap Nat
      BY <1>2 DEF Queue
    <3>3. QED
      BY <3>1, <3>2
  <2>4. overlapped' \in BOOLEAN
    BY <1>2 DEF Queue, TypeOK
  <2>5. UNCHANGED <<env, version, missed, diff, commented, labels, labeller,
                    faults>>
    BY <1>2 DEF Queue
  <2>6. QED
    BY <2>1, <2>2, <2>3, <2>4, <2>5 DEF TypeOK, Config
<1>3. ASSUME Push PROVE TypeOK'
  <2>1. version' \in Version /\ undelivered' \in 0..(version' + 1)
    BY <1>3 DEF Push, TypeOK
  <2>2. QED
    BY <1>3, <2>1 DEF Push, reviewVars, TypeOK, Config
<1>4. QED
  BY <1>1, <1>2, <1>3

\* A review, and the end of the process, keep the types.
LEMMA ReviewType ==
  ASSUME TypeOK, (\E r \in Reviews : Work(r)) \/ Crash
  PROVE  TypeOK'
<1>1. ASSUME NEW r \in Reviews, Work(r) PROVE TypeOK'
  <2> USE DEF Goto
  <2>1. CASE Fetch(r)
    <3>1. pc' \in [Reviews -> {"idle"} \cup Busy \cup Ended]
      BY <2>1 DEF Fetch, TypeOK, Busy, Ended
    <3>2. diff' \in [Reviews -> Version \cup {None}]
      BY <2>1 DEF Fetch, TypeOK
    <3>3. QED
      BY <2>1, <3>1, <3>2 DEF Fetch, requestVars, TypeOK, Config
  <2>2. CASE FetchFails(r)
    <3>1. pc' \in [Reviews -> {"idle"} \cup Busy \cup Ended]
      BY <2>2 DEF FetchFails, TypeOK, Ended
    <3>2. UNCHANGED <<requestVars, diff, commented, labels, labeller>>
      BY <2>2 DEF FetchFails
    <3>3. labels' \subseteq
            {"user"} \cup {label_for(Config', slug) : slug \in Verdicts}
      BY <3>2 DEF requestVars, TypeOK, Config
    <3>4. faults' \in 0..MaxFaults
      BY <2>2 DEF FetchFails, Fault, TypeOK
    <3>5. QED
      BY <3>1, <3>2, <3>3, <3>4 DEF requestVars, TypeOK
  <2>3. CASE Comment(r)
    <3>1. pc' \in [Reviews -> {"idle"} \cup Busy \cup Ended]
      BY <2>3 DEF Comment, TypeOK, Busy
    <3>2. commented' \subseteq Reviews /\ faults' \in 0..MaxFaults
      BY <2>3 DEF Comment, Fault, TypeOK
    <3>3. QED
      BY <2>3, <3>1, <3>2 DEF Comment, requestVars, TypeOK, Config
  <2>4. CASE Label(r)
    <3>1. pc' \in [Reviews -> {"idle"} \cup Busy \cup Ended]
      BY <2>4 DEF Label, TypeOK, Ended
    <3>2. faults' \in 0..MaxFaults
      BY <2>4 DEF Label, Fault, TypeOK
    <3>3. CASE UNCHANGED <<labels, labeller>>
      <4>1. UNCHANGED <<requestVars, diff, commented>>
        BY <2>4 DEF Label
      <4>2. labels' \subseteq
              {"user"} \cup {label_for(Config', slug) : slug \in Verdicts}
        BY <3>3, <4>1 DEF requestVars, TypeOK, Config
      <4>3. labeller' \in Reviews \cup {None}
        BY <3>3 DEF TypeOK
      <4>4. QED
        BY <3>1, <3>2, <4>1, <4>2, <4>3 DEF requestVars, TypeOK
    <3>4. CASE SetLabels(r)
      <4>1. PICK slug \in Slugs(diff[r]) : labels' = {label_for(Config, slug)}
        BY <3>4 DEF SetLabels
      <4>2. slug \in Verdicts
        BY <4>1 DEF Slugs, Verdicts
      <4>3. env' = env /\ labeller' \in Reviews \cup {None}
        BY <2>4, <3>4 DEF Label, requestVars, SetLabels
      <4>4. labels' \subseteq
              {"user"} \cup {label_for(Config', s) : s \in Verdicts}
        BY <4>1, <4>2, <4>3 DEF Config
      <4>5. QED
        BY <2>4, <3>1, <3>2, <4>3, <4>4 DEF Label, requestVars, TypeOK
    <3>5. QED
      BY <2>4, <3>3, <3>4 DEF Label
  <2>5. QED
    BY <1>1, <2>1, <2>2, <2>3, <2>4 DEF Work
<1>2. ASSUME Crash PROVE TypeOK'
  <2>1. pc' \in [Reviews -> {"idle"} \cup Busy \cup Ended]
    BY <1>2 DEF Crash, TypeOK, Ended
  <2>2. QED
    BY <1>2, <2>1 DEF Crash, Fault, requestVars, TypeOK, Config
<1>3. QED
  BY <1>1, <1>2

\* Every step keeps the types.
LEMMA TypeStep == TypeOK /\ [Next]_vars => TypeOK'
<1>1. ASSUME TypeOK, UNCHANGED vars PROVE TypeOK'
  BY <1>1 DEF vars, TypeOK, Config
<1>2. QED
  BY <1>1, RequestType, ReviewType DEF Next

\* Every step keeps to the invitations.
LEMMA InvitedStep ==
  ASSUME TypeOK, ReviewsInvited, [Next]_vars PROVE ReviewsInvited'
<1>1. CASE \E d \in Deliveries, r \in Reviews : Queue(d, r)
  <2>1. PICK d \in Deliveries, r \in Reviews : Queue(d, r)
    BY <1>1
  <2>2. Invited(d)
    BY <2>1, QueuedInvited DEF Queue
  <2>3. \A q \in Reviews : pc'[q] # "idle" => Invited(cause'[q])
    BY <2>1, <2>2 DEF Queue, ReviewsInvited, TypeOK
  <2>4. QED
    BY <2>3, Frame DEF ReviewsInvited, Invited, InScope, Listens
<1>2. CASE ~\E d \in Deliveries, r \in Reviews : Queue(d, r)
  <2>1. /\ cause' = cause
        /\ \A q \in Reviews : pc'[q] # "idle" => pc[q] # "idle"
    BY <1>2
    DEF Next, vars, Miss, Work, Fetch, FetchFails, Comment, Label, Push, Crash,
        Goto, Active, Busy, requestVars, reviewVars, TypeOK
  <2>2. QED
    BY <2>1, Frame DEF ReviewsInvited, Invited, InScope, Listens
<1>3. QED
  BY <1>1, <1>2

\* Every step keeps to the operator's choices.
LEMMA MissedStep ==
  ASSUME TypeOK, MissedByChoice, [Next]_vars PROVE MissedByChoice'
<1>1. \/ env.secret # "secret" \/ env.token \in {None, ""} \/ env.url = None
      \/ ~InScope("repo") \/ ~Listens("pull_request")
      \/ ~missed'
  BY Frame, MissExcluded DEF MissedByChoice
<1>2. QED
  BY <1>1, Frame DEF MissedByChoice, InScope, Listens

\* A request, and a push, keep the invariant of the reviews.
LEMMA RequestStep ==
  ASSUME TypeOK, WorkInv,
         \/ \E d \in Deliveries : Miss(d) \/ \E r \in Reviews : Queue(d, r)
         \/ Push
  PROVE  WorkInv'
<1> USE DEF WorkInv
<1>1. ASSUME NEW d \in Deliveries, Miss(d) PROVE WorkInv'
  <2>1. Active' = Active /\ missed' = TRUE
    BY <1>1 DEF Miss, reviewVars, Active
  <2>2. OneVerdict' /\ Progress'
    BY <1>1 DEF Miss, reviewVars, OneVerdict, Progress
  <2>3. HeadCovered' /\ OneActive' /\ LastIsCurrent'
    BY <1>1, <2>1
    DEF Miss, reviewVars, HeadCovered, OneActive, LastIsCurrent
  <2>4. QED
    BY <2>2, <2>3
<1>2. ASSUME NEW d \in Deliveries, NEW r \in Reviews, Queue(d, r)
      PROVE  WorkInv'
  <2>1. /\ pc[r] = "idle" /\ pc' = [pc EXCEPT ![r] = "fetch"]
        /\ Active' = Active \cup {r}
    BY <1>2 DEF Queue, TypeOK, Active, Busy
  <2>2. OneVerdict' /\ Progress'
    BY <1>2 DEF Queue, OneVerdict, Progress, TypeOK
  <2>3. HeadCovered'
    BY <2>1 DEF HeadCovered, TypeOK
  <2>4. OneActive'
    BY <1>2, <2>1 DEF Queue, OneActive
  <2>5. LastIsCurrent'
    <3>1. ASSUME ~overlapped' PROVE Active' = {r} /\ pc'[r] = "fetch"
      BY <1>2, <2>1, <3>1 DEF Queue, TypeOK
    <3>2. QED
      BY <3>1 DEF LastIsCurrent
  <2>6. QED
    BY <2>2, <2>3, <2>4, <2>5
<1>3. ASSUME Push PROVE WorkInv'
  <2>1. undelivered' # 0
    BY <1>3 DEF Push, TypeOK
  <2>2. OneVerdict' /\ Progress' /\ OneActive'
    BY <1>3 DEF Push, reviewVars, OneVerdict, Progress, OneActive, Active
  <2>3. HeadCovered' /\ LastIsCurrent'
    BY <2>1 DEF HeadCovered, LastIsCurrent
  <2>4. QED
    BY <2>2, <2>3
<1>4. QED
  BY <1>1, <1>2, <1>3

\* A step of a review keeps the invariant of the reviews.
LEMMA WorkStep ==
  ASSUME TypeOK, WorkInv, NEW r \in Reviews, Work(r)
  PROVE  WorkInv'
<1> USE DEF WorkInv, Goto, requestVars
<1>1. CASE Fetch(r)
  <2>1. /\ pc' = [pc EXCEPT ![r] = "comment"] /\ pc[r] = "fetch"
        /\ diff' = [diff EXCEPT ![r] = version]
    BY <1>1 DEF Fetch, May, Permissions
  <2>2. OneVerdict' /\ Progress'
    BY <1>1, <2>1 DEF Fetch, OneVerdict, Progress, TypeOK
  <2>3. HeadCovered'
    BY <1>1, <2>1 DEF Fetch, HeadCovered, TypeOK
  <2>4. Active' = Active /\ r \in Active
    BY <2>1 DEF TypeOK, Active, Busy
  <2>5. OneActive'
    BY <1>1, <2>4 DEF Fetch, OneActive
  <2>6. LastIsCurrent'
    BY <1>1, <2>1, <2>4, <2>5 DEF Fetch, OneActive, LastIsCurrent, TypeOK
  <2>7. QED
    BY <2>2, <2>3, <2>5, <2>6
<1>2. CASE FetchFails(r)
  <2>1. faults' # 0 /\ Active' \subseteq Active
    BY <1>2 DEF FetchFails, Fault, TypeOK, Active, Busy
  <2>2. OneVerdict' /\ Progress' /\ OneActive'
    BY <1>2, <2>1 DEF FetchFails, OneVerdict, Progress, OneActive, TypeOK
  <2>3. QED
    BY <2>1, <2>2 DEF HeadCovered, LastIsCurrent
<1>3. CASE Comment(r)
  <2>1. /\ pc[r] = "comment" /\ pc' = [pc EXCEPT ![r] = "label"]
        /\ faults' = 0 => faults = 0 /\ commented' = commented \cup {r}
        /\ commented \subseteq commented'
    BY <1>3 DEF Comment, Fault, TypeOK, May, Permissions
  <2>2. OneVerdict' /\ Progress'
    BY <1>3, <2>1 DEF Comment, OneVerdict, Progress, TypeOK
  <2>3. HeadCovered'
    BY <1>3, <2>1 DEF Comment, HeadCovered, TypeOK
  <2>4. Active' = Active /\ r \in Active
    BY <2>1 DEF TypeOK, Active, Busy
  <2>5. OneActive'
    BY <1>3, <2>4 DEF Comment, OneActive
  <2>6. LastIsCurrent'
    BY <1>3, <2>1, <2>4 DEF Comment, LastIsCurrent, TypeOK
  <2>7. QED
    BY <2>2, <2>3, <2>5, <2>6
<1>4. CASE Label(r)
  <2>1. /\ r \in Active /\ Active' = Active \ {r}
        /\ diff[r] \in Version /\ pc'[r] = "done"
        /\ faults' = 0 => faults = 0
    BY <1>4 DEF Label, Fault, TypeOK, Progress, Active, Busy
  <2>2. \/ SetLabels(r)
        \/ labels' = labels /\ labeller' = labeller /\ faults' # 0
    BY <1>4 DEF Label, Fault, TypeOK, May, Permissions
  <2>3. OneVerdict'
    BY <2>2 DEF SetLabels, OneVerdict
  <2>4. Progress'
    BY <1>4, <2>1 DEF Label, TypeOK, Progress
  <2>5. HeadCovered'
    BY <1>4, <2>1 DEF Label, HeadCovered, TypeOK
  <2>6. OneActive'
    BY <1>4, <2>1 DEF Label, OneActive
  <2>7. LastIsCurrent'
    <3>1. SUFFICES
            ASSUME undelivered' = 0, ~missed', faults' = 0, ~overlapped'
            PROVE  /\ Active' = {}
                   /\ labeller' = r /\ diff'[r] = version'
                   /\ labels' \subseteq
                        {label_for(Config', slug) : slug \in Slugs(version')}
      BY <2>1, NoneAssumption DEF LastIsCurrent
    <3>2. /\ undelivered = 0 /\ ~missed /\ faults = 0 /\ ~overlapped
          /\ diff' = diff /\ version' = version /\ env' = env
      BY <1>4, <2>1, <3>1 DEF Label
    <3>3. Active' = {}
      BY <2>1, <3>2 DEF OneActive
    <3>4. diff[r] = version
      BY <1>4, <2>1, <3>2 DEF LastIsCurrent, Label
    <3>5. SetLabels(r)
      BY <2>2, <3>1
    <3>6. labels' \subseteq {label_for(Config', slug) : slug \in Slugs(version')}
      BY <3>2, <3>4, <3>5 DEF SetLabels, Config
    <3>7. QED
      BY <3>2, <3>3, <3>4, <3>5, <3>6 DEF SetLabels
  <2>8. QED
    BY <2>3, <2>4, <2>5, <2>6, <2>7
<1>5. QED
  BY <1>1, <1>2, <1>3, <1>4 DEF Work

\* The end of the process keeps the invariant of the reviews.
LEMMA CrashStep == ASSUME TypeOK, WorkInv, Crash PROVE WorkInv'
<1> USE DEF WorkInv
<1>1. faults' # 0 /\ Active' = {}
  BY DEF Crash, Fault, TypeOK, Active, Busy
<1>2. OneVerdict' /\ Progress'
  BY <1>1 DEF Crash, requestVars, OneVerdict, Progress, TypeOK, Active, Busy
<1>3. QED
  BY <1>1, <1>2 DEF HeadCovered, OneActive, LastIsCurrent

\* Every reachable state satisfies the invariant.
LEMMA AlwaysWebhookInv == Spec => []WebhookInv
<1>1. WebhookInv /\ [Next]_vars => WebhookInv'
  <2>1. ASSUME WorkInv, UNCHANGED vars PROVE WorkInv'
    BY <2>1
    DEF vars, WorkInv, OneVerdict, Progress, HeadCovered, OneActive,
        LastIsCurrent, Active, Config
  <2>2. ASSUME TypeOK, WorkInv, [Next]_vars PROVE WorkInv'
    BY <2>1, <2>2, RequestStep, WorkStep, CrashStep DEF Next
  <2>3. QED
    BY <2>2, TypeStep, InvitedStep, MissedStep DEF WebhookInv
<1>2. QED
  BY <1>1, InitWebhook, PTL DEF Spec

\* Requests, reviews and labels keep their types; the webhook never sets
\* other labels than those its settings give the two verdicts (app_state.rs:105).
THEOREM TypeCorrect == Spec => []TypeOK
<1>1. WebhookInv => TypeOK
  BY DEF WebhookInv
<1>2. QED
  BY <1>1, AlwaysWebhookInv, PTL

\* Every review was invited: the App does nothing for a request that any of
\* the guards refuses (webhook.rs:71-90).
THEOREM AllInvited == Spec => []ReviewsInvited
<1>1. WebhookInv => ReviewsInvited
  BY DEF WebhookInv
<1>2. QED
  BY <1>1, AlwaysWebhookInv, PTL

\* An event of a push is missed only if the operator's settings exclude it
\* (webhook.rs:71-104).
THEOREM NeverMissedOtherwise == Spec => []MissedByChoice
<1>1. WebhookInv => MissedByChoice
  BY DEF WebhookInv
<1>2. QED
  BY <1>1, AlwaysWebhookInv, PTL

\* Once all is settled the last version has its comment (webhook.rs:254-305).
THEOREM HeadGetsReviewed == Spec => []HeadIsReviewed
<1>1. WebhookInv => HeadIsReviewed
  BY DEF WebhookInv, WorkInv, HeadIsReviewed, Settled, HeadCovered, Progress, Active, Busy
<1>2. QED
  BY <1>1, AlwaysWebhookInv, PTL

\* Once all is settled, and if no two reviews overlapped, the label is that of
\* the last version (webhook.rs:254-305).
THEOREM LabelGetsCurrent == Spec => []LabelIsCurrent
<1>1. WebhookInv => LabelIsCurrent
  BY DEF WebhookInv, WorkInv, LabelIsCurrent, Settled, LastIsCurrent
<1>2. QED
  BY <1>1, AlwaysWebhookInv, PTL

=============================================================================
