# Argus in TLA+

TLA+ modules of the parts of Argus that have concurrency, failure or decisions
in them, the TLC configurations that check them, and TLAPS proofs about them.
Paths are relative to the root of the repository; `CircuitBreaker.tla` and the
like are files of this directory. `PROJECT.json` maps each definition to the
lines it models and lists every run, theorem, hazard and finding.

## The system and its parts

Argus reviews pull requests. A diff is fetched from GitHub, three analyzers ask a
language model about it, their reports become one verdict, and the verdict is
written to a hash-chained ledger and published as a comment and a label.

| Part | State | Operations | Talks to | What is hard | What makes it correct |
|---|---|---|---|---|---|
| Circuit breaker (`argus-llm/src/circuit_breaker.rs`) | state, failure counter, last failure, each behind a lock | `call` | the inner `LlmClient`; shared by tasks | calls are admitted in one state and recorded in another; dropped futures; a counter that wraps | no call starts in the quiet window; it trips at the threshold; it recovers |
| Retry (`argus-llm/src/retry.rs`) | the attempt, the backoff | `complete` | the decorated client | many callers' retries meet one breaker; doubling at the boundary | outcomes match the attempts; no storm; every call ends |
| LLM clients (`nim.rs`, `openai_compat.rs`, `mock.rs`, `model_registry.rs`) | the audit chain of `NimClient` | `complete` | HTTP, audit events | the chain's two locks | receipts fork only among overlapping calls |
| Hash chain and identity (`argus-crypto`) | none | `append`, `verify_chain`, sign, verify | ledger, audit log, export | the caller has to carry the head; whoever has the entries can hash them anew | the chain does not fork; what verifies is hashed right, and is the history up to any hash of it that was kept |
| `VerifyWorker` (`argus-verify/src/lib.rs`) | two chain heads, the audit store | `analyze` | GitHub, pipeline, chains, store | each head is locked twice; clients that go away; answers that get lost | the chains; nothing published that is not ledgered; nothing left by a refused request |
| Audit store (`audit_store.rs`) | the events | `append`, `query_range`, `manifest_for` | worker, `GET /audit/export` | events arrive in another order than they were chained; the range begins a year ago | complete; an export verifies |
| Verify server (`main.rs`, `cache.rs`, `routes.rs`, `shutdown.rs`) | idempotency cache, the environment of the process | `POST /analyze`, hourly cleanup, export, A2A card | worker | retries overlap; the API key crosses an await in the environment | answers fit their questions; the caller's own key; the cache does not grow for ever |
| Pipeline (`argus-slop`) | none between calls | `run`, `synthesize`, the analyzers | language model | any subset of analyzers fails; unchecked scores | a partial analysis is never fine; worse is never milder |
| Deterministic rules (`argus-slop/src/deterministic.rs`) | none | five rules over a text | dashboard, GitHub App | a scan that carries depth and flags from line to line | the long functions are found; an unwrap is judged by the name of its function alone |
| Guard (`argus-guard`) | none | `GuardRunner::run` | pipeline, git | two formulas on one analysis | it does not contradict the verdict |
| GitHub client (`argus-github`) | none | `get_diff`, `post_comment`, `set_labels` | GitHub | failure, lost answers, labels are replaced | (through its users) |
| GitHub App (`argus-github-app`) | configuration, the token | `POST /webhook`, setup | GitHub, the rules | unordered, unlimited reviews; late and repeated events; settings written by hand; crash after the 200 | only invited reviews, and all of them; the last version is reviewed; one verdict |
| Agents (`argus-agent`) | the decision log | `DecisionLog`, orchestrator, Cordon | (nobody yet) | a log that is hashed in part; the scan for code is the caller's to call | the log is a chain; no code reaches the synthesizer |
| Command line, guard, lens, MCP server | none; the briefing file | five subcommands, two commands, four tools | pipeline, worker, lens | which key is checked and which one is used; half-written files | a caller is told what was found |
| Dashboard (`argus-dashboard`) | the key in the process environment, two switches fixed at start | two analyses, snippet page, chain page, premium pages | worker, rules, environment | all requests share one key | the key that was given last counts: a key of this request or of one that came while it waited; for a request without a key whatever was left there |
| npm package (`npm/`) | a cache of binaries in the user's home | postinstall hook, two proxies | release API, file system | kills between two system calls, two installs at once | only whole and verified binaries run |
| Telemetry, benchmarks, build | none | | all of the above | | |

Interaction: the server calls the worker, the worker calls the GitHub client, the
pipeline and the chains; the pipeline calls the clients; the commands, the MCP
server and the dashboard call the pipeline, or the worker; the GitHub App has only
the deterministic rules and the GitHub client. The breaker, the receipts and the
retry are decorators of an `LlmClient` (no binary puts the retry or the breaker
around its client yet). Shared state is what the table's second column says;
persistent are GitHub, the briefing file and the npm cache.

`PROJECT.json` lists every component with what is modelled of it and the hazards,
each at the line where it bites.

## Modules

| Module | Models | Abstraction |
|---|---|---|
| `CircuitBreaker` | `LlmCircuitBreaker` | a call is check, inner call, record; the age of the last failure instead of a clock |
| `RestingEndpoint` | what the breaker promises the endpoint | reachable or resting, and who is being served |
| `LlmStack` | a call through `RetryClient`, `NimClient`, the breaker and `OpenAICompatClient`; extends `CircuitBreaker`, whose actions are parts of its own | a response is its class; time in ticks |
| `HashChain` | `append` with the head carried along: what all the chains are meant to be | a hash stands for the entry it is of |
| `AuditLedger` | the entries with their fields, and `verify_chain` on whatever it is handed; extends `HashChain` | a hash is the sequence of payloads that went into it |
| `ChainPage` | the dashboard's chain page and its own check; extends `AuditLedger` | a shortened hash is any function of the hash |
| `Specialists` | agent specs, Cordon enforcer, prompt parser, A2A card (operators) | a text is whether it looks like a diff; a prompt file is its lines' kinds |
| `DecisionLog` | the orchestrator and its log, shown to implement `HashChain`; extends `Specialists` | the hash is the tuple that is hashed |
| `Ledgers` | the audit ledger and the decision log side by side; extends `ChainPage` and `DecisionLog` | |
| `VerifyWorker` | `VerifyWorker::analyze`, the store and the export, instance of `HashChain` twice | contents of reviews left out |
| `VerifyServer` | the `/analyze` handler, the cache, the environment | the worker is what the handler sees of it |
| `Pipeline` | `AnalysisPipeline::run` and Aegis Guard | scores in twentieths, risks in hundredths |
| `Snippet` | the deterministic rules and the verdict on a snippet (operators), with a definition of what the rules are meant to find | of a line, what the rules look for: its braces are `open` and `close` |
| `Lens` | the weekly digest (operators), and what makes a digest true | an author is a number, a risk is in hundredths |
| `EntryPoints` | commands, MCP server, dashboard; extends `Pipeline`, `Snippet`, `Lens` | one call at a time; the other callers are their keys |
| `AppConfig` | the GitHub App's environment and manifest (operators) | a list is its set of pieces, with or without blanks |
| `Webhook` | the GitHub App and one pull request; extends `AppConfig` | a diff is a version and the numbers of its findings |
| `Installer` | the npm hook, the cache and the proxies | a file is empty, whole, wrong or partial |
| `MC...` | instances for TLC | |
| `...Proofs` | theorems about the module of that name; `LlmStackProofs` also those about the breaker, `HashChainProofs` those about the page and the agents, `PipelineProofs` those about the entry points, the rules and the digest | |
| `RecursionFacts` | lemmas about recursive functions, and the induction they need | |

Definitions called mutants (`ExtendStale`, `GetAnyPr`, ...) are wrong variants of
the definition after them. No specification uses them: substituting one shows
that the property it is listed with in `PROJECT.json` can fail.

### State and actions

*CircuitBreaker.* `state`, `consecutive_failures` and `last_failure` are the
fields. `PassThrough`, `Probe` and `ShortCircuit` are the three ways through the
check (lines 105-118), each under the lock of `state`; `RecordSuccess` and
`RecordFailure` are lines 136-163, which take the three locks in one order and
write only once the last is held, so that each is one step. Between them no lock
is held, and `Cancel` drops the future there. `last_failure` is an age that stops
at `RecoveryTimeout`, since `elapsed >= recovery_timeout` is all that is asked of
it. The counter is modulo `CounterSize`, as in a release build.

*LlmStack.* Each caller makes one call, whose `stage` goes from the loop of
`RetryClient` (`ready`, with `wait` ticks of its backoff left) into the breaker
(`trying`) and out through the receipt (`answered`, `signing`). `Admitted` is the
breaker's `PassThrough` or `Probe`, `Refused` its `ShortCircuit`; `AttemptFails`
takes one of the client's error classes, lets the breaker count it and goes on or
returns; `ReadPrev` and `AdvancePrev` are the two critical sections on
`NimClient.prev_hash`. `Window` has the shift by the full width of the integer.
`sent`, `burst` and `met` are histories.

*AuditLedger, ChainPage, Specialists, DecisionLog.* Entries are written one by one
(`WriteEntry`, which is `Extend` with the entry itself). `verify_chain` takes no key
and knows no ledger, so `VerifyChain` looks at nothing but the entries of the story
it is handed, and `Stories` has honest and dishonest ones; the page's check and the
library's are compared on them. `HostNext` is a host that works as the crate is
meant to be used: it validates a plan, routes to role after role (`Route`), has
the reports scanned before a synthesizer gets them (`Synthesize`), and logs.
`DecisionLog!Log` maps the log to `HashChain` by the places of its entries.

*VerifyWorker.* `pc` follows `analyze` from await to await and from lock to lock.
`ReadLedgerHead` and `AdvanceLedger` are the two critical sections on `prev_hash`,
`ReadAuditHead` and `AdvanceAudit` those on `audit_prev_hash`. `Comment` may
deliver and lose the answer. `Disconnect` drops the future at an await point, and
only there. `emitted` orders the events by time stamp and `store` by arrival; the
stamp and the second lock of the audit head are one step, because nothing
suspends the task between them and only the order of the stamps is asked about.
`AuditExport` is `GET /audit/export` at any moment, `Answers` what the clients were
told.

*VerifyServer.* One action per step of the handler that other requests can come
between: look-up, choice of the key, `set_var`, the worker's read of the variable
after the diff was awaited, the end of the review, `put`. `Tick` and `Cleanup` are
the clock and the background task. `met`, here and in `VerifyWorker`, is a history
variable: for each request those that were in flight with it at some time.

*Pipeline.* The analyzers end in any order, each with any report or without one;
`Verdict` is `synthesize`, `Guard` the guard. Where an f32 lies on a threshold and
its rounding decides, both outcomes are allowed.

*EntryPoints.* A program is started with some environment (`Starts`), is called,
answers, and is called again. `call` is the call that is followed: its door, the
key it gave, the key its analysis is charged to. `RefusesCommand` to `Health` are
the commands, `Fetch` and `ReadKey` the worker as `argus verify` and two routes of
the dashboard reach it, `CallTool` to `VerdictAnswers` the MCP server. The
analysis in the middle is `Pipeline`'s, begun anew by `Idle`. `OtherCaller` is
another request to the dashboard, which may put its key into `env` at any time.
`LensScript` and `LensWrites` are the two halves of `fs::write`.

*Webhook.* The environment is chosen at the start and `from_env` makes a
configuration of it. `Answer` is the list of guards in their order; `Queue` spawns
a review; `Fetch`, `Comment` and `Label` are its GitHub calls, each of which may
fail; `Crash` ends the process. The surroundings push, and deliver events late, in
any order and repeatedly. `overlapped` is a history variable: two reviews were
under way at once at some time; `missed` another: the event of a push started no
review.

*Installer.* Each hook and each proxy is a process; its `stage` is the system call
it is at. `Lookup` to `Chmod` are the steps of `downloadBinary`, each of which may
give the binary up, and `Killed` ends a hook between any two of them. `told` is
what a hook has reported as installed, `clashed` the files that two hooks were
writing at once.

## What the runs show

| Run | Instance | Shows |
|---|---|---|
| `breaker` | 3 callers, threshold 2, window 2 ticks, counter of 5 values, 2 cancellations | fields agree with the recorded failures in every interleaving; `RestingEndpoint` is implemented, so that no call starts in the quiet window; rests end; recovery |
| `breaker_probes` | the same | two calls are in HalfOpen at once (finding) |
| `llm` | 3 callers, one without a key, 4 attempts, backoffs of 1 and 2 ticks with the shift's wrap within reach, 1 cancellation | what is returned matches the attempts made; no retry storm; receipts fork only among calls that were signing together; every call ends |
| `chain` | 3 entries; as stories all chains of up to 3 payloads, so also rewritten and made-up ones, and those of 3 different ones with a field altered, an entry taken out or two exchanged; shortened hashes that differ and that do not; 4 log entries, six plans, eight reports | the history verifies and so does every chain that is hashed anew, forged or not, and nothing else; one hash of the history kept elsewhere pins all that is before it; the page never rejects what verifies; the decision log implements `HashChain`; no code gets to the synthesizer; four descriptions of the agents agree |
| `worker` | 3 requests in any overlap, 1 client goes away, exports over the last 2 moments | forks only among requests that met; ledger, pull request and store say the same; receipts, chains and exports verify as long as no two requests meet |
| `worker_fork` | 2 requests | both chain to one predecessor (finding) |
| `server` | 4 requests (a repetition, a reused key, one without), in any overlap, 1 client goes away | answers fit; keys stray only between requests that met; nothing is reviewed that was cached when it came; the cleanup is invisible and empties the cache |
| `server_mixup` | 4 requests | a review runs with another caller's key (finding) |
| `pipeline` | 7 scores about each threshold and beyond the range, none or many findings, all severities, all subsets of failures, through every entry point, 2 keys; snippets of up to 4 lines | no approval of a partial analysis, agreement of guard and verdict, monotone verdicts; what a caller is told; that the key given last is used; what two of the rules find, as they are and not as their comments have it |
| `pipeline_critical` | 1 or 2 findings | a critical finding and an Allow (finding) |
| `webhook` | 9 environments, 2 pushes, 3 reviews, 6 kinds of request, 1 fault | invited reviews only, and all of them; one verdict; the last version is reviewed and, without overlap, labelled |
| `install` | 2 hooks, 1 proxy, 2 releases, 1 listed asset | what runs is whole, and verified where it can be; a cached file is final; what was reported is found, but for one case |

*Bounds.* Three callers are one that trips the breaker, one that was admitted
before and one that comes after; with a threshold of 2 a counter of 5 values
wraps within late failures. In `llm` two keyed callers and one keyless one, with
more attempts than the threshold, let each trip the breaker for the others; a
shift of 2 bits wraps at the third backoff as the one of 32 bits does at the 33rd.
Two requests are enough for every pair of critical sections to interleave, and a
third comes before, between or after them. A window of 2 moments leaves the
oldest of three events out of an export. Two requests with one idempotency key,
one that uses it for another pull request and one without cover the branches of
the look-up, and a time to live of 1 tick has a fresh entry and one that is just
too old. Verdicts depend on scores only through comparisons, and the scores chosen
lie on both sides of each. Snippets have all sequences of two lines of eleven
kinds, and of three or four lines of the six kinds that the two scans look at,
among them a line that closes a block and opens the next: a limit of one line
makes a function of three lines oversized. Twelve mock pull requests have seven at
0.5 or above, two more than the digest lists. Two pushes and three
reviews allow an old review to end after two newer, and the environments are one
that is fine, one that sets everything, and one for each thing that can be wrong.
Two hooks are one that writes and one that finds, truncates or is killed. Four log
entries hold a whole plan, and a plan and a half of two roles. The theorems below
have none of these bounds.

*Deadlock.* The sets of requests, calls, reviews, hooks and log entries are finite,
so those models end when everything is answered; their configurations switch the
deadlock check off for that reason. The breaker and the entry points never end and
have it on.

*Fairness.* Breaker: the clock advances; an inner call ends, because the HTTP
client has a timeout; and callers keep coming, which is an assumption on the
users without which a breaker that has no timer cannot move. `RestEnds` needs
only the clock. Stack: the clock advances, a request is answered within the
client's timeout of 120 s (openai_compat.rs:22-34), a task that can go on does;
nobody has to begin a call. Server: the clock, and the task that main.rs:76-91
spawns. Webhook: a spawned task is run and its calls end, because the client's
timeout is 30 seconds (argus-github/src/lib.rs:64). The other modules claim safety
only.

## Findings

1. `half_open_max_probes` is configured and documented and never read; any number
   of calls pass in HalfOpen (`breaker_probes`). What holds in its place is
   `QuietWindow`, and `StormBounded` for the calls behind it.
2. The heads of the ledger and of the audit log are read and replaced under
   separate locks, so that concurrent requests fork the chain, while
   docs/for-ciso.md:52 promises a chain of every verdict (`worker_fork`). What
   holds in its place is `ForksOverlapped`: only requests that were in flight
   together share a predecessor.
3. The API key of a request travels in the environment of the process, and a
   concurrent request may replace it (`server_mixup`). What holds is
   `KeyOfContemporary`: the other request was in flight at the same time.
4. Aegis Guard "blocks critical issues" (README.md:52), yet one critical finding
   adds 0.05 to the risk it decides from (`pipeline_critical`).

Two more are stated in the properties themselves, which say what the code does in
place of what its comments promise:

- *Unwraps outside of tests.* SLOP-004 means "outside test functions" and reports
  "in non-test code" (deterministic.rs:183, 205), yet the declaration of a function
  overrides the `#[test]` above it: `#[test] fn load()` with an unwrap is reported,
  and only a name that begins with `test_` keeps it silent. `RulesExact` therefore
  speaks of the name alone and says nothing of tests. The run has such a function.
- *Tamper evidence.* "Any modification of an earlier entry invalidates the chain
  from that point forward" (chain.rs:6-7) holds as long as the hashes after it stay
  as they were. The hash takes no key, so a chain whose end was replaced and hashed
  anew verifies, and so does one made up from `GENESIS_HASH`. `OneStory` says which
  chains verify, and that a hash kept elsewhere is what pins the history.

Noticed while modelling, without a run of their own:

*Language model.* The backoff's exponent is capped one too high, so that the 33rd
starts again at the initial backoff (retry.rs:74). `Retry-After` is parsed and
never honoured (openai_compat.rs:160-175). A body that takes longer than the
timeout is a `Parse` error, which is not retried. A caller without a key counts as
a failure of the endpoint and can open the breaker for all. The keys "live only
for the duration of the request" (argus-llm/src/lib.rs:5), and in server and
dashboard they stay in the environment of the process.

*Chains.* The removal of the last entries cannot be noticed by `verify_chain`
either; the page compares 16 characters of each hash. A ledger entry is kept in
the answer and nowhere else. The audit event names the worker's model and
temperature and not those of the analyzers' prompts. Most of a decision-log entry
(agent, kind, reasoning, time) is not hashed, and the log is called signed and is
not.

*Verdicts.* The worker formats the status with `{:?}` (`Approved`), and
`format_verdict_comment` looks for `APPROVED`, so that every posted comment is
marked as unknown (argus-verify/src/lib.rs:230-233,
argus-github/src/lib.rs:237-242). `aegis_verdict` runs the pipeline again,
whatever the reports it was given say, so its verdict may contradict them; its fix
plan, and that of `/analyze`, is always empty. The architecture score is a fit in
name and a badness in the code. `argus verify` checks the key of `--nim-key` and
reads another one from the environment, which no property speaks of; so does none
of the page that shows a briefing while it is half written, or after the write
failed halfway; `argus prompts` asks for a key it does not use. `top_offenders`
are the first five at 0.5 or above and not the worst.

*Rules.* The count of SLOP-001 includes the header's line; unmatched braces hide
every function after them. The Cordon scan misses lines that begin with `+x` and
flags bullets of Markdown; a routing plan is refused only if the synthesizer is
its first role.

*GitHub App.* webhook.rs:34-36 and app_state.rs:47-49 say that any other event is a
200 no-op, and an event outside the allowlist is a 422; webhook.rs:115 says that
the payload limit is 1 MiB, and it is 10 (cordon.rs:38); webhook.rs:14 says that
the language model runs if there is a key, and it never does; `label_fail` is
configured and never used; an empty list of events refuses all, and an empty list
of repositories allows all; main.rs:75 warns "until it is" set about a token that a
running process cannot be given; the page of setup.rs:184 mentions a route that
does not exist. A review is lost if the process ends after the 200, or if its diff
cannot be fetched: GitHub does not deliver the event again.

*Server.* Requests with one idempotency key that overlap are all reviewed, and the
retry of a request whose client timed out is reviewed again, because the dropped
handler never filled the cache.

*npm.* A hook that is killed after it has created the file leaves a cache hit for
ever; the proxy exits 0 when a signal ended its child; after a release newer than
the package the hook caches what the proxy does not look for.

## What is proved

Each theorem holds for every value of the constants that satisfies the
assumptions named in the module: any number of callers, requests, reviews,
pushes, hooks and faults, any configuration, code and documents of any size.
Every invariant and every action property of the passing runs is proved, and both
refinements; liveness is what is left to TLC.

| Module | Inductive invariant | Theorems |
|---|---|---|
| `LlmStackProofs`, the breaker | `BreakerInv`: types and `FieldsAgree` (`ClosedBelowThreshold`, `TrippedHasFailure`, `HalfOpenIsQuiet`) | `TypeCorrect`, `BreakerCorrect`, `StateMatchesHistory`, `EndpointLeftAlone` (`QuietWindow`), `BreakerKeepsPromise` (refinement of `RestingEndpoint`) |
| `LlmStackProofs`, the stack | `StackInv`: `BreakerInv`, types, what a caller has done at each stage (`Progress`), `OutcomeExplained`; on top of it `StormInv`: the calls since the last answer are the failures counted, those under way and those dropped (`BurstCounted`); and `ReceiptInv`: heads and links are receipts that were given, callers that are signing have met, nothing follows the head yet | `StackTypeCorrect`, `OutcomesExplained`, `NoRetryStorm`, `ReceiptsForkOnlyInOverlap` |
| `HashChainProofs`, the chain and the page | `ChainInv`: types, links lead to written entries (`Closed`), `Linear`, `Rooted`; on top of it `LedgerInv`: the entries of the ledger have the hashes of all the payloads before them, no payload twice, and the head is that of the last | `ChainCorrect`, `HistoryIsOneStory` (`OneStory`), `PageNeverStricter` (`PageAgrees`) |
| `HashChainProofs`, the agents | `CordonInv`: the plan that is followed has passed its check, and a synthesizer was given only documents that the scan found clean, after another role; `LogInv`: each entry of the log has the hash of the one before, no two the same, and a known writer | `CordonPrinciple` (`CordonHolds`), `DescriptionsAgree` (`SpecialistsAgree`), `LogImplementsChain` (refinement of `HashChain`) |
| `VerifyWorkerProofs` | `WorkerInv`: types, what a request has done at each location (`Stages`), heads that were read are written (`HashesKnown`), what is about to be stored is not (`NotYetStored`), and the properties; on top of it `ForkInv`: requests in flight have met (`MetInFlight`), nothing follows a head yet (`HeadsFollowNothing`), and who has read a head has met all that followed it since (`Readers`); `ReceiptInv`: while no two requests meet, the answers are the ledger's order up to what was lost (`InOrder`); and `ExportInv`: every event is emitted once (`EmittedOnce`), while no two requests meet it is stored in the order of the stamps and follows on the one before (`InTime`), and requests are lost only with their clients (`LossesCounted`) | `TypeCorrect`, `ChainsRooted`, `TrailComplete`, `ForksNeedOverlap`, `LedgerFromAnswers`, `ApartRequestsChain` (steps of `HashChain` while no two requests meet), `ExportsVerify` |
| `VerifyServerProofs` | `ServerInv`: types, a key is at hand between its choice and its use (`KeyAtHand`), cache entries are finished reviews of what they say (`CacheFits`), `AnswerFits`; on top of it `StrayInv`: whose key the environment can hold while a diff is awaited (`EnvStrays`) and whose verdict the cache can have got since a request looked (`CacheStrays`) | `TypeCorrect`, `AnswersFit`, `CleanupChangesNoAnswer`, `KeysOfContemporaries`, `NoReviewOfTheCached` |
| `PipelineProofs` | `PipelineInv`: types, the verdict is that of the reports (`VerdictKept`), the decision that of the verdict (`DecisionKept`); on top of it `EntryInv`: a call that waits has no verdict yet (`NotYet`), an analysis has a real key or finds nothing (`KeyUsed`), a form that waits finds a key given while it waited, or else its own if it gave one (`KeySeen`), and what was told (`ApprovalTold`, `ExitTold`, `GuardTold`, `DigestWritten`); `EntryTypes`: the types of calls, answers and surroundings; and `SnippetAnswered`: a snippet's call has the answer of its code at once | `TypeCorrect`, `NeverFineBlind`, `GuardAgrees`, `NoMilderVerdict`, `EntryTypeCorrect`, `LastKeyCounts` (`LastKeyCharged`), `ToldTruly`, `RulesFindAll` (`RulesExact`) |
| `WebhookProofs` | `WebhookInv`: types, `ReviewsInvited`, `MissedByChoice`, `OneVerdict`, what a review has at each location (`Progress`), somebody has the last version or is about to fetch it (`HeadCovered`), no overlap means one review at a time (`OneActive`), whose label is that of the last version (`LastIsCurrent`) | `TypeCorrect`, `AllInvited`, `NeverMissedOtherwise`, `HeadGetsReviewed`, `LabelGetsCurrent` |
| `InstallerProofs` | `WholeInv`: types, without a clash one hook writes a file (`Alone`), which nobody can run before its last step (`Fresh`, `Filled`, `Executable`), its bytes have passed the check (`Verified`), a started image is sound (`Started`); on top of it `ToldInv`: the version a hook downloads is the one it was asked for or the newest (`Settled`), and what it reported has bytes (`Reported`) | `InstallTypeCorrect`, `OnlyWholeBinariesRun`, `CachedFilesAreFinal`, `ToldIsFound` (`FoundWhenTold`) |

*Why the strengthenings are needed.* Rootedness of a chain is not inductive for
the worker: an entry is linked to a head that was read earlier, and only
`HashesKnown` says that this head was written before the entry. An export
verifies because of three things at once: what arrives in time is in the order of
the stamps, each event follows on the one stamped before it, and the only gaps are
the events of lost requests (`InTime`, `LossesCounted`). An answer from the cache
fits only because what was put there fitted (`CacheFits`). That the last version
has its comment at the end follows from who can still bring it at every moment
before (`HeadCovered`): a push makes its event undelivered, the delivery makes a
review that has yet to fetch, the fetch takes the version as it then is.
`ReviewsInvited` and `MissedByChoice` rest on a lemma about the environment alone
(`GuardsMeanLists`): what the parsed lists let through is what was written in
them. The bound on a storm does not mention the retry budget, because every call
behind it is accounted for by the breaker (`BurstCounted`). A file that a hook
reported stays, because no step takes its bytes away once the hook is through with
it; that a proxy looks for the same file needs the version that the hook settled
on before it began (`Settled`).

*Refinements.* They are proved step by step: each action of the breaker is a step
of `RestingEndpoint` or leaves its two variables alone; each action of the
orchestrator is `HashChain!Extend` by the place of the new entry, or leaves the
log alone (`LogInv` makes the hash of an entry name its place); the head that a
request of the worker read is still the head when it replaces it, unless it has
met another (`Readers`).

*Induction over data.* The prover cannot be given an induction theorem, which
takes an operator; but "a set of numbers that is not empty has a least one" takes
a set. `RecursionFacts` draws from it that a recursive function exists
(`RecursionExists`) and that what holds of 0 and is handed on holds up to n
(`Climbs`), and the proofs go through what the functions compute:

- `HistoryIsOneStory`: a story verifies just if each of its hashes is the sequence
  of all the payloads up to there, going through it from the front
  (`VerifiedIsRehashed`, `RehashedIsLinked`); so two stories with one hash in common
  have the same entries before it (`OneHashOnePast`).
- `CordonPrinciple`: the scan for raw code goes down a document level by level
  (`Caught`), and finds code at any depth up to that of the document.
- `ExportsVerify`: `query_range` is the sub-sequence of the store within the range.
- `RulesFindAll`: the state of the scan for long functions after each line
  (`LineDoes`) and after each brace (`BraceDoes`) is its depth, the function it
  awaits the end of and the lines counted since, and the flag of the scan for
  unwraps is that of the last line that set it (`FlagIsStanding`).
- `ToldTruly`: summing up team by team is summing up one by one (`Regrouped`), and
  the offenders so far are the first risky ones (`OffendersFound`), for any pull
  requests no two of which are the same, so for those of `--mock-prs`.

The theorems of `PipelineProofs` are about `EntrySpec`, the specification that TLC
checks: a step of an entry point is a step of the pipeline, begins a new one
(`Idle`) or leaves it alone (`EntrySteps`), so what the pipeline keeps is kept
whoever asks.

*What the proofs changed in the model.* `Balanced`, the condition under which
SLOP-001 is exact, used to ask only that the depth is never negative after a line.
That is not enough: a line such as `} {` ends one block and opens another, and the
scan forgets the function between the two. It now asks that no line goes on after
the brace that ends an outermost block, and the run has such lines. The scan of
`Specialists`, the range of the export, the scans of `Snippet` and the sums of
`Lens` are recursive functions, so that they can be reasoned about; documents are
looked at down to a depth (`JsonDepth`, any number), and what is in a document is
one of the values the scan knows (`JsonAssumption`).

*Assumptions on the constants.* Beyond the types: stories are sequences of entries
(`StoriesAssumption`), every hash in them has a shortened form, whichever
(`ShorteningsAssumption`), plans are sequences of roles, reports are documents
(`DocumentsAssumption`), and snippets are sequences of lines, a declared function
having a name and no attribute on its line, and a blank line no secret
(`SnippetsAssumption`, `LineType`). TLC evaluates each of them on its run.

*Only model-checked.* Liveness (`Recovers`, `RestEnds`, `CallEnds`, `ExpiredGo`,
`LabelTried`), because the prover has no rules for fairness and none for
`ENABLED`.

*Assumed.* BLAKE3 does not collide and payloads are distinct (each carries a time
stamp or a UUID); signatures are sound; a mutex is never poisoned; the clock is
monotonic.

## Not modelled

Formatting, wording, HTML, logging and telemetry; cryptography itself; what a
regular expression matches within a line; the request body and the JSON of a
model's answer (an analyzer has a report or fails); the SQLite store, which is not
compiled; `/health` and `/version`; the mock client and the table of models; the
rest of the setup manifest; Windows, redirects and platforms in the npm package;
build files and benchmarks. `PROJECT.json` gives the reason for each component.

Within the modelled parts: `EntryPoints` follows one call at a time, and the other
callers of a dashboard only as far as the key they bring; `DecisionLog` has a host
of its own making, because no binary has one; `Webhook` keeps one environment for
the life of the process, as the App does, and takes the code's own word for which
hosts are trusted: `check_no_ssrf` compares the end of a host's name
(cordon.rs:116-131), which lets through more than the GitHub hosts that
cordon.rs:16-19 speaks of.

## Plan

All modules of the first plan are written, and all their safety properties proved:
the modules with shared state and the worst interleavings (breaker, chain, worker,
server), the decisions (pipeline, guard, rules), the GitHub App, then the
language-model stack, the entry points, the agents and the npm package. What could
come next:

1. The worker inside the server as one composed module, so that the key of a
   review and its ledger entry can be related.
2. An inductive invariant for the worker's calls that fail half-way, so that the
   number of ledger entries without a comment can be bounded and not only named.
3. The SQLite store, if the crate comes to compile it: its `append` under a
   transaction against `StoreComplete`, with crashes between the two.
