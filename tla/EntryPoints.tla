---------------------------- MODULE EntryPoints ----------------------------
(***************************************************************************)
(* The programs through which somebody asks for an analysis, around the    *)
(* pipeline (module Pipeline), the snippet rules (Snippet) and the digest  *)
(* (Lens):                                                                 *)
(*   - the commands: argus with its five subcommands                       *)
(*     (crates/apohara-argus-cli/src/main.rs), argus-guard and argus-lens; *)
(*   - the MCP server and its four tools (crates/apohara-argus-mcp);       *)
(*   - the dashboard (crates/argus-dashboard), one process whose           *)
(*     environment holds the key of whoever gave one last.                 *)
(*                                                                         *)
(* One call is followed from its arrival to its answer, then another one:  *)
(* of the same process, or of another one.  The other callers of the       *)
(* dashboard are there through the one thing that they can change: the key *)
(* in its environment.                                                     *)
(***************************************************************************)
EXTENDS Pipeline, Snippet, Lens

CONSTANTS
  Keys,          \* API keys
  Snippets,      \* what is pasted into the analyzer page
  PullRequests   \* how many --mock-prs a digest may be given

ASSUME KeysAssumption == {"unset", "empty"} \cap Keys = {}
ASSUME PullRequestsAssumption == PullRequests \subseteq Nat
ASSUME SnippetsAssumption == Snippets \subseteq Seq(LineType)

VARIABLES
  call,      \* the call that is followed
  answer,    \* what it was told: a code, and a status if there is one
  process,   \* the program that is called
  settings,  \* of a dashboard: ARGUS_DEMO_MODE and ARGUS_PREMIUM, if set
  env,       \* ARGUS_NIM_KEY in the environment of that process
  later,     \* the keys other callers gave while the call waited
  briefing   \* docs/briefings/latest.md: "none", "part" or "whole", and the
             \* digest in it

entryVars == <<call, answer, process, settings, env, later, briefing>>
allVars == <<vars, entryVars>>

EnvKeys == Keys \cup {"unset", "empty"}
Commands == {"guard", "argus-guard", "verify", "lens", "argus-lens",
             "prompts", "health"}
Tools == {"aegis_slop", "aegis_security", "aegis_arch", "aegis_verdict"}
Forms == {"api", "form"}
Enterprise == {"org_dashboard", "policy_packs", "export_splunk",
               "export_datadog", "export_elastic"}
Pages == {"index", "submit", "review", "analyzer", "chain", "app_js",
          "api_health", "api_demo"}

NoCall == [door |-> "none", given |-> "unset", key |-> "unset",
           step |-> "idle", prs |-> 0, code |-> <<>>]
NoAnswer == [code |-> "none", status |-> "none"]
NoDigest == Aggregate(<<>>)

\* AnalysisPipeline::new, and nothing run yet.
Idle(analyzers) ==
  /\ pending' = analyzers
  /\ slop' = None /\ security' = None /\ arch' = None
  /\ verdict' = [status |-> "none", risk |-> 0]
  /\ decision' = "none"

EntryInit ==
  /\ Init
  /\ call = NoCall /\ answer = NoAnswer
  /\ process = "none" /\ settings = {} /\ env = "unset" /\ later = {}
  /\ briefing = [state |-> "none", digest |-> NoDigest]

Answer(code, status) ==
  /\ call' = [call EXCEPT !.step = "answered"]
  /\ answer' = [code |-> code, status |-> status]

\* Only the dashboard reads settings: ARGUS_DEMO_MODE if it is "true",
\* ARGUS_PREMIUM if it is "true" or "1".
SettingsOf(program) == IF program = "dashboard" THEN {"demo", "premium"} ELSE {}

\* A program is started, in an environment that has a key or not.
Starts(program) ==
  /\ call.step = "idle"
  /\ process' = program
  /\ settings' \in SUBSET SettingsOf(program)
  /\ env' \in EnvKeys
  /\ UNCHANGED <<vars, call, answer, later, briefing>>

StartProgram == \E program \in {"command", "mcp", "dashboard"} : Starts(program)

\* A call of the program that runs, with the key given.
ArrivesWith(program, door, given, step, code) ==
  /\ process = program
  /\ call.step = "idle"
  /\ call' = [door |-> door, given |-> given, key |-> "unset",
              step |-> step, prs |-> 0, code |-> code]

Arrives(program, door, given, step) ==
  ArrivesWith(program, door, given, step, <<>>)

-----------------------------------------------------------------------------
(* The commands.                                                           *)

\* clap: the option, or else the variable.
CliKey == IF call.given = "unset" THEN env ELSE call.given

RunCommand ==
  \E door \in Commands, given \in Keys \cup {"unset"} :
    /\ Arrives("command", door, given, "asked")
    /\ UNCHANGED <<vars, answer, env, later, process, settings, briefing>>

\* "--nim-key or ARGUS_NIM_KEY env var is required (BYOK)"; also of argus
\* prompts, which calls nobody.
RefusesCommand ==
  /\ call.step = "asked" /\ call.door \in Commands
  /\ CliKey \notin Keys
  /\ Answer("exit 2", "none")
  /\ UNCHANGED <<vars, env, later, process, settings, briefing>>

Begins(doors) ==
  /\ call.step = "asked" /\ call.door \in doors
  /\ CliKey \in Keys

\* An analysis begins, charged to key.
Analyzes(key) ==
  /\ call' = [call EXCEPT !.step = "analysis", !.key = key, !.given = "unset"]
  /\ Idle(Analyzers)
  /\ UNCHANGED answer

\* run_guard and argus-guard: read the diff, which may fail.
ReadDiff ==
  /\ Begins({"guard", "argus-guard"})
  /\ \/ Answer("exit 2", "none") /\ UNCHANGED vars
     \/ Analyzes(CliKey)
  /\ UNCHANGED <<env, later, process, settings, briefing>>

\* argus-guard only: nothing to look at.
EmptyDiff ==
  /\ Begins({"argus-guard"})
  /\ Answer("exit 0", "empty")
  /\ UNCHANGED <<vars, env, later, process, settings, briefing>>

\* run_prompts lists the embedded prompts.
ListPrompts ==
  /\ Begins({"prompts"})
  /\ Answer("exit 0", "none")
  /\ UNCHANGED <<vars, env, later, process, settings, briefing>>

\* run_health: the model echoes, or answers something else, or does not.
Health ==
  /\ Begins({"health"})
  /\ \E code \in {"exit 0", "exit 1", "exit 2"} : Answer(code, "none")
  /\ UNCHANGED <<vars, env, later, process, settings, briefing>>

\* verify_exit_code.
VerifyExit(status) == IF status = "Halted" THEN "exit 1" ELSE "exit 0"

\* Decision::exit_code.
GuardExit(d) == IF d = "Block" THEN "exit 1" ELSE "exit 0"

GuardAnswers ==
  /\ call.step = "analysis" /\ call.door \in {"guard", "argus-guard"}
  /\ decision # "none"
  /\ Answer(GuardExit(decision), verdict.status)
  /\ UNCHANGED <<vars, env, later, process, settings, briefing>>

-----------------------------------------------------------------------------
(* Aegis Lens: a digest of mock pull requests.                             *)

\* No pull request, or no script from the model.
LensFails ==
  /\ Begins({"lens", "argus-lens"})
  /\ Answer("exit 2", "none")
  /\ UNCHANGED <<vars, env, later, process, settings, briefing>>

\* The script is there; fs::write empties the file first.
LensScript ==
  /\ Begins({"lens", "argus-lens"})
  /\ \E n \in PullRequests \ {0} :
       call' = [call EXCEPT !.step = "writing", !.prs = n,
                            !.key = CliKey]
  /\ briefing' = [state |-> "part", digest |-> NoDigest]
  /\ UNCHANGED <<vars, answer, env, later, process, settings>>

\* render_markdown: the file shows the numbers of the digest.
Rendered(digest) == [state |-> "whole", digest |-> digest]

\* The markdown is on the disk.
Written == Rendered(Aggregate(MockPRs(call.prs)))

\* Mutant of LensWrites: an error of the write is not looked at.
LensWritesAnyway ==
  /\ call.step = "writing"
  /\ briefing' \in {briefing, Written}
  /\ Answer("exit 0", "none")
  /\ UNCHANGED <<vars, env, later, process, settings>>

\* The rest of the write, which may fail.
LensWrites ==
  /\ call.step = "writing"
  /\ \/ /\ briefing' = Written
        /\ Answer("exit 0", "none")
     \/ /\ Answer("exit 2", "none")
        /\ UNCHANGED briefing
  /\ UNCHANGED <<vars, env, later, process, settings>>

-----------------------------------------------------------------------------
(* VerifyWorker::analyze, behind argus verify and two of the dashboard's   *)
(* routes: the diff is fetched, then the key is read from the environment. *)

\* How the door tells of an error of analyze.
Failure(door) ==
  CASE door = "verify" -> "exit 2" [] door = "api" -> "500"
    [] door = "form" -> "200"

Fetch ==
  /\ call.step = "asked"
  /\ \/ call.door \in Forms
     \/ call.door = "verify" /\ CliKey \in Keys
  /\ \/ Answer(Failure(call.door), "error")
     \/ call' = [call EXCEPT !.step = "fetched"] /\ UNCHANGED answer
  /\ UNCHANGED <<vars, env, later, process, settings, briefing>>

\* Whatever the option said; the empty string is a key to env::var.
ReadKey ==
  /\ call.step = "fetched"
  /\ IF env = "unset"
       THEN Answer(Failure(call.door), "error") /\ UNCHANGED vars
       ELSE Analyzes(env)
  /\ later' = {}
  /\ UNCHANGED <<env, process, settings, briefing>>

VerifyAnswers ==
  /\ call.step = "analysis" /\ call.door = "verify"
  /\ verdict.status # "none"
  /\ Answer(VerifyExit(verdict.status), verdict.status)
  /\ UNCHANGED <<vars, env, later, process, settings, briefing>>

-----------------------------------------------------------------------------
(* The dashboard.                                                          *)

\* api_analyze where ARGUS_DEMO_MODE is set: the fixture has not the fields
\* of a response.
DemoAnalyze ==
  \E given \in Keys \cup {"unset"} :
    /\ "demo" \in settings
    /\ Arrives("dashboard", "api", given, "answered")
    /\ answer' = [code |-> "500", status |-> "error"]
    /\ UNCHANGED <<vars, env, later, process, settings, briefing>>

\* api_analyze without a key, neither in the body nor in the environment.
ApiRefuses ==
  /\ "demo" \notin settings /\ env \notin Keys
  /\ Arrives("dashboard", "api", "unset", "answered")
  /\ answer' = [code |-> "401", status |-> "none"]
  /\ UNCHANGED <<vars, env, later, process, settings, briefing>>

\* Mutant of EnvAfter: a key that is there already stays.
EnvAfterFirst(given) == IF given = "unset" \/ env \in Keys THEN env ELSE given

\* The key of the body or of the form replaces that of the environment.
EnvAfter(given) == IF given = "unset" THEN env ELSE given

AcceptsKey(door) ==
  \E given \in Keys \cup {"unset"} :
    /\ Arrives("dashboard", door, given, "asked")
    /\ env' = EnvAfter(given)
    /\ later' = {}
    /\ UNCHANGED <<vars, answer, process, settings, briefing>>

ApiAccepts == "demo" \notin settings /\ AcceptsKey("api") /\ env' \in Keys

\* submit_form looks for no key.
SubmitForm == AcceptsKey("form")

\* Another caller of the dashboard gives a key.
OtherCaller ==
  /\ \E key \in Keys :
       /\ env' = key
       /\ later' = later \cup IF call.step \in {"asked", "fetched"} THEN {key} ELSE {}
  /\ process = "dashboard"
  /\ UNCHANGED <<vars, call, answer, process, settings, briefing>>

WebAnswers ==
  /\ call.step = "analysis" /\ call.door \in Forms
  /\ verdict.status # "none"
  /\ Answer("200", verdict.status)
  /\ UNCHANGED <<vars, env, later, process, settings, briefing>>

\* The response about a snippet: whatever else it holds is drawn from the same
\* findings.
SnippetResponse(code) == [code |-> "200", status |-> SnippetStatus(code)]

\* api_analyze_snippet.
AnalyzeSnippet ==
  \E code \in Snippets :
    /\ ArrivesWith("dashboard", "snippet", "unset", "answered", code)
    /\ answer' = IF Blank(code)
                    THEN [code |-> "400", status |-> "none"]
                    ELSE SnippetResponse(code)
    /\ UNCHANGED <<vars, env, later, process, settings, briefing>>

\* The pages that show the same to everybody.
GetPage ==
  \E page \in Pages :
    /\ Arrives("dashboard", page, "unset", "answered")
    /\ answer' = [code |-> "200", status |-> "none"]
    /\ UNCHANGED <<vars, env, later, process, settings, briefing>>

\* GET /weekly and /api/briefing show the file as it is.
GetBriefing ==
  \E page \in {"weekly", "api_briefing"} :
    /\ Arrives("dashboard", page, "unset", "answered")
    /\ answer' = [code |-> "200", status |-> briefing.state]
    /\ UNCHANGED <<vars, env, later, process, settings, briefing>>

\* The five enterprise routes: payment required, unless ARGUS_PREMIUM is set.
GetEnterprise ==
  \E page \in Enterprise :
    /\ Arrives("dashboard", page, "unset", "answered")
    /\ answer' = [code |-> IF "premium" \in settings THEN "200" ELSE "402",
                  status |-> "none"]
    /\ UNCHANGED <<vars, env, later, process, settings, briefing>>

-----------------------------------------------------------------------------
(* The MCP server.                                                         *)

\* A tool is called; the server's own environment has the key.
CallTool ==
  \E tool \in Tools :
    /\ Arrives("mcp", tool, "unset", "asked")
    /\ UNCHANGED <<vars, answer, env, later, process, settings, briefing>>

\* No key, or reports that do not parse.
ToolRefuses ==
  /\ call.step = "asked"
  /\ \/ call.door \in Tools /\ env \notin Keys
     \/ call.door = "aegis_verdict"
  /\ Answer("-32000", "none")
  /\ UNCHANGED <<vars, env, later, process, settings, briefing>>

Specialist(tool) ==
  CASE tool = "aegis_slop" -> {"slop"} [] tool = "aegis_security" -> {"security"}
    [] tool = "aegis_arch" -> {"arch"} [] tool = "aegis_verdict" -> Analyzers

\* One analyzer, or, whatever the three reports that were given say, all.
ToolRuns ==
  /\ call.step = "asked" /\ call.door \in Tools
  /\ env \in Keys
  /\ call' = [call EXCEPT !.step = "analysis", !.key = env]
  /\ Idle(Specialist(call.door))
  /\ UNCHANGED <<answer, env, later, process, settings, briefing>>

SpecialistAnswers ==
  /\ call.step = "analysis"
  /\ call.door \in Tools \ {"aegis_verdict"}
  /\ pending = {}
  /\ IF slop = None /\ security = None /\ arch = None
       THEN Answer("-32000", "none")
       ELSE Answer("report", "none")
  /\ UNCHANGED <<vars, env, later, process, settings, briefing>>

VerdictAnswers ==
  /\ call.step = "analysis" /\ call.door = "aegis_verdict"
  /\ verdict.status # "none"
  /\ Answer("report", verdict.status)
  /\ UNCHANGED <<vars, env, later, process, settings, briefing>>

-----------------------------------------------------------------------------

\* The client refuses the empty key before it asks the model.
KeyWorks ==
  call.key # "empty" \/ (slop' = None /\ security' = None /\ arch' = None)

AnalyzerEnds ==
  /\ call.step = "analysis"
  /\ SlopEnds \/ SecurityEnds \/ ArchEnds
  /\ KeyWorks
  /\ UNCHANGED entryVars

Judges ==
  /\ call.step = "analysis"
  /\ \/ Verdict /\ call.door \notin Tools \ {"aegis_verdict"}
     \/ Guard /\ call.door \in {"guard", "argus-guard"}
  /\ UNCHANGED entryVars

\* The caller has its answer, and the next one may come.
Done ==
  /\ call.step = "answered"
  /\ call' = NoCall /\ answer' = NoAnswer /\ later' = {}
  /\ Idle(Analyzers)
  /\ UNCHANGED <<env, process, settings, briefing>>

Asks ==
  \/ RunCommand \/ DemoAnalyze \/ ApiRefuses \/ ApiAccepts \/ SubmitForm
  \/ AnalyzeSnippet \/ GetPage \/ GetBriefing \/ GetEnterprise \/ CallTool

Works ==
  \/ RefusesCommand \/ ReadDiff \/ EmptyDiff \/ ListPrompts \/ Health
  \/ LensFails \/ LensScript \/ LensWrites \/ Fetch \/ ReadKey
  \/ ToolRefuses \/ ToolRuns \/ AnalyzerEnds \/ Judges
  \/ GuardAnswers \/ VerifyAnswers \/ WebAnswers
  \/ SpecialistAnswers \/ VerdictAnswers

EntryNext == StartProgram \/ Asks \/ Works \/ OtherCaller \/ Done

EntrySpec == EntryInit /\ [][EntryNext]_allVars

-----------------------------------------------------------------------------
(* Properties.                                                             *)

EntryTypeOK ==
  /\ TypeOK
  /\ call.step \in {"idle", "asked", "fetched", "writing", "analysis", "answered"}
  /\ call.given \in Keys \cup {"unset"} /\ call.key \in EnvKeys
  /\ settings \subseteq {"demo", "premium"}
  /\ env \in EnvKeys /\ later \subseteq EnvKeys
  /\ briefing.state \in {"none", "part", "whole"}
  /\ briefing.digest \in {Aggregate(MockPRs(n)) : n \in PullRequests \cup {0}}
  /\ answer.status \in {"none", "error", "empty", "part", "whole"} \cup Statuses

Told == call.step = "answered"

\* Whichever way an analysis was asked for, what its caller is told is what
\* was found out: approval is told after a complete analysis with somebody's
\* key, exit 1 of argus verify and Halted go together, exit 0 of the guard
\* says that some report was there and the risk below the threshold, and a
\* digest that ended well is on the disk (apohara-argus-cli/src/main.rs:
\* 90-206, 253-266; argus-dashboard/src/main.rs:91-135).
ToldWhatIsSo ==
  Told =>
    /\ answer.status = "Approved" /\ call.door # "snippet" =>
         Complete /\ call.key \in Keys
    /\ call.door = "verify" =>
         (answer.code = "exit 1" <=> verdict.status = "Halted")
    /\ call.door \in {"guard", "argus-guard"} /\ answer.code = "exit 0" =>
         \/ answer.status = "empty"
         \/ /\ slop # None \/ security # None \/ arch # None
            /\ verdict.risk <= 70
    /\ call.door \in {"lens", "argus-lens"} /\ answer.code = "exit 0" =>
         /\ briefing.state = "whole"
         /\ DigestIsTrue(briefing.digest, MockPRs(call.prs))

\* An analysis is charged to the key that was given last before it began: to
\* another caller's, if one came while it waited, and to its own only if none
\* did.  A caller who gave none, and after whom none came, is charged to
\* whatever the environment was left with: to the operator's key or to that of
\* an earlier caller, nothing keeps them apart (argus-dashboard/src/main.rs:
\* 110-124, 164-169).
LastKeyCharged ==
  [][call.door \in Forms /\ call.step = "fetched" /\ call'.step = "analysis" =>
       /\ later # {} => call'.key \in later
       /\ later = {} /\ call.given \in Keys => call'.key = call.given]_allVars

\* The scans line by line agree with the functions there are: reported are
\* those with too many lines, on code whose braces match and whose outermost
\* blocks end with their line; and of the unwraps in a function, up to one
\* nested in it, all or none, whatever came before it, by its name alone.  That
\* is not what "outside test functions" and "in non-test code" say
\* (deterministic.rs:183, 205): the unwraps of a function under #[test] are
\* reported unless its name begins with test_.  And a snippet with a secret in
\* it is halted, unless it is refused for being blank (deterministic.rs:75-208;
\* argus-dashboard/src/main.rs:385-391).
RulesExact ==
  LET code == call.code IN
  call.door = "snippet" =>
    /\ Balanced(code) =>
         slop_001_oversized(code) = {<<"SLOP-001", i>> : i \in OversizedFunctions(code)}
    /\ \A i \in DOMAIN code : \A f \in 1..i :
         "unwrap" \in code[i].marks /\ InFunction(code, f, i) =>
           (<<"SLOP-004", i>> \in slop_004_unwrap(code) <=> ~code[f].test)
    /\ naive_hardcoded_secret(code) > 0 => answer.status = "Halted"

=============================================================================
