------------------------------ MODULE AppConfig ------------------------------
(***************************************************************************)
(* What the GitHub App makes of its environment: AppConfig                 *)
(* (crates/argus-github-app/src/app_state.rs), the manifest it offers at   *)
(* GET /setup (setup.rs) and the install token (webhook.rs).               *)
(*                                                                         *)
(* An environment is a record of variables.  A variable that is not set is *)
(* None.  A comma-separated list is the set of the pieces between the      *)
(* commas, each a name, possibly "", with or without blanks around it.     *)
(***************************************************************************)
CONSTANTS
  None,   \* no value
  Names   \* names of repositories, events, labels, secrets and tokens

Piece == [name : Names \cup {""}, blanks : BOOLEAN]
Setting == Names \cup {"", None}

Environment ==
  [secret : Setting,              \* ARGUS_APP_WEBHOOK_SECRET
   token : Setting,               \* ARGUS_APP_INSTALL_TOKEN
   pass : Setting,                \* ARGUS_APP_LABEL_PASS
   warn : Setting,                \* ARGUS_APP_LABEL_WARN
   repos : (SUBSET Piece) \cup {None},    \* ARGUS_APP_ALLOWED_REPOS
   events : (SUBSET Piece) \cup {None},   \* ARGUS_APP_EVENTS
   url : {None, "home", "home/"}] \* ARGUS_APP_WEBHOOK_URL

\* trim: the blanks around a piece are taken off.
Trimmed(p) == p.name

\* Mutant of Parsed: the pieces are not trimmed.
ParsedUntrimmed(list) ==
  {IF p.blanks THEN "blank or padded" ELSE p.name : p \in list} \ {""}

Parsed(list) == {Trimmed(p) : p \in list} \ {""}

OrElse(value, default) == IF value = None THEN default ELSE value

\* from_env fails, and main with it, without a secret.
Starts(env) == env.secret \notin {None, ""}

from_env(env) ==
  [webhook_secret |-> env.secret,
   label_pass |-> OrElse(env.pass, "argus/approved"),
   label_warn |-> OrElse(env.warn, "argus/needs-review"),
   allowed_repos |-> Parsed(OrElse(env.repos, {})),
   event_allowlist |->
     IF env.events = None THEN {"pull_request"} ELSE Parsed(env.events)]

\* Every slug but "approved" has the warn label; no code sends "halted".
label_for(config, slug) ==
  IF slug = "approved" THEN config.label_pass ELSE config.label_warn

\* An empty list allows every repository ...
repo_allowed(config, repo) ==
  config.allowed_repos = {} \/ repo \in config.allowed_repos

\* ... and no event.
event_allowed(config, event) == event \in config.event_allowlist

\* The client is built anew for each event, from a token that is not empty.
HasToken(env) == env.token \notin {None, ""}

-----------------------------------------------------------------------------
(* The manifest.                                                           *)

\* Mutant of Permissions: the App may read issues only.
PermissionsReading == {<<"pull_requests", "read">>, <<"issues", "read">>}

Permissions ==
  {<<"pull_requests", "read">>, <<"issues", "write">>, <<"metadata", "read">>}

default_events == {"pull_request"}

\* manifest_with_webhook_url: the slashes at the end of the base are trimmed.
WebhookUrl(env) ==
  <<IF env.url = None THEN "https://REPLACE_AT_INSTALL" ELSE "home", "webhook">>

\* What GitHub asks of an App for each of the three calls of a review.
May(call) ==
  CASE call = "diff" -> <<"pull_requests", "read">> \in Permissions
    [] call \in {"comment", "label"} -> <<"issues", "write">> \in Permissions

=============================================================================
