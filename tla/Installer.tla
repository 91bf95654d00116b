------------------------------ MODULE Installer ------------------------------
(***************************************************************************)
(* The npm package around the binaries: the postinstall hook and the       *)
(* downloads it makes (npm/scripts/postinstall.js, install.js), and the    *)
(* two proxies that start what they find in the cache (npm/bin).           *)
(*                                                                         *)
(* One cache directory is shared by every install and every proxy of the   *)
(* user.  Each of them is a process of its own: between any two system     *)
(* calls another one may take a step, and any of them may be killed.  A    *)
(* host whose file system has no permission bits (Windows) is not here.    *)
(***************************************************************************)
EXTENDS Naturals

CONSTANTS
  Installs,     \* runs of the postinstall hook
  Commands,     \* runs of a proxy
  Tags,         \* versions that are released
  NpmVersion,   \* the version of this package
  Listed,       \* the assets that the SHA256SUMS of their release lists
  None          \* nothing: no file, no body, no version

Binaries == {"argus", "argus-mcp"}
Files == Tags \X Binaries

ASSUME TagsAssumption == NpmVersion \in Tags /\ "latest" \notin Tags
ASSUME NoneAssumption ==
  None \notin Tags /\ None \notin {"good", "bad", "part"} /\ None \notin 0..2
ASSUME ListedAssumption == Listed \subseteq Files

Wants == Tags \cup {"latest"}    \* ARGUS_VERSION, which is "latest" when unset
Bodies == {"good", "bad"}        \* the published asset, and anything else

VARIABLES
  cache,     \* for each file its bytes ("part" while they are incomplete) and
             \* whether it is executable
  install,   \* where each hook is and what it holds
  told,      \* the binaries each hook has reported as installed
  command,   \* where each proxy is, what it started and how it exited
  clashed    \* files that two hooks were writing at once

installVars == <<cache, install, told, command, clashed>>

\* A hook downloads "argus", then "argus-mcp".
InstallInit ==
  /\ cache = [f \in Files |-> [bytes |-> None, exec |-> FALSE]]
  /\ install \in [Installs -> {[stage |-> "resolve", want |-> w, binary |-> "argus",
                                latest |-> None, version |-> None, body |-> None] :
                                 w \in Wants}]
  /\ told = [p \in Installs |-> {}]
  /\ command = [u \in Commands |-> [stage |-> "lookup", want |-> "latest",
                                    binary |-> "argus", image |-> None,
                                    code |-> None]]
  /\ clashed = {}

-----------------------------------------------------------------------------
(* The hook.  Whatever goes wrong ends the download, not the hook: main    *)
(* notes the error and goes on with the next binary, or ends.              *)

File(p) == <<install[p].version, install[p].binary>>

\* From the lookup that found no file to the last byte of it.
Writing(p, f) ==
  /\ install[p].stage \in {"archive", "raw", "sums", "open", "fill"}
  /\ File(p) = f

NextBinary(p) ==
  install' = [install EXCEPT
    ![p].stage = IF install[p].binary = "argus" THEN "resolve" ELSE "done",
    ![p].binary = "argus-mcp",
    ![p].version = None,
    ![p].body = None]

GivesUp(p) == NextBinary(p) /\ UNCHANGED <<cache, told, command, clashed>>

Reports(p) ==
  /\ told' = [told EXCEPT ![p] = @ \cup {install[p].binary}]
  /\ NextBinary(p)

\* resolveVersion; the answer of the release API is kept for the process.
Resolve(p) ==
  /\ install[p].stage = "resolve"
  /\ \/ \E t \in Tags :
          /\ \/ install[p].want \in {t, "latest"} /\ install[p].latest = None
             \/ install[p].latest = t
          /\ install' = [install EXCEPT
               ![p].stage = "lookup",
               ![p].version = t,
               ![p].latest = IF install[p].want = "latest" THEN t ELSE None]
          /\ UNCHANGED <<cache, told, command, clashed>>
     \/ install[p].want = "latest" /\ install[p].latest = None /\ GivesUp(p)

\* Mutant of Hit: the cache is not looked at.
HitNever(f) == FALSE

Hit(f) == cache[f].bytes # None

\* A file that is there is taken as it is.
Lookup(p) ==
  /\ install[p].stage = "lookup"
  /\ IF Hit(File(p))
       THEN Reports(p) /\ UNCHANGED <<cache, command, clashed>>
       ELSE /\ install' = [install EXCEPT ![p].stage = "archive"]
            /\ clashed' = IF \E q \in Installs \ {p} : Writing(q, File(p))
                            THEN clashed \cup {File(p)} ELSE clashed
            /\ UNCHANGED <<cache, told, command>>

\* The .tar.gz, whose bytes are taken for the binary; without one, the binary
\* itself; any failure but the missing archive is final.
Fetch(p) ==
  /\ install[p].stage \in {"archive", "raw"}
  /\ \/ \E bytes \in Bodies :
          /\ install' = [install EXCEPT ![p].stage = "sums", ![p].body = bytes]
          /\ UNCHANGED <<cache, told, command, clashed>>
     \/ /\ install[p].stage = "archive"
        /\ install' = [install EXCEPT ![p].stage = "raw"]
        /\ UNCHANGED <<cache, told, command, clashed>>
     \/ GivesUp(p)

\* An asset that SHA256SUMS does not list is not verified.
Passes(p) == File(p) \in Listed => install[p].body = "good"

Verify(p) ==
  /\ install[p].stage = "sums"
  /\ \/ /\ Passes(p)
        /\ install' = [install EXCEPT ![p].stage = "open"]
        /\ UNCHANGED <<cache, told, command, clashed>>
     \/ GivesUp(p)

\* Mutant of NewMode: the file is created executable.
NewModeExec(f) == TRUE

\* The mode 0644 is given to a file that is created; one that is truncated
\* keeps its own.
NewMode(f) == cache[f].exec

\* writeFileSync opens and truncates, then writes.
Open(p) ==
  /\ install[p].stage = "open"
  /\ \/ /\ cache' = [cache EXCEPT ![File(p)] =
                       [bytes |-> "part", exec |-> NewMode(File(p))]]
        /\ install' = [install EXCEPT ![p].stage = "fill"]
        /\ UNCHANGED <<told, command, clashed>>
     \/ GivesUp(p)

\* With a second writer in the file, what it left may show.
Fill(p) ==
  /\ install[p].stage = "fill"
  /\ \/ /\ \E bytes \in {install[p].body} \cup
             (IF \E q \in Installs \ {p} : install[q].stage = "fill" /\ File(q) = File(p)
                THEN {"part", "bad"} ELSE {}) :
             cache' = [cache EXCEPT ![File(p)].bytes = bytes]
        /\ install' = [install EXCEPT ![p].stage = "chmod"]
        /\ UNCHANGED <<told, command, clashed>>
     \/ GivesUp(p)

Chmod(p) ==
  /\ install[p].stage = "chmod"
  /\ cache' = [cache EXCEPT ![File(p)].exec = TRUE]
  /\ Reports(p)
  /\ UNCHANGED <<command, clashed>>

Killed(p) ==
  /\ install[p].stage \notin {"done", "killed"}
  /\ install' = [install EXCEPT ![p].stage = "killed", ![p].version = None,
                               ![p].body = None]
  /\ UNCHANGED <<cache, told, command, clashed>>

-----------------------------------------------------------------------------
(* The proxies, apohara-argus.js and apohara-argus-mcp.js.                 *)

\* Mutant of Resolved: the newest release is meant.
ResolvedNewest(w) ==
  IF w = "latest" THEN CHOOSE t \in Tags : t # NpmVersion ELSE w

\* getBinaryPath asks nobody: "latest" is the version of the package.
Resolved(w) == IF w = "latest" THEN NpmVersion ELSE w

Wanted(u) == <<Resolved(command[u].want), command[u].binary>>

Exits(u, code) ==
  command' = [command EXCEPT ![u].stage = "ended", ![u].code = code]

\* Somebody runs a proxy, with some ARGUS_VERSION.
LookupBinary(u) ==
  /\ command[u].stage = "lookup"
  /\ \E w \in Wants, b \in Binaries :
       LET found == cache[<<Resolved(w), b>>].bytes # None
       IN  command' = [command EXCEPT
             ![u].stage = IF found THEN "spawn" ELSE "ended",
             ![u].want = w,
             ![u].binary = b,
             ![u].code = IF found THEN None ELSE 1]
  /\ UNCHANGED <<cache, install, told, clashed>>

\* A file without the permission is an error event.
Spawn(u) ==
  /\ command[u].stage = "spawn"
  /\ IF cache[Wanted(u)].exec
       THEN command' = [command EXCEPT ![u].stage = "running",
                                       ![u].image = cache[Wanted(u)].bytes]
       ELSE Exits(u, 1)
  /\ UNCHANGED <<cache, install, told, clashed>>

Signalled == 3    \* a child that a signal has ended: it has no code

\* code || 0
ExitCode(code) == IF code = Signalled THEN 0 ELSE code

ChildExits(u) ==
  /\ command[u].stage = "running"
  /\ \E code \in {0, 1, 2, Signalled} : Exits(u, ExitCode(code))
  /\ UNCHANGED <<cache, install, told, clashed>>

InstallStep(p) ==
  \/ Resolve(p) \/ Lookup(p) \/ Fetch(p) \/ Verify(p) \/ Open(p) \/ Fill(p)
  \/ Chmod(p) \/ Killed(p)

CommandStep(u) == LookupBinary(u) \/ Spawn(u) \/ ChildExits(u)

InstallNext ==
  \/ \E p \in Installs : InstallStep(p)
  \/ \E u \in Commands : CommandStep(u)

InstallSpec == InstallInit /\ [][InstallNext]_installVars

-----------------------------------------------------------------------------
(* Properties.                                                             *)

HookStages == {"resolve", "lookup", "archive", "raw", "sums", "open", "fill",
               "chmod", "done", "killed"}

InstallTypeOK ==
  /\ cache \in [Files -> [bytes : Bodies \cup {None, "part"}, exec : BOOLEAN]]
  /\ install \in [Installs ->
       [stage : HookStages, want : Wants, binary : Binaries,
        latest : Tags \cup {None}, version : Tags \cup {None},
        body : Bodies \cup {None}]]
  /\ told \in [Installs -> SUBSET Binaries]
  /\ command \in [Commands ->
       [stage : {"lookup", "spawn", "running", "ended"}, want : Wants,
        binary : Binaries, image : Bodies \cup {None, "part"},
        code : {None, 0, 1, 2}]]
  /\ clashed \subseteq Files

Sound(f, bytes) == bytes \in Bodies /\ (f \in Listed => bytes = "good")

\* What a proxy starts, and so whatever lets a commit through with exit code
\* 0, is a whole binary, and the published one if its release lists it: the
\* permission is given last, so that no kill, full disk or failed request
\* leaves a part of a file that runs.  The exception is a file that two
\* installs were writing at once: the second truncates what the first has
\* made executable (install.js:222, 278-293; apohara-argus.js:37).
OnlyWholeRuns ==
  \A u \in Commands :
    /\ command[u].image # None /\ Wanted(u) \notin clashed
         => Sound(Wanted(u), command[u].image)
    /\ command[u].code = 0 => command[u].image # None

Untouched(f) ==
  \A p \in Installs :
    ~Writing(p, f) /\ ~(install[p].stage = "chmod" /\ File(p) = f)

\* Once a file is there and nobody is writing it, it stays as it is: no
\* install fetches over a binary that may be in use.  The price is that the
\* rest of an install that was killed is a hit for ever, which no later
\* install repairs (install.js:221-224).
CachedIsFinal ==
  [][\A f \in Files : cache[f].bytes # None /\ Untouched(f) =>
        Untouched(f)' /\ cache'[f] = cache[f]]_installVars

\* A proxy that finds no file where a hook with the same ARGUS_VERSION has
\* reported one: only for "latest", and only if the newest release was not the
\* one of this package.  The hook asks the release API, the proxy its own
\* package.json (install.js:177-182, 301-314).
FoundWhenTold ==
  [][\A u \in Commands, p \in Installs :
       /\ command[u].stage = "lookup" /\ command'[u].stage = "ended"
       /\ install[p].want = command'[u].want /\ command'[u].binary \in told[p]
       => command'[u].want = "latest" /\ install[p].latest # NpmVersion]_installVars

=============================================================================
