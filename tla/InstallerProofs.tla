--------------------------- MODULE InstallerProofs ---------------------------
(***************************************************************************)
(* For any number of hooks, proxies and versions: the type invariant, that *)
(* only whole binaries run unless two hooks wrote the same file, that a    *)
(* cached file is final, and that a proxy finds what a hook reported.      *)
(***************************************************************************)
EXTENDS Installer, TLAPS

InstallRecords ==
  [stage : HookStages, want : Wants, binary : Binaries,
   latest : Tags \cup {None}, version : Tags \cup {None},
   body : Bodies \cup {None}]

CommandRecords ==
  [stage : {"lookup", "spawn", "running", "ended"}, want : Wants,
   binary : Binaries, image : Bodies \cup {None, "part"}, code : {None, 0, 1, 2}]

CacheRecords == [bytes : Bodies \cup {None, "part"}, exec : BOOLEAN]

\* A download has a version, and a body from the fetch on.
Under(p) ==
  /\ install[p].stage \in {"lookup", "archive", "raw", "sums", "open", "fill", "chmod"}
       => install[p].version \in Tags
  /\ install[p].stage \in {"sums", "open", "fill", "chmod"}
       => install[p].body \in Bodies

TypeInv == InstallTypeOK /\ \A p \in Installs : Under(p)

\* What the hook does to itself keeps the type.
LEMMA HookMoves ==
  ASSUME TypeInv, NEW p \in Installs, NEW r \in InstallRecords,
         install' = [install EXCEPT ![p] = r],
         r.stage \in {"lookup", "archive", "raw", "sums", "open", "fill", "chmod"}
           => r.version \in Tags,
         r.stage \in {"sums", "open", "fill", "chmod"} => r.body \in Bodies,
         cache' \in [Files -> CacheRecords],
         told' \in [Installs -> SUBSET Binaries],
         clashed' \subseteq Files, command' = command
  PROVE  TypeInv'
<1>1. InstallTypeOK'
  BY DEF TypeInv, InstallTypeOK, InstallRecords, CacheRecords
<1>2. ASSUME NEW q \in Installs PROVE Under(q)'
  <2>1. install'[q] = IF q = p THEN r ELSE install[q]
    BY DEF TypeInv, InstallTypeOK
  <2> QED
    BY <2>1 DEF TypeInv, Under
<1> QED
  BY <1>1, <1>2 DEF TypeInv

LEMMA NextBinaryMoves ==
  ASSUME TypeInv, NEW p \in Installs, NextBinary(p),
         cache' \in [Files -> CacheRecords],
         told' \in [Installs -> SUBSET Binaries],
         clashed' \subseteq Files, command' = command
  PROVE  TypeInv'
<1> DEFINE r == [install[p] EXCEPT
                   !.stage = IF install[p].binary = "argus" THEN "resolve" ELSE "done",
                   !.binary = "argus-mcp", !.version = None, !.body = None]
<1>1. install' = [install EXCEPT ![p] = r]
  BY DEF NextBinary, TypeInv, InstallTypeOK
<1>2. r \in InstallRecords /\ r.stage \in {"resolve", "done"}
  <2>1. install[p] \in InstallRecords
    BY DEF TypeInv, InstallTypeOK, InstallRecords
  <2>2. CASE install[p].binary = "argus"
    BY <2>1, <2>2 DEF InstallRecords, HookStages, Binaries
  <2>3. CASE install[p].binary # "argus"
    BY <2>1, <2>3 DEF InstallRecords, HookStages, Binaries
  <2> QED
    BY <2>2, <2>3
<1> HIDE DEF r
<1> QED
  BY <1>1, <1>2, HookMoves

LEMMA InitTyped == InstallInit => TypeInv
BY TagsAssumption
   DEF InstallInit, TypeInv, InstallTypeOK, Under, HookStages, Wants, Binaries, Bodies

LEMMA FileTyped ==
  ASSUME TypeInv, NEW p \in Installs,
         install[p].stage \in {"lookup", "archive", "raw", "sums", "open", "fill", "chmod"}
  PROVE  File(p) \in Files
BY DEF TypeInv, InstallTypeOK, Under, File, Files

LEMMA StepTyped == TypeInv /\ [InstallNext]_installVars => TypeInv'
<1> SUFFICES ASSUME TypeInv, [InstallNext]_installVars PROVE TypeInv'
  OBVIOUS
<1>0. /\ cache \in [Files -> CacheRecords] /\ told \in [Installs -> SUBSET Binaries]
      /\ clashed \subseteq Files /\ install \in [Installs -> InstallRecords]
      /\ command \in [Commands -> CommandRecords]
  BY DEF TypeInv, InstallTypeOK, CacheRecords, InstallRecords, CommandRecords
<1>1. ASSUME NEW p \in Installs, GivesUp(p) PROVE TypeInv'
  BY <1>0, <1>1, NextBinaryMoves DEF GivesUp
<1>2. ASSUME NEW p \in Installs, Resolve(p) PROVE TypeInv'
  <2>1. CASE GivesUp(p)
    BY <2>1, <1>1
  <2>2. ASSUME NEW t \in Tags, UNCHANGED <<cache, told, command, clashed>>,
               install' = [install EXCEPT
                 ![p].stage = "lookup", ![p].version = t,
                 ![p].latest = IF install[p].want = "latest" THEN t ELSE None]
        PROVE  TypeInv'
    <3> DEFINE r == [install[p] EXCEPT
                       !.stage = "lookup", !.version = t,
                       !.latest = IF install[p].want = "latest" THEN t ELSE None]
    <3>1. install' = [install EXCEPT ![p] = r]
      BY <1>0, <2>2
    <3>2. r \in InstallRecords /\ r.stage = "lookup" /\ r.version \in Tags
      BY <1>0 DEF InstallRecords, HookStages
    <3> HIDE DEF r
    <3> QED
      BY <1>0, <2>2, <3>1, <3>2, HookMoves
  <2> QED
    BY <1>2, <2>1, <2>2 DEF Resolve
<1>3. ASSUME NEW p \in Installs, Lookup(p) PROVE TypeInv'
  <2>0. File(p) \in Files
    BY <1>3, FileTyped DEF Lookup
  <2>1. CASE Hit(File(p))
    <3>1. told' \in [Installs -> SUBSET Binaries]
      BY <1>0, <1>3, <2>1 DEF Lookup, Reports, InstallRecords
    <3> QED
      BY <1>0, <1>3, <2>1, <3>1, NextBinaryMoves DEF Lookup, Reports
  <2>2. CASE ~Hit(File(p))
    <3> DEFINE r == [install[p] EXCEPT !.stage = "archive"]
    <3>1. install' = [install EXCEPT ![p] = r]
      BY <1>0, <1>3, <2>2 DEF Lookup
    <3>2. r \in InstallRecords /\ r.stage = "archive" /\ r.version \in Tags
      BY <1>0, <1>3 DEF InstallRecords, HookStages, Lookup, TypeInv, Under
    <3>3. clashed' \subseteq Files
      BY <1>0, <1>3, <2>0, <2>2 DEF Lookup
    <3> HIDE DEF r
    <3> QED
      BY <1>0, <1>3, <2>2, <3>1, <3>2, <3>3, HookMoves DEF Lookup
  <2> QED
    BY <2>1, <2>2
<1>4. ASSUME NEW p \in Installs, Fetch(p) PROVE TypeInv'
  <2>1. CASE GivesUp(p)
    BY <2>1, <1>1
  <2>2. ASSUME NEW bytes \in Bodies, UNCHANGED <<cache, told, command, clashed>>,
               install' = [install EXCEPT ![p].stage = "sums", ![p].body = bytes]
        PROVE  TypeInv'
    <3> DEFINE r == [install[p] EXCEPT !.stage = "sums", !.body = bytes]
    <3>1. install' = [install EXCEPT ![p] = r]
      BY <1>0, <2>2
    <3>2. /\ r \in InstallRecords /\ r.stage = "sums" /\ r.version \in Tags
          /\ r.body \in Bodies
      BY <1>0, <1>4 DEF InstallRecords, HookStages, Fetch, TypeInv, Under
    <3> HIDE DEF r
    <3> QED
      BY <1>0, <2>2, <3>1, <3>2, HookMoves
  <2>3. ASSUME UNCHANGED <<cache, told, command, clashed>>,
               install' = [install EXCEPT ![p].stage = "raw"]
        PROVE  TypeInv'
    <3> DEFINE r == [install[p] EXCEPT !.stage = "raw"]
    <3>1. install' = [install EXCEPT ![p] = r]
      BY <1>0, <2>3
    <3>2. r \in InstallRecords /\ r.stage = "raw" /\ r.version \in Tags
      BY <1>0, <1>4 DEF InstallRecords, HookStages, Fetch, TypeInv, Under
    <3> HIDE DEF r
    <3> QED
      BY <1>0, <2>3, <3>1, <3>2, HookMoves
  <2> QED
    BY <1>4, <2>1, <2>2, <2>3 DEF Fetch
<1>5. ASSUME NEW p \in Installs, NEW s \in {"open", "fill", "chmod"},
             install[p].stage \in {"sums", "open", "fill"},
             install' = [install EXCEPT ![p].stage = s],
             cache' \in [Files -> CacheRecords], UNCHANGED <<told, command, clashed>>
      PROVE  TypeInv'
  <2> DEFINE r == [install[p] EXCEPT !.stage = s]
  <2>1. install' = [install EXCEPT ![p] = r]
    BY <1>0, <1>5
  <2>2. r \in InstallRecords /\ r.version \in Tags /\ r.body \in Bodies
    BY <1>0, <1>5 DEF InstallRecords, HookStages, TypeInv, Under
  <2> HIDE DEF r
  <2> QED
    BY <1>0, <1>5, <2>1, <2>2, HookMoves
<1>6. ASSUME NEW p \in Installs, Verify(p) PROVE TypeInv'
  BY <1>0, <1>1, <1>5, <1>6 DEF Verify
<1>7. ASSUME NEW p \in Installs, Open(p) PROVE TypeInv'
  <2>1. CASE GivesUp(p)
    BY <2>1, <1>1
  <2>2. CASE /\ cache' = [cache EXCEPT ![File(p)] =
                           [bytes |-> "part", exec |-> NewMode(File(p))]]
             /\ install' = [install EXCEPT ![p].stage = "fill"]
             /\ UNCHANGED <<told, command, clashed>>
    <3>1. File(p) \in Files
      BY <1>7, FileTyped DEF Open
    <3>2. cache' \in [Files -> CacheRecords]
      BY <1>0, <2>2, <3>1 DEF NewMode, CacheRecords
    <3> QED
      BY <1>5, <1>7, <2>2, <3>2 DEF Open
  <2> QED
    BY <1>7, <2>1, <2>2 DEF Open
<1>8. ASSUME NEW p \in Installs, Fill(p) PROVE TypeInv'
  <2>1. CASE GivesUp(p)
    BY <2>1, <1>1
  <2>2. ASSUME NEW bytes \in {install[p].body, "part", "bad"},
               cache' = [cache EXCEPT ![File(p)].bytes = bytes],
               install' = [install EXCEPT ![p].stage = "chmod"],
               UNCHANGED <<told, command, clashed>>
        PROVE  TypeInv'
    <3>1. File(p) \in Files
      BY <1>8, FileTyped DEF Fill
    <3>2. bytes \in Bodies \cup {None, "part"}
      BY <1>8 DEF Fill, TypeInv, Under, Bodies
    <3>3. cache' \in [Files -> CacheRecords]
      BY <1>0, <2>2, <3>1, <3>2 DEF CacheRecords
    <3> QED
      BY <1>5, <1>8, <2>2, <3>3 DEF Fill
  <2> QED
    BY <1>8, <2>1, <2>2 DEF Fill
<1>9. ASSUME NEW p \in Installs, Chmod(p) PROVE TypeInv'
  <2>1. File(p) \in Files
    BY <1>9, FileTyped DEF Chmod
  <2>2. cache' \in [Files -> CacheRecords]
    BY <1>0, <1>9, <2>1 DEF Chmod, CacheRecords
  <2>3. told' \in [Installs -> SUBSET Binaries]
    BY <1>0, <1>9 DEF Chmod, Reports, InstallRecords
  <2> QED
    BY <1>0, <1>9, <2>2, <2>3, NextBinaryMoves DEF Chmod, Reports
<1>10. ASSUME NEW p \in Installs, Killed(p) PROVE TypeInv'
  <2> DEFINE r == [install[p] EXCEPT !.stage = "killed", !.version = None, !.body = None]
  <2>1. install' = [install EXCEPT ![p] = r]
    BY <1>0, <1>10 DEF Killed
  <2>2. r \in InstallRecords /\ r.stage = "killed"
    BY <1>0 DEF InstallRecords, HookStages
  <2> HIDE DEF r
  <2> QED
    BY <1>0, <1>10, <2>1, <2>2, HookMoves DEF Killed
<1>11. ASSUME NEW u \in Commands, CommandStep(u) PROVE TypeInv'
  <2>1. command' \in [Commands -> CommandRecords]
    <3>0. command[u] \in CommandRecords
      BY <1>0
    <3>1. CASE LookupBinary(u)
      <4>1. PICK w \in Wants, b \in Binaries, found \in BOOLEAN :
              command' = [command EXCEPT
                ![u].stage = IF found THEN "spawn" ELSE "ended",
                ![u].want = w, ![u].binary = b,
                ![u].code = IF found THEN None ELSE 1]
        BY <3>1 DEF LookupBinary
      <4>2. CASE found
        BY <1>0, <3>0, <4>1, <4>2 DEF CommandRecords
      <4>3. CASE ~found
        BY <1>0, <3>0, <4>1, <4>3 DEF CommandRecords
      <4> QED
        BY <4>2, <4>3
    <3>2. CASE Spawn(u)
      <4>1. /\ Resolved(command[u].want) \in Tags /\ command[u].binary \in Binaries
        BY <1>0, TagsAssumption DEF Resolved, CommandRecords, Wants
      <4>2. cache[Wanted(u)] \in CacheRecords
        BY <1>0, <4>1 DEF Wanted, Files
      <4> QED
        BY <1>0, <3>0, <3>2, <4>2 DEF Spawn, Exits, CommandRecords, CacheRecords
    <3>3. CASE ChildExits(u)
      <4>1. PICK code \in {0, 1, 2} :
              command' = [command EXCEPT ![u].stage = "ended", ![u].code = code]
        BY <3>3 DEF ChildExits, Exits, ExitCode, Signalled
      <4> QED
        BY <1>0, <3>0, <4>1 DEF CommandRecords
    <3> QED
      BY <1>11, <3>1, <3>2, <3>3 DEF CommandStep
  <2>2. UNCHANGED <<cache, install, told, clashed>>
    BY <1>11 DEF CommandStep, LookupBinary, Spawn, ChildExits
  <2> QED
    BY <2>1, <2>2 DEF TypeInv, InstallTypeOK, CommandRecords, Under
<1>12. CASE UNCHANGED installVars
  BY <1>12 DEF installVars, TypeInv, InstallTypeOK, Under
<1> QED
  BY <1>2, <1>3, <1>4, <1>6, <1>7, <1>8, <1>9, <1>10, <1>11, <1>12
     DEF InstallNext, InstallStep

LEMMA Typed == InstallSpec => []TypeInv
BY InitTyped, StepTyped, PTL DEF InstallSpec

\* The fields have their types in every reachable state (install.js,
\* postinstall.js, apohara-argus.js).
THEOREM InstallTypeCorrect == InstallSpec => []InstallTypeOK
<1>1. TypeInv => InstallTypeOK
  BY DEF TypeInv
<1> QED
  BY <1>1, Typed, PTL

-----------------------------------------------------------------------------
(* Only whole binaries run.  A file that no two hooks wrote at once has    *)
(* one writer; it is not there before that one opens it, and not           *)
(* executable before that one has filled it with verified bytes.           *)

Alone ==
  \A p, q \in Installs : \A f \in Files \ clashed :
    Writing(p, f) /\ Writing(q, f) => p = q

Fresh ==
  \A p \in Installs : \A f \in Files \ clashed :
    Writing(p, f) => /\ ~cache[f].exec
                     /\ cache[f].bytes = IF install[p].stage = "fill" THEN "part" ELSE None

Verified ==
  \A p \in Installs :
    install[p].stage \in {"open", "fill"} => Sound(File(p), install[p].body)

Filled ==
  \A p \in Installs :
    install[p].stage = "chmod" =>
      /\ cache[File(p)].bytes # None
      /\ File(p) \notin clashed => Sound(File(p), cache[File(p)].bytes)

Executable ==
  \A f \in Files :
    cache[f].exec =>
      cache[f].bytes # None /\ (f \notin clashed => Sound(f, cache[f].bytes))

Started ==
  \A u \in Commands :
    /\ command[u].stage \in {"lookup", "spawn"}
         => command[u].code # 0 /\ command[u].image = None
    /\ command[u].stage = "running" => command[u].image # None

WholeInv ==
  /\ TypeInv
  /\ Alone /\ Fresh /\ Verified /\ Filled /\ Executable
  /\ Started /\ OnlyWholeRuns

LEMMA InitWhole == InstallInit => WholeInv
BY InitTyped, NoneAssumption
   DEF InstallInit, WholeInv, Alone, Fresh, Verified, Filled, Executable, Started,
       OnlyWholeRuns, Writing, File, Binaries

\* A hook that leaves a download leaves everything as it is.
LEMMA LeavingWhole ==
  ASSUME WholeInv, TypeInv', NEW p \in Installs,
         \A q \in Installs : q # p => install'[q] = install[q],
         install'[p].stage \in {"resolve", "lookup", "done", "killed"},
         UNCHANGED <<cache, command, clashed>>
  PROVE  WholeInv'
<1>1. Alone' /\ Fresh'
  BY DEF WholeInv, Alone, Fresh, Writing, File
<1>2. Verified' /\ Filled'
  BY DEF WholeInv, Verified, Filled, File
<1>3. Executable' /\ Started' /\ OnlyWholeRuns'
  BY DEF WholeInv, Executable, Started, OnlyWholeRuns, Wanted
<1> QED
  BY <1>1, <1>2, <1>3 DEF WholeInv

\* A hook that goes on with the same download and leaves the file as it is.
LEMMA GoingOnWhole ==
  ASSUME WholeInv, TypeInv', NEW p \in Installs,
         \A q \in Installs : q # p => install'[q] = install[q],
         install[p].stage \in {"archive", "raw", "sums"},
         install'[p].stage \in {"archive", "raw", "sums", "open"},
         File(p)' = File(p),
         install'[p].stage = "open" => Sound(File(p), install[p].body) /\ install'[p].body = install[p].body,
         UNCHANGED <<cache, command, clashed>>
  PROVE  WholeInv'
<1>1. Alone' /\ Fresh'
  BY DEF WholeInv, Alone, Fresh, Writing, File
<1>2. Verified' /\ Filled'
  BY DEF WholeInv, Verified, Filled, File
<1>3. Executable' /\ Started' /\ OnlyWholeRuns'
  BY DEF WholeInv, Executable, Started, OnlyWholeRuns, Wanted
<1> QED
  BY <1>1, <1>2, <1>3 DEF WholeInv

\* The fields of a hook after a step of it, and of the others.
LEMMA HookStep ==
  ASSUME TypeInv, NEW p \in Installs, NEW r, install' = [install EXCEPT ![p] = r]
  PROVE  /\ install'[p] = r
         /\ \A q \in Installs : q # p => install'[q] = install[q]
BY DEF TypeInv, InstallTypeOK

LEMMA NextBinaryLeaves ==
  ASSUME TypeInv, NEW p \in Installs, NextBinary(p)
  PROVE  /\ install'[p].stage \in {"resolve", "done"}
         /\ \A q \in Installs : q # p => install'[q] = install[q]
BY DEF TypeInv, InstallTypeOK, NextBinary

LEMMA ResolveLeaves ==
  ASSUME TypeInv, NEW p \in Installs, Resolve(p), ~GivesUp(p)
  PROVE  /\ UNCHANGED <<cache, told, command, clashed>>
         /\ install'[p].stage = "lookup"
         /\ \A q \in Installs : q # p => install'[q] = install[q]
<1>1. PICK t \in Tags :
        /\ install' = [install EXCEPT
              ![p].stage = "lookup", ![p].version = t,
              ![p].latest = IF install[p].want = "latest" THEN t ELSE None]
        /\ UNCHANGED <<cache, told, command, clashed>>
  BY DEF Resolve
<1> QED
  BY <1>1 DEF TypeInv, InstallTypeOK

LEMMA KilledLeaves ==
  ASSUME TypeInv, NEW p \in Installs, Killed(p)
  PROVE  /\ UNCHANGED <<cache, told, command, clashed>>
         /\ install'[p].stage = "killed"
         /\ \A q \in Installs : q # p => install'[q] = install[q]
BY DEF TypeInv, InstallTypeOK, Killed

LEMMA GivesUpWhole ==
  ASSUME WholeInv, TypeInv', NEW p \in Installs, GivesUp(p)
  PROVE  WholeInv'
BY NextBinaryLeaves, LeavingWhole DEF GivesUp, WholeInv

LEMMA LookupWhole ==
  ASSUME WholeInv, TypeInv', NEW p \in Installs, Lookup(p)
  PROVE  WholeInv'
<1>1. CASE Hit(File(p))
  BY <1>1, NextBinaryLeaves, LeavingWhole DEF Lookup, Reports, WholeInv
<1>2. CASE ~Hit(File(p))
  <2>1. /\ install' = [install EXCEPT ![p].stage = "archive"]
        /\ UNCHANGED <<cache, told, command>> /\ clashed \subseteq clashed'
        /\ (\E q \in Installs \ {p} : Writing(q, File(p))) => File(p) \in clashed'
    BY <1>2 DEF Lookup
  <2>2. /\ install'[p].stage = "archive" /\ File(p)' = File(p)
        /\ \A q \in Installs : q # p => install'[q] = install[q]
    BY <2>1 DEF WholeInv, TypeInv, InstallTypeOK, File
  <2>3. \A q \in Installs, f \in Files :
          Writing(q, f)' => Writing(q, f) \/ (q = p /\ f = File(p))
    BY <2>2 DEF Writing, File
  <2>4. File(p) \in Files /\ cache[File(p)].bytes = None
    BY <1>2, FileTyped DEF WholeInv, Lookup, Hit
  <2>5. Alone'
    BY <2>1, <2>2, <2>3 DEF WholeInv, Alone
  <2>6. Fresh'
    <3> SUFFICES ASSUME NEW q \in Installs, NEW f \in Files \ clashed', Writing(q, f)'
                 PROVE  /\ ~cache[f].exec
                        /\ cache[f].bytes = IF install'[q].stage = "fill" THEN "part" ELSE None
      BY <2>1 DEF Fresh
    <3>1. CASE q = p
      <4>1. f = File(p)
        BY <2>2, <3>1 DEF Writing, File
      <4> QED
        BY <2>2, <2>4, <3>1, <4>1 DEF WholeInv, Executable
    <3>2. CASE q # p
      BY <2>1, <2>2, <2>3, <3>2 DEF WholeInv, Fresh
    <3> QED
      BY <3>1, <3>2
  <2>7. Verified' /\ Filled'
    BY <2>1, <2>2 DEF WholeInv, Verified, Filled, File
  <2>8. Executable' /\ Started' /\ OnlyWholeRuns'
    BY <2>1 DEF WholeInv, Executable, Started, OnlyWholeRuns, Wanted
  <2> QED
    BY <2>5, <2>6, <2>7, <2>8 DEF WholeInv
<1> QED
  BY <1>1, <1>2

LEMMA FetchWhole ==
  ASSUME WholeInv, TypeInv', NEW p \in Installs, Fetch(p)
  PROVE  WholeInv'
<1>1. CASE GivesUp(p)
  BY <1>1, GivesUpWhole
<1>2. CASE ~GivesUp(p)
  <2>1. UNCHANGED <<cache, command, clashed>>
    BY <1>2 DEF Fetch
  <2>2. /\ \A q \in Installs : q # p => install'[q] = install[q]
        /\ install'[p].stage \in {"raw", "sums"} /\ File(p)' = File(p)
    BY <1>2 DEF Fetch, WholeInv, TypeInv, InstallTypeOK, File
  <2> QED
    BY <2>1, <2>2, GoingOnWhole DEF Fetch
<1> QED
  BY <1>1, <1>2

LEMMA VerifyWhole ==
  ASSUME WholeInv, TypeInv', NEW p \in Installs, Verify(p)
  PROVE  WholeInv'
<1>1. CASE GivesUp(p)
  BY <1>1, GivesUpWhole
<1>2. CASE ~GivesUp(p)
  <2>1. UNCHANGED <<cache, command, clashed>> /\ Sound(File(p), install[p].body)
    BY <1>2 DEF Verify, Passes, Sound, WholeInv, TypeInv, Under
  <2>2. /\ \A q \in Installs : q # p => install'[q] = install[q]
        /\ install'[p].stage = "open" /\ install'[p].body = install[p].body
        /\ File(p)' = File(p)
    BY <1>2 DEF Verify, WholeInv, TypeInv, InstallTypeOK, File
  <2> QED
    BY <2>1, <2>2, GoingOnWhole DEF Verify
<1> QED
  BY <1>1, <1>2

LEMMA OpenWhole ==
  ASSUME WholeInv, TypeInv', NEW p \in Installs, Open(p)
  PROVE  WholeInv'
<1>1. CASE GivesUp(p)
  BY <1>1, GivesUpWhole
<1>2. CASE ~GivesUp(p)
  <2>1. /\ cache' = [cache EXCEPT ![File(p)] = [bytes |-> "part", exec |-> NewMode(File(p))]]
        /\ install' = [install EXCEPT ![p].stage = "fill"]
        /\ UNCHANGED <<told, command, clashed>>
        /\ install[p].stage = "open"
    BY <1>2 DEF Open
  <2>2. File(p) \in Files
    BY <2>1, FileTyped DEF WholeInv
  <2>3. /\ install'[p].stage = "fill" /\ install'[p].body = install[p].body
        /\ File(p)' = File(p)
        /\ \A q \in Installs : q # p => install'[q] = install[q]
    BY <2>1 DEF WholeInv, TypeInv, InstallTypeOK, File
  <2>4. /\ cache'[File(p)].bytes = "part" /\ cache'[File(p)].exec = cache[File(p)].exec
        /\ \A f \in Files : f # File(p) => cache'[f] = cache[f]
    BY <2>1, <2>2 DEF WholeInv, TypeInv, InstallTypeOK, NewMode
  <2>5. \A q \in Installs, f \in Files : Writing(q, f)' <=> Writing(q, f)
    BY <2>1, <2>3 DEF Writing, File
  <2>6. Writing(p, File(p))
    BY <2>1 DEF Writing
  <2>7. File(p) \notin clashed => ~cache[File(p)].exec
    BY <2>2, <2>6 DEF WholeInv, Fresh
  <2>8. Alone'
    BY <2>1, <2>5 DEF WholeInv, Alone
  <2>9. Fresh'
    <3> SUFFICES ASSUME NEW q \in Installs, NEW f \in Files \ clashed, Writing(q, f)
                 PROVE  /\ ~cache'[f].exec
                        /\ cache'[f].bytes = IF install'[q].stage = "fill" THEN "part" ELSE None
      BY <2>1, <2>5 DEF Fresh
    <3>1. CASE q = p
      <4>1. f = File(p)
        BY <3>1 DEF Writing
      <4> QED
        BY <2>3, <2>4, <2>7, <3>1, <4>1
    <3>2. CASE q # p
      <4>1. f # File(p)
        BY <2>6, <3>2 DEF WholeInv, Alone
      <4> QED
        BY <2>3, <2>4, <3>2, <4>1 DEF WholeInv, Fresh
    <3> QED
      BY <3>1, <3>2
  <2>10. Verified'
    BY <2>1, <2>3 DEF WholeInv, Verified, File
  <2>11. Filled'
    <3> SUFFICES ASSUME NEW q \in Installs, install'[q].stage = "chmod"
                 PROVE  /\ cache'[File(q)].bytes # None
                        /\ File(q) \notin clashed => Sound(File(q), cache'[File(q)].bytes)
      BY <2>1, <2>3 DEF Filled, File
    <3>1. q # p /\ install[q].stage = "chmod"
      BY <2>3
    <3>2. File(q) \in Files
      BY <3>1, FileTyped DEF WholeInv
    <3>3. CASE File(q) = File(p)
      <4>1. cache[File(q)].bytes # None
        BY <3>1 DEF WholeInv, Filled
      <4>2. File(p) \in clashed
        BY <2>1, <2>2, <2>6, <3>3, <4>1 DEF WholeInv, Fresh
      <4> QED
        BY <2>4, <3>3, <4>2, NoneAssumption
    <3>4. CASE File(q) # File(p)
      BY <2>4, <3>1, <3>2, <3>4 DEF WholeInv, Filled
    <3> QED
      BY <3>3, <3>4
  <2>12. Executable'
    BY <2>1, <2>4, <2>7, NoneAssumption DEF WholeInv, Executable
  <2>13. Started' /\ OnlyWholeRuns'
    BY <2>1 DEF WholeInv, Started, OnlyWholeRuns, Wanted
  <2> QED
    BY <2>8, <2>9, <2>10, <2>11, <2>12, <2>13 DEF WholeInv
<1> QED
  BY <1>1, <1>2

LEMMA FillWhole ==
  ASSUME WholeInv, TypeInv', NEW p \in Installs, Fill(p)
  PROVE  WholeInv'
<1>1. CASE GivesUp(p)
  BY <1>1, GivesUpWhole
<1>2. CASE ~GivesUp(p)
  <2>1. PICK bytes \in {install[p].body, "part", "bad"} :
          /\ cache' = [cache EXCEPT ![File(p)].bytes = bytes]
          /\ install' = [install EXCEPT ![p].stage = "chmod"]
          /\ UNCHANGED <<told, command, clashed>>
          /\ install[p].stage = "fill"
          /\ bytes # install[p].body =>
               \E q \in Installs \ {p} : install[q].stage = "fill" /\ File(q) = File(p)
    BY <1>2 DEF Fill
  <2>2. File(p) \in Files /\ Writing(p, File(p))
    BY <2>1, FileTyped DEF WholeInv, Writing
  <2>3. /\ install'[p].stage = "chmod" /\ File(p)' = File(p)
        /\ \A q \in Installs : q # p => install'[q] = install[q]
    BY <2>1 DEF WholeInv, TypeInv, InstallTypeOK, File
  <2>4. /\ cache'[File(p)].bytes = bytes /\ cache'[File(p)].exec = cache[File(p)].exec
        /\ \A f \in Files : f # File(p) => cache'[f] = cache[f]
    BY <2>1, <2>2 DEF WholeInv, TypeInv, InstallTypeOK
  <2>5. File(p) \notin clashed => Sound(File(p), bytes) /\ ~cache[File(p)].exec
    <3> SUFFICES ASSUME File(p) \notin clashed
                 PROVE  Sound(File(p), bytes) /\ ~cache[File(p)].exec
      OBVIOUS
    <3>1. bytes = install[p].body
      BY <2>1, <2>2 DEF WholeInv, Alone, Writing
    <3> QED
      BY <2>1, <2>2, <3>1 DEF WholeInv, Verified, Fresh
  <2>6. bytes # None
    BY <2>1, NoneAssumption DEF WholeInv, TypeInv, Under, Bodies
  <2>7. \A q \in Installs, f \in Files : Writing(q, f)' => Writing(q, f) /\ q # p
    BY <2>3 DEF Writing, File
  <2>8. Alone'
    BY <2>1, <2>7 DEF WholeInv, Alone
  <2>9. Fresh'
    <3> SUFFICES ASSUME NEW q \in Installs, NEW f \in Files \ clashed, Writing(q, f), q # p
                 PROVE  /\ ~cache'[f].exec
                        /\ cache'[f].bytes = IF install'[q].stage = "fill" THEN "part" ELSE None
      BY <2>1, <2>7 DEF Fresh
    <3>1. f # File(p)
      BY <2>2 DEF WholeInv, Alone
    <3> QED
      BY <2>3, <2>4, <3>1 DEF WholeInv, Fresh
  <2>10. Verified'
    BY <2>1, <2>3 DEF WholeInv, Verified, File
  <2>11. Filled'
    <3> SUFFICES ASSUME NEW q \in Installs, install'[q].stage = "chmod"
                 PROVE  /\ cache'[File(q)].bytes # None
                        /\ File(q) \notin clashed => Sound(File(q), cache'[File(q)].bytes)
      BY <2>1, <2>3 DEF Filled, File
    <3>1. CASE q = p
      BY <2>4, <2>5, <2>6, <3>1
    <3>2. CASE q # p
      <4>1. install[q].stage = "chmod"
        BY <2>3, <3>2
      <4>2. File(q) \in Files
        BY <4>1, FileTyped DEF WholeInv
      <4> QED
        BY <2>4, <2>5, <2>6, <4>1, <4>2 DEF WholeInv, Filled
    <3> QED
      BY <3>1, <3>2
  <2>12. Executable'
    BY <2>1, <2>4, <2>5, <2>6 DEF WholeInv, Executable
  <2>13. Started' /\ OnlyWholeRuns'
    BY <2>1 DEF WholeInv, Started, OnlyWholeRuns, Wanted
  <2> QED
    BY <2>8, <2>9, <2>10, <2>11, <2>12, <2>13 DEF WholeInv
<1> QED
  BY <1>1, <1>2

LEMMA ChmodWhole ==
  ASSUME WholeInv, TypeInv', NEW p \in Installs, Chmod(p)
  PROVE  WholeInv'
<1>1. /\ cache' = [cache EXCEPT ![File(p)].exec = TRUE]
      /\ UNCHANGED <<command, clashed>> /\ install[p].stage = "chmod"
      /\ install'[p].stage \in {"resolve", "done"}
      /\ \A q \in Installs : q # p => install'[q] = install[q]
  BY NextBinaryLeaves DEF Chmod, Reports, WholeInv
<1>2. File(p) \in Files
  BY <1>1, FileTyped DEF WholeInv
<1>3. /\ cache'[File(p)].bytes = cache[File(p)].bytes
      /\ \A f \in Files : f # File(p) => cache'[f] = cache[f]
  BY <1>1, <1>2 DEF WholeInv, TypeInv, InstallTypeOK
<1>4. /\ cache[File(p)].bytes # None
      /\ File(p) \notin clashed => Sound(File(p), cache[File(p)].bytes)
  BY <1>1 DEF WholeInv, Filled
<1>5. \A q \in Installs, f \in Files : Writing(q, f)' => Writing(q, f) /\ q # p
  BY <1>1 DEF Writing, File
<1>6. Alone'
  BY <1>1, <1>5 DEF WholeInv, Alone
<1>7. Fresh'
  <2> SUFFICES ASSUME NEW q \in Installs, NEW f \in Files \ clashed, Writing(q, f), q # p
               PROVE  /\ ~cache'[f].exec
                      /\ cache'[f].bytes = IF install'[q].stage = "fill" THEN "part" ELSE None
    BY <1>1, <1>5 DEF Fresh
  <2>1. cache[f].bytes \in {"part", None}
    BY DEF WholeInv, Fresh
  <2>2. f # File(p)
    BY <1>4, <2>1, NoneAssumption DEF Sound, Bodies
  <2> QED
    BY <1>1, <1>3, <2>2 DEF WholeInv, Fresh
<1>8. Verified'
  BY <1>1 DEF WholeInv, Verified, File
<1>9. Filled'
  <2> SUFFICES ASSUME NEW q \in Installs, install'[q].stage = "chmod"
               PROVE  /\ cache'[File(q)].bytes # None
                      /\ File(q) \notin clashed => Sound(File(q), cache'[File(q)].bytes)
    BY <1>1 DEF Filled, File
  <2>1. q # p /\ install[q].stage = "chmod"
    BY <1>1
  <2>2. File(q) \in Files
    BY <2>1, FileTyped DEF WholeInv
  <2> QED
    BY <1>3, <2>1, <2>2 DEF WholeInv, Filled
<1>10. Executable'
  BY <1>1, <1>3, <1>4 DEF WholeInv, Executable
<1>11. Started' /\ OnlyWholeRuns'
  BY <1>1 DEF WholeInv, Started, OnlyWholeRuns, Wanted
<1> QED
  BY <1>6, <1>7, <1>8, <1>9, <1>10, <1>11 DEF WholeInv

LEMMA CommandWhole ==
  ASSUME WholeInv, TypeInv', NEW u \in Commands, CommandStep(u)
  PROVE  WholeInv'
<1>1. UNCHANGED <<cache, install, told, clashed>>
  BY DEF CommandStep, LookupBinary, Spawn, ChildExits
<1>2. /\ Alone' /\ Fresh' /\ Verified' /\ Filled' /\ Executable'
  BY <1>1 DEF WholeInv, Alone, Fresh, Verified, Filled, Executable, Writing, File
<1>3. \A v \in Commands : v # u => command'[v] = command[v]
  BY DEF CommandStep, LookupBinary, Spawn, ChildExits, Exits, WholeInv, TypeInv,
         InstallTypeOK
<1>4. /\ command[u].stage = "lookup" /\ command[u].image = None
      /\ command'[u].image = command[u].image
      /\ command'[u].stage \in {"spawn", "ended"} /\ command'[u].code \in {None, 1}
      \/ /\ command[u].stage = "spawn" /\ command[u].image = None
         /\ command'[u].image = command[u].image
         /\ command'[u].stage = "ended" /\ command'[u].code = 1
      \/ /\ command[u].stage = "spawn" /\ command[u].image = None
         /\ cache[Wanted(u)].exec
         /\ command'[u].image = cache[Wanted(u)].bytes
         /\ command'[u].want = command[u].want /\ command'[u].binary = command[u].binary
         /\ command'[u].stage = "running" /\ command'[u].code = command[u].code
      \/ /\ command[u].stage = "running"
         /\ command'[u].image = command[u].image
         /\ command'[u].want = command[u].want /\ command'[u].binary = command[u].binary
         /\ command'[u].stage = "ended"
  <2>0. command \in [Commands -> CommandRecords]
    BY DEF WholeInv, TypeInv, InstallTypeOK, CommandRecords
  <2>1. CASE LookupBinary(u)
    <3>1. command[u].stage = "lookup" /\ command[u].image = None
      BY <2>1 DEF LookupBinary, WholeInv, Started
    <3>2. PICK w \in Wants, b \in Binaries, found \in BOOLEAN :
            command' = [command EXCEPT
              ![u].stage = IF found THEN "spawn" ELSE "ended",
              ![u].want = w, ![u].binary = b,
              ![u].code = IF found THEN None ELSE 1]
      BY <2>1 DEF LookupBinary
    <3> QED
      BY <2>0, <3>1, <3>2 DEF CommandRecords
  <2>2. CASE Spawn(u)
    BY <2>0, <2>2 DEF Spawn, Exits, WholeInv, Started, CommandRecords
  <2>3. CASE ChildExits(u)
    BY <2>0, <2>3 DEF ChildExits, Exits, CommandRecords
  <2> QED
    BY <2>1, <2>2, <2>3 DEF CommandStep
<1>5. command[u].stage \in {"spawn", "running"} => Wanted(u) \in Files
  BY TagsAssumption
     DEF WholeInv, TypeInv, InstallTypeOK, Wanted, Resolved, Files, Wants
<1>6. command[u].stage = "spawn" => command[u].code # 0
  BY DEF WholeInv, Started
<1>7. Started'
  <2>1. ASSUME NEW v \in Commands
        PROVE  /\ command'[v].stage \in {"lookup", "spawn"}
                    => command'[v].code # 0 /\ command'[v].image = None
               /\ command'[v].stage = "running" => command'[v].image # None
    <3>1. CASE v = u
      BY <1>4, <1>5, <3>1, NoneAssumption DEF WholeInv, Executable
    <3>2. CASE v # u
      BY <1>3, <3>2 DEF WholeInv, Started
    <3> QED
      BY <3>1, <3>2
  <2> QED
    BY <2>1 DEF Started
<1>8. OnlyWholeRuns'
  <2>1. ASSUME NEW v \in Commands
        PROVE  /\ command'[v].image # None /\ Wanted(v)' \notin clashed
                    => Sound(Wanted(v)', command'[v].image)
               /\ command'[v].code = 0 => command'[v].image # None
    <3>1. CASE v = u
      <4>1. command'[u].image # None =>
              /\ Wanted(u)' = Wanted(u)
              /\ Wanted(u) \notin clashed => Sound(Wanted(u), command'[u].image)
        BY <1>4, <1>5 DEF WholeInv, Executable, OnlyWholeRuns, Wanted
      <4>2. command'[u].code = 0 => command'[u].image # None
        BY <1>4, <1>6, NoneAssumption DEF WholeInv, Started
      <4> QED
        BY <3>1, <4>1, <4>2
    <3>2. CASE v # u
      <4>1. Wanted(v)' = Wanted(v)
        BY <1>3, <3>2 DEF Wanted
      <4> QED
        BY <1>3, <3>2, <4>1 DEF WholeInv, OnlyWholeRuns
    <3> QED
      BY <3>1, <3>2
  <2> QED
    BY <1>1, <2>1 DEF OnlyWholeRuns
<1> QED
  BY <1>2, <1>7, <1>8 DEF WholeInv

LEMMA StepWhole == WholeInv /\ [InstallNext]_installVars => WholeInv'
<1> SUFFICES ASSUME WholeInv, [InstallNext]_installVars PROVE WholeInv'
  OBVIOUS
<1>0. TypeInv'
  BY StepTyped DEF WholeInv
<1>1. ASSUME NEW p \in Installs, Resolve(p) PROVE WholeInv'
  <2>1. CASE GivesUp(p)
    BY <1>0, <2>1, GivesUpWhole
  <2>2. CASE ~GivesUp(p)
    BY <1>0, <1>1, <2>2, ResolveLeaves, LeavingWhole DEF WholeInv
  <2> QED
    BY <2>1, <2>2
<1>2. ASSUME NEW p \in Installs, Killed(p) PROVE WholeInv'
  BY <1>0, <1>2, KilledLeaves, LeavingWhole DEF WholeInv
<1>3. ASSUME NEW p \in Installs, InstallStep(p) PROVE WholeInv'
  BY <1>0, <1>1, <1>2, <1>3, LookupWhole, FetchWhole, VerifyWhole, OpenWhole,
     FillWhole, ChmodWhole DEF InstallStep
<1>4. ASSUME NEW u \in Commands, CommandStep(u) PROVE WholeInv'
  BY <1>0, <1>4, CommandWhole
<1>5. CASE UNCHANGED installVars
  BY <1>5 DEF installVars, WholeInv, TypeInv, InstallTypeOK, Under, Alone, Fresh,
     Verified, Filled, Executable, Started, OnlyWholeRuns, Writing, File, Wanted
<1> QED
  BY <1>3, <1>4, <1>5 DEF InstallNext

LEMMA Whole == InstallSpec => []WholeInv
BY InitWhole, StepWhole, PTL DEF InstallSpec

\* What a proxy starts is a whole binary, verified if its release lists it,
\* unless two hooks were writing that file at once, and exit code 0 is never
\* that of a proxy that started nothing (install.js:278-293).
THEOREM OnlyWholeBinariesRun == InstallSpec => []OnlyWholeRuns
<1>1. WholeInv => OnlyWholeRuns
  BY DEF WholeInv
<1> QED
  BY <1>1, Whole, PTL

\* A file in the cache that nobody is writing is never written again
\* (install.js:221-224).
THEOREM CachedFilesAreFinal == InstallSpec => CachedIsFinal
<1>1. ASSUME TypeInv, [InstallNext]_installVars, NEW f \in Files,
             cache[f].bytes # None, Untouched(f)
      PROVE  Untouched(f)' /\ cache'[f] = cache[f]
  <2>1. ASSUME NEW p \in Installs, NextBinary(p), UNCHANGED cache
        PROVE  Untouched(f)' /\ cache'[f] = cache[f]
    BY <1>1, <2>1, NextBinaryLeaves DEF Untouched, Writing, File
  <2>2. ASSUME NEW p \in Installs, File(p) # f \/ install'[p].stage \in {"lookup", "killed"},
               \A q \in Installs : q # p => install'[q] = install[q],
               install'[p].stage \in {"lookup", "killed"} \/ File(p)' = File(p)
        PROVE  Untouched(f)'
    BY <1>1, <2>2 DEF Untouched, Writing, File
  <2>3. ASSUME NEW p \in Installs, Resolve(p) \/ Killed(p)
        PROVE  Untouched(f)' /\ cache'[f] = cache[f]
    <3>1. CASE GivesUp(p)
      BY <2>1, <3>1 DEF GivesUp
    <3>2. CASE ~GivesUp(p)
      <4>1. /\ UNCHANGED cache /\ install'[p].stage \in {"lookup", "killed"}
            /\ \A q \in Installs : q # p => install'[q] = install[q]
        BY <1>1, <2>3, <3>2, ResolveLeaves, KilledLeaves
      <4> QED
        BY <2>2, <4>1
    <3> QED
      BY <3>1, <3>2
  <2>4. ASSUME NEW p \in Installs, Lookup(p) PROVE Untouched(f)' /\ cache'[f] = cache[f]
    <3>1. CASE Hit(File(p))
      BY <2>1, <2>4, <3>1 DEF Lookup, Reports
    <3>2. CASE ~Hit(File(p))
      <4>1. /\ UNCHANGED cache /\ File(p)' = File(p)
            /\ \A q \in Installs : q # p => install'[q] = install[q]
        BY <1>1, <2>4, <3>2 DEF Lookup, TypeInv, InstallTypeOK, File
      <4>2. File(p) # f
        BY <1>1, <3>2 DEF Hit
      <4> QED
        BY <2>2, <4>1, <4>2
    <3> QED
      BY <3>1, <3>2
  <2>5. ASSUME NEW p \in Installs, Fetch(p) \/ Verify(p) \/ Open(p) \/ Fill(p)
        PROVE  Untouched(f)' /\ cache'[f] = cache[f]
    <3>0. Writing(p, File(p))
      BY <2>5 DEF Fetch, Verify, Open, Fill, Writing
    <3>1. File(p) # f
      BY <1>1, <3>0 DEF Untouched
    <3>2. CASE GivesUp(p)
      BY <2>1, <3>2 DEF GivesUp
    <3>3. CASE ~GivesUp(p)
      <4>1. /\ File(p)' = File(p)
            /\ \A q \in Installs : q # p => install'[q] = install[q]
        BY <1>1, <2>5, <3>3 DEF Fetch, Verify, Open, Fill, TypeInv, InstallTypeOK, File
      <4>2. cache'[f] = cache[f]
        BY <1>1, <2>5, <3>1, <3>3 DEF Fetch, Verify, Open, Fill, TypeInv, InstallTypeOK
      <4> QED
        BY <2>2, <3>1, <4>1, <4>2
    <3> QED
      BY <3>2, <3>3
  <2>6. ASSUME NEW p \in Installs, Chmod(p) PROVE Untouched(f)' /\ cache'[f] = cache[f]
    <3>1. File(p) # f
      BY <1>1, <2>6 DEF Untouched, Chmod
    <3>2. cache'[f] = cache[f]
      BY <1>1, <2>6, <3>1 DEF Chmod, TypeInv, InstallTypeOK
    <3>3. Untouched(f)'
      BY <1>1, <2>6, NextBinaryLeaves DEF Chmod, Reports, Untouched, Writing, File
    <3> QED
      BY <3>2, <3>3
  <2>7. ASSUME NEW u \in Commands, CommandStep(u)
        PROVE  Untouched(f)' /\ cache'[f] = cache[f]
    BY <1>1, <2>7 DEF CommandStep, LookupBinary, Spawn, ChildExits, Untouched, Writing, File
  <2>8. CASE UNCHANGED installVars
    BY <1>1, <2>8 DEF installVars, Untouched, Writing, File
  <2> QED
    BY <1>1, <2>3, <2>4, <2>5, <2>6, <2>7, <2>8 DEF InstallNext, InstallStep
<1>2. TypeInv /\ [InstallNext]_installVars =>
        [\A f \in Files : cache[f].bytes # None /\ Untouched(f) =>
            Untouched(f)' /\ cache'[f] = cache[f]]_installVars
  BY <1>1
<1> QED
  BY <1>2, Typed, PTL DEF InstallSpec, CachedIsFinal

-----------------------------------------------------------------------------
(* A proxy misses a reported file only for "latest".  What a hook has      *)
(* reported stays: no step takes the bytes of a file away, and the version *)
(* a hook means is settled with its first lookup.                          *)

\* The version a hook downloads: the one it was given, or the newest release
\* once it knows it.
Meant(p) == IF install[p].want = "latest" THEN install[p].latest ELSE install[p].want

Settled ==
  \A p \in Installs :
    /\ install[p].want # "latest" => install[p].latest = None
    /\ install[p].stage \in {"lookup", "archive", "raw", "sums", "open", "fill", "chmod"}
         => install[p].version = Meant(p)

Reported ==
  \A p \in Installs : \A b \in told[p] :
    Meant(p) \in Tags /\ cache[<<Meant(p), b>>].bytes # None

ToldInv == WholeInv /\ Settled /\ Reported

\* No step of any process takes the bytes of a file away.
LEMMA BytesStay ==
  ASSUME WholeInv, [InstallNext]_installVars, NEW f \in Files, cache[f].bytes # None
  PROVE  cache'[f].bytes # None
<1>0. cache \in [Files -> CacheRecords] /\ None # "part" /\ None \notin Bodies /\ None # "bad"
  BY NoneAssumption DEF WholeInv, TypeInv, InstallTypeOK, CacheRecords, Bodies
<1>1. ASSUME NEW p \in Installs, Open(p) PROVE cache'[f].bytes # None
  <2>1. File(p) \in Files
    BY <1>1, FileTyped DEF WholeInv, Open
  <2> QED
    BY <1>0, <1>1, <2>1 DEF Open, GivesUp
<1>2. ASSUME NEW p \in Installs, Fill(p) PROVE cache'[f].bytes # None
  <2>1. File(p) \in Files /\ install[p].body \in Bodies
    BY <1>2, FileTyped DEF WholeInv, Fill, TypeInv, Under
  <2>2. CASE GivesUp(p)
    BY <2>2 DEF GivesUp
  <2>3. CASE ~GivesUp(p)
    <3>1. PICK bytes \in {install[p].body, "part", "bad"} :
            cache' = [cache EXCEPT ![File(p)].bytes = bytes]
      BY <1>2, <2>3 DEF Fill
    <3> QED
      BY <1>0, <2>1, <3>1
  <2> QED
    BY <2>2, <2>3
<1>3. ASSUME NEW p \in Installs, Chmod(p) PROVE cache'[f].bytes # None
  BY <1>0, <1>3 DEF Chmod, CacheRecords
<1>4. ASSUME NEW p \in Installs, Resolve(p) \/ Lookup(p) \/ Fetch(p) \/ Verify(p) \/ Killed(p)
      PROVE  UNCHANGED cache
  BY <1>4 DEF Resolve, Lookup, Fetch, Verify, Killed, GivesUp
<1>5. ASSUME NEW u \in Commands, CommandStep(u) PROVE UNCHANGED cache
  BY <1>5 DEF CommandStep, LookupBinary, Spawn, ChildExits
<1>6. CASE UNCHANGED installVars
  BY <1>6 DEF installVars
<1> QED
  BY <1>1, <1>2, <1>3, <1>4, <1>5, <1>6 DEF InstallNext, InstallStep

\* A hook that means what it meant, and has told no more than files that are there.
LEMMA Keeps ==
  ASSUME ToldInv, WholeInv', [InstallNext]_installVars, NEW p \in Installs,
         \A q \in Installs : q # p => install'[q] = install[q] /\ told'[q] = told[q],
         install'[p].want = install[p].want,
         install'[p].latest = install[p].latest,
         install'[p].stage \in {"lookup", "archive", "raw", "sums", "open", "fill", "chmod"} =>
           /\ install'[p].version = install[p].version
           /\ install[p].stage \in {"lookup", "archive", "raw", "sums", "open", "fill", "chmod"},
         \A b \in told'[p] : b \in told[p] \/ (Meant(p) \in Tags /\ b \in Binaries
                                               /\ cache[<<Meant(p), b>>].bytes # None)
  PROVE  ToldInv'
<1>1. Settled'
  BY DEF ToldInv, Settled, Meant
<1>2. ASSUME NEW q \in Installs, NEW b \in told'[q]
      PROVE  Meant(q)' \in Tags /\ cache'[<<Meant(q)', b>>].bytes # None
  <2>1. Meant(q)' = Meant(q)
    BY DEF Meant
  <2>2. /\ Meant(q) \in Tags /\ b \in Binaries /\ cache[<<Meant(q), b>>].bytes # None
    BY DEF ToldInv, Reported, WholeInv, TypeInv, InstallTypeOK
  <2>3. <<Meant(q), b>> \in Files
    BY <2>2 DEF Files
  <2>4. cache'[<<Meant(q), b>>].bytes # None
    BY <2>2, <2>3, BytesStay DEF ToldInv
  <2> QED
    BY <2>1, <2>2, <2>4
<1> QED
  BY <1>1, <1>2 DEF ToldInv, Reported

LEMMA InitTold == InstallInit => ToldInv
BY InitWhole DEF InstallInit, ToldInv, Settled, Reported

LEMMA StepTold == ToldInv /\ [InstallNext]_installVars => ToldInv'
<1> SUFFICES ASSUME ToldInv, [InstallNext]_installVars PROVE ToldInv'
  OBVIOUS
<1>0. WholeInv'
  BY StepWhole DEF ToldInv
<1>a. /\ install \in [Installs -> InstallRecords] /\ told \in [Installs -> SUBSET Binaries]
      /\ TypeInv
  BY DEF ToldInv, WholeInv, TypeInv, InstallTypeOK, InstallRecords
<1>1. ASSUME NEW p \in Installs, NextBinary(p),
             \A q \in Installs : q # p => told'[q] = told[q],
             \A b \in told'[p] : b \in told[p] \/ (Meant(p) \in Tags /\ b \in Binaries
                                                   /\ cache[<<Meant(p), b>>].bytes # None)
      PROVE  ToldInv'
  <2>1. /\ install'[p].want = install[p].want /\ install'[p].latest = install[p].latest
        /\ install'[p].stage \in {"resolve", "done"}
        /\ \A q \in Installs : q # p => install'[q] = install[q]
    BY <1>a, <1>1 DEF NextBinary, InstallRecords
  <2> QED
    BY <1>0, <1>1, <2>1, Keeps
<1>2. ASSUME NEW p \in Installs, GivesUp(p) PROVE ToldInv'
  BY <1>1, <1>2 DEF GivesUp
<1>3. ASSUME NEW p \in Installs, Resolve(p) PROVE ToldInv'
  <2>1. CASE GivesUp(p)
    BY <1>2, <2>1
  <2>2. CASE ~GivesUp(p)
    <3>1. PICK t \in Tags :
            /\ \/ install[p].want \in {t, "latest"} /\ install[p].latest = None
               \/ install[p].latest = t
            /\ install' = [install EXCEPT
                 ![p].stage = "lookup", ![p].version = t,
                 ![p].latest = IF install[p].want = "latest" THEN t ELSE None]
            /\ UNCHANGED <<cache, told>>
      BY <1>3, <2>2 DEF Resolve
    <3>2. /\ install'[p].want = install[p].want /\ install'[p].version = t
          /\ install'[p].latest = IF install[p].want = "latest" THEN t ELSE None
          /\ \A q \in Installs : q # p => install'[q] = install[q]
      BY <1>a, <3>1 DEF InstallRecords
    <3>3. Meant(p)' = t
      BY <3>1, <3>2, TagsAssumption, NoneAssumption DEF ToldInv, Settled, Meant
    <3>4. \A q \in Installs : q # p => Meant(q)' = Meant(q)
      BY <3>2 DEF Meant
    <3>5. Settled'
      BY <3>2, <3>3, <3>4, TagsAssumption DEF ToldInv, Settled, Meant
    <3>6. told[p] # {} => Meant(p) = t
      BY <3>1, <3>2, <3>3, NoneAssumption DEF ToldInv, Reported, Settled, Meant
    <3>7. Reported'
      <4> SUFFICES ASSUME NEW q \in Installs, NEW b \in told[q]
                   PROVE  Meant(q)' \in Tags /\ cache[<<Meant(q)', b>>].bytes # None
        BY <3>1 DEF Reported
      <4>1. Meant(q)' = Meant(q)
        BY <3>3, <3>4, <3>6
      <4> QED
        BY <4>1 DEF ToldInv, Reported
    <3> QED
      BY <1>0, <3>5, <3>7 DEF ToldInv
  <2> QED
    BY <2>1, <2>2
<1>4. ASSUME NEW p \in Installs, install[p].stage \in {"lookup", "chmod"},
             Reports(p), cache[File(p)].bytes # None
      PROVE  ToldInv'
  <2>1. /\ told'[p] = told[p] \cup {install[p].binary}
        /\ \A q \in Installs : q # p => told'[q] = told[q]
    BY <1>a, <1>4 DEF Reports
  <2>2. /\ Meant(p) = install[p].version /\ install[p].version \in Tags
        /\ install[p].binary \in Binaries
    BY <1>a, <1>4 DEF ToldInv, Settled, TypeInv, Under, InstallRecords
  <2> QED
    BY <1>1, <1>4, <2>1, <2>2 DEF Reports, File
<1>5. ASSUME NEW p \in Installs, Lookup(p) PROVE ToldInv'
  <2>1. CASE Hit(File(p))
    BY <1>4, <1>5, <2>1 DEF Lookup, Hit
  <2>2. CASE ~Hit(File(p))
    <3>1. /\ install'[p].want = install[p].want /\ install'[p].latest = install[p].latest
          /\ install'[p].version = install[p].version /\ UNCHANGED told
          /\ \A q \in Installs : q # p => install'[q] = install[q]
      BY <1>a, <1>5, <2>2 DEF Lookup, InstallRecords
    <3> QED
      BY <1>0, <1>5, <3>1, Keeps DEF Lookup
  <2> QED
    BY <2>1, <2>2
<1>6. ASSUME NEW p \in Installs, Fetch(p) \/ Verify(p) \/ Open(p) \/ Fill(p) PROVE ToldInv'
  <2>1. CASE GivesUp(p)
    BY <1>2, <2>1
  <2>2. CASE ~GivesUp(p)
    <3>1. /\ install'[p].want = install[p].want /\ install'[p].latest = install[p].latest
          /\ install'[p].version = install[p].version /\ UNCHANGED told
          /\ \A q \in Installs : q # p => install'[q] = install[q]
      BY <1>a, <1>6, <2>2 DEF Fetch, Verify, Open, Fill, InstallRecords
    <3>2. install[p].stage \in {"archive", "raw", "sums", "open", "fill"}
      BY <1>6 DEF Fetch, Verify, Open, Fill
    <3> QED
      BY <1>0, <3>1, <3>2, Keeps
  <2> QED
    BY <2>1, <2>2
<1>7. ASSUME NEW p \in Installs, Chmod(p) PROVE ToldInv'
  BY <1>4, <1>7 DEF Chmod, ToldInv, WholeInv, Filled
<1>8. ASSUME NEW p \in Installs, Killed(p) PROVE ToldInv'
  <2>1. /\ install'[p].want = install[p].want /\ install'[p].latest = install[p].latest
        /\ install'[p].stage = "killed" /\ UNCHANGED told
        /\ \A q \in Installs : q # p => install'[q] = install[q]
    BY <1>a, <1>8 DEF Killed, InstallRecords
  <2> QED
    BY <1>0, <2>1, Keeps
<1>9. ASSUME NEW u \in Commands, CommandStep(u) PROVE ToldInv'
  <2>1. UNCHANGED <<cache, install, told>>
    BY <1>9 DEF CommandStep, LookupBinary, Spawn, ChildExits
  <2> QED
    BY <1>0, <2>1 DEF ToldInv, Settled, Reported, Meant
<1>10. CASE UNCHANGED installVars
  BY <1>0, <1>10 DEF installVars, ToldInv, Settled, Reported, Meant
<1> QED
  BY <1>3, <1>5, <1>6, <1>7, <1>8, <1>9, <1>10 DEF InstallNext, InstallStep

LEMMA Told == InstallSpec => []ToldInv
BY InitTold, StepTold, PTL DEF InstallSpec

\* A proxy that misses a file a hook with its ARGUS_VERSION has reported was
\* run for "latest", and the newest release was not this package's
\* (install.js:177-182, 301-314).
THEOREM ToldIsFound == InstallSpec => FoundWhenTold
<1>1. ASSUME ToldInv, [InstallNext]_installVars, NEW u \in Commands, NEW p \in Installs,
             command[u].stage = "lookup", command'[u].stage = "ended",
             install[p].want = command'[u].want, command'[u].binary \in told[p]
      PROVE  command'[u].want = "latest" /\ install[p].latest # NpmVersion
  <2>0. command \in [Commands -> CommandRecords]
    BY <1>1 DEF ToldInv, WholeInv, TypeInv, InstallTypeOK, CommandRecords
  <2>1. ASSUME NEW q \in Installs, InstallStep(q) PROVE UNCHANGED command
    BY <2>1 DEF InstallStep, Resolve, Lookup, Fetch, Verify, Open, Fill, Chmod, Killed,
       GivesUp
  <2>2. LookupBinary(u)
    <3>1. ASSUME NEW v \in Commands, v # u, CommandStep(v) PROVE FALSE
      BY <1>1, <2>0, <3>1 DEF CommandStep, LookupBinary, Spawn, ChildExits, Exits
    <3>2. ASSUME Spawn(u) \/ ChildExits(u) PROVE FALSE
      BY <1>1, <3>2 DEF Spawn, ChildExits
    <3> QED
      BY <1>1, <2>1, <3>1, <3>2 DEF InstallNext, CommandStep, installVars
  <2>3. PICK w \in Wants, b \in Binaries, found \in BOOLEAN :
          /\ found = (cache[<<Resolved(w), b>>].bytes # None)
          /\ command' = [command EXCEPT
               ![u].stage = IF found THEN "spawn" ELSE "ended",
               ![u].want = w, ![u].binary = b,
               ![u].code = IF found THEN None ELSE 1]
    BY <2>2 DEF LookupBinary
  <2>4. command'[u].want = w /\ command'[u].binary = b /\ ~found
    BY <1>1, <2>0, <2>3 DEF CommandRecords
  <2>5. cache[<<Meant(p), b>>].bytes # None
    BY <1>1, <2>4 DEF ToldInv, Reported
  <2>6. Meant(p) # Resolved(w)
    BY <2>3, <2>4, <2>5
  <2> QED
    BY <1>1, <2>4, <2>6 DEF Meant, Resolved
<1>2. ToldInv /\ [InstallNext]_installVars =>
        [\A u \in Commands, p \in Installs :
           /\ command[u].stage = "lookup" /\ command'[u].stage = "ended"
           /\ install[p].want = command'[u].want /\ command'[u].binary \in told[p]
           => command'[u].want = "latest" /\ install[p].latest # NpmVersion]_installVars
  BY <1>1
<1> QED
  BY <1>2, Told, PTL DEF InstallSpec, FoundWhenTold

=============================================================================
