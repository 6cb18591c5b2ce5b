----------------------------- MODULE MCMachine -----------------------------
(***************************************************************************)
(* What aht keeps on a machine besides the registry.                       *)
(* The history (HistorySpec): the index between searches and the agents    *)
(* that write transcripts, a search over many transcripts, processes that  *)
(* open the index, and the cache of titles.                                *)
(* What it installs (InstallSpec): hooks in the files of harnesses,        *)
(* plugins in their directories, the tracker as a service of the user, its *)
(* health file, and aht doctor, which judges and repairs it all.           *)
(* Each behaviour is one of one component, in one setting; part says       *)
(* which, and the variables of the others are off.                         *)
(***************************************************************************)
EXTENDS Naturals, TLC

CONSTANTS p1, p2, r1, r2, bin1, bin2, set1, set2

VARIABLE part     (* the component and setting of this behaviour               *)

\* HistoryIndex.
VARIABLES path, lines, torn, stamp, dstamp, clock, row, drow, convs, log, begun, searches

\* HistorySearch.
VARIABLES query, groups, stored, visits, todo, phase, queue, plans, excluded, items, matched,
          truncated, streamed, stopped, canceled

\* HistoryOpen.
VARIABLES openPath, journal, made, db, pc, openFile, openLog, healed, status

\* TitleCache.
VARIABLES files, titlePath, titleClock, cache, reader, reads

\* HookFiles.
VARIABLES file, bad, op, trusted, after, lost, used

\* PluginInstall.
VARIABLES fs, order, next, manifest, reg, st, ghost, pluginUsed

\* TrackerService.
VARIABLES platform, serviceFile, mgr, disk, cmd, last, commands, faults, upsets

\* TrackerHealth.
VARIABLES interval, now, lock, mode, at, due, mem, healthFile, tried, lastGood, smooth, onces,
          healthFaults

\* Doctor.
VARIABLES world, doctorCmd, report, runs, doctorUpsets, doctorFaults

indexVars == <<path, lines, torn, stamp, dstamp, clock, row, drow, convs, log, begun, searches>>
searchVars == <<query, groups, stored, visits, todo, phase, queue, plans, excluded, items,
                matched, truncated, streamed, stopped, canceled>>
openVars == <<openPath, journal, made, db, pc, openFile, openLog, healed, status>>
titleVars == <<files, titlePath, titleClock, cache, reader, reads>>
historyVars == <<indexVars, searchVars, openVars, titleVars>>
hookVars == <<file, bad, op, trusted, after, lost, used>>
pluginVars == <<fs, order, next, manifest, reg, st, ghost, pluginUsed>>
serviceVars == <<platform, serviceFile, mgr, disk, cmd, last, commands, faults, upsets>>
healthVars == <<interval, now, lock, mode, at, due, mem, healthFile, tried, lastGood, smooth,
                onces, healthFaults>>
doctorVars == <<world, doctorCmd, report, runs, doctorUpsets, doctorFaults>>
installVars == <<hookVars, pluginVars, serviceVars, healthVars, doctorVars>>
vars == <<part, historyVars, installVars>>

indexOff == path = "off" /\ lines = "off" /\ torn = "off" /\ stamp = "off" /\ dstamp = "off" /\
  clock = "off" /\ row = "off" /\ drow = "off" /\ convs = "off" /\ log = "off" /\
  begun = "off" /\ searches = "off"
searchOff == query = "off" /\ groups = "off" /\ stored = "off" /\ visits = "off" /\
  todo = "off" /\ phase = "off" /\ queue = "off" /\ plans = "off" /\ excluded = "off" /\
  items = "off" /\ matched = "off" /\ truncated = "off" /\ streamed = "off" /\
  stopped = "off" /\ canceled = "off"
openOff == openPath = "off" /\ journal = "off" /\ made = "off" /\ db = "off" /\ pc = "off" /\
  openFile = "off" /\ openLog = "off" /\ healed = "off" /\ status = "off"
titleOff == files = "off" /\ titlePath = "off" /\ titleClock = "off" /\ cache = "off" /\
  reader = "off" /\ reads = "off"
historyOff == indexOff /\ searchOff /\ openOff /\ titleOff

hookOff == file = "off" /\ bad = "off" /\ op = "off" /\ trusted = "off" /\ after = "off" /\
  lost = "off" /\ used = "off"
pluginOff == fs = "off" /\ order = "off" /\ next = "off" /\ manifest = "off" /\ reg = "off" /\
  st = "off" /\ ghost = "off" /\ pluginUsed = "off"
serviceOff == platform = "off" /\ serviceFile = "off" /\ mgr = "off" /\ disk = "off" /\
  cmd = "off" /\ last = "off" /\ commands = "off" /\ faults = "off" /\ upsets = "off"
healthOff == interval = "off" /\ now = "off" /\ lock = "off" /\ mode = "off" /\ at = "off" /\
  due = "off" /\ mem = "off" /\ healthFile = "off" /\ tried = "off" /\ lastGood = "off" /\
  smooth = "off" /\ onces = "off" /\ healthFaults = "off"
doctorOff == world = "off" /\ doctorCmd = "off" /\ report = "off" /\ runs = "off" /\
  doctorUpsets = "off" /\ doctorFaults = "off"
installOff == hookOff /\ pluginOff /\ serviceOff /\ healthOff /\ doctorOff

(* Histories and queries: two terms, messages that have one, both or none  *)
(* of them, excluded text, tool and injected text; parents with and        *)
(* without children of the same and of another session; files that cannot  *)
(* be opened, are outside the directories of the query or have an unknown  *)
(* time.                                                                   *)
User(h) == [hits |-> h, exclude |-> FALSE, role |-> "user"]
Tool(h) == [hits |-> h, exclude |-> FALSE, role |-> "tool"]
Injected == [hits |-> {"a", "b"}, exclude |-> TRUE, role |-> "context"]
Banned == [hits |-> {}, exclude |-> TRUE, role |-> "user"]
A == User({"a"})
B == User({"b"})
AB == User({"a", "b"})

F(s, parts, t, dir, ok) == [sid |-> s, parts |-> parts, at |-> t, dir |-> dir, ok |-> ok]
Good(s, parts) == F(s, parts, 3, TRUE, TRUE)

ParentParts == {<<A>>, <<AB, AB>>, <<A, B>>, <<Injected, B>>, <<Tool({"b"})>>, <<AB, Banned>>}
Parents ==
    {Good("p", s) : s \in ParentParts}
    \cup {F("p", <<AB>>, t, dir, ok) : t \in {0, 2, 3}, dir \in BOOLEAN, ok \in BOOLEAN}

ChildParts == {<<B>>, <<AB, A>>, <<Tool({"b"})>>, <<Banned>>}
ChildrenSet ==
    {Good(s, x) : s \in {"p", "c"}, x \in ChildParts}
    \cup {F("p", <<AB>>, 3, FALSE, TRUE), F("p", <<B>>, 3, TRUE, FALSE)}

Second == {<<Good("q", <<AB>>)>>, <<F("q", <<AB, A>>, 2, TRUE, TRUE)>>, <<Good("q", <<B>>)>>}

Histories ==
    {<<<<f>>, s>> : f \in Parents, s \in Second}
    \cup {<<<<f, c>>, s>> : f \in Parents, c \in ChildrenSet, s \in Second}

Q(asked, tools, stream, limit, sort, since) ==
    [mode |-> asked, tools |-> tools, stream |-> stream, limit |-> limit, sort |-> sort,
     since |-> since]

Queries ==
    {Q("search", FALSE, FALSE, 0, "updated", 0), Q("search", FALSE, FALSE, 1, "matches", 0),
     Q("search", FALSE, FALSE, 1, "updated", 3), Q("list", FALSE, FALSE, 0, "updated", 3),
     Q("search", TRUE, FALSE, 1, "updated", 0)}

StreamQueries == {Q("search", FALSE, TRUE, 0, "updated", 0), Q("search", TRUE, TRUE, 0, "updated", 0)}

\* Two processes of one build of the index, and one of a newer build.
Builds == [x \in 1..3 |-> IF x = 3 THEN 2 ELSE 1]

\* Whole records, the beginning and the end of one; long lines that cross the chunks.
TitleWrites ==
  {<<"m1", "e", "nl">>, <<"m2">>, <<"e", "nl">>, <<"o1", "e", "nl">>}
LongWrites ==
  {<<"x", "x", "x", "x">>, <<"m1", "e", "nl", "m0">>, <<"nl", "g1", "e">>, <<"m2", "e">>}

\* Processes and readers are interchangeable.
Symmetry == Permutations({p1, p2}) \cup Permutations({r1, r2})

-----------------------------------------------------------------------------
(* The history: its settings.                                              *)

Index == INSTANCE HistoryIndex WITH
  Procs <- {p1, p2}, MaxChanges <- 3, MaxInodes <- 1,
  MaxSearches <- 2, Edits <- {"torn", "rewrite"}, s <- searches

Resumes == INSTANCE HistoryIndex WITH
  Procs <- {p1, p2}, MaxChanges <- 2, MaxInodes <- 1,
  MaxSearches <- 3, Edits <- {"append"}, s <- searches

Searches == INSTANCE HistorySearch WITH
  Terms <- {"a", "b"}, Excerpts <- 2, Workers <- {1, 2},
  Histories <- Histories, Queries <- Queries, Visits <- {<<1, 2>>}

Streams == INSTANCE HistorySearch WITH
  Terms <- {"a", "b"}, Excerpts <- 2, Workers <- {1, 2},
  Histories <- Histories, Queries <- StreamQueries, Visits <- {<<1, 2>>}

Explicit == INSTANCE HistoryOpen WITH
  Procs <- {1, 2, 3}, Build <- Builds, Cached <- FALSE,
  Found <- {"missing", "empty", "own", "foreign", "broken"}, Others <- TRUE, MaxFiles <- 3,
  path <- openPath, log <- openLog, file <- openFile

Default == INSTANCE HistoryOpen WITH
  Procs <- {1, 2, 3}, Build <- Builds, Cached <- TRUE,
  Found <- {"missing", "own", "broken"}, Others <- FALSE, MaxFiles <- 4, path <- openPath,
  log <- openLog, file <- openFile

Titles == INSTANCE TitleCache WITH
  Readers <- {r1, r2}, RecordBytes <- 3,
  Writes <- TitleWrites, MaxWrites <- 3, MaxFiles <- 2, MaxReads <- 2, path <- titlePath,
  clock <- titleClock

LongLines == INSTANCE TitleCache WITH
  Readers <- {r1}, RecordBytes <- 3, Writes <- LongWrites,
  MaxWrites <- 4, MaxFiles <- 1, MaxReads <- 3, path <- titlePath, clock <- titleClock

HistoryInit ==
  /\ installOff
  /\ \/ part = "index" /\ Index!Init /\ searchOff /\ openOff /\ titleOff
     \/ part = "resume" /\ Resumes!Init /\ searchOff /\ openOff /\ titleOff
     \/ part = "search" /\ Searches!Init /\ indexOff /\ openOff /\ titleOff
     \/ part = "stream" /\ Streams!Init /\ indexOff /\ openOff /\ titleOff
     \/ part = "path" /\ Explicit!Init /\ indexOff /\ searchOff /\ titleOff
     \/ part = "cache" /\ Default!Init /\ indexOff /\ searchOff /\ titleOff
     \/ part = "titles" /\ Titles!Init /\ indexOff /\ searchOff /\ openOff
     \/ part = "long" /\ LongLines!Init /\ indexOff /\ searchOff /\ openOff

HistoryNext ==
  /\ UNCHANGED <<part, installVars>>
  /\ \/ part = "index" /\ Index!Next
        /\ UNCHANGED <<searchVars, openVars, titleVars>>
     \/ part = "resume" /\ Resumes!Next
        /\ UNCHANGED <<searchVars, openVars, titleVars>>
     \/ part = "search" /\ Searches!Next
        /\ UNCHANGED <<indexVars, openVars, titleVars>>
     \/ part = "stream" /\ Streams!Next
        /\ UNCHANGED <<indexVars, openVars, titleVars>>
     \/ part = "path" /\ Explicit!Next
        /\ UNCHANGED <<indexVars, searchVars, titleVars>>
     \/ part = "cache" /\ Default!Next
        /\ UNCHANGED <<indexVars, searchVars, titleVars>>
     \/ part = "titles" /\ Titles!Next
        /\ UNCHANGED <<indexVars, searchVars, openVars>>
     \/ part = "long" /\ LongLines!Next
        /\ UNCHANGED <<indexVars, searchVars, openVars>>

HistorySpec == HistoryInit /\ [][HistoryNext]_vars

-----------------------------------------------------------------------------
(* The history: properties.                                                *)

\* What is answered is what is there: an entry of the index with the transcript's stamp
\* has its messages, a directory known as it is has its entries, and a search that
\* nothing overlaps answers with the messages, whatever searches before it left behind
\* (HistoryIndex); a search reports the best matches whichever path found them, none of
\* them bare, a streamed one each match once (HistorySearch); a process stores in an
\* index of its build or of a newer one that took it over (HistoryOpen); and a title
\* read from a cached position is the one a whole scan finds (TitleCache).
AnswersAreExact ==
  /\ part = "index" => /\ Index!StampMeansContent /\ Index!KnownDirectoryIsIndexed
                       /\ Index!AloneIsExact
  /\ part = "resume" => /\ Resumes!StampMeansContent /\ Resumes!KnownDirectoryIsIndexed
                        /\ Resumes!AloneIsExact
  /\ part = "search" => Searches!AnswerIsExact /\ Searches!NoBareMatch
  /\ part = "stream" => Streams!StreamedOnce
  /\ part = "path" => Explicit!StoresInIndex
  /\ part = "titles" => Titles!ReadIsWholeScan /\ Titles!CacheIsUsable
  /\ part = "long" => LongLines!TypeOK /\ LongLines!ReadIsWholeScan /\ LongLines!CacheIsUsable

\* A search that was asked to stop reports nothing more (HistorySearch); what another
\* program keeps at an explicit path is left as it is, and stored rows are dropped only
\* by a build that replaces an older schema (HistoryOpen).
IndexSteps ==
  [][/\ part = "stream" => Streams!SilentAfterStop
     /\ part = "path" => Explicit!OthersUntouched
     /\ part = "cache" => Default!RebuiltOnce]_vars

-----------------------------------------------------------------------------
\* Two copies of aht on the path.
OnPath == <<bin1, bin2>>

Shim(found, version, executable, bin) ==
  [file |-> found, version |-> version, executable |-> executable, bin |-> bin]
NoShim == Shim("missing", 0, FALSE, "none")

Fine == [arts |-> <<"current", "current">>, bin |-> bin1, shim |-> NoShim]

\* Every state of the core checks, next to an integration that is fine.
CoreWorlds ==
  {[config |-> c, platform |-> os, processes |-> e, manifests |-> m, store |-> rd,
    history |-> h, health |-> z, service |-> [def |-> d, running |-> r], integration |-> Fine] :
     c \in {"valid", "invalid", "skipped"}, os \in {"supported", "other"},
     e \in {"listed", "denied"}, m \in {"valid", "old", "invalid"},
     rd \in {"readable", "broken"}, h \in {"complete", "partial"},
     z \in {"fresh", "missing", "corrupt"},
     d \in {bin1, bin2, "none", "foreign", "unknown"}, r \in BOOLEAN}

\* Every state of an integration of two artifacts and a shim, next to a core that
\* is fine.
IntegrationWorlds ==
  {[config |-> "valid", platform |-> "supported", processes |-> "listed",
    manifests |-> "valid", store |-> "readable", history |-> "complete", health |-> "fresh",
    service |-> [def |-> bin1, running |-> r],
    integration |-> [arts |-> <<x, y>>, bin |-> n, shim |-> q]] :
     r \in BOOLEAN, x \in {"missing", "current", "stale", "foreign"},
     y \in {"missing", "current", "stale", "disabled", "foreign"},
     n \in {bin1, bin2, <<"path", bin1>>, <<"path", bin2>>},
     q \in {NoShim, Shim("foreign", 0, TRUE, "none"),
            Shim("managed", 15, FALSE, bin1),
            Shim("managed", 15, TRUE, bin2), Shim("managed", 1, TRUE, bin1)}}

-----------------------------------------------------------------------------
(* What is installed: its settings.                                        *)

Groups == INSTANCE HookFiles WITH
  Format <- "wrapped", Marked <- TRUE, HasTrust <- FALSE,
  Edits <- {"append", "merge", "other", "copy", "bad"}, MaxEdits <- 3, MaxOps <- 3

Root == INSTANCE HookFiles WITH
  Format <- "root", Marked <- FALSE, HasTrust <- FALSE,
  Edits <- {"append", "merge", "other", "copy", "bad"}, MaxEdits <- 3, MaxOps <- 3

Cursor == INSTANCE HookFiles WITH
  Format <- "cursor", Marked <- TRUE, HasTrust <- FALSE,
  Edits <- {"append", "other", "copy", "bad"}, MaxEdits <- 3, MaxOps <- 3

Trusted == INSTANCE HookFiles WITH
  Format <- "wrapped", Marked <- TRUE, HasTrust <- TRUE,
  Edits <- {"append", "merge", "other", "copy", "bad"}, MaxEdits <- 2, MaxOps <- 3

Imported == INSTANCE PluginInstall WITH
  Procs <- {p1}, Kind <- "manifest",
  Operations <- {"install", "upgrade", "force", "remove"},
  FirstDirs <- {"none", "old", "mixed", "user"}, FirstRegs <- {"missing"}, MaxOps <- 3,
  MaxCrashes <- 2, MaxFails <- 1, used <- pluginUsed

Killed == INSTANCE PluginInstall WITH
  Procs <- {p1}, Kind <- "manifest",
  Operations <- {"install", "upgrade", "force"}, FirstDirs <- {"old", "mixed"},
  FirstRegs <- {"missing"}, MaxOps <- 4, MaxCrashes <- 3, MaxFails <- 0, used <- pluginUsed

Registered == INSTANCE PluginInstall WITH
  Procs <- {p1}, Kind <- "registered",
  Operations <- {"install", "upgrade", "force", "remove"},
  FirstDirs <- {"none", "old", "mixed", "user"},
  FirstRegs <- {"missing", "current", "stale", "disabled", "foreign"}, MaxOps <- 3,
  MaxCrashes <- 1, MaxFails <- 1, used <- pluginUsed

Service == INSTANCE TrackerService WITH
  Platforms <- {"linux", "darwin"}, Binaries <- {bin1, bin2},
  Settings <- {set1, set2}, MaxCommands <- 2, MaxFaults <- 1, MaxUpsets <- 1, file <- serviceFile

Health == INSTANCE TrackerHealth WITH
  Intervals <- {1, 4}, WriteInterval <- 2, MinAge <- 8,
  MaxCycle <- 3, MaxTime <- 14, MaxOnce <- 1, MaxFaults <- 2, file <- healthFile,
  faults <- healthFaults

Core == INSTANCE Doctor WITH
  Copies <- {bin1, bin2}, OnPath <- OnPath, ManagedVersion <- 15,
  HarnessVersion <- 15, MaxUpsets <- 1, MaxFaults <- 1, Worlds <- CoreWorlds, MaxRuns <- 1,
  cmd <- doctorCmd, upsets <- doctorUpsets, faults <- doctorFaults

Fixes == INSTANCE Doctor WITH
  Copies <- {bin1, bin2}, OnPath <- OnPath, ManagedVersion <- 15,
  HarnessVersion <- 15, MaxUpsets <- 1, MaxFaults <- 1, Worlds <- IntegrationWorlds,
  MaxRuns <- 2, cmd <- doctorCmd, upsets <- doctorUpsets, faults <- doctorFaults

ASSUME SettingsAreSound == Service!ServiceAssumption /\ Health!HealthAssumption /\
  Core!VersionAssumption /\ Core!DoctorAssumption /\ Fixes!VersionAssumption /\
  Fixes!DoctorAssumption

InstallInit ==
  /\ historyOff
  /\ \/ part = "groups" /\ Groups!Init /\ pluginOff /\ serviceOff /\ healthOff /\ doctorOff
     \/ part = "root" /\ Root!Init /\ pluginOff /\ serviceOff /\ healthOff /\ doctorOff
     \/ part = "cursor" /\ Cursor!Init /\ pluginOff /\ serviceOff /\ healthOff /\ doctorOff
     \/ part = "trust" /\ Trusted!Init /\ pluginOff /\ serviceOff /\ healthOff /\ doctorOff
     \/ part = "plugin" /\ Imported!Init /\ hookOff /\ serviceOff /\ healthOff /\ doctorOff
     \/ part = "killed" /\ Killed!Init /\ hookOff /\ serviceOff /\ healthOff /\ doctorOff
     \/ part = "registered" /\ Registered!Init /\ hookOff /\ serviceOff /\ healthOff /\ doctorOff
     \/ part = "service" /\ Service!Init /\ hookOff /\ pluginOff /\ healthOff /\ doctorOff
     \/ part = "health" /\ Health!Init /\ hookOff /\ pluginOff /\ serviceOff /\ doctorOff
     \/ part = "core" /\ Core!Init /\ hookOff /\ pluginOff /\ serviceOff /\ healthOff
     \/ part = "fixes" /\ Fixes!Init /\ hookOff /\ pluginOff /\ serviceOff /\ healthOff

InstallNext ==
  /\ UNCHANGED <<part, historyVars>>
  /\ \/ part = "groups" /\ Groups!Next
        /\ UNCHANGED <<pluginVars, serviceVars, healthVars, doctorVars>>
     \/ part = "root" /\ Root!Next
        /\ UNCHANGED <<pluginVars, serviceVars, healthVars, doctorVars>>
     \/ part = "cursor" /\ Cursor!Next
        /\ UNCHANGED <<pluginVars, serviceVars, healthVars, doctorVars>>
     \/ part = "trust" /\ Trusted!Next
        /\ UNCHANGED <<pluginVars, serviceVars, healthVars, doctorVars>>
     \/ part = "plugin" /\ Imported!Next
        /\ UNCHANGED <<hookVars, serviceVars, healthVars, doctorVars>>
     \/ part = "killed" /\ Killed!Next
        /\ UNCHANGED <<hookVars, serviceVars, healthVars, doctorVars>>
     \/ part = "registered" /\ Registered!Next
        /\ UNCHANGED <<hookVars, serviceVars, healthVars, doctorVars>>
     \/ part = "service" /\ Service!Next
        /\ UNCHANGED <<hookVars, pluginVars, healthVars, doctorVars>>
     \/ part = "health" /\ Health!Next
        /\ UNCHANGED <<hookVars, pluginVars, serviceVars, doctorVars>>
     \/ part = "core" /\ Core!Next
        /\ UNCHANGED <<hookVars, pluginVars, serviceVars, healthVars>>
     \/ part = "fixes" /\ Fixes!Next
        /\ UNCHANGED <<hookVars, pluginVars, serviceVars, healthVars>>

InstallSpec == InstallInit /\ [][InstallNext]_vars

-----------------------------------------------------------------------------
(* What is installed: properties.                                          *)

\* Installing leaves what it found and installs what it says: hooks of the user are
\* kept, installed ones current, removed ones gone, and only own ones trusted
\* (HookFiles); a plugin is installed whole or what was there is restored, whatever
\* fails or is killed (PluginInstall); enabling, upgrading and disabling the service
\* and their rollbacks do what they say (TrackerService).
InstallsAreWhole ==
  /\ part = "groups" => /\ Groups!TypeOK /\ Groups!UserHooksKept
                        /\ Groups!InstalledIsCurrent /\ Groups!RemovedIsClean
  /\ part = "root" => Root!InstalledIsCurrent /\ Root!RemovedIsClean
  /\ part = "cursor" => Cursor!InstalledIsCurrent /\ Cursor!RemovedIsClean
  /\ part = "trust" => Trusted!TrustsOnlyItsOwn /\ Trusted!InstalledIsCurrent
  /\ part = "plugin" => /\ Imported!AllOrRestore /\ Imported!UserKept
                        /\ Imported!SuccessIsComplete
  /\ part = "killed" => Killed!TypeOK /\ Killed!PluginKept
  /\ part = "registered" => Registered!AllOrRestore
  /\ part = "service" => /\ Service!TypeOK /\ Service!EnableRuns /\ Service!UpgradeRefreshes
                         /\ Service!RollbackRestores /\ Service!DisableRemoves

\* What is reported is so: the health file of a tracker that runs is fresh, a healthy one
\* had a good cycle recently, a bad cycle is told in time (TrackerHealth); a check that
\* is skipped has a cause, a repair repairs, and what is left is reported (Doctor).
ReportsAreTrue ==
  /\ part = "health" => /\ Health!TypeOK /\ Health!FreshWhileRunning
                        /\ Health!HealthyIsRecent /\ Health!ToldInTime
  /\ part = "core" => Core!TypeOK /\ Core!SkipsHaveCause
  /\ part = "fixes" => Fixes!ReportsWhatIsLeft /\ Fixes!FixesWork

\* What belongs to others stays: a definition aht did not write (TrackerService), a
\* registration the user disabled (PluginInstall), foreign files under a repair, and
\* what another copy of aht shares (Doctor).
OthersAreKept ==
  [][/\ part = "service" => Service!ForeignKept
     /\ part = "registered" => Registered!DisabledStays
     /\ part = "fixes" => Fixes!ForeignSurvivesFixes /\ Fixes!CopiesShare]_vars
=============================================================================
