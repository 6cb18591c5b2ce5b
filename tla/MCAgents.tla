------------------------------ MODULE MCAgents ------------------------------
(***************************************************************************)
(* How the tracker comes to know agents (TrackingSpec): its scans of       *)
(* processes, the panes they are placed in, the screens it reads, the      *)
(* rules and manifests it reads them by, and the hooks of the harnesses.   *)
(* And which sessions it makes of what it comes to know (MatchingSpec),    *)
(* when identities, processes and harnesses disagree. Each behaviour is    *)
(* one of one component, in one setting; part says which, and the          *)
(* variables of the others are off.                                        *)
(***************************************************************************)
EXTENDS Naturals, TLC

CONSTANTS p1, p2, noproc, l1, l2, id1, id2, nosid, h1, h2

VARIABLE part     (* the component and setting of this behaviour               *)

\* Observer.
VARIABLES clock, born, died, hooked, sessions, ended, faults, flickers, pc, at, listed, known,
          initialized, tracked, candidates, seenFrom, news, swept

\* Attribution.
VARIABLES proc, order, panes, agent, job, phase, next, placed, read

\* ScreenReading.
VARIABLES screenClock, shown, place, cur, past, session, pending, cycle, caught, calm, changes

\* ScreenRules.
VARIABLES manifest, raw, rulePhase, loaded, snapshot, decision, inspection

\* ManifestCache.
VARIABLES file, cache, load, edits

\* HarnessHooks.
VARIABLES h, hookPhase, why, chain, fired, refused, sess, detail, now, used

\* Matching.
VARIABLES observed, snap

scanVars == <<clock, born, died, hooked, sessions, ended, faults, flickers, pc, at, listed,
              known, initialized, tracked, candidates, seenFrom, news, swept>>
treeVars == <<proc, order, panes, agent, job, phase, next, placed, read>>
screenVars == <<screenClock, shown, place, cur, past, session, pending, cycle, caught, calm,
                changes>>
ruleVars == <<manifest, raw, rulePhase, loaded, snapshot, decision, inspection>>
loadVars == <<file, cache, load, edits>>
hookVars == <<h, hookPhase, why, chain, fired, refused, sess, detail, now, used>>
matchVars == <<observed, snap>>
trackerVars == <<scanVars, treeVars, screenVars, ruleVars, loadVars, hookVars>>
vars == <<part, trackerVars, matchVars>>

\* Processes are interchangeable, and so are native identities.
Symmetry == Permutations({p1, p2}) \cup Permutations({id1, id2})

-----------------------------------------------------------------------------
(* The settings.                                                           *)

Scanning == INSTANCE Observer WITH
  Procs <- {p1, p2}, NoProc <- noproc, ScreenPolicy <- FALSE,
  ScreenFallback <- TRUE, RetainActivity <- FALSE, CatalogCreates <- FALSE, Lease <- 3,
  ConfirmAfter <- 2, MissingSnapshots <- 2, MaxTime <- 7, MaxFaults <- 1, MaxFlickers <- 1

Trees == INSTANCE Attribution WITH
  Pids <- 1..3, Harnesses <- {"a", "b"}, Wrappers <- BOOLEAN,
  Jobs <- {"unknown"}, Marks <- {0}, Ttys <- {0}, PaneCount <- 0, PaneRoots <- {0}

Chains == INSTANCE Attribution WITH
  Pids <- 1..4, Harnesses <- {"a", "b"}, Wrappers <- {FALSE},
  Jobs <- {"unknown"}, Marks <- {0}, Ttys <- {0}, PaneCount <- 0, PaneRoots <- {0}

Panes == INSTANCE Attribution WITH
  Pids <- 1..3, Harnesses <- {"a"}, Wrappers <- {FALSE},
  Jobs <- {"fg", "bg"}, Marks <- {0}, Ttys <- {0, 1}, PaneCount <- 2, PaneRoots <- {1}

Marked == INSTANCE Attribution WITH
  Pids <- 1..2, Harnesses <- {"a"}, Wrappers <- BOOLEAN,
  Jobs <- {"unknown"}, Marks <- {0, 1, 2}, Ttys <- {0, 1}, PaneCount <- 2, PaneRoots <- {0, 1}

Screens == INSTANCE ScreenReading WITH
  Procs <- {p1, p2}, NoProc <- noproc,
  ScreenPolicy <- FALSE, ScreenFallback <- TRUE, RetainActivity <- FALSE,
  CatalogCreates <- FALSE, Lease <- 1, Continuous <- TRUE, Status <- FALSE, Inspect <- TRUE,
  CycleTime <- 1, MaxTime <- 4, MaxChanges <- 2, clock <- screenClock

Statuses == INSTANCE ScreenReading WITH
  Procs <- {p1, p2}, NoProc <- noproc,
  ScreenPolicy <- TRUE, ScreenFallback <- TRUE, RetainActivity <- FALSE,
  CatalogCreates <- FALSE, Lease <- 1, Continuous <- TRUE, Status <- TRUE, Inspect <- TRUE,
  CycleTime <- 1, MaxTime <- 4, MaxChanges <- 2, clock <- screenClock

Rules == INSTANCE ScreenRules WITH
  MaxSnapshotLines <- 2, MaxLines <- 3, phase <- rulePhase

BuiltIn == INSTANCE ManifestCache WITH
  Loaders <- {l1, l2}, Bundled <- TRUE, MaxEdits <- 4

Override == INSTANCE ManifestCache WITH
  Loaders <- {l1, l2}, Bundled <- FALSE, MaxEdits <- 4

Hooked == INSTANCE HarnessHooks WITH
  Procs <- {p1, p2}, NoProc <- noproc, ScreenPolicy <- FALSE,
  ScreenFallback <- FALSE, RetainActivity <- FALSE, CatalogCreates <- FALSE, Lease <- 1,
  Harnesses <- {"claude", "codex", "qwen", "droid", "grok", "goose", "kimi", "cursor", "copilot", "agy"},
  MaxEvents <- 9, MaxStarts <- 2, phase <- hookPhase

Reported == INSTANCE Matching WITH
  Procs <- {p1, p2}, NoProc <- noproc, ScreenPolicy <- FALSE,
  ScreenFallback <- TRUE, RetainActivity <- FALSE, CatalogCreates <- FALSE, Lease <- 1,
  Harnesses <- {h1}, Sids <- {id1, id2}, NoSid <- nosid, ExclusiveProcess <- TRUE, TTL <- 2,
  MaxTime <- 4, Late <- 4, Bare <- FALSE, Anonymous <- FALSE, Others <- {},
  past <- observed

AllKinds == INSTANCE Matching WITH
  Procs <- {p1, p2}, NoProc <- noproc, ScreenPolicy <- FALSE,
  ScreenFallback <- TRUE, RetainActivity <- FALSE, CatalogCreates <- TRUE, Lease <- 1,
  Harnesses <- {h1}, Sids <- {id1}, NoSid <- nosid, ExclusiveProcess <- TRUE, TTL <- 2,
  MaxTime <- 3, Late <- 2, Bare <- TRUE, Anonymous <- FALSE,
  Others <- {"placement", "listing", "verification"},
  past <- observed

TwoHarnesses == INSTANCE Matching WITH
  Procs <- {p1}, NoProc <- noproc, ScreenPolicy <- FALSE,
  ScreenFallback <- TRUE, RetainActivity <- FALSE, CatalogCreates <- TRUE, Lease <- 1,
  Harnesses <- {h1, h2}, Sids <- {id1}, NoSid <- nosid, ExclusiveProcess <- TRUE, TTL <- 2,
  MaxTime <- 3, Late <- 0, Bare <- FALSE, Anonymous <- FALSE, Others <- {"placement"},
  past <- observed

ASSUME SettingsAreSound == Scanning!ObserverAssumption /\ Trees!AttributionAssumption /\
  Chains!AttributionAssumption /\ Panes!AttributionAssumption /\ Marked!AttributionAssumption /\ Screens!ScreenAssumption /\
  Statuses!ScreenAssumption /\ Rules!RulesAssumption /\ BuiltIn!CacheAssumption /\
  Override!CacheAssumption /\ Hooked!TurnAssumption /\ Reported!MatchingAssumption /\
  AllKinds!MatchingAssumption /\ TwoHarnesses!MatchingAssumption

scanOff == clock = "off" /\ born = "off" /\ died = "off" /\ hooked = "off" /\
  sessions = "off" /\ ended = "off" /\ faults = "off" /\ flickers = "off" /\ pc = "off" /\
  at = "off" /\ listed = "off" /\ known = "off" /\ initialized = "off" /\ tracked = "off" /\
  candidates = "off" /\ seenFrom = "off" /\ news = "off" /\ swept = "off"
treeOff == proc = "off" /\ order = "off" /\ panes = "off" /\ agent = "off" /\ job = "off" /\
  phase = "off" /\ next = "off" /\ placed = "off" /\ read = "off"
screenOff == screenClock = "off" /\ shown = "off" /\ place = "off" /\ cur = "off" /\
  past = "off" /\ session = "off" /\ pending = "off" /\ cycle = "off" /\ caught = "off" /\
  calm = "off" /\ changes = "off"
ruleOff == manifest = "off" /\ raw = "off" /\ rulePhase = "off" /\ loaded = "off" /\
  snapshot = "off" /\ decision = "off" /\ inspection = "off"
loadOff == file = "off" /\ cache = "off" /\ load = "off" /\ edits = "off"
hookOff == h = "off" /\ hookPhase = "off" /\ why = "off" /\ chain = "off" /\ fired = "off" /\
  refused = "off" /\ sess = "off" /\ detail = "off" /\ now = "off" /\ used = "off"
matchOff == observed = "off" /\ snap = "off"
trackerOff == scanOff /\ treeOff /\ screenOff /\ ruleOff /\ loadOff /\ hookOff

TrackerInit ==
  \/ part = "scan" /\ Scanning!Init /\ treeOff /\ screenOff /\ ruleOff /\ loadOff /\ hookOff
  \/ part = "trees" /\ Trees!Init /\ scanOff /\ screenOff /\ ruleOff /\ loadOff /\ hookOff
  \/ part = "chains" /\ Chains!Init /\ scanOff /\ screenOff /\ ruleOff /\ loadOff /\ hookOff
  \/ part = "panes" /\ Panes!Init /\ scanOff /\ screenOff /\ ruleOff /\ loadOff /\ hookOff
  \/ part = "marks" /\ Marked!Init /\ scanOff /\ screenOff /\ ruleOff /\ loadOff /\ hookOff
  \/ part = "screens" /\ Screens!Init /\ scanOff /\ treeOff /\ ruleOff /\ loadOff /\ hookOff
  \/ part = "status" /\ Statuses!Init /\ scanOff /\ treeOff /\ ruleOff /\ loadOff /\ hookOff
  \/ part = "rules" /\ Rules!Init /\ scanOff /\ treeOff /\ screenOff /\ loadOff /\ hookOff
  \/ part = "bundled" /\ BuiltIn!Init /\ scanOff /\ treeOff /\ screenOff /\ ruleOff /\ hookOff
  \/ part = "local" /\ Override!Init /\ scanOff /\ treeOff /\ screenOff /\ ruleOff /\ hookOff
  \/ part = "hooks" /\ Hooked!Init /\ scanOff /\ treeOff /\ screenOff /\ ruleOff /\ loadOff

MatchingInit ==
  \/ part = "reports" /\ Reported!Init
  \/ part = "sources" /\ AllKinds!Init
  \/ part = "harnesses" /\ TwoHarnesses!Init

TrackerNext ==
  \/ part = "scan" /\ Scanning!Next
     /\ UNCHANGED <<part, treeVars, screenVars, ruleVars, loadVars, hookVars>>
  \/ part = "trees" /\ Trees!Next
     /\ UNCHANGED <<part, scanVars, screenVars, ruleVars, loadVars, hookVars>>
  \/ part = "chains" /\ Chains!Next
     /\ UNCHANGED <<part, scanVars, screenVars, ruleVars, loadVars, hookVars>>
  \/ part = "panes" /\ Panes!Next
     /\ UNCHANGED <<part, scanVars, screenVars, ruleVars, loadVars, hookVars>>
  \/ part = "marks" /\ Marked!Next
     /\ UNCHANGED <<part, scanVars, screenVars, ruleVars, loadVars, hookVars>>
  \/ part = "screens" /\ Screens!Next
     /\ UNCHANGED <<part, scanVars, treeVars, ruleVars, loadVars, hookVars>>
  \/ part = "status" /\ Statuses!Next
     /\ UNCHANGED <<part, scanVars, treeVars, ruleVars, loadVars, hookVars>>
  \/ part = "rules" /\ Rules!Next
     /\ UNCHANGED <<part, scanVars, treeVars, screenVars, loadVars, hookVars>>
  \/ part = "bundled" /\ BuiltIn!Next
     /\ UNCHANGED <<part, scanVars, treeVars, screenVars, ruleVars, hookVars>>
  \/ part = "local" /\ Override!Next
     /\ UNCHANGED <<part, scanVars, treeVars, screenVars, ruleVars, hookVars>>
  \/ part = "hooks" /\ Hooked!Next
     /\ UNCHANGED <<part, scanVars, treeVars, screenVars, ruleVars, loadVars>>

MatchingNext ==
  \/ part = "reports" /\ Reported!Next
  \/ part = "sources" /\ AllKinds!Next
  \/ part = "harnesses" /\ TwoHarnesses!Next

TrackingInit == TrackerInit /\ matchOff

SessionsInit == MatchingInit /\ trackerOff

TrackingSpec == TrackingInit /\ [][TrackerNext /\ UNCHANGED matchVars]_vars

MatchingSpec == SessionsInit /\ [][MatchingNext /\ UNCHANGED <<part, trackerVars>>]_vars

-----------------------------------------------------------------------------
(* Properties.                                                             *)

\* Agents are found. What scans make of a process (Observer): one that runs is not called
\* gone, however lists flicker and recordings fail; one that ends before it was seen long
\* enough never becomes a session; one that died is not live any more once enough cycles
\* have missed it. Which process is the agent and which screen is its own (Attribution):
\* one agent per chain of processes, none dropped but for another one of its kind, the
\* outermost kept; a screen is read for the agent at the top of its pane, and for one
\* agent only once.
AgentsAreFound ==
  /\ part = "scan" => /\ Scanning!TypeOK /\ Scanning!LivingIsNotGone
                      /\ Scanning!ShortLivedStaysOut /\ Scanning!DeadIsRetired
  /\ part = "trees" => Trees!OnePerChain /\ Trees!DroppedForAnother /\ Trees!OutermostKept
  /\ part = "chains" => Chains!OnePerChain /\ Chains!DroppedForAnother /\ Chains!OutermostKept
  /\ part = "panes" => Panes!ScreenSpeaksForItsAgent /\ Panes!OneScreenPerAgent
  /\ part = "marks" => Marked!ScreenSpeaksForItsAgent /\ Marked!OneScreenPerAgent

\* What a screen says: two calm cycles after a change the session shows what the
\* screen shows (ScreenReading); the rule of the highest priority that matches
\* decides and the inspection explains it, whatever the blank tail and the case
\* (ScreenRules); and a load that nothing disturbed uses the manifest that is on
\* disk, although loads share a cache (ManifestCache).
ScreensAreRead ==
  /\ part = "screens" => Screens!TypeOK /\ Screens!ScreenCatchesUp
  /\ part = "status" => Statuses!ScreenCatchesUp
  /\ part = "rules" => /\ Rules!TypeOK /\ Rules!BestRuleDecides /\ Rules!InspectionExplains
                       /\ Rules!BlankTailIsIgnored /\ Rules!CaseIsIgnored /\ Rules!NothingComesOfNothing
  /\ part = "bundled" => /\ BuiltIn!TypeOK /\ BuiltIn!QuietLoadIsCurrent
                         /\ BuiltIn!BuiltInNeverFails /\ BuiltIn!ExplicitAgrees
  /\ part = "local" => Override!QuietLoadIsCurrent

\* Through its hooks alone, every harness tells its activity, its presence and what
\* it asks for, under the process it really runs in, and no hook call is refused
\* (HarnessHooks).
HooksTell ==
  part = "hooks" => /\ Hooked!TypeOK /\ Hooked!ActivityTold /\ Hooked!PresenceTold
                    /\ Hooked!DetailTold /\ Hooked!OwnProcess /\ Hooked!NoHookRefused

\* What a step of the tracker never does: bring a session back that is gone or was
\* removed (Observer), record a first reading it has seen once, let a redraw erase
\* a known activity, or let a capture older than a report's lease replace the
\* report (ScreenReading).
TrackerSteps ==
  [][/\ part = "scan" => Scanning!GoneForGood
     /\ part = "screens" => /\ Screens!FirstReadingIsSeenTwice /\ Screens!RedrawIsNoNews
                            /\ Screens!ReportOutlivesCapture
     /\ part = "status" => Statuses!FirstReadingIsSeenTwice]_vars

\* However scans and reports of several processes interleave, one native identity has
\* one live session, and so has an exclusive process (Matching).
OneLiveSession ==
  /\ part = "reports" => Reported!OneLivePerIdentity /\ Reported!OneLivePerProcess
  /\ part = "sources" => AllKinds!TypeOK /\ AllKinds!OneLivePerIdentity
  /\ part = "harnesses" => TwoHarnesses!OneLivePerIdentity /\ TwoHarnesses!OneLivePerProcess

\* A scan of the present never fails as a batch, leaves no session live in a process
\* that ended, and decides which agent a process runs, whatever came late before it
\* (Matching).
ScansDecide ==
  /\ part = "reports" => Reported!ScanIsBelieved
  /\ part = "sources" => AllKinds!ScanIsBelieved
  /\ part = "harnesses" => TwoHarnesses!ScanIsBelieved

\* No late report recreates a session of a process the registry remembers as ended
\* (Matching).
EndedProcessesStay == [][part = "reports" => Reported!EndedStays]_vars
=============================================================================
