----------------------------- MODULE MCClients -----------------------------
(***************************************************************************)
(* The clients of the registry: hooks and subscribers of the broker, a     *)
(* program that waits for a session, the watch of the files, aht watch,    *)
(* aht current and aht stop; and what the registry stores of the reports   *)
(* that clients make. And the tools around aht: starting a fake            *)
(* environment (pkg/fakeenv), a harness in conversation with the scripted  *)
(* provider (pkg/fakeprovider), the checks of new harness releases and the *)
(* release of aht (internal/tools, .github/workflows). Each behaviour is   *)
(* one of one component, in one setting; part says which, and the          *)
(* variables of the others are off.                                        *)
(***************************************************************************)
EXTENDS Naturals, Sequences, TLC

CONSTANTS w, silent, s1, s2, t1, t2, q1, q2, p1, p2, noproc, h1, h2, a1, c1, c2

VARIABLE part     (* the component and setting of this behaviour               *)

\* Broker.
VARIABLES up, stops, conn, slots, pc, memory, revision, journal, sub

\* ClientWait.
VARIABLES opts, session, changes, faults, resets, exited, stream, pushed, queue, ended,
          candidate, timer, held, lastSeen, outcome, result

\* FileWatch.
VARIABLES dir, made, content, filesChanges, filesFaults, watched, filesQueue, overflow,
          debounce, filesPc, baseline, have, clean, shown

\* WatchCommand.
VARIABLES watchMemory, file, watchUp, directory, clock, watchStops, mode, inbox, sent, broken,
          previous, batch, reader

\* CurrentSession.
VARIABLES procs, sessions, envPane, call, kin, currentChanges

\* StopSession.
VARIABLES stopProcs, shells, stopSessions, cmd, hits, stopChanges

\* StoredState.
VARIABLES storedClock, storedSession, storedDetail, by, storedShown, storedRefused, said

\* FakeLaunch.
VARIABLES proc, launchPc, ctxDone, provider, current, setups, services, tracker, ready, tmux,
          found, polls, born, prepared, runErr, cleanErr, failures, exit

\* ProviderConversation.
VARIABLES proto, script, log, index, failed, req, rest, got, harness, heard, honest, ran

\* ReleaseChecks.
VARIABLES world, artifacts, runs, active, step, issues, todo, reruns, passed, latest,
          checkFailed

\* ReleasePublish.
VARIABLES ci, releases, publishRuns, publishActive, publishStep, publishFound, builds,
          publishReruns, late, green

brokerVars == <<up, stops, conn, slots, pc, memory, revision, journal, sub>>
waitVars == <<opts, session, changes, faults, resets, exited, stream, pushed, queue, ended,
              candidate, timer, held, lastSeen, outcome, result>>
filesVars == <<dir, made, content, filesChanges, filesFaults, watched, filesQueue, overflow,
               debounce, filesPc, baseline, have, clean, shown>>
watchVars == <<watchMemory, file, watchUp, directory, clock, watchStops, mode, inbox, sent,
               broken, previous, batch, reader>>
currentVars == <<procs, sessions, envPane, call, kin, currentChanges>>
stopVars == <<stopProcs, shells, stopSessions, cmd, hits, stopChanges>>
storeVars == <<storedClock, storedSession, storedDetail, by, storedShown, storedRefused, said>>
launchVars == <<proc, launchPc, ctxDone, provider, current, setups, services, tracker, ready, tmux,
                found, polls, born, prepared, runErr, cleanErr, failures, exit>>
talkVars == <<proto, script, log, index, failed, req, rest, got, harness, heard, honest, ran>>
checkVars == <<world, artifacts, runs, active, step, issues, todo, reruns, passed, latest,
               checkFailed>>
publishVars == <<ci, releases, publishRuns, publishActive, publishStep, publishFound, builds,
                 publishReruns, late, green>>
toolVars == <<launchVars, talkVars, checkVars, publishVars>>
readerVars == <<brokerVars, waitVars, filesVars, watchVars, currentVars, stopVars>>
clientVars == <<readerVars, storeVars>>
vars == <<part, clientVars, toolVars>>

\* Sessions and terminals are interchangeable, and so are panes and the processes of stored
\* sessions. (The process numbers of aht stop are not: it starts where the agent has
\* number 1.)
Symmetry == Permutations({s1, s2}) \cup Permutations({t1, t2}) \cup Permutations({q1, q2})
            \cup Permutations({p1, p2})

-----------------------------------------------------------------------------
(* The settings.                                                           *)

Brokered == INSTANCE Broker WITH
  Hooks <- {1, 2}, Watchers <- {w}, Silent <- {silent},
  MaxConnections <- 2, Window <- 1, MaxStops <- 1

Waits == INSTANCE ClientWait WITH
  Modes <- {"auto", "realtime", "durable"},
  Processes <- {1, 2}, Activities <- {"idle", "none"}, Capacity <- 1, MaxChanges <- 3,
  MaxFaults <- 1, MaxResets <- 0

Files == INSTANCE FileWatch WITH
  Values <- {0, 1, 2, 3}, Shown <- {1, 2},
  ParentWatched <- TRUE, QueueMax <- 2, MaxChanges <- 3, MaxFaults <- 1,
  changes <- filesChanges, faults <- filesFaults, queue <- filesQueue, pc <- filesPc

Watched == INSTANCE WatchCommand WITH
  Ids <- {1}, Ignored <- {}, Activities <- {0, 1},
  Locations <- {1, 2}, Natives <- {1}, LiveOnly <- FALSE, NoSnapshot <- FALSE, MaxChanges <- 2,
  MaxStops <- 1, memory <- watchMemory, up <- watchUp, stops <- watchStops

Filtered == INSTANCE WatchCommand WITH
  Ids <- {1, 2}, Ignored <- {2}, Activities <- {0},
  Locations <- {1}, Natives <- {1, 2}, LiveOnly <- TRUE, NoSnapshot <- TRUE, MaxChanges <- 2,
  MaxStops <- 1, memory <- watchMemory, up <- watchUp, stops <- watchStops

Current == INSTANCE CurrentSession WITH
  Pids <- {2, 3}, Caller <- 3, Sess <- {s1, s2},
  Terminals <- {t1, t2}, Reuse <- FALSE, MaxChanges <- 3, changes <- currentChanges

Stopped == INSTANCE StopSession WITH
  Panes <- {q1, q2}, Pids <- {1, 2}, Outside <- FALSE,
  MaxChanges <- 2, procs <- stopProcs, sessions <- stopSessions, changes <- stopChanges

StoredNow == INSTANCE StoredState WITH
  Procs <- {p1, p2}, NoProc <- noproc,
  ScreenPolicy <- FALSE, ScreenFallback <- TRUE, RetainActivity <- FALSE,
  CatalogCreates <- FALSE, Lease <- 1, MaxTime <- 2, Skew <- 0,
  Kinds <- {"report", "sighting", "reading", "verification"}, Activities <- {"waiting"},
  Details <- {"question"}, Takeovers <- FALSE,
  clock <- storedClock, session <- storedSession, detail <- storedDetail,
  shown <- storedShown, refused <- storedRefused

StoredLater == INSTANCE StoredState WITH
  Procs <- {p1}, NoProc <- noproc,
  ScreenPolicy <- FALSE, ScreenFallback <- TRUE, RetainActivity <- FALSE,
  CatalogCreates <- FALSE, Lease <- 1, MaxTime <- 3, Skew <- 0, Kinds <- {"report"},
  Activities <- {"waiting", "failed"}, Details <- {"question", "clear"}, Takeovers <- FALSE,
  clock <- storedClock, session <- storedSession, detail <- storedDetail,
  shown <- storedShown, refused <- storedRefused

TakenOver == INSTANCE StoredState WITH
  Procs <- {p1, p2}, NoProc <- noproc,
  ScreenPolicy <- FALSE, ScreenFallback <- TRUE, RetainActivity <- FALSE,
  CatalogCreates <- FALSE, Lease <- 1, MaxTime <- 2, Skew <- 1,
  Kinds <- {"report", "reading"}, Activities <- {"idle"}, Details <- {},
  Takeovers <- TRUE,
  clock <- storedClock, session <- storedSession, detail <- storedDetail,
  shown <- storedShown, refused <- storedRefused

ASSUME SettingsAreSound == Brokered!BrokerAssumption /\ Waits!ClientWaitAssumption /\
  Files!FileWatchAssumption /\ Watched!WatchAssumption /\ Filtered!WatchAssumption /\
  Current!CurrentAssumption /\ Stopped!StopAssumption /\
  StoredNow!StoredAssumption /\ StoredLater!StoredAssumption /\ TakenOver!StoredAssumption

brokerOff == up = "off" /\ stops = "off" /\ conn = "off" /\ slots = "off" /\ pc = "off" /\
  memory = "off" /\ revision = "off" /\ journal = "off" /\ sub = "off"
waitOff == opts = "off" /\ session = "off" /\ changes = "off" /\ faults = "off" /\
  resets = "off" /\ exited = "off" /\ stream = "off" /\ pushed = "off" /\ queue = "off" /\
  ended = "off" /\ candidate = "off" /\ timer = "off" /\ held = "off" /\ lastSeen = "off" /\
  outcome = "off" /\ result = "off"
filesOff == dir = "off" /\ made = "off" /\ content = "off" /\ filesChanges = "off" /\
  filesFaults = "off" /\ watched = "off" /\ filesQueue = "off" /\ overflow = "off" /\
  debounce = "off" /\ filesPc = "off" /\ baseline = "off" /\ have = "off" /\ clean = "off" /\
  shown = "off"
watchOff == watchMemory = "off" /\ file = "off" /\ watchUp = "off" /\ directory = "off" /\
  clock = "off" /\ watchStops = "off" /\ mode = "off" /\ inbox = "off" /\ sent = "off" /\
  broken = "off" /\ previous = "off" /\ batch = "off" /\ reader = "off"
currentOff == procs = "off" /\ sessions = "off" /\ envPane = "off" /\ call = "off" /\
  kin = "off" /\ currentChanges = "off"
stopOff == stopProcs = "off" /\ shells = "off" /\ stopSessions = "off" /\ cmd = "off" /\
  hits = "off" /\ stopChanges = "off"
storeOff == storedClock = "off" /\ storedSession = "off" /\ storedDetail = "off" /\ by = "off" /\
  storedShown = "off" /\ storedRefused = "off" /\ said = "off"
launchOff == proc = "off" /\ launchPc = "off" /\ ctxDone = "off" /\ provider = "off" /\
  current = "off" /\ setups = "off" /\ services = "off" /\ tracker = "off" /\ ready = "off" /\
  tmux = "off" /\ found = "off" /\ polls = "off" /\ born = "off" /\ runErr = "off" /\
  prepared = "off" /\ cleanErr = "off" /\ failures = "off" /\ exit = "off"
talkOff == proto = "off" /\ script = "off" /\ log = "off" /\ index = "off" /\ failed = "off" /\
  req = "off" /\ rest = "off" /\ got = "off" /\ harness = "off" /\ heard = "off" /\
  honest = "off" /\ ran = "off"
checkOff == world = "off" /\ artifacts = "off" /\ runs = "off" /\ active = "off" /\
  step = "off" /\ issues = "off" /\ todo = "off" /\ reruns = "off" /\ passed = "off" /\
  latest = "off" /\ checkFailed = "off"
publishOff == ci = "off" /\ releases = "off" /\ publishRuns = "off" /\ publishActive = "off" /\
  publishStep = "off" /\ publishFound = "off" /\ builds = "off" /\ publishReruns = "off" /\
  late = "off" /\ green = "off"
readersOff == brokerOff /\ waitOff /\ filesOff /\ watchOff /\ currentOff /\ stopOff
toolsOff == launchOff /\ talkOff /\ checkOff /\ publishOff

ReaderInit ==
  \/ part = "broker" /\ Brokered!Init /\ waitOff /\ filesOff /\ watchOff /\ currentOff /\
           stopOff
  \/ part = "wait" /\ Waits!Init /\ brokerOff /\ filesOff /\ watchOff /\ currentOff /\ stopOff
  \/ part = "files" /\ Files!Init /\ brokerOff /\ waitOff /\ watchOff /\ currentOff /\ stopOff
  \/ part = "watch" /\ Watched!Init /\ brokerOff /\ waitOff /\ filesOff /\ currentOff /\ stopOff
  \/ part = "filtered" /\ Filtered!Init /\ brokerOff /\ waitOff /\ filesOff /\ currentOff /\
           stopOff
  \/ part = "current" /\ Current!Init /\ brokerOff /\ waitOff /\ filesOff /\ watchOff /\ stopOff
  \/ part = "stop" /\ Stopped!Init /\ Stopped!Alive(1) /\ brokerOff /\ waitOff /\
           filesOff /\ watchOff /\ currentOff

StoredInit ==
  \/ part = "stored" /\ StoredNow!Init
  \/ part = "delayed" /\ StoredLater!Init
  \/ part = "taken" /\ TakenOver!Init

ReaderNext ==
  \/ part = "broker" /\ Brokered!Next
     /\ UNCHANGED <<waitVars, filesVars, watchVars, currentVars, stopVars>>
  \/ part = "wait" /\ Waits!Next
     /\ UNCHANGED <<brokerVars, filesVars, watchVars, currentVars, stopVars>>
  \/ part = "files" /\ Files!Next
     /\ UNCHANGED <<brokerVars, waitVars, watchVars, currentVars, stopVars>>
  \/ part = "watch" /\ Watched!Next
     /\ UNCHANGED <<brokerVars, waitVars, filesVars, currentVars, stopVars>>
  \/ part = "filtered" /\ Filtered!Next
     /\ UNCHANGED <<brokerVars, waitVars, filesVars, currentVars, stopVars>>
  \/ part = "current" /\ Current!Next
     /\ UNCHANGED <<brokerVars, waitVars, filesVars, watchVars, stopVars>>
  \/ part = "stop" /\ Stopped!Next
     /\ UNCHANGED <<brokerVars, waitVars, filesVars, watchVars, currentVars>>

StoredNext ==
  \/ part = "stored" /\ StoredNow!Next
  \/ part = "delayed" /\ StoredLater!Next
  \/ part = "taken" /\ TakenOver!Next

Init ==
  /\ toolsOff
  /\ \/ ReaderInit /\ storeOff
     \/ StoredInit /\ readersOff

Next ==
  /\ UNCHANGED <<part, toolVars>>
  /\ \/ ReaderNext /\ UNCHANGED storeVars
     \/ StoredNext /\ UNCHANGED readerVars

Spec == Init /\ [][Next]_vars

-----------------------------------------------------------------------------
(* Properties.                                                             *)

\* What clients are told is what the registry knows: an acknowledged report is
\* recorded, a subscription is sent every change once and in order, and no slot of the
\* broker leaks (Broker); a wait ends with what was asked for, held throughout, and
\* with gone only after an exit (ClientWait); the watch of the files and aht watch miss
\* no change between their steps (FileWatch, WatchCommand). And a command acts on the
\* session that was meant: aht current answers with the session the caller runs in
\* (CurrentSession), and aht stop interrupts the agents named, each once, and nobody
\* else (StopSession).
ClientsAreRight ==
  /\ part = "broker" => /\ Brokered!TypeOK /\ Brokered!AcknowledgedIsRecorded
                        /\ Brokered!SlotsAreConnections
                        /\ Brokered!RevisionTellsAll /\ Brokered!StrictlyNewer
  /\ part = "wait" => /\ Waits!TypeOK /\ Waits!ResultSatisfies
                      /\ Waits!StableHeld /\ Waits!GoneMeansExited
  /\ part = "files" => Files!TypeOK /\ Files!NothingMissed /\ Files!ConsumerHoldsBaseline
  /\ part = "watch" => Watched!TypeOK /\ Watched!ReaderKnows /\ Watched!GoneInOrder
  /\ part = "filtered" => Filtered!ReaderKnows
  /\ part = "current" => /\ Current!TypeOK /\ Current!AncestorIsMine
                         /\ Current!NearestAncestorWins /\ Current!PaneIsMine
  /\ part = "stop" => /\ Stopped!TypeOK /\ Stopped!InterruptHitsAgent /\ Stopped!InterruptedOnce
                      /\ Stopped!AllNamedOrNone /\ Stopped!EveryoneGetsATurn

\* No report of a client is refused because of the session it leads to: the reducer only
\* makes sessions that the next load accepts; and readers see the detail of this wait or
\* failure, not of an earlier one (StoredState).
StoredSessionIsSound ==
  /\ part = "stored" => StoredNow!TypeOK /\ StoredNow!NeverCorrupt /\ StoredNow!DetailOfThisWait
  /\ part = "delayed" => StoredLater!NeverCorrupt /\ StoredLater!DetailOfThisWait
  /\ part = "taken" => TakenOver!NeverCorrupt

\* Snapshots in a row differ (FileWatch), and sessions are printed as a snapshot once
\* (WatchCommand).
ReadersSteps ==
  [][/\ part = "files" => Files!SnapshotsDiffer
     /\ part = "watch" => Watched!SnapshotOnce]_vars
-----------------------------------------------------------------------------
(* The watch of the files in the end: with the ticker that reconciles,     *)
(* where the parent directory could not be watched and reads may fail, and *)
(* without it, to see what the events alone guarantee.                     *)

Ticking == INSTANCE FileWatch WITH
  Values <- {0, 1, 2}, Shown <- {1},
  ParentWatched <- FALSE, QueueMax <- 1, MaxChanges <- 4, MaxFaults <- 1,
  changes <- filesChanges, faults <- filesFaults, queue <- filesQueue, pc <- filesPc

Eventful == INSTANCE FileWatch WITH
  Values <- {0, 1, 2}, Shown <- {1},
  ParentWatched <- TRUE, QueueMax <- 1, MaxChanges <- 4, MaxFaults <- 0,
  changes <- filesChanges, faults <- filesFaults, queue <- filesQueue, pc <- filesPc

FilesInit ==
  /\ part \in {"ticker", "events"} /\ Ticking!Init
  /\ brokerOff /\ waitOff /\ watchOff /\ currentOff /\ stopOff /\ storeOff /\ toolsOff

FilesNext ==
  /\ UNCHANGED <<part, brokerVars, waitVars, watchVars, currentVars, stopVars, storeVars, toolVars>>
  /\ \/ part = "ticker" /\ Ticking!Next
     \/ part = "events" /\ (Eventful!Environment \/ Eventful!Watcher \/ Eventful!Cancel)

\* The goroutine runs, and select takes every case that is ready again and again.
FilesFairness ==
  /\ WF_filesVars(IF part = "ticker" THEN Ticking!AddWatchPaths ELSE Eventful!AddWatchPaths)
  /\ SF_filesVars(IF part = "ticker" THEN Ticking!ReceiveEvent ELSE Eventful!ReceiveEvent)
  /\ SF_filesVars(IF part = "ticker" THEN Ticking!Debounced ELSE Eventful!Debounced)
  /\ SF_filesVars(IF part = "ticker" THEN Ticking!WatcherError ELSE Eventful!WatcherError)
  /\ WF_filesVars(IF part = "ticker" THEN Ticking!ScanEnsure ELSE Eventful!ScanEnsure)
  /\ WF_filesVars(IF part = "ticker" THEN Ticking!ScanRead ELSE Eventful!ScanRead)
  /\ SF_filesVars(part = "ticker" /\ Ticking!Reconcile)

FilesSpec == FilesInit /\ [][FilesNext]_vars /\ FilesFairness

\* The last change of the store is shown in the end, unless the watch is stopped.
LastChangeShown == Ticking!LastChangeShown
-----------------------------------------------------------------------------
(* The tools.                                                              *)

Message(who, text, id, out) == [from |-> who, text |-> text, id |-> id, out |-> out]
NoCall  == [call |-> FALSE, segs |-> <<>>]
XId     == [call |-> TRUE, segs |-> <<"x">>]
YId     == [call |-> TRUE, segs |-> <<"y">>]
OtherId == [call |-> TRUE, segs |-> <<"other">>]

Scripted(kind, id, marker, rejected, final) ==
  [kind |-> kind, id |-> id, marker |-> marker, rejected |-> rejected, final |-> final]

\* Scripts of one tool call, and scripts that answer each request on their own.
RoundTrips ==
  {Scripted("round trip", id, marker, rejected, <<>>) :
     id \in {NoCall, XId}, marker \in {"", "mark"}, rejected \in BOOLEAN}
    \cup {Scripted("round trip", XId, "mark", FALSE, <<"bye">>)}
OpenScripts == {Scripted(kind, NoCall, "", FALSE, <<>>) : kind \in {"echo", "free"}}

Schemas ==
  {[structured |-> TRUE,
    props |-> [title |-> "string", topic |-> "string", isNew |-> "boolean"],
    listed |-> TRUE, required |-> r] : r \in {{"title"}, {"title", "isNew"}}}
  \cup {[structured |-> TRUE, props |-> [title |-> "string", isNew |-> "boolean"],
         listed |-> FALSE, required |-> {}]}

\* A new conversation, and one in which a tool has run before.
Histories ==
  {<<>>, <<Message("user", <<"old">>, NoCall, <<>>),
           Message("assistant", <<"ok">>, NoCall, <<>>),
           Message("result", <<>>, OtherId, <<<<"mark">>>>)>>}

\* Replies of a script function: text, calls, errors, held ones and dropped ones.
Answer(text, ids, error, hold, drop) ==
  [text |-> text, calls |-> [i \in DOMAIN ids |-> [id |-> ids[i], args |-> "run"]],
   error |-> error, hold |-> hold, drop |-> drop]
FreeReplies ==
  {Answer(body[1], body[2], 0, how = "held", how = "dropped") :
     body \in {<<<<>>, <<>>>>, <<<<"a">>, <<>>>>, <<<<>>, <<XId>>>>, <<<<"a">>, <<XId, YId>>>>},
     how \in {"sent", "held", "dropped"}}
  \cup {Answer(<<>>, <<>>, 404, FALSE, FALSE), Answer(<<>>, <<>>, 200, FALSE, FALSE),
        Answer(<<"a">>, <<>>, 500, FALSE, FALSE), Answer(<<>>, <<NoCall>>, 0, FALSE, FALSE),
        Answer(<<"a">>, <<>>, 0, TRUE, TRUE)}

Launch == INSTANCE FakeLaunch WITH
  MaxForks <- 1, Setups <- 1, Services <- 2, WithAHT <- TRUE, MaxFaults <- 1,
  Interrupts <- "running", Forks <- {"group", "daemon"}, Polls <- 1, pc <- launchPc

Trips == INSTANCE ProviderConversation WITH
  Protos <- {"anthropic-messages", "openai-chat", "openai-responses"},
  Typed <- {<<"hi">>}, MaxSides <- 0, Scripts <- RoundTrips, FreeReplies <- {}, Schemas <- {},
  Histories <- Histories, MaxRequests <- 4, sent <- heard

Replies == INSTANCE ProviderConversation WITH
  Protos <- {"anthropic-messages", "openai-chat", "openai-responses"},
  Typed <- {<<"hi">>}, MaxSides <- 1, Scripts <- OpenScripts, FreeReplies <- FreeReplies,
  Schemas <- Schemas, Histories <- Histories, MaxRequests <- 2, sent <- heard

Reruns == INSTANCE ReleaseChecks WITH
  Harnesses <- {h1}, MaxVersion <- 1, Versions <- 2,
  Sources <- 1, OwnReruns <- FALSE, Errors <- FALSE, Revisions <- 1, MaxRuns <- 3,
  MaxReruns <- 1, Rollbacks <- TRUE, LateHarness <- FALSE, failed <- checkFailed

Changes == INSTANCE ReleaseChecks WITH
  Harnesses <- {h1}, MaxVersion <- 1, Versions <- 2,
  Sources <- 2, OwnReruns <- FALSE, Errors <- TRUE, Revisions <- 2, MaxRuns <- 3,
  MaxReruns <- 0, Rollbacks <- FALSE, LateHarness <- TRUE, failed <- checkFailed

Chosen == INSTANCE ReleaseChecks WITH
  Harnesses <- {h1, h2}, MaxVersion <- 1, Versions <- 2,
  Sources <- 1, OwnReruns <- FALSE, Errors <- TRUE, Revisions <- 2, MaxRuns <- 2,
  MaxReruns <- 0, Rollbacks <- FALSE, LateHarness <- TRUE, failed <- checkFailed

\* The tag on two commits in turn, and runs of one commit that are run again.
Publish == INSTANCE ReleasePublish WITH
  Commits <- {c1, c2}, Assets <- {a1}, MaxRuns <- 2,
  MaxReruns <- 0, MaxCI <- 1, MaxBuilds <- 2, Late <- FALSE, runs <- publishRuns,
  active <- publishActive, step <- publishStep, found <- publishFound, reruns <- publishReruns

Republish == INSTANCE ReleasePublish WITH
  Commits <- {c1}, Assets <- {a1}, MaxRuns <- 2,
  MaxReruns <- 1, MaxCI <- 1, MaxBuilds <- 2, Late <- FALSE, runs <- publishRuns,
  active <- publishActive, step <- publishStep, found <- publishFound, reruns <- publishReruns

ASSUME ToolsAreSet == Launch!LaunchAssumption /\ Trips!ConversationAssumption /\
  Replies!ConversationAssumption /\ Reruns!ReleaseAssumption /\ Changes!ReleaseAssumption /\
  Chosen!ReleaseAssumption /\ Publish!PublishAssumption /\ Republish!PublishAssumption

clientsOff == readersOff /\ storeOff

ToolsInit ==
  /\ clientsOff
  /\ \/ part = "launch" /\ Launch!Init /\ talkOff /\ checkOff /\ publishOff
     \/ part = "trips" /\ Trips!Init /\ launchOff /\ checkOff /\ publishOff
     \/ part = "replies" /\ Replies!Init /\ launchOff /\ checkOff /\ publishOff
     \/ part = "reruns" /\ Reruns!Init /\ launchOff /\ talkOff /\ publishOff
     \/ part = "changes" /\ Changes!Init /\ launchOff /\ talkOff /\ publishOff
     \/ part = "chosen" /\ Chosen!Init /\ launchOff /\ talkOff /\ publishOff
     \/ part = "publish" /\ Publish!Init /\ launchOff /\ talkOff /\ checkOff
     \/ part = "republish" /\ Republish!Init /\ launchOff /\ talkOff /\ checkOff

ToolsNext ==
  /\ UNCHANGED <<part, clientVars>>
  /\ \/ part = "launch" /\ Launch!Next
        /\ UNCHANGED <<talkVars, checkVars, publishVars>>
     \/ part = "trips" /\ Trips!Next
        /\ UNCHANGED <<launchVars, checkVars, publishVars>>
     \/ part = "replies" /\ Replies!Next
        /\ UNCHANGED <<launchVars, checkVars, publishVars>>
     \/ part = "reruns" /\ Reruns!Next
        /\ UNCHANGED <<launchVars, talkVars, publishVars>>
     \/ part = "changes" /\ Changes!Next
        /\ UNCHANGED <<launchVars, talkVars, publishVars>>
     \/ part = "chosen" /\ Chosen!Next
        /\ UNCHANGED <<launchVars, talkVars, publishVars>>
     \/ part = "republish" /\ Republish!Next
        /\ UNCHANGED <<launchVars, talkVars, checkVars>>
     \/ part = "publish" /\ Publish!Next
        /\ UNCHANGED <<launchVars, talkVars, checkVars>>

ToolsSpec == ToolsInit /\ [][ToolsNext]_vars

\* Commits are interchangeable, and so are harnesses.
ToolsSymmetry == Permutations({c1, c2}) \cup Permutations({h1, h2})

\* The tools do what they say. A launch that is over leaves no process group, no terminal
\* and no service of its own, except what it could not stop, and it tells that, whatever
\* else failed or was interrupted (FakeLaunch). A scripted reply arrives as it was written,
\* whole or streamed, in every protocol; the final reply comes only after the tool ran;
\* side requests get what their schema asks for; a harness that follows the script never
\* fails it (ProviderConversation). A failing harness release has an open issue and an open
\* issue a failure; the history answers for the harnesses each run was about, all or the
\* one a user chose, and pinned releases have passed (ReleaseChecks). A run makes one
\* release of a tag, of a tested commit, and leaves no draft, also beside a release that a
\* maintainer makes by hand at any moment (ReleasePublish).
ToolsAreRight ==
  /\ part = "launch" => /\ Launch!TypeOK /\ Launch!GroupsEmpty
                        /\ Launch!NothingLeft /\ Launch!ErrorsTold
  /\ part = "trips" => Trips!TypeOK /\ Trips!FinalMeansRan /\ Trips!HonestNeverFails
  /\ part = "replies" => /\ Replies!OutcomeIsSeen /\ Replies!HeldOnce /\ Replies!EchoIsHeard
                         /\ Replies!SideFits /\ Replies!ReplyArrives
  /\ part = "reruns" => /\ Reruns!TypeOK /\ Reruns!NeverSilent
                        /\ Reruns!IssuesAreTrue /\ Reruns!KnownGoodPassed
  /\ part = "changes" => /\ Changes!NeverSilent /\ Changes!IssuesAreTrue
                         /\ Changes!KnownGoodPassed /\ Changes!HistoryAnswers
  /\ part = "chosen" => /\ Chosen!NeverSilent /\ Chosen!IssuesAreTrue
                        /\ Chosen!KnownGoodPassed /\ Chosen!HistoryAnswers
  /\ part = "publish" => /\ Publish!TypeOK /\ Publish!OneRelease /\ Publish!PublishedIsTested
                         /\ Publish!SucceededIsPublished /\ Publish!NoDraftLeft
  /\ part = "republish" => /\ Republish!OneRelease /\ Republish!PublishedIsTested
                           /\ Republish!SucceededIsPublished /\ Republish!NoDraftLeft

\* The history of release checks never moves back, whatever is run again or chosen
\* (ReleaseChecks); and publishing a tag never publishes, deletes or takes back a release
\* that is not the run's own, also when a maintainer makes one between the run's look and
\* its next step. The upload alone, which names its release by the tag, may then reach it,
\* and changes its assets (ReleasePublish).
ReleasesGoForward ==
  [][/\ part = "reruns" => Reruns!HistoryForward
     /\ part = "chosen" => Chosen!HistoryForward
     /\ part = "publish" => Publish!OthersUntouched
     /\ part = "republish" => Republish!OthersUntouched]_vars
=============================================================================
