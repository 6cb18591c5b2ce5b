----------------------------- MODULE MCProgress -----------------------------
(***************************************************************************)
(* What must happen in the end: calls of the broker's clients, waits, aht  *)
(* watch, aht current, the history index and its worker, the tracker       *)
(* service, a fake launch, a release. Each behaviour is one of one         *)
(* component; part says which, and the variables of the others are off.    *)
(***************************************************************************)
EXTENDS Naturals

CONSTANTS w, s1, a1, c1, t1

VARIABLE part     (* the component and setting of this behaviour               *)

\* Broker.
VARIABLES up, stops, conn, slots, pc, memory, revision, journal, sub

\* ClientWait.
VARIABLES opts, session, changes, faults, resets, exited, stream, pushed, queue, ended,
          candidate, timer, held, lastSeen, outcome, result

\* WatchCommand.
VARIABLES watchMemory, file, watchUp, directory, clock, watchStops, mode, inbox, sent, broken,
          previous, batch, reader

\* CurrentSession.
VARIABLES procs, sessions, envPane, call, kin, currentChanges

\* HistoryOpen.
VARIABLES path, openJournal, made, db, openPc, openFile, log, healed, status

\* HistoryWorker.
VARIABLES workSession, workRevision, written, indexed, watcher, signals, worker, proc, guard,
          context, due, workFaults

\* TrackerHealth.
VARIABLES interval, now, lock, healthMode, at, healthDue, mem, healthFile, tried, lastGood,
          smooth, onces, healthFaults

\* FakeLaunch.
VARIABLES fakeProc, fakePc, ctxDone, provider, current, setups, services, tracker, ready, tmux,
          found, polls, born, prepared, runErr, cleanErr, failures, exit

\* ReleasePublish.
VARIABLES ci, releases, runs, active, step, publishFound, builds, reruns, late, green

brokerVars == <<up, stops, conn, slots, pc, memory, revision, journal, sub>>
waitVars == <<opts, session, changes, faults, resets, exited, stream, pushed, queue, ended,
              candidate, timer, held, lastSeen, outcome, result>>
watchVars == <<watchMemory, file, watchUp, directory, clock, watchStops, mode, inbox, sent,
               broken, previous, batch, reader>>
currentVars == <<procs, sessions, envPane, call, kin, currentChanges>>
openVars == <<path, openJournal, made, db, openPc, openFile, log, healed, status>>
workVars == <<workSession, workRevision, written, indexed, watcher, signals, worker, proc,
              guard, context, due, workFaults>>
healthVars == <<interval, now, lock, healthMode, at, healthDue, mem, healthFile, tried,
                lastGood, smooth, onces, healthFaults>>
fakeVars == <<fakeProc, fakePc, ctxDone, provider, current, setups, services, tracker, ready,
              tmux, found, polls, born, prepared, runErr, cleanErr, failures, exit>>
publishVars == <<ci, releases, runs, active, step, publishFound, builds, reruns, late, green>>
vars == <<part, brokerVars, waitVars, watchVars, currentVars, openVars, workVars, healthVars,
          fakeVars, publishVars>>

\* Two processes of one build of the history index, and one of a newer build.
Builds == [p \in 1..3 |-> IF p = 3 THEN 2 ELSE 1]

-----------------------------------------------------------------------------
(* The settings.                                                           *)

Brokered == INSTANCE Broker WITH
  Hooks <- {1, 2}, Watchers <- {w}, Silent <- {3},
  MaxConnections <- 1, Window <- 1, MaxStops <- 1

Waits == INSTANCE ClientWait WITH
  Modes <- {"auto", "durable"}, Processes <- {1},
  Activities <- {"idle", "running"}, Capacity <- 1, MaxChanges <- 2, MaxFaults <- 1,
  MaxResets <- 1

Watched == INSTANCE WatchCommand WITH
  Ids <- {1, 2}, Ignored <- {2}, Activities <- {0},
  Locations <- {1}, Natives <- {1}, LiveOnly <- TRUE, NoSnapshot <- TRUE, MaxChanges <- 2,
  MaxStops <- 1, memory <- watchMemory, up <- watchUp, stops <- watchStops

Current == INSTANCE CurrentSession WITH
  Pids <- {2, 3}, Caller <- 3, Sess <- {s1},
  Terminals <- {t1}, Reuse <- TRUE, MaxChanges <- 3, changes <- currentChanges

Opens == INSTANCE HistoryOpen WITH
  Procs <- {1, 2, 3}, Build <- Builds, Cached <- FALSE,
  Found <- {"missing", "empty", "own", "foreign", "broken"}, Others <- TRUE, MaxFiles <- 3,
  journal <- openJournal, pc <- openPc, file <- openFile

Works == INSTANCE HistoryWorker WITH
  Sessions <- {s1}, Others <- FALSE, MaxChanges <- 3,
  MaxFaults <- 2, session <- workSession, revision <- workRevision, faults <- workFaults

Shared == INSTANCE HistoryWorker WITH
  Sessions <- {s1}, Others <- TRUE, MaxChanges <- 2,
  MaxFaults <- 2, session <- workSession, revision <- workRevision, faults <- workFaults

Health == INSTANCE TrackerHealth WITH
  Intervals <- {1}, WriteInterval <- 2, MinAge <- 8,
  MaxCycle <- 1, MaxTime <- 6, MaxOnce <- 1, MaxFaults <- 2, mode <- healthMode,
  due <- healthDue, file <- healthFile, faults <- healthFaults

Launch == INSTANCE FakeLaunch WITH
  MaxForks <- 1, Setups <- 0, Services <- 1, WithAHT <- TRUE, MaxFaults <- 0,
  Interrupts <- "any", Forks <- {"group", "daemon"}, Polls <- 1, proc <- fakeProc, pc <- fakePc

Publish == INSTANCE ReleasePublish WITH
  Commits <- {c1}, Assets <- {a1}, MaxRuns <- 2,
  MaxReruns <- 0, MaxCI <- 1, MaxBuilds <- 2, Late <- TRUE, found <- publishFound

ASSUME SettingsAreSound == Brokered!BrokerAssumption /\ Waits!ClientWaitAssumption /\
  Watched!WatchAssumption /\ Current!CurrentAssumption /\ Works!WorkerAssumption /\
  Shared!WorkerAssumption /\ Health!HealthAssumption /\ Launch!LaunchAssumption /\
  Publish!PublishAssumption

brokerOff == up = "off" /\ stops = "off" /\ conn = "off" /\ slots = "off" /\ pc = "off" /\
  memory = "off" /\ revision = "off" /\ journal = "off" /\ sub = "off"
waitOff == opts = "off" /\ session = "off" /\ changes = "off" /\ faults = "off" /\
  resets = "off" /\ exited = "off" /\ stream = "off" /\ pushed = "off" /\ queue = "off" /\
  ended = "off" /\ candidate = "off" /\ timer = "off" /\ held = "off" /\ lastSeen = "off" /\
  outcome = "off" /\ result = "off"
watchOff == watchMemory = "off" /\ file = "off" /\ watchUp = "off" /\ directory = "off" /\
  clock = "off" /\ watchStops = "off" /\ mode = "off" /\ inbox = "off" /\ sent = "off" /\
  broken = "off" /\ previous = "off" /\ batch = "off" /\ reader = "off"
currentOff == procs = "off" /\ sessions = "off" /\ envPane = "off" /\ call = "off" /\
  kin = "off" /\ currentChanges = "off"
openOff == path = "off" /\ openJournal = "off" /\ made = "off" /\ db = "off" /\
  openPc = "off" /\ openFile = "off" /\ log = "off" /\ healed = "off" /\ status = "off"
workOff == workSession = "off" /\ workRevision = "off" /\ written = "off" /\ indexed = "off" /\
  watcher = "off" /\ signals = "off" /\ worker = "off" /\ proc = "off" /\ guard = "off" /\
  context = "off" /\ due = "off" /\ workFaults = "off"
healthOff == interval = "off" /\ now = "off" /\ lock = "off" /\ healthMode = "off" /\
  at = "off" /\ healthDue = "off" /\ mem = "off" /\ healthFile = "off" /\ tried = "off" /\
  lastGood = "off" /\ smooth = "off" /\ onces = "off" /\ healthFaults = "off"
fakeOff == fakeProc = "off" /\ fakePc = "off" /\ ctxDone = "off" /\ provider = "off" /\
  current = "off" /\ setups = "off" /\ services = "off" /\ tracker = "off" /\ ready = "off" /\
  tmux = "off" /\ found = "off" /\ polls = "off" /\ born = "off" /\ runErr = "off" /\
  prepared = "off" /\ cleanErr = "off" /\ failures = "off" /\ exit = "off"
publishOff == ci = "off" /\ releases = "off" /\ runs = "off" /\ active = "off" /\
  step = "off" /\ publishFound = "off" /\ builds = "off" /\ reruns = "off" /\ late = "off" /\
  green = "off"

Init ==
  \/ part = "broker" /\ Brokered!Init /\ waitOff /\ watchOff /\ currentOff /\ openOff /\
       workOff /\ healthOff /\ fakeOff /\ publishOff
  \/ part = "wait" /\ Waits!Init /\ brokerOff /\ watchOff /\ currentOff /\ openOff /\ workOff /\
       healthOff /\ fakeOff /\ publishOff
  \/ part = "watch" /\ Watched!Init /\ brokerOff /\ waitOff /\ currentOff /\ openOff /\
       workOff /\ healthOff /\ fakeOff /\ publishOff
  \/ part = "current" /\ Current!Init /\ brokerOff /\ waitOff /\ watchOff /\ openOff /\
       workOff /\ healthOff /\ fakeOff /\ publishOff
  \/ part = "open" /\ Opens!Init /\ brokerOff /\ waitOff /\ watchOff /\ currentOff /\ workOff /\
       healthOff /\ fakeOff /\ publishOff
  \/ part = "work" /\ Works!Init /\ brokerOff /\ waitOff /\ watchOff /\ currentOff /\ openOff /\
       healthOff /\ fakeOff /\ publishOff
  \/ part = "shared" /\ Shared!Init /\ brokerOff /\ waitOff /\ watchOff /\ currentOff /\
       openOff /\ healthOff /\ fakeOff /\ publishOff
  \/ part = "health" /\ Health!Init /\ brokerOff /\ waitOff /\ watchOff /\ currentOff /\
       openOff /\ workOff /\ fakeOff /\ publishOff
  \/ part = "fake" /\ Launch!Init /\ brokerOff /\ waitOff /\ watchOff /\ currentOff /\
       openOff /\ workOff /\ healthOff /\ publishOff
  \/ part = "publish" /\ Publish!Init /\ brokerOff /\ waitOff /\ watchOff /\ currentOff /\
       openOff /\ workOff /\ healthOff /\ fakeOff

Next ==
  \/ part = "broker" /\ Brokered!Next
     /\ UNCHANGED <<part, waitVars, watchVars, currentVars, openVars, workVars, healthVars, fakeVars,
       publishVars>>
  \/ part = "wait" /\ Waits!Next
     /\ UNCHANGED <<part, brokerVars, watchVars, currentVars, openVars, workVars, healthVars, fakeVars,
       publishVars>>
  \/ part = "watch" /\ Watched!Next
     /\ UNCHANGED <<part, brokerVars, waitVars, currentVars, openVars, workVars, healthVars, fakeVars,
       publishVars>>
  \/ part = "current" /\ Current!Next
     /\ UNCHANGED <<part, brokerVars, waitVars, watchVars, openVars, workVars, healthVars, fakeVars,
       publishVars>>
  \/ part = "open" /\ Opens!Next
     /\ UNCHANGED <<part, brokerVars, waitVars, watchVars, currentVars, workVars, healthVars, fakeVars,
       publishVars>>
  \/ part = "work" /\ Works!Next
     /\ UNCHANGED <<part, brokerVars, waitVars, watchVars, currentVars, openVars, healthVars, fakeVars,
       publishVars>>
  \/ part = "shared" /\ Shared!Next
     /\ UNCHANGED <<part, brokerVars, waitVars, watchVars, currentVars, openVars, healthVars, fakeVars,
       publishVars>>
  \/ part = "health" /\ Health!Next
     /\ UNCHANGED <<part, brokerVars, waitVars, watchVars, currentVars, openVars, workVars, fakeVars,
       publishVars>>
  \/ part = "fake" /\ Launch!Next
     /\ UNCHANGED <<part, brokerVars, waitVars, watchVars, currentVars, openVars, workVars, healthVars,
       publishVars>>
  \/ part = "publish" /\ Publish!Next
     /\ UNCHANGED <<part, brokerVars, waitVars, watchVars, currentVars, openVars, workVars, healthVars,
       fakeVars>>

Spec == Init /\ [][Next]_vars

\* Goroutines run, timers fire, sockets deliver; clients of the broker may stay away
\* and the tracker may stay down.
Fairness ==
  /\ \A c \in {1, 2, 3, w} : /\ WF_brokerVars(part = "broker" /\ Brokered!Accept(c))
                             /\ WF_brokerVars(part = "broker" /\ Brokered!HandshakeTimeout(c))
  /\ \A h \in {1, 2} : /\ WF_brokerVars(part = "broker" /\ Brokered!Execute(h))
                       /\ WF_brokerVars(part = "broker" /\ Brokered!Reply(h))
                       /\ WF_brokerVars(part = "broker" /\ Brokered!Fallback(h))
  /\ WF_brokerVars(part = "broker" /\ Brokered!Subscribe(w))
  /\ WF_brokerVars(part = "broker" /\ Brokered!CheckRevision(w))
  /\ WF_brokerVars(part = "broker" /\ Brokered!Poll(w))
  /\ WF_brokerVars(part = "broker" /\ Brokered!Read(w))
  /\ WF_brokerVars(part = "broker" /\ Brokered!StreamEnds(w))
  /\ WF_waitVars(part = "wait" /\ Waits!StartWatcher)
  /\ WF_waitVars(part = "wait" /\ Waits!Forward)
  /\ WF_waitVars(part = "wait" /\ Waits!ReceiveEvent)
  /\ WF_waitVars(part = "wait" /\ Waits!TimerElapses)
  /\ WF_waitVars(part = "wait" /\ Waits!ReturnStable)
  /\ WF_watchVars(part = "watch" /\ Watched!Persist)
  /\ WF_watchVars(part = "watch" /\ (Watched!Subscribe \/ Watched!Unavailable))
  /\ WF_watchVars(part = "watch" /\ Watched!Send)
  /\ WF_watchVars(part = "watch" /\ Watched!Receive)
  /\ WF_watchVars(part = "watch" /\ Watched!StreamClosed)
  /\ WF_watchVars(part = "watch" /\ Watched!ReadFiles)
  /\ WF_currentVars(part = "current" /\ Current!Step)
  /\ \A p \in 1..3 : WF_openVars(part = "open" /\ Opens!Step(p))
  /\ WF_workVars(part = "work" /\ Works!Notice)
  /\ WF_workVars(part = "work" /\ Works!WatchEnds("cancelled"))
  /\ WF_workVars(part = "work" /\ Works!WatchReturns)
  /\ WF_workVars(part = "work" /\ Works!WorkerNext)
  /\ \A p \in {"tracker", "other"} : WF_workVars(part = "work" /\ Works!RefreshNext(p))
  /\ WF_workVars(part = "shared" /\ Shared!Notice)
  /\ WF_workVars(part = "shared" /\ Shared!WatchEnds("cancelled"))
  /\ WF_workVars(part = "shared" /\ Shared!WatchReturns)
  /\ WF_workVars(part = "shared" /\ Shared!WorkerNext)
  /\ \A p \in {"tracker", "other"} : WF_workVars(part = "shared" /\ Shared!RefreshNext(p))
  /\ WF_healthVars(part = "health" /\ Health!EndCycle("once", "ok", TRUE, FALSE))
  /\ WF_healthVars(part = "health" /\ Health!Start("service"))
  /\ WF_fakeVars(part = "fake" /\ Launch!Command)
  /\ WF_publishVars(part = "publish" /\ Publish!Workflow)
  /\ WF_publishVars(/\ part = "publish"
                    /\ \E conclusion \in {"success", "failure"}, checks \in BOOLEAN :
                         Publish!CICompletes(c1, 1, conclusion, checks))

FairSpec == Spec /\ Fairness

-----------------------------------------------------------------------------
(* Properties.                                                             *)

\* What has begun: a call of hook 1 or 2, the slot that client i - 2 of the broker
\* holds, and in the other parts one thing each.
Begun(i) ==
  \/ part = "broker" /\ i \in {1, 2} /\ pc[i] \in {"sent", "fallback"}
  \/ part = "broker" /\ i \in {3, 4, 5} /\ i - 2 \in Brokered!Served
  \/ part = "current" /\ i = 1 /\ call.phase # "idle"
  \/ part = "open" /\ i = 1
  \/ part \in {"work", "shared"} /\ i = 1 /\ (context = "cancelled" \/ watcher.step = "joining")
  \/ part = "health" /\ i = 1 /\ healthMode["service"] = "backoff"
  \/ part = "fake" /\ i = 1 /\ ctxDone
  \/ part = "publish" /\ active = i

\* What it must come to.
Ended(i) ==
  \/ part = "broker" /\ i \in {1, 2} /\ pc[i] \in {"done", "failed"}
  \/ part = "broker" /\ i \in {3, 4, 5} /\ i - 2 \notin Brokered!Served
  \/ part = "current" /\ call.phase = "done"
  \/ part = "open" /\ Opens!Ended
  \/ part \in {"work", "shared"} /\ watcher.step = "returned"
  \/ part = "health" /\ healthMode["service"] # "backoff"
  \/ part = "fake" /\ exit # "none"
  \/ part = "publish" /\ active # i

\* What has begun comes to its end: a hook comes back and a connection that does not
\* subscribe gives its slot back, whatever happens to the broker (Broker); aht current
\* ends, also when the listing makes the ancestors a circle (CurrentSession); every open
\* of the index ends, whoever holds the lock and whoever dies with it (HistoryOpen); a
\* tracker that is told to stop, or loses the registry, ends (HistoryWorker); the
\* service comes back after a kill or a run of --once (TrackerHealth); an interrupted
\* launch returns, whatever its processes do (FakeLaunch); every run of the release
\* workflow ends (ReleasePublish).
CallsEnd == \A i \in 1..5 : Begun(i) ~> Ended(i)

\* A subscriber waits for the report of hook h, which is recorded.
Awaits(h) == /\ part = "broker" /\ pc[w] = "subscribed" /\ conn[w] = "streaming"
             /\ (h <= memory \/ h \in journal)

Told(h) == /\ part = "broker"
           /\ sub[w].read.state >= h \/ pc[w] # "subscribed" \/ conn[w] # "streaming"

\* What readers and the index know once nothing changes any more.
UpToDate ==
  /\ part = "watch" => \/ mode = "ended"
                       \/ reader # Watched!NoState
                          /\ reader = Watched!Known(Watched!ApplyConfigFilter(watchMemory))
  /\ part = "work" /\ watcher.step = "watch" /\ context = "running" => indexed[s1] >= due[s1]

\* The news arrive: a subscriber reads every report that is recorded, also one that
\* another process appended to the journal (Broker); the reader of aht watch comes to
\* know the registry, also when the stream ended in between (WatchCommand); what was
\* written when a session went idle or ended is indexed, also when the signal came
\* while a refresh ran (HistoryWorker); and a session that satisfies a condition for
\* good ends the wait for it, through a change of streams too (ClientWait).
NewsArrive ==
  /\ \A h \in {1, 2} : Awaits(h) ~> Told(h)
  /\ <>[]UpToDate
  /\ []<>(part = "wait" /\ session # Waits!Absent /\ Waits!Evaluate(session) = "match"
          => outcome # "pending")
=============================================================================
