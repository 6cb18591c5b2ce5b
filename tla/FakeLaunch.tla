----------------------------- MODULE FakeLaunch -----------------------------
(***************************************************************************)
(* fakeprovider start: the command that runs a harness against the fake    *)
(* provider (internal/fakeprovidercli, pkg/fakeprovider/launch). It starts *)
(* the provider, prepares a root (install, setup commands, services),      *)
(* starts the tracker and a private tmux server with the harness in it,    *)
(* waits until the harness exits or the user interrupts, and stops         *)
(* everything again, daemons included, which it finds by the AHT_STORE in  *)
(* their environment.                                                      *)
(*                                                                         *)
(* A process is [alive, group, marked, role]. Process numbers are not used *)
(* again. Signals take effect at once. Stopping a process group, the        *)
(* terminal or the provider may fail.                                       *)
(***************************************************************************)
EXTENDS Naturals, Sequences, FiniteSets

CONSTANTS
  MaxForks,    (* bound: processes that its processes start                *)
  Setups,      (* setup commands of the launch plan                        *)
  Services,    (* services of the launch plan                              *)
  WithAHT,     (* the integration and the tracker are wanted               *)
  Interrupts,  (* when the user may interrupt: never, running or any       *)
  Forks,       (* how children start processes: group, daemon              *)
  Polls,       (* bound: scans within one grace period                     *)
  MaxFaults    (* bound: stops that fail                                   *)

LaunchAssumption ==
  /\ MaxForks \in Nat /\ Setups \in Nat /\ Services \in Nat /\ Polls \in Nat \ {0}
  /\ MaxFaults \in Nat
  /\ WithAHT \in BOOLEAN /\ Interrupts \in {"never", "running", "any"}
  /\ Forks \subseteq {"group", "daemon"}

VARIABLES
  proc,      (* the processes started so far, by number                    *)
  pc,        (* what the command does                                      *)
  ctxDone,   (* the user has interrupted                                   *)
  provider,  (* the provider listens                                       *)
  current,   (* the process the command waits for, or 0                    *)
  setups,    (* setup commands that have run                               *)
  services,  (* Harness.services                                           *)
  prepared,  (* launch.New has returned the harness                        *)
  tracker,   (* Harness.tracker, or 0                                      *)
  ready,     (* processes that listen on their address or socket           *)
  tmux,      (* the terminal: its server, the pane's process, its directory *)
  found,     (* what the scan under way has listed                         *)
  polls,     (* scans of this grace period                                 *)
  born,      (* processes started since that scan listed                   *)
  runErr,    (* none, canceled or failed                                   *)
  cleanErr,  (* what stopping things reported                              *)
  failures,  (* ghost: what could not be stopped: [kind, process]          *)
  exit       (* the exit of the command                                    *)

run  == <<setups, services, prepared, tracker, provider>>
errs == <<runErr, cleanErr, failures, exit>>
scan == <<found, polls, born>>
vars == <<proc, pc, ctxDone, current, run, ready, tmux, scan, errs>>

Pids     == DOMAIN proc
Alive(p) == p \in Pids /\ proc[p].alive
Living   == {p \in Pids : proc[p].alive}
Children == {p \in Pids : proc[p].role = "child"}
NewPid   == Len(proc) + 1

Init ==
  /\ proc = <<>> /\ pc = "provider" /\ ctxDone = FALSE /\ provider = FALSE /\ current = 0
  /\ setups = 0 /\ services = <<>> /\ prepared = FALSE /\ tracker = 0 /\ ready = {}
  /\ tmux = [server |-> 0, pane |-> 0, dir |-> FALSE]
  /\ found = {} /\ polls = 0 /\ born = {}
  /\ runErr = "none" /\ cleanErr = FALSE /\ failures = {} /\ exit = "none"

Process(group, marked, role) == [alive |-> TRUE, group |-> group, marked |-> marked, role |-> role]

\* Harness.startProcess and exec.Cmd.Start after Harness.configure: a process group of its
\* own and the launch environment.
Spawn(role) ==
  /\ proc' = Append(proc, Process(NewPid, TRUE, role)) /\ born' = born \cup {NewPid}

Without(ps) == [p \in Pids |-> IF p \in ps THEN [proc[p] EXCEPT !.alive = FALSE] ELSE proc[p]]

GroupOf(p) == {q \in Pids : proc[q].group = p}

MayFail == Cardinality(failures) < MaxFaults

\* killGroup, when those of dead are: a group that is gone is no error. When the kill fails
\* the group stays (and process.stop does not wait for it).
KillGroup(p, dead) ==
  \/ /\ proc' = Without(GroupOf(p)) /\ UNCHANGED failures
  \/ /\ MayFail /\ \E q \in GroupOf(p) \ dead : Alive(q)
     /\ proc' = Without(dead) /\ failures' = failures \cup {<<"group", p>>}

-----------------------------------------------------------------------------
(* The environment: the started processes and the user.                    *)

\* A process ends, starts another one in its group with an environment of its own, or
\* starts a daemon that keeps the environment.
Exit(p) ==
  /\ Alive(p) /\ proc[p].role # "tmux"
  /\ proc' = Without({p})
  /\ UNCHANGED <<pc, ctxDone, current, run, ready, tmux, scan, errs>>

Fork(p, kind) ==
  /\ Alive(p) /\ proc[p].role # "tmux" /\ Cardinality(Children) < MaxForks /\ exit = "none"
  /\ proc' = Append(proc, IF kind = "group" THEN Process(proc[p].group, FALSE, "child")
                          ELSE Process(0, proc[p].marked, "child"))
  /\ born' = born \cup {NewPid}
  /\ UNCHANGED <<pc, ctxDone, current, run, ready, tmux, found, polls, errs>>

Listen(p) ==
  /\ Alive(p) /\ proc[p].role \in {"service", "tracker"} /\ p \notin ready
  /\ ready' = ready \cup {p}
  /\ UNCHANGED <<proc, pc, ctxDone, current, run, tmux, scan, errs>>

Starting == pc \in {"install", "installing", "files", "setup", "setting up", "service", "serving",
                    "tracker", "tracking", "session", "respawn", "abandon terminal"}

Interrupt ==
  /\ ~ctxDone /\ exit = "none"
  /\ \/ Interrupts = "any" /\ Starting
     \/ Interrupts \in {"any", "running"} /\ pc = "running"
  /\ ctxDone' = TRUE
  /\ UNCHANGED <<proc, pc, current, run, ready, tmux, scan, errs>>

-----------------------------------------------------------------------------
(* Preparing the launch.                                                   *)

Goto(step) == pc' = step

\* A step fails, with an error of its own or with that of the canceled context.
Failed == runErr' \in IF ctxDone THEN {"canceled", "failed"} ELSE {"failed"}

\* runStart: without a provider nothing was started.
StartProvider ==
  /\ pc = "provider"
  /\ \/ /\ provider' = TRUE /\ Goto("validate") /\ UNCHANGED <<runErr, exit>>
     \/ /\ runErr' = "failed" /\ exit' = "error" /\ Goto("done") /\ UNCHANGED provider
  /\ UNCHANGED <<proc, ctxDone, current, setups, services, prepared, tracker, ready, tmux, scan,
                 cleanErr, failures>>

\* newHarness: options, root, plan, environment and executable are checked and the root's
\* directories made before anything is started.
NewHarness ==
  /\ pc = "validate"
  /\ \/ /\ Goto(IF WithAHT THEN "install" ELSE "files") /\ UNCHANGED runErr
     \/ /\ Failed /\ Goto("close provider")
  /\ UNCHANGED <<proc, ctxDone, current, run, ready, tmux, scan, cleanErr, failures, exit>>

\* Harness.runLogged starts a command, which a canceled context kills, waits for it and
\* kills what is left of its group.
RunLogged(from, to) ==
  /\ pc = from
  /\ \/ /\ ~ctxDone /\ Spawn("command") /\ current' = NewPid /\ Goto(to) /\ UNCHANGED runErr
     \/ /\ Failed /\ Goto("close tracker") /\ UNCHANGED <<proc, current, born>>
  /\ UNCHANGED <<ctxDone, run, ready, tmux, found, polls, cleanErr, failures, exit>>

Install == RunLogged("install", "installing")
SetUp   == setups < Setups /\ RunLogged("setup", "setting up")

LoggedEnds(from, to, count) ==
  /\ pc = from /\ (~Alive(current) \/ ctxDone)
  /\ KillGroup(current, {current}) /\ current' = 0
  /\ \/ /\ ~ctxDone /\ UNCHANGED failures /\ Goto(to) /\ setups' = setups + count /\ UNCHANGED runErr
     \/ /\ Failed /\ Goto("close tracker") /\ UNCHANGED setups
  /\ UNCHANGED <<ctxDone, services, prepared, tracker, provider, ready, tmux, scan, cleanErr, exit>>

Installed == LoggedEnds("installing", "files", 0)

SetUpEnds == LoggedEnds("setting up", "setup", 1)

\* applyFiles writes the plan's files below the root, or fails.
ApplyFiles ==
  /\ pc = "files"
  /\ \/ Goto("setup") /\ UNCHANGED runErr
     \/ Failed /\ Goto("close tracker")
  /\ UNCHANGED <<proc, ctxDone, current, run, ready, tmux, scan, cleanErr, failures, exit>>

\* Harness.startService. The process does not depend on the context; it is one of the
\* services before the command waits for its address. A service without an address is not
\* waited for.
StartService ==
  /\ pc = "setup" /\ setups = Setups /\ Len(services) < Services
  /\ \/ /\ Spawn("service") /\ services' = Append(services, NewPid) /\ UNCHANGED runErr
        /\ \/ Goto("serving") /\ current' = NewPid
           \/ UNCHANGED <<pc, current>>
     \/ /\ Failed /\ Goto("close tracker") /\ UNCHANGED <<proc, born, services, current>>
  /\ UNCHANGED <<ctxDone, setups, prepared, tracker, provider, ready, tmux, found, polls, cleanErr,
                 failures, exit>>

\* waitForAddress, waitForSocket: the address answers, the context ends, or the process
\* exits. A tracker that does not come up is stopped at once.
WaitEnds(to) ==
  \/ /\ current \in ready /\ Goto(to) /\ UNCHANGED <<runErr, tracker, proc, failures>>
  \/ /\ ctxDone \/ ~Alive(current)
     /\ Failed /\ Goto("close tracker")
     /\ IF current = tracker THEN tracker' = 0 /\ KillGroup(tracker, {})
        ELSE UNCHANGED <<tracker, proc, failures>>

ServiceReady ==
  /\ pc = "serving" /\ WaitEnds("setup")
  /\ UNCHANGED <<ctxDone, current, setups, services, prepared, provider, ready, tmux, scan, cleanErr,
                 exit>>

Prepared ==
  /\ pc = "setup" /\ setups = Setups /\ Len(services) = Services
  /\ prepared' = TRUE /\ Goto(IF WithAHT THEN "tracker" ELSE "session")
  /\ UNCHANGED <<proc, ctxDone, current, setups, services, tracker, provider, ready, tmux, scan, errs>>

\* Harness.StartTracker.
StartTracker ==
  /\ pc = "tracker"
  /\ \/ /\ Spawn("tracker") /\ tracker' = NewPid /\ current' = NewPid /\ Goto("tracking")
        /\ UNCHANGED runErr
     \/ /\ Failed /\ Goto("close tracker") /\ UNCHANGED <<proc, born, tracker, current>>
  /\ UNCHANGED <<ctxDone, setups, services, prepared, provider, ready, tmux, found, polls, cleanErr,
                 failures, exit>>

TrackerReady ==
  /\ pc = "tracking" /\ WaitEnds("session")
  /\ UNCHANGED <<ctxDone, current, setups, services, prepared, provider, ready, tmux, scan, cleanErr,
                 exit>>

-----------------------------------------------------------------------------
(* The terminal.                                                           *)

\* startTerminal, Terminal.start: a directory, then a tmux server whose environment is not
\* the launch's. A canceled context ends the tmux client; its server may be running by then.
NewSession ==
  /\ pc = "session"
  /\ \/ /\ proc' = Append(proc, Process(0, FALSE, "tmux")) /\ born' = born \cup {NewPid}
        /\ tmux' = [tmux EXCEPT !.dir = TRUE, !.server = NewPid]
        /\ \/ ~ctxDone /\ Goto("respawn") /\ UNCHANGED runErr
           \/ ctxDone /\ Failed /\ Goto("abandon terminal")
     \/ /\ UNCHANGED <<proc, born>> /\ tmux' = [tmux EXCEPT !.dir = TRUE]
        /\ Failed /\ Goto("abandon terminal")
     \/ /\ UNCHANGED <<proc, born, tmux>>
        /\ Failed /\ Goto("close tracker")
  /\ UNCHANGED <<ctxDone, current, run, ready, found, polls, cleanErr, failures, exit>>

Respawn ==
  /\ pc = "respawn"
  /\ \/ /\ ~ctxDone /\ Spawn("harness") /\ tmux' = [tmux EXCEPT !.pane = NewPid]
        /\ Goto("running") /\ UNCHANGED runErr
     \/ /\ Failed /\ Goto("abandon terminal") /\ UNCHANGED <<proc, born, tmux>>
  /\ UNCHANGED <<ctxDone, current, run, ready, found, polls, cleanErr, failures, exit>>

\* Terminal.Close: kill the server, which hangs up on the pane, wait until it is gone and
\* remove the directory. Each of these may fail, and does under a canceled context.
CloseTerminal(canceled) ==
  \/ /\ ~canceled
     /\ tmux' = [tmux EXCEPT !.dir = FALSE] /\ UNCHANGED failures
     /\ \E hungUp \in SUBSET {tmux.pane} : proc' = Without({tmux.server} \cup hungUp)
  \/ /\ canceled \/ MayFail
     /\ failures' = failures \cup {<<"terminal", 0>>} /\ UNCHANGED tmux
     /\ \E ended \in SUBSET {tmux.server, tmux.pane} : proc' = Without(ended)

\* The terminal did not start: it is closed with the context of the command, and the error
\* is joined with that of the start.
AbandonTerminal ==
  /\ pc = "abandon terminal" /\ CloseTerminal(ctxDone) /\ Goto("close tracker")
  /\ runErr' \in IF ctxDone THEN {runErr, "canceled"} ELSE {runErr}
  /\ UNCHANGED <<ctxDone, current, run, ready, scan, cleanErr, exit>>

\* waitForExit: the harness exits, the user interrupts, or the pane (or what is written
\* before, in writeStart) fails.
WaitForExit(failing) ==
  /\ pc = "running" /\ (failing \/ ctxDone \/ ~Alive(tmux.pane))
  /\ runErr' = IF failing THEN "failed" ELSE IF ctxDone THEN "canceled" ELSE "none"
  /\ Goto("close terminal")
  /\ UNCHANGED <<proc, ctxDone, current, run, ready, tmux, scan, cleanErr, failures, exit>>

-----------------------------------------------------------------------------
(* Stopping.                                                               *)

\* newHarness joins what Harness.Close reports with its own error; after it, the report is
\* an error of stopping.
Told == cleanErr' = (cleanErr \/ (prepared /\ failures' # failures))

\* startRun.close: its context outlives the command's.
CloseRun ==
  /\ pc = "close terminal" /\ CloseTerminal(FALSE) /\ Told /\ Goto("close tracker")
  /\ UNCHANGED <<ctxDone, current, run, ready, scan, runErr, exit>>

\* process.stop: the group is killed and the process waited for. What is not killed is
\* forgotten as well.
StopTracker ==
  /\ pc = "close tracker"
  /\ IF tracker = 0 THEN UNCHANGED <<proc, failures>> ELSE KillGroup(tracker, {})
  /\ Told /\ tracker' = 0 /\ Goto("close services")
  /\ UNCHANGED <<ctxDone, current, setups, services, prepared, provider, ready, tmux, scan, runErr, exit>>

\* Harness.Close: the services backwards, each although another failed, then the strays.
StopService ==
  /\ pc = "close services" /\ services # <<>>
  /\ KillGroup(services[Len(services)], {}) /\ Told
  /\ services' = SubSeq(services, 1, Len(services) - 1)
  /\ UNCHANGED <<pc, ctxDone, current, setups, prepared, tracker, provider, ready, tmux, scan, runErr,
                 exit>>

ServicesStopped ==
  /\ pc = "close services" /\ services = <<>> /\ Goto("list first")
  /\ UNCHANGED <<proc, ctxDone, current, run, ready, tmux, scan, errs>>

\* launchProcesses reads the list of processes and then the environment of each.
ListProcesses(from, to) ==
  /\ pc = from
  /\ found' = Living /\ born' = {} /\ Goto(to)
  /\ UNCHANGED <<proc, ctxDone, current, run, ready, tmux, polls, errs>>

Marked(ps) == {p \in ps : Alive(p) /\ proc[p].marked}

\* stopStrays: terminate what is found, wait, kill what is found then, wait.
TermStrays ==
  /\ pc = "read first"
  /\ \/ /\ Marked(found) = {} /\ Goto("close provider") /\ UNCHANGED proc
     \/ /\ Marked(found) # {} /\ Goto("list term")
        /\ \E survivors \in SUBSET Marked(found) : proc' = Without(Marked(found) \ survivors)
  /\ polls' = 0
  /\ UNCHANGED <<ctxDone, current, run, ready, tmux, found, born, errs>>

AfterTerm == "list kill"

\* waitGone: until nothing is found or the grace period is over. Survivors of the kill are
\* an error.
WaitGone(from, again, after) ==
  /\ pc = from
  /\ \/ /\ Marked(found) = {} /\ Goto("close provider") /\ UNCHANGED <<polls, failures>>
     \/ /\ Marked(found) # {} /\ polls < Polls
        /\ polls' = polls + 1 /\ Goto(again) /\ UNCHANGED failures
     \/ /\ Marked(found) # {} /\ polls' = 0 /\ Goto(after)
        /\ failures' = failures \cup (IF from = "read gone" THEN {<<"strays", 0>>} ELSE {})
  /\ Told
  /\ UNCHANGED <<proc, ctxDone, current, run, ready, tmux, found, born, runErr, exit>>

KillStrays ==
  /\ pc = "read kill"
  /\ proc' = Without(Marked(found)) /\ polls' = 0 /\ Goto("list gone")
  /\ UNCHANGED <<ctxDone, current, run, ready, tmux, found, born, errs>>

\* finish, execute: errors of stopping come before the interruption.
Finish(cleanup) ==
  CASE runErr = "canceled" /\ ~cleanup -> "interrupted"
    [] runErr = "failed" \/ cleanup    -> "error"
    [] OTHER                           -> "ok"

\* Server.Close closes the provider, also when it reports an error.
CloseProvider ==
  /\ pc = "close provider" /\ provider' = FALSE
  /\ \/ UNCHANGED <<cleanErr, failures>>
     \/ /\ MayFail /\ cleanErr' = TRUE /\ failures' = failures \cup {<<"provider", 0>>}
  /\ exit' = Finish(cleanErr') /\ Goto("done")
  /\ UNCHANGED <<proc, ctxDone, current, setups, services, prepared, tracker, ready, tmux, scan, runErr>>

Scanning ==
  \/ ListProcesses("list first", "read first") \/ TermStrays
  \/ ListProcesses("list term", "read term") \/ WaitGone("read term", "list term", AfterTerm)
  \/ ListProcesses("list kill", "read kill") \/ KillStrays
  \/ ListProcesses("list gone", "read gone") \/ WaitGone("read gone", "list gone", "close provider")

Command ==
  \/ StartProvider \/ NewHarness \/ Install \/ Installed \/ ApplyFiles \/ SetUp \/ SetUpEnds
  \/ StartService \/ ServiceReady \/ Prepared \/ StartTracker \/ TrackerReady
  \/ NewSession \/ Respawn \/ AbandonTerminal \/ WaitForExit(FALSE)
  \/ CloseRun \/ StopTracker \/ StopService \/ ServicesStopped \/ Scanning \/ CloseProvider

Next ==
  \/ Command \/ WaitForExit(TRUE)
  \/ \E p \in Pids : Exit(p) \/ Listen(p) \/ \E kind \in Forks : Fork(p, kind)
  \/ Interrupt

Spec     == Init /\ [][Next]_vars
FairSpec == Spec /\ WF_vars(Command)

-----------------------------------------------------------------------------
(* Properties.                                                             *)

TypeOK ==
  /\ Len(services) <= Services /\ setups <= Setups /\ polls <= Polls /\ prepared \in BOOLEAN
  /\ runErr \in {"none", "canceled", "failed"} /\ exit \in {"none", "ok", "interrupted", "error"}
  /\ found \subseteq Pids /\ born \subseteq Pids /\ tracker \in Pids \cup {0}
  /\ failures \subseteq {"group", "terminal", "strays", "provider"} \X (Pids \cup {0})

\* When the command has returned, the provider is closed and nothing runs in a process
\* group the command has started, whatever left it or lost the launch's environment, and
\* whichever other group could not be killed (killGroup, process.stop, runLogged).
GroupsEmpty ==
  exit # "none" =>
    /\ ~provider
    /\ \A p \in Living : LET g == proc[p].group IN
         g \in Pids => proc[g].role = "harness" \/ <<"group", g>> \in failures

\* A command that was not interrupted while it started leaves a tmux server or its
\* directory only if closing the terminal has failed, whatever else has; and a process
\* with the launch's environment that still runs was started during the last scan, or is
\* one that survived the kill.
NothingLeft ==
  exit # "none" =>
    /\ tmux.dir \/ Alive(tmux.server) => <<"terminal", 0>> \in failures
    /\ Marked(Living) \subseteq born \/ <<"strays", 0>> \in failures

\* Whatever could not be stopped, at whatever step, the command has said so: the error is
\* not hidden behind an interruption or a success.
ErrorsTold == exit # "none" /\ failures # {} => exit = "error"

\* Once interrupted, the command returns, whatever its processes do.
InterruptEnds == ctxDone ~> exit # "none"

\* Close stops every process of the launch.
EveryProcessStopped == exit = "ok" => Marked(Living) = {}
=============================================================================
