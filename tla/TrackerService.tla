--------------------------- MODULE TrackerService ---------------------------
(***************************************************************************)
(* internal/service: the definition file of the background tracker and the *)
(* manager (systemd or launchd) that runs it. Install, Update, Upgrade and *)
(* Uninstall read the file, ask the manager, then write, reload, load,     *)
(* restart, unload or remove step by step; each step may fail, a failed    *)
(* one is rolled back, and the command may be killed between two steps.    *)
(* The manager is not part of the repository: it is modelled from the      *)
(* commands the backends send it.                                          *)
(*                                                                         *)
(* Data. A definition is its version, the binary, the settings (store,     *)
(* interval, grace period) and whether its arguments are ones aht knows.   *)
(***************************************************************************)
EXTENDS Naturals, Sequences, FiniteSets

CONSTANTS
  Platforms,      (* of "linux", "darwin"                                  *)
  Binaries,       (* binary paths                                          *)
  Settings,       (* store, interval and grace period together             *)
  MaxCommands,    (* bound on the commands of a behaviour                  *)
  MaxFaults,      (* bound on failing steps and kills                      *)
  MaxUpsets       (* bound on crashes, exits, logins, replaced binaries    *)

ServiceAssumption ==
  /\ Platforms \subseteq {"linux", "darwin"} /\ Binaries # {} /\ Settings # {}
  /\ MaxCommands \in Nat /\ MaxFaults \in Nat /\ MaxUpsets \in Nat

VARIABLES
  platform,
  file,       (* the definition file: NoFile, Foreign or a definition      *)
  mgr,        (* what the manager knows and runs                           *)
  disk,       (* generation of the executable on disk                      *)
  cmd,        (* the running command                                       *)
  last,       (* the command that has just ended, until something happens  *)
  commands, faults, upsets

vars == <<platform, file, mgr, disk, cmd, last, commands, faults, upsets>>

NoFile  == [kind |-> "none"]
Foreign == [kind |-> "foreign"]
Def(ver, bin, set, odd) == [kind |-> "def", ver |-> ver, bin |-> bin, set |-> set, odd |-> odd]

\* RenderSystemdUnit, RenderLaunchAgent.
Rendered(bin, set) == Def(2, bin, set, FALSE)

\* isManaged: the marker and a version aht wrote.
IsManaged(content) == content.kind = "def"

\* unit is up, down, or backoff (crashed, to be started again); runs and exe are
\* the definition and the executable the process was started with.
Manager(def, enabled, unit) ==
  [def |-> def, enabled |-> enabled, unit |-> unit, runs |-> def, exe |-> 0]

Idle   == [op |-> "idle"]
NoLast == [op |-> "none"]
Contents == {NoFile, Foreign} \cup
            {Def(v, b, s, o) : v \in {1, 2}, b \in Binaries, s \in Settings, o \in BOOLEAN}

\* launchd has no enablement of its own: an agent in its directory is.
Init ==
  /\ platform \in Platforms
  /\ file \in {c \in Contents : c.kind = "def" => ~(c.odd /\ c.ver = 2)}
  /\ \E enabled \in BOOLEAN, unit \in {"up", "down"}, loaded \in BOOLEAN :
       /\ file.kind = "none" => ~enabled /\ unit = "down" /\ ~loaded
       /\ platform = "linux" => loaded = (file.kind # "none")
       /\ platform = "darwin" => enabled = (file.kind # "none")
       /\ ~loaded => unit = "down"
       /\ mgr = Manager(IF loaded THEN file ELSE NoFile, enabled, unit)
  /\ disk = 0 /\ cmd = Idle /\ last = NoLast
  /\ commands = 0 /\ faults = 0 /\ upsets = 0

-----------------------------------------------------------------------------
(* The manager.                                                            *)

Started(d) == [mgr EXCEPT !.def = d, !.unit = "up", !.runs = d, !.exe = disk]

\* systemctl daemon-reload; launchd has none.
Reload == IF platform = "linux" THEN [mgr EXCEPT !.def = file] ELSE mgr

\* systemctl enable --now (which reloads), launchctl bootstrap.
Load == [Started(file) EXCEPT !.enabled = TRUE]

\* systemctl restart, after a reload: the definition the manager has.
Start == Started(mgr.def)

\* systemctl disable --now, launchctl bootout.
Unload ==
  IF platform = "linux" THEN [mgr EXCEPT !.def = file, !.enabled = FALSE, !.unit = "down"]
  ELSE [mgr EXCEPT !.def = NoFile, !.unit = "down"]

\* backend.running: systemd calls a unit that waits for its restart inactive.
StateRunning == mgr.unit = "up"
StateLoaded  == IF platform = "linux" THEN mgr.unit = "up" ELSE mgr.def # NoFile

\* backend.restart.
RestartSteps == IF platform = "linux" THEN <<"reload", "start">> ELSE <<"unload", "load">>

-----------------------------------------------------------------------------
(* What a command does: its steps, and how many of them fail unrepaired.   *)

Work(steps, undo, bare) == [steps |-> steps, undo |-> undo, bare |-> bare, refused |-> FALSE]
Nothing == Work(<<>>, <<>>, 0)
Refuse  == [Nothing EXCEPT !.refused = TRUE]

\* applyCurrent: an unchanged definition, perhaps a changed executable. Install
\* also asks for the enablement.
ApplyCurrent(update) ==
  IF ~StateLoaded \/ (~update /\ ~mgr.enabled) THEN Work(<<"load">>, <<>>, 1)
  ELSE IF update THEN Work(RestartSteps, <<>>, Len(RestartSteps))
  ELSE Nothing

\* publishDefinition and its rollbackDefinition.
PublishDefinition(installed) ==
  IF installed THEN Work(<<"write">> \o RestartSteps, <<"restore">> \o RestartSteps, 0)
  ELSE Work(<<"write", "reload", "load">>, <<"unload", "remove", "reload">>, 0)

Apply(want, update) ==
  IF file.kind # "none" /\ ~IsManaged(file) THEN Refuse
  ELSE IF file = want THEN ApplyCurrent(update)
  ELSE IF file.kind # "none" /\ ~update THEN Nothing
  ELSE PublishDefinition(file.kind # "none")

\* Uninstall: nothing is rolled back when unload itself fails.
Uninstall ==
  IF file.kind = "none" THEN Nothing
  ELSE IF ~IsManaged(file) THEN Refuse
  ELSE Work(<<"unload", "remove", "reload">>, <<"restore">> \o RestartSteps, 1)

\* recoveredBackend: the installed settings with the new binary.
Recovered(bin) ==
  Rendered(bin, IF file.kind = "def" THEN file.set ELSE CHOOSE s \in Settings : TRUE)

\* upgradeDefinition, refreshUpgradeDefinition, rollbackUpgrade.
UpgradeDefinition(current) ==
  LET restart == StateRunning \/ (StateLoaded /\ ~current)
      after   == IF restart THEN RestartSteps ELSE <<"reload">>
  IN  Work(IF current THEN IF restart THEN RestartSteps ELSE <<>> ELSE <<"write">> \o after,
           <<"restore">> \o after, 0)

Upgrade(bin) ==
  IF file.kind = "none" THEN Nothing
  ELSE IF ~IsManaged(file) THEN Refuse
  ELSE IF file.kind = "def" /\ file.odd THEN Refuse
  ELSE UpgradeDefinition(file = Recovered(bin))

-----------------------------------------------------------------------------
(* A command: begin, steps, rollback, end.                                 *)

Begin(op, bin, set) ==
  LET want == IF op = "upgrade" THEN Recovered(bin) ELSE Rendered(bin, set)
      work == CASE op = "update"    -> Apply(want, TRUE)
                [] op = "install"   -> Apply(want, FALSE)
                [] op = "upgrade"   -> Upgrade(bin)
                [] op = "uninstall" -> Uninstall
  IN  /\ cmd = Idle /\ commands < MaxCommands
      /\ commands' = commands + 1
      /\ cmd' = [op |-> op, want |-> want, todo |-> work.steps, undo |-> work.undo,
                 bare |-> work.bare, refused |-> work.refused, undoing |-> FALSE, dirty |-> FALSE,
                 before |-> file, was |-> mgr, gen |-> disk]
      /\ last' = NoLast
      /\ UNCHANGED <<platform, file, mgr, disk, faults, upsets>>

\* The effect of a step that succeeds.
Perform(step) ==
  /\ file' = CASE step = "write"   -> cmd.want
               [] step = "restore" -> cmd.before
               [] step = "remove"  -> NoFile
               [] OTHER            -> file
  /\ mgr' = CASE step = "reload" -> Reload
              [] step = "load"   -> Load
              [] step = "start"  -> Start
              [] step = "unload" -> Unload
              [] OTHER           -> mgr
  /\ UNCHANGED <<platform, disk, commands, upsets>>

\* A step that fails may have had its effect: the file is replaced before its
\* directory is synced, a restart stops the tracker before it fails to start it,
\* and a command that is cut off after its timeout may still be carried out.
PerformFailing(step) ==
  \/ UNCHANGED <<platform, file, mgr, disk, commands, upsets>>
  \/ step \in {"write", "unload", "reload", "load"} /\ Perform(step)
  \/ /\ step = "start" /\ mgr' = [mgr EXCEPT !.unit = "down"]
     /\ UNCHANGED <<platform, file, disk, commands, upsets>>

Ended(ok) == [op |-> cmd.op, ok |-> ok, rolled |-> cmd.undoing /\ ~cmd.dirty, want |-> cmd.want,
              before |-> cmd.before, was |-> cmd.was, gen |-> cmd.gen]

StepDone ==
  /\ cmd # Idle /\ cmd.todo # <<>>
  /\ Perform(Head(cmd.todo))
  /\ cmd' = [cmd EXCEPT !.todo = Tail(@), !.bare = IF @ > 0 THEN @ - 1 ELSE 0]
  /\ UNCHANGED <<last, faults>>

\* A failing step of the command starts the rollback, unless it is one of the
\* first bare ones; one of the rollback is noted, and what the failed call would
\* have done next is left out.
AfterFailure ==
  IF cmd.bare > 0 THEN [cmd EXCEPT !.todo = <<>>, !.undoing = TRUE, !.dirty = TRUE]
  ELSE IF ~cmd.undoing THEN [cmd EXCEPT !.todo = cmd.undo, !.undoing = TRUE]
  ELSE [cmd EXCEPT !.dirty = TRUE, !.todo = IF cmd.undo[1] = "restore" THEN <<>> ELSE Tail(@)]

StepFails ==
  /\ cmd # Idle /\ cmd.todo # <<>> /\ faults < MaxFaults
  /\ faults' = faults + 1
  /\ PerformFailing(Head(cmd.todo))
  /\ cmd' = AfterFailure
  /\ UNCHANGED last

Finish ==
  /\ cmd # Idle /\ cmd.todo = <<>>
  /\ cmd' = Idle
  /\ last' = Ended(~cmd.refused /\ ~cmd.undoing)
  /\ UNCHANGED <<platform, file, mgr, disk, commands, faults, upsets>>

\* Also a manager that cannot be asked, right after the beginning.
Kill ==
  /\ cmd # Idle /\ faults < MaxFaults /\ faults' = faults + 1
  /\ cmd' = Idle
  /\ UNCHANGED <<platform, file, mgr, disk, last, commands, upsets>>

-----------------------------------------------------------------------------
(* Everything else.                                                        *)

Upset == upsets < MaxUpsets /\ upsets' = upsets + 1 /\ last' = NoLast /\
         UNCHANGED <<platform, file, cmd, commands, faults>>

Crash == mgr.unit = "up" /\ Upset /\ mgr' = [mgr EXCEPT !.unit = "backoff"] /\ UNCHANGED disk

\* Restart=on-failure, KeepAlive.
ComeBack ==
  /\ mgr.unit = "backoff" /\ mgr.def.kind # "none"
  /\ mgr' = Started(mgr.def)
  /\ UNCHANGED <<platform, file, disk, cmd, last, commands, faults, upsets>>

\* The tracker or the user ends it on purpose, between commands.
Quit == cmd = Idle /\ mgr.unit = "up" /\ Upset /\ mgr' = [mgr EXCEPT !.unit = "down"] /\ UNCHANGED disk

\* systemctl --user disable.
UserDisables ==
  /\ cmd = Idle /\ platform = "linux" /\ mgr.enabled /\ Upset
  /\ mgr' = [mgr EXCEPT !.enabled = FALSE] /\ UNCHANGED disk

Replace == Upset /\ disk' = disk + 1 /\ UNCHANGED mgr

\* A new login: the manager reads the file again and starts what is enabled.
Login ==
  /\ cmd = Idle /\ Upset
  /\ mgr' = IF mgr.enabled /\ file.kind # "none" THEN [Started(file) EXCEPT !.enabled = TRUE]
            ELSE [mgr EXCEPT !.unit = "down", !.def = file]
  /\ UNCHANGED disk

Next ==
  \/ \E op \in {"update", "install", "upgrade", "uninstall"}, b \in Binaries, s \in Settings : Begin(op, b, s)
  \/ StepDone \/ StepFails \/ Finish \/ Kill
  \/ Crash \/ ComeBack \/ Quit \/ UserDisables \/ Replace \/ Login

Spec == Init /\ [][Next]_vars
-----------------------------------------------------------------------------
(* Properties.                                                             *)

\* File, manager and command keep their shape.
TypeOK ==
  /\ platform \in Platforms /\ file \in Contents
  /\ mgr.def \in Contents /\ mgr.enabled \in BOOLEAN /\ mgr.unit \in {"up", "down", "backoff"}
  /\ mgr.unit = "up" => mgr.runs # NoFile
  /\ mgr.exe <= disk /\ commands <= MaxCommands /\ faults <= MaxFaults /\ upsets <= MaxUpsets

Done(op) == last.op = op /\ last.ok
Agree    == mgr.def = file

\* When "tracker enable" succeeds the file, the manager and the running process
\* all have the definition asked for, and the process runs an executable no
\* older than the one on disk when the command began.
EnableRuns ==
  Done("update") =>
    /\ file = last.want /\ Agree /\ mgr.unit # "down"
    /\ mgr.unit = "up" => mgr.runs = file /\ mgr.exe >= last.gen

\* "Upgrade refreshes an existing definition, preserving its stored options and
\* running state": a tracker that ran is running again with the new definition
\* and executable, and the settings and the enablement are what they were.
UpgradeRefreshes ==
  Done("upgrade") /\ last.before.kind = "def" =>
    /\ file = last.want /\ file.set = last.before.set
    /\ last.was.unit = "up" \/ last.was.def = last.before => Agree
    /\ platform = "linux" => mgr.enabled = last.was.enabled
    /\ last.was.unit = "up" =>
         mgr.unit # "down" /\ (mgr.unit = "up" => mgr.runs = file /\ mgr.exe >= last.gen)

\* After a successful upgrade no tracker runs an old definition or executable,
\* whatever it was doing when the upgrade asked for its state.
UpgradeTakesEffect ==
  Done("upgrade") /\ last.before.kind = "def" /\ mgr.unit = "up" =>
    mgr.runs = file /\ mgr.exe >= last.gen

\* The sentence of Upgrade, for a tracker that did not run.
UpgradeKeepsStopped ==
  Done("upgrade") /\ last.was.unit = "down" => mgr.unit = "down"

\* A command that fails and is rolled back without another failure leaves the
\* definition it found, known to the manager, and a tracker that was running
\* runs; a failed first installation leaves nothing.
RollbackRestores ==
  last.op # "none" /\ ~last.ok /\ last.rolled =>
    /\ file = last.before
    /\ last.was.unit = "up" \/ last.was.def = last.before => Agree
    /\ last.was.unit = "up" => mgr.unit # "down"
    /\ last.before = NoFile => mgr.unit = "down" /\ (platform = "linux" => ~mgr.enabled)
    /\ last.op = "upgrade" /\ platform = "linux" /\ last.was.unit = "down" => mgr.unit = "down"

\* After "tracker disable" nothing is left: no file, no job, no process, and
\* nothing that starts it at the next login.
DisableRemoves ==
  Done("uninstall") =>
    /\ file = NoFile /\ mgr.unit = "down" /\ (platform = "linux" => ~mgr.enabled)
    /\ last.before # NoFile => Agree

\* A file aht did not write is never replaced or removed.
ForeignKept == file = Foreign => file' = Foreign

\* What "tracker enable" reports as enabled starts at the next login.
EnabledAtLogin == Done("update") => (platform = "linux" => mgr.enabled)
=============================================================================
