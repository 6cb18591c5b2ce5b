------------------------------- MODULE Doctor -------------------------------
(***************************************************************************)
(* internal/install status.go, ownership.go, shim.go and upgrade.go: how   *)
(* the integration of one harness is inspected and upgraded. A plan writes *)
(* several artifacts (files, a plugin directory, its registration); each   *)
(* has a status, and Inspect merges them with the desired content and the  *)
(* shim that wraps the harness where no native integration is wanted.      *)
(*                                                                         *)
(* An integration is [arts, bin, shim]: the status of the artifacts in the *)
(* order of the plan, the aht binary they call, and the shim. A shim is    *)
(* its file, the version and mode it has and the binary it calls.          *)
(*                                                                         *)
(* pkg/manage doctor.go and internal/cli doctor.go: `aht doctor` judges    *)
(* the installation check by check, and with --fix asks about every        *)
(* automatic fix, repairs, checks again and reports. Between its steps     *)
(* users, other copies of aht and the service manager change the world.    *)
(*                                                                         *)
(* Copies of aht are on PATH or not; the path a shell finds may be a link, *)
(* the resolved path is what an integration or a service is made with.     *)
(***************************************************************************)
EXTENDS Naturals, Sequences, SequencesExt, FiniteSets, TLC

CONSTANTS
  ManagedVersion,   (* harness.IntegrationVersion                          *)
  HarnessVersion    (* the harness's own IntegrationVersion                *)

VersionAssumption == ManagedVersion \in Nat /\ HarnessVersion \in Nat

NoShim  == [file |-> "missing", version |-> 0, executable |-> FALSE, bin |-> "none"]
AShim(file, version, executable, bin) ==
  [file |-> file, version |-> version, executable |-> executable, bin |-> bin]

\* mergeInspectedArtifact: the worst status so far, in plan order.
MergeInspectedArtifact(result, status) ==
  CASE status = "foreign"  -> "foreign"
    [] status = "stale"    -> IF result = "disabled" THEN result ELSE "stale"
    [] status = "missing"  -> IF result = "current" THEN "missing" ELSE result
    [] status = "disabled" -> "disabled"
    [] OTHER               -> result

\* inspectIntegrationPlan: it stops at a foreign artifact; some there and some
\* missing is partial.
InspectIntegrationPlan(arts) ==
  LET merged  == FoldLeft(LAMBDA r, s : IF r = "foreign" THEN r ELSE MergeInspectedArtifact(r, s),
                          "current", arts)
      missing == "missing" \in ToSet(arts)
      managed == ToSet(arts) \cap {"current", "stale", "disabled"} # {}
  IN IF merged = "foreign" THEN merged
     ELSE IF missing /\ managed /\ merged # "disabled" THEN "partial"
     ELSE merged

\* markDesiredIntegrationState: a dry run that would change something.
MarkDesiredIntegrationState(status, i, bin) ==
  IF status = "current" /\ i.bin # bin THEN "stale" ELSE status

\* expectedIntegrationVersion: the shim calls itself <harness>-shim, which is no
\* harness of the catalog, so the common version is expected of it.
ExpectedShimVersion == ManagedVersion

\* classifyShimArtifact.
ClassifyShimArtifact(shim) ==
  CASE shim.file \in {"missing", "foreign"} -> shim.file
    [] shim.file = "managed" ->
         IF shim.version = ExpectedShimVersion /\ shim.executable THEN "current" ELSE "stale"

\* mergeShimStatus: a foreign shim spoils the result, a managed one stands in for
\* a native integration that is missing.
MergeShimStatus(status, shim) ==
  LET s == ClassifyShimArtifact(shim)
  IN IF s = "foreign" THEN "foreign"
     ELSE IF status = "missing" /\ s \in {"current", "stale"} THEN s
     ELSE status

\* Inspect for the aht binary bin.
Inspect(i, bin) ==
  MergeShimStatus(MarkDesiredIntegrationState(InspectIntegrationPlan(i.arts), i, bin), i.shim)

\* installedNative.
InstalledNative(i) ==
  InspectIntegrationPlan(i.arts) \in {"current", "stale", "partial", "disabled"}

\* upgradeNative: the registration is the last artifact; one that is disabled is
\* left alone, one that is not aht's is an error, and the rest is installed.
UpgradeNative(i, bin) ==
  LET registration == i.arts[Len(i.arts)]
  IN CASE registration = "foreign"  -> [ok |-> FALSE, to |-> i]
       [] registration = "disabled" -> [ok |-> TRUE, to |-> i]
       [] OTHER -> [ok |-> TRUE,
                    to |-> [i EXCEPT !.arts = [k \in DOMAIN @ |-> "current"], !.bin = bin]]

\* installedShim.
InstalledShim(shim) == shim.file = "managed"

\* installShim and writeShimChanges over a shim of this harness.
InstallShim(shim, bin) == AShim("managed", HarnessVersion, TRUE, bin)

\* UpgradeHarness: the native integration, then the shim.
UpgradeHarness(i, bin) ==
  LET native == IF InstalledNative(i) THEN UpgradeNative(i, bin) ELSE [ok |-> TRUE, to |-> i]
  IN [ok |-> native.ok,
      to |-> IF InstalledShim(i.shim) THEN [native.to EXCEPT !.shim = InstallShim(@, bin)]
             ELSE native.to]

-----------------------------------------------------------------------------
(* The doctor command.                                                     *)

CONSTANTS
  Copies,        (* executables of aht                                     *)
  OnPath,        (* the sequence of them found on PATH                     *)
  Worlds,        (* the states of the machine to start from                *)
  MaxRuns,       (* bound on doctor runs                                   *)
  MaxUpsets,     (* bound on changes by others                             *)
  MaxFaults      (* bound on failing repairs                               *)

DoctorAssumption ==
  /\ OnPath \in Seq(Copies) /\ MaxRuns \in Nat /\ MaxUpsets \in Nat /\ MaxFaults \in Nat

VARIABLES
  world,      (* config, platform, store, service, health, integration ... *)
  cmd,        (* the running doctor command                                *)
  report,     (* the report of the last one, until something else happens  *)
  runs, upsets, faults

vars == <<world, cmd, report, runs, upsets, faults>>

Idle     == [phase |-> "idle"]
NoReport == [kind |-> "none"]

Order == <<"install.path", "config.file", "observer.platform", "observer.process-enumeration",
           "detection.manifests", "store.read", "tracker.service", "tracker.health",
           "history.refresh", "integrations.h">>

\* newDoctorCheck, skipDoctorCheck, manualFix and automatic fixes.
Check(status, fix) == [status |-> status, needs |-> "", fix |-> fix]
OK             == Check("ok", "none")
Skip(needs)    == [status |-> "skip", needs |-> needs, fix |-> "none"]

\* executableCopies and checkInstallPath.
CheckInstallPath ==
  CASE Len(OnPath) = 0 -> Check("info", "none")
    [] Len(OnPath) = 1 -> OK
    [] OTHER           -> Check("warn", "manual")

\* checkConfigFile and describeConfigError.
CheckConfigFile(w) ==
  CASE w.config = "skipped" -> Skip("")
    [] w.config = "invalid" -> Check("fail", "manual")
    [] OTHER                -> OK

ConfigReady(w) == w.config = "valid"

\* checkPlatform.
CheckPlatform(w) == IF w.platform = "supported" THEN OK ELSE Check("fail", "manual")

\* checkProcessEnumeration.
CheckProcessEnumeration(w) == IF w.processes = "listed" THEN OK ELSE Check("fail", "manual")

\* checkManifests.
CheckManifests(w) ==
  IF ~ConfigReady(w) THEN Skip("config.file")
  ELSE CASE w.manifests = "invalid" -> Check("fail", "manual")
         [] w.manifests = "old"     -> Check("warn", "manual")
         [] OTHER                   -> OK

\* checkStore.
CheckStore(w) == IF w.store = "readable" THEN OK ELSE Check("fail", "manual")

\* checkHistoryRefresh.
CheckHistoryRefresh(w) == IF w.history = "complete" THEN OK ELSE Check("warn", "manual")

\* checkService for the copy self: TrackerStatus compares the definition with the
\* binary of the one who asks.
CheckService(w, self) ==
  IF w.platform # "supported" THEN Skip("observer.platform")
  ELSE IF ~ConfigReady(w) THEN Skip("config.file")
  ELSE CASE w.service.def = "foreign" -> Check("fail", "manual")
         [] w.service.def = "unknown" -> Check("fail", "manual")
         [] w.service.def \in Copies /\ w.service.def = self /\ w.service.running -> OK
         [] OTHER -> Check("warn", "automatic")

\* checkHealth.
CheckHealth(w, service) ==
  IF service.status \in {"warn", "fail"} THEN Skip("tracker.service")
  ELSE CASE w.health = "fresh"   -> OK
         [] w.health = "corrupt" -> Check("fail", "manual")
         [] OTHER                -> Check("warn", "manual")

\* The path a shell finds a copy at, a link; a copy itself stands for what that
\* resolves to.
PathOf(copy) == <<"path", copy>>

\* describeStaleIntegration: current for another copy on PATH, under the path it
\* is found at or the one it resolves to.
CurrentForAnother(i, self) ==
  \E k \in DOMAIN OnPath :
    /\ OnPath[k] # self
    /\ \E name \in {PathOf(OnPath[k]), OnPath[k]} : Inspect(i, name) = "current"

DescribeStaleIntegration(i, self) ==
  IF CurrentForAnother(i, self) THEN Check("info", "none") ELSE Check("warn", "automatic")

\* checkIntegrations: a status that is none of the four known to pkg/manage keeps
\* the ok a new check starts with. Missing ones are left out without --verbose.
CheckIntegration(i, self) ==
  LET status == Inspect(i, self)
  IN CASE status = "current" -> OK
       [] status = "missing" -> Check("info", "none")
       [] status = "stale"   -> DescribeStaleIntegration(i, self)
       [] status = "foreign" -> Check("fail", "manual")
       [] OTHER              -> Check("ok", "none")

\* Doctor: all checks of the copy self.
Doctor(w, self) ==
  LET service == CheckService(w, self)
  IN "install.path" :> CheckInstallPath @@
     "config.file" :> CheckConfigFile(w) @@
     "observer.platform" :> CheckPlatform(w) @@
     "observer.process-enumeration" :> CheckProcessEnumeration(w) @@
     "detection.manifests" :> CheckManifests(w) @@
     "store.read" :> CheckStore(w) @@
     "tracker.service" :> service @@
     "tracker.health" :> CheckHealth(w, service) @@
     "history.refresh" :> CheckHistoryRefresh(w) @@
     "integrations.h" :> CheckIntegration(w.integration, self)

\* hasAutomaticFix and automaticDoctorFixes, in check order.
HasAutomaticFix(check) == check.fix = "automatic" /\ check.status \in {"warn", "fail"}
AutomaticDoctorFixes(checks) == SelectSeq(Order, LAMBDA id : HasAutomaticFix(checks[id]))

\* Failed: what the exit code says.
Failed(checks) == \E id \in DOMAIN checks : checks[id].status = "fail"

Init ==
  /\ world \in Worlds
  /\ cmd = Idle /\ report = NoReport
  /\ runs = 0 /\ upsets = 0 /\ faults = 0

Finish(checks, fixed) ==
  /\ report' = [kind |-> "report", by |-> cmd.by, checks |-> checks, fixed |-> fixed,
                seen |-> world, failed |-> Failed(checks), fresh |-> cmd.calm]
  /\ cmd' = Idle

\* newDoctorCommand: the first diagnosis, with --fix and perhaps --yes.
Run(self, fix, yes) ==
  /\ cmd.phase = "idle" /\ runs < MaxRuns
  /\ yes => fix
  /\ runs' = runs + 1
  /\ report' = NoReport
  /\ LET checks == Doctor(world, self)
     IN cmd' = [phase |-> "fixing", by |-> self, yes |-> yes, checks |-> checks, fixed |-> {},
                asked |-> {}, calm |-> TRUE,
                todo |-> IF fix THEN AutomaticDoctorFixes(checks) ELSE <<>>]
  /\ UNCHANGED <<world, upsets, faults>>

\* EnableTracker on what the service is now: a foreign definition is refused.
RepairService(w, self) ==
  IF w.service.def = "foreign" THEN [ok |-> FALSE, to |-> w]
  ELSE [ok |-> TRUE, to |-> [w EXCEPT !.service = [def |-> self, running |-> TRUE]]]

RepairIntegration(w, self) ==
  LET r == UpgradeHarness(w.integration, self)
  IN [ok |-> r.ok, to |-> [w EXCEPT !.integration = r.to]]

\* DoctorCheck.Repair.
Repair(id, w, self) ==
  IF id = "tracker.service" THEN RepairService(w, self) ELSE RepairIntegration(w, self)

\* applyDoctorFixes: the next automatic fix is confirmed, or not needed to be.
Fix ==
  /\ cmd.phase = "fixing" /\ cmd.todo # <<>>
  /\ LET id == Head(cmd.todo)
         r  == Repair(id, world, cmd.by)
     IN \/ /\ world' = r.to
           /\ cmd' = [cmd EXCEPT !.todo = Tail(@), !.asked = @ \cup {id},
                                 !.fixed = IF r.ok THEN @ \cup {id} ELSE @]
           /\ UNCHANGED faults
        \/ /\ faults < MaxFaults /\ faults' = faults + 1
           /\ cmd' = [cmd EXCEPT !.todo = Tail(@), !.asked = @ \cup {id}]
           /\ UNCHANGED world
  /\ UNCHANGED <<report, runs, upsets>>

\* applyDoctorFixes: the fix is declined, or nobody can be asked, which ends the
\* command without a report.
Decline ==
  /\ cmd.phase = "fixing" /\ cmd.todo # <<>> /\ ~cmd.yes
  /\ \/ cmd' = [cmd EXCEPT !.todo = Tail(@), !.asked = @ \cup {Head(cmd.todo)}]
     \/ cmd' = Idle
  /\ UNCHANGED <<world, report, runs, upsets, faults>>

\* newDoctorCommand: once a fix was applied or declined everything is checked again.
FinalChecks(c, w) == IF c.asked # {} THEN Doctor(w, c.by) ELSE c.checks

Report ==
  /\ cmd.phase = "fixing" /\ cmd.todo = <<>>
  /\ Finish(FinalChecks(cmd, world), cmd.fixed)
  /\ UNCHANGED <<world, runs, upsets, faults>>

---------------------------------------------------------------------------
\* What others do meanwhile.

Upset(w) ==
  /\ upsets < MaxUpsets /\ upsets' = upsets + 1
  /\ world' = w /\ report' = NoReport
  /\ cmd' = IF cmd = Idle THEN cmd ELSE [cmd EXCEPT !.calm = FALSE]
  /\ UNCHANGED <<runs, faults>>

\* Another copy installs the integration, a user puts something of their own in
\* its place, or disables the registration.
OtherInstalls(c) ==
  /\ Inspect(world.integration, c) # "foreign"
  /\ Upset([world EXCEPT !.integration.arts = [k \in DOMAIN @ |-> "current"],
                         !.integration.bin = c])
UserReplaces(k) ==
  Upset([world EXCEPT !.integration.arts = [@ EXCEPT ![k] = "foreign"]])
UserDisables ==
  /\ world.integration.arts[2] = "current"
  /\ Upset([world EXCEPT !.integration.arts = [@ EXCEPT ![2] = "disabled"]])

\* The service stops, or a user writes a definition of their own.
ServiceChanges ==
  \/ world.service.running /\ Upset([world EXCEPT !.service.running = FALSE])
  \/ world.service.def \in Copies /\ Upset([world EXCEPT !.service.def = "foreign"])

\* The tracker writes its health.
HealthWritten ==
  /\ world.service.running /\ world.health # "fresh"
  /\ Upset([world EXCEPT !.health = "fresh"])

Next ==
  \/ \E self \in Copies, fix \in BOOLEAN, yes \in BOOLEAN : Run(self, fix, yes)
  \/ Fix \/ Decline \/ Report
  \/ \E c \in Copies : OtherInstalls(c)
  \/ \E k \in {1, 2} : UserReplaces(k)
  \/ UserDisables \/ ServiceChanges \/ HealthWritten

Spec == Init /\ [][Next]_vars

---------------------------------------------------------------------------

TypeOK ==
  /\ cmd.phase \in {"idle", "fixing"}
  /\ report # NoReport =>
       \A id \in ToSet(Order) :
         LET c == report.checks[id]
         IN /\ c.status \in {"ok", "info", "warn", "fail", "skip"}
            /\ c.status \in {"warn", "fail"} <=> c.fix # "none"

Before(a, b) == \E i, j \in DOMAIN Order : i < j /\ Order[i] = a /\ Order[j] = b

\* A check that was skipped names one that ran before it and did not pass, and
\* the health of the tracker is never judged next to a service that is known not
\* to run: no second alarm for one cause, none without a cause.
SkipsHaveCause ==
  report # NoReport =>
    /\ \A id \in ToSet(Order) :
         LET n == report.checks[id].needs
         IN n # "" => Before(n, id) /\ report.checks[n].status \in {"warn", "fail", "skip"}
    /\ report.checks["tracker.service"].status \in {"warn", "fail"}
         => report.checks["tracker.health"].status = "skip"

\* The report and the exit code describe the machine after the last fix, when
\* nobody else changed it: never the problems that were just repaired.
ReportsWhatIsLeft ==
  (report # NoReport /\ report.fresh) =>
    /\ report.checks = Doctor(report.seen, report.by)
    /\ report.failed <=> Failed(Doctor(report.seen, report.by))

\* A fix that was applied worked: its check no longer asks for a fix.
FixesWork ==
  (report # NoReport /\ report.fresh) =>
    \A id \in report.fixed : ~HasAutomaticFix(report.checks[id])

\* An integration check that is ok means an integration that is current.
OkIsCurrent ==
  (report # NoReport /\ report.checks["integrations.h"].status = "ok" /\ report.fresh)
    => Inspect(report.seen.integration, report.by) = "current"

\* A fix never replaces what is not aht's, not even what appeared while the user
\* was asked, and never enables a registration the user disabled.
ForeignSurvivesFixes ==
  (cmd # Idle /\ upsets' = upsets /\ world' # world) =>
    /\ world.service.def = "foreign" => world'.service.def = "foreign"
    /\ \A k \in {1, 2} : world.integration.arts[k] \in {"foreign", "disabled"} =>
         world'.integration.arts[k] = world.integration.arts[k]
    /\ world.integration.shim.file = "foreign" =>
         world'.integration.shim = world.integration.shim

\* Two copies of aht on PATH do not take the integration from each other: a fix
\* leaves one alone that was current for the other when the doctor looked.
CopiesShare ==
  (cmd # Idle /\ cmd.calm /\ upsets' = upsets /\ world'.integration # world.integration) =>
    \A k \in DOMAIN OnPath : OnPath[k] # cmd.by =>
      \A name \in {PathOf(OnPath[k]), OnPath[k]} :
        Inspect(world.integration, name) # "current"
=============================================================================
