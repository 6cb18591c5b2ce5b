---------------------------- MODULE ReleaseChecks ----------------------------
(***************************************************************************)
(* internal/tools/compatibility: the scheduled workflow that checks each   *)
(* new release of a harness against the latest published aht, keeps its    *)
(* history in artifacts, and tracks regressions in issues.                 *)
(*                                                                         *)
(* A workflow run is about all harnesses or about the one a user chose. It *)
(* detects releases (detect), tests the ones it selects (result), merges   *)
(* the results into the history (finish) and syncs the issues (issues).    *)
(* Runs are serialized; any of them can be run again, as a whole or from   *)
(* its record job on, with the code and the results it had.                *)
(*                                                                         *)
(* The history is a function from harnesses to records                     *)
(* [source, version, outcome, revision]; version 0 is no record.           *)
(***************************************************************************)
EXTENDS Naturals, Sequences, FiniteSets, SequencesExt

CONSTANTS
  Harnesses,    (* harnesses with release sources                          *)
  MaxVersion,   (* adapters' supported maximum; 0 for none                 *)
  Versions,     (* bound: releases of a harness                            *)
  Revisions,    (* bound: published releases of aht                        *)
  Sources,      (* bound: release sources of a harness                     *)
  MaxRuns,      (* bound: workflow runs                                    *)
  MaxReruns,    (* bound: runs that are run again                          *)
  Rollbacks,    (* upstream may withdraw a release                         *)
  LateHarness,  (* the harnesses are in aht only from its second release   *)
  OwnReruns,    (* the run that published last may be run again as a whole *)
  Errors        (* requests to the release sources and to GitHub fail      *)

ReleaseAssumption ==
  /\ MaxVersion \in Nat /\ Versions \in Nat \ {0} /\ Revisions \in Nat \ {0} /\ Sources \in Nat \ {0}
  /\ MaxRuns \in Nat /\ MaxReruns \in Nat
  /\ Rollbacks \in BOOLEAN /\ OwnReruns \in BOOLEAN /\ LateHarness \in BOOLEAN /\ Errors \in BOOLEAN

VARIABLES
  world,      (* latest version and source of each harness, latest revision *)
  artifacts,  (* the published histories, oldest first: [run, state]       *)
  runs,       (* the workflow runs, in the order of their ids              *)
  active,     (* the run under way, or 0                                   *)
  step,       (* its step                                                  *)
  issues,     (* the open issues: harness -> version, 0 for none           *)
  todo,       (* what the issue sync still has to do                       *)
  reruns,     (* times a run was run again                                 *)
  passed,     (* ghost: the harness releases that passed a check           *)
  latest,     (* ghost: the last check of each harness, in order of checks *)
  failed      (* the run under way, or the last one, failed                *)

vars == <<world, artifacts, runs, active, step, issues, todo, reruns, passed, latest, failed>>

NoRecord == [source |-> 0, version |-> 0, outcome |-> "none", revision |-> 0]
NoRelease == [h \in Harnesses |-> NoRecord]
EmptyState == [harnesses |-> NoRelease, successful |-> NoRelease]

\* A failed installation ("infrastructure") and a missing result are treated alike.
Outcomes == {"success", "failure", "incomplete"}

Init ==
  /\ world = [version |-> [h \in Harnesses |-> 1], source |-> 1, revision |-> 1]
  /\ artifacts = <<>> /\ runs = <<>> /\ active = 0 /\ step = "none"
  /\ issues = [h \in Harnesses |-> 0] /\ todo = {} /\ reruns = 0 /\ passed = {}
  /\ latest = NoRelease /\ failed = FALSE

-----------------------------------------------------------------------------
(* Upstream.                                                               *)

\* Only detection reads what is published: it changes between runs and before detection.
Upstream ==
  /\ step \in {"none", "detect"}
  /\ \/ \E h \in Harnesses, v \in 1 .. Versions :
          /\ v = world.version[h] + 1 \/ (Rollbacks /\ v + 1 = world.version[h])
          /\ world' = [world EXCEPT !.version[h] = v]
     \/ world.revision < Revisions /\ world' = [world EXCEPT !.revision = @ + 1]
     \/ world.source < Sources /\ world' = [world EXCEPT !.source = @ + 1]
  /\ UNCHANGED <<artifacts, runs, active, step, issues, todo, reruns, passed, latest, failed>>

\* releasedHarnesses: the adapters that are in the published aht.
Released(revision) == IF LateHarness /\ revision = 1 THEN {} ELSE Harnesses

-----------------------------------------------------------------------------
(* Detection.                                                              *)

\* restoreArtifactState, trustedArtifact: the newest artifact of another run.
Restored(run) ==
  LET last == SelectLastInSeq(artifacts, LAMBDA a: a.run # run)
  IN  IF last = 0 THEN EmptyState ELSE artifacts[last].state

\* restoreState: the history, or an error.
Restore(run) == {Restored(run)}

\* invalidateOtherRevisions.
Invalidated(state, revision) ==
  [state EXCEPT !.harnesses =
     [h \in Harnesses |-> IF @[h].version # 0 /\ @[h].revision # revision
                          THEN [@[h] EXCEPT !.outcome = "incomplete"] ELSE @[h]]]

\* needsCheck.
NeedsCheck(source, version, previous, force) ==
  \/ force \/ previous.source # source
  \/ previous.outcome = "incomplete"
  \/ version > previous.version

\* aboveMaximum, regression.
AboveMaximum(version) == MaxVersion # 0 /\ version > MaxVersion
Regression(source, record) ==
  record.source = source /\ record.outcome = "failure" /\ ~AboveMaximum(record.version)

\* observe: a source that answers, and whether its release is to be checked.
Observe(h, previous, source, force, answers) ==
  [error |-> h \notin answers, selected |-> h \in answers /\ NeedsCheck(source, world.version[h], previous, force)]

\* detect, selectReleased: harnesses outside the selection are neither observed nor said to
\* be unreleased.
Plan(state, revision, source, force, selection, answers) ==
  LET seen == [h \in selection \cap Released(revision) |-> Observe(h, state.harnesses[h], source, force, answers)] IN
  [include    |-> [h \in {x \in DOMAIN seen : seen[x].selected} |-> world.version[h]],
   unreleased |-> selection \ Released(revision),
   errors     |-> \E h \in DOMAIN seen : seen[h].error]

NewRun == [revision |-> world.revision, source |-> world.source, force |-> FALSE, selection |-> Harnesses,
           plan |-> Plan(EmptyState, 1, 1, FALSE, Harnesses, {}), results |-> <<>>, tested |-> FALSE]

\* The inputs of the workflow: all harnesses, or one.
Selections == {Harnesses} \cup {{h} : h \in Harnesses}

\* The schedule or a user starts a run, with the code of the default branch.
Start(force, selection) ==
  /\ active = 0 /\ Len(runs) < MaxRuns
  /\ runs' = Append(runs, [NewRun EXCEPT !.force = force, !.selection = selection])
  /\ active' = Len(runs) + 1 /\ step' = "detect" /\ failed' = FALSE
  /\ UNCHANGED <<world, artifacts, issues, todo, reruns, passed, latest>>

\* A run is run again: all of it, or its record job with the results it has.
Rerun(r, from) ==
  /\ active = 0 /\ r \in DOMAIN runs /\ reruns < MaxReruns
  /\ from = "record" => runs[r].tested
  /\ from = "detect" /\ artifacts # <<>> /\ Last(artifacts).run = r => OwnReruns
  /\ active' = r /\ step' = from /\ reruns' = reruns + 1 /\ failed' = FALSE
  /\ UNCHANGED <<world, artifacts, runs, issues, todo, passed, latest>>

Finished == active' = 0 /\ step' = "none"

\* application.detectReleases, with the aht that is published when the job runs.
Detect(answers) ==
  /\ step = "detect" /\ (Errors \/ answers = Harnesses)
  /\ \E state \in Restore(active) :
       LET run  == runs[active]
           plan == Plan(Invalidated(state, world.revision), world.revision, run.source, run.force, run.selection, answers)
       IN  runs' = [runs EXCEPT ![active].revision = world.revision, ![active].plan = plan,
                                ![active].results = <<>>, ![active].tested = FALSE]
  /\ step' = "hosts"
  /\ UNCHANGED <<world, artifacts, active, issues, todo, reruns, passed, latest, failed>>

\* The history cannot be read: the job fails and nothing is published.
RestoreFails ==
  /\ Errors /\ step \in {"detect", "record"}
  /\ failed' = TRUE /\ Finished
  /\ UNCHANGED <<world, artifacts, runs, issues, todo, reruns, passed, latest>>

-----------------------------------------------------------------------------
(* Host jobs.                                                              *)

\* resultOutcome, application.recordResult.
HostResult(outcome) == [outcome |-> outcome, revision |-> runs[active].revision]

\* The selected releases are tested. A result may be missing.
Test(outcomes) ==
  /\ step = "hosts" /\ outcomes \in [DOMAIN runs[active].plan.include -> Outcomes]
  /\ LET include == runs[active].plan.include IN
     /\ runs' = [runs EXCEPT ![active].tested = TRUE,
                             ![active].results = [h \in DOMAIN include |-> HostResult(outcomes[h])]]
     /\ passed' = passed \cup {<<h, include[h]>> : h \in {x \in DOMAIN include : outcomes[x] = "success"}}
     /\ latest' = [h \in Harnesses |->
                     IF h \in DOMAIN include /\ outcomes[h] \in {"success", "failure"}
                     THEN [source |-> runs[active].source, version |-> include[h], outcome |-> outcomes[h],
                           revision |-> runs[active].revision]
                     ELSE latest[h]]
  /\ step' = "record"
  /\ UNCHANGED <<world, artifacts, active, issues, todo, reruns, failed>>

-----------------------------------------------------------------------------
(* Recording.                                                              *)

\* Mutant: what is tested last is recorded.
AlreadyNewerNever(previous, source, version) == FALSE

\* alreadyNewer.
AlreadyNewer(previous, source, version) == previous.source = source /\ previous.version > version

\* recordLatest.
RecordLatest(previous, record) ==
  IF AlreadyNewer(previous, record.source, record.version) THEN previous ELSE record

\* What mergeResults makes of a candidate's result.
ResultRecord(run, h) ==
  [source |-> run.source, version |-> run.plan.include[h],
   outcome |-> run.results[h].outcome, revision |-> run.results[h].revision]

\* mergeResults, and the deletion of harnesses that are not released.
MergeResults(state, run) ==
  LET tested == DOMAIN run.plan.include IN
  [harnesses  |-> [h \in Harnesses |->
                     CASE h \in run.plan.unreleased -> NoRecord
                       [] h \in tested              -> RecordLatest(state.harnesses[h], ResultRecord(run, h))
                       [] OTHER                     -> state.harnesses[h]],
   successful |-> [h \in Harnesses |->
                     IF h \in tested /\ ResultRecord(run, h).outcome = "success"
                     THEN RecordLatest(state.successful[h], ResultRecord(run, h)) ELSE state.successful[h]]]

Incomplete(run) == {h \in DOMAIN run.plan.include : run.results[h].outcome = "incomplete"}

\* newRegressions.
NewRegressions(run, previous, next) ==
  {h \in Harnesses : Regression(run.source, next.harnesses[h]) /\ ~Regression(run.source, previous.harnesses[h])}

\* Mutant: only new regressions are reported.
OpenNew(run, state) ==
  {h \in Harnesses \ run.plan.unreleased : Regression(run.source, state.harnesses[h])
                                            /\ h \in DOMAIN run.plan.include}

\* trackedIssues.
OpenItems(run, state) ==
  {h \in Harnesses \ run.plan.unreleased : Regression(run.source, state.harnesses[h])}

ResolvedItems(run, state) ==
  {h \in Harnesses : \/ h \in run.plan.unreleased
                     \/ /\ state.harnesses[h].source = run.source
                        /\ state.harnesses[h].outcome \in {"success", "failure"}
                        /\ ~Regression(run.source, state.harnesses[h])}

\* application.finish, and the upload of the new history, which replaces the run's own.
\* The run will fail when it has errors, missing results or new regressions.
Record ==
  /\ step = "record"
  /\ \E state \in Restore(active) :
       LET run  == runs[active]
           next == MergeResults(state, run)
       IN  /\ artifacts' = Append(SelectSeq(artifacts, LAMBDA a: a.run # active), [run |-> active, state |-> next])
           /\ todo' = {<<"open", h, next.harnesses[h].version>> : h \in OpenItems(run, next)}
                        \cup {<<"close", h, 0>> : h \in ResolvedItems(run, next)}
           /\ failed' = (run.plan.errors \/ Incomplete(run) # {} \/ NewRegressions(run, state, next) # {})
  /\ step' = "issues"
  /\ UNCHANGED <<world, runs, active, issues, reruns, passed, latest>>

-----------------------------------------------------------------------------
(* Issues.                                                                 *)

\* syncIssues: one issue is opened, brought up to date or closed.
SyncIssue(item) ==
  /\ step = "issues" /\ item \in todo
  /\ issues' = [issues EXCEPT ![item[2]] = item[3]]
  /\ todo' = todo \ {item}
  /\ UNCHANGED <<world, artifacts, runs, active, step, reruns, passed, latest, failed>>

\* A request fails; the rest of the sync is left to the next run.
SyncFails ==
  /\ Errors /\ step = "issues" /\ todo # {}
  /\ todo' = {} /\ failed' = TRUE /\ Finished
  /\ UNCHANGED <<world, artifacts, runs, issues, reruns, passed, latest>>

Synced ==
  /\ step = "issues" /\ todo = {}
  /\ Finished
  /\ UNCHANGED <<world, artifacts, runs, issues, todo, reruns, passed, latest, failed>>

-----------------------------------------------------------------------------
(* Change checks.                                                          *)

\* knownGood: the release that a change is tested against; 0 for none.
KnownGood(state, h) ==
  CASE state.successful[h].source # world.source        -> 0
    [] AboveMaximum(state.successful[h].version)        -> MaxVersion
    [] OTHER                                            -> state.successful[h].version

Next ==
  \/ Upstream
  \/ \E force \in BOOLEAN, selection \in Selections : Start(force, selection)
  \/ \E r \in 1 .. MaxRuns, from \in {"detect", "record"} : Rerun(r, from)
  \/ \E answers \in SUBSET Harnesses : Detect(answers)
  \/ RestoreFails
  \/ step = "hosts" /\ \E outcomes \in [DOMAIN runs[active].plan.include -> Outcomes] : Test(outcomes)
  \/ Record \/ SyncFails \/ Synced
  \/ \E item \in todo : SyncIssue(item)

Spec == Init /\ [][Next]_vars

-----------------------------------------------------------------------------
(* Properties.                                                             *)

Current == IF artifacts = <<>> THEN EmptyState ELSE Last(artifacts).state

TypeOK ==
  /\ active \in 0 .. Len(runs) /\ step \in {"none", "detect", "hosts", "record", "issues"}
  /\ \A i \in DOMAIN artifacts : artifacts[i].run \in DOMAIN runs
  /\ \A h \in Harnesses : /\ Current.harnesses[h].outcome \in Outcomes \cup {"none"}
                          /\ Current.successful[h].outcome \in {"success", "none"}
  /\ Cardinality({artifacts[i].run : i \in DOMAIN artifacts}) = Len(artifacts)

\* Runs that are run again, runs of withdrawn releases and failing requests never take a
\* history back: per source, versions only grow, and a success is never lost (recordLatest:
\* "must not roll either history backwards").
HistoryForward ==
  \A h \in Harnesses :
    /\ Current'.successful[h].source = Current.successful[h].source =>
         Current'.successful[h].version >= Current.successful[h].version
    /\ Current.successful[h].version # 0 => Current'.successful[h].version # 0
    /\ Current'.harnesses[h].source = Current.harnesses[h].source =>
         Current'.harnesses[h].version >= Current.harnesses[h].version

\* A regression of the published history has an open issue, or the last run has failed.
\* A sync that fails in the middle leaves nothing that the next run does not repair.
NeverSilent ==
  active = 0 /\ artifacts # <<>> /\ ~failed =>
    \A h \in Harnesses :
      LET run == runs[Last(artifacts).run] IN
      Regression(run.source, Current.harnesses[h]) /\ h \notin run.plan.unreleased =>
        issues[h] = Current.harnesses[h].version

\* An open issue is about a failure: after a run that did not fail, no issue is open for a
\* harness whose recorded check passed or failed above the supported maximum. A check that
\* says nothing leaves the issue as it is.
IssuesAreTrue ==
  active = 0 /\ artifacts # <<>> /\ ~failed =>
    \A h \in Harnesses :
      LET run == runs[Last(artifacts).run]
          record == Current.harnesses[h]
      IN  issues[h] # 0 /\ record.source = run.source =>
            /\ record.outcome # "success"
            /\ record.outcome = "failure" => ~AboveMaximum(record.version)

\* The history answers for the published aht: after a run that did not fail, every harness
\* it was about and that aht has was checked with it, for good, at the release the run saw
\* or a later one. A result that says nothing, a new aht or a new source is never taken for
\* a check. What the run was not about keeps the record it had, of whichever aht.
HistoryAnswers ==
  active = 0 /\ artifacts # <<>> /\ ~failed =>
    LET run == runs[Len(runs)] IN
    /\ \A h \in run.selection \ run.plan.unreleased :
         LET record == Current.harnesses[h] IN
         /\ record.outcome \in {"success", "failure"}
         /\ record.revision = run.revision /\ record.source = run.source
         /\ h \in DOMAIN run.plan.include => record.version >= run.plan.include[h]
    /\ \A h \in Harnesses \ run.selection :
         Current.harnesses[h] = Restored(Len(runs)).harnesses[h]

\* Change checks are pinned to a release that passed, or to the supported maximum when a
\* later one passed.
KnownGoodPassed ==
  \A h \in Harnesses :
    LET v == KnownGood(Current, h) IN
    v # 0 => \E p \in passed : p[1] = h /\ (p[2] = v \/ (v = MaxVersion /\ p[2] > v))

\* Running an old workflow again preserves more recent checks.
RerunPreserves ==
  active = 0 =>
    \A h \in Harnesses :
      Current.harnesses[h].version = latest[h].version => Current.harnesses[h].outcome # "failure"
                                                          \/ latest[h].outcome = "failure"

\* Running an old workflow again keeps the records of harnesses released since.
RerunKeeps ==
  \A h \in Harnesses : Current.harnesses[h].version # 0 => Current'.harnesses[h].version # 0

\* One open issue tracks each harness whose latest supported release fails.
LatestFailureTracked ==
  active = 0 /\ ~failed /\ reruns = 0 =>
    \A h \in Harnesses :
      latest[h].outcome = "failure" /\ latest[h].version = world.version[h]
        /\ latest[h].source = world.source /\ ~AboveMaximum(latest[h].version) =>
          issues[h] # 0
=============================================================================
