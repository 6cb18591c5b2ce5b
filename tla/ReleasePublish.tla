--------------------------- MODULE ReleasePublish ---------------------------
(***************************************************************************)
(* internal/tools/release and internal/tools/githubapi: the workflow that  *)
(* a version tag starts. It requires CI to have passed for the commit,     *)
(* builds and validates the artifacts, prepares a draft of its own,        *)
(* uploads and compares the assets, publishes the draft, and deletes it    *)
(* when the job did not succeed.                                           *)
(*                                                                         *)
(* There is one tag. Runs of it are serialized; a run that has ended can   *)
(* be run again, as a whole or from its failed job on, under the same run  *)
(* id. Reads of the API are retried and may still fail. A mutation is sent *)
(* once; its reply may be lost after it was applied.                       *)
(***************************************************************************)
EXTENDS Naturals, Sequences, FiniteSets, SequencesExt

CONSTANTS
  Commits,    (* commits the tag is put on                                 *)
  Assets,     (* names of release assets                                   *)
  MaxRuns,    (* bound: pushes of the tag                                  *)
  MaxReruns,  (* bound: runs that are run again                            *)
  MaxCI,      (* bound: CI runs of a commit                                *)
  MaxBuilds,  (* bound: builds                                             *)
  Late        (* a mutation may be applied after the client has given up   *)

PublishAssumption ==
  /\ MaxRuns \in Nat /\ MaxReruns \in Nat /\ MaxCI \in Nat /\ MaxBuilds \in Nat /\ Late \in BOOLEAN

VARIABLES
  ci,        (* CI runs of each commit, in the order of their ids          *)
  releases,  (* releases of the tag, in the order of their ids             *)
  runs,      (* workflow runs: [commit, build, state, clean]               *)
  active,    (* the run under way, or 0                                    *)
  step,      (* what it does next                                          *)
  found,     (* the CI run or the release its last request named           *)
  builds,    (* builds made: the commit of each and whether it is valid    *)
  reruns,    (* runs that were run again                                   *)
  late,      (* the release that a request under way will publish, or 0    *)
  green      (* ghost: commits with a CI attempt that passed every check   *)

vars == <<ci, releases, runs, active, step, found, builds, reruns, late, green>>

Steps == {"none", "gate", "jobs", "build", "prepare", "create", "upload", "compare",
          "publish", "patch", "readback", "cleanup", "delete"}

\* Steps of the job that publishes, whose failure starts the cleanup.
PublishSteps == {"prepare", "create", "upload", "compare", "publish", "patch", "readback"}

Init ==
  /\ ci = [c \in Commits |-> <<>>] /\ releases = <<>> /\ runs = <<>> /\ active = 0 /\ step = "none"
  /\ found = 0 /\ builds = <<>> /\ reruns = 0 /\ late = 0 /\ green = {}

-----------------------------------------------------------------------------
(* CI of the commits, and users.                                           *)

CIVars == <<releases, runs, active, step, found, builds, reruns, late>>

\* CI starts for a commit: for a push to master, or for something else.
CIStarts(c, master) ==
  /\ step \in {"none", "gate"} /\ Len(ci[c]) < MaxCI
  /\ ci' = [ci EXCEPT ![c] = Append(@, [master |-> master, status |-> "running", conclusion |-> "none", checks |-> FALSE])]
  /\ UNCHANGED <<CIVars, green>>

\* A required check that was skipped does not keep CI from succeeding.
CICompletes(c, i, conclusion, checks) ==
  /\ step \in {"none", "gate", "jobs"} /\ i \in DOMAIN ci[c] /\ ci[c][i].status = "running"
  /\ ci' = [ci EXCEPT ![c][i] = [@ EXCEPT !.status = "completed", !.conclusion = conclusion, !.checks = checks]]
  /\ green' = IF checks /\ ci[c][i].master THEN green \cup {c} ELSE green
  /\ UNCHANGED CIVars

\* CI is run again under the same id.
CIReruns(c, i) ==
  /\ step = "jobs" /\ i \in DOMAIN ci[c] /\ ci[c][i].status = "completed"
  /\ ci' = [ci EXCEPT ![c][i] = [@ EXCEPT !.status = "running", !.conclusion = "none", !.checks = FALSE]]
  /\ UNCHANGED <<CIVars, green>>

Live   == {i \in DOMAIN releases : ~releases[i].gone}
Manual == {i \in Live : releases[i].owner = 0}

\* The service has at most one published release of a tag, and any number of drafts.
Publishable(i) == \A j \in Live : releases[j].draft \/ j = i

\* A maintainer makes a release of the tag by hand, as a draft or published, at any time:
\* also between a run's look and its next step, and beside the run's own draft.
ManualRelease(c, draft) ==
  /\ Manual = {} /\ runs # <<>> /\ (draft \/ Publishable(0))
  /\ releases' = Append(releases, [commit |-> c, owner |-> 0, draft |-> draft, gone |-> FALSE,
                                   assets |-> [a \in Assets |-> 0]])
  /\ UNCHANGED <<ci, runs, active, step, found, builds, reruns, late, green>>

\* The tag is pushed. Runs of the tag wait for each other.
Push(c) ==
  /\ active = 0 /\ Len(runs) < MaxRuns
  /\ runs' = Append(runs, [commit |-> c, build |-> 0, state |-> "running", clean |-> FALSE])
  /\ active' = Len(runs) + 1 /\ step' = "gate"
  /\ UNCHANGED <<ci, releases, found, builds, reruns, late, green>>

\* A run that has ended is run again: all of it, or only the job that publishes.
Rerun(r, from) ==
  /\ active = 0 /\ r \in DOMAIN runs /\ reruns < MaxReruns
  /\ from = "prepare" => runs[r].state = "failed" /\ runs[r].build # 0 /\ builds[runs[r].build].valid
  /\ runs' = [runs EXCEPT ![r].state = "running", ![r].clean = FALSE]
  /\ active' = r /\ step' = from /\ reruns' = reruns + 1
  /\ UNCHANGED <<ci, releases, found, builds, late, green>>

-----------------------------------------------------------------------------
(* The client.                                                             *)

NoReply == [ok |-> FALSE]

\* Client.Get: after its retries a read has the value or an error.
Get(value) == {[ok |-> TRUE, value |-> value], NoReply}

\* Paginate: every page of a list, or an error.
Paginate(list) == Get(list)

\* Client.Do: what a mutation does and whether its reply arrives.
Sent == {"applied", "lost", "refused"}
Applied(how) == how \in {"applied", "lost"}

\* target.owns: the tag, the commit and the marker with the run's id.
Owns(r, i) == releases[i].commit = runs[r].commit /\ releases[i].owner = r

\* The release that a tag names, or 0. When the tag has two the service picks one.
ByTag == IF Live = {} THEN {0} ELSE Live

\* findRelease: absent is 0, any other failure is an error.
FindRelease == UNION {Get(i) : i \in ByTag}

-----------------------------------------------------------------------------
(* Ends of a run.                                                          *)

Ended(state, clean) ==
  /\ runs' = [runs EXCEPT ![active].state = state, ![active].clean = clean]
  /\ active' = 0 /\ step' = "none" /\ found' = 0

GoTo(next, thing) == step' = next /\ found' = thing /\ UNCHANGED <<runs, active>>

\* The job fails. After a failed gate there is no cleanup.
Fail ==
  IF step \in {"gate", "jobs"} THEN Ended("failed", FALSE) ELSE GoTo("cleanup", 0)

\* A runner is lost or the run is canceled.
Cancel ==
  /\ step \in PublishSteps \cup {"cleanup", "delete"}
  /\ IF step \in PublishSteps THEN GoTo("cleanup", 0) ELSE Ended("failed", FALSE)
  /\ UNCHANGED <<ci, releases, builds, reruns, late, green>>

-----------------------------------------------------------------------------
(* The gate.                                                               *)

\* The runs that waitForCI keeps: those of pushes to master.
CIRuns(c) == {i \in DOMAIN ci[c] : ci[c][i].master}

\* waitForCI: the newest run, once it has completed. CI that is not there is not waited for.
WaitForCI ==
  /\ step = "gate"
  /\ LET c == runs[active].commit
         newest == CHOOSE i \in CIRuns(c) : \A j \in CIRuns(c) : j <= i
     IN  IF CIRuns(c) = {} THEN Fail
         ELSE /\ ci[c][newest].status = "completed"
              /\ IF ci[c][newest].conclusion = "success" THEN GoTo("jobs", newest) ELSE Fail
  /\ UNCHANGED <<ci, releases, builds, reruns, late, green>>

\* waitForCI: the runs cannot be listed, or the job is canceled while it waits.
WaitFails ==
  /\ step = "gate" /\ Fail
  /\ UNCHANGED <<ci, releases, builds, reruns, late, green>>

\* requireCI: the jobs of the latest attempt of that run.
RequireCI ==
  /\ step = "jobs"
  /\ \E reply \in Paginate(ci[runs[active].commit][found]) :
       IF reply.ok /\ reply.value.checks THEN GoTo("build", 0) ELSE Fail
  /\ UNCHANGED <<ci, releases, builds, reruns, late, green>>

\* The artifacts are built, and validated on each platform.
Build(valid) ==
  /\ step = "build" /\ Len(builds) < MaxBuilds
  /\ builds' = Append(builds, [commit |-> runs[active].commit, valid |-> valid])
  /\ runs' = [runs EXCEPT ![active].build = Len(builds) + 1]
  /\ step' = IF valid THEN "prepare" ELSE "cleanup"
  /\ UNCHANGED <<ci, releases, active, found, reruns, late, green>>

-----------------------------------------------------------------------------
(* The draft.                                                              *)

\* prepareDraft: the release of the tag, which must be the run's own.
PrepareDraft ==
  /\ step = "prepare"
  /\ \E reply \in FindRelease :
       IF ~reply.ok THEN Fail
       ELSE IF reply.value = 0 THEN GoTo("create", 0)
       ELSE IF ~Owns(active, reply.value) THEN Fail
       ELSE IF releases[reply.value].draft THEN GoTo("upload", reply.value)
       ELSE Ended("succeeded", TRUE)
  /\ UNCHANGED <<ci, releases, builds, reruns, late, green>>

\* prepareDraft: the draft is created with the run's marker.
CreateDraft(how) ==
  /\ step = "create"
  /\ releases' = IF Applied(how)
                 THEN Append(releases, [commit |-> runs[active].commit, owner |-> active, draft |-> TRUE,
                                        gone |-> FALSE, assets |-> [a \in Assets |-> 0]])
                 ELSE releases
  /\ IF how = "applied" THEN GoTo("upload", Len(releases) + 1) ELSE Fail
  /\ UNCHANGED <<ci, builds, reruns, late, green>>

\* The assets are uploaded to the release with the tag, whose it may be, over what is
\* there (--clobber); one may arrive damaged (0).
Upload(i, a, b) ==
  /\ step = "upload" /\ i \in ByTag \cap Live /\ a \in Assets /\ b \in {runs[active].build, 0}
  /\ releases' = [releases EXCEPT ![i].assets[a] = b]
  /\ UNCHANGED <<ci, runs, active, step, found, builds, reruns, late, green>>

Uploaded ==
  /\ step = "upload"
  /\ step' = "compare"
  /\ UNCHANGED <<ci, releases, runs, active, found, builds, reruns, late, green>>

SameAssets(i) == i # 0 /\ \A a \in Assets : releases[i].assets[a] = runs[active].build

\* The assets of the release with the tag are compared with the build; what is published
\* then is the release that was prepared.
Compare ==
  /\ step = "compare"
  /\ \E i \in ByTag : IF SameAssets(i) THEN GoTo("publish", found) ELSE Fail
  /\ UNCHANGED <<ci, releases, builds, reruns, late, green>>

-----------------------------------------------------------------------------
(* Publication.                                                            *)

\* publishDraft: the draft is read and must still be the run's own.
PublishDraft ==
  /\ step = "publish"
  /\ \E reply \in Get(found) :
       IF ~reply.ok \/ releases[found].gone \/ ~Owns(active, found) THEN Fail
       ELSE IF ~releases[found].draft THEN Ended("succeeded", TRUE)
       ELSE GoTo("patch", found)
  /\ UNCHANGED <<ci, releases, builds, reruns, late, green>>

\* publishDraft: the draft flag is cleared. Without a reply the release is read again.
Patch(how) ==
  /\ step = "patch"
  /\ Applied(how) => Publishable(found)
  /\ releases' = IF Applied(how) THEN [releases EXCEPT ![found].draft = FALSE] ELSE releases
  /\ late' \in IF Late /\ how = "refused" THEN {0, found} ELSE {late}
  /\ IF how = "applied" THEN Ended("succeeded", TRUE) ELSE GoTo("readback", found)
  /\ UNCHANGED <<ci, builds, reruns, green>>

ReadBack ==
  /\ step = "readback"
  /\ \E reply \in Get(found) :
       IF ~reply.ok \/ releases[found].gone \/ ~Owns(active, found) \/ releases[found].draft THEN Fail
       ELSE Ended("succeeded", TRUE)
  /\ UNCHANGED <<ci, releases, builds, reruns, late, green>>

\* A request the client has given up on reaches the service.
LateApplies ==
  /\ late # 0 /\ late' = 0
  /\ releases' = [releases EXCEPT ![late].draft = @ /\ (releases[late].gone \/ ~Publishable(late))]
  /\ UNCHANGED <<ci, runs, active, step, found, builds, reruns, green>>

-----------------------------------------------------------------------------
(* Cleanup.                                                                *)

NeedsCleanup(i) == i # 0 /\ releases[i].draft /\ Owns(active, i)

\* cleanupDraft: the run's own draft, if there is one.
CleanupDraft ==
  /\ step = "cleanup"
  /\ \E reply \in FindRelease :
       IF ~reply.ok THEN Ended("failed", FALSE)
       ELSE IF NeedsCleanup(reply.value) THEN GoTo("delete", reply.value)
       ELSE Ended("failed", TRUE)
  /\ UNCHANGED <<ci, releases, builds, reruns, late, green>>

DeleteDraft(how) ==
  /\ step = "delete"
  /\ releases' = IF Applied(how) THEN [releases EXCEPT ![found].gone = TRUE] ELSE releases
  /\ Ended("failed", how = "applied")
  /\ UNCHANGED <<ci, builds, reruns, late, green>>

-----------------------------------------------------------------------------
\* The steps of the workflow itself.
Workflow ==
  \/ WaitForCI \/ RequireCI \/ PrepareDraft \/ Uploaded \/ Compare \/ PublishDraft \/ ReadBack \/ CleanupDraft
  \/ \E valid \in BOOLEAN : Build(valid)
  \/ \E how \in Sent : CreateDraft(how) \/ Patch(how) \/ DeleteDraft(how)

Next ==
  \/ Workflow \/ WaitFails \/ Cancel \/ LateApplies
  \/ \E i \in 1 .. Len(releases), a \in Assets, b \in 0 .. MaxBuilds : Upload(i, a, b)
  \/ \E c \in Commits : Push(c) \/ \E b \in BOOLEAN : CIStarts(c, b) \/ ManualRelease(c, b)
  \/ \E c \in Commits, i \in 1 .. MaxCI :
       CIReruns(c, i) \/ \E conclusion \in {"success", "failure"}, checks \in BOOLEAN : CICompletes(c, i, conclusion, checks)
  \/ \E r \in 1 .. MaxRuns, from \in {"gate", "prepare"} : Rerun(r, from)

Spec == Init /\ [][Next]_vars

\* CI runs end, and a job goes on.
FairSpec ==
  Spec /\ WF_vars(Workflow)
       /\ WF_vars(\E c \in Commits, i \in 1 .. MaxCI, conclusion \in {"success", "failure"}, checks \in BOOLEAN :
                    CICompletes(c, i, conclusion, checks))

-----------------------------------------------------------------------------
(* Properties.                                                             *)

TypeOK ==
  /\ active \in 0 .. Len(runs) /\ step \in Steps /\ (active = 0 <=> step = "none")
  /\ \A i \in DOMAIN releases : releases[i].owner \in 0 .. Len(runs)
  /\ step \in {"upload", "compare", "publish", "patch", "readback", "delete"} => found \in DOMAIN releases

\* Whatever fails, is lost or is run again, and whatever a maintainer makes meanwhile,
\* the runs make at most one release of the tag (prepareDraft reuses the draft of an
\* earlier attempt whose reply was lost).
OneRelease == Cardinality(Live \ Manual) <= 1

\* A maintainer made a release after a run had looked, or beside one of a run.
Crowded == Cardinality(Live) > 1

\* What users get was tested: CI has passed on master for the commit of every release
\* that a run published, and the release has all assets of one build of its commit that
\* was validated. The assets are uploaded and compared by the tag and published by the id,
\* so the second half needs the tag to have no other release.
PublishedIsTested ==
  \A i \in Live \ Manual : ~releases[i].draft =>
    /\ releases[i].commit \in green
    /\ Crowded \/ \E b \in DOMAIN builds :
                    /\ builds[b].valid /\ builds[b].commit = releases[i].commit
                    /\ \A a \in Assets : releases[i].assets[a] = b

\* A run that succeeded has published its release, reply or no reply.
SucceededIsPublished ==
  \A r \in DOMAIN runs : runs[r].state = "succeeded" =>
    \E i \in Live : releases[i].owner = r /\ ~releases[i].draft

\* After a cleanup without errors no draft of the run is left, whatever step had failed,
\* unless the tag may have named the release of a maintainer instead.
NoDraftLeft ==
  \A r \in DOMAIN runs : runs[r].state = "failed" /\ runs[r].clean =>
    \A i \in Live : releases[i].owner = r => ~releases[i].draft \/ Crowded

\* A run never publishes or deletes a release of another run or of a maintainer, and
\* nothing takes back a release that was published ("cleanup never touches a published
\* release or one created by another run"). Only the upload, which names its release by
\* the tag, can reach another's, and only one that a maintainer made since the run looked
\* or beside its draft; then it changes nothing but assets.
OthersUntouched ==
  \A i \in Live :
    /\ active # 0 /\ releases[i].owner # active =>
         \/ releases'[i] = releases[i]
         \/ step = "upload" /\ Crowded
            /\ releases'[i] = [releases[i] EXCEPT !.assets = releases'[i].assets]
    /\ ~releases[i].draft => ~releases'[i].gone /\ ~releases'[i].draft

\* The upload reaches the run's own draft only.
UploadReachesOwn ==
  \A i \in Live : active # 0 /\ releases[i].owner # active => releases'[i] = releases[i]

\* Every run comes to an end.
RunEnds == \A r \in 1 .. MaxRuns : active = r ~> active # r
=============================================================================
