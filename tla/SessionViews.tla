---------------------------- MODULE SessionViews ----------------------------
(***************************************************************************)
(* What others make of the sessions of SessionLifecycle.                   *)
(*                                                                         *)
(* aht info and aht.ExplainSession (pkg/manage/explain.go): which source   *)
(* decides a session's activity at this moment, why, and what the session  *)
(* is doing according to that source, the terminal screen read afresh if   *)
(* the screen decides. An explanation changes nothing, so it is a function *)
(* of the session the registry holds, the time, where the session is and   *)
(* what the terminal multiplexers answer. Rule identifiers, manifest       *)
(* versions and the copies of registry fields in the answer are left out.  *)
(*                                                                         *)
(* internal/registrycheck: the rules that the repository's own randomised  *)
(* tests check on registry sessions and on each reduced observation, here  *)
(* for every session of SessionLifecycle and every observation that may    *)
(* reach it. The rules about other native identities are left out: all     *)
(* reports here are the session's own.                                     *)
(***************************************************************************)
EXTENDS SessionLifecycle


-----------------------------------------------------------------------------
(* Which source decides (authority.go).                                    *)

\* Mutant: a report of this very moment counts as one from the future.
HookReasonNotYet(s, now) ==
  CASE s.native.at >= now -> "integration_observation_from_future"
    [] OTHER              -> "matching_live_process_report"

\* EvaluateHook's reason; the hook is active for the last one only.
HookReason(s, now) ==
  CASE ScreenPolicy                             -> "hook_not_activity_authority"
    [] s.native.at = 0                          -> "integration_report_missing"
    [] s.native.act \in {"none", "unknown"}     -> "integration_activity_missing"
    [] NativeEnded(s) \/ s.presence = "gone"    -> "integration_ended"
    [] s.process = NoProc                       -> "agent_process_missing"
    [] s.native.proc # s.process                -> "agent_process_replaced"
    [] s.native.at > now                        -> "integration_observation_from_future"
    [] now > s.native.at + Lease                -> "integration_report_stale"
    [] OTHER                                    -> "matching_live_process_report"

HookActive(s, now) == HookReason(s, now) = "matching_live_process_report"

ActivityAuthority(s, now) ==
  LET stands == ScreenFallback /\ ~HookActive(s, now)
      kept   == RetainActivity /\ HookReason(s, now) = "integration_report_stale"
  IN  IF ScreenPolicy \/ (stands /\ ~kept) THEN "screen" ELSE "hook"

-----------------------------------------------------------------------------
(* The terminal. A location names a multiplexer, its server and a pane, "" *)
(* when the session has none. answers says what the multiplexer does when  *)
(* it is asked: which panes it lists, whether the capture and the loading  *)
(* of the detection manifest succeed, and what the manifest reads in it.   *)

Locations ==
  [kind : {"tmux"}, server : {"", "default", "other"}, pane : {"", "%1"}]
  \cup [kind : {"zellij", "unknown"}, server : {""}, pane : {"%1"}]

Answers ==
  [panes : {{}, {<<"default", "%1">>}, {<<"other", "%1">>}}, lists : BOOLEAN,
   captures : BOOLEAN, loads : BOOLEAN, act : {"busy", "idle"}]

Server(id) == IF id = "" THEN "default" ELSE id

SameTmuxServer(left, right) == Server(left) = Server(right)

\* A screen that was not evaluated.
NotEvaluated(error) == [evaluated |-> FALSE, act |-> "unknown", error |-> error]

EvaluateSnapshotText(a) ==
  IF a.loads THEN [evaluated |-> TRUE, act |-> a.act, error |-> "none"]
  ELSE NotEvaluated("manifest")

EvaluateNonTmuxLiveScreen(loc, a) ==
  IF loc.kind = "unknown" THEN NotEvaluated("unsupported")
  ELSE IF ~a.captures THEN NotEvaluated("capture")
  ELSE EvaluateSnapshotText(a)

EvaluateTmuxLiveScreen(loc, a) ==
  IF ~a.lists THEN NotEvaluated("list")
  ELSE IF ~\E p \in a.panes : p[2] = loc.pane /\ SameTmuxServer(p[1], loc.server)
  THEN NotEvaluated("not live")
  ELSE IF ~a.captures THEN NotEvaluated("capture")
  ELSE EvaluateSnapshotText(a)

EvaluateLiveScreen(loc, a) ==
  IF loc.kind = "tmux" THEN EvaluateTmuxLiveScreen(loc, a)
  ELSE EvaluateNonTmuxLiveScreen(loc, a)

-----------------------------------------------------------------------------
(* The explanation.                                                        *)

Shown(act) == IF act = "none" THEN "unknown" ELSE act

\* buildBaseExplanation: the stored state, judged now.
BuildBaseExplanation(s, now, authority) ==
  [authority |-> authority, final |-> Shown(s.act), hook |-> HookReason(s, now),
   fallback |-> IF authority = "screen" /\ ~ScreenPolicy THEN HookReason(s, now) ELSE "",
   screen |-> NotEvaluated("none"), unavailable |-> ""]

\* evaluateExplanationScreen, applied to the explanation.
EvaluateExplanationScreen(e, loc, a) ==
  LET read == EvaluateLiveScreen(loc, a)
  IN  IF e.authority # "screen" THEN e
      ELSE IF loc.pane = "" THEN [e EXCEPT !.unavailable = "no_live_pane", !.final = "unknown"]
      ELSE [e EXCEPT !.screen = read, !.final = read.act]

ExplainSession(s, now, loc, a) ==
  EvaluateExplanationScreen(
    BuildBaseExplanation(s, now, ActivityAuthority(s, now)), loc, a)

\* The explanation says that it could not look.
Blind(e) == e.unavailable # "" \/ e.screen.error # "none"

-----------------------------------------------------------------------------
(* The rules of registrycheck.                                             *)


\* project: what the rules look at.
Project(s) ==
  [process |-> s.process, incarnationProcess |-> s.inc.proc, incarnation |-> s.inc.state,
   evidenceAt |-> s.inc.evAt, transitionAt |-> s.inc.trAt, previousProcess |-> s.inc.prev,
   decisionAt |-> s.decAt, presence |-> s.presence, activity |-> s.act,
   nativeEnded |-> s.native.life = "end"]

TerminalIncarnation(state) == state \in {"ended", "exited"}

\* sessionStateViolations.
SessionStateValid(x) ==
  /\ x.presence = "gone" => x.activity = "none"
  /\ x.nativeEnded => x.presence = "gone" /\ x.activity = "none"

\* incarnationViolations.
IncarnationValid(x) ==
  /\ x.presence = CASE x.incarnation = "live" -> "live"
                    [] TerminalIncarnation(x.incarnation) -> "gone"
                    [] OTHER -> "unknown"
  /\ x.process = x.incarnationProcess

\* Verification: presence is not revived and a bound process is left alone.
VerificationValid(before, after) ==
  /\ (before.presence = "gone" \/ before.process # NoProc) => after.presence = before.presence
  /\ before.presence # "live" => after.presence # "live"

\* terminalTimeInvariant.
TerminalTimeValid(before, after, o) ==
  TerminalIncarnation(before.incarnation) /\ TerminalIncarnation(after.incarnation)
    /\ before.process = after.process => after.transitionAt >= before.transitionAt

\* retiredProcessInvariant.
RetiredProcessValid(before, after, o) ==
  before.previousProcess # NoProc /\ before.previousProcess = o.proc /\ before.process # o.proc
    => after.process = before.process

\* ownProcessTerminalEvent.
OwnProcessTerminalEvent(o, x) ==
  \/ Absent(o) /\ o.proc = x.process
  \/ Ends(o) /\ o.proc \in {x.process, NoProc}

\* ownProcessTerminalInvariant.
OwnProcessTerminalValid(before, after, o) ==
  OwnProcessTerminalEvent(o, before) =>
    IF o.at < before.evidenceAt THEN after = before
    ELSE after.presence = "gone" /\ after.activity = "none"

\* oldProcessEndInvariant.
OldProcessEndValid(before, after, o) ==
  Ends(o) /\ o.proc # NoProc /\ before.process # NoProc /\ o.proc # before.process
    => after.process = before.process /\ after.incarnation = before.incarnation

\* exitEvidenceInvariant.
ExitEvidenceValid(before, after, o) ==
  Absent(o) /\ after.process = before.process => after.evidenceAt = before.evidenceAt

\* processEvidenceTimeInvariant.
ProcessEvidenceTimeValid(before, after, o) ==
  before.process # after.process /\ before.process # NoProc => o.at >= before.evidenceAt

\* activityDecisionTimeInvariant.
ActivityDecisionTimeValid(before, after, o) ==
  /\ before.process = after.process /\ ~TerminalIncarnation(before.incarnation)
  /\ after.presence # "gone"
  => after.decisionAt >= before.decisionAt

\* Transition: all of them.
TransitionValid(before, after, o) ==
  /\ TerminalTimeValid(before, after, o) /\ RetiredProcessValid(before, after, o)
  /\ OwnProcessTerminalValid(before, after, o) /\ OldProcessEndValid(before, after, o)
  /\ ExitEvidenceValid(before, after, o) /\ ProcessEvidenceTimeValid(before, after, o)
  /\ ActivityDecisionTimeValid(before, after, o)

-----------------------------------------------------------------------------
(* Properties.                                                             *)

\* What aht info shows of a live session as its effective activity is what the
\* registry holds once the tracker has recorded the same screen at the same
\* moment: the explanation and the reducer agree on who decides, whatever was
\* observed before in whatever order, or the explanation says that it could not
\* read the screen. (A reading of this moment already recorded, and a report
\* whose stored time runs ahead of the clock, are excepted: the reducer then
\* keeps what it has.)
ExplainPredicts ==
  session.presence = "live" /\ session.process # NoProc
  /\ session.screen.at < Now /\ session.decAt <= Now =>
    \A loc \in Locations, a \in Answers :
      LET e == ExplainSession(session, Now, loc, a) IN
        \/ Blind(e) /\ e.final = "unknown"
        \/ e.final = Reduce(session, Reading(session.process, Now, a.act)).session.act

\* Right after a report of what the agent does, from the process the session is
\* then bound to, the explanation follows the hook and shows that activity,
\* whatever the screen says (unless the screen is the policy's authority).
ReportIsExplained ==
  \A o \in {x \in Reports(Now) : x.act # "none"} :
    LET r == Reduce(session, o) IN
      r.out = "saved" /\ r.session.native.at = Now /\ r.session.decAt = Now
      /\ r.session.native.proc = r.session.process
      /\ r.session.presence # "gone" /\ ~ScreenPolicy =>
        \A loc \in Locations, a \in Answers :
          LET e == ExplainSession(r.session, Now, loc, a) IN
            e.authority = "hook" /\ e.final = o.act /\ ~Blind(e)


\* Every observation that may reach a reachable session, early, late or twice, passes
\* the rules of registrycheck.Transition, unless it is refused as a conflict.
TransitionsPass ==
  Exists(session) =>
    \A o \in {x \in Inbox : x.kind # "verification"} :
      LET r == Reduce(session, o)
      IN r.out # "conflict" => TransitionValid(Project(session), Project(r.session), o)

\* A verification of a session passes registrycheck.Verification, and the session it
\* leaves passes registrycheck.Sessions, as does every session another process takes over.
VerificationsPass ==
  Exists(session) =>
    /\ \A o \in {x \in Inbox : x.kind = "verification"} :
         LET r == Reduce(session, o)
         IN /\ VerificationValid(Project(session), Project(r.session))
            /\ IncarnationValid(Project(r.session)) /\ SessionStateValid(Project(r.session))
    /\ \A o \in Takeovers :
         LET r == Retire(session, o, TRUE).session
         IN IncarnationValid(Project(r)) /\ SessionStateValid(Project(r))
=============================================================================
