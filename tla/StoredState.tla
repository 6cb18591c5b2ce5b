----------------------------- MODULE StoredState -----------------------------
(***************************************************************************)
(* What the registry will store. Every observation is validated when it    *)
(* comes in (evidence_validation.go), reduced (Lifecycle.tla), and the     *)
(* session it leads to is validated again before it is written and         *)
(* whenever it is loaded (state_validation.go): a session that fails there *)
(* makes the store corrupt and the command is refused. Beside the session  *)
(* the module keeps what Lifecycle.tla leaves out and the second           *)
(* validation looks at: the detail of an activity (what is waited for, why *)
(* it failed), as the last report gave it and as readers see it            *)
(* (detail.go), and the authority of the decision on display.              *)
(*                                                                         *)
(* Times of observations are those of the reporter's clock and may lie     *)
(* ahead of the registry's. Reports are not numbered.                      *)
(***************************************************************************)
EXTENDS Lifecycle

CONSTANTS
  MaxTime,      (* bound: the registry's clock                             *)
  Skew,         (* how far a reporter's clock runs ahead                   *)
  Kinds,        (* kinds of observation that arrive                        *)
  Activities,   (* activities that are reported and read                   *)
  Details,      (* details that reports carry                              *)
  Takeovers     (* the process may report another session                  *)

StoredAssumption ==
  /\ MaxTime \in Nat /\ Skew \in Nat /\ Takeovers \in BOOLEAN
  /\ Kinds \subseteq {"report", "sighting", "reading", "verification"}
  /\ Activities \subseteq {"waiting", "failed", "idle"}
  /\ Details \subseteq {"question", "usage_limit", "clear"}

VARIABLES
  clock,        (* the registry's clock                                    *)
  session,      (* the session (Lifecycle.tla)                             *)
  detail,       (* Observations.Native.Detail                              *)
  by,           (* Decision().Authority, "none" without a decision         *)
  shown,        (* Session.Detail                                          *)
  refused,      (* the last command was refused: the store is corrupt      *)
  said          (* history: activity and detail of the last report that    *)
                (* named an activity, within the incarnation               *)

vars == <<clock, session, detail, by, shown, refused, said>>

NoDetail  == [value |-> "none", at |-> 0]
NoShown   == [value |-> "none", quality |-> "none", authority |-> "none", at |-> 0]
NothingSaid == [act |-> "none", value |-> "none"]

Init ==
  /\ clock = 1 /\ session = NewSession /\ detail = NoDetail /\ by = "none"
  /\ shown = NoShown /\ refused = FALSE /\ said = NothingSaid

-----------------------------------------------------------------------------
(* Details (detail.go).                                                    *)

DetailActivity(act) == act \in {"waiting", "failed"}

ValidFor(value, act) ==
  CASE act = "waiting" -> value = "question"
    [] act = "failed"  -> value \in {"general", "usage_limit"}
    [] OTHER           -> FALSE

\* retainNativeDetail.
RetainNativeDetail(s, prior, o) ==
  /\ prior.native.at # 0 /\ detail # NoDetail /\ ~NativeEnded(prior)
  /\ o.proc # NoProc /\ prior.native.proc = o.proc /\ s.presence # "gone"

\* Mutant: a report that waits again keeps the question of the last one.
NativeDetailRenewed(s, prior, o, at) ==
  IF o.value \notin {"none", "clear"} THEN [value |-> o.value, at |-> at]
  ELSE IF RetainNativeDetail(s, prior, o) /\ ValidFor(detail.value, o.act) THEN detail
  ELSE NoDetail

\* nativeDetail. s is the session once the report is committed, prior the one it
\* is stored into.
NativeDetail(s, prior, o, at) ==
  IF Ends(o) \/ Starts(o) \/ o.value = "clear" THEN NoDetail
  ELSE IF o.value # "none"
  THEN [value |-> o.value, at |-> IF o.valueAt # 0 THEN o.valueAt ELSE at]
  ELSE IF o.act = "failed" THEN [value |-> "general", at |-> at]
  ELSE IF o.act = "none" /\ RetainNativeDetail(s, prior, o) THEN detail
  ELSE NoDetail

\* What the screen rules say beside the activity they read.
ScreenDetail(act) == IF act = "waiting" THEN "question" ELSE "none"

\* selectedDetail, matchingNativeDetail.
SelectedDetail(s, d, authority) ==
  CASE authority = "hook" ->
         IF s.native.at = 0 \/ s.native.proc # s.process \/ NativeEnded(s) THEN NoDetail ELSE d
    [] authority = "screen" ->
         IF s.screen.at # 0 /\ s.screen.proc = s.process /\ s.screen.act = s.act
            /\ ScreenDetail(s.act) # "none"
         THEN [value |-> ScreenDetail(s.act), at |-> s.screen.at] ELSE NoDetail
    [] OTHER -> NoDetail

\* invalidHookTimeReason is empty.
Recent(at, now) == at <= now /\ now <= at + Lease

\* resolveDetail.
ResolveDetail(s, d, authority, now) ==
  LET e       == SelectedDetail(s, d, authority)
      used    == e # NoDetail /\ ValidFor(e.value, s.act)
      without == [value |-> IF s.act = "failed" THEN "general" ELSE "none", at |-> 0,
                  quality |-> IF authority = "process" /\ s.act # "failed"
                              THEN "unsupported" ELSE "missing",
                  authority |-> authority]
  IN  IF s.presence # "live" \/ ~DetailActivity(s.act) THEN NoShown
      ELSE IF authority = "none" \/ s.process = NoProc \/ s.decProc # s.process
      THEN [NoShown EXCEPT !.quality = "missing"]
      ELSE IF ~used THEN without
      ELSE [value |-> e.value, at |-> e.at, authority |-> authority,
            quality |-> IF Recent(e.at, now) THEN "current" ELSE "stale"]

-----------------------------------------------------------------------------
(* The two validations.                                                    *)

\* Observation.Validate, validateReport, validReportDetail.
Validate(o) ==
  /\ o.at # 0
  /\ ~(o.life = "end" /\ o.act # "none")
  /\ o.value \notin {"none", "clear"} => ValidFor(o.value, o.act)
  /\ o.valueAt # 0 => o.value \notin {"none", "clear"} /\ o.valueAt <= o.at

\* storedIncarnationCorruption, incarnationProcessMatches.
StoredIncarnationValid(s) ==
  /\ NativeEnded(s) => s.presence = "gone"
  /\ s.presence = CASE s.inc.state = "starting" -> "unknown"
                    [] s.inc.state = "live"     -> "live"
                    [] OTHER                    -> "gone"
  /\ s.inc.proc = s.process

\* validStoredNativeObservation, validDetailEvidence.
ValidStoredNativeObservation(s, d) ==
  d # NoDetail => d.at # 0 /\ ValidFor(d.value, s.native.act) /\ d.at <= s.native.at

\* validStateDetail.
ValidStateDetail(st, act) ==
  st # NoShown =>
    /\ DetailActivity(act)
    /\ st.value # "none" => ValidFor(st.value, act)
    /\ IF st.quality \in {"current", "stale"}
       THEN st.value # "none" /\ st.at # 0 /\ st.authority # "none"
       ELSE st.at = 0 /\ st.value \in {"none", "general"}

\* storedSessionCorruption finds nothing, and neither does the decoder of the
\* liveness (UnmarshalJSON).
StoredSessionValid(s, d, authority, st) ==
  /\ StoredIncarnationValid(s)
  /\ (s.presence = "gone") = (s.act = "none")
  /\ authority # "none" => s.decAt # 0
  /\ ValidStateDetail(st, s.act)
  /\ ValidStoredNativeObservation(s, d)

-----------------------------------------------------------------------------
(* Reducing an observation.                                                *)

Min2(a, b) == IF a < b THEN a ELSE b

\* observationTime: nothing is observed after it is received.
Clamped(o) == [o EXCEPT !.at = Min2(o.at, clock)]

\* The session the report is stored into: a reset drops the earlier reports.
Prior(o, action) == IF Resets(action) THEN [session EXCEPT !.native = NoNative] ELSE session

\* sequencedObservationTime: the detail is part of what makes a report of the
\* same time a different one.
StoredAt(o, p) ==
  IF /\ Sequenced(p, o) /\ o.at = p.native.at /\ Equivalent(p, o, o.at)
     /\ NativeDetail(session, p, o, o.at) # detail
  THEN o.at + 1
  ELSE SequencedTime(p, o)

\* The activity is decided by this observation (lifecycleMachine.apply).
Decides(s, o, at) ==
  CASE o.kind = "report"  -> s.native.act # "none" /\ ~ScreenPolicy /\ AcceptsActivity(s, at)
    [] o.kind = "reading" -> /\ s.process # NoProc /\ s.screen.proc = s.process
                             /\ AcceptsActivity(s, at) /\ ScreenDecides(s, at)
    [] OTHER              -> o.kind = "verification"

\* The authority of the decision: commit's, then apply's. c is the session once
\* the transition is committed.
DecidedBy(o, action, at, c) ==
  IF Decides([Store(c, o, at) EXCEPT !.process = IF o.proc # NoProc THEN o.proc ELSE @], o, at)
  THEN CASE o.kind = "report" -> "hook" [] o.kind = "reading" -> "screen" [] OTHER -> "process"
  ELSE IF Finishes(o, action) THEN IF c.replaced THEN by ELSE "process"
  ELSE IF ~Resets(action) THEN by
  ELSE IF c.inc.proc = NoProc THEN "none" ELSE "process"

\* Nothing changes.
Same(out) == [out |-> out, session |-> session, detail |-> detail, by |-> by, shown |-> shown]

Changed(s, d, b) ==
  [out |-> "saved", session |-> s, detail |-> d, by |-> b, shown |-> ResolveDetail(s, d, b, clock)]

\* applyObservation made r of the session, which stored its reports in p.
Applied(o, action, at, p, r) ==
  IF r.out # "saved" \/ r.session = session THEN Same(r.out)
  ELSE Changed(r.session,
               IF o.kind = "report" THEN NativeDetail(r.session, p, o, at)
               ELSE IF Resets(action) THEN NoDetail ELSE detail,
               DecidedBy(o, action, at, Commit(session, o, action, at)))

AcceptedAt(o, action, p, at) == Applied(o, action, at, p, ApplyObservation(session, o, action, at))
AcceptedIn(o, action, p) == AcceptedAt(o, action, p, StoredAt(o, p))

\* reduceSession with applyObservation; a verification creates no session.
Reduction(o) ==
  LET action == Decide(session, o, FALSE)
  IN  IF (~Exists(session) /\ o.kind = "verification") \/ ~Accepted(action) THEN Same("dropped")
      ELSE AcceptedIn(o, action, Prior(o, action))

\* retireConflictingProcessSessions: this session's process reported another
\* one. The detail readers see is not resolved again.
Retirement(o) ==
  LET r == Retire(session, o, TRUE)
  IN  [Same(r.out) EXCEPT !.session = r.session, !.by = "hook"]

\* commandLocked: what the reduction leads to is validated and stored, or the
\* command is refused.
Command(r) ==
  LET valid == StoredSessionValid(r.session, r.detail, r.by, r.shown)
  IN  /\ refused' = (r.out = "saved" /\ ~valid)
      /\ IF r.out = "saved" /\ valid
         THEN session' = r.session /\ detail' = r.detail /\ by' = r.by /\ shown' = r.shown
         ELSE UNCHANGED <<session, detail, by, shown>>

-----------------------------------------------------------------------------
(* Actions.                                                                *)

With(o, value, valueAt) == [kind |-> o.kind, proc |-> o.proc, at |-> o.at, life |-> o.life,
  claim |-> o.claim, act |-> o.act, seq |-> o.seq, present |-> o.present,
  value |-> value, valueAt |-> valueAt]

Times == 1..(clock + Skew)

\* A hook reports the start, what the agent does now, or the end.
Starting == {With(Report(p, t, "start", "live", act, 0), "none", 0) :
               p \in Procs \cup {NoProc}, t \in Times, act \in {"none"} \cup Activities}
Turns    == {With(Report(p, t, "none", claim, act, 0), value, valueAt) :
               p \in Procs \cup {NoProc}, t \in Times, claim \in {"none", "live"},
               act \in {"none"} \cup Activities, value \in {"none"} \cup Details,
               valueAt \in IF Details = {} THEN {0} ELSE {0, 1, clock + Skew}}
Ending   == {With(Report(p, t, "end", "gone", "none", 0), value, 0) :
               p \in Procs \cup {NoProc}, t \in Times, value \in {"none"} \cup Details}

Reports == Starting \cup Turns \cup Ending

Scans ==
  {With(Sighting(p, t, present), "none", 0) :
     p \in Procs \cap {session.process}, t \in 1..clock, present \in BOOLEAN}

Readings ==
  {With(Reading(p, t, act), "none", 0) :
     p \in Procs \cap {session.process}, t \in 1..clock, act \in Activities}

Checks == {With(Verification(t, c), "none", 0) : t \in 1..clock, c \in {"gone", "unknown"}}

Tick == clock < MaxTime /\ clock' = clock + 1 /\ UNCHANGED <<session, detail, by, shown, refused, said>>

Said(o) ==
  said' = IF session' = session THEN said
          ELSE IF IsReport(o) /\ o.act # "none" THEN [act |-> o.act, value |-> o.value]
          ELSE IF session'.inc.proc # session.inc.proc THEN NothingSaid
          ELSE said

RecordReport ==
  /\ "report" \in Kinds
  /\ \E o \in {x \in Reports : Validate(x)} : Command(Reduction(Clamped(o))) /\ Said(o)
  /\ UNCHANGED clock

RecordScan ==
  /\ \E o \in {x \in Scans \cup Readings \cup Checks : x.kind \in Kinds} :
       Command(Reduction(o)) /\ Said(o)
  /\ UNCHANGED clock

\* Another session is reported by this session's process.
Taken ==
  /\ Takeovers /\ session.process # NoProc
  /\ \E t \in 1..clock :
       Command(Retirement(Report(session.process, t, "start", "live", "none", 0)))
  /\ UNCHANGED <<clock, said>>

\* refreshDetailsLocked, after every drain of the journal.
RefreshDetails ==
  /\ shown' = ResolveDetail(session, detail, by, clock)
  /\ UNCHANGED <<clock, session, detail, by, refused, said>>

Next == Tick \/ RecordReport \/ RecordScan \/ Taken \/ RefreshDetails

Spec == Init /\ [][Next]_vars

-----------------------------------------------------------------------------
(* Properties.                                                             *)

TypeOK ==
  /\ clock \in 1..MaxTime
  /\ by \in {"none", "hook", "screen", "process"}
  /\ refused \in BOOLEAN
  /\ shown.quality \in {"none", "missing", "unsupported", "current", "stale"}

\* No observation that passed its own validation is refused because of the
\* session it leads to: whatever came before, the reducer only makes sessions
\* that the next load accepts. ErrCorruptStore "means registry persistence
\* contained unreadable or malformed state".
NeverCorrupt == ~refused

\* What readers are told a session waits for, or why it failed, is what the
\* last report that named an activity gave with it: the question of an earlier
\* wait is never shown for a later one, and no detail outlives its activity.
DetailOfThisWait ==
  shown.authority = "hook" /\ shown.value \notin {"none", "general"} =>
    said = [act |-> session.act, value |-> shown.value]
=============================================================================
