----------------------------- MODULE Lifecycle -----------------------------
(***************************************************************************)
(* The reducer of pkg/registry for one session: which incarnation (process *)
(* lifetime) a session is in, and what an observation changes about it.    *)
(* lifecycle.go decides the transition of the incarnation, reducer.go and  *)
(* evidence_store.go order observations per source slot and by reporter    *)
(* sequence, authority.go decides whether the hook or the screen says what *)
(* the agent is doing.                                                     *)
(*                                                                         *)
(* Data. A time is a number, 0 is time.Time's zero value. A process is a   *)
(* complete ProcessIdentity or NoProc. A sequence number 0 means none. All *)
(* reports come from the integration the policy names, and metadata that   *)
(* decides nothing (working directory, resume command, pane, payload,      *)
(* activity detail) is left out.                                           *)
(***************************************************************************)
EXTENDS Naturals

CONSTANTS
  Procs,            (* complete process identities                         *)
  NoProc,           (* the zero ProcessIdentity, or a nil pointer to one   *)
  ScreenPolicy,     (* Policy.Authority is screen, not hook                *)
  ScreenFallback,   (* Policy.ScreenFallback                               *)
  RetainActivity,   (* Policy.RetainNativeActivity                         *)
  CatalogCreates,   (* Policy.CatalogCreates                               *)
  Lease             (* IntegrationActivityLease                            *)

ASSUME ProcAssumption == NoProc \notin Procs
ASSUME PolicyAssumption ==
  /\ {ScreenPolicy, ScreenFallback, RetainActivity, CatalogCreates} \subseteq BOOLEAN
  /\ Lease \in Nat

Later(a, b) == IF a > b THEN a ELSE b

-----------------------------------------------------------------------------
(* Observations: kind, process, time, and for a report what it claims.     *)

Observation(kind, proc, at) ==
  [kind |-> kind, proc |-> proc, at |-> at, life |-> "none", claim |-> "none",
   act |-> "none", seq |-> 0, present |-> FALSE]

Sighting(proc, at, present) ==
  [Observation("sighting", proc, at) EXCEPT !.present = present]
Report(proc, at, life, claim, act, seq) ==
  [Observation("report", proc, at) EXCEPT !.life = life, !.claim = claim,
                                          !.act = act, !.seq = seq]
Reading(proc, at, act) == [Observation("reading", proc, at) EXCEPT !.act = act]
Verification(at, presence) == [Observation("verification", NoProc, at) EXCEPT !.claim = presence]

IsReport(o) == o.kind = "report"
Ends(o)     == IsReport(o) /\ (o.claim = "gone" \/ o.life = "end")
Starts(o)   == IsReport(o) /\ o.life = "start"
Absent(o)   == o.kind = "sighting" /\ ~o.present

-----------------------------------------------------------------------------
(* A session.                                                              *)

NoIncarnation == [state |-> "none", proc |-> NoProc, evAt |-> 0, trAt |-> 0, prev |-> NoProc]
NoNative == [at |-> 0, proc |-> NoProc, seq |-> 0, life |-> "none", claim |-> "none", act |-> "none"]
NoScreen == [at |-> 0, proc |-> NoProc, act |-> "none"]
NoSight  == [at |-> 0, proc |-> NoProc, present |-> FALSE]

\* newSession. presence, act and the decision are the Liveness sum type; the
\* slots (native, screen, sight, place, list) are Session.Observations.
NewSession ==
  [inc |-> NoIncarnation, process |-> NoProc,
   presence |-> "unknown", act |-> "unknown", decAt |-> 0, decProc |-> NoProc,
   replaced |-> FALSE,
   native |-> NoNative, screen |-> NoScreen, sight |-> NoSight, place |-> 0, list |-> 0]

Exists(s)   == s.inc.state # "none"
NativeEnded(s) == s.native.claim = "gone" \/ s.native.life = "end"
Terminal(s) == s.inc.state \in {"ended", "exited"}

-----------------------------------------------------------------------------
(* transitionIncarnation: the first rule that matches decides.             *)

Different(s, o) == o.proc # NoProc /\ s.inc.proc # NoProc /\ o.proc # s.inc.proc

VerificationRejected(s, o) ==
  Terminal(s) \/ s.inc.proc # NoProc \/ o.at < s.inc.evAt \/ o.at < s.decAt

ReplacementRejected(s, o) ==
  \/ o.proc = s.inc.prev
  \/ Ends(o) \/ Absent(o)
  \/ o.kind \in {"reading", "placement"}
  \/ o.at < s.inc.evAt

BindsTerminalProcess(s, o) ==
  Terminal(s) /\ s.inc.proc = NoProc /\ o.proc # NoProc /\ IsReport(o) /\ ~Ends(o)
  /\ o.at >= s.inc.evAt

\* Mutant: a start resumes the session however old it is.
ResumesTerminalAnyTime(s, o) == Terminal(s) /\ Starts(o)

ResumesTerminal(s, o) ==
  Terminal(s) /\ Starts(o) /\ o.at > Later(s.inc.evAt, s.inc.trAt)

\* Mutant: no terminal evidence is too old.
TerminalNeverStale(s, o) == FALSE

TerminalStale(s, o) == (Ends(o) \/ Absent(o)) /\ o.at < s.inc.evAt

TerminalRejected(s, o) == Terminal(s) /\ ~Ends(o) /\ ~Absent(o)

Decide(s, o, retire) ==
  IF o.kind = "verification"
  THEN IF VerificationRejected(s, o) THEN "reject" ELSE "verify"
  ELSE IF retire
  THEN IF Ends(o) THEN "ignore" ELSE IF o.at < s.inc.evAt THEN "reject" ELSE "retire"
  ELSE IF Different(s, o)
  THEN IF ReplacementRejected(s, o) THEN "reject" ELSE "replace"
  ELSE IF TerminalStale(s, o)        THEN "reject"
  ELSE IF BindsTerminalProcess(s, o) THEN "bind"
  ELSE IF ResumesTerminal(s, o)      THEN "resume"
  ELSE IF TerminalRejected(s, o)     THEN "reject"
  ELSE "continue"

Accepted(action) == action \notin {"reject", "ignore"}
Resets(action)   == action \in {"replace", "bind", "resume"}

\* The incarnation before the evidence is applied to it.
Begun(s, o, action) ==
  CASE action = "replace" -> [NoIncarnation EXCEPT !.state = "starting", !.proc = o.proc,
                                                   !.prev = s.inc.proc]
    [] action = "bind"    -> [NoIncarnation EXCEPT !.state = "live", !.proc = o.proc]
    [] action = "resume"  -> [NoIncarnation EXCEPT !.state = "starting", !.proc = s.inc.proc,
                                                   !.prev = s.inc.prev]
    [] OTHER              -> [s.inc EXCEPT !.state = IF @ = "none" THEN "starting" ELSE @]

\* ownProcessEvidence: "Exit scans are not evidence that the old process was
\* still running."
OwnProcessEvidence(o, n) ==
  \/ IsReport(o) /\ n.proc = NoProc
  \/ o.proc # NoProc /\ o.proc = n.proc /\ ~Absent(o)

\* Mutant: the newest observation's time wins, not the latest time.
EvidenceTimeOverwritten(n, o) == o.at

\* The time of the newest evidence.
EvidenceTime(n, o) == Later(n.evAt, o.at)

\* applyEvidence.
ApplyEvidence(s, o, action) ==
  LET b == Begun(s, o, action)
      n == [b EXCEPT !.proc = IF o.proc # NoProc THEN o.proc ELSE @,
                     !.trAt = IF @ = 0 THEN o.at ELSE @]
      m == CASE Ends(o) ->
                  [n EXCEPT !.state = "ended", !.trAt = Later(s.inc.trAt, o.at)]
             [] Absent(o) ->
                  [n EXCEPT !.state = "exited", !.trAt = Later(s.inc.trAt, o.at)]
             [] o.kind = "sighting" /\ o.present ->
                  [n EXCEPT !.state = "live", !.trAt = Later(@, o.at)]
             [] IsReport(o) /\ ~Ends(o) /\ o.claim # "none" /\ o.at >= n.trAt ->
                  [n EXCEPT !.state = IF o.claim = "live" THEN "live" ELSE "starting",
                            !.trAt = o.at]
             [] OTHER ->
                  IF action = "replace" /\ IsReport(o) THEN [n EXCEPT !.state = "live"] ELSE n
  IN  IF OwnProcessEvidence(o, m) THEN [m EXCEPT !.evAt = EvidenceTime(m, o)] ELSE m

\* incarnationInput.transition.
NextIncarnation(s, o, action) ==
  CASE action = "verify" ->
         [s.inc EXCEPT !.state = IF o.claim = "gone" THEN "exited" ELSE "starting",
                       !.trAt = o.at]
    [] action = "retire" ->
         [s.inc EXCEPT !.state = "exited", !.trAt = Later(@, o.at)]
    [] OTHER -> ApplyEvidence(s, o, action)

\* transition.terminal.
Finishes(o, action) ==
  CASE action = "verify" -> o.claim = "gone"
    [] action = "retire" -> TRUE
    [] OTHER             -> Ends(o) \/ Absent(o)

-----------------------------------------------------------------------------
(* lifecycleMachine.                                                       *)

\* commit's reset: evidence of the earlier incarnation is dropped (the catalog
\* slot stays), activity starts over.
Cleared(s, n, at) ==
  [s EXCEPT !.native = NoNative, !.screen = NoScreen, !.sight = NoSight, !.place = 0,
            !.presence = "unknown", !.act = "unknown", !.replaced = FALSE,
            !.decAt = IF n.proc = NoProc THEN 0 ELSE at, !.decProc = n.proc]

\* The session whose incarnation has become n.
Rebound(s, n) == [s EXCEPT !.inc = n, !.process = IF n.proc # NoProc THEN n.proc ELSE @]

\* Liveness after a terminal transition; a session replaced by another one of its
\* process keeps saying so (replacedTombstone).
Tombstone(s, at) ==
  IF s.replaced THEN s
  ELSE [s EXCEPT !.presence = "gone", !.act = "none", !.decAt = at, !.decProc = s.inc.proc]

\* setPresence for the state of a running incarnation.
Running(s) ==
  [s EXCEPT !.presence = IF s.inc.state = "live" THEN "live" ELSE "unknown",
            !.act = IF @ = "none" THEN "unknown" ELSE @, !.replaced = FALSE]

\* Mutant: a new incarnation keeps the slots and the activity of the old one.
CommitKeepsSlots(s, o, action, at) ==
  LET b == Rebound(s, NextIncarnation(s, o, action))
  IN  IF Finishes(o, action) THEN Tombstone(b, at) ELSE Running(b)

\* Mutant: the end of an incarnation does not clear the activity.
CommitKeepsActivity(s, o, action, at) ==
  LET n == NextIncarnation(s, o, action)
      b == Rebound(IF Resets(action) THEN Cleared(s, n, at) ELSE s, n)
  IN  IF Finishes(o, action) THEN [Tombstone(b, at) EXCEPT !.act = s.act] ELSE Running(b)

\* lifecycleMachine.commit.
Commit(s, o, action, at) ==
  LET n == NextIncarnation(s, o, action)
      b == Rebound(IF Resets(action) THEN Cleared(s, n, at) ELSE s, n)
  IN  IF Finishes(o, action) THEN Tombstone(b, at) ELSE Running(b)

\* Session.nativeActivity: a report without an activity keeps the one its own
\* process reported last.
NativeActivity(s, o) ==
  IF /\ o.act = "none" /\ s.presence # "gone" /\ ~Ends(o)
     /\ s.native.at # 0 /\ ~NativeEnded(s)
     /\ o.proc # NoProc /\ s.process = o.proc /\ s.native.proc = o.proc
  THEN s.native.act
  ELSE o.act

\* storeObservation, sourceSlotTime: the slot of each source.
NativeSlot(s, o, at) ==
  [at |-> at, proc |-> o.proc, seq |-> o.seq, life |-> o.life, claim |-> o.claim,
   act |-> NativeActivity(s, o)]
SightSlot(o, at)  == [at |-> at, proc |-> o.proc, present |-> o.present]
ScreenSlot(o, at) == [at |-> at, proc |-> o.proc, act |-> o.act]

Store(s, o, at) ==
  CASE o.kind = "report"    -> [s EXCEPT !.native = NativeSlot(s, o, at)]
    [] o.kind = "sighting"  -> [s EXCEPT !.sight = SightSlot(o, at)]
    [] o.kind = "reading"   -> [s EXCEPT !.screen = ScreenSlot(o, at)]
    [] o.kind = "placement" -> [s EXCEPT !.place = at]
    [] o.kind = "listing"   -> [s EXCEPT !.list = at]
    [] OTHER                -> s

SlotTime(s, o) ==
  CASE o.kind = "report"    -> s.native.at
    [] o.kind = "sighting"  -> s.sight.at
    [] o.kind = "reading"   -> s.screen.at
    [] o.kind = "placement" -> s.place
    [] o.kind = "listing"   -> s.list
    [] OTHER                -> 0

\* observationEquivalent: storing the observation would change nothing.
Equivalent(s, o, at) == Store(s, o, at) = s

\* Mutant: an older observation may overwrite the decision.
AcceptsActivityAnyTime(s, at) == s.presence # "gone"

\* acceptsActivity.
AcceptsActivity(s, at) == s.presence # "gone" /\ at >= s.decAt

\* EvaluateHook fails for a reason other than age.
HookUnusable(s) ==
  \/ s.native.at = 0
  \/ s.native.act \in {"none", "unknown"}
  \/ NativeEnded(s) \/ s.presence = "gone"
  \/ s.process = NoProc \/ s.native.proc # s.process

\* ActivityAuthority is the screen.
ScreenDecides(s, at) ==
  \/ ScreenPolicy
  \/ /\ ScreenFallback
     /\ \/ HookUnusable(s) \/ s.native.at > at
        \/ at > s.native.at + Lease /\ ~RetainActivity

\* lifecycleMachine.apply: what the accepted observation says about activity.
ApplyActivity(s, o, at) ==
  CASE o.kind = "report" ->
         IF s.native.act # "none" /\ ~ScreenPolicy /\ AcceptsActivity(s, at)
         THEN [s EXCEPT !.act = s.native.act, !.decAt = at, !.decProc = s.native.proc]
         ELSE s
    [] o.kind = "reading" ->
         IF /\ s.process # NoProc /\ s.screen.proc = s.process
            /\ AcceptsActivity(s, at) /\ ScreenDecides(s, at)
         THEN [s EXCEPT !.act = s.screen.act, !.decAt = at, !.decProc = s.screen.proc]
         ELSE s
    [] o.kind = "verification" ->
         [s EXCEPT !.presence = IF o.claim = "gone" THEN "gone" ELSE "unknown",
                   !.act = IF o.claim = "gone" THEN "none" ELSE "unknown",
                   !.decAt = at, !.decProc = NoProc, !.replaced = FALSE]
    [] OTHER -> s

-----------------------------------------------------------------------------
(* Ordering of reports by reporter sequence.                               *)

SameReportProcess(s, o) == o.proc = NoProc \/ o.proc = s.native.proc

\* The reporter's earlier report constrains this one.
Sequenced(s, o) == IsReport(o) /\ s.native.at # 0 /\ SameReportProcess(s, o)

\* duplicateSequencedReport.
Duplicate(s, o) ==
  Sequenced(s, o) /\ o.seq # 0 /\ o.seq = s.native.seq /\ Equivalent(s, o, s.native.at)

\* validateSequenceOrder fails.
OutOfSequence(s, o) == Sequenced(s, o) /\ s.native.seq # 0 /\ o.seq <= s.native.seq

\* sequencedObservationTime: one nanosecond past the previous report if the
\* clock did not advance.
SequencedTime(s, o) ==
  IF ~Sequenced(s, o) THEN o.at
  ELSE IF Duplicate(s, o) THEN s.native.at
  ELSE IF o.seq = 0
       THEN IF o.at = s.native.at /\ ~Equivalent(s, o, o.at) THEN o.at + 1 ELSE o.at
       ELSE IF o.at <= s.native.at THEN s.native.at + 1 ELSE o.at

-----------------------------------------------------------------------------
(* Outcomes: saved (the session to store), dropped or conflict.            *)

Saved(s)    == [out |-> "saved", session |-> s]
Dropped(s)  == [out |-> "dropped", session |-> s]
Conflict(s) == [out |-> "conflict", session |-> s]

\* applyObservation.
ApplyObservation(s, o, action, at) ==
  LET ordered == ~Resets(action) /\ ~Finishes(o, action) /\ SlotTime(s, o) # 0
      stored  == [Store(Commit(s, o, action, at), o, at) EXCEPT
                    !.process = IF o.proc # NoProc THEN o.proc ELSE @]
  IN  IF ordered /\ at < SlotTime(s, o) THEN Dropped(s)
      ELSE IF ordered /\ at = SlotTime(s, o)
           THEN IF Equivalent(s, o, at) THEN Saved(s) ELSE Conflict(s)
      ELSE Saved(ApplyActivity(stored, o, at))

\* Mutant: the time derived from the sequence decides the transition.
ReduceBySequenceClock(s, o) ==
  LET x      == [o EXCEPT !.at = SequencedTime(s, o)]
      action == Decide(s, x, FALSE)
  IN  IF Duplicate(s, o) THEN Saved(s)
      ELSE IF OutOfSequence(s, o) THEN Conflict(s)
      ELSE IF ~Accepted(action) THEN Dropped(s)
      ELSE ApplyObservation(s, x, action, x.at)

\* Mutant: a rejected observation still fills its slot.
ReduceStoresRejected(s, o) ==
  LET action == Decide(s, o, FALSE)
  IN  IF ~Accepted(action) THEN Saved(Store(s, o, o.at))
      ELSE ApplyObservation(s, o, action, o.at)

\* reduceSession (and reduceOne for an observation that may not create one).
Reduce(s, o) ==
  LET action   == Decide(s, o, FALSE)
      baseline == IF Resets(action) THEN [s EXCEPT !.native = NoNative] ELSE s
  IN  IF ~Exists(s) /\ (o.kind = "verification" \/ (o.kind = "listing" /\ ~CatalogCreates))
      THEN Dropped(s)
      ELSE IF Duplicate(baseline, o) THEN Saved(s)
      ELSE IF OutOfSequence(baseline, o) THEN Conflict(s)
      ELSE IF ~Accepted(action) THEN Dropped(s)
      ELSE ApplyObservation(s, o, action, SequencedTime(baseline, o))

\* retireConflictingProcessSessions and reconcileIdentityProcessSessions for a
\* session that the observation shows to have lost its process. taken: the
\* process reported another session.
Retire(s, o, taken) ==
  LET action == Decide(s, o, TRUE)
      gone   == Commit(s, o, action, o.at)
  IN  IF ~Accepted(action) THEN Dropped(s)
      ELSE Saved(IF taken
                 THEN [gone EXCEPT !.replaced = TRUE, !.decAt = o.at, !.decProc = o.proc]
                 ELSE gone)
=============================================================================
