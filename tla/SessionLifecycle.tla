-------------------------- MODULE SessionLifecycle --------------------------
(***************************************************************************)
(* One registry session against what really happened.                      *)
(*                                                                         *)
(* `past` is the truth, one entry per moment: which process had the        *)
(* session open, which processes were running, whether the session was     *)
(* started or ended at that moment. Hooks, scans, screen readings and      *)
(* verifications report the truth of some moment, but reach the reducer    *)
(* late, out of order, more than once or not at all: at any time any true  *)
(* observation of any moment may be reduced (Reduce in Lifecycle.tla).     *)
(*                                                                         *)
(* Reports carry the session's identity; scans, readings and placements    *)
(* carry only a process, so they concern this session only while it is     *)
(* bound to that process (findProcessMatchingSession).                     *)
(***************************************************************************)
EXTENDS Lifecycle, Sequences, FiniteSets

CONSTANTS
  MaxTime,      (* bound: moments                                          *)
  Sources,      (* kinds of observation that reach the registry            *)
  Numbered,     (* the integration numbers its reports                     *)
  Bare          (* kinds of report whose hook could not tell its process   *)

ASSUME WorldAssumption ==
  /\ MaxTime \in Nat /\ Numbered \in BOOLEAN
  /\ Bare \subseteq {"start", "turn", "end"}
  /\ Sources \subseteq {"report", "sighting", "reading", "placement", "listing", "verification"}

VARIABLES
  past,         (* the truth                                               *)
  session,      (* the registry's session                                  *)
  exited,       (* history: processes whose exit was reduced while bound   *)
  lastLive      (* history: time of the newest accepted sign of life since *)
                (* the session was last bound to another process           *)

vars == <<past, session, exited, lastLive>>

Moment == [open : Procs \cup {NoProc}, alive : SUBSET Procs,
           mark : {"none", "start", "end"}, by : Procs \cup {NoProc}]

Now   == Len(past)
Today == past[Now]

\* A process start identity never recurs: what has exited is gone for good.
Dead == {p \in Procs : p \notin Today.alive /\ \E t \in 1..Now : p \in past[t].alive}

Init ==
  /\ \E p \in Procs : past = << [open |-> p, alive |-> {p}, mark |-> "start", by |-> p] >>
  /\ session = NewSession
  /\ exited = {} /\ lastLive = 0

-----------------------------------------------------------------------------
(* The world moves on.                                                     *)

Happens(m) == Now < MaxTime /\ past' = Append(past, m) /\ UNCHANGED <<session, exited, lastLive>>

Quiet == Happens([Today EXCEPT !.mark = "none", !.by = NoProc])

\* A process opens the session, whether or not another one still has it open.
StartSession(p) ==
  /\ p \notin Dead /\ p # Today.open
  /\ Happens([open |-> p, alive |-> Today.alive \cup {p}, mark |-> "start", by |-> p])

\* The process closes the session and stays, or exits in the same moment.
EndSession(exits) ==
  /\ Today.open # NoProc
  /\ Happens([open |-> NoProc, mark |-> "end", by |-> Today.open,
              alive |-> IF exits THEN Today.alive \ {Today.open} ELSE Today.alive])

\* A process dies without a word.
Die(p) ==
  /\ p \in Today.alive
  /\ Happens([open |-> IF Today.open = p THEN NoProc ELSE Today.open,
              alive |-> Today.alive \ {p}, mark |-> "none", by |-> NoProc])

-----------------------------------------------------------------------------
(* True observations of moment t.                                          *)

Known(p, k)  == IF k \in Bare THEN NoProc ELSE p
Number(t, k) == IF Numbered THEN 2 * t + k ELSE 0

Reports(t) ==
  LET m == past[t] IN
  IF m.mark = "end"
  THEN {Report(Known(m.by, "end"), t, "end", "gone", "none", Number(t, 1))}
  ELSE {Report(Known(m.by, "start"), t, "start", "live", "none", Number(t, 0)) :
          x \in {"start"} \cap {m.mark}}
       \cup {Report(Known(m.open, "turn"), t, "none", claim, "busy", Number(t, 1)) :
          claim \in IF m.open = NoProc THEN {} ELSE {"none", "live"}}

Scans(t) ==
  {Sighting(p, t, p \in past[t].alive) : p \in UNION {past[i].alive : i \in 1..t}}
  \cup {Observation("placement", p, t) : p \in past[t].alive}
  \cup {Reading(p, t, "idle") : p \in past[t].alive}

Checks(t) == {Verification(t, c) : c \in IF past[t].open = NoProc THEN {"gone", "unknown"} ELSE {"unknown"}}

Listings(t) == {Observation("listing", NoProc, t)}

\* What may reach this session now.
Inbox ==
  UNION {Reports(t) \cup Checks(t) \cup Listings(t)
         \cup {o \in Scans(t) : o.proc = session.process} : t \in 1..Now}

\* A report of another session by a process that does not have this one open.
Takeovers ==
  {Report(session.process, t, "none", "live", "busy", 0) :
     t \in {i \in 1..Now : session.process \in past[i].alive /\ past[i].open # session.process}}

-----------------------------------------------------------------------------
SignOfLife(o) == (IsReport(o) /\ ~Ends(o)) \/ (o.kind = "sighting" /\ o.present)

Note(o, after) ==
  /\ exited' = IF Absent(o) /\ after.presence = "gone" /\ after.process = o.proc
               THEN exited \cup {o.proc} ELSE exited
  /\ lastLive' = IF SignOfLife(o) /\ after # session
                 THEN IF after.inc.proc = session.inc.proc THEN Later(lastLive, o.at) ELSE o.at
                 ELSE lastLive

\* An observation is reduced and, unless it is dropped or conflicts, stored.
Observe(kind) ==
  /\ \E o \in {x \in Inbox : x.kind = kind} :
       session' = Reduce(session, o).session /\ Note(o, session')
  /\ UNCHANGED past

Taken ==
  /\ session.process # NoProc
  /\ \E o \in Takeovers : session' = Retire(session, o, TRUE).session
  /\ UNCHANGED <<past, exited, lastLive>>

Next ==
  \/ Quiet
  \/ \E p \in Procs : StartSession(p) \/ Die(p)
  \/ \E exits \in BOOLEAN : EndSession(exits)
  \/ \E kind \in Sources : Observe(kind)
  \/ Taken

Spec == Init /\ [][Next]_vars

-----------------------------------------------------------------------------
(* Properties.                                                             *)

TypeOK ==
  /\ \A t \in 1..Now : past[t] \in Moment
  /\ session.inc.state \in {"none", "starting", "live", "ended", "exited"}
  /\ {session.inc.proc, session.inc.prev, session.process, session.decProc}
       \subseteq Procs \cup {NoProc}
  /\ session.presence \in {"unknown", "live", "gone"}
  /\ session.act \in {"none", "unknown", "busy", "idle"}
  /\ (session.presence = "gone") = (session.act = "none")
  /\ exited \subseteq Procs

\* Whatever arrives in whatever order, the session stays one that the next load
\* of the snapshot accepts (validateSnapshot, storedIncarnationCorruption):
\* incarnation and liveness agree, both name the same process, and a stored
\* native end is terminal.
StoredStateValid ==
  Exists(session) =>
    /\ session.presence = CASE session.inc.state = "starting" -> "unknown"
                             [] session.inc.state = "live"     -> "live"
                             [] Terminal(session)              -> "gone"
    /\ session.process = session.inc.proc
    /\ NativeEnded(session) => session.presence = "gone"

\* The time of the incarnation's evidence never lies ahead of the clock, even
\* when reports are numbered and their stored times run ahead of it
\* (reduceSession: "Sequence clocks must not become evidence for cross-process
\* ordering").
NoFutureEvidence == session.inc.evAt <= Now /\ session.inc.trAt <= Now

\* A scan that finds the bound process gone right now always ends the session:
\* no earlier report, however dated, numbered or delivered, can hide an exit
\* (TestProcessExitEndsSessionAfterFutureDatedReport).
ExitEnds ==
  session.process \in Procs \ Today.alive =>
    Reduce(session, Sighting(session.process, Now, FALSE)).session.presence = "gone"

\* The start report of the process that opens the session at this moment always
\* makes the session live and binds it to that process, whatever was delivered
\* before (a later numbered report excepted, see OnlyOldNumbersConflict); only
\* the process replaced last is never believed again (previousProcess).
StartIsHeard ==
  Today.mark = "start" /\ Today.by # session.inc.prev =>
    \A o \in {x \in Reports(Now) : Starts(x)} :
      LET r == Reduce(session, o) IN
        \/ r.out = "conflict"
        \/ r.session.presence = "live" /\ r.session.inc.proc = Today.by

\* The process the session is bound to did not have it open at moment t.
Closed(t) == IF session.inc.proc = NoProc THEN past[t].open = NoProc
             ELSE past[t].open # session.inc.proc

\* A session is called gone only if its process had really let go of it at some
\* moment no earlier than the newest accepted sign of life: delayed ends, exit
\* scans, takeovers and verifications do not overwrite newer evidence
\* (TestDelayedGoneEvidenceDoesNotOverwriteNewerLivePresence).
GoneIsTrue ==
  session.presence = "gone" => \E t \in 1..Now : t >= lastLive /\ Closed(t)

\* Once the exit of its process was reduced, a session is not alive in that
\* process again, whatever start or activity report of it is still under way
\* (TestStaleNativeStartDoesNotReviveGoneSession).
ExitIsFinal == session.inc.proc \in exited => session.presence = "gone"

\* An activity on display was observed in the process the session is bound to,
\* never in one it was bound to before (TestProcessReplacementClearsScreenActivity).
ActivityIsOwn ==
  session.act \in {"busy", "idle"} => session.decProc = session.process

\* True observations never conflict with each other, only an old report of a
\* numbering integration does: a conflict fails the whole batch.
OnlyOldNumbersConflict ==
  \A o \in Inbox : Reduce(session, o).out = "conflict" =>
    IsReport(o) /\ o.seq # 0 /\ o.seq <= session.native.seq

\* While a session stays bound to a process, the time of its newest evidence
\* does not move back.
EvidenceNeverRegresses ==
  [][session'.inc.proc = session.inc.proc => session'.inc.evAt >= session.inc.evAt]_session

\* Within an incarnation the decision on display is never replaced by one about
\* an earlier time (core.activityDecisionTimeInvariant).
DecisionNeverRegresses ==
  [][session'.inc.proc = session.inc.proc /\ ~Terminal(session) /\ session'.presence # "gone"
       => session'.decAt >= session.decAt]_session
=============================================================================
