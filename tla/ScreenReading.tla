---------------------------- MODULE ScreenReading ----------------------------
(***************************************************************************)
(* The screen side of the observer (internal/observer/observer.go): in a   *)
(* cycle it takes the time, lists the panes and the sessions, captures the *)
(* pane of an agent whose hooks do not tell what it does, lets the rules   *)
(* decide what the screen shows and records the reading. The screen is     *)
(* redrawn, the agent moves between panes and reports through its hooks    *)
(* between any two of these steps; captures, listings and recordings fail. *)
(*                                                                         *)
(* The registry is Lifecycle's reducer. One agent runs at a time and has   *)
(* one session; a new process of it begins a new one.                      *)
(***************************************************************************)
EXTENDS Lifecycle, FiniteSets, Sequences, TLC

CONSTANTS
  Continuous,      (* Observer.continuous: Run, not RunOnce                *)
  Status,          (* the multiplexer tells the activity itself            *)
  Inspect,         (* screen inspection is not disabled                    *)
  CycleTime,       (* bound: how long a cycle takes, less than the lease   *)
  MaxTime,         (* bound: the clock                                     *)
  MaxChanges       (* bound: redraws, moves, reports, restarts and faults  *)

ScreenAssumption ==
  /\ {Continuous, Status, Inspect} \subseteq BOOLEAN /\ {CycleTime, MaxTime, MaxChanges} \subseteq Nat
  /\ CycleTime <= Lease

VARIABLES
  clock,
  shown,      (* what the pane shows: the rule that matches, or "redraw"   *)
  place,      (* "front" or "back" of a pane, or "outside" of one          *)
  cur,        (* the process of the agent                                  *)
  past,       (* its earlier processes                                     *)
  session,    (* its session in the registry                               *)
  pending,    (* Observer.screenPending                                    *)
  cycle,      (* the running cycle                                         *)
  caught,     (* history: the last two decisions about this process        *)
  calm,       (* history: cycles that left it to the screen since the      *)
              (* last change or fault                                      *)
  changes

vars == <<clock, shown, place, cur, past, session, pending, cycle, caught, calm, changes>>

Screens == {"working", "spinner", "prompt", "redraw"}

\* The activity of the rule that matches; no rule matches a redraw.
ActivityOf(screen) ==
  CASE screen \in {"working", "spinner"} -> "running"
    [] screen = "prompt" -> "waiting"
    [] OTHER -> "unknown"

Known(act)  == act \notin {"none", "unknown"}
NoPending   == [proc |-> NoProc, said |-> <<"none", "none">>, n |-> 0]
IdleCycle   == [pc |-> "idle"]
Decision(rule, screen, at) == [rule |-> rule, act |-> ActivityOf(screen), at |-> at]
NoDecision  == Decision("none", "redraw", 0)

Init ==
  /\ clock = 1 /\ shown \in Screens /\ place \in {"front", "outside"} /\ cur \in Procs /\ past = {}
  /\ session = NewSession /\ pending = NoPending /\ cycle = IdleCycle
  /\ caught = <<>> /\ calm = 0 /\ changes = 0

-----------------------------------------------------------------------------
(* A cycle.                                                                *)

\* runCycle: the time of the cycle, the processes and the panes.
Begin ==
  /\ cycle = IdleCycle /\ clock < MaxTime
  /\ cycle' = [pc |-> "list", at |-> clock, proc |-> cur, place |-> place,
               status |-> IF Status THEN shown ELSE "redraw", known |-> NewSession, reading |-> NoDecision, loud |-> FALSE]
  /\ UNCHANGED <<clock, shown, place, cur, past, session, pending, caught, calm, changes>>

\* runCycle: the sessions of the registry (sessionForProcess).
ListSessions ==
  /\ cycle.pc = "list"
  /\ cycle' = [cycle EXCEPT !.pc = "detect", !.known = IF cycle.proc = cur THEN session ELSE NewSession]
  /\ UNCHANGED <<clock, shown, place, cur, past, session, pending, caught, calm, changes>>

\* shouldDetectScreen: the screen has the authority over the session's activity.
ShouldDetectScreen(s, at) == ScreenDecides(s, at)

\* screenObservationTime.
ScreenObservationTime(at, captured) == Later(at, captured)

\* captureScreenState: a screen no rule recognises says nothing about a session
\* whose activity is known.
SaysNothing(act, s) == act = "unknown" /\ Known(s.act)

\* captureScreenState: one capture and what the rules make of it.
CaptureScreenState ==
  LET d == Decision(shown, shown, ScreenObservationTime(cycle.at, clock))
  IN IF SaysNothing(d.act, cycle.known) THEN NoDecision ELSE d

\* unavailableScreenState and observationsForUnlocatedProcesses.
UnavailableScreenState == IF Inspect THEN Decision("outside", "redraw", cycle.at) ELSE NoDecision

\* detectScreenState; a process in the background of its pane is not judged, and what the
\* multiplexer tells has no rule.
DetectScreenState ==
  IF ~ShouldDetectScreen(cycle.known, cycle.at) \/ cycle.place = "back" THEN NoDecision
  ELSE IF cycle.place = "outside" THEN UnavailableScreenState
  ELSE IF Status THEN Decision("status", cycle.status, cycle.at)
  ELSE IF Inspect THEN CaptureScreenState ELSE NoDecision

\* initialScreenConfirmations.
Confirmations == 2

\* What two decisions must have in common to confirm each other: the activity and the rule.
Said(d) == <<d.act, d.rule>>

\* screenDecisionReady: how often this decision was reached in a row.
Counted(d) ==
  IF pending.proc = cycle.proc /\ pending.said = Said(d) THEN pending.n + 1 ELSE 1

\* Mutant: a reading waits only when another one is pending.
ReadyWhenNonePends(d) ==
  ~Continuous \/ d.rule = "outside" \/ pending.proc # cycle.proc

\* screenDecisionReady: the first readings of a process wait for confirmation; with
\* a reading on record, in a single run and outside of panes they do not.
ReadyAtOnce(d) ==
  ~Continuous \/ d.rule = "outside" \/ cycle.known.screen.proc = cycle.proc

\* screenDecisionReady: what waits for confirmation afterwards.
Waiting(d, n, ready) ==
  IF d = NoDecision \/ d.rule = "outside" THEN pending
  ELSE IF ready THEN NoPending
  ELSE [proc |-> cycle.proc, said |-> Said(d), n |-> n]

\* paneObservations for the agent's pane.
Detect ==
  /\ cycle.pc = "detect"
  /\ LET d     == DetectScreenState
         n     == Counted(d)
         ready == d # NoDecision /\ (ReadyAtOnce(d) \/ n >= Confirmations)
     IN /\ cycle' = [cycle EXCEPT !.pc = "record", !.reading = IF ready THEN d ELSE NoDecision]
        /\ pending' = Waiting(d, n, ready)
        /\ caught' = IF d = NoDecision \/ d.rule = "outside" \/ cycle.proc # cur THEN caught
                     ELSE IF caught = <<>> THEN <<Said(d)>> ELSE <<Said(d), caught[1]>>
  /\ UNCHANGED <<clock, shown, place, cur, past, session, calm, changes>>

\* The capture of the screen fails: the cycle goes on without a reading.
CaptureFails ==
  /\ cycle.pc = "detect" /\ cycle.place = "front" /\ changes < MaxChanges
  /\ cycle' = [cycle EXCEPT !.pc = "record", !.loud = TRUE]
  /\ changes' = changes + 1
  /\ UNCHANGED <<clock, shown, place, cur, past, session, pending, caught, calm>>

\* What the registry makes of the sighting and the reading; a conflict fails both.
Recorded ==
  LET seen == Reduce(session, Sighting(cycle.proc, cycle.at, TRUE))
      read == IF cycle.reading = NoDecision THEN seen
              ELSE Reduce(seen.session, Reading(cycle.proc, cycle.reading.at, cycle.reading.act))
  IN IF "conflict" \in {seen.out, read.out} THEN session ELSE read.session

\* prunePendingScreenDecisions: what waits for a process that is gone is forgotten.
Pruned(p) == IF pending.proc = p THEN pending ELSE NoPending

\* recordObservations. The next cycle begins at a later time.
Record(fails) ==
  /\ cycle.pc = "record" /\ (fails => changes < MaxChanges)
  /\ session' = IF fails \/ cycle.proc # cur THEN session ELSE Recorded
  /\ pending' = Pruned(cycle.proc)
  /\ calm' = IF fails \/ cycle.loud THEN 0
             ELSE IF ScreenDecides(cycle.known, cycle.at) THEN calm + 1 ELSE calm
  /\ changes' = IF fails THEN changes + 1 ELSE changes
  /\ cycle' = IdleCycle
  /\ clock' = Later(clock, cycle.at + 1)
  /\ UNCHANGED <<shown, place, cur, past, caught>>

-----------------------------------------------------------------------------
(* The world.                                                              *)

Disturbs ==
  /\ changes < MaxChanges /\ changes' = changes + 1 /\ calm' = 0
  /\ cycle' = IF cycle = IdleCycle THEN cycle ELSE [cycle EXCEPT !.loud = TRUE]

Tick ==
  /\ clock < MaxTime /\ clock' = clock + 1
  /\ cycle # IdleCycle => clock < cycle.at + CycleTime
  /\ UNCHANGED <<shown, place, cur, past, session, pending, cycle, caught, calm, changes>>

Redraw(screen) ==
  /\ screen # shown /\ shown' = screen
  /\ Disturbs /\ UNCHANGED <<clock, place, cur, past, session, pending, caught>>

Move(to) ==
  /\ to # place /\ place' = to
  /\ Disturbs /\ UNCHANGED <<clock, shown, cur, past, session, pending, caught>>

\* The agent reports what it does through a hook.
HookReport(act) ==
  /\ session' = Reduce(session, Report(cur, clock, "none", "live", act, 0)).session
  /\ Disturbs /\ UNCHANGED <<clock, shown, place, cur, past, pending, caught>>

\* The agent is started again.
Restart(p) ==
  /\ p \notin past \cup {cur} /\ cur' = p /\ past' = past \cup {cur} /\ session' = NewSession /\ caught' = <<>>
  /\ Disturbs /\ UNCHANGED <<clock, shown, place, pending>>

\* The observer is started again.
ObserverRestarts ==
  /\ cycle' = IdleCycle /\ pending' = NoPending /\ calm' = 0
  /\ changes < MaxChanges /\ changes' = changes + 1
  /\ UNCHANGED <<clock, shown, place, cur, past, session, caught>>

Next ==
  \/ Begin \/ ListSessions \/ Detect \/ CaptureFails \/ Tick \/ ObserverRestarts
  \/ \E fails \in BOOLEAN : Record(fails)
  \/ \E screen \in Screens : Redraw(screen)
  \/ \E to \in {"front", "back", "outside"} : Move(to)
  \/ \E act \in {"running", "waiting"} : HookReport(act)
  \/ \E p \in Procs : Restart(p)

Spec == Init /\ [][Next]_vars

\* For model checking.
Symmetry == Permutations(Procs)

-----------------------------------------------------------------------------

TypeOK ==
  /\ cycle.pc \in {"idle", "list", "detect", "record"}
  /\ pending.n < Confirmations
  /\ session.act \in {"none", "unknown", "running", "waiting"}
  /\ session.screen.proc \in {NoProc, cur}

\* A screen that is only being drawn does not become the activity of an agent: the
\* first reading the tracker records about a process was reached twice in a row.
FirstReadingIsSeenTwice ==
  (/\ Continuous /\ session.screen = NoScreen /\ session'.screen # NoScreen
   /\ cycle.reading.rule # "outside")
    => Len(caught) = 2 /\ caught[1] = caught[2]

\* A recorded cycle never replaces a known activity by unknown while the agent is in
\* a pane, also when the hooks told it after the sessions were listed: a redraw that
\* no rule recognises is not news.
RedrawIsNoNews ==
  (/\ cycle.pc = "record" /\ cycle' = IdleCycle /\ cycle.place # "outside"
   /\ Known(session.act) /\ ~Status)
    => Known(session'.act)

\* A report of the hooks is not overwritten by a screen that was captured while it was
\* under way: as long as it may count, a recorded cycle leaves its activity alone.
ReportOutlivesCapture ==
  (/\ cycle.pc = "record" /\ cycle' = IdleCycle /\ ~ScreenPolicy
   /\ session.native.act # "none" /\ cycle.reading.at <= session.native.at + Lease
   /\ session.decAt = session.native.at /\ session.act = session.native.act)
    => session'.act = session.act

\* After two undisturbed cycles an agent whose hooks are silent has the activity its
\* screen shows, whatever was read, missed or pending before.
ScreenCatchesUp ==
  (/\ calm >= 2 /\ cycle = IdleCycle /\ place = "front" /\ Inspect
   /\ shown # "redraw")
    => session.act = ActivityOf(shown)
=============================================================================
