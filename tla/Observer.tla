------------------------------ MODULE Observer ------------------------------
(***************************************************************************)
(* The observer (internal/observer/observer.go): in cycles it lists the    *)
(* processes, then the sessions of the registry, and records sightings. A  *)
(* process found only by its command name is held until it has run for the *)
(* confirmation period; a tracked process that is missing from two lists   *)
(* is retired; a session whose process is neither listed nor tracked is    *)
(* retired at once. Processes start, report through hooks and die between  *)
(* any two steps of a cycle, recording may fail, and the observer may stop *)
(* and start again.                                                        *)
(*                                                                         *)
(* The registry is Lifecycle's reducer with one session per process.       *)
(***************************************************************************)
EXTENDS Lifecycle, FiniteSets

CONSTANTS
  ConfirmAfter,    (* Observer.confirmAfter                                *)
  MissingSnapshots,(* defaultMissingSnapshots                              *)
  MaxTime,         (* bound: the clock                                     *)
  MaxFaults,       (* bound: failed listings, recordings and restarts      *)
  MaxFlickers      (* bound: living processes missing from a list          *)

ObserverAssumption ==
  /\ {ConfirmAfter, MaxTime, MaxFaults, MaxFlickers} \subseteq Nat
  /\ MissingSnapshots \in Nat \ {0}

VARIABLES
  clock,
  born, died,    (* when a process started and ended, 0 before that        *)
  hooked,        (* processes that sent a report                           *)
  sessions,      (* the registry                                           *)
  ended,         (* EndedProcesses: sessions known by process, removed     *)
  faults, flickers,
  pc,            (* the cycle: "idle", "list", "known" or "record"         *)
  at,            (* the time of the cycle, taken when it starts            *)
  listed,        (* its process list                                       *)
  known,         (* its session list: process to presence, "none" without  *)
  initialized,   (* initializeTracked has run                              *)
  tracked,       (* missing counts of the tracked processes                *)
  candidates,    (* first sight of processes held back                     *)
  seenFrom,      (* history: the first cycle that listed a process         *)
  news,          (* history: when it died or last reported after that      *)
  swept          (* history: cycles recorded that began after its news     *)

world == <<clock, born, died, hooked>>
registry == <<sessions, ended>>
cycle == <<pc, at, listed, known>>
memory == <<initialized, tracked, candidates>>
vars == <<clock, born, died, hooked, sessions, ended, faults, flickers, pc, at, listed, known,
          initialized, tracked, candidates, seenFrom, news, swept>>
history == <<seenFrom, news, swept>>

Alive == {p \in Procs : born[p] # 0 /\ died[p] = 0}
Empty == [p \in {} |-> 0]

Init ==
  /\ clock = 1 /\ born = [p \in Procs |-> 0] /\ died = [p \in Procs |-> 0] /\ hooked = {}
  /\ sessions = [p \in Procs |-> NewSession] /\ ended = {}
  /\ faults = 0 /\ flickers = 0
  /\ pc = "idle" /\ at = 0 /\ listed = {} /\ known = [p \in Procs |-> "none"]
  /\ initialized = FALSE /\ tracked = Empty /\ candidates = Empty
  /\ seenFrom = [p \in Procs |-> 0] /\ news = [p \in Procs |-> 0]
  /\ swept = [p \in Procs |-> 0]

-----------------------------------------------------------------------------
(* The registry.                                                           *)

\* A session known only by its process is removed when the process is gone.
Removed(s) == s.presence = "gone" /\ s.native.at = 0

\* endedProcessReport: a late report would create the session again.
EndedProcessReport(o) == IsReport(o) /\ o.proc \in ended /\ ~Exists(sessions[o.proc])

\* What recording o leaves of the session of its process.
After(o) == IF EndedProcessReport(o) THEN sessions[o.proc] ELSE Reduce(sessions[o.proc], o).session

\* The batch obs, at most one observation per process.
Record(obs) ==
  LET after == [p \in Procs |-> IF \E o \in obs : o.proc = p
                                THEN After(CHOOSE o \in obs : o.proc = p) ELSE sessions[p]]
  IN  /\ sessions' = [p \in Procs |-> IF Removed(after[p]) THEN NewSession ELSE after[p]]
      /\ ended' = ended \cup {p \in Procs : Removed(after[p])}

-----------------------------------------------------------------------------
(* Agents and their hooks.                                                 *)

Elapse == clock < MaxTime /\ clock' = clock + 1

StartProcess(p) ==
  /\ Elapse /\ born[p] = 0 /\ born' = [born EXCEPT ![p] = clock']
  /\ UNCHANGED <<died, hooked, faults, flickers>>
  /\ UNCHANGED registry /\ UNCHANGED cycle /\ UNCHANGED memory /\ UNCHANGED history

Die(p) ==
  /\ Elapse /\ p \in Alive /\ died' = [died EXCEPT ![p] = clock']
  /\ news' = [news EXCEPT ![p] = clock']
  /\ UNCHANGED <<born, hooked, faults, flickers, seenFrom, swept>>
  /\ UNCHANGED registry /\ UNCHANGED cycle /\ UNCHANGED memory

\* A hook of a living process reports to the registry.
Hook(p) ==
  /\ Elapse /\ p \in Alive /\ hooked' = hooked \cup {p}
  /\ Record({Report(p, clock', IF p \in hooked THEN "none" ELSE "start", "live", "busy", 0)})
  /\ UNCHANGED <<born, died, faults, flickers>> /\ UNCHANGED cycle /\ UNCHANGED memory /\ UNCHANGED history

\* A report sent just before its process died arrives now.
LateHook(p) ==
  /\ Elapse /\ died[p] # 0 /\ hooked' = hooked \cup {p}
  /\ Record({Report(p, died[p] - 1, "none", "live", "busy", 0)})
  /\ news' = [news EXCEPT ![p] = clock'] /\ swept' = [swept EXCEPT ![p] = 0]
  /\ UNCHANGED <<born, died, faults, flickers, seenFrom>> /\ UNCHANGED cycle /\ UNCHANGED memory

-----------------------------------------------------------------------------
(* A cycle.                                                                *)

Tracked == DOMAIN tracked

\* initializeTracked: what the registry shows as seen may have died meanwhile, so
\* one missing snapshot is counted already.
InitialTracked ==
  [p \in {q \in Procs : sessions[q].presence = "live" /\ sessions[q].sight.present}
     |-> MissingSnapshots - 1]

\* runCycle starts: the time that all its observations will have.
BeginCycle ==
  /\ pc = "idle" /\ Elapse /\ at' = clock' /\ pc' = "list"
  /\ initialized' = TRUE
  /\ tracked' = IF initialized THEN tracked ELSE InitialTracked
  /\ UNCHANGED <<born, died, hooked, faults, flickers, listed, known, candidates>>
  /\ UNCHANGED registry /\ UNCHANGED history

\* processList. A living process may be missing once, not twice in a row and not
\* from the first list after a start.
ListProcesses(missed) ==
  /\ pc = "list" /\ pc' = "known"
  /\ missed \subseteq {p \in Alive \cap Tracked : tracked[p] = 0}
  /\ flickers + Cardinality(missed) <= MaxFlickers
  /\ flickers' = flickers + Cardinality(missed)
  /\ listed' = Alive \ missed
  /\ seenFrom' = [p \in Procs |-> IF seenFrom[p] = 0 /\ p \in listed' THEN at ELSE seenFrom[p]]
  /\ UNCHANGED <<faults, at, known, news, swept>> /\ UNCHANGED world /\ UNCHANGED registry /\ UNCHANGED memory

\* failCycle: an enumeration or the registry fails, nothing is kept of the cycle.
FailCycle ==
  /\ pc \in {"list", "known", "record"} /\ pc' = "idle"
  /\ faults < MaxFaults /\ faults' = faults + 1
  /\ UNCHANGED <<flickers, at, listed, known>>
  /\ UNCHANGED world /\ UNCHANGED registry /\ UNCHANGED memory /\ UNCHANGED history

\* store.List, after the processes were listed.
ListSessions ==
  /\ pc = "known" /\ pc' = "record"
  /\ known' = [p \in Procs |-> IF Exists(sessions[p]) THEN sessions[p].presence ELSE "none"]
  /\ UNCHANGED <<faults, flickers, at, listed>>
  /\ UNCHANGED world /\ UNCHANGED registry /\ UNCHANGED memory /\ UNCHANGED history

\* processConfirmed.
ProcessConfirmed(p) ==
  \/ p \in Tracked
  \/ known[p] # "none"
  \/ p \in DOMAIN candidates /\ at - candidates[p] >= ConfirmAfter

\* processSightings' result: the confirmed processes of the list.
Current == {p \in listed : ProcessConfirmed(p)}

\* holdUnconfirmedProcesses: the rest, with the time they were first seen.
Held == [p \in listed \ Current |-> IF p \in DOMAIN candidates THEN candidates[p] ELSE at]

\* retireMissingProcesses: the counts after this cycle.
NextTracked ==
  [p \in Current \cup Tracked |-> IF p \in Current THEN 0 ELSE tracked[p] + 1]

\* missingProcessRetired, without a grace period.
MissingProcessRetired(p) == NextTracked[p] >= MissingSnapshots

Retired == {p \in Tracked \ Current : MissingProcessRetired(p)}

\* reconcileUnobservedSessions, unobservedSessionAbsence: sessions whose process is
\* in no list and not tracked.
Unobserved ==
  {p \in Procs : known[p] \notin {"none", "gone"} /\ p \notin Tracked /\ p \notin listed}

\* Mutant: observations carry the time at which they are recorded.
CycleTimeLate == clock

\* Every observation of the cycle has the time at which it began.
CycleTime == at

Observations ==
  {Sighting(p, CycleTime, TRUE) : p \in Current}
  \cup {Sighting(p, CycleTime, FALSE) : p \in Retired \cup Unobserved}

\* recordObservations: the batch is recorded and the counts are kept. On a conflict
\* of some observation of the batch every one is recorded alone, and the retired
\* stay tracked.
RecordObservations(conflict) ==
  /\ pc = "record" /\ pc' = "idle" /\ Record(Observations)
  /\ conflict => faults < MaxFaults
  /\ faults' = IF conflict THEN faults + 1 ELSE faults
  /\ IF conflict
     THEN tracked' = NextTracked /\ UNCHANGED candidates
     ELSE /\ tracked' = [p \in DOMAIN NextTracked \ Retired |-> NextTracked[p]]
          /\ candidates' = Held
  /\ swept' = [p \in Procs |-> IF news[p] \in 1..at /\ swept[p] < MissingSnapshots
                                THEN swept[p] + 1 ELSE swept[p]]
  /\ UNCHANGED <<flickers, at, listed, known, initialized, seenFrom, news>> /\ UNCHANGED world

\* The observer's process stops, in whatever step, and a new one starts.
Restart ==
  /\ faults < MaxFaults /\ faults' = faults + 1
  /\ pc' = "idle" /\ initialized' = FALSE /\ tracked' = Empty /\ candidates' = Empty
  /\ UNCHANGED <<flickers, at, listed, known>> /\ UNCHANGED world /\ UNCHANGED registry
  /\ UNCHANGED history

Stopped == clock = MaxTime /\ pc = "idle" /\ UNCHANGED vars

Next ==
  \/ \E p \in Procs : StartProcess(p) \/ Die(p) \/ Hook(p) \/ LateHook(p)
  \/ BeginCycle \/ ListSessions \/ FailCycle \/ Restart \/ Stopped
  \/ \E missed \in SUBSET Procs : ListProcesses(missed)
  \/ \E conflict \in BOOLEAN : RecordObservations(conflict)

Spec == Init /\ [][Next]_vars

-----------------------------------------------------------------------------
(* Properties                                                              *)

\* The observer's own state has its types, and no time lies ahead of the clock.
TypeOK ==
  /\ clock \in 1..MaxTime /\ at <= clock
  /\ pc \in {"idle", "list", "known", "record"}
  /\ Tracked \subseteq Procs /\ DOMAIN candidates \subseteq Procs
  /\ \A p \in DOMAIN candidates : candidates[p] <= at

\* No living agent is ever declared gone: neither when it starts and reports
\* between the observer's two lists, nor when one list misses it, nor over
\* failed cycles and restarts.
LivingIsNotGone ==
  \A p \in Alive : p \notin ended /\ (Exists(sessions[p]) => sessions[p].presence # "gone")

\* "Short-lived commands that share a harness executable name never become
\* registry sessions" (holdUnconfirmedProcesses): without a report, a session
\* begins with a cycle that is the confirmation period after the first one that
\* listed its process.
ShortLivedStaysOut ==
  \A p \in Procs \ hooked :
    Exists(sessions[p]) => sessions[p].inc.trAt - seenFrom[p] >= ConfirmAfter

\* The dead do not come back: a session once removed or gone stays so.
GoneForGood ==
  \A p \in Procs : /\ p \in ended => p \in ended' /\ ~Exists(sessions'[p])
                   /\ sessions[p].presence = "gone" => sessions'[p].presence = "gone"

\* A dead process is retired: after MissingSnapshots recorded cycles that began
\* after its death and its last late report, however many cycles failed between them, no session is live.
DeadIsRetired == \A p \in Procs : swept[p] >= MissingSnapshots => sessions[p].presence # "live"
=============================================================================
