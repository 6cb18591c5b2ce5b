---------------------------- MODULE HistoryWorker ----------------------------
(***************************************************************************)
(* internal/cli/history_worker.go and history.go: the tracker keeps the    *)
(* conversation index warm. A watcher waits for revisions of the registry  *)
(* and signals when a session went idle or ended; a worker runs a refresh  *)
(* process for the signals; the refresh takes a guard file that a refresh  *)
(* started by a search or a user may hold.                                 *)
(***************************************************************************)
EXTENDS Naturals, FiniteSets

CONSTANTS
  Sessions,    (* sessions; each writes a history of its own               *)
  Others,      (* whether others refresh histories too                     *)
  MaxChanges,  (* bound: changes of sessions                               *)
  MaxFaults    (* bound: refreshes that fail, stops and store errors       *)

WorkerAssumption ==
  IsFiniteSet(Sessions) /\ Others \in BOOLEAN /\ {MaxChanges, MaxFaults} \subseteq Nat

VARIABLES
  session,   (* the registry: presence and activity of each session        *)
  revision,  (* its revision; also how often sessions changed              *)
  written,   (* how much each session has written to its history           *)
  indexed,   (* how much of it the index holds                             *)
  watcher,   (* watchHistoryRefresh                                        *)
  signals,   (* its channel of one                                         *)
  worker,    (* its worker                                                 *)
  proc,      (* the refresh processes: of the tracker and of another       *)
  guard,     (* who holds the guard file                                   *)
  context,   (* the tracker's context                                      *)
  due,       (* written when the watcher last signalled                    *)
  faults

vars == <<session, revision, written, indexed, watcher, signals, worker, proc, guard,
          context, due, faults>>

State(p, a) == [presence |-> p, activity |-> a]
NoProcess   == [step |-> "none", todo |-> {}]

Init ==
  /\ session \in [Sessions -> {State("present", "running"), State("present", "idle")}]
  /\ written = [s \in Sessions |-> 1]
  /\ revision = 0 /\ indexed = [s \in Sessions |-> 0]
  /\ watcher = [step |-> "watch", seen |-> 0, previous |-> session]
  /\ signals = 1 /\ due = written
  /\ worker = "wait" /\ proc = [p \in {"tracker", "other"} |-> NoProcess]
  /\ guard = "none" /\ context = "running" /\ faults = 0

-----------------------------------------------------------------------------
(* Sessions, and the end of the tracker.                                   *)

Changed(s, to, writes) ==
  /\ revision < MaxChanges /\ revision' = revision + 1
  /\ session[s].presence # "gone"
  /\ session' = [session EXCEPT ![s] = to]
  /\ written' = IF writes THEN [written EXCEPT ![s] = @ + 1] ELSE written
  /\ UNCHANGED <<indexed, watcher, signals, worker, proc, guard, context, due, faults>>

Work(s) == session[s].activity = "idle" /\ Changed(s, State("present", "running"), TRUE)
Rest(s) == session[s].activity = "running" /\ Changed(s, State("present", "idle"), FALSE)
Leave(s) == Changed(s, State("gone", ""), FALSE)

Fault ==
  /\ faults < MaxFaults /\ faults' = faults + 1

Stop ==
  /\ Fault /\ context = "running" /\ context' = "cancelled"
  /\ UNCHANGED <<session, revision, written, indexed, watcher, signals, worker, proc, guard, due>>

-----------------------------------------------------------------------------
(* The watcher.                                                            *)

\* historyTransitions: some session ended, or is idle and was not the same before.
HistoryTransitions(now, before) ==
  \E s \in Sessions :
    \/ now[s].presence = "gone" /\ before[s].presence # "gone"
    \/ now[s].presence # "gone" /\ now[s].activity = "idle" /\ now[s] # before[s]

\* The send that does not block, into a channel of one.
Signalled(n) == 1

\* WaitForRevision returns the newest state, the ones in between are never seen.
Notice ==
  /\ watcher.step = "watch" /\ revision > watcher.seen
  /\ watcher' = [watcher EXCEPT !.seen = revision, !.previous = session]
  /\ IF HistoryTransitions(session, watcher.previous)
     THEN signals' = Signalled(signals) /\ due' = written
     ELSE UNCHANGED <<signals, due>>
  /\ UNCHANGED <<session, revision, written, indexed, worker, proc, guard, context, faults>>

\* historyWatchError: the context or the store ended; the worker is cancelled and
\* waited for.
WatchEnds(why) ==
  /\ watcher.step = "watch"
  /\ why = "error" => Fault
  /\ why = "cancelled" => context = "cancelled" /\ UNCHANGED faults
  /\ watcher' = [watcher EXCEPT !.step = "joining"]
  /\ UNCHANGED <<session, revision, written, indexed, signals, worker, proc, guard, context, due>>

Joined == worker = "gone"

WatchReturns ==
  /\ watcher.step = "joining" /\ Joined
  /\ watcher' = [watcher EXCEPT !.step = "returned"]
  /\ UNCHANGED <<session, revision, written, indexed, signals, worker, proc, guard, context, due, faults>>

-----------------------------------------------------------------------------
(* The worker.                                                             *)

WorkerCancelled == context = "cancelled" \/ watcher.step # "watch"

WorkerTakes ==
  /\ worker = "wait" /\ signals = 1 /\ ~WorkerCancelled
  /\ signals' = 0 /\ worker' = "refresh"
  /\ proc' = [proc EXCEPT !["tracker"] = [step |-> "start", todo |-> {}]]
  /\ UNCHANGED <<session, revision, written, indexed, watcher, guard, context, due, faults>>

WorkerQuits ==
  /\ worker = "wait" /\ WorkerCancelled
  /\ worker' = "gone"
  /\ UNCHANGED <<session, revision, written, indexed, watcher, signals, proc, guard, context, due, faults>>

\* command.Wait returns; a process that failed is warned of.
WorkerReturns ==
  /\ worker = "refresh" /\ proc["tracker"].step = "none"
  /\ worker' = "wait"
  /\ UNCHANGED <<session, revision, written, indexed, watcher, signals, proc, guard, context, due, faults>>

\* exec.CommandContext kills the process when the worker is cancelled.
KillRefresh ==
  /\ WorkerCancelled /\ proc["tracker"].step # "none"
  /\ proc' = [proc EXCEPT !["tracker"] = NoProcess]
  /\ guard' = IF guard = "tracker" THEN "none" ELSE guard
  /\ UNCHANGED <<session, revision, written, indexed, watcher, signals, worker, context, due, faults>>

-----------------------------------------------------------------------------
(* The refresh.                                                            *)

\* startHistoryRefresh: a search that skipped histories starts a process for its
\* sources and leaves it alone.
SearchStarts ==
  /\ Others /\ Fault /\ proc["other"].step = "none"
  /\ proc' = [proc EXCEPT !["other"].step = "start"]
  /\ UNCHANGED <<session, revision, written, indexed, watcher, signals, worker, guard, context, due>>

\* historyRefreshSources: all histories for the tracker, the chosen ones for others.
HistoryRefreshSources(p, chosen) == IF p = "tracker" THEN Sessions ELSE chosen

\* lockHistoryRefresh: a refresh that finds another one running is done.
LockHistoryRefresh(p, chosen) ==
  /\ proc[p].step = "start"
  /\ IF guard = "none"
     THEN /\ guard' = p
          /\ proc' = [proc EXCEPT ![p] = [step |-> "index", todo |-> HistoryRefreshSources(p, chosen)]]
     ELSE proc' = [proc EXCEPT ![p] = NoProcess] /\ UNCHANGED guard
  /\ UNCHANGED <<session, revision, written, indexed, watcher, signals, worker, context, due, faults>>

\* runHistoryRefresh: one history after the other is read as it is.
RunHistoryRefresh(p, s) ==
  /\ proc[p].step = "index" /\ s \in proc[p].todo
  /\ indexed' = [indexed EXCEPT ![s] = written[s]]
  /\ proc' = [proc EXCEPT ![p].todo = @ \ {s}]
  /\ UNCHANGED <<session, revision, written, watcher, signals, worker, guard, context, due, faults>>

RefreshDone(p) ==
  /\ proc[p].step = "index" /\ proc[p].todo = {}
  /\ proc' = [proc EXCEPT ![p] = NoProcess] /\ guard' = "none"
  /\ UNCHANGED <<session, revision, written, indexed, watcher, signals, worker, context, due, faults>>

\* The refresh fails; the tracker warns of it and waits for the next signal.
RefreshFails(p) ==
  /\ Fault /\ proc[p].step = "index"
  /\ proc' = [proc EXCEPT ![p] = NoProcess] /\ guard' = "none"
  /\ due' = IF p = "tracker" THEN indexed ELSE due
  /\ UNCHANGED <<session, revision, written, indexed, watcher, signals, worker, context>>

RefreshNext(p) ==
  \/ \E chosen \in SUBSET Sessions : LockHistoryRefresh(p, chosen)
  \/ \E s \in Sessions : RunHistoryRefresh(p, s)
  \/ RefreshDone(p)

WorkerNext == WorkerTakes \/ WorkerQuits \/ WorkerReturns \/ KillRefresh

Next ==
  \/ \E s \in Sessions : Work(s) \/ Rest(s) \/ Leave(s)
  \/ Stop \/ Notice \/ WatchReturns \/ \E why \in {"error", "cancelled"} : WatchEnds(why)
  \/ WorkerNext
  \/ SearchStarts
  \/ \E p \in {"tracker", "other"} : RefreshNext(p) \/ RefreshFails(p)

Spec == Init /\ [][Next]_vars

\* The Go scheduler and the system run what is ready.
Fairness ==
  /\ WF_vars(Notice) /\ WF_vars(WatchEnds("cancelled")) /\ WF_vars(WatchReturns) /\ WF_vars(WorkerNext)
  /\ \A p \in {"tracker", "other"} : WF_vars(RefreshNext(p))

LiveSpec == Spec /\ Fairness

-----------------------------------------------------------------------------

TypeOK ==
  /\ watcher.step \in {"watch", "joining", "returned"} /\ watcher.seen <= revision
  /\ signals \in 0 .. 1 /\ worker \in {"wait", "refresh", "gone"}
  /\ guard \in {"none", "tracker", "other"}
  /\ \A p \in {"tracker", "other"} : (proc[p].step = "index") <=> (guard = p)
  /\ \A s \in Sessions : indexed[s] <= written[s]

\* When the tracker's watcher has returned none of its refresh processes is left,
\* whether it was told to stop or lost the registry.
NothingLeftBehind ==
  watcher.step = "returned" => proc["tracker"].step = "none" /\ worker = "gone"

\* What was written when the watcher saw a session go idle or end is indexed in the
\* end, or its failure told, also when the signal comes while a refresh runs; and so
\* is what was written before the tracker started. It holds when nobody else
\* refreshes histories.
NoticedIsIndexed ==
  <>[](watcher.step = "watch" /\ context = "running" => \A s \in Sessions : indexed[s] >= due[s])

\* A tracker that is told to stop, or loses the registry, ends.
TrackerEnds == (context = "cancelled" \/ watcher.step = "joining") ~> watcher.step = "returned"

\* The histories of sessions that went idle or ended are indexed in the end.
IdleIsIndexed ==
  <>[](\A s \in Sessions :
         (session[s].presence = "gone" \/ session[s].activity = "idle") => indexed[s] = written[s])
=============================================================================
