---------------------------- MODULE TrackerHealth ----------------------------
(***************************************************************************)
(* The health file of the tracker: internal/observer acquires the observer *)
(* lock, runs cycles and rewrites the file only when the status changes or *)
(* the last write is old; pkg/manage reads the file at any moment and says *)
(* healthy, degraded, stale or missing. The service is one process, runs   *)
(* of `aht manage tracker run --once` are others; all compete for the lock *)
(* and any may be killed, and every write may fail.                        *)
(*                                                                         *)
(* Time counts in units of 15 seconds. Timers fire when they are due and   *)
(* a cycle lasts at most MaxCycle units; a killed process holds neither.   *)
(***************************************************************************)
EXTENDS Naturals, Integers, FiniteSetsExt

CONSTANTS
  Intervals,      (* --interval values                                     *)
  WriteInterval,  (* healthWriteInterval, 2 units                          *)
  MinAge,         (* minEffectiveAge, 8 units                              *)
  MaxCycle,       (* the longest cycle                                     *)
  MaxTime,        (* bound on the clock                                    *)
  MaxOnce,        (* bound on the runs of --once                           *)
  MaxFaults       (* bound on failing cycles, failing writes and kills     *)

HealthAssumption ==
  /\ Intervals \subseteq Nat \ {0} /\ Intervals # {}
  /\ WriteInterval \in Nat \ {0} /\ MinAge \in Nat /\ MaxCycle \in Nat \ {0}
  /\ MaxTime \in Nat /\ MaxOnce \in Nat /\ MaxFaults \in Nat

VARIABLES
  interval,
  now,
  lock,       (* who holds the observer lock                               *)
  mode,       (* what each process does                                    *)
  at,         (* when its cycle began                                      *)
  due,        (* when its timer fires                                      *)
  mem,        (* its Health and lastHealthWrite                            *)
  file,       (* the health file                                           *)
  tried,      (* what became of the write of its last cycle                *)
  lastGood,   (* when the last cycle that reconciled everything began      *)
  smooth,     (* every cycle and write of this process went well           *)
  onces, faults

vars == <<interval, now, lock, mode, at, due, mem, file, tried, lastGood, smooth, onces, faults>>

Processes == {"service", "once"}
Never     == 0 - 1
Nobody    == "nobody"
NoFile    == [by |-> Nobody]
Categories == {"", "registry", "process-enumeration", "reconciliation"}

\* A new Observer: nothing recorded, nothing written.
New == [degraded |-> FALSE, category |-> "", success |-> Never, written |-> Never]

\* updateHealth: the health of a cycle that began at t and ended with a category.
UpdatedHealth(h, t, category) ==
  [h EXCEPT !.degraded = category # "", !.category = category,
            !.success = IF category = "" THEN t ELSE @]

\* updateHealth: whether the file is rewritten.
ShouldWrite(h, n, t) ==
  \/ h.written = Never
  \/ t - h.written >= WriteInterval
  \/ n.degraded # h.degraded
  \/ n.category # h.category

\* recordHealth: lastHealthWrite moves with a write that succeeded.
WrittenAt(h, t, outcome) == IF outcome = "written" THEN [h EXCEPT !.written = t] ELSE h

\* writeHealth: a temporary file renamed over the old one.
Written(p, h, t) ==
  [by |-> p, degraded |-> h.degraded, category |-> h.category, success |-> h.success, at |-> t]

\* recordCycleHealth and failCycle: a cycle that listed no panes or catalog is
\* degraded, one that could not list processes or use the registry has failed.
CycleCategory(outcome) == IF outcome = "ok" THEN "" ELSE outcome

\* Mutant: the interval does not widen the limit.
EffectiveMaxAgeShort(i) == MinAge

\* resolveEffectiveMaxAge without an explicit limit.
EffectiveMaxAge(i) == Max({3 * i, MinAge})

\* ReadTrackerHealth and evaluateTrackerHealthFreshness at time t.
ReadTrackerHealth(f, t) ==
  CASE f = NoFile                        -> "missing"
    [] f # NoFile /\ f.degraded          -> "degraded"
    [] f # NoFile /\ ~f.degraded         ->
         IF f.success = Never THEN "degraded"
         ELSE IF t - f.success > EffectiveMaxAge(interval) THEN "stale" ELSE "healthy"

Init ==
  /\ interval \in Intervals
  /\ now = 0 /\ lock = Nobody
  /\ mode = [p \in Processes |-> IF p = "service" THEN "backoff" ELSE "out"]
  /\ at = [p \in Processes |-> 0] /\ due = [p \in Processes |-> 0]
  /\ mem = [p \in Processes |-> New] /\ file = NoFile
  /\ tried = [p \in Processes |-> "none"] /\ lastGood = Never
  /\ smooth = [p \in Processes |-> TRUE]
  /\ onces = 0 /\ faults = 0

\* The service manager starts the service, at login or after a failure
\* (Restart=on-failure, KeepAlive), a user starts a --once run.
Wanted(p) ==
  \/ p = "service" /\ mode[p] = "backoff" /\ UNCHANGED onces
  \/ p = "once" /\ mode[p] = "out" /\ onces < MaxOnce /\ onces' = onces + 1

\* acquireLock and the first cycle. A service that finds the lock taken exits
\* with an error and is started again later; a --once run just fails.
Start(p) ==
  /\ Wanted(p)
  /\ lock = Nobody
  /\ lock' = p
  /\ mode' = [mode EXCEPT ![p] = "cycle"] /\ at' = [at EXCEPT ![p] = now]
  /\ UNCHANGED <<interval, now, due, mem, file, tried, lastGood, smooth, faults>>

\* run: the timer fires and the next cycle begins.
NextCycle(p) ==
  /\ mode[p] = "waiting" /\ due[p] = now
  /\ mode' = [mode EXCEPT ![p] = "cycle"] /\ at' = [at EXCEPT ![p] = now]
  /\ due' = [due EXCEPT ![p] = 0]
  /\ UNCHANGED <<interval, now, lock, mem, file, tried, lastGood, smooth, onces, faults>>

\* closeObserverLock, or the kernel when the process dies.
ReleasedLock(p, ended) == Nobody

\* The process ends, and what it remembered with it.
Leave(p, next, ended) ==
  /\ mode' = [mode EXCEPT ![p] = next] /\ lock' = ReleasedLock(p, ended)
  /\ at' = [at EXCEPT ![p] = 0] /\ due' = [due EXCEPT ![p] = 0]
  /\ mem' = [mem EXCEPT ![p] = New] /\ tried' = [tried EXCEPT ![p] = "none"]
  /\ smooth' = [smooth EXCEPT ![p] = TRUE]

\* A cycle ends: its health is recorded, and the loop waits for the timer, or a
\* --once run returns, or a service that was told to stop does. A cycle that is
\* cancelled fails in the registry or in the enumeration and records that.
EndCycle(p, outcome, writable, stop) ==
  LET category == CycleCategory(outcome)
      n        == UpdatedHealth(mem[p], at[p], category)
      write    == ShouldWrite(mem[p], n, at[p])
      result   == IF ~write THEN "skipped" ELSE IF writable THEN "written" ELSE "failed"
      cost     == (IF outcome = "ok" THEN 0 ELSE 1) + (IF result = "failed" THEN 1 ELSE 0)
      leaves   == stop \/ p = "once"
  IN /\ mode[p] = "cycle"
     /\ stop => outcome \in {"registry", "process-enumeration"}
     /\ ~write => writable
     /\ faults + cost <= MaxFaults /\ faults' = faults + cost
     /\ file' = IF result = "written" THEN Written(p, n, at[p]) ELSE file
     /\ lastGood' = IF outcome = "ok" THEN at[p] ELSE lastGood
     /\ IF leaves THEN Leave(p, "out", "returned")
        ELSE /\ mode' = [mode EXCEPT ![p] = "waiting"]
             /\ due' = [due EXCEPT ![p] = now + interval]
             /\ mem' = [mem EXCEPT ![p] = WrittenAt(n, at[p], result)]
             /\ tried' = [tried EXCEPT ![p] = result]
             /\ smooth' = [smooth EXCEPT ![p] = @ /\ outcome = "ok" /\ result # "failed"]
             /\ UNCHANGED <<lock, at>>
     /\ UNCHANGED <<interval, now, onces>>

\* run: the context ends while the loop waits; a service that was told to stop
\* is not started again.
Stop(p) ==
  /\ mode[p] = "waiting"
  /\ Leave(p, "out", "returned")
  /\ UNCHANGED <<interval, now, file, lastGood, onces, faults>>

\* The process is killed; the manager will start a service again.
Kill(p) ==
  /\ mode[p] \in {"cycle", "waiting"} /\ faults < MaxFaults
  /\ Leave(p, IF p = "service" THEN "backoff" ELSE "out", "killed")
  /\ faults' = faults + 1
  /\ UNCHANGED <<interval, now, file, lastGood, onces>>

Tick ==
  /\ now < MaxTime
  /\ \A p \in Processes : mode[p] = "cycle" => now - at[p] < MaxCycle
  /\ \A p \in Processes : mode[p] = "waiting" => now < due[p]
  /\ now' = now + 1
  /\ UNCHANGED <<interval, lock, mode, at, due, mem, file, tried, lastGood, smooth, onces, faults>>

Next ==
  \/ Tick
  \/ \E p \in Processes :
       \/ Start(p) \/ NextCycle(p) \/ Stop(p) \/ Kill(p)
       \/ \E o \in {"ok", "registry", "process-enumeration", "reconciliation"} :
            \E w, s \in BOOLEAN : EndCycle(p, o, w, s)

\* A cycle ends, a --once run returns, and the manager keeps starting a service
\* that failed; --once runs are bounded by MaxOnce, so they cannot hold the lock
\* against the service for ever.
Fairness ==
  /\ WF_vars(\E o \in {"ok"} : EndCycle("once", o, TRUE, FALSE))
  /\ WF_vars(Start("service"))

Spec == Init /\ [][Next]_vars
LiveSpec == Spec /\ Fairness

---------------------------------------------------------------------------

TypeOK ==
  /\ lock \in Processes \cup {Nobody}
  /\ \A p \in Processes :
       /\ mode[p] \in {"out", "backoff", "waiting", "cycle"}
       /\ mode[p] \in {"waiting", "cycle"} => lock = p
       /\ mem[p].category \in Categories
       /\ mem[p].degraded <=> mem[p].category # ""
       /\ mem[p].success <= now /\ mem[p].written <= now
  /\ file # NoFile => file.success <= file.at /\ file.at <= now

\* A tracker whose cycles and writes all go well, and whose cycles last no longer
\* than MaxCycle, is never shown as stale, degraded or missing once its first
\* cycle is done, whatever its interval and although most cycles write nothing.
FreshWhileRunning ==
  (/\ mode["service"] \in {"waiting", "cycle"} /\ smooth["service"]
   /\ tried["service"] # "none")
     => ReadTrackerHealth(file, now) = "healthy"

\* A file that reads healthy stands for a cycle that reconciled everything within
\* the limit: a tracker that died, hangs or only fails is shown in time.
HealthyIsRecent ==
  ReadTrackerHealth(file, now) = "healthy"
    => lastGood # Never /\ now - lastGood <= Max({3 * interval, MinAge})

\* Between two cycles the file tells how the last one ended, unless a write has
\* failed: then the next one that is due retries, at most a write interval after
\* the file's last good write.
ToldInTime ==
  \A p \in Processes : mode[p] = "waiting" =>
    \/ /\ file.by = p
       /\ file.degraded = mem[p].degraded /\ file.category = mem[p].category
    \/ tried[p] = "failed"
    \/ tried[p] = "skipped" /\ file.by = p /\ at[p] - file.at < WriteInterval

\* The service comes back after a kill, and after a --once run kept it out.
ServiceReturns == mode["service"] = "backoff" ~> mode["service"] # "backoff"
=============================================================================
