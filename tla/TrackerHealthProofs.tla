------------------------ MODULE TrackerHealthProofs ------------------------
(***************************************************************************)
(* Theorems about TrackerHealth, for any intervals, write interval, limit, *)
(* length of cycles, clock, runs of --once and number of faults.           *)
(***************************************************************************)
EXTENDS TrackerHealth, TLAPS

Modes    == {"out", "backoff", "waiting", "cycle"}
Outcomes == {"none", "skipped", "written", "failed"}
Moments  == Nat \cup {Never}
Memory   == [degraded : BOOLEAN, category : Categories, success : Moments, written : Moments]
Files    == [by : Processes, degraded : BOOLEAN, category : Categories, success : Moments, at : Nat]

Works(p) == mode[p] \in {"waiting", "cycle"}

-----------------------------------------------------------------------------
(* The inductive invariant.                                                *)

StateIsSound ==
  /\ interval \in Intervals /\ now \in Nat /\ lastGood \in Moments /\ lastGood <= now
  /\ lock \in Processes \cup {Nobody}
  /\ mode \in [Processes -> Modes] /\ at \in [Processes -> Nat] /\ due \in [Processes -> Nat]
  /\ mem \in [Processes -> Memory] /\ tried \in [Processes -> Outcomes]
  /\ smooth \in [Processes -> BOOLEAN] /\ (file = NoFile \/ file \in Files)

\* The lock is the working process's; a process that does not work remembers nothing.
LockIsHeld ==
  \A p \in Processes :
    /\ Works(p) => lock = p
    /\ ~Works(p) => mem[p] = New /\ tried[p] = "none" /\ smooth[p]

\* A cycle is not older than MaxCycle, a wait not longer than the interval; nothing went
\* well since the cycle, or the one before the wait, began.
TimesAreKept ==
  \A p \in Processes :
    /\ Works(p) => at[p] <= now /\ lastGood <= at[p]
    /\ mode[p] = "cycle" => now <= at[p] + MaxCycle
    /\ mode[p] = "waiting" => now <= due[p] /\ due[p] <= at[p] + MaxCycle + interval

\* What a process remembers, and the file, are of cycles that were.
Honest(p) ==
  /\ mem[p].degraded <=> mem[p].category # ""
  /\ mem[p].success <= lastGood
  /\ mem[p].written <= now

HealthIsHonest ==
  /\ \A p \in Processes : Honest(p)
  /\ file # NoFile => file.success <= lastGood /\ file.success <= file.at /\ file.at <= now

\* What a process has written is in the file as long as it has the lock.
Kept(p) ==
  /\ mem[p].written # Never => file # NoFile /\ file.by = p /\ file.at = mem[p].written
  /\ tried[p] \in {"written", "skipped"} => mem[p].written # Never
  /\ mem[p].written # Never => tried[p] # "none"
  /\ mode[p] = "waiting" => tried[p] # "none"
  /\ mode[p] = "waiting" /\ tried[p] = "written" =>
       file.degraded = mem[p].degraded /\ file.category = mem[p].category
  /\ mode[p] = "waiting" /\ tried[p] = "skipped" => at[p] < mem[p].written + WriteInterval

\* The file of a process for which all went well is of a good cycle, and not old.
Fresh(p) ==
  smooth[p] =>
    /\ mem[p].category = ""
    /\ tried[p] # "none" =>
         /\ tried[p] # "failed"
         /\ file # NoFile /\ ~file.degraded /\ file.success = file.at
         /\ mode[p] = "waiting" => at[p] < file.at + WriteInterval
         /\ mode[p] = "cycle" => at[p] < file.at + WriteInterval + MaxCycle + interval

FileIsKept == \A p \in Processes : Works(p) => Kept(p) /\ Fresh(p)

HealthInv == StateIsSound /\ LockIsHeld /\ TimesAreKept /\ HealthIsHonest /\ FileIsKept

-----------------------------------------------------------------------------
(* Steps.                                                                  *)

\* The end of a cycle: what is recorded of it, what becomes of the write, and whether the
\* process leaves or waits (recordCycleHealth, failCycle, updateHealth, recordHealth).
Recorded(p, n, ok) ==
  /\ n \in Memory /\ (n.degraded <=> n.category # "") /\ (ok <=> n.category = "")
  /\ n.written = mem[p].written
  /\ n.success = IF ok THEN at[p] ELSE mem[p].success
Waits(p, n, ok, result) ==
  /\ mode' = [mode EXCEPT ![p] = "waiting"] /\ due' = [due EXCEPT ![p] = now + interval]
  /\ mem' = [mem EXCEPT ![p] = WrittenAt(n, at[p], result)]
  /\ tried' = [tried EXCEPT ![p] = result]
  /\ smooth' = [smooth EXCEPT ![p] = smooth[p] /\ ok /\ result # "failed"]
  /\ lock' = lock /\ at' = at
Ended(p, n, ok, result) ==
  /\ mode[p] = "cycle" /\ Recorded(p, n, ok)
  /\ result = "skipped" => ~ShouldWrite(mem[p], n, at[p])
  /\ file' = IF result = "written" THEN Written(p, n, at[p]) ELSE file
  /\ lastGood' = IF ok THEN at[p] ELSE lastGood
  /\ interval' = interval /\ now' = now
  /\ Leave(p, "out", "returned") \/ Waits(p, n, ok, result)

LEMMA EndCycleFacts ==
  ASSUME NEW p \in Processes, NEW o \in {"ok", "registry", "process-enumeration", "reconciliation"},
         NEW w \in BOOLEAN, NEW s \in BOOLEAN, StateIsSound, EndCycle(p, o, w, s)
  PROVE  \E n \in Memory, ok \in BOOLEAN, result \in {"skipped", "written", "failed"} :
           Ended(p, n, ok, result)
<1> DEFINE category == CycleCategory(o)
           n == UpdatedHealth(mem[p], at[p], category)
           ok == o = "ok"
           result == IF ~ShouldWrite(mem[p], n, at[p]) THEN "skipped" ELSE IF w THEN "written" ELSE "failed"
<1>1. mem[p] \in Memory /\ at[p] \in Nat /\ category \in Categories /\ (ok <=> category = "")
  BY DEF StateIsSound, CycleCategory, Categories
<1> HIDE DEF category
<1>2. Recorded(p, n, ok)
  BY <1>1 DEF Recorded, UpdatedHealth, Memory, Moments
<1>3. result \in {"skipped", "written", "failed"} /\ (result = "skipped" => ~ShouldWrite(mem[p], n, at[p]))
  OBVIOUS
<1>4. Leave(p, "out", "returned") \/ Waits(p, n, ok, result)
  BY DEF EndCycle, Waits, category
<1>5. /\ mode[p] = "cycle" /\ interval' = interval /\ now' = now
      /\ file' = IF result = "written" THEN Written(p, n, at[p]) ELSE file
      /\ lastGood' = IF ok THEN at[p] ELSE lastGood
  BY DEF EndCycle, category
<1> HIDE DEF n, result
<1>6. n \in Memory
  BY <1>2 DEF Recorded
<1>7. Ended(p, n, ok, result)
  BY <1>2, <1>3, <1>4, <1>5 DEF Ended
<1> QED
  BY <1>3, <1>6, <1>7

\* The steps of TrackerHealth.
LEMMA Steps ==
  ASSUME StateIsSound, Next
  PROVE  \/ Tick
         \/ \E p \in Processes :
              \/ Start(p) \/ NextCycle(p) \/ Stop(p) \/ Kill(p)
              \/ \E n \in Memory, ok \in BOOLEAN, result \in {"skipped", "written", "failed"} :
                   Ended(p, n, ok, result)
BY EndCycleFacts DEF Next

\* Only the holder of the lock works.
LEMMA Alone ==
  ASSUME LockIsHeld, NEW p \in Processes, Works(p) \/ lock = Nobody
  PROVE  \A q \in Processes : q # p => ~Works(q) /\ mem[q] = New /\ tried[q] = "none" /\ smooth[q]
BY DEF LockIsHeld, Processes, Nobody

\* A process that leaves is as if it had never run.
Left(p) ==
  /\ ~Works(p)' /\ lock' = Nobody
  /\ mem'[p] = New /\ tried'[p] = "none" /\ smooth'[p]
  /\ \A q \in Processes : q # p =>
       /\ mode'[q] = mode[q] /\ at'[q] = at[q] /\ due'[q] = due[q]
       /\ mem'[q] = mem[q] /\ tried'[q] = tried[q] /\ smooth'[q] = smooth[q]

LEMMA Leaving ==
  ASSUME StateIsSound, NEW p \in Processes, NEW next \in {"out", "backoff"}, NEW how,
         Leave(p, next, how)
  PROVE  /\ Left(p)
         /\ mode' \in [Processes -> Modes] /\ at' \in [Processes -> Nat] /\ due' \in [Processes -> Nat]
         /\ mem' \in [Processes -> Memory] /\ tried' \in [Processes -> Outcomes]
         /\ smooth' \in [Processes -> BOOLEAN]
<1>1. New \in Memory
  BY DEF New, Memory, Moments, Never, Categories
<1> QED
  BY <1>1 DEF StateIsSound, Leave, ReleasedLock, Left, Works, Modes, Outcomes

LEMMA StepSound ==
  ASSUME HealthAssumption, HealthInv, Next
  PROVE  StateIsSound'
<1>h. /\ interval \in Intervals /\ interval \in Nat /\ now \in Nat /\ lastGood \in Moments /\ lastGood <= now
      /\ lock \in Processes \cup {Nobody}
      /\ mode \in [Processes -> Modes] /\ at \in [Processes -> Nat] /\ due \in [Processes -> Nat]
      /\ mem \in [Processes -> Memory] /\ tried \in [Processes -> Outcomes]
      /\ smooth \in [Processes -> BOOLEAN] /\ (file = NoFile \/ file \in Files)
  BY DEF HealthInv, StateIsSound, HealthAssumption
<1>1. CASE Tick
  <2>1. lastGood <= now + 1 /\ now + 1 \in Nat
    BY <1>h DEF Moments, Never
  <2> QED
    BY <1>1, <1>h, <2>1 DEF Tick, StateIsSound
<1>2. ASSUME NEW p \in Processes, Start(p) \/ NextCycle(p) PROVE StateIsSound'
  BY <1>2, <1>h DEF Start, NextCycle, StateIsSound, Modes
<1>3. ASSUME NEW p \in Processes, Stop(p) \/ Kill(p) PROVE StateIsSound'
  <2>1. \E next \in {"out", "backoff"}, how \in {"returned", "killed"} : Leave(p, next, how)
    BY <1>3 DEF Stop, Kill
  <2>2. lock' = Nobody
    BY <1>3 DEF Stop, Kill, Leave, ReleasedLock
  <2>3. UNCHANGED <<interval, now, lastGood, file>>
    BY <1>3 DEF Stop, Kill
  <2> QED
    BY <1>h, <2>1, <2>2, <2>3, Leaving DEF HealthInv, StateIsSound
<1>4. ASSUME NEW p \in Processes, NEW n \in Memory, NEW ok \in BOOLEAN,
             NEW result \in {"skipped", "written", "failed"}, Ended(p, n, ok, result)
      PROVE  StateIsSound'
  <2>1. lastGood' \in Moments /\ lastGood' <= now'
    BY <1>4, <1>h DEF Ended, HealthInv, TimesAreKept, Works, Moments
  <2>2. file' = NoFile \/ file' \in Files
    BY <1>4, <1>h DEF Ended, Written, Files, Memory
  <2>3. lock' \in Processes \cup {Nobody}
    BY <1>4, <1>h DEF Ended, Leave, ReleasedLock, Waits
  <2>4. CASE Leave(p, "out", "returned")
    <3>1. "out" \in {"out", "backoff"}
      OBVIOUS
    <3> QED
      BY <1>4, <1>h, <2>1, <2>2, <2>3, <2>4, <3>1, Leaving DEF Ended, HealthInv, StateIsSound
  <2>5. CASE Waits(p, n, ok, result)
    <3>1. WrittenAt(n, at[p], result) \in Memory /\ now + interval \in Nat
      BY <1>h DEF WrittenAt, Memory, Moments
    <3>2. mem' \in [Processes -> Memory] /\ due' \in [Processes -> Nat]
      BY <1>h, <2>5, <3>1 DEF Waits
    <3>3. /\ mode' \in [Processes -> Modes] /\ at' \in [Processes -> Nat]
          /\ tried' \in [Processes -> Outcomes] /\ smooth' \in [Processes -> BOOLEAN]
      BY <1>h, <2>5 DEF Waits, Modes, Outcomes
    <3> QED
      BY <1>4, <1>h, <2>1, <2>2, <2>3, <3>2, <3>3 DEF Ended, StateIsSound
  <2> QED
    BY <1>4, <2>4, <2>5 DEF Ended
<1> QED
  BY <1>1, <1>2, <1>3, <1>4, Steps DEF HealthInv

LEMMA StepLock ==
  ASSUME HealthInv, Next
  PROVE  LockIsHeld'
<1>h. /\ mode \in [Processes -> Modes] /\ mem \in [Processes -> Memory]
      /\ tried \in [Processes -> Outcomes] /\ smooth \in [Processes -> BOOLEAN]
      /\ StateIsSound /\ LockIsHeld
  BY DEF HealthInv, StateIsSound
<1>1. CASE Tick
  BY <1>1, <1>h DEF Tick, LockIsHeld, Works
<1>2. ASSUME NEW p \in Processes, Start(p) \/ NextCycle(p) PROVE LockIsHeld'
  <2>1. Works(p) \/ lock = Nobody
    BY <1>2 DEF Start, NextCycle, Works
  <2>2. lock' = p
    BY <1>2, <1>h DEF Start, NextCycle, LockIsHeld, Works
  <2>3. /\ mode' = [mode EXCEPT ![p] = "cycle"]
        /\ mem' = mem /\ tried' = tried /\ smooth' = smooth
    BY <1>2 DEF Start, NextCycle
  <2> QED
    BY <1>h, <2>1, <2>2, <2>3, Alone DEF LockIsHeld, Works
<1>3. ASSUME NEW p \in Processes, Left(p), Works(p) PROVE LockIsHeld'
  BY <1>3, <1>h, Alone DEF Left, LockIsHeld, Works
<1>4. ASSUME NEW p \in Processes, Stop(p) \/ Kill(p) PROVE LockIsHeld'
  <2>1. \E next \in {"out", "backoff"}, how \in {"returned", "killed"} : Leave(p, next, how)
    BY <1>4 DEF Stop, Kill
  <2>2. Works(p)
    BY <1>4 DEF Stop, Kill, Works
  <2> QED
    BY <1>h, <1>3, <2>1, <2>2, Leaving
<1>5. ASSUME NEW p \in Processes, NEW n \in Memory, NEW ok \in BOOLEAN,
             NEW result \in {"skipped", "written", "failed"}, Ended(p, n, ok, result)
      PROVE  LockIsHeld'
  <2>1. Works(p)
    BY <1>5 DEF Ended, Works
  <2>2. CASE Leave(p, "out", "returned")
    <3>1. "out" \in {"out", "backoff"}
      OBVIOUS
    <3> QED
      BY <1>h, <1>3, <2>1, <2>2, <3>1, Leaving
  <2>3. CASE Waits(p, n, ok, result)
    BY <1>h, <2>1, <2>3, Alone DEF Waits, LockIsHeld, Works
  <2> QED
    BY <1>5, <2>2, <2>3 DEF Ended
<1> QED
  BY <1>1, <1>2, <1>4, <1>5, <1>h, Steps

\* When a process has left, nobody works.
LEMMA LeftAlone ==
  ASSUME HealthInv, NEW p \in Processes, Works(p), Left(p)
  PROVE  \A q \in Processes : ~Works(q)'
BY Alone DEF HealthInv, Left, Works

\* Stopped and killed processes leave.
LEMMA Quitting ==
  ASSUME HealthInv, NEW p \in Processes, Stop(p) \/ Kill(p)
  PROVE  Works(p) /\ Left(p) /\ UNCHANGED <<interval, now, lastGood, file>>
<1>1. \E next \in {"out", "backoff"}, how \in {"returned", "killed"} : Leave(p, next, how)
  BY DEF Stop, Kill
<1>2. Works(p) /\ UNCHANGED <<interval, now, lastGood, file>>
  BY DEF Stop, Kill, Works
<1> QED
  BY <1>1, <1>2, Leaving DEF HealthInv

\* A cycle that ends leaves its process waiting, or gone.
LEMMA Ending ==
  ASSUME HealthInv, NEW p \in Processes, NEW n \in Memory, NEW ok \in BOOLEAN,
         NEW result \in {"skipped", "written", "failed"}, Ended(p, n, ok, result)
  PROVE  Works(p) /\ (Left(p) \/ Waits(p, n, ok, result))
<1>1. "out" \in {"out", "backoff"} /\ Works(p)
  BY DEF Ended, Works
<1> QED
  BY <1>1, Leaving DEF HealthInv, Ended

LEMMA StepTimes ==
  ASSUME HealthAssumption, HealthInv, Next
  PROVE  TimesAreKept'
<1>h. /\ interval \in Nat /\ MaxCycle \in Nat /\ now \in Nat /\ lastGood \in Moments /\ lastGood <= now
      /\ mode \in [Processes -> Modes] /\ at \in [Processes -> Nat] /\ due \in [Processes -> Nat]
      /\ StateIsSound /\ LockIsHeld /\ TimesAreKept
  BY DEF HealthInv, StateIsSound, HealthAssumption
<1>t. \A q \in Processes :
        /\ at[q] \in Nat /\ due[q] \in Nat
        /\ Works(q) => at[q] <= now /\ lastGood <= at[q]
        /\ mode[q] = "cycle" => now <= at[q] + MaxCycle
        /\ mode[q] = "waiting" => now <= due[q] /\ due[q] <= at[q] + MaxCycle + interval
  BY <1>h DEF TimesAreKept
<1>1. CASE Tick
  <2>1. /\ now' = now + 1 /\ mode' = mode /\ at' = at /\ due' = due /\ lastGood' = lastGood
        /\ interval' = interval
        /\ \A q \in Processes : mode[q] = "cycle" => now - at[q] < MaxCycle
        /\ \A q \in Processes : mode[q] = "waiting" => now < due[q]
    BY <1>1 DEF Tick
  <2> QED
    BY <1>h, <1>t, <2>1 DEF TimesAreKept, Works
<1>2. ASSUME NEW p \in Processes, Start(p) \/ NextCycle(p) PROVE TimesAreKept'
  <2>1. /\ mode' = [mode EXCEPT ![p] = "cycle"] /\ at' = [at EXCEPT ![p] = now]
        /\ now' = now /\ lastGood' = lastGood /\ interval' = interval
        /\ Works(p) \/ lock = Nobody
    BY <1>2 DEF Start, NextCycle, Works
  <2>2. \A q \in Processes : q # p => ~Works(q)
    BY <1>h, <2>1, Alone
  <2> QED
    BY <1>h, <2>1, <2>2 DEF TimesAreKept, Works
<1>3. ASSUME NEW p \in Processes, Works(p), Left(p) PROVE TimesAreKept'
  BY <1>3, LeftAlone DEF TimesAreKept, Works
<1>4. ASSUME NEW p \in Processes, NEW n \in Memory, NEW ok \in BOOLEAN,
             NEW result \in {"skipped", "written", "failed"}, Ended(p, n, ok, result),
             Waits(p, n, ok, result)
      PROVE  TimesAreKept'
  <2>1. /\ mode' = [mode EXCEPT ![p] = "waiting"] /\ at' = at /\ now' = now /\ interval' = interval
        /\ due' = [due EXCEPT ![p] = now + interval]
        /\ lastGood' = (IF ok THEN at[p] ELSE lastGood) /\ mode[p] = "cycle" /\ Works(p)
    BY <1>4 DEF Ended, Waits, Works
  <2>2. \A q \in Processes : q # p => ~Works(q)
    BY <1>h, <2>1, Alone
  <2>3. at[p] <= now /\ lastGood' <= at[p] /\ now <= at[p] + MaxCycle
    BY <1>h, <1>t, <2>1
  <2>4. ASSUME NEW q \in Processes, Works(q)'
        PROVE  q = p /\ at'[q] = at[p] /\ mode'[q] = "waiting" /\ due'[q] = now + interval
    BY <1>h, <2>1, <2>2, <2>4 DEF Works
  <2>5. now <= now + interval /\ now + interval <= at[p] + MaxCycle + interval
    BY <1>h, <1>t, <2>3
  <2> QED
    BY <2>1, <2>3, <2>4, <2>5 DEF TimesAreKept, Works
<1> QED
  BY <1>1, <1>2, <1>3, <1>4, <1>h, Steps, Quitting, Ending

LEMMA StepHonest ==
  ASSUME HealthAssumption, HealthInv, Next
  PROVE  HealthIsHonest'
<1>h. /\ now \in Nat /\ lastGood \in Moments /\ lastGood <= now
      /\ mem \in [Processes -> Memory] /\ at \in [Processes -> Nat]
      /\ file = NoFile \/ file \in Files
      /\ StateIsSound /\ LockIsHeld /\ TimesAreKept /\ HealthIsHonest
  BY DEF HealthInv, StateIsSound
<1>m. \A m \in Memory : m.success \in Moments /\ m.written \in Moments
  BY DEF Memory
<1>f. \A f \in Files : f.success \in Moments /\ f.at \in Nat
  BY DEF Files
<1>t. lastGood' \in Moments /\ now' \in Nat
  BY StepSound DEF StateIsSound
<1>i. Moments \subseteq Int
  BY DEF Moments, Never
<1>j. /\ \A q \in Processes : mem[q].success \in Int /\ mem[q].written \in Int
      /\ file # NoFile => file.success \in Int /\ file.at \in Int
      /\ lastGood \in Int /\ lastGood' \in Int /\ now \in Int /\ now' \in Int
  <2>1. ASSUME NEW q \in Processes PROVE mem[q].success \in Int /\ mem[q].written \in Int
    <3>1. mem[q] \in Memory
      BY <1>h
    <3> QED
      BY <1>m, <1>i, <3>1
  <2>2. file # NoFile => file.success \in Int /\ file.at \in Int
    <3> SUFFICES ASSUME file # NoFile PROVE file.success \in Int /\ file.at \in Int
      OBVIOUS
    <3>1. file \in Files
      BY <1>h
    <3>2. file.success \in Moments /\ file.at \in Nat
      BY <1>f, <3>1
    <3> QED
      BY <3>2 DEF Moments, Never
  <2>3. lastGood \in Int /\ lastGood' \in Int
    BY <1>h, <1>t, <1>i
  <2>4. now \in Int /\ now' \in Int
    BY <1>h, <1>t
  <2> QED
    BY <2>1, <2>2, <2>3, <2>4
<1>k. /\ \A q \in Processes : /\ mem[q].degraded <=> mem[q].category # ""
                             /\ mem[q].success <= lastGood /\ mem[q].written <= now
      /\ file # NoFile => file.success <= lastGood /\ file.success <= file.at /\ file.at <= now
  BY <1>h DEF HealthIsHonest, Honest
<1>n. /\ ~New.degraded /\ New.category = "" /\ New.success \in Moments /\ New.written \in Moments
      /\ \A x \in Moments : New.success <= x /\ New.written <= x
  BY DEF New, Never, Moments
<1>1. ASSUME mem' = mem, file' = file, lastGood' = lastGood, now' \in {now, now + 1}
      PROVE  HealthIsHonest'
  <2>1. \A q \in Processes : Honest(q)'
    <3> SUFFICES ASSUME NEW q \in Processes PROVE Honest(q)'
      OBVIOUS
    <3>1. mem[q].written <= now'
      <4>1. mem[q].written \in Int /\ mem[q].written <= now /\ now \in Int
        BY <1>j, <1>k
      <4> QED
        BY <1>1, <4>1
    <3> QED
      BY <1>1, <1>k, <3>1 DEF Honest
  <2>2. ASSUME file # NoFile PROVE file.at <= now'
    <3>1. file.at \in Int /\ file.at <= now /\ now \in Int
      BY <1>j, <1>k, <2>2
    <3> QED
      BY <1>1, <3>1
  <2> QED
    BY <1>1, <1>k, <2>1, <2>2 DEF HealthIsHonest
<1>2. ASSUME NEW p \in Processes, Start(p) \/ NextCycle(p) PROVE HealthIsHonest'
  BY <1>2, <1>1 DEF Start, NextCycle
<1>3. ASSUME NEW p \in Processes, Left(p), UNCHANGED <<interval, now, lastGood, file>>
      PROVE  HealthIsHonest'
  <2>1. \A q \in Processes : mem'[q] = mem[q] \/ mem'[q] = New
    BY <1>3 DEF Left
  <2>2. now \in Moments
    BY <1>h DEF Moments
  <2>3. \A q \in Processes : Honest(q)'
    BY <1>3, <1>h, <1>n, <2>1, <2>2 DEF HealthIsHonest, Honest
  <2> QED
    BY <1>3, <1>h, <2>3 DEF HealthIsHonest
<1>4. ASSUME NEW p \in Processes, NEW n \in Memory, NEW ok \in BOOLEAN,
             NEW result \in {"skipped", "written", "failed"}, Ended(p, n, ok, result)
      PROVE  HealthIsHonest'
  <2>1. /\ at[p] \in Nat /\ at[p] <= now /\ lastGood <= at[p] /\ now' = now
        /\ lastGood' = (IF ok THEN at[p] ELSE lastGood)
    BY <1>4, <1>h DEF Ended, TimesAreKept, Works
  <2>2. lastGood <= lastGood' /\ lastGood' <= at[p]
    BY <1>h, <1>i, <2>1
  <2>3. /\ n.degraded <=> n.category # "" 
        /\ n.success = (IF ok THEN at[p] ELSE mem[p].success) /\ n.written = mem[p].written
        /\ n.success \in Moments
    BY <1>4, <1>m DEF Ended, Recorded
  <2>4. n.success <= lastGood'
    BY <1>h, <1>i, <1>m, <2>1, <2>2, <2>3 DEF HealthIsHonest, Honest
  <2>5. file' # NoFile => file'.success <= lastGood' /\ file'.success <= file'.at /\ file'.at <= now
    <3>1. CASE result = "written"
      <4>1. file'.success = n.success /\ file'.at = at[p]
        BY <1>4, <3>1 DEF Ended, Written
      <4> QED
        <5>1. n.success \in Int /\ n.success <= at[p]
          <6>1. n.success \in Int
            <7>1. n.success \in Moments
              BY <2>3
            <7> QED
              BY <7>1 DEF Moments, Never
          <6>2. lastGood' \in Int /\ at[p] \in Int
            BY <1>j, <2>1
          <6> QED
            BY <2>2, <2>4, <6>1, <6>2
        <5> QED
          BY <2>1, <2>4, <4>1, <5>1
    <3>2. CASE result # "written"
      <4>1. file' = file
        BY <1>4, <3>2 DEF Ended
      <4> QED
        <5> SUFFICES ASSUME file # NoFile
                     PROVE  file.success <= lastGood' /\ file.success <= file.at /\ file.at <= now
          BY <4>1
        <5>1. /\ file.success \in Int /\ lastGood \in Int /\ lastGood' \in Int
              /\ file.success <= lastGood /\ file.success <= file.at /\ file.at <= now
          BY <1>j, <1>k
        <5> QED
          BY <2>2, <5>1
    <3> QED
      BY <3>1, <3>2
  <2>6. \A q \in Processes : mem'[q] = mem[q] => Honest(q)'
    <3> SUFFICES ASSUME NEW q \in Processes, mem'[q] = mem[q] PROVE Honest(q)'
      OBVIOUS
    <3>1. mem[q].success <= lastGood'
      <4>1. mem[q].success \in Int /\ lastGood \in Int /\ lastGood' \in Int /\ mem[q].success <= lastGood
        BY <1>j, <1>k
      <4> QED
        BY <2>2, <4>1
    <3> QED
      BY <1>k, <2>1, <3>1 DEF Honest
  <2>7. CASE Left(p)
    <3>1. \A q \in Processes : mem'[q] = mem[q] \/ mem'[q] = New
      BY <2>7 DEF Left
    <3>2. now' \in Moments
      BY <1>t DEF Moments
    <3>3. \A q \in Processes : Honest(q)'
      BY <1>n, <1>t, <2>6, <3>1, <3>2 DEF Honest
    <3> QED
      BY <2>1, <2>5, <3>3 DEF HealthIsHonest
  <2>8. CASE Waits(p, n, ok, result)
    <3>1. \A q \in Processes : q # p => mem'[q] = mem[q]
      BY <1>h, <2>8 DEF Waits
    <3>2. mem'[p] = WrittenAt(n, at[p], result)
      BY <1>h, <2>8 DEF Waits
    <3>3. /\ mem'[p].degraded = n.degraded /\ mem'[p].category = n.category
          /\ mem'[p].success = n.success /\ mem'[p].written \in {n.written, at[p]}
      BY <3>2 DEF WrittenAt, Memory
    <3>4. mem[p].written <= now
      BY <1>h DEF HealthIsHonest, Honest
    <3>5. Honest(p)'
      BY <2>1, <2>3, <2>4, <3>3, <3>4 DEF Honest
    <3> QED
      BY <2>1, <2>5, <2>6, <3>1, <3>5 DEF HealthIsHonest
  <2> QED
    BY <1>4, <2>7, <2>8, Ending
<1>5. CASE Tick
  BY <1>5, <1>1 DEF Tick
<1> QED
  BY <1>2, <1>3, <1>4, <1>5, <1>h, Steps, Quitting
\* What the three outcomes of a write leave in the file and in the process that waits.
LEMMA WaitsKept ==
  ASSUME HealthAssumption, HealthInv, NEW p \in Processes, NEW n \in Memory, NEW ok \in BOOLEAN,
         NEW result \in {"skipped", "written", "failed"}, Ended(p, n, ok, result),
         Waits(p, n, ok, result)
  PROVE  Kept(p)' /\ Fresh(p)'
<1>h. /\ WriteInterval \in Nat \ {0} /\ at[p] \in Nat /\ mem[p] \in Memory /\ n \in Memory
      /\ mode \in [Processes -> Modes] /\ mem \in [Processes -> Memory]
      /\ tried \in [Processes -> Outcomes] /\ smooth \in [Processes -> BOOLEAN]
      /\ Kept(p) /\ Fresh(p)
  BY DEF HealthInv, StateIsSound, HealthAssumption, FileIsKept, Works, Ended
<1>1. /\ mode'[p] = "waiting" /\ mem'[p] = WrittenAt(n, at[p], result) /\ tried'[p] = result
      /\ smooth'[p] = (smooth[p] /\ ok /\ result # "failed") /\ at'[p] = at[p]
      /\ file' = IF result = "written" THEN Written(p, n, at[p]) ELSE file
  BY <1>h DEF Waits, Ended
<1>2. /\ n.degraded <=> n.category # ""
      /\ ok <=> n.category = ""
      /\ n.written = mem[p].written
      /\ n.success = IF ok THEN at[p] ELSE mem[p].success
  BY DEF Ended, Recorded
<1>3. CASE result = "written"
  <2>1. /\ mem'[p].written = at[p] /\ mem'[p].degraded = n.degraded /\ mem'[p].category = n.category
    BY <1>h, <1>1, <1>3 DEF WrittenAt, Memory
  <2>2. /\ file' # NoFile /\ file'.by = p /\ file'.at = at[p] /\ file'.degraded = n.degraded
        /\ file'.category = n.category /\ file'.success = n.success
    <3>1. file' = Written(p, n, at[p])
      BY <1>1, <1>3
    <3>2. Written(p, n, at[p]).by = p /\ NoFile.by = Nobody /\ p # Nobody
      BY DEF Written, NoFile, Processes, Nobody
    <3> QED
      BY <3>1, <3>2 DEF Written
  <2>3. Kept(p)'
    <3>1. mem'[p].written # Never
      BY <1>h, <2>1 DEF Never
    <3> QED
      BY <1>1, <1>3, <2>1, <2>2, <3>1 DEF Kept
  <2>4. at[p] < at[p] + WriteInterval
    BY <1>h
  <2>5. Fresh(p)'
    BY <1>1, <1>2, <1>3, <2>1, <2>2, <2>4 DEF Fresh
  <2> QED
    BY <2>3, <2>5
<1>4. CASE result = "failed"
  <2>1. mem'[p] = n /\ file' = file
    BY <1>1, <1>4 DEF WrittenAt
  <2>2. Kept(p)'
    BY <1>h, <1>1, <1>2, <1>4, <2>1 DEF Kept
  <2>3. Fresh(p)'
    BY <1>1, <1>4 DEF Fresh
  <2> QED
    BY <2>2, <2>3
<1>5. CASE result = "skipped"
  <2>1. mem'[p] = n /\ file' = file
    BY <1>1, <1>5 DEF WrittenAt
  <2>2. /\ mem[p].written # Never /\ n.degraded = mem[p].degraded /\ n.category = mem[p].category
        /\ ~(at[p] - mem[p].written >= WriteInterval)
    BY <1>5 DEF Ended, ShouldWrite
  <2>3. at[p] < mem[p].written + WriteInterval
    <3>1. mem[p].written \in Nat
      BY <1>h, <2>2 DEF Memory, Moments
    <3> QED
      BY <1>h, <2>2, <3>1
  <2>4. file # NoFile /\ file.by = p /\ file.at = mem[p].written /\ tried[p] # "none"
    BY <1>h, <2>2 DEF Kept
  <2>5. Kept(p)'
    BY <1>1, <1>2, <1>5, <2>1, <2>2, <2>3, <2>4 DEF Kept
  <2>6. Fresh(p)'
    BY <1>h, <1>1, <1>2, <1>5, <2>1, <2>2, <2>3, <2>4 DEF Fresh
  <2> QED
    BY <2>5, <2>6
<1> QED
  BY <1>3, <1>4, <1>5

LEMMA StepFile ==
  ASSUME HealthAssumption, HealthInv, Next
  PROVE  FileIsKept'
<1>h. /\ interval \in Nat /\ MaxCycle \in Nat /\ now \in Nat /\ WriteInterval \in Nat
      /\ mode \in [Processes -> Modes] /\ at \in [Processes -> Nat] /\ due \in [Processes -> Nat]
      /\ file = NoFile \/ file \in Files
      /\ StateIsSound /\ LockIsHeld /\ TimesAreKept /\ FileIsKept
  BY DEF HealthInv, StateIsSound, HealthAssumption
<1>1. CASE Tick
  BY <1>1, <1>h DEF Tick, FileIsKept, Kept, Fresh, Works
<1>2. ASSUME NEW p \in Processes, Start(p) PROVE FileIsKept'
  <2>1. /\ ~Works(p) /\ lock = Nobody /\ mem' = mem /\ tried' = tried
        /\ mode' = [mode EXCEPT ![p] = "cycle"]
    BY <1>2 DEF Start, Wanted, Works
  <2>2. mem'[p] = New /\ tried'[p] = "none"
    BY <1>h, <2>1 DEF LockIsHeld
  <2>n. New.written = Never /\ New.category = ""
    BY DEF New
  <2>3. Kept(p)'
    <3>1. mem'[p].written = Never /\ mode'[p] = "cycle"
      BY <1>h, <2>1, <2>2, <2>n
    <3> QED
      BY <2>2, <3>1 DEF Kept
  <2>4. Fresh(p)'
    <3>1. mem'[p].category = ""
      BY <2>2, <2>n
    <3> QED
      BY <2>2, <3>1 DEF Fresh
  <2>5. \A q \in Processes : q # p => ~Works(q)'
    BY <1>h, <2>1, Alone DEF Works
  <2> QED
    BY <2>3, <2>4, <2>5 DEF FileIsKept
<1>3. ASSUME NEW p \in Processes, NextCycle(p) PROVE FileIsKept'
  <2>1. /\ mode[p] = "waiting" /\ due[p] = now /\ Works(p) /\ mode'[p] = "cycle" /\ at'[p] = now
        /\ mem' = mem /\ tried' = tried /\ smooth' = smooth /\ file' = file /\ interval' = interval
        /\ mode' = [mode EXCEPT ![p] = "cycle"]
    BY <1>3, <1>h DEF NextCycle, Works
  <2>2. Kept(p) /\ Fresh(p)
    BY <1>h, <2>1 DEF FileIsKept
  <2>3. Kept(p)'
    BY <2>1, <2>2 DEF Kept
  <2>4. now <= at[p] + MaxCycle + interval
    BY <1>h, <2>1 DEF TimesAreKept
  <2>5. ASSUME file # NoFile, at[p] < file.at + WriteInterval
        PROVE  now < file.at + WriteInterval + MaxCycle + interval
    <3>1. file.at \in Nat /\ at[p] \in Nat
      BY <1>h, <2>5 DEF Files
    <3> QED
      BY <1>h, <2>4, <2>5, <3>1
  <2>6. Fresh(p)'
    BY <2>1, <2>2, <2>5 DEF Fresh
  <2>7. \A q \in Processes : q # p => ~Works(q)'
    BY <1>h, <2>1, Alone DEF Works
  <2> QED
    BY <2>3, <2>6, <2>7 DEF FileIsKept
<1>4. ASSUME NEW p \in Processes, Works(p), Left(p) PROVE FileIsKept'
  BY <1>4, LeftAlone DEF FileIsKept
<1>5. ASSUME NEW p \in Processes, NEW n \in Memory, NEW ok \in BOOLEAN,
             NEW result \in {"skipped", "written", "failed"}, Ended(p, n, ok, result),
             Waits(p, n, ok, result)
      PROVE  FileIsKept'
  <2>1. Kept(p)' /\ Fresh(p)'
    BY <1>5, WaitsKept
  <2>2. \A q \in Processes : q # p => ~Works(q)'
    <3>1. Works(p) /\ mode' = [mode EXCEPT ![p] = "waiting"]
      BY <1>5 DEF Ended, Waits, Works
    <3> QED
      BY <1>h, <3>1, Alone DEF Works
  <2> QED
    BY <2>1, <2>2 DEF FileIsKept
<1> QED
  BY <1>1, <1>2, <1>3, <1>4, <1>5, <1>h, Steps, Quitting, Ending

LEMMA InitSound ==
  ASSUME HealthAssumption, Init
  PROVE  HealthInv
<1>1. New \in Memory
  BY DEF New, Memory, Moments, Never, Categories
<1>2. StateIsSound
  <2>1. lastGood \in Moments /\ lastGood <= now
    BY DEF Init, Moments, Never
  <2> QED
    BY <1>1, <2>1 DEF Init, StateIsSound, Modes, Outcomes
<1>3. \A p \in Processes : ~Works(p) /\ mem[p] = New /\ tried[p] = "none" /\ smooth[p] /\ mode[p] # "cycle" /\ mode[p] # "waiting"
  BY DEF Init, Works
<1>4. LockIsHeld /\ TimesAreKept /\ FileIsKept
  BY <1>3 DEF LockIsHeld, TimesAreKept, FileIsKept
<1>5. HealthIsHonest
  <2>1. /\ ~New.degraded /\ New.category = "" /\ New.success = Never /\ New.written = Never
    BY DEF New
  <2>2. lastGood = Never /\ now = 0 /\ file = NoFile /\ Never <= Never /\ Never <= 0
    BY DEF Init, Never
  <2> QED
    BY <1>3, <2>1, <2>2 DEF HealthIsHonest, Honest
<1> QED
  BY <1>2, <1>4, <1>5 DEF HealthInv
\* The invariant of TrackerHealth.
THEOREM HealthInvariance ==
  ASSUME HealthAssumption
  PROVE  Spec => []HealthInv
<1>1. Init => HealthInv
  BY InitSound
<1>2. HealthInv /\ [Next]_vars => HealthInv'
  <2>1. ASSUME HealthInv, Next PROVE HealthInv'
    BY <2>1, StepSound, StepLock, StepTimes, StepHonest, StepFile DEF HealthInv
  <2>2. ASSUME HealthInv, UNCHANGED vars PROVE HealthInv'
    <3>1. StateIsSound' /\ LockIsHeld'
      BY <2>2 DEF HealthInv, vars, StateIsSound, LockIsHeld, Works
    <3>2. TimesAreKept' /\ HealthIsHonest'
      BY <2>2 DEF HealthInv, vars, TimesAreKept, Works, HealthIsHonest, Honest
    <3>3. FileIsKept'
      BY <2>2 DEF HealthInv, vars, FileIsKept, Kept, Fresh, Works
    <3> QED
      BY <3>1, <3>2, <3>3 DEF HealthInv
  <2> QED
    BY <2>1, <2>2
<1> QED
  BY <1>1, <1>2, PTL DEF Spec

-----------------------------------------------------------------------------
(* What a reader of the file is told.                                      *)

\* The limit of resolveEffectiveMaxAge: three intervals, and never less than the minimum.
LEMMA LimitIsLarger ==
  ASSUME HealthAssumption, NEW i \in Nat
  PROVE  EffectiveMaxAge(i) \in Nat /\ EffectiveMaxAge(i) >= 3 * i /\ EffectiveMaxAge(i) >= MinAge
<1> DEFINE both == {3 * i, MinAge}
<1>1. 3 * i \in Nat /\ MinAge \in Nat
  BY DEF HealthAssumption
<1>2. \E x \in both : \A y \in both : x >= y
  BY <1>1
<1>3. Max(both) \in both /\ \A y \in both : Max(both) >= y
  BY <1>2 DEF Max
<1> QED
  BY <1>1, <1>3 DEF EffectiveMaxAge

\* The lock is the working process's, and no recorded moment lies in the future.
THEOREM HealthTypes ==
  ASSUME HealthAssumption
  PROVE  Spec => []TypeOK
<1>1. HealthInv => TypeOK
  <2> SUFFICES ASSUME HealthInv PROVE TypeOK
    OBVIOUS
  <2>1. lock \in Processes \cup {Nobody} /\ mode \in [Processes -> Modes]
    BY DEF HealthInv, StateIsSound
  <2>2. ASSUME NEW p \in Processes
        PROVE  /\ mode[p] \in Modes
               /\ mode[p] \in {"waiting", "cycle"} => lock = p
               /\ mem[p].category \in Categories
               /\ mem[p].degraded <=> mem[p].category # ""
               /\ mem[p].success <= now /\ mem[p].written <= now
    <3>1. mem[p] \in Memory
      BY DEF HealthInv, StateIsSound
    <3>2. mem[p].success <= lastGood /\ lastGood <= now
      BY DEF HealthInv, StateIsSound, HealthIsHonest, Honest
    <3>3. mem[p].success \in Int /\ lastGood \in Int /\ now \in Int
      <4>1. mem[p].success \in Moments /\ lastGood \in Moments
        BY <3>1 DEF HealthInv, StateIsSound, Memory
      <4>2. now \in Nat
        BY DEF HealthInv, StateIsSound
      <4> QED
        BY <4>1, <4>2 DEF Moments, Never
    <3>4. mem[p].success <= now
      BY <3>2, <3>3
    <3>5. mem[p].category \in Categories
      BY <3>1 DEF Memory
    <3>6. (mem[p].degraded <=> mem[p].category # "") /\ mem[p].written <= now
      BY DEF HealthInv, HealthIsHonest, Honest
    <3>7. mode[p] \in {"waiting", "cycle"} => lock = p
      BY DEF HealthInv, LockIsHeld, Works
    <3> QED
      BY <2>1, <3>4, <3>5, <3>6, <3>7
  <2>3. file # NoFile => file.success <= file.at /\ file.at <= now
    BY DEF HealthInv, HealthIsHonest
  <2> QED
    BY <2>1, <2>2, <2>3 DEF TypeOK, Modes
<1> QED
  BY <1>1, HealthInvariance, PTL

\* When the file reads healthy, the tracker reconciled everything within the limit: one that
\* died, hangs or only fails is shown once the limit has passed.
THEOREM HealthyMeansRecent ==
  ASSUME HealthAssumption
  PROVE  Spec => []HealthyIsRecent
<1>1. HealthInv => HealthyIsRecent
  <2> SUFFICES ASSUME HealthInv, ReadTrackerHealth(file, now) = "healthy"
               PROVE  lastGood # Never /\ now - lastGood <= EffectiveMaxAge(interval)
    BY DEF HealthyIsRecent, EffectiveMaxAge
  <2>1. file \in Files /\ file # NoFile /\ file.success # Never
        /\ ~(now - file.success > EffectiveMaxAge(interval))
    <3>1. file # NoFile /\ ~file.degraded
      BY DEF ReadTrackerHealth
    <3>2. file \in Files
      BY <3>1 DEF HealthInv, StateIsSound
    <3> QED
      BY <3>1, <3>2 DEF ReadTrackerHealth
  <2>2. file.success \in Nat
    BY <2>1 DEF Files, Moments
  <2>3. file.success <= lastGood /\ lastGood \in Moments /\ now \in Nat /\ interval \in Nat
    BY <2>1 DEF HealthInv, HealthIsHonest, StateIsSound, HealthAssumption
  <2>4. lastGood \in Nat
    BY <2>2, <2>3 DEF Moments, Never
  <2>5. EffectiveMaxAge(interval) \in Nat
    BY <2>3, LimitIsLarger
  <2>6. lastGood # Never
    BY <2>4 DEF Never
  <2> QED
    BY <2>1, <2>2, <2>3, <2>4, <2>5, <2>6
<1> QED
  BY <1>1, HealthInvariance, PTL

\* Between two cycles the file tells how the last one ended, unless its write failed; a write
\* that is skipped because nothing changed leaves a file younger than healthWriteInterval.
THEOREM ChangesAreTold ==
  ASSUME HealthAssumption
  PROVE  Spec => []ToldInTime
<1>1. HealthInv => ToldInTime
  <2> SUFFICES ASSUME HealthInv, NEW p \in Processes, mode[p] = "waiting"
               PROVE  \/ /\ file.by = p
                         /\ file.degraded = mem[p].degraded /\ file.category = mem[p].category
                      \/ tried[p] = "failed"
                      \/ tried[p] = "skipped" /\ file.by = p /\ at[p] - file.at < WriteInterval
    BY DEF ToldInTime
  <2>1. Kept(p) /\ tried[p] \in Outcomes
    BY DEF HealthInv, FileIsKept, Works, StateIsSound
  <2>2. CASE tried[p] = "written"
    BY <2>1, <2>2 DEF Kept
  <2>3. CASE tried[p] = "skipped"
    <3>1. mem[p].written # Never /\ file.by = p /\ file.at = mem[p].written
          /\ at[p] < mem[p].written + WriteInterval
      BY <2>1, <2>3 DEF Kept
    <3>2. at[p] \in Nat /\ mem[p].written \in Nat /\ WriteInterval \in Nat
      BY <3>1 DEF HealthInv, StateIsSound, Memory, Moments, HealthAssumption
    <3> QED
      BY <2>3, <3>1, <3>2
  <2> QED
    BY <2>1, <2>2, <2>3 DEF Kept, Outcomes
<1> QED
  BY <1>1, HealthInvariance, PTL

\* What the limit must leave room for: the file may be a write interval old when a cycle that
\* wrote nothing began, that cycle and the next may each be as long as MaxCycle, with an
\* interval between them. With the 30 seconds and 2 minutes of the code it holds for every
\* interval when cycles last up to 30 seconds, for a 15 second interval up to 45.
CyclesAreShort ==
  \A i \in Intervals : WriteInterval + 2 * MaxCycle + i - 1 <= EffectiveMaxAge(i)

\* When the limit leaves that room, a tracker for which all goes well is never shown as
\* stale, degraded or missing, although most of its cycles write nothing.
THEOREM HealthyStaysHealthy ==
  ASSUME HealthAssumption, CyclesAreShort
  PROVE  Spec => []FreshWhileRunning
<1>1. HealthInv => FreshWhileRunning
  <2> DEFINE p == "service"
  <2> SUFFICES ASSUME HealthInv, Works(p), smooth[p], tried[p] # "none"
               PROVE  ReadTrackerHealth(file, now) = "healthy"
    BY DEF FreshWhileRunning, Works
  <2>1. p \in Processes /\ Fresh(p)
    BY DEF HealthInv, FileIsKept, Processes
  <2> HIDE DEF p
  <2>2. file # NoFile /\ ~file.degraded /\ file.success = file.at /\ file \in Files
    BY <2>1 DEF Fresh, HealthInv, StateIsSound
  <2>3. /\ file.at \in Nat /\ at[p] \in Nat /\ now \in Nat /\ due[p] \in Nat
        /\ interval \in Nat /\ WriteInterval \in Nat /\ MaxCycle \in Nat
    BY <2>1, <2>2 DEF Files, HealthInv, StateIsSound, HealthAssumption
  <2>4. now - file.at <= WriteInterval + 2 * MaxCycle + interval - 1
    <3>1. CASE mode[p] = "waiting"
      <4>1. now <= due[p] /\ due[p] <= at[p] + MaxCycle + interval
        BY <2>1, <3>1 DEF HealthInv, TimesAreKept
      <4>2. at[p] < file.at + WriteInterval
        BY <2>1, <3>1 DEF Fresh
      <4> QED
        BY <2>3, <4>1, <4>2
    <3>2. CASE mode[p] = "cycle"
      <4>1. now <= at[p] + MaxCycle
        BY <2>1, <3>2 DEF HealthInv, TimesAreKept
      <4>2. at[p] < file.at + WriteInterval + MaxCycle + interval
        BY <2>1, <3>2 DEF Fresh
      <4> QED
        BY <2>3, <4>1, <4>2
    <3> QED
      BY <3>1, <3>2 DEF Works
  <2>5. interval \in Intervals /\ EffectiveMaxAge(interval) \in Nat
    BY <2>3, LimitIsLarger DEF HealthInv, StateIsSound
  <2>6. WriteInterval + 2 * MaxCycle + interval - 1 <= EffectiveMaxAge(interval)
    BY <2>5 DEF CyclesAreShort
  <2>7. ~(now - file.success > EffectiveMaxAge(interval))
    BY <2>2, <2>3, <2>4, <2>5, <2>6
  <2>8. file.success # Never
    BY <2>2, <2>3 DEF Never
  <2> QED
    BY <2>2, <2>7, <2>8 DEF ReadTrackerHealth
<1> QED
  BY <1>1, HealthInvariance, PTL
=============================================================================
