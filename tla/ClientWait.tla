----------------------------- MODULE ClientWait -----------------------------
(***************************************************************************)
(* Client.Wait (pkg/client/wait.go): wait until one session satisfies a    *)
(* condition, optionally without interruption for StableFor. The states    *)
(* come from a broker subscription or from the file watcher, through a     *)
(* goroutine and a bounded channel; in ModeAuto a lost broker stream is    *)
(* replaced by the file watcher. The session lives in the registry and     *)
(* changes at any time.                                                    *)
(***************************************************************************)
EXTENDS Naturals, Sequences, SequencesExt

CONSTANTS
  Modes,          (* client modes: "auto", "realtime", "durable"           *)
  Processes,      (* incarnations of the agent                             *)
  Activities,     (* what a live agent may be doing; "none" is nil         *)
  Capacity,       (* defaultWatcherBufferSize                              *)
  MaxChanges,     (* bound: changes of the session                         *)
  MaxFaults,      (* bound: failures of streams                            *)
  MaxResets       (* bound: registry resets                                *)

ClientWaitAssumption ==
  /\ Modes \subseteq {"auto", "realtime", "durable"}
  /\ Capacity \in Nat \ {0} /\ MaxChanges \in Nat /\ MaxFaults \in Nat /\ MaxResets \in Nat

VARIABLES
  opts,       (* the options of the call: mode, presence, activity, stable *)
  session,    (* the session in the registry                               *)
  changes, faults, resets,
  exited,     (* some process of the session has ended                     *)
  stream,     (* "none", "broker" or "durable"                             *)
  pushed,     (* the state last put into the channel, Unsent before        *)
  queue,      (* the channel                                               *)
  ended,      (* the goroutine has closed the channel                      *)
  candidate,  (* the state held for StableFor, NoCandidate for none        *)
  timer,      (* the stability timer: "off", "running" or "ready"          *)
  held,       (* since the timer started everything that was put into the  *)
              (* channel satisfied the condition, for one process          *)
  lastSeen,   (* the last state observed, Unsent before                    *)
  outcome,    (* what Wait returned, "pending" before                      *)
  result      (* the session it returned                                   *)

world == <<session, changes, faults, resets, exited>>
run == <<candidate, timer, lastSeen>>
vars == <<opts, session, changes, faults, resets, exited, stream, pushed, queue, ended,
          candidate, timer, held, lastSeen, outcome, result>>

State(presence, activity, process) ==
  [presence |-> presence, activity |-> activity, process |-> process]

NoProcess == 0
Absent == State("absent", "none", NoProcess)
Unsent == State("unsent", "none", NoProcess)
NoCandidate == Unsent
Failure(kind) == State("error", kind, NoProcess)
LiveStates == {State("live", a, p) : a \in Activities, p \in Processes}

\* WaitOptions.Validate: gone and unknown stand alone, something is asked for.
ValidOptions ==
  {o \in [mode : Modes, presence : {"", "live", "gone", "unknown"},
          activity : {""} \cup (Activities \ {"none"}), stable : BOOLEAN] :
     /\ ~(o.presence = "" /\ o.activity = "")
     /\ o.presence \in {"gone", "unknown"} => o.activity = ""}

Init ==
  /\ opts \in ValidOptions
  /\ session \in LiveStates \cup {Absent}
  /\ changes = 0 /\ faults = 0 /\ resets = 0 /\ exited = FALSE
  /\ stream = "none" /\ pushed = Unsent /\ queue = << >> /\ ended = FALSE
  /\ candidate = NoCandidate /\ timer = "off" /\ held = FALSE /\ lastSeen = Unsent
  /\ outcome = "pending" /\ result = Absent

-----------------------------------------------------------------------------
(* The session in the registry.                                            *)

Change(s) ==
  /\ changes < MaxChanges /\ changes' = changes + 1
  /\ s # session /\ session' = s
  /\ UNCHANGED <<opts, faults, resets, stream, pushed, queue, ended, held, outcome, result>>
  /\ UNCHANGED run

\* A report, a sighting or a new process.
Report(s) == s \in LiveStates /\ Change(s) /\ UNCHANGED exited

\* The process is out of sight.
Unsure ==
  /\ session.presence = "live"
  /\ Change([session EXCEPT !.presence = "unknown", !.activity = "none"]) /\ UNCHANGED exited

\* The process ends: a tombstone, or nothing for a session known by its process.
Exit ==
  /\ session.presence \in {"live", "unknown"} /\ exited' = TRUE
  /\ Change([session EXCEPT !.presence = "gone", !.activity = "none"]) \/ Change(Absent)

\* The tombstone expires.
Expire == session.presence = "gone" /\ Change(Absent) /\ UNCHANGED exited

\* Reset: the registry forgets every session.
Reset ==
  /\ resets < MaxResets /\ resets' = resets + 1
  /\ session # Absent /\ session' = Absent
  /\ UNCHANGED <<opts, changes, faults, exited, stream, pushed, queue, ended, held, outcome, result>>
  /\ UNCHANGED run

-----------------------------------------------------------------------------
(* The condition.                                                          *)

\* evaluateCondition: "match", "no", or the error that ends the wait.
Evaluate(s) ==
  CASE opts.presence = "gone" -> IF s.presence = "gone" THEN "match" ELSE "no"
    [] opts.presence # "gone" /\ s.presence = "gone" -> "disappeared"
    [] opts.presence # "gone" /\ s.presence = "unknown" ->
         IF opts.presence = "unknown" THEN "match" ELSE "unknown"
    [] opts.presence # "gone" /\ s.presence = "live" ->
         IF opts.presence = "unknown" THEN "no"
         ELSE IF opts.activity \in {"", s.activity} THEN "match" ELSE "no"

\* removedSession: a session that vanished after it was seen is gone.
Removed(last) == [last EXCEPT !.presence = "gone", !.activity = "none"]

\* currentSession.
Current(s) == IF s # Absent THEN s ELSE IF lastSeen = Unsent THEN Absent ELSE Removed(lastSeen)

-----------------------------------------------------------------------------
(* The streams.                                                            *)

\* startWatcher: the broker, or the files when it is not there. Errors other than
\* unavailability end the call.
StartWatcher ==
  /\ stream = "none" /\ outcome = "pending"
  /\ \/ /\ opts.mode # "durable" /\ stream' = "broker"
        /\ UNCHANGED <<faults, outcome>>
     \/ /\ opts.mode = "durable" /\ stream' = "durable"
        /\ UNCHANGED <<faults, outcome>>
     \/ /\ opts.mode # "durable" /\ faults < MaxFaults /\ faults' = faults + 1
        /\ \/ opts.mode = "auto" /\ stream' = "durable" /\ UNCHANGED outcome
           \/ stream' = "none" /\ outcome' = "error"
  /\ UNCHANGED <<opts, session, changes, resets, exited, pushed, queue, ended, held, result>>
  /\ UNCHANGED run

\* Whether a state put into the channel contradicts what the timer waits for.
Contradicts(s) ==
  /\ timer # "off"
  /\ \/ s.presence \in {"absent", "error"} /\ opts.presence # "gone"
     \/ s.presence = "error"
     \/ s.presence \notin {"absent", "error"} /\ Evaluate(s) # "match"
     \/ s.presence \notin {"absent", "error"} /\ s.process # candidate.process

Put(event) ==
  /\ Len(queue) < Capacity /\ queue' = Append(queue, event)
  /\ held' = (held /\ ~Contradicts(event))

\* run of brokerSessionWatcher and durableSessionWatcher: the first state, then
\* every state that differs. What falls between two of them is not seen.
Forward ==
  /\ stream # "none" /\ ~ended /\ outcome = "pending"
  /\ session # pushed /\ pushed' = session /\ Put(session)
  /\ UNCHANGED <<opts, stream, ended, outcome, result>> /\ UNCHANGED world /\ UNCHANGED run

\* The stream fails: with an error ("closed" when the transport is lost), and a
\* broker's stream may also end without one. The file watcher goes on after it.
Fail(kind) ==
  /\ stream # "none" /\ ~ended /\ outcome = "pending"
  /\ faults < MaxFaults /\ faults' = faults + 1
  /\ \/ kind \in {"closed", "other"} /\ Put(Failure(kind))
     \/ kind = "silent" /\ stream = "broker" /\ UNCHANGED <<queue, held>>
  /\ ended' = (stream = "broker")
  /\ UNCHANGED <<opts, session, changes, resets, exited, stream, pushed, outcome, result>>
  /\ UNCHANGED run

-----------------------------------------------------------------------------
(* The waiting call.                                                       *)

ResetStable == timer' = "off" /\ candidate' = NoCandidate

Return(o, s) ==
  /\ outcome' = o /\ result' = s
  /\ UNCHANGED <<opts, stream, pushed, ended, held, lastSeen>> /\ UNCHANGED world

\* What is already in the channel behind a first candidate counts as well.
HeldBehind(s) ==
  \A i \in 2..Len(queue) :
    /\ queue[i].presence # "error"
    /\ queue[i] # Absent => Evaluate(queue[i]) = "match" /\ queue[i].process = s.process
    /\ queue[i] = Absent => opts.presence = "gone"

\* Mutant: the timer is started for a match in the first snapshot only.
HoldCandidateOnce(s) ==
  /\ candidate' = s
  /\ timer' = IF timer = "off" /\ lastSeen = Unsent THEN "running" ELSE timer
  /\ UNCHANGED held

\* holdCandidate: the timer starts with the first match of a process.
HoldCandidate(s) ==
  /\ candidate' = s
  /\ LET fresh == timer = "off" \/ candidate.process # s.process
     IN  /\ timer' = IF fresh THEN "running" ELSE timer
         /\ held' = IF fresh THEN HeldBehind(s) ELSE held

\* observe, a snapshot: the session in it is evaluated.
Observe(s) ==
  /\ lastSeen' = IF Current(s) = Absent THEN lastSeen ELSE Current(s)
  /\ LET current == Current(s)
         verdict == IF current = Absent THEN "notfound" ELSE Evaluate(current)
     IN  CASE verdict = "match" /\ ~opts.stable ->
                /\ outcome' = "matched" /\ result' = current
                /\ UNCHANGED <<candidate, timer, held>>
           [] verdict = "match" /\ opts.stable ->
                HoldCandidate(current) /\ UNCHANGED <<outcome, result>>
           [] verdict = "no" ->
                ResetStable /\ UNCHANGED <<held, outcome, result>>
           [] OTHER ->
                /\ ResetStable /\ outcome' = verdict /\ UNCHANGED <<held, result>>
  /\ UNCHANGED <<opts, stream, pushed, ended>> /\ UNCHANGED world

\* fallsBackToDurable.
FallsBackToDurable(kind) == opts.mode = "auto" /\ stream = "broker" /\ kind # "other"

\* replaceFailedStream: the files take over from a lost broker stream.
ReplaceFailedStream(kind) ==
  /\ ResetStable
  /\ IF FallsBackToDurable(kind)
     THEN /\ stream' = "durable" /\ ended' = FALSE /\ pushed' = Unsent /\ queue' = << >>
          /\ UNCHANGED outcome
     ELSE /\ outcome' = IF kind = "silent" THEN "closed" ELSE "error"
          /\ queue' = << >> /\ UNCHANGED <<stream, ended, pushed>>
  /\ UNCHANGED <<opts, held, lastSeen, result>> /\ UNCHANGED world

\* nextEvent, an event in the channel, or its end.
ReceiveEvent ==
  /\ stream # "none" /\ outcome = "pending"
  /\ \/ /\ queue # << >> /\ Head(queue).presence # "error"
        /\ queue' = Tail(queue) /\ Observe(Head(queue))
     \/ /\ queue # << >> /\ Head(queue).presence = "error"
        /\ ReplaceFailedStream(Head(queue).activity)
     \/ /\ queue = << >> /\ ended /\ ReplaceFailedStream("silent")

\* nextEvent, the timer: it is only noted, for the next round.
TimerElapses ==
  /\ outcome = "pending" /\ timer = "running" /\ timer' = "ready"
  /\ UNCHANGED <<opts, stream, pushed, queue, ended, held, candidate, lastSeen, outcome, result>>
  /\ UNCHANGED world

\* nextEvent's first select: queued observations come before the elapsed timer.
NothingQueued == queue = << >> /\ ~ended

\* loop, waitStepStable.
ReturnStable ==
  /\ outcome = "pending" /\ timer = "ready" /\ candidate # NoCandidate /\ NothingQueued
  /\ Return("stable", candidate) /\ UNCHANGED <<queue, candidate, timer>>

\* The context ends: ErrWaitTimeout or the caller's cancellation.
Cancel ==
  /\ outcome = "pending" /\ Return("timeout", Absent) /\ UNCHANGED <<queue, candidate, timer>>

Returned == outcome # "pending" /\ UNCHANGED vars

Waiting == StartWatcher \/ Forward \/ ReceiveEvent \/ TimerElapses \/ ReturnStable

Next ==
  \/ \E s \in LiveStates : Report(s)
  \/ Unsure \/ Exit \/ Expire \/ Reset
  \/ \E kind \in {"closed", "other", "silent"} : Fail(kind)
  \/ Waiting \/ Cancel \/ Returned

Spec == Init /\ [][Next]_vars

\* The goroutines run, the timer fires and the file watcher and the broker report
\* changes (FileWatch.LastChangeShown, Broker.CatchesUp). Nobody ends the context.
FairSpec ==
  /\ Spec /\ WF_vars(StartWatcher) /\ WF_vars(Forward) /\ WF_vars(ReceiveEvent)
  /\ WF_vars(TimerElapses) /\ WF_vars(ReturnStable)

-----------------------------------------------------------------------------
(* Properties                                                              *)

States == LiveStates \cup {Absent, Unsent}
            \cup {State(q, "none", p) : q \in {"gone", "unknown"}, p \in Processes}
            \cup {Failure("closed"), Failure("other")}

\* The variables of a waiting call have their types; the channel has its capacity.
TypeOK ==
  /\ opts \in ValidOptions /\ session \in States
  /\ stream \in {"none", "broker", "durable"} /\ (opts.mode = "realtime" => stream # "durable")
  /\ queue \in Seq(States) /\ Len(queue) <= Capacity
  /\ {candidate, lastSeen, result} \subseteq States
  /\ timer \in {"off", "running", "ready"} /\ held \in BOOLEAN /\ ended \in BOOLEAN
  /\ outcome \in {"pending", "matched", "stable", "notfound", "disappeared", "unknown",
                  "error", "closed", "timeout"}

\* What Wait returns satisfies what was asked for, and a session that was never
\* there is not waited for.
ResultSatisfies ==
  /\ outcome \in {"matched", "stable"} =>
       /\ result.presence = IF opts.presence = "" THEN "live" ELSE opts.presence
       /\ opts.activity \in {"", result.activity}
  /\ outcome \in {"disappeared", "unknown"} => lastSeen # Unsent

\* StableFor: "the duration the condition must hold continuously": nothing that
\* reached the channel since the timer started, queued or consumed, contradicts
\* the result, and it is about one process.
StableHeld == outcome = "stable" => held

\* Deletion only follows the gone transition (the comment of removedSession): a
\* wait for gone ends only when a process of the session has ended.
GoneMeansExited == outcome \in {"matched", "stable"} /\ opts.presence = "gone" => exited

\* A session that comes to satisfy the condition and goes on doing so ends the
\* wait, through a change of streams too.
WaitReturns ==
  <>[](session # Absent /\ Evaluate(session) = "match") => <>(outcome # "pending")
=============================================================================
