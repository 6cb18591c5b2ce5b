-------------------------- MODULE LifecycleProofs --------------------------
(***************************************************************************)
(* Lemmas about the reducer of one session, Lifecycle, for any processes   *)
(* and any policy: one for each function of the code, up to what a         *)
(* reduction (ReduceFacts, ReduceSlots) and a retirement (RetireFacts)     *)
(* make of a session.                                                      *)
(***************************************************************************)
EXTENDS Lifecycle, TLAPS

-----------------------------------------------------------------------------
(* Types.                                                                  *)

Process == Procs \cup {NoProc}
States  == {"none", "starting", "live", "ended", "exited"}
Lives   == {"none", "start", "end"}
Claims  == {"none", "live", "gone", "unknown"}
Acts    == {"none", "unknown", "busy", "idle"}

Incarnations ==
  [state : States, proc : Process, evAt : Nat, trAt : Nat, prev : Process]
Natives ==
  [at : Nat, proc : Process, seq : Nat, life : Lives, claim : Claims, act : Acts]
Screens == [at : Nat, proc : Process, act : Acts]
Sights  == [at : Nat, proc : Process, present : BOOLEAN]

Sessions ==
  [inc : Incarnations, process : Process, presence : {"unknown", "live", "gone"},
   act : Acts, decAt : Nat, decProc : Process, replaced : BOOLEAN,
   native : Natives, screen : Screens, sight : Sights, place : Nat, list : Nat]

Kinds == {"report", "sighting", "reading", "placement", "listing", "verification"}

\* What the reducer is given: readings say something, scans name a process,
\* verifications and listings do not.
Observations ==
  {o \in [kind : Kinds, proc : Process, at : Nat, life : Lives, claim : Claims,
          act : Acts, seq : Nat, present : BOOLEAN] :
     /\ o.kind = "reading" => o.act # "none"
     /\ o.kind \in {"sighting", "reading", "placement"} => o.proc # NoProc
     /\ o.kind \in {"verification", "listing"} => o.proc = NoProc
     /\ o.kind = "verification" => o.claim \in {"gone", "unknown"}}

-----------------------------------------------------------------------------
(* What holds of every session that the reducer makes.                     *)

\* The presence of a session in a state.
PresenceIn(state) ==
  CASE state \in {"ended", "exited"} -> "gone"
    [] state = "live"                -> "live"
    [] OTHER                         -> "unknown"

Sound(s) ==
  /\ s.process = s.inc.proc
  /\ s.presence = PresenceIn(s.inc.state)
  /\ s.presence = "gone" <=> s.act = "none"
  /\ NativeEnded(s) => Terminal(s)
  /\ s.replaced => Terminal(s)

-----------------------------------------------------------------------------
(* The next incarnation.                                                   *)

\* The incarnation that evidence is applied to is one (transitionIncarnation).
LEMMA BegunType ==
  ASSUME NEW s \in Sessions, NEW o \in Observations, NEW action
  PROVE  /\ Begun(s, o, action) \in Incarnations
         /\ Begun(s, o, action).state # "none"
BY DEF Begun, Sessions, Observations, Incarnations, Process, NoIncarnation, States

\* Evidence applied to the incarnation, before its time is counted: which state it is in
\* then, and since when.
LEMMA ApplyEvidenceFacts ==
  ASSUME NEW s \in Sessions, NEW o \in Observations, NEW action, o.kind # "verification"
  PROVE  LET b == Begun(s, o, action)
             n == ApplyEvidence(s, o, action)
         IN  /\ n \in Incarnations
             /\ n.proc = IF o.proc # NoProc THEN o.proc ELSE b.proc
             /\ n.prev = b.prev
             /\ n.state # "none"
             /\ IF Ends(o) \/ Absent(o) THEN n.state \in {"ended", "exited"}
                ELSE b.state \notin {"ended", "exited"} => n.state \notin {"ended", "exited"}
             /\ n.evAt \in {b.evAt, Later(b.evAt, o.at)}
             /\ OwnProcessEvidence(o, n) => n.evAt = Later(b.evAt, o.at)
             /\ n.trAt \in {o.at, b.trAt, s.inc.trAt}
<1> DEFINE b == Begun(s, o, action)
           n == [b EXCEPT !.proc = IF o.proc # NoProc THEN o.proc ELSE @,
                          !.trAt = IF @ = 0 THEN o.at ELSE @]
           m == CASE Ends(o) ->
                       [n EXCEPT !.state = "ended", !.trAt = Later(s.inc.trAt, o.at)]
                  [] Absent(o) ->
                       [n EXCEPT !.state = "exited", !.trAt = Later(s.inc.trAt, o.at)]
                  [] o.kind = "sighting" /\ o.present ->
                       [n EXCEPT !.state = "live", !.trAt = Later(@, o.at)]
                  [] IsReport(o) /\ ~Ends(o) /\ o.claim # "none" /\ o.at >= n.trAt ->
                       [n EXCEPT !.state = IF o.claim = "live" THEN "live" ELSE "starting",
                                 !.trAt = o.at]
                  [] OTHER ->
                       IF action = "replace" /\ IsReport(o) THEN [n EXCEPT !.state = "live"] ELSE n
           a == IF OwnProcessEvidence(o, m) THEN [m EXCEPT !.evAt = EvidenceTime(m, o)] ELSE m
<1>1. b \in Incarnations /\ b.state # "none"
  BY BegunType
<1>2. ApplyEvidence(s, o, action) = a
  BY DEF ApplyEvidence
<1>3. o.at \in Nat /\ o.proc \in Process /\ s.inc.trAt \in Nat
  BY DEF Sessions, Incarnations, Observations
<1> HIDE DEF b
<1>4. /\ n \in Incarnations
      /\ n.state = b.state /\ n.evAt = b.evAt /\ n.prev = b.prev
      /\ n.proc = IF o.proc # NoProc THEN o.proc ELSE b.proc
      /\ n.trAt \in {o.at, b.trAt}
  BY <1>1, <1>3 DEF Incarnations
<1> HIDE DEF n
<1>5. /\ m \in Incarnations
      /\ m.evAt = n.evAt /\ m.prev = n.prev /\ m.proc = n.proc
      /\ m.trAt \in {n.trAt, o.at, s.inc.trAt}
      /\ m.state # "none"
      /\ IF Ends(o) \/ Absent(o) THEN m.state \in {"ended", "exited"}
         ELSE m.state \in {n.state, "live", "starting"}
  <2>1. CASE Ends(o)
    <3>1. m = [n EXCEPT !.state = "ended", !.trAt = Later(s.inc.trAt, o.at)]
      BY <2>1 DEF Ends, Absent, IsReport
    <3> HIDE DEF m
    <3>2. Later(s.inc.trAt, o.at) \in {s.inc.trAt, o.at}
      BY DEF Later
    <3> QED
      BY <1>1, <1>3, <1>4, <2>1, <3>1, <3>2 DEF Incarnations, States
  <2>2. CASE ~Ends(o) /\ Absent(o)
    <3>1. m = [n EXCEPT !.state = "exited", !.trAt = Later(s.inc.trAt, o.at)]
      BY <2>2 DEF Absent, IsReport
    <3> HIDE DEF m
    <3>2. Later(s.inc.trAt, o.at) \in {s.inc.trAt, o.at}
      BY DEF Later
    <3> QED
      BY <1>1, <1>3, <1>4, <2>2, <3>1, <3>2 DEF Incarnations, States
  <2>3. CASE ~Ends(o) /\ ~Absent(o)
    <3>1. \/ /\ m = [n EXCEPT !.state = "live", !.trAt = Later(@, o.at)]
          \/ /\ m = [n EXCEPT !.state = IF o.claim = "live" THEN "live" ELSE "starting",
                             !.trAt = o.at]
          \/ m = [n EXCEPT !.state = "live"]
          \/ m = n
      BY <2>3
    <3> HIDE DEF m
    <3>2. Later(n.trAt, o.at) \in {n.trAt, o.at}
      BY DEF Later
    <3> QED
      BY <1>1, <1>3, <1>4, <2>3, <3>1, <3>2 DEF Incarnations, States
  <2> QED
    BY <2>1, <2>2, <2>3
<1> HIDE DEF m
<1>6. /\ a \in Incarnations
      /\ a.state = m.state /\ a.prev = m.prev /\ a.proc = m.proc /\ a.trAt = m.trAt
      /\ a.evAt \in {m.evAt, Later(m.evAt, o.at)}
      /\ OwnProcessEvidence(o, a) => a.evAt = Later(m.evAt, o.at)
  BY <1>3, <1>5 DEF Incarnations, EvidenceTime, Later, OwnProcessEvidence
<1> QED
  BY <1>2, <1>4, <1>5, <1>6 DEF b

\* Evidence applied to the incarnation: when its state was entered, and what leaves it
\* starting.
LEMMA ApplyEvidenceTimes ==
  ASSUME NEW s \in Sessions, NEW o \in Observations, NEW action, o.kind # "verification"
  PROVE  LET b  == Begun(s, o, action)
             n  == ApplyEvidence(s, o, action)
             t0 == IF b.trAt = 0 THEN o.at ELSE b.trAt
         IN  /\ Ends(o) \/ Absent(o) => n.trAt = Later(s.inc.trAt, o.at)
             /\ ~Ends(o) /\ ~Absent(o) => n.trAt \in {t0, Later(t0, o.at), o.at}
             /\ o.kind = "listing" => n.trAt = t0
             /\ n.state = "starting" /\ o.claim # "unknown" =>
                  /\ b.state = "starting" /\ n.trAt = t0
                  /\ o.kind # "sighting"
                  /\ IsReport(o) => action # "replace" /\ (o.claim = "live" => o.at < t0)
<1> DEFINE b == Begun(s, o, action)
           t0 == IF b.trAt = 0 THEN o.at ELSE b.trAt
           n == [b EXCEPT !.proc = IF o.proc # NoProc THEN o.proc ELSE @,
                          !.trAt = IF @ = 0 THEN o.at ELSE @]
           m == CASE Ends(o) ->
                       [n EXCEPT !.state = "ended", !.trAt = Later(s.inc.trAt, o.at)]
                  [] Absent(o) ->
                       [n EXCEPT !.state = "exited", !.trAt = Later(s.inc.trAt, o.at)]
                  [] o.kind = "sighting" /\ o.present ->
                       [n EXCEPT !.state = "live", !.trAt = Later(@, o.at)]
                  [] IsReport(o) /\ ~Ends(o) /\ o.claim # "none" /\ o.at >= n.trAt ->
                       [n EXCEPT !.state = IF o.claim = "live" THEN "live" ELSE "starting",
                                 !.trAt = o.at]
                  [] OTHER ->
                       IF action = "replace" /\ IsReport(o) THEN [n EXCEPT !.state = "live"] ELSE n
           a == IF OwnProcessEvidence(o, m) THEN [m EXCEPT !.evAt = EvidenceTime(m, o)] ELSE m
<1>1. b \in Incarnations
  BY BegunType
<1>2. ApplyEvidence(s, o, action) = a
  BY DEF ApplyEvidence
<1>3. o.at \in Nat /\ o.proc \in Process /\ o.claim \in Claims /\ o.kind \in Kinds /\ o.present \in BOOLEAN
  BY DEF Observations
<1> HIDE DEF b
<1>4. n \in Incarnations /\ n.state = b.state /\ n.trAt = t0 /\ t0 \in Nat
  BY <1>1, <1>3 DEF Incarnations
<1> HIDE DEF n, t0
<1>5. /\ Ends(o) \/ Absent(o) =>
           m.trAt = Later(s.inc.trAt, o.at) /\ m.state \in {"ended", "exited"}
      /\ ~Ends(o) /\ ~Absent(o) => m.trAt \in {t0, Later(t0, o.at), o.at}
      /\ o.kind = "listing" => m.trAt = t0
      /\ m.state = "starting" /\ o.claim # "unknown" =>
           /\ b.state = "starting" /\ m.trAt = t0
           /\ o.kind # "sighting"
           /\ IsReport(o) => action # "replace" /\ (o.claim = "live" => o.at < t0)
      /\ DOMAIN m = DOMAIN NoIncarnation
  <2>0. DOMAIN n = DOMAIN NoIncarnation
    BY <1>4 DEF Incarnations, NoIncarnation
  <2>1. CASE Ends(o)
    <3>1. m = [n EXCEPT !.state = "ended", !.trAt = Later(s.inc.trAt, o.at)]
      BY <2>1 DEF Ends, Absent, IsReport
    <3> HIDE DEF m
    <3> QED
      BY <1>4, <2>0, <2>1, <3>1 DEF Incarnations, NoIncarnation, Ends, IsReport
  <2>2. CASE ~Ends(o) /\ Absent(o)
    <3>1. m = [n EXCEPT !.state = "exited", !.trAt = Later(s.inc.trAt, o.at)]
      BY <2>2 DEF Absent, IsReport
    <3> HIDE DEF m
    <3> QED
      BY <1>4, <2>0, <2>2, <3>1 DEF Incarnations, NoIncarnation, Absent
  <2>3. CASE ~Ends(o) /\ ~Absent(o) /\ o.kind = "sighting"
    <3>1. m = [n EXCEPT !.state = "live", !.trAt = Later(@, o.at)]
      BY <1>3, <2>3 DEF Absent, IsReport
    <3> HIDE DEF m
    <3> QED
      BY <1>4, <2>0, <2>3, <3>1 DEF Incarnations, NoIncarnation
  <2>4. CASE ~Ends(o) /\ IsReport(o) /\ o.claim # "none" /\ o.at >= n.trAt
    <3>1. m = [n EXCEPT !.state = IF o.claim = "live" THEN "live" ELSE "starting", !.trAt = o.at]
      BY <2>4 DEF Absent, IsReport
    <3>2. o.claim # "unknown" => o.claim = "live"
      BY <1>3, <2>4 DEF Ends, Claims
    <3> HIDE DEF m
    <3> QED
      BY <1>4, <2>0, <2>4, <3>1, <3>2 DEF Incarnations, NoIncarnation, IsReport, Absent
  <2>5. CASE /\ ~Ends(o) /\ ~Absent(o) /\ o.kind # "sighting"
             /\ ~(IsReport(o) /\ ~Ends(o) /\ o.claim # "none" /\ o.at >= n.trAt)
    <3>1. m = IF action = "replace" /\ IsReport(o) THEN [n EXCEPT !.state = "live"] ELSE n
      BY <2>5
    <3>2. IsReport(o) /\ o.claim = "live" => o.at < t0
      BY <1>3, <1>4, <2>5
    <3> HIDE DEF m
    <3> QED
      BY <1>4, <2>0, <2>5, <3>1, <3>2 DEF Incarnations, NoIncarnation, IsReport
  <2> QED
    BY <2>1, <2>2, <2>3, <2>4, <2>5 DEF Absent, IsReport
<1> HIDE DEF m
<1>6. a.state = m.state /\ a.trAt = m.trAt
  BY <1>5 DEF NoIncarnation
<1> HIDE DEF a
<1> QED
  BY <1>2, <1>5, <1>6 DEF b, t0

\* The rules of transitionIncarnation: what an accepted observation has to do with the
\* session.
LEMMA DecideFacts ==
  ASSUME NEW s \in Sessions, NEW o \in Observations, Accepted(Decide(s, o, FALSE))
  PROVE  LET a == Decide(s, o, FALSE)
         IN  \/ /\ a = "verify" /\ o.kind = "verification"
                /\ ~Terminal(s) /\ s.inc.proc = NoProc /\ o.at >= s.inc.evAt /\ o.at >= s.decAt
             \/ /\ a = "replace" /\ o.kind \in {"report", "sighting"}
                /\ o.proc # NoProc /\ s.inc.proc # NoProc /\ o.proc # s.inc.proc
                /\ ~Ends(o) /\ ~Absent(o) /\ o.at >= s.inc.evAt
             \/ /\ a = "bind" /\ Terminal(s) /\ s.inc.proc = NoProc /\ o.proc # NoProc
                /\ IsReport(o) /\ ~Ends(o) /\ o.at >= s.inc.evAt
             \/ /\ a = "resume" /\ Terminal(s) /\ Starts(o)
                /\ o.at > s.inc.evAt /\ o.at > s.inc.trAt /\ ~Different(s, o)
             \/ /\ a = "continue" /\ o.kind # "verification" /\ ~Different(s, o)
                /\ Ends(o) \/ Absent(o) => o.at >= s.inc.evAt
                /\ Terminal(s) => Ends(o) \/ Absent(o)
<1>1. /\ o.kind \in Kinds /\ o.at \in Nat /\ s.inc.evAt \in Nat /\ s.inc.trAt \in Nat
      /\ s.decAt \in Nat /\ (o.kind = "listing" => o.proc = NoProc)
  BY DEF Sessions, Incarnations, Observations
<1>2. CASE o.kind = "verification"
  BY <1>1, <1>2 DEF Decide, Accepted, VerificationRejected
<1>3. CASE o.kind # "verification" /\ Different(s, o)
  BY <1>1, <1>3 DEF Decide, Accepted, ReplacementRejected, Different, Kinds
<1>4. CASE o.kind # "verification" /\ ~Different(s, o) /\ ~TerminalStale(s, o) /\ BindsTerminalProcess(s, o)
  BY <1>1, <1>4 DEF Decide, BindsTerminalProcess
<1>5. CASE /\ o.kind # "verification" /\ ~Different(s, o) /\ ~TerminalStale(s, o)
           /\ ~BindsTerminalProcess(s, o) /\ ResumesTerminal(s, o)
  <2>1. Decide(s, o, FALSE) = "resume"
    BY <1>5 DEF Decide
  <2>2. o.at > s.inc.evAt /\ o.at > s.inc.trAt
    BY <1>1, <1>5 DEF ResumesTerminal, Later
  <2> QED
    BY <1>5, <2>1, <2>2 DEF ResumesTerminal
<1>6. CASE /\ o.kind # "verification" /\ ~Different(s, o) /\ ~TerminalStale(s, o)
           /\ ~BindsTerminalProcess(s, o) /\ ~ResumesTerminal(s, o)
  BY <1>1, <1>6 DEF Decide, Accepted, TerminalStale, TerminalRejected
<1>7. CASE o.kind # "verification" /\ ~Different(s, o) /\ TerminalStale(s, o)
  BY <1>7 DEF Decide, Accepted
<1> QED
  BY <1>2, <1>3, <1>4, <1>5, <1>6, <1>7

\* An exit or an end that is accepted is no older than the evidence.
LEMMA FinishIsRecent ==
  ASSUME NEW s \in Sessions, NEW o \in Observations, Accepted(Decide(s, o, FALSE)),
         Ends(o) \/ Absent(o)
  PROVE  o.at >= s.inc.evAt /\ o.kind # "verification"
<1>1. o.at \in Nat /\ s.inc.evAt \in Nat
  BY DEF Observations, Sessions, Incarnations
<1>2. o.kind # "verification"
  BY DEF Ends, Absent, IsReport
<1>3. \/ ~Ends(o) /\ ~Absent(o)
      \/ o.at >= s.inc.evAt
      \/ o.at > s.inc.evAt
  BY <1>2, DecideFacts, Zenon
<1> QED
  BY <1>1, <1>2, <1>3

\* An observation whose report names its process, unless the session has none: only
\* then are all the reports of a session evidence of its own process.
Attributed(s, o) == IsReport(o) => o.proc # NoProc \/ s.inc.proc = NoProc

\* An observation that tells that its process runs the session.
LifeSign(o) == (IsReport(o) /\ ~Ends(o)) \/ (o.kind = "sighting" /\ o.present)

\* The incarnation after an accepted observation (incarnationInput.transition): it is
\* over exactly if the observation finishes it, belongs to the process that the
\* observation names, and its times are times of evidence.
LEMMA NextIncarnationFacts ==
  ASSUME NEW s \in Sessions, NEW o \in Observations, Accepted(Decide(s, o, FALSE))
  PROVE  LET a == Decide(s, o, FALSE)
             n == NextIncarnation(s, o, a)
         IN  /\ n \in Incarnations
             /\ n.state # "none"
             /\ n.state \in {"ended", "exited"} <=> Finishes(o, a)
             /\ a = "verify" => n.state # "live"
             /\ n.proc = IF o.proc # NoProc THEN o.proc ELSE s.inc.proc
             /\ n.evAt <= Later(s.inc.evAt, o.at)
             /\ n.trAt <= Later(s.inc.trAt, o.at)
             /\ Attributed(s, o) => n.evAt >= s.inc.evAt
             /\ Attributed(s, o) /\ LifeSign(o) => n.evAt >= o.at
<1> DEFINE a == Decide(s, o, FALSE)
           b == Begun(s, o, a)
           n == NextIncarnation(s, o, a)
<1>1. /\ o.kind \in Kinds /\ o.at \in Nat /\ o.proc \in Process /\ o.claim \in Claims
      /\ o.kind = "verification" => o.proc = NoProc /\ o.claim \in {"gone", "unknown"}
      /\ o.kind \in {"sighting", "reading", "placement"} => o.proc # NoProc
      /\ s.inc \in Incarnations /\ s.inc.evAt \in Nat /\ s.inc.trAt \in Nat
  BY DEF Sessions, Incarnations, Observations
<1>2. CASE a = "verify"
  <2>1. o.kind = "verification" /\ ~Terminal(s) /\ s.inc.proc = NoProc
    BY <1>2, DecideFacts
  <2>2. n = [s.inc EXCEPT !.state = IF o.claim = "gone" THEN "exited" ELSE "starting",
                          !.trAt = o.at]
    BY <1>2 DEF NextIncarnation
  <2>3. Finishes(o, a) <=> o.claim = "gone"
    BY <1>2 DEF Finishes
  <2>4. ~LifeSign(o)
    BY <2>1 DEF LifeSign, IsReport
  <2> HIDE DEF a, n
  <2>5. /\ n \in Incarnations /\ n.state = IF o.claim = "gone" THEN "exited" ELSE "starting"
        /\ n.proc = s.inc.proc /\ n.evAt = s.inc.evAt /\ n.trAt = o.at
    BY <1>1, <2>2 DEF Incarnations, States
  <2>6. s.inc.evAt <= Later(s.inc.evAt, o.at) /\ o.at <= Later(s.inc.trAt, o.at)
    BY <1>1 DEF Later
  <2>7. n.state \in {"ended", "exited"} <=> Finishes(o, a)
    BY <2>3, <2>5
  <2>8. n.evAt \in Nat /\ n.state # "none"
    BY <2>5 DEF Incarnations
  <2>9. n.evAt <= Later(s.inc.evAt, o.at) /\ n.trAt <= Later(s.inc.trAt, o.at) /\ n.evAt >= s.inc.evAt
    BY <1>1, <2>5, <2>6
  <2>10. n.proc = IF o.proc # NoProc THEN o.proc ELSE s.inc.proc
    BY <1>1, <2>1, <2>5
  <2> QED
    BY <1>2, <2>4, <2>5, <2>7, <2>8, <2>9, <2>10 DEF a, n
<1>3. CASE a # "verify"
  <2>1. a \in {"replace", "bind", "resume", "continue"} /\ o.kind # "verification"
    BY <1>3, DecideFacts DEF Starts, IsReport
  <2>2. n = ApplyEvidence(s, o, a)
    BY <2>1 DEF NextIncarnation
  <2>3. Finishes(o, a) <=> Ends(o) \/ Absent(o)
    BY <2>1 DEF Finishes
  <2>4. /\ b \in Incarnations
        /\ a = "continue" =>
             /\ b.state = IF s.inc.state = "none" THEN "starting" ELSE s.inc.state
             /\ b.proc = s.inc.proc /\ b.evAt = s.inc.evAt /\ b.trAt = s.inc.trAt
        /\ a # "continue" =>
             /\ b.state \in {"starting", "live"} /\ b.evAt = 0 /\ b.trAt = 0
             /\ b.proc = IF a = "resume" THEN s.inc.proc ELSE o.proc
    BY <1>1, <2>1, BegunType DEF Begun, NoIncarnation, Incarnations, Accepted
  <2>5. /\ a = "continue" /\ Terminal(s) => Ends(o) \/ Absent(o)
        /\ a \in {"replace", "bind"} =>
             /\ o.proc # NoProc /\ o.proc # s.inc.proc /\ o.at >= s.inc.evAt
             /\ IsReport(o) \/ (o.kind = "sighting" /\ o.present)
        /\ a = "resume" => o.at > s.inc.evAt /\ IsReport(o)
        /\ a \in {"continue", "resume"} => ~Different(s, o)
    BY DecideFacts, <1>1 DEF Different, Starts, Absent, IsReport, Observations
  <2>a. b = Begun(s, o, a)
    OBVIOUS
  <2> HIDE DEF a, b, n
  <2>6. /\ n \in Incarnations
        /\ n.proc = IF o.proc # NoProc THEN o.proc ELSE b.proc
        /\ n.state # "none"
        /\ IF Ends(o) \/ Absent(o) THEN n.state \in {"ended", "exited"}
           ELSE b.state \notin {"ended", "exited"} => n.state \notin {"ended", "exited"}
        /\ n.evAt \in {b.evAt, Later(b.evAt, o.at)}
        /\ OwnProcessEvidence(o, n) => n.evAt = Later(b.evAt, o.at)
        /\ n.trAt \in {o.at, b.trAt, s.inc.trAt}
    BY <2>1, <2>2, <2>a, ApplyEvidenceFacts
  <2>7. n.state \in {"ended", "exited"} <=> Finishes(o, a)
    BY <2>1, <2>3, <2>4, <2>5, <2>6 DEF Terminal
  <2>8. n.proc = IF o.proc # NoProc THEN o.proc ELSE s.inc.proc
    BY <2>1, <2>4, <2>5, <2>6
  <2>9. n.evAt \in Nat /\ b.evAt \in Nat /\ b.trAt \in Nat
    BY <2>4, <2>6 DEF Incarnations
  <2>10. n.evAt <= Later(s.inc.evAt, o.at) /\ n.trAt <= Later(s.inc.trAt, o.at)
    BY <1>1, <2>1, <2>4, <2>6, <2>9 DEF Later
  <2>11. Attributed(s, o) /\ IsReport(o) => OwnProcessEvidence(o, n)
    BY <2>8 DEF Attributed, OwnProcessEvidence, Absent, IsReport
  <2>12. o.kind = "sighting" /\ o.present => OwnProcessEvidence(o, n)
    BY <1>1, <2>8 DEF OwnProcessEvidence, Absent
  <2>13. Attributed(s, o) => n.evAt >= s.inc.evAt
    BY <1>1, <2>1, <2>4, <2>5, <2>6, <2>9, <2>11, <2>12 DEF Later
  <2>14. Attributed(s, o) /\ LifeSign(o) => n.evAt >= o.at
    BY <1>1, <2>6, <2>9, <2>11, <2>12 DEF Later, LifeSign
  <2> QED
    BY <1>3, <2>6, <2>7, <2>8, <2>10, <2>13, <2>14 DEF a, n
<1> QED
  BY <1>2, <1>3

\* The incarnation after an accepted observation: since when it is in its state, and what
\* leaves it starting.
LEMMA NextIncarnationTimes ==
  ASSUME NEW s \in Sessions, NEW o \in Observations, Accepted(Decide(s, o, FALSE)),
         o.kind # "verification", o.at >= 1, o.claim # "unknown",
         Starts(o) => o.claim = "live"
  PROVE  LET a == Decide(s, o, FALSE)
             n == NextIncarnation(s, o, a)
         IN  /\ n.trAt >= 1
             /\ Finishes(o, a) => a = "continue" /\ n.trAt = Later(s.inc.trAt, o.at)
             /\ /\ ~Finishes(o, a)
                /\ Resets(a) \/ s.inc.trAt <= s.inc.evAt
                /\ o.proc # NoProc \/ (s.inc.trAt >= 1 /\ ~IsReport(o))
                => n.trAt <= n.evAt
             /\ n.state = "starting" =>
                  /\ a = "continue" /\ ~Finishes(o, a)
                  /\ s.inc.state \in {"none", "starting"}
                  /\ n.trAt = IF s.inc.trAt = 0 THEN o.at ELSE s.inc.trAt
                  /\ IsReport(o) /\ o.claim = "live" => o.at < n.trAt
<1> DEFINE a == Decide(s, o, FALSE)
           b == Begun(s, o, a)
           n == NextIncarnation(s, o, a)
           t0 == IF b.trAt = 0 THEN o.at ELSE b.trAt
<1>1. /\ o.kind \in Kinds /\ o.at \in Nat /\ o.proc \in Process /\ o.claim \in Claims
      /\ o.kind \in {"sighting", "reading", "placement"} => o.proc # NoProc
      /\ o.kind = "listing" => o.proc = NoProc
      /\ s.inc \in Incarnations /\ s.inc.evAt \in Nat /\ s.inc.trAt \in Nat
  BY DEF Sessions, Incarnations, Observations
<1>2. a \in {"replace", "bind", "resume", "continue"}
  BY DecideFacts DEF Starts, IsReport
<1>3. /\ n = ApplyEvidence(s, o, a)
      /\ Finishes(o, a) <=> Ends(o) \/ Absent(o)
      /\ Resets(a) <=> a # "continue"
  BY <1>2 DEF NextIncarnation, Finishes, Resets
<1>4. /\ b \in Incarnations /\ b.state # "none"
      /\ a = "continue" =>
           /\ b.state = IF s.inc.state = "none" THEN "starting" ELSE s.inc.state
           /\ b.evAt = s.inc.evAt /\ b.trAt = s.inc.trAt
      /\ a # "continue" =>
           b.evAt = 0 /\ b.trAt = 0 /\ (a = "bind" => b.state = "live")
  BY <1>1, <1>2, BegunType DEF Begun, NoIncarnation, Incarnations
<1>5. /\ Ends(o) \/ Absent(o) => a = "continue"
      /\ a = "replace" => IsReport(o) \/ o.kind = "sighting"
      /\ a = "resume" => IsReport(o) /\ o.claim = "live"
  <2>1. Starts(o) /\ o.claim = "live" => ~Ends(o)
    BY DEF Starts, Ends, IsReport
  <2>2. Absent(o) => ~IsReport(o)
    BY DEF Absent, IsReport
  <2>3. /\ a = "replace" => o.kind \in {"report", "sighting"} /\ ~Ends(o) /\ ~Absent(o)
        /\ a = "bind" => IsReport(o) /\ ~Ends(o)
        /\ a = "resume" => Starts(o)
    BY DecideFacts
  <2> HIDE DEF a
  <2> QED
    BY <1>2, <2>1, <2>2, <2>3 DEF Starts, IsReport
<1>b. b = Begun(s, o, a)
  OBVIOUS
<1> HIDE DEF a, b, n
<1>6. /\ Ends(o) \/ Absent(o) => n.trAt = Later(s.inc.trAt, o.at)
      /\ ~Ends(o) /\ ~Absent(o) => n.trAt \in {t0, Later(t0, o.at), o.at}
      /\ o.kind = "listing" => n.trAt = t0
      /\ n.state = "starting" =>
           /\ b.state = "starting" /\ n.trAt = t0
           /\ o.kind # "sighting"
           /\ IsReport(o) => a # "replace" /\ (o.claim = "live" => o.at < t0)
  BY <1>3, <1>b, ApplyEvidenceTimes
<1>7. /\ n \in Incarnations
      /\ n.proc = IF o.proc # NoProc THEN o.proc ELSE b.proc
      /\ Ends(o) \/ Absent(o) => n.state # "starting"
      /\ n.evAt \in {b.evAt, Later(b.evAt, o.at)}
      /\ OwnProcessEvidence(o, n) => n.evAt = Later(b.evAt, o.at)
  BY <1>3, <1>b, ApplyEvidenceFacts
<1>8. b.evAt \in Nat /\ b.trAt \in Nat /\ n.evAt \in Nat /\ n.trAt \in Nat
  BY <1>4, <1>7 DEF Incarnations
<1>9. n.trAt >= 1
  BY <1>1, <1>6, <1>8 DEF Later
<1>10. ASSUME ~Finishes(o, a), Resets(a) \/ s.inc.trAt <= s.inc.evAt,
              o.proc # NoProc \/ (s.inc.trAt >= 1 /\ ~IsReport(o))
       PROVE  n.trAt <= n.evAt
  <2>1. b.trAt <= b.evAt
    BY <1>3, <1>4, <1>10
  <2>2. CASE o.proc # NoProc
    <3>1. OwnProcessEvidence(o, n)
      BY <1>3, <1>7, <1>10, <2>2 DEF OwnProcessEvidence
    <3> QED
      BY <1>1, <1>3, <1>6, <1>7, <1>8, <1>10, <2>1, <3>1 DEF Later
  <2>3. CASE o.proc = NoProc
    <3>1. o.kind = "listing" /\ s.inc.trAt >= 1
      BY <1>1, <1>10, <2>3 DEF Kinds, IsReport
    <3>2. a = "continue"
      <4>1. a = "bind" => IsReport(o)
        BY DecideFacts DEF a
      <4> QED
        BY <1>2, <1>5, <3>1, <4>1 DEF IsReport
    <3>3. n.trAt = b.trAt
      BY <1>1, <1>4, <1>6, <1>8, <3>1, <3>2
    <3> QED
      BY <1>1, <1>7, <1>8, <2>1, <3>3 DEF Later
  <2> QED
    BY <2>2, <2>3
<1>11. ASSUME n.state = "starting"
       PROVE  /\ a = "continue" /\ ~Finishes(o, a)
              /\ s.inc.state \in {"none", "starting"}
              /\ n.trAt = IF s.inc.trAt = 0 THEN o.at ELSE s.inc.trAt
              /\ IsReport(o) /\ o.claim = "live" => o.at < n.trAt
  <2>1. ~Finishes(o, a)
    BY <1>3, <1>7, <1>11
  <2>2. a = "continue"
    BY <1>1, <1>2, <1>4, <1>5, <1>6, <1>11
  <2> QED
    BY <1>4, <1>6, <1>11, <2>1, <2>2
<1> QED
  BY <1>3, <1>5, <1>6, <1>9, <1>10, <1>11 DEF a, n

-----------------------------------------------------------------------------
(* The reducer.                                                            *)

\* lifecycleMachine.commit: the session has its new incarnation, in its process, with
\* the presence of its state; the slots of the one before are gone with it, and an
\* activity on display stays only where nothing starts over or ends.
LEMMA CommitFacts ==
  ASSUME NEW s \in Sessions, Sound(s), NEW o \in Observations, NEW at \in Nat,
         Accepted(Decide(s, o, FALSE))
  PROVE  LET a == Decide(s, o, FALSE)
             n == NextIncarnation(s, o, a)
             c == Commit(s, o, a, at)
         IN  /\ c \in Sessions
             /\ c.inc = n /\ c.process = n.proc
             /\ c.presence = PresenceIn(n.state)
             /\ c.presence = "gone" <=> c.act = "none"
             /\ c.replaced => n.state \in {"ended", "exited"}
             /\ c.native = IF Resets(a) THEN NoNative ELSE s.native
             /\ ~Resets(a) /\ ~Finishes(o, a) => c.decAt = s.decAt
             /\ c.act \in {"busy", "idle"} =>
                  ~Resets(a) /\ c.act = s.act /\ c.decProc = s.decProc
<1> DEFINE a == Decide(s, o, FALSE)
           n == NextIncarnation(s, o, a)
           x == IF Resets(a) THEN Cleared(s, n, at) ELSE s
           b == Rebound(x, n)
           c == Commit(s, o, a, at)
<1>1. /\ n \in Incarnations /\ n.state # "none"
      /\ n.state \in {"ended", "exited"} <=> Finishes(o, a)
      /\ n.proc = IF o.proc # NoProc THEN o.proc ELSE s.inc.proc
  BY NextIncarnationFacts
<1>2. c = IF Finishes(o, a) THEN Tombstone(b, at) ELSE Running(b)
  BY DEF Commit
<1>3. a \in {"verify", "continue"} => ~Resets(a)
  BY DEF Resets
<1>4. ~Resets(a) /\ Terminal(s) => Finishes(o, a)
  BY DecideFacts DEF Resets, Finishes
<1> HIDE DEF a, n, c
<1>5. /\ x \in Sessions /\ x.process = s.process
      /\ x.native = IF Resets(a) THEN NoNative ELSE s.native
      /\ Resets(a) => x.replaced = FALSE /\ x.presence = "unknown" /\ x.act = "unknown"
      /\ ~Resets(a) => x = s
  <2>1. CASE Resets(a)
    <3>1. x = Cleared(s, n, at)
      BY <2>1
    <3>2. NoNative \in Natives /\ NoScreen \in Screens /\ NoSight \in Sights /\ n.proc \in Process
      BY <1>1 DEF NoNative, NoScreen, NoSight, Natives, Screens, Sights, Process, Lives, Claims, Acts, Incarnations
    <3> HIDE DEF x
    <3> QED
      BY <2>1, <3>1, <3>2 DEF Cleared, Sessions, Acts
  <2>2. CASE ~Resets(a)
    BY <2>2
  <2> QED
    BY <2>1, <2>2
<1> HIDE DEF x
<1>6. /\ b \in Sessions /\ b.inc = n /\ b.process = n.proc
      /\ b.native = x.native /\ b.presence = x.presence /\ b.act = x.act
      /\ b.decAt = x.decAt /\ b.decProc = x.decProc /\ b.replaced = x.replaced
  BY <1>1, <1>5 DEF Rebound, Sessions, Incarnations, Sound
<1> HIDE DEF b
<1>7. CASE Finishes(o, a) /\ b.replaced
  <2>1. ~Resets(a) /\ b.presence = "gone" /\ b.act = "none" /\ c = b
    BY <1>2, <1>5, <1>6, <1>7 DEF Sound, PresenceIn, Tombstone, Terminal
  <2> QED
    BY <1>1, <1>5, <1>6, <1>7, <2>1 DEF PresenceIn, a, n, c
<1>8. CASE Finishes(o, a) /\ ~b.replaced
  <2>1. c = [b EXCEPT !.presence = "gone", !.act = "none", !.decAt = at, !.decProc = b.inc.proc]
    BY <1>2, <1>8 DEF Tombstone
  <2>2. /\ c \in Sessions /\ c.inc = b.inc /\ c.process = b.process /\ c.native = b.native
        /\ c.presence = "gone" /\ c.act = "none" /\ c.replaced = FALSE
    BY <1>6, <1>8, <2>1 DEF Sessions, Incarnations, Acts
  <2> QED
    BY <1>1, <1>5, <1>6, <1>8, <2>2 DEF PresenceIn, a, n, c
<1>9. CASE ~Finishes(o, a)
  <2>1. /\ c \in Sessions /\ c.inc = b.inc /\ c.process = b.process /\ c.native = b.native
        /\ c.presence = IF n.state = "live" THEN "live" ELSE "unknown"
        /\ c.act = IF b.act = "none" THEN "unknown" ELSE b.act
        /\ c.decAt = b.decAt /\ c.decProc = b.decProc /\ c.replaced = FALSE
    BY <1>2, <1>6, <1>9 DEF Running, Sessions, Acts
  <2>2. ~Resets(a) => s.decAt = c.decAt /\ s.decProc = c.decProc
    BY <1>5, <1>6, <2>1
  <2>3. c.act \in {"busy", "idle"} => ~Resets(a) /\ c.act = s.act
    BY <1>5, <1>6, <2>1
  <2> QED
    BY <1>1, <1>5, <1>6, <1>9, <2>1, <2>2, <2>3 DEF PresenceIn, a, n, c
<1> QED
  BY <1>7, <1>8, <1>9

\* storeObservation fills the slot of the observation's source and nothing else.
LEMMA StoreFacts ==
  ASSUME NEW s \in Sessions, NEW o \in Observations, NEW at \in Nat
  PROVE  LET t == Store(s, o, at)
         IN  /\ t \in Sessions
             /\ t.inc = s.inc /\ t.process = s.process /\ t.presence = s.presence
             /\ t.act = s.act /\ t.decAt = s.decAt /\ t.decProc = s.decProc
             /\ t.replaced = s.replaced
             /\ IF IsReport(o)
                THEN t.native.proc = o.proc /\ t.native.life = o.life /\ t.native.claim = o.claim
                ELSE t.native = s.native
             /\ o.kind = "reading" => t.screen.proc = o.proc /\ t.screen.act = o.act
<1>1. /\ o.proc \in Process /\ o.seq \in Nat /\ o.life \in Lives /\ o.claim \in Claims
      /\ o.act \in Acts /\ o.present \in BOOLEAN /\ o.kind \in Kinds
  BY DEF Observations
<1>2. CASE o.kind = "report"
  <2>1. NativeActivity(s, o) \in Acts
    BY <1>1 DEF NativeActivity, Sessions, Natives
  <2> DEFINE v == NativeSlot(s, o, at)
  <2>2. v \in Natives /\ v.proc = o.proc /\ v.life = o.life /\ v.claim = o.claim
    BY <1>1, <2>1 DEF NativeSlot, Natives
  <2>3. Store(s, o, at) = [s EXCEPT !.native = v]
    BY <1>2 DEF Store
  <2> HIDE DEF v
  <2> QED
    BY <1>2, <2>2, <2>3 DEF Sessions, IsReport
<1>3. CASE o.kind = "sighting"
  <2>1. SightSlot(o, at) \in Sights
    BY <1>1 DEF SightSlot, Sights
  <2>2. Store(s, o, at) = [s EXCEPT !.sight = SightSlot(o, at)]
    BY <1>3 DEF Store
  <2> QED
    BY <1>3, <2>1, <2>2 DEF Sessions, IsReport
<1>4. CASE o.kind = "reading"
  <2> DEFINE v == ScreenSlot(o, at)
  <2>1. v \in Screens /\ v.proc = o.proc /\ v.act = o.act
    BY <1>1 DEF ScreenSlot, Screens
  <2>2. Store(s, o, at) = [s EXCEPT !.screen = v]
    BY <1>4 DEF Store
  <2> HIDE DEF v
  <2> QED
    BY <1>4, <2>1, <2>2 DEF Sessions, IsReport
<1>5. CASE o.kind \in {"placement", "listing", "verification"}
  <2>1. Store(s, o, at) \in {[s EXCEPT !.place = at], [s EXCEPT !.list = at], s}
    BY <1>5 DEF Store
  <2> QED
    BY <1>5, <2>1 DEF Sessions, IsReport
<1> QED
  BY <1>1, <1>2, <1>3, <1>4, <1>5 DEF Kinds

\* lifecycleMachine.apply: an accepted activity is one of the observation's process and
\* no older than the decision it replaces; nothing is said about a session that is gone.
LEMMA ApplyActivityFacts ==
  ASSUME NEW s \in Sessions, NEW o \in Observations, NEW at \in Nat,
         o.kind # "verification",
         IsReport(o) => s.native.proc = o.proc,
         o.kind = "reading" => s.screen.proc = o.proc /\ s.screen.act = o.act
  PROVE  LET t == ApplyActivity(s, o, at)
         IN  /\ t \in Sessions
             /\ t.inc = s.inc /\ t.process = s.process /\ t.presence = s.presence
             /\ t.native = s.native /\ t.replaced = s.replaced
             /\ t.decAt >= s.decAt
             /\ \/ t.act = s.act /\ t.decProc = s.decProc
                \/ /\ t.act # "none" /\ s.presence # "gone"
                   /\ t.decProc = o.proc /\ o.kind \in {"report", "reading"}
<1>1. o.proc \in Process /\ o.kind \in Kinds /\ s.decAt \in Nat /\ o.act \in Acts
  BY DEF Observations, Sessions
<1>2. CASE ApplyActivity(s, o, at) = s
  BY <1>1, <1>2
<1>3. CASE o.kind = "report" /\ ApplyActivity(s, o, at) # s
  <2>1. /\ ApplyActivity(s, o, at) = [s EXCEPT !.act = s.native.act, !.decAt = at, !.decProc = s.native.proc]
        /\ s.native.act # "none" /\ AcceptsActivity(s, at)
    BY <1>3 DEF ApplyActivity
  <2>2. s.native.act \in Acts /\ s.native.proc \in Process
    BY DEF Sessions, Natives
  <2>3. s.native.proc = o.proc /\ s.presence # "gone" /\ at >= s.decAt
    BY <1>3, <2>1 DEF AcceptsActivity, IsReport
  <2> QED
    BY <1>1, <1>3, <2>1, <2>2, <2>3 DEF Sessions
<1>4. CASE o.kind = "reading" /\ ApplyActivity(s, o, at) # s
  <2>1. /\ ApplyActivity(s, o, at) = [s EXCEPT !.act = s.screen.act, !.decAt = at, !.decProc = s.screen.proc]
        /\ AcceptsActivity(s, at)
    BY <1>4 DEF ApplyActivity
  <2>2. o.act # "none"
    BY <1>4 DEF Observations
  <2>3. s.screen.act = o.act /\ s.screen.proc = o.proc /\ s.presence # "gone" /\ at >= s.decAt
    BY <1>4, <2>1 DEF AcceptsActivity
  <2> QED
    BY <1>1, <1>4, <2>1, <2>2, <2>3 DEF Sessions
<1> QED
  BY <1>1, <1>2, <1>3, <1>4 DEF ApplyActivity, Kinds

\* The time at which an observation is stored is never before its own.
LEMMA SequencedTimeFacts ==
  ASSUME NEW s \in Sessions, NEW o \in Observations, ~Duplicate(s, o)
  PROVE  SequencedTime(s, o) \in Nat /\ SequencedTime(s, o) >= o.at
<1>1. o.at \in Nat /\ s.native.at \in Nat
  BY DEF Observations, Sessions, Natives
<1> QED
  BY <1>1 DEF SequencedTime

\* The session r that an accepted observation o makes of s: a sound one, with the next
\* incarnation; its decision is no older unless the session starts over or ends; an
\* activity on display is the one before, of the same incarnation, or one of the
\* observation's process.
Follows(s, o, r) ==
  LET a == Decide(s, o, FALSE)
  IN  /\ Accepted(a)
      /\ r \in Sessions /\ Sound(r)
      /\ r.inc = NextIncarnation(s, o, a)
      /\ ~Resets(a) /\ ~Finishes(o, a) => r.decAt >= s.decAt
      /\ r.act \in {"busy", "idle"} =>
           \/ ~Resets(a) /\ r.act = s.act /\ r.decProc = s.decProc
           \/ r.decProc = o.proc /\ o.kind \in {"report", "reading"}

\* The session that applyObservation saves when the observation is news to its slot.
Applied(s, o, action, at) ==
  ApplyActivity([Store(Commit(s, o, action, at), o, at) EXCEPT
                   !.process = IF o.proc # NoProc THEN o.proc ELSE @], o, at)

\* applyObservation: an accepted observation that is news to its slot is followed.
LEMMA AppliedFacts ==
  ASSUME NEW s \in Sessions, Sound(s), NEW o \in Observations, NEW at \in Nat,
         Accepted(Decide(s, o, FALSE)), at >= o.at
  PROVE  Follows(s, o, Applied(s, o, Decide(s, o, FALSE), at))
<1> DEFINE a == Decide(s, o, FALSE)
           n == NextIncarnation(s, o, a)
           c == Commit(s, o, a, at)
           t == Store(c, o, at)
           u == [t EXCEPT !.process = IF o.proc # NoProc THEN o.proc ELSE @]
           r == ApplyActivity(u, o, at)
           x == Applied(s, o, a, at)
<1>1. x = r
  BY DEF Applied
<1>2. /\ n \in Incarnations /\ n.state # "none"
      /\ n.state \in {"ended", "exited"} <=> Finishes(o, a)
      /\ a = "verify" => n.state # "live"
      /\ n.proc = IF o.proc # NoProc THEN o.proc ELSE s.inc.proc
  BY NextIncarnationFacts
<1>3. /\ c \in Sessions /\ c.inc = n /\ c.process = n.proc
      /\ c.presence = PresenceIn(n.state)
      /\ c.presence = "gone" <=> c.act = "none"
      /\ c.replaced => n.state \in {"ended", "exited"}
      /\ c.native = IF Resets(a) THEN NoNative ELSE s.native
      /\ ~Resets(a) /\ ~Finishes(o, a) => c.decAt = s.decAt
      /\ c.act \in {"busy", "idle"} => ~Resets(a) /\ c.act = s.act /\ c.decProc = s.decProc
  BY CommitFacts
<1>4. /\ ~Resets(a) /\ Terminal(s) => Finishes(o, a)
      /\ a = "verify" <=> o.kind = "verification"
      /\ a = "verify" => o.at >= s.decAt /\ o.claim \in {"gone", "unknown"}
  BY DecideFacts DEF Resets, Finishes, Starts, IsReport, Observations
<1>5. o.proc \in Process /\ o.kind \in Kinds /\ o.at \in Nat /\ s.decAt \in Nat
  BY DEF Observations, Sessions
<1>6. IsReport(o) /\ Ends(o) => Finishes(o, a)
  BY <1>4 DEF Finishes, IsReport, Accepted, Decide
<1>7. Finishes(o, a) /\ a = "verify" <=> a = "verify" /\ o.claim = "gone"
  BY DEF Finishes
<1> HIDE DEF a, n, c, x
<1>8. /\ t \in Sessions
      /\ t.inc = c.inc /\ t.process = c.process /\ t.presence = c.presence
      /\ t.act = c.act /\ t.decAt = c.decAt /\ t.decProc = c.decProc /\ t.replaced = c.replaced
      /\ IF IsReport(o)
         THEN t.native.proc = o.proc /\ t.native.life = o.life /\ t.native.claim = o.claim
         ELSE t.native = c.native
      /\ o.kind = "reading" => t.screen.proc = o.proc /\ t.screen.act = o.act
  BY <1>3, StoreFacts
<1> HIDE DEF t
<1>9. /\ u \in Sessions
      /\ u.inc = n /\ u.process = n.proc /\ u.presence = c.presence
      /\ u.act = c.act /\ u.decAt = c.decAt /\ u.decProc = c.decProc /\ u.replaced = c.replaced
      /\ u.native = t.native /\ u.screen = t.screen
  BY <1>2, <1>3, <1>5, <1>8 DEF Sessions, Incarnations
<1> HIDE DEF u
<1>10. NativeEnded(u) => Finishes(o, a)
  <2>1. CASE IsReport(o)
    BY <1>6, <1>8, <1>9, <2>1 DEF NativeEnded, Ends
  <2>2. CASE ~IsReport(o)
    BY <1>3, <1>4, <1>8, <1>9, <2>2 DEF NativeEnded, NoNative, Sound
  <2> QED
    BY <2>1, <2>2
<1>11. CASE o.kind # "verification"
  <2>1. /\ r \in Sessions
        /\ r.inc = u.inc /\ r.process = u.process /\ r.presence = u.presence
        /\ r.native = u.native /\ r.replaced = u.replaced
        /\ r.decAt >= u.decAt
        /\ \/ r.act = u.act /\ r.decProc = u.decProc
           \/ /\ r.act # "none" /\ u.presence # "gone"
              /\ r.decProc = o.proc /\ o.kind \in {"report", "reading"}
    BY <1>8, <1>9, <1>11, ApplyActivityFacts
  <2> HIDE DEF r
  <2>2. Sound(r)
    BY <1>2, <1>3, <1>9, <1>10, <2>1 DEF Sound, NativeEnded, Terminal
  <2>3. ~Resets(a) /\ ~Finishes(o, a) => r.decAt >= s.decAt
    BY <1>3, <1>9, <2>1
  <2>4. r.act \in {"busy", "idle"} =>
          \/ ~Resets(a) /\ r.act = s.act /\ r.decProc = s.decProc
          \/ r.decProc = o.proc /\ o.kind \in {"report", "reading"}
    BY <1>3, <1>9, <2>1
  <2> QED
    BY <1>1, <1>9, <2>1, <2>2, <2>3, <2>4 DEF a, n, x, Follows
<1>12. CASE o.kind = "verification"
  <2>1. r = [u EXCEPT !.presence = IF o.claim = "gone" THEN "gone" ELSE "unknown",
                      !.act = IF o.claim = "gone" THEN "none" ELSE "unknown",
                      !.decAt = at, !.decProc = NoProc, !.replaced = FALSE]
    BY <1>12 DEF ApplyActivity
  <2> HIDE DEF r
  <2>2. /\ r \in Sessions /\ r.inc = n /\ r.process = n.proc /\ r.native = u.native
        /\ r.presence = (IF o.claim = "gone" THEN "gone" ELSE "unknown")
        /\ r.act = (IF o.claim = "gone" THEN "none" ELSE "unknown")
        /\ r.decAt = at /\ r.replaced = FALSE
    <3> DEFINE presence == IF o.claim = "gone" THEN "gone" ELSE "unknown"
               act == IF o.claim = "gone" THEN "none" ELSE "unknown"
    <3>1. presence \in {"unknown", "live", "gone"} /\ act \in Acts /\ NoProc \in Process
      BY DEF Acts, Process
    <3>2. r = [u EXCEPT !.presence = presence, !.act = act, !.decAt = at, !.decProc = NoProc,
                        !.replaced = FALSE]
      BY <2>1
    <3> HIDE DEF presence, act
    <3>3. /\ r \in Sessions /\ r.inc = u.inc /\ r.process = u.process /\ r.native = u.native
          /\ r.presence = presence /\ r.act = act /\ r.decAt = at /\ r.replaced = FALSE
      BY <1>9, <3>1, <3>2 DEF Sessions
    <3> QED
      BY <1>9, <3>3 DEF presence, act
  <2>3. r.presence = PresenceIn(n.state)
    BY <1>2, <1>4, <1>7, <1>12, <2>2 DEF PresenceIn
  <2>4. Sound(r)
    BY <1>2, <1>10, <2>2, <2>3 DEF Sound, NativeEnded, Terminal
  <2>5. r.decAt >= s.decAt /\ r.act \notin {"busy", "idle"}
    BY <1>4, <1>5, <1>12, <2>2
  <2> QED
    BY <1>1, <2>2, <2>4, <2>5 DEF a, n, x, Follows
<1> QED
  BY <1>11, <1>12

\* reduceSession: the session stays as it was, or follows the observation.
LEMMA ReduceFacts ==
  ASSUME NEW s \in Sessions, Sound(s), NEW o \in Observations
  PROVE  LET r == Reduce(s, o).session IN r = s \/ Follows(s, o, r)
<1> DEFINE a == Decide(s, o, FALSE)
           baseline == IF Resets(a) THEN [s EXCEPT !.native = NoNative] ELSE s
           at == SequencedTime(baseline, o)
           r == Reduce(s, o).session
<1>1. baseline \in Sessions
  <2>1. NoNative \in Natives
    BY DEF Natives, NoNative, Process, Lives, Claims, Acts
  <2> QED
    BY <2>1 DEF Sessions
<1>2. \/ r = s
      \/ Accepted(a) /\ ~Duplicate(baseline, o) /\ r = ApplyObservation(s, o, a, at).session
  BY DEF Reduce, Dropped, Saved, Conflict
<1> HIDE DEF baseline
<1>3. CASE Accepted(a) /\ ~Duplicate(baseline, o) /\ r = ApplyObservation(s, o, a, at).session
  <2>1. at \in Nat /\ at >= o.at
    BY <1>1, <1>3, SequencedTimeFacts
  <2>2. r = s \/ r = Applied(s, o, a, at)
    BY <1>3 DEF ApplyObservation, Applied, Dropped, Saved, Conflict
  <2> QED
    BY <1>3, <2>1, <2>2, AppliedFacts
<1> QED
  BY <1>2, <1>3

\* The session whose native slot orders a report: a new incarnation starts without one.
Baseline(s, o) == IF Resets(Decide(s, o, FALSE)) THEN [s EXCEPT !.native = NoNative] ELSE s

\* commit leaves the slots alone, or empties them.
LEMMA CommitSlots ==
  ASSUME NEW s \in Sessions, NEW o \in Observations, NEW action, NEW at
  PROVE  LET c == Commit(s, o, action, at)
         IN  /\ c.native = IF Resets(action) THEN NoNative ELSE s.native
             /\ c.sight = IF Resets(action) THEN NoSight ELSE s.sight
             /\ c.screen = IF Resets(action) THEN NoScreen ELSE s.screen
<1> DEFINE n == NextIncarnation(s, o, action)
           x == IF Resets(action) THEN Cleared(s, n, at) ELSE s
           b == Rebound(x, n)
           c == Commit(s, o, action, at)
<1>1. c = IF Finishes(o, action) THEN Tombstone(b, at) ELSE Running(b)
  BY DEF Commit
<1> HIDE DEF n, c
<1>2. /\ x.native = IF Resets(action) THEN NoNative ELSE s.native
      /\ x.sight = IF Resets(action) THEN NoSight ELSE s.sight
      /\ x.screen = IF Resets(action) THEN NoScreen ELSE s.screen
  BY DEF Cleared, Sessions
<1>3. DOMAIN x = DOMAIN NewSession
  BY DEF Cleared, Sessions, NewSession
<1> HIDE DEF x
<1>4. b.native = x.native /\ b.sight = x.sight /\ b.screen = x.screen /\ DOMAIN b = DOMAIN NewSession
  BY <1>3 DEF Rebound, NewSession
<1> HIDE DEF b
<1>5. c.native = b.native /\ c.sight = b.sight /\ c.screen = b.screen
  BY <1>1, <1>4 DEF Tombstone, Running, NewSession
<1> QED
  BY <1>2, <1>4, <1>5 DEF c

\* The session r that has taken in the observation o: the slot of its source holds what it
\* says, at its time or, for a report, at one after the report before; the other slots are as
\* they were.
Written(s, o, r) ==
  LET a == Decide(s, o, FALSE)
      b == Baseline(s, o)
  IN  /\ ~Duplicate(b, o) /\ ~OutOfSequence(b, o)
      /\ IsReport(o) /\ ~Resets(a) /\ ~Finishes(o, a) /\ s.native.at # 0 =>
           SequencedTime(b, o) > s.native.at
      /\ IF IsReport(o)
         THEN /\ r.native.at = SequencedTime(b, o)
              /\ r.native.proc = o.proc /\ r.native.seq = o.seq
              /\ r.native.life = o.life /\ r.native.claim = o.claim
              /\ o.act # "none" => r.native.act = o.act
         ELSE r.native = b.native
      /\ r.sight = IF o.kind = "sighting" THEN SightSlot(o, o.at)
                   ELSE IF Resets(a) THEN NoSight ELSE s.sight
      /\ r.screen = IF o.kind = "reading" THEN ScreenSlot(o, o.at)
                    ELSE IF Resets(a) THEN NoScreen ELSE s.screen

\* storeObservation and the lifecycle machine, after the ordering of reports.
LEMMA ReduceSlots ==
  ASSUME NEW s \in Sessions, Sound(s), NEW o \in Observations, Reduce(s, o).session # s
  PROVE  Written(s, o, Reduce(s, o).session)
<1> DEFINE a == Decide(s, o, FALSE)
           b == Baseline(s, o)
           at == SequencedTime(b, o)
           c == Commit(s, o, a, at)
           t == Store(c, o, at)
           u == [t EXCEPT !.process = IF o.proc # NoProc THEN o.proc ELSE @]
           r == ApplyActivity(u, o, at)
<1>1. Accepted(a) /\ ~Duplicate(b, o) /\ ~OutOfSequence(b, o) /\ Reduce(s, o).session = r
  BY DEF Reduce, Dropped, Saved, Conflict, Baseline, ApplyObservation
<1>2. b \in Sessions /\ b.native = IF Resets(a) THEN NoNative ELSE s.native
  <2>1. NoNative \in Natives
    BY DEF Natives, NoNative, Process, Lives, Claims, Acts
  <2> QED
    BY <2>1 DEF Sessions, Baseline
<1>3. at \in Nat /\ o.kind \in Kinds /\ (~IsReport(o) => at = o.at)
  BY <1>1, <1>2, SequencedTimeFacts DEF SequencedTime, Sequenced, Observations
<1>o. IsReport(o) /\ ~Resets(a) /\ ~Finishes(o, a) /\ s.native.at # 0 => at > s.native.at
  <2>1. s.native.at \in Nat
    BY DEF Sessions, Natives
  <2>2. SlotTime(s, o) = s.native.at \/ ~IsReport(o)
    BY DEF SlotTime, IsReport
  <2>3. LET ordered == ~Resets(a) /\ ~Finishes(o, a) /\ SlotTime(s, o) # 0
        IN  ~(ordered /\ at < SlotTime(s, o)) /\ ~(ordered /\ at = SlotTime(s, o))
    BY DEF Reduce, Dropped, Saved, Conflict, Baseline, ApplyObservation
  <2> HIDE DEF a, at
  <2> QED
    BY <1>3, <2>1, <2>2, <2>3
<1>4. c \in Sessions
  BY <1>1, <1>3, CommitFacts
<1>5. /\ c.native = IF Resets(a) THEN NoNative ELSE s.native
      /\ c.sight = IF Resets(a) THEN NoSight ELSE s.sight
      /\ c.screen = IF Resets(a) THEN NoScreen ELSE s.screen
  <2> HIDE DEF a, at
  <2> QED
    BY CommitSlots
<1> HIDE DEF a, b, at, c
<1>6. t \in Sessions
  BY <1>3, <1>4, StoreFacts
<1>7. /\ IF IsReport(o)
         THEN /\ t.native.at = at
              /\ t.native.proc = o.proc /\ t.native.seq = o.seq
              /\ t.native.life = o.life /\ t.native.claim = o.claim
              /\ o.act # "none" => t.native.act = o.act
         ELSE t.native = c.native
      /\ t.sight = IF o.kind = "sighting" THEN SightSlot(o, at) ELSE c.sight
      /\ t.screen = IF o.kind = "reading" THEN ScreenSlot(o, at) ELSE c.screen
  <2>1. CASE o.kind = "report"
    <3>1. t = [c EXCEPT !.native = NativeSlot(c, o, at)]
      BY <2>1 DEF Store
    <3>2. t.native = NativeSlot(c, o, at) /\ t.sight = c.sight /\ t.screen = c.screen
      BY <1>4, <3>1 DEF Sessions
    <3> QED
      BY <2>1, <3>2 DEF NativeSlot, NativeActivity, IsReport
  <2>2. CASE o.kind # "report"
    <3>1. t = CASE o.kind = "sighting"  -> [c EXCEPT !.sight = SightSlot(o, at)]
                [] o.kind = "reading"   -> [c EXCEPT !.screen = ScreenSlot(o, at)]
                [] o.kind = "placement" -> [c EXCEPT !.place = at]
                [] o.kind = "listing"   -> [c EXCEPT !.list = at]
                [] OTHER                -> c
      BY <1>3, <2>2 DEF Store, Kinds
    <3> QED
      BY <1>3, <1>4, <2>2, <3>1 DEF Sessions, IsReport, Kinds
  <2> QED
    BY <2>1, <2>2
<1> HIDE DEF t
<1>8. u \in Sessions /\ u.native = t.native /\ u.sight = t.sight /\ u.screen = t.screen
  BY <1>6 DEF Sessions, Observations
<1> HIDE DEF u
<1>9. r.native = u.native /\ r.sight = u.sight /\ r.screen = u.screen
  BY <1>8 DEF ApplyActivity, Sessions
<1> HIDE DEF r
<1>10. b.native = c.native
  BY <1>2, <1>5
<1>11. r.native = t.native /\ r.sight = t.sight /\ r.screen = t.screen
  BY <1>8, <1>9
<1> QED
  BY <1>1, <1>3, <1>o, <1>5, <1>7, <1>10, <1>11 DEF Written, IsReport, a, b, at

\* retireConflictingProcessSessions, reconcileIdentityProcessSessions: a session that lost
\* its process is over, unless it has newer evidence or the observation ends another one.
LEMMA RetireFacts ==
  ASSUME NEW s \in Sessions, Sound(s), NEW o \in Observations, NEW taken \in BOOLEAN,
         o.kind # "verification"
  PROVE  LET r == Retire(s, o, taken).session
         IN  \/ r = s /\ ~Accepted(Decide(s, o, TRUE))
             \/ /\ Accepted(Decide(s, o, TRUE))
                /\ r \in Sessions /\ Sound(r) /\ r.inc.state = "exited"
                /\ r.presence = "gone" /\ o.at >= s.inc.evAt
                /\ r.inc.proc = s.inc.proc /\ r.inc.evAt = s.inc.evAt
                /\ r.native = s.native /\ r.sight = s.sight /\ r.screen = s.screen
                /\ r.inc.trAt = Later(s.inc.trAt, o.at) /\ r.process = s.process
<1> DEFINE a == Decide(s, o, TRUE)
           n == [s.inc EXCEPT !.state = "exited", !.trAt = Later(@, o.at)]
           b == Rebound(s, n)
           c == Commit(s, o, a, o.at)
           g == IF taken THEN [c EXCEPT !.replaced = TRUE, !.decAt = o.at, !.decProc = o.proc]
                ELSE c
           r == Retire(s, o, taken).session
<1>1. /\ s.inc \in Incarnations /\ s.inc.evAt \in Nat /\ s.inc.trAt \in Nat
      /\ o.at \in Nat /\ o.proc \in Process
  BY DEF Sessions, Incarnations, Observations
<1>2. \/ r = s /\ ~Accepted(a)
      \/ a = "retire" /\ Accepted(a) /\ o.at >= s.inc.evAt /\ r = g
  BY <1>1 DEF Retire, Decide, Accepted, Dropped, Saved
<1>3. a = "retire" => c = Tombstone(b, o.at)
  BY DEF Commit, NextIncarnation, Finishes, Resets
<1>s0. s.inc.proc = s.process /\ (a = "retire" => Accepted(a))
  BY DEF Sound, Accepted
<1>s. a = "retire" =>
        c.native = s.native /\ c.sight = s.sight /\ c.screen = s.screen
  <2>1. ~Resets("retire")
    BY DEF Resets
  <2> HIDE DEF a
  <2> QED
    BY <2>1, CommitSlots
<1> HIDE DEF a, c
<1>4. /\ n \in Incarnations /\ n.state = "exited"
      /\ n.proc = s.inc.proc /\ n.evAt = s.inc.evAt /\ n.trAt = Later(s.inc.trAt, o.at)
      /\ n.trAt \in Nat
  BY <1>1 DEF Incarnations, States, Later
<1> HIDE DEF n
<1>5. /\ b \in Sessions /\ b.inc = n /\ b.process = n.proc /\ b.presence = s.presence
      /\ b.act = s.act /\ b.replaced = s.replaced
  BY <1>4 DEF Rebound, Sessions, Sound
<1> HIDE DEF b
<1>6. a = "retire" => /\ c \in Sessions /\ c.inc = n /\ c.process = n.proc
                      /\ c.presence = "gone" /\ c.act = "none"
  <2>1. CASE b.replaced
    BY <1>3, <1>5, <2>1 DEF Tombstone, Sound, Terminal, PresenceIn
  <2>2. CASE ~b.replaced
    <3>1. a = "retire" =>
            c = [b EXCEPT !.presence = "gone", !.act = "none", !.decAt = o.at, !.decProc = b.inc.proc]
      BY <1>3, <2>2 DEF Tombstone
    <3>2. b.inc.proc \in Process
      BY <1>4, <1>5 DEF Incarnations
    <3>3. "none" \in Acts /\ o.at \in Nat
      BY <1>1 DEF Acts
    <3>4. a = "retire" =>
            /\ c \in Sessions /\ c.inc = b.inc /\ c.process = b.process
            /\ c.presence = "gone" /\ c.act = "none"
      <4> SUFFICES ASSUME a = "retire"
                   PROVE  /\ c \in Sessions /\ c.inc = b.inc /\ c.process = b.process
                          /\ c.presence = "gone" /\ c.act = "none"
        OBVIOUS
      <4> DEFINE at == o.at
                 proc == b.inc.proc
      <4>1. c = [b EXCEPT !.presence = "gone", !.act = "none", !.decAt = at, !.decProc = proc]
        BY <3>1
      <4>2. b \in Sessions /\ at \in Nat /\ proc \in Process /\ "none" \in Acts
        BY <1>5, <3>2, <3>3
      <4> HIDE DEF at, proc
      <4> QED
        BY <4>1, <4>2 DEF Sessions
    <3> QED
      BY <1>5, <3>4
  <2> QED
    BY <2>1, <2>2
<1>7. a = "retire" => /\ g \in Sessions /\ g.inc = n /\ g.process = n.proc
                      /\ g.presence = "gone" /\ g.act = "none"
                      /\ g.native = s.native /\ g.sight = s.sight /\ g.screen = s.screen
  BY <1>1, <1>6, <1>s DEF Sessions
<1> HIDE DEF g, r
<1>8. a = "retire" => Sound(g)
  BY <1>4, <1>7 DEF Sound, PresenceIn, Terminal
<1>9. \/ r = s /\ ~Accepted(a)
      \/ /\ Accepted(a) /\ r \in Sessions /\ Sound(r) /\ r.inc.state = "exited"
         /\ r.presence = "gone" /\ o.at >= s.inc.evAt
         /\ r.inc.proc = s.inc.proc /\ r.inc.evAt = s.inc.evAt
         /\ r.native = s.native /\ r.sight = s.sight /\ r.screen = s.screen
         /\ r.inc.trAt = Later(s.inc.trAt, o.at) /\ r.process = s.process
  BY <1>s0, <1>1, <1>2, <1>4, <1>7, <1>8
<1> QED
  BY <1>9 DEF a, r
=============================================================================
