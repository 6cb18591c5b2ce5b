----------------------- MODULE SessionLifecycleProofs -----------------------
(***************************************************************************)
(* Theorems about SessionLifecycle, for any processes, policy, sources of  *)
(* observations and number of moments.                                     *)
(***************************************************************************)
EXTENDS SessionLifecycle, LifecycleProofs, TLAPS
-----------------------------------------------------------------------------
(* The inductive invariants.                                               *)

\* Starts and ends have a process, a session that ended is closed, and only a running
\* process has it open.
WorldIsSound ==
  /\ past \in Seq(Moment) /\ Now >= 1
  /\ \A t \in 1..Now :
       /\ past[t].mark # "none" => past[t].by \in Procs
       /\ past[t].mark = "start" => past[t].open = past[t].by
       /\ past[t].mark = "end" => past[t].open = NoProc
       /\ past[t].open \in past[t].alive \cup {NoProc}

\* The session is sound, and its evidence is of moments that have been.
SessionIsSound ==
  /\ session \in Sessions /\ Sound(session)
  /\ session.inc.evAt <= Now /\ session.inc.trAt <= Now
  /\ exited \subseteq Procs /\ lastLive \in Nat

Inv == WorldIsSound /\ SessionIsSound

\* Either every report names its process, or none does.
EveryReportNames == Bare = {}
NoReportNames    == Bare = {"start", "turn", "end"}
Uniform          == EveryReportNames \/ NoReportNames

\* An activity on display is the bound process's; there is none without a process that
\* reports could have named, and no process that they could not.
ActivityInProcess ==
  /\ ActivityIsOwn
  /\ EveryReportNames /\ session.act \in {"busy", "idle"} => session.process # NoProc
  /\ NoReportNames => session.inc.proc = NoProc

\* Every sign of life that was accepted is evidence.
LifeIsEvidence == lastLive <= session.inc.evAt

TruthInv == Inv /\ ActivityInProcess /\ LifeIsEvidence /\ GoneIsTrue

\* What the slots hold was said of the bound process, and was true: a scan of that moment
\* says the same again. Only an integration that numbers its reports leaves a number.
SlotsAreOwn ==
  /\ session.native.at # 0 =>
       /\ session.native.proc = session.inc.proc
       /\ EveryReportNames => session.inc.proc # NoProc
  /\ ~Numbered => session.native.seq = 0
  /\ session.sight.at # 0 =>
       /\ session.sight.at \in 1..Now
       /\ session.sight.proc = session.inc.proc /\ session.inc.proc # NoProc
       /\ session.sight.present = (session.inc.proc \in past[session.sight.at].alive)
  /\ session.screen.at # 0 =>
       /\ session.screen.proc = session.inc.proc /\ session.inc.proc # NoProc
       /\ session.screen.act = "idle"

\* Of a session that was never seen nothing is known.
Fresh == ~Exists(session) => session = NewSession

\* A running incarnation was last changed by evidence; one that is over was let go of at a
\* moment that is no earlier than its evidence and its last change.
Dated ==
  /\ Exists(session) => session.inc.proc # NoProc /\ session.inc.trAt >= 1
  /\ ~Terminal(session) => session.inc.trAt <= session.inc.evAt
  /\ Terminal(session) =>
       \E t \in 1..Now : /\ t >= session.inc.evAt /\ t >= session.inc.trAt
                         /\ past[t].open # session.inc.proc

\* A session is left starting only by a report that claims nothing, and it stays so only while
\* every start it is told of is older than the last report.
Waiting ==
  session.inc.state = "starting" =>
    /\ session.native.at # 0 /\ session.native.life = "none"
    /\ session.native.claim = "none" /\ session.native.act = "busy"
    /\ IF Numbered THEN session.native.seq >= 2 * session.inc.trAt
       ELSE session.native.at \in session.inc.trAt..Now

HeardInv == Fresh /\ Dated /\ Waiting

-----------------------------------------------------------------------------
(* What may reach the session.                                             *)

\* What an observation in the inbox claims was true at its time: an end, of a session
\* that was closed then; an absence, of a process that was not running; a verification
\* that the session is gone, of a session nobody had open. Scans are of the bound
\* process; hooks name the process or not, as the setting says.
TrueThen(o) ==
  /\ o \in Observations /\ o.at \in 1..Now
  /\ Ends(o) => past[o.at].open = NoProc
  /\ Absent(o) => o.proc \notin past[o.at].alive
  /\ o.kind = "verification" /\ o.claim = "gone" => past[o.at].open = NoProc
  /\ o.kind \in {"sighting", "reading", "placement"} => o.proc = session.process
  /\ EveryReportNames /\ IsReport(o) => o.proc \in Procs
  /\ NoReportNames /\ IsReport(o) => o.proc = NoProc

\* A moment of the past is a moment.
LEMMA MomentFacts ==
  ASSUME WorldIsSound, NEW t \in 1..Now
  PROVE  /\ t \in Nat /\ past[t] \in Moment
         /\ past[t].open \in Process /\ past[t].alive \subseteq Procs /\ past[t].by \in Process
<1>1. past \in Seq(Moment) /\ t \in 1..Len(past)
  BY DEF WorldIsSound, Now
<1>2. past[t] \in Moment /\ t \in Nat
  BY <1>1
<1> QED
  BY <1>2 DEF Moment, Process

\* A report as an observation.
LEMMA ReportType ==
  ASSUME NEW p \in Process, NEW t \in Nat, NEW l \in Lives, NEW c \in Claims, NEW a \in Acts,
         NEW n \in Nat
  PROVE  LET o == Report(p, t, l, c, a, n)
         IN  /\ o \in Observations /\ o.at = t /\ o.proc = p /\ o.kind = "report"
             /\ Ends(o) <=> c = "gone" \/ l = "end"
             /\ o.claim = c /\ o.life = l /\ o.act = a
BY DEF Report, Observation, Observations, Kinds, Lives, Claims, Acts, Ends, IsReport

\* An integration number is a natural number.
LEMMA NumberType == ASSUME NEW t \in Nat, NEW k \in 0..1 PROVE Number(t, k) \in Nat
BY DEF Number

\* A report says what happened at its time, of the process that its hook could name.
LEMMA ReportsAreTrue ==
  ASSUME WorldIsSound, NEW t \in 1..Now, NEW o \in Reports(t)
  PROVE  TrueThen(o)
<1> DEFINE m == past[t]
<1>1. /\ t \in Nat /\ m.open \in Process /\ m.by \in Process
      /\ m.mark # "none" => m.by \in Procs
      /\ m.mark = "end" => m.open = NoProc
      /\ m.mark \in {"none", "start", "end"}
  BY MomentFacts DEF WorldIsSound, Moment
<1>2. Number(t, 0) \in Nat /\ Number(t, 1) \in Nat
  BY <1>1, NumberType
<1>3. \A p \in Process : \A k : Known(p, k) \in Process
  BY DEF Known, Process
<1>4. \A p \in Procs, k \in {"start", "turn", "end"} :
        /\ EveryReportNames => Known(p, k) \in Procs
        /\ NoReportNames => Known(p, k) = NoProc
  BY DEF Known, EveryReportNames, NoReportNames
<1>w. /\ {"none", "start", "end"} \subseteq Lives /\ {"none", "live", "gone"} \subseteq Claims
      /\ {"none", "busy"} \subseteq Acts
  BY DEF Lives, Claims, Acts
<1>5. CASE m.mark = "end"
  <2>1. o = Report(Known(m.by, "end"), t, "end", "gone", "none", Number(t, 1))
    BY <1>5 DEF Reports
  <2>2. /\ o \in Observations /\ o.at = t /\ o.proc = Known(m.by, "end") /\ o.kind = "report"
    BY <1>1, <1>2, <1>3, <1>w, <2>1
         DEF Report, Observation, Observations, Kinds, Ends, IsReport
  <2> QED
    BY <1>1, <1>4, <1>5, <2>2 DEF TrueThen, Absent, IsReport
<1>6. CASE m.mark # "end"
  <2>1. \/ /\ m.mark = "start"
           /\ o = Report(Known(m.by, "start"), t, "start", "live", "none", Number(t, 0))
        \/ /\ m.open # NoProc
           /\ \E c \in {"none", "live"} :
                o = Report(Known(m.open, "turn"), t, "none", c, "busy", Number(t, 1))
    BY <1>6 DEF Reports
  <2>2. CASE /\ m.mark = "start"
             /\ o = Report(Known(m.by, "start"), t, "start", "live", "none", Number(t, 0))
    <3>1. /\ o \in Observations /\ o.at = t /\ o.proc = Known(m.by, "start") /\ o.kind = "report"
          /\ ~Ends(o)
      BY <1>1, <1>2, <1>3, <1>w, <2>2
         DEF Report, Observation, Observations, Kinds, Ends, IsReport
    <3> QED
      BY <1>1, <1>4, <2>2, <3>1 DEF TrueThen, Absent, IsReport
  <2>3. CASE /\ m.open # NoProc
             /\ \E c \in {"none", "live"} :
                  o = Report(Known(m.open, "turn"), t, "none", c, "busy", Number(t, 1))
    <3>1. PICK c \in {"none", "live"} :
            o = Report(Known(m.open, "turn"), t, "none", c, "busy", Number(t, 1))
      BY <2>3
    <3>2. /\ o \in Observations /\ o.at = t /\ o.proc = Known(m.open, "turn") /\ o.kind = "report"
          /\ ~Ends(o)
      BY <1>1, <1>2, <1>3, <1>w, <3>1
         DEF Report, Observation, Observations, Kinds, Ends, IsReport
    <3>3. m.open \in Procs
      BY <1>1, <2>3 DEF Process
    <3> QED
      BY <1>1, <1>4, <3>2, <3>3 DEF TrueThen, Absent, IsReport
  <2> QED
    BY <2>1, <2>2, <2>3
<1> QED
  BY <1>5, <1>6

\* A sighting as an observation.
LEMMA SightingType ==
  ASSUME NEW p \in Procs, NEW t \in Nat, NEW b \in BOOLEAN
  PROVE  LET o == Sighting(p, t, b)
         IN  /\ o \in Observations
             /\ o.kind = "sighting" /\ o.proc = p /\ o.at = t /\ o.present = b
BY ProcAssumption
   DEF Sighting, Observation, Observations, Kinds, Lives, Claims, Acts, Process

\* A scan says which process was running, a reading and a placement that it was.
LEMMA ScansAreTrue ==
  ASSUME WorldIsSound, NEW t \in 1..Now, NEW o \in Scans(t), o.proc = session.process
  PROVE  TrueThen(o)
<1>1. t \in Nat /\ past[t].alive \subseteq Procs
  BY MomentFacts
<1>2. \A i \in 1..t : i \in 1..Now
  BY <1>1 DEF WorldIsSound, Now
<1>3. UNION {past[i].alive : i \in 1..t} \subseteq Procs
  BY <1>2, MomentFacts
<1>4. \/ \E p \in Procs : o = Sighting(p, t, p \in past[t].alive)
      \/ \E p \in Procs : o = Observation("placement", p, t)
      \/ \E p \in Procs : o = Reading(p, t, "idle")
  BY <1>1, <1>3 DEF Scans
<1>5. ASSUME NEW p \in Procs, o = Sighting(p, t, p \in past[t].alive) PROVE TrueThen(o)
  <2>1. PICK b \in BOOLEAN : o = Sighting(p, t, b) /\ (b <=> p \in past[t].alive)
    <3>1. CASE p \in past[t].alive
      <4>1. o = Sighting(p, t, TRUE)
        BY <1>5, <3>1, Zenon
      <4> QED
        BY <3>1, <4>1
    <3>2. CASE p \notin past[t].alive
      <4>0. (p \in past[t].alive) = FALSE
        BY <3>2
      <4>1. o = Sighting(p, t, FALSE)
        BY <1>5, <4>0
      <4> QED
        BY <3>2, <4>1
    <3> QED
      BY <3>1, <3>2
  <2>2. /\ o.kind = "sighting" /\ o.proc = p /\ o.at = t /\ o.present = b
        /\ o \in Observations
    BY <1>1, <2>1, SightingType
  <2> QED
    BY <2>1, <2>2 DEF TrueThen, Ends, Absent, IsReport
<1>6. ASSUME NEW p \in Procs, o = Observation("placement", p, t) PROVE TrueThen(o)
  BY <1>1, <1>6, ProcAssumption
     DEF Observation, Observations, Kinds, Lives, Claims, Acts, Process, TrueThen, Ends, Absent, IsReport
<1>7. ASSUME NEW p \in Procs, o = Reading(p, t, "idle") PROVE TrueThen(o)
  BY <1>1, <1>7, ProcAssumption
     DEF Reading, Observation, Observations, Kinds, Lives, Claims, Acts, Process, TrueThen, Ends, Absent, IsReport
<1> QED
  BY <1>4, <1>5, <1>6, <1>7

\* Whatever reaches the session was true once.
LEMMA InboxIsTrue ==
  ASSUME WorldIsSound, NEW o \in Inbox
  PROVE  TrueThen(o)
<1>1. PICK t \in 1..Now :
        o \in Reports(t) \cup Checks(t) \cup Listings(t) \cup {x \in Scans(t) : x.proc = session.process}
  BY DEF Inbox
<1>2. t \in Nat
  BY MomentFacts
<1>3. CASE o \in Checks(t)
  <2>1. PICK c \in {"gone", "unknown"} :
          o = Verification(t, c) /\ (c = "gone" => past[t].open = NoProc)
    BY <1>3 DEF Checks
  <2> QED
    BY <1>2, <2>1
       DEF Verification, Observation, Observations, Kinds, Lives, Claims, Acts, Process, TrueThen, Ends, Absent, IsReport
<1>4. CASE o \in Listings(t)
  <2>1. o = Observation("listing", NoProc, t)
    BY <1>4 DEF Listings
  <2> QED
    BY <1>2, <2>1 DEF Observation, Observations, Kinds, Lives, Claims, Acts, Process, TrueThen, Ends, Absent, IsReport
<1> QED
  BY <1>1, <1>3, <1>4, ReportsAreTrue, ScansAreTrue

\* How an observation says it: reports are numbered in the order of what they report, or not
\* at all; one without a claim tells of work; a start claims that the session is live; a scan
\* tells who was running.
SaysThen(o) ==
  /\ IsReport(o) => o.seq \in {Number(o.at, 0), Number(o.at, 1)}
  /\ o.kind # "verification" => o.claim # "unknown"
  /\ IsReport(o) /\ o.claim = "none" => o.life = "none" /\ o.act = "busy"
  /\ Starts(o) => o.claim = "live"
  /\ o.kind = "sighting" => o.present = (o.proc \in past[o.at].alive)
  /\ o.kind = "reading" => o.act = "idle"

\* What reaches the session says it so.
LEMMA InboxSays ==
  ASSUME NEW o \in Inbox
  PROVE  SaysThen(o)
<1>1. PICK t \in 1..Now :
        o \in Reports(t) \cup Checks(t) \cup Listings(t) \cup {x \in Scans(t) : x.proc = session.process}
  BY DEF Inbox
<1>2. CASE o \in Reports(t)
  <2>1. \E p, l, c, a, n :
          /\ o = Report(p, t, l, c, a, n)
          /\ n \in {Number(t, 0), Number(t, 1)} /\ c # "unknown"
          /\ c = "none" => l = "none" /\ a = "busy"
          /\ l = "start" => c = "live"
    BY <1>2 DEF Reports
  <2>2. PICK p, l, c, a, n :
          /\ o = Report(p, t, l, c, a, n)
          /\ n \in {Number(t, 0), Number(t, 1)} /\ c # "unknown"
          /\ c = "none" => l = "none" /\ a = "busy"
          /\ l = "start" => c = "live"
    BY <2>1
  <2>3. /\ o.kind = "report" /\ o.at = t /\ o.life = l /\ o.claim = c /\ o.act = a /\ o.seq = n
    BY <2>2 DEF Report, Observation
  <2> QED
    BY <2>2, <2>3 DEF SaysThen, IsReport, Starts
<1>3. CASE o \in Checks(t) \cup Listings(t)
  <2>1. o.kind = "verification" \/ (o.kind = "listing" /\ o.claim = "none")
    BY <1>3 DEF Checks, Listings, Verification, Observation
  <2> QED
    BY <2>1 DEF SaysThen, IsReport, Starts
<1>4. CASE o \in Scans(t)
  <2>1. \/ \E p : o = Sighting(p, t, p \in past[t].alive)
        \/ \E p : o = Observation("placement", p, t)
        \/ \E p : o = Reading(p, t, "idle")
    BY <1>4 DEF Scans
  <2>2. ASSUME NEW p, o = Sighting(p, t, p \in past[t].alive) PROVE SaysThen(o)
    <3> DEFINE alive == p \in past[t].alive
    <3>1. o = Sighting(p, t, alive)
      BY <2>2
    <3> HIDE DEF alive
    <3>2. /\ o.kind = "sighting" /\ o.proc = p /\ o.at = t /\ o.present = alive
          /\ o.claim = "none"
      BY <3>1 DEF Sighting, Observation
    <3> QED
      BY <3>2 DEF SaysThen, IsReport, Starts, alive
  <2>3. ASSUME NEW p, o = Observation("placement", p, t) PROVE SaysThen(o)
    BY <2>3 DEF Observation, SaysThen, IsReport, Starts
  <2>4. ASSUME NEW p, o = Reading(p, t, "idle") PROVE SaysThen(o)
    BY <2>4 DEF Reading, Observation, SaysThen, IsReport, Starts
  <2> QED
    BY <2>1, <2>2, <2>3, <2>4
<1> QED
  BY <1>1, <1>2, <1>3, <1>4

\* A process reports another session while this one is not open in it.
LEMMA TakeoversAreTrue ==
  ASSUME WorldIsSound, session \in Sessions, NEW o \in Takeovers
  PROVE  /\ o \in Observations /\ o.kind = "report" /\ o.at \in 1..Now
         /\ past[o.at].open # session.process
<1>1. PICK t \in 1..Now :
        o = Report(session.process, t, "none", "live", "busy", 0) /\ past[t].open # session.process
  BY DEF Takeovers
<1>2. session.process \in Process
  BY DEF Sessions
<1>3. t \in Nat /\ "none" \in Lives /\ "live" \in Claims /\ "busy" \in Acts
  BY MomentFacts DEF Lives, Claims, Acts
<1>4. o \in Observations /\ o.at = t /\ o.kind = "report"
  BY <1>1, <1>2, <1>3, ReportType
<1> QED
  BY <1>1, <1>4

-----------------------------------------------------------------------------
(* Every step keeps the invariants.                                        *)

\* At first nothing is known of the session, and nothing wrong.
LEMMA InitSound == ASSUME Init PROVE TruthInv
<1>1. PICK p \in Procs : past = << [open |-> p, alive |-> {p}, mark |-> "start", by |-> p] >>
  BY DEF Init
<1> DEFINE m == [open |-> p, alive |-> {p}, mark |-> "start", by |-> p]
<1>2. m \in Moment
  BY DEF Moment
<1>3. past \in Seq(Moment) /\ Now = 1 /\ past[1] = m
  BY <1>1, <1>2 DEF Now
<1>4. WorldIsSound
  BY <1>3 DEF WorldIsSound
<1>5. session = NewSession /\ exited = {} /\ lastLive = 0
  BY DEF Init
<1>6. session \in Sessions
  <2>1. /\ NoIncarnation \in Incarnations /\ NoNative \in Natives /\ NoScreen \in Screens
        /\ NoSight \in Sights
    BY DEF NoIncarnation, NoNative, NoScreen, NoSight, Incarnations, Natives, Screens, Sights,
           States, Process, Lives, Claims, Acts
  <2> QED
    BY <1>5, <2>1 DEF NewSession, Sessions, Process, Acts
<1>7. /\ session.inc = NoIncarnation /\ session.process = NoProc /\ session.presence = "unknown"
      /\ session.act = "unknown" /\ session.replaced = FALSE /\ session.native = NoNative
  BY <1>5 DEF NewSession
<1>8. Sound(session)
  BY <1>7 DEF Sound, NoIncarnation, PresenceIn, NativeEnded, NoNative
<1>9. session.inc.evAt = 0 /\ session.inc.trAt = 0 /\ session.inc.proc = NoProc
  BY <1>7 DEF NoIncarnation
<1>10. SessionIsSound
  BY <1>3, <1>5, <1>6, <1>8, <1>9 DEF SessionIsSound
<1> QED
  BY <1>4, <1>5, <1>7, <1>9, <1>10
     DEF TruthInv, Inv, ActivityInProcess, ActivityIsOwn, LifeIsEvidence, GoneIsTrue

\* A moment is added to the truth, which stays what it was.
LEMMA HappensFacts ==
  ASSUME WorldIsSound, NEW m \in Moment, Happens(m),
         m.mark # "none" => m.by \in Procs,
         m.mark = "start" => m.open = m.by,
         m.mark = "end" => m.open = NoProc,
         m.open \in m.alive \cup {NoProc}
  PROVE  /\ WorldIsSound' /\ Now' = Now + 1 /\ Now \in Nat
         /\ \A t \in 1..Now : past'[t] = past[t]
         /\ UNCHANGED <<session, exited, lastLive>>
<1>1. past \in Seq(Moment) /\ Now \in Nat /\ Now >= 1 /\ Now = Len(past)
  BY DEF WorldIsSound, Now
<1>2. past' = Append(past, m)
  BY DEF Happens
<1>3. past' \in Seq(Moment) /\ Len(past') = Len(past) + 1 /\ past'[Len(past) + 1] = m
  BY <1>1, <1>2
<1>4. \A t \in 1..Now : past'[t] = past[t]
  BY <1>1, <1>2
<1>5. Now' = Now + 1
  BY <1>1, <1>3 DEF Now
<1>6. WorldIsSound'
  <2>1. ASSUME NEW t \in 1..Now'
        PROVE  /\ past'[t].mark # "none" => past'[t].by \in Procs
               /\ past'[t].mark = "start" => past'[t].open = past'[t].by
               /\ past'[t].mark = "end" => past'[t].open = NoProc
               /\ past'[t].open \in past'[t].alive \cup {NoProc}
    <3>1. t \in 1..Now \/ t = Now + 1
      BY <1>1, <1>5
    <3>2. CASE t \in 1..Now
      BY <1>4, <3>2 DEF WorldIsSound
    <3>3. CASE t = Now + 1
      BY <1>1, <1>3, <3>3
    <3> QED
      BY <3>1, <3>2, <3>3
  <2> QED
    BY <1>1, <1>3, <1>5, <2>1 DEF WorldIsSound
<1> QED
  BY <1>1, <1>4, <1>5, <1>6 DEF Happens

\* The four ways in which the world moves on.
LEMMA WorldStep ==
  ASSUME WorldIsSound,
         \/ Quiet
         \/ \E p \in Procs : StartSession(p) \/ Die(p)
         \/ \E exits \in BOOLEAN : EndSession(exits)
  PROVE  /\ WorldIsSound' /\ Now' = Now + 1 /\ Now \in Nat
         /\ \A t \in 1..Now : past'[t] = past[t]
         /\ UNCHANGED <<session, exited, lastLive>>
<1>1. /\ Today \in Moment /\ Today.open \in Today.alive \cup {NoProc} /\ Today.open \in Process
      /\ Today.alive \subseteq Procs
  <2>1. Now \in 1..Now
    BY DEF WorldIsSound, Now
  <2> QED
    BY <2>1, MomentFacts DEF WorldIsSound, Today
<1>2. CASE Quiet
  <2> DEFINE m == [Today EXCEPT !.mark = "none", !.by = NoProc]
  <2>1. m \in Moment /\ m.mark = "none" /\ m.open = Today.open /\ m.alive = Today.alive
    BY <1>1 DEF Moment
  <2>2. Happens(m)
    BY <1>2 DEF Quiet
  <2> HIDE DEF m
  <2> QED
    BY <1>1, <2>1, <2>2, HappensFacts
<1>3. CASE \E p \in Procs : StartSession(p)
  <2>1. PICK p \in Procs : StartSession(p)
    BY <1>3
  <2> DEFINE m == [open |-> p, alive |-> Today.alive \cup {p}, mark |-> "start", by |-> p]
  <2>2. m \in Moment /\ m.mark = "start" /\ m.open = p /\ m.by = p /\ p \in m.alive
    BY <1>1 DEF Moment
  <2>3. Happens(m)
    BY <2>1 DEF StartSession
  <2> HIDE DEF m
  <2> QED
    BY <2>2, <2>3, HappensFacts
<1>4. CASE \E p \in Procs : Die(p)
  <2>1. PICK p \in Procs : Die(p)
    BY <1>4
  <2> DEFINE m == [open |-> IF Today.open = p THEN NoProc ELSE Today.open,
                   alive |-> Today.alive \ {p}, mark |-> "none", by |-> NoProc]
  <2>2. /\ m \in Moment /\ m.mark = "none"
        /\ m.open \in m.alive \cup {NoProc}
    BY <1>1 DEF Moment, Process
  <2>3. Happens(m)
    BY <2>1 DEF Die
  <2> HIDE DEF m
  <2> QED
    BY <2>2, <2>3, HappensFacts
<1>5. CASE \E exits \in BOOLEAN : EndSession(exits)
  <2>1. PICK exits \in BOOLEAN : EndSession(exits)
    BY <1>5
  <2> DEFINE m == [open |-> NoProc, mark |-> "end", by |-> Today.open,
                   alive |-> IF exits THEN Today.alive \ {Today.open} ELSE Today.alive]
  <2>2. Today.open \in Procs
    BY <1>1, <2>1 DEF EndSession, Process
  <2>3. m \in Moment /\ m.mark = "end" /\ m.by \in Procs /\ m.open = NoProc
    BY <1>1, <2>2 DEF Moment
  <2>4. Happens(m)
    BY <2>1 DEF EndSession
  <2> HIDE DEF m
  <2> QED
    BY <2>3, <2>4, HappensFacts
<1> QED
  BY <1>2, <1>3, <1>4, <1>5

\* The actions of the world and of the registry.
Move == \/ Quiet
        \/ \E p \in Procs : StartSession(p) \/ Die(p)
        \/ \E exits \in BOOLEAN : EndSession(exits)

Receive == \E o \in Inbox : session' = Reduce(session, o).session /\ Note(o, session')
                            /\ UNCHANGED past

\* Every step is the world's, the reducer's, or a takeover.
LEMMA NextCases == ASSUME Next PROVE Move \/ Receive \/ Taken
<1>1. ASSUME NEW k, Observe(k) PROVE Receive
  BY <1>1 DEF Observe, Receive
<1> QED
  BY <1>1 DEF Next, Move

\* The world moves on, and what the registry holds stays true of it.
LEMMA MoveStep ==
  ASSUME TruthInv \/ Inv, Move
  PROVE  Inv' /\ UNCHANGED session /\ (TruthInv => TruthInv')
<1>1. WorldIsSound /\ SessionIsSound
  BY DEF TruthInv, Inv
<1>2. /\ WorldIsSound' /\ Now' = Now + 1 /\ Now \in Nat
      /\ \A t \in 1..Now : past'[t] = past[t]
      /\ UNCHANGED <<session, exited, lastLive>>
  BY <1>1, WorldStep DEF Move
<1>3. SessionIsSound'
  <2>1. session.inc.evAt \in Nat /\ session.inc.trAt \in Nat
    BY <1>1 DEF SessionIsSound, Sessions, Incarnations
  <2> QED
    BY <1>1, <1>2, <2>1 DEF SessionIsSound
<1>4. ASSUME TruthInv PROVE TruthInv'
  <2>1. ActivityInProcess' /\ LifeIsEvidence'
    BY <1>2, <1>4 DEF TruthInv, ActivityInProcess, ActivityIsOwn, LifeIsEvidence
  <2>2. GoneIsTrue'
    <3>1. SUFFICES ASSUME session.presence = "gone"
                   PROVE  \E t \in 1..Now' : t >= lastLive /\ Closed(t)'
      BY <1>2 DEF GoneIsTrue
    <3>2. PICK t \in 1..Now : t >= lastLive /\ Closed(t)
      BY <1>4, <3>1 DEF TruthInv, GoneIsTrue
    <3>3. Closed(t)'
      BY <1>2, <3>2 DEF Closed
    <3> QED
      BY <1>2, <3>2, <3>3
  <2> QED
    BY <1>2, <1>3, <2>1, <2>2 DEF TruthInv, Inv
<1> QED
  BY <1>2, <1>3, <1>4 DEF Inv

\* What an observation makes of the bookkeeping.
LEMMA NoteType ==
  ASSUME Inv, NEW o \in Inbox, Note(o, session')
  PROVE  /\ exited' \subseteq Procs /\ lastLive' \in Nat
         /\ lastLive' = lastLive
              \/ /\ SignOfLife(o) /\ session' # session
                 /\ lastLive' = (IF session'.inc.proc = session.inc.proc
                                 THEN Later(lastLive, o.at) ELSE o.at)
<1>1. TrueThen(o)
  BY InboxIsTrue DEF Inv
<1>2. o.at \in Nat /\ (Absent(o) => o.proc \in Procs)
  BY <1>1 DEF TrueThen, Observations, Process, Absent
<1>3. exited \subseteq Procs /\ lastLive \in Nat
  BY DEF Inv, SessionIsSound
<1> QED
  BY <1>2, <1>3 DEF Note, Later

\* The times of the next incarnation are no later than now.
LEMMA FollowsIsSound ==
  ASSUME Inv, NEW o \in Inbox, Follows(session, o, session'), UNCHANGED past
  PROVE  /\ session' \in Sessions /\ Sound(session')
         /\ session'.inc.evAt <= Now /\ session'.inc.trAt <= Now
<1>1. TrueThen(o)
  BY InboxIsTrue DEF Inv
<1>2. /\ session \in Sessions /\ Sound(session) /\ o \in Observations /\ o.at \in 1..Now
      /\ session.inc.evAt <= Now /\ session.inc.trAt <= Now
  BY <1>1 DEF TrueThen, Inv, SessionIsSound
<1>3. /\ session' \in Sessions /\ Sound(session') /\ Accepted(Decide(session, o, FALSE))
      /\ session'.inc = NextIncarnation(session, o, Decide(session, o, FALSE))
  BY DEF Follows
<1>4. /\ session'.inc.evAt <= Later(session.inc.evAt, o.at)
      /\ session'.inc.trAt <= Later(session.inc.trAt, o.at)
  BY <1>2, <1>3, NextIncarnationFacts
<1>5. Now \in Nat
  BY DEF Inv, WorldIsSound, Now
<1>6. /\ session.inc.evAt \in Nat /\ session.inc.trAt \in Nat
      /\ session'.inc.evAt \in Nat /\ session'.inc.trAt \in Nat
  BY <1>2, <1>3 DEF Sessions, Incarnations
<1>7. o.at \in Nat /\ o.at <= Now
  BY <1>2, <1>5
<1>8. session'.inc.evAt <= Now /\ session'.inc.trAt <= Now
  BY <1>2, <1>4, <1>5, <1>6, <1>7 DEF Later
<1> QED
  BY <1>3, <1>8

\* A received observation keeps the invariant: the session stays, or follows it.
LEMMA ReceiveStep ==
  ASSUME Inv, NEW o \in Inbox, session' = Reduce(session, o).session, Note(o, session'),
         UNCHANGED past
  PROVE  /\ Inv'
         /\ session' = session \/ Follows(session, o, session')
<1>1. TrueThen(o)
  BY InboxIsTrue DEF Inv
<1>2. session' = session \/ Follows(session, o, session')
  BY <1>1, ReduceFacts DEF TrueThen, Inv, SessionIsSound
<1>3. Now' = Now /\ WorldIsSound'
  BY DEF Inv, WorldIsSound, Now
<1>4. SessionIsSound'
  BY <1>2, <1>3, NoteType, FollowsIsSound DEF Inv, SessionIsSound
<1> QED
  BY <1>2, <1>3, <1>4 DEF Inv

\* A takeover keeps the invariant: the session stays, or is over because its process had
\* another session open at a moment no earlier than its evidence.
LEMMA TakenStep ==
  ASSUME Inv, Taken
  PROVE  /\ Inv' /\ UNCHANGED <<past, lastLive>>
         /\ session' = session
              \/ /\ session'.presence = "gone"
                 /\ session'.inc.proc = session.inc.proc /\ session'.inc.evAt = session.inc.evAt
                 /\ session'.native = session.native /\ session'.sight = session.sight
                 /\ session'.screen = session.screen
                 /\ \E t \in 1..Now : /\ t >= session.inc.evAt /\ past[t].open # session.inc.proc
                                    /\ session'.inc.trAt = Later(session.inc.trAt, t)
                 /\ session.inc.proc # NoProc
<1>1. PICK o \in Takeovers : session' = Retire(session, o, TRUE).session
  BY DEF Taken
<1>2. session.process # NoProc /\ UNCHANGED <<past, exited, lastLive>>
  BY DEF Taken
<1>3. /\ o \in Observations /\ o.kind = "report" /\ o.at \in 1..Now
      /\ past[o.at].open # session.process
  BY <1>1, TakeoversAreTrue DEF Inv, SessionIsSound
<1>4. session \in Sessions /\ Sound(session) /\ session.process = session.inc.proc
  BY DEF Inv, SessionIsSound, Sound
<1>5. \/ session' = session
      \/ /\ session' \in Sessions /\ Sound(session')
         /\ session'.presence = "gone" /\ o.at >= session.inc.evAt
         /\ session'.inc.proc = session.inc.proc /\ session'.inc.evAt = session.inc.evAt
         /\ session'.native = session.native /\ session'.sight = session.sight
         /\ session'.screen = session.screen
         /\ session'.inc.trAt = Later(session.inc.trAt, o.at)
  BY <1>1, <1>3, <1>4, RetireFacts
<1>6. Now' = Now /\ WorldIsSound' /\ Now \in Nat
  BY <1>2 DEF Inv, WorldIsSound, Now
<1>7. session'.inc.trAt = Later(session.inc.trAt, o.at) => session'.inc.trAt <= Now \/ session' \notin Sessions
  <2>1. session.inc.trAt <= Now /\ session.inc.trAt \in Nat /\ o.at <= Now /\ o.at \in Nat
    BY <1>3, <1>4, <1>6 DEF Inv, SessionIsSound, Sessions, Incarnations
  <2>2. session' \in Sessions => session'.inc.trAt \in Nat
    BY DEF Sessions, Incarnations
  <2> QED
    BY <1>6, <2>1, <2>2 DEF Later
<1>8. SessionIsSound'
  BY <1>2, <1>5, <1>6, <1>7 DEF Inv, SessionIsSound
<1> QED
  BY <1>2, <1>3, <1>4, <1>5, <1>6, <1>8 DEF Inv

\* Under a uniform setting an observation says of which process it is, unless there is none
\* to say.
LEMMA UniformIsAttributed ==
  ASSUME Uniform, WorldIsSound, ActivityInProcess, NEW o \in Inbox
  PROVE  Attributed(session, o)
<1>1. TrueThen(o)
  BY InboxIsTrue
<1> QED
  BY <1>1, ProcAssumption DEF Uniform, ActivityInProcess, Attributed, TrueThen

\* A received observation keeps the truth of what the session says.
LEMMA ReceiveTruth ==
  ASSUME TruthInv, Uniform, NEW o \in Inbox, session' = Reduce(session, o).session,
         Note(o, session'), UNCHANGED past
  PROVE  TruthInv' /\ session'.inc.evAt >= session.inc.evAt
<1> DEFINE a == Decide(session, o, FALSE)
<1>1. /\ TrueThen(o) /\ Attributed(session, o)
      /\ session \in Sessions /\ Sound(session) /\ o \in Observations
      /\ session.process = session.inc.proc
  BY InboxIsTrue, UniformIsAttributed DEF TruthInv, Inv, SessionIsSound, Sound, TrueThen
<1>2. Inv' /\ (session' = session \/ Follows(session, o, session'))
  BY ReceiveStep DEF TruthInv
<1>3. /\ session.inc.evAt \in Nat /\ lastLive \in Nat /\ lastLive' \in Nat
      /\ o.at \in Nat /\ o.proc \in Process /\ o.kind \in Kinds /\ session.inc.proc \in Process
      /\ lastLive <= session.inc.evAt /\ Now' = Now
  BY <1>1, NoteType DEF TruthInv, Inv, SessionIsSound, LifeIsEvidence, Sessions, Incarnations, Observations, Now
<1>4. CASE session' = session
  <2>1. lastLive' = lastLive
    BY <1>4, NoteType DEF TruthInv
  <2> QED
    BY <1>2, <1>3, <1>4, <2>1
       DEF TruthInv, ActivityInProcess, ActivityIsOwn, LifeIsEvidence, GoneIsTrue, Closed
<1>5. CASE Follows(session, o, session')
  <2> DEFINE n == session'.inc
  <2>1. /\ Accepted(a) /\ session' \in Sessions /\ Sound(session')
        /\ n = NextIncarnation(session, o, a)
        /\ session'.act \in {"busy", "idle"} =>
             \/ ~Resets(a) /\ session'.act = session.act /\ session'.decProc = session.decProc
             \/ session'.decProc = o.proc /\ o.kind \in {"report", "reading"}
    BY <1>5 DEF Follows
  <2>2. /\ n.state \in {"ended", "exited"} <=> Finishes(o, a)
        /\ n.proc = (IF o.proc # NoProc THEN o.proc ELSE session.inc.proc)
        /\ n.evAt >= session.inc.evAt
        /\ SignOfLife(o) => n.evAt >= o.at
    BY <1>1, <2>1, NextIncarnationFacts DEF SignOfLife, LifeSign
  <2>3. /\ n.evAt \in Nat /\ session'.process = n.proc /\ n.proc \in Process
        /\ session'.presence = "gone" => n.state \in {"ended", "exited"}
    BY <2>1 DEF Sound, Sessions, Incarnations, PresenceIn
  <2>4. LifeIsEvidence'
    BY <1>3, <2>2, <2>3, NoteType DEF TruthInv, LifeIsEvidence, Later
  <2>5. NoReportNames => n.proc = NoProc
    <3>1. NoReportNames => o.proc = NoProc /\ session.inc.proc = NoProc
      BY <1>1, <1>3 DEF TrueThen, TruthInv, ActivityInProcess, Observations, Kinds, IsReport
    <3> QED
      BY <2>2, <3>1
  <2>6. ASSUME session'.act \in {"busy", "idle"}
        PROVE  /\ session'.decProc = session'.process
               /\ EveryReportNames => session'.process # NoProc
    <3>1. CASE session'.decProc = o.proc /\ o.kind \in {"report", "reading"}
      <4>1. EveryReportNames => o.proc # NoProc
        BY <1>1, <3>1, ProcAssumption DEF TrueThen, IsReport, Observations
      <4>2. NoReportNames => o.proc = NoProc /\ n.proc = NoProc
        BY <1>1, <2>5, <3>1 DEF TrueThen, IsReport, TruthInv, ActivityInProcess
      <4> QED
        BY <2>2, <2>3, <3>1, <4>1, <4>2 DEF Uniform
    <3>2. CASE ~Resets(a) /\ session'.act = session.act /\ session'.decProc = session.decProc
      <4>1. session.decProc = session.inc.proc /\ (EveryReportNames => session.inc.proc # NoProc)
        BY <1>1, <2>6, <3>2 DEF TruthInv, ActivityInProcess, ActivityIsOwn
      <4>2. o.proc # NoProc /\ session.inc.proc # NoProc => o.proc = session.inc.proc
        BY <1>1, <2>1, <3>2, DecideFacts DEF Resets, Different, Observations
      <4> QED
        BY <2>2, <2>3, <2>5, <3>2, <4>1, <4>2 DEF Uniform, TruthInv, ActivityInProcess
    <3> QED
      BY <2>1, <2>6, <3>1, <3>2
  <2>7. ActivityInProcess'
    BY <2>5, <2>6 DEF ActivityInProcess, ActivityIsOwn
  <2>8. GoneIsTrue'
    <3> SUFFICES ASSUME session'.presence = "gone"
                 PROVE  o.at \in 1..Now' /\ o.at >= lastLive' /\ Closed(o.at)'
      BY DEF GoneIsTrue
    <3>1. Finishes(o, a) /\ o.at \in 1..Now'
      BY <1>1, <1>3, <2>2, <2>3 DEF TrueThen
    <3>2. /\ o.at >= session.inc.evAt
          /\ Ends(o) \/ Absent(o) \/ (o.kind = "verification" /\ o.claim = "gone")
          /\ o.kind = "verification" => session.inc.proc = NoProc /\ o.proc = NoProc
      <4>1. o.at \in Nat /\ session.inc.evAt \in Nat /\ o.kind \in Kinds
            /\ (o.kind = "verification" => o.proc = NoProc)
        BY <1>1, <2>1 DEF Observations, Sessions, Incarnations
      <4>2. CASE a = "verify"
        BY <1>1, <2>1, <3>1, <4>1, <4>2, DecideFacts DEF Finishes
      <4>3. CASE a # "verify"
        <5>1. Ends(o) \/ Absent(o)
          BY <1>1, <2>1, <3>1, <4>3, DecideFacts DEF Finishes
        <5>2. o.at >= session.inc.evAt /\ o.kind # "verification"
          BY <1>1, <2>1, <5>1, FinishIsRecent
        <5> QED
          BY <5>1, <5>2
      <4> QED
        BY <4>2, <4>3
    <3>3. ~SignOfLife(o)
      BY <3>2 DEF SignOfLife, Ends, Absent, IsReport
    <3>4. lastLive' = lastLive
      BY <3>3, NoteType DEF TruthInv
    <3>5. Closed(o.at)'
      <4>1. CASE Ends(o) \/ (o.kind = "verification" /\ o.claim = "gone")
        BY <1>1, <2>2, <2>3, <4>1 DEF TrueThen, Closed
      <4>2. CASE Absent(o)
        <5>1. o.proc # NoProc /\ o.proc \notin past[o.at].alive /\ past[o.at].open \in past[o.at].alive \cup {NoProc}
          BY <1>1, <4>2 DEF TrueThen, Absent, Observations, TruthInv, Inv, WorldIsSound
        <5> QED
          BY <2>2, <5>1 DEF Closed
      <4> QED
        BY <3>2, <4>1, <4>2
    <3> QED
      BY <1>3, <3>1, <3>2, <3>4, <3>5
  <2> QED
    BY <1>2, <2>2, <2>4, <2>7, <2>8 DEF TruthInv
<1> QED
  BY <1>2, <1>4, <1>5

\* A takeover keeps the truth of what the session says.
LEMMA TakenTruth ==
  ASSUME TruthInv, Taken
  PROVE  TruthInv' /\ session'.inc.evAt >= session.inc.evAt
<1>1. /\ Inv' /\ UNCHANGED <<past, lastLive>>
      /\ session' = session
           \/ /\ session'.presence = "gone"
              /\ session'.inc.proc = session.inc.proc /\ session'.inc.evAt = session.inc.evAt
              /\ \E t \in 1..Now : t >= session.inc.evAt /\ past[t].open # session.inc.proc
              /\ session.inc.proc # NoProc
  BY TakenStep DEF TruthInv
<1>2. /\ session.inc.evAt \in Nat /\ lastLive \in Nat /\ lastLive <= session.inc.evAt /\ Now \in Nat
      /\ Now' = Now
  BY <1>1 DEF TruthInv, Inv, WorldIsSound, SessionIsSound, LifeIsEvidence, Sessions, Incarnations, Now
<1>3. CASE session' = session
  BY <1>1, <1>2, <1>3
     DEF TruthInv, ActivityInProcess, ActivityIsOwn, LifeIsEvidence, GoneIsTrue, Closed
<1>4. CASE session' # session
  <2>1. session'.act = "none"
    BY <1>1, <1>4 DEF Inv, SessionIsSound, Sound
  <2>2. ActivityInProcess' /\ LifeIsEvidence'
    BY <1>1, <1>2, <1>4, <2>1 DEF TruthInv, ActivityInProcess, ActivityIsOwn, LifeIsEvidence
  <2>3. GoneIsTrue'
    BY <1>1, <1>2, <1>4 DEF GoneIsTrue, Closed
  <2> QED
    BY <1>1, <1>2, <1>4, <2>2, <2>3 DEF TruthInv
<1> QED
  BY <1>3, <1>4

-----------------------------------------------------------------------------
(* The theorems.                                                           *)

\* Every step of the world and of the registry keeps the invariant.
LEMMA StepKeepsInv == Inv /\ [Next]_vars => Inv'
<1> SUFFICES ASSUME Inv, [Next]_vars PROVE Inv'
  OBVIOUS
<1>1. CASE Move
  BY <1>1, MoveStep
<1>2. CASE Receive
  BY <1>2, ReceiveStep DEF Receive
<1>3. CASE Taken
  BY <1>3, TakenStep
<1>4. CASE UNCHANGED vars
  BY <1>4 DEF vars, Inv, WorldIsSound, SessionIsSound, Now
<1> QED
  BY <1>1, <1>2, <1>3, <1>4, NextCases

\* Whatever the setting, whichever observations arrive in whatever order: the session is one
\* of Sessions, sound, and has no evidence from after this moment.
THEOREM Invariance == Spec => []Inv
<1>1. Init => Inv
  BY InitSound DEF TruthInv
<1> QED
  BY <1>1, StepKeepsInv, PTL DEF Spec

\* The session's fields stay what the reducer's types allow (Session, Incarnation and the
\* Liveness sum type of pkg/registry), and it is gone exactly when it has no activity.
THEOREM TypeCorrect == Spec => []TypeOK
<1>1. Inv => TypeOK
  <2> SUFFICES ASSUME Inv PROVE TypeOK
    OBVIOUS
  <2>1. \A t \in 1..Now : past[t] \in Moment
    BY MomentFacts DEF Inv
  <2>2. /\ session.inc.state \in States /\ session.act \in Acts
        /\ session.inc.proc \in Process /\ session.inc.prev \in Process
        /\ session.process \in Process /\ session.decProc \in Process
        /\ session.presence = "gone" <=> session.act = "none"
        /\ session.presence = PresenceIn(session.inc.state)
        /\ exited \subseteq Procs
    BY DEF Inv, SessionIsSound, Sound, Sessions, Incarnations
  <2>3. session.presence \in {"unknown", "live", "gone"}
    BY <2>2 DEF PresenceIn
  <2> QED
    BY <2>1, <2>2, <2>3 DEF TypeOK, States, Acts, Process
<1> QED
  BY <1>1, Invariance, PTL

\* Whatever arrives in whatever order, validateSnapshot and storedIncarnationCorruption
\* accept the session that is stored.
THEOREM StoredStatesAreValid == Spec => []StoredStateValid
<1>1. Inv => StoredStateValid
  <2> SUFFICES ASSUME Inv, Exists(session) PROVE StoredStateValid
    BY DEF StoredStateValid
  <2>1. Sound(session) /\ session.inc.state \in {"starting", "live", "ended", "exited"}
    BY DEF Inv, SessionIsSound, Sessions, Incarnations, States, Exists
  <2>2. NativeEnded(session) => session.presence = "gone"
    BY <2>1 DEF Sound, PresenceIn, Terminal
  <2> QED
    BY <2>1, <2>2 DEF StoredStateValid, Sound, PresenceIn, Terminal
<1> QED
  BY <1>1, Invariance, PTL

\* However far the stored times of numbered reports run ahead (reduceSession keeps sequence
\* clocks out of the incarnation), the evidence of an incarnation is of the past.
THEOREM NoEvidenceFromTheFuture == Spec => []NoFutureEvidence
<1>1. Inv => NoFutureEvidence
  BY DEF Inv, SessionIsSound, NoFutureEvidence
<1> QED
  BY <1>1, Invariance, PTL

\* An exit scan of this moment ends the session of the process that is not running
\* (TestProcessExitEndsSessionAfterFutureDatedReport), whatever it holds.
THEOREM ExitsAreHeard == Spec => []ExitEnds
<1>1. Inv => ExitEnds
  <2> SUFFICES ASSUME Inv, session.process \in Procs
               PROVE  Reduce(session, Sighting(session.process, Now, FALSE)).session.presence = "gone"
    BY DEF ExitEnds
  <2> DEFINE o == Sighting(session.process, Now, FALSE)
             n == NextIncarnation(session, o, "continue")
             c == Commit(session, o, "continue", o.at)
  <2>1. /\ session.inc.proc = session.process /\ session.inc.evAt <= Now
        /\ session.inc.evAt \in Nat /\ Now \in Nat
        /\ session \in Sessions /\ Sound(session)
    BY DEF Inv, SessionIsSound, Sound, WorldIsSound, Now, Sessions, Incarnations
  <2>2. /\ o.kind = "sighting" /\ o.at = Now /\ o.proc = session.process /\ ~o.present
        /\ o \in Observations
    <3>1. \A p \in Procs, t \in Nat : LET x == Sighting(p, t, FALSE)
                                     IN  /\ x \in Observations /\ x.kind = "sighting" /\ x.at = t
                                         /\ x.proc = p /\ x.present = FALSE
      BY SightingType
    <3> QED
      BY <2>1, <3>1
  <2>3. Absent(o) /\ ~IsReport(o) /\ ~Ends(o) /\ ~Starts(o)
    BY <2>2 DEF Absent, IsReport, Ends, Starts
  <2> HIDE DEF o
  <2>4. Decide(session, o, FALSE) = "continue"
    BY <2>1, <2>2, <2>3
       DEF Decide, Different, TerminalStale, BindsTerminalProcess, ResumesTerminal, TerminalRejected
  <2>5. Reduce(session, o) = ApplyObservation(session, o, "continue", o.at)
    BY <2>2, <2>3, <2>4 DEF Reduce, Accepted, Resets, Duplicate, OutOfSequence, Sequenced, SequencedTime
  <2>6. Accepted(Decide(session, o, FALSE)) /\ Finishes(o, "continue") /\ o.at \in Nat
    BY <2>1, <2>2, <2>3, <2>4 DEF Accepted, Finishes
  <2>7. n.state \in {"ended", "exited"}
    BY <2>1, <2>2, <2>4, <2>6, NextIncarnationFacts
  <2>8. c \in Sessions /\ c.presence = PresenceIn(n.state)
    <3> HIDE DEF c, n
    <3> DEFINE a == Decide(session, o, FALSE)
    <3>1. Commit(session, o, a, o.at) \in Sessions
          /\ Commit(session, o, a, o.at).presence = PresenceIn(NextIncarnation(session, o, a).state)
      BY <2>1, <2>2, <2>6, CommitFacts
    <3> QED
      BY <2>4, <3>1 DEF c, n
  <2> HIDE DEF c, n
  <2>9. Reduce(session, o).session.presence = c.presence
    <3> DEFINE x == [c EXCEPT !.sight = SightSlot(o, o.at)]
               y == [x EXCEPT !.process = IF o.proc # NoProc THEN o.proc ELSE @]
    <3>1. Store(c, o, o.at) = x /\ ApplyActivity(y, o, o.at) = y
      BY <2>2 DEF Store, ApplyActivity
    <3>2. y.presence = c.presence
      BY <2>8 DEF Sessions
    <3> HIDE DEF x
    <3>3. Reduce(session, o).session = y
      BY <2>5, <2>6, <3>1 DEF ApplyObservation, Saved, c
    <3> QED
      BY <3>2, <3>3
  <2> QED
    BY <2>7, <2>8, <2>9 DEF o, PresenceIn
<1> QED
  BY <1>1, Invariance, PTL

\* Within an incarnation of a session that goes on, acceptsActivityObservation and the
\* verification's own rule let no decision on display be replaced by one about an earlier
\* time (core.activityDecisionTimeInvariant).
THEOREM DecisionsGoForward == Spec => DecisionNeverRegresses
<1>1. Inv /\ [Next]_vars =>
        [session'.inc.proc = session.inc.proc /\ ~Terminal(session) /\ session'.presence # "gone"
           => session'.decAt >= session.decAt]_session
  <2> SUFFICES ASSUME Inv, Next,
                      session'.inc.proc = session.inc.proc, ~Terminal(session),
                      session'.presence # "gone", session' # session
               PROVE  session'.decAt >= session.decAt
    BY DEF vars
  <2>1. CASE Move
    BY <2>1, MoveStep
  <2>2. CASE Receive
    <3>1. PICK o \in Inbox : /\ session' = Reduce(session, o).session /\ Note(o, session')
                             /\ UNCHANGED past
      BY <2>2 DEF Receive
    <3>2. Follows(session, o, session')
      BY <3>1, ReceiveStep
    <3> DEFINE a == Decide(session, o, FALSE)
    <3>3. session \in Sessions /\ Sound(session) /\ o \in Observations
      BY InboxIsTrue DEF Inv, SessionIsSound, TrueThen
    <3>4. /\ Accepted(a) /\ Sound(session')
          /\ session'.inc = NextIncarnation(session, o, a)
          /\ ~Resets(a) /\ ~Finishes(o, a) => session'.decAt >= session.decAt
      BY <3>2 DEF Follows
    <3>5. ~Finishes(o, a)
      BY <3>3, <3>4, NextIncarnationFacts DEF Sound, PresenceIn
    <3>6. session'.inc.proc = IF o.proc # NoProc THEN o.proc ELSE session.inc.proc
      BY <3>3, <3>4, NextIncarnationFacts
    <3>7. ~Resets(a)
      BY <3>3, <3>4, <3>6, DecideFacts DEF Resets
    <3> QED
      BY <3>4, <3>5, <3>7
  <2>3. CASE Taken
    BY <2>3, TakenStep
  <2> QED
    BY <2>1, <2>2, <2>3, NextCases
<1> QED
  BY <1>1, Invariance, PTL DEF Spec, DecisionNeverRegresses

\* Where all the reports of a session name their process, or none does, every step keeps
\* what is displayed true to the process, and its evidence does not become older.
LEMMA StepKeepsTruth ==
  ASSUME Uniform, TruthInv, [Next]_vars
  PROVE  TruthInv' /\ session'.inc.evAt >= session.inc.evAt
<1>1. session.inc.evAt \in Nat
  BY DEF TruthInv, Inv, SessionIsSound, Sessions, Incarnations
<1>2. CASE Move
  BY <1>1, <1>2, MoveStep
<1>3. CASE Receive
  BY <1>3, ReceiveTruth DEF Receive
<1>4. CASE Taken
  BY <1>4, TakenTruth
<1>5. CASE UNCHANGED vars
  BY <1>1, <1>5
     DEF vars, TruthInv, Inv, WorldIsSound, SessionIsSound, ActivityInProcess, ActivityIsOwn,
         LifeIsEvidence, GoneIsTrue, Closed, Now
<1> QED
  BY <1>2, <1>3, <1>4, <1>5, NextCases

\* The invariant of the theorems that follow: activity is the bound process's, every
\* accepted sign of life counts as evidence, and a session is gone only if it was let go.
THEOREM TruthInvariance ==
  ASSUME Uniform
  PROVE  Spec => []TruthInv
<1>1. Init => TruthInv
  BY InitSound
<1>2. TruthInv /\ [Next]_vars => TruthInv'
  BY StepKeepsTruth
<1> QED
  BY <1>1, <1>2, PTL DEF Spec

\* An activity on display was reported or read in the process the session is bound to:
\* Cleared drops it when another process takes over
\* (TestProcessReplacementClearsScreenActivity).
THEOREM ActivityIsOfTheProcess ==
  ASSUME Uniform
  PROVE  Spec => []ActivityIsOwn
<1>1. TruthInv => ActivityIsOwn
  BY DEF TruthInv, ActivityInProcess
<1> QED
  BY <1>1, TruthInvariance, PTL

\* Ends, exit scans, takeovers and verifications that are delayed do not overwrite newer
\* evidence: a session is gone only if its process had let go of it at some moment no
\* earlier than the newest accepted sign of life
\* (TestDelayedGoneEvidenceDoesNotOverwriteNewerLivePresence).
THEOREM GoneSessionsWereLeft ==
  ASSUME Uniform
  PROVE  Spec => []GoneIsTrue
<1>1. TruthInv => GoneIsTrue
  BY DEF TruthInv
<1> QED
  BY <1>1, TruthInvariance, PTL

\* While a session stays bound to a process, no accepted observation moves the time of its
\* evidence back (ApplyEvidence keeps the later time, a replacement needs newer evidence).
THEOREM EvidenceGoesForward ==
  ASSUME Uniform
  PROVE  Spec => EvidenceNeverRegresses
<1>1. TruthInv /\ [Next]_vars =>
        [session'.inc.proc = session.inc.proc => session'.inc.evAt >= session.inc.evAt]_session
  BY StepKeepsTruth
<1> QED
  BY <1>1, TruthInvariance, PTL DEF Spec, EvidenceNeverRegresses

-----------------------------------------------------------------------------
(* What the slots hold.                                                    *)

\* The slots of a session that has taken in an observation hold what the observation, or one
\* before it in the same process, said.
LEMMA ReceiveSlots ==
  ASSUME Uniform, TruthInv, SlotsAreOwn, NEW o \in Inbox, session' = Reduce(session, o).session,
         Note(o, session'), UNCHANGED past
  PROVE  SlotsAreOwn'
<1> DEFINE a == Decide(session, o, FALSE)
<1>1. TrueThen(o) /\ SaysThen(o)
  BY InboxIsTrue, InboxSays DEF TruthInv, Inv
<1>2. /\ session \in Sessions /\ Sound(session) /\ o \in Observations /\ o.proc \in Process
      /\ session.process = session.inc.proc /\ o.kind \in Kinds /\ o.at \in Nat
      /\ session.inc.proc \in Process
  BY <1>1 DEF TruthInv, Inv, SessionIsSound, Sound, TrueThen, Observations, Sessions, Incarnations
<1>3. Now' = Now /\ past' = past
  BY DEF Now
<1>4. CASE session' = session
  BY <1>3, <1>4 DEF SlotsAreOwn
<1>5. CASE session' # session
  <2>1. Follows(session, o, session') /\ Written(session, o, session') /\ TruthInv'
    BY <1>2, <1>5, ReceiveStep, ReceiveTruth, ReduceSlots DEF TruthInv
  <2>2. Accepted(a) /\ session'.inc = NextIncarnation(session, o, a)
    BY <2>1 DEF Follows
  <2>3. session'.inc.proc = IF o.proc # NoProc THEN o.proc ELSE session.inc.proc
    BY <1>2, <2>2, NextIncarnationFacts
  <2>4. ~Resets(a) => o.proc = NoProc \/ session.inc.proc = NoProc \/ o.proc = session.inc.proc
    BY <1>2, <2>2, DecideFacts DEF Resets, Different
  <2>5. ~IsReport(o) => o.proc = NoProc \/ o.proc = session.inc.proc
    BY <1>1, <1>2 DEF TrueThen, IsReport, Kinds, Observations
  <2>6. /\ IF IsReport(o)
           THEN session'.native.proc = o.proc /\ session'.native.seq = o.seq
           ELSE session'.native = IF Resets(a) THEN NoNative ELSE session.native
        /\ session'.sight = IF o.kind = "sighting" THEN SightSlot(o, o.at)
                            ELSE IF Resets(a) THEN NoSight ELSE session.sight
        /\ session'.screen = IF o.kind = "reading" THEN ScreenSlot(o, o.at)
                             ELSE IF Resets(a) THEN NoScreen ELSE session.screen
    <3>1. (IF Resets(a) THEN [session EXCEPT !.native = NoNative] ELSE session).native
            = IF Resets(a) THEN NoNative ELSE session.native
      BY <1>2 DEF Sessions
    <3> QED
      BY <2>1, <3>1 DEF Written, Baseline
  <2> HIDE DEF a
  <2>7. session'.native.at # 0 =>
          /\ session'.native.proc = session'.inc.proc
          /\ EveryReportNames => session'.inc.proc # NoProc
    <3>1. CASE IsReport(o)
      <4>1. CASE EveryReportNames
        BY <1>1, <2>3, <2>6, <3>1, <4>1, ProcAssumption DEF TrueThen
      <4>2. CASE NoReportNames
        BY <1>1, <2>1, <2>6, <3>1, <4>2, ProcAssumption
           DEF TrueThen, TruthInv, ActivityInProcess, EveryReportNames, NoReportNames
      <4> QED
        BY <4>1, <4>2 DEF Uniform
    <3>2. CASE ~IsReport(o)
      BY <2>3, <2>5, <2>6, <3>2 DEF SlotsAreOwn, NoNative
    <3> QED
      BY <3>1, <3>2
  <2>8. ~Numbered => session'.native.seq = 0
    BY <1>1, <2>6 DEF SaysThen, Number, SlotsAreOwn, NoNative
  <2>9. session'.sight.at # 0 =>
          /\ session'.sight.at \in 1..Now
          /\ session'.sight.proc = session'.inc.proc /\ session'.inc.proc # NoProc
          /\ session'.sight.present = (session'.inc.proc \in past[session'.sight.at].alive)
    <3>1. CASE o.kind = "sighting"
      <4>1. o.proc # NoProc /\ o.at \in 1..Now /\ o.present = (o.proc \in past[o.at].alive)
        BY <1>1, <1>2, <3>1 DEF Observations, TrueThen, SaysThen
      <4>2. session'.sight.at = o.at /\ session'.sight.proc = o.proc /\ session'.sight.present = o.present
        BY <2>6, <3>1 DEF SightSlot
      <4>3. session'.inc.proc = o.proc
        BY <2>3, <4>1
      <4> QED
        BY <4>1, <4>2, <4>3
    <3>2. CASE o.kind # "sighting" /\ session'.sight.at # 0
      <4>1. ~Resets(a) /\ session'.sight = session.sight
        BY <2>6, <3>2 DEF NoSight
      <4>2. session.sight.at # 0 /\ session.inc.proc # NoProc
        BY <3>2, <4>1 DEF SlotsAreOwn
      <4>3. session'.inc.proc = session.inc.proc
        BY <2>3, <2>4, <4>1, <4>2
      <4> QED
        BY <4>1, <4>2, <4>3 DEF SlotsAreOwn
    <3> QED
      BY <3>1, <3>2
  <2>10. session'.screen.at # 0 =>
          /\ session'.screen.proc = session'.inc.proc /\ session'.inc.proc # NoProc
          /\ session'.screen.act = "idle"
    <3>1. CASE o.kind = "reading"
      <4>1. o.proc # NoProc /\ o.act = "idle"
        BY <1>1, <1>2, <3>1 DEF Observations, SaysThen
      <4>2. session'.screen.proc = o.proc /\ session'.screen.act = o.act
        BY <2>6, <3>1 DEF ScreenSlot
      <4> QED
        BY <2>3, <4>1, <4>2
    <3>2. CASE o.kind # "reading" /\ session'.screen.at # 0
      <4>1. ~Resets(a) /\ session'.screen = session.screen
        BY <2>6, <3>2 DEF NoScreen
      <4>2. session.screen.at # 0 /\ session.inc.proc # NoProc
        BY <3>2, <4>1 DEF SlotsAreOwn
      <4>3. session'.inc.proc = session.inc.proc
        BY <2>3, <2>4, <4>1, <4>2
      <4> QED
        BY <4>1, <4>2, <4>3 DEF SlotsAreOwn
    <3> QED
      BY <3>1, <3>2
  <2> QED
    BY <1>3, <2>7, <2>8, <2>9, <2>10 DEF SlotsAreOwn, EveryReportNames
<1> QED
  BY <1>4, <1>5

\* Every step keeps the slots the bound process's.
LEMMA StepKeepsSlots ==
  ASSUME Uniform, TruthInv, SlotsAreOwn, [Next]_vars
  PROVE  SlotsAreOwn'
<1>1. CASE Move
  <2>1. /\ Now' = Now + 1 /\ Now \in Nat /\ UNCHANGED session
        /\ \A t \in 1..Now : past'[t] = past[t]
    BY <1>1, WorldStep DEF Move, TruthInv, Inv
  <2>2. /\ session.sight.at \in 1..Now =>
             session.sight.at \in 1..Now' /\ past'[session.sight.at] = past[session.sight.at]
    BY <2>1
  <2> QED
    BY <2>1, <2>2 DEF SlotsAreOwn, EveryReportNames
<1>2. CASE Receive
  BY <1>2, ReceiveSlots DEF Receive
<1>3. CASE Taken
  <2>1. /\ session'.native = session.native /\ session'.sight = session.sight
        /\ session'.screen = session.screen /\ session'.inc.proc = session.inc.proc
        /\ UNCHANGED past
    BY <1>3, TakenStep DEF TruthInv
  <2> QED
    BY <2>1 DEF SlotsAreOwn, EveryReportNames, Now
<1>4. CASE UNCHANGED vars
  BY <1>4 DEF vars, SlotsAreOwn, Now
<1> QED
  BY <1>1, <1>2, <1>3, <1>4, NextCases

\* A report that follows one of its own process is stored at another time, unless storing it
\* would change nothing.
LEMMA SequencedTimesDiffer ==
  ASSUME NEW s \in Sessions, NEW o \in Observations, Sequenced(s, o), ~Duplicate(s, o),
         SequencedTime(s, o) = s.native.at
  PROVE  Equivalent(s, o, s.native.at)
<1>1. o.at \in Nat /\ s.native.at \in Nat
  BY DEF Observations, Sessions, Natives
<1>2. CASE o.seq = 0
  BY <1>1, <1>2 DEF SequencedTime
<1>3. CASE o.seq # 0
  BY <1>1, <1>3 DEF SequencedTime
<1> QED
  BY <1>2, <1>3

\* An observation of a moment that its slot already has says the same again.
LEMMA SameTimeSaysTheSame ==
  ASSUME Uniform, TruthInv, SlotsAreOwn, NEW o \in Inbox,
         LET a == Decide(session, o, FALSE)
             b == Baseline(session, o)
         IN  /\ Accepted(a) /\ ~Resets(a) /\ ~Duplicate(b, o)
             /\ SlotTime(session, o) # 0 /\ SequencedTime(b, o) = SlotTime(session, o)
  PROVE  Equivalent(session, o, SlotTime(session, o))
<1>1. TrueThen(o) /\ SaysThen(o)
  BY InboxIsTrue, InboxSays DEF TruthInv, Inv
<1>2. /\ session \in Sessions /\ o \in Observations /\ o.proc \in Process
      /\ session.process = session.inc.proc /\ o.kind \in Kinds
  BY <1>1 DEF TruthInv, Inv, SessionIsSound, Sound, TrueThen, Observations
<1>3. Baseline(session, o) = session
  BY DEF Baseline
<1>4. ~Different(session, o) \/ o.kind = "verification"
  BY <1>2, DecideFacts DEF Resets, Different
<1>5. CASE IsReport(o)
  <2>1. session.native.at # 0 /\ SlotTime(session, o) = session.native.at
    BY <1>5 DEF SlotTime, IsReport
  <2>2. SameReportProcess(session, o)
    BY <1>1, <1>4, <1>5, <2>1 DEF Uniform, TrueThen, SlotsAreOwn, Different, SameReportProcess, IsReport
  <2> QED
    BY <1>2, <1>3, <1>5, <2>1, <2>2, SequencedTimesDiffer DEF Sequenced
<1>6. CASE o.kind = "sighting"
  <2>1. session.sight.at # 0 /\ SlotTime(session, o) = session.sight.at /\ o.at = session.sight.at
    BY <1>3, <1>6 DEF SlotTime, SequencedTime, Sequenced, IsReport
  <2>2. o.proc = session.inc.proc /\ o.present = (o.proc \in past[o.at].alive)
    BY <1>1, <1>2, <1>6 DEF TrueThen, SaysThen
  <2>3. session.sight = SightSlot(o, session.sight.at)
    BY <1>2, <2>1, <2>2 DEF SlotsAreOwn, SightSlot, Sessions, Sights
  <2> QED
    BY <1>2, <1>6, <2>1, <2>3 DEF Equivalent, Store, Sessions
<1>7. CASE o.kind = "reading"
  <2>1. session.screen.at # 0 /\ SlotTime(session, o) = session.screen.at
    BY <1>7 DEF SlotTime
  <2>2. o.proc = session.inc.proc /\ o.act = "idle"
    BY <1>1, <1>2, <1>7 DEF TrueThen, SaysThen
  <2>3. session.screen = ScreenSlot(o, session.screen.at)
    BY <1>2, <2>1, <2>2 DEF SlotsAreOwn, ScreenSlot, Sessions, Screens
  <2> QED
    BY <1>2, <1>7, <2>1, <2>3 DEF Equivalent, Store, Sessions
<1>8. CASE o.kind \in {"placement", "listing", "verification"}
  BY <1>2, <1>8 DEF Equivalent, Store, SlotTime, Sessions
<1> QED
  BY <1>2, <1>5, <1>6, <1>7, <1>8 DEF IsReport, Kinds

\* What was true never conflicts with what was true: only a numbered report that is overtaken
\* by a later one does.
LEMMA ConflictFacts ==
  ASSUME Uniform, TruthInv, SlotsAreOwn, NEW o \in Inbox, Reduce(session, o).out = "conflict"
  PROVE  IsReport(o) /\ o.seq # 0 /\ o.seq <= session.native.seq
<1> DEFINE a == Decide(session, o, FALSE)
           b == Baseline(session, o)
           at == SequencedTime(b, o)
<1>1. \/ OutOfSequence(b, o)
      \/ Accepted(a) /\ ~Duplicate(b, o) /\ ApplyObservation(session, o, a, at).out = "conflict"
  BY DEF Reduce, Dropped, Saved, Conflict, Baseline
<1>2. CASE OutOfSequence(b, o)
  <2>1. IsReport(o) /\ b.native.seq # 0 /\ o.seq <= b.native.seq
    BY <1>2 DEF OutOfSequence, Sequenced
  <2>2. session \in Sessions
    BY DEF TruthInv, Inv, SessionIsSound
  <2>3. b.native = session.native
    BY <2>1, <2>2 DEF Baseline, Sessions, NoNative
  <2>4. SaysThen(o) /\ o.at \in 1..Now
    BY InboxSays, InboxIsTrue DEF TruthInv, Inv, TrueThen
  <2>5. o.seq # 0
    BY <2>1, <2>3, <2>4, MomentFacts DEF SlotsAreOwn, SaysThen, Number, TruthInv, Inv
  <2> QED
    BY <2>1, <2>3, <2>5
<1>3. CASE Accepted(a) /\ ~Duplicate(b, o) /\ ApplyObservation(session, o, a, at).out = "conflict"
  <2>1. /\ ~Resets(a) /\ SlotTime(session, o) # 0 /\ at = SlotTime(session, o)
        /\ ~Equivalent(session, o, at)
    BY <1>3 DEF ApplyObservation, Dropped, Saved, Conflict
  <2> QED
    BY <1>3, <2>1, SameTimeSaysTheSame
<1> QED
  BY <1>1, <1>2, <1>3

\* Reports, scans, readings, placements, listings and verifications that are all true and
\* come in any order never conflict (reduceSession, applyObservation); what does is a report
\* with a number that the reporter has already passed, and it fails the whole batch
\* (validateSequenceOrder).
THEOREM TruthNeverConflicts ==
  ASSUME Uniform
  PROVE  Spec => []OnlyOldNumbersConflict
<1>1. Init => SlotsAreOwn
  BY DEF Init, NewSession, NoNative, NoSight, NoScreen, SlotsAreOwn
<1>2. TruthInv /\ SlotsAreOwn /\ [Next]_vars => SlotsAreOwn'
  BY StepKeepsSlots
<1>3. TruthInv /\ SlotsAreOwn => OnlyOldNumbersConflict
  BY ConflictFacts DEF OnlyOldNumbersConflict
<1> QED
  BY <1>1, <1>2, <1>3, TruthInvariance, PTL DEF Spec

-----------------------------------------------------------------------------
(* Which starts are heard.                                                 *)

\* What changes a session of a setting where hooks name their process and listings create
\* nothing: a report, or an observation of the process that the session has.
LEMMA ChangeFacts ==
  ASSUME EveryReportNames, ~CatalogCreates, TruthInv, HeardInv, NEW o \in Inbox,
         session' = Reduce(session, o).session, Note(o, session'), UNCHANGED past,
         session' # session
  PROVE  LET a == Decide(session, o, FALSE)
         IN  /\ TrueThen(o) /\ SaysThen(o) /\ Accepted(a)
             /\ Follows(session, o, session') /\ Written(session, o, session')
             /\ o.kind # "verification"
             /\ ~Exists(session) => IsReport(o)
             /\ o.proc # NoProc \/ (~IsReport(o) /\ Exists(session))
             /\ session'.inc = NextIncarnation(session, o, a)
             /\ session'.inc.proc = IF o.proc # NoProc THEN o.proc ELSE session.inc.proc
             /\ session'.inc.proc # NoProc /\ session'.inc.state # "none"
<1> DEFINE a == Decide(session, o, FALSE)
<1>1. TrueThen(o) /\ SaysThen(o)
  BY InboxIsTrue, InboxSays DEF TruthInv, Inv
<1>2. /\ session \in Sessions /\ Sound(session) /\ o \in Observations
      /\ session.process = session.inc.proc /\ o.kind \in Kinds
  BY <1>1 DEF TruthInv, Inv, SessionIsSound, Sound, TrueThen, Observations
<1>3. Follows(session, o, session') /\ Written(session, o, session')
  BY <1>2, ReceiveStep, ReduceSlots DEF TruthInv
<1>4. Accepted(a) /\ session'.inc = NextIncarnation(session, o, a)
  BY <1>3 DEF Follows
<1>5. /\ session'.inc.proc = IF o.proc # NoProc THEN o.proc ELSE session.inc.proc
      /\ session'.inc.state # "none"
  BY <1>2, <1>4, NextIncarnationFacts
<1>6. ~Exists(session) => o.kind \notin {"verification", "listing"} /\ session.inc.proc = NoProc
  <2>1. ~Exists(session) => o.kind \notin {"verification", "listing"}
    BY DEF Reduce, Dropped
  <2>2. ~Exists(session) => session.inc.proc = NoProc
    BY DEF HeardInv, Fresh, NewSession, NoIncarnation
  <2> QED
    BY <2>1, <2>2
<1>7. o.kind # "verification"
  <2>1. o.kind = "verification" => session.inc.proc = NoProc
    BY <1>2, <1>4, DecideFacts DEF Starts, IsReport
  <2> QED
    BY <1>6, <2>1 DEF HeardInv, Dated
<1>8. o.kind \in {"sighting", "reading", "placement"} => o.proc = session.inc.proc /\ o.proc # NoProc
  BY <1>1, <1>2 DEF TrueThen, Observations
<1>9. IsReport(o) => o.proc # NoProc
  BY <1>1, ProcAssumption DEF TrueThen
<1>10. ~Exists(session) => IsReport(o)
  BY <1>2, <1>6, <1>8 DEF IsReport, Kinds
<1>11. o.proc # NoProc \/ (~IsReport(o) /\ Exists(session))
  BY <1>9, <1>10
<1>12. session'.inc.proc # NoProc
  BY <1>5, <1>11 DEF HeardInv, Dated
<1> QED
  BY <1>1, <1>3, <1>4, <1>5, <1>7, <1>10, <1>11, <1>12

\* A change leaves the session dated.
LEMMA ReceiveDates ==
  ASSUME EveryReportNames, ~CatalogCreates, TruthInv, HeardInv, NEW o \in Inbox,
         session' = Reduce(session, o).session, Note(o, session'), UNCHANGED past,
         session' # session
  PROVE  Dated'
<1> DEFINE a == Decide(session, o, FALSE)
           n == session'.inc
<1>1. /\ TrueThen(o) /\ SaysThen(o) /\ Accepted(a)
      /\ o.kind # "verification"
      /\ o.proc # NoProc \/ (~IsReport(o) /\ Exists(session))
      /\ n = NextIncarnation(session, o, a)
      /\ n.proc = IF o.proc # NoProc THEN o.proc ELSE session.inc.proc
      /\ n.proc # NoProc
  BY ChangeFacts
<1>2. /\ session \in Sessions /\ o \in Observations /\ o.at \in 1..Now
      /\ WorldIsSound /\ Now \in Nat
  BY <1>1 DEF TruthInv, Inv, SessionIsSound, TrueThen, WorldIsSound, Now
<1>3. /\ o.at \in Nat /\ o.at >= 1
      /\ session.inc.evAt \in Nat /\ session.inc.trAt \in Nat
  BY <1>2 DEF Sessions, Incarnations
<1>4. o.claim # "unknown" /\ (Starts(o) => o.claim = "live")
  BY <1>1 DEF SaysThen
<1>5. /\ n.trAt >= 1
      /\ Finishes(o, a) => a = "continue" /\ n.trAt = Later(session.inc.trAt, o.at)
      /\ /\ ~Finishes(o, a)
         /\ Resets(a) \/ session.inc.trAt <= session.inc.evAt
         /\ o.proc # NoProc \/ (session.inc.trAt >= 1 /\ ~IsReport(o))
         => n.trAt <= n.evAt
  BY <1>1, <1>2, <1>3, <1>4, NextIncarnationTimes
<1>6. /\ n \in Incarnations
      /\ n.state \in {"ended", "exited"} <=> Finishes(o, a)
      /\ n.evAt <= Later(session.inc.evAt, o.at)
  BY <1>1, <1>2, NextIncarnationFacts
<1>7. n.evAt \in Nat /\ n.trAt \in Nat
  BY <1>6 DEF Incarnations
<1>8. ~Terminal(session)' => n.trAt <= n.evAt
  <2>1. ~Resets(a) /\ ~Finishes(o, a) => ~Terminal(session)
    <3>1. Accepted(Decide(session, o, FALSE))
      BY <1>1
    <3> QED
      BY <1>2, <3>1, DecideFacts DEF Resets, Finishes
  <2>2. o.proc # NoProc \/ (session.inc.trAt >= 1 /\ ~IsReport(o))
    BY <1>1 DEF HeardInv, Dated
  <2>3. ~Resets(a) /\ ~Finishes(o, a) => session.inc.trAt <= session.inc.evAt
    BY <2>1 DEF HeardInv, Dated
  <2> HIDE DEF a, n
  <2> QED
    BY <1>5, <1>6, <2>2, <2>3 DEF Terminal, n
<1>9. ASSUME Terminal(session)'
      PROVE  \E t \in 1..Now : t >= n.evAt /\ t >= n.trAt /\ past[t].open # n.proc
  <2>1. Finishes(o, a) /\ a = "continue" /\ n.trAt = Later(session.inc.trAt, o.at)
    BY <1>5, <1>6, <1>9 DEF Terminal
  <2>2. Ends(o) \/ Absent(o)
    BY <2>1 DEF Finishes
  <2>3. o.at >= session.inc.evAt
    BY <1>1, <1>2, <2>2, FinishIsRecent
  <2>4. past[o.at].open # n.proc
    <3>1. CASE Ends(o)
      BY <1>1, <3>1 DEF TrueThen
    <3>2. CASE Absent(o)
      <4>1. o.proc # NoProc /\ o.proc \notin past[o.at].alive /\ past[o.at].open \in past[o.at].alive \cup {NoProc}
        BY <1>1, <1>2, <3>2 DEF TrueThen, Absent, Observations, WorldIsSound
      <4> QED
        BY <1>1, <4>1
    <3> QED
      BY <2>2, <3>1, <3>2
  <2>5. CASE ~Terminal(session)
    <3>1. session.inc.trAt <= session.inc.evAt
      BY <2>5 DEF HeardInv, Dated
    <3>2. o.at >= n.evAt /\ o.at >= n.trAt
      BY <1>3, <1>6, <1>7, <2>1, <2>3, <3>1 DEF Later
    <3> QED
      BY <1>2, <2>4, <3>2
  <2>6. CASE Terminal(session)
    <3>1. PICK t \in 1..Now : /\ t >= session.inc.evAt /\ t >= session.inc.trAt
                              /\ past[t].open # session.inc.proc
      BY <2>6 DEF HeardInv, Dated
    <3>2. n.proc = session.inc.proc
      <4>1. ~Different(session, o) /\ Exists(session)
        BY <1>1, <1>2, <2>1, <2>6, DecideFacts DEF Terminal, Exists
      <4> QED
        BY <1>1, <4>1 DEF Different, HeardInv, Dated
    <3>3. CASE t >= o.at
      <4>1. t >= n.evAt /\ t >= n.trAt
        BY <1>3, <1>6, <1>7, <2>1, <3>1, <3>3 DEF Later
      <4> QED
        BY <3>1, <3>2, <4>1
    <3>4. CASE ~(t >= o.at)
      <4>1. o.at >= n.evAt /\ o.at >= n.trAt
        BY <1>2, <1>3, <1>6, <1>7, <2>1, <3>1, <3>4 DEF Later
      <4> QED
        BY <1>2, <2>4, <4>1
    <3> QED
      BY <3>3, <3>4
  <2> QED
    BY <2>5, <2>6
<1>10. Now' = Now
  BY DEF Now
<1> QED
  BY <1>1, <1>5, <1>8, <1>9, <1>10 DEF Dated

\* The report of a turn says the same as the one before it of the same moment.
LEMMA SameTurnIsEquivalent ==
  ASSUME NEW s \in Sessions, NEW o \in Observations, IsReport(o), o.at = s.native.at,
         o.proc = s.native.proc, o.seq = s.native.seq, o.life = s.native.life,
         o.claim = s.native.claim, o.act = s.native.act, o.act # "none"
  PROVE  Equivalent(s, o, o.at)
<1>1. NativeActivity(s, o) = o.act
  BY DEF NativeActivity
<1>2. NativeSlot(s, o, o.at) = s.native
  BY <1>1 DEF NativeSlot, Sessions, Natives
<1>3. Store(s, o, o.at) = [s EXCEPT !.native = s.native]
  BY <1>2 DEF Store, IsReport
<1> QED
  BY <1>3 DEF Equivalent, Sessions

\* A report leaves the session starting only if it claims nothing, and is not older than the
\* one before.
LEMMA ReportWaits ==
  ASSUME EveryReportNames, ~CatalogCreates, TruthInv, SlotsAreOwn, HeardInv, NEW o \in Inbox,
         session' = Reduce(session, o).session, Note(o, session'), UNCHANGED past,
         session' # session, IsReport(o), session'.inc.state = "starting",
         Decide(session, o, FALSE) = "continue", ~Finishes(o, "continue"),
         session.inc.state \in {"none", "starting"},
         session'.inc.trAt = IF session.inc.trAt = 0 THEN o.at ELSE session.inc.trAt,
         o.claim = "live" => o.at < session'.inc.trAt
  PROVE  /\ session'.native.at # 0 /\ session'.native.life = "none"
         /\ session'.native.claim = "none" /\ session'.native.act = "busy"
         /\ IF Numbered THEN session'.native.seq >= 2 * session'.inc.trAt
            ELSE session'.native.at \in session'.inc.trAt..Now
<1> DEFINE at == SequencedTime(session, o)
<1>1. /\ TrueThen(o) /\ SaysThen(o) /\ Written(session, o, session')
      /\ Accepted(Decide(session, o, FALSE))
  BY ChangeFacts
<1>2. /\ session \in Sessions /\ o \in Observations /\ o.at \in 1..Now /\ Now \in Nat
  BY <1>1 DEF TruthInv, Inv, SessionIsSound, TrueThen, WorldIsSound, Now
<1>3. /\ o.at \in Nat /\ o.at >= 1 /\ o.seq \in Nat /\ session.native.at \in Nat
      /\ session.native.seq \in Nat /\ session.inc.trAt \in Nat /\ o.proc # NoProc
  BY <1>1, <1>2, ProcAssumption DEF Observations, Sessions, Natives, Incarnations, TrueThen
<1>4. /\ ~Duplicate(session, o) /\ ~OutOfSequence(session, o)
      /\ session.native.at # 0 => at > session.native.at
      /\ session'.native.at = at
      /\ session'.native.proc = o.proc /\ session'.native.seq = o.seq
      /\ session'.native.life = o.life /\ session'.native.claim = o.claim
      /\ o.act # "none" => session'.native.act = o.act
  BY <1>1 DEF Written, Baseline, Resets
<1>5. o.claim \in {"none", "live"}
  BY <1>1, <1>2 DEF SaysThen, Finishes, Ends, IsReport, Observations, Claims
<1>6. o.claim = "none" => o.life = "none" /\ o.act = "busy"
  BY <1>1 DEF SaysThen
<1>7. IF Numbered THEN o.seq >= 2 * o.at /\ o.seq <= 2 * o.at + 1 ELSE o.seq = 0
  BY <1>1, <1>3 DEF SaysThen, Number
<1>8. CASE session.inc.state = "none"
  <2>1. session.native.at = 0 /\ session.inc.trAt = 0
    BY <1>8 DEF HeardInv, Fresh, Exists, NewSession, NoNative, NoIncarnation
  <2>2. at = o.at /\ session'.inc.trAt = o.at
    BY <2>1 DEF SequencedTime, Sequenced
  <2>3. o.claim = "none"
    BY <1>3, <1>5, <2>2
  <2> HIDE DEF at
  <2> QED
    BY <1>2, <1>3, <1>4, <1>6, <1>7, <2>2, <2>3
<1>9. CASE session.inc.state = "starting"
  <2>1. /\ session.native.at # 0 /\ session.native.life = "none"
        /\ session.native.claim = "none" /\ session.native.act = "busy"
        /\ IF Numbered THEN session.native.seq >= 2 * session.inc.trAt
           ELSE session.native.at \in session.inc.trAt..Now
        /\ session.inc.trAt >= 1
    BY <1>9 DEF HeardInv, Waiting, Dated, Exists
  <2>2. session'.inc.trAt = session.inc.trAt
    BY <1>3, <2>1
  <2>3. o.proc = session.native.proc
    <3>1. session.native.proc = session.inc.proc /\ session.inc.proc # NoProc
      BY <2>1 DEF SlotsAreOwn
    <3>2. ~Different(session, o)
      BY <1>1, <1>2, DecideFacts
    <3> QED
      BY <1>3, <3>1, <3>2 DEF Different
  <2>4. Sequenced(session, o)
    BY <2>1, <2>3 DEF Sequenced, SameReportProcess
  <2>5. CASE Numbered
    <3>1. o.seq > session.native.seq
      BY <1>3, <1>4, <2>1, <2>4, <2>5 DEF OutOfSequence
    <3>2. o.at >= session.inc.trAt
      BY <1>3, <1>7, <2>1, <2>5, <3>1
    <3>3. o.claim = "none"
      BY <1>3, <1>5, <2>2, <3>2
    <3>4. at # 0
      BY <1>2, <1>3, <1>4, <2>1, SequencedTimeFacts
    <3> HIDE DEF at
    <3> QED
      BY <1>3, <1>4, <1>6, <2>1, <2>2, <2>5, <3>1, <3>3, <3>4
  <2>6. CASE ~Numbered
    <3>1. o.seq = 0 /\ session.native.seq = 0
      BY <1>7, <2>6 DEF SlotsAreOwn
    <3>2. at = IF o.at = session.native.at /\ ~Equivalent(session, o, o.at) THEN o.at + 1 ELSE o.at
      BY <1>4, <2>4, <3>1 DEF SequencedTime
    <3> HIDE DEF at
    <3>3. o.claim = "none"
      <4>1. o.at < session.native.at => at = o.at
        BY <1>3, <3>2
      <4>2. o.claim = "live" => o.at < session.native.at
        BY <1>2, <1>3, <2>1, <2>2, <2>6
      <4> QED
        BY <1>3, <1>4, <1>5, <2>1, <4>1, <4>2
    <3>4. o.at = session.native.at => Equivalent(session, o, o.at)
      BY <1>2, <1>6, <2>1, <2>3, <3>1, <3>3, SameTurnIsEquivalent
    <3>5. at = o.at
      BY <3>2, <3>4
    <3> QED
      BY <1>2, <1>3, <1>4, <1>6, <2>1, <2>2, <2>6, <3>3, <3>5
  <2> QED
    BY <2>5, <2>6
<1> QED
  BY <1>8, <1>9

\* A change keeps the invariant of what is heard.
LEMMA ReceiveHeard ==
  ASSUME EveryReportNames, ~CatalogCreates, TruthInv, SlotsAreOwn, HeardInv, NEW o \in Inbox,
         session' = Reduce(session, o).session, Note(o, session'), UNCHANGED past
  PROVE  HeardInv'
<1> DEFINE a == Decide(session, o, FALSE)
<1>0. Now' = Now
  BY DEF Now
<1>1. CASE session' = session
  BY <1>0, <1>1 DEF HeardInv, Fresh, Dated, Waiting, Exists, Terminal
<1>2. CASE session' # session
  <2>1. /\ TrueThen(o) /\ SaysThen(o) /\ Accepted(a)
        /\ Written(session, o, session')
        /\ o.kind # "verification"
        /\ ~Exists(session) => IsReport(o)
        /\ session'.inc = NextIncarnation(session, o, a)
        /\ session'.inc.state # "none"
    BY <1>2, ChangeFacts
  <2>2. Fresh'
    BY <2>1 DEF Fresh, Exists
  <2>3. ASSUME session'.inc.state = "starting"
        PROVE  /\ session'.native.at # 0 /\ session'.native.life = "none"
               /\ session'.native.claim = "none" /\ session'.native.act = "busy"
               /\ IF Numbered THEN session'.native.seq >= 2 * session'.inc.trAt
                  ELSE session'.native.at \in session'.inc.trAt..Now
    <3>1. /\ session \in Sessions /\ o \in Observations /\ o.at \in 1..Now /\ Now \in Nat
      BY <2>1 DEF TruthInv, Inv, SessionIsSound, TrueThen, WorldIsSound, Now
    <3>2. o.at >= 1 /\ o.claim # "unknown" /\ (Starts(o) => o.claim = "live")
      BY <2>1, <3>1 DEF SaysThen
    <3>3. /\ a = "continue" /\ ~Finishes(o, a)
          /\ session.inc.state \in {"none", "starting"}
          /\ session'.inc.trAt = IF session.inc.trAt = 0 THEN o.at ELSE session.inc.trAt
          /\ IsReport(o) /\ o.claim = "live" => o.at < session'.inc.trAt
      BY <2>1, <2>3, <3>1, <3>2, NextIncarnationTimes
    <3>4. CASE IsReport(o)
      BY <1>2, <2>3, <3>3, <3>4, ReportWaits
    <3>5. CASE ~IsReport(o)
      <4>1. session'.native = session.native
        BY <2>1, <3>3, <3>5 DEF Written, Baseline, Resets
      <4>2. session.inc.state = "starting"
        BY <2>1, <3>3, <3>5 DEF Exists
      <4>3. session'.inc.trAt = session.inc.trAt
        BY <3>3, <4>2 DEF HeardInv, Dated, Exists
      <4> QED
        BY <4>1, <4>2, <4>3 DEF HeardInv, Waiting
    <3> QED
      BY <3>4, <3>5
  <2>4. Waiting'
    BY <1>0, <2>3 DEF Waiting
  <2> QED
    BY <1>2, <2>2, <2>4, ReceiveDates DEF HeardInv
<1> QED
  BY <1>1, <1>2

\* A takeover keeps it.
LEMMA TakenHeard ==
  ASSUME TruthInv, HeardInv, Taken
  PROVE  HeardInv'
<1>1. /\ Inv' /\ UNCHANGED past
      /\ session' = session
           \/ /\ session'.presence = "gone"
              /\ session'.inc.proc = session.inc.proc /\ session'.inc.evAt = session.inc.evAt
              /\ \E t \in 1..Now : /\ t >= session.inc.evAt /\ past[t].open # session.inc.proc
                                 /\ session'.inc.trAt = Later(session.inc.trAt, t)
              /\ session.inc.proc # NoProc
  BY TakenStep DEF TruthInv
<1>2. /\ session.inc.evAt \in Nat /\ session.inc.trAt \in Nat /\ Now' = Now /\ Now \in Nat
  BY <1>1 DEF TruthInv, Inv, WorldIsSound, SessionIsSound, Sessions, Incarnations, Now
<1>3. CASE session' = session
  BY <1>1, <1>2, <1>3 DEF HeardInv, Fresh, Dated, Waiting, Exists, Terminal
<1>4. CASE session' # session
  <2>1. session'.inc.state \in {"ended", "exited"}
    BY <1>1, <1>4 DEF Inv, SessionIsSound, Sound, PresenceIn
  <2>2. PICK t \in 1..Now : /\ t >= session.inc.evAt /\ past[t].open # session.inc.proc
                            /\ session'.inc.trAt = Later(session.inc.trAt, t)
    BY <1>1, <1>4
  <2>3. \E u \in 1..Now : /\ u >= session'.inc.evAt /\ u >= session'.inc.trAt
                          /\ past[u].open # session'.inc.proc
    <3>1. CASE ~Terminal(session)
      <4>1. session.inc.trAt <= session.inc.evAt
        BY <3>1 DEF HeardInv, Dated
      <4>2. t >= session'.inc.evAt /\ t >= session'.inc.trAt
        BY <1>1, <1>2, <1>4, <2>2, <4>1 DEF Later
      <4> QED
        BY <1>1, <1>4, <2>2, <4>2
    <3>2. CASE Terminal(session)
      <4>1. PICK u \in 1..Now : /\ u >= session.inc.evAt /\ u >= session.inc.trAt
                                /\ past[u].open # session.inc.proc
        BY <3>2 DEF HeardInv, Dated
      <4>2. \/ u >= session'.inc.evAt /\ u >= session'.inc.trAt
            \/ t >= session'.inc.evAt /\ t >= session'.inc.trAt
        BY <1>1, <1>2, <1>4, <2>2, <4>1 DEF Later
      <4> QED
        BY <1>1, <1>4, <2>2, <4>1, <4>2
    <3> QED
      BY <3>1, <3>2
  <2>4. session'.inc.trAt >= 1
    BY <1>2, <2>2 DEF Later
  <2> QED
    BY <1>1, <1>2, <1>4, <2>1, <2>3, <2>4 DEF HeardInv, Fresh, Dated, Waiting, Exists, Terminal
<1> QED
  BY <1>3, <1>4

\* Every step keeps the invariant of what is heard.
LEMMA StepKeepsHeard ==
  ASSUME EveryReportNames, ~CatalogCreates, TruthInv, SlotsAreOwn, HeardInv, [Next]_vars
  PROVE  HeardInv'
<1>1. CASE Move
  <2>1. /\ Now' = Now + 1 /\ Now \in Nat /\ UNCHANGED session
        /\ \A t \in 1..Now : past'[t] = past[t]
    BY <1>1, WorldStep DEF Move, TruthInv, Inv
  <2>2. Fresh' /\ Waiting'
    <3>1. session.native.at \in Nat /\ session.inc.trAt \in Nat
      BY DEF TruthInv, Inv, SessionIsSound, Sessions, Natives, Incarnations
    <3>2. session.native.at \in session.inc.trAt..Now => session.native.at \in session.inc.trAt..Now'
      BY <2>1, <3>1
    <3> QED
      BY <2>1, <3>2 DEF HeardInv, Fresh, Waiting, Exists
  <2>3. Dated'
    <3>1. ASSUME Terminal(session)
          PROVE  \E t \in 1..Now' : /\ t >= session.inc.evAt /\ t >= session.inc.trAt
                                    /\ past'[t].open # session.inc.proc
      <4>1. PICK t \in 1..Now : /\ t >= session.inc.evAt /\ t >= session.inc.trAt
                                /\ past[t].open # session.inc.proc
        BY <3>1 DEF HeardInv, Dated
      <4> QED
        BY <2>1, <4>1
    <3> QED
      BY <2>1, <3>1 DEF HeardInv, Dated, Exists, Terminal
  <2> QED
    BY <2>2, <2>3 DEF HeardInv
<1>2. CASE Receive
  BY <1>2, ReceiveHeard DEF Receive
<1>3. CASE Taken
  BY <1>3, TakenHeard
<1>4. CASE UNCHANGED vars
  BY <1>4 DEF vars, HeardInv, Fresh, Dated, Waiting, Exists, Terminal, Now
<1> QED
  BY <1>1, <1>2, <1>3, <1>4, NextCases

\* What the start of this moment reports.
LEMMA StartReport ==
  ASSUME WorldIsSound, EveryReportNames, Today.mark = "start", NEW o \in Reports(Now), Starts(o)
  PROVE  /\ o \in Inbox /\ TrueThen(o) /\ o.at = Now /\ o.proc = Today.by
         /\ Today.by \in Procs /\ Today.open = Today.by
         /\ IsReport(o) /\ o.claim = "live" /\ ~Ends(o) /\ ~Absent(o)
         /\ o.seq = Number(Now, 0)
<1>1. Now \in 1..Now /\ Today = past[Now]
  BY DEF WorldIsSound, Now, Today
<1>2. Today.by \in Procs /\ Today.open = Today.by
  BY <1>1 DEF WorldIsSound
<1>3. \/ o = Report(Known(Today.by, "start"), Now, "start", "live", "none", Number(Now, 0))
      \/ \E c : o = Report(Known(Today.open, "turn"), Now, "none", c, "busy", Number(Now, 1))
  BY <1>1 DEF Reports
<1>4. o = Report(Known(Today.by, "start"), Now, "start", "live", "none", Number(Now, 0))
  BY <1>3 DEF Starts, IsReport, Report, Observation
<1>5. Known(Today.by, "start") = Today.by
  BY DEF Known, EveryReportNames
<1>6. /\ o.kind = "report" /\ o.at = Now /\ o.proc = Today.by /\ o.life = "start"
      /\ o.claim = "live" /\ o.seq = Number(Now, 0)
  BY <1>4, <1>5 DEF Report, Observation
<1>7. o \in Inbox /\ TrueThen(o)
  BY <1>1, ReportsAreTrue DEF Inbox
<1> QED
  BY <1>2, <1>6, <1>7 DEF IsReport, Ends, Absent

\* The start of this moment is accepted: a session that is over was let go of before it.
LEMMA StartIsAccepted ==
  ASSUME EveryReportNames, TruthInv, HeardInv, Today.mark = "start",
         Today.by # session.inc.prev, NEW o \in Reports(Now), Starts(o)
  PROVE  LET a == Decide(session, o, FALSE)
         IN  /\ a \in {"replace", "bind", "resume", "continue"}
             /\ a = "continue" => ~Terminal(session) /\ ~Different(session, o)
             /\ NextIncarnation(session, o, a).state = "live"
             /\ NextIncarnation(session, o, a).proc = Today.by
<1> DEFINE a == Decide(session, o, FALSE)
           n == NextIncarnation(session, o, a)
<1>1. /\ o \in Inbox /\ TrueThen(o) /\ o.at = Now /\ o.proc = Today.by
      /\ Today.by \in Procs /\ Today.open = Today.by /\ Today = past[Now]
      /\ IsReport(o) /\ o.claim = "live" /\ ~Ends(o) /\ ~Absent(o)
  BY StartReport DEF TruthInv, Inv, Today
<1>2. /\ session \in Sessions /\ o \in Observations /\ Now \in Nat /\ Now >= 1
      /\ session.inc.evAt \in Nat /\ session.inc.trAt \in Nat
      /\ session.inc.evAt <= Now /\ session.inc.trAt <= Now /\ o.proc # NoProc
  BY <1>1, ProcAssumption
     DEF TruthInv, Inv, SessionIsSound, WorldIsSound, Now, TrueThen, Sessions, Incarnations
<1>3. ASSUME Different(session, o)
      PROVE  a = "replace"
  <2>1. ~ReplacementRejected(session, o)
    BY <1>1, <1>2, <1>3 DEF ReplacementRejected, IsReport
  <2> QED
    BY <1>1, <1>3, <2>1 DEF Decide, IsReport
<1>4. ASSUME ~Different(session, o), Terminal(session)
      PROVE  a \in {"bind", "resume"}
  <2>1. session.inc.proc = Today.by
    BY <1>1, <1>2, <1>4 DEF HeardInv, Dated, Exists, Terminal, Different
  <2>2. PICK t \in 1..Now : /\ t >= session.inc.evAt /\ t >= session.inc.trAt
                            /\ past[t].open # session.inc.proc
    BY <1>4 DEF HeardInv, Dated
  <2>3. Now > session.inc.evAt /\ Now > session.inc.trAt
    BY <1>1, <1>2, <2>1, <2>2
  <2>4. ResumesTerminal(session, o)
    BY <1>1, <1>2, <1>4, <2>3 DEF ResumesTerminal, Later
  <2>5. ~TerminalStale(session, o)
    BY <1>1 DEF TerminalStale
  <2> QED
    BY <1>1, <1>4, <2>4, <2>5 DEF Decide, IsReport
<1>5. ASSUME ~Different(session, o), ~Terminal(session)
      PROVE  a = "continue"
  BY <1>1, <1>5
     DEF Decide, IsReport, TerminalStale, BindsTerminalProcess, ResumesTerminal, TerminalRejected
<1>6. a \in {"replace", "bind", "resume", "continue"}
      /\ (a = "continue" => ~Terminal(session) /\ ~Different(session, o))
  BY <1>3, <1>4, <1>5
<1>7. Accepted(a) /\ ~Finishes(o, a)
  BY <1>1, <1>6 DEF Accepted, Finishes
<1>8. /\ n \in Incarnations /\ n.state # "none" /\ n.state \notin {"ended", "exited"}
      /\ n.proc = o.proc /\ n.trAt <= Later(session.inc.trAt, o.at)
  BY <1>2, <1>7, NextIncarnationFacts
<1>9. n.state = "starting" => o.at < n.trAt
  BY <1>1, <1>2, <1>7, NextIncarnationTimes DEF IsReport
<1> HIDE DEF a, n
<1>10. ~(o.at < n.trAt)
  BY <1>1, <1>2, <1>8 DEF Later, Incarnations
<1>11. n.state = "live" /\ n.proc = Today.by
  BY <1>1, <1>8, <1>9, <1>10 DEF Incarnations, States
<1> QED
  BY <1>6, <1>11 DEF a, n

\* The start of this moment is heard, or conflicts with a later number.
LEMMA StartMakesLive ==
  ASSUME EveryReportNames, TruthInv, SlotsAreOwn, HeardInv, Today.mark = "start",
         Today.by # session.inc.prev, NEW o \in Reports(Now), Starts(o)
  PROVE  LET r == Reduce(session, o)
         IN  r.out = "conflict" \/ (r.session.presence = "live" /\ r.session.inc.proc = Today.by)
<1> DEFINE a == Decide(session, o, FALSE)
           b == Baseline(session, o)
           at == SequencedTime(b, o)
           x == Applied(session, o, a, at)
           r == Reduce(session, o)
<1>1. /\ TrueThen(o) /\ o.at = Now /\ o.proc = Today.by /\ Today.by \in Procs
      /\ IsReport(o) /\ o.claim = "live" /\ ~Ends(o) /\ ~Absent(o) /\ o.seq = Number(Now, 0)
  BY StartReport DEF TruthInv, Inv
<1>2. /\ session \in Sessions /\ Sound(session) /\ o \in Observations /\ Now \in Nat /\ Now >= 1
      /\ session.native.at \in Nat /\ o.proc # NoProc
  BY <1>1, ProcAssumption
     DEF TruthInv, Inv, SessionIsSound, WorldIsSound, Now, TrueThen, Sessions, Natives
<1>3. /\ a \in {"replace", "bind", "resume", "continue"}
      /\ a = "continue" => ~Terminal(session) /\ ~Different(session, o)
      /\ NextIncarnation(session, o, a).state = "live"
      /\ NextIncarnation(session, o, a).proc = Today.by
  BY StartIsAccepted
<1>4. Accepted(a) /\ ~Finishes(o, a) /\ (Resets(a) <=> a # "continue")
  BY <1>1, <1>3 DEF Accepted, Finishes, Resets
<1>5. \/ r.out = "conflict"
      \/ r = Saved(session) /\ Duplicate(b, o)
      \/ /\ ~Duplicate(b, o) /\ ~Resets(a) /\ session.native.at # 0
         /\ \/ r = Dropped(session) /\ at < session.native.at
            \/ r = Saved(session) /\ Equivalent(session, o, at)
      \/ r = Saved(x) /\ ~Duplicate(b, o)
  <2>1. SlotTime(session, o) = session.native.at /\ o.kind = "report"
    BY <1>1 DEF SlotTime, IsReport
  <2>2. \/ r.out = "conflict"
        \/ r = Saved(session) /\ Duplicate(b, o)
        \/ r = ApplyObservation(session, o, a, at) /\ ~Duplicate(b, o)
    BY <1>4, <2>1 DEF Reduce, Conflict, Baseline
  <2> HIDE DEF a, b, at, r, x
  <2>3. LET c == ApplyObservation(session, o, a, at)
        IN  \/ c.out = "conflict"
            \/ /\ ~Resets(a) /\ session.native.at # 0
               /\ \/ c = Dropped(session) /\ at < session.native.at
                  \/ c = Saved(session) /\ Equivalent(session, o, at)
            \/ c = Saved(Applied(session, o, a, at))
    BY <2>1 DEF ApplyObservation, Applied, Conflict
  <2> QED
    BY <2>2, <2>3 DEF x
<1>6. ASSUME r = Saved(x), ~Duplicate(b, o)
      PROVE  r.session.presence = "live" /\ r.session.inc.proc = Today.by
  <2>1. b \in Sessions
    <3>1. NoNative \in Natives
      BY DEF Natives, NoNative, Process, Lives, Claims, Acts
    <3> QED
      BY <1>2, <3>1 DEF Sessions, Baseline
  <2>2. at \in Nat /\ at >= o.at
    <3> HIDE DEF b
    <3> QED
      BY <1>2, <1>6, <2>1, SequencedTimeFacts
  <2>3. Follows(session, o, x)
    BY <1>2, <1>4, <2>2, AppliedFacts
  <2>4. Sound(x) /\ x.inc = NextIncarnation(session, o, a)
    BY <2>3 DEF Follows
  <2> HIDE DEF a, x
  <2> QED
    BY <1>3, <1>6, <2>4 DEF Sound, PresenceIn, Saved
<1>7. ASSUME ~Resets(a), session.native.at # 0, session.inc.state # "starting"
      PROVE  session.presence = "live" /\ session.inc.proc = Today.by
  <2>1. Exists(session)
    BY <1>7 DEF HeardInv, Fresh, NewSession, NoNative
  <2>2. session.inc.state = "live"
    BY <1>2, <1>3, <1>4, <1>7, <2>1 DEF Exists, Terminal, Sessions, Incarnations, States
  <2>3. session.inc.proc = o.proc
    BY <1>2, <1>3, <1>4, <1>7, <2>1 DEF Different, HeardInv, Dated
  <2> QED
    BY <1>1, <1>2, <2>2, <2>3 DEF Sound, PresenceIn
<1>8. ASSUME NEW t, session.native.at # 0, Equivalent(session, o, t)
      PROVE  session.inc.state # "starting"
  <2>1. session.native = NativeSlot(session, o, t)
    BY <1>1, <1>2, <1>8 DEF Equivalent, Store, IsReport, Sessions
  <2>2. session.native.claim = "live"
    BY <1>1, <2>1 DEF NativeSlot
  <2> QED
    BY <2>2 DEF HeardInv, Waiting
<1>9. ASSUME Duplicate(b, o)
      PROVE  ~Resets(a) /\ session.native.at # 0 /\ session.inc.state # "starting"
  <2>1. b.native.at # 0 /\ Equivalent(b, o, b.native.at)
    BY <1>9 DEF Duplicate, Sequenced
  <2>2. ~Resets(a)
    BY <1>2, <2>1 DEF Baseline, NoNative, Sessions
  <2>3. b = session
    BY <2>2 DEF Baseline
  <2> QED
    BY <1>8, <2>1, <2>2, <2>3
<1>10. ASSUME ~Duplicate(b, o), ~Resets(a), session.native.at # 0, at < session.native.at
       PROVE  session.inc.state # "starting"
  <2>1. b = session
    BY <1>10 DEF Baseline
  <2>2. Sequenced(session, o)
    <3>1. session.native.proc = session.inc.proc /\ session.inc.proc # NoProc
      BY <1>10 DEF SlotsAreOwn
    <3>2. o.proc = session.native.proc
      BY <1>2, <1>3, <1>4, <1>10, <3>1 DEF Different
    <3> QED
      BY <1>1, <1>10, <3>2 DEF Sequenced, SameReportProcess
  <2>3. o.seq = IF Numbered THEN 2 * Now ELSE 0
    BY <1>1, <1>2 DEF Number
  <2>4. ~Numbered /\ session.native.at > Now
    BY <1>1, <1>2, <1>10, <2>1, <2>2, <2>3 DEF SequencedTime
  <2> QED
    BY <1>2, <2>4 DEF HeardInv, Waiting
<1> HIDE DEF a, b, at, r, x
<1>11. (r = Saved(session) \/ r = Dropped(session)) => r.session = session
  BY DEF Saved, Dropped
<1>12. CASE r.out = "conflict"
  BY <1>12 DEF r
<1>13. CASE r = Saved(session) /\ Duplicate(b, o)
  BY <1>7, <1>9, <1>11, <1>13 DEF r
<1>14. CASE /\ ~Duplicate(b, o) /\ ~Resets(a) /\ session.native.at # 0
            /\ \/ r = Dropped(session) /\ at < session.native.at
               \/ r = Saved(session) /\ Equivalent(session, o, at)
  BY <1>7, <1>8, <1>10, <1>11, <1>14 DEF r
<1>15. CASE r = Saved(x) /\ ~Duplicate(b, o)
  BY <1>6, <1>15 DEF r
<1> QED
  BY <1>5, <1>12, <1>13, <1>14, <1>15

\* Where hooks name their process and a listing creates no session: the start report of the
\* process that opens the session now makes it live in that process, whatever was reduced
\* before, unless a later number of the same reporter was
\* (resumesTerminalProcess, replacementRejection, sequencedObservationTime).
THEOREM StartsAreHeard ==
  ASSUME EveryReportNames, ~CatalogCreates
  PROVE  Spec => []StartIsHeard
<1>0. Uniform
  BY DEF Uniform
<1>1. Init => SlotsAreOwn /\ HeardInv
  BY DEF Init, NewSession, NoNative, NoSight, NoScreen, NoIncarnation, SlotsAreOwn,
         HeardInv, Fresh, Dated, Waiting, Exists, Terminal
<1>2. TruthInv /\ SlotsAreOwn /\ HeardInv /\ [Next]_vars => (SlotsAreOwn /\ HeardInv)'
  BY <1>0, StepKeepsSlots, StepKeepsHeard
<1>3. TruthInv /\ SlotsAreOwn /\ HeardInv => StartIsHeard
  BY StartMakesLive DEF StartIsHeard
<1>4. Spec => []TruthInv
  BY <1>0, TruthInvariance
<1> QED
  BY <1>1, <1>2, <1>3, <1>4, PTL DEF Spec
=============================================================================
