-------------------------- MODULE StopSessionProofs --------------------------
(***************************************************************************)
(* Theorems about StopSession, for any panes, process numbers and number   *)
(* of changes of the machine and the registry.                             *)
(***************************************************************************)
EXTENDS StopSession, FiniteSetTheorems, SequenceTheorems, TLAPS

Starts   == Nat \ {0}
Programs == [start : Starts, pane : Panes \cup {Nowhere}, fg : BOOLEAN, agent : BOOLEAN]
Proper   == [pid : Pids, start : Starts]
Known    == Proper \cup {NoId}
Places   == {NoLoc} \cup [pane : Panes, shell : Starts]
Sessions == [live : BOOLEAN, proc : Known, own : BOOLEAN, loc : Places, fg : BOOLEAN]
Commands == [phase : {"next", "send"}, args : SUBSET References, todo : Seq(Ids),
             snapshot : [Ids -> Sessions], seen : SUBSET {StopTargetForSession(s) : s \in Sessions},
             calm : BOOLEAN, skipped : SUBSET Ids, failed : SUBSET Ids]

-----------------------------------------------------------------------------
(* The inductive invariant.                                                *)

\* Processes started before now; a pane has one foreground process.
MachineIsSound ==
  /\ procs \in [Pids -> Programs \cup {NoProc}] /\ shells \in [Panes -> Starts]
  /\ changes \in Nat
  /\ \A p \in Pids : Alive(p) => procs[p].start < changes + 2
  /\ \A p, q \in Pids :
       /\ Alive(p) /\ procs[p].pane \in Panes /\ procs[p].fg
       /\ Alive(q) /\ procs[q].pane = procs[p].pane /\ procs[q].fg
       => p = q
  /\ ~Outside => \A p \in Pids : Alive(p) => procs[p].pane \in Panes

\* A session's process, if one is known, started before now; while it runs it is in the
\* session's pane.
Placing(s) ==
  /\ s.proc.start < changes + 2
  /\ ~Outside /\ s.proc # NoId /\ s.loc # NoLoc /\ Alive(s.proc.pid) /\ procs[s.proc.pid].start = s.proc.start
       => procs[s.proc.pid].pane = s.loc.pane

SessionsArePlaced ==
  /\ sessions \in [Ids -> Sessions]
  /\ \A id \in Ids : Placing(sessions[id])

\* Whom an argument names.
Named(r) ==
  \E id \in Ids : IsPrefix(r, id) /\ \A other \in Ids : IsPrefix(r, other) => other = id

Target(id) == StopTargetForSession(cmd.snapshot[id])
Targets    == {hit.target : hit \in hits}
Failures   == {Target(id) : id \in cmd.failed}

\* The list has everyone once; whom it reads about is where it read that they are.
ListIsSound ==
  /\ cmd \in Commands /\ IsInjective(cmd.todo)
  /\ cmd.phase = "send" => cmd.todo # << >>
  /\ \A id \in Ids : Placing(cmd.snapshot[id])
  /\ \A r \in cmd.args : Named(r)

\* What is seen was interrupted, or failed to be, or is about to be, and then is valid as
\* long as nothing changed.
SeenIsSound ==
  /\ Targets \subseteq cmd.seen
  /\ cmd.phase = "next" => cmd.seen \subseteq Targets \cup Failures
  /\ cmd.phase = "send" =>
       LET id == Head(cmd.todo)
       IN /\ cmd.seen \subseteq Targets \cup Failures \cup {Target(id)}
          /\ Target(id) \in cmd.seen /\ Target(id) \notin Targets
          /\ Target(id).method # "none"
          /\ cmd.calm => ValidateStopTarget(cmd.snapshot[id], Target(id))

\* Whoever was named is still to come, was skipped, or shares an interrupt, one that
\* failed maybe.
TurnsAreKept ==
  \A id \in cmd.args \cap Ids :
    \/ \E i \in DOMAIN cmd.todo : cmd.todo[i] = id
    \/ id \in cmd.skipped \/ Target(id) \in Targets \cup Failures

CommandIsSound ==
  \/ cmd = Idle /\ hits = {}
  \/ ListIsSound /\ SeenIsSound /\ TurnsAreKept /\ InterruptedOnce

\* An interrupt that nothing preceded reached the process it was meant for.
HitsAreMeant == ~Outside => InterruptHitsAgent

StopInv == MachineIsSound /\ SessionsArePlaced /\ CommandIsSound /\ HitsAreMeant
-----------------------------------------------------------------------------
(* The operators.                                                          *)

\* There are two sessions.
LEMMA TwoIds ==
  /\ Ids = {<<"a", "x">>, <<"a", "y">>} /\ <<"a", "x">> # <<"a", "y">>
  /\ IsFiniteSet(Ids) /\ << >> \notin Ids
<1>1. Ids = {<<"a", "x">>, <<"a", "y">>} /\ <<"a", "x">> # <<"a", "y">>
  BY DEF Ids
<1>2. << >> # <<"a", "x">> /\ << >> # <<"a", "y">>
  OBVIOUS
<1>3. IsFiniteSet({<<"a", "x">>} \cup {<<"a", "y">>})
  BY FS_Singleton, FS_Union
<1>4. Ids = {<<"a", "x">>} \cup {<<"a", "y">>}
  BY <1>1
<1> QED
  BY <1>1, <1>2, <1>3, <1>4

\* A list holds every session asked for, once.
LEMMA SortedFacts ==
  ASSUME NEW ids \in SUBSET Ids
  PROVE  /\ Sorted(ids) \in Seq(Ids) /\ IsInjective(Sorted(ids))
         /\ \A id \in ids : \E i \in DOMAIN Sorted(ids) : Sorted(ids)[i] = id
<1> DEFINE a == <<"a", "x">>
           b == <<"a", "y">>
<1>1. Ids = {a, b} /\ a # b
  BY TwoIds
<1>2. CASE ids = Ids
  <2>1. Sorted(ids) = <<a, b>>
    BY <1>2 DEF Sorted
  <2> HIDE DEF a, b
  <2>2. <<a, b>> \in Seq({a, b}) /\ DOMAIN <<a, b>> = {1, 2} /\ <<a, b>>[1] = a /\ <<a, b>>[2] = b
    OBVIOUS
  <2>3. IsInjective(<<a, b>>)
    BY <1>1, <2>2 DEF IsInjective
  <2> QED
    BY <1>1, <1>2, <2>1, <2>2, <2>3
<1>3. CASE ids = {} /\ ids # Ids
  <2>1. Sorted(ids) = << >>
    BY <1>3 DEF Sorted
  <2>2. << >> \in Seq(Ids) /\ IsInjective(<< >>)
    BY DEF IsInjective
  <2> QED
    BY <1>3, <2>1, <2>2
<1>4. CASE ids # {} /\ ids # Ids
  <2> DEFINE c == CHOOSE id \in ids : TRUE
  <2>1. Sorted(ids) = <<c>>
    BY <1>4 DEF Sorted
  <2>2. c \in ids
    BY <1>4
  <2> HIDE DEF a, b, c
  <2>3. ids = {c} /\ c \in Ids
    BY <1>1, <1>4, <2>2
  <2>4. <<c>> \in Seq(Ids) /\ DOMAIN <<c>> = {1} /\ <<c>>[1] = c
    BY <2>3
  <2>5. IsInjective(<<c>>)
    BY <2>4 DEF IsInjective
  <2> QED
    BY <2>1, <2>3, <2>4, <2>5
<1> QED
  BY <1>2, <1>3, <1>4

\* A reference that resolves names the session it resolves to.
LEMMA ResolutionFacts ==
  ASSUME NEW r \in References, ResolveWithReference(r) # << >>
  PROVE  /\ ResolveWithReference(r) \in Ids /\ Named(r)
         /\ r \in Ids => ResolveWithReference(r) = r
<1> DEFINE matches == {id \in Ids : MatchesReferenceCandidate(id, r)}
<1>1. CASE r \in Ids
  <2>1. ResolveWithReference(r) = r
    BY <1>1 DEF ResolveWithReference
  <2>2. \A id \in Ids : id \in Seq({"a", "x", "y"}) /\ Len(id) = 2
    <3>1. /\ <<"a", "x">> \in Seq({"a", "x", "y"}) /\ Len(<<"a", "x">>) = 2
          /\ <<"a", "y">> \in Seq({"a", "x", "y"}) /\ Len(<<"a", "y">>) = 2
      OBVIOUS
    <3> QED
      BY <3>1, TwoIds
  <2>3. \A id \in Ids : SubSeq(id, 1, 2) = id
    BY <2>2, SubSeqFull
  <2>4. IsPrefix(r, r)
    BY <1>1, <2>2 DEF IsPrefix
  <2>5. \A other \in Ids : IsPrefix(r, other) => other = r
    BY <1>1, <2>2, <2>3 DEF IsPrefix
  <2> QED
    BY <1>1, <2>1, <2>4, <2>5 DEF Named
<1>2. CASE r \notin Ids
  <2>1. Cardinality(matches) = 1 /\ ResolveWithReference(r) = CHOOSE id \in matches : TRUE
    BY <1>2 DEF ResolveWithReference
  <2>2. IsFiniteSet(matches)
    BY TwoIds, FS_Subset
  <2>3. PICK x : matches = {x}
    BY <2>1, <2>2, FS_Singleton
  <2>4. ResolveWithReference(r) = x
    BY <2>1, <2>3
  <2>5. x \in Ids /\ IsPrefix(r, x) /\ \A other \in Ids : IsPrefix(r, other) => other = x
    BY <2>3 DEF MatchesReferenceCandidate
  <2> QED
    BY <1>2, <2>4, <2>5 DEF Named
<1> QED
  BY <1>1, <1>2

\* The foreground process of a pane is who an interrupt reaches.
LEMMA InFrontOf ==
  ASSUME MachineIsSound, NEW p \in Pids, Alive(p), procs[p].pane \in Panes, procs[p].fg
  PROVE  InFront(procs[p].pane) = [pid |-> p, start |-> procs[p].start]
<1> DEFINE here == {q \in Pids : Alive(q) /\ procs[q].pane = procs[p].pane /\ procs[q].fg}
           front == CHOOSE q \in here : TRUE
<1>1. p \in here
  OBVIOUS
<1>2. \A q \in here : q = p
  BY SMTT(20) DEF MachineIsSound
<1>3. front = p
  BY <1>1, <1>2
<1>4. InFront(procs[p].pane) = [pid |-> front, start |-> procs[front].start]
  BY <1>1 DEF InFront
<1> QED
  BY <1>3, <1>4

\* In a free pane nobody is in the foreground.
LEMMA FreeIsEmpty ==
  ASSUME StopAssumption, NEW pane \in Panes, Free(pane), NEW p \in Pids, Alive(p),
         procs[p].pane = pane
  PROVE  ~procs[p].fg
<1> SUFFICES ASSUME procs[p].fg PROVE FALSE
  OBVIOUS
<1> DEFINE here == {q \in Pids : Alive(q) /\ procs[q].pane = pane /\ procs[q].fg}
           front == CHOOSE q \in here : TRUE
<1>1. p \in here
  OBVIOUS
<1>2. InFront(pane) = [pid |-> front, start |-> procs[front].start]
  BY <1>1 DEF InFront
<1>3. front \in Pids /\ front # 0
  BY <1>1 DEF StopAssumption
<1> HIDE DEF front
<1>4. InFront(pane) # NoId
  BY <1>2, <1>3 DEF NoId
<1> QED
  BY <1>4 DEF Free, StopAssumption, Nowhere

\* A target of a session, and that it is known by how it is reached.
LEMMA TargetFacts ==
  ASSUME NEW s \in Sessions
  PROVE  LET t == StopTargetForSession(s)
         IN \/ t.method = "tmux-interrupt" /\ s.loc # NoLoc /\ t.target = s.loc.pane
            \/ t.method = "pid-interrupt" /\ t.target = s.proc.pid
            \/ t.method = "none"
BY DEF StopTargetForSession
-----------------------------------------------------------------------------
(* The machine and the registry move on.                                   *)

\* What runs after a step ran before it, in the same pane, or has just begun.
Continues ==
  /\ changes' = changes + 1
  /\ \A p \in Pids : procs'[p] # NoProc =>
       \/ Alive(p) /\ procs'[p].start = procs[p].start /\ procs'[p].pane = procs[p].pane
       \/ procs'[p].start = changes + 2

\* Sessions stay where they were placed: a process that has just begun is nobody's yet.
LEMMA PlacingStays ==
  ASSUME MachineIsSound, Continues, NEW s \in Sessions, Placing(s)
  PROVE  Placing(s)'
<1>1. s.proc.start \in Nat /\ (s.proc # NoId => s.proc.pid \in Pids)
  BY DEF Sessions, Known, Proper, NoId, Starts
<1>2. changes \in Nat /\ changes' = changes + 1 /\ s.proc.start < changes + 2
  BY DEF MachineIsSound, Continues, Placing
<1>3. s.proc.start < changes' + 2 /\ s.proc.start # changes + 2
  BY <1>1, <1>2
<1>4. ASSUME ~Outside, s.proc # NoId, s.loc # NoLoc, Alive(s.proc.pid)', procs'[s.proc.pid].start = s.proc.start
      PROVE  procs'[s.proc.pid].pane = s.loc.pane
  <2>1. /\ Alive(s.proc.pid) /\ procs[s.proc.pid].start = s.proc.start
        /\ procs'[s.proc.pid].pane = procs[s.proc.pid].pane
    BY <1>1, <1>3, <1>4 DEF Continues, Alive
  <2> QED
    BY <1>4, <2>1 DEF Placing
<1> QED
  BY <1>3, <1>4 DEF Placing

\* The command goes on with what it has read; only that something changed is noted.
LEMMA MoveKeepsCommand ==
  ASSUME MachineIsSound, Continues, CommandIsSound, Moves
  PROVE  CommandIsSound'
<1>1. hits' = hits /\ Targets' = Targets /\ InterruptedOnce' = InterruptedOnce
  BY DEF Moves, Targets, InterruptedOnce
<1>2. CASE cmd = Idle
  BY <1>1, <1>2 DEF Moves, CommandIsSound, ListIsSound, Idle, Commands
<1>3. CASE cmd # Idle
  <2>1. cmd \in Commands /\ cmd' = [cmd EXCEPT !.calm = FALSE]
    BY <1>3 DEF Moves, CommandIsSound, ListIsSound
  <2>2. /\ cmd' \in Commands /\ cmd'.phase = cmd.phase /\ cmd'.args = cmd.args
        /\ cmd'.todo = cmd.todo /\ cmd'.snapshot = cmd.snapshot /\ cmd'.seen = cmd.seen
        /\ ~cmd'.calm /\ cmd'.skipped = cmd.skipped /\ cmd'.failed = cmd.failed
    BY <2>1 DEF Commands
  <2>3. \A id \in Ids : cmd.snapshot[id] \in Sessions
    BY <2>1 DEF Commands
  <2>4. \A id \in Ids : Placing(cmd.snapshot[id])'
    <3> SUFFICES ASSUME NEW id \in Ids PROVE Placing(cmd.snapshot[id])'
      OBVIOUS
    <3> DEFINE s == cmd.snapshot[id]
    <3>1. Placing(s) /\ s \in Sessions
      BY <1>3, <2>3 DEF CommandIsSound, ListIsSound, SeenIsSound, TurnsAreKept
    <3> QED
      BY <2>2, <3>1, PlacingStays DEF Placing
  <2>5. (\A id \in Ids : Target(id)' = Target(id)) /\ Failures' = Failures
    BY <2>2 DEF Target, Failures
  <2>6. \A r \in cmd'.args : Named(r)'
    BY <1>3, <2>2 DEF CommandIsSound, ListIsSound, Named
  <2>7. cmd'.phase = "send" =>
          LET id == Head(cmd.todo)
          IN /\ cmd'.seen \subseteq Targets \cup Failures \cup {Target(id)'}
             /\ Target(id)' \in cmd'.seen /\ Target(id)' \notin Targets
             /\ Target(id)'.method # "none"
    <3>1. ASSUME cmd.phase = "send" PROVE Head(cmd.todo) \in Ids
      BY <1>3, <2>1, <3>1 DEF CommandIsSound, ListIsSound, Commands
    <3> QED
      BY <1>3, <2>2, <2>5, <3>1 DEF CommandIsSound, ListIsSound, SeenIsSound, TurnsAreKept
  <2>8. \A id \in cmd'.args \cap Ids :
          \/ \E i \in DOMAIN cmd'.todo : cmd'.todo[i] = id
          \/ id \in cmd'.skipped \/ Target(id)' \in Targets \cup Failures
    BY <1>3, <2>2, <2>5 DEF CommandIsSound, ListIsSound, SeenIsSound, TurnsAreKept
  <2>9. /\ IsInjective(cmd'.todo) /\ (cmd'.phase = "send" => cmd'.todo # << >>)
        /\ (cmd'.phase = "next" => cmd'.seen \subseteq Targets \cup Failures)
        /\ Targets \subseteq cmd'.seen /\ InterruptedOnce
    BY <1>3, <2>2 DEF CommandIsSound, ListIsSound, SeenIsSound, TurnsAreKept
  <2> QED
    BY <1>1, <2>2, <2>4, <2>5, <2>6, <2>7, <2>8, <2>9
       DEF CommandIsSound, ListIsSound, SeenIsSound, TurnsAreKept, Target
<1> QED
  BY <1>2, <1>3

\* One change of the machine, or of the registry.
Change ==
  \/ \E p \in Pids : Exit(p) \/ Suspend(p)
  \/ \E p \in Pids, place \in Panes \cup {Nowhere}, agent \in BOOLEAN : Begins(p, place, agent)
  \/ \E q \in Panes : Respawn(q)
  \/ \E id \in Ids, p \in Pids : HookReports(id, p)
  \/ \E id \in Ids : TrackerPlaces(id)

LEMMA ChangeContinues ==
  ASSUME StopAssumption, MachineIsSound, Change
  PROVE  Continues /\ Moves
<1>h. procs \in [Pids -> Programs \cup {NoProc}] /\ changes \in Nat
  BY DEF MachineIsSound
<1>1. Moves
  BY DEF Change, Exit, Suspend, Begins, Respawn, HookReports, TrackerPlaces
<1>2. changes' = changes + 1
  BY <1>1 DEF Moves
<1>3. CASE \E p \in Pids : Exit(p)
  BY <1>h, <1>1, <1>2, <1>3 DEF Exit, Continues, Alive
<1>4. CASE \E p \in Pids : Suspend(p)
  <2>1. PICK p \in Pids : Suspend(p)
    BY <1>4
  <2>2. Alive(p) /\ procs[p] \in Programs /\ procs' = [procs EXCEPT ![p].fg = ~@]
    BY <1>h, <2>1 DEF Suspend, Alive
  <2>3. procs'[p].start = procs[p].start /\ procs'[p].pane = procs[p].pane
    BY <1>h, <2>2 DEF Programs
  <2>4. \A q \in Pids : q # p => procs'[q] = procs[q]
    BY <1>h, <2>2
  <2>5. \A q \in Pids : procs'[q] # NoProc =>
          Alive(q) /\ procs'[q].start = procs[q].start /\ procs'[q].pane = procs[q].pane
    BY <2>2, <2>3, <2>4 DEF Alive
  <2> QED
    BY <1>1, <1>2, <2>5 DEF Continues
<1>5. CASE \E p \in Pids, place \in Panes \cup {Nowhere}, agent \in BOOLEAN : Begins(p, place, agent)
  BY <1>h, <1>1, <1>2, <1>5 DEF Begins, Proc, Continues, Alive
<1>6. CASE \E q \in Panes : Respawn(q)
  BY <1>h, <1>1, <1>2, <1>6 DEF Respawn, Continues, Alive
<1>7. CASE \/ \E id \in Ids, p \in Pids : HookReports(id, p)
           \/ \E id \in Ids : TrackerPlaces(id)
  <2>1. procs' = procs
    BY <1>7 DEF HookReports, TrackerPlaces
  <2>2. \A q \in Pids : procs'[q] # NoProc =>
          Alive(q) /\ procs'[q].start = procs[q].start /\ procs'[q].pane = procs[q].pane
    BY <2>1 DEF Alive
  <2> QED
    BY <1>1, <1>2, <2>2 DEF Continues
<1> QED
  BY <1>1, <1>3, <1>4, <1>5, <1>6, <1>7 DEF Change

\* A program is no free number.
LEMMA Running ==
  ASSUME NEW x \in Programs
  PROVE  x # NoProc
BY DEF Programs, Starts, NoProc

LEMMA ChangeSound ==
  ASSUME StopAssumption, MachineIsSound, Change
  PROVE  MachineIsSound'
<1>h. /\ procs \in [Pids -> Programs \cup {NoProc}] /\ changes \in Nat
      /\ shells \in [Panes -> Starts] /\ changes' = changes + 1
      /\ \A p \in Pids : Alive(p) => procs[p] \in Programs /\ procs[p].start < changes + 2
      /\ \A p, q \in Pids :
           /\ Alive(p) /\ procs[p].pane \in Panes /\ procs[p].fg
           /\ Alive(q) /\ procs[q].pane = procs[p].pane /\ procs[q].fg
           => p = q
      /\ ~Outside => \A p \in Pids : Alive(p) => procs[p].pane \in Panes
  BY ChangeContinues DEF MachineIsSound, Continues, Alive
<1>1. ASSUME procs' \in [Pids -> Programs \cup {NoProc}],
             shells' \in [Panes -> Starts],
             \A p \in Pids : Alive(p)' => Alive(p) /\ procs'[p] = procs[p]
      PROVE  MachineIsSound'
  <2>1. changes' \in Nat /\ \A p \in Pids : Alive(p)' => procs'[p].start < changes' + 2
    <3> SUFFICES ASSUME NEW p \in Pids, Alive(p)' PROVE procs'[p].start < changes' + 2
      BY <1>h
    <3>1. procs'[p].start \in Nat /\ procs'[p].start < changes + 2
      BY <1>h, <1>1 DEF Programs, Starts
    <3> QED
      BY <1>h, <3>1
  <2>2. ASSUME NEW p \in Pids, NEW q \in Pids,
               Alive(p)', procs'[p].pane \in Panes, procs'[p].fg,
               Alive(q)', procs'[q].pane = procs'[p].pane, procs'[q].fg
        PROVE  p = q
    BY <1>h, <1>1, <2>2
  <2>3. ~Outside => \A p \in Pids : Alive(p)' => procs'[p].pane \in Panes
    BY <1>h, <1>1
  <2> QED
    BY <1>1, <2>1, <2>2, <2>3 DEF MachineIsSound
<1>2. CASE \E p \in Pids : Exit(p)
  BY <1>h, <1>1, <1>2 DEF Exit, Alive
<1>3. CASE \E q \in Panes : Respawn(q)
  <2>1. PICK q \in Panes : Respawn(q)
    BY <1>3
  <2>2. shells' = [shells EXCEPT ![q] = @ + 1]
    BY <2>1 DEF Respawn
  <2>3. shells' \in [Panes -> Starts]
    BY <1>h, <2>2 DEF Starts
  <2>4. procs' \in [Pids -> Programs \cup {NoProc}]
    BY <1>h, <2>1 DEF Respawn
  <2>5. \A p \in Pids : Alive(p)' => Alive(p) /\ procs'[p] = procs[p]
    BY <1>h, <2>1 DEF Respawn, Alive
  <2> QED
    BY <1>1, <2>3, <2>4, <2>5
<1>4. CASE \/ \E id \in Ids, p \in Pids : HookReports(id, p)
           \/ \E id \in Ids : TrackerPlaces(id)
  <2>1. procs' = procs /\ shells' = shells
    BY <1>4 DEF HookReports, TrackerPlaces
  <2> QED
    BY <1>h, <1>1, <2>1 DEF Alive
<1>5. ASSUME NEW p \in Pids, procs' = [procs EXCEPT ![p] = procs'[p]], procs'[p] \in Programs,
             shells' = shells, procs'[p].start < changes + 3,
             procs'[p].pane \in Panes =>
               \/ ~procs'[p].fg
               \/ \A q \in Pids : Alive(q) /\ procs[q].pane = procs'[p].pane => ~procs[q].fg,
             ~Outside => procs'[p].pane \in Panes
      PROVE  MachineIsSound'
  <2>1. \A q \in Pids : q # p => procs'[q] = procs[q]
    BY <1>h, <1>5
  <2>2. procs' \in [Pids -> Programs \cup {NoProc}]
    BY <1>h, <1>5
  <2>3. \A q \in Pids : Alive(q)' => procs'[q].start < changes' + 2
    <3> SUFFICES ASSUME NEW q \in Pids, Alive(q)' PROVE procs'[q].start < changes' + 2
      OBVIOUS
    <3>1. CASE q = p
      BY <1>h, <1>5, <3>1 DEF Programs, Starts
    <3>2. CASE q # p
      <4>1. procs[q] \in Programs /\ procs[q].start < changes + 2 /\ procs'[q] = procs[q]
        BY <1>h, <2>1, <3>2 DEF Alive
      <4> QED
        BY <1>h, <4>1 DEF Programs, Starts
    <3> QED
      BY <3>1, <3>2
  <2>4. ASSUME NEW x \in Pids, NEW y \in Pids,
               Alive(x)', procs'[x].pane \in Panes, procs'[x].fg,
               Alive(y)', procs'[y].pane = procs'[x].pane, procs'[y].fg
        PROVE  x = y
    <3>1. CASE x # p /\ y # p
      BY <1>h, <2>1, <2>4, <3>1 DEF Alive
    <3>2. CASE x = p /\ y # p
      BY <1>5, <2>1, <2>4, <3>2 DEF Alive
    <3>3. CASE x # p /\ y = p
      BY <1>5, <2>1, <2>4, <3>3 DEF Alive
    <3> QED
      BY <3>1, <3>2, <3>3
  <2>5. ~Outside => \A q \in Pids : Alive(q)' => procs'[q].pane \in Panes
    BY <1>h, <1>5, <2>1 DEF Alive
  <2>6. changes' \in Nat /\ shells' \in [Panes -> Starts]
    BY <1>h, <1>5
  <2> QED
    BY <2>2, <2>3, <2>4, <2>5, <2>6 DEF MachineIsSound
<1>6. CASE \E p \in Pids : Suspend(p)
  <2>1. PICK p \in Pids : Suspend(p)
    BY <1>6
  <2>2. /\ Alive(p) /\ procs[p] \in Programs /\ procs' = [procs EXCEPT ![p].fg = ~@]
        /\ procs[p].pane \in Panes /\ shells' = shells
        /\ procs[p].fg \/ Free(procs[p].pane)
    BY <1>h, <2>1 DEF Suspend
  <2>3. /\ procs'[p] \in Programs /\ procs'[p].start = procs[p].start
        /\ procs'[p].pane = procs[p].pane /\ procs'[p].fg = ~procs[p].fg
        /\ procs' = [procs EXCEPT ![p] = procs'[p]]
    BY <1>h, <2>2 DEF Programs
  <2>4. ~procs[p].fg => \A q \in Pids : Alive(q) /\ procs[q].pane = procs[p].pane => ~procs[q].fg
    BY <2>2, FreeIsEmpty
  <2>5. procs'[p].start < changes + 3
    <3>1. procs[p].start \in Nat /\ procs[p].start < changes + 2
      BY <1>h, <2>2 DEF Programs, Starts
    <3> QED
      BY <1>h, <2>3, <3>1
  <2> QED
    BY <1>5, <2>2, <2>3, <2>4, <2>5
<1>7. CASE \E p \in Pids, place \in Panes \cup {Nowhere}, agent \in BOOLEAN : Begins(p, place, agent)
  <2>1. PICK p \in Pids, place \in Panes \cup {Nowhere}, agent \in BOOLEAN : Begins(p, place, agent)
    BY <1>7
  <2>2. /\ procs' = [procs EXCEPT ![p] = Proc(changes + 2, place, TRUE, agent)]
        /\ Free(place) /\ (place = Nowhere => Outside) /\ shells' = shells
    BY <2>1 DEF Begins
  <2>3. procs'[p] = Proc(changes + 2, place, TRUE, agent)
    BY <1>h, <2>2
  <2>4. procs'[p] \in Programs /\ procs'[p].start = changes + 2 /\ procs'[p].pane = place
    BY <1>h, <2>3 DEF Proc, Programs, Starts
  <2>5. place \in Panes =>
          \A q \in Pids : Alive(q) /\ procs[q].pane = place => ~procs[q].fg
    BY <2>2, FreeIsEmpty
  <2>6. ~Outside => place \in Panes
    BY <2>2
  <2>7. procs'[p].start < changes + 3
    BY <1>h, <2>4
  <2> QED
    BY <1>5, <2>2, <2>3, <2>4, <2>5, <2>6, <2>7
<1> QED
  BY <1>2, <1>3, <1>4, <1>6, <1>7 DEF Change
\* Hooks and the tracker give a session the pane its process is in.
LEMMA ChangePlaces ==
  ASSUME StopAssumption, MachineIsSound, SessionsArePlaced, Change
  PROVE  SessionsArePlaced'
<1>h. /\ procs \in [Pids -> Programs \cup {NoProc}] /\ shells \in [Panes -> Starts]
      /\ changes \in Nat /\ sessions \in [Ids -> Sessions]
      /\ \A p \in Pids : Alive(p) => procs[p] \in Programs /\ procs[p].start < changes + 2
      /\ ~Outside => \A p \in Pids : Alive(p) => procs[p].pane \in Panes
      /\ Nowhere \notin Panes /\ Continues
  BY ChangeContinues DEF MachineIsSound, SessionsArePlaced, Alive, StopAssumption, Nowhere
<1>1. \A id \in Ids : Placing(sessions[id])'  \/ sessions'[id] # sessions[id]
  <2> SUFFICES ASSUME NEW id \in Ids, sessions'[id] = sessions[id] PROVE Placing(sessions[id])'
    OBVIOUS
  <2>1. sessions[id] \in Sessions /\ Placing(sessions[id])
    BY <1>h DEF SessionsArePlaced
  <2> DEFINE s == sessions[id]
  <2>2. /\ s.proc.start < changes' + 2
        /\ ~Outside /\ s.proc # NoId /\ s.loc # NoLoc /\ procs'[s.proc.pid] # NoProc
             /\ procs'[s.proc.pid].start = s.proc.start
             => procs'[s.proc.pid].pane = s.loc.pane
    <3> HIDE DEF s
    <3> QED
      BY <1>h, <2>1, PlacingStays DEF Placing, Alive, s
  <2> QED
    BY <2>2 DEF Placing, Alive
<1>2. CASE sessions' = sessions
  BY <1>1, <1>2, <1>h DEF SessionsArePlaced
<1>3. ASSUME NEW p \in Pids, Alive(p)
      PROVE  Placed(p) \in Places /\ (~Outside => Placed(p).pane = procs[p].pane /\ Placed(p) # NoLoc)
  <2>1. procs[p].pane \in Panes \cup {Nowhere} /\ (~Outside => procs[p].pane \in Panes)
    BY <1>h, <1>3 DEF Programs
  <2>2. CASE procs[p].pane = Nowhere
    <3>1. Placed(p) = NoLoc
      BY <2>2 DEF Placed
    <3> QED
      BY <1>h, <2>1, <2>2, <3>1 DEF Places
  <2>3. CASE procs[p].pane # Nowhere
    <3> DEFINE place == [pane |-> procs[p].pane, shell |-> shells[procs[p].pane]]
    <3>1. Placed(p) = place /\ place.pane = procs[p].pane /\ NoLoc.pane = Nowhere
      BY <2>3 DEF Placed, NoLoc
    <3>2. place \in Places
      BY <1>h, <2>1, <2>3 DEF Places
    <3>3. place # NoLoc
      BY <2>3, <3>1
    <3> QED
      BY <3>1, <3>2, <3>3
  <2> QED
    BY <2>2, <2>3
<1>4. ASSUME NEW id \in Ids, NEW s \in Sessions, sessions' = [sessions EXCEPT ![id] = s],
             procs' = procs, s.proc.pid \in Pids, Alive(s.proc.pid),
             s.proc.start = procs[s.proc.pid].start,
             ~Outside => s.loc = Placed(s.proc.pid)
      PROVE  SessionsArePlaced'
  <2>1. sessions' \in [Ids -> Sessions] /\ sessions'[id] = s
    BY <1>h, <1>4
  <2>2. s.proc.pid \in Pids
    BY <1>4
  <2>3. s.proc.start < changes' + 2
    <3>1. procs[s.proc.pid].start \in Nat /\ procs[s.proc.pid].start < changes + 2
      BY <1>h, <1>4, <2>2 DEF Programs, Starts
    <3>2. changes' = changes + 1
      BY <1>h DEF Continues
    <3> QED
      BY <1>h, <1>4, <3>1, <3>2
  <2>4. ~Outside => procs[s.proc.pid].pane = s.loc.pane
    BY <1>3, <1>4, <2>2
  <2>5. Placing(sessions[id])'
    BY <1>4, <2>1, <2>3, <2>4 DEF Placing
  <2>6. \A other \in Ids : other # id => Placing(sessions[other])'
    BY <1>1, <1>4, <1>h
  <2> QED
    BY <2>1, <2>5, <2>6 DEF SessionsArePlaced
<1>5. CASE \E id \in Ids, p \in Pids : HookReports(id, p)
  <2>1. PICK id \in Ids, p \in Pids : HookReports(id, p)
    BY <1>5
  <2> DEFINE s == [live |-> TRUE, proc |-> [pid |-> p, start |-> procs[p].start], fg |-> TRUE,
                   own |-> sessions[id].own,
                   loc |-> IF Placed(p) = NoLoc THEN sessions[id].loc ELSE Placed(p)]
  <2>2. Alive(p) /\ procs' = procs /\ sessions' = [sessions EXCEPT ![id] = s]
    BY <2>1 DEF HookReports
  <2>3. sessions[id].own \in BOOLEAN /\ sessions[id].loc \in Places /\ procs[p].start \in Starts
    BY <1>h, <2>2 DEF Sessions, Programs
  <2>4. s \in Sessions
    BY <1>3, <2>2, <2>3 DEF Sessions, Known, Proper
  <2>5. s.proc.pid = p /\ s.proc.start = procs[p].start /\ (~Outside => s.loc = Placed(p))
    BY <1>3, <2>2
  <2> HIDE DEF s
  <2> QED
    BY <1>4, <2>2, <2>4, <2>5
<1>6. CASE \E id \in Ids : TrackerPlaces(id)
  <2>1. PICK id \in Ids : TrackerPlaces(id)
    BY <1>6
  <2> DEFINE old == sessions[id]
             p == old.proc.pid
             s == [old EXCEPT !.loc = Placed(p), !.fg = procs[p].fg, !.live = TRUE]
  <2>2. /\ ProcessIsOurs(old.proc) /\ procs' = procs /\ sessions' = [sessions EXCEPT ![id] = s]
    BY <2>1 DEF TrackerPlaces
  <2>3. old \in Sessions /\ p \in Pids /\ Alive(p) /\ old.proc.start = procs[p].start
    BY <1>h, <2>2 DEF ProcessIsOurs, Sessions, Known, Proper
  <2>4. procs[p].fg \in BOOLEAN /\ Placed(p) \in Places
    BY <1>h, <1>3, <2>3 DEF Programs
  <2> HIDE DEF old
  <2>5. s \in Sessions /\ s.proc = old.proc /\ s.loc = Placed(p)
    BY <2>3, <2>4 DEF Sessions
  <2> HIDE DEF p, s
  <2>6. s.proc.pid = p
    BY <2>5 DEF p
  <2>7. s.proc.pid \in Pids
    BY <2>3, <2>6
  <2> QED
    BY <1>4, <2>2, <2>3, <2>5, <2>6, <2>7
<1> QED
  BY <1>2, <1>5, <1>6 DEF Change, Exit, Suspend, Begins, Respawn

-----------------------------------------------------------------------------
(* The command goes on.                                                    *)

LEMMA TailFacts ==
  ASSUME NEW s \in Seq(Ids), s # << >>, IsInjective(s)
  PROVE  /\ Head(s) \in Ids /\ Tail(s) \in Seq(Ids) /\ IsInjective(Tail(s))
         /\ \A i \in DOMAIN s : s[i] = Head(s) \/ \E j \in DOMAIN Tail(s) : Tail(s)[j] = s[i]
<1>1. /\ Head(s) = s[1] /\ Head(s) \in Ids /\ Tail(s) \in Seq(Ids) /\ Len(s) \in Nat
      /\ DOMAIN s = 1..Len(s) /\ DOMAIN Tail(s) = 1..Len(s) - 1
      /\ \A j \in 1..Len(s) - 1 : Tail(s)[j] = s[j + 1]
  OBVIOUS
<1>2. IsInjective(Tail(s))
  <2> SUFFICES ASSUME NEW a \in 1..Len(s) - 1, NEW b \in 1..Len(s) - 1, Tail(s)[a] = Tail(s)[b]
               PROVE  a = b
    BY <1>1 DEF IsInjective
  <2>1. s[a + 1] = s[b + 1] /\ a + 1 \in DOMAIN s /\ b + 1 \in DOMAIN s
    BY <1>1
  <2>2. a + 1 = b + 1
    BY <2>1 DEF IsInjective
  <2> QED
    BY <1>1, <2>2
<1>3. ASSUME NEW i \in DOMAIN s, i # 1 PROVE \E j \in DOMAIN Tail(s) : Tail(s)[j] = s[i]
  <2>1. i - 1 \in 1..Len(s) - 1 /\ s[(i - 1) + 1] = s[i]
    BY <1>1, <1>3
  <2> QED
    BY <1>1, <2>1
<1> QED
  BY <1>1, <1>2, <1>3

\* A step of the command leaves machine and registry alone.
LEMMA CommandFrame ==
  ASSUME UNCHANGED <<procs, shells, sessions, changes>>
  PROVE  /\ MachineIsSound => MachineIsSound'
         /\ SessionsArePlaced => SessionsArePlaced'
<1>1. MachineIsSound => MachineIsSound'
  BY DEF MachineIsSound, Alive
<1>2. SessionsArePlaced => SessionsArePlaced'
  BY DEF SessionsArePlaced, Placing, Alive
<1> QED
  BY <1>1, <1>2

LEMMA BeginKeeps ==
  ASSUME SessionsArePlaced, NEW all \in BOOLEAN, NEW args \in SUBSET References,
         Begin(all, args)
  PROVE  CommandIsSound' /\ hits' = {}
<1> DEFINE r == IF all THEN [ok |-> TRUE, ids |-> {id \in Ids : sessions[id].live}]
                ELSE ResolveStopSessions(args)
<1>1. /\ hits' = {} /\ UNCHANGED <<procs, shells, sessions, changes>> /\ (all <=> args = {})
      /\ cmd' = IF r.ok THEN [phase |-> "next", args |-> args, todo |-> Sorted(r.ids),
                              snapshot |-> sessions, seen |-> {}, calm |-> TRUE, skipped |-> {},
                              failed |-> {}]
                ELSE Idle
  BY DEF Begin
<1>2. r.ok => /\ r.ids \subseteq Ids
              /\ \A x \in args : Named(x)
              /\ args \cap Ids \subseteq r.ids
  <2>1. CASE all
    BY <1>1, <2>1
  <2>2. CASE ~all
    <3>1. r = ResolveStopSessions(args)
      BY <2>2
    <3>3. CASE \A x \in args : ResolveWithReference(x) # << >>
      <4>1. r.ids = {ResolveWithReference(x) : x \in args}
        BY <3>1, <3>3 DEF ResolveStopSessions
      <4>2. \A x \in args : /\ ResolveWithReference(x) \in Ids /\ Named(x)
                            /\ x \in Ids => ResolveWithReference(x) = x
        BY <3>3, ResolutionFacts
      <4> HIDE DEF r
      <4>3. r.ids \subseteq Ids
        BY <4>1, <4>2
      <4>4. args \cap Ids \subseteq r.ids
        BY <4>1, <4>2
      <4> QED
        BY <4>2, <4>3, <4>4
    <3> HIDE DEF r
    <3>4. r.ok = (\A x \in args : ResolveWithReference(x) # << >>)
      BY <3>1 DEF ResolveStopSessions
    <3> QED
      BY <3>3, <3>4
  <2> QED
    BY <2>1, <2>2
<1> HIDE DEF r
<1>3. CASE ~r.ok
  BY <1>1, <1>3 DEF CommandIsSound
<1>4. CASE r.ok
  <2>1. /\ Sorted(r.ids) \in Seq(Ids) /\ IsInjective(Sorted(r.ids))
        /\ \A id \in r.ids : \E i \in DOMAIN Sorted(r.ids) : Sorted(r.ids)[i] = id
    BY <1>2, <1>4, SortedFacts
  <2>2. /\ cmd'.phase = "next" /\ cmd'.args = args /\ cmd'.todo = Sorted(r.ids)
        /\ cmd'.snapshot = sessions /\ cmd'.seen = {} /\ cmd'.calm = TRUE /\ cmd'.skipped = {}
        /\ cmd'.failed = {}
    BY <1>1, <1>4
  <2>3. sessions \in [Ids -> Sessions] /\ \A id \in Ids : Placing(sessions[id])
    BY DEF SessionsArePlaced
  <2>4. cmd' \in Commands
    BY <1>1, <1>4, <2>1, <2>3 DEF Commands
  <2>5. \A id \in Ids : Placing(cmd.snapshot[id])'
    BY <1>1, <2>2, <2>3 DEF Placing, Alive
  <2>6. Targets' = {} /\ InterruptedOnce'
    BY <1>1 DEF Targets, InterruptedOnce
  <2>7. \A x \in cmd'.args : Named(x)'
    BY <1>2, <1>4, <2>2 DEF Named
  <2>8. \A id \in cmd'.args \cap Ids : \E i \in DOMAIN cmd'.todo : cmd'.todo[i] = id
    BY <1>2, <1>4, <2>1, <2>2
  <2>9. cmd'.phase # "send" /\ cmd'.seen = Targets' /\ IsInjective(cmd'.todo)
    BY <2>1, <2>2, <2>6
  <2>10. ListIsSound'
    BY <2>4, <2>5, <2>7, <2>9 DEF ListIsSound
  <2>11. SeenIsSound'
    BY <2>9 DEF SeenIsSound
  <2>12. TurnsAreKept'
    BY <2>8 DEF TurnsAreKept
  <2> QED
    BY <1>1, <2>6, <2>10, <2>11, <2>12 DEF CommandIsSound
<1> QED
  BY <1>1, <1>3, <1>4

\* What the command is about when it validates or interrupts.
LEMMA HeadFacts ==
  ASSUME CommandIsSound, cmd.phase # "idle", cmd.todo # << >>
  PROVE  /\ ListIsSound /\ SeenIsSound /\ TurnsAreKept /\ InterruptedOnce
         /\ cmd \in Commands /\ cmd.todo \in Seq(Ids) /\ Head(cmd.todo) \in Ids
         /\ cmd.snapshot[Head(cmd.todo)] \in Sessions
         /\ Placing(cmd.snapshot[Head(cmd.todo)])
         /\ Target(Head(cmd.todo)) \in {StopTargetForSession(s) : s \in Sessions}
<1>1. ListIsSound /\ SeenIsSound /\ TurnsAreKept /\ InterruptedOnce
  BY DEF CommandIsSound, Idle
<1>2. cmd \in Commands /\ cmd.todo \in Seq(Ids) /\ cmd.snapshot \in [Ids -> Sessions]
  BY <1>1 DEF ListIsSound, Commands
<1>3. Head(cmd.todo) \in Ids
  BY <1>2
<1>4. cmd.snapshot[Head(cmd.todo)] \in Sessions /\ Placing(cmd.snapshot[Head(cmd.todo)])
  BY <1>1, <1>2, <1>3 DEF ListIsSound
<1> QED
  BY <1>1, <1>2, <1>3, <1>4 DEF Target

\* One who had his turn stays out of the list: he was skipped or interrupted.
LEMMA TailKeepsTurns ==
  ASSUME CommandIsSound, cmd.phase # "idle", cmd.todo # << >>,
         cmd'.args = cmd.args, cmd'.snapshot = cmd.snapshot, cmd'.todo = Tail(cmd.todo),
         cmd.skipped \subseteq cmd'.skipped, Targets \subseteq Targets',
         cmd.failed \subseteq cmd'.failed,
         \/ Head(cmd.todo) \in cmd'.skipped \cup cmd'.failed
         \/ Target(Head(cmd.todo)) \in Targets' \cup Failures
  PROVE  TurnsAreKept'
<1> SUFFICES ASSUME NEW id \in Ids, id \in cmd.args
             PROVE  \/ \E i \in DOMAIN cmd'.todo : cmd'.todo[i] = id
                    \/ id \in cmd'.skipped \/ Target(id)' \in Targets' \cup Failures'
  BY DEF TurnsAreKept
<1>1. \A x \in Ids : Target(x)' = Target(x)
  BY DEF Target
<1>f. Failures \subseteq Failures' /\ \A x \in cmd'.failed : Target(x) \in Failures'
  BY DEF Failures, Target
<1>2. TurnsAreKept /\ cmd.todo \in Seq(Ids) /\ IsInjective(cmd.todo)
  BY HeadFacts DEF ListIsSound
<1>3. CASE id \in cmd.skipped \/ Target(id) \in Targets \cup Failures
  BY <1>1, <1>f, <1>3
<1>4. CASE \E i \in DOMAIN cmd.todo : cmd.todo[i] = id
  <2>1. PICK i \in DOMAIN cmd.todo : cmd.todo[i] = id
    BY <1>4
  <2>2. id = Head(cmd.todo) \/ \E j \in DOMAIN Tail(cmd.todo) : Tail(cmd.todo)[j] = id
    BY <1>2, <2>1, TailFacts
  <2> QED
    BY <1>1, <1>f, <2>2
<1> QED
  BY <1>2, <1>3, <1>4 DEF TurnsAreKept

\* The list that is left is sound, in whatever phase.
LEMMA TailKeepsList ==
  ASSUME ListIsSound, cmd' \in Commands, cmd.todo # << >>, UNCHANGED <<procs, changes>>,
         cmd'.args = cmd.args, cmd'.snapshot = cmd.snapshot,
         \/ cmd'.phase = "next" /\ cmd'.todo = Tail(cmd.todo)
         \/ cmd'.todo = cmd.todo
  PROVE  ListIsSound'
<1>1. cmd.todo \in Seq(Ids) /\ IsInjective(cmd.todo)
  BY DEF ListIsSound, Commands
<1>2. IsInjective(Tail(cmd.todo))
  BY <1>1, TailFacts
<1>3. IsInjective(cmd'.todo) /\ (cmd'.phase = "send" => cmd'.todo # << >>)
  BY <1>1, <1>2
<1>4. \A id \in Ids : Placing(cmd.snapshot[id])'
  BY DEF ListIsSound, Placing, Alive
<1>5. \A r \in cmd'.args : Named(r)'
  BY DEF ListIsSound, Named
<1> QED
  BY <1>3, <1>4, <1>5 DEF ListIsSound
LEMMA ValidateKeeps ==
  ASSUME CommandIsSound, NEW fails \in BOOLEAN, Validate(fails)
  PROVE  CommandIsSound' /\ hits' = hits
<1> DEFINE id    == Head(cmd.todo)
           s     == cmd.snapshot[id]
           t     == Target(id)
           valid == s.live /\ t.method # "none" /\ ~fails /\ ValidateStopTarget(s, t)
           first == t \notin cmd.seen
           seen  == IF valid THEN cmd.seen \cup {t} ELSE cmd.seen
<1>1. /\ cmd.phase = "next" /\ cmd.todo # << >>
      /\ UNCHANGED <<procs, shells, sessions, hits, changes>>
      /\ cmd' = [cmd EXCEPT !.phase = IF valid /\ first THEN "send" ELSE "next",
                            !.todo = IF valid /\ first THEN @ ELSE Tail(@),
                            !.skipped = IF valid \/ fails THEN @ ELSE @ \cup {id},
                            !.seen = IF s.live /\ t.method # "none" THEN SeenAfter(@, t, valid)
                                     ELSE @,
                            !.calm = TRUE, !.failed = IF fails THEN @ \cup {id} ELSE @]
  BY DEF Validate, Target
<1>2. /\ ListIsSound /\ SeenIsSound /\ TurnsAreKept /\ InterruptedOnce
      /\ cmd \in Commands /\ cmd.todo \in Seq(Ids) /\ id \in Ids
      /\ t \in {StopTargetForSession(x) : x \in Sessions}
  BY <1>1, HeadFacts
<1>3. /\ Targets' = Targets /\ InterruptedOnce'
      /\ Targets \subseteq cmd.seen /\ cmd.seen \subseteq Targets \cup Failures
  BY <1>1, <1>2 DEF Targets, InterruptedOnce, SeenIsSound
<1>4. /\ cmd'.phase = (IF valid /\ first THEN "send" ELSE "next") /\ cmd'.args = cmd.args
      /\ cmd'.todo = (IF valid /\ first THEN cmd.todo ELSE Tail(cmd.todo))
      /\ cmd'.snapshot = cmd.snapshot /\ cmd'.calm
      /\ cmd'.skipped = (IF valid \/ fails THEN cmd.skipped ELSE cmd.skipped \cup {id})
      /\ cmd'.seen = seen
      /\ cmd'.failed = (IF fails THEN cmd.failed \cup {id} ELSE cmd.failed)
  BY <1>1, <1>2 DEF Commands, SeenAfter
<1>5. /\ valid => s.live /\ t.method # "none" /\ ~fails /\ ValidateStopTarget(s, t)
      /\ t = StopTargetForSession(s)
  BY DEF Target
<1> HIDE DEF valid
<1>6. seen \subseteq cmd.seen \cup {t} /\ seen = (IF valid THEN cmd.seen \cup {t} ELSE cmd.seen)
  OBVIOUS
<1> HIDE DEF seen
<1>7. cmd'.phase \in {"next", "send"} /\ cmd'.calm \in BOOLEAN /\ cmd'.todo \in Seq(Ids)
  <2>1. Tail(cmd.todo) \in Seq(Ids)
    BY <1>1, <1>2
  <2>2. cmd'.calm = TRUE
    BY <1>1, <1>2, SMTT(20) DEF Commands
  <2> QED
    BY <1>2, <1>4, <2>1, <2>2
<1>8. cmd' \in Commands
  <2>1. /\ cmd'.skipped \subseteq Ids /\ cmd'.failed \subseteq Ids
        /\ cmd'.seen \subseteq {StopTargetForSession(x) : x \in Sessions}
    <3>1. /\ cmd.skipped \subseteq Ids /\ cmd.failed \subseteq Ids
          /\ cmd.seen \subseteq {StopTargetForSession(x) : x \in Sessions}
      BY <1>2 DEF Commands
    <3> QED
      BY <1>2, <1>4, <1>6, <3>1
  <2> QED
    BY <1>1, <1>2, <1>7, <2>1 DEF Commands
<1>9. ListIsSound'
  <2>1. (cmd'.phase = "next" /\ cmd'.todo = Tail(cmd.todo)) \/ cmd'.todo = cmd.todo
    BY <1>4
  <2> QED
    BY <1>1, <1>2, <1>4, <1>8, <2>1, TailKeepsList
<1>f. /\ \A x \in Ids : Target(x)' = Target(x)
      /\ cmd.failed \subseteq cmd'.failed /\ Failures \subseteq Failures'
  BY <1>4 DEF Target, Failures
<1>10. CASE valid /\ first
  <2>1. /\ cmd'.phase = "send" /\ cmd'.todo = cmd.todo /\ cmd'.skipped = cmd.skipped
        /\ cmd'.seen = cmd.seen \cup {t} /\ t \notin Targets
    BY <1>3, <1>4, <1>6, <1>10
  <2>2. Head(cmd'.todo) = id /\ Target(id)' = t
    BY <1>2, <1>f, <2>1
  <2>3. TurnsAreKept'
    <3> SUFFICES ASSUME NEW x \in cmd.args \cap Ids
                 PROVE  \/ \E i \in DOMAIN cmd.todo : cmd.todo[i] = x
                        \/ x \in cmd.skipped \/ Target(x) \in Targets \cup Failures'
      <4>1. /\ cmd'.args = cmd.args /\ cmd'.todo = cmd.todo /\ cmd'.skipped = cmd.skipped
            /\ Targets' = Targets /\ \A x \in Ids : Target(x)' = Target(x)
        BY <1>3, <1>4, <1>f, <2>1
      <4> QED
        BY <4>1 DEF TurnsAreKept
    <3> QED
      BY <1>2, <1>f DEF TurnsAreKept
  <2>4. ValidateStopTarget(cmd.snapshot[id], t)'
    <3>1. ValidateStopTarget(s, t) /\ s' = s /\ t' = t
      BY <1>4, <1>5, <1>10, <2>1, <2>2
    <3>2. UNCHANGED <<procs, shells>>
      BY <1>1
    <3> HIDE DEF s, t
    <3>3. ValidateStopTarget(s, t)'
      BY <3>1, <3>2
         DEF ValidateStopTarget, ValidTmux, TmuxTargetMatchesSession, ProcessIsOurs,
             InForeground, Alive
    <3> QED
      BY <3>3 DEF s
  <2>5. SeenIsSound'
    BY <1>3, <1>5, <1>10, <1>f, <2>1, <2>2, <2>4 DEF SeenIsSound
  <2> QED
    BY <1>1, <1>3, <1>9, <2>3, <2>5 DEF CommandIsSound
<1>11. CASE ~(valid /\ first)
  <2>1. cmd'.phase = "next" /\ cmd'.todo = Tail(cmd.todo)
    BY <1>4, <1>11
  <2>2. id \in cmd'.skipped \cup cmd'.failed \/ t \in Targets' \cup Failures
    BY <1>3, <1>4, <1>11
  <2>3. cmd.skipped \subseteq cmd'.skipped /\ cmd.failed \subseteq cmd'.failed
    BY <1>4
  <2>4. TurnsAreKept'
    BY <1>1, <1>3, <1>4, <2>1, <2>2, <2>3, TailKeepsTurns
  <2>5. cmd'.seen = cmd.seen
    BY <1>4, <1>6, <1>11
  <2>6. SeenIsSound'
    BY <1>3, <1>f, <2>1, <2>5 DEF SeenIsSound
  <2> QED
    BY <1>1, <1>3, <1>9, <2>4, <2>6 DEF CommandIsSound
<1> QED
  BY <1>10, <1>11

\* What an interrupt reaches whose target is valid at this moment.
LEMMA GotIsWanted ==
  ASSUME MachineIsSound, ~Outside, NEW s \in Sessions, Placing(s), s.proc # NoId,
         StopTargetForSession(s).method # "none",
         ValidateStopTarget(s, StopTargetForSession(s))
  PROVE  LET t == StopTargetForSession(s)
         IN s.proc = IF t.method = "tmux-interrupt" THEN InFront(t.target)
                     ELSE [pid |-> t.target, start |-> procs[t.target].start]
<1> DEFINE t == StopTargetForSession(s)
           p == s.proc.pid
<1>1. /\ s.proc \in Proper /\ p \in Pids /\ s.proc = [pid |-> p, start |-> s.proc.start]
      /\ s.loc \in Places
  BY DEF Sessions, Known, Proper
<1>2. CASE t.method = "tmux-interrupt"
  <2>1. s.loc # NoLoc /\ t.target = s.loc.pane
    BY <1>2, TargetFacts
  <2>2. ProcessIsOurs(s.proc) /\ InForeground(s.proc)
    BY <1>2 DEF ValidateStopTarget, ValidTmux
  <2>3. Alive(p) /\ procs[p].start = s.proc.start /\ procs[p].fg
    BY <2>2 DEF ProcessIsOurs, InForeground
  <2>4. procs[p].pane \in Panes /\ procs[p].pane = s.loc.pane
    BY <1>1, <2>1, <2>3 DEF Placing, MachineIsSound
  <2>5. InFront(procs[p].pane) = [pid |-> p, start |-> procs[p].start]
    BY <1>1, <2>3, <2>4, InFrontOf
  <2> QED
    BY <1>1, <1>2, <2>1, <2>3, <2>4, <2>5
<1>3. CASE t.method # "tmux-interrupt"
  <2>1. t.target = p
    BY <1>3, TargetFacts
  <2>2. Alive(p) /\ procs[p].start = s.proc.start
    BY <1>3 DEF ValidateStopTarget, ProcessIsOurs
  <2> QED
    BY <1>1, <1>3, <2>1, <2>2
<1> QED
  BY <1>2, <1>3

LEMMA SendKeeps ==
  ASSUME MachineIsSound, CommandIsSound, HitsAreMeant, NEW fails \in BOOLEAN,
         SendStopSignal(fails)
  PROVE  CommandIsSound' /\ HitsAreMeant'
<1> DEFINE id  == Head(cmd.todo)
           s   == cmd.snapshot[id]
           t   == Target(id)
           got == IF t.method = "tmux-interrupt" THEN InFront(t.target)
                  ELSE [pid |-> t.target, start |-> procs[t.target].start]
           hit == [id |-> id, target |-> t, wanted |-> s.proc, got |-> got, calm |-> cmd.calm]
<1>1. /\ cmd.phase = "send" /\ hits' = IF fails THEN hits ELSE hits \cup {hit}
      /\ cmd' = [cmd EXCEPT !.phase = "next", !.todo = Tail(@),
                            !.failed = IF fails THEN @ \cup {id} ELSE @]
      /\ UNCHANGED <<procs, shells, sessions, changes>>
  BY DEF SendStopSignal, Target
<1>2. cmd.todo # << >>
  BY <1>1 DEF CommandIsSound, ListIsSound, Idle
<1>3. /\ ListIsSound /\ SeenIsSound /\ TurnsAreKept /\ InterruptedOnce
      /\ cmd \in Commands /\ cmd.todo \in Seq(Ids) /\ id \in Ids
      /\ s \in Sessions /\ Placing(s)
  BY <1>1, <1>2, HeadFacts
<1>4. /\ cmd.seen \subseteq Targets \cup Failures \cup {t} /\ Targets \subseteq cmd.seen
      /\ t \in cmd.seen /\ t \notin Targets /\ t.method # "none"
      /\ cmd.calm => ValidateStopTarget(s, t)
  BY <1>1, <1>3 DEF SeenIsSound
<1>5. hit.target = t /\ hit.wanted = s.proc /\ hit.got = got /\ hit.calm = cmd.calm
  OBVIOUS
<1> HIDE DEF hit
<1>6. Targets' = IF fails THEN Targets ELSE Targets \cup {t}
  BY <1>1, <1>5 DEF Targets
<1>7. InterruptedOnce'
  <2> SUFFICES ASSUME NEW x \in hits', NEW y \in hits', x.target = y.target PROVE x = y
    BY DEF InterruptedOnce
  <2>1. \A z \in hits : z.target # t
    BY <1>4 DEF Targets
  <2> QED
    BY <1>1, <1>3, <1>5, <2>1 DEF InterruptedOnce
<1>8. HitsAreMeant'
  <2> SUFFICES ASSUME ~Outside, NEW x \in hits', x.calm, x.wanted # NoId PROVE x.got = x.wanted
    BY DEF HitsAreMeant, InterruptHitsAgent
  <2>1. CASE x \in hits
    BY <2>1 DEF HitsAreMeant, InterruptHitsAgent
  <2>2. CASE x = hit
    <3>1. ValidateStopTarget(s, t) /\ t = StopTargetForSession(s) /\ s.proc # NoId
      BY <1>4, <1>5, <2>2 DEF Target
    <3>2. got = s.proc
      <4> HIDE DEF s
      <4> QED
        BY <1>3, <1>4, <3>1, GotIsWanted
    <3> QED
      BY <1>5, <2>2, <3>2
  <2> QED
    BY <1>1, <2>1, <2>2
<1>9. /\ cmd'.phase = "next" /\ cmd'.args = cmd.args /\ cmd'.todo = Tail(cmd.todo)
      /\ cmd'.snapshot = cmd.snapshot /\ cmd'.seen = cmd.seen /\ cmd'.skipped = cmd.skipped
      /\ cmd'.failed = IF fails THEN cmd.failed \cup {id} ELSE cmd.failed
  BY <1>1, <1>3 DEF Commands
<1>10. cmd' \in Commands
  <2>1. Tail(cmd.todo) \in Seq(Ids)
    BY <1>2, <1>3
  <2> QED
    BY <1>1, <1>3, <2>1 DEF Commands
<1>11. ListIsSound'
  BY <1>1, <1>2, <1>3, <1>9, <1>10, TailKeepsList
<1>12. /\ \A x \in Ids : Target(x)' = Target(x)
       /\ cmd.failed \subseteq cmd'.failed /\ Failures \subseteq Failures'
  BY <1>9 DEF Target, Failures
<1>13. fails => t \in Failures'
  BY <1>3, <1>9, <1>12 DEF Failures
<1>14. SeenIsSound'
  BY <1>4, <1>6, <1>9, <1>12, <1>13 DEF SeenIsSound
<1>15. TurnsAreKept'
  <2>1. /\ Targets \subseteq Targets'
        /\ id \in cmd'.skipped \cup cmd'.failed \/ t \in Targets' \cup Failures
    BY <1>6, <1>9
  <2> QED
    BY <1>1, <1>2, <1>9, <1>12, <2>1, TailKeepsTurns
<1> QED
  BY <1>7, <1>8, <1>11, <1>14, <1>15 DEF CommandIsSound
-----------------------------------------------------------------------------
(* The theorems.                                                           *)

LEMMA InitSound ==
  ASSUME StopAssumption, Init
  PROVE  StopInv
<1> DEFINE Fresh(p, place, own) ==
             [live : BOOLEAN, proc : {NoId, [pid |-> p, start |-> 1]}, own : {own},
              loc : {NoLoc, [pane |-> place, shell |-> 1]}, fg : {TRUE}]
<1>1. PICK p \in Pids, place \in Panes :
        /\ procs = [x \in Pids |-> IF x = p THEN Proc(1, place, TRUE, TRUE) ELSE NoProc]
        /\ \E own \in BOOLEAN : sessions \in [Ids -> Fresh(p, place, own)]
  BY DEF Init
<1>2. PICK own \in BOOLEAN : sessions \in [Ids -> Fresh(p, place, own)]
  BY <1>1
<1> HIDE DEF Fresh
<1>3. /\ shells = [q \in Panes |-> 1] /\ cmd = Idle /\ hits = {} /\ changes = 0
      /\ Nowhere \notin Panes
  BY DEF Init, StopAssumption, Nowhere
<1>4. /\ procs = [x \in Pids |-> IF x = p THEN Proc(1, place, TRUE, TRUE) ELSE NoProc]
      /\ p \in Pids /\ place \in Panes
  BY <1>1
<1>5. Proc(1, place, TRUE, TRUE) \in Programs
  BY <1>4 DEF Proc, Programs, Starts
<1>6. /\ \A q \in Pids : Alive(q) => q = p
      /\ procs[p].start = 1 /\ procs[p].pane = place
  BY <1>4 DEF Alive, Proc
<1>7. MachineIsSound
  <2>1. procs \in [Pids -> Programs \cup {NoProc}]
    BY <1>4, <1>5
  <2>2. shells \in [Panes -> Starts]
    BY <1>3 DEF Starts
  <2>3. \A q \in Pids : Alive(q) => procs[q].start < changes + 2 /\ procs[q].pane \in Panes
    <3> SUFFICES ASSUME NEW q \in Pids, Alive(q)
                 PROVE  procs[q].start < changes + 2 /\ procs[q].pane \in Panes
      OBVIOUS
    <3>1. procs[q].start = 1 /\ procs[q].pane = place
      BY <1>6
    <3>2. changes = 0 /\ place \in Panes
      BY <1>3, <1>4
    <3> QED
      BY <3>1, <3>2
  <2> QED
    BY <1>3, <1>6, <2>1, <2>2, <2>3 DEF MachineIsSound
<1>8. SessionsArePlaced
  <2>1. [pane |-> place, shell |-> 1] \in Places /\ NoLoc \in Places
    BY <1>4 DEF Places, Starts
  <2>2. [pid |-> p, start |-> 1] \in Known /\ NoId \in Known
    BY <1>4 DEF Known, Proper, Starts
  <2>3. ASSUME NEW x \in Fresh(p, place, own)
        PROVE  x \in Sessions /\ Placing(x)
    <3>1. x \in Sessions
      BY <1>2, <2>1, <2>2 DEF Sessions, Fresh
    <3>2. /\ x.proc = NoId \/ x.proc = [pid |-> p, start |-> 1]
          /\ x.loc # NoLoc => x.loc.pane = place
      BY DEF Fresh
    <3>3. x.proc.start < 2 /\ (x.proc # NoId => x.proc.pid = p)
      BY <3>2 DEF NoId
    <3> QED
      BY <1>3, <1>6, <3>1, <3>2, <3>3 DEF Placing
  <2> QED
    BY <1>2, <2>3 DEF SessionsArePlaced
<1> QED
  BY <1>3, <1>7, <1>8 DEF StopInv, CommandIsSound, HitsAreMeant, InterruptHitsAgent

\* StopInv holds in every reachable state: the machine, the registry, the running
\* command of aht stop and what it interrupted fit each other.
THEOREM StopInvariance ==
  ASSUME StopAssumption
  PROVE  Spec => []StopInv
<1>1. Init => StopInv
  BY InitSound
<1>2. ASSUME StopInv, [Next]_vars PROVE StopInv'
  <2>h. MachineIsSound /\ SessionsArePlaced /\ CommandIsSound /\ HitsAreMeant
    BY <1>2 DEF StopInv
  <2>1. ASSUME UNCHANGED hits PROVE HitsAreMeant'
    BY <2>h, <2>1 DEF HitsAreMeant, InterruptHitsAgent
  <2>2. ASSUME hits' = {} PROVE HitsAreMeant'
    BY <2>2 DEF HitsAreMeant, InterruptHitsAgent
  <2>3. CASE \E all \in BOOLEAN, args \in SUBSET References : Begin(all, args)
    <3>1. UNCHANGED <<procs, shells, sessions, changes>>
      BY <2>3 DEF Begin
    <3> QED
      BY <2>h, <2>2, <2>3, <3>1, BeginKeeps, CommandFrame DEF StopInv
  <2>4. CASE \E fails \in BOOLEAN : Validate(fails)
    <3>1. UNCHANGED <<procs, shells, sessions, changes>>
      BY <2>4 DEF Validate
    <3> QED
      BY <2>h, <2>1, <2>4, <3>1, ValidateKeeps, CommandFrame DEF StopInv
  <2>5. CASE \E fails \in BOOLEAN : SendStopSignal(fails)
    <3>1. UNCHANGED <<procs, shells, sessions, changes>>
      BY <2>5 DEF SendStopSignal
    <3> QED
      BY <2>h, <2>5, <3>1, SendKeeps, CommandFrame DEF StopInv
  <2>6. CASE Done
    <3>1. UNCHANGED <<procs, shells, sessions, changes>> /\ cmd' = Idle /\ hits' = {}
      BY <2>6 DEF Done
    <3>2. CommandIsSound'
      BY <3>1 DEF CommandIsSound
    <3> QED
      BY <2>h, <2>2, <3>1, <3>2, CommandFrame DEF StopInv
  <2>7. CASE Change
    <3>1. Continues /\ Moves /\ UNCHANGED hits
      BY <2>h, <2>7, ChangeContinues DEF Moves
    <3> QED
      BY <2>h, <2>1, <2>7, <3>1, ChangeSound, ChangePlaces, MoveKeepsCommand DEF StopInv
  <2>8. CASE UNCHANGED vars
    <3>1. UNCHANGED <<procs, shells, cmd, hits, changes>>
      BY <2>8 DEF vars
    <3>2. ListIsSound' = ListIsSound /\ InterruptedOnce' = InterruptedOnce
      BY <3>1 DEF ListIsSound, Placing, Alive, Named, InterruptedOnce
    <3>3. Targets' = Targets /\ Failures' = Failures /\ \A x : Target(x)' = Target(x)
      BY <3>1 DEF Targets, Failures, Target
    <3>4. \A x : ValidateStopTarget(cmd.snapshot[x], Target(x))'
                 = ValidateStopTarget(cmd.snapshot[x], Target(x))
      BY <3>1, <3>3 DEF ValidateStopTarget, ValidTmux, TmuxTargetMatchesSession, ProcessIsOurs,
                        InForeground, Alive
    <3>5. TurnsAreKept' = TurnsAreKept
      BY <3>1, <3>3 DEF TurnsAreKept
    <3>6. SeenIsSound' = SeenIsSound
      BY <3>1, <3>3, <3>4 DEF SeenIsSound
    <3>7. CommandIsSound'
      BY <2>h, <3>1, <3>2, <3>5, <3>6 DEF CommandIsSound
    <3> QED
      BY <2>h, <2>1, <2>8, <3>7, CommandFrame DEF StopInv, vars
  <2>9. {} \in SUBSET References
    OBVIOUS
  <2> QED
    BY <1>2, <2>3, <2>4, <2>5, <2>6, <2>7, <2>8, <2>9 DEF Next, Change
<1> QED
  BY <1>1, <1>2, PTL DEF Spec

\* Type correctness: every session has a place that can be, and the list of the command
\* has nobody twice, so nobody is judged twice.
THEOREM StopTypes ==
  ASSUME StopAssumption
  PROVE  Spec => []TypeOK
<1>1. StopInv => TypeOK
  <2> SUFFICES ASSUME StopInv PROVE TypeOK
    OBVIOUS
  <2>1. \A p \in Pids : Alive(p) => procs[p].start > 0
    <3> SUFFICES ASSUME NEW p \in Pids, Alive(p) PROVE procs[p].start > 0
      OBVIOUS
    <3>1. procs[p].start \in Starts
      BY DEF StopInv, MachineIsSound, Alive, Programs
    <3> QED
      BY <3>1 DEF Starts
  <2>2. \A id \in Ids : sessions[id].loc = NoLoc \/ sessions[id].loc.pane \in Panes
    BY DEF StopInv, SessionsArePlaced, Sessions, Places
  <2>3. CASE cmd = Idle
    BY <2>1, <2>2, <2>3 DEF TypeOK, Idle
  <2>4. CASE cmd # Idle
    <3>1. cmd \in Commands /\ IsInjective(cmd.todo) /\ (cmd.phase = "send" => cmd.todo # << >>)
      BY <2>4 DEF StopInv, CommandIsSound, ListIsSound
    <3> QED
      BY <2>1, <2>2, <3>1 DEF TypeOK, Commands
  <2> QED
    BY <2>3, <2>4
<1> QED
  BY <1>1, StopInvariance, PTL

\* An interrupt reaches the agent it was meant for, unless none is known or the machine
\* changed between the validation and the interrupt (runManageStopSessions), where agents stay in tmux.
THEOREM InterruptsAreMeant ==
  ASSUME StopAssumption, ~Outside
  PROVE  Spec => []InterruptHitsAgent
<1>1. StopInv => InterruptHitsAgent
  BY DEF StopInv, HitsAreMeant
<1> QED
  BY <1>1, StopInvariance, PTL

\* One command interrupts no pane and no process twice, however sessions share them and
\* whatever exits, moves or is respawned meanwhile (seen in runManageStopSessions).
THEOREM NobodyIsInterruptedTwice ==
  ASSUME StopAssumption
  PROVE  Spec => []InterruptedOnce
<1>1. StopInv => InterruptedOnce
  BY DEF StopInv, CommandIsSound, InterruptedOnce
<1> QED
  BY <1>1, StopInvariance, PTL

\* A reference that names no session, or two, stops nothing (resolveStopSessions).
THEOREM ReferencesAreResolved ==
  ASSUME StopAssumption
  PROVE  Spec => []AllNamedOrNone
<1>1. StopInv => AllNamedOrNone
  BY DEF StopInv, CommandIsSound, ListIsSound, Named, AllNamedOrNone
<1> QED
  BY <1>1, StopInvariance, PTL

\* Every session that was named is interrupted, shares the target of one that was or that
\* failed, or is reported as skipped or failed: only validated targets are remembered, so one that is skipped
\* never takes the turn of another (runManageStopSessions).
THEOREM TurnsAreTaken ==
  ASSUME StopAssumption
  PROVE  Spec => []EveryoneGetsATurn
<1>1. StopInv => EveryoneGetsATurn
  <2> SUFFICES ASSUME StopInv, cmd.phase = "next", cmd.todo = << >>,
                      NEW r \in cmd.args \cap Ids
               PROVE  \/ r \in cmd.skipped
                      \/ \E hit \in hits : hit.target = StopTargetForSession(cmd.snapshot[r])
                      \/ \E id \in cmd.failed : StopTargetForSession(cmd.snapshot[id])
                                                    = StopTargetForSession(cmd.snapshot[r])
    BY DEF EveryoneGetsATurn
  <2>1. TurnsAreKept
    BY DEF StopInv, CommandIsSound, Idle
  <2>2. DOMAIN cmd.todo = {}
    OBVIOUS
  <2> QED
    BY <2>1, <2>2 DEF TurnsAreKept, Targets, Failures, Target
<1> QED
  BY <1>1, StopInvariance, PTL
=============================================================================
