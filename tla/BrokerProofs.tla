---------------------------- MODULE BrokerProofs ----------------------------
(***************************************************************************)
(* Theorems about Broker, for any hooks, watchers, silent clients, number  *)
(* of slots, length of a stream and number of stops.                       *)
(***************************************************************************)
EXTENDS Broker, TLAPS, FiniteSetTheorems, WellFoundedInduction

-----------------------------------------------------------------------------
(* The newest of several reports.                                          *)

\* A finite set of numbers has a largest one.
LEMMA Newest ==
  ASSUME NEW S \in SUBSET Nat, IsFiniteSet(S), S # {}
  PROVE  Max(S) \in S /\ \A x \in S : x <= Max(S)
<1> DEFINE bad == {n \in Nat : \E T \in SUBSET Nat : /\ IsFiniteSet(T) /\ T # {} /\ Cardinality(T) = n
                                                 /\ ~ \E m \in T : \A x \in T : x <= m}
<1>1. ASSUME bad # {} PROVE FALSE
  <2>1. PICK n \in bad : \A k \in bad : ~(<<k, n>> \in OpToRel(<, Nat))
    BY <1>1, NatLessThanWellFounded, WFMin
  <2>2. \A k \in bad : ~(k < n)
    BY <2>1 DEF OpToRel
  <2>3. PICK T \in SUBSET Nat : /\ IsFiniteSet(T) /\ T # {} /\ Cardinality(T) = n
                                /\ ~ \E m \in T : \A x \in T : x <= m
    BY <2>1
  <2>4. PICK t \in T : TRUE
    BY <2>3
  <2> DEFINE U == T \ {t}
  <2>5. IsFiniteSet(U) /\ Cardinality(U) = n - 1 /\ n \in Nat /\ U \in SUBSET Nat /\ t \in Nat
    BY <2>1, <2>3, <2>4, FS_RemoveElement
  <2>6. U # {}
    BY <2>3, <2>4
  <2>7. Cardinality(U) \in Nat
    BY <2>5, FS_CardinalityType
  <2>8. n - 1 \notin bad /\ n - 1 \in Nat
    BY <2>2, <2>5, <2>7
  <2>9. PICK m \in U : \A x \in U : x <= m
    BY <2>5, <2>6, <2>8
  <2>10. \A x \in T : x <= (IF t <= m THEN m ELSE t)
    BY <2>5, <2>9
  <2>11. (IF t <= m THEN m ELSE t) \in T
    BY <2>4, <2>9
  <2> QED
    BY <2>3, <2>10, <2>11
<1>2. Cardinality(S) \in Nat
  BY FS_CardinalityType
<1>3. \E m \in S : \A x \in S : x <= m
  BY <1>1, <1>2
<1>4. \E m \in S : \A x \in S : m >= x
  BY <1>3
<1>5. Max(S) \in S /\ \A x \in S : Max(S) >= x
  BY <1>4 DEF Max
<1> QED
  BY <1>5

-----------------------------------------------------------------------------
(* The inductive invariant.                                                *)

ConnStates   == {"none", "queued", "serving", "executed", "streaming"}
ClientStates == {"idle", "sent", "fallback", "done", "failed", "subscribed"}
Sent == [rev : Nat, state : Nat]
Subs == [sent : Nat, state : Nat, inbox : Seq(Sent), read : Sent, waits : BOOLEAN, woken : BOOLEAN]

\* Types; only hooks execute, only watchers stream, and without a tracker nobody is connected.
StateIsSound ==
  /\ up \in BOOLEAN /\ stops \in 0..MaxStops
  /\ conn \in [Clients -> ConnStates] /\ pc \in [Clients -> ClientStates]
  /\ memory \in {0} \cup Hooks /\ revision \in Nat
  /\ journal \in SUBSET Hooks /\ IsFiniteSet(journal)
  /\ sub \in [Watchers -> Subs] /\ \A w \in Watchers : Len(sub[w].inbox) <= Window
  /\ ~up => \A c \in Clients : conn[c] = "none"
  /\ up => revision > 0

\* A client that has not dialled has no connection.
IdleIsApart == \A c \in Clients : pc[c] = "idle" => conn[c] = "none"

\* Every slot taken is a connection's.
SlotsAreTaken == IsFiniteSet(Served) /\ slots = Cardinality(Served) /\ slots <= MaxConnections

Recorded(h) == h <= memory \/ h \in journal

\* A report that was executed is recorded, before its hook is told.
ExecutedIsRecorded ==
  \A h \in Hooks : conn[h] = "executed" \/ pc[h] = "done" => Recorded(h)

\* What a subscription has been sent and not thrown away, oldest first.
Stream(s) == <<s.read>> \o s.inbox

\* A stream goes forward.
Forward(q) ==
  \A i \in 1..Len(q) - 1 : q[i].rev > 0 => q[i + 1].rev > q[i].rev /\ q[i + 1].state > q[i].state

\* A running subscription ends in what was last sent, which is either the current state
\* or an older one under an older revision.
Current(w) ==
  /\ Forward(Stream(sub[w]))
  /\ conn[w] = "streaming" =>
       /\ Stream(sub[w])[Len(Stream(sub[w]))] = [rev |-> sub[w].sent, state |-> sub[w].state]
       /\ sub[w].sent <= revision
       /\ sub[w].sent = revision => sub[w].state = memory
       /\ sub[w].sent < revision => sub[w].state < memory

StreamIsCurrent == \A w \in Watchers : Current(w)

BrokerInv == StateIsSound /\ IdleIsApart /\ SlotsAreTaken /\ ExecutedIsRecorded /\ StreamIsCurrent

-----------------------------------------------------------------------------
(* What operations of the registry do.                                     *)

\* Consuming the journal, and reports with it, loses none of them.
LEMMA Consuming ==
  ASSUME BrokerAssumption, StateIsSound, NEW R \in SUBSET Hooks, IsFiniteSet(R)
  PROVE  LET m == Max({memory} \cup R \cup journal)
         IN  m \in {0} \cup Hooks /\ memory <= m /\ \A x \in R \cup journal : x <= m
<1> DEFINE S == {memory} \cup R \cup journal
<1>1. S \in SUBSET Nat /\ S # {} /\ S \subseteq {0} \cup Hooks
  BY DEF BrokerAssumption, StateIsSound
<1>2. IsFiniteSet(R \cup {memory})
  BY FS_AddElement
<1>3. IsFiniteSet(S)
  BY <1>2, FS_Union DEF StateIsSound
<1> HIDE DEF S
<1>4. Max(S) \in S /\ \A x \in S : x <= Max(S)
  BY <1>1, <1>3, Newest
<1> QED
  BY <1>1, <1>4 DEF S

\* A waker changes nothing but who was woken.
LEMMA Waking ==
  ASSUME NEW subs \in [Watchers -> Subs]
  PROVE  /\ WakeAll(subs) \in [Watchers -> Subs]
         /\ \A w \in Watchers : /\ WakeAll(subs)[w].sent = subs[w].sent
                                /\ WakeAll(subs)[w].state = subs[w].state
                                /\ WakeAll(subs)[w].inbox = subs[w].inbox
                                /\ WakeAll(subs)[w].read = subs[w].read
BY DEF WakeAll, Subs

\* Pushing a snapshot appends it.
LEMMA Pushing ==
  ASSUME NEW s \in Subs, NEW rev \in Nat, NEW state \in Nat
  PROVE  /\ Push(s, rev, state) \in Subs
         /\ Push(s, rev, state).sent = rev /\ Push(s, rev, state).state = state
         /\ Push(s, rev, state).read = s.read
         /\ Push(s, rev, state).inbox = Append(s.inbox, [rev |-> rev, state |-> state])
         /\ Len(Push(s, rev, state).inbox) = Len(s.inbox) + 1
<1>1. [rev |-> rev, state |-> state] \in Sent /\ s.inbox \in Seq(Sent)
  BY DEF Sent, Subs
<1>2. /\ Append(s.inbox, [rev |-> rev, state |-> state]) \in Seq(Sent)
      /\ Len(Append(s.inbox, [rev |-> rev, state |-> state])) = Len(s.inbox) + 1
  BY <1>1
<1> QED
  BY <1>2 DEF Push, Subs

\* No subscription yet.
LEMMA NoSubType == NoSub \in Subs /\ NoSub.inbox = << >> /\ NoSub.read = [rev |-> 0, state |-> 0]
<1>1. << >> \in Seq(Sent) /\ [rev |-> 0, state |-> 0] \in Sent
  BY DEF Sent
<1> QED
  BY <1>1 DEF NoSub, Subs

\* The snapshot a stream starts with is the only one on it.
LEMMA FirstPush ==
  \A rev, state \in Nat : Push(NoSub, rev, state) \in Subs /\ Len(Push(NoSub, rev, state).inbox) = 1
<1> SUFFICES ASSUME NEW rev \in Nat, NEW state \in Nat
             PROVE  Push(NoSub, rev, state) \in Subs /\ Len(Push(NoSub, rev, state).inbox) = 1
  OBVIOUS
<1> DEFINE e == [rev |-> rev, state |-> state]
<1>1. e \in Sent /\ << >> \in Seq(Sent)
  BY DEF Sent
<1>2. Append(<< >>, e) \in Seq(Sent) /\ Len(Append(<< >>, e)) = 1
  BY <1>1
<1> HIDE DEF e
<1>3. NoSub \in Subs /\ NoSub.inbox = << >>
  BY NoSubType
<1>4. Push(NoSub, rev, state) = [NoSub EXCEPT !.sent = rev, !.state = state, !.waits = FALSE,
                                               !.woken = FALSE, !.inbox = Append(NoSub.inbox, e)]
  BY DEF Push, e
<1> QED
  BY <1>2, <1>3, <1>4 DEF Subs

-----------------------------------------------------------------------------
(* The steps.                                                              *)

LEMMA InitSound == ASSUME BrokerAssumption, Init PROVE BrokerInv
<1>1. StateIsSound
  <2>1. /\ stops \in 0..MaxStops /\ conn \in [Clients -> ConnStates] /\ pc \in [Clients -> ClientStates]
        /\ \A c \in Clients : conn[c] = "none"
    BY DEF Init, BrokerAssumption, ConnStates, ClientStates
  <2>2. sub \in [Watchers -> Subs] /\ \A w \in Watchers : Len(sub[w].inbox) <= Window
    BY NoSubType DEF Init, BrokerAssumption
  <2> QED
    BY <2>1, <2>2, FS_EmptySet DEF Init, StateIsSound
<1>2. SlotsAreTaken
  <2>1. Served = {}
    BY DEF Init, Served
  <2> QED
    BY <2>1, FS_EmptySet DEF Init, SlotsAreTaken, BrokerAssumption
<1>3. ExecutedIsRecorded
  BY DEF Init, ExecutedIsRecorded, Clients
<1>4. StreamIsCurrent
  <2>1. \A w \in Watchers : conn[w] # "streaming" /\ sub[w] = NoSub
    BY DEF Init, Clients
  <2>2. Len(Stream(NoSub)) = 1
    BY NoSubType DEF Stream
  <2>3. Forward(Stream(NoSub))
    BY <2>2 DEF Forward
  <2> QED
    BY <2>1, <2>3 DEF StreamIsCurrent, Current
<1>5. IdleIsApart
  BY DEF Init, IdleIsApart
<1> QED
  BY <1>1, <1>2, <1>3, <1>4, <1>5 DEF BrokerInv

\* The subscriptions that an operation leaves, w's own push aside.
Woken == IF memory' # memory THEN WakeAll(sub) ELSE sub

LEMMA StepSound == ASSUME BrokerAssumption, StateIsSound, Next PROVE StateIsSound'
<1> USE DEF StateIsSound
<1>h. /\ Hooks \subseteq Clients /\ Watchers \subseteq Clients /\ Silent \subseteq Clients
      /\ Hooks \subseteq Nat /\ MaxStops \in Nat /\ Window \in Nat \ {0}
  BY DEF Clients, BrokerAssumption
<1>e. IsFiniteSet({}) /\ {} \in SUBSET Hooks
  BY FS_EmptySet
<1>l. \A c \in Clients : Lost(c) \in ClientStates
  BY DEF Lost, ClientStates
<1>c. {"none", "queued", "serving", "executed", "streaming"} = ConnStates
  BY DEF ConnStates
<1>p. {"idle", "sent", "fallback", "done", "failed", "subscribed"} = ClientStates
  BY DEF ClientStates
<1>w. Woken \in [Watchers -> Subs] /\ \A w \in Watchers : Woken[w].inbox = sub[w].inbox
  BY Waking DEF Woken
<1>1. CASE Start
  BY <1>1, <1>e, Consuming DEF Start
<1>2. CASE Stop
  <2>1. stops' \in 0..MaxStops
    BY <1>2, <1>h DEF Stop
  <2>2. conn' \in [Clients -> ConnStates] /\ \A c \in Clients : conn'[c] = "none"
    BY <1>2, <1>c DEF Stop
  <2>3. pc' \in [Clients -> ClientStates]
    BY <1>2, <1>l DEF Stop
  <2> QED
    BY <1>2, <2>1, <2>2, <2>3 DEF Stop
<1>3. ASSUME NEW c \in Clients, Dial(c) PROVE StateIsSound'
  BY <1>3, <1>c, <1>p DEF Dial
<1>4. ASSUME NEW c \in Clients, Accept(c) PROVE StateIsSound'
  BY <1>4, <1>c, <1>p DEF Accept
<1>5. ASSUME NEW c \in Clients, HandshakeTimeout(c) PROVE StateIsSound'
  BY <1>5, <1>c, <1>l DEF HandshakeTimeout, HangUp
<1>6. ASSUME NEW h \in Hooks, Execute(h) PROVE StateIsSound'
  <2>1. IsFiniteSet({h}) /\ {h} \in SUBSET Hooks
    BY FS_Singleton
  <2>2. memory' \in {0} \cup Hooks /\ journal' = {}
    BY <1>6, <2>1, Consuming DEF Execute, Reduce
  <2>3. revision' \in Nat /\ revision' >= revision /\ sub' = Woken
    BY <1>6 DEF Execute, Reduce, Woken
  <2> QED
    BY <1>6, <1>c, <1>e, <1>h, <1>w, <2>2, <2>3 DEF Execute
<1>7. ASSUME NEW h \in Hooks, Reply(h) PROVE StateIsSound'
  BY <1>7, <1>h, <1>c, <1>p DEF Reply, HangUp
<1>8. ASSUME NEW h \in Hooks, ReplyFails(h) PROVE StateIsSound'
  BY <1>8, <1>h, <1>c, <1>l DEF ReplyFails, HangUp
<1>9. ASSUME NEW h \in Hooks, Cancel(h) PROVE StateIsSound'
  BY <1>9, <1>h, <1>p DEF Cancel
<1>10. ASSUME NEW h \in Hooks, Fallback(h) PROVE StateIsSound'
  <2>1. CASE up
    <3>1. IsFiniteSet(journal \cup {h})
      BY FS_AddElement
    <3> QED
      BY <1>10, <1>h, <1>p, <2>1, <3>1 DEF Fallback
  <2>2. CASE ~up
    <3>1. IsFiniteSet({memory} \cup {h}) /\ {memory} \cup {h} = {memory, h}
      BY FS_Singleton, FS_AddElement
    <3>2. {memory, h} \in SUBSET Nat
      BY <1>h
    <3>3. Max({memory, h}) \in {memory, h}
      BY <3>1, <3>2, Newest
    <3> QED
      BY <1>10, <1>h, <1>p, <2>2, <3>3 DEF Fallback
  <2> QED
    BY <2>1, <2>2
<1>11. ASSUME NEW w \in Watchers, Subscribe(w) PROVE StateIsSound'
  <2>1. memory' \in {0} \cup Hooks
    <3>1. {memory} \cup {} \cup journal = {memory} \cup journal
      OBVIOUS
    <3> QED
      BY <1>11, <1>e, <3>1, Consuming DEF Subscribe
  <2>0. memory' \in Nat
    BY <1>h, <2>1
  <2>2. revision' \in Nat /\ revision' >= revision
        /\ sub' = [Woken EXCEPT ![w] = Push(NoSub, revision', memory')]
    BY <1>11 DEF Subscribe, Woken
  <2>3. Push(NoSub, revision', memory') \in Subs /\ Len(Push(NoSub, revision', memory').inbox) = 1
    <3>1. revision' \in Nat
      BY <2>2
    <3> QED
      BY <2>0, <3>1, FirstPush
  <2>4. sub' \in [Watchers -> Subs] /\ \A v \in Watchers : Len(sub'[v].inbox) <= Window
    <3> DEFINE s == Push(NoSub, revision', memory')
    <3>1. s \in Subs /\ Len(s.inbox) <= Window
      BY <1>h, <2>3
    <3>2. sub' = [Woken EXCEPT ![w] = s]
      BY <2>2
    <3> HIDE DEF s
    <3> QED
      BY <1>w, <3>1, <3>2
  <2>5. conn' \in [Clients -> ConnStates] /\ pc' \in [Clients -> ClientStates]
    BY <1>11, <1>c, <1>p DEF Subscribe
  <2>6. up /\ up' /\ journal' = {} /\ stops' = stops /\ revision' > 0
    BY <1>11, <2>2 DEF Subscribe
  <2> QED
    BY <1>e, <2>1, <2>2, <2>4, <2>5, <2>6
<1>12. ASSUME NEW w \in Watchers, CheckRevision(w) PROVE StateIsSound'
  <2>1. memory' \in {0} \cup Hooks
    <3>1. {memory} \cup {} \cup journal = {memory} \cup journal
      OBVIOUS
    <3> QED
      BY <1>12, <1>e, <3>1, Consuming DEF CheckRevision
  <2>0. memory' \in Nat
    BY <1>h, <2>1
  <2>2. /\ revision' \in Nat /\ revision' >= revision
        /\ IsNewer(revision', sub[w]) => Len(sub[w].inbox) < Window
        /\ sub' = [Woken EXCEPT ![w] = IF IsNewer(revision', sub[w]) THEN Push(@, revision', memory')
                                        ELSE [@ EXCEPT !.waits = TRUE, !.woken = FALSE]]
    BY <1>12 DEF CheckRevision, Woken
  <2>3. Push(Woken[w], revision', memory') \in Subs
        /\ Len(Push(Woken[w], revision', memory').inbox) = Len(sub[w].inbox) + 1
    <3> DEFINE s == Woken[w]
    <3>1. s \in Subs /\ s.inbox = sub[w].inbox
      BY <1>w
    <3> HIDE DEF s
    <3>2. /\ Push(s, revision', memory') \in Subs
          /\ Len(Push(s, revision', memory').inbox) = Len(s.inbox) + 1
      <4> DEFINE e == [rev |-> revision', state |-> memory']
      <4>1. e \in Sent /\ revision' \in Nat
        BY <2>0, <2>2 DEF Sent
      <4>2. s.inbox \in Seq(Sent)
        BY <3>1 DEF Subs
      <4>3. Append(s.inbox, e) \in Seq(Sent) /\ Len(Append(s.inbox, e)) = Len(s.inbox) + 1
        BY <4>1, <4>2
      <4> QED
        BY <3>1, <2>0, <4>1, <4>3 DEF Push, Subs
    <3> QED
      BY <3>1, <3>2 DEF s
  <2>4. LET s == [Woken[w] EXCEPT !.waits = TRUE, !.woken = FALSE]
        IN  s \in Subs /\ s.inbox = sub[w].inbox
    BY <1>w DEF Subs
  <2>5. sub' \in [Watchers -> Subs] /\ \A v \in Watchers : Len(sub'[v].inbox) <= Window
    <3>1. Len(sub[w].inbox) \in Nat
      BY DEF Subs
    <3>2. Woken[w] \in Subs /\ \A v \in Watchers : Woken[v] \in Subs /\ Len(Woken[v].inbox) <= Window
      BY <1>h, <1>w
    <3>3. sub'[w] \in Subs /\ Len(sub'[w].inbox) <= Window
      BY <1>h, <1>w, <2>2, <2>3, <2>4, <3>1
    <3>4. \A v \in Watchers : v # w => sub'[v] = Woken[v]
      BY <1>w, <2>2
    <3>5. \E s : sub' = [Woken EXCEPT ![w] = s]
      BY <2>2
    <3> QED
      BY <1>w, <3>2, <3>3, <3>4, <3>5
  <2>6. /\ up /\ up' /\ journal' = {} /\ stops' = stops /\ revision' > 0
        /\ conn' = conn /\ pc' = pc
    BY <1>12, <2>2 DEF CheckRevision
  <2> QED
    BY <1>e, <2>1, <2>2, <2>5, <2>6
<1>13. ASSUME NEW w \in Watchers, Poll(w) PROVE StateIsSound'
  BY <1>13, <1>h DEF Poll, Subs
<1>14. ASSUME NEW w \in Watchers, StreamTimeout(w) PROVE StateIsSound'
  BY <1>14, <1>h, <1>c DEF StreamTimeout, HangUp
<1>15. ASSUME NEW w \in Watchers, Read(w) PROVE StateIsSound'
  <2>1. Head(sub[w].inbox) \in Sent /\ Tail(sub[w].inbox) \in Seq(Sent)
        /\ Len(Tail(sub[w].inbox)) <= Len(sub[w].inbox)
    BY <1>15 DEF Read, Subs
  <2>2. Len(sub[w].inbox) <= Window /\ Len(sub[w].inbox) \in Nat /\ Len(Tail(sub[w].inbox)) \in Nat
    BY <2>1 DEF Subs
  <2>3. sub' \in [Watchers -> Subs]
    <3> DEFINE s == [sub[w] EXCEPT !.inbox = Tail(sub[w].inbox), !.read = Head(sub[w].inbox)]
    <3>1. sub' = [sub EXCEPT ![w] = s]
      BY <1>15 DEF Read
    <3>2. s \in Subs
      BY <2>1 DEF Subs
    <3> HIDE DEF s
    <3> QED
      BY <3>1, <3>2
  <2>4. \A v \in Watchers : Len(sub'[v].inbox) <= Window
    BY <1>15, <1>h, <2>1, <2>2 DEF Read
  <2> QED
    BY <1>15, <2>3, <2>4 DEF Read
<1>16. ASSUME NEW w \in Watchers, StreamEnds(w) PROVE StateIsSound'
  BY <1>16, <1>h, <1>p DEF StreamEnds
<1>17. ASSUME NEW w \in Watchers, Unsubscribe(w) PROVE StateIsSound'
  BY <1>17, <1>h, <1>p, <1>c DEF Unsubscribe, HangUp
<1> QED
  BY <1>1, <1>2, <1>3, <1>4, <1>5, <1>6, <1>7, <1>8, <1>9, <1>10, <1>11, <1>12, <1>13, <1>14,
     <1>15, <1>16, <1>17 DEF Next

\* Nobody goes back to where dialling begins.
LEMMA StepIdle == ASSUME StateIsSound, IdleIsApart, Next PROVE IdleIsApart'
<1> SUFFICES ASSUME NEW c \in Clients, pc'[c] = "idle" PROVE conn'[c] = "none"
  BY DEF IdleIsApart
<1>1. /\ conn \in [Clients -> ConnStates] /\ pc \in [Clients -> ClientStates]
      /\ Hooks \subseteq Clients /\ Watchers \subseteq Clients
  BY DEF StateIsSound, Clients
<1>2. pc[c] = "idle" /\ conn[c] = "none"
  <2>1. pc[c] = "idle"
    BY <1>1 DEF Next, Start, Stop, Dial, Accept, HandshakeTimeout, Execute, Reply, ReplyFails, Cancel,
         Fallback, Subscribe, CheckRevision, Poll, StreamTimeout, Read, StreamEnds, Unsubscribe, Lost
  <2> QED
    BY <2>1 DEF IdleIsApart
<1> QED
  BY <1>1, <1>2
     DEF Next, Start, Stop, Dial, Accept, HandshakeTimeout, Execute, Reply, ReplyFails, Cancel, Fallback,
         Subscribe, CheckRevision, Poll, StreamTimeout, Read, StreamEnds, Unsubscribe, HangUp

\* A slot is given with a connection and taken back with it.
LEMMA StepSlots ==
  ASSUME BrokerAssumption, StateIsSound, IdleIsApart, SlotsAreTaken, Next
  PROVE  SlotsAreTaken'
<1>t. /\ conn \in [Clients -> ConnStates] /\ conn' \in [Clients -> ConnStates]
      /\ Hooks \subseteq Clients /\ Watchers \subseteq Clients /\ Silent \subseteq Clients
  BY StepSound DEF StateIsSound, Clients
<1>n. slots \in Nat /\ IsFiniteSet(Served) /\ slots = Cardinality(Served) /\ slots <= MaxConnections
      /\ MaxConnections \in Nat
  BY FS_CardinalityType DEF SlotsAreTaken, BrokerAssumption
<1>s. ASSUME \A c \in Clients : c \in Served' <=> c \in Served, slots' = slots PROVE SlotsAreTaken'
  <2>1. Served' = Served
    BY <1>s DEF Served
  <2> QED
    BY <1>s, <1>n, <2>1 DEF SlotsAreTaken
<1>h. ASSUME NEW c \in Clients, c \in Served, HangUp(c) PROVE SlotsAreTaken'
  <2>1. Served' = Served \ {c} /\ slots' = slots - 1
    BY <1>h, <1>t DEF Served, HangUp
  <2>2. IsFiniteSet(Served \ {c}) /\ Cardinality(Served \ {c}) = slots - 1
    BY <1>h, <1>n, FS_RemoveElement
  <2> QED
    BY <1>n, <2>1, <2>2 DEF SlotsAreTaken
<1>1. CASE Start
  BY <1>1, <1>s DEF Start, Served
<1>2. CASE Stop
  <2>1. Served' = {} /\ slots' = 0
    BY <1>2 DEF Stop, Served
  <2> QED
    BY <1>n, <2>1, FS_EmptySet DEF SlotsAreTaken
<1>3. ASSUME NEW c \in Clients, Dial(c) PROVE SlotsAreTaken'
  <2>1. conn[c] = "none"
    BY <1>3 DEF Dial, IdleIsApart
  <2> QED
    BY <1>3, <1>s, <1>t, <2>1 DEF Dial, Served
<1>4. ASSUME NEW c \in Clients, Accept(c) PROVE SlotsAreTaken'
  <2>1. CASE slots < MaxConnections
    <3>1. Served' = Served \cup {c} /\ slots' = slots + 1 /\ c \notin Served
      BY <1>4, <1>t, <2>1 DEF Accept, Served
    <3>2. IsFiniteSet(Served \cup {c}) /\ Cardinality(Served \cup {c}) = slots + 1
      BY <1>n, <3>1, FS_AddElement
    <3> QED
      BY <1>n, <2>1, <3>1, <3>2 DEF SlotsAreTaken
  <2>2. CASE ~(slots < MaxConnections)
    BY <1>4, <1>s, <1>t, <2>2 DEF Accept, Served
  <2> QED
    BY <2>1, <2>2
<1>5. ASSUME NEW c \in Clients, HandshakeTimeout(c) PROVE SlotsAreTaken'
  BY <1>5, <1>h DEF HandshakeTimeout, Served
<1>6. ASSUME NEW h \in Hooks, Execute(h) PROVE SlotsAreTaken'
  BY <1>6, <1>s, <1>t DEF Execute, Served
<1>7. ASSUME NEW h \in Hooks, Reply(h) \/ ReplyFails(h) PROVE SlotsAreTaken'
  BY <1>7, <1>h, <1>t DEF Reply, ReplyFails, Served
<1>8. ASSUME NEW h \in Hooks, Cancel(h) \/ Fallback(h) PROVE SlotsAreTaken'
  BY <1>8, <1>s DEF Cancel, Fallback, Served
<1>9. ASSUME NEW w \in Watchers, Subscribe(w) PROVE SlotsAreTaken'
  BY <1>9, <1>s, <1>t DEF Subscribe, Served
<1>10. ASSUME NEW w \in Watchers, CheckRevision(w) \/ Poll(w) \/ Read(w) \/ StreamEnds(w) PROVE SlotsAreTaken'
  BY <1>10, <1>s DEF CheckRevision, Poll, Read, StreamEnds, Served
<1>11. ASSUME NEW w \in Watchers, StreamTimeout(w) PROVE SlotsAreTaken'
  BY <1>11, <1>h, <1>t DEF StreamTimeout, Served
<1>12. ASSUME NEW w \in Watchers, Unsubscribe(w) PROVE SlotsAreTaken'
  <2>1. CASE conn[w] = "streaming"
    BY <1>12, <1>h, <1>t, <2>1 DEF Unsubscribe, Served
  <2>2. CASE conn[w] # "streaming"
    BY <1>12, <1>s, <2>2 DEF Unsubscribe, Served
  <2> QED
    BY <2>1, <2>2
<1> QED
  BY <1>1, <1>2, <1>3, <1>4, <1>5, <1>6, <1>7, <1>8, <1>9, <1>10, <1>11, <1>12 DEF Next

\* What is recorded stays recorded, and a hook is told so only after it is.
LEMMA StepRecorded ==
  ASSUME BrokerAssumption, StateIsSound, ExecutedIsRecorded, Next
  PROVE  ExecutedIsRecorded'
<1>t. /\ conn \in [Clients -> ConnStates] /\ pc \in [Clients -> ClientStates]
      /\ Hooks \subseteq Clients /\ Watchers \subseteq Clients /\ Hooks \subseteq Nat
      /\ memory \in Nat /\ memory' \in Nat /\ journal \subseteq Hooks
  <2>1. memory' \in {0} \cup Hooks
    BY StepSound DEF StateIsSound
  <2> QED
    BY <2>1 DEF StateIsSound, Clients, BrokerAssumption
<1>e. {} \in SUBSET Hooks /\ IsFiniteSet({}) /\ {memory} \cup {} \cup journal = {memory} \cup journal
  BY FS_EmptySet
<1>c. ASSUME memory' = Max({memory} \cup journal) PROVE memory <= memory' /\ \A x \in journal : x <= memory'
  BY <1>c, <1>e, Consuming
<1>x. ASSUME NEW h \in Hooks, Execute(h)
      PROVE  memory <= memory' /\ h <= memory' /\ \A x \in journal : x <= memory'
  <2>1. {h} \in SUBSET Hooks /\ IsFiniteSet({h}) /\ h \in {h}
    BY FS_Singleton
  <2> QED
    BY <1>x, <2>1, Consuming DEF Execute, Reduce
<1>f. ASSUME NEW h \in Hooks, Fallback(h)
      PROVE  memory <= memory' /\ journal \subseteq journal' /\ Recorded(h)'
  <2>1. CASE up
    BY <1>f, <1>t, <2>1 DEF Fallback, Recorded
  <2>2. CASE ~up
    <3>1. IsFiniteSet({memory} \cup {h}) /\ {memory} \cup {h} = {memory, h}
      BY FS_Singleton, FS_AddElement
    <3>2. {memory, h} \in SUBSET Nat
      BY <1>t
    <3>3. memory <= Max({memory, h}) /\ h <= Max({memory, h})
      BY <3>1, <3>2, Newest
    <3> QED
      BY <1>f, <1>t, <2>2, <3>3 DEF Fallback, Recorded
  <2> QED
    BY <2>1, <2>2
<1>r. \A h \in Hooks : Recorded(h) => Recorded(h)'
  <2>1. CASE memory' = memory /\ journal' = journal
    BY <2>1 DEF Recorded
  <2>2. CASE memory' = Max({memory} \cup journal)
    BY <1>t, <1>c, <2>2 DEF Recorded
  <2>3. ASSUME NEW h \in Hooks, Execute(h) PROVE \A g \in Hooks : Recorded(g) => Recorded(g)'
    BY <1>t, <1>x, <2>3 DEF Recorded
  <2>4. ASSUME NEW h \in Hooks, Fallback(h) PROVE \A g \in Hooks : Recorded(g) => Recorded(g)'
    BY <1>t, <1>f, <2>4 DEF Recorded
  <2> QED
    BY <2>1, <2>2, <2>3, <2>4
       DEF Next, Start, Stop, Dial, Accept, HandshakeTimeout, Reply, ReplyFails, Cancel,
           Subscribe, CheckRevision, Poll, StreamTimeout, Read, StreamEnds, Unsubscribe
<1>1. ASSUME NEW h \in Hooks, conn'[h] = "executed", conn[h] # "executed" PROVE Recorded(h)'
  <2>1. Execute(h)
    <3>1. ~Start /\ ~Stop
      BY <1>1, <1>t DEF Start, Stop
    <3>2. \A c \in Clients : ~Dial(c) /\ ~Accept(c) /\ ~HandshakeTimeout(c)
      BY <1>1, <1>t DEF Dial, Accept, HandshakeTimeout, HangUp
    <3>3. \A g \in Hooks : /\ ~Reply(g) /\ ~ReplyFails(g) /\ ~Cancel(g) /\ ~Fallback(g)
                           /\ Execute(g) => g = h
      BY <1>1, <1>t DEF Execute, Reply, ReplyFails, Cancel, Fallback, HangUp
    <3>4. \A w \in Watchers : /\ ~Subscribe(w) /\ ~CheckRevision(w) /\ ~Poll(w) /\ ~StreamTimeout(w)
                              /\ ~Read(w) /\ ~StreamEnds(w) /\ ~Unsubscribe(w)
      BY <1>1, <1>t
         DEF Subscribe, CheckRevision, Poll, StreamTimeout, Read, StreamEnds, Unsubscribe, HangUp
    <3> QED
      BY <3>1, <3>2, <3>3, <3>4 DEF Next
  <2> QED
    BY <1>x, <2>1 DEF Recorded
<1>2. ASSUME NEW h \in Hooks, pc'[h] = "done", pc[h] # "done" PROVE Recorded(h)'
  <2>0. \A c \in Clients : Lost(c) # pc[c] => Lost(c) \in {"fallback", "failed"}
    BY DEF Lost
  <2>1. (Reply(h) /\ conn[h] = "executed") \/ Fallback(h)
    <3>1. ~Start /\ ~Stop
      BY <1>2, <1>t, <2>0 DEF Start, Stop
    <3>2. \A c \in Clients : ~Dial(c) /\ ~Accept(c) /\ ~HandshakeTimeout(c)
      BY <1>2, <1>t, <2>0 DEF Dial, Accept, HandshakeTimeout
    <3>3. \A g \in Hooks : /\ ~Execute(g) /\ ~ReplyFails(g) /\ ~Cancel(g)
                           /\ Reply(g) => g = h /\ conn[g] = "executed"
                           /\ Fallback(g) => g = h
      BY <1>2, <1>t, <2>0 DEF Execute, Reply, ReplyFails, Cancel, Fallback
    <3>4. \A w \in Watchers : /\ ~Subscribe(w) /\ ~CheckRevision(w) /\ ~Poll(w) /\ ~StreamTimeout(w)
                              /\ ~Read(w) /\ ~StreamEnds(w) /\ ~Unsubscribe(w)
      BY <1>2, <1>t DEF Subscribe, CheckRevision, Poll, StreamTimeout, Read, StreamEnds, Unsubscribe
    <3> QED
      BY <3>1, <3>2, <3>3, <3>4 DEF Next
  <2> QED
    BY <1>f, <1>r, <2>1 DEF ExecutedIsRecorded
<1> QED
  BY <1>1, <1>2, <1>r DEF ExecutedIsRecorded

-----------------------------------------------------------------------------
(* Streams.                                                                *)

\* A stream is what was read last and what waits behind it.
LEMMA StreamFacts ==
  ASSUME NEW s \in Subs
  PROVE  /\ Stream(s) \in Seq(Sent) /\ Len(s.inbox) \in Nat /\ Len(Stream(s)) = Len(s.inbox) + 1
         /\ Stream(s)[1] = s.read
         /\ \A i \in 1..Len(s.inbox) : Stream(s)[i + 1] = s.inbox[i]
<1>1. s.read \in Sent /\ s.inbox \in Seq(Sent)
  BY DEF Subs
<1>2. <<s.read>> \in Seq(Sent) /\ Len(<<s.read>>) = 1 /\ <<s.read>>[1] = s.read
  BY <1>1
<1> QED
  BY <1>1, <1>2 DEF Stream

\* An operation of the registry moves memory and revision together; anything else does
\* not move them while there are subscriptions.
LEMMA RevisionMoves ==
  ASSUME BrokerAssumption, StateIsSound, Next, NEW v \in Watchers, conn[v] = "streaming"
  PROVE  \/ memory' = memory /\ revision' = revision
         \/ memory' > memory /\ revision' = revision + 1
<1>t. /\ up /\ Hooks \subseteq Nat /\ memory \in Nat /\ memory' \in Nat /\ v \in Clients
  <2>1. memory' \in {0} \cup Hooks /\ memory \in {0} \cup Hooks
    BY StepSound DEF StateIsSound
  <2>2. up /\ v \in Clients
    BY DEF StateIsSound, Clients
  <2> QED
    BY <2>1, <2>2 DEF BrokerAssumption
<1>e. {} \in SUBSET Hooks /\ IsFiniteSet({}) /\ {memory} \cup {} \cup journal = {memory} \cup journal
  BY FS_EmptySet
<1>m. memory' >= memory \/ memory' = memory
  <2>1. ASSUME memory' = Max({memory} \cup journal) PROVE memory' >= memory
    BY <2>1, <1>t, <1>e, Consuming
  <2>2. ASSUME NEW h \in Hooks, Execute(h) PROVE memory' >= memory
    <3>1. {h} \in SUBSET Hooks /\ IsFiniteSet({h})
      BY FS_Singleton
    <3> QED
      BY <1>t, <2>2, <3>1, Consuming DEF Execute, Reduce
  <2> QED
    BY <1>t, <2>1, <2>2
       DEF Next, Start, Stop, Dial, Accept, HandshakeTimeout, Reply, ReplyFails, Cancel, Fallback,
           Subscribe, CheckRevision, Poll, StreamTimeout, Read, StreamEnds, Unsubscribe
<1>r. \/ memory' = memory /\ revision' = revision
      \/ memory' # memory /\ revision' = revision + 1
  BY <1>t DEF Next, Start, Stop, Dial, Accept, HandshakeTimeout, Execute, Reduce, Reply, ReplyFails, Cancel,
       Fallback, Subscribe, CheckRevision, Poll, StreamTimeout, Read, StreamEnds, Unsubscribe
<1> QED
  BY <1>t, <1>m, <1>r

\* What a step does to the subscription of a watcher.
SameStream(v) ==
  /\ sub'[v].inbox = sub[v].inbox /\ sub'[v].read = sub[v].read
  /\ sub'[v].sent = sub[v].sent /\ sub'[v].state = sub[v].state
Pushed(v, s) ==
  /\ sub'[v].inbox = Append(s.inbox, [rev |-> revision', state |-> memory']) /\ sub'[v].read = s.read
  /\ sub'[v].sent = revision' /\ sub'[v].state = memory'
Taken(v) ==
  /\ sub[v].inbox # << >> /\ sub'[v].inbox = Tail(sub[v].inbox) /\ sub'[v].read = Head(sub[v].inbox)
  /\ sub'[v].sent = sub[v].sent /\ sub'[v].state = sub[v].state

\* Streams start, grow at the end under a newer revision, and are read from the front.
LEMMA StreamMoves ==
  ASSUME BrokerAssumption, StateIsSound, Next, NEW v \in Watchers
  PROVE  \/ SameStream(v) /\ (conn'[v] = "streaming" => conn[v] = "streaming")
         \/ Taken(v) /\ conn' = conn /\ memory' = memory /\ revision' = revision
         \/ Pushed(v, NoSub) /\ revision' > 0
         \/ Pushed(v, sub[v]) /\ conn[v] = "streaming" /\ revision' > sub[v].sent
<1>t. /\ conn \in [Clients -> ConnStates] /\ sub \in [Watchers -> Subs] /\ v \in Clients
      /\ Hooks \subseteq Clients /\ Watchers \subseteq Clients /\ revision \in Nat
  BY DEF StateIsSound, Clients, Subs
<1>w. /\ Woken \in [Watchers -> Subs]
      /\ \A w \in Watchers : /\ Woken[w].inbox = sub[w].inbox /\ Woken[w].read = sub[w].read
                             /\ Woken[w].sent = sub[w].sent /\ Woken[w].state = sub[w].state
  BY <1>t, Waking DEF Woken
<1>1. ASSUME sub' = sub, conn'[v] = "streaming" => conn[v] = "streaming"
      PROVE  SameStream(v) /\ (conn'[v] = "streaming" => conn[v] = "streaming")
  BY <1>1 DEF SameStream
<1>2. ASSUME NEW h \in Hooks, Execute(h)
      PROVE  SameStream(v) /\ (conn'[v] = "streaming" => conn[v] = "streaming")
  <2>1. sub' = Woken
    BY <1>2 DEF Execute, Reduce, Woken
  <2> QED
    BY <1>2, <1>t, <1>w, <2>1 DEF Execute, SameStream
<1>3. ASSUME NEW w \in Watchers, Subscribe(w)
      PROVE  \/ SameStream(v) /\ (conn'[v] = "streaming" => conn[v] = "streaming")
             \/ Pushed(v, NoSub) /\ revision' > 0
  <2>1. sub' = [Woken EXCEPT ![w] = Push(NoSub, revision', memory')] /\ revision' > 0
    BY <1>3, <1>t DEF Subscribe, Woken, StateIsSound
  <2>2. CASE v = w
    BY <1>w, <2>1, <2>2, NoSubType DEF Pushed, Push, Subs
  <2>3. CASE v # w
    BY <1>3, <1>t, <1>w, <2>1, <2>3 DEF Subscribe, SameStream
  <2> QED
    BY <2>2, <2>3
<1>4. ASSUME NEW w \in Watchers, CheckRevision(w)
      PROVE  \/ SameStream(v) /\ (conn'[v] = "streaming" => conn[v] = "streaming")
             \/ Pushed(v, sub[v]) /\ conn[v] = "streaming" /\ revision' > sub[v].sent
  <2>1. /\ sub' = [Woken EXCEPT ![w] = IF IsNewer(revision', sub[w]) THEN Push(@, revision', memory')
                                        ELSE [@ EXCEPT !.waits = TRUE, !.woken = FALSE]]
        /\ conn' = conn /\ conn[w] = "streaming"
    BY <1>4 DEF CheckRevision, Woken
  <2>2. CASE v = w /\ IsNewer(revision', sub[w])
    <3>1. sub'[v] = Push(Woken[v], revision', memory') /\ Woken[v] \in Subs
      BY <1>w, <2>1, <2>2
    <3>2. Pushed(v, Woken[v])
      BY <3>1 DEF Pushed, Push, Subs
    <3> QED
      BY <1>w, <2>1, <2>2, <3>2 DEF Pushed, IsNewer
  <2>3. CASE v = w /\ ~IsNewer(revision', sub[w])
    <3>1. sub'[v] = [Woken[v] EXCEPT !.waits = TRUE, !.woken = FALSE] /\ Woken[v] \in Subs
      BY <1>w, <2>1, <2>3
    <3>2. /\ sub'[v].inbox = Woken[v].inbox /\ sub'[v].read = Woken[v].read
          /\ sub'[v].sent = Woken[v].sent /\ sub'[v].state = Woken[v].state
      BY <3>1 DEF Subs
    <3> QED
      BY <1>w, <2>1, <3>2 DEF SameStream
  <2>4. CASE v # w
    BY <1>w, <2>1, <2>4 DEF SameStream
  <2> QED
    BY <2>2, <2>3, <2>4
<1>5. ASSUME NEW w \in Watchers, Poll(w)
      PROVE  SameStream(v) /\ (conn'[v] = "streaming" => conn[v] = "streaming")
  BY <1>5, <1>t DEF Poll, SameStream, Subs
<1>6. ASSUME NEW w \in Watchers, Read(w)
      PROVE  \/ SameStream(v) /\ (conn'[v] = "streaming" => conn[v] = "streaming")
             \/ Taken(v) /\ conn' = conn /\ memory' = memory /\ revision' = revision
  BY <1>6, <1>t DEF Read, SameStream, Taken, Subs
<1>7. ASSUME NEW w \in Watchers, StreamTimeout(w) \/ StreamEnds(w) \/ Unsubscribe(w)
      PROVE  sub' = sub /\ (conn'[v] = "streaming" => conn[v] = "streaming")
  BY <1>7, <1>t DEF StreamTimeout, StreamEnds, Unsubscribe, HangUp
<1>8. ASSUME NEW h \in Hooks, Reply(h) \/ ReplyFails(h) \/ Cancel(h) \/ Fallback(h)
      PROVE  sub' = sub /\ (conn'[v] = "streaming" => conn[v] = "streaming")
  BY <1>8, <1>t DEF Reply, ReplyFails, Cancel, Fallback, HangUp
<1>9. ASSUME NEW c \in Clients, Dial(c) \/ Accept(c) \/ HandshakeTimeout(c)
      PROVE  sub' = sub /\ (conn'[v] = "streaming" => conn[v] = "streaming")
  BY <1>9, <1>t DEF Dial, Accept, HandshakeTimeout, HangUp
<1>10. ASSUME Start \/ Stop
       PROVE  sub' = sub /\ (conn'[v] = "streaming" => conn[v] = "streaming")
  BY <1>10, <1>t DEF Start, Stop
<1> QED
  BY <1>1, <1>2, <1>3, <1>4, <1>5, <1>6, <1>7, <1>8, <1>9, <1>10 DEF Next

\* Whatever the step, each stream goes on forward, and a running one ends in what was last sent.
LEMMA StepStream ==
  ASSUME BrokerAssumption, StateIsSound, StreamIsCurrent, Next
  PROVE  StreamIsCurrent'
<1> SUFFICES ASSUME NEW v \in Watchers PROVE Current(v)'
  BY DEF StreamIsCurrent
<1> DEFINE old == Stream(sub[v])
           new == Stream(sub'[v])
           n   == Len(sub[v].inbox)
<1>t. /\ sub[v] \in Subs /\ sub'[v] \in Subs /\ NoSub \in Subs
      /\ revision \in Nat /\ revision' \in Nat /\ memory \in Nat /\ memory' \in Nat
      /\ sub[v].sent \in Nat /\ sub[v].state \in Nat /\ sub[v].inbox \in Seq(Sent) /\ sub[v].read \in Sent
  <2>1. /\ memory' \in {0} \cup Hooks /\ memory \in {0} \cup Hooks /\ revision \in Nat /\ revision' \in Nat
        /\ sub \in [Watchers -> Subs] /\ sub' \in [Watchers -> Subs]
    BY StepSound DEF StateIsSound
  <2>2. memory \in Nat /\ memory' \in Nat
    BY <2>1 DEF BrokerAssumption
  <2> QED
    BY <2>1, <2>2, NoSubType DEF Subs
<1>o. /\ old \in Seq(Sent) /\ n \in Nat /\ Len(old) = n + 1 /\ old[1] = sub[v].read
      /\ \A i \in 1..n : old[i + 1] = sub[v].inbox[i]
  BY <1>t, StreamFacts
<1>u. /\ Len(new) = Len(sub'[v].inbox) + 1 /\ new[1] = sub'[v].read
      /\ \A i \in 1..Len(sub'[v].inbox) : new[i + 1] = sub'[v].inbox[i]
  <2>1. sub'[v] \in Subs
    BY <1>t
  <2>2. ASSUME NEW s \in Subs
        PROVE  /\ Len(Stream(s)) = Len(s.inbox) + 1 /\ Stream(s)[1] = s.read
               /\ \A i \in 1..Len(s.inbox) : Stream(s)[i + 1] = s.inbox[i]
    BY StreamFacts
  <2> QED
    BY <2>1, <2>2
<1>v. Len(sub'[v].inbox) = 1 => Len(new) = 2 /\ new[1] = sub'[v].read /\ new[2] = sub'[v].inbox[1]
  <2> HIDE DEF new
  <2>1. 1 \in 1..1 /\ 1 + 1 = 2
    OBVIOUS
  <2> QED
    BY <1>u, <2>1
<1>c. /\ Forward(old)
      /\ conn[v] = "streaming" =>
           /\ old[n + 1] = [rev |-> sub[v].sent, state |-> sub[v].state]
           /\ sub[v].sent <= revision
           /\ sub[v].sent = revision => sub[v].state = memory
           /\ sub[v].sent < revision => sub[v].state < memory
  BY <1>o DEF StreamIsCurrent, Current
<1>e. \A i \in 1..(n + 1) : old[i] \in Sent /\ old[i].rev \in Nat /\ old[i].state \in Nat
  <2> HIDE DEF old, n
  <2>1. \A i \in 1..(n + 1) : old[i] \in Sent
    BY <1>o
  <2>2. \A x \in Sent : x.rev \in Nat /\ x.state \in Nat
    BY DEF Sent
  <2> QED
    BY <2>1, <2>2
<1>1. CASE SameStream(v) /\ (conn'[v] = "streaming" => conn[v] = "streaming")
  <2>1. new = old
    BY <1>1 DEF SameStream, Stream
  <2> HIDE DEF old, new
  <2>2. conn'[v] = "streaming" =>
          /\ (memory' = memory /\ revision' = revision) \/ (memory' > memory /\ revision' = revision + 1)
          /\ old[n + 1] = [rev |-> sub[v].sent, state |-> sub[v].state]
          /\ sub[v].sent <= revision
          /\ sub[v].sent = revision => sub[v].state = memory
          /\ sub[v].sent < revision => sub[v].state < memory
    <3> SUFFICES ASSUME conn'[v] = "streaming"
                 PROVE  /\ (memory' = memory /\ revision' = revision) \/ (memory' > memory /\ revision' = revision + 1)
                        /\ old[n + 1] = [rev |-> sub[v].sent, state |-> sub[v].state]
                        /\ sub[v].sent <= revision
                        /\ sub[v].sent = revision => sub[v].state = memory
                        /\ sub[v].sent < revision => sub[v].state < memory
      OBVIOUS
    <3>1. conn[v] = "streaming"
      BY <1>1
    <3>2. (memory' = memory /\ revision' = revision) \/ (memory' > memory /\ revision' = revision + 1)
      BY <3>1, RevisionMoves
    <3> HIDE DEF n
    <3> QED
      BY <1>c, <3>1, <3>2
  <2>3. conn'[v] = "streaming" =>
          /\ sub'[v].sent <= revision'
          /\ sub'[v].sent = revision' => sub'[v].state = memory'
          /\ sub'[v].sent < revision' => sub'[v].state < memory'
    <3>1. sub'[v].sent = sub[v].sent /\ sub'[v].state = sub[v].state
      BY <1>1 DEF SameStream
    <3> QED
      BY <1>t, <2>2, <3>1
  <2>4. Forward(new) /\ (conn'[v] = "streaming" => new[Len(new)] = [rev |-> sub'[v].sent, state |-> sub'[v].state])
    BY <1>1, <1>c, <1>o, <2>1, <2>2 DEF SameStream
  <2> QED
    BY <2>3, <2>4 DEF Current, new
<1>2. CASE Taken(v) /\ conn' = conn /\ memory' = memory /\ revision' = revision
  <2>1. /\ n >= 1 /\ sub'[v].inbox = Tail(sub[v].inbox) /\ sub'[v].read = Head(sub[v].inbox)
        /\ sub'[v].sent = sub[v].sent /\ sub'[v].state = sub[v].state
    BY <1>2, <1>t DEF Taken
  <2>2. /\ Len(new) = n /\ Len(sub'[v].inbox) = n - 1 /\ new[1] = sub[v].inbox[1]
        /\ \A i \in 1..(n - 1) : new[i + 1] = sub[v].inbox[i + 1]
    <3> DEFINE box == sub[v].inbox
    <3>1. /\ Len(new) = Len(sub'[v].inbox) + 1 /\ new[1] = sub'[v].read
          /\ \A i \in 1..Len(sub'[v].inbox) : new[i + 1] = sub'[v].inbox[i]
      BY <1>u
    <3>2. box \in Seq(Sent) /\ Len(box) = n /\ n >= 1
      BY <1>t, <2>1
    <3> HIDE DEF box
    <3>3. /\ Len(Tail(box)) = Len(box) - 1 /\ Head(box) = box[1]
          /\ \A i \in 1..(Len(box) - 1) : Tail(box)[i] = box[i + 1]
      BY <3>2
    <3>4. sub'[v].inbox = Tail(box) /\ sub'[v].read = Head(box)
      BY <2>1 DEF box
    <3>5. n \in Nat
      BY <1>o
    <3> HIDE DEF n, new
    <3>6. /\ Len(new) = n /\ new[1] = box[1] /\ Len(sub'[v].inbox) = n - 1
          /\ \A i \in 1..(n - 1) : new[i + 1] = box[i + 1]
      BY <3>1, <3>2, <3>3, <3>4, <3>5
    <3> QED
      BY <3>6 DEF box
  <2> HIDE DEF old, new
  <2>3. \A i \in 1..n : new[i] = old[i + 1]
    <3> SUFFICES ASSUME NEW i \in 1..n PROVE new[i] = old[i + 1]
      OBVIOUS
    <3>1. CASE i = 1
      BY <1>o, <2>1, <2>2, <3>1
    <3>2. CASE i # 1
      <4>1. i - 1 \in 1..(n - 1) /\ (i - 1) + 1 = i
        BY <1>o, <3>2
      <4> QED
        BY <1>o, <2>2, <4>1
    <3> QED
      BY <3>1, <3>2
  <2>4. Forward(new)
    <3> SUFFICES ASSUME NEW i \in 1..(n - 1), new[i].rev > 0
                 PROVE  new[i + 1].rev > new[i].rev /\ new[i + 1].state > new[i].state
      BY <2>2 DEF Forward
    <3>1. i \in 1..n /\ i + 1 \in 1..n /\ i + 1 \in 1..(Len(old) - 1)
      BY <1>o
    <3> QED
      BY <1>c, <2>3, <3>1 DEF Forward
  <2>5. new[Len(new)] = old[n + 1]
    BY <1>o, <2>1, <2>2, <2>3
  <2> QED
    BY <1>2, <1>c, <2>1, <2>4, <2>5 DEF Current, new
<1>3. CASE Pushed(v, NoSub) /\ revision' > 0
  <2> DEFINE e == [rev |-> revision', state |-> memory']
  <2>1. /\ sub'[v].inbox = <<e>> /\ sub'[v].read = [rev |-> 0, state |-> 0]
        /\ sub'[v].sent = revision' /\ sub'[v].state = memory'
    BY <1>3, NoSubType DEF Pushed
  <2>2. Len(new) = 2 /\ new[1] = [rev |-> 0, state |-> 0] /\ new[2] = e
    <3>1. Len(sub'[v].inbox) = 1 /\ sub'[v].inbox[1] = e
      BY <2>1
    <3> HIDE DEF new, e
    <3>2. Len(new) = 2 /\ new[1] = sub'[v].read /\ new[2] = sub'[v].inbox[1]
      BY <1>v, <3>1
    <3> QED
      BY <2>1, <3>1, <3>2
  <2> HIDE DEF old, new
  <2>3. Forward(new)
    BY <2>2 DEF Forward
  <2> QED
    BY <1>t, <2>1, <2>2, <2>3 DEF Current, new
<1>4. CASE Pushed(v, sub[v]) /\ conn[v] = "streaming" /\ revision' > sub[v].sent
  <2> DEFINE e == [rev |-> revision', state |-> memory']
  <2>1. /\ sub'[v].inbox = Append(sub[v].inbox, e) /\ sub'[v].read = sub[v].read
        /\ sub'[v].sent = revision' /\ sub'[v].state = memory'
    BY <1>4 DEF Pushed
  <2>2. /\ Len(sub'[v].inbox) = n + 1 /\ sub'[v].inbox[n + 1] = e
        /\ \A i \in 1..n : sub'[v].inbox[i] = sub[v].inbox[i]
    BY <1>t, <2>1
  <2>3. /\ Len(new) = n + 2 /\ new[n + 2] = e /\ new[1] = old[1]
        /\ \A i \in 1..n : new[i + 1] = old[i + 1]
    <3>1. /\ Len(new) = (n + 1) + 1 /\ new[1] = sub'[v].read
          /\ \A i \in 1..(n + 1) : new[i + 1] = sub'[v].inbox[i]
      BY <1>t, <2>2, StreamFacts
    <3> HIDE DEF old, new, n, e
    <3>2. n + 1 \in 1..(n + 1) /\ (n + 1) + 1 = n + 2 /\ \A i \in 1..n : i \in 1..(n + 1)
      BY <1>o
    <3> QED
      BY <1>o, <2>1, <2>2, <3>1, <3>2
  <2> HIDE DEF old, new
  <2>4. \A i \in 1..(n + 1) : new[i] = old[i]
    <3> SUFFICES ASSUME NEW i \in 1..(n + 1) PROVE new[i] = old[i]
      OBVIOUS
    <3>1. CASE i = 1
      BY <2>3, <3>1
    <3>2. CASE i # 1
      <4>1. i - 1 \in 1..n /\ (i - 1) + 1 = i
        BY <1>o, <3>2
      <4> QED
        BY <2>3, <4>1
    <3> QED
      BY <3>1, <3>2
  <2>5. revision' > sub[v].sent /\ memory' > sub[v].state
    BY <1>4, <1>c, <1>t, RevisionMoves
  <2>6. Forward(new)
    <3> SUFFICES ASSUME NEW i \in 1..(n + 1), new[i].rev > 0
                 PROVE  new[i + 1].rev > new[i].rev /\ new[i + 1].state > new[i].state
      BY <1>o, <2>3 DEF Forward
    <3>1. CASE i = n + 1
      <4>1. new[i] = [rev |-> sub[v].sent, state |-> sub[v].state]
        BY <1>4, <1>c, <2>4, <3>1
      <4>2. new[i + 1] = e
        BY <1>o, <2>3, <3>1
      <4> QED
        BY <2>5, <4>1, <4>2
    <3>2. CASE i # n + 1
      <4>1. i \in 1..(Len(old) - 1) /\ i + 1 \in 1..(n + 1)
        BY <1>o, <3>2
      <4> QED
        BY <1>c, <2>4, <4>1 DEF Forward
    <3> QED
      BY <3>1, <3>2
  <2> QED
    BY <1>t, <2>1, <2>3, <2>6 DEF Current, new
<1> QED
  BY <1>1, <1>2, <1>3, <1>4, StreamMoves

-----------------------------------------------------------------------------
(* The theorems.                                                           *)

LEMMA StepKeepsInv == BrokerAssumption /\ BrokerInv /\ [Next]_vars => BrokerInv'
<1>1. CASE BrokerAssumption /\ BrokerInv /\ Next
  BY <1>1, StepSound, StepIdle, StepSlots, StepRecorded, StepStream DEF BrokerInv
<1>2. CASE BrokerInv /\ UNCHANGED vars
  BY <1>2 DEF vars, BrokerInv, StateIsSound, IdleIsApart, SlotsAreTaken, Served, ExecutedIsRecorded,
       Recorded, StreamIsCurrent, Current
<1> QED
  BY <1>1, <1>2

\* The inductive invariant: connections, slots, records and streams fit each other, whatever
\* replies are lost, whoever stays silent or stops reading, whenever the tracker stops
\* (brokerserver.Server, MemoryStore.WaitForRevision, client.Store).
THEOREM BrokerInvariance ==
  ASSUME BrokerAssumption
  PROVE  Spec => []BrokerInv
<1>1. Init => BrokerInv
  BY InitSound
<1>2. BrokerInv /\ [Next]_vars => BrokerInv'
  BY StepKeepsInv
<1> QED
  BY <1>1, <1>2, PTL DEF Spec

\* Slots stay within maxConnections, streams within what socket and channel hold, and every
\* client is somewhere a client can be.
THEOREM BrokerTypes ==
  ASSUME BrokerAssumption
  PROVE  Spec => []TypeOK
<1>1. BrokerInv => TypeOK
  <2> SUFFICES ASSUME BrokerInv PROVE TypeOK
    OBVIOUS
  <2>1. slots \in 0..MaxConnections
    BY FS_CardinalityType DEF BrokerInv, SlotsAreTaken, BrokerAssumption
  <2> QED
    BY <2>1 DEF TypeOK, BrokerInv, StateIsSound, ConnStates, ClientStates
<1> QED
  BY <1>1, BrokerInvariance, PTL

\* A slot is taken by exactly the connections that are served: each of the ways in which one
\* ends (reply, lost reply, handshake timeout, a subscriber that does not read, leaves or is
\* cut off by a stop) gives back one slot, once.
THEOREM SlotsAreReturned ==
  ASSUME BrokerAssumption
  PROVE  Spec => []SlotsAreConnections
<1>1. BrokerInv => SlotsAreConnections
  BY DEF BrokerInv, SlotsAreTaken, SlotsAreConnections
<1> QED
  BY <1>1, BrokerInvariance, PTL

\* A hook that returned without an error has its report, or newer ones, in the registry or in
\* the journal: through the broker, or through the fallback after a lost reply, also when the
\* tracker had executed the report and stopped before it answered.
THEOREM AcknowledgedReportsAreRecorded ==
  ASSUME BrokerAssumption
  PROVE  Spec => []AcknowledgedIsRecorded
<1>1. BrokerInv => AcknowledgedIsRecorded
  BY DEF BrokerInv, ExecutedIsRecorded, Recorded, AcknowledgedIsRecorded
<1> QED
  BY <1>1, BrokerInvariance, PTL

\* A subscription that was sent the current revision was sent the current state, so a
\* subscriber that waits in WaitForRevision misses nothing.
THEOREM RevisionsTellAll ==
  ASSUME BrokerAssumption
  PROVE  Spec => []RevisionTellsAll
<1>1. BrokerInv => RevisionTellsAll
  BY DEF BrokerInv, StreamIsCurrent, Current, RevisionTellsAll
<1> QED
  BY <1>1, BrokerInvariance, PTL

\* What a subscriber reads has strictly increasing revisions and never an older state, over
\* operations of other processes, journals that a drain consumes, and slow readers.
THEOREM SubscriptionsGoForward ==
  ASSUME BrokerAssumption
  PROVE  Spec => []StrictlyNewer
<1>1. BrokerInv => StrictlyNewer
  BY DEF BrokerInv, StreamIsCurrent, Current, Forward, Stream, StrictlyNewer
<1> QED
  BY <1>1, BrokerInvariance, PTL
=============================================================================
