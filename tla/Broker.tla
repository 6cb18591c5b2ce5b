------------------------------- MODULE Broker -------------------------------
(***************************************************************************)
(* The tracker's socket: internal/brokerserver serves connections with a   *)
(* fixed number of slots, pkg/broker is the client side. A hook records    *)
(* its report through the broker and falls back to the journal file when   *)
(* no broker answers (Store); a watcher subscribes to snapshots (client    *)
(* Subscribe, server serveSubscription, MemoryStore.WaitForRevision).      *)
(*                                                                         *)
(* Hooks are numbered, the number is the time of the hook's only report,   *)
(* and the registry is the time of the newest report reduced: an older or  *)
(* repeated one is dropped or a duplicate (Lifecycle.tla). What the files  *)
(* keep over a crash is JournalStore.tla's subject; here an acknowledged   *)
(* entry survives.                                                         *)
(***************************************************************************)
EXTENDS Naturals, Sequences, FiniteSets, FiniteSetsExt

CONSTANTS
  Hooks,            (* report times of the hooks                           *)
  Watchers,         (* subscribers                                         *)
  Silent,           (* clients that connect and send nothing               *)
  MaxConnections,   (* Server.maxConnections                               *)
  Window,           (* bound: snapshots in socket and channel unread       *)
  MaxStops          (* bound: how often the tracker stops                  *)

BrokerAssumption ==
  /\ Hooks \subseteq Nat \ {0} /\ MaxConnections \in Nat \ {0} /\ Window \in Nat \ {0}
  /\ MaxStops \in Nat /\ Watchers \cap Silent = {}

Clients == Hooks \cup Watchers \cup Silent

VARIABLES
  up,         (* a tracker listens                                         *)
  stops,      (* how often it stopped                                      *)
  conn,       (* the server's side of each client's connection             *)
  slots,      (* tokens in the semaphore                                   *)
  pc,         (* where each client is                                      *)
  memory,     (* the tracker's registry (the files' while it is down)      *)
  revision,   (* MemoryStore.revision                                      *)
  journal,    (* entries of fallback writers the tracker has not consumed  *)
  sub         (* each watcher: revision last sent, unread snapshots, the   *)
              (* last one read, whether the server waits and was woken     *)

vars == <<up, stops, conn, slots, pc, memory, revision, journal, sub>>

NoSub == [sent |-> 0, state |-> 0, inbox |-> << >>, read |-> [rev |-> 0, state |-> 0],
          waits |-> FALSE, woken |-> FALSE]

Init ==
  /\ up = FALSE /\ stops = 0
  /\ conn = [c \in Clients |-> "none"] /\ slots = 0
  /\ pc = [c \in Clients |-> "idle"]
  /\ memory = 0 /\ revision = 0 /\ journal = {}
  /\ sub = [w \in Watchers |-> NoSub]

Served == {c \in Clients : conn[c] \in {"serving", "executed", "streaming"}}

-----------------------------------------------------------------------------
(* The registry behind the socket.                                         *)

\* acceptSnapshotLocked with a visible change: a new revision, and everyone who
\* waits on the channel is woken.
WakeAll(subs) == [w \in Watchers |-> [subs[w] EXCEPT !.woken = @ \/ subs[w].waits]]

\* drainLocked and a command: consume the journal, reduce the reports.
Reduce(reports) ==
  /\ memory' = Max({memory} \cup reports \cup journal)
  /\ journal' = {}
  /\ IF memory' # memory
     THEN revision' = revision + 1 /\ sub' = WakeAll(sub)
     ELSE UNCHANGED <<revision, sub>>

-----------------------------------------------------------------------------
(* Connections.                                                            *)

\* Client.dial; without a listener the call is unavailable.
Dial(c) ==
  /\ pc[c] = "idle"
  /\ IF up
     THEN conn' = [conn EXCEPT ![c] = "queued"] /\ pc' = [pc EXCEPT ![c] = "sent"]
     ELSE conn' = conn /\ pc' = [pc EXCEPT ![c] = IF c \in Hooks THEN "fallback" ELSE "failed"]
  /\ UNCHANGED <<up, stops, slots, memory, revision, journal, sub>>

\* The accept loop: a slot, or the answer busy.
Accept(c) ==
  /\ up /\ conn[c] = "queued"
  /\ IF slots < MaxConnections
     THEN slots' = slots + 1 /\ conn' = [conn EXCEPT ![c] = "serving"] /\ pc' = pc
     ELSE /\ conn' = [conn EXCEPT ![c] = "none"] /\ slots' = slots
          /\ pc' = [pc EXCEPT ![c] = IF @ = "sent" THEN "failed" ELSE @]
  /\ UNCHANGED <<up, stops, memory, revision, journal, sub>>

\* The handler returns: the connection is closed and its slot released.
HangUp(c) == conn' = [conn EXCEPT ![c] = "none"] /\ slots' = slots - 1

\* Mutant: a lost reply is taken for a success.
LostIsFine(c) == IF pc[c] \notin {"sent", "subscribed"} THEN pc[c]
                 ELSE IF c \in Hooks THEN "done" ELSE "failed"

\* What a client makes of a lost transport: roundTrip's ErrNoReply, ErrStreamClosed.
Lost(c) == IF pc[c] \notin {"sent", "subscribed"} THEN pc[c]
           ELSE IF c \in Hooks THEN "fallback" ELSE "failed"

\* Mutant: a connection may stay silent.
HandshakeTimeoutNever(c) == FALSE /\ UNCHANGED vars

\* handshakeTimeout: the request did not come.
HandshakeTimeout(c) ==
  /\ conn[c] = "serving" /\ HangUp(c) /\ pc' = [pc EXCEPT ![c] = Lost(c)]
  /\ UNCHANGED <<up, stops, memory, revision, journal, sub>>

\* handleConnection, execute: MethodObserve.
Execute(h) ==
  /\ up /\ conn[h] = "serving" /\ Reduce({h})
  /\ conn' = [conn EXCEPT ![h] = "executed"]
  /\ UNCHANGED <<up, stops, slots, pc>>

\* writeResponse; the client may be gone.
Reply(h) ==
  /\ conn[h] = "executed" /\ HangUp(h)
  /\ pc' = [pc EXCEPT ![h] = IF @ = "sent" THEN "done" ELSE @]
  /\ UNCHANGED <<up, stops, memory, revision, journal, sub>>

\* writeTimeout, or the transport breaks.
ReplyFails(h) ==
  /\ conn[h] = "executed" /\ HangUp(h) /\ pc' = [pc EXCEPT ![h] = Lost(h)]
  /\ UNCHANGED <<up, stops, memory, revision, journal, sub>>

\* The hook's context ends while it waits; the server goes on.
Cancel(h) ==
  /\ pc[h] = "sent" /\ pc' = [pc EXCEPT ![h] = "failed"]
  /\ UNCHANGED <<up, stops, conn, slots, memory, revision, journal, sub>>

\* Store.Observe's fallback: Journal.Observe appends for a live tracker and
\* checkpoints without one.
Fallback(h) ==
  /\ pc[h] = "fallback" /\ pc' = [pc EXCEPT ![h] = "done"]
  /\ IF up THEN journal' = journal \cup {h} /\ memory' = memory
     ELSE journal' = journal /\ memory' = Max({memory, h})
  /\ UNCHANGED <<up, stops, conn, slots, revision, sub>>

-----------------------------------------------------------------------------
(* Subscriptions.                                                          *)

Push(s, rev, state) ==
  [s EXCEPT !.sent = rev, !.state = state, !.waits = FALSE, !.woken = FALSE,
            !.inbox = Append(@, [rev |-> rev, state |-> state])]

\* serveSubscription: the snapshot the stream starts with.
Subscribe(w) ==
  /\ up /\ conn[w] = "serving"
  /\ memory' = Max({memory} \cup journal) /\ journal' = {}
  /\ LET rev == IF memory' # memory THEN revision + 1 ELSE revision
         subs == IF memory' # memory THEN WakeAll(sub) ELSE sub
     IN  revision' = rev /\ sub' = [subs EXCEPT ![w] = Push(NoSub, rev, memory')]
  /\ conn' = [conn EXCEPT ![w] = "streaming"] /\ pc' = [pc EXCEPT ![w] = IF @ = "sent" THEN "subscribed" ELSE @]
  /\ UNCHANGED <<up, stops, slots>>

\* WaitForRevision returns.
IsNewer(rev, s) == rev > s.sent

\* One round of WaitForRevision's loop: drain, then send what is newer or take
\* the channel and wait. The drain itself wakes the others.
CheckRevision(w) ==
  /\ up /\ conn[w] = "streaming" /\ (sub[w].waits => sub[w].woken)
  /\ memory' = Max({memory} \cup journal) /\ journal' = {}
  /\ LET rev == IF memory' # memory THEN revision + 1 ELSE revision
         subs == IF memory' # memory THEN WakeAll(sub) ELSE sub
     IN  /\ revision' = rev
         /\ IsNewer(rev, sub[w]) => Len(sub[w].inbox) < Window
         /\ sub' = [subs EXCEPT ![w] = IF IsNewer(rev, sub[w]) THEN Push(@, rev, memory')
                                        ELSE [@ EXCEPT !.waits = TRUE, !.woken = FALSE]]
  /\ UNCHANGED <<up, stops, conn, slots, pc>>

\* defaultPersistenceSettle: the wait is polled, for entries of other processes.
Poll(w) ==
  /\ conn[w] = "streaming" /\ sub[w].waits /\ ~sub[w].woken
  /\ sub' = [sub EXCEPT ![w].woken = TRUE]
  /\ UNCHANGED <<up, stops, conn, slots, pc, memory, revision, journal>>

\* writeTimeout on a subscriber that does not read.
StreamTimeout(w) ==
  /\ conn[w] = "streaming" /\ Len(sub[w].inbox) = Window
  /\ HangUp(w)
  /\ UNCHANGED <<up, stops, pc, memory, revision, journal, sub>>

\* runSubscription hands a snapshot to the consumer.
Read(w) ==
  /\ pc[w] = "subscribed" /\ sub[w].inbox # << >>
  /\ sub' = [sub EXCEPT ![w].inbox = Tail(@), ![w].read = Head(sub[w].inbox)]
  /\ UNCHANGED <<up, stops, conn, slots, pc, memory, revision, journal>>

\* The stream ended and everything on it was read: ErrStreamClosed.
StreamEnds(w) ==
  /\ pc[w] = "subscribed" /\ sub[w].inbox = << >> /\ conn[w] = "none"
  /\ pc' = [pc EXCEPT ![w] = "failed"]
  /\ UNCHANGED <<up, stops, conn, slots, memory, revision, journal, sub>>

\* Subscription.Close; the server's reader goroutine notices and cancels.
Unsubscribe(w) ==
  /\ pc[w] = "subscribed" /\ pc' = [pc EXCEPT ![w] = "failed"]
  /\ IF conn[w] = "streaming" THEN HangUp(w) ELSE UNCHANGED <<conn, slots>>
  /\ UNCHANGED <<up, stops, memory, revision, journal, sub>>

-----------------------------------------------------------------------------
(* The tracker starts and stops.                                           *)

\* OpenMemoryStore and Serve: revisions start over.
Start ==
  /\ ~up /\ up' = TRUE
  /\ memory' = Max({memory} \cup journal) /\ journal' = {} /\ revision' = 1
  /\ UNCHANGED <<stops, conn, slots, pc, sub>>

\* The context ends or the process dies: listener and connections are closed.
Stop ==
  /\ up /\ stops < MaxStops /\ up' = FALSE /\ stops' = stops + 1
  /\ conn' = [c \in Clients |-> "none"] /\ slots' = 0
  /\ pc' = [c \in Clients |-> IF conn[c] = "none" \/ pc[c] = "subscribed"
                              THEN pc[c] ELSE Lost(c)]
  /\ UNCHANGED <<memory, revision, journal, sub>>

Next ==
  \/ Start \/ Stop
  \/ \E c \in Clients : Dial(c) \/ Accept(c) \/ HandshakeTimeout(c)
  \/ \E h \in Hooks : Execute(h) \/ Reply(h) \/ ReplyFails(h) \/ Cancel(h) \/ Fallback(h)
  \/ \E w \in Watchers : \/ Subscribe(w) \/ CheckRevision(w) \/ Poll(w) \/ StreamTimeout(w)
                         \/ Read(w) \/ StreamEnds(w) \/ Unsubscribe(w)

Spec == Init /\ [][Next]_vars

\* Goroutines, timers and the kernel's sockets run; a client may stay away and
\* the tracker may stay down.
Fairness ==
  /\ \A c \in Clients : WF_vars(Accept(c)) /\ WF_vars(HandshakeTimeout(c))
  /\ \A h \in Hooks : WF_vars(Execute(h)) /\ WF_vars(Reply(h)) /\ WF_vars(Fallback(h))
  /\ \A w \in Watchers : /\ WF_vars(Subscribe(w)) /\ WF_vars(CheckRevision(w)) /\ WF_vars(Poll(w))
                         /\ WF_vars(Read(w)) /\ WF_vars(StreamEnds(w))

FairSpec == Spec /\ Fairness

-----------------------------------------------------------------------------
(* Properties.                                                             *)

TypeOK ==
  /\ up \in BOOLEAN /\ stops \in 0..MaxStops /\ slots \in 0..MaxConnections
  /\ conn \in [Clients -> {"none", "queued", "serving", "executed", "streaming"}]
  /\ pc \in [Clients -> {"idle", "sent", "fallback", "done", "failed", "subscribed"}]
  /\ memory \in {0} \cup Hooks /\ revision \in Nat /\ journal \subseteq Hooks
  /\ \A w \in Watchers : Len(sub[w].inbox) <= Window

\* A hook that returned without an error has its report in the registry, or newer
\* ones, or in the journal, whichever reply was lost and whenever the tracker
\* stopped (Store: "Observations alone may also be retried once after a sent
\* request loses its reply").
AcknowledgedIsRecorded ==
  \A h \in Hooks : pc[h] = "done" => h <= memory \/ h \in journal

\* No slot is leaked or returned twice, on any of the ways a connection ends; a
\* leak would make the broker answer busy for ever.
SlotsAreConnections == slots = Cardinality(Served)

\* A subscription that was sent the current revision has been sent the current
\* state: no visible change hides behind an old revision.
RevisionTellsAll ==
  \A w \in Watchers : conn[w] = "streaming" /\ sub[w].sent = revision => sub[w].state = memory

\* Within a subscription revisions strictly increase and the state never goes back
\* (Client.Subscribe: "the initial snapshot followed by strictly newer revisions").
StrictlyNewer ==
  \A w \in Watchers :
    LET seen == <<sub[w].read>> \o sub[w].inbox
    IN  \A i \in 1..Len(seen) - 1 :
          seen[i].rev > 0 => seen[i + 1].rev > seen[i].rev /\ seen[i + 1].state > seen[i].state

\* Every report that reaches the registry or the journal while a subscription
\* stays open is seen by the subscriber in the end, also one that another process
\* appended to the journal file.
CatchesUp ==
  \A w \in Watchers, h \in Hooks :
    pc[w] = "subscribed" /\ conn[w] = "streaming" /\ (h <= memory \/ h \in journal)
      ~> \/ sub[w].read.state >= h \/ pc[w] # "subscribed" \/ conn[w] # "streaming"

\* A hook that has begun comes back, whatever happens to the broker.
HookReturns == \A h \in Hooks : pc[h] \in {"sent", "fallback"} ~> pc[h] \in {"done", "failed"}

\* A connection that does not subscribe gives its slot back.
SlotReturns == \A c \in Hooks \cup Silent : (c \in Served) ~> (c \notin Served)
=============================================================================
