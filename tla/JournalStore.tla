---------------------------- MODULE JournalStore ----------------------------
(***************************************************************************)
(* The durable half of pkg/registry: a snapshot file, an append-only       *)
(* journal next to it, the store lock (<path>.lock) that serialises every  *)
(* access to the two files, and the owner lock (<path>.owner.lock) held by *)
(* the tracker for as long as its memory is authoritative.                 *)
(*                                                                         *)
(* Two kinds of process work on the files. A writer (type Journal: a hook  *)
(* or a CLI command that could not reach the tracker) folds the files and  *)
(* adds one command: as a new snapshot if there is no owner, as a journal  *)
(* entry if there is one. The tracker (type MemoryStore) keeps the folded  *)
(* state in memory, consumes what writers appended before every operation, *)
(* journals its own commands, and checkpoints its memory from time to      *)
(* time. Evidence refreshes (heartbeats) live in memory only, until the    *)
(* next checkpoint.                                                        *)
(*                                                                         *)
(* Every write to a file is a step of its own, a process can crash between *)
(* any two of them (the kernel then drops its locks), and every write can  *)
(* fail with or without having taken effect.                               *)
(*                                                                         *)
(* Data. A report is a member of Reports; the registry's content is the    *)
(* set of reports it reflects, plus `ev`, the number of evidence refreshes *)
(* since the last reset. A report in Late is older than any refresh, so    *)
(* the reducer accepts it only while ev = 0 (lifecycle.go: terminalStale,  *)
(* replacementRejected); a report in Tombs leaves an identified gone       *)
(* session behind, which GC and tombstone expiry remove.                   *)
(***************************************************************************)
EXTENDS Naturals, Sequences, FiniteSets

CONSTANTS
  Writers,     (* processes that use the Journal fallback                  *)
  Tracker,     (* the process that opens the MemoryStore                   *)
  None,        (* no process holds a lock                                  *)
  Reports,     (* reports, each submitted at most once                     *)
  Late,        (* reports older than any evidence refresh                  *)
  Tombs,       (* reports whose session is gone and collectable            *)
  MaxSeq,      (* bound: journal sequence numbers                          *)
  MaxEv,       (* bound: evidence refreshes since the last reset           *)
  MaxFaults    (* bound: crashes and failed writes                         *)

ASSUME ProcsAssumption == /\ Tracker \notin Writers
                          /\ None \notin Writers \cup {Tracker}
ASSUME ReportsAssumption == Late \subseteq Reports /\ Tombs \subseteq Reports
ASSUME BoundsAssumption == MaxSeq \in Nat /\ MaxEv \in Nat /\ MaxFaults \in Nat

VARIABLES
  snap,        (* the snapshot file                                        *)
  journal,     (* the complete lines of the journal file                   *)
  torn,        (* the journal file ends in an incomplete line              *)
  lock,        (* holder of the store lock                                 *)
  owner,       (* holder of the owner lock                                 *)
  mem,         (* MemoryStore.snapshot                                     *)
  unsaved,     (* storageRevision and visibleRevision past persistedRevision*)
  status,      (* the tracker: down, opening, up, closing, flushed         *)
  pc,          (* what each process does next with the files               *)
  entry,       (* the journal entry a process is writing                   *)
  cand,        (* the content a process is about to persist or accept      *)
  op,          (* the tracker operation that holds the lock                *)
  faults,      (* crashes and failed writes so far                         *)
  used,        (* history: reports submitted so far                        *)
  acked,       (* history: reports whose submitter was told they succeeded *)
  removed,     (* history: reports that have left the files' content       *)
  cleared,     (* history: reports in the files when a reset was published *)
  refused,     (* history: reports the tracker rejected consuming a journal*)
  ignored      (* history: reports the tracker dropped as its own commands *)

files   == <<snap, journal, torn>>
tracker == <<mem, unsaved, status, op>>
local   == <<pc, entry, cand>>
history == <<used, acked, refused, ignored>>
gone    == <<removed, cleared>>
vars    == <<files, lock, owner, tracker, local, faults, history, gone>>

Procs == Writers \cup {Tracker}

-----------------------------------------------------------------------------
(* Content of the registry, journal entries, and the fold over a journal.  *)

Content == [seq : 0..MaxSeq, ids : SUBSET Reports, ev : 0..MaxEv]
Entry   == [seq : 0..MaxSeq, kind : {"observe", "gc", "reset"}, ids : SUBSET Reports]

\* newSnapshot with a sequence number.
Empty(seq) == [seq |-> seq, ids |-> {}, ev |-> 0]

NoEntry == [seq |-> 0, kind |-> "observe", ids |-> {}]

\* A report older than the newest evidence is dropped by the reducer.
Accepts(ev, x) == x \in Late => ev = 0

\* Mutant: the applied entry counts twice.
ApplyEntrySkipsOne(c, e) ==
  [c EXCEPT !.seq = e.seq + 1, !.ids = IF e.kind = "observe" THEN @ \cup e.ids ELSE {}]

\* Mutant: GC leaves the gone sessions in place.
ApplyEntryWithoutGC(c, e) ==
  CASE e.kind = "reset"   -> Empty(e.seq)
    [] e.kind = "gc"      -> [c EXCEPT !.seq = e.seq]
    [] e.kind = "observe" ->
         [c EXCEPT !.seq = e.seq, !.ids = @ \cup {x \in e.ids : Accepts(c.ev, x)}]

\* applyJournalEntry: one entry applied to a content.
ApplyEntry(c, e) ==
  CASE e.kind = "reset"   -> Empty(e.seq)
    [] e.kind = "gc"      -> [c EXCEPT !.seq = e.seq, !.ids = @ \ Tombs]
    [] e.kind = "observe" ->
         [c EXCEPT !.seq = e.seq, !.ids = @ \cup {x \in e.ids : Accepts(c.ev, x)}]

\* Entries a fold from sequence q does not skip.
Pending(q, j) == {i \in 1..Len(j) : j[i].seq > q}

\* Report x, present before entry i + 1, is deleted by a later entry.
Deleted(q, j, i, x) ==
  \E k \in Pending(q, j) : k > i /\ \/ j[k].kind = "reset"
                                    \/ (j[k].kind = "gc" /\ x \in Tombs)

\* Evidence in force when entry i is applied.
EvAt(c, j, i) ==
  IF \E k \in Pending(c.seq, j) : k <= i /\ j[k].kind = "reset" THEN 0 ELSE c.ev

\* Reports the fold adds, and those it drops as older than the evidence.
Added(c, j) ==
  {x \in Reports : \E i \in Pending(c.seq, j) :
     j[i].kind = "observe" /\ x \in j[i].ids /\ Accepts(EvAt(c, j, i), x)
                           /\ ~Deleted(c.seq, j, i, x)}
Dropped(c, j) ==
  {x \in Reports : \E i \in Pending(c.seq, j) :
     j[i].kind = "observe" /\ x \in j[i].ids /\ ~Accepts(EvAt(c, j, i), x)}

\* foldJournal and replayJournal: ApplyEntry over the entries whose sequence
\* exceeds c's, in closed form (FoldAgrees: it is what the loop arrives at).
Fold(c, j) ==
  [seq |-> IF Pending(c.seq, j) = {} THEN c.seq ELSE j[Len(j)].seq,
   ids |-> {x \in c.ids : ~Deleted(c.seq, j, 0, x)} \cup Added(c, j),
   ev  |-> EvAt(c, j, Len(j))]

\* The loop of foldJournal and replayJournal as the code runs it: the content after each
\* entry; an entry that is not newer than the content so far is skipped.
Rounds(c, j) ==
  LET acc[i \in 0..Len(j)] ==
        IF i = 0 THEN c
        ELSE IF j[i].seq <= acc[i - 1].seq THEN acc[i - 1] ELSE ApplyEntry(acc[i - 1], j[i])
  IN  acc
FoldLoop(c, j) == Rounds(c, j)[Len(j)]

\* What loadLocked returns: the state a reader or a restarted tracker sees.
Recovered == Fold(snap, journal)

\* Mutant: the tracker never looks at the snapshot file again.
BaselineIsMemory == mem

\* journalBaseline: the snapshot file if it is ahead of memory.
Baseline == IF snap.seq > mem.seq THEN snap ELSE mem

\* Mutant: operations do not consume the journal.
ConsumedNothing == mem

\* consumeJournalLocked: memory brought up to date, and what it rejects.
Consumed == Fold(Baseline, journal)
Rejects  == Dropped(Baseline, journal)

\* Mutant: rejected entries are only logged.
NoCheckpoint == FALSE

\* A rejection is checkpointed before the tracker goes on.
NeedsCheckpoint == Rejects # {}

\* Mutant: the position of a reset ignores the journal.
ResetPositionOfSnapshot(q) == snap.seq

\* resetJournalPosition: the highest sequence number in memory or in the files.
ResetPosition(q) ==
  LET seqs == {q, snap.seq} \cup {journal[i].seq : i \in 1..Len(journal)}
  IN  CHOOSE s \in seqs : \A t \in seqs : t <= s

-----------------------------------------------------------------------------
Init ==
  /\ snap = Empty(0) /\ journal = <<>> /\ torn = FALSE
  /\ lock = None /\ owner = None
  /\ mem = Empty(0) /\ unsaved = "none" /\ status = "down" /\ op = "none"
  /\ pc = [p \in Procs |-> "idle"]
  /\ entry = [p \in Procs |-> NoEntry]
  /\ cand = [p \in Procs |-> Empty(0)]
  /\ faults = 0
  /\ used = {} /\ acked = {} /\ removed = {} /\ cleared = {} /\ refused = {} /\ ignored = {}

-----------------------------------------------------------------------------
(* How a critical section ends.                                            *)

\* The locals of a finished or crashed operation are gone.
Forget(p) ==
  /\ pc' = [pc EXCEPT ![p] = "idle"]
  /\ entry' = [entry EXCEPT ![p] = NoEntry]
  /\ cand' = [cand EXCEPT ![p] = Empty(0)]

\* closeStoreLock, and for a writer also closeStoreLock on the owner lock.
Release(p) ==
  /\ lock' = None
  /\ owner' = IF p \in Writers /\ owner = p THEN None ELSE owner
  /\ Forget(p)

\* Mutant: only visible changes count as something to persist.
AcceptVisibleOnly(c) ==
  /\ mem' = c
  /\ unsaved' = IF c.ids # mem.ids THEN "visible" ELSE unsaved

\* acceptSnapshotLocked: content c replaces the memory. Any replacement leaves
\* something to persist; one that changes what consumers see is urgent.
Accept(c) ==
  /\ mem' = c
  /\ unsaved' = IF unsaved = "visible" \/ c.ids # mem.ids THEN "visible" ELSE "hidden"

\* What a finished Flush lets OpenMemoryStore and Close go on to.
AfterFlush(st) == CASE st = "opening" -> "up"
                    [] st = "closing" -> "flushed"
                    [] OTHER -> st

\* The operation returns an error and releases its locks. OpenMemoryStore gives
\* up the owner lock when its first Flush fails.
Fail(p) ==
  /\ faults < MaxFaults
  /\ faults' = faults + 1
  /\ lock' = None
  /\ Forget(p)
  /\ LET abandoned == p = Tracker /\ status = "opening" IN
       /\ owner' = IF owner = p /\ (p \in Writers \/ abandoned) THEN None ELSE owner
       /\ mem' = IF abandoned THEN Empty(0) ELSE mem
       /\ unsaved' = IF abandoned THEN "none" ELSE unsaved
       /\ status' = IF abandoned THEN "down"
                    ELSE IF p = Tracker /\ op = "persist" THEN AfterFlush(status)
                    ELSE status
  /\ op' = IF p = Tracker THEN "none" ELSE op
  /\ UNCHANGED history

-----------------------------------------------------------------------------
(* Writes to the files, by whoever holds the store lock.                   *)

\* appendJournal: discard an incomplete tail, write the line, sync. The tracker
\* then accepts the candidate (commandLocked); a writer is done (transactLocked).
AppendJournal(p) ==
  /\ pc[p] = "append"
  /\ journal' = Append(journal, entry[p])
  /\ torn' = FALSE
  /\ Release(p)
  /\ IF p = Tracker
     THEN Accept(cand[p]) /\ op' = "none"
     ELSE UNCHANGED <<mem, unsaved, op>>
  /\ acked' = acked \cup entry[p].ids
  /\ ignored' = IF p = Tracker
                THEN ignored \cup {x \in entry[p].ids : ~Accepts(mem.ev, x)}
                ELSE ignored
  /\ UNCHANGED <<snap, status, faults, used, refused>>

\* writeJournal fails: nothing was written, or part of the line was and could
\* not be truncated away, or the whole line was and only Sync or Close failed.
AppendFails(p) ==
  /\ pc[p] = "append"
  /\ \/ journal' = journal /\ torn' \in BOOLEAN
     \/ journal' = Append(journal, entry[p]) /\ torn' = FALSE
  /\ Fail(p)
  /\ UNCHANGED snap

\* writeSnapshotAtomic, the first half of persistJournalSnapshot. From here on the
\* entries that a checkpointed rejection dropped are out of the files.
WriteSnapshot(p) ==
  /\ pc[p] \in {"snap", "reject_snap"}
  /\ snap' = cand[p]
  /\ pc' = [pc EXCEPT ![p] = IF @ = "snap" THEN "trunc" ELSE "reject_trunc"]
  /\ refused' = IF pc[p] = "reject_snap" THEN refused \cup Rejects ELSE refused
  /\ UNCHANGED <<journal, torn, lock, owner, tracker, entry, cand, faults, used, acked, ignored>>

\* writeSnapshotAtomic fails before the rename, or after it in syncDir.
WriteSnapshotFails(p) ==
  /\ pc[p] \in {"snap", "reject_snap"}
  /\ snap' \in {snap, cand[p]}
  /\ Fail(p)
  /\ UNCHANGED <<journal, torn>>

\* The second half of persistJournalSnapshot, for a writer, for
\* MemoryStore.persist (cand = mem) and for a reset by the tracker.
TruncateJournal(p) ==
  /\ pc[p] = "trunc"
  /\ journal' = <<>> /\ torn' = FALSE
  /\ Release(p)
  /\ IF p = Tracker
     THEN /\ IF op = "persist"
             THEN unsaved' = "none" /\ UNCHANGED mem
             ELSE Accept(cand[p])
          /\ status' = IF op = "persist" THEN AfterFlush(status) ELSE status
          /\ op' = "none"
          /\ UNCHANGED acked
     ELSE /\ acked' = acked \cup entry[p].ids
          /\ UNCHANGED tracker
  /\ UNCHANGED <<snap, faults, used, refused, ignored>>

\* The same after consumeJournalLocked rejected entries: the candidate becomes
\* the memory and the operation goes on.
TruncateRejected ==
  /\ pc[Tracker] = "reject_trunc"
  /\ journal' = <<>> /\ torn' = FALSE
  /\ Accept(cand[Tracker])
  /\ pc' = [pc EXCEPT ![Tracker] = "act"]
  /\ UNCHANGED <<snap, lock, owner, status, op, entry, cand, faults, history>>

\* Opening, syncing or closing the truncated journal fails.
TruncateFails(p) ==
  /\ pc[p] \in {"trunc", "reject_trunc"}
  /\ \/ UNCHANGED <<journal, torn>>
     \/ journal' = <<>> /\ torn' = FALSE
  /\ Fail(p)
  /\ UNCHANGED snap

\* resetJournalSnapshot: the journal is atomically replaced by the reset entry
\* before the empty snapshot is written.
PublishReset(p) ==
  /\ pc[p] = "reset"
  /\ journal' = <<entry[p]>> /\ torn' = FALSE
  /\ pc' = [pc EXCEPT ![p] = "snap"]
  /\ UNCHANGED <<snap, lock, owner, tracker, entry, cand, faults, history>>

\* writeRegistryAtomic fails before the rename, or after it in syncDir.
PublishResetFails(p) ==
  /\ pc[p] = "reset"
  /\ \/ UNCHANGED <<journal, torn>>
     \/ journal' = <<entry[p]>> /\ torn' = FALSE
  /\ Fail(p)
  /\ UNCHANGED snap

-----------------------------------------------------------------------------
(* Fallback writers.                                                       *)

\* Journal.transactLocked: fold the files, apply the command, and look whether
\* the registry has an owner. Without one the writer checkpoints the result
\* (holding the owner lock), with one it appends the command.
WriterCommand(w, kind, ids) ==
  /\ pc[w] = "idle" /\ lock = None
  /\ Recovered.seq < MaxSeq
  /\ lock' = w
  /\ LET e == [seq |-> Recovered.seq + 1, kind |-> kind, ids |-> ids] IN
       /\ entry' = [entry EXCEPT ![w] = e]
       /\ IF owner = None
          THEN /\ owner' = w
               /\ cand' = [cand EXCEPT ![w] = ApplyEntry(Recovered, e)]
               /\ pc' = [pc EXCEPT ![w] = "snap"]
          ELSE /\ pc' = [pc EXCEPT ![w] = "append"]
               /\ UNCHANGED <<owner, cand>>
  /\ used' = used \cup ids
  /\ UNCHANGED <<files, tracker, faults, acked, refused, ignored>>

\* Journal.Reset, which does not look for an owner.
WriterReset(w) ==
  /\ pc[w] = "idle" /\ lock = None
  /\ ResetPosition(0) < MaxSeq
  /\ lock' = w
  /\ LET q == ResetPosition(0) + 1 IN
       /\ entry' = [entry EXCEPT ![w] = [seq |-> q, kind |-> "reset", ids |-> {}]]
       /\ cand' = [cand EXCEPT ![w] = Empty(q)]
  /\ pc' = [pc EXCEPT ![w] = "reset"]
  /\ UNCHANGED <<files, owner, tracker, faults, history>>

-----------------------------------------------------------------------------
(* The tracker.                                                            *)

\* OpenMemoryStoreWithOptions up to its Flush: take the owner lock, load, drop
\* the tombstones whose TTL has passed.
TrackerOpen(expired) ==
  /\ status = "down" /\ lock = None /\ owner = None
  /\ owner' = Tracker
  /\ mem' = [Recovered EXCEPT !.ids = @ \ expired]
  /\ unsaved' = "visible"
  /\ status' = "opening"
  /\ UNCHANGED <<files, lock, op, local, faults, history>>

\* Every operation but Reset starts by consuming the journal: at once when the
\* reducer takes every entry, through a checkpoint when it rejects one.
TrackerBegin(o, ids) ==
  /\ status # "down" /\ pc[Tracker] = "idle" /\ lock = None
  /\ status = "opening" => o = "persist"
  /\ o = "refresh" => mem.ev < MaxEv /\ Consumed.ids # {}
  /\ o \in {"observe", "gc"} => Consumed.seq < MaxSeq
  /\ lock' = Tracker
  /\ op' = o
  /\ entry' = [entry EXCEPT ![Tracker].ids = ids]
  /\ used' = used \cup ids
  /\ IF NeedsCheckpoint
     THEN /\ cand' = [cand EXCEPT ![Tracker] = Consumed]
          /\ pc' = [pc EXCEPT ![Tracker] = "reject_snap"]
          /\ UNCHANGED <<mem, unsaved, refused>>
     ELSE /\ IF Consumed.seq = mem.seq
             THEN UNCHANGED <<mem, unsaved>>
             ELSE Accept(Consumed)
          /\ refused' = refused \cup Rejects
          /\ pc' = [pc EXCEPT ![Tracker] = "act"]
          /\ UNCHANGED cand
  /\ UNCHANGED <<files, owner, status, faults, acked, ignored>>

\* State, Get, WaitForRevision: nothing beyond drainLocked.
TrackerDrain ==
  /\ pc[Tracker] = "act" /\ op = "drain"
  /\ Release(Tracker)
  /\ op' = "none"
  /\ UNCHANGED <<files, mem, unsaved, status, faults, history>>

\* Mutant: evidence refreshes take a sequence number.
TrackerRefreshNumbered(expired) ==
  /\ pc[Tracker] = "act" /\ op = "refresh"
  /\ Release(Tracker)
  /\ mem.ev < MaxEv /\ mem.seq < MaxSeq
  /\ Accept([mem EXCEPT !.ev = @ + 1, !.seq = @ + 1, !.ids = @ \ expired])
  /\ op' = "none"
  /\ UNCHANGED <<files, status, faults, history>>

\* commandLocked for a batch that only refreshes evidence of known sessions:
\* neither journaled nor numbered.
TrackerRefresh(expired) ==
  /\ pc[Tracker] = "act" /\ op = "refresh"
  /\ Release(Tracker)
  /\ mem.ev < MaxEv
  /\ Accept([mem EXCEPT !.ev = @ + 1, !.ids = @ \ expired])
  /\ op' = "none"
  /\ UNCHANGED <<files, status, faults, history>>

\* commandLocked for reports and GC: number the entry, reduce it into a
\* candidate, journal it.
TrackerCommand(expired) ==
  /\ pc[Tracker] = "act" /\ op \in {"observe", "gc"}
  /\ mem.seq < MaxSeq
  /\ LET e == [seq |-> mem.seq + 1, kind |-> op, ids |-> entry[Tracker].ids] IN
       /\ entry' = [entry EXCEPT ![Tracker] = e]
       /\ cand' = [cand EXCEPT ![Tracker] =
                     [ApplyEntry(mem, e) EXCEPT !.ids = @ \ expired]]
  /\ pc' = [pc EXCEPT ![Tracker] = "append"]
  /\ UNCHANGED <<files, lock, owner, tracker, faults, history>>

\* Mutant: evidence-only changes are never due.
PersistDueVisibleOnly(u, elapsed) == u = "visible"

\* persistDueLocked; elapsed is the background interval having passed, or force.
PersistDue(u, elapsed) == u = "visible" \/ (u = "hidden" /\ elapsed)

\* MemoryStore.persist after consuming: expire tombstones, checkpoint if due.
TrackerPersist(expired, elapsed) ==
  /\ pc[Tracker] = "act" /\ op = "persist"
  /\ status \in {"opening", "closing"} => elapsed
  /\ LET c == [mem EXCEPT !.ids = @ \ expired]
         u == IF c = mem THEN unsaved ELSE "visible" IN
       /\ mem' = c
       /\ unsaved' = u
       /\ IF PersistDue(u, elapsed)
          THEN /\ cand' = [cand EXCEPT ![Tracker] = c]
               /\ pc' = [pc EXCEPT ![Tracker] = "snap"]
               /\ UNCHANGED <<lock, owner, op, status, entry>>
          ELSE /\ Release(Tracker)
               /\ op' = "none"
               /\ status' = AfterFlush(status)
  /\ UNCHANGED <<files, faults, history>>

\* commandLocked for Reset: no consumption, memory counts for the position.
TrackerReset ==
  /\ status \in {"up", "closing", "flushed"} /\ pc[Tracker] = "idle" /\ lock = None
  /\ ResetPosition(mem.seq) < MaxSeq
  /\ lock' = Tracker
  /\ op' = "reset"
  /\ LET q == ResetPosition(mem.seq) + 1 IN
       /\ entry' = [entry EXCEPT ![Tracker] = [seq |-> q, kind |-> "reset", ids |-> {}]]
       /\ cand' = [cand EXCEPT ![Tracker] = Empty(q)]
  /\ pc' = [pc EXCEPT ![Tracker] = "reset"]
  /\ UNCHANGED <<files, owner, mem, unsaved, status, faults, history>>

\* Close: a Flush (a persist in status closing, whether it fails or not), then
\* the owner lock. Other operations can come between the two.
TrackerClose ==
  /\ status = "up" /\ pc[Tracker] = "idle"
  /\ status' = "closing"
  /\ UNCHANGED <<files, lock, owner, mem, unsaved, op, local, faults, history>>

TrackerReleaseOwner ==
  /\ status = "flushed" /\ pc[Tracker] = "idle"
  /\ owner' = None /\ status' = "down"
  /\ mem' = Empty(0) /\ unsaved' = "none"
  /\ UNCHANGED <<files, lock, op, local, faults, history>>

-----------------------------------------------------------------------------
(* Crashes: the kernel drops the locks, a line being appended may be torn. *)

CrashTorn(p) == IF pc[p] = "append" THEN torn' \in BOOLEAN ELSE UNCHANGED torn

WriterCrash(w) ==
  /\ faults < MaxFaults
  /\ pc[w] # "idle"
  /\ faults' = faults + 1
  /\ CrashTorn(w)
  /\ Release(w)
  /\ UNCHANGED <<snap, journal, tracker, history>>

TrackerCrash ==
  /\ faults < MaxFaults
  /\ status # "down"
  /\ faults' = faults + 1
  /\ CrashTorn(Tracker)
  /\ lock' = IF lock = Tracker THEN None ELSE lock
  /\ owner' = None
  /\ Forget(Tracker)
  /\ mem' = Empty(0) /\ unsaved' = "none" /\ status' = "down" /\ op' = "none"
  /\ UNCHANGED <<snap, journal, history>>

-----------------------------------------------------------------------------
FileStep(p) ==
  \/ AppendJournal(p) \/ AppendFails(p)
  \/ WriteSnapshot(p) \/ WriteSnapshotFails(p)
  \/ TruncateJournal(p) \/ TruncateFails(p)
  \/ PublishReset(p) \/ PublishResetFails(p)

WriterStep(w) ==
  \/ \E x \in Reports \ used : WriterCommand(w, "observe", {x})
  \/ WriterCommand(w, "gc", {})
  \/ WriterReset(w)
  \/ WriterCrash(w)

TrackerStep ==
  \/ TruncateRejected
  \/ \E x \in Reports \ used : TrackerBegin("observe", {x})
  \/ \E o \in {"drain", "refresh", "gc", "persist"} : TrackerBegin(o, {})
  \/ TrackerDrain
  \/ TrackerReset \/ TrackerClose \/ TrackerReleaseOwner \/ TrackerCrash
  \/ \E expired \in {{}, Tombs} :
       \/ TrackerOpen(expired) \/ TrackerRefresh(expired) \/ TrackerCommand(expired)
       \/ \E elapsed \in BOOLEAN : TrackerPersist(expired, elapsed)

\* A reset entry takes the place of the journal.
ResetPublished == \E p \in Procs : pc[p] = "reset" /\ journal' = <<entry[p]>>

\* The history variables that see every change of the files' content.
Track ==
  /\ removed' = removed \cup (Recovered.ids \ Recovered'.ids)
  /\ cleared' = IF ResetPublished THEN cleared \cup Recovered.ids ELSE cleared

Next ==
  /\ \/ \E p \in Procs : FileStep(p)
     \/ \E w \in Writers : WriterStep(w)
     \/ TrackerStep
  /\ Track

Spec == Init /\ [][Next]_vars

\* Scheduling: a process inside a critical section goes on (no one can stop it),
\* and RunPersistence, which wakes at least every two seconds, gets the store's
\* mutex and lock again and again; Go's mutex hands over to a waiter that
\* starves. The background interval passes for some of those attempts.
Fairness ==
  /\ \A p \in Procs : WF_vars(FileStep(p) /\ Track)
  /\ WF_vars((TruncateRejected \/ TrackerDrain) /\ Track)
  /\ WF_vars((\E expired \in {{}, Tombs} : TrackerRefresh(expired) \/ TrackerCommand(expired)) /\ Track)
  /\ WF_vars((\E expired \in {{}, Tombs}, elapsed \in BOOLEAN : TrackerPersist(expired, elapsed)) /\ Track)
  /\ SF_vars(TrackerBegin("persist", {}) /\ Track)
  /\ SF_vars((\E expired \in {{}, Tombs} : TrackerPersist(expired, TRUE)) /\ Track)

FairSpec == Spec /\ Fairness

-----------------------------------------------------------------------------
(* Properties.                                                             *)

TypeOK ==
  /\ snap \in Content /\ mem \in Content
  /\ journal \in Seq(Entry) /\ torn \in BOOLEAN
  /\ lock \in Procs \cup {None} /\ owner \in Procs \cup {None}
  /\ unsaved \in {"none", "hidden", "visible"}
  /\ status \in {"down", "opening", "up", "closing", "flushed"}
  /\ op \in {"none", "drain", "refresh", "observe", "gc", "persist", "reset"}
  /\ pc \in [Procs -> {"idle", "act", "append", "snap", "trunc", "reset",
                       "reject_snap", "reject_trunc"}]
  /\ entry \in [Procs -> Entry] /\ cand \in [Procs -> Content]
  /\ faults \in 0..MaxFaults
  /\ used \subseteq Reports /\ acked \subseteq Reports
  /\ removed \subseteq Reports /\ cleared \subseteq Reports
  /\ refused \subseteq Reports /\ ignored \subseteq Reports

\* The closed form of the fold is what the loop computes, from the snapshot
\* (foldJournal) and from the tracker's memory (replayJournal).
FoldAgrees ==
  /\ Fold(snap, journal) = FoldLoop(snap, journal)
  /\ Fold(Baseline, journal) = FoldLoop(Baseline, journal)

\* A report whose submitter was told it succeeded is in the files from then on,
\* whatever crashes or fails and whoever checkpoints, until a reset is published.
\* Only a gone session's report can be collected, and only one older than newer
\* evidence rejected (appendJournal syncs before it returns, persistJournalSnapshot
\* renames before it truncates, consumeJournalLocked comes before every command).
Durable == acked \ (Late \cup Tombs) \subseteq Recovered.ids \cup cleared

\* What reset, GC or a checkpoint took out of the files never comes back, not
\* from journal entries older than the reset, and not from the memory of a
\* tracker that was alive all the while (resetJournalSnapshot, journalBaseline).
NotResurrected ==
  /\ removed \cap Recovered.ids = {}
  /\ status # "down" => removed \cap Consumed.ids = {}

\* The journal's sequence numbers increase, and those a fold does not skip
\* continue the snapshot's without a gap (or start with a reset beyond it),
\* although evidence refreshes are not numbered, failed checkpoints leave
\* entries behind, and writers and tracker number from different copies.
JournalContiguous ==
  /\ \A i \in 1..Len(journal) - 1 : journal[i].seq < journal[i + 1].seq
  /\ \A i \in Pending(snap.seq, journal) :
       \/ journal[i].kind = "reset"
       \/ journal[i].seq = snap.seq + 1
       \/ (i > 1 /\ journal[i].seq = journal[i - 1].seq + 1)

\* The state the tracker serves after consuming the journal is the state a
\* restart would recover, except for reports it rejected and tombstones it
\* expired; it never serves a report the files do not hold.
OwnerAgrees ==
  status # "down" =>
    /\ Consumed.seq = Recovered.seq
    /\ Consumed.ids \subseteq Recovered.ids
    /\ Recovered.ids \ Consumed.ids \subseteq Late \cup Tombs

\* A report the tracker rejected while consuming the journal is not in the
\* files: the checkpoint in consumeJournalLocked replaced its entry together
\* with the memory-only evidence that made the tracker reject it.
RefusedStaysOut == refused \cap Recovered.ids = {}

\* Whenever persist would skip the checkpoint because nothing is unsaved, the
\* snapshot holds the whole memory, refreshed evidence included (unless a reset
\* by a writer has put it ahead).
SavedMeansOnDisk ==
  status # "down" /\ unsaved = "none" => snap.seq > mem.seq \/ snap = mem

\* A report the tracker dropped, as a command of its own or from the journal, is
\* not accepted by whoever folds the files after a restart
\* (consumeJournalLocked: "a restart must not accept what this owner rejected").
RejectionSurvivesRestart == (refused \cup ignored) \cap Recovered.ids = {}

\* Whatever the tracker has only in memory, refreshed evidence included, reaches
\* the snapshot while the tracker lives (RunPersistence, persistDueLocked).
EventuallySaved == unsaved # "none" ~> (unsaved = "none" \/ status = "down")

\* The files implement the abstract registry.
Registry == INSTANCE DurableRegistry WITH state <- Recovered.ids, left <- removed
ImplementsRegistry == Registry!Spec

=============================================================================
