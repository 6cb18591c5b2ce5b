------------------------- MODULE JournalStoreProofs -------------------------
(* Theorems about JournalStore, for every set of writers and reports and    *)
(* every bound. The first half is about locks, numbers and what counts as   *)
(* saved (Inv); the second, which rests on it, about what the files hold    *)
(* (ContentInv): acknowledged reports stay, removed and refused ones do not *)
(* return, the tracker agrees with the files, the files implement           *)
(* DurableRegistry, and the fold that all of this is stated in is the loop  *)
(* of the code.                                                             *)
EXTENDS JournalStore, TLAPS, WellFoundedInduction

-----------------------------------------------------------------------------
(* The inductive invariant.                                                *)

\* The sequence numbers of a journal increase.
Increasing(j) == \A i, k \in 1..Len(j) : i < k => j[i].seq < j[k].seq

\* Who may be inside a critical section, and doing what. The store lock admits
\* one process; the tracker holds the owner lock as long as its memory counts;
\* a writer only replaces the snapshot as the owner, or to reset.
Mutex ==
  /\ \A p \in Procs : pc[p] # "idle" => lock = p
  /\ \A p \in Procs : pc[p] = "reset" => entry[p].kind = "reset"
  /\ owner = Tracker <=> status # "down"
  /\ status = "down" => pc[Tracker] = "idle"
  /\ \A w \in Writers :
       /\ pc[w] \in {"idle", "append", "snap", "trunc", "reset"}
       /\ pc[w] \in {"snap", "trunc"} => owner = w \/ entry[w].kind = "reset"
  /\ pc[Tracker] \in {"act", "reject_snap", "reject_trunc"} => op \notin {"none", "reset"}
  /\ pc[Tracker] = "append" => op \in {"observe", "gc"}
  /\ pc[Tracker] \in {"snap", "trunc"} =>
       op = "persist" \/ (op = "reset" /\ entry[Tracker].kind = "reset")
  /\ pc[Tracker] = "reset" => op = "reset"

\* How the number of the next entry relates to the files and to the memory.
Numbering ==
  /\ Increasing(journal)
  /\ status # "down" => mem.seq <= Recovered.seq
  /\ pc[Tracker] \in {"act", "append"} => mem.seq = Recovered.seq
  /\ pc[Tracker] = "append" => cand[Tracker].seq = entry[Tracker].seq
  /\ \A p \in Procs :
       /\ pc[p] = "append" => entry[p].seq = Recovered.seq + 1
       /\ pc[p] = "reset" => /\ entry[p].seq = cand[p].seq
                             /\ cand[p].seq > Recovered.seq
       /\ pc[p] \in {"snap", "reject_snap"} => cand[p].seq >= Recovered.seq
       /\ pc[p] \in {"trunc", "reject_trunc"} => snap = cand[p] /\ Recovered.seq = snap.seq
       /\ /\ pc[p] \in {"reset", "snap", "trunc"}
          /\ entry[p].kind = "reset" /\ (p = Tracker => op = "reset")
          /\ status # "down"
          => cand[p].seq > mem.seq
  /\ pc[Tracker] \in {"reject_snap", "reject_trunc"} => cand[Tracker].seq > mem.seq
  /\ pc[Tracker] \in {"snap", "trunc"} /\ op = "persist" => cand[Tracker] = mem

\* What is still to be written of a report on its way into the files.
Carried ==
  /\ \A p \in Procs : entry[p].ids # {} => entry[p].kind = "observe"
  /\ \A p \in Procs : pc[p] = "idle" => entry[p] = NoEntry
  /\ pc[Tracker] # "idle" /\ op # "observe" => entry[Tracker].ids = {}
  /\ \A w \in Writers : pc[w] \in {"snap", "trunc"} => entry[w].ids \ Late \subseteq cand[w].ids

-----------------------------------------------------------------------------
(* The operators stay within their types.                                  *)

\* Every non-empty set of bounded numbers has a greatest element.
LEMMA MaxExists ==
  ASSUME NEW N \in Nat, NEW T \in SUBSET (0..N), T # {}
  PROVE  \E s \in T : \A t \in T : t <= s
<1> DEFINE U == {N - s : s \in T}
<1>1. U \subseteq Nat
  <2>1. \A s \in T : N - s \in Nat
    OBVIOUS
  <2> QED
    BY <2>1
<1>0. U # {}
  <2>1. PICK s \in T : TRUE
    OBVIOUS
  <2>2. N - s \in U
    OBVIOUS
  <2> QED
    BY <2>2
<1>2. PICK u \in U : \A v \in U : ~(<<v, u>> \in OpToRel(<, Nat))
  BY <1>0, <1>1, NatLessThanWellFounded, WFMin
<1>3. \A v \in U : ~(v < u)
  BY <1>1, <1>2 DEF OpToRel
<1>4. PICK s \in T : u = N - s
  OBVIOUS
<1>5. \A t \in T : t <= s
  <2>1. TAKE t \in T
  <2>2. N - t \in U
    OBVIOUS
  <2>3. ~(N - t < N - s)
    BY <1>3, <1>4, <2>2
  <2> QED
    BY <2>3
<1> QED
  BY <1>4, <1>5

\* The content of an emptied registry (newSnapshot at a given number) is a content.
LEMMA EmptyType == ASSUME NEW q \in 0..MaxSeq PROVE Empty(q) \in Content
BY BoundsAssumption DEF Empty, Content

\* The evidence a fold has reached at any entry is within the bound on evidence.
LEMMA EvAtType ==
  ASSUME NEW c \in Content, NEW j, NEW i PROVE EvAt(c, j, i) \in 0..MaxEv
BY BoundsAssumption DEF EvAt, Content

\* A fold of well-typed entries into a content is a content.
LEMMA FoldType ==
  ASSUME NEW c \in Content, NEW j \in Seq(Entry) PROVE Fold(c, j) \in Content
<1>1. (IF Pending(c.seq, j) = {} THEN c.seq ELSE j[Len(j)].seq) \in 0..MaxSeq
  <2>1. CASE Pending(c.seq, j) = {}
    BY <2>1 DEF Content
  <2>2. CASE Pending(c.seq, j) # {}
    <3>1. Len(j) \in 1..Len(j)
      BY <2>2 DEF Pending
    <3>2. j[Len(j)] \in Entry
      BY <3>1
    <3> QED
      BY <2>2, <3>2 DEF Entry
  <2> QED
    BY <2>1, <2>2
<1>2. {x \in c.ids : ~Deleted(c.seq, j, 0, x)} \cup Added(c, j) \in SUBSET Reports
  BY DEF Content, Added
<1>3. EvAt(c, j, Len(j)) \in 0..MaxEv
  BY EvAtType
<1> QED
  BY <1>1, <1>2, <1>3 DEF Fold, Content

\* Applying one journal entry (applyJournalEntry) to a content gives a content.
LEMMA ApplyEntryType ==
  ASSUME NEW c \in Content, NEW e \in Entry PROVE ApplyEntry(c, e) \in Content
<1>1. CASE e.kind = "reset"
  <2>1. e.seq \in 0..MaxSeq
    BY DEF Entry
  <2> QED
    BY <1>1, <2>1, EmptyType DEF ApplyEntry
<1>2. CASE e.kind = "gc"
  BY <1>2 DEF ApplyEntry, Content, Entry
<1>3. CASE e.kind = "observe"
  BY <1>3 DEF ApplyEntry, Content, Entry
<1> QED
  BY <1>1, <1>2, <1>3 DEF Entry

\* Without the tombstones that expired.
LEMMA ExpireType ==
  ASSUME NEW c \in Content, NEW xs PROVE [c EXCEPT !.ids = @ \ xs] \in Content
BY DEF Content

\* resetJournalPosition finds a number not below the others.
LEMMA ResetPositionMax ==
  ASSUME TypeOK, NEW q \in 0..MaxSeq
  PROVE  /\ ResetPosition(q) \in 0..MaxSeq
         /\ q <= ResetPosition(q) /\ snap.seq <= ResetPosition(q)
         /\ \A i \in 1..Len(journal) : journal[i].seq <= ResetPosition(q)
<1> DEFINE S == {q, snap.seq} \cup {journal[i].seq : i \in 1..Len(journal)}
<1>1. S \in SUBSET (0..MaxSeq) /\ S # {}
  <2>1. \A i \in 1..Len(journal) : journal[i] \in Entry
    BY DEF TypeOK
  <2>2. \A e \in Entry : e.seq \in 0..MaxSeq
    BY DEF Entry
  <2>3. snap.seq \in 0..MaxSeq
    BY DEF TypeOK, Content
  <2>4. \A i \in 1..Len(journal) : journal[i].seq \in 0..MaxSeq
    BY <2>1, <2>2
  <2> QED
    BY <2>3, <2>4
<1>2. \E s \in S : \A t \in S : t <= s
  BY <1>1, MaxExists, BoundsAssumption
<1>3. ResetPosition(q) = CHOOSE s \in S : \A t \in S : t <= s
  BY DEF ResetPosition
<1>4. ResetPosition(q) \in S /\ \A t \in S : t <= ResetPosition(q)
  BY <1>2, <1>3
<1> QED
  BY <1>1, <1>4

\* What a process reads under the lock (load, journalBaseline, the replay of
\* consumeJournalLocked) is a content, and what the replay drops are reports.
LEMMA RecoveredType ==
  ASSUME TypeOK
  PROVE  /\ Recovered \in Content /\ Baseline \in Content /\ Consumed \in Content
         /\ Rejects \subseteq Reports
BY FoldType DEF TypeOK, Recovered, Baseline, Consumed, Rejects, Dropped

\* The variables a critical section ends with.
LocalType ==
  /\ pc \in [Procs -> {"idle", "act", "append", "snap", "trunc", "reset",
                        "reject_snap", "reject_trunc"}]
  /\ entry \in [Procs -> Entry] /\ cand \in [Procs -> Content]

\* The entry and the content a process holds between transactions are well-typed.
LEMMA NoEntryType == NoEntry \in Entry /\ Empty(0) \in Content
BY EmptyType, BoundsAssumption DEF NoEntry, Entry

\* Dropping a transaction's working state leaves every process's working state typed.
LEMMA ForgetType ==
  ASSUME TypeOK, NEW p \in Procs, Forget(p) PROVE LocalType'
BY NoEntryType DEF TypeOK, Forget, LocalType

\* Ending a transaction and unlocking the files (closeStoreLock) keeps the locks typed.
LEMMA ReleaseType ==
  ASSUME TypeOK, NEW p \in Procs, Release(p)
  PROVE  LocalType' /\ lock' \in Procs \cup {None} /\ owner' \in Procs \cup {None}
BY ForgetType DEF TypeOK, Release

\* What the tracker takes into memory (acceptSnapshotLocked) is a content.
LEMMA AcceptType ==
  ASSUME TypeOK, NEW c \in Content, Accept(c)
  PROVE  mem' \in Content /\ unsaved' \in {"none", "hidden", "visible"}
BY DEF TypeOK, Accept

\* The tracker's status after the flush of its opening or closing is a status.
LEMMA AfterFlushType ==
  ASSUME TypeOK
  PROVE  AfterFlush(status) \in {"down", "opening", "up", "closing", "flushed"}
BY DEF TypeOK, AfterFlush

\* Everything that Fail leaves behind.
LEMMA FailType ==
  ASSUME TypeOK, NEW p \in Procs, Fail(p)
  PROVE  /\ LocalType' /\ lock' \in Procs \cup {None} /\ owner' \in Procs \cup {None}
         /\ mem' \in Content /\ unsaved' \in {"none", "hidden", "visible"}
         /\ status' \in {"down", "opening", "up", "closing", "flushed"}
         /\ op' \in {"none", "drain", "refresh", "observe", "gc", "persist", "reset"}
         /\ faults' \in 0..MaxFaults
         /\ used' \subseteq Reports /\ acked' \subseteq Reports
         /\ refused' \subseteq Reports /\ ignored' \subseteq Reports
<1>1. LocalType'
  BY ForgetType DEF Fail
<1>2. faults' \in 0..MaxFaults
  BY BoundsAssumption DEF TypeOK, Fail
<1>3. status' \in {"down", "opening", "up", "closing", "flushed"}
  BY AfterFlushType DEF TypeOK, Fail
<1>4. mem' \in Content
  BY NoEntryType DEF TypeOK, Fail
<1> QED
  BY <1>1, <1>2, <1>3, <1>4 DEF TypeOK, Fail, history

-----------------------------------------------------------------------------
(* Type correctness.                                                       *)

LEMMA TypeInit == ASSUME Init PROVE TypeOK
<1>1. snap \in Content /\ mem \in Content /\ cand \in [Procs -> Content] /\ entry \in [Procs -> Entry]
  BY NoEntryType DEF Init
<1>2. faults \in 0..MaxFaults
  BY BoundsAssumption DEF Init
<1>3. journal \in Seq(Entry)
  BY DEF Init
<1> QED
  BY <1>1, <1>2, <1>3 DEF Init, TypeOK

\* Every write to the files, and every failed one, keeps TypeOK.
LEMMA FileStepType ==
  ASSUME TypeOK, NEW p \in Procs, FileStep(p), removed' \cup cleared' \subseteq Reports
  PROVE  TypeOK'
<1>0. entry[p] \in Entry /\ cand[p] \in Content /\ entry[p].ids \subseteq Reports
  BY DEF TypeOK, Entry
<1>j. Append(journal, entry[p]) \in Seq(Entry) /\ <<>> \in Seq(Entry) /\ <<entry[p]>> \in Seq(Entry)
  BY <1>0 DEF TypeOK
<1>1. CASE AppendJournal(p)
  <2>1. mem' \in Content /\ unsaved' \in {"none", "hidden", "visible"}
    BY <1>0, <1>1, AcceptType DEF AppendJournal, TypeOK
  <2>2. acked' \subseteq Reports /\ ignored' \subseteq Reports
    BY <1>0, <1>1 DEF AppendJournal, TypeOK
  <2>3. LocalType' /\ lock' \in Procs \cup {None} /\ owner' \in Procs \cup {None}
    BY <1>1, ReleaseType DEF AppendJournal
  <2> QED
    BY <1>j, <1>1, <2>1, <2>2, <2>3 DEF AppendJournal, TypeOK, LocalType
<1>2. CASE AppendFails(p)
  <2>1. journal' \in Seq(Entry) /\ torn' \in BOOLEAN /\ snap' \in Content
    BY <1>j, <1>2 DEF AppendFails, TypeOK
  <2> QED
    BY <1>2, <2>1, FailType DEF AppendFails, TypeOK, LocalType
<1>3. CASE WriteSnapshot(p)
  <2>1. refused' \subseteq Reports
    BY <1>3, RecoveredType DEF WriteSnapshot, TypeOK
  <2> QED
    BY <1>0, <1>3, <2>1 DEF WriteSnapshot, TypeOK, tracker
<1>4. CASE WriteSnapshotFails(p)
  <2>1. snap' \in Content
    BY <1>0, <1>4 DEF WriteSnapshotFails, TypeOK
  <2> QED
    BY <1>4, <2>1, FailType DEF WriteSnapshotFails, TypeOK, LocalType
<1>5. CASE TruncateJournal(p)
  <2>1. mem' \in Content /\ unsaved' \in {"none", "hidden", "visible"}
    BY <1>0, <1>5, AcceptType DEF TruncateJournal, TypeOK, tracker
  <2>2. acked' \subseteq Reports
    BY <1>0, <1>5 DEF TruncateJournal, TypeOK
  <2>3. LocalType' /\ lock' \in Procs \cup {None} /\ owner' \in Procs \cup {None}
    BY <1>5, ReleaseType DEF TruncateJournal
  <2>4. /\ status' \in {"down", "opening", "up", "closing", "flushed"}
        /\ op' \in {"none", "drain", "refresh", "observe", "gc", "persist", "reset"}
    BY <1>5, AfterFlushType DEF TruncateJournal, TypeOK, tracker
  <2> QED
    BY <1>j, <1>5, <2>1, <2>2, <2>3, <2>4 DEF TruncateJournal, TypeOK, LocalType
<1>6. CASE TruncateFails(p)
  <2>1. journal' \in Seq(Entry) /\ torn' \in BOOLEAN /\ snap' \in Content
    BY <1>j, <1>6 DEF TruncateFails, TypeOK
  <2> QED
    BY <1>6, <2>1, FailType DEF TruncateFails, TypeOK, LocalType
<1>7. CASE PublishReset(p)
  BY <1>j, <1>7 DEF PublishReset, TypeOK, tracker, history
<1>8. CASE PublishResetFails(p)
  <2>1. journal' \in Seq(Entry) /\ torn' \in BOOLEAN /\ snap' \in Content
    BY <1>j, <1>8 DEF PublishResetFails, TypeOK
  <2> QED
    BY <1>8, <2>1, FailType DEF PublishResetFails, TypeOK, LocalType
<1> QED
  BY <1>1, <1>2, <1>3, <1>4, <1>5, <1>6, <1>7, <1>8 DEF FileStep

\* Every step of a short-lived command process (Journal) keeps TypeOK.
LEMMA WriterStepType ==
  ASSUME TypeOK, NEW w \in Writers, WriterStep(w), removed' \cup cleared' \subseteq Reports
  PROVE  TypeOK'
<1>0. w \in Procs
  BY DEF Procs
<1>1. ASSUME NEW kind \in {"observe", "gc"}, NEW ids \in SUBSET Reports,
             WriterCommand(w, kind, ids)
      PROVE  TypeOK'
  <2> DEFINE e == [seq |-> Recovered.seq + 1, kind |-> kind, ids |-> ids]
  <2>1. Recovered \in Content /\ Recovered.seq < MaxSeq
    BY <1>1, RecoveredType DEF WriterCommand
  <2>2. e \in Entry
    BY <2>1, BoundsAssumption DEF Entry, Content
  <2>3. ApplyEntry(Recovered, e) \in Content
    BY <2>1, <2>2, ApplyEntryType
  <2>4. LocalType'
    BY <1>0, <1>1, <2>2, <2>3 DEF WriterCommand, TypeOK, LocalType
  <2>5. lock' \in Procs \cup {None} /\ owner' \in Procs \cup {None} /\ used' \subseteq Reports
    BY <1>0, <1>1 DEF WriterCommand, TypeOK
  <2> QED
    BY <1>1, <2>4, <2>5 DEF WriterCommand, TypeOK, LocalType, files, tracker
<1>2. CASE WriterReset(w)
  <2> DEFINE q == ResetPosition(0) + 1
  <2>1. q \in 0..MaxSeq
    BY <1>2, ResetPositionMax, BoundsAssumption DEF WriterReset
  <2>2. [seq |-> q, kind |-> "reset", ids |-> {}] \in Entry /\ Empty(q) \in Content
    BY <2>1, EmptyType DEF Entry
  <2>3. LocalType'
    BY <1>0, <1>2, <2>2 DEF WriterReset, TypeOK, LocalType
  <2> QED
    BY <1>0, <1>2, <2>3 DEF WriterReset, TypeOK, LocalType, files, tracker, history
<1>3. CASE WriterCrash(w)
  <2>1. LocalType' /\ lock' \in Procs \cup {None} /\ owner' \in Procs \cup {None}
    BY <1>0, <1>3, ReleaseType DEF WriterCrash
  <2>2. faults' \in 0..MaxFaults /\ torn' \in BOOLEAN
    BY <1>3, BoundsAssumption DEF WriterCrash, CrashTorn, TypeOK
  <2> QED
    BY <1>3, <2>1, <2>2 DEF WriterCrash, TypeOK, LocalType, tracker, history
<1>4. CASE \E x \in Reports \ used : WriterCommand(w, "observe", {x})
  <2>1. PICK x \in Reports \ used : WriterCommand(w, "observe", {x})
    BY <1>4
  <2>2. {x} \in SUBSET Reports /\ "observe" \in {"observe", "gc"}
    OBVIOUS
  <2> QED
    BY <1>1, <2>1, <2>2
<1>5. CASE WriterCommand(w, "gc", {})
  <2>1. {} \in SUBSET Reports /\ "gc" \in {"observe", "gc"}
    OBVIOUS
  <2> QED
    BY <1>1, <1>5, <2>1
<1> QED
  BY <1>2, <1>3, <1>4, <1>5 DEF WriterStep

\* The tracker's drain of the journal at the start of each operation keeps TypeOK.
LEMMA TrackerBeginType ==
  ASSUME TypeOK, NEW o \in {"drain", "refresh", "observe", "gc", "persist"},
         NEW ids \in SUBSET Reports, TrackerBegin(o, ids), removed' \cup cleared' \subseteq Reports
  PROVE  TypeOK'
<1>0. Tracker \in Procs
  BY DEF Procs
<1>1. [entry[Tracker] EXCEPT !.ids = ids] \in Entry
  BY <1>0 DEF TypeOK, Entry
<1>2. LocalType'
  BY <1>0, <1>1, RecoveredType DEF TrackerBegin, TypeOK, LocalType
<1>3. /\ mem' \in Content /\ unsaved' \in {"none", "hidden", "visible"}
      /\ refused' \subseteq Reports
  BY AcceptType, RecoveredType DEF TrackerBegin, TypeOK
<1>4. /\ lock' \in Procs \cup {None} /\ used' \subseteq Reports
      /\ op' \in {"none", "drain", "refresh", "observe", "gc", "persist", "reset"}
  BY <1>0 DEF TrackerBegin, TypeOK
<1> QED
  BY <1>2, <1>3, <1>4 DEF TrackerBegin, TypeOK, LocalType, files

\* Every step of the tracker (MemoryStore) keeps TypeOK.
LEMMA TrackerStepType ==
  ASSUME TypeOK, TrackerStep, removed' \cup cleared' \subseteq Reports
  PROVE  TypeOK'
<1>0. Tracker \in Procs /\ entry[Tracker] \in Entry /\ cand[Tracker] \in Content
  BY DEF Procs, TypeOK
<1>1. CASE TruncateRejected
  <2>1. mem' \in Content /\ unsaved' \in {"none", "hidden", "visible"}
    BY <1>0, <1>1, AcceptType DEF TruncateRejected
  <2>2. journal' \in Seq(Entry)
    BY <1>1 DEF TruncateRejected
  <2> QED
    BY <1>0, <1>1, <2>1, <2>2 DEF TruncateRejected, TypeOK, history
<1>2. CASE \E x \in Reports \ used : TrackerBegin("observe", {x})
  <2>1. PICK x \in Reports \ used : TrackerBegin("observe", {x})
    BY <1>2
  <2>2. {x} \in SUBSET Reports /\ "observe" \in {"drain", "refresh", "observe", "gc", "persist"}
    OBVIOUS
  <2> QED
    BY <2>1, <2>2, TrackerBeginType
<1>3. CASE \E o \in {"drain", "refresh", "gc", "persist"} : TrackerBegin(o, {})
  <2>1. PICK o \in {"drain", "refresh", "gc", "persist"} : TrackerBegin(o, {})
    BY <1>3
  <2>2. {} \in SUBSET Reports /\ o \in {"drain", "refresh", "observe", "gc", "persist"}
    OBVIOUS
  <2> QED
    BY <2>1, <2>2, TrackerBeginType
<1>4. CASE TrackerDrain
  <2>1. LocalType' /\ lock' \in Procs \cup {None} /\ owner' \in Procs \cup {None}
    BY <1>0, <1>4, ReleaseType DEF TrackerDrain
  <2> QED
    BY <1>4, <2>1 DEF TrackerDrain, TypeOK, LocalType, files, history
<1>5. CASE TrackerReset
  <2> DEFINE q == ResetPosition(mem.seq) + 1
  <2>0. mem.seq \in 0..MaxSeq
    BY DEF TypeOK, Content
  <2>1. q \in 0..MaxSeq
    BY <1>5, <2>0, ResetPositionMax, BoundsAssumption DEF TrackerReset
  <2>2. [seq |-> q, kind |-> "reset", ids |-> {}] \in Entry /\ Empty(q) \in Content
    BY <2>1, EmptyType DEF Entry
  <2>3. LocalType'
    BY <1>0, <1>5, <2>2 DEF TrackerReset, TypeOK, LocalType
  <2> QED
    BY <1>0, <1>5, <2>3 DEF TrackerReset, TypeOK, LocalType, files, history
<1>6. CASE TrackerClose
  BY <1>6 DEF TrackerClose, TypeOK, files, local, history
<1>7. CASE TrackerReleaseOwner
  BY <1>7, NoEntryType DEF TrackerReleaseOwner, TypeOK, files, local, history
<1>8. CASE TrackerCrash
  <2>1. LocalType'
    BY <1>0, <1>8, ForgetType DEF TrackerCrash
  <2>2. faults' \in 0..MaxFaults /\ torn' \in BOOLEAN /\ mem' \in Content
    BY <1>8, BoundsAssumption, NoEntryType DEF TrackerCrash, CrashTorn, TypeOK
  <2> QED
    BY <1>8, <2>1, <2>2 DEF TrackerCrash, TypeOK, LocalType, history
<1>9. ASSUME NEW expired, TrackerOpen(expired) PROVE TypeOK'
  <2>1. mem' \in Content
    BY <1>9, RecoveredType, ExpireType DEF TrackerOpen
  <2> QED
    BY <1>0, <1>9, <2>1 DEF TrackerOpen, TypeOK, files, local, history
<1>10. ASSUME NEW expired, TrackerRefresh(expired) PROVE TypeOK'
  <2> DEFINE c == [mem EXCEPT !.ev = @ + 1, !.ids = @ \ expired]
  <2>0. mem \in Content /\ mem.ev < MaxEv
    BY <1>10 DEF TrackerRefresh, TypeOK
  <2>1. c \in Content
    <3>1. mem.ev + 1 \in 0..MaxEv /\ mem.ids \ expired \in SUBSET Reports
      BY <2>0, BoundsAssumption DEF Content
    <3> QED
      BY <2>0, <3>1 DEF Content
  <2>2. mem' \in Content /\ unsaved' \in {"none", "hidden", "visible"}
    BY <1>10, <2>1, AcceptType DEF TrackerRefresh
  <2>3. LocalType' /\ lock' \in Procs \cup {None} /\ owner' \in Procs \cup {None}
    BY <1>0, <1>10, ReleaseType DEF TrackerRefresh
  <2> QED
    BY <1>10, <2>2, <2>3 DEF TrackerRefresh, TypeOK, LocalType, files, history
<1>11. ASSUME NEW expired, TrackerCommand(expired) PROVE TypeOK'
  <2> DEFINE e == [seq |-> mem.seq + 1, kind |-> op, ids |-> entry[Tracker].ids]
  <2>0. mem \in Content /\ mem.seq < MaxSeq /\ op \in {"observe", "gc"}
    BY <1>11 DEF TrackerCommand, TypeOK
  <2>1. e \in Entry
    <3>1. mem.seq + 1 \in 0..MaxSeq /\ entry[Tracker].ids \in SUBSET Reports
      BY <1>0, <2>0, BoundsAssumption DEF Content, Entry
    <3> QED
      BY <2>0, <3>1 DEF Entry
  <2>2. [ApplyEntry(mem, e) EXCEPT !.ids = @ \ expired] \in Content
    BY <2>1, ApplyEntryType, ExpireType DEF TypeOK
  <2>3. LocalType'
    BY <1>0, <1>11, <2>1, <2>2 DEF TrackerCommand, TypeOK, LocalType
  <2> QED
    BY <1>11, <2>3 DEF TrackerCommand, TypeOK, LocalType, files, tracker, history
<1>12. ASSUME NEW expired, NEW elapsed, TrackerPersist(expired, elapsed) PROVE TypeOK'
  <2> DEFINE c == [mem EXCEPT !.ids = @ \ expired]
             u == IF c = mem THEN unsaved ELSE "visible"
  <2>1. c \in Content /\ u \in {"none", "hidden", "visible"}
    BY ExpireType DEF TypeOK
  <2>2. CASE PersistDue(u, elapsed)
    <3>1. LocalType'
      BY <1>0, <1>12, <2>1, <2>2 DEF TrackerPersist, TypeOK, LocalType
    <3> QED
      BY <1>12, <2>1, <2>2, <3>1 DEF TrackerPersist, TypeOK, LocalType, files, history
  <2>3. CASE ~PersistDue(u, elapsed)
    <3>1. Release(Tracker) /\ op' = "none" /\ status' = AfterFlush(status)
      BY <1>12, <2>3 DEF TrackerPersist
    <3>2. LocalType' /\ lock' \in Procs \cup {None} /\ owner' \in Procs \cup {None}
      BY <1>0, <3>1, ReleaseType
    <3> QED
      BY <1>12, <2>1, <3>1, <3>2, AfterFlushType DEF TrackerPersist, TypeOK, LocalType, files, history
  <2> QED
    BY <2>2, <2>3
<1> QED
  BY <1>1, <1>2, <1>3, <1>4, <1>5, <1>6, <1>7, <1>8, <1>9, <1>10, <1>11, <1>12 DEF TrackerStep

\* Every step of the specification keeps TypeOK.
LEMMA TypeStep == ASSUME TypeOK, [Next]_vars PROVE TypeOK'
<1>1. CASE Next
  <2>1. removed' \cup cleared' \subseteq Reports
    BY <1>1, RecoveredType DEF Next, Track, TypeOK, Content
  <2> QED
    BY <1>1, <2>1, FileStepType, WriterStepType, TrackerStepType DEF Next
<1>2. CASE UNCHANGED vars
  BY <1>2 DEF TypeOK, vars, files, tracker, local, history, gone
<1> QED
  BY <1>1, <1>2

\* Every variable keeps its type: in particular no sequence number, evidence
\* count or candidate leaves its bound, whatever fails or crashes.
THEOREM TypeCorrect == Spec => []TypeOK
<1>1. Init => TypeOK
  BY TypeInit
<1>2. TypeOK /\ [Next]_vars => TypeOK'
  BY TypeStep
<1> QED
  BY <1>1, <1>2, PTL DEF Spec

-----------------------------------------------------------------------------
(* The locks.                                                              *)

\* A process at work holds the store lock, and is then the only one.
LEMMA OnlyHolder ==
  ASSUME TypeOK, Mutex, NEW p \in Procs, pc[p] # "idle" \/ lock = None
  PROVE  /\ \A q \in Procs : q # p => pc[q] = "idle"
         /\ pc[p] # "idle" => lock = p
BY ProcsAssumption DEF Mutex, Procs

\* A transaction that fails leaves the lock free and no process inside.
LEMMA MutexFail ==
  ASSUME TypeOK, Mutex, NEW p \in Procs, pc[p] # "idle", Fail(p)
  PROVE  Mutex'
<1>1. \A q \in Procs : pc'[q] = "idle"
  BY OnlyHolder DEF Fail, Forget, TypeOK
<1>2. owner' = Tracker <=> status' # "down"
  <2>1. CASE p = Tracker
    BY <2>1, ProcsAssumption DEF Fail, Mutex, AfterFlush, TypeOK, Procs
  <2>2. CASE p # Tracker
    BY <2>2, ProcsAssumption DEF Fail, Mutex, TypeOK, Procs
  <2> QED
    BY <2>1, <2>2
<1> QED
  BY <1>1, <1>2 DEF Mutex, Procs

\* A write, or a failed one, is made by the only process inside the lock.
LEMMA MutexFileStep ==
  ASSUME TypeOK, Mutex, NEW p \in Procs, FileStep(p)
  PROVE  Mutex'
<1>0. pc[p] # "idle"
  BY DEF FileStep, AppendJournal, AppendFails, WriteSnapshot, WriteSnapshotFails,
         TruncateJournal, TruncateFails, PublishReset, PublishResetFails
<1>1. (\A q \in Procs : q # p => pc[q] = "idle") /\ lock = p
  BY <1>0, OnlyHolder
<1>2. CASE AppendJournal(p)
  BY <1>1, <1>2, ProcsAssumption DEF AppendJournal, Release, Forget, Mutex, TypeOK, Procs
<1>3. CASE WriteSnapshot(p)
  BY <1>1, <1>3, ProcsAssumption DEF WriteSnapshot, tracker, Mutex, TypeOK, Procs
<1>4. CASE TruncateJournal(p)
  <2>1. \A q \in Procs : pc'[q] = "idle"
    BY <1>1, <1>4 DEF TruncateJournal, Release, Forget, TypeOK
  <2>2. owner' = Tracker <=> status' # "down"
    BY <1>4, ProcsAssumption DEF TruncateJournal, Release, tracker, AfterFlush, Mutex, TypeOK, Procs
  <2> QED
    BY <2>1, <2>2 DEF Mutex, Procs
<1>5. CASE PublishReset(p)
  <2>1. CASE p = Tracker
    BY <1>1, <1>5, <2>1, ProcsAssumption DEF PublishReset, tracker, Mutex, TypeOK, Procs
  <2>2. CASE p # Tracker
    BY <1>1, <1>5, <2>2, ProcsAssumption DEF PublishReset, tracker, Mutex, TypeOK, Procs
  <2> QED
    BY <2>1, <2>2
<1>6. CASE Fail(p)
  BY <1>0, <1>6, MutexFail
<1> QED
  BY <1>2, <1>3, <1>4, <1>5, <1>6
  DEF FileStep, AppendFails, WriteSnapshotFails, TruncateFails, PublishResetFails

\* A command process enters only a free lock, and leaves it free when it crashes.
LEMMA MutexWriterStep ==
  ASSUME TypeOK, Mutex, NEW w \in Writers, WriterStep(w)
  PROVE  Mutex'
<1>0. w \in Procs /\ w # Tracker
  BY ProcsAssumption DEF Procs
<1>1. ASSUME NEW kind, NEW ids, WriterCommand(w, kind, ids) PROVE Mutex'
  <2>1. \A q \in Procs : pc[q] = "idle"
    BY <1>0, <1>1, OnlyHolder DEF WriterCommand
  <2> QED
    BY <1>0, <1>1, <2>1, ProcsAssumption DEF WriterCommand, tracker, Mutex, TypeOK, Procs
<1>2. CASE WriterReset(w)
  <2>1. \A q \in Procs : pc[q] = "idle"
    BY <1>0, <1>2, OnlyHolder DEF WriterReset
  <2> QED
    BY <1>0, <1>2, <2>1, ProcsAssumption DEF WriterReset, tracker, Mutex, TypeOK, Procs
<1>3. CASE WriterCrash(w)
  <2>1. (\A q \in Procs : q # w => pc[q] = "idle")
    BY <1>0, <1>3, OnlyHolder DEF WriterCrash
  <2> QED
    BY <1>0, <1>3, <2>1, ProcsAssumption DEF WriterCrash, Release, Forget, tracker, Mutex, TypeOK, Procs
<1> QED
  BY <1>1, <1>2, <1>3 DEF WriterStep

\* The tracker enters only a free lock, and is the owner exactly while it is not down.
LEMMA MutexTrackerStep ==
  ASSUME TypeOK, Mutex, TrackerStep
  PROVE  Mutex'
<1>0. Tracker \in Procs /\ Tracker \notin Writers
  BY ProcsAssumption DEF Procs
<1>w. pc[Tracker] # "idle" \/ lock = None => \A w \in Writers : pc[w] = "idle"
  BY <1>0, OnlyHolder DEF Procs
<1>1. CASE TruncateRejected
  BY <1>0, <1>1, <1>w DEF TruncateRejected, Mutex, TypeOK, Procs
<1>2. ASSUME NEW o \in {"drain", "refresh", "observe", "gc", "persist"}, NEW ids, TrackerBegin(o, ids)
      PROVE  Mutex'
  BY <1>0, <1>2, <1>w DEF TrackerBegin, Mutex, TypeOK, Procs
<1>4. CASE TrackerDrain
  BY <1>0, <1>4, <1>w DEF TrackerDrain, Release, Forget, Mutex, TypeOK, Procs
<1>5. CASE TrackerReset
  BY <1>0, <1>5, <1>w DEF TrackerReset, Mutex, TypeOK, Procs
<1>6. CASE TrackerClose
  BY <1>0, <1>6 DEF TrackerClose, local, Mutex, TypeOK, Procs
<1>7. CASE TrackerReleaseOwner
  BY <1>0, <1>7, ProcsAssumption DEF TrackerReleaseOwner, local, Mutex, TypeOK, Procs
<1>8. CASE TrackerCrash
  BY <1>0, <1>8, ProcsAssumption DEF TrackerCrash, Forget, Mutex, TypeOK, Procs
<1>9. ASSUME NEW expired, TrackerOpen(expired) PROVE Mutex'
  BY <1>0, <1>9, <1>w DEF TrackerOpen, local, Mutex, TypeOK, Procs
<1>10. ASSUME NEW expired, TrackerRefresh(expired) PROVE Mutex'
  BY <1>0, <1>10, <1>w DEF TrackerRefresh, Release, Forget, Mutex, TypeOK, Procs
<1>11. ASSUME NEW expired, TrackerCommand(expired) PROVE Mutex'
  BY <1>0, <1>11, <1>w DEF TrackerCommand, tracker, Mutex, TypeOK, Procs
<1>12. ASSUME NEW expired, NEW elapsed, TrackerPersist(expired, elapsed) PROVE Mutex'
  BY <1>0, <1>12, <1>w DEF TrackerPersist, Release, Forget, AfterFlush, Mutex, TypeOK, Procs
<1>13. CASE \E o \in {"drain", "refresh", "gc", "persist"} : TrackerBegin(o, {})
  BY <1>2, <1>13
<1>14. CASE \E x \in Reports \ used : TrackerBegin("observe", {x})
  <2>1. "observe" \in {"drain", "refresh", "observe", "gc", "persist"}
    OBVIOUS
  <2> QED
    BY <1>2, <1>14, <2>1
<1> QED
  BY <1>1, <1>4, <1>5, <1>6, <1>7, <1>8, <1>9, <1>10, <1>11, <1>12, <1>13, <1>14 DEF TrackerStep

\* Every step keeps the lock exclusive.
LEMMA MutexStep == ASSUME TypeOK, Mutex, [Next]_vars PROVE Mutex'
<1>1. CASE Next
  BY <1>1, MutexFileStep, MutexWriterStep, MutexTrackerStep DEF Next
<1>2. CASE UNCHANGED vars
  BY <1>2 DEF Mutex, vars, tracker, local
<1> QED
  BY <1>1, <1>2

-----------------------------------------------------------------------------
(* The sequence numbers.                                                   *)

\* The number a fold ends with is the highest it has seen.
LEMMA FoldSeq ==
  ASSUME NEW c \in Content, NEW j \in Seq(Entry), Increasing(j)
  PROVE  /\ Fold(c, j).seq \in 0..MaxSeq
         /\ c.seq <= Fold(c, j).seq
         /\ \A i \in 1..Len(j) : j[i].seq <= Fold(c, j).seq
         /\ \/ Fold(c, j).seq = c.seq
            \/ Len(j) \in 1..Len(j) /\ Fold(c, j).seq = j[Len(j)].seq /\ c.seq < j[Len(j)].seq
<1> DEFINE q == Fold(c, j).seq
<1>1. q = IF Pending(c.seq, j) = {} THEN c.seq ELSE j[Len(j)].seq
  BY DEF Fold
<1>2. q \in 0..MaxSeq
  BY FoldType DEF Content
<1>3. \A i \in 1..Len(j) : j[i].seq \in Nat
  <2>1. \A i \in 1..Len(j) : j[i] \in Entry
    OBVIOUS
  <2> QED
    BY <2>1, BoundsAssumption DEF Entry
<1>4. c.seq \in Nat /\ Len(j) \in Nat
  BY BoundsAssumption DEF Content
<1>5. CASE Pending(c.seq, j) = {}
  <2>1. \A i \in 1..Len(j) : j[i].seq <= c.seq
    BY <1>3, <1>4, <1>5 DEF Pending
  <2> QED
    BY <1>1, <1>2, <1>4, <1>5, <2>1
<1>6. CASE Pending(c.seq, j) # {}
  <2>1. PICK i \in 1..Len(j) : j[i].seq > c.seq
    BY <1>6 DEF Pending
  <2>2. Len(j) \in 1..Len(j)
    BY <1>4, <2>1
  <2>3. \A k \in 1..Len(j) : j[k].seq <= j[Len(j)].seq
    BY <1>3, <1>4, <2>2 DEF Increasing
  <2>4. c.seq < j[Len(j)].seq
    BY <1>3, <1>4, <2>1, <2>2, <2>3
  <2> QED
    BY <1>1, <1>2, <1>4, <1>6, <2>2, <2>3, <2>4
<1> QED
  BY <1>5, <1>6

\* The facts about Recovered.seq that the steps below use, for any files.
Highest(q, c, j) ==
  /\ q \in 0..MaxSeq /\ c.seq <= q /\ \A i \in 1..Len(j) : j[i].seq <= q
  /\ q = c.seq \/ (Len(j) \in 1..Len(j) /\ q = j[Len(j)].seq /\ c.seq < q)

\* What is recovered from the files carries the highest number in them.
LEMMA RecoveredHighest ==
  ASSUME TypeOK, Increasing(journal) PROVE Highest(Recovered.seq, snap, journal)
BY FoldSeq DEF TypeOK, Recovered, Highest

\* An appended entry with the next number keeps the journal increasing and is
\* the number recovered from then on.
LEMMA AppendSeq ==
  ASSUME TypeOK, Increasing(journal), NEW e \in Entry, e.seq = Recovered.seq + 1
  PROVE  /\ Increasing(Append(journal, e))
         /\ Fold(snap, Append(journal, e)).seq = e.seq
<1> DEFINE j == Append(journal, e)
<1>1. Highest(Recovered.seq, snap, journal)
  BY RecoveredHighest
<1>2. /\ journal \in Seq(Entry) /\ j \in Seq(Entry) /\ Len(j) = Len(journal) + 1
      /\ Len(journal) \in Nat /\ snap \in Content
      /\ j[Len(j)] = e /\ \A i \in 1..Len(journal) : j[i] = journal[i]
  BY DEF TypeOK
<1>3. \A i \in 1..Len(journal) : journal[i].seq \in Nat /\ journal[i].seq < e.seq
  <2>1. \A i \in 1..Len(journal) : journal[i] \in Entry
    BY <1>2
  <2> QED
    BY <1>1, <2>1, BoundsAssumption DEF Entry, Highest
<1>4. Increasing(j)
  <2> SUFFICES ASSUME NEW i \in 1..Len(j), NEW k \in 1..Len(j), i < k
               PROVE  j[i].seq < j[k].seq
    BY DEF Increasing
  <2> HIDE DEF j
  <2>1. i \in 1..Len(journal) /\ j[i] = journal[i]
    BY <1>2
  <2>2. CASE k = Len(j)
    BY <1>2, <1>3, <2>1, <2>2
  <2>3. CASE k # Len(j)
    <3>1. k \in 1..Len(journal) /\ j[k] = journal[k]
      BY <1>2, <2>3
    <3> QED
      BY <2>1, <3>1 DEF Increasing
  <2> QED
    BY <2>2, <2>3
<1>5. /\ Fold(snap, j).seq \in 0..MaxSeq
      /\ \A i \in 1..Len(j) : j[i].seq <= Fold(snap, j).seq
      /\ Fold(snap, j).seq = snap.seq \/ Fold(snap, j).seq = j[Len(j)].seq
  <2> HIDE DEF j
  <2> QED
    BY <1>2, <1>4, FoldSeq
<1>6. snap.seq \in Nat /\ e.seq \in Nat /\ snap.seq < e.seq
  BY <1>1, <1>2, BoundsAssumption DEF Highest, Content, Entry
<1>7. j[Len(j)].seq <= Fold(snap, j).seq
  <2> HIDE DEF j
  <2> QED
    BY <1>2, <1>5
<1> QED
  BY <1>2, <1>4, <1>5, <1>6, <1>7

\* A snapshot no entry is newer than, and an emptied journal.
LEMMA CoveredSeq ==
  ASSUME NEW c \in Content, NEW j \in Seq(Entry), Increasing(j),
         \A i \in 1..Len(j) : j[i].seq <= c.seq
  PROVE  Fold(c, j) = c
<1>1. Pending(c.seq, j) = {}
  <2>1. \A i \in 1..Len(j) : j[i] \in Entry
    OBVIOUS
  <2> QED
    BY <2>1, BoundsAssumption DEF Pending, Entry, Content
<1>2. Added(c, j) = {} /\ EvAt(c, j, Len(j)) = c.ev
  BY <1>1 DEF Added, EvAt
<1>3. \A x \in c.ids : ~Deleted(c.seq, j, 0, x)
  BY <1>1 DEF Deleted
<1>4. Fold(c, j) = [seq |-> c.seq, ids |-> c.ids, ev |-> c.ev]
  BY <1>1, <1>2, <1>3 DEF Fold
<1> QED
  BY <1>4 DEF Content

\* A content that an entry was applied to carries the entry's number.
LEMMA ApplyEntrySeq ==
  ASSUME NEW c \in Content, NEW e \in Entry PROVE ApplyEntry(c, e).seq = e.seq
<1>1. CASE e.kind = "reset"
  BY <1>1 DEF ApplyEntry, Empty
<1>2. CASE e.kind = "gc"
  BY <1>2 DEF ApplyEntry, Content
<1>3. CASE e.kind = "observe"
  BY <1>3 DEF ApplyEntry, Content
<1> QED
  BY <1>1, <1>2, <1>3 DEF Entry

\* The tracker, up to date, numbers from where the files end, although its
\* memory and the snapshot are different copies.
LEMMA ConsumedSeq ==
  ASSUME TypeOK, Increasing(journal), mem.seq <= Recovered.seq
  PROVE  /\ Consumed.seq = Recovered.seq
         /\ Rejects # {} => Consumed.seq > mem.seq
<1>1. Highest(Recovered.seq, snap, journal)
  BY RecoveredHighest
<1>2. Baseline \in Content /\ snap \in Content /\ mem \in Content /\ journal \in Seq(Entry)
  BY RecoveredType DEF TypeOK
<1>3. Highest(Consumed.seq, Baseline, journal)
  BY <1>2, FoldSeq DEF Consumed, Highest
<1>4. snap.seq \in Nat /\ mem.seq \in Nat /\ Baseline.seq \in Nat
  BY <1>2, BoundsAssumption DEF Content
<1>5. snap.seq <= Baseline.seq /\ mem.seq <= Baseline.seq /\ Baseline.seq \in {snap.seq, mem.seq}
  BY <1>4 DEF Baseline
<1>6. Consumed.seq = Recovered.seq
  BY <1>1, <1>3, <1>4, <1>5, BoundsAssumption DEF Highest
<1>7. ASSUME Rejects # {} PROVE Consumed.seq > mem.seq
  <2>1. PICK i \in 1..Len(journal) : journal[i].seq > Baseline.seq
    BY <1>7 DEF Rejects, Dropped, Pending
  <2>2. journal[i].seq \in Nat
    <3>1. journal[i] \in Entry
      BY <1>2
    <3> QED
      BY <3>1, BoundsAssumption DEF Entry
  <2> QED
    BY <1>3, <1>4, <1>5, <2>1, <2>2, BoundsAssumption DEF Highest
<1> QED
  BY <1>6, <1>7

\* A number beyond all of the files' is beyond what they recover to.
LEMMA ResetPositionSeq ==
  ASSUME TypeOK, Increasing(journal), NEW q \in 0..MaxSeq
  PROVE  Recovered.seq <= ResetPosition(q)
BY ResetPositionMax, RecoveredHighest DEF Highest

\* Between critical sections only the journal and the memory matter.
LEMMA NumberingIdle ==
  ASSUME \A p \in Procs : pc[p] = "idle", Increasing(journal),
         status # "down" => mem.seq <= Recovered.seq
  PROVE  Numbering
BY DEF Numbering, Procs

\* The snapshot becomes a candidate, or the journal is emptied behind one.
LEMMA SnapSeq ==
  ASSUME TypeOK, Increasing(journal), NEW c \in Content, c.seq >= Recovered.seq
  PROVE  Fold(c, journal) = c /\ Fold(c, <<>>) = c /\ Increasing(<<>>)
<1>1. Highest(Recovered.seq, snap, journal)
  BY RecoveredHighest
<1>2. \A i \in 1..Len(journal) : journal[i].seq <= c.seq
  <2>1. \A i \in 1..Len(journal) : journal[i] \in Entry
    BY DEF TypeOK
  <2> QED
    BY <1>1, <2>1, BoundsAssumption DEF Highest, Content, Entry
<1>3. Fold(c, journal) = c
  BY <1>2, CoveredSeq DEF TypeOK
<1>4. <<>> \in Seq(Entry) /\ Len(<<>>) = 0
  OBVIOUS
<1>5. Increasing(<<>>)
  BY <1>4 DEF Increasing
<1>6. Fold(c, <<>>) = c
  <2> DEFINE j == <<>>
  <2>1. j \in Seq(Entry) /\ Increasing(j) /\ \A i \in 1..Len(j) : j[i].seq <= c.seq
    BY <1>4, <1>5
  <2> HIDE DEF j
  <2>2. Fold(c, j) = c
    BY <2>1, CoveredSeq
  <2> QED
    BY <2>2 DEF j
<1> QED
  BY <1>3, <1>5, <1>6

\* The journal is replaced by the entry of a reset.
LEMMA ResetSeq ==
  ASSUME TypeOK, Increasing(journal), NEW e \in Entry, e.seq > Recovered.seq
  PROVE  Fold(snap, <<e>>).seq = e.seq /\ Increasing(<<e>>)
<1>1. Highest(Recovered.seq, snap, journal)
  BY RecoveredHighest
<1>2. <<e>> \in Seq(Entry) /\ Len(<<e>>) = 1 /\ <<e>>[1] = e
  OBVIOUS
<1>3. Increasing(<<e>>)
  BY <1>2 DEF Increasing
<1>4. /\ Fold(snap, <<e>>).seq \in 0..MaxSeq
      /\ e.seq <= Fold(snap, <<e>>).seq
      /\ Fold(snap, <<e>>).seq = snap.seq \/ Fold(snap, <<e>>).seq = e.seq
  <2> DEFINE j == <<e>>
  <2>1. j \in Seq(Entry) /\ Increasing(j) /\ Len(j) = 1 /\ j[1] = e /\ snap \in Content
    BY <1>2, <1>3 DEF TypeOK
  <2> HIDE DEF j
  <2>2. /\ Fold(snap, j).seq \in 0..MaxSeq
        /\ e.seq <= Fold(snap, j).seq
        /\ Fold(snap, j).seq = snap.seq \/ Fold(snap, j).seq = e.seq
    BY <2>1, FoldSeq
  <2> QED
    BY <2>2 DEF j
<1> QED
  BY <1>1, <1>3, <1>4, BoundsAssumption DEF Highest, Entry, TypeOK, Content

\* The numbers of contents and entries are natural numbers.
LEMMA ContentNat ==
  /\ \A c \in Content : c.seq \in Nat
  /\ \A e \in Entry : e.seq \in Nat
BY BoundsAssumption DEF Content, Entry

\* A step that leaves the files alone leaves what is recovered from them.
LEMMA SameFiles == ASSUME UNCHANGED <<snap, journal>> PROVE Recovered' = Recovered
BY DEF Recovered

\* What the writes leave in the files: the number recovered never goes back.
LEMMA FilesAfter ==
  ASSUME TypeOK, Mutex, Numbering, NEW p \in Procs
  PROVE  /\ Recovered.seq \in Nat
         /\ pc[p] = "append" =>
              /\ Increasing(Append(journal, entry[p]))
              /\ Fold(snap, Append(journal, entry[p])).seq = entry[p].seq
              /\ entry[p].seq > Recovered.seq
         /\ pc[p] \in {"snap", "reject_snap"} =>
              Fold(cand[p], journal) = cand[p] /\ cand[p].seq >= Recovered.seq
         /\ pc[p] \in {"trunc", "reject_trunc"} =>
              Fold(snap, <<>>) = snap /\ Increasing(<<>>)
         /\ pc[p] = "reset" =>
              /\ Increasing(<<entry[p]>>)
              /\ Fold(snap, <<entry[p]>>).seq = entry[p].seq
              /\ entry[p].seq > Recovered.seq
<1>1. /\ snap \in Content /\ cand[p] \in Content /\ entry[p] \in Entry
      /\ Recovered \in Content /\ Recovered.seq \in Nat /\ Increasing(journal)
  <2>1. snap \in Content /\ cand[p] \in Content /\ entry[p] \in Entry
    BY DEF TypeOK
  <2>2. Recovered \in Content
    BY RecoveredType
  <2>3. Recovered.seq \in Nat
    BY <2>2, BoundsAssumption DEF Content
  <2> QED
    BY <2>1, <2>2, <2>3 DEF Numbering
<1>2. ASSUME pc[p] = "append"
      PROVE  /\ Increasing(Append(journal, entry[p]))
             /\ Fold(snap, Append(journal, entry[p])).seq = entry[p].seq
             /\ entry[p].seq > Recovered.seq
  <2>1. entry[p].seq = Recovered.seq + 1
    BY <1>2 DEF Numbering
  <2> QED
    BY <1>1, <2>1, AppendSeq
<1>3. ASSUME pc[p] \in {"snap", "reject_snap"}
      PROVE  Fold(cand[p], journal) = cand[p] /\ cand[p].seq >= Recovered.seq
  <2>1. cand[p].seq >= Recovered.seq
    BY <1>3 DEF Numbering
  <2> QED
    BY <1>1, <2>1, SnapSeq
<1>4. ASSUME pc[p] \in {"trunc", "reject_trunc"} PROVE Fold(snap, <<>>) = snap /\ Increasing(<<>>)
  <2>1. snap.seq >= Recovered.seq
    BY <1>1, <1>4 DEF Numbering
  <2> QED
    BY <1>1, <2>1, SnapSeq
<1>5. ASSUME pc[p] = "reset"
      PROVE  /\ Increasing(<<entry[p]>>)
             /\ Fold(snap, <<entry[p]>>).seq = entry[p].seq
             /\ entry[p].seq > Recovered.seq
  <2>1. entry[p].seq > Recovered.seq
    BY <1>5 DEF Numbering
  <2> QED
    BY <1>1, <2>1, ResetSeq
<1> QED
  BY <1>1, <1>2, <1>3, <1>4, <1>5

\* A failed transaction keeps Numbering when the number recovered did not go back.
LEMMA NumberingFail ==
  ASSUME TypeOK, Mutex, Numbering, NEW p \in Procs, pc[p] # "idle", Fail(p),
         Increasing(journal'), Recovered'.seq \in Nat, Recovered'.seq >= Recovered.seq
  PROVE  Numbering'
<1>1. \A q \in Procs : pc'[q] = "idle"
  BY OnlyHolder DEF Fail, Forget, TypeOK
<1>2. status' # "down" => mem'.seq <= Recovered'.seq
  <2>1. status' # "down" => mem' = mem /\ status # "down"
    BY DEF Fail, AfterFlush
  <2>2. mem.seq \in Nat /\ Recovered.seq \in Nat
    BY RecoveredType, BoundsAssumption DEF TypeOK, Content
  <2> QED
    BY <2>1, <2>2 DEF Numbering
<1> QED
  BY <1>1, <1>2 DEF Numbering, Procs

\* Every write, and every failed one, keeps Numbering.
LEMMA NumberingFileStep ==
  ASSUME TypeOK, Mutex, Numbering, NEW p \in Procs, FileStep(p), TypeOK'
  PROVE  Numbering'
<1>0. pc[p] # "idle"
  BY DEF FileStep, AppendJournal, AppendFails, WriteSnapshot, WriteSnapshotFails,
         TruncateJournal, TruncateFails, PublishReset, PublishResetFails
<1>1. (\A q \in Procs : q # p => pc[q] = "idle") /\ lock = p
  BY <1>0, OnlyHolder
<1>2. /\ mem.seq \in Nat /\ mem'.seq \in Nat /\ Recovered.seq \in Nat /\ Recovered'.seq \in Nat
      /\ snap.seq \in Nat /\ cand[p].seq \in Nat /\ entry[p].seq \in Nat
  <2>1. Recovered \in Content /\ Recovered' \in Content
    <3>1. Recovered' = Fold(snap', journal') /\ snap' \in Content /\ journal' \in Seq(Entry)
      BY DEF Recovered, TypeOK
    <3> QED
      BY <3>1, RecoveredType, FoldType
  <2>2. /\ mem \in Content /\ mem' \in Content /\ snap \in Content
        /\ cand[p] \in Content /\ entry[p] \in Entry
    BY DEF TypeOK
  <2> QED
    BY <2>1, <2>2, ContentNat
<1>3. CASE AppendJournal(p)
  <2>1. \A q \in Procs : pc'[q] = "idle"
    BY <1>1, <1>3 DEF AppendJournal, Release, Forget, TypeOK
  <2>2. Increasing(journal') /\ Recovered'.seq = entry[p].seq /\ entry[p].seq > Recovered.seq
    BY <1>3, FilesAfter DEF AppendJournal, Recovered
  <2>3. status' # "down" => mem'.seq <= Recovered'.seq
    <3>1. CASE p = Tracker
      BY <1>2, <1>3, <2>2, <3>1 DEF AppendJournal, Accept, Numbering
    <3>2. CASE p # Tracker
      BY <1>2, <1>3, <2>2, <3>2 DEF AppendJournal, Numbering
    <3> QED
      BY <3>1, <3>2
  <2> QED
    BY <2>1, <2>2, <2>3 DEF Numbering, Procs
<1>4. CASE WriteSnapshot(p)
  <2>1. Recovered' = cand[p] /\ cand[p].seq >= Recovered.seq
    BY <1>4, FilesAfter DEF WriteSnapshot, Recovered
  <2>2. /\ snap' = cand[p] /\ journal' = journal /\ UNCHANGED <<tracker, entry, cand>>
        /\ \/ pc[p] = "snap" /\ pc'[p] = "trunc"
           \/ pc[p] = "reject_snap" /\ pc'[p] = "reject_trunc"
        /\ \A q \in Procs : q # p => pc'[q] = "idle"
    BY <1>1, <1>4 DEF WriteSnapshot, TypeOK
  <2>3. CASE p = Tracker
    BY <1>2, <2>1, <2>2, <2>3, ProcsAssumption DEF Numbering, Mutex, tracker, Procs
  <2>4. CASE p # Tracker
    BY <1>2, <2>1, <2>2, <2>4, ProcsAssumption DEF Numbering, Mutex, tracker, Procs
  <2> QED
    BY <2>3, <2>4
<1>5. CASE TruncateJournal(p)
  <2>1. \A q \in Procs : pc'[q] = "idle"
    BY <1>1, <1>5 DEF TruncateJournal, Release, Forget, TypeOK
  <2>2. Increasing(journal') /\ Recovered' = snap /\ snap = cand[p] /\ Recovered.seq = snap.seq
    BY <1>5, FilesAfter DEF TruncateJournal, Recovered, Numbering
  <2>3. status' # "down" => mem'.seq <= Recovered'.seq
    <3>1. CASE p = Tracker
      BY <1>2, <1>5, <2>2, <3>1 DEF TruncateJournal, Accept, Numbering, Mutex
    <3>2. CASE p # Tracker
      BY <1>2, <1>5, <2>2, <3>2 DEF TruncateJournal, Numbering, tracker
    <3> QED
      BY <3>1, <3>2
  <2> QED
    BY <2>1, <2>2, <2>3 DEF Numbering, Procs
<1>6. CASE PublishReset(p)
  <2>1. Increasing(journal') /\ Recovered'.seq = entry[p].seq /\ entry[p].seq > Recovered.seq
    BY <1>6, FilesAfter DEF PublishReset, Recovered
  <2>2. /\ UNCHANGED <<snap, tracker, entry, cand>>
        /\ pc[p] = "reset" /\ pc'[p] = "snap" /\ entry[p].seq = cand[p].seq
        /\ \A q \in Procs : q # p => pc'[q] = "idle"
    BY <1>1, <1>6 DEF PublishReset, TypeOK, Numbering
  <2>3. CASE p = Tracker
    BY <1>2, <2>1, <2>2, <2>3, ProcsAssumption DEF Numbering, Mutex, tracker, Procs
  <2>4. CASE p # Tracker
    BY <1>2, <2>1, <2>2, <2>4, ProcsAssumption DEF Numbering, Mutex, tracker, Procs
  <2> QED
    BY <2>3, <2>4
<1>7. CASE AppendFails(p)
  <2>1. Increasing(journal') /\ Recovered'.seq >= Recovered.seq
    <3>1. CASE UNCHANGED <<snap, journal>>
      BY <1>2, <3>1, SameFiles DEF Numbering
    <3>2. CASE journal' = Append(journal, entry[p]) /\ UNCHANGED snap
      <4>1. Increasing(journal') /\ Fold(snap', journal').seq >= Recovered.seq
        <5>1. pc[p] = "append"
          BY <1>7 DEF AppendFails
        <5> DEFINE j == Append(journal, entry[p])
        <5>2. Increasing(j) /\ Fold(snap, j).seq = entry[p].seq /\ entry[p].seq > Recovered.seq
          BY <5>1, FilesAfter
        <5>3. journal' = j /\ snap' = snap
          BY <3>2
        <5> HIDE DEF j
        <5> QED
          BY <1>2, <5>2, <5>3
      <4> QED
        BY <4>1 DEF Recovered
    <3> QED
      BY <1>7, <3>1, <3>2 DEF AppendFails
  <2> QED
    BY <1>0, <1>2, <1>7, <2>1, NumberingFail DEF AppendFails
<1>8. CASE WriteSnapshotFails(p)
  <2>1. Increasing(journal') /\ Recovered'.seq >= Recovered.seq
    <3>1. CASE UNCHANGED <<snap, journal>>
      BY <1>2, <3>1, SameFiles DEF Numbering
    <3>2. CASE snap' = cand[p] /\ UNCHANGED journal
      <4>1. Increasing(journal') /\ Fold(snap', journal').seq >= Recovered.seq
        <5>1. pc[p] \in {"snap", "reject_snap"}
          BY <1>8 DEF WriteSnapshotFails
        <5> QED
          BY <1>2, <3>2, <5>1, FilesAfter DEF Numbering
      <4> QED
        BY <4>1 DEF Recovered
    <3> QED
      BY <1>8, <3>1, <3>2 DEF WriteSnapshotFails
  <2> QED
    BY <1>0, <1>2, <1>8, <2>1, NumberingFail DEF WriteSnapshotFails
<1>9. CASE TruncateFails(p)
  <2>1. Increasing(journal') /\ Recovered'.seq >= Recovered.seq
    <3>1. CASE UNCHANGED <<snap, journal>>
      BY <1>2, <3>1, SameFiles DEF Numbering
    <3>2. CASE journal' = <<>> /\ UNCHANGED snap
      <4>1. Increasing(journal') /\ Fold(snap', journal').seq >= Recovered.seq
        <5>1. pc[p] \in {"trunc", "reject_trunc"}
          BY <1>9 DEF TruncateFails
        <5>2. Recovered.seq = snap.seq
          BY <5>1 DEF Numbering
        <5> DEFINE j == <<>>
        <5>3. Increasing(j) /\ Fold(snap, j) = snap
          BY <5>1, FilesAfter
        <5>4. journal' = j /\ snap' = snap
          BY <3>2
        <5> HIDE DEF j
        <5> QED
          BY <1>2, <5>2, <5>3, <5>4
      <4> QED
        BY <4>1 DEF Recovered
    <3> QED
      BY <1>9, <3>1, <3>2 DEF TruncateFails
  <2> QED
    BY <1>0, <1>2, <1>9, <2>1, NumberingFail DEF TruncateFails
<1>10. CASE PublishResetFails(p)
  <2>1. Increasing(journal') /\ Recovered'.seq >= Recovered.seq
    <3>1. CASE UNCHANGED <<snap, journal>>
      BY <1>2, <3>1, SameFiles DEF Numbering
    <3>2. CASE journal' = <<entry[p]>> /\ UNCHANGED snap
      <4>1. Increasing(journal') /\ Fold(snap', journal').seq >= Recovered.seq
        <5>1. pc[p] = "reset"
          BY <1>10 DEF PublishResetFails
        <5> QED
          BY <1>2, <3>2, <5>1, FilesAfter
      <4> QED
        BY <4>1 DEF Recovered
    <3> QED
      BY <1>10, <3>1, <3>2 DEF PublishResetFails
  <2> QED
    BY <1>0, <1>2, <1>10, <2>1, NumberingFail DEF PublishResetFails
<1> QED
  BY <1>3, <1>4, <1>5, <1>6, <1>7, <1>8, <1>9, <1>10 DEF FileStep

\* Every step of a command process keeps Numbering: its entry is numbered one
\* above what it recovered (transactLocked).
LEMMA NumberingWriterStep ==
  ASSUME TypeOK, Mutex, Numbering, NEW w \in Writers, WriterStep(w)
  PROVE  Numbering'
<1>0. w \in Procs /\ w # Tracker /\ Tracker \in Procs
  BY ProcsAssumption DEF Procs
<1>1. /\ mem.seq \in Nat /\ Recovered \in Content /\ Recovered.seq \in Nat /\ Recovered.seq \in 0..MaxSeq
      /\ status # "down" => mem.seq <= Recovered.seq
  BY RecoveredType, ContentNat DEF TypeOK, Numbering, Content
<1>2. ASSUME NEW kind \in {"observe", "gc"}, NEW ids \in SUBSET Reports,
             WriterCommand(w, kind, ids)
      PROVE  Numbering'
  <2> DEFINE e == [seq |-> Recovered.seq + 1, kind |-> kind, ids |-> ids]
  <2>1. Recovered' = Recovered
    BY <1>2, SameFiles DEF WriterCommand, files
  <2>2. e \in Entry
    BY <1>1, <1>2, BoundsAssumption DEF WriterCommand, Entry
  <2>3. ApplyEntry(Recovered, e).seq = Recovered.seq + 1
    BY <1>1, <2>2, ApplyEntrySeq
  <2>4. \A q \in Procs : pc[q] = "idle"
    BY <1>0, <1>2, OnlyHolder DEF WriterCommand
  <2>5. /\ UNCHANGED <<snap, journal, mem, status, op>>
        /\ \A q \in Procs : q # w => pc'[q] = "idle"
        /\ entry'[w] = e
        /\ pc'[w] = "append" \/ (pc'[w] = "snap" /\ cand'[w] = ApplyEntry(Recovered, e))
    BY <1>0, <1>2, <2>4 DEF WriterCommand, TypeOK, files, tracker
  <2> HIDE DEF e
  <2>6. entry'[w].seq = Recovered.seq + 1 /\ entry'[w].kind # "reset"
    BY <2>5 DEF e
  <2> QED
    BY <1>0, <1>1, <2>1, <2>3, <2>5, <2>6 DEF Numbering, Procs
<1>3. CASE WriterReset(w)
  <2> DEFINE q == ResetPosition(0) + 1
  <2>1. Recovered' = Recovered
    BY <1>3, SameFiles DEF WriterReset, files
  <2>2. q \in Nat /\ Recovered.seq < q
    BY <1>1, ResetPositionMax, ResetPositionSeq, BoundsAssumption DEF Numbering
  <2>3. \A r \in Procs : pc[r] = "idle"
    BY <1>0, <1>3, OnlyHolder DEF WriterReset
  <2>4. /\ UNCHANGED <<snap, journal, mem, status, op>>
        /\ \A r \in Procs : r # w => pc'[r] = "idle"
        /\ entry'[w] = [seq |-> q, kind |-> "reset", ids |-> {}]
        /\ cand'[w] = Empty(q)
        /\ pc'[w] = "reset"
    BY <1>0, <1>3, <2>3 DEF WriterReset, TypeOK, files, tracker
  <2> HIDE DEF q
  <2>5. entry'[w].seq = q /\ cand'[w].seq = q
    BY <2>4 DEF Empty
  <2> QED
    BY <1>0, <1>1, <2>1, <2>2, <2>4, <2>5 DEF Numbering, Procs
<1>4. CASE WriterCrash(w)
  <2>1. \A q \in Procs : pc'[q] = "idle"
    BY <1>0, <1>4, OnlyHolder DEF WriterCrash, Release, Forget, TypeOK
  <2>2. Recovered' = Recovered
    BY <1>4, SameFiles DEF WriterCrash
  <2> QED
    BY <1>1, <1>4, <2>1, <2>2 DEF WriterCrash, tracker, Numbering, Procs
<1>5. CASE \E x \in Reports \ used : WriterCommand(w, "observe", {x})
  <2>1. PICK x \in Reports \ used : WriterCommand(w, "observe", {x})
    BY <1>5
  <2>2. {x} \in SUBSET Reports /\ "observe" \in {"observe", "gc"}
    OBVIOUS
  <2> QED
    BY <1>2, <2>1, <2>2
<1>6. CASE WriterCommand(w, "gc", {})
  <2>1. {} \in SUBSET Reports /\ "gc" \in {"observe", "gc"}
    OBVIOUS
  <2> QED
    BY <1>2, <1>6, <2>1
<1> QED
  BY <1>3, <1>4, <1>5, <1>6 DEF WriterStep

\* Every step of the tracker keeps Numbering: its memory is never ahead of the
\* files by more than the entry it is about to write (commandLocked).
LEMMA NumberingTrackerStep ==
  ASSUME TypeOK, Mutex, Numbering, TrackerStep
  PROVE  Numbering'
<1>0. Tracker \in Procs /\ Tracker \notin Writers
  BY ProcsAssumption DEF Procs
<1>1. /\ mem.seq \in Nat /\ mem \in Content /\ Recovered \in Content /\ Recovered.seq \in Nat
      /\ Increasing(journal)
      /\ status # "down" => mem.seq <= Recovered.seq
  BY RecoveredType, ContentNat DEF TypeOK, Numbering
<1>w. pc[Tracker] # "idle" \/ lock = None => \A q \in Procs : q # Tracker => pc[q] = "idle"
  BY <1>0, OnlyHolder
<1>2. CASE TruncateRejected
  <2>1. Increasing(journal') /\ Recovered' = snap /\ snap = cand[Tracker]
    <3>1. pc[Tracker] = "reject_trunc"
      BY <1>2 DEF TruncateRejected
    <3>2. Fold(snap, <<>>) = snap /\ Increasing(<<>>) /\ snap = cand[Tracker]
      BY <1>0, <3>1, FilesAfter DEF Numbering
    <3>3. journal' = <<>> /\ snap' = snap
      BY <1>2 DEF TruncateRejected
    <3> QED
      BY <3>2, <3>3 DEF Recovered
  <2>2. /\ mem' = cand[Tracker] /\ pc'[Tracker] = "act"
        /\ \A q \in Procs : q # Tracker => pc'[q] = "idle"
    BY <1>0, <1>2, <1>w DEF TruncateRejected, Accept, TypeOK
  <2>3. snap.seq \in Nat
    BY ContentNat DEF TypeOK
  <2> QED
    BY <1>0, <2>1, <2>2, <2>3 DEF Numbering, Procs
<1>3. ASSUME NEW o, NEW ids, TrackerBegin(o, ids) PROVE Numbering'
  <2>1. Recovered' = Recovered
    BY <1>3, SameFiles DEF TrackerBegin, files
  <2>2. Consumed.seq = Recovered.seq /\ (NeedsCheckpoint => Consumed.seq > mem.seq)
    BY <1>1, <1>3, ConsumedSeq DEF TrackerBegin, NeedsCheckpoint
  <2>3. /\ \A q \in Procs : q # Tracker => pc'[q] = "idle"
        /\ UNCHANGED <<snap, journal, status>>
    BY <1>0, <1>3, <1>w DEF TrackerBegin, TypeOK, files
  <2>4. CASE NeedsCheckpoint
    <3>1. pc'[Tracker] = "reject_snap" /\ cand'[Tracker] = Consumed /\ mem' = mem
      BY <1>0, <1>3, <2>4 DEF TrackerBegin, TypeOK
    <3> QED
      BY <1>0, <1>1, <2>1, <2>2, <2>3, <2>4, <3>1 DEF Numbering, Procs
  <2>5. CASE ~NeedsCheckpoint
    <3>1. pc'[Tracker] = "act" /\ mem'.seq = Consumed.seq
      BY <1>0, <1>3, <2>5 DEF TrackerBegin, Accept, TypeOK
    <3> QED
      BY <1>0, <1>1, <2>1, <2>2, <2>3, <3>1 DEF Numbering, Procs
  <2> QED
    BY <2>4, <2>5
<1>4. CASE TrackerDrain
  <2>1. \A q \in Procs : pc'[q] = "idle"
    BY <1>0, <1>4, <1>w DEF TrackerDrain, Release, Forget, TypeOK
  <2>2. Recovered' = Recovered
    BY <1>4, SameFiles DEF TrackerDrain, files
  <2> QED
    BY <1>1, <1>4, <2>1, <2>2 DEF TrackerDrain, files, Numbering, Procs
<1>5. CASE TrackerReset
  <2> DEFINE q == ResetPosition(mem.seq) + 1
  <2>0. mem.seq \in 0..MaxSeq
    BY <1>1 DEF Content
  <2>1. Recovered' = Recovered
    BY <1>5, SameFiles DEF TrackerReset, files
  <2>2. q \in Nat /\ Recovered.seq < q /\ mem.seq < q
    <3>1. /\ ResetPosition(mem.seq) \in 0..MaxSeq /\ mem.seq <= ResetPosition(mem.seq)
          /\ Recovered.seq <= ResetPosition(mem.seq)
      BY <1>1, <2>0, ResetPositionMax, ResetPositionSeq
    <3>2. Recovered.seq \in Nat
      BY <1>1, ContentNat
    <3> QED
      BY <2>0, <3>1, <3>2, BoundsAssumption
  <2>3. /\ UNCHANGED <<snap, journal, mem, status>>
        /\ \A r \in Procs : r # Tracker => pc'[r] = "idle"
        /\ entry'[Tracker] = [seq |-> q, kind |-> "reset", ids |-> {}]
        /\ cand'[Tracker] = Empty(q)
        /\ pc'[Tracker] = "reset"
    BY <1>0, <1>5, <1>w DEF TrackerReset, TypeOK, files
  <2> HIDE DEF q
  <2>4. entry'[Tracker].seq = q /\ cand'[Tracker].seq = q
    BY <2>3 DEF Empty
  <2> QED
    BY <1>0, <1>1, <2>1, <2>2, <2>3, <2>4 DEF Numbering, Procs
<1>6. CASE TrackerClose
  <2>1. Recovered' = Recovered
    BY <1>6, SameFiles DEF TrackerClose, files
  <2> QED
    BY <1>0, <1>6, <2>1 DEF TrackerClose, files, local, Numbering, Procs
<1>7. CASE TrackerReleaseOwner
  <2>1. Recovered' = Recovered
    BY <1>7, SameFiles DEF TrackerReleaseOwner, files
  <2> QED
    BY <1>0, <1>7, <2>1 DEF TrackerReleaseOwner, files, local, Numbering, Procs
<1>8. CASE TrackerCrash
  <2>1. Recovered' = Recovered
    BY <1>8, SameFiles DEF TrackerCrash
  <2>2. /\ UNCHANGED <<snap, journal>> /\ status' = "down"
        /\ pc'[Tracker] = "idle"
        /\ \A q \in Procs : q # Tracker => UNCHANGED <<pc[q], entry[q], cand[q]>>
    BY <1>0, <1>8 DEF TrackerCrash, Forget, TypeOK
  <2> QED
    BY <1>0, <1>1, <2>1, <2>2 DEF Numbering, Procs
<1>9. ASSUME NEW expired, TrackerOpen(expired) PROVE Numbering'
  <2>1. Recovered' = Recovered /\ mem'.seq = Recovered.seq
    BY <1>1, <1>9, SameFiles DEF TrackerOpen, files, Content
  <2>2. \A q \in Procs : pc'[q] = "idle"
    BY <1>0, <1>9, OnlyHolder DEF TrackerOpen, local, Mutex
  <2> QED
    BY <1>1, <1>9, <2>1, <2>2 DEF TrackerOpen, files, Numbering, Procs
<1>10. ASSUME NEW expired, TrackerRefresh(expired) PROVE Numbering'
  <2>1. Recovered' = Recovered /\ mem'.seq = mem.seq
    BY <1>1, <1>10, SameFiles DEF TrackerRefresh, Accept, files, Content
  <2>2. \A q \in Procs : pc'[q] = "idle"
    BY <1>0, <1>10, <1>w DEF TrackerRefresh, Release, Forget, TypeOK
  <2> QED
    BY <1>1, <1>10, <2>1, <2>2 DEF TrackerRefresh, files, Numbering, Procs
<1>11. ASSUME NEW expired, TrackerCommand(expired) PROVE Numbering'
  <2> DEFINE e == [seq |-> mem.seq + 1, kind |-> op, ids |-> entry[Tracker].ids]
             c == [ApplyEntry(mem, e) EXCEPT !.ids = @ \ expired]
  <2>0. mem.seq < MaxSeq /\ op \in {"observe", "gc"} /\ pc[Tracker] = "act"
    BY <1>11 DEF TrackerCommand
  <2>1. Recovered' = Recovered
    BY <1>11, SameFiles DEF TrackerCommand, files
  <2>2. e \in Entry
    <3>0. entry[Tracker] \in Entry
      BY <1>0 DEF TypeOK
    <3>1. mem.seq + 1 \in 0..MaxSeq /\ entry[Tracker].ids \in SUBSET Reports
      BY <1>1, <2>0, <3>0, BoundsAssumption DEF Content, Entry
    <3> QED
      BY <2>0, <3>1 DEF Entry
  <2>3. ApplyEntry(mem, e) \in Content /\ ApplyEntry(mem, e).seq = e.seq
    BY <1>1, <2>2, ApplyEntrySeq, ApplyEntryType
  <2>4. /\ UNCHANGED <<snap, journal, mem, status, op>>
        /\ \A q \in Procs : q # Tracker => pc'[q] = "idle"
        /\ entry'[Tracker] = e /\ cand'[Tracker] = c
        /\ pc'[Tracker] = "append"
    BY <1>0, <1>11, <1>w DEF TrackerCommand, TypeOK, files, tracker
  <2>5. c.seq = e.seq /\ e.seq = mem.seq + 1
    BY <2>3 DEF Content
  <2> HIDE DEF e, c
  <2> QED
    BY <1>0, <1>1, <2>0, <2>1, <2>4, <2>5 DEF Numbering, Procs
<1>12. ASSUME NEW expired, NEW elapsed, TrackerPersist(expired, elapsed) PROVE Numbering'
  <2> DEFINE c == [mem EXCEPT !.ids = @ \ expired]
             u == IF c = mem THEN unsaved ELSE "visible"
  <2>1. Recovered' = Recovered /\ mem' = c /\ c.seq = mem.seq
    BY <1>1, <1>12, SameFiles DEF TrackerPersist, files, Content
  <2>2. UNCHANGED <<snap, journal>> /\ pc[Tracker] = "act" /\ op = "persist"
    BY <1>12 DEF TrackerPersist, files
  <2>3. CASE PersistDue(u, elapsed)
    <3>1. /\ cand'[Tracker] = c /\ pc'[Tracker] = "snap" /\ UNCHANGED <<op, status, entry>>
          /\ \A q \in Procs : q # Tracker => pc'[q] = "idle"
      BY <1>0, <1>12, <1>w, <2>2, <2>3 DEF TrackerPersist, TypeOK
    <3> HIDE DEF c
    <3> QED
      BY <1>0, <1>1, <2>1, <2>2, <3>1 DEF Numbering, Procs
  <2>4. CASE ~PersistDue(u, elapsed)
    <3>0. Release(Tracker) /\ status' = AfterFlush(status)
      BY <1>12, <2>4 DEF TrackerPersist
    <3>1. (\A q \in Procs : pc'[q] = "idle") /\ (status' # "down" => status # "down")
      BY <1>0, <1>w, <2>2, <3>0 DEF Release, Forget, AfterFlush, TypeOK
    <3> HIDE DEF c
    <3> QED
      BY <1>1, <2>1, <2>2, <3>1 DEF Numbering, Procs
  <2> QED
    BY <2>3, <2>4
<1> QED
  BY <1>2, <1>3, <1>4, <1>5, <1>6, <1>7, <1>8, <1>9, <1>10, <1>11, <1>12 DEF TrackerStep

\* Every step of the specification keeps Numbering.
LEMMA NumberingStep == ASSUME TypeOK, Mutex, Numbering, [Next]_vars PROVE Numbering'
<1>1. CASE Next
  BY <1>1, TypeStep, NumberingFileStep, NumberingWriterStep, NumberingTrackerStep DEF Next
<1>2. CASE UNCHANGED vars
  <2>1. Recovered' = Recovered
    BY <1>2, SameFiles DEF vars, files
  <2> QED
    BY <1>2, <2>1 DEF Numbering, vars, files, tracker, local
<1> QED
  BY <1>1, <1>2

-----------------------------------------------------------------------------
(* The journal has no gap.                                                 *)


\* The ways the two files change, all of them by a process at work.
FilesStep(p) ==
  \/ pc[p] = "append" /\ journal' = Append(journal, entry[p]) /\ snap' = snap
  \/ pc[p] \in {"snap", "reject_snap"} /\ snap' = cand[p] /\ journal' = journal
  \/ pc[p] \in {"trunc", "reject_trunc"} /\ journal' = <<>> /\ snap' = snap
  \/ pc[p] = "reset" /\ journal' = <<entry[p]>> /\ snap' = snap

\* The only changes ever made to the two files are those of FilesStep.
LEMMA FilesChange ==
  ASSUME [Next]_vars
  PROVE  UNCHANGED <<snap, journal>> \/ \E p \in Procs : FilesStep(p)
<1>1. ASSUME NEW p \in Procs, FileStep(p) PROVE UNCHANGED <<snap, journal>> \/ FilesStep(p)
  BY <1>1 DEF FileStep, FilesStep, AppendJournal, AppendFails, WriteSnapshot, WriteSnapshotFails,
              TruncateJournal, TruncateFails, PublishReset, PublishResetFails
<1>2. ASSUME NEW w \in Writers, WriterStep(w) PROVE UNCHANGED <<snap, journal>>
  BY <1>2 DEF WriterStep, WriterCommand, WriterReset, WriterCrash, files
<1>3. CASE TruncateRejected
  <2>1. Tracker \in Procs /\ FilesStep(Tracker)
    BY <1>3 DEF TruncateRejected, FilesStep, Procs
  <2> QED
    BY <2>1
<1>4. CASE TrackerStep /\ ~TruncateRejected
  BY <1>4 DEF TrackerStep, TrackerBegin, TrackerDrain, TrackerReset, TrackerClose, TrackerReleaseOwner,
              TrackerCrash, TrackerOpen, TrackerRefresh, TrackerCommand, TrackerPersist, files
<1>5. CASE UNCHANGED vars
  BY <1>5 DEF vars, files
<1> QED
  BY <1>1, <1>2, <1>3, <1>4, <1>5 DEF Next

-----------------------------------------------------------------------------
(* The journal has no gap.                                                 *)

LEMMA CoveredPending ==
  ASSUME NEW c \in Content, NEW j \in Seq(Entry), \A i \in 1..Len(j) : j[i].seq <= c.seq
  PROVE  Pending(c.seq, j) = {}
<1>1. \A i \in 1..Len(j) : j[i] \in Entry
  OBVIOUS
<1> QED
  BY <1>1, ContentNat DEF Pending

\* The second half of JournalContiguous.
Gapless(c, j) ==
  \A i \in Pending(c.seq, j) :
    \/ j[i].kind = "reset"
    \/ j[i].seq = c.seq + 1
    \/ (i > 1 /\ j[i].seq = j[i - 1].seq + 1)

\* Every step leaves a journal that load can read from the snapshot on: no number
\* above the snapshot's is missing (foldJournal).
LEMMA GaplessStep ==
  ASSUME TypeOK, Mutex, Numbering, Gapless(snap, journal), [Next]_vars
  PROVE  Gapless(snap', journal')
<1>0. /\ Highest(Recovered.seq, snap, journal) /\ snap \in Content /\ journal \in Seq(Entry)
      /\ Recovered.seq \in Nat /\ snap.seq \in Nat
      /\ \A i \in 1..Len(journal) : journal[i] \in Entry /\ journal[i].seq \in Nat
  <2>1. snap \in Content /\ journal \in Seq(Entry) /\ Recovered \in Content
    BY RecoveredType DEF TypeOK
  <2>2. \A i \in 1..Len(journal) : journal[i] \in Entry
    BY <2>1
  <2> QED
    BY <2>1, <2>2, RecoveredHighest, ContentNat DEF Numbering
<1>1. CASE UNCHANGED <<snap, journal>>
  BY <1>1
<1>2. ASSUME NEW p \in Procs, FilesStep(p) PROVE Gapless(snap', journal')
  <2>0. cand[p] \in Content /\ entry[p] \in Entry /\ cand[p].seq \in Nat /\ entry[p].seq \in Nat
    BY ContentNat DEF TypeOK
  <2>1. CASE pc[p] = "append" /\ journal' = Append(journal, entry[p]) /\ snap' = snap
    <3> DEFINE j == Append(journal, entry[p])
    <3>1. /\ Len(j) = Len(journal) + 1 /\ Len(journal) \in Nat /\ j[Len(j)] = entry[p]
          /\ \A i \in 1..Len(journal) : j[i] = journal[i]
      BY <1>0, <2>0
    <3>2. entry[p].seq = Recovered.seq + 1
      BY <2>1 DEF Numbering
    <3> HIDE DEF j
    <3> SUFFICES ASSUME NEW i \in Pending(snap.seq, j)
                 PROVE  \/ j[i].kind = "reset"
                        \/ j[i].seq = snap.seq + 1
                        \/ (i > 1 /\ j[i].seq = j[i - 1].seq + 1)
      BY <2>1 DEF Gapless, j
    <3>3. i \in 1..Len(j) /\ j[i].seq > snap.seq
      BY DEF Pending
    <3>4. CASE i \in 1..Len(journal)
      <4>1. i \in Pending(snap.seq, journal)
        BY <3>1, <3>3, <3>4 DEF Pending
      <4>2. i > 1 => i - 1 \in 1..Len(journal)
        BY <3>1, <3>4
      <4> QED
        BY <3>1, <3>4, <4>1, <4>2 DEF Gapless
    <3>5. CASE i = Len(j)
      <4>1. CASE Recovered.seq = snap.seq
        BY <3>1, <3>2, <3>5, <4>1
      <4>2. CASE Len(journal) \in 1..Len(journal) /\ Recovered.seq = journal[Len(journal)].seq
        BY <3>1, <3>2, <3>5, <4>2
      <4> QED
        BY <1>0, <4>1, <4>2 DEF Highest
    <3> QED
      BY <3>1, <3>3, <3>4, <3>5
  <2>2. CASE pc[p] \in {"snap", "reject_snap"} /\ snap' = cand[p] /\ journal' = journal
    <3>1. cand[p].seq >= Recovered.seq
      BY <2>2 DEF Numbering
    <3>2. \A i \in 1..Len(journal) : journal[i].seq <= cand[p].seq
      BY <1>0, <2>0, <3>1 DEF Highest
    <3>3. Pending(cand[p].seq, journal) = {}
      BY <1>0, <2>0, <3>2, CoveredPending
    <3> QED
      BY <2>2, <3>3 DEF Gapless
  <2>3. CASE pc[p] \in {"trunc", "reject_trunc"} /\ journal' = <<>> /\ snap' = snap
    BY <2>3 DEF Gapless, Pending
  <2>4. CASE pc[p] = "reset" /\ journal' = <<entry[p]>> /\ snap' = snap
    <3>1. entry[p].kind = "reset"
      BY <2>4 DEF Mutex
    <3> QED
      BY <2>4, <3>1 DEF Gapless, Pending
  <2> QED
    BY <1>2, <2>1, <2>2, <2>3, <2>4 DEF FilesStep
<1> QED
  BY <1>1, <1>2, FilesChange

-----------------------------------------------------------------------------
(* What counts as saved is on disk.                                        *)

LEMMA SavedFail ==
  ASSUME Mutex, SavedMeansOnDisk, NEW p, Fail(p), snap' = snap
  PROVE  SavedMeansOnDisk'
<1>1. status' # "down" => UNCHANGED <<mem, unsaved>> /\ status # "down"
  BY DEF Fail, AfterFlush
<1> QED
  BY <1>1 DEF SavedMeansOnDisk

\* A candidate that replaces the snapshot is the memory, or ahead of it.
LEMMA CandidateAhead ==
  ASSUME TypeOK, Mutex, Numbering, NEW p \in Procs, pc[p] \in {"snap", "reject_snap"},
         status # "down"
  PROVE  cand[p].seq > mem.seq \/ cand[p] = mem
<1>1. CASE p = Tracker
  BY <1>1 DEF Mutex, Numbering
<1>2. CASE p \in Writers
  BY <1>2, ProcsAssumption DEF Mutex, Numbering, Procs
<1> QED
  BY <1>1, <1>2 DEF Procs

\* Every write keeps SavedMeansOnDisk: only a published snapshot clears the mark.
LEMMA SavedFileStep ==
  ASSUME TypeOK, Mutex, Numbering, SavedMeansOnDisk, NEW p \in Procs, FileStep(p)
  PROVE  SavedMeansOnDisk'
<1>1. CASE AppendJournal(p)
  BY <1>1 DEF AppendJournal, Accept, SavedMeansOnDisk
<1>2. CASE WriteSnapshot(p)
  <2>1. pc[p] \in {"snap", "reject_snap"} /\ snap' = cand[p] /\ UNCHANGED <<mem, status>>
    BY <1>2 DEF WriteSnapshot, tracker
  <2> QED
    BY <2>1, CandidateAhead DEF SavedMeansOnDisk
<1>3. CASE WriteSnapshotFails(p)
  <2>1. CASE snap' = snap
    BY <1>3, <2>1, SavedFail DEF WriteSnapshotFails
  <2>2. CASE snap' = cand[p]
    <3>1. status' # "down" => UNCHANGED <<mem, unsaved>> /\ status # "down"
      BY <1>3 DEF WriteSnapshotFails, Fail, AfterFlush
    <3>2. status # "down" => cand[p].seq > mem.seq \/ cand[p] = mem
      BY <1>3, CandidateAhead DEF WriteSnapshotFails
    <3> QED
      BY <2>2, <3>1, <3>2 DEF SavedMeansOnDisk
  <2> QED
    BY <1>3, <2>1, <2>2 DEF WriteSnapshotFails
<1>4. CASE TruncateJournal(p)
  <2>1. CASE p = Tracker /\ op = "persist"
    <3>1. snap = mem
      BY <1>4, <2>1 DEF TruncateJournal, Numbering
    <3> QED
      BY <1>4, <2>1, <3>1 DEF TruncateJournal, SavedMeansOnDisk
  <2>2. CASE p = Tracker /\ op # "persist"
    BY <1>4, <2>2 DEF TruncateJournal, Accept, SavedMeansOnDisk
  <2>3. CASE p # Tracker
    BY <1>4, <2>3 DEF TruncateJournal, tracker, SavedMeansOnDisk
  <2> QED
    BY <2>1, <2>2, <2>3
<1>5. CASE PublishReset(p)
  BY <1>5 DEF PublishReset, tracker, SavedMeansOnDisk
<1>6. CASE AppendFails(p) \/ TruncateFails(p) \/ PublishResetFails(p)
  BY <1>6, SavedFail DEF AppendFails, TruncateFails, PublishResetFails
<1> QED
  BY <1>1, <1>2, <1>3, <1>4, <1>5, <1>6 DEF FileStep

\* Every step of the tracker keeps SavedMeansOnDisk (acceptSnapshotLocked).
LEMMA SavedTrackerStep ==
  ASSUME SavedMeansOnDisk, TrackerStep
  PROVE  SavedMeansOnDisk'
<1>1. CASE TruncateRejected
  BY <1>1 DEF TruncateRejected, Accept, SavedMeansOnDisk
<1>2. ASSUME NEW o, NEW ids, TrackerBegin(o, ids) PROVE SavedMeansOnDisk'
  BY <1>2 DEF TrackerBegin, Accept, files, SavedMeansOnDisk
<1>3. CASE TrackerDrain \/ TrackerReset \/ TrackerClose
  BY <1>3 DEF TrackerDrain, TrackerReset, TrackerClose, files, SavedMeansOnDisk
<1>4. CASE TrackerReleaseOwner \/ TrackerCrash
  BY <1>4 DEF TrackerReleaseOwner, TrackerCrash, SavedMeansOnDisk
<1>5. ASSUME NEW expired, TrackerOpen(expired) \/ TrackerRefresh(expired) PROVE SavedMeansOnDisk'
  BY <1>5 DEF TrackerOpen, TrackerRefresh, Accept, SavedMeansOnDisk
<1>6. ASSUME NEW expired, TrackerCommand(expired) PROVE SavedMeansOnDisk'
  BY <1>6 DEF TrackerCommand, tracker, files, SavedMeansOnDisk
<1>7. ASSUME NEW expired, NEW elapsed, TrackerPersist(expired, elapsed) PROVE SavedMeansOnDisk'
  <2>1. /\ snap' = snap
        /\ status' # "down" => status # "down"
        /\ unsaved' = "none" => mem' = mem /\ unsaved = "none"
    BY <1>7 DEF TrackerPersist, AfterFlush, files
  <2> QED
    BY <2>1 DEF SavedMeansOnDisk
<1> QED
  BY <1>1, <1>2, <1>3, <1>4, <1>5, <1>6, <1>7 DEF TrackerStep

\* Every step of the specification keeps SavedMeansOnDisk.
LEMMA SavedStep ==
  ASSUME TypeOK, Mutex, Numbering, SavedMeansOnDisk, [Next]_vars
  PROVE  SavedMeansOnDisk'
<1>1. ASSUME NEW w \in Writers, WriterStep(w) PROVE SavedMeansOnDisk'
  BY <1>1 DEF WriterStep, WriterCommand, WriterReset, WriterCrash, files, tracker, SavedMeansOnDisk
<1>2. CASE UNCHANGED vars
  BY <1>2 DEF vars, files, tracker, SavedMeansOnDisk
<1> QED
  BY <1>1, <1>2, SavedFileStep, SavedTrackerStep DEF Next

-----------------------------------------------------------------------------
(* An acknowledged report is in the files.                                 *)

\* Applying an entry of reports adds all of its reports but the late ones, which
\* the evidence may refuse.
LEMMA ApplyAdds ==
  ASSUME NEW c \in Content, NEW e \in Entry, e.ids # {} => e.kind = "observe"
  PROVE  e.ids \ Late \subseteq ApplyEntry(c, e).ids
<1>1. CASE e.kind = "observe"
  BY <1>1 DEF ApplyEntry, Accepts, Content
<1>2. CASE e.kind # "observe"
  BY <1>2
<1> QED
  BY <1>1, <1>2

\* A write, or a failed one, keeps Carried.
LEMMA CarriedFileStep ==
  ASSUME TypeOK, Mutex, Carried, NEW p \in Procs, FileStep(p)
  PROVE  Carried'
<1>0. pc[p] # "idle"
  BY DEF FileStep, AppendJournal, AppendFails, WriteSnapshot, WriteSnapshotFails,
         TruncateJournal, TruncateFails, PublishReset, PublishResetFails
<1>1. \A q \in Procs : q # p => pc[q] = "idle"
  BY <1>0, OnlyHolder
<1>2. NoEntry.ids = {} /\ NoEntry.kind = "observe"
  BY DEF NoEntry
<1>3. ASSUME Forget(p) PROVE Carried'
  <2>1. \A q \in Procs : pc'[q] = "idle" /\ entry'[q] = NoEntry
    BY <1>1, <1>3 DEF Forget, Carried, TypeOK
  <2> QED
    BY <1>2, <2>1 DEF Carried, Procs
<1>4. CASE WriteSnapshot(p) \/ PublishReset(p)
  <2>1. /\ UNCHANGED <<entry, cand, op>>
        /\ \A q \in Procs : q # p => pc'[q] = pc[q]
        /\ pc'[p] # "idle"
        /\ (pc[p] = "snap" /\ pc'[p] = "trunc") \/ pc[p] = "reset"
              \/ pc'[p] \notin {"snap", "trunc"}
    BY <1>4 DEF WriteSnapshot, PublishReset, TypeOK, tracker
  <2>2. pc[p] = "reset" => entry[p].ids = {}
    BY DEF Carried, Mutex
  <2> QED
    BY <1>0, <2>1, <2>2, ProcsAssumption DEF Carried, Procs
<1> QED
  BY <1>3, <1>4 DEF FileStep, AppendJournal, AppendFails, WriteSnapshotFails,
     TruncateJournal, TruncateFails, PublishResetFails, Release, Fail

\* A command process that will write a snapshot has its own reports in it, but
\* for the late ones (transactLocked).
LEMMA CarriedWriterStep ==
  ASSUME TypeOK, Mutex, Carried, NEW w \in Writers, WriterStep(w)
  PROVE  Carried'
<1>0. w \in Procs /\ w # Tracker /\ Tracker \in Procs
  BY ProcsAssumption DEF Procs
<1>1. ASSUME NEW kind \in {"observe", "gc"}, NEW ids \in SUBSET Reports,
             ids # {} => kind = "observe", WriterCommand(w, kind, ids)
      PROVE  Carried'
  <2> DEFINE e == [seq |-> Recovered.seq + 1, kind |-> kind, ids |-> ids]
  <2>0. Recovered \in Content /\ Recovered.seq < MaxSeq
    BY <1>1, RecoveredType DEF WriterCommand
  <2>1. e \in Entry /\ Recovered \in Content
    BY <2>0, BoundsAssumption DEF Entry, Content
  <2>2. e.ids \ Late \subseteq ApplyEntry(Recovered, e).ids
    BY <1>1, <2>1, ApplyAdds
  <2>3. /\ \A q \in Procs : q # w => UNCHANGED <<pc[q], entry[q], cand[q]>>
        /\ entry'[w] = e /\ UNCHANGED op
        /\ pc'[w] = "append" \/ (pc'[w] = "snap" /\ cand'[w] = ApplyEntry(Recovered, e))
    BY <1>0, <1>1 DEF WriterCommand, TypeOK, tracker
  <2>4. e.ids # {} => e.kind = "observe"
    BY <1>1
  <2> HIDE DEF e
  <2> QED
    BY <1>0, <2>2, <2>3, <2>4 DEF Carried, Procs
<1>2. CASE WriterReset(w)
  BY <1>0, <1>2 DEF WriterReset, TypeOK, tracker, Carried, Procs
<1>3. CASE WriterCrash(w)
  BY <1>0, <1>3 DEF WriterCrash, Release, Forget, NoEntry, TypeOK, tracker, Carried, Procs
<1>4. CASE \E x \in Reports \ used : WriterCommand(w, "observe", {x})
  <2>1. PICK x \in Reports \ used : WriterCommand(w, "observe", {x})
    BY <1>4
  <2>2. {x} \in SUBSET Reports /\ "observe" \in {"observe", "gc"}
    OBVIOUS
  <2> QED
    BY <1>1, <2>1, <2>2
<1>5. CASE WriterCommand(w, "gc", {})
  <2>1. {} \in SUBSET Reports /\ "gc" \in {"observe", "gc"}
    OBVIOUS
  <2> QED
    BY <1>1, <1>5, <2>1
<1> QED
  BY <1>2, <1>3, <1>4, <1>5 DEF WriterStep

\* The tracker keeps its reports from the consumption of the journal to the entry
\* they are journaled in (commandLocked).
LEMMA CarriedTrackerStep ==
  ASSUME TypeOK, Mutex, Carried, TrackerStep
  PROVE  Carried'
<1>0. Tracker \in Procs /\ Tracker \notin Writers
  BY ProcsAssumption DEF Procs
<1>1. NoEntry.ids = {} /\ NoEntry.kind = "observe"
  BY DEF NoEntry
<1>2. ASSUME Forget(Tracker) PROVE Carried'
  <2>1. /\ \A q \in Procs : q # Tracker => UNCHANGED <<pc[q], entry[q], cand[q]>>
        /\ pc'[Tracker] = "idle" /\ entry'[Tracker] = NoEntry
    BY <1>0, <1>2 DEF Forget, TypeOK
  <2> QED
    BY <1>0, <1>1, <2>1 DEF Carried, Procs
<1>3. ASSUME NEW o, NEW ids, ids # {} => o = "observe", TrackerBegin(o, ids) PROVE Carried'
  <2>1. /\ \A q \in Procs : q # Tracker => UNCHANGED <<pc[q], entry[q], cand[q]>>
        /\ pc'[Tracker] # "idle" /\ op' = o
        /\ entry'[Tracker] = [entry[Tracker] EXCEPT !.ids = ids]
    BY <1>0, <1>3 DEF TrackerBegin, TypeOK
  <2>2. entry[Tracker] = NoEntry
    BY <1>0, <1>3 DEF TrackerBegin, Carried
  <2>3. entry'[Tracker].ids = ids /\ entry'[Tracker].kind = "observe"
    BY <2>1, <2>2 DEF NoEntry
  <2> QED
    BY <1>0, <1>3, <2>1, <2>3 DEF Carried, Procs
<1>4. CASE TruncateRejected
  BY <1>0, <1>4 DEF TruncateRejected, TypeOK, Carried, Procs
<1>5. CASE TrackerReset
  BY <1>0, <1>5 DEF TrackerReset, TypeOK, Carried, Procs
<1>6. CASE TrackerClose \/ TrackerReleaseOwner \/ \E expired \in {{}, Tombs} : TrackerOpen(expired)
  BY <1>6 DEF TrackerClose, TrackerReleaseOwner, TrackerOpen, local, Carried
<1>7. ASSUME NEW expired, TrackerCommand(expired) PROVE Carried'
  <2>1. /\ \A q \in Procs : q # Tracker => UNCHANGED <<pc[q], entry[q], cand[q]>>
        /\ pc[Tracker] = "act" /\ pc'[Tracker] = "append" /\ op' = op /\ op \in {"observe", "gc"}
        /\ entry'[Tracker].kind = op /\ entry'[Tracker].ids = entry[Tracker].ids
    BY <1>0, <1>7 DEF TrackerCommand, TypeOK, tracker
  <2> QED
    BY <1>0, <2>1 DEF Carried, Procs
<1>8. ASSUME NEW expired, NEW elapsed, TrackerPersist(expired, elapsed) PROVE Carried'
  <2>1. CASE Forget(Tracker)
    BY <1>2, <2>1
  <2>2. CASE ~Forget(Tracker)
    <3>1. /\ pc[Tracker] = "act" /\ pc' = [pc EXCEPT ![Tracker] = "snap"]
          /\ UNCHANGED <<entry, op>> /\ \E c : cand' = [cand EXCEPT ![Tracker] = c]
      BY <1>8, <2>2 DEF TrackerPersist, Release
    <3> QED
      BY <1>0, <3>1 DEF TypeOK, Carried, Procs
  <2> QED
    BY <2>1, <2>2
<1>9. CASE TrackerDrain \/ TrackerCrash \/ \E expired \in {{}, Tombs} : TrackerRefresh(expired)
  BY <1>2, <1>9 DEF TrackerDrain, TrackerCrash, TrackerRefresh, Release
<1> QED
  BY <1>3, <1>4, <1>5, <1>6, <1>7, <1>8, <1>9 DEF TrackerStep

\* Every step of the specification keeps Carried.
LEMMA CarriedStep == ASSUME TypeOK, Mutex, Carried, [Next]_vars PROVE Carried'
<1>1. CASE Next
  BY <1>1, CarriedFileStep, CarriedWriterStep, CarriedTrackerStep DEF Next
<1>2. CASE UNCHANGED vars
  BY <1>2 DEF Carried, vars, tracker, local
<1> QED
  BY <1>1, <1>2

-----------------------------------------------------------------------------
(* The theorems.                                                           *)

Inv == /\ TypeOK /\ Mutex /\ Numbering /\ Carried
       /\ Gapless(snap, journal) /\ SavedMeansOnDisk

\* The invariant holds of the empty registry a first process finds.
LEMMA InvInit == ASSUME Init PROVE Inv
<1>1. TypeOK
  BY TypeInit
<1>2. Mutex
  BY ProcsAssumption DEF Init, Mutex, Procs
<1>3. Increasing(journal) /\ Gapless(snap, journal)
  BY DEF Init, Increasing, Gapless, Pending
<1>4. Numbering
  BY <1>3 DEF Init, Numbering, Procs
<1>5. Carried
  BY DEF Init, Carried, NoEntry, Procs
<1>6. SavedMeansOnDisk
  BY DEF Init, SavedMeansOnDisk
<1> QED
  BY <1>1, <1>2, <1>3, <1>4, <1>5, <1>6 DEF Inv

\* The invariant is inductive: every step of the specification keeps it.
LEMMA InvStep == ASSUME Inv, [Next]_vars PROVE Inv'
<1> USE DEF Inv
<1>1. TypeOK' /\ Mutex' /\ Numbering' /\ Carried'
  BY TypeStep, MutexStep, NumberingStep, CarriedStep
<1>2. Gapless(snap, journal)'
  BY GaplessStep
<1>3. SavedMeansOnDisk'
  BY SavedStep
<1> QED
  BY <1>1, <1>2, <1>3

\* The inductive invariant holds in every reachable state of the journal and
\* snapshot files, their lock and the tracker's memory, for any number of command
\* processes, any reports and any bounds.
THEOREM Invariance == Spec => []Inv
<1>1. Init => Inv
  BY InvInit
<1>2. Inv /\ [Next]_vars => Inv'
  BY InvStep
<1> QED
  BY <1>1, <1>2, PTL DEF Spec

\* Writers and tracker number their entries from different copies of the
\* content, and still the journal's numbers increase and continue the
\* snapshot's without a gap.
THEOREM JournalIsContiguous == Spec => []JournalContiguous
<1>1. Inv => JournalContiguous
  <2> SUFFICES ASSUME Inv PROVE JournalContiguous
    OBVIOUS
  <2>1. Increasing(journal) /\ Gapless(snap, journal) /\ journal \in Seq(Entry)
    BY DEF Inv, Numbering, TypeOK
  <2>2. ASSUME NEW i \in 1..Len(journal) - 1 PROVE journal[i].seq < journal[i + 1].seq
    <3>1. i \in 1..Len(journal) /\ i + 1 \in 1..Len(journal) /\ i < i + 1
      BY <2>1
    <3> QED
      BY <2>1, <3>1 DEF Increasing
  <2> QED
    BY <2>1, <2>2 DEF JournalContiguous, Gapless
<1> QED
  BY <1>1, Invariance, PTL

\* persist skips a checkpoint only when the snapshot already has everything.
THEOREM SavedIsOnDisk == Spec => []SavedMeansOnDisk
<1>1. Inv => SavedMeansOnDisk
  BY DEF Inv
<1> QED
  BY <1>1, Invariance, PTL

-----------------------------------------------------------------------------
(* The fold of a longer journal.                                           *)

\* An entry numbered above everything else is applied last: folding a journal
\* with the entry appended is folding the journal and applying the entry
\* (foldJournal, applyJournalEntry).
LEMMA FoldAppend ==
  ASSUME NEW c \in Content, NEW j \in Seq(Entry), NEW e \in Entry, c.seq < e.seq
  PROVE  Fold(c, Append(j, e)) = ApplyEntry(Fold(c, j), e)
<1> DEFINE k == Append(j, e)
           n == Len(j)
           q == c.seq
<1>1. /\ k \in Seq(Entry) /\ n \in Nat /\ Len(k) = n + 1 /\ k[n + 1] = e
      /\ \A i \in 1..n : k[i] = j[i]
  OBVIOUS
<1>t. /\ Fold(c, j) \in Content /\ q \in Nat /\ e.seq \in Nat /\ e.ids \subseteq Reports
      /\ e.kind \in {"observe", "gc", "reset"} /\ c.ids \subseteq Reports
  BY FoldType, ContentNat DEF Entry, Content
<1> HIDE DEF k, n, q
<1>2. Pending(q, k) = Pending(q, j) \cup {n + 1} /\ Pending(q, j) \subseteq 1..n
  BY <1>1, <1>t DEF Pending, n, q
<1>3. \A x : \A i \in 0..n : Deleted(q, k, i, x) <=>
        \/ Deleted(q, j, i, x) \/ e.kind = "reset" \/ (e.kind = "gc" /\ x \in Tombs)
  BY <1>1, <1>2 DEF Deleted
<1>4. \A x : ~Deleted(q, k, n + 1, x)
  BY <1>1, <1>2 DEF Deleted
<1>5. /\ \A i \in 1..n : EvAt(c, k, i) = EvAt(c, j, i)
      /\ EvAt(c, k, n + 1) = IF e.kind = "reset" THEN 0 ELSE EvAt(c, j, n)
  BY <1>1, <1>2 DEF EvAt, q
<1>6. Added(c, k) =
        {x \in Added(c, j) : ~(e.kind = "reset" \/ (e.kind = "gc" /\ x \in Tombs))}
        \cup {x \in e.ids : e.kind = "observe" /\ Accepts(EvAt(c, j, n), x)}
  <2>1. ASSUME NEW x \in Reports PROVE x \in Added(c, k) <=>
          \/ x \in Added(c, j) /\ ~(e.kind = "reset" \/ (e.kind = "gc" /\ x \in Tombs))
          \/ x \in e.ids /\ e.kind = "observe" /\ Accepts(EvAt(c, j, n), x)
    <3>1. x \in Added(c, k) <=>
            \/ \E i \in Pending(q, j) : k[i].kind = "observe" /\ x \in k[i].ids
                 /\ Accepts(EvAt(c, k, i), x) /\ ~Deleted(q, k, i, x)
            \/ e.kind = "observe" /\ x \in e.ids
                 /\ Accepts(EvAt(c, k, n + 1), x) /\ ~Deleted(q, k, n + 1, x)
      BY <1>1, <1>2 DEF Added, q
    <3>2. (\E i \in Pending(q, j) : k[i].kind = "observe" /\ x \in k[i].ids
                 /\ Accepts(EvAt(c, k, i), x) /\ ~Deleted(q, k, i, x))
          <=> x \in Added(c, j) /\ ~(e.kind = "reset" \/ (e.kind = "gc" /\ x \in Tombs))
      BY <1>1, <1>2, <1>3, <1>5 DEF Added, q
    <3> QED
      BY <3>1, <3>2, <1>4, <1>5
  <2>2. Added(c, k) \subseteq Reports /\ Added(c, j) \subseteq Reports
    BY DEF Added
  <2> QED
    BY <2>1, <2>2, <1>t
<1>7. Fold(c, k).seq = e.seq /\ Fold(c, k).ev = EvAt(c, k, n + 1)
  BY <1>1, <1>2 DEF Fold, q
<1>8. Fold(c, k).ids = {x \in c.ids : ~Deleted(q, k, 0, x)} \cup Added(c, k)
  BY DEF Fold, q
<1>9. Fold(c, j).ids = {x \in c.ids : ~Deleted(q, j, 0, x)} \cup Added(c, j)
      /\ Fold(c, j).ev = EvAt(c, j, n)
  BY DEF Fold, q, n
<1>10. 0 \in 0..n
  BY <1>1
<1>f. Fold(c, k) = [seq |-> Fold(c, k).seq, ids |-> Fold(c, k).ids, ev |-> Fold(c, k).ev]
  BY DEF Fold
<1>11. CASE e.kind = "reset"
  <2>1. Fold(c, k).ids = {} /\ Fold(c, k).ev = 0
    BY <1>3, <1>5, <1>6, <1>7, <1>8, <1>10, <1>11
  <2> QED
    BY <1>f, <1>7, <1>11, <2>1 DEF ApplyEntry, Empty, k
<1>12. CASE e.kind = "gc"
  <2>1. Fold(c, k).ids = Fold(c, j).ids \ Tombs /\ Fold(c, k).ev = Fold(c, j).ev
    BY <1>3, <1>5, <1>6, <1>7, <1>8, <1>9, <1>10, <1>12
  <2> QED
    BY <1>f, <1>t, <1>7, <1>12, <2>1 DEF ApplyEntry, Content, k
<1>13. CASE e.kind = "observe"
  <2>1. /\ Fold(c, k).ids = Fold(c, j).ids \cup {x \in e.ids : Accepts(Fold(c, j).ev, x)}
        /\ Fold(c, k).ev = Fold(c, j).ev
    BY <1>3, <1>5, <1>6, <1>7, <1>8, <1>9, <1>10, <1>13
  <2> QED
    BY <1>f, <1>t, <1>7, <1>13, <2>1 DEF ApplyEntry, Content, k
<1> QED
  BY <1>t, <1>11, <1>12, <1>13

\* A reset entry that takes the place of the journal empties any older content
\* (resetJournalSnapshot).
LEMMA FoldReset ==
  ASSUME NEW c \in Content, NEW e \in Entry, e.kind = "reset", c.seq < e.seq
  PROVE  Fold(c, <<e>>) = Empty(e.seq)
<1> DEFINE none == <<>>
<1>1. none \in Seq(Entry) /\ Append(none, e) = <<e>>
  OBVIOUS
<1> HIDE DEF none
<1>2. Fold(c, Append(none, e)) = ApplyEntry(Fold(c, none), e)
  BY <1>1, FoldAppend
<1> QED
  BY <1>1, <1>2 DEF ApplyEntry

-----------------------------------------------------------------------------
(* The fold is the loop of the code.                                       *)

\* The first entries of a journal.
FirstOf(j, i) == SubSeq(j, 1, i)

\* One entry more is one round of the loop more.
LEMMA FoldRound ==
  ASSUME NEW c \in Content, NEW j \in Seq(Entry), Increasing(j)
  PROVE  /\ Fold(c, FirstOf(j, 0)) = c /\ FirstOf(j, Len(j)) = j
         /\ \A i \in 0..Len(j) : Fold(c, FirstOf(j, i)) \in Content
         /\ \A i \in 1..Len(j) :
              LET f == Fold(c, FirstOf(j, i - 1))
              IN  Fold(c, FirstOf(j, i)) = IF j[i].seq <= f.seq THEN f ELSE ApplyEntry(f, j[i])
<1>1. ASSUME NEW i \in 0..Len(j)
      PROVE  /\ FirstOf(j, i) \in Seq(Entry) /\ Len(FirstOf(j, i)) = i
             /\ \A k \in 1..i : FirstOf(j, i)[k] = j[k]
             /\ Increasing(FirstOf(j, i))
  <2>1. /\ FirstOf(j, i) \in Seq(Entry) /\ Len(FirstOf(j, i)) = i
        /\ \A k \in 1..i : FirstOf(j, i)[k] = j[k]
    BY DEF FirstOf
  <2>2. Increasing(FirstOf(j, i))
    BY <2>1 DEF Increasing
  <2> QED
    BY <2>1, <2>2
<1>2. \A i \in 0..Len(j) : Fold(c, FirstOf(j, i)) \in Content
  BY <1>1, FoldType
<1>3. Fold(c, FirstOf(j, 0)) = c
  <2>1. 0 \in 0..Len(j)
    OBVIOUS
  <2>2. \A k \in 1..Len(FirstOf(j, 0)) : FirstOf(j, 0)[k].seq <= c.seq
    BY <1>1, <2>1
  <2> QED
    BY <1>1, <2>1, <2>2, CoveredSeq
<1>4. FirstOf(j, Len(j)) = j
  BY DEF FirstOf
<1>5. ASSUME NEW i \in 1..Len(j)
      PROVE  LET f == Fold(c, FirstOf(j, i - 1))
             IN  Fold(c, FirstOf(j, i)) = IF j[i].seq <= f.seq THEN f ELSE ApplyEntry(f, j[i])
  <2> DEFINE a == FirstOf(j, i - 1)
             b == FirstOf(j, i)
             f == Fold(c, a)
  <2>1. i - 1 \in 0..Len(j) /\ i \in 0..Len(j) /\ i \in Nat /\ Len(j) \in Nat
    OBVIOUS
  <2>2. /\ a \in Seq(Entry) /\ Len(a) = i - 1 /\ Increasing(a) /\ \A k \in 1..(i - 1) : a[k] = j[k]
        /\ b \in Seq(Entry) /\ Len(b) = i /\ Increasing(b) /\ \A k \in 1..i : b[k] = j[k]
    BY <1>1, <2>1
  <2>3. b = Append(a, j[i])
    BY <2>1 DEF FirstOf
  <2>4. /\ j[i] \in Entry /\ j[i].seq \in Nat /\ c.seq \in Nat /\ f \in Content /\ f.seq \in Nat
        /\ \A k \in 1..i : j[k] \in Entry /\ j[k].seq \in Nat
    BY <1>2, <2>1, ContentNat
  <2>5. \A k \in 1..(i - 1) : j[k].seq < j[i].seq
    BY <2>1 DEF Increasing
  <2> HIDE DEF a, b, f
  <2>6. CASE c.seq < j[i].seq
    <3>1. Fold(c, b) = ApplyEntry(f, j[i])
      BY <2>2, <2>3, <2>4, <2>6, FoldAppend DEF f
    <3>2. f.seq < j[i].seq
      <4>1. f.seq = c.seq \/ (Len(a) \in 1..Len(a) /\ f.seq = a[Len(a)].seq)
        BY <2>2, FoldSeq DEF f
      <4>2. Len(a) \in 1..Len(a) => a[Len(a)].seq < j[i].seq
        BY <2>1, <2>2, <2>5
      <4> QED
        BY <2>6, <4>1, <4>2
    <3> QED
      BY <2>4, <3>1, <3>2 DEF a, b, f
  <2>7. CASE ~(c.seq < j[i].seq)
    <3>1. j[i].seq <= c.seq /\ \A k \in 1..i : j[k].seq <= c.seq
      <4>1. j[i].seq <= c.seq
        BY <2>4, <2>7
      <4>2. ASSUME NEW k \in 1..i PROVE j[k].seq <= c.seq
        <5>1. k = i \/ k \in 1..(i - 1)
          BY <2>1
        <5> QED
          BY <2>4, <2>5, <4>1, <5>1
      <4> QED
        BY <4>1, <4>2
    <3>2. f = c
      <4>1. \A k \in 1..Len(a) : a[k].seq <= c.seq
        BY <2>1, <2>2, <3>1
      <4> QED
        BY <2>2, <4>1, CoveredSeq DEF f
    <3>3. Fold(c, b) = c
      <4>1. \A k \in 1..Len(b) : b[k].seq <= c.seq
        BY <2>1, <2>2, <3>1
      <4> QED
        BY <2>2, <4>1, CoveredSeq
    <3> QED
      BY <3>1, <3>2, <3>3 DEF a, b, f
  <2> QED
    BY <2>6, <2>7
<1> QED
  BY <1>2, <1>3, <1>4, <1>5

\* The loop arrives at the fold of every journal whose numbers increase. Round by round
\* it has the fold of the entries so far: the first round at which it had not would follow
\* one at which it had, and FoldRound is about the step between them.
LEMMA FoldIsLoop ==
  ASSUME NEW c \in Content, NEW j \in Seq(Entry), Increasing(j)
  PROVE  FoldLoop(c, j) = Fold(c, j)
<1> DEFINE body(g) == [i \in 0..Len(j) |->
                        IF i = 0 THEN c
                        ELSE IF j[i].seq <= g[i - 1].seq THEN g[i - 1] ELSE ApplyEntry(g[i - 1], j[i])]
           folds == [i \in 0..Len(j) |-> Fold(c, FirstOf(j, i))]
           acc == Rounds(c, j)
<1>0. Len(j) \in Nat
  OBVIOUS
<1>1. folds = body(folds)
  <2>1. ASSUME NEW i \in 0..Len(j) PROVE folds[i] = body(folds)[i]
    <3>1. CASE i = 0
      BY <2>1, <3>1, FoldRound
    <3>2. CASE i # 0
      <4>1. i \in 1..Len(j) /\ i - 1 \in 0..Len(j)
        BY <1>0, <2>1, <3>2
      <4>2. folds[i] = Fold(c, FirstOf(j, i)) /\ folds[i - 1] = Fold(c, FirstOf(j, i - 1))
        BY <2>1, <4>1
      <4>3. folds[i] = IF j[i].seq <= folds[i - 1].seq THEN folds[i - 1]
                       ELSE ApplyEntry(folds[i - 1], j[i])
        BY <4>1, <4>2, FoldRound
      <4> HIDE DEF folds
      <4> QED
        BY <2>1, <3>2, <4>3
    <3> QED
      BY <3>1, <3>2
  <2>2. folds = [i \in 0..Len(j) |-> folds[i]]
    OBVIOUS
  <2>3. body(folds) = [i \in 0..Len(j) |-> body(folds)[i]]
    OBVIOUS
  <2> HIDE DEF folds, body
  <2> QED
    BY <2>1, <2>2, <2>3
<1>2. acc = CHOOSE g : g = body(g)
  BY DEF Rounds
<1> HIDE DEF folds, acc
<1>3. acc = body(acc)
  <2> HIDE DEF body
  <2> QED
    BY <1>1, <1>2
<1>4. acc[0] = c
  BY <1>0, <1>3
<1>5. ASSUME NEW i \in 1..Len(j)
      PROVE  acc[i] = IF j[i].seq <= acc[i - 1].seq THEN acc[i - 1] ELSE ApplyEntry(acc[i - 1], j[i])
  BY <1>0, <1>3
<1> HIDE DEF body
<1> DEFINE wrong == {i \in 0..Len(j) : acc[i] # Fold(c, FirstOf(j, i))}
<1>6. wrong \subseteq Nat
  BY <1>0
<1>7. ASSUME wrong # {} PROVE FALSE
  <2>1. PICK m \in wrong : \A k \in wrong : ~(<<k, m>> \in OpToRel(<, Nat))
    BY <1>6, <1>7, NatLessThanWellFounded, WFMin
  <2>2. \A k \in wrong : ~(k < m)
    BY <1>6, <2>1 DEF OpToRel
  <2>3. m \in 0..Len(j) /\ acc[m] # Fold(c, FirstOf(j, m))
    OBVIOUS
  <2>4. m \in 1..Len(j)
    BY <1>0, <1>4, <2>3, FoldRound
  <2>5. m - 1 \in 0..Len(j) /\ m - 1 < m
    BY <1>0, <2>4
  <2>6. acc[m - 1] = Fold(c, FirstOf(j, m - 1))
    BY <2>2, <2>5
  <2> HIDE DEF wrong
  <2>7. Fold(c, FirstOf(j, m)) =
          IF j[m].seq <= acc[m - 1].seq THEN acc[m - 1] ELSE ApplyEntry(acc[m - 1], j[m])
    BY <2>4, <2>6, FoldRound
  <2> QED
    BY <1>5, <2>3, <2>4, <2>7
<1>8. acc[Len(j)] = Fold(c, FirstOf(j, Len(j)))
  BY <1>0, <1>7
<1> QED
  BY <1>8, FoldRound DEF FoldLoop, acc

-----------------------------------------------------------------------------
(* Two copies of the content that agree.                                   *)

\* Content a, which the tracker serves, against content b, which a restart would
\* recover: a lacks at most reports the tracker rejected or expired, and has seen
\* no less evidence.
Agree(a, b) ==
  /\ a.seq = b.seq /\ a.ids \subseteq b.ids /\ b.ids \ a.ids \subseteq Late \cup Tombs
  /\ b.ev <= a.ev

\* A content agrees with itself.
LEMMA AgreeSame == ASSUME NEW a \in Content PROVE Agree(a, a)
BY BoundsAssumption DEF Agree, Content

\* The same entry applied to contents that agree (applyJournalEntry) leaves
\* contents that agree: what the tracker's newer evidence rejects is late.
LEMMA AgreeApply ==
  ASSUME NEW a \in Content, NEW b \in Content, NEW e \in Entry, Agree(a, b)
  PROVE  Agree(ApplyEntry(a, e), ApplyEntry(b, e))
<1>0. a.ev \in Nat /\ b.ev \in Nat
  BY BoundsAssumption DEF Content
<1>1. CASE e.kind = "reset"
  BY <1>1 DEF ApplyEntry, Empty, Agree
<1>2. CASE e.kind = "gc"
  BY <1>0, <1>2 DEF ApplyEntry, Agree, Content
<1>3. CASE e.kind = "observe"
  <2>1. {x \in e.ids : Accepts(a.ev, x)} \subseteq {x \in e.ids : Accepts(b.ev, x)}
    BY <1>0 DEF Accepts, Agree
  <2>2. \A x \in e.ids : ~Accepts(a.ev, x) => x \in Late
    BY DEF Accepts
  <2>3. /\ ApplyEntry(a, e) = [a EXCEPT !.seq = e.seq, !.ids = a.ids \cup {x \in e.ids : Accepts(a.ev, x)}]
        /\ ApplyEntry(b, e) = [b EXCEPT !.seq = e.seq, !.ids = b.ids \cup {x \in e.ids : Accepts(b.ev, x)}]
    BY <1>3 DEF ApplyEntry
  <2> QED
    BY <2>1, <2>2, <2>3 DEF Agree, Content
<1> QED
  BY <1>1, <1>2, <1>3 DEF Entry

\* Expiring tombstones (expireTombstonesLocked) does not end an agreement.
LEMMA AgreeExpire ==
  ASSUME NEW a \in Content, NEW b \in Content, Agree(a, b), NEW xs \in {{}, Tombs}
  PROVE  Agree([a EXCEPT !.ids = @ \ xs], b)
BY DEF Agree, Content

\* What the tracker consumes agrees with what a restart recovers when the snapshot
\* file is ahead of the memory, or when the memory itself agrees with the files
\* (journalBaseline).
LEMMA AgreeBaseline ==
  ASSUME NEW s \in Content, NEW m \in Content, NEW j \in Seq(Entry), Increasing(j),
         s.seq > m.seq \/ Agree(m, Fold(s, j))
  PROVE  Agree(Fold(IF s.seq > m.seq THEN s ELSE m, j), Fold(s, j))
<1>1. CASE s.seq > m.seq
  BY <1>1, FoldType, AgreeSame
<1>2. CASE ~(s.seq > m.seq)
  <2>1. \A i \in 1..Len(j) : j[i].seq <= m.seq
    BY <1>2, FoldSeq DEF Agree
  <2>2. Fold(m, j) = m
    BY <2>1, CoveredSeq
  <2> QED
    BY <1>2, <2>2
<1> QED
  BY <1>1, <1>2

-----------------------------------------------------------------------------
(* The invariant: who holds what on the way to the files.                  *)

\* The tracker's memory brought up to date agrees with the files, and so does
\* every content on its way into memory or into the snapshot; a writer's snapshot
\* is what it recovered with its command applied; a reset is published before the
\* empty snapshot is written.
Agreement ==
  /\ status # "down" => Agree(Consumed, Recovered)
  /\ pc[Tracker] = "append" => Agree(cand[Tracker], ApplyEntry(Recovered, entry[Tracker]))
  /\ pc[Tracker] = "reject_snap" => Agree(cand[Tracker], Recovered)
  /\ pc[Tracker] # "idle" /\ op # "reset" => entry[Tracker].kind # "reset"
  /\ \A w \in Writers :
       pc[w] = "snap" /\ entry[w].kind # "reset" => cand[w] = ApplyEntry(Recovered, entry[w])
  /\ \A p \in Procs :
       /\ pc[p] = "append" => entry[p].kind # "reset"
       /\ pc[p] = "reset" => cand[p] = Empty(entry[p].seq)
       /\ pc[p] = "snap" /\ entry[p].kind = "reset" => cand[p].ids = {} /\ Recovered.ids = {}

\* What each write makes of the files' content.
LEMMA ContentAfter ==
  ASSUME TypeOK, Mutex, Numbering, NEW p \in Procs
  PROVE  /\ Recovered \in Content /\ snap \in Content /\ cand[p] \in Content /\ entry[p] \in Entry
         /\ pc[p] = "append" =>
              Fold(snap, Append(journal, entry[p])) = ApplyEntry(Recovered, entry[p])
         /\ pc[p] \in {"snap", "reject_snap"} => Fold(cand[p], journal) = cand[p]
         /\ pc[p] \in {"trunc", "reject_trunc"} => Recovered = snap /\ Fold(snap, <<>>) = snap
         /\ pc[p] = "reset" => Fold(snap, <<entry[p]>>) = Empty(entry[p].seq)
<1>0. /\ Recovered \in Content /\ snap \in Content /\ cand[p] \in Content /\ entry[p] \in Entry
      /\ journal \in Seq(Entry) /\ Increasing(journal)
  BY RecoveredType DEF TypeOK, Numbering
<1>h. /\ snap.seq <= Recovered.seq /\ \A i \in 1..Len(journal) : journal[i].seq <= Recovered.seq
      /\ snap.seq \in Nat /\ Recovered.seq \in Nat /\ entry[p].seq \in Nat
  BY <1>0, RecoveredHighest, ContentNat DEF Highest
<1>1. ASSUME pc[p] = "append"
      PROVE  Fold(snap, Append(journal, entry[p])) = ApplyEntry(Recovered, entry[p])
  <2>1. snap.seq < entry[p].seq
    BY <1>1, <1>h DEF Numbering
  <2> QED
    BY <1>0, <2>1, FoldAppend DEF Recovered
<1>2. pc[p] \in {"snap", "reject_snap"} => Fold(cand[p], journal) = cand[p]
  BY FilesAfter
<1>3. ASSUME pc[p] \in {"trunc", "reject_trunc"} PROVE Recovered = snap /\ Fold(snap, <<>>) = snap
  <2>1. \A i \in 1..Len(journal) : journal[i].seq <= snap.seq
    BY <1>3, <1>h DEF Numbering
  <2>2. Fold(snap, journal) = snap
    BY <1>0, <2>1, CoveredSeq
  <2> QED
    BY <1>3, <2>2, FilesAfter DEF Recovered
<1>4. ASSUME pc[p] = "reset" PROVE Fold(snap, <<entry[p]>>) = Empty(entry[p].seq)
  <2>1. snap.seq < entry[p].seq
    BY <1>4, <1>h, <1>0, ContentNat DEF Numbering
  <2>2. entry[p].kind = "reset"
    BY <1>4 DEF Mutex
  <2> QED
    BY <1>0, <2>1, <2>2, FoldReset
<1> QED
  BY <1>0, <1>1, <1>2, <1>3, <1>4

\* What each write that the tracker has not yet taken into memory makes of the
\* content it will consume.
LEMMA ConsumedAfter ==
  ASSUME TypeOK, Mutex, Numbering, NEW p \in Procs, status # "down"
  PROVE  /\ Consumed \in Content
         /\ pc[p] = "append" =>
              Fold(Baseline, Append(journal, entry[p])) = ApplyEntry(Consumed, entry[p])
         /\ pc[p] = "reset" => Fold(Baseline, <<entry[p]>>) = Empty(entry[p].seq)
<1>0. /\ Baseline \in Content /\ Consumed \in Content /\ entry[p] \in Entry
      /\ Recovered \in Content /\ journal \in Seq(Entry) /\ Increasing(journal)
  BY RecoveredType DEF TypeOK, Numbering
<1>1. Baseline.seq <= Recovered.seq /\ Baseline.seq \in Nat /\ Recovered.seq \in Nat /\ entry[p].seq \in Nat
  BY <1>0, RecoveredHighest, ContentNat DEF Baseline, Numbering, Highest
<1>2. ASSUME pc[p] = "append"
      PROVE  Fold(Baseline, Append(journal, entry[p])) = ApplyEntry(Consumed, entry[p])
  <2>1. Baseline.seq < entry[p].seq
    BY <1>1, <1>2 DEF Numbering
  <2> QED
    BY <1>0, <2>1, FoldAppend DEF Consumed
<1>3. ASSUME pc[p] = "reset" PROVE Fold(Baseline, <<entry[p]>>) = Empty(entry[p].seq)
  <2>1. Baseline.seq < entry[p].seq
    BY <1>1, <1>3, <1>0, ContentNat DEF Numbering
  <2>2. entry[p].kind = "reset"
    BY <1>3 DEF Mutex
  <2> QED
    BY <1>0, <2>1, <2>2, FoldReset
<1> QED
  BY <1>0, <1>2, <1>3

\* A memory with the number of the files is what the tracker would consume, and
\* agrees with the files (journalBaseline, replayJournal).
LEMMA MemoryCurrent ==
  ASSUME TypeOK, Numbering, Agreement, status # "down", mem.seq = Recovered.seq
  PROVE  Agree(mem, Recovered)
<1>1. mem \in Content /\ snap \in Content
      /\ journal \in Seq(Entry) /\ Increasing(journal) /\ Recovered \in Content
  BY RecoveredType DEF Numbering, TypeOK
<1>2. Baseline = mem /\ \A i \in 1..Len(journal) : journal[i].seq <= mem.seq
  BY <1>1, RecoveredHighest, ContentNat DEF Baseline, Highest
<1>3. Consumed = mem
  BY <1>1, <1>2, CoveredSeq DEF Consumed
<1> QED
  BY <1>3 DEF Agreement

\* Inside an operation of its own, the tracker's memory agrees with the files.
LEMMA MemoryAgrees ==
  ASSUME TypeOK, Mutex, Numbering, Agreement, pc[Tracker] \in {"act", "append"}
  PROVE  Agree(mem, Recovered) /\ mem.seq = Recovered.seq /\ status # "down"
<1>1. status # "down" /\ mem.seq = Recovered.seq
  BY DEF Mutex, Numbering
<1> QED
  BY <1>1, MemoryCurrent

\* The snapshot a process has written, or is about to truncate the journal for, is
\* ahead of the tracker's memory or equal to it (persist, resetJournalSnapshot).
LEMMA TruncateAhead ==
  ASSUME TypeOK, Mutex, Numbering, NEW p \in Procs, pc[p] \in {"trunc", "reject_trunc"},
         status # "down"
  PROVE  snap.seq > mem.seq \/ snap = mem
<1>1. CASE p = Tracker
  BY <1>1 DEF Mutex, Numbering
<1>2. CASE p # Tracker
  <2>1. p \in Writers /\ owner = Tracker
    BY <1>2 DEF Procs, Mutex
  <2>2. entry[p].kind = "reset" /\ pc[p] = "trunc"
    BY <1>2, <2>1 DEF Mutex
  <2> QED
    BY <1>2, <2>2 DEF Numbering
<1> QED
  BY <1>1, <1>2

\* Agreement of the files and the memory a step leaves, from AgreeBaseline.
LEMMA AgreeAfter ==
  ASSUME TypeOK', Numbering', snap'.seq > mem'.seq \/ Agree(mem', Recovered')
  PROVE  Agree(Consumed', Recovered')
<1>1. snap' \in Content /\ mem' \in Content /\ journal' \in Seq(Entry) /\ Increasing(journal')
  BY DEF TypeOK, Numbering
<1>2. Recovered' = Fold(snap', journal')
      /\ Consumed' = Fold(IF snap'.seq > mem'.seq THEN snap' ELSE mem', journal')
  BY DEF Recovered, Consumed, Baseline
<1> QED
  BY <1>1, <1>2, AgreeBaseline

\* A step that leaves the files and the memory alone leaves the agreement.
LEMMA AgreeUnchanged ==
  ASSUME Agree(Consumed, Recovered), UNCHANGED <<snap, journal, mem>>
  PROVE  Agree(Consumed', Recovered')
BY DEF Recovered, Consumed, Baseline

\* A write that the tracker's memory has not followed: the tracker will consume
\* an appended entry as a restart would, a reset empties both, and a snapshot or
\* a truncation leaves a snapshot that is ahead of the memory or equal to it.
LEMMA AgreeFiles ==
  ASSUME TypeOK, Mutex, Numbering, Agreement, NEW p \in Procs, TypeOK', Numbering',
         status # "down", mem' = mem, FilesStep(p)
  PROVE  Agree(Consumed', Recovered')
<1>1. CASE pc[p] = "append" /\ journal' = Append(journal, entry[p]) /\ snap' = snap
  <2>1. Recovered' = ApplyEntry(Recovered, entry[p])
    BY <1>1, ContentAfter DEF Recovered
  <2>2. Consumed' = Fold(Baseline, Append(journal, entry[p]))
    BY <1>1 DEF Consumed, Baseline
  <2>3. Consumed' = ApplyEntry(Consumed, entry[p])
    BY <1>1, <2>2, ConsumedAfter
  <2>4. Agree(Consumed, Recovered) /\ Consumed \in Content /\ Recovered \in Content /\ entry[p] \in Entry
    BY ContentAfter, ConsumedAfter DEF Agreement
  <2> QED
    BY <2>1, <2>3, <2>4, AgreeApply
<1>2. CASE pc[p] \in {"snap", "reject_snap"} /\ snap' = cand[p] /\ journal' = journal
  <2>1. Recovered' = cand[p] /\ cand[p] \in Content
    BY <1>2, ContentAfter DEF Recovered
  <2>2. cand[p].seq > mem.seq \/ cand[p] = mem
    BY <1>2, CandidateAhead
  <2> QED
    BY <1>2, <2>1, <2>2, AgreeAfter, AgreeSame
<1>3. CASE pc[p] \in {"trunc", "reject_trunc"} /\ journal' = <<>> /\ snap' = snap
  <2>1. Recovered' = snap /\ snap \in Content
    BY <1>3, ContentAfter DEF Recovered
  <2>2. snap.seq > mem.seq \/ snap = mem
    BY <1>3, TruncateAhead
  <2> QED
    BY <1>3, <2>1, <2>2, AgreeAfter, AgreeSame
<1>4. CASE pc[p] = "reset" /\ journal' = <<entry[p]>> /\ snap' = snap
  <2>1. Recovered' = Empty(entry[p].seq)
    BY <1>4, ContentAfter DEF Recovered
  <2>2. Consumed' = Fold(Baseline, <<entry[p]>>)
    BY <1>4 DEF Consumed, Baseline
  <2>3. Consumed' = Empty(entry[p].seq)
    BY <1>4, <2>2, ConsumedAfter
  <2> QED
    BY <2>1, <2>3 DEF Agree, Empty
<1> QED
  BY <1>1, <1>2, <1>3, <1>4 DEF FilesStep

\* Between operations the agreement of memory and files is all there is to keep.
LEMMA AgreementIdle ==
  ASSUME ProcsAssumption, \A q \in Procs : pc'[q] = "idle",
         status' # "down" => Agree(Consumed', Recovered')
  PROVE  Agreement'
BY DEF Agreement, Procs

\* Every write, and every failed one, keeps Agreement.
LEMMA AgreementFileStep ==
  ASSUME TypeOK, Mutex, Numbering, Agreement, NEW p \in Procs, FileStep(p), TypeOK', Numbering'
  PROVE  Agreement'
<1>0. pc[p] # "idle"
  BY DEF FileStep, AppendJournal, AppendFails, WriteSnapshot, WriteSnapshotFails,
         TruncateJournal, TruncateFails, PublishReset, PublishResetFails
<1>1. \A q \in Procs : q # p => pc[q] = "idle"
  BY <1>0, OnlyHolder
<1>2. ASSUME Forget(p) PROVE \A q \in Procs : pc'[q] = "idle"
  BY <1>1, <1>2 DEF Forget, TypeOK
<1>3. ASSUME Fail(p), FilesStep(p) \/ UNCHANGED <<snap, journal>> PROVE Agreement'
  <2>1. \A q \in Procs : pc'[q] = "idle"
    BY <1>2, <1>3 DEF Fail
  <2>2. ASSUME status' # "down" PROVE status # "down" /\ mem' = mem
    BY <1>3, <2>2 DEF Fail, AfterFlush
  <2>3. ASSUME status' # "down" PROVE Agree(Consumed', Recovered')
    <3>1. CASE FilesStep(p)
      BY <2>2, <2>3, <3>1, AgreeFiles
    <3>2. CASE UNCHANGED <<snap, journal>>
      BY <2>2, <2>3, <3>2, AgreeUnchanged DEF Agreement
    <3> QED
      BY <1>3, <3>1, <3>2
  <2> QED
    BY <2>1, <2>3, AgreementIdle, ProcsAssumption
<1>4. CASE AppendFails(p)
  BY <1>3, <1>4 DEF AppendFails, FilesStep
<1>5. CASE WriteSnapshotFails(p)
  BY <1>3, <1>5 DEF WriteSnapshotFails, FilesStep
<1>6. CASE TruncateFails(p)
  BY <1>3, <1>6 DEF TruncateFails, FilesStep
<1>7. CASE PublishResetFails(p)
  BY <1>3, <1>7 DEF PublishResetFails, FilesStep
<1>8. CASE AppendJournal(p)
  <2>0. Forget(p) /\ FilesStep(p) /\ pc[p] = "append" /\ status' = status
    BY <1>8 DEF AppendJournal, Release, FilesStep
  <2>1. CASE p = Tracker
    <3>1. Recovered' = ApplyEntry(Recovered, entry[p]) /\ mem' = cand[p]
      BY <1>8, <2>1, ContentAfter DEF AppendJournal, Accept, Recovered
    <3>2. Agree(mem', Recovered')
      BY <2>0, <2>1, <3>1 DEF Agreement
    <3> QED
      BY <2>0, <3>2, <1>2, AgreeAfter, AgreementIdle, ProcsAssumption
  <2>2. CASE p # Tracker
    <3>1. mem' = mem
      BY <1>8, <2>2 DEF AppendJournal
    <3> QED
      BY <2>0, <3>1, <1>2, AgreeFiles, AgreementIdle, ProcsAssumption
  <2> QED
    BY <2>1, <2>2
<1>9. CASE TruncateJournal(p)
  <2>0. Forget(p) /\ FilesStep(p) /\ pc[p] = "trunc" /\ snap' = snap /\ journal' = <<>>
    BY <1>9 DEF TruncateJournal, Release, FilesStep
  <2>1. CASE p = Tracker /\ op # "persist"
    <3>1. mem' = cand[p] /\ cand[p] = snap /\ snap \in Content
      BY <1>9, <2>0, <2>1 DEF TruncateJournal, Accept, Numbering, TypeOK
    <3>2. Recovered' = snap
      BY <2>0, ContentAfter DEF Recovered
    <3>3. Agree(mem', Recovered')
      BY <3>1, <3>2, AgreeSame
    <3> QED
      BY <2>0, <3>3, <1>2, AgreeAfter, AgreementIdle, ProcsAssumption
  <2>2. CASE ~(p = Tracker /\ op # "persist")
    <3>1. mem' = mem
      BY <1>9, <2>2 DEF TruncateJournal, tracker
    <3>2. status' # "down" => status # "down"
      BY <1>9, <2>2 DEF TruncateJournal, tracker, AfterFlush
    <3> QED
      BY <2>0, <3>1, <3>2, <1>2, AgreeFiles, AgreementIdle, ProcsAssumption
  <2> QED
    BY <2>1, <2>2
<1>10. CASE WriteSnapshot(p)
  <2>1. /\ FilesStep(p) /\ UNCHANGED <<mem, status, op, entry, cand>>
        /\ \A q \in Procs : q # p => pc'[q] = "idle"
        /\ pc'[p] \in {"trunc", "reject_trunc"}
    BY <1>1, <1>10 DEF WriteSnapshot, FilesStep, tracker, TypeOK
  <2>2. status' # "down" => Agree(Consumed', Recovered')
    BY <2>1, AgreeFiles
  <2> QED
    BY <1>0, <1>1, <2>1, <2>2 DEF Agreement, Procs
<1>11. CASE PublishReset(p)
  <2>1. /\ FilesStep(p) /\ UNCHANGED <<mem, status, op, entry, cand>> /\ pc[p] = "reset"
        /\ \A q \in Procs : q # p => pc'[q] = "idle"
        /\ pc'[p] = "snap"
    BY <1>1, <1>11 DEF PublishReset, FilesStep, tracker, TypeOK
  <2>2. status' # "down" => Agree(Consumed', Recovered')
    BY <2>1, AgreeFiles
  <2>3. Recovered' = Empty(entry[p].seq)
    BY <1>11, ContentAfter DEF PublishReset, Recovered
  <2>4. cand[p] = Empty(entry[p].seq) /\ entry[p].kind = "reset"
    BY <2>1 DEF Agreement, Mutex
  <2>5. cand'[p].ids = {} /\ Recovered'.ids = {}
    BY <2>1, <2>3, <2>4 DEF Empty
  <2> QED
    BY <1>0, <1>1, <2>1, <2>2, <2>4, <2>5 DEF Agreement, Procs
<1> QED
  BY <1>4, <1>5, <1>6, <1>7, <1>8, <1>9, <1>10, <1>11 DEF FileStep

\* A writer's command or reset leaves files and memory alone, and what it will
\* write is what it recovered with the command applied (transactLocked, Reset).
LEMMA AgreementWriterStep ==
  ASSUME TypeOK, Mutex, Agreement, NEW w \in Writers, WriterStep(w)
  PROVE  Agreement'
<1>0. w \in Procs /\ w # Tracker /\ Tracker \in Procs
  BY ProcsAssumption DEF Procs
<1>1. /\ UNCHANGED <<snap, journal, mem, status, op>>
      /\ \A q \in Procs : q # w => pc[q] = "idle" /\ pc'[q] = "idle"
  <2>1. UNCHANGED <<snap, journal, mem, status, op>>
    BY DEF WriterStep, WriterCommand, WriterReset, WriterCrash, files, tracker
  <2>2. pc[w] # "idle" \/ lock = None
    BY DEF WriterStep, WriterCommand, WriterReset, WriterCrash
  <2>3. \A q \in Procs : q # w => pc'[q] = pc[q]
    BY <1>0 DEF WriterStep, WriterCommand, WriterReset, WriterCrash, Release, Forget, TypeOK
  <2> QED
    BY <1>0, <2>1, <2>2, <2>3, OnlyHolder
<1>2. Recovered' = Recovered /\ (status' # "down" => Agree(Consumed', Recovered'))
  BY <1>1, SameFiles, AgreeUnchanged DEF Agreement
<1>3. ASSUME NEW kind \in {"observe", "gc"}, NEW ids, WriterCommand(w, kind, ids)
      PROVE  Agreement'
  <2> DEFINE e == [seq |-> Recovered.seq + 1, kind |-> kind, ids |-> ids]
  <2>1. /\ entry'[w] = e
        /\ pc'[w] = "append" \/ (pc'[w] = "snap" /\ cand'[w] = ApplyEntry(Recovered, e))
    BY <1>0, <1>3 DEF WriterCommand, TypeOK
  <2>2. e.kind # "reset"
    OBVIOUS
  <2> HIDE DEF e
  <2> QED
    BY <1>0, <1>1, <1>2, <2>1, <2>2 DEF Agreement, Procs
<1>4. CASE WriterReset(w)
  <2> DEFINE q == ResetPosition(0) + 1
  <2>1. /\ entry'[w] = [seq |-> q, kind |-> "reset", ids |-> {}] /\ cand'[w] = Empty(q)
        /\ pc'[w] = "reset"
    BY <1>0, <1>4 DEF WriterReset, TypeOK
  <2> HIDE DEF q
  <2>2. cand'[w] = Empty(entry'[w].seq)
    BY <2>1
  <2> QED
    BY <1>0, <1>1, <1>2, <2>1, <2>2 DEF Agreement, Procs
<1>5. CASE WriterCrash(w)
  <2>1. pc'[w] = "idle"
    BY <1>0, <1>5 DEF WriterCrash, Release, Forget, TypeOK
  <2> QED
    BY <1>1, <1>2, <2>1, AgreementIdle, ProcsAssumption
<1> QED
  BY <1>3, <1>4, <1>5 DEF WriterStep

\* Each operation of the tracker keeps Agreement: the memory it works on agrees
\* with the files since drainLocked, and refreshing evidence, expiring tombstones
\* and reducing a command keep them in agreement (commandLocked, persist).
LEMMA AgreementTrackerStep ==
  ASSUME TypeOK, Mutex, Numbering, Carried, Agreement, TrackerStep, TypeOK', Mutex', Numbering'
  PROVE  Agreement'
<1>0. /\ Tracker \in Procs /\ Tracker \notin Writers
      /\ mem \in Content /\ Recovered \in Content /\ Consumed \in Content /\ entry[Tracker] \in Entry
  BY ProcsAssumption, RecoveredType DEF Procs, TypeOK
<1>w. \A w \in Writers : w \in Procs /\ w # Tracker
  BY <1>0 DEF Procs
<1>f. ASSUME Forget(Tracker)
      PROVE  pc'[Tracker] = "idle" /\ \A w \in Writers : UNCHANGED <<pc[w], entry[w], cand[w]>>
  BY <1>0, <1>w, <1>f DEF Forget, TypeOK
<1>1. ASSUME pc'[Tracker] = "idle", status' # "down" => Agree(Consumed', Recovered'),
             \A w \in Writers : UNCHANGED <<pc[w], entry[w], cand[w]>>, Recovered' = Recovered
      PROVE  Agreement'
  BY <1>0, <1>1 DEF Agreement, Procs
<1>2. CASE TruncateRejected
  <2>1. /\ mem' = cand[Tracker] /\ journal' = <<>> /\ snap' = snap /\ pc[Tracker] = "reject_trunc"
        /\ pc'[Tracker] = "act" /\ UNCHANGED <<status, op, entry, cand>>
        /\ \A w \in Writers : pc'[w] = pc[w]
    BY <1>0, <1>2 DEF TruncateRejected, Accept, TypeOK
  <2>2. snap = cand[Tracker] /\ Recovered' = snap /\ snap \in Content
    BY <1>0, <2>1, ContentAfter DEF Numbering, Recovered
  <2>3. Agree(Consumed', Recovered')
    BY <2>1, <2>2, AgreeSame, AgreeAfter
  <2>4. \A w \in Writers : pc[w] = "idle"
    BY <1>0, <2>1, OnlyHolder DEF Procs
  <2> QED
    BY <1>0, <2>1, <2>3, <2>4 DEF Agreement, Procs
<1>3. ASSUME NEW o, o # "reset", NEW ids, TrackerBegin(o, ids) PROVE Agreement'
  <2>1. /\ UNCHANGED <<snap, journal, status>> /\ status # "down"
        /\ entry'[Tracker].kind = entry[Tracker].kind /\ pc[Tracker] = "idle"
        /\ \A w \in Writers : pc[w] = "idle" /\ pc'[w] = "idle"
    BY <1>0, <1>3, OnlyHolder DEF TrackerBegin, files, TypeOK, Entry, Procs
  <2>2. entry'[Tracker].kind # "reset"
    BY <1>0, <2>1 DEF Carried, NoEntry
  <2>3. Recovered' = Recovered /\ Agree(Consumed, Recovered)
    BY <2>1, SameFiles DEF Agreement
  <2>4. CASE NeedsCheckpoint
    <3>1. mem' = mem /\ cand'[Tracker] = Consumed /\ pc'[Tracker] = "reject_snap"
      BY <1>0, <1>3, <2>4 DEF TrackerBegin, TypeOK
    <3>2. Agree(Consumed', Recovered')
      BY <2>1, <2>3, <3>1, AgreeUnchanged
    <3> QED
      BY <1>0, <2>1, <2>2, <2>3, <3>1, <3>2 DEF Agreement, Procs
  <2>5. CASE ~NeedsCheckpoint
    <3>1. mem' \in {mem, Consumed} /\ pc'[Tracker] = "act"
      BY <1>0, <1>3, <2>5 DEF TrackerBegin, TypeOK, Accept
    <3>2. Agree(Consumed', Recovered')
      <4>1. CASE mem' = mem
        BY <2>1, <2>3, <4>1, AgreeUnchanged
      <4>2. CASE mem' = Consumed
        BY <2>3, <4>2, AgreeAfter
      <4> QED
        BY <3>1, <4>1, <4>2
    <3> QED
      BY <1>0, <2>1, <2>2, <2>3, <3>1, <3>2 DEF Agreement, Procs
  <2> QED
    BY <2>4, <2>5
<1>4. CASE TrackerDrain \/ TrackerClose
  <2>1. /\ UNCHANGED <<snap, journal, mem>> /\ pc'[Tracker] = "idle" /\ status # "down"
        /\ \A w \in Writers : UNCHANGED <<pc[w], entry[w], cand[w]>>
    <3>1. CASE TrackerDrain
      BY <1>f, <3>1 DEF TrackerDrain, files, Release, Mutex
    <3>2. CASE TrackerClose
      BY <3>2 DEF TrackerClose, files, local
    <3> QED
      BY <1>4, <3>1, <3>2
  <2>2. Agree(Consumed', Recovered')
    BY <2>1, AgreeUnchanged DEF Agreement
  <2> QED
    BY <1>1, <2>1, <2>2, SameFiles
<1>5. CASE TrackerReleaseOwner \/ TrackerCrash
  <2>1. /\ UNCHANGED <<snap, journal>> /\ pc'[Tracker] = "idle" /\ status' = "down"
        /\ \A w \in Writers : UNCHANGED <<pc[w], entry[w], cand[w]>>
    BY <1>f, <1>5 DEF TrackerReleaseOwner, TrackerCrash, files, local
  <2> QED
    BY <1>1, <2>1, SameFiles
<1>6. ASSUME NEW expired \in {{}, Tombs}, TrackerOpen(expired) PROVE Agreement'
  <2>1. /\ UNCHANGED <<snap, journal>> /\ pc'[Tracker] = "idle"
        /\ mem' = [Recovered EXCEPT !.ids = @ \ expired]
        /\ \A w \in Writers : UNCHANGED <<pc[w], entry[w], cand[w]>>
    BY <1>0, <1>6 DEF TrackerOpen, files, local, Mutex
  <2>2. Recovered' = Recovered
    BY <2>1, SameFiles
  <2>3. Agree(mem', Recovered')
    BY <1>0, <2>1, <2>2, AgreeSame, AgreeExpire
  <2> QED
    BY <1>1, <2>1, <2>2, <2>3, AgreeAfter
<1>7. ASSUME NEW expired \in {{}, Tombs}, TrackerRefresh(expired) PROVE Agreement'
  <2>1. /\ UNCHANGED <<snap, journal>> /\ pc'[Tracker] = "idle" /\ pc[Tracker] = "act"
        /\ mem' = [mem EXCEPT !.ev = @ + 1, !.ids = @ \ expired]
        /\ \A w \in Writers : UNCHANGED <<pc[w], entry[w], cand[w]>>
    BY <1>0, <1>7 DEF TrackerRefresh, files, Release, Forget, Accept, TypeOK
  <2>2. Recovered' = Recovered /\ Agree(mem, Recovered)
    BY <2>1, SameFiles, MemoryAgrees
  <2>3. mem.ev \in Nat /\ Recovered.ev \in Nat
    BY <1>0, BoundsAssumption DEF Content
  <2>4. mem'.seq = mem.seq /\ mem'.ids = mem.ids \ expired /\ mem'.ev = mem.ev + 1
    BY <1>0, <2>1 DEF Content
  <2>5. Agree(mem', Recovered')
    BY <2>2, <2>3, <2>4 DEF Agree
  <2> QED
    BY <1>1, <2>1, <2>2, <2>5, AgreeAfter
<1>8. ASSUME NEW expired \in {{}, Tombs}, TrackerCommand(expired) PROVE Agreement'
  <2> DEFINE e == [seq |-> mem.seq + 1, kind |-> op, ids |-> entry[Tracker].ids]
  <2>1. /\ UNCHANGED <<snap, journal, mem, status>> /\ pc'[Tracker] = "append" /\ pc[Tracker] = "act"
        /\ entry'[Tracker] = e /\ op \in {"observe", "gc"}
        /\ cand'[Tracker] = [ApplyEntry(mem, e) EXCEPT !.ids = @ \ expired]
        /\ \A w \in Writers : pc'[w] = pc[w]
    BY <1>0, <1>8 DEF TrackerCommand, files, tracker, TypeOK
  <2>2. e \in Entry /\ e.kind # "reset"
    BY <1>0, <2>1 DEF TypeOK
  <2> HIDE DEF e
  <2>3. Recovered' = Recovered /\ Agree(mem, Recovered) /\ status # "down"
    BY <2>1, SameFiles, MemoryAgrees
  <2>4. Agree(Consumed', Recovered')
    BY <2>1, <2>3, AgreeUnchanged DEF Agreement
  <2>5. Agree(ApplyEntry(mem, e), ApplyEntry(Recovered, e))
    BY <1>0, <2>2, <2>3, AgreeApply
  <2>6. Agree(cand'[Tracker], ApplyEntry(Recovered', entry'[Tracker]))
    <3>1. ApplyEntry(mem, e) \in Content /\ ApplyEntry(Recovered, e) \in Content
      BY <1>0, <2>2, ApplyEntryType
    <3>2. Agree([ApplyEntry(mem, e) EXCEPT !.ids = @ \ expired], ApplyEntry(Recovered, e))
      BY <2>5, <3>1, AgreeExpire
    <3> QED
      BY <2>1, <2>3, <3>2
  <2>7. \A w \in Writers : pc[w] = "idle"
    BY <1>0, <2>1, OnlyHolder DEF Procs
  <2> QED
    BY <1>0, <2>1, <2>2, <2>4, <2>6, <2>7 DEF Agreement, Procs
<1>9. ASSUME NEW expired \in {{}, Tombs}, NEW elapsed, TrackerPersist(expired, elapsed) PROVE Agreement'
  <2>1. /\ UNCHANGED <<snap, journal>> /\ pc[Tracker] = "act" /\ op = "persist"
        /\ mem' = [mem EXCEPT !.ids = @ \ expired]
        /\ pc'[Tracker] = "idle" \/ (pc'[Tracker] = "snap" /\ UNCHANGED <<entry, op>>)
        /\ \A w \in Writers : UNCHANGED <<pc[w], entry[w], cand[w]>>
    <3>1. /\ UNCHANGED <<snap, journal>> /\ pc[Tracker] = "act" /\ op = "persist"
          /\ mem' = [mem EXCEPT !.ids = @ \ expired]
      BY <1>9 DEF TrackerPersist, files
    <3>2. CASE Forget(Tracker)
      BY <1>f, <3>1, <3>2
    <3>3. CASE ~Forget(Tracker)
      <4>1. /\ pc' = [pc EXCEPT ![Tracker] = "snap"] /\ UNCHANGED <<entry, op>>
            /\ \E c : cand' = [cand EXCEPT ![Tracker] = c]
        BY <1>9, <3>3 DEF TrackerPersist, Release
      <4> QED
        BY <1>0, <1>w, <3>1, <4>1 DEF TypeOK
    <3> QED
      BY <3>2, <3>3
  <2>2. Recovered' = Recovered /\ Agree(mem, Recovered)
    BY <2>1, SameFiles, MemoryAgrees
  <2>3. Agree(mem', Recovered')
    BY <1>0, <2>1, <2>2, AgreeExpire
  <2>4. Agree(Consumed', Recovered')
    BY <2>3, AgreeAfter
  <2>5. CASE pc'[Tracker] = "idle"
    BY <1>1, <2>1, <2>2, <2>4, <2>5
  <2>6. CASE pc'[Tracker] = "snap" /\ UNCHANGED <<entry, op>>
    <3>1. \A w \in Writers : pc[w] = "idle"
      BY <1>0, <2>1, OnlyHolder DEF Procs
    <3>2. entry'[Tracker].kind # "reset"
      BY <2>1, <2>6 DEF Agreement
    <3> QED
      BY <1>0, <2>1, <2>4, <2>6, <3>1, <3>2 DEF Agreement, Procs
  <2> QED
    BY <2>1, <2>5, <2>6
<1>10. CASE TrackerReset
  <2> DEFINE q == ResetPosition(mem.seq) + 1
  <2>1. /\ UNCHANGED <<snap, journal, mem, status>> /\ pc'[Tracker] = "reset" /\ op' = "reset"
        /\ entry'[Tracker] = [seq |-> q, kind |-> "reset", ids |-> {}] /\ cand'[Tracker] = Empty(q)
        /\ \A w \in Writers : pc[w] = "idle" /\ pc'[w] = "idle"
    BY <1>0, <1>10, OnlyHolder DEF TrackerReset, files, TypeOK, Procs
  <2> HIDE DEF q
  <2>2. status' # "down" => Agree(Consumed', Recovered')
    BY <2>1, AgreeUnchanged DEF Agreement
  <2>3. cand'[Tracker] = Empty(entry'[Tracker].seq)
    BY <2>1
  <2> QED
    BY <1>0, <2>1, <2>2, <2>3 DEF Agreement, Procs
<1> QED
  BY <1>2, <1>3, <1>4, <1>5, <1>6, <1>7, <1>8, <1>9, <1>10 DEF TrackerStep

\* Every step of the specification keeps Agreement.
LEMMA AgreementStep == ASSUME Inv, Agreement, [Next]_vars PROVE Agreement'
<1>0. Inv' /\ TypeOK /\ Mutex /\ Numbering /\ Carried
  BY InvStep DEF Inv
<1>1. TypeOK' /\ Mutex' /\ Numbering'
  BY <1>0 DEF Inv
<1>2. CASE Next
  BY <1>0, <1>1, <1>2, AgreementFileStep, AgreementWriterStep, AgreementTrackerStep DEF Next
<1>3. CASE UNCHANGED vars
  <2>1. UNCHANGED <<snap, journal, mem, status, op, pc, entry, cand>>
    BY <1>3 DEF vars, files, tracker, local
  <2> QED
    BY <2>1, SameFiles, AgreeUnchanged DEF Agreement
<1> QED
  BY <1>2, <1>3

-----------------------------------------------------------------------------
(* What a step can do to the reports in the files.                         *)

\* The files lose at most collectable and rejected reports.
Keeps ==
  /\ Recovered'.ids \subseteq Recovered.ids
  /\ Recovered.ids \ Recovered'.ids \subseteq Late \cup Tombs
  /\ cleared' = cleared

\* The files gain reports that p had in hand, and p has them no longer.
Gains(p) ==
  /\ pc[p] \in {"append", "snap"} /\ pc'[p] \in {"idle", "trunc"}
  /\ Recovered.ids \subseteq Recovered'.ids
  /\ Recovered'.ids \ Recovered.ids \subseteq entry[p].ids
  /\ cleared' = cleared

\* A reset empties the files.
Empties == Recovered'.ids = {} /\ cleared' = cleared \cup Recovered.ids

\* Applying an entry other than a reset only adds the entry's reports, or only
\* removes tombstones (applyJournalEntry).
LEMMA ApplyChange ==
  ASSUME NEW c \in Content, NEW e \in Entry, e.kind # "reset"
  PROVE  \/ /\ c.ids \subseteq ApplyEntry(c, e).ids
            /\ ApplyEntry(c, e).ids \ c.ids \subseteq e.ids
         \/ /\ ApplyEntry(c, e).ids \subseteq c.ids
            /\ c.ids \ ApplyEntry(c, e).ids \subseteq Late \cup Tombs
<1>1. CASE e.kind = "gc"
  BY <1>1 DEF ApplyEntry, Content
<1>2. CASE e.kind = "observe"
  BY <1>2 DEF ApplyEntry, Content
<1> QED
  BY <1>1, <1>2 DEF Entry

\* The snapshot about to be written, against the content it replaces: what its
\* writer's command adds or removes, or what the tracker rejected or expired.
LEMMA CandidateChange ==
  ASSUME TypeOK, Mutex, Numbering, Agreement, NEW p \in Procs, pc[p] \in {"snap", "reject_snap"}
  PROVE  \/ /\ cand[p].ids \subseteq Recovered.ids
            /\ Recovered.ids \ cand[p].ids \subseteq Late \cup Tombs
         \/ /\ pc[p] = "snap" /\ Recovered.ids \subseteq cand[p].ids
            /\ cand[p].ids \ Recovered.ids \subseteq entry[p].ids
<1>0. Recovered \in Content /\ entry[p] \in Entry /\ mem \in Content
  BY ContentAfter DEF TypeOK
<1>1. CASE pc[p] = "snap" /\ entry[p].kind = "reset"
  BY <1>1 DEF Agreement
<1>2. CASE p = Tracker /\ pc[p] = "reject_snap"
  BY <1>2 DEF Agreement, Agree
<1>3. CASE p = Tracker /\ pc[p] = "snap" /\ entry[p].kind # "reset"
  <2>1. status # "down" /\ cand[p] = mem
    BY <1>3 DEF Mutex, Numbering
  <2>2. mem.seq >= Recovered.seq /\ mem.seq <= Recovered.seq
    BY <1>3, <2>1 DEF Numbering
  <2>3. mem.seq = Recovered.seq
    BY <1>0, <2>2, ContentNat
  <2> QED
    BY <2>1, <2>3, MemoryCurrent DEF Agree
<1>4. CASE p \in Writers /\ pc[p] = "snap" /\ entry[p].kind # "reset"
  <2>1. cand[p] = ApplyEntry(Recovered, entry[p])
    BY <1>4 DEF Agreement
  <2> QED
    BY <1>0, <1>4, <2>1, ApplyChange
<1> QED
  BY <1>1, <1>2, <1>3, <1>4 DEF Procs, Mutex

\* Every step keeps the files' reports, adds the ones a process had in hand, or is
\* the publication of a reset, which history variable cleared records.
LEMMA ContentStep ==
  ASSUME Inv, Agreement, [Next]_vars
  PROVE  Keeps \/ (\E p \in Procs : Gains(p)) \/ Empties
<1>0. TypeOK /\ Mutex /\ Numbering
  BY DEF Inv
<1>1. CASE UNCHANGED vars
  BY <1>1, SameFiles DEF vars, files, gone, Keeps
<1>2. ASSUME Next, UNCHANGED <<snap, journal>> PROVE Keeps
  <2>1. ~ResetPublished
    <3> SUFFICES ASSUME NEW q \in Procs, pc[q] = "reset", journal = <<entry[q]>> PROVE FALSE
      BY <1>2 DEF ResetPublished
    <3>1. Len(journal) = 1 /\ journal[1] = entry[q] /\ 1 \in 1..1
      OBVIOUS
    <3>2. journal[1].seq <= Recovered.seq
      BY <1>0, <3>1, RecoveredHighest DEF Numbering, Highest
    <3>3. entry[q].seq > Recovered.seq
      BY <1>0 DEF Numbering
    <3>4. entry[q].seq \in Nat /\ Recovered.seq \in Nat
      BY <1>0, ContentAfter, ContentNat
    <3> QED
      BY <3>1, <3>2, <3>3, <3>4
  <2> QED
    BY <1>2, <2>1, SameFiles DEF Next, Track, Keeps
<1>3. ASSUME Next, NEW p \in Procs, FilesStep(p),
             pc[p] \in {"append", "snap"} => pc'[p] \in {"idle", "trunc"}
      PROVE  Keeps \/ Gains(p) \/ Empties
  <2>0. /\ Recovered \in Content /\ entry[p] \in Entry
        /\ pc[p] # "idle" /\ \A q \in Procs : q # p => pc[q] = "idle"
    BY <1>0, <1>3, ContentAfter, OnlyHolder DEF FilesStep
  <2>1. pc[p] # "reset" => cleared' = cleared
    BY <1>3, <2>0 DEF Next, Track, ResetPublished
  <2>2. CASE pc[p] = "append" /\ journal' = Append(journal, entry[p]) /\ snap' = snap
    <3>1. Recovered' = ApplyEntry(Recovered, entry[p]) /\ entry[p].kind # "reset"
      BY <1>0, <2>2, ContentAfter DEF Recovered, Agreement
    <3> QED
      BY <1>3, <2>0, <2>1, <2>2, <3>1, ApplyChange DEF Keeps, Gains
  <2>3. CASE pc[p] \in {"snap", "reject_snap"} /\ snap' = cand[p] /\ journal' = journal
    <3>1. Recovered' = cand[p]
      BY <1>0, <2>3, ContentAfter DEF Recovered
    <3> QED
      BY <1>0, <1>3, <2>1, <2>3, <3>1, CandidateChange DEF Keeps, Gains
  <2>4. CASE pc[p] \in {"trunc", "reject_trunc"} /\ journal' = <<>> /\ snap' = snap
    <3>1. Recovered' = Recovered
      <4>1. Recovered' = Fold(snap, <<>>)
        BY <2>4 DEF Recovered
      <4> QED
        BY <1>0, <2>4, <4>1, ContentAfter
    <3> QED
      BY <2>1, <2>4, <3>1 DEF Keeps
  <2>5. CASE pc[p] = "reset" /\ journal' = <<entry[p]>> /\ snap' = snap
    <3>1. Recovered' = Empty(entry[p].seq)
      BY <1>0, <2>5, ContentAfter DEF Recovered
    <3>2. ResetPublished
      BY <2>5 DEF ResetPublished
    <3> QED
      BY <1>3, <3>1, <3>2 DEF Empties, Empty, Next, Track
  <2> QED
    BY <1>3, <2>2, <2>3, <2>4, <2>5 DEF FilesStep
<1>4. ASSUME Next, NEW p \in Procs, FileStep(p) PROVE Keeps \/ Gains(p) \/ Empties
  <2>1. UNCHANGED <<snap, journal>> \/ FilesStep(p)
    BY <1>4 DEF FileStep, FilesStep, AppendJournal, AppendFails, WriteSnapshot, WriteSnapshotFails,
                TruncateJournal, TruncateFails, PublishReset, PublishResetFails
  <2>2. pc[p] \in {"append", "snap"} => pc'[p] \in {"idle", "trunc"}
    BY <1>0, <1>4 DEF FileStep, AppendJournal, AppendFails, WriteSnapshot, WriteSnapshotFails,
       TruncateJournal, TruncateFails, PublishReset, PublishResetFails, Release, Fail, Forget, TypeOK
  <2> QED
    BY <1>2, <1>3, <1>4, <2>1, <2>2
<1>5. ASSUME Next, TruncateRejected PROVE Keeps \/ Gains(Tracker) \/ Empties
  <2>1. Tracker \in Procs /\ FilesStep(Tracker) /\ pc[Tracker] = "reject_trunc"
    BY <1>5 DEF TruncateRejected, FilesStep, Procs
  <2> QED
    BY <1>3, <1>5, <2>1
<1>6. ASSUME NEW w \in Writers, WriterStep(w) PROVE UNCHANGED <<snap, journal>>
  BY <1>6 DEF WriterStep, WriterCommand, WriterReset, WriterCrash, files
<1>7. ASSUME TrackerStep, ~TruncateRejected PROVE UNCHANGED <<snap, journal>>
  BY <1>7 DEF TrackerStep, TrackerBegin, TrackerDrain, TrackerReset, TrackerClose,
     TrackerReleaseOwner, TrackerCrash, TrackerOpen, TrackerRefresh, TrackerCommand, TrackerPersist, files
<1>8. Tracker \in Procs
  BY DEF Procs
<1>9. CASE Next
  BY <1>2, <1>4, <1>5, <1>6, <1>7, <1>8, <1>9 DEF Next
<1> QED
  BY <1>1, <1>9

-----------------------------------------------------------------------------
(* Reports enter the files once.                                           *)

\* Reports enter the files once: whatever the files hold or have held was
\* submitted, nothing that left them is in them, and a report on its way in has
\* not been there.
Fresh ==
  /\ Recovered.ids \cup removed \subseteq used /\ Recovered.ids \cap removed = {}
  /\ \A p \in Procs :
       /\ entry[p].ids \subseteq used
       /\ pc[p] \notin {"idle", "trunc"} => entry[p].ids \cap (Recovered.ids \cup removed) = {}

\* What a step does to the reports q has in hand: it leaves them there, or puts
\* newly submitted ones there, or none.
Carries(q) ==
  \/ /\ entry'[q].ids = entry[q].ids
     /\ pc'[q] \notin {"idle", "trunc"} => pc[q] \notin {"idle", "trunc"}
  \/ entry'[q].ids \subseteq used' \ used

\* Every process only ever has reports in hand that it was given, and writes them
\* to the files once (transactLocked, commandLocked).
LEMMA CarriesStep ==
  ASSUME TypeOK, Mutex, Carried, [Next]_vars, NEW q \in Procs
  PROVE  Carries(q)
<1>0. NoEntry.ids = {} /\ Tracker \in Procs /\ Tracker \notin Writers
  BY ProcsAssumption DEF NoEntry, Procs
<1>1. ASSUME NEW p \in Procs, Forget(p) PROVE Carries(q)
  BY <1>0, <1>1 DEF Forget, Carries, TypeOK
<1>2. CASE UNCHANGED vars
  BY <1>2 DEF vars, local, Carries
<1>3. ASSUME NEW p \in Procs, FileStep(p) PROVE Carries(q)
  <2>1. CASE WriteSnapshot(p) \/ PublishReset(p)
    BY <2>1 DEF WriteSnapshot, PublishReset, Carries, TypeOK
  <2> QED
    BY <1>1, <1>3, <2>1 DEF FileStep, AppendJournal, AppendFails, WriteSnapshotFails,
       TruncateJournal, TruncateFails, PublishResetFails, Release, Fail
<1>4. ASSUME NEW w \in Writers, NEW kind, NEW ids, ids \cap used = {}, WriterCommand(w, kind, ids)
      PROVE  Carries(q)
  <2>1. w \in Procs /\ used' = used \cup ids /\ pc[w] = "idle"
    BY <1>4 DEF WriterCommand, Procs
  <2>2. entry'[w].ids = ids /\ (q # w => entry'[q] = entry[q] /\ pc'[q] = pc[q])
    BY <1>4, <2>1 DEF WriterCommand, TypeOK
  <2> QED
    BY <1>4, <2>1, <2>2 DEF Carries
<1>5. ASSUME NEW w \in Writers, WriterReset(w) PROVE Carries(q)
  <2>1. w \in Procs
    BY DEF Procs
  <2> QED
    BY <1>5, <2>1 DEF WriterReset, Carries, TypeOK
<1>6. ASSUME NEW w \in Writers, WriterStep(w) PROVE Carries(q)
  <2>1. ASSUME NEW x \in Reports \ used, WriterCommand(w, "observe", {x}) PROVE Carries(q)
    <3>1. {x} \cap used = {}
      OBVIOUS
    <3> QED
      BY <1>4, <2>1, <3>1
  <2>2. CASE WriterCommand(w, "gc", {})
    <3>1. {} \cap used = {}
      OBVIOUS
    <3> QED
      BY <1>4, <2>2, <3>1
  <2>3. CASE WriterCrash(w)
    BY <1>1, <2>3 DEF WriterCrash, Release, Procs
  <2> QED
    BY <1>5, <1>6, <2>1, <2>2, <2>3 DEF WriterStep
<1>7. ASSUME NEW o, NEW ids, ids \cap used = {}, TrackerBegin(o, ids) PROVE Carries(q)
  <2>1. used' = used \cup ids /\ entry[Tracker] \in Entry
    BY <1>0, <1>7 DEF TrackerBegin, TypeOK
  <2>2. entry'[Tracker].ids = ids /\ (q # Tracker => entry'[q] = entry[q] /\ pc'[q] = pc[q])
    BY <1>0, <1>7, <2>1 DEF TrackerBegin, TypeOK, Entry
  <2> QED
    BY <1>7, <2>1, <2>2 DEF Carries
<1>8. CASE TruncateRejected
  BY <1>0, <1>8 DEF TruncateRejected, Carries, TypeOK
<1>9. CASE TrackerReset
  BY <1>0, <1>9 DEF TrackerReset, Carries, TypeOK
<1>10. CASE TrackerClose \/ TrackerReleaseOwner \/ \E expired \in {{}, Tombs} : TrackerOpen(expired)
  BY <1>10 DEF TrackerClose, TrackerReleaseOwner, TrackerOpen, local, Carries
<1>11. ASSUME NEW expired, TrackerCommand(expired) PROVE Carries(q)
  <2>1. /\ pc[Tracker] = "act" /\ entry'[Tracker].ids = entry[Tracker].ids
        /\ q # Tracker => entry'[q] = entry[q] /\ pc'[q] = pc[q]
    BY <1>0, <1>11 DEF TrackerCommand, TypeOK
  <2> QED
    BY <2>1 DEF Carries
<1>12. ASSUME NEW expired, NEW elapsed, TrackerPersist(expired, elapsed) PROVE Carries(q)
  <2>1. CASE ~Forget(Tracker)
    <3>1. pc[Tracker] = "act" /\ pc' = [pc EXCEPT ![Tracker] = "snap"] /\ UNCHANGED entry
      BY <1>12, <2>1 DEF TrackerPersist, Release
    <3> QED
      BY <1>0, <3>1 DEF TypeOK, Carries
  <2> QED
    BY <1>0, <1>1, <2>1
<1>13. CASE TrackerDrain \/ TrackerCrash \/ \E expired \in {{}, Tombs} : TrackerRefresh(expired)
  BY <1>0, <1>1, <1>13 DEF TrackerDrain, TrackerCrash, TrackerRefresh, Release
<1>14. CASE TrackerStep
  <2>1. ASSUME NEW x \in Reports \ used, TrackerBegin("observe", {x}) PROVE Carries(q)
    <3>1. {x} \cap used = {}
      OBVIOUS
    <3> QED
      BY <1>7, <2>1, <3>1
  <2>2. ASSUME NEW o, TrackerBegin(o, {}) PROVE Carries(q)
    <3>1. {} \cap used = {}
      OBVIOUS
    <3> QED
      BY <1>7, <2>2, <3>1
  <2> QED
    BY <1>8, <1>9, <1>10, <1>11, <1>12, <1>13, <1>14, <2>1, <2>2 DEF TrackerStep
<1> QED
  BY <1>2, <1>3, <1>6, <1>14 DEF Next

\* Reports once submitted stay submitted, and removed ones stay removed.
LEMMA HistoryGrows ==
  ASSUME [Next]_vars
  PROVE  used \subseteq used' /\ removed' = removed \cup (Recovered.ids \ Recovered'.ids)
<1>1. used \subseteq used'
  <2>1. ASSUME NEW p \in Procs, FileStep(p) PROVE used \subseteq used'
    BY <2>1 DEF FileStep, AppendJournal, AppendFails, WriteSnapshot, WriteSnapshotFails,
       TruncateJournal, TruncateFails, PublishReset, PublishResetFails, Fail, history
  <2>2. ASSUME NEW w \in Writers, WriterStep(w) PROVE used \subseteq used'
    BY <2>2 DEF WriterStep, WriterCommand, WriterReset, WriterCrash, history
  <2>3. CASE TrackerStep
    BY <2>3 DEF TrackerStep, TruncateRejected, TrackerBegin, TrackerDrain, TrackerReset, TrackerClose,
       TrackerReleaseOwner, TrackerCrash, TrackerOpen, TrackerRefresh, TrackerCommand, TrackerPersist, history
  <2>4. CASE UNCHANGED vars
    BY <2>4 DEF vars, history
  <2> QED
    BY <2>1, <2>2, <2>3, <2>4 DEF Next
<1>2. CASE Next
  BY <1>1, <1>2 DEF Next, Track
<1>3. CASE UNCHANGED vars
  BY <1>1, <1>3, SameFiles DEF vars, files, gone
<1> QED
  BY <1>2, <1>3

\* Every step keeps Fresh.
LEMMA FreshStep ==
  ASSUME Inv, Agreement, Fresh, [Next]_vars
  PROVE  Fresh'
<1>0. TypeOK /\ Mutex /\ Numbering /\ Carried
  BY DEF Inv
<1>1. used \subseteq used' /\ removed' = removed \cup (Recovered.ids \ Recovered'.ids)
  BY HistoryGrows
<1>2. \A q \in Procs : Carries(q)
  BY <1>0, CarriesStep
<1>3. \A q \in Procs : entry'[q].ids \subseteq used'
  BY <1>1, <1>2 DEF Carries, Fresh
<1>4. CASE Recovered'.ids \subseteq Recovered.ids
  <2>1. Recovered'.ids \cup removed' = Recovered.ids \cup removed /\ Recovered'.ids \cap removed' = {}
    BY <1>1, <1>4 DEF Fresh
  <2>2. ASSUME NEW q \in Procs, pc'[q] \notin {"idle", "trunc"}
        PROVE  entry'[q].ids \cap (Recovered'.ids \cup removed') = {}
    BY <1>2, <2>1, <2>2 DEF Carries, Fresh
  <2> QED
    BY <1>1, <1>3, <2>1, <2>2 DEF Fresh
<1>5. ASSUME NEW p \in Procs, Gains(p) PROVE Fresh'
  <2>1. /\ removed' = removed /\ Recovered'.ids \subseteq Recovered.ids \cup entry[p].ids
        /\ entry[p].ids \cap (Recovered.ids \cup removed) = {} /\ entry[p].ids \subseteq used
    BY <1>1, <1>5 DEF Gains, Fresh
  <2>2. \A q \in Procs : q # p => pc[q] = "idle"
    BY <1>0, <1>5, OnlyHolder DEF Gains
  <2>3. ASSUME NEW q \in Procs, pc'[q] \notin {"idle", "trunc"}
        PROVE  entry'[q].ids \cap (Recovered'.ids \cup removed') = {}
    <3>1. q # p
      BY <1>5, <2>3 DEF Gains
    <3>2. entry'[q].ids \subseteq used' \ used
      BY <1>2, <2>2, <2>3, <3>1 DEF Carries
    <3> QED
      BY <2>1, <3>2 DEF Fresh
  <2>4. Recovered'.ids \cup removed' \subseteq used' /\ Recovered'.ids \cap removed' = {}
    BY <1>1, <2>1 DEF Fresh
  <2> QED
    BY <1>3, <2>3, <2>4 DEF Fresh
<1> QED
  BY <1>4, <1>5, ContentStep DEF Keeps, Empties

-----------------------------------------------------------------------------
(* An acknowledged report is in the files.                                 *)

\* The reports acknowledged by a step are in the files after it.
LEMMA AckedStep ==
  ASSUME TypeOK, Mutex, Numbering, Carried, [Next]_vars
  PROVE  acked' \subseteq acked \cup Recovered'.ids \cup Late
<1>1. ASSUME NEW p \in Procs, FileStep(p) PROVE acked' \subseteq acked \cup Recovered'.ids \cup Late
  <2>1. CASE AppendJournal(p)
    <3>1. /\ pc[p] = "append" /\ journal' = Append(journal, entry[p]) /\ snap' = snap
          /\ acked' = acked \cup entry[p].ids
      BY <2>1 DEF AppendJournal
    <3>2. Recovered' = ApplyEntry(Recovered, entry[p]) /\ Recovered \in Content /\ entry[p] \in Entry
      BY <3>1, ContentAfter DEF Recovered
    <3>3. entry[p].ids \ Late \subseteq Recovered'.ids
      BY <3>2, ApplyAdds DEF Carried
    <3> QED
      BY <3>1, <3>3
  <2>2. CASE TruncateJournal(p)
    <3>1. CASE p = Tracker
      BY <2>2, <3>1 DEF TruncateJournal
    <3>2. CASE p # Tracker
      <4>1. /\ pc[p] = "trunc" /\ journal' = <<>> /\ snap' = snap
            /\ acked' = acked \cup entry[p].ids /\ p \in Writers
        BY <2>2, <3>2 DEF TruncateJournal, Procs
      <4>2. entry[p].ids \ Late \subseteq snap.ids
        BY <4>1 DEF Carried, Numbering
      <4>3. Recovered' = snap
        BY <4>1, FilesAfter DEF Recovered
      <4> QED
        BY <4>1, <4>2, <4>3
    <3> QED
      BY <3>1, <3>2
  <2>3. CASE acked' = acked
    BY <2>3
  <2> QED
    BY <1>1, <2>1, <2>2, <2>3 DEF FileStep, AppendFails, WriteSnapshot, WriteSnapshotFails,
       TruncateFails, PublishReset, PublishResetFails, Fail, history
<1>2. ASSUME NEW w \in Writers, WriterStep(w) PROVE acked' = acked
  BY <1>2 DEF WriterStep, WriterCommand, WriterReset, WriterCrash, history
<1>3. CASE TrackerStep
  BY <1>3 DEF TrackerStep, TruncateRejected, TrackerBegin, TrackerDrain, TrackerReset, TrackerClose,
     TrackerReleaseOwner, TrackerCrash, TrackerOpen, TrackerRefresh, TrackerCommand, TrackerPersist, history
<1>4. CASE UNCHANGED vars
  BY <1>4 DEF vars, history
<1> QED
  BY <1>1, <1>2, <1>3, <1>4 DEF Next

\* Every step keeps Durable: only a reset takes other than collectable and late
\* reports out of the files.
LEMMA DurableStep ==
  ASSUME Inv, Agreement, Durable, [Next]_vars
  PROVE  Durable'
<1>1. acked' \subseteq acked \cup Recovered'.ids \cup Late
  BY AckedStep DEF Inv
<1>2. (Recovered.ids \cup cleared) \ (Late \cup Tombs) \subseteq Recovered'.ids \cup cleared'
  BY ContentStep DEF Keeps, Gains, Empties
<1> QED
  BY <1>1, <1>2 DEF Durable

-----------------------------------------------------------------------------
(* What the tracker refused stays out of the files.                        *)

\* A content is placed: its reports were submitted and not refused, and where the journal
\* holds one of them, the content is not behind that entry.
Placed(c, j, u, r) ==
  /\ c.ids \subseteq u /\ c.ids \cap r = {}
  /\ \A i \in 1..Len(j) : c.ids \cap j[i].ids # {} => j[i].seq <= c.seq

\* A journal holds every report once.
Once(j, u) ==
  \A i \in 1..Len(j) :
    /\ j[i].ids \subseteq u
    /\ \A k \in 1..Len(j) : i # k => j[i].ids \cap j[k].ids = {}

\* Entries with refused reports are not ahead of number q.
Replaced(j, r, q) == \A i \in 1..Len(j) : j[i].ids \cap r # {} => j[i].seq <= q

\* A process is about to write its content, to the snapshot or behind an entry to memory.
Holds(p) == pc[p] \in {"snap", "reject_snap"} \/ (p = Tracker /\ pc[p] = "append")

\* The reports that p has in hand are in no entry and were not refused; before it writes
\* them no content but its own has them.
Apart(p) ==
  /\ entry[p].ids \subseteq used /\ entry[p].ids \cap refused = {}
  /\ \A i \in 1..Len(journal) : journal[i].ids \cap entry[p].ids = {}
  /\ pc[p] \in {"act", "append", "reject_snap", "reject_trunc"} =>
       entry[p].ids \cap (snap.ids \cup mem.ids) = {}
  /\ Holds(p) => Placed(cand[p], journal, used, refused)

RefusedInv ==
  /\ Once(journal, used) /\ refused \subseteq used /\ Replaced(journal, refused, snap.seq)
  /\ Placed(snap, journal, used, refused) /\ Placed(mem, journal, used, refused)
  /\ \A p \in Procs : Apart(p)
  /\ pc[Tracker] = "reject_snap" => cand[Tracker] = Consumed

\* A content made of one that is placed and of reports that no entry has.
LEMMA PlacedAdd ==
  ASSUME NEW c \in Content, NEW d \in Content, NEW j \in Seq(Entry), NEW u, NEW v, NEW r, NEW xs,
         Placed(c, j, u, r), d.ids \subseteq c.ids \cup xs, c.seq <= d.seq,
         u \subseteq v, xs \subseteq v, xs \cap r = {},
         \A i \in 1..Len(j) : j[i].ids \cap xs = {}
  PROVE  Placed(d, j, v, r)
<1>1. \A i \in 1..Len(j) : j[i] \in Entry
  OBVIOUS
<1>2. \A i \in 1..Len(j) : j[i].seq \in Nat /\ c.seq \in Nat /\ d.seq \in Nat
  BY <1>1, ContentNat
<1>3. ASSUME NEW i \in 1..Len(j), d.ids \cap j[i].ids # {} PROVE j[i].seq <= d.seq
  <2>1. c.ids \cap j[i].ids # {}
    BY <1>3
  <2> QED
    BY <1>2, <2>1 DEF Placed
<1> QED
  BY <1>3 DEF Placed

\* A content with no reports is placed.
LEMMA PlacedEmpty ==
  ASSUME NEW c, NEW j, NEW u, NEW r, c.ids = {} PROVE Placed(c, j, u, r)
BY DEF Placed

\* A content with fewer reports and a number no lower.
LEMMA PlacedLess ==
  ASSUME NEW c \in Content, NEW d \in Content, NEW j \in Seq(Entry), NEW u, NEW v, NEW r,
         Placed(c, j, u, r), d.ids \subseteq c.ids, c.seq <= d.seq, u \subseteq v
  PROVE  Placed(d, j, v, r)
<1>1. d.ids \subseteq c.ids \cup {} /\ {} \subseteq v /\ {} \cap r = {}
      /\ \A i \in 1..Len(j) : j[i].ids \cap {} = {}
  OBVIOUS
<1> HIDE DEF Placed
<1> QED
  BY <1>1, PlacedAdd

\* An entry is appended: a content that has its reports must not be behind it.
LEMMA PlacedAppend ==
  ASSUME NEW c, NEW j \in Seq(Entry), NEW e \in Entry, NEW u, NEW r,
         Placed(c, j, u, r), c.ids \cap e.ids # {} => e.seq <= c.seq
  PROVE  Placed(c, Append(j, e), u, r)
<1> DEFINE k == Append(j, e)
<1>1. /\ Len(k) = Len(j) + 1 /\ k[Len(j) + 1] = e /\ Len(j) \in Nat
      /\ \A i \in 1..Len(j) : k[i] = j[i]
  OBVIOUS
<1>2. \A i \in 1..Len(k) : i \in 1..Len(j) \/ i = Len(j) + 1
  BY <1>1
<1> HIDE DEF k
<1>3. ASSUME NEW i \in 1..Len(k), c.ids \cap k[i].ids # {} PROVE k[i].seq <= c.seq
  BY <1>1, <1>2, <1>3 DEF Placed
<1> QED
  BY <1>3 DEF Placed, k

\* An entry is appended with reports that are new to the journal and were not refused.
LEMMA OnceAppend ==
  ASSUME NEW j \in Seq(Entry), NEW e \in Entry, NEW u, NEW r, NEW q,
         Once(j, u), Replaced(j, r, q), e.ids \subseteq u, e.ids \cap r = {},
         \A i \in 1..Len(j) : j[i].ids \cap e.ids = {}
  PROVE  Once(Append(j, e), u) /\ Replaced(Append(j, e), r, q)
<1> DEFINE k == Append(j, e)
<1>1. /\ Len(k) = Len(j) + 1 /\ k[Len(j) + 1] = e /\ Len(j) \in Nat
      /\ \A i \in 1..Len(j) : k[i] = j[i]
  OBVIOUS
<1>2. \A i \in 1..Len(k) : i \in 1..Len(j) \/ i = Len(j) + 1
  BY <1>1
<1> HIDE DEF k
<1>3. Once(k, u)
  BY <1>1, <1>2 DEF Once
<1>4. Replaced(k, r, q)
  BY <1>1, <1>2 DEF Replaced
<1> QED
  BY <1>3, <1>4 DEF k

\* A truncated journal, or a reset entry in its place, holds no report.
LEMMA NoReports ==
  ASSUME NEW j, \A i \in 1..Len(j) : j[i].ids = {},
         NEW u, NEW r, NEW q
  PROVE  /\ Once(j, u) /\ Replaced(j, r, q)
         /\ \A c : c.ids \subseteq u /\ c.ids \cap r = {} => Placed(c, j, u, r)
BY DEF Once, Replaced, Placed

\* The fold of the journal into a content that is placed and not behind the snapshot is
\* placed, and has reports of the content and of the journal only (foldJournal,
\* replayJournal).
LEMMA FoldPlaced ==
  ASSUME TypeOK, Increasing(journal), Once(journal, used), Replaced(journal, refused, snap.seq),
         NEW c \in Content, snap.seq <= c.seq, Placed(c, journal, used, refused)
  PROVE  /\ Placed(Fold(c, journal), journal, used, refused)
         /\ \A xs : xs \cap c.ids = {} /\ (\A i \in 1..Len(journal) : journal[i].ids \cap xs = {})
              => xs \cap Fold(c, journal).ids = {}
<1> DEFINE f == Fold(c, journal)
<1>0. /\ journal \in Seq(Entry) /\ snap \in Content /\ f \in Content
      /\ \A i \in 1..Len(journal) : journal[i] \in Entry
  BY FoldType DEF TypeOK
<1>1. /\ c.seq \in Nat /\ snap.seq \in Nat /\ f.seq \in Nat
      /\ \A i \in 1..Len(journal) : journal[i].seq \in Nat
  BY <1>0, ContentNat
<1>2. \A i \in 1..Len(journal) : journal[i].seq <= f.seq
  BY <1>0, FoldSeq
<1>3. ASSUME NEW x \in f.ids
      PROVE  x \in c.ids \/ \E i \in 1..Len(journal) : x \in journal[i].ids /\ journal[i].seq > c.seq
  BY DEF Fold, Added, Pending
<1>4. f.ids \subseteq used
  BY <1>3 DEF Placed, Once
<1>5. ASSUME NEW x \in f.ids, x \in refused PROVE FALSE
  <2>1. PICK i \in 1..Len(journal) : x \in journal[i].ids /\ journal[i].seq > c.seq
    BY <1>3, <1>5 DEF Placed
  <2>2. journal[i].seq <= snap.seq
    BY <1>5, <2>1 DEF Replaced
  <2> QED
    BY <1>1, <2>1, <2>2
<1>6. Placed(f, journal, used, refused)
  BY <1>2, <1>4, <1>5 DEF Placed
<1>7. ASSUME NEW xs, xs \cap c.ids = {}, \A i \in 1..Len(journal) : journal[i].ids \cap xs = {}
      PROVE  xs \cap f.ids = {}
  BY <1>3, <1>7
<1> QED
  BY <1>6, <1>7

\* What the tracker consumes, and what a restart recovers, is placed.
LEMMA ConsumedPlaced ==
  ASSUME TypeOK, Numbering, RefusedInv
  PROVE  /\ Placed(Recovered, journal, used, refused) /\ Placed(Consumed, journal, used, refused)
         /\ \A xs : xs \cap (snap.ids \cup mem.ids) = {}
                    /\ (\A i \in 1..Len(journal) : journal[i].ids \cap xs = {})
              => xs \cap Consumed.ids = {}
<1>1. /\ snap \in Content /\ mem \in Content /\ Increasing(journal)
      /\ snap.seq \in Nat /\ mem.seq \in Nat
  BY ContentNat DEF TypeOK, Numbering
<1>2. /\ Baseline \in Content /\ snap.seq <= Baseline.seq /\ Baseline \in {snap, mem}
      /\ Placed(Baseline, journal, used, refused)
  BY <1>1 DEF Baseline, RefusedInv
<1>3. snap.seq <= snap.seq
  BY <1>1
<1> QED
  BY <1>1, <1>2, <1>3, FoldPlaced DEF RefusedInv, Recovered, Consumed

\* What the tracker rejects while it consumes is in the journal only: it is in no content,
\* and in nobody's hands (consumeJournalLocked).
LEMMA RejectsAreOut ==
  ASSUME TypeOK, Numbering, RefusedInv
  PROVE  /\ Rejects \subseteq used /\ Rejects \cap Consumed.ids = {} /\ Rejects \cap mem.ids = {}
         /\ \A p \in Procs : Rejects \cap entry[p].ids = {}
<1>0. /\ snap \in Content /\ mem \in Content /\ Baseline \in Content
      /\ snap.seq \in Nat /\ mem.seq \in Nat /\ Baseline.seq \in Nat
      /\ \A i \in 1..Len(journal) : journal[i] \in Entry /\ journal[i].seq \in Nat
  BY RecoveredType, ContentNat DEF TypeOK
<1>1. /\ snap.seq <= Baseline.seq /\ mem.seq <= Baseline.seq /\ Baseline \in {snap, mem}
  BY <1>0 DEF Baseline
<1>2. ASSUME NEW x \in Rejects
      PROVE  \E i \in Pending(Baseline.seq, journal) :
               /\ x \in journal[i].ids /\ ~Accepts(EvAt(Baseline, journal, i), x)
  BY <1>2 DEF Rejects, Dropped
<1>3. ASSUME NEW x \in Rejects
      PROVE  x \in used /\ x \notin Consumed.ids /\ x \notin mem.ids /\ \A p \in Procs : x \notin entry[p].ids
  <2>1. PICK i \in Pending(Baseline.seq, journal) :
               x \in journal[i].ids /\ ~Accepts(EvAt(Baseline, journal, i), x)
    BY <1>2
  <2>2. i \in 1..Len(journal) /\ journal[i].seq > Baseline.seq
    BY <2>1 DEF Pending
  <2>3. x \notin snap.ids /\ x \notin mem.ids
    <3>1. journal[i].seq \in Nat /\ ~(journal[i].seq <= snap.seq) /\ ~(journal[i].seq <= mem.seq)
      BY <1>0, <1>1, <2>2
    <3> QED
      BY <2>1, <2>2, <3>1 DEF RefusedInv, Placed
  <2>4. x \notin Added(Baseline, journal)
    <3>1. \A k \in Pending(Baseline.seq, journal) : x \in journal[k].ids => k = i
      BY <2>1, <2>2 DEF RefusedInv, Once, Pending
    <3> QED
      BY <2>1, <3>1 DEF Added
  <2>5. x \notin Consumed.ids
    BY <1>1, <2>3, <2>4 DEF Consumed, Fold
  <2> QED
    BY <2>1, <2>2, <2>3, <2>5 DEF RefusedInv, Once, Apart
<1> QED
  BY <1>3

-----------------------------------------------------------------------------
(* Every step keeps RefusedInv.                                            *)

\* Nobody is inside a transaction, and no report is in hand.
Quiet == \A p \in Procs : pc[p] = "idle" /\ entry[p].ids = {}

\* A transaction that ends leaves nobody inside (closeStoreLock).
LEMMA QuietAfter ==
  ASSUME TypeOK, Mutex, Carried, NEW p \in Procs, pc[p] # "idle" \/ lock = None, Forget(p)
  PROVE  Quiet'
<1>1. \A q \in Procs : q # p => pc[q] = "idle" /\ entry[q] = NoEntry
  BY OnlyHolder DEF Carried
<1> QED
  BY <1>1 DEF Forget, Quiet, TypeOK, NoEntry

\* Then the invariant is about the files and the memory only.
LEMMA QuietRefused ==
  ASSUME Quiet', used' = used, refused' = refused, refused \subseteq used,
         Once(journal', used), Replaced(journal', refused, snap'.seq),
         Placed(snap', journal', used, refused), Placed(mem', journal', used, refused)
  PROVE  RefusedInv'
<1>1. \A p \in Procs : Apart(p)'
  BY DEF Quiet, Apart, Holds
<1>2. Tracker \in Procs
  BY DEF Procs
<1> QED
  BY <1>1, <1>2 DEF Quiet, RefusedInv

\* What every step can rely on about who is inside.
LEMMA InsideAlone ==
  ASSUME TypeOK, Mutex, Carried, NEW p \in Procs, pc[p] # "idle" \/ lock = None
  PROVE  /\ \A q \in Procs : q # p => pc[q] = "idle" /\ entry[q].ids = {}
         /\ lock = None => pc[p] = "idle" /\ entry[p].ids = {}
<1>1. \A q \in Procs : pc[q] = "idle" => entry[q].ids = {}
  BY DEF Carried, NoEntry
<1>2. lock = None => pc[p] = "idle"
  BY ProcsAssumption DEF Mutex, Procs
<1> QED
  BY <1>1, <1>2, OnlyHolder

\* A process that has nothing in hand.
LEMMA IdleApart ==
  ASSUME NEW p \in Procs, pc'[p] = "idle", entry'[p].ids = {} PROVE Apart(p)'
BY DEF Apart, Holds

\* The entry is appended, whether the call succeeds or not (writeJournal).
LEMMA RefusedAppend ==
  ASSUME TypeOK, Mutex, Numbering, RefusedInv, NEW p \in Procs,
         pc[p] = "append", NEW c, c \in {snap, mem} \/ (p = Tracker /\ c = cand[p])
  PROVE  LET j == Append(journal, entry[p])
         IN  /\ Once(j, used) /\ Replaced(j, refused, snap.seq)
             /\ Placed(c, j, used, refused)
<1>0. journal \in Seq(Entry) /\ entry[p] \in Entry /\ entry[p].seq \in Nat
  BY ContentNat DEF TypeOK
<1>1. Apart(p) /\ Once(journal, used) /\ Replaced(journal, refused, snap.seq)
  BY DEF RefusedInv
<1>2. Placed(c, journal, used, refused)
  BY <1>1 DEF RefusedInv, Apart, Holds
<1>3. c.ids \cap entry[p].ids # {} => entry[p].seq <= c.seq
  BY <1>0, <1>1 DEF Apart, Numbering
<1>4. Once(Append(journal, entry[p]), used) /\ Replaced(Append(journal, entry[p]), refused, snap.seq)
  <2>1. /\ entry[p].ids \subseteq used /\ entry[p].ids \cap refused = {}
        /\ \A i \in 1..Len(journal) : journal[i].ids \cap entry[p].ids = {}
    BY <1>1 DEF Apart
  <2> QED
    BY <1>0, <1>1, <2>1, OnceAppend
<1>5. Placed(c, Append(journal, entry[p]), used, refused)
  BY <1>0, <1>2, <1>3, PlacedAppend
<1> QED
  BY <1>4, <1>5

\* The journal is truncated, or replaced by a reset entry.
LEMMA RefusedEmptied ==
  ASSUME TypeOK, Mutex, Carried, RefusedInv, NEW p \in Procs, NEW j,
         j = <<>> \/ (pc[p] = "reset" /\ j = <<entry[p]>>),
         NEW c, c.ids \subseteq used, c.ids \cap refused = {}
  PROVE  /\ Once(j, used) /\ Replaced(j, refused, snap.seq)
         /\ Placed(c, j, used, refused)
<1>1. pc[p] = "reset" => entry[p].ids = {}
  BY DEF Mutex, Carried
<1>2. \A i \in 1..Len(j) : j[i].ids = {}
  BY <1>1
<1> QED
  BY <1>2, NoReports

\* The snapshot is replaced by the content that a process holds (writeSnapshotAtomic).
LEMMA RefusedSnapshot ==
  ASSUME TypeOK, Mutex, Numbering, RefusedInv, NEW p \in Procs, pc[p] \in {"snap", "reject_snap"}
  PROVE  /\ Placed(cand[p], journal, used, refused)
         /\ \A r : Replaced(journal, r, cand[p].seq)
<1>1. \A i \in 1..Len(journal) : journal[i].seq <= cand[p].seq
  <2>1. /\ Recovered.seq <= cand[p].seq /\ cand[p] \in Content /\ Recovered \in Content
        /\ \A i \in 1..Len(journal) : journal[i] \in Entry /\ journal[i].seq <= Recovered.seq
    BY RecoveredType, RecoveredHighest DEF TypeOK, Numbering, Highest
  <2> QED
    BY <2>1, ContentNat
<1> QED
  BY <1>1 DEF RefusedInv, Apart, Holds, Replaced

\* Fail changes the memory only by giving it up.
LEMMA RefusedFail ==
  ASSUME TypeOK, Mutex, Carried, RefusedInv, NEW p \in Procs, pc[p] # "idle", Fail(p)
  PROVE  /\ Quiet' /\ used' = used /\ refused' = refused
         /\ mem' = mem \/ mem'.ids = {}
<1>1. Quiet'
  BY QuietAfter DEF Fail
<1> QED
  BY <1>1 DEF Fail, history, Empty

\* Each write keeps it.
LEMMA RefusedFileStep ==
  ASSUME Inv, Agreement, RefusedInv, NEW p \in Procs, FileStep(p)
  PROVE  RefusedInv'
<1>0. TypeOK /\ Mutex /\ Numbering /\ Carried
  BY DEF Inv
<1>i. /\ Once(journal, used) /\ refused \subseteq used /\ Replaced(journal, refused, snap.seq)
      /\ Placed(snap, journal, used, refused) /\ Placed(mem, journal, used, refused)
      /\ snap.ids \subseteq used /\ snap.ids \cap refused = {}
      /\ mem.ids \subseteq used /\ mem.ids \cap refused = {}
  BY DEF RefusedInv, Placed
<1>e. \A c : c.ids = {} => Placed(c, journal', used, refused)
  BY PlacedEmpty
<1>1. CASE AppendJournal(p)
  <2>1. /\ pc[p] = "append" /\ journal' = Append(journal, entry[p])
        /\ used' = used /\ refused' = refused /\ snap' = snap
        /\ mem' = mem \/ (p = Tracker /\ mem' = cand[p])
    BY <1>1 DEF AppendJournal, Accept
  <2>2. Quiet'
    BY <1>0, <1>1, <2>1, QuietAfter DEF AppendJournal, Release
  <2>3. /\ Once(journal', used) /\ Replaced(journal', refused, snap.seq)
        /\ Placed(snap', journal', used, refused) /\ Placed(mem', journal', used, refused)
    BY <1>0, <2>1, RefusedAppend
  <2> QED
    BY <1>i, <2>1, <2>2, <2>3, QuietRefused
<1>2. CASE AppendFails(p)
  <2>1. /\ pc[p] = "append" /\ snap' = snap
        /\ journal' = journal \/ journal' = Append(journal, entry[p])
    BY <1>2 DEF AppendFails
  <2>2. Quiet' /\ used' = used /\ refused' = refused /\ (mem' = mem \/ mem'.ids = {})
    BY <1>0, <1>2, <2>1, RefusedFail DEF AppendFails
  <2>3. /\ Once(journal', used) /\ Replaced(journal', refused, snap.seq)
        /\ Placed(snap, journal', used, refused) /\ Placed(mem, journal', used, refused)
    BY <1>0, <1>i, <2>1, RefusedAppend
  <2> QED
    BY <1>i, <1>e, <2>1, <2>2, <2>3, QuietRefused
<1>3. CASE WriteSnapshotFails(p)
  <2>1. pc[p] \in {"snap", "reject_snap"} /\ snap' \in {snap, cand[p]} /\ journal' = journal
    BY <1>3 DEF WriteSnapshotFails
  <2>2. Quiet' /\ used' = used /\ refused' = refused /\ (mem' = mem \/ mem'.ids = {})
    BY <1>0, <1>3, <2>1, RefusedFail DEF WriteSnapshotFails
  <2>3. Placed(snap', journal', used, refused) /\ Replaced(journal', refused, snap'.seq)
    BY <1>0, <1>i, <2>1, RefusedSnapshot
  <2> QED
    BY <1>i, <1>e, <2>1, <2>2, <2>3, QuietRefused
<1>4. CASE TruncateJournal(p)
  <2>1. /\ pc[p] = "trunc" /\ journal' = <<>> /\ snap' = snap /\ used' = used /\ refused' = refused
        /\ mem' = mem \/ mem' = cand[p]
    BY <1>4 DEF TruncateJournal, Accept, tracker
  <2>2. Quiet'
    BY <1>0, <1>4, <2>1, QuietAfter DEF TruncateJournal, Release
  <2>3. mem' \in {mem, snap}
    BY <1>0, <2>1 DEF Numbering
  <2>4. /\ Once(journal', used) /\ Replaced(journal', refused, snap'.seq)
        /\ Placed(snap', journal', used, refused) /\ Placed(mem', journal', used, refused)
    BY <1>0, <1>i, <2>1, <2>3, RefusedEmptied
  <2> QED
    BY <1>i, <2>1, <2>2, <2>4, QuietRefused
<1>5. CASE TruncateFails(p) \/ PublishResetFails(p)
  <2>1. /\ pc[p] \in {"trunc", "reject_trunc", "reset"} /\ snap' = snap
        /\ \/ journal' = journal
           \/ journal' = <<>>
           \/ pc[p] = "reset" /\ journal' = <<entry[p]>>
    BY <1>5 DEF TruncateFails, PublishResetFails
  <2>2. Quiet' /\ used' = used /\ refused' = refused /\ (mem' = mem \/ mem'.ids = {})
    BY <1>0, <1>5, <2>1, RefusedFail DEF TruncateFails, PublishResetFails
  <2>3. /\ Once(journal', used) /\ Replaced(journal', refused, snap.seq)
        /\ Placed(snap, journal', used, refused) /\ Placed(mem, journal', used, refused)
    BY <1>0, <1>i, <2>1, RefusedEmptied
  <2> QED
    BY <1>i, <1>e, <2>1, <2>2, <2>3, QuietRefused
<1>6. CASE PublishReset(p)
  <2>1. /\ pc[p] = "reset" /\ journal' = <<entry[p]>> /\ pc' = [pc EXCEPT ![p] = "snap"]
        /\ UNCHANGED <<snap, mem, entry, cand, used, refused>>
    BY <1>6 DEF PublishReset, tracker, history
  <2>2. /\ Once(journal', used) /\ Replaced(journal', refused, snap.seq)
        /\ Placed(snap, journal', used, refused) /\ Placed(mem, journal', used, refused)
    BY <1>0, <1>i, <2>1, RefusedEmptied
  <2>3. entry[p].ids = {} /\ cand[p].ids = {}
    <3>1. entry[p].kind = "reset" /\ cand[p] = Empty(entry[p].seq)
      BY <1>0, <2>1 DEF Mutex, Agreement
    <3> QED
      BY <1>0, <3>1 DEF Carried, Empty
  <2>4. ASSUME NEW q \in Procs PROVE Apart(q)'
    <3>1. CASE q # p
      <4>1. pc'[q] = "idle" /\ entry'[q].ids = {}
        BY <1>0, <2>1, <3>1, InsideAlone DEF TypeOK
      <4> QED
        BY <4>1, IdleApart
    <3>2. CASE q = p
      <4>1. entry'[q].ids = {} /\ Placed(cand'[q], journal', used', refused') /\ pc'[q] = "snap"
        BY <1>0, <1>e, <2>1, <2>3, <3>2 DEF TypeOK
      <4> QED
        BY <4>1 DEF Apart
    <3> QED
      BY <3>1, <3>2
  <2>5. pc'[Tracker] # "reject_snap"
    <3>1. p # Tracker => pc[Tracker] = "idle"
      BY <1>0, <2>1, InsideAlone DEF Procs
    <3> QED
      BY <1>0, <2>1, <3>1 DEF TypeOK
  <2> QED
    BY <1>i, <2>1, <2>2, <2>4, <2>5 DEF RefusedInv
<1>7. CASE WriteSnapshot(p)
  <2>1. /\ pc[p] \in {"snap", "reject_snap"} /\ snap' = cand[p] /\ journal' = journal
        /\ pc' = [pc EXCEPT ![p] = IF @ = "snap" THEN "trunc" ELSE "reject_trunc"]
        /\ UNCHANGED <<mem, entry, cand, used>>
        /\ refused' = IF pc[p] = "reject_snap" THEN refused \cup Rejects ELSE refused
    BY <1>7 DEF WriteSnapshot, tracker
  <2>2. pc[p] = "reject_snap" => p = Tracker /\ cand[p] = Consumed
    BY <1>0 DEF Mutex, RefusedInv, Procs
  <2>3. Placed(cand[p], journal, used, refused) /\ \A r : Replaced(journal, r, cand[p].seq)
    BY <1>0, <2>1, RefusedSnapshot
  <2>4. /\ refused' \subseteq used /\ refused' \cap cand[p].ids = {} /\ refused' \cap mem.ids = {}
        /\ \A q \in Procs : refused' \cap entry[q].ids = {}
    <3>1. /\ refused \subseteq used /\ refused \cap cand[p].ids = {} /\ refused \cap mem.ids = {}
          /\ \A q \in Procs : refused \cap entry[q].ids = {}
      BY <2>3 DEF RefusedInv, Apart, Placed
    <3>2. CASE pc[p] = "reject_snap"
      <4>1. /\ Rejects \subseteq used /\ Rejects \cap Consumed.ids = {} /\ Rejects \cap mem.ids = {}
            /\ \A q \in Procs : Rejects \cap entry[q].ids = {}
        BY <1>0, RejectsAreOut
      <4> QED
        BY <2>1, <2>2, <3>1, <3>2, <4>1
    <3>3. CASE pc[p] # "reject_snap"
      BY <2>1, <3>1, <3>3
    <3> QED
      BY <3>2, <3>3
  <2>5. Placed(snap', journal', used', refused') /\ Placed(mem', journal', used', refused')
    BY <1>i, <2>1, <2>3, <2>4 DEF Placed
  <2>6. ASSUME NEW q \in Procs PROVE Apart(q)'
    <3>1. CASE q # p
      <4>1. pc'[q] = "idle" /\ entry'[q].ids = {}
        BY <1>0, <2>1, <3>1, InsideAlone DEF TypeOK
      <4> QED
        BY <4>1, IdleApart
    <3>2. CASE q = p
      <4>1. Apart(p) /\ pc'[q] \in {"trunc", "reject_trunc"}
            /\ (pc'[q] = "reject_trunc" => pc[p] = "reject_snap")
        BY <1>0, <2>1, <3>2 DEF RefusedInv, TypeOK
      <4>2. pc'[q] = "reject_trunc" => entry[q].ids \cap (cand[p].ids \cup mem.ids) = {}
        <5> SUFFICES ASSUME pc'[q] = "reject_trunc"
                     PROVE  entry[q].ids \cap (cand[p].ids \cup mem.ids) = {}
          OBVIOUS
        <5>1. entry[p].ids \cap (snap.ids \cup mem.ids) = {}
              /\ \A i \in 1..Len(journal) : journal[i].ids \cap entry[p].ids = {}
          BY <4>1 DEF Apart
        <5>2. entry[p].ids \cap Consumed.ids = {}
          BY <1>0, <5>1, ConsumedPlaced
        <5> QED
          BY <2>2, <3>2, <4>1, <5>1, <5>2
      <4>3. ~Holds(q)'
        BY <4>1 DEF Holds
      <4> QED
        BY <2>1, <2>4, <3>2, <4>1, <4>2, <4>3 DEF Apart
    <3> QED
      BY <3>1, <3>2
  <2>7. pc'[Tracker] # "reject_snap"
    <3>1. p # Tracker => pc[Tracker] = "idle"
      BY <1>0, <2>1, InsideAlone DEF Procs
    <3> QED
      BY <1>0, <2>1, <3>1 DEF TypeOK
  <2> QED
    BY <1>i, <2>1, <2>3, <2>4, <2>5, <2>6, <2>7 DEF RefusedInv
<1> QED
  BY <1>1, <1>2, <1>3, <1>4, <1>5, <1>6, <1>7 DEF FileStep

\* A transaction that ends without touching the files, with a memory that holds no more.
LEMMA RefusedLeave ==
  ASSUME TypeOK, Mutex, Carried, RefusedInv, TypeOK', NEW p \in Procs, pc[p] # "idle", Forget(p),
         UNCHANGED <<snap, journal, used, refused>>,
         mem'.ids = {} \/ (mem'.ids \subseteq mem.ids /\ mem'.seq = mem.seq)
  PROVE  RefusedInv'
<1>1. Quiet'
  BY QuietAfter
<1>2. mem \in Content /\ mem' \in Content /\ journal \in Seq(Entry) /\ mem.seq \in Nat
  BY ContentNat DEF TypeOK
<1>3. Placed(mem', journal, used, refused)
  <2>1. mem.seq <= mem.seq
    BY <1>2
  <2> QED
    BY <1>2, <2>1, PlacedEmpty, PlacedLess DEF RefusedInv
<1> QED
  BY <1>1, <1>3, QuietRefused DEF RefusedInv

\* The steps of a fallback writer keep it.
LEMMA RefusedWriterStep ==
  ASSUME Inv, RefusedInv, TypeOK', NEW w \in Writers, WriterStep(w)
  PROVE  RefusedInv'
<1>0. /\ TypeOK /\ Mutex /\ Numbering /\ Carried
      /\ w \in Procs /\ Tracker \in Procs /\ w # Tracker
  BY ProcsAssumption DEF Inv, Procs
<1>i. /\ Once(journal, used) /\ refused \subseteq used /\ Replaced(journal, refused, snap.seq)
      /\ Placed(snap, journal, used, refused) /\ Placed(mem, journal, used, refused)
  BY DEF RefusedInv
<1>1. ASSUME NEW kind \in {"observe", "gc"}, NEW ids, ids \cap used = {}, WriterCommand(w, kind, ids)
      PROVE  RefusedInv'
  <2>1. /\ pc[w] = "idle" /\ lock = None /\ used' = used \cup ids
        /\ UNCHANGED <<snap, journal, mem, refused>>
    BY <1>1 DEF WriterCommand, files, tracker
  <2>2. /\ entry'[w].ids = ids /\ (\A q \in Procs : q # w => entry'[q] = entry[q] /\ pc'[q] = pc[q])
        /\ pc'[w] \in {"snap", "append"}
    BY <1>0, <1>1, <2>1 DEF WriterCommand, TypeOK
  <2>3. pc'[w] = "snap" => cand'[w] = ApplyEntry(Recovered, [seq |-> Recovered.seq + 1, kind |-> kind, ids |-> ids])
    BY <1>0, <1>1, <2>1 DEF WriterCommand, TypeOK
  <2>4. \A c : Placed(c, journal, used, refused) => Placed(c, journal', used', refused')
    BY <2>1 DEF Placed
  <2>5. /\ Once(journal', used') /\ refused' \subseteq used'
        /\ \A i \in 1..Len(journal) : journal[i].ids \cap ids = {}
        /\ ids \cap refused = {} /\ ids \cap snap.ids = {} /\ ids \cap mem.ids = {}
    BY <1>1, <1>i, <2>1 DEF Once, Placed
  <2>6. ASSUME pc'[w] = "snap" PROVE Placed(cand'[w], journal', used', refused')
    <3>1. /\ Recovered \in Content /\ cand'[w] \in Content /\ journal \in Seq(Entry)
          /\ Recovered.seq \in Nat
      BY <1>0, RecoveredType, ContentNat DEF TypeOK
    <3>2. Recovered.seq <= cand'[w].seq /\ cand'[w].ids \subseteq Recovered.ids \cup ids
      <4> DEFINE e == [seq |-> Recovered.seq + 1, kind |-> kind, ids |-> ids]
      <4>1. e \in Entry /\ e.kind # "reset" /\ e.ids = ids /\ e.seq = Recovered.seq + 1
        <5>1. entry'[w] = e
          BY <1>0, <1>1 DEF WriterCommand, TypeOK
        <5>2. entry'[w] \in Entry
          BY <1>0 DEF TypeOK
        <5> QED
          BY <1>1, <5>1, <5>2
      <4>2. cand'[w] = ApplyEntry(Recovered, e)
        BY <2>3, <2>6
      <4> HIDE DEF e
      <4> QED
        BY <3>1, <4>1, <4>2, ApplyChange, ApplyEntrySeq
    <3>3. Placed(Recovered, journal, used, refused)
      BY <1>0, ConsumedPlaced
    <3>4. used \subseteq used' /\ ids \subseteq used'
      BY <2>1
    <3> QED
      BY <2>1, <2>5, <3>1, <3>2, <3>3, <3>4, PlacedAdd
  <2>7. ASSUME NEW q \in Procs PROVE Apart(q)'
    <3>1. CASE q # w
      <4>1. pc'[q] = "idle" /\ entry'[q].ids = {}
        BY <1>0, <2>1, <2>2, <3>1, InsideAlone
      <4> QED
        BY <4>1, IdleApart
    <3>2. CASE q = w
      <4>1. Holds(q)' => pc'[w] = "snap"
        BY <1>0, <2>2, <3>2 DEF Holds
      <4>2. entry'[q].ids \subseteq used' /\ entry'[q].ids \cap refused' = {}
            /\ (\A i \in 1..Len(journal') : journal'[i].ids \cap entry'[q].ids = {})
            /\ entry'[q].ids \cap (snap'.ids \cup mem'.ids) = {}
        BY <2>1, <2>2, <2>5, <3>2
      <4> QED
        BY <2>6, <3>2, <4>1, <4>2 DEF Apart
    <3> QED
      BY <3>1, <3>2
  <2>8. pc'[Tracker] # "reject_snap"
    BY <1>0, <2>1, <2>2, InsideAlone
  <2> QED
    BY <1>i, <2>1, <2>4, <2>5, <2>7, <2>8 DEF RefusedInv
<1>2. CASE WriterReset(w)
  <2>1. /\ pc[w] = "idle" /\ lock = None /\ UNCHANGED <<snap, journal, mem, used, refused>>
        /\ pc' = [pc EXCEPT ![w] = "reset"]
    BY <1>2 DEF WriterReset, files, tracker, history
  <2>2. entry'[w].ids = {} /\ \A q \in Procs : q # w => entry'[q] = entry[q] /\ pc'[q] = pc[q]
    BY <1>0, <1>2, <2>1 DEF WriterReset, TypeOK
  <2>3. \A q \in Procs : entry'[q].ids = {} /\ pc'[q] \in {"idle", "reset"}
    BY <1>0, <2>1, <2>2, InsideAlone DEF TypeOK
  <2>4. \A q \in Procs : Apart(q)'
    BY <2>3 DEF Apart, Holds
  <2> QED
    BY <1>0, <1>i, <2>1, <2>3, <2>4 DEF RefusedInv
<1>3. CASE WriterCrash(w)
  <2>1. /\ pc[w] # "idle" /\ Forget(w) /\ UNCHANGED <<snap, journal, mem, used, refused>>
    BY <1>3 DEF WriterCrash, Release, tracker, history
  <2>2. mem'.ids \subseteq mem.ids /\ mem'.seq = mem.seq
    BY <2>1
  <2> QED
    BY <1>0, <2>1, <2>2, RefusedLeave
<1>4. ASSUME NEW x \in Reports \ used, WriterCommand(w, "observe", {x}) PROVE RefusedInv'
  <2>1. {x} \cap used = {}
    OBVIOUS
  <2> QED
    BY <1>1, <1>4, <2>1
<1>5. CASE WriterCommand(w, "gc", {})
  <2>1. {} \cap used = {}
    OBVIOUS
  <2> QED
    BY <1>1, <1>5, <2>1
<1> QED
  BY <1>2, <1>3, <1>4, <1>5 DEF WriterStep

\* The tracker begins: it consumes the journal, at once or through a checkpoint, and takes
\* reports in hand (commandLocked, drainLocked).
LEMMA RefusedBegin ==
  ASSUME Inv, RefusedInv, TypeOK', NEW o, NEW ids, ids \cap used = {}, TrackerBegin(o, ids)
  PROVE  RefusedInv'
<1>0. TypeOK /\ Mutex /\ Numbering /\ Carried /\ Tracker \in Procs
  BY DEF Inv, Procs
<1>i. /\ Once(journal, used) /\ refused \subseteq used /\ Replaced(journal, refused, snap.seq)
      /\ Placed(snap, journal, used, refused) /\ Placed(mem, journal, used, refused)
      /\ Placed(Consumed, journal, used, refused)
  BY <1>0, ConsumedPlaced DEF RefusedInv
<1>1. /\ lock = None /\ pc[Tracker] = "idle" /\ used' = used \cup ids
      /\ UNCHANGED <<snap, journal>>
      /\ refused' = refused
      /\ mem' = mem \/ mem' = Consumed
      /\ pc'[Tracker] \in {"act", "reject_snap"}
      /\ pc'[Tracker] = "reject_snap" => cand'[Tracker] = Consumed /\ mem' = mem
      /\ \A q \in Procs : q # Tracker => pc'[q] = pc[q] /\ entry'[q] = entry[q]
      /\ entry'[Tracker].ids = ids
  <2>1. lock = None /\ pc[Tracker] = "idle" /\ used' = used \cup ids /\ UNCHANGED <<snap, journal>>
    BY DEF TrackerBegin, files
  <2>2. /\ \A q \in Procs : q # Tracker => entry'[q] = entry[q]
        /\ entry'[Tracker].ids = ids
    <3>1. entry[Tracker] \in Entry /\ entry' = [entry EXCEPT ![Tracker].ids = ids]
      BY <1>0 DEF TrackerBegin, TypeOK
    <3> QED
      BY <1>0, <3>1 DEF TypeOK, Entry
  <2>3. CASE NeedsCheckpoint
    BY <1>0, <2>1, <2>2, <2>3 DEF TrackerBegin, TypeOK
  <2>4. CASE ~NeedsCheckpoint
    <3>1. refused' = refused
      BY <2>4 DEF TrackerBegin, NeedsCheckpoint
    <3> QED
      BY <1>0, <2>1, <2>2, <2>4, <3>1 DEF TrackerBegin, Accept, TypeOK
  <2> QED
    BY <2>3, <2>4
<1>2. \A c : Placed(c, journal, used, refused) =>
        Placed(c, journal', used', refused') /\ c.ids \cap ids = {}
  BY <1>1 DEF Placed
<1>3. /\ Once(journal', used') /\ refused' \subseteq used' /\ Replaced(journal', refused', snap'.seq)
      /\ \A i \in 1..Len(journal) : journal[i].ids \cap ids = {}
      /\ ids \cap refused = {}
  BY <1>1, <1>i DEF Once
<1>4. Placed(snap', journal', used', refused') /\ Placed(mem', journal', used', refused')
      /\ snap'.ids \cap ids = {} /\ mem'.ids \cap ids = {}
  BY <1>1, <1>2, <1>i
<1>5. ASSUME NEW q \in Procs PROVE Apart(q)'
  <2>1. CASE q # Tracker
    <3>1. pc'[q] = "idle" /\ entry'[q].ids = {}
      BY <1>0, <1>1, <2>1, InsideAlone
    <3> QED
      BY <3>1, IdleApart
  <2>2. CASE q = Tracker
    <3>1. Holds(q)' => Placed(cand'[q], journal', used', refused')
      BY <1>1, <1>2, <1>i, <2>2 DEF Holds
    <3>2. /\ entry'[q].ids \subseteq used' /\ entry'[q].ids \cap refused' = {}
          /\ \A i \in 1..Len(journal') : journal'[i].ids \cap entry'[q].ids = {}
          /\ entry'[q].ids \cap (snap'.ids \cup mem'.ids) = {}
      BY <1>1, <1>3, <1>4, <2>2
    <3> QED
      BY <3>1, <3>2 DEF Apart
  <2> QED
    BY <2>1, <2>2
<1>6. pc'[Tracker] = "reject_snap" => cand'[Tracker] = Consumed'
  BY <1>1 DEF Consumed, Baseline
<1> QED
  BY <1>3, <1>4, <1>5, <1>6 DEF RefusedInv

\* The steps of the tracker keep it.
LEMMA RefusedTrackerStep ==
  ASSUME Inv, RefusedInv, TypeOK', TrackerStep
  PROVE  RefusedInv'
<1>0. /\ TypeOK /\ Mutex /\ Numbering /\ Carried /\ Tracker \in Procs
      /\ mem \in Content /\ journal \in Seq(Entry) /\ mem.seq \in Nat
  BY ContentNat DEF Inv, Procs, TypeOK
<1>i. /\ Once(journal, used) /\ refused \subseteq used /\ Replaced(journal, refused, snap.seq)
      /\ Placed(snap, journal, used, refused) /\ Placed(mem, journal, used, refused)
      /\ snap.ids \subseteq used /\ snap.ids \cap refused = {} /\ Apart(Tracker)
  BY <1>0 DEF RefusedInv, Placed
<1>e. \A c : c.ids = {} => Placed(c, journal', used, refused)
  BY PlacedEmpty
<1>1. CASE TruncateRejected
  <2>1. /\ pc[Tracker] = "reject_trunc" /\ journal' = <<>> /\ mem' = cand[Tracker]
        /\ pc' = [pc EXCEPT ![Tracker] = "act"]
        /\ UNCHANGED <<snap, entry, cand, used, refused>>
    BY <1>1 DEF TruncateRejected, Accept, history
  <2>2. mem' = snap
    BY <1>0, <2>1 DEF Numbering
  <2>3. /\ Once(journal', used) /\ Replaced(journal', refused, snap.seq)
        /\ Placed(snap, journal', used, refused)
    BY <1>0, <1>i, <2>1, RefusedEmptied
  <2>4. ASSUME NEW q \in Procs PROVE Apart(q)'
    <3>1. CASE q # Tracker
      <4>1. pc'[q] = "idle" /\ entry'[q].ids = {}
        BY <1>0, <2>1, <3>1, InsideAlone DEF TypeOK
      <4> QED
        BY <4>1, IdleApart
    <3>2. CASE q = Tracker
      <4>1. pc'[q] = "act" /\ ~Holds(q)'
        BY <1>0, <2>1, <3>2 DEF TypeOK, Holds
      <4>2. \A i \in 1..Len(journal') : journal'[i].ids \cap entry[q].ids = {}
        BY <2>1
      <4>3. entry[q].ids \cap (snap'.ids \cup mem'.ids) = {}
            /\ entry[q].ids \subseteq used /\ entry[q].ids \cap refused = {}
        BY <1>i, <2>1, <2>2, <3>2 DEF Apart
      <4> QED
        BY <2>1, <4>1, <4>2, <4>3 DEF Apart
    <3> QED
      BY <3>1, <3>2
  <2>5. pc'[Tracker] # "reject_snap"
    BY <1>0, <2>1 DEF TypeOK
  <2> QED
    BY <1>i, <2>1, <2>2, <2>3, <2>4, <2>5 DEF RefusedInv
<1>2. ASSUME NEW x \in Reports \ used, TrackerBegin("observe", {x}) PROVE RefusedInv'
  <2>1. {x} \cap used = {}
    OBVIOUS
  <2> QED
    BY <1>2, <2>1, RefusedBegin
<1>3. ASSUME NEW o, TrackerBegin(o, {}) PROVE RefusedInv'
  <2>1. {} \cap used = {}
    OBVIOUS
  <2> QED
    BY <1>3, <2>1, RefusedBegin
<1>4. CASE TrackerDrain
  <2>1. /\ pc[Tracker] # "idle" /\ Forget(Tracker)
        /\ UNCHANGED <<snap, journal, mem, used, refused>>
    BY <1>4 DEF TrackerDrain, Release, files, history
  <2>2. mem'.ids \subseteq mem.ids /\ mem'.seq = mem.seq
    BY <2>1
  <2> QED
    BY <1>0, <2>1, <2>2, RefusedLeave
<1>5. ASSUME NEW expired, TrackerRefresh(expired) PROVE RefusedInv'
  <2>1. /\ pc[Tracker] # "idle" /\ Forget(Tracker)
        /\ UNCHANGED <<snap, journal, used, refused>>
        /\ mem' = [mem EXCEPT !.ev = @ + 1, !.ids = @ \ expired]
    BY <1>5 DEF TrackerRefresh, Accept, Release, files, history
  <2>2. mem'.ids \subseteq mem.ids /\ mem'.seq = mem.seq
    BY <1>0, <2>1 DEF Content
  <2> QED
    BY <1>0, <2>1, <2>2, RefusedLeave
<1>6. ASSUME NEW expired, TrackerCommand(expired) PROVE RefusedInv'
  <2> DEFINE e == [seq |-> mem.seq + 1, kind |-> op, ids |-> entry[Tracker].ids]
             c == [ApplyEntry(mem, e) EXCEPT !.ids = @ \ expired]
  <2>1. /\ pc[Tracker] = "act" /\ op \in {"observe", "gc"} /\ mem.seq < MaxSeq
        /\ pc' = [pc EXCEPT ![Tracker] = "append"]
        /\ entry' = [entry EXCEPT ![Tracker] = e] /\ cand' = [cand EXCEPT ![Tracker] = c]
        /\ UNCHANGED <<snap, journal, mem, used, refused>>
    BY <1>6 DEF TrackerCommand, files, tracker, history
  <2>2. cand'[Tracker] = c /\ c \in Content /\ c.seq = mem.seq + 1
        /\ c.ids \subseteq mem.ids \cup entry[Tracker].ids
    <3>1. cand'[Tracker] = c
      BY <1>0, <2>1 DEF TypeOK
    <3>2. cand'[Tracker] \in Content
      BY <1>0 DEF TypeOK
    <3>3. c.seq = mem.seq + 1 /\ c.ids \subseteq mem.ids \cup entry[Tracker].ids
      BY <1>0, <2>1 DEF ApplyEntry, Content
    <3> QED
      BY <3>1, <3>2, <3>3
  <2> HIDE DEF c
  <2>3. Placed(c, journal, used, refused)
    <3>1. mem.seq <= c.seq
      BY <1>0, <2>2
    <3>2. /\ entry[Tracker].ids \subseteq used /\ entry[Tracker].ids \cap refused = {}
          /\ \A i \in 1..Len(journal) : journal[i].ids \cap entry[Tracker].ids = {}
      BY <1>i DEF Apart
    <3>3. used \subseteq used
      OBVIOUS
    <3> QED
      BY <1>0, <1>i, <2>2, <3>1, <3>2, <3>3, PlacedAdd
  <2>4. ASSUME NEW q \in Procs PROVE Apart(q)'
    <3>1. CASE q # Tracker
      <4>1. pc'[q] = "idle" /\ entry'[q].ids = {}
        BY <1>0, <2>1, <3>1, InsideAlone DEF TypeOK
      <4> QED
        BY <4>1, IdleApart
    <3>2. CASE q = Tracker
      <4>1. entry'[q].ids = entry[q].ids /\ entry[q].ids \cap (snap.ids \cup mem.ids) = {}
        BY <1>0, <1>i, <2>1, <3>2 DEF TypeOK, Apart
      <4> QED
        BY <1>i, <2>1, <2>2, <2>3, <3>2, <4>1 DEF Apart
    <3> QED
      BY <3>1, <3>2
  <2>5. pc'[Tracker] # "reject_snap"
    BY <1>0, <2>1 DEF TypeOK
  <2> QED
    BY <1>i, <2>1, <2>4, <2>5 DEF RefusedInv
<1>7. ASSUME NEW expired, NEW elapsed, TrackerPersist(expired, elapsed) PROVE RefusedInv'
  <2> DEFINE c == [mem EXCEPT !.ids = @ \ expired]
  <2>1. /\ pc[Tracker] = "act" /\ mem' = c /\ UNCHANGED <<snap, journal, used, refused>>
        /\ \/ Forget(Tracker)
           \/ /\ cand' = [cand EXCEPT ![Tracker] = c] /\ entry' = entry
              /\ pc' = [pc EXCEPT ![Tracker] = "snap"]
    BY <1>7 DEF TrackerPersist, Release, files, history
  <2>2. c.ids \subseteq mem.ids /\ c.seq = mem.seq /\ c \in Content /\ mem.seq <= c.seq
    BY <1>0 DEF Content
  <2>3. CASE Forget(Tracker)
    <3>1. pc[Tracker] # "idle"
      BY <2>1
    <3> QED
      BY <1>0, <2>1, <2>2, <2>3, <3>1, RefusedLeave
  <2>4. CASE ~Forget(Tracker)
    <3>1. Placed(c, journal, used, refused)
      BY <1>0, <1>i, <2>2, PlacedLess
    <3>2. /\ cand'[Tracker] = c /\ pc'[Tracker] = "snap" /\ entry' = entry
          /\ \A q \in Procs : q # Tracker => pc'[q] = pc[q]
      BY <1>0, <2>1, <2>4 DEF TypeOK
    <3> HIDE DEF c
    <3>3. ASSUME NEW q \in Procs PROVE Apart(q)'
      <4>1. CASE q # Tracker
        <5>1. pc'[q] = "idle" /\ entry'[q].ids = {}
          BY <1>0, <2>1, <3>2, <4>1, InsideAlone
        <5> QED
          BY <5>1, IdleApart
      <4>2. CASE q = Tracker
        BY <1>i, <2>1, <3>1, <3>2, <4>2 DEF Apart
      <4> QED
        BY <4>1, <4>2
    <3> QED
      BY <1>i, <2>1, <3>1, <3>2, <3>3 DEF RefusedInv
  <2> QED
    BY <2>3, <2>4
<1>8. CASE TrackerReset
  <2>1. /\ pc[Tracker] = "idle" /\ lock = None /\ UNCHANGED <<snap, journal, mem, used, refused>>
        /\ pc' = [pc EXCEPT ![Tracker] = "reset"] /\ entry'[Tracker].ids = {}
        /\ \A q \in Procs : q # Tracker => entry'[q] = entry[q]
    BY <1>0, <1>8 DEF TrackerReset, files, history, TypeOK
  <2>2. \A q \in Procs : entry'[q].ids = {} /\ pc'[q] \in {"idle", "reset"}
    BY <1>0, <2>1, InsideAlone DEF TypeOK
  <2>3. \A q \in Procs : Apart(q)'
    BY <2>2 DEF Apart, Holds
  <2> QED
    BY <1>0, <1>i, <2>1, <2>2, <2>3 DEF RefusedInv
<1>9. CASE TrackerClose
  <2>1. UNCHANGED <<snap, journal, mem, used, refused, pc, entry, cand>>
    BY <1>9 DEF TrackerClose, files, local, history
  <2> QED
    BY <2>1 DEF RefusedInv, Apart, Holds, Consumed, Baseline
<1>10. ASSUME mem'.ids = {}, UNCHANGED <<snap, journal, used, refused>>, pc'[Tracker] = "idle",
              \A q \in Procs : \/ pc'[q] = "idle" /\ entry'[q].ids = {}
                               \/ pc'[q] = pc[q] /\ entry'[q] = entry[q] /\ cand'[q] = cand[q]
       PROVE  RefusedInv'
  <2>1. Placed(mem', journal', used', refused')
    BY <1>e, <1>10
  <2>2. ASSUME NEW q \in Procs PROVE Apart(q)'
    <3>1. CASE pc'[q] = "idle" /\ entry'[q].ids = {}
      BY <3>1, IdleApart
    <3>2. CASE pc'[q] = pc[q] /\ entry'[q] = entry[q] /\ cand'[q] = cand[q]
      <4>1. Apart(q)
        BY DEF RefusedInv
      <4> QED
        BY <1>10, <3>2, <4>1 DEF Apart, Holds
    <3> QED
      BY <1>10, <3>1, <3>2
  <2> QED
    BY <1>i, <1>10, <2>1, <2>2 DEF RefusedInv
<1>11. CASE TrackerReleaseOwner
  <2>1. mem'.ids = {} /\ UNCHANGED <<snap, journal, used, refused, pc, entry, cand>> /\ pc[Tracker] = "idle"
    BY <1>11 DEF TrackerReleaseOwner, files, local, history, Empty
  <2> QED
    BY <1>10, <2>1
<1>12. CASE TrackerCrash
  <2>1. mem'.ids = {} /\ UNCHANGED <<snap, journal, used, refused>> /\ Forget(Tracker)
    BY <1>12 DEF TrackerCrash, history, Empty
  <2>2. /\ pc'[Tracker] = "idle" /\ entry'[Tracker].ids = {}
        /\ \A q \in Procs : q # Tracker => pc'[q] = pc[q] /\ entry'[q] = entry[q] /\ cand'[q] = cand[q]
    BY <1>0, <2>1 DEF Forget, TypeOK, NoEntry
  <2> QED
    BY <1>10, <2>1, <2>2
<1>13. ASSUME NEW expired, TrackerOpen(expired) PROVE RefusedInv'
  <2>1. /\ lock = None /\ UNCHANGED <<snap, journal, used, refused, pc, entry, cand>>
        /\ mem' = [Recovered EXCEPT !.ids = @ \ expired]
    BY <1>13 DEF TrackerOpen, files, local, history
  <2>2. Quiet'
    BY <1>0, <2>1, InsideAlone DEF Quiet
  <2>3. Placed(Recovered, journal, used, refused) /\ Recovered \in Content /\ mem' \in Content
    BY <1>0, ConsumedPlaced, RecoveredType DEF TypeOK
  <2>4. mem'.ids \subseteq Recovered.ids /\ Recovered.seq <= mem'.seq
    BY <2>1, <2>3, ContentNat DEF Content
  <2>5. Placed(mem', journal, used, refused)
    BY <1>0, <2>3, <2>4, PlacedLess
  <2> QED
    BY <1>i, <2>1, <2>2, <2>5, QuietRefused
<1> QED
  BY <1>1, <1>2, <1>3, <1>4, <1>5, <1>6, <1>7, <1>8, <1>9, <1>11, <1>12, <1>13 DEF TrackerStep

\* Every step keeps it.
LEMMA RefusedStep ==
  ASSUME Inv, Agreement, RefusedInv, [Next]_vars
  PROVE  RefusedInv'
<1>1. TypeOK'
  BY InvStep DEF Inv
<1>2. CASE UNCHANGED vars
  <2>1. UNCHANGED <<snap, journal, mem, used, refused, pc, entry, cand>>
    BY <1>2 DEF vars, files, tracker, local, history
  <2> QED
    BY <2>1 DEF RefusedInv, Apart, Holds, Consumed, Baseline
<1> QED
  BY <1>1, <1>2, RefusedFileStep, RefusedWriterStep, RefusedTrackerStep DEF Next

\* It holds of the first registry.
LEMMA RefusedInit == ASSUME Init PROVE RefusedInv
<1>1. \A p \in Procs : Apart(p)
  BY DEF Init, Apart, Holds, NoEntry
<1>2. \A i \in 1..Len(journal) : FALSE
  BY DEF Init
<1> QED
  BY <1>1, <1>2 DEF Init, RefusedInv, Once, Replaced, Placed, Empty, Procs

-----------------------------------------------------------------------------
(* The theorems.                                                           *)

ContentInv == Agreement /\ Fresh /\ Durable

\* A first process finds a registry without reports.
LEMMA EmptyAtFirst == ASSUME Init PROVE Recovered.ids = {}
<1>1. /\ snap = Empty(0) /\ snap \in Content
      /\ journal \in Seq(Entry) /\ Increasing(journal) /\ Len(journal) = 0
  BY InvInit DEF Inv, TypeOK, Numbering, Init
<1>2. \A i \in 1..Len(journal) : journal[i].seq <= snap.seq
  BY <1>1
<1>3. Recovered = snap
  BY <1>1, <1>2, CoveredSeq DEF Recovered
<1> QED
  BY <1>1, <1>3 DEF Empty

\* The invariant on content holds of that registry.
LEMMA ContentInit == ASSUME Init PROVE ContentInv
<1>1. Recovered.ids = {}
  BY EmptyAtFirst
<1>2. Agreement
  BY DEF Init, Agreement, Procs
<1>3. Fresh
  BY <1>1 DEF Init, Fresh, NoEntry
<1>4. Durable
  BY DEF Init, Durable
<1> QED
  BY <1>2, <1>3, <1>4 DEF ContentInv

\* What the files and the processes hold is inductive on top of Inv: the memory,
\* the candidates and the files agree, every report enters the files at most once,
\* and acknowledged reports are in them, in every reachable state, for any number
\* of command processes, any reports and any bounds.
THEOREM ContentInvariance == Spec => [](Inv /\ ContentInv)
<1>1. Init => Inv /\ ContentInv
  BY InvInit, ContentInit
<1>2. Inv /\ ContentInv /\ [Next]_vars => (Inv /\ ContentInv)'
  BY InvStep, AgreementStep, FreshStep, DurableStep DEF ContentInv
<1> QED
  BY <1>1, <1>2, PTL DEF Spec

\* A report whose submitter was told it succeeded is in the files from then on,
\* through every crash, failed write and checkpoint, until a reset is published or
\* its gone session is collected; only late reports can be rejected.
THEOREM AcknowledgedIsDurable == Spec => []Durable
<1>1. Inv /\ ContentInv => Durable
  BY DEF ContentInv
<1> QED
  BY <1>1, ContentInvariance, PTL

\* What the tracker serves after consuming the journal is what a restart would
\* recover, but for reports it rejected and tombstones it expired (drainLocked).
THEOREM OwnerAgreement == Spec => []OwnerAgrees
<1>1. Inv /\ ContentInv => OwnerAgrees
  BY DEF ContentInv, Agreement, Agree, OwnerAgrees
<1> QED
  BY <1>1, ContentInvariance, PTL

\* What reset, GC or a checkpoint took out of the files returns neither from old
\* journal entries nor from the memory of a live tracker (resetJournalSnapshot,
\* journalBaseline).
THEOREM NothingReturns == Spec => []NotResurrected
<1>1. Inv /\ ContentInv => NotResurrected
  BY DEF ContentInv, Fresh, Agreement, Agree, NotResurrected
<1> QED
  BY <1>1, ContentInvariance, PTL

\* What a reader or a restarted tracker loads (foldJournal), and what the tracker has after
\* it replayed the journal (replayJournal), is what the loop of the code arrives at: Fold,
\* in which Recovered and Consumed are stated, is its closed form. The loop needs the
\* journal's numbers to increase, and they do in every reachable state.
THEOREM LoopsFold == Spec => []FoldAgrees
<1>1. Inv => FoldAgrees
  <2> SUFFICES ASSUME Inv PROVE FoldAgrees
    OBVIOUS
  <2>1. /\ snap \in Content /\ Baseline \in Content
        /\ journal \in Seq(Entry) /\ Increasing(journal)
    BY RecoveredType DEF Inv, TypeOK, Numbering
  <2> QED
    BY <2>1, FoldIsLoop DEF FoldAgrees
<1> QED
  BY <1>1, Invariance, PTL

\* A report that the tracker rejected while it consumed the journal is not in the files
\* afterwards, and comes into them neither from an entry left behind by a failed
\* checkpoint nor from a memory or a candidate of before (consumeJournalLocked: the
\* checkpoint takes the entry's place).
THEOREM RefusalsHold == Spec => []RefusedStaysOut
<1>1. Init => Inv /\ ContentInv /\ RefusedInv
  BY InvInit, ContentInit, RefusedInit
<1>2. Inv /\ ContentInv /\ RefusedInv /\ [Next]_vars => (Inv /\ ContentInv /\ RefusedInv)'
  BY InvStep, AgreementStep, FreshStep, DurableStep, RefusedStep DEF ContentInv
<1>3. Inv /\ ContentInv /\ RefusedInv => RefusedStaysOut
  BY ConsumedPlaced DEF Inv, Placed, RefusedStaysOut
<1> QED
  BY <1>1, <1>2, <1>3, PTL DEF Spec

\* Every step of the files is a commit, a withdrawal or a reset of the abstract
\* registry, or leaves it alone: with locks, sequence numbers, two files, crashes
\* and failed writes, readers see an atomic set of reports.
THEOREM FilesImplementRegistry == Spec => ImplementsRegistry
<1>1. Init => Registry!Init
  BY EmptyAtFirst DEF Init, Registry!Init
<1>2. Inv /\ ContentInv /\ [Next]_vars => [Registry!Next]_(Registry!vars)
  <2> SUFFICES ASSUME Inv, ContentInv, [Next]_vars PROVE Registry!Next
    OBVIOUS
  <2>0. /\ removed' = removed \cup (Recovered.ids \ Recovered'.ids)
        /\ Recovered'.ids \subseteq Reports /\ Fresh /\ Agreement
    <3>1. TypeOK'
      BY InvStep DEF Inv
    <3>2. Recovered' \in Content
      BY <3>1, FoldType DEF TypeOK, Recovered
    <3> QED
      BY <3>2, HistoryGrows DEF Content, ContentInv
  <2>1. CASE Keeps
    <3> DEFINE xs == Recovered.ids \ Recovered'.ids
    <3>1. xs \in SUBSET (Late \cup Tombs)
      BY <2>1 DEF Keeps
    <3>2. Registry!Withdraw(xs)
      BY <2>0, <2>1 DEF Keeps, Registry!Withdraw, Registry!Remove
    <3> QED
      BY <3>1, <3>2 DEF Registry!Next
  <2>2. ASSUME NEW p \in Procs, Gains(p) PROVE Registry!Next
    <3> DEFINE xs == Recovered'.ids \ Recovered.ids
    <3>1. xs \in SUBSET Reports /\ removed' = removed
      BY <2>0, <2>2 DEF Gains
    <3>2. entry[p].ids \cap (Recovered.ids \cup removed) = {}
      BY <2>0, <2>2 DEF Gains, Fresh
    <3>3. Registry!Commit(xs)
      BY <2>2, <3>1, <3>2 DEF Gains, Registry!Commit
    <3> QED
      BY <3>1, <3>3 DEF Registry!Next
  <2>3. CASE Empties
    BY <2>0, <2>3 DEF Empties, Registry!Reset, Registry!Remove, Registry!Next
  <2> QED
    BY <2>0, <2>1, <2>2, <2>3, ContentStep
<1> QED
  BY <1>1, <1>2, ContentInvariance, PTL DEF Spec, ImplementsRegistry, Registry!Spec
=============================================================================
