------------------------------ MODULE FileWatch ------------------------------
(***************************************************************************)
(* FileStore.Watch (pkg/registry/watch.go): one goroutine selects between  *)
(* file events, a debounce timer, a reconcile ticker and watcher errors,   *)
(* and yields filtered snapshots. The store directory may be removed and   *)
(* made again while it runs, the kernel's event queue may overflow, a read *)
(* may fail, and the files change between any two of its steps.            *)
(***************************************************************************)
EXTENDS Naturals, Sequences

CONSTANTS
  Values,          (* what the store files may hold; 0 is the empty store  *)
  Shown,           (* the values that the filter lets through              *)
  ParentWatched,   (* addFileStoreWatchPaths could watch the parent        *)
  QueueMax,        (* bound: events the kernel keeps                       *)
  MaxChanges,      (* bound: changes of files and directory                *)
  MaxFaults        (* bound: failed reads                                  *)

FileWatchAssumption ==
  /\ Values \subseteq Nat /\ 0 \in Values /\ Shown \subseteq Values
  /\ ParentWatched \in BOOLEAN /\ QueueMax \in Nat \ {0}
  /\ MaxChanges \in Nat /\ MaxFaults \in Nat

VARIABLES
  dir,        (* the directory at the path: its number, 0 when missing     *)
  made,       (* how many directories were made at the path                *)
  content,    (* what a load of the store returns                          *)
  changes,    (* how often content or directory changed                    *)
  faults,     (* how many reads failed                                     *)
  watched,    (* the directory whose events arrive, 0 for none             *)
  queue,      (* events not yet received                                   *)
  overflow,   (* fsnotify has an error to report                           *)
  debounce,   (* the debounce timer runs                                   *)
  pc,         (* "add", "select", "scan", "read" or "stopped"              *)
  baseline,   (* the last snapshot read                                    *)
  have,       (* haveBaseline                                              *)
  clean,      (* the last scan ended in a snapshot                         *)
  shown       (* the last result yielded: sessions, initial, error         *)

files == <<dir, made, content, changes>>
vars == <<dir, made, content, changes, faults, watched, queue, overflow, debounce, pc,
          baseline, have, clean, shown>>

\* watchSnapshot: load, then FilterSessions. A missing file is an empty store.
View(c) == IF c \in Shown THEN c ELSE 0

Init ==
  /\ dir = 1 /\ made = 1 /\ content \in Values /\ changes = 0 /\ faults = 0
  /\ watched = 0 /\ queue = << >> /\ overflow = FALSE /\ debounce = FALSE
  /\ pc = "add" /\ baseline = 0 /\ have = FALSE /\ clean = FALSE
  /\ shown = [sessions |-> 0, initial |-> FALSE, err |-> FALSE, count |-> 0]

-----------------------------------------------------------------------------
(* The files, and what the kernel tells of them.                           *)

\* An event that nobody watches for is not made; one too many is lost, which
\* fsnotify reports as an error.
Emit(event, heard) ==
  IF ~heard THEN UNCHANGED <<queue, overflow>>
  ELSE IF Len(queue) < QueueMax THEN queue' = Append(queue, event) /\ UNCHANGED overflow
  ELSE overflow' = TRUE /\ UNCHANGED queue

Quiet == <<faults, debounce, pc, baseline, have, clean, shown>>

\* A writer replaces the snapshot or appends to the journal.
Write(v) ==
  /\ changes < MaxChanges /\ changes' = changes + 1
  /\ dir # 0 /\ v # content /\ content' = v
  /\ Emit("target", watched = dir)
  /\ UNCHANGED <<dir, made, watched>> /\ UNCHANGED Quiet

\* The directory is removed or renamed away, with the files in it.
RemoveDirectory ==
  /\ changes < MaxChanges /\ changes' = changes + 1
  /\ dir # 0 /\ dir' = 0 /\ content' = 0
  /\ Emit("gone", ParentWatched \/ watched = dir)
  /\ UNCHANGED <<made, watched>> /\ UNCHANGED Quiet

\* A directory of that name appears, with a store in it already.
MakeDirectory(v) ==
  /\ changes < MaxChanges /\ changes' = changes + 1
  /\ dir = 0 /\ dir' = made + 1 /\ made' = made + 1 /\ content' = v
  /\ Emit("created", ParentWatched)
  /\ UNCHANGED watched /\ UNCHANGED Quiet

-----------------------------------------------------------------------------
(* The watching goroutine.                                                 *)

\* addFileStoreWatchPaths; without the directory Watch returns an error.
AddWatchPaths ==
  /\ pc = "add"
  /\ pc' = IF dir = 0 THEN "stopped" ELSE "scan"
  /\ watched' = dir
  /\ UNCHANGED files
  /\ UNCHANGED <<faults, queue, overflow, debounce, baseline, have, clean, shown>>

\* Mutant: the removal of the directory is not one of the events that scan.
IsWatchEventOfTarget(event) == event # "gone"

\* isFileStoreWatchEvent; events of other files are left out.
IsWatchEvent(event) == event \in {"target", "gone", "created"}

\* step, an event: a removal takes the watch away, whichever directory it is on
\* by now, and every event of the store starts the debounce timer anew.
ReceiveEvent ==
  /\ pc = "select" /\ queue # << >>
  /\ queue' = Tail(queue)
  /\ watched' = IF Head(queue) = "gone" THEN 0 ELSE watched
  /\ debounce' = (debounce \/ IsWatchEvent(Head(queue)))
  /\ UNCHANGED files
  /\ UNCHANGED <<faults, overflow, pc, baseline, have, clean, shown>>

\* yieldError: the most recent snapshot, with the error.
YieldError == shown' = [sessions |-> baseline, initial |-> FALSE, err |-> TRUE, count |-> shown.count]

\* step, an event: the watch of a directory that is gone cannot be removed. The error is
\* reported and the store scanned at once; the timer is not started.
RemoveFails ==
  /\ pc = "select" /\ queue # << >> /\ Head(queue) = "gone" /\ watched # 0
  /\ faults < MaxFaults /\ faults' = faults + 1
  /\ queue' = Tail(queue) /\ watched' \in {0, watched} /\ pc' = "scan" /\ YieldError
  /\ UNCHANGED files
  /\ UNCHANGED <<overflow, debounce, baseline, have, clean>>

\* step, the debounce timer.
Debounced ==
  /\ pc = "select" /\ debounce
  /\ debounce' = FALSE /\ pc' = "scan"
  /\ UNCHANGED files
  /\ UNCHANGED <<faults, watched, queue, overflow, baseline, have, clean, shown>>

\* step, the reconcile ticker.
Reconcile ==
  /\ pc = "select" /\ pc' = "scan"
  /\ UNCHANGED files
  /\ UNCHANGED <<faults, watched, queue, overflow, debounce, baseline, have, clean, shown>>

\* step, an error of the watcher (handleWatcherError): report it, then scan.
WatcherError ==
  /\ pc = "select" /\ overflow
  /\ overflow' = FALSE /\ pc' = "scan" /\ YieldError
  /\ UNCHANGED files
  /\ UNCHANGED <<faults, watched, queue, debounce, baseline, have, clean>>

\* ensureDirectoryWatch: watcher.Add of the directory that is there now.
EnsureDirectoryWatch == IF dir = 0 THEN watched ELSE dir

\* scan, first half.
ScanEnsure ==
  /\ pc = "scan" /\ pc' = "read"
  /\ watched' = EnsureDirectoryWatch
  /\ UNCHANGED files
  /\ UNCHANGED <<faults, queue, overflow, debounce, baseline, have, clean, shown>>

\* Mutant: the sessions are compared before the filter is applied.
IsUnchangedUnfiltered(view) == have /\ baseline = content

\* watchSessionsEqual with the baseline.
IsUnchanged(view) == have /\ baseline = view

\* scan, second half: yield what differs from the baseline.
ScanRead ==
  /\ pc = "read" /\ pc' = "select"
  /\ LET view == View(content)
     IN  /\ baseline' = view /\ have' = TRUE /\ clean' = TRUE
         /\ shown' = IF IsUnchanged(view) THEN shown
                     ELSE [sessions |-> view, initial |-> ~have, err |-> FALSE,
                           count |-> shown.count + 1]
  /\ UNCHANGED files
  /\ UNCHANGED <<faults, watched, queue, overflow, debounce>>

\* scan, second half, when stat or load fail: the baseline stays.
ScanFails ==
  /\ pc = "read" /\ pc' = "select"
  /\ faults < MaxFaults /\ faults' = faults + 1 /\ clean' = FALSE /\ YieldError
  /\ UNCHANGED files
  /\ UNCHANGED <<watched, queue, overflow, debounce, baseline, have>>

\* The context ends, or the callback returns an error.
Cancel ==
  /\ pc \in {"select", "scan", "read"} /\ pc' = "stopped"
  /\ UNCHANGED files
  /\ UNCHANGED <<faults, watched, queue, overflow, debounce, baseline, have, clean, shown>>

Environment ==
  \/ \E v \in Values : Write(v) \/ MakeDirectory(v)
  \/ RemoveDirectory

Watcher ==
  \/ AddWatchPaths \/ ReceiveEvent \/ RemoveFails \/ Debounced \/ WatcherError
  \/ ScanEnsure \/ ScanRead \/ ScanFails

Next == Environment \/ Watcher \/ Reconcile \/ Cancel

Spec == Init /\ [][Next]_vars

\* The goroutine runs, the timers fire: a select with several cases ready takes
\* each of them in the end.
Fairness ==
  /\ WF_vars(AddWatchPaths) /\ SF_vars(ReceiveEvent) /\ SF_vars(Debounced)
  /\ SF_vars(WatcherError) /\ WF_vars(ScanEnsure) /\ WF_vars(ScanRead)

\* Without the ticker, to see what the events alone guarantee.
EventSpec == Init /\ [][Environment \/ Watcher \/ Cancel]_vars /\ Fairness

FairSpec == Spec /\ Fairness /\ SF_vars(Reconcile)

-----------------------------------------------------------------------------
(* Properties                                                              *)

\* The watch keeps to its types, and counts directories and changes.
TypeOK ==
  /\ dir \in 0..made /\ made \in 1..MaxChanges + 1 /\ content \in Values
  /\ changes \in 0..MaxChanges /\ faults \in 0..MaxFaults /\ watched \in 0..made
  /\ queue \in Seq({"target", "gone", "created"}) /\ Len(queue) <= QueueMax
  /\ overflow \in BOOLEAN /\ debounce \in BOOLEAN
  /\ pc \in {"add", "select", "scan", "read", "stopped"}
  /\ baseline \in Values /\ have \in BOOLEAN /\ clean \in BOOLEAN
  /\ shown.sessions \in Values /\ shown.count \in Nat

\* When the goroutine has nothing left to receive and its last scan succeeded, it
\* shows the store as it is, however writes, removals and new directories fell
\* between its steps: Watch "observes the store directory before the initial scan
\* and keeps its parent watched so atomic replacement and directory recreation
\* remain visible". Where the parent could not be watched this needs a directory that
\* is watched; without one only the ticker notices what comes and goes.
NothingMissed ==
  /\ pc = "select" /\ queue = << >> /\ ~overflow /\ ~debounce /\ clean
  /\ (ParentWatched \/ (dir # 0 /\ watched = dir))
  => baseline = View(content)

\* The consumer always holds the baseline, through errors too, and the first
\* successful snapshot is the one marked initial.
ConsumerHoldsBaseline ==
  /\ have => shown.sessions = baseline
  /\ shown.initial => shown.count = 1

\* Two snapshots in a row differ: a change that the filter hides, or a scan that
\* finds nothing new, yields nothing.
SnapshotsDiffer ==
  shown'.count > shown.count => shown.count = 0 \/ shown'.sessions # baseline

\* The last change of the store is shown in the end, unless the watch is stopped.
LastChangeShown == <>[](pc = "stopped" \/ (have /\ shown.sessions = View(content)))
=============================================================================
