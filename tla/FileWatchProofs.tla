--------------------------- MODULE FileWatchProofs ---------------------------
(***************************************************************************)
(* Theorems about FileWatch, for any values, filter, length of the event   *)
(* queue, number of changes and of failed reads, with the parent directory *)
(* watched or not.                                                         *)
(***************************************************************************)
EXTENDS FileWatch, TLAPS

Events == {"target", "gone", "created"}
Phases == {"add", "select", "scan", "read", "stopped"}
Results == [sessions : Values, initial : BOOLEAN, err : BOOLEAN, count : Nat]

-----------------------------------------------------------------------------
(* The inductive invariant.                                                *)

WatchIsSound ==
  /\ dir \in 0..made /\ made \in 1..changes + 1 /\ content \in Values
  /\ changes \in 0..MaxChanges /\ faults \in 0..MaxFaults /\ watched \in 0..made
  /\ queue \in Seq(Events) /\ Len(queue) <= QueueMax
  /\ overflow \in BOOLEAN /\ debounce \in BOOLEAN /\ pc \in Phases
  /\ baseline \in Values /\ have \in BOOLEAN /\ clean \in BOOLEAN /\ shown \in Results

\* A scan is due: something is to be received, or the timer runs, or it has begun.
ScanIsDue == pc \in {"add", "scan"} \/ queue # << >> \/ overflow \/ debounce

\* The kernel will tell of the next change: of writes when the directory is watched, of a
\* new directory when the parent is.
Told ==
  /\ dir # 0 => watched = dir
  /\ ParentWatched \/ dir # 0

\* What was missed will be scanned. Where the parent is watched, a directory is watched
\* or about to be; and the last scan saw what is there or a later one is due.
NothingIsMissed ==
  /\ ParentWatched /\ ~ScanIsDue /\ pc # "stopped" => (dir # 0 => watched = dir)
  /\ pc = "select" /\ clean /\ ~ScanIsDue /\ Told => baseline = View(content)

\* The consumer was shown the baseline, as the initial snapshot if it is the first.
BaselineIsShown ==
  /\ clean => have
  /\ have => shown.sessions = baseline /\ shown.count > 0
  /\ ~have => shown.count = 0 /\ ~shown.initial
  /\ shown.initial => shown.count = 1

WatchInv == WatchIsSound /\ NothingIsMissed /\ BaselineIsShown
-----------------------------------------------------------------------------
(* Steps.                                                                  *)

\* What the filter leaves is a value, or the empty store.
LEMMA ViewIsValue ==
  ASSUME FileWatchAssumption, NEW c \in Values
  PROVE  View(c) \in Values
BY DEF FileWatchAssumption, View

\* An event that is heard is kept in the queue or reported as lost.
LEMMA EmitFacts ==
  ASSUME FileWatchAssumption, WatchIsSound, NEW event \in Events, NEW heard \in BOOLEAN,
         Emit(event, heard)
  PROVE  /\ queue' \in Seq(Events) /\ Len(queue') <= QueueMax /\ overflow' \in BOOLEAN
         /\ queue # << >> => queue' # << >>
         /\ overflow => overflow'
         /\ heard => queue' # << >> \/ overflow'
<1>1. queue \in Seq(Events) /\ Len(queue) <= QueueMax /\ overflow \in BOOLEAN /\ QueueMax \in Nat
  BY DEF WatchIsSound, FileWatchAssumption
<1>2. CASE ~heard
  BY <1>1, <1>2 DEF Emit
<1>3. CASE heard /\ Len(queue) < QueueMax
  <2>1. queue' = Append(queue, event) /\ overflow' = overflow
    BY <1>3 DEF Emit
  <2>2. queue' \in Seq(Events) /\ Len(queue') = Len(queue) + 1 /\ queue' # << >>
    BY <1>1, <2>1
  <2> QED
    BY <1>1, <1>3, <2>1, <2>2
<1>4. CASE heard /\ ~(Len(queue) < QueueMax)
  BY <1>1, <1>4 DEF Emit
<1> QED
  BY <1>2, <1>3, <1>4

\* The environment changes files and directory, and leaves the goroutine alone.
LEMMA EnvironmentStep ==
  ASSUME FileWatchAssumption, WatchInv, Environment
  PROVE  WatchInv'
<1>h. /\ dir \in 0..made /\ made \in 1..changes + 1 /\ content \in Values
      /\ changes \in 0..MaxChanges /\ watched \in 0..made /\ changes \in Nat /\ made \in Nat
      /\ 0 \in Values /\ MaxChanges \in Nat /\ WatchIsSound /\ NothingIsMissed /\ BaselineIsShown
  BY DEF WatchInv, WatchIsSound, FileWatchAssumption
<1>1. /\ UNCHANGED <<faults, debounce, pc, baseline, have, clean, shown, watched>>
      /\ changes < MaxChanges /\ changes' = changes + 1
  BY DEF Environment, Write, RemoveDirectory, MakeDirectory, Quiet
<1>2. BaselineIsShown'
  BY <1>h, <1>1 DEF BaselineIsShown
<1>3. ASSUME NEW event \in Events, NEW heard \in BOOLEAN, Emit(event, heard),
             dir' \in 0..made', made' \in made..made + 1, content' \in Values
      PROVE  WatchIsSound'
  <2>1. queue' \in Seq(Events) /\ Len(queue') <= QueueMax /\ overflow' \in BOOLEAN
    BY <1>h, <1>3, EmitFacts
  <2>2. made' \in 1..changes' + 1 /\ changes' \in 0..MaxChanges /\ watched' \in 0..made'
    BY <1>h, <1>1, <1>3
  <2> QED
    BY <1>h, <1>1, <1>3, <2>1, <2>2 DEF WatchIsSound
<1>4. ASSUME NEW event \in Events, NEW heard \in BOOLEAN, Emit(event, heard)
      PROVE  (ScanIsDue => ScanIsDue') /\ (heard => ScanIsDue')
  BY <1>h, <1>1, <1>4, EmitFacts DEF ScanIsDue
<1>5. CASE \E v \in Values : Write(v)
  <2>1. PICK v \in Values : Write(v)
    BY <1>5
  <2>2. /\ dir # 0 /\ dir' = dir /\ made' = made /\ content' = v
        /\ Emit("target", watched = dir)
    BY <2>1 DEF Write
  <2>3. "target" \in Events /\ (watched = dir) \in BOOLEAN
    BY DEF Events
  <2>4. WatchIsSound'
    <3>1. dir' \in 0..made' /\ made' \in made..made + 1 /\ content' \in Values
      BY <1>h, <2>2
    <3> QED
      BY <1>3, <2>2, <2>3, <3>1
  <2>5. (ScanIsDue => ScanIsDue') /\ (watched = dir => ScanIsDue')
    BY <1>4, <2>2, <2>3
  <2>6. NothingIsMissed'
    BY <1>h, <1>1, <2>2, <2>5 DEF NothingIsMissed, Told
  <2> QED
    BY <1>2, <2>4, <2>6 DEF WatchInv
<1>6. CASE RemoveDirectory
  <2>1. /\ dir' = 0 /\ made' = made /\ content' = 0
        /\ Emit("gone", ParentWatched \/ watched = dir)
    BY <1>6 DEF RemoveDirectory
  <2>2. "gone" \in Events /\ (ParentWatched \/ watched = dir) \in BOOLEAN
    BY DEF Events
  <2>3. WatchIsSound'
    <3>1. dir' \in 0..made' /\ made' \in made..made + 1 /\ content' \in Values
      BY <1>h, <2>1
    <3> QED
      BY <1>3, <2>1, <2>2, <3>1
  <2>4. ParentWatched => ScanIsDue'
    BY <1>4, <2>1, <2>2
  <2>5. NothingIsMissed'
    BY <2>1, <2>4 DEF NothingIsMissed, Told
  <2> QED
    BY <1>2, <2>3, <2>5 DEF WatchInv
<1>7. CASE \E v \in Values : MakeDirectory(v)
  <2>1. PICK v \in Values : MakeDirectory(v)
    BY <1>7
  <2>2. /\ dir' = made + 1 /\ made' = made + 1 /\ content' = v
        /\ Emit("created", ParentWatched)
    BY <2>1 DEF MakeDirectory
  <2>3. "created" \in Events /\ ParentWatched \in BOOLEAN
    BY DEF Events, FileWatchAssumption
  <2>4. WatchIsSound'
    BY <1>h, <1>3, <2>2, <2>3
  <2>5. ParentWatched => ScanIsDue'
    BY <1>4, <2>2, <2>3
  <2>6. ~Told'
    BY <1>h, <1>1, <2>2 DEF Told
  <2>7. NothingIsMissed'
    BY <2>5, <2>6 DEF NothingIsMissed
  <2> QED
    BY <1>2, <2>4, <2>7 DEF WatchInv
<1> QED
  BY <1>5, <1>6, <1>7 DEF Environment

\* The steps of the goroutine keep the shape of the state.
LEMMA WatcherSound ==
  ASSUME FileWatchAssumption, WatchInv, Watcher \/ Reconcile \/ Cancel
  PROVE  WatchIsSound'
<1>h. /\ dir \in 0..made /\ made \in 1..changes + 1 /\ content \in Values /\ made \in Nat
      /\ changes \in 0..MaxChanges /\ faults \in 0..MaxFaults /\ watched \in 0..made
      /\ queue \in Seq(Events) /\ Len(queue) <= QueueMax /\ overflow \in BOOLEAN
      /\ debounce \in BOOLEAN /\ pc \in Phases /\ baseline \in Values /\ have \in BOOLEAN
      /\ clean \in BOOLEAN /\ shown \in Results
      /\ MaxFaults \in Nat /\ QueueMax \in Nat /\ changes \in Nat
  BY DEF WatchInv, WatchIsSound, FileWatchAssumption
<1>1. CASE AddWatchPaths
  BY <1>1, <1>h DEF AddWatchPaths, files, WatchIsSound, Phases
<1>2. CASE ReceiveEvent
  <2>1. queue' \in Seq(Events) /\ Len(queue') <= QueueMax
    BY <1>2, <1>h DEF ReceiveEvent
  <2>2. watched' \in 0..made /\ debounce' \in BOOLEAN
    BY <1>2, <1>h DEF ReceiveEvent
  <2> QED
    BY <1>2, <1>h, <2>1, <2>2 DEF ReceiveEvent, files, WatchIsSound
<1>3. CASE Debounced \/ Reconcile \/ Cancel
  BY <1>3, <1>h DEF Debounced, Reconcile, Cancel, files, WatchIsSound, Phases
<1>4. CASE WatcherError
  <2>1. shown' \in Results
    BY <1>4, <1>h DEF WatcherError, YieldError, Results
  <2> QED
    BY <1>4, <1>h, <2>1 DEF WatcherError, files, WatchIsSound, Phases
<1>5. CASE ScanEnsure
  BY <1>5, <1>h DEF ScanEnsure, EnsureDirectoryWatch, files, WatchIsSound, Phases
<1>6. CASE ScanRead
  <2>1. View(content) \in Values
    BY <1>h, ViewIsValue
  <2>2. shown' \in Results
    BY <1>6, <1>h, <2>1 DEF ScanRead, Results
  <2> QED
    BY <1>6, <1>h, <2>1, <2>2 DEF ScanRead, files, WatchIsSound, Phases
<1>7. CASE ScanFails
  <2>1. shown' \in Results
    BY <1>7, <1>h DEF ScanFails, YieldError, Results
  <2>2. faults' \in 0..MaxFaults
    BY <1>7, <1>h DEF ScanFails
  <2> QED
    BY <1>7, <1>h, <2>1, <2>2 DEF ScanFails, files, WatchIsSound, Phases
<1>8. CASE RemoveFails
  <2>1. queue' \in Seq(Events) /\ Len(queue') <= QueueMax
    BY <1>8, <1>h DEF RemoveFails
  <2>2. watched' \in 0..made /\ faults' \in 0..MaxFaults
    BY <1>8, <1>h DEF RemoveFails
  <2>3. shown' \in Results
    BY <1>8, <1>h DEF RemoveFails, YieldError, Results
  <2> QED
    BY <1>8, <1>h, <2>1, <2>2, <2>3 DEF RemoveFails, files, WatchIsSound, Phases
<1> QED
  BY <1>1, <1>2, <1>3, <1>4, <1>5, <1>6, <1>7, <1>8 DEF Watcher

\* A step of the goroutine that leaves the event or the timer behind scans afterwards.
LEMMA WatcherMisses ==
  ASSUME FileWatchAssumption, WatchInv, Watcher \/ Reconcile \/ Cancel
  PROVE  NothingIsMissed'
<1>h. WatchIsSound /\ NothingIsMissed /\ queue \in Seq(Events)
  BY DEF WatchInv, WatchIsSound
<1>1. dir' = dir /\ content' = content
  BY DEF Watcher, Reconcile, Cancel, AddWatchPaths, ReceiveEvent, Debounced, WatcherError,
         RemoveFails, ScanEnsure, ScanRead, ScanFails, files
<1>2. CASE AddWatchPaths
  BY <1>2 DEF AddWatchPaths, NothingIsMissed, ScanIsDue
<1>3. CASE ReceiveEvent
  <2>1. Head(queue) \in Events
    BY <1>3, <1>h DEF ReceiveEvent
  <2>2. debounce'
    BY <1>3, <2>1 DEF ReceiveEvent, IsWatchEvent, Events
  <2> QED
    BY <2>2 DEF NothingIsMissed, ScanIsDue
<1>4. CASE Debounced \/ Reconcile \/ WatcherError \/ RemoveFails
  BY <1>4 DEF Debounced, Reconcile, WatcherError, RemoveFails, NothingIsMissed, ScanIsDue
<1>5. CASE ScanEnsure
  BY <1>1, <1>5 DEF ScanEnsure, EnsureDirectoryWatch, NothingIsMissed
<1>6. CASE ScanRead
  <2>1. ScanIsDue' = ScanIsDue /\ watched' = watched /\ pc = "read" /\ baseline' = View(content)
    BY <1>6 DEF ScanRead, ScanIsDue
  <2>2. View(content)' = View(content)
    BY <1>1 DEF View
  <2> QED
    BY <1>h, <1>1, <2>1, <2>2 DEF NothingIsMissed
<1>7. CASE ScanFails
  <2>1. ScanIsDue' = ScanIsDue /\ watched' = watched /\ pc = "read" /\ ~clean'
    BY <1>7 DEF ScanFails, ScanIsDue
  <2> QED
    BY <1>h, <1>1, <2>1 DEF NothingIsMissed
<1>8. CASE Cancel
  BY <1>8 DEF Cancel, NothingIsMissed
<1> QED
  BY <1>2, <1>3, <1>4, <1>5, <1>6, <1>7, <1>8 DEF Watcher

\* Only a scan moves the baseline, and it shows what it moves it to.
LEMMA WatcherShows ==
  ASSUME FileWatchAssumption, WatchInv, Watcher \/ Reconcile \/ Cancel
  PROVE  BaselineIsShown'
<1>h. BaselineIsShown /\ shown \in Results /\ shown.count \in Nat
  BY DEF WatchInv, WatchIsSound, Results
<1>1. CASE AddWatchPaths \/ ReceiveEvent \/ Debounced \/ ScanEnsure \/ Reconcile \/ Cancel
  <2>1. UNCHANGED <<baseline, have, clean, shown>>
    BY <1>1 DEF AddWatchPaths, ReceiveEvent, Debounced, ScanEnsure, Reconcile, Cancel
  <2> QED
    BY <1>h, <2>1 DEF BaselineIsShown
<1>2. CASE WatcherError \/ RemoveFails \/ ScanFails
  <2>1. /\ UNCHANGED <<baseline, have>> /\ (clean' => clean)
        /\ shown'.sessions = baseline /\ ~shown'.initial /\ shown'.count = shown.count
    BY <1>2 DEF WatcherError, RemoveFails, ScanFails, YieldError
  <2> QED
    BY <1>h, <2>1 DEF BaselineIsShown
<1>3. CASE ScanRead
  <2>1. have' /\ clean' /\ baseline' = View(content)
    BY <1>3 DEF ScanRead
  <2>2. CASE IsUnchanged(View(content))
    <3>1. shown' = shown /\ have /\ baseline = View(content)
      BY <1>3, <2>2 DEF ScanRead, IsUnchanged
    <3> QED
      BY <1>h, <2>1, <3>1 DEF BaselineIsShown
  <2>3. CASE ~IsUnchanged(View(content))
    <3>1. /\ shown'.sessions = View(content) /\ shown'.initial = ~have
          /\ shown'.count = shown.count + 1
      BY <1>3, <2>3 DEF ScanRead
    <3>2. shown'.count > 0 /\ (~have => shown'.count = 1)
      BY <1>h, <3>1 DEF BaselineIsShown
    <3>3. shown'.initial => ~have
      BY <3>1
    <3> QED
      BY <2>1, <3>1, <3>2, <3>3 DEF BaselineIsShown
  <2> QED
    BY <2>2, <2>3
<1> QED
  BY <1>1, <1>2, <1>3 DEF Watcher

\* The invariant of FileWatch.
THEOREM WatchInvariance ==
  ASSUME FileWatchAssumption
  PROVE  Spec => []WatchInv
<1>1. Init => WatchInv
  <2> SUFFICES ASSUME Init PROVE WatchInv
    OBVIOUS
  <2>1. WatchIsSound
    <3>1. << >> \in Seq(Events) /\ Len(<< >>) = 0
      OBVIOUS
    <3> QED
      <4>1. shown \in Results /\ baseline \in Values
        BY DEF Init, Results, FileWatchAssumption
      <4>2. Len(queue) <= QueueMax /\ queue \in Seq(Events)
        BY <3>1 DEF Init, FileWatchAssumption
      <4> QED
        <5>1. dir \in 0..made /\ made \in 1..changes + 1 /\ watched \in 0..made
          BY DEF Init
        <5>2. changes \in 0..MaxChanges /\ faults \in 0..MaxFaults
          BY DEF Init, FileWatchAssumption
        <5>3. /\ content \in Values /\ overflow \in BOOLEAN /\ debounce \in BOOLEAN
              /\ pc \in Phases /\ have \in BOOLEAN /\ clean \in BOOLEAN
          BY DEF Init, Phases
        <5> QED
          BY <4>1, <4>2, <5>1, <5>2, <5>3 DEF WatchIsSound
  <2>2. NothingIsMissed /\ BaselineIsShown
    BY DEF Init, NothingIsMissed, ScanIsDue, BaselineIsShown
  <2> QED
    BY <2>1, <2>2 DEF WatchInv
<1>2. WatchInv /\ [Next]_vars => WatchInv'
  <2>1. ASSUME WatchInv, Next PROVE WatchInv'
    BY <2>1, EnvironmentStep, WatcherSound, WatcherMisses, WatcherShows DEF Next, WatchInv
  <2>2. ASSUME WatchInv, UNCHANGED vars PROVE WatchInv'
    <3>1. WatchIsSound'
      BY <2>2 DEF WatchInv, vars, WatchIsSound
    <3>2. NothingIsMissed' /\ BaselineIsShown'
      BY <2>2 DEF WatchInv, vars, NothingIsMissed, ScanIsDue, Told, View, BaselineIsShown
    <3> QED
      BY <3>1, <3>2 DEF WatchInv
  <2> QED
    BY <2>1, <2>2
<1> QED
  BY <1>1, <1>2, PTL DEF Spec

-----------------------------------------------------------------------------
(* What the consumer of Watch sees.                                        *)

\* The watch keeps to its types; directories and failed reads stay within their bounds, and
\* events within what the kernel keeps.
THEOREM WatchTypes ==
  ASSUME FileWatchAssumption
  PROVE  Spec => []TypeOK
<1>1. WatchInv => TypeOK
  <2> SUFFICES ASSUME WatchInv PROVE TypeOK
    OBVIOUS
  <2>1. made \in 1..MaxChanges + 1
    BY DEF WatchInv, WatchIsSound, FileWatchAssumption
  <2> QED
    BY <2>1 DEF WatchInv, WatchIsSound, TypeOK, Events, Phases, Results
<1> QED
  BY <1>1, WatchInvariance, PTL

\* When nothing is left to receive and the last scan succeeded, the baseline is the store as
\* it is: also after events were lost, and after the directory was removed and made again
\* between any two steps of the goroutine.
THEOREM ChangesAreSeen ==
  ASSUME FileWatchAssumption
  PROVE  Spec => []NothingMissed
<1>1. WatchInv => NothingMissed
  BY DEF WatchInv, NothingIsMissed, ScanIsDue, Told, NothingMissed
<1> QED
  BY <1>1, WatchInvariance, PTL

\* The consumer has been given the baseline, through errors too, and only the first
\* snapshot is marked initial.
THEOREM BaselineIsHeld ==
  ASSUME FileWatchAssumption
  PROVE  Spec => []ConsumerHoldsBaseline
<1>1. WatchInv => ConsumerHoldsBaseline
  BY DEF WatchInv, BaselineIsShown, ConsumerHoldsBaseline
<1> QED
  BY <1>1, WatchInvariance, PTL

\* No two snapshots in a row are the same, whatever the filter hides.
THEOREM SnapshotsAreNews ==
  ASSUME FileWatchAssumption
  PROVE  Spec => [][SnapshotsDiffer]_vars
<1>1. WatchInv /\ [Next]_vars => [SnapshotsDiffer]_vars
  <2> SUFFICES ASSUME WatchInv, Next PROVE SnapshotsDiffer
    OBVIOUS
  <2>1. shown \in Results /\ shown.count \in Nat /\ (~have => shown.count = 0)
    BY DEF WatchInv, WatchIsSound, Results, BaselineIsShown
  <2>2. CASE ScanRead
    <3>1. CASE IsUnchanged(View(content))
      <4>1. shown' = shown
        BY <2>2, <3>1 DEF ScanRead
      <4> QED
        BY <2>1, <4>1 DEF SnapshotsDiffer
    <3>2. CASE ~IsUnchanged(View(content))
      <4>1. shown'.sessions = View(content) /\ (~have \/ baseline # View(content))
        BY <2>2, <3>2 DEF ScanRead, IsUnchanged
      <4> QED
        BY <2>1, <4>1 DEF SnapshotsDiffer
    <3> QED
      BY <3>1, <3>2
  <2>3. CASE ~ScanRead
    <3>1. shown'.count = shown.count
      BY <2>3 DEF Next, Environment, Write, RemoveDirectory, MakeDirectory, Quiet, Watcher,
                  AddWatchPaths, ReceiveEvent, RemoveFails, Debounced, Reconcile, Cancel, WatcherError,
                  ScanEnsure, ScanFails, YieldError
    <3> QED
      BY <2>1, <3>1 DEF SnapshotsDiffer
  <2> QED
    BY <2>2, <2>3
<1> QED
  BY <1>1, WatchInvariance, PTL DEF Spec
=============================================================================
