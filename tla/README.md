# TLA+ models of AHT

AHT (Agent Harness Tracker) keeps a registry of the coding-agent sessions that
run on a machine. Agents report through hooks, an observer scans processes and
terminal screens, a tracker process reduces all of that into sessions, and
clients list sessions or wait for one to reach a state. Around that core are the
installation of hooks and plugins, the tracker's service, the search of
conversation histories, and the tools that test and release aht.

This directory holds TLA+ models of the parts of it that are hard to test, the
TLC runs that check them on small instances, and TLAPS proofs of the most
important results. `PROJECT.json` lists components, runs, mutants, theorems,
hazards and, under `map`, the source lines behind every definition.

Run a check with `tlc -config MCSessions.cfg MCSessions`, a proof with
`tlapm SessionLifecycleProofs.tla`.

1. [Inventory](#1-inventory) 2. [Modules](#2-modules) 3. [Runs](#3-runs)
4. [Fairness](#4-fairness) 5. [Proofs](#5-proofs) 6. [Where the code
disagrees with its words](#6-where-the-code-disagrees-with-its-words)
7. [Limits](#7-limits) 8. [Plan](#8-plan)

## 1. Inventory

| Part | State | Operations | Hard behaviour | Correct when |
|---|---|---|---|---|
| Persistence (`pkg/registry`: journal, journal_read, memory_store, store, lock) | snapshot file, journal file, store lock, owner lock, tracker memory with revisions | fallback append, GC, reset; tracker open, consume, command, refresh, persist, reset, close | several processes, crash between any two writes, failed writes, memory-only evidence | nothing acknowledged is lost, nothing removed returns, memory and files agree |
| Lifecycle reducer (`pkg/registry`: lifecycle, evidence_store, authority, liveness, reducer) | incarnation, liveness, one slot per source | reduce an observation, retire a session | observations late, repeated, reordered; process replacement; sequence clocks | the session says what the newest evidence says, and stays valid |
| Matching and retention (`pkg/registry`: matching, reducer, rules) | sessions by id, ended processes, tombstones | find, merge, retire, expire, GC | two sessions of one process, provisional sessions, atomic batches | one live session per identity and process, no revival of ended processes |
| Validation and details (`pkg/registry`: evidence_validation, state_validation, detail) | details of activities | validate, resolve | combinations that the next load refuses | what the reducer makes is what the store accepts |
| Change feed (`pkg/registry`: changes, watch, memory_store) | revision, change channel; file watcher with debounce | WaitForRevision, Watch | change between check and wait, missed file events | the last change is delivered |
| Broker (`pkg/broker`, `internal/brokerserver`) | connections, slots, subscriptions | request, subscribe, fallback to the journal | lost replies, busy server, shutdown | an acknowledged report is recorded, a hook always returns |
| Client library (`pkg/client`) | candidate, stability timer, stream | Wait, Current, Watch, selectors | timer against queued event, stream replacement, processes that exit meanwhile | a returned state was really stable; the session named is the caller's |
| Observer (`internal/observer`) | tracked processes, candidates, pending screen decisions, health file | scan, confirm, retire, place, read screens | incomplete process tables, failed recording, restarts | the living are not called gone, the dead are |
| Screen detection (`internal/agentstate`, `pkg/detection`) | rules, a cache of manifests | evaluate, inspect, load | edits while loading | the best rule decides; the cache is never stale |
| Harness integrations (`internal/harness`, `internal/cli/report.go`) | none; title cache | hooks to observations | the order of events of a turn, delegated work, compaction | what the registry shows is what the agent does |
| History (`pkg/history`, `internal/cli/history*.go`) | index database, directories, status, guard | refresh, search, open, heal | several processes and builds on one index, transcripts that grow | searches answer exactly; nothing of others is destroyed |
| Installation (`internal/install`) | configuration files of others, plugin directories, registrations | install, upgrade, remove, inspect | kills between renames, edits by others | all or nothing; what is the user's stays |
| Service (`internal/service`) | unit definition, manager | enable, upgrade, disable | failing steps, rollback | commands do what they say |
| Management and CLI (`pkg/manage`, `internal/cli`) | - | doctor, explain, stop, watch, current | state that is old when it is acted on | reports are true, interrupts hit the agent |
| Test provider (`pkg/fakeprovider`, `internal/fakeprovidercli`) | scripts, processes | launch, converse | daemons, interrupts | nothing is left running, replies arrive as written |
| Checker (`internal/registrycheck`) | - | rules of the randomised tests | - | every reachable session passes |
| Release tools (`internal/tools`, `.github/workflows`) | histories, issues, releases | check, merge, sync, publish | reruns, lost replies, races with maintainers | history goes forward; a tag has one tested release |

Hooks and CLI commands call `pkg/broker`, which talks to the tracker over a
socket and falls back to `registry.Journal` on the files when the tracker is
unreachable or its reply is lost. The tracker (`MemoryStore`) consumes what was
journaled before each operation of its own. Both run the same reducer. The
observer feeds sightings, placements and readings into the tracker; clients
subscribe to its revisions or watch the files. The history worker listens to the
same revisions. Installation and service put hooks and the tracker in place;
doctor judges both.

## 2. Modules

| Module | Models |
|---|---|
| `DurableRegistry` | What the files promise: a set of reports that enter once and never come back once they left. |
| `JournalStore` | Snapshot, journal, locks, fallback writers, tracker, crashes and failed writes. Implements `DurableRegistry`. |
| `Lifecycle` | The reducer for one session, as operators. |
| `SessionLifecycle` | A true history of processes opening and closing a session, whose observations reach the reducer in any order, any number of times. |
| `SessionViews` | What `aht info` and the randomised tests' rules make of those sessions. Extends `SessionLifecycle`. |
| `Matching` | The reducer for a registry of sessions: find, merge, retire, expire, batches, against a true history of processes and native sessions. Uses `Lifecycle`. |
| `StoredState` | Validation on the way in and on the way to disk, with details and clocks that run ahead. Uses `Lifecycle`. |
| `Broker` | Server slots, handshakes, hooks with lost replies and their fallback, subscriptions with `WaitForRevision`. |
| `FileWatch` | The loop of `FileStore.Watch`: events, debounce, ticker, a directory that comes and goes. |
| `ClientWait` | `Client.Wait`: candidate, stability timer, change of streams. |
| `CurrentSession` | `aht current`: ancestors through a listing that is not atomic, then the pane. |
| `StopSession` | `aht stop`: references, targets, validations and interrupts that may fail, sessions with and without a known process. |
| `WatchCommand` | `aht watch`: stream, files, and events that must add up. |
| `Observer` | Cycles of the observer with tracked and held processes. Uses `Lifecycle`. |
| `Attribution` | Which process of a chain is the agent, and whose screen a pane shows. |
| `ScreenReading` | Captures, decisions that wait for confirmation, leases. Uses `Lifecycle`. |
| `ScreenRules` | Rules, gates, priorities, `Evaluate` against `Inspect`. |
| `ManifestCache` | The process-wide cache of manifests under concurrent loads and edits. |
| `HarnessHooks` | The event tables of the harnesses, `aht report`, and turns whose hooks go through both to the registry. Uses `Lifecycle`. |
| `TitleCache` | Claude's title: chunked scans that share checkpoints. |
| `HistoryIndex` | One transcript, its index entry and its directory under searches of several processes. |
| `HistoryOpen` | Opening, creating and healing the index by processes of different builds; lock waits; the refresh status. |
| `HistorySearch` | One search: indexed, direct with workers, streamed, of tool text. |
| `HistoryWorker` | The tracker's worker that keeps the index warm, and the guard file. |
| `HookFiles` | aht's hooks inside configuration files of harnesses, in three formats, with trust. |
| `PluginInstall` | Staging, backup, rename, manifest or registration, recovery, rollback. |
| `Doctor` | Status of an integration and its shim; `aht doctor` with fixes beside other copies of aht. |
| `TrackerService` | Definition file and manager: enable, upgrade, disable with rollback, on systemd and launchd. |
| `TrackerHealth` | The health file, the lock, and what `pkg/manage` says of it. |
| `FakeLaunch` | The fake environment: services, tracker, terminal, clean-up of strays. |
| `ProviderConversation` | Wire forms of three protocols, whole and streamed; scripts; a harness in conversation. |
| `ReleaseChecks` | Checks of harness releases, their history, reruns, issue sync. |
| `ReleasePublish` | Gate, draft, publication and clean-up of a tag. |
| `LifecycleProofs` | Lemmas about the reducer, used by `SessionLifecycleProofs` and `MatchingProofs`. |
| `JournalStoreProofs`, `SessionLifecycleProofs`, `MatchingProofs`, `BrokerProofs`, `TrackerHealthProofs`, `FileWatchProofs`, `StopSessionProofs` | Theorems, see 5. |
| `MC...` | Instances for TLC. |

Each component has a module of its own, with its operations as actions and its
properties at the end. An MC module composes the components one run is about:
it declares the variables of all of them, instantiates each in one or more
settings (values of its constants), and the variable `part` says which setting a
behaviour is of. The variables of the others are `"off"`. So one run checks a
family of components side by side, `Next` is a disjunction of theirs, and a
property of the run is a conjunction of properties of the components, each for
the parts it is about; a comment says which. `SettingsAreSound` states the
assumptions of the components for the settings. `MCSessions`
has one set of variables and extends the module instead. Three hold two families:
`MCAgents` tracking and matching (`Tracking.cfg`, `Matching.cfg`), `MCClients` the clients
(`MCClients.cfg`, `FilesShown.cfg`) and the tools (`Tools.cfg`), `MCMachine` history and
installation (`History.cfg`, `Install.cfg`).

The map in `PROJECT.json` names the definitions that stand for a piece of code of their
own. Helpers whose lines lie within those of a mapped definition are not in it again, nor
are the steps of the environment (users, agents, terminals, services), which no code
takes; their comments say what they stand for.

### JournalStore

`snap` and `journal` are the two files, `torn` an incomplete last line; `lock`
and `owner` are `<path>.lock` and `<path>.owner.lock`. `mem`, `unsaved` and
`status` are the tracker's `MemoryStore`: its snapshot, whether
`storageRevision`/`visibleRevision` are past `persistedRevision`, and where it is
between `OpenMemoryStore` and `Close`. `pc`, `entry`, `cand` are the locals of the
critical section a process is in. The registry's content is abstracted to the set
of reports it reflects and `ev`, the number of evidence refreshes: that is what
decides between accepting and rejecting a report that is older than them
(`Late`). `Tombs` are reports that leave a collectable gone session. The history
variables `used`, `acked`, `removed`, `cleared`, `refused` and `ignored` record what
was submitted, acknowledged, taken out of the files, in them when a reset was
published, and rejected; no guard reads them but `used` (a report is submitted once).

| Action | Code |
|---|---|
| `WriterCommand`, `WriterReset` | `Journal.transactLocked` |
| `AppendJournal`, `AppendFails` | `appendJournal`, `writeJournal` |
| `WriteSnapshot`, `TruncateJournal`, their failures | `persistJournalSnapshot` in its two halves |
| `PublishReset`, `PublishResetFails` | `resetJournalSnapshot` |
| `TrackerBegin`, `TruncateRejected` | `consumeJournalLocked`, with the checkpoint of a rejection |
| `TrackerDrain`, `TrackerRefresh`, `TrackerCommand`, `TrackerReset` | reads and the branches of `commandLocked` |
| `TrackerOpen`, `TrackerPersist`, `TrackerClose`, `TrackerReleaseOwner` | `OpenMemoryStoreWithOptions`, `persist`, `Close` |
| `WriterCrash`, `TrackerCrash` | process death: the kernel drops flock locks |

A failed write is modelled by its possible outcomes: no effect, a torn line, or
the full effect with an error returned. A failed rename or directory sync may or
may not have published the file. Power loss with lost unsynced data is not
modelled: the code syncs every file and directory before it goes on.

The fold of a journal is written in closed form (`Fold`) so that it can be proved
about; `FoldAgrees` says that it is what `FoldLoop`, the loop of `foldJournal`,
arrives at in every reachable state.

### Lifecycle, SessionLifecycle and SessionViews

`Decide` is `transitionIncarnation`, rule by rule in its order; `Commit`, `Store`
and `ApplyActivity` are `lifecycleMachine` and `storeObservation`; `Reduce` is
`reduceSession` with the ordering of `applyObservation`; `Retire` is what another
session's report does to this one. Times are numbers, processes are identities or
`NoProc`; working directory, pane, payload and detail decide nothing here and are
left out.

`SessionLifecycle` adds the world. `past` records what was true at each moment:
which process had the session open, which were alive. Every observation that was
true at some moment can be delivered at any later one, again and again, in any
order. So the inputs are what a program can meet, and "late", "duplicated" and
"reordered" are covered together. `Sources`, `Numbered` and `Bare` choose which
integrations an instance is about.

`Matching` and `StoredState` have the same kind of world for several sessions and
for clocks that differ; `Observer`, `ScreenReading` and `HarnessHooks` produce the
observations themselves, from scans, screens and hooks, and hand them to the same
`Reduce`.

### The other components

* State that several processes share is a variable (a file, a database, a lock, a
  process table, a manager); what a process has read of it is in a record of its
  own and is used later, after the steps of others. A step ends where the code
  makes a system call, takes or gives up a lock, waits, or asks a user.
* A failing call is an action or an alternative of one (`Fails`, `Crash`, `Kill`,
  `FailCycle`, `RefreshFails`, `StepFails`, ...), bounded by a constant of that name.
* The environment (agents, users, service managers, GitHub, the kernel) is part of
  each module: what it may do is taken from how the code uses it, and such
  definitions are marked external in `map`.
* Ghost variables and fields (`passed`, `green`, `lost`, `exited`, `lastLive`, ...)
  record history for properties; no guard reads them.

## 3. Runs

| Run | Components and bounds | Shows |
|---|---|---|
| `journal_store` | `JournalStore`: 1 writer, the tracker, 3 reports (plain, late, tombstone), numbers to 3, 1 refresh, 1 fault | durability, no resurrection, agreement of tracker and files, refinement of `DurableRegistry`, memory-only changes are saved in the end |
| `rejection_restart` | the same, 2 reports, no fault | finding 1 |
| `sessions` | `SessionLifecycle` with hooks, with numbered reports, with hooks that cannot name a process: 2 processes, 4 moments; `SessionViews` with screen authority and listings, and for the checker and `aht info`: 2 processes, 3 moments | what a session says of its process is true, whatever arrives in whatever order; starts and exits are heard; checker and `aht info` agree |
| `matching` | `Matching`: 2 processes and 2 identities for 4 moments; all kinds of observation for 3; 2 harnesses in one process for 3 | one live session of an identity and in a process, scans decide, ended processes stay ended |
| `stored_future` | `StoredState` with clocks 1 ahead | finding 2 |
| `tracking` | `Observer`: 2 processes, 7 moments, confirmation after 2, retirement after 2 snapshots, 1 fault, 1 flicker. `Attribution`: all trees of 3 processes with wrappers, of 4 without; 3 processes with 2 panes; 2 with marks. `ScreenReading`: 4 moments, 2 changes, both authorities. `ScreenRules`: screens of 3 lines, 2 looked at. `ManifestCache`: 2 loaders, 4 edits, of a bundled and of a local manifest. `HarnessHooks`: ten harnesses, 9 events, 2 starts | agents are found, placed, read and heard |
| `clients` | `Broker`: 2 hooks, a watcher, a silent client, 2 slots, 1 stop. `ClientWait`: 3 modes, 3 changes, 1 fault. `FileWatch`: 3 changes, 1 fault. `WatchCommand`: 1 session with 2 activities in 2 locations; 2 with filters and 2 identities. `CurrentSession`: 2 processes, 2 sessions, 2 terminals, 3 changes. `StopSession`: 2 panes, 2 processes, 2 changes. `StoredState`: 2 processes for 2 moments, 1 for 3, takeovers with clocks 1 ahead | replies, waits, events and answers are true, and the store accepts what is reduced |
| `file_watch` | `FileWatch` with and without its ticker | the last change is shown |
| `progress` | `Broker`, `ClientWait`, `WatchCommand`, `CurrentSession`, `HistoryOpen`, `HistoryWorker`, `TrackerHealth`, `FakeLaunch`, `ReleasePublish`, smaller | calls end, news arrive |
| `history` | `HistoryIndex`: 2 processes, 3 changes and 2 searches; 2 changes and 3 searches that resume. `HistorySearch`: 2 groups, 2 workers, indexed, direct and streamed, and for tool text with and without the index. `HistoryOpen`: 3 processes of 2 builds, an explicit path and the default cache. `TitleCache`: 2 readers, 3 writes; long lines with 1 reader, 4 writes, 3 reads | answers are exact, caches and other people's files are safe |
| `install` | `HookFiles`: 3 formats, 3 operations, 3 edits; trust with 2. `PluginInstall`: 3 operations with 2 kills and 1 failing call; 4 with 3 kills; registered plugins with 1 of each. `TrackerService`: 2 systems, 2 binaries, 2 commands, 1 fault, 1 upset. `TrackerHealth`: 14 units of time. `Doctor`: every state of the core and of one integration, 2 runs | installs are whole, reports are true, what is others' is kept |
| `tooling` | `FakeLaunch`: 2 services, 1 fork, 1 stop that fails. `ProviderConversation`: three protocols, 4 requests without and 2 with a side conversation. `ReleaseChecks`: 3 runs, with a rerun and rollbacks, and with errors, two sources and a late harness; 2 runs about both or one of two harnesses, which come with the second version of aht. `ReleasePublish`: 2 commits, 2 builds, failing requests, a maintainer's release at any moment; 1 commit with a rerun | tools leave nothing behind and history goes forward |

Deadlock checking is off in every run because numbers, moments, changes and faults
run out; that calls come to an end is what `progress` is for.

**Why the bounds are enough.**

* `journal_store`: one writer suffices because the store lock admits one process at
  a time and writers keep nothing between transactions: a second one is the same
  one again. Three numbers allow an entry before, in and after a checkpoint or
  reset; one fault reaches every crash point. The theorems of section 5 hold for
  any number. One refresh separates evidence in memory from evidence on disk.
* `sessions`: two processes cover a session handed over and handed back; four
  moments cover start, handover, end and restart with an observation of any of
  them delivered last. Screens and views compare two steps, for which three moments
  leave one of each kind. The theorems of section 5 hold for any number of both;
  `ExitIsFinal` does not (7.13).
* `matching`: two sessions of one process and two processes of one session need two
  of each; a third process is needed for one limit only (7.6).
* `tracking`: a retirement needs two snapshots without the process, a confirmation
  two units of time; seven moments hold both with a restart in between. Trees of
  four processes hold a wrapper, an agent, a wrapper and an agent.
* Concurrent caches and indexes (`history`, `tracking`): two processes and one more
  change than a process makes steps between looking and using.
* Installation: a kill in every step, then a second command that recovers and a
  third that finds the outcome. Two faults in one rollback are a finding (6).
* `tooling`: a run, a later run, and the first one again; a run about one of two
  harnesses beside one about both. One failing stop shows that the others are still
  stopped and that it is reported; one fork leaves a group or becomes a daemon.

Every property of a passing run has a mutant in `PROJECT.json`: a changed definition
(a dropped guard, a missing reset, a skipped checkpoint) under which TLC finds the
property violated. The mutated definitions stand before the ones they change and
are marked "Mutant".

## 4. Fairness

Fairness is stated in three places and only where the code's scheduling gives it.

* `JournalStore` (`EventuallySaved`): weak fairness of the steps inside a critical
  section, which no other process can stop. Strong fairness of the start of a
  persist, and of one for which the background interval has passed:
  `RunPersistence` wakes at least every two seconds, and both Go's mutex and the
  polling for the store lock get their turn again and again, although other
  operations take the lock in between. Writers are not assumed to act.
* `file_watch` (`LastChangeShown`): the goroutine runs (weak), and `select` takes
  every case that is ready again and again (strong: event, debounce, error,
  ticker). In the part `events` the ticker has no fairness: the events alone must
  do, where the parent directory could be watched and nothing fails.
* `MCProgress` (`CallsEnd`, `NewsArrive`): weak fairness of each goroutine's next
  step, of timers that are due, and of sockets that deliver. Not assumed: that
  clients of the broker do anything, that the tracker comes back, that agents or
  users act, that faults stop (they are bounded). `ReleasePublish` assumes that a
  workflow goes on and that CI completes. `FakeLaunch` assumes only that the command
  takes its steps; its processes need not obey.

Each component states its own fairness and liveness beside its safety; the MC
modules state them again for the settings they compose, because fairness is about
the steps of the composed system.

## 5. Proofs

A run shows a property on a small instance, a theorem for every value of the
constants: any processes, identities, harnesses, writers, reports, hooks, subscribers, panes and slots, any number of
moments, numbers, changes, faults, crashes, stops and refreshes.

| Module | Theorem | States |
|---|---|---|
| `JournalStoreProofs` | `TypeCorrect` | `Spec => []TypeOK` |
| | `Invariance` | `Spec => []Inv` |
| | `JournalIsContiguous` | `Spec => []JournalContiguous` |
| | `SavedIsOnDisk` | `Spec => []SavedMeansOnDisk` |
| | `ContentInvariance` | `Spec => [](Inv /\ ContentInv)` |
| | `AcknowledgedIsDurable` | `Spec => []Durable` |
| | `OwnerAgreement` | `Spec => []OwnerAgrees` |
| | `NothingReturns` | `Spec => []NotResurrected` |
| | `RefusalsHold` | `Spec => []RefusedStaysOut` |
| | `LoopsFold` | `Spec => []FoldAgrees` |
| | `FilesImplementRegistry` | `Spec => ImplementsRegistry` |
| `SessionLifecycleProofs` | `Invariance` | `Spec => []Inv` |
| | `TypeCorrect` | `Spec => []TypeOK` |
| | `StoredStatesAreValid` | `Spec => []StoredStateValid` |
| | `NoEvidenceFromTheFuture` | `Spec => []NoFutureEvidence` |
| | `ExitsAreHeard` | `Spec => []ExitEnds` |
| | `DecisionsGoForward` | `Spec => DecisionNeverRegresses` |
| | `TruthInvariance` | `Uniform`: `Spec => []TruthInv` |
| | `ActivityIsOfTheProcess` | `Uniform`: `Spec => []ActivityIsOwn` |
| | `GoneSessionsWereLeft` | `Uniform`: `Spec => []GoneIsTrue` |
| | `EvidenceGoesForward` | `Uniform`: `Spec => EvidenceNeverRegresses` |
| | `TruthNeverConflicts` | `Uniform`: `Spec => []OnlyOldNumbersConflict` |
| | `StartsAreHeard` | `EveryReportNames`, `~CatalogCreates`: `Spec => []StartIsHeard` |
| `BrokerProofs` | `BrokerInvariance` | `Spec => []BrokerInv` |
| | `BrokerTypes` | `Spec => []TypeOK` |
| | `SlotsAreReturned` | `Spec => []SlotsAreConnections` |
| | `AcknowledgedReportsAreRecorded` | `Spec => []AcknowledgedIsRecorded` |
| | `RevisionsTellAll` | `Spec => []RevisionTellsAll` |
| | `SubscriptionsGoForward` | `Spec => []StrictlyNewer` |
| `MatchingProofs` | `RegistryIsTyped` | `Spec => []TypeOK` |
| | `IdentitiesAreUnique` | `~Anonymous`: `Spec => []OneLivePerIdentity` |
| | `ProcessesAreExclusive` | `~Anonymous`, `~Bare`: `Spec => []OneLivePerProcess` |
| | `EndedProcessesStayEnded` | `Spec => [][EndedStays]_vars` |
| `TrackerHealthProofs` | `HealthInvariance` | `Spec => []HealthInv` |
| | `HealthTypes` | `Spec => []TypeOK` |
| | `HealthyMeansRecent` | `Spec => []HealthyIsRecent` |
| | `ChangesAreTold` | `Spec => []ToldInTime` |
| | `HealthyStaysHealthy` | `CyclesAreShort`: `Spec => []FreshWhileRunning` |
| `FileWatchProofs` | `WatchInvariance` | `Spec => []WatchInv` |
| | `WatchTypes` | `Spec => []TypeOK` |
| | `ChangesAreSeen` | `Spec => []NothingMissed` |
| | `BaselineIsHeld` | `Spec => []ConsumerHoldsBaseline` |
| | `SnapshotsAreNews` | `Spec => [][SnapshotsDiffer]_vars` |
| `StopSessionProofs` | `StopInvariance` | `Spec => []StopInv` |
| | `StopTypes` | `Spec => []TypeOK` |
| | `InterruptsAreMeant` | `~Outside`: `Spec => []InterruptHitsAgent` |
| | `NobodyIsInterruptedTwice` | `Spec => []InterruptedOnce` |
| | `ReferencesAreResolved` | `Spec => []AllNamedOrNone` |
| | `TurnsAreTaken` | `Spec => []EveryoneGetsATurn` |

### The files

Assumed is only that the tracker is not a writer, that `None` is no process, that
`Late` and `Tombs` are reports and that the bounds are natural numbers.

None of the properties is inductive alone. `Inv` is about locks and numbers:

* `Mutex`: at most one process is inside a transaction, and it holds the lock; the
  owner lock is the tracker's exactly while the tracker is not down.
* `Numbering`: the journal's numbers increase; an entry about to be appended is one
  past what is recovered; a content about to be written carries the highest number;
  the tracker's memory is not ahead of the files.
* `Gapless`: the journal from the snapshot on has no hole. This is what
  `JournalContiguous` says, in a form that survives a snapshot without a truncation.
* `Carried`: the reports a transaction will acknowledge stay in its entry, and are in
  the snapshot a writer is about to publish, late ones excepted.
* `SavedMeansOnDisk` itself.

`ContentInv` is about what the files hold:

* `Agreement`: the memory brought up to date agrees with what a restart recovers, and
  so does every content on its way into memory or the snapshot; a writer's snapshot
  is what it recovered with its command applied; a reset is published before the
  empty snapshot is written.
* `Fresh`: whatever the files hold or have held was submitted, nothing that left them
  is in them, and a report on its way in has not been there.
* `Durable` itself.

The argument. `FilesChange` shows that the files change in four ways only (append,
publish a snapshot, truncate, replace by a reset). For each, `Numbering` tells which
entries a fold skips afterwards. `FoldAppend` is the key lemma about the fold: an
entry numbered above the rest is applied last, so appending it to the journal is
applying it to what was recovered. With it the tracker's view and the restart's view
of the files can be followed side by side: `AgreeApply` shows that one entry applied
to both leaves them in agreement, because what newer evidence rejects is late. So
`ContentStep` can sort every step into three: the files lose at most collectable and
late reports (`Keeps`), gain reports a process had in hand (`Gains`), or are emptied
by a reset (`Empties`). Those are `Withdraw`, `Commit` and `Reset` of
`DurableRegistry`, and durability and non-resurrection follow from them. `Mutex`
makes sure that nothing changed between reading the files and writing them.

`RefusedStaysOut` needs `RefusedInv` beside those two, because a refused report may
still lie in the journal when the checkpoint that follows a rejection, or its
truncation, fails. `Once`: a report is in one entry of the journal, and not in the
entry on its way there. `Placed`: a content (snapshot, memory, candidate) that has a
report of the journal is not behind its entry. `Replaced`, `Holds`, `Apart`: what was
refused is in no content and on its way to none, and an entry that still has it is not
ahead of the snapshot, so that no fold applies it again. TLC checked `RefusedInv` on the
instance of `journal_store` before it was proved.

`Fold` is a closed form of a loop (which entry is the last to add, delete, reset), in
which all of the above is stated. `LoopsFold` ties it to the loop (`Rounds`, a recursive
function): `FoldRound` shows that one entry more is one round more, and `FoldIsLoop` that
a loop which differed from the fold would differ at a first entry, which is no such entry.
This is an argument by least counterexample over the naturals; induction theorems with an operator
for a parameter are not available to the provers.

### The lifecycle of a session

`Inv` is `WorldIsSound` (starts and ends belong to processes, only a running process has
the session open) and `SessionIsSound`: the session is well-formed, presence, state,
activity and flags fit each other (`Sound`), and evidence and transitions are of moments
that have been. The reducer is not a transition system but an operator, so most of the
proof is lemmas about operators, one for each function of the code: what `Decide` may
answer, what `ApplyEvidence`, `NextIncarnation`, `Commit`, `Store` and `ApplyActivity` do to
times, processes and slots (`...Facts`, `...Times`, `...Slots`), up to `ReduceFacts` (`Follows`:
a session that was sound is sound after any observation) and `RetireFacts`. `InboxIsTrue`
turns what the inbox offers into what was true at the observation's moment (`TrueThen`).

`TruthInv` adds what makes a session honest: an activity on display is the bound
process's (`ActivityInProcess`), and every accepted sign of life is evidence
(`LifeIsEvidence`). With the latter an end, exit, takeover or verification that is
applied is no older than the newest sign of life, and was true at its moment, which is
`GoneIsTrue`. It needs `Uniform`: all reports of the integration name their process or none
does. Adapters do the one or the other; a mix breaks the properties (7.1).

`SlotsAreOwn` says that slots hold what was said of the bound process, so that a true
observation of the same time says the same again and no conflict arises
(`TruthNeverConflicts`). `HeardInv` is for starts: a session nobody reported is new
(`Fresh`), a running incarnation was last changed by evidence and a finished one was let
go of no earlier than its evidence (`Dated`), and one that is still starting has a reason
(`Waiting`). So a start of this moment is newer than all that could reject it, or says
the same (`StartsAreHeard`). It needs that hooks name the process, and that listings
create no session: a listing dated at the start would date the creation so that a
delayed end of the same moment hides the start.

### The broker

Assumed is `BrokerAssumption`: reports are numbered by times, bounds are natural numbers,
at least one slot, and nobody is both subscriber and silent. Run `clients` checks that its
setting satisfies it, and the four invariants, as part of `ClientsAreRight`.

`BrokerInv` has five parts. `StateIsSound` and `IdleIsApart` are about shape: only hooks
execute, only subscribers stream, nobody is connected without a tracker or before dialling.
`SlotsAreTaken` strengthens `SlotsAreConnections` by finiteness, so that one connection more
or less is one more or less in the count (`StepSlots`). `ExecutedIsRecorded` says what is
needed between execution and reply: a report is recorded before its hook can be told. It
stays so because registry and journal together never lose a report (`Consuming`), which is
also why a lost reply may be answered by the fallback.

`StreamIsCurrent` relates three things that different goroutines move. Read, inbox and
`sent` of a subscription make one sequence (`Stream`), which goes forward; while the
subscription runs it ends in what was last sent; and that is the current state under the
current revision or an older state under an older one. `RevisionMoves` shows that memory
and revision move together while anyone is subscribed, `StreamMoves` that a step starts a
stream, appends under a newer revision, takes from the front, or leaves it alone. Without
the last conjunct neither property is inductive: a snapshot with a newer revision could
hold an older state. It breaks only at a restart, where revisions start over, and there all
connections are closed.

### The registry of sessions

Assumed is `MatchingAssumption`: processes are finitely many, native identities are no
processes, bounds are natural numbers; run `matching` checks that its settings satisfy it. The lemmas about the reducer for one
session (`LifecycleProofs`) hold for any entry, so this is about what the registry adds:
which entries an observation finds, merges, retires, makes and lets expire.

`MatchInv` says that what happened is recorded well (`PastIsSound`); that every entry is sound,
has a key of an identity or a process, and no time ahead of the clock (`SnapSound`); and

* `Named`, where reports name their session: no two entries have one identity, live or
  not (`Unique`), an entry whose key is an identity has that identity (`KeysName`), and an
  entry without one has only been seen by scans (`Nameless`). `OneLivePerIdentity` alone is
  not inductive: a tombstone of the same identity may be revived. Without `Nameless`
  a report could give an entry the identity that another one has, as in finding 6.4.
* `OneRunning`, where reports also name their process and it has one session at most: of
  two entries of a process one is over for good. The property itself speaks of live ones
  only, and an entry in doubt may come alive again.

`NamedStep` and `RunningStep` show that recording one observation keeps them, with a case for
each way it finds its entry. A batch is a loop and so is expiry. `ApplyAllIsLoop` gets the loop of
`ApplyBatch` by least counterexample (`LoopExists`), and `BatchFacts` follows it: a batch that
fails anywhere is not recorded at all. `Drops` says of each pass of expiry that entries leave
and the others stay as they were, which no part of `MatchInv` minds.

Without names `OneLivePerIdentity` is false: finding 6.4. `EndedProcessesStayEnded` needs
neither hypothesis: a report of a process that ended makes no entry unless one of it is there, and the tombstone a
scan makes of it is removed with the batch that made it.

### The tracker's health

Assumed is `HealthAssumption`: intervals, write interval and the longest cycle are positive
numbers, bounds are natural numbers; run `install` checks that its setting satisfies it.
`HealthInv` has five parts. `StateIsSound` is about
shape. `LockIsHeld` makes the two processes take turns: who works has the lock, and who does
not remembers nothing, so every new process starts with `New` and writes at once.
`TimesAreKept` bounds the age of a cycle and of a wait. `HealthIsHonest` says that neither
memory nor file knows of a good cycle later than the last one, which with the reader's limit
is `HealthyIsRecent`. `FileIsKept` says that the working process finds its own last write in
the file (`Kept`), and how old that write is when all went well (`Fresh`): a cycle that wrote
nothing began less than a write interval after it.

`WaitsKept` is the heart of it, with a case for each outcome of the write: written, failed,
and skipped, where `ShouldWrite` was false, so that nothing changed and the file is young.
`HealthyStaysHealthy` adds the times up: the file may be a write interval old when a silent
cycle began, and is read until the end of the next. That the limit leaves room for it is
`CyclesAreShort`, which the code does not ensure; it holds for every `--interval` if cycles
last up to 30 seconds, and the setting of run `install` satisfies it with 45 seconds and
intervals of 15 and 60. Without it a slow tracker that is well is shown as stale.

### The watch of the files

Assumed is `FileWatchAssumption`: values and bounds are natural numbers, 0 is
the value of a missing file, and the queue has a place. `WatchInv` has three parts. `WatchIsSound` is
about shape. `NothingIsMissed` is about what is to come: a scan is due (`ScanIsDue`) when
an event is queued, events were lost, the debounce timer runs or a scan has begun; where
none is, a watched parent means that the directory is watched too, and the last scan saw
what is there, if the kernel will tell of the next change (`Told`). It is needed because a
change and the scan that shows it are steps apart, with the directory removed and made
again, the queue overflowing and reads failing in between. `BaselineIsShown` keeps what is
compared with equal to what the consumer holds, from which `SnapshotsDiffer` follows.

`NothingMissed` says this of a waiting goroutine. Where the parent could not be watched, it
needs the directory to be there and watched: one that appears later is noticed by the
ticker alone.

### `aht stop`

Assumed is `StopAssumption`: process numbers are positive, there is a pane, and being outside
tmux is no pane; run `clients` checks that its setting satisfies it.
The registry lags behind the machine and the command works from what it read at its start,
so no property is about one of the three alone. `StopInv` has four parts. `MachineIsSound`:
processes started before now, and a pane has one foreground process, so that `InFront`, a
choice, is a function of the pane. `SessionsArePlaced`: while the process a session names
runs, it is in the session's pane, where agents stay in tmux (`Outside` is false).
`CommandIsSound`: the list has every session once, and each reference names one session
(`ListIsSound`); `seen`, the set of targets that keeps the command from interrupting a place
twice, is what was interrupted, what failed to be, and the one about to be, which is valid
as long as nothing changed (`SeenIsSound`); whoever is no longer on the list was skipped, hit,
failed, or shares a target with one of those (`TurnsAreKept`). `HitsAreMeant` is
`InterruptHitsAgent`.

`SeenIsSound` is what `InterruptedOnce` and `EveryoneGetsATurn` lack. A target is remembered
only after its validation, so a session that is skipped does not take the turn of
another with the same target; and it is remembered before its interrupt, so that no
second session repeats it, not even when the interrupt fails. `InterruptsAreMeant` needs
`~Outside`: with agents resumed outside tmux the validation of a pane says nothing of the
session's process (finding 6.6). A change of the machine between validation and interrupt is
excepted in the property itself (`calm`); the code cannot close that window.

### Only model-checked

* Liveness, everywhere (`EventuallySaved`, `LastChangeShown`, `CallsEnd`, `NewsArrive`).
* `ExitIsFinal`: false with three processes (7.13), so it is checked for two.
* `ViewsAgree`: what other rules make of a session, action by action of `SessionViews`.
* `ScanIsBelieved` of `Matching`: it quantifies over the orders of a whole scan, and needs
  that no evidence inside a session is dated ahead of it.
* The components without a module of proofs.

## 6. Where the code disagrees with its words

Two of these are runs; the others were found while modelling with the settings
given here, under which TLC finds the named property violated. The properties stay in
their modules, and the runs above are in settings that do not meet them.

1. `rejection_restart` (`JournalStore`). A report the tracker drops as its own command,
   because it is older than evidence in memory, is journaled and acknowledged
   without that evidence being checkpointed. Example: a heartbeat at 5 is in
   memory only; an end report of 3 is dropped as stale but journaled; the tracker
   crashes; the restarted one knows evidence up to 1, applies the end, and the
   session is gone. `journal_read.go:111` says of the consuming path "a restart must
   not accept what this owner rejected"; the command path does not keep to it.
   `RefusedStaysOut` holds for the consuming path.
2. `stored_future` (`StoredState`). `observationTime` moves a report that is dated ahead
   of the registry's clock back and leaves `DetailObservedAt` where it is; the stored
   observation fails its validation and the report is refused as corruption.
3. `StoredState`, `NeverCorrupt` with `Takeovers` and activity `failed`: a session that
   is replaced in its process keeps its detail without an activity; the report of the
   new session is refused as corruption, on every retry (`matching.go:67`).
4. `Matching`, `OneLivePerIdentity` with `Anonymous`, 2 processes, 1 identity and 4
   moments. Example: p has a session open and q resumes it; q's newer report makes a
   session of it in q. An old report of p without the id makes a session of p, and an old one
   with the id, which matches p's session by its process, names it. The retirement of
   q's session is refused because q's evidence is newer, and both stay live under one id
   (`matching.go:223`, whose comment says "so the registry never retains two live sessions
   for one session_id").
5. `ClientWait`, `GoneMeansExited` with one reset: a reset deletes live sessions, and a
   wait for gone returns one as gone (`wait.go:394`: "Deletion only follows the gone
   transition").
6. `StopSession`, `InterruptHitsAgent` with `Outside`: a session whose process went to
   another terminal passes the validation of its old pane, and the interrupt goes to
   what runs there now (`manage.go:520`).
7. `Doctor`, `FixesWork` with `HarnessVersion` 14: a shim is called `<harness>-shim`, which
   the catalog does not know, so it is stale as soon as it is installed and
   `doctor --fix` repeats the same fix (`ownership.go:122`).
8. `Doctor`, `OkIsCurrent`: an integration that is partial or disabled is reported ok
   (`doctor.go:433`).
9. `HistoryIndex`, `AloneIsExact` with two inodes and four searches: a directory is
   remembered as indexed by entries read when the search began; a transcript that was
   recreated meanwhile is missed until the directory changes
   (`index_directories.go:259`).
10. `HistoryIndex`, `AnswerIsSomeVersion` with four changes: entries and directories
    are read at different times, and a transcript that existed throughout is missed
    (`index_directories.go:41`).
11. `HistoryOpen`, `UsableKept` and `OneJournal` with a broken default cache and seven
    files: the second process that found the file damaged removes the index the first
    has made since, or the write-ahead log of an open one (`index.go:145`, `index.go:686`).
12. `HistoryOpen`, `StatusIsTrue`: a newer build rebuilds the index in place and keeps
    its inode, so an older build still takes its status for valid
    (`refresh_status.go:107`).
13. `HistorySearch`, `AnswerIsExact` with two sources that walk to one transcript: the
    second visit folds the child's plan in again (`index_query.go:489`).
14. `HistoryWorker`, `IdleIsIndexed` with four changes: a session that worked between two
    looks seems unchanged (`history_worker.go:119`); `NoticedIsIndexed` with `Others` and
    two sessions: a refresh that finds the guard held returns success
    (`history.go:79`).
15. `HookFiles`, `UserHooksKept` with the edit `race`: the file is read, changed and
    renamed over; a change in between is lost (`artifact.go:89`).
16. `PluginInstall`, `ForceReplaces`: a kill during a forced replacement leaves a backup
    that makes `--force` refuse as well (`plugin_directory.go:222`);
    `RemovedStaysRemoved`: a removal leaves the backup of a killed install, and the next
    upgrade restores it (`remove.go:393`); `SuccessIsComplete` with two processes: the
    recovery of one command removes the stage of another (`plugin_directory.go:153`).
17. `TrackerService`, `DisableRemoves` with two faults: a rollback removes the definition
    of a tracker that still runs (`service.go:361`); `UpgradeKeepsStopped` on launchd: a
    stopped but loaded job is started by the upgrade (`upgrade.go:62`);
    `UpgradeTakesEffect`: a unit that restarts itself during the upgrade runs the old
    definition (`upgrade.go:56`); `EnabledAtLogin`: enable leaves a disabled unit
    disabled (`service.go:299`).
18. `FakeLaunch`, `ErrorsTold` with `Interrupts` `"any"`: an interrupt while the terminal
    starts cancels the context of its clean-up, and what is left of it is not reported
    (`terminal.go:259`); an interrupt during the preparation hides what could not be
    stopped, because the error of closing is joined with the canceled one
    (`launch.go:187`) and the exit is then that of an interruption (`cli.go:172`). The
    run lets the user interrupt once the harness runs. `EveryProcessStopped`: a daemon
    started between listing and reading is missed (`strays_linux.go:46`).
19. `ReleaseChecks`: `HistoryForward` with `OwnReruns` (`client.go:345`), `RerunPreserves`
    (`state.go:193`), `RerunKeeps` with `LateHarness` (`main.go:335`),
    `LatestFailureTracked` with `Rollbacks` and no maximum (`state.go:171`): reruns of old
    runs and withdrawn releases that the code's comments say are handled.
20. `ReleasePublish`, `OthersUntouched` with `Late`: a publication that was given up on
    and is applied between the lookup and the deletion of the draft is deleted
    (`release.go:273`). `UploadReachesOwn`: a release that a maintainer makes by hand
    after the run has looked for one is another release of the same tag; the upload names
    its release by the tag and may overwrite the maintainer's assets
    (`release.yml:221`, `--clobber`), although `prepareDraft` says it refuses to replace
    another's (`release.go:204`). What the code still promises then is checked:
    `OthersUntouched` allows the upload alone to reach it, and `PublishedIsTested` (for
    the assets) and `NoDraftLeft` ask for nothing once the tag has a second release,
    since the comparison and the clean-up find a release by its tag too.

## 7. Limits

1. Reports without a process on a session bound to one are not evidence
   (`ownProcessEvidence`), so a delayed end older than such a report still ends the
   session, and a resumed session starts over without evidence. `GoneIsTrue`,
   `ActivityIsOwn` and `EvidenceNeverRegresses` are therefore checked and proved for
   integrations whose reports all have a process or all lack one, not for a mix.
2. The process replaced last is not believed while it is `Previous`, even when it
   opens the session again; `StartIsHeard` leaves it out. `StartIsHeard` is also false where
   listings create sessions (section 5).
3. A journaled batch that mixes readings with a report is folded strictly on load,
   while the tracker's replay tolerates conflicts. `Matching` checks that batches
   succeed (`ScansDecide`); batches on top of memory-only evidence are not modelled.
4. `Explain` is modelled for live sessions; of the checker's rules the one about native
   identities is left out.
5. `FileWatch` has the settle times of `memory_store.go` (500 ms, 2 s) abstracted to
   order; `pkg/registry/doc.go` gives other numbers. A durable watch error ends a wait
   with an error.
6. With three processes: a session first seen by a scan keeps the id of that process
   when its native session moves on; after two moves the first process is no longer
   remembered as the previous one, and a scan that finds it still running takes the
   session back (`query.go:126`). Nothing says what should happen; no run asserts it.
7. `HarnessHooks`: heartbeats come only while no other hook is under way. The turns of
   the harnesses are external, taken from what the adapters say of them. Turns that are
   interrupted where the harness has no hook for it, and Copilot's subagents, are left out.
8. `TrackerHealth` needs a bound on cycles: write interval, cycle interval and twice the
   duration minus one must not exceed the limit the reader applies. An explicit
   `MaxHealthAge` below thirty seconds is outside it.
9. `ScreenReading` assumes that a cycle is not longer than the lease of a report. Each of
   its screen rules says one activity.
10. `ManifestCache` leaves out a file that is written between the stat and the read and
    removed again (`manifest.go:289`).
11. `Attribution` leaves out commands of panes and the preference for group leaders.
12. `PluginInstall`: retired plugins, rendered files and dry runs are left out;
    `HookFiles`: managed text blocks; `TitleCache`: the hook around it and cron fields;
    `ReleaseChecks`: which hosts a change affects, install commands, the weekly plan;
    `ReleasePublish`: where a tag has several releases, a request that names the tag may
    reach any of them; which one is the service's choice.
13. `ExitIsFinal` fails with three processes: p exits after a restart of it, delayed
   reports of q and r bind the session to them and away again, and p's later start
   revives it, since an exit is not evidence and only the process replaced last is
   remembered. The run checks it with two.

Not modelled, and why: filters, summaries, paths and JSON are stateless data handling;
process inspection and the multiplexers are I/O against other programs; decoders of
transcript formats, text search, configuration, rendering and argument parsing are data
translation; the JavaScript plugins and the server around the scripted provider (held
replies, resets, concurrent requests of the test) are test or plug-in code with
little state; platforms without flock (`lock_other.go`) have no locks to model.

## 8. Plan

What is left to prove:

* `Matching`: `ScanIsBelieved`. `MatchInv` bounds when entries were made and changed; it
  needs the same of the times of evidence inside them.
* `SessionViews`: `ViewsAgree`, from the facts in `LifecycleProofs`, action by action.

What is left to model is in section 7: batches on top of memory-only evidence, the retired
plugins and managed text blocks, Copilot's subagents.
