---------------------------- MODULE WatchCommand ----------------------------
(***************************************************************************)
(* internal/cli/watch.go and client.Watch: "aht watch" prints the sessions *)
(* and then one event for each change. It reads a stream of snapshots from *)
(* the tracker; when there is no tracker, or the stream ends, it goes on   *)
(* from the files and keeps the sessions it has printed.                   *)
(*                                                                         *)
(* The tracker's memory is ahead of the files by what it has not written   *)
(* yet. Snapshots skip states, on either side. The reader of the output is *)
(* modelled by what it can put together from the events alone.             *)
(***************************************************************************)
EXTENDS Naturals, Sequences, FiniteSets, SequencesExt

CONSTANTS
  Ids,         (* session ids, numbered                                    *)
  Ignored,     (* ids whose harness or directory the configuration ignores *)
  Activities,  (* activities of a live session; 0 is none                  *)
  Locations,   (* pane locations                                           *)
  Natives,     (* native events                                            *)
  LiveOnly,    (* the filter keeps live sessions                           *)
  NoSnapshot,  (* --no-snapshot                                            *)
  MaxChanges,  (* bound: changes of the registry                           *)
  MaxStops     (* bound: stops of the tracker                              *)

WatchAssumption ==
  /\ Ids \subseteq Nat /\ Ignored \subseteq Ids /\ 0 \in Activities
  /\ LiveOnly \in BOOLEAN /\ NoSnapshot \in BOOLEAN /\ MaxChanges \in Nat /\ MaxStops \in Nat

VARIABLES
  memory,    (* the tracker's registry; the files' while it is down        *)
  file,      (* what the files hold                                        *)
  up,        (* a tracker runs                                             *)
  directory, (* the state directory exists                                 *)
  clock,     (* time: the changes so far                                   *)
  stops,     (* stops of the tracker                                       *)
  mode,      (* the command: start, stream, files, ended                   *)
  inbox,     (* snapshots of the stream that were not handled              *)
  sent,      (* the snapshot the server sent last                          *)
  broken,    (* the stream has ended                                       *)
  previous,  (* processor.previous; initialized when not NoState           *)
  batch,     (* the events written last                                    *)
  reader     (* what the reader of the events knows                        *)

world == <<memory, file, up, directory, clock, stops>>
vars == <<memory, file, up, directory, clock, stops, mode, inbox, sent, broken, previous, batch, reader>>

Absent == [presence |-> "absent"]
NoSessions == [id \in Ids |-> Absent]
NoState == <<>>

Init ==
  /\ memory = NoSessions /\ file = NoSessions /\ up \in BOOLEAN /\ directory \in BOOLEAN /\ (up => directory)
  /\ clock = 0 /\ stops = 0
  /\ mode = "start" /\ inbox = <<>> /\ sent = NoState /\ broken = FALSE
  /\ previous = NoState /\ batch = <<>> /\ reader = NoState

-----------------------------------------------------------------------------
(* The registry.                                                           *)

Session(presence, activity, process, location, native) ==
  [presence |-> presence, activity |-> activity, process |-> process, location |-> location, native |-> native]

\* Sessions that are gone have no activity.
Values ==
  {Session("live", a, p, l, n) : a \in Activities, p \in BOOLEAN, l \in Locations, n \in Natives}
    \cup {Session("gone", 0, p, l, n) : p \in BOOLEAN, l \in Locations, n \in Natives}

\* UpdatedAt, PresenceChangedAt and ActivityChangedAt.
Stamped(new, old) ==
  LET kept(field) == old # Absent /\ old.value[field] = new[field] IN
  [presence |-> new.presence, value |-> new, updated |-> clock + 1,
   presenceAt |-> IF kept("presence") THEN old.presenceAt ELSE clock + 1,
   activityAt |-> IF kept("activity") THEN old.activityAt ELSE clock + 1]

Put(id, session) ==
  /\ clock < MaxChanges /\ clock' = clock + 1 /\ directory' = TRUE
  /\ memory' = [memory EXCEPT ![id] = session]
  /\ file' \in IF up THEN {file, memory'} ELSE {memory'}
  /\ UNCHANGED <<up, stops, mode, inbox, sent, broken, previous, batch, reader>>

Change(id, new) ==
  /\ memory[id] # Absent => memory[id].value # new
  /\ Put(id, Stamped(new, memory[id]))

Delete(id) == memory[id] # Absent /\ Put(id, Absent)

Persist ==
  /\ up /\ file # memory /\ file' = memory
  /\ UNCHANGED <<memory, up, directory, clock, stops, mode, inbox, sent, broken, previous, batch, reader>>

TrackerStarts ==
  /\ ~up /\ up' = TRUE /\ directory' = TRUE /\ memory' = file
  /\ UNCHANGED <<file, clock, stops, mode, inbox, sent, broken, previous, batch, reader>>

\* What was not written is lost, and streams end.
TrackerStops ==
  /\ up /\ stops < MaxStops /\ up' = FALSE /\ stops' = stops + 1 /\ memory' = file
  /\ broken' = (mode = "stream" \/ broken)
  /\ UNCHANGED <<file, directory, clock, mode, inbox, sent, previous, batch, reader>>

-----------------------------------------------------------------------------
(* Events.                                                                 *)

\* registry.Filter.
Kept(session) == session # Absent /\ (LiveOnly => session.presence = "live")

\* applyConfigFilter, sessionMatchesIgnorePaths.
ApplyConfigFilter(sessions) ==
  [id \in Ids |-> IF id \in Ignored \/ ~Kept(sessions[id]) THEN Absent ELSE sessions[id]]

\* watchEventFromSession: the time of an event depends on its action.
Event(action, id, session) ==
  [action |-> action, id |-> id, value |-> session.value,
   time |-> CASE action = "presence_changed" -> session.presenceAt
              [] action = "activity_changed" -> session.activityAt
              [] OTHER                       -> session.updated]

\* activityEqual: a session may have none.
ActivityEqual(a, b) == a = b

\* multiplexerLocationEqual, nativeEvent.
LocationEqual(a, b) == a = b
NativeEvent(session) == session.value.native

\* changedSessionWatchEvents.
ChangedEvents(id, old, new) ==
  LET event(action, condition) == IF condition THEN {Event(action, id, new)} ELSE {}
      o == old.value
      v == new.value
  IN  event("presence_changed", v.presence # o.presence)
      \cup event("process_gone", v.presence # o.presence /\ v.presence = "gone")
      \cup event("process_bound", v.presence = "live" /\ v.process /\ ~o.process)
      \cup event("activity_changed", ~ActivityEqual(o.activity, v.activity))
      \cup event("location_changed", ~LocationEqual(o.location, v.location))
      \cup event("native_event", NativeEvent(new) # NativeEvent(old))

Order(action) ==
  CASE action = "presence_changed"                 -> 1
    [] action = "activity_changed"                 -> 2
    [] action \in {"process_bound", "process_gone"} -> 3
    [] action = "location_changed"                 -> 4
    [] action = "native_event"                     -> 5
    [] OTHER                                       -> 0

\* sortWatchEvents: time, then id, then action.
Earlier(e, f) ==
  \/ e.time < f.time
  \/ e.time = f.time /\ (e.id < f.id \/ (e.id = f.id /\ Order(e.action) < Order(f.action)))

Sorted(events) == SetToSortSeq(events, Earlier)

\* diffWatchEvents.
Diff(old, new) ==
  Sorted({Event("added", id, new[id]) : id \in {x \in Ids : new[x] # Absent /\ old[x] = Absent}}
         \cup UNION {ChangedEvents(id, old[id], new[id]) : id \in {x \in Ids : new[x] # Absent /\ old[x] # Absent}}
         \cup {Event("removed", id, old[id]) : id \in {x \in Ids : new[x] = Absent /\ old[x] # Absent}})

\* snapshotWatchEvents.
Snapshot(sessions) ==
  IF sessions = NoSessions THEN <<[action |-> "snapshot_empty", id |-> 0, value |-> Absent, time |-> 0]>>
  ELSE Sorted({Event("snapshot", id, sessions[id]) : id \in {x \in Ids : sessions[x] # Absent}})

-----------------------------------------------------------------------------
(* The reader.                                                             *)

Known(sessions) == [id \in Ids |-> IF sessions[id] = Absent THEN Absent ELSE
                                     [presence |-> sessions[id].value.presence, activity |-> sessions[id].value.activity,
                                      location |-> sessions[id].value.location, native |-> sessions[id].value.native]]

Knows(value) == [presence |-> value.presence, activity |-> value.activity, location |-> value.location,
                 native |-> value.native]

\* Each event tells the reader about what it is named for.
Hear(known, e) ==
  CASE e.action = "snapshot_empty"          -> NoSessions
    [] e.action \in {"snapshot", "added"}   -> [known EXCEPT ![e.id] = Knows(e.value)]
    [] e.action = "removed"                 -> [known EXCEPT ![e.id] = Absent]
    [] e.action = "presence_changed"        -> [known EXCEPT ![e.id].presence = e.value.presence]
    [] e.action = "activity_changed"        -> [known EXCEPT ![e.id].activity = e.value.activity]
    [] e.action = "location_changed"        -> [known EXCEPT ![e.id].location = e.value.location]
    [] e.action = "native_event"            -> [known EXCEPT ![e.id].native = e.value.native]
    [] OTHER                                -> known

-----------------------------------------------------------------------------
(* The command.                                                            *)

\* watchUpdateProcessor.accept: a snapshot first, then the differences.
Accept(raw) ==
  LET current == ApplyConfigFilter(raw)
      events  == IF previous # NoState THEN Diff(previous, current)
                 ELSE IF NoSnapshot THEN <<>> ELSE Snapshot(current)
      base    == IF previous # NoState THEN reader ELSE IF NoSnapshot THEN Known(current) ELSE NoSessions
  IN  /\ previous' = current /\ batch' = events
      /\ reader' = FoldLeft(Hear, base, events)

\* runWatch: the stream, or the files when nothing accepts the connection.
Subscribe ==
  /\ mode = "start" /\ up
  /\ mode' = "stream" /\ inbox' = <<memory>> /\ sent' = memory
  /\ UNCHANGED <<world, broken, previous, batch, reader>>

Unavailable ==
  /\ mode = "start" /\ ~up
  /\ mode' = IF directory THEN "files" ELSE "ended"
  /\ UNCHANGED <<world, inbox, sent, broken, previous, batch, reader>>

\* The tracker answers with an error that is not about the connection.
Refused ==
  /\ mode = "start" /\ up /\ mode' = "ended"
  /\ UNCHANGED <<world, inbox, sent, broken, previous, batch, reader>>

\* The server sends what is newer than what it sent.
Send ==
  /\ mode = "stream" /\ ~broken /\ up /\ sent # memory /\ Len(inbox) < 2
  /\ inbox' = Append(inbox, memory) /\ sent' = memory
  /\ UNCHANGED <<world, mode, broken, previous, batch, reader>>

\* watchSnapshots: a snapshot is handled.
Receive ==
  /\ mode = "stream" /\ inbox # <<>>
  /\ Accept(Head(inbox)) /\ inbox' = Tail(inbox)
  /\ UNCHANGED <<world, mode, sent, broken>>

\* watchSnapshots, runWatch: the end of the stream, which may overtake snapshots.
StreamClosed ==
  /\ mode = "stream" /\ broken
  /\ mode' = (IF directory THEN "files" ELSE "ended")
  /\ inbox' = <<>> /\ broken' = FALSE /\ sent' = NoState
  /\ UNCHANGED <<world, previous, batch, reader>>

\* runFilesystemWatch: the files as the watcher reads them, at first and when they change.
ReadFiles ==
  /\ mode = "files" /\ (previous = NoState \/ sent = NoState \/ sent # file)
  /\ Accept(file) /\ sent' = file
  /\ UNCHANGED <<world, mode, inbox, broken>>

\* reportWatchResultError: files that cannot be read now leave a warning.
ReadFails ==
  /\ mode = "files" /\ batch' = <<>>
  /\ UNCHANGED <<world, mode, inbox, sent, broken, previous, reader>>

Interrupt ==
  /\ mode \in {"stream", "files"} /\ mode' = "ended" /\ inbox' = <<>>
  /\ UNCHANGED <<world, sent, broken, previous, batch, reader>>

Command == Subscribe \/ Unavailable \/ Send \/ Receive \/ StreamClosed \/ ReadFiles

Next ==
  \/ Command \/ Refused \/ ReadFails \/ Interrupt
  \/ Persist \/ TrackerStarts \/ TrackerStops
  \/ \E id \in Ids : Delete(id) \/ \E new \in Values : Change(id, new)

Spec == Init /\ [][Next]_vars

\* The tracker writes what it holds, the server sends, and the command and the file watcher
\* go on (FileWatch.tla shows that a change of the files is read).
FairSpec ==
  /\ Spec /\ WF_vars(Persist) /\ WF_vars(Subscribe \/ Unavailable) /\ WF_vars(Send) /\ WF_vars(Receive)
  /\ WF_vars(StreamClosed) /\ WF_vars(ReadFiles)

-----------------------------------------------------------------------------
(* Properties.                                                             *)

TypeOK ==
  /\ mode \in {"start", "stream", "files", "ended"} /\ Len(inbox) <= 2
  /\ previous = NoState <=> reader = NoState
  /\ mode = "start" => previous = NoState
  /\ mode = "stream" /\ previous = NoState => inbox # <<>> \/ broken

\* The events tell everything: a reader who applies them, in the order they are written, to
\* the first snapshot knows the sessions of the last one, across the change from the stream
\* to the files, skipped states and filters.
ReaderKnows == previous # NoState => reader = Known(previous)

\* A session that goes is told once: its change of presence and then its end, and no end
\* without the change. Events are in the order of their times.
GoneInOrder ==
  /\ \A i \in DOMAIN batch : batch[i].action = "presence_changed" /\ batch[i].value.presence = "gone" =>
       \E j \in DOMAIN batch : j > i /\ batch[j].action = "process_gone" /\ batch[j].id = batch[i].id
  /\ \A j \in DOMAIN batch : batch[j].action = "process_gone" =>
       \E i \in DOMAIN batch : i < j /\ batch[i].action = "presence_changed" /\ batch[i].id = batch[j].id
  /\ \A i, j \in DOMAIN batch : i < j => batch[i].time <= batch[j].time

\* The sessions are printed as a snapshot once; what comes after is changes.
SnapshotOnce ==
  reader # NoState /\ batch' # batch =>
    \A i \in DOMAIN batch' : batch'[i].action \notin {"snapshot", "snapshot_empty"}

\* Once the registry stays as it is, the reader of a command that runs comes to know it,
\* also when the stream ended in between.
ReaderCatchesUp ==
  <>[](mode # "ended" => reader # NoState /\ reader = Known(ApplyConfigFilter(memory)))
=============================================================================
