----------------------------- MODULE TitleCache -----------------------------
(***************************************************************************)
(* internal/harness/claude/title.go, title_cache.go and hook.go: the title *)
(* of a Claude session is the last one in its transcript. Hook processes   *)
(* and the tracker scan the transcript in chunks while Claude appends to   *)
(* it, from the checkpoint of the last scan, which they share in a cache   *)
(* file.                                                                   *)
(*                                                                         *)
(* A transcript is a sequence of pieces: "m1", "m2" and "m0" begin a title *)
(* given by the user ("m0" takes it back), "g1" one made by the agent,     *)
(* "o1" one of another session, "e" ends the record, "x" is anything else  *)
(* and "nl" ends the line. A file is never changed but by appending to it. *)
(***************************************************************************)
EXTENDS Naturals, Sequences, SequencesExt, FiniteSets

CONSTANTS
  Readers,      (* processes that read the title                           *)
  RecordBytes,  (* titleRecordBytes: longer lines are not looked at        *)
  Writes,       (* what may be appended at a time                          *)
  MaxWrites,    (* bound: appends                                          *)
  MaxFiles,     (* bound: files that follow each other at the path         *)
  MaxReads      (* bound: reads                                            *)

TitleAssumption == {RecordBytes, MaxFiles} \subseteq Nat \ {0} /\ {MaxWrites, MaxReads} \subseteq Nat

VARIABLES
  files,    (* the contents by inode                                       *)
  path,     (* the inode at the path, 0 for none                           *)
  clock,    (* when the file was last changed                              *)
  cache,    (* the cache file                                              *)
  reader,   (* the readers                                                 *)
  reads

vars == <<files, path, clock, cache, reader, reads>>

NoScan   == [offset |-> 0, manual |-> "", generated |-> "", skipping |-> FALSE]
NoStamp  == [inode |-> 0, size |-> 0, time |-> 0]
NoRecord == [stamp |-> NoStamp, state |-> NoScan, title |-> ""]
IdleReader == [step |-> "idle", stamp |-> NoStamp, state |-> NoScan, offset |-> 0,
               retained |-> <<>>, title |-> ""]

Init ==
  /\ files = [i \in 1 .. MaxFiles |-> <<>>] /\ path = 1 /\ clock = 0
  /\ cache = NoRecord /\ reads = 0
  /\ reader = [r \in Readers |-> IdleReader]

-----------------------------------------------------------------------------
(* Scanning.                                                               *)

\* titleRecord: the kind of a line that is a title of this session.
TitleRecord(line) ==
  LET begin == line[1]
  IN IF Len(line) < 2 \/ line[2] # "e" \/ (Len(line) = 3 /\ line[3] # "nl") \/ Len(line) > 3 THEN "none"
     ELSE IF begin \in {"m0", "m1", "m2"} THEN "custom-title"
     ELSE IF begin = "g1" THEN "ai-title" ELSE "none"

TitleOf(line) == IF line[1] = "m0" THEN "" ELSE line[1]

\* One line of scanTitleChunk; its end counts.
ScanLine(found, line) ==
  IF Len(line) > RecordBytes \/ TitleRecord(line) = "none" THEN found
  ELSE IF TitleRecord(line) = "custom-title" THEN [found EXCEPT !.manual = TitleOf(line)]
  ELSE [found EXCEPT !.generated = TitleOf(line)]

\* scanTitleChunk: the lines of a chunk; the last may lack its end.
ScanTitleChunk(chunk, state) ==
  LET Step(acc, piece) ==
        IF piece = "nl" THEN [found |-> ScanLine(acc.found, Append(acc.line, piece)), line |-> <<>>]
        ELSE [acc EXCEPT !.line = Append(@, piece)]
      all == FoldLeft(Step, [found |-> state, line |-> <<>>], chunk)
  IN IF all.line = <<>> THEN all.found ELSE ScanLine(all.found, all.line)

\* terminalSessionTitle: a last line without an end counts for this read only.
TerminalSessionTitle(tail, state) ==
  LET terminal == ScanTitleChunk(tail, state)
  IN IF terminal.manual # "" THEN terminal.manual ELSE terminal.generated

Ends(chunk) == {i \in 1 .. Len(chunk) : chunk[i] = "nl"}

\* The rest of a line that was too long is dropped up to its end.
AfterSkipping(chunk, state) ==
  LET first == CHOOSE i \in Ends(chunk) : \A j \in Ends(chunk) : i <= j
  IN IF ~state.skipping THEN [chunk |-> chunk, skipping |-> FALSE]
     ELSE IF Ends(chunk) = {} THEN [chunk |-> <<>>, skipping |-> TRUE]
     ELSE [chunk |-> SubSeq(chunk, first + 1, Len(chunk)), skipping |-> FALSE]

\* Mutant: the checkpoint is behind what was read.
CheckpointAtEnd(offset, tail) == offset

\* The checkpoint is before the unfinished line, which is read again.
Checkpoint(offset, tail) == offset - Len(tail)

\* A line that is longer than a record is skipped.
LongLine(tail) == Len(tail) > RecordBytes

\* One read of scanSessionTitle into the buffer behind what was kept.
ScanSessionTitle(rd, read) ==
  LET offset == rd.offset + Len(read)
      after  == AfterSkipping(rd.retained \o read, rd.state)
      chunk  == after.chunk
      last   == IF Ends(chunk) = {} THEN 0 ELSE CHOOSE i \in Ends(chunk) : \A j \in Ends(chunk) : i >= j
      found  == ScanTitleChunk(SubSeq(chunk, 1, last), rd.state)
      tail   == SubSeq(chunk, last + 1, Len(chunk))
      long   == LongLine(tail)
  IN [rd EXCEPT !.offset = offset,
                !.retained = IF long THEN <<>> ELSE tail,
                !.state = [offset |-> IF long THEN offset ELSE Checkpoint(offset, tail),
                           manual |-> found.manual, generated |-> found.generated,
                           skipping |-> long \/ after.skipping]]

-----------------------------------------------------------------------------
(* The cache.                                                              *)

\* stampTitleSource: device and inode, size and times.
StampTitleSource(i) == [inode |-> i, size |-> Len(files[i]), time |-> clock]

\* titleScanState.validCheckpoint.
ValidCheckpoint(state, size) == state.offset <= size /\ (state.skipping => state.offset = size)

\* titleCacheRecord.matchesSource, in loadTitleCache and decodeTitleCache.
MatchesSource(record) == record.stamp.inode # 0 /\ ValidCheckpoint(record.state, record.stamp.size)

\* The file of the checkpoint has grown.
Continues(cached, stamp) == cached.stamp.inode = stamp.inode /\ stamp.size > cached.stamp.size

\* openTitleSource, by SessionTitles or HandleHook; without a file there is no title.
Open(r) ==
  /\ reader[r].step = "idle" /\ reads < MaxReads /\ reads' = reads + 1
  /\ reader' = [reader EXCEPT ![r] =
       IF path = 0 THEN [IdleReader EXCEPT !.step = "done"]
       ELSE [IdleReader EXCEPT !.step = "load", !.stamp = StampTitleSource(path)]]
  /\ UNCHANGED <<files, path, clock, cache>>

\* readTitleSnapshot: the cached title when nothing changed, the checkpoint when the
\* file grew, else a scan from the beginning.
LoadTitleCache(r) ==
  /\ reader[r].step = "load"
  /\ LET stamp == reader[r].stamp
         valid == MatchesSource(cache)
         state == IF valid /\ Continues(cache, stamp) THEN cache.state ELSE NoScan
     IN reader' = [reader EXCEPT ![r] =
          IF valid /\ cache.stamp = stamp THEN [@ EXCEPT !.step = "done", !.title = cache.title]
          ELSE [@ EXCEPT !.step = "scan", !.state = state, !.offset = state.offset]]
  /\ UNCHANGED <<files, path, clock, cache, reads>>

\* The buffer holds two records; no more is read than the file had when it was opened.
Scan(r) ==
  /\ reader[r].step = "scan"
  /\ LET rd   == reader[r]
         room == 2 * RecordBytes - Len(rd.retained)
         left == rd.stamp.size - rd.offset
         n    == IF room < left THEN room ELSE left
     IN reader' = [reader EXCEPT ![r] =
          IF n = 0 THEN [rd EXCEPT !.step = "stat", !.title = TerminalSessionTitle(rd.retained, rd.state)]
          ELSE ScanSessionTitle(rd, SubSeq(files[rd.stamp.inode], rd.offset + 1, rd.offset + n))]
  /\ UNCHANGED <<files, path, clock, cache, reads>>

\* scanTitleSnapshot: a file that changed or was replaced meanwhile is not cached.
StatAfterScan(r) ==
  /\ reader[r].step = "stat"
  /\ LET stable == path = reader[r].stamp.inode /\ StampTitleSource(path) = reader[r].stamp
     IN reader' = [reader EXCEPT ![r].step = IF stable THEN "publish" ELSE "done"]
  /\ UNCHANGED <<files, path, clock, cache, reads>>

Recorded(rd) == [stamp |-> rd.stamp, state |-> rd.state, title |-> rd.title]

\* publishTitleCache: a temporary file is renamed.
PublishTitleCache(r) ==
  /\ reader[r].step = "publish"
  /\ cache' = Recorded(reader[r])
  /\ reader' = [reader EXCEPT ![r].step = "done"]
  /\ UNCHANGED <<files, path, clock, reads>>

\* The reader returns, or its context ends or it is killed at any step.
Return(r) ==
  /\ reader[r].step # "idle"
  /\ reader' = [reader EXCEPT ![r] = IdleReader]
  /\ UNCHANGED <<files, path, clock, cache, reads>>

-----------------------------------------------------------------------------
(* Claude.                                                                 *)

AppendToTranscript(w) ==
  /\ path # 0 /\ clock < MaxWrites /\ clock' = clock + 1
  /\ files' = [files EXCEPT ![path] = @ \o w]
  /\ UNCHANGED <<path, cache, reader, reads>>

\* The transcript is removed; a new one has another inode.
Replace ==
  /\ path \in 1 .. MaxFiles - 1 /\ path' = path + 1
  /\ UNCHANGED <<files, clock, cache, reader, reads>>

RemoveTranscript ==
  /\ path = MaxFiles /\ path' = 0
  /\ UNCHANGED <<files, clock, cache, reader, reads>>

Next ==
  \/ \E r \in Readers : \/ Open(r) \/ LoadTitleCache(r) \/ Scan(r) \/ StatAfterScan(r)
                        \/ PublishTitleCache(r) \/ Return(r)
  \/ \E w \in Writes : AppendToTranscript(w)
  \/ Replace \/ RemoveTranscript

Spec == Init /\ [][Next]_vars

-----------------------------------------------------------------------------

TypeOK ==
  /\ path \in 0 .. MaxFiles
  /\ \A r \in Readers : /\ reader[r].step \in {"idle", "load", "scan", "stat", "publish", "done"}
                        /\ Len(reader[r].retained) <= RecordBytes
                        /\ reader[r].offset <= reader[r].stamp.size

\* The last title of a whole transcript, in one go.
TitleIn(content) == TerminalSessionTitle(content, NoScan)

\* A read gives the title of the transcript as it was when it was opened: the same as
\* a scan of the whole of it, wherever earlier scans by others stopped, however the
\* chunks fall and whatever happens to the file meanwhile.
ReadIsWholeScan ==
  \A r \in Readers :
    LET rd == reader[r]
    IN rd.step \in {"stat", "publish"} \/ (rd.step = "done" /\ rd.stamp.inode # 0) =>
         rd.title = TitleIn(SubSeq(files[rd.stamp.inode], 1, rd.stamp.size))

\* What is in the cache can be used by the next reader, and is about what it says.
CacheIsUsable ==
  cache # NoRecord =>
    MatchesSource(cache) /\ cache.title = TitleIn(SubSeq(files[cache.stamp.inode], 1, cache.stamp.size))
=============================================================================
