---------------------------- MODULE HistoryIndex ----------------------------
(***************************************************************************)
(* The disposable index of conversation histories (pkg/history: index.go,  *)
(* index_refresh.go, index_directories.go, jsonl.go): one transcript in    *)
(* one directory that its agent appends to, rewrites and removes, and      *)
(* searches of several processes that refresh the index's entry, read it   *)
(* and remember the directory. A database transaction is one step; what a  *)
(* search read before is used after the steps of others.                   *)
(***************************************************************************)
EXTENDS Naturals, Sequences, FiniteSets, TLC

CONSTANTS
  Procs,          (* processes that search                                 *)
  MaxChanges,     (* bound: changes of the transcript and its directory    *)
  MaxInodes,      (* bound: how often the transcript is created            *)
  MaxSearches,    (* bound: searches begun                                 *)
  Edits           (* what the agent does to a transcript: "append", "torn" *)
                  (* or "rewrite"                                          *)

HistoryIndexAssumption == MaxChanges \in Nat /\ MaxInodes \in Nat /\ MaxSearches \in Nat

NoRow ==
  [stamp |-> 0, inode |-> 0, lines |-> <<>>, size |-> 0, complete |-> FALSE, parts |-> <<>>, conv |-> 0]

VARIABLES
  path,      (* the inode that the transcript's path names, 0 for none     *)
  lines,     (* the records of each inode; each has its number             *)
  torn,      (* inodes whose last record has no newline yet                *)
  stamp,     (* identity, change time, size of each inode (stampFile)      *)
  dstamp,    (* the same of the directory                                  *)
  clock,     (* changes so far: the source of stamps and record numbers    *)
  row,       (* the index's entry for the transcript, NoRow without        *)
  drow,      (* the stamp that table directories has, 0 without            *)
  convs,     (* conversation rows inserted so far                          *)
  log,       (* history: the messages of the transcript after each change  *)
  begun,     (* searches begun                                             *)
  s          (* each process's search                                      *)

world == <<path, lines, torn, stamp, dstamp, clock, log>>
index == <<row, drow, convs>>
vars == <<path, lines, torn, stamp, dstamp, clock, row, drow, convs, log, begun, s>>

Inodes == 1..MaxInodes

\* Messages in an inode: a record without its newline does not parse.
Messages(i) ==
  IF i = 0 THEN <<>>
  ELSE IF i \in torn THEN SubSeq(lines[i], 1, Len(lines[i]) - 1) ELSE lines[i]

\* A record's newline counts apart from the rest of it.
Size(i) == 2 * Len(lines[i]) - (IF i \in torn THEN 1 ELSE 0)

NoPlan == [conv |-> 0, parts |-> <<>>]
NoResult == [lines |-> <<>>, size |-> 0, complete |-> FALSE, parts |-> <<>>]

Idle ==
  [pc |-> "idle", mem |-> NoRow, known |-> FALSE, memDir |-> 0, at |-> 0, listed |-> FALSE, plan |-> NoPlan,
   handle |-> 0, st |-> 0, resume |-> FALSE, again |-> FALSE, result |-> NoResult,
   changed |-> FALSE, seen |-> FALSE, skipped |-> FALSE, failed |-> FALSE,
   answer |-> <<>>, since |-> 0, alone |-> FALSE]

Init ==
  /\ path = 0 /\ lines = [i \in Inodes |-> <<>>] /\ torn = {} /\ stamp = [i \in Inodes |-> 0]
  /\ dstamp = 1 /\ clock = 1
  /\ row = NoRow /\ drow = 0 /\ convs = 0 /\ log = << <<>> >> /\ begun = 0
  /\ s = [p \in Procs |-> Idle]

-----------------------------------------------------------------------------
(* The agent that writes the transcript.                                   *)

\* A change gives its inode a stamp that none had; searches under way are no
\* longer alone.
Changed ==
  /\ clock <= MaxChanges /\ clock' = clock + 1
  /\ log' = Append(log, IF path' = 0 THEN <<>>
                        ELSE IF path' \in torn' THEN SubSeq(lines'[path'], 1, Len(lines'[path']) - 1)
                        ELSE lines'[path'])
  /\ s' = [p \in Procs |-> [s[p] EXCEPT !.alone = FALSE]]
  /\ UNCHANGED <<row, drow, convs, begun>>

Create ==
  /\ path = 0 /\ Cardinality({i \in Inodes : stamp[i] # 0}) < MaxInodes
  /\ LET i == Cardinality({j \in Inodes : stamp[j] # 0}) + 1
     IN  /\ path' = i
         /\ lines' = [lines EXCEPT ![i] = <<clock>>]
         /\ stamp' = [stamp EXCEPT ![i] = clock]
  /\ dstamp' = clock + 1 /\ torn' = torn
  /\ Changed

\* A record, or the beginning of one, is appended.
AppendRecord(whole) ==
  /\ (IF whole THEN "append" ELSE "torn") \in Edits
  /\ path # 0 /\ path \notin torn
  /\ lines' = [lines EXCEPT ![path] = Append(@, clock)]
  /\ torn' = IF whole THEN torn ELSE torn \cup {path}
  /\ stamp' = [stamp EXCEPT ![path] = clock]
  /\ UNCHANGED <<path, dstamp>> /\ Changed

EndRecord ==
  /\ path \in torn /\ torn' = torn \ {path}
  /\ stamp' = [stamp EXCEPT ![path] = clock]
  /\ UNCHANGED <<path, lines, dstamp>> /\ Changed

\* The transcript is written anew in place, its first record changed.
Rewrite ==
  /\ "rewrite" \in Edits /\ path # 0 /\ path \notin torn
  /\ lines' = [lines EXCEPT ![path] = <<clock>> \o Tail(@)]
  /\ stamp' = [stamp EXCEPT ![path] = clock]
  /\ UNCHANGED <<path, torn, dstamp>> /\ Changed

Remove ==
  /\ path # 0 /\ path' = 0
  /\ stamp' = [stamp EXCEPT ![path] = clock]
  /\ dstamp' = clock + 1
  /\ UNCHANGED <<lines, torn>> /\ Changed

-----------------------------------------------------------------------------
(* A search.                                                               *)

Step(p, fields) == s' = [s EXCEPT ![p] = fields]

\* openHistoryIndex, loadFiles: the entries are read once.
Open(p) ==
  /\ s[p].pc = "idle" /\ begun < MaxSearches /\ begun' = begun + 1
  /\ s' = [q \in Procs |->
             IF q = p
             THEN [Idle EXCEPT !.pc = "walk", !.mem = row, !.known = row # NoRow, !.since = Len(log),
                               !.alone = \A r \in Procs \ {p} : s[r].pc = "idle"]
             ELSE [s[q] EXCEPT !.alone = FALSE]]
  /\ UNCHANGED <<world, index>>

\* directoryCache.read: the directory is as it was remembered.
CachedDirectory(memDir, at) == memDir # 0 /\ memDir = at

\* loadDirectories and the Lstat of directoryCache.walk. An unchanged directory has
\* the transcripts that the index has.
Walk(p) ==
  /\ s[p].pc = "walk"
  /\ Step(p, IF CachedDirectory(drow, dstamp)
             THEN [s[p] EXCEPT !.memDir = drow, !.at = dstamp, !.listed = s[p].mem # NoRow,
                               !.pc = "prepare"]
             ELSE [s[p] EXCEPT !.memDir = drow, !.at = dstamp, !.pc = "readdir"])
  /\ UNCHANGED <<world, index, begun>>

\* directoryCache.read: ReadDir.
ReadDir(p) ==
  /\ s[p].pc = "readdir"
  /\ Step(p, [s[p] EXCEPT !.listed = path # 0, !.pc = "prepare"])
  /\ UNCHANGED <<world, index, begun>>

\* prepareQuery, findParts: the matching parts of every entry.
PrepareQuery(p) ==
  /\ s[p].pc = "prepare"
  /\ Step(p, [s[p] EXCEPT !.plan = [conv |-> row.conv, parts |-> row.parts],
                          !.pc = IF s[p].listed THEN "check" ELSE "commit"])
  /\ UNCHANGED <<world, index, begun>>

\* pend and unchanged: the entry's stamp is the transcript's.
Check(p) ==
  /\ s[p].pc = "check"
  /\ Step(p, [s[p] EXCEPT !.pc = IF s[p].mem # NoRow /\ path # 0 /\ stamp[path] = s[p].mem.stamp
                                 THEN "visit" ELSE "parse"])
  /\ UNCHANGED <<world, index, begun>>

\* verifyBody, hashPrefix: the old records are the beginning of the new ones.
Verified(mem, i) == SubSeq(lines[i], 1, Len(mem.lines)) = mem.lines

\* resumable and prepareAppendResume.
Resumable(mem, i) ==
  /\ mem.complete /\ mem.inode = i
  /\ mem.size > 0 /\ mem.size < Size(i)
  /\ Verified(mem, i)

\* isCurrent: the transcript is as the entry says after all.
IsCurrent(p) == s[p].mem # NoRow /\ stamp[path] = s[p].mem.stamp

\* parseOpenTranscript up to prepareAppendResume. Parsing again counts as a change, whatever
\* it finds (settleParsed).
ParseOpen(p) ==
  /\ s[p].pc = "parse"
  /\ Step(p, CASE path = 0 -> [s[p] EXCEPT !.failed = TRUE, !.pc = "commit"]
               [] path # 0 /\ IsCurrent(p) ->
                    [s[p] EXCEPT !.changed = s[p].again, !.pc = "visit"]
               [] OTHER ->
                    [s[p] EXCEPT !.handle = path, !.st = stamp[path],
                                 !.resume = ~s[p].again /\ Resumable(s[p].mem, path),
                                 !.pc = "read"])
  /\ UNCHANGED <<world, index, begun>>

\* lacksTerms: the terms of the search are not in the transcript.
ParseSkip(p) ==
  /\ s[p].pc = "parse" /\ path # 0
  /\ Step(p, [s[p] EXCEPT !.skipped = TRUE, !.pc = "commit"])
  /\ UNCHANGED <<world, index, begun>>

\* readJSONLLines: the last line read ends with a newline.
EndsWithNewline(i) == Len(lines[i]) > 0 /\ i \notin torn

\* jsonlState: the records before the place where reading starts.
ReadBefore(p) == IF s[p].resume THEN s[p].mem.lines ELSE <<>>

\* checkSnapshot: the transcript is still as it was opened.
SnapshotHeld(p) == stamp[s[p].handle] = s[p].st

\* finishJSONL: the checkpoint of what was read, with the messages that were new. What
\* changed meanwhile is not complete.
Checkpoint(i, before, held) ==
  [lines    |-> before \o SubSeq(lines[i], Len(before) + 1, Len(lines[i])),
   size     |-> Size(i),
   complete |-> EndsWithNewline(i) /\ held,
   parts    |-> SubSeq(Messages(i), Len(before) + 1, Len(Messages(i)))]

\* scanJSONL: from the checkpoint, or from the start, to the size the file has now.
ParseRead(p) ==
  /\ s[p].pc = "read"
  /\ Step(p, [s[p] EXCEPT !.result = Checkpoint(s[p].handle, ReadBefore(p), SnapshotHeld(p)), !.pc = "store"])
  /\ UNCHANGED <<world, index, begun>>

\* staleResume: the entry is not the one whose checkpoint was resumed.
StaleResume(p) ==
  s[p].resume /\ (row = NoRow \/ row.lines # s[p].mem.lines \/ row.inode # s[p].mem.inode
                  \/ row.complete # s[p].mem.complete \/ row.conv # s[p].mem.conv)

\* writeRefresh: the conversation's parts that stay.
KeptParts(p) == IF s[p].resume THEN row.parts ELSE <<>>

\* upsertConversation: the conversation goes on in its row or gets a new one.
ConversationRow(p) == IF s[p].resume THEN row.conv ELSE convs + 1

\* saveRefresh, insertParts: the entry that a search writes. checkSnapshot comes between
\* reading and the transaction: a change since then may have escaped it.
Entry(p, escaped) ==
  [stamp    |-> s[p].st,
   inode    |-> s[p].handle,
   lines    |-> s[p].result.lines,
   size     |-> s[p].result.size,
   complete |-> s[p].result.complete /\ (escaped \/ SnapshotHeld(p)),
   parts    |-> KeptParts(p) \o s[p].result.parts,
   conv     |-> ConversationRow(p)]

\* storedFile: another process stored this version of the transcript.
StoredAlready(p) == row # NoRow /\ row.stamp = s[p].st

\* writeRefresh, when the version is there: its entry is used.
Reuse(p) ==
  /\ s[p].pc = "store" /\ StoredAlready(p)
  /\ Step(p, [s[p] EXCEPT !.mem = row, !.changed = TRUE, !.pc = "visit"])
  /\ UNCHANGED <<world, index, begun>>

\* storeParsed, when the entry is another one: the transcript is parsed again
\* without a checkpoint.
ParseAgain(p) ==
  /\ s[p].pc = "store" /\ ~StoredAlready(p) /\ StaleResume(p)
  /\ Step(p, [s[p] EXCEPT !.mem = row, !.again = TRUE, !.resume = FALSE, !.pc = "parse"])
  /\ UNCHANGED <<world, index, begun>>

\* store and writeRefresh: one transaction.
Store(p) ==
  /\ s[p].pc = "store" /\ ~StoredAlready(p) /\ ~StaleResume(p)
  /\ row' \in {Entry(p, escaped) : escaped \in BOOLEAN}
  /\ convs' = IF s[p].resume THEN convs ELSE convs + 1
  /\ Step(p, [s[p] EXCEPT !.mem = row', !.changed = TRUE, !.pc = "visit"])
  /\ UNCHANGED <<world, drow, begun>>

\* matches, collectMatches: an entry stored by this search is read again
\* (refreshPlans); the others are answered by the plans of conversations that are
\* still there.
Answer(p) ==
  IF s[p].changed THEN row.parts
  ELSE IF s[p].plan.conv = row.conv THEN s[p].plan.parts ELSE <<>>

\* visit.
Visit(p) ==
  /\ s[p].pc = "visit"
  /\ Step(p, [s[p] EXCEPT !.seen = TRUE, !.answer = Answer(p), !.pc = "commit"])
  /\ UNCHANGED <<world, index, begun>>

\* commit: an entry known from the start that was not seen and is gone.
Commit(p) ==
  /\ s[p].pc = "commit"
  /\ Step(p, [s[p] EXCEPT !.pc = IF s[p].known /\ ~s[p].seen /\ path = 0 THEN "delete" ELSE "save"])
  /\ UNCHANGED <<world, index, begun>>

\* commit: the transaction that deletes it.
DeleteVanished(p) ==
  /\ s[p].pc = "delete" /\ row' = NoRow
  /\ Step(p, [s[p] EXCEPT !.pc = "save"])
  /\ UNCHANGED <<world, drow, convs, begun>>

\* directoryCache.complete: the index has every transcript of the directory.
Complete(p) == s[p].listed => s[p].mem # NoRow

\* directoryCache.changes: what the table has afterwards.
DirectoryAfter(p) ==
  CASE ~Complete(p) /\ s[p].memDir # 0 -> 0
    [] Complete(p) /\ s[p].memDir # s[p].at -> s[p].at
    [] OTHER -> drow

\* saveDirectories, and the result.
SaveDirectories(p) ==
  /\ s[p].pc = "save" /\ drow' = DirectoryAfter(p)
  /\ Step(p, [Idle EXCEPT !.pc = "done", !.answer = s[p].answer, !.alone = s[p].alone,
                          !.skipped = s[p].skipped, !.failed = s[p].failed, !.since = s[p].since])
  /\ UNCHANGED <<world, row, convs, begun>>

\* The search returned, or its process was stopped between two transactions; one that
\* is stopped before it stored anything leaves nothing.
End(p) ==
  /\ s[p].pc \in {"visit", "commit", "delete", "save", "done"} /\ Step(p, Idle)
  /\ UNCHANGED <<world, index, begun>>

Next ==
  \/ Create \/ AppendRecord(TRUE) \/ AppendRecord(FALSE) \/ EndRecord \/ Rewrite \/ Remove
  \/ \E p \in Procs :
       \/ Open(p) \/ Walk(p) \/ ReadDir(p) \/ PrepareQuery(p) \/ Check(p)
       \/ ParseOpen(p) \/ ParseSkip(p) \/ ParseRead(p) \/ Reuse(p) \/ ParseAgain(p)
       \/ Store(p)
       \/ Visit(p) \/ Commit(p) \/ DeleteVanished(p) \/ SaveDirectories(p) \/ End(p)

Spec == Init /\ [][Next]_vars

Symmetry == Permutations(Procs)

-----------------------------------------------------------------------------
(* Properties                                                              *)

\* An entry with the transcript's stamp is answered without opening the transcript,
\* so it must have exactly the transcript's messages, each once and in order.
StampMeansContent ==
  row # NoRow /\ path # 0 /\ row.stamp = stamp[path] => row.parts = Messages(path)

\* A directory that is remembered as it is now is not read: the index has an entry
\* for the transcript in it.
KnownDirectoryIsIndexed == drow = dstamp /\ path # 0 => row # NoRow

\* "searchDirect ... is the reference behavior the index must reproduce": a search
\* that no change and no other search overlaps answers with the messages that the
\* transcript has, whatever the searches before it left in the index.
AloneIsExact ==
  \A p \in Procs : s[p].pc = "done" /\ s[p].alone /\ ~s[p].skipped =>
    s[p].answer = Messages(path)

\* "Each call is independent; simultaneous calls are safe": a search answers with
\* the messages that the transcript had at some moment of the search.
AnswerIsSomeVersion ==
  \A p \in Procs : s[p].pc = "done" /\ ~s[p].skipped /\ ~s[p].failed =>
    \E i \in s[p].since..Len(log) : s[p].answer = log[i]
=============================================================================
