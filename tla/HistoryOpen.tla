----------------------------- MODULE HistoryOpen -----------------------------
(***************************************************************************)
(* Opening, creating, rebuilding and healing the local history index       *)
(* (src/pkg/history/index.go) by processes of different builds, the wait   *)
(* for its lock (index_wait.go) and the status of the last refresh         *)
(* (refresh_status.go).  The database is a file with an inode of its own:  *)
(* a process keeps the inode it connected to when the path is removed or   *)
(* given to another file.                                                  *)
(***************************************************************************)
EXTENDS Integers, FiniteSets

CONSTANTS
    Procs,      \* processes that open the index
    Build,      \* process -> the schema version of its build
    Cached,     \* the default cache (TRUE) or an explicit path (FALSE)
    Found,      \* what the file may hold at first: subset of Kinds, or "missing"
    Others,     \* another program may start to use an empty file of the path
    MaxFiles    \* bound on the files created

NoProc == 0
Files == 1..MaxFiles

VARIABLES
    path,       \* the file at the index's path; 0: none
    journal,    \* the write-ahead log at its path; 0: none
    made,       \* files and logs created so far
    db,         \* file -> [kind, version, rows, lock]
    pc,         \* process -> where it is
    file,       \* process -> the file it is connected to
    log,        \* process -> the write-ahead log it opened
    healed,     \* processes that removed the database already
    status      \* the refresh status file: [ino, version, by]; by 0: none

vars == <<path, journal, made, db, pc, file, log, healed, status>>

Kinds == {"empty", "own", "foreign", "broken"}
NewFile == [kind |-> "empty", version |-> 0, rows |-> {}, lock |-> NoProc]

Init ==
    /\ \E kind \in Found, v \in 1..2 :
          /\ path = IF kind = "missing" THEN 0 ELSE 1
          /\ db = [f \in Files |->
                     IF f = 1 /\ kind # "missing"
                       THEN [NewFile EXCEPT !.kind = kind, !.version = IF kind = "own" THEN v ELSE 0]
                       ELSE NewFile]
          /\ made = path
    /\ journal = 0
    /\ pc = [p \in Procs |-> "start"]
    /\ file = [p \in Procs |-> 0] /\ log = [p \in Procs |-> 0]
    /\ healed = {}
    /\ status = [ino |-> 0, version |-> 0, by |-> NoProc]

Goto(p, l) == pc' = [pc EXCEPT ![p] = l]

\* openIndexDatabase: open the file, creating it when it is missing
OpenFile(p) ==
    /\ pc[p] = "start"
    /\ IF path # 0 THEN UNCHANGED <<path, made>>
       ELSE made < MaxFiles /\ path' = made + 1 /\ made' = made + 1
    /\ Goto(p, "connect")
    /\ UNCHANGED <<journal, db, file, log, healed, status>>

\* historyIndex.connect: the connection opens the path again
Connect(p) ==
    /\ pc[p] = "connect"
    /\ IF path # 0 THEN UNCHANGED <<path, made>>
       ELSE made < MaxFiles /\ path' = made + 1 /\ made' = made + 1
    /\ file' = [file EXCEPT ![p] = path']
    /\ Goto(p, "schema")
    /\ UNCHANGED <<journal, db, log, healed, status>>

\* openHistoryIndex: what a failed open leads to; an unusable default cache is removed, once
Fail(p, newer) ==
    Goto(p, IF Cached /\ ~newer /\ p \notin healed THEN "remove" ELSE "failed")

\* rebuildableIndexSchema
Rebuildable(d) == d.kind = "own"

\* historyIndex.validateSchemaTables: the tables of the index and no other
ValidTables(d) == d.kind # "broken"

\* readIndexSchema: both values are read in one statement
Newer(p, d) == d.kind = "own" /\ d.version > Build[p]
Current(p, d) == d.kind = "own" /\ d.version = Build[p]

\* historyIndex.ensureSchema, before its transaction.  A foreign database without an application
\* ID looks like an empty one here.
EnsureSchema(p) ==
    /\ pc[p] = "schema"
    /\ LET d == db[file[p]] IN
       CASE Newer(p, d) -> Fail(p, TRUE)
         [] Current(p, d) -> Goto(p, "wal")
         [] ~ValidTables(d) -> Fail(p, FALSE)
         [] OTHER -> Goto(p, "begin")
    /\ UNCHANGED <<path, journal, made, db, file, log, healed, status>>

\* indexConnection.begin: BEGIN IMMEDIATE, tried again while another process holds the lock
Begin(p) ==
    /\ pc[p] = "begin"
    /\ db[file[p]].lock = NoProc
    /\ db' = [db EXCEPT ![file[p]].lock = p]
    /\ Goto(p, "create")
    /\ UNCHANGED <<path, journal, made, file, log, healed, status>>

\* retryIndex: the wait ends when the context is canceled
Canceled(p) ==
    /\ pc[p] \in {"begin", "store"}
    /\ Goto(p, "failed")
    /\ UNCHANGED <<path, journal, made, db, file, log, healed, status>>

\* historyIndex.inspectSchemaEmptiness
Empty(d) == d.kind = "empty"

NewSchema(p) == [kind |-> "own", version |-> Build[p], rows |-> {}, lock |-> NoProc]

\* Mutant: the emptiness of the file is not checked.
CreateSchemaAnywhere(p) ==
    /\ pc[p] = "create"
    /\ LET d == db[file[p]]
           keep == [db EXCEPT ![file[p]].lock = NoProc]
       IN  CASE Newer(p, d) -> db' = keep /\ Fail(p, TRUE)
             [] Current(p, d) -> db' = keep /\ Goto(p, "wal")
             [] OTHER -> db' = [db EXCEPT ![file[p]] = NewSchema(p)] /\ Goto(p, "wal")
    /\ UNCHANGED <<path, journal, made, file, log, healed, status>>

\* historyIndex.createSchema and the end of its transaction: everything is read again under the lock
CreateSchema(p) ==
    /\ pc[p] = "create"
    /\ LET d == db[file[p]]
           keep == [db EXCEPT ![file[p]].lock = NoProc]
       IN  CASE Newer(p, d) -> db' = keep /\ Fail(p, TRUE)
             [] Current(p, d) -> db' = keep /\ Goto(p, "wal")
             [] Rebuildable(d) \/ Empty(d) -> db' = [db EXCEPT ![file[p]] = NewSchema(p)] /\ Goto(p, "wal")
             [] OTHER -> db' = keep /\ Fail(p, FALSE)
    /\ UNCHANGED <<path, journal, made, file, log, healed, status>>

\* historyIndex.enableWAL: the log is the one at the path, or a new one
EnableWAL(p) ==
    /\ pc[p] = "wal"
    /\ IF journal # 0 THEN UNCHANGED <<journal, made>>
       ELSE made < MaxFiles /\ journal' = made + 1 /\ made' = made + 1
    /\ log' = [log EXCEPT ![p] = journal']
    /\ Goto(p, "store")
    /\ UNCHANGED <<path, db, file, healed, status>>

\* historyIndex.beginWrite to endWrite: a refresh stores what it read
Store(p) ==
    /\ pc[p] = "store"
    /\ db[file[p]].lock = NoProc
    /\ db' = [db EXCEPT ![file[p]].rows = @ \cup {p}]
    /\ Goto(p, "stored")
    /\ UNCHANGED <<path, journal, made, file, log, healed, status>>

\* Catalog.Refresh after the index is closed, Catalog.saveRefreshStatus: the path is inspected again
SaveRefreshStatus(p) ==
    /\ pc[p] = "stored"
    /\ IF path = 0 THEN UNCHANGED status
       ELSE status' = [ino |-> path, version |-> Build[p], by |-> p]
    /\ Goto(p, "closed")
    /\ UNCHANGED <<path, journal, made, db, file, log, healed>>

\* removeIndex: the database and then its journals
RemoveIndex(p) ==
    /\ pc[p] = "remove"
    /\ path' = 0
    /\ Goto(p, "removeJournals")
    /\ UNCHANGED <<journal, made, db, file, log, healed, status>>

RemoveJournals(p) ==
    /\ pc[p] = "removeJournals"
    /\ journal' = 0
    /\ healed' = healed \cup {p}
    /\ Goto(p, "start")
    /\ UNCHANGED <<path, made, db, file, log, status>>

\* a process is killed: SQLite releases its lock and rolls its transaction back
Crash(p) ==
    /\ pc[p] \notin {"closed", "failed"}
    /\ db' = [f \in Files |-> IF db[f].lock = p THEN [db[f] EXCEPT !.lock = NoProc] ELSE db[f]]
    /\ Goto(p, "failed")
    /\ UNCHANGED <<path, journal, made, file, log, healed, status>>

\* another program makes the file its own
OtherProgram ==
    /\ Others /\ path # 0
    /\ db[path].kind = "empty" /\ db[path].lock = NoProc
    /\ db' = [db EXCEPT ![path].kind = "foreign"]
    /\ UNCHANGED <<path, journal, made, pc, file, log, healed, status>>

Ended == \A p \in Procs : pc[p] \in {"closed", "failed"}

Step(p) ==
    \/ OpenFile(p) \/ Connect(p) \/ EnsureSchema(p) \/ Begin(p) \/ CreateSchema(p)
    \/ EnableWAL(p) \/ Store(p) \/ SaveRefreshStatus(p) \/ RemoveIndex(p) \/ RemoveJournals(p)

Next ==
    \/ \E p \in Procs : Step(p) \/ Canceled(p) \/ Crash(p)
    \/ OtherProgram
    \/ Ended /\ UNCHANGED vars

Spec == Init /\ [][Next]_vars /\ \A p \in Procs : WF_vars(Step(p))

(***************************************************************************)
(* Properties.                                                             *)
(***************************************************************************)
\* A process that stores in the index stores in an index of its own build or of a newer one that
\* took it over: never in a database of another program (historyIndex.ensureSchema).
StoresInIndex ==
    \A p \in Procs : pc[p] \in {"wal", "store", "stored"} =>
        db[file[p]].kind = "own" /\ db[file[p]].version >= Build[p]

\* What an explicit path holds is never moved, and never changed when it is not the index:
\* not even when another program takes the empty file while a search prepares it
\* (historyIndex.createSchema, enableWAL: "a database this build does not own is never modified").
OthersUntouched ==
    /\ path # 0 => path' = path
    /\ \A f \in Files : db[f].kind \in {"foreign", "broken"} =>
          [db'[f] EXCEPT !.lock = db[f].lock] = db[f]

\* Stored rows are dropped only by a build that replaces an older schema: searches that all found
\* the old one rebuild it once (historyIndex.createSchema: "observe one creator").
RebuiltOnce ==
    \A f \in Files : ~(db[f].rows \subseteq db'[f].rows) =>
       db'[f].version > db[f].version

\* Every open ends, whoever holds the lock and whoever dies with it (retryIndex).
OpenEnds == <>Ended

\* An index that some build can use is never removed by another process
\* (openHistoryIndex: "deleted and rebuilt once unless its own schema is newer").
UsableKept ==
    path # 0 /\ path' # path => db[path].kind # "own"

\* Processes with one database have one write-ahead log; with two, each overwrites what the other
\* has committed (Catalog.Search: "simultaneous calls are safe").
OneJournal ==
    \A p, q \in Procs :
        pc[p] \in {"store", "stored"} /\ pc[q] \in {"store", "stored"} /\ file[p] = file[q] =>
            log[p] = log[q]

\* refreshStatusFile.validForIndex, as a build b reads it
ValidForIndex(b) == status.version = b /\ status.ino = path /\ path # 0

\* A valid status is about the index at the path: it has what that refresh stored
\* (Catalog.RefreshStatus: "Missing, corrupt, or stale status returns an error").
StatusIsTrue ==
    \A b \in {Build[p] : p \in Procs} : ValidForIndex(b) =>
        db[path].version = b /\ status.by \in db[path].rows
==============================================================================
