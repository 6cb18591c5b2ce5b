------------------------------ MODULE PluginInstall ------------------------------
(* The installation, upgrade and removal of a plugin directory by                *)
(* internal/install: recovery of interrupted replacements, staging, backup,      *)
(* replacement by rename, the import manifest or the registration with the       *)
(* harness that goes with the directory, commit and rollback.  Processes are     *)
(* aht commands; any of them may be killed between two calls of the file system  *)
(* and any call that changes something may fail.                                 *)
EXTENDS Naturals, Sequences, FiniteSets, SequencesExt

CONSTANTS
    Procs,        \* commands that may run at the same time
    Kind,         \* "manifest" (agy) or "registered" (openclaw, hermes)
    Operations,   \* a subset of {"install", "force", "upgrade", "remove"}
    FirstDirs,    \* what the directory may hold at first: "none", "old", "mixed", "user"
    FirstRegs,    \* registration states at first
    MaxOps,       \* bound: commands started
    MaxCrashes,   \* bound: commands killed
    MaxFails      \* bound: calls that fail

VARIABLES
    fs,      \* path -> the files of that directory; paths that exist only
    order,   \* the existing paths by modification time, the newest last
    next,    \* the next unused name for a temporary directory
    manifest,\* the names in the import manifest
    reg,     \* the state of the registration as Inspect reports it
    st,      \* what every process is doing
    ghost,   \* what commands have reported, for the properties
    used     \* commands, crashes and failures so far

vars == <<fs, order, next, manifest, reg, st, ghost, used>>

Names == {"marker", "code"}
Version(v) == {<<n, v>> : n \in Names}
Dir == <<"dir", 0>>
None == <<"none", 0>>
Kinds(k) == {path \in DOMAIN fs : path[1] = k}
At(path) == IF path \in DOMAIN fs THEN fs[path] ELSE {}

Idle == [pc |-> "idle", op |-> "none", stage |-> None, backup |-> None, moved |-> FALSE,
         left |-> {}, todo |-> <<>>, then |-> "end", result |-> "none", newest |-> None,
         second |-> FALSE, preserve |-> FALSE, recovered |-> FALSE, read |-> {}, regBefore |-> "missing",
         was |-> <<>>, failed |-> FALSE]

Init ==
    /\ \E first \in FirstDirs :
          /\ fs = CASE first = "none" -> [q \in {} |-> {}]
                    [] first = "old"  -> Dir :> Version("old")
                    [] first = "mixed" -> Dir :> Version("new") \cup {<<"notes", "user">>}
                    [] first = "user" -> Dir :> {<<"notes", "user">>}
          /\ order = IF first = "none" THEN <<>> ELSE <<Dir>>
          /\ manifest = {"other"} \cup (IF first \in {"old", "mixed"} /\ Kind = "manifest" THEN {"aht"} ELSE {})
          /\ ghost = [user |-> first = "user", wanted |-> "any", bad |-> FALSE]
    /\ reg \in IF Kind = "registered" THEN FirstRegs ELSE {"missing"}
    /\ next = 1
    /\ st = [p \in Procs |-> Idle]
    /\ used = [ops |-> 0, crashes |-> 0, fails |-> 0]

(* The file system. *)
Set(path, files) ==
    /\ fs' = (path :> files) @@ fs
    /\ order' = Append(SelectSeq(order, LAMBDA q : q # path), path)

Drop(path) ==
    /\ fs' = [q \in DOMAIN fs \ {path} |-> fs[q]]
    /\ order' = SelectSeq(order, LAMBDA q : q # path)
\* os.Rename replaces an empty directory and fails on one with entries.
CanRename(from, to) == from \in DOMAIN fs /\ At(to) = {}
Rename(from, to) ==
    /\ fs' = [q \in (DOMAIN fs \ {from}) \cup {to} |-> IF q = to THEN fs[from] ELSE fs[q]]
    /\ order' = [i \in 1 .. Len(SelectSeq(order, LAMBDA q : q # to)) |->
                    LET q == SelectSeq(order, LAMBDA r : r # to)[i] IN IF q = from THEN to ELSE q]
\* os.Remove of the empty directory that gave the backup its name, then os.Rename.
MoveAside(to) ==
    LET rest == SelectSeq(order, LAMBDA q : q # to)
    IN /\ fs' = [q \in (DOMAIN fs \ {Dir}) \cup {to} |-> IF q = to THEN fs[Dir] ELSE fs[q]]
       /\ order' = [i \in 1 .. Len(rest) |-> IF rest[i] = Dir THEN to ELSE rest[i]]

Goto(p, pc) == st' = [st EXCEPT ![p].pc = pc]
Step(p, changes) == st' = [st EXCEPT ![p] = changes @@ @]
FsSame == UNCHANGED <<fs, order>>
Rest == UNCHANGED <<ghost, used>>

\* RemoveAll of the paths, then the step `then`.
Sweeping(paths, then) == [pc |-> "sweep", todo |-> paths, then |-> then]

\* A command returns; wanted is what the user was told last.
Return(p, result) ==
    /\ st' = [st EXCEPT ![p] = Idle]
    /\ ghost' = [ghost EXCEPT
          !.wanted = CASE result = "done" /\ st[p].op \in {"install", "force"} -> "present"
                       [] result = "done" /\ st[p].op = "remove" -> "absent"
                       [] OTHER -> @,
          !.bad = @ \/ (result = "done" /\ st[p].op # "remove" /\ At(Dir) # Version("new"))]

(* Commands. *)
Start(p) ==
    /\ st[p].pc = "idle"
    /\ used.ops < MaxOps
    /\ \E op \in Operations :
          st' = [st EXCEPT ![p] = [Idle EXCEPT !.op = op,
                                     !.pc = IF op = "remove" THEN "remove" ELSE "recover"]]
    /\ used' = [used EXCEPT !.ops = @ + 1]
    /\ ghost' = [ghost EXCEPT !.wanted = IF st'[p].op \in {"install", "force"} THEN "any" ELSE @]
    /\ UNCHANGED <<fs, order, next, manifest, reg>>

\* managed: a directory that is not there counts as managed.
Managed(path) == path \notin DOMAIN fs \/ \E v \in {"old", "new"} : <<"marker", v>> \in fs[path]

\* collectBackup: an empty backup directory is only a name that was reserved.
FullBackups == {b \in Kinds("backup") : fs[b] # {}}

\* inspectRecovery: a backup that is not managed refuses the command, forced or not.
Recover(p) ==
    /\ st[p].pc = "recover"
    /\ IF \E b \in FullBackups : ~Managed(b)
       THEN Step(p, [pc |-> "end", result |-> "refused"])
       ELSE LET full == SelectSeq(order, LAMBDA q : q \in FullBackups)
                stages == SelectSeq(order, LAMBDA q : q[1] \in {"stage", "backup"} /\ q \notin FullBackups)
            IN Step(p, [pc |-> "restore",
                        newest |-> IF full = <<>> THEN None ELSE Last(full),
                        recovered |-> st[p].recovered \/ full \o stages # <<>>,
                        todo |-> full \o stages])
    /\ FsSame /\ Rest /\ UNCHANGED <<next, manifest, reg>>

AfterRecovery(p) == IF st[p].op = "upgrade" /\ ~st[p].second THEN "native" ELSE "prepare"

\* Mutant: the leftovers are removed without restoring one.
RestoreNothing(p) ==
    /\ st[p].pc = "restore"
    /\ FsSame /\ Step(p, Sweeping(st[p].todo, AfterRecovery(p)))
    /\ Rest /\ UNCHANGED <<next, manifest, reg>>
\* recover: the newest backup becomes the directory again when there is none.
RestoreNewest(p) ==
    /\ st[p].pc = "restore"
    /\ IF Dir \in DOMAIN fs \/ st[p].newest = None
       THEN FsSame /\ Step(p, Sweeping(st[p].todo, AfterRecovery(p)))
       ELSE IF CanRename(st[p].newest, Dir)
            THEN Rename(st[p].newest, Dir) /\ Step(p, Sweeping(st[p].todo, AfterRecovery(p)))
            ELSE FsSame /\ Step(p, [pc |-> "end", result |-> "failed"])
    /\ Rest /\ UNCHANGED <<next, manifest, reg>>

\* removeAll: one entry at a time, in any order, and the directory last.
Sweep(p) ==
    /\ st[p].pc = "sweep"
    /\ IF st[p].todo = <<>>
       THEN FsSame /\ Goto(p, st[p].then)
       ELSE LET path == Head(st[p].todo)
            IN IF path \notin DOMAIN fs
               THEN FsSame /\ Step(p, [todo |-> Tail(st[p].todo)])
               ELSE IF fs[path] = {}
                    THEN Drop(path) /\ Step(p, [todo |-> Tail(st[p].todo)])
                    ELSE \E file \in fs[path] : Set(path, fs[path] \ {file}) /\ UNCHANGED st
    /\ Rest /\ UNCHANGED <<next, manifest, reg>>

(* Inspection before an upgrade. *)
\* registeredPluginMissingMarker: the harness knows the directory, only the marker is gone.
MissingMarker ==
    /\ Kind = "registered"
    /\ Dir \in DOMAIN fs
    /\ ~ \E v \in {"old", "new"} : <<"marker", v>> \in fs[Dir]
    /\ reg \in {"current", "stale", "disabled"}

\* inspectOwnedPath and inspectPluginFiles: the directory and its files.
DirStatus ==
    IF Dir \notin DOMAIN fs THEN {"missing"}
    ELSE IF ~Managed(Dir)
         THEN IF MissingMarker THEN {"missing"} ELSE {"foreign"}
         ELSE {IF <<"marker", "new">> \in fs[Dir] THEN "current" ELSE "stale"}
              \cup (IF \E v \in {"old", "new"} : <<"code", v>> \in fs[Dir] THEN {} ELSE {"missing"})
\* inspectPluginImportManifest
ManifestStatus == IF "aht" \in manifest THEN {"current"} ELSE {"missing"}
\* inspectPluginAction
Inspected == DirStatus \cup (IF Kind = "registered" THEN {reg} ELSE ManifestStatus)

\* inspectIntegrationPlan and mergeInspectedArtifact, as installedNative reads them.
InstalledNative ==
    /\ "foreign" \notin Inspected
    /\ Inspected \cap {"current", "stale", "disabled"} # {}

\* Mutant: a disabled registration is installed again like a missing one.
NativeEnables(p) ==
    /\ st[p].pc = "native"
    /\ IF InstalledNative \/ st[p].recovered
       THEN Step(p, [pc |-> "recover", second |-> TRUE])
       ELSE Step(p, [pc |-> "end", result |-> "nothing"])
    /\ FsSame /\ Rest /\ UNCHANGED <<next, manifest, reg>>
\* UpgradeHarness and upgradeNative: what the registration allows.
Native(p) ==
    /\ st[p].pc = "native"
    /\ LET again(preserve) == Step(p, [pc |-> "recover", second |-> TRUE, preserve |-> preserve])
       IN CASE ~InstalledNative /\ ~st[p].recovered ->
                 Step(p, [pc |-> "end", result |-> "nothing"])
            [] Kind = "registered" /\ reg = "foreign" /\ (InstalledNative \/ st[p].recovered) ->
                 Step(p, [pc |-> "end", result |-> "refused"])
            [] Kind = "registered" /\ reg = "disabled" /\ (InstalledNative \/ st[p].recovered) ->
                 Step(p, [pc |-> "end", result |-> "preserved"])
            [] OTHER -> again(Kind = "registered" /\ reg # "missing")
    /\ FsSame /\ Rest /\ UNCHANGED <<next, manifest, reg>>

(* Installation. *)
Force(p) == st[p].op = "force"

\* ensureManaged
EnsureManaged(p) == Managed(Dir) \/ Force(p) \/ MissingMarker
\* hasStaleFiles: entries that the plan does not name.
HasStaleFiles == \E file \in At(Dir) : file[1] \notin Names

NeedsUpdate == HasStaleFiles \/ \E name \in Names : <<name, "new">> \notin At(Dir)
Registers(p) == Kind = "registered" /\ ~st[p].preserve

\* preparePluginDirectory, then plannedImportManifest or installRegisteredPlugin.
Prepare(p) ==
    /\ st[p].pc = "prepare"
    /\ LET linked == IF Registers(p) THEN reg = "current"
                     ELSE Kind = "registered" \/ "aht" \in manifest
       IN CASE ~EnsureManaged(p) ->
                 Step(p, [pc |-> "end", result |-> "refused"])
            [] EnsureManaged(p) /\ Registers(p) /\ reg = "foreign" /\ ~Force(p) ->
                 Step(p, [pc |-> "end", result |-> "refused"])
            [] OTHER ->
                 Step(p, [pc |-> IF NeedsUpdate THEN "stage" ELSE IF linked THEN "end" ELSE "link",
                          result |-> "done", read |-> manifest, regBefore |-> reg,
                          was |-> <<At(Dir), Dir \in DOMAIN fs, manifest, reg>>])
    /\ FsSame /\ Rest /\ UNCHANGED <<next, manifest, reg>>

\* stage: MkdirTemp.
Stage(p) ==
    /\ st[p].pc = "stage"
    /\ Set(<<"stage", next>>, {})
    /\ next' = next + 1
    /\ Step(p, [pc |-> "write", stage |-> <<"stage", next>>, left |-> Names])
    /\ Rest /\ UNCHANGED <<manifest, reg>>

\* writeStagedPluginFile: its MkdirAll creates a missing stage directory again.
WriteFile(p) ==
    /\ st[p].pc = "write"
    /\ \E name \in st[p].left :
          /\ Set(st[p].stage, At(st[p].stage) \cup {<<name, "new">>})
          /\ Step(p, [left |-> st[p].left \ {name},
                      pc |-> IF st[p].left = {name} THEN "reserve" ELSE "write"])
    /\ Rest /\ UNCHANGED <<next, manifest, reg>>

\* backupCurrent: MkdirTemp reserves the name of the backup.
Reserve(p) ==
    /\ st[p].pc = "reserve"
    /\ Set(<<"backup", next>>, {})
    /\ next' = next + 1
    /\ Step(p, [pc |-> "move", backup |-> <<"backup", next>>])
    /\ Rest /\ UNCHANGED <<manifest, reg>>

StageGone(p) == IF st[p].stage = None THEN <<>> ELSE <<st[p].stage>>

\* backupCurrent: the directory, when there is one, takes the name of the backup.
MoveCurrent(p) ==
    /\ st[p].pc = "move"
    /\ LET after == IF st[p].op = "remove" THEN "unlink" ELSE "replace"
       IN IF At(st[p].backup) # {} \/ st[p].backup \notin DOMAIN fs
          THEN FsSame /\ Step(p, [result |-> "failed", failed |-> TRUE] @@ Sweeping(StageGone(p), "end"))
          ELSE IF Dir \in DOMAIN fs
               THEN MoveAside(st[p].backup) /\ Step(p, [pc |-> after, moved |-> TRUE])
               ELSE Drop(st[p].backup) /\ Step(p, [pc |-> after, moved |-> FALSE])
    /\ Rest /\ UNCHANGED <<next, manifest, reg>>

\* restoreBackup, when there is something to restore and a place for it.
RestoreBackup(p) ==
    IF st[p].moved /\ CanRename(st[p].backup, Dir) THEN Rename(st[p].backup, Dir) ELSE FsSame

\* replace: the staged directory takes its place; when it cannot, the backup returns.
Replace(p) ==
    /\ st[p].pc = "replace"
    /\ IF CanRename(st[p].stage, Dir)
       THEN Rename(st[p].stage, Dir) /\ Goto(p, "link")
       ELSE RestoreBackup(p) /\ Step(p, [result |-> "failed", failed |-> TRUE] @@ Sweeping(StageGone(p), "end"))
    /\ Rest /\ UNCHANGED <<next, manifest, reg>>

\* commitReplacement
Committing(p) == Sweeping(IF st[p].moved THEN <<st[p].backup>> ELSE <<>>, "end")

\* upsertImport and removeImport: the entries of others are kept.
UpsertImport(imports) == imports \cup {"aht"}
RemoveImport(imports) == imports \ {"aht"}

\* A forced replacement of what was not aht's is about to be committed.
Forced(p) == ghost' = [ghost EXCEPT !.user = @ /\ ~(Force(p) /\ st[p].moved)]

\* writePluginDirectoryChanges: the manifest that was planned from the one read before.
WriteManifest(p) ==
    /\ st[p].pc = "link" /\ ~Registers(p)
    /\ manifest' = IF Kind = "manifest" /\ "aht" \notin st[p].read THEN UpsertImport(st[p].read) ELSE manifest
    /\ Step(p, Committing(p))
    /\ Forced(p) /\ FsSame /\ UNCHANGED <<next, reg, used>>

\* applyRegisteredPlugin: the harness registers the directory.
Register(p) ==
    /\ st[p].pc = "link" /\ Registers(p)
    /\ reg' = "current"
    /\ Step(p, Committing(p))
    /\ Forced(p) /\ FsSame /\ UNCHANGED <<next, manifest, used>>

\* rollbackPluginDirectoryAndManifest: first the directory,
Undo(p) ==
    /\ st[p].pc = "undo"
    /\ RestoreBackup(p)
    /\ Goto(p, IF Kind = "manifest" THEN "unwrite" ELSE "end")
    /\ Rest /\ UNCHANGED <<next, manifest, reg>>
\* then the manifest as prepareImportManifestRollback has read it.
UndoManifest(p) ==
    /\ st[p].pc = "unwrite"
    /\ manifest' = st[p].read
    /\ Goto(p, "end")
    /\ FsSame /\ Rest /\ UNCHANGED <<next, reg>>

(* Removal. *)
\* removePluginDirectory, and removeRegisteredPlugin up to its first change.
RemovePlugin(p) ==
    /\ st[p].pc = "remove"
    /\ LET exists == Dir \in DOMAIN fs
           linked == IF Kind = "registered" THEN reg # "missing" ELSE "aht" \in manifest
       IN CASE ~Managed(Dir) \/ (Kind = "registered" /\ reg = "foreign") ->
                 Step(p, [pc |-> "end", result |-> "refused"])
            [] Managed(Dir) /\ ~(Kind = "registered" /\ reg = "foreign") /\ ~exists /\ ~linked ->
                 Step(p, [pc |-> "end", result |-> "done"])
            [] OTHER ->
                 Step(p, [result |-> "done", read |-> manifest, regBefore |-> reg,
                          was |-> <<At(Dir), exists, manifest, reg>>,
                          pc |-> IF Kind = "manifest" /\ exists THEN "reserve" ELSE "unlink"])
    /\ FsSame /\ Rest /\ UNCHANGED <<next, manifest, reg>>

\* applyPluginRemovalWithFinalizer: the manifest without the entry, then the backup goes.
UnlinkManifest(p) ==
    /\ st[p].pc = "unlink" /\ Kind = "manifest"
    /\ manifest' = IF "aht" \in st[p].read THEN RemoveImport(st[p].read) ELSE manifest
    /\ Step(p, Committing(p))
    /\ FsSame /\ Rest /\ UNCHANGED <<next, reg>>

\* removeRegisteredPlugin: the registration, then the directory itself.
Unregister(p) ==
    /\ st[p].pc = "unlink" /\ Kind = "registered"
    /\ reg' = "missing"
    /\ Step(p, Sweeping(<<Dir>>, "end"))
    /\ FsSame /\ Rest /\ UNCHANGED <<next, manifest>>

End(p) ==
    /\ st[p].pc = "end"
    /\ Return(p, st[p].result)
    /\ FsSame /\ UNCHANGED <<next, manifest, reg, used>>

(* Faults. *)
\* The registration's Install fails, perhaps half done; CleanupFailedInstall removes a
\* registration that was not there before.
RegistrationFails(p) ==
    IF ~Registers(p) THEN {reg} ELSE IF st[p].regBefore = "missing" THEN {"missing"} ELSE {reg, "stale"}

\* A call of the file system or of the harness fails, and the command gives up.
Fails(p) ==
    /\ used.fails < MaxFails
    /\ used' = [used EXCEPT !.fails = @ + 1]
    /\ LET failing == [result |-> "failed", failed |-> TRUE]
       IN \/ /\ st[p].pc \in {"restore", "sweep"} /\ st[p].todo # <<>>
             /\ Step(p, failing @@ [pc |-> IF st[p].then = "undo" THEN "undo" ELSE "end"])
             /\ FsSame /\ UNCHANGED <<manifest, reg>>
          \/ /\ st[p].pc \in {"write", "reserve", "move"}
             /\ IF st[p].pc = "move" /\ At(st[p].backup) = {} THEN Drop(st[p].backup) ELSE FsSame
             /\ Step(p, failing @@ Sweeping(StageGone(p), "end"))
             /\ UNCHANGED <<manifest, reg>>
          \/ /\ st[p].pc = "replace"
             /\ RestoreBackup(p)
             /\ Step(p, failing @@ Sweeping(StageGone(p), "end"))
             /\ UNCHANGED <<manifest, reg>>
          \/ /\ st[p].pc = "link"
             /\ Registers(p) \/ (Kind = "manifest" /\ "aht" \notin st[p].read)
             /\ manifest' \in {manifest, IF Kind = "manifest" THEN UpsertImport(st[p].read) ELSE manifest}
             /\ reg' \in RegistrationFails(p)
             /\ Step(p, failing @@ [read |-> manifest] @@
                        IF st[p].stage # None THEN Sweeping(<<Dir>>, "undo") ELSE [pc |-> "undo"])
             /\ FsSame
          \/ /\ st[p].pc = "unlink"
             /\ IF Kind = "manifest"
                THEN /\ "aht" \in st[p].read
                     /\ manifest' \in {manifest, RemoveImport(st[p].read)}
                     /\ Step(p, failing @@ [read |-> manifest, pc |-> "undo"])
                ELSE Step(p, failing @@ [pc |-> "end"]) /\ UNCHANGED manifest
             /\ FsSame /\ UNCHANGED reg
    /\ UNCHANGED <<next, ghost>>

Crash(p) ==
    /\ st[p].pc # "idle"
    /\ used.crashes < MaxCrashes
    /\ used' = [used EXCEPT !.crashes = @ + 1]
    /\ st' = [st EXCEPT ![p] = Idle]
    /\ UNCHANGED <<fs, order, next, manifest, reg, ghost>>

Next == \E p \in Procs :
    \/ Start(p) \/ Recover(p) \/ RestoreNewest(p) \/ Sweep(p) \/ Native(p) \/ Prepare(p)
    \/ Stage(p) \/ WriteFile(p) \/ Reserve(p) \/ MoveCurrent(p) \/ Replace(p)
    \/ WriteManifest(p) \/ Register(p)
    \/ Undo(p) \/ UndoManifest(p) \/ RemovePlugin(p) \/ UnlinkManifest(p) \/ Unregister(p) \/ End(p) \/ Fails(p) \/ Crash(p)

Spec == Init /\ [][Next]_vars

-----------------------------------------------------------------------------
Complete(files) == \E v \in {"old", "new"} : Version(v) \subseteq files
Busy == \E p \in Procs : st[p].pc # "idle"

TypeOK ==
    /\ DOMAIN fs = {order[i] : i \in 1 .. Len(order)}
    /\ \A path \in DOMAIN fs : fs[path] \subseteq (Names \cup {"notes"}) \X {"old", "new", "user"}
    /\ manifest \subseteq {"aht", "other"}
    /\ reg \in {"missing", "current", "stale", "disabled", "foreign"}
    /\ next <= 2 * MaxOps + 1

\* While nothing is removed, the user's plugin is never lost: some complete version of
\* it is the directory, or is the backup that the next command would restore.
PluginKept ==
    \/ Complete(At(Dir))
    \/ /\ At(Dir) = {} \/ Busy
       /\ \E b \in FullBackups : Complete(fs[b])

\* all-or-restore: a command that fails by itself ends with what it found, or with
\* the new plugin in place.  (The removal of a registered plugin has no way back.)
AllOrRestore ==
    \A p \in Procs :
        st[p].pc = "end" /\ st[p].failed /\ st[p].was # <<>> /\ ~(st[p].op = "remove" /\ Kind = "registered") =>
            \/ <<At(Dir), Dir \in DOMAIN fs, manifest>> = SubSeq(st[p].was, 1, 3)
            \/ st[p].op # "remove" /\ At(Dir) = Version("new")
            \/ st[p].op = "remove" /\ Dir \notin DOMAIN fs

\* Content that is not of aht stays somewhere until a forced command has put the plugin in its place.
UserKept == ghost.user => \E path \in DOMAIN fs : <<"notes", "user">> \in fs[path]

\* A command that reports success leaves the whole plugin.
SuccessIsComplete == ~ghost.bad

\* What was removed does not come back by an upgrade.
RemovedStaysRemoved == ghost.wanted = "absent" => Dir \notin DOMAIN fs

\* --force replaces whatever is there.
ForceReplaces == \A p \in Procs : ~(st[p].pc = "end" /\ st[p].op = "force" /\ st[p].result = "refused")

\* An upgrade never enables a registration that the user disabled.
DisabledStays ==
    (\E p \in Procs : st[p].op = "upgrade" /\ st'[p] # st[p]) /\ reg = "disabled"
      => reg' = "disabled"
====
