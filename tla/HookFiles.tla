-------------------------------- MODULE HookFiles --------------------------------
(* aht's command hooks inside a configuration file that belongs to the harness  *)
(* and its user (internal/install hooks.go, harness_plan.go, remove.go): hooks  *)
(* of aht are recognised by their command, installed, refreshed, found current, *)
(* trusted (codex) and removed, while the file is also edited by others.        *)
EXTENDS Naturals, Sequences, FiniteSets, SequencesExt

CONSTANTS
    Format,     \* "wrapped" (claude, codex, qwen), "root" (droid) or "cursor"
    Marked,     \* ~OmitStatusMessage: installed hooks carry the marker
    HasTrust,   \* the harness has to trust the hooks (codex)
    Edits,      \* the edits that others may make, a subset of EditKinds
    MaxEdits,   \* bound: edits by others
    MaxOps      \* bound: aht commands

VARIABLES
    file,     \* place -> event -> the groups of hooks under that event
    bad,      \* events whose value the user made something else than an array
    op,       \* the running command and what it has read
    trusted,  \* hooks whose hash the harness trusts
    after,    \* what the last command did: its kind, binary and whether it succeeded
    lost,     \* a user's hook has been lost
    used      \* commands and edits so far

vars == <<file, bad, op, trusted, after, lost, used>>

Places == {"hooks", "root"}
Events == {"start", "stop", "retired"}
PlanEvents == {"start", "stop"}
Binaries == {"A", "B"}
EditKinds == {"append", "merge", "other", "copy", "bad", "race"}
Home == IF Format = "root" THEN "root" ELSE "hooks"

NoHooks == [place \in Places |-> [event \in Events |-> <<>>]]

(* A hook is known by its command: a report command names its reporter; a native  *)
(* hook command is only the binary and the event.                                 *)
Hook(form, bin, marked) == [form |-> form, bin |-> bin, marked |-> marked]
UserNames == <<"u1", "u2", "u3">>
User(n) == Hook("user", UserNames[n + 1], FALSE)
Group(hooks, extra) == [hooks |-> hooks, extra |-> extra]

\* buildJSONCommandHooks: claude's start hook is native, the others are reports.
DesiredHook(event, bin) == Hook(IF event = "start" /\ Format = "wrapped" /\ ~HasTrust THEN "native" ELSE "report", bin, Marked)
\* commandHookGroup
DesiredGroups(event, bin) == <<Group(<<DesiredHook(event, bin)>>, FALSE)>>

HooksIn(groups) == UNION {ToSet(groups[i].hooks) : i \in DOMAIN groups}
AllHooks(f) == UNION {HooksIn(f[place][event]) : place \in Places, event \in Events}

(* Recognising a hook. *)
Tagged(hook) == hook.form = "report"
\* ownedHookBinary: a tagged report, or a native hook with the marker.
OwnedHookBinary(hook) == IF Tagged(hook) \/ (hook.marked /\ hook.form = "native") THEN {hook.bin} ELSE {}
\* collectOwnedHookBinaries
CollectOwned(hooks) == UNION {OwnedHookBinary(h) : h \in hooks}
\* isManagedSourceHookCommand and canonicalNativeHookCommand
IsManaged(hook, binaries) == Tagged(hook) \/ (hook.form = "native" /\ hook.bin \in binaries)

(* Command hook groups. *)
CountManaged(group, bins) == Len(SelectSeq(group.hooks, LAMBDA h : IsManaged(h, bins)))

\* removeManagedCommandHookGroups: groups that become empty go, others keep their rest.
RemoveManagedGroups(groups, bins) ==
    LET cleaned == [i \in DOMAIN groups |->
            [groups[i] EXCEPT !.hooks = SelectSeq(@, LAMBDA h : ~IsManaged(h, bins))]]
        kept == SelectSeq([i \in DOMAIN groups |-> i],
                          LAMBDA i : CountManaged(groups[i], bins) = 0 \/ cleaned[i].hooks # <<>>)
    IN [i \in DOMAIN kept |-> cleaned[kept[i]]]

\* managedCommandHookGroupsCurrent: the managed groups are the desired ones, in order.
GroupsCurrent(groups, desired, bins) ==
    SelectSeq(groups, LAMBDA g : CountManaged(g, bins) > 0) = desired

\* upsertManagedCommandHookGroups
UpsertGroups(groups, desired, bins) ==
    IF GroupsCurrent(groups, desired, bins) THEN groups ELSE RemoveManagedGroups(groups, bins) \o desired

(* Cursor's flat list. *)

\* countManagedCursorHooks: one managed hook, and it is the desired command.
CursorCurrent(groups, hook, bins) ==
    \E i \in DOMAIN groups :
        /\ groups[i].hooks = <<hook>>
        /\ \A j \in DOMAIN groups \ {i} : CountManaged(groups[j], bins) = 0
\* upsertCursorHook
UpsertCursor(groups, hook, bins) ==
    IF CursorCurrent(groups, hook, bins) THEN groups
    ELSE RemoveManagedGroups(groups, bins) \o <<Group(<<hook>>, FALSE)>>

(* Whole files. *)
\* removeManagedCommandHookEvents, for every event of one place.
RemoveEvents(events, bins) == [event \in Events |-> RemoveManagedGroups(events[event], bins)]

\* applyJSONCommandHooks: planned events are brought up to date, the others cleaned;
\* with hooks at the root, the wrapper of earlier versions is cleaned first.
ApplyGroups(f, bin) ==
    LET bins == CollectOwned(AllHooks(f) \cup {DesiredHook(e, bin) : e \in PlanEvents})
        unwrapped == IF Home = "root" THEN [f EXCEPT !["hooks"] = RemoveEvents(@, bins)] ELSE f
    IN [unwrapped EXCEPT ![Home] = [event \in Events |->
          IF event \in PlanEvents THEN UpsertGroups(@[event], DesiredGroups(event, bin), bins)
          ELSE RemoveManagedGroups(@[event], bins)]]
\* applyCursorJSONHooks: report commands only, and only in the planned events.
CursorHook(bin) == Hook("report", bin, FALSE)
ApplyCursor(f, bin) ==
    [f EXCEPT !["hooks"] = [event \in Events |->
        IF event \in PlanEvents THEN UpsertCursor(@[event], CursorHook(bin), CollectOwned(AllHooks(f))) ELSE @[event]]]
Apply(f, bin) == IF Format = "cursor" THEN ApplyCursor(f, bin) ELSE ApplyGroups(f, bin)

\* removeJSONCommandHooks: both places when the hooks are at the root.
RemoveGroups(f) ==
    LET bins == CollectOwned(AllHooks(f))
        unwrapped == [f EXCEPT !["hooks"] = RemoveEvents(@, bins)]
    IN IF Home = "root" THEN [unwrapped EXCEPT !["root"] = RemoveEvents(@, bins)] ELSE unwrapped

\* removeCursorJSONHooks: the planned events only.
RemoveCursor(f) ==
    LET bins == CollectOwned(AllHooks(f))
    IN [f EXCEPT !["hooks"] = [event \in Events |->
          IF event \in PlanEvents THEN RemoveManagedGroups(@[event], bins) ELSE @[event]]]
RemoveHooks(f) == IF Format = "cursor" THEN RemoveCursor(f) ELSE RemoveGroups(f)

\* hookEventList: an install refuses a planned event that is not an array.
Refuses(kind) == kind = "install" /\ bad \cap PlanEvents # {}

(* Commands: readJSONObject, apply, and writeFileAtomic later. *)
NoOp == [kind |-> "none", bin |-> "A", result |-> NoHooks, step |-> "none"]

Read ==
    /\ op.kind = "none"
    /\ used.ops < MaxOps
    /\ \E kind \in {"install", "remove"}, bin \in Binaries :
          op' = [kind |-> kind, bin |-> bin, step |-> "write",
                 result |-> IF Refuses(kind) THEN file
                            ELSE IF kind = "install" THEN Apply(file, bin) ELSE RemoveHooks(file)]
    /\ used' = [used EXCEPT !.ops = @ + 1]
    /\ after' = [kind |-> "none", bin |-> "A", ok |-> FALSE]
    /\ UNCHANGED <<file, bad, trusted, lost>>

UserHooks(f) == {h \in AllHooks(f) : h.form = "user" \/ h.bin = "C"}

\* installJSONHookFile or removeJSONHooks: the file is replaced by what was computed.
Write ==
    /\ op.step = "write"
    /\ file' = op.result
    /\ lost' = (lost \/ UserHooks(file) # UserHooks(op.result))
    /\ IF op.kind = "install" /\ ~Refuses(op.kind) /\ HasTrust
       THEN op' = [op EXCEPT !.step = "trust"] /\ UNCHANGED after
       ELSE op' = NoOp /\ after' = [kind |-> op.kind, bin |-> op.bin, ok |-> ~Refuses(op.kind)]
    /\ UNCHANGED <<bad, trusted, used>>

\* hookTrust.list: the hooks of the file whose command the plan names, all of them or none.
Listed(bin) ==
    LET wanted == {DesiredHook(e, bin) : e \in PlanEvents}
        same(h) == \E d \in wanted : d.form = h.form /\ d.bin = h.bin
    IN {h \in AllHooks(file) : same(h)}
\* hookTrust.Install, after the file was written.
Trust ==
    /\ op.step = "trust"
    /\ LET complete == \A e \in PlanEvents : \E h \in Listed(op.bin) :
                          h.form = DesiredHook(e, op.bin).form /\ h.bin = op.bin
       IN /\ trusted' = IF complete THEN trusted \cup Listed(op.bin) ELSE trusted
          /\ after' = [kind |-> op.kind, bin |-> op.bin, ok |-> complete]
    /\ op' = NoOp
    /\ UNCHANGED <<file, bad, lost, used>>

(* Others edit the file. *)
Edit ==
    /\ used.edits < MaxEdits
    /\ "race" \in Edits \/ op.kind = "none"
    /\ used' = [used EXCEPT !.edits = @ + 1]
    /\ LET n == used.edits
       IN \/ /\ "append" \in Edits   \* a hook in a group of its own
             /\ \E e \in Events : file' = [file EXCEPT ![Home][e] = Append(@, Group(<<User(n)>>, TRUE))]
             /\ bad' = bad
          \/ /\ "merge" \in Edits    \* a hook in the group that aht wrote
             /\ Format # "cursor"
             /\ \E e \in Events : \E i \in DOMAIN file[Home][e] :
                   file' = [file EXCEPT ![Home][e][i].hooks = Append(@, User(n))]
             /\ bad' = bad
          \/ /\ "other" \in Edits    \* a native hook of a binary that is not aht's to manage
             /\ \E e \in Events :
                   file' = [file EXCEPT ![Home][e] = Append(@, Group(<<Hook("native", "C", FALSE)>>, FALSE))]
             /\ bad' = bad
          \/ /\ "copy" \in Edits     \* a report hook of aht, copied from another file
             /\ \E e \in PlanEvents :
                   file' = [file EXCEPT ![Home][e] = Append(@, Group(<<Hook("report", "B", FALSE)>>, FALSE))]
             /\ bad' = bad
          \/ /\ "bad" \in Edits      \* an event that is not an array any more, or an array again
             /\ \E e \in Events : file[Home][e] = <<>> /\ bad' = IF e \in bad THEN bad \ {e} ELSE bad \cup {e}
             /\ file' = file
    /\ after' = [kind |-> "none", bin |-> "A", ok |-> FALSE]
    /\ UNCHANGED <<op, trusted, lost>>

\* Hooks as an earlier version left them, with an event that is not planned any more.
Earlier(place, events) ==
    [NoHooks EXCEPT ![place] = [event \in Events |->
        IF event \in events THEN <<Group(<<Hook("report", "B", Marked /\ Format # "cursor")>>, FALSE)>> ELSE <<>>]]

Init ==
    /\ file \in {NoHooks, Earlier("hooks", IF Format = "cursor" THEN PlanEvents ELSE Events), Earlier(Home, PlanEvents)}
    /\ bad = {}
    /\ op = NoOp
    /\ trusted = {}
    /\ after = [kind |-> "none", bin |-> "A", ok |-> FALSE]
    /\ lost = FALSE
    /\ used = [ops |-> 0, edits |-> 0]

Next == Read \/ Write \/ Trust \/ Edit
Spec == Init /\ [][Next]_vars

-----------------------------------------------------------------------------
Managed(f) == {h \in AllHooks(f) : h.form # "user" /\ h.bin \in Binaries}

TypeOK == /\ bad \subseteq Events
          /\ op.kind \in {"none", "install", "remove"} /\ op.step \in {"none", "write", "trust"}
          /\ \A place \in Places, e \in Events : \A i \in DOMAIN file[place][e] : file[place][e][i].hooks # <<>>

\* No command loses, or takes over, a hook of the user or of another program.
UserHooksKept == ~lost

\* After an install exactly the planned hooks of that binary are aht's, once each, and a
\* second install would find everything current.
InstalledIsCurrent ==
    after.ok /\ after.kind = "install" =>
        /\ Managed(file) = IF Format = "cursor" THEN {CursorHook(after.bin)}
                           ELSE {DesiredHook(e, after.bin) : e \in PlanEvents}
        /\ Apply(file, after.bin) = file

\* After a removal no hook that any version of aht installed is left.
RemovedIsClean == after.ok /\ after.kind = "remove" => Managed(file) = {}

\* Only hooks that aht installed are trusted on the user's behalf.
TrustsOnlyItsOwn == \A h \in trusted : h.form # "user" /\ h.bin \in Binaries
====
