----------------------------- MODULE StopSession -----------------------------
(***************************************************************************)
(* `aht stop`: internal/cli/manage.go with the selectors of pkg/client.    *)
(* Sessions are resolved from the registry, each is given a target (its    *)
(* tmux pane or its process), the target is validated against the machine  *)
(* and interrupted, while agents exit, are suspended or resumed elsewhere, *)
(* process numbers are reused and panes respawned.                         *)
(*                                                                         *)
(* The registry lags behind the machine: hooks and the tracker update a    *)
(* session in steps of their own. A session id is a pair of letters; a     *)
(* reference is an id or the beginning of one.                             *)
(***************************************************************************)
EXTENDS Naturals, Sequences, SequencesExt, FiniteSets, TLC

CONSTANTS
  Panes,         (* tmux panes                                             *)
  Pids,          (* process numbers                                        *)
  Outside,       (* whether an agent may be resumed outside tmux           *)
  MaxChanges     (* bound on changes of the machine and the registry       *)

StopAssumption ==
  /\ Panes # {} /\ "nowhere" \notin Panes
  /\ Pids \subseteq Nat \ {0} /\ Outside \in BOOLEAN
  /\ MaxChanges \in Nat

VARIABLES
  procs,      (* processes by number: what runs there                      *)
  shells,     (* the shell each pane was started with (PanePID)            *)
  sessions,   (* the registry                                              *)
  cmd,        (* the running stop command                                  *)
  hits,       (* interrupts of the command: for whom, whom they reached    *)
  changes

vars == <<procs, shells, sessions, cmd, hits, changes>>

Nowhere == "nowhere"
NoProc  == [start |-> 0]
NoId    == [pid |-> 0, start |-> 0]
NoLoc   == [pane |-> Nowhere, shell |-> 0]
Idle    == [phase |-> "idle"]
Ids     == {<<"a", "x">>, <<"a", "y">>}
References == Ids \cup {<<"a">>, <<"b">>}

Alive(p) == procs[p] # NoProc
Proc(start, pane, fg, agent) == [start |-> start, pane |-> pane, fg |-> fg, agent |-> agent]

\* What an interrupt typed into the pane reaches: its foreground process, or the shell.
InFront(pane) ==
  LET here == {p \in Pids : Alive(p) /\ procs[p].pane = pane /\ procs[p].fg}
  IN IF here = {} THEN NoId
     ELSE LET p == CHOOSE p \in here : TRUE IN [pid |-> p, start |-> procs[p].start]

Free(pane) == pane = Nowhere \/ InFront(pane) = NoId

Init ==
  /\ shells = [q \in Panes |-> 1]
  /\ \E p \in Pids, place \in Panes :
       /\ procs = [x \in Pids |-> IF x = p THEN Proc(1, place, TRUE, TRUE) ELSE NoProc]
       /\ \E own \in BOOLEAN :
            sessions \in [Ids -> [live : BOOLEAN, proc : {NoId, [pid |-> p, start |-> 1]},
                                  own : {own}, loc : {NoLoc, [pane |-> place, shell |-> 1]},
                                  fg : {TRUE}]]
  /\ cmd = Idle /\ hits = {} /\ changes = 0

---------------------------------------------------------------------------
\* Resolution.

\* matchesReferenceCandidate, for registry ids.
MatchesReferenceCandidate(id, ref) == IsPrefix(ref, id)

\* resolveWithReference over all sessions: an exact id wins, else the only match.
ResolveWithReference(ref) ==
  LET matches == {id \in Ids : MatchesReferenceCandidate(id, ref)}
  IN IF ref \in Ids THEN ref
     ELSE IF Cardinality(matches) = 1 THEN CHOOSE id \in matches : TRUE
     ELSE <<>>

\* resolveStopSessions for explicit references: all of them or none.
ResolveStopSessions(args) ==
  IF \E r \in args : ResolveWithReference(r) = <<>> THEN [ok |-> FALSE, ids |-> {}]
  ELSE [ok |-> TRUE, ids |-> {ResolveWithReference(r) : r \in args}]

\* sharedHarnessProcess: the harness runs many sessions in one process.
SharedHarnessProcess(s) == ~s.own

\* stopTargetForSession: the pane if one is known, else a process of its own.
StopTargetForSession(s) ==
  CASE s.loc # NoLoc -> [method |-> "tmux-interrupt", target |-> s.loc.pane]
    [] s.loc = NoLoc /\ s.proc # NoId /\ ~SharedHarnessProcess(s) ->
         [method |-> "pid-interrupt", target |-> s.proc.pid]
    [] OTHER -> [method |-> "none", target |-> 0]

\* One entry for each session (resolveStopSessions), sorted by id (runManageStopSessions).
Sorted(ids) ==
  IF ids = Ids THEN << <<"a", "x">>, <<"a", "y">> >>
  ELSE IF ids = {} THEN << >> ELSE << CHOOSE id \in ids : TRUE >>

---------------------------------------------------------------------------
\* Validation.

\* tmuxTargetMatchesSession on what a pane is now.
TmuxTargetMatchesSession(loc) == shells[loc.pane] = loc.shell

\* validateProcessStopTarget: the number, the start and the command.
ProcessIsOurs(id) ==
  /\ id # NoId /\ Alive(id.pid)
  /\ procs[id.pid].start = id.start /\ procs[id.pid].agent

\* revalidateTmuxForegroundProcess: it is in the foreground of its terminal now.
InForeground(id) == procs[id.pid].fg

\* tmuxStopTargetValidation and validateTmuxStopTarget. Of a session whose hooks could not
\* name a process only the pane is judged.
ValidTmux(s) ==
  /\ TmuxTargetMatchesSession(s.loc)
  /\ s.proc # NoId => s.fg /\ ProcessIsOurs(s.proc) /\ InForeground(s.proc)

\* ValidateStopTarget. Observations older than 30 minutes are left out.
ValidateStopTarget(s, t) ==
  IF t.method = "tmux-interrupt" THEN ValidTmux(s) ELSE ProcessIsOurs(s.proc)

---------------------------------------------------------------------------
\* The command.

\* newStopCommand and runStop: `stop --all` takes the live sessions, `stop <ref>...`
\* the ones that are named; the snapshot of each is what is judged later (the code
\* reads the registry once for each reference). A dry run, which ends where the
\* interrupt would be sent, is left out.
Begin(all, args) ==
  LET r == IF all THEN [ok |-> TRUE, ids |-> {id \in Ids : sessions[id].live}]
           ELSE ResolveStopSessions(args)
  IN /\ cmd.phase = "idle"
     /\ all <=> args = {}
     /\ hits' = {}
     /\ cmd' = IF r.ok THEN [phase |-> "next", args |-> args, todo |-> Sorted(r.ids),
                             snapshot |-> sessions, seen |-> {}, calm |-> TRUE, skipped |-> {},
                             failed |-> {}]
               ELSE Idle
     /\ UNCHANGED <<procs, shells, sessions, changes>>

\* runManageStopSessions: only a validated target counts as seen.
SeenAfter(seen, t, valid) == IF valid THEN seen \cup {t} ELSE seen

\* runManageStopSessions: the next session is skipped, or goes on to be interrupted. What
\* is asked of tmux or of the process may fail, and the session counts as failed.
Validate(fails) ==
  /\ cmd.phase = "next" /\ cmd.todo # <<>>
  /\ LET id    == Head(cmd.todo)
         s     == cmd.snapshot[id]
         t     == StopTargetForSession(s)
         valid == s.live /\ t.method # "none" /\ ~fails /\ ValidateStopTarget(s, t)
         first == t \notin cmd.seen
     IN /\ fails => s.live /\ t.method # "none"
        /\ cmd' = [cmd EXCEPT !.phase = IF valid /\ first THEN "send" ELSE "next",
                              !.todo = IF valid /\ first THEN @ ELSE Tail(@),
                              !.skipped = IF valid \/ fails THEN @ ELSE @ \cup {id},
                              !.seen = IF s.live /\ t.method # "none" THEN SeenAfter(@, t, valid)
                                       ELSE @,
                              !.calm = TRUE, !.failed = IF fails THEN @ \cup {id} ELSE @]
  /\ UNCHANGED <<procs, shells, sessions, hits, changes>>

\* sendStopSignal: the interrupt goes to whatever is there now; wanted and got are the
\* process that was meant and the one that is reached. It may fail, and does where the
\* process is gone.
SendStopSignal(fails) ==
  /\ cmd.phase = "send"
  /\ LET id  == Head(cmd.todo)
         s   == cmd.snapshot[id]
         t   == StopTargetForSession(s)
         got == IF t.method = "tmux-interrupt" THEN InFront(t.target)
                ELSE [pid |-> t.target, start |-> procs[t.target].start]
     IN /\ t.method = "pid-interrupt" /\ ~Alive(t.target) => fails
        /\ hits' = IF fails THEN hits
                   ELSE hits \cup {[id |-> id, target |-> t, wanted |-> s.proc, got |-> got,
                                    calm |-> cmd.calm]}
        /\ cmd' = [cmd EXCEPT !.phase = "next", !.todo = Tail(@),
                              !.failed = IF fails THEN @ \cup {id} ELSE @]
  /\ UNCHANGED <<procs, shells, sessions, changes>>

Done ==
  /\ cmd.phase = "next" /\ cmd.todo = <<>>
  /\ cmd' = Idle /\ hits' = {}
  /\ UNCHANGED <<procs, shells, sessions, changes>>

---------------------------------------------------------------------------
\* The machine and the registry move on.

Moves ==
  /\ changes < MaxChanges /\ changes' = changes + 1
  /\ cmd' = IF cmd = Idle THEN cmd ELSE [cmd EXCEPT !.calm = FALSE]
  /\ UNCHANGED hits

\* A process ends; its number may be taken by another program, somewhere.
Exit(p) ==
  /\ Alive(p) /\ procs' = [procs EXCEPT ![p] = NoProc]
  /\ Moves /\ UNCHANGED <<shells, sessions>>

Begins(p, place, agent) ==
  /\ ~Alive(p) /\ Free(place)
  /\ place = Nowhere => Outside
  /\ procs' = [procs EXCEPT ![p] = Proc(changes + 2, place, TRUE, agent)]
  /\ Moves /\ UNCHANGED <<shells, sessions>>

\* The agent is suspended and the shell takes the pane, or it comes back.
Suspend(p) ==
  /\ Alive(p) /\ procs[p].pane \in Panes
  /\ \/ procs[p].fg
     \/ ~procs[p].fg /\ Free(procs[p].pane)
  /\ procs' = [procs EXCEPT ![p].fg = ~@]
  /\ Moves /\ UNCHANGED <<shells, sessions>>

\* The tmux server restarts and gives the pane's number to a new shell.
Respawn(q) ==
  /\ procs' = [p \in Pids |-> IF Alive(p) /\ procs[p].pane = q THEN NoProc ELSE procs[p]]
  /\ shells' = [shells EXCEPT ![q] = @ + 1]
  /\ Moves /\ UNCHANGED sessions

Placed(p) ==
  IF procs[p].pane = Nowhere THEN NoLoc ELSE [pane |-> procs[p].pane, shell |-> shells[procs[p].pane]]

\* A hook of the agent reports its process, and its pane when it
\* runs in one; without one the session keeps the location it had (applyMetadata).
HookReports(id, p) ==
  /\ Alive(p) /\ procs[p].agent
  /\ sessions' = [sessions EXCEPT ![id] =
       [live |-> TRUE, proc |-> [pid |-> p, start |-> procs[p].start], fg |-> TRUE, own |-> @.own,
        loc |-> IF Placed(p) = NoLoc THEN @.loc ELSE Placed(p)]]
  /\ Moves /\ UNCHANGED <<procs, shells>>

\* The tracker places a process, also in no pane, and sees whether it is in front.
TrackerPlaces(id) ==
  LET p == sessions[id].proc.pid
  IN /\ ProcessIsOurs(sessions[id].proc)
     /\ sessions' = [sessions EXCEPT ![id] = [@ EXCEPT !.loc = Placed(p), !.fg = procs[p].fg,
                                                       !.live = TRUE]]
     /\ sessions' # sessions
     /\ Moves /\ UNCHANGED <<procs, shells>>

Next ==
  \/ Begin(TRUE, {})
  \/ \E args \in SUBSET References : Begin(FALSE, args)
  \/ \E fails \in BOOLEAN : Validate(fails) \/ SendStopSignal(fails)
  \/ Done
  \/ \E p \in Pids : Exit(p) \/ Suspend(p)
  \/ \E p \in Pids, place \in Panes \cup {Nowhere}, agent \in BOOLEAN : Begins(p, place, agent)
  \/ \E q \in Panes : Respawn(q)
  \/ \E id \in Ids, p \in Pids : HookReports(id, p)
  \/ \E id \in Ids : TrackerPlaces(id)

Spec == Init /\ [][Next]_vars

---------------------------------------------------------------------------

TypeOK ==
  /\ \A p \in Pids : Alive(p) => procs[p].start > 0
  /\ \A id \in Ids : sessions[id].loc = NoLoc \/ sessions[id].loc.pane \in Panes
  /\ cmd.phase \in {"idle", "next", "send"}
  /\ cmd.phase = "send" => cmd.todo # <<>>
  /\ cmd.phase # "idle" => IsInjective(cmd.todo)

\* An interrupt reaches the agent of the session and nothing else, if one is known and
\* the machine did not change in the moment between the validation and the interrupt.
InterruptHitsAgent == \A hit \in hits : hit.calm /\ hit.wanted # NoId => hit.got = hit.wanted

\* No pane and no process is interrupted twice by one command, although sessions
\* may share them: a second interrupt would kill what the first asked to stop.
InterruptedOnce ==
  \A x, y \in hits : x.target = y.target => x = y

\* A reference that names no session or two stops nothing, also not the sessions
\* the other references name.
AllNamedOrNone ==
  (cmd # Idle /\ cmd.args # {}) =>
    \A r \in cmd.args : \E id \in Ids :
      /\ IsPrefix(r, id)
      /\ \A other \in Ids : IsPrefix(r, other) => other = id

\* At the end every session that was named was interrupted, or had no valid target, or is
\* said to have failed, or shares its target with one that was interrupted or failed: one
\* that is skipped never takes the turn of another.
EveryoneGetsATurn ==
  (cmd.phase = "next" /\ cmd.todo = <<>>) =>
    \A r \in cmd.args \cap Ids :
      LET t == StopTargetForSession(cmd.snapshot[r])
      IN \/ r \in cmd.skipped \/ \E hit \in hits : hit.target = t
         \/ \E id \in cmd.failed : StopTargetForSession(cmd.snapshot[id]) = t
=============================================================================
