---------------------------- MODULE CurrentSession ----------------------------
(***************************************************************************)
(* pkg/client/current.go: which session does the calling process belong    *)
(* to? The live sessions are listed, then the processes, one after the     *)
(* other; the ancestors of the caller are followed through that listing    *)
(* and, when no session claims one of them, the pane the caller's          *)
(* environment names is tried. Meanwhile processes exit, their children    *)
(* are given to process 1, and process numbers come back.                  *)
(***************************************************************************)
EXTENDS Naturals, FiniteSets, TLC

CONSTANTS
  Pids,          (* process numbers besides 1                              *)
  Caller,        (* the number of the calling process                      *)
  Sess,          (* sessions                                               *)
  Terminals,     (* terminals, each the terminal of one pane               *)
  Reuse,         (* whether a number may come back while it is looked up   *)
  MaxChanges     (* bound on changes of the machine during the call        *)

CurrentAssumption ==
  /\ Pids \subseteq Nat \ {0, 1} /\ Caller \in Pids /\ Reuse \in BOOLEAN /\ MaxChanges \in Nat

VARIABLES
  procs,      (* processes by number: start, parent and terminal           *)
  sessions,   (* the registry: process and pane of each session            *)
  envPane,    (* the pane the caller's environment names                   *)
  call,       (* the running call of Current                               *)
  kin,        (* identities that were ancestors of the caller in the call  *)
  changes

vars == <<procs, sessions, envPane, call, kin, changes>>

None   == "none"
NoProc == [start |-> 0, ppid |-> 0, tty |-> None]
Idle   == [phase |-> "idle"]

Alive(p) == procs[p] # NoProc
Find(p)  == IF p \in Pids THEN procs[p] ELSE NoProc
Identity(p) == <<p, procs[p].start>>

\* The ancestors of a process, itself included, in at most as many steps as there are numbers.
Ancestors(p) ==
  LET up[n \in Nat] == IF n = 0 THEN {p} \cap Pids
                       ELSE up[n - 1] \cup ({procs[q].ppid : q \in up[n - 1]} \cap Pids)
  IN {q \in up[Cardinality(Pids)] : Alive(q)}

Session(l, id, pane) == [live |-> l, proc |-> id, pane |-> pane]

\* The machine as it is when a call begins: a tree of processes on terminals, and a
\* registry of processes that run or ran.
Init ==
  /\ procs \in [Pids -> {NoProc} \cup [start : {1}, ppid : Pids \cup {1}, tty : Terminals]]
  /\ Alive(Caller)
  /\ \A p \in Pids : Alive(p) => /\ procs[p].ppid = 1 \/ procs[p].ppid < p
                                 /\ procs[p].ppid # 1 => Alive(procs[p].ppid)
  /\ \E ended \in SUBSET Sess, of \in [Sess -> Pids \X {1, 2}], pane \in Terminals :
       /\ Cardinality(ended) <= 1
       /\ sessions = [s \in Sess |-> Session(s \notin ended, of[s], pane)]
  /\ envPane \in Terminals \cup {None}
  /\ call = Idle /\ kin = {} /\ changes = 0

---------------------------------------------------------------------------
\* The call.

\* currentWithInspectors: the live sessions are read first.
Begin ==
  /\ call = Idle
  /\ LET live == {s \in Sess : sessions[s].live}
     IN call' = [phase |-> IF live = {} THEN "done" ELSE "scan", how |-> "no session", session |-> None,
                 listed |-> [s \in live |-> sessions[s]], table |-> [p \in {} |-> NoProc],
                 left |-> Pids, at |-> Caller, seen |-> {}, calm |-> TRUE]
  /\ kin' = {Identity(p) : p \in Ancestors(Caller)}
  /\ UNCHANGED <<procs, sessions, envPane, changes>>

\* processinfo.List reads one process after the other; the ones that are gone or
\* belong to somebody else are left out.
ReadProcess(p, readable) ==
  /\ call.phase = "scan" /\ p \in call.left
  /\ \A q \in call.left : p <= q
  /\ call' = [call EXCEPT !.left = @ \ {p},
                          !.table = IF Alive(p) /\ readable THEN (p :> procs[p]) @@ @ ELSE @]
  /\ UNCHANGED <<procs, sessions, envPane, kin, changes>>

\* The listing is complete, or it failed and leaves nothing (buildProcessIndex).
EndScan(fails) ==
  /\ call.phase = "scan" /\ (fails \/ call.left = {})
  /\ call' = [call EXCEPT !.phase = "walk", !.left = {},
                          !.table = IF fails THEN [p \in {} |-> NoProc] ELSE @]
  /\ UNCHANGED <<procs, sessions, envPane, kin, changes>>

\* indexSessionsByPID.
SessionsOf(p) == {s \in DOMAIN call.listed : call.listed[s].proc[1] = p}

\* lookupProcess: from the listing, else by looking now.
LookupProcess(p) == IF p \in DOMAIN call.table THEN call.table[p] ELSE Find(p)

\* Mutant: the number alone decides.
MatchAncestorByNumber(candidates, proc) == candidates

\* matchAncestorSession: the candidates whose process started when this one did.
MatchAncestorSession(candidates, proc) ==
  {s \in candidates : call.listed[s].proc[2] = proc.start}

Answer(how, s) == [call EXCEPT !.phase = "done", !.how = how, !.session = s]

\* resolveCurrentFromAncestors: a number that comes again ends the walk.
AlreadySeen(p) == p \in call.seen

\* resolveCurrentFromAncestors, one ancestor.
Walk ==
  /\ call.phase = "walk"
  /\ LET proc    == LookupProcess(call.at)
         matched == MatchAncestorSession(SessionsOf(call.at), proc)
     IN call' = IF call.at \notin Pids \/ AlreadySeen(call.at) \/ proc = NoProc
                  THEN [call EXCEPT !.phase = "pane"]
                ELSE IF Cardinality(matched) = 1
                  THEN Answer("ancestor", CHOOSE s \in matched : TRUE)
                ELSE IF matched # {} THEN Answer("ambiguous", None)
                ELSE [call EXCEPT !.at = proc.ppid, !.seen = @ \cup {call.at}]
  /\ UNCHANGED <<procs, sessions, envPane, kin, changes>>

\* verifyCandidateProcess: the session's process runs, on the terminal of the caller.
VerifyCandidateProcess(s) ==
  LET proc   == Find(call.listed[s].proc[1])
      caller == Find(Caller)
  IN /\ proc # NoProc /\ proc.start = call.listed[s].proc[2]
     /\ caller.tty # None /\ caller.tty = proc.tty

\* matchesPaneLocation: multiplexer, server, pane and session name stand for a pane.
MatchesPaneLocation(s) == call.listed[s].pane = envPane

\* resolveCurrentTmux, Zellij and Herdr: only a pane the environment names is tried.
PaneKnown == envPane # None

\* resolveCurrentFromTerminal and resolvePaneSession.
Terminal ==
  /\ call.phase = "pane"
  /\ LET matches == IF PaneKnown THEN {s \in DOMAIN call.listed : MatchesPaneLocation(s) /\ VerifyCandidateProcess(s)} ELSE {}
     IN call' = IF matches = {} THEN Answer("no session", None)
                ELSE IF Cardinality(matches) = 1 THEN Answer("pane", CHOOSE s \in matches : TRUE)
                ELSE Answer("ambiguous", None)
  /\ UNCHANGED <<procs, sessions, envPane, kin, changes>>

---------------------------------------------------------------------------
\* The machine. What the registry does after the sessions were listed is not seen.

Moves ==
  /\ changes < MaxChanges /\ changes' = changes + 1
  /\ call.phase \notin {"idle", "done"}
  /\ call' = [call EXCEPT !.calm = FALSE]
  /\ UNCHANGED <<sessions, envPane>>

\* What was an ancestor of the caller in the call remains known as one.
Remembered == kin' = kin \cup {<<q, procs'[q].start>> : q \in Ancestors(Caller)'}

\* A process other than the caller ends; its children go to process 1.
Exit(p) ==
  /\ Alive(p) /\ p # Caller
  /\ procs' = [q \in Pids |-> IF q = p THEN NoProc
                              ELSE IF procs[q].ppid = p THEN [procs[q] EXCEPT !.ppid = 1] ELSE procs[q]]
  /\ Moves /\ Remembered

\* A process is started under a number that is free again.
Fork(p, parent, tty) ==
  /\ Reuse /\ ~Alive(p) /\ parent \in {1} \cup {q \in Pids : Alive(q)}
  /\ procs' = [procs EXCEPT ![p] = [start |-> changes + 2, ppid |-> parent, tty |-> tty]]
  /\ Moves /\ Remembered

Step == Begin \/ Walk \/ Terminal \/ EndScan(FALSE) \/ EndScan(TRUE)
        \/ \E p \in Pids, readable \in BOOLEAN : ReadProcess(p, readable)

World ==
  \/ \E p \in Pids : Exit(p)
  \/ \E p \in Pids, parent \in Pids \cup {1}, tty \in Terminals : Fork(p, parent, tty)

Next == Step \/ World

Spec == Init /\ [][Next]_vars

\* For model checking of invariants.
Interchangeable == Permutations(Sess) \cup Permutations(Terminals)

\* The call is one thread that runs; the caller gives up on nothing.
LiveSpec == Spec /\ WF_vars(Step)

---------------------------------------------------------------------------

TypeOK ==
  /\ \A p \in Pids : Alive(p) => procs[p].ppid \in Pids \cup {1}
  /\ \A s \in Sess : sessions[s].pane \in Terminals
  /\ call.phase \in {"idle", "scan", "walk", "pane", "done"}
  /\ call # Idle => (call.session # None <=> call.how \in {"ancestor", "pane"})

\* The session found through the ancestors is the session of a process that was an
\* ancestor of the caller during the call: a number that was reused since the
\* session was recorded, and a tree that changes under the listing, mislead nobody.
AncestorIsMine ==
  (call.phase = "done" /\ call.how = "ancestor") => call.listed[call.session].proc \in kin

\* The claimants of a process among the sessions listed.
Claims(p) == {s \in DOMAIN call.listed : call.listed[s].proc = Identity(p)}

\* On a machine that stands still the answer is the session of the nearest ancestor
\* that has one, none at all is found through ancestors when none has one, and two
\* claimants of the nearest one are an error, never a guess.
NearestAncestorWins ==
  (call.phase = "done" /\ call.calm) =>
    LET claimed == {p \in Ancestors(Caller) : Claims(p) # {}}
        nearest == CHOOSE p \in claimed : \A q \in claimed : q \in Ancestors(p)
    IN IF claimed = {} THEN call.how # "ancestor"
       ELSE IF Cardinality(Claims(nearest)) = 1
         THEN call.how = "ancestor" /\ {call.session} = Claims(nearest)
       ELSE call.how = "ambiguous"

\* A session found through the pane runs on the caller's terminal: an environment
\* that was inherited across terminals names somebody else's pane.
PaneIsMine ==
  (call.phase = "done" /\ call.how = "pane" /\ call.calm) =>
    LET id == call.listed[call.session].proc
    IN Identity(id[1]) = id /\ procs[id[1]].tty = procs[Caller].tty

\* The call comes to an end, also when the listing makes the ancestors a circle.
CallEnds == (call.phase # "idle") ~> (call.phase = "done")
=============================================================================
