---------------------------- MODULE Attribution ----------------------------
(***************************************************************************)
(* Which processes of a list are agents, and which agent a terminal pane   *)
(* shows (internal/observer: resolveHarnesses, pruneNestedHarnesses,       *)
(* normalizeHarnessForeground, paneObservations, multiplexer.go). The code *)
(* walks the list and changes the map of agents as it goes; the model does *)
(* the same, one process or pane per step, for every small process forest  *)
(* and several orders of the list.                                         *)
(***************************************************************************)
EXTENDS Naturals, FiniteSets, Sequences

CONSTANTS
  Pids,           (* process IDs, 1..n                                     *)
  Harnesses,      (* agents that a command may be                          *)
  Wrappers,       (* BOOLEAN, or {FALSE} to leave IsAgentWrapper out       *)
  Jobs,           (* job control: "fg", "bg" or "unknown" (no group, TTY)  *)
  Marks,          (* panes named in a process's environment, 0 for none    *)
  Ttys,           (* terminals, 0 for none                                 *)
  PaneCount,      (* bound: panes, in order of multiplexerPriority         *)
  PaneRoots       (* the process IDs a pane may name, 0 for none           *)

AttributionAssumption == Pids \subseteq Nat \ {0} /\ PaneCount \in Nat

None == "none"

VARIABLES
  proc,      (* the list: parent, resolved agent, wrapper, job, mark, tty  *)
  order,     (* the order of the list                                      *)
  panes,     (* root process and terminal of each pane                     *)
  agent,     (* harnessByPID                                               *)
  job,       (* Process.Foreground as normalized                           *)
  phase,     (* "wrappers", "nested", "foreground", "panes" or "done"      *)
  next,      (* the position in the list                                   *)
  placed,    (* the pane recorded for each agent (locationPIDs), 0 before  *)
  read       (* the process whose screen each pane was read for, 0 without *)

vars == <<proc, order, panes, agent, job, phase, next, placed, read>>

\* resolveHarness and IsAgentWrapper give every process of the list an agent or
\* none and tell whether its command only starts others; parents start first.
Forests ==
  {f \in [Pids -> [ppid : {0} \cup Pids, harness : Harnesses \cup {None}, wrapper : Wrappers,
                   job : Jobs, mark : Marks, tty : Ttys]] :
     \A p \in Pids : f[p].ppid < p}

Ascending(s) == [i \in 1..Cardinality(s) |-> CHOOSE p \in s : Cardinality({q \in s : q < p}) = i - 1]
Descending(s) == [i \in 1..Cardinality(s) |-> CHOOSE p \in s : Cardinality({q \in s : q > p}) = i - 1]

Init ==
  /\ proc \in Forests
  /\ order \in {Ascending(Pids), Descending(Pids)}
  /\ panes \in [1..PaneCount -> [root : PaneRoots, tty : Ttys]]
  /\ agent = [p \in Pids |-> proc[p].harness]
  /\ job = [p \in Pids |-> proc[p].job]
  /\ phase = "wrappers" /\ next = 1
  /\ placed = [p \in Pids |-> 0] /\ read = [i \in 1..PaneCount |-> 0]

\* Ancestors through the parents that the list has.
Ancestors[p \in {0} \cup Pids] ==
  IF p = 0 THEN {} ELSE {proc[p].ppid} \cup Ancestors[proc[p].ppid]

Above(p) == Ancestors[p] \ {0}

-----------------------------------------------------------------------------
(* pruneNestedHarnesses.                                                   *)

\* Every process between p and its ancestor w is a wrapper.
ThroughWrappers(p, w) == \A q \in Above(p) \ ({w} \cup Above(w)) : proc[q].wrapper

\* launchesHarnessThroughWrappers.
LaunchesHarnessThroughWrappers(w) ==
  \E p \in Pids \ {w} : agent[p] = agent[w] /\ w \in Above(p) /\ ThroughWrappers(p, w)

\* Mutant: only the parent is looked at.
HasParentHarness(p) == proc[p].ppid # 0 /\ agent[proc[p].ppid] = agent[p]

\* hasAncestorHarness.
HasAncestorHarness(p) == \E q \in Above(p) : agent[q] = agent[p]

\* The next position of the list, or the next phase.
Advance(following) ==
  IF next < Len(order) THEN next' = next + 1 /\ phase' = phase
  ELSE next' = 1 /\ phase' = following

\* The first loop: a wrapper is not the agent that it starts.
PruneWrapper ==
  /\ phase = "wrappers"
  /\ LET p == order[next]
         drop == agent[p] # None /\ proc[p].wrapper /\ LaunchesHarnessThroughWrappers(p)
     IN  agent' = IF drop THEN [agent EXCEPT ![p] = None] ELSE agent
  /\ Advance("nested") /\ UNCHANGED <<proc, order, panes, job, placed, read>>

\* The second loop: an agent inside the same agent belongs to the outer one.
PruneNested ==
  /\ phase = "nested"
  /\ LET p == order[next]
     IN  agent' = IF agent[p] # None /\ HasAncestorHarness(p) THEN [agent EXCEPT ![p] = None]
                  ELSE agent
  /\ Advance("foreground") /\ UNCHANGED <<proc, order, panes, job, placed, read>>

-----------------------------------------------------------------------------
(* The terminal.                                                           *)

\* nestedHarnessProcess: some agent is above p.
NestedHarnessProcess(p) == \E q \in Above(p) : agent[q] # None

\* normalizeHarnessForeground: an agent inside another one is not in front.
NormalizeForeground ==
  /\ phase = "foreground"
  /\ LET p == order[next]
     IN  job' = IF job[p] = "fg" /\ agent[p] # None /\ NestedHarnessProcess(p)
                THEN [job EXCEPT ![p] = "bg"] ELSE job
  /\ Advance(IF PaneCount = 0 THEN "done" ELSE "panes")
  /\ UNCHANGED <<proc, order, panes, agent, placed, read>>

InTty(p, i) == panes[i].tty # 0 /\ proc[p].tty = panes[i].tty
FromRoot(p, i) == panes[i].root # 0 /\ panes[i].root \in {p} \cup Above(p)

\* processTiedToPane: terminal, pane process or a descendant, environment.
ProcessTiedToPane(p, i) == InTty(p, i) \/ FromRoot(p, i) \/ proc[p].mark = i

\* preferForegroundProcess: an agent's own command before a wrapper, then the
\* lower number (the leader of a process group is the lowest of it).
First(s) ==
  CHOOSE p \in s : \A q \in s :
    \/ ~proc[p].wrapper /\ proc[q].wrapper
    \/ proc[p].wrapper = proc[q].wrapper /\ p <= q

InList(s) == CHOOSE p \in s : \A q \in s : \E i, k \in 1..Len(order) :
                                  order[i] = p /\ order[k] = q /\ i <= k

\* multiplexerPaneProcess: the agent in front, else the one that the pane's process
\* is or starts, else the one whose environment names the pane; 0 for none.
PaneProcess(i) ==
  LET agents == {p \in Pids : agent[p] # None}
      front  == {p \in agents : job[p] = "fg" /\ InTty(p, i)}
      root   == {p \in agents : p = panes[i].root}
      below  == {p \in agents : panes[i].root # 0 /\ panes[i].root \in Above(p)}
      marked == {p \in agents : proc[p].mark = i}
  IN  CASE front # {} -> First(front)
        [] front = {} /\ root # {} -> First(root)
        [] front \cup root = {} /\ below # {} -> InList(below)
        [] front \cup root \cup below = {} /\ marked # {} -> First(marked)
        [] OTHER -> 0

\* panePlacementObservations: the chosen agent and every agent tied to the pane
\* that no pane before has claimed.
Claims(i, chosen) ==
  {p \in Pids : agent[p] # None /\ placed[p] = 0 /\ (p = chosen \/ ProcessTiedToPane(p, i))}

\* paneForegroundKnown.
ForegroundKnown(i) == \E p \in Pids : InTty(p, i) /\ job[p] # "unknown"

\* paneObservations: whether the pane's screen speaks for p.
ReadsScreen(i, p) ==
  /\ p # 0 /\ placed[p] = 0 /\ ~NestedHarnessProcess(p)
  /\ \/ job[p] = "fg"
     \/ ~(job[p] # "unknown" /\ proc[p].tty # 0) /\ ~ForegroundKnown(i)

\* paneObservations, one pane of the loop.
ObservePane ==
  /\ phase = "panes"
  /\ LET chosen == PaneProcess(next)
     IN  /\ placed' = [p \in Pids |-> IF p \in Claims(next, chosen) THEN next ELSE placed[p]]
         /\ read' = [read EXCEPT ![next] = IF ReadsScreen(next, chosen) THEN chosen ELSE 0]
  /\ IF next < PaneCount THEN next' = next + 1 /\ phase' = phase
     ELSE next' = 1 /\ phase' = "done"
  /\ UNCHANGED <<proc, order, panes, agent, job>>

Done == phase = "done" /\ UNCHANGED vars

Next == PruneWrapper \/ PruneNested \/ NormalizeForeground \/ ObservePane \/ Done

Spec == Init /\ [][Next]_vars

-----------------------------------------------------------------------------
(* Properties                                                              *)

Pruned == phase \in {"foreground", "panes", "done"}

\* The same agent is not counted twice along a chain of processes.
OnePerChain ==
  Pruned => \A p, q \in Pids : agent[p] # None /\ agent[p] = agent[q] => p \notin Above(q)

\* "An agent can itself look like a wrapper, so only a chain of wrappers counts as
\* launching the descendant; agents nested behind other tools belong to the outer
\* agent": an agent process is dropped only for one of the same kind above it, or
\* one that it starts through wrappers.
DroppedForAnother ==
  Pruned => \A p \in Pids : proc[p].harness # None /\ agent[p] = None =>
              \E q \in Pids : /\ agent[q] = proc[p].harness
                              /\ \/ q \in Above(p)
                                 \/ p \in Above(q) /\ ThroughWrappers(q, p)

\* The outermost process that is not only a wrapper is always kept, whatever the
\* order of the list.
OutermostKept ==
  Pruned => \A p \in Pids :
    /\ proc[p].harness # None /\ ~proc[p].wrapper
    /\ \A q \in Above(p) : proc[q].harness # proc[p].harness
    => agent[p] # None

\* A screen speaks for one agent: the one recorded in that pane, not one inside
\* another agent, and not one in the background of a terminal with job control.
ScreenSpeaksForItsAgent ==
  \A i \in 1..PaneCount : read[i] # 0 =>
    /\ placed[read[i]] = i /\ agent[read[i]] # None
    /\ ~\E q \in Above(read[i]) : agent[q] # None
    /\ job[read[i]] = "fg" \/ ~ForegroundKnown(i)

\* No screen is read for two agents, and no agent from two screens.
OneScreenPerAgent ==
  \A i, k \in 1..PaneCount : read[i] # 0 /\ read[i] = read[k] => i = k
=============================================================================
