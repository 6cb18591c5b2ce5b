-------------------------- MODULE DurableRegistry --------------------------
(***************************************************************************)
(* What the registry's files promise, without locks, sequence numbers,     *)
(* snapshots or crashes: a set of reports that a reader or a restarted     *)
(* tracker would see. A report enters once. It leaves by a reset, by the   *)
(* removal of its gone session (GC or tombstone expiry), or because the    *)
(* tracker rejected it as older than evidence it had only in memory.       *)
(* Nothing that left comes back.                                           *)
(***************************************************************************)
CONSTANTS Reports, Late, Tombs

VARIABLES state,   (* reports the files reflect                            *)
          left,    (* reports that were in state and are no longer         *)
          cleared  (* those of them that a reset took out                  *)

vars == <<state, left, cleared>>

Init == state = {} /\ left = {} /\ cleared = {}

Remove(xs) == state' = state \ xs /\ left' = left \cup (state \cap xs)

\* An acknowledged command, or one whose acknowledgement was lost.
Commit(xs) ==
  /\ xs \cap (state \cup left) = {}
  /\ state' = state \cup xs
  /\ UNCHANGED <<left, cleared>>

\* A command or a checkpoint that removes collectable and rejected reports.
Withdraw(xs) == Remove(xs) /\ UNCHANGED cleared

Reset == Remove(state) /\ cleared' = cleared \cup state

Next == \/ \E xs \in SUBSET Reports : Commit(xs)
        \/ \E xs \in SUBSET (Late \cup Tombs) : Withdraw(xs)
        \/ Reset

Spec == Init /\ [][Next]_vars
=============================================================================
