----------------------------- MODULE MCSessions -----------------------------
(***************************************************************************)
(* Model-checking instances of SessionLifecycle and of what others make of *)
(* its sessions, SessionViews. Each behaviour is one of one session under  *)
(* one policy, with the observations that reach it; part says which. The   *)
(* constants of the configuration are those of the part "hooks".           *)
(***************************************************************************)
EXTENDS SessionLifecycle, TLC

VARIABLE part

\* The integration numbers its reports; its activity does not expire.
Numbers == INSTANCE SessionLifecycle
  WITH Sources <- {"report", "sighting"}, Numbered <- TRUE, RetainActivity <- TRUE

\* No hook can tell its process.
Nameless == INSTANCE SessionLifecycle
  WITH Sources <- {"report", "sighting", "verification"}, Bare <- {"start", "turn", "end"}

\* The screen decides about activity; every kind of observation arrives.
Screened == INSTANCE SessionViews
  WITH ScreenPolicy <- TRUE, CatalogCreates <- TRUE, MaxTime <- 3,
       Sources <- {"report", "reading", "placement", "listing"}

\* What the repository's own randomised tests check, and what aht info says.
Viewed == INSTANCE SessionViews
  WITH MaxTime <- 3, Sources <- {"report", "sighting", "reading", "verification"}

\* The processes are interchangeable.
Symmetry == Permutations(Procs)

MCInit == part \in {"hooks", "numbers", "nameless", "screen", "views"} /\ Init

MCNext ==
  /\ UNCHANGED part
  /\ \/ part = "hooks"    /\ Next
     \/ part = "numbers"  /\ Numbers!Next
     \/ part = "nameless" /\ Nameless!Next
     \/ part = "screen"   /\ Screened!Next
     \/ part = "views"    /\ Viewed!Next

MCSpec == MCInit /\ [][MCNext]_<<part, vars>>

-----------------------------------------------------------------------------
(* Properties that depend on the policy. The others of SessionLifecycle    *)
(* are checked for every part as they stand.                               *)

\* What happens to the process of a session is heard (SessionLifecycle): its start makes
\* the session live, its exit is final, and what is true never conflicts, but for a
\* report whose number has been passed.
SessionsAreTrue ==
  /\ part = "hooks" => StartIsHeard /\ ExitIsFinal
  /\ part = "numbers" => Numbers!OnlyOldNumbersConflict

\* Others see the sessions as they are (SessionViews): every one passes the rules of the
\* repository's own randomised tests, what aht info predicts is what the registry makes of
\* the same screen, and a report of activity is what it shows.
ViewsAgree ==
  /\ part = "screen" => Screened!TransitionsPass
  /\ part = "views" =>
       /\ Viewed!TransitionsPass /\ Viewed!VerificationsPass
       /\ Viewed!ExplainPredicts /\ Viewed!ReportIsExplained
=============================================================================
