------------------------------ MODULE Matching ------------------------------
(***************************************************************************)
(* The reducer of pkg/registry for the whole registry: which session an    *)
(* observation belongs to, which sessions it retires, merges or removes,   *)
(* and how a batch of observations is reduced (reducer.go, matching.go).   *)
(* What an observation does to the one session it is reduced into is       *)
(* Lifecycle.tla's Reduce.                                                 *)
(*                                                                         *)
(* A registry is a function from keys to entries. A key stands for the     *)
(* hash sessionIDForObservation computes, of the harness and the native    *)
(* identity or, without one, the process. The session id and the session   *)
(* path of the agent are one native identity here (sid), and each process  *)
(* has a pane of its own.                                                  *)
(*                                                                         *)
(* The registry's sessions against what really happened to several         *)
(* processes and native sessions.                                         *)
(*                                                                         *)
(* `past` is the truth: at each moment, for each process, whether it runs  *)
(* and which native session it has open. The tracker's own scans see the   *)
(* present moment; hook reports are about any moment, arrive late, out of  *)
(* order, repeatedly or never, alone or in a batch with a scan.            *)
(***************************************************************************)
EXTENDS Lifecycle, Sequences, SequencesExt, FiniteSets

CONSTANTS
  Harnesses,
  Sids,             (* native session identities                           *)
  NoSid,            (* an observation or a session without one             *)
  ExclusiveProcess, (* Policy.ExclusiveProcess                             *)
  TTL               (* the tombstone TTL                                   *)

Earlier(a, b) == IF a < b THEN a ELSE b

-----------------------------------------------------------------------------
(* What arrives: evidence e (Lifecycle's observation) about harness h and  *)
(* native identity sid, from a pane. multi: the reporter hosts several     *)
(* sessions in one process; pid: the process a current listing names.      *)

About(h, sid, pane, e) ==
  [h |-> h, sid |-> sid, pane |-> pane, multi |-> FALSE, pid |-> NoProc, e |-> e]

Proc(o) == o.e.proc

\* sessionIDForObservation.
Key(o) == IF o.sid # NoSid THEN <<o.h, o.sid>> ELSE <<o.h, Proc(o)>>

\* newSession.
NewEntry(now) ==
  [s |-> NewSession, sid |-> NoSid, named |-> FALSE, multi |-> FALSE, pane |-> NoProc,
   created |-> now, updated |-> now, changed |-> 0]

NoEntries == [k \in {} |-> NewEntry(0)]

Without(reg, keys) == [k \in DOMAIN reg \ keys |-> reg[k]]
With(reg, key, entry) == [k \in DOMAIN reg \cup {key} |-> IF k = key THEN entry ELSE reg[k]]

\* PresenceChangedAt follows a presence that changed.
Become(entry, s, at) ==
  [entry EXCEPT !.s = s, !.changed = IF s.presence # entry.s.presence THEN at ELSE @]

-----------------------------------------------------------------------------
(* Matching.                                                               *)

\* observationIdentityConflicts.
Conflicts(entry, o) == o.sid # NoSid /\ entry.sid # NoSid /\ o.sid # entry.sid

Rank(entry) == CASE entry.s.presence = "live" -> 2
                 [] entry.s.presence = "unknown" -> 1
                 [] OTHER -> 0

\* sessionMatchPreferred; keys are hashes, so the last rule, the smaller id, is
\* an arbitrary fixed choice.
AtLeast(a, b) ==
  \/ Rank(a) > Rank(b)
  \/ /\ Rank(a) = Rank(b)
     /\ \/ a.updated > b.updated
        \/ a.updated = b.updated /\ a.created >= b.created

\* bestMatchingSessionID: the empty set or the best of the matches.
Best(reg, matches) ==
  IF matches = {} THEN {}
  ELSE {CHOOSE k \in matches : \A l \in matches : AtLeast(reg[k], reg[l])}

Of(reg, o) == {k \in DOMAIN reg : k[1] = o.h}

\* findProcessMatchingSession, findIdentityMatchingSession,
\* findListingMatchingSession.
ProcessMatches(reg, o) ==
  {k \in Of(reg, o) : Proc(o) # NoProc /\ reg[k].s.process = Proc(o) /\ ~Conflicts(reg[k], o)}
IdentityMatches(reg, o) == {k \in Of(reg, o) : o.sid # NoSid /\ reg[k].sid = o.sid}
ListingMatches(reg, o) ==
  {k \in Of(reg, o) : /\ o.e.kind = "listing" /\ o.pid # NoProc
                      /\ reg[k].s.process = o.pid /\ ~Conflicts(reg[k], o)}

FindProcess(reg, o)  == Best(reg, ProcessMatches(reg, o))
FindIdentity(reg, o) == Best(reg, IdentityMatches(reg, o))
FindListing(reg, o)  == Best(reg, ListingMatches(reg, o))

First(a, b) == IF a # {} THEN a ELSE b

\* findMatchingSession.
FindMatching(reg, o) ==
  First(FindProcess(reg, o), First(FindIdentity(reg, o), FindListing(reg, o)))

-----------------------------------------------------------------------------
(* Sessions the observation shows to have lost their process.              *)

\* Mutant: a process keeps the session it reported before.
NativeReplacementNever(key, entry, o) == FALSE

\* nativeSessionReplacement: the process reports another session.
NativeReplacement(key, entry, o) ==
  /\ ExclusiveProcess
  /\ key[1] = o.h /\ IsReport(o.e)
  /\ entry.s.process = Proc(o) /\ Conflicts(entry, o)
  /\ ~o.multi /\ ~entry.multi

\* Mutant: only a terminal pane tells that another agent runs.
HarnessReplacementByPane(key, entry, o) ==
  /\ key[1] # o.h /\ entry.s.presence = "live"
  /\ o.e.kind = "placement" /\ entry.s.process = NoProc /\ entry.pane = o.pane /\ o.pane # NoProc

\* processHarnessReplacement and samePane: another agent runs in the process or
\* in the pane.
HarnessReplacement(key, entry, o) ==
  /\ key[1] # o.h /\ entry.s.presence = "live"
  /\ \/ o.e.kind = "sighting" /\ o.e.present /\ entry.s.process = Proc(o)
     \/ o.e.kind = "placement" /\ entry.s.process = NoProc /\ entry.pane = o.pane /\ o.pane # NoProc

Replaced(reg, o) ==
  {k \in DOMAIN reg : /\ Proc(o) # NoProc
                      /\ NativeReplacement(k, reg[k], o) \/ HarnessReplacement(k, reg[k], o)}

\* retireConflictingProcessSessions fails.
RetirementRejected(reg, o) ==
  \E k \in Replaced(reg, o) : Decide(reg[k].s, o.e, TRUE) = "reject"

\* retireConflictingProcessSessions.
RetireConflicting(reg, o, now) ==
  [k \in DOMAIN reg |->
     IF k \in Replaced(reg, o) /\ Accepted(Decide(reg[k].s, o.e, TRUE))
     THEN [Become(reg[k], Retire(reg[k].s, o.e, NativeReplacement(k, reg[k], o)).session, o.e.at)
             EXCEPT !.updated = Later(@, now)]
     ELSE reg[k]]

-----------------------------------------------------------------------------
(* Two sessions that turn out to be one.                                   *)

Newer(a, b) == IF a.at = 0 \/ b.at > a.at THEN b ELSE a

\* mergeObservations: "Identity-only evidence cannot describe the process incarnation."
MergeObservations(s, p) ==
  [s EXCEPT !.list = Later(@, p.list), !.place = Later(@, p.place),
            !.native = IF s.process # NoProc THEN @ ELSE Newer(@, p.native),
            !.sight = IF s.process # NoProc THEN @ ELSE Newer(@, p.sight),
            !.screen = IF s.process # NoProc THEN @ ELSE Newer(@, p.screen)]

\* mergeProvisionalSession: p, known by identity only, becomes part of t.
Merge(t, p) ==
  [t EXCEPT !.sid = IF @ = NoSid THEN p.sid ELSE @,
            !.named = @ \/ t.sid # NoSid \/ p.sid # NoSid,
            !.pane = IF @ = NoProc THEN p.pane ELSE @,
            !.created = Earlier(@, p.created), !.updated = Later(@, p.updated),
            !.s = MergeObservations(t.s, p.s)]

\* A session that only scans have seen.
Provisional(entry) == ~entry.named /\ entry.s.native.at = 0

\* preferNativeIdentity.
PreferIdentity(reg, o, i, p) ==
  /\ IsReport(o.e) /\ i # {} /\ p # {} /\ i # p
  /\ \A k \in i : reg[k].s.process # NoProc
  /\ \A k \in p : Provisional(reg[k])

\* reconcileIdentityProcessSessions: the session k of the identity and another
\* one, t, of the process are one, or the process of k has gone.
Reunite(reg, o, k, t) ==
  IF reg[k].s.process = NoProc
  THEN [reg |-> With(Without(reg, {k}), t, Merge(reg[t], reg[k])), found |-> {t}]
  ELSE IF reg[k].s.process # Proc(o)
  THEN [reg |-> With(reg, k,
                  [Become(reg[k], Retire(reg[k].s, o.e, FALSE).session, o.e.at)
                     EXCEPT !.updated = Later(@, o.e.at)]), found |-> {t}]
  ELSE [reg |-> reg, found |-> {t}]

ReconcileFound(reg, o, i, p) ==
  IF PreferIdentity(reg, o, i, p) THEN [reg |-> reg, found |-> i]
  ELSE IF i = {} \/ p = {} \/ i = p
  THEN [reg |-> reg, found |-> First(p, First(i, FindListing(reg, o)))]
  ELSE Reunite(reg, o, CHOOSE x \in i : TRUE, CHOOSE x \in p : TRUE)

\* findAndReconcileMatchingSession: the registry after reconciling, and the key
\* of the session found (or the empty set).
Reconcile(reg, o) == ReconcileFound(reg, o, FindIdentity(reg, o), FindProcess(reg, o))

\* reconcileResumedProcessSession: sessions of the process that only scans saw
\* are part of the session that was resumed in it.
Twins(reg, key, o) ==
  {k \in Of(reg, o) : k # key /\ Provisional(reg[k]) /\ reg[k].s.process = Proc(o)}

Adopt(entry, twin, o) ==
  LET placed == twin.s.place # 0 /\ o.pane = NoProc
  IN  [entry EXCEPT
         !.s = [entry.s EXCEPT !.sight = IF twin.s.sight.at # 0 THEN twin.s.sight ELSE @,
                               !.place = IF placed THEN twin.s.place ELSE @,
                               !.inc.evAt = Later(@, twin.s.inc.evAt)],
         !.pane = IF placed THEN twin.pane ELSE @]

Resumes(entry, o) ==
  /\ Resets(Decide(entry.s, o.e, FALSE)) /\ entry.s.inc.proc # NoProc /\ Proc(o) # NoProc

-----------------------------------------------------------------------------
(* Reducing one observation: saved, dropped, conflict or ignored.          *)

\* observationCreatesSession.
Creates(o) ==
  CASE o.e.kind = "verification" -> FALSE
    [] o.e.kind = "listing" -> CatalogCreates /\ o.pid # NoProc
    [] OTHER -> TRUE

\* The time applyObservation is given.
StampTime(entry, o) ==
  LET baseline == IF Resets(Decide(entry.s, o.e, FALSE))
                  THEN [entry.s EXCEPT !.native = NoNative] ELSE entry.s
  IN  SequencedTime(baseline, o.e)

\* applyIdentity, applyMetadata and the times applyObservation stamps; a
\* duplicate changes nothing.
Stamp(entry, s, o, now) ==
  IF s = entry.s /\ o.e.kind # "verification" THEN entry ELSE
  [Become(entry, s, StampTime(entry, o)) EXCEPT
     !.named = @ \/ o.sid # NoSid, !.sid = IF o.sid # NoSid THEN o.sid ELSE @,
     !.multi = IF IsReport(o.e) THEN o.multi ELSE @,
     !.pane = IF o.pane # NoProc THEN o.pane ELSE @,
     !.updated = Later(@, now)]

\* The session that is reduced, a new one if none was found.
Found(fixed, o) == IF fixed.found = {} THEN Key(o) ELSE CHOOSE k \in fixed.found : TRUE
EntryAt(reg, key, now) == IF key \in DOMAIN reg THEN reg[key] ELSE NewEntry(now)

\* The saved entry takes the place of the one reduced and of its twins.
Place(reg, key, saved, twins, o) ==
  With(Without(reg, twins), key,
       IF twins = {} THEN saved ELSE Adopt(saved, reg[CHOOSE k \in twins : TRUE], o))

\* reduceExistingSession, reduceNewSession: r is what the reducer makes of the entry.
\* What is not saved leaves the registry before it was reconciled.
Conclude(before, reg, key, entry, r, o, now) ==
  IF r.out # "saved" THEN [out |-> r.out, reg |-> before]
  ELSE [out |-> "saved",
        reg |-> Place(reg, key, Stamp(entry, r.session, o, now),
                      IF Resumes(entry, o) THEN Twins(reg, key, o) ELSE {}, o)]

ReduceEntry(before, reg, key, entry, o, now) ==
  Conclude(before, reg, key, entry, Reduce(entry.s, o.e), o, now)

ReduceAt(before, reg, key, o, now) ==
  ReduceEntry(before, reg, key, EntryAt(reg, key, now), o, now)

ReduceReconciled(before, fixed, o, now) ==
  IF fixed.found = {} /\ ~Creates(o) THEN [out |-> "ignored", reg |-> fixed.reg]
  ELSE ReduceAt(before, fixed.reg, Found(fixed, o), o, now)

\* reduceOne on a copy of the registry.
ReduceOne(reg, o, now) ==
  IF RetirementRejected(reg, o) THEN [out |-> "dropped", reg |-> reg]
  ELSE ReduceReconciled(reg, Reconcile(RetireConflicting(reg, o, now), o), o, now)

-----------------------------------------------------------------------------
(* Batches. A snapshot is the registry and the processes that ended.       *)

Snapshot(reg, ended) == [reg |-> reg, ended |-> ended, failed |-> FALSE]

\* Mutant: ended processes are not remembered.
FromEndedNever(snap, o) == FALSE

\* endedProcessReport.
FromEnded(snap, o) ==
  /\ IsReport(o.e) /\ Proc(o) \in DOMAIN snap.ended
  /\ FindMatching(snap.reg, o) = {}

\* One round of applyObservationBatch's loop; a conflict fails the batch.
\* observationTime: an observation from the future happened now.
OnTime(o, now) == [o EXCEPT !.e.at = Earlier(@, now)]

WithResult(snap, r) == [snap EXCEPT !.reg = r.reg, !.failed = r.out = "conflict"]

ApplyOne(snap, o, now) ==
  IF snap.failed \/ FromEnded(snap, OnTime(o, now)) THEN snap
  ELSE WithResult(snap, ReduceOne(snap.reg, OnTime(o, now), now))

Age(now, at) == IF now > at THEN now - at ELSE 0

GoneSince(entry) == IF entry.changed = 0 THEN entry.updated ELSE entry.changed
Gone(entry) == entry.s.presence = "gone"

\* processOnlySession.
ProcessOnly(entry) == Provisional(entry) /\ entry.sid = NoSid

\* removeGoneProcessOnlySessions.
RemoveProcessOnly(snap) ==
  LET out  == {k \in DOMAIN snap.reg : Gone(snap.reg[k]) /\ ProcessOnly(snap.reg[k])}
      done == {k \in out : snap.reg[k].s.process # NoProc}
      of(p) == {k \in done : snap.reg[k].s.process = p}
      procs == {snap.reg[k].s.process : k \in done}
  IN  [snap EXCEPT !.reg = Without(@, out),
                   !.ended = [p \in DOMAIN @ \cup procs |->
                                IF p \in procs THEN GoneSince(snap.reg[CHOOSE k \in of(p) : TRUE])
                                ELSE @[p]]]

\* deleteExpiredGoneSessions (PresenceChangedAt of a gone session is set), and
\* the second half of expireTombstones.
DeleteGone(snap, now, after) ==
  [snap EXCEPT !.reg = Without(@, {k \in DOMAIN @ : /\ Gone(@[k])
                                                    /\ Age(now, GoneSince(@[k])) >= after})]

\* pruneEndedProcesses.
PruneEnded(snap, now) ==
  [snap EXCEPT !.ended = [p \in {q \in DOMAIN @ : Age(now, @[q]) < TTL} |-> @[p]]]

\* expireTombstones.
Expire(snap, now) == PruneEnded(DeleteGone(RemoveProcessOnly(snap), now, TTL), now)

\* applyObservationBatch, and what the tracker does after it: a failed batch
\* leaves everything as it was.
ApplyAll(snap, batch, now) ==
  LET after[n \in 0..Len(batch)] ==
        IF n = 0 THEN snap ELSE ApplyOne(after[n - 1], batch[n], now)
  IN  after[Len(batch)]

Recorded(before, after, now) == IF after.failed THEN before ELSE Expire(after, now)

ApplyBatch(snap, batch, now) == Recorded(snap, ApplyAll(snap, batch, now), now)

-----------------------------------------------------------------------------
(* The registry against what really happened.                              *)

CONSTANTS
  MaxTime,      (* bound: moments                                          *)
  Late,         (* bound: how many moments late a report can be            *)
  Bare,         (* reports may lack their process                          *)
  Anonymous,    (* reports may lack their native session                   *)
  Others        (* kinds of observation besides reports and scans          *)

MatchingAssumption ==
  /\ IsFiniteSet(Procs) /\ NoSid \notin Sids \cup Procs /\ Sids \cap (Procs \cup {NoProc}) = {}
  /\ {ExclusiveProcess, Bare, Anonymous} \subseteq BOOLEAN
  /\ TTL \in Nat \ {0} /\ MaxTime \in Nat \ {0} /\ Late \in Nat

VARIABLES
  past,         (* the truth                                               *)
  snap          (* the registry and the processes that ended               *)

vars == <<past, snap>>

Now == Len(past)

\* A process that has not started, has exited, or has a session (or none) open.
Unborn == [run |-> "unborn", open |-> NoSid, mark |-> "none", of |-> NoSid]

Runs(p, t) == past[t][p].run = "alive"

Init ==
  /\ past = << [p \in Procs |-> Unborn] >>
  /\ snap = Snapshot(NoEntries, [p \in {} |-> 0])

-----------------------------------------------------------------------------
(* The world moves on.                                                     *)

Happens(p, state) ==
  /\ Now < MaxTime
  /\ past' = Append(past, [q \in Procs |->
               IF q = p THEN state ELSE [past[Now][q] EXCEPT !.mark = "none", !.of = NoSid]])
  /\ UNCHANGED snap

\* A process starts, or opens (another) session.
Opens(p) ==
  /\ past[Now][p].run # "dead"
  /\ \E i \in (Sids \cup {NoSid}) \ {past[Now][p].open} :
       Happens(p, [run |-> "alive", open |-> i, of |-> i,
                   mark |-> IF i = NoSid THEN "none" ELSE "start"])
Starts_(p) ==
  /\ past[Now][p].run = "unborn"
  /\ Happens(p, [Unborn EXCEPT !.run = "alive"])
Closes(p) ==
  /\ past[Now][p].open # NoSid
  /\ Happens(p, [run |-> "alive", open |-> NoSid, mark |-> "end", of |-> past[Now][p].open])
Dies(p) == Runs(p, Now) /\ Happens(p, [Unborn EXCEPT !.run = "dead"])

-----------------------------------------------------------------------------
(* What can be observed.                                                   *)

\* The hook of process p reports what it did at moment t.
Reports(t) ==
  LET m(p) == past[t][p]
      says(p) == IF m(p).mark = "end" THEN [life |-> "end", claim |-> "gone", act |-> "none"]
                 ELSE IF m(p).mark = "start" THEN [life |-> "start", claim |-> "live", act |-> "none"]
                 ELSE [life |-> "none", claim |-> "live", act |-> "busy"]
      sid(p) == IF m(p).mark = "end" THEN m(p).of ELSE m(p).open
      from(p) == {[sid |-> sid(p), proc |-> p]}
                 \cup (IF Bare THEN {[sid |-> sid(p), proc |-> NoProc]} ELSE {})
                 \cup (IF Anonymous THEN {[sid |-> NoSid, proc |-> p]} ELSE {})
  IN  UNION {{About(h, f.sid, p,
                    Report(f.proc, t, says(p).life, says(p).claim, says(p).act, 0)) :
                h \in Harnesses, f \in from(p)} : p \in {q \in Procs : sid(q) # NoSid}}

\* A scan of the present: every running process, and every process of a session
\* that runs no more.
Seen(h) ==
  {About(h, NoSid, NoProc, Sighting(p, Now, TRUE)) : p \in {q \in Procs : Runs(q, Now)}}
  \cup {About(h, NoSid, NoProc, Sighting(p, Now, FALSE)) :
          p \in {snap.reg[k].s.process : k \in DOMAIN snap.reg} \ ({NoProc} \cup
                {q \in Procs : Runs(q, Now)})}

Further ==
  {About(h, NoSid, p, Observation("placement", p, Now)) : h \in Harnesses,
     p \in {q \in Procs : Runs(q, Now) /\ "placement" \in Others}}
  \cup {[About(h, i, NoProc, Observation("listing", NoProc, Now)) EXCEPT !.pid = p] :
     h \in Harnesses, i \in Sids,
     p \in {q \in Procs \cup {NoProc} : "listing" \in Others /\ (q = NoProc \/ Runs(q, Now))}}
  \cup {About(h, i, NoProc, Verification(Now, c)) : h \in Harnesses, c \in {"gone", "unknown"},
     i \in {j \in Sids : "verification" \in Others /\ \A p \in Procs : past[Now][p].open # j}}

Inbox == UNION {Reports(t) : t \in {i \in 1..Now : i + Late >= Now}}

\* The batches that are recorded: a report, a whole scan, a report and a further
\* observation, or that observation alone.
Scanned == UNION {SetToSeqs(Seen(h)) : h \in Harnesses}
Batches == {<<o>> : o \in Inbox \cup Further} \cup (Inbox \X Further) \cup Scanned

-----------------------------------------------------------------------------
Record == \E batch \in Batches : snap' = ApplyBatch(snap, batch, Now) /\ UNCHANGED past

\* The tracker's persistence loop, and a GC command.
ExpireNow == snap' = Expire(snap, Now) /\ UNCHANGED past
GC == snap' = RemoveProcessOnly(DeleteGone(snap, Now, 0)) /\ UNCHANGED past

Next ==
  \/ \E p \in Procs : Opens(p) \/ Starts_(p) \/ Closes(p) \/ Dies(p)
  \/ Record \/ ExpireNow \/ GC

Spec == Init /\ [][Next]_vars

-----------------------------------------------------------------------------
(* Properties.                                                             *)

Keys == Harnesses \X (Sids \cup Procs)

TypeOK ==
  /\ DOMAIN snap.reg \subseteq Keys
  /\ \A k \in DOMAIN snap.reg : /\ snap.reg[k].sid \in Sids \cup {NoSid}
                                /\ snap.reg[k].s.process \in Procs \cup {NoProc}
                                /\ snap.reg[k].s.presence \in {"unknown", "live", "gone"}
                                /\ Exists(snap.reg[k].s)
  /\ DOMAIN snap.ended \subseteq Procs /\ ~snap.failed

Live(k) == snap.reg[k].s.presence = "live"

\* The registry never holds two live sessions of one native identity
\* (reconcileIdentityProcessSessions: "so the registry never retains two live
\* sessions for one session_id"), however scans and reports interleave.
OneLivePerIdentity ==
  \A k, l \in DOMAIN snap.reg :
    Live(k) /\ Live(l) /\ k[1] = l[1] /\ snap.reg[k].sid = snap.reg[l].sid
      /\ snap.reg[k].sid # NoSid => k = l

\* A process that can have only one session open never has two live ones.
OneLivePerProcess ==
  ExclusiveProcess =>
  \A k, l \in DOMAIN snap.reg :
    Live(k) /\ Live(l) /\ k[1] = l[1] /\ snap.reg[k].s.process = snap.reg[l].s.process
      /\ snap.reg[k].s.process # NoProc => k = l

BoundTo(reg, p) == {k \in DOMAIN reg : reg[k].s.process = p}

\* While the registry remembers that a process ended, no late report of it makes
\* a new session (endedProcessReport: it "arrived after its process-only session
\* was removed and would otherwise recreate it").
EndedStays ==
  \A p \in DOMAIN snap.ended : ~Runs(p, Now) =>
    \A k \in BoundTo(snap'.reg, p) : k \in DOMAIN snap.reg

\* What comes of a scan of the present.
AfterScan(h) == {ApplyAll(snap, batch, Now) : batch \in SetToSeqs(Seen(h))}

\* No session of h is live in a process that runs no more.
NoGhosts(reg, h) ==
  \A k \in DOMAIN reg :
    k[1] = h /\ reg[k].s.presence = "live" /\ reg[k].s.process # NoProc
      => Runs(reg[k].s.process, Now)

\* A session of another agent than h is not live in a process that runs, unless h's own
\* session in that process is already a tombstone: then h is not believed to be back
\* (terminalRejected drops the sighting with all it would have retired).
HarnessDecided(reg, h) ==
  \A k \in DOMAIN reg :
    reg[k].s.presence = "live" /\ reg[k].s.process \in {p \in Procs : Runs(p, Now)}
      => \/ k[1] = h
         \/ \E l \in BoundTo(reg, reg[k].s.process) : l[1] = h /\ Gone(reg[l])

\* Whatever reports were delivered late before it, a scan of the present never conflicts
\* with what the registry holds, which would fail the whole batch and hide every other
\* process of the scan; it leaves no session live in a process that ended; and
\* it decides which agent a process runs, whichever reports of others still arrive.
ScanIsBelieved ==
  \A h \in Harnesses : \A after \in AfterScan(h) :
    LET reg == Recorded(snap, after, Now).reg
    IN  ~after.failed /\ NoGhosts(reg, h) /\ HarnessDecided(reg, h)
=============================================================================
