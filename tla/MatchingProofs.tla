--------------------------- MODULE MatchingProofs ---------------------------
(***************************************************************************)
(* Proofs about Matching, for any processes, native sessions, harnesses    *)
(* and policy: the registry stays well formed, one native session never    *)
(* has two live entries, an exclusive process never has two live sessions, *)
(* and a process that ended stays forgotten.                               *)
(***************************************************************************)
EXTENDS Matching, LifecycleProofs, FiniteSetTheorems, SequenceTheorems,
        WellFoundedInduction, TLAPS

-----------------------------------------------------------------------------
(* Types.                                                                  *)

Names == Sids \cup {NoSid}

\* A reporter of several sessions in one process is outside this model.
Entries ==
  [s : Sessions, sid : Names, named : BOOLEAN, multi : {FALSE}, pane : Process,
   created : Nat, updated : Nat, changed : Nat]

\* An entry that is reduced, at moment now, and one that is stored.
WellTyped(e, now) ==
  e \in Entries /\ Sound(e.s) /\ e.created <= now /\ e.updated <= now
SoundEntry(e, now) == WellTyped(e, now) /\ Exists(e.s)

Registry(reg, now) ==
  /\ reg = [k \in DOMAIN reg |-> reg[k]]
  /\ DOMAIN reg \subseteq Keys
  /\ \A k \in DOMAIN reg : SoundEntry(reg[k], now)

\* What can be recorded: a scan and a pane tell no native session, a listing and a
\* verification are about one, and an observation names a session or a process; a report
\* lacks either only where it may.
Messages(now) ==
  {o \in [h : Harnesses, sid : Names, pane : Process, multi : {FALSE}, pid : Process,
          e : Observations] :
     /\ o.e.at <= now
     /\ o.e.kind \in {"report", "sighting", "placement", "listing", "verification"}
     /\ o.e.kind \in {"sighting", "placement"} => o.sid = NoSid
     /\ o.e.kind \in {"listing", "verification"} => o.sid \in Sids
     /\ o.sid = NoSid => Proc(o) # NoProc
     /\ IsReport(o.e) /\ ~Anonymous => o.sid # NoSid
     /\ IsReport(o.e) /\ ~Bare => Proc(o) # NoProc}

LEMMA MessageTypes ==
  ASSUME NEW now, NEW o \in Messages(now)
  PROVE  /\ o.h \in Harnesses /\ o.sid \in Names /\ o.pane \in Process /\ o.multi = FALSE
         /\ o.pid \in Process /\ o.e \in Observations /\ o.e.at \in Nat /\ o.e.at <= now
         /\ Proc(o) \in Process
         /\ o.e.kind \in {"report", "sighting", "placement", "listing", "verification"}
         /\ o.e.kind \in {"sighting", "placement"} => o.sid = NoSid /\ Proc(o) # NoProc
         /\ o.e.kind \in {"listing", "verification"} => o.sid \in Sids /\ Proc(o) = NoProc
         /\ o.sid = NoSid => Proc(o) # NoProc
         /\ IsReport(o.e) <=> o.e.kind = "report"
         /\ IsReport(o.e) /\ ~Anonymous => o.sid # NoSid
         /\ IsReport(o.e) /\ ~Bare => Proc(o) # NoProc
  BY DEF Messages, Observations, Proc, IsReport

-----------------------------------------------------------------------------
(* The best match.                                                         *)

\* A nonempty set of numbers below a bound has a greatest one.
LEMMA Greatest ==
  ASSUME NEW S \in SUBSET Nat, S # {}, NEW b \in Nat, \A x \in S : x <= b
  PROVE  \E m \in S : \A x \in S : x <= m
<1> DEFINE T == {b - x : x \in S}
<1>1. T \subseteq Nat /\ T # {}
  <2>1. ASSUME NEW x \in S PROVE b - x \in Nat
    OBVIOUS
  <2> QED
    BY <2>1
<1>2. PICK t \in T : \A u \in T : ~(<<u, t>> \in OpToRel(<, Nat))
  BY <1>1, NatLessThanWellFounded, WFMin
<1>3. PICK m \in S : t = b - m
  OBVIOUS
<1>4. ASSUME NEW x \in S PROVE x <= m
  <2>1. b - x \in T /\ b - x \in Nat /\ t \in Nat
    BY <1>1
  <2>2. ~(b - x < t)
    BY <1>2, <2>1 DEF OpToRel
  <2> QED
    BY <1>3, <2>2
<1> QED
  BY <1>4

\* bestMatchingSessionID finds one of the matches unless there are none.
LEMMA BestFacts ==
  ASSUME NEW now \in Nat, NEW reg, Registry(reg, now), NEW m \in SUBSET DOMAIN reg
  PROVE  \/ m = {} /\ Best(reg, m) = {}
         \/ \E k \in m : Best(reg, m) = {k}
<1> SUFFICES ASSUME m # {} PROVE \E k \in m : \A l \in m : AtLeast(reg[k], reg[l])
  BY DEF Best
<1>1. ASSUME NEW k \in m
      PROVE  /\ Rank(reg[k]) \in 0..2 /\ reg[k].updated \in 0..now /\ reg[k].created \in 0..now
  <2>1. reg[k] \in Entries /\ reg[k].updated <= now /\ reg[k].created <= now
    BY DEF Registry, SoundEntry, WellTyped
  <2>2. reg[k].s.presence \in {"unknown", "live", "gone"}
    BY <2>1 DEF Entries, Sessions
  <2>3. reg[k].updated \in Nat /\ reg[k].created \in Nat
    BY <2>1 DEF Entries
  <2>4. Rank(reg[k]) \in 0..2
    BY <2>2 DEF Rank
  <2> QED
    BY <2>1, <2>3, <2>4
<1>2. PICK a \in m : \A l \in m : Rank(reg[l]) <= Rank(reg[a])
  <2> DEFINE S == {Rank(reg[l]) : l \in m}
  <2>1. S \in SUBSET Nat /\ S # {} /\ \A x \in S : x <= 2
    BY <1>1
  <2>2. PICK x \in S : \A y \in S : y <= x
    BY <2>1, Greatest
  <2> QED
    BY <2>2
<1> DEFINE m1 == {l \in m : Rank(reg[l]) = Rank(reg[a])}
<1>3. PICK b \in m1 : \A l \in m1 : reg[l].updated <= reg[b].updated
  <2> DEFINE S == {reg[l].updated : l \in m1}
  <2>1. S \in SUBSET Nat /\ S # {} /\ \A x \in S : x <= now
    BY <1>1
  <2>2. PICK x \in S : \A y \in S : y <= x
    BY <2>1, Greatest
  <2> QED
    BY <2>2
<1> DEFINE m2 == {l \in m1 : reg[l].updated = reg[b].updated}
<1>4. PICK c \in m2 : \A l \in m2 : reg[l].created <= reg[c].created
  <2> DEFINE S == {reg[l].created : l \in m2}
  <2>1. S \in SUBSET Nat /\ S # {} /\ \A x \in S : x <= now
    BY <1>1
  <2>2. PICK x \in S : \A y \in S : y <= x
    BY <2>1, Greatest
  <2> QED
    BY <2>2
<1>5. ASSUME NEW l \in m PROVE AtLeast(reg[c], reg[l])
  BY <1>1, <1>2, <1>3, <1>4, <1>5 DEF AtLeast
<1> QED
  BY <1>5

\* findProcessMatchingSession, findIdentityMatchingSession and findListingMatchingSession
\* find one of their matches, unless there are none.
LEMMA FindFacts ==
  ASSUME NEW now \in Nat, NEW reg, Registry(reg, now), NEW o
  PROVE  /\ \/ FindProcess(reg, o) = {} /\ ProcessMatches(reg, o) = {}
            \/ \E k \in ProcessMatches(reg, o) : FindProcess(reg, o) = {k}
         /\ \/ FindIdentity(reg, o) = {} /\ IdentityMatches(reg, o) = {}
            \/ \E k \in IdentityMatches(reg, o) : FindIdentity(reg, o) = {k}
         /\ \/ FindListing(reg, o) = {} /\ ListingMatches(reg, o) = {}
            \/ \E k \in ListingMatches(reg, o) : FindListing(reg, o) = {k}
<1>1. /\ ProcessMatches(reg, o) \in SUBSET DOMAIN reg
      /\ IdentityMatches(reg, o) \in SUBSET DOMAIN reg
      /\ ListingMatches(reg, o) \in SUBSET DOMAIN reg
  BY DEF ProcessMatches, IdentityMatches, ListingMatches, Of
<1> QED
  BY <1>1, BestFacts DEF FindProcess, FindIdentity, FindListing

-----------------------------------------------------------------------------
(* Sessions that lose their process.                                       *)

\* An entry that another session of its process, or another process of its session, has
\* touched: it may have ended, and is otherwise the same.
Outlasts(e, x) ==
  /\ x.sid = e.sid /\ x.named = e.named /\ x.s.native = e.s.native
  /\ x.s.process = e.s.process /\ (Terminal(e.s) => Terminal(x.s))

\* The entry of a session that lost its process.
Retiring(e, o, taken, u) ==
  [Become(e, Retire(e.s, o.e, taken).session, o.e.at) EXCEPT !.updated = Later(@, u)]

\* retireConflictingProcessSessions and, where the retirement may fail,
\* reconcileIdentityProcessSessions.
LEMMA RetiredEntry ==
  ASSUME NEW now \in Nat, NEW o \in Messages(now), o.e.kind # "verification",
         NEW e, SoundEntry(e, now), NEW taken \in BOOLEAN, NEW u \in Nat, u <= now
  PROVE  LET x == Retiring(e, o, taken, u)
         IN  /\ SoundEntry(x, now) /\ Outlasts(e, x)
             /\ Accepted(Decide(e.s, o.e, TRUE)) => Terminal(x.s)
<1> DEFINE r == Retire(e.s, o.e, taken).session
           c == IF r.presence # e.s.presence THEN o.e.at ELSE e.changed
           b == [e EXCEPT !.s = r, !.changed = c]
           x == [b EXCEPT !.updated = Later(@, u)]
<1>1. /\ e \in Entries /\ e.s \in Sessions /\ Sound(e.s) /\ Exists(e.s)
      /\ e.created <= now /\ e.updated <= now /\ e.updated \in Nat /\ e.changed \in Nat
  BY DEF SoundEntry, WellTyped, Entries
<1>2. o.e \in Observations /\ o.e.at \in Nat
  BY MessageTypes
<1>3. /\ r \in Sessions /\ Sound(r) /\ Exists(r)
      /\ r.native = e.s.native /\ r.process = e.s.process
      /\ Terminal(e.s) => Terminal(r)
      /\ Accepted(Decide(e.s, o.e, TRUE)) => Terminal(r)
  <2> HIDE DEF r
  <2>1. \/ r = e.s /\ ~Accepted(Decide(e.s, o.e, TRUE))
        \/ /\ r \in Sessions /\ Sound(r) /\ r.inc.state = "exited"
           /\ r.native = e.s.native /\ r.process = e.s.process
    <3> USE DEF r
    <3> QED
      BY <1>1, <1>2, RetireFacts
  <2> QED
    BY <1>1, <2>1 DEF Exists, Terminal
<1> HIDE DEF r
<1>4. c \in Nat
  BY <1>1, <1>2
<1> HIDE DEF c
<1>5. /\ b \in Entries /\ b.s = r /\ b.updated = e.updated /\ b.created = e.created
      /\ b.sid = e.sid /\ b.named = e.named
  BY <1>1, <1>3, <1>4 DEF Entries
<1> HIDE DEF b
<1>6. Later(b.updated, u) \in Nat /\ Later(b.updated, u) <= now
  BY <1>1, <1>5 DEF Later
<1>7. /\ x \in Entries /\ x.s = r /\ x.updated <= now /\ x.created = e.created
      /\ x.sid = e.sid /\ x.named = e.named
  BY <1>5, <1>6 DEF Entries
<1>8. x = Retiring(e, o, taken, u)
  BY DEF x, b, c, r, Become, Retiring
<1> HIDE DEF x
<1> QED
  BY <1>1, <1>3, <1>7, <1>8 DEF SoundEntry, WellTyped, Outlasts

\* A key, its entry and what becomes of it.
Keeps(reg, r) == DOMAIN r \subseteq DOMAIN reg /\ \A k \in DOMAIN r : Outlasts(reg[k], r[k])

\* retireConflictingProcessSessions touches only what the observation replaces, and unless
\* the observation ends a session itself nothing that it replaces goes on.
LEMMA RetireConflictingFacts ==
  ASSUME NEW now \in Nat, NEW o \in Messages(now), NEW reg, Registry(reg, now)
  PROVE  LET r == RetireConflicting(reg, o, now)
         IN  /\ Registry(r, now) /\ DOMAIN r = DOMAIN reg /\ Keeps(reg, r)
             /\ ~RetirementRejected(reg, o) /\ ~Ends(o.e) =>
                  \A k \in Replaced(reg, o) : Terminal(r[k].s)
<1> DEFINE r == RetireConflicting(reg, o, now)
           one(k) == Retiring(reg[k], o, NativeReplacement(k, reg[k], o), now)
           hit(k) == k \in Replaced(reg, o) /\ Accepted(Decide(reg[k].s, o.e, TRUE))
<1>1. /\ r = [k \in DOMAIN reg |-> r[k]] /\ DOMAIN r = DOMAIN reg
      /\ \A k \in DOMAIN reg : r[k] = IF hit(k) THEN one(k) ELSE reg[k]
  BY DEF RetireConflicting, Retiring
<1>2. ASSUME NEW k \in DOMAIN reg
      PROVE  /\ SoundEntry(r[k], now) /\ Outlasts(reg[k], r[k])
             /\ hit(k) => Terminal(r[k].s)
  <2>1. SoundEntry(reg[k], now)
    BY DEF Registry
  <2>2. CASE ~hit(k)
    BY <1>1, <2>1, <2>2 DEF Outlasts
  <2>3. CASE hit(k)
    <3>1. o.e.kind # "verification"
      <4>1. Proc(o) # NoProc
        BY <2>3 DEF Replaced
      <4> QED
        BY <4>1, MessageTypes
    <3>2. NativeReplacement(k, reg[k], o) \in BOOLEAN
      BY DEF NativeReplacement
    <3>3. SoundEntry(one(k), now) /\ Outlasts(reg[k], one(k)) /\ Terminal(one(k).s)
      <4>1. now <= now
        OBVIOUS
      <4>2. Accepted(Decide(reg[k].s, o.e, TRUE))
        BY <2>3, Zenon
      <4> QED
        BY <2>1, <3>1, <3>2, <4>1, <4>2, RetiredEntry
    <3>4. r[k] = one(k)
      BY <1>1, <2>3
    <3> HIDE DEF one, r
    <3> QED
      BY <3>3, <3>4
  <2> QED
    BY <2>2, <2>3
<1>3. ASSUME ~RetirementRejected(reg, o), ~Ends(o.e), NEW k \in Replaced(reg, o)
      PROVE  k \in DOMAIN reg /\ hit(k)
  <2>1. k \in DOMAIN reg /\ Decide(reg[k].s, o.e, TRUE) # "reject" /\ Proc(o) # NoProc
    BY <1>3 DEF RetirementRejected, Replaced
  <2>2. o.e.kind # "verification"
    BY <2>1, MessageTypes
  <2> QED
    BY <1>3, <2>1, <2>2 DEF Decide, Accepted
<1> HIDE DEF r, hit, one
<1>4. Registry(r, now) /\ Keeps(reg, r)
  BY <1>1, <1>2 DEF Registry, Keeps
<1>5. ~RetirementRejected(reg, o) /\ ~Ends(o.e) => \A k \in Replaced(reg, o) : Terminal(r[k].s)
  BY <1>2, <1>3
<1> QED
  BY <1>1, <1>4, <1>5 DEF r

-----------------------------------------------------------------------------
(* Two sessions that turn out to be one.                                   *)

\* mergeProvisionalSession: the session of the process takes over the identity.
LEMMA MergeFacts ==
  ASSUME NEW now \in Nat, NEW t, SoundEntry(t, now), t.s.process # NoProc,
         NEW p, SoundEntry(p, now)
  PROVE  LET m == Merge(t, p)
         IN  /\ SoundEntry(m, now)
             /\ m.sid = (IF t.sid = NoSid THEN p.sid ELSE t.sid)
             /\ m.s.inc = t.s.inc /\ m.s.process = t.s.process
<1> DEFINE sid == IF t.sid = NoSid THEN p.sid ELSE t.sid
           named == t.named \/ t.sid # NoSid \/ p.sid # NoSid
           pane == IF t.pane = NoProc THEN p.pane ELSE t.pane
           created == Earlier(t.created, p.created)
           updated == Later(t.updated, p.updated)
           list == Later(t.s.list, p.s.list)
           place == Later(t.s.place, p.s.place)
           s == MergeObservations(t.s, p.s)
           m == [t EXCEPT !.sid = sid, !.named = named, !.pane = pane, !.created = created,
                          !.updated = updated, !.s = s]
<1>1. t \in Entries /\ p \in Entries /\ t.s \in Sessions /\ p.s \in Sessions
  BY DEF SoundEntry, WellTyped, Entries
<1>2. /\ t.created \in Nat /\ p.created \in Nat /\ t.updated \in Nat /\ p.updated \in Nat
      /\ t.s.list \in Nat /\ p.s.list \in Nat /\ t.s.place \in Nat /\ p.s.place \in Nat
      /\ t.sid \in Names /\ p.sid \in Names /\ t.pane \in Process /\ p.pane \in Process
      /\ t.named \in BOOLEAN
  BY <1>1 DEF Entries, Sessions
<1>3. /\ t.created <= now /\ p.created <= now /\ t.updated <= now /\ p.updated <= now
      /\ Sound(t.s) /\ Exists(t.s)
  BY DEF SoundEntry, WellTyped
<1>4. /\ created \in Nat /\ created <= now /\ updated \in Nat /\ updated <= now
      /\ list \in Nat /\ place \in Nat
  BY <1>2, <1>3 DEF Earlier, Later
<1>5. sid \in Names /\ named \in BOOLEAN /\ pane \in Process
  BY <1>2
<1>6. Merge(t, p) = m
  BY DEF Merge
<1>s. s = [t.s EXCEPT !.list = list, !.place = place, !.native = @, !.sight = @, !.screen = @]
  BY DEF MergeObservations
<1> HIDE DEF list, place, created, updated, sid, named, pane, s
<1>7. /\ s \in Sessions /\ s.inc = t.s.inc /\ s.process = t.s.process
      /\ s.presence = t.s.presence /\ s.act = t.s.act /\ s.native = t.s.native
      /\ s.replaced = t.s.replaced
  BY <1>1, <1>4, <1>s DEF Sessions
<1>8. Sound(s) /\ Exists(s)
  BY <1>3, <1>7 DEF Sound, Exists, NativeEnded, Terminal
<1>9. /\ m \in Entries /\ m.s = s /\ m.sid = sid /\ m.created = created
      /\ m.updated = updated
  BY <1>1, <1>4, <1>5, <1>7 DEF Entries
<1> HIDE DEF m
<1> QED
  BY <1>4, <1>6, <1>7, <1>8, <1>9 DEF SoundEntry, WellTyped, sid

LEMMA WithFacts ==
  ASSUME NEW reg, NEW key, NEW entry
  PROVE  LET r == With(reg, key, entry)
         IN  /\ r = [k \in DOMAIN r |-> r[k]] /\ DOMAIN r = DOMAIN reg \cup {key}
             /\ r[key] = entry
             /\ \A k \in DOMAIN reg : k # key => r[k] = reg[k]
  BY DEF With

LEMMA WithoutFacts ==
  ASSUME NEW reg, NEW keys
  PROVE  LET r == Without(reg, keys)
         IN  /\ r = [k \in DOMAIN r |-> r[k]] /\ DOMAIN r = DOMAIN reg \ keys
             /\ \A k \in DOMAIN r : r[k] = reg[k]
  BY DEF Without

\* Writing a sound entry, or removing entries, leaves a registry.
LEMMA RegistryWith ==
  ASSUME NEW now \in Nat, NEW reg, Registry(reg, now), NEW key \in Keys,
         NEW entry, SoundEntry(entry, now)
  PROVE  Registry(With(reg, key, entry), now)
<1> DEFINE r == With(reg, key, entry)
<1>1. /\ r = [k \in DOMAIN r |-> r[k]] /\ DOMAIN r = DOMAIN reg \cup {key}
      /\ r[key] = entry /\ \A k \in DOMAIN reg : k # key => r[k] = reg[k]
  BY DEF With
<1> HIDE DEF r
<1>2. \A k \in DOMAIN r : SoundEntry(r[k], now)
  BY <1>1 DEF Registry
<1>3. Registry(r, now)
  BY <1>1, <1>2 DEF Registry
<1> QED
  BY <1>3 DEF r

LEMMA RegistryWithout ==
  ASSUME NEW now \in Nat, NEW reg, Registry(reg, now), NEW keys
  PROVE  Registry(Without(reg, keys), now)
<1> DEFINE r == Without(reg, keys)
<1>1. /\ r = [k \in DOMAIN r |-> r[k]] /\ DOMAIN r = DOMAIN reg \ keys
      /\ \A k \in DOMAIN r : r[k] = reg[k]
  BY WithoutFacts
<1> HIDE DEF r
<1>2. Registry(r, now)
  BY <1>1 DEF Registry
<1> QED
  BY <1>2 DEF r

\* The entries have the processes they had.
SameProcesses(reg, r) ==
  DOMAIN r \subseteq DOMAIN reg /\ \A k \in DOMAIN r : r[k].s.process = reg[k].s.process

\* reconcileIdentityProcessSessions for two different sessions.
LEMMA ReuniteFacts ==
  ASSUME NEW now \in Nat, NEW o \in Messages(now), NEW reg, Registry(reg, now),
         NEW k \in IdentityMatches(reg, o), NEW t \in ProcessMatches(reg, o), k # t
  PROVE  LET f == Reunite(reg, o, k, t)
         IN  /\ Registry(f.reg, now) /\ SameProcesses(reg, f.reg)
             /\ f.found = {t} /\ t \in DOMAIN f.reg
             /\ reg[k].s.process = NoProc =>
                  /\ DOMAIN f.reg = DOMAIN reg \ {k}
                  /\ f.reg[t].sid = IF reg[t].sid = NoSid THEN reg[k].sid ELSE reg[t].sid
                  /\ f.reg[t].s.inc = reg[t].s.inc
                  /\ \A l \in DOMAIN reg \ {k, t} : f.reg[l] = reg[l]
<1>1. /\ k \in DOMAIN reg /\ t \in DOMAIN reg /\ k \in Keys /\ t \in Keys
      /\ SoundEntry(reg[k], now) /\ SoundEntry(reg[t], now)
      /\ reg[t].s.process = Proc(o) /\ Proc(o) # NoProc
  BY DEF IdentityMatches, ProcessMatches, Of, Registry
<1>2. CASE reg[k].s.process = NoProc
  <2> DEFINE w == Without(reg, {k})
             m == Merge(reg[t], reg[k])
             r == With(w, t, m)
  <2>1. Reunite(reg, o, k, t) = [reg |-> r, found |-> {t}]
    BY <1>2 DEF Reunite
  <2>2. Registry(w, now)
    BY RegistryWithout
  <2>3. /\ SoundEntry(m, now) /\ m.s.inc = reg[t].s.inc /\ m.s.process = reg[t].s.process
        /\ m.sid = IF reg[t].sid = NoSid THEN reg[k].sid ELSE reg[t].sid
    BY <1>1, MergeFacts
  <2>4. DOMAIN w = DOMAIN reg \ {k} /\ \A l \in DOMAIN w : w[l] = reg[l]
    BY DEF Without
  <2> HIDE DEF w, m
  <2>5. Registry(r, now)
    BY <1>1, <2>2, <2>3, RegistryWith
  <2>6. DOMAIN r = DOMAIN w \cup {t} /\ r[t] = m /\ \A l \in DOMAIN w : l # t => r[l] = w[l]
    BY DEF With
  <2> HIDE DEF r
  <2>7. DOMAIN r = DOMAIN reg \ {k} /\ \A l \in DOMAIN reg \ {k, t} : r[l] = reg[l]
    BY <1>1, <2>4, <2>6
  <2>8. SameProcesses(reg, r)
    BY <2>3, <2>6, <2>7 DEF SameProcesses
  <2> QED
    BY <1>1, <1>2, <2>1, <2>3, <2>5, <2>6, <2>7, <2>8
<1>3. CASE reg[k].s.process # NoProc /\ reg[k].s.process # Proc(o)
  <2> DEFINE m == Retiring(reg[k], o, FALSE, o.e.at)
             r == With(reg, k, m)
  <2>1. Reunite(reg, o, k, t) = [reg |-> r, found |-> {t}]
    BY <1>3 DEF Reunite, Retiring
  <2>2. o.e.at \in Nat /\ o.e.at <= now /\ o.e.kind # "verification"
    BY <1>1, MessageTypes
  <2>3. SoundEntry(m, now) /\ m.s.process = reg[k].s.process
    <3>1. FALSE \in BOOLEAN
      OBVIOUS
    <3>2. SoundEntry(m, now) /\ Outlasts(reg[k], m)
      BY <1>1, <2>2, <3>1, RetiredEntry
    <3> QED
      BY <3>2 DEF Outlasts
  <2> HIDE DEF m
  <2>4. Registry(r, now)
    BY <1>1, <2>3, RegistryWith
  <2>5. DOMAIN r = DOMAIN reg \cup {k} /\ r[k] = m /\ \A l \in DOMAIN reg : l # k => r[l] = reg[l]
    BY DEF With
  <2> HIDE DEF r
  <2>6. SameProcesses(reg, r)
    BY <1>1, <2>3, <2>5 DEF SameProcesses
  <2> QED
    BY <1>1, <1>3, <2>1, <2>4, <2>5, <2>6
<1>4. CASE reg[k].s.process = Proc(o)
  <2>1. Reunite(reg, o, k, t) = [reg |-> reg, found |-> {t}]
    BY <1>1, <1>4 DEF Reunite
  <2> QED
    BY <1>1, <1>4, <2>1 DEF SameProcesses
<1> QED
  BY <1>2, <1>3, <1>4

\* findAndReconcileMatchingSession: the session found is one of the harness, no process
\* changes, and where nothing is found nothing matches.
LEMMA ReconcileFacts ==
  ASSUME NEW now \in Nat, NEW o \in Messages(now), NEW reg, Registry(reg, now)
  PROVE  LET f == Reconcile(reg, o)
         IN  /\ Registry(f.reg, now) /\ SameProcesses(reg, f.reg)
             /\ \/ /\ f.found = {} /\ f.reg = reg /\ FindMatching(reg, o) = {}
                   /\ IdentityMatches(reg, o) = {} /\ ProcessMatches(reg, o) = {}
                \/ \E k \in DOMAIN f.reg :
                     f.found = {k} /\ k[1] = o.h /\ FindMatching(reg, o) # {}
<1> DEFINE i == FindIdentity(reg, o)
           p == FindProcess(reg, o)
           l == FindListing(reg, o)
           f == Reconcile(reg, o)
<1>1. /\ \/ p = {} /\ ProcessMatches(reg, o) = {}
         \/ \E k \in ProcessMatches(reg, o) : p = {k}
      /\ \/ i = {} /\ IdentityMatches(reg, o) = {}
         \/ \E k \in IdentityMatches(reg, o) : i = {k}
      /\ \/ l = {}
         \/ \E k \in ListingMatches(reg, o) : l = {k}
  BY FindFacts
<1>2. f = ReconcileFound(reg, o, i, p) /\ FindMatching(reg, o) = First(p, First(i, l))
  BY DEF Reconcile, FindMatching
<1>3. /\ \A k \in ProcessMatches(reg, o) : k \in DOMAIN reg /\ k[1] = o.h
      /\ \A k \in IdentityMatches(reg, o) : k \in DOMAIN reg /\ k[1] = o.h
      /\ \A k \in ListingMatches(reg, o) : k \in DOMAIN reg /\ k[1] = o.h
  BY DEF ProcessMatches, IdentityMatches, ListingMatches, Of
<1>4. SameProcesses(reg, reg)
  BY DEF SameProcesses
<1> HIDE DEF i, p, l, f
<1>5. CASE PreferIdentity(reg, o, i, p)
  <2>1. f = [reg |-> reg, found |-> i] /\ i # {}
    BY <1>2, <1>5 DEF ReconcileFound, PreferIdentity
  <2> QED
    BY <1>1, <1>2, <1>3, <1>4, <2>1 DEF First, f
<1>6. CASE ~PreferIdentity(reg, o, i, p) /\ (i = {} \/ p = {} \/ i = p)
  <2>1. f = [reg |-> reg, found |-> First(p, First(i, l))]
    BY <1>2, <1>6 DEF ReconcileFound, l
  <2> QED
    BY <1>1, <1>2, <1>3, <1>4, <2>1 DEF First, f
<1>7. CASE ~PreferIdentity(reg, o, i, p) /\ ~(i = {} \/ p = {} \/ i = p)
  <2>1. PICK k \in IdentityMatches(reg, o) : i = {k}
    BY <1>1, <1>7
  <2>2. PICK t \in ProcessMatches(reg, o) : p = {t}
    BY <1>1, <1>7
  <2>3. k # t /\ k \in i /\ t \in p
    BY <1>7, <2>1, <2>2
  <2>4. f = Reunite(reg, o, k, t)
    BY <1>2, <1>7, <2>1, <2>2 DEF ReconcileFound
  <2>5. /\ Registry(f.reg, now) /\ SameProcesses(reg, f.reg)
        /\ f.found = {t} /\ t \in DOMAIN f.reg
    BY <2>3, <2>4, ReuniteFacts
  <2> QED
    BY <1>2, <1>3, <2>2, <2>5 DEF First, f
<1> QED
  BY <1>5, <1>6, <1>7

-----------------------------------------------------------------------------
(* Reducing one observation.                                               *)

LEMMA NewSessionSound == NewSession \in Sessions /\ Sound(NewSession) /\ ~Exists(NewSession)
<1>1. NoProc \in Process
  BY DEF Process
<1>2. NoIncarnation \in Incarnations
  BY <1>1 DEF NoIncarnation, Incarnations, States
<1>3. NoNative \in Natives
  BY <1>1 DEF NoNative, Natives, Lives, Claims, Acts
<1>4. NoScreen \in Screens /\ NoSight \in Sights
  BY <1>1 DEF NoScreen, Screens, Acts, NoSight, Sights
<1>5. NewSession \in Sessions
  BY <1>1, <1>2, <1>3, <1>4 DEF NewSession, Sessions, Acts
<1> QED
  BY <1>5 DEF NewSession, Sound, Exists, NoIncarnation, PresenceIn, NativeEnded, NoNative

\* The first observation of a session is followed (reduceNewSession).
LEMMA FirstFacts ==
  ASSUME NEW o \in Observations, Reduce(NewSession, o).out = "saved"
  PROVE  Follows(NewSession, o, Reduce(NewSession, o).session)
<1> DEFINE s == NewSession
           a == Decide(s, o, FALSE)
           b == IF Resets(a) THEN [s EXCEPT !.native = NoNative] ELSE s
           at == SequencedTime(b, o)
<1>1. s \in Sessions /\ Sound(s) /\ ~Exists(s)
  BY NewSessionSound
<1>2. s.native = NoNative /\ SlotTime(s, o) = 0
  BY DEF NewSession, SlotTime, NoNative, NoSight, NoScreen
<1>3. b = s
  BY <1>1, <1>2 DEF Sessions
<1>4. ~Duplicate(b, o) /\ ~OutOfSequence(b, o)
  <2> HIDE DEF b, s
  <2>1. b.native.at = 0
    BY <1>2, <1>3 DEF NoNative
  <2> QED
    BY <2>1 DEF Duplicate, OutOfSequence, Sequenced
<1>5. Accepted(a) /\ Reduce(s, o) = ApplyObservation(s, o, a, at)
  <2> HIDE DEF s, a, at
  <2> QED
    BY <1>4 DEF Reduce, Dropped, Conflict, Saved, s, a, at
<1>6. at \in Nat /\ at >= o.at
  BY <1>1, <1>3, <1>4, SequencedTimeFacts
<1>7. ApplyObservation(s, o, a, at).session = Applied(s, o, a, at)
  <2> HIDE DEF s, a, at
  <2> QED
    BY <1>2 DEF ApplyObservation, Applied, Saved
<1> HIDE DEF s
<1> QED
  BY <1>1, <1>5, <1>6, <1>7, AppliedFacts DEF s

\* The entry that a reduced session is saved in.
LEMMA StampFacts ==
  ASSUME NEW now \in Nat, NEW o \in Messages(now), NEW entry, WellTyped(entry, now),
         NEW s \in Sessions, Sound(s), Exists(s)
  PROVE  LET x == Stamp(entry, s, o, now)
             same == s = entry.s /\ o.e.kind # "verification"
         IN  /\ SoundEntry(x, now) /\ x.s = s
             /\ x.sid = (IF same \/ o.sid = NoSid THEN entry.sid ELSE o.sid)
             /\ x.named = (IF same \/ o.sid = NoSid THEN entry.named ELSE TRUE)
<1> DEFINE at == StampTime(entry, o)
           c == IF s.presence # entry.s.presence THEN at ELSE entry.changed
           b == [entry EXCEPT !.s = s, !.changed = c]
           x == [b EXCEPT !.named = @ \/ o.sid # NoSid, !.sid = IF o.sid # NoSid THEN o.sid ELSE @,
                          !.multi = IF IsReport(o.e) THEN o.multi ELSE @,
                          !.pane = IF o.pane # NoProc THEN o.pane ELSE @,
                          !.updated = Later(@, now)]
<1>1. /\ entry \in Entries /\ entry.s \in Sessions /\ entry.changed \in Nat
      /\ entry.updated \in Nat /\ entry.updated <= now /\ entry.created <= now
  BY DEF WellTyped, Entries
<1>2. /\ o.sid \in Names /\ o.pane \in Process /\ o.multi = FALSE /\ o.e \in Observations
      /\ o.e.at \in Nat
  BY MessageTypes
<1>3. CASE s = entry.s /\ o.e.kind # "verification"
  <2>1. Stamp(entry, s, o, now) = entry
    BY <1>3 DEF Stamp
  <2> QED
    BY <1>3, <2>1 DEF SoundEntry, WellTyped
<1>4. CASE ~(s = entry.s /\ o.e.kind # "verification")
  <2>1. at \in Nat
    <3> DEFINE base == IF Resets(Decide(entry.s, o.e, FALSE))
                       THEN [entry.s EXCEPT !.native = NoNative] ELSE entry.s
    <3>1. NoNative \in Natives
      BY DEF Natives, NoNative, Process, Lives, Claims, Acts
    <3>2. base \in Sessions
      BY <1>1, <3>1 DEF Sessions
    <3>3. at = SequencedTime(base, o.e)
      BY DEF StampTime
    <3> HIDE DEF base, at
    <3>4. CASE Duplicate(base, o.e)
      BY <1>2, <3>2, <3>3, <3>4 DEF SequencedTime, Sessions, Natives
    <3>5. CASE ~Duplicate(base, o.e)
      BY <1>2, <3>2, <3>3, <3>5, SequencedTimeFacts
    <3> QED
      BY <3>4, <3>5
  <2>2. Stamp(entry, s, o, now) = x
    BY <1>4 DEF Stamp, Become
  <2> HIDE DEF at
  <2>3. c \in Nat
    BY <1>1, <2>1
  <2> HIDE DEF c
  <2>4. /\ b \in Entries /\ b.s = s /\ b.sid = entry.sid /\ b.named = entry.named
        /\ b.updated = entry.updated /\ b.created = entry.created
    BY <1>1, <2>3 DEF Entries
  <2> HIDE DEF b
  <2>5. Later(b.updated, now) \in Nat /\ Later(b.updated, now) <= now
    BY <1>1, <2>4 DEF Later
  <2>6. /\ x \in Entries /\ x.s = s /\ x.updated <= now /\ x.created = entry.created
        /\ x.sid = (IF o.sid = NoSid THEN entry.sid ELSE o.sid)
        /\ x.named = (IF o.sid = NoSid THEN entry.named ELSE TRUE)
    BY <1>2, <2>4, <2>5 DEF Entries
  <2> HIDE DEF x
  <2> QED
    BY <1>1, <1>4, <2>2, <2>6 DEF SoundEntry, WellTyped
<1> QED
  BY <1>3, <1>4

\* A resumed session takes over what scans saw of its process.
LEMMA AdoptFacts ==
  ASSUME NEW now \in Nat, NEW e, SoundEntry(e, now), NEW t, SoundEntry(t, now), NEW o
  PROVE  LET x == Adopt(e, t, o)
         IN  /\ SoundEntry(x, now) /\ x.sid = e.sid /\ x.named = e.named
             /\ x.s.native = e.s.native /\ x.s.process = e.s.process
             /\ x.s.inc.state = e.s.inc.state
<1> DEFINE inc == [e.s.inc EXCEPT !.evAt = Later(@, t.s.inc.evAt)]
           sight == IF t.s.sight.at # 0 THEN t.s.sight ELSE e.s.sight
           place == IF t.s.place # 0 /\ o.pane = NoProc THEN t.s.place ELSE e.s.place
           pane == IF t.s.place # 0 /\ o.pane = NoProc THEN t.pane ELSE e.pane
           s == [e.s EXCEPT !.sight = sight, !.place = place, !.inc = inc]
           x == [e EXCEPT !.s = s, !.pane = pane]
<1>1. /\ e \in Entries /\ t \in Entries /\ e.s \in Sessions /\ t.s \in Sessions
      /\ Sound(e.s) /\ Exists(e.s) /\ e.created <= now /\ e.updated <= now
  BY DEF SoundEntry, WellTyped, Entries
<1>2. /\ e.s.inc \in Incarnations /\ t.s.inc \in Incarnations
      /\ e.s.sight \in Sights /\ t.s.sight \in Sights /\ e.s.place \in Nat /\ t.s.place \in Nat
      /\ e.pane \in Process /\ t.pane \in Process
  BY <1>1 DEF Sessions, Entries
<1>3. /\ inc \in Incarnations /\ inc.state = e.s.inc.state /\ inc.proc = e.s.inc.proc
  <2>1. Later(e.s.inc.evAt, t.s.inc.evAt) \in Nat
    BY <1>2 DEF Incarnations, Later
  <2> QED
    BY <1>2, <2>1 DEF Incarnations
<1>4. sight \in Sights /\ place \in Nat /\ pane \in Process
  BY <1>2
<1>5. Adopt(e, t, o) = x
  BY DEF Adopt
<1> HIDE DEF inc, sight, place, pane
<1>6. /\ s \in Sessions /\ s.inc = inc /\ s.native = e.s.native /\ s.process = e.s.process
      /\ s.presence = e.s.presence /\ s.act = e.s.act /\ s.replaced = e.s.replaced
  BY <1>1, <1>3, <1>4 DEF Sessions
<1> HIDE DEF s
<1>7. Sound(s) /\ Exists(s)
  BY <1>1, <1>3, <1>6 DEF Sound, Exists, NativeEnded, Terminal
<1>8. /\ x \in Entries /\ x.s = s /\ x.sid = e.sid /\ x.named = e.named
      /\ x.created = e.created /\ x.updated = e.updated
  BY <1>1, <1>4, <1>6 DEF Entries
<1> HIDE DEF x
<1> QED
  BY <1>1, <1>3, <1>5, <1>6, <1>7, <1>8 DEF SoundEntry, WellTyped

\* The registry g in which the reduced entry is saved at key and its twins are gone.
Placed(reg, key, saved, twins, g, now) ==
  /\ Registry(g, now)
  /\ DOMAIN g = (DOMAIN reg \ twins) \cup {key}
  /\ \A l \in DOMAIN reg \ (twins \cup {key}) : g[l] = reg[l]
  /\ g[key].sid = saved.sid /\ g[key].named = saved.named
  /\ g[key].s.native = saved.s.native /\ g[key].s.process = saved.s.process
  /\ g[key].s.inc.state = saved.s.inc.state

LEMMA PlaceFacts ==
  ASSUME NEW now \in Nat, NEW reg, Registry(reg, now), NEW key \in Keys,
         NEW saved, SoundEntry(saved, now), NEW twins \in SUBSET DOMAIN reg, NEW o
  PROVE  Placed(reg, key, saved, twins, Place(reg, key, saved, twins, o), now)
<1> DEFINE entry == IF twins = {} THEN saved ELSE Adopt(saved, reg[CHOOSE k \in twins : TRUE], o)
           w == Without(reg, twins)
           g == With(w, key, entry)
<1>1. Place(reg, key, saved, twins, o) = g
  BY DEF Place
<1>2. /\ SoundEntry(entry, now) /\ entry.sid = saved.sid /\ entry.named = saved.named
      /\ entry.s.native = saved.s.native /\ entry.s.process = saved.s.process
      /\ entry.s.inc.state = saved.s.inc.state
  <2>1. CASE twins = {}
    BY <2>1
  <2>2. CASE twins # {}
    <3> DEFINE t == CHOOSE k \in twins : TRUE
    <3>1. t \in DOMAIN reg
      BY <2>2
    <3> HIDE DEF t
    <3>2. SoundEntry(reg[t], now)
      BY <3>1 DEF Registry
    <3>3. entry = Adopt(saved, reg[t], o)
      BY <2>2 DEF t
    <3> HIDE DEF entry
    <3> QED
      BY <3>2, <3>3, AdoptFacts
  <2> QED
    BY <2>1, <2>2
<1> HIDE DEF entry
<1>3. Registry(w, now) /\ DOMAIN w = DOMAIN reg \ twins /\ \A l \in DOMAIN w : w[l] = reg[l]
  BY RegistryWithout DEF Without
<1> HIDE DEF w
<1>4. Registry(g, now)
  BY <1>2, <1>3, RegistryWith
<1>5. DOMAIN g = DOMAIN w \cup {key} /\ g[key] = entry /\ \A l \in DOMAIN w : l # key => g[l] = w[l]
  BY DEF With
<1> HIDE DEF g
<1> QED
  BY <1>1, <1>2, <1>3, <1>4, <1>5 DEF Placed

\* The twins that the reduced entry takes the place of.
Taken(reg, key, entry, o) == IF Resumes(entry, o) THEN Twins(reg, key, o) ELSE {}

\* The entry that is saved: the observation is followed, or is nothing new to an entry
\* that exists.
Stamped(entry, o, saved, now) ==
  LET s == Reduce(entry.s, o.e).session
      same == s = entry.s /\ o.e.kind # "verification"
  IN  /\ SoundEntry(saved, now) /\ saved.s = s
      /\ (s = entry.s /\ Exists(s)) \/ Follows(entry.s, o.e, s)
      /\ saved.sid = (IF same \/ o.sid = NoSid THEN entry.sid ELSE o.sid)
      /\ saved.named = (IF same \/ o.sid = NoSid THEN entry.named ELSE TRUE)

LEMMA NewEntryTyped ==
  ASSUME NEW now \in Nat
  PROVE  WellTyped(NewEntry(now), now) /\ NewEntry(now).s = NewSession
         /\ NewEntry(now).sid = NoSid /\ NewEntry(now).named = FALSE
<1>1. NewSession \in Sessions /\ Sound(NewSession)
  BY NewSessionSound
<1>2. NoSid \in Names /\ NoProc \in Process
  BY DEF Names, Process
<1> HIDE DEF NewSession
<1>3. NewEntry(now) \in Entries
  BY <1>1, <1>2 DEF NewEntry, Entries
<1> QED
  BY <1>1, <1>3 DEF WellTyped, NewEntry

\* reduceExistingSession and reduceNewSession: what is not saved leaves the registry
\* before it was reconciled.
LEMMA ReduceAtFacts ==
  ASSUME NEW now \in Nat, NEW o \in Messages(now), NEW before, NEW reg, Registry(reg, now),
         NEW key \in Keys
  PROVE  LET entry == EntryAt(reg, key, now)
             g == ReduceAt(before, reg, key, o, now).reg
         IN  \/ g = before
             \/ \E saved : /\ Stamped(entry, o, saved, now)
                           /\ Placed(reg, key, saved, Taken(reg, key, entry, o), g, now)
<1> DEFINE entry == EntryAt(reg, key, now)
           r == Reduce(entry.s, o.e)
           s == r.session
           saved == Stamp(entry, s, o, now)
           twins == Taken(reg, key, entry, o)
           g == ReduceAt(before, reg, key, o, now).reg
<1>1. \/ g = before
      \/ r.out = "saved" /\ g = Place(reg, key, saved, twins, o)
  BY DEF ReduceAt, ReduceEntry, Conclude, Taken
<1>2. /\ WellTyped(entry, now)
      /\ Exists(entry.s) \/ entry.s = NewSession
  BY NewEntryTyped DEF EntryAt, Registry, SoundEntry
<1>3. entry.s \in Sessions /\ Sound(entry.s) /\ o.e \in Observations
  BY <1>2, MessageTypes DEF WellTyped, Entries
<1>4. twins \in SUBSET DOMAIN reg
  BY DEF Taken, Twins, Of
<1> HIDE DEF entry, twins, g
<1>5. r.out = "saved" => (s = entry.s /\ Exists(s)) \/ Follows(entry.s, o.e, s)
  <2>1. CASE Exists(entry.s)
    BY <1>3, <2>1, ReduceFacts
  <2>2. CASE entry.s = NewSession
    BY <1>3, <2>2, FirstFacts
  <2> QED
    BY <1>2, <2>1, <2>2
<1> HIDE DEF r
<1>6. r.out = "saved" => s \in Sessions /\ Sound(s) /\ Exists(s)
  BY <1>3, <1>5, NextIncarnationFacts DEF Follows, Exists
<1>7. r.out = "saved" => Stamped(entry, o, saved, now)
  <2> SUFFICES ASSUME r.out = "saved" PROVE Stamped(entry, o, saved, now)
    OBVIOUS
  <2> DEFINE same == s = entry.s /\ o.e.kind # "verification"
  <2> HIDE DEF s
  <2>1. s \in Sessions /\ Sound(s) /\ Exists(s)
    BY <1>6
  <2>2. /\ SoundEntry(saved, now) /\ saved.s = s
        /\ saved.sid = (IF same \/ o.sid = NoSid THEN entry.sid ELSE o.sid)
        /\ saved.named = (IF same \/ o.sid = NoSid THEN entry.named ELSE TRUE)
    BY <1>2, <2>1, StampFacts
  <2>3. s = Reduce(entry.s, o.e).session
    BY DEF s, r
  <2> HIDE DEF saved
  <2> QED
    BY <1>5, <2>2, <2>3 DEF Stamped
<1> HIDE DEF saved
<1>8. r.out = "saved" => Placed(reg, key, saved, twins, Place(reg, key, saved, twins, o), now)
  BY <1>4, <1>7, PlaceFacts DEF Stamped
<1> QED
  BY <1>1, <1>7, <1>8 DEF entry, twins, g

-----------------------------------------------------------------------------
(* One observation, for any reports.                                       *)

LEMMA KeyFacts ==
  ASSUME NEW now, NEW o \in Messages(now)
  PROVE  Key(o) \in Keys
<1>1. o.h \in Harnesses /\ o.sid \in Names /\ Proc(o) \in Process /\ (o.sid = NoSid => Proc(o) # NoProc)
  BY MessageTypes
<1> QED
  BY <1>1 DEF Key, Keys, Names, Process

\* Retired sessions match the observations they matched.
LEMMA SameMatches ==
  ASSUME NEW reg, NEW r, DOMAIN r = DOMAIN reg, Keeps(reg, r), NEW o
  PROVE  /\ ProcessMatches(r, o) = ProcessMatches(reg, o)
         /\ IdentityMatches(r, o) = IdentityMatches(reg, o)
         /\ ListingMatches(r, o) = ListingMatches(reg, o)
<1>1. \A k \in DOMAIN reg : r[k].sid = reg[k].sid /\ r[k].s.process = reg[k].s.process
  BY DEF Keeps, Outlasts
<1> QED
  BY <1>1 DEF ProcessMatches, IdentityMatches, ListingMatches, Of, Conflicts

LEMMA NothingFound ==
  ASSUME NEW now \in Nat, NEW reg, Registry(reg, now), NEW o
  PROVE  FindMatching(reg, o) = {} <=>
           /\ ProcessMatches(reg, o) = {} /\ IdentityMatches(reg, o) = {}
           /\ ListingMatches(reg, o) = {}
  BY FindFacts DEF FindMatching, First

\* The process of a session that an observation is reduced into.
LEMMA FollowedProcess ==
  ASSUME NEW s \in Sessions, Sound(s), NEW o \in Observations, NEW r, Follows(s, o, r)
  PROVE  r.process = (IF o.proc # NoProc THEN o.proc ELSE s.process)
  BY NextIncarnationFacts DEF Follows, Sound

\* The key that ReduceReconciled reduces, and its entry.
Reduced(f, o) == Found(f, o)

\* reduceOne: either nothing happens, or sessions are retired and reconciled (r and f) and
\* perhaps one entry is saved.
LEMMA ReduceOneFacts ==
  ASSUME NEW now \in Nat, NEW o \in Messages(now), NEW reg, Registry(reg, now)
  PROVE  LET r == RetireConflicting(reg, o, now)
             f == Reconcile(r, o)
             key == Reduced(f, o)
             entry == EntryAt(f.reg, key, now)
             g == ReduceOne(reg, o, now).reg
         IN  \/ g = reg
             \/ /\ ~RetirementRejected(reg, o)
                /\ g = r /\ f.found = {}
             \/ /\ ~RetirementRejected(reg, o)
                /\ key \in Keys /\ key[1] = o.h
                /\ \/ f.found = {} /\ key = Key(o) /\ Creates(o)
                   \/ f.found = {key} /\ key \in DOMAIN f.reg
                /\ WellTyped(entry, now)
                /\ key \notin DOMAIN f.reg => entry = NewEntry(now)
                /\ \E saved : /\ Stamped(entry, o, saved, now)
                              /\ Placed(f.reg, key, saved, Taken(f.reg, key, entry, o), g, now)
<1> DEFINE r == RetireConflicting(reg, o, now)
           f == Reconcile(r, o)
           key == Reduced(f, o)
           entry == EntryAt(f.reg, key, now)
           g == ReduceOne(reg, o, now).reg
<1>1. Registry(r, now)
  BY RetireConflictingFacts
<1>2. /\ Registry(f.reg, now)
      /\ \/ f.found = {} /\ f.reg = r
         \/ \E k \in DOMAIN f.reg : f.found = {k} /\ k[1] = o.h
  BY <1>1, ReconcileFacts
<1>3. \/ g = reg
      \/ /\ ~RetirementRejected(reg, o)
         /\ \/ f.found = {} /\ ~Creates(o) /\ g = f.reg
            \/ /\ ~(f.found = {} /\ ~Creates(o))
               /\ g = ReduceAt(reg, f.reg, key, o, now).reg
  BY DEF ReduceOne, ReduceReconciled, Reduced
<1> HIDE DEF r, f, g
<1>4. Key(o) \in Keys /\ Key(o)[1] = o.h
  BY KeyFacts DEF Key
<1>5. /\ key \in Keys /\ key[1] = o.h
      /\ \/ f.found = {} /\ key = Key(o)
         \/ f.found = {key} /\ key \in DOMAIN f.reg
  BY <1>2, <1>4 DEF Reduced, Found, Registry
<1> HIDE DEF key
<1>6. WellTyped(entry, now) /\ (key \notin DOMAIN f.reg => entry = NewEntry(now))
  BY <1>2, NewEntryTyped DEF EntryAt, Registry, SoundEntry
<1>7. \/ ReduceAt(reg, f.reg, key, o, now).reg = reg
      \/ \E saved : /\ Stamped(entry, o, saved, now)
                    /\ Placed(f.reg, key, saved, Taken(f.reg, key, entry, o),
                              ReduceAt(reg, f.reg, key, o, now).reg, now)
  BY <1>2, <1>5, ReduceAtFacts
<1> HIDE DEF entry
<1> QED
  BY <1>2, <1>3, <1>5, <1>6, <1>7 DEF r, f, key, entry, g

\* An entry that was not there is about the observation, which then found nothing, and a
\* process that an entry did not have is the one of the observation.
Moves(reg, o, g) ==
  \A l \in DOMAIN g :
    /\ l \in DOMAIN reg \/ (l = Key(o) /\ FindMatching(reg, o) = {})
    /\ \/ l \in DOMAIN reg /\ g[l].s.process = reg[l].s.process
       \/ g[l].s.process \in {NoProc, Proc(o)}

LEMMA StepFacts ==
  ASSUME NEW now \in Nat, NEW o \in Messages(now), NEW reg, Registry(reg, now)
  PROVE  LET g == ReduceOne(reg, o, now).reg
         IN  Registry(g, now) /\ Moves(reg, o, g)
<1> DEFINE r == RetireConflicting(reg, o, now)
           f == Reconcile(r, o)
           key == Reduced(f, o)
           entry == EntryAt(f.reg, key, now)
           twins == Taken(f.reg, key, entry, o)
           g == ReduceOne(reg, o, now).reg
<1>1. Registry(r, now) /\ DOMAIN r = DOMAIN reg /\ Keeps(reg, r)
  BY RetireConflictingFacts
<1>2. \A l \in DOMAIN r : r[l].s.process = reg[l].s.process
  BY <1>1 DEF Keeps, Outlasts
<1>3. FindMatching(r, o) = {} <=> FindMatching(reg, o) = {}
  BY <1>1, SameMatches, NothingFound
<1>4. /\ Registry(f.reg, now) /\ SameProcesses(r, f.reg)
      /\ f.found = {} <=> FindMatching(r, o) = {}
  BY <1>1, ReconcileFacts
<1>5. /\ DOMAIN f.reg \subseteq DOMAIN reg
      /\ \A l \in DOMAIN f.reg : f.reg[l].s.process = reg[l].s.process
  BY <1>1, <1>2, <1>4 DEF SameProcesses
<1>6. \/ g = reg
      \/ g = r
      \/ /\ \/ f.found = {} /\ key = Key(o)
            \/ f.found = {key} /\ key \in DOMAIN f.reg
         /\ WellTyped(entry, now)
         /\ entry = IF key \in DOMAIN f.reg THEN f.reg[key] ELSE NewEntry(now)
         /\ \E saved : Stamped(entry, o, saved, now) /\ Placed(f.reg, key, saved, twins, g, now)
  BY ReduceOneFacts DEF EntryAt
<1> HIDE DEF r, f, key, entry, twins, g
<1>7. g = reg => Registry(g, now) /\ Moves(reg, o, g)
  BY DEF Moves
<1>8. ASSUME g = r PROVE Registry(g, now) /\ Moves(reg, o, g)
  BY <1>1, <1>2, <1>8 DEF Moves
<1>9. ASSUME NEW saved, Stamped(entry, o, saved, now), Placed(f.reg, key, saved, twins, g, now),
             \/ f.found = {} /\ key = Key(o)
             \/ f.found = {key} /\ key \in DOMAIN f.reg,
             WellTyped(entry, now),
             entry = IF key \in DOMAIN f.reg THEN f.reg[key] ELSE NewEntry(now)
      PROVE  Registry(g, now) /\ Moves(reg, o, g)
  <2>1. /\ Registry(g, now) /\ DOMAIN g = (DOMAIN f.reg \ twins) \cup {key}
        /\ \A l \in DOMAIN f.reg \ (twins \cup {key}) : g[l] = f.reg[l]
        /\ g[key].s.process = saved.s.process
    BY <1>9 DEF Placed
  <2>2. entry.s \in Sessions /\ Sound(entry.s) /\ o.e \in Observations
    BY <1>9, MessageTypes DEF WellTyped, Entries
  <2>3. saved.s.process \in {entry.s.process, Proc(o)}
    BY <1>9, <2>2, FollowedProcess DEF Stamped, Proc
  <2>4. key \notin DOMAIN f.reg => entry.s.process = NoProc
    <3>1. NewEntry(now).s = NewSession
      BY NewEntryTyped
    <3>2. NewSession.process = NoProc
      BY DEF NewSession
    <3> HIDE DEF NewSession
    <3> QED
      BY <1>9, <3>1, <3>2
  <2>5. key \in DOMAIN reg \/ (key = Key(o) /\ FindMatching(reg, o) = {})
    BY <1>3, <1>4, <1>5, <1>9
  <2>6. \/ key \in DOMAIN reg /\ g[key].s.process = reg[key].s.process
        \/ g[key].s.process \in {NoProc, Proc(o)}
    <3>1. CASE key \in DOMAIN f.reg
      <4>1. entry = f.reg[key]
        BY <1>9, <3>1
      <4> QED
        BY <1>5, <2>1, <2>3, <3>1, <4>1
    <3>2. CASE key \notin DOMAIN f.reg
      BY <2>1, <2>3, <2>4, <3>2
    <3> QED
      BY <3>1, <3>2
  <2>7. ASSUME NEW l \in DOMAIN g, l # key
        PROVE  l \in DOMAIN reg /\ g[l].s.process = reg[l].s.process
    BY <1>5, <2>1, <2>7
  <2> QED
    BY <2>1, <2>5, <2>6, <2>7 DEF Moves
<1> QED
  BY <1>1, <1>6, <1>7, <1>8, <1>9 DEF g

-----------------------------------------------------------------------------
(* Scans, and processes that ended.                                        *)

\* An observation without an identity finds a session of its process, and reconciles
\* nothing.
LEMMA UnnamedReconcile ==
  ASSUME NEW now \in Nat, NEW o \in Messages(now), o.sid = NoSid, NEW reg, Registry(reg, now)
  PROVE  LET f == Reconcile(reg, o)
         IN  /\ f.reg = reg
             /\ \/ f.found = {} /\ ProcessMatches(reg, o) = {}
                \/ \E k \in ProcessMatches(reg, o) : f.found = {k}
<1>1. IdentityMatches(reg, o) = {} /\ FindIdentity(reg, o) = {}
  <2>1. IdentityMatches(reg, o) = {}
    BY DEF IdentityMatches
  <2> QED
    BY <2>1, FindFacts
<1>2. FindListing(reg, o) = {}
  <2>1. ListingMatches(reg, o) = {}
    <3>1. o.e.kind # "listing"
      BY MessageTypes
    <3> QED
      BY <3>1 DEF ListingMatches
  <2> QED
    BY <2>1, FindFacts
<1>3. Reconcile(reg, o) = [reg |-> reg, found |-> FindProcess(reg, o)]
  BY <1>1, <1>2 DEF Reconcile, ReconcileFound, PreferIdentity, First
<1>4. \/ FindProcess(reg, o) = {} /\ ProcessMatches(reg, o) = {}
      \/ \E k \in ProcessMatches(reg, o) : FindProcess(reg, o) = {k}
  BY FindFacts
<1> QED
  BY <1>3, <1>4

\* A sound entry is gone when its incarnation is over.
LEMMA GoneFacts ==
  ASSUME NEW now, NEW e, SoundEntry(e, now)
  PROVE  Gone(e) <=> Terminal(e.s)
<1>1. Sound(e.s) /\ e.s.inc.state \in States
  BY DEF SoundEntry, WellTyped, Entries, Sessions, Incarnations
<1> QED
  BY <1>1 DEF Gone, Sound, Terminal, PresenceIn, States

\* What scans of ended processes, D, may add to the sessions base: entries that the next
\* expiry removes.
Settled(base, D, reg) ==
  \A l \in DOMAIN reg \ base :
    /\ reg[l].s.process # NoProc
    /\ reg[l].s.process \in D => Gone(reg[l]) /\ ProcessOnly(reg[l])

LEMMA OutlastsSettled ==
  ASSUME NEW now, NEW reg, Registry(reg, now), NEW r, Registry(r, now), Keeps(reg, r),
         NEW base, NEW D, Settled(base, D, reg)
  PROVE  Settled(base, D, r)
<1> SUFFICES ASSUME NEW l \in DOMAIN r \ base
             PROVE  /\ r[l].s.process # NoProc
                    /\ r[l].s.process \in D => Gone(r[l]) /\ ProcessOnly(r[l])
  BY DEF Settled
<1>1. l \in DOMAIN reg \ base /\ Outlasts(reg[l], r[l])
  BY DEF Keeps
<1>2. SoundEntry(reg[l], now) /\ SoundEntry(r[l], now)
  BY <1>1 DEF Registry
<1>3. Gone(reg[l]) => Gone(r[l])
  BY <1>1, <1>2, GoneFacts DEF Outlasts
<1>4. ProcessOnly(reg[l]) => ProcessOnly(r[l])
  BY <1>1 DEF Outlasts, ProcessOnly, Provisional
<1> QED
  BY <1>1, <1>3, <1>4 DEF Settled, Outlasts

\* What an absent sighting makes of a session (applyEvidence, storeObservation).
LEMMA AbsentFacts ==
  ASSUME NEW s \in Sessions, Sound(s), NEW o \in Observations, Absent(o),
         NEW r, r = Reduce(s, o).session, Follows(s, o, r)
  PROVE  /\ Terminal(r) /\ r.native.at \in {s.native.at, 0}
         /\ s.process \in {NoProc, o.proc}
<1> DEFINE a == Decide(s, o, FALSE)
<1>1. Accepted(a) /\ r.inc = NextIncarnation(s, o, a) /\ s.process = s.inc.proc
  BY DEF Follows, Sound
<1>2. o.kind = "sighting" /\ o.proc # NoProc
  BY DEF Absent, Observations
<1>3. ~Different(s, o)
  BY <1>1, <1>2 DEF Decide, ReplacementRejected, Accepted
<1>4. Finishes(o, a)
  <2>1. a \notin {"verify", "retire"}
    BY <1>2 DEF Decide
  <2> QED
    BY <2>1 DEF Finishes
<1>5. Terminal(r)
  BY <1>1, <1>4, NextIncarnationFacts DEF Terminal
<1>6. r.native.at \in {s.native.at, 0}
  <2>1. CASE r = s
    BY <2>1
  <2>2. CASE r # s
    <3>1. Written(s, o, r)
      BY <2>2, ReduceSlots
    <3>2. r.native = Baseline(s, o).native
      BY <1>2, <3>1 DEF Written, IsReport
    <3>3. Baseline(s, o).native \in {s.native, NoNative}
      BY DEF Baseline, Sessions
    <3> QED
      BY <3>2, <3>3 DEF NoNative
  <2> QED
    BY <2>1, <2>2
<1> QED
  BY <1>1, <1>2, <1>3, <1>5, <1>6 DEF Different

\* A sighting adds only entries of its own process, and one of a process in D, which it
\* cannot have seen running, only entries that are gone and known by their process.
LEMMA SightingFacts ==
  ASSUME NEW now \in Nat, NEW o \in Messages(now), o.e.kind = "sighting",
         NEW reg, Registry(reg, now), NEW base, NEW D, Settled(base, D, reg),
         o.e.present => Proc(o) \notin D
  PROVE  Settled(base, D, ReduceOne(reg, o, now).reg)
<1> DEFINE r == RetireConflicting(reg, o, now)
           f == Reconcile(r, o)
           key == Reduced(f, o)
           entry == EntryAt(f.reg, key, now)
           twins == Taken(f.reg, key, entry, o)
           g == ReduceOne(reg, o, now).reg
<1>1. o.sid = NoSid /\ Proc(o) # NoProc /\ o.e \in Observations
  BY MessageTypes
<1>2. Registry(r, now) /\ Keeps(reg, r)
  BY RetireConflictingFacts
<1>3. Settled(base, D, r)
  BY <1>2, OutlastsSettled
<1>4. /\ f.reg = r
      /\ f.found = {} \/ \E k \in ProcessMatches(r, o) : f.found = {k}
  BY <1>1, <1>2, UnnamedReconcile
<1>5. \/ g = reg
      \/ g = r
      \/ /\ f.found = {} \/ f.found = {key}
         /\ WellTyped(entry, now)
         /\ entry = IF key \in DOMAIN f.reg THEN f.reg[key] ELSE NewEntry(now)
         /\ \E saved : Stamped(entry, o, saved, now) /\ Placed(f.reg, key, saved, twins, g, now)
  BY ReduceOneFacts DEF EntryAt
<1> HIDE DEF r, f, key, entry, twins, g
<1>6. ASSUME NEW saved, Stamped(entry, o, saved, now), Placed(f.reg, key, saved, twins, g, now),
             WellTyped(entry, now),
             entry = IF key \in DOMAIN f.reg THEN f.reg[key] ELSE NewEntry(now)
      PROVE  Settled(base, D, g)
  <2>1. /\ DOMAIN g = (DOMAIN r \ twins) \cup {key}
        /\ \A l \in DOMAIN r \ (twins \cup {key}) : g[l] = r[l]
        /\ g[key].sid = saved.sid /\ g[key].named = saved.named
        /\ g[key].s.native = saved.s.native /\ g[key].s.process = saved.s.process
        /\ g[key].s.inc.state = saved.s.inc.state
        /\ Registry(g, now)
    BY <1>4, <1>6 DEF Placed
  <2>2. /\ saved.sid = entry.sid /\ saved.named = entry.named
        /\ \/ saved.s = entry.s /\ Exists(entry.s)
           \/ Follows(entry.s, o.e, saved.s) /\ saved.s = Reduce(entry.s, o.e).session
        /\ SoundEntry(saved, now)
    BY <1>1, <1>6 DEF Stamped
  <2>3. SoundEntry(g[key], now) /\ (Gone(g[key]) <=> Terminal(saved.s))
    <3>1. SoundEntry(g[key], now)
      BY <2>1 DEF Registry
    <3> QED
      BY <2>1, <3>1, GoneFacts DEF Terminal
  <2>4. ProcessOnly(entry) /\ saved.s.native.at \in {entry.s.native.at, 0} => ProcessOnly(g[key])
    BY <2>1, <2>2 DEF ProcessOnly, Provisional
  <2>5. entry.s \in Sessions /\ Sound(entry.s)
    BY <1>6 DEF WellTyped, Entries
  <2>6. ASSUME key \notin base
        PROVE  /\ g[key].s.process # NoProc
               /\ g[key].s.process \in D => Gone(g[key]) /\ ProcessOnly(g[key])
    <3>1. CASE saved.s = entry.s /\ Exists(entry.s)
      <4>1. key \in DOMAIN r /\ entry = r[key]
        <5>1. key \notin DOMAIN r => entry.s = NewSession
          BY <1>4, <1>6, NewEntryTyped
        <5> QED
          BY <1>4, <1>6, <3>1, <5>1, NewSessionSound
      <4>2. /\ entry.s.process # NoProc
            /\ entry.s.process \in D => Gone(entry) /\ ProcessOnly(entry)
        BY <1>3, <2>6, <4>1 DEF Settled
      <4>3. Gone(entry) => Terminal(saved.s)
        BY <1>2, <3>1, <4>1, GoneFacts DEF Registry
      <4> QED
        BY <2>1, <2>3, <2>4, <3>1, <4>2, <4>3
    <3>2. CASE Follows(entry.s, o.e, saved.s) /\ saved.s = Reduce(entry.s, o.e).session
      <4>1. saved.s.process = Proc(o)
        BY <1>1, <2>5, <3>2, FollowedProcess DEF Proc
      <4>2. CASE Proc(o) \notin D
        BY <1>1, <2>1, <4>1, <4>2
      <4>3. CASE Proc(o) \in D
        <5>1. Absent(o.e)
          BY <4>3 DEF Absent
        <5>2. /\ Terminal(saved.s) /\ saved.s.native.at \in {entry.s.native.at, 0}
              /\ entry.s.process \in {NoProc, Proc(o)}
          BY <1>1, <2>5, <3>2, <5>1, AbsentFacts DEF Proc
        <5>3. ProcessOnly(entry)
          <6>1. CASE key \in DOMAIN r
            <7>1. entry = r[key]
              BY <1>4, <1>6, <6>1
            <7> QED
              BY <1>3, <2>6, <4>3, <5>2, <6>1, <7>1 DEF Settled
          <6>2. CASE key \notin DOMAIN r
            <7>1. entry.s = NewSession /\ entry.sid = NoSid /\ entry.named = FALSE
              BY <1>4, <1>6, <6>2, NewEntryTyped
            <7>2. NewSession.native.at = 0
              BY DEF NewSession, NoNative
            <7> HIDE DEF NewSession
            <7> QED
              BY <7>1, <7>2 DEF ProcessOnly, Provisional
          <6> QED
            BY <6>1, <6>2
        <5> QED
          BY <1>1, <2>1, <2>3, <2>4, <4>1, <5>2, <5>3
      <4> QED
        BY <4>2, <4>3
    <3> QED
      BY <2>2, <3>1, <3>2
  <2>7. ASSUME NEW l \in DOMAIN g \ base, l # key PROVE l \in DOMAIN r \ base /\ g[l] = r[l]
    BY <2>1, <2>7
  <2> QED
    BY <1>3, <2>6, <2>7 DEF Settled
<1>7. g = reg \/ g = r => Settled(base, D, g)
  BY <1>3
<1> QED
  BY <1>5, <1>6, <1>7 DEF g

-----------------------------------------------------------------------------
(* Names.                                                                  *)

\* A native session is one entry; an entry keyed by a native session is that session's;
\* and one without a name has only been seen by scans.
Unique(reg) ==
  \A k, l \in DOMAIN reg :
    k[1] = l[1] /\ reg[k].sid = reg[l].sid /\ reg[k].sid # NoSid => k = l
KeysName(reg) == \A k \in DOMAIN reg : k[2] \in Sids => reg[k].sid = k[2]
Nameless(reg) == \A k \in DOMAIN reg : reg[k].sid = NoSid => Provisional(reg[k])
Named(reg) == Unique(reg) /\ KeysName(reg) /\ Nameless(reg)

\* Of two sessions of a process at least one is over.
OneRunning(reg) ==
  \A k, l \in DOMAIN reg :
    k # l /\ k[1] = l[1] /\ reg[k].s.process = reg[l].s.process /\ reg[k].s.process # NoProc
      => Terminal(reg[k].s) \/ Terminal(reg[l].s)

LEMMA OutlastsNamed ==
  ASSUME NEW reg, NEW r, DOMAIN r = DOMAIN reg, Keeps(reg, r)
  PROVE  /\ Named(reg) => Named(r)
         /\ OneRunning(reg) => OneRunning(r)
<1>1. \A k \in DOMAIN reg :
        /\ r[k].sid = reg[k].sid /\ r[k].s.process = reg[k].s.process
        /\ Terminal(reg[k].s) => Terminal(r[k].s)
        /\ Provisional(reg[k]) => Provisional(r[k])
  BY DEF Keeps, Outlasts, Provisional
<1>2. Unique(reg) => Unique(r)
  BY <1>1 DEF Unique
<1>3. KeysName(reg) => KeysName(r)
  BY <1>1 DEF KeysName
<1>4. Nameless(reg) => Nameless(r)
  BY <1>1 DEF Nameless
<1>5. OneRunning(reg) => OneRunning(r)
  BY <1>1 DEF OneRunning
<1> QED
  BY <1>2, <1>3, <1>4, <1>5 DEF Named

\* Where every report names its session, reconciling finds the only entry of the identity,
\* and merges it with the one of the process or leaves both alone.
LEMMA NamedReconcile ==
  ASSUME MatchingAssumption, NEW now \in Nat, NEW o \in Messages(now),
         NEW reg, Registry(reg, now), Named(reg)
  PROVE  LET f == Reconcile(reg, o)
         IN  /\ Named(f.reg)
             /\ OneRunning(reg) => OneRunning(f.reg)
             /\ IdentityMatches(f.reg, o) \subseteq f.found
             /\ \A k \in f.found : ~Conflicts(f.reg[k], o)
             /\ \A k \in f.found : Proc(o) # NoProc =>
                  \/ f.reg[k].s.process = Proc(o)
                  \/ /\ f.reg = reg /\ o.sid # NoSid
                     /\ f.reg[k].s.process # NoProc \/ ProcessMatches(reg, o) = {}
             /\ \A l \in DOMAIN f.reg \ f.found : l \in DOMAIN reg /\ f.reg[l] = reg[l]
<1> DEFINE i == FindIdentity(reg, o)
           p == FindProcess(reg, o)
           l == FindListing(reg, o)
           f == Reconcile(reg, o)
<1>1. /\ \/ p = {} /\ ProcessMatches(reg, o) = {}
         \/ \E k \in ProcessMatches(reg, o) : p = {k}
      /\ \/ i = {} /\ IdentityMatches(reg, o) = {}
         \/ \E k \in IdentityMatches(reg, o) : i = {k}
      /\ \/ l = {}
         \/ \E k \in ListingMatches(reg, o) : l = {k}
  BY FindFacts
<1>2. f = ReconcileFound(reg, o, i, p)
  BY DEF Reconcile
<1>3. ASSUME NEW k \in IdentityMatches(reg, o)
      PROVE  /\ k \in DOMAIN reg /\ k[1] = o.h /\ reg[k].sid = o.sid /\ o.sid # NoSid
             /\ IdentityMatches(reg, o) = {k} /\ ~Conflicts(reg[k], o)
  BY DEF Named, Unique, IdentityMatches, Of, Conflicts
<1>4. ASSUME NEW k \in ProcessMatches(reg, o)
      PROVE  /\ k \in DOMAIN reg /\ k[1] = o.h /\ reg[k].s.process = Proc(o)
             /\ Proc(o) # NoProc /\ ~Conflicts(reg[k], o)
  BY DEF ProcessMatches, Of
<1>5. ASSUME NEW k \in ListingMatches(reg, o)
      PROVE  ~Conflicts(reg[k], o) /\ Proc(o) = NoProc
  <2>1. o.e.kind = "listing"
    BY DEF ListingMatches
  <2> QED
    BY <2>1, MessageTypes DEF ListingMatches
<1> HIDE DEF i, p, l, f
<1>6. CASE PreferIdentity(reg, o, i, p)
  <2>1. f = [reg |-> reg, found |-> i] /\ i # {} /\ \A k \in i : reg[k].s.process # NoProc
    BY <1>2, <1>6 DEF ReconcileFound, PreferIdentity
  <2>2. PICK k \in IdentityMatches(reg, o) : i = {k}
    BY <1>1, <2>1
  <2> QED
    BY <1>3, <2>1, <2>2 DEF f
<1>7. CASE ~PreferIdentity(reg, o, i, p) /\ (i = {} \/ p = {} \/ i = p)
  <2>1. f = [reg |-> reg, found |-> First(p, First(i, l))]
    BY <1>2, <1>7 DEF ReconcileFound, l
  <2>2. CASE p # {}
    <3>1. PICK t \in ProcessMatches(reg, o) : p = {t}
      BY <1>1, <2>2
    <3>2. IdentityMatches(reg, o) \subseteq {t}
      BY <1>1, <1>3, <1>7, <3>1
    <3>3. f.reg = reg /\ f.found = {t}
      BY <2>1, <3>1 DEF First
    <3> QED
      BY <1>4, <3>1, <3>2, <3>3 DEF f
  <2>3. CASE p = {} /\ i # {}
    <3>1. PICK k \in IdentityMatches(reg, o) : i = {k}
      BY <1>1, <2>3
    <3>2. f.reg = reg /\ f.found = {k} /\ ProcessMatches(reg, o) = {}
      BY <1>1, <2>1, <2>3, <3>1 DEF First
    <3> QED
      BY <1>3, <3>1, <3>2 DEF f
  <2>4. CASE p = {} /\ i = {}
    <3>1. f.reg = reg /\ f.found = l /\ IdentityMatches(reg, o) = {}
      BY <1>1, <2>1, <2>4 DEF First
    <3> QED
      BY <1>1, <1>5, <3>1 DEF f
  <2> QED
    BY <2>2, <2>3, <2>4
<1>8. CASE ~PreferIdentity(reg, o, i, p) /\ ~(i = {} \/ p = {} \/ i = p)
  <2>1. PICK k \in IdentityMatches(reg, o) : i = {k}
    BY <1>1, <1>8
  <2>2. PICK t \in ProcessMatches(reg, o) : p = {t}
    BY <1>1, <1>8
  <2>3. k # t /\ k \in i /\ t \in p
    BY <1>8, <2>1, <2>2
  <2>4. f = Reunite(reg, o, k, t)
    BY <1>2, <1>8, <2>1, <2>2 DEF ReconcileFound
  <2>5. reg[t].sid = NoSid
    BY <1>3, <1>4, <2>3 DEF Conflicts, IdentityMatches, Of
  <2>6. Provisional(reg[t])
    BY <1>4, <2>5 DEF Named, Nameless
  <2>7. IsReport(o.e)
    BY <1>3, <1>4, MessageTypes
  <2>8. reg[k].s.process = NoProc
    BY <1>8, <2>1, <2>2, <2>6, <2>7 DEF PreferIdentity
  <2>9. /\ f.found = {t} /\ t \in DOMAIN f.reg /\ SameProcesses(reg, f.reg)
        /\ DOMAIN f.reg = DOMAIN reg \ {k}
        /\ f.reg[t].sid = reg[k].sid
        /\ f.reg[t].s.inc = reg[t].s.inc
        /\ \A m \in DOMAIN reg \ {k, t} : f.reg[m] = reg[m]
    BY <2>3, <2>4, <2>5, <2>8, ReuniteFacts
  <2>10. f.reg[t].sid = o.sid /\ o.sid # NoSid /\ f.reg[t].s.process = Proc(o)
    BY <1>3, <1>4, <2>9 DEF SameProcesses
  <2>11. \A m \in DOMAIN f.reg : m # t => m \in DOMAIN reg /\ m # k /\ f.reg[m] = reg[m]
    BY <2>9
  <2>12. Unique(f.reg)
    <3>1. \A m \in DOMAIN f.reg : m # t /\ m[1] = t[1] => f.reg[m].sid # o.sid
      BY <1>3, <1>4, <2>11 DEF Named, Unique
    <3> QED
      BY <2>10, <2>11, <3>1 DEF Named, Unique
  <2>13. KeysName(f.reg)
    <3>1. t[2] \notin Sids
      BY <1>4, <2>5 DEF Named, KeysName, MatchingAssumption
    <3> QED
      BY <2>11, <3>1 DEF Named, KeysName
  <2>14. Nameless(f.reg)
    BY <2>10, <2>11 DEF Named, Nameless
  <2>15. OneRunning(reg) => OneRunning(f.reg)
    <3>1. \A m \in DOMAIN f.reg : /\ m \in DOMAIN reg /\ f.reg[m].s.process = reg[m].s.process
                                  /\ Terminal(f.reg[m].s) <=> Terminal(reg[m].s)
      BY <1>4, <2>9, <2>11 DEF SameProcesses, Terminal
    <3> QED
      BY <3>1 DEF OneRunning
  <2>16. IdentityMatches(f.reg, o) \subseteq {t}
    BY <1>4, <2>9, <2>10, <2>12 DEF Unique, IdentityMatches, Of
  <2> QED
    BY <2>9, <2>10, <2>11, <2>12, <2>13, <2>14, <2>15, <2>16 DEF Named, Conflicts, f
<1> QED
  BY <1>6, <1>7, <1>8

\* The native slot of a session that an observation other than a report is reduced into.
LEMMA NativeKept ==
  ASSUME NEW s \in Sessions, Sound(s), NEW o \in Observations, ~IsReport(o)
  PROVE  Reduce(s, o).session.native \in {s.native, NoNative}
<1> DEFINE r == Reduce(s, o).session
<1>1. r # s => r.native = Baseline(s, o).native
  BY ReduceSlots DEF Written
<1>2. Baseline(s, o).native \in {s.native, NoNative}
  BY DEF Baseline, Sessions
<1> HIDE DEF r
<1>3. r.native \in {s.native, NoNative}
  BY <1>1, <1>2
<1> QED
  BY <1>3 DEF r

\* The entry that is saved has the name that the observation found it by.
LEMMA NamedStep ==
  ASSUME MatchingAssumption, ~Anonymous, NEW now \in Nat, NEW o \in Messages(now),
         NEW reg, Registry(reg, now), Named(reg)
  PROVE  Named(ReduceOne(reg, o, now).reg)
<1> DEFINE r == RetireConflicting(reg, o, now)
           f == Reconcile(r, o)
           key == Reduced(f, o)
           entry == EntryAt(f.reg, key, now)
           twins == Taken(f.reg, key, entry, o)
           g == ReduceOne(reg, o, now).reg
<1>1. Registry(r, now) /\ DOMAIN r = DOMAIN reg /\ Keeps(reg, r)
  BY RetireConflictingFacts
<1>2. Named(r)
  BY <1>1, OutlastsNamed
<1>3. /\ Registry(f.reg, now)
      /\ f.found = {} => IdentityMatches(r, o) = {} /\ f.reg = r
  BY <1>1, ReconcileFacts
<1>4. /\ Named(f.reg) /\ IdentityMatches(f.reg, o) \subseteq f.found
      /\ \A k \in f.found : ~Conflicts(f.reg[k], o)
  BY <1>1, <1>2, NamedReconcile
<1>5. \/ g = reg
      \/ g = r
      \/ /\ \/ f.found = {} /\ key = Key(o)
            \/ f.found = {key} /\ key \in DOMAIN f.reg
         /\ WellTyped(entry, now) /\ key[1] = o.h
         /\ entry = IF key \in DOMAIN f.reg THEN f.reg[key] ELSE NewEntry(now)
         /\ \E saved : Stamped(entry, o, saved, now) /\ Placed(f.reg, key, saved, twins, g, now)
  BY ReduceOneFacts DEF EntryAt
<1> HIDE DEF r, f, key, entry, twins, g
<1>6. ASSUME NEW saved, Stamped(entry, o, saved, now), Placed(f.reg, key, saved, twins, g, now),
             \/ f.found = {} /\ key = Key(o)
             \/ f.found = {key} /\ key \in DOMAIN f.reg,
             WellTyped(entry, now), key[1] = o.h,
             entry = IF key \in DOMAIN f.reg THEN f.reg[key] ELSE NewEntry(now)
      PROVE  Named(g)
  <2> DEFINE same == saved.s = entry.s /\ o.e.kind # "verification"
  <2>1. /\ DOMAIN g = (DOMAIN f.reg \ twins) \cup {key}
        /\ \A l \in DOMAIN f.reg \ (twins \cup {key}) : g[l] = f.reg[l]
        /\ g[key].sid = saved.sid /\ g[key].named = saved.named
        /\ g[key].s.native = saved.s.native
    BY <1>6 DEF Placed
  <2>2. /\ saved.sid = (IF same \/ o.sid = NoSid THEN entry.sid ELSE o.sid)
        /\ saved.named = (IF same \/ o.sid = NoSid THEN entry.named ELSE TRUE)
        /\ saved.s = Reduce(entry.s, o.e).session
        /\ (saved.s = entry.s /\ Exists(entry.s)) \/ Follows(entry.s, o.e, saved.s)
    BY <1>6 DEF Stamped
  <2>3. \A l \in DOMAIN g : l # key => l \in DOMAIN f.reg /\ g[l] = f.reg[l]
    BY <2>1
  <2>4. /\ entry.s \in Sessions /\ Sound(entry.s) /\ o.e \in Observations /\ entry.sid \in Names
        /\ o.sid \in Names /\ Proc(o) \in Process
    BY <1>6, MessageTypes DEF WellTyped, Entries
  <2>5. key \notin DOMAIN f.reg =>
          /\ entry.sid = NoSid /\ entry.named = FALSE /\ entry.s.native.at = 0 /\ ~same
    <3>1. NewSession.native.at = 0
      BY DEF NewSession, NoNative
    <3>2. NewEntry(now).s = NewSession /\ NewEntry(now).sid = NoSid /\ NewEntry(now).named = FALSE
      BY NewEntryTyped
    <3>3. ASSUME key \notin DOMAIN f.reg PROVE ~same
      <4>1. ~Exists(entry.s)
        BY <1>6, <3>2, <3>3, NewSessionSound
      <4>2. Follows(entry.s, o.e, saved.s)
        BY <2>2, <4>1
      <4>3. Exists(saved.s)
        BY <2>4, <4>2, NextIncarnationFacts DEF Follows, Exists
      <4> QED
        BY <4>1, <4>3
    <3> HIDE DEF NewSession, same
    <3> QED
      BY <1>6, <3>1, <3>2, <3>3
  <2> HIDE DEF same
  <2>6. Unique(g)
    <3>1. ASSUME NEW l \in DOMAIN g, l # key, l[1] = key[1], g[l].sid = g[key].sid, g[key].sid # NoSid
          PROVE  FALSE
      <4>1. l \in DOMAIN f.reg /\ f.reg[l].sid = saved.sid /\ saved.sid # NoSid
        BY <2>1, <2>3, <3>1
      <4>2. CASE saved.sid = o.sid
        <5>1. l \in IdentityMatches(f.reg, o)
          BY <1>6, <3>1, <4>1, <4>2 DEF IdentityMatches, Of
        <5> QED
          BY <1>4, <1>6, <3>1, <5>1
      <4>3. CASE saved.sid # o.sid
        <5>1. key \in DOMAIN f.reg /\ saved.sid = f.reg[key].sid
          BY <1>6, <2>2, <2>5, <4>1, <4>3
        <5> QED
          BY <1>4, <3>1, <4>1, <5>1 DEF Named, Unique
      <4> QED
        BY <4>2, <4>3
    <3> QED
      BY <1>4, <2>3, <3>1 DEF Named, Unique
  <2>7. KeysName(g)
    <3>1. ASSUME key[2] \in Sids PROVE saved.sid = key[2]
      <4>1. CASE key \in DOMAIN f.reg
        <5>1. entry.sid = key[2] /\ entry = f.reg[key]
          BY <1>4, <1>6, <3>1, <4>1 DEF Named, KeysName
        <5>2. CASE f.found = {key}
          BY <1>4, <2>2, <3>1, <5>1, <5>2 DEF Conflicts, MatchingAssumption
        <5>3. CASE key = Key(o)
          BY <2>2, <5>1, <5>3 DEF Key
        <5> QED
          BY <1>6, <5>2, <5>3
      <4>2. CASE key \notin DOMAIN f.reg
        <5>1. key = Key(o) /\ saved.sid = o.sid
          BY <1>6, <2>2, <2>5, <4>2
        <5>2. Proc(o) \notin Sids
          BY <2>4 DEF MatchingAssumption, Process
        <5> QED
          BY <3>1, <5>1, <5>2 DEF Key
      <4> QED
        BY <4>1, <4>2
    <3> QED
      BY <1>4, <2>1, <2>3, <3>1 DEF Named, KeysName
  <2>8. Nameless(g)
    <3>1. ASSUME saved.sid = NoSid PROVE ~saved.named /\ saved.s.native.at = 0
      <4>1. entry.sid = NoSid
        BY <2>2, <2>4, <3>1 DEF Names, MatchingAssumption
      <4>2. entry.named = FALSE /\ entry.s.native.at = 0
        <5>1. CASE key \in DOMAIN f.reg
          <6>1. Provisional(entry)
            BY <1>4, <1>6, <4>1, <5>1 DEF Named, Nameless
          <6>2. entry.named \in BOOLEAN
            BY <1>6 DEF WellTyped, Entries
          <6> QED
            BY <6>1, <6>2 DEF Provisional
        <5> QED
          BY <2>5, <5>1
      <4>3. CASE same
        BY <2>2, <4>2, <4>3 DEF same
      <4>4. CASE ~same
        <5>1. o.sid = NoSid
          BY <2>2, <3>1, <4>4
        <5>2. ~IsReport(o.e)
          BY <5>1, MessageTypes
        <5>3. saved.s.native \in {entry.s.native, NoNative}
          BY <2>2, <2>4, <5>2, NativeKept
        <5> QED
          BY <2>2, <4>2, <5>1, <5>3 DEF NoNative
      <4> QED
        BY <4>3, <4>4
    <3>2. g[key].sid = NoSid => Provisional(g[key])
      BY <2>1, <3>1 DEF Provisional
    <3> QED
      BY <1>4, <2>3, <3>2 DEF Named, Nameless
  <2> QED
    BY <2>6, <2>7, <2>8 DEF Named
<1>7. g = reg \/ g = r => Named(g)
  BY <1>2
<1> QED
  BY <1>5, <1>6, <1>7 DEF g

-----------------------------------------------------------------------------
(* An exclusive process.                                                   *)

\* A session runs after an observation only if it ran before, in its process, or starts
\* over.
LEMMA RunningFacts ==
  ASSUME NEW s \in Sessions, Sound(s), NEW o \in Observations,
         o.kind \in {"report", "sighting", "placement", "listing", "verification"},
         NEW r, Follows(s, o, r), ~Terminal(r)
  PROVE  LET a == Decide(s, o, FALSE)
         IN  /\ ~Ends(o) /\ ~Absent(o)
             /\ Terminal(s) => Resets(a) /\ (Different(s, o) \/ IsReport(o))
             /\ Different(s, o) => Resets(a)
<1> DEFINE a == Decide(s, o, FALSE)
<1>1. Accepted(a) /\ r.inc = NextIncarnation(s, o, a)
  BY DEF Follows
<1>2. ~Finishes(o, a)
  BY <1>1, NextIncarnationFacts DEF Terminal
<1>3. a \in {"verify", "replace", "bind", "resume", "continue"}
  BY <1>1 DEF Decide, Accepted
<1>4. ~Ends(o) /\ ~Absent(o)
  <2>1. CASE a = "verify"
    <3>1. o.kind = "verification"
      BY <2>1 DEF Decide
    <3> QED
      BY <3>1 DEF Ends, Absent, IsReport
  <2>2. CASE a # "verify"
    BY <1>2, <1>3, <2>2 DEF Finishes
  <2> QED
    BY <2>1, <2>2
<1>5. Terminal(s) => Resets(a) /\ (Different(s, o) \/ IsReport(o))
  <2>1. ASSUME Terminal(s), o.kind = "verification" PROVE FALSE
    BY <1>1, <2>1 DEF Decide, VerificationRejected, Accepted
  <2>2. ASSUME Terminal(s), Different(s, o), o.kind # "verification" PROVE a = "replace"
    BY <1>1, <2>2 DEF Decide, Accepted
  <2>3. ASSUME Terminal(s), ~Different(s, o), o.kind # "verification"
        PROVE  a \in {"bind", "resume"} /\ IsReport(o)
    BY <1>1, <1>4, <2>3 DEF Decide, Accepted, TerminalRejected, BindsTerminalProcess,
                            ResumesTerminal, Starts
  <2> QED
    BY <2>1, <2>2, <2>3 DEF Resets
<1>6. Different(s, o) => Resets(a)
  <2>1. ASSUME Different(s, o), o.kind = "verification" PROVE FALSE
    BY <2>1 DEF Different, Observations
  <2>2. ASSUME Different(s, o), o.kind # "verification" PROVE a = "replace"
    BY <1>1, <2>2 DEF Decide, Accepted
  <2> QED
    BY <2>1, <2>2 DEF Resets
<1> QED
  BY <1>4, <1>5, <1>6

\* A report of another session in the process of an entry replaces the entry's session.
LEMMA ReportReplaces ==
  ASSUME ExclusiveProcess, NEW now, NEW o \in Messages(now), IsReport(o.e), Proc(o) # NoProc,
         NEW reg, Registry(reg, now), NEW l \in DOMAIN reg, l[1] = o.h,
         reg[l].s.process = Proc(o), Conflicts(reg[l], o)
  PROVE  l \in Replaced(reg, o)
<1>1. o.multi = FALSE /\ reg[l].multi = FALSE
  BY MessageTypes DEF Registry, SoundEntry, WellTyped, Entries
<1>2. NativeReplacement(l, reg[l], o)
  BY <1>1 DEF NativeReplacement
<1> QED
  BY <1>2 DEF Replaced

\* Reducing one observation leaves at most one running session in each process: the others
\* of the process are retired, are taken over, or were over.
LEMMA RunningStep ==
  ASSUME MatchingAssumption, ~Anonymous, ~Bare, ExclusiveProcess, NEW now \in Nat,
         NEW o \in Messages(now), NEW reg, Registry(reg, now), Named(reg), OneRunning(reg)
  PROVE  OneRunning(ReduceOne(reg, o, now).reg)
<1> DEFINE r == RetireConflicting(reg, o, now)
           f == Reconcile(r, o)
           key == Reduced(f, o)
           entry == EntryAt(f.reg, key, now)
           twins == Taken(f.reg, key, entry, o)
           g == ReduceOne(reg, o, now).reg
<1>1. /\ Registry(r, now) /\ DOMAIN r = DOMAIN reg /\ Keeps(reg, r)
      /\ ~RetirementRejected(reg, o) /\ ~Ends(o.e) =>
           \A k \in Replaced(reg, o) : Terminal(r[k].s)
  BY RetireConflictingFacts
<1>2. Named(r) /\ OneRunning(r)
  BY <1>1, OutlastsNamed
<1>3. /\ Registry(f.reg, now)
      /\ f.found = {} => /\ IdentityMatches(r, o) = {} /\ ProcessMatches(r, o) = {}
                         /\ f.reg = r
  BY <1>1, ReconcileFacts
<1>4. /\ Named(f.reg) /\ OneRunning(f.reg) /\ IdentityMatches(f.reg, o) \subseteq f.found
      /\ \A k \in f.found : Proc(o) # NoProc =>
           \/ f.reg[k].s.process = Proc(o)
           \/ /\ f.reg = r /\ o.sid # NoSid
              /\ f.reg[k].s.process # NoProc \/ ProcessMatches(r, o) = {}
      /\ \A l \in DOMAIN f.reg \ f.found : l \in DOMAIN r /\ f.reg[l] = r[l]
  BY <1>1, <1>2, NamedReconcile
<1>5. o.sid = NoSid =>
        /\ f.reg = r
        /\ \/ f.found = {} /\ ProcessMatches(r, o) = {}
           \/ \E k \in ProcessMatches(r, o) : f.found = {k}
  BY <1>1, UnnamedReconcile
<1>6. \/ g = reg
      \/ g = r
      \/ /\ ~RetirementRejected(reg, o)
         /\ \/ f.found = {} /\ key = Key(o)
            \/ f.found = {key} /\ key \in DOMAIN f.reg
         /\ WellTyped(entry, now) /\ key[1] = o.h
         /\ entry = IF key \in DOMAIN f.reg THEN f.reg[key] ELSE NewEntry(now)
         /\ \E saved : Stamped(entry, o, saved, now) /\ Placed(f.reg, key, saved, twins, g, now)
  BY ReduceOneFacts DEF EntryAt
<1>7. twins = IF Resumes(entry, o) THEN Twins(f.reg, key, o) ELSE {}
  BY DEF Taken
<1> HIDE DEF r, f, key, entry, twins, g
<1>8. ASSUME NEW saved, Stamped(entry, o, saved, now), Placed(f.reg, key, saved, twins, g, now),
             ~RetirementRejected(reg, o),
             \/ f.found = {} /\ key = Key(o)
             \/ f.found = {key} /\ key \in DOMAIN f.reg,
             WellTyped(entry, now), key[1] = o.h,
             entry = IF key \in DOMAIN f.reg THEN f.reg[key] ELSE NewEntry(now)
      PROVE  OneRunning(g)
  <2>1. /\ DOMAIN g = (DOMAIN f.reg \ twins) \cup {key}
        /\ \A l \in DOMAIN f.reg \ (twins \cup {key}) : g[l] = f.reg[l]
        /\ g[key].s.process = saved.s.process
        /\ g[key].s.inc.state = saved.s.inc.state
    BY <1>8 DEF Placed
  <2>2. /\ saved.s = Reduce(entry.s, o.e).session
        /\ (saved.s = entry.s /\ Exists(entry.s)) \/ Follows(entry.s, o.e, saved.s)
    BY <1>8 DEF Stamped
  <2>3. \A l \in DOMAIN g : l # key => l \in DOMAIN f.reg /\ l \notin twins /\ g[l] = f.reg[l]
    BY <2>1
  <2>4. /\ entry.s \in Sessions /\ Sound(entry.s) /\ o.e \in Observations
        /\ o.e.kind \in {"report", "sighting", "placement", "listing", "verification"}
    BY <1>8, MessageTypes DEF WellTyped, Entries
  <2>5. key \notin DOMAIN f.reg =>
          ~Exists(entry.s) /\ ~Terminal(entry.s) /\ entry.s.process = NoProc
    <3>1. NewSession.process = NoProc /\ ~Terminal(NewSession)
      BY DEF NewSession, Terminal, NoIncarnation
    <3>2. NewEntry(now).s = NewSession
      BY NewEntryTyped
    <3> HIDE DEF NewSession
    <3> QED
      BY <1>8, <3>1, <3>2, NewSessionSound
  <2>6. ASSUME NEW l \in DOMAIN g, l # key, l[1] = key[1],
               g[l].s.process = g[key].s.process, g[key].s.process # NoProc,
               ~Terminal(g[l].s), ~Terminal(g[key].s)
        PROVE  FALSE
    <3> DEFINE x == f.reg[l]
    <3>1. /\ l \in DOMAIN f.reg /\ l \notin twins /\ ~Terminal(x.s) /\ ~Terminal(saved.s)
          /\ x.s.process = saved.s.process /\ saved.s.process # NoProc
      BY <2>1, <2>3, <2>6 DEF Terminal
    <3>2. ASSUME key \in DOMAIN f.reg, entry.s.process = saved.s.process PROVE Terminal(entry.s)
      BY <1>4, <1>8, <2>6, <3>1, <3>2 DEF OneRunning
    <3>3. ~(saved.s = entry.s /\ Exists(entry.s))
      BY <2>5, <3>1, <3>2
    <3>4. Follows(entry.s, o.e, saved.s)
      BY <2>2, <3>3
    <3>5. /\ saved.s.process = (IF Proc(o) # NoProc THEN Proc(o) ELSE entry.s.process)
          /\ entry.s.process = entry.s.inc.proc
      BY <2>4, <3>4, FollowedProcess DEF Proc, Sound
    <3>6. /\ ~Ends(o.e)
          /\ Terminal(entry.s) => /\ Resets(Decide(entry.s, o.e, FALSE))
                                  /\ Different(entry.s, o.e) \/ IsReport(o.e)
          /\ Different(entry.s, o.e) => Resets(Decide(entry.s, o.e, FALSE))
      BY <2>4, <3>1, <3>4, RunningFacts
    <3>7. Different(entry.s, o.e) <=> /\ Proc(o) # NoProc /\ entry.s.process # NoProc
                                      /\ Proc(o) # entry.s.process
      BY <3>5 DEF Different, Proc
    <3>8. Proc(o) # NoProc
      <4>1. ASSUME Proc(o) = NoProc PROVE FALSE
        <5>1. ~IsReport(o.e)
          BY <4>1, MessageTypes
        <5>2. key \in DOMAIN f.reg /\ Terminal(entry.s)
          BY <2>5, <3>1, <3>2, <3>5, <4>1
        <5> QED
          BY <3>6, <3>7, <4>1, <5>1, <5>2
      <4> QED
        BY <4>1
    <3>9. x.s.process = Proc(o) /\ l[1] = o.h
      BY <1>8, <2>6, <3>1, <3>5, <3>8
    <3>10. ~Conflicts(x, o) => l \in ProcessMatches(f.reg, o)
      BY <3>1, <3>8, <3>9 DEF ProcessMatches, Of
    <3>11. key \in DOMAIN f.reg /\ entry.s.process = Proc(o) => Terminal(entry.s) /\ IsReport(o.e)
      BY <3>2, <3>5, <3>6, <3>7, <3>8
    <3>12. CASE o.sid = NoSid
      <4>1. ~IsReport(o.e)
        BY <3>12, MessageTypes
      <4>2. l \in ProcessMatches(r, o)
        BY <1>5, <3>10, <3>12 DEF Conflicts
      <4>3. PICK k \in ProcessMatches(r, o) : f.found = {k}
        BY <1>5, <3>12, <4>2
      <4>4. key = k /\ key \in DOMAIN f.reg
        BY <1>8, <4>3
      <4>5. entry.s.process = Proc(o)
        BY <1>5, <1>8, <3>12, <4>3, <4>4 DEF ProcessMatches
      <4> QED
        BY <3>11, <4>1, <4>4, <4>5
    <3>13. CASE o.sid # NoSid
      <4>1. IsReport(o.e)
        BY <3>8, <3>13, MessageTypes
      <4>2. l \notin f.found
        BY <1>8, <2>6
      <4>3. l \in DOMAIN r /\ x = r[l]
        BY <1>4, <3>1, <4>2
      <4>4. CASE Conflicts(x, o)
        <5>1. l \in DOMAIN reg /\ reg[l].sid = x.sid /\ reg[l].s.process = x.s.process
          BY <1>1, <4>3 DEF Keeps, Outlasts
        <5>2. l \in Replaced(reg, o)
          BY <3>8, <3>9, <4>1, <4>4, <5>1, ReportReplaces DEF Conflicts
        <5> QED
          BY <1>1, <1>8, <3>1, <3>6, <4>3, <5>2
      <4>5. CASE ~Conflicts(x, o)
        <5>1. x.sid = NoSid
          <6>1. ASSUME x.sid # NoSid PROVE FALSE
            <7>1. x.sid = o.sid
              BY <3>13, <4>5, <6>1 DEF Conflicts
            <7>2. l \in IdentityMatches(f.reg, o)
              BY <3>1, <3>9, <3>13, <7>1 DEF IdentityMatches, Of
            <7> QED
              BY <1>4, <4>2, <7>2
          <6> QED
            BY <6>1
        <5>2. Provisional(x)
          BY <1>4, <3>1, <5>1 DEF Named, Nameless
        <5>3. l \in Twins(f.reg, key, o)
          BY <2>6, <3>1, <3>9, <5>2 DEF Twins, Of
        <5>4. ~Resumes(entry, o)
          BY <1>7, <3>1, <5>3
        <5>5. ~Resets(Decide(entry.s, o.e, FALSE)) \/ entry.s.process = NoProc
          BY <3>5, <3>8, <5>4 DEF Resumes
        <5>6. l \in ProcessMatches(f.reg, o)
          BY <3>10, <4>5
        <5>7. f.found = {key} /\ key \in DOMAIN f.reg
          BY <1>3, <1>8, <5>6
        <5>8. entry = f.reg[key]
          BY <1>8, <5>7
        <5>9. CASE entry.s.process = Proc(o)
          BY <3>6, <3>8, <3>11, <5>5, <5>7, <5>9
        <5>10. CASE entry.s.process # Proc(o)
          <6>1. f.reg = r /\ (entry.s.process # NoProc \/ ProcessMatches(r, o) = {})
            BY <1>4, <3>8, <5>7, <5>8, <5>10
          <6>2. entry.s.process # NoProc
            BY <5>6, <6>1
          <6> QED
            BY <3>6, <3>7, <3>8, <5>5, <5>10, <6>2
        <5> QED
          BY <5>9, <5>10
      <4> QED
        BY <4>4, <4>5
    <3> QED
      BY <3>12, <3>13
  <2>7. ASSUME NEW k \in DOMAIN g, NEW l \in DOMAIN g, k # l, k[1] = l[1],
               g[k].s.process = g[l].s.process, g[k].s.process # NoProc
        PROVE  Terminal(g[k].s) \/ Terminal(g[l].s)
    <3>1. CASE k = key
      BY <2>6, <2>7, <3>1
    <3>2. CASE l = key
      BY <2>6, <2>7, <3>2
    <3>3. CASE k # key /\ l # key
      BY <1>4, <2>3, <2>7, <3>3 DEF OneRunning
    <3> QED
      BY <3>1, <3>2, <3>3
  <2> QED
    BY <2>7 DEF OneRunning
<1>9. g = reg \/ g = r => OneRunning(g)
  BY <1>2
<1> QED
  BY <1>6, <1>8, <1>9 DEF g

-----------------------------------------------------------------------------
(* Batches.                                                                *)

SnapSound(x, now) ==
  /\ x = [reg |-> x.reg, ended |-> x.ended, failed |-> x.failed]
  /\ Registry(x.reg, now) /\ DOMAIN x.ended \subseteq Procs /\ x.failed \in BOOLEAN

LEMMA OnTimeFacts ==
  ASSUME NEW now \in Nat, NEW o \in Messages(now)
  PROVE  OnTime(o, now) = o
<1>1. o.e.at \in Nat /\ o.e.at <= now
  BY MessageTypes
<1>2. Earlier(o.e.at, now) = o.e.at
  BY <1>1 DEF Earlier
<1>3. [o.e EXCEPT !.at = o.e.at] = o.e
  BY DEF Messages, Observations
<1>4. [o EXCEPT !.e = o.e] = o
  BY DEF Messages
<1> QED
  BY <1>2, <1>3, <1>4 DEF OnTime

\* One round of the loop: nothing, or one observation of a process that is not known to
\* have ended.
LEMMA ApplyOneFacts ==
  ASSUME NEW now \in Nat, NEW o \in Messages(now), NEW x, SnapSound(x, now)
  PROVE  LET y == ApplyOne(x, o, now)
         IN  /\ SnapSound(y, now) /\ y.ended = x.ended
             /\ y.reg = x.reg \/ (~FromEnded(x, o) /\ y.reg = ReduceOne(x.reg, o, now).reg)
<1> DEFINE r == ReduceOne(x.reg, o, now)
           y == ApplyOne(x, o, now)
<1>1. OnTime(o, now) = o
  BY OnTimeFacts
<1>2. Registry(r.reg, now)
  BY StepFacts DEF SnapSound
<1>3. y = x \/ (~FromEnded(x, o) /\ y = [x EXCEPT !.reg = r.reg, !.failed = r.out = "conflict"])
  BY <1>1 DEF ApplyOne, WithResult
<1> HIDE DEF r
<1>4. ASSUME y = [x EXCEPT !.reg = r.reg, !.failed = r.out = "conflict"]
      PROVE  /\ y = [reg |-> r.reg, ended |-> x.ended, failed |-> (r.out = "conflict")]
             /\ SnapSound(y, now) /\ y.ended = x.ended /\ y.reg = r.reg
  <2>1. y = [reg |-> r.reg, ended |-> x.ended, failed |-> (r.out = "conflict")]
    BY <1>4 DEF SnapSound
  <2> HIDE DEF y
  <2> QED
    BY <1>2, <2>1 DEF SnapSound
<1> HIDE DEF y
<1>5. CASE y = x
  BY <1>5 DEF y
<1>6. CASE ~FromEnded(x, o) /\ y = [x EXCEPT !.reg = r.reg, !.failed = r.out = "conflict"]
  BY <1>4, <1>6 DEF y, r
<1> QED
  BY <1>3, <1>5, <1>6

\* The rounds of applyObservationBatch's loop.
IsLoop(acc, x, batch, now, n) ==
  acc = [i \in 0..n |-> IF i = 0 THEN x ELSE ApplyOne(acc[i - 1], batch[i], now)]

LEMMA LoopExists ==
  ASSUME NEW x, NEW batch, NEW now, NEW m \in Nat
  PROVE  \E acc : IsLoop(acc, x, batch, now, m)
<1> DEFINE wrong == {n \in Nat : ~\E acc : IsLoop(acc, x, batch, now, n)}
<1>1. ASSUME wrong # {} PROVE FALSE
  <2>1. PICK n \in wrong : \A k \in wrong : ~(<<k, n>> \in OpToRel(<, Nat))
    <3>1. wrong \subseteq Nat
      OBVIOUS
    <3> HIDE DEF wrong
    <3> QED
      BY <1>1, <3>1, NatLessThanWellFounded, WFMin
  <2>2. n \in Nat /\ ~\E acc : IsLoop(acc, x, batch, now, n)
    OBVIOUS
  <2>3. n # 0
    <3>1. IsLoop([i \in 0..0 |-> x], x, batch, now, 0)
      BY DEF IsLoop
    <3> QED
      BY <2>2, <3>1
  <2>4. n - 1 \in Nat /\ n - 1 < n
    BY <2>2, <2>3
  <2>5. n - 1 \notin wrong
    <3> HIDE DEF wrong
    <3>1. ASSUME n - 1 \in wrong PROVE FALSE
      BY <2>1, <2>2, <2>4, <3>1 DEF OpToRel
    <3> QED
      BY <3>1
  <2>6. PICK a : IsLoop(a, x, batch, now, n - 1)
    BY <2>4, <2>5
  <2> DEFINE b == [i \in 0..n |-> IF i = n THEN ApplyOne(a[n - 1], batch[n], now) ELSE a[i]]
             c == [i \in 0..n |-> IF i = 0 THEN x ELSE ApplyOne(b[i - 1], batch[i], now)]
  <2>7. ASSUME NEW i \in 0..n PROVE b[i] = c[i]
    <3>1. CASE i = 0
      <4>1. 0 \in 0..(n - 1)
        BY <2>4
      <4>2. a[0] = x
        BY <2>6, <4>1 DEF IsLoop
      <4> QED
        BY <2>3, <3>1, <4>2
    <3>2. CASE i # 0
      <4>1. i \in 1..n /\ i - 1 \in 0..(n - 1) /\ i - 1 \in 0..n /\ i - 1 # n
        BY <2>2, <3>2
      <4>2. b[i - 1] = a[i - 1]
        BY <4>1
      <4>3. c[i] = ApplyOne(a[i - 1], batch[i], now)
        BY <3>2, <4>2
      <4>4. CASE i = n
        BY <2>2, <4>3, <4>4
      <4>5. CASE i # n
        <5>1. i \in 0..(n - 1)
          BY <2>2, <4>5
        <5>2. a[i] = ApplyOne(a[i - 1], batch[i], now)
          BY <2>6, <3>2, <5>1 DEF IsLoop
        <5> QED
          BY <4>3, <4>5, <5>2
      <4> QED
        BY <4>4, <4>5
    <3> QED
      BY <3>1, <3>2
  <2>8. b = c
    <3>1. b = [i \in 0..n |-> b[i]] /\ c = [i \in 0..n |-> c[i]]
      OBVIOUS
    <3> HIDE DEF b, c
    <3> QED
      BY <2>7, <3>1
  <2>9. IsLoop(b, x, batch, now, n)
    BY <2>8 DEF IsLoop
  <2> QED
    BY <2>2, <2>9
<1>2. m \notin wrong
  <2> HIDE DEF wrong
  <2> QED
    BY <1>1
<1> QED
  BY <1>2

LEMMA ApplyAllIsLoop ==
  ASSUME NEW x, NEW batch, NEW now, Len(batch) \in Nat
  PROVE  \E acc : /\ acc[0] = x /\ ApplyAll(x, batch, now) = acc[Len(batch)]
                  /\ \A i \in 1..Len(batch) : acc[i] = ApplyOne(acc[i - 1], batch[i], now)
<1> DEFINE n == Len(batch)
           acc == CHOOSE a : IsLoop(a, x, batch, now, n)
<1>1. IsLoop(acc, x, batch, now, n)
  BY LoopExists
<1>2. acc = CHOOSE a : a = [i \in 0..n |-> IF i = 0 THEN x ELSE ApplyOne(a[i - 1], batch[i], now)]
  BY DEF IsLoop
<1>3. ApplyAll(x, batch, now) = acc[n]
  BY <1>2 DEF ApplyAll
<1> HIDE DEF acc
<1>4. acc[0] = x
  BY <1>1 DEF IsLoop
<1>5. ASSUME NEW i \in 1..n PROVE acc[i] = ApplyOne(acc[i - 1], batch[i], now)
  <2>1. i \in 0..n /\ i # 0
    OBVIOUS
  <2> QED
    BY <1>1, <2>1 DEF IsLoop
<1> QED
  BY <1>3, <1>4, <1>5

\* What a batch of scans of one moment sees: processes that run, none of them in D, and
\* processes that do not.
Sightings(batch, D) ==
  \A i \in 1..Len(batch) :
    batch[i].e.kind = "sighting" /\ (batch[i].e.present => Proc(batch[i]) \notin D)

\* What holds of the registry before a batch holds after it, a conflict included.
Good(x, y, now) ==
  /\ SnapSound(y, now) /\ y.ended = x.ended
  /\ ~Anonymous /\ Named(x.reg) => Named(y.reg)
  /\ ~Anonymous /\ ~Bare /\ ExclusiveProcess /\ Named(x.reg) /\ OneRunning(x.reg) =>
       OneRunning(y.reg)

LEMMA ApplyOneGood ==
  ASSUME MatchingAssumption, NEW now \in Nat, NEW o \in Messages(now), NEW x, NEW y,
         Good(x, y, now)
  PROVE  Good(x, ApplyOne(y, o, now), now)
<1> DEFINE z == ApplyOne(y, o, now)
<1>1. /\ SnapSound(z, now) /\ z.ended = y.ended
      /\ z.reg = y.reg \/ z.reg = ReduceOne(y.reg, o, now).reg
  BY ApplyOneFacts DEF Good
<1> HIDE DEF z
<1>2. Registry(y.reg, now)
  BY DEF Good, SnapSound
<1>3. ~Anonymous /\ Named(y.reg) => Named(z.reg)
  BY <1>1, <1>2, NamedStep
<1>4. ~Anonymous /\ ~Bare /\ ExclusiveProcess /\ Named(y.reg) /\ OneRunning(y.reg) =>
        OneRunning(z.reg)
  BY <1>1, <1>2, RunningStep
<1>5. Good(x, z, now)
  BY <1>1, <1>3, <1>4 DEF Good
<1> QED
  BY <1>5 DEF z

LEMMA BatchFacts ==
  ASSUME MatchingAssumption, NEW now \in Nat, NEW batch \in Seq(Messages(now)),
         NEW x, SnapSound(x, now), NEW base, NEW D
  PROVE  LET y == ApplyAll(x, batch, now)
         IN  /\ Good(x, y, now)
             /\ Sightings(batch, D) /\ Settled(base, D, x.reg) => Settled(base, D, y.reg)
<1> DEFINE n == Len(batch)
<1>1. n \in Nat /\ \A i \in 1..n : batch[i] \in Messages(now)
  OBVIOUS
<1>2. PICK acc : /\ acc[0] = x /\ ApplyAll(x, batch, now) = acc[n]
                 /\ \A i \in 1..n : acc[i] = ApplyOne(acc[i - 1], batch[i], now)
  BY <1>1, ApplyAllIsLoop
<1> HIDE DEF n
<1> DEFINE fine(y) == /\ Good(x, y, now)
                      /\ Sightings(batch, D) /\ Settled(base, D, x.reg) => Settled(base, D, y.reg)
           wrong == {i \in 0..n : ~fine(acc[i])}
<1>3. fine(x)
  BY DEF Good
<1>4. ASSUME NEW i \in 1..n, fine(acc[i - 1]) PROVE fine(acc[i])
  <2> DEFINE y == acc[i - 1]
             o == batch[i]
  <2>1. o \in Messages(now) /\ acc[i] = ApplyOne(y, o, now)
    BY <1>1, <1>2
  <2>2. SnapSound(y, now) /\ Registry(y.reg, now)
    BY <1>4 DEF Good, SnapSound
  <2> HIDE DEF y, o
  <2>3. Good(x, acc[i], now)
    BY <1>4, <2>1, ApplyOneGood DEF y
  <2>4. acc[i].reg = y.reg \/ acc[i].reg = ReduceOne(y.reg, o, now).reg
    BY <2>1, <2>2, ApplyOneFacts
  <2>5. ASSUME Sightings(batch, D), Settled(base, D, x.reg) PROVE Settled(base, D, acc[i].reg)
    <3>1. Settled(base, D, y.reg)
      BY <1>4, <2>5 DEF y
    <3>2. o.e.kind = "sighting" /\ (o.e.present => Proc(o) \notin D)
      BY <2>5 DEF Sightings, n, o
    <3>3. Settled(base, D, ReduceOne(y.reg, o, now).reg)
      BY <2>1, <2>2, <3>1, <3>2, SightingFacts
    <3> QED
      BY <2>4, <3>1, <3>3
  <2> QED
    BY <2>3, <2>5
<1> HIDE DEF fine
<1>5. wrong \subseteq Nat
  BY <1>1
<1>6. ASSUME wrong # {} PROVE FALSE
  <2>1. PICK m \in wrong : \A k \in wrong : ~(<<k, m>> \in OpToRel(<, Nat))
    BY <1>5, <1>6, NatLessThanWellFounded, WFMin
  <2>2. \A k \in wrong : ~(k < m)
    BY <1>5, <2>1 DEF OpToRel
  <2>3. m \in 0..n /\ ~fine(acc[m])
    OBVIOUS
  <2>4. m \in 1..n
    BY <1>1, <1>2, <1>3, <2>3
  <2>5. m - 1 \in 0..n /\ m - 1 < m
    BY <1>1, <2>4
  <2>6. fine(acc[m - 1])
    BY <2>2, <2>5
  <2> QED
    BY <1>4, <2>3, <2>4, <2>6
<1>7. fine(acc[n])
  <2>1. n \in 0..n
    BY <1>1
  <2> QED
    BY <1>6, <2>1
<1> QED
  BY <1>2, <1>7 DEF fine

-----------------------------------------------------------------------------
(* Expiry.                                                                 *)

\* Some entries leave, the others are as they were.
Drops(reg, r) ==
  /\ r = [k \in DOMAIN r |-> r[k]] /\ DOMAIN r \subseteq DOMAIN reg
  /\ \A k \in DOMAIN r : r[k] = reg[k]

LEMMA DropsFacts ==
  ASSUME NEW now, NEW reg, Registry(reg, now), NEW r, Drops(reg, r)
  PROVE  /\ Registry(r, now)
         /\ Named(reg) => Named(r)
         /\ OneRunning(reg) => OneRunning(r)
  BY DEF Drops, Registry, Named, Unique, KeysName, Nameless, OneRunning

LEMMA WithoutDrops ==
  ASSUME NEW reg, NEW keys
  PROVE  /\ Drops(reg, Without(reg, keys)) /\ DOMAIN Without(reg, keys) = DOMAIN reg \ keys
         /\ \A k \in DOMAIN Without(reg, keys) : Without(reg, keys)[k] = reg[k]
<1> DEFINE r == Without(reg, keys)
<1>1. /\ r = [k \in DOMAIN r |-> r[k]] /\ DOMAIN r = DOMAIN reg \ keys
      /\ \A k \in DOMAIN r : r[k] = reg[k]
  BY WithoutFacts
<1> HIDE DEF r
<1>2. Drops(reg, r)
  BY <1>1 DEF Drops
<1> QED
  BY <1>1, <1>2 DEF r

LEMMA DeleteFacts ==
  ASSUME NEW now, NEW t, NEW after, NEW x, SnapSound(x, now)
  PROVE  LET y == DeleteGone(x, t, after)
         IN  SnapSound(y, now) /\ Drops(x.reg, y.reg) /\ y.failed = x.failed /\ y.ended = x.ended
<1> DEFINE out == {k \in DOMAIN x.reg : Gone(x.reg[k]) /\ Age(t, GoneSince(x.reg[k])) >= after}
           r == Without(x.reg, out)
           y == DeleteGone(x, t, after)
<1>1. y = [reg |-> r, ended |-> x.ended, failed |-> x.failed]
  BY DEF DeleteGone, SnapSound
<1>2. Drops(x.reg, r)
  BY WithoutDrops
<1>3. Registry(r, now)
  BY <1>2, DropsFacts DEF SnapSound
<1> HIDE DEF r, y
<1>4. SnapSound(y, now) /\ Drops(x.reg, y.reg) /\ y.failed = x.failed /\ y.ended = x.ended
  BY <1>1, <1>2, <1>3 DEF SnapSound
<1> QED
  BY <1>4 DEF y

\* removeGoneProcessOnlySessions leaves no gone entry that is known by its process only.
LEMMA RemoveFacts ==
  ASSUME NEW now, NEW x, SnapSound(x, now)
  PROVE  LET y == RemoveProcessOnly(x)
         IN  /\ SnapSound(y, now) /\ Drops(x.reg, y.reg) /\ y.failed = x.failed
             /\ \A k \in DOMAIN y.reg : ~(Gone(y.reg[k]) /\ ProcessOnly(y.reg[k]))
<1> DEFINE out == {k \in DOMAIN x.reg : Gone(x.reg[k]) /\ ProcessOnly(x.reg[k])}
           done == {k \in out : x.reg[k].s.process # NoProc}
           procs == {x.reg[k].s.process : k \in done}
           at(p) == GoneSince(x.reg[CHOOSE k \in {l \in done : x.reg[l].s.process = p} : TRUE])
           e == [p \in DOMAIN x.ended \cup procs |-> IF p \in procs THEN at(p) ELSE x.ended[p]]
           r == Without(x.reg, out)
           y == RemoveProcessOnly(x)
<1>1. /\ y = [reg |-> r, ended |-> e, failed |-> x.failed]
      /\ DOMAIN e = DOMAIN x.ended \cup procs
  <2>1. y = [x EXCEPT !.reg = r, !.ended = e]
    BY DEF RemoveProcessOnly
  <2> HIDE DEF r, y, procs
  <2> QED
    BY <2>1 DEF SnapSound
<1>2. procs \subseteq Procs
  <2>1. ASSUME NEW k \in done PROVE x.reg[k].s.process \in Procs
    BY DEF SnapSound, Registry, SoundEntry, WellTyped, Entries, Sessions, Process
  <2> QED
    BY <2>1
<1>3. Drops(x.reg, r) /\ DOMAIN r = DOMAIN x.reg \ out /\ \A k \in DOMAIN r : r[k] = x.reg[k]
  BY WithoutDrops
<1>4. Registry(r, now)
  BY <1>3, DropsFacts DEF SnapSound
<1>5. \A k \in DOMAIN r : ~(Gone(r[k]) /\ ProcessOnly(r[k]))
  BY <1>3
<1> HIDE DEF r, y, procs, done, out, e
<1>6. /\ SnapSound(y, now) /\ Drops(x.reg, y.reg) /\ y.failed = x.failed
      /\ \A k \in DOMAIN y.reg : ~(Gone(y.reg[k]) /\ ProcessOnly(y.reg[k]))
  BY <1>1, <1>2, <1>3, <1>4, <1>5 DEF SnapSound
<1> QED
  BY <1>6 DEF y

LEMMA PruneFacts ==
  ASSUME NEW now, NEW t, NEW x, SnapSound(x, now)
  PROVE  LET y == PruneEnded(x, t)
         IN  SnapSound(y, now) /\ y.reg = x.reg /\ y.failed = x.failed
<1> DEFINE e == [p \in {q \in DOMAIN x.ended : Age(t, x.ended[q]) < TTL} |-> x.ended[p]]
           y == PruneEnded(x, t)
<1>1. y = [reg |-> x.reg, ended |-> e, failed |-> x.failed]
  BY DEF PruneEnded, SnapSound
<1>2. DOMAIN e \subseteq Procs
  BY DEF SnapSound
<1> HIDE DEF e, y
<1>3. SnapSound(y, now) /\ y.reg = x.reg /\ y.failed = x.failed
  BY <1>1, <1>2 DEF SnapSound
<1> QED
  BY <1>3 DEF y

LEMMA DropsTwice ==
  ASSUME NEW a, NEW b, NEW c, Drops(a, b), Drops(b, c)
  PROVE  Drops(a, c)
  BY DEF Drops

\* What the expiry leaves is as it was, and not both gone and known by its process only.
LEMMA ExpireFacts ==
  ASSUME NEW now, NEW x, SnapSound(x, now)
  PROVE  LET y == Expire(x, now)
         IN  /\ SnapSound(y, now) /\ Drops(x.reg, y.reg) /\ y.failed = x.failed
             /\ \A k \in DOMAIN y.reg : ~(Gone(y.reg[k]) /\ ProcessOnly(y.reg[k]))
<1> DEFINE a == RemoveProcessOnly(x)
           b == DeleteGone(a, now, TTL)
           y == PruneEnded(b, now)
<1>1. /\ SnapSound(a, now) /\ Drops(x.reg, a.reg) /\ a.failed = x.failed
      /\ \A k \in DOMAIN a.reg : ~(Gone(a.reg[k]) /\ ProcessOnly(a.reg[k]))
  BY RemoveFacts
<1>2. Expire(x, now) = y
  BY DEF Expire
<1> HIDE DEF a
<1>3. SnapSound(b, now) /\ Drops(a.reg, b.reg) /\ b.failed = a.failed
  BY <1>1, DeleteFacts
<1> HIDE DEF b
<1>4. SnapSound(y, now) /\ y.reg = b.reg /\ y.failed = b.failed
  BY <1>3, PruneFacts
<1> HIDE DEF y
<1>5. Drops(x.reg, y.reg)
  BY <1>1, <1>3, <1>4, DropsTwice
<1> QED
  BY <1>1, <1>2, <1>3, <1>4, <1>5 DEF Drops

-----------------------------------------------------------------------------
(* The world and what is seen of it.                                       *)

Moments ==
  [run : {"unborn", "alive", "dead"}, open : Names, mark : {"none", "start", "end"}, of : Names]

\* There is a first moment.
PastIsSound == past \in Seq([Procs -> Moments]) /\ past # << >>

LEMMA PastFacts ==
  ASSUME PastIsSound
  PROVE  /\ Now \in Nat \ {0} /\ Now = Len(past)
         /\ \A t \in 1..Now, p \in Procs : past[t][p] \in Moments
<1>1. Now \in Nat \ {0} /\ Now = Len(past)
  BY DEF PastIsSound, Now
<1>2. \A t \in 1..Now : past[t] \in [Procs -> Moments]
  BY <1>1 DEF PastIsSound
<1> QED
  BY <1>1, <1>2

LEMMA ObservationTypes ==
  ASSUME NEW p \in Process, NEW at \in Nat
  PROVE  /\ p # NoProc => Observation("placement", p, at) \in Observations
         /\ p = NoProc => Observation("listing", p, at) \in Observations
         /\ \A c \in {"gone", "unknown"} : Verification(at, c) \in Observations
         /\ \A b \in BOOLEAN : p # NoProc => Sighting(p, at, b) \in Observations
         /\ \A life \in Lives, claim \in Claims, act \in Acts :
              Report(p, at, life, claim, act, 0) \in Observations
<1> USE DEF Observations, Kinds, Lives, Claims, Acts, Observation
<1>1. p # NoProc => Observation("placement", p, at) \in Observations
  OBVIOUS
<1>2. p = NoProc => Observation("listing", p, at) \in Observations
  OBVIOUS
<1>3. ASSUME NEW c \in {"gone", "unknown"} PROVE Verification(at, c) \in Observations
  <2>1. NoProc \in Process
    BY DEF Process
  <2> QED
    BY <2>1 DEF Verification
<1>4. ASSUME NEW b \in BOOLEAN, p # NoProc PROVE Sighting(p, at, b) \in Observations
  BY <1>4 DEF Sighting
<1>5. ASSUME NEW life \in Lives, NEW claim \in Claims, NEW act \in Acts
      PROVE  Report(p, at, life, claim, act, 0) \in Observations
  BY DEF Report
<1> QED
  BY <1>1, <1>2, <1>3, <1>4, <1>5

\* A report names a session and a process, unless it may lack them.
LEMMA InboxFacts ==
  ASSUME MatchingAssumption, PastIsSound
  PROVE  Inbox \subseteq Messages(Now) /\ \A o \in Inbox : IsReport(o.e)
<1> SUFFICES ASSUME NEW o \in Inbox PROVE o \in Messages(Now) /\ IsReport(o.e)
  OBVIOUS
<1>1. PICK t \in 1..Now : o \in Reports(t)
  BY DEF Inbox
<1> DEFINE m(p) == past[t][p]
           sid(p) == IF m(p).mark = "end" THEN m(p).of ELSE m(p).open
<1>2. ASSUME NEW p \in Procs PROVE sid(p) \in Names
  <2>1. m(p) \in Moments
    BY PastFacts
  <2> QED
    BY <2>1 DEF Moments
<1>3. PICK p \in Procs, h \in Harnesses, i \in Names, q \in Process,
           life \in {"none", "start", "end"}, claim \in {"gone", "live"}, act \in {"none", "busy"} :
        /\ sid(p) # NoSid /\ (i = NoSid => Anonymous /\ q = p) /\ (q = NoProc => Bare)
        /\ o = About(h, i, p, Report(q, t, life, claim, act, 0))
  <2> DEFINE says(q) == IF m(q).mark = "end"
                        THEN [life |-> "end", claim |-> "gone", act |-> "none"]
                        ELSE IF m(q).mark = "start"
                        THEN [life |-> "start", claim |-> "live", act |-> "none"]
                        ELSE [life |-> "none", claim |-> "live", act |-> "busy"]
             from(q) == {[sid |-> sid(q), proc |-> q]}
                        \cup (IF Bare THEN {[sid |-> sid(q), proc |-> NoProc]} ELSE {})
                        \cup (IF Anonymous THEN {[sid |-> NoSid, proc |-> q]} ELSE {})
             all(q) == {About(h, f.sid, q,
                              Report(f.proc, t, says(q).life, says(q).claim, says(q).act, 0)) :
                          h \in Harnesses, f \in from(q)}
  <2>1. Reports(t) = UNION {all(q) : q \in {r \in Procs : sid(r) # NoSid}}
    BY DEF Reports
  <2>2. PICK p \in Procs : sid(p) # NoSid /\ o \in all(p)
    <3> HIDE DEF all, sid
    <3> QED
      BY <1>1, <2>1
  <2>3. PICK h \in Harnesses, f \in from(p) :
          o = About(h, f.sid, p, Report(f.proc, t, says(p).life, says(p).claim, says(p).act, 0))
    <3> HIDE DEF from, says
    <3> QED
      BY <2>2
  <2>4. /\ says(p).life \in {"none", "start", "end"} /\ says(p).claim \in {"gone", "live"}
        /\ says(p).act \in {"none", "busy"}
    OBVIOUS
  <2>5. /\ f.sid \in {sid(p), NoSid} /\ f.proc \in {p, NoProc}
        /\ f.sid = NoSid => Anonymous /\ f.proc = p
        /\ f.proc = NoProc => Bare
        /\ f.sid \in Names /\ f.proc \in Process
    <3>1. p # NoProc /\ p \in Process /\ NoProc \in Process /\ sid(p) \in Names /\ NoSid \in Names
      BY <1>2, ProcAssumption DEF Process, Names
    <3> HIDE DEF sid
    <3> QED
      BY <2>2, <3>1
  <2> HIDE DEF says, sid, from
  <2> QED
    BY <2>2, <2>3, <2>4, <2>5
<1>5. t \in Nat /\ t <= Now
  BY PastFacts
<1> DEFINE e == Report(q, t, life, claim, act, 0)
<1>6. p \in Process /\ NoProc \in Process /\ p # NoProc
  BY ProcAssumption DEF Process
<1>7. e \in Observations /\ e.kind = "report" /\ e.at = t /\ e.proc = q
  <2>1. e \in Observations
    BY <1>5, <1>6, ObservationTypes DEF Lives, Claims, Acts
  <2>2. e.kind = "report" /\ e.at = t /\ e.proc = q
    BY DEF Report, Observation
  <2> QED
    BY <2>1, <2>2
<1>8. o = [h |-> h, sid |-> i, pane |-> p, multi |-> FALSE, pid |-> NoProc, e |-> e]
  BY <1>3 DEF About
<1> HIDE DEF e, sid
<1>9. o \in [h : Harnesses, sid : Names, pane : Process, multi : {FALSE}, pid : Process,
             e : Observations]
  BY <1>6, <1>7, <1>8
<1>10. /\ o.e.kind = "report" /\ o.e.at <= Now /\ o.sid = i /\ Proc(o) = q
  BY <1>5, <1>7, <1>8 DEF Proc
<1> QED
  BY <1>3, <1>6, <1>9, <1>10 DEF Messages, IsReport

\* The further observations name no process, or one that runs.
LEMMA FurtherFacts ==
  ASSUME MatchingAssumption, PastIsSound
  PROVE  /\ Further \subseteq Messages(Now)
         /\ \A o \in Further : Proc(o) = NoProc \/ (Proc(o) \in Procs /\ Runs(Proc(o), Now))
<1> SUFFICES ASSUME NEW o \in Further
             PROVE  /\ o \in Messages(Now)
                    /\ Proc(o) = NoProc \/ (Proc(o) \in Procs /\ Runs(Proc(o), Now))
  OBVIOUS
<1>0. NoProc \in Process /\ NoSid \in Names /\ Now \in Nat /\ Now <= Now
  BY PastFacts DEF Process, Names
<1>1. ASSUME NEW h \in Harnesses, NEW p \in Procs, Runs(p, Now),
             o = About(h, NoSid, p, Observation("placement", p, Now))
      PROVE  o \in Messages(Now) /\ Proc(o) = p
  <2> DEFINE e == Observation("placement", p, Now)
  <2>1. p \in Process /\ p # NoProc
    BY ProcAssumption DEF Process
  <2>2. e \in Observations
    BY <1>0, <2>1, ObservationTypes
  <2>3. e.kind = "placement" /\ e.at = Now /\ e.proc = p
    BY DEF Observation
  <2>4. o = [h |-> h, sid |-> NoSid, pane |-> p, multi |-> FALSE, pid |-> NoProc, e |-> e]
    BY <1>1 DEF About
  <2> HIDE DEF e
  <2> QED
    BY <1>0, <2>1, <2>2, <2>3, <2>4 DEF Messages, Proc, IsReport
<1>2. ASSUME NEW h \in Harnesses, NEW i \in Sids, NEW p \in Procs \cup {NoProc},
             o = [About(h, i, NoProc, Observation("listing", NoProc, Now)) EXCEPT !.pid = p]
      PROVE  o \in Messages(Now) /\ Proc(o) = NoProc
  <2> DEFINE e == Observation("listing", NoProc, Now)
  <2>1. p \in Process
    BY DEF Process
  <2>2. e \in Observations
    BY <1>0, ObservationTypes
  <2>3. e.kind = "listing" /\ e.at = Now /\ e.proc = NoProc
    BY DEF Observation
  <2>4. o = [h |-> h, sid |-> i, pane |-> NoProc, multi |-> FALSE, pid |-> p, e |-> e]
    BY <1>2 DEF About
  <2>5. i \in Names /\ i # NoSid
    BY DEF Names, MatchingAssumption
  <2> HIDE DEF e
  <2> QED
    BY <1>0, <2>1, <2>2, <2>3, <2>4, <2>5 DEF Messages, Proc, IsReport
<1>3. ASSUME NEW h \in Harnesses, NEW i \in Sids, NEW c \in {"gone", "unknown"},
             o = About(h, i, NoProc, Verification(Now, c))
      PROVE  o \in Messages(Now) /\ Proc(o) = NoProc
  <2> DEFINE e == Verification(Now, c)
  <2>2. e \in Observations
    BY <1>0, ObservationTypes
  <2>3. e.kind = "verification" /\ e.at = Now /\ e.proc = NoProc
    BY DEF Verification, Observation
  <2>4. o = [h |-> h, sid |-> i, pane |-> NoProc, multi |-> FALSE, pid |-> NoProc, e |-> e]
    BY <1>3 DEF About
  <2>5. i \in Names /\ i # NoSid
    BY DEF Names, MatchingAssumption
  <2> HIDE DEF e
  <2> QED
    BY <1>0, <2>2, <2>3, <2>4, <2>5 DEF Messages, Proc, IsReport
<1> QED
  BY <1>1, <1>2, <1>3 DEF Further

\* A scan sees each running process, and each process of the registry that runs no more.
LEMMA SeenFacts ==
  ASSUME MatchingAssumption, PastIsSound, SnapSound(snap, Now), NEW h \in Harnesses
  PROVE  /\ IsFiniteSet(Seen(h)) /\ Seen(h) \subseteq Messages(Now)
         /\ \A o \in Seen(h) : /\ o.e.kind = "sighting" /\ Proc(o) \in Procs
                               /\ o.e.present <=> Runs(Proc(o), Now)
<1> DEFINE alive == {q \in Procs : Runs(q, Now)}
           bound == {snap.reg[k].s.process : k \in DOMAIN snap.reg} \ ({NoProc} \cup alive)
           one(p) == About(h, NoSid, NoProc, Sighting(p, Now, p \in alive))
           S == alive \cup bound
           f == [p \in S |-> one(p)]
<1>1. bound \subseteq Procs
  <2>1. ASSUME NEW k \in DOMAIN snap.reg PROVE snap.reg[k].s.process \in Process
    BY DEF SnapSound, Registry, SoundEntry, WellTyped, Entries, Sessions
  <2> QED
    BY <2>1 DEF Process
<1>2. IsFiniteSet(S)
  <2>1. S \in SUBSET Procs
    BY <1>1
  <2> HIDE DEF S
  <2> QED
    BY <2>1, FS_Subset DEF MatchingAssumption
<1>3. Seen(h) = {one(p) : p \in S}
  <2>1. \A p \in alive : About(h, NoSid, NoProc, Sighting(p, Now, TRUE)) = one(p)
    OBVIOUS
  <2>2. \A p \in bound : About(h, NoSid, NoProc, Sighting(p, Now, FALSE)) = one(p)
    <3>1. ASSUME NEW p \in bound PROVE (p \in alive) = FALSE
      BY <1>1
    <3> HIDE DEF alive, bound
    <3> QED
      BY <3>1
  <2>3. Seen(h) = {About(h, NoSid, NoProc, Sighting(p, Now, TRUE)) : p \in alive}
                  \cup {About(h, NoSid, NoProc, Sighting(p, Now, FALSE)) : p \in bound}
    BY DEF Seen
  <2> HIDE DEF one, alive, bound
  <2> QED
    BY <2>1, <2>2, <2>3
<1>4. IsFiniteSet(Seen(h))
  <2> HIDE DEF one, S
  <2>1. f \in Surjection(S, Seen(h))
    BY <1>3 DEF Surjection
  <2> QED
    BY <1>2, <2>1, FS_Surjection
<1>5. ASSUME NEW p \in S
      PROVE  /\ one(p) \in Messages(Now) /\ one(p).e.kind = "sighting" /\ Proc(one(p)) = p
             /\ one(p).e.present <=> Runs(p, Now)
             /\ p \in Procs
  <2> DEFINE b == p \in alive
             e == Sighting(p, Now, b)
  <2>1. p \in Procs /\ p \in Process /\ p # NoProc /\ NoProc \in Process /\ NoSid \in Names
    BY <1>1, ProcAssumption DEF Process, Names
  <2>2. b \in BOOLEAN /\ (b <=> Runs(p, Now))
    BY <2>1
  <2>3. Now \in Nat /\ Now <= Now
    BY PastFacts
  <2> HIDE DEF b
  <2>4. e \in Observations
    BY <2>1, <2>2, <2>3, ObservationTypes
  <2>5. e.kind = "sighting" /\ e.at = Now /\ e.proc = p /\ e.present = b
    BY DEF Sighting, Observation
  <2>6. one(p) = [h |-> h, sid |-> NoSid, pane |-> NoProc, multi |-> FALSE, pid |-> NoProc, e |-> e]
    BY DEF About, b
  <2> HIDE DEF e, one
  <2> QED
    BY <2>1, <2>2, <2>3, <2>4, <2>5, <2>6 DEF Messages, Proc, IsReport
<1> HIDE DEF one, S
<1> QED
  BY <1>3, <1>4, <1>5

LEMMA ScannedFacts ==
  ASSUME MatchingAssumption, PastIsSound, SnapSound(snap, Now), NEW batch \in Scanned
  PROVE  /\ batch \in Seq(Messages(Now))
         /\ Sightings(batch, {p \in Procs : ~Runs(p, Now)})
<1>1. PICK h \in Harnesses : batch \in SetToSeqs(Seen(h))
  BY DEF Scanned
<1>2. Cardinality(Seen(h)) \in Nat
  BY SeenFacts, FS_CardinalityType
<1>3. batch \in [1..Cardinality(Seen(h)) -> Seen(h)]
  BY <1>1 DEF SetToSeqs
<1>4. batch \in Seq(Seen(h)) /\ Len(batch) = Cardinality(Seen(h))
  BY <1>2, <1>3
<1>5. batch \in Seq(Messages(Now))
  BY <1>4, SeenFacts
<1>6. \A i \in 1..Len(batch) : batch[i] \in Seen(h)
  BY <1>3, <1>4
<1> QED
  BY <1>5, <1>6, SeenFacts DEF Sightings

LEMMA BatchesFacts ==
  ASSUME MatchingAssumption, PastIsSound, SnapSound(snap, Now), NEW batch \in Batches
  PROVE  batch \in Seq(Messages(Now))
<1>1. Inbox \subseteq Messages(Now) /\ Further \subseteq Messages(Now)
  BY InboxFacts, FurtherFacts
<1>2. CASE \E o \in Inbox \cup Further : batch = <<o>>
  BY <1>1, <1>2
<1>3. CASE batch \in Inbox \X Further
  <2>1. PICK o \in Inbox, f \in Further : batch = <<o, f>>
    BY <1>3
  <2> QED
    BY <1>1, <2>1
<1>4. CASE batch \in Scanned
  BY <1>4, ScannedFacts
<1> QED
  BY <1>2, <1>3, <1>4 DEF Batches

-----------------------------------------------------------------------------
(* Every step.                                                             *)

\* The policies and the reports under which names, and single running sessions, hold.
NamesHold(reg) == ~Anonymous => Named(reg)
RunningHolds(reg) == ~Anonymous /\ ~Bare /\ ExclusiveProcess => OneRunning(reg)

MatchInv ==
  /\ PastIsSound
  /\ SnapSound(snap, Now) /\ ~snap.failed
  /\ NamesHold(snap.reg) /\ RunningHolds(snap.reg)

LEMMA MatchInit ==
  ASSUME Init
  PROVE  MatchInv
<1>1. Now = 1 /\ past = << [p \in Procs |-> Unborn] >> /\ past[1] = [p \in Procs |-> Unborn]
  BY DEF Init, Now
<1>2. Unborn \in Moments
  BY DEF Unborn, Moments, Names
<1> HIDE DEF Unborn
<1>3. PastIsSound
  BY <1>1, <1>2 DEF PastIsSound
<1>4. /\ snap = [reg |-> NoEntries, ended |-> [p \in {} |-> 0], failed |-> FALSE]
      /\ DOMAIN snap.reg = {} /\ snap.reg = [k \in DOMAIN snap.reg |-> snap.reg[k]]
      /\ DOMAIN snap.ended = {} /\ snap.failed = FALSE
  BY DEF Init, Snapshot, NoEntries
<1>5. SnapSound(snap, Now)
  BY <1>4 DEF SnapSound, Registry
<1>6. Named(snap.reg) /\ OneRunning(snap.reg)
  BY <1>4 DEF Named, Unique, KeysName, Nameless, OneRunning
<1> QED
  BY <1>3, <1>4, <1>5, <1>6 DEF MatchInv, NamesHold, RunningHolds

\* A registry of a moment is one of a later moment.
LEMMA RegistryAges ==
  ASSUME NEW now \in Nat, NEW later \in Nat, now <= later, NEW reg, Registry(reg, now)
  PROVE  Registry(reg, later)
<1> SUFFICES ASSUME NEW k \in DOMAIN reg PROVE SoundEntry(reg[k], later)
  BY DEF Registry
<1>1. SoundEntry(reg[k], now)
  BY DEF Registry
<1>2. reg[k].created \in Nat /\ reg[k].updated \in Nat
  BY <1>1 DEF SoundEntry, WellTyped, Entries
<1> QED
  BY <1>1, <1>2 DEF SoundEntry, WellTyped

LEMMA HappensStep ==
  ASSUME MatchInv, NEW p \in Procs, NEW state \in Moments, Happens(p, state)
  PROVE  MatchInv'
<1> DEFINE m == [q \in Procs |->
                   IF q = p THEN state ELSE [past[Now][q] EXCEPT !.mark = "none", !.of = NoSid]]
<1>1. past' = Append(past, m) /\ snap' = snap
  BY DEF Happens
<1>2. PastIsSound /\ SnapSound(snap, Now)
  BY DEF MatchInv
<1>3. Now \in Nat \ {0} /\ Now \in 1..Now /\ Now = Len(past)
  BY <1>2, PastFacts
<1>4. m \in [Procs -> Moments]
  <2>1. ASSUME NEW q \in Procs PROVE past[Now][q] \in Moments
    BY <1>2, <1>3, PastFacts
  <2> QED
    BY <2>1 DEF Moments, Names
<1> HIDE DEF m
<1>5. past' \in Seq([Procs -> Moments]) /\ past' # << >> /\ Len(past') = Len(past) + 1
  BY <1>1, <1>2, <1>4, AppendProperties DEF PastIsSound
<1>6. PastIsSound' /\ Now' = Now + 1
  BY <1>3, <1>5 DEF PastIsSound, Now
<1>7. SnapSound(snap', Now')
  <2>1. Registry(snap.reg, Now')
    <3>1. Now \in Nat /\ Now' \in Nat /\ Now <= Now' /\ Registry(snap.reg, Now)
      BY <1>2, <1>3, <1>6 DEF SnapSound
    <3> QED
      BY <3>1, RegistryAges
  <2> QED
    BY <1>1, <1>2, <2>1 DEF SnapSound
<1> QED
  BY <1>1, <1>6, <1>7 DEF MatchInv, NamesHold, RunningHolds

LEMMA WorldStep ==
  ASSUME MatchInv, NEW p \in Procs, Opens(p) \/ Starts_(p) \/ Closes(p) \/ Dies(p)
  PROVE  MatchInv' /\ snap' = snap
<1>1. past[Now][p] \in Moments
  BY PastFacts DEF MatchInv
<1>2. NoSid \in Names /\ Sids \subseteq Names
  BY DEF Names
<1>3. PICK state \in Moments : Happens(p, state)
  <2>1. CASE Opens(p)
    <3>1. PICK i \in Sids \cup {NoSid} :
            Happens(p, [run |-> "alive", open |-> i, of |-> i,
                        mark |-> IF i = NoSid THEN "none" ELSE "start"])
      BY <2>1 DEF Opens
    <3> QED
      BY <1>2, <3>1 DEF Moments
  <2>2. CASE Starts_(p)
    BY <1>2, <2>2 DEF Starts_, Unborn, Moments
  <2>3. CASE Closes(p)
    <3>1. [run |-> "alive", open |-> NoSid, mark |-> "end", of |-> past[Now][p].open] \in Moments
      BY <1>1, <1>2 DEF Moments
    <3> QED
      BY <2>3, <3>1 DEF Closes
  <2>4. CASE Dies(p)
    BY <1>2, <2>4 DEF Dies, Unborn, Moments
  <2> QED
    BY <2>1, <2>2, <2>3, <2>4
<1> QED
  BY <1>3, HappensStep DEF Happens

\* A snapshot whose registry has lost entries.
LEMMA DropsStep ==
  ASSUME MatchInv, SnapSound(snap', Now), ~snap'.failed, Drops(snap.reg, snap'.reg), past' = past
  PROVE  MatchInv'
<1>1. Now' = Now /\ (PastIsSound => PastIsSound')
  BY DEF Now, PastIsSound
<1>2. /\ Named(snap.reg) => Named(snap'.reg)
      /\ OneRunning(snap.reg) => OneRunning(snap'.reg)
  BY DropsFacts DEF MatchInv, SnapSound
<1> QED
  BY <1>1, <1>2 DEF MatchInv, NamesHold, RunningHolds

LEMMA ExpiryStep ==
  ASSUME MatchInv, ExpireNow \/ GC
  PROVE  MatchInv' /\ Drops(snap.reg, snap'.reg)
<1>1. SnapSound(snap, Now) /\ ~snap.failed
  BY DEF MatchInv
<1>2. SnapSound(snap', Now) /\ ~snap'.failed /\ Drops(snap.reg, snap'.reg)
  <2>1. CASE ExpireNow
    BY <1>1, <2>1, ExpireFacts DEF ExpireNow
  <2>2. CASE GC
    <3> DEFINE a == DeleteGone(snap, Now, 0)
    <3>1. SnapSound(a, Now) /\ Drops(snap.reg, a.reg) /\ a.failed = snap.failed
      BY <1>1, DeleteFacts
    <3>2. snap' = RemoveProcessOnly(a)
      BY <2>2 DEF GC
    <3> HIDE DEF a
    <3>3. SnapSound(snap', Now) /\ Drops(a.reg, snap'.reg) /\ snap'.failed = a.failed
      BY <3>1, <3>2, RemoveFacts
    <3> QED
      BY <1>1, <3>1, <3>3, DropsTwice
  <2> QED
    BY <2>1, <2>2
<1>3. past' = past
  BY DEF ExpireNow, GC
<1> QED
  BY <1>2, <1>3, DropsStep

\* What is recorded of a batch: nothing if it failed, or what the expiry leaves of it.
LEMMA RecordedFacts ==
  ASSUME MatchInv, NEW batch, NEW y, y = ApplyAll(snap, batch, Now), SnapSound(y, Now),
         snap' = ApplyBatch(snap, batch, Now)
  PROVE  \/ snap' = snap
         \/ /\ SnapSound(snap', Now) /\ ~snap'.failed /\ Drops(y.reg, snap'.reg)
            /\ \A k \in DOMAIN snap'.reg : ~(Gone(snap'.reg[k]) /\ ProcessOnly(snap'.reg[k]))
<1>1. snap' = IF y.failed THEN snap ELSE Expire(y, Now)
  BY DEF ApplyBatch, Recorded
<1>2. CASE y.failed
  BY <1>1, <1>2
<1>3. CASE ~y.failed
  BY <1>1, <1>3, ExpireFacts
<1> QED
  BY <1>2, <1>3

LEMMA RecordStep ==
  ASSUME MatchingAssumption, MatchInv, Record
  PROVE  MatchInv'
<1>1. PICK batch \in Batches : snap' = ApplyBatch(snap, batch, Now)
  BY DEF Record
<1>2. past' = past /\ Now' = Now /\ Now \in Nat /\ PastIsSound /\ SnapSound(snap, Now)
  BY PastFacts DEF Record, Now, MatchInv
<1> DEFINE y == ApplyAll(snap, batch, Now)
<1>3. batch \in Seq(Messages(Now))
  BY <1>2, BatchesFacts
<1>4. Good(snap, y, Now)
  BY <1>2, <1>3, BatchFacts
<1>5. SnapSound(y, Now) /\ NamesHold(y.reg) /\ RunningHolds(y.reg)
  BY <1>4 DEF Good, MatchInv, NamesHold, RunningHolds
<1>6. \/ snap' = snap
      \/ SnapSound(snap', Now) /\ ~snap'.failed /\ Drops(y.reg, snap'.reg)
  BY <1>1, <1>5, RecordedFacts
<1> HIDE DEF y
<1>7. CASE snap' = snap
  BY <1>2, <1>7 DEF MatchInv, PastIsSound, NamesHold, RunningHolds
<1>8. CASE SnapSound(snap', Now) /\ ~snap'.failed /\ Drops(y.reg, snap'.reg)
  <2>1. /\ Named(y.reg) => Named(snap'.reg)
        /\ OneRunning(y.reg) => OneRunning(snap'.reg)
    BY <1>5, <1>8, DropsFacts DEF SnapSound
  <2> QED
    BY <1>2, <1>5, <1>8, <2>1 DEF MatchInv, PastIsSound, NamesHold, RunningHolds
<1> QED
  BY <1>6, <1>7, <1>8

-----------------------------------------------------------------------------
(* Processes that ended.                                                   *)

\* Outside base no session is of a process in D.
Untouched(base, D, reg) == \A l \in DOMAIN reg \ base : reg[l].s.process \notin D

\* A report of an ended process that no session has is dropped, and the further
\* observations are of running processes.
LEMMA QuietStep ==
  ASSUME NEW now \in Nat, NEW o \in Messages(now), NEW x, SnapSound(x, now),
         NEW base, NEW D, D \subseteq DOMAIN x.ended, Untouched(base, D, x.reg),
         Proc(o) \notin D \/ (IsReport(o.e) /\ DOMAIN x.reg \subseteq base)
  PROVE  Untouched(base, D, ApplyOne(x, o, now).reg)
<1> DEFINE y == ApplyOne(x, o, now)
           g == ReduceOne(x.reg, o, now).reg
<1>1. y.reg = x.reg \/ (~FromEnded(x, o) /\ y.reg = g)
  BY ApplyOneFacts
<1>2. Moves(x.reg, o, g)
  BY StepFacts DEF SnapSound
<1>3. NoProc \notin D
  BY ProcAssumption DEF SnapSound
<1> HIDE DEF g, y
<1>4. ASSUME ~FromEnded(x, o), NEW l \in DOMAIN g \ base PROVE g[l].s.process \notin D
  <2>1. CASE Proc(o) \notin D
    BY <1>2, <1>3, <1>4, <2>1 DEF Moves, Untouched
  <2>2. CASE IsReport(o.e) /\ DOMAIN x.reg \subseteq base
    <3>1. FindMatching(x.reg, o) = {} /\ g[l].s.process \in {NoProc, Proc(o)}
      BY <1>2, <1>4, <2>2 DEF Moves
    <3>2. Proc(o) \notin DOMAIN x.ended
      BY <1>4, <2>2, <3>1 DEF FromEnded
    <3> QED
      BY <1>3, <3>1, <3>2
  <2> QED
    BY <2>1, <2>2
<1>5. Untouched(base, D, y.reg)
  BY <1>1, <1>4 DEF Untouched
<1> QED
  BY <1>5 DEF y

LEMMA OneAtMost ==
  ASSUME NEW x, NEW o, NEW now
  PROVE  ApplyAll(x, <<o>>, now) = ApplyOne(x, o, now)
<1>1. Len(<<o>>) = 1 /\ <<o>>[1] = o
  OBVIOUS
<1>2. PICK acc : /\ acc[0] = x /\ ApplyAll(x, <<o>>, now) = acc[Len(<<o>>)]
                 /\ \A i \in 1..Len(<<o>>) : acc[i] = ApplyOne(acc[i - 1], <<o>>[i], now)
  BY <1>1, ApplyAllIsLoop
<1>3. 1 \in 1..Len(<<o>>) /\ 1 - 1 = 0
  BY <1>1
<1> QED
  BY <1>1, <1>2, <1>3

LEMMA TwoAtMost ==
  ASSUME NEW x, NEW o, NEW f, NEW now
  PROVE  ApplyAll(x, <<o, f>>, now) = ApplyOne(ApplyOne(x, o, now), f, now)
<1> SUFFICES ASSUME NEW b, b = <<o, f>>
             PROVE  ApplyAll(x, b, now) = ApplyOne(ApplyOne(x, o, now), f, now)
  OBVIOUS
<1>1. Len(b) = 2 /\ b[1] = o /\ b[2] = f
  OBVIOUS
<1>2. PICK acc : /\ acc[0] = x /\ ApplyAll(x, b, now) = acc[Len(b)]
                 /\ \A i \in 1..Len(b) : acc[i] = ApplyOne(acc[i - 1], b[i], now)
  BY <1>1, ApplyAllIsLoop
<1>3. 1 \in 1..Len(b) /\ 2 \in 1..Len(b) /\ 1 - 1 = 0 /\ 2 - 1 = 1
  BY <1>1
<1> QED
  BY <1>1, <1>2, <1>3

LEMMA EndedStep ==
  ASSUME MatchingAssumption, MatchInv, Record
  PROVE  EndedStays
<1>1. PICK batch \in Batches : snap' = ApplyBatch(snap, batch, Now)
  BY DEF Record
<1>2. Now \in Nat /\ PastIsSound /\ SnapSound(snap, Now)
  BY PastFacts DEF MatchInv
<1> DEFINE y == ApplyAll(snap, batch, Now)
           base == DOMAIN snap.reg
           D == {p \in DOMAIN snap.ended : ~Runs(p, Now)}
           E == {p \in Procs : ~Runs(p, Now)}
<1>3. batch \in Seq(Messages(Now))
  BY <1>2, BatchesFacts
<1>4. D \subseteq E /\ D \subseteq DOMAIN snap.ended
  BY <1>2 DEF SnapSound
<1>5. Inbox \subseteq Messages(Now) /\ Further \subseteq Messages(Now)
  BY <1>2, InboxFacts, FurtherFacts
<1>6. SnapSound(y, Now)
  BY <1>2, <1>3, BatchFacts DEF Good
<1>7. Untouched(base, D, snap.reg)
  BY DEF Untouched
<1>8. \A o \in Further : Proc(o) \notin D
  BY <1>2, FurtherFacts, ProcAssumption DEF SnapSound
<1>9. \A o \in Inbox : IsReport(o.e)
  BY <1>2, InboxFacts
<1> HIDE DEF base, D, E
<1>10. ASSUME NEW l \in DOMAIN y.reg \ base, y.reg[l].s.process \in D
       PROVE  Gone(y.reg[l]) /\ ProcessOnly(y.reg[l])
  <2>1. CASE batch \in Scanned
    <3>1. Sightings(batch, E)
      BY <1>2, <2>1, ScannedFacts DEF E
    <3>2. Settled(base, E, snap.reg)
      BY DEF Settled, base
    <3>3. Settled(base, E, y.reg)
      BY <1>2, <1>3, <3>1, <3>2, BatchFacts
    <3> HIDE DEF y
    <3> QED
      BY <1>4, <1>10, <3>3 DEF Settled
  <2>2. ASSUME NEW o \in Inbox \cup Further
        PROVE  Untouched(base, D, ApplyOne(snap, o, Now).reg)
    <3>1. o \in Messages(Now)
      BY <1>5
    <3>2. Proc(o) \notin D \/ (IsReport(o.e) /\ DOMAIN snap.reg \subseteq base)
      BY <1>8, <1>9 DEF base
    <3> QED
      BY <1>2, <1>4, <1>7, <3>1, <3>2, QuietStep
  <2>3. CASE batch \notin Scanned
    <3>1. Untouched(base, D, y.reg)
      <4>1. CASE \E o \in Inbox \cup Further : batch = <<o>>
        <5>1. PICK o \in Inbox \cup Further : batch = <<o>>
          BY <4>1
        <5> QED
          BY <2>2, <5>1, OneAtMost
      <4>2. CASE batch \in Inbox \X Further
        <5>1. PICK o \in Inbox, f \in Further : batch = <<o, f>>
          BY <4>2
        <5> DEFINE z == ApplyOne(snap, o, Now)
        <5>2. o \in Messages(Now) /\ f \in Messages(Now)
          BY <1>5
        <5>3. SnapSound(z, Now) /\ z.ended = snap.ended
          BY <1>2, <5>2, ApplyOneFacts
        <5>4. Untouched(base, D, z.reg)
          BY <2>2
        <5>5. y = ApplyOne(z, f, Now)
          BY <5>1, TwoAtMost
        <5> HIDE DEF z, y
        <5>6. Untouched(base, D, ApplyOne(z, f, Now).reg)
          BY <1>2, <1>4, <1>8, <5>2, <5>3, <5>4, QuietStep
        <5> QED
          BY <5>5, <5>6
      <4> QED
        BY <2>3, <4>1, <4>2 DEF Batches
    <3> HIDE DEF y
    <3> QED
      BY <1>10, <3>1 DEF Untouched
  <2> QED
    BY <2>1, <2>3
<1>11. \/ snap' = snap
       \/ /\ Drops(y.reg, snap'.reg)
          /\ \A k \in DOMAIN snap'.reg : ~(Gone(snap'.reg[k]) /\ ProcessOnly(snap'.reg[k]))
  BY <1>1, <1>6, RecordedFacts
<1> HIDE DEF y
<1>12. ASSUME NEW p \in DOMAIN snap.ended, ~Runs(p, Now), NEW k \in DOMAIN snap'.reg,
              snap'.reg[k].s.process = p
       PROVE  k \in DOMAIN snap.reg
  <2>1. p \in D
    BY <1>12 DEF D
  <2>2. CASE snap' = snap
    BY <1>12, <2>2
  <2>3. CASE snap' # snap
    <3>1. k \in DOMAIN y.reg /\ snap'.reg[k] = y.reg[k]
      BY <1>11, <1>12, <2>3 DEF Drops
    <3> QED
      BY <1>10, <1>11, <1>12, <2>1, <2>3, <3>1 DEF base
  <2> QED
    BY <2>2, <2>3
<1> QED
  BY <1>12 DEF EndedStays, BoundTo

-----------------------------------------------------------------------------
(* The theorems.                                                           *)

LEMMA MatchStep ==
  ASSUME MatchingAssumption, MatchInv, [Next]_vars
  PROVE  MatchInv' /\ EndedStays
<1>1. CASE UNCHANGED vars
  <2>1. snap' = snap /\ past' = past
    BY <1>1 DEF vars
  <2> QED
    BY <2>1 DEF MatchInv, PastIsSound, Now, NamesHold, RunningHolds, EndedStays, BoundTo
<1>2. ASSUME NEW p \in Procs, Opens(p) \/ Starts_(p) \/ Closes(p) \/ Dies(p)
      PROVE  MatchInv' /\ EndedStays
  BY <1>2, WorldStep DEF EndedStays, BoundTo
<1>3. CASE Record
  BY <1>3, RecordStep, EndedStep
<1>4. CASE ExpireNow \/ GC
  BY <1>4, ExpiryStep DEF EndedStays, BoundTo, Drops
<1> QED
  BY <1>1, <1>2, <1>3, <1>4 DEF Next

LEMMA MatchInvariance ==
  ASSUME MatchingAssumption
  PROVE  Spec => []MatchInv
<1>1. Init => MatchInv
  BY MatchInit
<1>2. MatchInv /\ [Next]_vars => MatchInv'
  BY MatchStep
<1> QED
  BY <1>1, <1>2, PTL DEF Spec

\* The registry holds sessions with keys of a known identity or process, each of them sound,
\* and remembers only processes that were (Session, SessionKey, endedProcesses).
THEOREM RegistryIsTyped ==
  ASSUME MatchingAssumption
  PROVE  Spec => []TypeOK
<1>1. MatchInv => TypeOK
  <2> SUFFICES ASSUME MatchInv PROVE TypeOK
    OBVIOUS
  <2>1. Registry(snap.reg, Now) /\ DOMAIN snap.ended \subseteq Procs /\ ~snap.failed
    BY DEF MatchInv, SnapSound
  <2>2. ASSUME NEW k \in DOMAIN snap.reg
        PROVE  /\ snap.reg[k].sid \in Sids \cup {NoSid}
               /\ snap.reg[k].s.process \in Procs \cup {NoProc}
               /\ snap.reg[k].s.presence \in {"unknown", "live", "gone"}
               /\ Exists(snap.reg[k].s)
    BY <2>1 DEF Registry, SoundEntry, WellTyped, Entries, Sessions, Names, Process
  <2> QED
    BY <2>1, <2>2 DEF TypeOK, Registry
<1> QED
  BY <1>1, MatchInvariance, PTL

\* Where every report names its session, the registry never has two live sessions of one
\* native session (reconcileIdentityProcessSessions: "so the registry never retains two
\* live sessions for one session_id").
THEOREM IdentitiesAreUnique ==
  ASSUME MatchingAssumption, ~Anonymous
  PROVE  Spec => []OneLivePerIdentity
<1>1. MatchInv => OneLivePerIdentity
  BY DEF MatchInv, NamesHold, Named, Unique, OneLivePerIdentity
<1> QED
  BY <1>1, MatchInvariance, PTL

\* Where, besides, every report names its process, a process that can have only one session
\* open has one live session at most: nativeSessionReplacement, the merge and the resume
\* leave no other one behind.
THEOREM ProcessesAreExclusive ==
  ASSUME MatchingAssumption, ~Anonymous, ~Bare
  PROVE  Spec => []OneLivePerProcess
<1>1. MatchInv => OneLivePerProcess
  <2> SUFFICES ASSUME MatchInv, ExclusiveProcess, NEW k \in DOMAIN snap.reg,
                      NEW l \in DOMAIN snap.reg, Live(k), Live(l), k[1] = l[1],
                      snap.reg[k].s.process = snap.reg[l].s.process,
                      snap.reg[k].s.process # NoProc, k # l
               PROVE  FALSE
    BY DEF OneLivePerProcess
  <2>1. OneRunning(snap.reg) /\ Registry(snap.reg, Now)
    BY DEF MatchInv, RunningHolds, SnapSound
  <2>2. Terminal(snap.reg[k].s) \/ Terminal(snap.reg[l].s)
    BY <2>1 DEF OneRunning
  <2>3. Gone(snap.reg[k]) \/ Gone(snap.reg[l])
    BY <2>1, <2>2, GoneFacts DEF Registry
  <2> QED
    BY <2>3 DEF Gone, Live
<1> QED
  BY <1>1, MatchInvariance, PTL

\* While the registry remembers that a process ended, nothing late makes a new session of
\* it (endedProcessReport, removeGoneProcessOnlySessions): not a report, which is dropped,
\* and not a scan, whose tombstone leaves with the same batch.
THEOREM EndedProcessesStayEnded ==
  ASSUME MatchingAssumption
  PROVE  Spec => [][EndedStays]_vars
<1>1. MatchInv /\ [Next]_vars => EndedStays
  BY MatchStep
<1> QED
  BY <1>1, MatchInvariance, PTL DEF Spec
=============================================================================
