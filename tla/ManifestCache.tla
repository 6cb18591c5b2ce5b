---------------------------- MODULE ManifestCache ----------------------------
(***************************************************************************)
(* internal/agentstate/manifest.go: the rules of a harness are loaded from *)
(* a file of the user or from the ones built in, and kept in a process     *)
(* wide cache under a fingerprint of the file. Callers stat the file, read *)
(* it and store the outcome in separate steps while the user edits it.     *)
(***************************************************************************)
EXTENDS Naturals, FiniteSets

CONSTANTS
  Loaders,     (* concurrent callers of Load                               *)
  Bundled,     (* SupportsScreen: rules for the harness are built in       *)
  MaxEdits     (* bound: edits of the file                                 *)

CacheAssumption == Bundled \in BOOLEAN /\ MaxEdits \in Nat

VARIABLES
  file,     (* what the override path holds: kind and modification         *)
  cache,    (* manifestCache: fingerprint and outcome                      *)
  load,     (* the running loads                                           *)
  edits

vars == <<file, cache, load, edits>>

Missing  == [kind |-> "missing", mod |-> 0]
None     == <<"none", 0>>
NoEntry  == [fp |-> None, outcome |-> None]
IdleLoad == [step |-> "idle", fp |-> None, outcome |-> None, quiet |-> FALSE, want |-> None]

Init ==
  /\ file = Missing /\ cache = NoEntry /\ edits = 0
  /\ load = [l \in Loaders |-> IdleLoad]

\* manifestFileFingerprint: time, size and mode of the file.
Fingerprint(f) ==
  CASE f.kind = "missing" -> <<"missing", 0>>
    [] f.kind = "no access" -> <<"error", 0>>
    [] OTHER -> <<"file", f.mod>>

\* readManifestFile and ParseManifest: what reading the file gives.
ReadManifestFile(f) ==
  CASE f.kind = "missing"   -> "not exist"
    [] f.kind = "no access" -> "read error"
    [] f.kind = "invalid"   -> "parse error"
    [] OTHER                -> "rules"

\* loadUncached: the user's rules, else the ones built in, with a warning when the
\* user's are unusable; without any it is an error.
LoadUncached(f) ==
  CASE ReadManifestFile(f) = "rules" -> <<"local", f.mod>>
    [] ReadManifestFile(f) = "not exist" /\ Bundled -> <<"bundled", 0>>
    [] ReadManifestFile(f) # "not exist" /\ Bundled -> <<"bundled with warning", 0>>
    [] OTHER -> <<"error", 0>>

\* Loader.Load: the fingerprint first; a cached outcome under it is the answer.
Stat(l) ==
  /\ load[l].step \in {"idle", "done"}
  /\ LET fp  == Fingerprint(file)
         hit == cache.fp = fp
     IN load' = [load EXCEPT ![l] = [step |-> IF hit THEN "done" ELSE "read", fp |-> fp,
                                     outcome |-> IF hit THEN cache.outcome ELSE None,
                                     quiet |-> TRUE, want |-> LoadUncached(file)]]
  /\ UNCHANGED <<file, cache, edits>>

Read(l) ==
  /\ load[l].step = "read"
  /\ load' = [load EXCEPT ![l].step = "store", ![l].outcome = LoadUncached(file)]
  /\ UNCHANGED <<file, cache, edits>>

\* Mutant: the outcome is stored under the fingerprint of the file as it is now.
StoredUnderNow(l) == [fp |-> Fingerprint(file), outcome |-> load[l].outcome]

\* The outcome is stored under the fingerprint from before it was read.
StoredUnder(l) == [fp |-> load[l].fp, outcome |-> load[l].outcome]

Store(l) ==
  /\ load[l].step = "store"
  /\ cache' = StoredUnder(l)
  /\ load' = [load EXCEPT ![l].step = "done"]
  /\ UNCHANGED <<file, edits>>

\* LoadExplicitManifest reads the file as it is and caches nothing.
LoadExplicitManifest(f) ==
  IF ReadManifestFile(f) = "rules" THEN <<"local", f.mod>> ELSE <<"error", 0>>

\* The user writes, removes or locks the file; every write has a new time. A missing
\* or locked file has no time: its fingerprint comes back with it, and a file that
\* appears between a stat and the read would be kept under it. That race is left out.
Edit(kind) ==
  /\ edits < MaxEdits /\ edits' = edits + 1
  /\ kind # file.kind \/ kind \in {"valid", "invalid"}
  /\ file.kind \in {"missing", "no access"} => \A l \in Loaders : load[l].step # "read"
  /\ file' = IF kind = "missing" THEN Missing ELSE [kind |-> kind, mod |-> edits + 1]
  /\ load' = [l \in Loaders |-> IF load[l].step = "done" THEN IdleLoad ELSE [load[l] EXCEPT !.quiet = FALSE]]
  /\ UNCHANGED cache

Next ==
  \/ \E l \in Loaders : Stat(l) \/ Read(l) \/ Store(l)
  \/ \E kind \in {"valid", "invalid", "no access", "missing"} : Edit(kind)

Spec == Init /\ [][Next]_vars

-----------------------------------------------------------------------------

Fingerprints == {None, <<"missing", 0>>, <<"error", 0>>} \cup {<<"file", n>> : n \in 1 .. MaxEdits}

TypeOK ==
  /\ \A l \in Loaders : /\ load[l].step \in {"idle", "read", "store", "done"}
                         /\ load[l].fp \in Fingerprints
                         /\ load[l].step = "done" => load[l].outcome # None
  /\ cache.fp \in Fingerprints /\ (cache.fp # None => cache.outcome # None)

\* A load during which the file is left alone gives the rules the file holds now,
\* whatever was loaded while it was being edited and whoever stored last.
QuietLoadIsCurrent ==
  \A l \in Loaders : (load[l].step = "done" /\ load[l].quiet) => load[l].outcome = load[l].want

\* A harness with rules built in is always readable: no edit of the user's file, at
\* whatever moment, makes a load fail or forget the reason.
BuiltInNeverFails ==
  Bundled => \A l \in Loaders : load[l].outcome # <<"error", 0>>

\* An explicit manifest and a quiet ambient load agree on a file that is usable.
ExplicitAgrees ==
  \A l \in Loaders : (load[l].step = "done" /\ load[l].quiet /\ file.kind = "valid")
    => load[l].outcome = LoadExplicitManifest(file)
=============================================================================
