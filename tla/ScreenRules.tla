----------------------------- MODULE ScreenRules -----------------------------
(***************************************************************************)
(* internal/agentstate: the rules that tell from a terminal screen what an *)
(* agent does. A manifest is validated and compiled, a screen is reduced   *)
(* to its last lines, the rules are tried by priority (Evaluate) or all of *)
(* them are explained (Inspect, used by pkg/detection).                    *)
(*                                                                         *)
(* A line is the set of words that occur in it, a literal or a regular     *)
(* expression is a word; "" occurs everywhere. "GO" is "go" in capitals.   *)
(* Matches that span two lines, and escape sequences, are left out.        *)
(***************************************************************************)
EXTENDS Naturals, Sequences, SequencesExt, FiniteSets, TLC

CONSTANTS
  MaxSnapshotLines,  (* maxSnapshotLines                                   *)
  MaxLines           (* bound: lines of the raw screen                     *)

RulesAssumption == {MaxSnapshotLines, MaxLines} \subseteq Nat \ {0}

VARIABLES
  manifest,   (* the rules as written                                      *)
  raw,        (* the captured screen: lines and title                      *)
  phase,
  loaded,     (* the manifest was accepted                                 *)
  snapshot,   (* the normalised screen                                     *)
  decision,   (* Evaluate's                                                *)
  inspection  (* Inspect's                                                 *)

vars == <<manifest, raw, phase, loaded, snapshot, decision, inspection>>

Groups         == {"all", "any", "none", "regex_all", "regex_any", "regex_none",
                   "title_any", "title_regex_any"}
PositiveGroups == Groups \ {"none", "regex_none"}
Words          == {"go", "GO", "ask", ""}

LowerWord(w) == IF w = "GO" THEN "go" ELSE w
ToLower(text) == {LowerWord(w) : w \in text}
Region(side, n) == [side |-> side, n |-> n]
Rule(id, state, priority, region, caseSensitive, groups) ==
  [id |-> id, state |-> state, priority |-> priority, region |-> region,
   caseSensitive |-> caseSensitive, groups |-> groups]
Group(name, words) == [g \in Groups |-> IF g = name THEN words ELSE {}]

-----------------------------------------------------------------------------
(* Manifests.                                                              *)

\* Rule.hasPositiveMatcher.
HasPositiveMatcher(rule) == \E g \in PositiveGroups : rule.groups[g] # {}

\* Rule.validateMatchers: no empty literal or expression.
ValidMatchers(rule) == \A g \in Groups : "" \notin rule.groups[g]

\* selectRegion's syntax: a side and a positive number of lines.
ValidRegion(region) == region.side = "all" \/ (region.side \in {"top", "bottom"} /\ region.n > 0)

\* Rule.validate.
ValidRule(rule) ==
  /\ rule.state \in {"running", "waiting"}
  /\ ValidRegion(rule.region) /\ HasPositiveMatcher(rule) /\ ValidMatchers(rule)

\* Manifest.validate: some rules, and no two with one id.
ValidManifest(rules) ==
  /\ rules # <<>>
  /\ \A i, j \in 1 .. Len(rules) : rules[i].id = rules[j].id => i = j
  /\ \A i \in 1 .. Len(rules) : ValidRule(rules[i])

\* sortedRules: by falling priority, in the order of the manifest.
SortedRules(rules) ==
  SelectSeq(rules, LAMBDA r : r.priority = 2) \o SelectSeq(rules, LAMBDA r : r.priority = 1)

-----------------------------------------------------------------------------
(* Screens.                                                                *)

\* BoundBottomLines: one empty last line goes, then the last lines stay.
BoundBottomLines(lines, limit) ==
  LET trimmed == IF lines # <<>> /\ Last(lines) = {} THEN Front(lines) ELSE lines
  IN IF Len(trimmed) > limit THEN SubSeq(trimmed, Len(trimmed) - limit + 1, Len(trimmed)) ELSE trimmed

NormalizeSnapshot(screen) ==
  [lines |-> BoundBottomLines(screen.lines, MaxSnapshotLines), title |-> screen.title]

WithoutBlankTail(lines) ==
  LET written == {i \in 1 .. Len(lines) : lines[i] # {}}
      last    == CHOOSE i \in written : \A j \in written : j <= i
  IN IF written = {} THEN <<>> ELSE SubSeq(lines, 1, last)

\* selectRegion on lines.
SelectRegion(region, lines) ==
  LET bottom == WithoutBlankTail(lines)
      Least(a, b) == IF a < b THEN a ELSE b
  IN CASE region.side = "top" -> SubSeq(lines, 1, Least(region.n, Len(lines)))
       [] region.side = "bottom" ->
            SubSeq(bottom, Len(bottom) - Least(region.n, Len(bottom)) + 1, Len(bottom))
       [] OTHER -> lines

-----------------------------------------------------------------------------
(* Matching.                                                               *)

NormalizedLiteral(w, caseSensitive) == IF caseSensitive THEN w ELSE LowerWord(w)

Occurs(text, w) == w = "" \/ w \in text

ContainsAny(text, words, cs) == \E w \in words : Occurs(text, NormalizedLiteral(w, cs))
ContainsAll(text, words, cs) == \A w \in words : Occurs(text, NormalizedLiteral(w, cs))

\* ruleRegexExpression, matchesAllRegex and matchesAnyRegex.
RuleRegexExpression(w, cs) == IF cs THEN w ELSE LowerWord(w)
MatchesAllRegex(text, es, cs) == \A e \in es : Occurs(text, RuleRegexExpression(e, cs))
MatchesAnyRegex(text, es, cs) == \E e \in es : Occurs(text, RuleRegexExpression(e, cs))

\* Rule.matchesText.
MatchesText(rule, text) ==
  LET g == rule.groups  cs == rule.caseSensitive
  IN /\ ContainsAll(text, g["all"], cs)
     /\ g["any"] # {} => ContainsAny(text, g["any"], cs)
     /\ ~ContainsAny(text, g["none"], cs) /\ MatchesAllRegex(text, g["regex_all"], cs)
     /\ g["regex_any"] # {} => MatchesAnyRegex(text, g["regex_any"], cs)
     /\ ~MatchesAnyRegex(text, g["regex_none"], cs)

\* Rule.matchesTitle.
MatchesTitle(rule, title) ==
  LET g == rule.groups  cs == rule.caseSensitive
  IN /\ g["title_any"] # {} => ContainsAny(title, g["title_any"], cs)
     /\ g["title_regex_any"] # {} => MatchesAnyRegex(title, g["title_regex_any"], cs)

\* The text of a rule that does not look at case is in small letters.
FoldCase(rule, text) == IF rule.caseSensitive THEN text ELSE ToLower(text)

TextOf(rule, snap) ==
  FoldCase(rule, UNION {SelectRegion(rule.region, snap.lines)[i] :
                          i \in 1 .. Len(SelectRegion(rule.region, snap.lines))})

\* Rule.matches.
Matches(rule, snap) ==
  /\ MatchesText(rule, TextOf(rule, snap))
  /\ MatchesTitle(rule, FoldCase(rule, snap.title))

\* Manifest.initialDecision.
InitialDecision == [activity |-> "unknown", rule |-> 0, evidence |-> <<>>]

\* Manifest.Evaluate: the first rule that matches; the evidence ends with it.
Evaluate(rules, snap) ==
  LET sorted == SortedRules(rules)
      hits   == {i \in 1 .. Len(sorted) : Matches(sorted[i], snap)}
      first  == CHOOSE i \in hits : \A j \in hits : i <= j
      tried  == IF hits = {} THEN Len(sorted) ELSE first
  IN [activity |-> IF hits = {} THEN "unknown" ELSE sorted[first].state,
      rule |-> IF hits = {} THEN 0 ELSE sorted[first].id,
      evidence |-> [i \in 1 .. tried |-> <<sorted[i].id, i \in hits>>]]

-----------------------------------------------------------------------------
(* Explaining.                                                             *)

\* One matcher of an inspection: its name and whether it passed.
Inspected(name, passed) == [name |-> name, passed |-> passed]

\* inspectAllMatcher, inspectAnyMatcher and inspectNoneMatcher.
InspectAll(rule, text)  == Inspected("all", ContainsAll(text, rule.groups["all"], rule.caseSensitive))
InspectAny(rule, text)  == Inspected("any", ContainsAny(text, rule.groups["any"], rule.caseSensitive))
InspectNone(rule, text) == Inspected("none", ~ContainsAny(text, rule.groups["none"], rule.caseSensitive))

\* inspectRegexAllMatcher, inspectRegexAnyMatcher and inspectRegexNoneMatcher.
InspectRegexAll(rule, text) ==
  Inspected("regex_all", MatchesAllRegex(text, rule.groups["regex_all"], rule.caseSensitive))
InspectRegexAny(rule, text) ==
  Inspected("regex_any", MatchesAnyRegex(text, rule.groups["regex_any"], rule.caseSensitive))

InspectRegexNone(rule, text) ==
  Inspected("regex_none", ~MatchesAnyRegex(text, rule.groups["regex_none"], rule.caseSensitive))

\* inspectTitleAnyMatcher and inspectTitleRegexAnyMatcher.
InspectTitleAny(rule, title) ==
  Inspected("title_any", ContainsAny(title, rule.groups["title_any"], rule.caseSensitive))
InspectTitleRegexAny(rule, title) ==
  Inspected("title_regex_any", MatchesAnyRegex(title, rule.groups["title_regex_any"], rule.caseSensitive))

\* inspectTextMatchers and inspectTitleMatchers: the matchers the rule configures.
Configured(rule, matchers) == SelectSeq(matchers, LAMBDA x : rule.groups[x.name] # {})
InspectTextMatchers(rule, text) ==
  Configured(rule, <<InspectAll(rule, text), InspectAny(rule, text), InspectNone(rule, text),
                     InspectRegexAll(rule, text), InspectRegexAny(rule, text),
                     InspectRegexNone(rule, text)>>)
InspectTitleMatchers(rule, title) ==
  Configured(rule, <<InspectTitleAny(rule, title), InspectTitleRegexAny(rule, title)>>)

\* inspectRegionMatcher: a region other than all is one of the matchers.
InspectRegionMatcher(rule) ==
  IF rule.region.side = "all" THEN <<>> ELSE <<Inspected("region", ValidRegion(rule.region))>>

\* Rule.inspect.
InspectRule(rule, snap) ==
  LET matchers == InspectTextMatchers(rule, TextOf(rule, snap))
                    \o InspectTitleMatchers(rule, FoldCase(rule, snap.title))
  IN [matchers |-> InspectRegionMatcher(rule) \o matchers,
      matched |-> \A i \in 1 .. Len(matchers) : matchers[i].passed]

\* Manifest.Inspect: every rule is a candidate; the ones that match after the winner
\* are shadowed by it, by priority or by their place.
Inspect(rules, snap) ==
  LET sorted == SortedRules(rules)
      hits   == {i \in 1 .. Len(sorted) : InspectRule(sorted[i], snap).matched}
      first  == CHOOSE i \in hits : \A j \in hits : i <= j
      Why(i) == IF i \notin hits THEN "failed"
                ELSE IF i = first THEN "winner"
                ELSE IF sorted[i].priority = sorted[first].priority THEN "earlier in manifest"
                ELSE "higher priority"
  IN [activity |-> IF hits = {} THEN "unknown" ELSE sorted[first].state,
      rule |-> IF hits = {} THEN 0 ELSE sorted[first].id,
      evidence |-> [i \in 1 .. IF hits = {} THEN Len(sorted) ELSE first |-> <<sorted[i].id, i \in hits>>],
      candidates |-> [i \in 1 .. Len(sorted) |->
                        [id |-> sorted[i].id, why |-> Why(i),
                         matchers |-> InspectRule(sorted[i], snap).matchers]]]

-----------------------------------------------------------------------------
(* The inputs and one evaluation.                                          *)

Pairs(a, x, b, y) == [g \in Groups |-> IF g = a THEN {x} ELSE IF g = b THEN {y} ELSE {}]

\* A rule of one or two matchers; another one that the first may shadow.
FirstRules ==
  {Rule(1, "running", priority, region, cs, Pairs(a, x, b, "ask")) :
     priority \in {1, 2}, cs \in BOOLEAN, a \in Groups, x \in {"go", "GO", ""}, b \in Groups,
     region \in {Region("all", 0), Region("top", 1), Region("bottom", 1), Region("bottom", 0)}}

SecondRules ==
  {Rule(2, "waiting", 1, Region("bottom", 1), FALSE, Group("any", {"ask"})),
   Rule(2, "waiting", 2, Region("all", 0), TRUE, Group("title_any", {"go"})),
   Rule(2, "unknown", 1, Region("all", 0), FALSE, Group("all", {"go"})),
   Rule(1, "waiting", 1, Region("all", 0), FALSE, Group("all", {"go"}))}

Lines == {{}, {"GO"}, {"ask"}}

Init ==
  /\ manifest \in {<<a, b>> : a \in FirstRules, b \in SecondRules}
  /\ raw = [lines |-> <<>>, title |-> {}]
  /\ phase = "parse" /\ loaded = FALSE
  /\ snapshot = NormalizeSnapshot(raw)
  /\ decision = InitialDecision /\ inspection = InitialDecision

\* ParseManifest.
ParseManifest ==
  /\ phase = "parse"
  /\ loaded' = ValidManifest(manifest)
  /\ phase' = IF ValidManifest(manifest) THEN "look" ELSE "refused"
  /\ UNCHANGED <<manifest, raw, snapshot, decision, inspection>>

\* detection.Inspect and captureScreenState on one screen.
Look(lines, title) ==
  /\ phase = "look" /\ phase' = "done"
  /\ raw' = [lines |-> lines, title |-> title]
  /\ snapshot' = NormalizeSnapshot(raw')
  /\ decision' = Evaluate(manifest, snapshot')
  /\ inspection' = Inspect(manifest, snapshot')
  /\ UNCHANGED <<manifest, loaded>>

Next ==
  \/ ParseManifest
  \/ \E n \in 0 .. MaxLines : \E lines \in [1 .. n -> Lines], title \in {{}, {"GO"}} : Look(lines, title)

Spec == Init /\ [][Next]_vars

-----------------------------------------------------------------------------

TypeOK ==
  /\ Len(snapshot.lines) <= MaxSnapshotLines
  /\ decision.activity \in {"unknown", "running", "waiting"}
  /\ Len(decision.evidence) <= Len(manifest)
  /\ phase = "done" => loaded

\* The decision is that of the matching rule with the highest priority, and among
\* equals that of the one written first, whatever order the rules are tried in.
BestRuleDecides ==
  phase = "done" =>
    LET hits == {i \in 1 .. Len(manifest) : Matches(manifest[i], snapshot)}
        Beats(i, j) == manifest[i].priority > manifest[j].priority
                         \/ (manifest[i].priority = manifest[j].priority /\ i <= j)
    IN IF hits = {} THEN decision.activity = "unknown"
       ELSE \E i \in hits : /\ decision.rule = manifest[i].id /\ decision.activity = manifest[i].state
                            /\ \A j \in hits : Beats(i, j)

\* What `inspect` explains is what the tracker decides: the same rule for the same
\* evidence, and every rule that lost has a matcher that failed.
InspectionExplains ==
  phase = "done" =>
    /\ inspection.activity = decision.activity /\ inspection.rule = decision.rule
    /\ inspection.evidence = decision.evidence
    /\ \A i \in 1 .. Len(inspection.candidates) :
         LET c == inspection.candidates[i]
         IN (c.why = "failed") <=> \E k \in 1 .. Len(c.matchers) : ~c.matchers[k].passed

\* Empty lines below the text, which terminals add and drop, do not change a decision
\* as long as the screen is not longer than what is looked at.
BlankTailIsIgnored ==
  (phase = "done" /\ Len(raw.lines) + 2 <= MaxSnapshotLines) =>
    Evaluate(manifest, NormalizeSnapshot([raw EXCEPT !.lines = @ \o <<{}, {}>>])).rule = decision.rule

\* A rule that does not look at case decides the same in small letters.
CaseIsIgnored ==
  (phase = "done" /\ \A i \in 1 .. Len(manifest) : ~manifest[i].caseSensitive) =>
    LET small == [lines |-> [i \in 1 .. Len(raw.lines) |-> ToLower(raw.lines[i])],
                  title |-> ToLower(raw.title)]
    IN Evaluate(manifest, NormalizeSnapshot(small)) = decision

\* An empty screen tells nothing: no accepted manifest decides anything about it.
NothingComesOfNothing ==
  (phase = "done" /\ snapshot.title = {} /\ \A i \in 1 .. Len(snapshot.lines) : snapshot.lines[i] = {})
    => decision.activity = "unknown"
=============================================================================
