---------------------------- MODULE HistorySearch ----------------------------
(***************************************************************************)
(* One search of the conversation histories (src/pkg/history): which       *)
(* conversations it reports, from the moment the sources are known to the  *)
(* final result.  A search first goes through the local index and falls    *)
(* back to a direct scan by several workers when the index fails; a        *)
(* streamed search reports matches as they are found; a search of tool     *)
(* text selects transcripts by metadata and then scans them directly.      *)
(*                                                                         *)
(* A group is a transcript and the child transcripts of its sub-agents.    *)
(* Text is reduced to what a query can tell apart: the terms a message     *)
(* part contains, whether it contains excluded text, and its role.  That   *)
(* the index has the current content of a transcript is the subject of     *)
(* HistoryIndex; here the index has the content, stored before the search  *)
(* or by it.                                                               *)
(***************************************************************************)
EXTENDS Integers, FiniteSets, SequencesExt, TLC

CONSTANTS
    Terms,      \* the terms of the query, all of which must be found
    Excerpts,   \* Query.Excerpts: excerpts kept per match
    Queries,    \* the queries a run asks: [mode, tools, stream, limit, sort, since]
    Histories,  \* the sequences of groups that may be on disk
    Visits,     \* the sequences of group numbers the sources walk to
    Workers     \* workers of a direct scan

VARIABLES
    query,      \* the query
    groups,     \* the groups on disk
    stored,     \* paths the index had when the search began
    visits,     \* group numbers in the order the sources walk to them
    todo,       \* group numbers still to be visited, in discovery order
    phase,      \* "start", "indexed", "tools", "reading", "direct", "done", "failed"
    queue,      \* worker -> matches it found and has not yet handed to keep
    plans,      \* path -> plan of the parts matched in the index
    excluded,   \* paths with excluded text in the index
    items,      \* the matches retained so far
    matched,    \* matches accepted so far
    truncated,  \* Result.Truncated
    streamed,   \* what the caller of a streamed search was given
    stopped,    \* the caller of a streamed search asked to stop
    canceled    \* the context was canceled

vars == <<query, groups, visits, stored, todo, phase, queue, plans, excluded, items,
          matched, truncated, streamed, stopped, canceled>>

searching == <<todo, queue, plans, excluded, items, matched, truncated>>
fixed == <<query, groups, visits>>

\* the goroutine of the search itself, which reads the index
Caller == CHOOSE w \in Workers : TRUE

(***************************************************************************)
(* The files of a group.  A path is a group number and a position, the     *)
(* parent first.                                                           *)
(***************************************************************************)
Paths(g) == {<<g, i>> : i \in DOMAIN groups[g]}
File(p) == groups[p[1]][p[2]]
AllPaths == UNION {Paths(g) : g \in DOMAIN groups}
Children(g) == [i \in 1..(Len(groups[g]) - 1) |-> <<g, i + 1>>]
Family(g) == <<<<g, 1>>>> \o Children(g)

(***************************************************************************)
(* Filters.  Times are in half seconds, zero when unknown.                 *)
(***************************************************************************)
NoPlan == [count |-> 0, ids |-> <<>>, hits |-> {}]

\* Filter.acceptsTimes
AcceptsTimes(f) == query.since = 0 \/ (f.at # 0 /\ f.at >= query.since)

\* Filter.acceptsDirs
AcceptsDirs(f) == f.dir

\* search.accepts: the authority of both scan paths
Accepts(f) == AcceptsDirs(f) /\ AcceptsTimes(f)

\* activeColumn: whole seconds; an unknown time is before every bound
ActiveColumn(f) == f.at \div 2

\* historyIndex.selectionSQL: weaker than accepts; children are judged by their parent
Selection(p) ==
    \/ p[2] > 1
    \/ File(p).dir /\ (query.since = 0 \/ ActiveColumn(File(p)) >= query.since \div 2)

\* Filter.acceptsModificationTime: a transcript is modified when it is written
AcceptsModified(f) == query.since = 0 \/ f.at = 0 \/ f.at >= query.since

\* historyFile.mayMatchTime
MayMatchTime(g) == \E p \in Paths(g) : AcceptsModified(File(p))

(***************************************************************************)
(* Reading a transcript.                                                   *)
(***************************************************************************)
\* search.skipsPart, for a query without a role
SkipsPart(t, part) ==
    \/ query.mode # "search"
    \/ t.excluded
    \/ part.role = "tool" /\ ~query.tools
    \/ part.role = "context"

\* transcript.recordHits and the excerpt that matchText adds
RecordHits(t, part, id) ==
    [t EXCEPT !.hits = @ \cup part.hits,
              !.count = @ + 1,
              !.excerpts = IF Len(@) < Excerpts THEN Append(@, id) ELSE @]

\* search.matchText
MatchText(t, part, id) ==
    CASE SkipsPart(t, part) -> t
      [] part.exclude -> [t EXCEPT !.excluded = TRUE]
      [] part.hits = {} -> t
      [] OTHER -> RecordHits(t, part, id)

NewTranscript(p) ==
    [path |-> p, sid |-> File(p).sid, at |-> File(p).at, excluded |-> FALSE,
     hits |-> {}, count |-> 0, excerpts |-> <<>>]

\* search.scanTranscript: every part in the order of the file
ScanTranscript(p) ==
    FoldLeft(LAMBDA t, k : MatchText(t, File(p).parts[k], <<p, k>>),
             NewTranscript(p),
             [k \in DOMAIN File(p).parts |-> k])

\* bytePrefilter.matchesFile: the raw file has every term, tool text included
HasTerm(p, term) == \E k \in DOMAIN File(p).parts : term \in File(p).parts[k].hits
MatchesFile(p) == \A term \in Terms : HasTerm(p, term)

\* search.matchesFamily: every term is somewhere in the group
MatchesFamily(g) == \A term \in Terms : \E p \in Paths(g) : HasTerm(p, term)

\* search.prefilterMembers
PrefilterMembers(g) ==
    \/ Len(groups[g]) = 1
    \/ query.tools /\ MayMatchTime(g) /\ ~MatchesFamily(g)

\* search.readTranscriptFile: NULL is a file that cannot be opened or that the prefilter rejects
Readable(p, prefilter) == File(p).ok /\ (prefilter => MatchesFile(p))

\* transcript.absorb
Absorb(t, c) ==
    LET room == Excerpts - Len(t.excerpts)
    IN  [t EXCEPT !.excluded = @ \/ c.excluded,
                  !.count = @ + c.count,
                  !.hits = @ \cup c.hits,
                  !.excerpts = @ \o SubSeq(c.excerpts, 1, IF room < Len(c.excerpts)
                                                             THEN room ELSE Len(c.excerpts))]

\* transcript.qualifies
Qualifies(t) == ~t.excluded /\ t.count > 0 /\ t.hits = Terms

SameSession(g, p) == File(p).sid = File(<<g, 1>>).sid

\* search.scanFileGroup: the conversations of a group in the order they are added: children with
\* a session of their own, then the parent with the others
GroupTranscripts(g, mayFilter) ==
    LET prefilter == mayFilter /\ PrefilterMembers(g)
        read == SelectSeq(Children(g), LAMBDA p : Readable(p, prefilter))
        parent == Readable(<<g, 1>>, prefilter)
        owned == IF parent THEN SelectSeq(read, LAMBDA p : SameSession(g, p)) ELSE <<>>
        own == IF parent THEN SelectSeq(read, LAMBDA p : ~SameSession(g, p)) ELSE read
    IN  [i \in DOMAIN own |-> ScanTranscript(own[i])]
        \o (IF parent
              THEN <<FoldLeft(LAMBDA t, p : Absorb(t, ScanTranscript(p)),
                              ScanTranscript(<<g, 1>>), owned)>>
              ELSE <<>>)

\* search.add
Addable(t) == query.mode # "search" \/ Qualifies(t)

\* search.scanFileDirect
ScanDirect(g) ==
    IF ~MayMatchTime(g) THEN <<>>
    ELSE SelectSeq(GroupTranscripts(g, query.mode = "search"), Addable)

(***************************************************************************)
(* Reading a group from the index.                                         *)
(***************************************************************************)
\* historyIndex.partQuery, eachPart: the parts of a role that the query reads
IndexedPart(p, k) == File(p).parts[k].role = "user"

MatchedParts(p) ==
    SelectSeq([k \in DOMAIN File(p).parts |-> k],
              LAMBDA k : IndexedPart(p, k) /\ File(p).parts[k].hits # {})

\* historyIndex.findParts for one file
PlanOf(p) ==
    LET found == MatchedParts(p)
    IN  [count |-> Len(found),
         ids |-> [i \in 1..(IF Len(found) < Excerpts THEN Len(found) ELSE Excerpts) |-> <<p, found[i]>>],
         hits |-> UNION {File(p).parts[found[i]].hits : i \in DOMAIN found}]

\* A file the search cannot open is not stored by it.
ReadNow(p) == File(p).ok

FindParts(ps) == [p \in {x \in ps : Selection(x) /\ MatchedParts(x) # <<>>} |-> PlanOf(p)]

FindExcluded(ps) ==
    {p \in ps : Selection(p) /\ \E k \in DOMAIN File(p).parts :
                    IndexedPart(p, k) /\ File(p).parts[k].exclude}

\* historyIndex.prepareQuery: plans of what the index has
PrepareQuery ==
    IF query.mode = "search"
      THEN /\ plans' = FindParts(stored)
           /\ excluded' = FindExcluded(stored)
      ELSE UNCHANGED <<plans, excluded>>

\* historyIndex.refreshPlans: a file this search stores gets its plans anew
Changed(g) == {p \in Paths(g) : p \notin stored /\ ReadNow(p)}
RefreshPlans(g) == FindParts(Changed(g)) @@ plans
RefreshExcluded(g) == excluded \cup FindExcluded(Changed(g))

\* historyIndex.groupCandidate: some file of the group has a matching part
GroupCandidate(ps, planned) == \E p \in ps : p \in DOMAIN planned

\* historyIndex.settle: a stored file can be read again; one that cannot be opened is left out
Settled(g) == SelectSeq(Family(g), ReadNow)

\* indexedMatches as a value that may be missing
Plan(planned, p) == IF p \in DOMAIN planned THEN planned[p] ELSE NoPlan

\* foldPlan
FoldPlan(owner, child) ==
    LET room == Excerpts - Len(owner.ids)
    IN  [count |-> owner.count + child.count,
         hits |-> owner.hits \cup child.hits,
         ids |-> owner.ids \o SubSeq(child.ids, 1, IF room < Len(child.ids)
                                                     THEN room ELSE Len(child.ids))]

\* historyIndex.prefetchConversations, listParents: parents of listed children are listed too
Listed(g, p) == Selection(p) \/ Changed(g) # {} \/ (p[2] = 1 /\ Len(groups[g]) > 1)

\* historyIndex.readConversations: the metadata pass of a tools search lists too
ReadConversations(g) ==
    IF query.mode = "list" \/ query.tools
      THEN SelectSeq(Settled(g), LAMBDA p : Listed(g, p))
      ELSE Settled(g)

\* historyIndex.ownerConversation: the parent of the group when it has the child's session
Owned(g, p) == p[2] > 1 /\ <<g, 1>> \in ToSet(ReadConversations(g)) /\ SameSession(g, p)

\* historyIndex.foldGroup: the plans after a group's children are folded into their owner
FoldedPlan(g, planned) ==
    FoldLeft(LAMBDA plan, p : FoldPlan(plan, Plan(planned, p)),
             Plan(planned, <<g, 1>>),
             SelectSeq(ReadConversations(g), LAMBDA p : Owned(g, p)))

Folds(g) == \E p \in ToSet(ReadConversations(g)) : Owned(g, p)

FoldExcluded(g, excl) ==
    IF \E p \in ToSet(ReadConversations(g)) : Owned(g, p) /\ p \in excl
      THEN excl \cup {<<g, 1>>} ELSE excl

FoldGroup(g, planned) ==
    IF Folds(g) THEN (<<g, 1>> :> FoldedPlan(g, planned)) @@ planned ELSE planned

PlanQualifies(plan) == plan.count > 0 /\ plan.hits = Terms

\* historyIndex.collectMatches, readExcerpts: a match of a limited search has no excerpts yet
IndexedMatch(p, planned) ==
    [path |-> p, sid |-> File(p).sid, at |-> File(p).at,
     count |-> IF query.mode = "list" THEN 0 ELSE Plan(planned, p).count,
     excerpts |-> IF query.mode = "search" /\ query.limit = 0 THEN Plan(planned, p).ids ELSE <<>>]

CollectMatches(g, planned, excl) ==
    LET own == SelectSeq(ReadConversations(g), LAMBDA p : ~Owned(g, p))
        kept == SelectSeq(own, LAMBDA p : query.mode = "list"
                                   \/ (p \notin excl /\ PlanQualifies(Plan(planned, p))))
    IN  [i \in DOMAIN kept |-> IndexedMatch(kept[i], planned)]

\* historyIndex.matches
VisitGroup(g) ==
    LET planned == IF query.mode = "search" THEN RefreshPlans(g) ELSE plans
        excl == IF query.mode = "search" THEN RefreshExcluded(g) ELSE excluded
        skip == query.mode = "search" /\ ~GroupCandidate(ToSet(Settled(g)), planned)
    IN  IF Settled(g) = <<>> \/ ~MayMatchTime(g) \/ skip
          THEN /\ plans' = planned /\ excluded' = excl
               /\ queue' = queue
          ELSE /\ plans' = FoldGroup(g, planned)
               /\ excluded' = FoldExcluded(g, excl)
               /\ queue' = [queue EXCEPT ![Caller] = CollectMatches(g, plans', excluded')]

(***************************************************************************)
(* Ranking.                                                                *)
(***************************************************************************)
\* resultOrder: by the number of matches when asked, then the latest first, then by path
Before(a, b) ==
    \/ query.sort = "matches" /\ a.count > b.count
    \/ /\ query.sort = "matches" => a.count = b.count
       /\ \/ a.at > b.at
          \/ a.at = b.at /\ a.path[1] < b.path[1]
          \/ a.at = b.at /\ a.path[1] = b.path[1] /\ a.path[2] < b.path[2]

Worst(s) == CHOOSE i \in DOMAIN s : \A j \in DOMAIN s : ~Before(s[i], s[j])

\* search.retain
Retain(s, m) ==
    IF query.limit = 0 \/ Len(s) < query.limit THEN Append(s, m)
    ELSE IF Before(m, s[Worst(s)]) THEN [s EXCEPT ![Worst(s)] = m]
    ELSE s

\* search.finalize
Finalize == SortSeq(items, Before)

AsMatch(t) ==
    [path |-> t.path, sid |-> t.sid, at |-> t.at, count |-> t.count, excerpts |-> t.excerpts]

(***************************************************************************)
(* The search.                                                             *)
(***************************************************************************)
Init ==
    /\ query \in Queries
    /\ groups \in Histories
    /\ stored \in {{}, {<<g, 1>> : g \in DOMAIN groups}, AllPaths}
    /\ visits \in Visits
    /\ todo = visits
    /\ phase = "start"
    /\ queue = [w \in Workers |-> <<>>]
    /\ plans = <<>> /\ excluded = {}
    /\ items = <<>> /\ matched = 0 /\ truncated = FALSE
    /\ streamed = <<>> /\ stopped = FALSE
    /\ canceled = FALSE

\* search.scanToolsFiles, the metadata pass: groups with a conversation that the filter accepts
ToolsCandidate(g) ==
    /\ MayMatchTime(g)
    /\ \E t \in ToSet(GroupTranscripts(g, TRUE)) : Accepts(File(t.path))

Candidates(s) == IF query.tools THEN SelectSeq(s, ToolsCandidate) ELSE s

\* search.scanToolsFiles: the same pass through the index, which lists without the prefilter
ListedCandidate(g) ==
    /\ MayMatchTime(g)
    /\ \E p \in ToSet(ReadConversations(g)) : ~Owned(g, p) /\ Accepts(File(p))

\* search.searchIndexed, openHistoryIndex: the index opens, or the search is direct
OpenIndex ==
    /\ phase = "start"
    /\ IF query.tools
         THEN /\ phase' = "tools"
              /\ todo' = SelectSeq(todo, ListedCandidate)
              /\ UNCHANGED <<plans, excluded>>
         ELSE /\ phase' = "indexed"
              /\ PrepareQuery
              /\ UNCHANGED todo
    /\ UNCHANGED <<fixed, stored, queue, items, matched, truncated, streamed, stopped, canceled>>

OpenFails ==
    /\ phase = "start"
    /\ phase' = "direct"
    /\ todo' = Candidates(todo)
    /\ UNCHANGED <<fixed, stored, queue, plans, excluded, items, matched, truncated, streamed,
                   stopped, canceled>>

Idle == \A w \in Workers : queue[w] = <<>>

\* historyIndex.scanFiles: the next group in discovery order, when the one before it is handled
ScanFiles ==
    /\ phase = "indexed" /\ Idle /\ todo # <<>>
    /\ ~canceled /\ ~stopped
    /\ VisitGroup(Head(todo))
    /\ todo' = Tail(todo)
    /\ UNCHANGED <<fixed, stored, phase, items, matched, truncated, streamed, stopped, canceled>>

\* search.scanFilesParallel: a worker takes the next group and parses it
ScanFilesParallel(w) ==
    /\ phase \in {"direct", "tools"} /\ queue[w] = <<>> /\ todo # <<>>
    /\ ~canceled /\ ~stopped
    /\ queue' = [queue EXCEPT ![w] =
                    LET found == ScanDirect(Head(todo))
                    IN  [i \in DOMAIN found |-> AsMatch(found[i])]]
    /\ todo' = Tail(todo)
    /\ UNCHANGED <<fixed, stored, phase, plans, excluded, items, matched, truncated, streamed,
                   stopped, canceled>>

\* search.keep: what it accepts
KeepAccepts(m) == Accepts(File(m.path)) /\ ~stopped

\* search.keep: one match, under the mutex of the search
Keep(w) ==
    /\ phase \in {"indexed", "tools", "direct"} /\ queue[w] # <<>>
    /\ queue' = [queue EXCEPT ![w] = Tail(@)]
    /\ LET m == Head(queue[w]) IN
       IF ~KeepAccepts(m)
         THEN UNCHANGED <<items, matched, truncated, streamed, stopped>>
       ELSE IF query.stream
         THEN /\ matched' = matched + 1
              /\ streamed' = Append(streamed, m)
              /\ stopped' \in {stopped, TRUE}
              /\ UNCHANGED <<items, truncated>>
         ELSE /\ matched' = matched + 1
              /\ items' = Retain(items, m)
              /\ truncated' = (truncated \/ (query.limit > 0 /\ matched' > query.limit))
              /\ UNCHANGED <<streamed, stopped>>
    /\ UNCHANGED <<fixed, stored, todo, phase, plans, excluded, canceled>>

Scanned == Idle /\ (todo = <<>> \/ canceled \/ stopped)

\* search.runIndexed after the sources, and the retained matches that still lack excerpts; those
\* of a tools search, which a direct scan found, have theirs
EndIndexed ==
    /\ phase \in {"indexed", "tools"} /\ Scanned
    /\ phase' = IF query.mode = "search" /\ query.limit > 0 /\ ~query.tools
                   THEN "reading" ELSE "done"
    /\ queue' = [queue EXCEPT ![Caller] =
                    IF phase' = "reading" THEN items ELSE <<>>]
    /\ items' = IF phase' = "reading" THEN <<>> ELSE items
    /\ UNCHANGED <<fixed, stored, todo, plans, excluded, matched, truncated, streamed, stopped,
                   canceled>>

\* historyIndex.readRetained: one match at a time, none after a cancellation
ReadRetained ==
    /\ phase = "reading"
    /\ IF canceled \/ queue[Caller] = <<>>
         THEN /\ phase' = "done"
              /\ queue' = [w \in Workers |-> <<>>]
              /\ UNCHANGED items
         ELSE LET m == Head(queue[Caller]) IN
              /\ items' = Append(items, [m EXCEPT !.excerpts = plans[m.path].ids])
              /\ queue' = [queue EXCEPT ![Caller] = Tail(@)]
              /\ UNCHANGED phase
    /\ UNCHANGED <<fixed, stored, todo, plans, excluded, matched, truncated, streamed, stopped,
                   canceled>>

\* search.reset
Reset ==
    /\ items' = <<>> /\ matched' = 0 /\ truncated' = FALSE /\ stopped' = FALSE
    /\ queue' = [w \in Workers |-> <<>>]

\* search.searchIndexed: a streamed search cannot take back what it reported
MayFallBack == ~(query.stream /\ matched > 0)

\* search.searchIndexed: the index fails while it is used; a tools search uses it before the scan
\* of a source and to commit after the last one, when no worker is at work
IndexFails ==
    /\ phase \in {"indexed", "reading"} \/ (phase = "tools" /\ Idle)
    /\ IF MayFallBack
         THEN /\ phase' = "direct"
              /\ todo' = Candidates(visits)
              /\ Reset
         ELSE /\ phase' = "failed"
              /\ queue' = [w \in Workers |-> <<>>]
              /\ UNCHANGED <<todo, items, matched, truncated, stopped>>
    /\ UNCHANGED <<fixed, stored, plans, excluded, streamed, canceled>>

\* search.runDirect returns when every worker has
EndDirect ==
    /\ phase = "direct" /\ Scanned
    /\ phase' = "done"
    /\ UNCHANGED <<fixed, stored, searching, streamed, stopped, canceled>>

\* the caller cancels the context
Cancel ==
    /\ phase \notin {"done", "failed"} /\ ~canceled
    /\ canceled' = TRUE
    /\ UNCHANGED <<fixed, stored, searching, phase, streamed, stopped>>

Ended == phase \in {"done", "failed"} /\ UNCHANGED vars

Next ==
    \/ OpenIndex \/ OpenFails \/ ScanFiles \/ EndIndexed \/ ReadRetained \/ IndexFails
    \/ EndDirect \/ Cancel
    \/ \E w \in Workers : ScanFilesParallel(w) \/ Keep(w)
    \/ Ended

Spec == Init /\ [][Next]_vars

(***************************************************************************)
(* What a search should report, stated without the way it is found.        *)
(***************************************************************************)
ParentRead(g) == File(<<g, 1>>).ok

\* Conversations of a group: the parent, and every child that is not part of it.
Conversations(g) ==
    {p \in Paths(g) : File(p).ok /\ (p[2] > 1 => ~(ParentRead(g) /\ SameSession(g, p)))}

\* The files whose text belongs to conversation p.
Members(p) ==
    IF p[2] > 1 THEN {p}
    ELSE {q \in Paths(p[1]) : File(q).ok /\ SameSession(p[1], q)}

Searched(part) == part.role = "user" \/ (part.role = "tool" /\ query.tools)

\* The parts of conversation p that the query reads, parent's first.
TextOf(p) ==
    {<<q, k>> \in Members(p) \X (1..3) :
        k \in DOMAIN File(q).parts /\ Searched(File(q).parts[k])}

PartAt(x) == File(x[1]).parts[x[2]]
HitsOf(p) == {x \in TextOf(p) : PartAt(x).hits # {}}

Wanted(p) ==
    /\ Accepts(File(p))
    /\ query.mode = "search" =>
          /\ \A term \in Terms : \E x \in TextOf(p) : term \in PartAt(x).hits
          /\ \A x \in TextOf(p) : ~PartAt(x).exclude

InOrder(x, y) == x[1][2] < y[1][2] \/ (x[1] = y[1] /\ x[2] < y[2])

FirstExcerpts(p) ==
    LET s == SetToSortSeq(HitsOf(p), InOrder)
    IN  SubSeq(s, 1, IF Len(s) < Excerpts THEN Len(s) ELSE Excerpts)

Reported(p) ==
    [path |-> p, sid |-> File(p).sid, at |-> File(p).at,
     count |-> IF query.mode = "list" THEN 0 ELSE Cardinality(HitsOf(p)),
     excerpts |-> IF query.mode = "list" THEN <<>> ELSE FirstExcerpts(p)]

\* Every wanted conversation of every visited group, once per visit.
Expected ==
    LET all == FlattenSeq([i \in DOMAIN visits |->
                   SetToSortSeq({Reported(p) : p \in {c \in Conversations(visits[i]) : Wanted(c)}},
                                Before)])
    IN  SortSeq(all, Before)

Limited(s) == IF query.limit = 0 \/ Len(s) <= query.limit THEN s ELSE SubSeq(s, 1, query.limit)

(***************************************************************************)
(* Properties.                                                             *)
(***************************************************************************)
\* A search that runs to its end reports the best matches of all the histories, in order, and
\* says whether there were more: whichever path found them, in whatever order the workers
\* finished, and also after the index failed halfway (Catalog.Search, search.retain).
AnswerIsExact ==
    phase = "done" /\ ~canceled /\ ~query.stream =>
        /\ Finalize = Limited(Expected)
        /\ truncated = (query.limit > 0 /\ Len(Expected) > query.limit)

\* No result, not even a partial one after a cancellation, has a match that is wrong or that
\* lacks its excerpts (historyIndex.readRetained: "cannot expose metadata-only matches").
NoBareMatch ==
    phase = "done" => ToSet(items) \subseteq ToSet(Expected)

\* A streamed search gives every match at most once, although it may start again without the
\* index, and every one when it ends normally (Catalog.searchIndexed).
StreamedOnce ==
    /\ query.stream => IsInjective(streamed) /\ ToSet(streamed) \subseteq ToSet(Expected)
    /\ query.stream /\ phase = "done" /\ ~canceled /\ ~stopped =>
          ToSet(streamed) = ToSet(Expected)

\* Nothing is reported once the caller asked to stop, whatever other workers have found by then
\* (search.keep).
SilentAfterStop == stopped => UNCHANGED streamed
==============================================================================
