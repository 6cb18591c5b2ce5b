---------------------------- MODULE HarnessHooks ----------------------------
(***************************************************************************)
(* What aht installs into each harness and what a hook call becomes: the   *)
(* event tables of internal/harness/<name>/adapter.go, the activity detail *)
(* each adapter derives, and the path of "aht report" from an event to the *)
(* observation handed to the registry (internal/cli/report.go).            *)
(*                                                                         *)
(* A hook is an event, the sources its matcher names ({} is no matcher)    *)
(* and the state it reports: an activity, or the presence live or gone. A  *)
(* payload keeps what an adapter looks at: the tool, the notification, the *)
(* error, whether work is still held back, and whether it is a child's.    *)
(*                                                                         *)
(* One session of a harness, the hooks it fires as its turns go by, and    *)
(* what the registry shows meanwhile. The harness is not part of the       *)
(* repository: its turns are modelled from what the adapters say of it     *)
(* (which events fire when, which do not), and every harness fires only    *)
(* the events its table below installs. A harness waits for the            *)
(* hooks of an event before it goes on; a hook takes its time stamp when   *)
(* it prepares its report and records it in a later step.                  *)
(***************************************************************************)
EXTENDS Lifecycle, Sequences, FiniteSets

On(event, to)             == [event |-> event, only |-> {}, to |-> to]
Match(event, sources, to) == [event |-> event, only |-> sources, to |-> to]

AllRunning(events) == {On(e, "running") : e \in events}

-----------------------------------------------------------------------------
(* The hooks of each harness.                                              *)

ClaudeHooks ==
  {Match("SessionStart", {"startup", "resume", "clear"}, "idle"),
   Match("SessionStart", {"compact"}, "live"),
   On("PermissionRequest", "waiting"), Match("Notification", {"permission_prompt"}, "waiting"),
   On("Elicitation", "waiting"), On("PermissionDenied", "idle"),
   Match("PreCompact", {"manual"}, "running"), Match("PostCompact", {"manual"}, "idle"),
   On("Stop", "idle"), On("StopFailure", "failed"), On("SessionEnd", "gone")} \cup
  AllRunning({"UserPromptSubmit", "PreToolUse", "PostToolUse", "PostToolUseFailure",
              "ElicitationResult"})

CodexHooks ==
  {Match("SessionStart", {"startup", "resume", "clear"}, "idle"),
   Match("SessionStart", {"compact"}, "live"),
   On("PermissionRequest", "waiting"), Match("PostCompact", {"manual"}, "idle"),
   On("Stop", "idle"), On("Interrupt", "interrupted"), Match("SessionEnd", {"other"}, "gone")} \cup
  AllRunning({"UserPromptSubmit", "PostToolUse", "PreCompact"})

QwenHooks ==
  {Match("SessionStart", {"startup", "resume", "clear", "branch"}, "idle"),
   Match("SessionStart", {"compact"}, "live"),
   Match("Notification", {"permission_prompt"}, "waiting"),
   Match("Notification", {"idle_prompt"}, "idle"), Match("PostCompact", {"manual"}, "idle"),
   On("Stop", "idle"), On("StopFailure", "failed"), On("SessionEnd", "gone")} \cup
  AllRunning({"UserPromptSubmit", "PreToolUse", "PostToolUse", "PostToolUseFailure", "PreCompact"})

DroidHooks ==
  {On("SessionStart", "idle"), Match("Notification", {"permission_prompt"}, "waiting"),
   Match("Notification", {"idle_prompt"}, "idle"), On("Stop", "idle"), On("SessionEnd", "gone")} \cup
  AllRunning({"UserPromptSubmit", "PreToolUse", "PostToolUse", "PreCompact"})

GrokHooks ==
  {On("SessionStart", "idle"), On("PermissionDenied", "idle"),
   Match("PostCompact", {"manual"}, "idle"), On("Stop", "idle"), On("StopFailure", "failed"),
   On("SessionEnd", "gone")} \cup
  AllRunning({"UserPromptSubmit", "PreToolUse", "PostToolUse", "PostToolUseFailure", "PreCompact"})

GooseHooks ==
  {On("SessionStart", "idle"), On("Stop", "idle"), On("SessionEnd", "gone")} \cup
  AllRunning({"UserPromptSubmit", "PreToolUse", "PostToolUse", "PostToolUseFailure",
              "BeforeReadFile", "AfterFileEdit", "BeforeShellExecution", "AfterShellExecution"})

KimiHooks ==
  {Match("SessionStart", {"startup", "resume"}, "idle"), On("SessionHeartbeat", "live"),
   On("PermissionRequest", "waiting"), On("Stop", "idle"), On("Interrupt", "interrupted"),
   On("StopFailure", "failed"), Match("PostCompact", {"manual"}, "idle"),
   Match("SessionEnd", {"exit", "archive"}, "gone")} \cup
  AllRunning({"UserPromptSubmit", "TurnStarted", "PreToolUse", "PostToolUse",
              "PostToolUseFailure", "PermissionResult", "PreCompact"})

CursorHooks ==
  {On("sessionStart", "idle"), On("beforeSubmitPrompt", "running"), On("stop", "idle"),
   On("sessionEnd", "gone")}

CopilotHooks ==
  {On("sessionStart", "live"), On("permissionRequest", "waiting"),
   Match("notification", {"permission_prompt"}, "waiting"),
   On("subagentStop", "idle"), On("agentStop", "idle"), On("sessionEnd", "gone")} \cup
  AllRunning({"userPromptSubmitted", "preToolUse", "postToolUse", "postToolUseFailure",
              "preCompact", "subagentStart"})

\* agyHookConfig registers the events; agyActivityForHook says what they mean.
AgyHooks == AllRunning({"PreInvocation", "PostInvocation", "PreToolUse", "PostToolUse", "Stop"})

AgyActivity(event, payload) ==
  CASE event = "PreToolUse" /\ payload.tool \in {"ask_permission", "ask_question"} -> "waiting"
    [] event = "PostToolUse" /\ payload.tool = "none" -> "none"
    [] event = "Stop" /\ ~payload.held -> "idle"
    [] OTHER -> "running"

Hooks ==
  [claude |-> ClaudeHooks, codex |-> CodexHooks, qwen |-> QwenHooks, droid |-> DroidHooks,
   grok |-> GrokHooks, goose |-> GooseHooks, kimi |-> KimiHooks, cursor |-> CursorHooks,
   copilot |-> CopilotHooks, agy |-> AgyHooks]

HasHook(h, event) == \E k \in Hooks[h] : k.event = event

-----------------------------------------------------------------------------
(* Definition.Capabilities: what the harness is said to report.            *)

Says(start, waiting) == [start |-> start, waiting |-> waiting]

ClaudeSays  == Says(TRUE, TRUE)
CodexSays   == Says(TRUE, TRUE)
QwenSays    == Says(TRUE, TRUE)
DroidSays   == Says(TRUE, FALSE)
GrokSays    == Says(TRUE, FALSE)
GooseSays   == Says(TRUE, FALSE)
KimiSays    == Says(TRUE, TRUE)
CursorSays  == Says(TRUE, FALSE)
CopilotSays == Says(TRUE, TRUE)
AgySays     == Says(FALSE, TRUE)

Capabilities ==
  [claude |-> ClaudeSays, codex |-> CodexSays, qwen |-> QwenSays, droid |-> DroidSays,
   grok |-> GrokSays, goose |-> GooseSays, kimi |-> KimiSays, cursor |-> CursorSays,
   copilot |-> CopilotSays, agy |-> AgySays]

-----------------------------------------------------------------------------
(* ActivityDetail of each adapter, and what it says it supports.           *)

Notified(event, payload, act) ==
  act = "waiting" /\ event = "Notification" /\ payload.note = "permission_prompt"
LimitHit(event, payload, act) ==
  act = "failed" /\ event = "StopFailure" /\ payload.error \in {"rate_limit", "billing_error"}

ClaudeDetail(event, payload, act) ==
  CASE LimitHit(event, payload, act) -> "usage_limit"
    [] act = "waiting" /\ event = "PermissionRequest" -> "permission"
    [] act = "waiting" /\ event = "Elicitation" -> "question"
    [] Notified(event, payload, act) -> "permission"
    [] OTHER -> "none"

CodexDetail(event, payload, act) ==
  IF act = "waiting" /\ event = "PermissionRequest" THEN "permission" ELSE "none"
KimiDetail(event, payload, act) ==
  IF act = "waiting" /\ event = "PermissionRequest" THEN "permission" ELSE "none"
QwenDetail(event, payload, act) ==
  CASE LimitHit(event, payload, act) -> "usage_limit"
    [] Notified(event, payload, act) -> "permission"
    [] OTHER -> "none"
DroidDetail(event, payload, act) == IF Notified(event, payload, act) THEN "permission" ELSE "none"
CopilotDetail(event, payload, act) ==
  IF /\ act = "waiting"
     /\ \/ event = "permissionRequest"
        \/ event = "notification" /\ payload.note = "permission_prompt"
  THEN "permission" ELSE "none"
AgyDetail(event, payload, act) ==
  CASE act = "waiting" /\ event = "PreToolUse" /\ payload.tool = "ask_permission" -> "permission"
    [] act = "waiting" /\ event = "PreToolUse" /\ payload.tool = "ask_question" -> "question"
    [] OTHER -> "none"

ActivityDetail(h, event, payload, act) ==
  CASE h = "claude"  -> ClaudeDetail(event, payload, act)
    [] h = "codex"   -> CodexDetail(event, payload, act)
    [] h = "kimi"    -> KimiDetail(event, payload, act)
    [] h = "qwen"    -> QwenDetail(event, payload, act)
    [] h = "droid"   -> DroidDetail(event, payload, act)
    [] h = "copilot" -> CopilotDetail(event, payload, act)
    [] h = "agy"     -> AgyDetail(event, payload, act)
    [] OTHER         -> "none"

NativeDetails ==
  [claude |-> {"permission", "question", "usage_limit"}, codex |-> {"permission"},
   qwen |-> {"permission", "usage_limit"}, droid |-> {"permission"}, grok |-> {}, goose |-> {},
   kimi |-> {"permission"}, cursor |-> {}, copilot |-> {"permission"},
   agy |-> {"permission", "question"}]

-----------------------------------------------------------------------------
(* aht report: from a hook call to an observation.                         *)

\* TranslateLifecycle, with the names normalizedLifecycleEvent accepts. A resume
\* is a start to the reducer (reportStarts).
TranslateLifecycle(event) ==
  CASE event \in {"SessionStart", "sessionStart"} -> "start"
    [] event \in {"SessionEnd", "sessionEnd"}     -> "end"
    [] OTHER -> "none"

LifecyclePresence(life) == IF life = "start" THEN "live" ELSE IF life = "end" THEN "gone" ELSE "none"

\* catalog.PayloadCompatible: the identity fields every payload needs are there;
\* qwen's validator refuses a payload with an agent id.
PayloadCompatible(h, payload) == h = "qwen" => ~payload.child

\* catalog.ActivityFromPayload: a stop of Claude Code that holds delegated work or
\* a due wakeup is still running.
ActivityFromPayload(h, event, act, payload) ==
  IF h = "claude" /\ event = "Stop" /\ act = "idle" /\ payload.held THEN "running" ELSE act

\* The activity and the presence the hook's command line carries; agy's command
\* is "aht hook", which takes the activity from the payload.
Declared(h, k, payload) ==
  CASE h = "agy" -> [act |-> AgyActivity(k.event, payload), claim |-> "none"]
    [] k.to \in {"live", "gone"} -> [act |-> "none", claim |-> k.to]
    [] OTHER -> [act |-> k.to, claim |-> "none"]

\* translateReportLifecycle and PrepareObservation.
Claimed(d, life) == IF d.claim = "none" THEN LifecyclePresence(life) ELSE d.claim

\* normalizeReportState refuses an activity together with an end.
Refused(h, k, payload) ==
  LET d    == Declared(h, k, payload)
      life == TranslateLifecycle(k.event)
  IN  d.act # "none" /\ (Claimed(d, life) = "gone" \/ life = "end")

\* prepareReport: the observation and the detail of its report.
PrepareReport(h, k, payload, proc, at) ==
  LET d    == Declared(h, k, payload)
      life == TranslateLifecycle(k.event)
      act  == ActivityFromPayload(h, k.event, d.act, payload)
  IN  [obs    |-> Report(proc, at, life, Claimed(d, life), act, 0),
       detail |-> IF act = "none" THEN "none" ELSE ActivityDetail(h, k.event, payload, act)]

\* Mutant: the highest process of the harness's run, a wrapper or not.
ProcessIdentityOfWrapper(chain, h) ==
  LET nearest == CHOOSE i \in DOMAIN chain :
                   chain[i].of = h /\ \A j \in 1..(i - 1) : chain[j].of # h
      run     == {i \in DOMAIN chain : i >= nearest /\ \A j \in nearest..i : chain[j].of = h}
  IN  chain[CHOOSE i \in run : \A j \in run : j <= i].proc

\* reportProcessIdentity: of the ancestors of the hook, nearest first, the
\* harness's own unbroken run; its highest process that is no wrapper.
ProcessIdentity(chain, h) ==
  LET nearest == CHOOSE i \in DOMAIN chain :
                   chain[i].of = h /\ \A j \in 1..(i - 1) : chain[j].of # h
      run     == {i \in DOMAIN chain : i >= nearest /\ \A j \in nearest..i : chain[j].of = h}
      fit     == {i \in run : i = nearest \/ ~chain[i].wrapper}
  IN  chain[CHOOSE i \in fit : \A j \in fit : j <= i].proc

-----------------------------------------------------------------------------
(* Details in the registry (detail.go).                                    *)

ValidFor(detail, act) ==
  \/ act = "waiting" /\ detail \in {"permission", "question"}
  \/ act = "failed" /\ detail \in {"general", "usage_limit"}

\* Session.retainNativeDetail: the previous report of the same process and reporter.
RetainNativeDetail(s, o) ==
  /\ s.native.at # 0 /\ ~NativeEnded(s) /\ o.proc # NoProc /\ s.native.proc = o.proc
  /\ s.presence # "gone"

\* Session.nativeDetail: the detail the native slot keeps after this report.
NativeDetail(s, r, old) ==
  IF Ends(r.obs) \/ Starts(r.obs) THEN "none"
  ELSE IF r.detail # "none" THEN r.detail
  ELSE IF r.obs.act = "failed" THEN "general"
  ELSE IF r.obs.act # "none" \/ ~RetainNativeDetail(s, r.obs) THEN "none"
  ELSE old

\* Session.resolveDetail, for a decision taken from the hook.
ShownDetail(s, detail) ==
  IF s.presence # "live" \/ s.act \notin {"waiting", "failed"} THEN "none"
  ELSE IF ValidFor(detail, s.act) THEN detail
  ELSE IF s.act = "failed" THEN "general" ELSE "none"

-----------------------------------------------------------------------------
(* The turns of a session.                                                 *)

CONSTANTS
  Harnesses,    (* the harnesses explored                                  *)
  MaxEvents,    (* bound on the events of a behaviour                      *)
  MaxStarts     (* bound on the processes that open the session            *)

TurnAssumption ==
  /\ Harnesses \subseteq DOMAIN Hooks /\ MaxEvents \in Nat /\ MaxStarts \in Nat
  /\ Cardinality(Procs) >= MaxStarts

VARIABLES
  h,        (* the harness                                                 *)
  phase,    (* what the session is really doing                            *)
  why,      (* why it is ready, or what it asks                            *)
  chain,    (* the ancestors of a hook call, nearest first                 *)
  fired,    (* prepared reports on their way to the registry               *)
  refused,  (* a hook call was refused as invalid                          *)
  sess, detail,   (* the registry's session and its native detail          *)
  now, used       (* clock (and number of events), processes used          *)

vars == <<h, phase, why, chain, fired, refused, sess, detail, now, used>>

\* The agent's own process: the hook's shell is its child.
Agent == chain[2].proc

\* The hook runs under a shell; the agent may be started through a wrapper of
\* its own or by another harness.
Ancestry(p, style, of) ==
  LET link(x, y, w) == [proc |-> x, of |-> y, wrapper |-> w]
      agent         == link(p, of, FALSE)
  IN  CASE style = "plain"  -> <<link("sh", "other", FALSE), agent,
                                 link("login", "other", FALSE), link("init", "other", FALSE)>>
        [] style = "wrapped" -> <<link("sh", "other", FALSE), agent,
                                  link("node", of, TRUE), link("login", "other", FALSE)>>
        [] style = "nested" -> <<link("sh", "other", FALSE), agent,
                                 link("bash", "other", FALSE), link("outer", of, FALSE)>>

Payload == [tool |-> "none", note |-> "none", error |-> "none", held |-> FALSE, child |-> FALSE]

Init ==
  /\ h \in Harnesses
  /\ phase = "off" /\ why = "none" /\ chain = <<>>
  /\ fired = {} /\ refused = FALSE
  /\ sess = NewSession /\ detail = "none"
  /\ now = 0 /\ used = {}

-----------------------------------------------------------------------------
(* Firing an event: every hook that matches runs aht report.               *)

Matching(events, sources) ==
  {k \in Hooks[h] : k.event \in events /\ (k.only = {} \/ k.only \cap sources # {})}

Fire(events, sources, payload, ancestors) ==
  LET calls == {k \in Matching(events, sources) :
                  PayloadCompatible(h, payload) /\
                  ~(h = "agy" /\ AgyActivity(k.event, payload) = "none")}
      p     == ProcessIdentity(ancestors, h)
  IN  /\ now < MaxEvents
      /\ now' = now + 1
      /\ fired' = fired \cup {PrepareReport(h, k, payload, p, now') :
                                k \in {c \in calls : ~Refused(h, c, payload)}}
      /\ refused' = (refused \/ \E k \in calls : Refused(h, k, payload))
      /\ UNCHANGED <<h, sess, detail>>

Event(events, sources, payload) ==
  Fire(events, sources, payload, chain) /\ UNCHANGED <<chain, used>>

\* A heartbeat is a timer's, and the session does not wait for it.
Beat(r) == r.obs.claim = "live" /\ r.obs.life = "none"
Quiet == \A r \in fired : Beat(r)
Goto(to, reason) == phase' = to /\ why' = reason

\* The registry records a report (Store.Observe): the reducer and the detail.
\* A conflict or a late report changes nothing.
Record(r) ==
  LET outcome == Reduce(sess, r.obs)
  IN  /\ fired' = fired \ {r}
      /\ sess' = outcome.session
      /\ detail' = IF outcome.out = "saved" THEN NativeDetail(sess, r, detail) ELSE detail
      /\ UNCHANGED <<h, phase, why, chain, refused, now, used>>

\* The tracker's scan sees the process.
Sight ==
  /\ Quiet /\ phase \notin {"off", "gone"} /\ sess.presence # "live" /\ Exists(sess)
  /\ now < MaxEvents
  /\ now' = now + 1
  /\ sess' = Reduce(sess, Sighting(Agent, now', TRUE)).session
  /\ UNCHANGED <<h, phase, why, chain, fired, refused, detail, used>>

-----------------------------------------------------------------------------
(* The session's turns.                                                    *)

StartEvents == {"SessionStart", "sessionStart"}
Prompts == {"UserPromptSubmit", "beforeSubmitPrompt", "userPromptSubmitted", "PreInvocation"}

Open(p, style, events, sources, to) ==
  /\ Quiet /\ phase \in {"off", "gone"} /\ Cardinality(used) < MaxStarts
  /\ chain' = Ancestry(p, style, h)
  /\ used' = used \cup {p}
  /\ Fire(events, sources, Payload, chain')
  /\ Goto(to, "fresh")

Begin ==
  \E p \in Procs \ used, style \in {"plain", "wrapped", "nested"} :
    Open(p, style, StartEvents, IF phase = "off" THEN {"startup"} ELSE {"resume"}, "ready")

\* Copilot: the session can start after its first prompt was submitted.
PromptFirst ==
  /\ h = "copilot"
  /\ \E p \in Procs \ used : Open(p, "plain", Prompts, {}, "late")

LateStart == Quiet /\ phase = "late" /\ Event(StartEvents, {"startup"}, Payload) /\ Goto("working", "none")

Prompt == Quiet /\ phase = "ready" /\ Event(Prompts, {}, Payload) /\ Goto("working", "none")

ToolStart ==
  /\ Quiet /\ phase = "working"
  /\ Event({"PreToolUse", "preToolUse"}, {}, [Payload EXCEPT !.tool = "shell"])
  /\ Goto("working", "none")

\* A tool ends. A harness without a hook for failures fires the same hook.
Fails == {"PostToolUseFailure", "postToolUseFailure"}
ToolEnd ==
  /\ Quiet /\ phase \in {"working", "resumed"}
  /\ \E ok \in BOOLEAN :
       Event(IF ok \/ ~\E e \in Fails : HasHook(h, e) THEN {"PostToolUse", "postToolUse"} ELSE Fails,
             {}, [Payload EXCEPT !.tool = "shell"])
  /\ Goto("working", "none")

Asks == "permission" \in NativeDetails[h]

\* The user is asked for a permission: the request, then the prompt on screen.
RequestPermission ==
  /\ Quiet /\ phase = "working" /\ Asks
  /\ Event(IF h = "agy" THEN {"PreToolUse"} ELSE {"PermissionRequest", "permissionRequest"}, {},
           [Payload EXCEPT !.tool = "ask_permission"])
  /\ Goto("requesting", "permission")

ShowPrompt ==
  /\ Quiet /\ phase = "requesting"
  /\ Event({"Notification", "notification"}, {"permission_prompt"},
           [Payload EXCEPT !.note = "permission_prompt"])
  /\ Goto("asking", why)

AskQuestion ==
  /\ Quiet /\ phase = "working" /\ "question" \in NativeDetails[h]
  /\ Event(IF h = "agy" THEN {"PreToolUse"} ELSE {"Elicitation"}, {},
           [Payload EXCEPT !.tool = "ask_question"])
  /\ Goto("asking", "question")

\* The answer. Kimi reports it, Claude Code the answer to a question; with the
\* others the next event is the end of the tool.
Tells == h = "kimi" \/ (h = "claude" /\ why = "question")
Grant ==
  /\ Quiet /\ phase = "asking"
  /\ Event(IF why = "question" THEN {"ElicitationResult"} ELSE {"PermissionResult"}, {}, Payload)
  /\ Goto(IF Tells THEN "working" ELSE "resumed", "none")

\* A denied permission ends the turn where the adapter says so.
Deny ==
  /\ Quiet /\ phase = "asking" /\ why = "permission" /\ h \in {"claude", "qwen", "droid"}
  /\ Event({"PermissionDenied", "Notification"}, {"idle_prompt"}, [Payload EXCEPT !.note = "idle_prompt"])
  /\ Goto("ready", "idle")

\* The user interrupts the turn: where a hook tells.
Interrupt ==
  /\ Quiet /\ phase \in {"working", "asking"} /\ HasHook(h, "Interrupt")
  /\ Event({"Interrupt"}, {}, Payload)
  /\ Goto("ready", "interrupted")

Cancel ==
  /\ Quiet /\ phase \in {"working", "asking"} /\ h \in {"qwen", "droid"}
  /\ Event({"Notification"}, {"idle_prompt"}, [Payload EXCEPT !.note = "idle_prompt"])
  /\ Goto("ready", "idle")

Stops == {"Stop", "stop", "agentStop"}
Stop == Quiet /\ phase = "working" /\ Event(Stops, {}, Payload) /\ Goto("ready", "idle")

\* The turn stops with delegated work: it goes on without the user.
StopHeld ==
  /\ Quiet /\ phase = "working" /\ h \in {"claude", "agy"}
  /\ Event(Stops, {}, [Payload EXCEPT !.held = TRUE])
  /\ Goto("held", "none")

Wake == Quiet /\ phase = "held" /\ Goto("working", "none") /\
        UNCHANGED <<h, chain, fired, refused, sess, detail, now, used>>

StopFailure ==
  /\ Quiet /\ phase = "working" /\ HasHook(h, "StopFailure")
  /\ \E e \in {"rate_limit", "other"} :
       /\ Event({"StopFailure"}, {}, [Payload EXCEPT !.error = e])
       /\ Goto("ready", IF e = "rate_limit" THEN "limit" ELSE "failed")

\* Compaction inside a turn: before, after, and the start that follows it.
CompactStarts == h \in {"claude", "codex", "qwen"}
CompactEvent(trigger, from, to, reason) ==
  \/ /\ phase = from[1] /\ Event({"PreCompact", "preCompact"}, {trigger}, Payload) /\ Goto(from[2], reason)
  \/ /\ phase = from[2] /\ Event({"PostCompact"}, {trigger}, Payload)
     /\ Goto(IF CompactStarts \/ (h = "droid" /\ trigger = "manual") THEN from[3] ELSE to, reason)
  \/ /\ phase = from[3] /\ Event({"SessionStart"}, {"compact"}, Payload) /\ Goto(to, reason)

AutoCompact   == Quiet /\ CompactEvent("auto", <<"working", "compact1", "compact2">>, "working", "none")

\* Claude Code also compacts between turns, and nothing returns it to idle. The
\* start that follows clears the detail: a limit then shows as a plain failure.
IdleCompact   == Quiet /\ h = "claude" /\
                 CompactEvent("auto", <<"ready", "resting1", "resting2">>, "ready",
                              IF phase = "resting2" /\ why = "limit" THEN "failed" ELSE why)

ManualCompact == Quiet /\ (HasHook(h, "PostCompact") \/ h = "droid") /\
                 CompactEvent("manual", <<"ready", "manual1", "manual2">>, "ready", "idle")

\* A child agent of qwen fires hooks of the session with its own agent id.
ChildEvent ==
  /\ Quiet /\ h = "qwen" /\ phase \in {"ready", "working", "asking"}
  /\ \E e \in {"PostToolUse", "Stop"} : Event({e}, {}, [Payload EXCEPT !.child = TRUE])
  /\ UNCHANGED <<phase, why>>

\* Kimi's heartbeat, prepared while no other hook runs.
Heartbeat ==
  /\ fired = {} /\ h = "kimi" /\ phase \notin {"off", "gone"}
  /\ Event({"SessionHeartbeat"}, {}, Payload)
  /\ UNCHANGED <<phase, why>>

End ==
  /\ Quiet /\ phase \in {"ready", "working"}
  /\ HasHook(h, "SessionEnd") \/ HasHook(h, "sessionEnd")
  /\ Event({"SessionEnd", "sessionEnd"}, {"other", "exit"}, Payload)
  /\ Goto("gone", "none")

Next ==
  \/ \E r \in fired : Record(r)
  \/ Sight \/ Begin \/ PromptFirst \/ LateStart \/ Prompt \/ ToolStart \/ ToolEnd
  \/ RequestPermission \/ ShowPrompt \/ AskQuestion \/ Grant \/ Deny \/ Interrupt \/ Cancel
  \/ Stop \/ StopHeld \/ Wake \/ StopFailure \/ AutoCompact \/ IdleCompact \/ ManualCompact
  \/ ChildEvent \/ Heartbeat \/ End

Spec == Init /\ [][Next]_vars

-----------------------------------------------------------------------------
(* Properties.                                                             *)

Phases == {"off", "gone", "ready", "working", "late", "requesting", "asking", "resumed", "held",
           "compact1", "compact2", "resting1", "resting2", "manual1", "manual2"}
Reasons == {"none", "fresh", "idle", "failed", "limit", "interrupted", "permission", "question"}

\* The harness, its phase and the reports keep their shape.
TypeOK ==
  /\ h \in Harnesses /\ phase \in Phases /\ why \in Reasons /\ refused \in BOOLEAN
  /\ now \in 0..MaxEvents /\ used \subseteq Procs /\ Cardinality(used) <= MaxStarts
  /\ \A r \in fired : r.obs.kind = "report" /\ r.obs.at \in 1..now
  /\ sess.act \in {"none", "unknown", "idle", "running", "waiting", "failed", "interrupted"}
  /\ detail \in {"none", "permission", "question", "general", "usage_limit"}

Settled == Quiet /\ phase \notin {"off", "gone"} /\ Exists(sess)

\* A turn the user is not needed for shows as running, through tools, compaction
\* and delegated work, whichever hooks the harness has; a finished one shows how
\* it finished.
ActivityTold ==
  Settled =>
    /\ phase \in {"working", "compact1", "compact2", "held"} => sess.act = "running"
    /\ phase = "asking" /\ (Capabilities[h].waiting \/ HasHook(h, "Notification")) => sess.act = "waiting"
    /\ phase = "ready" =>
         sess.act \in CASE why = "fresh" -> {"idle", "unknown"}
                        [] why = "idle" -> {"idle"}
                        [] why \in {"failed", "limit"} -> {"failed"}
                        [] why = "interrupted" -> {"interrupted"}

\* A session whose harness reports starts and ends is live from the start on,
\* and gone when it ended, by its hooks alone.
PresenceTold ==
  Quiet =>
    /\ phase \notin {"off", "gone", "late"} /\ Capabilities[h].start => sess.presence = "live"
    /\ phase = "gone" => sess.presence = "gone"

\* What the user is asked for is named while it is asked, and an exhausted
\* limit is told apart from other failures, where the adapter says it can.
DetailTold ==
  Settled /\ sess.presence = "live" =>
    /\ phase = "asking" => ShownDetail(sess, detail) = why
    /\ phase = "ready" /\ why = "limit" /\ "usage_limit" \in NativeDetails[h] =>
         ShownDetail(sess, detail) = "usage_limit"
    /\ phase = "ready" /\ why = "failed" => ShownDetail(sess, detail) = "general"
    /\ sess.act \notin {"waiting", "failed"} => ShownDetail(sess, detail) = "none"

\* The process a session is bound to is the agent's own: not the hook's shell,
\* the wrapper that started it, or an agent that started it through a shell.
OwnProcess == Settled => sess.process = Agent

\* No installed hook makes a call that aht report refuses.
NoHookRefused == ~refused
=============================================================================
