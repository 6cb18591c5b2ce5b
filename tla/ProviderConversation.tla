------------------------ MODULE ProviderConversation ------------------------
(***************************************************************************)
(* pkg/fakeprovider: what a scripted reply looks like on the wire in each  *)
(* of the three protocols, whole (encode.go) and as a stream of events     *)
(* (stream.go), and what a client puts together from either.               *)
(*                                                                         *)
(* A text is a sequence of words; <<>> is the empty string. A tool call is *)
(* [id, args]. A reply is [text, calls].                                   *)
(*                                                                         *)
(* pkg/fakeprovider: a harness in conversation with the scripted provider. *)
(* The harness sends the whole conversation with every request, in one of  *)
(* three protocols, and side requests (titles) in between; the provider    *)
(* tells the two apart, asks its script for a reply and writes it whole or *)
(* as a stream; the harness runs the tools it is asked to run and sends    *)
(* their results back. Replies held back by a test, resets and concurrent  *)
(* requests are left out.                                                  *)
(***************************************************************************)
EXTENDS Naturals, Sequences, FiniteSets, SequencesExt

Anthropic == "anthropic-messages"
Chat      == "openai-chat"
Responses == "openai-responses"
Protocols == {Anthropic, Chat, Responses}

-----------------------------------------------------------------------------
(* Replies.                                                                *)

TextItem(text) == [type |-> "text", text |-> text, id |-> <<>>, args |-> "none"]
CallItem(call) == [type |-> "call", text |-> <<>>, id |-> call.id, args |-> call.args]

\* includesText: a reply without calls has a text even when it is empty.
IncludesText(reply) == reply.text # <<>> \/ reply.calls = <<>>

\* encodeCalls. The arguments stay a value: their JSON is the same in both forms.
EncodeCalls(reply) == [i \in DOMAIN reply.calls |-> CallItem(reply.calls[i])]

\* anthropicContent and responseOutput.
AnthropicContent(reply) ==
  (IF IncludesText(reply) THEN <<TextItem(reply.text)>> ELSE <<>>) \o EncodeCalls(reply)
NewMessageItem(text)  == TextItem(text)
NewFunctionItem(call) == CallItem(call)
ResponseOutput(reply) ==
  (IF IncludesText(reply) THEN <<NewMessageItem(reply.text)>> ELSE <<>>)
    \o [i \in DOMAIN reply.calls |-> NewFunctionItem(reply.calls[i])]

AnthropicStopReason(reply) == IF reply.calls # <<>> THEN "tools" ELSE "end"
ChatFinishReason(reply)    == IF reply.calls # <<>> THEN "tools" ELSE "end"

\* chatContent: null when there are calls and no text.
ChatContent(reply)   == IF reply.text = <<>> /\ reply.calls # <<>> THEN <<>> ELSE reply.text
ChatToolCalls(reply) == [i \in DOMAIN reply.calls |-> [index |-> i - 1, item |-> CallItem(reply.calls[i])]]

NewAnthropicMessage(content, stop) == [items |-> content, stop |-> stop]
NewChatCompletion(reply) ==
  [text |-> ChatContent(reply), calls |-> ChatToolCalls(reply), stop |-> ChatFinishReason(reply)]
NewResponseObject(output) == [items |-> output, stop |-> "completed"]

\* completeBody.
CompleteBody(p, reply) ==
  CASE p = Anthropic -> NewAnthropicMessage(AnthropicContent(reply), AnthropicStopReason(reply))
    [] p = Chat      -> NewChatCompletion(reply)
    [] p = Responses -> NewResponseObject(ResponseOutput(reply))

-----------------------------------------------------------------------------
(* Streams. A writer is [events, marked, sequence]; an event carries the   *)
(* mark of the first content event.                                        *)

EmptyWriter == [events |-> <<>>, marked |-> FALSE, sequence |-> 0]

NoItem == [type |-> "none", text |-> <<>>, id |-> <<>>, args |-> "none"]
Event(name, index, item) ==
  [name |-> name, index |-> index, item |-> item, calls |-> <<>>, stop |-> "none",
   body |-> <<>>, seq |-> 0, content |-> FALSE]

\* eventWriter.addRaw, eventWriter.add: only the first event that carries content is marked.
AddEvent(w, e, carries) ==
  [w EXCEPT !.events = Append(@, [e EXCEPT !.content = carries /\ ~w.marked]),
            !.marked = @ \/ carries]

\* eventWriter.nextSequence, and the event that takes the number.
AddNumbered(w, e, carries) ==
  AddEvent([w EXCEPT !.sequence = @ + 1], [e EXCEPT !.seq = w.sequence], carries)

\* anthropicBlock: start, the whole content as one delta, stop.
AnthropicBlock(w, index, start, delta) ==
  LET s == AddEvent(w, Event("content_block_start", index, start), FALSE)
      d == AddEvent(s, Event("content_block_delta", index, delta), TRUE)
  IN  AddEvent(d, Event("content_block_stop", index, NoItem), FALSE)

Started(item) == [item EXCEPT !.text = <<>>, !.args = "none"]

AnthropicCalls(w, index, reply) ==
  FoldLeftDomain(LAMBDA acc, i: AnthropicBlock(acc, index + i - 1, Started(CallItem(reply.calls[i])), CallItem(reply.calls[i])),
                 w, reply.calls)

AnthropicStream(reply) ==
  LET start == AddEvent(EmptyWriter, Event("message_start", 0, NoItem), FALSE)
      text  == IF IncludesText(reply)
               THEN AnthropicBlock(start, 0, TextItem(<<>>), TextItem(reply.text)) ELSE start
      calls == AnthropicCalls(text, IF IncludesText(reply) THEN 1 ELSE 0, reply)
      delta == AddEvent(calls, [Event("message_delta", 0, NoItem) EXCEPT !.stop = AnthropicStopReason(reply)], FALSE)
  IN  AddEvent(delta, Event("message_stop", 0, NoItem), FALSE)

\* newChatChunk.
NewChatChunk(text, calls, stop) ==
  [Event("chunk", 0, TextItem(text)) EXCEPT !.calls = calls, !.stop = stop]

ChatStream(reply) ==
  LET delta == AddEvent(EmptyWriter, NewChatChunk(reply.text, ChatToolCalls(reply), "none"), TRUE)
      last  == AddEvent(delta, NewChatChunk(<<>>, <<>>, ChatFinishReason(reply)), FALSE)
  IN  AddEvent(last, Event("[DONE]", 0, NoItem), FALSE)

\* responsesStream.
ResponsesText(w, reply) ==
  LET item  == NewMessageItem(reply.text)
      added == AddNumbered(w, Event("output_item.added", 0, item), TRUE)
      delta == AddNumbered(added, Event("output_text.delta", 0, item), FALSE)
      text  == AddNumbered(delta, Event("output_text.done", 0, item), FALSE)
  IN  AddNumbered(text, Event("output_item.done", 0, item), FALSE)

ResponsesCall(w, index, call) ==
  LET added == AddNumbered(w, Event("output_item.added", index, NewFunctionItem(call)), TRUE)
  IN  AddNumbered(added, Event("output_item.done", index, NewFunctionItem(call)), FALSE)

ResponsesStream(reply) ==
  LET text  == IF IncludesText(reply) THEN ResponsesText(EmptyWriter, reply) ELSE EmptyWriter
      first == IF IncludesText(reply) THEN 1 ELSE 0
      calls == FoldLeftDomain(LAMBDA acc, i: ResponsesCall(acc, first + i - 1, reply.calls[i]), text, reply.calls)
  IN  AddNumbered(calls, [Event("completed", 0, NoItem) EXCEPT !.body = ResponseOutput(reply)], FALSE)

\* streamEvents.
StreamEvents(p, reply) ==
  CASE p = Anthropic -> AnthropicStream(reply).events
    [] p = Chat      -> ChatStream(reply).events
    [] p = Responses -> ResponsesStream(reply).events

-----------------------------------------------------------------------------
(* The client: a provider's library in the harness. A message is           *)
(* [text, calls, tools]: the texts together, the calls in order, and       *)
(* whether the provider says that it waits for tool results.               *)

ItemsText(items)  == FlattenSeq([i \in DOMAIN items |-> items[i].text])
ItemsCalls(items) ==
  LET calls == SelectSeq(items, LAMBDA x: x.type = "call")
  IN  [i \in DOMAIN calls |-> [id |-> calls[i].id, args |-> calls[i].args]]
Message(items, tools) == [text |-> ItemsText(items), calls |-> ItemsCalls(items), tools |-> tools]

ReadBody(p, body) ==
  IF p = Chat
  THEN [text  |-> body.text, tools |-> body.stop = "tools",
        calls |-> [i \in DOMAIN body.calls |-> [id |-> body.calls[i].item.id, args |-> body.calls[i].item.args]]]
  ELSE Message(body.items, IF p = Anthropic THEN body.stop = "tools" ELSE ItemsCalls(body.items) # <<>>)

Named(evs, name)    == SelectSeq(evs, LAMBDA e: e.name = name)
Terminal(p)         == CASE p = Anthropic -> "message_stop" [] p = Chat -> "[DONE]" [] p = Responses -> "completed"
StreamEnded(p, evs) == Named(evs, Terminal(p)) # <<>>

\* The items at the indices 0, 1, 2 ... of a stream: what began there, with what the
\* deltas for that index add to it.
AnthropicItem(evs, index) ==
  LET start == SelectLastInSeq(evs, LAMBDA e: e.name = "content_block_start" /\ e.index = index)
      delta == SelectLastInSeq(evs, LAMBDA e: e.name = "content_block_delta" /\ e.index = index)
  IN  [evs[start].item EXCEPT !.text = IF delta = 0 THEN @ ELSE evs[delta].item.text,
                              !.args = IF delta = 0 THEN @ ELSE evs[delta].item.args]
Indices(evs, name) == {e.index : e \in ToSet(Named(evs, name))}
AnthropicItems(evs) ==
  [i \in 1 .. Cardinality(Indices(evs, "content_block_start")) |-> AnthropicItem(evs, i - 1)]

DoneItems(evs) ==
  LET last(index) == SelectLastInSeq(evs, LAMBDA e: e.name = "output_item.done" /\ e.index = index)
  IN  [i \in 1 .. Cardinality(Indices(evs, "output_item.done")) |-> evs[last(i - 1)].item]

ChatCalls(evs) == FlattenSeq([i \in DOMAIN evs |-> evs[i].calls])

ReadStream(p, evs) ==
  CASE p = Anthropic ->
         Message(AnthropicItems(evs), \E e \in ToSet(evs) : e.name = "message_delta" /\ e.stop = "tools")
    [] p = Chat ->
         [text  |-> ItemsText([i \in DOMAIN evs |-> evs[i].item]),
          calls |-> [i \in DOMAIN ChatCalls(evs) |->
                       LET c == ChatCalls(evs)[i].item IN [id |-> c.id, args |-> c.args]],
          tools |-> \E e \in ToSet(evs) : e.stop = "tools"]
    [] p = Responses -> Message(DoneItems(evs), ItemsCalls(DoneItems(evs)) # <<>>)

\* Some of a reply has come in: more than the frame of the stream.
Began(evs) ==
  \E e \in ToSet(evs) : e.name \in {"content_block_delta", "chunk", "output_item.added"}

-----------------------------------------------------------------------------
(* The conversation.                                                       *)

CONSTANTS
  Protos,      (* protocols of the harness                                 *)
  Scripts,     (* scripts: [kind, id, marker, rejected, final]             *)
  FreeReplies, (* what a script function may answer                        *)
  Schemas,     (* structured outputs that side requests ask for            *)
  Histories,   (* conversations the harness resumes                        *)
  Typed,       (* what the user may type                                   *)
  MaxRequests, (* bound: requests of the harness                           *)
  MaxSides     (* bound: side requests among them                          *)

ConversationAssumption ==
  /\ Protos \subseteq Protocols /\ MaxRequests \in Nat /\ MaxSides \in Nat
  /\ \A s \in Scripts : s.kind \in {"round trip", "echo", "free"}

VARIABLES
  proto,    (* the harness's protocol                                      *)
  script,   (* the server's script                                         *)
  log,      (* the conversation as the harness keeps it                    *)
  index,    (* conversation requests recorded                              *)
  failed,   (* the session has an error                                    *)
  req,      (* the request in flight, or the last one                      *)
  rest,     (* events that are not written yet                             *)
  got,      (* events the harness has read                                 *)
  harness,  (* what the harness does                                       *)
  sent,     (* requests sent: conversation and side                        *)
  honest,   (* the harness has only done what the script is written for    *)
  ran       (* the results of the call the script asked for                *)

vars == <<proto, script, log, index, failed, req, rest, got, harness, sent, honest, ran>>

-----------------------------------------------------------------------------
(* What the harness puts on the wire, and what the provider reads of it.   *)

User(text)          == [from |-> "user", text |-> text, id |-> [call |-> FALSE, segs |-> <<>>], out |-> <<>>]
Assistant(text)     == [User(text) EXCEPT !.from = "assistant"]
Result(id, out)     == [User(<<>>) EXCEPT !.from = "result", !.id = id, !.out = out]
NoId                == [call |-> FALSE, segs |-> <<>>]
Part(type, text, id, out) == [type |-> type, text |-> text, id |-> id, out |-> out]
WireMessage(role, type, parts, id, out) ==
  [role |-> role, type |-> type, parts |-> parts, id |-> id, out |-> out]

\* A message of the conversation in the harness's protocol.
Wire(p, x) ==
  CASE x.from # "result" -> WireMessage(x.from, "message", <<Part("text", x.text, NoId, <<>>)>>, NoId, <<>>)
    [] p = Anthropic     -> WireMessage("user", "message", <<Part("tool_result", <<>>, x.id, x.out)>>, NoId, <<>>)
    [] p = Chat          -> WireMessage("tool", "message", <<>>, x.id, x.out)
    [] p = Responses     -> WireMessage("none", "function_call_output", <<>>, x.id, x.out)

\* The body of a request. The responses protocol may send a single text as its input.
Body(p, conversation, plain, tools, stream, marked, format) ==
  [input    |-> IF plain THEN conversation[1].text ELSE <<>>,
   messages |-> IF plain THEN <<>> ELSE [i \in DOMAIN conversation |-> Wire(p, conversation[i])],
   tools    |-> tools, stream |-> stream, marked |-> marked, format |-> format]
Unstructured == [structured |-> FALSE, props |-> <<>>, listed |-> FALSE, required |-> {}]

\* messagesOf.
MessagesOf(p, value) ==
  IF p = Responses /\ value.input # <<>>
  THEN <<WireMessage("user", "message", <<Part("text", value.input, NoId, <<>>)>>, NoId, <<>>)>> \o value.messages
  ELSE value.messages

HasToolResultPart(msg) == \E part \in ToSet(msg.parts) : part.type = "tool_result"

\* contentText.
ContentText(parts) == FlattenSeq([i \in DOMAIN parts |-> parts[i].text])

\* userText: the last message of the user that is not a tool result.
UserText(p, value) ==
  LET msgs == MessagesOf(p, value)
      last == SelectLastInSeq(msgs, LAMBDA x: x.role = "user" /\ ~HasToolResultPart(x))
  IN  IF last = 0 THEN <<>> ELSE ContentText(msgs[last].parts)

\* leafText, leaves: the strings of an output, however deep.
LeafText(out) == FlattenSeq(out)

ChatToolResults(msg) ==
  IF msg.role = "tool" THEN <<[id |-> msg.id, out |-> LeafText(msg.out)]>> ELSE <<>>

AnthropicToolResults(msg) ==
  LET parts == SelectSeq(msg.parts, LAMBDA x: x.type = "tool_result")
  IN  [i \in DOMAIN parts |-> [id |-> parts[i].id, out |-> LeafText(parts[i].out)]]

\* toolResultsIn.
ToolResultsIn(p, msg) ==
  CASE p = Anthropic -> AnthropicToolResults(msg)
    [] p = Chat      -> ChatToolResults(msg)
    [] p = Responses -> IF msg.type = "function_call_output"
                        THEN <<[id |-> msg.id, out |-> LeafText(msg.out)]>> ELSE ChatToolResults(msg)

\* toolResults.
ToolResults(p, value) ==
  LET msgs == MessagesOf(p, value) IN FlattenSeq([i \in DOMAIN msgs |-> ToolResultsIn(p, msgs[i])])

\* newRequest.
NewRequest(p, value) ==
  [stream |-> value.stream, tools |-> value.tools, userText |-> UserText(p, value),
   results |-> ToolResults(p, value)]

-----------------------------------------------------------------------------
(* Side requests.                                                          *)

HasTool(request, name) == name \in request.tools

StructuredSchema(value) == value.format.structured

\* isSideRequest: a structured output, the title tool, or a title prompt in the body.
IsSideRequest(request, value) ==
  StructuredSchema(value) \/ HasTool(request, "session_title") \/ value.marked

\* requiredNames.
Wanted(format, name) == format.listed => name \in format.required

\* sideText: the string properties of the schema that it requires, or all of them.
SideFields(format) ==
  {n \in DOMAIN format.props : format.props[n] = "string" /\ Wanted(format, n)}
SideText(value) ==
  IF StructuredSchema(value) THEN <<SideFields(value.format)>> ELSE <<"Fake session">>

-----------------------------------------------------------------------------
(* Scripts.                                                                *)

Numeric == {"1", "2"}

\* matchesCallID: harnesses drop the prefix call_ and add a number of their own.
TrimmedActual(id) ==
  LET n == Len(id.segs) IN
  IF n > 1 /\ id.segs[n] \in Numeric THEN SubSeq(id.segs, 1, n - 1) ELSE id.segs

MatchesCallID(actual, expected) ==
  expected = NoId \/ actual = expected \/ TrimmedActual(actual) = expected.segs

\* Request.HasToolResult. The empty text is in every output.
HasToolResult(request, id, contains) ==
  \E r \in ToSet(request.results) :
    MatchesCallID(r.id, id) /\ (contains # "" => contains \in ToSet(r.out))

\* ToolRoundTrip.callID.
CallID(s, p) ==
  CASE s.id # NoId       -> s.id
    [] p = Anthropic     -> [call |-> FALSE, segs |-> <<"toolu", "fake">>]
    [] OTHER             -> [call |-> TRUE, segs |-> <<"fake">>]

TextReply(text)  == [text |-> text, calls |-> <<>>, error |-> 0, hold |-> FALSE, drop |-> FALSE]
CallReply(calls) == [TextReply(<<>>) EXCEPT !.calls = calls]
ScriptError      == {}

\* ToolRoundTrip.finalReply.
FinalReply(s, request, id) ==
  LET accepted ==
        IF s.rejected
        THEN HasToolResult(request, id, "") /\ ~(s.marker # "" /\ HasToolResult(request, id, s.marker))
        ELSE HasToolResult(request, id, s.marker)
  IN  IF accepted THEN {TextReply(IF s.final = <<>> THEN <<"done">> ELSE s.final)} ELSE ScriptError

\* ToolRoundTrip.Reply.
RoundTripReply(s, request, n, id) ==
  CASE n = 0 -> IF HasTool(request, "shell") THEN {CallReply(<<[id |-> id, args |-> "run"]>>)} ELSE ScriptError
    [] n = 1 -> FinalReply(s, request, id)
    [] OTHER -> ScriptError

\* Echo.
EchoReply(request) == {TextReply(request.userText)}

\* Script.Reply: the replies the script may give; none when it returns an error.
ScriptReplies(s, request, n, p) ==
  CASE s.kind = "round trip" -> RoundTripReply(s, request, n, CallID(s, p))
    [] s.kind = "echo"       -> EchoReply(request)
    [] s.kind = "free"       -> FreeReplies

\* validateReply.
ValidErrorReply(reply) ==
  reply.error \in 400 .. 599 /\ reply.text = <<>> /\ reply.calls = <<>> /\ ~reply.hold /\ ~reply.drop
ValidOutputReply(reply, stream) ==
  /\ reply.hold => stream /\ ~reply.drop
  /\ \A call \in ToSet(reply.calls) : call.id # NoId
ValidReply(reply, stream) ==
  IF reply.error # 0 THEN ValidErrorReply(reply) ELSE ValidOutputReply(reply, stream)

-----------------------------------------------------------------------------
(* The harness.                                                            *)

NoReply == TextReply(<<>>)
NoRequest == [step |-> "none", kind |-> "none", value |-> Body(Chat, <<>>, FALSE, {}, FALSE, FALSE, Unstructured),
              n |-> 0, reply |-> NoReply, outcome |-> "none"]

LastTyped(conversation) ==
  LET last == SelectLastInSeq(conversation, LAMBDA x: x.from = "user")
  IN  IF last = 0 THEN <<>> ELSE conversation[last].text

Init ==
  /\ proto \in Protos /\ script \in Scripts /\ log \in Histories
  /\ index = 0 /\ failed = FALSE /\ req = NoRequest /\ rest = <<>> /\ got = <<>>
  /\ harness = "idle" /\ sent = [conversation |-> 0, side |-> 0]
  /\ honest = TRUE /\ ran = <<>>

\* The user types. A script is written for one prompt.
Prompt(text) ==
  /\ harness \in {"idle", "answered", "asked"}
  /\ log' = Append(log, User(text))
  /\ harness' = "ready" /\ honest' = (honest /\ index = 0 /\ req = NoRequest)
  /\ UNCHANGED <<proto, script, index, failed, req, rest, got, sent, ran>>

\* A resumed conversation goes on where it stopped.
GoOn ==
  /\ harness = "idle" /\ log # <<>> /\ harness' = "ready"
  /\ UNCHANGED <<proto, script, log, index, failed, req, rest, got, sent, honest, ran>>

Sendable == req.step \in {"none", "settled"} /\ sent.conversation + sent.side < MaxRequests

\* The harness sends the conversation, or sends it again.
SendConversation(stream, plain, tools) ==
  /\ Sendable /\ harness \in {"ready", "retry"}
  /\ plain => proto = Responses /\ Len(log) = 1 /\ log[1].from = "user"
  /\ req' = [NoRequest EXCEPT !.step = "sent", !.kind = "conversation",
                              !.value = Body(proto, log, plain, tools, stream, FALSE, Unstructured)]
  /\ sent' = [sent EXCEPT !.conversation = @ + 1]
  /\ honest' = (honest /\ harness = "ready" /\ "shell" \in tools)
  /\ harness' = "waiting" /\ got' = <<>> /\ rest' = <<>>
  /\ UNCHANGED <<proto, script, log, index, failed, ran>>

\* The harness asks for a title, between two requests of the conversation.
SendSide(stream, tools, marked, format) ==
  /\ Sendable /\ harness \in {"ready", "answered"} /\ sent.side < MaxSides
  /\ IsSideRequest([tools |-> tools], [marked |-> marked, format |-> format])
  /\ req' = [NoRequest EXCEPT !.step = "sent", !.kind = "side", !.n = IF harness = "ready" THEN 0 ELSE 1,
                              !.value = Body(proto, log, FALSE, tools, stream, marked, format)]
  /\ sent' = [sent EXCEPT !.side = @ + 1]
  /\ harness' = "titled" /\ got' = <<>> /\ rest' = <<>>
  /\ UNCHANGED <<proto, script, log, index, failed, honest, ran>>

-----------------------------------------------------------------------------
(* The provider.                                                           *)

Settled(r, outcome) == [r EXCEPT !.step = "settled", !.outcome = outcome]

\* Server.answer, writeReply: an error or a dropped reply at once, a whole body, or the
\* events of a stream one after the other.
Answer(r, reply) ==
  LET answered == [r EXCEPT !.reply = reply] IN
  CASE reply.error # 0 -> /\ req' = Settled(answered, "rejected") /\ rest' = <<>>
    [] reply.error = 0 /\ r.value.stream ->
         /\ req' = [answered EXCEPT !.step = "writing"] /\ rest' = StreamEvents(proto, reply)
    [] OTHER -> /\ req' = Settled(answered, IF reply.drop THEN "dropped" ELSE "completed") /\ rest' = <<>>

\* Server.serveSide: the script is not asked.
ServeSide ==
  /\ req.step = "sent" /\ IsSideRequest(NewRequest(proto, req.value), req.value)
  /\ Answer(req, TextReply(SideText(req.value)))
  /\ UNCHANGED <<proto, script, log, index, failed, got, harness, sent, honest, ran>>

\* Server.failRequest.
FailRequest(r) ==
  /\ failed' = TRUE /\ req' = Settled(r, "failed") /\ rest' = <<>>

\* Server.recordConversation gives the request its index.
Recorded == index

\* Server.serveConversation.
ServeConversation ==
  /\ req.step = "sent" /\ ~IsSideRequest(NewRequest(proto, req.value), req.value)
  /\ index' = index + 1
  /\ LET request == NewRequest(proto, req.value)
         replies == ScriptReplies(script, request, Recorded, proto)
     IN  \/ /\ replies = ScriptError
            /\ FailRequest([req EXCEPT !.n = index])
         \/ \E reply \in replies :
              IF ValidReply(reply, request.stream)
              THEN Answer([req EXCEPT !.n = index], reply) /\ UNCHANGED failed
              ELSE FailRequest([req EXCEPT !.n = index])
  /\ UNCHANGED <<proto, script, log, got, harness, sent, honest, ran>>

\* writeEvents: one event reaches the harness. After the one that is marked the
\* connection drops, or waits, when the reply says so.
WriteEvent ==
  /\ req.step = "writing" /\ rest # <<>>
  /\ got' = Append(got, Head(rest))
  /\ LET marked == Head(rest).content IN
     \/ /\ marked /\ req.reply.drop
        /\ req' = Settled(req, "dropped") /\ rest' = <<>>
     \/ /\ marked /\ ~req.reply.drop /\ req.reply.hold
        /\ req' = [req EXCEPT !.step = "held"] /\ rest' = Tail(rest)
     \/ /\ ~(marked /\ (req.reply.drop \/ req.reply.hold))
        /\ rest' = Tail(rest)
        /\ req' = IF Tail(rest) = <<>> THEN Settled(req, "completed") ELSE req
  /\ UNCHANGED <<proto, script, log, index, failed, harness, sent, honest, ran>>

\* The test releases a held stream, or gives it up.
EndHold ==
  /\ req.step = "held"
  /\ \/ /\ req' = [req EXCEPT !.step = "writing"] /\ UNCHANGED rest
     \/ /\ req' = Settled(req, "canceled") /\ rest' = <<>>
  /\ UNCHANGED <<proto, script, log, index, failed, got, harness, sent, honest, ran>>

\* The harness hangs up in the middle of a stream; the next write fails.
HangUp ==
  /\ req.step \in {"writing", "held"} /\ rest # <<>>
  /\ req' = Settled(req, "canceled") /\ rest' = <<>>
  /\ UNCHANGED <<proto, script, log, index, failed, got, harness, sent, honest, ran>>

-----------------------------------------------------------------------------
(* The harness reads the answer.                                           *)

\* What the harness has of the answer: none unless it is complete.
Whole == IF req.value.stream THEN StreamEnded(proto, got) ELSE req.outcome = "completed"
Answered ==
  IF req.value.stream THEN ReadStream(proto, got) ELSE ReadBody(proto, CompleteBody(proto, req.reply))

ReadTitle ==
  /\ harness = "titled" /\ req.step = "settled"
  /\ harness' = IF req.n = 0 THEN "ready" ELSE "answered"
  /\ UNCHANGED <<proto, script, log, index, failed, req, rest, got, sent, honest, ran>>

\* A complete answer joins the conversation; the harness runs the calls in it or ends the
\* turn. An answer that broke off may be asked for again.
ReadAnswer ==
  /\ harness = "waiting" /\ req.step = "settled"
  /\ \/ /\ Whole
        /\ log' = Append(log, Assistant(Answered.text))
        /\ harness' = IF Answered.calls # <<>> THEN "asked" ELSE "answered"
     \/ /\ ~Whole /\ req.outcome # "failed"
        /\ harness' \in {"retry", "answered"} /\ UNCHANGED log
     \/ /\ req.outcome = "failed" /\ harness' = "answered" /\ UNCHANGED log
  /\ UNCHANGED <<proto, script, index, failed, req, rest, got, sent, honest, ran>>

\* How harnesses change the id of a call.
Rewritten(id) == {id, [id EXCEPT !.call = FALSE], [id EXCEPT !.segs = Append(@, "2")]}

\* The output is what the script expects.
Expected(out) ==
  /\ script.kind # "round trip" \/ script.marker = "" \/ (script.marker \in ToSet(LeafText(out)) <=> ~script.rejected)

\* The harness runs the first call and sends its result with the next request.
RunTool(id, out) ==
  /\ harness = "asked" /\ id \in Rewritten(Answered.calls[1].id)
  /\ log' = Append(log, Result(id, out))
  /\ ran' = Append(ran, LeafText(out))
  /\ honest' = (honest /\ Expected(out) /\ Len(Answered.calls) = 1)
  /\ harness' = "ready"
  /\ UNCHANGED <<proto, script, index, failed, req, rest, got, sent>>

Outputs == {<<<<"ok">>, <<"mark">>>>, <<<<"denied">>>>}

Next ==
  \/ \E text \in Typed : Prompt(text)
  \/ GoOn
  \/ \E stream, plain \in BOOLEAN, tools \in {{}, {"shell"}} : SendConversation(stream, plain, tools)
  \/ \E stream, marked \in BOOLEAN, tools \in {{}, {"session_title"}}, format \in Schemas \cup {Unstructured} :
       SendSide(stream, tools, marked, format)
  \/ ServeSide \/ ServeConversation \/ WriteEvent \/ EndHold \/ HangUp \/ ReadTitle \/ ReadAnswer
  \/ harness = "asked" /\ \E id \in Rewritten(Answered.calls[1].id), out \in Outputs : RunTool(id, out)

Spec == Init /\ [][Next]_vars

-----------------------------------------------------------------------------
(* Properties.                                                             *)

TypeOK ==
  /\ index \in 0 .. sent.conversation /\ failed \in BOOLEAN /\ honest \in BOOLEAN
  /\ req.step \in {"none", "sent", "writing", "held", "settled"}
  /\ req.outcome \in {"none", "completed", "rejected", "dropped", "canceled", "failed"}
  /\ harness \in {"idle", "ready", "waiting", "titled", "retry", "asked", "answered"}

\* A complete answer, streamed or whole, is the reply of the script in every protocol:
\* its text, its calls in order, and whether the provider waits for results
\* (stream.go, encode.go).
ReplyArrives ==
  req.step = "settled" /\ Whole =>
    /\ Answered.text = req.reply.text /\ Answered.calls = req.reply.calls
    /\ Answered.tools = (req.reply.calls # <<>>)

\* The recorded outcome is what the harness saw: completed if and only if it has the whole
\* answer, and a dropped stream broke off after some of the reply and before its end
\* (Reply.Disconnect: after the first content event).
OutcomeIsSeen ==
  req.step = "settled" /\ req.value.stream =>
    /\ req.outcome = "completed" <=> StreamEnded(proto, got)
    /\ req.outcome = "dropped" => Began(got)
    /\ req.reply.drop => req.outcome = "dropped" \/ req.outcome \in {"canceled", "failed"}

\* A stream waits for the test at most once: nothing is marked after a hold
\* (Reply.HoldMidStream: after its first content event).
HeldOnce ==
  req.step = "held" \/ (req.step = "writing" /\ \E e \in ToSet(got) : e.content) =>
    \A e \in ToSet(rest) : ~e.content

\* The final text of a round trip means that the harness ran the call, or was refused as
\* the script expects, and that this result is in the request (ToolRoundTrip).
FinalMeansRan ==
  script.kind = "round trip" /\ req.kind = "conversation" /\ req.step \in {"writing", "held", "settled"}
    /\ req.outcome # "failed" /\ req.reply.calls = <<>> =>
      /\ ran # <<>>
      /\ script.marker # "" /\ ~script.rejected => \E i \in DOMAIN ran : script.marker \in ToSet(ran[i])
      /\ script.marker # "" /\ script.rejected => \E i \in DOMAIN ran : script.marker \notin ToSet(ran[i])

\* A harness that sends each request once, offers the tool and runs the call as expected
\* never fails the session, whatever side requests it sends in between.
HonestNeverFails == script.kind = "round trip" /\ honest => ~failed

\* An echoed text is what the user typed last, before or after tool results (userText).
EchoIsHeard ==
  script.kind = "echo" /\ req.kind = "conversation" /\ req.step = "settled" /\ Whole /\ harness = "waiting" =>
    Answered.text = LastTyped(log)

\* A structured side answer has every string the schema requires, and has something when
\* the schema has strings and requires nothing by name (sideText).
SideFits ==
  req.kind = "side" /\ req.step = "settled" /\ req.outcome = "completed" /\ StructuredSchema(req.value) =>
    LET f == req.value.format
        strings == {n \in DOMAIN f.props : f.props[n] = "string"}
    IN  /\ f.required \cap strings \subseteq Answered.text[1]
        /\ ~f.listed => Answered.text[1] = strings
=============================================================================
