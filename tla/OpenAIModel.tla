----------------------------- MODULE OpenAIModel -----------------------------
(***************************************************************************)
(* The OpenAI model adapter (pkg/adk-util/genai/openai): the conversation  *)
(* is turned into the messages of a chat completion, whose answer is one   *)
(* message, or the chunks of one.  Unlike the Anthropic adapter it does    *)
(* not repair the history: calls without an answer are sent as they are.   *)
(*                                                                         *)
(* A message is a role and its items; a tool's result is a message of its  *)
(* own.  The names of slips end in _, as in AnthropicModel.                *)
(***************************************************************************)
EXTENDS Conversation

CONSTANT Long       \* the tool-call IDs of more than maxToolCallIDLength bytes

-----------------------------------------------------------------------------
(* convertContentToMessages. *)

\* A long ID is replaced by a short hash of it.
NormalizeToolCallID(id) == IF id \in Long THEN <<"tc", id>> ELSE id

OfKind(parts, kind) == Chosen(parts, LAMBDA p : p.kind = kind)

\* The ID of a result is sent as it is.
ToolMessages_(parts) ==
    LET results == OfKind(parts, "response")
    IN  [i \in DOMAIN results |->
            [role |-> "tool", items |-> <<Names("tool_result", results[i].id)>>]]

ToolMessages(parts) ==
    LET results == OfKind(parts, "response")
        id(i) == NormalizeToolCallID(results[i].id)
    IN  [i \in DOMAIN results |->
            [role |-> "tool", items |-> <<Names("tool_result", id(i))>>]]

ToolCalls(parts) ==
    LET calls == OfKind(parts, "call")
    IN  [i \in DOMAIN calls |-> Names("tool_use", NormalizeToolCallID(calls[i].id))]

Texts(parts) == Chosen(parts, LAMBDA p : p.kind = "text" /\ p.text # <<>>)

\* The texts are joined.
JoinTexts(texts) == IF texts = <<>> THEN <<>> ELSE <<Says("text", Joined(texts))>>

\* A message has a text or calls.
BuildRoleMessage_(role, parts) ==
    IF role = "user"
    THEN [role |-> "user", items |-> JoinTexts(Texts(parts)) \o OfKind(parts, "media")]
    ELSE [role |-> "assistant",
          items |-> IF Texts(parts) # <<>> THEN JoinTexts(Texts(parts)) ELSE ToolCalls(parts)]

BuildRoleMessage(role, parts) ==
    IF role = "user"
    THEN [role |-> "user", items |-> JoinTexts(Texts(parts)) \o OfKind(parts, "media")]
    ELSE [role |-> "assistant", items |-> JoinTexts(Texts(parts)) \o ToolCalls(parts)]

ConvertContentToMessages(c) ==
    ToolMessages(c.parts)
        \o IF Texts(c.parts) \o OfKind(c.parts, "media") \o OfKind(c.parts, "call") = <<>>
           THEN <<>>
           ELSE <<BuildRoleMessage(c.role, c.parts)>>

\* convertInlineDataToPart refuses an unsupported MIME type.
Convertible(h) == \A i \in DOMAIN h : OfKind(h[i].parts, "odd") = <<>>

BuildChatCompletionParameters(h) ==
    FlattenSeq([i \in DOMAIN h |-> ConvertContentToMessages(h[i])])

-----------------------------------------------------------------------------
(* generate and generateStream. *)

GenerateContent(streamed) ==
    Asks(streamed, Convertible(contents), BuildChatCompletionParameters(contents))

NewCalls == {Names("call", id) : id \in ToolIDs}

\* A chunk with text; its deltas and those of calls may come in any order.
TextChunk(n) ==
    /\ Delta(n)
    /\ blocks' = Append(blocks, Says("text", <<n>>))
    /\ IF stream THEN Yield("partial", <<n>>) ELSE UNCHANGED out
    /\ UNCHANGED <<contents, open, phase, stream, request>>

ConvertResponse(bs) == JoinTexts(Texts(bs)) \o OfKind(bs, "call")

\* Calls are not taken from a stream.
BuildStreamFinalResponse_(bs) == JoinTexts(Texts(bs))

\* The same, from what ChatCompletionAccumulator has put together.
BuildStreamFinalResponse(bs) == JoinTexts(Texts(bs)) \o OfKind(bs, "call")

\* A completion without choices is an error of generate, which Fails covers,
\* and an answer without parts of generateStream.
Completes ==
    Final(IF stream THEN BuildStreamFinalResponse(blocks) ELSE ConvertResponse(blocks))

Receives ==
    \/ \E b \in NewCalls : BlockStarts(b)
    \/ \E n \in 1 .. MaxDeltas : TextChunk(n) \/ Stops(n)
    \/ Fails
    \/ Completes

-----------------------------------------------------------------------------
(* Properties. *)

Message == [role : {"tool", "user", "assistant"},
            items : Seq(Item(ToolIDs \cup {NoID} \cup {<<"tc", id>> : id \in Long}))
                      \ {<<>>}]

Calling(m) == {b.id : b \in {c \in ToSet(m.items) : c.kind = "tool_use"}}

\* Every tool message answers a call of an assistant message before it, and no
\* ID sent is too long, although an ID comes from the history and is shortened
\* apart for the call and for its result (openai.go:219-232, 248, 257).
ToolMessagesMatch ==
    \A i \in DOMAIN request : \A b \in ToSet(request[i].items) :
        /\ b.id \notin Long
        /\ b.kind = "tool_result" => \E j \in 1 .. i - 1 : b.id \in Calling(request[j])

\* Nothing that was said is lost on the way: the texts of the request are all
\* the texts of the conversation, its media, calls and results are all of them,
\* in order, however a content mixes them (openai.go:234-293).
HistorySent ==
    phase = "receiving" =>
        LET said == FlattenSeq([i \in DOMAIN contents |-> contents[i].parts])
            sent == FlattenSeq([i \in DOMAIN request |-> request[i].items])
            ids(ps, kind) == [i \in DOMAIN OfKind(ps, kind) |-> OfKind(ps, kind)[i].id]
            short(s) == [i \in DOMAIN s |-> NormalizeToolCallID(s[i])]
        IN  /\ Joined(sent) = Joined(said)
            /\ OfKind(sent, "media") = OfKind(said, "media")
            /\ ids(sent, "tool_use") = short(ids(said, "call"))
            /\ ids(sent, "tool_result") = short(ids(said, "response"))
=============================================================================
