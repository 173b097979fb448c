--------------------------- MODULE AnthropicModel ---------------------------
(***************************************************************************)
(* The Anthropic model adapter (pkg/adk-util/genai/anthropic): the         *)
(* conversation is turned into the messages of a request, the history is   *)
(* repaired to what the API accepts, and the blocks of the answer are      *)
(* turned into parts.                                                      *)
(*                                                                         *)
(* Definitions whose name ends in _ are slips a programmer could make in   *)
(* the definition that follows them; they are no part of the specification *)
(* and show that its properties can fail.                                  *)
(***************************************************************************)
EXTENDS Conversation

CONSTANT Invalid    \* the tool-call IDs that do not match ^[a-zA-Z0-9_-]+$

-----------------------------------------------------------------------------
(* convertContentToMessage. *)

\* The IDs that match the pattern are kept, the others replaced by a hash.
SanitizeToolID(id) == IF id \in Invalid THEN <<"toolu", id>> ELSE id

\* The ID of a tool's result is sent as it is.
ConvertPart_(p) ==
    CASE p.kind = "text" -> IF p.text = <<>> THEN <<>> ELSE <<p>>
      [] p.kind = "media" -> <<p>>
      [] p.kind = "call" -> <<Names("tool_use", SanitizeToolID(p.id))>>
      [] p.kind = "response" -> <<Names("tool_result", p.id)>>

\* The block a part becomes, if any.
ConvertPart(p) ==
    CASE p.kind = "text" -> IF p.text = <<>> THEN <<>> ELSE <<p>>
      [] p.kind = "media" -> <<p>>
      [] p.kind = "call" -> <<Names("tool_use", SanitizeToolID(p.id))>>
      [] p.kind = "response" -> <<Names("tool_result", SanitizeToolID(p.id))>>

ConvertContentToMessage(c) ==
    [role |-> IF c.role = "model" THEN "assistant" ELSE "user",
     blocks |-> FlattenSeq([i \in DOMAIN c.parts |-> ConvertPart(c.parts[i])])]

\* An inline datum of an unsupported MIME type is an error.
Convertible(h) ==
    \A i \in DOMAIN h : \A j \in DOMAIN h[i].parts : h[i].parts[j].kind # "odd"

HasContent(m) == m.blocks # <<>>

Messages(h) ==
    Chosen([i \in DOMAIN h |-> ConvertContentToMessage(h[i])], HasContent)

-----------------------------------------------------------------------------
(* repairMessageHistory. *)

ExtractToolResultIDs(m) == {b.id : b \in {c \in ToSet(m.blocks) : c.kind = "tool_result"}}

\* Results are looked for in all that follows.
AnsweredIDs_(ms, i) == UNION {ExtractToolResultIDs(ms[j]) : j \in i + 1 .. Len(ms)}

\* The tool_use IDs that message i may keep.
AnsweredIDs(ms, i) ==
    IF i < Len(ms) /\ ms[i + 1].role = "user" THEN ExtractToolResultIDs(ms[i + 1])
    ELSE {}

FilterToolUse(m, ids) ==
    [m EXCEPT !.blocks = Chosen(@, LAMBDA b : b.kind = "tool_use" => b.id \in ids)]

Filtered(ms, i) ==
    IF ms[i].role = "assistant" THEN FilterToolUse(ms[i], AnsweredIDs(ms, i))
    ELSE ms[i]

\* Messages that the filter has left empty stay.
RepairMessageHistory_(ms) == [i \in DOMAIN ms |-> Filtered(ms, i)]

RepairMessageHistory(ms) ==
    Chosen([i \in DOMAIN ms |-> Filtered(ms, i)], HasContent)

-----------------------------------------------------------------------------
(* GenerateContent. *)

\* buildMessageParams, and the request if it succeeds.
GenerateContent(streamed) ==
    Asks(streamed, Convertible(contents), RepairMessageHistory(Messages(contents)))

NewBlocks == {Says("text", <<>>), Says("thinking", <<>>)}
                \cup {Names("tool_use", id) : id \in ToolIDs}

\* A text delta is accumulated and, in a stream, yielded.
TextDelta(n) ==
    /\ Delta(n)
    /\ blocks # <<>>
    /\ Last(blocks).kind = "text"
    /\ blocks' = [blocks EXCEPT ![Len(blocks)].text = Append(@, n)]
    /\ IF stream THEN Yield("partial", <<n>>) ELSE UNCHANGED out
    /\ UNCHANGED <<contents, open, phase, stream, request>>

TextStops(n) == blocks # <<>> /\ Last(blocks).kind = "text" /\ Stops(n)

\* Only the last block of text is taken.
ConvertResponse_(bs) ==
    LET texts == {i \in DOMAIN bs : bs[i].kind = "text"}
        taken(i) == bs[i].kind = "text" => \A j \in texts : j <= i
        parts == [i \in DOMAIN bs |->
                    IF ~taken(i) \/ bs[i].kind = "thinking" THEN <<>>
                    ELSE IF bs[i].kind = "tool_use" THEN <<Names("call", bs[i].id)>>
                    ELSE <<bs[i]>>]
    IN  FlattenSeq(parts)

\* Text and tool_use blocks become parts, others are left out.
ConvertResponse(bs) ==
    FlattenSeq([i \in DOMAIN bs |->
        CASE bs[i].kind = "text" -> <<bs[i]>>
          [] bs[i].kind = "tool_use" -> <<Names("call", bs[i].id)>>
          [] OTHER -> <<>>])

Completes == Final(ConvertResponse(blocks))

Receives ==
    \/ \E b \in NewBlocks : BlockStarts(b)
    \/ \E n \in 1 .. MaxDeltas : TextDelta(n) \/ TextStops(n)
    \/ Fails
    \/ Completes

-----------------------------------------------------------------------------
(* Properties. *)

Message == [role : {"user", "assistant"},
            blocks : Seq(Item(ToolIDs \cup {NoID} \cup {<<"toolu", id>> : id \in Invalid}))
                        \ {<<>>}]

\* Every variable has its type; in particular no message of a request is
\* empty, which the API would refuse (anthropic.go:386-388, base.go:165).
TypeOK == ConversationTypeOK /\ request \in Seq(Message)

\* In every request each tool_use has its tool_result in the message right
\* after it, whatever calls were left unanswered or answered late
\* (anthropic.go:282: "each tool_use must have a corresponding tool_result
\* immediately after").
ToolUsesAnswered ==
    \A i \in DOMAIN request : \A j \in DOMAIN request[i].blocks :
        LET b == request[i].blocks[j] IN
        b.kind = "tool_use" =>
            /\ i < Len(request)
            /\ request[i + 1].role = "user"
            /\ Contains(request[i + 1].blocks, Names("tool_result", b.id))

\* The contents that say something, and what the API may be told of one: all
\* but the calls that the next of them does not answer.
Spoken == Chosen(contents, LAMBDA c : ConvertContentToMessage(c).blocks # <<>>)
Answered(i, id) ==
    i < Len(Spoken) /\ Contains(Spoken[i + 1].parts, Names("response", id))
Tellable(i) ==
    Chosen(Spoken[i].parts,
              LAMBDA p : /\ p.kind = "text" => p.text # <<>>
                         /\ p.kind = "call" => Answered(i, p.id))

\* The repair and the sanitizing of IDs lose nothing else: what is sent is, in
\* its order, all that was said, and every call that was answered in time with
\* every answer (base.go:137: "removes orphaned tool_use blocks").
OnlyOrphansDropped ==
    phase = "receiving" =>
        LET sent == FlattenSeq([i \in DOMAIN request |-> request[i].blocks])
            said == FlattenSeq([i \in DOMAIN Spoken |-> Tellable(i)])
        IN  /\ Len(sent) = Len(said)
            /\ \A i \in DOMAIN said : sent[i].text = said[i].text
=============================================================================
