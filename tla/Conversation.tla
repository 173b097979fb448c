---------------------------- MODULE Conversation ----------------------------
(***************************************************************************)
(* What the model adapters (pkg/adk-util/genai) have in common: the        *)
(* conversation that the ADK runner keeps, a request made from it, and the *)
(* answer, which may arrive as a stream and becomes the next content.      *)
(*                                                                         *)
(* The runner and the API are external.  The runner asks for an answer     *)
(* after what a user or a tool has said.  A call of a tool may stay        *)
(* without an answer when the next request is made (the tool is slow, the  *)
(* process died, the user went on), and calls may be answered apart.       *)
(*                                                                         *)
(* Data: a text is the sequence of the stream's deltas it consists of, the *)
(* text of a user is <<0>>; arguments and results of tools are left out.   *)
(***************************************************************************)
EXTENDS Naturals, Sequences, SequencesExt

CONSTANTS
    ToolIDs,        \* IDs of tool calls
    NoID,           \* no ID
    MaxContents,    \* bound: contents of the conversation
    MaxBlocks,      \* bound: blocks of an answer
    MaxDeltas       \* bound: text deltas of an answer

ASSUME NoIDAssumption == NoID \notin ToolIDs
ASSUME BoundAssumption ==
    MaxContents \in Nat /\ MaxBlocks \in Nat /\ MaxDeltas \in Nat

VARIABLES
    contents,   \* req.Contents: the conversation
    open,       \* the calls of the model that no tool has answered yet
    phase,      \* is an answer being received?
    stream,     \* was the last answer asked for as a stream?
    request,    \* the messages of the request
    blocks,     \* the answer as far as it has been received
    out         \* the responses yielded to the runner

vars == <<contents, open, phase, stream, request, blocks, out>>

Says(kind, text) == [kind |-> kind, id |-> NoID, text |-> text]
Names(kind, id) == [kind |-> kind, id |-> id, text |-> <<>>]

\* SelectSeq, in a form that provers can unfold.
Chosen(s, Test(_)) ==
    FlattenSeq([i \in DOMAIN s |-> IF Test(s[i]) THEN <<s[i]>> ELSE <<>>])

Joined(s) == FlattenSeq([i \in DOMAIN s |-> s[i].text])

Init ==
    /\ contents = <<>>
    /\ open = {}
    /\ phase = "idle"
    /\ stream = FALSE
    /\ request = <<>>
    /\ blocks = <<>>
    /\ out = <<>>

-----------------------------------------------------------------------------
(* The runner. *)

UserSays(part) ==
    /\ phase = "idle"
    /\ Len(contents) < MaxContents
    /\ contents' = Append(contents, [role |-> "user", parts |-> <<part>>])
    /\ out' = <<>>
    /\ stream' = FALSE
    /\ UNCHANGED <<open, phase, request, blocks>>

\* Tools answer some of the calls, in one content.  A client may bring results
\* of its own, and say something with them.
ToolsAnswer(ids, said) ==
    /\ phase = "idle"
    /\ Len(contents) < MaxContents
    /\ ids # {}
    /\ contents' = Append(contents,
                       [role |-> "user",
                        parts |-> said \o SetToSeq({Names("response", id) : id \in ids})])
    /\ open' = open \ ids
    /\ out' = <<>>
    /\ stream' = FALSE
    /\ UNCHANGED <<phase, request, blocks>>

UserParts == {Says("text", <<0>>), Says("media", <<>>), Says("odd", <<>>)}
Runner ==
    \/ \E part \in UserParts : UserSays(part)
    \/ \E ids \in SUBSET open, said \in {<<>>, <<Says("text", <<0>>)>>} : ToolsAnswer(ids, said)

-----------------------------------------------------------------------------
(* A request and its answer. *)

Yield(kind, text) == out' = Append(out, [kind |-> kind, text |-> text])

Calls(parts) == {p.id : p \in {q \in ToSet(parts) : q.kind \in {"call", "tool_use"}}}

\* The request is built, and sent if that succeeds.
Asks(streamed, builds, messages) ==
    /\ phase = "idle"
    /\ contents # <<>>
    /\ Last(contents).role = "user"
    /\ stream' = streamed
    /\ IF builds
       THEN /\ phase' = "receiving"
            /\ request' = messages
            /\ out' = <<>>
       ELSE /\ out' = <<[kind |-> "error", text |-> <<>>]>>
            /\ UNCHANGED <<phase, request>>
    /\ UNCHANGED <<contents, open, blocks>>

\* The request and the answer are local to the call, and end with it.
Ends ==
    /\ phase' = "idle"
    /\ request' = <<>>
    /\ blocks' = <<>>

\* The answer goes on with a new block; a provider does not reuse its IDs.  An
\* answer that the conversation has no room for is not received.
BlockStarts(b) ==
    /\ phase = "receiving"
    /\ Len(contents) < MaxContents
    /\ Len(blocks) < MaxBlocks
    /\ b.id \notin Calls(blocks) \cup UNION {Calls(contents[i].parts) : i \in DOMAIN contents}
    /\ blocks' = Append(blocks, b)
    /\ UNCHANGED <<contents, open, phase, stream, request, out>>

\* The next delta, n, of the text of the answer.
Delta(n) ==
    /\ phase = "receiving"
    /\ Len(contents) < MaxContents
    /\ n = Len(Joined(blocks)) + 1
    /\ n <= MaxDeltas

\* The caller stops at a piece of the stream, and then gets nothing more.
Stops(n) ==
    /\ stream
    /\ Delta(n)
    /\ Yield("partial", <<n>>)
    /\ Ends
    /\ UNCHANGED <<contents, open, stream>>

\* The request or the stream fails.
Fails ==
    /\ phase = "receiving"
    /\ Yield("error", <<>>)
    /\ Ends
    /\ UNCHANGED <<contents, open, stream>>

\* The final response, which the runner adds to the conversation.
Final(parts) ==
    /\ phase = "receiving"
    /\ Len(contents) < MaxContents
    /\ Yield("final", Joined(parts))
    /\ contents' = Append(contents, [role |-> "model", parts |-> parts])
    /\ open' = open \cup Calls(parts)
    /\ Ends
    /\ UNCHANGED stream

-----------------------------------------------------------------------------
(* Properties. *)

Item(IDs) == [kind : {"text", "media", "odd", "call", "response", "thinking",
                      "tool_use", "tool_result"},
              id : IDs, text : Seq(Nat)]
Content == [role : {"user", "model"}, parts : Seq(Item(ToolIDs \cup {NoID}))]
Response == [kind : {"partial", "final", "error"}, text : Seq(Nat)]

\* The variables but request, whose messages are an adapter's own.
ConversationTypeOK ==
    /\ contents \in Seq(Content)
    /\ open \subseteq ToolIDs
    /\ phase \in {"idle", "receiving"}
    /\ stream \in BOOLEAN
    /\ blocks \in Seq(Item(ToolIDs \cup {NoID}))
    /\ out \in Seq(Response)

\* What a stream yielded piece by piece is the text of its final response
\* (anthropic.go:155, openai.go:420-421: "yields responses when they arrive,
\* followed by a final aggregated responses").
PartialsAddUp ==
    (stream /\ out # <<>> /\ Last(out).kind = "final") =>
        Joined(Front(out)) = Last(out).text

\* What the runner keeps of an answer, streamed or not, is all of its text and
\* all of its calls, in order; the two ways are coded apart (openai.go:314,
\* 487; anthropic.go:393).
AnswerKept ==
    [][ (Len(contents') > Len(contents) /\ Last(contents').role = "model") =>
          LET kept == Last(contents').parts
              ids(ps) == Chosen([i \in DOMAIN ps |-> ps[i].id], LAMBDA id : id # NoID)
          IN  /\ Joined(kept) = Joined(blocks)
              /\ ids(kept) = ids(blocks) ]_vars
=============================================================================
