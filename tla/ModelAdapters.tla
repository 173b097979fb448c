---------------------------- MODULE ModelAdapters ----------------------------
(***************************************************************************)
(* Conversations that are held through the model adapters.  A gateway uses *)
(* the provider it is configured with; sessions outlive it, so that what   *)
(* one provider has answered may be in the history that the other gets:    *)
(* the provider is chosen anew for every request.                          *)
(***************************************************************************)
EXTENDS Conversation

CONSTANTS
    Invalid,    \* the tool-call IDs that do not match ^[a-zA-Z0-9_-]+$
    Long        \* the tool-call IDs of more than 40 bytes

ASSUME IDAssumption == Invalid \subseteq ToolIDs /\ Long \subseteq ToolIDs

\* A hash that replaces a long ID has 40 bytes (openai.go:227), and one that
\* replaces an invalid ID is not the ID of a call.
ASSUME HashAssumption ==
    /\ \A id \in Long : <<"tc", id>> \notin Long
    /\ \A id \in Invalid : <<"toolu", id>> \notin ToolIDs

VARIABLE provider   \* the provider of the last request, if the runner has not gone on

Anthropic == INSTANCE AnthropicModel
OpenAI == INSTANCE OpenAIModel

providerVars == <<vars, provider>>

GenerateContent(streamed) ==
    \/ provider' = "anthropic" /\ Anthropic!GenerateContent(streamed)
    \/ provider' = "openai" /\ OpenAI!GenerateContent(streamed)

Receives ==
    /\ \/ provider = "anthropic" /\ Anthropic!Receives
       \/ provider = "openai" /\ OpenAI!Receives
    /\ UNCHANGED provider

ModelsInit == Init /\ provider = "none"

Next ==
    \/ Runner /\ provider' = "none"
    \/ \E streamed \in BOOLEAN : GenerateContent(streamed)
    \/ Receives

Spec == ModelsInit /\ [][Next]_providerVars

-----------------------------------------------------------------------------
(* Properties. *)

\* Every variable has its type; in particular no message of a request is
\* empty, which the API would refuse (anthropic.go:386-388, base.go:165).
TypeOK ==
    /\ ConversationTypeOK
    /\ provider \in {"anthropic", "openai", "none"}
    /\ request \in Seq(IF provider = "anthropic" THEN Anthropic!Message ELSE OpenAI!Message)

\* In a request to Anthropic every tool_use has its result right after it.
ToolUsesAnswered == provider = "anthropic" => Anthropic!ToolUsesAnswered

\* Of a history sent to Anthropic nothing but orphaned calls is left out.
OnlyOrphansDropped == provider = "anthropic" => Anthropic!OnlyOrphansDropped

\* In a request to OpenAI every tool message has its call, by a short ID.
ToolMessagesMatch == provider = "openai" => OpenAI!ToolMessagesMatch

\* Of a history sent to OpenAI nothing is left out.
HistorySent == provider = "openai" => OpenAI!HistorySent
=============================================================================
