---------------------------- MODULE RequestProofs ----------------------------
(***************************************************************************)
(* The requests that the model adapters make of a history, for histories of *)
(* every length: the conversion of contents to messages of OpenAI, and the *)
(* conversion and repair of the history for Anthropic.                     *)
(*                                                                         *)
(* A conversion makes a sequence of every element and puts them together   *)
(* (FlatMap in SequenceLemmas).  That nothing is lost is then shown element *)
(* by element; where the order of messages matters, as for a call and its  *)
(* result, FlattenPlaces says where each element ends up.                  *)
(***************************************************************************)
EXTENDS ModelAdapters, SequenceLemmas

-----------------------------------------------------------------------------
(* Items of every kind: parts of contents, blocks, items of messages.        *)

AllIDs == ToolIDs \cup {NoID} \cup {<<"tc", id>> : id \in Long}
                  \cup {<<"toolu", id>> : id \in Invalid}
Items == Item(AllIDs)

TextOf == [x \in Items |-> x.text]
Only(kind) == [x \in Items |-> IF x.kind = kind THEN <<x>> ELSE <<>>]
Wordy == [x \in Items |-> IF x.kind = "text" /\ x.text # <<>> THEN <<x>> ELSE <<>>]

LEMMA Facts ==
    /\ TextOf \in Converters(Items, Nat)
    /\ \A kind : Only(kind) \in Converters(Items, Items)
    /\ Wordy \in Converters(Items, Items)
<1>1. TextOf \in Converters(Items, Nat)
  BY DEF TextOf, Items, Item, Converters
<1>2. \A x \in Items : <<x>> \in Seq(Items) /\ <<>> \in Seq(Items)
  BY EmptySeq
<1>3. \A kind : Only(kind) \in Converters(Items, Items)
  BY <1>2 DEF Only, Converters
<1>4. Wordy \in Converters(Items, Items)
  BY <1>2 DEF Wordy, Converters
<1> QED BY <1>1, <1>3, <1>4

LEMMA JoinedIs ==
    ASSUME NEW s \in Seq(Items)
    PROVE  Joined(s) = FlatMap(s, TextOf) /\ Joined(s) \in Seq(Nat)
<1>1. [i \in DOMAIN s |-> s[i].text] = [i \in DOMAIN s |-> TextOf[s[i]]]
  BY DEF TextOf
<1>2. FlatMap(s, TextOf) \in Seq(Nat)
  BY Facts, FlatMapType
<1> QED BY <1>1, <1>2 DEF Joined, FlatMap

LEMMA OpenAISame ==
    /\ \A s : OpenAI!FlattenSeq(s) = FlattenSeq(s)
    /\ \A s : OpenAI!Joined(s) = Joined(s)
    /\ \A kind, text : OpenAI!Says(kind, text) = Says(kind, text)
    /\ \A kind, id : OpenAI!Names(kind, id) = Names(kind, id)
    /\ \A s : OpenAI!ToSet(s) = ToSet(s)
    /\ \A ids : OpenAI!Item(ids) = Item(ids)
<1>1. \A s : OpenAI!FlattenSeq(s) = FlattenSeq(s)
  BY DEF OpenAI!FlattenSeq, FlattenSeq
<1>2. \A s : OpenAI!Joined(s) = Joined(s)
  BY <1>1 DEF OpenAI!Joined, Joined
<1>3. \A kind, text : OpenAI!Says(kind, text) = Says(kind, text)
  BY DEF OpenAI!Says, Says
<1>4. \A kind, id : OpenAI!Names(kind, id) = Names(kind, id)
  BY DEF OpenAI!Names, Names
<1>5. \A s : OpenAI!ToSet(s) = ToSet(s)
  BY DEF OpenAI!ToSet, ToSet
<1>6. \A ids : OpenAI!Item(ids) = Item(ids)
  BY DEF OpenAI!Item, Item
<1> QED BY <1>1, <1>2, <1>3, <1>4, <1>5, <1>6

LEMMA OfKindIs ==
    ASSUME NEW s \in Seq(Items), NEW kind
    PROVE  /\ OpenAI!OfKind(s, kind) = FlatMap(s, Only(kind))
           /\ OpenAI!OfKind(s, kind) \in Seq(Items)
<1>1. OpenAI!OfKind(s, kind)
        = FlattenSeq([i \in DOMAIN s |-> IF s[i].kind = kind THEN <<s[i]>> ELSE <<>>])
  BY OpenAISame DEF OpenAI!OfKind, OpenAI!Chosen
<1>2. [i \in DOMAIN s |-> IF s[i].kind = kind THEN <<s[i]>> ELSE <<>>]
        = [i \in DOMAIN s |-> Only(kind)[s[i]]]
  BY DEF Only
<1>3. FlatMap(s, Only(kind)) \in Seq(Items)
  BY Facts, FlatMapType
<1> QED BY <1>1, <1>2, <1>3 DEF FlatMap

LEMMA TextsIs ==
    ASSUME NEW s \in Seq(Items)
    PROVE  /\ OpenAI!Texts(s) = FlatMap(s, Wordy)
           /\ OpenAI!Texts(s) \in Seq(Items)
<1>1. OpenAI!Texts(s)
        = FlattenSeq([i \in DOMAIN s |->
              IF s[i].kind = "text" /\ s[i].text # <<>> THEN <<s[i]>> ELSE <<>>])
  BY OpenAISame DEF OpenAI!Texts, OpenAI!Chosen
<1>2. [i \in DOMAIN s |-> IF s[i].kind = "text" /\ s[i].text # <<>> THEN <<s[i]>> ELSE <<>>]
        = [i \in DOMAIN s |-> Wordy[s[i]]]
  BY DEF Wordy
<1>3. FlatMap(s, Wordy) \in Seq(Items)
  BY Facts, FlatMapType
<1> QED BY <1>1, <1>2, <1>3 DEF FlatMap

-----------------------------------------------------------------------------
(* The conversion to the messages of OpenAI.                                 *)

Norm(id) == OpenAI!NormalizeToolCallID(id)
Renamed(from, to) ==
    [x \in Items |-> IF x.kind = from THEN <<Names(to, Norm(x.id))>> ELSE <<>>]
ToolMessage(id) == [role |-> "tool", items |-> <<Names("tool_result", Norm(id))>>]
Messages == [role : {"tool", "user", "assistant"}, items : Seq(Items)]
Results == [x \in Items |-> IF x.kind = "response" THEN <<ToolMessage(x.id)>> ELSE <<>>]

Kinds == {"text", "media", "odd", "call", "response", "thinking", "tool_use", "tool_result"}

LEMMA NamesType ==
    ASSUME NEW kind \in Kinds, NEW id \in AllIDs
    PROVE  Names(kind, id) \in Items /\ Says(kind, <<>>) \in Items
BY EmptySeq DEF Names, Says, Items, Item, Kinds, AllIDs

LEMMA SaysType ==
    ASSUME NEW kind \in Kinds, NEW text \in Seq(Nat)
    PROVE  Says(kind, text) \in Items
BY DEF Says, Items, Item, Kinds, AllIDs

LEMMA NormType ==
    ASSUME NEW id \in AllIDs
    PROVE  Norm(id) \in AllIDs
BY DEF Norm, OpenAI!NormalizeToolCallID, AllIDs

LEMMA RenamedType ==
    ASSUME NEW from, NEW to \in Kinds
    PROVE  Renamed(from, to) \in Converters(Items, Items)
<1>1. \A x \in Items : <<Names(to, Norm(x.id))>> \in Seq(Items) /\ <<>> \in Seq(Items)
  <2> SUFFICES ASSUME NEW x \in Items
               PROVE  <<Names(to, Norm(x.id))>> \in Seq(Items) /\ <<>> \in Seq(Items)
    OBVIOUS
  <2>1. x.id \in AllIDs
    BY DEF Items, Item
  <2>2. Names(to, Norm(x.id)) \in Items
    BY <2>1, NormType, NamesType
  <2> QED BY <2>2, EmptySeq
<1> QED BY <1>1 DEF Renamed, Converters

LEMMA ResultsType == Results \in Converters(Items, Messages)
<1>1. \A x \in Items : <<ToolMessage(x.id)>> \in Seq(Messages) /\ <<>> \in Seq(Messages)
  <2> SUFFICES ASSUME NEW x \in Items
               PROVE  <<ToolMessage(x.id)>> \in Seq(Messages) /\ <<>> \in Seq(Messages)
    OBVIOUS
  <2>1. x.id \in AllIDs
    BY DEF Items, Item
  <2>2. Names("tool_result", Norm(x.id)) \in Items
    BY <2>1, NormType, NamesType DEF Kinds
  <2>3. <<Names("tool_result", Norm(x.id))>> \in Seq(Items)
    BY <2>2
  <2>4. ToolMessage(x.id) \in Messages
    BY <2>3 DEF ToolMessage, Messages
  <2> QED BY <2>4, EmptySeq
<1> QED BY <1>1 DEF Results, Converters

LEMMA ToolCallsIs ==
    ASSUME NEW s \in Seq(Items)
    PROVE  /\ OpenAI!ToolCalls(s) = FlatMap(s, Renamed("call", "tool_use"))
           /\ OpenAI!ToolCalls(s) \in Seq(Items)
<1> DEFINE calls == OpenAI!OfKind(s, "call")
           named == [x \in Items |-> <<Names("tool_use", Norm(x.id))>>]
           t == OpenAI!ToolCalls(s)
<1>1. calls = FlatMap(s, Only("call")) /\ calls \in Seq(Items)
  BY OfKindIs
<1>2. t = [i \in DOMAIN calls |-> Names("tool_use", Norm(calls[i].id))]
  BY OpenAISame DEF OpenAI!ToolCalls, Norm
<1>3. \A x \in Items : Names("tool_use", Norm(x.id)) \in Items
  <2> SUFFICES ASSUME NEW x \in Items PROVE Names("tool_use", Norm(x.id)) \in Items
    OBVIOUS
  <2>1. x.id \in AllIDs
    BY DEF Items, Item
  <2> QED BY <2>1, NormType, NamesType DEF Kinds
<1>4. named \in Converters(Items, Items) /\ \A x \in Items : named[x] = <<Names("tool_use", Norm(x.id))>>
  BY <1>3 DEF Converters
<1> HIDE DEF calls, named, t
<1>5. t \in Seq(Items) /\ Images(calls, named, t)
  <2>1. DOMAIN calls = 1 .. Len(calls) /\ \A i \in 1 .. Len(calls) : calls[i] \in Items
    BY <1>1, LenProperties, ElementOfSeq
  <2> QED BY <1>1, <1>2, <1>3, <1>4, <2>1 DEF Images
<1>6. t = FlatMap(calls, named)
  BY <1>1, <1>4, <1>5, FlatMapSingle
<1>7. \A x \in Items : Renamed("call", "tool_use")[x] = FlatMap(Only("call")[x], named)
  <2> SUFFICES ASSUME NEW x \in Items
               PROVE  Renamed("call", "tool_use")[x] = FlatMap(Only("call")[x], named)
    OBVIOUS
  <2>1. FlatMap(<<x>>, named) = named[x]
    BY <1>4, FlatMapOne
  <2> QED BY <1>4, <2>1, FlatMapEmpty DEF Only, Renamed
<1>8. FlatMap(FlatMap(s, Only("call")), named) = FlatMap(s, Renamed("call", "tool_use"))
  <2>1. /\ Only("call") \in Converters(Items, Items)
        /\ Renamed("call", "tool_use") \in Converters(Items, Items)
    BY Facts, RenamedType DEF Kinds
  <2> QED BY <1>4, <1>7, <2>1, FlatMapTwice
<1> QED BY <1>1, <1>5, <1>6, <1>8 DEF t

LEMMA ToolMessagesIs ==
    ASSUME NEW s \in Seq(Items)
    PROVE  /\ OpenAI!ToolMessages(s) = FlatMap(s, Results)
           /\ OpenAI!ToolMessages(s) \in Seq(Messages)
<1> DEFINE results == OpenAI!OfKind(s, "response")
           named == [x \in Items |-> <<ToolMessage(x.id)>>]
           t == OpenAI!ToolMessages(s)
<1>1. results = FlatMap(s, Only("response")) /\ results \in Seq(Items)
  BY OfKindIs
<1>2. t = [i \in DOMAIN results |-> ToolMessage(results[i].id)]
  BY OpenAISame DEF OpenAI!ToolMessages, Norm, ToolMessage
<1>3. \A x \in Items : ToolMessage(x.id) \in Messages
  <2> SUFFICES ASSUME NEW x \in Items PROVE ToolMessage(x.id) \in Messages
    OBVIOUS
  <2>1. x.id \in AllIDs
    BY DEF Items, Item
  <2>2. Names("tool_result", Norm(x.id)) \in Items
    BY <2>1, NormType, NamesType DEF Kinds
  <2>3. <<Names("tool_result", Norm(x.id))>> \in Seq(Items)
    BY <2>2
  <2> QED BY <2>3 DEF ToolMessage, Messages
<1>4. named \in Converters(Items, Messages) /\ \A x \in Items : named[x] = <<ToolMessage(x.id)>>
  BY <1>3 DEF Converters
<1> HIDE DEF results, named, t
<1>5. t \in Seq(Messages) /\ Images(results, named, t)
  <2>1. DOMAIN results = 1 .. Len(results) /\ \A i \in 1 .. Len(results) : results[i] \in Items
    BY <1>1, LenProperties, ElementOfSeq
  <2> QED BY <1>1, <1>2, <1>3, <1>4, <2>1 DEF Images
<1>6. t = FlatMap(results, named)
  BY <1>1, <1>4, <1>5, FlatMapSingle
<1>7. \A x \in Items : Results[x] = FlatMap(Only("response")[x], named)
  <2> SUFFICES ASSUME NEW x \in Items
               PROVE  Results[x] = FlatMap(Only("response")[x], named)
    OBVIOUS
  <2>1. FlatMap(<<x>>, named) = named[x]
    BY <1>4, FlatMapOne
  <2> QED BY <1>4, <2>1, FlatMapEmpty DEF Only, Results
<1>8. FlatMap(FlatMap(s, Only("response")), named) = FlatMap(s, Results)
  <2>1. Only("response") \in Converters(Items, Items)
    BY Facts
  <2> QED BY <1>4, <1>7, <2>1, ResultsType, FlatMapTwice
<1> QED BY <1>1, <1>5, <1>6, <1>8 DEF t

-----------------------------------------------------------------------------
(* What a message of OpenAI makes of a content.                              *)

UserPart == {Says("text", <<0>>), Says("media", <<>>), Says("odd", <<>>)}
              \cup {Names("response", id) : id \in ToolIDs}
ModelPart == [kind : {"text"}, id : {NoID}, text : Seq(Nat)]
               \cup {Names("call", id) : id \in ToolIDs}
Held == [role : {"user"}, parts : Seq(UserPart)] \cup [role : {"model"}, parts : Seq(ModelPart)]

\* What a part says: a text, or nothing but what it is and names.
LEMMA PartsAreItems ==
    /\ UserPart \subseteq Items
    /\ ModelPart \subseteq Items
    /\ \A x \in UserPart : x.kind \in {"text", "media", "odd", "response"}
    /\ \A x \in ModelPart : x.kind \in {"text", "call"}
    /\ \A x \in UserPart \cup ModelPart : x.kind # "text" => x.text = <<>>
    /\ \A x \in UserPart \cup ModelPart : x.kind \in {"call", "response"} => x.id \in ToolIDs
<1>1. <<0>> \in Seq(Nat) /\ <<>> \in Seq(Nat) /\ ToolIDs \subseteq AllIDs
  BY EmptySeq DEF AllIDs
<1>2. UserPart \subseteq Items
  BY <1>1, NamesType, SaysType DEF UserPart, Kinds
<1>3. ModelPart \subseteq Items
  <2>1. [kind : {"text"}, id : {NoID}, text : Seq(Nat)] \subseteq Items
    BY DEF Items, Item, AllIDs
  <2> QED BY <1>1, <2>1, NamesType DEF ModelPart, Kinds
<1>4. \A x \in UserPart : x.kind \in {"text", "media", "odd", "response"}
  BY DEF UserPart, Says, Names
<1>5. \A x \in ModelPart : x.kind \in {"text", "call"}
  BY DEF ModelPart, Says, Names
<1>6. \A x \in UserPart \cup ModelPart : x.kind # "text" => x.text = <<>>
  BY DEF UserPart, ModelPart, Says, Names
<1>7. \A x \in UserPart \cup ModelPart : x.kind \in {"call", "response"} => x.id \in ToolIDs
  BY DEF UserPart, ModelPart, Says, Names
<1> QED BY <1>2, <1>3, <1>4, <1>5, <1>6, <1>7

LEMMA HeldParts ==
    ASSUME NEW c \in Held
    PROVE  /\ c.parts \in Seq(Items)
           /\ \/ c.role = "user" /\ c.parts \in Seq(UserPart)
              \/ c.role = "model" /\ c.parts \in Seq(ModelPart)
<1>1. \/ c.role = "user" /\ c.parts \in Seq(UserPart)
      \/ c.role = "model" /\ c.parts \in Seq(ModelPart)
  BY DEF Held
<1>2. Seq(UserPart) \subseteq Seq(Items)
  BY PartsAreItems, SeqMonotonic
<1>3. Seq(ModelPart) \subseteq Seq(Items)
  BY PartsAreItems, SeqMonotonic
<1> QED BY <1>1, <1>2, <1>3

LEMMA JoinTextsIs ==
    ASSUME NEW s \in Seq(Items)
    PROVE  /\ OpenAI!JoinTexts(s) \in Seq(Items)
           /\ Joined(OpenAI!JoinTexts(s)) = Joined(s)
           /\ \A x \in ToSet(OpenAI!JoinTexts(s)) : x = Says("text", Joined(s))
           /\ s = <<>> <=> OpenAI!JoinTexts(s) = <<>>
<1>1. CASE s = <<>>
  BY <1>1, EmptySeq DEF OpenAI!JoinTexts, ToSet
<1>2. CASE s # <<>>
  <2> DEFINE x == Says("text", Joined(s))
  <2>1. OpenAI!JoinTexts(s) = <<x>>
    BY <1>2, OpenAISame DEF OpenAI!JoinTexts
  <2>2. x \in Items /\ TextOf[x] = Joined(s)
    BY JoinedIs DEF Says, Items, Item, AllIDs, TextOf
  <2>3. ToSet(<<x>>) = {x}
    BY DEF ToSet
  <2> HIDE DEF x
  <2>4. <<x>> \in Seq(Items) /\ FlatMap(<<x>>, TextOf) = TextOf[x]
    BY <2>2, Facts, FlatMapOne
  <2>5. Joined(<<x>>) = Joined(s)
    BY <2>2, <2>4, JoinedIs
  <2> QED BY <1>2, <2>1, <2>3, <2>4, <2>5 DEF x
<1> QED BY <1>1, <1>2

Conv(c) == OpenAI!ConvertContentToMessages(c)
Rest(c) == IF c.role = "user" THEN OpenAI!OfKind(c.parts, "media") ELSE OpenAI!ToolCalls(c.parts)
Spoken(c) == OpenAI!JoinTexts(OpenAI!Texts(c.parts)) \o Rest(c)
RoleMessage(c) == [role |-> IF c.role = "user" THEN "user" ELSE "assistant", items |-> Spoken(c)]

LEMMA SpokenType ==
    ASSUME NEW c \in Held
    PROVE  Rest(c) \in Seq(Items) /\ Spoken(c) \in Seq(Items) /\ RoleMessage(c) \in Messages
<1>1. c.parts \in Seq(Items)
  BY HeldParts
<1>2. Rest(c) \in Seq(Items)
  BY <1>1, OfKindIs, ToolCallsIs DEF Rest
<1>3. OpenAI!JoinTexts(OpenAI!Texts(c.parts)) \in Seq(Items)
  BY <1>1, TextsIs, JoinTextsIs
<1>4. Spoken(c) \in Seq(Items)
  BY <1>2, <1>3, ConcatProperties DEF Spoken
<1> QED BY <1>2, <1>4 DEF RoleMessage, Messages

\* The message of a role is there if it says anything.
LEMMA ConvIs ==
    ASSUME NEW c \in Held
    PROVE  /\ Conv(c) \in Seq(Messages)
           /\ Conv(c) = OpenAI!ToolMessages(c.parts)
                          \o IF Spoken(c) = <<>> THEN <<>> ELSE <<RoleMessage(c)>>
<1> DEFINE texts == OpenAI!Texts(c.parts)
           media == OpenAI!OfKind(c.parts, "media")
           calls == OpenAI!OfKind(c.parts, "call")
<1>1. c.parts \in Seq(Items)
  BY HeldParts
<1>2. texts \in Seq(Items) /\ media \in Seq(Items) /\ calls \in Seq(Items)
  BY <1>1, OfKindIs, TextsIs
<1>3. OpenAI!BuildRoleMessage(c.role, c.parts) = RoleMessage(c)
  BY DEF OpenAI!BuildRoleMessage, RoleMessage, Spoken, Rest
<1>4. texts \o media \o calls = <<>> <=> Spoken(c) = <<>>
  <2>1. texts \o media \o calls = <<>> <=> texts = <<>> /\ media = <<>> /\ calls = <<>>
    <3> HIDE DEF texts, media, calls
    <3>1. texts \o media \in Seq(Items)
      BY <1>2, ConcatProperties
    <3>2. (texts \o media) \o calls = <<>> <=> texts \o media = <<>> /\ calls = <<>>
      BY <1>2, <3>1, ConcatEqualIffEmpty
    <3>3. texts \o media = <<>> <=> texts = <<>> /\ media = <<>>
      BY <1>2, ConcatEqualIffEmpty
    <3> QED BY <3>2, <3>3
  <2>2. Spoken(c) = <<>> <=> OpenAI!JoinTexts(texts) = <<>> /\ Rest(c) = <<>>
    BY <1>2, SpokenType, JoinTextsIs, ConcatEqualIffEmpty DEF Spoken
  <2>3. OpenAI!JoinTexts(texts) = <<>> <=> texts = <<>>
    BY <1>2, JoinTextsIs
  <2>4. OpenAI!ToolCalls(c.parts) = <<>> <=> calls = <<>>
    <3>1. Len(OpenAI!ToolCalls(c.parts)) = Len(calls)
      BY <1>2, LenProperties DEF OpenAI!ToolCalls
    <3> QED BY <1>1, <1>2, <3>1, ToolCallsIs, EmptySeq
  <2>5. CASE c.role = "user"
    <3>1. calls = <<>>
      <4>1. c.parts \in Seq(UserPart) /\ \A x \in UserPart : Only("call")[x] = <<>>
        BY <2>5, HeldParts, PartsAreItems DEF Only
      <4>2. FlatMap(c.parts, Only("call")) = <<>>
        BY <4>1, FlatMapNone
      <4> QED BY <1>1, <4>2, OfKindIs
    <3> QED BY <2>1, <2>2, <2>3, <2>5, <3>1 DEF Rest
  <2>6. CASE c.role = "model"
    <3>1. media = <<>>
      <4>1. c.parts \in Seq(ModelPart) /\ \A x \in ModelPart : Only("media")[x] = <<>>
        BY <2>6, HeldParts, PartsAreItems DEF Only
      <4>2. FlatMap(c.parts, Only("media")) = <<>>
        BY <4>1, FlatMapNone
      <4> QED BY <1>1, <4>2, OfKindIs
    <3> QED BY <2>1, <2>2, <2>3, <2>4, <2>6, <3>1 DEF Rest
  <2> QED BY <2>5, <2>6, HeldParts
<1>5. Conv(c) = OpenAI!ToolMessages(c.parts) \o IF Spoken(c) = <<>> THEN <<>> ELSE <<RoleMessage(c)>>
  BY <1>3, <1>4 DEF Conv, OpenAI!ConvertContentToMessages
<1>6. /\ OpenAI!ToolMessages(c.parts) \in Seq(Messages)
      /\ <<>> \in Seq(Messages) /\ <<RoleMessage(c)>> \in Seq(Messages)
  BY <1>1, ToolMessagesIs, SpokenType, EmptySeq
<1>7. Conv(c) \in Seq(Messages)
  BY <1>5, <1>6, ConcatProperties
<1> QED BY <1>5, <1>7

ItemsOf == [m \in Messages |-> m.items]
Sent(c) == FlatMap(Conv(c), ItemsOf)
Answers == Renamed("response", "tool_result")

LEMMA SentIs ==
    ASSUME NEW c \in Held
    PROVE  /\ Sent(c) = FlatMap(c.parts, Answers) \o Spoken(c)
           /\ Sent(c) \in Seq(Items)
<1>1. c.parts \in Seq(Items) /\ Spoken(c) \in Seq(Items) /\ RoleMessage(c) \in Messages
  BY HeldParts, SpokenType
<1>2. ItemsOf \in Converters(Messages, Items)
  BY DEF ItemsOf, Converters, Messages
<1>3. Answers \in Converters(Items, Items)
  BY RenamedType DEF Answers, Kinds
<1> DEFINE last == IF Spoken(c) = <<>> THEN <<>> ELSE <<RoleMessage(c)>>
<1>4. OpenAI!ToolMessages(c.parts) \in Seq(Messages) /\ last \in Seq(Messages)
  BY <1>1, ToolMessagesIs, EmptySeq
<1>5. Sent(c) = FlatMap(OpenAI!ToolMessages(c.parts), ItemsOf) \o FlatMap(last, ItemsOf)
  <2>1. Conv(c) = OpenAI!ToolMessages(c.parts) \o last
    BY ConvIs
  <2> HIDE DEF last
  <2> QED BY <1>2, <1>4, <2>1, FlatMapConcat DEF Sent
<1>6. FlatMap(OpenAI!ToolMessages(c.parts), ItemsOf) = FlatMap(c.parts, Answers)
  <2>1. \A x \in Items : Answers[x] = FlatMap(Results[x], ItemsOf)
    <3> SUFFICES ASSUME NEW x \in Items PROVE Answers[x] = FlatMap(Results[x], ItemsOf)
      OBVIOUS
    <3>1. CASE x.kind = "response"
      <4>1. Results[x] = <<ToolMessage(x.id)>> /\ Results[x] \in Seq(Messages)
        BY <3>1, ResultsType DEF Results, Converters
      <4>2. ToolMessage(x.id) \in Messages
        <5>1. Results[x][1] \in Messages
          BY <4>1, ElementOfSeq, Len(Results[x]) = 1
        <5> QED BY <4>1, <5>1
      <4>3. FlatMap(<<ToolMessage(x.id)>>, ItemsOf) = ItemsOf[ToolMessage(x.id)]
        BY <1>2, <4>2, FlatMapOne
      <4>4. ItemsOf[ToolMessage(x.id)] = <<Names("tool_result", Norm(x.id))>>
        BY <4>2 DEF ItemsOf, ToolMessage
      <4> QED BY <3>1, <4>1, <4>3, <4>4 DEF Answers, Renamed
    <3>2. CASE x.kind # "response"
      BY <3>2, FlatMapEmpty DEF Answers, Renamed, Results
    <3> QED BY <3>1, <3>2
  <2>2. FlatMap(FlatMap(c.parts, Results), ItemsOf) = FlatMap(c.parts, Answers)
    BY <1>1, <1>2, <1>3, <2>1, ResultsType, FlatMapTwice
  <2> QED BY <1>1, <2>2, ToolMessagesIs
<1>7. FlatMap(last, ItemsOf) = Spoken(c)
  <2>1. CASE Spoken(c) = <<>>
    BY <2>1, FlatMapEmpty
  <2>2. CASE Spoken(c) # <<>>
    <3>1. FlatMap(<<RoleMessage(c)>>, ItemsOf) = ItemsOf[RoleMessage(c)]
      BY <1>1, <1>2, FlatMapOne
    <3>2. ItemsOf[RoleMessage(c)] = Spoken(c)
      BY <1>1 DEF ItemsOf, RoleMessage
    <3> QED BY <2>2, <3>1, <3>2
  <2> QED BY <2>1, <2>2
<1>8. FlatMap(c.parts, Answers) \in Seq(Items)
  BY <1>1, <1>3, FlatMapType
<1>9. FlatMap(c.parts, Answers) \o Spoken(c) \in Seq(Items)
  BY <1>1, <1>8, ConcatProperties
<1> HIDE DEF last
<1> QED BY <1>5, <1>6, <1>7, <1>9

\* What becomes of a part that becomes at most one item.
LEMMA Composed ==
    ASSUME NEW P, P \subseteq Items, NEW s \in Seq(P), NEW B,
           NEW g \in Converters(Items, Items), NEW f \in Converters(Items, B), NEW k,
           \A x \in P : \/ g[x] = <<>> /\ k[x] = <<>>
                        \/ \E y \in Items : g[x] = <<y>> /\ k[x] = f[y]
    PROVE  FlatMap(FlatMap(s, g), f) = FlatMap(s, k)
<1> DEFINE h == [x \in Items |-> FlatMap(g[x], f)]
<1>1. s \in Seq(Items)
  BY SeqMonotonic
<1>2. \A x \in Items : g[x] \in Seq(Items)
  BY DEF Converters
<1>3. h \in Converters(Items, B) /\ \A x \in Items : h[x] = FlatMap(g[x], f)
  <2>1. \A x \in Items : FlatMap(g[x], f) \in Seq(B)
    BY <1>2, FlatMapType
  <2> QED BY <2>1 DEF Converters
<1> HIDE DEF h
<1>4. FlatMap(FlatMap(s, g), f) = FlatMap(s, h)
  BY <1>1, <1>3, FlatMapTwice
<1>5. \A x \in P : h[x] = k[x]
  <2> SUFFICES ASSUME NEW x \in P PROVE h[x] = k[x]
    OBVIOUS
  <2>1. h[x] = FlatMap(g[x], f)
    BY <1>3
  <2>2. CASE g[x] = <<>> /\ k[x] = <<>>
    BY <2>1, <2>2, FlatMapEmpty
  <2>3. ASSUME NEW y \in Items, g[x] = <<y>>, k[x] = f[y] PROVE h[x] = k[x]
    <3>1. FlatMap(<<y>>, f) = f[y]
      BY FlatMapOne
    <3> QED BY <2>1, <2>3, <3>1
  <2> QED BY <2>2, <2>3
<1> QED BY <1>4, <1>5, FlatMapEqual

LEMMA SentThrough ==
    ASSUME NEW c \in Held, NEW B, NEW f \in Converters(Items, B)
    PROVE  LET answers == FlatMap(FlatMap(c.parts, Answers), f)
               texts == FlatMap(OpenAI!JoinTexts(OpenAI!Texts(c.parts)), f)
               rest == FlatMap(Rest(c), f)
           IN  /\ FlatMap(Sent(c), f) = answers \o (texts \o rest)
               /\ answers \in Seq(B) /\ texts \in Seq(B) /\ rest \in Seq(B)
               /\ answers = <<>> => FlatMap(Sent(c), f) = texts \o rest
               /\ texts = <<>> /\ rest = <<>> => FlatMap(Sent(c), f) = answers
               /\ answers = <<>> /\ rest = <<>> => FlatMap(Sent(c), f) = texts
               /\ answers = <<>> /\ texts = <<>> => FlatMap(Sent(c), f) = rest
<1> DEFINE A == FlatMap(c.parts, Answers)
           T == OpenAI!JoinTexts(OpenAI!Texts(c.parts))
           R == Rest(c)
<1>1. c.parts \in Seq(Items)
  BY HeldParts
<1>2. A \in Seq(Items)
  BY <1>1, RenamedType, FlatMapType DEF Answers, Kinds
<1>3. T \in Seq(Items) /\ R \in Seq(Items)
  BY <1>1, SpokenType, TextsIs, JoinTextsIs
<1>4. Sent(c) = A \o (T \o R)
  BY SentIs DEF Spoken
<1> HIDE DEF A, T, R
<1>5. FlatMap(A \o (T \o R), f) = FlatMap(A, f) \o FlatMap(T \o R, f)
  <2>1. T \o R \in Seq(Items)
    BY <1>3, ConcatProperties
  <2> QED BY <1>2, <2>1, FlatMapConcat
<1>6. FlatMap(T \o R, f) = FlatMap(T, f) \o FlatMap(R, f)
  BY <1>3, FlatMapConcat
<1>7. FlatMap(A, f) \in Seq(B) /\ FlatMap(T, f) \in Seq(B) /\ FlatMap(R, f) \in Seq(B)
  BY <1>2, <1>3, FlatMapType
<1>8. FlatMap(T, f) \o FlatMap(R, f) \in Seq(B)
  BY <1>7, ConcatProperties
<1>9. \A s \in Seq(B) : s \o <<>> = s /\ <<>> \o s = s
  BY ConcatEmptySeq
<1> QED BY <1>4, <1>5, <1>6, <1>7, <1>8, <1>9 DEF A, T, R

IdOf(kind) == [x \in Items |-> IF x.kind = kind THEN <<x.id>> ELSE <<>>]
ShortOf(kind) == [x \in Items |-> IF x.kind = kind THEN <<Norm(x.id)>> ELSE <<>>]
Nothing == [x \in Items |-> <<>>]

LEMMA IdOfType ==
    ASSUME NEW kind
    PROVE  IdOf(kind) \in Converters(Items, AllIDs) /\ ShortOf(kind) \in Converters(Items, AllIDs)
<1>1. \A x \in Items : <<x.id>> \in Seq(AllIDs) /\ <<Norm(x.id)>> \in Seq(AllIDs)
  <2> SUFFICES ASSUME NEW x \in Items
               PROVE  <<x.id>> \in Seq(AllIDs) /\ <<Norm(x.id)>> \in Seq(AllIDs)
    OBVIOUS
  <2>1. x.id \in AllIDs
    BY DEF Items, Item
  <2>2. Norm(x.id) \in AllIDs
    BY <2>1, NormType
  <2> QED BY <2>1, <2>2
<1>2. <<>> \in Seq(AllIDs)
  BY EmptySeq
<1> QED BY <1>1, <1>2 DEF IdOf, ShortOf, Converters

LEMMA RenamedIs ==
    ASSUME NEW from, NEW to \in Kinds, NEW x \in Items
    PROVE  \/ x.kind # from /\ Renamed(from, to)[x] = <<>>
           \/ \E y \in Items : /\ x.kind = from /\ Renamed(from, to)[x] = <<y>>
                               /\ y.kind = to /\ y.text = <<>> /\ y.id = Norm(x.id)
<1>1. x.id \in AllIDs
  BY DEF Items, Item
<1>2. Names(to, Norm(x.id)) \in Items
  BY <1>1, NormType, NamesType
<1>3. /\ Names(to, Norm(x.id)).kind = to /\ Names(to, Norm(x.id)).text = <<>>
      /\ Names(to, Norm(x.id)).id = Norm(x.id)
  BY DEF Names
<1> QED BY <1>2, <1>3 DEF Renamed

\* What is looked for in answers, texts and the rest of a content.
LEMMA InAnswers ==
    ASSUME NEW c \in Held, NEW B, NEW f \in Converters(Items, B), NEW k,
           \A x, y \in Items :
               /\ x.kind = "response"
               /\ y.kind = "tool_result" /\ y.id = Norm(x.id) /\ y.text = <<>>
               => f[y] = k[x],
           \A x \in Items : x.kind # "response" => k[x] = <<>>
    PROVE  FlatMap(FlatMap(c.parts, Answers), f) = FlatMap(c.parts, k)
<1>1. c.parts \in Seq(Items)
  BY HeldParts
<1>2. Answers \in Converters(Items, Items)
  BY RenamedType DEF Answers, Kinds
<1>3. ASSUME NEW x \in Items
      PROVE  \/ Answers[x] = <<>> /\ k[x] = <<>>
             \/ \E y \in Items : Answers[x] = <<y>> /\ k[x] = f[y]
  <2>1. \/ x.kind # "response" /\ Answers[x] = <<>>
        \/ \E y \in Items : /\ x.kind = "response" /\ Answers[x] = <<y>>
                            /\ y.kind = "tool_result" /\ y.text = <<>> /\ y.id = Norm(x.id)
    BY RenamedIs DEF Answers, Kinds
  <2> QED BY <2>1
<1> QED BY <1>1, <1>2, <1>3, Composed

LEMMA InTexts ==
    ASSUME NEW c \in Held, NEW B, NEW f \in Converters(Items, B),
           \A y \in Items : y.kind = "text" => f[y] = <<>>
    PROVE  FlatMap(OpenAI!JoinTexts(OpenAI!Texts(c.parts)), f) = <<>>
<1> DEFINE T == OpenAI!Texts(c.parts)
           J == OpenAI!JoinTexts(T)
<1>1. T \in Seq(Items)
  BY HeldParts, TextsIs
<1>2. J \in Seq(Items) /\ \A x \in ToSet(J) : x = Says("text", Joined(T))
  BY <1>1, JoinTextsIs
<1> HIDE DEF T, J
<1>3. \A i \in 1 .. Len(J) : J[i].kind = "text" /\ J[i] \in Items
  <2>1. DOMAIN J = 1 .. Len(J) /\ \A i \in 1 .. Len(J) : J[i] \in Items
    BY <1>2, LenProperties, ElementOfSeq
  <2> QED BY <1>2, <2>1 DEF ToSet, Says
<1> DEFINE W == {y \in Items : y.kind = "text"}
<1>4. J \in Seq(W)
  <2>1. Len(J) \in Nat /\ J \in [1 .. Len(J) -> Items]
    BY <1>2, LenProperties
  <2>2. J \in [1 .. Len(J) -> W]
    BY <1>3, <2>1
  <2> HIDE DEF W
  <2> QED BY <2>1, <2>2
<1>5. \A y \in W : f[y] = <<>>
  OBVIOUS
<1> HIDE DEF W
<1>6. FlatMap(J, f) = <<>>
  BY <1>4, <1>5, FlatMapNone
<1> QED BY <1>6 DEF J, T

LEMMA InRest ==
    ASSUME NEW c \in Held, NEW B, NEW f \in Converters(Items, B), NEW k,
           \A y \in Items : y.kind = "media" /\ y.text = <<>> =>
               /\ c.role = "user" => f[y] = k[y]
               /\ c.role = "model" => k[y] = <<>>,
           \A x, y \in Items :
               /\ c.role = "model" /\ x.kind = "call"
               /\ y.kind = "tool_use" /\ y.id = Norm(x.id) /\ y.text = <<>>
               => f[y] = k[x],
           \A y \in Items : y.kind \notin {"media", "call"} => k[y] = <<>>
    PROVE  FlatMap(Rest(c), f) = FlatMap(c.parts, k)
<1>1. c.parts \in Seq(Items)
  BY HeldParts
<1>2. CASE c.role = "user"
  <2>1. c.parts \in Seq(UserPart)
    BY <1>2, HeldParts
  <2>2. Rest(c) = FlatMap(c.parts, Only("media")) /\ Only("media") \in Converters(Items, Items)
    BY <1>1, <1>2, OfKindIs, Facts DEF Rest
  <2>3. ASSUME NEW x \in UserPart
        PROVE  \/ Only("media")[x] = <<>> /\ k[x] = <<>>
               \/ \E y \in Items : Only("media")[x] = <<y>> /\ k[x] = f[y]
    <3>1. x \in Items /\ x.kind # "call" /\ (x.kind # "text" => x.text = <<>>)
      BY PartsAreItems
    <3>2. CASE x.kind = "media"
      BY <1>2, <3>1, <3>2 DEF Only
    <3>3. CASE x.kind # "media"
      BY <3>1, <3>3 DEF Only
    <3> QED BY <3>2, <3>3
  <2> QED BY <2>1, <2>2, <2>3, PartsAreItems, Composed
<1>3. CASE c.role = "model"
  <2>1. c.parts \in Seq(ModelPart)
    BY <1>3, HeldParts
  <2>2. /\ Rest(c) = FlatMap(c.parts, Renamed("call", "tool_use"))
        /\ Renamed("call", "tool_use") \in Converters(Items, Items)
    BY <1>1, <1>3, ToolCallsIs, RenamedType DEF Rest, Kinds
  <2>3. ASSUME NEW x \in ModelPart
        PROVE  \/ Renamed("call", "tool_use")[x] = <<>> /\ k[x] = <<>>
               \/ \E y \in Items : Renamed("call", "tool_use")[x] = <<y>> /\ k[x] = f[y]
    <3>1. x \in Items /\ x.kind # "media"
      BY PartsAreItems
    <3>2. \/ x.kind # "call" /\ Renamed("call", "tool_use")[x] = <<>>
          \/ \E y \in Items : /\ x.kind = "call" /\ Renamed("call", "tool_use")[x] = <<y>>
                              /\ y.kind = "tool_use" /\ y.text = <<>> /\ y.id = Norm(x.id)
      BY <3>1, RenamedIs DEF Kinds
    <3> QED BY <1>3, <3>1, <3>2
  <2> QED BY <2>1, <2>2, <2>3, PartsAreItems, Composed
<1> QED BY <1>2, <1>3, HeldParts

LEMMA NothingThrough ==
    ASSUME NEW s \in Seq(Items)
    PROVE  FlatMap(s, Nothing) = <<>>
<1>1. \A x \in Items : Nothing[x] = <<>>
  BY DEF Nothing
<1> QED BY <1>1, FlatMapNone

\* The texts of a content are joined, not changed.
LEMMA TextsSay ==
    ASSUME NEW c \in Held
    PROVE  FlatMap(OpenAI!JoinTexts(OpenAI!Texts(c.parts)), TextOf) = FlatMap(c.parts, TextOf)
<1>0. TextOf \in Converters(Items, Nat) /\ c.parts \in Seq(Items)
  BY Facts, HeldParts
<1>2. FlatMap(OpenAI!JoinTexts(OpenAI!Texts(c.parts)), TextOf) = FlatMap(c.parts, TextOf)
  <2> DEFINE T == OpenAI!Texts(c.parts)
  <2>1. T = FlatMap(c.parts, Wordy) /\ T \in Seq(Items)
    BY <1>0, TextsIs
  <2>2. FlatMap(OpenAI!JoinTexts(T), TextOf) = FlatMap(T, TextOf)
    <3> HIDE DEF T
    <3>1. OpenAI!JoinTexts(T) \in Seq(Items) /\ Joined(OpenAI!JoinTexts(T)) = Joined(T)
      BY <2>1, JoinTextsIs
    <3> QED BY <2>1, <3>1, JoinedIs
  <2>3. ASSUME NEW P, P \subseteq Items, c.parts \in Seq(P),
               \A x \in P : x.kind # "text" => x.text = <<>>
        PROVE  FlatMap(FlatMap(c.parts, Wordy), TextOf) = FlatMap(c.parts, TextOf)
    <3>1. \A x \in P : \/ Wordy[x] = <<>> /\ TextOf[x] = <<>>
                       \/ \E y \in Items : Wordy[x] = <<y>> /\ TextOf[x] = TextOf[y]
      <4> SUFFICES ASSUME NEW x \in P
                   PROVE  \/ Wordy[x] = <<>> /\ TextOf[x] = <<>>
                          \/ \E y \in Items : Wordy[x] = <<y>> /\ TextOf[x] = TextOf[y]
        OBVIOUS
      <4>1. CASE x.text = <<>>
        BY <2>3, <4>1 DEF Wordy, TextOf
      <4>2. CASE x.text # <<>>
        BY <2>3, <4>2 DEF Wordy, TextOf
      <4> QED BY <4>1, <4>2
    <3> QED BY <1>0, <2>3, <3>1, Facts, Composed
  <2>4. FlatMap(FlatMap(c.parts, Wordy), TextOf) = FlatMap(c.parts, TextOf)
    <3>1. CASE c.parts \in Seq(UserPart)
      BY <2>3, <3>1, PartsAreItems
    <3>2. CASE c.parts \in Seq(ModelPart)
      BY <2>3, <3>2, PartsAreItems
    <3> QED BY <3>1, <3>2, HeldParts
  <2> QED BY <2>1, <2>2, <2>4
<1> QED BY <1>2

LEMMA SentTexts ==
    ASSUME NEW c \in Held
    PROVE  FlatMap(Sent(c), TextOf) = FlatMap(c.parts, TextOf)
<1>0. TextOf \in Converters(Items, Nat) /\ c.parts \in Seq(Items)
  BY Facts, HeldParts
<1>1. FlatMap(FlatMap(c.parts, Answers), TextOf) = <<>>
  <2>1. \A x \in Items : Nothing[x] = <<>>
    BY DEF Nothing
  <2>2. \A y \in Items : y.text = <<>> => TextOf[y] = <<>>
    BY DEF TextOf
  <2>3. FlatMap(FlatMap(c.parts, Answers), TextOf) = FlatMap(c.parts, Nothing)
    BY <1>0, <2>1, <2>2, InAnswers
  <2> QED BY <1>0, <2>3, NothingThrough
<1>2. FlatMap(OpenAI!JoinTexts(OpenAI!Texts(c.parts)), TextOf) = FlatMap(c.parts, TextOf)
  BY TextsSay
<1>3. FlatMap(Rest(c), TextOf) = <<>>
  <2>1. \A x \in Items : Nothing[x] = <<>>
    BY DEF Nothing
  <2>2. \A y \in Items : y.text = <<>> => TextOf[y] = <<>>
    BY DEF TextOf
  <2>3. FlatMap(Rest(c), TextOf) = FlatMap(c.parts, Nothing)
    BY <1>0, <2>1, <2>2, InRest
  <2> QED BY <1>0, <2>3, NothingThrough
<1> QED BY <1>0, <1>1, <1>2, <1>3, SentThrough

LEMMA SentMedia ==
    ASSUME NEW c \in Held
    PROVE  FlatMap(Sent(c), Only("media")) = FlatMap(c.parts, Only("media"))
<1>0. Only("media") \in Converters(Items, Items) /\ c.parts \in Seq(Items)
  BY Facts, HeldParts
<1>1. FlatMap(FlatMap(c.parts, Answers), Only("media")) = <<>>
  <2>1. \A x \in Items : Nothing[x] = <<>>
    BY DEF Nothing
  <2>2. \A y \in Items : y.kind = "tool_result" => Only("media")[y] = <<>>
    BY DEF Only
  <2>3. FlatMap(FlatMap(c.parts, Answers), Only("media")) = FlatMap(c.parts, Nothing)
    BY <1>0, <2>1, <2>2, InAnswers
  <2> QED BY <1>0, <2>3, NothingThrough
<1>2. FlatMap(OpenAI!JoinTexts(OpenAI!Texts(c.parts)), Only("media")) = <<>>
  <2>1. \A y \in Items : y.kind = "text" => Only("media")[y] = <<>>
    BY DEF Only
  <2> QED BY <1>0, <2>1, InTexts
<1>3. FlatMap(Rest(c), Only("media")) = FlatMap(c.parts, Only("media"))
  <2>1. CASE c.role = "user"
    <3> DEFINE f == Only("media")
    <3>1. /\ \A y \in Items : y.kind \notin {"media", "call"} => f[y] = <<>>
          /\ c.role # "model"
      BY <2>1 DEF Only
    <3> HIDE DEF f
    <3>2. FlatMap(Rest(c), f) = FlatMap(c.parts, f)
      BY <1>0, <3>1, InRest DEF f
    <3> QED BY <3>2 DEF f
  <2>2. CASE c.role = "model"
    <3>1. FlatMap(Rest(c), Only("media")) = FlatMap(c.parts, Nothing)
      <4>1. \A x \in Items : Nothing[x] = <<>>
        BY DEF Nothing
      <4>2. \A y \in Items : y.kind = "tool_use" => Only("media")[y] = <<>>
        BY DEF Only
      <4> QED BY <1>0, <2>2, <4>1, <4>2, InRest
    <3>2. FlatMap(c.parts, Only("media")) = <<>>
      <4>1. c.parts \in Seq(ModelPart) /\ \A x \in ModelPart : Only("media")[x] = <<>>
        BY <2>2, HeldParts, PartsAreItems DEF Only
      <4> QED BY <4>1, FlatMapNone
    <3> QED BY <1>0, <3>1, <3>2, NothingThrough
  <2> QED BY <2>1, <2>2, HeldParts
<1> QED BY <1>0, <1>1, <1>2, <1>3, SentThrough

LEMMA SentCalls ==
    ASSUME NEW c \in Held
    PROVE  FlatMap(Sent(c), IdOf("tool_use")) = FlatMap(c.parts, ShortOf("call"))
<1>0. /\ IdOf("tool_use") \in Converters(Items, AllIDs)
      /\ ShortOf("call") \in Converters(Items, AllIDs) /\ c.parts \in Seq(Items)
  BY IdOfType, HeldParts
<1>1. FlatMap(FlatMap(c.parts, Answers), IdOf("tool_use")) = <<>>
  <2>1. \A x \in Items : Nothing[x] = <<>>
    BY DEF Nothing
  <2>2. \A y \in Items : y.kind = "tool_result" => IdOf("tool_use")[y] = <<>>
    BY DEF IdOf
  <2>3. FlatMap(FlatMap(c.parts, Answers), IdOf("tool_use")) = FlatMap(c.parts, Nothing)
    BY <1>0, <2>1, <2>2, InAnswers
  <2> QED BY <1>0, <2>3, NothingThrough
<1>2. FlatMap(OpenAI!JoinTexts(OpenAI!Texts(c.parts)), IdOf("tool_use")) = <<>>
  <2>1. \A y \in Items : y.kind = "text" => IdOf("tool_use")[y] = <<>>
    BY DEF IdOf
  <2> QED BY <1>0, <2>1, InTexts
<1>3. FlatMap(Rest(c), IdOf("tool_use")) = FlatMap(c.parts, ShortOf("call"))
  <2>1. \A y \in Items : y.kind = "media" => IdOf("tool_use")[y] = <<>> /\ ShortOf("call")[y] = <<>>
    BY DEF IdOf, ShortOf
  <2>2. \A x, y \in Items : x.kind = "call" /\ y.kind = "tool_use" /\ y.id = Norm(x.id)
            => IdOf("tool_use")[y] = ShortOf("call")[x]
    BY DEF IdOf, ShortOf
  <2>3. \A y \in Items : y.kind # "call" => ShortOf("call")[y] = <<>>
    BY DEF ShortOf
  <2> QED BY <1>0, <2>1, <2>2, <2>3, InRest
<1> QED BY <1>0, <1>1, <1>2, <1>3, SentThrough

LEMMA SentResults ==
    ASSUME NEW c \in Held
    PROVE  FlatMap(Sent(c), IdOf("tool_result")) = FlatMap(c.parts, ShortOf("response"))
<1>0. /\ IdOf("tool_result") \in Converters(Items, AllIDs)
      /\ ShortOf("response") \in Converters(Items, AllIDs) /\ c.parts \in Seq(Items)
  BY IdOfType, HeldParts
<1>1. FlatMap(FlatMap(c.parts, Answers), IdOf("tool_result")) = FlatMap(c.parts, ShortOf("response"))
  <2>1. \A x, y \in Items : x.kind = "response" /\ y.kind = "tool_result" /\ y.id = Norm(x.id)
            => IdOf("tool_result")[y] = ShortOf("response")[x]
    BY DEF IdOf, ShortOf
  <2>2. \A y \in Items : y.kind # "response" => ShortOf("response")[y] = <<>>
    BY DEF ShortOf
  <2> QED BY <1>0, <2>1, <2>2, InAnswers
<1>2. FlatMap(OpenAI!JoinTexts(OpenAI!Texts(c.parts)), IdOf("tool_result")) = <<>>
  <2>1. \A y \in Items : y.kind = "text" => IdOf("tool_result")[y] = <<>>
    BY DEF IdOf
  <2> QED BY <1>0, <2>1, InTexts
<1>3. FlatMap(Rest(c), IdOf("tool_result")) = <<>>
  <2>1. \A x \in Items : Nothing[x] = <<>>
    BY DEF Nothing
  <2>2. \A y \in Items : y.kind \in {"media", "tool_use"} => IdOf("tool_result")[y] = <<>>
    BY DEF IdOf
  <2>3. FlatMap(Rest(c), IdOf("tool_result")) = FlatMap(c.parts, Nothing)
    BY <1>0, <2>1, <2>2, InRest
  <2> QED BY <1>0, <2>3, NothingThrough
<1> QED BY <1>0, <1>1, <1>2, <1>3, SentThrough

-----------------------------------------------------------------------------
(* A whole history.                                                          *)

Request(h) == OpenAI!BuildChatCompletionParameters(h)
SentOf(h) == FlattenSeq([i \in DOMAIN Request(h) |-> Request(h)[i].items])
SaidOf(h) == FlattenSeq([i \in DOMAIN h |-> h[i].parts])
ConvFn == [c \in Held |-> Conv(c)]
PartsFn == [c \in Held |-> c.parts]
SentFn == [c \in Held |-> Sent(c)]

LEMMA HistoryFns ==
    /\ ConvFn \in Converters(Held, Messages)
    /\ PartsFn \in Converters(Held, Items)
    /\ SentFn \in Converters(Held, Items)
    /\ ItemsOf \in Converters(Messages, Items)
<1>1. \A c \in Held : Conv(c) \in Seq(Messages)
  BY ConvIs
<1>2. \A c \in Held : c.parts \in Seq(Items)
  BY HeldParts
<1>3. \A c \in Held : Sent(c) \in Seq(Items)
  BY SentIs
<1>4. ItemsOf \in Converters(Messages, Items)
  BY DEF ItemsOf, Converters, Messages
<1> QED BY <1>1, <1>2, <1>3, <1>4 DEF Converters, ConvFn, PartsFn, SentFn

LEMMA RequestIs ==
    ASSUME NEW h \in Seq(Held)
    PROVE  /\ Request(h) = FlatMap(h, ConvFn)
           /\ Request(h) \in Seq(Messages)
           /\ SentOf(h) = FlatMap(h, SentFn)
           /\ SentOf(h) \in Seq(Items)
           /\ SaidOf(h) = FlatMap(h, PartsFn)
           /\ SaidOf(h) \in Seq(Items)
<1>1. Request(h) = FlatMap(h, ConvFn)
  <2>1. [i \in DOMAIN h |-> Conv(h[i])] = [i \in DOMAIN h |-> ConvFn[h[i]]]
    BY DEF ConvFn
  <2> QED BY <2>1, OpenAISame DEF Request, OpenAI!BuildChatCompletionParameters, Conv, FlatMap
<1>2. Request(h) \in Seq(Messages)
  BY <1>1, HistoryFns, FlatMapType
<1>3. SentOf(h) = FlatMap(Request(h), ItemsOf)
  <2> DEFINE r == Request(h)
  <2>1. r \in Seq(Messages)
    BY <1>2
  <2> HIDE DEF r
  <2>2. [i \in DOMAIN r |-> r[i].items] = [i \in DOMAIN r |-> ItemsOf[r[i]]]
    BY <2>1 DEF ItemsOf
  <2>3. FlattenSeq([i \in DOMAIN r |-> r[i].items]) = FlatMap(r, ItemsOf)
    BY <2>2 DEF FlatMap
  <2> QED BY <2>3 DEF SentOf, r
<1>4. FlatMap(FlatMap(h, ConvFn), ItemsOf) = FlatMap(h, SentFn)
  <2>1. \A c \in Held : SentFn[c] = FlatMap(ConvFn[c], ItemsOf)
    BY DEF SentFn, ConvFn, Sent
  <2> QED BY <2>1, HistoryFns, FlatMapTwice
<1>5. SaidOf(h) = FlatMap(h, PartsFn)
  <2>1. [i \in DOMAIN h |-> h[i].parts] = [i \in DOMAIN h |-> PartsFn[h[i]]]
    BY DEF PartsFn
  <2> QED BY <2>1 DEF SaidOf, FlatMap
<1>6. FlatMap(h, SentFn) \in Seq(Items) /\ FlatMap(h, PartsFn) \in Seq(Items)
  BY HistoryFns, FlatMapType
<1> QED BY <1>1, <1>2, <1>3, <1>4, <1>5, <1>6

\* What is said and what is sent agree if they do for every content.
LEMMA HistoryThrough ==
    ASSUME NEW h \in Seq(Held), NEW B, NEW f \in Converters(Items, B), NEW g \in Converters(Items, B),
           \A c \in Held : FlatMap(Sent(c), f) = FlatMap(c.parts, g)
    PROVE  FlatMap(SentOf(h), f) = FlatMap(SaidOf(h), g)
<1> DEFINE k == [c \in Held |-> FlatMap(c.parts, g)]
<1>1. k \in Converters(Held, B)
  <2>1. \A c \in Held : FlatMap(c.parts, g) \in Seq(B)
    BY HeldParts, FlatMapType
  <2> QED BY <2>1 DEF Converters
<1>2. \A c \in Held : k[c] = FlatMap(SentFn[c], f) /\ k[c] = FlatMap(PartsFn[c], g)
  BY DEF SentFn, PartsFn
<1> HIDE DEF k
<1>3. FlatMap(FlatMap(h, SentFn), f) = FlatMap(h, k)
  BY <1>1, <1>2, HistoryFns, FlatMapTwice
<1>4. FlatMap(FlatMap(h, PartsFn), g) = FlatMap(h, k)
  BY <1>1, <1>2, HistoryFns, FlatMapTwice
<1> QED BY <1>3, <1>4, RequestIs

\* The IDs of the items of a kind, as HistorySent lists them.
LEMMA IdsAre ==
    ASSUME NEW s \in Seq(Items), NEW kind
    PROVE  LET of == OpenAI!OfKind(s, kind)
               ids == [i \in DOMAIN of |-> of[i].id]
           IN  /\ ids = FlatMap(s, IdOf(kind))
               /\ [i \in DOMAIN ids |-> Norm(ids[i])] = FlatMap(s, ShortOf(kind))
<1> DEFINE of == OpenAI!OfKind(s, kind)
           ids == [i \in DOMAIN of |-> of[i].id]
           short == [i \in DOMAIN ids |-> Norm(ids[i])]
           id == [x \in Items |-> <<x.id>>]
           sh == [x \in Items |-> <<Norm(x.id)>>]
<1>1. of = FlatMap(s, Only(kind)) /\ of \in Seq(Items)
  BY OfKindIs
<1>2. \A x \in Items : x.id \in AllIDs /\ Norm(x.id) \in AllIDs
  BY NormType DEF Items, Item
<1>3. /\ id \in Converters(Items, AllIDs) /\ sh \in Converters(Items, AllIDs)
      /\ \A x \in Items : id[x] = <<x.id>> /\ sh[x] = <<Norm(x.id)>>
  BY <1>2 DEF Converters
<1> HIDE DEF of
<1>4. DOMAIN of = 1 .. Len(of) /\ Len(of) \in Nat /\ \A i \in 1 .. Len(of) : of[i] \in Items
  BY <1>1, LenProperties, ElementOfSeq
<1> HIDE DEF id, sh
<1>5. ids \in Seq(AllIDs) /\ Images(of, id, ids)
  BY <1>2, <1>3, <1>4 DEF Images
<1>6. short \in Seq(AllIDs) /\ Images(of, sh, short)
  BY <1>2, <1>3, <1>4 DEF Images
<1> HIDE DEF ids, short
<1>7. ids = FlatMap(of, id) /\ short = FlatMap(of, sh)
  BY <1>1, <1>3, <1>5, <1>6, FlatMapSingle
<1>8. \A x \in Items : \/ Only(kind)[x] = <<>> /\ IdOf(kind)[x] = <<>> /\ ShortOf(kind)[x] = <<>>
                       \/ \E y \in Items : /\ Only(kind)[x] = <<y>>
                                           /\ IdOf(kind)[x] = id[y] /\ ShortOf(kind)[x] = sh[y]
  BY <1>3 DEF Only, IdOf, ShortOf
<1>9. FlatMap(FlatMap(s, Only(kind)), id) = FlatMap(s, IdOf(kind))
  BY <1>3, <1>8, Facts, Composed
<1>10. FlatMap(FlatMap(s, Only(kind)), sh) = FlatMap(s, ShortOf(kind))
  BY <1>3, <1>8, Facts, Composed
<1> QED BY <1>1, <1>7, <1>9, <1>10 DEF of, ids, short

LEMMA HistoryIsSent ==
    ASSUME contents \in Seq(Held), phase = "receiving" => request = Request(contents)
    PROVE  OpenAI!HistorySent
<1> SUFFICES ASSUME phase = "receiving" PROVE OpenAI!HistorySent
  BY DEF OpenAI!HistorySent
<1> DEFINE said == SaidOf(contents)
           sent == SentOf(contents)
           ids(ps, kind) == [i \in DOMAIN OpenAI!OfKind(ps, kind) |-> OpenAI!OfKind(ps, kind)[i].id]
           short(s) == [i \in DOMAIN s |-> Norm(s[i])]
<1>1. said \in Seq(Items) /\ sent \in Seq(Items)
  BY RequestIs
<1>2. request = Request(contents)
  OBVIOUS
<1> HIDE DEF said, sent
<1>3. Joined(sent) = Joined(said)
  <2>1. FlatMap(sent, TextOf) = FlatMap(said, TextOf)
    <3>1. TextOf \in Converters(Items, Nat)
      BY Facts
    <3> QED BY <3>1, SentTexts, HistoryThrough DEF said, sent
  <2> QED BY <1>1, <2>1, JoinedIs
<1>4. OpenAI!OfKind(sent, "media") = OpenAI!OfKind(said, "media")
  <2>1. FlatMap(sent, Only("media")) = FlatMap(said, Only("media"))
    <3>1. Only("media") \in Converters(Items, Items)
      BY Facts
    <3> QED BY <3>1, SentMedia, HistoryThrough DEF said, sent
  <2> QED BY <1>1, <2>1, OfKindIs
<1>5. ids(sent, "tool_use") = short(ids(said, "call"))
  <2>1. FlatMap(sent, IdOf("tool_use")) = FlatMap(said, ShortOf("call"))
    BY IdOfType, SentCalls, HistoryThrough DEF said, sent
  <2>2. ids(sent, "tool_use") = FlatMap(sent, IdOf("tool_use"))
    BY <1>1, IdsAre
  <2>3. short(ids(said, "call")) = FlatMap(said, ShortOf("call"))
    BY <1>1, IdsAre
  <2> QED BY <2>1, <2>2, <2>3
<1>6. ids(sent, "tool_result") = short(ids(said, "response"))
  <2>1. FlatMap(sent, IdOf("tool_result")) = FlatMap(said, ShortOf("response"))
    BY IdOfType, SentResults, HistoryThrough DEF said, sent
  <2>2. ids(sent, "tool_result") = FlatMap(sent, IdOf("tool_result"))
    BY <1>1, IdsAre
  <2>3. short(ids(said, "response")) = FlatMap(said, ShortOf("response"))
    BY <1>1, IdsAre
  <2> QED BY <2>1, <2>2, <2>3
<1>7. /\ said = OpenAI!FlattenSeq([i \in DOMAIN contents |-> contents[i].parts])
      /\ sent = OpenAI!FlattenSeq([i \in DOMAIN request |-> request[i].items])
  BY <1>2, OpenAISame DEF said, sent, SaidOf, SentOf
<1> QED BY <1>3, <1>4, <1>5, <1>6, <1>7, OpenAISame DEF OpenAI!HistorySent, Norm

-----------------------------------------------------------------------------
(* The messages of a content, and where they are in the request.             *)

SentIDs == ToolIDs \cup {NoID} \cup {<<"tc", id>> : id \in Long}

\* No message is empty.
LEMMA MessagesSay ==
    ASSUME NEW c \in Held, NEW m \in ToSet(Conv(c))
    PROVE  m \in Messages /\ m.items # <<>>
<1> DEFINE t == OpenAI!ToolMessages(c.parts)
           u == IF Spoken(c) = <<>> THEN <<>> ELSE <<RoleMessage(c)>>
<1>1. c.parts \in Seq(Items) /\ Conv(c) \in Seq(Messages)
  BY HeldParts, ConvIs
<1>2. m \in Messages
  BY <1>1, LenProperties, ElementOfSeq DEF ToSet
<1>3. t \in Seq(Messages) /\ u \in Seq(Messages) /\ Conv(c) = t \o u
  BY <1>1, ToolMessagesIs, ConvIs, SpokenType, EmptySeq
<1>4. m \in ToSet(t) \/ m \in ToSet(u)
  <2> HIDE DEF t, u
  <2> QED BY <1>3, ToSetConcat
<1>5. CASE m \in ToSet(t)
  <2>1. PICK p \in ToSet(c.parts) : m \in ToSet(Results[p])
    BY <1>1, <1>5, ToolMessagesIs, ResultsType, FlatMapMembers
  <2>2. p \in Items
    BY <1>1, LenProperties, ElementOfSeq DEF ToSet
  <2>3. m = ToolMessage(p.id)
    BY <2>1, <2>2 DEF Results, ToSet
  <2> QED BY <1>2, <2>3 DEF ToolMessage
<1>6. CASE m \in ToSet(u)
  <2>1. Spoken(c) # <<>> /\ m = RoleMessage(c)
    BY <1>6 DEF ToSet
  <2> QED BY <1>2, <2>1 DEF RoleMessage
<1> QED BY <1>4, <1>5, <1>6

\* What the items of a content's messages name.
LEMMA MessagesName ==
    ASSUME NEW c \in Held, NEW m \in ToSet(Conv(c)), NEW b \in ToSet(m.items)
    PROVE  /\ b.id \notin Long
           /\ b.id \in SentIDs
           /\ b.kind = "tool_result" =>
                \E p \in ToSet(c.parts) : p.kind = "response" /\ b.id = Norm(p.id)
<1>1. c.parts \in Seq(Items)
  BY HeldParts
<1>2. \A id \in ToolIDs : Norm(id) \notin Long /\ Norm(id) \in SentIDs
  BY IDAssumption, HashAssumption DEF Norm, OpenAI!NormalizeToolCallID, SentIDs
<1>3. NoID \notin Long /\ NoID \in SentIDs
  BY IDAssumption, NoIDAssumption DEF SentIDs
<1>9. \A p \in ToSet(c.parts) : p.kind \in {"call", "response"} => p.id \in ToolIDs
  <2>1. \A p \in ToSet(c.parts) : p \in UserPart \cup ModelPart
    BY HeldParts, LenProperties, ElementOfSeq DEF ToSet
  <2> QED BY <2>1, PartsAreItems
<1>4. m \in ToSet(OpenAI!ToolMessages(c.parts)) \/ m = RoleMessage(c)
  <2> DEFINE t == OpenAI!ToolMessages(c.parts)
             u == IF Spoken(c) = <<>> THEN <<>> ELSE <<RoleMessage(c)>>
  <2>1. t \in Seq(Messages) /\ u \in Seq(Messages) /\ Conv(c) = t \o u
    BY <1>1, ToolMessagesIs, ConvIs, SpokenType, EmptySeq
  <2>2. m \in ToSet(t) \/ m \in ToSet(u)
    <3> HIDE DEF t, u
    <3> QED BY <2>1, ToSetConcat
  <2>3. m \in ToSet(u) => m = RoleMessage(c)
    BY DEF ToSet
  <2> QED BY <2>2, <2>3
<1>5. CASE m \in ToSet(OpenAI!ToolMessages(c.parts))
  <2>1. PICK p \in ToSet(c.parts) : m \in ToSet(Results[p])
    BY <1>1, <1>5, ToolMessagesIs, ResultsType, FlatMapMembers
  <2>2. p \in Items
    BY <1>1, LenProperties, ElementOfSeq DEF ToSet
  <2>3. p.kind = "response" /\ m = ToolMessage(p.id)
    BY <2>1, <2>2 DEF Results, ToSet
  <2>4. b = Names("tool_result", Norm(p.id))
    BY <2>3 DEF ToolMessage, ToSet
  <2>5. p.id \in ToolIDs
    BY <1>9, <2>3
  <2> QED BY <1>2, <2>3, <2>4, <2>5 DEF Names
<1>6. CASE m = RoleMessage(c)
  <2> DEFINE J == OpenAI!JoinTexts(OpenAI!Texts(c.parts))
  <2>1. J \in Seq(Items) /\ Rest(c) \in Seq(Items) /\ b \in ToSet(J \o Rest(c))
    BY <1>1, <1>6, TextsIs, JoinTextsIs, SpokenType DEF RoleMessage, Spoken
  <2>2. b \in ToSet(J) \/ b \in ToSet(Rest(c))
    <3> HIDE DEF J
    <3> QED BY <2>1, ToSetConcat
  <2>3. CASE b \in ToSet(J)
    <3>1. b = Says("text", Joined(OpenAI!Texts(c.parts)))
      BY <1>1, <2>3, TextsIs, JoinTextsIs
    <3> QED BY <1>3, <3>1 DEF Says
  <2>4. CASE b \in ToSet(Rest(c)) /\ c.role = "user"
    <3>1. PICK p \in ToSet(c.parts) : b \in ToSet(Only("media")[p])
      BY <1>1, <2>4, OfKindIs, Facts, FlatMapMembers DEF Rest
    <3>2. p \in UserPart
      BY <2>4, HeldParts, LenProperties, ElementOfSeq DEF ToSet
    <3>3. p \in Items
      BY <3>2, PartsAreItems
    <3>4. b = p /\ p.kind = "media"
      BY <3>1, <3>3 DEF Only, ToSet
    <3>5. p.id = NoID
      BY <3>2, <3>4 DEF UserPart, Says, Names
    <3> QED BY <1>3, <3>4, <3>5
  <2>5. CASE b \in ToSet(Rest(c)) /\ c.role = "model"
    <3>1. PICK p \in ToSet(c.parts) : b \in ToSet(Renamed("call", "tool_use")[p])
      BY <1>1, <2>5, ToolCallsIs, RenamedType, FlatMapMembers DEF Rest, Kinds
    <3>2. p \in Items
      BY <1>1, LenProperties, ElementOfSeq DEF ToSet
    <3>3. b = Names("tool_use", Norm(p.id)) /\ p.kind = "call"
      BY <3>1, <3>2 DEF Renamed, ToSet
    <3>4. p.id \in ToolIDs
      BY <1>9, <3>3
    <3> QED BY <1>2, <3>3, <3>4 DEF Names
  <2> QED BY <2>2, <2>3, <2>4, <2>5, HeldParts
<1> QED BY <1>4, <1>5, <1>6

\* Every call of a content is in a message.
LEMMA CallsAreSent ==
    ASSUME NEW c \in Held, NEW p \in ToSet(c.parts), p.kind = "call"
    PROVE  \E m \in ToSet(Conv(c)) : Norm(p.id) \in OpenAI!Calling(m)
<1>1. c.parts \in Seq(Items) /\ c.role = "model"
  <2>1. c.role # "user"
    <3> SUFFICES ASSUME c.role = "user" PROVE FALSE
      OBVIOUS
    <3>1. p \in UserPart
      BY HeldParts, LenProperties, ElementOfSeq DEF ToSet
    <3> QED BY <3>1, PartsAreItems
  <2> QED BY <2>1, HeldParts
<1>2. p \in Items
  BY <1>1, LenProperties, ElementOfSeq DEF ToSet
<1> DEFINE b == Names("tool_use", Norm(p.id))
           J == OpenAI!JoinTexts(OpenAI!Texts(c.parts))
<1>3. b \in ToSet(Rest(c))
  <2>1. b \in ToSet(Renamed("call", "tool_use")[p])
    BY <1>2 DEF Renamed, ToSet
  <2>2. b \in ToSet(FlatMap(c.parts, Renamed("call", "tool_use")))
    BY <1>1, <2>1, RenamedType, FlatMapMembers DEF Kinds
  <2> QED BY <1>1, <2>2, ToolCallsIs DEF Rest
<1> HIDE DEF b
<1>4. b \in ToSet(Spoken(c)) /\ Spoken(c) # <<>>
  <2>1. J \in Seq(Items) /\ Rest(c) \in Seq(Items)
    BY <1>1, TextsIs, JoinTextsIs, SpokenType
  <2> HIDE DEF J
  <2>2. b \in ToSet(J \o Rest(c))
    BY <1>3, <2>1, ToSetConcat
  <2>3. ToSet(<<>>) = {}
    BY DEF ToSet
  <2> QED BY <2>2, <2>3 DEF J, Spoken
<1>5. RoleMessage(c) \in ToSet(Conv(c))
  <2> DEFINE t == OpenAI!ToolMessages(c.parts)
             r == RoleMessage(c)
  <2>1. t \in Seq(Messages) /\ <<r>> \in Seq(Messages) /\ Conv(c) = t \o <<r>>
    BY <1>1, <1>4, ToolMessagesIs, ConvIs, SpokenType
  <2>2. r \in ToSet(<<r>>)
    BY DEF ToSet
  <2> HIDE DEF t, r
  <2>3. r \in ToSet(t \o <<r>>)
    <3> DEFINE u == <<r>>
    <3>1. u \in Seq(Messages) /\ r \in ToSet(u)
      BY <2>1, <2>2
    <3> HIDE DEF u
    <3>2. r \in ToSet(t \o u)
      BY <2>1, <3>1, ToSetConcat
    <3> QED BY <3>2 DEF u
  <2> QED BY <2>1, <2>3 DEF r
<1>6. Norm(p.id) \in OpenAI!Calling(RoleMessage(c))
  <2>1. RoleMessage(c).items = Spoken(c)
    BY DEF RoleMessage
  <2>2. b.kind = "tool_use" /\ b.id = Norm(p.id)
    BY DEF b, Names
  <2> QED BY <1>4, <2>1, <2>2, OpenAISame DEF OpenAI!Calling
<1> QED BY <1>5, <1>6

\* A result has its call in an earlier content.
CallsComeFirst(h) ==
    \A i \in DOMAIN h : \A p \in ToSet(h[i].parts) : p.kind = "response" =>
        \E j \in 1 .. i - 1 : \E q \in ToSet(h[j].parts) : q.kind = "call" /\ q.id = p.id

LEMMA ResultsFollowCalls ==
    ASSUME NEW h \in Seq(Held), CallsComeFirst(h),
           NEW i \in 1 .. Len(Request(h)), NEW b \in ToSet(Request(h)[i].items)
    PROVE  /\ b.id \notin Long
           /\ b.kind = "tool_result" => \E j \in 1 .. i - 1 : b.id \in OpenAI!Calling(Request(h)[j])
<1> DEFINE u == [k \in DOMAIN h |-> ConvFn[h[k]]]
           R == Request(h)
           n == Len(h)
<1>1. /\ u \in Seq(Seq(Messages)) /\ Len(u) = n /\ DOMAIN h = 1 .. n /\ n \in Nat
      /\ \A k \in 1 .. n : h[k] \in Held /\ u[k] = Conv(h[k])
  <2>1. ConvFn \in [Held -> Seq(Messages)]
    BY HistoryFns DEF Converters
  <2>2. u \in Seq(Seq(Messages))
    BY <2>1, ImageType
  <2>3. DOMAIN h = 1 .. n /\ n \in Nat /\ \A k \in 1 .. n : h[k] \in Held
    BY LenProperties, ElementOfSeq
  <2>4. Len(u) = n
    BY <2>3
  <2>5. \A k \in 1 .. n : u[k] = Conv(h[k])
    BY <2>3 DEF ConvFn
  <2> QED BY <2>2, <2>3, <2>4, <2>5
<1>2. R = FlattenSeq(u)
  BY RequestIs DEF FlatMap
<1> HIDE DEF u, R, n
<1> PICK off \in [0 .. Len(u) -> Nat] : Offsets(u, off) /\ Places(u, off)
  BY <1>1, FlattenPlaces
<1>3. /\ \A k \in 0 .. n : off[k] \in Nat
      /\ \A k \in 1 .. n : off[k] = off[k - 1] + Len(u[k])
      /\ \A k \in 0 .. n : \A l \in k .. n : off[k] <= off[l]
  BY <1>1 DEF Offsets
<1>4. /\ \A k \in 1 .. n : \A l \in 1 .. Len(u[k]) : R[off[k - 1] + l] = u[k][l]
      /\ \A a \in 1 .. Len(R) : \E k \in 1 .. n : \E l \in 1 .. Len(u[k]) : a = off[k - 1] + l
  BY <1>1, <1>2 DEF Places
<1>5. \A k \in 1 .. n : ToSet(u[k]) = {u[k][l] : l \in 1 .. Len(u[k])} /\ Len(u[k]) \in Nat
  <2> SUFFICES ASSUME NEW k \in 1 .. n
               PROVE  ToSet(u[k]) = {u[k][l] : l \in 1 .. Len(u[k])} /\ Len(u[k]) \in Nat
    OBVIOUS
  <2>1. u[k] \in Seq(Messages)
    BY <1>1, ElementOfSeq
  <2> QED BY <2>1, LenProperties DEF ToSet
<1>6. i \in 1 .. Len(R) /\ b \in ToSet(R[i].items)
  BY DEF R
<1> PICK k \in 1 .. n : \E l \in 1 .. Len(u[k]) : i = off[k - 1] + l
  BY <1>4, <1>6
<1> PICK l \in 1 .. Len(u[k]) : i = off[k - 1] + l
  OBVIOUS
<1>7. h[k] \in Held /\ R[i] \in ToSet(Conv(h[k]))
  <2>1. R[i] = u[k][l]
    BY <1>4
  <2> QED BY <1>1, <1>5, <2>1
<1>8. /\ b.id \notin Long
      /\ b.kind = "tool_result" =>
            \E p \in ToSet(h[k].parts) : p.kind = "response" /\ b.id = Norm(p.id)
  BY <1>6, <1>7, MessagesName
<1>9. ASSUME b.kind = "tool_result"
      PROVE  \E j \in 1 .. i - 1 : b.id \in OpenAI!Calling(R[j])
  <2> PICK p \in ToSet(h[k].parts) : p.kind = "response" /\ b.id = Norm(p.id)
    BY <1>8, <1>9
  <2> PICK e \in 1 .. k - 1 : \E q \in ToSet(h[e].parts) : q.kind = "call" /\ q.id = p.id
    BY <1>1 DEF CallsComeFirst
  <2> PICK q \in ToSet(h[e].parts) : q.kind = "call" /\ q.id = p.id
    OBVIOUS
  <2>1. e \in 1 .. n /\ e \in 0 .. n /\ k - 1 \in 0 .. n /\ k - 1 \in e .. n /\ e - 1 \in 0 .. n
    <3>1. n \in Nat
      BY <1>1
    <3> QED BY <3>1
  <2> PICK m \in ToSet(Conv(h[e])) : Norm(q.id) \in OpenAI!Calling(m)
    BY <1>1, <2>1, CallsAreSent
  <2> PICK a \in 1 .. Len(u[e]) : m = u[e][a]
    BY <1>1, <1>5, <2>1
  <2> DEFINE j == off[e - 1] + a
  <2>2. R[j] = m
    BY <1>4, <2>1
  <2>3. off[e] = off[e - 1] + Len(u[e]) /\ off[e] <= off[k - 1]
    BY <1>3, <2>1
  <2>4. off[e - 1] \in Nat /\ off[e] \in Nat /\ off[k - 1] \in Nat /\ Len(u[e]) \in Nat
    BY <1>3, <1>5, <2>1
  <2>5. j \in 1 .. i - 1
    <3>1. \A o1, o2, o3, s, x, y \in Nat :
             o2 = o1 + s /\ o2 <= o3 /\ x \in 1 .. s /\ y >= 1 => o1 + x \in 1 .. (o3 + y) - 1
      OBVIOUS
    <3>2. a \in Nat /\ l \in Nat /\ l >= 1 /\ a \in 1 .. Len(u[e])
      BY <1>5, <2>1
    <3> QED BY <2>3, <2>4, <3>1, <3>2
  <2> HIDE DEF j
  <2> QED BY <2>2, <2>5
<1> QED BY <1>8, <1>9 DEF R

LEMMA RequestType ==
    ASSUME NEW h \in Seq(Held)
    PROVE  Request(h) \in Seq(OpenAI!Message)
<1> DEFINE R == Request(h)
<1>1. R = FlatMap(h, ConvFn) /\ R \in Seq(Messages)
  BY RequestIs
<1> HIDE DEF R
<1>2. ASSUME NEW i \in 1 .. Len(R) PROVE R[i] \in OpenAI!Message
  <2> DEFINE m == R[i]
  <2>1. m \in ToSet(FlatMap(h, ConvFn))
    BY <1>1, LenProperties DEF ToSet
  <2> HIDE DEF m
  <2>2. PICK c \in ToSet(h) : m \in ToSet(ConvFn[c])
    BY <2>1, HistoryFns, FlatMapMembers
  <2>3. c \in Held
    BY LenProperties, ElementOfSeq DEF ToSet
  <2>4. m \in ToSet(Conv(c))
    BY <2>2, <2>3 DEF ConvFn
  <2>5. m \in Messages /\ m.items # <<>>
    BY <2>3, <2>4, MessagesSay
  <2>6. m.items \in Seq(Item(SentIDs))
    <3>1. m.items \in Seq(Items)
      BY <2>5 DEF Messages
    <3>2. \A k \in 1 .. Len(m.items) : m.items[k] \in Items /\ m.items[k].id \in SentIDs
      <4> SUFFICES ASSUME NEW k \in 1 .. Len(m.items)
                   PROVE  m.items[k] \in Items /\ m.items[k].id \in SentIDs
        OBVIOUS
      <4>1. m.items[k] \in ToSet(m.items) /\ m.items[k] \in Items
        BY <3>1, LenProperties, ElementOfSeq DEF ToSet
      <4> QED BY <2>3, <2>4, <4>1, MessagesName
    <3>3. \A x \in Items : x.id \in SentIDs => x \in Item(SentIDs)
      BY DEF Items, Item
    <3>4. m.items \in [1 .. Len(m.items) -> Item(SentIDs)] /\ Len(m.items) \in Nat
      BY <3>1, <3>2, <3>3, LenProperties
    <3> QED BY <3>4
  <2>7. m \in OpenAI!Message
    BY <2>5, <2>6, OpenAISame DEF Messages, OpenAI!Message, SentIDs
  <2> QED BY <2>7 DEF m
<1>3. Len(R) \in Nat /\ R \in [1 .. Len(R) -> OpenAI!Message]
  BY <1>1, <1>2, LenProperties
<1>4. R \in Seq(OpenAI!Message)
  BY <1>3
<1> QED BY <1>4 DEF R

-----------------------------------------------------------------------------
(* The conversion to the messages of Anthropic.                              *)

LEMMA AnthropicSame ==
    /\ \A s : Anthropic!FlattenSeq(s) = FlattenSeq(s)
    /\ \A s : Anthropic!ToSet(s) = ToSet(s)
    /\ \A s, x : Anthropic!Contains(s, x) <=> Contains(s, x)
    /\ \A kind, id : Anthropic!Names(kind, id) = Names(kind, id)
    /\ \A ids : Anthropic!Item(ids) = Item(ids)
<1>1. \A s : Anthropic!FlattenSeq(s) = FlattenSeq(s)
  BY DEF Anthropic!FlattenSeq, FlattenSeq
<1>2. \A s : Anthropic!ToSet(s) = ToSet(s)
  BY DEF Anthropic!ToSet, ToSet
<1>3. \A s, x : Anthropic!Contains(s, x) <=> Contains(s, x)
  BY DEF Anthropic!Contains, Contains
<1>4. \A kind, id : Anthropic!Names(kind, id) = Names(kind, id)
  BY DEF Anthropic!Names, Names
<1>5. \A ids : Anthropic!Item(ids) = Item(ids)
  BY DEF Anthropic!Item, Item
<1> QED BY <1>1, <1>2, <1>3, <1>4, <1>5

\* Contents that can be converted.
AUserPart == {Says("text", <<0>>), Says("media", <<>>)} \cup {Names("response", id) : id \in ToolIDs}
APart == AUserPart \cup ModelPart
AHeld == [role : {"user"}, parts : Seq(AUserPart)] \cup [role : {"model"}, parts : Seq(ModelPart)]

San(id) == Anthropic!SanitizeToolID(id)
Block(p) == IF p.kind = "call" THEN Names("tool_use", San(p.id)) ELSE
            IF p.kind = "response" THEN Names("tool_result", San(p.id)) ELSE p
Blocks == [p \in APart |-> IF p.kind = "text" /\ p.text = <<>> THEN <<>> ELSE <<Block(p)>>]
AMessages == [role : {"user", "assistant"}, blocks : Seq(Items)]
AMessage(c) == Anthropic!ConvertContentToMessage(c)

LEMMA APartFacts ==
    /\ AUserPart \subseteq UserPart
    /\ APart \subseteq Items
    /\ \A p \in AUserPart : p.kind \in {"text", "media", "response"}
    /\ \A p \in ModelPart : p.kind \in {"text", "call"}
    /\ \A p \in APart : p.kind \in {"call", "response"} => p.id \in ToolIDs /\ p = Names(p.kind, p.id)
    /\ \A p \in APart : p.kind \in {"text", "media"} => p.id = NoID
<1>1. AUserPart \subseteq UserPart
  BY DEF AUserPart, UserPart
<1>2. \A p \in AUserPart : p.kind \in {"text", "media", "response"}
  BY DEF AUserPart, Says, Names
<1>3. \A p \in APart : p.kind \in {"call", "response"} => p.id \in ToolIDs /\ p = Names(p.kind, p.id)
  BY DEF APart, AUserPart, ModelPart, Says, Names
<1>4. \A p \in APart : p.kind \in {"text", "media"} => p.id = NoID
  BY DEF APart, AUserPart, ModelPart, Says, Names
<1> QED BY <1>1, <1>2, <1>3, <1>4, PartsAreItems DEF APart

LEMMA AHeldParts ==
    ASSUME NEW c \in AHeld
    PROVE  /\ c.parts \in Seq(APart)
           /\ c.parts \in Seq(Items)
           /\ \/ c.role = "user" /\ c.parts \in Seq(AUserPart)
              \/ c.role = "model" /\ c.parts \in Seq(ModelPart)
<1>1. \/ c.role = "user" /\ c.parts \in Seq(AUserPart)
      \/ c.role = "model" /\ c.parts \in Seq(ModelPart)
  BY DEF AHeld
<1>2. Seq(AUserPart) \subseteq Seq(APart) /\ Seq(ModelPart) \subseteq Seq(APart)
  BY SeqMonotonic DEF APart
<1>3. Seq(APart) \subseteq Seq(Items)
  BY APartFacts, SeqMonotonic
<1> QED BY <1>1, <1>2, <1>3

LEMMA BlockType ==
    ASSUME NEW p \in APart
    PROVE  /\ Block(p) \in Items
           /\ Anthropic!ConvertPart(p) = Blocks[p]
           /\ Block(p).id \in ToolIDs \cup {NoID} \cup {<<"toolu", id>> : id \in Invalid}
           /\ Block(p).kind = "tool_use" <=> p.kind = "call"
           /\ Block(p).kind = "tool_result" <=> p.kind = "response"
           /\ p.kind \in {"call", "response"} => Block(p).id = San(p.id)
           /\ Block(p).kind = "tool_result" => Block(p) = Names("tool_result", Block(p).id)
<1>1. p.kind \in {"text", "media", "response", "call"} /\ p \in Items
  BY APartFacts DEF APart
<1>2. p.id \in ToolIDs => San(p.id) \in AllIDs
                          /\ San(p.id) \in ToolIDs \cup {<<"toolu", id>> : id \in Invalid}
  BY IDAssumption DEF San, Anthropic!SanitizeToolID, AllIDs
<1>3. Block(p) \in Items
  BY <1>1, <1>2, NamesType, APartFacts DEF Block, Kinds
<1>4. Anthropic!ConvertPart(p) = Blocks[p]
  <2>1. CASE p.kind = "text"
    BY <2>1 DEF Anthropic!ConvertPart, Blocks, Block
  <2>2. CASE p.kind = "media"
    BY <2>2 DEF Anthropic!ConvertPart, Blocks, Block
  <2>3. CASE p.kind = "call"
    BY <2>3, AnthropicSame DEF Anthropic!ConvertPart, Blocks, Block, San
  <2>4. CASE p.kind = "response"
    BY <2>4, AnthropicSame DEF Anthropic!ConvertPart, Blocks, Block, San
  <2> QED BY <1>1, <2>1, <2>2, <2>3, <2>4
<1>5. Block(p).id \in ToolIDs \cup {NoID} \cup {<<"toolu", id>> : id \in Invalid}
  BY <1>1, <1>2, APartFacts DEF Block, Names
<1>6. /\ Block(p).kind = "tool_use" <=> p.kind = "call"
      /\ Block(p).kind = "tool_result" <=> p.kind = "response"
  BY <1>1 DEF Block, Names
<1>7. /\ p.kind \in {"call", "response"} => Block(p).id = San(p.id)
      /\ p.kind = "response" => Block(p) = Names("tool_result", Block(p).id)
  BY <1>1 DEF Block, Names
<1> QED BY <1>3, <1>4, <1>5, <1>6, <1>7

LEMMA BlocksType == Blocks \in Converters(APart, Items)
<1>1. \A p \in APart : <<Block(p)>> \in Seq(Items) /\ <<>> \in Seq(Items)
  BY BlockType, EmptySeq
<1> QED BY <1>1 DEF Blocks, Converters

LEMMA AMessageIs ==
    ASSUME NEW c \in AHeld
    PROVE  /\ AMessage(c) \in AMessages
           /\ AMessage(c).role = IF c.role = "model" THEN "assistant" ELSE "user"
           /\ AMessage(c).blocks = FlatMap(c.parts, Blocks)
<1>1. c.parts \in Seq(APart)
  BY AHeldParts
<1>2. [i \in DOMAIN c.parts |-> Anthropic!ConvertPart(c.parts[i])]
        = [i \in DOMAIN c.parts |-> Blocks[c.parts[i]]]
  BY <1>1, BlockType
<1>3. FlatMap(c.parts, Blocks) \in Seq(Items)
  BY <1>1, BlocksType, FlatMapType
<1>4. AMessage(c) = [role |-> IF c.role = "model" THEN "assistant" ELSE "user",
                     blocks |-> FlatMap(c.parts, Blocks)]
  BY <1>2, AnthropicSame DEF AMessage, Anthropic!ConvertContentToMessage, FlatMap
<1> QED BY <1>3, <1>4 DEF AMessages

\* The blocks of a message are those of its content's parts.
LEMMA BlocksAre ==
    ASSUME NEW c \in AHeld, NEW b
    PROVE  b \in ToSet(AMessage(c).blocks) <=>
               \E p \in ToSet(c.parts) : ~(p.kind = "text" /\ p.text = <<>>) /\ b = Block(p)
<1>1. c.parts \in Seq(APart)
  BY AHeldParts
<1>2. b \in ToSet(FlatMap(c.parts, Blocks)) <=> \E p \in ToSet(c.parts) : b \in ToSet(Blocks[p])
  BY <1>1, BlocksType, FlatMapMembers
<1>3. \A p \in ToSet(c.parts) : p \in APart
  BY <1>1, LenProperties, ElementOfSeq DEF ToSet
<1>4. \A p \in ToSet(c.parts) :
        b \in ToSet(Blocks[p]) <=> ~(p.kind = "text" /\ p.text = <<>>) /\ b = Block(p)
  <2> SUFFICES ASSUME NEW p \in ToSet(c.parts)
               PROVE  b \in ToSet(Blocks[p]) <=> ~(p.kind = "text" /\ p.text = <<>>) /\ b = Block(p)
    OBVIOUS
  <2>1. Blocks[p] = IF p.kind = "text" /\ p.text = <<>> THEN <<>> ELSE <<Block(p)>>
    BY <1>3 DEF Blocks
  <2> QED BY <2>1, ToSetSmall
<1> QED BY <1>2, <1>4, AMessageIs

\* The messages that a history becomes.
AIDs == ToolIDs \cup {NoID} \cup {<<"toolu", id>> : id \in Invalid}
Told == {AMessage(c) : c \in {d \in AHeld : AMessage(d).blocks # <<>>}}
Tells == [c \in AHeld |-> IF AMessage(c).blocks # <<>> THEN <<AMessage(c)>> ELSE <<>>]

LEMMA ToldIs ==
    ASSUME NEW m \in Told
    PROVE  /\ m \in AMessages /\ m.blocks # <<>>
           /\ \A b \in ToSet(m.blocks) :
                /\ b.id \in AIDs
                /\ b.kind = "tool_use" => m.role = "assistant"
                /\ b.kind = "tool_result" => m.role = "user" /\ b = Names("tool_result", b.id)
<1> PICK c \in AHeld : m = AMessage(c) /\ m.blocks # <<>>
  BY DEF Told
<1>1. m \in AMessages
  BY AMessageIs
<1>2. ASSUME NEW b \in ToSet(m.blocks)
      PROVE  /\ b.id \in AIDs
             /\ b.kind = "tool_use" => m.role = "assistant"
             /\ b.kind = "tool_result" => m.role = "user" /\ b = Names("tool_result", b.id)
  <2> PICK p \in ToSet(c.parts) : b = Block(p)
    BY BlocksAre
  <2>1. p \in APart /\ (c.role = "user" => p \in AUserPart) /\ (c.role = "model" => p \in ModelPart)
    BY AHeldParts, ToSetIs
  <2>2. m.role = IF c.role = "model" THEN "assistant" ELSE "user"
    BY AMessageIs
  <2>3. c.role \in {"user", "model"}
    BY AHeldParts
  <2> QED BY <2>1, <2>2, <2>3, BlockType, APartFacts DEF AIDs
<1> QED BY <1>1, <1>2

LEMMA MessagesAre ==
    ASSUME NEW h \in Seq(AHeld)
    PROVE  /\ Tells \in Converters(AHeld, Told)
           /\ Anthropic!Messages(h) = FlatMap(h, Tells)
           /\ Anthropic!Messages(h) \in Seq(Told)
<1>1. Tells \in Converters(AHeld, Told)
  <2>1. \A c \in AHeld : AMessage(c).blocks # <<>> => AMessage(c) \in Told
    BY DEF Told
  <2>2. <<>> \in Seq(Told)
    BY EmptySeq
  <2> QED BY <2>1, <2>2 DEF Tells, Converters
<1>2. Anthropic!Messages(h) = FlatMap(h, Tells)
  <2> DEFINE g == [i \in DOMAIN h |-> AMessage(h[i])]
  <2>1. Anthropic!Messages(h)
          = FlattenSeq([i \in DOMAIN g |-> IF g[i].blocks # <<>> THEN <<g[i]>> ELSE <<>>])
    BY AnthropicSame DEF Anthropic!Messages, Anthropic!Chosen, Anthropic!HasContent, AMessage
  <2>2. [i \in DOMAIN g |-> IF g[i].blocks # <<>> THEN <<g[i]>> ELSE <<>>]
          = [i \in DOMAIN h |-> Tells[h[i]]]
    BY DEF Tells
  <2> QED BY <2>1, <2>2 DEF FlatMap
<1>3. FlatMap(h, Tells) \in Seq(Told)
  BY <1>1, FlatMapType
<1> QED BY <1>1, <1>2, <1>3

-----------------------------------------------------------------------------
(* The repair of the history.                                                *)

Kept(ids) == [b \in Items |-> IF b.kind = "tool_use" => b.id \in ids THEN <<b>> ELSE <<>>]
Filtered(ms, i) == Anthropic!Filtered(ms, i)
Repaired(ms) == Anthropic!RepairMessageHistory(ms)

LEMMA KeptType ==
    ASSUME NEW ids
    PROVE  Kept(ids) \in Converters(Items, Items)
<1>1. \A b \in Items : <<b>> \in Seq(Items) /\ <<>> \in Seq(Items)
  BY EmptySeq
<1> QED BY <1>1 DEF Kept, Converters

LEMMA FilteredIs ==
    ASSUME NEW ms \in Seq(Told), NEW i \in 1 .. Len(ms)
    PROVE  /\ Filtered(ms, i) \in AMessages
           /\ Filtered(ms, i).role = ms[i].role
           /\ ms[i].role = "user" => Filtered(ms, i) = ms[i]
           /\ ms[i].role = "assistant" =>
                Filtered(ms, i).blocks = FlatMap(ms[i].blocks, Kept(Anthropic!AnsweredIDs(ms, i)))
<1> DEFINE m == ms[i]
           ids == Anthropic!AnsweredIDs(ms, i)
<1>1. m \in AMessages
  BY ElementOfSeq, ToldIs
<1>2. m.blocks \in Seq(Items) /\ m.role \in {"user", "assistant"}
  BY <1>1 DEF AMessages
<1>3. CASE m.role = "user"
  <2>1. Filtered(ms, i) = m
    BY <1>3 DEF Filtered, Anthropic!Filtered
  <2> QED BY <1>1, <1>3, <2>1
<1>4. CASE m.role = "assistant"
  <2>1. Filtered(ms, i) = [m EXCEPT !.blocks =
            FlattenSeq([k \in DOMAIN m.blocks |->
                IF m.blocks[k].kind = "tool_use" => m.blocks[k].id \in ids
                THEN <<m.blocks[k]>> ELSE <<>>])]
    BY <1>4, AnthropicSame
       DEF Filtered, Anthropic!Filtered, Anthropic!FilterToolUse, Anthropic!Chosen
  <2>2. [k \in DOMAIN m.blocks |-> IF m.blocks[k].kind = "tool_use" => m.blocks[k].id \in ids
                                   THEN <<m.blocks[k]>> ELSE <<>>]
          = [k \in DOMAIN m.blocks |-> Kept(ids)[m.blocks[k]]]
    <3> HIDE DEF m, ids
    <3> QED BY <1>2 DEF Kept
  <2>3. Filtered(ms, i) = [m EXCEPT !.blocks = FlatMap(m.blocks, Kept(ids))]
    BY <2>1, <2>2 DEF FlatMap
  <2>4. FlatMap(m.blocks, Kept(ids)) \in Seq(Items)
    BY <1>2, KeptType, FlatMapType
  <2> HIDE DEF ids, m
  <2>5. /\ Filtered(ms, i) \in AMessages /\ Filtered(ms, i).role = m.role
        /\ Filtered(ms, i).blocks = FlatMap(m.blocks, Kept(ids))
    BY <1>1, <2>3, <2>4 DEF AMessages
  <2> QED BY <1>4, <2>5 DEF m, ids
<1> QED BY <1>2, <1>3, <1>4

\* What the filter leaves of a message.
LEMMA FilteredKeeps ==
    ASSUME NEW ms \in Seq(Told), NEW i \in 1 .. Len(ms), NEW b
    PROVE  b \in ToSet(Filtered(ms, i).blocks) <=>
               /\ b \in ToSet(ms[i].blocks)
               /\ b.kind = "tool_use" => b.id \in Anthropic!AnsweredIDs(ms, i)
<1> DEFINE m == ms[i]
           ids == Anthropic!AnsweredIDs(ms, i)
<1>1. m \in Told
  BY ElementOfSeq
<1>2. m.blocks \in Seq(Items) /\ m.role \in {"user", "assistant"}
  BY <1>1, ToldIs DEF AMessages
<1>3. CASE m.role = "user"
  <2>1. Filtered(ms, i) = m
    BY <1>3, FilteredIs
  <2>2. b \in ToSet(m.blocks) => b.kind # "tool_use"
    BY <1>1, <1>3, ToldIs
  <2> QED BY <2>1, <2>2
<1>4. CASE m.role = "assistant"
  <2>1. Filtered(ms, i).blocks = FlatMap(m.blocks, Kept(ids))
    BY <1>4, FilteredIs
  <2> HIDE DEF ids, m
  <2>2. b \in ToSet(FlatMap(m.blocks, Kept(ids))) <=> \E a \in ToSet(m.blocks) : b \in ToSet(Kept(ids)[a])
    BY <1>2, KeptType, FlatMapMembers
  <2>3. \A a \in ToSet(m.blocks) :
          b \in ToSet(Kept(ids)[a]) <=> b = a /\ (b.kind = "tool_use" => b.id \in ids)
    <3> SUFFICES ASSUME NEW a \in ToSet(m.blocks)
                 PROVE  b \in ToSet(Kept(ids)[a]) <=> b = a /\ (b.kind = "tool_use" => b.id \in ids)
      OBVIOUS
    <3>1. a \in Items
      BY <1>2, ToSetIs
    <3>2. Kept(ids)[a] = IF a.kind = "tool_use" => a.id \in ids THEN <<a>> ELSE <<>>
      BY <3>1 DEF Kept
    <3> QED BY <3>2, ToSetSmall
  <2>4. b \in ToSet(Filtered(ms, i).blocks) <=> b \in ToSet(m.blocks) /\ (b.kind = "tool_use" => b.id \in ids)
    BY <2>1, <2>2, <2>3
  <2> QED BY <2>4 DEF m, ids
<1> QED BY <1>2, <1>3, <1>4

Left(ms) == [i \in DOMAIN ms |-> IF Filtered(ms, i).blocks # <<>> THEN <<Filtered(ms, i)>> ELSE <<>>]

LEMMA RepairedIs ==
    ASSUME NEW ms \in Seq(Told)
    PROVE  /\ Repaired(ms) = FlattenSeq(Left(ms))
           /\ Left(ms) \in Seq(Seq(AMessages))
           /\ Len(Left(ms)) = Len(ms)
           /\ Repaired(ms) \in Seq(AMessages)
<1> DEFINE g == [i \in DOMAIN ms |-> Filtered(ms, i)]
<1>1. Repaired(ms) = FlattenSeq([i \in DOMAIN g |-> IF g[i].blocks # <<>> THEN <<g[i]>> ELSE <<>>])
  BY AnthropicSame DEF Repaired, Anthropic!RepairMessageHistory, Anthropic!Chosen,
                       Anthropic!HasContent, Filtered
<1>2. [i \in DOMAIN g |-> IF g[i].blocks # <<>> THEN <<g[i]>> ELSE <<>>] = Left(ms)
  BY DEF Left
<1>3. \A i \in 1 .. Len(ms) : Filtered(ms, i) \in AMessages
  BY FilteredIs
<1>4. \A i \in 1 .. Len(ms) :
        (IF Filtered(ms, i).blocks # <<>> THEN <<Filtered(ms, i)>> ELSE <<>>) \in Seq(AMessages)
  BY <1>3, EmptySeq
<1>5. Left(ms) \in Seq(Seq(AMessages)) /\ Len(Left(ms)) = Len(ms)
  <2> DEFINE w == Left(ms)
             S == Seq(AMessages)
  <2>1. w = [i \in 1 .. Len(ms) |-> w[i]] /\ \A i \in 1 .. Len(ms) : w[i] \in S
    BY <1>4, LenProperties DEF Left
  <2>2. Len(ms) \in Nat
    OBVIOUS
  <2> HIDE DEF w, S
  <2>3. w \in Seq(S) /\ Len(w) = Len(ms)
    BY <2>1, <2>2
  <2> QED BY <2>3 DEF w, S
<1>6. FlattenSeq(Left(ms)) \in Seq(AMessages)
  BY <1>5, FlattenType
<1> QED BY <1>1, <1>2, <1>5, <1>6

\* After the repair the answers of every tool_use come right after it.
LEMMA RepairedAnswers ==
    ASSUME NEW ms \in Seq(Told),
           NEW k \in 1 .. Len(Repaired(ms)), NEW b \in ToSet(Repaired(ms)[k].blocks),
           b.kind = "tool_use"
    PROVE  /\ k < Len(Repaired(ms))
           /\ Repaired(ms)[k + 1].role = "user"
           /\ Contains(Repaired(ms)[k + 1].blocks, Names("tool_result", b.id))
<1> DEFINE R == Repaired(ms)
           u == Left(ms)
           n == Len(ms)
<1>1. R = FlattenSeq(u) /\ u \in Seq(Seq(AMessages)) /\ Len(u) = n /\ n \in Nat
      /\ R \in Seq(AMessages) /\ Len(R) \in Nat
  BY RepairedIs, LenProperties
<1>2. PICK off \in [0 .. n -> Nat] : Offsets(u, off) /\ Places(u, off)
  BY <1>1, FlattenPlaces
<1>3. \A i \in 1 .. n : u[i] = IF Filtered(ms, i).blocks # <<>> THEN <<Filtered(ms, i)>> ELSE <<>>
  BY LenProperties DEF Left
<1>4. /\ \A i \in 1 .. n : off[i] = off[i - 1] + Len(u[i])
      /\ \A i \in 0 .. n : \A j \in i .. n : off[i] <= off[j]
      /\ off[n] = Len(R)
      /\ \A i \in 1 .. n : \A j \in 1 .. Len(u[i]) : R[off[i - 1] + j] = u[i][j]
      /\ \A l \in 1 .. Len(R) : \E i \in 1 .. n : \E j \in 1 .. Len(u[i]) : l = off[i - 1] + j
  BY <1>1, <1>2 DEF Offsets, Places
<1>5. k \in 1 .. Len(R)
  OBVIOUS
<1>40. \A a \in 1 .. n : \A j \in 1 .. Len(u[a]) : R[off[a - 1] + j] = u[a][j]
  BY <1>4
<1> HIDE DEF R, u, n
<1>6. PICK i \in 1 .. n : \E j \in 1 .. Len(u[i]) : k = off[i - 1] + j
  BY <1>4, <1>5
<1>7. \A a \in 1 .. n : Len(u[a]) \in {0, 1} /\ (Len(u[a]) = 1 => u[a][1] = Filtered(ms, a))
                        /\ (Filtered(ms, a).blocks # <<>> => Len(u[a]) = 1)
  <2> TAKE a \in 1 .. n
  <2>1. CASE Filtered(ms, a).blocks # <<>>
    <3>1. u[a] = <<Filtered(ms, a)>>
      BY <1>3, <2>1
    <3> QED BY <2>1, <3>1
  <2>2. CASE Filtered(ms, a).blocks = <<>>
    <3>1. u[a] = <<>>
      BY <1>3, <2>2
    <3> QED BY <2>2, <3>1
  <2> QED BY <2>1, <2>2
<1>8. Len(u[i]) = 1 /\ k = off[i - 1] + 1 /\ R[k] = Filtered(ms, i)
  <2> PICK j \in 1 .. Len(u[i]) : k = off[i - 1] + j
    BY <1>6
  <2>1. Len(u[i]) = 1 /\ u[i][1] = Filtered(ms, i) /\ j = 1
    <3>1. Len(u[i]) \in {0, 1} /\ (Len(u[i]) = 1 => u[i][1] = Filtered(ms, i))
      BY <1>7
    <3>2. \A l \in {0, 1} : j \in 1 .. l => l = 1 /\ j = 1
      OBVIOUS
    <3> QED BY <3>1, <3>2
  <2>2. R[off[i - 1] + j] = u[i][j]
    BY <1>40
  <2> QED BY <2>1, <2>2
<1>9. b \in ToSet(Filtered(ms, i).blocks)
  BY <1>8 DEF R
<1>10. /\ b \in ToSet(ms[i].blocks) /\ b.id \in Anthropic!AnsweredIDs(ms, i)
  BY <1>9, FilteredKeeps DEF n
<1>11. i < Len(ms) /\ ms[i + 1].role = "user" /\ b.id \in Anthropic!ExtractToolResultIDs(ms[i + 1])
  BY <1>10 DEF Anthropic!AnsweredIDs
<1>12. i + 1 \in 1 .. n /\ n \in Nat /\ i \in Nat
  BY <1>1, <1>11 DEF n
<1>13. ms[i + 1] \in Told
  BY <1>12, ElementOfSeq DEF n
<1>14. PICK c \in ToSet(ms[i + 1].blocks) : c.kind = "tool_result" /\ c.id = b.id
  BY <1>11, AnthropicSame DEF Anthropic!ExtractToolResultIDs
<1>15. c = Names("tool_result", b.id)
  BY <1>13, <1>14, ToldIs
<1>16. Filtered(ms, i + 1) = ms[i + 1]
  BY <1>11, <1>12, FilteredIs DEF n
<1>17. ms[i + 1].blocks # <<>> /\ ms[i + 1].blocks \in Seq(Items)
  BY <1>13, ToldIs DEF AMessages
<1>18. Len(u[i + 1]) = 1 /\ u[i + 1][1] = ms[i + 1]
  BY <1>7, <1>12, <1>16, <1>17
<1>19. off[i] = k /\ off[(i + 1) - 1] = k
  <2>1. off[i] = off[i - 1] + Len(u[i]) /\ (i + 1) - 1 = i
    BY <1>4, <1>12
  <2> QED BY <1>8, <2>1
<1>20. R[k + 1] = ms[i + 1]
  <2>1. R[off[(i + 1) - 1] + 1] = u[i + 1][1]
    <3>1. 1 \in 1 .. Len(u[i + 1])
      BY <1>18
    <3> QED BY <1>12, <1>40, <3>1
  <2> QED BY <1>18, <1>19, <2>1
<1>21. k < Len(R)
  <2>1. off[i + 1] = k + 1 /\ off[i + 1] <= off[n]
    <3>1. off[i + 1] = off[(i + 1) - 1] + Len(u[i + 1])
      BY <1>4, <1>12
    <3>2. i + 1 \in 0 .. n /\ n \in (i + 1) .. n
      BY <1>12
    <3>3. off[i + 1] <= off[n]
      BY <1>4, <3>2
    <3> QED BY <1>18, <1>19, <3>1, <3>3
  <2> QED BY <1>1, <1>4, <1>5, <2>1
<1>22. Contains(ms[i + 1].blocks, Names("tool_result", b.id))
  BY <1>14, <1>15, <1>17, LenProperties DEF ToSet, Contains
<1> QED BY <1>11, <1>20, <1>21, <1>22 DEF R

LEMMA RepairedType ==
    ASSUME NEW ms \in Seq(Told)
    PROVE  Repaired(ms) \in Seq(Anthropic!Message)
<1> DEFINE R == Repaired(ms)
<1>1. /\ R \in Seq(AMessages)
      /\ R = FlattenSeq(Left(ms)) /\ Left(ms) \in Seq(Seq(AMessages)) /\ Len(Left(ms)) = Len(ms)
  BY RepairedIs
<1>2. ASSUME NEW k \in 1 .. Len(R)
      PROVE  R[k] \in Anthropic!Message
  <2>1. R[k] \in ToSet(R)
    BY <1>1, LenProperties DEF ToSet
  <2>2. PICK i \in 1 .. Len(Left(ms)) : R[k] \in ToSet(Left(ms)[i])
    BY <1>1, <2>1, FlattenMembers
  <2>3. i \in 1 .. Len(ms) /\ i \in DOMAIN ms
    BY <1>1, LenProperties
  <2>4. Left(ms)[i] = IF Filtered(ms, i).blocks # <<>> THEN <<Filtered(ms, i)>> ELSE <<>>
    BY <2>3 DEF Left
  <2>5. R[k] = Filtered(ms, i) /\ Filtered(ms, i).blocks # <<>>
    BY <2>2, <2>4, ToSetSmall
  <2> DEFINE m == Filtered(ms, i)
  <2>6. m \in AMessages
    BY <2>3, FilteredIs
  <2>7. \A b \in ToSet(m.blocks) : b.id \in AIDs
    BY <2>3, FilteredKeeps, ToldIs, ElementOfSeq
  <2> HIDE DEF m
  <2>8. m.blocks \in Seq(Item(AIDs))
    <3>1. m.blocks \in Seq(Items)
      BY <2>6 DEF AMessages
    <3>2. ASSUME NEW j \in 1 .. Len(m.blocks)
          PROVE  m.blocks[j] \in Item(AIDs)
      <4>1. m.blocks[j] \in ToSet(m.blocks) /\ m.blocks[j] \in Items
        BY <3>1, LenProperties, ElementOfSeq DEF ToSet
      <4> QED BY <2>7, <4>1 DEF Items, Item
    <3> QED BY <3>1, <3>2, LenProperties
  <2> QED BY <2>5, <2>6, <2>8, AnthropicSame DEF m, AMessages, Anthropic!Message, AIDs
<1> HIDE DEF R
<1>3. R \in Seq(Anthropic!Message)
  BY <1>1, <1>2, LenProperties
<1> QED BY <1>3 DEF R

-----------------------------------------------------------------------------
(* What the conversion and the repair leave out.                             *)

TextFn == [x \in Items |-> <<x.text>>]

LEMMA TextFnType == TextFn \in Converters(Items, Seq(Nat))
<1>1. \A x \in Items : <<x.text>> \in Seq(Seq(Nat))
  BY DEF Items, Item
<1> QED BY <1>1 DEF TextFn, Converters

LEMMA TextsAlike ==
    ASSUME NEW s \in Seq(Items), NEW t \in Seq(Items), FlatMap(s, TextFn) = FlatMap(t, TextFn)
    PROVE  Len(s) = Len(t) /\ \A i \in 1 .. Len(t) : s[i].text = t[i].text
<1> DEFINE f(x) == [i \in 1 .. Len(x) |-> x[i].text]
<1>1. ASSUME NEW x \in Seq(Items)
      PROVE  f(x) \in Seq(Seq(Nat)) /\ f(x) = FlatMap(x, TextFn) /\ Len(f(x)) = Len(x)
  <2>1. \A i \in 1 .. Len(x) : x[i] \in Items /\ x[i].text \in Seq(Nat)
    <3>1. \A y \in Items : y.text \in Seq(Nat)
      BY DEF Items, Item
    <3> QED BY <3>1, ElementOfSeq
  <2> DEFINE y == f(x)
  <2>2. y \in Seq(Seq(Nat)) /\ Len(y) = Len(x) /\ \A i \in 1 .. Len(x) : y[i] = x[i].text
    BY <2>1, LenProperties
  <2> HIDE DEF y
  <2>3. Images(x, TextFn, y)
    BY <2>1, <2>2 DEF Images, TextFn
  <2>4. y = FlatMap(x, TextFn)
    BY <2>2, <2>3, TextFnType, FlatMapSingle
  <2> QED BY <2>2, <2>4 DEF y
<1>2. f(s) = f(t) /\ Len(s) = Len(t)
  BY <1>1
<1>3. ASSUME NEW i \in 1 .. Len(t) PROVE s[i].text = t[i].text
  <2>1. f(s)[i] = s[i].text /\ f(t)[i] = t[i].text
    BY <1>2
  <2> HIDE DEF f
  <2> QED BY <1>2, <2>1
<1> QED BY <1>2, <1>3

\* The contents that say something.
SpokenFn == [c \in AHeld |-> IF AMessage(c).blocks # <<>> THEN <<c>> ELSE <<>>]
SpokenIn(h) == FlatMap(h, SpokenFn)

LEMMA SpokenIs ==
    ASSUME NEW h \in Seq(AHeld)
    PROVE  /\ SpokenIn(h) \in Seq(AHeld)
           /\ Len(SpokenIn(h)) = Len(Anthropic!Messages(h))
           /\ \A i \in 1 .. Len(SpokenIn(h)) : Anthropic!Messages(h)[i] = AMessage(SpokenIn(h)[i])
<1> DEFINE say == [c \in AHeld |-> <<AMessage(c)>>]
           sp == SpokenIn(h)
           ms == [i \in 1 .. Len(sp) |-> AMessage(sp[i])]
<1>1. SpokenFn \in Converters(AHeld, AHeld)
  <2>1. \A c \in AHeld : <<c>> \in Seq(AHeld) /\ <<>> \in Seq(AHeld)
    BY EmptySeq
  <2> QED BY <2>1 DEF SpokenFn, Converters
<1>2. say \in Converters(AHeld, AMessages)
  <2>1. \A c \in AHeld : <<AMessage(c)>> \in Seq(AMessages)
    BY AMessageIs
  <2> QED BY <2>1 DEF Converters
<1>3. Tells \in Converters(AHeld, AMessages)
  <2>1. \A c \in AHeld : <<AMessage(c)>> \in Seq(AMessages) /\ <<>> \in Seq(AMessages)
    BY AMessageIs, EmptySeq
  <2> QED BY <2>1 DEF Tells, Converters
<1>4. \A c \in AHeld : say[c] = <<AMessage(c)>>
  OBVIOUS
<1>5. sp \in Seq(AHeld)
  BY <1>1, FlatMapType DEF SpokenIn
<1> HIDE DEF say, sp
<1>6. \A c \in AHeld : Tells[c] = FlatMap(SpokenFn[c], say)
  <2> SUFFICES ASSUME NEW c \in AHeld PROVE Tells[c] = FlatMap(SpokenFn[c], say)
    OBVIOUS
  <2>1. CASE AMessage(c).blocks # <<>>
    <3>1. Tells[c] = <<AMessage(c)>> /\ SpokenFn[c] = <<c>>
      BY <2>1 DEF Tells, SpokenFn
    <3>2. FlatMap(<<c>>, say) = say[c]
      BY <1>2, FlatMapOne
    <3> QED BY <1>4, <3>1, <3>2
  <2>2. CASE AMessage(c).blocks = <<>>
    <3>1. Tells[c] = <<>> /\ SpokenFn[c] = <<>>
      BY <2>2 DEF Tells, SpokenFn
    <3> QED BY <3>1, FlatMapEmpty
  <2> QED BY <2>1, <2>2
<1>7. FlatMap(sp, say) = FlatMap(h, Tells)
  BY <1>1, <1>2, <1>3, <1>6, FlatMapTwice DEF sp, SpokenIn
<1>8. \A i \in 1 .. Len(sp) : sp[i] \in AHeld /\ AMessage(sp[i]) \in AMessages
  BY <1>5, ElementOfSeq, AMessageIs
<1>9. ms \in Seq(AMessages) /\ Len(ms) = Len(sp) /\ \A i \in 1 .. Len(sp) : ms[i] = AMessage(sp[i])
  BY <1>5, <1>8, LenProperties
<1> HIDE DEF ms
<1>10. Images(sp, say, ms)
  BY <1>4, <1>8, <1>9 DEF Images
<1>11. ms = FlatMap(sp, say)
  BY <1>2, <1>5, <1>9, <1>10, FlatMapSingle
<1> QED BY <1>5, <1>7, <1>9, <1>11, MessagesAre DEF sp

LEMMA SpokenSame ==
    contents \in Seq(AHeld) => Anthropic!Spoken = SpokenIn(contents)
<1> SUFFICES ASSUME contents \in Seq(AHeld) PROVE Anthropic!Spoken = SpokenIn(contents)
  OBVIOUS
<1> PICK h : h = contents
  OBVIOUS
<1>1. Anthropic!Spoken
        = FlattenSeq([i \in DOMAIN h |-> IF AMessage(h[i]).blocks # <<>> THEN <<h[i]>> ELSE <<>>])
  BY AnthropicSame DEF Anthropic!Spoken, Anthropic!Chosen, AMessage
<1>2. [i \in DOMAIN h |-> IF AMessage(h[i]).blocks # <<>> THEN <<h[i]>> ELSE <<>>]
        = [i \in DOMAIN h |-> SpokenFn[h[i]]]
  BY DEF SpokenFn
<1> QED BY <1>1, <1>2 DEF SpokenIn, FlatMap

\* Different IDs are sent as different IDs.
LEMMA SanInjective ==
    \A x, y \in ToolIDs : San(x) = San(y) => x = y
BY IDAssumption, HashAssumption DEF San, Anthropic!SanitizeToolID

\* A call keeps its block if the next content that says something answers it.
LEMMA AnsweredIs ==
    ASSUME NEW sp \in Seq(AHeld), NEW ms \in Seq(Told), Len(ms) = Len(sp),
           \A i \in 1 .. Len(sp) : ms[i] = AMessage(sp[i]),
           NEW i \in 1 .. Len(sp), NEW id \in ToolIDs
    PROVE  San(id) \in Anthropic!AnsweredIDs(ms, i) <=>
               i < Len(sp) /\ Contains(sp[i + 1].parts, Names("response", id))
<1>1. CASE ~(i < Len(sp))
  BY <1>1 DEF Anthropic!AnsweredIDs
<1>2. CASE i < Len(sp)
  <2> DEFINE c == sp[i + 1]
  <2>1. i + 1 \in 1 .. Len(sp) /\ c \in AHeld /\ ms[i + 1] = AMessage(c)
    BY <1>2, ElementOfSeq
  <2>2. AMessage(c).role = (IF c.role = "model" THEN "assistant" ELSE "user")
    BY <2>1, AMessageIs
  <2>3. Contains(c.parts, Names("response", id)) <=> Names("response", id) \in ToSet(c.parts)
    BY <2>1, AHeldParts, LenProperties DEF Contains, ToSet
  <2>4. San(id) \in Anthropic!AnsweredIDs(ms, i) <=>
            /\ AMessage(c).role = "user"
            /\ \E b \in ToSet(AMessage(c).blocks) : b.kind = "tool_result" /\ b.id = San(id)
    BY <1>2, <2>1, AnthropicSame DEF Anthropic!AnsweredIDs, Anthropic!ExtractToolResultIDs
  <2> HIDE DEF c
  <2>5. ASSUME San(id) \in Anthropic!AnsweredIDs(ms, i)
        PROVE  Names("response", id) \in ToSet(c.parts)
    <3> PICK b \in ToSet(AMessage(c).blocks) : b.kind = "tool_result" /\ b.id = San(id)
      BY <2>4, <2>5
    <3> PICK p \in ToSet(c.parts) : b = Block(p)
      BY <2>1, BlocksAre
    <3>1. p \in APart
      BY <2>1, AHeldParts, ToSetIs
    <3>2. p.kind = "response" /\ San(p.id) = San(id)
      BY <3>1, BlockType
    <3>3. p.id \in ToolIDs /\ p = Names("response", p.id)
      BY <3>1, <3>2, APartFacts
    <3> QED BY <3>2, <3>3, SanInjective
  <2>6. ASSUME Names("response", id) \in ToSet(c.parts)
        PROVE  San(id) \in Anthropic!AnsweredIDs(ms, i)
    <3> DEFINE p == Names("response", id)
    <3>1. p.kind = "response" /\ p.id = id
      BY DEF Names
    <3> HIDE DEF p
    <3>2. p \in ToSet(c.parts)
      BY <2>6 DEF p
    <3>3. p \in APart /\ c.role # "model"
      BY <2>1, <3>1, <3>2, AHeldParts, ToSetIs, APartFacts
    <3>4. Block(p) \in ToSet(AMessage(c).blocks)
      BY <2>1, <3>1, <3>2, BlocksAre
    <3>5. Block(p).kind = "tool_result" /\ Block(p).id = San(id)
      BY <3>1, <3>3, BlockType
    <3> QED BY <2>2, <2>4, <3>3, <3>4, <3>5
  <2> QED BY <1>2, <2>3, <2>5, <2>6 DEF c
<1> QED BY <1>1, <1>2

\* The parts of a content that the API is told of, if the calls in ans have an
\* answer.
TellFn(ans) == [p \in APart |->
    IF (p.kind = "text" => p.text # <<>>) /\ (p.kind = "call" => p.id \in ans) THEN <<p>> ELSE <<>>]

LEMMA TellFnType ==
    ASSUME NEW ans
    PROVE  TellFn(ans) \in Converters(APart, Items)
<1>1. \A p \in APart : <<p>> \in Seq(Items) /\ <<>> \in Seq(Items)
  BY EmptySeq, APartFacts
<1> QED BY <1>1 DEF TellFn, Converters

\* A part and its block say the same.
LEMMA BlockSays ==
    ASSUME NEW p \in APart
    PROVE  /\ FlatMap(<<Block(p)>>, TextFn) = <<p.text>>
           /\ FlatMap(<<p>>, TextFn) = <<p.text>>
<1>1. p \in Items /\ Block(p) \in Items
  BY APartFacts, BlockType
<1>2. Block(p).text = p.text
  <2>1. p.kind \in {"call", "response"} => p.text = <<>>
    <3>1. \A kind, id : Names(kind, id).text = <<>>
      BY DEF Names
    <3> QED BY <3>1, APartFacts
  <2> QED BY <2>1 DEF Block, Names
<1>3. TextFn[Block(p)] = <<p.text>> /\ TextFn[p] = <<p.text>>
  BY <1>1, <1>2 DEF TextFn
<1> QED BY <1>1, <1>3, TextFnType, FlatMapOne

LEMMA TellSays ==
    ASSUME NEW ans, NEW p \in APart
    PROVE  FlatMap(TellFn(ans)[p], TextFn) =
             IF (p.kind = "text" => p.text # <<>>) /\ (p.kind = "call" => p.id \in ans)
             THEN <<p.text>> ELSE <<>>
<1>1. CASE (p.kind = "text" => p.text # <<>>) /\ (p.kind = "call" => p.id \in ans)
  <2>1. TellFn(ans)[p] = <<p>>
    BY <1>1 DEF TellFn
  <2> QED BY <1>1, <2>1, BlockSays
<1>2. CASE ~((p.kind = "text" => p.text # <<>>) /\ (p.kind = "call" => p.id \in ans))
  <2>1. TellFn(ans)[p] = <<>>
    BY <1>2 DEF TellFn
  <2>2. FlatMap(TellFn(ans)[p], TextFn) = <<>>
    BY <2>1, FlatMapEmpty
  <2> QED BY <1>2, <2>2
<1> QED BY <1>1, <1>2

LEMMA KeptSays ==
    ASSUME NEW ids, NEW ans, \A id \in ToolIDs : San(id) \in ids <=> id \in ans,
           NEW p \in APart
    PROVE  /\ FlatMap(Blocks[p], Kept(ids)) \in Seq(Items)
           /\ FlatMap(FlatMap(Blocks[p], Kept(ids)), TextFn) = FlatMap(TellFn(ans)[p], TextFn)
           /\ p.kind # "call" => FlatMap(Blocks[p], TextFn) = FlatMap(TellFn(ans)[p], TextFn)
<1> DEFINE b == Block(p)
<1>1. b \in Items /\ p \in Items
  BY BlockType, APartFacts
<1>2. p.kind = "call" => (b.id \in ids <=> p.id \in ans)
  BY BlockType, APartFacts
<1>3. b.kind = "tool_use" <=> p.kind = "call"
  BY BlockType
<1>4. FlatMap(<<b>>, TextFn) = <<p.text>>
  BY BlockSays
<1>5. FlatMap(<<b>>, Kept(ids)) = Kept(ids)[b]
  BY <1>1, KeptType, FlatMapOne
<1>6. Kept(ids)[b] = IF b.kind = "tool_use" => b.id \in ids THEN <<b>> ELSE <<>>
  BY <1>1 DEF Kept
<1>7. Blocks[p] = IF p.kind = "text" /\ p.text = <<>> THEN <<>> ELSE <<b>>
  BY DEF Blocks
<1>8. FlatMap(<<>>, Kept(ids)) = <<>> /\ FlatMap(<<>>, TextFn) = <<>>
  BY FlatMapEmpty
<1>9. <<b>> \in Seq(Items) /\ <<>> \in Seq(Items)
  BY <1>1, EmptySeq
<1> HIDE DEF b
<1>10. CASE p.kind = "text" /\ p.text = <<>>
  <2>1. FlatMap(TellFn(ans)[p], TextFn) = <<>>
    BY <1>10, TellSays
  <2>2. Blocks[p] = <<>>
    BY <1>7, <1>10
  <2> QED BY <1>8, <1>9, <2>1, <2>2
<1>11. CASE ~(p.kind = "text" /\ p.text = <<>>)
  <2>1. Blocks[p] = <<b>>
    BY <1>7, <1>11
  <2>2. CASE p.kind = "call" => p.id \in ans
    <3>1. FlatMap(TellFn(ans)[p], TextFn) = <<p.text>>
      BY <1>11, <2>2, TellSays
    <3>2. Kept(ids)[b] = <<b>>
      BY <1>2, <1>3, <1>6, <2>2
    <3> QED BY <1>4, <1>5, <1>9, <2>1, <3>1, <3>2
  <2>3. CASE ~(p.kind = "call" => p.id \in ans)
    <3>1. FlatMap(TellFn(ans)[p], TextFn) = <<>>
      BY <1>11, <2>3, TellSays
    <3>2. Kept(ids)[b] = <<>>
      BY <1>2, <1>3, <1>6, <2>3
    <3> QED BY <1>5, <1>8, <1>9, <2>1, <2>3, <3>1, <3>2
  <2> QED BY <2>2, <2>3
<1> QED BY <1>10, <1>11

\* The blocks of a message that stay say what the API is told of its content.
LEMMA FilteredSays ==
    ASSUME NEW ms \in Seq(Told), NEW i \in 1 .. Len(ms), NEW c \in AHeld, ms[i] = AMessage(c),
           NEW ans, \A id \in ToolIDs : San(id) \in Anthropic!AnsweredIDs(ms, i) <=> id \in ans
    PROVE  FlatMap(Filtered(ms, i).blocks, TextFn) = FlatMap(FlatMap(c.parts, TellFn(ans)), TextFn)
<1> DEFINE ids == Anthropic!AnsweredIDs(ms, i)
           tell == [p \in APart |-> FlatMap(TellFn(ans)[p], TextFn)]
           kept == [p \in APart |-> FlatMap(Blocks[p], Kept(ids))]
<1>1. c.parts \in Seq(APart) /\ ms[i].blocks = FlatMap(c.parts, Blocks)
      /\ ms[i].role = IF c.role = "model" THEN "assistant" ELSE "user"
  BY AHeldParts, AMessageIs
<1>2. \A id \in ToolIDs : San(id) \in ids <=> id \in ans
  OBVIOUS
<1> HIDE DEF ids
<1>3. \A p \in APart : /\ FlatMap(Blocks[p], Kept(ids)) \in Seq(Items)
                       /\ FlatMap(FlatMap(Blocks[p], Kept(ids)), TextFn) = FlatMap(TellFn(ans)[p], TextFn)
                       /\ p.kind # "call" => FlatMap(Blocks[p], TextFn) = FlatMap(TellFn(ans)[p], TextFn)
  BY <1>2, KeptSays
<1>4. \A p \in APart : TellFn(ans)[p] \in Seq(Items) /\ Blocks[p] \in Seq(Items)
  BY TellFnType, BlocksType DEF Converters
<1>5. \A p \in APart : FlatMap(TellFn(ans)[p], TextFn) \in Seq(Seq(Nat))
  BY <1>4, TextFnType, FlatMapType
<1>6. tell \in Converters(APart, Seq(Nat)) /\ \A p \in APart : tell[p] = FlatMap(TellFn(ans)[p], TextFn)
  BY <1>5 DEF Converters
<1>7. kept \in Converters(APart, Items) /\ \A p \in APart : kept[p] = FlatMap(Blocks[p], Kept(ids))
  BY <1>3 DEF Converters
<1> HIDE DEF tell, kept
<1>8. FlatMap(FlatMap(c.parts, TellFn(ans)), TextFn) = FlatMap(c.parts, tell)
  BY <1>1, <1>6, TellFnType, TextFnType, FlatMapTwice
<1>9. CASE c.role = "model"
  <2>1. Filtered(ms, i).blocks = FlatMap(FlatMap(c.parts, Blocks), Kept(ids))
    BY <1>1, <1>9, FilteredIs DEF ids
  <2>2. FlatMap(FlatMap(c.parts, Blocks), Kept(ids)) = FlatMap(c.parts, kept)
    BY <1>1, <1>7, BlocksType, KeptType, FlatMapTwice
  <2>3. \A p \in APart : tell[p] = FlatMap(kept[p], TextFn)
    BY <1>3, <1>6, <1>7
  <2>4. FlatMap(FlatMap(c.parts, kept), TextFn) = FlatMap(c.parts, tell)
    BY <1>1, <1>6, <1>7, <2>3, TextFnType, FlatMapTwice
  <2> QED BY <1>8, <2>1, <2>2, <2>4
<1>10. CASE c.role # "model"
  <2> DEFINE raw == [p \in APart |-> FlatMap(Blocks[p], TextFn)]
  <2>1. Filtered(ms, i).blocks = FlatMap(c.parts, Blocks)
    BY <1>1, <1>10, FilteredIs
  <2>2. \A p \in APart : FlatMap(Blocks[p], TextFn) \in Seq(Seq(Nat))
    BY <1>4, TextFnType, FlatMapType
  <2>3. raw \in Converters(APart, Seq(Nat)) /\ \A p \in APart : raw[p] = FlatMap(Blocks[p], TextFn)
    BY <2>2 DEF Converters
  <2> HIDE DEF raw
  <2>4. FlatMap(FlatMap(c.parts, Blocks), TextFn) = FlatMap(c.parts, raw)
    BY <1>1, <2>3, BlocksType, TextFnType, FlatMapTwice
  <2>5. c.parts \in Seq(AUserPart)
    BY <1>10, AHeldParts
  <2>6. \A p \in AUserPart : raw[p] = tell[p]
    BY <1>3, <1>6, <2>3, APartFacts DEF APart
  <2>7. FlatMap(c.parts, raw) = FlatMap(c.parts, tell)
    BY <2>5, <2>6, FlatMapEqual
  <2> QED BY <1>8, <2>1, <2>4, <2>7
<1> QED BY <1>9, <1>10

\* What the messages of a repaired history say, one by one.
LEMMA RepairedSays ==
    ASSUME NEW ms \in Seq(Told)
    PROVE  LET R == Repaired(ms)
               sent == FlattenSeq([i \in DOMAIN R |-> R[i].blocks])
           IN  /\ sent \in Seq(Items)
               /\ FlatMap(sent, TextFn)
                    = FlattenSeq([i \in 1 .. Len(ms) |-> FlatMap(Filtered(ms, i).blocks, TextFn)])
<1> DEFINE R == Repaired(ms)
           sent == FlattenSeq([i \in DOMAIN R |-> R[i].blocks])
           u == Left(ms)
           f == [m \in AMessages |-> m.blocks]
           t == [i \in 1 .. Len(ms) |-> Filtered(ms, i).blocks]
           v == [i \in 1 .. Len(ms) |-> FlatMap(Filtered(ms, i).blocks, TextFn)]
<1>1. R = FlattenSeq(u) /\ u \in Seq(Seq(AMessages)) /\ Len(u) = Len(ms) /\ R \in Seq(AMessages)
  BY RepairedIs
<1>2. \A m \in AMessages : m.blocks \in Seq(Items)
  BY DEF AMessages
<1>3. f \in Converters(AMessages, Items) /\ \A m \in AMessages : f[m] = m.blocks
  BY <1>2 DEF Converters
<1>4. \A i \in 1 .. Len(ms) : u[i] = IF Filtered(ms, i).blocks # <<>> THEN <<Filtered(ms, i)>> ELSE <<>>
  BY LenProperties DEF Left
<1>5. \A i \in 1 .. Len(ms) : Filtered(ms, i) \in AMessages /\ Filtered(ms, i).blocks \in Seq(Items)
  BY <1>2, FilteredIs
<1>6. t = [i \in 1 .. Len(ms) |-> t[i]] /\ \A i \in 1 .. Len(ms) : t[i] = Filtered(ms, i).blocks
  OBVIOUS
<1>7. v = [i \in 1 .. Len(ms) |-> v[i]] /\ \A i \in 1 .. Len(ms) : v[i] = FlatMap(t[i], TextFn)
  OBVIOUS
<1>8. t \in Seq(Seq(Items)) /\ Len(t) = Len(ms)
  <2> DEFINE S == Seq(Items)
  <2>1. \A i \in 1 .. Len(ms) : t[i] \in S
    BY <1>5
  <2>2. Len(ms) \in Nat
    OBVIOUS
  <2> HIDE DEF t, S
  <2>3. t \in Seq(S) /\ Len(t) = Len(ms)
    BY <1>6, <2>1, <2>2
  <2> QED BY <2>3 DEF S
<1>9. sent = FlatMap(R, f)
  <2>1. \A i \in DOMAIN R : f[R[i]] = R[i].blocks
    BY <1>1, <1>3, LenProperties, ElementOfSeq
  <2> HIDE DEF R, f
  <2>2. [i \in DOMAIN R |-> R[i].blocks] = [i \in DOMAIN R |-> f[R[i]]]
    BY <2>1
  <2> QED BY <2>2 DEF FlatMap
<1> HIDE DEF R, sent, u, f, t, v
<1>10. ASSUME NEW i \in 1 .. Len(u) PROVE t[i] = FlatMap(u[i], f)
  <2> DEFINE m == Filtered(ms, i)
  <2>1. m \in AMessages /\ t[i] = m.blocks /\ u[i] = IF m.blocks # <<>> THEN <<m>> ELSE <<>>
    BY <1>1, <1>4, <1>5, <1>6
  <2> HIDE DEF m
  <2>2. FlatMap(<<m>>, f) = f[m]
    BY <1>3, <2>1, FlatMapOne
  <2>3. FlatMap(<<>>, f) = <<>>
    BY FlatMapEmpty
  <2> QED BY <1>3, <2>1, <2>2, <2>3
<1>11. FlatMap(FlattenSeq(u), f) = FlattenSeq(t)
  <2>1. t = [i \in 1 .. Len(u) |-> t[i]] /\ \A i \in 1 .. Len(u) : t[i] = FlatMap(u[i], f)
    BY <1>1, <1>6, <1>10
  <2> QED BY <1>1, <1>3, <2>1, FlattenThrough
<1>12. FlatMap(FlattenSeq(t), TextFn) = FlattenSeq(v)
  BY <1>7, <1>8, TextFnType, FlattenThrough
<1>13. FlattenSeq(t) \in Seq(Items)
  BY <1>8, FlattenType
<1> QED BY <1>1, <1>9, <1>11, <1>12, <1>13 DEF R, sent, v

\* What the API may be told of the contents.
Telling(sp, i) ==
    {id \in ToolIDs : i < Len(sp) /\ Contains(sp[i + 1].parts, Names("response", id))}

LEMMA TellingSays ==
    ASSUME NEW sp \in Seq(AHeld)
    PROVE  LET said == FlattenSeq([i \in 1 .. Len(sp) |-> FlatMap(sp[i].parts, TellFn(Telling(sp, i)))])
           IN  /\ said \in Seq(Items)
               /\ FlatMap(said, TextFn)
                    = FlattenSeq([i \in 1 .. Len(sp) |->
                                    FlatMap(FlatMap(sp[i].parts, TellFn(Telling(sp, i))), TextFn)])
<1> DEFINE w == [i \in 1 .. Len(sp) |-> FlatMap(sp[i].parts, TellFn(Telling(sp, i)))]
           v == [i \in 1 .. Len(sp) |-> FlatMap(FlatMap(sp[i].parts, TellFn(Telling(sp, i))), TextFn)]
           S == Seq(Items)
<1>1. \A i \in 1 .. Len(sp) : w[i] \in S
  <2> SUFFICES ASSUME NEW i \in 1 .. Len(sp) PROVE FlatMap(sp[i].parts, TellFn(Telling(sp, i))) \in S
    OBVIOUS
  <2>1. sp[i].parts \in Seq(APart)
    BY AHeldParts, ElementOfSeq
  <2> QED BY <2>1, TellFnType, FlatMapType
<1>2. /\ w = [i \in 1 .. Len(sp) |-> w[i]]
      /\ v = [i \in 1 .. Len(sp) |-> v[i]] /\ \A i \in 1 .. Len(sp) : v[i] = FlatMap(w[i], TextFn)
  OBVIOUS
<1>3. Len(sp) \in Nat
  OBVIOUS
<1> HIDE DEF w, v, S
<1>4. w \in Seq(S) /\ Len(w) = Len(sp)
  BY <1>1, <1>2, <1>3
<1>5. FlatMap(FlattenSeq(w), TextFn) = FlattenSeq(v)
  <2>1. /\ w \in Seq(Seq(Items)) /\ v = [i \in 1 .. Len(w) |-> v[i]]
        /\ \A i \in 1 .. Len(w) : v[i] = FlatMap(w[i], TextFn)
    BY <1>2, <1>4 DEF S
  <2> QED BY <2>1, TextFnType, FlattenThrough
<1>6. FlattenSeq(w) \in Seq(Items)
  BY <1>4, FlattenType DEF S
<1> QED BY <1>5, <1>6 DEF w, v

LEMMA TellableIs ==
    ASSUME contents \in Seq(AHeld)
    PROVE  LET sp == SpokenIn(contents)
           IN  FlattenSeq([i \in DOMAIN Anthropic!Spoken |-> Anthropic!Tellable(i)])
                 = FlattenSeq([i \in 1 .. Len(sp) |-> FlatMap(sp[i].parts, TellFn(Telling(sp, i)))])
<1> PICK sp : sp = SpokenIn(contents)
  OBVIOUS
<1>1. Anthropic!Spoken = sp /\ sp \in Seq(AHeld)
  BY SpokenSame, SpokenIs
<1>2. DOMAIN sp = 1 .. Len(sp)
  BY <1>1, LenProperties
<1>3. ASSUME NEW i \in 1 .. Len(sp)
      PROVE  Anthropic!Tellable(i) = FlatMap(sp[i].parts, TellFn(Telling(sp, i)))
  <2> DEFINE ps == sp[i].parts
             ans == Telling(sp, i)
             g == TellFn(ans)
  <2>1. ps \in Seq(APart)
    BY <1>1, AHeldParts, ElementOfSeq
  <2>2. \A id \in ToolIDs : Anthropic!Answered(i, id) <=> id \in ans
    BY <1>1, AnthropicSame DEF Anthropic!Answered, Telling
  <2>3. Anthropic!Tellable(i)
          = FlattenSeq([j \in DOMAIN ps |->
                IF (ps[j].kind = "text" => ps[j].text # <<>>)
                     /\ (ps[j].kind = "call" => Anthropic!Answered(i, ps[j].id))
                THEN <<ps[j]>> ELSE <<>>])
    BY <1>1, AnthropicSame DEF Anthropic!Tellable, Anthropic!Chosen
  <2> HIDE DEF ps, ans
  <2>4. \A j \in DOMAIN ps : ps[j] \in APart
    BY <2>1, LenProperties, ElementOfSeq
  <2>5. ASSUME NEW p \in APart
        PROVE  g[p] = IF (p.kind = "text" => p.text # <<>>)
                           /\ (p.kind = "call" => Anthropic!Answered(i, p.id))
                      THEN <<p>> ELSE <<>>
    <3>1. p.kind = "call" => (Anthropic!Answered(i, p.id) <=> p.id \in ans)
      BY <2>2, APartFacts
    <3>2. g[p] = IF (p.kind = "text" => p.text # <<>>) /\ (p.kind = "call" => p.id \in ans)
                 THEN <<p>> ELSE <<>>
      BY DEF TellFn
    <3> HIDE DEF g
    <3> QED BY <3>1, <3>2
  <2> HIDE DEF g
  <2>6. [j \in DOMAIN ps |->
            IF (ps[j].kind = "text" => ps[j].text # <<>>)
                 /\ (ps[j].kind = "call" => Anthropic!Answered(i, ps[j].id))
            THEN <<ps[j]>> ELSE <<>>]
          = [j \in DOMAIN ps |-> g[ps[j]]]
    BY <2>4, <2>5
  <2>7. Anthropic!Tellable(i) = FlatMap(ps, g)
    BY <2>3, <2>6 DEF FlatMap
  <2> QED BY <2>7 DEF ps, ans, g
<1>4. [i \in DOMAIN Anthropic!Spoken |-> Anthropic!Tellable(i)]
        = [i \in 1 .. Len(sp) |-> FlatMap(sp[i].parts, TellFn(Telling(sp, i)))]
  BY <1>1, <1>2, <1>3
<1> QED BY <1>4

LEMMA OrphansAreDropped ==
    ASSUME contents \in Seq(AHeld),
           phase = "receiving" => request = Repaired(Anthropic!Messages(contents))
    PROVE  Anthropic!OnlyOrphansDropped
<1> SUFFICES ASSUME phase = "receiving" PROVE Anthropic!OnlyOrphansDropped
  BY DEF Anthropic!OnlyOrphansDropped
<1> PICK h : h = contents
  OBVIOUS
<1> DEFINE ms == Anthropic!Messages(h)
           sp == SpokenIn(h)
           sent == FlattenSeq([i \in DOMAIN Repaired(ms) |-> Repaired(ms)[i].blocks])
           said == FlattenSeq([i \in 1 .. Len(sp) |-> FlatMap(sp[i].parts, TellFn(Telling(sp, i)))])
<1>1. ms \in Seq(Told) /\ sp \in Seq(AHeld) /\ Len(ms) = Len(sp)
      /\ \A i \in 1 .. Len(sp) : ms[i] = AMessage(sp[i])
  BY MessagesAre, SpokenIs
<1>2. request = Repaired(ms)
  OBVIOUS
<1>3. said = FlattenSeq([i \in DOMAIN Anthropic!Spoken |-> Anthropic!Tellable(i)])
  BY TellableIs
<1> HIDE DEF ms, sp
<1>4. /\ sent \in Seq(Items)
      /\ FlatMap(sent, TextFn)
           = FlattenSeq([i \in 1 .. Len(ms) |-> FlatMap(Filtered(ms, i).blocks, TextFn)])
  BY <1>1, RepairedSays
<1>5. /\ said \in Seq(Items)
      /\ FlatMap(said, TextFn)
           = FlattenSeq([i \in 1 .. Len(sp) |->
                           FlatMap(FlatMap(sp[i].parts, TellFn(Telling(sp, i))), TextFn)])
  BY <1>1, TellingSays
<1>6. ASSUME NEW i \in 1 .. Len(sp)
      PROVE  FlatMap(Filtered(ms, i).blocks, TextFn)
               = FlatMap(FlatMap(sp[i].parts, TellFn(Telling(sp, i))), TextFn)
  <2>1. i \in 1 .. Len(ms) /\ sp[i] \in AHeld /\ ms[i] = AMessage(sp[i])
    BY <1>1, ElementOfSeq
  <2>2. \A id \in ToolIDs : San(id) \in Anthropic!AnsweredIDs(ms, i) <=> id \in Telling(sp, i)
    BY <1>1, AnsweredIs DEF Telling
  <2> QED BY <1>1, <2>1, <2>2, FilteredSays
<1>7. FlatMap(sent, TextFn) = FlatMap(said, TextFn)
  <2>1. [i \in 1 .. Len(ms) |-> FlatMap(Filtered(ms, i).blocks, TextFn)]
          = [i \in 1 .. Len(sp) |-> FlatMap(FlatMap(sp[i].parts, TellFn(Telling(sp, i))), TextFn)]
    BY <1>1, <1>6
  <2> QED BY <1>4, <1>5, <2>1
<1> HIDE DEF sent, said
<1>8. Len(sent) = Len(said) /\ \A i \in 1 .. Len(said) : sent[i].text = said[i].text
  BY <1>4, <1>5, <1>7, TextsAlike
<1>9. DOMAIN said = 1 .. Len(said)
  BY <1>5, LenProperties
<1>10. sent = Anthropic!FlattenSeq([i \in DOMAIN request |-> request[i].blocks])
  BY <1>2, AnthropicSame DEF sent
<1>11. said = Anthropic!FlattenSeq([i \in DOMAIN Anthropic!Spoken |-> Anthropic!Tellable(i)])
  BY <1>3, AnthropicSame
<1> QED BY <1>8, <1>9, <1>10, <1>11 DEF Anthropic!OnlyOrphansDropped
==============================================================================
