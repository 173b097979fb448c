------------------------- MODULE ModelAdaptersProofs -------------------------
(***************************************************************************)
(* Theorems about ModelAdapters: conversations of every length, with any   *)
(* number of calls, over both providers.                                   *)
(***************************************************************************)
EXTENDS RequestProofs

-----------------------------------------------------------------------------
(* The inductive invariant.                                                  *)

\* The blocks of an answer of Anthropic.  Those of OpenAI are parts already.
ABlock == [kind : {"text"}, id : {NoID}, text : Seq(Nat)] \cup {Says("thinking", <<>>)}
            \cup {Names("tool_use", id) : id \in ToolIDs}

CalledIn(h, id) ==
    \E i \in DOMAIN h : \E q \in ToSet(h[i].parts) : q.kind = "call" /\ q.id = id

HistoryInv ==
    /\ contents \in Seq(Held)
    /\ IsFiniteSet(open)
    /\ \A id \in open : id \in ToolIDs /\ CalledIn(contents, id)
    /\ CallsComeFirst(contents)

RequestInv ==
    /\ provider \in {"anthropic", "openai", "none"}
    /\ phase \in {"idle", "receiving"}
    /\ phase = "idle" => request = <<>> /\ blocks = <<>>
    /\ phase = "receiving" =>
         \/ /\ provider = "anthropic"
            /\ contents \in Seq(AHeld)
            /\ request = Repaired(Anthropic!Messages(contents))
            /\ blocks \in Seq(ABlock)
         \/ /\ provider = "openai"
            /\ request = Request(contents)
            /\ blocks \in Seq(ModelPart)

AnswerInv ==
    /\ stream \in BOOLEAN
    /\ out \in Seq(Response)
    /\ phase = "receiving" =>
         /\ \A i \in DOMAIN out : out[i].kind = "partial"
         /\ IF stream THEN Joined(out) = Joined(blocks) ELSE out = <<>>
    /\ PartialsAddUp

IInv == HistoryInv /\ RequestInv /\ AnswerInv

-----------------------------------------------------------------------------
(* Sets as sequences.                                                        *)

LEMMA SetToSeqType ==
    ASSUME NEW S, IsFiniteSet(S)
    PROVE  SetToSeq(S) \in Seq(S)
<1> DEFINE n == Cardinality(S)
<1>1. n \in Nat
  BY FS_CardinalityType
<1>2. PICK f : f \in [1 .. n -> S] /\ IsInjective(f)
  <2>1. ExistsBijection(1 .. n, S)
    BY FS_CardinalityType
  <2> QED BY <2>1 DEF ExistsBijection, Bijection, Injection
<1>3. SetToSeq(S) \in [1 .. n -> S]
  BY <1>2 DEF SetToSeq
<1> QED BY <1>1, <1>3

LEMMA NamedFinite ==
    ASSUME NEW ids, IsFiniteSet(ids), NEW kind
    PROVE  IsFiniteSet({Names(kind, id) : id \in ids})
<1> DEFINE T == {Names(kind, id) : id \in ids}
           f == [id \in ids |-> Names(kind, id)]
<1>1. f \in Surjection(ids, T)
  BY DEF Surjection
<1> QED BY <1>1, FS_Surjection

LEMMA CallsFinite ==
    ASSUME NEW P, NEW parts \in Seq(P)
    PROVE  IsFiniteSet(Calls(parts))
<1> DEFINE D == {i \in 1 .. Len(parts) : parts[i].kind \in {"call", "tool_use"}}
           f == [i \in D |-> parts[i].id]
<1>1. IsFiniteSet(D)
  <2>1. IsFiniteSet(1 .. Len(parts))
    BY FS_Interval, LenProperties
  <2> QED BY <2>1, FS_Subset
<1>2. Calls(parts) = {f[i] : i \in D}
  BY LenProperties DEF Calls, ToSet
<1>3. f \in Surjection(D, Calls(parts))
  BY <1>2 DEF Surjection
<1> QED BY <1>1, <1>3, FS_Surjection

-----------------------------------------------------------------------------
(* The history grows.                                                        *)

LEMMA Grows ==
    ASSUME NEW h \in Seq(Held), NEW c \in Held
    PROVE  /\ Append(h, c) \in Seq(Held)
           /\ \A id : CalledIn(h, id) => CalledIn(Append(h, c), id)
           /\ \A q \in ToSet(c.parts) : q.kind = "call" => CalledIn(Append(h, c), q.id)
           /\ CallsComeFirst(h)
              /\ (\A p \in ToSet(c.parts) : p.kind = "response" => CalledIn(h, p.id))
              => CallsComeFirst(Append(h, c))
<1> DEFINE k == Append(h, c)
           n == Len(h)
<1>1. /\ k \in Seq(Held) /\ DOMAIN k = 1 .. n + 1 /\ n \in Nat /\ DOMAIN h = 1 .. n
      /\ k[n + 1] = c /\ \A i \in 1 .. n : k[i] = h[i]
  BY AppendProperties, LenProperties
<1> HIDE DEF k, n
<1>2. ASSUME NEW id, CalledIn(h, id) PROVE CalledIn(k, id)
  <2> PICK i \in 1 .. n : \E q \in ToSet(h[i].parts) : q.kind = "call" /\ q.id = id
    BY <1>1, <1>2 DEF CalledIn
  <2>1. i \in DOMAIN k /\ k[i] = h[i]
    BY <1>1
  <2> QED BY <2>1 DEF CalledIn
<1>3. ASSUME NEW q \in ToSet(c.parts), q.kind = "call" PROVE CalledIn(k, q.id)
  <2>1. n + 1 \in DOMAIN k /\ k[n + 1] = c
    BY <1>1
  <2> QED BY <1>3, <2>1 DEF CalledIn
<1>4. ASSUME CallsComeFirst(h), \A p \in ToSet(c.parts) : p.kind = "response" => CalledIn(h, p.id)
      PROVE  CallsComeFirst(k)
  <2> SUFFICES ASSUME NEW i \in DOMAIN k, NEW p \in ToSet(k[i].parts), p.kind = "response"
               PROVE  \E j \in 1 .. i - 1 : \E q \in ToSet(k[j].parts) : q.kind = "call" /\ q.id = p.id
    BY DEF CallsComeFirst
  <2>1. CASE i \in 1 .. n
    <3>1. k[i] = h[i] /\ i \in DOMAIN h
      BY <1>1, <2>1
    <3>2. PICK j \in 1 .. i - 1 : \E q \in ToSet(h[j].parts) : q.kind = "call" /\ q.id = p.id
      BY <1>4, <3>1 DEF CallsComeFirst
    <3>3. j \in 1 .. n
      BY <1>1, <2>1
    <3> QED BY <1>1, <3>2, <3>3
  <2>2. CASE i = n + 1
    <3>1. p \in ToSet(c.parts)
      BY <1>1, <2>2
    <3>2. PICK j \in 1 .. n : \E q \in ToSet(h[j].parts) : q.kind = "call" /\ q.id = p.id
      BY <1>1, <1>4, <3>1 DEF CalledIn
    <3>3. j \in 1 .. i - 1 /\ k[j] = h[j]
      BY <1>1, <2>2
    <3> QED BY <3>2, <3>3
  <2> QED BY <1>1, <2>1, <2>2
<1> QED BY <1>1, <1>2, <1>3, <1>4 DEF k

LEMMA InitInv == ModelsInit => IInv
<1> SUFFICES ASSUME ModelsInit PROVE IInv
  OBVIOUS
<1> USE DEF ModelsInit, Init
<1>1. HistoryInv
  BY EmptySeq, FS_EmptySet DEF HistoryInv, CallsComeFirst
<1>2. RequestInv
  BY DEF RequestInv
<1>3. AnswerInv
  BY EmptySeq DEF AnswerInv, PartialsAddUp
<1> QED BY <1>1, <1>2, <1>3 DEF IInv

\* What comes before the results in a content.
SaidWithThem == {<<>>, <<Says("text", <<0>>)>>}

LEMMA RunnerInv ==
    ASSUME IInv, Runner, provider' = "none"
    PROVE  IInv'
<1>1. /\ phase = "idle" /\ phase' = phase /\ request' = request /\ blocks' = blocks
      /\ out' = <<>> /\ stream' = FALSE
  BY DEF Runner, UserSays, ToolsAnswer
<1>2. RequestInv'
  BY <1>1 DEF IInv, RequestInv
<1>3. AnswerInv'
  BY <1>1, EmptySeq DEF IInv, AnswerInv, PartialsAddUp
<1>4. ASSUME NEW part \in UserParts, UserSays(part) PROVE HistoryInv'
  <2> PICK c : c = [role |-> "user", parts |-> <<part>>]
    OBVIOUS
  <2>1. c \in Held /\ c.parts = <<part>>
    <3>1. part \in UserPart
      BY DEF UserParts, UserPart
    <3>2. <<part>> \in Seq(UserPart)
      BY <3>1
    <3> QED BY <3>2 DEF Held
  <2>2. part.kind # "response"
    BY DEF UserParts, Says
  <2>3. \A p \in ToSet(c.parts) : p.kind # "response"
    BY <2>1, <2>2, ToSetSmall
  <2>4. contents' = Append(contents, c) /\ open' = open
    BY <1>4 DEF UserSays
  <2> QED BY <2>1, <2>3, <2>4, Grows DEF IInv, HistoryInv
<1>5. ASSUME NEW ids \in SUBSET open, NEW said \in SaidWithThem, ToolsAnswer(ids, said)
      PROVE  HistoryInv'
  <2> PICK results : results = SetToSeq({Names("response", id) : id \in ids})
    OBVIOUS
  <2> PICK c : c = [role |-> "user", parts |-> said \o results]
    OBVIOUS
  <2>1. IsFiniteSet(ids) /\ \A id \in ids : id \in ToolIDs /\ CalledIn(contents, id)
    BY FS_Subset DEF IInv, HistoryInv
  <2>2. IsFiniteSet({Names("response", id) : id \in ids})
    BY <2>1, NamedFinite
  <2>3. results \in Seq({Names("response", id) : id \in ids})
    BY <2>2, SetToSeqType
  <2>4. {Names("response", id) : id \in ids} \subseteq UserPart
    BY <2>1 DEF UserPart
  <2>5. results \in Seq(UserPart)
    BY <2>3, <2>4, SeqMonotonic
  <2>6. said \in Seq(UserPart)
    <3>1. Says("text", <<0>>) \in UserPart
      BY DEF UserPart
    <3>2. <<Says("text", <<0>>)>> \in Seq(UserPart)
      BY <3>1
    <3> QED BY <3>2, EmptySeq DEF SaidWithThem
  <2>7. c \in Held /\ c.parts = said \o results
    <3>1. said \o results \in Seq(UserPart)
      BY <2>5, <2>6, ConcatProperties
    <3> QED BY <3>1 DEF Held
  <2>8. ASSUME NEW p \in ToSet(c.parts), p.kind = "response"
        PROVE  CalledIn(contents, p.id)
    <3>1. p \in ToSet(said) \/ p \in ToSet(results)
      BY <2>5, <2>6, <2>7, ToSetConcat
    <3>2. p \notin ToSet(said)
      BY <2>8, ToSetSmall DEF Says, SaidWithThem
    <3>3. p \in {Names("response", id) : id \in ids}
      BY <2>3, <3>1, <3>2, ToSetIs
    <3> QED BY <2>1, <3>3 DEF Names
  <2>9. contents' = Append(contents, c) /\ open' = open \ ids
    BY <1>5 DEF ToolsAnswer
  <2>10. IsFiniteSet(open')
    BY <2>9, FS_Subset DEF IInv, HistoryInv
  <2> QED BY <2>7, <2>8, <2>9, <2>10, Grows DEF IInv, HistoryInv
<1>6. HistoryInv'
  BY <1>4, <1>5 DEF Runner, SaidWithThem
<1> QED BY <1>2, <1>3, <1>6 DEF IInv

-----------------------------------------------------------------------------
(* A request is made.                                                        *)

LEMMA ConvertibleIs ==
    ASSUME NEW h \in Seq(Held), Anthropic!Convertible(h)
    PROVE  h \in Seq(AHeld)
<1>1. ASSUME NEW i \in 1 .. Len(h) PROVE h[i] \in AHeld
  <2> PICK c : c = h[i]
    OBVIOUS
  <2>1. c \in Held /\ \A j \in DOMAIN c.parts : c.parts[j].kind # "odd"
    BY LenProperties, ElementOfSeq DEF Anthropic!Convertible
  <2>2. CASE c \in [role : {"user"}, parts : Seq(UserPart)]
    <3>1. c.parts \in Seq(UserPart)
      BY <2>2
    <3>2. \A x \in UserPart : x.kind # "odd" => x \in AUserPart
      BY DEF UserPart, AUserPart, Says
    <3>3. \A j \in 1 .. Len(c.parts) : c.parts[j] \in AUserPart
      BY <2>1, <3>1, <3>2, LenProperties, ElementOfSeq
    <3>4. c.parts \in Seq(AUserPart)
      BY <3>1, <3>3, LenProperties
    <3> QED BY <2>2, <3>4 DEF AHeld
  <2>3. CASE c \in [role : {"model"}, parts : Seq(ModelPart)]
    BY <2>3 DEF AHeld
  <2> QED BY <2>1, <2>2, <2>3 DEF Held
<1> QED BY <1>1, LenProperties

LEMMA AsksInv ==
    ASSUME IInv, NEW streamed \in BOOLEAN, GenerateContent(streamed)
    PROVE  IInv'
<1>1. /\ phase = "idle" /\ stream' = streamed
      /\ UNCHANGED <<contents, open, blocks>>
      /\ provider' \in {"anthropic", "openai"}
      /\ \/ /\ phase' = "receiving" /\ out' = <<>>
            /\ \/ /\ provider' = "anthropic" /\ Anthropic!Convertible(contents)
                  /\ request' = Repaired(Anthropic!Messages(contents))
               \/ /\ provider' = "openai" /\ request' = Request(contents)
         \/ out' = <<[kind |-> "error", text |-> <<>>]>> /\ UNCHANGED <<phase, request>>
  BY DEF GenerateContent, Anthropic!GenerateContent, Anthropic!Asks,
         OpenAI!GenerateContent, OpenAI!Asks, Repaired, Request
<1>2. HistoryInv'
  BY <1>1 DEF IInv, HistoryInv
<1>3. blocks = <<>>
  BY <1>1 DEF IInv, RequestInv
<1>4. RequestInv'
  <2>1. contents \in Seq(Held)
    BY DEF IInv, HistoryInv
  <2>2. Anthropic!Convertible(contents) => contents \in Seq(AHeld)
    BY <2>1, ConvertibleIs
  <2>3. <<>> \in Seq(ABlock) /\ <<>> \in Seq(ModelPart)
    BY EmptySeq
  <2>4. CASE phase' = "receiving" /\ out' = <<>> /\ provider' = "anthropic"
             /\ Anthropic!Convertible(contents) /\ request' = Repaired(Anthropic!Messages(contents))
    <3> PICK h : h = contents
      OBVIOUS
    <3>1. h' = contents'
      BY <1>1
    <3> QED BY <1>1, <1>3, <2>2, <2>3, <2>4 DEF RequestInv
  <2>5. CASE phase' = "receiving" /\ provider' = "openai" /\ request' = Request(contents)
    BY <1>1, <1>3, <2>3, <2>5 DEF RequestInv
  <2>6. CASE UNCHANGED <<phase, request>>
    BY <1>1, <2>6 DEF IInv, RequestInv
  <2> QED BY <1>1, <2>4, <2>5, <2>6
<1>5. AnswerInv'
  <2>1. CASE out' = <<>>
    <3>1. out' \in Seq(Response) /\ out' = blocks' /\ \A i \in DOMAIN out' : out'[i].kind = "partial"
      BY <1>1, <1>3, <2>1, EmptySeq
    <3>2. Joined(out)' = Joined(blocks)'
      BY <3>1
    <3> QED BY <1>1, <2>1, <3>1, <3>2 DEF AnswerInv, PartialsAddUp
  <2>2. CASE out' = <<[kind |-> "error", text |-> <<>>]>> /\ UNCHANGED <<phase, request>>
    <3>1. [kind |-> "error", text |-> <<>>] \in Response
      BY EmptySeq DEF Response
    <3>2. out' \in Seq(Response)
      BY <2>2, <3>1
    <3>3. out'[Len(out')].kind = "error"
      BY <2>2
    <3> QED BY <1>1, <2>2, <3>2, <3>3 DEF AnswerInv, PartialsAddUp, Last
  <2> QED BY <1>1, <2>1, <2>2
<1> QED BY <1>2, <1>4, <1>5 DEF IInv

-----------------------------------------------------------------------------
(* What is kept of an answer.                                                *)

\* The IDs of items, as AnswerKept lists them.
IDsOf(ps) == Chosen([i \in DOMAIN ps |-> ps[i].id], LAMBDA id : id # NoID)
Named == [x \in Items |-> IF x.id # NoID THEN <<x.id>> ELSE <<>>]

LEMMA IDsOfIs ==
    ASSUME NEW s \in Seq(Items)
    PROVE  IDsOf(s) = FlatMap(s, Named) /\ Named \in Converters(Items, AllIDs)
<1> DEFINE g == [i \in DOMAIN s |-> s[i].id]
<1>1. IDsOf(s) = FlattenSeq([i \in DOMAIN g |-> IF g[i] # NoID THEN <<g[i]>> ELSE <<>>])
  BY DEF IDsOf, Chosen
<1>2. [i \in DOMAIN g |-> IF g[i] # NoID THEN <<g[i]>> ELSE <<>>] = [i \in DOMAIN s |-> Named[s[i]]]
  BY DEF Named
<1>3. \A x \in Items : <<x.id>> \in Seq(AllIDs) /\ <<>> \in Seq(AllIDs)
  BY EmptySeq DEF Items, Item
<1>4. Named \in Converters(Items, AllIDs)
  BY <1>3 DEF Named, Converters
<1> QED BY <1>1, <1>2, <1>4 DEF FlatMap

LEMMA BlocksAreItems ==
    /\ ABlock \subseteq Items
    /\ \A b \in ABlock : b.kind \in {"text", "thinking", "tool_use"}
    /\ \A b \in ABlock : b.kind = "text" => b \in ModelPart
    /\ \A b \in ABlock : b.kind # "text" => b.text = <<>>
    /\ \A b \in ABlock : IF b.kind = "tool_use" THEN b.id \in ToolIDs ELSE b.id = NoID
    /\ \A id \in ToolIDs : Names("call", id) \in ModelPart
<1>1. ABlock \subseteq Items
  <2>1. [kind : {"text"}, id : {NoID}, text : Seq(Nat)] \subseteq Items
    BY DEF Items, Item, AllIDs
  <2>2. \A id \in ToolIDs : id \in AllIDs
    BY DEF AllIDs
  <2>3. <<>> \in Seq(Nat)
    BY EmptySeq
  <2> QED BY <2>1, <2>2, <2>3, NamesType, SaysType DEF ABlock, Kinds
<1> QED BY <1>1 DEF ABlock, ModelPart, Says, Names

AnthropicKept ==
    [b \in ABlock |-> IF b.kind = "text" THEN <<b>> ELSE
                      IF b.kind = "tool_use" THEN <<Names("call", b.id)>> ELSE <<>>]

LEMMA AnthropicKeeps ==
    ASSUME NEW bs \in Seq(ABlock)
    PROVE  LET kept == Anthropic!ConvertResponse(bs)
           IN  kept \in Seq(ModelPart) /\ Joined(kept) = Joined(bs) /\ IDsOf(kept) = IDsOf(bs)
<1> DEFINE kept == FlatMap(bs, AnthropicKept)
<1>1. AnthropicKept \in Converters(ABlock, ModelPart)
  <2> SUFFICES ASSUME NEW b \in ABlock
               PROVE  (IF b.kind = "text" THEN <<b>> ELSE
                       IF b.kind = "tool_use" THEN <<Names("call", b.id)>> ELSE <<>>) \in Seq(ModelPart)
    BY DEF AnthropicKept, Converters
  <2>1. <<>> \in Seq(ModelPart) /\ \A x \in ModelPart : <<x>> \in Seq(ModelPart)
    BY EmptySeq
  <2>2. b.kind = "text" => b \in ModelPart
    BY BlocksAreItems
  <2>3. b.kind = "tool_use" => Names("call", b.id) \in ModelPart
    BY BlocksAreItems
  <2> QED BY <2>1, <2>2, <2>3
<1>2. kept \in Seq(ModelPart)
  BY <1>1, FlatMapType
<1>3. Anthropic!ConvertResponse(bs) = kept
  <2>1. \A i \in DOMAIN bs : bs[i] \in ABlock
    BY LenProperties, ElementOfSeq
  <2>2. [i \in DOMAIN bs |->
            CASE bs[i].kind = "text" -> <<bs[i]>>
              [] bs[i].kind = "tool_use" -> <<Names("call", bs[i].id)>>
              [] OTHER -> <<>>]
          = [i \in DOMAIN bs |-> AnthropicKept[bs[i]]]
    BY <2>1 DEF AnthropicKept
  <2> QED BY <2>2, AnthropicSame DEF Anthropic!ConvertResponse, FlatMap
<1>4. bs \in Seq(Items) /\ kept \in Seq(Items) /\ AnthropicKept \in Converters(ABlock, Items)
  <2>1. Seq(ABlock) \subseteq Seq(Items) /\ Seq(ModelPart) \subseteq Seq(Items)
    BY BlocksAreItems, PartsAreItems, SeqMonotonic
  <2> QED BY <1>1, <1>2, <2>1 DEF Converters
<1> HIDE DEF kept
<1>5. ASSUME NEW B, NEW f \in Converters(Items, B),
             \A b \in ABlock : f[b] = FlatMap(AnthropicKept[b], f)
      PROVE  FlatMap(kept, f) = FlatMap(bs, f)
  <2> DEFINE k == [b \in ABlock |-> f[b]]
  <2>1. k \in Converters(ABlock, B) /\ \A b \in ABlock : k[b] = f[b]
    BY BlocksAreItems DEF Converters
  <2> HIDE DEF k
  <2>2. \A b \in ABlock : k[b] = FlatMap(AnthropicKept[b], f)
    BY <1>5, <2>1
  <2>3. FlatMap(FlatMap(bs, AnthropicKept), f) = FlatMap(bs, k)
    BY <1>4, <1>5, <2>1, <2>2, FlatMapTwice
  <2>4. FlatMap(bs, k) = FlatMap(bs, f)
    BY <2>1, FlatMapEqual
  <2> QED BY <2>3, <2>4 DEF kept
<1>6. ASSUME NEW B, NEW f \in Converters(Items, B), NEW b \in ABlock,
             \/ b.kind = "text"
             \/ b.kind = "tool_use" /\ f[b] = f[Names("call", b.id)]
             \/ b.kind = "thinking" /\ f[b] = <<>>
      PROVE  f[b] = FlatMap(AnthropicKept[b], f)
  <2>1. CASE b.kind = "text"
    <3>1. AnthropicKept[b] = <<b>> /\ b \in Items
      BY <2>1, BlocksAreItems DEF AnthropicKept
    <3> QED BY <1>6, <3>1, FlatMapOne
  <2>2. CASE b.kind = "tool_use" /\ f[b] = f[Names("call", b.id)]
    <3>1. AnthropicKept[b] = <<Names("call", b.id)>> /\ Names("call", b.id) \in Items
      BY <2>2, BlocksAreItems, PartsAreItems DEF AnthropicKept
    <3> QED BY <1>6, <2>2, <3>1, FlatMapOne
  <2>3. CASE b.kind = "thinking" /\ f[b] = <<>>
    <3>1. AnthropicKept[b] = <<>>
      BY <2>3 DEF AnthropicKept
    <3> QED BY <2>3, <3>1, FlatMapEmpty
  <2> QED BY <1>6, <2>1, <2>2, <2>3
<1>7. FlatMap(kept, TextOf) = FlatMap(bs, TextOf)
  <2>1. ASSUME NEW b \in ABlock PROVE TextOf[b] = FlatMap(AnthropicKept[b], TextOf)
    <3>1. b.kind # "text" => TextOf[b] = <<>>
      BY BlocksAreItems DEF TextOf
    <3>2. b.kind = "tool_use" => TextOf[Names("call", b.id)] = <<>>
      <4>1. b.kind = "tool_use" => Names("call", b.id) \in Items
        BY BlocksAreItems, PartsAreItems
      <4>2. Names("call", b.id).text = <<>>
        BY DEF Names
      <4> QED BY <4>1, <4>2 DEF TextOf
    <3> QED BY <1>6, <3>1, <3>2, BlocksAreItems, Facts
  <2> QED BY <1>5, <2>1, Facts
<1>8. FlatMap(kept, Named) = FlatMap(bs, Named)
  <2>1. ASSUME NEW b \in ABlock PROVE Named[b] = FlatMap(AnthropicKept[b], Named)
    <3>1. b.kind = "thinking" => Named[b] = <<>>
      BY BlocksAreItems DEF Named
    <3>2. b.kind = "tool_use" => Named[Names("call", b.id)] = Named[b]
      <4>1. b.kind = "tool_use" => Names("call", b.id) \in Items /\ b \in Items
        BY BlocksAreItems, PartsAreItems
      <4>2. Names("call", b.id).id = b.id
        BY DEF Names
      <4> QED BY <4>1, <4>2 DEF Named
    <3> QED BY <1>4, <1>6, <3>1, <3>2, BlocksAreItems, IDsOfIs
  <2> QED BY <1>4, <1>5, <2>1, IDsOfIs
<1> QED BY <1>2, <1>3, <1>4, <1>7, <1>8, JoinedIs, IDsOfIs

LEMMA OpenAIKeeps ==
    ASSUME NEW bs \in Seq(ModelPart)
    PROVE  LET kept == OpenAI!ConvertResponse(bs)
           IN  /\ kept \in Seq(ModelPart) /\ Joined(kept) = Joined(bs) /\ IDsOf(kept) = IDsOf(bs)
               /\ OpenAI!BuildStreamFinalResponse(bs) = kept
<1> DEFINE J == OpenAI!JoinTexts(OpenAI!Texts(bs))
           C == OpenAI!OfKind(bs, "call")
<1> PICK c : c = [role |-> "model", parts |-> bs]
  OBVIOUS
<1>1. c \in Held /\ c.parts = bs /\ bs \in Seq(Items)
  <2>1. Seq(ModelPart) \subseteq Seq(Items)
    BY PartsAreItems, SeqMonotonic
  <2> QED BY <2>1 DEF Held
<1>2. OpenAI!ConvertResponse(bs) = J \o C /\ OpenAI!BuildStreamFinalResponse(bs) = J \o C
  BY DEF OpenAI!ConvertResponse, OpenAI!BuildStreamFinalResponse
<1>3. J \in Seq(ModelPart)
  <2>1. OpenAI!Texts(bs) \in Seq(Items)
    BY <1>1, TextsIs
  <2>2. Joined(OpenAI!Texts(bs)) \in Seq(Nat)
    BY <2>1, JoinedIs
  <2>3. Says("text", Joined(OpenAI!Texts(bs))) \in ModelPart
    BY <2>2 DEF Says, ModelPart
  <2>4. J = <<>> \/ J = <<Says("text", Joined(OpenAI!Texts(bs)))>>
    BY OpenAISame DEF OpenAI!JoinTexts
  <2>5. <<>> \in Seq(ModelPart) /\ \A x \in ModelPart : <<x>> \in Seq(ModelPart)
    BY EmptySeq
  <2> HIDE DEF J
  <2> QED BY <2>3, <2>4, <2>5
<1>4. C \in Seq(ModelPart) /\ C = FlatMap(bs, Only("call"))
  <2> DEFINE g == [x \in ModelPart |-> IF x.kind = "call" THEN <<x>> ELSE <<>>]
  <2>1. \A x \in ModelPart : <<x>> \in Seq(ModelPart) /\ <<>> \in Seq(ModelPart)
    BY EmptySeq
  <2>2. g \in Converters(ModelPart, ModelPart)
    BY <2>1 DEF Converters
  <2>3. \A x \in ModelPart : Only("call")[x] = g[x]
    BY PartsAreItems DEF Only
  <2> HIDE DEF g
  <2>4. FlatMap(bs, Only("call")) = FlatMap(bs, g)
    BY <2>3, FlatMapEqual
  <2>5. FlatMap(bs, g) \in Seq(ModelPart)
    BY <2>2, FlatMapType
  <2> QED BY <1>1, <2>4, <2>5, OfKindIs
<1>5. J \in Seq(Items) /\ C \in Seq(Items) /\ J \o C \in Seq(ModelPart) /\ J \o C \in Seq(Items)
  <2> HIDE DEF J, C
  <2>1. Seq(ModelPart) \subseteq Seq(Items)
    BY PartsAreItems, SeqMonotonic
  <2> QED BY <1>3, <1>4, <2>1, ConcatProperties
<1>6. FlatMap(J \o C, TextOf) = FlatMap(bs, TextOf)
  <2>1. FlatMap(J, TextOf) = FlatMap(bs, TextOf)
    BY <1>1, TextsSay
  <2> HIDE DEF J, C
  <2>2. FlatMap(C, TextOf) = <<>>
    <3>1. \A x \in Items : Nothing[x] = <<>>
      BY DEF Nothing
    <3>2. \A x \in ModelPart : \/ Only("call")[x] = <<>> /\ Nothing[x] = <<>>
                               \/ \E y \in Items : Only("call")[x] = <<y>> /\ Nothing[x] = TextOf[y]
      <4> SUFFICES ASSUME NEW x \in ModelPart
                   PROVE  \/ Only("call")[x] = <<>> /\ Nothing[x] = <<>>
                          \/ \E y \in Items : Only("call")[x] = <<y>> /\ Nothing[x] = TextOf[y]
        OBVIOUS
      <4>1. x \in Items /\ (x.kind = "call" => x.text = <<>>)
        BY PartsAreItems
      <4> QED BY <4>1 DEF Only, Nothing, TextOf
    <3>3. FlatMap(FlatMap(bs, Only("call")), TextOf) = FlatMap(bs, Nothing)
      <4>1. Only("call") \in Converters(Items, Items) /\ TextOf \in Converters(Items, Nat)
        BY Facts
      <4> PICK g : g = Only("call")
        OBVIOUS
      <4> PICK k : k = Nothing
        OBVIOUS
      <4>2. \A x \in ModelPart : \/ g[x] = <<>> /\ k[x] = <<>>
                                 \/ \E y \in Items : g[x] = <<y>> /\ k[x] = TextOf[y]
        BY <3>2
      <4>3. FlatMap(FlatMap(bs, g), TextOf) = FlatMap(bs, k)
        <5>1. ModelPart \subseteq Items
          BY PartsAreItems
        <5> PICK P : P = ModelPart
          OBVIOUS
        <5>2. P \subseteq Items /\ bs \in Seq(P)
          BY <5>1
        <5>3. \A x \in P : \/ g[x] = <<>> /\ k[x] = <<>>
                           \/ \E y \in Items : g[x] = <<y>> /\ k[x] = TextOf[y]
          BY <4>2
        <5> QED BY <4>1, <5>2, <5>3, Composed
      <4> QED BY <4>3
    <3> QED BY <1>1, <1>4, <3>3, NothingThrough
  <2>3. FlatMap(J \o C, TextOf) = FlatMap(J, TextOf) \o FlatMap(C, TextOf)
    BY <1>5, Facts, FlatMapConcat
  <2>4. FlatMap(bs, TextOf) \in Seq(Nat)
    BY <1>1, Facts, FlatMapType
  <2> QED BY <2>1, <2>2, <2>3, <2>4, ConcatEmptySeq
<1>7. ASSUME NEW s \in Seq(ModelPart) PROVE IDsOf(s) = FlatMap(s, IdOf("call"))
  <2>1. s \in Seq(Items)
    BY PartsAreItems, SeqMonotonic
  <2>2. \A x \in ModelPart : Named[x] = IdOf("call")[x]
    <3>1. \A x \in ModelPart : x \in Items /\ (x.kind = "call" <=> x.id # NoID)
      BY NoIDAssumption, PartsAreItems DEF ModelPart, Names
    <3> QED BY <3>1 DEF Named, IdOf
  <2> QED BY <2>1, <2>2, IDsOfIs, FlatMapEqual
<1>8. FlatMap(J \o C, IdOf("call")) = FlatMap(bs, IdOf("call"))
  <2>1. \A y \in Items : y.kind = "text" => IdOf("call")[y] = <<>>
    BY DEF IdOf
  <2>2. FlatMap(J, IdOf("call")) = <<>>
    BY <1>1, <2>1, IdOfType, InTexts
  <2> HIDE DEF J, C
  <2>3. \A x \in Items : \/ Only("call")[x] = <<>> /\ IdOf("call")[x] = <<>>
                         \/ \E y \in Items : Only("call")[x] = <<y>> /\ IdOf("call")[x] = IdOf("call")[y]
    BY DEF Only, IdOf
  <2>4. FlatMap(FlatMap(bs, Only("call")), IdOf("call")) = FlatMap(bs, IdOf("call"))
    <3>1. Only("call") \in Converters(Items, Items) /\ IdOf("call") \in Converters(Items, AllIDs)
      BY IdOfType, Facts
    <3> PICK g : g = Only("call")
      OBVIOUS
    <3> PICK f : f = IdOf("call")
      OBVIOUS
    <3>2. \A x \in Items : \/ g[x] = <<>> /\ f[x] = <<>>
                           \/ \E y \in Items : g[x] = <<y>> /\ f[x] = f[y]
      BY <2>3
    <3>3. FlatMap(FlatMap(bs, g), f) = FlatMap(bs, f)
      BY <1>1, <3>1, <3>2, Composed
    <3> QED BY <3>3
  <2>5. FlatMap(J \o C, IdOf("call")) = FlatMap(J, IdOf("call")) \o FlatMap(C, IdOf("call"))
    BY <1>5, IdOfType, FlatMapConcat
  <2>6. FlatMap(bs, IdOf("call")) \in Seq(AllIDs)
    BY <1>1, IdOfType, FlatMapType
  <2> QED BY <1>4, <2>2, <2>4, <2>5, <2>6, ConcatEmptySeq
<1> HIDE DEF J, C
<1> QED BY <1>1, <1>2, <1>5, <1>6, <1>7, <1>8, JoinedIs

-----------------------------------------------------------------------------
(* An answer is received.                                                    *)

LEMMA JoinedGrows ==
    ASSUME NEW T, \A x \in T : x.text \in Seq(Nat), NEW s \in Seq(T), NEW x \in T
    PROVE  Joined(s) \in Seq(Nat) /\ Joined(Append(s, x)) = Joined(s) \o x.text
<1> DEFINE f == [y \in T |-> y.text]
<1>1. f \in Converters(T, Nat) /\ \A y \in T : f[y] = y.text
  BY DEF Converters
<1> HIDE DEF f
<1>2. ASSUME NEW t \in Seq(T) PROVE Joined(t) = FlatMap(t, f)
  <2>1. \A i \in DOMAIN t : t[i] \in T
    BY LenProperties, ElementOfSeq
  <2>2. [i \in DOMAIN t |-> t[i].text] = [i \in DOMAIN t |-> f[t[i]]]
    BY <1>1, <2>1
  <2> QED BY <2>2 DEF Joined, FlatMap
<1>3. Append(s, x) \in Seq(T)
  BY AppendProperties
<1>4. FlatMap(Append(s, x), f) = FlatMap(s, f) \o f[x] /\ FlatMap(s, f) \in Seq(Nat)
  BY <1>1, FlatMapAppend, FlatMapType
<1> QED BY <1>1, <1>2, <1>3, <1>4

LEMMA TextsOfParts ==
    /\ \A x \in Response : x.text \in Seq(Nat)
    /\ \A x \in ABlock : x.text \in Seq(Nat)
    /\ \A x \in ModelPart : x.text \in Seq(Nat)
<1>1. \A x \in Items : x.text \in Seq(Nat)
  BY DEF Items, Item
<1> QED BY <1>1, BlocksAreItems, PartsAreItems DEF Response

\* A delta is added to the last block.
LEMMA LastGrows ==
    ASSUME NEW s \in Seq(ABlock), s # <<>>, s[Len(s)].kind = "text", NEW n \in Nat
    PROVE  LET t == [s EXCEPT ![Len(s)].text = Append(@, n)]
           IN  t \in Seq(ABlock) /\ Joined(t) = Joined(s) \o <<n>>
<1> PICK m \in Nat : Len(s) = m + 1
  <2>1. Len(s) \in Nat /\ Len(s) # 0
    BY EmptySeq
  <2>2. Len(s) - 1 \in Nat /\ Len(s) = (Len(s) - 1) + 1
    BY <2>1
  <2> QED BY <2>2
<1> PICK f : f = [i \in 1 .. m |-> s[i]]
  OBVIOUS
<1> PICK x : x = s[m + 1]
  OBVIOUS
<1> PICK y : y = [x EXCEPT !.text = Append(@, n)]
  OBVIOUS
<1> PICK t : t = [s EXCEPT ![Len(s)].text = Append(@, n)]
  OBVIOUS
<1>1. \A i \in 1 .. m + 1 : s[i] \in ABlock
  BY ElementOfSeq
<1>2. x \in ABlock /\ x.kind = "text"
  BY <1>1
<1>3. x \in [kind : {"text"}, id : {NoID}, text : Seq(Nat)]
  BY <1>2 DEF ABlock, Says, Names
<1>4. y \in ABlock /\ x.text \in Seq(Nat) /\ y.text = x.text \o <<n>>
  <2>1. x.text \in Seq(Nat) /\ Append(x.text, n) \in Seq(Nat) /\ Append(x.text, n) = x.text \o <<n>>
    BY <1>3, AppendProperties, AppendIsConcat
  <2>2. y \in [kind : {"text"}, id : {NoID}, text : Seq(Nat)] /\ y.text = Append(x.text, n)
    BY <1>3, <2>1
  <2> QED BY <2>1, <2>2 DEF ABlock
<1>5. f \in Seq(ABlock) /\ Len(f) = m
  <2>1. \A i \in 1 .. m : i \in 1 .. m + 1
    OBVIOUS
  <2>2. \A i \in 1 .. m : s[i] \in ABlock
    BY <1>1, <2>1
  <2>3. f \in [1 .. m -> ABlock]
    BY <2>2
  <2> QED BY <2>3
<1>6. Append(f, x) \in Seq(ABlock) /\ Append(f, y) \in Seq(ABlock)
  BY <1>2, <1>4, <1>5, AppendProperties
<1>7. s = Append(f, x)
  <2>1. DOMAIN Append(f, x) = 1 .. m + 1 /\ \A i \in 1 .. m + 1 : Append(f, x)[i] = s[i]
    BY <1>5, AppendProperties
  <2>2. DOMAIN s = 1 .. m + 1 /\ s = [i \in 1 .. m + 1 |-> s[i]]
    BY LenProperties
  <2>3. Append(f, x) = [i \in 1 .. m + 1 |-> Append(f, x)[i]]
    BY <1>6, <2>1, LenProperties
  <2> QED BY <2>1, <2>2, <2>3
<1>8. t = Append(f, y)
  <2>1. /\ DOMAIN Append(f, y) = 1 .. m + 1 /\ Append(f, y)[m + 1] = y
        /\ \A i \in 1 .. m : Append(f, y)[i] = s[i]
    BY <1>5, AppendProperties
  <2>2. DOMAIN s = 1 .. m + 1
    BY LenProperties
  <2>3. t = [i \in 1 .. m + 1 |-> IF i = m + 1 THEN y ELSE s[i]]
    BY <2>2
  <2>4. Append(f, y) = [i \in 1 .. m + 1 |-> Append(f, y)[i]]
    BY <1>6, <2>1, LenProperties
  <2>5. \A i \in 1 .. m + 1 : i # m + 1 => i \in 1 .. m
    OBVIOUS
  <2>6. [i \in 1 .. m + 1 |-> Append(f, y)[i]] = [i \in 1 .. m + 1 |-> IF i = m + 1 THEN y ELSE s[i]]
    BY <2>1, <2>5
  <2> QED BY <2>3, <2>4, <2>6
<1>9. Joined(s) = Joined(f) \o x.text /\ Joined(t) = Joined(f) \o y.text /\ Joined(f) \in Seq(Nat)
  <2>1. \A z \in ABlock : Joined(f) \in Seq(Nat) /\ Joined(Append(f, z)) = Joined(f) \o z.text
    BY <1>5, TextsOfParts, JoinedGrows
  <2> QED BY <1>2, <1>4, <1>7, <1>8, <2>1
<1>10. Joined(t) = Joined(s) \o <<n>>
  <2>1. <<n>> \in Seq(Nat)
    OBVIOUS
  <2>2. \A a, b \in Seq(Nat) : a \o (b \o <<n>>) = (a \o b) \o <<n>>
    BY <2>1, ConcatAssociative
  <2> QED BY <1>4, <1>9, <2>2
<1> QED BY <1>6, <1>8, <1>10

\* The answer goes on, and a piece of it is yielded if it is a stream.
LEMMA PieceInv ==
    ASSUME IInv, phase = "receiving",
           UNCHANGED <<contents, open, phase, stream, request, provider>>,
           \/ provider = "anthropic" /\ blocks' \in Seq(ABlock)
           \/ provider = "openai" /\ blocks' \in Seq(ModelPart),
           NEW text \in Seq(Nat), Joined(blocks)' = Joined(blocks) \o text,
           \/ text = <<>> /\ out' = out
           \/ out' = IF stream THEN Append(out, [kind |-> "partial", text |-> text]) ELSE out
    PROVE  IInv'
<1>1. HistoryInv'
  BY DEF IInv, HistoryInv
<1>2. RequestInv'
  <2> PICK h : h = contents
    OBVIOUS
  <2>1. contents' = contents /\ h = contents
    OBVIOUS
  <2> QED BY <2>1 DEF IInv, RequestInv
<1>3. /\ stream \in BOOLEAN /\ out \in Seq(Response)
      /\ \A i \in DOMAIN out : out[i].kind = "partial"
      /\ IF stream THEN Joined(out) = Joined(blocks) ELSE out = <<>>
  BY DEF IInv, AnswerInv
<1> DEFINE r == [kind |-> "partial", text |-> text]
<1>4. r \in Response /\ r.text = text /\ r.kind = "partial"
  BY DEF Response
<1> HIDE DEF r
<1>5. Joined(blocks) \in Seq(Nat)
  <2>1. blocks \in Seq(ABlock) \/ blocks \in Seq(ModelPart)
    BY DEF IInv, RequestInv
  <2>2. blocks \in Seq(Items)
    BY <2>1, BlocksAreItems, PartsAreItems, SeqMonotonic
  <2> QED BY <2>2, JoinedIs
<1>6. /\ out' \in Seq(Response)
      /\ \A i \in DOMAIN out' : out'[i].kind = "partial"
      /\ IF stream THEN Joined(out)' = Joined(blocks)' ELSE out' = <<>>
  <2>1. CASE out' = out /\ (text = <<>> \/ ~stream)
    <3>1. Joined(out)' = Joined(out)
      BY <2>1
    <3>2. text = <<>> => Joined(blocks)' = Joined(blocks)
      BY <1>5, ConcatEmptySeq
    <3> QED BY <1>3, <2>1, <3>1, <3>2
  <2>2. CASE out' = Append(out, r) /\ stream
    <3>1. Joined(Append(out, r)) = Joined(out) \o text
      BY <1>3, <1>4, TextsOfParts, JoinedGrows
    <3>2. Joined(out)' = Joined(Append(out, r))
      BY <2>2
    <3>3. Append(out, r) \in Seq(Response) /\ \A i \in DOMAIN Append(out, r) : Append(out, r)[i].kind = "partial"
      BY <1>3, <1>4, AppendProperties, LenProperties
    <3> QED BY <1>3, <2>2, <3>1, <3>2, <3>3
  <2> QED BY <2>1, <2>2 DEF r
<1>7. PartialsAddUp'
  <2> PICK o : o = out'
    OBVIOUS
  <2>1. o # <<>> => o[Len(o)].kind # "final"
    <3>1. o \in Seq(Response) /\ \A i \in DOMAIN o : o[i].kind = "partial"
      BY <1>6
    <3>2. o # <<>> => Len(o) \in DOMAIN o
      BY <3>1, LenProperties, EmptySeq
    <3> QED BY <3>1, <3>2
  <2> QED BY <2>1 DEF PartialsAddUp, Last
<1> QED BY <1>1, <1>2, <1>3, <1>6, <1>7 DEF IInv, AnswerInv

\* The caller stops, or the request fails.
LEMMA EndsInv ==
    ASSUME IInv, phase = "receiving",
           UNCHANGED <<contents, open, stream, provider>>,
           phase' = "idle", request' = <<>>, blocks' = <<>>,
           NEW r \in Response, r.kind # "final", out' = Append(out, r)
    PROVE  IInv'
<1>1. HistoryInv'
  BY DEF IInv, HistoryInv
<1>2. RequestInv'
  BY DEF IInv, RequestInv
<1>3. out \in Seq(Response) /\ stream \in BOOLEAN
  BY DEF IInv, AnswerInv
<1>4. out' \in Seq(Response) /\ out'[Len(out')] = r
  BY <1>3, AppendProperties
<1>5. PartialsAddUp'
  BY <1>4 DEF PartialsAddUp, Last
<1> QED BY <1>1, <1>2, <1>3, <1>4, <1>5 DEF IInv, AnswerInv

\* The final response becomes a content.
LEMMA FinalInv ==
    ASSUME IInv, phase = "receiving", NEW parts \in Seq(ModelPart), Joined(parts) = Joined(blocks),
           contents' = Append(contents, [role |-> "model", parts |-> parts]),
           open' = open \cup Calls(parts),
           phase' = "idle", request' = <<>>, blocks' = <<>>,
           out' = Append(out, [kind |-> "final", text |-> Joined(parts)]),
           UNCHANGED <<stream, provider>>
    PROVE  IInv'
<1> PICK c : c = [role |-> "model", parts |-> parts]
  OBVIOUS
<1>1. c \in Held /\ c.parts = parts
  BY DEF Held
<1>2. \A p \in ToSet(parts) : p \in ModelPart
  BY ToSetIs
<1>3. \A p \in ToSet(c.parts) : p.kind # "response"
  BY <1>1, <1>2, PartsAreItems
<1>4. \A id \in Calls(parts) : id \in ToolIDs /\ CalledIn(Append(contents, c), id)
  <2> SUFFICES ASSUME NEW q \in ToSet(parts), q.kind \in {"call", "tool_use"}
               PROVE  q.id \in ToolIDs /\ CalledIn(Append(contents, c), q.id)
    BY DEF Calls
  <2>1. q.kind = "call" /\ q.id \in ToolIDs
    BY <1>2, PartsAreItems
  <2>2. contents \in Seq(Held)
    BY DEF IInv, HistoryInv
  <2> QED BY <1>1, <2>1, <2>2, Grows
<1>5. HistoryInv'
  <2>1. IsFiniteSet(open')
    BY CallsFinite, FS_Union DEF IInv, HistoryInv
  <2>2. contents' = Append(contents, c)
    OBVIOUS
  <2> QED BY <1>1, <1>3, <1>4, <2>1, <2>2, Grows DEF IInv, HistoryInv
<1>6. RequestInv'
  BY DEF IInv, RequestInv
<1>7. out \in Seq(Response) /\ stream \in BOOLEAN /\ (stream => Joined(out) = Joined(blocks))
  BY DEF IInv, AnswerInv
<1> PICK r : r = [kind |-> "final", text |-> Joined(parts)]
  OBVIOUS
<1>8. r \in Response /\ r.text = Joined(parts)
  <2>1. parts \in Seq(Items)
    BY PartsAreItems, SeqMonotonic
  <2>2. Joined(parts) \in Seq(Nat)
    BY <2>1, JoinedIs
  <2> QED BY <2>2 DEF Response
<1>9. /\ out' \in Seq(Response) /\ Len(out') = Len(out) + 1 /\ out'[Len(out')] = r
      /\ SubSeq(out', 1, Len(out') - 1) = out
  BY <1>7, <1>8, AppendProperties
<1>10. PartialsAddUp'
  <2>1. Joined(Front(out')) = Joined(out)
    BY <1>9 DEF Front
  <2> QED BY <1>7, <1>8, <1>9, <2>1 DEF PartialsAddUp, Last
<1> QED BY <1>5, <1>6, <1>7, <1>9, <1>10 DEF IInv, AnswerInv

LEMMA AnthropicReceives ==
    ASSUME IInv, provider = "anthropic", Anthropic!Receives, UNCHANGED provider
    PROVE  IInv'
<1>1. phase = "receiving"
  BY DEF Anthropic!Receives, Anthropic!BlockStarts, Anthropic!TextDelta, Anthropic!Delta,
         Anthropic!TextStops, Anthropic!Stops, Anthropic!Fails, Anthropic!Completes, Anthropic!Final
<1>2. blocks \in Seq(ABlock) /\ out \in Seq(Response)
  BY <1>1 DEF IInv, RequestInv, AnswerInv
<1>3. ASSUME NEW b \in Anthropic!NewBlocks, Anthropic!BlockStarts(b) PROVE IInv'
  <2>1. b \in ABlock /\ b.text = <<>>
    <3>1. Says("text", <<>>) \in ABlock /\ Says("thinking", <<>>) \in ABlock
          /\ \A id \in ToolIDs : Names("tool_use", id) \in ABlock
      BY EmptySeq DEF ABlock, Says
    <3>2. \/ b = Says("text", <<>>) \/ b = Says("thinking", <<>>)
          \/ \E id \in ToolIDs : b = Names("tool_use", id)
      BY AnthropicSame DEF Anthropic!NewBlocks, Anthropic!Says, Says
    <3> QED BY <3>1, <3>2 DEF Says, Names
  <2>2. /\ blocks' = Append(blocks, b)
        /\ UNCHANGED <<contents, open, phase, stream, request, out>>
    BY <1>3 DEF Anthropic!BlockStarts
  <2>3. Joined(Append(blocks, b)) = Joined(blocks) \o <<>>
    BY <1>2, <2>1, TextsOfParts, JoinedGrows
  <2>4. Joined(blocks)' = Joined(blocks) \o <<>> /\ blocks' \in Seq(ABlock)
    BY <1>2, <2>1, <2>2, <2>3, AppendProperties
  <2> QED BY <1>1, <2>2, <2>4, EmptySeq, PieceInv
<1>4. ASSUME NEW n \in 1 .. MaxDeltas, Anthropic!TextDelta(n) PROVE IInv'
  <2>1. /\ blocks # <<>> /\ blocks[Len(blocks)].kind = "text"
        /\ blocks' = [blocks EXCEPT ![Len(blocks)].text = Append(@, n)]
        /\ out' = IF stream THEN Append(out, [kind |-> "partial", text |-> <<n>>]) ELSE out
        /\ UNCHANGED <<contents, open, phase, stream, request>>
    BY <1>4 DEF Anthropic!TextDelta, Anthropic!Last, Anthropic!Yield, Last
  <2>2. n \in Nat /\ <<n>> \in Seq(Nat)
    BY BoundAssumption
  <2>3. blocks' \in Seq(ABlock) /\ Joined(blocks)' = Joined(blocks) \o <<n>>
    <3> PICK t : t = [blocks EXCEPT ![Len(blocks)].text = Append(@, n)]
      OBVIOUS
    <3>1. t \in Seq(ABlock) /\ Joined(t) = Joined(blocks) \o <<n>>
      BY <1>2, <2>1, <2>2, LastGrows
    <3> QED BY <2>1, <3>1
  <2> QED BY <1>1, <2>1, <2>2, <2>3, PieceInv
<1>5. ASSUME NEW n \in 1 .. MaxDeltas, Anthropic!TextStops(n) PROVE IInv'
  <2>1. /\ phase' = "idle" /\ request' = <<>> /\ blocks' = <<>>
        /\ out' = Append(out, [kind |-> "partial", text |-> <<n>>])
        /\ UNCHANGED <<contents, open, stream>>
    BY <1>5 DEF Anthropic!TextStops, Anthropic!Stops, Anthropic!Yield, Anthropic!Ends
  <2>2. [kind |-> "partial", text |-> <<n>>] \in Response
    BY BoundAssumption DEF Response
  <2> QED BY <1>1, <2>1, <2>2, EndsInv
<1>6. ASSUME Anthropic!Fails PROVE IInv'
  <2>1. /\ phase' = "idle" /\ request' = <<>> /\ blocks' = <<>>
        /\ out' = Append(out, [kind |-> "error", text |-> <<>>])
        /\ UNCHANGED <<contents, open, stream>>
    BY <1>6 DEF Anthropic!Fails, Anthropic!Yield, Anthropic!Ends
  <2>2. [kind |-> "error", text |-> <<>>] \in Response
    BY EmptySeq DEF Response
  <2> QED BY <1>1, <2>1, <2>2, EndsInv
<1>7. ASSUME Anthropic!Completes PROVE IInv'
  <2> PICK parts : parts = Anthropic!ConvertResponse(blocks)
    OBVIOUS
  <2>1. parts \in Seq(ModelPart) /\ Joined(parts) = Joined(blocks)
    BY <1>2, AnthropicKeeps
  <2>2. /\ contents' = Append(contents, [role |-> "model", parts |-> parts])
        /\ open' = open \cup Calls(parts)
        /\ phase' = "idle" /\ request' = <<>> /\ blocks' = <<>>
        /\ out' = Append(out, [kind |-> "final", text |-> Joined(parts)])
        /\ UNCHANGED stream
    <3>1. Anthropic!Calls(parts) = Calls(parts) /\ Anthropic!Joined(parts) = Joined(parts)
      BY AnthropicSame DEF Anthropic!Calls, Calls, Anthropic!Joined, Joined
    <3> QED BY <1>7, <3>1 DEF Anthropic!Completes, Anthropic!Final, Anthropic!Yield, Anthropic!Ends
  <2> QED BY <1>1, <2>1, <2>2, FinalInv
<1> QED BY <1>3, <1>4, <1>5, <1>6, <1>7 DEF Anthropic!Receives

LEMMA OpenAIReceives ==
    ASSUME IInv, provider = "openai", OpenAI!Receives, UNCHANGED provider
    PROVE  IInv'
<1>1. phase = "receiving"
  BY DEF OpenAI!Receives, OpenAI!BlockStarts, OpenAI!TextChunk, OpenAI!Delta,
         OpenAI!Stops, OpenAI!Fails, OpenAI!Completes, OpenAI!Final
<1>2. blocks \in Seq(ModelPart) /\ out \in Seq(Response)
  BY <1>1 DEF IInv, RequestInv, AnswerInv
<1>3. ASSUME NEW b \in OpenAI!NewCalls, OpenAI!BlockStarts(b) PROVE IInv'
  <2>1. b \in ModelPart /\ b.text = <<>>
    BY OpenAISame DEF OpenAI!NewCalls, ModelPart, Names
  <2>2. /\ blocks' = Append(blocks, b)
        /\ UNCHANGED <<contents, open, phase, stream, request, out>>
    BY <1>3 DEF OpenAI!BlockStarts
  <2>3. Joined(Append(blocks, b)) = Joined(blocks) \o <<>>
    BY <1>2, <2>1, TextsOfParts, JoinedGrows
  <2>4. Joined(blocks)' = Joined(blocks) \o <<>> /\ blocks' \in Seq(ModelPart)
    BY <1>2, <2>1, <2>2, <2>3, AppendProperties
  <2> QED BY <1>1, <2>2, <2>4, EmptySeq, PieceInv
<1>4. ASSUME NEW n \in 1 .. MaxDeltas, OpenAI!TextChunk(n) PROVE IInv'
  <2> PICK b : b = Says("text", <<n>>)
    OBVIOUS
  <2>1. n \in Nat /\ <<n>> \in Seq(Nat)
    BY BoundAssumption
  <2>2. b \in ModelPart /\ b.text = <<n>>
    BY <2>1 DEF ModelPart, Says
  <2>3. /\ blocks' = Append(blocks, b)
        /\ out' = IF stream THEN Append(out, [kind |-> "partial", text |-> <<n>>]) ELSE out
        /\ UNCHANGED <<contents, open, phase, stream, request>>
    BY <1>4, OpenAISame DEF OpenAI!TextChunk, OpenAI!Yield
  <2>4. Joined(Append(blocks, b)) = Joined(blocks) \o <<n>>
    BY <1>2, <2>2, TextsOfParts, JoinedGrows
  <2>5. Joined(blocks)' = Joined(blocks) \o <<n>> /\ blocks' \in Seq(ModelPart)
    BY <1>2, <2>2, <2>3, <2>4, AppendProperties
  <2> QED BY <1>1, <2>1, <2>3, <2>5, PieceInv
<1>5. ASSUME NEW n \in 1 .. MaxDeltas, OpenAI!Stops(n) PROVE IInv'
  <2>1. /\ phase' = "idle" /\ request' = <<>> /\ blocks' = <<>>
        /\ out' = Append(out, [kind |-> "partial", text |-> <<n>>])
        /\ UNCHANGED <<contents, open, stream>>
    BY <1>5 DEF OpenAI!Stops, OpenAI!Yield, OpenAI!Ends
  <2>2. [kind |-> "partial", text |-> <<n>>] \in Response
    BY BoundAssumption DEF Response
  <2> QED BY <1>1, <2>1, <2>2, EndsInv
<1>6. ASSUME OpenAI!Fails PROVE IInv'
  <2>1. /\ phase' = "idle" /\ request' = <<>> /\ blocks' = <<>>
        /\ out' = Append(out, [kind |-> "error", text |-> <<>>])
        /\ UNCHANGED <<contents, open, stream>>
    BY <1>6 DEF OpenAI!Fails, OpenAI!Yield, OpenAI!Ends
  <2>2. [kind |-> "error", text |-> <<>>] \in Response
    BY EmptySeq DEF Response
  <2> QED BY <1>1, <2>1, <2>2, EndsInv
<1>7. ASSUME OpenAI!Completes PROVE IInv'
  <2> PICK parts : parts = OpenAI!ConvertResponse(blocks)
    OBVIOUS
  <2>1. /\ parts \in Seq(ModelPart) /\ Joined(parts) = Joined(blocks)
        /\ OpenAI!BuildStreamFinalResponse(blocks) = parts
    BY <1>2, OpenAIKeeps
  <2>2. OpenAI!Final(parts)
    BY <1>7, <2>1 DEF OpenAI!Completes
  <2>3. /\ contents' = Append(contents, [role |-> "model", parts |-> parts])
        /\ open' = open \cup Calls(parts)
        /\ phase' = "idle" /\ request' = <<>> /\ blocks' = <<>>
        /\ out' = Append(out, [kind |-> "final", text |-> Joined(parts)])
        /\ UNCHANGED stream
    <3>1. OpenAI!Calls(parts) = Calls(parts) /\ OpenAI!Joined(parts) = Joined(parts)
      BY OpenAISame DEF OpenAI!Calls, Calls
    <3> QED BY <2>2, <3>1 DEF OpenAI!Final, OpenAI!Yield, OpenAI!Ends
  <2> QED BY <1>1, <2>1, <2>3, FinalInv
<1> QED BY <1>3, <1>4, <1>5, <1>6, <1>7 DEF OpenAI!Receives

LEMMA NextInv == IInv /\ [Next]_providerVars => IInv'
<1> SUFFICES ASSUME IInv, [Next]_providerVars PROVE IInv'
  OBVIOUS
<1>1. ASSUME Runner, provider' = "none" PROVE IInv'
  BY <1>1, RunnerInv
<1>2. ASSUME NEW streamed \in BOOLEAN, GenerateContent(streamed) PROVE IInv'
  BY <1>2, AsksInv
<1>3. ASSUME Receives PROVE IInv'
  BY <1>3, AnthropicReceives, OpenAIReceives DEF Receives
<1>4. CASE UNCHANGED providerVars
  <2> PICK h : h = contents
    OBVIOUS
  <2>1. /\ UNCHANGED <<contents, open, phase, stream, request, blocks, out, provider>>
        /\ h = contents
    BY <1>4 DEF providerVars, vars
  <2>2. HistoryInv'
    BY <2>1 DEF IInv, HistoryInv
  <2>3. RequestInv'
    BY <2>1 DEF IInv, RequestInv
  <2>4. AnswerInv'
    BY <2>1 DEF IInv, AnswerInv, PartialsAddUp
  <2> QED BY <2>2, <2>3, <2>4 DEF IInv
<1> QED BY <1>1, <1>2, <1>3, <1>4 DEF Next

-----------------------------------------------------------------------------
(* What the invariant says of the properties.                                *)

LEMMA InvTypeOK == IInv => TypeOK
<1> SUFFICES ASSUME IInv PROVE TypeOK
  OBVIOUS
<1> DEFINE T == ToolIDs \cup {NoID}
<1>1. UserPart \subseteq Item(T) /\ ModelPart \subseteq Item(T) /\ ABlock \subseteq Item(T)
  <2>1. <<0>> \in Seq(Nat) /\ <<>> \in Seq(Nat)
    BY EmptySeq
  <2>2. \A kind \in Kinds, id \in T : Names(kind, id) \in Item(T)
    BY <2>1 DEF Kinds, Names, Item
  <2>3. \A kind \in Kinds, text \in Seq(Nat) : Says(kind, text) \in Item(T)
    BY DEF Kinds, Says, Item
  <2>4. [kind : {"text"}, id : {NoID}, text : Seq(Nat)] \subseteq Item(T)
    BY DEF Item
  <2>5. UserPart \subseteq Item(T)
    BY <2>1, <2>2, <2>3 DEF UserPart, Kinds
  <2>6. ModelPart \subseteq Item(T)
    BY <2>2, <2>4 DEF ModelPart, Kinds
  <2>7. ABlock \subseteq Item(T)
    BY <2>1, <2>2, <2>3, <2>4 DEF ABlock, Kinds
  <2> QED BY <2>5, <2>6, <2>7
<1>2. contents \in Seq(Content)
  <2>1. Seq(UserPart) \subseteq Seq(Item(T)) /\ Seq(ModelPart) \subseteq Seq(Item(T))
    BY <1>1, SeqMonotonic
  <2>2. Held \subseteq Content
    BY <2>1 DEF Held, Content
  <2>3. contents \in Seq(Held)
    BY DEF IInv, HistoryInv
  <2> QED BY <2>2, <2>3, SeqMonotonic
<1>3. blocks \in Seq(Item(T))
  <2>1. blocks = <<>> \/ blocks \in Seq(ABlock) \/ blocks \in Seq(ModelPart)
    BY DEF IInv, RequestInv
  <2> QED BY <1>1, <2>1, EmptySeq, SeqMonotonic
<1>4. ConversationTypeOK
  BY <1>2, <1>3 DEF ConversationTypeOK, IInv, HistoryInv, RequestInv, AnswerInv
<1>5. request \in Seq(IF provider = "anthropic" THEN Anthropic!Message ELSE OpenAI!Message)
  <2>1. CASE request = <<>>
    BY <2>1, EmptySeq
  <2>2. CASE phase = "receiving" /\ provider = "anthropic"
    <3>1. contents \in Seq(AHeld) /\ request = Repaired(Anthropic!Messages(contents))
      BY <2>2 DEF IInv, RequestInv
    <3>2. Anthropic!Messages(contents) \in Seq(Told)
      BY <3>1, MessagesAre
    <3>3. request \in Seq(Anthropic!Message)
      BY <3>1, <3>2, RepairedType
    <3> QED BY <2>2, <3>3
  <2>3. CASE phase = "receiving" /\ provider = "openai"
    <3>1. contents \in Seq(Held) /\ request = Request(contents)
      BY <2>3 DEF IInv, HistoryInv, RequestInv
    <3>2. request \in Seq(OpenAI!Message)
      BY <3>1, RequestType
    <3> QED BY <2>3, <3>2
  <2> QED BY <2>1, <2>2, <2>3 DEF IInv, RequestInv
<1>6. provider \in {"anthropic", "openai", "none"}
  BY DEF IInv, RequestInv
<1> QED BY <1>4, <1>5, <1>6 DEF TypeOK

LEMMA InvAnswered == IInv => ToolUsesAnswered
<1> SUFFICES ASSUME IInv, provider = "anthropic", phase = "receiving"
             PROVE  Anthropic!ToolUsesAnswered
  <2>1. IInv /\ phase # "receiving" => request = <<>>
    BY DEF IInv, RequestInv
  <2>2. request = <<>> => Anthropic!ToolUsesAnswered
    BY DEF Anthropic!ToolUsesAnswered
  <2> QED BY <2>1, <2>2 DEF ToolUsesAnswered
<1> PICK ms : ms = Anthropic!Messages(contents)
  OBVIOUS
<1>1. contents \in Seq(AHeld) /\ request = Repaired(ms)
  BY DEF IInv, RequestInv
<1>2. ms \in Seq(Told)
  BY <1>1, MessagesAre
<1>3. request \in Seq(AMessages)
  BY <1>1, <1>2, RepairedIs
<1> SUFFICES ASSUME NEW i \in DOMAIN request, NEW j \in DOMAIN request[i].blocks,
                    request[i].blocks[j].kind = "tool_use"
             PROVE  /\ i < Len(request)
                    /\ request[i + 1].role = "user"
                    /\ Contains(request[i + 1].blocks, Names("tool_result", request[i].blocks[j].id))
  BY AnthropicSame DEF Anthropic!ToolUsesAnswered
<1>4. i \in 1 .. Len(request)
  BY <1>3, LenProperties
<1>5. request[i].blocks[j] \in ToSet(request[i].blocks)
  BY DEF ToSet
<1> QED BY <1>1, <1>2, <1>4, <1>5, RepairedAnswers

LEMMA InvOrphans == IInv => OnlyOrphansDropped
<1> SUFFICES ASSUME IInv, provider = "anthropic", phase = "receiving"
             PROVE  Anthropic!OnlyOrphansDropped
  BY DEF OnlyOrphansDropped, Anthropic!OnlyOrphansDropped
<1>1. contents \in Seq(AHeld) /\ request = Repaired(Anthropic!Messages(contents))
  BY DEF IInv, RequestInv
<1> QED BY <1>1, OrphansAreDropped

LEMMA InvMatch == IInv => ToolMessagesMatch
<1> SUFFICES ASSUME IInv, provider = "openai", phase = "receiving"
             PROVE  OpenAI!ToolMessagesMatch
  <2>1. IInv /\ phase # "receiving" => request = <<>>
    BY DEF IInv, RequestInv
  <2>2. request = <<>> => OpenAI!ToolMessagesMatch
    BY DEF OpenAI!ToolMessagesMatch
  <2> QED BY <2>1, <2>2 DEF ToolMessagesMatch
<1> PICK h : h = contents
  OBVIOUS
<1>1. h \in Seq(Held) /\ CallsComeFirst(h) /\ request = Request(h)
  BY DEF IInv, HistoryInv, RequestInv
<1>2. DOMAIN request = 1 .. Len(request)
  BY <1>1, RequestIs, LenProperties
<1> SUFFICES ASSUME NEW i \in 1 .. Len(Request(h)), NEW b \in ToSet(Request(h)[i].items)
             PROVE  /\ b.id \notin Long
                    /\ b.kind = "tool_result" =>
                         \E j \in 1 .. i - 1 : b.id \in OpenAI!Calling(Request(h)[j])
  BY <1>1, <1>2, OpenAISame DEF OpenAI!ToolMessagesMatch
<1> QED BY <1>1, ResultsFollowCalls

LEMMA InvSent == IInv => HistorySent
<1> SUFFICES ASSUME IInv, provider = "openai" PROVE OpenAI!HistorySent
  BY DEF HistorySent
<1> QED BY HistoryIsSent DEF IInv, HistoryInv, RequestInv

-----------------------------------------------------------------------------
(* Theorems.                                                                 *)

LEMMA InvHolds == Spec => []IInv
BY InitInv, NextInv, PTL DEF Spec

\* Every variable has its type, whatever the conversation and the answers; in
\* particular neither adapter ever sends an empty message, which the APIs refuse
\* (anthropic.go:386-388, base.go:165).
THEOREM ModelsTypeCorrect == Spec => []TypeOK
BY InvHolds, InvTypeOK, PTL

\* However long a history is, and however its calls were answered, late, apart
\* or not at all: in a request to Anthropic every tool_use has its tool_result
\* in the message right after it (anthropic.go:282, base.go:137).
THEOREM UsesAnswered == Spec => []ToolUsesAnswered
BY InvHolds, InvAnswered, PTL

\* ... and the repair of the history takes nothing away but the calls that the
\* next message does not answer.
THEOREM NothingElseDropped == Spec => []OnlyOrphansDropped
BY InvHolds, InvOrphans, PTL

\* In every request to OpenAI a tool message comes after the message with its
\* call, by the same ID, and no ID is too long (openai.go:219-232).
THEOREM MessagesMatch == Spec => []ToolMessagesMatch
BY InvHolds, InvMatch, PTL

\* A request to OpenAI says all that the conversation says, in its order.
THEOREM NothingLost == Spec => []HistorySent
BY InvHolds, InvSent, PTL

\* What was streamed is the text of the final response.
THEOREM StreamsAddUp == Spec => []PartialsAddUp
<1>1. IInv => PartialsAddUp
  BY DEF IInv, AnswerInv
<1> QED BY <1>1, InvHolds, PTL

-----------------------------------------------------------------------------
(* The answers that are kept.                                                *)

Keeps(kept, bs) == Joined(kept) = Joined(bs) /\ IDsOf(kept) = IDsOf(bs)

LEMMA NextKeeps ==
    ASSUME IInv, [Next]_providerVars
    PROVE  \/ contents' = contents
           \/ \E parts : contents' = Append(contents, [role |-> "user", parts |-> parts])
           \/ \E parts : /\ contents' = Append(contents, [role |-> "model", parts |-> parts])
                         /\ Keeps(parts, blocks)
<1>1. CASE Runner
  BY <1>1 DEF Runner, UserSays, ToolsAnswer
<1>2. CASE \E streamed \in BOOLEAN : GenerateContent(streamed)
  BY <1>2 DEF GenerateContent, Anthropic!GenerateContent, Anthropic!Asks,
              OpenAI!GenerateContent, OpenAI!Asks
<1>3. CASE provider = "anthropic" /\ Anthropic!Receives
  <2>1. CASE Anthropic!Completes
    <3> DEFINE parts == Anthropic!ConvertResponse(blocks)
    <3>1. contents' = Append(contents, [role |-> "model", parts |-> parts]) /\ phase = "receiving"
      BY <2>1 DEF Anthropic!Completes, Anthropic!Final
    <3>2. blocks \in Seq(ABlock)
      BY <1>3, <3>1 DEF IInv, RequestInv
    <3>3. Keeps(parts, blocks)
      BY <3>2, AnthropicKeeps DEF Keeps
    <3> QED BY <3>1, <3>3
  <2>2. CASE ~Anthropic!Completes
    BY <1>3, <2>2 DEF Anthropic!Receives, Anthropic!BlockStarts, Anthropic!TextDelta,
                      Anthropic!TextStops, Anthropic!Stops, Anthropic!Fails
  <2> QED BY <2>1, <2>2
<1>4. CASE provider = "openai" /\ OpenAI!Receives
  <2>1. CASE OpenAI!Completes
    <3> DEFINE parts == OpenAI!ConvertResponse(blocks)
               final == IF stream THEN OpenAI!BuildStreamFinalResponse(blocks) ELSE parts
    <3>1. contents' = Append(contents, [role |-> "model", parts |-> final]) /\ phase = "receiving"
      BY <2>1 DEF OpenAI!Completes, OpenAI!Final
    <3>2. blocks \in Seq(ModelPart)
      BY <1>4, <3>1 DEF IInv, RequestInv
    <3>3. Keeps(parts, blocks) /\ final = parts
      BY <3>2, OpenAIKeeps DEF Keeps
    <3> QED BY <3>1, <3>3
  <2>2. CASE ~OpenAI!Completes
    BY <1>4, <2>2 DEF OpenAI!Receives, OpenAI!BlockStarts, OpenAI!TextChunk,
                      OpenAI!Stops, OpenAI!Fails
  <2> QED BY <2>1, <2>2
<1>5. CASE UNCHANGED providerVars
  BY <1>5 DEF providerVars, vars
<1> QED BY <1>1, <1>2, <1>3, <1>4, <1>5 DEF Next, Receives

\* Of every answer, streamed or not, the runner keeps all of the text and all
\* of the calls, in order: no delta and no tool call is lost or made twice by
\* either adapter, however texts and calls are mixed.
THEOREM AnswersKept == Spec => AnswerKept
<1>1. IInv /\ [Next]_providerVars =>
        [ (Len(contents') > Len(contents) /\ Last(contents').role = "model") =>
            LET kept == Last(contents').parts
                ids(ps) == Chosen([i \in DOMAIN ps |-> ps[i].id], LAMBDA id : id # NoID)
            IN  /\ Joined(kept) = Joined(blocks)
                /\ ids(kept) = ids(blocks) ]_vars
  <2> SUFFICES ASSUME IInv, [Next]_providerVars,
                      Len(contents') > Len(contents), Last(contents').role = "model"
               PROVE  Keeps(Last(contents').parts, blocks)
    BY DEF Keeps, IDsOf
  <2> PICK h : h = contents
    OBVIOUS
  <2>1. h \in Seq(Held)
    BY DEF IInv, HistoryInv
  <2>2. \A c : Len(Append(h, c)) = Len(h) + 1 /\ Append(h, c)[Len(h) + 1] = c
    BY <2>1, AppendProperties
  <2>3. contents' # h
    BY <2>1
  <2>4. \A c : contents' = Append(h, c) => Last(contents') = c
    BY <2>2 DEF Last
  <2>5. PICK parts : /\ contents' = Append(h, [role |-> "model", parts |-> parts])
                     /\ Keeps(parts, blocks)
    <3>1. \/ contents' = h
          \/ \E parts : contents' = Append(h, [role |-> "user", parts |-> parts])
          \/ \E parts : /\ contents' = Append(h, [role |-> "model", parts |-> parts])
                        /\ Keeps(parts, blocks)
      BY NextKeeps
    <3>2. ASSUME NEW parts, contents' = Append(h, [role |-> "user", parts |-> parts]) PROVE FALSE
      <4> PICK c : c = [role |-> "user", parts |-> parts]
        OBVIOUS
      <4>1. Last(contents') = c
        BY <2>4, <3>2
      <4> QED BY <4>1
    <3> QED BY <2>3, <3>1, <3>2
  <2> QED BY <2>4, <2>5
<1> QED BY <1>1, InvHolds, PTL DEF Spec, AnswerKept
==============================================================================
