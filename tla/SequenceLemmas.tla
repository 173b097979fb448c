--------------------------- MODULE SequenceLemmas ---------------------------
(***************************************************************************)
(* Facts about sequences that are put together of sequences: FlattenSeq,   *)
(* and what it makes of a sequence whose elements become sequences.  All   *)
(* conversions of the model adapters are of that form.                     *)
(***************************************************************************)
EXTENDS SequencesExt, FiniteSetTheorems, SequenceTheorems, WellFoundedInduction, TLAPS

-----------------------------------------------------------------------------
(* Induction.  The library's induction theorems are about an operator; here  *)
(* the set of what has a property takes its place.                           *)

\* The least number of a set.  Numbers are ordered as the finite sets 1 .. n.
LEMMA LeastNat ==
    ASSUME NEW T, T \subseteq Nat, T # {}
    PROVE  \E x \in T : \A y \in T : x <= y
<1> DEFINE R == StrictSubsetOrdering(Nat)
           U == {1 .. n : n \in T}
<1>1. IsWellFoundedOn(R, FiniteSubsetsOf(Nat))
  BY FS_StrictSubsetOrderingWellFounded
<1>2. U \subseteq FiniteSubsetsOf(Nat)
  <2>1. \A n \in T : IsFiniteSet(1 .. n)
    BY FS_Interval
  <2> QED BY <2>1 DEF FiniteSubsetsOf
<1>3. U # {}
  OBVIOUS
<1>4. PICK X \in U : \A Y \in U : <<Y, X>> \notin R
  <2> HIDE DEF R, U
  <2> QED BY <1>1, <1>2, <1>3, WFMin
<1>5. PICK x \in T : X = 1 .. x
  BY <1>4
<1>6. ASSUME NEW y \in T, ~(x <= y)
      PROVE  FALSE
  <2>1. 1 .. y \in U /\ 1 .. y \subseteq 1 .. x /\ x \in 1 .. x /\ x \notin 1 .. y
    BY <1>6
  <2>2. <<1 .. y, 1 .. x>> \in R
    BY <2>1 DEF StrictSubsetOrdering
  <2> QED BY <1>4, <1>5, <2>1, <2>2
<1> QED BY <1>6

LEMMA UpTo ==
    ASSUME NEW n \in Nat, NEW T, 0 \in T, \A i \in 1 .. n : i - 1 \in T => i \in T
    PROVE  0 .. n \subseteq T
<1> SUFFICES ASSUME NEW k \in 0 .. n, k \notin T PROVE FALSE
  OBVIOUS
<1> DEFINE U == {i \in 0 .. n : i \notin T}
<1>1. PICK x \in U : \A y \in U : x <= y
  <2>1. U \subseteq Nat /\ k \in U
    OBVIOUS
  <2> HIDE DEF U
  <2> QED BY <2>1, LeastNat
<1>2. x \in 1 .. n /\ x - 1 \in 0 .. n
  BY <1>1
<1>3. x - 1 \in T
  BY <1>1, <1>2
<1> QED BY <1>1, <1>2, <1>3

\* Every sequence is made by appending.
LEMMA ByAppending ==
    ASSUME NEW A, NEW T, <<>> \in T, \A t \in Seq(A), x \in A : t \in T => Append(t, x) \in T
    PROVE  Seq(A) \subseteq T
<1> SUFFICES ASSUME NEW s \in Seq(A) PROVE s \in T
  OBVIOUS
<1> DEFINE n == Len(s)
           U == {i \in 0 .. n : SubSeq(s, 1, i) \in T}
<1>1. n \in Nat /\ \A i \in 1 .. n : s[i] \in A
  BY ElementOfSeq, LenProperties
<1>2. 0 \in U
  <2>1. SubSeq(s, 1, 0) = <<>>
    BY SubSeqEmpty
  <2>2. 0 \in 0 .. n
    BY <1>1
  <2> HIDE DEF n
  <2> QED BY <2>1, <2>2
<1>3. \A i \in 1 .. n : i - 1 \in U => i \in U
  <2> SUFFICES ASSUME NEW i \in 1 .. n, SubSeq(s, 1, i - 1) \in T
               PROVE  SubSeq(s, 1, i) \in T
    BY <1>1
  <2>1. SubSeq(s, 1, i - 1) \in Seq(A)
    BY <1>1, SubSeqProperties, i - 1 \in Int, \A j \in 1 .. i - 1 : s[j] \in A
  <2>2. SubSeq(s, 1, i) = Append(SubSeq(s, 1, i - 1), s[i])
    <3>1. SubSeq(s, 1, i) = SubSeq(s, 1, i - 1) \o <<s[i]>>
      BY <1>1, SubSeqRecursiveSecond, 1 \in 1 .. Len(s), i \in 1 .. Len(s)
    <3>2. Append(SubSeq(s, 1, i - 1), s[i]) = SubSeq(s, 1, i - 1) \o <<s[i]>>
      BY <1>1, <2>1, AppendIsConcat, s[i] \in A
    <3> QED BY <3>1, <3>2
  <2> QED BY <1>1, <2>1, <2>2
<1>4. n \in U
  <2> HIDE DEF U, n
  <2>1. 0 .. n \subseteq U
    BY <1>1, <1>2, <1>3, UpTo
  <2> QED BY <1>1, <2>1
<1>5. SubSeq(s, 1, Len(s)) = s
  BY SubSeqFull
<1> QED BY <1>4, <1>5

-----------------------------------------------------------------------------
(* FlattenSeq. *)

\* f[i] is what the first i sequences of s add up to.
Sums(s, f) ==
    /\ DOMAIN f = 0 .. Len(s)
    /\ f[0] = <<>>
    /\ \A i \in 1 .. Len(s) : f[i] = f[i - 1] \o s[i]

LEMMA PrefixesExist ==
    ASSUME NEW S, NEW s \in Seq(Seq(S))
    PROVE  \E f : Sums(s, f) /\ \A i \in 0 .. Len(s) : f[i] \in Seq(S)
<1> DEFINE T == {t \in Seq(Seq(S)) :
                    \E f : Sums(t, f) /\ \A i \in 0 .. Len(t) : f[i] \in Seq(S)}
<1>1. <<>> \in T
  <2> DEFINE f == [i \in 0 .. 0 |-> <<>>]
  <2>1. Sums(<<>>, f) /\ \A i \in 0 .. 0 : f[i] \in Seq(S)
    BY EmptySeq DEF Sums
  <2>2. <<>> \in Seq(Seq(S)) /\ Len(<<>>) = 0
    BY EmptySeq
  <2> HIDE DEF f
  <2> QED BY <2>1, <2>2
<1>2. ASSUME NEW t \in Seq(Seq(S)), NEW x \in Seq(S), t \in T
      PROVE  Append(t, x) \in T
  <2> PICK g : Sums(t, g) /\ \A i \in 0 .. Len(t) : g[i] \in Seq(S)
    BY <1>2
  <2> DEFINE u == Append(t, x)
             f == [i \in 0 .. Len(u) |-> IF i <= Len(t) THEN g[i] ELSE g[Len(t)] \o x]
  <2>1. /\ u \in Seq(Seq(S)) /\ Len(u) = Len(t) + 1 /\ Len(t) \in Nat
        /\ u[Len(u)] = x /\ \A i \in 1 .. Len(t) : u[i] = t[i]
    OBVIOUS
  <2>2. g[Len(t)] \o x \in Seq(S)
    <3>1. g[Len(t)] \in Seq(S)
      BY <2>1
    <3> QED BY <3>1
  <2> HIDE DEF u
  <2>3. \A i \in 0 .. Len(u) : f[i] \in Seq(S)
    BY <2>1, <2>2
  <2>4. Sums(u, f)
    <3>1. ASSUME NEW i \in 1 .. Len(u) PROVE f[i] = f[i - 1] \o u[i]
      <4>1. CASE i <= Len(t)
        <5>1. f[i] = g[i] /\ f[i - 1] = g[i - 1] /\ u[i] = t[i]
          BY <2>1, <4>1
        <5> HIDE DEF f
        <5>2. i \in 1 .. Len(t)
          BY <2>1, <4>1
        <5>3. g[i] = g[i - 1] \o t[i]
          BY <5>2 DEF Sums
        <5> QED BY <5>1, <5>3
      <4>2. CASE i = Len(t) + 1
        <5>1. f[i] = g[Len(t)] \o x /\ f[i - 1] = g[Len(t)] /\ u[i] = x
          BY <2>1, <4>2
        <5> HIDE DEF f
        <5> QED BY <5>1
      <4>3. i <= Len(t) \/ i = Len(t) + 1
        BY <2>1
      <4> QED BY <4>1, <4>2, <4>3
    <3>2. f[0] = <<>> /\ DOMAIN f = 0 .. Len(u)
      BY <2>1 DEF Sums
    <3> QED BY <3>1, <3>2 DEF Sums
  <2> HIDE DEF f
  <2>5. u \in T
    BY <2>1, <2>3, <2>4
  <2> QED BY <2>5 DEF u
<1>3. s \in T
  <2> HIDE DEF T
  <2> QED BY <1>1, <1>2, ByAppending
<1> QED BY <1>3

LEMMA FlattenIs ==
    ASSUME NEW S, NEW s \in Seq(Seq(S)), NEW f, Sums(s, f),
           \A i \in 0 .. Len(s) : f[i] \in Seq(S)
    PROVE  FlattenSeq(s) = f[Len(s)]
<1> DEFINE n == Len(s)
<1>1. n \in Nat
  OBVIOUS
<1>2. CASE n = 0
  <2>1. s = <<>> /\ FlattenSeq(s) = s
    BY <1>2 DEF FlattenSeq
  <2> QED BY <1>2, <2>1 DEF Sums
<1>3. CASE n # 0
  <2> DEFINE Step(g) == [i \in 1 .. n |-> IF i = 1 THEN s[i] ELSE g[i - 1] \o s[i]]
             G == CHOOSE g : g = Step(g)
             h == [i \in 1 .. n |-> f[i]]
  <2>1. FlattenSeq(s) = G[n]
    BY <1>3 DEF FlattenSeq
  <2>2. h = Step(h)
    <3>1. ASSUME NEW i \in 1 .. n PROVE f[i] = IF i = 1 THEN s[i] ELSE h[i - 1] \o s[i]
      <4>0. s[i] \in Seq(S)
        OBVIOUS
      <4>1. f[i] = f[i - 1] \o s[i]
        BY DEF Sums
      <4>2. CASE i = 1
        <5>1. f[i - 1] = <<>>
          BY <4>2 DEF Sums
        <5> QED BY <4>0, <4>1, <4>2, <5>1
      <4>3. CASE i # 1
        <5>1. h[i - 1] = f[i - 1]
          BY <1>1, <4>3
        <5> QED BY <4>1, <4>3, <5>1
      <4> QED BY <4>2, <4>3
    <3> QED BY <3>1
  <2>3. G = Step(G)
    <3> HIDE DEF h, Step
    <3> QED BY <2>2
  <2> HIDE DEF G
  <2> DEFINE T == {i \in 0 .. n : i = 0 \/ G[i] = f[i]}
  <2>4. ASSUME NEW i \in 1 .. n, i - 1 \in T PROVE i \in T
    <3>1. G[i] = IF i = 1 THEN s[i] ELSE G[i - 1] \o s[i]
      BY <2>3
    <3>2. f[i] = IF i = 1 THEN s[i] ELSE f[i - 1] \o s[i]
      <4>1. f[i] = h[i] /\ (i # 1 => h[i - 1] = f[i - 1])
        BY <1>1
      <4>2. h[i] = IF i = 1 THEN s[i] ELSE h[i - 1] \o s[i]
        <5>1. Step(h)[i] = IF i = 1 THEN s[i] ELSE h[i - 1] \o s[i]
          OBVIOUS
        <5> HIDE DEF h, Step
        <5> QED BY <2>2, <5>1
      <4> HIDE DEF h
      <4> QED BY <4>1, <4>2
    <3>3. CASE i = 1
      BY <1>1, <3>1, <3>2, <3>3
    <3>4. CASE i # 1
      <4>1. G[i - 1] = f[i - 1]
        BY <2>4, <3>4
      <4>2. i \in 0 .. n
        BY <1>1
      <4>3. G[i] = f[i]
        BY <3>1, <3>2, <3>4, <4>1
      <4> QED BY <4>2, <4>3
    <3> QED BY <3>3, <3>4
  <2>5. n \in T
    <3>1. 0 \in T
      BY <1>1
    <3>2. \A i \in 1 .. n : i - 1 \in T => i \in T
      BY <2>4
    <3> HIDE DEF T, n
    <3>3. 0 .. n \subseteq T
      BY <1>1, <3>1, <3>2, UpTo
    <3> QED BY <1>1, <3>3
  <2> QED BY <1>3, <2>1, <2>5
<1> QED BY <1>2, <1>3

LEMMA FlattenType ==
    ASSUME NEW S, NEW s \in Seq(Seq(S))
    PROVE  FlattenSeq(s) \in Seq(S)
<1> PICK f : Sums(s, f) /\ \A i \in 0 .. Len(s) : f[i] \in Seq(S)
  BY PrefixesExist
<1>1. FlattenSeq(s) = f[Len(s)]
  BY FlattenIs
<1> QED BY <1>1

LEMMA FlattenEmpty == FlattenSeq(<<>>) = <<>>
BY DEF FlattenSeq

LEMMA FlattenAppend ==
    ASSUME NEW S, NEW s \in Seq(Seq(S)), NEW x \in Seq(S)
    PROVE  FlattenSeq(Append(s, x)) = FlattenSeq(s) \o x
<1> DEFINE u == Append(s, x)
<1>1. /\ u \in Seq(Seq(S)) /\ Len(u) = Len(s) + 1 /\ Len(s) \in Nat
      /\ u[Len(u)] = x /\ \A i \in 1 .. Len(s) : u[i] = s[i]
  OBVIOUS
<1> HIDE DEF u
<1> PICK f : Sums(u, f) /\ \A i \in 0 .. Len(u) : f[i] \in Seq(S)
  BY <1>1, PrefixesExist
<1> DEFINE g == [i \in 0 .. Len(s) |-> f[i]]
<1>2. Sums(s, g) /\ \A i \in 0 .. Len(s) : g[i] \in Seq(S)
  <2>1. ASSUME NEW i \in 1 .. Len(s) PROVE g[i] = g[i - 1] \o s[i]
    <3>1. g[i] = f[i] /\ g[i - 1] = f[i - 1] /\ u[i] = s[i] /\ i \in 1 .. Len(u)
      BY <1>1
    <3> HIDE DEF g
    <3> QED BY <3>1 DEF Sums
  <2>2. g[0] = <<>> /\ DOMAIN g = 0 .. Len(s)
    BY <1>1 DEF Sums
  <2>3. \A i \in 0 .. Len(s) : g[i] \in Seq(S)
    BY <1>1
  <2> HIDE DEF g
  <2> QED BY <2>1, <2>2, <2>3 DEF Sums
<1>3. FlattenSeq(s) = g[Len(s)] /\ g[Len(s)] = f[Len(s)]
  <2>1. g[Len(s)] = f[Len(s)]
    BY <1>1
  <2> HIDE DEF g
  <2> QED BY <1>2, <2>1, FlattenIs
<1>4. FlattenSeq(u) = f[Len(s) + 1]
  BY <1>1, FlattenIs
<1>5. f[Len(s) + 1] = f[Len(s)] \o x
  <2>1. Len(s) + 1 \in 1 .. Len(u) /\ (Len(s) + 1) - 1 = Len(s) /\ u[Len(s) + 1] = x
    BY <1>1
  <2> QED BY <2>1 DEF Sums
<1> QED BY <1>3, <1>4, <1>5 DEF u

LEMMA FlattenConcat ==
    ASSUME NEW S, NEW s \in Seq(Seq(S)), NEW t \in Seq(Seq(S))
    PROVE  FlattenSeq(s \o t) = FlattenSeq(s) \o FlattenSeq(t)
<1> DEFINE T == {u \in Seq(Seq(S)) : FlattenSeq(s \o u) = FlattenSeq(s) \o FlattenSeq(u)}
<1>1. <<>> \in T
  <2>1. s \o <<>> = s /\ FlattenSeq(s) \o <<>> = FlattenSeq(s) /\ <<>> \in Seq(Seq(S))
    BY FlattenType, ConcatEmptySeq, EmptySeq
  <2> QED BY <2>1, FlattenEmpty
<1>2. ASSUME NEW u \in Seq(Seq(S)), NEW x \in Seq(S), u \in T
      PROVE  Append(u, x) \in T
  <2>1. s \o u \in Seq(Seq(S)) /\ Append(u, x) \in Seq(Seq(S))
    BY ConcatProperties, AppendProperties
  <2>2. s \o Append(u, x) = Append(s \o u, x)
    <3>1. Append(u, x) = u \o <<x>> /\ Append(s \o u, x) = (s \o u) \o <<x>>
      BY <2>1, AppendIsConcat
    <3>2. <<x>> \in Seq(Seq(S))
      OBVIOUS
    <3> QED BY <3>1, <3>2, ConcatAssociative
  <2>3. /\ FlattenSeq(Append(s \o u, x)) = FlattenSeq(s \o u) \o x
        /\ FlattenSeq(Append(u, x)) = FlattenSeq(u) \o x
    BY <2>1, FlattenAppend
  <2>4. (FlattenSeq(s) \o FlattenSeq(u)) \o x = FlattenSeq(s) \o (FlattenSeq(u) \o x)
    BY FlattenType, ConcatAssociative
  <2> QED BY <1>2, <2>1, <2>2, <2>3, <2>4
<1>3. t \in T
  <2> HIDE DEF T
  <2> QED BY <1>1, <1>2, ByAppending
<1> QED BY <1>3

LEMMA FlattenOne ==
    ASSUME NEW S, NEW x \in Seq(S)
    PROVE  FlattenSeq(<<x>>) = x
<1>1. <<>> \in Seq(Seq(S)) /\ <<x>> = Append(<<>>, x)
  BY EmptySeq
<1>2. FlattenSeq(Append(<<>>, x)) = FlattenSeq(<<>>) \o x
  BY <1>1, FlattenAppend
<1> QED BY <1>1, <1>2, FlattenEmpty, ConcatEmptySeq

-----------------------------------------------------------------------------
(* Every element of s becomes a sequence.                                    *)

FlatMap(s, g) == FlattenSeq([i \in DOMAIN s |-> g[s[i]]])

LEMMA ImageType ==
    ASSUME NEW A, NEW C, NEW g \in [A -> C], NEW s \in Seq(A)
    PROVE  [i \in DOMAIN s |-> g[s[i]]] \in Seq(C)
OBVIOUS

\* Under this name provers find what it is that a lemma is about.
Converters(A, B) == [A -> Seq(B)]

LEMMA FlatMapType ==
    ASSUME NEW A, NEW B, NEW g \in Converters(A, B), NEW s \in Seq(A)
    PROVE  FlatMap(s, g) \in Seq(B)
<1>1. [i \in DOMAIN s |-> g[s[i]]] \in Seq(Seq(B))
  BY ImageType DEF Converters
<1> HIDE DEF FlatMap
<1>2. FlattenSeq([i \in DOMAIN s |-> g[s[i]]]) \in Seq(B)
  BY <1>1, FlattenType
<1> QED BY <1>2 DEF FlatMap

LEMMA FlatMapEmpty ==
    ASSUME NEW g
    PROVE  FlatMap(<<>>, g) = <<>>
<1>1. [i \in DOMAIN <<>> |-> g[<<>>[i]]] = <<>>
  OBVIOUS
<1> QED BY <1>1, FlattenEmpty DEF FlatMap

LEMMA FlatMapConcat ==
    ASSUME NEW A, NEW B, NEW g \in Converters(A, B), NEW s \in Seq(A), NEW t \in Seq(A)
    PROVE  FlatMap(s \o t, g) = FlatMap(s, g) \o FlatMap(t, g)
<1> DEFINE u == [i \in DOMAIN s |-> g[s[i]]]
           v == [i \in DOMAIN t |-> g[t[i]]]
           w == [i \in DOMAIN (s \o t) |-> g[(s \o t)[i]]]
<1>0. s \o t \in Seq(A)
  BY ConcatProperties
<1>1. u \in Seq(Seq(B)) /\ v \in Seq(Seq(B)) /\ w \in Seq(Seq(B))
  BY <1>0, ImageType DEF Converters
<1>2. Len(u) = Len(s) /\ Len(v) = Len(t) /\ Len(w) = Len(s) + Len(t)
  BY <1>0, ConcatProperties
<1>3. /\ u \o v \in Seq(Seq(B)) /\ Len(u \o v) = Len(s) + Len(t)
      /\ \A i \in 1 .. Len(s) + Len(t) :
           (u \o v)[i] = IF i <= Len(s) THEN u[i] ELSE v[i - Len(s)]
  <2> HIDE DEF u, v, w
  <2>1. /\ u \o v \in Seq(Seq(B)) /\ Len(u \o v) = Len(u) + Len(v)
        /\ \A i \in 1 .. Len(u) + Len(v) :
             (u \o v)[i] = IF i <= Len(u) THEN u[i] ELSE v[i - Len(u)]
    BY <1>1, ConcatProperties
  <2> QED BY <1>2, <2>1
<1>4. ASSUME NEW i \in 1 .. Len(s) + Len(t)
      PROVE  w[i] = (u \o v)[i]
  <2>1. (u \o v)[i] = IF i <= Len(s) THEN u[i] ELSE v[i - Len(s)]
    BY <1>3
  <2>2. w[i] = g[IF i <= Len(s) THEN s[i] ELSE t[i - Len(s)]]
    BY ConcatProperties
  <2>3. CASE i <= Len(s)
    BY <2>1, <2>2, <2>3
  <2>4. CASE ~(i <= Len(s))
    <3>1. i - Len(s) \in DOMAIN t
      BY <2>4, LenProperties
    <3> QED BY <2>1, <2>2, <2>4, <3>1
  <2> QED BY <2>3, <2>4
<1>5. w = u \o v
  <2> HIDE DEF u, v, w
  <2> QED BY <1>1, <1>2, <1>3, <1>4, SeqEqual
<1>6. FlattenSeq(u \o v) = FlattenSeq(u) \o FlattenSeq(v)
  <2> HIDE DEF u, v
  <2> QED BY <1>1, FlattenConcat
<1> QED BY <1>5, <1>6 DEF FlatMap

LEMMA FlatMapOne ==
    ASSUME NEW A, NEW B, NEW g \in Converters(A, B), NEW x \in A
    PROVE  FlatMap(<<x>>, g) = g[x]
<1>1. [i \in DOMAIN <<x>> |-> g[<<x>>[i]]] = <<g[x]>>
  OBVIOUS
<1> QED BY <1>1, FlattenOne DEF FlatMap, Converters

LEMMA FlatMapAppend ==
    ASSUME NEW A, NEW B, NEW g \in Converters(A, B), NEW s \in Seq(A), NEW x \in A
    PROVE  FlatMap(Append(s, x), g) = FlatMap(s, g) \o g[x]
<1>1. Append(s, x) = s \o <<x>> /\ <<x>> \in Seq(A)
  BY AppendIsConcat
<1>2. FlatMap(s \o <<x>>, g) = FlatMap(s, g) \o FlatMap(<<x>>, g)
  BY <1>1, FlatMapConcat
<1>3. FlatMap(<<x>>, g) = g[x]
  BY FlatMapOne
<1> QED BY <1>1, <1>2, <1>3

\* One conversion after the other is one conversion.
LEMMA FlatMapTwice ==
    ASSUME NEW A, NEW B, NEW C, NEW g \in Converters(A, B), NEW h \in Converters(B, C),
           NEW k \in Converters(A, C), \A a \in A : k[a] = FlatMap(g[a], h),
           NEW s \in Seq(A)
    PROVE  FlatMap(FlatMap(s, g), h) = FlatMap(s, k)
<1> DEFINE T == {t \in Seq(A) : FlatMap(FlatMap(t, g), h) = FlatMap(t, k)}
<1>2. <<>> \in T
  BY FlatMapEmpty, EmptySeq
<1>3. ASSUME NEW t \in Seq(A), NEW x \in A, t \in T
      PROVE  Append(t, x) \in T
  <2>1. FlatMap(Append(t, x), g) = FlatMap(t, g) \o g[x]
    BY FlatMapAppend
  <2>2. FlatMap(FlatMap(t, g) \o g[x], h) = FlatMap(FlatMap(t, g), h) \o FlatMap(g[x], h)
    <3>1. FlatMap(t, g) \in Seq(B) /\ g[x] \in Seq(B)
      BY FlatMapType DEF Converters
    <3>2. \A p, q \in Seq(B) : FlatMap(p \o q, h) = FlatMap(p, h) \o FlatMap(q, h)
      BY FlatMapConcat
    <3> QED BY <3>1, <3>2
  <2>3. k[x] = FlatMap(g[x], h)
    OBVIOUS
  <2>4. FlatMap(Append(t, x), k) = FlatMap(t, k) \o k[x]
    BY FlatMapAppend
  <2>5. Append(t, x) \in Seq(A)
    BY AppendProperties
  <2> QED BY <1>3, <2>1, <2>2, <2>3, <2>4, <2>5
<1>4. s \in T
  <2> HIDE DEF T
  <2> QED BY <1>2, <1>3, ByAppending
<1> QED BY <1>4

\* Every element becomes one element.
Images(s, g, t) == Len(t) = Len(s) /\ \A i \in 1 .. Len(s) : g[s[i]] = <<t[i]>>

LEMMA FlatMapSingle ==
    ASSUME NEW A, NEW B, NEW g \in Converters(A, B), NEW s \in Seq(A),
           NEW t \in Seq(B), Images(s, g, t)
    PROVE  t = FlatMap(s, g)
<1> DEFINE n == Len(s)
           T == {i \in 0 .. n : SubSeq(t, 1, i) = FlatMap(SubSeq(s, 1, i), g)}
<1>1. n \in Nat /\ n = Len(t) /\ \A i \in 1 .. n : g[s[i]] = <<t[i]>>
  BY LenProperties DEF Images
<1>2. 0 \in T
  <2>1. SubSeq(t, 1, 0) = <<>> /\ SubSeq(s, 1, 0) = <<>>
    BY SubSeqEmpty
  <2>2. 0 \in 0 .. n
    BY <1>1
  <2> HIDE DEF n
  <2> QED BY <2>1, <2>2, FlatMapEmpty
<1>3. \A i \in 1 .. n : i - 1 \in T => i \in T
  <2> SUFFICES ASSUME NEW i \in 1 .. n,
                      SubSeq(t, 1, i - 1) = FlatMap(SubSeq(s, 1, i - 1), g)
               PROVE  SubSeq(t, 1, i) = FlatMap(SubSeq(s, 1, i), g)
    BY <1>1
  <2>1. 1 \in 1 .. Len(s) /\ i \in 1 .. Len(s) /\ i \in 1 .. i /\ i - 1 \in Int
    BY <1>1
  <2>2. SubSeq(s, 1, i) = SubSeq(s, 1, i - 1) \o <<s[i]>>
    BY <2>1, SubSeqRecursiveSecond
  <2>3. SubSeq(t, 1, i) = SubSeq(t, 1, i - 1) \o <<t[i]>>
    BY <1>1, <2>1, SubSeqRecursiveSecond
  <2>4. \A j \in 1 .. i - 1 : s[j] \in A
    BY <2>1, ElementOfSeq
  <2>5. SubSeq(s, 1, i - 1) \in Seq(A) /\ s[i] \in A /\ <<s[i]>> \in Seq(A)
    BY <2>1, <2>4, SubSeqProperties, ElementOfSeq
  <2>6. FlatMap(SubSeq(s, 1, i - 1) \o <<s[i]>>, g)
            = FlatMap(SubSeq(s, 1, i - 1), g) \o FlatMap(<<s[i]>>, g)
    BY <2>5, FlatMapConcat
  <2>7. FlatMap(<<s[i]>>, g) = <<t[i]>>
    <3>1. \A a \in A : FlatMap(<<a>>, g) = g[a]
      BY FlatMapOne
    <3> QED BY <1>1, <2>5, <3>1
  <2> QED BY <2>2, <2>3, <2>6, <2>7
<1>4. n \in T
  <2> HIDE DEF T, n
  <2>1. 0 .. n \subseteq T
    BY <1>1, <1>2, <1>3, UpTo
  <2> QED BY <1>1, <2>1
<1>5. SubSeq(s, 1, Len(s)) = s /\ SubSeq(t, 1, Len(t)) = t
  BY SubSeqFull
<1> QED BY <1>1, <1>4, <1>5

-----------------------------------------------------------------------------
(* Where the elements of a flattened sequence come from: off[i] of them are  *)
(* from the first i sequences.                                               *)

Offsets(s, off) ==
    /\ off[0] = 0
    /\ \A i \in 1 .. Len(s) : off[i] = off[i - 1] + Len(s[i])
    /\ \A i \in 0 .. Len(s) : \A j \in i .. Len(s) : off[i] <= off[j]
Places(s, off) ==
    /\ off[Len(s)] = Len(FlattenSeq(s))
    /\ \A i \in 1 .. Len(s) : \A j \in 1 .. Len(s[i]) :
          FlattenSeq(s)[off[i - 1] + j] = s[i][j]
    /\ \A k \in 1 .. Len(FlattenSeq(s)) :
          \E i \in 1 .. Len(s) : \E j \in 1 .. Len(s[i]) : k = off[i - 1] + j

LEMMA FlattenPlaces ==
    ASSUME NEW S, NEW s \in Seq(Seq(S))
    PROVE  \E off \in [0 .. Len(s) -> Nat] : Offsets(s, off) /\ Places(s, off)
<1> DEFINE T == {t \in Seq(Seq(S)) :
                    \E off \in [0 .. Len(t) -> Nat] : Offsets(t, off) /\ Places(t, off)}
<1>1. <<>> \in T
  <2> DEFINE off == [i \in 0 .. 0 |-> 0]
  <2>1. off \in [0 .. 0 -> Nat] /\ <<>> \in Seq(Seq(S)) /\ Len(<<>>) = 0
    BY EmptySeq
  <2>2. Offsets(<<>>, off)
    BY <2>1 DEF Offsets
  <2>3. Places(<<>>, off)
    BY <2>1, FlattenEmpty DEF Places
  <2> HIDE DEF off
  <2> QED BY <2>1, <2>2, <2>3
<1>2. ASSUME NEW t \in Seq(Seq(S)), NEW x \in Seq(S), t \in T
      PROVE  Append(t, x) \in T
  <2> PICK o \in [0 .. Len(t) -> Nat] : Offsets(t, o) /\ Places(t, o)
    BY <1>2
  <2> DEFINE u == Append(t, x)
             n == Len(t)
             m == Len(x)
             off == [i \in 0 .. n + 1 |-> IF i <= n THEN o[i] ELSE o[n] + m]
             F == FlattenSeq(t)
             G == FlattenSeq(u)
  <2>1. /\ u \in Seq(Seq(S)) /\ Len(u) = n + 1 /\ n \in Nat /\ m \in Nat
        /\ u[n + 1] = x /\ \A i \in 1 .. n : u[i] = t[i]
    OBVIOUS
  <2>2. F \in Seq(S) /\ Len(F) \in Nat
    BY FlattenType, LenProperties
  <2>3. G = F \o x
    BY FlattenAppend
  <2>4. /\ Len(G) = Len(F) + m
        /\ \A k \in 1 .. Len(F) + m : G[k] = IF k <= Len(F) THEN F[k] ELSE x[k - Len(F)]
    <3> HIDE DEF F, G
    <3> QED BY <2>2, <2>3, ConcatProperties
  <2> HIDE DEF u
  <2>5. /\ o[0] = 0
        /\ \A i \in 1 .. n : o[i] = o[i - 1] + Len(t[i])
        /\ \A i \in 0 .. n : \A j \in i .. n : o[i] <= o[j]
    BY DEF Offsets
  <2>6. /\ o[n] = Len(F)
        /\ \A i \in 1 .. n : \A j \in 1 .. Len(t[i]) : F[o[i - 1] + j] = t[i][j]
        /\ \A k \in 1 .. Len(F) : \E i \in 1 .. n : \E j \in 1 .. Len(t[i]) : k = o[i - 1] + j
    BY DEF Places
  <2>7. /\ off \in [0 .. n + 1 -> Nat] /\ off[n + 1] = o[n] + m
        /\ \A i \in 0 .. n : off[i] = o[i] /\ o[i] \in Nat
    <3>1. o \in [0 .. n -> Nat] /\ n \in Nat /\ m \in Nat
      BY <2>1
    <3> HIDE DEF n, m
    <3>2. \A i \in 0 .. n : o[i] \in Nat
      BY <3>1
    <3>3. \A i \in 0 .. n : off[i] = o[i]
      BY <3>1
    <3>4. n \in 0 .. n /\ off[n + 1] = o[n] + m
      BY <3>1
    <3>5. \A i \in 0 .. n + 1 : (IF i <= n THEN o[i] ELSE o[n] + m) \in Nat
      BY <3>1, <3>2, <3>4
    <3>6. off \in [0 .. n + 1 -> Nat]
      BY <3>5
    <3> QED BY <3>2, <3>3, <3>4, <3>6
  <2>8. \A i \in 1 .. n : Len(t[i]) \in Nat
    <3> SUFFICES ASSUME NEW i \in 1 .. n PROVE Len(t[i]) \in Nat
      OBVIOUS
    <3>1. t[i] \in Seq(S)
      BY ElementOfSeq
    <3> QED BY <3>1, LenProperties
  <2> HIDE DEF n, m, off, F, G
  <2>9. Offsets(u, off)
    <3>1. off[0] = 0
      BY <2>1, <2>5, <2>7
    <3>2. ASSUME NEW i \in 1 .. n + 1 PROVE off[i] = off[i - 1] + Len(u[i])
      <4>1. CASE i <= n
        <5>1. i \in 1 .. n /\ i \in 0 .. n /\ i - 1 \in 0 .. n
          BY <2>1, <4>1
        <5> QED BY <2>1, <2>5, <2>7, <5>1
      <4>2. CASE i = n + 1
        <5>1. i - 1 = n /\ n \in 0 .. n
          BY <2>1, <4>2
        <5> QED BY <2>1, <2>7, <4>2, <5>1 DEF m
      <4> QED BY <2>1, <4>1, <4>2
    <3>3. ASSUME NEW i \in 0 .. n + 1, NEW j \in i .. n + 1 PROVE off[i] <= off[j]
      <4>1. CASE j <= n
        <5>1. i \in 0 .. n /\ j \in 0 .. n /\ j \in i .. n
          BY <2>1, <4>1
        <5> QED BY <2>5, <2>7, <5>1
      <4>2. CASE j = n + 1 /\ i = n + 1
        <5>1. off[n + 1] \in Nat
          BY <2>1, <2>7
        <5> QED BY <4>2, <5>1
      <4>3. CASE j = n + 1 /\ i <= n
        <5>1. i \in 0 .. n /\ n \in i .. n /\ n \in 0 .. n
          BY <2>1, <4>3
        <5>2. o[i] <= o[n] /\ off[i] = o[i] /\ o[i] \in Nat /\ o[n] \in Nat
          BY <2>5, <2>7, <5>1
        <5> QED BY <2>1, <2>7, <4>3, <5>2
      <4> QED BY <2>1, <4>1, <4>2, <4>3
    <3> QED BY <2>1, <3>1, <3>2, <3>3 DEF Offsets
  <2>10. Places(u, off)
    <3>1. off[n + 1] = Len(G)
      BY <2>4, <2>6, <2>7
    <3>2. ASSUME NEW i \in 1 .. n + 1, NEW j \in 1 .. Len(u[i])
          PROVE  G[off[i - 1] + j] = u[i][j]
      <4>1. CASE i <= n
        <5>1. i \in 1 .. n /\ i \in 0 .. n /\ i - 1 \in 0 .. n /\ n \in i .. n
          BY <2>1, <4>1
        <5>2. /\ off[i - 1] = o[i - 1] /\ o[i - 1] \in Nat /\ o[i] \in Nat
              /\ o[i] = o[i - 1] + Len(t[i]) /\ o[i] <= Len(F) /\ u[i] = t[i]
          BY <2>1, <2>5, <2>6, <2>7, <5>1
        <5>3. o[i - 1] + j \in 1 .. Len(F) + m /\ o[i - 1] + j <= Len(F)
          <6>1. j \in 1 .. Len(t[i]) /\ Len(t[i]) \in Nat
            BY <2>8, <5>1, <5>2
          <6>2. m \in Nat
            BY <2>1
          <6>3. \A a, b, l, f, k \in Nat :
                   /\ a + l <= f
                   /\ k \in 1 .. l
                   => a + k \in 1 .. f + b /\ a + k <= f
            OBVIOUS
          <6>4. o[i - 1] + Len(t[i]) <= Len(F) /\ j \in Nat
            BY <5>2, <6>1
          <6> QED BY <2>2, <5>2, <6>1, <6>2, <6>3, <6>4
        <5>4. G[o[i - 1] + j] = F[o[i - 1] + j]
          BY <2>4, <5>3
        <5> QED BY <2>6, <5>1, <5>2, <5>4
      <4>2. CASE i = n + 1
        <5>1. i - 1 = n /\ n \in 0 .. n /\ off[n] = Len(F) /\ u[i] = x /\ j \in 1 .. m
          BY <2>1, <2>6, <2>7, <4>2 DEF m
        <5>2. Len(F) + j \in 1 .. Len(F) + m /\ ~(Len(F) + j <= Len(F)) /\ (Len(F) + j) - Len(F) = j
          BY <2>1, <2>2, <5>1
        <5>3. G[Len(F) + j] = x[j]
          BY <2>4, <5>2
        <5> QED BY <5>1, <5>3
      <4> QED BY <2>1, <4>1, <4>2
    <3>3. ASSUME NEW k \in 1 .. Len(G)
          PROVE  \E i \in 1 .. n + 1 : \E j \in 1 .. Len(u[i]) : k = off[i - 1] + j
      <4>1. CASE k <= Len(F)
        <5>1. k \in 1 .. Len(F)
          BY <2>2, <2>4, <4>1
        <5> PICK i \in 1 .. n : \E j \in 1 .. Len(t[i]) : k = o[i - 1] + j
          BY <2>6, <5>1
        <5>2. i \in 1 .. n + 1 /\ i - 1 \in 0 .. n /\ u[i] = t[i]
          BY <2>1
        <5> QED BY <2>7, <5>2
      <4>2. CASE ~(k <= Len(F))
        <5>1. k - Len(F) \in 1 .. m /\ k = Len(F) + (k - Len(F))
          BY <2>1, <2>2, <2>4, <4>2
        <5>2. n + 1 \in 1 .. n + 1 /\ (n + 1) - 1 = n /\ off[n] = Len(F) /\ Len(u[n + 1]) = m
          BY <2>1, <2>6, <2>7 DEF m
        <5> QED BY <5>1, <5>2
      <4> QED BY <4>1, <4>2
    <3>4. Len(u) = n + 1
      BY <2>1
    <3>5. \A i \in 1 .. Len(u) : \A j \in 1 .. Len(u[i]) : G[off[i - 1] + j] = u[i][j]
      BY <3>2, <3>4
    <3>6. \A k \in 1 .. Len(G) :
            \E i \in 1 .. Len(u) : \E j \in 1 .. Len(u[i]) : k = off[i - 1] + j
      BY <3>3, <3>4
    <3>7. off[Len(u)] = Len(G)
      BY <3>1, <3>4
    <3> HIDE DEF T
    <3> QED BY <3>5, <3>6, <3>7 DEF Places, G
  <2> QED BY <2>1, <2>7, <2>9, <2>10 DEF u
<1>3. s \in T
  <2> HIDE DEF T
  <2> QED BY <1>1, <1>2, ByAppending
<1> QED BY <1>3

LEMMA FlattenMembers ==
    ASSUME NEW S, NEW s \in Seq(Seq(S)), NEW x
    PROVE  x \in ToSet(FlattenSeq(s)) <=> \E i \in 1 .. Len(s) : x \in ToSet(s[i])
<1> DEFINE F == FlattenSeq(s)
<1>1. F \in Seq(S) /\ DOMAIN F = 1 .. Len(F) /\ Len(F) \in Nat /\ Len(s) \in Nat
  BY FlattenType, LenProperties
<1>2. ASSUME NEW i \in 1 .. Len(s) PROVE DOMAIN s[i] = 1 .. Len(s[i]) /\ Len(s[i]) \in Nat
  <2>1. s[i] \in Seq(S)
    BY ElementOfSeq
  <2> QED BY <2>1, LenProperties
<1> HIDE DEF F
<1> PICK off \in [0 .. Len(s) -> Nat] : Offsets(s, off) /\ Places(s, off)
  BY FlattenPlaces
<1>3. /\ off[Len(s)] = Len(F)
      /\ \A i \in 1 .. Len(s) : \A j \in 1 .. Len(s[i]) : F[off[i - 1] + j] = s[i][j]
      /\ \A k \in 1 .. Len(F) :
            \E i \in 1 .. Len(s) : \E j \in 1 .. Len(s[i]) : k = off[i - 1] + j
  BY DEF Places, F
<1>4. ASSUME x \in ToSet(F)
      PROVE  \E i \in 1 .. Len(s) : x \in ToSet(s[i])
  <2> PICK k \in 1 .. Len(F) : x = F[k]
    BY <1>1, <1>4 DEF ToSet
  <2> PICK i \in 1 .. Len(s) : \E j \in 1 .. Len(s[i]) : k = off[i - 1] + j
    BY <1>3
  <2> PICK j \in 1 .. Len(s[i]) : k = off[i - 1] + j
    OBVIOUS
  <2>1. x = s[i][j]
    BY <1>3
  <2> QED BY <1>2, <2>1 DEF ToSet
<1>5. ASSUME NEW i \in 1 .. Len(s), x \in ToSet(s[i])
      PROVE  x \in ToSet(F)
  <2> PICK j \in 1 .. Len(s[i]) : x = s[i][j]
    BY <1>2, <1>5 DEF ToSet
  <2>1. x = F[off[i - 1] + j]
    BY <1>3
  <2> DEFINE n == Len(s)
  <2>2. n \in Nat /\ i \in 0 .. n /\ i - 1 \in 0 .. n /\ n \in i .. n
    BY <1>1
  <2>3. off[i] = off[i - 1] + Len(s[i]) /\ off[i] <= off[n]
    BY <2>2 DEF Offsets
  <2>4. off[i - 1] \in Nat /\ off[i] \in Nat
    <3> HIDE DEF n
    <3>1. off \in [0 .. n -> Nat]
      BY DEF n
    <3> QED BY <2>2, <3>1
  <2>5. off[i - 1] + j \in 1 .. Len(F)
    <3>1. Len(s[i]) \in Nat /\ Len(F) \in Nat /\ off[n] = Len(F)
      BY <1>1, <1>2, <1>3
    <3> QED BY <2>3, <2>4, <3>1
  <2> QED BY <1>1, <2>1, <2>5 DEF ToSet
<1> QED BY <1>4, <1>5 DEF F

LEMMA FlatMapMembers ==
    ASSUME NEW A, NEW B, NEW g \in Converters(A, B), NEW s \in Seq(A), NEW b
    PROVE  b \in ToSet(FlatMap(s, g)) <=> \E a \in ToSet(s) : b \in ToSet(g[a])
<1> DEFINE u == [i \in DOMAIN s |-> g[s[i]]]
<1>1. u \in Seq(Seq(B)) /\ Len(u) = Len(s) /\ DOMAIN s = 1 .. Len(s)
  <2>1. u \in Seq(Seq(B))
    BY ImageType DEF Converters
  <2> QED BY <2>1, LenProperties
<1>2. \A i \in 1 .. Len(s) : u[i] = g[s[i]]
  OBVIOUS
<1> HIDE DEF u
<1>3. b \in ToSet(FlattenSeq(u)) <=> \E i \in 1 .. Len(u) : b \in ToSet(u[i])
  BY <1>1, FlattenMembers
<1>4. (\E i \in 1 .. Len(u) : b \in ToSet(u[i])) <=> \E i \in 1 .. Len(s) : b \in ToSet(g[s[i]])
  BY <1>1, <1>2
<1>5. (\E i \in 1 .. Len(s) : b \in ToSet(g[s[i]])) <=> \E a \in ToSet(s) : b \in ToSet(g[a])
  <2>1. ToSet(s) = {s[i] : i \in 1 .. Len(s)}
    BY <1>1 DEF ToSet
  <2> QED BY <2>1
<1> QED BY <1>3, <1>4, <1>5 DEF FlatMap, u

LEMMA FlatMapEqual ==
    ASSUME NEW A, NEW s \in Seq(A), NEW g, NEW h, \A a \in A : g[a] = h[a]
    PROVE  FlatMap(s, g) = FlatMap(s, h)
<1>1. [i \in DOMAIN s |-> g[s[i]]] = [i \in DOMAIN s |-> h[s[i]]]
  OBVIOUS
<1> QED BY <1>1 DEF FlatMap

LEMMA FlatMapNone ==
    ASSUME NEW A, NEW s \in Seq(A), NEW g, \A a \in A : g[a] = <<>>
    PROVE  FlatMap(s, g) = <<>>
<1> DEFINE h == [a \in A |-> <<>>]
           T == {t \in Seq(A) : FlatMap(t, h) = <<>>}
<1>1. h \in Converters(A, {})
  BY EmptySeq DEF Converters
<1>2. <<>> \in T
  BY FlatMapEmpty, EmptySeq
<1>3. ASSUME NEW t \in Seq(A), NEW x \in A, t \in T
      PROVE  Append(t, x) \in T
  <2>1. h[x] = <<>> /\ Append(t, x) \in Seq(A) /\ <<>> \o <<>> = <<>>
    BY AppendProperties, EmptySeq, ConcatEmptySeq
  <2>2. FlatMap(Append(t, x), h) = FlatMap(t, h) \o h[x]
    <3> HIDE DEF h
    <3> QED BY <1>1, FlatMapAppend
  <2> HIDE DEF h
  <2> QED BY <1>3, <2>1, <2>2
<1>4. s \in T
  <2> HIDE DEF T
  <2> QED BY <1>2, <1>3, ByAppending
<1>5. FlatMap(s, g) = FlatMap(s, h)
  <2>1. \A a \in A : g[a] = h[a]
    OBVIOUS
  <2> HIDE DEF h
  <2> QED BY <2>1, FlatMapEqual
<1> QED BY <1>4, <1>5

LEMMA FlatMapIs ==
    ASSUME NEW A, NEW B, NEW g \in Converters(A, B), NEW s \in Seq(A),
           NEW u, DOMAIN u = DOMAIN s, \A i \in DOMAIN s : u[i] = g[s[i]],
           u = [i \in DOMAIN u |-> u[i]]
    PROVE  FlattenSeq(u) = FlatMap(s, g)
<1>1. u = [i \in DOMAIN s |-> g[s[i]]]
  OBVIOUS
<1> QED BY <1>1 DEF FlatMap

LEMMA ToSetConcat ==
    ASSUME NEW S, NEW s \in Seq(S), NEW t \in Seq(S)
    PROVE  ToSet(s \o t) = ToSet(s) \cup ToSet(t)
<1>1. /\ s \o t \in Seq(S) /\ Len(s) \in Nat /\ Len(t) \in Nat
      /\ DOMAIN s = 1 .. Len(s) /\ DOMAIN t = 1 .. Len(t)
      /\ DOMAIN (s \o t) = 1 .. Len(s) + Len(t)
      /\ \A i \in 1 .. Len(s) + Len(t) :
           (s \o t)[i] = IF i <= Len(s) THEN s[i] ELSE t[i - Len(s)]
  BY ConcatProperties, LenProperties
<1>2. ASSUME NEW x \in ToSet(s \o t) PROVE x \in ToSet(s) \cup ToSet(t)
  <2> PICK i \in 1 .. Len(s) + Len(t) : x = (s \o t)[i]
    BY <1>1, <1>2 DEF ToSet
  <2>1. CASE i <= Len(s)
    BY <1>1, <2>1 DEF ToSet
  <2>2. CASE ~(i <= Len(s))
    <3>1. i - Len(s) \in 1 .. Len(t)
      BY <1>1, <2>2
    <3> QED BY <1>1, <2>2, <3>1 DEF ToSet
  <2> QED BY <2>1, <2>2
<1>3. ASSUME NEW x \in ToSet(s) PROVE x \in ToSet(s \o t)
  <2> PICK i \in 1 .. Len(s) : x = s[i]
    BY <1>1 DEF ToSet
  <2>1. i \in 1 .. Len(s) + Len(t) /\ (s \o t)[i] = x
    BY <1>1
  <2> QED BY <1>1, <2>1 DEF ToSet
<1>4. ASSUME NEW x \in ToSet(t) PROVE x \in ToSet(s \o t)
  <2> PICK i \in 1 .. Len(t) : x = t[i]
    BY <1>1 DEF ToSet
  <2>1. Len(s) + i \in 1 .. Len(s) + Len(t) /\ ~(Len(s) + i <= Len(s)) /\ (Len(s) + i) - Len(s) = i
    BY <1>1
  <2>2. (s \o t)[Len(s) + i] = x
    BY <1>1, <2>1
  <2> QED BY <1>1, <2>1, <2>2 DEF ToSet
<1> QED BY <1>2, <1>3, <1>4

LEMMA ToSetSmall == ToSet(<<>>) = {} /\ \A x : ToSet(<<x>>) = {x}
BY DEF ToSet

LEMMA ToSetIs ==
    ASSUME NEW S, NEW s \in Seq(S)
    PROVE  ToSet(s) = {s[i] : i \in 1 .. Len(s)} /\ ToSet(s) \subseteq S
BY LenProperties, ElementOfSeq DEF ToSet

\* Sequences that are put together first are converted one by one.
LEMMA FlattenThrough ==
    ASSUME NEW A, NEW B, NEW s \in Seq(Seq(A)), NEW f \in Converters(A, B),
           NEW t, t = [i \in 1 .. Len(s) |-> t[i]],
           \A i \in 1 .. Len(s) : t[i] = FlatMap(s[i], f)
    PROVE  FlatMap(FlattenSeq(s), f) = FlattenSeq(t)
<1> DEFINE S == Seq(A)
           id == [x \in S |-> x]
           k == [x \in S |-> FlatMap(x, f)]
<1>1. \A x \in S : FlatMap(x, f) \in Seq(B)
  BY FlatMapType
<1>2. id \in Converters(S, A) /\ k \in Converters(S, B) /\ \A x \in S : k[x] = FlatMap(id[x], f)
  BY <1>1 DEF Converters
<1>3. \A x \in S : id[x] = x /\ k[x] = FlatMap(x, f)
  OBVIOUS
<1>4. s \in Seq(S) /\ DOMAIN s = 1 .. Len(s) /\ \A i \in 1 .. Len(s) : s[i] \in S
  BY LenProperties, ElementOfSeq
<1> HIDE DEF id, k, S
<1>5. FlatMap(s, id) = FlattenSeq(s)
  <2>1. [i \in DOMAIN s |-> id[s[i]]] = s
    BY <1>3, <1>4
  <2> QED BY <2>1 DEF FlatMap
<1>6. FlatMap(s, k) = FlattenSeq(t)
  <2>1. [i \in DOMAIN s |-> k[s[i]]] = t
    BY <1>3, <1>4
  <2> QED BY <2>1 DEF FlatMap
<1>7. FlatMap(FlatMap(s, id), f) = FlatMap(s, k)
  BY <1>2, <1>4, FlatMapTwice
<1> QED BY <1>5, <1>6, <1>7
=============================================================================
