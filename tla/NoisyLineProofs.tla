--------------------------- MODULE NoisyLineProofs --------------------------
(***************************************************************************)
(* Proofs about the bytes that llread and llwrite are sent (NoisyLine),    *)
(* for every alphabet, every length of the payload and every number of     *)
(* copies and of acknowledgments.                                          *)
(*                                                                         *)
(*   induction over sequences, by which FlattenSeq and Bcc2 are known      *)
(*   what stuffing, the header and a run of copies look like from the      *)
(*   next byte on; the types of the automaton                              *)
(*   a copy that the automaton is in step with: Transparent                *)
(*   a copy that it reads astray is followed by one in step:               *)
(*   SecondCopyRecognised                                                  *)
(*   the FLAGs that verdicts cost: AnswersBounded                          *)
(*   the acknowledgments, frame by frame: DamageOnlyLoses                  *)
(*   one wrong bit, and what the automaton collects after it:              *)
(*   OnlyACutDeceives                                                      *)
(***************************************************************************)
EXTENDS NoisyLine, SequenceTheorems, FiniteSetTheorems, WellFoundedInduction, TLAPS

(* The induction principle on sets: the library's takes an operator.       *)
LEMMA Induction ==
    ASSUME NEW S, 0 \in S, \A n \in Nat : n \in S => n + 1 \in S
    PROVE  \A n \in Nat : n \in S
<1> DEFINE R == {ss \in Nat \X Nat : ss[1] < ss[2]}
           T == {n \in Nat : n \notin S}
<1>1. IsWellFoundedOn(R, Nat)
  BY NatLessThanWellFounded DEF OpToRel
<1>2. ASSUME T # {} PROVE FALSE
  <2>1. PICK x \in T : \A y \in T : ~ (<<y, x>> \in R)
    <3> HIDE DEF R
    <3> QED BY <1>1, <1>2, WFMin
  <2>2. x \in Nat /\ x # 0 /\ x - 1 \in Nat /\ x - 1 < x /\ (x - 1) + 1 = x
    OBVIOUS
  <2>3. x - 1 \in T
    BY <2>2
  <2>4. <<x - 1, x>> \in R
    BY <2>2
  <2> QED BY <2>1, <2>3, <2>4
<1> QED BY <1>2

LEMMA SeqInduction ==
    ASSUME NEW S, NEW P, << >> \in P,
           \A s \in Seq(S) : \A e \in S : s \in P => Append(s, e) \in P
    PROVE  \A s \in Seq(S) : s \in P
<1> DEFINE T == {n \in Nat : \A s \in Seq(S) : Len(s) = n => s \in P}
<1>1. 0 \in T
  BY EmptySeq, \A s \in Seq(S) : s # << >> => Len(s) # 0
<1>2. ASSUME NEW n \in Nat, n \in T
      PROVE  n + 1 \in T
  <2> SUFFICES ASSUME NEW s \in Seq(S), Len(s) = n + 1
               PROVE  s \in P
    OBVIOUS
  <2>1. s # << >>
    BY EmptySeq
  <2>2. PICK t \in Seq(S), e \in S : s = Append(t, e)
    BY <2>1, SequenceEmptyOrAppend
  <2>3. Len(t) = n
    BY <2>2, AppendProperties, LenProperties
  <2> QED BY <1>2, <2>2, <2>3
<1>3. \A n \in Nat : n \in T
  <2> HIDE DEF T
  <2> QED BY <1>1, <1>2, Induction
<1> QED BY <1>3, LenProperties

(* f[i] joins the first i elements of s. *)
Joins(f, s, U) == /\ f \in [1..Len(s) -> Seq(U)]
                  /\ \A i \in 1..Len(s) : f[i] = IF i = 1 THEN s[i] ELSE f[i - 1] \o s[i]

(* g joins what f joins, and e behind it. *)
JoinsOneMore(g, f, s, e, U) == /\ Joins(g, Append(s, e), U)
                               /\ s = << >> => g[1] = e
                               /\ s # << >> => g[Len(s) + 1] = f[Len(s)] \o e

LEMMA JoinsExtends ==
    ASSUME NEW U, NEW s \in Seq(Seq(U)), NEW e \in Seq(U), NEW f, Joins(f, s, U)
    PROVE  \E g : JoinsOneMore(g, f, s, e, U)
<1> DEFINE n == Len(s)
           g == [i \in 1..n + 1 |-> IF i <= n THEN f[i] ELSE IF n = 0 THEN e ELSE f[n] \o e]
<1>1. n \in Nat /\ \A i \in 1..n : s[i] \in Seq(U) /\ f[i] \in Seq(U)
  BY LenProperties DEF Joins
<1>2. /\ Append(s, e) \in Seq(Seq(U)) /\ Len(Append(s, e)) = n + 1 /\ Append(s, e)[n + 1] = e
      /\ \A i \in 1..n : Append(s, e)[i] = s[i]
  BY AppendProperties
<1>3. n # 0 => f[n] \o e \in Seq(U)
  BY <1>1, ConcatProperties
<1>4. g \in [1..n + 1 -> Seq(U)]
  BY <1>1, <1>3
<1>5. ASSUME NEW i \in 1..n + 1
      PROVE  g[i] = IF i = 1 THEN Append(s, e)[i] ELSE g[i - 1] \o Append(s, e)[i]
  <2>1. CASE i <= n
    <3>1. g[i] = f[i] /\ i \in 1..n /\ Append(s, e)[i] = s[i]
      BY <1>1, <1>2, <2>1
    <3>2. i # 1 => g[i - 1] = f[i - 1]
      BY <1>1, <2>1
    <3> QED BY <3>1, <3>2 DEF Joins
  <2>2. CASE i = n + 1
    <3>1. Append(s, e)[i] = e /\ g[i] = IF n = 0 THEN e ELSE f[n] \o e
      BY <1>1, <1>2, <2>2
    <3>2. n # 0 => g[i - 1] = f[n] /\ i # 1
      BY <1>1, <2>2
    <3>3. n = 0 => i = 1
      BY <2>2
    <3> QED BY <3>1, <3>2, <3>3
  <2> QED BY <1>1, <2>1, <2>2
<1>6. /\ s = << >> => g[1] = e
      /\ s # << >> => g[n + 1] = f[n] \o e
  BY <1>1, EmptySeq
<1>7. Joins(g, Append(s, e), U)
  BY <1>2, <1>4, <1>5 DEF Joins
<1>8. JoinsOneMore(g, f, s, e, U)
  <2> HIDE DEF g
  <2> QED BY <1>6, <1>7 DEF JoinsOneMore
<1> QED BY <1>8, Zenon

LEMMA FlattenJoins ==
    ASSUME NEW U, NEW s \in Seq(Seq(U)), s # << >>, NEW f, Joins(f, s, U)
    PROVE  FlattenSeq(s) = f[Len(s)]
<1> DEFINE Flat(g) == g = [i \in 1..Len(s) |-> IF i = 1 THEN s[i] ELSE g[i - 1] \o s[i]]
           h == CHOOSE g : Flat(g)
<1>1. Len(s) \in Nat /\ Len(s) # 0 /\ Len(s) \in 1..Len(s)
  BY EmptySeq, LenProperties
<1>2. Flat(f)
  BY DEF Joins
<1>3. Flat(h)
  <2> HIDE DEF Flat
  <2> QED BY <1>2, Zenon
<1>4. FlattenSeq(s) = h[Len(s)]
  BY <1>1 DEF FlattenSeq
<1> HIDE DEF h
<1>5. \A i \in 1..Len(s) : h[i] = f[i]
  <2> DEFINE S == {i \in Nat : i \in 1..Len(s) => h[i] = f[i]}
  <2>1. 0 \in S
    OBVIOUS
  <2>2. ASSUME NEW i \in Nat, i \in S
        PROVE  i + 1 \in S
    <3>1. ASSUME i + 1 \in 1..Len(s)
          PROVE  h[i + 1] = f[i + 1]
      <4>1. CASE i = 0
        BY <1>2, <1>3, <3>1, <4>1
      <4>2. CASE i # 0
        <5>1. i \in 1..Len(s) /\ (i + 1) - 1 = i /\ i + 1 # 1
          BY <1>1, <3>1, <4>2
        <5>2. h[i + 1] = h[i] \o s[i + 1]
          BY <1>3, <3>1, <5>1
        <5>3. f[i + 1] = f[i] \o s[i + 1]
          BY <1>2, <3>1, <5>1
        <5> QED BY <2>2, <5>1, <5>2, <5>3
      <4> QED BY <4>1, <4>2
    <3> QED BY <3>1
  <2>3. \A i \in Nat : i \in S
    <3> HIDE DEF S
    <3> QED BY <2>1, <2>2, Induction
  <2> QED BY <1>1, <2>3
<1> QED BY <1>1, <1>4, <1>5

LEMMA JoinsExist ==
    ASSUME NEW U
    PROVE  \A s \in Seq(Seq(U)) : \E f : Joins(f, s, U)
<1> DEFINE P == {s \in Seq(Seq(U)) : \E f : Joins(f, s, U)}
<1>1. << >> \in P
  <2>1. Joins([i \in 1..0 |-> << >>], << >>, U)
    BY EmptySeq DEF Joins
  <2> QED BY <2>1, EmptySeq
<1>2. ASSUME NEW s \in Seq(Seq(U)), NEW e \in Seq(U), s \in P
      PROVE  Append(s, e) \in P
  BY <1>2, JoinsExtends, AppendProperties DEF JoinsOneMore
<1> HIDE DEF P
<1>3. \A s \in Seq(Seq(U)) : s \in P
  BY <1>1, <1>2, SeqInduction
<1> QED BY <1>3 DEF P

LEMMA Associative == \A U : \A x, y, z \in Seq(U) : (x \o y) \o z = x \o (y \o z)
BY ConcatAssociative

LEMMA BytesAssociative == \A x, y, z \in Seq(Byte) : (x \o y) \o z = x \o (y \o z)
BY Associative

(* What FlattenSeq does when an element is added at the end. *)
LEMMA FlattenAppend ==
    ASSUME NEW U, NEW s \in Seq(Seq(U)), NEW e \in Seq(U)
    PROVE  /\ FlattenSeq(Append(s, e)) = FlattenSeq(s) \o e
           /\ FlattenSeq(Append(s, e)) \in Seq(U)
<1>1. PICK f : Joins(f, s, U)
  BY JoinsExist
<1>2. PICK g : JoinsOneMore(g, f, s, e, U)
  BY <1>1, JoinsExtends
<1>3. /\ Append(s, e) \in Seq(Seq(U)) /\ Append(s, e) # << >>
      /\ Len(Append(s, e)) = Len(s) + 1 /\ Len(s) \in Nat
  BY AppendProperties, LenProperties
<1>4. FlattenSeq(Append(s, e)) = g[Len(s) + 1] /\ g[Len(s) + 1] \in Seq(U)
  <2>1. Len(s) + 1 \in 1..Len(s) + 1
    BY <1>3
  <2> QED BY <1>2, <1>3, <2>1, FlattenJoins DEF Joins, JoinsOneMore
<1>5. CASE s = << >>
  <2>1. FlattenSeq(s) = << >> /\ Len(s) + 1 = 1
    BY <1>5, EmptySeq DEF FlattenSeq
  <2> QED BY <1>2, <1>4, <1>5, <2>1, ConcatEmptySeq DEF JoinsOneMore
<1>6. CASE s # << >>
  BY <1>1, <1>2, <1>4, <1>6, FlattenJoins DEF JoinsOneMore
<1> QED BY <1>5, <1>6

LEMMA FlattenIsSeq ==
    ASSUME NEW U, NEW s \in Seq(Seq(U))
    PROVE  FlattenSeq(s) \in Seq(U)
<1>1. CASE s = << >>
  BY <1>1, EmptySeq DEF FlattenSeq
<1>2. CASE s # << >>
  <2>1. PICK t \in Seq(Seq(U)), e \in Seq(U) : s = Append(t, e)
    BY <1>2, SequenceEmptyOrAppend
  <2> QED BY <2>1, FlattenAppend
<1> QED BY <1>1, <1>2

(* ... and the other way round. *)
LEMMA FlattenFirst ==
    ASSUME NEW U, NEW r \in Seq(Seq(U)), r # << >>
    PROVE  FlattenSeq(r) = Head(r) \o FlattenSeq(Tail(r))
<1>0. \A a, b, c \in Seq(U) : (a \o b) \o c = a \o (b \o c)
  BY ONLY Associative
<1> DEFINE P == {s \in Seq(Seq(U)) : s # << >> => FlattenSeq(s) = Head(s) \o FlattenSeq(Tail(s))}
<1>1. << >> \in P
  BY EmptySeq
<1>2. ASSUME NEW s \in Seq(Seq(U)), NEW e \in Seq(U), s \in P
      PROVE  Append(s, e) \in P
  <2>1. /\ Append(s, e) \in Seq(Seq(U)) /\ FlattenSeq(Append(s, e)) = FlattenSeq(s) \o e
        /\ Head(Append(s, e)) = IF s = <<>> THEN e ELSE Head(s)
        /\ Tail(Append(s, e)) = IF s = <<>> THEN <<>> ELSE Append(Tail(s), e)
    BY AppendProperties, FlattenAppend, HeadTailAppend
  <2>2. CASE s = << >>
    <3>1. FlattenSeq(s) = << >>
      BY <2>2, EmptySeq DEF FlattenSeq
    <3> QED BY <2>1, <2>2, <3>1, ConcatEmptySeq
  <2>3. CASE s # << >>
    <3>1. Head(s) \in Seq(U) /\ Tail(s) \in Seq(Seq(U))
      BY <2>3, HeadTailProperties
    <3>2. FlattenSeq(Tail(s)) \in Seq(U) /\ FlattenSeq(Append(Tail(s), e)) = FlattenSeq(Tail(s)) \o e
      BY <3>1, FlattenAppend, FlattenIsSeq
    <3>3. FlattenSeq(s) \o e = Head(s) \o (FlattenSeq(Tail(s)) \o e)
      <4>1. FlattenSeq(s) = Head(s) \o FlattenSeq(Tail(s))
        BY <1>2, <2>3
      <4>2. (Head(s) \o FlattenSeq(Tail(s))) \o e = Head(s) \o (FlattenSeq(Tail(s)) \o e)
        BY <1>0, <3>1, <3>2, Zenon
      <4> QED BY <4>1, <4>2, Zenon
    <3> QED BY <2>1, <2>3, <3>2, <3>3
  <2> QED BY <2>2, <2>3
<1> HIDE DEF P
<1>3. \A s \in Seq(Seq(U)) : s \in P
  BY <1>1, <1>2, SeqInduction
<1> QED BY <1>3 DEF P

(* The exclusive or of bytes is a byte, in whatever order it is taken.     *)
LEMMA XorOfBytes ==
    ASSUME NEW a \in Byte, NEW b \in Byte
    PROVE  Xor(a, b) \in Byte
BY DEF Xor, Byte

(* f combines the bytes of data at any places p, in the order in which     *)
(* CHOOSE takes them.                                                      *)
Folds(f, data) ==
    /\ f \in [SUBSET (1..Len(data)) -> Byte]
    /\ \A p \in SUBSET (1..Len(data)) :
         f[p] = IF p = {} THEN {} ELSE Xor(data[CHOOSE x \in p : TRUE], f[p \ {CHOOSE x \in p : TRUE}])

LEMMA PlacesAreFinite ==
    ASSUME NEW l \in Nat, NEW p \in SUBSET (1..l)
    PROVE  /\ IsFiniteSet(p) /\ Cardinality(p) \in Nat /\ Cardinality(p) <= l
           /\ Cardinality(p) = 0 <=> p = {}
           /\ \A x \in p : p \ {x} \in SUBSET (1..l) /\ Cardinality(p \ {x}) = Cardinality(p) - 1
<1>1. IsFiniteSet(1..l) /\ Cardinality(1..l) = l
  <2>1. 1 \in Int /\ l \in Int
    OBVIOUS
  <2>2. IsFiniteSet(1..l) /\ Cardinality(1..l) = IF 1 > l THEN 0 ELSE l - 1 + 1
    BY <2>1, FS_Interval
  <2>3. (IF 1 > l THEN 0 ELSE l - 1 + 1) = l
    OBVIOUS
  <2> QED BY <2>2, <2>3
<1>2. IsFiniteSet(p) /\ Cardinality(p) <= l
  BY <1>1, FS_Subset
<1>3. Cardinality(p) \in Nat /\ (Cardinality(p) = 0 <=> p = {})
  BY <1>2, FS_CardinalityType, FS_EmptySet
<1>4. ASSUME NEW x \in p
      PROVE  p \ {x} \in SUBSET (1..l) /\ Cardinality(p \ {x}) = Cardinality(p) - 1
  BY <1>2, FS_RemoveElement
<1> QED BY <1>2, <1>3, <1>4

LEMMA Bcc2Folds ==
    ASSUME NEW data \in Seq(Byte)
    PROVE  \E f : Folds(f, data) /\ Bcc2(data) = f[1..Len(data)]
<1> DEFINE D == DOMAIN data
           any(s) == CHOOSE x \in s : TRUE
           OneLess(h) == [s \in SUBSET D |-> IF s = {} THEN {} ELSE Xor(data[any(s)], h[s \ {any(s)}])]
           iter == CHOOSE h : h = OneLess(h)
           Size(s) == Cardinality(s)
<1>1. Bcc2(data) = iter[D]
  BY DEF Bcc2, FoldSeq, FoldFunction, FoldFunctionOnSet, MapThenFoldSet
<1>2. /\ D = 1..Len(data) /\ Len(data) \in Nat
      /\ \A s \in SUBSET D : /\ Size(s) \in Nat /\ Size(s) <= Len(data)
                             /\ Size(s) = 0 <=> s = {}
                             /\ s # {} => /\ any(s) \in D /\ data[any(s)] \in Byte
                                          /\ s \ {any(s)} \in SUBSET D
                                          /\ Size(s \ {any(s)}) = Size(s) - 1
  <2>1. D = 1..Len(data) /\ Len(data) \in Nat
    BY LenProperties
  <2>2. ASSUME NEW s \in SUBSET D
        PROVE  /\ Size(s) \in Nat /\ Size(s) <= Len(data)
               /\ Size(s) = 0 <=> s = {}
               /\ \A x \in s : s \ {x} \in SUBSET D /\ Size(s \ {x}) = Size(s) - 1
    <3> HIDE DEF D
    <3> QED BY <2>1, PlacesAreFinite
  <2>3. ASSUME NEW s \in SUBSET D, s # {}
        PROVE  any(s) \in s /\ any(s) \in D /\ data[any(s)] \in Byte
    <3>1. any(s) \in s
      BY <2>3
    <3> HIDE DEF any
    <3> QED BY <2>1, <3>1, ElementOfSeq
  <2> HIDE DEF any, D, Size
  <2> QED BY <2>1, <2>2, <2>3
<1> HIDE DEF any, D, Size
<1>3. \A n \in Nat : \E h \in [SUBSET D -> Byte] :
          \A s \in SUBSET D : Size(s) <= n => h[s] = OneLess(h)[s]
  <2> DEFINE T == {n \in Nat : \E h \in [SUBSET D -> Byte] :
                       \A s \in SUBSET D : Size(s) <= n => h[s] = OneLess(h)[s]}
  <2>1. 0 \in T
    <3>1. [s \in SUBSET D |-> {}] \in [SUBSET D -> Byte]
      BY DEF Byte
    <3>2. ASSUME NEW s \in SUBSET D, Size(s) <= 0
          PROVE  [r \in SUBSET D |-> {}][s] = OneLess([r \in SUBSET D |-> {}])[s]
      <4>1. s = {}
        <5>1. Size(s) \in Nat /\ (Size(s) = 0 <=> s = {})
          BY <1>2
        <5> QED BY <3>2, <5>1
      <4> QED BY <4>1
    <3> QED BY <3>1, <3>2
  <2>2. ASSUME NEW n \in Nat, n \in T
        PROVE  n + 1 \in T
    <3>1. PICK h \in [SUBSET D -> Byte] :
              \A s \in SUBSET D : Size(s) <= n => h[s] = OneLess(h)[s]
      BY <2>2
    <3>2. OneLess(h) \in [SUBSET D -> Byte]
      BY <1>2, XorOfBytes DEF Byte
    <3>3. ASSUME NEW s \in SUBSET D, Size(s) <= n + 1
          PROVE  OneLess(h)[s] = OneLess(OneLess(h))[s]
      <4>1. CASE s = {}
        BY <4>1
      <4>2. CASE s # {}
        <5>1. s \ {any(s)} \in SUBSET D /\ Size(s \ {any(s)}) <= n
          <6>1. /\ s \ {any(s)} \in SUBSET D /\ Size(s \ {any(s)}) = Size(s) - 1
                /\ Size(s) \in Nat
            BY <1>2, <4>2
          <6> QED BY <3>3, <6>1
        <5>2. h[s \ {any(s)}] = OneLess(h)[s \ {any(s)}]
          BY <3>1, <5>1
        <5> QED BY <4>2, <5>2
      <4> QED BY <4>1, <4>2
    <3> HIDE DEF OneLess
    <3> QED BY <3>2, <3>3
  <2> HIDE DEF T
  <2>3. \A n \in Nat : n \in T
    BY <2>1, <2>2, Induction
  <2> QED BY <2>3 DEF T
<1>4. \E h : h = OneLess(h)
  <2>1. PICK h \in [SUBSET D -> Byte] :
            \A s \in SUBSET D : Size(s) <= Len(data) => h[s] = OneLess(h)[s]
    BY <1>2, <1>3
  <2>2. \A s \in SUBSET D : Size(s) <= Len(data)
    BY <1>2
  <2>3. OneLess(h) = h
    BY <2>1, <2>2
  <2> QED BY <2>3
<1>5. iter = OneLess(iter)
  <2> HIDE DEF OneLess
  <2> QED BY <1>4
<1> HIDE DEF iter
<1>6. \A n \in Nat : \A s \in SUBSET D : Size(s) = n => iter[s] \in Byte
  <2> DEFINE T == {n \in Nat : \A s \in SUBSET D : Size(s) = n => iter[s] \in Byte}
  <2>1. 0 \in T
    BY <1>2, <1>5 DEF Byte
  <2>2. ASSUME NEW n \in Nat, n \in T
        PROVE  n + 1 \in T
    <3> SUFFICES ASSUME NEW s \in SUBSET D, Size(s) = n + 1
                 PROVE  iter[s] \in Byte
      OBVIOUS
    <3>1. /\ s # {} /\ data[any(s)] \in Byte
          /\ s \ {any(s)} \in SUBSET D /\ Size(s \ {any(s)}) = n
      <4>1. s # {}
        <5>1. Size(s) = 0 <=> s = {}
          BY <1>2
        <5>2. Size(s) # 0
          OBVIOUS
        <5> QED BY <5>1, <5>2
      <4>2. Size(s \ {any(s)}) = Size(s) - 1
        BY <1>2, <4>1
      <4> QED BY <1>2, <4>1, <4>2
    <3>2. iter[s \ {any(s)}] \in Byte
      BY <2>2, <3>1
    <3>3. iter[s] = Xor(data[any(s)], iter[s \ {any(s)}])
      BY <1>5, <3>1
    <3> QED BY <3>1, <3>2, <3>3, XorOfBytes
  <2> HIDE DEF T
  <2>3. \A n \in Nat : n \in T
    BY <2>1, <2>2, Induction
  <2> QED BY <2>3 DEF T
<1>7. Folds(iter, data)
  <2>1. iter \in [SUBSET D -> Byte]
    <3>1. \A s \in SUBSET D : iter[s] \in Byte
      BY <1>2, <1>6
    <3> HIDE DEF iter
    <3> QED BY <1>5, <3>1
  <2>2. ASSUME NEW s \in SUBSET D
        PROVE  iter[s] = IF s = {} THEN {} ELSE Xor(data[any(s)], iter[s \ {any(s)}])
    BY <1>5
  <2> HIDE DEF iter, OneLess
  <2> QED BY <1>2, <2>1, <2>2 DEF Folds, any
<1> HIDE DEF iter, OneLess
<1> QED BY <1>1, <1>2, <1>7

LEMMA Bcc2IsAByte ==
    ASSUME NEW data \in Seq(Byte)
    PROVE  Bcc2(data) \in Byte
<1>1. PICK f : Folds(f, data) /\ Bcc2(data) = f[1..Len(data)]
  BY Bcc2Folds
<1> QED BY <1>1 DEF Folds

(* The exclusive or commutes, so the order does not matter.                *)
LEMMA XorLaws ==
    ASSUME NEW a, NEW b, NEW c
    PROVE  /\ Xor(a, b) = Xor(b, a) /\ Xor(Xor(a, b), c) = Xor(a, Xor(b, c))
           /\ Xor(a, {}) = a /\ Xor(a, a) = {} /\ Xor(a, b) = {} => a = b
<1>1. Xor(a, b) = Xor(b, a) /\ Xor(a, {}) = a /\ Xor(a, a) = {}
  BY DEF Xor
<1>2. Xor(Xor(a, b), c) = Xor(a, Xor(b, c))
  BY DEF Xor
<1>3. Xor(a, b) = {} => a = b
  BY DEF Xor
<1> QED BY <1>1, <1>2, <1>3

AnyLast(f, data) ==
    \A p \in SUBSET (1..Len(data)) : \A y \in p : f[p] = Xor(data[y], f[p \ {y}])

LEMMA AnyOrder ==
    ASSUME NEW data \in Seq(Byte), NEW f, Folds(f, data)
    PROVE  AnyLast(f, data)
<1> DEFINE Subsets == SUBSET (1..Len(data))
           OfSize(n) == \A p \in Subsets : Cardinality(p) = n =>
                          \A y \in p : f[p] = Xor(data[y], f[p \ {y}])
           T == {n \in Nat : OfSize(n)}
<1>1. Len(data) \in Nat
  BY LenProperties
<1>2. 0 \in T
  BY <1>1, PlacesAreFinite
<1>3. ASSUME NEW n \in Nat, n \in T
      PROVE  n + 1 \in T
  <2> SUFFICES OfSize(n + 1)
    <3> HIDE DEF OfSize
    <3> QED OBVIOUS
  <2> SUFFICES ASSUME NEW p \in Subsets, Cardinality(p) = n + 1, NEW y \in p
               PROVE  f[p] = Xor(data[y], f[p \ {y}])
    BY Zenon
  <2>1. PICK x \in p : f[p] = Xor(data[x], f[p \ {x}])
    <3>1. PICK x : x = CHOOSE z \in p : TRUE
      OBVIOUS
    <3>2. x \in p
      BY <3>1
    <3> QED BY <3>1, <3>2 DEF Folds
  <2>2. CASE x = y
    BY <2>1, <2>2
  <2>3. CASE x # y
    <3>1. /\ p \ {x} \in Subsets /\ p \ {y} \in Subsets
          /\ Cardinality(p \ {x}) = n /\ Cardinality(p \ {y}) = n
      <4>1. /\ p \ {x} \in Subsets /\ p \ {y} \in Subsets
            /\ Cardinality(p \ {x}) = (n + 1) - 1 /\ Cardinality(p \ {y}) = (n + 1) - 1
        BY <1>1, PlacesAreFinite
      <4> QED BY <4>1
    <3>2. f[p \ {x}] = Xor(data[y], f[(p \ {x}) \ {y}])
      BY <1>3, <2>3, <3>1
    <3>3. f[p \ {y}] = Xor(data[x], f[(p \ {y}) \ {x}])
      BY <1>3, <2>3, <3>1
    <3>4. (p \ {x}) \ {y} = (p \ {y}) \ {x}
      OBVIOUS
    <3> DEFINE rest == f[(p \ {y}) \ {x}]
    <3>5. /\ Xor(data[x], Xor(data[y], rest)) = Xor(Xor(data[x], data[y]), rest)
          /\ Xor(data[y], Xor(data[x], rest)) = Xor(Xor(data[y], data[x]), rest)
          /\ Xor(data[x], data[y]) = Xor(data[y], data[x])
      <4> HIDE DEF rest
      <4> QED BY XorLaws
    <3> QED BY <2>1, <3>2, <3>3, <3>4, <3>5
  <2> QED BY <2>2, <2>3
<1>4. \A n \in Nat : n \in T
  <2> HIDE DEF T
  <2> QED BY <1>2, <1>3, Induction
<1>5. \A p \in Subsets : Cardinality(p) \in Nat
  BY <1>1, PlacesAreFinite
<1> QED BY <1>4, <1>5 DEF AnyLast

LEMMA FoldsAgree ==
    ASSUME NEW data \in Seq(Byte), NEW more \in Seq(Byte), Len(data) <= Len(more),
           \A i \in 1..Len(data) : more[i] = data[i],
           NEW f, Folds(f, data), NEW g, Folds(g, more)
    PROVE  \A p \in SUBSET (1..Len(data)) : f[p] = g[p]
<1> DEFINE Subsets == SUBSET (1..Len(data))
           T == {n \in Nat : \A p \in Subsets : Cardinality(p) = n => f[p] = g[p]}
<1>1. Len(data) \in Nat /\ Len(more) \in Nat
  BY LenProperties
<1>2. \A p \in Subsets : p \in SUBSET (1..Len(more))
  BY <1>1
<1>3. 0 \in T
  <2>1. f[{}] = {} /\ g[{}] = {}
    BY DEF Folds
  <2>2. \A p \in Subsets : Cardinality(p) = 0 => p = {}
    BY <1>1, PlacesAreFinite
  <2> QED BY <2>1, <2>2
<1>4. ASSUME NEW n \in Nat, n \in T
      PROVE  n + 1 \in T
  <2> SUFFICES ASSUME NEW p \in Subsets, Cardinality(p) = n + 1
               PROVE  f[p] = g[p]
    OBVIOUS
  <2>1. p # {}
    <3>1. Cardinality(p) # 0
      OBVIOUS
    <3> QED BY <1>1, <3>1, PlacesAreFinite
  <2>2. PICK y : y \in p
    BY <2>1
  <2>3. p \ {y} \in Subsets /\ Cardinality(p \ {y}) = n
    <3>1. p \ {y} \in Subsets /\ Cardinality(p \ {y}) = (n + 1) - 1
      BY <1>1, <2>2, PlacesAreFinite
    <3> QED BY <3>1
  <2>4. f[p \ {y}] = g[p \ {y}]
    BY <1>4, <2>3
  <2>5. f[p] = Xor(data[y], f[p \ {y}])
    <3>1. AnyLast(f, data)
      BY AnyOrder
    <3> QED BY <2>2, <3>1 DEF AnyLast
  <2>6. g[p] = Xor(more[y], g[p \ {y}])
    <3>1. p \in SUBSET (1..Len(more))
      BY <1>2
    <3>2. AnyLast(g, more)
      BY AnyOrder
    <3> QED BY <2>2, <3>1, <3>2 DEF AnyLast
  <2>7. more[y] = data[y]
    BY <1>1, <2>2
  <2> QED BY <2>4, <2>5, <2>6, <2>7
<1>5. \A n \in Nat : n \in T
  <2> HIDE DEF T
  <2> QED BY <1>3, <1>4, Induction
<1>6. \A p \in Subsets : Cardinality(p) \in Nat
  BY <1>1, PlacesAreFinite
<1> QED BY <1>5, <1>6

(* BCC2 of one byte more.                                                  *)
LEMMA Bcc2Append ==
    ASSUME NEW data \in Seq(Byte), NEW e \in Byte
    PROVE  Bcc2(Append(data, e)) = Xor(Bcc2(data), e)
<1> DEFINE n == Len(data)
<1>1. /\ n \in Nat /\ Append(data, e) \in Seq(Byte) /\ Len(Append(data, e)) = n + 1
      /\ Append(data, e)[n + 1] = e
  BY AppendProperties, LenProperties
<1>2. PICK f : Folds(f, data) /\ Bcc2(data) = f[1..n]
  BY Bcc2Folds
<1>3. PICK g : Folds(g, Append(data, e)) /\ Bcc2(Append(data, e)) = g[1..(n + 1)]
  BY <1>1, Bcc2Folds
<1>4. (1..(n + 1)) \ {n + 1} = 1..n /\ n + 1 \in 1..(n + 1) /\ 1..(n + 1) \in SUBSET (1..(n + 1))
  BY <1>1
<1>5. PICK more \in Seq(Byte) : more = Append(data, e)
  BY <1>1
<1>6. /\ more \in Seq(Byte) /\ Folds(g, more) /\ 1..(n + 1) \in SUBSET (1..Len(more))
      /\ more[n + 1] = e /\ n <= Len(more) /\ \A i \in 1..n : more[i] = data[i]
  <2>1. \A i \in 1..n : Append(data, e)[i] = data[i]
    BY AppendProperties
  <2> QED BY <1>1, <1>3, <1>4, <1>5, <2>1
<1>7. g[1..(n + 1)] = Xor(e, g[1..n])
  <2>1. AnyLast(g, more)
    BY <1>6, AnyOrder
  <2>2. g[1..(n + 1)] = Xor(more[n + 1], g[(1..(n + 1)) \ {n + 1}])
    BY <1>4, <1>6, <2>1 DEF AnyLast
  <2> QED BY <1>4, <1>6, <2>2
<1>8. f[1..n] = g[1..n]
  BY <1>2, <1>6, FoldsAgree
<1> QED BY <1>2, <1>3, <1>7, <1>8, XorLaws

LEMMA Bcc2OfNothing == Bcc2(<< >>) = {}
<1>1. << >> \in Seq(Byte) /\ Len(<< >>) = 0 /\ 1..0 = {}
  OBVIOUS
<1>2. PICK f : Folds(f, << >>) /\ Bcc2(<< >>) = f[1..Len(<< >>)]
  BY <1>1, Bcc2Folds
<1> QED BY <1>1, <1>2 DEF Folds

(***************************************************************************)
(* The bytes of a frame.                                                   *)
(***************************************************************************)
NotFlag == Byte \ {FLAG}

LEMMA ControlBytes ==
    /\ FLAG \in Byte /\ ESC \in Byte /\ FLAG # ESC
    /\ A_fromT \in Byte \ {FLAG, ESC} /\ A_fromR \in Byte
    /\ \A c \in {{}, {0}} : /\ c \in Byte \ {FLAG, ESC} /\ Xor(A_fromT, c) \in Byte \ {FLAG, ESC}
                            /\ AckCtrl(c) \in Byte /\ Xor(A_fromR, AckCtrl(c)) \in Byte
    /\ A_fromT # Xor(A_fromT, FLAG)
<1>1. /\ FLAG \in Byte /\ ESC \in Byte /\ FLAG # ESC
      /\ A_fromT \in Byte \ {FLAG, ESC} /\ A_fromR \in Byte
  BY DEF Byte, FLAG, ESC, A_fromT, A_fromR
<1>2. ASSUME NEW c \in {{}, {0}}
      PROVE  /\ c \in Byte \ {FLAG, ESC} /\ Xor(A_fromT, c) \in Byte \ {FLAG, ESC}
             /\ AckCtrl(c) \in Byte /\ Xor(A_fromR, AckCtrl(c)) \in Byte
  <2>1. c \in Byte /\ 5 \notin c /\ C_UA \in Byte
    BY DEF Byte, C_UA
  <2>2. c \notin {FLAG, ESC} /\ Xor(A_fromT, c) \notin {FLAG, ESC}
    BY <2>1 DEF FLAG, ESC, A_fromT, Xor
  <2> QED BY <1>1, <2>1, <2>2, XorOfBytes DEF AckCtrl
<1>3. A_fromT # Xor(A_fromT, FLAG)
  BY DEF A_fromT, FLAG, Xor
<1> QED BY <1>1, <1>2, <1>3

(* Stuffing leaves no FLAG, and llread undoes it.                          *)
LEMMA StuffedByte ==
    ASSUME NEW b \in Byte
    PROVE  /\ Stuffed(b) \in Seq(NotFlag)
           /\ b \notin {FLAG, ESC} => Stuffed(b) = <<b>>
           /\ b \in {FLAG, ESC} => /\ Stuffed(b) = <<ESC, Xor(b, {5})>>
                                   /\ Xor(b, {5}) \in Byte \ {FLAG, ESC}
                                   /\ Xor(Xor(b, {5}), {5}) = b
<1>1. ASSUME b \in {FLAG, ESC}
      PROVE  Xor(b, {5}) \in Byte \ {FLAG, ESC} /\ Xor(Xor(b, {5}), {5}) = b
  <2>1. Xor(b, {5}) \in Byte
    BY XorOfBytes DEF Byte
  <2>2. 5 \in b /\ 5 \notin Xor(b, {5})
    BY <1>1 DEF FLAG, ESC, Xor
  <2>3. Xor(Xor(b, {5}), {5}) = b
    BY DEF Xor
  <2> QED BY <2>1, <2>2, <2>3 DEF FLAG, ESC
<1>2. Stuffed(b) \in Seq(NotFlag)
  <2>1. CASE b \in {FLAG, ESC}
    <3>1. Stuffed(b) = <<ESC, Xor(b, {5})>> /\ ESC \in NotFlag /\ Xor(b, {5}) \in NotFlag
      BY <1>1, <2>1, ControlBytes DEF Stuffed, NotFlag
    <3> QED BY <3>1
  <2>2. CASE b \notin {FLAG, ESC}
    <3>1. Stuffed(b) = <<b>> /\ b \in NotFlag
      BY <2>2 DEF Stuffed, NotFlag
    <3> QED BY <3>1
  <2> QED BY <2>1, <2>2
<1> QED BY <1>1, <1>2 DEF Stuffed

(***************************************************************************)
(* What is left of a frame while it is read.                               *)
(***************************************************************************)
Sendable == [ctrl : {{}, {0}}, data : Payloads]

FrameOf(s)     == IFrame(s.ctrl, s.data)
Bcc1(s)        == Xor(A_fromT, s.ctrl)
Body(s)        == Append(s.data, Bcc2(s.data))
StuffedFrom(s, n) == FlattenSeq([i \in 1..Len(Body(s)) - n |-> Stuffed(Body(s)[n + i])])
Whole(s, k)    == FlattenSeq([i \in 1..k |-> FrameOf(s)])
Rest(s, n, w)  == StuffedFrom(s, n) \o Cons(FLAG, w)

LEMMA PayloadIsSeq ==
    ASSUME NEW s \in Sendable
    PROVE  /\ s.ctrl \in {{}, {0}} /\ s.data \in Seq(Byte) /\ Len(s.data) \in Nat \ {0}
           /\ Body(s) \in Seq(Byte) /\ Len(Body(s)) = Len(s.data) + 1
<1>1. PICK n \in 1..MaxPayload : s.data \in [1..n -> Alphabet]
  BY DEF Sendable, Payloads
<1>2. n \in Nat \ {0} /\ s.data \in [1..n -> Byte]
  BY <1>1, NoisyAssumption
<1>3. s.data \in Seq(Byte) /\ Len(s.data) = n
  BY <1>2
<1> QED BY <1>2, <1>3, Bcc2IsAByte, AppendProperties DEF Sendable, Body

LEMMA ConsOfBytes ==
    ASSUME NEW U, NEW b \in U, NEW w \in Seq(U)
    PROVE  /\ Cons(b, w) \in Seq(U) /\ Cons(b, w) # << >>
           /\ Head(Cons(b, w)) = b /\ Tail(Cons(b, w)) = w
<1>1. <<b>> \in Seq(U) /\ Len(<<b>>) = 1 /\ <<b>>[1] = b
  OBVIOUS
<1>2. /\ Cons(b, w) \in Seq(U) /\ Len(Cons(b, w)) = 1 + Len(w) /\ Len(w) \in Nat
      /\ \A i \in 1..1 + Len(w) : Cons(b, w)[i] = IF i <= 1 THEN b ELSE w[i - 1]
  BY <1>1, ConcatProperties, LenProperties DEF Cons
<1>3. Cons(b, w) # << >>
  BY <1>2, EmptySeq
<1>4. Head(Cons(b, w)) = b
  BY <1>2
<1>5. Tail(Cons(b, w)) = w
  <2>1. /\ Tail(Cons(b, w)) \in Seq(U) /\ Len(Tail(Cons(b, w))) = Len(w)
        /\ \A i \in 1..Len(w) : Tail(Cons(b, w))[i] = Cons(b, w)[i + 1]
    BY <1>2, <1>3, HeadTailProperties
  <2>2. \A i \in 1..Len(w) : Cons(b, w)[i + 1] = w[i]
    BY <1>2
  <2> HIDE DEF Cons
  <2> QED BY <2>1, <2>2, SeqEqual
<1> QED BY <1>2, <1>3, <1>4, <1>5

LEMMA StuffedFromFirst ==
    ASSUME NEW s \in Sendable, NEW n \in 0..Len(Body(s))
    PROVE  /\ StuffedFrom(s, n) \in Seq(NotFlag)
           /\ n = Len(Body(s)) => StuffedFrom(s, n) = << >>
           /\ n < Len(Body(s)) =>
                StuffedFrom(s, n) = Stuffed(Body(s)[n + 1]) \o StuffedFrom(s, n + 1)
<1> DEFINE m == Len(Body(s))
           parts == [i \in 1..m - n |-> Stuffed(Body(s)[n + i])]
<1>1. m \in Nat /\ Body(s) \in Seq(Byte) /\ m - n \in Nat
  BY PayloadIsSeq
<1>2. \A i \in 1..m - n : Stuffed(Body(s)[n + i]) \in Seq(NotFlag)
  <2>1. ASSUME NEW i \in 1..m - n
        PROVE  Body(s)[n + i] \in Byte
    BY <1>1, ElementOfSeq
  <2> QED BY <2>1, StuffedByte
<1>3. parts \in Seq(Seq(NotFlag)) /\ Len(parts) = m - n
  BY <1>1, <1>2
<1>4. StuffedFrom(s, n) \in Seq(NotFlag)
  BY <1>3, FlattenIsSeq DEF StuffedFrom
<1>5. ASSUME n = m
      PROVE  StuffedFrom(s, n) = << >>
  <2>1. Len(parts) = 0 /\ parts = << >>
    BY <1>3, <1>5, EmptySeq
  <2> QED BY <2>1 DEF StuffedFrom, FlattenSeq
<1>6. ASSUME n < m
      PROVE  StuffedFrom(s, n) = Stuffed(Body(s)[n + 1]) \o StuffedFrom(s, n + 1)
  <2> DEFINE after == [i \in 1..m - (n + 1) |-> Stuffed(Body(s)[n + 1 + i])]
  <2>1. m - n # 0 /\ parts # << >> /\ parts[1] = Stuffed(Body(s)[n + 1])
    <3>1. m - n # 0 /\ 1 \in 1..m - n
      BY <1>1, <1>6
    <3>2. parts[1] = Stuffed(Body(s)[n + 1])
      BY <3>1
    <3> HIDE DEF parts
    <3> QED BY <1>3, <3>1, <3>2, EmptySeq
  <2>2. \A i \in 1..m - (n + 1) : Stuffed(Body(s)[n + 1 + i]) = Stuffed(Body(s)[n + (i + 1)])
    BY <1>1
  <2>3. m - (n + 1) \in Nat /\ m - (n + 1) = (m - n) - 1
    BY <1>1, <1>6
  <2>4. after \in Seq(Seq(NotFlag)) /\ Len(after) = m - (n + 1)
    <3>1. \A i \in 1..m - (n + 1) : i + 1 \in 1..m - n
      BY <1>1, <2>3
    <3>2. \A i \in 1..m - (n + 1) : Stuffed(Body(s)[n + 1 + i]) \in Seq(NotFlag)
      BY <1>2, <2>2, <3>1
    <3> QED BY <2>3, <3>2
  <2>5. Tail(parts) = after
    <3>1. /\ Tail(parts) \in Seq(Seq(NotFlag)) /\ Len(Tail(parts)) = m - (n + 1)
          /\ \A i \in 1..m - (n + 1) : Tail(parts)[i] = parts[i + 1]
      <4> HIDE DEF parts
      <4> QED BY <1>3, <2>1, <2>3, HeadTailProperties
    <3>2. \A i \in 1..m - (n + 1) : parts[i + 1] = after[i]
      BY <1>1, <2>2, <2>3
    <3> HIDE DEF parts, after
    <3> QED BY <2>4, <3>1, <3>2, SeqEqual
  <2>6. FlattenSeq(parts) = Head(parts) \o FlattenSeq(Tail(parts))
    BY <1>3, <2>1, FlattenFirst
  <2>7. StuffedFrom(s, n) = FlattenSeq(parts) /\ StuffedFrom(s, n + 1) = FlattenSeq(after)
    BY DEF StuffedFrom
  <2>8. Head(parts) = parts[1]
    BY <2>1
  <2> HIDE DEF parts, after
  <2> QED BY <2>1, <2>5, <2>6, <2>7, <2>8
<1> QED BY <1>4, <1>5, <1>6

LEMMA ConsIsFirst ==
    ASSUME NEW a \in Byte, NEW w \in Seq(Byte)
    PROVE  /\ <<a>> \o w = Cons(a, w)
           /\ \A b \in Byte : <<a, b>> \o w = Cons(a, Cons(b, w))
<1>1. <<a>> \in Seq(Byte) /\ \A b \in Byte : <<b>> \in Seq(Byte) /\ <<a, b>> = <<a>> \o <<b>>
  OBVIOUS
<1>2. ASSUME NEW b \in Byte
      PROVE  <<a, b>> \o w = Cons(a, Cons(b, w))
  <2>1. (<<a>> \o <<b>>) \o w = <<a>> \o (<<b>> \o w)
    BY <1>1, BytesAssociative, Zenon
  <2>2. <<a, b>> = <<a>> \o <<b>>
    BY <1>1
  <2> QED BY <2>1, <2>2, Zenon DEF Cons
<1> QED BY <1>2 DEF Cons

LEMMA ConsIsOfFirst ==
    ASSUME NEW a \in Byte, NEW t \in Seq(Byte), NEW w \in Seq(Byte)
    PROVE  Cons(a, t) \o w = Cons(a, t \o w)
<1>1. <<a>> \in Seq(Byte)
  OBVIOUS
<1> QED BY <1>1, BytesAssociative, Zenon DEF Cons

LEMMA NotFlagIsByte == \A w \in Seq(NotFlag) : w \in Seq(Byte)
BY SeqMonotonic DEF NotFlag

LEMMA RestFirst ==
    ASSUME NEW s \in Sendable, NEW n \in 0..Len(Body(s)), NEW w \in Seq(Byte)
    PROVE  /\ Rest(s, n, w) \in Seq(Byte)
           /\ n = Len(Body(s)) => Rest(s, n, w) = Cons(FLAG, w)
           /\ n < Len(Body(s)) /\ Body(s)[n + 1] \notin {FLAG, ESC} =>
                 Rest(s, n, w) = Cons(Body(s)[n + 1], Rest(s, n + 1, w))
           /\ n < Len(Body(s)) /\ Body(s)[n + 1] \in {FLAG, ESC} =>
                 Rest(s, n, w) = Cons(ESC, Cons(Xor(Body(s)[n + 1], {5}), Rest(s, n + 1, w)))
<1> DEFINE b == Body(s)[n + 1]
           v == Cons(FLAG, w)
<1>1. v \in Seq(Byte)
  BY ConsOfBytes, ControlBytes
<1>2. StuffedFrom(s, n) \in Seq(Byte)
  BY StuffedFromFirst, NotFlagIsByte
<1>3. Rest(s, n, w) = StuffedFrom(s, n) \o v /\ Rest(s, n, w) \in Seq(Byte)
  BY <1>1, <1>2, ConcatProperties DEF Rest
<1>4. ASSUME n = Len(Body(s))
      PROVE  Rest(s, n, w) = Cons(FLAG, w)
  <2>1. StuffedFrom(s, n) = << >>
    BY <1>4, StuffedFromFirst
  <2> QED BY <1>1, <1>3, <2>1, ConcatEmptySeq
<1>5. ASSUME n < Len(Body(s))
      PROVE  /\ b \notin {FLAG, ESC} => Rest(s, n, w) = Cons(b, Rest(s, n + 1, w))
             /\ b \in {FLAG, ESC} => Rest(s, n, w) = Cons(ESC, Cons(Xor(b, {5}), Rest(s, n + 1, w)))
  <2>1. n + 1 \in 0..Len(Body(s)) /\ b \in Byte /\ Len(Body(s)) \in Nat
    BY <1>5, PayloadIsSeq, ElementOfSeq
  <2>2. StuffedFrom(s, n) = Stuffed(b) \o StuffedFrom(s, n + 1)
    BY <1>5, StuffedFromFirst
  <2>3. StuffedFrom(s, n + 1) \in Seq(Byte) /\ Stuffed(b) \in Seq(Byte)
    BY <2>1, StuffedFromFirst, StuffedByte, NotFlagIsByte
  <2>4. Rest(s, n + 1, w) = StuffedFrom(s, n + 1) \o v /\ Rest(s, n + 1, w) \in Seq(Byte)
    BY <1>1, <2>3, ConcatProperties DEF Rest
  <2>5. Rest(s, n, w) = Stuffed(b) \o Rest(s, n + 1, w)
    <3> HIDE DEF b, v
    <3>1. (Stuffed(b) \o StuffedFrom(s, n + 1)) \o v = Stuffed(b) \o (StuffedFrom(s, n + 1) \o v)
      <4>1. PICK x, y, z \in Seq(Byte) : x = Stuffed(b) /\ y = StuffedFrom(s, n + 1) /\ z = v
        BY <1>1, <2>3, Zenon
      <4>2. (x \o y) \o z = x \o (y \o z)
        BY BytesAssociative
      <4> QED BY <4>1, <4>2, Zenon
    <3> QED BY <1>3, <2>2, <2>4, <3>1, Zenon
  <2> HIDE DEF b, v
  <2>6. CASE b \notin {FLAG, ESC}
    <3>1. Stuffed(b) = <<b>>
      BY <2>1, <2>6, StuffedByte
    <3>2. <<b>> \o Rest(s, n + 1, w) = Cons(b, Rest(s, n + 1, w))
      BY <2>1, <2>4, ConsIsFirst
    <3> QED BY <2>5, <2>6, <3>1, <3>2, Zenon
  <2>7. CASE b \in {FLAG, ESC}
    <3>1. Stuffed(b) = <<ESC, Xor(b, {5})>> /\ Xor(b, {5}) \in Byte /\ ESC \in Byte
      BY <2>1, <2>7, StuffedByte, ControlBytes
    <3>2. <<ESC, Xor(b, {5})>> \o Rest(s, n + 1, w) = Cons(ESC, Cons(Xor(b, {5}), Rest(s, n + 1, w)))
      BY <2>4, <3>1, ConsIsFirst
    <3> QED BY <2>5, <2>7, <3>1, <3>2, Zenon
  <2> QED BY <2>6, <2>7
<1> QED BY <1>3, <1>4, <1>5

LEMMA FrameFirst ==
    ASSUME NEW s \in Sendable, NEW w \in Seq(Byte)
    PROVE  /\ FrameOf(s) \in Seq(Byte)
           /\ FrameOf(s) \o w =
                Cons(FLAG, Cons(A_fromT, Cons(s.ctrl, Cons(Bcc1(s), Rest(s, 0, w)))))
<1> DEFINE h == Header(A_fromT, s.ctrl)
           d == Stuff(s.data)
           c == Stuffed(Bcc2(s.data))
           parts == [i \in DOMAIN s.data |-> Stuffed(s.data[i])]
<1>1. /\ s.ctrl \in Byte /\ s.data \in Seq(Byte) /\ Bcc2(s.data) \in Byte /\ Bcc1(s) \in Byte
      /\ FLAG \in Byte /\ A_fromT \in Byte
  BY PayloadIsSeq, Bcc2IsAByte, ControlBytes DEF Bcc1
<1>2. parts \in Seq(Seq(NotFlag)) /\ Len(parts) = Len(s.data) /\ d = FlattenSeq(parts)
  <2>1. DOMAIN s.data = 1..Len(s.data) /\ Len(s.data) \in Nat
    BY <1>1, LenProperties
  <2>2. \A i \in 1..Len(s.data) : Stuffed(s.data[i]) \in Seq(NotFlag)
    BY <1>1, StuffedByte, ElementOfSeq
  <2> QED BY <2>1, <2>2 DEF Stuff
<1>3. c \in Seq(NotFlag) /\ d \in Seq(NotFlag)
  BY <1>1, <1>2, StuffedByte, FlattenIsSeq
<1>4. StuffedFrom(s, 0) = d \o c
  <2>1. FlattenSeq(Append(parts, c)) = FlattenSeq(parts) \o c
    <3> HIDE DEF parts, c
    <3> QED BY <1>2, <1>3, FlattenAppend
  <2>2. Append(parts, c) = [i \in 1..Len(Body(s)) - 0 |-> Stuffed(Body(s)[0 + i])]
    <3> DEFINE all == [i \in 1..Len(Body(s)) - 0 |-> Stuffed(Body(s)[0 + i])]
               n == Len(s.data)
    <3>1. Len(Body(s)) - 0 = n + 1 /\ n \in Nat
      BY PayloadIsSeq
    <3>2. \A i \in 1..n + 1 : 0 + i = i /\ Body(s)[i] \in Byte
      BY <3>1, PayloadIsSeq, ElementOfSeq
    <3>3. /\ \A i \in 1..n : Body(s)[i] = s.data[i]
          /\ Body(s)[n + 1] = Bcc2(s.data)
      BY <1>1, AppendProperties DEF Body
    <3>4. all \in Seq(Seq(NotFlag)) /\ Len(all) = n + 1
      <4>1. \A i \in 1..n + 1 : Stuffed(Body(s)[0 + i]) \in Seq(NotFlag)
        BY <3>2, StuffedByte
      <4> QED BY <3>1, <4>1
    <3>5. /\ Append(parts, c) \in Seq(Seq(NotFlag)) /\ Len(Append(parts, c)) = n + 1
          /\ \A i \in 1..n : Append(parts, c)[i] = parts[i]
          /\ Append(parts, c)[n + 1] = c
      <4> HIDE DEF parts, c
      <4> QED BY <1>2, <1>3, AppendProperties
    <3>6. \A i \in 1..n : parts[i] = Stuffed(s.data[i])
      BY <1>1, LenProperties
    <3>7. \A i \in 1..n + 1 : all[i] = Append(parts, c)[i]
      <4> SUFFICES ASSUME NEW i \in 1..n + 1
                   PROVE  all[i] = Append(parts, c)[i]
        OBVIOUS
      <4>1. all[i] = Stuffed(Body(s)[i])
        BY <3>1, <3>2
      <4>2. CASE i = n + 1
        BY <3>3, <3>5, <4>1, <4>2
      <4>3. CASE i # n + 1
        <5>1. i \in 1..n
          BY <3>1, <4>3
        <5> HIDE DEF parts, all, c
        <5> QED BY <3>3, <3>5, <3>6, <4>1, <5>1
      <4> QED BY <4>2, <4>3
    <3> HIDE DEF all, parts, c
    <3>8. Append(parts, c) = all
      BY <3>4, <3>5, <3>7, SeqEqual
    <3> QED BY <3>8 DEF all
  <2> QED BY <1>2, <2>1, <2>2 DEF StuffedFrom
<1>5. h = Cons(FLAG, Cons(A_fromT, Cons(s.ctrl, <<Bcc1(s)>>)))
  BY <1>1 DEF Header, Bcc1, Cons
<1>6. /\ FrameOf(s) = (h \o StuffedFrom(s, 0)) \o <<FLAG>>
      /\ h \in Seq(Byte) /\ StuffedFrom(s, 0) \in Seq(Byte) /\ <<FLAG>> \in Seq(Byte)
  <2>1. /\ h \in Seq(Byte) /\ d \in Seq(Byte) /\ c \in Seq(Byte) /\ <<FLAG>> \in Seq(Byte)
    BY <1>1, <1>3, NotFlagIsByte DEF Header, Bcc1
  <2>2. FrameOf(s) = ((h \o d) \o c) \o <<FLAG>>
    BY DEF FrameOf, IFrame
  <2> HIDE DEF h, d, c
  <2>3. (h \o d) \o c = h \o (d \o c) /\ d \o c \in Seq(Byte)
    <3>1. (h \o d) \o c = h \o (d \o c)
      <4>1. PICK x, y, z \in Seq(Byte) : x = h /\ y = d /\ z = c
        BY <2>1, Zenon
      <4>2. (x \o y) \o z = x \o (y \o z)
        BY BytesAssociative
      <4> QED BY <4>1, <4>2, Zenon
    <3>2. d \o c \in Seq(Byte)
      BY <2>1, ConcatProperties
    <3> QED BY <3>1, <3>2
  <2> QED BY <1>4, <2>1, <2>2, <2>3
<1> DEFINE r == StuffedFrom(s, 0)
<1>7. FrameOf(s) \in Seq(Byte)
  <2> HIDE DEF h, r
  <2>1. h \o StuffedFrom(s, 0) \in Seq(Byte)
    BY <1>6, ConcatProperties
  <2> QED BY <1>6, <2>1, ConcatProperties
<1>8. FrameOf(s) \o w = h \o Rest(s, 0, w)
  <2> HIDE DEF h
  <2>1. /\ Cons(FLAG, w) = <<FLAG>> \o w /\ Cons(FLAG, w) \in Seq(Byte)
        /\ h \o StuffedFrom(s, 0) \in Seq(Byte)
    BY <1>1, <1>6, ConsIsFirst, ConsOfBytes, ConcatProperties
  <2>2. FrameOf(s) \o w = (h \o StuffedFrom(s, 0)) \o (<<FLAG>> \o w)
    <3>1. PICK x, y, z \in Seq(Byte) :
              x = h \o StuffedFrom(s, 0) /\ y = <<FLAG>> /\ z = w
      BY <1>6, <2>1, Zenon
    <3>2. (x \o y) \o z = x \o (y \o z)
      BY BytesAssociative
    <3> QED BY <1>6, <3>1, <3>2, Zenon
  <2>3. (h \o StuffedFrom(s, 0)) \o Cons(FLAG, w) = h \o (StuffedFrom(s, 0) \o Cons(FLAG, w))
    <3>1. PICK x, y, z \in Seq(Byte) : x = h /\ y = StuffedFrom(s, 0) /\ z = Cons(FLAG, w)
      BY <1>6, <2>1, Zenon
    <3>2. (x \o y) \o z = x \o (y \o z)
      BY BytesAssociative
    <3> QED BY <3>1, <3>2, Zenon
  <2> QED BY <2>1, <2>2, <2>3 DEF Rest
<1>9. ASSUME NEW v \in Seq(Byte)
      PROVE  h \o v = Cons(FLAG, Cons(A_fromT, Cons(s.ctrl, Cons(Bcc1(s), v))))
  <2> DEFINE t3 == <<Bcc1(s)>>
             t2 == Cons(s.ctrl, t3)
             t1 == Cons(A_fromT, t2)
  <2>1. t3 \in Seq(Byte) /\ t3 \o v = Cons(Bcc1(s), v)
    BY <1>1, ConsIsFirst
  <2> HIDE DEF t3
  <2>2. t2 \in Seq(Byte) /\ t2 \o v = Cons(s.ctrl, t3 \o v)
    <3>1. PICK c1 \in Byte : c1 = s.ctrl
      BY <1>1
    <3>2. Cons(c1, t3) \in Seq(Byte)
      BY <2>1, ConsOfBytes
    <3>3. Cons(c1, t3) \o v = Cons(c1, t3 \o v)
      BY <2>1, ConsIsOfFirst
    <3> QED BY <3>1, <3>2, <3>3
  <2> HIDE DEF t2
  <2>3. t1 \in Seq(Byte) /\ t1 \o v = Cons(A_fromT, t2 \o v)
    BY <1>1, <2>2, ConsIsOfFirst, ConsOfBytes
  <2> HIDE DEF t1
  <2>4. Cons(FLAG, t1) \o v = Cons(FLAG, t1 \o v)
    BY <1>1, <2>3, ConsIsOfFirst
  <2>5. h = Cons(FLAG, t1)
    BY <1>5 DEF t1, t2, t3
  <2> HIDE DEF h
  <2> QED BY <2>1, <2>2, <2>3, <2>4, <2>5
<1>10. 0 \in 0..Len(Body(s))
  BY PayloadIsSeq
<1> HIDE DEF h
<1> QED BY <1>7, <1>8, <1>9, <1>10, RestFirst

LEMMA WholeFirst ==
    ASSUME NEW s \in Sendable, NEW k \in Nat
    PROVE  /\ Whole(s, k) \in Seq(Byte)
           /\ k = 0 => Whole(s, k) = << >>
           /\ Whole(s, k + 1) = FrameOf(s) \o Whole(s, k)
<1> DEFINE copies(n) == [i \in 1..n |-> FrameOf(s)]
<1>1. FrameOf(s) \in Seq(Byte)
  BY FrameFirst, EmptySeq
<1>2. ASSUME NEW n \in Nat
      PROVE  copies(n) \in Seq(Seq(Byte)) /\ Len(copies(n)) = n
  BY <1>1
<1>3. Whole(s, k) \in Seq(Byte)
  BY <1>2, FlattenIsSeq DEF Whole
<1>4. k = 0 => Whole(s, k) = << >>
  <2>1. copies(0) = << >> /\ Len(copies(0)) = 0
    BY <1>2, EmptySeq
  <2> QED BY <2>1 DEF Whole, FlattenSeq
<1>5. /\ copies(k + 1) \in Seq(Seq(Byte)) /\ Len(copies(k + 1)) = k + 1
      /\ copies(k) \in Seq(Seq(Byte)) /\ Len(copies(k)) = k
      /\ copies(k + 1) # << >> /\ Head(copies(k + 1)) = FrameOf(s)
  <2>1. 1 \in 1..k + 1
    OBVIOUS
  <2>2. copies(k + 1)[1] = FrameOf(s)
    BY <2>1
  <2> HIDE DEF copies
  <2>3. /\ copies(k + 1) \in Seq(Seq(Byte)) /\ Len(copies(k + 1)) = k + 1
        /\ copies(k) \in Seq(Seq(Byte)) /\ Len(copies(k)) = k
    BY <1>2
  <2>4. copies(k + 1) # << >>
    BY <2>3, EmptySeq
  <2> QED BY <2>2, <2>3, <2>4
<1>6. Tail(copies(k + 1)) = copies(k)
  <2>1. /\ Tail(copies(k + 1)) \in Seq(Seq(Byte)) /\ Len(Tail(copies(k + 1))) = k
        /\ \A i \in 1..k : Tail(copies(k + 1))[i] = copies(k + 1)[i + 1]
    <3> HIDE DEF copies
    <3> QED BY <1>5, HeadTailProperties
  <2>2. \A i \in 1..k : copies(k + 1)[i + 1] = copies(k)[i]
    OBVIOUS
  <2> HIDE DEF copies
  <2> QED BY <1>5, <2>1, <2>2, SeqEqual
<1>7. FlattenSeq(copies(k + 1)) = FrameOf(s) \o FlattenSeq(copies(k))
  <2> HIDE DEF copies
  <2> QED BY <1>5, <1>6, FlattenFirst
<1> QED BY <1>3, <1>4, <1>7 DEF Whole

(***************************************************************************)
(* Types.                                                                  *)
(***************************************************************************)
LEMMA CarriedIsSeq ==
    ASSUME NEW bytes \in Seq(Byte), NEW d \in Damages(bytes)
    PROVE  Carried(bytes, d) \in Seq(Byte)
<1>1. CASE d = NoDamage
  BY <1>1 DEF Carried, NoDamage
<1>2. CASE d \in Flips(bytes)
  <2>1. /\ d.kind = "flip" /\ d.at \in 1..Len(bytes) /\ {d.bit} \in Byte
        /\ Carried(bytes, d) = [bytes EXCEPT ![d.at] = Xor(bytes[d.at], {d.bit})]
    BY <1>2 DEF Flips, Carried, Byte
  <2>2. Xor(bytes[d.at], {d.bit}) \in Byte
    BY <2>1, ElementOfSeq, XorOfBytes
  <2> QED BY <2>1, <2>2, ExceptSeq
<1>3. CASE d \in Losses(bytes)
  <2>1. /\ d.kind = "loss" /\ d.from \in 1..Len(bytes) /\ d.to \in 1..Len(bytes)
        /\ Carried(bytes, d) = SubSeq(bytes, 1, d.from - 1) \o SubSeq(bytes, d.to + 1, Len(bytes))
    BY <1>3 DEF Losses, Carried
  <2>2. Len(bytes) \in Nat /\ \A i \in 1..Len(bytes) : bytes[i] \in Byte
    BY LenProperties, ElementOfSeq
  <2>3. SubSeq(bytes, 1, d.from - 1) \in Seq(Byte)
    BY <2>1, <2>2, SubSeqProperties
  <2>4. SubSeq(bytes, d.to + 1, Len(bytes)) \in Seq(Byte)
    BY <2>1, <2>2, SubSeqProperties
  <2> QED BY <2>1, <2>3, <2>4, ConcatProperties
<1> QED BY <1>1, <1>2, <1>3 DEF Damages

LEMMA AcksAreBytes ==
    ASSUME NEW n \in Nat, NEW acks \in [1..n -> {{}, {0}}]
    PROVE  Acks(acks) \in Seq(Byte)
<1> DEFINE parts == [i \in DOMAIN acks |-> Supervision(A_fromR, AckCtrl(acks[i]))]
<1>1. ASSUME NEW i \in 1..n
      PROVE  Supervision(A_fromR, AckCtrl(acks[i])) \in Seq(Byte)
  <2> DEFINE c == AckCtrl(acks[i])
             x == Xor(A_fromR, c)
  <2>1. FLAG \in Byte /\ A_fromR \in Byte /\ c \in Byte /\ x \in Byte
    BY ControlBytes
  <2>2. Supervision(A_fromR, c) = Append(<<FLAG, A_fromR, c, x>>, FLAG)
    BY DEF Supervision, Header
  <2> HIDE DEF c, x
  <2>3. <<FLAG, A_fromR, c, x>> \in Seq(Byte)
    BY <2>1
  <2>4. Supervision(A_fromR, c) \in Seq(Byte)
    BY <2>1, <2>2, <2>3, AppendProperties
  <2> QED BY <2>4 DEF c
<1>2. parts \in Seq(Seq(Byte))
  BY <1>1
<1> QED BY <1>2, FlattenIsSeq DEF Acks

LEMMA InitialTypes ==
    ASSUME Init
    PROVE  TypeOK
<1>1. wire \in Seq(Byte)
  <2>1. CASE Forward
    <3>1. sent \in Sendable /\ SentFrame = FrameOf(sent) /\ Repeats = Whole(sent, Copies)
      BY <2>1 DEF Forward, Sendable, SentFrame, Repeats, FrameOf, Whole
    <3>2. Repeats \in Seq(Byte) /\ SentFrame \in Seq(Byte)
      BY <3>1, WholeFirst, FrameFirst, EmptySeq, NoisyAssumption
    <3> QED BY <2>1, <3>2, CarriedIsSeq, ConcatProperties DEF Forward
  <2>2. CASE Back
    <3>1. PICK n \in 1..MaxAcks : stream \in [1..n -> {{}, {0}}]
      BY <2>2 DEF Back
    <3>2. n \in Nat
      BY NoisyAssumption
    <3>3. Acks(stream) \in Seq(Byte)
      BY <3>1, <3>2, AcksAreBytes
    <3> QED BY <2>2, <3>3, CarriedIsSeq DEF Back
  <2> QED BY <2>1, <2>2 DEF Init
<1>2. {} \in Byte /\ << >> \in Seq(Byte) /\ << >> \in Seq(Verdicts) /\ << >> \in Seq({{}, {0}})
      /\ Len(<< >>) % 2 = 0
  BY DEF Byte
<1> QED BY <1>1, <1>2 DEF Init, TypeOK, Fresh, ReceiverInit

LEMMA VerdictType ==
    ASSUME TypeOK, frameData # << >>
    PROVE  Verdict(frameData) \in Verdicts
<1>1. Len(frameData) \in Nat \ {0} /\ \A i \in 1..Len(frameData) : frameData[i] \in Byte
  BY EmptySeq, ElementOfSeq DEF TypeOK
<1>2. Front(frameData) \in Seq(Byte)
  BY <1>1, SubSeqProperties DEF Front
<1> QED BY <1>2 DEF Verdict, Verdicts, Good, TypeOK

LEMMA NextTypes ==
    ASSUME TypeOK, [Next]_vars
    PROVE  TypeOK'
<1>1. CASE ReceiverReads
  <2> DEFINE c == Head(wire)
  <2>1. c \in Byte /\ wire' \in Seq(Byte) /\ LlreadTakes(c) /\ UNCHANGED ackReceiver
    BY <1>1, HeadTailProperties DEF ReceiverReads, Receives, TypeOK
  <2> HIDE DEF c
  <2>2. CASE Start(c)
    BY <2>1, <2>2 DEF TypeOK, Start, Resync, ackReceiver
  <2>3. CASE FlagRcv(c)
    BY <2>1, <2>3 DEF TypeOK, FlagRcv, Resync, ackReceiver
  <2>4. CASE ARcv(c)
    BY <2>1, <2>4 DEF TypeOK, ARcv, ackReceiver
  <2>5. CASE CRcv(c)
    BY <2>1, <2>5 DEF TypeOK, CRcv, Resync, ackReceiver
  <2>6. CASE Escape(c)
    BY <2>1, <2>6 DEF TypeOK, Escape, ackReceiver
  <2>7. CASE Collect(c)
    <3>1. Xor(c, {5}) \in Byte
      BY <2>1, XorOfBytes DEF Byte
    <3>2. frameData' \in Seq(Byte)
      BY <2>1, <2>7, <3>1, AppendProperties DEF TypeOK, Collect
    <3> QED BY <2>1, <2>7, <3>2 DEF TypeOK, Collect, ackReceiver
  <2>8. CASE EmptyFrame(c)
    BY <2>1, <2>8 DEF TypeOK, EmptyFrame, ackReceiver
  <2>9. CASE EndOfFrame(c)
    <3>1. verdicts' \in Seq(Verdicts)
      BY <2>9, VerdictType, AppendProperties DEF TypeOK, EndOfFrame
    <3>2. {} \in Byte /\ << >> \in Seq(Byte)
      BY DEF Byte
    <3>3. /\ recState' = "START" /\ ctrl' = {} /\ esc' = FALSE /\ frameData' = << >>
          /\ state' = state /\ awaited' = awaited /\ accepted' = accepted
      BY <2>1, <2>9 DEF EndOfFrame, ackReceiver
    <3> QED BY <2>1, <3>1, <3>2, <3>3 DEF TypeOK
  <2> QED BY <2>1, <2>2, <2>3, <2>4, <2>5, <2>6, <2>7, <2>8, <2>9 DEF LlreadTakes
<1>2. CASE SenderReads
  <2> DEFINE c == Head(wire)
  <2>1. /\ c \in Byte /\ wire' \in Seq(Byte) /\ LlwriteTakes(c)
        /\ UNCHANGED <<recState, ctrl, esc, frameData, verdicts>>
    BY <1>2, HeadTailProperties DEF SenderReads, Receives, TypeOK, automaton
  <2> HIDE DEF c
  <2>2. CASE Skips(c)
    BY <2>1, <2>2 DEF TypeOK, Skips, OutOfStep
  <2>3. CASE Advances(c)
    BY <2>1, <2>3 DEF TypeOK, Advances
  <2>4. CASE Accepts(c)
    <3>1. awaited \in {{}, {0}} /\ Len(accepted) \in Nat
      BY LenProperties DEF TypeOK
    <3>2. accepted' \in Seq({{}, {0}}) /\ Len(accepted') = Len(accepted) + 1
      BY <2>4, <3>1, AppendProperties DEF TypeOK, Accepts
    <3>3. awaited' = IF awaited = {} THEN {0} ELSE {}
      BY <2>4, <3>1 DEF Accepts, Xor
    <3>4. (Len(accepted) + 1) % 2 = IF Len(accepted) % 2 = 0 THEN 1 ELSE 0
      BY <3>1
    <3>5. awaited' = IF Len(accepted') % 2 = 0 THEN {} ELSE {0}
      BY <3>2, <3>3, <3>4 DEF TypeOK
    <3> QED BY <2>1, <2>4, <3>2, <3>5 DEF TypeOK, Accepts
  <2> QED BY <2>1, <2>2, <2>3, <2>4 DEF LlwriteTakes
<1>3. CASE UNCHANGED vars
  BY <1>3 DEF TypeOK, vars, automaton, ackReceiver
<1> QED BY <1>1, <1>2, <1>3 DEF Next

(* Types of both automata, and of the bytes between them, for every        *)
(* payload and every number of copies.                                     *)
THEOREM TypesHold == Spec => []TypeOK
BY InitialTypes, NextTypes, PTL DEF Spec

(***************************************************************************)
(* One byte at a time: what llread does with the first byte of the wire.   *)
(***************************************************************************)
LEMMA ReadsFirst ==
    ASSUME NEW b \in Byte, NEW w \in Seq(Byte), wire = Cons(b, w), ReceiverReads
    PROVE  LlreadTakes(b) /\ wire' = w
<1>1. Head(wire) = b /\ Tail(wire) = w
  BY ConsOfBytes
<1> QED BY <1>1 DEF ReceiverReads, Receives

LEMMA TakesByState ==
    ASSUME NEW b, LlreadTakes(b), TypeOK
    PROVE  /\ recState = "START" => Start(b)
           /\ recState = "FLAG_RCV" => FlagRcv(b)
           /\ recState = "A_RCV" => ARcv(b)
           /\ recState = "C_RCV" => CRcv(b)
           /\ recState = "DATA" /\ b = ESC => Escape(b)
           /\ recState = "DATA" /\ b # ESC /\ b # FLAG => Collect(b)
           /\ recState = "DATA" /\ b = FLAG => \/ esc /\ Collect(b)
                                               \/ ~esc /\ frameData = << >> /\ EmptyFrame(b)
                                               \/ ~esc /\ frameData # << >> /\ EndOfFrame(b)
<1>1. FLAG # ESC
  BY ControlBytes
<1> QED BY <1>1 DEF LlreadTakes, Start, FlagRcv, ARcv, CRcv, Escape, Collect, EmptyFrame, EndOfFrame

(* The places within an undamaged copy, with k more behind it. *)
FromBody(s, n, k) == Rest(s, n, Whole(s, k))
FromBcc1(s, k)    == Cons(Bcc1(s), FromBody(s, 0, k))
FromControl(s, k) == Cons(s.ctrl, FromBcc1(s, k))
FromAddress(s, k) == Cons(A_fromT, FromControl(s, k))

LEMMA PlacesOfCopy ==
    ASSUME NEW s \in Sendable, NEW k \in Nat
    PROVE  /\ \A n \in 0..Len(Body(s)) : FromBody(s, n, k) \in Seq(Byte)
           /\ FromBcc1(s, k) \in Seq(Byte) /\ FromControl(s, k) \in Seq(Byte)
           /\ FromAddress(s, k) \in Seq(Byte)
           /\ Whole(s, k + 1) = Cons(FLAG, FromAddress(s, k))
           /\ 0 \in 0..Len(Body(s))
<1>1. Whole(s, k) \in Seq(Byte) /\ Whole(s, k + 1) = FrameOf(s) \o Whole(s, k)
  BY WholeFirst
<1>2. \A n \in 0..Len(Body(s)) : FromBody(s, n, k) \in Seq(Byte)
  BY <1>1, RestFirst DEF FromBody
<1>3. 0 \in 0..Len(Body(s)) /\ s.ctrl \in Byte /\ Bcc1(s) \in Byte /\ A_fromT \in Byte
  <2>1. 0 \in 0..Len(Body(s))
    BY PayloadIsSeq
  <2> QED BY <2>1, PayloadIsSeq, ControlBytes DEF Bcc1
<1>4. FromBcc1(s, k) \in Seq(Byte)
  BY <1>2, <1>3, ConsOfBytes DEF FromBcc1
<1>5. FromControl(s, k) \in Seq(Byte)
  BY <1>3, <1>4, ConsOfBytes DEF FromControl
<1>6. FromAddress(s, k) \in Seq(Byte)
  BY <1>3, <1>5, ConsOfBytes DEF FromAddress
<1>7. Whole(s, k + 1) = Cons(FLAG, FromAddress(s, k))
  BY <1>1, FrameFirst DEF FromAddress, FromControl, FromBcc1, FromBody
<1> QED BY <1>2, <1>3, <1>4, <1>5, <1>6, <1>7

(***************************************************************************)
(* A copy that is read in step, w being what is left to read.              *)
(***************************************************************************)
AtFlag(s, k, w)    == recState \in {"START", "FLAG_RCV"} /\ w = Whole(s, k + 1)
AtAddress(s, k, w) == recState = "FLAG_RCV" /\ w = FromAddress(s, k)
AtControl(s, k, w) == recState = "A_RCV" /\ w = FromControl(s, k)
AtBcc1(s, k, w)    == recState = "C_RCV" /\ ctrl = s.ctrl /\ w = FromBcc1(s, k)

HasRead(s, n) == recState = "DATA" /\ ctrl = s.ctrl /\ frameData = SubSeq(Body(s), 1, n)
AtData(s, n, k, w) == HasRead(s, n) /\ ~esc /\ w = FromBody(s, n, k)
AtEscaped(s, n, k, w) == /\ HasRead(s, n) /\ esc
                         /\ Body(s)[n + 1] \in {FLAG, ESC}
                         /\ w = Cons(Xor(Body(s)[n + 1], {5}), FromBody(s, n + 1, k))

InCopy(s, k, w) == \/ AtAddress(s, k, w) \/ AtControl(s, k, w) \/ AtBcc1(s, k, w)
                   \/ \E n \in 0..Len(Body(s)) : AtData(s, n, k, w)
                   \/ \E n \in 0..Len(Body(s)) - 1 : AtEscaped(s, n, k, w)

Recognises(s)     == recState' = "START" /\ verdicts' = Append(verdicts, Good(s.ctrl, s.data))
HasReadCopy(s, k) == Recognises(s) /\ wire' = Whole(s, k)

LEMMA FlagStep ==
    ASSUME NEW s \in Sendable, NEW k \in Nat, NEW w \in Seq(Byte), AtFlag(s, k, w),
           TypeOK, LlreadTakes(Head(w))
    PROVE  AtAddress(s, k, Tail(w))' /\ verdicts' = verdicts
<1>1. Head(w) = FLAG /\ Tail(w) = FromAddress(s, k)
  <2>1. w = Cons(FLAG, FromAddress(s, k)) /\ FromAddress(s, k) \in Seq(Byte) /\ FLAG \in Byte
    BY PlacesOfCopy, ControlBytes DEF AtFlag
  <2> QED BY <2>1, ConsOfBytes
<1>2. Start(FLAG) \/ FlagRcv(FLAG)
  BY <1>1, TakesByState DEF AtFlag
<1>3. FLAG # A_fromT
  BY ControlBytes
<1> QED BY <1>1, <1>2, <1>3 DEF AtAddress, Start, FlagRcv, Resync

LEMMA HeaderStep ==
    ASSUME NEW s \in Sendable, NEW k \in Nat, NEW w \in Seq(Byte),
           AtAddress(s, k, w) \/ AtControl(s, k, w) \/ AtBcc1(s, k, w),
           TypeOK, LlreadTakes(Head(w))
    PROVE  InCopy(s, k, Tail(w))' /\ verdicts' = verdicts
<1>1. s.ctrl \in Byte /\ Bcc1(s) \in Byte /\ A_fromT \in Byte
  BY PayloadIsSeq, ControlBytes DEF Bcc1
<1>2. CASE AtAddress(s, k, w)
  <2>1. Head(w) = A_fromT /\ Tail(w) = FromControl(s, k)
    BY <1>1, <1>2, PlacesOfCopy, ConsOfBytes DEF AtAddress, FromAddress
  <2>2. FlagRcv(A_fromT)
    BY <1>2, <2>1, TakesByState DEF AtAddress
  <2>3. AtControl(s, k, Tail(w))' /\ verdicts' = verdicts
    BY <2>1, <2>2 DEF AtControl, FlagRcv
  <2> QED BY <2>3 DEF InCopy
<1>3. CASE AtControl(s, k, w)
  <2>1. Head(w) = s.ctrl /\ Tail(w) = FromBcc1(s, k)
    BY <1>1, <1>3, PlacesOfCopy, ConsOfBytes DEF AtControl, FromControl
  <2>2. ARcv(s.ctrl)
    BY <1>3, <2>1, TakesByState DEF AtControl
  <2>3. AtBcc1(s, k, Tail(w))' /\ verdicts' = verdicts
    BY <2>1, <2>2 DEF AtBcc1, ARcv
  <2> QED BY <2>3 DEF InCopy
<1>4. CASE AtBcc1(s, k, w)
  <2>1. Head(w) = Bcc1(s) /\ Tail(w) = FromBody(s, 0, k)
    BY <1>1, <1>4, PlacesOfCopy, ConsOfBytes DEF AtBcc1, FromBcc1
  <2>2. CRcv(Bcc1(s)) /\ ctrl = s.ctrl
    BY <1>4, <2>1, TakesByState DEF AtBcc1
  <2>3. SubSeq(Body(s), 1, 0) = << >>
    BY SubSeqEmpty
  <2>4. AtData(s, 0, k, Tail(w))' /\ verdicts' = verdicts
    BY <2>1, <2>2, <2>3 DEF AtData, HasRead, CRcv, Bcc1
  <2> QED BY <2>4, PlacesOfCopy DEF InCopy
<1> QED BY <1>2, <1>3, <1>4

LEMMA BodyPrefix ==
    ASSUME NEW s \in Sendable, NEW n \in 0..Len(Body(s)) - 1
    PROVE  /\ Body(s)[n + 1] \in Byte
           /\ SubSeq(Body(s), 1, n + 1) = Append(SubSeq(Body(s), 1, n), Body(s)[n + 1])
<1>1. /\ Body(s) \in Seq(Byte) /\ Len(Body(s)) \in Nat
      /\ 1 \in 1..Len(Body(s)) /\ n + 1 \in 1..Len(Body(s)) /\ (n + 1) - 1 = n
  BY PayloadIsSeq
<1>2. \A i \in 1..n : Body(s)[i] \in Byte
  BY <1>1, ElementOfSeq
<1>3. Body(s)[n + 1] \in Byte /\ SubSeq(Body(s), 1, n) \in Seq(Byte)
  BY <1>1, <1>2, ElementOfSeq, SubSeqProperties
<1>4. SubSeq(Body(s), 1, n + 1) = SubSeq(Body(s), 1, (n + 1) - 1) \o <<Body(s)[n + 1]>>
  BY <1>1, SubSeqRecursiveSecond
<1>5. Append(SubSeq(Body(s), 1, n), Body(s)[n + 1]) = SubSeq(Body(s), 1, n) \o <<Body(s)[n + 1]>>
  BY <1>3, AppendIsConcat
<1> QED BY <1>1, <1>3, <1>4, <1>5

LEMMA BodyIsGood ==
    ASSUME NEW s \in Sendable, ctrl = s.ctrl
    PROVE  Body(s) # << >> /\ Verdict(Body(s)) = Good(s.ctrl, s.data)
<1>1. s.data \in Seq(Byte) /\ Bcc2(s.data) \in Byte /\ Len(s.data) \in Nat
  BY PayloadIsSeq, Bcc2IsAByte
<1>2. Body(s) # << >> /\ Last(Body(s)) = Bcc2(s.data)
  BY <1>1, AppendProperties DEF Body, Last
<1>3. Front(Body(s)) = s.data
  <2> DEFINE f == SubSeq(Body(s), 1, Len(s.data))
  <2>1. Front(Body(s)) = f
    BY <1>1, PayloadIsSeq DEF Front
  <2>2. \A i \in 1..Len(s.data) : Body(s)[i] = s.data[i] /\ s.data[i] \in Byte
    BY <1>1, AppendProperties, ElementOfSeq DEF Body
  <2>3. f \in Seq(Byte) /\ Len(f) = Len(s.data) /\ \A i \in 1..Len(s.data) : f[i] = Body(s)[i]
    BY <1>1, <2>2, SubSeqProperties
  <2> HIDE DEF f
  <2> QED BY <1>1, <2>1, <2>2, <2>3, SeqEqual
<1> QED BY <1>2, <1>3 DEF Verdict

(* The next byte of the body, or of the pair that stands for it.           *)
LEMMA BodyFirst ==
    ASSUME NEW s \in Sendable, NEW k \in Nat, NEW n \in 0..Len(Body(s))
    PROVE  /\ FromBody(s, n, k) \in Seq(Byte) /\ Whole(s, k) \in Seq(Byte)
           /\ n = Len(Body(s)) \/ n \in 0..Len(Body(s)) - 1
           /\ n = Len(Body(s)) => /\ Head(FromBody(s, n, k)) = FLAG
                                  /\ Tail(FromBody(s, n, k)) = Whole(s, k)
           /\ n \in 0..Len(Body(s)) - 1 =>
                 /\ n + 1 \in 0..Len(Body(s)) /\ Body(s)[n + 1] \in Byte
                 /\ FromBody(s, n + 1, k) \in Seq(Byte)
                 /\ Body(s)[n + 1] \notin {FLAG, ESC} =>
                       /\ Head(FromBody(s, n, k)) = Body(s)[n + 1]
                       /\ Tail(FromBody(s, n, k)) = FromBody(s, n + 1, k)
                 /\ Body(s)[n + 1] \in {FLAG, ESC} =>
                       /\ Head(FromBody(s, n, k)) = ESC
                       /\ Tail(FromBody(s, n, k)) =
                             Cons(Xor(Body(s)[n + 1], {5}), FromBody(s, n + 1, k))
                       /\ Xor(Body(s)[n + 1], {5}) \in Byte \ {FLAG, ESC}
                       /\ Tail(FromBody(s, n, k)) \in Seq(Byte)
                       /\ Head(Tail(FromBody(s, n, k))) = Xor(Body(s)[n + 1], {5})
                       /\ Tail(Tail(FromBody(s, n, k))) = FromBody(s, n + 1, k)
<1> DEFINE b == Body(s)[n + 1]
<1>1. FromBody(s, n, k) = Rest(s, n, Whole(s, k)) /\ Whole(s, k) \in Seq(Byte)
  BY WholeFirst DEF FromBody
<1>2. FromBody(s, n, k) \in Seq(Byte) /\ (n = Len(Body(s)) \/ n \in 0..Len(Body(s)) - 1)
  <2>1. FromBody(s, n, k) \in Seq(Byte)
    BY PlacesOfCopy
  <2>2. Len(Body(s)) \in Nat
    BY PayloadIsSeq
  <2> QED BY <2>1, <2>2
<1>3. ASSUME n = Len(Body(s))
      PROVE  Head(FromBody(s, n, k)) = FLAG /\ Tail(FromBody(s, n, k)) = Whole(s, k)
  <2>1. FromBody(s, n, k) = Cons(FLAG, Whole(s, k)) /\ FLAG \in Byte
    BY <1>1, <1>3, RestFirst, ControlBytes
  <2> QED BY <1>1, <2>1, ConsOfBytes
<1>4. ASSUME n \in 0..Len(Body(s)) - 1
      PROVE  /\ n + 1 \in 0..Len(Body(s)) /\ b \in Byte /\ n < Len(Body(s))
             /\ FromBody(s, n + 1, k) \in Seq(Byte)
  <2>1. Len(Body(s)) \in Nat
    BY PayloadIsSeq
  <2>2. n + 1 \in 0..Len(Body(s)) /\ n < Len(Body(s))
    BY <1>4, <2>1
  <2>3. b \in Byte
    BY <1>4, BodyPrefix
  <2>4. FromBody(s, n + 1, k) \in Seq(Byte)
    BY <2>2, PlacesOfCopy
  <2> QED BY <2>2, <2>3, <2>4
<1>5. ASSUME n \in 0..Len(Body(s)) - 1, b \notin {FLAG, ESC}
      PROVE  Head(FromBody(s, n, k)) = b /\ Tail(FromBody(s, n, k)) = FromBody(s, n + 1, k)
  <2>1. FromBody(s, n, k) = Cons(b, FromBody(s, n + 1, k))
    BY <1>1, <1>4, <1>5, RestFirst DEF FromBody
  <2>2. b \in Byte /\ FromBody(s, n + 1, k) \in Seq(Byte)
    BY <1>4, <1>5
  <2> HIDE DEF b
  <2>3. \A c \in Byte : \A w \in Seq(Byte) : Head(Cons(c, w)) = c /\ Tail(Cons(c, w)) = w
    BY ConsOfBytes
  <2> QED BY <2>1, <2>2, <2>3, Zenon
<1>6. ASSUME n \in 0..Len(Body(s)) - 1, b \in {FLAG, ESC}
      PROVE  /\ Head(FromBody(s, n, k)) = ESC
             /\ Tail(FromBody(s, n, k)) = Cons(Xor(b, {5}), FromBody(s, n + 1, k))
             /\ Xor(b, {5}) \in Byte \ {FLAG, ESC}
             /\ Tail(FromBody(s, n, k)) \in Seq(Byte)
             /\ Head(Tail(FromBody(s, n, k))) = Xor(b, {5})
             /\ Tail(Tail(FromBody(s, n, k))) = FromBody(s, n + 1, k)
  <2> DEFINE x == Xor(b, {5})
             v == Cons(x, FromBody(s, n + 1, k))
  <2>1. FromBody(s, n, k) = Cons(ESC, v)
    BY <1>1, <1>4, <1>6, RestFirst DEF FromBody
  <2>2. x \in Byte \ {FLAG, ESC}
    BY <1>4, <1>6, StuffedByte
  <2> HIDE DEF x, b
  <2>3. v \in Seq(Byte) /\ Head(v) = x /\ Tail(v) = FromBody(s, n + 1, k)
    BY <1>4, <1>6, <2>2, ConsOfBytes
  <2> HIDE DEF v
  <2>4. Head(FromBody(s, n, k)) = ESC /\ Tail(FromBody(s, n, k)) = v
    BY <2>1, <2>3, ConsOfBytes, ControlBytes
  <2> QED BY <2>2, <2>3, <2>4 DEF v, x
<1> HIDE DEF b
<1> QED BY <1>1, <1>2, <1>3, <1>4, <1>5, <1>6 DEF b

LEMMA DataStep ==
    ASSUME NEW s \in Sendable, NEW k \in Nat, NEW n \in 0..Len(Body(s)),
           NEW w \in Seq(Byte), AtData(s, n, k, w), TypeOK, LlreadTakes(Head(w))
    PROVE  \/ InCopy(s, k, Tail(w))' /\ verdicts' = verdicts
           \/ Recognises(s) /\ Tail(w) = Whole(s, k)
<1> DEFINE b == Body(s)[n + 1]
<1>1. w = FromBody(s, n, k)
  BY DEF AtData
<1>2. CASE n = Len(Body(s))
  <2>1. Head(w) = FLAG /\ Tail(w) = Whole(s, k)
    BY <1>1, <1>2, BodyFirst
  <2>2. frameData = Body(s) /\ ctrl = s.ctrl
    BY <1>2, PayloadIsSeq, SubSeqFull DEF AtData, HasRead
  <2>3. EndOfFrame(FLAG)
    BY <2>1, <2>2, TakesByState, BodyIsGood DEF AtData, HasRead
  <2> QED BY <2>1, <2>2, <2>3, BodyIsGood DEF Recognises, EndOfFrame
<1>3. CASE n \in 0..Len(Body(s)) - 1 /\ b \notin {FLAG, ESC}
  <2>1. /\ Head(w) = b /\ Tail(w) = FromBody(s, n + 1, k)
        /\ n + 1 \in 0..Len(Body(s)) /\ b \in Byte
    BY <1>1, <1>3, BodyFirst
  <2>2. Collect(b)
    BY <1>3, <2>1, TakesByState DEF AtData, HasRead
  <2>3. AtData(s, n + 1, k, Tail(w))' /\ verdicts' = verdicts
    BY <1>3, <2>1, <2>2, BodyPrefix DEF AtData, HasRead, Collect
  <2> QED BY <2>1, <2>3 DEF InCopy
<1>4. CASE n \in 0..Len(Body(s)) - 1 /\ b \in {FLAG, ESC}
  <2>1. Head(w) = ESC /\ Tail(w) = Cons(Xor(b, {5}), FromBody(s, n + 1, k))
    BY <1>1, <1>4, BodyFirst
  <2>2. Escape(ESC)
    BY <2>1, TakesByState DEF AtData, HasRead
  <2>3. AtEscaped(s, n, k, Tail(w))' /\ verdicts' = verdicts
    BY <1>4, <2>1, <2>2 DEF AtData, AtEscaped, HasRead, Escape
  <2> QED BY <1>4, <2>3 DEF InCopy
<1> QED BY <1>2, <1>3, <1>4, BodyFirst

LEMMA EscapedStep ==
    ASSUME NEW s \in Sendable, NEW k \in Nat, NEW n \in 0..Len(Body(s)) - 1,
           NEW w \in Seq(Byte), AtEscaped(s, n, k, w), TypeOK, LlreadTakes(Head(w))
    PROVE  InCopy(s, k, Tail(w))' /\ verdicts' = verdicts
<1> DEFINE b == Body(s)[n + 1]
<1>1. /\ n + 1 \in 0..Len(Body(s)) /\ b \in Byte
      /\ SubSeq(Body(s), 1, n + 1) = Append(SubSeq(Body(s), 1, n), b)
  BY PayloadIsSeq, BodyPrefix
<1>2. Xor(b, {5}) \in Byte \ {FLAG, ESC} /\ Xor(Xor(b, {5}), {5}) = b
  BY <1>1, StuffedByte DEF AtEscaped
<1>3. Head(w) = Xor(b, {5}) /\ Tail(w) = FromBody(s, n + 1, k)
  <2>1. FromBody(s, n + 1, k) \in Seq(Byte) /\ Xor(b, {5}) \in Byte
    BY <1>1, <1>2, PlacesOfCopy
  <2>2. w = Cons(Xor(b, {5}), FromBody(s, n + 1, k))
    BY DEF AtEscaped
  <2> QED BY <2>1, <2>2, ConsOfBytes
<1>4. Collect(Xor(b, {5}))
  BY <1>2, <1>3, TakesByState DEF AtEscaped, HasRead
<1>5. AtData(s, n + 1, k, Tail(w))' /\ verdicts' = verdicts
  BY <1>1, <1>2, <1>3, <1>4 DEF AtData, AtEscaped, HasRead, Collect
<1> QED BY <1>1, <1>5 DEF InCopy

(* A copy read in step is recognised when its last byte has been read, and *)
(* nothing else comes of it.                                               *)
LEMMA CopyTakes ==
    ASSUME NEW s \in Sendable, NEW k \in Nat, NEW w \in Seq(Byte),
           AtFlag(s, k, w) \/ InCopy(s, k, w), TypeOK, LlreadTakes(Head(w))
    PROVE  \/ InCopy(s, k, Tail(w))' /\ verdicts' = verdicts
           \/ Recognises(s) /\ Tail(w) = Whole(s, k)
<1>1. CASE AtFlag(s, k, w)
  BY <1>1, FlagStep DEF InCopy
<1>2. CASE AtAddress(s, k, w) \/ AtControl(s, k, w) \/ AtBcc1(s, k, w)
  BY <1>2, HeaderStep
<1>3. CASE \E n \in 0..Len(Body(s)) : AtData(s, n, k, w)
  BY <1>3, DataStep
<1>4. CASE \E n \in 0..Len(Body(s)) - 1 : AtEscaped(s, n, k, w)
  BY <1>4, EscapedStep
<1> QED BY <1>1, <1>2, <1>3, <1>4 DEF InCopy

LEMMA CopyStep ==
    ASSUME NEW s \in Sendable, NEW k \in Nat, AtFlag(s, k, wire) \/ InCopy(s, k, wire),
           TypeOK, ReceiverReads
    PROVE  \/ InCopy(s, k, wire)' /\ verdicts' = verdicts
           \/ HasReadCopy(s, k)
<1>1. PICK w \in Seq(Byte) : w = wire
  BY DEF TypeOK
<1>2. LlreadTakes(Head(w)) /\ wire' = Tail(w)
  BY <1>1 DEF ReceiverReads, Receives
<1>3. AtFlag(s, k, w) \/ InCopy(s, k, w)
  BY <1>1
<1>4. \/ InCopy(s, k, Tail(w))' /\ verdicts' = verdicts
      \/ Recognises(s) /\ Tail(w) = Whole(s, k)
  BY <1>2, <1>3, CopyTakes
<1>5. InCopy(s, k, Tail(w))' => InCopy(s, k, wire)'
  BY <1>2
<1> QED BY <1>2, <1>4, <1>5 DEF HasReadCopy

(***************************************************************************)
(* A copy that is read out of step: what the damaged frame has left of the *)
(* automaton is anything.  The copy is read over, or taken for data up to  *)
(* its last FLAG; either way the next one begins where a frame may begin.  *)
(***************************************************************************)
Astray(escaped) == \/ recState = "START"
                   \/ recState = "DATA" /\ frameData # << >> /\ (esc <=> escaped)

AstrayAtAddress(s, k) == /\ wire = FromAddress(s, k)
                         /\ \/ recState = "START"
                            \/ recState = "C_RCV" /\ ctrl = FLAG
                            \/ recState = "DATA" /\ ~esc
AstrayInHeader(s, k)  == wire \in {FromControl(s, k), FromBcc1(s, k)} /\ Astray(FALSE)
AstrayAtData(s, n, k) == wire = FromBody(s, n, k) /\ Astray(FALSE)
AstrayAtEscaped(s, n, k) == /\ Body(s)[n + 1] \in {FLAG, ESC} /\ Astray(TRUE)
                            /\ wire = Cons(Xor(Body(s)[n + 1], {5}), FromBody(s, n + 1, k))

AstrayInCopy(s, k) == \/ AstrayAtAddress(s, k) \/ AstrayInHeader(s, k)
                      \/ \E n \in 0..Len(Body(s)) : AstrayAtData(s, n, k)
                      \/ \E n \in 0..Len(Body(s)) - 1 : AstrayAtEscaped(s, n, k)

LEMMA AnyStateAtFlag ==
    ASSUME NEW s \in Sendable, NEW k \in Nat, wire = Whole(s, k + 1), TypeOK, ReceiverReads
    PROVE  InCopy(s, k, wire)' \/ AstrayInCopy(s, k)'
<1>1. LlreadTakes(FLAG) /\ wire' = FromAddress(s, k)
  BY PlacesOfCopy, ReadsFirst, ControlBytes
<1>2. FLAG # A_fromT /\ FLAG # ESC /\ FLAG \in Byte
  BY ControlBytes
<1>3. CASE recState \in {"START", "FLAG_RCV"}
  <2>1. Start(FLAG) \/ FlagRcv(FLAG)
    BY <1>1, <1>3, TakesByState
  <2>2. AtAddress(s, k, wire)'
    BY <1>1, <1>2, <2>1 DEF AtAddress, Start, FlagRcv, Resync
  <2> QED BY <2>2 DEF InCopy
<1>4. CASE recState = "A_RCV"
  <2>1. ARcv(FLAG)
    BY <1>1, <1>4, TakesByState
  <2> QED BY <1>1, <2>1 DEF ARcv, AstrayInCopy, AstrayAtAddress
<1>5. CASE recState = "C_RCV"
  <2>1. CRcv(FLAG)
    BY <1>1, <1>5, TakesByState
  <2>2. \/ recState' = "DATA" /\ ~esc'
        \/ recState' = "FLAG_RCV"
    BY <2>1 DEF CRcv, Resync
  <2> QED BY <1>1, <2>2 DEF InCopy, AtAddress, AstrayInCopy, AstrayAtAddress
<1>6. CASE recState = "DATA"
  <2>1. \/ esc /\ Collect(FLAG)
        \/ ~esc /\ frameData = << >> /\ EmptyFrame(FLAG)
        \/ ~esc /\ frameData # << >> /\ EndOfFrame(FLAG)
    BY <1>1, <1>6, TakesByState
  <2>2. \/ recState' = "DATA" /\ ~esc'
        \/ recState' = "START"
    BY <1>6, <2>1 DEF Collect, EmptyFrame, EndOfFrame
  <2> QED BY <1>1, <2>2 DEF AstrayInCopy, AstrayAtAddress
<1> QED BY <1>3, <1>4, <1>5, <1>6 DEF TypeOK

(* An automaton that is astray stays so: it collects the byte or waits.    *)
LEMMA AstrayTakes ==
    ASSUME NEW b \in Byte, TypeOK, LlreadTakes(b)
    PROVE  /\ b # FLAG /\ b # ESC /\ (Astray(FALSE) \/ Astray(TRUE)) => Astray(FALSE)'
           /\ b = ESC /\ Astray(FALSE) => Astray(TRUE)'
           /\ b = FLAG /\ Astray(FALSE) => recState' \in {"START", "FLAG_RCV"}
<1>1. CASE recState = "START"
  <2>1. Start(b)
    BY <1>1, TakesByState
  <2> QED BY <2>1, ControlBytes DEF Start, Resync, Astray
<1>2. CASE recState = "DATA" /\ b # FLAG /\ b # ESC
  <2>1. Collect(b)
    BY <1>2, TakesByState
  <2>2. Xor(b, {5}) \in Byte
    BY XorOfBytes DEF Byte
  <2>3. frameData' # << >>
    BY <2>1, <2>2, AppendProperties DEF Collect, TypeOK
  <2> QED BY <1>2, <2>1, <2>3 DEF Collect, Astray
<1>3. CASE recState = "DATA" /\ b = ESC
  <2>1. Escape(b)
    BY <1>3, TakesByState
  <2> QED BY <1>3, <2>1, ControlBytes DEF Escape, Astray
<1>4. CASE recState = "DATA" /\ b = FLAG
  BY <1>4, TakesByState, ControlBytes DEF Astray, EndOfFrame
<1> QED BY <1>1, <1>2, <1>3, <1>4 DEF Astray

LEMMA AstrayStep ==
    ASSUME NEW s \in Sendable, NEW k \in Nat, AstrayInCopy(s, k), TypeOK, ReceiverReads
    PROVE  \/ AstrayInCopy(s, k)'
           \/ recState' \in {"START", "FLAG_RCV"} /\ wire' = Whole(s, k)
<1>1. /\ s.ctrl \in Byte \ {FLAG, ESC} /\ Bcc1(s) \in Byte \ {FLAG, ESC}
      /\ A_fromT \in Byte \ {FLAG, ESC} /\ FLAG \in Byte /\ ESC \in Byte
  BY PayloadIsSeq, ControlBytes DEF Bcc1
<1>2. CASE AstrayAtAddress(s, k)
  <2>1. LlreadTakes(A_fromT) /\ wire' = FromControl(s, k)
    BY <1>1, <1>2, PlacesOfCopy, ReadsFirst DEF AstrayAtAddress, FromAddress
  <2>2. CASE recState = "START"
    BY <1>1, <2>1, <2>2, AstrayTakes DEF Astray, AstrayInCopy, AstrayInHeader
  <2>3. CASE recState = "C_RCV" /\ ctrl = FLAG
    <3>1. CRcv(A_fromT)
      BY <2>1, <2>3, TakesByState
    <3>2. recState' = "START"
      BY <1>1, <2>3, <3>1, ControlBytes DEF CRcv, Resync
    <3> QED BY <2>1, <3>2 DEF Astray, AstrayInCopy, AstrayInHeader
  <2>4. CASE recState = "DATA" /\ ~esc
    <3>1. Collect(A_fromT)
      BY <1>1, <2>1, <2>4, TakesByState
    <3>2. frameData' # << >> /\ recState' = "DATA" /\ ~esc'
      <4>1. frameData' = Append(frameData, A_fromT) /\ recState' = "DATA" /\ ~esc'
        BY <2>4, <3>1 DEF Collect
      <4> QED BY <1>1, <4>1, AppendProperties DEF TypeOK
    <3> QED BY <2>1, <3>2 DEF Astray, AstrayInCopy, AstrayInHeader
  <2> QED BY <1>2, <2>2, <2>3, <2>4 DEF AstrayAtAddress
<1>3. CASE AstrayInHeader(s, k) /\ wire = FromControl(s, k)
  <2>1. LlreadTakes(s.ctrl) /\ wire' = FromBcc1(s, k)
    BY <1>1, <1>3, PlacesOfCopy, ReadsFirst DEF FromControl
  <2>2. Astray(FALSE)'
    BY <1>1, <1>3, <2>1, AstrayTakes DEF AstrayInHeader
  <2> QED BY <2>1, <2>2 DEF AstrayInCopy, AstrayInHeader
<1>4. CASE AstrayInHeader(s, k) /\ wire = FromBcc1(s, k)
  <2>1. LlreadTakes(Bcc1(s)) /\ wire' = FromBody(s, 0, k)
    BY <1>1, <1>4, PlacesOfCopy, ReadsFirst DEF FromBcc1
  <2>2. Astray(FALSE)'
    BY <1>1, <1>4, <2>1, AstrayTakes DEF AstrayInHeader
  <2> QED BY <2>1, <2>2, PlacesOfCopy DEF AstrayInCopy, AstrayAtData
<1>5. ASSUME NEW n \in 0..Len(Body(s)), AstrayAtData(s, n, k)
      PROVE  \/ AstrayInCopy(s, k)'
             \/ recState' \in {"START", "FLAG_RCV"} /\ wire' = Whole(s, k)
  <2> DEFINE b == Body(s)[n + 1]
  <2>1. Whole(s, k) \in Seq(Byte) /\ wire = Rest(s, n, Whole(s, k))
    BY <1>5, WholeFirst DEF AstrayAtData, FromBody
  <2>2. CASE n = Len(Body(s))
    <3>1. LlreadTakes(FLAG) /\ wire' = Whole(s, k)
      BY <2>1, <2>2, RestFirst, ReadsFirst, ControlBytes
    <3> QED BY <1>1, <1>5, <3>1, AstrayTakes DEF AstrayAtData
  <2>3. CASE n < Len(Body(s)) /\ b \notin {FLAG, ESC}
    <3>1. n \in 0..Len(Body(s)) - 1 /\ n + 1 \in 0..Len(Body(s))
      BY <2>3, PayloadIsSeq
    <3> b \in Byte
      BY <3>1, BodyPrefix
    <3>2. LlreadTakes(b) /\ wire' = FromBody(s, n + 1, k)
      <4>1. wire = Cons(b, Rest(s, n + 1, Whole(s, k)))
        BY <2>1, <2>3, RestFirst
      <4>2. Rest(s, n + 1, Whole(s, k)) \in Seq(Byte)
        BY <2>1, <3>1, RestFirst
      <4> QED BY <4>1, <4>2, ReadsFirst DEF FromBody
    <3>3. Astray(FALSE)'
      BY <1>5, <2>3, <3>2, AstrayTakes DEF AstrayAtData
    <3> QED BY <3>1, <3>2, <3>3 DEF AstrayInCopy, AstrayAtData
  <2>4. CASE n < Len(Body(s)) /\ b \in {FLAG, ESC}
    <3>1. n \in 0..Len(Body(s)) - 1 /\ n + 1 \in 0..Len(Body(s))
      BY <2>4, PayloadIsSeq
    <3> DEFINE w == Cons(Xor(b, {5}), FromBody(s, n + 1, k))
    <3>2. w \in Seq(Byte)
      BY <2>4, <3>1, StuffedByte, BodyPrefix, PlacesOfCopy, ConsOfBytes
    <3>3. LlreadTakes(ESC) /\ wire' = w
      <4>1. wire = Cons(ESC, w)
        BY <2>1, <2>4, RestFirst DEF FromBody
      <4> HIDE DEF w
      <4> QED BY <1>1, <3>2, <4>1, ReadsFirst
    <3>4. Astray(TRUE)'
      BY <1>1, <1>5, <3>3, AstrayTakes DEF AstrayAtData
    <3> QED BY <2>4, <3>1, <3>3, <3>4 DEF AstrayInCopy, AstrayAtEscaped
  <2>5. n = Len(Body(s)) \/ n < Len(Body(s))
    BY PayloadIsSeq
  <2> QED BY <2>2, <2>3, <2>4, <2>5
<1>6. ASSUME NEW n \in 0..Len(Body(s)) - 1, AstrayAtEscaped(s, n, k)
      PROVE  AstrayInCopy(s, k)'
  <2> DEFINE b == Body(s)[n + 1]
  <2>1. n + 1 \in 0..Len(Body(s)) /\ b \in Byte
    BY PayloadIsSeq, BodyPrefix
  <2>2. Xor(b, {5}) \in Byte \ {FLAG, ESC}
    BY <1>6, <2>1, StuffedByte DEF AstrayAtEscaped
  <2>3. LlreadTakes(Xor(b, {5})) /\ wire' = FromBody(s, n + 1, k)
    BY <1>6, <2>1, <2>2, PlacesOfCopy, ReadsFirst DEF AstrayAtEscaped
  <2>4. Astray(FALSE)'
    BY <1>6, <2>2, <2>3, AstrayTakes DEF AstrayAtEscaped
  <2> QED BY <2>1, <2>3, <2>4 DEF AstrayInCopy, AstrayAtData
<1> QED BY <1>2, <1>3, <1>4, <1>5, <1>6 DEF AstrayInCopy, AstrayInHeader

(***************************************************************************)
(* Undamaged: k copies are left behind the one that is read, and all       *)
(* before it have been recognised.                                         *)
(***************************************************************************)
Recognised(s, n) == verdicts = [i \in 1..n |-> Good(s.ctrl, s.data)]

AllInStep(s) == \/ \E k \in 0..Copies : /\ AtFlag(s, k, wire) \/ InCopy(s, k, wire)
                                        /\ Recognised(s, Copies - k)
                \/ wire = << >> /\ Recognised(s, Copies + 1)

Undamaged == direction = "forward" /\ damage = NoDamage =>
                \E s \in Sendable : sent = s /\ AllInStep(s)

LEMMA OneMore ==
    ASSUME NEW n \in Nat, NEW e
    PROVE  Append([i \in 1..n |-> e], e) = [i \in 1..n + 1 |-> e]
<1> DEFINE a == [i \in 1..n |-> e]
           b == [i \in 1..n + 1 |-> e]
<1>1. a \in Seq({e}) /\ Len(a) = n /\ b \in Seq({e}) /\ Len(b) = n + 1
  OBVIOUS
<1>2. /\ \A i \in 1..n : a[i] = e
      /\ \A i \in 1..n + 1 : b[i] = e
  OBVIOUS
<1> HIDE DEF a, b
<1>3. /\ Append(a, e) \in Seq({e}) /\ Len(Append(a, e)) = n + 1
      /\ \A i \in 1..n : Append(a, e)[i] = a[i]
      /\ Append(a, e)[n + 1] = e
  BY <1>1, AppendProperties
<1>4. \A i \in 1..n + 1 : Append(a, e)[i] = b[i]
  <2> SUFFICES ASSUME NEW i \in 1..n + 1
               PROVE  Append(a, e)[i] = b[i]
    OBVIOUS
  <2>1. i = n + 1 \/ i \in 1..n
    OBVIOUS
  <2> QED BY <1>2, <1>3, <2>1
<1>5. Append(a, e) = b
  BY <1>1, <1>3, <1>4, SeqEqual
<1> QED BY <1>5 DEF a, b

(* What a forward run starts with. *)
LEMMA ForwardWire ==
    ASSUME Init, NEW s \in Sendable, sent = s, direction = "forward"
    PROVE  /\ SentFrame = FrameOf(s) /\ Repeats = Whole(s, Copies)
           /\ damage \in Damages(FrameOf(s))
           /\ wire = Carried(FrameOf(s), damage) \o Whole(s, Copies)
           /\ Carried(FrameOf(s), damage) \in Seq(Byte)
           /\ FrameOf(s) \in Seq(Byte) /\ Whole(s, Copies) \in Seq(Byte)
           /\ verdicts = << >> /\ recState = "START"
<1>1. SentFrame = FrameOf(s) /\ Repeats = Whole(s, Copies)
  BY DEF SentFrame, Repeats, FrameOf, Whole
<1>2. Forward
  BY DEF Init, Back
<1>3. FrameOf(s) \in Seq(Byte) /\ Whole(s, Copies) \in Seq(Byte)
  BY FrameFirst, WholeFirst, EmptySeq, NoisyAssumption
<1>4. Carried(FrameOf(s), damage) \in Seq(Byte)
  BY <1>1, <1>2, <1>3, CarriedIsSeq DEF Forward
<1> QED BY <1>1, <1>2, <1>3, <1>4 DEF Forward, Init, Fresh

LEMMA ForwardStep ==
    ASSUME [Next]_vars, direction' = "forward", TypeOK, TypeOK'
    PROVE  /\ direction = "forward" /\ sent' = sent /\ damage' = damage
           /\ \/ ReceiverReads /\ wire # << >>
              \/ UNCHANGED <<recState, ctrl, esc, frameData, verdicts, wire>>
BY DEF Next, ReceiverReads, SenderReads, Receives, vars, automaton

LEMMA ReadsNothingFromNothing == ReceiverReads => wire # << >>
BY DEF ReceiverReads, Receives

LEMMA UndamagedStep ==
    ASSUME TypeOK, NEW s \in Sendable, AllInStep(s), ReceiverReads
    PROVE  AllInStep(s)'
<1>1. PICK k \in 0..Copies : /\ AtFlag(s, k, wire) \/ InCopy(s, k, wire)
                             /\ Recognised(s, Copies - k)
  BY ReadsNothingFromNothing DEF AllInStep
<1>2. k \in Nat /\ Copies \in Nat
  BY NoisyAssumption
<1>3. CASE InCopy(s, k, wire)' /\ verdicts' = verdicts
  <2>1. Recognised(s, Copies - k)'
    BY <1>1, <1>3 DEF Recognised
  <2> QED BY <1>3, <2>1 DEF AllInStep
<1>4. CASE HasReadCopy(s, k)
  <2>1. Recognised(s, Copies - k + 1)'
    <3>1. Copies - k \in Nat
      BY <1>2
    <3> QED BY <1>1, <1>4, <3>1, OneMore DEF HasReadCopy, Recognises, Recognised
  <2>2. CASE k = 0
    BY <1>2, <1>4, <2>1, <2>2, WholeFirst DEF HasReadCopy, Recognises, AllInStep
  <2>3. CASE k # 0
    <3>1. k - 1 \in 0..Copies /\ (k - 1) + 1 = k /\ Copies - (k - 1) = Copies - k + 1
      BY <1>2, <2>3
    <3>2. AtFlag(s, k - 1, wire)'
      BY <1>4, <3>1 DEF AtFlag, HasReadCopy, Recognises
    <3> QED BY <2>1, <3>1, <3>2 DEF AllInStep
  <2> QED BY <2>2, <2>3
<1> QED BY <1>1, <1>2, <1>3, <1>4, CopyStep

LEMMA UndamagedAlways == Spec => []Undamaged
<1>1. Init => Undamaged
  <2> SUFFICES ASSUME Init, direction = "forward", damage = NoDamage
               PROVE  \E s \in Sendable : sent = s /\ AllInStep(s)
    BY DEF Undamaged
  <2>0. PICK s \in Sendable : sent = s
    BY DEF Init, Forward, Back, Sendable
  <2>1. wire = Whole(s, Copies + 1)
    BY <2>0, ForwardWire, WholeFirst, NoisyAssumption DEF Carried, NoDamage
  <2>2. AtFlag(s, Copies, wire) /\ verdicts = << >>
    BY <2>0, <2>1, ForwardWire DEF AtFlag
  <2>3. Copies \in 0..Copies /\ Copies - Copies = 0
    BY NoisyAssumption
  <2>4. Recognised(s, 0)
    BY <2>2 DEF Recognised
  <2> QED BY <2>0, <2>2, <2>3, <2>4 DEF AllInStep
<1>2. TypeOK /\ TypeOK' /\ Undamaged /\ [Next]_vars => Undamaged'
  <2> SUFFICES ASSUME TypeOK, TypeOK', Undamaged, [Next]_vars, direction' = "forward", damage' = NoDamage
               PROVE  \E s \in Sendable : sent' = s /\ AllInStep(s)'
    BY DEF Undamaged
  <2>1. PICK s \in Sendable : sent = s /\ AllInStep(s)
    BY ForwardStep DEF Undamaged
  <2>2. ASSUME ReceiverReads
        PROVE  AllInStep(s)'
    BY <2>1, <2>2, UndamagedStep
  <2>3. ASSUME UNCHANGED <<recState, ctrl, esc, frameData, verdicts, wire>>
        PROVE  AllInStep(s)'
    BY <2>1, <2>3 DEF AllInStep, Recognised, AtFlag, InCopy, AtAddress, AtControl, AtBcc1,
                      AtData, AtEscaped, HasRead
  <2>4. sent' = s /\ AllInStep(s)'
    BY <2>1, <2>2, <2>3, ForwardStep
  <2> QED BY <2>4
<1> QED BY <1>1, <1>2, TypesHold, PTL DEF Spec

(* An undamaged copy, and the first frame if nothing happened to it, is    *)
(* never all read.                                                         *)
LEMMA CopyIsNotEmpty ==
    ASSUME NEW s \in Sendable, NEW k \in Nat
    PROVE  /\ Whole(s, k + 1) # << >>
           /\ InCopy(s, k, wire) => wire # << >>
           /\ AstrayInCopy(s, k) => wire # << >>
<1>1. FLAG \in Byte /\ ESC \in Byte /\ s.ctrl \in Byte /\ Bcc1(s) \in Byte /\ A_fromT \in Byte
  BY PayloadIsSeq, ControlBytes DEF Bcc1
<1>2. /\ Whole(s, k + 1) # << >> /\ FromAddress(s, k) # << >> /\ FromControl(s, k) # << >>
      /\ FromBcc1(s, k) # << >>
  <2>0. \A b \in Byte : \A w \in Seq(Byte) : Cons(b, w) # << >>
    BY ConsOfBytes
  <2>1. /\ FromAddress(s, k) \in Seq(Byte) /\ FromControl(s, k) \in Seq(Byte)
        /\ FromBcc1(s, k) \in Seq(Byte) /\ FromBody(s, 0, k) \in Seq(Byte)
        /\ Whole(s, k + 1) = Cons(FLAG, FromAddress(s, k))
    BY PlacesOfCopy
  <2> QED BY <1>1, <2>0, <2>1 DEF FromAddress, FromControl, FromBcc1
<1>3. ASSUME NEW n \in 0..Len(Body(s)) - 1
      PROVE  /\ n + 1 \in 0..Len(Body(s)) /\ Body(s)[n + 1] \in Byte
             /\ FromBody(s, n + 1, k) \in Seq(Byte)
             /\ Xor(Body(s)[n + 1], {5}) \in Byte
             /\ Cons(Xor(Body(s)[n + 1], {5}), FromBody(s, n + 1, k)) # << >>
  <2>1. n + 1 \in 0..Len(Body(s)) /\ Body(s)[n + 1] \in Byte
    BY PayloadIsSeq, BodyPrefix
  <2>2. FromBody(s, n + 1, k) \in Seq(Byte) /\ {5} \in Byte
    BY <2>1, PlacesOfCopy DEF Byte
  <2>3. Xor(Body(s)[n + 1], {5}) \in Byte
    BY <2>1, <2>2, XorOfBytes
  <2> QED BY <2>1, <2>2, <2>3, ConsOfBytes
<1>4. ASSUME NEW n \in 0..Len(Body(s))
      PROVE  FromBody(s, n, k) # << >>
  <2>1. Whole(s, k) \in Seq(Byte)
    BY WholeFirst
  <2>2. CASE n = Len(Body(s))
    <3>1. FromBody(s, n, k) = Cons(FLAG, Whole(s, k))
      BY <2>1, <2>2, RestFirst DEF FromBody
    <3> QED BY <1>1, <2>1, <3>1, ConsOfBytes
  <2>3. CASE n \in 0..Len(Body(s)) - 1
    <3>1. n < Len(Body(s))
      BY <2>3, PayloadIsSeq
    <3>2. \/ FromBody(s, n, k) = Cons(Body(s)[n + 1], FromBody(s, n + 1, k))
          \/ FromBody(s, n, k) = Cons(ESC, Cons(Xor(Body(s)[n + 1], {5}), FromBody(s, n + 1, k)))
      BY <2>1, <3>1, RestFirst DEF FromBody
    <3>3. Cons(Xor(Body(s)[n + 1], {5}), FromBody(s, n + 1, k)) \in Seq(Byte)
      BY <1>3, <2>3, ConsOfBytes
    <3>4. /\ Cons(Body(s)[n + 1], FromBody(s, n + 1, k)) # << >>
          /\ Cons(ESC, Cons(Xor(Body(s)[n + 1], {5}), FromBody(s, n + 1, k))) # << >>
      <4>1. \A b \in Byte : \A w \in Seq(Byte) : Cons(b, w) # << >>
        BY ConsOfBytes
      <4> QED BY <1>1, <1>3, <2>3, <3>3, <4>1
    <3> QED BY <3>2, <3>4
  <2>4. n = Len(Body(s)) \/ n \in 0..Len(Body(s)) - 1
    BY PayloadIsSeq
  <2> QED BY <2>2, <2>3, <2>4
<1> QED BY <1>2, <1>3, <1>4 DEF InCopy, AtAddress, AtControl, AtBcc1, AtData, AtEscaped,
        AstrayInCopy, AstrayAtAddress, AstrayInHeader, AstrayAtData, AstrayAtEscaped

(* Stuffing is transparent: whatever the payload, each undamaged frame is  *)
(* recognised exactly once and byte for byte.                              *)
THEOREM TransparentHolds == Spec => []Transparent
<1>1. ASSUME Undamaged, damage = NoDamage, AllRead
      PROVE  verdicts = [i \in 1..(Copies + 1) |-> AsSent]
  <2>1. PICK s \in Sendable : sent = s /\ AllInStep(s)
    BY <1>1 DEF Undamaged, AllRead
  <2>3. \A k \in 0..Copies : wire # << >> \/ ~(AtFlag(s, k, wire) \/ InCopy(s, k, wire))
    BY CopyIsNotEmpty DEF AtFlag
  <2> QED BY <1>1, <2>1, <2>3 DEF AllInStep, AllRead, Recognised, AsSent
<1>2. Undamaged => Transparent
  BY <1>1 DEF Transparent
<1> QED BY <1>2, UndamagedAlways, PTL

(***************************************************************************)
(* Damaged: some bytes, then the first copy, which may be read astray, and *)
(* then the others, in step.                                               *)
(***************************************************************************)
LastIs(s) == verdicts # << >> /\ Last(verdicts) = Good(s.ctrl, s.data)

Resynchronises(s) ==
    \/ \E w \in Seq(Byte) : wire = w \o Whole(s, Copies)
    \/ Copies > 0 /\ AstrayInCopy(s, Copies - 1)
    \/ \E k \in 0..Copies - 1 : /\ AtFlag(s, k, wire) \/ InCopy(s, k, wire)
                                /\ k < Copies - 2 => LastIs(s)
    \/ wire = << >> /\ (Copies >= 2 => LastIs(s))

BackInStep == direction = "forward" => \E s \in Sendable : sent = s /\ Resynchronises(s)

LEMMA NewestIsLast ==
    ASSUME TypeOK, TypeOK', NEW s \in Sendable, NEW k, HasReadCopy(s, k)
    PROVE  LastIs(s)'
<1>1. s.ctrl \in Byte /\ s.data \in Seq(Byte)
  BY PayloadIsSeq, ControlBytes
<1>2. Good(s.ctrl, s.data) \in Verdicts
  BY <1>1 DEF Good, Verdicts
<1>3. PICK g : g = Good(s.ctrl, s.data)
  OBVIOUS
<1>4. verdicts \in Seq(Verdicts) /\ g \in Verdicts /\ verdicts' = Append(verdicts, g)
  BY <1>2, <1>3 DEF HasReadCopy, Recognises, TypeOK
<1>5. Append(verdicts, g) # << >> /\ Append(verdicts, g)[Len(Append(verdicts, g))] = g
  BY <1>4, AppendProperties
<1> QED BY <1>3, <1>4, <1>5 DEF LastIs, Last

LEMMA TailOfConcat ==
    ASSUME NEW a \in Seq(Byte), NEW b \in Seq(Byte), a # << >>
    PROVE  /\ Head(a \o b) = Head(a) /\ Tail(a \o b) = Tail(a) \o b
           /\ Head(a) \in Byte /\ Tail(a) \in Seq(Byte)
<1>1. /\ Head(a) \in Byte /\ Tail(a) \in Seq(Byte) /\ Len(Tail(a)) = Len(a) - 1
      /\ \A i \in 1..Len(a) - 1 : Tail(a)[i] = a[i + 1]
  BY HeadTailProperties
<1>2. Len(a) \in Nat \ {0} /\ Len(b) \in Nat
  BY EmptySeq, LenProperties
<1>3. a = Cons(Head(a), Tail(a))
  <2>1. /\ <<Head(a)>> \in Seq(Byte) /\ Len(<<Head(a)>>) = 1 /\ <<Head(a)>>[1] = a[1]
    BY <1>1
  <2>2. /\ Cons(Head(a), Tail(a)) \in Seq(Byte) /\ Len(Cons(Head(a), Tail(a))) = Len(a)
        /\ \A i \in 1..Len(a) : Cons(Head(a), Tail(a))[i] = IF i <= 1 THEN a[1] ELSE Tail(a)[i - 1]
    BY <1>1, <1>2, <2>1, ConcatProperties DEF Cons
  <2>3. \A i \in 1..Len(a) : i > 1 => Tail(a)[i - 1] = a[i]
    BY <1>1, <1>2
  <2>4. \A i \in 1..Len(a) : Cons(Head(a), Tail(a))[i] = a[i]
    <3> SUFFICES ASSUME NEW i \in 1..Len(a)
                 PROVE  Cons(Head(a), Tail(a))[i] = a[i]
      OBVIOUS
    <3>1. i = 1 \/ i > 1
      BY <1>2
    <3> QED BY <1>2, <2>2, <2>3, <3>1
  <2> QED BY <2>2, <2>4, SeqEqual
<1>4. Cons(Head(a), Tail(a)) \o b = Cons(Head(a), Tail(a) \o b) /\ Tail(a) \o b \in Seq(Byte)
  BY <1>1, ConsIsOfFirst, ConcatProperties
<1>5. a \o b = Cons(Head(a), Tail(a) \o b)
  BY <1>3, <1>4
<1>6. \A x \in Byte : \A w \in Seq(Byte) : Head(Cons(x, w)) = x /\ Tail(Cons(x, w)) = w
  BY ConsOfBytes
<1>7. Head(a \o b) = Head(a) /\ Tail(a \o b) = Tail(a) \o b
  BY <1>1, <1>4, <1>5, <1>6, Zenon
<1> QED BY <1>1, <1>7

LEMMA ResynchronisesStep ==
    ASSUME TypeOK, TypeOK', NEW s \in Sendable, Resynchronises(s), ReceiverReads
    PROVE  Resynchronises(s)'
<1>1. Copies \in Nat /\ wire # << >> /\ wire' = Tail(wire) /\ Whole(s, Copies) \in Seq(Byte)
  BY NoisyAssumption, WholeFirst DEF ReceiverReads, Receives
<1>2. ASSUME NEW w \in Seq(Byte), wire = w \o Whole(s, Copies), w # << >>
      PROVE  Resynchronises(s)'
  <2>1. wire' = Tail(w) \o Whole(s, Copies) /\ Tail(w) \in Seq(Byte)
    BY <1>1, <1>2, TailOfConcat
  <2> QED BY <2>1 DEF Resynchronises
<1>3. ASSUME wire = Whole(s, Copies)
      PROVE  Resynchronises(s)'
  <2>1. Copies # 0
    BY <1>1, <1>3, WholeFirst
  <2>2. Copies - 1 \in 0..Copies - 1 /\ Copies - 1 \in Nat /\ (Copies - 1) + 1 = Copies
        /\ ~(Copies - 1 < Copies - 2) /\ Copies > 0
    BY <1>1, <2>1
  <2>3. InCopy(s, Copies - 1, wire)' \/ AstrayInCopy(s, Copies - 1)'
    BY <1>3, <2>2, AnyStateAtFlag
  <2> QED BY <2>2, <2>3 DEF Resynchronises
<1>4. ASSUME Copies > 0, AstrayInCopy(s, Copies - 1)
      PROVE  Resynchronises(s)'
  <2>1. Copies - 1 \in Nat
    BY <1>1, <1>4
  <2>2. \/ AstrayInCopy(s, Copies - 1)'
        \/ recState' \in {"START", "FLAG_RCV"} /\ wire' = Whole(s, Copies - 1)
    BY <1>4, <2>1, AstrayStep
  <2>3. CASE AstrayInCopy(s, Copies - 1)'
    BY <1>4, <2>3 DEF Resynchronises
  <2>4. CASE wire' = Whole(s, Copies - 1) /\ Copies = 1
    BY <2>4, WholeFirst DEF Resynchronises
  <2>5. CASE recState' \in {"START", "FLAG_RCV"} /\ wire' = Whole(s, Copies - 1) /\ Copies # 1
    <3>1. Copies - 2 \in 0..Copies - 1 /\ (Copies - 2) + 1 = Copies - 1
          /\ ~(Copies - 2 < Copies - 2)
      BY <1>1, <1>4, <2>5
    <3>2. AtFlag(s, Copies - 2, wire)'
      BY <2>5, <3>1 DEF AtFlag
    <3> QED BY <3>1, <3>2 DEF Resynchronises
  <2> QED BY <2>2, <2>3, <2>4, <2>5
<1>5. ASSUME NEW k \in 0..Copies - 1, AtFlag(s, k, wire) \/ InCopy(s, k, wire), k < Copies - 2 => LastIs(s)
      PROVE  Resynchronises(s)'
  <2>1. k \in Nat
    OBVIOUS
  <2>2. CASE InCopy(s, k, wire)' /\ verdicts' = verdicts
    <3>1. LastIs(s) => LastIs(s)'
      BY <2>2 DEF LastIs
    <3> QED BY <1>5, <2>2, <3>1 DEF Resynchronises
  <2>3. CASE HasReadCopy(s, k)
    <3>1. LastIs(s)'
      BY <2>3, NewestIsLast
    <3>2. CASE k = 0
      BY <2>1, <2>3, <3>1, <3>2, WholeFirst DEF HasReadCopy, Recognises, Resynchronises
    <3>3. CASE k # 0
      <4>1. k - 1 \in 0..Copies - 1 /\ (k - 1) + 1 = k
        BY <1>1, <3>3
      <4>2. AtFlag(s, k - 1, wire)'
        BY <2>3, <4>1 DEF AtFlag, HasReadCopy, Recognises
      <4> QED BY <3>1, <4>1, <4>2 DEF Resynchronises
    <3> QED BY <3>2, <3>3
  <2> QED BY <1>5, <2>1, <2>2, <2>3, CopyStep
<1>6. \A w \in Seq(Byte) : w = << >> => w \o Whole(s, Copies) = Whole(s, Copies)
  BY <1>1, ConcatEmptySeq
<1> QED BY <1>1, <1>2, <1>3, <1>4, <1>5, <1>6 DEF Resynchronises

LEMMA BackInStepAlways == Spec => []BackInStep
<1>1. Init => BackInStep
  <2> SUFFICES ASSUME Init, direction = "forward"
               PROVE  \E s \in Sendable : sent = s /\ Resynchronises(s)
    BY DEF BackInStep
  <2>1. PICK s \in Sendable : sent = s
    BY DEF Init, Forward, Back, Sendable
  <2>2. /\ wire = Carried(FrameOf(s), damage) \o Whole(s, Copies)
        /\ Carried(FrameOf(s), damage) \in Seq(Byte)
    BY <2>1, ForwardWire
  <2> QED BY <2>1, <2>2 DEF Resynchronises
<1>2. TypeOK /\ TypeOK' /\ BackInStep /\ [Next]_vars => BackInStep'
  <2> SUFFICES ASSUME TypeOK, TypeOK', BackInStep, [Next]_vars, direction' = "forward"
               PROVE  \E s \in Sendable : sent' = s /\ Resynchronises(s)'
    BY DEF BackInStep
  <2>1. PICK s \in Sendable : sent = s /\ Resynchronises(s)
    BY ForwardStep DEF BackInStep
  <2>2. ASSUME ReceiverReads
        PROVE  Resynchronises(s)'
    BY <2>1, <2>2, ResynchronisesStep
  <2>3. ASSUME UNCHANGED <<recState, ctrl, esc, frameData, verdicts, wire>>
        PROVE  Resynchronises(s)'
    BY <2>1, <2>3 DEF Resynchronises, LastIs, AtFlag, InCopy, AtAddress, AtControl, AtBcc1,
                      AtData, AtEscaped, HasRead, AstrayInCopy, AstrayAtAddress,
                      AstrayInHeader, AstrayAtData, AstrayAtEscaped, Astray
  <2>4. sent' = s /\ Resynchronises(s)'
    BY <2>1, <2>2, <2>3, ForwardStep
  <2> QED BY <2>4
<1> QED BY <1>1, <1>2, TypesHold, PTL DEF Spec

(* Whatever one bit or any run of bytes that is lost makes of a frame, the *)
(* second of the copies that follow is recognised, and so is every later   *)
(* one.                                                                    *)
THEOREM SecondCopyRecognisedHolds == Spec => []SecondCopyRecognised
<1>1. ASSUME BackInStep, AllRead, Copies >= 2
      PROVE  verdicts # << >> /\ Last(verdicts) = AsSent
  <2>1. PICK s \in Sendable : sent = s /\ Resynchronises(s)
    BY <1>1 DEF BackInStep, AllRead
  <2>2. Copies \in Nat /\ Copies - 1 \in Nat /\ (Copies - 1) + 1 = Copies /\ wire = << >>
    BY <1>1, NoisyAssumption DEF AllRead
  <2>3. Whole(s, Copies) # << >> /\ ~AstrayInCopy(s, Copies - 1)
    BY <2>2, CopyIsNotEmpty
  <2>4. \A k \in 0..Copies - 1 : ~(AtFlag(s, k, wire) \/ InCopy(s, k, wire))
    BY <2>2, CopyIsNotEmpty DEF AtFlag
  <2>5. \A w \in Seq(Byte) : w \o Whole(s, Copies) # << >>
    BY <2>2, <2>3, WholeFirst, ConcatEqualIffEmpty
  <2>6. LastIs(s)
    BY <1>1, <2>1, <2>2, <2>3, <2>4, <2>5 DEF Resynchronises
  <2> QED BY <2>1, <2>6 DEF LastIs, AsSent
<1>2. BackInStep => SecondCopyRecognised
  BY <1>1 DEF SecondCopyRecognised
<1> QED BY <1>2, BackInStepAlways, PTL

(***************************************************************************)
(* Counting: FLAGs are what a call of llread needs to answer.  One moves   *)
(* the automaton from START, another one, at least, ends the frame.        *)
(***************************************************************************)
(* The FLAGs of w are at places of F, counted from the end: what is read   *)
(* of w does not move those that are left.                                 *)
FlagsWithin(w, F) == \A i \in 1..Len(w) : w[i] = FLAG => Len(w) - i + 1 \in F

LEMMA FrameFlags ==
    ASSUME NEW s \in Sendable
    PROVE  \A i \in 1..Len(FrameOf(s)) : FrameOf(s)[i] = FLAG => i \in {1, Len(FrameOf(s))}
<1> DEFINE r == StuffedFrom(s, 0)
           m == Cons(A_fromT, Cons(s.ctrl, Cons(Bcc1(s), r)))
           t == <<FLAG>>
<1>1. 0 \in 0..Len(Body(s))
  BY PayloadIsSeq
<1>2. r \in Seq(NotFlag) /\ A_fromT \in NotFlag /\ s.ctrl \in NotFlag /\ Bcc1(s) \in NotFlag
  BY <1>1, StuffedFromFirst, PayloadIsSeq, ControlBytes DEF NotFlag, Bcc1
<1>3. t \in Seq(Byte) /\ Len(t) = 1 /\ t[1] = FLAG /\ t = Cons(FLAG, << >>)
  <2>1. t \in Seq(Byte) /\ Len(t) = 1 /\ t[1] = FLAG
    BY ControlBytes
  <2>2. <<FLAG>> \o << >> = t
    BY <2>1, ConcatEmptySeq
  <2> QED BY <2>1, <2>2 DEF Cons
<1>4. FrameOf(s) = Cons(FLAG, Cons(A_fromT, Cons(s.ctrl, Cons(Bcc1(s), r \o t)))) /\ FrameOf(s) \in Seq(Byte)
  <2>1. << >> \in Seq(Byte)
    BY EmptySeq
  <2>2. FrameOf(s) \in Seq(Byte) /\ FrameOf(s) \o << >> = FrameOf(s)
    BY <2>1, FrameFirst, ConcatEmptySeq
  <2>3. Rest(s, 0, << >>) = r \o t
    BY <1>3 DEF Rest
  <2>4. FrameOf(s) \o << >> =
          Cons(FLAG, Cons(A_fromT, Cons(s.ctrl, Cons(Bcc1(s), Rest(s, 0, << >>)))))
    BY <2>1, FrameFirst
  <2> HIDE DEF r, t
  <2> QED BY <2>2, <2>3, <2>4
<1>5. m \in Seq(NotFlag) /\ m \o t = Cons(A_fromT, Cons(s.ctrl, Cons(Bcc1(s), r \o t)))
  <2> HIDE DEF r, t
  <2> DEFINE m3 == Cons(Bcc1(s), r)
             m2 == Cons(s.ctrl, m3)
  <2>0. \A b \in NotFlag : b \in Byte
    BY DEF NotFlag
  <2>1. m3 \in Seq(NotFlag) /\ m3 \o t = Cons(Bcc1(s), r \o t)
    BY <1>2, <1>3, <2>0, ConsOfBytes, ConsIsOfFirst, NotFlagIsByte
  <2> HIDE DEF m3
  <2>2. m2 \in Seq(NotFlag) /\ m2 \o t = Cons(s.ctrl, m3 \o t)
    BY <1>2, <1>3, <2>0, <2>1, ConsOfBytes, ConsIsOfFirst, NotFlagIsByte
  <2> HIDE DEF m2
  <2>3. Cons(A_fromT, m2) \in Seq(NotFlag) /\ Cons(A_fromT, m2) \o t = Cons(A_fromT, m2 \o t)
    BY <1>2, <1>3, <2>0, <2>2, ConsOfBytes, ConsIsOfFirst, NotFlagIsByte
  <2> QED BY <2>1, <2>2, <2>3 DEF m2, m3
<1> HIDE DEF m, t, r
<1>6. FrameOf(s) = <<FLAG>> \o (m \o t)
  BY <1>4, <1>5 DEF Cons
<1>7. /\ Len(m \o t) = Len(m) + 1 /\ Len(m) \in Nat /\ m \o t \in Seq(Byte)
      /\ \A i \in 1..Len(m) + 1 : (m \o t)[i] = IF i <= Len(m) THEN m[i] ELSE t[i - Len(m)]
      /\ \A i \in 1..Len(m) : m[i] # FLAG
  <2>1. m \in Seq(Byte) /\ Len(m) \in Nat /\ \A i \in 1..Len(m) : m[i] \in NotFlag
    BY <1>5, NotFlagIsByte, LenProperties, ElementOfSeq
  <2> QED BY <1>3, <2>1, ConcatProperties DEF NotFlag
<1>8. /\ Len(FrameOf(s)) = Len(m) + 2
      /\ \A i \in 1..Len(m) + 2 : FrameOf(s)[i] = IF i <= 1 THEN FLAG ELSE (m \o t)[i - 1]
  <2> DEFINE f == <<FLAG>>
             v == m \o t
  <2>1. f \in Seq(Byte) /\ Len(f) = 1 /\ f[1] = FLAG
    BY ControlBytes
  <2>2. v \in Seq(Byte) /\ Len(v) = Len(m) + 1 /\ FrameOf(s) = f \o v
    BY <1>6, <1>7
  <2> HIDE DEF f, v
  <2>3. Len(f \o v) = Len(f) + Len(v) /\ \A i \in 1..Len(f) + Len(v) :
           (f \o v)[i] = IF i <= Len(f) THEN f[i] ELSE v[i - Len(f)]
    BY <2>1, <2>2, ConcatProperties
  <2> QED BY <1>7, <2>1, <2>2, <2>3 DEF v
<1>9. ASSUME NEW i \in 1..Len(m) + 2, i # 1, i # Len(m) + 2
      PROVE  FrameOf(s)[i] # FLAG
  <2>1. i - 1 \in 1..Len(m) /\ i - 1 \in 1..Len(m) + 1 /\ ~(i <= 1)
    BY <1>7, <1>9
  <2>2. FrameOf(s)[i] = m[i - 1]
    BY <1>7, <1>8, <2>1
  <2> QED BY <1>7, <2>1, <2>2
<1> QED BY <1>8, <1>9

LEMMA TailFlags ==
    ASSUME NEW w \in Seq(Byte), w # << >>, NEW F, IsFiniteSet(F), FlagsWithin(w, F)
    PROVE  \E G : /\ IsFiniteSet(G) /\ FlagsWithin(Tail(w), G)
                  /\ Cardinality(G) + (IF Head(w) = FLAG THEN 1 ELSE 0) <= Cardinality(F)
<1>1. /\ Len(w) \in Nat \ {0} /\ Len(Tail(w)) = Len(w) - 1 /\ Head(w) = w[1]
      /\ \A i \in 1..Len(w) - 1 : Tail(w)[i] = w[i + 1]
  BY EmptySeq, HeadTailProperties
<1>2. FlagsWithin(Tail(w), F \ {Len(w)})
  <2> SUFFICES ASSUME NEW i \in 1..Len(Tail(w)), Tail(w)[i] = FLAG
               PROVE  Len(Tail(w)) - i + 1 \in F \ {Len(w)}
    BY DEF FlagsWithin
  <2>1. i + 1 \in 1..Len(w) /\ w[i + 1] = FLAG
    BY <1>1
  <2>2. Len(w) - (i + 1) + 1 \in F
    BY <2>1 DEF FlagsWithin
  <2>3. /\ Len(Tail(w)) - i + 1 = Len(w) - (i + 1) + 1
        /\ Len(Tail(w)) - i + 1 # Len(w)
    <3>1. PICK n \in Nat : n = Len(w) /\ Len(Tail(w)) = n - 1 /\ i \in 1..n - 1
      BY <1>1
    <3>2. n - 1 - i + 1 = n - (i + 1) + 1 /\ n - 1 - i + 1 # n
      BY <3>1
    <3> QED BY <3>1, <3>2
  <2> QED BY <2>2, <2>3
<1>3. Head(w) = FLAG => Len(w) \in F
  <2>1. Head(w) = FLAG => Len(w) - 1 + 1 \in F
    BY <1>1 DEF FlagsWithin
  <2> QED BY <1>1, <2>1
<1>4. /\ IsFiniteSet(F \ {Len(w)}) /\ Cardinality(F) \in Nat
      /\ Cardinality(F \ {Len(w)}) = IF Len(w) \in F THEN Cardinality(F) - 1 ELSE Cardinality(F)
  BY FS_RemoveElement, FS_CardinalityType
<1> QED BY <1>2, <1>3, <1>4

LEMMA AtMostTwo ==
    ASSUME NEW a, NEW b
    PROVE  IsFiniteSet({a, b}) /\ Cardinality({a, b}) <= 2 /\ Cardinality({a, b}) \in Nat
<1>1. IsFiniteSet({a}) /\ Cardinality({a}) = 1
  BY FS_Singleton
<1>2. {a, b} = {a} \cup {b}
  OBVIOUS
<1>3. /\ IsFiniteSet({a} \cup {b})
      /\ Cardinality({a} \cup {b}) = IF b \in {a} THEN Cardinality({a}) ELSE Cardinality({a}) + 1
  BY <1>1, FS_AddElement
<1> QED BY <1>1, <1>2, <1>3

LEMMA AtMostThree ==
    ASSUME NEW a, NEW b, NEW c
    PROVE  IsFiniteSet({a, b, c}) /\ Cardinality({a, b, c}) <= 3 /\ Cardinality({a, b, c}) \in Nat
<1>1. {a, b, c} = {a, b} \cup {c}
  OBVIOUS
<1>2. /\ IsFiniteSet({a, b} \cup {c})
      /\ Cardinality({a, b} \cup {c}) =
           IF c \in {a, b} THEN Cardinality({a, b}) ELSE Cardinality({a, b}) + 1
  BY AtMostTwo, FS_AddElement
<1>3. PICK n \in Nat : n = Cardinality({a, b}) /\ n <= 2
  BY AtMostTwo
<1>4. Cardinality({a, b} \cup {c}) \in {n, n + 1}
  BY <1>2, <1>3
<1>5. Cardinality({a, b} \cup {c}) <= 3 /\ Cardinality({a, b} \cup {c}) \in Nat
  BY <1>3, <1>4
<1> QED BY <1>1, <1>2, <1>5

LEMMA FrameIsNotEmpty ==
    ASSUME NEW s \in Sendable
    PROVE  FrameOf(s) # << >>
<1>1. << >> \in Seq(Byte)
  BY EmptySeq
<1>2. FrameOf(s) \o << >> = FrameOf(s)
  BY <1>1, FrameFirst, ConcatEmptySeq
<1>3. Rest(s, 0, << >>) \in Seq(Byte)
  <2>1. 0 \in 0..Len(Body(s))
    BY PayloadIsSeq
  <2> QED BY <1>1, <2>1, RestFirst
<1>4. \A a \in Byte : \A w \in Seq(Byte) : Cons(a, w) \in Seq(Byte) /\ Cons(a, w) # << >>
  BY ConsOfBytes
<1>5. Bcc1(s) \in Byte /\ s.ctrl \in Byte /\ A_fromT \in Byte /\ FLAG \in Byte
  BY PayloadIsSeq, ControlBytes DEF Bcc1
<1> QED BY <1>1, <1>2, <1>3, <1>4, <1>5, FrameFirst

(* An undamaged frame holds two FLAGs, a damaged one at most three.        *)
LEMMA FrameHasTwo ==
    ASSUME NEW s \in Sendable
    PROVE  \E F : IsFiniteSet(F) /\ FlagsWithin(FrameOf(s), F) /\ Cardinality(F) <= 2
<1> DEFINE n == Len(FrameOf(s))
<1>1. n \in Nat
  BY FrameFirst, EmptySeq, LenProperties
<1>2. FlagsWithin(FrameOf(s), {n, 1})
  <2> SUFFICES ASSUME NEW i \in 1..n, FrameOf(s)[i] = FLAG
               PROVE  n - i + 1 \in {n, 1}
    BY DEF FlagsWithin
  <2>1. i \in {1, n}
    BY FrameFlags
  <2> HIDE DEF n
  <2> QED BY <1>1, <2>1
<1> QED BY <1>2, AtMostTwo

LEMMA CarriedHasThree ==
    ASSUME NEW s \in Sendable, NEW d \in Damages(FrameOf(s))
    PROVE  \E F : /\ IsFiniteSet(F) /\ FlagsWithin(Carried(FrameOf(s), d), F)
                  /\ Cardinality(F) <= 3
<1> DEFINE w == FrameOf(s)
           n == Len(w)
<1>1. w \in Seq(Byte) /\ n \in Nat /\ \A i \in 1..n : w[i] \in Byte
  BY FrameFirst, EmptySeq, LenProperties, ElementOfSeq
<1>2. \A i \in 1..n : w[i] = FLAG => i \in {1, n}
  BY FrameFlags
<1> HIDE DEF w, n
<1>3. CASE d = NoDamage
  <2>1. Carried(w, d) = w
    BY <1>3 DEF Carried, NoDamage
  <2>2. PICK F : IsFiniteSet(F) /\ FlagsWithin(w, F) /\ Cardinality(F) <= 2
    BY FrameHasTwo DEF w
  <2>3. Cardinality(F) \in Nat
    BY <2>2, FS_CardinalityType
  <2> QED BY <2>1, <2>2, <2>3 DEF w
<1>4. CASE d \in Flips(w)
  <2>1. /\ d.kind = "flip" /\ d.at \in 1..n /\ {d.bit} \in Byte
        /\ Carried(w, d) = [w EXCEPT ![d.at] = Xor(w[d.at], {d.bit})]
    BY <1>4 DEF Flips, Carried, Byte, n
  <2>2. PICK x \in Byte : x = Xor(w[d.at], {d.bit})
    BY <1>1, <2>1, XorOfBytes
  <2>3. /\ Len(Carried(w, d)) = n
        /\ \A j \in 1..n : Carried(w, d)[j] = IF j = d.at THEN x ELSE w[j]
    BY <1>1, <2>1, <2>2, ExceptSeq DEF n
  <2>4. FlagsWithin(Carried(w, d), {n, 1, n - d.at + 1})
    <3> SUFFICES ASSUME NEW i \in 1..n, Carried(w, d)[i] = FLAG
                 PROVE  n - i + 1 \in {n, 1, n - d.at + 1}
      BY <2>3 DEF FlagsWithin
    <3>1. i \in {1, n, d.at}
      BY <1>2, <2>3
    <3> QED BY <1>1, <2>1, <3>1
  <2> QED BY <2>4, AtMostThree DEF w
<1>5. CASE d \in Losses(w)
  <2>1. /\ d.kind = "loss" /\ d.from \in 1..n /\ d.to \in 1..n /\ d.from <= d.to
        /\ Carried(w, d) = SubSeq(w, 1, d.from - 1) \o SubSeq(w, d.to + 1, n)
    BY <1>5 DEF Losses, Carried, n
  <2>2. PICK a \in Nat, b \in Nat : a = d.from - 1 /\ b = d.to /\ a < b /\ b <= n
    BY <1>1, <2>1
  <2>3. PICK m \in Nat : m = n - b /\ n = b + m
    BY <1>1, <2>2
  <2> DEFINE x == SubSeq(w, 1, a)
             y == SubSeq(w, b + 1, n)
  <2>4. x \in Seq(Byte) /\ Len(x) = a /\ \A i \in 1..a : x[i] = w[i]
    <3>1. \A i \in 1..a : w[i] \in Byte
      BY <1>1, <2>2
    <3> QED BY <2>2, <3>1, SubSeqProperties
  <2>5. y \in Seq(Byte) /\ Len(y) = m /\ \A i \in 1..m : y[i] = w[b + i]
    <3>1. b + 1 \in Int /\ n \in Int /\ \A i \in b + 1..n : w[i] \in Byte
      BY <1>1, <2>2
    <3>2. /\ y \in Seq(Byte) /\ Len(y) = IF b + 1 <= n THEN n - (b + 1) + 1 ELSE 0
          /\ \A i \in 1..n - (b + 1) + 1 : y[i] = w[(b + 1) + i - 1]
      BY <3>1, SubSeqProperties
    <3> HIDE DEF y
    <3>3. Len(y) = m /\ n - (b + 1) + 1 = m
      BY <2>3, <3>2
    <3>4. ASSUME NEW i \in 1..m
          PROVE  y[i] = w[b + i]
      <4>1. (b + 1) + i - 1 = b + i
        OBVIOUS
      <4> QED BY <3>2, <3>3, <4>1
    <3> QED BY <3>2, <3>3, <3>4
  <2>6. Carried(w, d) = x \o y
    BY <2>1, <2>2
  <2> HIDE DEF x, y
  <2>7. /\ Len(x \o y) = a + m
        /\ \A i \in 1..a + m : (x \o y)[i] = IF i <= a THEN x[i] ELSE y[i - a]
    <3>1. /\ Len(x \o y) = Len(x) + Len(y)
          /\ \A i \in 1..Len(x) + Len(y) : (x \o y)[i] = IF i <= Len(x) THEN x[i] ELSE y[i - Len(x)]
      BY <2>4, <2>5, ConcatProperties
    <3> QED BY <2>4, <2>5, <3>1
  <2>8. FlagsWithin(x \o y, {a + m, 1})
    <3> SUFFICES ASSUME NEW i \in 1..a + m, (x \o y)[i] = FLAG
                 PROVE  (a + m) - i + 1 \in {a + m, 1}
      BY <2>7 DEF FlagsWithin
    <3>1. CASE i <= a
      <4>1. i \in 1..a /\ i \in 1..n /\ i # n
        BY <1>1, <2>2, <3>1
      <4>2. w[i] = FLAG
        BY <2>4, <2>7, <3>1, <4>1
      <4>3. i = 1
        BY <1>2, <4>1, <4>2
      <4> QED BY <4>3
    <3>2. CASE ~(i <= a)
      <4>1. PICK j \in 1..m : i = a + j
        <5>1. i - a \in 1..m /\ i = a + (i - a)
          BY <3>2
        <5> QED BY <5>1
      <4>2. i - a = j /\ b + j \in 1..n /\ b + j # 1
        <5>1. j \in Nat /\ 1 <= j /\ j <= m /\ 1 <= b
          BY <2>2, <4>1
        <5>2. b + j \in Nat /\ 1 <= b + j /\ b + j <= n /\ b + j # 1
          BY <2>3, <5>1
        <5> QED BY <4>1, <5>1, <5>2
      <4>3. w[b + j] = FLAG
        BY <2>5, <2>7, <3>2, <4>1, <4>2
      <4>4. b + j = n
        BY <1>2, <4>2, <4>3
      <4>5. j = m
        BY <2>3, <4>4
      <4> QED BY <4>1, <4>5
    <3> QED BY <3>1, <3>2
  <2>9. PICK c : c = a + m
    OBVIOUS
  <2>10. IsFiniteSet({c, 1}) /\ Cardinality({c, 1}) <= 3
    <3>1. PICK e \in Nat : e = Cardinality({c, 1}) /\ e <= 2
      BY AtMostTwo
    <3>2. e <= 3
      BY <3>1
    <3>3. IsFiniteSet({c, 1})
      BY AtMostTwo
    <3> QED BY <3>1, <3>2, <3>3
  <2> QED BY <2>6, <2>8, <2>9, <2>10 DEF w
<1> QED BY <1>3, <1>4, <1>5 DEF Damages, w

(***************************************************************************)
(* Two for a verdict, and one for a FLAG that has not led to one yet.      *)
(***************************************************************************)
Spent == 2 * Len(verdicts) + (IF recState = "START" THEN 0 ELSE 1)

LEMMA SpentStep ==
    ASSUME TypeOK, TypeOK', NEW b \in Byte, LlreadTakes(b)
    PROVE  /\ Spent \in Nat /\ Spent' \in Nat
           /\ Spent' <= Spent + (IF b = FLAG THEN 1 ELSE 0)
<1>1. PICK n \in Nat : n = Len(verdicts)
  BY LenProperties DEF TypeOK
<1>2. \/ /\ Len(verdicts') = n
         /\ recState = "START" /\ recState' # "START" => b = FLAG
      \/ /\ Len(verdicts') = n + 1
         /\ recState = "DATA" /\ recState' = "START" /\ b = FLAG
  <2>1. CASE EndOfFrame(b)
    <3>1. PICK g : g = Verdict(frameData) /\ verdicts' = Append(verdicts, g)
      BY <2>1 DEF EndOfFrame
    <3>2. verdicts' \in Seq(Verdicts) /\ verdicts \in Seq(Verdicts)
      BY DEF TypeOK
    <3>3. Len(Append(verdicts, g)) = Len(verdicts) + 1
      BY <3>2
    <3> QED BY <1>1, <2>1, <3>1, <3>3 DEF EndOfFrame
  <2>2. CASE ~EndOfFrame(b)
    <3>1. verdicts' = verdicts
      BY <2>2 DEF LlreadTakes, Start, FlagRcv, ARcv, CRcv, Escape, Collect, EmptyFrame, Resync
    <3>2. recState = "START" => Start(b)
      BY TakesByState
    <3> QED BY <1>1, <3>1, <3>2 DEF Start, Resync
  <2> QED BY <2>1, <2>2
<1> QED BY <1>1, <1>2 DEF Spent

(* The bytes t of the damaged frame, or of a copy, are left, and k copies  *)
(* after them.  What has been spent and the FLAGs of t do not exceed three *)
(* for the damaged frame and two for each copy begun.                      *)
Affordable(s, k, t, F) ==
    /\ wire = t \o Whole(s, k)
    /\ IsFiniteSet(F) /\ FlagsWithin(t, F)
    /\ Spent + Cardinality(F) <= 2 * (Copies - k) + 3

Answers == direction = "forward" =>
              \E s \in Sendable : sent = s /\ \E k \in 0..Copies : \E t \in Seq(Byte) :
                  \E F : Affordable(s, k, t, F)

(* A part that has been read gives way to the next copy.                   *)
LEMMA NextCopy ==
    ASSUME TypeOK, NEW s \in Sendable, NEW k \in 0..Copies, NEW F,
           Affordable(s, k, << >>, F), wire # << >>
    PROVE  \E G : k - 1 \in 0..Copies /\ Affordable(s, k - 1, FrameOf(s), G)
<1>1. Copies \in Nat /\ k \in Nat /\ wire = Whole(s, k)
  BY NoisyAssumption, WholeFirst, ConcatEmptySeq DEF Affordable
<1>2. k - 1 \in Nat /\ k - 1 \in 0..Copies /\ (k - 1) + 1 = k
  <2>1. k # 0
    BY <1>1, WholeFirst
  <2> QED BY <1>1, <2>1
<1>3. wire = FrameOf(s) \o Whole(s, k - 1)
  BY <1>1, <1>2, WholeFirst
<1>4. PICK G : IsFiniteSet(G) /\ FlagsWithin(FrameOf(s), G) /\ Cardinality(G) <= 2
  BY FrameHasTwo
<1>5. PICK c \in Nat, g \in Nat, p \in Nat : c = Cardinality(F) /\ g = Cardinality(G) /\ p = Spent
  <2>1. Cardinality(F) \in Nat /\ Cardinality(G) \in Nat
    BY <1>4, FS_CardinalityType DEF Affordable
  <2>2. Len(verdicts) \in Nat
    BY LenProperties DEF TypeOK
  <2>3. Spent \in Nat
    BY <2>2 DEF Spent
  <2> QED BY <2>1, <2>3
<1>6. p + c <= 2 * (Copies - k) + 3
  BY <1>5 DEF Affordable
<1>7. p + g <= 2 * (Copies - (k - 1)) + 3
  BY <1>1, <1>4, <1>5, <1>6
<1>8. Spent + Cardinality(G) <= 2 * (Copies - (k - 1)) + 3
  BY <1>5, <1>7
<1>9. Affordable(s, k - 1, FrameOf(s), G)
  BY <1>3, <1>4, <1>8 DEF Affordable
<1> QED BY <1>2, <1>9

LEMMA AffordableStep ==
    ASSUME TypeOK, TypeOK', ReceiverReads,
           NEW s \in Sendable, NEW k \in 0..Copies, NEW t \in Seq(Byte), NEW F,
           t # << >>, Affordable(s, k, t, F)
    PROVE  Tail(t) \in Seq(Byte) /\ \E G : Affordable(s, k, Tail(t), G)'
<1>1. Copies \in Nat /\ k \in Nat /\ Whole(s, k) \in Seq(Byte)
  BY NoisyAssumption, WholeFirst
<1>2. /\ wire = t \o Whole(s, k) /\ IsFiniteSet(F) /\ FlagsWithin(t, F)
      /\ Spent + Cardinality(F) <= 2 * (Copies - k) + 3
  BY DEF Affordable
<1>3. /\ Head(wire) = Head(t) /\ Tail(wire) = Tail(t) \o Whole(s, k)
      /\ Head(t) \in Byte /\ Tail(t) \in Seq(Byte)
  BY <1>1, <1>2, TailOfConcat
<1>4. wire' = Tail(wire) /\ LlreadTakes(Head(t))
  BY <1>3 DEF ReceiverReads, Receives
<1>5. PICK G : /\ IsFiniteSet(G) /\ FlagsWithin(Tail(t), G)
               /\ Cardinality(G) + (IF Head(t) = FLAG THEN 1 ELSE 0) <= Cardinality(F)
  BY <1>2, TailFlags
<1>6. PICK e \in {0, 1} : e = IF Head(t) = FLAG THEN 1 ELSE 0
  OBVIOUS
<1>7. Spent \in Nat /\ Spent' \in Nat /\ Spent' <= Spent + e
  BY <1>3, <1>4, <1>6, SpentStep
<1>8. Cardinality(F) \in Nat /\ Cardinality(G) \in Nat /\ Cardinality(G) + e <= Cardinality(F)
  BY <1>2, <1>5, <1>6, FS_CardinalityType
<1>9. Spent' + Cardinality(G) <= 2 * (Copies - k) + 3
  BY <1>1, <1>2, <1>7, <1>8
<1>10. Affordable(s, k, Tail(t), G)'
  BY <1>3, <1>4, <1>5, <1>9 DEF Affordable
<1> QED BY <1>3, <1>10

LEMMA AnswersAlways == Spec => []Answers
<1>1. Init => Answers
  <2> SUFFICES ASSUME Init, direction = "forward"
               PROVE  Answers
    BY DEF Answers
  <2>1. PICK s \in Sendable : sent = s
    BY DEF Init, Forward, Back, Sendable
  <2>2. /\ wire = Carried(FrameOf(s), damage) \o Whole(s, Copies)
        /\ Carried(FrameOf(s), damage) \in Seq(Byte)
        /\ damage \in Damages(FrameOf(s)) /\ verdicts = << >> /\ recState = "START"
    BY <2>1, ForwardWire
  <2>3. PICK F : /\ IsFiniteSet(F) /\ FlagsWithin(Carried(FrameOf(s), damage), F)
                 /\ Cardinality(F) <= 3
    BY <2>2, CarriedHasThree
  <2>4. Spent = 0 /\ Copies \in 0..Copies /\ 2 * (Copies - Copies) + 3 = 3
    BY <2>2, NoisyAssumption DEF Spent
  <2>5. Cardinality(F) \in Nat
    BY <2>3, FS_CardinalityType
  <2>6. Spent + Cardinality(F) <= 2 * (Copies - Copies) + 3
    BY <2>3, <2>4, <2>5
  <2>7. Affordable(s, Copies, Carried(FrameOf(s), damage), F)
    BY <2>2, <2>3, <2>6 DEF Affordable
  <2> QED BY <2>1, <2>2, <2>4, <2>7 DEF Answers
<1>2. TypeOK /\ TypeOK' /\ Answers /\ [Next]_vars => Answers'
  <2> SUFFICES ASSUME TypeOK, TypeOK', Answers, [Next]_vars, direction' = "forward"
               PROVE  Answers'
    BY DEF Answers
  <2>0. /\ direction = "forward" /\ sent' = sent
        /\ \/ ReceiverReads /\ wire # << >>
           \/ UNCHANGED <<recState, ctrl, esc, frameData, verdicts, wire>>
    BY ForwardStep
  <2>1. PICK s \in Sendable, k0 \in 0..Copies, t0 \in Seq(Byte) :
                sent = s /\ \E F : Affordable(s, k0, t0, F)
    BY <2>0 DEF Answers
  <2>2. PICK F0 : Affordable(s, k0, t0, F0)
    BY <2>1
  <2>3. ASSUME ReceiverReads, wire # << >>
        PROVE  Answers'
    <3>1. PICK k \in 0..Copies, t \in Seq(Byte) : t # << >> /\ \E F : Affordable(s, k, t, F)
      <4>1. FrameOf(s) \in Seq(Byte) /\ FrameOf(s) # << >>
        <5>1. FrameOf(s) \in Seq(Byte) /\ << >> \in Seq(Byte)
          BY FrameFirst, EmptySeq
        <5> QED BY <5>1, FrameIsNotEmpty
      <4>2. CASE t0 # << >>
        BY <2>2, <4>2
      <4>3. CASE t0 = << >>
        <5>1. \E G : k0 - 1 \in 0..Copies /\ Affordable(s, k0 - 1, FrameOf(s), G)
          BY <2>3, <2>2, <4>3, NextCopy
        <5> QED BY <4>1, <5>1
      <4> QED BY <4>2, <4>3
    <3>2. Tail(t) \in Seq(Byte) /\ \E G : Affordable(s, k, Tail(t), G)'
      BY <2>3, <3>1, AffordableStep
    <3> QED BY <2>0, <2>1, <3>2 DEF Answers
  <2>4. ASSUME UNCHANGED <<recState, ctrl, esc, frameData, verdicts, wire>>
        PROVE  Answers'
    <3>1. Affordable(s, k0, t0, F0)'
      BY <2>4, <2>2 DEF Affordable, Spent
    <3> QED BY <2>0, <2>1, <3>1 DEF Answers
  <2> QED BY <2>0, <2>3, <2>4
<1> QED BY <1>1, <1>2, TypesHold, PTL DEF Spec

(* llread answers a transmission at most once, whatever happens to it: a   *)
(* FLAG that damage makes cannot both end a frame and begin the next.      *)
THEOREM AnswersBoundedHolds == Spec => []AnswersBounded
<1>1. TypeOK /\ Answers => AnswersBounded
  <2> SUFFICES ASSUME TypeOK, Answers, direction = "forward"
               PROVE  Len(verdicts) <= Copies + 1
    BY DEF AnswersBounded
  <2>1. PICK s \in Sendable, k \in 0..Copies, t \in Seq(Byte) : \E F : Affordable(s, k, t, F)
    BY DEF Answers
  <2>2. PICK F : Affordable(s, k, t, F)
    BY <2>1
  <2>3. Copies \in Nat /\ Cardinality(F) \in Nat /\ Len(verdicts) \in Nat
    BY <2>2, NoisyAssumption, FS_CardinalityType, LenProperties DEF Affordable, TypeOK
  <2>4. Spent \in Nat /\ 2 * Len(verdicts) <= Spent
    BY <2>3 DEF Spent
  <2>5. Spent + Cardinality(F) <= 2 * (Copies - k) + 3
    BY <2>2 DEF Affordable
  <2>6. 2 * Len(verdicts) <= 2 * Copies + 3
    BY <2>3, <2>4, <2>5
  <2> QED BY <2>3, <2>6
<1> QED BY <1>1, TypesHold, AnswersAlways, PTL

(***************************************************************************)
(* The sender.  Acknowledgments are frames of five bytes, so the place of  *)
(* a byte says which byte of which frame it is.                            *)
(***************************************************************************)
Bits    == {{}, {0}}
Streams == UNION {[1..n -> Bits] : n \in 1..MaxAcks}
Five    == {f \in Seq(Byte) : Len(f) = 5}

LEMMA FlattenFives ==
    ASSUME NEW r \in Seq(Five)
    PROVE  /\ FlattenSeq(r) \in Seq(Byte) /\ Len(FlattenSeq(r)) = 5 * Len(r)
           /\ \A i \in 0..(Len(r) - 1) : \A k \in 1..5 : FlattenSeq(r)[5 * i + k] = r[i + 1][k]
<1> DEFINE Places(q) == /\ FlattenSeq(q) \in Seq(Byte) /\ Len(FlattenSeq(q)) = 5 * Len(q)
                        /\ \A i \in 0..(Len(q) - 1) : \A k \in 1..5 :
                             FlattenSeq(q)[5 * i + k] = q[i + 1][k]
           P == {q \in Seq(Five) : Places(q)}
<1>1. << >> \in P
  <2>1. FlattenSeq(<< >>) = << >> /\ << >> \in Seq(Byte) /\ << >> \in Seq(Five) /\ Len(<< >>) = 0
    BY EmptySeq DEF FlattenSeq
  <2>2. 5 * 0 = 0 /\ 0..(0 - 1) = {}
    OBVIOUS
  <2>3. Places(<< >>)
    BY <2>1, <2>2
  <2> QED BY <2>1, <2>3
<1>2. ASSUME NEW q \in Seq(Five), NEW e \in Five, q \in P
      PROVE  Append(q, e) \in P
  <2> DEFINE a == FlattenSeq(q)
             n == Len(q)
  <2>1. /\ Append(q, e) \in Seq(Five) /\ n \in Nat /\ Len(Append(q, e)) = n + 1
        /\ Append(q, e)[n + 1] = e /\ \A i \in 1..n : Append(q, e)[i] = q[i]
    BY AppendProperties, LenProperties
  <2>2. FlattenSeq(Append(q, e)) = a \o e
    <3>1. q \in Seq(Seq(Byte)) /\ e \in Seq(Byte)
      <4>1. Five \subseteq Seq(Byte)
        BY DEF Five
      <4> HIDE DEF Five
      <4>2. q \in [1..Len(q) -> Five] /\ Len(q) \in Nat
        BY LenProperties
      <4>3. q \in [1..Len(q) -> Seq(Byte)]
        BY <4>1, <4>2
      <4> QED BY <4>1, <4>2, <4>3, SeqDef
    <3> QED BY <3>1, FlattenAppend
  <2>3. /\ a \in Seq(Byte) /\ Len(a) = 5 * n /\ e \in Seq(Byte) /\ Len(e) = 5
        /\ \A i \in 0..(n - 1) : \A k \in 1..5 : a[5 * i + k] = q[i + 1][k]
    BY <1>2 DEF Five
  <2> HIDE DEF a
  <2>4. /\ a \o e \in Seq(Byte) /\ Len(a \o e) = 5 * n + 5
        /\ \A j \in 1..(5 * n + 5) : (a \o e)[j] = IF j <= 5 * n THEN a[j] ELSE e[j - 5 * n]
    <3>1. /\ a \o e \in Seq(Byte) /\ Len(a \o e) = Len(a) + Len(e)
          /\ \A j \in 1..(Len(a) + Len(e)) :
               (a \o e)[j] = IF j <= Len(a) THEN a[j] ELSE e[j - Len(a)]
      BY <2>3, ConcatProperties
    <3> QED BY <2>3, <3>1, Zenon
  <2>5. ASSUME NEW i \in 0..n, NEW k \in 1..5
        PROVE  (a \o e)[5 * i + k] = Append(q, e)[i + 1][k]
    <3>1. CASE i = n
      <4>1. /\ 5 * i + k \in 1..(5 * n + 5) /\ ~(5 * i + k <= 5 * n)
            /\ (5 * i + k) - 5 * n = k
        BY <2>1, <3>1
      <4> QED BY <2>1, <2>4, <3>1, <4>1
    <3>2. CASE i # n
      <4>1. /\ i \in 0..(n - 1) /\ i + 1 \in 1..n
            /\ 5 * i + k \in 1..(5 * n + 5) /\ 5 * i + k <= 5 * n
        BY <2>1, <3>2
      <4>2. (a \o e)[5 * i + k] = a[5 * i + k]
        BY <2>4, <4>1
      <4>3. a[5 * i + k] = q[i + 1][k]
        BY <2>3, <4>1
      <4>4. Append(q, e)[i + 1] = q[i + 1]
        BY <2>1, <4>1
      <4> QED BY <4>2, <4>3, <4>4
    <3> QED BY <3>1, <3>2
  <2> HIDE DEF n
  <2>6. (n + 1) - 1 = n /\ 5 * (n + 1) = 5 * n + 5
    BY <2>1
  <2>7. Len(FlattenSeq(Append(q, e))) = 5 * Len(Append(q, e)) /\ FlattenSeq(Append(q, e)) \in Seq(Byte)
    BY <2>1, <2>2, <2>4, <2>6
  <2>8. 0..(Len(Append(q, e)) - 1) = 0..n
    BY <2>1, <2>6
  <2>9. \A i \in 0..(Len(Append(q, e)) - 1) : \A k \in 1..5 :
          FlattenSeq(Append(q, e))[5 * i + k] = Append(q, e)[i + 1][k]
    BY <2>2, <2>5, <2>8
  <2> QED BY <2>1, <2>7, <2>9
<1> HIDE DEF P
<1>3. \A q \in Seq(Five) : q \in P
  BY <1>1, <1>2, SeqInduction
<1> QED BY <1>3 DEF P

(* The bytes of the acknowledgments, by their places.                      *)
LEMMA AckBytes ==
    ASSUME NEW s \in Streams
    PROVE  /\ Acks(s) \in Seq(Byte) /\ Len(s) \in Nat /\ Len(Acks(s)) = 5 * Len(s)
           /\ \A i \in 1..Len(s) : s[i] \in Bits
           /\ \A i \in 0..(Len(s) - 1) :
                /\ Acks(s)[5 * i + 1] = FLAG /\ Acks(s)[5 * i + 2] = A_fromR
                /\ Acks(s)[5 * i + 3] = AckCtrl(s[i + 1])
                /\ Acks(s)[5 * i + 4] = Xor(A_fromR, AckCtrl(s[i + 1]))
                /\ Acks(s)[5 * i + 5] = FLAG
<1> DEFINE r == [i \in DOMAIN s |-> Supervision(A_fromR, AckCtrl(s[i]))]
<1>1. /\ DOMAIN s = 1..Len(s) /\ Len(s) \in Nat
      /\ \A i \in 1..Len(s) : s[i] \in Bits
  <2>1. PICK n \in 1..MaxAcks : s \in [1..n -> Bits]
    BY DEF Streams
  <2>2. n \in Nat
    BY NoisyAssumption
  <2>3. s \in Seq(Bits)
    BY <2>1, <2>2
  <2> QED BY <2>3, LenProperties, ElementOfSeq
<1>2. ASSUME NEW i \in 1..Len(s)
      PROVE  LET f == Supervision(A_fromR, AckCtrl(s[i]))
             IN  /\ f \in Five /\ f[1] = FLAG /\ f[2] = A_fromR /\ f[3] = AckCtrl(s[i])
                 /\ f[4] = Xor(A_fromR, AckCtrl(s[i])) /\ f[5] = FLAG
  <2> DEFINE c == AckCtrl(s[i])
             x == Xor(A_fromR, c)
  <2>1. FLAG \in Byte /\ A_fromR \in Byte /\ c \in Byte /\ x \in Byte
    BY <1>1, ControlBytes DEF Bits
  <2>2. Supervision(A_fromR, c) = Append(<<FLAG, A_fromR, c, x>>, FLAG)
    BY DEF Supervision, Header
  <2> HIDE DEF c, x
  <2>3. <<FLAG, A_fromR, c, x>> \in Seq(Byte)
    BY <2>1
  <2>4. /\ Supervision(A_fromR, c) \in Seq(Byte) /\ Len(Supervision(A_fromR, c)) = 5
        /\ Supervision(A_fromR, c)[5] = FLAG
        /\ \A k \in 1..4 : Supervision(A_fromR, c)[k] = <<FLAG, A_fromR, c, x>>[k]
    BY <2>1, <2>2, <2>3, AppendProperties
  <2>5. /\ Supervision(A_fromR, c)[1] = FLAG /\ Supervision(A_fromR, c)[2] = A_fromR
        /\ Supervision(A_fromR, c)[3] = c /\ Supervision(A_fromR, c)[4] = x
    BY <2>4
  <2> QED BY <2>4, <2>5 DEF c, x, Five
<1>3. r \in Seq(Five) /\ Len(r) = Len(s) /\ Acks(s) = FlattenSeq(r)
  <2>1. r \in [1..Len(s) -> Five]
    BY <1>1, <1>2
  <2>2. r \in Seq(Five)
    BY <1>1, <2>1, SeqDef
  <2>3. DOMAIN r = 1..Len(r) /\ DOMAIN r = 1..Len(s) /\ Len(r) \in Nat
    BY <1>1, <2>2, LenProperties
  <2> QED BY <1>1, <2>2, <2>3 DEF Acks
<1>4. ASSUME NEW i \in 0..(Len(s) - 1)
      PROVE  /\ i + 1 \in 1..Len(s) /\ r[i + 1] = Supervision(A_fromR, AckCtrl(s[i + 1]))
             /\ \A k \in 1..5 : FlattenSeq(r)[5 * i + k] = r[i + 1][k]
  <2>1. i + 1 \in 1..Len(s)
    BY <1>1
  <2> QED BY <1>1, <1>3, <2>1, FlattenFives
<1> HIDE DEF r
<1>5. ASSUME NEW i \in 0..(Len(s) - 1)
      PROVE  /\ Acks(s)[5 * i + 1] = FLAG /\ Acks(s)[5 * i + 2] = A_fromR
             /\ Acks(s)[5 * i + 3] = AckCtrl(s[i + 1])
             /\ Acks(s)[5 * i + 4] = Xor(A_fromR, AckCtrl(s[i + 1]))
             /\ Acks(s)[5 * i + 5] = FLAG
  <2>1. i + 1 \in 1..Len(s) /\ r[i + 1] = Supervision(A_fromR, AckCtrl(s[i + 1]))
    BY <1>4
  <2>2. /\ FlattenSeq(r)[5 * i + 1] = r[i + 1][1] /\ FlattenSeq(r)[5 * i + 2] = r[i + 1][2]
        /\ FlattenSeq(r)[5 * i + 3] = r[i + 1][3] /\ FlattenSeq(r)[5 * i + 4] = r[i + 1][4]
        /\ FlattenSeq(r)[5 * i + 5] = r[i + 1][5]
    <3>1. \A k \in 1..5 : FlattenSeq(r)[5 * i + k] = r[i + 1][k]
      BY <1>4
    <3>2. 1 \in 1..5 /\ 2 \in 1..5 /\ 3 \in 1..5 /\ 4 \in 1..5 /\ 5 \in 1..5
      OBVIOUS
    <3> QED BY <3>1, <3>2, Zenon
  <2>3. LET f == Supervision(A_fromR, AckCtrl(s[i + 1]))
        IN  /\ f[1] = FLAG /\ f[2] = A_fromR /\ f[3] = AckCtrl(s[i + 1])
            /\ f[4] = Xor(A_fromR, AckCtrl(s[i + 1])) /\ f[5] = FLAG
    BY <1>2, <2>1
  <2> QED BY <1>3, <2>1, <2>2, <2>3, Zenon
<1> QED BY <1>1, <1>3, <1>5, FlattenFives

(***************************************************************************)
(* What the sender should have accepted after i frames, if it missed only  *)
(* damaged ones.                                                           *)
(***************************************************************************)
HitBy(d) == {(i + 4) \div 5 : i \in Hit(d)}
Taken(found, b) == IF b = Awaited(found) THEN Append(found, b) ELSE found

Accounts(s, kept, run, i) ==
    /\ kept \in SUBSET (1..i) /\ run \in [0..i -> Seq(Bits)] /\ run[0] = << >>
    /\ \A j \in 1..i : run[j] = IF j \in kept THEN Taken(run[j - 1], s[j]) ELSE run[j - 1]

Explains(s, d, i, found) ==
    \E kept \in SUBSET (1..i) : \E run \in [0..i -> Seq(Bits)] :
        /\ Accounts(s, kept, run, i)
        /\ (1..i) \ kept \subseteq HitBy(d)
        /\ run[i] = found

LEMMA NothingExplained ==
    ASSUME NEW s, NEW d
    PROVE  Explains(s, d, 0, << >>)
<1> DEFINE run == [j \in 0..0 |-> << >>]
<1>1. run \in [0..0 -> Seq(Bits)] /\ run[0] = << >> /\ 1..0 = {}
  BY EmptySeq
<1> HIDE DEF run
<1>2. Accounts(s, {}, run, 0)
  BY <1>1 DEF Accounts
<1> QED BY <1>1, <1>2 DEF Explains

(* A frame that arrives whole, and frames that need not be found. *)
LEMMA OneKept ==
    ASSUME NEW s, NEW d, NEW i \in Nat, NEW found,
           Explains(s, d, i, found), s[i + 1] \in Bits
    PROVE  Explains(s, d, i + 1, Taken(found, s[i + 1]))
<1>1. PICK kept \in SUBSET (1..i) : \E run \in [0..i -> Seq(Bits)] :
        /\ Accounts(s, kept, run, i)
        /\ (1..i) \ kept \subseteq HitBy(d)
        /\ run[i] = found
  BY DEF Explains
<1>2. PICK run \in [0..i -> Seq(Bits)] :
        /\ Accounts(s, kept, run, i)
        /\ (1..i) \ kept \subseteq HitBy(d)
        /\ run[i] = found
  BY <1>1
<1> DEFINE last == Taken(found, s[i + 1])
           more == [j \in 0..(i + 1) |-> IF j = i + 1 THEN last ELSE run[j]]
<1>3. last \in Seq(Bits)
  <2>1. found \in Seq(Bits)
    BY <1>2
  <2> QED BY <2>1, AppendProperties DEF Taken
<1> HIDE DEF last
<1>4. more \in [0..(i + 1) -> Seq(Bits)]
  <2> SUFFICES ASSUME NEW j \in 0..(i + 1) PROVE (IF j = i + 1 THEN last ELSE run[j]) \in Seq(Bits)
    OBVIOUS
  <2>1. j # i + 1 => j \in 0..i
    OBVIOUS
  <2> QED BY <1>3, <2>1
<1>5. more[i + 1] = last /\ \A j \in 0..i : more[j] = run[j]
  OBVIOUS
<1> HIDE DEF more
<1>6. Accounts(s, kept \cup {i + 1}, more, i + 1)
  <2>1. kept \cup {i + 1} \in SUBSET (1..(i + 1))
    OBVIOUS
  <2>2. more[0] = << >>
    BY <1>2, <1>5 DEF Accounts
  <2>3. ASSUME NEW j \in 1..(i + 1)
        PROVE  more[j] = IF j \in kept \cup {i + 1} THEN Taken(more[j - 1], s[j])
                         ELSE more[j - 1]
    <3>1. CASE j = i + 1
      <4>1. j - 1 = i /\ more[i] = found
        BY <1>2, <1>5, <3>1
      <4> QED BY <1>5, <3>1, <4>1 DEF last
    <3>2. CASE j # i + 1
      <4>1. j \in 1..i /\ j - 1 \in 0..i /\ j \in 0..i
        BY <3>2
      <4>2. run[j] = IF j \in kept THEN Taken(run[j - 1], s[j]) ELSE run[j - 1]
        BY <1>2, <4>1 DEF Accounts
      <4> QED BY <1>5, <3>2, <4>1, <4>2
    <3> QED BY <3>1, <3>2
  <2> QED BY <1>4, <2>1, <2>2, <2>3 DEF Accounts
<1>7. (1..(i + 1)) \ (kept \cup {i + 1}) \subseteq HitBy(d)
  <2>1. (1..(i + 1)) \ (kept \cup {i + 1}) \subseteq (1..i) \ kept
    OBVIOUS
  <2> QED BY <1>2, <2>1
<1>8. kept \cup {i + 1} \in SUBSET (1..(i + 1))
  BY <1>6 DEF Accounts
<1> QED BY <1>4, <1>5, <1>6, <1>7, <1>8 DEF Explains, last

LEMMA SomeLost ==
    ASSUME NEW s, NEW d, NEW i \in Nat, NEW found, Explains(s, d, i, found),
           NEW m \in Nat, i <= m, \A j \in (i + 1)..m : j \in HitBy(d)
    PROVE  Explains(s, d, m, found)
<1>1. PICK kept \in SUBSET (1..i) : \E run \in [0..i -> Seq(Bits)] :
        /\ Accounts(s, kept, run, i)
        /\ (1..i) \ kept \subseteq HitBy(d)
        /\ run[i] = found
  BY DEF Explains
<1>2. PICK run \in [0..i -> Seq(Bits)] :
        /\ Accounts(s, kept, run, i)
        /\ (1..i) \ kept \subseteq HitBy(d)
        /\ run[i] = found
  BY <1>1
<1> DEFINE more == [j \in 0..m |-> IF j <= i THEN run[j] ELSE found]
<1>3. more \in [0..m -> Seq(Bits)]
  <2> SUFFICES ASSUME NEW j \in 0..m PROVE (IF j <= i THEN run[j] ELSE found) \in Seq(Bits)
    OBVIOUS
  <2>1. found \in Seq(Bits)
    BY <1>2
  <2>2. j <= i => j \in 0..i
    OBVIOUS
  <2> QED BY <2>1, <2>2
<1>4. \A j \in 0..m : more[j] = IF j <= i THEN run[j] ELSE found
  OBVIOUS
<1> HIDE DEF more
<1>5. Accounts(s, kept, more, m)
  <2>1. kept \in SUBSET (1..m)
    OBVIOUS
  <2>2. more[0] = << >>
    BY <1>2, <1>4 DEF Accounts
  <2>3. ASSUME NEW j \in 1..m
        PROVE  more[j] = IF j \in kept THEN Taken(more[j - 1], s[j]) ELSE more[j - 1]
    <3>1. CASE j <= i
      <4>1. j \in 1..i /\ j - 1 \in 0..m /\ j - 1 <= i /\ j \in 0..m
        BY <3>1
      <4>2. run[j] = IF j \in kept THEN Taken(run[j - 1], s[j]) ELSE run[j - 1]
        BY <1>2, <4>1 DEF Accounts
      <4> QED BY <1>4, <3>1, <4>1, <4>2
    <3>2. CASE ~(j <= i)
      <4>1. j \notin kept /\ j \in 0..m /\ j - 1 \in 0..m
        BY <3>2
      <4>2. j - 1 <= i => j - 1 = i
        BY <3>2
      <4>3. more[j - 1] = found
        BY <1>2, <1>4, <4>1, <4>2
      <4> QED BY <1>4, <3>2, <4>1, <4>3
    <3> QED BY <3>1, <3>2
  <2> QED BY <1>3, <2>1, <2>2, <2>3 DEF Accounts
<1>6. (1..m) \ kept \subseteq HitBy(d)
  <2> SUFFICES ASSUME NEW j \in 1..m, j \notin kept PROVE j \in HitBy(d)
    OBVIOUS
  <2>1. j \in 1..i \/ j \in (i + 1)..m
    OBVIOUS
  <2> QED BY <1>2, <2>1
<1>7. more[m] = found
  <2>1. m <= i => m = i
    OBVIOUS
  <2> QED BY <1>2, <1>4, <2>1
<1>8. kept \in SUBSET (1..m)
  BY <1>5 DEF Accounts
<1> QED BY <1>3, <1>5, <1>6, <1>7, <1>8 DEF Explains

(* The accounts of the proof are what the property computes. *)
LEMMA AlternatingIs ==
    ASSUME NEW kept, NEW run, Len(stream) \in Nat, Accounts(stream, kept, run, Len(stream))
    PROVE  Alternating(kept) = run[Len(stream)]
<1> DEFINE n == Len(stream)
           Next_(g) == [i \in 0..n |->
                          IF i = 0 THEN << >>
                          ELSE IF i \in kept /\ stream[i] = Awaited(g[i - 1])
                               THEN Append(g[i - 1], stream[i])
                               ELSE g[i - 1]]
           found == CHOOSE g : g = Next_(g)
<1>1. Alternating(kept) = found[n]
  BY DEF Alternating
<1>2. run = Next_(run)
  <2>1. run \in [0..n -> Seq(Bits)]
    BY DEF Accounts
  <2>2. ASSUME NEW i \in 0..n
        PROVE  run[i] = IF i = 0 THEN << >>
                        ELSE IF i \in kept /\ stream[i] = Awaited(run[i - 1])
                             THEN Append(run[i - 1], stream[i])
                             ELSE run[i - 1]
    <3>1. CASE i = 0
      BY <3>1 DEF Accounts
    <3>2. CASE i # 0
      <4>1. i \in 1..n
        BY <3>2
      <4> QED BY <3>2, <4>1 DEF Accounts, Taken
    <3> QED BY <3>1, <3>2
  <2> QED BY <2>1, <2>2
<1>3. found = Next_(found)
  <2> HIDE DEF Next_
  <2> QED BY <1>2
<1>4. n \in Nat
  OBVIOUS
<1> HIDE DEF found, n
<1>5. \A i \in 0..n : found[i] = IF i = 0 THEN << >>
                        ELSE IF i \in kept /\ stream[i] = Awaited(found[i - 1])
                             THEN Append(found[i - 1], stream[i])
                             ELSE found[i - 1]
  BY <1>3
<1>6. \A i \in 0..n : run[i] = IF i = 0 THEN << >>
                        ELSE IF i \in kept /\ stream[i] = Awaited(run[i - 1])
                             THEN Append(run[i - 1], stream[i])
                             ELSE run[i - 1]
  BY <1>2
<1> HIDE DEF Next_
<1> DEFINE S == {i \in Nat : i <= n => found[i] = run[i]}
<1>7. 0 \in S
  BY <1>4, <1>5, <1>6
<1>8. ASSUME NEW i \in Nat, i \in S PROVE i + 1 \in S
  <2>1. CASE i + 1 <= n
    <3>1. i + 1 \in 0..n /\ i + 1 # 0 /\ (i + 1) - 1 = i /\ i <= n
      BY <1>4, <2>1
    <3>2. found[i] = run[i]
      BY <1>8, <3>1
    <3> QED BY <1>5, <1>6, <3>1, <3>2
  <2>2. CASE ~(i + 1 <= n)
    BY <2>2
  <2> QED BY <2>1, <2>2
<1> HIDE DEF S
<1>9. n \in S
  BY <1>4, <1>7, <1>8, Induction
<1> QED BY <1>1, <1>4, <1>9 DEF S, n

(***************************************************************************)
(* The automaton of the sender, byte by byte.                              *)
(***************************************************************************)
AckBcc(b) == Xor(A_fromR, AckCtrl(b))

LEMMA AckValues ==
    /\ FLAG # A_fromR
    /\ \A b \in Bits : /\ AckCtrl(b) # FLAG /\ AckCtrl(b) # A_fromR
                       /\ AckBcc(b) # FLAG /\ AckBcc(b) # A_fromR
    /\ \A a, b \in Bits : /\ AckCtrl(a) = AckCtrl(b) => a = b
                          /\ AckBcc(a) = AckBcc(b) => a = b
<1>1. FLAG # A_fromR
  BY DEF FLAG, A_fromR
<1>2. \A b \in Bits : /\ AckCtrl(b) # FLAG /\ AckCtrl(b) # A_fromR
                      /\ AckBcc(b) # FLAG /\ AckBcc(b) # A_fromR
  BY DEF AckBcc, AckCtrl, C_UA, Xor, Bits, FLAG, A_fromR
<1>3. \A a, b \in Bits : /\ AckCtrl(a) = AckCtrl(b) => a = b
                         /\ AckBcc(a) = AckBcc(b) => a = b
  BY DEF AckBcc, AckCtrl, C_UA, Xor, Bits, A_fromR
<1> QED BY <1>1, <1>2, <1>3

LEMMA SenderTakes ==
    ASSUME NEW c, TypeOK, LlwriteTakes(c)
    PROVE  /\ state = "SIGA" => /\ state' = IF c = FLAG THEN "FLAG_RCV" ELSE "SIGA"
                                /\ UNCHANGED <<awaited, accepted>>
           /\ state = "FLAG_RCV" => /\ state' = IF c = A_fromR THEN "ADRESS"
                                                ELSE IF c = FLAG THEN "FLAG_RCV" ELSE "SIGA"
                                    /\ UNCHANGED <<awaited, accepted>>
           /\ state = "ADRESS" => /\ state' = IF c = AckCtrl(awaited) THEN "CONTROL"
                                              ELSE IF c = FLAG THEN "FLAG_RCV" ELSE "SIGA"
                                  /\ UNCHANGED <<awaited, accepted>>
           /\ state = "CONTROL" =>
                IF c = AckBcc(awaited)
                THEN state' = "SIGA" /\ accepted' = Append(accepted, awaited)
                ELSE /\ state' = IF c = FLAG THEN "FLAG_RCV" ELSE "SIGA"
                     /\ UNCHANGED <<awaited, accepted>>
           /\ state \in {"SIGA", "FLAG_RCV", "ADRESS", "CONTROL"}
           /\ awaited = Awaited(accepted) /\ awaited \in Bits
<1>1. /\ state \in {"SIGA", "FLAG_RCV", "ADRESS", "CONTROL"}
      /\ awaited = Awaited(accepted) /\ awaited \in Bits
  BY DEF TypeOK, Awaited, Bits
<1>2. CASE state = "SIGA"
  BY <1>1, <1>2 DEF LlwriteTakes, Skips, Advances, Accepts, Needed, OutOfStep
<1>3. CASE state = "FLAG_RCV"
  BY <1>1, <1>3 DEF LlwriteTakes, Skips, Advances, Accepts, Needed, OutOfStep
<1>4. CASE state = "ADRESS"
  BY <1>1, <1>4 DEF LlwriteTakes, Skips, Advances, Accepts, Needed, OutOfStep
<1>5. CASE state = "CONTROL"
  BY <1>1, <1>5 DEF LlwriteTakes, Skips, Advances, Accepts, Needed, OutOfStep, AckBcc
<1> QED BY <1>1, <1>2, <1>3, <1>4, <1>5

(* k bytes of frame i + 1 have been read; from its beginning, or by a      *)
(* sender that damage has put out of step in it.                           *)
SoundAt(s, d, i, k) ==
    /\ k \in 0..3 => Explains(s, d, i, accepted)
    /\ k = 0 => state \in {"SIGA", "FLAG_RCV"}
    /\ k = 1 => state = "FLAG_RCV"
    /\ k = 2 => state = "ADRESS"
    /\ k = 3 => state = IF s[i + 1] = awaited THEN "CONTROL" ELSE "SIGA"
    /\ k = 4 => state = "SIGA" /\ Explains(s, d, i + 1, accepted)

StrayAt(s, d, i, k) ==
    /\ k \in 0..3 => Explains(s, d, i, accepted)
    /\ k \in 1..3 => i + 1 \in HitBy(d)
    /\ k = 2 /\ state = "CONTROL" => Explains(s, d, i, Append(accepted, awaited))
    /\ k = 4 => Explains(s, d, i + 1, accepted)

(* The place after the next byte. *)
After(i, k) == IF k = 4 THEN <<i + 1, 0>> ELSE <<i, k + 1>>
Place(s, i, k) == i \in Nat /\ k \in 0..4 /\ 5 * i + k <= 5 * Len(s)

LEMMA SoundStep ==
    ASSUME NEW s \in Streams, NEW d, NEW i \in 0..(Len(s) - 1), NEW k \in 0..4,
           SoundAt(s, d, i, k), TypeOK, LlwriteTakes(Acks(s)[5 * i + k + 1])
    PROVE  IF k = 4 THEN SoundAt(s, d, i + 1, 0)' ELSE SoundAt(s, d, i, k + 1)'
<1> DEFINE c == Acks(s)[5 * i + k + 1]
<1>0. Len(s) \in Nat /\ i \in Nat /\ i + 1 \in 1..Len(s)
  BY AckBytes
<1>1. s[i + 1] \in Bits
  BY <1>0, AckBytes
<1>2. /\ k = 0 => c = FLAG
      /\ k = 1 => c = A_fromR
      /\ k = 2 => c = AckCtrl(s[i + 1])
      /\ k = 3 => c = AckBcc(s[i + 1])
      /\ k = 4 => c = FLAG
  <2>1. /\ 5 * i + 0 + 1 = 5 * i + 1 /\ 5 * i + 1 + 1 = 5 * i + 2 /\ 5 * i + 2 + 1 = 5 * i + 3
        /\ 5 * i + 3 + 1 = 5 * i + 4 /\ 5 * i + 4 + 1 = 5 * i + 5
    BY <1>0
  <2> QED BY <2>1, AckBytes DEF AckBcc
<1> HIDE DEF c
<1>3. LlwriteTakes(c)
  BY DEF c
<1>4. awaited = Awaited(accepted) /\ awaited \in Bits
  BY <1>3, SenderTakes
<1>5. CASE k = 0
  <2>1. state' = "FLAG_RCV" /\ accepted' = accepted
    BY <1>2, <1>3, <1>5, SenderTakes, AckValues DEF SoundAt
  <2> QED BY <1>5, <2>1 DEF SoundAt
<1>6. CASE k = 1
  <2>1. state' = "ADRESS" /\ accepted' = accepted
    BY <1>2, <1>3, <1>6, SenderTakes, AckValues DEF SoundAt
  <2> QED BY <1>6, <2>1 DEF SoundAt
<1>7. CASE k = 2
  <2>1. /\ state' = IF s[i + 1] = awaited THEN "CONTROL" ELSE "SIGA"
        /\ accepted' = accepted /\ awaited' = awaited
    BY <1>1, <1>2, <1>3, <1>4, <1>7, SenderTakes, AckValues DEF SoundAt
  <2> QED BY <1>7, <2>1 DEF SoundAt
<1>8. CASE k = 3
  <2>1. state' = "SIGA" /\ accepted' = Taken(accepted, s[i + 1])
    <3>1. CASE s[i + 1] = awaited
      BY <1>2, <1>3, <1>4, <1>8, <3>1, SenderTakes DEF SoundAt, Taken
    <3>2. CASE s[i + 1] # awaited
      BY <1>1, <1>2, <1>3, <1>4, <1>8, <3>2, SenderTakes, AckValues DEF SoundAt, Taken
    <3> QED BY <3>1, <3>2
  <2>2. Explains(s, d, i + 1, Taken(accepted, s[i + 1]))
    BY <1>0, <1>1, <1>8, OneKept DEF SoundAt
  <2> QED BY <1>8, <2>1, <2>2 DEF SoundAt
<1>9. CASE k = 4
  <2>1. state' = "FLAG_RCV" /\ accepted' = accepted
    BY <1>2, <1>3, <1>9, SenderTakes DEF SoundAt
  <2> QED BY <1>9, <2>1 DEF SoundAt
<1> QED BY <1>5, <1>6, <1>7, <1>8, <1>9

LEMMA StrayStep ==
    ASSUME NEW s \in Streams, NEW d, NEW i \in 0..(Len(s) - 1), NEW k \in 0..4,
           StrayAt(s, d, i, k), TypeOK, LlwriteTakes(Acks(s)[5 * i + k + 1])
    PROVE  /\ k = 0 => SoundAt(s, d, i, 1)'
           /\ k \in 1..3 => StrayAt(s, d, i, k + 1)'
           /\ k = 4 => StrayAt(s, d, i + 1, 0)'
<1> DEFINE c == Acks(s)[5 * i + k + 1]
<1>0. Len(s) \in Nat /\ i \in Nat /\ i + 1 \in 1..Len(s)
  BY AckBytes
<1>1. s[i + 1] \in Bits
  BY <1>0, AckBytes
<1>2. /\ k = 0 => c = FLAG
      /\ k = 1 => c = A_fromR
      /\ k = 2 => c = AckCtrl(s[i + 1])
      /\ k = 3 => c = AckBcc(s[i + 1])
      /\ k = 4 => c = FLAG
  <2>1. /\ 5 * i + 0 + 1 = 5 * i + 1 /\ 5 * i + 1 + 1 = 5 * i + 2 /\ 5 * i + 2 + 1 = 5 * i + 3
        /\ 5 * i + 3 + 1 = 5 * i + 4 /\ 5 * i + 4 + 1 = 5 * i + 5
    BY <1>0
  <2> QED BY <2>1, AckBytes DEF AckBcc
<1> HIDE DEF c
<1>3. LlwriteTakes(c)
  BY DEF c
<1>4. awaited = Awaited(accepted) /\ awaited \in Bits
  BY <1>3, SenderTakes
<1>5. CASE k = 0
  <2>1. state' = "FLAG_RCV" /\ accepted' = accepted
    BY <1>2, <1>3, <1>4, <1>5, SenderTakes, AckValues
  <2> QED BY <1>5, <2>1 DEF StrayAt, SoundAt
<1>6. CASE k = 1
  <2>1. state' # "CONTROL" /\ accepted' = accepted
    BY <1>2, <1>3, <1>4, <1>6, SenderTakes, AckValues
  <2> QED BY <1>6, <2>1 DEF StrayAt
<1>7. CASE k = 2
  <2>1. Explains(s, d, i, accepted')
    <3>1. accepted' = accepted \/ (state = "CONTROL" /\ accepted' = Append(accepted, awaited))
      BY <1>3, SenderTakes
    <3>2. /\ Explains(s, d, i, accepted)
          /\ state = "CONTROL" => Explains(s, d, i, Append(accepted, awaited))
      BY <1>7 DEF StrayAt
    <3> QED BY <3>1, <3>2, Zenon
  <2> QED BY <1>7, <2>1 DEF StrayAt
<1>8. CASE k = 3
  <2>1. Explains(s, d, i + 1, accepted')
    <3>1. CASE state = "CONTROL" /\ s[i + 1] = awaited
      <4>1. accepted' = Taken(accepted, s[i + 1])
        BY <1>2, <1>3, <1>4, <1>8, <3>1, SenderTakes DEF Taken
      <4> QED BY <1>0, <1>1, <1>8, <4>1, OneKept DEF StrayAt
    <3>2. CASE ~(state = "CONTROL" /\ s[i + 1] = awaited)
      <4>1. accepted' = accepted
        BY <1>1, <1>2, <1>3, <1>4, <1>8, <3>2, SenderTakes, AckValues
      <4>2. /\ Explains(s, d, i, accepted) /\ i + 1 \in HitBy(d) /\ i + 1 \in Nat /\ i <= i + 1
            /\ \A j \in (i + 1)..(i + 1) : j = i + 1
        BY <1>0, <1>8 DEF StrayAt
      <4> QED BY <1>0, <4>1, <4>2, SomeLost
    <3> QED BY <3>1, <3>2
  <2> QED BY <1>8, <2>1 DEF StrayAt
<1>9. CASE k = 4
  <2>1. accepted' = accepted
    BY <1>2, <1>3, <1>4, <1>9, SenderTakes, AckValues
  <2> QED BY <1>9, <2>1 DEF StrayAt
<1> QED BY <1>5, <1>6, <1>7, <1>8, <1>9

(* The wrong bit. *)
LEMMA FlipStep ==
    ASSUME NEW s \in Streams, NEW d \in Flips(Acks(s)),
           NEW i \in 0..(Len(s) - 1), NEW k \in 0..4, d.at = 5 * i + k + 1,
           SoundAt(s, d, i, k), TypeOK, LlwriteTakes(Xor(Acks(s)[d.at], {d.bit}))
    PROVE  IF k = 4 THEN StrayAt(s, d, i + 1, 0)' ELSE StrayAt(s, d, i, k + 1)'
<1> DEFINE c == Xor(Acks(s)[d.at], {d.bit})
<1>0. Len(s) \in Nat /\ i \in Nat /\ i + 1 \in 1..Len(s) /\ i + 1 \in Nat
  BY AckBytes
<1>1. s[i + 1] \in Bits
  BY <1>0, AckBytes
<1>2. c # Acks(s)[d.at]
  BY DEF Xor
<1>3. LlwriteTakes(c)
  OBVIOUS
<1>4. awaited = Awaited(accepted) /\ awaited \in Bits
  BY <1>3, SenderTakes
<1>5. i + 1 \in HitBy(d)
  <2>1. Hit(d) = {d.at}
    BY DEF Flips, Hit
  <2>2. (d.at + 4) \div 5 = i + 1
    BY <1>0
  <2> QED BY <2>1, <2>2 DEF HitBy
<1>6. k = 3 => c # AckBcc(s[i + 1])
  <2>1. k = 3 => Acks(s)[d.at] = AckBcc(s[i + 1])
    <3>1. 5 * i + 3 + 1 = 5 * i + 4
      BY <1>0
    <3> QED BY <3>1, AckBytes DEF AckBcc
  <2> QED BY <1>2, <2>1
<1> HIDE DEF c
<1>7. accepted' = accepted
  <2>1. CASE k \in {0, 1, 2, 4}
    <3>1. state # "CONTROL"
      BY <2>1 DEF SoundAt
    <3> QED BY <1>3, <3>1, SenderTakes
  <2>2. CASE k = 3
    <3>1. CASE s[i + 1] = awaited
      BY <1>3, <1>6, <2>2, <3>1, SenderTakes
    <3>2. CASE s[i + 1] # awaited
      <4>1. state = "SIGA"
        BY <2>2, <3>2 DEF SoundAt
      <4> QED BY <1>3, <4>1, SenderTakes
    <3> QED BY <3>1, <3>2
  <2> QED BY <2>1, <2>2
<1>8. k = 1 => state' # "CONTROL"
  BY <1>3, SenderTakes DEF SoundAt
<1>9. k \in 0..3 => Explains(s, d, i, accepted) /\ Explains(s, d, i + 1, accepted)
  <2> SUFFICES ASSUME k \in 0..3 PROVE Explains(s, d, i, accepted) /\ Explains(s, d, i + 1, accepted)
    OBVIOUS
  <2>1. Explains(s, d, i, accepted) /\ i <= i + 1 /\ \A j \in (i + 1)..(i + 1) : j \in HitBy(d)
    BY <1>0, <1>5 DEF SoundAt
  <2> QED BY <1>0, <2>1, SomeLost
<1>10. k = 4 => Explains(s, d, i + 1, accepted)
  BY DEF SoundAt
<1>11. CASE k = 4
  BY <1>7, <1>10, <1>11 DEF StrayAt
<1>12. CASE k # 4
  <2>1. k + 1 \in 1..4 /\ k \in 0..3 /\ (k + 1 = 2 => k = 1)
    BY <1>12
  <2> QED BY <1>5, <1>7, <1>8, <1>9, <1>12, <2>1 DEF StrayAt
<1> QED BY <1>11, <1>12

(* The lost bytes: the next byte read is byte K of frame I + 1.            *)
LEMMA LossJump ==
    ASSUME NEW s \in Streams, NEW d \in Losses(Acks(s)),
           NEW i \in 0..(Len(s) - 1), NEW k \in 0..4, d.from = 5 * i + k + 1,
           NEW I \in Nat, NEW K \in 0..4, d.to = 5 * I + K,
           SoundAt(s, d, i, k), awaited = Awaited(accepted)
    PROVE  StrayAt(s, d, I, K)
<1>0. /\ Len(s) \in Nat /\ i \in Nat /\ i + 1 \in 1..Len(s) /\ i + 1 \in Nat
      /\ s[i + 1] \in Bits
  <2>1. Len(s) \in Nat /\ i \in Nat /\ i + 1 \in 1..Len(s) /\ i + 1 \in Nat
    BY AckBytes
  <2> QED BY <2>1, AckBytes
<1>1. d.from <= d.to /\ Hit(d) = d.from..d.to
  BY DEF Losses, Hit
<1>2. 5 * i + k + 1 <= 5 * I + K
  BY <1>1
<1>3. \A x \in Int : d.from <= x /\ x <= d.to => (x + 4) \div 5 \in HitBy(d)
  <2> SUFFICES ASSUME NEW x \in Int, d.from <= x, x <= d.to PROVE (x + 4) \div 5 \in HitBy(d)
    OBVIOUS
  <2>1. d.from \in Int /\ d.to \in Int
    BY <1>0
  <2>2. x \in d.from..d.to
    BY <2>1
  <2> QED BY <1>1, <2>2 DEF HitBy
<1>4. ASSUME NEW j \in Nat, i + 1 <= j, j <= I \/ (j = I + 1 /\ K # 0)
      PROVE  j \in HitBy(d)
  <2>1. CASE j = i + 1
    <3>1. (d.from + 4) \div 5 = j /\ d.from \in Int /\ d.from <= d.from
      BY <1>0, <2>1
    <3>2. (d.from + 4) \div 5 \in HitBy(d)
      BY <1>1, <1>3, <3>1
    <3> QED BY <3>1, <3>2
  <2>2. CASE j # i + 1
    <3> DEFINE x == 5 * j - 4
    <3>1. x \in Int /\ (x + 4) \div 5 = j
      OBVIOUS
    <3>2. d.from <= x
      BY <1>0, <1>4, <2>2
    <3>3. x <= d.to
      BY <1>4
    <3> HIDE DEF x
    <3> QED BY <1>3, <3>1, <3>2, <3>3
  <2> QED BY <2>1, <2>2
<1>5. ASSUME NEW found, NEW e \in Nat, e <= i + 1, Explains(s, d, e, found), e >= i,
             NEW m \in Nat, e <= m, m <= I \/ (m = I + 1 /\ K # 0)
      PROVE  Explains(s, d, m, found)
  <2>1. ASSUME NEW j \in (e + 1)..m PROVE j \in HitBy(d)
    <3>1. j \in Nat /\ i + 1 <= j /\ (j <= I \/ (j = I + 1 /\ K # 0))
      BY <1>0, <1>5
    <3> QED BY <1>4, <3>1
  <2> QED BY <1>5, <2>1, SomeLost
<1>6. K # 0 => I + 1 \in HitBy(d)
  <2>1. i + 1 <= I + 1
    BY <1>0, <1>2
  <2> QED BY <1>4, <2>1
<1>7. CASE k \in 0..3
  <2>1. Explains(s, d, i, accepted) /\ i <= I
    BY <1>0, <1>2, <1>7 DEF SoundAt
  <2>2. Explains(s, d, I, accepted)
    BY <1>0, <1>5, <2>1
  <2>3. K # 0 => Explains(s, d, I + 1, accepted)
    <3> SUFFICES ASSUME K # 0 PROVE Explains(s, d, I + 1, accepted)
      OBVIOUS
    <3>1. I + 1 \in Nat /\ i <= I + 1
      BY <2>1
    <3> QED BY <1>0, <1>5, <2>1, <3>1
  <2>4. ASSUME K = 2, state = "CONTROL" PROVE Explains(s, d, I, Append(accepted, awaited))
    <3>1. k = 3 /\ s[i + 1] = awaited
      BY <1>7, <2>4 DEF SoundAt
    <3>2. Explains(s, d, i + 1, Append(accepted, awaited))
      <4>1. Explains(s, d, i + 1, Taken(accepted, s[i + 1]))
        BY <1>0, <2>1, OneKept
      <4> QED BY <3>1, <4>1 DEF Taken
    <3>3. i + 1 <= I
      BY <1>0, <1>2, <2>4, <3>1
    <3> QED BY <1>0, <1>5, <3>2, <3>3
  <2> QED BY <1>6, <2>2, <2>3, <2>4 DEF StrayAt
<1>8. CASE k = 4
  <2>1. Explains(s, d, i + 1, accepted) /\ state = "SIGA" /\ i + 1 <= I
    BY <1>0, <1>2, <1>8 DEF SoundAt
  <2>2. Explains(s, d, I, accepted)
    BY <1>0, <1>5, <2>1
  <2>3. K # 0 => Explains(s, d, I + 1, accepted)
    <3> SUFFICES ASSUME K # 0 PROVE Explains(s, d, I + 1, accepted)
      OBVIOUS
    <3>1. I + 1 \in Nat /\ i + 1 <= I + 1
      BY <2>1, <1>0
    <3> QED BY <1>0, <1>5, <2>1, <3>1
  <2> QED BY <1>6, <2>1, <2>2, <2>3 DEF StrayAt
<1> QED BY <1>7, <1>8

(***************************************************************************)
(* The bytes not read yet are those from some place on, of what was sent   *)
(* or, before the damage, of what the line carries.                        *)
(***************************************************************************)
Left(w, p) == /\ Len(wire) = Len(w) - p
              /\ \A j \in 1..Len(wire) : wire[j] = w[p + j]

LEMMA ReadsNext ==
    ASSUME SenderReads, TypeOK, NEW w \in Seq(Byte), NEW p \in Nat, Left(w, p)
    PROVE  /\ p < Len(w) /\ LlwriteTakes(w[p + 1]) /\ Left(w, p + 1)'
           /\ UNCHANGED <<direction, stream, damage>>
<1>1. /\ wire # << >> /\ LlwriteTakes(Head(wire)) /\ wire' = Tail(wire)
      /\ UNCHANGED <<direction, stream, damage>>
  BY DEF SenderReads, Receives
<1>2. /\ Len(wire) \in Nat \ {0} /\ Head(wire) = wire[1] /\ Len(w) \in Nat
      /\ Len(wire') = Len(wire) - 1 /\ \A j \in 1..(Len(wire) - 1) : wire'[j] = wire[j + 1]
  BY <1>1, HeadTailProperties, EmptySeq, LenProperties DEF TypeOK
<1>3. Head(wire) = w[p + 1] /\ p < Len(w)
  BY <1>2 DEF Left
<1>4. Len(wire') = Len(w) - (p + 1)
  BY <1>2 DEF Left
<1>5. ASSUME NEW j \in 1..Len(wire') PROVE wire'[j] = w[(p + 1) + j]
  <2>1. j \in 1..(Len(wire) - 1) /\ j + 1 \in 1..Len(wire) /\ p + (j + 1) = (p + 1) + j
    BY <1>2
  <2> QED BY <1>2, <2>1 DEF Left
<1> QED BY <1>1, <1>3, <1>4, <1>5 DEF Left

(* What is before and behind bytes f to t of l.                            *)
LEMMA AroundLoss ==
    \A l \in Nat : \A f, t \in 1..l : f <= t =>
        /\ f - 1 \in Nat /\ l - t \in Nat
        /\ \A j \in 1..(l - t) : /\ (f - 1) + j \in 1..((f - 1) + (l - t)) /\ ~((f - 1) + j < f)
                                 /\ ((f - 1) + j) - (f - 1) + t = t + j
OBVIOUS

LEMMA CarriedBytes ==
    ASSUME NEW w \in Seq(Byte), NEW d \in Damages(w)
    PROVE  /\ Carried(w, d) \in Seq(Byte) /\ Len(w) \in Nat
           /\ d \in {NoDamage} \cup Flips(w) \cup Losses(w)
           /\ d = NoDamage => Carried(w, d) = w
           /\ d \in Flips(w) =>
                /\ d.at \in 1..Len(w) /\ Hit(d) = {d.at} /\ Len(Carried(w, d)) = Len(w)
                /\ \A j \in 1..Len(w) : Carried(w, d)[j] = IF j = d.at THEN Xor(w[j], {d.bit})
                                                           ELSE w[j]
           /\ d \in Losses(w) =>
                /\ d.from \in 1..Len(w) /\ d.to \in 1..Len(w) /\ d.from <= d.to
                /\ Hit(d) = d.from..d.to
                /\ Len(Carried(w, d)) = (d.from - 1) + (Len(w) - d.to)
                /\ \A j \in 1..((d.from - 1) + (Len(w) - d.to)) :
                     Carried(w, d)[j] = IF j < d.from THEN w[j] ELSE w[j - (d.from - 1) + d.to]
<1>1. Carried(w, d) \in Seq(Byte) /\ d \in {NoDamage} \cup Flips(w) \cup Losses(w)
  BY CarriedIsSeq DEF Damages
<1>2. Len(w) \in Nat /\ \A j \in 1..Len(w) : w[j] \in Byte
  BY LenProperties, ElementOfSeq
<1>3. d = NoDamage => Carried(w, d) = w
  BY DEF Carried, NoDamage
<1>4. ASSUME d \in Flips(w)
      PROVE  /\ d.at \in 1..Len(w) /\ Hit(d) = {d.at} /\ Len(Carried(w, d)) = Len(w)
             /\ \A j \in 1..Len(w) : Carried(w, d)[j] = IF j = d.at THEN Xor(w[j], {d.bit})
                                                        ELSE w[j]
  <2>1. /\ d.at \in 1..Len(w) /\ Hit(d) = {d.at} /\ {d.bit} \in Byte
        /\ Carried(w, d) = [w EXCEPT ![d.at] = Xor(w[d.at], {d.bit})]
    BY <1>4 DEF Flips, Hit, Carried, Byte
  <2>2. Xor(w[d.at], {d.bit}) \in Byte
    BY <1>2, <2>1, XorOfBytes
  <2> QED BY <2>1, <2>2, ExceptSeq
<1>5. ASSUME d \in Losses(w)
      PROVE  /\ d.from \in 1..Len(w) /\ d.to \in 1..Len(w) /\ d.from <= d.to
             /\ Hit(d) = d.from..d.to
             /\ Len(Carried(w, d)) = (d.from - 1) + (Len(w) - d.to)
             /\ \A j \in 1..((d.from - 1) + (Len(w) - d.to)) :
                  Carried(w, d)[j] = IF j < d.from THEN w[j] ELSE w[j - (d.from - 1) + d.to]
  <2> DEFINE a == SubSeq(w, 1, d.from - 1)
             b == SubSeq(w, d.to + 1, Len(w))
             m == d.from - 1
             n == Len(w) - d.to
  <2>1. /\ d.from \in 1..Len(w) /\ d.to \in 1..Len(w) /\ d.from <= d.to
        /\ Hit(d) = d.from..d.to /\ Carried(w, d) = a \o b
    BY <1>5 DEF Losses, Hit, Carried
  <2>2. m \in Nat /\ n \in Nat
    BY <1>2, <2>1, AroundLoss
  <2>3. a \in Seq(Byte) /\ Len(a) = m /\ \A j \in 1..m : a[j] = w[j]
    <3>1. m \in Int /\ 1 \in Int /\ \A j \in 1..m : w[j] \in Byte
      BY <1>2, <2>1, <2>2
    <3>2. a = SubSeq(w, 1, m)
      OBVIOUS
    <3> HIDE DEF a, m
    <3>3. /\ a \in Seq(Byte) /\ Len(a) = IF 1 <= m THEN m - 1 + 1 ELSE 0
          /\ \A j \in 1..(m - 1 + 1) : a[j] = w[1 + j - 1]
      BY <3>1, <3>2, SubSeqProperties
    <3> QED BY <2>2, <3>3
  <2>4. b \in Seq(Byte) /\ Len(b) = n /\ \A j \in 1..n : b[j] = w[j + d.to]
    <3>1. \A j \in (d.to + 1)..Len(w) : w[j] \in Byte
      BY <1>2, <2>1
    <3>2. /\ b \in Seq(Byte)
          /\ Len(b) = IF d.to + 1 <= Len(w) THEN Len(w) - (d.to + 1) + 1 ELSE 0
          /\ \A j \in 1..(Len(w) - (d.to + 1) + 1) : b[j] = w[(d.to + 1) + j - 1]
      <4> DEFINE f == d.to + 1
      <4>1. f \in Int /\ Len(w) \in Int /\ \A j \in f..Len(w) : w[j] \in Byte
        BY <1>2, <2>1, <3>1
      <4> HIDE DEF f
      <4>2. /\ SubSeq(w, f, Len(w)) \in Seq(Byte)
            /\ Len(SubSeq(w, f, Len(w))) = IF f <= Len(w) THEN Len(w) - f + 1 ELSE 0
            /\ \A j \in 1..(Len(w) - f + 1) : SubSeq(w, f, Len(w))[j] = w[f + j - 1]
        BY <4>1, SubSeqProperties
      <4> QED BY <4>2 DEF f
    <3> HIDE DEF b
    <3>3. Len(b) = n
      BY <1>2, <2>1, <2>2, <3>2
    <3>4. ASSUME NEW j \in 1..n PROVE b[j] = w[j + d.to]
      <4>1. j \in 1..(Len(w) - (d.to + 1) + 1) /\ (d.to + 1) + j - 1 = j + d.to
        BY <1>2, <2>1, <2>2
      <4> QED BY <3>2, <4>1
    <3> QED BY <3>2, <3>3, <3>4
  <2> HIDE DEF a, b
  <2>5. /\ Len(a \o b) = m + n
        /\ \A j \in 1..(m + n) : (a \o b)[j] = IF j <= m THEN a[j] ELSE b[j - m]
    <3>1. /\ Len(a \o b) = Len(a) + Len(b)
          /\ \A j \in 1..(Len(a) + Len(b)) :
               (a \o b)[j] = IF j <= Len(a) THEN a[j] ELSE b[j - Len(a)]
      BY <2>3, <2>4, ConcatProperties
    <3> HIDE DEF m, n
    <3> QED BY <2>3, <2>4, <3>1, Zenon
  <2>6. ASSUME NEW j \in 1..(m + n)
        PROVE  (a \o b)[j] = IF j < d.from THEN w[j] ELSE w[j - m + d.to]
    <3>1. CASE j < d.from
      <4>1. j <= m /\ j \in 1..m
        BY <2>1, <3>1
      <4> QED BY <2>3, <2>5, <3>1, <4>1
    <3>2. CASE ~(j < d.from)
      <4>1. ~(j <= m) /\ j - m \in 1..n
        <5>1. d.from \in Int /\ d.from = m + 1 /\ j \in 1..(m + n)
          BY <2>1
        <5> HIDE DEF m, n
        <5> QED BY <2>2, <3>2, <5>1
      <4> QED BY <2>4, <2>5, <3>2, <4>1
    <3> QED BY <3>1, <3>2
  <2> QED BY <2>1, <2>5, <2>6
<1> QED BY <1>1, <1>2, <1>3, <1>4, <1>5

(***************************************************************************)
(* The invariant: what the sender has accepted accounts for all frames but *)
(* damaged ones, and it is in step unless damage has just put it out.      *)
(***************************************************************************)
AheadOfDamage(s, d) ==
    \E i \in 0..Len(s), k \in 0..4 :
        /\ 5 * i + k <= 5 * Len(s) /\ \A h \in Hit(d) : 5 * i + k < h
        /\ Left(Carried(Acks(s), d), 5 * i + k) /\ SoundAt(s, d, i, k)

PastDamage(s, d) ==
    \E i \in 0..Len(s), k \in 0..4 :
        /\ 5 * i + k <= 5 * Len(s)
        /\ Left(Acks(s), 5 * i + k) /\ (SoundAt(s, d, i, k) \/ StrayAt(s, d, i, k))

AcksInStep == direction = "back" =>
    \E s \in Streams : \E d \in Damages(Acks(s)) :
        /\ stream = s /\ damage = d
        /\ AheadOfDamage(s, d) \/ PastDamage(s, d)

(* One byte on, in whatever queue it is. *)
LEMMA PastAgain ==
    ASSUME NEW s \in Streams, NEW d, NEW i \in 0..(Len(s) - 1), NEW k \in 0..4,
           Left(Acks(s), 5 * i + k + 1)',
           IF k = 4 THEN SoundAt(s, d, i + 1, 0)' \/ StrayAt(s, d, i + 1, 0)'
           ELSE SoundAt(s, d, i, k + 1)' \/ StrayAt(s, d, i, k + 1)'
    PROVE  PastDamage(s, d)'
<1>0. Len(s) \in Nat
  BY AckBytes
<1>1. CASE k = 4
  <2>1. /\ i + 1 \in 0..Len(s) /\ 0 \in 0..4 /\ 5 * (i + 1) + 0 = 5 * i + k + 1
        /\ 5 * (i + 1) + 0 <= 5 * Len(s)
    BY <1>0, <1>1
  <2>2. Left(Acks(s), 5 * (i + 1) + 0)'
    BY <2>1
  <2> QED BY <1>1, <2>1, <2>2 DEF PastDamage
<1>2. CASE k # 4
  <2>1. /\ i \in 0..Len(s) /\ k + 1 \in 0..4 /\ 5 * i + (k + 1) = 5 * i + k + 1
        /\ 5 * i + (k + 1) <= 5 * Len(s)
    BY <1>0, <1>2
  <2>2. Left(Acks(s), 5 * i + (k + 1))'
    BY <2>1
  <2> QED BY <1>2, <2>1, <2>2 DEF PastDamage
<1> QED BY <1>1, <1>2

LEMMA AheadAgain ==
    ASSUME NEW s \in Streams, NEW d, NEW i \in 0..(Len(s) - 1), NEW k \in 0..4,
           \A h \in Hit(d) : 5 * i + k + 1 < h,
           Left(Carried(Acks(s), d), 5 * i + k + 1)',
           IF k = 4 THEN SoundAt(s, d, i + 1, 0)' ELSE SoundAt(s, d, i, k + 1)'
    PROVE  AheadOfDamage(s, d)'
<1>0. Len(s) \in Nat
  BY AckBytes
<1>1. CASE k = 4
  <2>1. /\ i + 1 \in 0..Len(s) /\ 0 \in 0..4 /\ 5 * (i + 1) + 0 = 5 * i + k + 1
        /\ 5 * (i + 1) + 0 <= 5 * Len(s)
    BY <1>0, <1>1
  <2>2. Left(Carried(Acks(s), d), 5 * (i + 1) + 0)' /\ \A h \in Hit(d) : 5 * (i + 1) + 0 < h
    BY <2>1
  <2> QED BY <1>1, <2>1, <2>2 DEF AheadOfDamage
<1>2. CASE k # 4
  <2>1. /\ i \in 0..Len(s) /\ k + 1 \in 0..4 /\ 5 * i + (k + 1) = 5 * i + k + 1
        /\ 5 * i + (k + 1) <= 5 * Len(s)
    BY <1>0, <1>2
  <2>2. Left(Carried(Acks(s), d), 5 * i + (k + 1))' /\ \A h \in Hit(d) : 5 * i + (k + 1) < h
    BY <2>1
  <2> QED BY <1>2, <2>1, <2>2 DEF AheadOfDamage
<1> QED BY <1>1, <1>2

LEMMA PastStep ==
    ASSUME NEW s \in Streams, NEW d, PastDamage(s, d), TypeOK, SenderReads
    PROVE  PastDamage(s, d)'
<1>1. PICK i \in 0..Len(s), k \in 0..4 :
        /\ 5 * i + k <= 5 * Len(s)
        /\ Left(Acks(s), 5 * i + k) /\ (SoundAt(s, d, i, k) \/ StrayAt(s, d, i, k))
  BY DEF PastDamage
<1>2. Acks(s) \in Seq(Byte) /\ Len(s) \in Nat /\ Len(Acks(s)) = 5 * Len(s)
  BY AckBytes
<1>3. 5 * i + k \in Nat
  BY <1>2
<1>4. /\ 5 * i + k < 5 * Len(s) /\ LlwriteTakes(Acks(s)[5 * i + k + 1])
      /\ Left(Acks(s), 5 * i + k + 1)'
  BY <1>1, <1>2, <1>3, ReadsNext
<1>5. i \in 0..(Len(s) - 1)
  BY <1>2, <1>4
<1>6. CASE SoundAt(s, d, i, k)
  <2>1. IF k = 4 THEN SoundAt(s, d, i + 1, 0)' ELSE SoundAt(s, d, i, k + 1)'
    BY <1>4, <1>5, <1>6, SoundStep
  <2> QED BY <1>4, <1>5, <2>1, PastAgain
<1>7. CASE StrayAt(s, d, i, k)
  <2>1. /\ k = 0 => SoundAt(s, d, i, 1)'
        /\ k \in 1..3 => StrayAt(s, d, i, k + 1)'
        /\ k = 4 => StrayAt(s, d, i + 1, 0)'
    BY <1>4, <1>5, <1>7, StrayStep
  <2>2. IF k = 4 THEN StrayAt(s, d, i + 1, 0)'
        ELSE SoundAt(s, d, i, k + 1)' \/ StrayAt(s, d, i, k + 1)'
    <3>1. k = 0 \/ k \in 1..3 \/ k = 4
      OBVIOUS
    <3>2. 0 + 1 = 1
      OBVIOUS
    <3> QED BY <2>1, <3>1, <3>2
  <2> QED BY <1>4, <1>5, <2>2, PastAgain
<1> QED BY <1>1, <1>6, <1>7

(* A position is so many whole frames and so many bytes. *)
LEMMA DivFive ==
    \A p \in Nat : p \div 5 \in Nat /\ p % 5 \in 0..4 /\ p = 5 * (p \div 5) + (p % 5)
OBVIOUS

(* Where the line loses bytes, the next one read is past the loss. *)
LEMMA AheadOrPast ==
    ASSUME NEW s \in Streams, NEW d \in Losses(Acks(s)), TypeOK,
           NEW i \in 0..Len(s), NEW k \in 0..4, d.from = 5 * i + k + 1,
           Left(Carried(Acks(s), d), 5 * i + k), SoundAt(s, d, i, k)
    PROVE  PastDamage(s, d)
<1> DEFINE A == Acks(s)
           C == Carried(A, d)
           I == d.to \div 5
           K == d.to % 5
<1>1. Len(s) \in Nat /\ A \in Seq(Byte) /\ Len(A) = 5 * Len(s)
  BY AckBytes
<1>2. /\ d.from \in 1..Len(A) /\ d.to \in 1..Len(A) /\ d.from <= d.to
      /\ Len(C) = (d.from - 1) + (Len(A) - d.to)
      /\ \A j \in 1..((d.from - 1) + (Len(A) - d.to)) :
           C[j] = IF j < d.from THEN A[j] ELSE A[j - (d.from - 1) + d.to]
  <2>1. d \in Damages(A)
    BY DEF Damages
  <2> QED BY <1>1, <2>1, CarriedBytes
<1> HIDE DEF A, C
<1>3. /\ I \in 0..Len(s) /\ K \in 0..4 /\ d.to = 5 * I + K /\ I \in Nat
      /\ i \in 0..(Len(s) - 1)
  <2>1. d.to \in Nat /\ d.from \in Nat
    BY <1>1, <1>2
  <2>2. I \in Nat /\ K \in 0..4 /\ d.to = 5 * I + K
    BY <2>1, DivFive
  <2> HIDE DEF I, K
  <2>3. 5 * I + K <= 5 * Len(s) /\ 5 * i + k + 1 <= 5 * Len(s)
    BY <1>1, <1>2, <2>2
  <2> QED BY <1>1, <2>2, <2>3
<1>4. StrayAt(s, d, I, K)
  <2>1. awaited = Awaited(accepted)
    BY DEF TypeOK, Awaited
  <2> HIDE DEF I, K
  <2> QED BY <1>3, <2>1, LossJump
<1>5. Left(A, 5 * I + K)
  <2> HIDE DEF I, K
  <2>1. Len(wire) = Len(C) - (d.from - 1) /\ d.from - 1 = 5 * i + k
        /\ \A j \in 1..Len(wire) : wire[j] = C[5 * i + k + j]
    <3> DEFINE x == 5 * i + k
    <3>1. Left(C, x)
      BY DEF C, A
    <3>2. x \in Nat /\ d.from = x + 1
      BY <1>1
    <3> HIDE DEF x, C, A
    <3>3. d.from - 1 = x
      BY <3>2
    <3>4. Len(wire) = Len(C) - x /\ \A j \in 1..Len(wire) : wire[j] = C[x + j]
      BY <3>1 DEF Left
    <3> QED BY <3>3, <3>4 DEF x
  <2>2. Len(wire) = Len(A) - d.to /\ Len(wire) \in Nat
    <3>1. Len(A) \in Nat /\ d.from \in 1..Len(A) /\ d.to \in 1..Len(A)
      BY <1>1, <1>2
    <3>2. Len(wire) = Len(C) - (d.from - 1) /\ Len(C) = (d.from - 1) + (Len(A) - d.to)
      BY <1>2, <2>1
    <3> HIDE DEF A, C
    <3> QED BY <3>1, <3>2
  <2>3. ASSUME NEW j \in 1..Len(wire) PROVE wire[j] = A[d.to + j]
    <3> DEFINE x == 5 * i + k + j
    <3>1. /\ x \in 1..((d.from - 1) + (Len(A) - d.to)) /\ ~(x < d.from)
          /\ x - (d.from - 1) + d.to = d.to + j
      <4>1. /\ Len(A) \in Nat /\ d.from \in 1..Len(A) /\ d.to \in 1..Len(A) /\ d.from <= d.to
            /\ j \in 1..(Len(A) - d.to) /\ x = (d.from - 1) + j
        BY <1>1, <1>2, <2>1, <2>2
      <4> HIDE DEF x
      <4> QED BY <4>1, AroundLoss
    <3>2. wire[j] = C[x]
      BY <2>1
    <3> HIDE DEF x
    <3> QED BY <1>2, <3>1, <3>2
  <2> QED BY <1>3, <2>2, <2>3 DEF Left
<1>6. 5 * I + K <= 5 * Len(s)
  BY <1>1, <1>2, <1>3
<1> HIDE DEF I, K
<1> QED BY <1>3, <1>4, <1>5, <1>6 DEF PastDamage, A

LEMMA AheadStep ==
    ASSUME NEW s \in Streams, NEW d \in Damages(Acks(s)), AheadOfDamage(s, d),
           TypeOK, SenderReads
    PROVE  AheadOfDamage(s, d)' \/ PastDamage(s, d)'
<1> DEFINE A == Acks(s)
           C == Carried(A, d)
<1>1. PICK i \in 0..Len(s), k \in 0..4 :
        /\ 5 * i + k <= 5 * Len(s) /\ \A h \in Hit(d) : 5 * i + k < h
        /\ Left(C, 5 * i + k) /\ SoundAt(s, d, i, k)
  BY DEF AheadOfDamage
<1>2. A \in Seq(Byte) /\ Len(s) \in Nat /\ Len(A) = 5 * Len(s)
  BY AckBytes
<1>3. C \in Seq(Byte)
  BY <1>2, CarriedIsSeq
<1>4. 5 * i + k \in Nat
  BY <1>2
<1>5. /\ 5 * i + k < Len(C) /\ LlwriteTakes(C[5 * i + k + 1])
      /\ Left(C, 5 * i + k + 1)'
  <2> HIDE DEF C
  <2> QED BY <1>1, <1>3, <1>4, ReadsNext
<1>6. CASE d = NoDamage
  <2>1. C = A
    BY <1>2, <1>6, CarriedBytes
  <2>2. PastDamage(s, d)
    BY <1>1, <2>1 DEF PastDamage
  <2> QED BY <2>2, PastStep
<1>7. CASE d \in Flips(A)
  <2>1. /\ d.at \in 1..Len(A) /\ Hit(d) = {d.at} /\ Len(C) = Len(A)
        /\ \A j \in 1..Len(A) : C[j] = IF j = d.at THEN Xor(A[j], {d.bit}) ELSE A[j]
    BY <1>2, <1>7, CarriedBytes
  <2> HIDE DEF C, A
  <2>2. i \in 0..(Len(s) - 1) /\ 5 * i + k < d.at /\ 5 * i + k + 1 \in 1..Len(A)
    BY <1>1, <1>2, <1>4, <1>5, <2>1
  <2>3. CASE d.at = 5 * i + k + 1
    <3>1. C[5 * i + k + 1] = Xor(A[d.at], {d.bit})
      BY <2>1, <2>2, <2>3
    <3>2. LlwriteTakes(Xor(A[d.at], {d.bit}))
      BY <1>5, <3>1
    <3>3. IF k = 4 THEN StrayAt(s, d, i + 1, 0)' ELSE StrayAt(s, d, i, k + 1)'
      BY <1>1, <1>7, <2>2, <2>3, <3>2, FlipStep DEF A
    <3>4. Left(A, 5 * i + k + 1)'
      <4>1. Len(wire') = Len(A) - (5 * i + k + 1)
            /\ \A j \in 1..Len(wire') : wire'[j] = C[5 * i + k + 1 + j]
        BY <1>5, <2>1 DEF Left
      <4>2. ASSUME NEW j \in 1..Len(wire') PROVE wire'[j] = A[5 * i + k + 1 + j]
        <5>1. Len(wire') \in Nat /\ Len(A) \in Nat
          BY <1>2, <2>2, <4>1
        <5>2. 5 * i + k + 1 + j \in 1..Len(A) /\ 5 * i + k + 1 + j # d.at
          BY <1>4, <2>3, <4>1, <5>1
        <5> QED BY <2>1, <4>1, <5>2
      <4> QED BY <4>1, <4>2 DEF Left, A
    <3> QED BY <2>2, <3>3, <3>4, PastAgain DEF A
  <2>4. CASE d.at # 5 * i + k + 1
    <3>1. C[5 * i + k + 1] = A[5 * i + k + 1]
      BY <2>1, <2>2, <2>4
    <3>2. IF k = 4 THEN SoundAt(s, d, i + 1, 0)' ELSE SoundAt(s, d, i, k + 1)'
      BY <1>1, <1>5, <2>2, <3>1, SoundStep DEF A
    <3>3. \A h \in Hit(d) : 5 * i + k + 1 < h
      <4>1. d.at \in Nat /\ Hit(d) = {d.at}
        BY <1>2, <2>1
      <4>2. 5 * i + k + 1 < d.at
        BY <1>4, <2>2, <2>4, <4>1
      <4> QED BY <4>1, <4>2
    <3> QED BY <1>5, <2>2, <3>2, <3>3, AheadAgain DEF A, C
  <2> QED BY <2>3, <2>4
<1>8. CASE d \in Losses(A)
  <2>1. /\ d.from \in 1..Len(A) /\ d.to \in 1..Len(A) /\ d.from <= d.to
        /\ Hit(d) = d.from..d.to
        /\ Len(C) = (d.from - 1) + (Len(A) - d.to)
        /\ \A j \in 1..((d.from - 1) + (Len(A) - d.to)) :
             C[j] = IF j < d.from THEN A[j] ELSE A[j - (d.from - 1) + d.to]
    BY <1>2, <1>8, CarriedBytes
  <2>2. CASE d.from = 5 * i + k + 1
    <3>1. PastDamage(s, d)
      BY <1>1, <1>8, <2>2, AheadOrPast
    <3> QED BY <3>1, PastStep
  <2>3. CASE d.from # 5 * i + k + 1
    <3> HIDE DEF C, A
    <3>1. 5 * i + k < d.from
      BY <1>1, <1>2, <2>1
    <3>2. /\ i \in 0..(Len(s) - 1) /\ 5 * i + k + 1 < d.from
          /\ 5 * i + k + 1 \in 1..((d.from - 1) + (Len(A) - d.to))
      <4>1. d.from \in Nat /\ d.to \in Nat /\ d.to <= Len(A) /\ d.from <= d.to
        BY <1>2, <2>1
      <4>2. 5 * i + k + 1 < d.from
        BY <1>4, <2>3, <3>1, <4>1
      <4>3. 5 * i + k + 1 <= 5 * Len(s)
        BY <1>2, <4>1, <4>2
      <4> QED BY <1>2, <1>4, <4>1, <4>2, <4>3
    <3>3. C[5 * i + k + 1] = A[5 * i + k + 1]
      BY <2>1, <3>2
    <3>4. IF k = 4 THEN SoundAt(s, d, i + 1, 0)' ELSE SoundAt(s, d, i, k + 1)'
      BY <1>1, <1>5, <3>2, <3>3, SoundStep DEF A
    <3>5. \A h \in Hit(d) : 5 * i + k + 1 < h
      BY <1>2, <1>4, <2>1, <3>2
    <3> QED BY <1>5, <3>2, <3>4, <3>5, AheadAgain DEF A, C
  <2> QED BY <2>2, <2>3
<1> QED BY <1>6, <1>7, <1>8 DEF Damages

LEMMA AcksInStepAlways == Spec => []AcksInStep
<1>1. ASSUME Init PROVE AcksInStep
  <2> SUFFICES ASSUME direction = "back"
               PROVE  \E s \in Streams : \E d \in Damages(Acks(s)) :
                        /\ stream = s /\ damage = d
                        /\ AheadOfDamage(s, d) \/ PastDamage(s, d)
    BY DEF AcksInStep
  <2>1. /\ stream \in Streams /\ damage \in Damages(Acks(stream))
        /\ wire = Carried(Acks(stream), damage) /\ state = "SIGA" /\ accepted = << >>
    BY <1>1 DEF Init, Forward, Back, ReceiverInit, Streams, Bits
  <2>2. PICK s \in Streams : stream = s
    BY <2>1
  <2>3. PICK d \in Damages(Acks(s)) : damage = d
    BY <2>1, <2>2
  <2>4. Len(s) \in Nat /\ Acks(s) \in Seq(Byte) /\ Carried(Acks(s), d) \in Seq(Byte)
    BY AckBytes, CarriedIsSeq
  <2>5. SoundAt(s, d, 0, 0)
    BY <2>1, NothingExplained DEF SoundAt
  <2>6. Left(Carried(Acks(s), d), 5 * 0 + 0)
    <3> DEFINE C == Carried(Acks(s), d)
    <3>1. wire = C
      BY <2>1, <2>2, <2>3
    <3>2. Len(C) \in Nat
      BY <2>4, LenProperties
    <3> HIDE DEF C
    <3>3. Left(C, 5 * 0 + 0)
      BY <3>1, <3>2 DEF Left
    <3> QED BY <3>3 DEF C
  <2>7. ASSUME NEW h \in Hit(d) PROVE 5 * 0 + 0 < h
    <3>1. CASE d = NoDamage
      BY <2>7, <3>1 DEF Hit, NoDamage
    <3>2. CASE d \in Flips(Acks(s)) \cup Losses(Acks(s))
      BY <2>4, <2>7, <3>2 DEF Flips, Losses, Hit
    <3> QED BY <3>1, <3>2 DEF Damages
  <2>8. 0 \in 0..Len(s) /\ 0 \in 0..4 /\ 5 * 0 + 0 <= 5 * Len(s)
    BY <2>4
  <2>9. AheadOfDamage(s, d)
    BY <2>5, <2>6, <2>7, <2>8 DEF AheadOfDamage
  <2> QED BY <2>2, <2>3, <2>9
<1>2. ASSUME AcksInStep, TypeOK, [Next]_vars PROVE AcksInStep'
  <2> SUFFICES ASSUME direction' = "back"
               PROVE  \E s \in Streams : \E d \in Damages(Acks(s)) :
                        /\ stream' = s /\ damage' = d
                        /\ AheadOfDamage(s, d)' \/ PastDamage(s, d)'
    BY DEF AcksInStep
  <2>1. UNCHANGED <<direction, stream, damage>>
    BY <1>2 DEF Next, ReceiverReads, SenderReads, Receives, vars
  <2>2. PICK s \in Streams : \E d \in Damages(Acks(s)) :
          /\ stream = s /\ damage = d
          /\ AheadOfDamage(s, d) \/ PastDamage(s, d)
    BY <1>2, <2>1 DEF AcksInStep
  <2>3. PICK d \in Damages(Acks(s)) :
          /\ stream = s /\ damage = d
          /\ AheadOfDamage(s, d) \/ PastDamage(s, d)
    BY <2>2
  <2>4. AheadOfDamage(s, d)' \/ PastDamage(s, d)'
    <3>1. CASE SenderReads
      BY <1>2, <2>3, <3>1, AheadStep, PastStep
    <3>2. CASE ReceiverReads
      BY <2>1, <3>2 DEF ReceiverReads
    <3>3. CASE UNCHANGED vars
      <4>1. UNCHANGED <<wire, state, awaited, accepted>>
        BY <3>3 DEF vars, ackReceiver
      <4> QED BY <2>3, <4>1 DEF AheadOfDamage, PastDamage, Left, SoundAt, StrayAt
    <3> QED BY <1>2, <3>1, <3>2, <3>3 DEF Next
  <2> QED BY <2>1, <2>3, <2>4
<1> QED BY <1>1, <1>2, TypesHold, PTL DEF Spec

(* When everything has been read, only damaged frames are missing. *)
LEMMA AllExplained ==
    ASSUME NEW s \in Streams, NEW d \in Damages(Acks(s)), TypeOK, wire = << >>,
           AheadOfDamage(s, d) \/ PastDamage(s, d)
    PROVE  Explains(s, d, Len(s), accepted)
<1> DEFINE A == Acks(s)
           C == Carried(A, d)
<1>1. A \in Seq(Byte) /\ Len(s) \in Nat /\ Len(A) = 5 * Len(s) /\ Len(wire) = 0
  BY AckBytes
<1>2. ASSUME PastDamage(s, d) PROVE Explains(s, d, Len(s), accepted)
  <2>1. PICK i \in 0..Len(s), k \in 0..4 :
          /\ 5 * i + k <= 5 * Len(s)
          /\ Left(A, 5 * i + k) /\ (SoundAt(s, d, i, k) \/ StrayAt(s, d, i, k))
    BY <1>2 DEF PastDamage
  <2>2. i = Len(s) /\ k = 0
    BY <1>1, <2>1 DEF Left
  <2> QED BY <2>1, <2>2 DEF SoundAt, StrayAt
<1>3. ASSUME AheadOfDamage(s, d) PROVE PastDamage(s, d)
  <2>1. PICK i \in 0..Len(s), k \in 0..4 :
          /\ 5 * i + k <= 5 * Len(s) /\ \A h \in Hit(d) : 5 * i + k < h
          /\ Left(C, 5 * i + k) /\ SoundAt(s, d, i, k)
    BY <1>3 DEF AheadOfDamage
  <2>2. CASE d = NoDamage
    <3>1. C = A
      BY <1>1, <2>2, CarriedBytes
    <3> QED BY <2>1, <3>1 DEF PastDamage
  <2>3. CASE d \in Flips(A)
    <3>1. d.at \in 1..Len(A) /\ Hit(d) = {d.at} /\ Len(C) = Len(A)
      BY <1>1, <2>3, CarriedBytes
    <3> HIDE DEF C, A
    <3>2. 5 * i + k < d.at /\ 0 = Len(A) - (5 * i + k)
      BY <1>1, <2>1, <3>1 DEF Left
    <3> QED BY <1>1, <3>1, <3>2
  <2>4. CASE d \in Losses(A)
    <3>1. d \in Damages(A)
      BY <2>4 DEF Damages
    <3>2. d.from = 5 * i + k + 1
      <4>1. /\ d.from \in 1..Len(A) /\ d.to \in 1..Len(A) /\ d.from <= d.to
            /\ Hit(d) = d.from..d.to
            /\ Len(C) = (d.from - 1) + (Len(A) - d.to)
        <5>1. Hit(d) = d.from..d.to
          BY <1>1, <2>4, <3>1, CarriedBytes
        <5>2. d.from \in 1..Len(A) /\ d.to \in 1..Len(A) /\ d.from <= d.to
          BY <1>1, <2>4, <3>1, CarriedBytes
        <5>3. Len(Carried(Acks(s), d)) = (d.from - 1) + (Len(Acks(s)) - d.to)
          <6> HIDE DEF A, C
          <6>1. Acks(s) \in Seq(Byte) /\ d \in Damages(Acks(s)) /\ d \in Losses(Acks(s))
            BY <1>1, <2>4, <3>1 DEF A
          <6> QED BY <6>1, CarriedBytes
        <5> QED BY <5>1, <5>2, <5>3
      <4> HIDE DEF A, C
      <4>2. d.from \in Hit(d)
        BY <1>1, <4>1
      <4>3. 5 * i + k < d.from /\ 0 = Len(C) - (5 * i + k)
        BY <1>1, <2>1, <4>2 DEF Left
      <4>4. d.from \in Nat /\ d.to \in Nat /\ Len(A) \in Nat /\ d.to <= Len(A)
        BY <1>1, <4>1
      <4>5. 5 * i + k = (d.from - 1) + (Len(A) - d.to) /\ 5 * i + k \in Nat
        BY <4>1, <4>3, <4>4
      <4> DEFINE x == 5 * i + k
      <4> HIDE DEF x
      <4>6. x < d.from /\ x = (d.from - 1) + (Len(A) - d.to) /\ x \in Nat
        BY <4>3, <4>5 DEF x
      <4>7. d.from = x + 1
        BY <4>4, <4>6
      <4> QED BY <4>7 DEF x
    <3> QED BY <2>1, <2>4, <3>2, AheadOrPast
  <2> QED BY <2>2, <2>3, <2>4 DEF Damages
<1> QED BY <1>2, <1>3

(* Damage only ever removes acknowledgments, and only those it touches.    *)
THEOREM DamageOnlyLosesHolds == Spec => []DamageOnlyLoses
<1>1. ASSUME AcksInStep, TypeOK PROVE DamageOnlyLoses
  <2> SUFFICES ASSUME direction = "back", wire = << >>
               PROVE  \E lost \in SUBSET HitFrames :
                        accepted = Alternating((1..Len(stream)) \ lost)
    BY DEF DamageOnlyLoses
  <2>1. PICK s \in Streams : \E d \in Damages(Acks(s)) :
          /\ stream = s /\ damage = d
          /\ AheadOfDamage(s, d) \/ PastDamage(s, d)
    BY <1>1 DEF AcksInStep
  <2>2. PICK d \in Damages(Acks(s)) :
          /\ stream = s /\ damage = d
          /\ AheadOfDamage(s, d) \/ PastDamage(s, d)
    BY <2>1
  <2>3. Explains(stream, damage, Len(stream), accepted) /\ Len(stream) \in Nat
    BY <1>1, <2>2, AllExplained, AckBytes
  <2>4. PICK kept \in SUBSET (1..Len(stream)) : \E run \in [0..Len(stream) -> Seq(Bits)] :
          /\ Accounts(stream, kept, run, Len(stream))
          /\ (1..Len(stream)) \ kept \subseteq HitBy(damage)
          /\ run[Len(stream)] = accepted
    BY <2>3 DEF Explains
  <2>5. PICK run \in [0..Len(stream) -> Seq(Bits)] :
          /\ Accounts(stream, kept, run, Len(stream))
          /\ (1..Len(stream)) \ kept \subseteq HitBy(damage)
          /\ run[Len(stream)] = accepted
    BY <2>4
  <2>6. Alternating(kept) = accepted
    BY <2>3, <2>5, AlternatingIs
  <2> DEFINE lost == (1..Len(stream)) \ kept
  <2>7. lost \in SUBSET HitFrames
    BY <2>5 DEF HitBy, HitFrames
  <2>8. (1..Len(stream)) \ lost = kept
    BY <2>4
  <2> QED BY <2>6, <2>7, <2>8
<1> QED BY <1>1, AcksInStepAlways, TypesHold, PTL

(***************************************************************************)
(* One wrong bit.  What the automaton collects is known by its exclusive   *)
(* or: it is that of what the frame should have held so far, or it is off  *)
(* by what the bit made of ESC, or it is just not that.                    *)
(***************************************************************************)
Bit == 0..7

NearEsc == {ESC} \cup {Xor(ESC, {bit}) : bit \in Bit}

LEMMA WrongBit ==
    ASSUME NEW bit \in Bit
    PROVE  /\ {bit} \in Byte
           /\ \A a \in Byte : Xor(a, {bit}) \in Byte /\ Xor(a, {bit}) # a
           /\ Xor(FLAG, {bit}) \notin {FLAG, ESC, A_fromT, {}}
           /\ Xor(ESC, {bit}) \notin {FLAG, ESC}
           /\ Xor(A_fromT, {bit}) \notin {A_fromT, FLAG}
           /\ \A c \in {{}, {0}} : Xor(Xor(A_fromT, c), {bit}) # FLAG
<1>1. {bit} \in Byte
  BY DEF Byte, Bit
<1>2. ASSUME NEW a \in Byte PROVE Xor(a, {bit}) \in Byte /\ Xor(a, {bit}) # a
  <2>1. bit \in Xor(a, {bit}) <=> bit \notin a
    BY DEF Xor
  <2> QED BY <1>1, <2>1, XorOfBytes
<1>3. Xor(FLAG, {bit}) # FLAG /\ Xor(ESC, {bit}) # ESC /\ Xor(A_fromT, {bit}) # A_fromT
  BY <1>2, ControlBytes
<1>4. Xor(FLAG, {bit}) # ESC /\ Xor(ESC, {bit}) # FLAG
  <2>1. /\ 0 \notin FLAG /\ 1 \in FLAG /\ 0 \in ESC /\ 1 \notin ESC
    BY DEF FLAG, ESC
  <2>2. bit # 0 \/ bit # 1
    OBVIOUS
  <2> QED BY <2>1, <2>2 DEF Xor
<1>5. Xor(FLAG, {bit}) # A_fromT /\ Xor(A_fromT, {bit}) # FLAG /\ Xor(FLAG, {bit}) # {}
  <2>1. 2 \in FLAG /\ 3 \in FLAG /\ 2 \notin A_fromT /\ 3 \notin A_fromT /\ 2 \notin {} /\ 3 \notin {}
    BY DEF FLAG, A_fromT
  <2>2. bit # 2 \/ bit # 3
    OBVIOUS
  <2> QED BY <2>1, <2>2 DEF Xor
<1>6. ASSUME NEW c \in {{}, {0}} PROVE Xor(Xor(A_fromT, c), {bit}) # FLAG
  <2>1. 2 \in FLAG /\ 3 \in FLAG /\ 2 \notin A_fromT /\ 3 \notin A_fromT /\ 2 \notin c /\ 3 \notin c
    BY DEF FLAG, A_fromT
  <2>2. bit # 2 \/ bit # 3
    OBVIOUS
  <2>3. 2 \notin Xor(A_fromT, c) /\ 3 \notin Xor(A_fromT, c)
    BY <2>1 DEF Xor
  <2> QED BY <2>1, <2>2, <2>3 DEF Xor
<1> QED BY <1>1, <1>2, <1>3, <1>4, <1>5, <1>6

(* Off by nearly an ESC is not made up for by one more bit, nor by a FLAG  *)
(* with that bit.                                                          *)
LEMMA NearEscIsFar ==
    ASSUME NEW z \in NearEsc
    PROVE  z \in Byte /\ z \notin {{}, {5}, Xor(FLAG, {5})}
<1>1. ESC \in Byte /\ FLAG \in Byte
  BY ControlBytes
<1>2. \E p \in Bit : \A x : x # p => (x \in z <=> x \in ESC)
  <2>1. CASE z = ESC
    <3>1. 0 \in Bit
      BY DEF Bit
    <3> QED BY <2>1, <3>1
  <2>2. ASSUME NEW bit \in Bit, z = Xor(ESC, {bit})
        PROVE  \A x : x # bit => (x \in z <=> x \in ESC)
    BY <2>2 DEF Xor
  <2> QED BY <2>1, <2>2 DEF NearEsc
<1>3. PICK p \in Bit : \A x : x # p => (x \in z <=> x \in ESC)
  BY <1>2
<1>4. z \in Byte
  BY <1>1, WrongBit DEF NearEsc
<1>5. z # {} /\ z # {5}
  <2>1. 2 \in ESC /\ 3 \in ESC /\ 2 \notin {5} /\ 3 \notin {5} /\ 2 \notin {} /\ 3 \notin {}
    BY DEF ESC
  <2>2. p # 2 \/ p # 3
    OBVIOUS
  <2> QED BY <1>3, <2>1, <2>2
<1>6. z # Xor(FLAG, {5})
  <2>1. 0 \in ESC /\ 1 \notin ESC /\ 0 \notin Xor(FLAG, {5}) /\ 1 \in Xor(FLAG, {5})
    BY DEF ESC, FLAG, Xor
  <2>2. p # 0 \/ p # 1
    OBVIOUS
  <2> QED BY <1>3, <2>1, <2>2
<1> QED BY <1>4, <1>5, <1>6

(* The check byte makes the whole body come to nothing, and a body that    *)
(* does not come to nothing fails the check.                               *)
XorTo(s, n) == Bcc2(SubSeq(Body(s), 1, n))

LEMMA XorOfBody ==
    ASSUME NEW s \in Sendable
    PROVE  /\ XorTo(s, 0) = {} /\ XorTo(s, Len(Body(s))) = {}
           /\ \A n \in 0..Len(Body(s)) : SubSeq(Body(s), 1, n) \in Seq(Byte) /\ XorTo(s, n) \in Byte
           /\ \A n \in 0..Len(Body(s)) - 1 : /\ Body(s)[n + 1] \in Byte
                                             /\ XorTo(s, n + 1) = Xor(XorTo(s, n), Body(s)[n + 1])
<1>1. /\ Body(s) \in Seq(Byte) /\ Len(Body(s)) \in Nat
      /\ s.data \in Seq(Byte) /\ Bcc2(s.data) \in Byte
  BY PayloadIsSeq, Bcc2IsAByte
<1>2. XorTo(s, 0) = {}
  <2>1. SubSeq(Body(s), 1, 0) = << >>
    BY SubSeqEmpty
  <2> QED BY <2>1, Bcc2OfNothing DEF XorTo
<1>3. XorTo(s, Len(Body(s))) = {}
  <2>1. SubSeq(Body(s), 1, Len(Body(s))) = Append(s.data, Bcc2(s.data))
    BY <1>1, SubSeqFull DEF Body
  <2>2. Bcc2(Append(s.data, Bcc2(s.data))) = Xor(Bcc2(s.data), Bcc2(s.data))
    BY <1>1, Bcc2Append
  <2>3. XorTo(s, Len(Body(s))) = Bcc2(Append(s.data, Bcc2(s.data)))
    BY <2>1 DEF XorTo
  <2>4. Xor(Bcc2(s.data), Bcc2(s.data)) = {}
    BY DEF Xor
  <2> QED BY <2>2, <2>3, <2>4
<1>4. ASSUME NEW n \in 0..Len(Body(s))
      PROVE  SubSeq(Body(s), 1, n) \in Seq(Byte) /\ XorTo(s, n) \in Byte
  <2>1. \A i \in 1..n : Body(s)[i] \in Byte
    BY <1>1, ElementOfSeq
  <2>2. SubSeq(Body(s), 1, n) \in Seq(Byte)
    BY <1>1, <2>1, SubSeqProperties
  <2> QED BY <2>2, Bcc2IsAByte DEF XorTo
<1>5. ASSUME NEW n \in 0..Len(Body(s)) - 1
      PROVE  Body(s)[n + 1] \in Byte /\ XorTo(s, n + 1) = Xor(XorTo(s, n), Body(s)[n + 1])
  <2>1. n \in 0..Len(Body(s))
    BY <1>1
  <2>2. /\ Body(s)[n + 1] \in Byte
        /\ SubSeq(Body(s), 1, n + 1) = Append(SubSeq(Body(s), 1, n), Body(s)[n + 1])
    BY BodyPrefix
  <2> QED BY <1>4, <2>1, <2>2, Bcc2Append DEF XorTo
<1> QED BY <1>2, <1>3, <1>4, <1>5

LEMMA LastOff ==
    ASSUME NEW data \in Seq(Byte), data # << >>
    PROVE  /\ Front(data) \in Seq(Byte) /\ Last(data) \in Byte
           /\ Bcc2(data) = Xor(Bcc2(Front(data)), Last(data))
<1>1. PICK f \in Seq(Byte), e \in Byte : data = Append(f, e)
  BY SequenceEmptyOrAppend
<1>2. /\ Len(data) = Len(f) + 1 /\ Len(f) \in Nat /\ data[Len(f) + 1] = e
      /\ \A i \in 1..Len(f) : data[i] = f[i]
  BY <1>1, AppendProperties, LenProperties
<1>3. Last(data) = e
  BY <1>2 DEF Last
<1>4. Front(data) = f
  <2> DEFINE g == SubSeq(data, 1, Len(f))
  <2>1. Front(data) = g
    BY <1>2 DEF Front
  <2>2. \A i \in 1..Len(f) : data[i] = f[i] /\ f[i] \in Byte
    BY <1>2, ElementOfSeq
  <2>3. g \in Seq(Byte) /\ Len(g) = Len(f) /\ \A i \in 1..Len(f) : g[i] = data[i]
    BY <1>2, <2>2, SubSeqProperties
  <2> HIDE DEF g
  <2> QED BY <2>1, <2>2, <2>3, SeqEqual
<1> QED BY <1>1, <1>3, <1>4, Bcc2Append

LEMMA OffIsDamaged ==
    ASSUME NEW data \in Seq(Byte), Bcc2(data) # {}
    PROVE  data # << >> /\ Verdict(data) = Damaged
<1>1. data # << >>
  BY Bcc2OfNothing
<1>2. Bcc2(Front(data)) # Last(data)
  <2>1. Bcc2(data) = Xor(Bcc2(Front(data)), Last(data))
    BY <1>1, LastOff
  <2>2. \A e : Xor(e, e) = {}
    BY DEF Xor
  <2> QED BY <2>1, <2>2
<1> QED BY <1>1, <1>2 DEF Verdict

(***************************************************************************)
(* The wrong bit has been read, k copies being left behind the frame: the  *)
(* automaton is in step with them, or waits for a FLAG, or collects what   *)
(* cannot pass the check any more.                                         *)
(***************************************************************************)
CollectsOff(s, n, escaped) ==
    recState = "DATA" /\ (esc <=> escaped) /\ Bcc2(frameData) # XorTo(s, n)
CollectsFar(s, n, escaped) ==
    recState = "DATA" /\ (esc <=> escaped) /\ \E z \in NearEsc : Bcc2(frameData) = Xor(XorTo(s, n), z)
OnEscaped(s, n, k) == /\ Body(s)[n + 1] \in {FLAG, ESC}
                      /\ wire = Cons(Xor(Body(s)[n + 1], {5}), FromBody(s, n + 1, k))

AtNext(s, k)            == recState \in {"START", "FLAG_RCV"} /\ wire = Whole(s, k)
Idle(s, k)              == recState = "START" /\ AstrayInCopy(s, k)
WrongControl(s, k)      == recState = "C_RCV" /\ ctrl # s.ctrl /\ wire = FromBcc1(s, k)
WrongAtData(s, n, k)    == CollectsOff(s, n, FALSE) /\ wire = FromBody(s, n, k)
WrongAtEscaped(s, n, k) == CollectsOff(s, n, TRUE) /\ OnEscaped(s, n, k)
FalseEscape(s, n, k)    == CollectsFar(s, n, TRUE) /\ wire = FromBody(s, n, k)
LostEscape(s, n, k)     == CollectsFar(s, n, FALSE) /\ OnEscaped(s, n, k)
Glued(s, k)             == /\ recState = "DATA" /\ ~esc /\ Bcc2(frameData) # {}
                           /\ wire = Whole(s, k)

AfterBit(s, k) ==
    \/ AtNext(s, k) \/ InCopy(s, k, wire) \/ Idle(s, k) \/ WrongControl(s, k) \/ Glued(s, k)
    \/ \E n \in 0..Len(Body(s)) : WrongAtData(s, n, k) \/ FalseEscape(s, n, k)
    \/ \E n \in 0..Len(Body(s)) - 1 : WrongAtEscaped(s, n, k) \/ LostEscape(s, n, k)

(* What llread may answer when the line has done d to the frame of s.      *)
MayAnswer(s, d, v) == \/ v \in {Damaged, Good(s.ctrl, s.data)}
                      \/ /\ Xor(FrameOf(s)[d.at], {d.bit}) = FLAG
                         /\ v.ctrl = s.ctrl /\ IsStrictPrefix(v.data, s.data)
LlreadAnswers(s, d) == \/ verdicts' = verdicts
                  \/ \E v : MayAnswer(s, d, v) /\ verdicts' = Append(verdicts, v)

LEMMA Collecting ==
    ASSUME NEW b \in Byte, Collect(b), TypeOK
    PROVE  /\ recState' = "DATA" /\ ~esc' /\ verdicts' = verdicts
           /\ frameData' \in Seq(Byte) /\ frameData' # << >>
           /\ Bcc2(frameData') = Xor(Bcc2(frameData), IF esc THEN Xor(b, {5}) ELSE b)
<1> DEFINE e == IF esc THEN Xor(b, {5}) ELSE b
<1>1. e \in Byte /\ frameData \in Seq(Byte)
  <2>1. {5} \in Byte
    BY DEF Byte
  <2>2. Xor(b, {5}) \in Byte
    BY <2>1, XorOfBytes
  <2> QED BY <2>2 DEF TypeOK
<1>2. frameData' = Append(frameData, e) /\ recState' = "DATA" /\ ~esc' /\ verdicts' = verdicts
  BY DEF Collect
<1> HIDE DEF e
<1>3. frameData' \in Seq(Byte) /\ frameData' # << >>
  BY <1>1, <1>2, AppendProperties
<1>4. Bcc2(frameData') = Xor(Bcc2(frameData), e)
  BY <1>1, <1>2, Bcc2Append
<1> QED BY <1>2, <1>3, <1>4 DEF e

LEMMA IdleStep ==
    ASSUME NEW s \in Sendable, NEW k \in Nat, Idle(s, k), TypeOK, ReceiverReads
    PROVE  (Idle(s, k)' \/ AtNext(s, k)') /\ verdicts' = verdicts
<1>1. \E c : Start(c)
  BY TakesByState DEF Idle, ReceiverReads, Receives
<1>2. recState' \in {"START", "FLAG_RCV"} /\ verdicts' = verdicts
  BY <1>1 DEF Start, Resync
<1>3. \/ AstrayInCopy(s, k)'
      \/ recState' \in {"START", "FLAG_RCV"} /\ wire' = Whole(s, k)
  BY AstrayStep DEF Idle
<1>4. AstrayInCopy(s, k)' => recState' # "FLAG_RCV"
  BY DEF AstrayInCopy, AstrayAtAddress, AstrayInHeader, AstrayAtData, AstrayAtEscaped, Astray
<1> QED BY <1>2, <1>3, <1>4 DEF Idle, AtNext

LEMMA WrongControlStep ==
    ASSUME NEW s \in Sendable, NEW k \in Nat, WrongControl(s, k), TypeOK, ReceiverReads
    PROVE  Idle(s, k)' /\ verdicts' = verdicts
<1>1. Bcc1(s) \in Byte \ {FLAG} /\ FromBody(s, 0, k) \in Seq(Byte) /\ 0 \in 0..Len(Body(s))
  <2>1. Bcc1(s) \in Byte \ {FLAG}
    BY PayloadIsSeq, ControlBytes DEF Bcc1
  <2> QED BY <2>1, PlacesOfCopy
<1>2. LlreadTakes(Bcc1(s)) /\ wire' = FromBody(s, 0, k)
  BY <1>1, ReadsFirst DEF WrongControl, FromBcc1
<1>3. CRcv(Bcc1(s)) /\ ctrl # s.ctrl
  BY <1>2, TakesByState DEF WrongControl
<1>4. Bcc1(s) # Xor(A_fromT, ctrl)
  BY <1>3 DEF Bcc1, Xor
<1>5. recState' = "START" /\ verdicts' = verdicts
  BY <1>1, <1>3, <1>4 DEF CRcv, Resync
<1> QED BY <1>1, <1>2, <1>5 DEF Idle, AstrayInCopy, AstrayAtData, Astray

LEMMA GluedStep ==
    ASSUME NEW s \in Sendable, NEW d, NEW k \in Nat, Glued(s, k), TypeOK, ReceiverReads
    PROVE  k # 0 /\ Idle(s, k - 1)' /\ LlreadAnswers(s, d)
<1>1. wire # << >>
  BY ReadsNothingFromNothing
<1>2. k # 0 /\ k - 1 \in Nat /\ (k - 1) + 1 = k
  <2>1. k # 0
    BY <1>1, WholeFirst DEF Glued
  <2> QED BY <2>1
<1>3. /\ wire = Cons(FLAG, FromAddress(s, k - 1)) /\ FromAddress(s, k - 1) \in Seq(Byte)
      /\ FLAG \in Byte
  BY <1>2, PlacesOfCopy, ControlBytes DEF Glued
<1>4. LlreadTakes(FLAG) /\ wire' = FromAddress(s, k - 1)
  BY <1>3, ReadsFirst
<1>5. frameData # << >> /\ Verdict(frameData) = Damaged
  BY OffIsDamaged DEF Glued, TypeOK
<1>6. EndOfFrame(FLAG)
  BY <1>4, <1>5, TakesByState DEF Glued
<1>7. recState' = "START" /\ verdicts' = Append(verdicts, Damaged)
  BY <1>5, <1>6 DEF EndOfFrame
<1>8. Idle(s, k - 1)'
  BY <1>4, <1>7 DEF Idle, AstrayInCopy, AstrayAtAddress
<1> QED BY <1>2, <1>7, <1>8 DEF LlreadAnswers, MayAnswer

LEMMA XorIsOneToOne ==
    \A x, y, e : x # y => Xor(x, e) # Xor(y, e) /\ Xor(e, x) # Xor(e, y)
BY DEF Xor

(* What is off by nearly an ESC stays off when a byte of the body is read  *)
(* as if escaped, or as if not.                                            *)
LEMMA FarIsOff ==
    ASSUME NEW x, NEW b, NEW z \in NearEsc
    PROVE  Xor(x, z) # x /\ Xor(Xor(x, z), Xor(b, {5})) # Xor(x, b)
<1>1. z # {} /\ z # {5}
  BY NearEscIsFar
<1>2. PICK i : ~(i \in z <=> i \in {})
  BY <1>1
<1>3. PICK j : ~(j \in z <=> j \in {5})
  BY <1>1
<1>4. ~(i \in Xor(x, z) <=> i \in x)
  BY <1>2 DEF Xor
<1>5. ~(j \in Xor(Xor(x, z), Xor(b, {5})) <=> j \in Xor(x, b))
  <2>1. j \in Xor(Xor(x, z), Xor(b, {5})) <=> ~((j \in x <=> j \in z) <=> (j \in b <=> j \in {5}))
    BY DEF Xor
  <2>2. j \in Xor(x, b) <=> ~(j \in x <=> j \in b)
    BY DEF Xor
  <2> QED BY <1>3, <2>1, <2>2
<1> QED BY <1>4, <1>5

LEMMA WrongAtDataStep ==
    ASSUME NEW s \in Sendable, NEW d, NEW k \in Nat, NEW n \in 0..Len(Body(s)),
           WrongAtData(s, n, k), TypeOK, ReceiverReads
    PROVE  AfterBit(s, k)' /\ LlreadAnswers(s, d)
<1> DEFINE b == Body(s)[n + 1]
<1>1. LlreadTakes(Head(FromBody(s, n, k))) /\ wire' = Tail(FromBody(s, n, k))
  BY DEF WrongAtData, ReceiverReads, Receives
<1>2. CASE n = Len(Body(s))
  <2>1. LlreadTakes(FLAG) /\ wire' = Whole(s, k)
    BY <1>1, <1>2, BodyFirst
  <2>2. Bcc2(frameData) # {}
    BY <1>2, XorOfBody DEF WrongAtData, CollectsOff
  <2>3. frameData # << >> /\ Verdict(frameData) = Damaged
    BY <2>2, OffIsDamaged DEF TypeOK
  <2>4. EndOfFrame(FLAG)
    BY <2>1, <2>3, TakesByState DEF WrongAtData, CollectsOff
  <2>5. AtNext(s, k)' /\ verdicts' = Append(verdicts, Damaged)
    BY <2>1, <2>3, <2>4 DEF AtNext, EndOfFrame
  <2> QED BY <2>5 DEF AfterBit, LlreadAnswers, MayAnswer
<1>3. CASE n \in 0..Len(Body(s)) - 1 /\ b \notin {FLAG, ESC}
  <2>1. LlreadTakes(b) /\ wire' = FromBody(s, n + 1, k) /\ n + 1 \in 0..Len(Body(s)) /\ b \in Byte
    BY <1>1, <1>3, BodyFirst
  <2>2. Collect(b) /\ ~esc
    BY <1>3, <2>1, TakesByState DEF WrongAtData, CollectsOff
  <2>3. /\ recState' = "DATA" /\ ~esc' /\ verdicts' = verdicts
        /\ Bcc2(frameData') = Xor(Bcc2(frameData), b)
    BY <2>1, <2>2, Collecting
  <2>4. XorTo(s, n + 1) = Xor(XorTo(s, n), b)
    BY <1>3, XorOfBody
  <2>5. Bcc2(frameData') # XorTo(s, n + 1)
    <3>1. Bcc2(frameData) # XorTo(s, n)
      BY DEF WrongAtData, CollectsOff
    <3>2. Xor(Bcc2(frameData), b) # Xor(XorTo(s, n), b)
      BY <3>1, XorIsOneToOne, Zenon
    <3> QED BY <2>3, <2>4, <3>2
  <2>6. WrongAtData(s, n + 1, k)'
    BY <2>1, <2>3, <2>5 DEF WrongAtData, CollectsOff
  <2> QED BY <2>1, <2>3, <2>6 DEF AfterBit, LlreadAnswers
<1>4. CASE n \in 0..Len(Body(s)) - 1 /\ b \in {FLAG, ESC}
  <2>1. LlreadTakes(ESC) /\ wire' = Cons(Xor(b, {5}), FromBody(s, n + 1, k))
    BY <1>1, <1>4, BodyFirst
  <2>2. Escape(ESC)
    BY <2>1, TakesByState DEF WrongAtData, CollectsOff
  <2>3. WrongAtEscaped(s, n, k)' /\ verdicts' = verdicts
    BY <1>4, <2>1, <2>2 DEF WrongAtData, WrongAtEscaped, CollectsOff, OnEscaped, Escape
  <2> QED BY <1>4, <2>3 DEF AfterBit, LlreadAnswers
<1> QED BY <1>2, <1>3, <1>4, BodyFirst

(* The second byte of a pair is never FLAG or ESC. *)
LEMMA OnEscapedFirst ==
    ASSUME NEW s \in Sendable, NEW k \in Nat, NEW n \in 0..Len(Body(s)) - 1,
           OnEscaped(s, n, k), ReceiverReads
    PROVE  /\ LlreadTakes(Xor(Body(s)[n + 1], {5})) /\ wire' = FromBody(s, n + 1, k)
           /\ Xor(Body(s)[n + 1], {5}) \in Byte \ {FLAG, ESC} /\ Body(s)[n + 1] \in Byte
           /\ Xor(Xor(Body(s)[n + 1], {5}), {5}) = Body(s)[n + 1]
           /\ n + 1 \in 0..Len(Body(s))
<1>1. n \in 0..Len(Body(s)) /\ n + 1 \in 0..Len(Body(s)) /\ Body(s)[n + 1] \in Byte
  BY PayloadIsSeq, BodyPrefix
<1>2. /\ Xor(Body(s)[n + 1], {5}) \in Byte \ {FLAG, ESC}
      /\ Xor(Xor(Body(s)[n + 1], {5}), {5}) = Body(s)[n + 1]
  BY <1>1, StuffedByte DEF OnEscaped
<1>3. FromBody(s, n + 1, k) \in Seq(Byte)
  BY <1>1, PlacesOfCopy
<1>4. LlreadTakes(Xor(Body(s)[n + 1], {5})) /\ wire' = FromBody(s, n + 1, k)
  BY <1>2, <1>3, ReadsFirst DEF OnEscaped
<1> QED BY <1>1, <1>2, <1>4

LEMMA WrongAtEscapedStep ==
    ASSUME NEW s \in Sendable, NEW k \in Nat, NEW n \in 0..Len(Body(s)) - 1,
           WrongAtEscaped(s, n, k), TypeOK, ReceiverReads
    PROVE  AfterBit(s, k)' /\ verdicts' = verdicts
<1> DEFINE b == Body(s)[n + 1]
           c == Xor(b, {5})
<1>1. /\ LlreadTakes(c) /\ wire' = FromBody(s, n + 1, k) /\ c \in Byte \ {FLAG, ESC}
      /\ Xor(c, {5}) = b /\ n + 1 \in 0..Len(Body(s))
  BY OnEscapedFirst DEF WrongAtEscaped
<1> HIDE DEF c
<1>2. Collect(c) /\ esc
  BY <1>1, TakesByState DEF WrongAtEscaped, CollectsOff
<1>3. /\ recState' = "DATA" /\ ~esc' /\ verdicts' = verdicts
      /\ Bcc2(frameData') = Xor(Bcc2(frameData), b)
  BY <1>1, <1>2, Collecting
<1>4. XorTo(s, n + 1) = Xor(XorTo(s, n), b)
  BY XorOfBody
<1>5. Bcc2(frameData') # XorTo(s, n + 1)
  <2>1. Bcc2(frameData) # XorTo(s, n)
    BY DEF WrongAtEscaped, CollectsOff
  <2>2. Xor(Bcc2(frameData), b) # Xor(XorTo(s, n), b)
    BY <2>1, XorIsOneToOne
  <2> QED BY <1>3, <1>4, <2>2
<1>6. WrongAtData(s, n + 1, k)'
  BY <1>1, <1>3, <1>5 DEF WrongAtData, CollectsOff
<1> QED BY <1>1, <1>3, <1>6 DEF AfterBit

LEMMA LostEscapeStep ==
    ASSUME NEW s \in Sendable, NEW k \in Nat, NEW n \in 0..Len(Body(s)) - 1,
           LostEscape(s, n, k), TypeOK, ReceiverReads
    PROVE  AfterBit(s, k)' /\ verdicts' = verdicts
<1> DEFINE b == Body(s)[n + 1]
           c == Xor(b, {5})
<1>1. /\ LlreadTakes(c) /\ wire' = FromBody(s, n + 1, k) /\ c \in Byte \ {FLAG, ESC}
      /\ n + 1 \in 0..Len(Body(s))
  BY OnEscapedFirst DEF LostEscape
<1>2. Collect(c) /\ ~esc
  <2> HIDE DEF c
  <2> QED BY <1>1, TakesByState DEF LostEscape, CollectsFar
<1>3. /\ recState' = "DATA" /\ ~esc' /\ verdicts' = verdicts
      /\ Bcc2(frameData') = Xor(Bcc2(frameData), c)
  <2> HIDE DEF c
  <2> QED BY <1>1, <1>2, Collecting
<1>4. XorTo(s, n + 1) = Xor(XorTo(s, n), b)
  BY XorOfBody
<1>5. Bcc2(frameData') # XorTo(s, n + 1)
  <2>1. PICK z \in NearEsc : Bcc2(frameData) = Xor(XorTo(s, n), z)
    BY DEF LostEscape, CollectsFar
  <2>2. Xor(Xor(XorTo(s, n), z), Xor(b, {5})) # Xor(XorTo(s, n), b)
    BY FarIsOff
  <2> QED BY <1>3, <1>4, <2>1, <2>2
<1>6. WrongAtData(s, n + 1, k)'
  BY <1>1, <1>3, <1>5 DEF WrongAtData, CollectsOff
<1> QED BY <1>1, <1>3, <1>6 DEF AfterBit

LEMMA FalseEscapeStep ==
    ASSUME NEW s \in Sendable, NEW k \in Nat, NEW n \in 0..Len(Body(s)),
           FalseEscape(s, n, k), TypeOK, ReceiverReads
    PROVE  AfterBit(s, k)' /\ verdicts' = verdicts
<1> DEFINE b == Body(s)[n + 1]
<1>1. /\ LlreadTakes(Head(FromBody(s, n, k))) /\ wire' = Tail(FromBody(s, n, k))
      /\ esc /\ recState = "DATA"
  BY DEF FalseEscape, CollectsFar, ReceiverReads, Receives
<1>2. PICK z \in NearEsc : Bcc2(frameData) = Xor(XorTo(s, n), z)
  BY DEF FalseEscape, CollectsFar
<1>3. CASE n = Len(Body(s))
  <2>1. LlreadTakes(FLAG) /\ wire' = Whole(s, k) /\ FLAG \in Byte /\ FLAG # ESC
    BY <1>1, <1>3, BodyFirst, ControlBytes
  <2>2. Collect(FLAG)
    BY <1>1, <2>1, TakesByState
  <2>3. /\ recState' = "DATA" /\ ~esc' /\ verdicts' = verdicts
        /\ Bcc2(frameData') = Xor(Bcc2(frameData), Xor(FLAG, {5}))
    BY <1>1, <2>1, <2>2, Collecting
  <2>4. Bcc2(frameData) = z
    <3>1. XorTo(s, n) = {} /\ Xor({}, z) = z
      BY <1>3, XorOfBody DEF Xor
    <3> QED BY <1>2, <3>1
  <2>5. Bcc2(frameData') # {}
    <3>1. z # Xor(FLAG, {5})
      BY NearEscIsFar
    <3>2. Xor(z, Xor(FLAG, {5})) # {}
      BY <3>1 DEF Xor
    <3> QED BY <2>3, <2>4, <3>2
  <2> QED BY <2>1, <2>3, <2>5 DEF AfterBit, Glued
<1>4. CASE n \in 0..Len(Body(s)) - 1 /\ b \notin {FLAG, ESC}
  <2>1. LlreadTakes(b) /\ wire' = FromBody(s, n + 1, k) /\ n + 1 \in 0..Len(Body(s)) /\ b \in Byte
    BY <1>1, <1>4, BodyFirst
  <2>2. Collect(b)
    BY <1>1, <1>4, <2>1, TakesByState
  <2>3. /\ recState' = "DATA" /\ ~esc' /\ verdicts' = verdicts
        /\ Bcc2(frameData') = Xor(Bcc2(frameData), Xor(b, {5}))
    BY <1>1, <2>1, <2>2, Collecting
  <2>4. XorTo(s, n + 1) = Xor(XorTo(s, n), b)
    BY <1>4, XorOfBody
  <2>5. Bcc2(frameData') # XorTo(s, n + 1)
    <3>1. Xor(Xor(XorTo(s, n), z), Xor(b, {5})) # Xor(XorTo(s, n), b)
      BY FarIsOff
    <3> QED BY <1>2, <2>3, <2>4, <3>1
  <2>6. WrongAtData(s, n + 1, k)'
    BY <2>1, <2>3, <2>5 DEF WrongAtData, CollectsOff
  <2> QED BY <2>1, <2>3, <2>6 DEF AfterBit
<1>5. CASE n \in 0..Len(Body(s)) - 1 /\ b \in {FLAG, ESC}
  <2>1. LlreadTakes(ESC) /\ wire' = Cons(Xor(b, {5}), FromBody(s, n + 1, k))
    BY <1>1, <1>5, BodyFirst
  <2>2. Escape(ESC)
    BY <1>1, <2>1, TakesByState
  <2>3. Bcc2(frameData) # XorTo(s, n)
    BY <1>2, FarIsOff
  <2>4. WrongAtEscaped(s, n, k)' /\ verdicts' = verdicts
    BY <1>1, <1>5, <2>1, <2>2, <2>3 DEF WrongAtEscaped, CollectsOff, OnEscaped, Escape
  <2> QED BY <1>5, <2>4 DEF AfterBit
<1> QED BY <1>3, <1>4, <1>5, BodyFirst

LEMMA AfterBitStep ==
    ASSUME NEW s \in Sendable, NEW d, NEW k \in Nat, AfterBit(s, k), TypeOK, ReceiverReads
    PROVE  (\E j \in Nat : AfterBit(s, j)') /\ LlreadAnswers(s, d)
<1>1. ASSUME NEW j \in Nat, AtFlag(s, j, wire) \/ InCopy(s, j, wire)
      PROVE  (InCopy(s, j, wire)' \/ AtNext(s, j)') /\ LlreadAnswers(s, d)
  <2>1. CASE InCopy(s, j, wire)' /\ verdicts' = verdicts
    BY <2>1 DEF LlreadAnswers
  <2>2. CASE HasReadCopy(s, j)
    BY <2>2 DEF HasReadCopy, Recognises, AtNext, LlreadAnswers, MayAnswer
  <2> QED BY <1>1, <2>1, <2>2, CopyStep
<1>2. CASE AtNext(s, k)
  <2>1. k # 0
    BY <1>2, ReadsNothingFromNothing, WholeFirst DEF AtNext
  <2>2. k - 1 \in Nat /\ (k - 1) + 1 = k
    BY <2>1
  <2>3. AtFlag(s, k - 1, wire)
    BY <1>2, <2>2 DEF AtNext, AtFlag
  <2>4. (InCopy(s, k - 1, wire)' \/ AtNext(s, k - 1)') /\ LlreadAnswers(s, d)
    BY <1>1, <2>2, <2>3
  <2> QED BY <2>2, <2>4 DEF AfterBit
<1>3. CASE InCopy(s, k, wire)
  <2>1. (InCopy(s, k, wire)' \/ AtNext(s, k)') /\ LlreadAnswers(s, d)
    BY <1>1, <1>3
  <2> QED BY <2>1 DEF AfterBit
<1>4. CASE Idle(s, k)
  <2>1. (Idle(s, k)' \/ AtNext(s, k)') /\ verdicts' = verdicts
    BY <1>4, IdleStep
  <2> QED BY <2>1 DEF AfterBit, LlreadAnswers
<1>5. CASE WrongControl(s, k)
  <2>1. Idle(s, k)' /\ verdicts' = verdicts
    BY <1>5, WrongControlStep
  <2> QED BY <2>1 DEF AfterBit, LlreadAnswers
<1>6. CASE Glued(s, k)
  <2>1. k # 0 /\ Idle(s, k - 1)' /\ LlreadAnswers(s, d)
    BY <1>6, GluedStep
  <2>2. k - 1 \in Nat
    BY <2>1
  <2> QED BY <2>1, <2>2 DEF AfterBit
<1>7. ASSUME NEW n \in 0..Len(Body(s)), WrongAtData(s, n, k) \/ FalseEscape(s, n, k)
      PROVE  AfterBit(s, k)' /\ LlreadAnswers(s, d)
  <2>1. CASE WrongAtData(s, n, k)
    BY <2>1, WrongAtDataStep
  <2>2. CASE FalseEscape(s, n, k)
    BY <2>2, FalseEscapeStep DEF LlreadAnswers
  <2> QED BY <1>7, <2>1, <2>2
<1>8. ASSUME NEW n \in 0..Len(Body(s)) - 1, WrongAtEscaped(s, n, k) \/ LostEscape(s, n, k)
      PROVE  AfterBit(s, k)' /\ LlreadAnswers(s, d)
  <2>1. CASE WrongAtEscaped(s, n, k)
    BY <2>1, WrongAtEscapedStep DEF LlreadAnswers
  <2>2. CASE LostEscape(s, n, k)
    BY <2>2, LostEscapeStep DEF LlreadAnswers
  <2> QED BY <1>8, <2>1, <2>2
<1> QED BY <1>2, <1>3, <1>4, <1>5, <1>6, <1>7, <1>8 DEF AfterBit

(***************************************************************************)
(* The wrong bit is read: w is what the wire would hold without it.        *)
(***************************************************************************)
Struck(s, d, w) == /\ Head(w) = FrameOf(s)[d.at]
                   /\ LlreadTakes(Xor(Head(w), {d.bit})) /\ wire' = Tail(w)

LEMMA StruckHeader ==
    ASSUME NEW s \in Sendable, NEW d, d.bit \in Bit, NEW k \in Nat, NEW w \in Seq(Byte),
           \/ AtFlag(s, k, w) \/ AtAddress(s, k, w) \/ AtControl(s, k, w) \/ AtBcc1(s, k, w),
           Struck(s, d, w), TypeOK
    PROVE  AfterBit(s, k)' /\ verdicts' = verdicts
<1> DEFINE x == Xor(Head(w), {d.bit})
<1>1. LlreadTakes(x) /\ wire' = Tail(w)
  BY DEF Struck
<1>2. /\ s.ctrl \in {{}, {0}} /\ s.ctrl \in Byte /\ Bcc1(s) \in Byte /\ A_fromT \in Byte
      /\ FLAG \in Byte
  BY PayloadIsSeq, ControlBytes DEF Bcc1
<1>3. CASE AtFlag(s, k, w)
  <2>1. Head(w) = FLAG /\ Tail(w) = FromAddress(s, k)
    <3>1. w = Cons(FLAG, FromAddress(s, k)) /\ FromAddress(s, k) \in Seq(Byte)
      BY <1>3, PlacesOfCopy DEF AtFlag
    <3> QED BY <1>2, <3>1, ConsOfBytes
  <2>2. x \notin {FLAG, A_fromT}
    BY <2>1, WrongBit
  <2> HIDE DEF x
  <2>3. Start(x) \/ FlagRcv(x)
    BY <1>1, <1>3, TakesByState DEF AtFlag
  <2>4. recState' = "START" /\ verdicts' = verdicts
    BY <2>2, <2>3 DEF Start, FlagRcv, Resync
  <2>5. Idle(s, k)'
    BY <1>1, <2>1, <2>4 DEF Idle, AstrayInCopy, AstrayAtAddress
  <2> QED BY <2>4, <2>5 DEF AfterBit
<1>4. CASE AtAddress(s, k, w)
  <2>1. Head(w) = A_fromT /\ Tail(w) = FromControl(s, k)
    BY <1>2, <1>4, PlacesOfCopy, ConsOfBytes DEF AtAddress, FromAddress
  <2>2. x \notin {FLAG, A_fromT}
    BY <2>1, WrongBit
  <2> HIDE DEF x
  <2>3. FlagRcv(x)
    BY <1>1, <1>4, TakesByState DEF AtAddress
  <2>4. recState' = "START" /\ verdicts' = verdicts
    BY <2>2, <2>3 DEF FlagRcv, Resync
  <2>5. Idle(s, k)'
    BY <1>1, <2>1, <2>4 DEF Idle, AstrayInCopy, AstrayInHeader, Astray
  <2> QED BY <2>4, <2>5 DEF AfterBit
<1>5. CASE AtControl(s, k, w)
  <2>1. Head(w) = s.ctrl /\ Tail(w) = FromBcc1(s, k)
    BY <1>2, <1>5, PlacesOfCopy, ConsOfBytes DEF AtControl, FromControl
  <2>2. x # s.ctrl
    BY <1>2, <2>1, WrongBit
  <2> HIDE DEF x
  <2>3. ARcv(x)
    BY <1>1, <1>5, TakesByState DEF AtControl
  <2>4. WrongControl(s, k)' /\ verdicts' = verdicts
    BY <1>1, <2>1, <2>2, <2>3 DEF ARcv, WrongControl
  <2> QED BY <2>4 DEF AfterBit
<1>6. CASE AtBcc1(s, k, w)
  <2>1. Head(w) = Bcc1(s) /\ Tail(w) = FromBody(s, 0, k)
    BY <1>2, <1>6, PlacesOfCopy, ConsOfBytes DEF AtBcc1, FromBcc1
  <2>2. x # Bcc1(s) /\ x # FLAG
    BY <1>2, <2>1, WrongBit DEF Bcc1
  <2> HIDE DEF x
  <2>3. CRcv(x) /\ ctrl = s.ctrl
    BY <1>1, <1>6, TakesByState DEF AtBcc1
  <2>4. recState' = "START" /\ verdicts' = verdicts
    BY <2>2, <2>3 DEF CRcv, Resync, Bcc1
  <2>5. Idle(s, k)'
    BY <1>1, <2>1, <2>4, PlacesOfCopy DEF Idle, AstrayInCopy, AstrayAtData, Astray
  <2> QED BY <2>4, <2>5 DEF AfterBit
<1> QED BY <1>3, <1>4, <1>5, <1>6

(* A beginning of the body that passes the check is one of the payload.    *)
LEMMA BodyBegins ==
    ASSUME NEW s \in Sendable, NEW n \in 0..Len(Body(s))
    PROVE  /\ SubSeq(Body(s), 1, n) \in Seq(Byte) /\ Len(SubSeq(Body(s), 1, n)) = n
           /\ \A i \in 1..n : SubSeq(Body(s), 1, n)[i] = Body(s)[i]
<1>1. Body(s) \in Seq(Byte) /\ Len(Body(s)) \in Nat
  BY PayloadIsSeq
<1>2. \A i \in 1..n : Body(s)[i] \in Byte
  BY <1>1, ElementOfSeq
<1> QED BY <1>1, <1>2, SubSeqProperties

LEMMA CutAnswer ==
    ASSUME NEW s \in Sendable, NEW d, Xor(FrameOf(s)[d.at], {d.bit}) = FLAG,
           NEW n \in 1..Len(s.data), ctrl = s.ctrl
    PROVE  /\ SubSeq(Body(s), 1, n) # << >>
           /\ MayAnswer(s, d, Verdict(SubSeq(Body(s), 1, n)))
<1> DEFINE p == SubSeq(Body(s), 1, n)
           q == Front(p)
           r == SubSeq(s.data, 1, n - 1)
<1>1. /\ s.data \in Seq(Byte) /\ Len(s.data) \in Nat /\ n \in 0..Len(Body(s)) /\ n \in Nat \ {0}
      /\ n - 1 \in Nat /\ n - 1 < Len(s.data)
  BY PayloadIsSeq
<1>2. \A i \in 1..n - 1 : Body(s)[i] = s.data[i] /\ s.data[i] \in Byte
  <2>1. \A i \in 1..Len(s.data) : Body(s)[i] = s.data[i] /\ s.data[i] \in Byte
    BY <1>1, Bcc2IsAByte, AppendProperties, ElementOfSeq DEF Body
  <2> QED BY <1>1, <2>1
<1>3. p \in Seq(Byte) /\ Len(p) = n /\ \A i \in 1..n : p[i] = Body(s)[i]
  BY <1>1, BodyBegins
<1>4. p # << >>
  BY <1>1, <1>3, EmptySeq
<1> HIDE DEF p
<1>5. q \in Seq(Byte) /\ Len(q) = n - 1 /\ \A i \in 1..n - 1 : q[i] = s.data[i]
  <2>1. q = SubSeq(p, 1, n - 1)
    BY <1>3 DEF Front
  <2>2. \A i \in 1..n - 1 : p[i] = s.data[i] /\ p[i] \in Byte
    BY <1>1, <1>2, <1>3
  <2> HIDE DEF q
  <2>3. q \in Seq(Byte) /\ Len(q) = n - 1 /\ \A i \in 1..n - 1 : q[i] = p[i]
    <3> DEFINE m == n - 1
    <3>1. m \in Nat
      BY <1>1
    <3>2. \A i \in 1..m : p[i] \in Byte
      BY <2>2
    <3> HIDE DEF m
    <3>3. /\ SubSeq(p, 1, m) \in Seq(Byte) /\ Len(SubSeq(p, 1, m)) = m
          /\ \A i \in 1..m : SubSeq(p, 1, m)[i] = p[i]
      BY <3>1, <3>2, SubSeqProperties
    <3> QED BY <2>1, <3>3 DEF m
  <2> QED BY <2>2, <2>3
<1>6. r \in Seq(Byte) /\ Len(r) = n - 1 /\ \A i \in 1..n - 1 : r[i] = s.data[i]
  <2> DEFINE m == n - 1
  <2>1. m \in Nat
    BY <1>1
  <2>2. \A i \in 1..m : s.data[i] \in Byte
    BY <1>2
  <2> HIDE DEF m
  <2>3. /\ SubSeq(s.data, 1, m) \in Seq(Byte) /\ Len(SubSeq(s.data, 1, m)) = m
        /\ \A i \in 1..m : SubSeq(s.data, 1, m)[i] = s.data[i]
    BY <2>1, <2>2, SubSeqProperties
  <2> QED BY <2>3 DEF m
<1> HIDE DEF q, r
<1>7. q = r /\ SubSeq(q, 1, Len(q)) = q
  <2>1. q = r
    BY <1>5, <1>6, SeqEqual
  <2> QED BY <1>5, <2>1, SubSeqFull
<1>8. IsStrictPrefix(q, s.data)
  <2>1. Len(q) = n - 1 /\ Len(q) <= Len(s.data) /\ q # s.data
    BY <1>1, <1>5
  <2>2. SubSeq(q, 1, Len(q)) = SubSeq(s.data, 1, Len(q))
    BY <1>7, <2>1 DEF r
  <2> QED BY <2>1, <2>2 DEF IsStrictPrefix, IsPrefix
<1>9. Verdict(p) \in {Damaged, Good(s.ctrl, q)}
  BY DEF Verdict, q
<1> QED BY <1>4, <1>8, <1>9 DEF MayAnswer, Good, p

LEMMA StruckData ==
    ASSUME NEW s \in Sendable, NEW d, d.bit \in Bit, NEW k \in Nat, NEW w \in Seq(Byte),
           NEW n \in 0..Len(Body(s)), AtData(s, n, k, w), Struck(s, d, w), TypeOK
    PROVE  AfterBit(s, k)' /\ LlreadAnswers(s, d)
<1> DEFINE b == Body(s)[n + 1]
           x == Xor(Head(w), {d.bit})
<1>1. /\ LlreadTakes(x) /\ wire' = Tail(w) /\ w = FromBody(s, n, k)
      /\ recState = "DATA" /\ ctrl = s.ctrl /\ ~esc /\ frameData = SubSeq(Body(s), 1, n)
  BY DEF Struck, AtData, HasRead
<1>2. Bcc2(frameData) = XorTo(s, n)
  BY <1>1 DEF XorTo
<1>3. CASE n = Len(Body(s))
  <2>1. Head(w) = FLAG /\ Tail(w) = Whole(s, k)
    BY <1>1, <1>3, BodyFirst
  <2>2. x \in Byte /\ x \notin {FLAG, ESC, {}}
    BY <2>1, WrongBit, ControlBytes
  <2> HIDE DEF x
  <2>3. Collect(x)
    BY <1>1, <2>2, TakesByState
  <2>4. /\ recState' = "DATA" /\ ~esc' /\ verdicts' = verdicts
        /\ Bcc2(frameData') = Xor(Bcc2(frameData), x)
    BY <1>1, <2>2, <2>3, Collecting
  <2>5. Bcc2(frameData') # {}
    <3>1. XorTo(s, n) = {} /\ Xor({}, x) = x
      BY <1>3, XorOfBody DEF Xor
    <3> QED BY <1>2, <2>2, <2>4, <3>1
  <2> QED BY <1>1, <2>1, <2>4, <2>5 DEF AfterBit, Glued, LlreadAnswers
<1>4. CASE n \in 0..Len(Body(s)) - 1 /\ b \in {FLAG, ESC}
  <2>1. Head(w) = ESC /\ Tail(w) = Cons(Xor(b, {5}), FromBody(s, n + 1, k))
    BY <1>1, <1>4, BodyFirst
  <2>2. x \in Byte /\ x \notin {FLAG, ESC} /\ x \in NearEsc
    BY <2>1, WrongBit, ControlBytes DEF NearEsc
  <2> HIDE DEF x
  <2>3. Collect(x)
    BY <1>1, <2>2, TakesByState
  <2>4. /\ recState' = "DATA" /\ ~esc' /\ verdicts' = verdicts
        /\ Bcc2(frameData') = Xor(Bcc2(frameData), x)
    BY <1>1, <2>2, <2>3, Collecting
  <2>5. LostEscape(s, n, k)'
    BY <1>1, <1>2, <1>4, <2>1, <2>2, <2>4 DEF LostEscape, CollectsFar, OnEscaped
  <2> QED BY <1>4, <2>4, <2>5 DEF AfterBit, LlreadAnswers
<1>5. CASE n \in 0..Len(Body(s)) - 1 /\ b \notin {FLAG, ESC}
  <2>1. /\ Head(w) = b /\ Tail(w) = FromBody(s, n + 1, k)
        /\ n + 1 \in 0..Len(Body(s)) /\ b \in Byte
    BY <1>1, <1>5, BodyFirst
  <2>2. x \in Byte /\ x # b /\ x = Xor(b, {d.bit})
    BY <2>1, WrongBit
  <2>3. XorTo(s, n + 1) = Xor(XorTo(s, n), b)
    BY <1>5, XorOfBody
  <2>4. FrameOf(s)[d.at] = b
    BY <2>1 DEF Struck
  <2> HIDE DEF x, b
  <2>5. CASE x = FLAG /\ n = 0
    <3>1. frameData = << >>
      BY <1>1, <2>5, SubSeqEmpty
    <3>2. EmptyFrame(FLAG)
      BY <1>1, <2>5, <3>1, TakesByState
    <3>3. recState' = "START" /\ verdicts' = verdicts
      BY <3>2 DEF EmptyFrame
    <3>4. Idle(s, k)'
      BY <1>1, <2>1, <3>3 DEF Idle, AstrayInCopy, AstrayAtData, Astray
    <3> QED BY <3>3, <3>4 DEF AfterBit, LlreadAnswers
  <2>6. CASE x = FLAG /\ n # 0
    <3>1. n \in 1..Len(s.data)
      BY <1>5, <2>6, PayloadIsSeq
    <3>2. frameData # << >> /\ MayAnswer(s, d, Verdict(frameData))
      BY <1>1, <2>2, <2>4, <2>6, <3>1, CutAnswer
    <3>3. EndOfFrame(FLAG)
      BY <1>1, <2>6, <3>2, TakesByState
    <3>4. recState' = "START" /\ verdicts' = Append(verdicts, Verdict(frameData))
      BY <3>3 DEF EndOfFrame
    <3>5. Idle(s, k)'
      BY <1>1, <2>1, <3>4 DEF Idle, AstrayInCopy, AstrayAtData, Astray
    <3> QED BY <3>2, <3>4, <3>5 DEF AfterBit, LlreadAnswers
  <2>7. CASE x = ESC
    <3>1. Escape(ESC)
      BY <1>1, <2>7, TakesByState
    <3>2. recState' = "DATA" /\ esc' /\ frameData' = frameData /\ verdicts' = verdicts
      BY <1>1, <3>1 DEF Escape
    <3>3. b \in NearEsc
      <4>1. b = Xor(ESC, {d.bit})
        BY <2>2, <2>7 DEF Xor
      <4> QED BY <4>1 DEF NearEsc
    <3>4. XorTo(s, n) = Xor(XorTo(s, n + 1), b)
      BY <2>3 DEF Xor
    <3>5. FalseEscape(s, n + 1, k)'
      BY <1>1, <1>2, <2>1, <3>2, <3>3, <3>4 DEF FalseEscape, CollectsFar
    <3> QED BY <2>1, <3>2, <3>5 DEF AfterBit, LlreadAnswers
  <2>8. CASE x \notin {FLAG, ESC}
    <3>1. Collect(x)
      BY <1>1, <2>8, TakesByState
    <3>2. /\ recState' = "DATA" /\ ~esc' /\ verdicts' = verdicts
          /\ Bcc2(frameData') = Xor(Bcc2(frameData), x)
      BY <1>1, <2>2, <3>1, Collecting
    <3>3. Bcc2(frameData') # XorTo(s, n + 1)
      <4>1. Xor(XorTo(s, n), x) # Xor(XorTo(s, n), b)
        BY <2>2, XorIsOneToOne, Zenon
      <4> QED BY <1>2, <2>3, <3>2, <4>1
    <3>4. WrongAtData(s, n + 1, k)'
      BY <1>1, <2>1, <3>2, <3>3 DEF WrongAtData, CollectsOff
    <3> QED BY <2>1, <3>2, <3>4 DEF AfterBit, LlreadAnswers
  <2> QED BY <2>5, <2>6, <2>7, <2>8
<1> QED BY <1>3, <1>4, <1>5, BodyFirst

(* The second byte of a pair: only that of ESC can become ESC again.       *)
LEMMA StruckEscaped ==
    ASSUME NEW s \in Sendable, NEW d, d.bit \in Bit, NEW k \in Nat, NEW w \in Seq(Byte),
           NEW n \in 0..Len(Body(s)) - 1, AtEscaped(s, n, k, w), Struck(s, d, w), TypeOK
    PROVE  AfterBit(s, k)' /\ verdicts' = verdicts
<1> DEFINE b == Body(s)[n + 1]
           c == Xor(b, {5})
           x == Xor(Head(w), {d.bit})
<1>1. /\ LlreadTakes(x) /\ wire' = Tail(w) /\ b \in {FLAG, ESC}
      /\ recState = "DATA" /\ esc /\ frameData = SubSeq(Body(s), 1, n)
      /\ w = Cons(c, FromBody(s, n + 1, k))
  BY DEF Struck, AtEscaped, HasRead
<1>2. Bcc2(frameData) = XorTo(s, n)
  BY <1>1 DEF XorTo
<1>3. /\ n + 1 \in 0..Len(Body(s)) /\ b \in Byte /\ c \in Byte /\ Xor(c, {5}) = b
      /\ XorTo(s, n + 1) = Xor(XorTo(s, n), b)
  <2>1. n + 1 \in 0..Len(Body(s)) /\ b \in Byte
    BY PayloadIsSeq, BodyPrefix
  <2>2. c \in Byte /\ Xor(c, {5}) = b
    BY <1>1, <2>1, StuffedByte
  <2>3. XorTo(s, n + 1) = Xor(XorTo(s, n), b)
    BY XorOfBody
  <2> QED BY <2>1, <2>2, <2>3
<1>4. Head(w) = c /\ Tail(w) = FromBody(s, n + 1, k)
  <2>1. FromBody(s, n + 1, k) \in Seq(Byte)
    BY <1>3, PlacesOfCopy
  <2> HIDE DEF c
  <2> QED BY <1>1, <1>3, <2>1, ConsOfBytes
<1>5. x \in Byte /\ x # c /\ x = Xor(c, {d.bit})
  BY <1>3, <1>4, WrongBit
<1>6. CASE x = ESC
  <2>1. b = ESC
    <3>1. ASSUME b = FLAG PROVE FALSE
      <4>1. 0 \notin c /\ 1 \in c
        BY <3>1 DEF FLAG, Xor
      <4>2. 0 \in ESC /\ 1 \notin ESC
        BY DEF ESC
      <4>3. d.bit # 0 \/ d.bit # 1
        OBVIOUS
      <4> HIDE DEF c
      <4> QED BY <1>5, <1>6, <4>1, <4>2, <4>3 DEF Xor
    <3> QED BY <1>1, <3>1
  <2> HIDE DEF x, c
  <2>2. Escape(ESC)
    BY <1>1, <1>6, TakesByState
  <2>3. recState' = "DATA" /\ esc' /\ frameData' = frameData /\ verdicts' = verdicts
    BY <1>1, <2>2 DEF Escape
  <2>4. XorTo(s, n) = Xor(XorTo(s, n + 1), ESC) /\ ESC \in NearEsc
    BY <1>3, <2>1 DEF Xor, NearEsc
  <2>5. FalseEscape(s, n + 1, k)'
    BY <1>1, <1>2, <1>4, <2>3, <2>4 DEF FalseEscape, CollectsFar
  <2> QED BY <1>3, <2>3, <2>5 DEF AfterBit
<1>7. CASE x # ESC
  <2> HIDE DEF x, c
  <2>1. Collect(x)
    BY <1>1, <1>7, TakesByState
  <2>2. /\ recState' = "DATA" /\ ~esc' /\ verdicts' = verdicts
        /\ Bcc2(frameData') = Xor(Bcc2(frameData), Xor(x, {5}))
    BY <1>1, <1>5, <2>1, Collecting
  <2>3. Bcc2(frameData') # XorTo(s, n + 1)
    <3>1. Xor(x, {5}) # Xor(c, {5})
      BY <1>5, XorIsOneToOne, Zenon
    <3>2. Xor(XorTo(s, n), Xor(x, {5})) # Xor(XorTo(s, n), b)
      BY <1>3, <3>1, XorIsOneToOne, Zenon
    <3> QED BY <1>2, <1>3, <2>2, <3>2
  <2>4. WrongAtData(s, n + 1, k)'
    BY <1>1, <1>4, <2>2, <2>3 DEF WrongAtData, CollectsOff
  <2> QED BY <1>3, <2>2, <2>4 DEF AfterBit
<1> QED BY <1>6, <1>7

(***************************************************************************)
(* The wrong bit is still on the wire, in the frame that is read in step.  *)
(***************************************************************************)
Flipped(w, j, bit) == [w EXCEPT ![j] = Xor(w[j], {bit})]

OneWrong(w, v, j, bit) ==
    /\ v \in Seq(Byte) /\ Len(v) = Len(w)
    /\ \A i \in 1..Len(w) : v[i] = IF i = j THEN Xor(w[i], {bit}) ELSE w[i]

LEMMA FlippedBytes ==
    ASSUME NEW w \in Seq(Byte), NEW j \in 1..Len(w), NEW bit \in Bit
    PROVE  OneWrong(w, Flipped(w, j, bit), j, bit)
<1>1. Xor(w[j], {bit}) \in Byte
  BY WrongBit, ElementOfSeq
<1>2. Len(w) \in Nat /\ w \in [1..Len(w) -> Byte]
  BY LenProperties
<1> QED BY <1>1, <1>2, ExceptSeq DEF Flipped, OneWrong

LEMMA FlippedFirst ==
    ASSUME NEW w \in Seq(Byte), NEW j \in 1..Len(w), NEW bit \in Bit
    PROVE  /\ Tail(w) \in Seq(Byte) /\ Len(Tail(w)) = Len(w) - 1
           /\ j = 1 => /\ Head(w) = w[j] /\ Head(Flipped(w, j, bit)) = Xor(Head(w), {bit})
                       /\ Tail(Flipped(w, j, bit)) = Tail(w)
           /\ j # 1 => /\ Head(Flipped(w, j, bit)) = Head(w)
                       /\ j - 1 \in 1..Len(Tail(w)) /\ Tail(w)[j - 1] = w[j]
                       /\ Tail(Flipped(w, j, bit)) = Flipped(Tail(w), j - 1, bit)
<1> DEFINE f == Flipped(w, j, bit)
<1>1. /\ f \in Seq(Byte) /\ Len(f) = Len(w)
      /\ \A i \in 1..Len(w) : f[i] = IF i = j THEN Xor(w[i], {bit}) ELSE w[i]
  <2>1. OneWrong(w, f, j, bit)
    BY FlippedBytes
  <2> HIDE DEF f
  <2> QED BY <2>1 DEF OneWrong
<1> HIDE DEF f
<1>2. Len(w) \in Nat /\ Len(w) # 0 /\ w # << >> /\ f # << >>
  BY <1>1, LenProperties, EmptySeq
<1>3. /\ Tail(w) \in Seq(Byte) /\ Len(Tail(w)) = Len(w) - 1 /\ Head(w) = w[1]
      /\ \A i \in 1..Len(w) - 1 : Tail(w)[i] = w[i + 1]
  BY <1>2, HeadTailProperties
<1>4. /\ Tail(f) \in Seq(Byte) /\ Len(Tail(f)) = Len(w) - 1 /\ Head(f) = f[1]
      /\ \A i \in 1..Len(w) - 1 : Tail(f)[i] = f[i + 1]
  BY <1>1, <1>2, HeadTailProperties
<1>5. ASSUME j = 1
      PROVE  /\ Head(w) = w[j] /\ Head(f) = Xor(Head(w), {bit}) /\ Tail(f) = Tail(w)
  <2>1. Head(w) = w[j] /\ Head(f) = Xor(Head(w), {bit})
    BY <1>1, <1>2, <1>3, <1>4, <1>5
  <2>2. \A i \in 1..Len(w) - 1 : f[i + 1] = w[i + 1]
    BY <1>1, <1>2, <1>5
  <2> QED BY <1>3, <1>4, <2>1, <2>2, SeqEqual
<1>6. ASSUME j # 1
      PROVE  /\ Head(f) = Head(w) /\ j - 1 \in 1..Len(Tail(w)) /\ Tail(w)[j - 1] = w[j]
             /\ Tail(f) = Flipped(Tail(w), j - 1, bit)
  <2>1. j - 1 \in 1..Len(w) - 1 /\ (j - 1) + 1 = j /\ 1 \in 1..Len(w)
    BY <1>2, <1>6
  <2>2. Head(f) = Head(w) /\ j - 1 \in 1..Len(Tail(w)) /\ Tail(w)[j - 1] = w[j]
    BY <1>1, <1>3, <1>4, <1>6, <2>1
  <2> DEFINE g == Flipped(Tail(w), j - 1, bit)
  <2>3. /\ g \in Seq(Byte) /\ Len(g) = Len(w) - 1
        /\ \A i \in 1..Len(w) - 1 :
             g[i] = IF i = j - 1 THEN Xor(Tail(w)[i], {bit}) ELSE Tail(w)[i]
    <3>0. PICK v \in Seq(Byte) : v = Tail(w)
      BY <1>3
    <3>1. PICK h \in 1..Len(v) : h = j - 1
      BY <2>2, <3>0
    <3>2. OneWrong(v, Flipped(v, h, bit), h, bit)
      BY FlippedBytes
    <3> QED BY <1>3, <3>0, <3>1, <3>2 DEF OneWrong
  <2> HIDE DEF g
  <2>4. ASSUME NEW i \in 1..Len(w) - 1 PROVE Tail(f)[i] = g[i]
    <3>1. i + 1 \in 1..Len(w) /\ (i + 1 = j <=> i = j - 1)
      BY <1>2
    <3>2. Tail(f)[i] = f[i + 1] /\ Tail(w)[i] = w[i + 1]
      BY <1>3, <1>4
    <3> QED BY <1>1, <2>3, <3>1, <3>2
  <2>5. Tail(f) = g
    BY <1>4, <2>3, <2>4, SeqEqual
  <2> QED BY <2>2, <2>5 DEF g
<1> QED BY <1>3, <1>5, <1>6 DEF f

Pending(s, d, k) ==
    \E w \in Seq(Byte) : \E j \in 1..Len(w) :
        /\ AtFlag(s, k, w) \/ InCopy(s, k, w)
        /\ j <= Len(w) - Len(Whole(s, k)) /\ w[j] = FrameOf(s)[d.at]
        /\ wire = Flipped(w, j, d.bit)

LEMMA PendingStep ==
    ASSUME NEW s \in Sendable, NEW d, d.bit \in Bit, NEW k \in Nat, Pending(s, d, k),
           TypeOK, ReceiverReads
    PROVE  (Pending(s, d, k)' \/ AfterBit(s, k)') /\ LlreadAnswers(s, d)
<1>1. PICK w \in Seq(Byte) : \E j \in 1..Len(w) :
        /\ AtFlag(s, k, w) \/ InCopy(s, k, w)
        /\ j <= Len(w) - Len(Whole(s, k)) /\ w[j] = FrameOf(s)[d.at]
        /\ wire = Flipped(w, j, d.bit)
  BY DEF Pending
<1>2. PICK j \in 1..Len(w) :
        /\ AtFlag(s, k, w) \/ InCopy(s, k, w)
        /\ j <= Len(w) - Len(Whole(s, k)) /\ w[j] = FrameOf(s)[d.at]
        /\ wire = Flipped(w, j, d.bit)
  BY <1>1
<1>3. /\ LlreadTakes(Head(Flipped(w, j, d.bit))) /\ wire' = Tail(Flipped(w, j, d.bit))
      /\ Len(w) \in Nat /\ Len(Whole(s, k)) \in Nat
  BY <1>2, WholeFirst, LenProperties DEF ReceiverReads, Receives
<1>4. CASE j = 1
  <2>1. Struck(s, d, w)
    BY <1>2, <1>3, <1>4, FlippedFirst DEF Struck
  <2>2. CASE AtFlag(s, k, w) \/ AtAddress(s, k, w) \/ AtControl(s, k, w) \/ AtBcc1(s, k, w)
    BY <2>1, <2>2, StruckHeader DEF LlreadAnswers
  <2>3. CASE \E n \in 0..Len(Body(s)) : AtData(s, n, k, w)
    BY <2>1, <2>3, StruckData
  <2>4. CASE \E n \in 0..Len(Body(s)) - 1 : AtEscaped(s, n, k, w)
    BY <2>1, <2>4, StruckEscaped DEF LlreadAnswers
  <2> QED BY <1>2, <2>2, <2>3, <2>4 DEF InCopy
<1>5. CASE j # 1
  <2>1. /\ Head(Flipped(w, j, d.bit)) = Head(w) /\ Tail(w) \in Seq(Byte)
        /\ Len(Tail(w)) = Len(w) - 1
        /\ j - 1 \in 1..Len(Tail(w)) /\ Tail(w)[j - 1] = w[j]
        /\ Tail(Flipped(w, j, d.bit)) = Flipped(Tail(w), j - 1, d.bit)
    BY <1>5, FlippedFirst
  <2>2. Tail(w) # Whole(s, k)
    BY <1>2, <1>3, <1>5, <2>1
  <2>3. InCopy(s, k, Tail(w))' /\ verdicts' = verdicts
    BY <1>2, <1>3, <2>1, <2>2, CopyTakes
  <2>4. j - 1 <= Len(Tail(w)) - Len(Whole(s, k))
    BY <1>2, <1>3, <2>1
  <2>5. Pending(s, d, k)'
    BY <1>2, <1>3, <2>1, <2>3, <2>4 DEF Pending
  <2> QED BY <2>3, <2>5 DEF LlreadAnswers
<1> QED BY <1>4, <1>5

OneBit ==
    direction = "forward" /\ damage.kind = "flip" =>
        \E s \in Sendable : \E d \in Flips(FrameOf(s)) :
            /\ sent = s /\ damage = d
            /\ \E k \in Nat : Pending(s, d, k) \/ AfterBit(s, k)
            /\ \A i \in 1..Len(verdicts) : MayAnswer(s, d, verdicts[i])

LEMMA FirstIsPending ==
    ASSUME Init, TypeOK, NEW s \in Sendable, sent = s, direction = "forward",
           NEW d \in Flips(FrameOf(s)), damage = d
    PROVE  Pending(s, d, Copies)
<1> DEFINE f == FrameOf(s)
           r == Whole(s, Copies)
           w == Whole(s, Copies + 1)
           c == Carried(f, d)
<1>1. /\ f \in Seq(Byte) /\ r \in Seq(Byte) /\ c \in Seq(Byte) /\ wire = c \o r
      /\ recState = "START" /\ Copies \in Nat
  BY ForwardWire, NoisyAssumption
<1>2. w = f \o r /\ w \in Seq(Byte)
  <2>1. w = f \o r
    BY <1>1, WholeFirst
  <2> HIDE DEF f, r, w
  <2> QED BY <1>1, <2>1, ConcatProperties
<1>3. /\ d.at \in 1..Len(f) /\ d.bit \in Bit /\ Len(c) = Len(f)
      /\ \A j \in 1..Len(f) : c[j] = IF j = d.at THEN Xor(f[j], {d.bit}) ELSE f[j]
  <2>1. d.at \in 1..Len(f) /\ d.bit \in Bit
    BY DEF Flips, Bit
  <2>2. d \in Damages(f)
    BY DEF Damages
  <2> QED BY <1>1, <2>1, <2>2, CarriedBytes
<1> HIDE DEF f, r, w, c
<1>4. /\ Len(f) \in Nat /\ Len(r) \in Nat /\ Len(w) = Len(f) + Len(r) /\ Len(wire) = Len(f) + Len(r)
      /\ \A i \in 1..Len(f) + Len(r) : /\ w[i] = IF i <= Len(f) THEN f[i] ELSE r[i - Len(f)]
                                       /\ wire[i] = IF i <= Len(f) THEN c[i] ELSE r[i - Len(f)]
  <2>1. Len(f) \in Nat /\ Len(r) \in Nat
    BY <1>1, LenProperties
  <2>2. /\ Len(f \o r) = Len(f) + Len(r)
        /\ \A i \in 1..Len(f) + Len(r) : (f \o r)[i] = IF i <= Len(f) THEN f[i] ELSE r[i - Len(f)]
    BY <1>1, ConcatProperties
  <2>3. /\ Len(c \o r) = Len(c) + Len(r)
        /\ \A i \in 1..Len(c) + Len(r) : (c \o r)[i] = IF i <= Len(c) THEN c[i] ELSE r[i - Len(c)]
    BY <1>1, ConcatProperties
  <2> QED BY <1>1, <1>2, <1>3, <2>1, <2>2, <2>3
<1>5. d.at \in 1..Len(w) /\ d.at <= Len(w) - Len(r) /\ w[d.at] = f[d.at]
  BY <1>3, <1>4
<1>6. wire = Flipped(w, d.at, d.bit)
  <2> DEFINE g == Flipped(w, d.at, d.bit)
  <2>1. /\ g \in Seq(Byte) /\ Len(g) = Len(w)
        /\ \A i \in 1..Len(w) : g[i] = IF i = d.at THEN Xor(w[i], {d.bit}) ELSE w[i]
    <3>1. PICK h \in 1..Len(w), bit \in Bit : h = d.at /\ bit = d.bit
      BY <1>3, <1>5
    <3>2. OneWrong(w, Flipped(w, h, bit), h, bit)
      BY <1>2, FlippedBytes
    <3> QED BY <3>1, <3>2 DEF OneWrong
  <2> HIDE DEF g
  <2>2. ASSUME NEW i \in 1..Len(w) PROVE wire[i] = g[i]
    <3>1. CASE i <= Len(f)
      <4>1. i \in 1..Len(f)
        BY <1>4, <3>1
      <4> QED BY <1>3, <1>4, <2>1, <3>1, <4>1
    <3>2. CASE ~(i <= Len(f))
      BY <1>3, <1>4, <2>1, <3>2
    <3> QED BY <3>1, <3>2
  <2>3. wire \in Seq(Byte)
    BY DEF TypeOK
  <2>4. wire = g
    BY <1>4, <2>1, <2>2, <2>3, SeqEqual
  <2> QED BY <2>4 DEF g
<1>7. AtFlag(s, Copies, w)
  BY <1>1 DEF AtFlag, w
<1> QED BY <1>2, <1>5, <1>6, <1>7 DEF Pending, f, r

LEMMA OneBitAlways == Spec => []OneBit
<1>1. ASSUME Init PROVE OneBit
  <2> SUFFICES ASSUME direction = "forward", damage.kind = "flip"
               PROVE  \E s \in Sendable : \E d \in Flips(FrameOf(s)) :
                        /\ sent = s /\ damage = d
                        /\ \E k \in Nat : Pending(s, d, k) \/ AfterBit(s, k)
                        /\ \A i \in 1..Len(verdicts) : MayAnswer(s, d, verdicts[i])
    BY DEF OneBit
  <2>1. PICK s \in Sendable : sent = s
    BY <1>1 DEF Init, Forward, Back, Sendable
  <2>2. damage \in Damages(FrameOf(s)) /\ verdicts = << >>
    BY <1>1, <2>1, ForwardWire
  <2>3. PICK d \in Flips(FrameOf(s)) : damage = d
    BY <2>2 DEF Damages, Losses, NoDamage
  <2>4. Pending(s, d, Copies) /\ Copies \in Nat
    BY <1>1, <2>1, <2>3, FirstIsPending, InitialTypes, NoisyAssumption
  <2>5. \A i \in 1..Len(verdicts) : MayAnswer(s, d, verdicts[i])
    BY <2>2
  <2> QED BY <2>1, <2>3, <2>4, <2>5
<1>2. ASSUME TypeOK, TypeOK', OneBit, [Next]_vars PROVE OneBit'
  <2> SUFFICES ASSUME direction' = "forward", damage'.kind = "flip"
               PROVE  \E s \in Sendable : \E d \in Flips(FrameOf(s)) :
                        /\ sent' = s /\ damage' = d
                        /\ \E k \in Nat : Pending(s, d, k)' \/ AfterBit(s, k)'
                        /\ \A i \in 1..Len(verdicts') : MayAnswer(s, d, verdicts'[i])
    BY DEF OneBit
  <2>1. /\ direction = "forward" /\ sent' = sent /\ damage' = damage
        /\ \/ ReceiverReads
           \/ UNCHANGED <<recState, ctrl, esc, frameData, verdicts, wire>>
    BY <1>2, ForwardStep
  <2>2. PICK s \in Sendable : \E d \in Flips(FrameOf(s)) :
          /\ sent = s /\ damage = d
          /\ \E k \in Nat : Pending(s, d, k) \/ AfterBit(s, k)
          /\ \A i \in 1..Len(verdicts) : MayAnswer(s, d, verdicts[i])
    BY <1>2, <2>1 DEF OneBit
  <2>3. PICK d \in Flips(FrameOf(s)) :
          /\ sent = s /\ damage = d
          /\ \E k \in Nat : Pending(s, d, k) \/ AfterBit(s, k)
          /\ \A i \in 1..Len(verdicts) : MayAnswer(s, d, verdicts[i])
    BY <2>2
  <2>4. PICK k \in Nat : Pending(s, d, k) \/ AfterBit(s, k)
    BY <2>3
  <2>5. d.bit \in Bit
    BY DEF Flips, Bit
  <2>6. CASE ReceiverReads
    <3>1. (\E j \in Nat : Pending(s, d, j)' \/ AfterBit(s, j)') /\ LlreadAnswers(s, d)
      <4>1. CASE Pending(s, d, k)
        BY <1>2, <2>5, <2>6, <4>1, PendingStep
      <4>2. CASE AfterBit(s, k)
        BY <1>2, <2>6, <4>2, AfterBitStep
      <4> QED BY <2>4, <4>1, <4>2
    <3>2. \A i \in 1..Len(verdicts') : MayAnswer(s, d, verdicts'[i])
      <4>1. CASE verdicts' = verdicts
        BY <2>3, <4>1
      <4>2. ASSUME NEW v, MayAnswer(s, d, v), verdicts' = Append(verdicts, v)
            PROVE  \A i \in 1..Len(verdicts') : MayAnswer(s, d, verdicts'[i])
        <5>1. /\ Len(verdicts') = Len(verdicts) + 1 /\ Len(verdicts) \in Nat
              /\ verdicts'[Len(verdicts) + 1] = v
              /\ \A i \in 1..Len(verdicts) : verdicts'[i] = verdicts[i]
          BY <1>2, <4>2 DEF TypeOK
        <5>2. \A i \in 1..Len(verdicts') : i = Len(verdicts) + 1 \/ i \in 1..Len(verdicts)
          BY <5>1
        <5> QED BY <2>3, <4>2, <5>1, <5>2
      <4> QED BY <3>1, <4>1, <4>2 DEF LlreadAnswers
    <3> QED BY <2>1, <2>3, <3>1, <3>2
  <2>7. CASE UNCHANGED <<recState, ctrl, esc, frameData, verdicts, wire>>
    <3>1. Pending(s, d, k) => Pending(s, d, k)'
      BY <2>7 DEF Pending, AtFlag, InCopy, AtAddress, AtControl, AtBcc1, AtData, AtEscaped, HasRead
    <3>2. AfterBit(s, k) => AfterBit(s, k)'
      BY <2>7 DEF AfterBit, AtNext, Idle, WrongControl, Glued, WrongAtData, FalseEscape,
                  WrongAtEscaped, LostEscape, CollectsOff, CollectsFar, OnEscaped,
                  InCopy, AtAddress, AtControl, AtBcc1, AtData, AtEscaped, HasRead,
                  AstrayInCopy, AstrayAtAddress, AstrayInHeader, AstrayAtData,
                  AstrayAtEscaped, Astray
    <3> QED BY <2>1, <2>3, <2>4, <2>7, <3>1, <3>2
  <2> QED BY <2>1, <2>6, <2>7
<1> QED BY <1>1, <1>2, TypesHold, PTL DEF Spec

(* One wrong bit: a frame other than the one sent passes the checks only   *)
(* if the bit made a FLAG that cuts the frame, and then what passes is a   *)
(* beginning of the payload under the right control byte.                  *)
THEOREM OnlyACutDeceivesHolds == Spec => []OnlyACutDeceives
<1>1. ASSUME OneBit PROVE OnlyACutDeceives
  <2> SUFFICES ASSUME direction = "forward", damage.kind = "flip", NEW i \in 1..Len(verdicts)
               PROVE  \/ verdicts[i] \in {Damaged, AsSent}
                      \/ /\ Cut /\ verdicts[i].ctrl = sent.ctrl
                         /\ IsStrictPrefix(verdicts[i].data, sent.data)
    BY DEF OnlyACutDeceives
  <2>1. PICK s \in Sendable : \E d \in Flips(FrameOf(s)) :
          /\ sent = s /\ damage = d /\ MayAnswer(s, d, verdicts[i])
    BY <1>1 DEF OneBit
  <2>2. AsSent = Good(s.ctrl, s.data) /\ SentFrame = FrameOf(s)
    BY <2>1 DEF AsSent, SentFrame, FrameOf
  <2> QED BY <2>1, <2>2 DEF MayAnswer, Cut
<1> QED BY <1>1, OneBitAlways, PTL
=============================================================================
