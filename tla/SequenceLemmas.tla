--------------------------- MODULE SequenceLemmas ---------------------------
(***************************************************************************)
(* Facts about sequences and positions that the proofs about the machine   *)
(* and about the compiler share: stacks that grow and shrink at their end, *)
(* code that is appended to, and the first and last positions that CHOOSE  *)
(* picks.                                                                  *)
(***************************************************************************)
EXTENDS SequencesExt, SequenceTheorems, WellFoundedInduction, TLAPS

\* Removing the last element, as RET, END_TRY and a caught error do.
LEMMA FrontProperties ==
  ASSUME NEW S, NEW s \in Seq(S), s # <<>>
  PROVE  /\ Front(s) \in Seq(S)
         /\ Len(Front(s)) = Len(s) - 1
         /\ \A i \in 1..(Len(s) - 1) : Front(s)[i] = s[i]
         /\ Last(s) \in S
         /\ Last(s) = s[Len(s)]
         /\ Len(s) \in Nat \ {0}
<1>1. PICK n \in Nat \ {0} : Len(s) = n
  BY EmptySeq
<1>2. \A i \in 1..n : s[i] \in S
  BY <1>1, ElementOfSeq
<1>3. Last(s) = s[n] /\ Last(s) \in S
  BY <1>1, <1>2 DEF Last
<1>4. Front(s) = SubSeq(s, 1, n - 1)
  BY <1>1 DEF Front
<1>5. /\ SubSeq(s, 1, n - 1) \in Seq(S)
      /\ Len(SubSeq(s, 1, n - 1)) = n - 1
      /\ \A i \in 1..(n - 1) : SubSeq(s, 1, n - 1)[i] = s[i]
  <2>1. n - 1 \in Int /\ 1 \in Int /\ \A i \in 1..(n - 1) : s[i] \in S
    BY <1>2
  <2> QED
    BY <2>1, SubSeqProperties
<1> QED
  BY <1>1, <1>3, <1>4, <1>5

\* Keeping the n oldest elements, as every instruction that pops does.
LEMMA PrefixProperties ==
  ASSUME NEW S, NEW s \in Seq(S), NEW n \in 0..Len(s)
  PROVE  /\ SubSeq(s, 1, n) \in Seq(S)
         /\ Len(SubSeq(s, 1, n)) = n
<1>1. Len(s) \in Nat /\ \A i \in 1..n : s[i] \in S
  BY LenProperties, ElementOfSeq
<1> QED
  BY <1>1, SubSeqProperties

\* A set of positions has a first and a last one, the ones BindArgs and
\* CallArgs choose.
LEMMA FirstPosition ==
  ASSUME NEW T, T \subseteq Nat, T # {}
  PROVE  \E i \in T : \A j \in T : i <= j
<1> DEFINE R == OpToRel(<, Nat)
<1>1. IsWellFoundedOn(R, Nat)
  BY NatLessThanWellFounded
<1>2. \A i, j \in Nat : j < i => <<j, i>> \in R
  BY DEF OpToRel
<1> HIDE DEF R
<1>3. PICK i \in T : \A j \in T : ~(<<j, i>> \in R)
  BY <1>1, WFMin
<1>4. \A j \in T : ~(j < i)
  BY <1>2, <1>3
<1> QED
  BY <1>4

LEMMA LastPosition ==
  ASSUME NEW n \in Nat, NEW T, T \subseteq 1..n, T # {}
  PROVE  \E i \in T : \A j \in T : j <= i
<1> DEFINE U == {n - i : i \in T}
<1>1. \A i \in T : i \in Int /\ n - i \in Nat
  OBVIOUS
<1>2. U \subseteq Nat /\ U # {}
  BY <1>1
<1>3. PICK u \in U : \A w \in U : u <= w
  BY <1>2, FirstPosition
<1>4. PICK i \in T : u = n - i
  OBVIOUS
<1>5. \A j \in T : n - i <= n - j
  BY <1>3, <1>4
<1> QED
  BY <1>1, <1>5

\* Pushing an element, as a call and a construct entered do.
LEMMA AppendedProperties ==
  ASSUME NEW S, NEW s \in Seq(S), NEW e \in S
  PROVE  /\ Append(s, e) \in Seq(S)
         /\ Len(Append(s, e)) = Len(s) + 1
         /\ \A i \in 1..Len(s) : Append(s, e)[i] = s[i]
         /\ Append(s, e)[Len(s) + 1] = e
         /\ Append(s, e) # <<>>
         /\ \A i \in 1..Len(Append(s, e)) : i \in 1..Len(s) \/ i = Len(s) + 1
BY AppendProperties, LenProperties

\* Rewriting the last element, as a construct that goes on to its next part does.
LEMMA LastRewritten ==
  ASSUME NEW S, NEW s \in Seq(S), s # <<>>, NEW e \in S
  PROVE  /\ [s EXCEPT ![Len(s)] = e] \in Seq(S)
         /\ Len([s EXCEPT ![Len(s)] = e]) = Len(s)
         /\ \A i \in 1..(Len(s) - 1) : [s EXCEPT ![Len(s)] = e][i] = s[i]
         /\ [s EXCEPT ![Len(s)] = e][Len(s)] = e
         /\ \A i \in 1..Len([s EXCEPT ![Len(s)] = e]) : i \in 1..(Len(s) - 1) \/ i = Len(s)
<1>1. Len(s) \in Nat \ {0}
  BY EmptySeq
<1>2. Len(s) \in 1..Len(s) /\ \A i \in 1..Len(s) : i \in 1..(Len(s) - 1) \/ i = Len(s)
  BY <1>1
<1>3. \A i \in 1..(Len(s) - 1) : i \in 1..Len(s) /\ i # Len(s)
  BY <1>1
<1> QED
  BY <1>2, <1>3, ExceptSeq

\* Appending a sequence, as emitting code does.
LEMMA ExtendedProperties ==
  ASSUME NEW S, NEW c \in Seq(S), NEW s \in Seq(S)
  PROVE  /\ c \o s \in Seq(S)
         /\ Len(c \o s) = Len(c) + Len(s)
         /\ Len(c) <= Len(c \o s)
         /\ \A i \in 1..Len(c) : (c \o s)[i] = c[i]
         /\ \A i \in 1..Len(c \o s) :
              i > Len(c) => i - Len(c) \in 1..Len(s) /\ (c \o s)[i] = s[i - Len(c)]
<1>1. Len(c) \in Nat /\ Len(s) \in Nat
  BY LenProperties
<1> QED
  BY <1>1, ConcatProperties

\* Short sequences, written out.
LEMMA ShortSequences ==
  ASSUME NEW S
  PROVE  /\ \A x \in S : <<x>> \in Seq(S) /\ Len(<<x>>) = 1 /\ <<x>>[1] = x
         /\ \A x, y \in S : <<x, y>> \in Seq(S) /\ Len(<<x, y>>) = 2
         /\ \A x, y, z \in S : <<x, y, z>> \in Seq(S) /\ Len(<<x, y, z>>) = 3
         /\ \A x, y, z, u \in S : <<x, y, z, u>> \in Seq(S) /\ Len(<<x, y, z, u>>) = 4
OBVIOUS

\* Flattening a sequence of sequences, as collecting the declarations of files does:
\* the recursion is followed up to its least counterexample.
LEMMA FlattenedProperties ==
  ASSUME NEW S, NEW n \in Nat, NEW ss, ss \in [1..n -> Seq(S)], ss \in Seq(Seq(S)), Len(ss) = n
  PROVE  FlattenSeq(ss) \in Seq(S)
<1>1. CASE n = 0
  <2>1. ss = <<>>
    BY <1>1, EmptySeq
  <2> QED
    BY <1>1, <2>1 DEF FlattenSeq
<1>2. CASE n # 0
  <2> DEFINE Flat(m, g) == g = [i \in 1..m |-> IF i = 1 THEN ss[i] ELSE g[i - 1] \o ss[i]]
             Has(m) == \E g \in [1..m -> Seq(S)] : Flat(m, g)
  <2>1. Has(n)
    <3> DEFINE T == {m \in 1..n : ~Has(m)}
    <3> HIDE DEF Has
    <3> SUFFICES ASSUME T # {} PROVE FALSE
      BY <1>2
    <3>1. PICK m \in T : \A j \in T : m <= j
      <4>1. T \subseteq Nat
        OBVIOUS
      <4> HIDE DEF T
      <4> QED
        BY <4>1, FirstPosition
    <3>4. ~Has(m) /\ m \in 1..n
      OBVIOUS
    <3>5. m # 1 => m - 1 \in 1..n /\ Has(m - 1)
      BY <3>1
    <3> HIDE DEF T
    <3> USE DEF Has
    <3>2. CASE m = 1
      <4>1. [i \in 1..1 |-> ss[i]] \in [1..1 -> Seq(S)]
        BY <1>2
      <4>2. Flat(1, [i \in 1..1 |-> ss[i]])
        OBVIOUS
      <4> QED
        BY <3>2, <3>4, <4>1, <4>2
    <3>3. CASE m # 1
      <4>1. m - 1 \in 1..n /\ m \in 1..n
        BY <3>3, <3>4, <3>5
      <4>2. PICK g \in [1..(m - 1) -> Seq(S)] : Flat(m - 1, g)
        BY <3>3, <3>5
      <4> DEFINE h == [i \in 1..m |-> IF i = m THEN g[m - 1] \o ss[m] ELSE g[i]]
      <4>3. h \in [1..m -> Seq(S)]
        <5>1. g[m - 1] \in Seq(S) /\ ss[m] \in Seq(S)
          BY <3>3, <4>1
        <5>2. g[m - 1] \o ss[m] \in Seq(S)
          BY <5>1, ConcatProperties
        <5>3. \A i \in 1..m : i # m => i \in 1..(m - 1)
          BY <4>1
        <5> QED
          BY <5>2, <5>3
      <4>4. Flat(m, h)
        <5>1. ASSUME NEW i \in 1..m
              PROVE  h[i] = IF i = 1 THEN ss[i] ELSE h[i - 1] \o ss[i]
          <6>1. CASE i = m
            <7>1. m - 1 \in 1..m /\ m - 1 # m
              BY <3>3, <4>1
            <7>2. h[m - 1] = g[m - 1]
              BY <7>1
            <7> QED
              BY <3>3, <6>1, <7>2
          <6>2. CASE i # m /\ i # 1
            <7>1. i \in 1..(m - 1) /\ i - 1 \in 1..m /\ i - 1 # m
              BY <4>1, <6>2
            <7>2. g[i] = g[i - 1] \o ss[i]
              BY <4>2, <6>2, <7>1
            <7> QED
              BY <6>2, <7>1, <7>2
          <6>3. CASE i # m /\ i = 1
            <7>1. i \in 1..(m - 1)
              BY <4>1, <6>3
            <7>2. g[i] = ss[i]
              BY <4>2, <6>3, <7>1
            <7> QED
              BY <6>3, <7>2
          <6> QED
            BY <6>1, <6>2, <6>3
        <5> HIDE DEF h
        <5>2. h = [i \in 1..m |-> h[i]]
          BY DEF h
        <5> QED
          BY <5>1, <5>2
      <4> QED
        BY <3>4, <4>3, <4>4
    <3> QED
      BY <3>2, <3>3
  <2>2. PICK f \in [1..n -> Seq(S)] : Flat(n, f)
    BY <2>1
  <2> DEFINE c == CHOOSE g : Flat(n, g)
  <2>3. Flat(n, c)
    BY <2>2
  <2>4. \A i \in 1..n : c[i] \in Seq(S)
    <3> HIDE DEF c, Flat, Has
    <3> DEFINE U == {i \in 1..n : c[i] \notin Seq(S)}
    <3> SUFFICES ASSUME U # {} PROVE FALSE
      OBVIOUS
    <3>1. PICK i \in U : \A j \in U : i <= j
      <4>1. U \subseteq Nat
        OBVIOUS
      <4> HIDE DEF U
      <4> QED
        BY <4>1, FirstPosition
    <3>2. i \in 1..n /\ c[i] = IF i = 1 THEN ss[i] ELSE c[i - 1] \o ss[i]
      BY <2>3, <3>1 DEF Flat
    <3>3. c[i] \notin Seq(S) /\ ss[i] \in Seq(S)
      BY <3>2
    <3>4. i # 1 => c[i - 1] \in Seq(S)
      BY <3>1, <3>2
    <3> HIDE DEF U
    <3>5. i # 1 => c[i - 1] \o ss[i] \in Seq(S)
      BY <3>3, <3>4, ConcatProperties
    <3> QED
      BY <3>2, <3>3, <3>5
  <2>5. FlattenSeq(ss) = c[n]
    BY <1>2 DEF FlattenSeq
  <2> HIDE DEF c
  <2> QED
    BY <1>2, <2>4, <2>5
<1> QED
  BY <1>1, <1>2
=============================================================================
