---------------------------- MODULE SequenceFacts ----------------------------
(***************************************************************************)
(* Facts about numbers, recursions and sequences that the proofs share.    *)
(* Where an induction would be natural, a set of counterexamples has a     *)
(* least element, which is not one.                                        *)
(***************************************************************************)
EXTENDS Integers, SequencesExt, FiniteSetTheorems, SequenceTheorems, WellFoundedInduction, TLAPS

LEMMA SmallestNumber ==
  ASSUME NEW T \in SUBSET Nat, T # {}
  PROVE  \E i \in T : \A k \in T : i <= k
<1>1. PICK i \in T : \A k \in T : <<k, i>> \notin OpToRel(<, Nat)
  BY NatLessThanWellFounded, WFMin
<1>2. ASSUME NEW k \in T PROVE i <= k
  <2>1. i \in Nat /\ k \in Nat
    OBVIOUS
  <2>2. ~(k < i)
    <3> SUFFICES ASSUME k < i PROVE <<k, i>> \in OpToRel(<, Nat)
      BY <1>1
    <3> QED
      BY <2>1 DEF OpToRel
  <2> QED
    BY <2>1, <2>2
<1> QED
  BY <1>2

(* A set of indices has a greatest one. *)
LEMMA GreatestIndex ==
  ASSUME NEW n \in Nat, NEW t \in SUBSET (1 .. n), t # {}
  PROVE  Max(t) \in t
<1> DEFINE Above(x) == (x + 1) .. n
           T == {Above(x) : x \in t}
<1>1. IsWellFoundedOn(StrictSubsetOrdering(1 .. n), FiniteSubsetsOf(1 .. n))
  BY FS_StrictSubsetOrderingWellFounded
<1>2. ASSUME NEW x \in t PROVE Above(x) \in FiniteSubsetsOf(1 .. n)
  <2>1. IsFiniteSet(Above(x))
    BY FS_Interval
  <2>2. Above(x) \subseteq 1 .. n
    OBVIOUS
  <2> QED
    BY <2>1, <2>2 DEF FiniteSubsetsOf
<1>3. T \subseteq FiniteSubsetsOf(1 .. n) /\ T # {}
  BY <1>2
<1>4. PICK u \in T : \A v \in T : <<v, u>> \notin StrictSubsetOrdering(1 .. n)
  <2> HIDE DEF T
  <2> QED
    BY <1>1, <1>3, WFMin
<1>5. PICK x \in t : u = Above(x)
  BY <1>4
<1>6. \A y \in t : x >= y
  <2> SUFFICES ASSUME NEW y \in t, y > x PROVE FALSE
    OBVIOUS
  <2>1. Above(y) \subseteq Above(x) /\ y \in Above(x) /\ y \notin Above(y)
    OBVIOUS
  <2>2. Above(y) \in SUBSET (1 .. n) /\ Above(x) \in SUBSET (1 .. n)
    OBVIOUS
  <2>3. <<Above(y), Above(x)>> \in StrictSubsetOrdering(1 .. n)
    BY <2>1, <2>2 DEF StrictSubsetOrdering
  <2> QED
    BY <1>4, <1>5, <2>3
<1> QED
  BY <1>6 DEF Max

-----------------------------------------------------------------------------
(* Recursion on the numbers up to n.                                       *)

Recurs(g, X, a, n, step) ==
  /\ g \in [0 .. n -> X] /\ g[0] = a
  /\ \A k \in 1 .. n : g[k] = step[<<k, g[k - 1]>>]

LEMMA RecursionHasSolution ==
  ASSUME NEW X, NEW a \in X, NEW n \in Nat, NEW step \in [(1 .. n) \X X -> X]
  PROVE  \E g : Recurs(g, X, a, n, step)
<1> DEFINE T == {m \in 0 .. n : \A g : ~Recurs(g, X, a, m, step)}
<1>1. SUFFICES ASSUME T # {} PROVE FALSE
  <2>1. n \in 0 .. n
    OBVIOUS
  <2> QED
    BY <2>1
<1>2. PICK m \in T : \A k \in T : m <= k
  <2>1. T \in SUBSET Nat
    OBVIOUS
  <2> HIDE DEF T
  <2> QED
    BY <1>1, <2>1, SmallestNumber
<1>3. m \in 0 .. n /\ \A g : ~Recurs(g, X, a, m, step)
  OBVIOUS
<1>4. m # 0
  <2>1. Recurs([k \in 0 .. 0 |-> a], X, a, 0, step)
    BY DEF Recurs
  <2> QED
    BY <1>3, <2>1
<1>5. m - 1 \in 0 .. n /\ m - 1 \notin T
  BY <1>2, <1>3, <1>4
<1>6. PICK g : Recurs(g, X, a, m - 1, step)
  BY <1>5
<1> DEFINE h == [k \in 0 .. m |-> IF k = m THEN step[<<m, g[m - 1]>>] ELSE g[k]]
<1>7. g[m - 1] \in X /\ step[<<m, g[m - 1]>>] \in X
  <2>1. g[m - 1] \in X
    BY <1>3, <1>4, <1>6 DEF Recurs
  <2>2. <<m, g[m - 1]>> \in (1 .. n) \X X
    BY <1>3, <1>4, <2>1
  <2> QED
    BY <2>1, <2>2
<1>8. Recurs(h, X, a, m, step)
  <2>1. h \in [0 .. m -> X] /\ h[0] = a
    BY <1>3, <1>4, <1>6, <1>7 DEF Recurs
  <2>2. ASSUME NEW k \in 1 .. m PROVE h[k] = step[<<k, h[k - 1]>>]
    <3>1. k - 1 \in 0 .. m - 1 /\ h[k - 1] = g[k - 1]
      BY <1>3
    <3>2. CASE k = m
      <4>1. h[k] = step[<<m, g[m - 1]>>]
        BY <3>2
      <4> QED
        BY <3>1, <3>2, <4>1
    <3>3. CASE k # m
      <4>1. k \in 1 .. m - 1 /\ h[k] = g[k]
        BY <1>3, <3>3
      <4>2. g[k] = step[<<k, g[k - 1]>>]
        BY <1>6, <4>1 DEF Recurs
      <4> QED
        BY <3>1, <4>1, <4>2
    <3> QED
      BY <3>2, <3>3
  <2> QED
    BY <2>1, <2>2 DEF Recurs
<1> QED
  BY <1>3, <1>8

-----------------------------------------------------------------------------
(* Recursion on the sets of numbers up to n, which a fold is.              *)

LEMMA MaxIs == ASSUME NEW t \in SUBSET Int, NEW x \in t, \A y \in t : x >= y PROVE Max(t) = x
<1>1. Max(t) \in t /\ \A y \in t : Max(t) >= y
  BY Zenon DEF Max
<1>2. /\ Max(t) \in Int /\ x \in Int
      /\ x >= Max(t) /\ Max(t) >= x
  BY <1>1
<1> QED
  BY <1>2

SetRecurs(g, X, a, n, step) ==
  /\ g \in [SUBSET (1 .. n) -> X]
  /\ \A t \in SUBSET (1 .. n) : g[t] = IF t = {} THEN a ELSE step[<<Max(t), g[t \ {Max(t)}]>>]

LEMMA SetRecursionHasSolution ==
  ASSUME NEW X, NEW a \in X, NEW n \in Nat, NEW step \in [(1 .. n) \X X -> X]
  PROVE  \E g : SetRecurs(g, X, a, n, step)
<1> DEFINE T == {m \in 0 .. n : \A g : ~SetRecurs(g, X, a, m, step)}
<1>1. SUFFICES ASSUME T # {} PROVE FALSE
  <2>1. n \in 0 .. n
    OBVIOUS
  <2> QED
    BY <2>1
<1>2. PICK m \in T : \A k \in T : m <= k
  <2>1. T \in SUBSET Nat
    OBVIOUS
  <2> HIDE DEF T
  <2> QED
    BY <1>1, <2>1, SmallestNumber
<1>3. m \in 0 .. n /\ \A g : ~SetRecurs(g, X, a, m, step)
  OBVIOUS
<1>4. m # 0
  <2>1. SetRecurs([t \in SUBSET (1 .. 0) |-> a], X, a, 0, step)
    BY DEF SetRecurs
  <2> QED
    BY <1>3, <2>1
<1>5. m - 1 \in 0 .. n /\ m - 1 \notin T
  BY <1>2, <1>3, <1>4
<1>6. PICK g : SetRecurs(g, X, a, m - 1, step)
  BY <1>5
<1> DEFINE h == [t \in SUBSET (1 .. m) |-> IF m \in t THEN step[<<m, g[t \ {m}]>>] ELSE g[t]]
<1>7. \A t \in SUBSET (1 .. m) : t \ {m} \in SUBSET (1 .. m - 1) /\ (m \notin t => t \in SUBSET (1 .. m - 1))
  BY <1>3
<1>8. \A t \in SUBSET (1 .. m - 1) : g[t] \in X
  BY <1>6 DEF SetRecurs
<1>9. h \in [SUBSET (1 .. m) -> X]
  <2>1. ASSUME NEW t \in SUBSET (1 .. m) PROVE h[t] \in X
    <3>1. CASE m \in t
      <4>1. <<m, g[t \ {m}]>> \in (1 .. n) \X X
        BY <1>3, <1>4, <1>7, <1>8
      <4> QED
        BY <3>1, <4>1
    <3>2. CASE m \notin t
      BY <1>7, <1>8, <3>2
    <3> QED
      BY <3>1, <3>2
  <2> QED
    BY <2>1
<1>10. ASSUME NEW t \in SUBSET (1 .. m)
       PROVE  h[t] = IF t = {} THEN a ELSE step[<<Max(t), h[t \ {Max(t)}]>>]
  <2>1. CASE m \in t
    <3>1. Max(t) = m
      BY <1>3, <2>1, MaxIs
    <3>2. h[t \ {m}] = g[t \ {m}]
      BY <1>7
    <3> QED
      BY <2>1, <3>1, <3>2
  <2>2. CASE m \notin t
    <3>1. t \in SUBSET (1 .. m - 1) /\ h[t] = g[t]
      BY <1>7, <2>2
    <3>2. g[t] = IF t = {} THEN a ELSE step[<<Max(t), g[t \ {Max(t)}]>>]
      BY <1>6, <3>1, Zenon DEF SetRecurs
    <3>3. h[t \ {Max(t)}] = g[t \ {Max(t)}]
      BY <2>2
    <3> QED
      BY <3>1, <3>2, <3>3
  <2> QED
    BY <2>1, <2>2
<1>11. SetRecurs(h, X, a, m, step)
  <2> HIDE DEF h
  <2> QED
    BY <1>9, <1>10 DEF SetRecurs
<1> QED
  BY <1>3, <1>11

-----------------------------------------------------------------------------
(* Concatenations.                                                         *)

Flattens(g, s, S) ==
  /\ g \in [0 .. Len(s) -> Seq(S)] /\ g[0] = << >>
  /\ \A k \in 1 .. Len(s) : g[k] = g[k - 1] \o s[k]

LEMMA FlattensOnce ==
  ASSUME NEW S, NEW s, NEW t, Len(s) \in Nat, Len(t) \in Nat, Len(s) <= Len(t),
         \A k \in 1 .. Len(s) : s[k] = t[k],
         NEW g, Flattens(g, s, S), NEW h, Flattens(h, t, S)
  PROVE  g[Len(s)] = h[Len(s)]
<1> DEFINE n == Len(s)
           T == {k \in 0 .. n : g[k] # h[k]}
<1>1. SUFFICES ASSUME T # {} PROVE FALSE
  <2>1. n \in 0 .. n
    OBVIOUS
  <2> QED
    BY <2>1
<1>2. PICK m \in T : \A k \in T : m <= k
  <2>1. T \in SUBSET Nat
    OBVIOUS
  <2> HIDE DEF T
  <2> QED
    BY <1>1, <2>1, SmallestNumber
<1>3. m \in 0 .. n /\ n \in Nat /\ Len(t) \in Nat /\ n <= Len(t) /\ g[m] # h[m]
  OBVIOUS
<1>4. m # 0
  BY <1>3 DEF Flattens
<1> HIDE DEF n
<1>5. m - 1 \in 0 .. n /\ m \in 1 .. n /\ m \in 1 .. Len(t)
  BY <1>3, <1>4
<1>6. g[m - 1] = h[m - 1]
  <2>1. m - 1 \notin T
    <3> HIDE DEF T
    <3>1. ~(m <= m - 1)
      BY <1>3
    <3> QED
      BY <1>2, <3>1
  <2> QED
    BY <1>5, <2>1
<1> QED
  BY <1>3, <1>5, <1>6 DEF Flattens, n

LEMMA FlattenIsRecursive ==
  ASSUME NEW S, NEW s \in Seq(Seq(S))
  PROVE  \E g : Flattens(g, s, S) /\ FlattenSeq(s) = g[Len(s)]
<1> DEFINE n == Len(s)
           R(f) == f = [i \in 1 .. n |-> IF i = 1 THEN s[i] ELSE f[i - 1] \o s[i]]
           c == CHOOSE f : R(f)
           step == [p \in (1 .. n) \X Seq(S) |-> p[2] \o s[p[1]]]
<1>1. n \in Nat /\ \A i \in 1 .. n : s[i] \in Seq(S)
  BY LenProperties, ElementOfSeq
<1>2. PICK g : Flattens(g, s, S)
  <2> DEFINE X == Seq(S)
             a == << >>
  <2>1. step \in [(1 .. n) \X X -> X]
    BY <1>1, ConcatProperties
  <2>2. a \in X
    BY EmptySeq
  <2>3. PICK g : Recurs(g, X, a, n, step)
    <3>1. n \in Nat
      BY <1>1
    <3> HIDE DEF step, n, X, a
    <3> QED
      BY <2>1, <2>2, <3>1, RecursionHasSolution
  <2>4. \A k \in 1 .. n : g[k] = g[k - 1] \o s[k]
    <3> SUFFICES ASSUME NEW k \in 1 .. n PROVE g[k] = g[k - 1] \o s[k]
      OBVIOUS
    <3>1. <<k, g[k - 1]>> \in (1 .. n) \X Seq(S)
      <4>1. k - 1 \in 0 .. n
        <5> HIDE DEF n
        <5> QED
          BY <1>1
      <4> QED
        BY <2>3, <4>1 DEF Recurs
    <3> QED
      BY <2>3, <3>1 DEF Recurs
  <2> QED
    BY <2>3, <2>4 DEF Flattens, Recurs
<1>3. CASE n = 0
  <2>1. s = << >> /\ FlattenSeq(s) = s
    BY <1>3, EmptySeq DEF FlattenSeq
  <2> QED
    BY <1>2, <1>3, <2>1 DEF Flattens
<1>4. CASE n # 0
  <2>1. FlattenSeq(s) = c[n]
    BY <1>4, Zenon DEF FlattenSeq
  <2> DEFINE f == [i \in 1 .. n |-> g[i]]
  <2>2. R(f)
    <3>1. ASSUME NEW i \in 1 .. n PROVE g[i] = IF i = 1 THEN s[i] ELSE f[i - 1] \o s[i]
      <4>1. g[i] = g[i - 1] \o s[i] /\ s[i] \in Seq(S)
        BY <1>1, <1>2 DEF Flattens
      <4>2. i = 1 => g[i - 1] = << >>
        BY <1>2 DEF Flattens
      <4>3. i # 1 => i - 1 \in 1 .. n
        BY <1>1
      <4> QED
        BY <4>1, <4>2, <4>3, ConcatEmptySeq
    <3> QED
      BY <3>1
  <2>3. R(c)
    <3> HIDE DEF R, f
    <3> QED
      BY <2>2, Zenon
  <2> HIDE DEF c
  <2>4. \A i \in 1 .. n : c[i] = IF i = 1 THEN s[i] ELSE c[i - 1] \o s[i]
    BY <2>3, Zenon
  <2> DEFINE T == {k \in 1 .. n : c[k] # g[k]}
  <2>5. T = {}
    <3>1. SUFFICES ASSUME T # {} PROVE FALSE
      OBVIOUS
    <3>2. PICK m \in T : \A k \in T : m <= k
      <4>1. T \in SUBSET Nat
        OBVIOUS
      <4> HIDE DEF T
      <4> QED
        BY <3>1, <4>1, SmallestNumber
    <3>3. m \in 1 .. n /\ c[m] # g[m] /\ g[m] = g[m - 1] \o s[m] /\ s[m] \in Seq(S)
      BY <1>1, <1>2 DEF Flattens
    <3>4. CASE m = 1
      <4>1. g[m - 1] = << >>
        BY <1>2, <3>4 DEF Flattens
      <4>2. c[m] = s[m]
        BY <2>4, <3>3, <3>4
      <4> QED
        BY <3>3, <4>1, <4>2, ConcatEmptySeq
    <3>5. CASE m # 1
      <4>1. m - 1 \in 1 .. n /\ m - 1 \notin T
        BY <1>1, <3>2, <3>3, <3>5
      <4> QED
        BY <2>4, <3>3, <3>5, <4>1
    <3> QED
      BY <3>4, <3>5
  <2>6. c[n] = g[n]
    BY <1>1, <1>4, <2>5
  <2> QED
    BY <1>2, <2>1, <2>6
<1> QED
  BY <1>3, <1>4

LEMMA FlattenType == ASSUME NEW S, NEW s \in Seq(Seq(S)) PROVE FlattenSeq(s) \in Seq(S)
<1>1. PICK g : Flattens(g, s, S) /\ FlattenSeq(s) = g[Len(s)]
  BY FlattenIsRecursive
<1>2. Len(s) \in 0 .. Len(s)
  BY LenProperties
<1> QED
  BY <1>1, <1>2 DEF Flattens

LEMMA FlattenNone == FlattenSeq(<< >>) = << >>
BY DEF FlattenSeq

LEMMA FlattenAppend ==
  ASSUME NEW S, NEW s \in Seq(Seq(S)), NEW x \in Seq(S)
  PROVE  FlattenSeq(Append(s, x)) = FlattenSeq(s) \o x
<1> DEFINE n == Len(s)
           t == Append(s, x)
<1>1. /\ n \in Nat /\ t \in Seq(Seq(S)) /\ Len(t) = n + 1
      /\ \A k \in 1 .. n : t[k] = s[k]
      /\ t[n + 1] = x
  BY LenProperties, AppendProperties
<1>2. PICK g : Flattens(g, s, S) /\ FlattenSeq(s) = g[n]
  BY FlattenIsRecursive
<1> HIDE DEF t
<1>3. PICK h : Flattens(h, t, S) /\ FlattenSeq(t) = h[Len(t)]
  BY <1>1, FlattenIsRecursive
<1>4. g[n] = h[n]
  <2>1. Len(s) \in Nat /\ Len(t) \in Nat /\ Len(s) <= Len(t) /\ n \in 0 .. Len(s)
        /\ \A k \in 1 .. Len(s) : s[k] = t[k]
    BY <1>1
  <2> QED
    BY <1>2, <1>3, <2>1, FlattensOnce
<1>5. h[n + 1] = h[n] \o x
  <2>1. n + 1 \in 1 .. Len(t) /\ (n + 1) - 1 = n
    <3> HIDE DEF n
    <3> QED
      BY <1>1
  <2>2. h[n + 1] = h[(n + 1) - 1] \o t[n + 1]
    BY <1>3, <2>1, Zenon DEF Flattens
  <2> QED
    BY <1>1, <2>1, <2>2
<1> QED
  BY <1>1, <1>2, <1>3, <1>4, <1>5 DEF t

LEMMA FlattenEmpty == ASSUME NEW s \in Seq({<< >>}) PROVE FlattenSeq(s) = << >>
<1>1. s \in Seq(Seq({}))
  BY EmptySeq, SeqMonotonic
<1>2. FlattenSeq(s) \in Seq({})
  BY <1>1, FlattenType
<1> QED
  BY <1>2, EmptySeq, ElementOfSeq

-----------------------------------------------------------------------------
(* Sets put in a sequence, and numbered in the order of their elements.    *)

LEMMA SetInSequence ==
  ASSUME NEW D, IsFiniteSet(D)
  PROVE  /\ SetToSeq(D) \in Seq(D) /\ Len(SetToSeq(D)) \in Nat
         /\ \A i, j \in 1 .. Len(SetToSeq(D)) : SetToSeq(D)[i] = SetToSeq(D)[j] => i = j
         /\ \A x \in D : \E i \in 1 .. Len(SetToSeq(D)) : SetToSeq(D)[i] = x
<1> DEFINE n == Cardinality(D)
           s == SetToSeq(D)
<1>1. n \in Nat /\ ExistsBijection(1 .. n, D)
  BY FS_CardinalityType
<1>2. PICK f \in [1 .. n -> D] : IsInjective(f)
  BY <1>1 DEF ExistsBijection, Bijection, Injection
<1>3. s \in [1 .. n -> D] /\ IsInjective(s)
  BY <1>2, Zenon DEF SetToSeq
<1>4. Cardinality(1 .. n) = n /\ IsFiniteSet(1 .. n)
  <2>1. Cardinality(1 .. n) = IF 1 > n THEN 0 ELSE n - 1 + 1
    <3> HIDE DEF n
    <3> QED
      BY <1>1, FS_Interval
  <2>2. IsFiniteSet(1 .. n)
    <3> HIDE DEF n
    <3> QED
      BY <1>1, FS_Interval
  <2> HIDE DEF n
  <2>3. (IF 1 > n THEN 0 ELSE n - 1 + 1) = n
    BY <1>1
  <2> QED
    BY <2>1, <2>2, <2>3
<1>5. s \in Surjection(1 .. n, D)
  <2>1. s \in Injection(1 .. n, D)
    BY <1>3 DEF Injection
  <2> HIDE DEF s
  <2> QED
    BY <1>4, <2>1, FS_Injection, Zenon
<1> HIDE DEF s, n
<1>6. s \in Seq(D) /\ Len(s) = n
  BY <1>1, <1>3
<1>7. \A i, j \in 1 .. n : s[i] = s[j] => i = j
  BY <1>3 DEF IsInjective
<1>8. \A x \in D : \E i \in 1 .. n : s[i] = x
  BY <1>5 DEF Surjection
<1> QED
  BY <1>1, <1>6, <1>7, <1>8 DEF s

(* Numbered from 1 in increasing order, the elements take every number.    *)
Place(D, c) == Cardinality({d \in D : d <= c})

LEMMA PlacesOfNumbers ==
  ASSUME NEW D \in SUBSET Nat, IsFiniteSet(D)
  PROVE  /\ \A c \in D : Place(D, c) \in 1 .. Cardinality(D)
         /\ \A c, d \in D : Place(D, c) = Place(D, d) => c = d
         /\ \A h \in 1 .. Cardinality(D) : \E c \in D : Place(D, c) = h
<1> DEFINE upTo(c) == {d \in D : d <= c}
           n == Cardinality(D)
           place == [c \in D |-> Place(D, c)]
<1>1. \A c \in D : IsFiniteSet(upTo(c)) /\ Cardinality(upTo(c)) \in Nat
                  /\ Cardinality(upTo(c)) <= n /\ n \in Nat
  <2> SUFFICES ASSUME NEW c \in D
               PROVE  /\ IsFiniteSet(upTo(c)) /\ Cardinality(upTo(c)) \in Nat
                      /\ Cardinality(upTo(c)) <= n /\ n \in Nat
    OBVIOUS
  <2>1. upTo(c) \in SUBSET D
    OBVIOUS
  <2> HIDE DEF upTo
  <2> QED
    BY <2>1, FS_Subset, FS_CardinalityType
<1>2. \A c \in D : Place(D, c) \in 1 .. n
  <2> SUFFICES ASSUME NEW c \in D PROVE Place(D, c) \in 1 .. n
    OBVIOUS
  <2>1. c \in upTo(c)
    OBVIOUS
  <2>2. Cardinality(upTo(c)) # 0
    <3> HIDE DEF upTo
    <3> QED
      BY <1>1, <2>1, FS_EmptySet
  <2>3. Place(D, c) = Cardinality(upTo(c))
    BY DEF Place
  <2> HIDE DEF upTo, n
  <2> QED
    BY <1>1, <2>2, <2>3
<1>3. ASSUME NEW c \in D, NEW d \in D, c < d PROVE Place(D, c) # Place(D, d)
  <2>0. \A x \in D : x <= c => x <= d
    BY <1>3
  <2>a. d <= d /\ ~(d <= c)
    BY <1>3
  <2>1. upTo(c) \in SUBSET upTo(d) /\ d \in upTo(d) /\ d \notin upTo(c)
    BY <2>0, <2>a, Zenon
  <2>2. Place(D, c) = Cardinality(upTo(c)) /\ Place(D, d) = Cardinality(upTo(d))
    BY DEF Place
  <2> HIDE DEF upTo
  <2> QED
    BY <1>1, <2>1, <2>2, FS_Subset
<1>4. \A c, d \in D : Place(D, c) = Place(D, d) => c = d
  <2> SUFFICES ASSUME NEW c \in D, NEW d \in D, Place(D, c) = Place(D, d), c # d PROVE FALSE
    OBVIOUS
  <2>1. c < d \/ d < c
    OBVIOUS
  <2> QED
    BY <1>3, <2>1
<1>5. n \in Nat
  BY FS_CardinalityType
<1>6. place \in Injection(D, 1 .. n)
  <2>1. place \in [D -> 1 .. n]
    BY <1>2
  <2> QED
    BY <1>4, <2>1 DEF Injection, IsInjective
<1>7. Cardinality(1 .. n) = n /\ IsFiniteSet(1 .. n)
  <2> HIDE DEF n
  <2>1. IsFiniteSet(1 .. n) /\ Cardinality(1 .. n) = IF 1 > n THEN 0 ELSE n - 1 + 1
    BY <1>5, FS_Interval
  <2>2. (IF 1 > n THEN 0 ELSE n - 1 + 1) = n
    BY <1>5
  <2> QED
    BY <2>1, <2>2
<1>8. place \in Surjection(D, 1 .. n)
  <2> HIDE DEF place
  <2> QED
    BY <1>6, <1>7, FS_Injection, Zenon
<1>9. \A h \in 1 .. n : \E c \in D : Place(D, c) = h
  BY <1>8 DEF Surjection
<1> QED
  BY <1>2, <1>4, <1>9

-----------------------------------------------------------------------------
(* Sums of finite sets, which are taken in an order of their own.          *)

SumOn(g, s) ==
  g = [t \in SUBSET s |-> IF t = {} THEN 0
                          ELSE (CHOOSE x \in t : TRUE) + g[t \ {CHOOSE x \in t : TRUE}]]

LEMMA SumUnfolds == ASSUME NEW s PROVE SumSet(s) = (CHOOSE g : SumOn(g, s))[s]
<1>1. SumSet(s) =
        (CHOOSE g : g = [t \in SUBSET s |-> IF t = {} THEN 0
                          ELSE (CHOOSE x \in t : TRUE) + g[t \ {CHOOSE x \in t : TRUE}]])[s]
  BY Zenon DEF SumSet, FoldSet, MapThenFoldSet
<1> QED
  BY <1>1, Zenon DEF SumOn

LEMMA SumStep ==
  ASSUME NEW s, NEW g, SumOn(g, s), NEW t \in SUBSET s
  PROVE  /\ t = {} => g[t] = 0
         /\ t # {} => \E x \in t : x = (CHOOSE y \in t : TRUE) /\ g[t] = x + g[t \ {x}]
<1>1. g[t] = IF t = {} THEN 0 ELSE (CHOOSE x \in t : TRUE) + g[t \ {CHOOSE x \in t : TRUE}]
  BY Zenon DEF SumOn
<1>2. t # {} => (CHOOSE x \in t : TRUE) \in t
  BY Zenon
<1> QED
  BY <1>1, <1>2, Zenon

LEMMA SumIsOne ==
  ASSUME NEW s, NEW r, NEW g, SumOn(g, s), NEW h, SumOn(h, r),
         NEW u, IsFiniteSet(u), u \subseteq s, u \subseteq r
  PROVE  g[u] = h[u]
<1> DEFINE T == {t \in FiniteSubsetsOf(u) : g[t] # h[t]}
<1>1. SUFFICES ASSUME T # {} PROVE FALSE
  <2>1. u \in FiniteSubsetsOf(u)
    BY DEF FiniteSubsetsOf
  <2> QED
    BY <2>1
<1>2. PICK t \in T : \A v \in T : <<v, t>> \notin StrictSubsetOrdering(u)
  <2>1. T \subseteq FiniteSubsetsOf(u)
    OBVIOUS
  <2> HIDE DEF T
  <2> QED
    BY <1>1, <2>1, FS_StrictSubsetOrderingWellFounded, WFMin
<1>3. /\ IsFiniteSet(t) /\ t \subseteq u /\ g[t] # h[t]
      /\ \A v \in FiniteSubsetsOf(u) : <<v, t>> \in StrictSubsetOrdering(u) => g[v] = h[v]
  <2>1. t \in FiniteSubsetsOf(u) /\ g[t] # h[t]
    OBVIOUS
  <2>2. IsFiniteSet(t) /\ t \subseteq u
    BY <2>1 DEF FiniteSubsetsOf
  <2> QED
    BY <1>2, <2>1, <2>2
<1> HIDE DEF T
<1>4. t \in SUBSET s /\ t \in SUBSET r
  BY <1>3
<1>5. CASE t = {}
  BY <1>3, <1>4, <1>5, SumStep
<1>6. CASE t # {}
  <2>1. PICK x \in t : x = (CHOOSE y \in t : TRUE) /\ g[t] = x + g[t \ {x}]
    BY <1>4, <1>6, SumStep
  <2>2. h[t] = x + h[t \ {x}]
    <3>1. PICK z \in t : z = (CHOOSE y \in t : TRUE) /\ h[t] = z + h[t \ {z}]
      BY <1>4, <1>6, SumStep
    <3>2. z = x
      BY <2>1, <3>1
    <3> QED
      BY <3>1, <3>2
  <2>3. g[t \ {x}] = h[t \ {x}]
    <3>1. IsFiniteSet(t \ {x})
      BY <1>3, FS_RemoveElement
    <3>2. t \ {x} \in FiniteSubsetsOf(u) /\ <<t \ {x}, t>> \in StrictSubsetOrdering(u)
      BY <1>3, <3>1 DEF FiniteSubsetsOf, StrictSubsetOrdering
    <3> QED
      BY <1>3, <3>2
  <2> QED
    BY <1>3, <2>1, <2>2, <2>3
<1> QED
  BY <1>5, <1>6

LEMMA SumExists ==
  ASSUME NEW s \in SUBSET Int, IsFiniteSet(s)
  PROVE  \E g : SumOn(g, s) /\ g[s] \in Int
<1> DEFINE Solved(t) == \E g : SumOn(g, t) /\ g[t] \in Int
           T == {t \in FiniteSubsetsOf(s) : ~Solved(t)}
<1>1. SUFFICES ASSUME T # {} PROVE FALSE
  <2>1. s \in FiniteSubsetsOf(s)
    BY DEF FiniteSubsetsOf
  <2> QED
    BY <2>1
<1>2. PICK u \in T : \A v \in T : <<v, u>> \notin StrictSubsetOrdering(s)
  <2>1. T \subseteq FiniteSubsetsOf(s)
    OBVIOUS
  <2> HIDE DEF T
  <2> QED
    BY <1>1, <2>1, FS_StrictSubsetOrderingWellFounded, WFMin
<1>3. /\ IsFiniteSet(u) /\ u \in SUBSET s /\ ~Solved(u)
      /\ \A v \in FiniteSubsetsOf(s) : <<v, u>> \in StrictSubsetOrdering(s) => Solved(v)
  <2>1. u \in FiniteSubsetsOf(s) /\ ~Solved(u)
    OBVIOUS
  <2>2. IsFiniteSet(u) /\ u \in SUBSET s
    BY <2>1 DEF FiniteSubsetsOf
  <2> HIDE DEF Solved
  <2> QED
    BY <1>2, <2>1, <2>2
<1> HIDE DEF T
<1> DEFINE G(t) == CHOOSE g : SumOn(g, t) /\ g[t] \in Int
           c(t) == CHOOSE x \in t : TRUE
           h == [t \in SUBSET u |-> IF t = {} THEN 0 ELSE c(t) + G(t \ {c(t)})[t \ {c(t)}]]
<1>4. ASSUME NEW t \in SUBSET u, t # u
      PROVE  SumOn(G(t), t) /\ G(t)[t] \in Int /\ IsFiniteSet(t)
  <2>1. IsFiniteSet(t)
    BY <1>3, FS_Subset
  <2>2. t \in FiniteSubsetsOf(s) /\ <<t, u>> \in StrictSubsetOrdering(s)
    BY <1>3, <1>4, <2>1 DEF FiniteSubsetsOf, StrictSubsetOrdering
  <2>3. Solved(t)
    BY <1>3, <2>2
  <2> QED
    BY <2>1, <2>3, Zenon
<1>5. ASSUME NEW t \in SUBSET u, t # {}
      PROVE  c(t) \in t /\ c(t) \in Int /\ t \ {c(t)} \in SUBSET u /\ t \ {c(t)} # u
  <2>1. c(t) \in t
    BY <1>5, Zenon
  <2> HIDE DEF c
  <2> QED
    BY <1>3, <2>1
<1> HIDE DEF G, c, Solved
<1>6. ASSUME NEW t \in SUBSET u, t # u PROVE h[t] = G(t)[t]
  <2>1. SumOn(G(t), t) /\ t \in SUBSET t
    BY <1>4, <1>6
  <2>2. CASE t = {}
    <3>1. G(t)[t] = 0
      BY <2>1, <2>2, SumStep
    <3> QED
      BY <2>2, <3>1
  <2>3. CASE t # {}
    <3>1. PICK x \in t : x = c(t) /\ G(t)[t] = x + G(t)[t \ {x}]
      BY <2>1, <2>3, SumStep DEF c
    <3>2. G(t)[t \ {x}] = G(t \ {x})[t \ {x}]
      <4>1. t \ {x} \in SUBSET u /\ t \ {x} # u /\ t \ {x} \subseteq t
        BY <1>6, <3>1
      <4>2. SumOn(G(t \ {x}), t \ {x}) /\ IsFiniteSet(t \ {x})
        BY <1>4, <4>1
      <4> QED
        BY <2>1, <4>1, <4>2, SumIsOne
    <3> QED
      BY <2>3, <3>1, <3>2
  <2> QED
    BY <2>2, <2>3
<1>7. SumOn(h, u)
  <2>1. ASSUME NEW t \in SUBSET u
        PROVE  h[t] = IF t = {} THEN 0 ELSE c(t) + h[t \ {c(t)}]
    <3>1. CASE t = {}
      BY <3>1
    <3>2. CASE t # {}
      <4>1. h[t \ {c(t)}] = G(t \ {c(t)})[t \ {c(t)}]
        <5> HIDE DEF h
        <5> QED
          BY <1>5, <1>6, <3>2
      <4>2. h[t] = c(t) + G(t \ {c(t)})[t \ {c(t)}]
        BY <3>2
      <4> HIDE DEF h
      <4> QED
        BY <3>2, <4>1, <4>2
    <3> QED
      BY <3>1, <3>2
  <2>2. h = [t \in SUBSET u |-> h[t]]
    OBVIOUS
  <2> HIDE DEF h
  <2>3. h = [t \in SUBSET u |-> IF t = {} THEN 0 ELSE c(t) + h[t \ {c(t)}]]
    BY <2>1, <2>2
  <2> QED
    BY <2>3, Zenon DEF SumOn, c
<1>8. h[u] \in Int
  <2>1. CASE u = {}
    BY <2>1
  <2>2. CASE u # {}
    <3>1. c(u) \in Int /\ u \ {c(u)} \in SUBSET u /\ u \ {c(u)} # u
      BY <1>5, <2>2
    <3>2. G(u \ {c(u)})[u \ {c(u)}] \in Int
      BY <1>4, <3>1
    <3>3. h[u] = c(u) + G(u \ {c(u)})[u \ {c(u)}]
      BY <2>2
    <3> HIDE DEF h
    <3> QED
      BY <3>1, <3>2, <3>3
  <2> QED
    BY <2>1, <2>2
<1> HIDE DEF h
<1> QED
  BY <1>3, <1>7, <1>8 DEF Solved

LEMMA SumIsInteger == ASSUME NEW s \in SUBSET Int, IsFiniteSet(s) PROVE SumSet(s) \in Int
<1> DEFINE f == CHOOSE g : SumOn(g, s)
<1>1. PICK g : SumOn(g, s) /\ g[s] \in Int
  BY SumExists
<1>2. SumOn(f, s)
  BY <1>1, Zenon
<1>3. SumSet(s) = f[s]
  BY SumUnfolds
<1> HIDE DEF f
<1>4. f[s] = g[s]
  BY <1>1, <1>2, SumIsOne
<1> QED
  BY <1>1, <1>3, <1>4

-----------------------------------------------------------------------------
(* Sums of sequences.                                                      *)

SumsTo(f, b, s) == f = [t \in SUBSET (DOMAIN s) |-> IF t = {} THEN b ELSE f[t \ {Max(t)}] + s[Max(t)]]

LEMMA SequenceSumUnfolds ==
  ASSUME NEW b, NEW s PROVE FoldLeft(+, b, s) = (CHOOSE f : SumsTo(f, b, s))[DOMAIN s]
<1>1. FoldLeft(+, b, s) =
        (CHOOSE f : f = [t \in SUBSET (DOMAIN s) |->
            IF t = {} THEN b ELSE f[t \ {Max(t)}] + s[Max(t)]])[DOMAIN s]
  BY Zenon DEF FoldLeft, MapThenFoldSet
<1> QED
  BY <1>1, Zenon DEF SumsTo

LEMMA UpTo ==
  ASSUME NEW n \in Nat, NEW m \in 1 .. n
  PROVE  1 .. m \in SUBSET (1 .. n) /\ 1 .. m # {} /\ Max(1 .. m) = m /\ (1 .. m) \ {m} = 1 .. m - 1
<1>1. 1 .. m \in SUBSET Int /\ m \in 1 .. m /\ \A y \in 1 .. m : m >= y
  OBVIOUS
<1>2. Max(1 .. m) = m
  BY <1>1, MaxIs
<1>3. 1 .. m \in SUBSET (1 .. n)
  OBVIOUS
<1>4. (1 .. m) \ {m} = 1 .. m - 1
  OBVIOUS
<1> QED
  BY <1>1, <1>2, <1>3, <1>4

(* p has the sums of the beginnings of s. *)
LEMMA SequenceSum ==
  ASSUME NEW b \in Int, NEW n \in Nat, NEW s \in [1 .. n -> Int],
         NEW p \in [0 .. n -> Int], p[0] = b, \A k \in 1 .. n : p[k] = p[k - 1] + s[k]
  PROVE  FoldLeft(+, b, s) = p[n]
<1> DEFINE X == Int
           step == [q \in (1 .. n) \X X |-> q[2] + s[q[1]]]
           f == CHOOSE f : SumsTo(f, b, s)
<1>1. PICK g : SetRecurs(g, X, b, n, step)
  <2>1. step \in [(1 .. n) \X X -> X]
    OBVIOUS
  <2>2. b \in X
    OBVIOUS
  <2> HIDE DEF step, X
  <2> QED
    BY <2>1, <2>2, SetRecursionHasSolution
<1>2. SumsTo(g, b, s)
  <2>1. g = [t \in SUBSET (1 .. n) |-> g[t]]
    BY <1>1 DEF SetRecurs
  <2>2. ASSUME NEW t \in SUBSET (1 .. n)
        PROVE  g[t] = IF t = {} THEN b ELSE g[t \ {Max(t)}] + s[Max(t)]
    <3>1. g[t] = IF t = {} THEN b ELSE step[<<Max(t), g[t \ {Max(t)}]>>]
      BY <1>1, Zenon DEF SetRecurs
    <3>2. t # {} => <<Max(t), g[t \ {Max(t)}]>> \in (1 .. n) \X X
      <4> SUFFICES ASSUME t # {} PROVE <<Max(t), g[t \ {Max(t)}]>> \in (1 .. n) \X X
        OBVIOUS
      <4>1. Max(t) \in t
        BY GreatestIndex
      <4>2. t \ {Max(t)} \in SUBSET (1 .. n)
        OBVIOUS
      <4>3. g[t \ {Max(t)}] \in X
        BY <1>1, <4>2 DEF SetRecurs
      <4> QED
        BY <4>1, <4>3
    <3> QED
      BY <3>1, <3>2
  <2>3. DOMAIN s = 1 .. n
    OBVIOUS
  <2> HIDE DEF step, X
  <2> QED
    BY <2>1, <2>2, <2>3, Zenon DEF SumsTo
<1>3. SumsTo(f, b, s)
  BY <1>2, Zenon
<1>4. FoldLeft(+, b, s) = f[1 .. n]
  <2>1. DOMAIN s = 1 .. n
    OBVIOUS
  <2> QED
    BY <2>1, SequenceSumUnfolds
<1> HIDE DEF f, step, X
<1>5. \A t \in SUBSET (1 .. n) : f[t] = IF t = {} THEN b ELSE f[t \ {Max(t)}] + s[Max(t)]
  <2>1. DOMAIN s = 1 .. n
    OBVIOUS
  <2> QED
    BY <1>3, <2>1, Zenon DEF SumsTo
<1> DEFINE T == {k \in 0 .. n : f[1 .. k] # p[k]}
<1>6. T = {}
  <2>1. SUFFICES ASSUME T # {} PROVE FALSE
    OBVIOUS
  <2>2. PICK m \in T : \A k \in T : m <= k
    <3>1. T \in SUBSET Nat
      OBVIOUS
    <3> HIDE DEF T
    <3> QED
      BY <2>1, <3>1, SmallestNumber
  <2>3. m \in 0 .. n /\ f[1 .. m] # p[m]
    OBVIOUS
  <2>4. CASE m = 0
    <3>1. 1 .. 0 = {} /\ 1 .. 0 \in SUBSET (1 .. n)
      OBVIOUS
    <3>2. f[1 .. 0] = b
      BY <1>5, <3>1
    <3> QED
      BY <2>3, <2>4, <3>2
  <2>5. CASE m # 0
    <3>1. f[1 .. m - 1] = p[m - 1]
      BY <2>2, <2>3, <2>5
    <3>2. 1 .. m \in SUBSET (1 .. n) /\ 1 .. m # {} /\ Max(1 .. m) = m /\ (1 .. m) \ {m} = 1 .. m - 1
      <4>1. m \in 1 .. n
        BY <2>3, <2>5
      <4> QED
        BY <4>1, UpTo
    <3>3. f[1 .. m] = f[1 .. m - 1] + s[m]
      BY <1>5, <3>2
    <3> QED
      BY <2>3, <2>5, <3>1, <3>3
  <2> QED
    BY <2>4, <2>5
<1>7. n \in 0 .. n
  OBVIOUS
<1> QED
  BY <1>4, <1>6, <1>7

LEMMA MinIn == ASSUME NEW t \in SUBSET Nat, t # {} PROVE Min(t) \in t
<1>1. \E x \in t : \A y \in t : x <= y
  BY SmallestNumber
<1> QED
  BY <1>1, Zenon DEF Min
===============================================================================
