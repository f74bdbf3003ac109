----------------------------- MODULE ImageProofs -----------------------------
(***************************************************************************)
(* What the image of a readout holds (Conversion, ImageIsTheStream), and   *)
(* the types of all the conversions, for every number of channels, words,  *)
(* packets and files, and every size of chunk and of image.                *)
(*                                                                         *)
(* The proof about the image follows a word: the reader hands out the      *)
(* words of the files in their order (HandedOut), a word is in the buffer  *)
(* of its channel, and the buffers are written at the end of what the HDUs *)
(* have (Converted).                                                       *)
(*                                                                         *)
(* For the types, the channels that have come are counted: each has a      *)
(* vector of its own, the lower before the higher (Ordered), and what is   *)
(* written to an HDU never exceeds the size of the image (Within).         *)
(***************************************************************************)
EXTENDS ConversionProofs

-----------------------------------------------------------------------------
(* What dump_channels does to an image.                                    *)

Images(V) == [pixExpected : Nat, pixelCounts : [F!HDUs -> Nat], data : [F!HDUs -> Seq(V)]]

DumpedOne(r, o, h, x) ==
  /\ r.pixExpected = o.pixExpected
  /\ r.pixelCounts[h] = o.pixelCounts[h] + Len(x)
  /\ r.data[h] = o.data[h] \o F!Written(o, h, x)
  /\ \A g \in F!HDUs \ {h} : r.pixelCounts[g] = o.pixelCounts[g] /\ r.data[g] = o.data[g]

LEMMA DumpOne ==
  ASSUME NEW V, NEW o \in Images(V), NEW h \in F!HDUs, NEW x \in Seq(V),
         NEW r, r = F!dump_to_fits(o, h, x)
  PROVE  r \in Images(V) /\ DumpedOne(r, o, h, x)
<1> DEFINE room == o.pixExpected - o.pixelCounts[h]
           m == IF room < Len(x) THEN room ELSE Len(x)
<1>1. /\ o.pixExpected \in Nat /\ o.pixelCounts \in [F!HDUs -> Nat]
      /\ o.data \in [F!HDUs -> Seq(V)] /\ Len(x) \in Nat
      /\ o = [pixExpected |-> o.pixExpected, pixelCounts |-> o.pixelCounts, data |-> o.data]
  BY LenProperties DEF Images
<1>2. F!Written(o, h, x) \in Seq(V)
  <2>1. F!Written(o, h, x) = IF x = << >> THEN x ELSE SubSeq(x, 1, m)
    BY DEF F!Written, F!spaceRemaining
  <2>2. m \in Int /\ m <= Len(x) /\ \A i \in 1 .. m : i \in 1 .. Len(x)
    BY <1>1
  <2>3. \A i \in 1 .. m : x[i] \in V
    BY <2>2, ElementOfSeq
  <2> HIDE DEF m
  <2>4. SubSeq(x, 1, m) \in Seq(V)
    BY <2>2, <2>3, SubSeqProperties
  <2> QED
    BY <2>1, <2>4
<1>3. o.data[h] \o F!Written(o, h, x) \in Seq(V)
  BY <1>1, <1>2, ConcatProperties
<1>4. r = [o EXCEPT !.pixelCounts[h] = @ + Len(x), !.data[h] = @ \o F!Written(o, h, x)]
  BY DEF F!dump_to_fits
<1> DEFINE counts == [o.pixelCounts EXCEPT ![h] = @ + Len(x)]
           data == [o.data EXCEPT ![h] = @ \o F!Written(o, h, x)]
<1>5. counts \in [F!HDUs -> Nat]
  BY <1>1
<1>6. data \in [F!HDUs -> Seq(V)]
  BY <1>1, <1>3
<1>7. r = [pixExpected |-> o.pixExpected, pixelCounts |-> counts, data |-> data]
  BY <1>1, <1>4
<1> HIDE DEF counts, data
<1>8. r \in Images(V) /\ r.pixExpected = o.pixExpected /\ r.pixelCounts = counts /\ r.data = data
  BY <1>1, <1>5, <1>6, <1>7 DEF Images
<1> QED
  BY <1>1, <1>2, <1>8 DEF counts, data, DumpedOne

(* CFITSIO refuses an HDU that does not exist.                             *)
LEMMA DumpTyped ==
  ASSUME NEW V, NEW o \in Images(V), NEW h, NEW x \in Seq(V),
         NEW r, r = F!dump_to_fits(o, h, x)
  PROVE  r \in Images(V)
<1>1. CASE h \in F!HDUs
  BY <1>1, DumpOne
<1>2. CASE h \notin F!HDUs
  BY <1>2 DEF F!dump_to_fits
<1> QED
  BY <1>1, <1>2

DumpOf(f, s, o, hdu, px) ==
  f = [t \in SUBSET (DOMAIN s) |->
         IF t = {} THEN o
         ELSE F!dump_to_fits(f[t \ {Max(t)}], hdu[s[Max(t)]], px[s[Max(t)]])]

LEMMA DumpUnfolds ==
  ASSUME NEW o, NEW hdu, NEW px, NEW s, s = SetToSeq(DOMAIN px)
  PROVE  dump_channels(o, hdu, px) = (CHOOSE f : DumpOf(f, s, o, hdu, px))[DOMAIN s]
<1>1. dump_channels(o, hdu, px) =
        (CHOOSE f : f = [t \in SUBSET (DOMAIN s) |->
         IF t = {} THEN o
         ELSE F!dump_to_fits(f[t \ {Max(t)}], hdu[s[Max(t)]], px[s[Max(t)]])])[DOMAIN s]
  BY Zenon DEF dump_channels, FoldLeft, MapThenFoldSet
<1> QED
  BY <1>1, Zenon DEF DumpOf

(* One channel after the other is dumped. *)
Dumps(q, V, s, o, hdu, px) ==
  /\ q \in [0 .. Len(s) -> Images(V)] /\ q[0] = o
  /\ \A k \in 1 .. Len(s) : q[k] = F!dump_to_fits(q[k - 1], hdu[s[k]], px[s[k]])

LEMMA DumpsInTurn ==
  ASSUME NEW V, NEW D, IsFiniteSet(D), NEW o \in Images(V), NEW hdu, NEW px \in [D -> Seq(V)],
         NEW s, s = SetToSeq(D)
  PROVE  \E q : Dumps(q, V, s, o, hdu, px) /\ dump_channels(o, hdu, px) = q[Len(s)]
<1> DEFINE n == Len(s)
           X == Images(V)
           step == [p \in (1 .. n) \X X |-> F!dump_to_fits(p[2], hdu[s[p[1]]], px[s[p[1]]])]
           f == CHOOSE f : DumpOf(f, s, o, hdu, px)
<1>1. n \in Nat /\ s \in Seq(D) /\ DOMAIN s = 1 .. n /\ \A i \in 1 .. n : s[i] \in D
  BY SetInSequence, LenProperties, ElementOfSeq
<1>2. step \in [(1 .. n) \X X -> X]
  <2> SUFFICES ASSUME NEW p \in (1 .. n) \X X
               PROVE  F!dump_to_fits(p[2], hdu[s[p[1]]], px[s[p[1]]]) \in X
    OBVIOUS
  <2>1. p[2] \in Images(V) /\ px[s[p[1]]] \in Seq(V)
    BY <1>1
  <2> QED
    BY <2>1, DumpTyped
<1>a. n = Len(s) /\ X = Images(V)
  OBVIOUS
<1> HIDE DEF n, X
<1>3. PICK g : SetRecurs(g, X, o, n, step)
  <2>1. o \in X
    BY <1>a
  <2> HIDE DEF step
  <2> QED
    BY <1>1, <1>2, <2>1, SetRecursionHasSolution
<1>4. DumpOf(g, s, o, hdu, px)
  <2>1. g = [t \in SUBSET (1 .. n) |-> g[t]]
    BY <1>3 DEF SetRecurs
  <2>2. ASSUME NEW t \in SUBSET (1 .. n)
        PROVE  g[t] = IF t = {} THEN o
                      ELSE F!dump_to_fits(g[t \ {Max(t)}], hdu[s[Max(t)]], px[s[Max(t)]])
    <3>1. g[t] = IF t = {} THEN o ELSE step[<<Max(t), g[t \ {Max(t)}]>>]
      BY <1>3, Zenon DEF SetRecurs
    <3>2. t # {} => <<Max(t), g[t \ {Max(t)}]>> \in (1 .. n) \X X
      <4> SUFFICES ASSUME t # {} PROVE <<Max(t), g[t \ {Max(t)}]>> \in (1 .. n) \X X
        OBVIOUS
      <4>1. Max(t) \in t
        BY <1>1, GreatestIndex
      <4>2. t \ {Max(t)} \in SUBSET (1 .. n)
        OBVIOUS
      <4>3. g[t \ {Max(t)}] \in X
        BY <1>3, <4>2 DEF SetRecurs
      <4> QED
        BY <4>1, <4>3
    <3> QED
      BY <3>1, <3>2
  <2> QED
    BY <1>1, <2>1, <2>2, Zenon DEF DumpOf
<1>5. DumpOf(f, s, o, hdu, px)
  BY <1>4, Zenon
<1>6. dump_channels(o, hdu, px) = f[1 .. n]
  <2>1. s = SetToSeq(DOMAIN px)
    OBVIOUS
  <2>2. dump_channels(o, hdu, px) = f[DOMAIN s]
    BY <2>1, DumpUnfolds
  <2> HIDE DEF f
  <2> QED
    BY <1>1, <2>2
<1> HIDE DEF f
<1>7. /\ f[{}] = o
      /\ \A k \in 1 .. n : f[1 .. k] = F!dump_to_fits(f[1 .. k - 1], hdu[s[k]], px[s[k]])
  <2>1. \A t \in SUBSET (1 .. n) :
          f[t] = IF t = {} THEN o
                 ELSE F!dump_to_fits(f[t \ {Max(t)}], hdu[s[Max(t)]], px[s[Max(t)]])
    BY <1>1, <1>5, Zenon DEF DumpOf
  <2>2. ASSUME NEW k \in 1 .. n
        PROVE  /\ 1 .. k \in SUBSET (1 .. n) /\ 1 .. k # {} /\ Max(1 .. k) = k
               /\ (1 .. k) \ {k} = 1 .. k - 1
    <3>1. 1 .. k \in SUBSET (1 .. n) /\ k \in 1 .. k /\ (1 .. k) \ {k} = 1 .. k - 1
      BY <1>1
    <3>2. Max(1 .. k) = k
      <4> DEFINE t == 1 .. k
      <4>1. t \in SUBSET Int /\ k \in t /\ \A y \in t : k >= y
        BY <1>1
      <4> HIDE DEF t
      <4>2. Max(t) = k
        BY <4>1, MaxIs
      <4> QED
        BY <4>2 DEF t
    <3> QED
      BY <3>1, <3>2
  <2>3. ASSUME NEW k \in 1 .. n
        PROVE  f[1 .. k] = F!dump_to_fits(f[1 .. k - 1], hdu[s[k]], px[s[k]])
    <3>1. f[1 .. k] = F!dump_to_fits(f[(1 .. k) \ {Max(1 .. k)}], hdu[s[Max(1 .. k)]], px[s[Max(1 .. k)]])
      BY <2>1, <2>2, Zenon
    <3> QED
      BY <2>2, <3>1, Zenon
  <2> QED
    BY <2>1, <2>3, Zenon
<1> DEFINE q == [k \in 0 .. n |-> f[1 .. k]]
<1>8. q[0] = o /\ 0 \in 0 .. n /\ n \in 0 .. n
  <2>1. 1 .. 0 = {}
    OBVIOUS
  <2> QED
    BY <1>1, <1>7, <2>1
<1>9. ASSUME NEW k \in 1 .. n
      PROVE  /\ k \in 0 .. n /\ k - 1 \in 0 .. n
             /\ q[k] = F!dump_to_fits(q[k - 1], hdu[s[k]], px[s[k]])
  <2>1. k \in 0 .. n /\ k - 1 \in 0 .. n
    BY <1>1
  <2>2. q[k] = f[1 .. k] /\ q[k - 1] = f[1 .. k - 1]
    BY <2>1
  <2> HIDE DEF q
  <2> QED
    BY <1>7, <2>1, <2>2
<1> DEFINE T == {k \in 0 .. n : q[k] \notin X}
<1>10. T = {}
  <2>1. SUFFICES ASSUME T # {} PROVE FALSE
    OBVIOUS
  <2>2. PICK m \in T : \A k \in T : m <= k
    <3>1. T \in SUBSET Nat
      BY <1>1
    <3> HIDE DEF T
    <3> QED
      BY <2>1, <3>1, SmallestNumber
  <2>3. m \in 0 .. n /\ q[m] \notin X /\ m \in Nat
    BY <1>1
  <2> HIDE DEF q
  <2>4. m # 0
    BY <1>8, <1>a, <2>3
  <2>5. m \in 1 .. n
    BY <1>1, <2>3, <2>4
  <2>6. q[m - 1] \in X
    <3>1. m - 1 \in 0 .. n /\ ~(m <= m - 1)
      BY <1>1, <2>5
    <3> QED
      BY <2>2, <3>1
  <2>7. px[s[m]] \in Seq(V)
    BY <1>1, <2>5
  <2>8. F!dump_to_fits(q[m - 1], hdu[s[m]], px[s[m]]) \in X
    BY <1>a, <2>6, <2>7, DumpTyped
  <2>9. q[m] \in X
    BY <1>9, <2>5, <2>8
  <2> QED
    BY <2>3, <2>9
<1>11. q \in [0 .. n -> X] /\ q[n] = f[1 .. n]
  BY <1>8, <1>10
<1>12. Dumps(q, V, s, o, hdu, px)
  <2> HIDE DEF q
  <2> QED
    BY <1>8, <1>9, <1>11, <1>a DEF Dumps
<1> QED
  <2> HIDE DEF q
  <2> QED
    BY <1>6, <1>11, <1>12, <1>a

(* Every channel's HDU gets the channel's pixels, once.                    *)
Dumped(r, o, D, hdu, px) ==
  /\ r.pixExpected = o.pixExpected
  /\ \A c \in D : /\ r.pixelCounts[hdu[c]] = o.pixelCounts[hdu[c]] + Len(px[c])
                  /\ r.data[hdu[c]] = o.data[hdu[c]] \o F!Written(o, hdu[c], px[c])

EachItsOwn(hdu, D) == \A b, c \in D : hdu[b] = hdu[c] => b = c

Untouched(r, o, E, hdu) ==
  \A c \in E : r.pixelCounts[hdu[c]] = o.pixelCounts[hdu[c]] /\ r.data[hdu[c]] = o.data[hdu[c]]

LEMMA DumpNext ==
  ASSUME NEW V, NEW D, NEW o \in Images(V), NEW r \in Images(V),
         NEW hdu \in [D -> F!HDUs], EachItsOwn(hdu, D),
         NEW px \in [D -> Seq(V)],
         NEW A \in SUBSET D, NEW e \in D \ A,
         Dumped(r, o, A, hdu, px), Untouched(r, o, D \ A, hdu),
         NEW t, t = F!dump_to_fits(r, hdu[e], px[e])
  PROVE  Dumped(t, o, A \cup {e}, hdu, px) /\ Untouched(t, o, D \ (A \cup {e}), hdu)
<1> DEFINE h == hdu[e]
           x == px[e]
<1>1. h \in F!HDUs /\ x \in Seq(V) /\ t = F!dump_to_fits(r, h, x) /\ h = hdu[e] /\ x = px[e]
  OBVIOUS
<1> HIDE DEF h, x
<1>2. DumpedOne(t, r, h, x)
  BY <1>1, DumpOne
<1>3. F!Written(r, h, x) = F!Written(o, h, x)
  BY <1>1 DEF Dumped, Untouched, F!Written, F!spaceRemaining
<1>4. \A c \in D : c # e => hdu[c] # h /\ hdu[c] \in F!HDUs
  BY <1>1 DEF EachItsOwn
<1>6. t.pixelCounts[h] = r.pixelCounts[h] + Len(x) /\ t.data[h] = r.data[h] \o F!Written(o, h, x)
  BY <1>2, <1>3 DEF DumpedOne
<1>7. \A c \in D : c # e => t.pixelCounts[hdu[c]] = r.pixelCounts[hdu[c]] /\ t.data[hdu[c]] = r.data[hdu[c]]
  BY <1>2, <1>4 DEF DumpedOne
<1>8. /\ t.pixelCounts[h] = o.pixelCounts[h] + Len(x)
      /\ t.data[h] = o.data[h] \o F!Written(o, h, x)
  BY <1>1, <1>6 DEF Untouched
<1>9. Dumped(t, o, A \cup {e}, hdu, px)
  BY <1>1, <1>2, <1>7, <1>8 DEF Dumped, DumpedOne
<1>10. Untouched(t, o, D \ (A \cup {e}), hdu)
  BY <1>7 DEF Untouched
<1> QED
  BY <1>9, <1>10

LEMMA DumpChannels ==
  ASSUME NEW V, NEW D, IsFiniteSet(D), NEW o \in Images(V),
         NEW hdu \in [D -> F!HDUs], EachItsOwn(hdu, D),
         NEW px \in [D -> Seq(V)]
  PROVE  /\ dump_channels(o, hdu, px) \in Images(V)
         /\ Dumped(dump_channels(o, hdu, px), o, D, hdu, px)
<1> DEFINE s == SetToSeq(D)
           n == Len(s)
           to(k) == {s[i] : i \in 1 .. k}
           At(q, k) == Dumped(q[k], o, to(k), hdu, px) /\ Untouched(q[k], o, D \ to(k), hdu)
<1>1. /\ n \in Nat /\ \A i \in 1 .. n : s[i] \in D
      /\ \A i, j \in 1 .. n : s[i] = s[j] => i = j
      /\ \A x \in D : \E i \in 1 .. n : s[i] = x
  BY SetInSequence, ElementOfSeq
<1>2. PICK q : Dumps(q, V, s, o, hdu, px) /\ dump_channels(o, hdu, px) = q[n]
  BY DumpsInTurn
<1> HIDE DEF s
<1>3. /\ q \in [0 .. n -> Images(V)] /\ q[0] = o
      /\ \A k \in 1 .. n : q[k] = F!dump_to_fits(q[k - 1], hdu[s[k]], px[s[k]])
  BY <1>2 DEF Dumps
<1> HIDE DEF n
<1> DEFINE T == {k \in 0 .. n : ~At(q, k)}
<1>4. T = {}
  <2>1. SUFFICES ASSUME T # {} PROVE FALSE
    OBVIOUS
  <2>2. PICK m \in T : \A k \in T : m <= k
    <3>1. T \in SUBSET Nat
      BY <1>1
    <3> HIDE DEF T
    <3> QED
      BY <2>1, <3>1, SmallestNumber
  <2>3. m \in 0 .. n /\ ~At(q, m)
    OBVIOUS
  <2>4. m # 0
    <3>1. to(0) = {}
      OBVIOUS
    <3>2. At(q, 0)
      BY <1>3, <3>1 DEF Dumped, Untouched
    <3> QED
      BY <2>3, <3>2
  <2>5. m \in 1 .. n /\ m - 1 \in 0 .. n /\ ~(m <= m - 1)
    BY <1>1, <2>3, <2>4
  <2>6. At(q, m - 1)
    <3> HIDE DEF At
    <3> QED
      BY <2>2, <2>5
  <2>7. q[m - 1] \in Images(V) /\ to(m - 1) \in SUBSET D /\ s[m] \in D \ to(m - 1)
        /\ to(m) = to(m - 1) \cup {s[m]}
    <3>1. \A i \in 1 .. m - 1 : i \in 1 .. n /\ i # m
      BY <1>1, <2>5
    <3>2. \A i : i \in 1 .. m <=> i \in 1 .. m - 1 \/ i = m
      BY <2>5
    <3>3. to(m) = to(m - 1) \cup {s[m]}
      BY <3>2, Zenon
    <3> QED
      BY <1>1, <1>3, <2>5, <3>1, <3>3
  <2>8. q[m] = F!dump_to_fits(q[m - 1], hdu[s[m]], px[s[m]])
    BY <1>3, <2>5
  <2>a. n \in Nat /\ m \in 1 .. n
    BY <1>1, <2>5
  <2> DEFINE A == to(m - 1)
             e == s[m]
             r == q[m - 1]
             u == q[m]
  <2>b. /\ A \in SUBSET D /\ e \in D \ A /\ r \in Images(V)
        /\ Dumped(r, o, A, hdu, px) /\ Untouched(r, o, D \ A, hdu)
        /\ u = F!dump_to_fits(r, hdu[e], px[e])
    BY <2>6, <2>7, <2>8
  <2> HIDE DEF A, e, r, u
  <2>c. Dumped(u, o, A \cup {e}, hdu, px) /\ Untouched(u, o, D \ (A \cup {e}), hdu)
    BY <2>b, DumpNext, Zenon
  <2>9. At(q, m)
    BY <2>7, <2>c DEF A, e, u
  <2> QED
    BY <2>3, <2>9
<1>5. n \in 0 .. n /\ to(n) = D
  BY <1>1
<1>6. At(q, n)
  <2> HIDE DEF At
  <2> QED
    BY <1>4, <1>5
<1> QED
  BY <1>2, <1>3, <1>5, <1>6

-----------------------------------------------------------------------------
(* What is in an HDU and what is still in its channel's buffer.            *)

LEMMA FirstOfIs ==
  ASSUME NEW S, NEW x \in Seq(S), NEW n \in Nat
  PROVE  /\ FirstOf(x, n) \in Seq(S)
         /\ Len(FirstOf(x, n)) = IF n < Len(x) THEN n ELSE Len(x)
         /\ \A i \in 1 .. Len(FirstOf(x, n)) : FirstOf(x, n)[i] = x[i]
<1> DEFINE m == IF n < Len(x) THEN n ELSE Len(x)
<1>1. Len(x) \in Nat /\ m \in Nat /\ m <= Len(x)
  BY LenProperties
<1>2. \A i \in 1 .. m : x[i] \in S
  BY <1>1, ElementOfSeq
<1>3. FirstOf(x, n) = SubSeq(x, 1, m)
  BY DEF FirstOf
<1>a. m = IF n < Len(x) THEN n ELSE Len(x)
  OBVIOUS
<1> HIDE DEF m
<1>4. /\ SubSeq(x, 1, m) \in Seq(S)
      /\ Len(SubSeq(x, 1, m)) = IF 1 <= m THEN m - 1 + 1 ELSE 0
      /\ \A i \in 1 .. m - 1 + 1 : SubSeq(x, 1, m)[i] = x[1 + i - 1]
  BY <1>1, <1>2, SubSeqProperties
<1>5. Len(SubSeq(x, 1, m)) = m
  BY <1>1, <1>4
<1>6. \A i \in 1 .. m : SubSeq(x, 1, m)[i] = x[i]
  <2> SUFFICES ASSUME NEW i \in 1 .. m PROVE SubSeq(x, 1, m)[i] = x[i]
    OBVIOUS
  <2>1. i \in 1 .. m - 1 + 1 /\ 1 + i - 1 = i
    BY <1>1
  <2> QED
    BY <1>4, <2>1
<1> QED
  BY <1>3, <1>4, <1>5, <1>6, <1>a

(* Dropping what is over the size of an image, part by part or at the end, *)
(* gives the same image.                                                   *)
LEMMA FirstOfParts ==
  ASSUME NEW p \in Seq(Int), NEW r \in Seq(Int), NEW o \in Images(Int), NEW h \in F!HDUs,
         o.pixelCounts[h] = Len(p)
  PROVE  FirstOf(p, o.pixExpected) \o F!Written(o, h, r) = FirstOf(p \o r, o.pixExpected)
<1> DEFINE E == o.pixExpected
           a == FirstOf(p, E)
           b == F!Written(o, h, r)
           m == IF E - Len(p) < Len(r) THEN E - Len(p) ELSE Len(r)
           k == IF m < 0 THEN 0 ELSE m
<1>1. E \in Nat /\ Len(p) \in Nat /\ Len(r) \in Nat /\ m \in Int /\ m <= Len(r)
  BY LenProperties DEF Images
<1>2. b = IF r = << >> THEN r ELSE SubSeq(r, 1, m)
  BY DEF F!Written, F!spaceRemaining
<1>3. \A i \in 1 .. m : r[i] \in Int
  <2> SUFFICES ASSUME NEW i \in 1 .. m PROVE r[i] \in Int
    OBVIOUS
  <2>1. i \in 1 .. Len(r)
    BY <1>1
  <2> QED
    BY <2>1, ElementOfSeq
<1>a. m = IF E - Len(p) < Len(r) THEN E - Len(p) ELSE Len(r)
  OBVIOUS
<1>b. k \in Nat /\ k = IF m < 0 THEN 0 ELSE m
  BY <1>1
<1>c. E = o.pixExpected /\ a = FirstOf(p, E)
  OBVIOUS
<1> HIDE DEF m, k, b, E, a
<1>4. b \in Seq(Int) /\ Len(b) = k /\ \A i \in 1 .. k : b[i] = r[i]
  <2>1. /\ SubSeq(r, 1, m) \in Seq(Int)
        /\ Len(SubSeq(r, 1, m)) = IF 1 <= m THEN m - 1 + 1 ELSE 0
        /\ \A i \in 1 .. m - 1 + 1 : SubSeq(r, 1, m)[i] = r[1 + i - 1]
    BY <1>1, <1>3, SubSeqProperties
  <2>2. CASE r = << >>
    <3>1. Len(r) = 0 /\ b = r
      BY <1>2, <2>2, EmptySeq
    <3> QED
      BY <1>1, <1>a, <1>b, <3>1
  <2>3. CASE r # << >>
    <3>1. b = SubSeq(r, 1, m)
      BY <1>2, <2>3
    <3>2. Len(b) = k
      BY <1>1, <1>b, <2>1, <3>1
    <3>3. ASSUME NEW i \in 1 .. k PROVE b[i] = r[i]
      <4>1. i \in 1 .. m - 1 + 1 /\ 1 + i - 1 = i
        BY <1>1, <1>b
      <4> QED
        BY <2>1, <3>1, <4>1
    <3> QED
      BY <2>1, <3>1, <3>2, <3>3
  <2> QED
    BY <2>2, <2>3
<1>5. /\ a \in Seq(Int) /\ Len(a) = IF E < Len(p) THEN E ELSE Len(p)
      /\ \A i \in 1 .. Len(a) : a[i] = p[i]
  BY <1>1, <1>c, FirstOfIs
<1>6. /\ p \o r \in Seq(Int) /\ Len(p \o r) = Len(p) + Len(r)
      /\ \A i \in 1 .. Len(p) + Len(r) : (p \o r)[i] = IF i <= Len(p) THEN p[i] ELSE r[i - Len(p)]
  BY ConcatProperties
<1> DEFINE c == FirstOf(p \o r, E)
           lp == Len(p)
           lr == Len(r)
           la == Len(a)
<1>7. /\ c \in Seq(Int) /\ Len(c) = IF E < lp + lr THEN E ELSE lp + lr
      /\ \A i \in 1 .. Len(c) : c[i] = (p \o r)[i]
  <2>1. Len(c) = IF E < Len(p \o r) THEN E ELSE Len(p \o r)
    BY <1>1, <1>6, FirstOfIs
  <2> QED
    BY <1>1, <1>6, <2>1, FirstOfIs
<1>8. /\ a \o b \in Seq(Int) /\ Len(a \o b) = la + k
      /\ \A i \in 1 .. la + k : (a \o b)[i] = IF i <= la THEN a[i] ELSE b[i - la]
  <2>1. /\ a \o b \in Seq(Int) /\ Len(a \o b) = Len(a) + Len(b)
        /\ \A i \in 1 .. Len(a) + Len(b) :
             (a \o b)[i] = IF i <= Len(a) THEN a[i] ELSE b[i - Len(a)]
    <3>1. a \in Seq(Int) /\ b \in Seq(Int)
      BY <1>4, <1>5
    <3> QED
      BY <3>1, ConcatProperties
  <2> QED
    BY <1>4, <2>1
<1>d. /\ lp \in Nat /\ lr \in Nat /\ la \in Nat /\ E \in Nat /\ k \in Nat
      /\ la = IF E < lp THEN E ELSE lp
      /\ m = IF E - lp < lr THEN E - lp ELSE lr
      /\ \A i \in 1 .. la : a[i] = p[i]
      /\ \A i \in 1 .. lp + lr : (p \o r)[i] = IF i <= lp THEN p[i] ELSE r[i - lp]
  BY <1>1, <1>5, <1>6, <1>a, <1>b
<1> HIDE DEF c, lp, lr, la
<1>9. Len(c) = la + k /\ Len(c) <= lp + lr /\ la <= lp
  BY <1>7, <1>b, <1>d
<1>10. ASSUME NEW i \in 1 .. la + k PROVE (a \o b)[i] = c[i]
  <2>1. i \in 1 .. Len(c) /\ i \in 1 .. lp + lr
    BY <1>9, <1>d
  <2>2. c[i] = IF i <= lp THEN p[i] ELSE r[i - lp]
    BY <1>d, <1>7, <2>1
  <2>3. CASE i <= la
    <3>1. i <= lp /\ i \in 1 .. la
      BY <1>9, <1>d, <2>3
    <3> QED
      BY <1>d, <1>8, <2>2, <2>3, <3>1
  <2>4. CASE ~(i <= la)
    <3>1. la = lp /\ i - la \in 1 .. k
      BY <1>b, <1>d, <2>4
    <3> QED
      BY <1>4, <1>8, <2>2, <2>4, <3>1
  <2> QED
    BY <2>3, <2>4
<1>11. a \o b = c
  <2>1. Len(a \o b) = Len(c) /\ \A i \in 1 .. Len(a \o b) : (a \o b)[i] = c[i]
    BY <1>8, <1>9, <1>10
  <2> QED
    BY <1>7, <1>8, <2>1, SeqEqual
<1> QED
  BY <1>11 DEF a, b, c, E

(* An HDU holds what a channel has sent but for the rest.                  *)
WrittenPart(o, h, x, rest) ==
  \E p \in Seq(Int) : /\ x = p \o rest /\ Len(p) = o.pixelCounts[h]
                      /\ o.data[h] = FirstOf(p, o.pixExpected)

LEMMA NothingWritten ==
  ASSUME NEW o \in Images(Int), NEW h \in F!HDUs, NEW x \in Seq(Int),
         o.pixelCounts[h] = 0, o.data[h] = << >>
  PROVE  WrittenPart(o, h, x, x)
<1>1. << >> \in Seq(Int) /\ Len(<< >>) = 0 /\ << >> \o x = x /\ o.pixExpected \in Nat
  BY EmptySeq, ConcatEmptySeq DEF Images
<1>2. Len(FirstOf(<< >>, o.pixExpected)) = 0 /\ FirstOf(<< >>, o.pixExpected) \in Seq(Int)
  <2> DEFINE e == << >>
  <2>1. e \in Seq(Int) /\ Len(e) = 0
    BY <1>1
  <2> HIDE DEF e
  <2>2. Len(FirstOf(e, o.pixExpected)) = 0 /\ FirstOf(e, o.pixExpected) \in Seq(Int)
    BY <1>1, <2>1, FirstOfIs
  <2> QED
    BY <2>2 DEF e
<1>3. FirstOf(<< >>, o.pixExpected) = << >>
  BY <1>2, EmptySeq
<1> QED
  BY <1>1, <1>3 DEF WrittenPart

LEMMA RestGrows ==
  ASSUME NEW o, NEW h, NEW x, NEW rest \in Seq(Int), NEW v \in Int, WrittenPart(o, h, x, rest)
  PROVE  WrittenPart(o, h, Append(x, v), Append(rest, v))
<1>1. PICK p \in Seq(Int) : /\ x = p \o rest /\ Len(p) = o.pixelCounts[h]
                            /\ o.data[h] = FirstOf(p, o.pixExpected)
  BY DEF WrittenPart
<1>2. Append(p \o rest, v) = p \o Append(rest, v)
  <2> DEFINE s == Append(p \o rest, v)
             t == p \o Append(rest, v)
             lp == Len(p)
             lr == Len(rest)
  <2>1. /\ lp \in Nat /\ lr \in Nat
        /\ p \o rest \in Seq(Int) /\ Len(p \o rest) = lp + lr
        /\ \A i \in 1 .. lp + lr : (p \o rest)[i] = IF i <= lp THEN p[i] ELSE rest[i - lp]
    BY ConcatProperties, LenProperties
  <2>2. /\ s \in Seq(Int) /\ Len(s) = (lp + lr) + 1
        /\ \A i \in 1 .. lp + lr : s[i] = (p \o rest)[i]
        /\ s[(lp + lr) + 1] = v
    <3>1. Len(s) = Len(p \o rest) + 1 /\ s \in Seq(Int) /\ s[Len(p \o rest) + 1] = v
          /\ \A i \in 1 .. Len(p \o rest) : s[i] = (p \o rest)[i]
      BY <2>1, AppendProperties
    <3> HIDE DEF s, lp, lr
    <3> QED
      BY <2>1, <3>1
  <2>3. /\ Append(rest, v) \in Seq(Int) /\ Len(Append(rest, v)) = lr + 1
        /\ \A i \in 1 .. lr : Append(rest, v)[i] = rest[i]
        /\ Append(rest, v)[lr + 1] = v
    BY AppendProperties
  <2>4. /\ t \in Seq(Int) /\ Len(t) = lp + (lr + 1)
        /\ \A i \in 1 .. lp + (lr + 1) :
             t[i] = IF i <= lp THEN p[i] ELSE Append(rest, v)[i - lp]
    <3>1. /\ t \in Seq(Int) /\ Len(t) = lp + Len(Append(rest, v))
          /\ \A i \in 1 .. lp + Len(Append(rest, v)) :
               t[i] = IF i <= lp THEN p[i] ELSE Append(rest, v)[i - lp]
      BY <2>3, ConcatProperties
    <3> HIDE DEF t, lp, lr
    <3> QED
      BY <2>3, <3>1
  <2> HIDE DEF s, t, lp, lr
  <2>5. ASSUME NEW i \in 1 .. (lp + lr) + 1 PROVE s[i] = t[i]
    <3>0. i \in 1 .. lp + (lr + 1)
      BY <2>1
    <3>1. CASE i <= lp
      <4>1. i \in 1 .. lp + lr
        BY <2>1, <3>1
      <4> QED
        BY <2>1, <2>2, <2>4, <3>0, <3>1, <4>1
    <3>2. CASE i > lp /\ i <= lp + lr
      <4>1. i - lp \in 1 .. lr /\ i \in 1 .. lp + lr /\ ~(i <= lp)
        BY <2>1, <3>2
      <4>2. s[i] = rest[i - lp]
        BY <2>1, <2>2, <4>1
      <4>3. t[i] = Append(rest, v)[i - lp]
        BY <2>4, <3>0, <4>1
      <4> QED
        BY <2>3, <4>1, <4>2, <4>3
    <3>3. CASE i = (lp + lr) + 1
      <4>1. i - lp = lr + 1 /\ ~(i <= lp)
        BY <2>1, <3>3
      <4>2. t[i] = Append(rest, v)[i - lp]
        BY <2>4, <3>0, <4>1
      <4> QED
        BY <2>2, <2>3, <3>3, <4>1, <4>2
    <3> QED
      BY <2>1, <3>1, <3>2, <3>3
  <2>6. Len(s) = Len(t) /\ \A i \in 1 .. Len(s) : s[i] = t[i]
    BY <2>1, <2>2, <2>4, <2>5
  <2>7. s = t
    BY <2>2, <2>4, <2>6, SeqEqual
  <2> QED
    BY <2>7 DEF s, t
<1> QED
  BY <1>1, <1>2 DEF WrittenPart

LEMMA RestWritten ==
  ASSUME NEW o \in Images(Int), NEW h \in F!HDUs, NEW x, NEW rest \in Seq(Int),
         WrittenPart(o, h, x, rest),
         NEW r, r.pixExpected = o.pixExpected, r.pixelCounts[h] = o.pixelCounts[h] + Len(rest),
         r.data[h] = o.data[h] \o F!Written(o, h, rest)
  PROVE  WrittenPart(r, h, x, << >>)
<1>1. PICK p \in Seq(Int) : /\ x = p \o rest /\ Len(p) = o.pixelCounts[h]
                            /\ o.data[h] = FirstOf(p, o.pixExpected)
  BY DEF WrittenPart
<1>2. r.data[h] = FirstOf(p \o rest, r.pixExpected)
  BY <1>1, FirstOfParts
<1>3. x \in Seq(Int) /\ Len(x) = r.pixelCounts[h] /\ x = x \o << >>
  <2>1. p \o rest \in Seq(Int) /\ Len(p \o rest) = Len(p) + Len(rest)
    BY ConcatProperties
  <2> QED
    BY <1>1, <2>1, ConcatEmptySeq
<1> QED
  BY <1>1, <1>2, <1>3 DEF WrittenPart

-----------------------------------------------------------------------------
(* The words w have been converted: they are in the buffers map or, when   *)
(* all the channels have been seen, in the image o.                        *)

Ids(w) == {w[i].chID : i \in 1 .. Len(w)}

Buffers(w, map) ==
  /\ map \in [Ids(w) -> Seq(Int)]
  /\ Ids(w) \in SUBSET Nat /\ IsFiniteSet(Ids(w))
  /\ \A c \in Nat \ Ids(w) : Pixels(w, c) = << >>

Blank(o) == \A h \in F!HDUs : o.pixelCounts[h] = 0 /\ o.data[h] = << >>

Waiting(w, map, o) == Blank(o) /\ \A c \in Ids(w) : map[c] = Pixels(w, c)

Writing(w, map, o) ==
  \A c \in Ids(w) : WrittenPart(o, Place(Ids(w), c), Pixels(w, c), map[c])

Converted(w, map, o) ==
  /\ Buffers(w, map) /\ o \in Images(Int)
  /\ Cardinality(Ids(w)) < NumChannels => Waiting(w, map, o)
  /\ Cardinality(Ids(w)) = NumChannels => Writing(w, map, o)

LEMMA IdsAppend ==
  ASSUME NEW nch, NEW w \in Seq(Words(nch)), NEW v \in Words(nch)
  PROVE  /\ Append(w, v) \in Seq(Words(nch))
         /\ Ids(Append(w, v)) = Ids(w) \cup {v.chID}
<1> DEFINE n == Len(w)
           u == Append(w, v)
<1>1. /\ n \in Nat /\ u \in Seq(Words(nch)) /\ Len(u) = n + 1
      /\ \A k \in 1 .. n : u[k] = w[k]
      /\ u[n + 1] = v
  BY LenProperties, AppendProperties
<1> HIDE DEF n, u
<1>2. \A k : k \in 1 .. n + 1 <=> k \in 1 .. n \/ k = n + 1
  BY <1>1
<1>3. Ids(u) = {u[k].chID : k \in 1 .. n} \cup {u[n + 1].chID}
  BY <1>1, <1>2, Zenon DEF Ids
<1>4. {u[k].chID : k \in 1 .. n} = Ids(w)
  BY <1>1 DEF Ids, n
<1> QED
  BY <1>1, <1>3, <1>4 DEF u

LEMMA NoWords ==
  ASSUME NEW o \in Images(Int), Blank(o)
  PROVE  Ids(<< >>) = {} /\ Converted(<< >>, << >>, o)
<1>1. Ids(<< >>) = {}
  BY DEF Ids
<1>2. << >> \in [{} -> Seq(Int)]
  OBVIOUS
<1>3. IsFiniteSet({}) /\ Cardinality({}) = 0
  BY FS_EmptySet
<1> QED
  BY <1>1, <1>2, <1>3, NoPixels, ReaderAssumption DEF Converted, Buffers, Waiting

(* A word is buffered.                                                     *)
LEMMA WordBuffered ==
  ASSUME NEW nch \in Nat, NEW w \in Seq(Words(nch)), NEW v \in Words(nch), NEW map, NEW o,
         Converted(w, map, o)
  PROVE  Converted(Append(w, v), Buffered(map, v), o)
<1> DEFINE D == Ids(w)
           e == v.chID
           u == Append(w, v)
           to == Buffered(map, v)
<1>1. /\ map \in [D -> Seq(Int)] /\ D \in SUBSET Nat /\ IsFiniteSet(D)
      /\ \A c \in Nat \ D : Pixels(w, c) = << >>
      /\ o \in Images(Int)
  BY DEF Converted, Buffers
<1>2. e \in Nat /\ v.samp \in Int /\ -v.samp \in Int
  BY DEF Words
<1>3. /\ u \in Seq(Words(nch)) /\ Ids(u) = D \cup {e}
      /\ \A c : Pixels(w, c) \in Seq(Int) /\ Pixels(u, c) \in Seq(Int)
      /\ \A c : Pixels(u, c) = IF e = c THEN Append(Pixels(w, c), -v.samp) ELSE Pixels(w, c)
  BY IdsAppend, PixelsAppend
<1>4. /\ to \in [D \cup {e} -> Seq(Int)]
      /\ \A c \in D \ {e} : to[c] = map[c]
      /\ e \in D => to[e] = Append(map[e], -v.samp)
      /\ e \notin D => to[e] = <<-v.samp>>
  <2>1. DOMAIN map = D
    BY <1>1
  <2>2. to = [c \in D \cup {e} |-> IF c # e THEN map[c]
                                   ELSE IF c \in D THEN Append(map[c], -v.samp) ELSE <<-v.samp>>]
    BY <2>1, Zenon DEF Buffered, Channels
  <2>3. \A c \in D : Append(map[c], -v.samp) \in Seq(Int)
    BY <1>1, <1>2, AppendProperties
  <2>4. <<-v.samp>> \in Seq(Int)
    BY <1>2
  <2> HIDE DEF to, D, e
  <2> QED
    BY <1>1, <2>2, <2>3, <2>4
<1> HIDE DEF to, u
<1>5. /\ IsFiniteSet(D \cup {e}) /\ Cardinality(D) \in Nat
      /\ Cardinality(D \cup {e}) = IF e \in D THEN Cardinality(D) ELSE Cardinality(D) + 1
  BY <1>1, FS_AddElement, FS_CardinalityType
<1>6. Buffers(u, to)
  BY <1>1, <1>2, <1>3, <1>4, <1>5 DEF Buffers
<1>7. ASSUME Waiting(w, map, o)
      PROVE  Waiting(u, to, o)
  <2>1. \A c \in D \cup {e} : to[c] = Pixels(u, c)
    <3> SUFFICES ASSUME NEW c \in D \cup {e} PROVE to[c] = Pixels(u, c)
      OBVIOUS
    <3>1. CASE c # e
      BY <1>3, <1>4, <1>7, <3>1 DEF Waiting
    <3>2. CASE c = e /\ e \in D
      BY <1>3, <1>4, <1>7, <3>2 DEF Waiting
    <3>3. CASE c = e /\ e \notin D
      <4>1. Pixels(u, c) = Append(<< >>, -v.samp)
        BY <1>1, <1>2, <1>3, <3>3
      <4>2. Append(<< >>, -v.samp) = <<-v.samp>>
        OBVIOUS
      <4> QED
        BY <1>4, <3>3, <4>1, <4>2
    <3> QED
      BY <3>1, <3>2, <3>3
  <2> QED
    BY <1>3, <1>7, <2>1 DEF Waiting
<1>8. ASSUME Cardinality(D \cup {e}) = NumChannels
      PROVE  Writing(u, to, o)
  <2>1. CASE e \in D
    <3>1. Writing(w, map, o) /\ D \cup {e} = D
      BY <1>5, <1>8, <2>1 DEF Converted
    <3>2. ASSUME NEW c \in D PROVE WrittenPart(o, Place(D, c), Pixels(u, c), to[c])
      <4>1. WrittenPart(o, Place(D, c), Pixels(w, c), map[c]) /\ map[c] \in Seq(Int)
        BY <1>1, <3>1 DEF Writing
      <4>2. CASE c = e
        <5> DEFINE s == -v.samp
                   x == Pixels(w, c)
                   rest == map[c]
                   h == Place(D, c)
        <5>1. /\ s \in Int /\ rest \in Seq(Int) /\ WrittenPart(o, h, x, rest)
              /\ Pixels(u, c) = Append(x, s) /\ to[c] = Append(rest, s)
          BY <1>2, <1>3, <1>4, <2>1, <4>1, <4>2
        <5> HIDE DEF s, x, rest, h
        <5>2. WrittenPart(o, h, Append(x, s), Append(rest, s))
          BY <5>1, RestGrows
        <5> QED
          BY <5>1, <5>2 DEF h
      <4>3. CASE c # e
        BY <1>3, <1>4, <4>1, <4>3
      <4> QED
        BY <4>2, <4>3
    <3> QED
      BY <1>3, <3>1, <3>2 DEF Writing
  <2>2. CASE e \notin D
    <3>1. Cardinality(D) < NumChannels
      BY <1>5, <1>8, <2>2, ReaderAssumption
    <3>2. Waiting(u, to, o)
      BY <1>7, <3>1 DEF Converted
    <3>3. D \cup {e} \in SUBSET Nat
      BY <1>1, <1>2
    <3> DEFINE E == D \cup {e}
    <3>a. E \in SUBSET Nat /\ IsFiniteSet(E) /\ Cardinality(E) = NumChannels /\ Ids(u) = E
      BY <1>3, <1>5, <1>8, <3>3
    <3> HIDE DEF E
    <3>4. ASSUME NEW c \in E
          PROVE  WrittenPart(o, Place(E, c), Pixels(u, c), to[c])
      <4>1. Place(E, c) \in F!HDUs
        BY <3>a, PlacesOfNumbers DEF F!HDUs
      <4>2. Pixels(u, c) \in Seq(Int) /\ to[c] = Pixels(u, c)
        BY <1>3, <3>2, <3>a DEF Waiting
      <4>3. o.pixelCounts[Place(E, c)] = 0 /\ o.data[Place(E, c)] = << >>
        BY <3>2, <4>1 DEF Waiting, Blank
      <4> QED
        BY <1>1, <4>1, <4>2, <4>3, NothingWritten
    <3> QED
      BY <3>a, <3>4 DEF Writing
  <2> QED
    BY <2>1, <2>2
<1>9. Cardinality(D \cup {e}) < NumChannels => Waiting(u, to, o)
  BY <1>5, <1>7, ReaderAssumption DEF Converted
<1> HIDE DEF D, e
<1> QED
  BY <1>1, <1>3, <1>6, <1>8, <1>9 DEF Converted, u, to

(* The buffers are written.                                                *)
LEMMA BuffersWritten ==
  ASSUME NEW nch \in Nat, NEW w \in Seq(Words(nch)), NEW map, NEW o, NEW hdu, NEW none,
         Converted(w, map, o), Cardinality(Ids(w)) = NumChannels,
         hdu = [c \in Channels(map) |-> HduOf(map, c)],
         none = [c \in Channels(map) |-> << >>]
  PROVE  Converted(w, none, dump_channels(o, hdu, map))
<1> DEFINE D == Ids(w)
           r == dump_channels(o, hdu, map)
<1>1. /\ map \in [D -> Seq(Int)] /\ D \in SUBSET Nat /\ IsFiniteSet(D)
      /\ Cardinality(D) = NumChannels
      /\ o \in Images(Int) /\ Writing(w, map, o)
  BY DEF Converted, Buffers
<1>2. Channels(map) = D /\ \A c \in D : HduOf(map, c) = Place(D, c)
  BY <1>1 DEF Channels, HduOf, Place
<1>3. \A c \in D : Place(D, c) \in F!HDUs
  BY <1>1, PlacesOfNumbers DEF F!HDUs
<1>4. /\ hdu \in [D -> F!HDUs] /\ EachItsOwn(hdu, D)
      /\ \A c \in D : hdu[c] = Place(D, c)
  <2>1. \A c \in D : hdu[c] = Place(D, c)
    BY <1>2
  <2>2. hdu \in [D -> F!HDUs]
    BY <1>2, <1>3
  <2>3. \A b, c \in D : Place(D, b) = Place(D, c) => b = c
    BY <1>1, PlacesOfNumbers
  <2> QED
    BY <2>1, <2>2, <2>3 DEF EachItsOwn
<1>5. r \in Images(Int) /\ Dumped(r, o, D, hdu, map)
  <2> HIDE DEF D
  <2> QED
    BY <1>1, <1>4, DumpChannels
<1>6. none \in [D -> Seq(Int)] /\ \A c \in D : none[c] = << >>
  <2>1. << >> \in Seq(Int)
    BY EmptySeq
  <2> HIDE DEF D
  <2> QED
    BY <1>2, <2>1
<1> HIDE DEF r
<1>7. ASSUME NEW c \in D PROVE WrittenPart(r, Place(D, c), Pixels(w, c), none[c])
  <2>1. WrittenPart(o, Place(D, c), Pixels(w, c), map[c])
    BY <1>1 DEF Writing
  <2> DEFINE h == Place(D, c)
             x == Pixels(w, c)
             rest == map[c]
  <2>2. /\ r.pixExpected = o.pixExpected
        /\ r.pixelCounts[h] = o.pixelCounts[h] + Len(rest)
        /\ r.data[h] = o.data[h] \o F!Written(o, h, rest)
    BY <1>4, <1>5 DEF Dumped
  <2>3. h \in F!HDUs /\ rest \in Seq(Int) /\ WrittenPart(o, h, x, rest)
    BY <1>1, <1>3, <2>1
  <2> HIDE DEF h, x, rest, D
  <2>4. WrittenPart(r, h, x, << >>)
    BY <1>1, <2>2, <2>3, RestWritten
  <2> QED
    BY <1>6, <2>4 DEF h, x
<1>8. Buffers(w, none)
  BY <1>6 DEF Buffers, Converted
<1>9. Writing(w, none, r)
  BY <1>7 DEF Writing
<1>10. ~(Cardinality(D) < NumChannels)
  BY <1>1, ReaderAssumption
<1> QED
  BY <1>5, <1>8, <1>9, <1>10 DEF Converted, r

-----------------------------------------------------------------------------
(* The words the reader has passed.                                        *)

Taken(s, k) == FlattenSeq([i \in 1 .. k |-> s[i]])

LEMMA TakeNone == ASSUME NEW s PROVE Taken(s, 0) = << >>
<1>1. [i \in 1 .. 0 |-> s[i]] = << >>
  <2>1. 1 .. 0 = {}
    OBVIOUS
  <2> QED
    BY <2>1
<1> QED
  BY <1>1, FlattenNone DEF Taken

LEMMA TakeAll == ASSUME NEW S, NEW s \in Seq(S) PROVE Taken(s, Len(s)) = FlattenSeq(s)
<1>1. s = [i \in 1 .. Len(s) |-> s[i]]
  BY LenProperties
<1> QED
  BY <1>1 DEF Taken

LEMMA TakeMore ==
  ASSUME NEW S, NEW s \in Seq(Seq(S)), NEW k \in 0 .. Len(s) - 1
  PROVE  /\ Taken(s, k) \in Seq(S) /\ s[k + 1] \in Seq(S)
         /\ Taken(s, k + 1) = Taken(s, k) \o s[k + 1]
<1> DEFINE t == [i \in 1 .. k |-> s[i]]
           u == [i \in 1 .. k + 1 |-> s[i]]
           x == s[k + 1]
<1>1. Len(s) \in Nat /\ k \in Nat /\ k + 1 \in 1 .. Len(s) /\ \A i \in 1 .. k : i \in 1 .. Len(s)
  BY LenProperties
<1>2. x \in Seq(S) /\ t \in Seq(Seq(S)) /\ Len(t) = k
  BY <1>1, ElementOfSeq
<1>3. u = Append(t, x)
  <2>1. /\ Append(t, x) \in Seq(Seq(S)) /\ Len(Append(t, x)) = k + 1
        /\ \A i \in 1 .. k : Append(t, x)[i] = t[i]
        /\ Append(t, x)[k + 1] = x
    BY <1>2, AppendProperties
  <2>2. u \in Seq(Seq(S)) /\ Len(u) = k + 1
    <3>1. \A i \in 1 .. k + 1 : i \in 1 .. Len(s)
      BY <1>1
    <3>2. \A i \in 1 .. k + 1 : s[i] \in Seq(S)
      BY <3>1, ElementOfSeq
    <3> QED
      BY <1>1, <3>2
  <2>3. ASSUME NEW i \in 1 .. k + 1 PROVE u[i] = Append(t, x)[i]
    <3>1. i \in 1 .. k \/ i = k + 1
      BY <1>1
    <3> QED
      BY <2>1, <3>1
  <2> HIDE DEF t, u, x
  <2> QED
    BY <2>1, <2>2, <2>3, SeqEqual
<1> HIDE DEF t, u, x
<1>4. FlattenSeq(u) = FlattenSeq(t) \o x /\ FlattenSeq(t) \in Seq(S)
  BY <1>2, <1>3, FlattenAppend, FlattenType
<1> QED
  BY <1>2, <1>4 DEF Taken, t, u, x

PacketWords(f) == [p \in DOMAIN files[f] |-> files[f][p].words]
FileWords == [f \in DOMAIN files |-> FlattenSeq(PacketWords(f))]

Passed ==
  IF rd.end THEN Recorded
  ELSE Taken(FileWords, rd.iFile - 1) \o Taken(PacketWords(rd.iFile), rd.packet - 1)

LEMMA FilesOfWords ==
  ASSUME NEW nch, files \in Seq(Seq(Packets(nch)))
  PROVE  /\ FileWords \in Seq(Seq(Words(nch))) /\ Len(FileWords) = Len(files)
         /\ Recorded = FlattenSeq(FileWords)
         /\ \A f \in 1 .. Len(files) :
              /\ PacketWords(f) \in Seq(Seq(Words(nch))) /\ Len(PacketWords(f)) = Len(files[f])
              /\ FileWords[f] = FlattenSeq(PacketWords(f))
              /\ \A p \in 1 .. Len(files[f]) : PacketWords(f)[p] = files[f][p].words
<1>1. Len(files) \in Nat /\ DOMAIN files = 1 .. Len(files)
  BY LenProperties
<1>2. ASSUME NEW f \in 1 .. Len(files)
      PROVE  /\ PacketWords(f) \in Seq(Seq(Words(nch))) /\ Len(PacketWords(f)) = Len(files[f])
             /\ \A p \in 1 .. Len(files[f]) : PacketWords(f)[p] = files[f][p].words
  <2> DEFINE s == files[f]
  <2>1. s \in Seq(Packets(nch))
    BY ElementOfSeq
  <2> HIDE DEF s
  <2>2. Len(s) \in Nat /\ DOMAIN s = 1 .. Len(s) /\ \A p \in 1 .. Len(s) : s[p] \in Packets(nch)
    BY <2>1, LenProperties, ElementOfSeq
  <2>3. \A p \in 1 .. Len(s) : s[p].words \in Seq(Words(nch))
    BY <2>2 DEF Packets
  <2>4. PacketWords(f) = [p \in 1 .. Len(s) |-> s[p].words]
    BY <2>2 DEF PacketWords, s
  <2>5. PacketWords(f) \in Seq(Seq(Words(nch))) /\ Len(PacketWords(f)) = Len(s)
    BY <2>2, <2>3, <2>4
  <2> QED
    BY <2>4, <2>5 DEF s
<1>3. \A f \in 1 .. Len(files) : FlattenSeq(PacketWords(f)) \in Seq(Words(nch))
  BY <1>2, FlattenType
<1>4. FileWords = [f \in 1 .. Len(files) |-> FlattenSeq(PacketWords(f))]
  BY <1>1 DEF FileWords
<1>5. FileWords \in Seq(Seq(Words(nch))) /\ Len(FileWords) = Len(files)
  BY <1>1, <1>3, <1>4
<1>6. Recorded = FlattenSeq(FileWords)
  BY Zenon DEF Recorded, FileWords, PacketWords
<1> QED
  BY <1>2, <1>4, <1>5, <1>6

(* Where the reader may stop, and the words it has handed out.             *)
ReaderPlace ==
  /\ ~rd.end => rd.packet <= Len(files[rd.iFile]) + 1
  /\ rd.end => rd.buffer = << >>

HandedOut(w) == w \in Seq(Words(job.nch)) /\ w \o rd.buffer = Passed

LEMMA PassedFresh ==
  ASSUME ReaderInv, rd = NewReader
  PROVE  ReaderPlace /\ HandedOut(<< >>)
<1>1. rd.iFile = 1 /\ rd.packet = 1 /\ rd.end = FALSE /\ rd.buffer = << >>
  BY DEF NewReader
<1>2. files[1] \in Seq(Packets(job.nch)) /\ Len(files[1]) \in Nat
  <2>1. 1 \in 1 .. Len(files) /\ files \in Seq(Seq(Packets(job.nch)))
    BY <1>1 DEF ReaderInv
  <2>2. files[1] \in Seq(Packets(job.nch))
    BY <2>1, ElementOfSeq
  <2> QED
    BY <2>2, LenProperties
<1>3. Passed = Taken(FileWords, 0) \o Taken(PacketWords(1), 0)
  BY <1>1 DEF Passed
<1>4. << >> \in Seq(Words(job.nch)) /\ << >> \o << >> = << >>
  BY EmptySeq, ConcatEmptySeq
<1>5. Passed = << >>
  BY <1>3, <1>4, TakeNone
<1> QED
  BY <1>1, <1>2, <1>4, <1>5 DEF ReaderPlace, HandedOut

LEMMA PassedAgain == (ReaderInv /\ rd = NewReader)' => (ReaderPlace /\ HandedOut(<< >>))'
<1>1. ReaderInv /\ rd = NewReader => ReaderPlace /\ HandedOut(<< >>)
  BY PassedFresh
<1> QED
  BY <1>1, PTL

LEMMA PassedNextFile ==
  ASSUME ReaderInv, ReaderPlace, NextFile, UNCHANGED job
  PROVE  ReaderPlace' /\ \A w : HandedOut(w) => HandedOut(w)'
<1> DEFINE f == rd.iFile
           N == Len(files)
           W == Words(job.nch)
<1>1. /\ ~rd.end /\ rd.buffer = << >> /\ f \in 1 .. N /\ rd.packet = Len(files[f]) + 1
      /\ Len(files[f]) \in Nat /\ N \in Nat /\ files \in Seq(Seq(Packets(job.nch)))
  <2>1. /\ ~rd.end /\ rd.buffer = << >> /\ f \in 1 .. N /\ rd.packet > Len(files[f])
        /\ rd.packet <= Len(files[f]) + 1 /\ rd.packet \in Nat
        /\ files \in Seq(Seq(Packets(job.nch)))
    BY DEF ReaderInv, ReaderPlace, NextFile, NeedsData, Readers
  <2>2. files[f] \in Seq(Packets(job.nch))
    BY <2>1, ElementOfSeq
  <2>3. Len(files[f]) \in Nat /\ N \in Nat
    BY <2>1, <2>2, LenProperties
  <2> QED
    BY <2>1, <2>3
<1>2. /\ files' = files /\ rd'.iFile = f + 1 /\ rd'.packet = 1 /\ rd'.buffer = << >>
      /\ rd'.end <=> f = N
  <2> DEFINE last == f = N
  <2>1. files' = files /\ rd' = [rd EXCEPT !.iFile = @ + 1, !.packet = 1, !.end = last]
    BY DEF NextFile
  <2>2. rd \in Readers(job.nch)
    BY DEF ReaderInv
  <2> HIDE DEF last
  <2>3. files' = files /\ rd'.iFile = f + 1 /\ rd'.packet = 1 /\ rd'.buffer = << >> /\ rd'.end = last
    BY <1>1, <2>1, <2>2 DEF Readers
  <2>4. rd'.end <=> f = N
    BY <2>3, Zenon DEF last
  <2> QED
    BY <2>3, <2>4
<1>3. /\ FileWords \in Seq(Seq(W)) /\ Len(FileWords) = N /\ Recorded = FlattenSeq(FileWords)
      /\ PacketWords(f) \in Seq(Seq(W)) /\ Len(PacketWords(f)) = Len(files[f])
      /\ FileWords[f] = FlattenSeq(PacketWords(f))
  BY <1>1, FilesOfWords
<1>4. Passed = Taken(FileWords, f)
  <2>1. Passed = Taken(FileWords, f - 1) \o Taken(PacketWords(f), Len(files[f]))
    <3>1. rd.packet - 1 = Len(files[f])
      BY <1>1
    <3> QED
      BY <1>1, <3>1 DEF Passed
  <2>2. Taken(PacketWords(f), Len(files[f])) = FileWords[f]
    BY <1>3, TakeAll
  <2>3. f - 1 \in 0 .. Len(FileWords) - 1 /\ (f - 1) + 1 = f
    BY <1>1, <1>3
  <2>4. Taken(FileWords, (f - 1) + 1) = Taken(FileWords, f - 1) \o FileWords[(f - 1) + 1]
    BY <1>3, <2>3, TakeMore
  <2> QED
    BY <2>1, <2>2, <2>3, <2>4
<1>5. UNCHANGED <<Recorded, FileWords>> /\ \A g : PacketWords(g)' = PacketWords(g)
  BY <1>2 DEF Recorded, FileWords, PacketWords
<1>6. Passed' = Passed
  <2>1. CASE f = N
    <3>1. Passed' = Recorded
      BY <1>2, <1>5, <2>1 DEF Passed
    <3>2. Taken(FileWords, N) = FlattenSeq(FileWords)
      BY <1>3, TakeAll
    <3> QED
      BY <1>3, <1>4, <2>1, <3>1, <3>2
  <2>2. CASE f # N
    <3>1. Passed' = Taken(FileWords, (f + 1) - 1) \o Taken(PacketWords(f + 1), 1 - 1)
      BY <1>2, <1>5, <2>2 DEF Passed
    <3>2. (f + 1) - 1 = f /\ 1 - 1 = 0 /\ f \in 0 .. Len(FileWords) - 1
      BY <1>1, <1>3, <2>2
    <3>3. Taken(FileWords, f) \in Seq(W)
      BY <1>3, <3>2, TakeMore
    <3> QED
      BY <1>4, <3>1, <3>2, <3>3, TakeNone, ConcatEmptySeq
  <2> QED
    BY <2>1, <2>2
<1>7. ReaderPlace'
  <2>1. CASE f = N
    BY <1>2, <2>1 DEF ReaderPlace
  <2>2. CASE f # N
    <3>1. f + 1 \in 1 .. N
      BY <1>1, <2>2
    <3>2. files[f + 1] \in Seq(Packets(job.nch))
      BY <1>1, <3>1, ElementOfSeq
    <3>3. Len(files[f + 1]) \in Nat
      BY <3>2, LenProperties
    <3> QED
      BY <1>2, <2>2, <3>3 DEF ReaderPlace
  <2> QED
    BY <2>1, <2>2
<1>8. rd'.buffer = rd.buffer /\ job' = job
  BY <1>1, <1>2
<1> QED
  BY <1>6, <1>7, <1>8 DEF HandedOut

LEMMA PassedReadPacket ==
  ASSUME ReaderInv, ReaderPlace, ReadPacket, UNCHANGED job
  PROVE  ReaderPlace' /\ \A w : HandedOut(w) => HandedOut(w)'
<1> DEFINE f == rd.iFile
           p == rd.packet
           x == files[f][p].words
           W == Words(job.nch)
<1>1. /\ ~rd.end /\ rd.buffer = << >> /\ f \in 1 .. Len(files) /\ p \in 1 .. Len(files[f])
      /\ Len(files[f]) \in Nat /\ files \in Seq(Seq(Packets(job.nch)))
  <2>1. /\ ~rd.end /\ rd.buffer = << >> /\ f \in 1 .. Len(files) /\ p <= Len(files[f])
        /\ p \in Nat \ {0} /\ files \in Seq(Seq(Packets(job.nch)))
    BY DEF ReaderInv, ReadPacket, NeedsData, Readers
  <2>2. files[f] \in Seq(Packets(job.nch))
    BY <2>1, ElementOfSeq
  <2>3. Len(files[f]) \in Nat
    BY <2>2, LenProperties
  <2> QED
    BY <2>1, <2>3
<1>2. /\ files' = files /\ rd'.iFile = f /\ rd'.packet = p + 1 /\ rd'.buffer = x
      /\ rd'.end = rd.end
  BY DEF ReadPacket, ReaderInv, Readers
<1>3. /\ FileWords \in Seq(Seq(W)) /\ Len(FileWords) = Len(files)
      /\ PacketWords(f) \in Seq(Seq(W)) /\ Len(PacketWords(f)) = Len(files[f])
      /\ PacketWords(f)[p] = x
  BY <1>1, FilesOfWords
<1> HIDE DEF x
<1> DEFINE A == Taken(FileWords, f - 1)
           B == Taken(PacketWords(f), p - 1)
<1>4. Passed = A \o B
  BY <1>1 DEF Passed
<1>5. A \in Seq(W)
  <2>1. f - 1 \in 0 .. Len(FileWords) - 1
    BY <1>1, <1>3
  <2> QED
    BY <1>3, <2>1, TakeMore
<1>6. B \in Seq(W) /\ x \in Seq(W) /\ Taken(PacketWords(f), p) = B \o x
  <2> DEFINE n == Len(files[f])
  <2>a. n \in Nat /\ p \in 1 .. n /\ Len(PacketWords(f)) = n
    BY <1>1, <1>3
  <2>b. p - 1 \in 0 .. n - 1 /\ (p - 1) + 1 = p
    <3> HIDE DEF n, p
    <3> QED
      BY <2>a
  <2>1. p - 1 \in 0 .. Len(PacketWords(f)) - 1 /\ (p - 1) + 1 = p
    <3> HIDE DEF n, p
    <3> QED
      BY <2>a, <2>b
  <2>2. /\ B \in Seq(W) /\ PacketWords(f)[(p - 1) + 1] \in Seq(W)
        /\ Taken(PacketWords(f), (p - 1) + 1) = B \o PacketWords(f)[(p - 1) + 1]
    BY <1>3, <2>1, TakeMore
  <2> QED
    BY <1>3, <2>1, <2>2
<1>7. UNCHANGED FileWords /\ \A g : PacketWords(g)' = PacketWords(g)
  BY <1>2 DEF FileWords, PacketWords
<1>8. Passed' = A \o (B \o x)
  <2>1. (p + 1) - 1 = p
    BY <1>1
  <2>2. Passed' = Taken(FileWords, f - 1) \o Taken(PacketWords(f), (p + 1) - 1)
    BY <1>1, <1>2, <1>7 DEF Passed
  <2> QED
    BY <1>6, <2>1, <2>2
<1>9. ReaderPlace'
  BY <1>1, <1>2 DEF ReaderPlace
<1> HIDE DEF A, B
<1>10. ASSUME NEW w, HandedOut(w) PROVE HandedOut(w)'
  <2>1. w \in Seq(W) /\ w \o << >> = A \o B
    BY <1>1, <1>4, <1>10 DEF HandedOut
  <2>2. w = A \o B
    BY <2>1, ConcatEmptySeq
  <2>3. w \o x = A \o (B \o x)
    BY <1>5, <1>6, <2>2, ConcatAssociative
  <2> QED
    BY <1>2, <1>8, <2>1, <2>3 DEF HandedOut
<1> QED
  BY <1>9, <1>10

LEMMA PassedPopWord ==
  ASSUME ReaderInv, ReaderPlace, HasWord, PopWord, UNCHANGED job
  PROVE  /\ ReaderPlace' /\ NextWord \in Words(job.nch)
         /\ \A w, v : HandedOut(w) /\ v = NextWord => HandedOut(Append(w, v))'
<1> DEFINE b == rd.buffer
           W == Words(job.nch)
<1>1. b \in Seq(W) /\ b # << >> /\ ~rd.end
  BY DEF ReaderInv, Readers, HasWord, ReaderPlace
<1>2. /\ files' = files /\ rd'.iFile = rd.iFile /\ rd'.packet = rd.packet /\ rd'.buffer = Tail(b)
      /\ rd'.end = rd.end
  BY DEF PopWord, ReaderInv, Readers
<1>3. ReaderPlace'
  BY <1>1, <1>2 DEF ReaderPlace
<1>4. Passed' = Passed
  BY <1>2 DEF Passed, Recorded, FileWords, PacketWords
<1>a. rd.buffer = b
  OBVIOUS
<1> HIDE DEF b, W
<1>5. ASSUME NEW w \in Seq(W) PROVE Append(w, Head(b)) \in Seq(W) /\ Append(w, Head(b)) \o Tail(b) = w \o b
  <2>1. /\ Head(b) \in W /\ Tail(b) \in Seq(W) /\ Len(Tail(b)) = Len(b) - 1
        /\ \A i \in 1 .. Len(Tail(b)) : Tail(b)[i] = b[i + 1]
    BY <1>1, HeadTailProperties
  <2> DEFINE n == Len(w)
             m == Len(b)
             v == Head(b)
             s == Append(w, v) \o Tail(b)
             t == w \o b
  <2>2. n \in Nat /\ m \in Nat \ {0} /\ v = b[1]
    BY <1>1, EmptySeq, LenProperties
  <2>3. /\ Append(w, v) \in Seq(W) /\ Len(Append(w, v)) = n + 1
        /\ \A i \in 1 .. n : Append(w, v)[i] = w[i]
        /\ Append(w, v)[n + 1] = v
    BY <2>1, AppendProperties
  <2>4. /\ s \in Seq(W) /\ Len(s) = (n + 1) + (m - 1)
        /\ \A i \in 1 .. (n + 1) + (m - 1) :
             s[i] = IF i <= n + 1 THEN Append(w, v)[i] ELSE Tail(b)[i - (n + 1)]
    <3>1. /\ s \in Seq(W) /\ Len(s) = Len(Append(w, v)) + Len(Tail(b))
          /\ \A i \in 1 .. Len(Append(w, v)) + Len(Tail(b)) :
               s[i] = IF i <= Len(Append(w, v)) THEN Append(w, v)[i]
                      ELSE Tail(b)[i - Len(Append(w, v))]
      BY <2>1, <2>3, ConcatProperties
    <3> HIDE DEF s, n, m, v
    <3>2. Len(Tail(b)) = m - 1
      BY <2>1 DEF m
    <3> QED
      BY <2>3, <3>1, <3>2
  <2>5. /\ t \in Seq(W) /\ Len(t) = n + m
        /\ \A i \in 1 .. n + m : t[i] = IF i <= n THEN w[i] ELSE b[i - n]
    BY <1>1, ConcatProperties
  <2>6. \A i \in 1 .. m - 1 : Tail(b)[i] = b[i + 1]
    BY <2>1
  <2> HIDE DEF n, m, v, s, t
  <2>7. ASSUME NEW i \in 1 .. n + m PROVE s[i] = t[i]
    <3>0. i \in 1 .. (n + 1) + (m - 1)
      BY <2>2
    <3>1. CASE i <= n
      <4>1. i <= n + 1 /\ i \in 1 .. n
        BY <2>2, <3>1
      <4> QED
        BY <2>3, <2>4, <2>5, <3>0, <3>1, <4>1
    <3>2. CASE i = n + 1
      <4>1. i <= n + 1 /\ ~(i <= n) /\ i - n = 1
        BY <2>2, <3>2
      <4> QED
        BY <2>2, <2>3, <2>4, <2>5, <3>0, <3>2, <4>1
    <3>3. CASE i > n + 1
      <4>1. ~(i <= n + 1) /\ ~(i <= n) /\ i - (n + 1) \in 1 .. m - 1 /\ (i - (n + 1)) + 1 = i - n
        BY <2>2, <3>3
      <4>2. s[i] = Tail(b)[i - (n + 1)]
        BY <2>4, <3>0, <4>1
      <4>3. Tail(b)[i - (n + 1)] = b[(i - (n + 1)) + 1]
        BY <2>6, <4>1
      <4> QED
        BY <2>5, <4>1, <4>2, <4>3
    <3> QED
      BY <2>2, <3>1, <3>2, <3>3
  <2>8. Len(s) = Len(t) /\ \A i \in 1 .. Len(s) : s[i] = t[i]
    BY <2>2, <2>4, <2>5, <2>7
  <2>9. s = t
    BY <2>4, <2>5, <2>8, SeqEqual
  <2> QED
    BY <2>3, <2>9 DEF s, t, v
<1>6. NextWord = Head(b) /\ Head(b) \in W
  BY <1>1, <1>a, HeadTailProperties DEF NextWord
<1>7. ASSUME NEW w, NEW v, HandedOut(w), v = NextWord PROVE HandedOut(Append(w, v))'
  <2>1. w \in Seq(W) /\ w \o b = Passed
    BY <1>7, <1>a DEF HandedOut, W
  <2>2. Append(w, v) \in Seq(W) /\ Append(w, v) \o Tail(b) = Passed
    BY <1>5, <1>6, <1>7, <2>1
  <2> QED
    BY <1>2, <1>4, <2>2 DEF HandedOut, W
<1> QED
  BY <1>3, <1>6, <1>7 DEF W

-----------------------------------------------------------------------------
(* The image and the buffers hold what the reader has handed out; at the   *)
(* end the buffers are empty.                                              *)
AfterLoop == {"save_counts", "delete", "compress", "done"}

ImageInv ==
  /\ ReaderPlace
  /\ job.mode = "fits" => \E w : HandedOut(w) /\ Converted(w, pixelsVectorMap, outf)
  /\ job.mode = "fits" /\ phase \in AfterLoop =>
       /\ rd.end
       /\ Cardinality(Channels(pixelsVectorMap)) = NumChannels
            => \A c \in Channels(pixelsVectorMap) : pixelsVectorMap[c] = << >>

LEMMA NewImageBlank ==
  ASSUME NEW width \in Nat, NEW height \in Nat, NEW o, o = F!create_img(width, height)
  PROVE  o \in Images(Int) /\ Blank(o)
<1>1. << >> \in Seq(Int)
  BY EmptySeq
<1>2. width * height \in Nat
  OBVIOUS
<1> QED
  BY <1>1, <1>2 DEF F!create_img, Images, Blank

LEMMA ImageInit == ASSUME Init PROVE ImageInv
<1>1. ReaderInv /\ JobInv /\ rd = NewReader
  BY InitInv DEF Init, Inv
<1>2. ReaderPlace /\ HandedOut(<< >>)
  BY <1>1, PassedFresh
<1>3. phase = "read" /\ pixelsVectorMap = << >>
  BY DEF Init
<1>4. job.mode = "fits" => Converted(<< >>, pixelsVectorMap, outf)
  <2> SUFFICES ASSUME job.mode = "fits" PROVE Converted(<< >>, pixelsVectorMap, outf)
    OBVIOUS
  <2>1. outf = F!create_img(job.nCols, job.nRows)
    BY DEF Init, NewImage
  <2>2. job.nCols \in Nat /\ job.nRows \in Nat
    BY <1>1 DEF JobInv
  <2>3. outf \in Images(Int) /\ Blank(outf)
    BY <2>1, <2>2, NewImageBlank
  <2> QED
    BY <1>3, <2>3, NoWords
<1> QED
  BY <1>2, <1>3, <1>4 DEF ImageInv, AfterLoop

LEMMA FewerChannels == \A n \in Nat : n < NumChannels => n # NumChannels
BY ReaderAssumption

(* The end of an iteration.                                                *)
LEMMA Flushed ==
  ASSUME NEW nch \in Nat, NEW w \in Seq(Words(nch)), NEW map, NEW full, NEW buffered, NEW next,
         Converted(w, map, outf), FlushIf(full, map, buffered, next), next # "too many channels"
  PROVE  /\ Converted(w, pixelsVectorMap, outf)'
         /\ full /\ phase' = next /\ Cardinality(Channels(pixelsVectorMap')) = NumChannels
              => \A c \in Channels(pixelsVectorMap') : pixelsVectorMap'[c] = << >>
<1> DEFINE n == Cardinality(Channels(map))
<1>1. Channels(map) = Ids(w) /\ n \in Nat
  <2>1. map \in [Ids(w) -> Seq(Int)] /\ IsFiniteSet(Ids(w))
    BY DEF Converted, Buffers
  <2>2. Channels(map) = Ids(w)
    BY <2>1 DEF Channels
  <2> QED
    BY <2>1, <2>2, FS_CardinalityType
<1>a. n < NumChannels => n # NumChannels
  BY <1>1, FewerChannels, Zenon
<1>2. CASE /\ full /\ n = NumChannels
           /\ Flush(map) /\ bufferedWords' = 0 /\ phase' = next
  <2>1. /\ outf' = dump_channels(outf, [c \in Channels(map) |-> HduOf(map, c)], map)
        /\ pixelsVectorMap' = [c \in Channels(map) |-> << >>]
    BY <1>2 DEF Flush
  <2> DEFINE hdu == [c \in Channels(map) |-> HduOf(map, c)]
             none == [c \in Channels(map) |-> << >>]
  <2>2. hdu = [c \in Channels(map) |-> HduOf(map, c)] /\ none = [c \in Channels(map) |-> << >>]
        /\ outf' = dump_channels(outf, hdu, map) /\ pixelsVectorMap' = none
    BY <2>1
  <2> HIDE DEF hdu, none
  <2>3. Cardinality(Ids(w)) = NumChannels
    BY <1>1, <1>2
  <2>4. Converted(w, none, dump_channels(outf, hdu, map))
    BY <2>2, <2>3, BuffersWritten
  <2>5. \A c \in Channels(none) : none[c] = << >>
    BY <2>2 DEF Channels
  <2> QED
    BY <2>2, <2>4, <2>5
<1>3. CASE /\ full /\ n > NumChannels
           /\ pixelsVectorMap' = map /\ bufferedWords' = buffered /\ UNCHANGED outf
           /\ phase' = "too many channels"
  BY <1>3
<1>4. CASE /\ ~full \/ n < NumChannels
           /\ pixelsVectorMap' = map /\ bufferedWords' = buffered /\ UNCHANGED outf
           /\ phase' = next
  <2>1. full => n < NumChannels
    <3> HIDE DEF n
    <3> QED
      BY <1>4, Zenon
  <2> QED
    BY <1>4, <1>a, <2>1
<1> QED
  BY <1>2, <1>3, <1>4 DEF FlushIf

LEMMA ImageStep == ASSUME Inv, ImageInv, [Next]_vars PROVE ImageInv'
<1> USE DEF AfterLoop
<1>0. ReaderInv /\ JobInv /\ ReaderPlace /\ job.nch \in Nat /\ phase \in Running \cup Ended
  BY DEF Inv, ImageInv, JobInv
<1>1. CASE Read
  <2>1. UNCHANGED <<job, phase, pixelsVectorMap, outf>> /\ phase = "read" /\ (NextFile \/ ReadPacket)
    BY <1>1 DEF Read, imageVars
  <2>2. ReaderPlace' /\ \A w : HandedOut(w) => HandedOut(w)'
    BY <1>0, <2>1, PassedNextFile, PassedReadPacket
  <2>3. \A w : Converted(w, pixelsVectorMap, outf) => Converted(w, pixelsVectorMap, outf)'
    BY <2>1
  <2> QED
    BY <2>1, <2>2, <2>3 DEF ImageInv
<1>2. CASE FitsWord
  <2>1. /\ HasWord /\ PopWord /\ UNCHANGED job /\ job.mode = "fits"
        /\ FlushIf(bufferedWords + 1 >= ChunkSize, Buffered(pixelsVectorMap, NextWord),
                   bufferedWords + 1, "read")
    BY <1>2 DEF FitsWord, FitsLeft, InLoop
  <2>2. phase' \notin AfterLoop
    BY <2>1 DEF FlushIf
  <2>3. /\ ReaderPlace' /\ NextWord \in Words(job.nch)
        /\ \A w, v : HandedOut(w) /\ v = NextWord => HandedOut(Append(w, v))'
    BY <1>0, <2>1, PassedPopWord
  <2>4. PICK w : HandedOut(w) /\ Converted(w, pixelsVectorMap, outf)
    BY <2>1 DEF ImageInv
  <2>5. PICK v : v = NextWord
    OBVIOUS
  <2>6. w \in Seq(Words(job.nch)) /\ v \in Words(job.nch)
    BY <2>3, <2>4, <2>5 DEF HandedOut
  <2>7. Converted(Append(w, v), Buffered(pixelsVectorMap, v), outf)
    BY <1>0, <2>4, <2>6, WordBuffered
  <2>8. Append(w, v) \in Seq(Words(job.nch))
    BY <2>6, AppendProperties
  <2>9. Converted(Append(w, v), pixelsVectorMap, outf)'
    <3> DEFINE full == bufferedWords + 1 >= ChunkSize
               map == Buffered(pixelsVectorMap, v)
               buffered == bufferedWords + 1
    <3>1. FlushIf(full, map, buffered, "read") /\ Converted(Append(w, v), map, outf)
      BY <2>1, <2>5, <2>7
    <3> HIDE DEF full, map, buffered
    <3> QED
      BY <1>0, <2>8, <3>1, Flushed
  <2>10. HandedOut(Append(w, v))'
    BY <2>3, <2>4, <2>5
  <2> QED
    BY <2>2, <2>3, <2>9, <2>10 DEF ImageInv
<1>3. CASE FitsEnd
  <2>1. /\ rd.end /\ UNCHANGED <<readerVars, job>> /\ job.mode = "fits"
        /\ FlushIf(TRUE, pixelsVectorMap, bufferedWords, "save_counts")
    BY <1>3 DEF FitsEnd, FitsLeft, AtEnd
  <2>2. phase' \in {"save_counts", "too many channels"}
    BY <2>1 DEF FlushIf
  <2>3. PICK w : HandedOut(w) /\ Converted(w, pixelsVectorMap, outf)
    BY <2>1 DEF ImageInv
  <2>4. w \in Seq(Words(job.nch))
    BY <2>3 DEF HandedOut
  <2>5. /\ Converted(w, pixelsVectorMap, outf)'
        /\ phase' = "save_counts" /\ Cardinality(Channels(pixelsVectorMap')) = NumChannels
              => \A c \in Channels(pixelsVectorMap') : pixelsVectorMap'[c] = << >>
    BY <1>0, <2>1, <2>3, <2>4, Flushed
  <2>6. HandedOut(w)' /\ ReaderPlace' /\ rd'.end
    BY <1>0, <2>1, <2>3 DEF HandedOut, Passed, Recorded, FileWords, PacketWords, ReaderPlace,
                            readerVars
  <2> QED
    BY <2>2, <2>5, <2>6 DEF ImageInv
<1>4. CASE SaveCounts \/ DeleteDats \/ CompressFits \/ Kill
  <2>1. UNCHANGED <<readerVars, job, pixelsVectorMap, outf>>
    BY <1>4 DEF SaveCounts, DeleteDats, CompressFits, Kill, imageVars
  <2>2. phase' \in AfterLoop => phase \in AfterLoop
    BY <1>4 DEF SaveCounts, DeleteDats, CompressFits, Kill
  <2>3. ReaderPlace' /\ \A w : HandedOut(w) => HandedOut(w)'
    BY <1>0, <2>1 DEF HandedOut, Passed, Recorded, FileWords, PacketWords, ReaderPlace, readerVars
  <2>4. \A w : Converted(w, pixelsVectorMap, outf) => Converted(w, pixelsVectorMap, outf)'
    BY <2>1
  <2> QED
    BY <2>1, <2>2, <2>3, <2>4 DEF ImageInv, readerVars
<1>5. ASSUME NEW mode, mode # "fits", InLoop(mode), UNCHANGED job PROVE ImageInv'
  <2>1. HasWord /\ PopWord /\ job.mode # "fits"
    BY <1>5 DEF InLoop
  <2>2. ReaderPlace'
    BY <1>0, <1>5, <2>1, PassedPopWord
  <2> QED
    BY <1>5, <2>1, <2>2 DEF ImageInv
<1>6. CASE MisplaceWord \/ InterleavingWord \/ SmartWord \/ RawWord \/ CalibrateWord
  BY <1>5, <1>6 DEF MisplaceWord, InterleavingWord, SmartWord, RawWord, CalibrateWord, PlaceWord
<1>7. CASE InterleavingEnd \/ SmartEnd \/ RawEnd \/ CalibrateEnd
  <2>1. UNCHANGED <<readerVars, job>> /\ job.mode # "fits"
    BY <1>7 DEF InterleavingEnd, SmartEnd, RawEnd, CalibrateEnd, AtEnd
  <2> QED
    BY <1>0, <2>1 DEF ImageInv, ReaderPlace, readerVars
<1>8. CASE readOldDatFiles
  <2>1. /\ rd' = NewReader /\ pixelsVectorMap' = << >> /\ phase' = "read"
        /\ outf' = F!create_img(job.nCols, job.nRows)
    BY <1>8 DEF readOldDatFiles
  <2>2. ReaderInv'
    BY ReaderInvStep
  <2>3. ReaderPlace' /\ HandedOut(<< >>)'
    <3>1. NewReader' = NewReader
      BY DEF NewReader
    <3> QED
      BY <2>1, <2>2, <3>1, PassedAgain
  <2>4. job.nCols \in Nat /\ job.nRows \in Nat
    BY <1>0 DEF JobInv
  <2>5. outf' \in Images(Int) /\ Blank(outf')
    BY <2>1, <2>4, NewImageBlank
  <2>6. Converted(<< >>, pixelsVectorMap, outf)'
    BY <2>1, <2>5, NoWords
  <2> QED
    BY <2>1, <2>3, <2>6 DEF ImageInv
<1>9. CASE UNCHANGED vars
  <2>1. UNCHANGED <<readerVars, job, phase, pixelsVectorMap, outf>>
    BY <1>9 DEF vars, imageVars
  <2>2. ReaderPlace' /\ \A w : HandedOut(w) => HandedOut(w)'
    BY <1>0, <2>1 DEF HandedOut, Passed, Recorded, FileWords, PacketWords, ReaderPlace, readerVars
  <2>3. \A w : Converted(w, pixelsVectorMap, outf) => Converted(w, pixelsVectorMap, outf)'
    BY <2>1
  <2> QED
    BY <2>1, <2>2, <2>3 DEF ImageInv, readerVars
<1> QED
  BY <1>1, <1>2, <1>3, <1>4, <1>6, <1>7, <1>8, <1>9 DEF Next

(* Each HDU of an image holds the pixels of one channel, in the order of    *)
(* their ids, as recorded, from the first on and up to the size of the      *)
(* image, for any number of words per chunk, per packet and per file (the   *)
(* loop of bin_to_fits and FitsWriter::dump_to_fits).                       *)
THEOREM ImagesAreStreams == Spec => []ImageIsTheStream
<1>1. Inv /\ ImageInv /\ [Next]_vars => ImageInv'
  BY ImageStep
<1>2. Inv /\ ImageInv => ImageIsTheStream
  <2> SUFFICES ASSUME Inv, ImageInv, job.mode = "fits", phase \in {"delete", "compress", "done"},
                      Cardinality(Seen) = NumChannels,
                      NEW h \in F!HDUs
               PROVE  \E c \in Seen :
                        /\ Cardinality({d \in Seen : d <= c}) = h
                        /\ outf.data[h] = FirstOf(Negated(Samples(c)), outf.pixExpected)
    BY DEF ImageIsTheStream
  <2>1. PICK w : HandedOut(w) /\ Converted(w, pixelsVectorMap, outf)
    BY DEF ImageInv
  <2>2. rd.end /\ rd.buffer = << >>
    BY DEF ImageInv, AfterLoop, ReaderPlace
  <2>3. w = Recorded /\ w \in Seq(Words(job.nch))
    BY <2>1, <2>2, ConcatEmptySeq DEF HandedOut, Passed
  <2>4. Ids(w) = Seen
    BY <2>3, LenProperties DEF Ids, Seen, ToSet
  <2>5. /\ pixelsVectorMap \in [Seen -> Seq(Int)] /\ Seen \in SUBSET Nat /\ IsFiniteSet(Seen)
        /\ Writing(w, pixelsVectorMap, outf)
    BY <2>1, <2>4 DEF Converted, Buffers
  <2>6. PICK c \in Seen : Place(Seen, c) = h
    BY <2>5, PlacesOfNumbers DEF F!HDUs
  <2>7. pixelsVectorMap[c] = << >>
    BY <2>5 DEF ImageInv, AfterLoop, Channels
  <2>8. WrittenPart(outf, h, Pixels(w, c), << >>)
    BY <2>4, <2>5, <2>6, <2>7 DEF Writing
  <2>9. outf.data[h] = FirstOf(Pixels(w, c), outf.pixExpected)
    BY <2>8, ConcatEmptySeq DEF WrittenPart
  <2>10. Pixels(w, c) = Negated(Samples(c))
    BY <2>3, Zenon DEF Pixels, Samples
  <2> QED
    BY <2>6, <2>9, <2>10 DEF Place
<1> QED
  BY <1>1, <1>2, ImageInit, Invariance, PTL DEF Spec

-----------------------------------------------------------------------------
(* No image outgrows its size.                                             *)

LEMMA WrittenIs ==
  ASSUME NEW V, NEW o \in Images(V), NEW h \in F!HDUs, NEW x \in Seq(V),
         NEW room, room = o.pixExpected - o.pixelCounts[h]
  PROVE  /\ F!Written(o, h, x) \in Seq(V)
         /\ Len(F!Written(o, h, x)) = IF Len(x) <= room THEN Len(x) ELSE IF room < 0 THEN 0 ELSE room
         /\ \A i \in 1 .. Len(F!Written(o, h, x)) : F!Written(o, h, x)[i] = x[i]
<1> DEFINE m == IF room < Len(x) THEN room ELSE Len(x)
           z == F!Written(o, h, x)
<1>1. Len(x) \in Nat /\ room \in Int /\ m \in Int /\ m <= Len(x) /\ (x = << >> <=> Len(x) = 0)
  <2>1. Len(x) \in Nat /\ room \in Int /\ (x = << >> <=> Len(x) = 0)
    BY LenProperties, EmptySeq DEF Images
  <2> QED
    BY <2>1
<1>2. z = IF x = << >> THEN x ELSE SubSeq(x, 1, m)
  BY DEF F!Written, F!spaceRemaining
<1>m. m = IF room < Len(x) THEN room ELSE Len(x)
  OBVIOUS
<1> HIDE DEF m, z
<1>3. \A i \in 1 .. m : i \in 1 .. Len(x) /\ x[i] \in V
  BY <1>1, ElementOfSeq
<1>4. /\ SubSeq(x, 1, m) \in Seq(V)
      /\ Len(SubSeq(x, 1, m)) = IF 1 <= m THEN m - 1 + 1 ELSE 0
      /\ \A i \in 1 .. m - 1 + 1 : SubSeq(x, 1, m)[i] = x[1 + i - 1]
  BY <1>1, <1>3, SubSeqProperties
<1>5. Len(SubSeq(x, 1, m)) = IF 1 <= m THEN m ELSE 0
  BY <1>1, <1>4
<1>6. ASSUME NEW i \in 1 .. Len(SubSeq(x, 1, m)) PROVE SubSeq(x, 1, m)[i] = x[i]
  <2>1. i \in 1 .. m - 1 + 1 /\ 1 + i - 1 = i
    BY <1>1, <1>5
  <2> QED
    BY <1>4, <2>1
<1>7. CASE x = << >>
  <2>1. z = x /\ Len(x) = 0
    BY <1>1, <1>2, <1>7
  <2> QED
    BY <1>1, <2>1 DEF z
<1>8. CASE x # << >>
  <2>1. z = SubSeq(x, 1, m)
    BY <1>2, <1>8
  <2>2. Len(z) = IF Len(x) <= room THEN Len(x) ELSE IF room < 0 THEN 0 ELSE room
    <3>1. Len(x) \in Nat \ {0}
      BY <1>1, <1>8
    <3> QED
      BY <1>1, <1>5, <1>m, <2>1, <3>1
  <2> QED
    BY <1>4, <1>6, <2>1, <2>2 DEF z
<1> QED
  BY <1>7, <1>8

Within(o) == \A h \in F!HDUs : Len(o.data[h]) <= o.pixelCounts[h] /\ Len(o.data[h]) <= o.pixExpected

LEMMA DumpOneWithin ==
  ASSUME NEW V, NEW o \in Images(V), Within(o), NEW h, NEW x \in Seq(V),
         NEW r, r = F!dump_to_fits(o, h, x)
  PROVE  r \in Images(V) /\ Within(r) /\ r.pixExpected = o.pixExpected
<1>1. CASE h \notin F!HDUs
  BY <1>1 DEF F!dump_to_fits
<1>2. CASE h \in F!HDUs
  <2>1. r \in Images(V) /\ DumpedOne(r, o, h, x)
    BY <1>2, DumpOne
  <2> DEFINE z == F!Written(o, h, x)
             room == o.pixExpected - o.pixelCounts[h]
  <2>2. /\ z \in Seq(V)
        /\ Len(z) = IF Len(x) <= room THEN Len(x) ELSE IF room < 0 THEN 0 ELSE room
    BY <1>2, WrittenIs
  <2>3. /\ o.data[h] \in Seq(V) /\ o.pixExpected \in Nat /\ o.pixelCounts[h] \in Nat
        /\ Len(o.data[h]) \in Nat /\ Len(x) \in Nat /\ Len(z) \in Nat
    BY <1>2, <2>2, LenProperties DEF Images
  <2>4. Len(r.data[h]) = Len(o.data[h]) + Len(z) /\ r.pixelCounts[h] = o.pixelCounts[h] + Len(x)
    BY <2>1, <2>2, <2>3, ConcatProperties DEF DumpedOne
  <2>5. Len(o.data[h]) <= o.pixelCounts[h] /\ Len(o.data[h]) <= o.pixExpected
    BY <1>2 DEF Within
  <2>r. room = o.pixExpected - o.pixelCounts[h]
    OBVIOUS
  <2> HIDE DEF z, room
  <2> DEFINE a == Len(o.data[h])
             b == o.pixelCounts[h]
             e == o.pixExpected
             l == Len(x)
             k == Len(z)
  <2>a. /\ a \in Nat /\ b \in Nat /\ e \in Nat /\ l \in Nat /\ k \in Nat /\ room = e - b
        /\ a <= b /\ a <= e
        /\ k = IF l <= room THEN l ELSE IF room < 0 THEN 0 ELSE room
    BY <2>2, <2>3, <2>5, <2>r
  <2>b. Len(r.data[h]) = a + k /\ r.pixelCounts[h] = b + l
    BY <2>4
  <2>c. Len(r.data[h]) <= r.pixelCounts[h] /\ Len(r.data[h]) <= e
    <3> HIDE DEF a, b, e, l, k
    <3>1. a + k <= b + l /\ a + k <= e
      BY <2>a
    <3> QED
      BY <2>b, <3>1
  <2>6. Len(r.data[h]) <= r.pixelCounts[h] /\ Len(r.data[h]) <= o.pixExpected
    BY <2>c
  <2>7. r.pixExpected = o.pixExpected
    BY <2>1 DEF DumpedOne
  <2> QED
    BY <2>1, <2>6, <2>7 DEF Within, DumpedOne
<1> QED
  BY <1>1, <1>2

LEMMA DumpWithin ==
  ASSUME NEW V, NEW D, IsFiniteSet(D), NEW o \in Images(V), Within(o), NEW hdu,
         NEW px \in [D -> Seq(V)], NEW r, r = dump_channels(o, hdu, px)
  PROVE  r \in Images(V) /\ Within(r) /\ r.pixExpected = o.pixExpected
<1> DEFINE s == SetToSeq(D)
           n == Len(s)
<1>1. n \in Nat /\ \A i \in 1 .. n : s[i] \in D
  BY SetInSequence, ElementOfSeq
<1>2. PICK q : Dumps(q, V, s, o, hdu, px) /\ r = q[n]
  BY DumpsInTurn
<1> HIDE DEF s
<1>3. /\ q \in [0 .. n -> Images(V)] /\ q[0] = o
      /\ \A k \in 1 .. n : q[k] = F!dump_to_fits(q[k - 1], hdu[s[k]], px[s[k]])
  BY <1>2 DEF Dumps
<1> HIDE DEF n
<1> DEFINE At(k) == Within(q[k]) /\ q[k].pixExpected = o.pixExpected
           T == {k \in 0 .. n : ~At(k)}
<1>4. T = {}
  <2>1. SUFFICES ASSUME T # {} PROVE FALSE
    OBVIOUS
  <2>2. PICK m \in T : \A k \in T : m <= k
    <3>1. T \in SUBSET Nat
      BY <1>1
    <3> HIDE DEF T
    <3> QED
      BY <2>1, <3>1, SmallestNumber
  <2>3. m \in 0 .. n /\ ~At(m)
    OBVIOUS
  <2>4. m # 0
    BY <1>3, <2>3
  <2>5. m \in 1 .. n /\ m - 1 \in 0 .. n /\ ~(m <= m - 1)
    BY <1>1, <2>3, <2>4
  <2>6. At(m - 1)
    <3> HIDE DEF At
    <3> QED
      BY <2>2, <2>5
  <2>7. q[m - 1] \in Images(V) /\ px[s[m]] \in Seq(V)
        /\ q[m] = F!dump_to_fits(q[m - 1], hdu[s[m]], px[s[m]])
    BY <1>1, <1>3, <2>5
  <2>8. At(m)
    BY <2>6, <2>7, DumpOneWithin
  <2> QED
    BY <2>3, <2>8
<1>5. n \in 0 .. n
  BY <1>1
<1> QED
  BY <1>2, <1>3, <1>4, <1>5

LEMMA ImagesGrow == ASSUME NEW V, NEW W, V \subseteq W PROVE Images(V) \subseteq Images(W)
<1>1. Seq(V) \subseteq Seq(W)
  BY SeqMonotonic
<1>2. [F!HDUs -> Seq(V)] \subseteq [F!HDUs -> Seq(W)]
  BY <1>1
<1> QED
  BY <1>2 DEF Images

-----------------------------------------------------------------------------
(* The places of the channels.                                             *)

(* A channel is at the place of its id among those that have arrived.      *)
Ordered(nch, w, pv, ci) ==
  LET D == Ids(w)
  IN /\ D \in SUBSET (0 .. nch - 1) /\ IsFiniteSet(D)
     /\ pv \in Seq(Seq(Int)) /\ Len(pv) = Cardinality(D)
     /\ ci \in Seq(Int) /\ Len(ci) \in 0 .. nch
     /\ \A c \in D : c < Len(ci)
     /\ \A i \in 1 .. Len(ci) : ci[i] = IF i - 1 \in D THEN Place(D, i - 1) - 1 ELSE -1

At(pv, h) == IF h \in 1 .. Len(pv) THEN pv[h] ELSE << >>

LEMMA WordPlaced ==
  ASSUME NEW nch \in Nat, NEW w \in Seq(Words(nch)), NEW v \in Words(nch),
         Ordered(nch, w, pixelsVector, channelIndex), ~OutsideVector(v),
         NEW value \in Int, NEW pv, pv = VectorWith(v, value)
  PROVE  /\ Ordered(nch, Append(w, v), pv, PlacesWith(v))
         /\ \A c \in Ids(w) : Place(Ids(Append(w, v)), c) = Place(Ids(w), c)
         /\ Place(Ids(Append(w, v)), v.chID) \in 1 .. Len(pv)
         /\ Len(pv) \in {Len(pixelsVector), Len(pixelsVector) + 1}
         /\ \A h \in 1 .. Len(pv) :
              pv[h] = IF h = Place(Ids(Append(w, v)), v.chID) THEN Append(At(pixelsVector, h), value)
                      ELSE At(pixelsVector, h)
<1> DEFINE D == Ids(w)
           E == Ids(Append(w, v))
           c == v.chID
           old == pixelsVector
           ci == channelIndex
           L == Len(ci)
           P == Len(old)
           to == PlacesWith(v)
<1>1. /\ D \in SUBSET (0 .. nch - 1) /\ IsFiniteSet(D)
      /\ old \in Seq(Seq(Int)) /\ P = Cardinality(D) /\ P \in Nat
      /\ ci \in Seq(Int) /\ L \in 0 .. nch
      /\ \A d \in D : d < L
      /\ \A i \in 1 .. L : ci[i] = IF i - 1 \in D THEN Place(D, i - 1) - 1 ELSE -1
  BY LenProperties DEF Ordered
<1>2. E = D \cup {c} /\ c \in 0 .. nch - 1
  BY IdsAppend DEF Words
<1>3. \A d \in D : Place(D, d) \in 1 .. P
  <2>1. D \in SUBSET Nat
    BY <1>1
  <2> QED
    BY <1>1, <2>1, PlacesOfNumbers
<1>4. to = IF c < L THEN ci ELSE ci \o [i \in 1 .. c - L |-> -1] \o <<P>>
  BY <1>1, <1>2 DEF PlacesWith, NewChannel
<1>5. pv = [(IF c < L THEN old ELSE Append(old, << >>)) EXCEPT ![to[c + 1] + 1] = Append(@, value)]
  <2>1. NewChannel(v) <=> ~(c < L)
    BY <1>1, <1>2 DEF NewChannel
  <2> HIDE DEF to
  <2> QED
    BY <2>1 DEF VectorWith, to
<1>6. to[c + 1] # -1
  BY DEF OutsideVector
<1> HIDE DEF E, D, c, old, ci, L, P, to
<1>7. CASE c < L
  <2>1. to = ci /\ c + 1 \in 1 .. L /\ (c + 1) - 1 = c
    BY <1>1, <1>2, <1>4, <1>7
  <2>2. c \in D /\ to[c + 1] = Place(D, c) - 1
    BY <1>1, <1>6, <2>1
  <2>3. E = D
    BY <1>2, <2>2
  <2> DEFINE p == Place(D, c)
  <2>4. p \in 1 .. P /\ to[c + 1] + 1 = p
    BY <1>1, <1>3, <2>2
  <2> HIDE DEF p
  <2>5. pv = [old EXCEPT ![p] = Append(old[p], value)]
    BY <1>5, <1>7, <2>4
  <2>6. old[p] \in Seq(Int) /\ Append(old[p], value) \in Seq(Int)
    <3>1. old[p] \in Seq(Int)
      BY <1>1, <2>4, ElementOfSeq DEF P
    <3> QED
      BY <3>1, AppendProperties
  <2>7. pv \in Seq(Seq(Int)) /\ Len(pv) = P
        /\ \A h \in 1 .. P : pv[h] = IF h = p THEN Append(old[p], value) ELSE old[h]
    <3> DEFINE x == Append(old[p], value)
    <3>1. x \in Seq(Int) /\ pv = [old EXCEPT ![p] = x]
      BY <2>5, <2>6
    <3> HIDE DEF x
    <3>2. pv \in Seq(Seq(Int)) /\ Len(pv) = P /\ \A h \in 1 .. P : pv[h] = IF h = p THEN x ELSE old[h]
      BY <1>1, <2>4, <3>1, ExceptSeq DEF P
    <3> QED
      BY <3>2 DEF x
  <2>8. Ordered(nch, Append(w, v), pv, to)
    BY <1>1, <2>1, <2>3, <2>7 DEF Ordered, E, L
  <2>9. \A h \in 1 .. P : At(old, h) = old[h]
    BY DEF At, P
  <2> QED
    BY <2>3, <2>4, <2>7, <2>8, <2>9 DEF E, D, c, p, old, P, to
<1>8. CASE ~(c < L)
  <2>1. c \notin D /\ L <= c /\ c - L \in Nat /\ L \in Nat /\ c \in Nat
    BY <1>1, <1>2, <1>8
  <2> DEFINE gap == [i \in 1 .. c - L |-> -1]
  <2>2. gap \in Seq(Int) /\ Len(gap) = c - L /\ <<P>> \in Seq(Int) /\ Len(<<P>>) = 1 /\ <<P>>[1] = P
        /\ \A i \in 1 .. c - L : gap[i] = -1
    BY <1>1, <2>1
  <2>3. to = (ci \o gap) \o <<P>>
    BY <1>4, <1>8
  <2> HIDE DEF gap
  <2>4. /\ ci \o gap \in Seq(Int) /\ Len(ci \o gap) = c
        /\ \A i \in 1 .. c : (ci \o gap)[i] = IF i <= L THEN ci[i] ELSE gap[i - L]
    <3>1. Len(ci) + Len(gap) = c
      BY <2>1, <2>2 DEF L
    <3> QED
      BY <1>1, <2>2, <3>1, ConcatProperties DEF L
  <2>5. /\ to \in Seq(Int) /\ Len(to) = c + 1 /\ to[c + 1] = P
        /\ \A i \in 1 .. L : to[i] = ci[i]
        /\ \A i \in 1 .. c : ~(i <= L) => to[i] = -1
    <3> DEFINE x == ci \o gap
               y == <<P>>
    <3>1. x \in Seq(Int) /\ y \in Seq(Int) /\ Len(x) = c /\ Len(y) = 1 /\ to = x \o y
      BY <2>2, <2>3, <2>4
    <3>2. \A i \in 1 .. c : x[i] = IF i <= L THEN ci[i] ELSE -1
      <4> SUFFICES ASSUME NEW i \in 1 .. c, ~(i <= L) PROVE gap[i - L] = -1
        BY <2>4
      <4>1. i - L \in 1 .. c - L
        BY <2>1
      <4> QED
        BY <2>2, <4>1
    <3>3. y[1] = P
      BY <2>2
    <3> HIDE DEF x, y
    <3>a. Len(x) + Len(y) = c + 1
      BY <2>1, <3>1
    <3>4. /\ to \in Seq(Int) /\ Len(to) = c + 1
          /\ \A i \in 1 .. c + 1 : to[i] = IF i <= c THEN x[i] ELSE y[i - c]
      <4>1. /\ to \in Seq(Int) /\ Len(to) = Len(x) + Len(y)
            /\ \A i \in 1 .. Len(x) + Len(y) : to[i] = IF i <= Len(x) THEN x[i] ELSE y[i - Len(x)]
        BY <3>1, ConcatProperties
      <4> QED
        BY <3>1, <3>a, <4>1
    <3>5. c + 1 \in 1 .. c + 1 /\ ~(c + 1 <= c) /\ (c + 1) - c = 1
      BY <2>1
    <3>6. to[c + 1] = P
      BY <3>3, <3>4, <3>5
    <3>7. \A i \in 1 .. c : i \in 1 .. c + 1 /\ to[i] = x[i]
      BY <2>1, <3>4
    <3>8. \A i \in 1 .. L : i \in 1 .. c /\ i <= L
      BY <2>1
    <3> QED
      BY <3>2, <3>4, <3>6, <3>7, <3>8
  <2>6. \A i \in Int : i < c => {d \in E : d <= i} = {d \in D : d <= i}
    BY <1>1, <1>2, <2>1
  <2>7. \A i \in Int : i < c => Place(E, i) = Place(D, i)
    BY <2>6 DEF Place
  <2>8. IsFiniteSet(E) /\ Cardinality(E) = P + 1 /\ E \in SUBSET (0 .. nch - 1)
    BY <1>1, <1>2, <2>1, FS_AddElement
  <2>9. Place(E, c) = P + 1
    <3>0. \A d \in E : d <= c
      BY <1>1, <1>2, <2>1
    <3>1. {d \in E : d <= c} = E
      BY <3>0
    <3> QED
      BY <2>8, <3>1 DEF Place
  <2>10. ASSUME NEW i \in 1 .. c + 1
         PROVE  to[i] = IF i - 1 \in E THEN Place(E, i - 1) - 1 ELSE -1
    <3>1. CASE i = c + 1
      <4>1. i - 1 = c /\ c \in E
        BY <1>2, <2>1, <3>1
      <4> QED
        BY <1>1, <2>5, <2>9, <3>1, <4>1
    <3>2. CASE i <= L
      <4>1. i \in 1 .. L /\ i - 1 \in Int /\ i - 1 < c /\ i - 1 # c
        BY <2>1, <3>2
      <4>2. i - 1 \in E <=> i - 1 \in D
        BY <1>2, <4>1
      <4> QED
        BY <1>1, <2>5, <2>7, <4>1, <4>2
    <3>3. CASE ~(i <= L) /\ i # c + 1
      <4>1. i \in 1 .. c /\ i - 1 # c /\ ~(i - 1 < L)
        BY <2>1, <3>3
      <4>2. i - 1 \notin E
        BY <1>1, <1>2, <4>1
      <4> QED
        BY <2>5, <3>3, <4>1, <4>2
    <3> QED
      BY <3>1, <3>2, <3>3
  <2>11. << >> \in Seq(Int) /\ Append(<< >>, value) \in Seq(Int)
    BY EmptySeq, AppendProperties
  <2> DEFINE mid == Append(old, << >>)
             p == P + 1
             x == Append(<< >>, value)
  <2>12. /\ mid \in Seq(Seq(Int)) /\ Len(mid) = p /\ mid[p] = << >>
         /\ \A h \in 1 .. P : mid[h] = old[h]
    BY <1>1, <2>11, AppendProperties DEF P
  <2>13. to[c + 1] + 1 = p /\ p \in 1 .. p
    BY <1>1, <2>5
  <2>14. pv = [mid EXCEPT ![p] = x]
    <3>1. pv = [mid EXCEPT ![p] = Append(@, value)]
      BY <1>5, <1>8, <2>13
    <3> HIDE DEF mid, p
    <3> QED
      BY <2>12, <3>1
  <2>15. /\ pv \in Seq(Seq(Int)) /\ Len(pv) = p
         /\ \A h \in 1 .. p : pv[h] = IF h = p THEN x ELSE mid[h]
    <3> HIDE DEF mid, p, x
    <3>1. x \in Seq(Int)
      BY <2>11 DEF x
    <3> QED
      BY <2>12, <2>13, <2>14, <3>1, ExceptSeq
  <2>16. \A h \in 1 .. p : pv[h] = IF h = p THEN Append(At(old, h), value) ELSE At(old, h)
    <3>1. At(old, p) = << >>
      BY <1>1 DEF At, P
    <3>2. \A h \in 1 .. p : h # p => h \in 1 .. P /\ At(old, h) = old[h]
      BY <1>1 DEF At, P
    <3> HIDE DEF mid, p
    <3> QED
      BY <2>12, <2>15, <3>1, <3>2 DEF x
  <2>17. c + 1 \in 0 .. nch /\ \A d \in E : d < c + 1
    BY <1>1, <1>2, <2>1
  <2>18. Ordered(nch, Append(w, v), pv, to)
    BY <2>5, <2>8, <2>10, <2>15, <2>17 DEF Ordered, E
  <2>19. \A d \in D : Place(E, d) = Place(D, d)
    BY <1>1, <2>1, <2>7
  <2> QED
    BY <2>9, <2>13, <2>15, <2>16, <2>18, <2>19 DEF E, D, c, old, P, to
<1> QED
  BY <1>7, <1>8

-----------------------------------------------------------------------------
(* Sums of numbers of samples.                                             *)

Sums(p, s) ==
  /\ p \in [0 .. Len(s) -> Int] /\ p[0] = 0
  /\ \A k \in 1 .. Len(s) : p[k] = p[k - 1] + s[k]

LEMMA SumsExist ==
  ASSUME NEW s \in Seq(Int)
  PROVE  \E p : Sums(p, s) /\ Total(s) = p[Len(s)]
<1> DEFINE n == Len(s)
           X == Int
           b == 0
           step == [q \in (1 .. n) \X X |-> q[2] + s[q[1]]]
<1>1. n \in Nat /\ s \in [1 .. n -> Int]
  BY LenProperties
<1> HIDE DEF n
<1>2. step \in [(1 .. n) \X X -> X] /\ b \in X /\ b \in Int
  BY <1>1
<1>3. PICK p : Recurs(p, X, b, n, step)
  <2> HIDE DEF step, X, b
  <2> QED
    BY <1>1, <1>2, RecursionHasSolution
<1>4. p \in [0 .. n -> Int] /\ p[0] = b
  BY <1>3 DEF Recurs
<1>5. ASSUME NEW k \in 1 .. n PROVE p[k] = p[k - 1] + s[k]
  <2>1. <<k, p[k - 1]>> \in (1 .. n) \X X
    <3>1. k - 1 \in 0 .. n
      BY <1>1
    <3> QED
      BY <1>4, <3>1
  <2> QED
    BY <1>3, <2>1 DEF Recurs
<1>6. FoldLeft(+, b, s) = p[n]
  <2> HIDE DEF b
  <2> QED
    BY <1>1, <1>2, <1>4, <1>5, SequenceSum
<1>7. Total(s) = p[n]
  BY <1>6, Zenon DEF Total
<1> QED
  BY <1>4, <1>5, <1>7 DEF Sums, n

(* The sum of the first elements, and what the next one adds.              *)
LEMMA SumOfFirst ==
  ASSUME NEW s \in Seq(Int), NEW p, Sums(p, s), NEW k \in 0 .. Len(s)
  PROVE  Total(SubSeq(s, 1, k)) = p[k]
<1> DEFINE t == SubSeq(s, 1, k)
<1>1. Len(s) \in Nat /\ s \in [1 .. Len(s) -> Int] /\ k \in Nat
  BY LenProperties
<1>2. \A i \in 1 .. k : i \in 1 .. Len(s) /\ s[i] \in Int
  BY <1>1
<1>3. t \in Seq(Int) /\ Len(t) = (IF 1 <= k THEN k - 1 + 1 ELSE 0)
      /\ \A i \in 1 .. k - 1 + 1 : t[i] = s[1 + i - 1]
  BY <1>1, <1>2, SubSeqProperties
<1>4. Len(t) = k
  BY <1>1, <1>3
<1>5. \A i \in 1 .. k : t[i] = s[i]
  <2> SUFFICES ASSUME NEW i \in 1 .. k PROVE t[i] = s[i]
    OBVIOUS
  <2>1. i \in 1 .. k - 1 + 1 /\ 1 + i - 1 = i
    BY <1>1
  <2> QED
    BY <1>3, <2>1
<1> HIDE DEF t
<1>6. PICK q : Sums(q, t) /\ Total(t) = q[k]
  BY <1>3, <1>4, SumsExist
<1>7. /\ p \in [0 .. Len(s) -> Int] /\ p[0] = 0 /\ \A i \in 1 .. Len(s) : p[i] = p[i - 1] + s[i]
      /\ q \in [0 .. k -> Int] /\ q[0] = 0 /\ \A i \in 1 .. k : q[i] = q[i - 1] + t[i]
  BY <1>4, <1>6 DEF Sums
<1> DEFINE T == {i \in 0 .. k : p[i] # q[i]}
<1>8. T = {}
  <2>1. SUFFICES ASSUME T # {} PROVE FALSE
    OBVIOUS
  <2>2. PICK m \in T : \A i \in T : m <= i
    <3>1. T \in SUBSET Nat
      BY <1>1
    <3> HIDE DEF T
    <3> QED
      BY <2>1, <3>1, SmallestNumber
  <2>3. m \in 0 .. k /\ p[m] # q[m]
    OBVIOUS
  <2>4. m # 0
    BY <1>7, <2>3
  <2>5. m \in 1 .. k /\ m \in 1 .. Len(s) /\ m - 1 \in 0 .. k /\ m - 1 \notin T
    BY <1>1, <2>2, <2>3, <2>4
  <2> QED
    BY <1>5, <1>7, <2>3, <2>5
<1>9. k \in 0 .. k
  BY <1>1
<1> QED
  BY <1>6, <1>8, <1>9 DEF t

(* Sums of numbers of samples only grow.                                   *)
LEMMA SumsGrow ==
  ASSUME NEW s \in Seq(Nat), NEW p, Sums(p, s)
  PROVE  /\ p \in [0 .. Len(s) -> Nat]
         /\ \A i, j \in 0 .. Len(s) : i <= j => p[i] <= p[j]
<1>1. Len(s) \in Nat /\ s \in [1 .. Len(s) -> Nat]
  BY LenProperties
<1>2. p \in [0 .. Len(s) -> Int] /\ p[0] = 0 /\ \A k \in 1 .. Len(s) : p[k] = p[k - 1] + s[k]
  BY DEF Sums
<1> DEFINE n == Len(s)
<1> HIDE DEF n
<1>3. ASSUME NEW i \in 0 .. n, NEW j \in 0 .. n, i <= j PROVE p[i] <= p[j]
  <2> DEFINE T == {k \in 0 .. n : i <= k /\ ~(p[i] <= p[k])}
  <2>1. T = {}
    <3>1. SUFFICES ASSUME T # {} PROVE FALSE
      OBVIOUS
    <3>2. PICK m \in T : \A k \in T : m <= k
      <4>1. T \in SUBSET Nat
        BY <1>1 DEF n
      <4> HIDE DEF T
      <4> QED
        BY <3>1, <4>1, SmallestNumber
    <3>3. m \in 0 .. n /\ i <= m /\ ~(p[i] <= p[m])
      OBVIOUS
    <3>4. p[i] \in Int /\ p[m] \in Int /\ n \in Nat
      BY <1>1, <1>2, <3>3 DEF n
    <3>5. m # i
      BY <3>3, <3>4
    <3>6. m \in 1 .. n /\ m - 1 \in 0 .. n /\ i <= m - 1 /\ ~(m <= m - 1)
      BY <1>3, <3>3, <3>4, <3>5
    <3>7. p[i] <= p[m - 1]
      BY <3>2, <3>6
    <3>8. p[m] = p[m - 1] + s[m] /\ s[m] \in Nat /\ p[m - 1] \in Int
      BY <1>1, <1>2, <3>6 DEF n
    <3> QED
      BY <3>3, <3>4, <3>7, <3>8
  <2> QED
    BY <1>3, <2>1
<1>4. ASSUME NEW i \in 0 .. n PROVE p[i] \in Nat
  <2>1. 0 \in 0 .. n /\ 0 <= i
    BY <1>1 DEF n
  <2>2. p[0] <= p[i]
    BY <1>3, <2>1
  <2> QED
    BY <1>2, <2>2 DEF n
<1> QED
  BY <1>2, <1>3, <1>4 DEF n

LEMMA TotalIs == ASSUME NEW s \in Seq(Int) PROVE Total(s) \in Int /\ (s \in Seq(Nat) => Total(s) \in Nat)
<1>1. PICK p : Sums(p, s) /\ Total(s) = p[Len(s)]
  BY SumsExist
<1>2. Len(s) \in 0 .. Len(s)
  BY LenProperties
<1> QED
  BY <1>1, <1>2, SumsGrow DEF Sums

-----------------------------------------------------------------------------
(* The rows of a smart image.                                              *)

Recipe ==
  /\ job.nSamps \in Seq(Seq(Nat)) /\ job.nSamps # << >> /\ job.nColsAve \in Nat
  /\ \A r \in DOMAIN job.nSamps : Len(job.nSamps[r]) = job.nColsAve

LEMMA WidestRow ==
  ASSUME Recipe
  PROVE  /\ Len(job.nSamps) \in Nat \ {0} /\ DOMAIN job.nSamps = 1 .. Len(job.nSamps)
         /\ \A r \in 1 .. Len(job.nSamps) :
              /\ job.nSamps[r] \in Seq(Nat) /\ Len(job.nSamps[r]) = job.nColsAve /\ nCols(r) \in Nat
         /\ nColsAllMax \in Nat
         /\ \A r \in 1 .. Len(job.nSamps) : nCols(r) <= nColsAllMax
         /\ \E r \in 1 .. Len(job.nSamps) : nColsAllMax = nCols(r)
<1> DEFINE N == Len(job.nSamps)
<1>1. N \in Nat \ {0} /\ DOMAIN job.nSamps = 1 .. N
  BY LenProperties, EmptySeq DEF Recipe
<1>2. ASSUME NEW r \in 1 .. N
      PROVE  job.nSamps[r] \in Seq(Nat) /\ Len(job.nSamps[r]) = job.nColsAve /\ nCols(r) \in Nat
  <2>1. job.nSamps[r] \in Seq(Nat) /\ Len(job.nSamps[r]) = job.nColsAve
    BY <1>1, ElementOfSeq DEF Recipe
  <2>2. Seq(Nat) \subseteq Seq(Int)
    BY SeqMonotonic
  <2> QED
    BY <2>1, <2>2, TotalIs DEF nCols
<1> HIDE DEF N
<1> DEFINE Widest(k) == \E r \in 1 .. k : \A q \in 1 .. k : nCols(q) <= nCols(r)
           T == {k \in 1 .. N : ~Widest(k)}
<1>3. T = {}
  <2>1. SUFFICES ASSUME T # {} PROVE FALSE
    OBVIOUS
  <2>2. PICK m \in T : \A k \in T : m <= k
    <3>1. T \in SUBSET Nat
      BY <1>1
    <3> HIDE DEF T
    <3> QED
      BY <2>1, <3>1, SmallestNumber
  <2>3. m \in 1 .. N /\ ~Widest(m)
    OBVIOUS
  <2>4. CASE m = 1
    <3>1. 1 \in 1 .. 1 /\ \A q \in 1 .. 1 : q = 1
      OBVIOUS
    <3>2. nCols(1) <= nCols(1)
      BY <1>1, <1>2
    <3> QED
      BY <2>3, <2>4, <3>1, <3>2
  <2>5. CASE m # 1
    <3>1. m - 1 \in 1 .. N /\ ~(m <= m - 1) /\ m \in 1 .. m /\ m \in Nat
      BY <1>1, <2>3, <2>5
    <3>2. Widest(m - 1)
      BY <2>2, <3>1
    <3>3. PICK r \in 1 .. m - 1 : \A q \in 1 .. m - 1 : nCols(q) <= nCols(r)
      BY <3>2
    <3>4. \A q \in 1 .. m : (q \in 1 .. m - 1 \/ q = m) /\ nCols(q) \in Nat
      BY <1>1, <1>2, <2>3, <3>1
    <3>5. r \in 1 .. m
      BY <3>1, <3>3
    <3>6. CASE nCols(m) <= nCols(r)
      BY <2>3, <3>3, <3>4, <3>5, <3>6
    <3>7. CASE ~(nCols(m) <= nCols(r))
      <4>1. \A q \in 1 .. m : nCols(q) <= nCols(m)
        BY <3>1, <3>3, <3>4, <3>5, <3>7
      <4> QED
        BY <2>3, <3>1, <4>1
    <3> QED
      BY <3>6, <3>7
  <2> QED
    BY <2>4, <2>5
<1>4. Widest(N)
  <2>1. N \in 1 .. N
    BY <1>1
  <2> HIDE DEF Widest
  <2> QED
    BY <1>3, <2>1
<1> DEFINE W == {nCols(r) : r \in DOMAIN job.nSamps}
<1>5. \E n \in W : \A r \in DOMAIN job.nSamps : nCols(r) <= n
  BY <1>1, <1>4
<1>6. nColsAllMax \in W /\ \A r \in DOMAIN job.nSamps : nCols(r) <= nColsAllMax
  <2>1. nColsAllMax = CHOOSE n \in W : \A r \in DOMAIN job.nSamps : nCols(r) <= n
    BY Zenon DEF nColsAllMax
  <2> HIDE DEF W
  <2> QED
    BY <1>5, <2>1, Zenon
<1> QED
  BY <1>1, <1>2, <1>6 DEF N

LEMMA WidthOfRow ==
  ASSUME Recipe
  PROVE  /\ Len(job.nSamps) \in Nat \ {0} /\ DOMAIN job.nSamps = 1 .. Len(job.nSamps)
         /\ \A r \in 1 .. Len(job.nSamps) :
              /\ job.nSamps[r] \in Seq(Nat) /\ Len(job.nSamps[r]) = job.nColsAve /\ nCols(r) \in Nat
         /\ nColsAllMax \in Nat
         /\ \A r \in 1 .. Len(job.nSamps) : nCols(r) <= nColsAllMax
BY WidestRow

LEMMA PaddedIs ==
  ASSUME Recipe, NEW r \in 1 .. Len(job.nSamps), NEW row \in Seq(Int), Len(row) = nCols(r)
  PROVE  Padded(row) \in Seq(Int) /\ Len(Padded(row)) = nColsAllMax
<1> DEFINE pad == [i \in 1 .. nColsAllMax - Len(row) |-> SMART_FLAG_NOT_REAL_PIXELS]
           n == Len(row)
           m == nColsAllMax
<1>1. n \in Nat /\ m \in Nat /\ n <= m
  BY WidthOfRow
<1>2. pad \in Seq(Int) /\ Len(pad) = m - n
  <2>1. m - n \in Nat /\ SMART_FLAG_NOT_REAL_PIXELS \in Int
    BY <1>1 DEF SMART_FLAG_NOT_REAL_PIXELS
  <2> HIDE DEF m, n
  <2>2. pad = [i \in 1 .. m - n |-> SMART_FLAG_NOT_REAL_PIXELS]
    BY DEF m, n
  <2> HIDE DEF pad
  <2> QED
    BY <2>1, <2>2
<1>3. Padded(row) = row \o pad
  BY DEF Padded
<1> HIDE DEF pad
<1>4. Padded(row) \in Seq(Int) /\ Len(Padded(row)) = n + (m - n)
  BY <1>2, <1>3, ConcatProperties
<1> QED
  BY <1>1, <1>4

AveragedTo(r, row, t) ==
  /\ t \in Seq(Int \X Int) /\ Len(t) = job.nColsAve
  /\ \A i \in 1 .. job.nColsAve :
       LET a == Total(SubSeq(job.nSamps[r], 1, i - 1)) IN
         /\ a \in Nat /\ a + job.nSamps[r][i] <= nCols(r)
         /\ t[i] = <<Total(SubSeq(row, a + 1, a + job.nSamps[r][i])), job.nSamps[r][i]>>

LEMMA AveragedIs ==
  ASSUME Recipe, NEW r \in 1 .. Len(job.nSamps), NEW row \in Seq(Int), Len(row) = nCols(r)
  PROVE  AveragedTo(r, row, Averaged(r, row))
<1> DEFINE n == job.nSamps[r]
           A == job.nColsAve
           a(i) == Total(SubSeq(n, 1, i - 1))
           e(i) == <<Total(SubSeq(row, a(i) + 1, a(i) + n[i])), n[i]>>
<1>1. n \in Seq(Nat) /\ Len(n) = A /\ A \in Nat /\ nCols(r) = Total(n) /\ n \in Seq(Int)
  <2>1. n \in Seq(Nat) /\ Len(n) = A /\ A \in Nat
    BY WidthOfRow DEF Recipe
  <2>2. Seq(Nat) \subseteq Seq(Int)
    BY SeqMonotonic
  <2> QED
    BY <2>1, <2>2 DEF nCols
<1>2. PICK p : Sums(p, n) /\ Total(n) = p[Len(n)]
  BY <1>1, SumsExist
<1>w. Len(row) = p[A]
  BY <1>1, <1>2
<1> HIDE DEF n, A
<1>3. /\ p \in [0 .. A -> Nat] /\ \A i, j \in 0 .. A : i <= j => p[i] <= p[j]
      /\ \A i \in 1 .. A : p[i] = p[i - 1] + n[i]
  BY <1>1, <1>2, SumsGrow DEF Sums
<1>4. ASSUME NEW i \in 1 .. A
      PROVE  a(i) \in Nat /\ n[i] \in Nat /\ a(i) + n[i] <= Len(row) /\ e(i) \in Int \X Int
  <2>1. i - 1 \in 0 .. A /\ i \in 0 .. A /\ A \in 0 .. A /\ i <= A /\ i - 1 \in 0 .. Len(n)
    BY <1>1
  <2>2. a(i) = p[i - 1]
    BY <1>1, <1>2, <2>1, SumOfFirst
  <2>3. n[i] \in Nat
    BY <1>1, ElementOfSeq
  <2>4. a(i) \in Nat /\ a(i) + n[i] = p[i] /\ p[i] <= p[A]
    BY <1>3, <2>1, <2>2
  <2> DEFINE b == a(i)
             c == a(i) + n[i]
             z == SubSeq(row, a(i) + 1, a(i) + n[i])
  <2>5. b \in Nat /\ c \in Nat /\ c <= Len(row) /\ z = SubSeq(row, b + 1, c)
    BY <1>w, <2>3, <2>4
  <2>6. Len(row) \in Nat
    BY LenProperties
  <2> HIDE DEF b, c, z
  <2>7. b + 1 \in Int /\ \A k \in b + 1 .. c : k \in 1 .. Len(row) /\ row[k] \in Int
    <3>1. \A k \in b + 1 .. c : k \in 1 .. Len(row)
      BY <2>5, <2>6
    <3> QED
      BY <2>5, <3>1, ElementOfSeq
  <2>8. z \in Seq(Int)
    BY <2>5, <2>7, SubSeqProperties
  <2>9. Total(z) \in Int
    BY <2>8, TotalIs
  <2> QED
    BY <1>w, <2>3, <2>4, <2>9 DEF z
<1>5. Averaged(r, row) = [i \in 1 .. A |-> IF i <= Len(n) THEN
                            <<Total(SubSeq(row, (a(i) + 1), (a(i) + 1) + n[i] - 1)), n[i]>>
                            ELSE <<0, 1>>]
  BY Zenon DEF Averaged, n, A
<1>6. Averaged(r, row) = [i \in 1 .. A |-> e(i)]
  <2>1. ASSUME NEW i \in 1 .. A
        PROVE  i <= Len(n) /\ (a(i) + 1) + n[i] - 1 = a(i) + n[i]
    <3> DEFINE b == a(i)
               d == n[i]
    <3>1. b \in Nat /\ d \in Nat
      BY <1>4
    <3> HIDE DEF b, d
    <3>2. (b + 1) + d - 1 = b + d
      BY <3>1
    <3> QED
      BY <1>1, <3>2 DEF b, d
  <2> QED
    BY <1>5, <2>1
<1> DEFINE t == Averaged(r, row)
<1>7. t \in Seq(Int \X Int) /\ Len(t) = A /\ \A i \in 1 .. A : t[i] = e(i)
  <2> DEFINE V == Int \X Int
  <2>1. \A i \in 1 .. A : e(i) \in V
    BY <1>4
  <2>2. t = [i \in 1 .. A |-> e(i)]
    BY <1>6
  <2> HIDE DEF V, e, t
  <2>3. t \in Seq(V) /\ Len(t) = A /\ \A i \in 1 .. A : t[i] = e(i)
    BY <1>1, <2>1, <2>2
  <2> QED
    BY <2>3 DEF V
<1> HIDE DEF t
<1>8. \A i \in 1 .. A : a(i) \in Nat /\ a(i) + n[i] <= nCols(r)
  BY <1>4
<1> QED
  <2> USE DEF n, A
  <2> QED
    BY <1>7, <1>8, Zenon DEF AveragedTo, t

(* What a turn of the loop over a channel's pixels works on.               *)
RowStates ==
  {s \in [row : Nat \ {0}, filled : Seq(Int), left : Seq(Int), all : Seq(Int), ave : Seq(Int \X Int)] :
     /\ s.row <= Len(job.nSamps) + 1
     /\ s.row <= Len(job.nSamps) => Len(s.filled) <= nCols(s.row)}

NoTurn(s) == s.left = << >> \/ s.row > Len(job.nSamps)

Needed(s) == nCols(s.row) - Len(s.filled)

PartOfRow(s, t) ==
  /\ ~NoTurn(s) /\ Len(s.left) < Needed(s)
  /\ t.row = s.row /\ t.filled = s.filled \o s.left /\ t.left = << >>
  /\ t.all = s.all /\ t.ave = s.ave

EndOfRow(s, t) ==
  LET row == s.filled \o SubSeq(s.left, 1, Needed(s))
  IN /\ ~NoTurn(s) /\ Needed(s) <= Len(s.left)
     /\ row \in Seq(Int) /\ Len(row) = nCols(s.row)
     /\ t.row = s.row + 1 /\ t.filled = << >>
     /\ t.left = SubSeq(s.left, Needed(s) + 1, Len(s.left))
     /\ t.all = s.all \o Padded(row) /\ t.ave = s.ave \o Averaged(s.row, row)

LEMMA Turn ==
  ASSUME Recipe, NEW s \in RowStates, NEW i, NEW t, t = FillRow(s, i)
  PROVE  /\ t \in RowStates
         /\ (NoTurn(s) /\ t = s) \/ PartOfRow(s, t) \/ EndOfRow(s, t)
<1> DEFINE N == Len(job.nSamps)
           needed == nCols(s.row) - Len(s.filled)
           row == s.filled \o SubSeq(s.left, 1, needed)
<1>0. N \in Nat /\ \A r \in 1 .. N : nCols(r) \in Nat
  BY WidthOfRow
<1>1. /\ s.row \in Nat \ {0} /\ s.filled \in Seq(Int) /\ s.left \in Seq(Int)
      /\ s.all \in Seq(Int) /\ s.ave \in Seq(Int \X Int)
      /\ s.row <= N + 1 /\ (s.row <= N => Len(s.filled) <= nCols(s.row))
      /\ s = [row |-> s.row, filled |-> s.filled, left |-> s.left, all |-> s.all, ave |-> s.ave]
  BY DEF RowStates
<1>2. /\ Len(s.filled) \in Nat /\ Len(s.left) \in Nat
      /\ (s.left = << >> <=> Len(s.left) = 0)
  BY <1>1, LenProperties, EmptySeq
<1>3. t = IF NoTurn(s) THEN s
          ELSE IF Len(s.left) < needed
          THEN [s EXCEPT !.filled = @ \o s.left, !.left = << >>]
          ELSE [s EXCEPT !.filled = << >>, !.row = @ + 1,
                         !.left = SubSeq(@, needed + 1, Len(@)),
                         !.all = @ \o Padded(row), !.ave = @ \o Averaged(s.row, row)]
  BY Zenon DEF FillRow, NoTurn
<1>4. CASE NoTurn(s)
  BY <1>3, <1>4
<1>5. CASE ~NoTurn(s) /\ Len(s.left) < needed
  <2> DEFINE f == s.filled \o s.left
             e == << >>
  <2>1. f \in Seq(Int) /\ Len(f) = Len(s.filled) + Len(s.left) /\ e \in Seq(Int)
    BY <1>1, ConcatProperties, EmptySeq
  <2>2. t = [s EXCEPT !.filled = f, !.left = e]
    BY <1>3, <1>5
  <2>8. f = s.filled \o s.left /\ e = << >>
    OBVIOUS
  <2>3. s.row <= N /\ s.row \in 1 .. N
    BY <1>0, <1>1, <1>5 DEF NoTurn
  <2> HIDE DEF f, e
  <2>4. Len(f) <= nCols(s.row)
    <3> DEFINE a == nCols(s.row)
               b == Len(s.filled)
               c == Len(s.left)
    <3>1. a \in Nat /\ b \in Nat /\ c \in Nat /\ c < a - b /\ Len(f) = b + c
      BY <1>0, <1>2, <1>5, <2>1, <2>3
    <3> HIDE DEF a, b, c
    <3>2. Len(f) <= a
      BY <3>1
    <3> QED
      BY <3>2 DEF a
  <2>5. t = [row |-> s.row, filled |-> f, left |-> e, all |-> s.all, ave |-> s.ave]
    BY <1>1, <2>2
  <2>6. /\ t.row = s.row /\ t.filled = f /\ t.left = e /\ t.all = s.all /\ t.ave = s.ave
    BY <2>5
  <2>7. t \in RowStates
    BY <1>1, <2>1, <2>4, <2>5, <2>6 DEF RowStates
  <2>9. PartOfRow(s, t)
    BY <1>5, <2>6, <2>8 DEF PartOfRow, Needed
  <2> QED
    BY <2>7, <2>9
<1>6. CASE ~NoTurn(s) /\ ~(Len(s.left) < needed)
  <2>1. s.row \in 1 .. N /\ s.row <= N /\ Len(s.filled) <= nCols(s.row) /\ nCols(s.row) \in Nat
    BY <1>0, <1>1, <1>6 DEF NoTurn
  <2>2. needed \in Nat /\ needed <= Len(s.left)
    BY <1>2, <1>6, <2>1
  <2>n. needed = nCols(s.row) - Len(s.filled)
    OBVIOUS
  <2> HIDE DEF needed
  <2> DEFINE x == s.left
             head == SubSeq(x, 1, needed)
             tail == SubSeq(x, needed + 1, Len(x))
  <2>3. x \in Seq(Int) /\ Len(x) \in Nat /\ \A k \in 1 .. Len(x) : x[k] \in Int
    BY <1>1, <1>2, ElementOfSeq
  <2>4. head \in Seq(Int) /\ Len(head) = needed
    <3>1. \A k \in 1 .. needed : x[k] \in Int
      BY <2>2, <2>3
    <3>2. head \in Seq(Int) /\ Len(head) = IF 1 <= needed THEN needed - 1 + 1 ELSE 0
      BY <2>2, <3>1, SubSeqProperties
    <3> HIDE DEF head
    <3> QED
      BY <2>2, <3>2
  <2>5. tail \in Seq(Int)
    <3>1. needed + 1 \in Int /\ \A k \in needed + 1 .. Len(x) : x[k] \in Int
      BY <2>2, <2>3
    <3> QED
      BY <2>3, <3>1, SubSeqProperties
  <2>6. row \in Seq(Int) /\ Len(row) = nCols(s.row)
    <3>1. row \in Seq(Int) /\ Len(row) = Len(s.filled) + needed
      BY <1>1, <2>4, ConcatProperties
    <3> HIDE DEF row
    <3> QED
      BY <1>2, <2>1, <2>n, <3>1
  <2> HIDE DEF row
  <2> DEFINE all == s.all \o Padded(row)
             ave == s.ave \o Averaged(s.row, row)
             next == s.row + 1
             e == << >>
  <2>7. all \in Seq(Int)
    BY <1>1, <2>1, <2>6, PaddedIs, ConcatProperties
  <2>8. ave \in Seq(Int \X Int)
    <3>1. AveragedTo(s.row, row, Averaged(s.row, row))
      BY <2>1, <2>6, AveragedIs
    <3>2. Averaged(s.row, row) \in Seq(Int \X Int)
      BY <3>1 DEF AveragedTo
    <3> QED
      BY <1>1, <3>2, ConcatProperties
  <2>9. t = [s EXCEPT !.filled = e, !.row = next, !.left = tail, !.all = all, !.ave = ave]
    BY <1>3, <1>6
  <2>10. next \in Nat \ {0} /\ next <= N + 1 /\ e \in Seq(Int) /\ Len(e) = 0
         /\ (next <= N => nCols(next) \in Nat)
    BY <1>0, <2>1, EmptySeq
  <2>11. next = s.row + 1 /\ e = << >>
    OBVIOUS
  <2> HIDE DEF tail, all, ave, next, e
  <2>12. t = [row |-> next, filled |-> e, left |-> tail, all |-> all, ave |-> ave]
    BY <1>1, <2>9
  <2>13. t.row = next /\ t.filled = e /\ t.left = tail /\ t.all = all /\ t.ave = ave
    BY <2>12
  <2>14. t \in RowStates
    <3>1. next <= N => Len(e) <= nCols(next)
      BY <2>10
    <3>2. t \in [row : Nat \ {0}, filled : Seq(Int), left : Seq(Int), all : Seq(Int), ave : Seq(Int \X Int)]
      BY <2>5, <2>7, <2>8, <2>10, <2>12
    <3> QED
      BY <2>10, <2>13, <3>1, <3>2 DEF RowStates
  <2>15. EndOfRow(s, t)
    BY <1>6, <2>2, <2>6, <2>11, <2>13 DEF EndOfRow, row, all, ave, tail, needed, Needed
  <2> QED
    BY <2>14, <2>15
<1> QED
  BY <1>4, <1>5, <1>6

FillOf(f, s, b) ==
  f = [t \in SUBSET (DOMAIN s) |-> IF t = {} THEN b ELSE FillRow(f[t \ {Max(t)}], s[Max(t)])]

LEMMA FillUnfolds ==
  ASSUME NEW s, NEW b
  PROVE  FoldLeft(FillRow, b, s) = (CHOOSE f : FillOf(f, s, b))[DOMAIN s]
<1>1. FoldLeft(FillRow, b, s) =
        (CHOOSE f : f = [t \in SUBSET (DOMAIN s) |->
            IF t = {} THEN b ELSE FillRow(f[t \ {Max(t)}], s[Max(t)])])[DOMAIN s]
  BY Zenon DEF FoldLeft, MapThenFoldSet
<1> QED
  BY <1>1, Zenon DEF FillOf

(* One turn after the other.                                               *)
Turns(q, b, n) ==
  /\ q \in [0 .. n -> RowStates] /\ q[0] = b
  /\ \A k \in 1 .. n : q[k] = FillRow(q[k - 1], k)

LEMMA TurnsInTurn ==
  ASSUME Recipe, NEW b \in RowStates, NEW n \in Nat
  PROVE  \E q : Turns(q, b, n) /\ FoldLeft(FillRow, b, [i \in 1 .. n |-> i]) = q[n]
<1> DEFINE s == [i \in 1 .. n |-> i]
           X == RowStates
           step == [p \in (1 .. n) \X X |-> FillRow(p[2], p[1])]
           f == CHOOSE f : FillOf(f, s, b)
<1>1. DOMAIN s = 1 .. n /\ \A i \in 1 .. n : s[i] = i
  OBVIOUS
<1>2. step \in [(1 .. n) \X X -> X]
  <2> SUFFICES ASSUME NEW p \in (1 .. n) \X X PROVE FillRow(p[2], p[1]) \in X
    OBVIOUS
  <2>1. p[2] \in RowStates
    OBVIOUS
  <2> QED
    BY <2>1, Turn
<1>a. X = RowStates
  OBVIOUS
<1> HIDE DEF X, s
<1>3. PICK g : SetRecurs(g, X, b, n, step)
  <2>1. b \in X
    BY <1>a
  <2> HIDE DEF step
  <2> QED
    BY <1>2, <2>1, SetRecursionHasSolution
<1>4. FillOf(g, s, b)
  <2>1. g = [t \in SUBSET (1 .. n) |-> g[t]]
    BY <1>3 DEF SetRecurs
  <2>2. ASSUME NEW t \in SUBSET (1 .. n)
        PROVE  g[t] = IF t = {} THEN b ELSE FillRow(g[t \ {Max(t)}], s[Max(t)])
    <3>1. g[t] = IF t = {} THEN b ELSE step[<<Max(t), g[t \ {Max(t)}]>>]
      BY <1>3, Zenon DEF SetRecurs
    <3>2. t # {} => <<Max(t), g[t \ {Max(t)}]>> \in (1 .. n) \X X /\ s[Max(t)] = Max(t)
      <4> SUFFICES ASSUME t # {}
                   PROVE  <<Max(t), g[t \ {Max(t)}]>> \in (1 .. n) \X X /\ s[Max(t)] = Max(t)
        OBVIOUS
      <4>1. Max(t) \in t
        BY GreatestIndex
      <4>2. t \ {Max(t)} \in SUBSET (1 .. n)
        OBVIOUS
      <4>3. g[t \ {Max(t)}] \in X
        BY <1>3, <4>2 DEF SetRecurs
      <4> QED
        BY <1>1, <4>1, <4>3
    <3> QED
      BY <3>1, <3>2
  <2> QED
    BY <1>1, <2>1, <2>2, Zenon DEF FillOf
<1>5. FillOf(f, s, b)
  BY <1>4, Zenon
<1>6. FoldLeft(FillRow, b, s) = f[1 .. n]
  <2>1. FoldLeft(FillRow, b, s) = f[DOMAIN s]
    BY FillUnfolds
  <2> HIDE DEF f
  <2> QED
    BY <1>1, <2>1
<1> HIDE DEF f
<1>7. \A t \in SUBSET (1 .. n) :
        f[t] = IF t = {} THEN b ELSE FillRow(f[t \ {Max(t)}], s[Max(t)])
  BY <1>1, <1>5, Zenon DEF FillOf
<1>8. ASSUME NEW k \in 1 .. n PROVE f[1 .. k] = FillRow(f[1 .. k - 1], k)
  <2>1. 1 .. k \in SUBSET (1 .. n) /\ 1 .. k # {} /\ Max(1 .. k) = k /\ (1 .. k) \ {k} = 1 .. k - 1
    BY UpTo
  <2>2. f[1 .. k] = FillRow(f[(1 .. k) \ {Max(1 .. k)}], s[Max(1 .. k)])
    BY <1>7, <2>1, Zenon
  <2> QED
    BY <1>1, <2>1, <2>2, Zenon
<1> DEFINE q == [k \in 0 .. n |-> f[1 .. k]]
<1>9. q[0] = b /\ 0 \in 0 .. n /\ n \in 0 .. n /\ q[n] = f[1 .. n]
  <2>1. 1 .. 0 = {}
    OBVIOUS
  <2>2. f[{}] = b
    BY <1>7, Zenon
  <2> QED
    BY <2>1, <2>2
<1>10. ASSUME NEW k \in 1 .. n
       PROVE  k \in 0 .. n /\ k - 1 \in 0 .. n /\ q[k] = FillRow(q[k - 1], k)
  <2>1. k \in 0 .. n /\ k - 1 \in 0 .. n
    OBVIOUS
  <2>2. q[k] = f[1 .. k] /\ q[k - 1] = f[1 .. k - 1]
    BY <2>1
  <2> HIDE DEF q
  <2> QED
    BY <1>8, <2>1, <2>2
<1> DEFINE T == {k \in 0 .. n : q[k] \notin X}
<1>11. T = {}
  <2>1. SUFFICES ASSUME T # {} PROVE FALSE
    OBVIOUS
  <2>2. PICK m \in T : \A k \in T : m <= k
    <3>1. T \in SUBSET Nat
      OBVIOUS
    <3> HIDE DEF T
    <3> QED
      BY <2>1, <3>1, SmallestNumber
  <2>3. m \in 0 .. n /\ q[m] \notin X /\ m \in Nat
    OBVIOUS
  <2> HIDE DEF q
  <2>4. m # 0
    BY <1>9, <1>a, <2>3
  <2>5. m \in 1 .. n /\ m - 1 \in 0 .. n /\ ~(m <= m - 1)
    BY <2>3, <2>4
  <2>6. q[m - 1] \in X
    BY <2>2, <2>5
  <2>7. q[m] \in X
    BY <1>10, <1>a, <2>5, <2>6, Turn
  <2> QED
    BY <2>3, <2>7
<1>12. Turns(q, b, n)
  <2>1. q \in [0 .. n -> X]
    BY <1>11
  <2> HIDE DEF q
  <2> QED
    BY <1>9, <1>10, <1>a, <2>1 DEF Turns
<1> QED
  <2> HIDE DEF q
  <2> QED
    BY <1>6, <1>9, <1>12 DEF s

-----------------------------------------------------------------------------
(* The types of what a conversion works on.                                *)

ImageTyped(o) == \E V : o \in Images(V) /\ Within(o)

RowsTyped(rs) ==
  /\ rs \in [F!HDUs -> [row : Nat \ {0}, filled : Seq(Int)]]
  /\ \A h \in F!HDUs : /\ rs[h].row <= Len(job.nSamps) + 1
                       /\ rs[h].row <= Len(job.nSamps) => Len(rs[h].filled) <= nCols(rs[h].row)

LEMMA DumpTypedImage ==
  ASSUME NEW D, IsFiniteSet(D), NEW o, ImageTyped(o), NEW hdu, NEW W, NEW px \in [D -> Seq(W)]
  PROVE  ImageTyped(dump_channels(o, hdu, px))
<1>1. PICK V : o \in Images(V) /\ Within(o)
  BY DEF ImageTyped
<1> DEFINE U == V \cup W
<1>2. o \in Images(U)
  <2>1. V \subseteq U
    OBVIOUS
  <2> HIDE DEF U
  <2> QED
    BY <1>1, <2>1, ImagesGrow
<1>3. px \in [D -> Seq(U)]
  <2>1. Seq(W) \subseteq Seq(U)
    BY SeqMonotonic
  <2> QED
    BY <2>1
<1> HIDE DEF U
<1> DEFINE r == dump_channels(o, hdu, px)
<1>4. r = dump_channels(o, hdu, px)
  OBVIOUS
<1> HIDE DEF r
<1>5. r \in Images(U) /\ Within(r)
  BY <1>1, <1>2, <1>3, <1>4, DumpWithin
<1> QED
  BY <1>4, <1>5 DEF ImageTyped

LEMMA Indices ==
  ASSUME NEW S, NEW s \in Seq(S)
  PROVE  Len(s) \in Nat /\ DOMAIN s = 1 .. Len(s) /\ IsFiniteSet(DOMAIN s)
<1>1. Len(s) \in Nat /\ DOMAIN s = 1 .. Len(s)
  BY LenProperties
<1> QED
  BY <1>1, FS_Interval

(* A part of a sequence, which may be empty. *)
LEMMA PartOf ==
  ASSUME NEW S, NEW x \in Seq(S), NEW k \in Nat
  PROVE  /\ SubSeq(x, k + 1, Len(x)) \in Seq(S)
         /\ Len(SubSeq(x, k + 1, Len(x))) = IF k <= Len(x) THEN Len(x) - k ELSE 0
         /\ \A i \in 1 .. Len(SubSeq(x, k + 1, Len(x))) : SubSeq(x, k + 1, Len(x))[i] = x[k + i]
<1> DEFINE n == Len(x)
           t == SubSeq(x, k + 1, Len(x))
<1>1. n \in Nat /\ k + 1 \in Int
  BY LenProperties
<1>2. \A i \in k + 1 .. n : i \in 1 .. n /\ x[i] \in S
  BY <1>1, ElementOfSeq
<1>3. /\ t \in Seq(S)
      /\ Len(t) = IF k + 1 <= n THEN n - (k + 1) + 1 ELSE 0
      /\ \A i \in 1 .. n - (k + 1) + 1 : t[i] = x[(k + 1) + i - 1]
  BY <1>1, <1>2, SubSeqProperties
<1> HIDE DEF n, t
<1>4. Len(t) = IF k <= n THEN n - k ELSE 0
  BY <1>1, <1>3
<1>5. ASSUME NEW i \in 1 .. Len(t) PROVE t[i] = x[k + i]
  <2>1. i \in 1 .. n - (k + 1) + 1 /\ (k + 1) + i - 1 = k + i
    BY <1>1, <1>4
  <2> QED
    BY <1>3, <2>1
<1> QED
  BY <1>3, <1>4, <1>5 DEF n, t

LEMMA Computed ==
  ASSUME NEW pv \in Seq(Seq(Int)), NEW next, ImageTyped(outf), compute_pixel_value(pv, next)
  PROVE  /\ ImageTyped(outf') /\ phase' \in {next, "undefined"}
         /\ pixelsVector' \in Seq(Seq(Int)) /\ Len(pixelsVector') = Len(pv)
<1> DEFINE new == [i \in DOMAIN pv |-> [k \in 1 .. PixelsReady(pv, i - 1) |-> Pixel(pv, i - 1, k - 1)]]
           kept(i) == Len(F!Written(outf, i, new[i]))
           hdu == [i \in DOMAIN pv |-> i]
           rest == [i \in DOMAIN pv |-> SubSeq(pv[i], 3 * kept(i) + 1, Len(pv[i]))]
<1>1. IF ComputeInBounds(pv)
      THEN outf' = dump_channels(outf, hdu, new) /\ pixelsVector' = rest /\ phase' = next
      ELSE phase' = "undefined" /\ pixelsVector' = pv /\ UNCHANGED outf
  BY Zenon DEF compute_pixel_value
<1>2. CASE ~ComputeInBounds(pv)
  BY <1>1, <1>2
<1>3. CASE ComputeInBounds(pv)
  <2> DEFINE D == DOMAIN pv
             n == Len(pv)
             W == {Pixel(pv, p, k) : p \in Nat, k \in Nat}
  <2>1. n \in Nat /\ D = 1 .. n /\ IsFiniteSet(D)
    BY Indices
  <2>2. ASSUME NEW i \in D PROVE PixelsReady(pv, i - 1) \in Nat /\ i - 1 \in Nat /\ pv[i] \in Seq(Int)
    <3>1. i - 1 \in Nat /\ (i - 1) + 1 = i /\ pv[i] \in Seq(Int) /\ Len(pv[i]) \in Nat
      BY <2>1, ElementOfSeq, LenProperties
    <3>2. Len(pv[i]) \div 3 \in Nat
      BY <3>1
    <3>3. PixelsReady(pv, i - 1) = IF i - 1 <= 3 THEN Len(pv[i]) \div 3 ELSE 0
      BY <3>1 DEF PixelsReady
    <3> QED
      BY <3>1, <3>2, <3>3
  <2>3. new \in [D -> Seq(W)]
    <3> SUFFICES ASSUME NEW i \in D
                 PROVE  [k \in 1 .. PixelsReady(pv, i - 1) |-> Pixel(pv, i - 1, k - 1)] \in Seq(W)
      OBVIOUS
    <3> DEFINE m == PixelsReady(pv, i - 1)
               p == i - 1
    <3>1. m \in Nat /\ p \in Nat
      BY <2>2
    <3> HIDE DEF m, p
    <3>2. \A k \in 1 .. m : Pixel(pv, p, k - 1) \in W
      <4>1. \A k \in 1 .. m : k - 1 \in Nat
        BY <3>1
      <4> QED
        BY <3>1, <4>1
    <3> HIDE DEF W
    <3>3. [k \in 1 .. m |-> Pixel(pv, p, k - 1)] \in Seq(W)
      BY <3>1, <3>2
    <3> QED
      BY <3>3 DEF m, p
  <2> HIDE DEF new, W
  <2>4. ImageTyped(dump_channels(outf, hdu, new))
    BY <2>1, <2>3, DumpTypedImage
  <2>5. \A i \in D : kept(i) \in Nat
    <3> SUFFICES ASSUME NEW i \in D PROVE Len(F!Written(outf, i, new[i])) \in Nat
      OBVIOUS
    <3>1. new[i] \in Seq(W)
      BY <2>3
    <3>2. CASE i \notin F!HDUs
      BY <3>1, <3>2, LenProperties DEF F!Written
    <3>3. CASE i \in F!HDUs
      <4>1. PICK V : outf \in Images(V)
        BY DEF ImageTyped
      <4> DEFINE U == V \cup W
                 x == new[i]
                 room == outf.pixExpected - outf.pixelCounts[i]
      <4>2. outf \in Images(U) /\ x \in Seq(U)
        <5>1. V \subseteq U /\ Seq(W) \subseteq Seq(U)
          BY SeqMonotonic
        <5> HIDE DEF U
        <5> QED
          BY <3>1, <4>1, <5>1, ImagesGrow
      <4> HIDE DEF U
      <4>3. F!Written(outf, i, x) \in Seq(U)
        BY <3>3, <4>2, WrittenIs
      <4> QED
        BY <4>3, LenProperties
    <3> QED
      BY <3>2, <3>3
  <2> HIDE DEF kept
  <2>6. rest \in [1 .. n -> Seq(Int)]
    <3> SUFFICES ASSUME NEW i \in D PROVE SubSeq(pv[i], 3 * kept(i) + 1, Len(pv[i])) \in Seq(Int)
      BY <2>1
    <3> DEFINE k == 3 * kept(i)
    <3>1. k \in Nat /\ pv[i] \in Seq(Int)
      BY <2>2, <2>5
    <3> HIDE DEF k
    <3>2. SubSeq(pv[i], k + 1, Len(pv[i])) \in Seq(Int)
      BY <3>1, PartOf
    <3> QED
      BY <3>2 DEF k
  <2> HIDE DEF rest
  <2>7. rest \in Seq(Seq(Int)) /\ Len(rest) = n
    BY <2>1, <2>6
  <2> QED
    BY <1>1, <1>3, <2>4, <2>7
<1> QED
  BY <1>2, <1>3

(* What FillRows starts from.                                              *)
RowStart(rs, h, pixels) ==
  [row |-> rs[h].row, filled |-> rs[h].filled, left |-> pixels, all |-> << >>, ave |-> << >>]

LEMMA RowsFilled ==
  ASSUME Recipe, RowsTyped(rows), NEW h \in F!HDUs, NEW pixels \in Seq(Int)
  PROVE  /\ RowStart(rows, h, pixels) \in RowStates
         /\ Len(pixels) + Len(job.nSamps) \in Nat
         /\ \E q : /\ Turns(q, RowStart(rows, h, pixels), Len(pixels) + Len(job.nSamps))
                   /\ FillRows(h, pixels) = q[Len(pixels) + Len(job.nSamps)]
<1> DEFINE b == RowStart(rows, h, pixels)
           n == Len(pixels) + Len(job.nSamps)
<1>1. n \in Nat
  BY WidthOfRow, LenProperties
<1>2. b \in RowStates
  <2>1. << >> \in Seq(Int) /\ << >> \in Seq(Int \X Int)
    BY EmptySeq
  <2>2. b.row = rows[h].row /\ b.filled = rows[h].filled
    BY DEF RowStart
  <2>3. b \in [row : Nat \ {0}, filled : Seq(Int), left : Seq(Int), all : Seq(Int), ave : Seq(Int \X Int)]
    BY <2>1 DEF RowsTyped, RowStart
  <2> QED
    BY <2>2, <2>3 DEF RowStates, RowsTyped
<1>3. FillRows(h, pixels) = FoldLeft(FillRow, b, [i \in 1 .. n |-> i])
  BY Zenon DEF FillRows, RowStart
<1> HIDE DEF b, n
<1>4. \E q : Turns(q, b, n) /\ FoldLeft(FillRow, b, [i \in 1 .. n |-> i]) = q[n]
  BY <1>1, <1>2, TurnsInTurn
<1> QED
  BY <1>1, <1>2, <1>3, <1>4 DEF b, n

LEMMA RowsFilledTyped ==
  ASSUME Recipe, RowsTyped(rows), NEW h \in F!HDUs, NEW pixels \in Seq(Int)
  PROVE  FillRows(h, pixels) \in RowStates
<1> DEFINE n == Len(pixels) + Len(job.nSamps)
<1>1. n \in Nat
  BY RowsFilled
<1>2. PICK q : Turns(q, RowStart(rows, h, pixels), n) /\ FillRows(h, pixels) = q[n]
  BY RowsFilled
<1> HIDE DEF n
<1>3. n \in 0 .. n
  BY <1>1
<1> QED
  BY <1>2, <1>3 DEF Turns

LEMMA ComputedSmart ==
  ASSUME Recipe, RowsTyped(rows), UNCHANGED job,
         NEW pv \in Seq(Seq(Int)), NEW next, ImageTyped(outf), ImageTyped(outfAve),
         compute_pixel_value_smart(pv, next)
  PROVE  /\ ImageTyped(outf') /\ ImageTyped(outfAve') /\ RowsTyped(rows')
         /\ phase' \in {next, "undefined"}
         /\ pixelsVector' \in Seq(Seq(Int)) /\ Len(pixelsVector') = Len(pv)
<1> DEFINE D == DOMAIN pv
           done == [h \in D |-> FillRows(h, pv[h])]
           hdu == [h \in D |-> h]
           all == [h \in D |-> done[h].all]
           ave == [h \in D |-> done[h].ave]
           none == [h \in D |-> << >>]
<1>1. IF Len(pv) <= NumChannels
      THEN /\ outf' = dump_channels(outf, hdu, all)
           /\ outfAve' = dump_channels(outfAve, hdu, ave)
           /\ rows' = [h \in F!HDUs |-> IF h \in D
                                        THEN [row |-> done[h].row, filled |-> done[h].filled]
                                        ELSE rows[h]]
           /\ pixelsVector' = none
           /\ phase' = next
      ELSE phase' = "undefined" /\ pixelsVector' = pv /\ UNCHANGED <<outf, outfAve, rows>>
  BY Zenon DEF compute_pixel_value_smart
<1>2. CASE ~(Len(pv) <= NumChannels)
  BY <1>1, <1>2
<1>3. CASE Len(pv) <= NumChannels
  <2>1. Len(pv) \in Nat /\ D = 1 .. Len(pv) /\ IsFiniteSet(D)
    BY Indices
  <2>2. \A h \in D : h \in F!HDUs /\ pv[h] \in Seq(Int)
    BY <1>3, <2>1, ElementOfSeq, ReaderAssumption DEF F!HDUs
  <2>3. \A h \in D : done[h] \in RowStates
    BY <2>2, RowsFilledTyped
  <2> HIDE DEF done
  <2>4. \A h \in D :
          /\ done[h].row \in Nat \ {0} /\ done[h].filled \in Seq(Int)
          /\ done[h].all \in Seq(Int) /\ done[h].ave \in Seq(Int \X Int)
          /\ done[h].row <= Len(job.nSamps) + 1
          /\ done[h].row <= Len(job.nSamps) => Len(done[h].filled) <= nCols(done[h].row)
    BY <2>3 DEF RowStates
  <2>5. all \in [D -> Seq(Int)] /\ ave \in [D -> Seq(Int \X Int)]
    BY <2>4
  <2>6. none \in Seq(Seq(Int)) /\ Len(none) = Len(pv)
    <3>1. << >> \in Seq(Int)
      BY EmptySeq
    <3> QED
      BY <2>1, <3>1
  <2> HIDE DEF all, ave, hdu, none, D
  <2>7. ImageTyped(dump_channels(outf, hdu, all)) /\ ImageTyped(dump_channels(outfAve, hdu, ave))
    BY <2>1, <2>5, DumpTypedImage
  <2> DEFINE rs == [h \in F!HDUs |-> IF h \in D
                                     THEN [row |-> done[h].row, filled |-> done[h].filled]
                                     ELSE rows[h]]
  <2>8. RowsTyped(rs)
    BY <2>4 DEF RowsTyped
  <2>9. rows' = rs
    BY <1>1, <1>3
  <2> HIDE DEF rs
  <2> QED
    BY <1>1, <1>3, <2>6, <2>7, <2>8, <2>9
<1> QED
  BY <1>2, <1>3

(* The modes whose loops give the channels places.                         *)
Placing == {"interleaving", "smart", "calibrate"}

PlacedInv ==
  \E w \in Seq(Words(job.nch)) :
    /\ Ordered(job.nch, w, pixelsVector, channelIndex)
    /\ job.mode \in Placing /\ phase # "undefined" => HandedOut(w)

TypesInv ==
  /\ pixelsVectorMap \in [DOMAIN pixelsVectorMap -> Seq(Int)]
  /\ DOMAIN pixelsVectorMap \subseteq 0 .. job.nch - 1
  /\ bufferedWords \in Nat
  /\ ImageTyped(outf) /\ ImageTyped(outfAve)
  /\ job.mode = "smart" => RowsTyped(rows)
  /\ fits \in {"none", "open", "closed"} /\ fz \in {"none", "partial", "whole"}

LEMMA OrderedAnew ==
  ASSUME NEW nch, NEW w, NEW pv, NEW ci, Ordered(nch, w, pv, ci),
         NEW pw \in Seq(Seq(Int)), Len(pw) = Len(pv)
  PROVE  Ordered(nch, w, pw, ci)
BY DEF Ordered

LEMMA OrderedFirst ==
  ASSUME NEW nch \in Nat
  PROVE  << >> \in Seq(Words(nch)) /\ Ordered(nch, << >>, << >>, << >>)
<1>1. << >> \in Seq(Words(nch)) /\ << >> \in Seq(Seq(Int)) /\ << >> \in Seq(Int) /\ Len(<< >>) = 0
  BY EmptySeq
<1>2. Ids(<< >>) = {}
  BY <1>1 DEF Ids
<1>3. IsFiniteSet({}) /\ Cardinality({}) = 0
  BY FS_EmptySet
<1> QED
  BY <1>1, <1>2, <1>3 DEF Ordered

LEMMA SmartRecipe == ASSUME JobInv, job.mode = "smart" PROVE Recipe
<1> DEFINE j == [job EXCEPT !.tool = FALSE]
<1>1. j \in Jobs /\ j.mode = "smart" /\ j.nSamps = job.nSamps /\ j.nColsAve = job.nColsAve
      /\ job.nSamps \in Seq(Seq(Nat)) /\ job.nColsAve \in Nat
  BY DEF JobInv
<1> HIDE DEF j
<1>2. j.nSamps # << >> /\ \A r \in DOMAIN j.nSamps : Len(j.nSamps[r]) = j.nColsAve
  BY <1>1, ConversionAssumption
<1> QED
  BY <1>1, <1>2 DEF Recipe

LEMMA NewImageTyped ==
  ASSUME NEW width \in Nat, NEW height \in Nat
  PROVE  ImageTyped(F!create_img(width, height))
<1> DEFINE o == F!create_img(width, height)
<1>1. o = F!create_img(width, height)
  OBVIOUS
<1> HIDE DEF o
<1>2. o \in Images(Int) /\ Blank(o)
  BY <1>1, NewImageBlank
<1>3. Within(o)
  <2>1. Len(<< >>) = 0
    BY EmptySeq
  <2> QED
    BY <1>2, <2>1 DEF Within, Blank, Images
<1> QED
  BY <1>1, <1>2, <1>3 DEF ImageTyped

LEMMA TypesInit == ASSUME Init PROVE PlacedInv /\ TypesInv
<1>1. JobInv /\ ReaderInv /\ rd = NewReader /\ job.nch \in Nat
  BY InitInv DEF Init, Inv, JobInv
<1>2. HandedOut(<< >>)
  BY <1>1, PassedFresh
<1>3. PlacedInv
  <2>1. pixelsVector = << >> /\ channelIndex = << >>
    BY DEF Init
  <2> QED
    BY <1>1, <1>2, <2>1, OrderedFirst DEF PlacedInv
<1>4. ImageTyped(outf) /\ ImageTyped(outfAve)
  <2>1. Len(job.nSamps) \in Nat /\ job.nCols \in Nat /\ job.nRows \in Nat /\ job.nColsAve \in Nat
    BY <1>1, LenProperties DEF JobInv
  <2>2. job.mode = "smart" => nColsAllMax \in Nat
    BY <1>1, SmartRecipe, WidthOfRow
  <2>3. outf = NewImage /\ outfAve = F!create_img(job.nColsAve, Len(job.nSamps))
    BY DEF Init
  <2> QED
    BY <2>1, <2>2, <2>3, NewImageTyped DEF NewImage
<1>5. job.mode = "smart" => RowsTyped(rows)
  <2> SUFFICES ASSUME job.mode = "smart" PROVE RowsTyped(rows)
    OBVIOUS
  <2>1. Len(job.nSamps) \in Nat \ {0} /\ \A r \in 1 .. Len(job.nSamps) : nCols(r) \in Nat
    BY <1>1, SmartRecipe, WidthOfRow
  <2>2. rows = [h \in F!HDUs |-> [row |-> 1, filled |-> << >>]]
    BY DEF Init, NoRows
  <2>3. << >> \in Seq(Int) /\ Len(<< >>) = 0
    BY EmptySeq
  <2>4. nCols(1) \in Nat
    BY <2>1
  <2> QED
    BY <2>1, <2>2, <2>3, <2>4 DEF RowsTyped
<1>6. pixelsVectorMap = << >> /\ bufferedWords = 0 /\ fits = "open" /\ fz = "none"
  BY DEF Init
<1> QED
  BY <1>3, <1>4, <1>5, <1>6 DEF TypesInv

(* One word more in its channel's place. *)
LEMMA WordInPlace ==
  ASSUME Inv, ImageInv, PlacedInv, NEW mode \in Placing, NEW value \in Int, PlaceWord(mode, value),
         phase # "undefined", NEW pv, pv = VectorWith(NextWord, value)
  PROVE  /\ pv \in Seq(Seq(Int))
         /\ \E w \in Seq(Words(job.nch)) :
              /\ HandedOut(w)' /\ Ordered(job.nch, w, pv, channelIndex')
<1>1. /\ ReaderInv /\ ReaderPlace /\ job.nch \in Nat /\ HasWord /\ PopWord /\ UNCHANGED job
      /\ job.mode \in Placing
  BY DEF Inv, ImageInv, JobInv, PlaceWord, InLoop
<1>2. /\ NextWord \in Words(job.nch)
      /\ \A w, v : HandedOut(w) /\ v = NextWord => HandedOut(Append(w, v))'
  BY <1>1, PassedPopWord
<1>3. PICK w \in Seq(Words(job.nch)) : Ordered(job.nch, w, pixelsVector, channelIndex) /\ HandedOut(w)
  BY <1>1 DEF PlacedInv
<1>4. PICK v : v = NextWord
  OBVIOUS
<1>5. HandedOut(Append(w, v))'
  BY <1>2, <1>3, <1>4
<1>6. v \in Words(job.nch) /\ ~OutsideVector(v) /\ pv = VectorWith(v, value)
      /\ channelIndex' = PlacesWith(v)
  BY <1>2, <1>4 DEF PlaceWord
<1>7. Ordered(job.nch, Append(w, v), pv, PlacesWith(v))
  BY <1>1, <1>3, <1>6, WordPlaced
<1>8. Append(w, v) \in Seq(Words(job.nch)) /\ pv \in Seq(Seq(Int))
  BY <1>3, <1>6, <1>7, AppendProperties DEF Ordered
<1> QED
  BY <1>5, <1>6, <1>7, <1>8

LEMMA NextWordTyped ==
  ASSUME Inv, ImageInv, HasWord, PopWord, UNCHANGED job
  PROVE  /\ NextWord.samp \in Int /\ -NextWord.samp \in Int
         /\ NextWord.chID \in 0 .. job.nch - 1
<1>1. NextWord \in Words(job.nch)
  BY PassedPopWord DEF Inv, ImageInv
<1> QED
  BY <1>1 DEF Words

(* The steps of the loops and the ends that use the channels' places.      *)
LEMMA PlacedWordStep ==
  ASSUME Inv, ImageInv, PlacedInv, TypesInv,
         InterleavingWord \/ SmartWord \/ CalibrateWord
  PROVE  PlacedInv' /\ TypesInv'
<1>1. /\ phase = "read" /\ HasWord /\ PopWord /\ UNCHANGED job /\ job.nch \in Nat
      /\ UNCHANGED <<pixelsVectorMap, bufferedWords, fits, fz>>
  BY DEF InterleavingWord, SmartWord, CalibrateWord, PlaceWord, InLoop, Inv, JobInv, diskVars
<1>2. NextWord.samp \in Int /\ -NextWord.samp \in Int
  BY <1>1, NextWordTyped
<1>3. ASSUME NEW pv, pixelsVector' \in Seq(Seq(Int)), Len(pixelsVector') = Len(pv),
             \E w \in Seq(Words(job.nch)) : HandedOut(w)' /\ Ordered(job.nch, w, pv, channelIndex')
      PROVE  PlacedInv'
  <2>1. PICK w \in Seq(Words(job.nch)) : HandedOut(w)' /\ Ordered(job.nch, w, pv, channelIndex')
    BY <1>3
  <2>2. Ordered(job.nch, w, pixelsVector', channelIndex')
    BY <1>3, <2>1, OrderedAnew
  <2> QED
    BY <1>1, <2>1, <2>2 DEF PlacedInv
<1>4. CASE InterleavingWord
  <2> DEFINE pv == VectorWith(NextWord, NextWord.samp)
  <2>1. /\ PlaceWord("interleaving", NextWord.samp)
        /\ \/ compute_pixel_value(pv, "read")
           \/ pixelsVector' = pv /\ UNCHANGED <<outf, phase>>
        /\ UNCHANGED <<rows, outfAve>>
    BY <1>4, Zenon DEF InterleavingWord
  <2>p. pv = VectorWith(NextWord, NextWord.samp)
    OBVIOUS
  <2> HIDE DEF pv
  <2>2. /\ pv \in Seq(Seq(Int))
        /\ \E w \in Seq(Words(job.nch)) : HandedOut(w)' /\ Ordered(job.nch, w, pv, channelIndex')
    BY <1>1, <1>2, <2>1, <2>p, WordInPlace DEF Placing
  <2>3. pixelsVector' \in Seq(Seq(Int)) /\ Len(pixelsVector') = Len(pv) /\ ImageTyped(outf')
    BY <2>1, <2>2, Computed DEF TypesInv
  <2>4. PlacedInv'
    BY <1>3, <2>2, <2>3
  <2>5. TypesInv'
    <3>1. job.mode # "smart"
      BY <2>1 DEF PlaceWord, InLoop
    <3> QED
      BY <1>1, <2>1, <2>3, <3>1 DEF TypesInv
  <2> QED
    BY <2>4, <2>5
<1>5. CASE SmartWord
  <2> DEFINE pv == VectorWith(NextWord, -NextWord.samp)
  <2>1. /\ PlaceWord("smart", -NextWord.samp)
        /\ \/ compute_pixel_value_smart(pv, "read")
           \/ pixelsVector' = pv /\ UNCHANGED <<outf, outfAve, rows, phase>>
    BY <1>5, Zenon DEF SmartWord
  <2>p. pv = VectorWith(NextWord, -NextWord.samp)
    OBVIOUS
  <2> HIDE DEF pv
  <2>2. /\ pv \in Seq(Seq(Int))
        /\ \E w \in Seq(Words(job.nch)) : HandedOut(w)' /\ Ordered(job.nch, w, pv, channelIndex')
    BY <1>1, <1>2, <2>1, <2>p, WordInPlace DEF Placing
  <2>3. Recipe /\ RowsTyped(rows) /\ job.mode = "smart"
    BY <2>1, SmartRecipe DEF Inv, PlaceWord, InLoop, TypesInv
  <2>4. /\ pixelsVector' \in Seq(Seq(Int)) /\ Len(pixelsVector') = Len(pv)
        /\ ImageTyped(outf') /\ ImageTyped(outfAve') /\ RowsTyped(rows')
    BY <1>1, <2>1, <2>2, <2>3, ComputedSmart DEF TypesInv
  <2>5. PlacedInv'
    BY <1>3, <2>2, <2>4
  <2>6. RowsTyped(rows)'
    BY <1>1, <2>4 DEF RowsTyped, nCols
  <2>7. TypesInv'
    BY <1>1, <2>4, <2>6 DEF TypesInv
  <2> QED
    BY <2>5, <2>7
<1>6. CASE CalibrateWord
  <2> DEFINE pv == VectorWith(NextWord, NextWord.samp)
  <2>1. /\ PlaceWord("calibrate", NextWord.samp)
        /\ pixelsVector' = pv /\ UNCHANGED <<phase, rows, outf, outfAve>>
    BY <1>6, Zenon DEF CalibrateWord
  <2>p. pv = VectorWith(NextWord, NextWord.samp)
    OBVIOUS
  <2> HIDE DEF pv
  <2>2. /\ pv \in Seq(Seq(Int))
        /\ \E w \in Seq(Words(job.nch)) : HandedOut(w)' /\ Ordered(job.nch, w, pv, channelIndex')
    BY <1>1, <1>2, <2>1, <2>p, WordInPlace DEF Placing
  <2>3. PlacedInv'
    BY <1>3, <2>1, <2>2
  <2>4. TypesInv'
    <3>1. job.mode # "smart"
      BY <2>1 DEF PlaceWord, InLoop
    <3> QED
      BY <1>1, <2>1, <3>1 DEF TypesInv
  <2> QED
    BY <2>3, <2>4
<1> QED
  BY <1>4, <1>5, <1>6

LEMMA StillHandedOut == ASSUME UNCHANGED <<readerVars, job>>, NEW w, HandedOut(w) PROVE HandedOut(w)'
BY DEF HandedOut, Passed, Recorded, FileWords, PacketWords, readerVars

LEMMA PlacedEndStep ==
  ASSUME Inv, ImageInv, PlacedInv, TypesInv,
         InterleavingEnd \/ SmartEnd \/ CalibrateEnd
  PROVE  PlacedInv' /\ TypesInv'
<1>1. /\ phase = "read" /\ UNCHANGED <<readerVars, job>> /\ job.nch \in Nat /\ job.mode \in Placing
      /\ UNCHANGED <<pixelsVectorMap, bufferedWords, channelIndex, fz>> /\ fits' = "closed"
  BY DEF InterleavingEnd, SmartEnd, CalibrateEnd, AtEnd, Inv, JobInv, imageVars, Placing
<1>2. PICK w \in Seq(Words(job.nch)) : Ordered(job.nch, w, pixelsVector, channelIndex) /\ HandedOut(w)
  BY <1>1 DEF PlacedInv
<1>3. HandedOut(w)' /\ pixelsVector \in Seq(Seq(Int))
  BY <1>1, <1>2, StillHandedOut DEF Ordered
<1>4. ASSUME pixelsVector' \in Seq(Seq(Int)), Len(pixelsVector') = Len(pixelsVector)
      PROVE  PlacedInv'
  <2>1. Ordered(job.nch, w, pixelsVector', channelIndex')
    BY <1>1, <1>2, <1>4, OrderedAnew
  <2> QED
    BY <1>1, <1>3, <2>1 DEF PlacedInv
<1>5. CASE InterleavingEnd
  <2>1. compute_pixel_value(pixelsVector, "done") /\ UNCHANGED <<rows, outfAve>> /\ job.mode # "smart"
    BY <1>5 DEF InterleavingEnd, AtEnd
  <2>2. pixelsVector' \in Seq(Seq(Int)) /\ Len(pixelsVector') = Len(pixelsVector) /\ ImageTyped(outf')
    BY <1>3, <2>1, Computed DEF TypesInv
  <2> QED
    BY <1>1, <1>4, <2>1, <2>2 DEF TypesInv
<1>6. CASE SmartEnd
  <2>1. compute_pixel_value_smart(pixelsVector, "compress") /\ job.mode = "smart"
    BY <1>6 DEF SmartEnd, AtEnd
  <2>2. Recipe /\ RowsTyped(rows)
    BY <2>1, SmartRecipe DEF Inv, TypesInv
  <2>3. /\ pixelsVector' \in Seq(Seq(Int)) /\ Len(pixelsVector') = Len(pixelsVector)
        /\ ImageTyped(outf') /\ ImageTyped(outfAve') /\ RowsTyped(rows')
    BY <1>1, <1>3, <2>1, <2>2, ComputedSmart DEF TypesInv
  <2>4. RowsTyped(rows)'
    BY <1>1, <2>3 DEF RowsTyped, nCols
  <2> QED
    BY <1>1, <1>4, <2>3, <2>4 DEF TypesInv
<1>7. CASE CalibrateEnd
  <2>1. UNCHANGED imageVars
    BY <1>7 DEF CalibrateEnd
  <2>2. TypesInv'
    BY <1>1, <2>1 DEF TypesInv, imageVars, RowsTyped, nCols
  <2> QED
    BY <1>3, <1>4, <2>1, <2>2 DEF imageVars
<1> QED
  BY <1>5, <1>6, <1>7

(* The steps of bin_to_fits.                                               *)
LEMMA BuffersTyped ==
  ASSUME TypesInv, job.nch \in Nat, NEW map, map \in [DOMAIN map -> Seq(Int)],
         DOMAIN map \subseteq 0 .. job.nch - 1, NEW full, NEW buffered \in Nat, NEW next,
         FlushIf(full, map, buffered, next)
  PROVE  /\ pixelsVectorMap' \in [DOMAIN pixelsVectorMap' -> Seq(Int)]
         /\ DOMAIN pixelsVectorMap' \subseteq 0 .. job.nch - 1
         /\ bufferedWords' \in Nat /\ ImageTyped(outf')
<1>1. \/ Flush(map) /\ bufferedWords' = 0
      \/ pixelsVectorMap' = map /\ bufferedWords' = buffered /\ UNCHANGED outf
  BY DEF FlushIf
<1>2. CASE Flush(map) /\ bufferedWords' = 0
  <2> DEFINE hdu == [c \in Channels(map) |-> HduOf(map, c)]
             none == [c \in Channels(map) |-> << >>]
             D == DOMAIN map
  <2>1. outf' = dump_channels(outf, hdu, map) /\ pixelsVectorMap' = none
    BY <1>2, Zenon DEF Flush
  <2>2. IsFiniteSet(D)
    <3>1. IsFiniteSet(0 .. job.nch - 1) /\ D \subseteq 0 .. job.nch - 1
      BY FS_Interval
    <3> HIDE DEF D
    <3> QED
      BY <3>1, FS_Subset
  <2>3. ImageTyped(dump_channels(outf, hdu, map))
    <3>1. map \in [D -> Seq(Int)]
      OBVIOUS
    <3> HIDE DEF hdu, D
    <3> QED
      BY <2>2, <3>1, DumpTypedImage DEF TypesInv
  <2>4. none \in [DOMAIN none -> Seq(Int)] /\ DOMAIN none = D
    BY EmptySeq DEF Channels
  <2> HIDE DEF none
  <2> QED
    BY <1>2, <2>1, <2>3, <2>4
<1>3. CASE pixelsVectorMap' = map /\ bufferedWords' = buffered /\ UNCHANGED outf
  BY <1>3 DEF TypesInv
<1> QED
  BY <1>1, <1>2, <1>3

LEMMA FitsTypes == ASSUME Inv, ImageInv, TypesInv, FitsWord \/ FitsEnd PROVE TypesInv'
<1>1. /\ UNCHANGED <<job, rows, outfAve, fz>> /\ job.nch \in Nat /\ fits' \in {"closed", fits}
      /\ bufferedWords \in Nat /\ job.mode # "smart"
  BY DEF FitsWord, FitsEnd, FitsLeft, Inv, JobInv, TypesInv, InLoop, AtEnd
<1>2. ASSUME NEW map, map \in [DOMAIN map -> Seq(Int)], DOMAIN map \subseteq 0 .. job.nch - 1,
             NEW full, NEW buffered \in Nat, NEW next, FlushIf(full, map, buffered, next)
      PROVE  TypesInv'
  <2>1. /\ pixelsVectorMap' \in [DOMAIN pixelsVectorMap' -> Seq(Int)]
        /\ DOMAIN pixelsVectorMap' \subseteq 0 .. job.nch - 1
        /\ bufferedWords' \in Nat /\ ImageTyped(outf')
    BY <1>1, <1>2, BuffersTyped
  <2> QED
    BY <1>1, <2>1 DEF TypesInv
<1>3. CASE FitsWord
  <2> DEFINE w == NextWord
             map == Buffered(pixelsVectorMap, w)
             full == bufferedWords + 1 >= ChunkSize
             b == bufferedWords + 1
  <2>1. HasWord /\ PopWord /\ FlushIf(full, map, b, "read") /\ b \in Nat
    BY <1>1, <1>3 DEF FitsWord, InLoop
  <2>2. w.chID \in 0 .. job.nch - 1 /\ -w.samp \in Int
    BY <1>1, <2>1, NextWordTyped
  <2> HIDE DEF w, full, b
  <2>3. map \in [DOMAIN map -> Seq(Int)] /\ DOMAIN map \subseteq 0 .. job.nch - 1
    <3>1. DOMAIN map = DOMAIN pixelsVectorMap \cup {w.chID}
      BY DEF Buffered, Channels
    <3>2. <<-w.samp>> \in Seq(Int)
      BY <2>2
    <3>3. \A c \in DOMAIN pixelsVectorMap :
            pixelsVectorMap[c] \in Seq(Int) /\ Append(pixelsVectorMap[c], -w.samp) \in Seq(Int)
      BY <2>2, AppendProperties DEF TypesInv
    <3>4. \A c \in DOMAIN map : map[c] \in Seq(Int)
      BY <3>2, <3>3 DEF Buffered, Channels
    <3>5. map = [c \in DOMAIN map |-> map[c]]
      BY DEF Buffered
    <3> HIDE DEF map
    <3> QED
      BY <2>2, <3>1, <3>4, <3>5 DEF TypesInv
  <2> HIDE DEF map
  <2> QED
    BY <1>2, <2>1, <2>3
<1>4. CASE FitsEnd
  <2>1. FlushIf(TRUE, pixelsVectorMap, bufferedWords, "save_counts")
    BY <1>4 DEF FitsEnd
  <2> QED
    BY <1>1, <1>2, <2>1 DEF TypesInv
<1> QED
  BY <1>3, <1>4

LEMMA TypesStep ==
  ASSUME Inv, ImageInv, PlacedInv, TypesInv, [Next]_vars
  PROVE  PlacedInv' /\ TypesInv'
<1>0. job.nch \in Nat /\ ReaderInv /\ ReaderPlace
  BY DEF Inv, JobInv, ImageInv
<1>1. ASSUME UNCHANGED <<job, pixelsVector, channelIndex>>,
             phase' # "undefined" /\ job.mode \in Placing
               => phase # "undefined" /\ \A w : HandedOut(w) => HandedOut(w)'
      PROVE  PlacedInv'
  BY <1>1 DEF PlacedInv
<1>2. ASSUME UNCHANGED <<job, imageVars>>, fits' \in {"none", "open", "closed"},
             fz' \in {"none", "partial", "whole"}
      PROVE  TypesInv'
  BY <1>2 DEF TypesInv, imageVars, RowsTyped, nCols
<1>3. CASE Read
  <2>1. UNCHANGED <<job, phase, imageVars, diskVars>> /\ \A w : HandedOut(w) => HandedOut(w)'
    BY <1>0, <1>3, PassedNextFile, PassedReadPacket DEF Read
  <2> QED
    BY <1>1, <1>2, <2>1 DEF TypesInv, imageVars, diskVars
<1>4. CASE InterleavingWord \/ SmartWord \/ CalibrateWord
  BY <1>4, PlacedWordStep
<1>5. CASE InterleavingEnd \/ SmartEnd \/ CalibrateEnd
  BY <1>5, PlacedEndStep
<1>6. CASE FitsWord \/ FitsEnd
  <2>1. UNCHANGED <<job, pixelsVector, channelIndex>> /\ job.mode \notin Placing
    BY <1>6 DEF FitsWord, FitsEnd, FitsLeft, InLoop, AtEnd, Placing
  <2> QED
    BY <1>1, <1>6, <2>1, FitsTypes
<1>7. CASE SaveCounts \/ DeleteDats \/ CompressFits \/ Kill
  <2>1. UNCHANGED <<readerVars, job, imageVars>> /\ phase \in Running
    BY <1>7 DEF SaveCounts, DeleteDats, CompressFits, Kill, Running
  <2>2. fits' \in {"none", "open", "closed"} /\ fz' \in {"none", "partial", "whole"}
    BY <1>7 DEF SaveCounts, DeleteDats, CompressFits, Kill, TypesInv
  <2>3. phase # "undefined" /\ \A w : HandedOut(w) => HandedOut(w)'
    BY <2>1, StillHandedOut DEF Running
  <2> QED
    BY <1>1, <1>2, <2>1, <2>2, <2>3 DEF imageVars
<1>8. CASE MisplaceWord \/ RawWord \/ RawEnd
  <2>1. /\ UNCHANGED <<job, imageVars>> /\ fits' \in {fits, "closed"} /\ UNCHANGED fz
        /\ phase' = "undefined" \/ job.mode \notin Placing
    BY <1>8 DEF MisplaceWord, RawWord, RawEnd, InLoop, AtEnd, Placing, diskVars
  <2> QED
    BY <1>1, <1>2, <2>1 DEF imageVars, TypesInv
<1>9. CASE readOldDatFiles
  <2>1. /\ job' = [job EXCEPT !.tool = TRUE] /\ job.mode = "fits" /\ UNCHANGED <<pixelsVector, channelIndex, rows, outfAve, fz>>
        /\ pixelsVectorMap' = << >> /\ bufferedWords' = 0 /\ fits' = "open"
        /\ outf' = F!create_img(job.nCols, job.nRows)
    BY <1>9 DEF readOldDatFiles
  <2>2. job'.nch = job.nch /\ job'.mode = "fits" /\ job.nCols \in Nat /\ job.nRows \in Nat
    BY <2>1 DEF Inv, JobInv
  <2>3. ImageTyped(outf')
    BY <2>1, <2>2, NewImageTyped
  <2>4. PlacedInv'
    BY <2>1, <2>2 DEF PlacedInv, Placing
  <2>5. TypesInv'
    BY <2>1, <2>2, <2>3 DEF TypesInv
  <2> QED
    BY <2>4, <2>5
<1>10. CASE UNCHANGED vars
  <2>1. UNCHANGED <<readerVars, job, phase, imageVars, fits, fz>>
    BY <1>10 DEF vars, diskVars
  <2> QED
    BY <1>1, <1>2, <2>1, StillHandedOut DEF TypesInv, imageVars
<1> QED
  BY <1>3, <1>4, <1>5, <1>6, <1>7, <1>8, <1>9, <1>10 DEF Next

LEMMA Layers == Spec => [](Inv /\ ImageInv /\ PlacedInv /\ TypesInv)
<1>1. Inv /\ ImageInv /\ [Next]_vars => ImageInv'
  BY ImageStep
<1>2. Inv /\ ImageInv /\ PlacedInv /\ TypesInv /\ [Next]_vars => PlacedInv' /\ TypesInv'
  BY TypesStep
<1> QED
  BY <1>1, <1>2, ImageInit, TypesInit, Invariance, PTL DEF Spec

(* Wherever the reader stops and whatever the files hold, the buffers keep *)
(* to their channels, a channel's place is one of the vectors there are,   *)
(* and no HDU outgrows its image (TypeOK; the loops of dataConversion.cpp  *)
(* and FitsWriter::dump_to_fits).                                          *)
THEOREM ConversionTypeCorrect == Spec => []TypeOK
<1>1. Inv /\ PlacedInv /\ TypesInv => TypeOK
  <2> SUFFICES ASSUME Inv, PlacedInv, TypesInv PROVE TypeOK
    OBVIOUS
  <2>1. job.mode \in Modes /\ [job EXCEPT !.tool = FALSE] \in Jobs /\ phase \in Running \cup Ended
        /\ job.nch \in Nat
    BY DEF Inv, JobInv
  <2>2. PICK w \in Seq(Words(job.nch)) : Ordered(job.nch, w, pixelsVector, channelIndex)
    BY DEF PlacedInv
  <2> DEFINE D == Ids(w)
  <2>3. /\ D \in SUBSET (0 .. job.nch - 1) /\ IsFiniteSet(D) /\ Len(pixelsVector) = Cardinality(D)
        /\ channelIndex \in Seq(Int)
        /\ \A i \in 1 .. Len(channelIndex) :
             channelIndex[i] = IF i - 1 \in D THEN Place(D, i - 1) - 1 ELSE -1
    BY <2>2 DEF Ordered
  <2> HIDE DEF D
  <2>4. Len(pixelsVector) <= job.nch /\ Len(pixelsVector) \in Nat
    <3>1. IsFiniteSet(0 .. job.nch - 1) /\ Cardinality(0 .. job.nch - 1) = job.nch
      <4> DEFINE b == job.nch - 1
      <4>1. b \in Int /\ 0 \in Int /\ b - 0 + 1 = job.nch /\ (0 > b <=> job.nch = 0)
        BY <2>1
      <4> HIDE DEF b
      <4>2. IsFiniteSet(0 .. b) /\ Cardinality(0 .. b) = IF 0 > b THEN 0 ELSE b - 0 + 1
        BY <4>1, FS_Interval
      <4> QED
        BY <4>1, <4>2 DEF b
    <3>2. Cardinality(D) <= job.nch /\ Cardinality(D) \in Nat
      BY <2>3, <3>1, FS_Subset, FS_CardinalityType
    <3> QED
      BY <2>3, <3>2
  <2>5. \A i \in DOMAIN channelIndex : channelIndex[i] \in -1 .. Len(pixelsVector) - 1
    <3>1. \A c \in D : Place(D, c) \in 1 .. Len(pixelsVector)
      <4>1. D \in SUBSET Nat
        BY <2>3
      <4> QED
        BY <2>3, <4>1, PlacesOfNumbers
    <3>2. DOMAIN channelIndex = 1 .. Len(channelIndex)
      BY <2>3, LenProperties
    <3> QED
      BY <2>3, <2>4, <3>1, <3>2
  <2>6. \A h \in F!HDUs : Len(outf.data[h]) <= outf.pixExpected
    BY DEF TypesInv, ImageTyped, Within
  <2> QED
    BY <2>1, <2>4, <2>5, <2>6 DEF TypeOK, TypesInv, Inv, KeptInv
<1> QED
  BY <1>1, Layers, PTL

===============================================================================
