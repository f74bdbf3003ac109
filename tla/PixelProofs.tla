----------------------------- MODULE PixelProofs ------------------------------
(***************************************************************************)
(* What the smart image and the interleaved image of a readout hold        *)
(* (Conversion, SmartRows and InterleavedPixels), and that the readout     *)
(* expected is converted without going outside a vector (InBounds), for    *)
(* every number of words, packets and files and every size of the image;   *)
(* and what an image called good is (DataGoodSound).                       *)
(*                                                                         *)
(* For the smart image the proof follows the pixels of one channel: of     *)
(* those that have arrived the rows before one row have been written, a    *)
(* part of that row has been filled, and the rest has not been looked at   *)
(* (Rowed).                                                                *)
(*                                                                         *)
(* For the others the words are those the board sends, so that so many     *)
(* samples of each channel have arrived and one more of the first few      *)
(* (Arrived): of each channel the same number of pixels is in the image,   *)
(* and the samples after those are in its vector (Interleaved, Remains).   *)
(*                                                                         *)
(* For an image called good it follows the reader: as long as it has       *)
(* counted no gap, the words it has passed are a run of those the board    *)
(* sent (RunInv), since every gap shows in a counter (CountersTell); and   *)
(* it does as long as no whole period of the counters is lost.             *)
(***************************************************************************)
EXTENDS ImageProofs

-----------------------------------------------------------------------------
(* Parts of sequences.                                                     *)

LEMMA PartIs ==
  ASSUME NEW S, NEW x \in Seq(S), NEW l \in Nat, NEW m \in Nat, l <= m, m <= Len(x)
  PROVE  /\ SubSeq(x, l + 1, m) \in Seq(S) /\ Len(SubSeq(x, l + 1, m)) = m - l
         /\ \A i \in 1 .. m - l : SubSeq(x, l + 1, m)[i] = x[l + i]
<1> DEFINE t == SubSeq(x, l + 1, m)
           n == Len(x)
<1>1. n \in Nat /\ l + 1 \in Int /\ m <= n
  BY LenProperties
<1>2. \A i \in l + 1 .. m : x[i] \in S
  <2>1. \A i \in l + 1 .. m : i \in 1 .. n
    BY <1>1
  <2> QED
    BY <2>1, ElementOfSeq
<1>3. /\ t \in Seq(S)
      /\ Len(t) = IF l + 1 <= m THEN m - (l + 1) + 1 ELSE 0
      /\ \A i \in 1 .. m - (l + 1) + 1 : t[i] = x[(l + 1) + i - 1]
  BY <1>1, <1>2, SubSeqProperties
<1> HIDE DEF n, t
<1>4. Len(t) = m - l
  BY <1>1, <1>3
<1>5. ASSUME NEW i \in 1 .. m - l PROVE t[i] = x[l + i]
  <2>1. i \in 1 .. m - (l + 1) + 1 /\ (l + 1) + i - 1 = l + i
    BY <1>1
  <2> QED
    BY <1>3, <2>1
<1> QED
  BY <1>3, <1>4, <1>5 DEF t

Extends(y, x) == Len(x) <= Len(y) /\ \A i \in 1 .. Len(x) : y[i] = x[i]

(* A part stays as it is when the sequence goes on. *)
LEMMA PartStays ==
  ASSUME NEW S, NEW x \in Seq(S), NEW y \in Seq(S), Extends(y, x),
         NEW l \in Nat, NEW m \in Nat, l <= m, m <= Len(x)
  PROVE  SubSeq(y, l + 1, m) = SubSeq(x, l + 1, m)
<1> DEFINE s == SubSeq(x, l + 1, m)
           t == SubSeq(y, l + 1, m)
<1>0. Len(x) \in Nat /\ Len(y) \in Nat /\ m <= Len(y)
  BY LenProperties DEF Extends
<1>1. s \in Seq(S) /\ Len(s) = m - l /\ \A i \in 1 .. m - l : s[i] = x[l + i]
  BY PartIs
<1>2. t \in Seq(S) /\ Len(t) = m - l /\ \A i \in 1 .. m - l : t[i] = y[l + i]
  BY <1>0, PartIs
<1> HIDE DEF s, t
<1>3. \A i \in 1 .. m - l : l + i \in 1 .. Len(x)
  BY <1>0
<1>4. \A i \in 1 .. Len(s) : s[i] = t[i]
  BY <1>1, <1>2, <1>3 DEF Extends
<1>5. s = t
  BY <1>1, <1>2, <1>4, SeqEqual
<1> QED
  BY <1>5 DEF s, t

(* A part of a part. *)
LEMMA PartOfPart ==
  ASSUME NEW S, NEW x \in Seq(S), NEW l \in Nat, NEW m \in Nat, l <= m, m <= Len(x),
         NEW a \in Nat, NEW b \in Nat, a <= b, b <= m - l
  PROVE  SubSeq(SubSeq(x, l + 1, m), a + 1, b) = SubSeq(x, (l + a) + 1, l + b)
<1> DEFINE s == SubSeq(x, l + 1, m)
           t == SubSeq(s, a + 1, b)
           u == SubSeq(x, (l + a) + 1, l + b)
           n == Len(x)
<1>1. s \in Seq(S) /\ Len(s) = m - l /\ \A i \in 1 .. m - l : s[i] = x[l + i]
  BY PartIs
<1>n. n \in Nat /\ m <= n
  BY LenProperties
<1> HIDE DEF s
<1>2. t \in Seq(S) /\ Len(t) = b - a /\ \A i \in 1 .. b - a : t[i] = s[a + i]
  BY <1>1, PartIs
<1>3. l + a \in Nat /\ l + b \in Nat /\ l + a <= l + b /\ l + b <= n /\ (l + b) - (l + a) = b - a
  BY <1>n
<1>4. /\ u \in Seq(S) /\ Len(u) = b - a /\ \A i \in 1 .. b - a : u[i] = x[(l + a) + i]
  <2> DEFINE c == l + a
             d == l + b
  <2>1. c \in Nat /\ d \in Nat /\ c <= d /\ d <= Len(x) /\ d - c = b - a /\ u = SubSeq(x, c + 1, d)
    BY <1>3
  <2> HIDE DEF c, d, u
  <2>2. u \in Seq(S) /\ Len(u) = d - c /\ \A i \in 1 .. d - c : u[i] = x[c + i]
    BY <2>1, PartIs
  <2> QED
    BY <2>1, <2>2 DEF c
<1> HIDE DEF t, u, n
<1>5. \A i \in 1 .. b - a : a + i \in 1 .. m - l /\ l + (a + i) = (l + a) + i
  BY <1>n
<1>6. \A i \in 1 .. Len(t) : t[i] = u[i]
  BY <1>1, <1>2, <1>4, <1>5
<1>7. t = u
  BY <1>2, <1>4, <1>6, SeqEqual
<1> QED
  BY <1>7 DEF t, u, s

LEMMA AppendExtends ==
  ASSUME NEW S, NEW x \in Seq(S), NEW e \in S
  PROVE  Append(x, e) \in Seq(S) /\ Extends(Append(x, e), x)
<1>1. Len(x) \in Nat
  BY LenProperties
<1> QED
  BY <1>1, AppendProperties DEF Extends

-----------------------------------------------------------------------------
(* The pixels before a row.                                                *)

Before(q) == Total([k \in 1 .. q |-> nCols(k)])

LEMMA PixelsBefore ==
  ASSUME Recipe, NEW N, N = Len(job.nSamps)
  PROVE  /\ Before(0) = 0
         /\ \A q \in 0 .. N : Before(q) \in Nat
         /\ \A q \in 1 .. N : Before(q) = Before(q - 1) + nCols(q)
         /\ \A q, r \in 0 .. N : q <= r => Before(q) <= Before(r)
<1> DEFINE w == [k \in 1 .. N |-> nCols(k)]
<1>1. N \in Nat /\ \A k \in 1 .. N : nCols(k) \in Nat
  BY WidthOfRow
<1>2. w \in Seq(Nat) /\ w \in Seq(Int) /\ Len(w) = N /\ \A k \in 1 .. N : w[k] = nCols(k)
  <2>1. w \in Seq(Nat) /\ Len(w) = N /\ \A k \in 1 .. N : w[k] = nCols(k)
    BY <1>1
  <2>2. Seq(Nat) \subseteq Seq(Int)
    BY SeqMonotonic
  <2> HIDE DEF w
  <2> QED
    BY <2>1, <2>2
<1> HIDE DEF w
<1>3. PICK p : Sums(p, w)
  BY <1>2, SumsExist
<1>4. ASSUME NEW q \in 0 .. N PROVE Before(q) = p[q]
  <2> DEFINE s == SubSeq(w, 1, q)
             t == [k \in 1 .. q |-> nCols(k)]
  <2>1. q \in Nat /\ q <= N /\ \A k \in 1 .. q : k \in 1 .. N
    BY <1>1
  <2>2. s \in Seq(Int) /\ Len(s) = q /\ \A i \in 1 .. q : s[i] = w[0 + i]
    <3>1. SubSeq(w, 0 + 1, q) \in Seq(Int) /\ Len(SubSeq(w, 0 + 1, q)) = q - 0
          /\ \A i \in 1 .. q - 0 : SubSeq(w, 0 + 1, q)[i] = w[0 + i]
      BY <1>2, <2>1, PartIs
    <3>2. 0 + 1 = 1 /\ q - 0 = q
      BY <2>1
    <3> QED
      BY <3>1, <3>2
  <2>3. t \in Seq(Int) /\ Len(t) = q /\ \A i \in 1 .. q : t[i] = nCols(i)
    BY <1>1, <2>1
  <2> HIDE DEF s, t
  <2>4. \A i \in 1 .. q : s[i] = t[i]
    BY <1>2, <2>1, <2>2, <2>3, SMTT(30)
  <2>5. s = t
    BY <2>2, <2>3, <2>4, SeqEqual
  <2>6. Total(s) = p[q]
    <3>1. q \in 0 .. Len(w)
      BY <1>2
    <3> QED
      BY <1>2, <1>3, <3>1, SumOfFirst DEF s
  <2> QED
    BY <2>5, <2>6 DEF Before, t
<1>5. /\ p \in [0 .. N -> Nat] /\ p[0] = 0 /\ \A k \in 1 .. N : p[k] = p[k - 1] + nCols(k)
      /\ \A q, r \in 0 .. N : q <= r => p[q] <= p[r]
  BY <1>2, <1>3, SumsGrow DEF Sums
<1>6. 0 \in 0 .. N /\ \A q \in 1 .. N : q \in 0 .. N /\ q - 1 \in 0 .. N
  BY <1>1
<1>7. \A q \in 0 .. N : Before(q) = p[q] /\ p[q] \in Nat
  BY <1>4, <1>5
<1> HIDE DEF Before
<1> QED
  BY <1>5, <1>6, <1>7

RowOf(x, q) == SubSeq(x, Before(q - 1) + 1, Before(q))

Average(x, q, i) ==
  LET b == Before(q - 1) + Total(SubSeq(job.nSamps[q], 1, i - 1)) IN
    <<Total(SubSeq(x, b + 1, b + job.nSamps[q][i])), job.nSamps[q][i]>>

(* The first k rows of the pixels x have been written. *)
RowsDone(x, k, d, a) ==
  /\ d = FlattenSeq([q \in 1 .. k |-> Padded(RowOf(x, q))])
  /\ d \in Seq(Int) /\ Len(d) = k * nColsAllMax
  /\ a \in Seq(Int \X Int) /\ Len(a) = k * job.nColsAve
  /\ \A q \in 1 .. k : \A i \in 1 .. job.nColsAve : a[(q - 1) * job.nColsAve + i] = Average(x, q, i)

LEMMA RowInRange ==
  ASSUME NEW k \in Nat, NEW A \in Nat, NEW q \in 1 .. k, NEW i \in 1 .. A
  PROVE  (q - 1) * A + i \in 1 .. k * A
<1>1. PICK j \in Nat : k = (q - 1) + (j + 1)
  <2>1. k - q \in Nat /\ k = (q - 1) + ((k - q) + 1)
    OBVIOUS
  <2> QED
    BY <2>1
<1>2. k * A = (q - 1) * A + (j * A + A)
  BY <1>1
<1>3. j * A \in Nat /\ (q - 1) * A \in Nat
  <2>1. q - 1 \in Nat
    OBVIOUS
  <2> QED
    BY <2>1
<1> DEFINE u == j * A
           v == (q - 1) * A
<1> HIDE DEF u, v
<1>4. u \in Nat /\ v \in Nat => v + i \in 1 .. v + (u + A)
  OBVIOUS
<1> QED
  BY <1>2, <1>3, <1>4 DEF u, v

LEMMA InsideRow ==
  ASSUME Recipe, NEW r \in 1 .. Len(job.nSamps), NEW i \in 1 .. job.nColsAve
  PROVE  /\ Total(SubSeq(job.nSamps[r], 1, i - 1)) \in Nat /\ job.nSamps[r][i] \in Nat
         /\ Total(SubSeq(job.nSamps[r], 1, i - 1)) + job.nSamps[r][i] <= nCols(r)
         /\ nCols(r) \in Nat
<1>1. /\ job.nSamps[r] \in Seq(Nat) /\ Len(job.nSamps[r]) = job.nColsAve /\ nCols(r) \in Nat
  BY WidthOfRow
<1> DEFINE n == nCols(r)
           row == [k \in 1 .. n |-> 0]
<1>2. n \in Nat /\ n = nCols(r)
  BY <1>1
<1> HIDE DEF n
<1>3. row \in Seq(Int) /\ Len(row) = nCols(r)
  BY <1>2
<1> HIDE DEF row
<1>4. AveragedTo(r, row, Averaged(r, row))
  BY <1>3, AveragedIs
<1>5. job.nSamps[r][i] \in Nat
  BY <1>1, ElementOfSeq
<1> QED
  BY <1>1, <1>4, <1>5 DEF AveragedTo

LEMMA AverageStays ==
  ASSUME Recipe, NEW x \in Seq(Int), NEW y \in Seq(Int), Extends(y, x),
         NEW q \in 1 .. Len(job.nSamps), Before(q) <= Len(x), NEW i \in 1 .. job.nColsAve
  PROVE  Average(y, q, i) = Average(x, q, i)
<1> DEFINE n == job.nSamps[q]
           s == Total(SubSeq(n, 1, i - 1))
           b == Before(q - 1) + s
           N == Len(job.nSamps)
<1>1. N \in Nat /\ Before(q - 1) \in Nat /\ Before(q) \in Nat /\ Before(q) = Before(q - 1) + nCols(q)
  <2>1. N \in Nat /\ q \in 0 .. N /\ q - 1 \in 0 .. N
    BY WidthOfRow
  <2> QED
    BY <2>1, PixelsBefore
<1>2. s \in Nat /\ n[i] \in Nat /\ s + n[i] <= nCols(q) /\ nCols(q) \in Nat
  BY InsideRow
<1> HIDE DEF s, n, N
<1>3. b \in Nat /\ b + n[i] \in Nat /\ b <= b + n[i] /\ b + n[i] <= Len(x)
  <2> DEFINE c == Before(q - 1)
             e == Before(q)
             w == nCols(q)
             k == n[i]
             l == Len(x)
  <2>1. /\ c \in Nat /\ s \in Nat /\ k \in Nat /\ l \in Nat /\ w \in Nat
        /\ b = c + s /\ e = c + w /\ s + k <= w /\ e <= l
    BY <1>1, <1>2, LenProperties
  <2> HIDE DEF b, c, e, w, k, l
  <2>2. b \in Nat /\ b + k \in Nat /\ b <= b + k /\ b + k <= l
    BY <2>1
  <2> QED
    BY <2>2 DEF k, l
<1> HIDE DEF b
<1>4. SubSeq(y, b + 1, b + n[i]) = SubSeq(x, b + 1, b + n[i])
  BY <1>3, PartStays
<1>5. Average(y, q, i) = <<Total(SubSeq(y, b + 1, b + n[i])), n[i]>>
  BY Zenon DEF Average, b, s, n
<1>6. Average(x, q, i) = <<Total(SubSeq(x, b + 1, b + n[i])), n[i]>>
  BY Zenon DEF Average, b, s, n
<1> QED
  BY <1>4, <1>5, <1>6

LEMMA RowStays ==
  ASSUME Recipe, NEW x \in Seq(Int), NEW y \in Seq(Int), Extends(y, x),
         NEW q \in 1 .. Len(job.nSamps), Before(q) <= Len(x)
  PROVE  /\ RowOf(y, q) = RowOf(x, q) /\ RowOf(x, q) \in Seq(Int) /\ Len(RowOf(x, q)) = nCols(q)
         /\ \A i \in 1 .. nCols(q) : RowOf(x, q)[i] = x[Before(q - 1) + i]
<1> DEFINE N == Len(job.nSamps)
           l == Before(q - 1)
           m == Before(q)
<1>1. l \in Nat /\ m \in Nat /\ m = l + nCols(q) /\ nCols(q) \in Nat
  <2>1. N \in Nat /\ q \in 0 .. N /\ q - 1 \in 0 .. N /\ nCols(q) \in Nat
    BY WidthOfRow
  <2> QED
    BY <2>1, PixelsBefore
<1>2. RowOf(x, q) = SubSeq(x, l + 1, m) /\ RowOf(y, q) = SubSeq(y, l + 1, m) /\ m <= Len(x)
  BY DEF RowOf
<1>l. l = Before(q - 1)
  OBVIOUS
<1> HIDE DEF l, m, N
<1>3. l <= m /\ m - l = nCols(q) /\ l \in Nat /\ m \in Nat
  BY <1>1
<1>4. /\ SubSeq(x, l + 1, m) \in Seq(Int) /\ Len(SubSeq(x, l + 1, m)) = m - l
      /\ \A i \in 1 .. m - l : SubSeq(x, l + 1, m)[i] = x[l + i]
  BY <1>2, <1>3, PartIs, SMTT(30)
<1>5. SubSeq(y, l + 1, m) = SubSeq(x, l + 1, m)
  BY <1>2, <1>3, PartStays
<1> QED
  BY <1>2, <1>3, <1>4, <1>5, <1>l

LEMMA RowsStay ==
  ASSUME Recipe, NEW x \in Seq(Int), NEW y \in Seq(Int), Extends(y, x),
         NEW k \in 0 .. Len(job.nSamps), Before(k) <= Len(x), NEW d, NEW a, RowsDone(x, k, d, a)
  PROVE  RowsDone(y, k, d, a)
<1> DEFINE N == Len(job.nSamps)
<1>1. ASSUME NEW q \in 1 .. k PROVE q \in 1 .. N /\ Before(q) <= Len(x)
  <2>1. N \in Nat /\ q \in 1 .. N /\ q \in 0 .. N /\ k \in 0 .. N /\ q <= k
    BY WidthOfRow
  <2>2. Before(q) <= Before(k) /\ Before(q) \in Nat /\ Before(k) \in Nat
    BY <2>1, PixelsBefore
  <2>3. Len(x) \in Nat
    BY LenProperties
  <2> QED
    BY <2>1, <2>2, <2>3
<1> HIDE DEF N
<1>2. \A q \in 1 .. k : RowOf(y, q) = RowOf(x, q)
  BY <1>1, RowStays DEF N
<1>3. \A q \in 1 .. k : \A i \in 1 .. job.nColsAve : Average(y, q, i) = Average(x, q, i)
  BY <1>1, AverageStays DEF N
<1>4. [q \in 1 .. k |-> Padded(RowOf(y, q))] = [q \in 1 .. k |-> Padded(RowOf(x, q))]
  BY <1>2
<1> QED
  BY <1>3, <1>4 DEF RowsDone

LEMMA RowAdded ==
  ASSUME Recipe, NEW x \in Seq(Int), NEW k \in Nat, k < Len(job.nSamps), Before(k + 1) <= Len(x),
         NEW d, NEW a, RowsDone(x, k, d, a), NEW row, row = RowOf(x, k + 1)
  PROVE  RowsDone(x, k + 1, d \o Padded(row), a \o Averaged(k + 1, row))
<1> DEFINE N == Len(job.nSamps)
           A == job.nColsAve
           W == nColsAllMax
           q == k + 1
           rows1 == [r \in 1 .. k |-> Padded(RowOf(x, r))]
           rows2 == [r \in 1 .. q |-> Padded(RowOf(x, r))]
           new == Averaged(q, row)
<1>1. /\ N \in Nat /\ q \in 1 .. N /\ A \in Nat /\ W \in Nat /\ q - 1 = k
      /\ \A r \in 1 .. q : r \in 1 .. N
  BY WidthOfRow DEF Recipe
<1>2. ASSUME NEW r \in 1 .. q
      PROVE  Padded(RowOf(x, r)) \in Seq(Int) /\ RowOf(x, r) \in Seq(Int) /\ Len(RowOf(x, r)) = nCols(r)
             /\ Len(Padded(RowOf(x, r))) = W
  <2>1. r \in 1 .. N /\ r \in 0 .. N /\ q \in 0 .. N /\ r <= q
    BY <1>1
  <2>2. Before(r) <= Before(q) /\ Before(r) \in Nat /\ Before(q) \in Nat
    BY <2>1, PixelsBefore
  <2>3. Len(x) \in Nat /\ Extends(x, x)
    BY LenProperties DEF Extends
  <2>4. Before(r) <= Len(x)
    BY <2>2, <2>3
  <2>5. RowOf(x, r) \in Seq(Int) /\ Len(RowOf(x, r)) = nCols(r)
    BY <2>1, <2>3, <2>4, RowStays
  <2> QED
    BY <2>1, <2>5, PaddedIs
<1> HIDE DEF N, W
<1>3. /\ rows1 \in Seq(Seq(Int)) /\ rows2 \in Seq(Seq(Int)) /\ Padded(row) \in Seq(Int)
      /\ Len(rows1) = k /\ Len(rows2) = q
      /\ \A r \in 1 .. k : rows1[r] = Padded(RowOf(x, r))
      /\ \A r \in 1 .. q : rows2[r] = Padded(RowOf(x, r))
  <2>1. q \in Nat /\ q \in 1 .. q /\ \A r \in 1 .. k : r \in 1 .. q
    OBVIOUS
  <2> QED
    BY <1>2, <2>1
<1>4. rows2 = Append(rows1, Padded(row))
  <2> HIDE DEF rows1, rows2
  <2> DEFINE t == Append(rows1, Padded(row))
             X == Seq(Int)
             e == Padded(row)
  <2>1. rows1 \in Seq(X) /\ e \in X /\ rows2 \in Seq(X) /\ t = Append(rows1, e)
    BY <1>3
  <2> HIDE DEF t, X, e
  <2>2. t \in Seq(X) /\ Len(t) = k + 1 /\ t[k + 1] = e /\ \A i \in 1 .. k : t[i] = rows1[i]
    BY <1>3, <2>1, AppendProperties
  <2>3. \A i \in 1 .. q : rows2[i] = t[i]
    <3>1. \A i \in 1 .. q : i \in 1 .. k \/ i = k + 1
      OBVIOUS
    <3> QED
      BY <1>3, <2>2, <3>1 DEF e
  <2>4. rows2 = t
    BY <1>3, <2>1, <2>2, <2>3, SeqEqual
  <2> QED
    BY <2>4 DEF t
<1>5. FlattenSeq(rows2) = FlattenSeq(rows1) \o Padded(row)
  <2> HIDE DEF rows1, rows2
  <2> QED
    BY <1>3, <1>4, FlattenAppend
<1>6. /\ d = FlattenSeq(rows1) /\ d \in Seq(Int) /\ Len(d) = k * W
      /\ a \in Seq(Int \X Int) /\ Len(a) = k * A
      /\ \A r \in 1 .. k : \A i \in 1 .. A : a[(r - 1) * A + i] = Average(x, r, i)
  BY DEF RowsDone, W
<1>7. d \o Padded(row) = FlattenSeq(rows2)
  BY <1>5, <1>6
<1> HIDE DEF rows1, rows2
<1>8. d \o Padded(row) \in Seq(Int) /\ Len(d \o Padded(row)) = q * W
  <2>1. Len(Padded(row)) = W
    BY <1>2
  <2>2. d \o Padded(row) \in Seq(Int) /\ Len(d \o Padded(row)) = k * W + W
    BY <1>3, <1>6, <2>1, ConcatProperties, SMTT(30)
  <2>3. k * W + W = q * W
    BY <1>1
  <2> QED
    BY <2>2, <2>3
<1>9. new \in Seq(Int \X Int) /\ Len(new) = A
      /\ \A i \in 1 .. A : new[i] = Average(x, q, i)
  <2>1. row \in Seq(Int) /\ Len(row) = nCols(q)
    BY <1>2
  <2>2. AveragedTo(q, row, new)
    BY <1>1, <2>1, AveragedIs DEF N
  <2>3. ASSUME NEW i \in 1 .. A PROVE new[i] = Average(x, q, i)
    <3> DEFINE s == Total(SubSeq(job.nSamps[q], 1, i - 1))
               n == job.nSamps[q][i]
               l == Before(q - 1)
               m == Before(q)
    <3>1. new[i] = <<Total(SubSeq(row, s + 1, s + n)), n>>
      BY <2>2 DEF AveragedTo
    <3>2. s \in Nat /\ n \in Nat /\ s + n <= nCols(q) /\ nCols(q) \in Nat
      BY <1>1, InsideRow DEF N
    <3>3. l \in Nat /\ m \in Nat /\ m = l + nCols(q)
      <4>1. q \in 0 .. N /\ q - 1 \in 0 .. N
        BY <1>1
      <4> QED
        BY <1>1, <4>1, PixelsBefore DEF N
    <3>4. Average(x, q, i) = <<Total(SubSeq(x, (l + s) + 1, (l + s) + n)), n>>
      BY Zenon DEF Average
    <3>5. row = SubSeq(x, l + 1, m) /\ m <= Len(x)
      BY DEF RowOf
    <3> HIDE DEF s, n, l, m
    <3> DEFINE b == s + n
    <3>6. s <= b /\ b \in Nat /\ b <= m - l /\ l <= m /\ l + b = (l + s) + n
      BY <3>2, <3>3, SMTT(30)
    <3>7. SubSeq(SubSeq(x, l + 1, m), s + 1, b) = SubSeq(x, (l + s) + 1, l + b)
      <4> HIDE DEF b
      <4> QED
        BY <3>2, <3>3, <3>5, <3>6, PartOfPart, SMTT(30)
    <3> QED
      BY <3>1, <3>4, <3>5, <3>6, <3>7
  <2> QED
    BY <2>2, <2>3 DEF AveragedTo
<1> HIDE DEF new
<1> DEFINE V == Int \X Int
           z == a \o new
<1>10. z \in Seq(V) /\ Len(z) = k * A + A
       /\ \A i \in 1 .. k * A + A : z[i] = IF i <= k * A THEN a[i] ELSE new[i - k * A]
  <2>1. a \in Seq(V) /\ new \in Seq(V)
    BY <1>6, <1>9
  <2>2. z \in Seq(V) /\ Len(z) = Len(a) + Len(new)
        /\ \A i \in 1 .. Len(a) + Len(new) : z[i] = IF i <= Len(a) THEN a[i] ELSE new[i - Len(a)]
    <3> HIDE DEF V
    <3> QED
      BY <2>1, ConcatProperties
  <2>3. Len(a) = k * A /\ Len(new) = A
    BY <1>6, <1>9
  <2> HIDE DEF V, z, A
  <2> QED
    BY <2>2, <2>3
<1>11. k * A + A = q * A /\ k * A \in Nat
  <2>1. A \in Nat
    BY <1>1
  <2> HIDE DEF A
  <2> QED
    BY <2>1
<1> HIDE DEF A, V, z
<1>12. ASSUME NEW r \in 1 .. q, NEW i \in 1 .. A
       PROVE  z[(r - 1) * A + i] = Average(x, r, i)
  <2> DEFINE j == (r - 1) * A + i
             u == k * A
  <2>1. CASE r \in 1 .. k
    <3>1. j \in 1 .. u
      BY <1>1, <2>1, RowInRange
    <3>2. a[j] = Average(x, r, i)
      BY <1>6, <2>1
    <3>3. j \in 1 .. u + A /\ j <= u
      <4> HIDE DEF j
      <4>1. u \in Nat
        BY <1>11
      <4> HIDE DEF u
      <4> QED
        BY <1>1, <3>1, <4>1
    <3>4. z[j] = a[j]
      <4> HIDE DEF j
      <4> QED
        BY <1>10, <3>3
    <3> QED
      BY <3>2, <3>4
  <2>2. CASE r = q
    <3>1. j = u + i
      BY <1>1, <2>2
    <3>2. u + i \in 1 .. u + A /\ ~(u + i <= u) /\ (u + i) - u = i
      <4>1. u \in Nat
        BY <1>11
      <4> HIDE DEF u
      <4> QED
        BY <1>1, <4>1
    <3>3. z[u + i] = new[i]
      <4>1. z[u + i] = new[(u + i) - u]
        <5> QED
          BY <1>10, <3>2
      <4> QED
        BY <3>2, <4>1
    <3> QED
      BY <1>9, <2>2, <3>1, <3>3
  <2>3. r \in 1 .. k \/ r = q
    OBVIOUS
  <2> QED
    BY <2>1, <2>2, <2>3
<1> QED
  <2>1. z \in Seq(Int \X Int) /\ Len(z) = q * A
    BY <1>10, <1>11 DEF V
  <2> HIDE DEF q
  <2>2. RowsDone(x, q, d \o Padded(row), z)
    BY <1>7, <1>8, <1>12, <2>1, Zenon DEF RowsDone, rows2, A, W
  <2> QED
    BY <2>2 DEF q, z, new

(* The pixels x of a channel have been put in rows: the rows before row    *)
(* are written, row has filled, and left has not been looked at yet.       *)
Rowed(x, row, filled, left, d, a) ==
  /\ row \in 1 .. Len(job.nSamps) + 1
  /\ x \in Seq(Int) /\ filled \in Seq(Int) /\ left \in Seq(Int)
  /\ Before(row - 1) <= Len(x)
  /\ row <= Len(job.nSamps) =>
       /\ Len(filled) < nCols(row)
       /\ Len(x) = (Before(row - 1) + Len(filled)) + Len(left)
       /\ \A i \in 1 .. Len(filled) : filled[i] = x[Before(row - 1) + i]
       /\ \A i \in 1 .. Len(left) : left[i] = x[(Before(row - 1) + Len(filled)) + i]
  /\ RowsDone(x, row - 1, d, a)

NoRowEmpty == \A r \in DOMAIN job.nSamps : nCols(r) > 0

LEMMA RowedFirst ==
  ASSUME Recipe, NoRowEmpty
  PROVE  Rowed(<< >>, 1, << >>, << >>, << >>, << >>)
<1> DEFINE e == << >>
           N == Len(job.nSamps)
<1>1. e \in Seq(Int) /\ e \in Seq(Int \X Int) /\ Len(e) = 0
  BY EmptySeq
<1>2. N \in Nat \ {0} /\ 1 \in 1 .. N /\ 1 - 1 = 0 /\ nCols(1) > 0 /\ nColsAllMax \in Nat /\ job.nColsAve \in Nat
  BY WidthOfRow DEF NoRowEmpty, Recipe
<1>3. Before(0) = 0
  BY PixelsBefore
<1>4. RowsDone(e, 0, e, e)
  <2> DEFINE s == [q \in 1 .. 0 |-> Padded(RowOf(e, q))]
  <2>1. s = << >>
    OBVIOUS
  <2>2. FlattenSeq(s) = << >>
    BY <2>1, FlattenNone
  <2>3. 0 * nColsAllMax = 0 /\ 0 * job.nColsAve = 0
    BY <1>2
  <2>4. e = FlattenSeq([q \in 1 .. 0 |-> Padded(RowOf(e, q))])
    BY <2>2
  <2> HIDE DEF s, e
  <2> QED
    BY <1>1, <2>3, <2>4 DEF RowsDone
<1> HIDE DEF e
<1>5. Rowed(e, 1, e, e, e, e)
  BY <1>1, <1>2, <1>3, <1>4, SMTT(30) DEF Rowed, N
<1> QED
  BY <1>5 DEF e

LEMMA RowedGrows ==
  ASSUME Recipe, NEW x, NEW row, NEW filled, NEW left, NEW d, NEW a,
         Rowed(x, row, filled, left, d, a), NEW e \in Int
  PROVE  Rowed(Append(x, e), row, filled, Append(left, e), d, a)
<1> DEFINE N == Len(job.nSamps)
           B == Before(row - 1)
           f == Len(filled)
           l == Len(left)
           n == Len(x)
           y == Append(x, e)
           z == Append(left, e)
<1>1. /\ N \in Nat /\ row \in 1 .. N + 1 /\ x \in Seq(Int) /\ filled \in Seq(Int) /\ left \in Seq(Int)
      /\ B <= n /\ RowsDone(x, row - 1, d, a)
      /\ row <= N => /\ f < nCols(row)
                     /\ n = (B + f) + l
                     /\ \A i \in 1 .. f : filled[i] = x[B + i]
                     /\ \A i \in 1 .. l : left[i] = x[(B + f) + i]
  BY WidthOfRow DEF Rowed
<1>2. f \in Nat /\ l \in Nat /\ n \in Nat /\ B \in Nat /\ row - 1 \in 0 .. N
  <2>1. row - 1 \in 0 .. N /\ f \in Nat /\ l \in Nat /\ n \in Nat
    BY <1>1, LenProperties
  <2> QED
    BY <2>1, PixelsBefore
<1>3. /\ y \in Seq(Int) /\ Len(y) = n + 1 /\ y[n + 1] = e /\ \A i \in 1 .. n : y[i] = x[i]
      /\ z \in Seq(Int) /\ Len(z) = l + 1 /\ z[l + 1] = e /\ \A i \in 1 .. l : z[i] = left[i]
  BY <1>1, AppendProperties
<1>4. Extends(y, x)
  BY <1>1, AppendExtends
<1>5. RowsDone(y, row - 1, d, a)
  BY <1>1, <1>2, <1>3, <1>4, RowsStay
<1> HIDE DEF B, f, l, n, N, y, z
<1>6. ASSUME row <= N
      PROVE  /\ n + 1 = (B + f) + (l + 1)
             /\ \A i \in 1 .. f : filled[i] = y[B + i]
             /\ \A i \in 1 .. l + 1 : z[i] = y[(B + f) + i]
  <2>1. n + 1 = (B + f) + (l + 1)
    BY <1>1, <1>2, <1>6, SMTT(30)
  <2>2. \A i \in 1 .. f : B + i \in 1 .. n
    BY <1>1, <1>2, <1>6
  <2>3. \A i \in 1 .. l : (B + f) + i \in 1 .. n
    BY <1>1, <1>2, <1>6
  <2>4. \A i \in 1 .. l + 1 : i \in 1 .. l \/ (i = l + 1 /\ (B + f) + i = n + 1)
    BY <1>2, <2>1
  <2> QED
    BY <1>1, <1>3, <1>6, <2>1, <2>2, <2>3, <2>4
<1>7. B <= n + 1
  BY <1>1, <1>2
<1> QED
  BY <1>1, <1>3, <1>5, <1>6, <1>7 DEF Rowed, B, f, l, n, N, y, z

(* What is known of a channel whose row is not the last's successor.       *)
Measured(x, r, p, q, d, a, N, B, w, n, f, l) ==
  /\ N = Len(job.nSamps) /\ B = Before(r - 1) /\ w = nCols(r)
  /\ n = Len(x) /\ f = Len(p) /\ l = Len(q)
  /\ x \in Seq(Int) /\ p \in Seq(Int) /\ q \in Seq(Int) /\ RowsDone(x, r - 1, d, a)
  /\ N \in Nat /\ r \in 1 .. N /\ r - 1 \in Nat /\ (r - 1) + 1 = r /\ r - 1 < N /\ r \in Nat
  /\ B \in Nat /\ w \in Nat /\ n \in Nat /\ f \in Nat /\ l \in Nat
  /\ f < w /\ n = (B + f) + l /\ Before(r) = B + w
  /\ \A i \in 1 .. f : p[i] = x[B + i]
  /\ \A i \in 1 .. l : q[i] = x[(B + f) + i]

LEMMA RowedFacts ==
  ASSUME Recipe, NEW x, NEW r, NEW p, NEW q, NEW d, NEW a, Rowed(x, r, p, q, d, a),
         r <= Len(job.nSamps)
  PROVE  \E N, B, w, n, f, l : Measured(x, r, p, q, d, a, N, B, w, n, f, l)
<1> DEFINE N == Len(job.nSamps)
           B == Before(r - 1)
           w == nCols(r)
           n == Len(x)
           f == Len(p)
           l == Len(q)
<1>1. /\ x \in Seq(Int) /\ p \in Seq(Int) /\ q \in Seq(Int) /\ RowsDone(x, r - 1, d, a)
      /\ f < w /\ n = (B + f) + l
      /\ \A i \in 1 .. f : p[i] = x[B + i]
      /\ \A i \in 1 .. l : q[i] = x[(B + f) + i]
  BY DEF Rowed
<1>2. N \in Nat /\ r \in 1 .. N + 1 /\ r <= N
  BY WidthOfRow DEF Rowed
<1>3. r \in 1 .. N /\ r - 1 \in Nat /\ (r - 1) + 1 = r /\ r - 1 < N /\ r \in Nat /\ r - 1 \in 0 .. N
  <2> HIDE DEF N
  <2> QED
    BY <1>2
<1>4. B \in Nat /\ w \in Nat /\ Before(r) = B + w
  <2>1. w \in Nat
    BY <1>3, WidthOfRow
  <2> QED
    BY <1>3, <2>1, PixelsBefore
<1>5. n \in Nat /\ f \in Nat /\ l \in Nat
  BY <1>1, LenProperties
<1>6. Measured(x, r, p, q, d, a, N, B, w, n, f, l)
  BY <1>1, <1>2, <1>3, <1>4, <1>5 DEF Measured
<1> HIDE DEF N, B, w, n, f, l
<1> QED
  BY <1>6

LEMMA PartAdded ==
  ASSUME Recipe, NEW x, NEW r, NEW p, NEW q, NEW d, NEW a, Rowed(x, r, p, q, d, a),
         r <= Len(job.nSamps), Len(q) < nCols(r) - Len(p)
  PROVE  Rowed(x, r, p \o q, << >>, d, a)
<1>a. PICK N, B, w, n, f, l : Measured(x, r, p, q, d, a, N, B, w, n, f, l)
  BY RowedFacts
<1>1. N = Len(job.nSamps) /\ B = Before(r - 1) /\ w = nCols(r) /\ n = Len(x) /\ f = Len(p) /\ l = Len(q)
  BY <1>a DEF Measured
<1>2. /\ x \in Seq(Int) /\ p \in Seq(Int) /\ q \in Seq(Int) /\ RowsDone(x, r - 1, d, a)
      /\ N \in Nat /\ r \in 1 .. N /\ r \in Nat
      /\ B \in Nat /\ w \in Nat /\ n \in Nat /\ f \in Nat /\ l \in Nat
      /\ f < w /\ n = (B + f) + l
      /\ \A i \in 1 .. f : p[i] = x[B + i]
      /\ \A i \in 1 .. l : q[i] = x[(B + f) + i]
  BY <1>a DEF Measured
<1>3. l < w - f
  BY <1>1
<1>4. PICK g, e : g = p \o q /\ e = << >>
  OBVIOUS
<1>5. /\ g \in Seq(Int) /\ Len(g) = f + l
      /\ \A k \in 1 .. f + l : g[k] = IF k <= f THEN p[k] ELSE q[k - f]
  BY <1>1, <1>2, <1>4, ConcatProperties
<1>6. e \in Seq(Int) /\ Len(e) = 0
  BY <1>4, EmptySeq
<1>7. \A k \in 1 .. f + l : g[k] = x[B + k]
  <2> SUFFICES ASSUME NEW k \in 1 .. f + l PROVE g[k] = x[B + k]
    OBVIOUS
  <2>1. CASE k <= f
    <3>1. k \in 1 .. f
      BY <1>2, <2>1
    <3> QED
      BY <1>2, <1>5, <2>1, <3>1
  <2>2. CASE ~(k <= f)
    <3>1. k - f \in 1 .. l /\ (B + f) + (k - f) = B + k
      BY <1>2, <2>2, SMTT(30)
    <3> QED
      BY <1>2, <1>5, <2>2, <3>1
  <2> QED
    BY <2>1, <2>2
<1>8. f + l < w /\ n = (B + (f + l)) + 0 /\ r \in 1 .. N + 1 /\ B <= n
  BY <1>2, <1>3
<1>9. Rowed(x, r, g, e, d, a)
  BY <1>1, <1>2, <1>5, <1>6, <1>7, <1>8 DEF Rowed
<1> QED
  BY <1>4, <1>9

LEMMA PlacesInRow ==
  ASSUME NEW B \in Nat, NEW f \in Nat, NEW w \in Nat, NEW l \in Nat, NEW m \in Nat, w = f + m, m <= l
  PROVE  /\ \A k \in 1 .. w : ~(k <= f) => k - f \in 1 .. m /\ k - f \in 1 .. l /\ (B + f) + (k - f) = B + k
         /\ \A k \in 1 .. l - m : m + k \in 1 .. l /\ (B + f) + (m + k) = ((B + w) + 0) + k
OBVIOUS

LEMMA ThreeParts ==
  ASSUME NEW S, NEW x \in Seq(S), NEW y \in Seq(S), NEW z \in Seq(S), NEW w, w = y \o z
  PROVE  (x \o y) \o z = x \o w
BY ConcatAssociative, SMTT(30)

LEMMA TodoFalls ==
  ASSUME NEW N \in Nat, NEW l \in Nat, NEW m \in Nat, m <= l, NEW r \in Nat
  PROVE  m + ((N + 1) - (r + 1)) <= (l + ((N + 1) - r)) - 1
OBVIOUS

RowEndedTo(x, r, p, q, d, a) ==
  \E m, row, rest :
    /\ m = nCols(r) - Len(p) /\ row = p \o SubSeq(q, 1, m) /\ rest = SubSeq(q, m + 1, Len(q))
    /\ Rowed(x, r + 1, << >>, rest, d \o Padded(row), a \o Averaged(r, row))
    /\ Len(rest) <= Len(q)

LEMMA RowEnded ==
  ASSUME Recipe, NoRowEmpty, NEW x, NEW r, NEW p, NEW q, NEW d, NEW a, Rowed(x, r, p, q, d, a),
         r <= Len(job.nSamps), nCols(r) - Len(p) <= Len(q)
  PROVE  RowEndedTo(x, r, p, q, d, a)
<1>m. PICK m : m = nCols(r) - Len(p)
  OBVIOUS
<1>r. PICK row, rest : row = p \o SubSeq(q, 1, m) /\ rest = SubSeq(q, m + 1, Len(q))
  OBVIOUS
<1>a. PICK N, B, w, n, f, l : Measured(x, r, p, q, d, a, N, B, w, n, f, l)
  BY RowedFacts
<1>1. N = Len(job.nSamps) /\ B = Before(r - 1) /\ w = nCols(r) /\ n = Len(x) /\ f = Len(p) /\ l = Len(q)
  BY <1>a DEF Measured
<1>2. /\ x \in Seq(Int) /\ p \in Seq(Int) /\ q \in Seq(Int) /\ RowsDone(x, r - 1, d, a)
      /\ N \in Nat /\ r \in 1 .. N /\ r - 1 \in Nat /\ (r - 1) + 1 = r /\ r - 1 < N /\ r \in Nat
      /\ B \in Nat /\ w \in Nat /\ n \in Nat /\ f \in Nat /\ l \in Nat
      /\ f < w /\ n = (B + f) + l /\ Before(r) = B + w
      /\ \A i \in 1 .. f : p[i] = x[B + i]
      /\ \A i \in 1 .. l : q[i] = x[(B + f) + i]
  BY <1>a DEF Measured
<1>3. m = w - f /\ m <= l
  BY <1>1, <1>m
<1>b. /\ B \in Nat /\ w \in Nat /\ n \in Nat /\ f \in Nat /\ l \in Nat
      /\ f < w /\ n = (B + f) + l
  BY <1>2
<1>4. m \in Nat /\ w = f + m /\ n = ((B + w) + 0) + (l - m) /\ B + w <= n
  <2>1. m \in Nat
    BY <1>b, <1>3
  <2>2. w = f + m
    BY <1>b, <1>3
  <2> QED
    BY <1>b, <1>3, <2>1, <2>2
<1>d. /\ \A k \in 1 .. w : ~(k <= f) => k - f \in 1 .. m /\ k - f \in 1 .. l /\ (B + f) + (k - f) = B + k
      /\ \A k \in 1 .. l - m : m + k \in 1 .. l /\ (B + f) + (m + k) = ((B + w) + 0) + k
  BY <1>b, <1>3, <1>4, PlacesInRow
<1>5. PICK head, e : head = SubSeq(q, 1, m) /\ e = << >>
  OBVIOUS
<1>6. e \in Seq(Int) /\ Len(e) = 0
  BY <1>5, EmptySeq
<1>c. p \in Seq(Int) /\ q \in Seq(Int) /\ m <= Len(q) /\ Len(p) = f /\ Len(q) = l
  BY <1>1, <1>2, <1>3
<1>7. head \in Seq(Int) /\ Len(head) = m /\ \A k \in 1 .. m : head[k] = q[k]
  <2>0. 0 \in Nat /\ 0 <= m /\ m \in Nat
    BY <1>4
  <2>1. /\ SubSeq(q, 0 + 1, m) \in Seq(Int) /\ Len(SubSeq(q, 0 + 1, m)) = m - 0
        /\ \A k \in 1 .. m - 0 : SubSeq(q, 0 + 1, m)[k] = q[0 + k]
    BY <1>c, <2>0, PartIs, SMTT(30)
  <2>2. 0 + 1 = 1 /\ m - 0 = m /\ \A k \in 1 .. m : 0 + k = k
    BY <1>4
  <2> QED
    BY <1>5, <2>1, <2>2
<1>8. rest \in Seq(Int) /\ Len(rest) = l - m /\ \A k \in 1 .. l - m : rest[k] = q[m + k]
  <2>1. /\ rest \in Seq(Int)
        /\ Len(rest) = IF m <= Len(q) THEN Len(q) - m ELSE 0
        /\ \A k \in 1 .. Len(rest) : rest[k] = q[m + k]
    BY <1>c, <1>4, <1>r, PartOf
  <2>2. Len(rest) = l - m
    BY <1>c, <2>1
  <2> QED
    BY <2>1, <2>2, SMTT(30)
<1>9. /\ row \in Seq(Int) /\ Len(row) = w
      /\ \A k \in 1 .. w : row[k] = IF k <= f THEN p[k] ELSE head[k - f]
  <2>1. /\ row \in Seq(Int) /\ Len(row) = f + m
        /\ \A k \in 1 .. f + m : row[k] = IF k <= f THEN p[k] ELSE head[k - f]
    <3>1. /\ p \o head \in Seq(Int) /\ Len(p \o head) = Len(p) + Len(head)
          /\ \A k \in 1 .. Len(p) + Len(head) : (p \o head)[k] = IF k <= Len(p) THEN p[k] ELSE head[k - Len(p)]
      <4> DEFINE I == Int
      <4>1. p \in Seq(I) /\ head \in Seq(I)
        BY <1>c, <1>7
      <4> HIDE DEF I
      <4>2. /\ p \o head \in Seq(I) /\ Len(p \o head) = Len(p) + Len(head)
            /\ \A k \in 1 .. Len(p) + Len(head) : (p \o head)[k] = IF k <= Len(p) THEN p[k] ELSE head[k - Len(p)]
        BY <4>1, ConcatProperties, SMTT(30)
      <4> QED
        BY <4>2 DEF I
    <3> QED
      BY <1>c, <1>r, <1>5, <1>7, <3>1
  <2> QED
    BY <1>4, <2>1
<1>10. row = RowOf(x, r)
  <2>1. Before(r) <= Len(x) /\ Extends(x, x) /\ r \in 1 .. Len(job.nSamps)
    BY <1>1, <1>2, <1>4 DEF Extends
  <2>2. /\ RowOf(x, r) \in Seq(Int) /\ Len(RowOf(x, r)) = w
        /\ \A k \in 1 .. w : RowOf(x, r)[k] = x[B + k]
    BY <1>1, <1>2, <2>1, RowStays
  <2>3. ASSUME NEW k \in 1 .. w PROVE row[k] = x[B + k]
    <3>1. CASE k <= f
      <4>1. k \in 1 .. f
        BY <1>b, <3>1
      <4> QED
        BY <1>2, <1>9, <3>1, <4>1
    <3>2. CASE ~(k <= f)
      <4>1. k - f \in 1 .. m /\ k - f \in 1 .. l /\ (B + f) + (k - f) = B + k
        BY <1>d, <3>2
      <4>2. row[k] = head[k - f] /\ head[k - f] = q[k - f]
        BY <1>7, <1>9, <3>2, <4>1
      <4>3. q[k - f] = x[(B + f) + (k - f)]
        BY <1>2, <4>1
      <4> QED
        BY <4>1, <4>2, <4>3
    <3> QED
      BY <3>1, <3>2
  <2> QED
    BY <1>9, <2>2, <2>3, SeqEqual
<1>11. RowsDone(x, r, d \o Padded(row), a \o Averaged(r, row))
  <2>1. PICK k : k = r - 1
    OBVIOUS
  <2>2. k \in Nat /\ k < Len(job.nSamps) /\ k + 1 = r /\ Before(k + 1) <= Len(x) /\ RowsDone(x, k, d, a)
    BY <1>1, <1>2, <1>4, <2>1
  <2>3. RowsDone(x, k + 1, d \o Padded(row), a \o Averaged(k + 1, row))
    BY <1>2, <1>10, <2>2, RowAdded
  <2> QED
    BY <2>2, <2>3
<1>12. ASSUME r + 1 <= N
       PROVE  0 < nCols(r + 1) /\ \A k \in 1 .. l - m : rest[k] = x[((B + w) + 0) + k]
  <2>1. r + 1 \in 1 .. Len(job.nSamps)
    BY <1>1, <1>2, <1>12
  <2>2. nCols(r + 1) > 0 /\ nCols(r + 1) \in Nat
    BY <2>1, WidthOfRow DEF NoRowEmpty
  <2>3. ASSUME NEW k \in 1 .. l - m PROVE rest[k] = x[((B + w) + 0) + k]
    <3>1. m + k \in 1 .. l /\ (B + f) + (m + k) = ((B + w) + 0) + k
      BY <1>d
    <3>2. rest[k] = q[m + k] /\ q[m + k] = x[(B + f) + (m + k)]
      BY <1>2, <1>8, <3>1
    <3> QED
      BY <3>1, <3>2
  <2> QED
    BY <2>2, <2>3
<1>13. r + 1 \in 1 .. N + 1 /\ (r + 1) - 1 = r /\ B + w <= n
  BY <1>2, <1>4
<1>14. Rowed(x, r + 1, e, rest, d \o Padded(row), a \o Averaged(r, row))
  <2>1. \A k \in 1 .. 0 : e[k] = x[(B + w) + k]
    OBVIOUS
  <2>2. /\ x \in Seq(Int) /\ Before(r) = B + w /\ N = Len(job.nSamps) /\ Len(x) = n /\ Len(e) = 0
        /\ Len(rest) = l - m /\ rest \in Seq(Int) /\ e \in Seq(Int)
    BY <1>1, <1>2, <1>6, <1>8
  <2>3. n = ((B + w) + 0) + (l - m)
    BY <1>4
  <2> QED
    BY <1>11, <1>12, <1>13, <2>1, <2>2, <2>3 DEF Rowed
<1>15. Len(rest) <= Len(q)
  BY <1>b, <1>c, <1>4, <1>8
<1> QED
  BY <1>m, <1>r, <1>5, <1>14, <1>15 DEF RowEndedTo

Todo(s) == Len(s.left) + ((Len(job.nSamps) + 1) - s.row)

LEMMA RowedTurn ==
  ASSUME Recipe, NoRowEmpty, NEW x, NEW s \in RowStates, NEW d \in Seq(Int), NEW a \in Seq(Int \X Int),
         Rowed(x, s.row, s.filled, s.left, d \o s.all, a \o s.ave),
         NEW i, NEW t, t = FillRow(s, i)
  PROVE  /\ Rowed(x, t.row, t.filled, t.left, d \o t.all, a \o t.ave)
         /\ NoTurn(s) => t = s
         /\ ~NoTurn(s) => Todo(t) <= Todo(s) - 1
<1> DEFINE V == Int \X Int
<1>0. t \in RowStates /\ ((NoTurn(s) /\ t = s) \/ PartOfRow(s, t) \/ EndOfRow(s, t))
  BY Turn
<1>v. V = Int \X Int
  OBVIOUS
<1>1. /\ s.row \in Nat /\ s.left \in Seq(Int) /\ s.filled \in Seq(Int) /\ s.all \in Seq(Int)
      /\ s.ave \in Seq(V) /\ Len(job.nSamps) \in Nat /\ a \in Seq(V)
  BY WidthOfRow DEF RowStates
<1>2. Len(s.left) \in Nat /\ (s.left = << >> <=> Len(s.left) = 0)
  BY <1>1, LenProperties, EmptySeq
<1>3. ~NoTurn(s) => s.row <= Len(job.nSamps) /\ Len(s.left) >= 1
  BY <1>1, <1>2, SMTT(30) DEF NoTurn
<1>4. ASSUME PartOfRow(s, t)
      PROVE  /\ Rowed(x, t.row, t.filled, t.left, d \o t.all, a \o t.ave)
             /\ Todo(t) <= Todo(s) - 1
  <2>1. /\ ~NoTurn(s) /\ Len(s.left) < nCols(s.row) - Len(s.filled)
        /\ t.row = s.row /\ t.filled = s.filled \o s.left /\ t.left = << >>
        /\ t.all = s.all /\ t.ave = s.ave
    BY <1>4 DEF PartOfRow, Needed
  <2>2. Rowed(x, s.row, s.filled \o s.left, << >>, d \o s.all, a \o s.ave)
    BY <1>3, <2>1, PartAdded, SMTT(30)
  <2>3. Todo(t) = 0 + ((Len(job.nSamps) + 1) - s.row)
    BY <2>1, EmptySeq DEF Todo
  <2>4. Todo(t) <= Todo(s) - 1
    BY <1>1, <1>2, <1>3, <2>1, <2>3, SMTT(30) DEF Todo
  <2> QED
    BY <2>1, <2>2, <2>4
<1>5. ASSUME EndOfRow(s, t)
      PROVE  /\ Rowed(x, t.row, t.filled, t.left, d \o t.all, a \o t.ave)
             /\ Todo(t) <= Todo(s) - 1
  <2>1. PICK m, row : m = nCols(s.row) - Len(s.filled) /\ row = s.filled \o SubSeq(s.left, 1, m)
    OBVIOUS
  <2>2. /\ ~NoTurn(s) /\ m <= Len(s.left) /\ row \in Seq(Int) /\ Len(row) = nCols(s.row)
        /\ t.row = s.row + 1 /\ t.filled = << >>
        /\ t.left = SubSeq(s.left, m + 1, Len(s.left))
        /\ t.all = s.all \o Padded(row) /\ t.ave = s.ave \o Averaged(s.row, row)
    BY <1>5, <2>1 DEF EndOfRow, Needed
  <2>3. /\ Rowed(x, s.row + 1, << >>, t.left, (d \o s.all) \o Padded(row), (a \o s.ave) \o Averaged(s.row, row))
        /\ Len(t.left) <= Len(s.left)
    <3>2. s.row <= Len(job.nSamps)
      BY <1>3, <2>2
    <3>3. nCols(s.row) - Len(s.filled) <= Len(s.left)
      BY <2>1, <2>2
    <3>4. PICK k, g, rest :
            /\ k = nCols(s.row) - Len(s.filled) /\ g = s.filled \o SubSeq(s.left, 1, k)
            /\ rest = SubSeq(s.left, k + 1, Len(s.left))
            /\ Rowed(x, s.row + 1, << >>, rest, (d \o s.all) \o Padded(g), (a \o s.ave) \o Averaged(s.row, g))
            /\ Len(rest) <= Len(s.left)
      <4>1. PICK r, p, q, dd, aa : r = s.row /\ p = s.filled /\ q = s.left /\ dd = d \o s.all /\ aa = a \o s.ave
        OBVIOUS
      <4>2. Rowed(x, r, p, q, dd, aa) /\ r <= Len(job.nSamps) /\ nCols(r) - Len(p) <= Len(q)
        BY <3>2, <3>3, <4>1
      <4>3. RowEndedTo(x, r, p, q, dd, aa)
        BY <4>2, RowEnded, SMTT(30)
      <4> QED
        BY <4>1, <4>3 DEF RowEndedTo
    <3>5. k = m /\ g = row /\ rest = t.left
      BY <2>1, <2>2, <3>4
    <3> QED
      BY <3>4, <3>5
  <2>4. s.row \in 1 .. Len(job.nSamps)
    BY <1>3, <2>2, SMTT(30) DEF RowStates
  <2>5. (d \o s.all) \o Padded(row) = d \o t.all
    <3>1. Padded(row) \in Seq(Int)
      BY <2>2, <2>4, PaddedIs
    <3>2. PICK c, u, v, w : c = d /\ u = s.all /\ v = t.all /\ w = Padded(row)
      OBVIOUS
    <3> DEFINE I == Int
    <3>3. c \in Seq(I) /\ u \in Seq(I) /\ w \in Seq(I) /\ v = u \o w
      BY <1>1, <2>2, <3>1, <3>2
    <3> HIDE DEF I
    <3>4. (c \o u) \o w = c \o v
      BY <3>3, ThreeParts, SMTT(30)
    <3> QED
      BY <3>2, <3>4
  <2>6. (a \o s.ave) \o Averaged(s.row, row) = a \o t.ave
    <3>1. AveragedTo(s.row, row, Averaged(s.row, row))
      BY <2>2, <2>4, AveragedIs
    <3>2. Averaged(s.row, row) \in Seq(V)
      BY <3>1 DEF AveragedTo
    <3>3. PICK u, v, w : u = s.ave /\ v = t.ave /\ w = Averaged(s.row, row)
      OBVIOUS
    <3> HIDE DEF V
    <3>4. a \in Seq(V) /\ u \in Seq(V) /\ w \in Seq(V) /\ v = u \o w
      BY <1>1, <2>2, <3>2, <3>3
    <3>5. (a \o u) \o w = a \o v
      BY <3>4, ThreeParts, SMTT(30)
    <3> QED
      BY <3>3, <3>5
  <2>7. Todo(t) <= Todo(s) - 1
    <3>1. Len(t.left) \in Nat
      BY <1>0, LenProperties DEF RowStates
    <3>2. t.row = s.row + 1 /\ Len(t.left) <= Len(s.left)
      BY <2>2, <2>3
    <3>3. s.row \in Nat /\ Len(s.left) \in Nat /\ Len(job.nSamps) \in Nat
      BY <1>1, <1>2
    <3>4. Len(t.left) + ((Len(job.nSamps) + 1) - (s.row + 1)) <= (Len(s.left) + ((Len(job.nSamps) + 1) - s.row)) - 1
      BY <3>1, <3>2, <3>3, TodoFalls
    <3> QED
      BY <3>2, <3>4 DEF Todo
  <2> QED
    BY <2>2, <2>3, <2>5, <2>6, <2>7
<1>6. PartOfRow(s, t) \/ EndOfRow(s, t) => ~NoTurn(s)
  BY DEF PartOfRow, EndOfRow
<1> QED
  BY <1>0, <1>4, <1>5, <1>6

LEMMA TodoTyped == ASSUME Recipe, NEW s \in RowStates PROVE Todo(s) \in Int
<1>1. s.left \in Seq(Int) /\ s.row \in Nat /\ Len(job.nSamps) \in Nat
  BY WidthOfRow DEF RowStates
<1>2. Len(s.left) \in Nat
  BY <1>1, LenProperties
<1> QED
  BY <1>1, <1>2, SMTT(30) DEF Todo

FilledUp(x, h, pixels, d, a) ==
  \E s : /\ s = FillRows(h, pixels) /\ s \in RowStates
         /\ Rowed(x, s.row, s.filled, << >>, d \o s.all, a \o s.ave)

(* All the pixels that have arrived are put in rows: the turns suffice.    *)
LEMMA RowsFilledUp ==
  ASSUME Recipe, NoRowEmpty, RowsTyped(rows), NEW h \in F!HDUs, NEW x, NEW pixels \in Seq(Int),
         NEW d \in Seq(Int), NEW a \in Seq(Int \X Int),
         Rowed(x, rows[h].row, rows[h].filled, pixels, d, a)
  PROVE  FilledUp(x, h, pixels, d, a)
<1> DEFINE N == Len(job.nSamps)
           l == Len(pixels)
           n == l + N
           b == RowStart(rows, h, pixels)
           V == Int \X Int
<1>1. b \in RowStates /\ n \in Nat /\ N \in Nat \ {0} /\ l \in Nat
  BY RowsFilled, WidthOfRow, LenProperties
<1>2. PICK q : Turns(q, b, n) /\ FillRows(h, pixels) = q[n]
  BY RowsFilled
<1>n. n = l + N
  OBVIOUS
<1>b. b.row = rows[h].row /\ b.filled = rows[h].filled /\ b.left = pixels /\ b.all = << >> /\ b.ave = << >>
  BY DEF RowStart
<1>v. d \o << >> = d /\ a \o << >> = a
  <2>1. d \o << >> = d
    <3> DEFINE I == Int
    <3>1. d \in Seq(I)
      OBVIOUS
    <3> HIDE DEF I
    <3> QED
      BY <3>1, ConcatEmptySeq
  <2>2. a \in Seq(V)
    OBVIOUS
  <2> HIDE DEF V
  <2> QED
    BY <2>1, <2>2, ConcatEmptySeq
<1>t. Todo(b) <= n
  <2>1. b.row \in Nat \ {0} /\ Todo(b) = l + ((N + 1) - b.row)
    BY <1>1, <1>b DEF Todo, RowStates
  <2> HIDE DEF b, N, l
  <2> QED
    BY <1>1, <2>1
<1> HIDE DEF b, n, N, l
<1>3. /\ q \in [0 .. n -> RowStates] /\ q[0] = b
      /\ \A k \in 1 .. n : q[k] = FillRow(q[k - 1], k)
  BY <1>2 DEF Turns
<1> DEFINE On(s) == Rowed(x, s.row, s.filled, s.left, d \o s.all, a \o s.ave)
           Left(s, k) == NoTurn(s) \/ Todo(s) <= n - k
           T == {k \in 0 .. n : ~(On(q[k]) /\ Left(q[k], k))}
<1>4. T = {}
  <2>1. SUFFICES ASSUME T # {} PROVE FALSE
    OBVIOUS
  <2>2. PICK m \in T : \A k \in T : m <= k
    <3>1. T \in SUBSET Nat
      BY <1>1
    <3> HIDE DEF T
    <3> QED
      BY <2>1, <3>1, SmallestNumber
  <2>3. m \in 0 .. n /\ ~(On(q[m]) /\ Left(q[m], m))
    OBVIOUS
  <2>4. m # 0
    <3>1. On(b)
      BY <1>b, <1>v, Zenon
    <3>2. Left(b, 0)
      BY <1>1, <1>t
    <3> QED
      BY <1>3, <2>3, <3>1, <3>2
  <2>5. m \in 1 .. n /\ m - 1 \in 0 .. n /\ ~(m <= m - 1)
    BY <1>1, <2>3, <2>4
  <2>6. On(q[m - 1]) /\ Left(q[m - 1], m - 1)
    <3> HIDE DEF On, Left
    <3> QED
      BY <2>2, <2>5
  <2>7. PICK s, t : s = q[m - 1] /\ t = q[m]
    OBVIOUS
  <2>8. s \in RowStates /\ t \in RowStates /\ t = FillRow(s, m)
    BY <1>3, <2>3, <2>5, <2>7
  <2>9. On(s) /\ Left(s, m - 1)
    BY <2>6, <2>7
  <2>10. On(t) /\ (NoTurn(s) => t = s) /\ (~NoTurn(s) => Todo(t) <= Todo(s) - 1)
    BY <2>8, <2>9, RowedTurn
  <2>11. Left(t, m)
    <3>1. CASE NoTurn(s)
      BY <2>10, <3>1
    <3>2. CASE ~NoTurn(s)
      <4>1. Todo(s) <= n - (m - 1) /\ Todo(t) <= Todo(s) - 1
        BY <2>9, <2>10, <3>2
      <4>2. Todo(s) \in Int /\ Todo(t) \in Int
        BY <2>8, TodoTyped
      <4>3. Todo(t) <= n - m
        BY <1>1, <2>5, <4>1, <4>2
      <4> QED
        BY <4>3
    <3> QED
      BY <3>1, <3>2
  <2> QED
    BY <2>3, <2>7, <2>10, <2>11
<1>5. n \in 0 .. n /\ n - n = 0
  BY <1>1
<1>6. PICK s : s = q[n]
  OBVIOUS
<1>7. s \in RowStates /\ On(s) /\ Left(s, n)
  BY <1>3, <1>4, <1>5, <1>6
<1>8. NoTurn(s)
  <2>1. CASE Todo(s) <= 0
    <3>1. /\ Len(s.left) \in Nat /\ (s.left = << >> <=> Len(s.left) = 0) /\ s.row \in Nat
          /\ s.row <= N + 1
      BY <1>7, LenProperties, EmptySeq DEF RowStates, N
    <3>2. Len(s.left) + ((N + 1) - s.row) <= 0
      BY <2>1 DEF Todo, N
    <3>3. Len(s.left) = 0
      BY <1>1, <3>1, <3>2, SMTT(30)
    <3> QED
      BY <3>1, <3>3 DEF NoTurn
  <2> QED
    BY <1>5, <1>7, <2>1
<1>9. Rowed(x, s.row, s.filled, << >>, d \o s.all, a \o s.ave)
  <2>1. CASE s.left = << >>
    BY <1>7, <2>1, SMTT(30)
  <2>2. CASE s.row > Len(job.nSamps)
    <3>1. << >> \in Seq(Int) /\ s.row \in Nat /\ Len(job.nSamps) \in Nat
      BY <1>1, <1>7, EmptySeq DEF RowStates, N
    <3>2. ~(s.row <= Len(job.nSamps))
      BY <2>2, <3>1
    <3> QED
      BY <1>7, <3>1, <3>2 DEF Rowed
  <2> QED
    BY <1>8, <2>1, <2>2 DEF NoTurn
<1> QED
  BY <1>2, <1>6, <1>7, <1>9 DEF FilledUp

-----------------------------------------------------------------------------
(* An image written so that nothing is cut off.                            *)

Counted(o) == \A h \in F!HDUs : o.pixelCounts[h] = Len(o.data[h])

LEMMA AllWritten ==
  ASSUME NEW V, NEW o \in Images(V), NEW h \in F!HDUs, NEW x \in Seq(V),
         o.pixelCounts[h] + Len(x) <= o.pixExpected
  PROVE  F!Written(o, h, x) = x
<1> DEFINE z == F!Written(o, h, x)
<1>1. PICK room : room = o.pixExpected - o.pixelCounts[h]
  OBVIOUS
<1>2. o.pixExpected \in Nat /\ o.pixelCounts[h] \in Nat /\ Len(x) \in Nat
  BY LenProperties DEF Images
<1>3. Len(x) <= room
  BY <1>1, <1>2, SMTT(30)
<1>4. /\ z \in Seq(V)
      /\ Len(z) = IF Len(x) <= room THEN Len(x) ELSE IF room < 0 THEN 0 ELSE room
      /\ \A i \in 1 .. Len(z) : z[i] = x[i]
  BY <1>1, WrittenIs
<1> HIDE DEF z
<1>5. z = x
  BY <1>3, <1>4, SeqEqual
<1> QED
  BY <1>5 DEF z

(* The HDUs without a channel stay as they are. *)
Kept(r, o, E) == \A g \in E : r.pixelCounts[g] = o.pixelCounts[g] /\ r.data[g] = o.data[g]

LEMMA DumpKeeps ==
  ASSUME NEW V, NEW D, IsFiniteSet(D), NEW o \in Images(V), NEW hdu \in [D -> F!HDUs],
         NEW px \in [D -> Seq(V)], NEW E, E = F!HDUs \ {hdu[c] : c \in D},
         NEW r, r = dump_channels(o, hdu, px)
  PROVE  Kept(r, o, E)
<1> DEFINE s == SetToSeq(D)
           n == Len(s)
<1>1. n \in Nat /\ \A i \in 1 .. n : s[i] \in D
  BY SetInSequence, ElementOfSeq
<1>2. PICK q : Dumps(q, V, s, o, hdu, px) /\ r = q[n]
  BY DumpsInTurn
<1> HIDE DEF s
<1>3. /\ q \in [0 .. n -> Images(V)] /\ q[0] = o
      /\ \A k \in 1 .. n : q[k] = F!dump_to_fits(q[k - 1], hdu[s[k]], px[s[k]])
  BY <1>2, SMTT(30) DEF Dumps
<1> HIDE DEF n
<1> DEFINE T == {k \in 0 .. n : ~Kept(q[k], o, E)}
<1>4. T = {}
  <2>1. SUFFICES ASSUME T # {} PROVE FALSE
    OBVIOUS
  <2>2. PICK m \in T : \A k \in T : m <= k
    <3>1. T \in SUBSET Nat
      BY <1>1
    <3> HIDE DEF T
    <3> QED
      BY <2>1, <3>1, SmallestNumber
  <2>3. m \in 0 .. n /\ ~Kept(q[m], o, E)
    OBVIOUS
  <2>4. m # 0
    BY <1>3, <2>3 DEF Kept
  <2>5. m \in 1 .. n /\ m - 1 \in 0 .. n /\ ~(m <= m - 1)
    BY <1>1, <2>3, <2>4
  <2>6. Kept(q[m - 1], o, E)
    BY <2>2, <2>5
  <2>7. /\ q[m - 1] \in Images(V) /\ px[s[m]] \in Seq(V) /\ hdu[s[m]] \in F!HDUs /\ s[m] \in D
        /\ q[m] = F!dump_to_fits(q[m - 1], hdu[s[m]], px[s[m]])
    BY <1>1, <1>3, <2>5
  <2>8. DumpedOne(q[m], q[m - 1], hdu[s[m]], px[s[m]])
    BY <2>7, DumpOne
  <2>9. \A g \in E : g \in F!HDUs \ {hdu[s[m]]}
    BY <2>7
  <2> QED
    BY <2>3, <2>6, <2>8, <2>9 DEF Kept, DumpedOne
<1>5. n \in 0 .. n
  BY <1>1
<1> QED
  BY <1>2, <1>4, <1>5

(* Each vector goes to the HDU of its place, with nothing cut off.         *)
InPlace(V, o, n, px) ==
  \E r : /\ r = dump_channels(o, [h \in 1 .. n |-> h], px)
         /\ r \in Images(V) /\ Counted(r) /\ r.pixExpected = o.pixExpected
         /\ \A h \in F!HDUs : r.data[h] = IF h \in 1 .. n THEN o.data[h] \o px[h] ELSE o.data[h]

LEMMA DumpedInPlace ==
  ASSUME NEW V, NEW o \in Images(V), Counted(o), NEW n \in Nat, n <= NumChannels,
         NEW px \in [1 .. n -> Seq(V)],
         \A h \in 1 .. n : o.pixelCounts[h] + Len(px[h]) <= o.pixExpected
  PROVE  InPlace(V, o, n, px)
<1> DEFINE D == 1 .. n
           hdu == [h \in D |-> h]
           r == dump_channels(o, hdu, px)
           E == F!HDUs \ {hdu[c] : c \in D}
<1>1. D \subseteq F!HDUs /\ IsFiniteSet(D) /\ NumChannels \in Nat
  BY FS_Interval, ReaderAssumption DEF F!HDUs
<1>2. hdu \in [D -> F!HDUs] /\ EachItsOwn(hdu, D) /\ (\A h \in D : hdu[h] = h) /\ px \in [D -> Seq(V)]
  BY <1>1 DEF EachItsOwn
<1>d. D = 1 .. n
  OBVIOUS
<1> HIDE DEF D, hdu
<1>3. r \in Images(V) /\ Dumped(r, o, D, hdu, px)
  BY <1>1, <1>2, DumpChannels
<1>4. Kept(r, o, E)
  BY <1>1, <1>2, DumpKeeps
<1> HIDE DEF r
<1>5. \A h \in F!HDUs : h \notin D => h \in E
  BY <1>2
<1> HIDE DEF E
<1>6. ASSUME NEW h \in D
      PROVE  /\ r.data[h] = o.data[h] \o px[h] /\ r.pixelCounts[h] = Len(r.data[h])
  <2>1. h \in F!HDUs /\ px[h] \in Seq(V) /\ o.pixelCounts[h] + Len(px[h]) <= o.pixExpected
    BY <1>1, <1>2, <1>d
  <2>2. F!Written(o, h, px[h]) = px[h]
    BY <2>1, AllWritten, SMTT(30)
  <2>3. r.data[h] = o.data[h] \o px[h] /\ r.pixelCounts[h] = o.pixelCounts[h] + Len(px[h])
    BY <1>2, <1>3, <2>2 DEF Dumped
  <2>4. Len(o.data[h] \o px[h]) = Len(o.data[h]) + Len(px[h])
    <3>1. o.data[h] \in Seq(V)
      BY <2>1 DEF Images
    <3> QED
      BY <2>1, <3>1, ConcatProperties
  <2> QED
    BY <2>1, <2>3, <2>4 DEF Counted
<1>7. ASSUME NEW h \in F!HDUs, h \notin D
      PROVE  r.data[h] = o.data[h] /\ r.pixelCounts[h] = Len(r.data[h])
  BY <1>4, <1>5, <1>7 DEF Kept, Counted
<1>8. Counted(r)
  BY <1>6, <1>7 DEF Counted
<1>9. r.pixExpected = o.pixExpected
  BY <1>3 DEF Dumped
<1> QED
  BY <1>3, <1>6, <1>7, <1>8, <1>9, <1>d DEF r, hdu, InPlace

-----------------------------------------------------------------------------
(* What the smart conversion has made of the words w.                      *)

(* x are the pixels of the channel whose HDU is h, if there is one yet.    *)
PixelsAt(w, h, x) ==
  LET D == Ids(w)
  IN \/ \E c \in D : Place(D, c) = h /\ x = Pixels(w, c)
     \/ h > Cardinality(D) /\ x = << >>

InRows(w, pv, rs, o, oa) ==
  \A h \in F!HDUs : \A x, row, filled, left, d, a :
    (/\ PixelsAt(w, h, x)
     /\ row = rs[h].row /\ filled = rs[h].filled /\ left = At(pv, h)
     /\ d = o.data[h] /\ a = oa.data[h])
      => Rowed(x, row, filled, left, d, a)

SmartSizes(rs, o, oa) ==
  /\ RowsTyped(rs)
  /\ o \in Images(Int) /\ Counted(o) /\ o.pixExpected = nColsAllMax * Len(job.nSamps)
  /\ oa \in Images(Int \X Int) /\ Counted(oa) /\ oa.pixExpected = job.nColsAve * Len(job.nSamps)

SmartDone(w, pv, ci, rs, o, oa) ==
  /\ w \in Seq(Words(job.nch)) /\ Ordered(job.nch, w, pv, ci)
  /\ \A c \in Nat \ Ids(w) : Pixels(w, c) = << >>
  /\ InRows(w, pv, rs, o, oa) /\ SmartSizes(rs, o, oa)

SmartInv ==
  job.mode = "smart" /\ NoRowEmpty =>
    /\ \E w : /\ phase # "undefined" => HandedOut(w)
              /\ SmartDone(w, pixelsVector, channelIndex, rows, outf, outfAve)
    /\ phase \notin {"save_counts", "delete"}
    /\ phase \in {"compress", "done"} =>
         /\ rd.end
         /\ Len(pixelsVector) <= NumChannels
         /\ \A h \in 1 .. Len(pixelsVector) : pixelsVector[h] = << >>

(* Some channel's pixels, or none, are at a place. *)
LEMMA SomeAtPlace ==
  ASSUME NEW w, Ids(w) \in SUBSET Nat, IsFiniteSet(Ids(w)), NEW h \in F!HDUs
  PROVE  \E x : PixelsAt(w, h, x)
<1> DEFINE D == Ids(w)
<1>1. Cardinality(D) \in Nat /\ h \in Nat \ {0}
  BY FS_CardinalityType, ReaderAssumption DEF F!HDUs
<1>2. \A k \in 1 .. Cardinality(D) : \E c \in D : Place(D, c) = k
  <2> HIDE DEF D
  <2> QED
    BY PlacesOfNumbers DEF D
<1>3. CASE h > Cardinality(D)
  BY <1>3 DEF PixelsAt
<1>4. CASE ~(h > Cardinality(D))
  <2>1. h \in 1 .. Cardinality(D)
    BY <1>1, <1>4
  <2>2. PICK c \in D : Place(D, c) = h
    BY <1>2, <2>1
  <2> QED
    BY <2>2 DEF PixelsAt
<1> QED
  BY <1>3, <1>4

(* A word more at the place of its channel.                                *)
FromBefore(w, u, v, h, x) ==
  \E y : /\ PixelsAt(w, h, y)
         /\ x = IF h = Place(Ids(u), v.chID) THEN Append(y, -v.samp) ELSE y

LEMMA PixelsAtAppend ==
  ASSUME NEW nch \in Nat, NEW w \in Seq(Words(nch)), NEW v \in Words(nch),
         Ids(w) \in SUBSET Nat, IsFiniteSet(Ids(w)), v.chID \in Nat,
         \A c \in Nat \ Ids(w) : Pixels(w, c) = << >>,
         NEW u, u = Append(w, v),
         \A c \in Ids(w) : Place(Ids(u), c) = Place(Ids(w), c),
         NEW h \in F!HDUs, NEW x, PixelsAt(u, h, x)
  PROVE  FromBefore(w, u, v, h, x)
<1> DEFINE D == Ids(w)
           G == Ids(u)
           e == v.chID
<1>1. G = D \cup {e}
  BY IdsAppend
<1>2. \A c : Pixels(u, c) = IF e = c THEN Append(Pixels(w, c), -v.samp) ELSE Pixels(w, c)
  BY PixelsAppend
<1>3. /\ G \in SUBSET Nat /\ IsFiniteSet(G) /\ D \in SUBSET Nat /\ IsFiniteSet(D)
      /\ Cardinality(D) \in Nat /\ Cardinality(G) \in Nat
  <2>1. IsFiniteSet(D) /\ D \in SUBSET Nat /\ e \in Nat
    OBVIOUS
  <2> HIDE DEF D, G, e
  <2>2. IsFiniteSet(G)
    BY <1>1, <2>1, FS_AddElement
  <2>3. G \in SUBSET Nat
    BY <1>1, <2>1
  <2> QED
    BY <2>1, <2>2, <2>3, FS_CardinalityType
<1>4. h \in Nat \ {0}
  BY ReaderAssumption DEF F!HDUs
<1>e. e \in Nat /\ (e \notin D => Pixels(w, e) = << >>) /\ \A c \in D : Place(G, c) = Place(D, c)
  OBVIOUS
<1>x. PixelsAt(w, h, << >>) <=> (h > Cardinality(D) \/ \E c \in D : Place(D, c) = h /\ << >> = Pixels(w, c))
  BY DEF PixelsAt
<1>y. \A y : (h > Cardinality(D) /\ y = << >>) \/ (\E c \in D : Place(D, c) = h /\ y = Pixels(w, c)) => PixelsAt(w, h, y)
  BY DEF PixelsAt
<1>z. (h > Cardinality(G) /\ x = << >>) \/ \E c \in G : Place(G, c) = h /\ x = Pixels(u, c)
  BY DEF PixelsAt
<1> HIDE DEF D, G, e
<1>5. /\ \A c \in G : Place(G, c) \in 1 .. Cardinality(G)
      /\ \A c, d \in G : Place(G, c) = Place(G, d) => c = d
  BY <1>3, PlacesOfNumbers
<1>6. /\ \A k \in 1 .. Cardinality(D) : \E c \in D : Place(D, c) = k
      /\ \A c \in D : Place(D, c) \in 1 .. Cardinality(D)
  BY <1>3, PlacesOfNumbers
<1>7. Cardinality(D) <= Cardinality(G)
  BY <1>1, <1>3, FS_Subset
<1>8. ASSUME h > Cardinality(G), x = << >>
      PROVE  \E y : PixelsAt(w, h, y) /\ x = IF h = Place(G, e) THEN Append(y, -v.samp) ELSE y
  <2>1. h # Place(G, e)
    <3>1. Place(G, e) \in 1 .. Cardinality(G)
      BY <1>1, <1>5
    <3> QED
      BY <1>3, <1>4, <1>8, <3>1
  <2>2. h > Cardinality(D)
    BY <1>3, <1>4, <1>7, <1>8
  <2> QED
    BY <1>8, <1>y, <2>1, <2>2
<1>9. ASSUME NEW c \in G, Place(G, c) = h, x = Pixels(u, c)
      PROVE  \E y : PixelsAt(w, h, y) /\ x = IF h = Place(G, e) THEN Append(y, -v.samp) ELSE y
  <2>1. CASE c \in D
    <3>1. PixelsAt(w, h, Pixels(w, c))
      BY <1>9, <1>e, <1>y, <2>1
    <3>2. h = Place(G, e) <=> e = c
      BY <1>1, <1>5, <1>9
    <3> QED
      BY <1>2, <1>9, <3>1, <3>2
  <2>2. CASE c \notin D
    <3>1. c = e /\ e \notin D
      BY <1>1, <1>9, <2>2
    <3>2. h > Cardinality(D)
      <4>1. CASE h \in 1 .. Cardinality(D)
        <5>1. PICK b \in D : Place(D, b) = h
          BY <1>6, <4>1
        <5>2. Place(G, b) = Place(G, c) /\ b \in G
          BY <1>1, <1>9, <1>e, <5>1
        <5> QED
          BY <1>5, <1>9, <2>2, <5>1, <5>2
      <4>2. CASE h \notin 1 .. Cardinality(D)
        BY <1>3, <1>4, <4>2
      <4> QED
        BY <4>1, <4>2
    <3>3. PixelsAt(w, h, << >>) /\ Pixels(w, e) = << >>
      BY <1>e, <1>y, <3>1, <3>2
    <3>4. x = Append(<< >>, -v.samp)
      BY <1>2, <1>9, <3>1, <3>3
    <3> QED
      BY <1>9, <3>1, <3>3, <3>4
  <2> QED
    BY <2>1, <2>2
<1>10. \E y : PixelsAt(w, h, y) /\ x = IF h = Place(G, e) THEN Append(y, -v.samp) ELSE y
  BY <1>8, <1>9, <1>z
<1> QED
  BY <1>10 DEF G, e, FromBefore

-----------------------------------------------------------------------------
(* The rows stay what they are while the readout that is converted does.   *)

LEMMA SameRows ==
  ASSUME UNCHANGED job
  PROVE  /\ \A q : nCols(q)' = nCols(q)
         /\ \A q : Before(q)' = Before(q)
         /\ \A x, q : RowOf(x, q)' = RowOf(x, q)
         /\ \A x, q, i : Average(x, q, i)' = Average(x, q, i)
         /\ Recipe' = Recipe /\ NoRowEmpty' = NoRowEmpty
<1>1. ASSUME NEW q PROVE nCols(q)' = nCols(q)
  BY DEF nCols
<1>2. ASSUME NEW q PROVE Before(q)' = Before(q)
  <2>1. [k \in 1 .. q |-> nCols(k)]' = [k \in 1 .. q |-> nCols(k)]
    BY <1>1
  <2> QED
    BY <2>1 DEF Before
<1>3. ASSUME NEW x, NEW q PROVE RowOf(x, q)' = RowOf(x, q)
  <2>1. PICK p : p = q - 1
    OBVIOUS
  <2>2. Before(p)' = Before(p) /\ Before(q)' = Before(q)
    BY <1>2
  <2> QED
    BY <2>1, <2>2 DEF RowOf
<1>4. ASSUME NEW x, NEW q, NEW i PROVE Average(x, q, i)' = Average(x, q, i)
  <2>1. PICK p : p = q - 1
    OBVIOUS
  <2>2. Before(p)' = Before(p)
    BY <1>2
  <2> QED
    BY <2>1, <2>2 DEF Average
<1>5. Recipe' = Recipe /\ NoRowEmpty' = NoRowEmpty
  BY <1>1 DEF Recipe, NoRowEmpty
<1> QED
  BY <1>1, <1>2, <1>3, <1>4, <1>5

Widest ==
  /\ nColsAllMax \in Nat /\ \A r \in 1 .. Len(job.nSamps) : nCols(r) <= nColsAllMax
  /\ \E r \in 1 .. Len(job.nSamps) : nColsAllMax = nCols(r)

LEMMA WidestRowThen == (Recipe => Widest)'
<1>1. Recipe => Widest
  BY WidestRow DEF Widest
<1> QED
  BY <1>1, PTL

LEMMA SameWidth ==
  ASSUME UNCHANGED job, Recipe
  PROVE  nColsAllMax' = nColsAllMax /\ \A row : Padded(row)' = Padded(row)
<1> DEFINE N == Len(job.nSamps)
<1>1. /\ nColsAllMax \in Nat /\ \A r \in 1 .. N : nCols(r) <= nColsAllMax
      /\ \E r \in 1 .. N : nColsAllMax = nCols(r)
  BY WidestRow
<1>4. Recipe' /\ \A q : nCols(q)' = nCols(q)
  BY SameRows
<1>5. /\ nColsAllMax' \in Nat /\ \A r \in 1 .. N : nCols(r) <= nColsAllMax'
      /\ \E r \in 1 .. N : nColsAllMax' = nCols(r)
  BY <1>4, WidestRowThen DEF Widest
<1>6. nColsAllMax' = nColsAllMax
  BY <1>1, <1>5
<1> QED
  BY <1>6 DEF Padded, SMART_FLAG_NOT_REAL_PIXELS

LEMMA SameRowsDone ==
  ASSUME UNCHANGED job, Recipe, NEW x, NEW k, NEW d, NEW a, RowsDone(x, k, d, a)
  PROVE  RowsDone(x, k, d, a)'
<1>1. ASSUME NEW q PROVE Padded(RowOf(x, q))' = Padded(RowOf(x, q))
  <2>1. PICK s : s = RowOf(x, q)
    OBVIOUS
  <2>2. Padded(s)' = Padded(s) /\ RowOf(x, q)' = RowOf(x, q)
    BY SameRows, SameWidth
  <2> QED
    BY <2>1, <2>2 DEF Padded
<1>2. [q \in 1 .. k |-> Padded(RowOf(x, q))]' = [q \in 1 .. k |-> Padded(RowOf(x, q))]
  BY <1>1
<1>3. \A q, i : Average(x, q, i)' = Average(x, q, i)
  BY SameRows
<1> QED
  BY <1>2, <1>3, SameWidth DEF RowsDone

LEMMA SameRowed ==
  ASSUME UNCHANGED job, Recipe, NEW x, NEW row, NEW filled, NEW left, NEW d, NEW a,
         Rowed(x, row, filled, left, d, a)
  PROVE  Rowed(x, row, filled, left, d, a)'
<1>1. PICK k : k = row - 1
  OBVIOUS
<1>2. RowsDone(x, k, d, a)'
  BY <1>1, SameRowsDone DEF Rowed
<1>3. Before(k)' = Before(k) /\ nCols(row)' = nCols(row)
  BY SameRows
<1>4. Before(row - 1)' = Before(row - 1) /\ RowsDone(x, row - 1, d, a)'
  BY <1>1, <1>2, <1>3
<1> QED
  BY <1>3, <1>4 DEF Rowed

LEMMA SmartDoneThen ==
  ASSUME UNCHANGED job, Recipe, NEW w,
         SmartDone(w, pixelsVector', channelIndex', rows', outf', outfAve')
  PROVE  SmartDone(w, pixelsVector, channelIndex, rows, outf, outfAve)'
<1>1. InRows(w, pixelsVector', rows', outf', outfAve') => InRows(w, pixelsVector, rows, outf, outfAve)'
  BY SameRowed DEF InRows
<1>2. SmartSizes(rows', outf', outfAve') => SmartSizes(rows, outf, outfAve)'
  <2>1. RowsTyped(rows') => RowsTyped(rows)'
    BY DEF RowsTyped, nCols
  <2>2. nColsAllMax' = nColsAllMax
    BY SameWidth
  <2> QED
    BY <2>1, <2>2 DEF SmartSizes
<1> QED
  BY <1>1, <1>2 DEF SmartDone

(* The vectors and the images after a word.                                *)
LEMMA SmartWordDone ==
  ASSUME Recipe, job.nch \in Nat, NEW w, NEW v \in Words(job.nch), ~OutsideVector(v),
         SmartDone(w, pixelsVector, channelIndex, rows, outf, outfAve),
         NEW pv, pv = VectorWith(v, -v.samp)
  PROVE  SmartDone(Append(w, v), pv, PlacesWith(v), rows, outf, outfAve)
<1> DEFINE u == Append(w, v)
           p == Place(Ids(u), v.chID)
           D == Ids(w)
<1>1. /\ w \in Seq(Words(job.nch)) /\ Ordered(job.nch, w, pixelsVector, channelIndex)
      /\ \A c \in Nat \ D : Pixels(w, c) = << >>
      /\ InRows(w, pixelsVector, rows, outf, outfAve) /\ SmartSizes(rows, outf, outfAve)
  BY DEF SmartDone
<1>2. v.chID \in Nat /\ -v.samp \in Int
  BY DEF Words
<1>3. /\ Ordered(job.nch, u, pv, PlacesWith(v))
      /\ \A c \in D : Place(Ids(u), c) = Place(D, c)
      /\ p \in 1 .. Len(pv)
      /\ Len(pv) \in {Len(pixelsVector), Len(pixelsVector) + 1}
      /\ \A h \in 1 .. Len(pv) :
           pv[h] = IF h = p THEN Append(At(pixelsVector, h), -v.samp) ELSE At(pixelsVector, h)
  BY <1>1, <1>2, WordPlaced
<1>4. /\ u \in Seq(Words(job.nch)) /\ Ids(u) = D \cup {v.chID}
      /\ \A c : Pixels(u, c) = IF v.chID = c THEN Append(Pixels(w, c), -v.samp) ELSE Pixels(w, c)
  BY <1>1, IdsAppend, PixelsAppend
<1>5. D \in SUBSET Nat /\ IsFiniteSet(D)
  BY <1>1 DEF Ordered
<1>6. \A c \in Nat \ Ids(u) : Pixels(u, c) = << >>
  BY <1>1, <1>4
<1>7. Len(pixelsVector) \in Nat /\ Len(pv) \in Nat
  BY <1>1, <1>3, LenProperties DEF Ordered
<1>8. ASSUME NEW h \in F!HDUs
      PROVE  At(pv, h) = IF h = p THEN Append(At(pixelsVector, h), -v.samp) ELSE At(pixelsVector, h)
  <2> HIDE DEF p, u
  <2>1. CASE h \in 1 .. Len(pv)
    BY <1>3, <2>1 DEF At
  <2>2. CASE h \notin 1 .. Len(pv)
    <3>1. h # p /\ h \notin 1 .. Len(pixelsVector)
      BY <1>3, <1>7, <2>2
    <3> QED
      BY <2>2, <3>1 DEF At
  <2> QED
    BY <2>1, <2>2
<1>10. InRows(u, pv, rows, outf, outfAve)
  <2> HIDE DEF u, p
  <2> SUFFICES ASSUME NEW h \in F!HDUs, NEW x, NEW row, NEW filled, NEW left, NEW d, NEW a,
                      PixelsAt(u, h, x) /\ row = rows[h].row /\ filled = rows[h].filled /\ left = At(pv, h)
                        /\ d = outf.data[h] /\ a = outfAve.data[h]
               PROVE  Rowed(x, row, filled, left, d, a)
    BY DEF InRows
  <2>1. PICK y : /\ PixelsAt(w, h, y)
                 /\ x = IF h = p THEN Append(y, -v.samp) ELSE y
    <3>1. PICK n, g : n = job.nch /\ g = u
      OBVIOUS
    <3>2. /\ n \in Nat /\ w \in Seq(Words(n)) /\ v \in Words(n) /\ g = Append(w, v)
          /\ Ids(w) \in SUBSET Nat /\ IsFiniteSet(Ids(w)) /\ v.chID \in Nat
      BY <1>1, <1>2, <1>5, <3>1 DEF u
    <3>3. \A c \in Nat \ Ids(w) : Pixels(w, c) = << >>
      BY <1>1
    <3>4. (\A c \in Ids(w) : Place(Ids(g), c) = Place(Ids(w), c)) /\ PixelsAt(g, h, x)
      BY <1>3, <3>1
    <3>5. FromBefore(w, g, v, h, x)
      <4> HIDE DEF u, p, D
      <4> QED
        BY <3>2, <3>3, <3>4, PixelsAtAppend
    <3> QED
      BY <3>1, <3>5 DEF FromBefore, p
  <2>2. PICK l : l = At(pixelsVector, h)
    OBVIOUS
  <2>3. Rowed(y, row, filled, l, d, a)
    BY <1>1, <2>1, <2>2 DEF InRows
  <2>4. left = IF h = p THEN Append(l, -v.samp) ELSE l
    BY <1>8, <2>2
  <2> HIDE DEF p
  <2>5. CASE h = p
    <3>1. Rowed(Append(y, -v.samp), row, filled, Append(l, -v.samp), d, a)
      BY <1>2, <2>3, RowedGrows
    <3> QED
      BY <2>1, <2>4, <2>5, <3>1
  <2>6. CASE h # p
    BY <2>1, <2>3, <2>4, <2>6
  <2> QED
    BY <2>5, <2>6
<1> QED
  BY <1>1, <1>3, <1>4, <1>6, <1>10 DEF SmartDone

(* Nothing is cut off: there are no more rows than the image has.          *)
LEMMA RowsFit ==
  ASSUME NEW N \in Nat, NEW k \in Nat, k <= N, NEW W \in Nat
  PROVE  k * W <= W * N
<1>1. PICK j \in Nat : N = k + j
  <2>1. N - k \in Nat /\ N = k + (N - k)
    OBVIOUS
  <2> QED
    BY <2>1
<1>2. W * N = k * W + j * W
  BY <1>1
<1>3. j * W \in Nat /\ k * W \in Nat
  OBVIOUS
<1> DEFINE u == j * W
           v == k * W
<1> HIDE DEF u, v
<1>4. u \in Nat /\ v \in Nat => v <= v + u
  OBVIOUS
<1> QED
  BY <1>2, <1>3, <1>4 DEF u, v

(* An HDU after its channel's vector has been used up.                     *)
LEMMA VectorUsed ==
  ASSUME Recipe, NoRowEmpty, NEW w, NEW pv, NEW ci, SmartDone(w, pv, ci, rows, outf, outfAve),
         NEW h \in 1 .. Len(pv), h \in F!HDUs
  PROVE  \E s : /\ s = FillRows(h, pv[h]) /\ s \in RowStates
                /\ \A x : PixelsAt(w, h, x) =>
                     Rowed(x, s.row, s.filled, << >>, outf.data[h] \o s.all, outfAve.data[h] \o s.ave)
                /\ outf.pixelCounts[h] + Len(s.all) <= outf.pixExpected
                /\ outfAve.pixelCounts[h] + Len(s.ave) <= outfAve.pixExpected
<1> DEFINE V == Int \X Int
           N == Len(job.nSamps)
<1>1. /\ Ordered(job.nch, w, pv, ci) /\ InRows(w, pv, rows, outf, outfAve)
      /\ RowsTyped(rows) /\ outf \in Images(Int) /\ outfAve \in Images(V) /\ Counted(outf) /\ Counted(outfAve)
      /\ outf.pixExpected = nColsAllMax * N /\ outfAve.pixExpected = job.nColsAve * N
  BY DEF SmartDone, SmartSizes
<1>2. PICK x : PixelsAt(w, h, x)
  <2>1. Ids(w) \in SUBSET Nat /\ IsFiniteSet(Ids(w))
    BY <1>1 DEF Ordered
  <2> QED
    BY <2>1, SomeAtPlace
<1>3. PICK d, a, p : d = outf.data[h] /\ a = outfAve.data[h] /\ p = pv[h]
  OBVIOUS
<1>4. d \in Seq(Int) /\ a \in Seq(V) /\ p \in Seq(Int) /\ At(pv, h) = p
  BY <1>1, <1>3, ElementOfSeq DEF Images, Ordered, At
<1>5. ASSUME NEW y, PixelsAt(w, h, y)
      PROVE  \E s : /\ s = FillRows(h, p) /\ s \in RowStates
                    /\ Rowed(y, s.row, s.filled, << >>, d \o s.all, a \o s.ave)
  <2>1. Rowed(y, rows[h].row, rows[h].filled, p, d, a)
    BY <1>1, <1>3, <1>4, <1>5 DEF InRows
  <2>2. a \in Seq(Int \X Int)
    BY <1>4
  <2> QED
    <3>1. FilledUp(y, h, p, d, a)
      BY <1>1, <1>4, <2>1, <2>2, RowsFilledUp
    <3> QED
      BY <3>1 DEF FilledUp
<1>6. PICK s : s = FillRows(h, p)
  OBVIOUS
<1>7. s \in RowStates /\ \A y : PixelsAt(w, h, y) => Rowed(y, s.row, s.filled, << >>, d \o s.all, a \o s.ave)
  BY <1>2, <1>5, <1>6
<1>8. RowsDone(x, s.row - 1, d \o s.all, a \o s.ave) /\ s.row \in 1 .. N + 1
  BY <1>2, <1>7 DEF Rowed
<1>9. PICK k : k = s.row - 1
  OBVIOUS
<1>10. k \in Nat /\ k <= N /\ N \in Nat /\ nColsAllMax \in Nat /\ job.nColsAve \in Nat
  <2>1. N \in Nat /\ nColsAllMax \in Nat /\ job.nColsAve \in Nat
    BY WidthOfRow DEF Recipe
  <2> HIDE DEF N
  <2> QED
    BY <1>8, <1>9, <2>1
<1>11. k * nColsAllMax <= outf.pixExpected /\ k * job.nColsAve <= outfAve.pixExpected
  BY <1>1, <1>10, RowsFit
<1>12. Len(d \o s.all) = k * nColsAllMax /\ Len(a \o s.ave) = k * job.nColsAve
  BY <1>8, <1>9 DEF RowsDone
<1>13. Len(d \o s.all) = Len(d) + Len(s.all)
  <2> DEFINE I == Int
  <2>1. d \in Seq(I) /\ s.all \in Seq(I)
    BY <1>4, <1>7 DEF RowStates
  <2> HIDE DEF I
  <2> QED
    BY <2>1, ConcatProperties
<1>14. Len(a \o s.ave) = Len(a) + Len(s.ave)
  <2>1. a \in Seq(V) /\ s.ave \in Seq(V)
    BY <1>4, <1>7 DEF RowStates
  <2> HIDE DEF V
  <2> QED
    BY <2>1, ConcatProperties
<1>15. outf.pixelCounts[h] = Len(d) /\ outfAve.pixelCounts[h] = Len(a)
  BY <1>1, <1>3 DEF Counted
<1>16. /\ outf.pixelCounts[h] + Len(s.all) <= outf.pixExpected
       /\ outfAve.pixelCounts[h] + Len(s.ave) <= outfAve.pixExpected
  BY <1>11, <1>12, <1>13, <1>14, <1>15
<1> QED
  BY <1>3, <1>6, <1>7, <1>16

(* The vectors are written, each to its HDU, or there are too many.        *)
LEMMA SmartComputed ==
  ASSUME Recipe, NoRowEmpty, NEW w, NEW pv, NEW ci, SmartDone(w, pv, ci, rows, outf, outfAve),
         NEW next, compute_pixel_value_smart(pv, next)
  PROVE  /\ SmartDone(w, pixelsVector', ci, rows', outf', outfAve')
         /\ phase' # "undefined" =>
              /\ Len(pixelsVector') <= NumChannels
              /\ \A h \in 1 .. Len(pixelsVector') : pixelsVector'[h] = << >>
<1> DEFINE D == DOMAIN pv
           done == [h \in D |-> FillRows(h, pv[h])]
           hdu == [h \in D |-> h]
           all == [h \in D |-> done[h].all]
           ave == [h \in D |-> done[h].ave]
           none == [h \in D |-> << >>]
           rs == [h \in F!HDUs |-> IF h \in D
                                   THEN [row |-> done[h].row, filled |-> done[h].filled]
                                   ELSE rows[h]]
           V == Int \X Int
<1>1. IF Len(pv) <= NumChannels
      THEN /\ outf' = dump_channels(outf, hdu, all)
           /\ outfAve' = dump_channels(outfAve, hdu, ave)
           /\ rows' = rs
           /\ pixelsVector' = none
           /\ phase' = next
      ELSE phase' = "undefined" /\ pixelsVector' = pv /\ UNCHANGED <<outf, outfAve, rows>>
  BY Zenon DEF compute_pixel_value_smart
<1>2. CASE ~(Len(pv) <= NumChannels)
  BY <1>1, <1>2
<1>3. CASE Len(pv) <= NumChannels
  <2> DEFINE n == Len(pv)
  <2>0. /\ Ordered(job.nch, w, pv, ci) /\ InRows(w, pv, rows, outf, outfAve)
        /\ RowsTyped(rows) /\ outf \in Images(Int) /\ outfAve \in Images(V) /\ Counted(outf) /\ Counted(outfAve)
        /\ outf.pixExpected = nColsAllMax * Len(job.nSamps)
        /\ outfAve.pixExpected = job.nColsAve * Len(job.nSamps)
        /\ pv \in Seq(Seq(Int))
    BY DEF SmartDone, SmartSizes, Ordered
  <2>1. n \in Nat /\ D = 1 .. n
    BY <2>0, Indices
  <2>2. \A h \in 1 .. n : h \in F!HDUs
    BY <1>3, <2>1, ReaderAssumption DEF F!HDUs
  <2>3. ASSUME NEW h \in 1 .. n
        PROVE  /\ done[h] \in RowStates
               /\ \A x : PixelsAt(w, h, x) =>
                     Rowed(x, done[h].row, done[h].filled, << >>,
                           outf.data[h] \o done[h].all, outfAve.data[h] \o done[h].ave)
               /\ outf.pixelCounts[h] + Len(done[h].all) <= outf.pixExpected
               /\ outfAve.pixelCounts[h] + Len(done[h].ave) <= outfAve.pixExpected
    <3>1. done[h] = FillRows(h, pv[h])
      BY <2>1
    <3>2. h \in F!HDUs
      BY <2>2
    <3> HIDE DEF done
    <3> QED
      BY <3>1, <3>2, VectorUsed
  <2> HIDE DEF done
  <2>4. \A h \in 1 .. n :
          /\ done[h].row \in Nat \ {0} /\ done[h].filled \in Seq(Int)
          /\ done[h].all \in Seq(Int) /\ done[h].ave \in Seq(V)
          /\ done[h].row <= Len(job.nSamps) + 1
          /\ done[h].row <= Len(job.nSamps) => Len(done[h].filled) <= nCols(done[h].row)
    BY <2>3 DEF RowStates
  <2>5. all \in [1 .. n -> Seq(Int)] /\ ave \in [1 .. n -> Seq(V)] /\ hdu = [h \in 1 .. n |-> h]
    BY <2>1, <2>4
  <2>6. /\ \A h \in 1 .. n : outf.pixelCounts[h] + Len(all[h]) <= outf.pixExpected
        /\ \A h \in 1 .. n : outfAve.pixelCounts[h] + Len(ave[h]) <= outfAve.pixExpected
    BY <2>1, <2>3
  <2>7. RowsTyped(rs)
    BY <2>0, <2>1, <2>4 DEF RowsTyped
  <2>8. none \in Seq(Seq(Int)) /\ Len(none) = n /\ \A h \in 1 .. n : none[h] = << >>
    <3>1. << >> \in Seq(Int)
      BY EmptySeq
    <3> QED
      BY <2>1, <3>1
  <2>9. \A h \in F!HDUs : At(none, h) = << >> /\ (h \notin 1 .. n => At(pv, h) = << >>)
    BY <2>8 DEF At
  <2>10. /\ \A h \in 1 .. n : all[h] = done[h].all /\ ave[h] = done[h].ave
         /\ \A h \in 1 .. n : rs[h].row = done[h].row /\ rs[h].filled = done[h].filled
         /\ \A h \in F!HDUs : h \notin 1 .. n => rs[h] = rows[h]
    BY <2>1, <2>2
  <2> HIDE DEF all, ave, hdu, none, rs, D, n, V
  <2>11. PICK o : /\ o = dump_channels(outf, [h \in 1 .. n |-> h], all)
                  /\ o \in Images(Int) /\ Counted(o) /\ o.pixExpected = outf.pixExpected
                  /\ \A h \in F!HDUs : o.data[h] = IF h \in 1 .. n THEN outf.data[h] \o all[h] ELSE outf.data[h]
    <3>1. n <= NumChannels /\ n \in Nat /\ outf \in Images(Int) /\ Counted(outf)
      BY <1>3, <2>0, <2>1 DEF n
    <3>2. InPlace(Int, outf, n, all)
      BY <2>5, <2>6, <3>1, DumpedInPlace
    <3> QED
      BY <3>2 DEF InPlace
  <2>12. PICK oa : /\ oa = dump_channels(outfAve, [h \in 1 .. n |-> h], ave)
                   /\ oa \in Images(V) /\ Counted(oa) /\ oa.pixExpected = outfAve.pixExpected
                   /\ \A h \in F!HDUs : oa.data[h] = IF h \in 1 .. n THEN outfAve.data[h] \o ave[h] ELSE outfAve.data[h]
    <3>1. n <= NumChannels /\ n \in Nat /\ outfAve \in Images(V) /\ Counted(outfAve)
      BY <1>3, <2>0, <2>1 DEF n
    <3>2. InPlace(V, outfAve, n, ave)
      BY <2>5, <2>6, <3>1, DumpedInPlace
    <3> QED
      BY <3>2 DEF InPlace
  <2>13. outf' = o /\ outfAve' = oa /\ rows' = rs /\ pixelsVector' = none
    BY <1>1, <1>3, <2>5, <2>11, <2>12
  <2>14. InRows(w, none, rs, o, oa)
    <3> SUFFICES ASSUME NEW h \in F!HDUs, NEW x, NEW row, NEW filled, NEW left, NEW d, NEW a,
                        PixelsAt(w, h, x), row = rs[h].row, filled = rs[h].filled, left = At(none, h),
                        d = o.data[h], a = oa.data[h]
                 PROVE  Rowed(x, row, filled, left, d, a)
      BY SMTT(30) DEF InRows
    <3>1. CASE h \in 1 .. n
      <4>1. /\ row = done[h].row /\ filled = done[h].filled /\ left = << >>
            /\ d = outf.data[h] \o done[h].all /\ a = outfAve.data[h] \o done[h].ave
        <5>1. rs[h].row = done[h].row /\ rs[h].filled = done[h].filled
          BY <2>10, <3>1
        <5>2. d = outf.data[h] \o all[h] /\ a = outfAve.data[h] \o ave[h]
          BY <2>11, <2>12, <3>1
        <5>3. all[h] = done[h].all /\ ave[h] = done[h].ave
          BY <2>10, <3>1
        <5> QED
          BY <2>9, <5>1, <5>2, <5>3
      <4> QED
        BY <2>3, <3>1, <4>1, SMTT(30)
    <3>2. CASE h \notin 1 .. n
      <4>1. /\ row = rows[h].row /\ filled = rows[h].filled /\ left = At(pv, h)
            /\ d = outf.data[h] /\ a = outfAve.data[h]
        BY <2>9, <2>10, <2>11, <2>12, <3>2
      <4> QED
        BY <2>0, <4>1 DEF InRows
    <3> QED
      BY <3>1, <3>2
  <2>15. SmartSizes(rs, o, oa)
    BY <2>0, <2>7, <2>11, <2>12 DEF SmartSizes, V
  <2>16. Ordered(job.nch, w, none, ci)
    BY <2>0, <2>8, OrderedAnew DEF n
  <2>17. SmartDone(w, none, ci, rs, o, oa)
    BY <2>14, <2>15, <2>16 DEF SmartDone
  <2> QED
    BY <1>3, <2>8, <2>13, <2>17 DEF n
<1> QED
  BY <1>2, <1>3

LEMMA SmartInit == ASSUME Init PROVE SmartInv
<1> SUFFICES ASSUME job.mode = "smart", NoRowEmpty PROVE SmartInv
  BY DEF SmartInv
<1>1. JobInv /\ ReaderInv /\ rd = NewReader /\ job.nch \in Nat /\ TypesInv /\ Recipe
  BY InitInv, TypesInit, SmartRecipe DEF Init, Inv, JobInv
<1>2. HandedOut(<< >>)
  BY <1>1, PassedFresh
<1>3. /\ pixelsVector = << >> /\ channelIndex = << >> /\ phase = "read"
      /\ outf = F!create_img(nColsAllMax, Len(job.nSamps))
      /\ outfAve = F!create_img(job.nColsAve, Len(job.nSamps))
      /\ rows = [h \in F!HDUs |-> [row |-> 1, filled |-> << >>]]
  BY DEF Init, NewImage, NoRows
<1>4. PICK e : e = << >>
  OBVIOUS
<1>5. e \in Seq(Words(job.nch)) /\ Ordered(job.nch, e, e, e) /\ Ids(e) = {} /\ Cardinality({}) = 0
  BY <1>1, <1>4, OrderedFirst, FS_EmptySet DEF Ids
<1>6. \A c : Pixels(e, c) = << >>
  BY <1>4, NoPixels
<1>7. SmartSizes(rows, outf, outfAve)
  <2>1. nColsAllMax \in Nat /\ Len(job.nSamps) \in Nat /\ job.nColsAve \in Nat
    BY <1>1, WidthOfRow DEF Recipe
  <2>2. nColsAllMax * Len(job.nSamps) \in Nat /\ job.nColsAve * Len(job.nSamps) \in Nat
    BY <2>1
  <2>3. << >> \in Seq(Int) /\ << >> \in Seq(Int \X Int) /\ Len(<< >>) = 0
    BY EmptySeq
  <2>4. RowsTyped(rows)
    BY <1>1 DEF TypesInv
  <2>5. /\ outf.pixExpected = nColsAllMax * Len(job.nSamps) /\ outf \in Images(Int) /\ Counted(outf)
    BY <1>3, <2>2, <2>3 DEF F!create_img, Images, Counted
  <2>6. /\ outfAve.pixExpected = job.nColsAve * Len(job.nSamps) /\ outfAve \in Images(Int \X Int) /\ Counted(outfAve)
    BY <1>3, <2>2, <2>3 DEF F!create_img, Images, Counted
  <2> QED
    BY <2>4, <2>5, <2>6 DEF SmartSizes
<1>8. InRows(e, e, rows, outf, outfAve)
  <2> SUFFICES ASSUME NEW h \in F!HDUs, NEW x, NEW row, NEW filled, NEW left, NEW d, NEW a,
                      PixelsAt(e, h, x), row = rows[h].row, filled = rows[h].filled, left = At(e, h),
                      d = outf.data[h], a = outfAve.data[h]
               PROVE  Rowed(x, row, filled, left, d, a)
    BY DEF InRows
  <2>1. x = << >>
    BY <1>5 DEF PixelsAt
  <2>2. row = 1 /\ filled = << >> /\ d = << >> /\ a = << >>
    BY <1>3 DEF F!create_img
  <2>3. left = << >>
    BY <1>4, EmptySeq DEF At
  <2>4. Rowed(<< >>, 1, << >>, << >>, << >>, << >>)
    BY <1>1, RowedFirst
  <2> QED
    BY <2>1, <2>2, <2>3, <2>4
<1>9. SmartDone(e, e, e, rows, outf, outfAve)
  BY <1>5, <1>6, <1>7, <1>8 DEF SmartDone
<1> QED
  BY <1>2, <1>3, <1>4, <1>9 DEF SmartInv

LEMMA SmartStep == ASSUME Inv, ImageInv, SmartInv, [Next]_vars PROVE SmartInv'
<1> SUFFICES ASSUME job'.mode = "smart", NoRowEmpty' PROVE SmartInv'
  BY DEF SmartInv
<1>1. ASSUME UNCHANGED vars \/ ~readOldDatFiles
      PROVE  UNCHANGED job
  BY <1>1 DEF Next, vars, Read, FitsWord, FitsEnd, FitsLeft, SaveCounts, DeleteDats, CompressFits, MisplaceWord,
              InterleavingWord, InterleavingEnd, SmartWord, SmartEnd, RawWord, RawEnd, CalibrateWord,
              CalibrateEnd, PlaceWord, Kill
<1>2. ~readOldDatFiles
  BY DEF readOldDatFiles, Inv, JobInv
<1>3. /\ UNCHANGED job /\ job.mode = "smart" /\ NoRowEmpty /\ Recipe /\ job.nch \in Nat
      /\ ReaderInv /\ ReaderPlace
  BY <1>1, <1>2, SameRows, SmartRecipe DEF Inv, JobInv, ImageInv
<1>4. PICK w : /\ phase # "undefined" => HandedOut(w)
               /\ SmartDone(w, pixelsVector, channelIndex, rows, outf, outfAve)
  BY <1>3 DEF SmartInv
<1>5. phase \notin {"save_counts", "delete"}
  BY <1>3 DEF SmartInv
<1>6. ASSUME UNCHANGED imageVars, phase' # "undefined" => phase # "undefined" /\ (HandedOut(w) => HandedOut(w)'),
             phase' \in {"compress", "done"} => phase \in {"compress", "done"} /\ rd'.end = rd.end,
             phase' \notin {"save_counts", "delete"}
      PROVE  SmartInv'
  <2>1. UNCHANGED <<pixelsVector, channelIndex, rows, outf, outfAve>>
    BY <1>6 DEF imageVars
  <2>2. SmartDone(w, pixelsVector', channelIndex', rows', outf', outfAve')
    BY <1>4, <2>1
  <2>3. SmartDone(w, pixelsVector, channelIndex, rows, outf, outfAve)'
    BY <1>3, <2>2, SmartDoneThen
  <2>4. phase' # "undefined" => HandedOut(w)'
    BY <1>4, <1>6
  <2>5. phase' \in {"compress", "done"} =>
          /\ rd'.end /\ Len(pixelsVector') <= NumChannels
          /\ \A h \in 1 .. Len(pixelsVector') : pixelsVector'[h] = << >>
    BY <1>3, <1>6, <2>1 DEF SmartInv
  <2> QED
    BY <1>6, <2>3, <2>4, <2>5 DEF SmartInv
<1>7. CASE Read
  <2>1. UNCHANGED <<job, phase, imageVars, diskVars>> /\ phase = "read" /\ \A u : HandedOut(u) => HandedOut(u)'
    BY <1>3, <1>7, PassedNextFile, PassedReadPacket DEF Read
  <2> QED
    BY <1>6, <2>1
<1>8. CASE SmartWord
  <2> DEFINE pv == VectorWith(NextWord, -NextWord.samp)
  <2>1. /\ PlaceWord("smart", -NextWord.samp)
        /\ \/ compute_pixel_value_smart(pv, "read")
           \/ pixelsVector' = pv /\ UNCHANGED <<outf, outfAve, rows, phase>>
    BY <1>8, Zenon DEF SmartWord
  <2>2. HasWord /\ PopWord /\ phase = "read" /\ ~OutsideVector(NextWord) /\ channelIndex' = PlacesWith(NextWord)
    BY <2>1 DEF PlaceWord, InLoop
  <2>3. NextWord \in Words(job.nch) /\ \A u, v : HandedOut(u) /\ v = NextWord => HandedOut(Append(u, v))'
    BY <1>3, <2>2, PassedPopWord
  <2>4. PICK v : v = NextWord
    OBVIOUS
  <2>5. PICK u, q : u = Append(w, v) /\ q = pv
    OBVIOUS
  <2>6. HandedOut(u)'
    BY <1>4, <2>2, <2>3, <2>4, <2>5
  <2>7. SmartDone(u, q, channelIndex', rows, outf, outfAve)
    <3>1. v \in Words(job.nch) /\ ~OutsideVector(v) /\ q = VectorWith(v, -v.samp) /\ channelIndex' = PlacesWith(v)
      BY <2>2, <2>3, <2>4, <2>5
    <3>2. SmartDone(Append(w, v), q, PlacesWith(v), rows, outf, outfAve)
      BY <1>3, <1>4, <3>1, SmartWordDone
    <3> QED
      BY <2>5, <3>1, <3>2
  <2>8. \/ compute_pixel_value_smart(q, "read")
        \/ pixelsVector' = q /\ UNCHANGED <<outf, outfAve, rows, phase>>
    BY <2>1, <2>5
  <2>9. SmartDone(u, pixelsVector', channelIndex', rows', outf', outfAve') /\ phase' \in {"read", "undefined"}
    <3>1. CASE compute_pixel_value_smart(q, "read")
      <4>1. phase' \in {"read", "undefined"}
        BY <3>1 DEF compute_pixel_value_smart
      <4>2. PICK ci : ci = channelIndex'
        OBVIOUS
      <4>3. SmartDone(u, pixelsVector', ci, rows', outf', outfAve')
        BY <1>3, <2>7, <3>1, <4>2, SmartComputed
      <4> QED
        BY <4>1, <4>2, <4>3
    <3>2. CASE pixelsVector' = q /\ UNCHANGED <<outf, outfAve, rows, phase>>
      BY <2>2, <2>7, <3>2
    <3> QED
      BY <2>8, <3>1, <3>2
  <2>10. SmartDone(u, pixelsVector, channelIndex, rows, outf, outfAve)'
    BY <1>3, <2>9, SmartDoneThen
  <2> QED
    BY <2>6, <2>9, <2>10 DEF SmartInv
<1>9. CASE SmartEnd
  <2>1. /\ phase = "read" /\ UNCHANGED <<readerVars, job>> /\ rd.end /\ UNCHANGED channelIndex
        /\ compute_pixel_value_smart(pixelsVector, "compress")
    BY <1>9 DEF SmartEnd, AtEnd
  <2>2. HandedOut(w)'
    BY <1>4, <2>1, StillHandedOut
  <2>3. PICK q, ci : q = pixelsVector /\ ci = channelIndex
    OBVIOUS
  <2>4. SmartDone(w, q, ci, rows, outf, outfAve) /\ compute_pixel_value_smart(q, "compress")
    BY <1>4, <2>1, <2>3
  <2>5. /\ SmartDone(w, pixelsVector', ci, rows', outf', outfAve')
        /\ phase' # "undefined" =>
             /\ Len(pixelsVector') <= NumChannels
             /\ \A h \in 1 .. Len(pixelsVector') : pixelsVector'[h] = << >>
    BY <1>3, <2>4, SmartComputed
  <2>6. phase' \in {"compress", "undefined"}
    BY <2>1 DEF compute_pixel_value_smart
  <2>7. SmartDone(w, pixelsVector, channelIndex, rows, outf, outfAve)'
    <3>1. SmartDone(w, pixelsVector', channelIndex', rows', outf', outfAve')
      BY <2>1, <2>3, <2>5
    <3> QED
      BY <1>3, <3>1, SmartDoneThen
  <2>8. rd'.end
    BY <2>1 DEF readerVars
  <2> QED
    BY <2>2, <2>5, <2>6, <2>7, <2>8 DEF SmartInv
<1>10. CASE MisplaceWord
  <2>1. UNCHANGED imageVars /\ phase' = "undefined"
    BY <1>10 DEF MisplaceWord
  <2> QED
    BY <1>6, <2>1
<1>11. CASE CompressFits \/ Kill \/ UNCHANGED vars
  <2>1. UNCHANGED <<readerVars, job, imageVars>>
    BY <1>11 DEF CompressFits, Kill, vars
  <2>2. HandedOut(w) => HandedOut(w)'
    BY <2>1, StillHandedOut
  <2>3. /\ phase' # "undefined" => phase # "undefined"
        /\ phase' \in {"compress", "done"} => phase \in {"compress", "done"}
        /\ phase' \notin {"save_counts", "delete"}
    BY <1>5, <1>11 DEF CompressFits, Kill, Running, vars
  <2>4. rd'.end = rd.end
    BY <2>1 DEF readerVars
  <2> QED
    BY <1>6, <2>1, <2>2, <2>3, <2>4
<1>12. ~(FitsWord \/ FitsEnd \/ SaveCounts \/ DeleteDats \/ InterleavingWord \/ InterleavingEnd
         \/ RawWord \/ RawEnd \/ CalibrateWord \/ CalibrateEnd)
  BY <1>3, <1>5 DEF FitsWord, FitsEnd, SaveCounts, DeleteDats, InterleavingWord, InterleavingEnd, RawWord,
                    RawEnd, CalibrateWord, CalibrateEnd, InLoop, AtEnd, PlaceWord
<1> QED
  BY <1>2, <1>7, <1>8, <1>9, <1>10, <1>11, <1>12 DEF Next

-----------------------------------------------------------------------------
(* At the end, the rows that are written are the complete ones.            *)

LEMMA CompleteRows ==
  ASSUME Recipe, NoRowEmpty, NEW x, NEW row, NEW filled, NEW d, NEW a,
         Rowed(x, row, filled, << >>, d, a)
  PROVE  Cardinality({r \in DOMAIN job.nSamps : Before(r - 1) + nCols(r) <= Len(x)}) = row - 1
<1> DEFINE N == Len(job.nSamps)
           n == Len(x)
           f == Len(filled)
           C == {r \in DOMAIN job.nSamps : Before(r - 1) + nCols(r) <= n}
<1>1. N \in Nat /\ DOMAIN job.nSamps = 1 .. N /\ row \in 1 .. N + 1 /\ n \in Nat /\ f \in Nat
  BY WidthOfRow, LenProperties DEF Rowed
<1>2. /\ Before(row - 1) <= n
      /\ row <= N => f < nCols(row) /\ n = (Before(row - 1) + f) + 0
  <2>1. Len(<< >>) = 0
    BY EmptySeq
  <2> QED
    BY <2>1 DEF Rowed
<1> HIDE DEF N, n, f
<1>3. /\ \A q \in 0 .. N : Before(q) \in Nat
      /\ \A q \in 1 .. N : Before(q) = Before(q - 1) + nCols(q)
      /\ \A q, r \in 0 .. N : q <= r => Before(q) <= Before(r)
  BY PixelsBefore DEF N
<1>4. \A r \in 1 .. N : r \in C <=> Before(r) <= n
  BY <1>1, <1>3
<1>5. ASSUME NEW r \in 1 .. N, r <= row - 1 PROVE r \in C
  <2>1. r \in 0 .. N /\ row - 1 \in 0 .. N
    BY <1>1
  <2>2. Before(r) <= Before(row - 1) /\ Before(r) \in Nat /\ Before(row - 1) \in Nat
    BY <1>3, <1>5, <2>1
  <2>3. Before(r) <= n
    BY <1>1, <1>2, <2>2
  <2> QED
    BY <1>4, <2>3
<1>6. ASSUME NEW r \in 1 .. N, ~(r <= row - 1) PROVE r \notin C
  <2>1. /\ r \in 0 .. N /\ row \in 0 .. N /\ row \in 1 .. N /\ row <= N /\ row <= r /\ row - 1 \in 0 .. N
    BY <1>1, <1>6
  <2>2. /\ Before(row) <= Before(r) /\ Before(r) \in Nat /\ Before(row) \in Nat
        /\ Before(row) = Before(row - 1) + nCols(row) /\ Before(row - 1) \in Nat
    BY <1>3, <2>1
  <2>3. nCols(row) \in Nat
    BY <2>1, WidthOfRow DEF N
  <2>4. ~(Before(r) <= n)
    BY <1>1, <1>2, <2>1, <2>2, <2>3, SMTT(30)
  <2> QED
    BY <1>4, <2>4
<1>7. C = 1 .. row - 1
  <2>1. C \subseteq 1 .. N
    BY <1>1
  <2>2. \A r : r \in 1 .. row - 1 <=> r \in 1 .. N /\ r <= row - 1
    BY <1>1
  <2> HIDE DEF C
  <2> QED
    BY <1>5, <1>6, <2>1, <2>2
<1>8. Cardinality(1 .. row - 1) = row - 1
  <2> DEFINE b == row - 1
  <2>1. b \in Int /\ 1 \in Int /\ b - 1 + 1 = b /\ (1 > b => b = 0)
    BY <1>1
  <2> HIDE DEF b
  <2>2. Cardinality(1 .. b) = IF 1 > b THEN 0 ELSE b - 1 + 1
    BY <2>1, FS_Interval
  <2>3. Cardinality(1 .. b) = b
    BY <2>1, <2>2
  <2> QED
    BY <2>3 DEF b
<1> QED
  BY <1>7, <1>8 DEF n

(* What SmartRows says of the pixels x of one channel. *)
RowsAre(x, d, a) ==
  LET before(r) == Total([q \in 1 .. r - 1 |-> nCols(q)])
      complete == Cardinality({r \in DOMAIN job.nSamps : before(r) + nCols(r) <= Len(x)})
      row(r) == SubSeq(x, before(r) + 1, before(r) + nCols(r))
  IN /\ d = FlattenSeq([r \in 1 .. complete |-> Padded(row(r))])
     /\ \A r \in 1 .. complete : \A i \in DOMAIN job.nSamps[r] :
          LET b == before(r) + Total(SubSeq(job.nSamps[r], 1, i - 1))
          IN a[(r - 1) * job.nColsAve + i] =
               <<Total(SubSeq(x, b + 1, b + job.nSamps[r][i])), job.nSamps[r][i]>>

LEMMA RowsAreThere ==
  ASSUME Recipe, NoRowEmpty, NEW x, NEW row, NEW filled, NEW d, NEW a,
         Rowed(x, row, filled, << >>, d, a)
  PROVE  RowsAre(x, d, a)
<1> DEFINE N == Len(job.nSamps)
           k == row - 1
           before(r) == Total([q \in 1 .. r - 1 |-> nCols(q)])
           complete == Cardinality({r \in DOMAIN job.nSamps : before(r) + nCols(r) <= Len(x)})
           part(r) == SubSeq(x, before(r) + 1, before(r) + nCols(r))
<1>1. N \in Nat /\ k \in 0 .. N /\ RowsDone(x, k, d, a)
  BY WidthOfRow, SMTT(30) DEF Rowed
<1>2. \A r : before(r) = Before(r - 1)
  BY DEF Before
<1>3. complete = k
  <2>1. {r \in DOMAIN job.nSamps : before(r) + nCols(r) <= Len(x)}
          = {r \in DOMAIN job.nSamps : Before(r - 1) + nCols(r) <= Len(x)}
    BY <1>2
  <2> QED
    BY <2>1, CompleteRows
<1> HIDE DEF before, complete, k, N
<1>4. \A r \in 1 .. k : r \in 1 .. N
  BY <1>1
<1>5. ASSUME NEW r \in 1 .. k PROVE part(r) = RowOf(x, r)
  <2>1. Before(r) = Before(r - 1) + nCols(r)
    BY <1>4, PixelsBefore DEF N
  <2> QED
    BY <1>2, <2>1 DEF RowOf
<1>6. d = FlattenSeq([r \in 1 .. complete |-> Padded(part(r))])
  <2>1. [r \in 1 .. k |-> Padded(part(r))] = [r \in 1 .. k |-> Padded(RowOf(x, r))]
    BY <1>5
  <2> QED
    BY <1>1, <1>3, <2>1 DEF RowsDone
<1>7. ASSUME NEW r \in 1 .. k, NEW i \in DOMAIN job.nSamps[r]
      PROVE  LET b == before(r) + Total(SubSeq(job.nSamps[r], 1, i - 1))
             IN a[(r - 1) * job.nColsAve + i] =
                  <<Total(SubSeq(x, b + 1, b + job.nSamps[r][i])), job.nSamps[r][i]>>
  <2>1. i \in 1 .. job.nColsAve
    <3>1. job.nSamps[r] \in Seq(Nat) /\ Len(job.nSamps[r]) = job.nColsAve
      BY <1>4, WidthOfRow DEF N
    <3> QED
      BY <3>1, LenProperties
  <2>2. a[(r - 1) * job.nColsAve + i] = Average(x, r, i)
    BY <1>1, <2>1 DEF RowsDone
  <2>3. before(r) = Before(r - 1)
    BY <1>2
  <2> QED
    BY <2>2, <2>3, Zenon DEF Average
<1>8. RowsAre(x, d, a) <=>
        /\ d = FlattenSeq([r \in 1 .. complete |-> Padded(part(r))])
        /\ \A r \in 1 .. complete : \A i \in DOMAIN job.nSamps[r] :
             LET b == before(r) + Total(SubSeq(job.nSamps[r], 1, i - 1))
             IN a[(r - 1) * job.nColsAve + i] =
                  <<Total(SubSeq(x, b + 1, b + job.nSamps[r][i])), job.nSamps[r][i]>>
  BY Zenon DEF RowsAre, before, complete
<1> QED
  BY <1>3, <1>6, <1>7, <1>8

(* The smart image has each complete row of the readout at its place,      *)
(* padded to the width of the image, and each pixel of the other image is  *)
(* the average of its own samples, however the words are split over the    *)
(* files, the chunks of the loop and the rows (bin_to_fits_smart and       *)
(* compute_pixel_value_smart).                                             *)
THEOREM RowsInPlace == Spec => []SmartRows
<1>1. Inv /\ ImageInv /\ [Next]_vars => ImageInv'
  BY ImageStep
<1>2. Inv /\ ImageInv /\ SmartInv /\ [Next]_vars => SmartInv'
  BY SmartStep
<1>3. Inv /\ ImageInv /\ SmartInv => SmartRows
  <2> SUFFICES ASSUME Inv, ImageInv, SmartInv, job.mode = "smart", phase \in {"compress", "done"},
                      NoRowEmpty, NEW c \in Seen
               PROVE  LET h == Cardinality({e \in Seen : e <= c})
                      IN RowsAre(Negated(Samples(c)), outf.data[h], outfAve.data[h])
    BY Zenon DEF SmartRows, RowsAre, NoRowEmpty
  <2>1. /\ Recipe /\ job.nch \in Nat
        /\ rd.end /\ rd.buffer = << >>
        /\ Len(pixelsVector) <= NumChannels
        /\ \A h \in 1 .. Len(pixelsVector) : pixelsVector[h] = << >>
    BY SmartRecipe DEF SmartInv, Inv, JobInv, ImageInv, ReaderPlace
  <2>2. PICK w : HandedOut(w) /\ SmartDone(w, pixelsVector, channelIndex, rows, outf, outfAve)
    BY DEF SmartInv
  <2>3. w = Recorded /\ w \in Seq(Words(job.nch))
    BY <2>1, <2>2, ConcatEmptySeq DEF HandedOut, Passed
  <2>4. Ids(w) = Seen
    BY <2>3, LenProperties DEF Ids, Seen, ToSet
  <2>5. /\ Seen \in SUBSET Nat /\ IsFiniteSet(Seen) /\ Len(pixelsVector) = Cardinality(Seen)
        /\ pixelsVector \in Seq(Seq(Int))
    BY <2>2, <2>4 DEF SmartDone, Ordered
  <2>6. PICK h : h = Place(Seen, c)
    OBVIOUS
  <2>7. h \in 1 .. Len(pixelsVector) /\ h \in F!HDUs
    <3>1. Place(Seen, c) \in 1 .. Cardinality(Seen) /\ Cardinality(Seen) \in Nat
      BY <2>5, PlacesOfNumbers, FS_CardinalityType
    <3> QED
      BY <2>1, <2>5, <2>6, <3>1, ReaderAssumption DEF F!HDUs
  <2>8. At(pixelsVector, h) = << >>
    BY <2>1, <2>7 DEF At
  <2>9. PICK x : x = Pixels(w, c)
    OBVIOUS
  <2>10. PixelsAt(w, h, x)
    BY <2>4, <2>6, <2>9 DEF PixelsAt
  <2>11. Rowed(x, rows[h].row, rows[h].filled, << >>, outf.data[h], outfAve.data[h])
    BY <2>2, <2>7, <2>8, <2>10 DEF SmartDone, InRows
  <2>12. RowsAre(x, outf.data[h], outfAve.data[h])
    BY <2>1, <2>11, RowsAreThere
  <2>13. x = Negated(Samples(c))
    BY <2>3, <2>9, Zenon DEF Pixels, Samples
  <2> QED
    BY <2>6, <2>12, <2>13, Zenon DEF Place
<1> QED
  BY <1>1, <1>2, <1>3, ImageInit, SmartInit, Invariance, PTL DEF Spec

-----------------------------------------------------------------------------
(* The words handed out are the first of those recorded.                   *)

LEMMA TakenFirst ==
  ASSUME NEW S, NEW s \in Seq(Seq(S)), NEW k \in 0 .. Len(s)
  PROVE  \E z \in Seq(S) : Taken(s, k) \o z = FlattenSeq(s)
<1> DEFINE n == Len(s)
           rest(j) == \E z \in Seq(S) : Taken(s, n - j) \o z = FlattenSeq(s)
           T == {j \in 0 .. n : ~rest(j)}
<1>1. n \in Nat
  BY LenProperties
<1>2. \A j \in 0 .. n : Taken(s, n - j) \in Seq(S)
  <2> SUFFICES ASSUME NEW j \in 0 .. n PROVE Taken(s, n - j) \in Seq(S)
    OBVIOUS
  <2>1. CASE j = 0
    <3>1. n - j = n
      BY <1>1, <2>1
    <3>2. s \in Seq(Seq(S)) /\ Taken(s, n) = FlattenSeq(s)
      BY TakeAll
    <3> QED
      BY <3>1, <3>2, FlattenType
  <2>2. CASE j # 0
    <3>1. n - j \in 0 .. Len(s) - 1
      BY <1>1, <2>2
    <3> QED
      BY <3>1, TakeMore
  <2> QED
    BY <2>1, <2>2
<1>3. T = {}
  <2>1. SUFFICES ASSUME T # {} PROVE FALSE
    OBVIOUS
  <2>2. PICK m \in T : \A j \in T : m <= j
    <3>1. T \in SUBSET Nat
      BY <1>1
    <3> HIDE DEF T
    <3> QED
      BY <2>1, <3>1, SmallestNumber
  <2>3. m \in 0 .. n /\ ~rest(m)
    OBVIOUS
  <2>4. m # 0
    <3>1. Taken(s, n) = FlattenSeq(s) /\ FlattenSeq(s) \in Seq(S) /\ n - 0 = n
      BY <1>1, TakeAll, FlattenType
    <3>2. << >> \in Seq(S) /\ FlattenSeq(s) \o << >> = FlattenSeq(s)
      BY <3>1, EmptySeq, ConcatEmptySeq
    <3>3. rest(0)
      BY <3>1, <3>2
    <3> QED
      BY <2>3, <3>3
  <2>5. m \in 1 .. n /\ m - 1 \in 0 .. n /\ ~(m <= m - 1) /\ n - m \in 0 .. n - 1 /\ (n - m) + 1 = n - (m - 1)
    BY <1>1, <2>3, <2>4
  <2>6. rest(m - 1)
    <3> HIDE DEF rest
    <3> QED
      BY <2>2, <2>5
  <2>7. PICK z \in Seq(S) : Taken(s, n - (m - 1)) \o z = FlattenSeq(s)
    BY <2>6
  <2>8. /\ Taken(s, n - m) \in Seq(S) /\ s[(n - m) + 1] \in Seq(S)
        /\ Taken(s, n - (m - 1)) = Taken(s, n - m) \o s[(n - m) + 1]
    BY <2>5, TakeMore
  <2> DEFINE x == s[(n - m) + 1]
             t == Taken(s, n - m)
  <2>9. x \in Seq(S) /\ t \in Seq(S) /\ Taken(s, n - (m - 1)) = t \o x
    BY <2>8
  <2>t. t = Taken(s, n - m)
    OBVIOUS
  <2> HIDE DEF x, t
  <2>10. x \o z \in Seq(S) /\ t \o (x \o z) = FlattenSeq(s)
    <3>1. x \o z \in Seq(S) /\ (t \o x) \o z = FlattenSeq(s)
      BY <2>7, <2>9, ConcatProperties
    <3>2. (t \o x) \o z = t \o (x \o z)
      BY <2>9, ThreeParts, SMTT(30)
    <3> QED
      BY <3>1, <3>2
  <2>11. rest(m)
    BY <2>10, <2>t
  <2> QED
    BY <2>3, <2>11
<1> QED
  <2>1. n - k \in 0 .. n /\ n - (n - k) = k
    BY <1>1
  <2>2. n - k \notin T
    BY <1>3
  <2>3. rest(n - k)
    BY <2>1, <2>2
  <2> QED
    BY <2>1, <2>3

LEMMA PassedFirst ==
  ASSUME ReaderInv, ReaderPlace
  PROVE  \E z \in Seq(Words(job.nch)) : Passed \o z = Recorded /\ Passed \in Seq(Words(job.nch))
<1> DEFINE W == Words(job.nch)
           N == Len(files)
<1>1. files \in Seq(Seq(Packets(job.nch))) /\ N \in Nat
  BY LenProperties DEF ReaderInv
<1>2. /\ FileWords \in Seq(Seq(W)) /\ Len(FileWords) = N
      /\ Recorded = FlattenSeq(FileWords)
      /\ \A f \in 1 .. N :
           /\ PacketWords(f) \in Seq(Seq(W)) /\ Len(PacketWords(f)) = Len(files[f])
           /\ FileWords[f] = FlattenSeq(PacketWords(f))
  BY <1>1, FilesOfWords
<1>w. W = Words(job.nch)
  OBVIOUS
<1> HIDE DEF W
<1>3. CASE rd.end
  <2>1. Passed = Recorded /\ Recorded \in Seq(W)
    BY <1>2, <1>3, FlattenType DEF Passed
  <2>2. << >> \in Seq(W) /\ Recorded \o << >> = Recorded
    BY <2>1, EmptySeq, ConcatEmptySeq
  <2> QED
    BY <1>w, <2>1, <2>2
<1>4. CASE ~rd.end
  <2> DEFINE i == rd.iFile
             p == rd.packet
             b == Taken(FileWords, i - 1)
             c == Taken(PacketWords(i), p - 1)
  <2>1. i \in 1 .. N /\ p \in Nat \ {0} /\ p <= Len(files[i]) + 1
    BY <1>4 DEF ReaderInv, ReaderPlace, Readers
  <2>2. files[i] \in Seq(Packets(job.nch)) /\ Len(files[i]) \in Nat
    BY <1>1, <2>1, ElementOfSeq, LenProperties
  <2>3. PacketWords(i) \in Seq(Seq(W)) /\ p - 1 \in 0 .. Len(PacketWords(i))
    BY <1>2, <2>1, <2>2, SMTT(30)
  <2>4. i - 1 \in 0 .. Len(FileWords) - 1 /\ (i - 1) + 1 = i /\ i \in 0 .. Len(FileWords)
    BY <1>1, <1>2, <2>1, SMTT(30)
  <2>5. /\ b \in Seq(W) /\ FileWords[i] \in Seq(W) /\ Taken(FileWords, i) = b \o FileWords[i]
    BY <1>2, <2>4, TakeMore
  <2>6. PICK y \in Seq(W) : Taken(FileWords, i) \o y = Recorded
    BY <1>2, <2>4, TakenFirst
  <2>7. PICK z \in Seq(W) : c \o z = FileWords[i]
    <3>1. FileWords[i] = FlattenSeq(PacketWords(i))
      BY <1>2, <2>1
    <3> HIDE DEF i, p
    <3>2. \E z \in Seq(W) : Taken(PacketWords(i), p - 1) \o z = FlattenSeq(PacketWords(i))
      BY <2>3, TakenFirst
    <3> QED
      BY <3>1, <3>2
  <2>8. c \in Seq(W)
    <3>1. CASE p - 1 = Len(PacketWords(i))
      BY <2>3, <3>1, TakeAll, FlattenType
    <3>2. CASE p - 1 # Len(PacketWords(i))
      <4>1. p - 1 \in 0 .. Len(PacketWords(i)) - 1
        BY <2>3, <3>2, LenProperties
      <4> QED
        BY <2>3, <4>1, TakeMore
    <3> QED
      BY <3>1, <3>2
  <2>9. Passed = b \o c
    BY <1>4 DEF Passed
  <2> HIDE DEF b, c
  <2>10. z \o y \in Seq(W) /\ b \o c \in Seq(W)
    BY <2>5, <2>6, <2>7, <2>8, ConcatProperties
  <2>11. (b \o c) \o (z \o y) = Recorded
    <3>0. b \in Seq(W) /\ c \in Seq(W) /\ z \in Seq(W) /\ y \in Seq(W) /\ c \o z \in Seq(W)
      BY <2>5, <2>6, <2>7, <2>8
    <3>1. c \o z \in Seq(W) /\ (b \o (c \o z)) \o y = Recorded
      BY <2>5, <2>6, <2>7
    <3>2. b \o ((c \o z) \o y) = Recorded
      <4>1. (b \o (c \o z)) \o y = b \o ((c \o z) \o y)
        BY <3>0, ThreeParts, SMTT(30)
      <4> QED
        BY <3>1, <4>1
    <3>3. (c \o z) \o y = c \o (z \o y)
      BY <3>0, ThreeParts
    <3> QED
      <4>1. (b \o c) \o (z \o y) = b \o (c \o (z \o y))
        BY <2>5, <2>8, <2>10, ThreeParts, SMTT(30)
      <4> QED
        BY <3>2, <3>3, <4>1
  <2> QED
    BY <1>w, <2>9, <2>10, <2>11
<1> QED
  BY <1>3, <1>4

(* The next word is the one recorded after those handed out. *)
LEMMA NextIsRecorded ==
  ASSUME ReaderInv, ReaderPlace, HasWord, NEW w, HandedOut(w)
  PROVE  /\ Len(w) \in Nat /\ Len(w) + 1 <= Len(Recorded) /\ NextWord = Recorded[Len(w) + 1]
<1> DEFINE W == Words(job.nch)
<1>1. PICK z \in Seq(W) : Passed \o z = Recorded /\ Passed \in Seq(W)
  BY PassedFirst
<1>2. w \in Seq(W) /\ w \o rd.buffer = Passed /\ rd.buffer \in Seq(W) /\ rd.buffer # << >>
  BY DEF HandedOut, ReaderInv, Readers, HasWord
<1>3. Len(w) \in Nat /\ Len(rd.buffer) \in Nat \ {0} /\ Len(z) \in Nat
  BY <1>1, <1>2, LenProperties, EmptySeq
<1>4. /\ Len(Passed) = Len(w) + Len(rd.buffer)
      /\ Len(Recorded) = Len(Passed) + Len(z)
      /\ \A i \in 1 .. Len(Passed) + Len(z) : Recorded[i] = IF i <= Len(Passed) THEN Passed[i] ELSE z[i - Len(Passed)]
      /\ \A i \in 1 .. Len(w) + Len(rd.buffer) : Passed[i] = IF i <= Len(w) THEN w[i] ELSE rd.buffer[i - Len(w)]
  BY <1>1, <1>2, ConcatProperties, SMTT(30)
<1> DEFINE l == Len(w)
           k == Len(rd.buffer)
           m == Len(Passed)
           r == Len(Recorded)
           j == Len(z)
<1>5. l \in Nat /\ k \in Nat \ {0} /\ j \in Nat /\ m = l + k /\ r = m + j
  BY <1>3, <1>4
<1>6. Passed[l + 1] = IF l + 1 <= l THEN w[l + 1] ELSE rd.buffer[(l + 1) - l]
  <2> HIDE DEF W
  <2>1. l + 1 \in 1 .. l + k
    BY <1>5
  <2> HIDE DEF l, k
  <2> QED
    BY <1>4, <2>1 DEF l, k
<1>7. Recorded[l + 1] = IF l + 1 <= m THEN Passed[l + 1] ELSE z[(l + 1) - m]
  <2>1. l + 1 \in 1 .. m + j
    BY <1>5
  <2> HIDE DEF l, m, j
  <2> QED
    BY <1>4, <2>1 DEF m, j
<1>8. NextWord = rd.buffer[1]
  BY <1>2 DEF NextWord
<1> HIDE DEF l, k, m, j, r
<1>9. l + 1 <= r /\ (l + 1) - l = 1 /\ ~(l + 1 <= l) /\ l + 1 <= m
  BY <1>5
<1> QED
  BY <1>5, <1>6, <1>7, <1>8, <1>9 DEF l, r

-----------------------------------------------------------------------------
(* The samples of a channel.                                               *)

LEMMA SamplesAppend ==
  ASSUME NEW nch, NEW w \in Seq(Words(nch)), NEW v \in Words(nch), NEW c
  PROVE  /\ SamplesIn(w, c) \in Seq(Int)
         /\ SamplesIn(Append(w, v), c) =
              IF v.chID = c THEN Append(SamplesIn(w, c), v.samp) ELSE SamplesIn(w, c)
<1> DEFINE n == Len(w)
           u == Append(w, v)
<1>1. /\ n \in Nat /\ u \in Seq(Words(nch)) /\ Len(u) = n + 1
      /\ \A k \in 1 .. n : u[k] = w[k]
      /\ u[n + 1] = v /\ v.samp \in Int
  BY LenProperties, AppendProperties DEF Words
<1>2. PICK g : Selects(g, w, c) /\ SamplesIn(w, c) = g[Len(w)]
  BY SamplesRecursive
<1> HIDE DEF u
<1>3. PICK h : Selects(h, u, c) /\ SamplesIn(u, c) = h[Len(u)]
  BY <1>1, SamplesRecursive
<1>a. n = Len(w)
  OBVIOUS
<1> HIDE DEF n
<1> DEFINE T == {k \in 0 .. n : g[k] # h[k]}
<1>4. T = {}
  <2>1. SUFFICES ASSUME T # {} PROVE FALSE
    OBVIOUS
  <2>2. PICK m \in T : \A k \in T : m <= k
    <3>1. T \in SUBSET Nat
      OBVIOUS
    <3> HIDE DEF T
    <3> QED
      BY <2>1, <3>1, SmallestNumber
  <2>3. m \in 0 .. n /\ g[m] # h[m]
    OBVIOUS
  <2>4. m # 0
    BY <1>2, <1>3, <2>3 DEF Selects
  <2>5. m \in 1 .. n /\ m \in 1 .. Len(u) /\ m - 1 \in 0 .. n /\ m - 1 \notin T
    BY <1>1, <2>2, <2>3, <2>4
  <2> QED
    BY <1>1, <1>2, <1>3, <1>a, <2>3, <2>5 DEF Selects
<1>5. g[n] = h[n] /\ g[n] \in Seq(Int)
  BY <1>1, <1>2, <1>4, <1>a DEF Selects
<1>6. SamplesIn(w, c) = g[n]
  BY <1>2, <1>a
<1>7. SamplesIn(u, c) = IF v.chID = c THEN Append(g[n], v.samp) ELSE g[n]
  <2>1. n + 1 \in 1 .. Len(u) /\ (n + 1) - 1 = n
    BY <1>1
  <2>2. h[n + 1] = IF u[n + 1].chID = c THEN Append(h[(n + 1) - 1], u[n + 1].samp) ELSE h[(n + 1) - 1]
    BY <1>3, <2>1 DEF Selects
  <2> QED
    BY <1>1, <1>3, <1>5, <2>1, <2>2
<1> QED
  BY <1>5, <1>6, <1>7 DEF u

LEMMA NoSamples == \A c : SamplesIn(<< >>, c) = << >>
<1> SUFFICES ASSUME NEW c PROVE SamplesIn(<< >>, c) = << >>
  OBVIOUS
<1> DEFINE w == << >>
<1>1. w \in Seq(Words(0)) /\ Len(w) = 0
  BY EmptySeq
<1> HIDE DEF w
<1>2. PICK g : Selects(g, w, c) /\ SamplesIn(w, c) = g[Len(w)]
  BY <1>1, SamplesRecursive
<1> QED
  BY <1>1, <1>2 DEF w, Selects

LEMMA NewPlace ==
  ASSUME NEW m \in Nat, NEW ci, ci = [i \in 1 .. m |-> i - 1]
  PROVE  ci \o <<m>> = [i \in 1 .. m + 1 |-> i - 1]
<1> DEFINE s == Append(ci, m)
           t == [i \in 1 .. m + 1 |-> i - 1]
<1>1. ci \in Seq(Int) /\ Len(ci) = m /\ m \in Int
  OBVIOUS
<1>2. ci \o <<m>> = s
  BY <1>1, AppendIsConcat
<1>3. /\ s \in Seq(Int) /\ Len(s) = m + 1 /\ s[m + 1] = m
      /\ \A i \in 1 .. m : s[i] = ci[i]
  BY <1>1, AppendProperties
<1>4. t \in Seq(Int) /\ Len(t) = m + 1 /\ \A i \in 1 .. m + 1 : t[i] = i - 1
  OBVIOUS
<1> HIDE DEF s, t
<1>5. ASSUME NEW i \in 1 .. m + 1 PROVE s[i] = t[i]
  <2>1. CASE i \in 1 .. m
    BY <1>3, <1>4, <2>1
  <2>2. CASE i \notin 1 .. m
    <3>1. i = m + 1 /\ i - 1 = m
      BY <2>2
    <3> QED
      BY <1>3, <1>4, <3>1
  <2> QED
    BY <2>1, <2>2
<1>6. s = t
  BY <1>3, <1>4, <1>5, SeqEqual
<1> QED
  BY <1>2, <1>6 DEF t

-----------------------------------------------------------------------------
(* Words that come as the board sends them: q samples of each channel and  *)
(* then one more of the first r of the four.                               *)

Lasting(q, r, c) == q + (IF c < r THEN 1 ELSE 0)
Known(q, r) == IF q = 0 THEN r ELSE 4

Arrived(w, q, r, n, ci) ==
  /\ q \in Nat /\ r \in 0 .. 3 /\ w \in Seq(Words(4)) /\ Len(w) = 4 * q + r
  /\ n = Known(q, r) /\ ci = [i \in 1 .. n |-> i - 1]
  /\ \A c \in 0 .. 3 : SamplesIn(w, c) \in Seq(Int) /\ Len(SamplesIn(w, c)) = Lasting(q, r, c)

NextRound(q, r, qq, rr) == IF r = 3 THEN qq = q + 1 /\ rr = 0 ELSE qq = q /\ rr = r + 1

LEMMA ArrivedFirst == Arrived(<< >>, 0, 0, 0, << >>)
<1> DEFINE e == << >>
<1>1. e \in Seq(Words(4)) /\ e \in Seq(Int) /\ Len(e) = 0
  BY EmptySeq
<1>2. \A c \in 0 .. 3 : Lasting(0, 0, c) = 0
  BY DEF Lasting
<1>3. e = [i \in 1 .. 0 |-> i - 1] /\ Known(0, 0) = 0
  BY DEF Known
<1>4. \A c : SamplesIn(e, c) = e
  BY NoSamples
<1>5. 4 * 0 + 0 = 0 /\ 0 \in 0 .. 3 /\ 0 \in Nat
  OBVIOUS
<1> HIDE DEF e
<1>6. Arrived(e, 0, 0, 0, e)
  BY <1>1, <1>2, <1>3, <1>4, <1>5, Zenon DEF Arrived
<1> QED
  BY <1>6 DEF e

(* The value is put where the samples of its channel are. *)
Placed(pv, r, n, value, pw) ==
  /\ pw \in Seq(Seq(Int)) /\ Len(pw) = n
  /\ \A c \in 1 .. n : c # r + 1 => c \in 1 .. Len(pv) /\ pw[c] = pv[c]
  /\ pw[r + 1] = Append(At(pv, r + 1), value)

LEMMA ArrivedNext ==
  ASSUME NEW w, NEW q, NEW r, Arrived(w, q, r, Len(pixelsVector), channelIndex),
         pixelsVector \in Seq(Seq(Int)), NEW v \in Words(4), v.chID = r, NEW value \in Int,
         NEW qq, NEW rr, NextRound(q, r, qq, rr), NEW n, n = Known(qq, rr)
  PROVE  /\ ~OutsideVector(v)
         /\ Arrived(Append(w, v), qq, rr, n, PlacesWith(v))
         /\ n \in 1 .. 4 /\ r + 1 \in 1 .. n
         /\ Placed(pixelsVector, r, n, value, VectorWith(v, value))
<1> DEFINE m == Len(pixelsVector)
           ci == channelIndex
<1>1. /\ q \in Nat /\ r \in 0 .. 3 /\ w \in Seq(Words(4)) /\ Len(w) = 4 * q + r
      /\ m = Known(q, r) /\ ci = [i \in 1 .. m |-> i - 1]
      /\ \A c \in 0 .. 3 : SamplesIn(w, c) \in Seq(Int) /\ Len(SamplesIn(w, c)) = Lasting(q, r, c)
  BY DEF Arrived
<1>m. m \in Nat /\ m = Len(pixelsVector) /\ DOMAIN pixelsVector = 1 .. m
  BY LenProperties
<1> HIDE DEF m
<1>2. /\ qq \in Nat /\ rr \in 0 .. 3 /\ 4 * qq + rr = (4 * q + r) + 1
      /\ \A c \in 0 .. 3 : Lasting(qq, rr, c) = IF c = r THEN Lasting(q, r, c) + 1 ELSE Lasting(q, r, c)
  <2>1. CASE r = 3
    <3>1. qq = q + 1 /\ rr = 0
      BY <2>1 DEF NextRound
    <3> QED
      BY <1>1, <2>1, <3>1 DEF Lasting
  <2>2. CASE r # 3
    <3>1. qq = q /\ rr = r + 1
      BY <2>2 DEF NextRound
    <3> QED
      BY <1>1, <2>2, <3>1, SMTT(30) DEF Lasting
  <2> QED
    BY <2>1, <2>2
<1>3. /\ n \in 1 .. 4 /\ r + 1 \in 1 .. n
      /\ IF q = 0 THEN m = r /\ n = r + 1 ELSE m = 4 /\ n = 4
  BY <1>1, <1>2, SMTT(30) DEF NextRound, Known
<1>4. Len(ci) = m /\ ci \in Seq(Int)
  BY <1>1, <1>m
<1>5. NewChannel(v) <=> q = 0
  <2>1. r >= m <=> q = 0
    BY <1>1, <1>3, <1>m, SMTT(30)
  <2> QED
    BY <1>4, <2>1 DEF NewChannel
<1>6. PlacesWith(v) = [i \in 1 .. n |-> i - 1]
  <2>1. CASE q # 0
    BY <1>1, <1>3, <1>5, <2>1 DEF PlacesWith
  <2>2. CASE q = 0
    <3> DEFINE e == [i \in 1 .. v.chID - Len(ci) |-> -1]
               last == <<m>>
    <3>1. e = << >> /\ v.chID - Len(ci) = 0
      BY <1>1, <1>3, <1>4, <2>2, SMTT(30)
    <3>2. PlacesWith(v) = ci \o e \o last
      BY <1>5, <1>m, <2>2, Zenon DEF PlacesWith
    <3>3. ci \o e = ci
      BY <1>4, <3>1, ConcatEmptySeq
    <3>4. n = m + 1
      BY <1>3, <2>2
    <3>5. ci \o <<m>> = [i \in 1 .. m + 1 |-> i - 1]
      BY <1>1, <1>m, NewPlace
    <3> QED
      BY <3>2, <3>3, <3>4, <3>5
  <2> QED
    BY <2>1, <2>2
<1>7. PlacesWith(v)[v.chID + 1] = r
  BY <1>1, <1>3, <1>6
<1>8. ~OutsideVector(v)
  BY <1>1, <1>7 DEF OutsideVector
<1>9. Arrived(Append(w, v), qq, rr, n, PlacesWith(v))
  <2> DEFINE u == Append(w, v)
  <2>1. u \in Seq(Words(4)) /\ Len(u) = Len(w) + 1
    BY <1>1, AppendProperties
  <2>2. ASSUME NEW c \in 0 .. 3 PROVE SamplesIn(u, c) \in Seq(Int) /\ Len(SamplesIn(u, c)) = Lasting(qq, rr, c)
    <3> DEFINE s == SamplesIn(w, c)
    <3>1. SamplesIn(u, c) = IF v.chID = c THEN Append(s, v.samp) ELSE s
      BY <1>1, SamplesAppend
    <3>2. s \in Seq(Int) /\ Len(s) = Lasting(q, r, c) /\ v.samp \in Int
      BY <1>1 DEF Words
    <3> HIDE DEF s
    <3>3. Append(s, v.samp) \in Seq(Int) /\ Len(Append(s, v.samp)) = Len(s) + 1
      BY <3>2, AppendProperties
    <3> QED
      BY <1>2, <3>1, <3>2, <3>3
  <2> HIDE DEF u
  <2>3. Len(u) = 4 * qq + rr
    BY <1>1, <1>2, <2>1
  <2> QED
    BY <1>2, <1>6, <2>1, <2>2, <2>3 DEF Arrived, u
<1>10. Placed(pixelsVector, r, n, value, VectorWith(v, value))
  <2> DEFINE pv == IF NewChannel(v) THEN Append(pixelsVector, << >>) ELSE pixelsVector
             pw == [pv EXCEPT ![r + 1] = Append(@, value)]
  <2>1. VectorWith(v, value) = pw
    BY <1>7, Zenon DEF VectorWith
  <2>2. << >> \in Seq(Int)
    BY EmptySeq
  <2>3. /\ pv \in Seq(Seq(Int)) /\ Len(pv) = n
        /\ \A c \in 1 .. n : c # r + 1 => c \in 1 .. m /\ pv[c] = pixelsVector[c]
        /\ pv[r + 1] = At(pixelsVector, r + 1)
    <3>1. CASE q # 0
      <4>1. pv = pixelsVector /\ m = n
        BY <1>3, <1>5, <3>1
      <4> QED
        BY <1>3, <1>m, <4>1 DEF At
    <3>2. CASE q = 0
      <4>1. pv = Append(pixelsVector, << >>) /\ n = m + 1 /\ m = r
        BY <1>3, <1>5, <3>2
      <4>2. /\ Append(pixelsVector, << >>) \in Seq(Seq(Int)) /\ Len(Append(pixelsVector, << >>)) = m + 1
            /\ \A c \in 1 .. m : Append(pixelsVector, << >>)[c] = pixelsVector[c]
            /\ Append(pixelsVector, << >>)[m + 1] = << >>
        BY <1>m, <2>2, AppendProperties
      <4>3. r + 1 \notin 1 .. m
        BY <1>m, <4>1
      <4>4. At(pixelsVector, r + 1) = << >>
        BY <1>m, <4>3 DEF At
      <4>5. \A c \in 1 .. n : c # r + 1 => c \in 1 .. m
        BY <1>m, <4>1
      <4> QED
        BY <4>1, <4>2, <4>4, <4>5
    <3> QED
      BY <3>1, <3>2
  <2> HIDE DEF pv
  <2>4. DOMAIN pv = 1 .. n /\ pv[r + 1] \in Seq(Int)
    BY <1>3, <2>3, LenProperties, ElementOfSeq
  <2>5. Append(pv[r + 1], value) \in Seq(Int)
    BY <2>4, AppendProperties
  <2>6. pw \in Seq(Seq(Int)) /\ Len(pw) = n
    <3>1. pw = [c \in 1 .. n |-> IF c = r + 1 THEN Append(pv[r + 1], value) ELSE pv[c]]
      BY <2>4
    <3>2. \A c \in 1 .. n : pv[c] \in Seq(Int)
      BY <2>3, ElementOfSeq
    <3> HIDE DEF pw
    <3> DEFINE J == Seq(Int)
               y == Append(pv[r + 1], value)
    <3>3. \A c \in 1 .. n : (IF c = r + 1 THEN y ELSE pv[c]) \in J
      BY <2>5, <3>2
    <3>4. n \in Nat /\ pw = [c \in 1 .. n |-> IF c = r + 1 THEN y ELSE pv[c]]
      BY <1>3, <3>1
    <3> HIDE DEF J, y
    <3>5. pw \in Seq(J) /\ Len(pw) = n
      BY <3>3, <3>4
    <3> QED
      BY <3>5 DEF J
  <2>7. pw[r + 1] = Append(pv[r + 1], value) /\ \A c \in 1 .. n : c # r + 1 => pw[c] = pv[c]
    BY <1>3, <2>4
  <2> HIDE DEF pw
  <2> QED
    BY <1>m, <2>1, <2>3, <2>6, <2>7 DEF Placed
<1> QED
  BY <1>3, <1>8, <1>9, <1>10

-----------------------------------------------------------------------------
(* The pixels of the interleaved image.                                    *)

Noisy == (Int \X Int) \X (Int \X Int) \X (Int \X Int)

LEMMA PlacesUsed ==
  ASSUME NEW place \in 0 .. 3
  PROVE  /\ place + 1 \in 1 .. 4 /\ Others(place)[1] + 1 \in 1 .. 4 /\ Others(place)[2] + 1 \in 1 .. 4
         /\ Others(place)[1] \in 0 .. 3 /\ Others(place)[2] \in 0 .. 3
         /\ Offset(place) \in 0 .. 1
BY DEF Others, Offset

LEMMA PixelTyped ==
  ASSUME NEW pv, NEW m \in Nat, \A c \in 1 .. 4 : \A i \in 1 .. 3 * m : pv[c][i] \in Int,
         NEW place \in 0 .. 3, NEW k \in 1 .. m
  PROVE  Pixel(pv, place, k - 1) \in Noisy
<1>1. PICK a, b, c \in 1 .. 4 : a = place + 1 /\ b = Others(place)[1] + 1 /\ c = Others(place)[2] + 1
  BY PlacesUsed
<1>2. PICK i, j \in 1 .. 3 * m : i = 3 * (k - 1) + Offset(place) + 1 /\ j = 3 * (k - 1) + Offset(place) + 2
  <2>1. PICK o \in 0 .. 1 : o = Offset(place)
    BY PlacesUsed
  <2>2. 3 * (k - 1) + o + 1 \in 1 .. 3 * m /\ 3 * (k - 1) + o + 2 \in 1 .. 3 * m
    OBVIOUS
  <2> QED
    BY <2>1, <2>2
<1>3. Pixel(pv, place, k - 1) = <<<<pv[a][i], pv[a][j]>>, <<pv[b][i], pv[b][j]>>, <<pv[c][i], pv[c][j]>>>>
  BY <1>1, <1>2, Zenon DEF Pixel
<1> QED
  BY <1>3 DEF Noisy

(* A pixel depends on its own integrations only. *)
SameFrom(pv, s, K, m) == \A c \in 1 .. 4 : \A i \in 1 .. 3 * m : pv[c][i] = s[c][3 * K + i]

SamePixels(pv, s, K, m) ==
  \A place \in 0 .. 3 : \A k \in 1 .. m : Pixel(pv, place, k - 1) = Pixel(s, place, (K + k) - 1)

LEMMA SamePixel ==
  ASSUME NEW pv, NEW s, NEW m \in Nat, NEW K \in Nat, SameFrom(pv, s, K, m)
  PROVE  SamePixels(pv, s, K, m)
<1> SUFFICES ASSUME NEW place \in 0 .. 3, NEW k \in 1 .. m
             PROVE  Pixel(pv, place, k - 1) = Pixel(s, place, (K + k) - 1)
  BY DEF SamePixels
<1>j. PICK j \in Nat : j = K + k
  OBVIOUS
<1>0. \A c \in 1 .. 4 : \A i \in 1 .. 3 * m : pv[c][i] = s[c][3 * K + i]
  BY DEF SameFrom
<1>1. PICK a, b, c \in 1 .. 4 : a = place + 1 /\ b = Others(place)[1] + 1 /\ c = Others(place)[2] + 1
  BY PlacesUsed
<1>2. PICK o \in 0 .. 1 : o = Offset(place)
  BY PlacesUsed
<1>3. PICK i \in 1 .. 3 * m : i = 3 * (k - 1) + o + 1
  <2>1. 3 * (k - 1) + o + 1 \in 1 .. 3 * m
    OBVIOUS
  <2> QED
    BY <2>1
<1>4. PICK l \in 1 .. 3 * m : l = 3 * (k - 1) + o + 2
  <2>1. 3 * (k - 1) + o + 2 \in 1 .. 3 * m
    OBVIOUS
  <2> QED
    BY <2>1
<1>5. 3 * (j - 1) + o + 1 = 3 * K + i /\ 3 * (j - 1) + o + 2 = 3 * K + l
  BY <1>j, <1>3, <1>4
<1>6. Pixel(pv, place, k - 1) = <<<<pv[a][i], pv[a][l]>>, <<pv[b][i], pv[b][l]>>, <<pv[c][i], pv[c][l]>>>>
  BY <1>1, <1>2, <1>3, <1>4, Zenon DEF Pixel
<1>7. Pixel(s, place, j - 1) =
        <<<<s[a][3 * (j - 1) + o + 1], s[a][3 * (j - 1) + o + 2]>>,
          <<s[b][3 * (j - 1) + o + 1], s[b][3 * (j - 1) + o + 2]>>,
          <<s[c][3 * (j - 1) + o + 1], s[c][3 * (j - 1) + o + 2]>>>>
  BY <1>1, <1>2, Zenon DEF Pixel
<1> QED
  BY <1>j, <1>0, <1>5, <1>6, <1>7

(* The first m pixels are computed of each channel, and what is left of it *)
(* is kept.                                                                *)
PixelsOf(pv, m) == [h \in 1 .. 4 |-> [k \in 1 .. m |-> Pixel(pv, h - 1, k - 1)]]

Unused(pv, m, pw) ==
  /\ pw \in Seq(Seq(Int)) /\ Len(pw) = 4
  /\ \A c \in 1 .. 4 : /\ Len(pw[c]) = Len(pv[c]) - 3 * m
                       /\ \A i \in 1 .. Len(pw[c]) : pw[c][i] = pv[c][3 * m + i]

LEMMA Thirds ==
  ASSUME NEW l \in Int
  PROVE  l \div 3 \in Int /\ \E rest \in 0 .. 2 : l = 3 * (l \div 3) + rest
<1> DEFINE n == l \div 3
           rest == l % 3
<1>1. rest \in 0 .. 2 /\ n \in Int /\ l = 3 * n + rest
  OBVIOUS
<1> QED
  BY <1>1

LEMMA PixelsReadyAre ==
  ASSUME NEW pv, NEW m \in Nat, NEW place \in 0 .. 3, NEW l \in Nat, l = Len(pv[place + 1]),
         3 * m <= l, l < 3 * m + 3
  PROVE  PixelsReady(pv, place) = m
<1> DEFINE n == l \div 3
<1>0. l \in Int
  OBVIOUS
<1>1. n \in Int /\ \E rest \in 0 .. 2 : l = 3 * n + rest
  BY <1>0, Thirds, Zenon
<1>n. n = l \div 3
  OBVIOUS
<1> HIDE DEF n
<1>2. n = m
  BY <1>1
<1>3. place <= 3
  OBVIOUS
<1>4. PixelsReady(pv, place) = l \div 3
  BY <1>3, Zenon DEF PixelsReady
<1> QED
  BY <1>2, <1>4, <1>n

LEMMA PixelsComputed ==
  ASSUME NumChannels = 4, NEW pv \in Seq(Seq(Int)), Len(pv) = 4, NEW m \in Nat,
         \A c \in 1 .. 4 : 2 <= Len(pv[c]) /\ 3 * m <= Len(pv[c]) /\ Len(pv[c]) < 3 * m + 3,
         outf \in Images(Noisy), Counted(outf),
         \A h \in F!HDUs : outf.pixelCounts[h] + m <= outf.pixExpected,
         NEW next, compute_pixel_value(pv, next)
  PROVE  /\ phase' = next
         /\ outf' \in Images(Noisy) /\ Counted(outf') /\ outf'.pixExpected = outf.pixExpected
         /\ \A h \in F!HDUs : outf'.data[h] = outf.data[h] \o PixelsOf(pv, m)[h]
         /\ Unused(pv, m, pixelsVector')
<1> DEFINE new == [i \in DOMAIN pv |-> [k \in 1 .. PixelsReady(pv, i - 1) |-> Pixel(pv, i - 1, k - 1)]]
           kept(i) == Len(F!Written(outf, i, new[i]))
           hdu == [i \in DOMAIN pv |-> i]
           rest == [i \in DOMAIN pv |-> SubSeq(pv[i], 3 * kept(i) + 1, Len(pv[i]))]
           px == PixelsOf(pv, m)
<1>1. IF ComputeInBounds(pv)
      THEN outf' = dump_channels(outf, hdu, new) /\ pixelsVector' = rest /\ phase' = next
      ELSE phase' = "undefined" /\ pixelsVector' = pv /\ UNCHANGED outf
  BY Zenon DEF compute_pixel_value
<1>2. DOMAIN pv = 1 .. 4 /\ \A c \in 1 .. 4 : pv[c] \in Seq(Int) /\ Len(pv[c]) \in Nat
  BY LenProperties, ElementOfSeq
<1>3. \A place \in 0 .. 3 : PixelsReady(pv, place) = m
  <2> SUFFICES ASSUME NEW place \in 0 .. 3 PROVE PixelsReady(pv, place) = m
    OBVIOUS
  <2>1. PICK l \in Nat : l = Len(pv[place + 1]) /\ 3 * m <= l /\ l < 3 * m + 3
    BY <1>2, PlacesUsed
  <2> QED
    BY <2>1, PixelsReadyAre
<1>4. \A c \in 1 .. 4 : \A i \in 1 .. 3 * m : pv[c][i] \in Int
  <2> SUFFICES ASSUME NEW c \in 1 .. 4, NEW i \in 1 .. 3 * m PROVE pv[c][i] \in Int
    OBVIOUS
  <2>1. PICK l \in Nat : l = Len(pv[c]) /\ 3 * m <= l
    BY <1>2
  <2>2. i \in 1 .. l
    BY <2>1
  <2> QED
    BY <1>2, <2>1, <2>2, ElementOfSeq
<1>5. px \in [1 .. 4 -> Seq(Noisy)] /\ \A h \in 1 .. 4 : Len(px[h]) = m
  <2>1. ASSUME NEW h \in 1 .. 4 PROVE \A k \in 1 .. m : Pixel(pv, h - 1, k - 1) \in Noisy
    <3>1. h - 1 \in 0 .. 3
      OBVIOUS
    <3> QED
      BY <1>4, <3>1, PixelTyped
  <2> DEFINE V == Noisy
  <2>2. \A h \in 1 .. 4 : \A k \in 1 .. m : Pixel(pv, h - 1, k - 1) \in V
    BY <2>1
  <2> HIDE DEF V
  <2>3. \A h \in 1 .. 4 : /\ [k \in 1 .. m |-> Pixel(pv, h - 1, k - 1)] \in Seq(V)
                          /\ Len([k \in 1 .. m |-> Pixel(pv, h - 1, k - 1)]) = m
    BY <2>2
  <2> QED
    BY <2>3 DEF PixelsOf, V
<1>6. new = px
  <2>1. \A h \in 1 .. 4 : PixelsReady(pv, h - 1) = m
    <3>1. \A h \in 1 .. 4 : h - 1 \in 0 .. 3
      OBVIOUS
    <3> QED
      BY <1>3, <3>1
  <2> QED
    BY <1>2, <2>1 DEF PixelsOf
<1>p. px = PixelsOf(pv, m)
  OBVIOUS
<1>7. ComputeInBounds(pv)
  <2> SUFFICES ASSUME NEW place \in 0 .. Len(pv) - 1
               PROVE  /\ Len(pv[place + 1]) >= 2
                      /\ PixelsReady(pv, place) > 0 => Reaches(pv, place, PixelsReady(pv, place))
    BY DEF ComputeInBounds
  <2>1. place \in 0 .. 3 /\ place + 1 \in 1 .. 4 /\ PixelsReady(pv, place) = m
    BY <1>3
  <2>2. ASSUME m > 0, NEW p \in {place, Others(place)[1], Others(place)[2]}
        PROVE  p < Len(pv) /\ Len(pv[p + 1]) >= 3 * (m - 1) + Offset(place) + 2
    <3>1. p \in 0 .. 3 /\ p + 1 \in 1 .. 4
      BY <2>1, <2>2, PlacesUsed
    <3>2. PICK o \in 0 .. 1 : o = Offset(place)
      BY <2>1, PlacesUsed
    <3>3. PICK l \in Nat : l = Len(pv[p + 1]) /\ 3 * m <= l
      BY <1>2, <3>1
    <3>4. l >= 3 * (m - 1) + o + 2
      BY <2>2, <3>3, SMTT(30)
    <3> QED
      BY <3>1, <3>2, <3>3, <3>4, SMTT(30)
  <2> QED
    BY <1>2, <2>1, <2>2 DEF Reaches
<1>8. outf' = dump_channels(outf, hdu, px) /\ pixelsVector' = rest /\ phase' = next
  BY <1>1, <1>6, <1>7
<1> HIDE DEF px
<1>9. hdu = [h \in 1 .. 4 |-> h]
  BY <1>2
<1>10. \A h \in 1 .. 4 : h \in F!HDUs /\ outf.pixelCounts[h] + Len(px[h]) <= outf.pixExpected
  BY <1>5 DEF F!HDUs
<1>11. InPlace(Noisy, outf, 4, px)
  <2>1. 4 \in Nat /\ 4 <= NumChannels
    OBVIOUS
  <2> QED
    BY <1>5, <1>10, <2>1, DumpedInPlace
<1>12. ASSUME NEW c \in 1 .. 4 PROVE kept(c) = m
  <2>1. F!Written(outf, c, px[c]) = px[c]
    <3>1. px[c] \in Seq(Noisy)
      BY <1>5
    <3> QED
      BY <1>10, <3>1, AllWritten
  <2> QED
    BY <1>5, <1>6, <2>1
<1>13. Unused(pv, m, pixelsVector')
  <2>1. pixelsVector' = [c \in 1 .. 4 |-> SubSeq(pv[c], 3 * m + 1, Len(pv[c]))]
    BY <1>2, <1>8, <1>12
  <2>2. ASSUME NEW c \in 1 .. 4
        PROVE  /\ SubSeq(pv[c], 3 * m + 1, Len(pv[c])) \in Seq(Int)
               /\ Len(SubSeq(pv[c], 3 * m + 1, Len(pv[c]))) = Len(pv[c]) - 3 * m
               /\ \A i \in 1 .. Len(SubSeq(pv[c], 3 * m + 1, Len(pv[c]))) :
                    SubSeq(pv[c], 3 * m + 1, Len(pv[c]))[i] = pv[c][3 * m + i]
    <3>1. pv[c] \in Seq(Int) /\ 3 * m <= Len(pv[c])
      BY <1>2
    <3>2. 3 * m \in Nat
      OBVIOUS
    <3> QED
      BY <3>1, <3>2, PartOf
  <2> DEFINE J == Seq(Int)
             pw == [c \in 1 .. 4 |-> SubSeq(pv[c], 3 * m + 1, Len(pv[c]))]
  <2>3. pw \in Seq(J) /\ Len(pw) = 4
    <3>1. \A c \in 1 .. 4 : SubSeq(pv[c], 3 * m + 1, Len(pv[c])) \in J
      BY <2>2
    <3> HIDE DEF J
    <3> QED
      BY <3>1
  <2>4. \A c \in 1 .. 4 : pw[c] = SubSeq(pv[c], 3 * m + 1, Len(pv[c]))
    OBVIOUS
  <2> HIDE DEF pw
  <2>5. Unused(pv, m, pw)
    BY <2>2, <2>3, <2>4 DEF Unused
  <2> QED
    BY <2>1, <2>5 DEF pw
<1>14. PICK r : /\ r = dump_channels(outf, [h \in 1 .. 4 |-> h], px)
                /\ r \in Images(Noisy) /\ Counted(r) /\ r.pixExpected = outf.pixExpected
                /\ \A h \in F!HDUs : r.data[h] = IF h \in 1 .. 4 THEN outf.data[h] \o px[h] ELSE outf.data[h]
  BY <1>11 DEF InPlace
<1>15. outf' = r
  BY <1>8, <1>9, <1>14
<1>16. \A h \in F!HDUs : h \in 1 .. 4
  BY DEF F!HDUs
<1> QED
  BY <1>8, <1>13, <1>14, <1>15, <1>16, <1>p DEF Counted

(* Nothing is computed when nothing has arrived. *)
LEMMA NothingComputed ==
  ASSUME outf \in Images(Noisy), Counted(outf), NEW next, NEW pv, pv = << >>, compute_pixel_value(pv, next)
  PROVE  /\ phase' = next
         /\ outf' \in Images(Noisy) /\ outf'.pixExpected = outf.pixExpected
         /\ \A h \in F!HDUs : outf'.data[h] = outf.data[h]
<1> DEFINE new == [i \in DOMAIN pv |-> [k \in 1 .. PixelsReady(pv, i - 1) |-> Pixel(pv, i - 1, k - 1)]]
           hdu == [i \in DOMAIN pv |-> i]
<1>1. ComputeInBounds(pv) => outf' = dump_channels(outf, hdu, new) /\ phase' = next
  BY Zenon DEF compute_pixel_value
<1>2. DOMAIN pv = 1 .. 0 /\ Len(pv) = 0
  BY EmptySeq
<1>3. ComputeInBounds(pv)
  BY <1>2 DEF ComputeInBounds
<1>4. new \in [1 .. 0 -> Seq(Noisy)] /\ hdu = [h \in 1 .. 0 |-> h]
  BY <1>2
<1> HIDE DEF new, hdu
<1>5. InPlace(Noisy, outf, 0, new)
  <2>1. 0 \in Nat /\ 0 <= NumChannels /\ 1 .. 0 = {}
    BY ReaderAssumption
  <2>2. \A h \in 1 .. 0 : outf.pixelCounts[h] + Len(new[h]) <= outf.pixExpected
    BY <2>1
  <2> QED
    BY <1>4, <2>1, <2>2, DumpedInPlace
<1>6. PICK r : /\ r = dump_channels(outf, [h \in 1 .. 0 |-> h], new)
               /\ r \in Images(Noisy) /\ r.pixExpected = outf.pixExpected
               /\ \A h \in F!HDUs : r.data[h] = IF h \in 1 .. 0 THEN outf.data[h] \o new[h] ELSE outf.data[h]
  BY <1>5 DEF InPlace
<1> QED
  BY <1>1, <1>3, <1>4, <1>6

-----------------------------------------------------------------------------
(* What an interleaving conversion or a calibration has of its words: K    *)
(* pixels of each channel are in the image, the samples after those are in *)
(* the channel's vector.                                                   *)

Remains(w, q, r, K, pv) ==
  /\ pv \in Seq(Seq(Int)) /\ Len(pv) = Known(q, r)
  /\ \A c \in 1 .. Known(q, r) :
       /\ Len(pv[c]) = Lasting(q, r, c - 1) - 3 * K
       /\ \A i \in 1 .. Len(pv[c]) : pv[c][i] = SamplesIn(w, c - 1)[3 * K + i]

Streams(w) == [p \in 1 .. NumChannels |-> SamplesIn(w, p - 1)]

Made(w, K, o) ==
  /\ o \in Images(Noisy) /\ Counted(o) /\ o.pixExpected = job.nCols * job.nRows
  /\ \A h \in F!HDUs : o.data[h] = [k \in 1 .. K |-> Pixel(Streams(w), h - 1, k - 1)]

(* Pixels are computed right after a sample of channel 0, which is then    *)
(* one ahead: something is left in every vector when the round is over.    *)
Interleaved(w, q, r, K, pv, o) ==
  /\ K \in Nat /\ 3 * K <= q
  /\ K > 0 => 3 * K < Lasting(q, r, 0)
  /\ Lasting(q, r, 0) - 3 * K <= job.nCols
  /\ Remains(w, q, r, K, pv) /\ Made(w, K, o)

LEMMA Rounds ==
  ASSUME NEW q \in Nat, NEW r \in 0 .. 3, NEW qq, NEW rr, NextRound(q, r, qq, rr)
  PROVE  /\ qq \in Nat /\ rr \in 0 .. 3 /\ Known(qq, rr) \in 1 .. 4 /\ r + 1 \in 1 .. Known(qq, rr)
         /\ \A c \in 0 .. 3 : Lasting(qq, rr, c) = IF c = r THEN Lasting(q, r, c) + 1 ELSE Lasting(q, r, c)
         /\ Lasting(q, r, r) = q /\ Known(q, r) \in 0 .. 4
         /\ r + 1 \notin 1 .. Known(q, r) => q = 0
<1>1. CASE r = 3
  <2>1. qq = q + 1 /\ rr = 0
    BY <1>1 DEF NextRound
  <2>2. Known(qq, rr) = 4 /\ r + 1 = 4 /\ Lasting(q, r, r) = q
    BY <1>1, <2>1 DEF Known, Lasting
  <2>3. \A c \in 0 .. 3 : Lasting(qq, rr, c) = IF c = r THEN Lasting(q, r, c) + 1 ELSE Lasting(q, r, c)
    BY <1>1, <2>1 DEF Lasting
  <2>4. Known(q, r) \in 0 .. 4 /\ (r + 1 \notin 1 .. Known(q, r) => q = 0)
    BY <2>2 DEF Known
  <2> QED
    BY <2>1, <2>2, <2>3, <2>4
<1>2. CASE r # 3
  <2>1. qq = q /\ rr = r + 1 /\ rr \in 1 .. 3
    BY <1>2 DEF NextRound
  <2>2. Known(qq, rr) \in 1 .. 4 /\ r + 1 \in 1 .. Known(qq, rr) /\ Lasting(q, r, r) = q
    BY <2>1 DEF Known, Lasting
  <2>3. \A c \in 0 .. 3 : Lasting(qq, rr, c) = IF c = r THEN Lasting(q, r, c) + 1 ELSE Lasting(q, r, c)
    BY <2>1 DEF Lasting
  <2>4. Known(q, r) \in 0 .. 4 /\ (r + 1 \notin 1 .. Known(q, r) => q = 0)
    <3>1. r + 1 \in 1 .. 4 /\ r \in 0 .. 4
      OBVIOUS
    <3> QED
      BY <3>1 DEF Known
  <2> QED
    BY <2>1, <2>2, <2>3, <2>4
<1> QED
  BY <1>1, <1>2

LEMMA RemainsNext ==
  ASSUME NEW w, NEW q, NEW r, NEW ci, NEW pv, Arrived(w, q, r, Len(pv), ci),
         NEW K \in Nat, 3 * K <= q, Remains(w, q, r, K, pv),
         NEW v \in Words(4), v.chID = r, NEW qq, NEW rr, NextRound(q, r, qq, rr),
         NEW n, n = Known(qq, rr), NEW pw, Placed(pv, r, n, v.samp, pw)
  PROVE  Remains(Append(w, v), qq, rr, K, pw)
<1>1. /\ q \in Nat /\ r \in 0 .. 3 /\ w \in Seq(Words(4)) /\ Len(pv) = Known(q, r)
      /\ \A c \in 0 .. 3 : SamplesIn(w, c) \in Seq(Int) /\ Len(SamplesIn(w, c)) = Lasting(q, r, c)
  BY DEF Arrived
<1>2. /\ qq \in Nat /\ rr \in 0 .. 3 /\ n \in 1 .. 4 /\ r + 1 \in 1 .. n
      /\ \A c \in 0 .. 3 : Lasting(qq, rr, c) = IF c = r THEN Lasting(q, r, c) + 1 ELSE Lasting(q, r, c)
      /\ Lasting(q, r, r) = q /\ Known(q, r) \in 0 .. 4
      /\ r + 1 \notin 1 .. Known(q, r) => q = 0
  <2>1. q \in Nat /\ r \in 0 .. 3
    BY <1>1
  <2> QED
    BY <2>1, Rounds
<1>3. \A c \in 0 .. 3 : SamplesIn(Append(w, v), c) =
        IF c = r THEN Append(SamplesIn(w, c), v.samp) ELSE SamplesIn(w, c)
  BY <1>1, SamplesAppend, ZenonT(40)
<1>4. ASSUME NEW c \in 1 .. n, c # r + 1
      PROVE  /\ Len(pw[c]) = Lasting(qq, rr, c - 1) - 3 * K
             /\ \A i \in 1 .. Len(pw[c]) : pw[c][i] = SamplesIn(Append(w, v), c - 1)[3 * K + i]
  <2>1. c \in 1 .. Known(q, r) /\ pw[c] = pv[c]
    BY <1>1, <1>4 DEF Placed
  <2>2. c - 1 \in 0 .. 3 /\ c - 1 # r
    <3>1. c \in 1 .. 4
      BY <1>2
    <3> QED
      BY <1>1, <1>4, <3>1
  <2>3. SamplesIn(Append(w, v), c - 1) = SamplesIn(w, c - 1) /\ Lasting(qq, rr, c - 1) = Lasting(q, r, c - 1)
    BY <1>2, <1>3, <2>2
  <2> QED
    BY <2>1, <2>3 DEF Remains
<1>5. /\ Len(pw[r + 1]) = Lasting(qq, rr, r) - 3 * K
      /\ \A i \in 1 .. Len(pw[r + 1]) : pw[r + 1][i] = SamplesIn(Append(w, v), r)[3 * K + i]
  <2>1. PICK x, s, y, t : /\ x = At(pv, r + 1) /\ s = SamplesIn(w, r)
                          /\ y = Append(x, v.samp) /\ t = Append(s, v.samp)
    OBVIOUS
  <2>2. s \in Seq(Int) /\ Len(s) = q /\ v.samp \in Int
    BY <1>1, <1>2, <2>1 DEF Words
  <2>3. x \in Seq(Int) /\ Len(x) = q - 3 * K /\ \A i \in 1 .. Len(x) : x[i] = s[3 * K + i]
    <3>1. CASE r + 1 \in 1 .. Known(q, r)
      <4>1. x = pv[r + 1]
        BY <1>1, <2>1, <3>1 DEF At
      <4>0. (r + 1) - 1 = r
        BY <1>1
      <4>2. pv \in Seq(Seq(Int)) /\ r + 1 \in 1 .. Len(pv) /\ (r + 1) - 1 = r
        BY <1>1, <3>1, <4>0, Zenon DEF Remains
      <4>3. pv[r + 1] \in Seq(Int)
        BY <4>2, ElementOfSeq
      <4> QED
        BY <1>2, <2>1, <3>1, <4>1, <4>2, <4>3, ZenonT(40) DEF Remains
    <3>2. CASE r + 1 \notin 1 .. Known(q, r)
      <4>1. x = << >> /\ q = 0 /\ K = 0
        BY <1>1, <1>2, <2>1, <3>2 DEF At
      <4> QED
        BY <4>1, EmptySeq
    <3> QED
      BY <3>1, <3>2
  <2>4. /\ Len(y) = Len(x) + 1 /\ y[Len(x) + 1] = v.samp /\ \A i \in 1 .. Len(x) : y[i] = x[i]
        /\ Len(t) = q + 1 /\ t[q + 1] = v.samp /\ \A i \in 1 .. q : t[i] = s[i]
    BY <2>1, <2>2, <2>3, AppendProperties, SMTT(30)
  <2>5. ASSUME NEW i \in 1 .. Len(y) PROVE y[i] = t[3 * K + i]
    <3>1. CASE i = Len(x) + 1
      <4>1. 3 * K + i = q + 1
        BY <1>1, <2>3, <3>1
      <4> QED
        BY <2>4, <3>1, <4>1
    <3>2. CASE i # Len(x) + 1
      <4>1. i \in 1 .. Len(x) /\ 3 * K + i \in 1 .. q
        BY <1>1, <2>3, <2>4, <3>2
      <4> QED
        BY <2>3, <2>4, <4>1
    <3> QED
      BY <3>1, <3>2
  <2>6. Lasting(qq, rr, r) = q + 1 /\ SamplesIn(Append(w, v), r) = t
    BY <1>1, <1>2, <1>3, <2>1
  <2>7. pw[r + 1] = y
    BY <2>1 DEF Placed
  <2>8. Len(y) = (q + 1) - 3 * K
    BY <1>1, <2>3, <2>4
  <2> QED
    BY <2>5, <2>6, <2>7, <2>8
<1>6. pw \in Seq(Seq(Int)) /\ Len(pw) = n
  BY DEF Placed
<1>7. (r + 1) - 1 = r
  BY <1>1
<1> QED
  BY <1>4, <1>5, <1>6, <1>7, ZenonT(40) DEF Remains

(* A word more changes nothing of the pixels made. *)
LEMMA PixelKept ==
  ASSUME NEW a, NEW b, NEW K \in Nat, \A c \in 1 .. 4 : \A i \in 1 .. 3 * K : a[c][i] = b[c][i],
         NEW place \in 0 .. 3, NEW k \in 1 .. K
  PROVE  Pixel(a, place, k - 1) = Pixel(b, place, k - 1)
<1>1. PICK d, e, f \in 1 .. 4 : d = place + 1 /\ e = Others(place)[1] + 1 /\ f = Others(place)[2] + 1
  BY PlacesUsed
<1>2. PICK i, j \in 1 .. 3 * K : i = 3 * (k - 1) + Offset(place) + 1 /\ j = 3 * (k - 1) + Offset(place) + 2
  <2>1. PICK o \in 0 .. 1 : o = Offset(place)
    BY PlacesUsed
  <2>2. 3 * (k - 1) + o + 1 \in 1 .. 3 * K /\ 3 * (k - 1) + o + 2 \in 1 .. 3 * K
    OBVIOUS
  <2> QED
    BY <2>1, <2>2
<1>3. \A x : Pixel(x, place, k - 1) = <<<<x[d][i], x[d][j]>>, <<x[e][i], x[e][j]>>, <<x[f][i], x[f][j]>>>>
  BY <1>1, <1>2, Zenon DEF Pixel
<1>4. \A c \in {d, e, f} : a[c][i] = b[c][i] /\ a[c][j] = b[c][j]
  OBVIOUS
<1> QED
  BY <1>3, <1>4

LEMMA MadeNext ==
  ASSUME NumChannels = 4, NEW w, NEW q, NEW r, NEW m, NEW ci, Arrived(w, q, r, m, ci),
         NEW K \in Nat, 3 * K <= q, NEW o, Made(w, K, o), NEW v \in Words(4)
  PROVE  Made(Append(w, v), K, o)
<1> DEFINE u == Append(w, v)
<1>1. /\ q \in Nat /\ r \in 0 .. 3 /\ w \in Seq(Words(4))
      /\ \A c \in 0 .. 3 : SamplesIn(w, c) \in Seq(Int) /\ Len(SamplesIn(w, c)) = Lasting(q, r, c)
  BY DEF Arrived
<1>2. ASSUME NEW c \in 1 .. 4, NEW i \in 1 .. 3 * K PROVE Streams(w)[c][i] = Streams(u)[c][i]
  <2>1. PICK s : s = SamplesIn(w, c - 1)
    OBVIOUS
  <2>2. c - 1 \in 0 .. 3
    OBVIOUS
  <2>3. s \in Seq(Int) /\ Len(s) = Lasting(q, r, c - 1) /\ v.samp \in Int
    BY <1>1, <2>1, <2>2 DEF Words
  <2>4. i \in 1 .. Len(s)
    BY <1>1, <2>2, <2>3 DEF Lasting
  <2>5. SamplesIn(u, c - 1) \in {s, Append(s, v.samp)}
    <3>1. PICK d : d = c - 1
      OBVIOUS
    <3>2. SamplesIn(Append(w, v), d) =
            IF v.chID = d THEN Append(SamplesIn(w, d), v.samp) ELSE SamplesIn(w, d)
      BY <1>1, SamplesAppend
    <3> QED
      BY <2>1, <3>1, <3>2
  <2>6. Append(s, v.samp)[i] = s[i]
    BY <2>3, <2>4, AppendProperties
  <2>7. Streams(w)[c] = s /\ Streams(u)[c] = SamplesIn(u, c - 1)
    BY <2>1 DEF Streams
  <2> QED
    BY <2>5, <2>6, <2>7
<1> HIDE DEF u
<1>3. ASSUME NEW h \in F!HDUs, NEW k \in 1 .. K
      PROVE  Pixel(Streams(w), h - 1, k - 1) = Pixel(Streams(u), h - 1, k - 1)
  <2>1. h - 1 \in 0 .. 3
    BY DEF F!HDUs
  <2> QED
    BY <1>2, <2>1, PixelKept
<1>4. \A h \in F!HDUs : [k \in 1 .. K |-> Pixel(Streams(w), h - 1, k - 1)]
                          = [k \in 1 .. K |-> Pixel(Streams(u), h - 1, k - 1)]
  BY <1>3
<1> QED
  BY <1>4 DEF Made, u

Splits(z, x, y, K, m) ==
  /\ Len(x) = K /\ Len(y) = m /\ Len(z) = K + m
  /\ \A k \in 1 .. K : x[k] = z[k]
  /\ \A k \in 1 .. m : y[k] = z[K + k]

LEMMA PixelsJoined ==
  ASSUME NEW V, NEW K \in Nat, NEW m \in Nat, NEW x \in Seq(V), NEW y \in Seq(V), NEW z \in Seq(V),
         Splits(z, x, y, K, m)
  PROVE  x \o y = z
<1>0. /\ Len(x) = K /\ Len(y) = m /\ Len(z) = K + m
      /\ \A k \in 1 .. K : x[k] = z[k]
      /\ \A k \in 1 .. m : y[k] = z[K + k]
  BY DEF Splits
<1> DEFINE t == x \o y
<1>1. /\ t \in Seq(V) /\ Len(t) = K + m
      /\ \A i \in 1 .. K + m : t[i] = IF i <= K THEN x[i] ELSE y[i - K]
  BY <1>0, ConcatProperties
<1> HIDE DEF t
<1>2. ASSUME NEW i \in 1 .. K + m PROVE t[i] = z[i]
  <2>1. CASE i <= K
    BY <1>0, <1>1, <2>1
  <2>2. CASE ~(i <= K)
    <3>1. i - K \in 1 .. m /\ K + (i - K) = i
      BY <2>2
    <3> QED
      BY <1>0, <1>1, <2>2, <3>1
  <2> QED
    BY <2>1, <2>2
<1>3. t = z
  BY <1>0, <1>1, <1>2, SeqEqual
<1> QED
  BY <1>3 DEF t

(* A whole number of pixels is computed from what remains. *)
LEMMA PixelsTaken ==
  ASSUME NumChannels = 4, NEW w, NEW q, NEW r, NEW ci, NEW pv, Arrived(w, q, r, Len(pv), ci), Known(q, r) = 4,
         NEW K \in Nat, NEW m \in Nat, 3 * K + 3 * m <= q, 2 <= q - 3 * K,
         \A c \in 0 .. 3 : Lasting(q, r, c) - 3 * K < 3 * m + 3,
         Remains(w, q, r, K, pv), Made(w, K, outf), K + m <= job.nCols * job.nRows,
         NEW next, compute_pixel_value(pv, next)
  PROVE  phase' = next /\ Remains(w, q, r, K + m, pixelsVector') /\ Made(w, K + m, outf')
<1>1. /\ q \in Nat /\ r \in 0 .. 3 /\ pv \in Seq(Seq(Int)) /\ Len(pv) = 4
      /\ \A c \in 1 .. 4 : /\ Len(pv[c]) = Lasting(q, r, c - 1) - 3 * K
                           /\ \A i \in 1 .. Len(pv[c]) : pv[c][i] = SamplesIn(w, c - 1)[3 * K + i]
  BY DEF Arrived, Remains
<1>q. q \in Nat /\ r \in 0 .. 3
  BY DEF Arrived
<1>2. ASSUME NEW c \in 1 .. 4
      PROVE  2 <= Len(pv[c]) /\ 3 * m <= Len(pv[c]) /\ Len(pv[c]) < 3 * m + 3 /\ Len(pv[c]) \in Nat
  <2>1. PICK d \in 0 .. 3 : d = c - 1
    OBVIOUS
  <2>2. PICK l : l = Lasting(q, r, d) /\ l \in {q, q + 1}
    BY <1>1 DEF Lasting
  <2>3. PICK n : n = Len(pv[c]) /\ n = l - 3 * K
    BY <1>1, <2>1, <2>2
  <2>4. l - 3 * K < 3 * m + 3
    BY <2>1, <2>2
  <2>5. 2 <= n /\ 3 * m <= n /\ n < 3 * m + 3 /\ n \in Nat
    BY <1>q, <2>2, <2>3, <2>4, SMTT(30)
  <2> QED
    BY <2>3, <2>5
<1> DEFINE s == Streams(w)
<1>3. \A c \in 1 .. 4 : \A i \in 1 .. Len(pv[c]) : pv[c][i] = s[c][3 * K + i]
  BY <1>1 DEF Streams
<1> HIDE DEF s
<1>4. /\ outf \in Images(Noisy) /\ Counted(outf) /\ outf.pixExpected = job.nCols * job.nRows
      /\ \A h \in F!HDUs : outf.data[h] = [k \in 1 .. K |-> Pixel(s, h - 1, k - 1)]
  BY DEF Made, s
<1>5. \A h \in F!HDUs : outf.data[h] \in Seq(Noisy) /\ Len(outf.data[h]) = K
  <2>1. ASSUME NEW h \in F!HDUs PROVE outf.data[h] \in Seq(Noisy) /\ Len(outf.data[h]) = K
    <3>1. outf.data[h] \in Seq(Noisy)
      BY <1>4 DEF Images
    <3>2. DOMAIN outf.data[h] = 1 .. K
      BY <1>4, <2>1
    <3> QED
      BY <3>1, <3>2, LenProperties
  <2> QED
    BY <2>1
<1>6. \A h \in F!HDUs : outf.pixelCounts[h] + m <= outf.pixExpected
  BY <1>4, <1>5, SMTT(30) DEF Counted
<1>7. /\ phase' = next
      /\ outf' \in Images(Noisy) /\ Counted(outf') /\ outf'.pixExpected = outf.pixExpected
      /\ \A h \in F!HDUs : outf'.data[h] = outf.data[h] \o PixelsOf(pv, m)[h]
      /\ Unused(pv, m, pixelsVector')
  BY <1>1, <1>2, <1>4, <1>6, PixelsComputed
<1>8. Remains(w, q, r, K + m, pixelsVector')
  <2>1. PICK pw : pw = pixelsVector'
    OBVIOUS
  <2>2. /\ pw \in Seq(Seq(Int)) /\ Len(pw) = 4
        /\ \A c \in 1 .. 4 : /\ Len(pw[c]) = Len(pv[c]) - 3 * m
                             /\ \A i \in 1 .. Len(pw[c]) : pw[c][i] = pv[c][3 * m + i]
    BY <1>7, <2>1 DEF Unused
  <2>3. ASSUME NEW c \in 1 .. 4
        PROVE  /\ Len(pw[c]) = Lasting(q, r, c - 1) - 3 * (K + m)
               /\ \A i \in 1 .. Len(pw[c]) : pw[c][i] = SamplesIn(w, c - 1)[3 * (K + m) + i]
    <3>1. PICK l \in Nat : l = Len(pv[c])
      BY <1>2
    <3>2. PICK a : a = Lasting(q, r, c - 1) /\ a \in {q, q + 1}
      BY <1>q DEF Lasting
    <3>3. l = a - 3 * K /\ Len(pw[c]) = l - 3 * m
      BY <1>1, <2>2, <3>1, <3>2
    <3>4. l - 3 * m = a - 3 * (K + m)
      BY <1>1, <3>2, <3>3, SMTT(30)
    <3>5. ASSUME NEW i \in 1 .. Len(pw[c]) PROVE pw[c][i] = SamplesIn(w, c - 1)[3 * (K + m) + i]
      <4>1. 3 * m + i \in 1 .. l /\ 3 * K + (3 * m + i) = 3 * (K + m) + i
        BY <1>1, <3>1, <3>3, SMTT(30)
      <4>2. pw[c][i] = pv[c][3 * m + i]
        BY <2>2
      <4>3. pv[c][3 * m + i] = SamplesIn(w, c - 1)[3 * K + (3 * m + i)]
        BY <1>1, <3>1, <4>1
      <4> QED
        BY <4>1, <4>2, <4>3
    <3> QED
      BY <3>2, <3>3, <3>4, <3>5
  <2> QED
    BY <1>1, <2>1, <2>2, <2>3 DEF Remains
<1>9. ASSUME NEW h \in F!HDUs PROVE outf'.data[h] = [k \in 1 .. K + m |-> Pixel(s, h - 1, k - 1)]
  <2> DEFINE x == outf.data[h]
             y == PixelsOf(pv, m)[h]
             t == outf'.data[h]
             z == [k \in 1 .. K + m |-> Pixel(s, h - 1, k - 1)]
  <2>1. h \in 1 .. 4 /\ h - 1 \in 0 .. 3
    BY DEF F!HDUs
  <2>2. \A k \in 1 .. m : Pixel(pv, h - 1, k - 1) = Pixel(s, h - 1, (K + k) - 1)
    <3> SUFFICES ASSUME NEW k \in 1 .. m PROVE Pixel(pv, h - 1, k - 1) = Pixel(s, h - 1, (K + k) - 1)
      OBVIOUS
    <3>2. \A c \in 1 .. 4 : \A i \in 1 .. 3 * m : pv[c][i] = s[c][3 * K + i]
      <4> SUFFICES ASSUME NEW c \in 1 .. 4, NEW i \in 1 .. 3 * m PROVE pv[c][i] = s[c][3 * K + i]
        OBVIOUS
      <4>1. PICK l \in Nat : l = Len(pv[c]) /\ 3 * m <= l
        BY <1>2
      <4>2. i \in 1 .. l
        BY <4>1, SMTT(30)
      <4> QED
        BY <1>3, <4>1, <4>2
    <3>x. SameFrom(pv, s, K, m)
      BY <3>2 DEF SameFrom
    <3>3. SamePixels(pv, s, K, m)
      BY <3>x, SamePixel
    <3> QED
      BY <2>1, <3>3, Zenon DEF SamePixels
  <2>3. /\ y = [k \in 1 .. m |-> Pixel(pv, h - 1, k - 1)]
        /\ x = [k \in 1 .. K |-> Pixel(s, h - 1, k - 1)]
    BY <1>4, <2>1 DEF PixelsOf
  <2>4. t = x \o y
    BY <1>7
  <2>5. x \in Seq(Noisy) /\ Len(x) = K
    BY <1>5
  <2>6. y \in Seq(Noisy) /\ Len(y) = m
    <3>1. \A k \in 1 .. m : Pixel(pv, h - 1, k - 1) \in Noisy
      <4>1. ASSUME NEW c \in 1 .. 4, NEW i \in 1 .. 3 * m PROVE pv[c][i] \in Int
        <5>1. PICK l \in Nat : l = Len(pv[c]) /\ 3 * m <= l
          BY <1>2
        <5>2. i \in 1 .. l
          BY <5>1, SMTT(30)
        <5>3. pv[c] \in Seq(Int)
          BY <1>1, ElementOfSeq
        <5> QED
          BY <5>1, <5>2, <5>3, ElementOfSeq
      <4>2. PICK place \in 0 .. 3 : place = h - 1
        BY <2>1
      <4>3. \A k \in 1 .. m : Pixel(pv, place, k - 1) \in Noisy
        BY <4>1, PixelTyped
      <4> QED
        BY <4>2, <4>3
    <3> DEFINE V == Noisy
    <3>2. \A k \in 1 .. m : Pixel(pv, h - 1, k - 1) \in V
      BY <3>1
    <3> HIDE DEF V, y
    <3>3. y \in Seq(V) /\ Len(y) = m
      BY <2>3, <3>2
    <3> QED
      BY <3>3 DEF V
  <2> DEFINE V == Noisy
  <2>7. x \in Seq(V) /\ y \in Seq(V)
    BY <2>5, <2>6
  <2>8. \A k \in 1 .. K : x[k] \in V /\ x[k] = Pixel(s, h - 1, k - 1)
    BY <2>3, <2>5, ElementOfSeq
  <2>9. \A k \in 1 .. m : y[k] \in V /\ y[k] = Pixel(s, h - 1, (K + k) - 1)
    BY <2>2, <2>3, <2>6, ElementOfSeq
  <2> HIDE DEF x, y, t, V
  <2>10. z \in Seq(V) /\ Len(z) = K + m
    <3>1. ASSUME NEW k \in 1 .. K + m PROVE Pixel(s, h - 1, k - 1) \in V
      <4>1. CASE k <= K
        <5>1. k \in 1 .. K
          BY <4>1
        <5> QED
          BY <2>8, <5>1
      <4>2. CASE ~(k <= K)
        <5>1. k - K \in 1 .. m /\ K + (k - K) = k
          BY <4>2
        <5>2. y[k - K] = Pixel(s, h - 1, (K + (k - K)) - 1) /\ y[k - K] \in V
          BY <2>9, <5>1
        <5> QED
          BY <5>1, <5>2
      <4> QED
        BY <4>1, <4>2
    <3>2. K + m \in Nat
      OBVIOUS
    <3> QED
      BY <3>1, <3>2
  <2>11. /\ \A k \in 1 .. K : z[k] = Pixel(s, h - 1, k - 1)
         /\ \A k \in 1 .. m : z[K + k] = Pixel(s, h - 1, (K + k) - 1)
    OBVIOUS
  <2>z. z = [k \in 1 .. K + m |-> Pixel(s, h - 1, k - 1)]
    OBVIOUS
  <2> HIDE DEF z
  <2>12. x \o y = z
    <3>1. \A k \in 1 .. K : x[k] = z[k]
      BY <2>8, <2>11
    <3>2. \A k \in 1 .. m : y[k] = z[K + k]
      BY <2>9, <2>11
    <3>3. Len(x) = K /\ Len(y) = m
      BY <2>5, <2>6
    <3>4. Splits(z, x, y, K, m)
      BY <2>10, <3>1, <3>2, <3>3 DEF Splits
    <3> QED
      BY <2>7, <2>10, <3>4, PixelsJoined
  <2> QED
    BY <2>4, <2>12, <2>z DEF t
<1> QED
  BY <1>4, <1>7, <1>8, <1>9 DEF Made, s

(* A word of the loop, with the pixels that it completes. *)
LEMMA InterleavedTurn ==
  ASSUME NumChannels = 4, phase = "read", job.nCols \in Nat, InStep,
         NEW P \in Nat, P = job.nCols * job.nRows,
         NEW w, NEW q, NEW r, NEW ci, NEW pv, Arrived(w, q, r, Len(pv), ci), (4 * q + r) + 1 <= 4 * (3 * P),
         NEW K, Interleaved(w, q, r, K, pv, outf),
         NEW v \in Words(4), v.chID = r, NEW qq, NEW rr, NextRound(q, r, qq, rr), NEW n, n = Known(qq, rr),
         NEW d, Arrived(Append(w, v), qq, rr, n, d), NEW pw, Placed(pv, r, n, v.samp, pw),
         IF Len(pw[1]) > job.nCols
         THEN compute_pixel_value(pw, "read")
         ELSE pixelsVector' = pw /\ UNCHANGED <<outf, phase>>
  PROVE  phase' = "read" /\ \E L : Interleaved(Append(w, v), qq, rr, L, pixelsVector', outf')
<1> DEFINE u == Append(w, v)
           a == job.nCols
<1>1. /\ q \in Nat /\ r \in 0 .. 3 /\ K \in Nat /\ 3 * K <= q /\ a \in Nat
      /\ K > 0 => 3 * K < Lasting(q, r, 0)
      /\ Lasting(q, r, 0) - 3 * K <= a
      /\ Remains(w, q, r, K, pv) /\ Made(w, K, outf)
  BY DEF Arrived, Interleaved
<1>a. a = job.nCols
  OBVIOUS
<1>u. u = Append(w, v)
  OBVIOUS
<1> HIDE DEF a, u
<1>2. Remains(u, qq, rr, K, pw) /\ Made(u, K, outf)
  BY <1>1, <1>u, RemainsNext, MadeNext
<1>3. /\ qq \in Nat /\ rr \in 0 .. 3 /\ n \in 1 .. 4
      /\ \A c \in 0 .. 3 : Lasting(qq, rr, c) = IF c = r THEN Lasting(q, r, c) + 1 ELSE Lasting(q, r, c)
  BY <1>1, Rounds, SMTT(30)
<1>4. Lasting(q, r, 0) \in Nat /\ Lasting(qq, rr, 0) \in Nat /\ q <= qq
  BY <1>1, <1>3 DEF Lasting, NextRound
<1>5. Lasting(qq, rr, 0) = IF 0 = r THEN Lasting(q, r, 0) + 1 ELSE Lasting(q, r, 0)
  BY <1>3
<1>6. Len(pw[1]) = Lasting(qq, rr, 0) - 3 * K /\ pw \in Seq(Seq(Int)) /\ Len(pw) = n
  <2>1. 1 \in 1 .. Known(qq, rr) /\ 1 - 1 = 0
    BY <1>3, SMTT(30)
  <2> QED
    BY <1>2, <2>1 DEF Remains
<1>7. CASE ~(Len(pw[1]) > a)
  <2>1. pixelsVector' = pw /\ UNCHANGED <<outf, phase>>
    BY <1>7, <1>a
  <2>2. Lasting(qq, rr, 0) - 3 * K <= a /\ 3 * K <= qq /\ (K > 0 => 3 * K < Lasting(qq, rr, 0))
    <3>1. PICK k, l, z : k = Lasting(q, r, 0) /\ l = Lasting(qq, rr, 0) /\ z = Len(pw[1])
      OBVIOUS
    <3>0. k \in Nat /\ l \in Nat /\ z = l - 3 * K /\ ~(z > a) /\ a \in Nat /\ K \in Nat
      BY <1>1, <1>4, <1>6, <1>7, <3>1
    <3>i. l \in {k, k + 1}
      BY <1>5, <3>1
    <3>2. k \in Nat /\ l \in Nat /\ k <= l /\ l - 3 * K <= a
      BY <3>0, <3>i
    <3>3. 3 * K <= qq /\ (K > 0 => 3 * K < k)
      BY <1>1, <1>3, <1>4, <3>1
    <3>4. K > 0 => 3 * K < l
      BY <1>1, <3>2, <3>3
    <3> QED
      BY <3>1, <3>2, <3>3, <3>4
  <2>3. Interleaved(u, qq, rr, K, pw, outf)
    BY <1>1, <1>2, <1>a, <2>2 DEF Interleaved
  <2> QED
    BY <1>u, <2>1, <2>3
<1>8. CASE Len(pw[1]) > a
  <2>1. compute_pixel_value(pw, "read")
    BY <1>8, <1>a
  <2>2. r = 0
    BY <1>1, <1>4, <1>5, <1>6, <1>8, SMTT(30)
  <2>3. qq = q /\ rr = 1
    BY <2>2 DEF NextRound
  <2>4. Lasting(q, r, 0) = q /\ Lasting(qq, rr, 0) = q + 1 /\ \A c \in 0 .. 3 : Lasting(qq, rr, c) \in {q, q + 1}
    BY <1>1, <2>2, <2>3 DEF Lasting
  <2>5. q - 3 * K = a
    BY <1>1, <1>6, <1>8, <2>4, SMTT(30)
  <2> DEFINE m == a \div 3
  <2>6. /\ m \in Int /\ a \in Nat /\ a > 1
        /\ \E rest \in 0 .. 1 : a = 3 * m + rest
    <3>1. m \in Int /\ \E rest \in 0 .. 2 : a = 3 * m + rest
      <4>1. a \in Int
        BY <1>1
      <4> QED
        BY <4>1, Thirds, Zenon
    <3>2. a % 3 # 2 /\ a > 1
      BY <1>a DEF InStep
    <3> HIDE DEF m
    <3>3. PICK rest \in 0 .. 2 : a = 3 * m + rest
      BY <3>1
    <3>4. rest # 2
      <4> SUFFICES ASSUME a = 3 * m + 2 PROVE a % 3 = 2
        BY <3>2, <3>3
      <4>1. \A k \in Int : (3 * k + 2) % 3 = 2
        OBVIOUS
      <4> QED
        BY <3>1, <4>1
    <3>5. rest \in 0 .. 1
      BY <3>4
    <3> QED
      BY <1>1, <3>1, <3>2, <3>3, <3>5
  <2> HIDE DEF m
  <2>7. PICK rest \in 0 .. 1 : a = 3 * m + rest
    BY <2>6
  <2>8. m \in Nat /\ m > 0 /\ 3 * K + 3 * m <= q /\ 2 <= q - 3 * K /\ K + m <= P
    <3>1. m \in Nat /\ m > 0
      BY <2>6, <2>7
    <3>2. 3 * K + 3 * m <= q /\ 2 <= q - 3 * K
      BY <1>1, <2>5, <2>6, <2>7
    <3>3. q < 3 * P
      BY <1>1, <2>2
    <3> QED
      BY <1>1, <3>1, <3>2, <3>3, SMTT(30)
  <2>9. \A c \in 0 .. 3 : Lasting(qq, rr, c) - 3 * K < 3 * m + 3
    <3> SUFFICES ASSUME NEW c \in 0 .. 3 PROVE Lasting(qq, rr, c) - 3 * K < 3 * m + 3
      OBVIOUS
    <3>1. PICK l \in {q, q + 1} : l = Lasting(qq, rr, c)
      BY <2>4
    <3>2. l - 3 * K < 3 * m + 3
      BY <1>1, <2>5, <2>7, <2>8, SMTT(30)
    <3> QED
      BY <3>1, <3>2
  <2>10. Known(qq, rr) = 4
    <3>1. q # 0
      BY <1>1, <2>5, <2>6
    <3> QED
      BY <2>3, <3>1 DEF Known
  <2>11. Arrived(u, qq, rr, Len(pw), d) /\ 3 * K + 3 * m <= qq /\ 2 <= qq - 3 * K
    BY <1>6, <1>u, <2>3, <2>8
  <2>12. phase' = "read" /\ Remains(u, qq, rr, K + m, pixelsVector') /\ Made(u, K + m, outf')
    BY <1>1, <1>2, <2>1, <2>8, <2>9, <2>10, <2>11, PixelsTaken
  <2>13. /\ K + m \in Nat /\ 3 * (K + m) <= qq /\ 3 * (K + m) < Lasting(qq, rr, 0)
         /\ Lasting(qq, rr, 0) - 3 * (K + m) <= a
    <3>1. K + m \in Nat /\ 3 * (K + m) <= q
      BY <1>1, <2>8
    <3>2. (q + 1) - 3 * (K + m) <= 2
      BY <1>1, <2>5, <2>7, <2>8
    <3>3. 3 * (K + m) < q + 1 /\ (q + 1) - 3 * (K + m) <= a
      BY <1>1, <2>6, <3>1, <3>2
    <3>4. Lasting(qq, rr, 0) = q + 1 /\ qq = q
      BY <2>3, <2>4
    <3> QED
      BY <3>1, <3>3, <3>4
  <2>14. Interleaved(u, qq, rr, K + m, pixelsVector', outf')
    BY <1>a, <2>12, <2>13 DEF Interleaved
  <2> QED
    BY <1>u, <2>12, <2>14
<1> QED
  BY <1>7, <1>8

LEMMA ThirdOfAll ==
  \A K, m, P, q \in Nat :
    m > 0 /\ K + m = P /\ q = 3 * P
      => 3 * K + 3 * m <= q /\ 2 <= q - 3 * K /\ q - 3 * K < 3 * m + 3 /\ K + m <= P
OBVIOUS

(* What is left at the end are whole pixels. *)
LEMMA InterleavedEnd ==
  ASSUME NumChannels = 4, NEW P \in Nat, P = job.nCols * job.nRows,
         NEW w, NEW q, NEW r, NEW ci, NEW pv, Arrived(w, q, r, Len(pv), ci), 4 * q + r = 4 * (3 * P),
         NEW K, Interleaved(w, q, r, K, pv, outf), NEW next, compute_pixel_value(pv, next)
  PROVE  /\ phase' = next /\ outf' \in Images(Noisy)
         /\ \A h \in F!HDUs : outf'.data[h] = [k \in 1 .. P |-> Pixel(Streams(w), h - 1, k - 1)]
<1>1. /\ q \in Nat /\ r \in 0 .. 3 /\ K \in Nat /\ 3 * K <= q
      /\ K > 0 => 3 * K < Lasting(q, r, 0)
      /\ Remains(w, q, r, K, pv) /\ Made(w, K, outf)
  BY DEF Arrived, Interleaved
<1>2. r = 0 /\ q = 3 * P
  BY <1>1, SMTT(30)
<1>3. \A c \in 0 .. 3 : Lasting(q, r, c) = q
  BY <1>1, <1>2, SMTT(30) DEF Lasting
<1>4. CASE P = 0
  <2>1. q = 0 /\ K = 0 /\ Known(q, r) = 0
    BY <1>1, <1>2, <1>4 DEF Known
  <2>2. pv \in Seq(Seq(Int)) /\ Len(pv) = 0
    BY <1>1, <2>1 DEF Remains
  <2>3. pv = << >>
    BY <2>2, EmptySeq
  <2>4. outf \in Images(Noisy) /\ Counted(outf)
    BY <1>1 DEF Made
  <2>5. phase' = next /\ outf' \in Images(Noisy) /\ \A h \in F!HDUs : outf'.data[h] = outf.data[h]
    BY <2>3, <2>4, NothingComputed
  <2>6. \A h \in F!HDUs : outf.data[h] = [k \in 1 .. P |-> Pixel(Streams(w), h - 1, k - 1)]
    BY <1>1, <1>4, <2>1 DEF Made
  <2> QED
    BY <2>5, <2>6
<1>5. CASE P # 0
  <2>1. Known(q, r) = 4
    BY <1>2, <1>5 DEF Known
  <2>2. K < P
    BY <1>1, <1>2, <1>3, <1>5, SMTT(30)
  <2>3. PICK m \in Nat : m = P - K /\ m > 0 /\ K + m = P
    BY <1>1, <2>2, SMTT(30)
  <2>4. 3 * K + 3 * m <= q /\ 2 <= q - 3 * K /\ q - 3 * K < 3 * m + 3 /\ K + m <= P
    <3>1. q \in Nat /\ K \in Nat /\ q = 3 * P
      BY <1>1, <1>2
    <3> QED
      BY <2>3, <3>1, ThirdOfAll, Zenon
  <2>5. \A c \in 0 .. 3 : Lasting(q, r, c) - 3 * K < 3 * m + 3
    BY <1>3, <2>4
  <2>6. K + m <= job.nCols * job.nRows
    BY <2>4
  <2>7. phase' = next /\ Made(w, K + m, outf')
    BY <1>1, <2>1, <2>4, <2>5, <2>6, PixelsTaken
  <2> QED
    BY <2>3, <2>7 DEF Made
<1> QED
  BY <1>4, <1>5

LEMMA LastRow ==
  ASSUME NEW a \in Int, NEW b \in Int, NEW k \in Int
  PROVE  (((b - 1) - k) - 1) * a = (a * b - 2 * a) - k * a
OBVIOUS

LEMMA ThirdIs ==
  ASSUME NEW n \in Nat, NEW z \in Int, NEW rest \in 0 .. 2, 3 * n + 2 = 3 * z + rest
  PROVE  z = n
OBVIOUS

(* All the readout is there, and its region is a part of it. *)
LEMMA CalibrationFits ==
  ASSUME NEW P \in Nat, P = job.nCols * job.nRows,
         job.nCols \in Nat, job.nRows \in Nat, job.regMaxCol \in Nat, job.regMaxRow \in Nat,
         job.regMaxCol < job.nCols, job.regMaxRow < job.nRows,
         NEW w, NEW q, NEW r, NEW ci, NEW pv, Arrived(w, q, r, Len(pv), ci), 4 * q + r = 4 * (3 * P),
         Remains(w, q, r, 0, pv)
  PROVE  pv = << >> \/ CalibrateInBounds(pv)
<1>1. q \in Nat /\ r \in 0 .. 3 /\ pv \in Seq(Seq(Int)) /\ Len(pv) = Known(q, r)
  BY DEF Arrived, Remains
<1>2. r = 0 /\ q = 3 * P
  BY <1>1, SMTT(30)
<1>3. CASE P = 0
  <2>1. Len(pv) = 0
    BY <1>1, <1>2, <1>3 DEF Known
  <2> QED
    BY <1>1, <2>1, EmptySeq
<1>4. CASE P # 0
  <2>1. Len(pv) = 4 /\ Known(q, r) = 4
    BY <1>1, <1>2, <1>4, SMTT(30) DEF Known
  <2>2. \A c \in 1 .. 4 : Len(pv[c]) = q
    <3>1. \A c \in 1 .. 4 : Lasting(q, r, c - 1) = q
      BY <1>1, <1>2, SMTT(30) DEF Lasting
    <3>2. PICK z : z = 3 * 0
      OBVIOUS
    <3>3. \A c \in 1 .. 4 : Len(pv[c]) = Lasting(q, r, c - 1) - z
      BY <2>1, <3>2, Zenon DEF Remains
    <3>4. q - z = q
      BY <1>1, <3>2
    <3> QED
      BY <3>1, <3>3, <3>4
  <2>3. (Len(pv[1]) + 2) \div 3 = P
    <3> DEFINE z == (q + 2) \div 3
    <3>1. z \in Int /\ \E rest \in 0 .. 2 : q + 2 = 3 * z + rest
      <4>1. q + 2 \in Int
        BY <1>1
      <4> QED
        BY <4>1, Thirds, Zenon
    <3>2. Len(pv[1]) = q
      BY <2>2
    <3>3. (Len(pv[1]) + 2) \div 3 = z
      BY <3>2
    <3> HIDE DEF z
    <3>4. z = P
      <4>1. PICK rest \in 0 .. 2 : 3 * P + 2 = 3 * z + rest
        BY <1>2, <3>1, Zenon
      <4> QED
        BY <3>1, <4>1, ThirdIs, Zenon
    <3> QED
      BY <3>3, <3>4
  <2>4. job.regMaxCol + (job.regMaxRow - 1) * job.nCols < P
    <3> DEFINE a == job.nCols
               b == job.nRows
               x == job.regMaxCol
               y == job.regMaxRow
               k == (b - 1) - y
    <3>1. a \in Nat /\ b \in Nat /\ x \in Nat /\ y \in Nat /\ x < a /\ y < b /\ k \in Nat /\ P = a * b
      BY SMTT(30)
    <3>k. y = (b - 1) - k
      BY <3>1, SMTT(30)
    <3> HIDE DEF a, b, x, y, k
    <3>2. k * a \in Nat
      BY <3>1
    <3>3. (y - 1) * a = (P - 2 * a) - k * a
      <4>1. (((b - 1) - k) - 1) * a = (a * b - 2 * a) - k * a
        BY <3>1, LastRow
      <4> QED
        BY <3>1, <3>k, <4>1
    <3>4. x + (y - 1) * a < P
      <4> DEFINE s == k * a
                 t == (y - 1) * a
      <4>1. s \in Nat /\ t = (P - 2 * a) - s
        BY <3>2, <3>3
      <4> HIDE DEF s, t
      <4>2. x + t < P
        BY <3>1, <4>1
      <4> QED
        BY <4>2 DEF t
    <3> QED
      BY <3>4 DEF a, x, y
  <2>5. ASSUME NEW place \in 0 .. Len(pv) - 1 PROVE Reaches(pv, place, P)
    <3>1. place \in 0 .. 3 /\ place + 1 \in 1 .. 4
      BY <2>1
    <3>2. ASSUME NEW p \in {place, Others(place)[1], Others(place)[2]}
          PROVE  p < Len(pv) /\ Len(pv[p + 1]) >= 3 * (P - 1) + Offset(place) + 2
      <4>1. p \in 0 .. 3 /\ p + 1 \in 1 .. 4
        BY <3>1, <3>2, PlacesUsed
      <4>2. PICK o \in 0 .. 1 : o = Offset(place)
        BY <3>1, PlacesUsed
      <4>3. Len(pv[p + 1]) = 3 * P /\ p < Len(pv)
        BY <1>2, <2>1, <2>2, <4>1, SMTT(30)
      <4>4. 3 * P >= 3 * (P - 1) + o + 2
        BY SMTT(30)
      <4> QED
        BY <4>2, <4>3, <4>4
    <3> QED
      BY <3>2 DEF Reaches
  <2>6. Len(pv) <= 4
    BY <2>1
  <2> QED
    BY <2>3, <2>4, <2>5, <2>6 DEF CalibrateInBounds
<1> QED
  BY <1>3, <1>4

-----------------------------------------------------------------------------
(* A readout of the size expected, with nothing missing.                   *)

Expecting ==
  /\ NumChannels = 4 /\ AsExpected /\ job.mode \in Placing
  /\ job.mode = "interleaving" => InStep

Sized == job.mode \in {"interleaving", "calibrate"}

PixelInv ==
  Expecting =>
    /\ phase # "undefined" /\ (phase = "compress" => job.mode = "smart")
    /\ phase = "read" =>
         \E w, q, r :
           /\ HandedOut(w) /\ Arrived(w, q, r, Len(pixelsVector), channelIndex)
           /\ job.mode = "interleaving" => \E K : Interleaved(w, q, r, K, pixelsVector, outf)
           /\ job.mode = "calibrate" => Remains(w, q, r, 0, pixelsVector)
    /\ phase = "done" /\ job.mode = "interleaving" =>
         /\ outf \in Images(Noisy)
         /\ \A h \in F!HDUs :
              outf.data[h] = [k \in 1 .. job.nCols * job.nRows |-> Pixel(Streams(Recorded), h - 1, k - 1)]

LEMMA StillExpecting == UNCHANGED <<files, job>> => (Expecting' <=> Expecting) /\ Recorded' = Recorded
<1> SUFFICES ASSUME UNCHANGED <<files, job>> PROVE (Expecting' <=> Expecting) /\ Recorded' = Recorded
  OBVIOUS
<1>1. Recorded' = Recorded
  BY DEF Recorded
<1>2. Sent' = Sent
  BY DEF Sent
<1>3. AsExpected' <=> AsExpected
  BY <1>1, <1>2 DEF AsExpected
<1> QED
  BY <1>1, <1>3 DEF Expecting, InStep

LEMMA ThreeTimes == \A a, b \in Nat : (3 * a) * b = 3 * (a * b) /\ a * b \in Nat
OBVIOUS

LEMMA ExpectedSize ==
  ASSUME JobInv, Expecting
  PROVE  /\ Len(Recorded) = 4 * job.nsamp /\ job.nsamp \in Nat /\ job.nch = 4
         /\ \A n \in 1 .. Len(Recorded) : Recorded[n] = Word(4, n - 1)
         /\ job.nCols \in Nat /\ job.nRows \in Nat /\ job.nCols * job.nRows \in Nat
         /\ Sized => job.nsamp = 3 * (job.nCols * job.nRows)
<1>1. /\ job.nch = 4 /\ job.nsamp \in Nat /\ job.nCols \in Nat /\ job.nRows \in Nat
      /\ Sized => job.nsamp = (3 * job.nCols) * job.nRows
      /\ Recorded = Sent
  BY DEF JobInv, Expecting, AsExpected, Sized
<1>2. Sent = [n \in 1 .. 4 * job.nsamp |-> Word(4, n - 1)]
  BY <1>1 DEF Sent
<1>3. 4 * job.nsamp \in Nat
  BY <1>1
<1>4. Len(Recorded) = 4 * job.nsamp
  BY <1>1, <1>2, <1>3
<1>5. \A n \in 1 .. Len(Recorded) : Recorded[n] = Word(4, n - 1)
  BY <1>1, <1>2, <1>4
<1>6. (3 * job.nCols) * job.nRows = 3 * (job.nCols * job.nRows) /\ job.nCols * job.nRows \in Nat
  BY <1>1, ThreeTimes, Zenon
<1> QED
  BY <1>1, <1>4, <1>5, <1>6

LEMMA Remainder == \A q \in Nat : \A r \in 0 .. 3 : (4 * q + r) % 4 = r
OBVIOUS

LEMMA ExpectedNext ==
  ASSUME Inv, ImageInv, PlacedInv, Expecting, HasWord, PopWord, UNCHANGED job,
         NEW w, HandedOut(w), NEW q \in Nat, NEW r \in 0 .. 3, Len(w) = 4 * q + r,
         NEW v, v = NextWord
  PROVE  /\ v \in Words(4) /\ v.chID = r
         /\ HandedOut(Append(w, v))'
         /\ Sized => (4 * q + r) + 1 <= 4 * (3 * (job.nCols * job.nRows))
<1>1. ReaderInv /\ ReaderPlace /\ JobInv
  BY DEF Inv, ImageInv
<1>2. Len(w) + 1 <= Len(Recorded) /\ NextWord = Recorded[Len(w) + 1] /\ Len(w) \in Nat
  BY <1>1, NextIsRecorded
<1>3. /\ Len(Recorded) = 4 * job.nsamp /\ job.nsamp \in Nat /\ job.nch = 4
      /\ \A n \in 1 .. Len(Recorded) : Recorded[n] = Word(4, n - 1)
      /\ Sized => job.nsamp = 3 * (job.nCols * job.nRows)
  BY <1>1, ExpectedSize
<1>4. NextWord \in Words(job.nch) /\ \A u, y : HandedOut(u) /\ y = NextWord => HandedOut(Append(u, y))'
  BY <1>1, PassedPopWord
<1>5. NextWord.chID = r
  <2> DEFINE l == Len(w)
  <2>1. l \in Nat /\ l = 4 * q + r /\ NextWord = Recorded[l + 1] /\ l + 1 <= Len(Recorded)
    BY <1>2
  <2> HIDE DEF l
  <2>2. l + 1 \in 1 .. Len(Recorded) /\ (l + 1) - 1 = l
    BY <1>3, <2>1
  <2>3. NextWord = Word(4, l)
    BY <1>3, <2>1, <2>2
  <2>4. l % 4 = r
    BY <2>1, Remainder
  <2> QED
    BY <2>3, <2>4 DEF Word
<1>6. Sized => (4 * q + r) + 1 <= 4 * (3 * (job.nCols * job.nRows))
  BY <1>2, <1>3
<1>7. HandedOut(Append(w, v))'
  BY <1>4
<1> QED
  BY <1>3, <1>4, <1>5, <1>6, <1>7

LEMMA ExpectedAll ==
  ASSUME Inv, ImageInv, Expecting, rd.end, NEW w, HandedOut(w)
  PROVE  w = Recorded /\ (Sized => Len(w) = 4 * (3 * (job.nCols * job.nRows)))
<1>1. rd.buffer = << >>
  BY DEF ImageInv, ReaderPlace
<1>2. w = Recorded
  BY <1>1, ConcatEmptySeq DEF HandedOut, Passed
<1>3. /\ Len(Recorded) = 4 * job.nsamp
      /\ Sized => job.nsamp = 3 * (job.nCols * job.nRows)
  BY ExpectedSize DEF Inv
<1> QED
  BY <1>2, <1>3

LEMMA PixelInit == ASSUME Init PROVE PixelInv
<1> SUFFICES ASSUME Expecting
             PROVE  \E w, q, r :
                      /\ HandedOut(w) /\ Arrived(w, q, r, Len(pixelsVector), channelIndex)
                      /\ job.mode = "interleaving" => \E K : Interleaved(w, q, r, K, pixelsVector, outf)
                      /\ job.mode = "calibrate" => Remains(w, q, r, 0, pixelsVector)
  BY DEF PixelInv, Init
<1>1. JobInv /\ ReaderInv /\ rd = NewReader /\ job.nCols \in Nat /\ job.nRows \in Nat /\ job.nCols * job.nRows \in Nat
  BY InitInv, ExpectedSize DEF Init, Inv
<1>2. PICK e : e = << >>
  OBVIOUS
<1>3. HandedOut(e)
  BY <1>1, <1>2, PassedFresh
<1>4. pixelsVector = e /\ channelIndex = e /\ Len(e) = 0 /\ e \in Seq(Seq(Int)) /\ e \in Seq(Noisy)
  BY <1>2, EmptySeq DEF Init
<1>5. Arrived(e, 0, 0, Len(pixelsVector), channelIndex)
  BY <1>2, <1>4, ArrivedFirst
<1>6. Lasting(0, 0, 0) = 0 /\ Known(0, 0) = 0
  BY DEF Lasting, Known
<1>7. Remains(e, 0, 0, 0, pixelsVector)
  BY <1>4, <1>6 DEF Remains
<1>8. ASSUME job.mode = "interleaving" PROVE Interleaved(e, 0, 0, 0, pixelsVector, outf)
  <2>1. outf = F!create_img(job.nCols, job.nRows)
    BY <1>8 DEF Init, NewImage
  <2>2. /\ outf \in Images(Noisy) /\ Counted(outf) /\ outf.pixExpected = job.nCols * job.nRows
        /\ \A h \in F!HDUs : outf.data[h] = e
    BY <1>1, <1>2, <1>4, <2>1 DEF F!create_img, Images, Counted
  <2>3. \A h \in F!HDUs : e = [k \in 1 .. 0 |-> Pixel(Streams(e), h - 1, k - 1)]
    BY <1>2
  <2>4. Made(e, 0, outf)
    BY <2>2, <2>3 DEF Made
  <2>5. 0 \in Nat /\ 3 * 0 <= 0 /\ 0 - 3 * 0 <= job.nCols
    BY <1>1
  <2> QED
    BY <1>6, <1>7, <2>4, <2>5 DEF Interleaved
<1> QED
  BY <1>3, <1>5, <1>7, <1>8

(* What a loop has of the words, before and after a word of it. *)
LEMMA ExpectedWord ==
  ASSUME Inv, ImageInv, PlacedInv, PixelInv, Expecting,
         NEW mode \in Placing, NEW value \in Int, PlaceWord(mode, value), NEW v, v = NextWord,
         NEW pw, pw = VectorWith(v, value)
  PROVE  \E w, q, r, qq, rr, n :
           /\ Arrived(w, q, r, Len(pixelsVector), channelIndex)
           /\ job.mode = "interleaving" => \E K : Interleaved(w, q, r, K, pixelsVector, outf)
           /\ job.mode = "calibrate" => Remains(w, q, r, 0, pixelsVector)
           /\ v \in Words(4) /\ v.chID = r /\ NextRound(q, r, qq, rr) /\ n = Known(qq, rr)
           /\ Sized => (4 * q + r) + 1 <= 4 * (3 * (job.nCols * job.nRows))
           /\ Arrived(Append(w, v), qq, rr, n, channelIndex')
           /\ HandedOut(Append(w, v))'
           /\ n \in 1 .. 4 /\ Placed(pixelsVector, r, n, value, pw)
<1>1. phase = "read" /\ HasWord /\ PopWord /\ UNCHANGED job /\ channelIndex' = PlacesWith(v)
  BY DEF PlaceWord, InLoop
<1>2. PICK w, q, r :
           /\ HandedOut(w) /\ Arrived(w, q, r, Len(pixelsVector), channelIndex)
           /\ job.mode = "interleaving" => \E K : Interleaved(w, q, r, K, pixelsVector, outf)
           /\ job.mode = "calibrate" => Remains(w, q, r, 0, pixelsVector)
  BY <1>1 DEF PixelInv
<1>3. q \in Nat /\ r \in 0 .. 3 /\ Len(w) = 4 * q + r
  BY <1>2 DEF Arrived
<1>4. /\ v \in Words(4) /\ v.chID = r /\ HandedOut(Append(w, v))'
      /\ Sized => (4 * q + r) + 1 <= 4 * (3 * (job.nCols * job.nRows))
  BY <1>1, <1>2, <1>3, ExpectedNext
<1>5. PICK qq, rr : NextRound(q, r, qq, rr)
  <2>1. CASE r = 3
    BY <2>1 DEF NextRound
  <2>2. CASE r # 3
    BY <2>2 DEF NextRound
  <2> QED
    BY <2>1, <2>2
<1>6. PICK n : n = Known(qq, rr)
  OBVIOUS
<1>7. pixelsVector \in Seq(Seq(Int))
  BY DEF PlacedInv, Ordered
<1>8. /\ Arrived(Append(w, v), qq, rr, n, PlacesWith(v))
      /\ n \in 1 .. 4 /\ Placed(pixelsVector, r, n, value, VectorWith(v, value))
  BY <1>2, <1>4, <1>5, <1>6, <1>7, ArrivedNext
<1> QED
  BY <1>1, <1>2, <1>4, <1>5, <1>6, <1>8

LEMMA InterleavedThen ==
  ASSUME UNCHANGED job, NEW w, NEW q, NEW r, NEW K, NEW pv, NEW o, Interleaved(w, q, r, K, pv, o)
  PROVE  Interleaved(w, q, r, K, pv, o)'
BY DEF Interleaved, Made

LEMMA PixelStep == ASSUME Inv, ImageInv, PlacedInv, PixelInv, [Next]_vars PROVE PixelInv'
<1> SUFFICES ASSUME Expecting' PROVE PixelInv'
  BY SMTT(30) DEF PixelInv
<1>1. ASSUME UNCHANGED vars \/ ~readOldDatFiles
      PROVE  UNCHANGED <<files, job>>
  BY <1>1 DEF Next, vars, readerVars, Read, FitsWord, FitsEnd, FitsLeft, SaveCounts, DeleteDats, CompressFits,
              MisplaceWord, InterleavingWord, InterleavingEnd, SmartWord, SmartEnd, RawWord, RawEnd,
              CalibrateWord, CalibrateEnd, PlaceWord, Kill, InLoop, AtEnd, PopWord, NextFile, ReadPacket
<1>2. ~readOldDatFiles
  BY DEF readOldDatFiles, Expecting, Placing, Inv, JobInv
<1>3. /\ UNCHANGED <<files, job>> /\ Expecting /\ Recorded' = Recorded /\ job.mode \in Placing
      /\ NumChannels = 4 /\ (job.mode = "interleaving" => InStep)
      /\ ReaderInv /\ ReaderPlace /\ JobInv
      /\ job.nCols \in Nat /\ job.nRows \in Nat /\ job.nCols * job.nRows \in Nat
  <2>1. UNCHANGED <<files, job>>
    BY <1>1, <1>2
  <2>2. Expecting /\ Recorded' = Recorded
    BY <2>1, StillExpecting
  <2>3. ReaderInv /\ ReaderPlace /\ JobInv
    BY DEF Inv, ImageInv
  <2> QED
    BY <2>1, <2>2, <2>3, ExpectedSize DEF Expecting
<1>4. phase # "undefined"
  BY <1>3 DEF PixelInv
<1>5. ASSUME phase' = "read",
             NEW w, NEW q, NEW r, HandedOut(w)', Arrived(w, q, r, Len(pixelsVector'), channelIndex'),
             job.mode = "interleaving" => \E K : Interleaved(w, q, r, K, pixelsVector', outf'),
             job.mode = "calibrate" => Remains(w, q, r, 0, pixelsVector')
      PROVE  PixelInv'
  <2>1. job.mode = "interleaving" => \E K : Interleaved(w, q, r, K, pixelsVector, outf)'
    <3> SUFFICES ASSUME job.mode = "interleaving" PROVE \E K : Interleaved(w, q, r, K, pixelsVector, outf)'
      OBVIOUS
    <3>1. PICK K, pv, o : Interleaved(w, q, r, K, pv, o) /\ pv = pixelsVector' /\ o = outf'
      BY <1>5
    <3>2. Interleaved(w, q, r, K, pv, o)'
      BY <1>3, <3>1, InterleavedThen
    <3> QED
      BY <3>1, <3>2
  <2> QED
    BY <1>3, <1>5, <2>1 DEF PixelInv
<1>6. ASSUME phase' \notin {"read", "done", "undefined"}, phase' = "compress" => job.mode = "smart"
      PROVE  PixelInv'
  BY <1>3, <1>6 DEF PixelInv
<1>7. CASE Read
  <2>1. UNCHANGED <<job, phase, imageVars, diskVars>> /\ phase = "read" /\ \A u : HandedOut(u) => HandedOut(u)'
    BY <1>3, <1>7, PassedNextFile, PassedReadPacket DEF Read
  <2>2. UNCHANGED <<pixelsVector, channelIndex, outf>>
    BY <2>1 DEF imageVars
  <2>3. PICK w, q, r :
           /\ HandedOut(w) /\ Arrived(w, q, r, Len(pixelsVector), channelIndex)
           /\ job.mode = "interleaving" => \E K : Interleaved(w, q, r, K, pixelsVector, outf)
           /\ job.mode = "calibrate" => Remains(w, q, r, 0, pixelsVector)
    BY <1>3, <2>1 DEF PixelInv
  <2>4. HandedOut(w)' /\ phase' = "read"
    BY <2>1, <2>3
  <2>5. /\ Arrived(w, q, r, Len(pixelsVector'), channelIndex')
        /\ job.mode = "interleaving" => \E K : Interleaved(w, q, r, K, pixelsVector', outf')
        /\ job.mode = "calibrate" => Remains(w, q, r, 0, pixelsVector')
    BY <2>2, <2>3
  <2> QED
    BY <1>5, <2>4, <2>5
<1>8. CASE InterleavingWord
  <2>1. PICK v, pw : v = NextWord /\ pw = VectorWith(v, v.samp)
    OBVIOUS
  <2>2. /\ PlaceWord("interleaving", v.samp) /\ job.mode = "interleaving" /\ phase = "read"
        /\ IF Len(pw[1]) > job.nCols
           THEN compute_pixel_value(pw, "read")
           ELSE pixelsVector' = pw /\ UNCHANGED <<outf, phase>>
    BY <1>8, <2>1, Zenon DEF InterleavingWord, PlaceWord, InLoop
  <2>3. v.samp \in Int
    <3>1. HasWord /\ PopWord
      BY <2>2 DEF PlaceWord, InLoop
    <3> QED
      BY <1>3, <2>1, <3>1, NextWordTyped
  <2>4. PICK w, q, r, qq, rr, n :
           /\ Arrived(w, q, r, Len(pixelsVector), channelIndex)
           /\ \E K : Interleaved(w, q, r, K, pixelsVector, outf)
           /\ v \in Words(4) /\ v.chID = r /\ NextRound(q, r, qq, rr) /\ n = Known(qq, rr)
           /\ (4 * q + r) + 1 <= 4 * (3 * (job.nCols * job.nRows))
           /\ Arrived(Append(w, v), qq, rr, n, channelIndex')
           /\ HandedOut(Append(w, v))'
           /\ Placed(pixelsVector, r, n, v.samp, pw)
    <3>1. "interleaving" \in Placing /\ Sized
      BY <2>2 DEF Placing, Sized
    <3> QED
      BY <1>3, <2>1, <2>2, <2>3, <3>1, ExpectedWord
  <2>5. PICK K : Interleaved(w, q, r, K, pixelsVector, outf)
    BY <2>4
  <2>6. PICK ci, pv, d, P : ci = channelIndex /\ pv = pixelsVector /\ d = channelIndex' /\ P = job.nCols * job.nRows
    OBVIOUS
  <2>7. phase' = "read" /\ \E L : Interleaved(Append(w, v), qq, rr, L, pixelsVector', outf')
    <3>1. P \in Nat /\ P = job.nCols * job.nRows /\ InStep
      BY <1>3, <2>2, <2>6
    <3>2. /\ Arrived(w, q, r, Len(pv), ci) /\ (4 * q + r) + 1 <= 4 * (3 * P)
          /\ Interleaved(w, q, r, K, pv, outf)
          /\ Arrived(Append(w, v), qq, rr, n, d) /\ Placed(pv, r, n, v.samp, pw)
      BY <2>4, <2>5, <2>6
    <3> QED
      BY <1>3, <2>2, <2>4, <3>1, <3>2, InterleavedTurn
  <2>8. Len(pixelsVector') = n
    BY <2>4, <2>7 DEF Interleaved, Remains
  <2>9. PICK u : u = Append(w, v)
    OBVIOUS
  <2>10. /\ HandedOut(u)' /\ Arrived(u, qq, rr, Len(pixelsVector'), channelIndex')
         /\ \E L : Interleaved(u, qq, rr, L, pixelsVector', outf')
    BY <2>4, <2>7, <2>8, <2>9
  <2> QED
    BY <1>5, <2>2, <2>7, <2>10
<1>9. CASE InterleavingEnd
  <2>1. /\ phase = "read" /\ rd.end /\ job.mode = "interleaving"
        /\ compute_pixel_value(pixelsVector, "done")
    BY <1>9 DEF InterleavingEnd, AtEnd
  <2>2. PICK w, q, r, K :
           /\ HandedOut(w) /\ Arrived(w, q, r, Len(pixelsVector), channelIndex)
           /\ Interleaved(w, q, r, K, pixelsVector, outf)
    BY <1>3, <2>1 DEF PixelInv
  <2>3. PICK ci, pv, P : ci = channelIndex /\ pv = pixelsVector /\ P = job.nCols * job.nRows
    OBVIOUS
  <2>4. w = Recorded /\ 4 * q + r = 4 * (3 * P)
    <3>1. Sized
      BY <2>1 DEF Sized
    <3> QED
      BY <1>3, <2>1, <2>2, <2>3, <3>1, ExpectedAll DEF Arrived
  <2>5. /\ phase' = "done" /\ outf' \in Images(Noisy)
        /\ \A h \in F!HDUs : outf'.data[h] = [k \in 1 .. P |-> Pixel(Streams(w), h - 1, k - 1)]
    <3>1. P \in Nat /\ Arrived(w, q, r, Len(pv), ci) /\ Interleaved(w, q, r, K, pv, outf)
          /\ compute_pixel_value(pv, "done")
      BY <1>3, <2>1, <2>2, <2>3
    <3> QED
      BY <1>3, <2>3, <2>4, <3>1, InterleavedEnd
  <2>6. \A h \in F!HDUs :
          outf'.data[h] = [k \in 1 .. job'.nCols * job'.nRows |-> Pixel(Streams(Recorded)', h - 1, k - 1)]
    BY <1>3, <2>3, <2>4, <2>5 DEF Streams
  <2> QED
    BY <2>5, <2>6 DEF PixelInv
<1>10. CASE SmartWord
  <2>1. PICK v, pw, value : v = NextWord /\ value = -v.samp /\ pw = VectorWith(v, value)
    OBVIOUS
  <2>2. /\ PlaceWord("smart", value) /\ job.mode = "smart" /\ phase = "read"
        /\ \/ compute_pixel_value_smart(pw, "read")
           \/ pixelsVector' = pw /\ phase' = phase
    BY <1>10, <2>1, Zenon DEF SmartWord, PlaceWord, InLoop
  <2>3. value \in Int
    <3>1. HasWord /\ PopWord
      BY <2>2 DEF PlaceWord, InLoop
    <3> QED
      BY <1>3, <2>1, <3>1, NextWordTyped
  <2>4. PICK w, q, r, qq, rr, n :
           /\ Arrived(Append(w, v), qq, rr, n, channelIndex')
           /\ HandedOut(Append(w, v))'
           /\ n \in 1 .. 4 /\ Placed(pixelsVector, r, n, value, pw)
    <3>1. "smart" \in Placing
      BY DEF Placing
    <3> QED
      BY <1>3, <2>1, <2>2, <2>3, <3>1, ExpectedWord
  <2>5. pw \in Seq(Seq(Int)) /\ Len(pw) = n
    BY <2>4 DEF Placed
  <2>6. phase' = "read" /\ Len(pixelsVector') = n
    <3>1. CASE compute_pixel_value_smart(pw, "read")
      <4>1. Len(pw) <= NumChannels
        BY <1>3, <2>4, <2>5
      <4>2. phase' = "read" /\ pixelsVector' = [h \in DOMAIN pw |-> << >>]
        BY <3>1, <4>1, Zenon DEF compute_pixel_value_smart
      <4>3. DOMAIN pw = 1 .. n
        BY <2>5
      <4> QED
        BY <2>4, <4>2, <4>3
    <3>2. CASE pixelsVector' = pw /\ phase' = phase
      BY <2>2, <2>5, <3>2
    <3> QED
      BY <2>2, <3>1, <3>2
  <2>7. PICK u : u = Append(w, v)
    OBVIOUS
  <2>8. HandedOut(u)' /\ Arrived(u, qq, rr, Len(pixelsVector'), channelIndex')
    BY <2>4, <2>6, <2>7
  <2> QED
    BY <1>5, <2>2, <2>6, <2>8
<1>11. CASE SmartEnd
  <2>1. /\ phase = "read" /\ compute_pixel_value_smart(pixelsVector, "compress")
    BY <1>11 DEF SmartEnd, AtEnd
  <2>2. Len(pixelsVector) <= NumChannels
    <3>1. PICK w, q, r : Arrived(w, q, r, Len(pixelsVector), channelIndex)
      BY <1>3, <2>1 DEF PixelInv
    <3> QED
      BY <1>3, <3>1, SMTT(30) DEF Arrived, Known
  <2>3. phase' = "compress" /\ job.mode = "smart"
    BY <1>11, <2>1, <2>2, Zenon DEF compute_pixel_value_smart, SmartEnd, AtEnd
  <2> QED
    BY <1>6, <2>3
<1>12. CASE CalibrateWord
  <2>1. PICK v, pw : v = NextWord /\ pw = VectorWith(v, v.samp)
    OBVIOUS
  <2>2. /\ PlaceWord("calibrate", v.samp) /\ job.mode = "calibrate" /\ phase = "read"
        /\ pixelsVector' = pw /\ phase' = phase
    BY <1>12, <2>1, Zenon DEF CalibrateWord, PlaceWord, InLoop
  <2>3. v.samp \in Int
    <3>1. HasWord /\ PopWord
      BY <2>2 DEF PlaceWord, InLoop
    <3> QED
      BY <1>3, <2>1, <3>1, NextWordTyped
  <2>4. PICK w, q, r, qq, rr, n :
           /\ Arrived(w, q, r, Len(pixelsVector), channelIndex)
           /\ Remains(w, q, r, 0, pixelsVector)
           /\ v \in Words(4) /\ v.chID = r /\ NextRound(q, r, qq, rr) /\ n = Known(qq, rr)
           /\ Arrived(Append(w, v), qq, rr, n, channelIndex')
           /\ HandedOut(Append(w, v))'
           /\ n \in 1 .. 4 /\ Placed(pixelsVector, r, n, v.samp, pw)
    <3>1. "calibrate" \in Placing
      BY DEF Placing
    <3> QED
      BY <1>3, <2>1, <2>2, <2>3, <3>1, ExpectedWord
  <2>5. Remains(Append(w, v), qq, rr, 0, pw)
    <3>1. 0 \in Nat /\ 3 * 0 <= q
      BY <2>4 DEF Arrived
    <3>2. PICK ci, pv : ci = channelIndex /\ pv = pixelsVector
      OBVIOUS
    <3>3. Arrived(w, q, r, Len(pv), ci) /\ Remains(w, q, r, 0, pv) /\ Placed(pv, r, n, v.samp, pw)
      BY <2>4, <3>2
    <3> QED
      BY <2>4, <3>1, <3>3, RemainsNext
  <2>6. Len(pixelsVector') = n
    BY <2>2, <2>4 DEF Placed
  <2>7. PICK u : u = Append(w, v)
    OBVIOUS
  <2>8. /\ HandedOut(u)' /\ Arrived(u, qq, rr, Len(pixelsVector'), channelIndex')
        /\ Remains(u, qq, rr, 0, pixelsVector')
    BY <2>2, <2>4, <2>5, <2>6, <2>7
  <2> QED
    BY <1>5, <2>2, <2>8
<1>13. CASE CalibrateEnd
  <2>1. /\ phase = "read" /\ rd.end /\ job.mode = "calibrate"
        /\ phase' = IF pixelsVector = << >> \/ CalibrateInBounds(pixelsVector) THEN "done" ELSE "undefined"
    BY <1>13 DEF CalibrateEnd, AtEnd
  <2>2. PICK w, q, r :
           /\ HandedOut(w) /\ Arrived(w, q, r, Len(pixelsVector), channelIndex)
           /\ Remains(w, q, r, 0, pixelsVector)
    BY <1>3, <2>1 DEF PixelInv
  <2>3. PICK ci, pv, P : ci = channelIndex /\ pv = pixelsVector /\ P = job.nCols * job.nRows
    OBVIOUS
  <2>4. 4 * q + r = 4 * (3 * P)
    <3>1. Sized
      BY <2>1 DEF Sized
    <3> QED
      BY <1>3, <2>1, <2>2, <2>3, <3>1, ExpectedAll DEF Arrived
  <2>5. job.regMaxCol \in Nat /\ job.regMaxRow \in Nat /\ job.regMaxCol < job.nCols /\ job.regMaxRow < job.nRows
    <3> DEFINE j == [job EXCEPT !.tool = FALSE]
    <3>1. /\ j \in Jobs /\ j.mode = job.mode /\ j.nCols = job.nCols /\ j.nRows = job.nRows
          /\ j.regMaxCol = job.regMaxCol /\ j.regMaxRow = job.regMaxRow
          /\ job.regMaxCol \in Nat /\ job.regMaxRow \in Nat
      BY <1>3 DEF JobInv
    <3> HIDE DEF j
    <3> QED
      BY <2>1, <3>1, ConversionAssumption
  <2>6. pv = << >> \/ CalibrateInBounds(pv)
    <3>1. P \in Nat /\ Arrived(w, q, r, Len(pv), ci) /\ Remains(w, q, r, 0, pv)
      BY <1>3, <2>2, <2>3
    <3> QED
      BY <1>3, <2>3, <2>4, <2>5, <3>1, CalibrationFits
  <2>7. phase' = "done" /\ job'.mode = "calibrate"
    BY <1>3, <2>1, <2>3, <2>6
  <2> QED
    BY <2>7 DEF PixelInv
<1>14. CASE MisplaceWord
  <2>1. PICK v : v = NextWord
    OBVIOUS
  <2>2. phase = "read" /\ HasWord /\ PopWord /\ OutsideVector(v)
    BY <1>14, <2>1 DEF MisplaceWord, InLoop
  <2>3. PICK w, q, r : HandedOut(w) /\ Arrived(w, q, r, Len(pixelsVector), channelIndex)
    BY <1>3, <2>2 DEF PixelInv
  <2>4. q \in Nat /\ r \in 0 .. 3 /\ Len(w) = 4 * q + r /\ pixelsVector \in Seq(Seq(Int))
    BY <2>3 DEF Arrived, PlacedInv, Ordered
  <2>5. v \in Words(4) /\ v.chID = r
    BY <1>3, <2>1, <2>2, <2>3, <2>4, ExpectedNext
  <2>6. PICK qq, rr, n : NextRound(q, r, qq, rr) /\ n = Known(qq, rr)
    <3>1. CASE r = 3
      BY <3>1 DEF NextRound
    <3>2. CASE r # 3
      BY <3>2 DEF NextRound
    <3> QED
      BY <3>1, <3>2
  <2>7. ~OutsideVector(v)
    <3>1. 0 \in Int
      OBVIOUS
    <3> QED
      BY <2>3, <2>4, <2>5, <2>6, <3>1, ArrivedNext
  <2> QED
    BY <2>2, <2>7
<1>15. CASE CompressFits \/ Kill
  <2>1. CASE CompressFits
    <3>1. phase' = "done" /\ job'.mode # "interleaving"
      BY <1>3, <2>1 DEF CompressFits, PixelInv
    <3> QED
      BY <3>1 DEF PixelInv
  <2>2. CASE Kill
    <3>1. phase' = "killed"
      BY <2>2 DEF Kill
    <3> QED
      BY <1>6, <3>1
  <2> QED
    BY <1>15, <2>1, <2>2
<1>16. CASE UNCHANGED vars
  <2>1. UNCHANGED <<readerVars, job, phase, pixelsVector, channelIndex, outf>>
    BY <1>16 DEF vars, imageVars
  <2>2. \A u : HandedOut(u) => HandedOut(u)'
    BY <2>1, StillHandedOut
  <2>3. CASE phase = "read"
    <3>1. PICK w, q, r :
             /\ HandedOut(w) /\ Arrived(w, q, r, Len(pixelsVector), channelIndex)
             /\ job.mode = "interleaving" => \E K : Interleaved(w, q, r, K, pixelsVector, outf)
             /\ job.mode = "calibrate" => Remains(w, q, r, 0, pixelsVector)
      BY <1>3, <2>3 DEF PixelInv
    <3>2. /\ HandedOut(w)' /\ phase' = "read" /\ Arrived(w, q, r, Len(pixelsVector'), channelIndex')
          /\ job.mode = "interleaving" => \E K : Interleaved(w, q, r, K, pixelsVector', outf')
          /\ job.mode = "calibrate" => Remains(w, q, r, 0, pixelsVector')
      BY <2>1, <2>2, <2>3, <3>1
    <3> QED
      BY <1>5, <3>2
  <2>4. CASE phase # "read"
    BY <1>3, <1>4, <2>1, <2>4 DEF PixelInv, Streams
  <2> QED
    BY <2>3, <2>4
<1>17. ~(FitsWord \/ FitsEnd \/ SaveCounts \/ DeleteDats \/ RawWord \/ RawEnd)
  BY <1>3 DEF FitsWord, FitsEnd, SaveCounts, DeleteDats, RawWord, RawEnd, InLoop, AtEnd, JobInv, Placing
<1> QED
  BY <1>2, <1>7, <1>8, <1>9, <1>10, <1>11, <1>12, <1>13, <1>14, <1>15, <1>16, <1>17 DEF Next

(* Only the loops that give channels places can leave a vector. *)
UndefinedInv == phase = "undefined" => job.mode \in Placing

LEMMA UndefinedStep == ASSUME Inv, UndefinedInv, [Next]_vars PROVE UndefinedInv'
<1> SUFFICES ASSUME phase' = "undefined" PROVE job'.mode \in Placing
  BY DEF UndefinedInv
<1>1. ~readOldDatFiles
  BY DEF readOldDatFiles
<1>2. UNCHANGED job
  BY <1>1 DEF Next, vars, Read, FitsWord, FitsEnd, FitsLeft, SaveCounts, DeleteDats, CompressFits, MisplaceWord,
              InterleavingWord, InterleavingEnd, SmartWord, SmartEnd, RawWord, RawEnd, CalibrateWord,
              CalibrateEnd, PlaceWord, Kill
<1>3. CASE MisplaceWord
  BY <1>2, <1>3 DEF MisplaceWord, InLoop, Placing
<1>4. CASE InterleavingWord \/ InterleavingEnd \/ SmartWord \/ SmartEnd \/ CalibrateWord \/ CalibrateEnd
  BY <1>2, <1>4 DEF InterleavingWord, InterleavingEnd, SmartWord, SmartEnd, CalibrateWord, CalibrateEnd,
                    PlaceWord, InLoop, AtEnd, Placing
<1>5. CASE UNCHANGED vars \/ Read \/ RawWord
  BY <1>2, <1>5 DEF vars, Read, RawWord, UndefinedInv
<1>6. ~(FitsWord \/ FitsEnd \/ SaveCounts \/ DeleteDats \/ CompressFits \/ RawEnd \/ Kill)
  BY DEF FitsWord, FitsEnd, FlushIf, SaveCounts, DeleteDats, CompressFits, RawEnd, Kill, InLoop
<1> QED
  BY <1>1, <1>3, <1>4, <1>5, <1>6 DEF Next

PixelsFour == NumChannels = 4 => InterleavedPixels /\ InBounds

LEMMA PixelsLayer == Spec => []PixelsFour
<1>1. Inv /\ ImageInv /\ PlacedInv /\ PixelInv /\ [Next]_vars => PixelInv'
  BY PixelStep
<1>2. Inv /\ UndefinedInv /\ [Next]_vars => UndefinedInv'
  BY UndefinedStep
<1>3. Init => PixelInv /\ UndefinedInv
  BY PixelInit DEF Init, UndefinedInv
<1>4. Inv /\ PixelInv /\ UndefinedInv => PixelsFour
  <2> SUFFICES ASSUME Inv, PixelInv, UndefinedInv, NumChannels = 4, AsExpected
               PROVE  /\ job.mode = "interleaving" /\ phase = "done" /\ InStep => InterleavedPixels
                      /\ InBounds
    BY DEF PixelsFour, InterleavedPixels, InBounds
  <2>1. InBounds
    BY DEF InBounds, UndefinedInv, PixelInv, Expecting
  <2>2. ASSUME job.mode = "interleaving", phase = "done", InStep PROVE InterleavedPixels
    <3>1. /\ outf \in Images(Noisy)
          /\ \A h \in F!HDUs :
               outf.data[h] = [k \in 1 .. job.nCols * job.nRows |-> Pixel(Streams(Recorded), h - 1, k - 1)]
      BY <2>2 DEF PixelInv, Expecting, Placing
    <3>2. PICK all : all = Streams(Recorded)
      OBVIOUS
    <3>3. [p \in 1 .. NumChannels |-> Samples(p - 1)] = all
      BY <3>2 DEF Streams, Samples
    <3>4. outf.data \in [F!HDUs -> Seq(Noisy)]
      BY <3>1 DEF Images
    <3>5. outf.data = [h \in F!HDUs |-> [k \in 1 .. job.nCols * job.nRows |-> Pixel(all, h - 1, k - 1)]]
      BY <3>1, <3>2, <3>4
    <3> QED
      BY <3>3, <3>5, Zenon DEF InterleavedPixels
  <2> QED
    BY <2>1, <2>2
<1> QED
  BY <1>1, <1>2, <1>3, <1>4, Layers, PTL DEF Spec

(* An interleaving conversion or a calibration of the readout expected, or *)
(* a smart conversion of one with no word missing, never goes outside a    *)
(* vector: with the four channels of LTA_NUMBER_OF_CHANNELS (dataConversion *)
(* .cpp, the loops of bin_to_fits_interleaving, bin_to_fits_smart and      *)
(* bin_to_calibrate), whatever the size of the image and however the words *)
(* are spread over packets and files.                                      *)
THEOREM ReadoutsStayInBounds == NumChannels = 4 => (Spec => []InBounds)
<1> SUFFICES ASSUME NumChannels = 4 PROVE Spec => []InBounds
  OBVIOUS
<1>1. PixelsFour => InBounds
  BY DEF PixelsFour
<1> QED
  BY <1>1, PixelsLayer, PTL

(* The image that bin_to_fits_interleaving makes of the readout expected   *)
(* has every pixel, each corrected with the noise that the other two       *)
(* channels saw at its own times, although the samples come in chunks that *)
(* end inside a pixel (dataConversion.cpp, compute_pixel_value).           *)
THEOREM EveryPixelCorrected == NumChannels = 4 => (Spec => []InterleavedPixels)
<1> SUFFICES ASSUME NumChannels = 4 PROVE Spec => []InterleavedPixels
  OBVIOUS
<1>1. PixelsFour => InterleavedPixels
  BY DEF PixelsFour
<1> QED
  BY <1>1, PixelsLayer, PTL

-----------------------------------------------------------------------------
(* The run of what the board sent that the reader has passed.              *)

(* The counters say that packet j + 1 does not follow packet j: those of   *)
(* the words, or after the start those of the packets.                     *)
Shown(j) ==
  LET p == Arrivals[j]
      q == Arrivals[j + 1]
  IN \/ ~Follows(q.words[1].counter, Last(p.words).counter, WordMod)
     \/ j + 1 >= StartupPackets /\ ~Follows(q.counter, p.counter, PackMod)

Contiguous(j) == FirstWord(Arrivals[j + 1]) = FirstWord(Arrivals[j]) + Len(Arrivals[j].words)

(* Every packet is a part of what the board sent, the first from the start *)
(* of a sample on, and wherever the next one does not continue it, the     *)
(* counters say so.                                                        *)
PartOfSent(p) ==
  /\ p.words # << >> /\ FirstWord(p) \in Nat
  /\ p.words = [i \in 1 .. Len(p.words) |-> Word(job.nch, FirstWord(p) + i - 1)]
  /\ FirstWord(p) + Len(p.words) <= job.nch * job.nsamp

CountersTell ==
  /\ \A j \in DOMAIN Arrivals : PartOfSent(Arrivals[j])
  /\ Arrivals # << >> => FirstWord(Arrivals[1]) % job.nch = 0
  /\ \A j \in 1 .. Len(Arrivals) - 1 : Contiguous(j) \/ Shown(j)

LEMMA FileOfPackets ==
  ASSUME NEW P, files \in Seq(Seq(P)), NEW f \in 1 .. Len(files)
  PROVE  /\ Len(Taken(files, f - 1)) \in Nat /\ Len(files[f]) \in Nat
         /\ Len(Taken(files, f)) = Len(Taken(files, f - 1)) + Len(files[f])
         /\ Len(Taken(files, f)) <= Len(Arrivals)
         /\ \A p \in 1 .. Len(files[f]) : Arrivals[Len(Taken(files, f - 1)) + p] = files[f][p]
<1> DEFINE N == Len(files)
           a == Taken(files, f - 1)
           x == files[f]
           la == Len(a)
           lx == Len(x)
<1>1. N \in Nat /\ f - 1 \in 0 .. N - 1 /\ (f - 1) + 1 = f /\ f \in 0 .. N
  BY LenProperties
<1>2. a \in Seq(P) /\ x \in Seq(P) /\ Taken(files, f) = a \o x
  <2>1. /\ Taken(files, f - 1) \in Seq(P) /\ files[(f - 1) + 1] \in Seq(P)
        /\ Taken(files, (f - 1) + 1) = Taken(files, f - 1) \o files[(f - 1) + 1]
    BY <1>1, TakeMore
  <2> QED
    BY <1>1, <2>1
<1>3. PICK z \in Seq(P) : Taken(files, f) \o z = Arrivals
  BY <1>1, TakenFirst DEF Arrivals
<1>a. a = Taken(files, f - 1) /\ x = files[f]
  OBVIOUS
<1> HIDE DEF a, x
<1>4. /\ la \in Nat /\ lx \in Nat /\ Len(z) \in Nat
      /\ a \o x \in Seq(P) /\ Len(a \o x) = la + lx
      /\ \A i \in 1 .. la + lx : (a \o x)[i] = IF i <= la THEN a[i] ELSE x[i - la]
  BY <1>2, LenProperties, ConcatProperties
<1>5. /\ Len(Arrivals) = (la + lx) + Len(z)
      /\ \A i \in 1 .. (la + lx) + Len(z) :
           Arrivals[i] = IF i <= la + lx THEN (a \o x)[i] ELSE z[i - (la + lx)]
  <2>1. Arrivals = (a \o x) \o z
    BY <1>2, <1>3
  <2> DEFINE y == a \o x
  <2>2. y \in Seq(P) /\ Len(y) = la + lx /\ Arrivals = y \o z
    BY <1>4, <2>1
  <2> HIDE DEF y, la, lx
  <2>3. /\ Len(Arrivals) = Len(y) + Len(z)
        /\ \A i \in 1 .. Len(y) + Len(z) : Arrivals[i] = IF i <= Len(y) THEN y[i] ELSE z[i - Len(y)]
    BY <2>2, ConcatProperties
  <2> QED
    BY <2>2, <2>3 DEF y
<1>6. Len(Taken(files, f)) = la + lx
  BY <1>2, <1>4
<1>l. la = Len(a) /\ lx = Len(x)
  OBVIOUS
<1> HIDE DEF la, lx
<1>7. ASSUME NEW p \in 1 .. lx PROVE Arrivals[la + p] = x[p]
  <2>1. la + p \in 1 .. la + lx /\ la + p \in 1 .. (la + lx) + Len(z) /\ la + p <= la + lx
        /\ ~(la + p <= la) /\ (la + p) - la = p
    BY <1>4
  <2> QED
    BY <1>4, <1>5, <2>1
<1>8. la + lx <= Len(Arrivals)
  BY <1>4, <1>5
<1> QED
  <2>1. Len(Taken(files, f - 1)) = la /\ Len(files[f]) = lx
    BY <1>a, <1>l
  <2> QED
    BY <1>4, <1>6, <1>7, <1>8, <1>a, <2>1

(* How many packets the reader has read. *)
Position ==
  IF rd.end THEN Len(Arrivals) ELSE Len(Taken(files, rd.iFile - 1)) + (rd.packet - 1)

(* As long as no counter is wrong, the words passed are a run of those     *)
(* sent, from the first word of the first packet on.                       *)
RunOfSent(x, n) == \A i \in 1 .. Len(x) : x[i] = Word(job.nch, n + i - 1)

LastRead(p) ==
  /\ rd.dataCount # 0 /\ rd.packPreviousIndex = p.counter
  /\ rd.dataIndexOld = Last(p.words).counter

PassedRun(k, x) ==
  /\ k = 0 => x = << >>
  /\ k # 0 => /\ RunOfSent(x, FirstWord(Arrivals[1]))
              /\ FirstWord(Arrivals[k]) + Len(Arrivals[k].words) = FirstWord(Arrivals[1]) + Len(x)

RunInv ==
  CountersTell =>
    /\ Position \in Nat /\ Position <= Len(Arrivals) /\ rd.packetCount = Position
    /\ Position # 0 => LastRead(Arrivals[Position])
    /\ rd.dataGaps = 0 /\ rd.missingPackets = 0 => PassedRun(Position, Passed)

LEMMA RunFresh == ASSUME ReaderInv, rd = NewReader PROVE RunInv
<1>1. rd.iFile = 1 /\ rd.packet = 1 /\ rd.end = FALSE /\ rd.packetCount = 0 /\ rd.buffer = << >>
  BY DEF NewReader
<1>2. Taken(files, 0) = << >>
  BY TakeNone
<1>3. Position = 0
  BY <1>1, <1>2, EmptySeq DEF Position
<1>4. HandedOut(<< >>) /\ ReaderPlace
  BY PassedFresh
<1>5. Passed = << >>
  BY <1>1, <1>4, EmptySeq, ConcatEmptySeq DEF HandedOut
<1>6. Len(Arrivals) \in Nat
  BY FlattenType, LenProperties DEF ReaderInv, Arrivals
<1> QED
  BY <1>1, <1>3, <1>5, <1>6 DEF RunInv, PassedRun

LEMMA RunAgain == (ReaderInv /\ rd = NewReader)' => RunInv'
<1>1. ReaderInv /\ rd = NewReader => RunInv
  BY RunFresh
<1> QED
  BY <1>1, PTL

LEMMA StillShown == UNCHANGED <<files, job>> => (CountersTell' <=> CountersTell) /\ Arrivals' = Arrivals
BY DEF CountersTell, Arrivals, PartOfSent, Contiguous, Shown

(* The words passed are those handed out and those of the buffer. *)
LEMMA PassedThen ==
  ASSUME ReaderInv, ReaderPlace, rd.buffer = << >>, \A w : HandedOut(w) => HandedOut(w)'
  PROVE  Passed' = Passed \o rd'.buffer /\ Passed \in Seq(Words(job.nch))
<1>1. Passed \in Seq(Words(job.nch))
  BY PassedFirst
<1>2. Passed \o << >> = Passed
  BY <1>1, ConcatEmptySeq
<1>3. HandedOut(Passed)
  BY <1>1, <1>2 DEF HandedOut
<1> DEFINE w == Passed
<1>4. PICK u : u = w
  OBVIOUS
<1>5. HandedOut(u)'
  BY <1>3, <1>4
<1> QED
  BY <1>1, <1>4, <1>5 DEF HandedOut

LEMMA RunNextFile == ASSUME ReaderInv, ReaderPlace, RunInv, NextFile, UNCHANGED job PROVE RunInv'
<1> SUFFICES ASSUME CountersTell' PROVE RunInv'
  BY DEF RunInv
<1> DEFINE f == rd.iFile
           N == Len(files)
<1>1. /\ ~rd.end /\ rd.buffer = << >> /\ f \in 1 .. N /\ rd.packet = Len(files[f]) + 1
      /\ Len(files[f]) \in Nat /\ N \in Nat /\ files \in Seq(Seq(Packets(job.nch)))
  <2>1. /\ ~rd.end /\ rd.buffer = << >> /\ f \in 1 .. N /\ rd.packet > Len(files[f])
        /\ rd.packet <= Len(files[f]) + 1 /\ rd.packet \in Nat
        /\ files \in Seq(Seq(Packets(job.nch)))
    BY DEF ReaderInv, ReaderPlace, NextFile, NeedsData, Readers
  <2>2. files[f] \in Seq(Packets(job.nch))
    BY <2>1, ElementOfSeq
  <2>3. Len(files[f]) \in Nat /\ N \in Nat
    BY <2>1, <2>2, LenProperties
  <2> QED
    BY <2>1, <2>3
<1>2. /\ files' = files /\ rd'.iFile = f + 1 /\ rd'.packet = 1 /\ rd'.buffer = << >>
      /\ rd'.end <=> f = N
      /\ rd'.packetCount = rd.packetCount /\ rd'.dataCount = rd.dataCount
      /\ rd'.packPreviousIndex = rd.packPreviousIndex /\ rd'.dataIndexOld = rd.dataIndexOld
      /\ rd'.dataGaps = rd.dataGaps /\ rd'.missingPackets = rd.missingPackets
  <2> DEFINE last == f = N
  <2>1. files' = files /\ rd' = [rd EXCEPT !.iFile = @ + 1, !.packet = 1, !.end = last]
    BY DEF NextFile
  <2>2. rd \in Readers(job.nch)
    BY DEF ReaderInv
  <2> HIDE DEF last
  <2>3. /\ files' = files /\ rd'.iFile = f + 1 /\ rd'.packet = 1 /\ rd'.buffer = << >> /\ rd'.end = last
        /\ rd'.packetCount = rd.packetCount /\ rd'.dataCount = rd.dataCount
        /\ rd'.packPreviousIndex = rd.packPreviousIndex /\ rd'.dataIndexOld = rd.dataIndexOld
        /\ rd'.dataGaps = rd.dataGaps /\ rd'.missingPackets = rd.missingPackets
    BY <1>1, <2>1, <2>2 DEF Readers
  <2>4. rd'.end <=> f = N
    BY <2>3, Zenon DEF last
  <2> QED
    BY <2>3, <2>4
<1>3. CountersTell /\ Arrivals' = Arrivals
  BY <1>2, StillShown
<1>4. Position' = Position
  <2>1. Len(Taken(files, f)) = Len(Taken(files, f - 1)) + Len(files[f]) /\ Len(Taken(files, f - 1)) \in Nat
    BY <1>1, FileOfPackets
  <2>2. Position = Len(Taken(files, f))
    <3>1. rd.packet - 1 = Len(files[f])
      BY <1>1
    <3> QED
      BY <1>1, <2>1, <3>1 DEF Position
  <2>3. CASE f = N
    <3>1. Taken(files, N) = Arrivals
      BY <1>1, TakeAll DEF Arrivals
    <3> QED
      BY <1>2, <1>3, <2>2, <2>3, <3>1 DEF Position
  <2>4. CASE f # N
    <3>1. Position' = Len(Taken(files, (f + 1) - 1)) + (1 - 1)
      BY <1>2, <2>4 DEF Position
    <3>2. (f + 1) - 1 = f /\ 1 - 1 = 0
      BY <1>1
    <3>3. Len(Taken(files, f)) \in Nat
      <4> DEFINE a == Len(Taken(files, f - 1))
                 b == Len(files[f])
                 c == Len(Taken(files, f))
      <4>1. a \in Nat /\ b \in Nat /\ c = a + b
        BY <1>1, <2>1
      <4> HIDE DEF a, b, c
      <4>2. c \in Nat
        BY <4>1
      <4> QED
        BY <4>2 DEF c
    <3> QED
      BY <2>2, <3>1, <3>2, <3>3
  <2> QED
    BY <2>3, <2>4
<1>5. Passed' = Passed
  <2>1. \A w : HandedOut(w) => HandedOut(w)'
    BY PassedNextFile
  <2>2. Passed' = Passed \o rd'.buffer /\ Passed \in Seq(Words(job.nch))
    BY <1>1, <2>1, PassedThen
  <2> QED
    BY <1>2, <2>2, ConcatEmptySeq
<1>6. \A p : LastRead(p)' <=> LastRead(p)
  BY <1>2 DEF LastRead
<1>7. \A k, x : PassedRun(k, x)' <=> PassedRun(k, x)
  BY <1>3 DEF PassedRun, RunOfSent
<1> HIDE DEF f, N
<1>8. /\ Position \in Nat /\ Position <= Len(Arrivals) /\ rd.packetCount = Position
      /\ Position # 0 => LastRead(Arrivals[Position])
      /\ rd.dataGaps = 0 /\ rd.missingPackets = 0 => PassedRun(Position, Passed)
  BY <1>3 DEF RunInv
<1>9. Position # 0 => LastRead(Arrivals[Position])'
  <2>1. PICK r : r = Arrivals[Position]
    OBVIOUS
  <2>2. Arrivals'[Position'] = r
    BY <1>3, <1>4, <2>1
  <2>3. LastRead(r) => LastRead(r)'
    BY <1>6
  <2> QED
    BY <1>8, <2>1, <2>2, <2>3 DEF LastRead
<1>10. PassedRun(Position, Passed) => PassedRun(Position, Passed)'
  BY <1>4, <1>5, <1>7
<1> QED
  BY <1>2, <1>3, <1>4, <1>8, <1>9, <1>10 DEF RunInv

(* A packet whose counters follow those before goes on with the run. *)
LEMMA RunGrows ==
  ASSUME ReaderInv, CountersTell, NEW k \in Nat, k + 1 <= Len(Arrivals), NEW x \in Seq(Words(job.nch)),
         PassedRun(k, x), k # 0 => Contiguous(k)
  PROVE  PassedRun(k + 1, x \o Arrivals[k + 1].words)
<1> DEFINE p == Arrivals[k + 1]
           y == p.words
           n == FirstWord(Arrivals[1])
           m == FirstWord(p)
           W == Words(job.nch)
           z == x \o y
<1>1. Arrivals \in Seq(Packets(job.nch))
  BY FlattenType DEF ReaderInv, Arrivals
<1>2. 1 \in 1 .. Len(Arrivals) /\ k + 1 \in 1 .. Len(Arrivals) /\ DOMAIN Arrivals = 1 .. Len(Arrivals)
  BY <1>1, LenProperties
<1>3. PartOfSent(p) /\ PartOfSent(Arrivals[1]) /\ p \in Packets(job.nch)
  BY <1>1, <1>2, ElementOfSeq DEF CountersTell
<1>4. /\ m \in Nat /\ n \in Nat /\ y \in Seq(W) /\ Len(y) \in Nat /\ Len(x) \in Nat
      /\ \A i \in 1 .. Len(y) : y[i] = Word(job.nch, m + i - 1)
  <2>1. y \in Seq(W)
    BY <1>3 DEF Packets
  <2>2. y = [i \in 1 .. Len(y) |-> Word(job.nch, m + i - 1)]
    BY <1>3 DEF PartOfSent
  <2>3. m \in Nat /\ n \in Nat
    BY <1>3 DEF PartOfSent
  <2> HIDE DEF y, m
  <2> QED
    BY <2>1, <2>2, <2>3, LenProperties
<1>5. m = n + Len(x)
  <2>1. CASE k = 0
    <3>1. x = << >> /\ Len(x) = 0
      BY <2>1, EmptySeq DEF PassedRun
    <3>2. m = n
      BY <2>1
    <3> QED
      BY <1>4, <3>1, <3>2
  <2>2. CASE k # 0
    <3>1. FirstWord(Arrivals[k]) + Len(Arrivals[k].words) = n + Len(x)
      BY <2>2 DEF PassedRun
    <3> QED
      BY <2>2, <3>1 DEF Contiguous
  <2> QED
    BY <2>1, <2>2
<1>6. RunOfSent(x, n)
  <2>1. CASE k = 0
    <3>1. Len(x) = 0
      BY <2>1, EmptySeq DEF PassedRun
    <3> QED
      BY <3>1 DEF RunOfSent
  <2>2. CASE k # 0
    BY <2>2 DEF PassedRun
  <2> QED
    BY <2>1, <2>2
<1>w. W = Words(job.nch) /\ p = Arrivals[k + 1] /\ y = p.words /\ n = FirstWord(Arrivals[1]) /\ m = FirstWord(p)
  OBVIOUS
<1> HIDE DEF W, p, y, n, m
<1>7. /\ Len(z) = Len(x) + Len(y)
      /\ \A i \in 1 .. Len(x) + Len(y) : z[i] = IF i <= Len(x) THEN x[i] ELSE y[i - Len(x)]
  BY <1>4, <1>w, ConcatProperties
<1> DEFINE l == Len(x)
           j == Len(y)
<1>8. ASSUME NEW i \in 1 .. Len(z) PROVE z[i] = Word(job.nch, n + i - 1)
  <2>1. i \in 1 .. l + j /\ l \in Nat /\ j \in Nat
    BY <1>4, <1>7
  <2>2. CASE i <= Len(x)
    <3>1. i \in 1 .. Len(x)
      BY <1>4, <2>1, <2>2
    <3> QED
      BY <1>6, <1>7, <2>1, <2>2, <3>1 DEF RunOfSent
  <2>3. CASE ~(i <= Len(x))
    <3>1. i - l \in 1 .. j /\ m + (i - l) - 1 = n + i - 1
      <4>1. m = n + l
        BY <1>5
      <4> HIDE DEF l, j
      <4>2. ~(i <= l)
        BY <2>3 DEF l
      <4> QED
        BY <1>4, <2>1, <4>1, <4>2
    <3>2. z[i] = y[i - l]
      BY <1>7, <2>1, <2>3
    <3>3. y[i - l] = Word(job.nch, m + (i - l) - 1)
      BY <1>4, <3>1
    <3> QED
      BY <3>1, <3>2, <3>3
  <2> QED
    BY <2>2, <2>3
<1>9. m + Len(y) = n + Len(z)
  BY <1>4, <1>5, <1>7
<1> HIDE DEF z, l, j
<1>10. RunOfSent(z, n)
  BY <1>8 DEF RunOfSent
<1>11. k + 1 # 0
  OBVIOUS
<1> QED
  BY <1>9, <1>10, <1>11, <1>w DEF PassedRun, z

LEMMA RunReadPacket == ASSUME ReaderInv, ReaderPlace, RunInv, ReadPacket, UNCHANGED job PROVE RunInv'
<1> SUFFICES ASSUME CountersTell' PROVE RunInv'
  BY DEF RunInv
<1> DEFINE f == rd.iFile
           q == rd.packet
           p == files[f][q]
           old(i) == IF i = 1 THEN rd.dataIndexOld ELSE p.words[i - 1].counter
           gaps == {i \in DOMAIN p.words :
                      /\ ~Follows(p.words[i].counter, old(i), WordMod)
                      /\ rd.dataCount + i - 1 # 0}
           lost == /\ ~Follows(p.counter, rd.packPreviousIndex, PackMod)
                   /\ rd.dataCount # 0
                   /\ rd.packetCount + 1 >= StartupPackets
<1>k. PICK K : K = Position
  OBVIOUS
<1>1. /\ ~rd.end /\ rd.buffer = << >> /\ f \in 1 .. Len(files) /\ q \in 1 .. Len(files[f])
      /\ files \in Seq(Seq(Packets(job.nch)))
  <2>1. /\ ~rd.end /\ rd.buffer = << >> /\ f \in 1 .. Len(files) /\ q <= Len(files[f])
        /\ q \in Nat \ {0} /\ files \in Seq(Seq(Packets(job.nch)))
    BY DEF ReaderInv, ReadPacket, NeedsData, Readers
  <2>2. files[f] \in Seq(Packets(job.nch))
    BY <2>1, ElementOfSeq
  <2>3. Len(files[f]) \in Nat
    BY <2>2, LenProperties, SMTT(30)
  <2> QED
    BY <2>1, <2>3, SMTT(30)
<1>2. files' = files
  BY DEF ReadPacket
<1>3. CountersTell /\ Arrivals' = Arrivals
  BY <1>2, StillShown
<1>4. /\ K \in Nat /\ K <= Len(Arrivals) /\ rd.packetCount = K
      /\ K # 0 => LastRead(Arrivals[K])
      /\ rd.dataGaps = 0 /\ rd.missingPackets = 0 => PassedRun(K, Passed)
  BY <1>3, <1>k DEF RunInv
<1>5. /\ K + 1 <= Len(Arrivals) /\ Arrivals[K + 1] = p
      /\ K = Len(Taken(files, f - 1)) + (q - 1)
  <2>1. /\ Len(Taken(files, f - 1)) \in Nat /\ Len(files[f]) \in Nat
        /\ Len(Taken(files, f)) = Len(Taken(files, f - 1)) + Len(files[f])
        /\ Len(Taken(files, f)) <= Len(Arrivals)
        /\ Arrivals[Len(Taken(files, f - 1)) + q] = files[f][q]
    BY <1>1, FileOfPackets
  <2>2. K = Len(Taken(files, f - 1)) + (q - 1)
    BY <1>1, <1>k DEF Position
  <2>3. Len(Arrivals) \in Nat
    BY FlattenType, LenProperties DEF ReaderInv, Arrivals
  <2> DEFINE a == Len(Taken(files, f - 1))
             b == Len(files[f])
  <2>4. a \in Nat /\ b \in Nat /\ q \in 1 .. b /\ a + b <= Len(Arrivals) /\ K = a + (q - 1)
    BY <1>1, <2>1, <2>2
  <2>5. Arrivals[a + q] = p
    BY <2>1
  <2> HIDE DEF a, b, q, p
  <2>6. K + 1 = a + q /\ a + q <= Len(Arrivals)
    BY <2>3, <2>4, SMTT(30)
  <2> QED
    BY <2>4, <2>5, <2>6, SMTT(30) DEF a
<1>6. p \in Packets(job.nch) /\ PartOfSent(p)
  <2>1. Arrivals \in Seq(Packets(job.nch))
    BY FlattenType DEF ReaderInv, Arrivals
  <2>2. K + 1 \in 1 .. Len(Arrivals) /\ DOMAIN Arrivals = 1 .. Len(Arrivals)
    BY <1>4, <1>5, <2>1, LenProperties
  <2>3. Arrivals[K + 1] \in Packets(job.nch) /\ PartOfSent(Arrivals[K + 1])
    BY <1>3, <2>1, <2>2, ElementOfSeq, SMTT(30) DEF CountersTell
  <2> QED
    BY <1>5, <2>3
<1>7. /\ p.words \in Seq(Words(job.nch)) /\ p.words # << >> /\ Len(p.words) \in Nat \ {0}
      /\ DOMAIN p.words = 1 .. Len(p.words)
  BY <1>6, LenProperties, EmptySeq, SMTT(30) DEF Packets, PartOfSent
<1>8. IsFiniteSet(gaps) /\ Cardinality(gaps) \in Nat
  <2>1. IsFiniteSet(DOMAIN p.words)
    BY <1>7, FS_Interval, SMTT(30)
  <2> QED
    BY <2>1, FS_Subset, FS_CardinalityType
<1>9. /\ rd'.iFile = f /\ rd'.end = rd.end /\ rd'.packet = q + 1 /\ rd'.buffer = p.words
      /\ rd'.packetCount = rd.packetCount + 1 /\ rd'.dataCount = rd.dataCount + Len(p.words)
      /\ rd'.missingPackets = rd.missingPackets + (IF lost THEN 1 ELSE 0)
      /\ rd'.dataGaps = rd.dataGaps + Cardinality(gaps)
      /\ rd'.dataIndexOld = Last(p.words).counter
      /\ rd'.packPreviousIndex = p.counter
      /\ rd.dataGaps \in Nat /\ rd.missingPackets \in Nat /\ rd.dataCount \in Nat
  <2> DEFINE mm == rd.missingPackets + (IF lost THEN 1 ELSE 0)
             gg == rd.dataGaps + Cardinality(gaps)
             oo == IF p.words = << >> THEN rd.dataIndexOld ELSE Last(p.words).counter
             nn == Len(p.words)
             ww == p.words
             cc == p.counter
  <2>1. rd' = [rd EXCEPT !.packet = @ + 1, !.buffer = ww, !.packetCount = @ + 1,
                         !.missingPackets = mm, !.dataGaps = gg, !.dataCount = @ + nn,
                         !.dataIndexOld = oo, !.packPreviousIndex = cc]
    BY Zenon DEF ReadPacket
  <2>2. oo = Last(p.words).counter
    BY <1>7
  <2>3. rd \in Readers(job.nch)
    BY DEF ReaderInv
  <2> HIDE DEF mm, gg, oo, nn, ww, cc
  <2>4. /\ rd'.iFile = f /\ rd'.end = rd.end /\ rd'.packet = q + 1 /\ rd'.buffer = ww
        /\ rd'.packetCount = rd.packetCount + 1 /\ rd'.dataCount = rd.dataCount + nn
        /\ rd'.missingPackets = mm /\ rd'.dataGaps = gg /\ rd'.dataIndexOld = oo
        /\ rd'.packPreviousIndex = cc
        /\ rd.dataGaps \in Nat /\ rd.missingPackets \in Nat /\ rd.dataCount \in Nat
    BY <2>1, <2>3 DEF Readers
  <2> QED
    BY <2>2, <2>4 DEF mm, gg, nn, ww, cc
<1>10. Position' = K + 1
  <2>1. Position' = Len(Taken(files, f - 1)) + ((q + 1) - 1)
    BY <1>1, <1>2, <1>9 DEF Position
  <2>2. Len(Taken(files, f - 1)) \in Nat
    BY <1>1, FileOfPackets
  <2>3. K = Len(Taken(files, f - 1)) + (q - 1)
    BY <1>5
  <2> DEFINE a == Len(Taken(files, f - 1))
  <2>4. a \in Nat /\ q \in Int /\ Position' = a + ((q + 1) - 1) /\ K = a + (q - 1)
    BY <1>1, <2>1, <2>2, <2>3
  <2> HIDE DEF a, q
  <2> QED
    BY <2>4, SMTT(30)
<1>11. PICK r, x : r = p /\ x = Passed
  BY SMTT(30)
<1>12. LastRead(r)'
  <2>1. rd'.dataCount # 0
    <3> HIDE DEF p
    <3> QED
      BY <1>7, <1>9, SMTT(30)
  <2> QED
    BY <1>9, <1>11, <2>1 DEF LastRead
<1>13. Passed' = x \o r.words /\ x \in Seq(Words(job.nch))
  <2>1. \A w : HandedOut(w) => HandedOut(w)'
    BY PassedReadPacket
  <2> QED
    BY <1>1, <1>9, <1>11, <2>1, PassedThen
<1>14. ASSUME rd'.dataGaps = 0, rd'.missingPackets = 0 PROVE PassedRun(K + 1, x \o r.words)
  <2>1. rd.dataGaps = 0 /\ rd.missingPackets = 0 /\ Cardinality(gaps) = 0 /\ ~lost
    <3>1. (IF lost THEN 1 ELSE 0) \in Nat
      OBVIOUS
    <3> HIDE DEF gaps, lost
    <3> QED
      BY <1>8, <1>9, <1>14, <3>1
  <2>2. gaps = {}
    <3> HIDE DEF gaps
    <3> QED
      BY <1>8, <2>1, FS_EmptySet
  <2>3. ASSUME K # 0 PROVE Contiguous(K)
    <3>1. LastRead(Arrivals[K]) /\ rd.packetCount = K
      BY <1>4, <2>3
    <3>2. Follows(p.words[1].counter, Last(Arrivals[K].words).counter, WordMod)
      <4>1. 1 \in DOMAIN p.words /\ 1 \notin gaps
        BY <1>7, <2>2, SMTT(30)
      <4>2. Follows(p.words[1].counter, old(1), WordMod) \/ rd.dataCount + 1 - 1 = 0
        BY <4>1, SMTT(30)
      <4>3. rd.dataCount + 1 - 1 = rd.dataCount
        <5>1. \A c \in Nat : c + 1 - 1 = c
          BY SMTT(30)
        <5> QED
          BY <1>9, <5>1
      <4> QED
        BY <3>1, <4>2, <4>3, SMTT(30) DEF LastRead
    <3>3. K + 1 >= StartupPackets => Follows(p.counter, Arrivals[K].counter, PackMod)
      BY <2>1, <3>1, SMTT(30) DEF LastRead
    <3>4. ~Shown(K)
      BY <1>5, <3>2, <3>3 DEF Shown
    <3>5. K \in 1 .. Len(Arrivals) - 1
      <4>1. Len(Arrivals) \in Nat
        BY FlattenType, LenProperties DEF ReaderInv, Arrivals
      <4> QED
        BY <1>4, <1>5, <2>3, <4>1, SMTT(30)
    <3> QED
      BY <1>3, <3>4, <3>5 DEF CountersTell
  <2>4. PassedRun(K, x)
    BY <1>4, <1>11, <2>1
  <2>5. PassedRun(K + 1, x \o Arrivals[K + 1].words)
    BY <1>3, <1>4, <1>5, <1>13, <2>3, <2>4, RunGrows
  <2> QED
    BY <1>5, <1>11, <2>5
<1>15. PassedRun(K + 1, x \o r.words) => PassedRun(K + 1, x \o r.words)'
  BY <1>3 DEF PassedRun, RunOfSent
<1>16. Arrivals'[Position'] = r
  BY <1>3, <1>5, <1>10, <1>11
<1>17. Position' \in Nat /\ Position' <= Len(Arrivals') /\ rd'.packetCount = Position'
  <2> HIDE DEF f, q, p, gaps, lost
  <2> QED
    BY <1>3, <1>4, <1>5, <1>9, <1>10, SMTT(30)
<1> HIDE DEF f, q, p, gaps, lost
<1>18. LastRead(Arrivals[Position])'
  BY <1>12, <1>16 DEF LastRead
<1>19. rd'.dataGaps = 0 /\ rd'.missingPackets = 0 => PassedRun(Position, Passed)'
  <2> SUFFICES ASSUME rd'.dataGaps = 0, rd'.missingPackets = 0 PROVE PassedRun(Position, Passed)'
    OBVIOUS
  <2>1. PassedRun(K + 1, x \o r.words)'
    BY <1>14, <1>15
  <2> QED
    BY <1>10, <1>13, <2>1
<1> QED
  BY <1>3, <1>17, <1>18, <1>19 DEF RunInv

LEMMA RunKept ==
  ASSUME RunInv, files' = files, job'.nch = job.nch, job'.nsamp = job.nsamp,
         /\ rd'.iFile = rd.iFile /\ rd'.packet = rd.packet /\ rd'.end = rd.end
         /\ rd'.packetCount = rd.packetCount /\ rd'.dataCount = rd.dataCount
         /\ rd'.packPreviousIndex = rd.packPreviousIndex /\ rd'.dataIndexOld = rd.dataIndexOld
         /\ rd'.dataGaps = rd.dataGaps /\ rd'.missingPackets = rd.missingPackets
  PROVE  RunInv'
<1>1. (CountersTell' <=> CountersTell) /\ Arrivals' = Arrivals
  BY DEF CountersTell, Arrivals, PartOfSent, Contiguous, Shown
<1>2. Position' = Position
  BY <1>1 DEF Position
<1>3. Passed' = Passed
  BY DEF Passed, Recorded, FileWords, PacketWords
<1>4. \A p : LastRead(p) => LastRead(p)'
  BY DEF LastRead
<1>5. \A k, x : PassedRun(k, x) => PassedRun(k, x)'
  BY <1>1 DEF PassedRun, RunOfSent
<1>6. LastRead(Arrivals[Position]) => LastRead(Arrivals[Position])'
  <2>1. PICK r : r = Arrivals[Position]
    OBVIOUS
  <2>2. Arrivals'[Position'] = r
    BY <1>1, <1>2, <2>1
  <2> QED
    BY <1>4, <2>1, <2>2 DEF LastRead
<1>7. PassedRun(Position, Passed) => PassedRun(Position, Passed)'
  <2>1. PICK k, x : k = Position /\ x = Passed
    OBVIOUS
  <2>2. PassedRun(k, x) => PassedRun(k, x)'
    BY <1>5
  <2>3. Position' = k /\ Passed' = x
    BY <1>2, <1>3, <2>1
  <2> QED
    BY <2>1, <2>2, <2>3
<1> QED
  BY <1>1, <1>2, <1>6, <1>7 DEF RunInv

LEMMA RunStep == ASSUME Inv, ImageInv, RunInv, [Next]_vars PROVE RunInv'
<1>0. ReaderInv /\ ReaderPlace /\ rd \in Readers(job.nch)
  BY DEF Inv, ImageInv, ReaderInv
<1>1. CASE Read
  BY <1>0, <1>1, RunNextFile, RunReadPacket DEF Read
<1>2. CASE readOldDatFiles
  <2>1. ReaderInv' /\ rd' = NewReader
    BY <1>2, ReaderInvStep DEF readOldDatFiles
  <2>2. NewReader' = NewReader
    BY DEF NewReader
  <2> QED
    BY <2>1, <2>2, RunAgain
<1>3. ASSUME UNCHANGED <<readerVars, job>> PROVE RunInv'
  BY <1>3, RunKept DEF readerVars
<1>4. ASSUME PopWord, UNCHANGED job PROVE RunInv'
  <2>1. /\ files' = files
        /\ rd'.iFile = rd.iFile /\ rd'.packet = rd.packet /\ rd'.end = rd.end
        /\ rd'.packetCount = rd.packetCount /\ rd'.dataCount = rd.dataCount
        /\ rd'.packPreviousIndex = rd.packPreviousIndex /\ rd'.dataIndexOld = rd.dataIndexOld
        /\ rd'.dataGaps = rd.dataGaps /\ rd'.missingPackets = rd.missingPackets
    BY <1>0, <1>4 DEF PopWord, Readers
  <2> QED
    BY <1>4, <2>1, RunKept
<1>5. CASE FitsWord \/ MisplaceWord \/ InterleavingWord \/ SmartWord \/ RawWord \/ CalibrateWord
  <2>1. PopWord /\ UNCHANGED job
    BY <1>5 DEF FitsWord, FitsLeft, MisplaceWord, InterleavingWord, SmartWord, RawWord, CalibrateWord,
                PlaceWord, InLoop
  <2> QED
    BY <1>4, <2>1
<1>6. CASE \/ FitsEnd \/ SaveCounts \/ DeleteDats \/ CompressFits
           \/ InterleavingEnd \/ SmartEnd \/ RawEnd \/ CalibrateEnd \/ Kill \/ UNCHANGED vars
  <2>1. UNCHANGED <<readerVars, job>>
    BY <1>6 DEF FitsEnd, FitsLeft, SaveCounts, DeleteDats, CompressFits, InterleavingEnd, SmartEnd, RawEnd,
                CalibrateEnd, Kill, AtEnd, vars
  <2> QED
    BY <1>3, <2>1
<1> QED
  BY <1>1, <1>2, <1>5, <1>6 DEF Next

-----------------------------------------------------------------------------
(* The samples of a run, for any number of channels.                       *)

LEMMA MoreTimes == \A b \in Nat \ {0} : \A d \in Nat : b * d \in Nat /\ b * d >= d /\ (d >= 1 => b * d >= b)
OBVIOUS

LEMMA TimesMinus == \A b, d, e \in Int : b * d - b * e = b * (d - e) /\ b * (d + e) = b * d + b * e
OBVIOUS

LEMMA TimesLess == \A b \in Nat \ {0} : \A d, e \in Int : b * d < b * e => d < e
OBVIOUS

LEMMA DivMod == \A b \in Nat \ {0} : \A n \in Int : n = b * (n \div b) + (n % b) /\ n % b \in 0 .. b - 1 /\ n \div b \in Int
OBVIOUS

LEMMA Unique ==
  ASSUME NEW b \in Nat \ {0}, NEW d \in Int, NEW e \in Int, NEW c \in 0 .. b - 1, NEW a \in 0 .. b - 1,
         b * d + c = b * e + a
  PROVE  d = e /\ c = a
<1>1. b * d < b * (e + 1) /\ b * e < b * (d + 1)
  <2>1. b * (e + 1) = b * e + b /\ b * (d + 1) = b * d + b
    BY TimesMinus
  <2>2. b * d \in Int /\ b * e \in Int
    OBVIOUS
  <2> DEFINE x == b * d
             y == b * e
  <2>3. x \in Int /\ y \in Int /\ x + c = y + a
    BY <2>2
  <2> HIDE DEF x, y
  <2>4. x < y + b /\ y < x + b
    BY <2>3
  <2> QED
    BY <2>1, <2>4 DEF x, y
<1>2. d < e + 1 /\ e < d + 1
  BY <1>1, TimesLess
<1>3. d = e
  BY <1>2
<1> QED
  BY <1>3

LEMMA RestOf == ASSUME NEW b \in Nat \ {0}, NEW d \in Int, NEW c \in 0 .. b - 1 PROVE (b * d + c) % b = c
<1> DEFINE n == b * d + c
           r == n % b
           e == n \div b
<1>1. n \in Int
  OBVIOUS
<1>n. n = b * d + c
  OBVIOUS
<1> HIDE DEF n
<1>2. n = b * e + r /\ r \in 0 .. b - 1 /\ e \in Int
  BY <1>1, DivMod
<1> HIDE DEF e, r
<1>3. b * d + c = b * e + r
  BY <1>2, <1>n
<1>4. c = r
  BY <1>2, <1>3, Unique
<1> QED
  BY <1>4 DEF r, n

(* s are the samples of channel c among the first l words of a run of b    *)
(* channels that starts with sample k.                                     *)
SamplesOfRun(b, k, c, l, s) ==
  /\ s \in Seq(Int)
  /\ b * (Len(s) - 1) + c < l /\ l <= b * Len(s) + c
  /\ \A j \in 1 .. Len(s) : s[j] = (b * (k + (j - 1)) + c) + 1

LEMMA RunSample ==
  ASSUME NEW b \in Nat \ {0}, NEW k \in Nat, NEW c \in 0 .. b - 1, NEW l \in Nat, NEW s,
         SamplesOfRun(b, k, c, l, s), NEW v, v = Word(b, b * k + l)
  PROVE  SamplesOfRun(b, k, c, l + 1, IF v.chID = c THEN Append(s, v.samp) ELSE s)
<1> DEFINE t == Len(s)
           n == b * k + l
<1>1. /\ s \in Seq(Int) /\ t \in Nat
      /\ b * (t - 1) + c < l /\ l <= b * t + c
      /\ \A j \in 1 .. t : s[j] = (b * (k + (j - 1)) + c) + 1
  BY LenProperties DEF SamplesOfRun
<1>2. n \in Nat /\ v.chID = n % b /\ v.samp = n + 1
  <2>1. b * k \in Nat
    BY MoreTimes
  <2> QED
    BY <2>1 DEF Word
<1>t. t = Len(s)
  OBVIOUS
<1>n. n = b * k + l
  OBVIOUS
<1> HIDE DEF t, n
<1>3. CASE l = b * t + c
  <2>1. n = b * (k + t) + c
    <3>1. b * (k + t) = b * k + b * t
      BY <1>1, TimesMinus
    <3>2. b * k \in Int /\ b * t \in Int
      BY <1>1
    <3> QED
      BY <1>3, <1>n, <3>1, <3>2
  <2>2. v.chID = c
    <3>1. k + t \in Int
      BY <1>1
    <3>2. (b * (k + t) + c) % b = c
      BY <3>1, RestOf
    <3> QED
      BY <1>2, <2>1, <3>2
  <2> DEFINE u == Append(s, v.samp)
  <2>3. /\ u \in Seq(Int) /\ Len(u) = t + 1 /\ u[t + 1] = n + 1
        /\ \A j \in 1 .. t : u[j] = s[j]
    <3>1. v.samp \in Int /\ v.samp = n + 1
      BY <1>2
    <3> QED
      BY <1>1, <1>t, <3>1, AppendProperties
  <2> HIDE DEF u
  <2>4. ASSUME NEW j \in 1 .. t + 1 PROVE u[j] = (b * (k + (j - 1)) + c) + 1
    <3>1. CASE j \in 1 .. t
      BY <1>1, <2>3, <3>1
    <3>2. CASE j \notin 1 .. t
      <4>1. j = t + 1 /\ j - 1 = t
        BY <1>1, <3>2
      <4> QED
        BY <2>1, <2>3, <4>1
    <3> QED
      BY <3>1, <3>2
  <2>5. b * ((t + 1) - 1) + c < l + 1 /\ l + 1 <= b * (t + 1) + c
    <3>1. (t + 1) - 1 = t /\ b * (t + 1) = b * t + b * 1 /\ b * 1 = b
      BY <1>1, TimesMinus
    <3>2. b * t \in Int
      BY <1>1
    <3> QED
      BY <1>3, <3>1, <3>2
  <2>6. SamplesOfRun(b, k, c, l + 1, u)
    BY <2>3, <2>4, <2>5 DEF SamplesOfRun
  <2> QED
    BY <2>2, <2>6 DEF u
<1>4. CASE l # b * t + c
  <2>1. v.chID # c
    <3> SUFFICES ASSUME v.chID = c PROVE FALSE
      OBVIOUS
    <3> DEFINE e == n \div b
    <3>1. n = b * e + c /\ e \in Int
      <4>1. n \in Int /\ n % b = c
        BY <1>2
      <4>2. n = b * e + (n % b) /\ e \in Int
        BY <4>1, DivMod
      <4> QED
        BY <4>1, <4>2
    <3> HIDE DEF e
    <3>2. b * (e - k) = b * e - b * k /\ e - k \in Int
      BY <3>1, TimesMinus
    <3>3. b * e \in Int /\ b * k \in Int /\ b * t \in Int
      BY <1>1, <3>1
    <3>4. l = b * (e - k) + c
      BY <1>n, <3>1, <3>2, <3>3
    <3>5. b * (e - k) < b * t /\ b * (t - 1) < b * (e - k)
      <4> DEFINE x == b * (e - k)
                 y == b * t
                 z == b * (t - 1)
      <4>1. x \in Int /\ y \in Int /\ z \in Int /\ l = x + c /\ l <= y + c /\ l # y + c /\ z + c < l
        BY <1>1, <1>4, <3>2, <3>3, <3>4, SMTT(30)
      <4> HIDE DEF x, y, z
      <4>2. x < y /\ z < x
        BY <4>1
      <4> QED
        BY <4>2 DEF x, y, z
    <3>6. e - k < t /\ t - 1 < e - k
      <4>1. t - 1 \in Int /\ t \in Int
        BY <1>1
      <4> QED
        BY <3>2, <3>5, <4>1, TimesLess
    <3> QED
      BY <1>1, <3>1, <3>6
  <2>2. b * (t - 1) + c < l + 1 /\ l + 1 <= b * t + c
    <3>1. b * (t - 1) \in Int /\ b * t \in Int
      BY <1>1
    <3> QED
      BY <1>1, <1>4, <3>1
  <2>3. SamplesOfRun(b, k, c, l + 1, s)
    BY <1>1, <1>t, <2>2 DEF SamplesOfRun
  <2> QED
    BY <2>1, <2>3
<1> QED
  BY <1>3, <1>4

RunFrom(b, k, w) == \A i \in 1 .. Len(w) : w[i] = Word(b, b * k + (i - 1))

LEMMA RunSamples ==
  ASSUME NEW b \in Nat \ {0}, NEW k \in Nat, NEW c \in 0 .. b - 1, NEW w \in Seq(Words(b)),
         RunFrom(b, k, w)
  PROVE  SamplesOfRun(b, k, c, Len(w), SamplesIn(w, c))
<1> DEFINE n == Len(w)
<1>1. PICK g : Selects(g, w, c) /\ SamplesIn(w, c) = g[n]
  BY SamplesRecursive
<1>2. n \in Nat
  BY LenProperties
<1>3. /\ g[0] = << >>
      /\ \A j \in 1 .. n : g[j] = IF w[j].chID = c THEN Append(g[j - 1], w[j].samp) ELSE g[j - 1]
      /\ \A j \in 1 .. n : w[j] = Word(b, b * k + (j - 1))
  BY <1>1 DEF Selects, RunFrom
<1> HIDE DEF n
<1> DEFINE T == {j \in 0 .. n : ~SamplesOfRun(b, k, c, j, g[j])}
<1>4. T = {}
  <2>1. SUFFICES ASSUME T # {} PROVE FALSE
    OBVIOUS
  <2>2. PICK m \in T : \A j \in T : m <= j
    <3>1. T \in SUBSET Nat
      BY <1>2
    <3> HIDE DEF T
    <3> QED
      BY <2>1, <3>1, SmallestNumber
  <2>3. m \in 0 .. n /\ ~SamplesOfRun(b, k, c, m, g[m])
    OBVIOUS
  <2>4. m # 0
    <3>1. g[0] \in Seq(Int) /\ Len(g[0]) = 0
      BY <1>3, EmptySeq
    <3>2. b * (0 - 1) + c < 0 /\ 0 <= b * 0 + c
      OBVIOUS
    <3>3. SamplesOfRun(b, k, c, 0, g[0])
      BY <3>1, <3>2 DEF SamplesOfRun
    <3> QED
      BY <2>3, <3>3
  <2>5. m \in 1 .. n /\ m - 1 \in 0 .. n /\ m - 1 \in Nat /\ ~(m <= m - 1) /\ (m - 1) + 1 = m
    BY <1>2, <2>3, <2>4
  <2>6. SamplesOfRun(b, k, c, m - 1, g[m - 1])
    <3>1. m - 1 \notin T
      BY <2>2, <2>5
    <3> QED
      BY <2>5, <3>1
  <2> DEFINE v == w[m]
             l == m - 1
             s == g[m - 1]
  <2>7. v = Word(b, b * k + l) /\ SamplesOfRun(b, k, c, l, s) /\ l \in Nat
    BY <1>3, <2>5, <2>6
  <2>8. g[m] = IF v.chID = c THEN Append(s, v.samp) ELSE s
    BY <1>3, <2>5
  <2> HIDE DEF v, l, s
  <2>9. SamplesOfRun(b, k, c, l + 1, IF v.chID = c THEN Append(s, v.samp) ELSE s)
    BY <2>7, RunSample
  <2>10. SamplesOfRun(b, k, c, m, g[m])
    BY <2>5, <2>8, <2>9 DEF l
  <2> QED
    BY <2>3, <2>10
<1> QED
  <2>1. n \in 0 .. n /\ n \notin T
    BY <1>2, <1>4
  <2>2. SamplesOfRun(b, k, c, n, g[n])
    BY <2>1
  <2> QED
    BY <1>1, <2>2 DEF n

(* The channels of a run are the first ones. *)
LEMMA RunIds ==
  ASSUME NEW b \in Nat \ {0}, NEW k \in Nat, NEW w \in Seq(Words(b)), RunFrom(b, k, w)
  PROVE  \E m \in Nat : m <= b /\ m <= Len(w) /\ Ids(w) = 0 .. m - 1
<1> DEFINE n == Len(w)
           m == IF n < b THEN n ELSE b
<1>1. n \in Nat /\ m \in Nat /\ m <= b /\ m <= n
  BY LenProperties
<1>2. \A i \in 1 .. n : w[i].chID = (b * k + (i - 1)) % b
  <2> SUFFICES ASSUME NEW i \in 1 .. n PROVE w[i].chID = (b * k + (i - 1)) % b
    OBVIOUS
  <2>1. w[i] = Word(b, b * k + (i - 1))
    BY DEF RunFrom
  <2>2. Word(b, b * k + (i - 1)).chID = (b * k + (i - 1)) % b
    BY DEF Word
  <2> QED
    BY <2>1, <2>2
<1>r. \A c \in 0 .. b - 1 : (b * k + c) % b = c
  BY RestOf, SMTT(30)
<1>3. ASSUME NEW c \in 0 .. m - 1 PROVE c \in Ids(w)
  <2>1. c + 1 \in 1 .. n /\ c \in 0 .. b - 1 /\ (c + 1) - 1 = c
    BY <1>1
  <2>2. w[c + 1].chID = (b * k + c) % b
    BY <1>2, <2>1
  <2> QED
    BY <1>r, <2>1, <2>2 DEF Ids
<1>4. ASSUME NEW i \in 1 .. n PROVE w[i].chID \in 0 .. m - 1
  <2> DEFINE x == b * k + (i - 1)
             y == x % b
  <2>1. b * k \in Nat /\ i - 1 \in Nat /\ i - 1 < n
    BY <1>1, MoreTimes
  <2>2. x \in Int
    BY <2>1
  <2>3. w[i].chID = y
    BY <1>2
  <2>x. x = b * k + (i - 1)
    OBVIOUS
  <2> HIDE DEF x
  <2>4. y \in 0 .. b - 1
    BY <2>2, DivMod
  <2> HIDE DEF y
  <2>5. CASE n < b
    <3>1. m = n /\ i - 1 \in 0 .. b - 1
      BY <1>1, <2>1, <2>5
    <3>2. (b * k + (i - 1)) % b = i - 1
      BY <1>r, <3>1, Zenon
    <3>3. w[i].chID = i - 1
      BY <1>2, <3>2
    <3> HIDE DEF m
    <3> QED
      BY <1>1, <2>1, <3>1, <3>3
  <2>6. CASE ~(n < b)
    BY <2>3, <2>4, <2>6
  <2> QED
    BY <2>5, <2>6
<1>5. Ids(w) = 0 .. m - 1
  <2> HIDE DEF m
  <2> QED
    BY <1>3, <1>4 DEF Ids
<1> QED
  BY <1>1, <1>5

-----------------------------------------------------------------------------
(* What is called good.                                                    *)

(* What SaveCounts has looked at stays as it was. *)
GoodInv ==
  dataGood =>
    /\ job.mode = "fits" /\ phase \in {"delete", "compress", "done", "killed"} /\ rd.end
    /\ rd.missingPackets = 0 /\ rd.dataGaps = 0
    /\ Cardinality(Channels(pixelsVectorMap)) = NumChannels
    /\ \A c \in Channels(pixelsVectorMap) : pixelsVectorMap[c] = << >>
    /\ \A h \in F!HDUs : F!RightCount(outf, h)

LEMMA GoodStep == ASSUME Inv, ImageInv, GoodInv, [Next]_vars PROVE GoodInv'
<1>0. JobInv
  BY DEF Inv
<1>1. CASE SaveCounts
  <2> SUFFICES ASSUME dataGood' PROVE GoodInv'
    BY DEF GoodInv
  <2>1. /\ phase = "save_counts" /\ phase' = "delete" /\ UNCHANGED <<readerVars, job, imageVars>>
        /\ rd.missingPackets = 0 /\ rd.dataGaps = 0
        /\ Cardinality(Channels(pixelsVectorMap)) = NumChannels
        /\ \A h \in F!HDUs : F!RightCount(outf, h)
    BY <1>1 DEF SaveCounts
  <2>2. job.mode = "fits" /\ rd.end
    BY <1>0, <2>1 DEF JobInv
  <2>3. \A c \in Channels(pixelsVectorMap) : pixelsVectorMap[c] = << >>
    BY <2>1, <2>2 DEF ImageInv, AfterLoop
  <2> QED
    BY <2>1, <2>2, <2>3 DEF GoodInv, readerVars, imageVars, F!RightCount, Channels
<1>2. ASSUME UNCHANGED dataGood, phase \notin {"delete", "compress", "done", "killed"} PROVE GoodInv'
  BY <1>2 DEF GoodInv
<1>3. CASE DeleteDats \/ CompressFits \/ Kill
  <2>1. /\ UNCHANGED <<readerVars, job, imageVars, dataGood>>
        /\ phase' \in {"compress", "done", "killed"}
    BY <1>3 DEF DeleteDats, CompressFits, Kill
  <2> QED
    BY <2>1 DEF GoodInv, readerVars, imageVars, F!RightCount, Channels
<1>4. CASE readOldDatFiles
  BY <1>4 DEF readOldDatFiles, GoodInv
<1>5. CASE UNCHANGED vars
  BY <1>5 DEF vars, GoodInv, readerVars, imageVars, diskVars, F!RightCount, Channels
<1>6. CASE Read \/ MisplaceWord \/ InterleavingWord \/ SmartWord \/ RawWord \/ CalibrateWord
  BY <1>2, <1>6, LoopSteps DEF Loops, diskVars
<1>7. CASE FitsWord \/ FitsEnd
  BY <1>2, <1>7 DEF FitsWord, FitsEnd, FitsLeft, InLoop, AtEnd
<1>8. CASE InterleavingEnd \/ SmartEnd \/ RawEnd \/ CalibrateEnd
  BY <1>2, <1>8 DEF InterleavingEnd, SmartEnd, RawEnd, CalibrateEnd, AtEnd
<1> QED
  BY <1>1, <1>3, <1>4, <1>5, <1>6, <1>7, <1>8 DEF Next

(* A readout called good is a run of what the board sent. *)
LEMMA GoodIsRun ==
  ASSUME Inv, ImageInv, RunInv, GoodInv, CountersTell, dataGood
  PROVE  \E k, w :
           /\ k \in Nat
           /\ job.nch \in Nat \ {0} /\ job.nsamp \in Nat /\ w \in Seq(Words(job.nch))
           /\ RunFrom(job.nch, k, w) /\ job.nch * k + Len(w) <= job.nch * job.nsamp
           /\ Converted(w, pixelsVectorMap, outf)
           /\ Ids(w) = 0 .. NumChannels - 1 /\ NumChannels <= job.nch
<1> DEFINE b == job.nch
           K == Position
           n == FirstWord(Arrivals[1])
           k == n \div b
<1>1. /\ job.mode = "fits" /\ rd.end /\ rd.missingPackets = 0 /\ rd.dataGaps = 0
      /\ Cardinality(Channels(pixelsVectorMap)) = NumChannels
  BY DEF GoodInv
<1>2. b \in Nat /\ job.nsamp \in Nat /\ rd.buffer = << >> /\ ReaderInv
  BY <1>1 DEF Inv, JobInv, ImageInv, ReaderPlace
<1>3. PICK w : HandedOut(w) /\ Converted(w, pixelsVectorMap, outf)
  BY <1>1 DEF ImageInv
<1>4. w \in Seq(Words(b)) /\ w = Passed
  BY <1>2, <1>3, ConcatEmptySeq DEF HandedOut
<1>5. /\ pixelsVectorMap \in [Ids(w) -> Seq(Int)] /\ IsFiniteSet(Ids(w)) /\ Cardinality(Ids(w)) = NumChannels
  BY <1>1, <1>3 DEF Converted, Buffers, Channels
<1>6. Len(w) \in Nat \ {0} /\ b # 0
  <2>1. Ids(w) # {}
    BY <1>5, FS_EmptySet, ReaderAssumption
  <2>2. PICK i \in 1 .. Len(w) : TRUE
    BY <2>1 DEF Ids
  <2>3. w[i] \in Words(b) /\ Len(w) \in Nat
    BY <1>4, ElementOfSeq, LenProperties
  <2>4. w[i].chID \in 0 .. b - 1
    BY <2>3 DEF Words
  <2> QED
    BY <1>2, <2>2, <2>3, <2>4
<1>7. K \in Nat /\ K <= Len(Arrivals) /\ PassedRun(K, w)
  BY <1>1, <1>4 DEF RunInv
<1>8. K # 0
  BY <1>6, <1>7, EmptySeq DEF PassedRun
<1>9. Arrivals \in Seq(Packets(b)) /\ Len(Arrivals) \in Nat /\ DOMAIN Arrivals = 1 .. Len(Arrivals)
  BY <1>2, FlattenType, LenProperties DEF ReaderInv, Arrivals
<1>10. 1 \in DOMAIN Arrivals /\ K \in DOMAIN Arrivals /\ Arrivals # << >>
  BY <1>7, <1>8, <1>9, EmptySeq
<1>11. /\ RunOfSent(w, n) /\ FirstWord(Arrivals[K]) + Len(Arrivals[K].words) = n + Len(w)
       /\ FirstWord(Arrivals[K]) + Len(Arrivals[K].words) <= b * job.nsamp
       /\ n \in Nat /\ n % b = 0
  BY <1>7, <1>8, <1>10 DEF PassedRun, CountersTell, PartOfSent
<1> HIDE DEF b, K, n
<1>12. n = b * k /\ k \in Nat
  <2>1. n = b * k + (n % b) /\ k \in Int
    <3>1. b \in Nat \ {0} /\ n \in Int
      BY <1>2, <1>6, <1>11
    <3>2. \A a \in Int : a = b * (a \div b) + (a % b) /\ a \div b \in Int
      BY <3>1, DivMod, Zenon
    <3> QED
      BY <3>1, <3>2, Zenon
  <2>2. n = b * k
    BY <1>2, <1>11, <2>1
  <2>3. ~(b * k < b * 0) /\ b \in Nat \ {0}
    BY <1>2, <1>6, <1>11, <2>2
  <2>4. k >= 0
    <3>1. CASE k < 0
      <4>1. -k \in Nat /\ -k >= 1 /\ b * (-k) >= b
        BY <2>1, <2>3, <3>1, MoreTimes
      <4>2. b * (-k) = -(b * k)
        BY <2>1, <2>3
      <4> QED
        BY <1>11, <2>1, <2>2, <2>3, <4>1, <4>2
    <3> QED
      BY <2>1, <3>1
  <2> QED
    BY <2>1, <2>2, <2>4
<1> HIDE DEF k
<1>13. RunFrom(b, k, w)
  <2> SUFFICES ASSUME NEW i \in 1 .. Len(w) PROVE w[i] = Word(b, b * k + (i - 1))
    BY DEF RunFrom
  <2>1. w[i] = Word(b, n + i - 1)
    BY <1>11 DEF RunOfSent, b
  <2>2. n + i - 1 = b * k + (i - 1)
    BY <1>11, <1>12
  <2> QED
    BY <2>1, <2>2
<1>14. b * k + Len(w) <= b * job.nsamp
  BY <1>11, <1>12
<1>15. Ids(w) = 0 .. NumChannels - 1 /\ NumChannels <= b
  <2>1. PICK m \in Nat : m <= b /\ m <= Len(w) /\ Ids(w) = 0 .. m - 1
    BY <1>2, <1>4, <1>6, <1>12, <1>13, RunIds
  <2>2. Cardinality(0 .. m - 1) = m
    <3> DEFINE a == m - 1
    <3>1. a \in Int /\ 0 \in Int /\ a - 0 + 1 = m /\ (0 > a <=> m = 0)
      OBVIOUS
    <3> HIDE DEF a
    <3>2. IsFiniteSet(0 .. a) /\ Cardinality(0 .. a) = IF 0 > a THEN 0 ELSE a - 0 + 1
      BY <3>1, FS_Interval
    <3> QED
      BY <3>1, <3>2 DEF a
  <2> QED
    BY <1>5, <2>1, <2>2
<1> QED
  BY <1>2, <1>3, <1>4, <1>6, <1>12, <1>13, <1>14, <1>15 DEF b

(* An HDU of it holds the whole of its channel. *)
LEMMA GoodChannel ==
  ASSUME ImageInv, GoodInv, dataGood, NEW b \in Nat \ {0}, NEW k \in Nat, NEW w \in Seq(Words(b)),
         RunFrom(b, k, w), Converted(w, pixelsVectorMap, outf),
         Ids(w) = 0 .. NumChannels - 1, NumChannels <= b, NEW h \in F!HDUs
  PROVE  /\ outf.pixExpected \in Nat
         /\ SamplesOfRun(b, k, h - 1, Len(w), SamplesIn(w, h - 1))
         /\ Len(SamplesIn(w, h - 1)) = outf.pixExpected
         /\ outf.data[h] = Negated(SamplesIn(w, h - 1))
<1> DEFINE E == outf.pixExpected
           c == h - 1
           x == Pixels(w, c)
           s == SamplesIn(w, c)
<1>1. NumChannels \in Nat \ {0} /\ h \in 1 .. NumChannels /\ c \in Ids(w) /\ c \in 0 .. b - 1
  BY ReaderAssumption DEF F!HDUs
<1>2. /\ E \in Nat /\ Writing(w, pixelsVectorMap, outf) /\ Ids(w) = DOMAIN pixelsVectorMap
      /\ pixelsVectorMap[c] = << >> /\ outf.pixelCounts[h] = E
  <2>1. Ids(w) = DOMAIN pixelsVectorMap /\ outf \in Images(Int)
    BY DEF Converted, Buffers
  <2>2. Cardinality(Ids(w)) = NumChannels
    BY <2>1 DEF GoodInv, Channels
  <2>3. pixelsVectorMap[c] = << >> /\ outf.pixelCounts[h] = E
    BY <1>1, <2>1 DEF GoodInv, Channels, F!RightCount
  <2> QED
    BY <2>1, <2>2, <2>3 DEF Converted, Images
<1>3. Place(Ids(w), c) = h
  <2>1. {d \in 0 .. NumChannels - 1 : d <= c} = 0 .. c
    BY <1>1
  <2>2. Cardinality(0 .. c) = h
    <3>1. c \in Int /\ 0 \in Int /\ c - 0 + 1 = h /\ ~(0 > c)
      BY <1>1
    <3> HIDE DEF c
    <3>2. IsFiniteSet(0 .. c) /\ Cardinality(0 .. c) = IF 0 > c THEN 0 ELSE c - 0 + 1
      BY <3>1, FS_Interval
    <3> QED
      BY <3>1, <3>2
  <2> QED
    BY <2>1, <2>2 DEF Place
<1>4. PICK p \in Seq(Int) : x = p \o << >> /\ Len(p) = E /\ outf.data[h] = FirstOf(p, E)
  BY <1>1, <1>2, <1>3 DEF Writing, WrittenPart
<1>5. x = p
  BY <1>4, ConcatEmptySeq
<1>6. FirstOf(p, E) = p
  <2> DEFINE y == FirstOf(p, E)
  <2>1. y \in Seq(Int) /\ Len(y) = (IF E < Len(p) THEN E ELSE Len(p)) /\ \A i \in 1 .. Len(y) : y[i] = p[i]
    BY <1>2, FirstOfIs
  <2> HIDE DEF y
  <2>2. Len(y) = Len(p)
    BY <1>2, <1>4, <2>1
  <2>3. y = p
    BY <2>1, <2>2, SeqEqual
  <2> QED
    BY <2>3 DEF y
<1>7. SamplesOfRun(b, k, c, Len(w), s)
  BY <1>1, RunSamples
<1>8. Len(s) = E
  <2>1. s \in Seq(Int)
    BY <1>7 DEF SamplesOfRun
  <2>2. Len(Negated(s)) = Len(s)
    <3>1. Len(s) \in Nat /\ DOMAIN s = 1 .. Len(s)
      BY <2>1, LenProperties
    <3> HIDE DEF s
    <3> QED
      BY <3>1 DEF Negated
  <2>3. x = Negated(s)
    BY DEF Pixels
  <2> QED
    BY <1>4, <1>5, <2>2, <2>3
<1>9. outf.data[h] = Negated(s)
  BY <1>4, <1>5, <1>6 DEF Pixels
<1> QED
  BY <1>2, <1>7, <1>8, <1>9

LEMMA GoodImage ==
  ASSUME Inv, ImageInv, RunInv, GoodInv, FaultsShow => CountersTell PROVE DataGoodSound
<1> SUFFICES ASSUME dataGood, CountersTell
             PROVE  \E k \in 0 .. job.nsamp - outf.pixExpected : \A h \in F!HDUs :
                      outf.data[h] = [i \in 1 .. outf.pixExpected |->
                                        -Word(job.nch, job.nch * (k + i - 1) + h - 1).samp]
  BY DEF DataGoodSound
<1> DEFINE b == job.nch
           E == outf.pixExpected
           N == job.nsamp
<1>1. PICK k, w :
           /\ k \in Nat
           /\ b \in Nat \ {0} /\ N \in Nat /\ w \in Seq(Words(b))
           /\ RunFrom(b, k, w) /\ b * k + Len(w) <= b * N
           /\ Converted(w, pixelsVectorMap, outf)
           /\ Ids(w) = 0 .. NumChannels - 1 /\ NumChannels <= b
  BY GoodIsRun
<1>2. ASSUME NEW h \in F!HDUs
      PROVE  /\ E \in Nat /\ SamplesOfRun(b, k, h - 1, Len(w), SamplesIn(w, h - 1))
             /\ Len(SamplesIn(w, h - 1)) = E /\ outf.data[h] = Negated(SamplesIn(w, h - 1))
  BY <1>1, GoodChannel
<1>3. 1 \in F!HDUs /\ F!HDUs \subseteq Nat
  BY ReaderAssumption DEF F!HDUs
<1> HIDE DEF b, E, N
<1>4. k \in 0 .. N - E
  <2>1. E \in Nat /\ b * (E - 1) + 0 < Len(w) /\ Len(w) \in Nat
    <3>1. SamplesOfRun(b, k, 1 - 1, Len(w), SamplesIn(w, 1 - 1)) /\ Len(SamplesIn(w, 1 - 1)) = E /\ E \in Nat
      BY <1>2, <1>3
    <3>2. 1 - 1 = 0
      OBVIOUS
    <3> QED
      BY <1>1, <3>1, <3>2, LenProperties DEF SamplesOfRun
  <2>2. b * k + b * (E - 1) < b * N
    <3> DEFINE x == b * k
               y == b * (E - 1)
               z == b * N
               l == Len(w)
    <3>1. x \in Int /\ y \in Int /\ z \in Int /\ l \in Nat /\ y + 0 < l /\ x + l <= z
      BY <1>1, <2>1
    <3> HIDE DEF x, y, z, l
    <3>2. x + y < z
      BY <3>1
    <3> QED
      BY <3>2 DEF x, y, z
  <2>3. b * (k + (E - 1)) < b * N
    <3>1. b * (k + (E - 1)) = b * k + b * (E - 1)
      BY <1>1, <2>1, TimesMinus
    <3> QED
      BY <2>2, <3>1
  <2>4. k + (E - 1) < N
    BY <1>1, <2>1, <2>3, TimesLess
  <2> QED
    BY <1>1, <2>1, <2>4
<1>5. ASSUME NEW h \in F!HDUs
      PROVE  outf.data[h] = [i \in 1 .. E |-> -Word(b, b * (k + i - 1) + h - 1).samp]
  <2> DEFINE s == SamplesIn(w, h - 1)
  <2>1. /\ E \in Nat /\ s \in Seq(Int) /\ Len(s) = E /\ outf.data[h] = Negated(s)
        /\ \A j \in 1 .. E : s[j] = (b * (k + (j - 1)) + (h - 1)) + 1
    BY <1>2 DEF SamplesOfRun
  <2> HIDE DEF s
  <2>2. DOMAIN s = 1 .. E
    BY <2>1, LenProperties
  <2>3. outf.data[h] = [i \in 1 .. E |-> -s[i]]
    BY <2>1, <2>2 DEF Negated
  <2>4. ASSUME NEW i \in 1 .. E PROVE s[i] = Word(b, b * (k + i - 1) + h - 1).samp
    <3>1. s[i] = (b * (k + (i - 1)) + (h - 1)) + 1
      BY <2>1
    <3>2. k + (i - 1) = k + i - 1
      BY <1>1
    <3> DEFINE y == b * (k + i - 1)
    <3>3. y \in Int /\ h \in Int
      BY <1>1, <1>3
    <3>4. s[i] = (y + (h - 1)) + 1
      BY <3>1, <3>2
    <3> HIDE DEF y
    <3>5. s[i] = (y + h - 1) + 1
      BY <3>3, <3>4
    <3>6. Word(b, y + h - 1).samp = (y + h - 1) + 1
      BY DEF Word
    <3> QED
      BY <3>5, <3>6 DEF y
  <2> QED
    BY <2>3, <2>4
<1> QED
  BY <1>4, <1>5 DEF b, E, N

-----------------------------------------------------------------------------
(* What the counters tell of packets that were sent.                       *)

(* Numbers whose counters follow each other do so but for whole periods. *)
LEMMA WrapsOnto ==
  ASSUME NEW m \in Nat \ {0, 1}, NEW a \in Nat, NEW b \in Nat, Follows(a % m, b % m, m)
  PROVE  (a - (b + 1)) % m = 0
<1> DEFINE qa == a \div m
           ra == a % m
           qb == b \div m
           rb == b % m
           t == ((ra - rb) + m) \div m
<1>1. /\ qa \in Int /\ ra \in 0 .. m - 1 /\ a = m * qa + ra
      /\ qb \in Int /\ rb \in 0 .. m - 1 /\ b = m * qb + rb
  <2>1. m \in Nat \ {0} /\ a \in Int /\ b \in Int
    OBVIOUS
  <2> QED
    BY <2>1, DivMod, Zenon
<1>2. ((ra - rb) + m) % m = 1
  BY DEF Follows
<1> HIDE DEF qa, ra, qb, rb
<1>3. t \in Int /\ (ra - rb) + m = m * t + 1
  <2>1. (ra - rb) + m \in Int /\ m \in Nat \ {0}
    BY <1>1
  <2> QED
    BY <1>2, <2>1, DivMod, Zenon
<1> HIDE DEF t
<1>4. a - (b + 1) = m * ((qa - qb) + (t - 1)) + 0
  <2>1. m * (qa - qb) = m * qa - m * qb /\ m * (t - 1) = m * t - m * 1
    BY <1>1, <1>3, TimesMinus
  <2>2. m * ((qa - qb) + (t - 1)) = m * (qa - qb) + m * (t - 1)
    BY <1>1, <1>3, TimesMinus
  <2> DEFINE x == m * qa
             y == m * qb
             z == m * t
  <2>3. x \in Int /\ y \in Int /\ z \in Int
    BY <1>1, <1>3
  <2>4. a = x + ra /\ b = y + rb /\ (ra - rb) + m = z + 1
    BY <1>1, <1>3
  <2>5. m * ((qa - qb) + (t - 1)) = (x - y) + (z - m)
    BY <2>1, <2>2
  <2> HIDE DEF x, y, z
  <2>6. a - (b + 1) = (x - y) + (z - m)
    BY <1>1, <2>3, <2>4
  <2>7. (x - y) + (z - m) \in Int
    BY <2>3
  <2> QED
    BY <2>5, <2>6, <2>7
<1>5. (m * ((qa - qb) + (t - 1)) + 0) % m = 0
  <2>1. (qa - qb) + (t - 1) \in Int /\ 0 \in 0 .. m - 1 /\ m \in Nat \ {0}
    BY <1>1, <1>3
  <2> HIDE DEF t
  <2> QED
    BY <2>1, RestOf
<1> QED
  BY <1>4, <1>5

(* A packet that the board sends has the words and the counters of its     *)
(* place among those sent.                                                 *)
LEMMA SentPacket ==
  ASSUME JobInv, NEW p \in ToSet(Stream(job.nch, job.perPacket, job.nsamp))
  PROVE  /\ PartOfSent(p) /\ Len(p.words) \in Nat \ {0}
         /\ Number(p) \in Nat /\ p.counter = Number(p) % PackMod
<1> DEFINE b == job.perPacket
           n == job.nch * job.nsamp
<1>1. b \in Nat \ {0} /\ job.nch \in Nat /\ job.nsamp \in Nat /\ n \in Nat
  <2>1. b \in Nat \ {0} /\ job.nch \in Nat /\ job.nsamp \in Nat
    BY DEF JobInv
  <2> QED
    BY <2>1
<1> DEFINE d == (n + b - 1) \div b
<1>2. PICK k \in 1 .. d : p = Packet(job.nch, b, n, k - 1)
  <2> DEFINE sent == Stream(job.nch, job.perPacket, job.nsamp)
  <2>1. p \in {sent[i] : i \in DOMAIN sent}
    BY DEF ToSet
  <2>2. sent = [i \in 1 .. d |-> Packet(job.nch, b, n, i - 1)]
    BY DEF Stream
  <2> HIDE DEF sent, b, d, n
  <2> QED
    BY <2>1, <2>2
<1> HIDE DEF b, n
<1>3. k \in Nat \ {0} /\ b * k <= n + b - 1
  <2>1. n + b - 1 \in Int
    BY <1>1
  <2>2. d \in Int /\ n + b - 1 = b * d + ((n + b - 1) % b) /\ (n + b - 1) % b \in 0 .. b - 1
    BY <1>1, <2>1, DivMod, Zenon
  <2> HIDE DEF d
  <2>3. k \in Nat \ {0} /\ k <= d
    BY <2>2
  <2>4. ~(b * d < b * k)
    BY <1>1, <2>2, <2>3, TimesLess
  <2> DEFINE y == b * d
             z == b * k
             r == (n + b - 1) % b
  <2>5. y \in Int /\ z \in Int /\ r \in Nat /\ n + b - 1 = y + r /\ ~(y < z)
    BY <1>1, <2>2, <2>3, <2>4
  <2> HIDE DEF y, z, r
  <2>6. z <= n + b - 1
    BY <2>5
  <2> QED
    BY <2>3, <2>6 DEF z
<1> DEFINE x == (k - 1) * b
           l == IF ((k - 1) + 1) * b < n THEN ((k - 1) + 1) * b ELSE n
<1>4. x \in Nat /\ x < n /\ l \in Nat /\ l - x \in Nat \ {0} /\ l <= n
  <2>1. x = b * (k - 1) /\ ((k - 1) + 1) * b = b * k
    BY <1>1, <1>3
  <2>2. b * k - b * 1 = b * (k - 1) /\ b * 1 = b
    BY <1>1, <1>3, TimesMinus
  <2>3. k - 1 \in Nat
    BY <1>3
  <2>4. b * (k - 1) \in Nat
    BY <1>1, <2>3, MoreTimes, Zenon
  <2> DEFINE z == b * k
  <2>5. z \in Int /\ x = z - b /\ x \in Nat /\ z <= n + b - 1 /\ l = IF z < n THEN z ELSE n
    BY <1>1, <1>3, <2>1, <2>2, <2>4
  <2> HIDE DEF z, x, l
  <2> QED
    BY <1>1, <2>5
<1>5. p.words = [i \in 1 .. l - x |-> Word(job.nch, x + i - 1)] /\ p.counter = (k - 1) % PackMod
  BY <1>2 DEF Packet
<1>6. x = b * (k - 1) + 0
  BY <1>1, <1>3
<1> HIDE DEF x, l
<1>7. Len(p.words) = l - x
  BY <1>4, <1>5
<1>8. FirstWord(p) = x
  <2>1. 1 \in 1 .. l - x /\ x + 1 - 1 = x /\ (x + 1) - 1 = x
    BY <1>4
  <2>2. p.words[1] = Word(job.nch, x)
    BY <1>5, <2>1
  <2>3. Word(job.nch, x).samp = x + 1
    BY DEF Word
  <2> QED
    BY <2>1, <2>2, <2>3 DEF FirstWord
<1>9. Number(p) = k - 1
  <2>1. x = b * (x \div b) + (x % b) /\ x % b \in 0 .. b - 1 /\ x \div b \in Int
    BY <1>1, <1>4, DivMod
  <2>2. k - 1 \in Int /\ 0 \in 0 .. b - 1 /\ b * (k - 1) + 0 = b * (x \div b) + (x % b)
    BY <1>1, <1>3, <1>6, <2>1
  <2>3. k - 1 = x \div b
    <3> DEFINE y == x \div b
               r == x % b
               m == k - 1
    <3>1. m \in Int /\ y \in Int /\ 0 \in 0 .. b - 1 /\ r \in 0 .. b - 1 /\ b * m + 0 = b * y + r
      BY <2>1, <2>2
    <3> HIDE DEF y, r, m
    <3>2. m = y
      BY <1>1, <3>1, Unique
    <3> QED
      BY <3>2 DEF m, y
  <2> QED
    BY <1>8, <2>3 DEF Number, b
<1>10. p.words # << >>
  <2>1. Len(<< >>) = 0
    OBVIOUS
  <2> QED
    BY <1>4, <1>7, <2>1
<1>11. PartOfSent(p)
  <2>1. x + (l - x) = l
    BY <1>4
  <2>2. l <= job.nch * job.nsamp
    BY <1>4 DEF n
  <2>3. FirstWord(p) \in Nat
    BY <1>4, <1>8
  <2>4. p.words = [i \in 1 .. Len(p.words) |-> Word(job.nch, FirstWord(p) + i - 1)]
    BY <1>5, <1>7, <1>8, Zenon
  <2>5. FirstWord(p) + Len(p.words) <= job.nch * job.nsamp
    BY <1>7, <1>8, <2>1, <2>2, Zenon
  <2> QED
    BY <1>10, <2>3, <2>4, <2>5, Zenon DEF PartOfSent
<1> QED
  BY <1>3, <1>4, <1>5, <1>7, <1>9, <1>11

LEMMA CountersShow == ASSUME Inv, FaultsShow PROVE CountersTell
<1> DEFINE N == Len(Arrivals)
<1>1. JobInv /\ ReaderInv
  BY DEF Inv
<1>2. Arrivals \in Seq(Packets(job.nch)) /\ N \in Nat /\ DOMAIN Arrivals = 1 .. N
  BY <1>1, FlattenType, LenProperties DEF ReaderInv, Arrivals
<1> HIDE DEF N
<1>3. ASSUME NEW j \in DOMAIN Arrivals
      PROVE  /\ PartOfSent(Arrivals[j]) /\ Len(Arrivals[j].words) \in Nat \ {0}
             /\ Number(Arrivals[j]) \in Nat /\ Arrivals[j].counter = Number(Arrivals[j]) % PackMod
  <2>1. Arrivals[j] \in ToSet(Stream(job.nch, job.perPacket, job.nsamp))
    BY <1>3 DEF FaultsShow, ToSet
  <2> QED
    BY <1>1, <2>1, SentPacket
<1>4. ASSUME NEW j \in 1 .. N - 1 PROVE Contiguous(j) \/ Shown(j)
  <2> DEFINE p == Arrivals[j]
             q == Arrivals[j + 1]
             f == FirstWord(p)
             g == FirstWord(q)
             l == Len(p.words)
  <2>1. j \in DOMAIN Arrivals /\ j + 1 \in DOMAIN Arrivals
    BY <1>2
  <2>2. /\ PartOfSent(p) /\ l \in Nat \ {0} /\ Number(p) \in Nat /\ p.counter = Number(p) % PackMod
        /\ PartOfSent(q) /\ Len(q.words) \in Nat \ {0} /\ Number(q) \in Nat
        /\ q.counter = Number(q) % PackMod
    BY <1>3, <2>1
  <2>3. f \in Nat /\ g \in Nat /\ (f + l) - 1 \in Nat
    <3>1. f \in Nat /\ g \in Nat
      BY <2>2 DEF PartOfSent
    <3> HIDE DEF f, l
    <3> QED
      BY <2>2, <3>1
  <2>4. Last(p.words).counter = ((f + l) - 1) % WordMod
    <3>1. p.words = [i \in 1 .. l |-> Word(job.nch, f + i - 1)] /\ l \in 1 .. l
      BY <2>2 DEF PartOfSent
    <3>2. p.words[l] = Word(job.nch, f + l - 1)
      BY <3>1
    <3>3. Word(job.nch, f + l - 1).counter = (f + l - 1) % WordMod
      BY DEF Word
    <3>4. f + l - 1 = (f + l) - 1
      <4> HIDE DEF f, l
      <4> QED
        BY <2>2, <2>3
    <3> QED
      BY <3>2, <3>3, <3>4 DEF Last
  <2>5. q.words[1].counter = g % WordMod
    <3>1. q.words = [i \in 1 .. Len(q.words) |-> Word(job.nch, g + i - 1)] /\ 1 \in 1 .. Len(q.words)
      BY <2>2 DEF PartOfSent
    <3>2. q.words[1] = Word(job.nch, g + 1 - 1) /\ g + 1 - 1 = g
      BY <2>3, <3>1
    <3>3. Word(job.nch, g).counter = g % WordMod
      BY DEF Word
    <3> QED
      BY <3>2, <3>3
  <2>6. CASE WordsLost(j) = 0
    <3>1. g - (f + l) = 0
      BY <2>6 DEF WordsLost
    <3>2. g = f + l
      <4> HIDE DEF f, g, l
      <4> QED
        BY <2>2, <2>3, <3>1
    <3> QED
      BY <3>2 DEF Contiguous
  <2>7. CASE WordsLost(j) % WordMod # 0
    <3>1. SUFFICES ASSUME Follows(g % WordMod, ((f + l) - 1) % WordMod, WordMod) PROVE FALSE
      BY <2>4, <2>5 DEF Shown
    <3>2. (g - (((f + l) - 1) + 1)) % WordMod = 0
      BY <2>3, <3>1, ReaderAssumption, WrapsOnto
    <3>3. g - (((f + l) - 1) + 1) = g - (f + l)
      <4> HIDE DEF f, g, l
      <4> QED
        BY <2>2, <2>3
    <3>4. WordsLost(j) = g - (f + l)
      BY DEF WordsLost
    <3> QED
      BY <2>7, <3>2, <3>3, <3>4
  <2>8. CASE j + 1 >= StartupPackets /\ PacketsLost(j) % PackMod # 0
    <3>1. SUFFICES ASSUME Follows(Number(q) % PackMod, Number(p) % PackMod, PackMod) PROVE FALSE
      BY <2>2, <2>8 DEF Shown
    <3>2. (Number(q) - (Number(p) + 1)) % PackMod = 0
      BY <2>2, <3>1, ReaderAssumption, WrapsOnto
    <3> QED
      BY <2>8, <3>2 DEF PacketsLost
  <2> QED
    BY <2>6, <2>7, <2>8 DEF FaultsShow, N
<1> QED
  BY <1>3, <1>4 DEF CountersTell, FaultsShow, N

(* "data good" is never said of an image that is not a contiguous run of   *)
(* the samples the board sent, as long as what is lost in one place is not *)
(* a whole period of the counters: of the words', and after the start of   *)
(* the packets' too.  Then nothing in the data files tells                 *)
(* (dataFileReader.cpp, getWord; bin_to_fits and save_counts).             *)
THEOREM GoodDataAreARun == Spec => []DataGoodSound
<1>1. Inv /\ ImageInv /\ RunInv /\ [Next]_vars => RunInv'
  BY RunStep
<1>2. Inv /\ ImageInv /\ GoodInv /\ [Next]_vars => GoodInv'
  BY GoodStep
<1>3. Init => RunInv /\ GoodInv
  <2>1. Init => ReaderInv /\ rd = NewReader
    BY ReaderInvInit DEF Init
  <2> QED
    BY <2>1, RunFresh DEF Init, GoodInv
<1>4. Inv /\ ImageInv /\ RunInv /\ GoodInv => DataGoodSound
  BY CountersShow, GoodImage
<1> QED
  BY <1>1, <1>2, <1>3, <1>4, Layers, PTL DEF Spec

===============================================================================
