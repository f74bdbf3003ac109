---------------------------- MODULE SequencerProofs ----------------------------
(***************************************************************************)
(* The legacy compiler's arithmetic, for every number; the code it makes,  *)
(* for every file, set of variables and sequence of loads and changes that *)
(* fail or not; and the clocks the board takes for that code.              *)
(*                                                                         *)
(* The clocks.  A profile of code has its clocks from the beginning to each*)
(* place, and the loops open there (Profile).  While a file whose loops all*)
(* end with endsync is compiled, loopInTime holds differences of them      *)
(* (Timed), as long as no loop begins after another has ended: so what     *)
(* endSyncFunc sums up are the clocks since the instruction of its loop    *)
(* (ClocksAre), and with its delay they are a multiple of 20 (LapsWhole).  *)
(* On the board a loop may be repeated any number of times: the clock is   *)
(* not the profile's, but differs from it by a multiple of 20 at every     *)
(* place and for every open loop (Running).                                *)
(***************************************************************************)
EXTENDS SequencerRuns, SequenceFacts

(* What the delay of endsync is for: with it and its own execution time, an*)
(* iteration takes a multiple of 20 clocks, and the delay is never 0, which*)
(* delayFunc refuses and the board does not execute, nor longer than a     *)
(* period (sequencerHandler::endSyncFunc).                                 *)
THEOREM SyncDelayCompletes ==
  ASSUME NEW numClks \in Int
  PROVE  /\ SyncDelay(numClks) \in 1 .. MULT_FOR_SYNC
         /\ (numClks + DELAY_EXEC_TIME + SyncDelay(numClks)) % MULT_FOR_SYNC = 0
<1> DEFINE rest == numClks % 20
           n == numClks \div 20
<1>1. rest \in 0 .. 19 /\ n \in Int /\ numClks = 20 * n + rest
  OBVIOUS
<1>2. CASE 20 - rest > 8
  <2>1. SyncDelay(numClks) = 12 - rest
    BY <1>2 DEF SyncDelay, MULT_FOR_SYNC, DELAY_EXEC_TIME
  <2>2. numClks + 8 + SyncDelay(numClks) = 20 * (n + 1)
    BY <1>1, <2>1
  <2> QED
    BY <1>1, <1>2, <2>1, <2>2 DEF MULT_FOR_SYNC, DELAY_EXEC_TIME
<1>3. CASE ~(20 - rest > 8)
  <2>1. SyncDelay(numClks) = 32 - rest
    BY <1>3 DEF SyncDelay, MULT_FOR_SYNC, DELAY_EXEC_TIME
  <2>2. numClks + 8 + SyncDelay(numClks) = 20 * (n + 2)
    BY <1>1, <2>1
  <2> QED
    BY <1>1, <1>3, <2>1, <2>2 DEF MULT_FOR_SYNC, DELAY_EXEC_TIME
<1> QED
  BY <1>2, <1>3

-----------------------------------------------------------------------------
(* What a compilation has made so far.  The code is that of the lines, with *)
(* the loops that are open on a stack; every variable has a value.          *)

Paired(names, values) ==
  \E X : names \in Seq(X) /\ values \in Seq(X) /\ Len(names) = Len(values)

Ops == {"loop", "delay", "status", "endLoop"}

Coded(code) ==
  /\ \E X : code \in Seq(X)
  /\ \A i \in DOMAIN code : code[i].op \in Ops
  /\ Nests(code)

(* Open loops are one inside the other, and around the loops ended or after *)
(* them.                                                                    *)
Open(code, stack) ==
  /\ stack \in Seq(Nat)
  /\ \A k \in DOMAIN stack :
       /\ stack[k] \in DOMAIN code /\ code[stack[k]].op = "loop"
       /\ \A i \in Ended(code) : stack[k] < code[i].n \/ stack[k] > i
       /\ \A j \in DOMAIN stack : j < k => stack[j] < stack[k]

Compilation(c) ==
  c = [code |-> c.code, varsName |-> c.varsName, varsValue |-> c.varsValue,
       loopInitAddress |-> c.loopInitAddress, loopInTime |-> c.loopInTime, err |-> c.err]

CodeInv(c) ==
  /\ Compilation(c)
  /\ Coded(c.code) /\ Open(c.code, c.loopInitAddress)
  /\ Paired(c.varsName, c.varsValue)

LEMMA Appended ==
  ASSUME NEW X, NEW s \in Seq(X), NEW e
  PROVE  /\ Append(s, e) \in Seq(X \cup {e}) /\ Len(Append(s, e)) = Len(s) + 1
         /\ Len(s) \in Nat /\ DOMAIN s = 1 .. Len(s) /\ DOMAIN Append(s, e) = 1 .. Len(s) + 1
         /\ \A i \in 1 .. Len(s) : Append(s, e)[i] = s[i]
         /\ Append(s, e)[Len(s) + 1] = e
<1>1. s \in Seq(X \cup {e}) /\ e \in X \cup {e}
  BY SeqMonotonic
<1>2. Append(s, e) \in Seq(X \cup {e}) /\ Len(Append(s, e)) = Len(s) + 1
      /\ \A i \in 1 .. Len(s) : Append(s, e)[i] = s[i]
      /\ Append(s, e)[Len(s) + 1] = e
  BY <1>1, AppendProperties
<1> QED
  BY <1>2, LenProperties

(* The code may grow by an instruction that is not the end of a loop.       *)
LEMMA CodeGrows ==
  ASSUME NEW code, Coded(code), NEW stack, Open(code, stack), NEW op \in Ops \ {"endLoop"}, NEW n
  PROVE  LET longer == Append(code, [op |-> op, n |-> n])
         IN Coded(longer) /\ Open(longer, stack)
<1> DEFINE e == [op |-> op, n |-> n]
           longer == Append(code, e)
           m == Len(code)
<1>1. PICK X : code \in Seq(X)
  BY DEF Coded
<1>2. /\ longer \in Seq(X \cup {e}) /\ m \in Nat /\ DOMAIN code = 1 .. m
      /\ DOMAIN longer = 1 .. m + 1 /\ longer[m + 1] = e /\ e.op = op
      /\ \A i \in 1 .. m : longer[i] = code[i]
  BY <1>1, Appended
<1> HIDE DEF longer, m, e
<1>3. Ended(longer) = Ended(code) /\ Ended(code) \subseteq 1 .. m
  <2>1. \A i \in DOMAIN longer : i \in 1 .. m \/ i = m + 1
    BY <1>2
  <2>2. 1 .. m \subseteq DOMAIN longer
    BY <1>2
  <2> QED
    BY <1>2, <2>1, <2>2 DEF Ended
<1>4. Nests(longer)
  <2> SUFFICES ASSUME NEW i \in Ended(code)
               PROVE  /\ longer[i].n \in 1 .. i - 1 /\ longer[longer[i].n].op = "loop"
                      /\ \A j \in Ended(code) : i < j => longer[j].n < longer[i].n \/ longer[j].n > i
    BY <1>3 DEF Nests
  <2>1. /\ code[i].n \in 1 .. i - 1 /\ code[code[i].n].op = "loop"
        /\ \A j \in Ended(code) : i < j => code[j].n < code[i].n \/ code[j].n > i
    BY DEF Coded, Nests
  <2>2. i \in 1 .. m /\ code[i].n \in 1 .. m
    BY <1>2, <1>3, <2>1
  <2> QED
    BY <1>2, <1>3, <2>1, <2>2
<1>5. \A i \in DOMAIN longer : longer[i].op \in Ops
  <2>1. \A i \in DOMAIN longer : i \in 1 .. m \/ i = m + 1
    BY <1>2
  <2> QED
    BY <1>2, <2>1 DEF Coded
<1>6. Open(longer, stack)
  <2> SUFFICES ASSUME NEW k \in DOMAIN stack
               PROVE  /\ stack[k] \in DOMAIN longer /\ longer[stack[k]].op = "loop"
                      /\ \A i \in Ended(code) : stack[k] < longer[i].n \/ stack[k] > i
    BY <1>3 DEF Open
  <2>1. /\ stack[k] \in 1 .. m /\ code[stack[k]].op = "loop"
        /\ \A i \in Ended(code) : stack[k] < code[i].n \/ stack[k] > i
    BY <1>2 DEF Open
  <2> QED
    BY <1>2, <1>3, <2>1
<1>7. Coded(longer) /\ Open(longer, stack)
  BY <1>2, <1>4, <1>5, <1>6 DEF Coded
<1> QED
  BY <1>7 DEF longer, e

(* A loop is opened. *)
LEMMA LoopOpened ==
  ASSUME NEW code, Coded(code), NEW stack, Open(code, stack), NEW n
  PROVE  LET longer == Append(code, [op |-> "loop", n |-> n])
         IN Coded(longer) /\ Open(longer, Append(stack, Len(code) + 1))
<1> DEFINE e == [op |-> "loop", n |-> n]
           longer == Append(code, e)
           m == Len(code)
           higher == Append(stack, m + 1)
           d == Len(stack)
<1>1. Coded(longer) /\ Open(longer, stack)
  BY CodeGrows DEF Ops
<1>2. PICK X : code \in Seq(X)
  BY DEF Coded
<1>3. /\ m \in Nat /\ DOMAIN code = 1 .. m
      /\ DOMAIN longer = 1 .. m + 1 /\ longer[m + 1] = e /\ e.op = "loop"
      /\ \A i \in 1 .. m : longer[i] = code[i]
  BY <1>2, Appended
<1> HIDE DEF longer, m, e
<1>4. /\ stack \in Seq(Nat) /\ d \in Nat /\ DOMAIN stack = 1 .. d
      /\ higher \in Seq(Nat) /\ DOMAIN higher = 1 .. d + 1 /\ higher[d + 1] = m + 1
      /\ \A k \in 1 .. d : higher[k] = stack[k]
  <2>1. stack \in Seq(Nat) /\ m + 1 \in Nat
    BY <1>3 DEF Open
  <2>2. Nat \cup {m + 1} = Nat
    BY <2>1
  <2> QED
    BY <2>1, <2>2, Appended
<1> HIDE DEF higher, d
<1>5. \A i \in Ended(longer) : i \in 1 .. m
  <2>1. \A i \in DOMAIN longer : i \in 1 .. m \/ i = m + 1
    BY <1>3
  <2> QED
    BY <1>3, <2>1 DEF Ended
<1>6. ASSUME NEW k \in 1 .. d + 1
      PROVE  /\ higher[k] \in DOMAIN longer /\ longer[higher[k]].op = "loop"
             /\ \A i \in Ended(longer) : higher[k] < longer[i].n \/ higher[k] > i
             /\ \A j \in 1 .. d + 1 : j < k => higher[j] < higher[k]
  <2>1. CASE k = d + 1
    <3>1. \A i \in Ended(longer) : m + 1 > i
      BY <1>3, <1>5
    <3>2. ASSUME NEW j \in 1 .. d + 1, j < k PROVE higher[j] < m + 1
      <4>1. j \in 1 .. d
        BY <1>4, <2>1, <3>2
      <4>2. stack[j] \in 1 .. m
        BY <1>3, <1>4, <4>1 DEF Open
      <4> QED
        BY <1>3, <1>4, <4>1, <4>2
    <3>3. m + 1 \in DOMAIN longer
      BY <1>3
    <3> QED
      BY <1>3, <1>4, <2>1, <3>1, <3>2, <3>3
  <2>2. CASE k \in 1 .. d
    <3>1. /\ stack[k] \in DOMAIN longer /\ longer[stack[k]].op = "loop"
          /\ \A i \in Ended(longer) : stack[k] < longer[i].n \/ stack[k] > i
          /\ \A j \in 1 .. d : j < k => stack[j] < stack[k]
      BY <1>1, <1>4, <2>2 DEF Open
    <3>2. \A j \in 1 .. d + 1 : j < k => j \in 1 .. d
      BY <1>4, <2>2
    <3> QED
      BY <1>4, <2>2, <3>1, <3>2
  <2> QED
    BY <1>4, <2>1, <2>2
<1>7. Open(longer, higher)
  BY <1>4, <1>6 DEF Open
<1> QED
  BY <1>1, <1>7 DEF longer, higher, m, e

(* The innermost open loop is ended. *)
LEMMA LoopEnded ==
  ASSUME NEW code, Coded(code), NEW stack, Open(code, stack), stack # << >>
  PROVE  LET longer == Append(code, [op |-> "endLoop", n |-> Last(stack)])
         IN Coded(longer) /\ Open(longer, Front(stack))
<1> DEFINE d == Len(stack)
           top == Last(stack)
           rest == Front(stack)
           e == [op |-> "endLoop", n |-> top]
           longer == Append(code, e)
           m == Len(code)
<1>1. PICK X : code \in Seq(X)
  BY DEF Coded
<1>2. /\ longer \in Seq(X \cup {e}) /\ m \in Nat /\ DOMAIN code = 1 .. m
      /\ DOMAIN longer = 1 .. m + 1 /\ longer[m + 1] = e /\ e.op = "endLoop" /\ e.n = top
      /\ \A i \in 1 .. m : longer[i] = code[i]
  BY <1>1, Appended
<1> HIDE DEF longer, e, m
<1>3. /\ d \in Nat \ {0} /\ DOMAIN stack = 1 .. d /\ stack[d] = top
      /\ rest \in Seq(Nat) /\ DOMAIN rest = 1 .. d - 1 /\ \A k \in 1 .. d - 1 : rest[k] = stack[k]
  <2>1. stack \in Seq(Nat)
    BY DEF Open
  <2>2. d \in Nat \ {0} /\ DOMAIN stack = 1 .. d
    BY <2>1, EmptySeq, LenProperties
  <2>3. stack[d] = top
    BY DEF Last
  <2>4. rest = SubSeq(stack, 1, d - 1)
    BY DEF Front
  <2> HIDE DEF d, rest
  <2>5. \A k \in 1 .. d - 1 : stack[k] \in Nat
    BY <2>1, <2>2, ElementOfSeq DEF d
  <2>6. d - 1 \in Int /\ (d - 1) - 1 + 1 = d - 1
    BY <2>2
  <2>7. /\ SubSeq(stack, 1, d - 1) \in Seq(Nat)
        /\ Len(SubSeq(stack, 1, d - 1)) = IF 1 <= d - 1 THEN (d - 1) - 1 + 1 ELSE 0
        /\ \A k \in 1 .. (d - 1) - 1 + 1 : SubSeq(stack, 1, d - 1)[k] = stack[1 + k - 1]
    BY <2>5, <2>6, SubSeqProperties
  <2>8. Len(rest) = d - 1
    BY <2>2, <2>4, <2>6, <2>7
  <2>9. DOMAIN rest = 1 .. d - 1
    BY <2>4, <2>7, <2>8, LenProperties
  <2>10. \A k \in 1 .. d - 1 : rest[k] = stack[k]
    <3> SUFFICES ASSUME NEW k \in 1 .. d - 1 PROVE rest[k] = stack[k]
      OBVIOUS
    <3>1. 1 + k - 1 = k
      BY <2>2
    <3> QED
      BY <2>4, <2>6, <2>7, <3>1
  <2> QED
    BY <2>2, <2>3, <2>4, <2>7, <2>9, <2>10
<1> HIDE DEF d, top, rest
<1>4. /\ top \in 1 .. m /\ code[top].op = "loop"
      /\ \A i \in Ended(code) : top < code[i].n \/ top > i
      /\ \A j \in 1 .. d - 1 : stack[j] < top
  <2>1. d \in DOMAIN stack
    BY <1>3
  <2>2. \A j \in 1 .. d - 1 : j \in DOMAIN stack /\ j < d
    BY <1>3
  <2> QED
    BY <1>2, <1>3, <2>1, <2>2 DEF Open
<1>5. Ended(longer) = Ended(code) \cup {m + 1} /\ Ended(code) \subseteq 1 .. m
  <2>1. \A i \in DOMAIN longer : i \in 1 .. m \/ i = m + 1
    BY <1>2
  <2>2. 1 .. m \subseteq DOMAIN longer /\ m + 1 \in DOMAIN longer
    BY <1>2
  <2> QED
    BY <1>2, <2>1, <2>2 DEF Ended
<1>6. \A i \in Ended(code) : /\ code[i].n \in 1 .. i - 1 /\ code[i].n \in 1 .. m /\ longer[i] = code[i]
                             /\ i # m + 1 /\ i < m + 1
  BY <1>2, <1>5 DEF Coded, Nests
<1>7. Nests(longer)
  <2> SUFFICES ASSUME NEW i \in Ended(longer)
               PROVE  /\ longer[i].n \in 1 .. i - 1 /\ longer[longer[i].n].op = "loop"
                      /\ \A j \in Ended(longer) : i < j => longer[j].n < longer[i].n \/ longer[j].n > i
    BY DEF Nests
  <2>1. CASE i = m + 1
    <3>1. \A j \in Ended(longer) : ~(m + 1 < j)
      BY <1>2, <1>5, <1>6
    <3> QED
      BY <1>2, <1>4, <2>1, <3>1
  <2>2. CASE i \in Ended(code)
    <3>1. /\ code[i].n \in 1 .. i - 1 /\ code[code[i].n].op = "loop"
          /\ \A j \in Ended(code) : i < j => code[j].n < code[i].n \/ code[j].n > i
      BY <2>2 DEF Coded, Nests
    <3>2. longer[code[i].n].op = "loop"
      BY <1>2, <1>6, <2>2, <3>1
    <3>3. ASSUME NEW j \in Ended(longer), i < j PROVE longer[j].n < longer[i].n \/ longer[j].n > i
      <4>1. CASE j = m + 1
        BY <1>2, <1>4, <1>6, <2>2, <4>1
      <4>2. CASE j \in Ended(code)
        BY <1>6, <2>2, <3>1, <3>3, <4>2
      <4> QED
        BY <1>5, <4>1, <4>2
    <3> QED
      BY <1>6, <2>2, <3>1, <3>2, <3>3
  <2> QED
    BY <1>5, <2>1, <2>2
<1>8. \A i \in DOMAIN longer : longer[i].op \in Ops
  <2>1. \A i \in DOMAIN longer : i \in 1 .. m \/ i = m + 1
    BY <1>2
  <2> QED
    BY <1>2, <2>1 DEF Coded, Ops
<1>9. ASSUME NEW k \in 1 .. d - 1
      PROVE  /\ rest[k] \in DOMAIN longer /\ longer[rest[k]].op = "loop"
             /\ \A i \in Ended(longer) : rest[k] < longer[i].n \/ rest[k] > i
             /\ \A j \in 1 .. d - 1 : j < k => rest[j] < rest[k]
  <2>1. k \in DOMAIN stack /\ \A j \in 1 .. d - 1 : j \in DOMAIN stack
    BY <1>3
  <2>2. /\ stack[k] \in 1 .. m /\ code[stack[k]].op = "loop"
        /\ \A i \in Ended(code) : stack[k] < code[i].n \/ stack[k] > i
        /\ \A j \in 1 .. d - 1 : j < k => stack[j] < stack[k]
    BY <1>2, <2>1 DEF Open
  <2>3. stack[k] < longer[m + 1].n
    BY <1>2, <1>4
  <2> QED
    BY <1>2, <1>3, <1>5, <1>6, <2>2, <2>3
<1>10. Open(longer, rest)
  BY <1>3, <1>9 DEF Open
<1>11. Coded(longer)
  BY <1>2, <1>7, <1>8 DEF Coded
<1> QED
  BY <1>10, <1>11 DEF longer, rest, e, top

-----------------------------------------------------------------------------
(* The functions for the lines.                                            *)

LEMMA NothingCompiled == CodeInv(Start)
<1>1. << >> \in Seq(Nat) /\ Len(<< >>) = 0 /\ DOMAIN << >> = {}
  BY EmptySeq
<1>2. Coded(<< >>) /\ Open(<< >>, << >>) /\ Paired(<< >>, << >>)
  BY <1>1 DEF Coded, Open, Paired, Nests, Ended
<1> QED
  BY <1>2 DEF CodeInv, Compilation, Start

LEMMA FailKeeps == ASSUME NEW c, CodeInv(c), NEW how PROVE CodeInv(Fail(c, how))
BY DEF CodeInv, Compilation, Fail

LEMMA TimeKeeps ==
  ASSUME NEW c, CodeInv(c), NEW t
  PROVE  CodeInv(AddTime(c, t)) /\ AddTime(c, t).loopInitAddress = c.loopInitAddress
<1>1. CASE c.loopInTime = << >>
  BY <1>1 DEF AddTime
<1>2. CASE c.loopInTime # << >> /\ loopIndex(c) = 0
  BY <1>2, FailKeeps DEF AddTime, Fail, CodeInv, Compilation
<1>3. CASE c.loopInTime # << >> /\ loopIndex(c) # 0
  <2>1. AddTime(c, t) = [c EXCEPT !.loopInTime[loopIndex(c)] = @ + t]
    BY <1>3 DEF AddTime
  <2> QED
    BY <2>1 DEF CodeInv, Compilation
<1> QED
  BY <1>1, <1>2, <1>3

LEMMA EmitKeeps ==
  ASSUME NEW c, CodeInv(c), NEW op \in Ops \ {"endLoop"}, NEW n
  PROVE  CodeInv(Emit(c, op, n)) /\ Emit(c, op, n).loopInitAddress = c.loopInitAddress
<1>1. Emit(c, op, n) = [c EXCEPT !.code = Append(c.code, [op |-> op, n |-> n])]
  BY DEF Emit
<1>2. /\ Coded(Append(c.code, [op |-> op, n |-> n]))
      /\ Open(Append(c.code, [op |-> op, n |-> n]), c.loopInitAddress)
  BY CodeGrows DEF CodeInv
<1> QED
  BY <1>1, <1>2 DEF CodeInv, Compilation

LEMMA LoopLine == ASSUME NEW c, CodeInv(c), NEW values, NEW word PROVE CodeInv(loopFunc(c, values, word))
<1> DEFINE n == Number(c, values, word)
           i == (n - 1) % 2 ^ 29
           pushed == [c EXCEPT !.loopInitAddress = Append(@, Len(c.code) + 1),
                               !.loopInTime = Append(@, 0)]
           emitted == Emit(pushed, "loop", i)
<1>1. CASE n < 0 \/ n > maxValue
  BY <1>1, FailKeeps DEF loopFunc
<1>2. CASE ~(n < 0 \/ n > maxValue)
  <2>1. loopFunc(c, values, word) = AddTime(emitted, LOOP_EXEC_TIME)
    BY <1>2 DEF loopFunc
  <2>2. /\ Coded(Append(c.code, [op |-> "loop", n |-> i]))
        /\ Open(Append(c.code, [op |-> "loop", n |-> i]), Append(c.loopInitAddress, Len(c.code) + 1))
    <3> HIDE DEF i
    <3> QED
      BY LoopOpened DEF CodeInv
  <2> HIDE DEF i, n
  <2> DEFINE code == Append(c.code, [op |-> "loop", n |-> i])
             stack == Append(c.loopInitAddress, Len(c.code) + 1)
             times == Append(c.loopInTime, 0)
  <2>a. pushed = [c EXCEPT !.loopInitAddress = stack, !.loopInTime = times]
    OBVIOUS
  <2>b. pushed.code = c.code
    OBVIOUS
  <2>c. emitted = [pushed EXCEPT !.code = Append(pushed.code, [op |-> "loop", n |-> i])]
    BY DEF Emit
  <2>d. emitted = [pushed EXCEPT !.code = code]
    BY <2>b, <2>c
  <2>e. Coded(code) /\ Open(code, stack)
    BY <2>2
  <2> HIDE DEF pushed, emitted, code, stack, times
  <2>3. emitted = [code |-> code, varsName |-> c.varsName, varsValue |-> c.varsValue,
                   loopInitAddress |-> stack, loopInTime |-> times, err |-> c.err]
    BY <2>a, <2>d DEF CodeInv, Compilation
  <2>4. CodeInv(emitted)
    BY <2>3, <2>e DEF CodeInv, Compilation
  <2> QED
    BY <2>1, <2>4, TimeKeeps
<1> QED
  BY <1>1, <1>2

LEMMA DelayLine == ASSUME NEW c, CodeInv(c), NEW values, NEW word PROVE CodeInv(delayFunc(c, values, word))
<1> DEFINE n == Number(c, values, word)
<1>1. CodeInv(Emit(c, "delay", n))
  BY EmitKeeps DEF Ops
<1>2. \/ delayFunc(c, values, word) = Fail(c, "failed")
      \/ delayFunc(c, values, word) = AddTime(Emit(c, "delay", n), DELAY_EXEC_TIME + n)
  BY DEF delayFunc
<1> QED
  BY <1>1, <1>2, FailKeeps, TimeKeeps

LEMMA StatusLine == ASSUME NEW c, CodeInv(c), NEW values, NEW word PROVE CodeInv(statusFunc(c, values, word))
<1> DEFINE v == IF word.bits # {} \/ word.whole THEN word ELSE Lookup(c, values, word)
<1>1. CodeInv(Emit(c, "status", v.bits))
  BY EmitKeeps DEF Ops
<1>2. \/ statusFunc(c, values, word) = Fail(c, "failed")
      \/ statusFunc(c, values, word) = AddTime(Emit(c, "status", v.bits), STATUS_EXEC_TIME)
  BY DEF statusFunc
<1> QED
  BY <1>1, <1>2, FailKeeps, TimeKeeps

LEMMA EndKeeps ==
  ASSUME NEW c, CodeInv(c), c.loopInitAddress # << >>
  PROVE  CodeInv(EndLoop(c))
<1> DEFINE top == Last(c.loopInitAddress)
<1>1. EndLoop(c) = [c EXCEPT !.code = Append(c.code, [op |-> "endLoop", n |-> top]),
                             !.loopInitAddress = Front(c.loopInitAddress)]
  BY DEF EndLoop, Emit, CodeInv, Compilation
<1>2. /\ Coded(Append(c.code, [op |-> "endLoop", n |-> top]))
      /\ Open(Append(c.code, [op |-> "endLoop", n |-> top]), Front(c.loopInitAddress))
  BY LoopEnded DEF CodeInv
<1> QED
  BY <1>1, <1>2 DEF CodeInv, Compilation

LEMMA SomeOpen == ASSUME NEW c, CodeInv(c), loopIndex(c) # 0 PROVE c.loopInitAddress # << >>
BY EmptySeq DEF loopIndex

LEMMA EndLine == ASSUME NEW c, CodeInv(c) PROVE CodeInv(endFunc(c))
<1>1. CASE loopIndex(c) = 0
  BY <1>1, FailKeeps DEF endFunc
<1>2. CASE loopIndex(c) # 0
  BY <1>2, SomeOpen, TimeKeeps, EndKeeps DEF endFunc
<1> QED
  BY <1>1, <1>2

LEMMA EndSyncLine == ASSUME NEW c, CodeInv(c) PROVE CodeInv(endSyncFunc(c))
<1> DEFINE ended == AddTime(c, END_EXEC_TIME)
           magic == SyncDelay(Clocks(ended))
           padded == Emit(ended, "delay", magic)
           timed == AddTime(padded, magic + DELAY_EXEC_TIME)
<1>1. CASE loopIndex(c) = 0
  BY <1>1, FailKeeps DEF endSyncFunc
<1>2. CASE loopIndex(c) # 0
  <2>1. endSyncFunc(c) = EndLoop(timed)
    BY <1>2 DEF endSyncFunc
  <2>2. CodeInv(ended) /\ ended.loopInitAddress = c.loopInitAddress
    BY TimeKeeps
  <2> HIDE DEF ended, magic
  <2>3. CodeInv(padded) /\ padded.loopInitAddress = c.loopInitAddress
    BY <2>2, EmitKeeps DEF Ops
  <2> HIDE DEF padded
  <2>4. CodeInv(timed) /\ timed.loopInitAddress = c.loopInitAddress
    BY <2>3, TimeKeeps
  <2> HIDE DEF timed
  <2> QED
    BY <1>2, <2>1, <2>4, SomeOpen, EndKeeps
<1> QED
  BY <1>1, <1>2

(* Whatever a variable is called and whatever its value is. *)
LEMMA PairedMore ==
  ASSUME NEW names, NEW values, Paired(names, values), NEW name, NEW value
  PROVE  Paired(Append(names, name), Append(values, value))
<1>1. PICK X : names \in Seq(X) /\ values \in Seq(X) /\ Len(names) = Len(values)
  BY DEF Paired
<1> DEFINE Y == X \cup {name, value}
<1>2. names \in Seq(Y) /\ values \in Seq(Y) /\ name \in Y /\ value \in Y
  BY <1>1, SeqMonotonic
<1> HIDE DEF Y
<1>3. /\ Append(names, name) \in Seq(Y) /\ Append(values, value) \in Seq(Y)
      /\ Len(Append(names, name)) = Len(names) + 1 /\ Len(Append(values, value)) = Len(values) + 1
  BY <1>2, AppendProperties
<1> QED
  BY <1>1, <1>3 DEF Paired

LEMMA PairedRenamed ==
  ASSUME NEW names, NEW values, Paired(names, values), NEW i, NEW e
  PROVE  Paired([names EXCEPT ![i] = e], values)
<1>1. PICK X : names \in Seq(X) /\ values \in Seq(X) /\ Len(names) = Len(values)
  BY DEF Paired
<1> DEFINE Y == X \cup {e}
           n == Len(names)
           r == [names EXCEPT ![i] = e]
<1>2. names \in Seq(Y) /\ values \in Seq(Y) /\ e \in Y
  BY <1>1, SeqMonotonic
<1> HIDE DEF Y
<1>3. n \in Nat /\ names \in [1 .. n -> Y]
  BY <1>2, LenProperties
<1>a. n = Len(values)
  BY <1>1
<1> HIDE DEF n
<1>4. r \in [1 .. n -> Y]
  BY <1>2, <1>3
<1> HIDE DEF r
<1>5. r \in Seq(Y) /\ Len(r) = n
  BY <1>3, <1>4
<1>6. Paired(r, values)
  BY <1>2, <1>5, <1>a DEF Paired
<1> QED
  BY <1>6 DEF r

LEMMA PairedRevalued ==
  ASSUME NEW names, NEW values, Paired(names, values), NEW i, NEW e
  PROVE  Paired(names, [values EXCEPT ![i] = e])
<1>1. Paired(values, names)
  BY DEF Paired
<1>2. Paired([values EXCEPT ![i] = e], names)
  BY <1>1, PairedRenamed
<1> QED
  BY <1>2 DEF Paired

LEMMA VariableLine == ASSUME NEW c, CodeInv(c), NEW name, NEW words PROVE CodeInv(addVar(c, name, words))
<1> DEFINE first == IF Places(c, words[1].text) = {} THEN words[1]
                    ELSE c.varsValue[Max(Places(c, words[1].text))]
           acc == FoldLeft(LAMBDA a, w : Or(c, a, w),
                           [value |-> first, valAfterOperand |-> Name(""), thrown |-> FALSE],
                           Tail(words))
           value == acc.value
           place == Max(Places(c, name.text))
           added == [c EXCEPT !.varsName = Append(@, name), !.varsValue = Append(@, value)]
           renamed == [c EXCEPT !.varsName[place] = value]
<1>1. addVar(c, name, words) \in {Fail(c, "thrown"), added, renamed}
  <2>1. addVar(c, name, words) =
          IF acc.thrown THEN Fail(c, "thrown")
          ELSE IF Places(c, name.text) = {} THEN added ELSE renamed
    BY Zenon DEF addVar
  <2> HIDE DEF acc, added, renamed
  <2> QED
    BY <2>1
<1> HIDE DEF acc, first, value, place
<1>2. CodeInv(added)
  <2> DEFINE names == Append(c.varsName, name)
             values == Append(c.varsValue, value)
  <2>1. Paired(names, values)
    BY PairedMore DEF CodeInv
  <2>2. added = [c EXCEPT !.varsName = names, !.varsValue = values]
    OBVIOUS
  <2> HIDE DEF added, names, values
  <2>3. added = [code |-> c.code, varsName |-> names, varsValue |-> values,
                 loopInitAddress |-> c.loopInitAddress, loopInTime |-> c.loopInTime, err |-> c.err]
    BY <2>2 DEF CodeInv, Compilation
  <2> QED
    BY <2>1, <2>3 DEF CodeInv, Compilation
<1>3. CodeInv(renamed)
  <2> DEFINE names == [c.varsName EXCEPT ![place] = value]
  <2>1. Paired(names, c.varsValue)
    BY PairedRenamed DEF CodeInv
  <2>2. renamed = [c EXCEPT !.varsName = names]
    OBVIOUS
  <2> HIDE DEF names, renamed
  <2> QED
    BY <2>1, <2>2 DEF CodeInv, Compilation
<1> HIDE DEF added, renamed
<1> QED
  BY <1>1, <1>2, <1>3, FailKeeps

LEMMA LineCompiled ==
  ASSUME NEW c, CodeInv(c), NEW values, NEW line
  PROVE  CodeInv(CompileLine(c, values, line))
<1>1. CompileLine(c, values, line) \in
        {c, Fail(c, "undefined"), loopFunc(c, values, line.arg), delayFunc(c, values, line.arg),
         statusFunc(c, values, line.arg), endFunc(c), endSyncFunc(c),
         addVar(c, line.name, line.words)}
  BY DEF CompileLine
<1> QED
  BY <1>1, FailKeeps, LoopLine, DelayLine, StatusLine, EndLine, EndSyncLine, VariableLine

-----------------------------------------------------------------------------
(* A compilation takes one line after the other.                           *)

Compiles(g, n, lines, values) ==
  g = [t \in SUBSET (1 .. n) |->
         IF t = {} THEN Start
         ELSE CompileLine(g[t \ {Max(t)}], values, lines[Max(t)])]

LEMMA SomeCompiles ==
  ASSUME NEW n \in Nat, NEW lines, NEW values
  PROVE  \E g : Compiles(g, n, lines, values)
<1> DEFINE T == {m \in 0 .. n : \A g : ~Compiles(g, m, lines, values)}
<1>1. SUFFICES ASSUME T # {} PROVE FALSE
  <2>1. n \in 0 .. n
    OBVIOUS
  <2> QED
    BY <2>1
<1>2. PICK m \in T : \A k \in T : m <= k
  <2>1. T \in SUBSET Nat
    OBVIOUS
  <2> HIDE DEF T
  <2> QED
    BY <1>1, <2>1, SmallestNumber
<1>3. m \in 0 .. n /\ \A g : ~Compiles(g, m, lines, values)
  OBVIOUS
<1>4. m # 0
  <2>1. Compiles([t \in SUBSET (1 .. 0) |-> Start], 0, lines, values)
    BY DEF Compiles
  <2> QED
    BY <1>3, <2>1
<1>5. m - 1 \in 0 .. n /\ m - 1 \notin T
  BY <1>2, <1>3, <1>4
<1>6. PICK g : Compiles(g, m - 1, lines, values)
  BY <1>5
<1> DEFINE h == [t \in SUBSET (1 .. m) |->
                   IF m \in t THEN CompileLine(g[t \ {m}], values, lines[m]) ELSE g[t]]
<1>7. \A t \in SUBSET (1 .. m) : t \ {m} \in SUBSET (1 .. m - 1) /\ (m \notin t => t \in SUBSET (1 .. m - 1))
  BY <1>3
<1>8. ASSUME NEW t \in SUBSET (1 .. m)
      PROVE  h[t] = IF t = {} THEN Start ELSE CompileLine(h[t \ {Max(t)}], values, lines[Max(t)])
  <2>1. CASE m \in t
    <3>1. Max(t) = m
      BY <1>3, <2>1, MaxIs
    <3>2. h[t \ {m}] = g[t \ {m}]
      BY <1>7
    <3> QED
      BY <2>1, <3>1, <3>2
  <2>2. CASE m \notin t
    <3>1. t \in SUBSET (1 .. m - 1) /\ h[t] = g[t]
      BY <1>7, <2>2
    <3>2. g[t] = IF t = {} THEN Start ELSE CompileLine(g[t \ {Max(t)}], values, lines[Max(t)])
      BY <1>6, <3>1 DEF Compiles
    <3>3. h[t \ {Max(t)}] = g[t \ {Max(t)}]
      BY <2>2
    <3> QED
      BY <3>1, <3>2, <3>3
  <2> QED
    BY <2>1, <2>2
<1>9. Compiles(h, m, lines, values)
  <2>1. h = [t \in SUBSET (1 .. m) |-> h[t]]
    OBVIOUS
  <2> HIDE DEF h
  <2> QED
    BY <1>8, <2>1 DEF Compiles
<1> QED
  BY <1>3, <1>9

Folded(lines, values) == FoldLeft(LAMBDA acc, line : CompileLine(acc, values, line), Start, lines)

LEMMA LinesFolded ==
  ASSUME NEW lines, NEW values
  PROVE  Folded(lines, values) =
           (CHOOSE f : f = [t \in SUBSET (DOMAIN lines) |->
                              IF t = {} THEN Start
                              ELSE CompileLine(f[t \ {Max(t)}], values, lines[Max(t)])])[DOMAIN lines]
BY Zenon DEF Folded, FoldLeft, MapThenFoldSet

LEMMA FileCompiled ==
  ASSUME NEW lines, Len(lines) \in Nat, DOMAIN lines = 1 .. Len(lines), NEW values
  PROVE  CodeInv(Folded(lines, values))
<1> DEFINE n == Len(lines)
           f == CHOOSE f : Compiles(f, n, lines, values)
<1>1. Folded(lines, values) = f[1 .. n]
  BY LinesFolded, Zenon DEF Compiles
<1>2. Compiles(f, n, lines, values)
  BY SomeCompiles
<1>3. n \in Nat
  OBVIOUS
<1> HIDE DEF f, n
<1>4. \A t \in SUBSET (1 .. n) :
        f[t] = IF t = {} THEN Start ELSE CompileLine(f[t \ {Max(t)}], values, lines[Max(t)])
  BY <1>2 DEF Compiles
<1> DEFINE T == {k \in 0 .. n : ~CodeInv(f[1 .. k])}
<1>5. T = {}
  <2>1. SUFFICES ASSUME T # {} PROVE FALSE
    OBVIOUS
  <2>2. PICK m \in T : \A k \in T : m <= k
    <3>1. T \in SUBSET Nat
      BY <1>3
    <3> HIDE DEF T
    <3> QED
      BY <2>1, <3>1, SmallestNumber
  <2>3. m \in 0 .. n /\ ~CodeInv(f[1 .. m])
    OBVIOUS
  <2>4. m # 0
    <3>1. 1 .. 0 = {} /\ 1 .. 0 \in SUBSET (1 .. n)
      OBVIOUS
    <3>2. f[1 .. 0] = Start
      BY <1>4, <3>1
    <3> QED
      BY <2>3, <3>2, NothingCompiled
  <2>5. m - 1 \in 0 .. n /\ CodeInv(f[1 .. m - 1])
    BY <1>3, <2>2, <2>3, <2>4
  <2>6. 1 .. m \in SUBSET (1 .. n) /\ 1 .. m # {} /\ Max(1 .. m) = m /\ (1 .. m) \ {m} = 1 .. m - 1
    <3>1. 1 .. m \in SUBSET Int /\ m \in 1 .. m /\ \A y \in 1 .. m : m >= y
      BY <1>3, <2>3, <2>4
    <3>2. Max(1 .. m) = m
      BY <3>1, MaxIs
    <3> QED
      BY <1>3, <2>3, <2>4, <3>1, <3>2
  <2>7. f[1 .. m] = CompileLine(f[1 .. m - 1], values, lines[m])
    BY <1>4, <2>6
  <2> QED
    BY <2>3, <2>5, <2>7, LineCompiled
<1>6. n \in 0 .. n
  BY <1>3
<1> QED
  BY <1>1, <1>5, <1>6

(* Code that has been compiled ends, once. *)
Complete(code) ==
  /\ \E X : code \in Seq(X)
  /\ code # << >>
  /\ \A i \in DOMAIN code : code[i].op \in Ops \cup {"endSeq"} /\ (code[i].op = "endSeq" <=> i = Len(code))
  /\ Nests(code)

LEMMA CodeCompletes ==
  ASSUME NEW code, Coded(code), NEW n
  PROVE  Complete(Append(code, [op |-> "endSeq", n |-> n]))
<1> DEFINE e == [op |-> "endSeq", n |-> n]
           longer == Append(code, e)
           m == Len(code)
<1>1. PICK X : code \in Seq(X)
  BY DEF Coded
<1>2. /\ longer \in Seq(X \cup {e}) /\ m \in Nat /\ DOMAIN code = 1 .. m
      /\ DOMAIN longer = 1 .. m + 1 /\ Len(longer) = m + 1 /\ longer[m + 1] = e /\ e.op = "endSeq"
      /\ \A i \in 1 .. m : longer[i] = code[i]
  BY <1>1, Appended
<1> HIDE DEF longer, m, e
<1>a. \A i \in DOMAIN longer : i \in 1 .. m \/ i = m + 1
  BY <1>2
<1>3. Ended(longer) = Ended(code) /\ Ended(code) \subseteq 1 .. m
  <2>1. 1 .. m \subseteq DOMAIN longer
    BY <1>2
  <2> QED
    BY <1>2, <1>a, <2>1 DEF Ended
<1>4. Nests(longer)
  <2> SUFFICES ASSUME NEW i \in Ended(code)
               PROVE  /\ longer[i].n \in 1 .. i - 1 /\ longer[longer[i].n].op = "loop"
                      /\ \A j \in Ended(code) : i < j => longer[j].n < longer[i].n \/ longer[j].n > i
    BY <1>3 DEF Nests
  <2>1. /\ code[i].n \in 1 .. i - 1 /\ code[code[i].n].op = "loop"
        /\ \A j \in Ended(code) : i < j => code[j].n < code[i].n \/ code[j].n > i
    BY DEF Coded, Nests
  <2>2. i \in 1 .. m /\ code[i].n \in 1 .. m
    BY <1>2, <1>3, <2>1
  <2> QED
    BY <1>2, <1>3, <2>1, <2>2
<1>5. ASSUME NEW i \in DOMAIN longer
      PROVE  longer[i].op \in Ops \cup {"endSeq"} /\ (longer[i].op = "endSeq" <=> i = Len(longer))
  <2>1. CASE i \in 1 .. m
    <3>1. code[i].op \in Ops /\ longer[i] = code[i]
      BY <1>2, <2>1 DEF Coded
    <3>2. i # m + 1
      BY <1>2, <2>1
    <3> QED
      BY <1>2, <3>1, <3>2 DEF Ops
  <2>2. CASE i = m + 1
    BY <1>2, <2>2
  <2> QED
    BY <1>a, <2>1, <2>2
<1>6. longer # << >>
  BY <1>2, EmptySeq
<1>7. Complete(longer)
  BY <1>2, <1>4, <1>5, <1>6 DEF Complete
<1> QED
  BY <1>7 DEF longer, e

LEMMA Compiled ==
  ASSUME NEW lines, Len(lines) \in Nat, DOMAIN lines = 1 .. Len(lines), NEW values,
         NEW c, c = compileSequencer(lines, values), c.err = "none"
  PROVE  Complete(c.code) /\ Paired(c.varsName, c.varsValue)
<1> DEFINE b == Folded(lines, values)
<1>1. c = IF b.err # "none" THEN b ELSE Emit(b, "endSeq", 0)
  BY Zenon DEF compileSequencer, Folded
<1>2. CodeInv(b)
  BY FileCompiled
<1> HIDE DEF b
<1>3. c = [b EXCEPT !.code = Append(b.code, [op |-> "endSeq", n |-> 0])]
  BY <1>1 DEF Emit
<1>4. Complete(Append(b.code, [op |-> "endSeq", n |-> 0]))
  BY <1>2, CodeCompletes DEF CodeInv
<1> QED
  BY <1>2, <1>3, <1>4 DEF CodeInv, Compilation

-----------------------------------------------------------------------------
(* The handler, over loads and changes of variables.                       *)

Handler(s) ==
  s = [seqContent |-> s.seqContent, compSeq |-> s.compSeq, seqVarsName |-> s.seqVarsName,
       seqVarsValue |-> s.seqVarsValue, seqGood |-> s.seqGood, crashed |-> s.crashed]

HandlerInv(s, fs) ==
  /\ Handler(s)
  /\ s.seqContent \in fs \cup {<< >>}
  /\ s.compSeq = << >> \/ Complete(s.compSeq)
  /\ s.seqGood => s.compSeq # << >>
  /\ Paired(s.seqVarsName, s.seqVarsValue)
  /\ s.seqGood \in BOOLEAN /\ s.crashed \in BOOLEAN

Inv == files \in Users /\ HandlerInv(seq, files)

LEMMA FailedKeeps == ASSUME NEW s, NEW fs, HandlerInv(s, fs), NEW c PROVE HandlerInv(Failed(s, c), fs)
<1> DEFINE ended == c.err \in {"thrown", "undefined"}
<1>1. Failed(s, c) = [s EXCEPT !.seqGood = FALSE, !.crashed = ended]
  BY DEF Failed
<1>2. ended \in BOOLEAN
  OBVIOUS
<1> HIDE DEF ended
<1> QED
  BY <1>1, <1>2 DEF HandlerInv, Handler

LEMMA LoadKeeps ==
  ASSUME NEW s, NEW fs, HandlerInv(s, fs), NEW file \in fs,
         Len(file) \in Nat, DOMAIN file = 1 .. Len(file)
  PROVE  HandlerInv(loadNewSequencer(s, file), fs)
<1> DEFINE c == compileSequencer(file, << >>)
<1>1. CASE c.err # "none"
  BY <1>1, FailedKeeps DEF loadNewSequencer, Loaded
<1>2. CASE c.err = "none"
  <2>1. Complete(c.code) /\ Paired(c.varsName, c.varsValue)
    BY <1>2, Compiled
  <2>2. loadNewSequencer(s, file) =
          [s EXCEPT !.seqContent = file, !.compSeq = c.code, !.seqVarsName = c.varsName,
                    !.seqVarsValue = c.varsValue, !.seqGood = TRUE]
    BY <1>2 DEF loadNewSequencer, Loaded
  <2> HIDE DEF c
  <2>3. c.code # << >>
    BY <2>1 DEF Complete
  <2> QED
    BY <2>1, <2>2, <2>3 DEF HandlerInv, Handler
<1> QED
  BY <1>1, <1>2

LEMMA ChangeKeeps ==
  ASSUME NEW s, NEW fs, HandlerInv(s, fs), NEW text, NEW word
  PROVE  /\ HandlerInv(changeSeqVarValue(s, text, word), fs)
         /\ changeSeqVarValue(s, text, word).seqContent = s.seqContent
<1> DEFINE values == [s.seqVarsValue EXCEPT ![VarInd(s, text)] = word]
<1>1. changeSeqVarValue(s, text, word) = [s EXCEPT !.seqVarsValue = values]
  BY DEF changeSeqVarValue
<1>2. Paired(s.seqVarsName, values)
  BY PairedRevalued DEF HandlerInv
<1> HIDE DEF values
<1> QED
  BY <1>1, <1>2 DEF HandlerInv, Handler

LEMMA ReloadKeeps ==
  ASSUME NEW s, NEW fs, HandlerInv(s, fs),
         Len(s.seqContent) \in Nat, DOMAIN s.seqContent = 1 .. Len(s.seqContent)
  PROVE  HandlerInv(loadSequencer(s), fs)
<1> DEFINE c == compileSequencer(s.seqContent, s.seqVarsValue)
<1>1. CASE c.err # "none"
  BY <1>1, FailedKeeps DEF loadSequencer, Reloaded
<1>2. CASE c.err = "none"
  <2>1. Complete(c.code)
    BY <1>2, Compiled
  <2>2. loadSequencer(s) = [s EXCEPT !.compSeq = c.code, !.seqGood = TRUE]
    BY <1>2 DEF loadSequencer, Reloaded
  <2> HIDE DEF c
  <2>3. c.code # << >>
    BY <2>1 DEF Complete
  <2> QED
    BY <2>1, <2>2, <2>3 DEF HandlerInv, Handler
<1> QED
  BY <1>1, <1>2

LEMMA InvInit == ASSUME Init PROVE Inv
<1>1. << >> \in Seq(Nat) /\ Len(<< >>) = 0
  BY EmptySeq
<1>2. Paired(<< >>, << >>)
  BY <1>1 DEF Paired
<1> QED
  BY <1>2 DEF Init, NoSequencer, Inv, HandlerInv, Handler

LEMMA InvStep == ASSUME Inv, [Next]_vars PROVE Inv'
<1>1. CASE Load
  <2>1. PICK file \in files : seq' = loadNewSequencer(seq, file)
    BY <1>1 DEF Load
  <2>2. files' = files /\ files \in Users /\ HandlerInv(seq, files)
    BY <1>1 DEF Load, Inv
  <2>3. Len(file) \in Nat /\ DOMAIN file = 1 .. Len(file)
    BY <2>2, SequencerAssumption
  <2>4. HandlerInv(loadNewSequencer(seq, file), files)
    BY <2>2, <2>3, LoadKeeps
  <2> QED
    BY <2>1, <2>2, <2>4 DEF Inv
<1>2. CASE SetVar
  <2>1. PICK text, word : seq' = loadSequencer(changeSeqVarValue(seq, text, word))
    BY <1>2, Zenon DEF SetVar
  <2>2. files' = files /\ files \in Users /\ HandlerInv(seq, files)
    BY <1>2 DEF SetVar, Inv
  <2> DEFINE changed == changeSeqVarValue(seq, text, word)
  <2>3. HandlerInv(changed, files) /\ changed.seqContent = seq.seqContent
    BY <2>2, ChangeKeeps
  <2>4. Len(<< >>) = 0 /\ DOMAIN << >> = 1 .. 0
    OBVIOUS
  <2>5. seq.seqContent \in files \cup {<< >>}
    BY <2>2 DEF HandlerInv
  <2>6. Len(seq.seqContent) \in Nat /\ DOMAIN seq.seqContent = 1 .. Len(seq.seqContent)
    BY <2>2, <2>4, <2>5, SequencerAssumption
  <2> HIDE DEF changed
  <2>7. HandlerInv(loadSequencer(changed), files)
    BY <2>3, <2>6, ReloadKeeps
  <2> QED
    BY <2>1, <2>2, <2>7 DEF Inv, changed
<1>3. CASE UNCHANGED vars
  BY <1>3 DEF vars, Inv
<1> QED
  BY <1>1, <1>2, <1>3 DEF Next

LEMMA Invariance == Spec => []Inv
BY InvInit, InvStep, PTL DEF Spec

(* Whatever a user's files contain and whichever loads and changes fail,    *)
(* every variable keeps a value of its own and the handler keeps its types. *)
THEOREM TypeCorrect == Spec => []TypeOK
<1>1. Inv => TypeOK
  <2> SUFFICES ASSUME Inv PROVE TypeOK
    OBVIOUS
  <2>1. files \in Users /\ HandlerInv(seq, files)
    BY DEF Inv
  <2>2. \A i \in DOMAIN seq.compSeq : seq.compSeq[i].op \in {"loop", "delay", "status", "endLoop", "endSeq"}
    <3>1. CASE seq.compSeq = << >>
      BY <3>1
    <3>2. CASE Complete(seq.compSeq)
      BY <3>2 DEF Complete, Ops
    <3> QED
      BY <2>1, <3>1, <3>2 DEF HandlerInv
  <2>3. Len(seq.seqVarsName) = Len(seq.seqVarsValue)
    BY <2>1 DEF HandlerInv, Paired
  <2> QED
    BY <2>1, <2>2, <2>3 DEF TypeOK, HandlerInv
<1> QED
  BY <1>1, Invariance, PTL

(* For every file, set of variables and order of loads and changes that     *)
(* fail or not, the code for the board ends and its jumps end each loop at  *)
(* most once and from the inside (the stack of loopFunc, endFunc and        *)
(* endSyncFunc).                                                            *)
THEOREM LoopsAreNested == Spec => []LoopsNest
<1>1. Inv => LoopsNest
  <2> SUFFICES ASSUME Inv PROVE LoopsNest
    OBVIOUS
  <2>1. HandlerInv(seq, files)
    BY DEF Inv
  <2>2. CASE seq.compSeq = << >>
    BY <2>1, <2>2 DEF HandlerInv, LoopsNest, Nests, Ended
  <2>3. CASE Complete(seq.compSeq)
    BY <2>1, <2>3 DEF HandlerInv, LoopsNest, Complete
  <2> QED
    BY <2>1, <2>2, <2>3 DEF HandlerInv
<1> QED
  BY <1>1, Invariance, PTL

-----------------------------------------------------------------------------
(* Variables and their values are words.                                   *)

Vars(c) ==
  /\ c.varsName \in Seq(Word) /\ c.varsValue \in Seq(Word)
  /\ Len(c.varsName) = Len(c.varsValue)

LEMMA BitsAreWord == ASSUME NEW t \in Texts, NEW bits \in SUBSET (0 .. 28) PROVE BitsWord(t, bits) \in Word
<1> DEFINE s == {10 ^ b : b \in bits}
<1>1. IsFiniteSet(bits)
  <2>1. 0 \in Int /\ 28 \in Int
    OBVIOUS
  <2>2. IsFiniteSet(0 .. 28)
    BY <2>1, FS_Interval
  <2> QED
    BY <2>2, FS_Subset
<1>2. s \in SUBSET Int
  <2>1. \A b \in bits : b \in Nat
    OBVIOUS
  <2>2. \A b \in Nat : 10 ^ b \in Int
    OBVIOUS
  <2> QED
    BY <2>1, <2>2
<1>3. IsFiniteSet(s)
  <2> DEFINE f == [b \in bits |-> 10 ^ b]
  <2>1. f \in Surjection(bits, s)
    BY DEF Surjection
  <2> HIDE DEF f, s
  <2> QED
    BY <1>1, <2>1, FS_Surjection
<1> HIDE DEF s
<1>4. SumSet(s) \in Int
  BY <1>2, <1>3, SumIsInteger
<1>5. BitsWord(t, bits) = [text |-> t, dec |-> SumSet(s), bits |-> bits, whole |-> TRUE]
  BY DEF BitsWord, s
<1> QED
  BY <1>4, <1>5 DEF Word

LEMMA NameIsWord == ASSUME NEW t \in Texts PROVE Name(t) \in Word
<1>1. {} \in SUBSET (0 .. 28)
  OBVIOUS
<1> QED
  BY <1>1 DEF Name, Word

LEMMA PlacesIn ==
  ASSUME NEW c, Vars(c), NEW text, Places(c, text) # {}
  PROVE  /\ Min(Places(c, text)) \in 1 .. Len(c.varsName) /\ Max(Places(c, text)) \in 1 .. Len(c.varsName)
         /\ c.varsValue[Min(Places(c, text))] \in Word /\ c.varsValue[Max(Places(c, text))] \in Word
<1> DEFINE n == Len(c.varsName)
           p == Places(c, text)
<1>1. n \in Nat /\ p \in SUBSET (1 .. n)
  BY LenProperties DEF Vars, Places
<1>2. Min(p) \in p /\ Max(p) \in p
  <2>1. p \in SUBSET Nat
    BY <1>1
  <2> HIDE DEF p, n
  <2>2. p # {}
    BY DEF p
  <2> QED
    BY <1>1, <2>1, <2>2, MinIn, GreatestIndex
<1>3. \A i \in 1 .. n : c.varsValue[i] \in Word
  BY ElementOfSeq DEF Vars
<1> HIDE DEF n, p
<1>4. Min(p) \in 1 .. n /\ Max(p) \in 1 .. n
  BY <1>1, <1>2
<1> QED
  BY <1>3, <1>4 DEF n, p

Acc == [value : Word, valAfterOperand : Word, thrown : BOOLEAN]

LEMMA OrIsAcc == ASSUME NEW c, Vars(c), NEW acc \in Acc, NEW word PROVE Or(c, acc, word) \in Acc
<1> DEFINE after == IF Places(c, word.text) = {} THEN acc.valAfterOperand
                    ELSE c.varsValue[Min(Places(c, word.text))]
           binary(w) == w.whole \/ w.text = ""
           bits == acc.value.bits \cup after.bits
           thrown == acc.thrown \/ ~binary(acc.value) \/ ~binary(after)
<1>1. acc.value \in Word /\ acc.valAfterOperand \in Word
  BY DEF Acc
<1>2. after \in Word
  BY <1>1, PlacesIn
<1> HIDE DEF after
<1>3. bits \in SUBSET (0 .. 28)
  BY <1>1, <1>2 DEF Word
<1>4. thrown \in BOOLEAN
  OBVIOUS
<1>5. Or(c, acc, word) = [value |-> BitsWord("", bits), valAfterOperand |-> after, thrown |-> thrown]
  BY Zenon DEF Or, after
<1> HIDE DEF bits, thrown
<1>6. BitsWord("", bits) \in Word
  <2>1. "" \in Texts
    BY Zenon DEF Texts
  <2> QED
    BY <1>3, <2>1, BitsAreWord
<1> DEFINE value == BitsWord("", bits)
<1>7. value \in Word /\ Or(c, acc, word) = [value |-> value, valAfterOperand |-> after, thrown |-> thrown]
  BY <1>5, <1>6
<1> HIDE DEF value
<1> QED
  BY <1>2, <1>4, <1>7 DEF Acc

OrsTo(f, c, a, ws) ==
  f = [t \in SUBSET (DOMAIN ws) |-> IF t = {} THEN a ELSE Or(c, f[t \ {Max(t)}], ws[Max(t)])]

Joined(c, a, ws) == FoldLeft(LAMBDA x, w : Or(c, x, w), a, ws)

LEMMA JoinedUnfolds ==
  ASSUME NEW c, NEW a, NEW ws PROVE Joined(c, a, ws) = (CHOOSE f : OrsTo(f, c, a, ws))[DOMAIN ws]
<1>1. Joined(c, a, ws) =
        (CHOOSE f : f = [t \in SUBSET (DOMAIN ws) |->
           IF t = {} THEN a ELSE Or(c, f[t \ {Max(t)}], ws[Max(t)])])[DOMAIN ws]
  BY Zenon DEF Joined, FoldLeft, MapThenFoldSet
<1> QED
  BY <1>1, Zenon DEF OrsTo

LEMMA JoinedIsAcc ==
  ASSUME NEW c, Vars(c), NEW a \in Acc, NEW ws \in Seq(Word)
  PROVE  Joined(c, a, ws) \in Acc
<1> DEFINE X == Acc
           n == Len(ws)
           step == [q \in (1 .. n) \X X |-> Or(c, q[2], ws[q[1]])]
           f == CHOOSE f : OrsTo(f, c, a, ws)
<1>0. n \in Nat /\ DOMAIN ws = 1 .. n
  BY LenProperties
<1>a. step \in [(1 .. n) \X X -> X]
  <2> SUFFICES ASSUME NEW q \in (1 .. n) \X X PROVE Or(c, q[2], ws[q[1]]) \in X
    OBVIOUS
  <2> QED
    BY OrIsAcc
<1> HIDE DEF n
<1>1. PICK g : SetRecurs(g, X, a, n, step)
  <2>2. a \in X
    OBVIOUS
  <2> HIDE DEF step, X
  <2> QED
    BY <1>0, <1>a, <2>2, SetRecursionHasSolution
<1>2. OrsTo(g, c, a, ws)
  <2>1. g = [t \in SUBSET (1 .. n) |-> g[t]]
    BY <1>1 DEF SetRecurs
  <2>2. ASSUME NEW t \in SUBSET (1 .. n)
        PROVE  g[t] = IF t = {} THEN a ELSE Or(c, g[t \ {Max(t)}], ws[Max(t)])
    <3>1. g[t] = IF t = {} THEN a ELSE step[<<Max(t), g[t \ {Max(t)}]>>]
      BY <1>1, Zenon DEF SetRecurs
    <3>2. t # {} => <<Max(t), g[t \ {Max(t)}]>> \in (1 .. n) \X X
      <4> SUFFICES ASSUME t # {} PROVE <<Max(t), g[t \ {Max(t)}]>> \in (1 .. n) \X X
        OBVIOUS
      <4>1. Max(t) \in t
        BY <1>0, GreatestIndex
      <4>2. t \ {Max(t)} \in SUBSET (1 .. n)
        OBVIOUS
      <4>3. g[t \ {Max(t)}] \in X
        BY <1>1, <4>2 DEF SetRecurs
      <4> QED
        BY <4>1, <4>3
    <3> QED
      BY <3>1, <3>2
  <2> HIDE DEF step, X
  <2> QED
    BY <1>0, <2>1, <2>2, Zenon DEF OrsTo
<1>3. OrsTo(f, c, a, ws)
  BY <1>2, Zenon
<1>4. Joined(c, a, ws) = f[1 .. n]
  BY <1>0, JoinedUnfolds
<1> HIDE DEF f, step, X
<1>5. \A t \in SUBSET (1 .. n) : f[t] = IF t = {} THEN a ELSE Or(c, f[t \ {Max(t)}], ws[Max(t)])
  BY <1>0, <1>3, Zenon DEF OrsTo
<1> DEFINE T == {k \in 0 .. n : f[1 .. k] \notin Acc}
<1>6. T = {}
  <2>1. SUFFICES ASSUME T # {} PROVE FALSE
    OBVIOUS
  <2>2. PICK m \in T : \A k \in T : m <= k
    <3>1. T \in SUBSET Nat
      BY <1>0
    <3> HIDE DEF T
    <3> QED
      BY <2>1, <3>1, SmallestNumber
  <2>3. m \in 0 .. n /\ f[1 .. m] \notin Acc
    OBVIOUS
  <2>4. CASE m = 0
    <3>1. 1 .. 0 = {} /\ 1 .. 0 \in SUBSET (1 .. n)
      OBVIOUS
    <3>2. f[1 .. 0] = a
      BY <1>5, <3>1
    <3> QED
      BY <2>3, <2>4, <3>2
  <2>5. CASE m # 0
    <3>1. f[1 .. m - 1] \in Acc
      BY <1>0, <2>2, <2>3, <2>5
    <3>2. m \in 1 .. n
      BY <1>0, <2>3, <2>5
    <3>3. f[1 .. m] = Or(c, f[1 .. m - 1], ws[m])
      <4>1. 1 .. m \in SUBSET (1 .. n) /\ 1 .. m # {} /\ Max(1 .. m) = m /\ (1 .. m) \ {m} = 1 .. m - 1
        BY <1>0, <3>2, UpTo
      <4> QED
        BY <1>5, <4>1
    <3> QED
      BY <2>3, <3>1, <3>3, OrIsAcc
  <2> QED
    BY <2>4, <2>5
<1>7. n \in 0 .. n
  BY <1>0
<1> QED
  BY <1>4, <1>6, <1>7

LEMMA Renamed ==
  ASSUME NEW names \in Seq(Word), NEW i \in 1 .. Len(names), NEW e \in Word
  PROVE  [names EXCEPT ![i] = e] \in Seq(Word) /\ Len([names EXCEPT ![i] = e]) = Len(names)
<1>1. Len(names) \in Nat /\ names \in [1 .. Len(names) -> Word]
  BY LenProperties
<1> DEFINE n == Len(names)
           r == [names EXCEPT ![i] = e]
<1> HIDE DEF n
<1>2. r \in [1 .. n -> Word] /\ n \in Nat
  BY <1>1 DEF n
<1> HIDE DEF r
<1>3. r \in Seq(Word) /\ Len(r) = n
  BY <1>2
<1> QED
  BY <1>3 DEF r, n

(* What a definition does to the variables depends on them only. *)
FirstOf(c, words) ==
  IF Places(c, words[1].text) = {} THEN words[1] ELSE c.varsValue[Max(Places(c, words[1].text))]

AccOf(c, words) ==
  Joined(c, [value |-> FirstOf(c, words), valAfterOperand |-> Name(""), thrown |-> FALSE], Tail(words))

Added(c, name, acc, r) ==
  /\ acc.thrown => r = Fail(c, "thrown")
  /\ ~acc.thrown /\ Places(c, name.text) = {} =>
       /\ r.varsName = Append(c.varsName, name) /\ r.varsValue = Append(c.varsValue, acc.value)
       /\ r.err = c.err
  /\ ~acc.thrown /\ Places(c, name.text) # {} =>
       /\ r.varsName = [c.varsName EXCEPT ![Max(Places(c, name.text))] = acc.value]
       /\ r.varsValue = c.varsValue /\ r.err = c.err

LEMMA AddVarIs ==
  ASSUME NEW c, Compilation(c), NEW name, NEW words
  PROVE  Added(c, name, AccOf(c, words), addVar(c, name, words))
<1> DEFINE acc == AccOf(c, words)
           names == Append(c.varsName, name)
           values == Append(c.varsValue, acc.value)
           renamed == [c.varsName EXCEPT ![Max(Places(c, name.text))] = acc.value]
<1>1. addVar(c, name, words) =
        IF acc.thrown THEN Fail(c, "thrown")
        ELSE IF Places(c, name.text) = {} THEN [c EXCEPT !.varsName = names, !.varsValue = values]
        ELSE [c EXCEPT !.varsName = renamed]
  <2>1. addVar(c, name, words) =
        IF acc.thrown THEN Fail(c, "thrown")
        ELSE IF Places(c, name.text) = {}
        THEN [c EXCEPT !.varsName = Append(@, name), !.varsValue = Append(@, acc.value)]
        ELSE [c EXCEPT !.varsName[Max(Places(c, name.text))] = acc.value]
    BY Zenon DEF addVar, AccOf, FirstOf, Joined
  <2>2. /\ [c EXCEPT !.varsName = Append(@, name), !.varsValue = Append(@, acc.value)]
             = [c EXCEPT !.varsName = names, !.varsValue = values]
        /\ [c EXCEPT !.varsName[Max(Places(c, name.text))] = acc.value] = [c EXCEPT !.varsName = renamed]
    <3> HIDE DEF acc
    <3> QED
      OBVIOUS
  <2> HIDE DEF acc, names, values, renamed
  <2> QED
    BY <2>1, <2>2
<1> HIDE DEF acc, names, values, renamed
<1>2. /\ [c EXCEPT !.varsName = names, !.varsValue = values].varsName = names
      /\ [c EXCEPT !.varsName = names, !.varsValue = values].varsValue = values
      /\ [c EXCEPT !.varsName = names, !.varsValue = values].err = c.err
      /\ [c EXCEPT !.varsName = renamed].varsName = renamed
      /\ [c EXCEPT !.varsName = renamed].varsValue = c.varsValue
      /\ [c EXCEPT !.varsName = renamed].err = c.err
  BY DEF Compilation
<1>3. /\ acc.thrown => addVar(c, name, words) = Fail(c, "thrown")
      /\ ~acc.thrown /\ Places(c, name.text) = {} =>
           addVar(c, name, words) = [c EXCEPT !.varsName = names, !.varsValue = values]
      /\ ~acc.thrown /\ Places(c, name.text) # {} => addVar(c, name, words) = [c EXCEPT !.varsName = renamed]
  BY <1>1
<1> QED
  BY <1>2, <1>3 DEF acc, names, values, renamed, Added

LEMMA AccTyped ==
  ASSUME NEW c, Vars(c), NEW words \in Seq(Word), words # << >>
  PROVE  AccOf(c, words) \in Acc
<1>1. words[1] \in Word /\ Tail(words) \in Seq(Word)
  <2>1. Len(words) \in Nat /\ Len(words) # 0
    BY EmptySeq, LenProperties
  <2>2. 1 \in 1 .. Len(words)
    BY <2>1
  <2> QED
    BY <2>2, ElementOfSeq, HeadTailProperties
<1>2. FirstOf(c, words) \in Word
  BY <1>1, PlacesIn DEF FirstOf
<1>3. Name("") \in Word
  <2>1. "" \in Texts
    BY Zenon DEF Texts
  <2> QED
    BY <2>1, NameIsWord
<1> DEFINE a == [value |-> FirstOf(c, words), valAfterOperand |-> Name(""), thrown |-> FALSE]
<1>4. a \in Acc
  BY <1>2, <1>3 DEF Acc
<1>5. AccOf(c, words) = Joined(c, a, Tail(words))
  BY DEF AccOf
<1> HIDE DEF a
<1> QED
  BY <1>1, <1>4, <1>5, JoinedIsAcc

LEMMA VarsAdded ==
  ASSUME NEW c, Compilation(c), Vars(c), NEW name \in Word, NEW words \in Seq(Word), words # << >>
  PROVE  /\ Vars(addVar(c, name, words))
         /\ Len(c.varsName) <= Len(addVar(c, name, words).varsName)
<1> DEFINE acc == AccOf(c, words)
           r == addVar(c, name, words)
<1>1. acc \in Acc /\ acc.value \in Word
  BY AccTyped DEF Acc
<1>a. Added(c, name, acc, r)
  BY AddVarIs
<1> HIDE DEF acc, r
<1>2. Len(c.varsName) \in Nat
  BY LenProperties DEF Vars
<1>3. CASE acc.thrown
  <2>1. r = Fail(c, "thrown")
    BY <1>3, <1>a DEF Added
  <2>2. r.varsName = c.varsName /\ r.varsValue = c.varsValue
    BY <2>1 DEF Fail, Compilation
  <2> QED
    BY <1>2, <2>2 DEF Vars, r
<1>4. CASE ~acc.thrown /\ Places(c, name.text) = {}
  <2>1. r.varsName = Append(c.varsName, name) /\ r.varsValue = Append(c.varsValue, acc.value)
    BY <1>4, <1>a DEF Added
  <2>2. /\ r.varsName \in Seq(Word) /\ Len(r.varsName) = Len(c.varsName) + 1
        /\ r.varsValue \in Seq(Word) /\ Len(r.varsValue) = Len(c.varsValue) + 1
    BY <1>1, <2>1, AppendProperties DEF Vars
  <2> QED
    BY <1>2, <2>2 DEF Vars, r
<1>5. CASE ~acc.thrown /\ Places(c, name.text) # {}
  <2> DEFINE i == Max(Places(c, name.text))
  <2>1. r.varsName = [c.varsName EXCEPT ![i] = acc.value] /\ r.varsValue = c.varsValue
    BY <1>5, <1>a DEF Added
  <2>2. i \in 1 .. Len(c.varsName)
    BY <1>5, PlacesIn
  <2> HIDE DEF i
  <2>3. r.varsName \in Seq(Word) /\ Len(r.varsName) = Len(c.varsName)
    BY <1>1, <2>1, <2>2, Renamed DEF Vars
  <2> QED
    BY <1>2, <2>1, <2>3 DEF Vars, r
<1> QED
  BY <1>3, <1>4, <1>5 DEF r

(* Two compilations with the same variables get the same ones. *)
Alike(b, c) == b.varsName = c.varsName /\ b.varsValue = c.varsValue

OrWith(names, values, acc, word) ==
  LET places == {i \in DOMAIN names : names[i].text = word.text}
      after == IF places = {} THEN acc.valAfterOperand ELSE values[Min(places)]
      binary(w) == w.whole \/ w.text = ""
  IN [value |-> BitsWord("", acc.value.bits \cup after.bits),
      valAfterOperand |-> after,
      thrown |-> acc.thrown \/ ~binary(acc.value) \/ ~binary(after)]

LEMMA AccAlike == ASSUME NEW b, NEW c, Alike(b, c), NEW words PROVE AccOf(b, words) = AccOf(c, words)
<1>1. \A text : Places(b, text) = Places(c, text)
  BY DEF Places, Alike
<1>2. FirstOf(b, words) = FirstOf(c, words)
  BY <1>1 DEF FirstOf, Alike
<1> DEFINE a == [value |-> FirstOf(b, words), valAfterOperand |-> Name(""), thrown |-> FALSE]
           ws == Tail(words)
           JoinedWith(names, values) == FoldLeft(LAMBDA x, w : OrWith(names, values, x, w), a, ws)
<1>3. AccOf(b, words) = Joined(b, a, ws) /\ AccOf(c, words) = Joined(c, a, ws)
  BY <1>2, Zenon DEF AccOf
<1>4. Joined(b, a, ws) = JoinedWith(b.varsName, b.varsValue)
  BY Zenon DEF Joined, Or, OrWith, Places
<1>5. Joined(c, a, ws) = JoinedWith(c.varsName, c.varsValue)
  BY Zenon DEF Joined, Or, OrWith, Places
<1>6. JoinedWith(b.varsName, b.varsValue) = JoinedWith(c.varsName, c.varsValue)
  <2> HIDE DEF JoinedWith
  <2> QED
    BY DEF Alike
<1> QED
  BY <1>3, <1>4, <1>5, <1>6, Zenon

-----------------------------------------------------------------------------
(* Only a definition changes the variables.                                *)

SameVars(c, r) == Compilation(r) /\ r.varsName = c.varsName /\ r.varsValue = c.varsValue

LEMMA FailIs ==
  ASSUME NEW c, Compilation(c), NEW how
  PROVE  SameVars(c, Fail(c, how)) /\ Fail(c, how).err = how
BY DEF Fail, Compilation, SameVars

LEMMA EmitIs ==
  ASSUME NEW c, Compilation(c), NEW op, NEW n
  PROVE  /\ SameVars(c, Emit(c, op, n))
         /\ Emit(c, op, n).code = Append(c.code, [op |-> op, n |-> n])
         /\ Emit(c, op, n).loopInitAddress = c.loopInitAddress
         /\ Emit(c, op, n).loopInTime = c.loopInTime /\ Emit(c, op, n).err = c.err
<1>1. Emit(c, op, n) = [c EXCEPT !.code = Append(c.code, [op |-> op, n |-> n])]
  BY DEF Emit
<1> QED
  BY <1>1 DEF Compilation, SameVars

LEMMA AddTimeIs ==
  ASSUME NEW c, Compilation(c), NEW t
  PROVE  /\ SameVars(c, AddTime(c, t))
         /\ AddTime(c, t).code = c.code /\ AddTime(c, t).loopInitAddress = c.loopInitAddress
         /\ c.loopInTime = << >> => AddTime(c, t) = c
         /\ c.loopInTime # << >> /\ loopIndex(c) = 0 => AddTime(c, t).err = "undefined"
         /\ c.loopInTime # << >> /\ loopIndex(c) # 0 =>
              /\ AddTime(c, t).loopInTime =
                   [c.loopInTime EXCEPT ![loopIndex(c)] = c.loopInTime[loopIndex(c)] + t]
              /\ AddTime(c, t).err = c.err
<1>1. CASE c.loopInTime = << >>
  BY <1>1 DEF AddTime, SameVars
<1>2. CASE c.loopInTime # << >> /\ loopIndex(c) = 0
  BY <1>2 DEF AddTime, Fail, Compilation, SameVars
<1>3. CASE c.loopInTime # << >> /\ loopIndex(c) # 0
  <2> DEFINE times == [c.loopInTime EXCEPT ![loopIndex(c)] = c.loopInTime[loopIndex(c)] + t]
  <2>1. AddTime(c, t) = [c EXCEPT !.loopInTime = times]
    BY <1>3 DEF AddTime
  <2> HIDE DEF times
  <2>2. /\ SameVars(c, AddTime(c, t)) /\ AddTime(c, t).loopInTime = times
        /\ AddTime(c, t).code = c.code /\ AddTime(c, t).loopInitAddress = c.loopInitAddress
        /\ AddTime(c, t).err = c.err
    BY <2>1 DEF Compilation, SameVars
  <2> QED
    BY <1>3, <2>2 DEF times
<1> QED
  BY <1>1, <1>2, <1>3

LEMMA EndLoopIs ==
  ASSUME NEW c, Compilation(c)
  PROVE  /\ SameVars(c, EndLoop(c))
         /\ EndLoop(c).code = Append(c.code, [op |-> "endLoop", n |-> Last(c.loopInitAddress)])
         /\ EndLoop(c).loopInitAddress = Front(c.loopInitAddress)
         /\ EndLoop(c).loopInTime = c.loopInTime /\ EndLoop(c).err = c.err
<1> DEFINE code == Append(c.code, [op |-> "endLoop", n |-> Last(c.loopInitAddress)])
           stack == Front(c.loopInitAddress)
<1>1. EndLoop(c) = [c EXCEPT !.code = code, !.loopInitAddress = stack]
  BY DEF EndLoop, Emit, Compilation
<1> HIDE DEF code, stack
<1>2. /\ SameVars(c, EndLoop(c)) /\ EndLoop(c).code = code /\ EndLoop(c).loopInitAddress = stack
      /\ EndLoop(c).loopInTime = c.loopInTime /\ EndLoop(c).err = c.err
  BY <1>1 DEF Compilation, SameVars
<1> QED
  BY <1>2 DEF code, stack

Pushed(c) ==
  [c EXCEPT !.loopInitAddress = Append(@, Len(c.code) + 1), !.loopInTime = Append(@, 0)]

LEMMA PushedIs ==
  ASSUME NEW c, Compilation(c)
  PROVE  /\ SameVars(c, Pushed(c)) /\ Pushed(c).code = c.code /\ Pushed(c).err = c.err
         /\ Pushed(c).loopInitAddress = Append(c.loopInitAddress, Len(c.code) + 1)
         /\ Pushed(c).loopInTime = Append(c.loopInTime, 0)
<1> DEFINE stack == Append(c.loopInitAddress, Len(c.code) + 1)
           times == Append(c.loopInTime, 0)
<1>1. Pushed(c) = [c EXCEPT !.loopInitAddress = stack, !.loopInTime = times]
  BY DEF Pushed
<1> HIDE DEF stack, times
<1>2. /\ SameVars(c, Pushed(c)) /\ Pushed(c).code = c.code /\ Pushed(c).err = c.err
      /\ Pushed(c).loopInitAddress = stack /\ Pushed(c).loopInTime = times
  BY <1>1 DEF Compilation, SameVars
<1> QED
  BY <1>2 DEF stack, times

LEMMA LoopFuncIs ==
  ASSUME NEW c, NEW values, NEW word
  PROVE  \/ loopFunc(c, values, word) = Fail(c, "failed")
         \/ \E n : loopFunc(c, values, word) = AddTime(Emit(Pushed(c), "loop", n), LOOP_EXEC_TIME)
BY Zenon DEF loopFunc, Pushed

LEMMA DelayFuncIs ==
  ASSUME NEW c, NEW values, NEW word
  PROVE  LET n == Number(c, values, word)
         IN \/ delayFunc(c, values, word) = Fail(c, "failed")
            \/ /\ ~(n <= 0 \/ n > maxValue)
               /\ delayFunc(c, values, word) = AddTime(Emit(c, "delay", n), DELAY_EXEC_TIME + n)
BY Zenon DEF delayFunc

LEMMA StatusFuncIs ==
  ASSUME NEW c, NEW values, NEW word
  PROVE  \/ statusFunc(c, values, word) = Fail(c, "failed")
         \/ \E n : statusFunc(c, values, word) = AddTime(Emit(c, "status", n), STATUS_EXEC_TIME)
BY Zenon DEF statusFunc

LEMMA EndFuncIs ==
  ASSUME NEW c
  PROVE  \/ endFunc(c) = Fail(c, "failed")
         \/ loopIndex(c) # 0 /\ endFunc(c) = EndLoop(AddTime(c, END_EXEC_TIME))
BY Zenon DEF endFunc

LEMMA EndSyncFuncIs ==
  ASSUME NEW c
  PROVE  \/ endSyncFunc(c) = Fail(c, "failed")
         \/ /\ loopIndex(c) # 0
            /\ LET ended == AddTime(c, END_EXEC_TIME)
                   magic == SyncDelay(Clocks(ended))
               IN endSyncFunc(c) = EndLoop(AddTime(Emit(ended, "delay", magic), magic + DELAY_EXEC_TIME))
BY Zenon DEF endSyncFunc

(* What a line is compiled to. *)
LEMMA LineIs ==
  ASSUME NEW c, c.err = "none", NEW values, NEW line
  PROVE  LET r == CompileLine(c, values, line)
         IN \/ r = c
            \/ r = Fail(c, "undefined")
            \/ ~Incomplete(line) /\ line.op = "loop" /\ r = loopFunc(c, values, line.arg)
            \/ ~Incomplete(line) /\ line.op = "delay" /\ r = delayFunc(c, values, line.arg)
            \/ ~Incomplete(line) /\ line.op = "status" /\ r = statusFunc(c, values, line.arg)
            \/ line.op = "end" /\ r = endFunc(c)
            \/ line.op = "endsync" /\ r = endSyncFunc(c)
            \/ ~Incomplete(line) /\ line.op = "=" /\ r = addVar(c, line.name, line.words)
BY DEF CompileLine

LEMMA FunctionsKeepVars ==
  ASSUME NEW c, Compilation(c), NEW values, NEW word
  PROVE  /\ SameVars(c, loopFunc(c, values, word)) /\ SameVars(c, delayFunc(c, values, word))
         /\ SameVars(c, statusFunc(c, values, word))
         /\ SameVars(c, endFunc(c)) /\ SameVars(c, endSyncFunc(c))
<1>1. \A b : SameVars(c, b) => /\ \A t : SameVars(c, AddTime(b, t))
                               /\ \A op, n : SameVars(c, Emit(b, op, n))
                               /\ SameVars(c, EndLoop(b)) /\ SameVars(c, Pushed(b))
                               /\ \A how : SameVars(c, Fail(b, how))
  <2> SUFFICES ASSUME NEW b, SameVars(c, b)
               PROVE  /\ \A t : SameVars(c, AddTime(b, t))
                      /\ \A op, n : SameVars(c, Emit(b, op, n))
                      /\ SameVars(c, EndLoop(b)) /\ SameVars(c, Pushed(b))
                      /\ \A how : SameVars(c, Fail(b, how))
    OBVIOUS
  <2>1. Compilation(b) /\ \A r : SameVars(b, r) => SameVars(c, r)
    BY DEF SameVars
  <2> QED
    BY <2>1, AddTimeIs, EmitIs, EndLoopIs, PushedIs, FailIs
<1>2. SameVars(c, c)
  BY DEF SameVars
<1>3. SameVars(c, loopFunc(c, values, word))
  BY <1>1, <1>2, LoopFuncIs
<1>4. SameVars(c, delayFunc(c, values, word))
  BY <1>1, <1>2, DelayFuncIs
<1>5. SameVars(c, statusFunc(c, values, word))
  BY <1>1, <1>2, StatusFuncIs
<1>6. SameVars(c, endFunc(c))
  BY <1>1, <1>2, EndFuncIs
<1>7. SameVars(c, endSyncFunc(c))
  BY <1>1, <1>2, EndSyncFuncIs
<1> QED
  BY <1>3, <1>4, <1>5, <1>6, <1>7

LEMMA LineVars ==
  ASSUME NEW c, Compilation(c), c.err = "none", NEW values, NEW line
  PROVE  \/ SameVars(c, CompileLine(c, values, line))
         \/ /\ ~Incomplete(line) /\ line.op = "="
            /\ CompileLine(c, values, line) = addVar(c, line.name, line.words)
<1>1. SameVars(c, c) /\ SameVars(c, Fail(c, "undefined"))
  BY FailIs DEF SameVars
<1> QED
  BY <1>1, LineIs, FunctionsKeepVars

LEMMA LineKeepsVars ==
  ASSUME NEW c, Compilation(c), Vars(c), NEW values, NEW line, Words(line)
  PROVE  LET r == CompileLine(c, values, line)
         IN Vars(r) /\ Len(c.varsName) <= Len(r.varsName)
<1> DEFINE r == CompileLine(c, values, line)
<1>1. Len(c.varsName) \in Nat
  BY LenProperties DEF Vars
<1>2. CASE c.err # "none"
  <2>1. r = c
    BY <1>2 DEF CompileLine
  <2> QED
    BY <1>1, <2>1
<1>3. CASE c.err = "none" /\ SameVars(c, r)
  BY <1>1, <1>3 DEF SameVars, Vars
<1>4. CASE ~Incomplete(line) /\ line.op = "=" /\ r = addVar(c, line.name, line.words)
  <2>1. line.name \in Word /\ line.words \in Seq(Word) /\ line.words # << >>
    BY <1>4 DEF Words, Incomplete
  <2> QED
    BY <1>4, <2>1, VarsAdded
<1> QED
  BY <1>2, <1>3, <1>4, LineVars

LEMMA LineKeepsAlike ==
  ASSUME NEW b, Compilation(b), b.err = "none", NEW c, Compilation(c), c.err = "none", Alike(b, c),
         NEW v, NEW w, NEW line,
         CompileLine(b, v, line).err = "none", CompileLine(c, w, line).err = "none"
  PROVE  Alike(CompileLine(b, v, line), CompileLine(c, w, line))
<1> DEFINE r == CompileLine(b, v, line)
           q == CompileLine(c, w, line)
<1>1. CASE ~Incomplete(line) /\ line.op = "="
  <2>1. r = addVar(b, line.name, line.words) /\ q = addVar(c, line.name, line.words)
    BY <1>1 DEF CompileLine
  <2> DEFINE acc == AccOf(b, line.words)
  <2>2. AccOf(c, line.words) = acc
    BY AccAlike
  <2>3. Places(b, line.name.text) = Places(c, line.name.text)
    BY DEF Places, Alike
  <2>4. Added(b, line.name, acc, r) /\ Added(c, line.name, acc, q)
    BY <2>1, <2>2, AddVarIs
  <2>5. ~acc.thrown
    <3>1. Fail(b, "thrown").err # "none"
      BY FailIs
    <3> HIDE DEF acc, r, q
    <3> QED
      BY <2>4, <3>1 DEF Added, r
  <2> HIDE DEF acc, r, q
  <2>6. Alike(r, q)
    BY <2>3, <2>4, <2>5 DEF Added, Alike
  <2> QED
    BY <2>6 DEF r, q
<1>2. CASE ~(~Incomplete(line) /\ line.op = "=")
  <2>1. SameVars(b, r) /\ SameVars(c, q)
    BY <1>2, LineVars
  <2> QED
    BY <2>1 DEF SameVars, Alike
<1> QED
  BY <1>1, <1>2

-----------------------------------------------------------------------------
(* A compilation, line by line.                                            *)

InTurn(q, lines, values) ==
  /\ q[0] = Start
  /\ \A k \in 1 .. Len(lines) : q[k] = CompileLine(q[k - 1], values, lines[k])

LEMMA LinesInTurn ==
  ASSUME NEW lines, Len(lines) \in Nat, DOMAIN lines = 1 .. Len(lines), NEW values
  PROVE  \E q : InTurn(q, lines, values) /\ Folded(lines, values) = q[Len(lines)]
<1> DEFINE n == Len(lines)
           f == CHOOSE f : Compiles(f, n, lines, values)
<1>1. Folded(lines, values) = f[1 .. n]
  BY LinesFolded, Zenon DEF Compiles
<1>2. Compiles(f, n, lines, values)
  BY SomeCompiles
<1>3. n \in Nat
  OBVIOUS
<1> HIDE DEF f
<1>4. \A t \in SUBSET (1 .. n) :
        f[t] = IF t = {} THEN Start ELSE CompileLine(f[t \ {Max(t)}], values, lines[Max(t)])
  BY <1>2 DEF Compiles
<1> DEFINE q == [k \in 0 .. n |-> f[1 .. k]]
<1> HIDE DEF n
<1>5. q[0] = Start /\ q[n] = f[1 .. n]
  <2>1. 1 .. 0 = {} /\ 1 .. 0 \in SUBSET (1 .. n)
    OBVIOUS
  <2>2. f[{}] = Start
    BY <1>4, <2>1
  <2>3. 0 \in 0 .. n /\ n \in 0 .. n
    BY <1>3
  <2> QED
    BY <2>1, <2>2, <2>3
<1>6. ASSUME NEW k \in 1 .. n PROVE q[k] = CompileLine(q[k - 1], values, lines[k])
  <2>1. 1 .. k \in SUBSET (1 .. n) /\ 1 .. k # {} /\ Max(1 .. k) = k /\ (1 .. k) \ {k} = 1 .. k - 1
    BY <1>3, UpTo
  <2>2. f[1 .. k] = CompileLine(f[1 .. k - 1], values, lines[k])
    BY <1>4, <2>1
  <2>3. q[k] = f[1 .. k] /\ q[k - 1] = f[1 .. k - 1]
    BY <1>3
  <2> QED
    BY <2>2, <2>3
<1> HIDE DEF q
<1> QED
  BY <1>1, <1>5, <1>6 DEF n, InTurn

(* A file as the daemon can read it. *)
File(lines) ==
  /\ Len(lines) \in Nat /\ DOMAIN lines = 1 .. Len(lines)
  /\ \A k \in DOMAIN lines : Words(lines[k])

Step(c) == CodeInv(c) /\ Vars(c)

LEMMA StartVars == Vars(Start)
<1>1. << >> \in Seq(Word)
  BY EmptySeq
<1> QED
  BY <1>1 DEF Start, Vars

LEMMA StepsCompiled ==
  ASSUME NEW lines, File(lines), NEW values, NEW q, InTurn(q, lines, values)
  PROVE  \A k \in 0 .. Len(lines) : Step(q[k])
<1> DEFINE n == Len(lines)
           T == {k \in 0 .. n : ~Step(q[k])}
<1>0. n \in Nat /\ DOMAIN lines = 1 .. n
  BY DEF File
<1>1. SUFFICES ASSUME T # {} PROVE FALSE
  OBVIOUS
<1>2. PICK m \in T : \A k \in T : m <= k
  <2>1. T \in SUBSET Nat
    BY <1>0
  <2> HIDE DEF T
  <2> QED
    BY <1>1, <2>1, SmallestNumber
<1>3. m \in 0 .. n /\ ~Step(q[m])
  OBVIOUS
<1>4. m # 0
  BY <1>3, NothingCompiled, StartVars DEF InTurn, Step
<1>5. m \in 1 .. n /\ m - 1 \in 0 .. n /\ Step(q[m - 1])
  BY <1>0, <1>2, <1>3, <1>4
<1> HIDE DEF T
<1>6. q[m] = CompileLine(q[m - 1], values, lines[m])
  BY <1>5 DEF InTurn
<1>7. Words(lines[m])
  BY <1>0, <1>5 DEF File
<1>8. CodeInv(q[m])
  BY <1>5, <1>6, LineCompiled DEF Step
<1>9. Vars(q[m])
  BY <1>5, <1>6, <1>7, LineKeepsVars DEF Step, CodeInv
<1> QED
  BY <1>3, <1>8, <1>9 DEF Step

(* Nothing is compiled after an error, and no variable is forgotten. *)
LEMMA StepsGrow ==
  ASSUME NEW lines, File(lines), NEW values, NEW q, InTurn(q, lines, values),
         q[Len(lines)].err = "none"
  PROVE  \A j \in 0 .. Len(lines) :
           q[j].err = "none" /\ Len(q[j].varsName) <= Len(q[Len(lines)].varsName)
<1> DEFINE n == Len(lines)
           Fits(j) == q[j].err = "none" /\ Len(q[j].varsName) <= Len(q[n].varsName)
           T == {i \in 0 .. n : ~Fits(n - i)}
<1>0. n \in Nat /\ DOMAIN lines = 1 .. n
  BY DEF File
<1>a. \A k \in 0 .. n : Step(q[k]) /\ Len(q[k].varsName) \in Nat
  BY StepsCompiled, LenProperties DEF Step, Vars
<1>b. q[n].err = "none"
  OBVIOUS
<1> HIDE DEF n
<1>1. T = {}
  <2>1. SUFFICES ASSUME T # {} PROVE FALSE
    OBVIOUS
  <2>2. PICK m \in T : \A k \in T : m <= k
    <3>1. T \in SUBSET Nat
      BY <1>0
    <3> HIDE DEF T
    <3> QED
      BY <2>1, <3>1, SmallestNumber
  <2>3. m \in 0 .. n /\ ~Fits(n - m)
    OBVIOUS
  <2>4. m # 0
    <3>1. Fits(n)
      BY <1>0, <1>a, <1>b
    <3>2. n - 0 = n
      BY <1>0
    <3> HIDE DEF Fits
    <3> QED
      BY <2>3, <3>1, <3>2
  <2>5. m - 1 \in 0 .. n /\ Fits(n - (m - 1))
    <3> HIDE DEF Fits
    <3> QED
      BY <1>0, <2>2, <2>3, <2>4
  <2> DEFINE j == n - m
  <2>6. j + 1 = n - (m - 1) /\ j \in 0 .. n /\ j + 1 \in 1 .. n /\ (j + 1) - 1 = j
    BY <1>0, <2>3, <2>4
  <2>7. Fits(j + 1) /\ ~Fits(j)
    BY <2>3, <2>5, <2>6
  <2> HIDE DEF T, j
  <2>8. q[j + 1] = CompileLine(q[j], values, lines[j + 1])
    BY <2>6 DEF InTurn, n
  <2>9. q[j].err = "none"
    BY <2>7, <2>8 DEF CompileLine
  <2>10. Len(q[j].varsName) <= Len(q[j + 1].varsName)
    <3>1. Words(lines[j + 1]) /\ Step(q[j])
      BY <1>0, <1>a, <2>6 DEF File
    <3> QED
      BY <2>8, <3>1, LineKeepsVars DEF Step, CodeInv
  <2>11. Len(q[j].varsName) \in Nat /\ Len(q[j + 1].varsName) \in Nat /\ Len(q[n].varsName) \in Nat
    BY <1>0, <1>a, <2>6
  <2> QED
    BY <2>7, <2>9, <2>10, <2>11
<1>2. ASSUME NEW j \in 0 .. n PROVE Fits(j)
  <2>1. n - j \in 0 .. n /\ n - (n - j) = j
    BY <1>0
  <2>2. Fits(n - (n - j))
    <3> HIDE DEF Fits
    <3> QED
      BY <1>1, <2>1
  <2> QED
    BY <2>1, <2>2
<1> QED
  BY <1>2 DEF n

(* A file has the same variables whatever values they have. *)
LEMMA StepsAlike ==
  ASSUME NEW lines, File(lines), NEW v, NEW w, NEW q, InTurn(q, lines, v), NEW r, InTurn(r, lines, w),
         q[Len(lines)].err = "none"
  PROVE  \A k \in 0 .. Len(lines) : r[k].err = "none" => Alike(q[k], r[k])
<1> DEFINE n == Len(lines)
           T == {k \in 0 .. n : ~(r[k].err = "none" => Alike(q[k], r[k]))}
<1>0. n \in Nat
  BY DEF File
<1>1. SUFFICES ASSUME T # {} PROVE FALSE
  OBVIOUS
<1>2. PICK m \in T : \A k \in T : m <= k
  <2>1. T \in SUBSET Nat
    BY <1>0
  <2> HIDE DEF T
  <2> QED
    BY <1>1, <2>1, SmallestNumber
<1>3. m \in 0 .. n /\ r[m].err = "none" /\ ~Alike(q[m], r[m])
  OBVIOUS
<1>4. m # 0
  BY <1>3 DEF InTurn, Alike
<1>5. m \in 1 .. n /\ m - 1 \in 0 .. n /\ (r[m - 1].err = "none" => Alike(q[m - 1], r[m - 1]))
  BY <1>0, <1>2, <1>3, <1>4
<1> HIDE DEF T
<1>6. q[m] = CompileLine(q[m - 1], v, lines[m]) /\ r[m] = CompileLine(r[m - 1], w, lines[m])
  BY <1>5 DEF InTurn
<1>7. r[m - 1].err = "none"
  BY <1>3, <1>6 DEF CompileLine
<1>8. q[m - 1].err = "none" /\ q[m].err = "none"
  BY <1>3, <1>5, StepsGrow
<1>9. Compilation(q[m - 1]) /\ Compilation(r[m - 1])
  BY <1>5, StepsCompiled DEF Step, CodeInv
<1> QED
  BY <1>3, <1>5, <1>6, <1>7, <1>8, <1>9, LineKeepsAlike

-----------------------------------------------------------------------------
(* The clocks of code, from its beginning, and the loops open after each   *)
(* instruction: depth of them, the k-th opened at open[k].                 *)

Time(i) ==
  CASE i.op = "loop"    -> LOOP_EXEC_TIME
    [] i.op = "delay"   -> DELAY_EXEC_TIME + i.n
    [] i.op = "status"  -> STATUS_EXEC_TIME
    [] i.op = "endLoop" -> END_EXEC_TIME
    [] OTHER            -> 0

Taken(i, clock, clock1) == Time(i) \in Int /\ clock1 = clock + Time(i)

Nesting(i, at, depth, open, depth1, open1) ==
  /\ i.op = "loop" => depth1 = depth + 1 /\ open1 = [open EXCEPT ![depth + 1] = at]
  /\ i.op = "endLoop" => depth # 0 /\ depth1 = depth - 1 /\ open1 = open /\ i.n = open[depth]
  /\ i.op \notin {"loop", "endLoop"} => depth1 = depth /\ open1 = open

(* Where a loop is open, it has been since after the instruction of it. *)
Since(g, p) ==
  \A k \in 1 .. g.depth[p] :
    /\ g.open[p][k] \in 1 .. p /\ g.depth[g.open[p][k]] = k
    /\ \A j \in 1 .. k : g.open[g.open[p][k]][j] = g.open[p][j]

Profile(code, g) ==
  /\ g.clock \in [0 .. Len(code) -> Int] /\ g.clock[0] = 0
  /\ g.depth \in [0 .. Len(code) -> Nat] /\ g.depth[0] = 0
  /\ g.open \in [0 .. Len(code) -> [Nat -> Nat]]
  /\ \A i \in 1 .. Len(code) :
       /\ Taken(code[i], g.clock[i - 1], g.clock[i])
       /\ Nesting(code[i], i, g.depth[i - 1], g.open[i - 1], g.depth[i], g.open[i])
  /\ \A p \in 0 .. Len(code) : Since(g, p)

Whole(x) == x % MULT_FOR_SYNC = 0

LapsWhole(code, g) ==
  \A i \in 1 .. Len(code) : code[i].op = "endLoop" => Whole(g.clock[i] - g.clock[code[i].n])

LEMMA EmptyProfile == \E g : Profile(<< >>, g) /\ LapsWhole(<< >>, g)
<1> DEFINE none == [k \in Nat |-> 0]
           g == [clock |-> [i \in 0 .. 0 |-> 0], depth |-> [i \in 0 .. 0 |-> 0],
                 open |-> [i \in 0 .. 0 |-> none]]
<1>1. Len(<< >>) = 0
  OBVIOUS
<1>2. none \in [Nat -> Nat]
  OBVIOUS
<1> HIDE DEF none
<1>3. /\ g.clock \in [0 .. 0 -> Int] /\ g.clock[0] = 0
      /\ g.depth \in [0 .. 0 -> Nat] /\ g.depth[0] = 0
      /\ g.open \in [0 .. 0 -> [Nat -> Nat]]
  BY <1>2
<1>4. \A p \in 0 .. 0 : Since(g, p)
  BY DEF Since
<1> HIDE DEF g
<1> QED
  BY <1>1, <1>3, <1>4 DEF Profile, LapsWhole

(* h goes on from g with the instruction e, the one after the first n. *)
Continues(g, h, n, e) ==
  /\ \A i \in 0 .. n : h.clock[i] = g.clock[i] /\ h.depth[i] = g.depth[i] /\ h.open[i] = g.open[i]
  /\ Taken(e, g.clock[n], h.clock[n + 1])
  /\ Nesting(e, n + 1, g.depth[n], g.open[n], h.depth[n + 1], h.open[n + 1])

LEMMA ProfileGrows ==
  ASSUME NEW X, NEW code \in Seq(X), NEW g, Profile(code, g), NEW e, Time(e) \in Int,
         e.op = "endLoop" => g.depth[Len(code)] # 0 /\ e.n = g.open[Len(code)][g.depth[Len(code)]]
  PROVE  \E h : Profile(Append(code, e), h) /\ Continues(g, h, Len(code), e)
<1> DEFINE n == Len(code)
           longer == Append(code, e)
           t == g.clock[n]
           d == g.depth[n]
           o == g.open[n]
           t1 == t + Time(e)
           depth1 == IF e.op = "loop" THEN d + 1 ELSE IF e.op = "endLoop" THEN d - 1 ELSE d
           open1 == IF e.op = "loop" THEN [o EXCEPT ![d + 1] = n + 1] ELSE o
           clock == [i \in 0 .. n + 1 |-> IF i <= n THEN g.clock[i] ELSE t1]
           depth == [i \in 0 .. n + 1 |-> IF i <= n THEN g.depth[i] ELSE depth1]
           open == [i \in 0 .. n + 1 |-> IF i <= n THEN g.open[i] ELSE open1]
           h == [clock |-> clock, depth |-> depth, open |-> open]
<1>1. n \in Nat /\ Len(longer) = n + 1 /\ longer[n + 1] = e /\ \A i \in 1 .. n : longer[i] = code[i]
  BY Appended
<1>a. /\ g.clock \in [0 .. n -> Int] /\ g.clock[0] = 0
      /\ g.depth \in [0 .. n -> Nat] /\ g.depth[0] = 0
      /\ g.open \in [0 .. n -> [Nat -> Nat]]
      /\ \A i \in 1 .. n :
           /\ Taken(code[i], g.clock[i - 1], g.clock[i])
           /\ Nesting(code[i], i, g.depth[i - 1], g.open[i - 1], g.depth[i], g.open[i])
      /\ \A p \in 0 .. n : Since(g, p)
  BY DEF Profile
<1>b. e.op = "endLoop" => d # 0 /\ e.n = o[d]
  OBVIOUS
<1> HIDE DEF n, longer
<1>c. n \in 0 .. n /\ n + 1 \in 0 .. n + 1 /\ ~(n + 1 <= n) /\ 0 \in 0 .. n
      /\ \A i \in 0 .. n : i <= n /\ i \in 0 .. n + 1
      /\ \A j \in 0 .. n + 1 : j <= n => j \in 0 .. n
  BY <1>1
<1>d. t \in Int /\ t1 \in Int /\ t1 = t + Time(e) /\ d \in Nat /\ o \in [Nat -> Nat]
  <2>1. t \in Int /\ d \in Nat /\ o \in [Nat -> Nat]
    BY <1>a, <1>c
  <2>2. Time(e) \in Int /\ t1 = t + Time(e)
    OBVIOUS
  <2> HIDE DEF t, d, o, t1
  <2> QED
    BY <2>1, <2>2
<1>e. g.clock[n] = t /\ g.depth[n] = d /\ g.open[n] = o
  OBVIOUS
<1> HIDE DEF t, d, o, t1
<1>2. depth1 \in Nat
  BY <1>b, <1>d
<1>3. open1 \in [Nat -> Nat]
  <2>1. [o EXCEPT ![d + 1] = n + 1] \in [Nat -> Nat]
    <3>1. d + 1 \in Nat /\ n + 1 \in Nat
      BY <1>1, <1>d
    <3> QED
      BY <1>d, <3>1
  <2> QED
    BY <1>d, <2>1
<1>4. Nesting(e, n + 1, d, o, depth1, open1)
  BY <1>b DEF Nesting
<1>5. \A k \in 1 .. depth1 :
         \/ k \in 1 .. d /\ \A j \in 1 .. k : open1[j] = o[j]
         \/ e.op = "loop" /\ k = depth1 /\ open1[k] = n + 1
  <2> SUFFICES ASSUME NEW k \in 1 .. depth1
               PROVE  \/ k \in 1 .. d /\ \A j \in 1 .. k : open1[j] = o[j]
                      \/ e.op = "loop" /\ k = depth1 /\ open1[k] = n + 1
    OBVIOUS
  <2>1. CASE e.op = "loop"
    <3>1. depth1 = d + 1 /\ open1 = [o EXCEPT ![d + 1] = n + 1]
      BY <2>1
    <3> HIDE DEF depth1, open1
    <3>2. k \in 1 .. d \/ k = d + 1
      BY <1>d, <3>1
    <3>3. open1[d + 1] = n + 1 /\ \A j \in 1 .. d : open1[j] = o[j]
      <4>1. d + 1 \in Nat /\ \A j \in 1 .. d : j \in Nat /\ j # d + 1
        BY <1>d
      <4> QED
        BY <1>d, <3>1, <4>1
    <3>4. k \in 1 .. d => \A j \in 1 .. k : j \in 1 .. d
      BY <1>d
    <3> QED
      BY <2>1, <3>1, <3>2, <3>3, <3>4
  <2>2. CASE e.op # "loop"
    <3>1. open1 = o /\ depth1 <= d
      BY <1>d, <2>2
    <3> HIDE DEF depth1, open1
    <3> QED
      BY <1>2, <1>d, <3>1
  <2> QED
    BY <2>1, <2>2
<1> HIDE DEF depth1, open1
<1>6. /\ clock \in [0 .. n + 1 -> Int] /\ clock[0] = 0
      /\ clock[n + 1] = t1 /\ \A i \in 0 .. n : clock[i] = g.clock[i]
  BY <1>a, <1>c, <1>d
<1>7. /\ depth \in [0 .. n + 1 -> Nat] /\ depth[0] = 0
      /\ depth[n + 1] = depth1 /\ \A i \in 0 .. n : depth[i] = g.depth[i]
  BY <1>a, <1>c, <1>2
<1>8. /\ open \in [0 .. n + 1 -> [Nat -> Nat]]
      /\ open[n + 1] = open1 /\ \A i \in 0 .. n : open[i] = g.open[i]
  BY <1>a, <1>c, <1>3
<1>9. h.clock = clock /\ h.depth = depth /\ h.open = open
  OBVIOUS
<1> HIDE DEF h, clock, depth, open
<1>10. ASSUME NEW i \in 1 .. n + 1
       PROVE  /\ Taken(longer[i], h.clock[i - 1], h.clock[i])
              /\ Nesting(longer[i], i, h.depth[i - 1], h.open[i - 1], h.depth[i], h.open[i])
  <2>1. CASE i = n + 1
    <3>1. i - 1 = n
      BY <1>1, <2>1
    <3>2. Taken(e, g.clock[n], clock[n + 1])
      BY <1>6, <1>d, <1>e DEF Taken
    <3> QED
      BY <1>1, <1>4, <1>e, <1>6, <1>7, <1>8, <1>9, <1>c, <2>1, <3>1, <3>2
  <2>2. CASE i \in 1 .. n
    <3>1. i \in 0 .. n /\ i - 1 \in 0 .. n
      BY <1>1, <2>2
    <3> QED
      BY <1>1, <1>a, <1>6, <1>7, <1>8, <1>9, <2>2, <3>1
  <2> QED
    BY <1>1, <2>1, <2>2
<1>11. ASSUME NEW p \in 0 .. n + 1 PROVE Since(h, p)
  <2> SUFFICES ASSUME NEW k \in 1 .. h.depth[p]
               PROVE  /\ h.open[p][k] \in 1 .. p /\ h.depth[h.open[p][k]] = k
                      /\ \A j \in 1 .. k : h.open[h.open[p][k]][j] = h.open[p][j]
    BY DEF Since
  <2>1. ASSUME NEW r \in 0 .. n, k \in 1 .. g.depth[r]
        PROVE  /\ g.open[r][k] \in 1 .. r /\ g.open[r][k] \in 0 .. n
               /\ h.depth[g.open[r][k]] = k
               /\ \A j \in 1 .. k : h.open[g.open[r][k]][j] = g.open[r][j]
    <3>1. /\ g.open[r][k] \in 1 .. r /\ g.depth[g.open[r][k]] = k
          /\ \A j \in 1 .. k : g.open[g.open[r][k]][j] = g.open[r][j]
      BY <1>a, <2>1 DEF Since
    <3>2. g.open[r][k] \in 0 .. n
      BY <1>1, <3>1
    <3> QED
      BY <1>7, <1>8, <1>9, <3>1, <3>2
  <2>2. CASE p \in 0 .. n
    <3>1. h.depth[p] = g.depth[p] /\ h.open[p] = g.open[p]
      BY <1>7, <1>8, <1>9, <2>2
    <3> QED
      BY <2>1, <2>2, <3>1
  <2>3. CASE p = n + 1
    <3>1. h.depth[p] = depth1 /\ h.open[p] = open1
      BY <1>7, <1>8, <1>9, <2>3
    <3>2. CASE k \in 1 .. d /\ \A j \in 1 .. k : open1[j] = o[j]
      <4>1. k \in 1 .. k
        BY <1>d, <3>2
      <4>2. open1[k] = g.open[n][k]
        BY <1>e, <3>2, <4>1
      <4>3. /\ g.open[n][k] \in 1 .. n /\ h.depth[g.open[n][k]] = k
            /\ \A j \in 1 .. k : h.open[g.open[n][k]][j] = g.open[n][j]
        BY <1>c, <1>e, <2>1, <3>2
      <4>4. g.open[n][k] \in 1 .. p
        BY <1>1, <2>3, <4>3
      <4> QED
        BY <1>e, <3>1, <3>2, <4>2, <4>3, <4>4
    <3>3. CASE e.op = "loop" /\ k = depth1 /\ open1[k] = n + 1
      <4>1. n + 1 \in 1 .. p
        BY <1>1, <2>3
      <4> QED
        BY <2>3, <3>1, <3>3, <4>1
    <3> QED
      BY <1>5, <3>1, <3>2, <3>3
  <2> QED
    BY <1>1, <2>2, <2>3
<1>12. Profile(longer, h)
  BY <1>1, <1>6, <1>7, <1>8, <1>9, <1>10, <1>11 DEF Profile
<1>13. Continues(g, h, n, e)
  <2>1. Taken(e, g.clock[n], h.clock[n + 1])
    BY <1>6, <1>9, <1>d, <1>e DEF Taken
  <2> QED
    BY <1>4, <1>e, <1>6, <1>7, <1>8, <1>9, <2>1 DEF Continues
<1> QED
  BY <1>12, <1>13 DEF n, longer

(* Iterations stay whole, and those of a loop that ends are if the clocks  *)
(* since its instruction are.                                              *)
LEMMA LapsGrow ==
  ASSUME NEW X, NEW code \in Seq(X), NEW g, Profile(code, g), LapsWhole(code, g), NEW e, NEW h,
         Profile(Append(code, e), h), Continues(g, h, Len(code), e),
         e.op = "endLoop" => Whole(h.clock[Len(code) + 1] - g.clock[e.n])
  PROVE  LapsWhole(Append(code, e), h)
<1> DEFINE n == Len(code)
           longer == Append(code, e)
<1>1. n \in Nat /\ Len(longer) = n + 1 /\ longer[n + 1] = e /\ \A i \in 1 .. n : longer[i] = code[i]
  BY Appended
<1>2. \A i \in 1 .. n : code[i].op = "endLoop" => Whole(g.clock[i] - g.clock[code[i].n])
  BY DEF LapsWhole
<1>3. \A i \in 0 .. n : h.clock[i] = g.clock[i]
  BY DEF Continues
<1>4. ASSUME NEW i \in 1 .. n + 1, longer[i].op = "endLoop"
      PROVE  longer[i].n \in 1 .. i - 1
  <2>1. /\ i - 1 \in 0 .. n + 1
        /\ Nesting(longer[i], i, h.depth[i - 1], h.open[i - 1], h.depth[i], h.open[i]) /\ Since(h, i - 1)
        /\ h.depth[i - 1] \in Nat
    <3>1. i - 1 \in 0 .. n + 1 /\ i \in 1 .. Len(longer)
      BY <1>1
    <3> QED
      BY <1>1, <3>1 DEF Profile
  <2>2. h.depth[i - 1] # 0 /\ longer[i].n = h.open[i - 1][h.depth[i - 1]]
    BY <1>4, <2>1 DEF Nesting
  <2>3. h.depth[i - 1] \in 1 .. h.depth[i - 1]
    BY <2>1, <2>2
  <2> QED
    BY <2>1, <2>2, <2>3 DEF Since
<1>a. e.op = "endLoop" => Whole(h.clock[n + 1] - g.clock[e.n])
  OBVIOUS
<1> HIDE DEF n, longer
<1>5. ASSUME NEW i \in 1 .. n + 1, longer[i].op = "endLoop"
      PROVE  Whole(h.clock[i] - h.clock[longer[i].n])
  <2>1. longer[i].n \in 0 .. n
    BY <1>1, <1>4, <1>5
  <2>2. CASE i = n + 1
    BY <1>1, <1>3, <1>5, <1>a, <2>1, <2>2
  <2>3. CASE i \in 1 .. n
    <3>1. i \in 0 .. n
      BY <1>1, <2>3
    <3> QED
      BY <1>1, <1>2, <1>3, <1>5, <2>1, <2>3, <3>1
  <2> QED
    BY <1>1, <2>2, <2>3
<1> QED
  BY <1>1, <1>5 DEF LapsWhole, longer

-----------------------------------------------------------------------------
(* What the compiler knows of the clocks.  z[k] has those of the loops from *)
(* depth k on; of an open loop, they are the clocks since before its        *)
(* instruction, up to those of instructions not yet added, owed.            *)

Summed(times, z) ==
  /\ times \in Seq(Int)
  /\ z \in [1 .. Len(times) + 1 -> Int] /\ z[Len(times) + 1] = 0
  /\ \A k \in 1 .. Len(times) : z[k] = times[k] + z[k + 1]

Stacked(stack, depth, open) ==
  /\ stack \in Seq(Nat) /\ Len(stack) = depth
  /\ \A k \in 1 .. depth : stack[k] = open[k]

Timed(c, g, z, owed) ==
  /\ Compilation(c) /\ \E X : c.code \in Seq(X)
  /\ Profile(c.code, g) /\ LapsWhole(c.code, g)
  /\ Stacked(c.loopInitAddress, g.depth[Len(c.code)], g.open[Len(c.code)])
  /\ Summed(c.loopInTime, z) /\ Len(c.loopInitAddress) <= Len(c.loopInTime)
  /\ \A k \in 1 .. Len(c.loopInitAddress) :
       z[k] + owed = g.clock[Len(c.code)] - g.clock[c.loopInitAddress[k]] + LOOP_EXEC_TIME

(* What follows at once. *)
LEMMA TimedTypes ==
  ASSUME NEW c, NEW g, NEW z, NEW owed, Timed(c, g, z, owed)
  PROVE  /\ Len(c.code) \in Nat /\ g.clock[Len(c.code)] \in Int
         /\ Len(c.loopInitAddress) \in Nat /\ Len(c.loopInTime) \in Nat
         /\ Len(c.loopInitAddress) = g.depth[Len(c.code)] /\ g.depth[Len(c.code)] \in Nat
         /\ g.open[Len(c.code)] \in [Nat -> Nat]
         /\ \A k \in 1 .. Len(c.loopInitAddress) :
              /\ c.loopInitAddress[k] \in 1 .. Len(c.code) /\ c.loopInitAddress[k] = g.open[Len(c.code)][k]
              /\ g.clock[c.loopInitAddress[k]] \in Int
<1> DEFINE n == Len(c.code)
           d == Len(c.loopInitAddress)
<1>1. n \in Nat /\ d \in Nat /\ Len(c.loopInTime) \in Nat
  BY LenProperties DEF Timed, Stacked, Summed
<1>2. /\ g.clock \in [0 .. n -> Int] /\ g.depth \in [0 .. n -> Nat] /\ g.open \in [0 .. n -> [Nat -> Nat]]
      /\ Since(g, n)
  <2>1. Profile(c.code, g) /\ n \in 0 .. n
    BY <1>1 DEF Timed
  <2> QED
    BY <2>1 DEF Profile
<1>3. d = g.depth[n] /\ \A k \in 1 .. d : c.loopInitAddress[k] = g.open[n][k]
  BY DEF Timed, Stacked
<1> HIDE DEF n, d
<1>4. g.clock[n] \in Int /\ g.depth[n] \in Nat /\ g.open[n] \in [Nat -> Nat]
  <2>1. n \in 0 .. n
    BY <1>1
  <2> QED
    BY <1>2, <2>1
<1>5. \A k \in 1 .. d : g.open[n][k] \in 1 .. n
  BY <1>2, <1>3 DEF Since
<1>6. \A k \in 1 .. d : g.clock[g.open[n][k]] \in Int
  BY <1>1, <1>2, <1>5
<1> QED
  BY <1>1, <1>3, <1>4, <1>5, <1>6 DEF n, d

LEMMA TimedAdds ==
  ASSUME NEW c, NEW g, NEW z, NEW owed \in Int, Timed(c, g, z, owed), c.err = "none", NEW t \in Int,
         AddTime(c, t).err = "none"
  PROVE  \E y : Timed(AddTime(c, t), g, y, owed - t)
<1> DEFINE r == AddTime(c, t)
           times == c.loopInTime
           stack == c.loopInitAddress
           d == Len(stack)
           l == Len(times)
<1>1. Compilation(c) /\ Summed(times, z) /\ d \in Nat /\ l \in Nat /\ d <= l /\ loopIndex(c) = d
  BY TimedTypes DEF Timed, loopIndex
<1>2. SameVars(c, r) /\ Compilation(r) /\ r.code = c.code /\ r.loopInitAddress = stack
  BY <1>1, AddTimeIs DEF SameVars
<1>3. CASE times = << >>
  <2>a. l = 0
    BY <1>3, EmptySeq
  <2>1. r = c /\ d = 0
    <3>1. r = c
      BY <1>1, <1>3, AddTimeIs
    <3> HIDE DEF r, d, l, times
    <3> QED
      BY <1>1, <2>a, <3>1
  <2>2. Timed(r, g, z, owed - t)
    BY <1>1, <2>1 DEF Timed
  <2> QED
    BY <2>2
<1>4. CASE times # << >>
  <2>0. d # 0
    BY <1>1, <1>4, AddTimeIs
  <2> DEFINE added == [times EXCEPT ![d] = times[d] + t]
             y == [k \in 1 .. l + 1 |-> IF k <= d THEN z[k] + t ELSE z[k]]
  <2>1. r.loopInTime = added
    BY <1>1, <1>4, <2>0, AddTimeIs
  <2>2. times \in [1 .. l -> Int] /\ z \in [1 .. l + 1 -> Int] /\ z[l + 1] = 0
        /\ \A k \in 1 .. l : z[k] = times[k] + z[k + 1]
    BY <1>1, LenProperties DEF Summed
  <2>a. /\ d \in Nat /\ l \in Nat /\ d <= l /\ owed \in Int /\ t \in Int
    BY <1>1
  <2>b. \A k \in 1 .. d : z[k] + owed = g.clock[Len(c.code)] - g.clock[stack[k]] + LOOP_EXEC_TIME
    BY DEF Timed
  <2> HIDE DEF d, l, times, r
  <2>3. added \in [1 .. l -> Int] /\ \A k \in 1 .. l : added[k] = IF k = d THEN times[d] + t ELSE times[k]
    <3>1. d \in 1 .. l /\ times[d] \in Int
      BY <2>0, <2>2, <2>a
    <3> QED
      BY <2>2, <2>a, <3>1
  <2> HIDE DEF added
  <2>4. added \in Seq(Int) /\ Len(added) = l
    BY <2>3, <2>a
  <2>5. /\ y \in [1 .. l + 1 -> Int] /\ y[l + 1] = 0
        /\ \A k \in 1 .. l + 1 : y[k] = IF k <= d THEN z[k] + t ELSE z[k]
    <3>1. \A k \in 1 .. l + 1 : z[k] \in Int
      BY <2>2
    <3>2. l + 1 \in 1 .. l + 1 /\ ~(l + 1 <= d)
      BY <2>a
    <3> QED
      BY <2>2, <2>a, <3>1, <3>2
  <2> HIDE DEF y
  <2>6. ASSUME NEW k \in 1 .. l PROVE y[k] = added[k] + y[k + 1]
    <3>1. k \in 1 .. l + 1 /\ k + 1 \in 1 .. l + 1 /\ times[k] \in Int /\ z[k + 1] \in Int
          /\ z[k] = times[k] + z[k + 1]
      BY <2>2, <2>a
    <3>2. CASE k < d
      <4>1. y[k] = z[k] + t /\ y[k + 1] = z[k + 1] + t /\ added[k] = times[k]
        BY <2>3, <2>5, <2>a, <3>1, <3>2
      <4> QED
        BY <2>a, <3>1, <4>1
    <3>3. CASE k = d
      <4>1. y[k] = z[k] + t /\ y[k + 1] = z[k + 1] /\ added[k] = times[k] + t
        BY <2>3, <2>5, <2>a, <3>1, <3>3
      <4> QED
        BY <2>a, <3>1, <4>1
    <3>4. CASE k > d
      <4>1. y[k] = z[k] /\ y[k + 1] = z[k + 1] /\ added[k] = times[k]
        BY <2>3, <2>5, <2>a, <3>1, <3>4
      <4> QED
        BY <3>1, <4>1
    <3> QED
      BY <2>a, <3>2, <3>3, <3>4
  <2>7. Summed(r.loopInTime, y) /\ Len(r.loopInTime) = l
    BY <2>1, <2>4, <2>5, <2>6 DEF Summed
  <2>8. ASSUME NEW k \in 1 .. d
        PROVE  y[k] + (owed - t) = g.clock[Len(c.code)] - g.clock[stack[k]] + LOOP_EXEC_TIME
    <3>1. k \in 1 .. l + 1 /\ z[k] \in Int /\ y[k] = z[k] + t
      BY <2>2, <2>5, <2>a
    <3>2. y[k] + (owed - t) = z[k] + owed
      BY <2>a, <3>1
    <3> QED
      BY <2>b, <3>2
  <2>9. /\ \E X : c.code \in Seq(X)
        /\ Profile(c.code, g) /\ LapsWhole(c.code, g)
        /\ Stacked(stack, g.depth[Len(c.code)], g.open[Len(c.code)])
    BY DEF Timed
  <2>10. Timed(r, g, y, owed - t)
    BY <1>2, <2>7, <2>8, <2>9, <2>a DEF Timed, d
  <2> QED
    BY <2>10 DEF r
<1> QED
  BY <1>3, <1>4

(* An instruction which is not one of a loop is added. *)
LEMMA TimedEmits ==
  ASSUME NEW c, NEW g, NEW z, NEW owed \in Int, Timed(c, g, z, owed),
         NEW op \in {"delay", "status"}, NEW n, Time([op |-> op, n |-> n]) \in Int
  PROVE  \E h : /\ Timed(Emit(c, op, n), h, z, owed + Time([op |-> op, n |-> n]))
                /\ Continues(g, h, Len(c.code), [op |-> op, n |-> n])
<1> DEFINE e == [op |-> op, n |-> n]
           r == Emit(c, op, n)
           m == Len(c.code)
           t == Time(e)
<1>1. SameVars(c, r) /\ r.code = Append(c.code, e) /\ r.loopInitAddress = c.loopInitAddress
      /\ r.loopInTime = c.loopInTime
  BY EmitIs DEF Timed
<1>2. PICK X : c.code \in Seq(X)
  BY DEF Timed
<1>3. e.op = op /\ e.op \notin {"loop", "endLoop"} /\ t \in Int
  OBVIOUS
<1> HIDE DEF e, r, t
<1>4. PICK h : Profile(Append(c.code, e), h) /\ Continues(g, h, m, e)
  BY <1>2, <1>3, ProfileGrows DEF Timed, t
<1>5. LapsWhole(Append(c.code, e), h)
  BY <1>2, <1>3, <1>4, LapsGrow DEF Timed
<1>6. Len(r.code) = m + 1 /\ Append(c.code, e) \in Seq(X \cup {e})
  BY <1>1, <1>2, Appended
<1>7. h.depth[m + 1] = g.depth[m] /\ h.open[m + 1] = g.open[m] /\ h.clock[m + 1] = g.clock[m] + t
      /\ \A i \in 0 .. m : h.clock[i] = g.clock[i]
  BY <1>3, <1>4 DEF Continues, Nesting, Taken, t
<1>8. Stacked(r.loopInitAddress, h.depth[m + 1], h.open[m + 1])
  BY <1>1, <1>7 DEF Timed
<1>9. ASSUME NEW k \in 1 .. Len(c.loopInitAddress)
      PROVE  z[k] + (owed + t) = h.clock[m + 1] - h.clock[c.loopInitAddress[k]] + LOOP_EXEC_TIME
  <2>1. /\ c.loopInitAddress[k] \in 1 .. m /\ g.clock[c.loopInitAddress[k]] \in Int
        /\ g.clock[m] \in Int /\ m \in Nat
    BY TimedTypes
  <2>2. h.clock[c.loopInitAddress[k]] = g.clock[c.loopInitAddress[k]]
    BY <1>7, <2>1
  <2>3. z[k] + owed = g.clock[m] - g.clock[c.loopInitAddress[k]] + LOOP_EXEC_TIME
    BY DEF Timed
  <2>4. z[k] \in Int
    <3>1. k \in 1 .. Len(c.loopInTime) + 1
      BY TimedTypes DEF Timed
    <3> QED
      BY <3>1 DEF Timed, Summed
  <2> DEFINE x == g.clock[m]
             y == g.clock[c.loopInitAddress[k]]
             v == z[k]
  <2>5. x \in Int /\ y \in Int /\ v \in Int /\ v + owed = x - y + LOOP_EXEC_TIME
        /\ h.clock[m + 1] = x + t /\ h.clock[c.loopInitAddress[k]] = y
    BY <1>7, <2>1, <2>2, <2>3, <2>4
  <2>6. v = z[k]
    OBVIOUS
  <2> HIDE DEF m, x, y, v
  <2>7. v + (owed + t) = (x + t) - y + LOOP_EXEC_TIME
    BY <1>3, <2>5 DEF LOOP_EXEC_TIME
  <2> QED
    BY <2>5, <2>6, <2>7
<1>10. Summed(c.loopInTime, z) /\ Len(c.loopInitAddress) <= Len(c.loopInTime)
  BY DEF Timed
<1>11. Timed(r, h, z, owed + t)
  <2>1. Compilation(r) /\ \E Y : r.code \in Seq(Y)
    BY <1>1, <1>6 DEF SameVars
  <2> HIDE DEF m
  <2> QED
    BY <1>1, <1>4, <1>5, <1>6, <1>8, <1>9, <1>10, <2>1 DEF Timed
<1> QED
  BY <1>4, <1>11 DEF r, t, e

(* A loop is opened, where none has been ended. *)
LEMMA TimedOpens ==
  ASSUME NEW c, NEW g, NEW z, Timed(c, g, z, 0),
         Len(c.loopInitAddress) = Len(c.loopInTime), NEW n
  PROVE  \E h, y : Timed(Emit(Pushed(c), "loop", n), h, y, LOOP_EXEC_TIME)
<1> DEFINE e == [op |-> "loop", n |-> n]
           r == Emit(Pushed(c), "loop", n)
           m == Len(c.code)
           d == Len(c.loopInitAddress)
           stack == Append(c.loopInitAddress, m + 1)
           times == Append(c.loopInTime, 0)
           y == [k \in 1 .. d + 2 |-> IF k <= d + 1 THEN z[k] ELSE 0]
<1>1. /\ Compilation(r) /\ r.code = Append(c.code, e) /\ r.loopInitAddress = stack
      /\ r.loopInTime = times
  <2>1. /\ Compilation(Pushed(c)) /\ Pushed(c).code = c.code
        /\ Pushed(c).loopInitAddress = stack /\ Pushed(c).loopInTime = times
    BY PushedIs DEF Timed, SameVars
  <2> HIDE DEF stack, times
  <2> QED
    BY <2>1, EmitIs DEF SameVars
<1>2. PICK X : c.code \in Seq(X)
  BY DEF Timed
<1>3. e.op = "loop" /\ Time(e) = LOOP_EXEC_TIME /\ Time(e) \in Int
  BY DEF Time, LOOP_EXEC_TIME
<1>f. m \in Nat /\ d \in Nat
  BY TimedTypes
<1>g. d = Len(c.loopInTime) /\ d = g.depth[m]
  BY TimedTypes
<1>h. g.clock[m] \in Int
  BY TimedTypes
<1>a. /\ m \in Nat /\ d \in Nat
      /\ g.clock[m] \in Int /\ g.open[m] \in [Nat -> Nat]
      /\ \A k \in 1 .. d : /\ c.loopInitAddress[k] \in 1 .. m /\ c.loopInitAddress[k] = g.open[m][k]
                           /\ g.clock[c.loopInitAddress[k]] \in Int
  BY TimedTypes
<1>b. /\ c.loopInTime \in Seq(Int) /\ z \in [1 .. d + 1 -> Int] /\ z[d + 1] = 0
      /\ \A k \in 1 .. d : z[k] = c.loopInTime[k] + z[k + 1]
  BY <1>g DEF Timed, Summed
<1>c. \A k \in 1 .. d : z[k] + 0 = g.clock[m] - g.clock[c.loopInitAddress[k]] + LOOP_EXEC_TIME
  BY DEF Timed
<1>d. /\ stack \in Seq(Nat) /\ Len(stack) = d + 1 /\ stack[d + 1] = m + 1
      /\ \A k \in 1 .. d : stack[k] = c.loopInitAddress[k]
  <2>1. c.loopInitAddress \in Seq(Nat)
    BY DEF Timed, Stacked
  <2>2. m + 1 \in Nat
    BY <1>f
  <2> HIDE DEF m
  <2> QED
    BY <2>1, <2>2, Appended
<1>e. /\ times \in Seq(Int) /\ Len(times) = d + 1 /\ times[d + 1] = 0
      /\ \A k \in 1 .. d : times[k] = c.loopInTime[k]
  <2>1. 0 \in Int /\ c.loopInTime \in Seq(Int)
    BY <1>b
  <2>2. times \in Seq(Int \cup {0})
    BY <2>1, Appended
  <2>3. Int \cup {0} = Int
    OBVIOUS
  <2>4. /\ Len(times) = Len(c.loopInTime) + 1 /\ times[Len(c.loopInTime) + 1] = 0
        /\ \A k \in 1 .. Len(c.loopInTime) : times[k] = c.loopInTime[k]
    BY <2>1, Appended
  <2> HIDE DEF times, d
  <2> QED
    BY <1>g, <2>2, <2>3, <2>4
<1> HIDE DEF e, r, m, d, stack, times
<1>4. PICK h : Profile(Append(c.code, e), h) /\ Continues(g, h, m, e)
  BY <1>2, <1>3, ProfileGrows DEF Timed, m
<1>5. LapsWhole(Append(c.code, e), h)
  BY <1>2, <1>3, <1>4, LapsGrow DEF Timed, m
<1>6. Len(r.code) = m + 1 /\ Append(c.code, e) \in Seq(X \cup {e})
  BY <1>1, <1>2, Appended DEF m
<1>7. /\ h.depth[m + 1] = d + 1 /\ h.open[m + 1] = [g.open[m] EXCEPT ![d + 1] = m + 1]
      /\ h.clock[m + 1] = g.clock[m] + LOOP_EXEC_TIME
      /\ \A i \in 0 .. m : h.clock[i] = g.clock[i]
  <2>1. d = g.depth[m]
    BY <1>g
  <2> QED
    BY <1>3, <1>4, <2>1 DEF Continues, Nesting, Taken
<1>8. Stacked(stack, h.depth[m + 1], h.open[m + 1])
  <2>1. ASSUME NEW k \in 1 .. d + 1 PROVE stack[k] = h.open[m + 1][k]
    <3>1. CASE k = d + 1
      <4>1. d + 1 \in Nat
        BY <1>f
      <4> QED
        BY <1>7, <1>a, <1>d, <3>1, <4>1
    <3>2. CASE k \in 1 .. d
      <4>1. k # d + 1 /\ k \in Nat /\ d + 1 \in Nat
        BY <1>f, <3>2
      <4> QED
        BY <1>7, <1>a, <1>d, <3>2, <4>1
    <3> QED
      BY <1>f, <3>1, <3>2
  <2> QED
    BY <1>7, <1>d, <2>1 DEF Stacked
<1>9. /\ y \in [1 .. d + 2 -> Int] /\ y[d + 2] = 0
      /\ \A k \in 1 .. d + 1 : y[k] = z[k] /\ z[k] \in Int
  <2>1. \A k \in 1 .. d + 1 : z[k] \in Int
    BY <1>b
  <2>2. d + 2 \in 1 .. d + 2 /\ ~(d + 2 <= d + 1) /\ \A k \in 1 .. d + 2 : k <= d + 1 => k \in 1 .. d + 1
    BY <1>f
  <2>3. \A k \in 1 .. d + 1 : k \in 1 .. d + 2 /\ k <= d + 1
    BY <1>f
  <2> QED
    BY <2>1, <2>2, <2>3
<1> HIDE DEF y
<1>10. ASSUME NEW k \in 1 .. d + 1 PROVE y[k] = times[k] + y[k + 1]
  <2>1. CASE k = d + 1
    <3>1. k + 1 = d + 2
      BY <1>f, <2>1
    <3> QED
      BY <1>9, <1>b, <1>e, <2>1, <3>1
  <2>2. CASE k \in 1 .. d
    <3>1. k + 1 \in 1 .. d + 1
      BY <1>f, <2>2
    <3> QED
      BY <1>9, <1>b, <1>e, <2>2, <3>1
  <2> QED
    BY <1>f, <2>1, <2>2
<1>11. Summed(times, y)
  <2>1. (d + 1) + 1 = d + 2
    BY <1>f
  <2> QED
    BY <1>9, <1>10, <1>e, <2>1 DEF Summed
<1>12. ASSUME NEW k \in 1 .. d + 1
       PROVE  y[k] + LOOP_EXEC_TIME = h.clock[m + 1] - h.clock[stack[k]] + LOOP_EXEC_TIME
  <2>1. CASE k = d + 1
    <3>1. y[k] = 0 /\ stack[k] = m + 1 /\ h.clock[m + 1] \in Int
      <4>1. d + 1 \in 1 .. d + 1
        BY <1>f
      <4>2. h.clock[m + 1] \in Int
        BY <1>7, <1>h DEF LOOP_EXEC_TIME
      <4> QED
        BY <1>9, <1>b, <1>d, <2>1, <4>1, <4>2
    <3> QED
      BY <3>1 DEF LOOP_EXEC_TIME
  <2>2. CASE k \in 1 .. d
    <3> DEFINE x == g.clock[m]
               w == g.clock[c.loopInitAddress[k]]
               v == z[k]
    <3>1. c.loopInitAddress[k] \in 0 .. m /\ stack[k] = c.loopInitAddress[k]
      <4>1. c.loopInitAddress[k] \in 1 .. m
        BY <1>a, <2>2
      <4> QED
        BY <1>d, <1>f, <2>2, <4>1
    <3>2. x \in Int /\ w \in Int /\ v \in Int /\ v + 0 = x - w + LOOP_EXEC_TIME
          /\ h.clock[m + 1] = x + LOOP_EXEC_TIME /\ h.clock[stack[k]] = w /\ y[k] = v
      <4>1. w \in Int
        BY <1>a, <2>2
      <4>2. v \in Int /\ y[k] = v
        BY <1>9
      <4>3. v + 0 = x - w + LOOP_EXEC_TIME
        BY <1>c, <2>2
      <4> QED
        BY <1>7, <1>h, <3>1, <4>1, <4>2, <4>3
    <3> HIDE DEF x, w, v
    <3>3. v + LOOP_EXEC_TIME = (x + LOOP_EXEC_TIME) - w + LOOP_EXEC_TIME
      BY <3>2 DEF LOOP_EXEC_TIME
    <3> QED
      BY <3>2, <3>3
  <2> QED
    BY <1>f, <2>1, <2>2
<1>13. Timed(r, h, y, LOOP_EXEC_TIME)
  <2>1. Len(r.loopInitAddress) <= Len(r.loopInTime)
    BY <1>1, <1>d, <1>e, <1>f
  <2> QED
    BY <1>1, <1>4, <1>5, <1>6, <1>8, <1>11, <1>12, <1>d, <2>1 DEF Timed
<1> QED
  BY <1>13 DEF r

(* The innermost loop is ended after a multiple of 20 clocks. *)
LEMMA FrontIs ==
  ASSUME NEW X, NEW s \in Seq(X), Len(s) # 0
  PROVE  /\ Len(s) \in Nat /\ Last(s) = s[Len(s)]
         /\ Front(s) \in Seq(X) /\ Len(Front(s)) = Len(s) - 1
         /\ \A k \in 1 .. Len(s) - 1 : Front(s)[k] = s[k]
<1> DEFINE d == Len(s)
           f == Front(s)
<1>1. d \in Nat /\ d # 0 /\ \A k \in 1 .. d : s[k] \in X
  BY LenProperties, ElementOfSeq
<1>2. f = SubSeq(s, 1, d - 1) /\ Last(s) = s[d]
  BY DEF Front, Last
<1>3. s \in Seq(X)
  OBVIOUS
<1> HIDE DEF d, f
<1>4. \A k \in 1 .. d - 1 : s[k] \in X
  BY <1>1
<1>5. d - 1 \in Int /\ (d - 1) - 1 + 1 = d - 1
  BY <1>1
<1>6. /\ SubSeq(s, 1, d - 1) \in Seq(X)
      /\ Len(SubSeq(s, 1, d - 1)) = IF 1 <= d - 1 THEN (d - 1) - 1 + 1 ELSE 0
      /\ \A k \in 1 .. (d - 1) - 1 + 1 : SubSeq(s, 1, d - 1)[k] = s[1 + k - 1]
  BY <1>4, <1>5, SubSeqProperties
<1>7. Len(f) = d - 1
  BY <1>1, <1>2, <1>5, <1>6
<1>8. ASSUME NEW k \in 1 .. d - 1 PROVE f[k] = s[k]
  <2>1. 1 + k - 1 = k
    BY <1>1
  <2> QED
    BY <1>2, <1>5, <1>6, <2>1
<1> QED
  BY <1>1, <1>2, <1>6, <1>7, <1>8 DEF d, f

LEMMA TimedEnds ==
  ASSUME NEW c, NEW g, NEW z, Timed(c, g, z, -END_EXEC_TIME), Len(c.loopInitAddress) # 0,
         Whole(g.clock[Len(c.code)] + END_EXEC_TIME - g.clock[Last(c.loopInitAddress)])
  PROVE  \E h : Timed(EndLoop(c), h, z, 0)
<1> DEFINE stack == c.loopInitAddress
           top == Last(stack)
           e == [op |-> "endLoop", n |-> top]
           r == EndLoop(c)
           m == Len(c.code)
           d == Len(stack)
<1>1. /\ Compilation(r) /\ r.code = Append(c.code, e) /\ r.loopInitAddress = Front(stack)
      /\ r.loopInTime = c.loopInTime
  BY EndLoopIs DEF Timed, SameVars
<1>2. PICK X : c.code \in Seq(X)
  BY DEF Timed
<1>3. e.op = "endLoop" /\ e.n = top /\ Time(e) = END_EXEC_TIME /\ Time(e) \in Int
  BY DEF Time, END_EXEC_TIME
<1>f. m \in Nat /\ d \in Nat /\ d # 0 /\ Len(c.loopInTime) \in Nat
  BY TimedTypes
<1>g. d = g.depth[m]
  BY TimedTypes
<1>a. /\ m \in Nat /\ d \in Nat /\ d # 0 /\ d = g.depth[m]
      /\ g.clock[m] \in Int /\ g.open[m] \in [Nat -> Nat]
      /\ \A k \in 1 .. d : /\ stack[k] \in 1 .. m /\ stack[k] = g.open[m][k]
                           /\ g.clock[stack[k]] \in Int
  BY TimedTypes
<1>b. d <= Len(c.loopInTime) /\ Summed(c.loopInTime, z)
  BY DEF Timed
<1>c. \A k \in 1 .. d : z[k] + (-END_EXEC_TIME) = g.clock[m] - g.clock[stack[k]] + LOOP_EXEC_TIME
  BY DEF Timed
<1>d. /\ top = stack[d] /\ Front(stack) \in Seq(Nat) /\ Len(Front(stack)) = d - 1
      /\ \A k \in 1 .. d - 1 : Front(stack)[k] = stack[k]
  BY FrontIs DEF Timed, Stacked
<1>e. Whole(g.clock[m] + END_EXEC_TIME - g.clock[top])
  OBVIOUS
<1> HIDE DEF e, r, m, d, top
<1>4. PICK h : Profile(Append(c.code, e), h) /\ Continues(g, h, m, e)
  <2>1. g.depth[m] # 0 /\ e.n = g.open[m][g.depth[m]]
    <3>1. d \in 1 .. d
      BY <1>f
    <3> QED
      BY <1>3, <1>a, <1>d, <3>1
  <2> QED
    BY <1>2, <1>3, <2>1, ProfileGrows DEF Timed, m
<1>5. /\ h.depth[m + 1] = d - 1 /\ h.open[m + 1] = g.open[m]
      /\ h.clock[m + 1] = g.clock[m] + END_EXEC_TIME
      /\ \A i \in 0 .. m : h.clock[i] = g.clock[i]
  BY <1>3, <1>4, <1>a DEF Continues, Nesting, Taken
<1>6. LapsWhole(Append(c.code, e), h)
  <2>1. Whole(h.clock[m + 1] - g.clock[e.n])
    <3> DEFINE x == g.clock[m]
               w == g.clock[top]
    <3>1. Whole(x + END_EXEC_TIME - w) /\ h.clock[m + 1] = x + END_EXEC_TIME /\ e.n = top
      BY <1>3, <1>5, <1>e
    <3>2. w = g.clock[e.n] /\ x \in Int /\ w \in Int
      <4>1. d \in 1 .. d
        BY <1>f
      <4> QED
        BY <1>a, <1>d, <3>1, <4>1
    <3> HIDE DEF x, w
    <3>3. x + END_EXEC_TIME - w = (x + END_EXEC_TIME) - w
      BY <3>2 DEF END_EXEC_TIME
    <3> QED
      BY <3>1, <3>2, <3>3
  <2> QED
    BY <1>2, <1>4, <2>1, LapsGrow DEF Timed, m
<1>7. Len(r.code) = m + 1 /\ Append(c.code, e) \in Seq(X \cup {e})
  BY <1>1, <1>2, Appended DEF m
<1>8. Stacked(Front(stack), h.depth[m + 1], h.open[m + 1])
  <2>1. \A k \in 1 .. d - 1 : k \in 1 .. d
    BY <1>f
  <2> QED
    BY <1>5, <1>a, <1>d, <2>1 DEF Stacked
<1>9. ASSUME NEW k \in 1 .. d - 1
      PROVE  z[k] + 0 = h.clock[m + 1] - h.clock[stack[k]] + LOOP_EXEC_TIME
  <2> DEFINE x == g.clock[m]
             w == g.clock[stack[k]]
             v == z[k]
  <2>1. k \in 1 .. d /\ k \in 1 .. Len(c.loopInTime) + 1
    <3>1. d <= Len(c.loopInTime)
      BY <1>b
    <3> QED
      BY <1>f, <3>1
  <2>2. stack[k] \in 0 .. m
    <3>1. stack[k] \in 1 .. m
      BY <1>a, <2>1
    <3> QED
      BY <1>f, <3>1
  <2>3. x \in Int /\ w \in Int /\ v \in Int /\ v + (-END_EXEC_TIME) = x - w + LOOP_EXEC_TIME
        /\ h.clock[m + 1] = x + END_EXEC_TIME /\ h.clock[stack[k]] = w
    BY <1>5, <1>a, <1>b, <1>c, <2>1, <2>2 DEF Summed
  <2>4. v = z[k]
    OBVIOUS
  <2> HIDE DEF x, w, v
  <2>5. v + 0 = (x + END_EXEC_TIME) - w + LOOP_EXEC_TIME
    BY <2>3 DEF LOOP_EXEC_TIME, END_EXEC_TIME
  <2> QED
    BY <2>3, <2>4, <2>5
<1>10. Timed(r, h, z, 0)
  <2>1. Len(r.loopInitAddress) <= Len(r.loopInTime)
    <3>1. d <= Len(c.loopInTime) /\ Len(r.loopInitAddress) = d - 1 /\ r.loopInTime = c.loopInTime
      BY <1>1, <1>b, <1>d
    <3> QED
      BY <1>f, <3>1
  <2>2. \A k \in 1 .. d - 1 : z[k] + 0 = h.clock[m + 1] - h.clock[Front(stack)[k]] + LOOP_EXEC_TIME
    BY <1>9, <1>d
  <2> QED
    BY <1>1, <1>4, <1>6, <1>7, <1>8, <1>b, <1>d, <2>1, <2>2 DEF Timed
<1> QED
  BY <1>10 DEF r

(* The sum over the loops inside is that of the clocks since the loop's    *)
(* instruction.                                                            *)
LEMMA ClocksAre ==
  ASSUME NEW c, NEW g, NEW z, NEW owed \in Int, Timed(c, g, z, owed), Len(c.loopInitAddress) # 0
  PROVE  Clocks(c) = g.clock[Len(c.code)] - g.clock[Last(c.loopInitAddress)] - owed
<1> DEFINE times == c.loopInTime
           d == Len(c.loopInitAddress)
           l == Len(times)
           n == l - d + 1
           s == SubSeq(times, d, l)
           b == -LOOP_EXEC_TIME
           p == [k \in 0 .. n |-> b + z[d] - z[d + k]]
<1>1. /\ d \in Nat \ {0} /\ l \in Nat /\ d <= l
      /\ g.clock[Len(c.code)] \in Int /\ g.clock[c.loopInitAddress[d]] \in Int
  <2>1. d \in Nat \ {0} /\ l \in Nat /\ d <= l /\ g.clock[Len(c.code)] \in Int
    BY TimedTypes DEF Timed
  <2>2. d \in 1 .. d
    BY <2>1
  <2> QED
    BY <2>1, <2>2, TimedTypes
<1>2. times \in Seq(Int) /\ z \in [1 .. l + 1 -> Int] /\ z[l + 1] = 0
      /\ \A k \in 1 .. l : z[k] = times[k] + z[k + 1]
  BY DEF Timed, Summed
<1>3. z[d] + owed = g.clock[Len(c.code)] - g.clock[c.loopInitAddress[d]] + LOOP_EXEC_TIME
  <2>1. d \in 1 .. d
    BY <1>1
  <2> QED
    BY <2>1 DEF Timed
<1>4. Last(c.loopInitAddress) = c.loopInitAddress[d]
  BY DEF Last
<1>5. Clocks(c) = FoldLeft(+, b, s)
  BY DEF Clocks, loopIndex
<1>6. \A k \in 1 .. l : times[k] \in Int
  BY <1>2, ElementOfSeq
<1>a. b \in Int
  BY DEF LOOP_EXEC_TIME
<1> HIDE DEF d, l, times, b
<1>7. n \in Nat /\ n = l - d + 1
  BY <1>1
<1>8. s \in [1 .. n -> Int] /\ \A k \in 1 .. n : s[k] = times[d + k - 1]
  <2>1. \A k \in d .. l : times[k] \in Int
    BY <1>1, <1>6
  <2>2. /\ s \in Seq(Int) /\ Len(s) = IF d <= l THEN l - d + 1 ELSE 0
        /\ \A k \in 1 .. l - d + 1 : s[k] = times[d + k - 1]
    <3>1. d \in Int /\ l \in Int
      BY <1>1
    <3> QED
      BY <2>1, <3>1, SubSeqProperties
  <2> HIDE DEF s
  <2>3. Len(s) = n
    BY <1>1, <2>2
  <2> QED
    BY <2>2, <2>3, LenProperties
<1> HIDE DEF n, s
<1>9. \A k \in 0 .. n : d + k \in 1 .. l + 1
  BY <1>1, <1>7
<1>10. z[d] \in Int
  BY <1>1, <1>2
<1>11. p \in [0 .. n -> Int] /\ \A k \in 0 .. n : p[k] = b + z[d] - z[d + k] /\ z[d + k] \in Int
  <2>1. \A k \in 0 .. n : z[d + k] \in Int
    BY <1>2, <1>9
  <2> QED
    BY <1>10, <1>a, <2>1
<1> HIDE DEF p
<1>12. p[0] = b
  <2>1. 0 \in 0 .. n /\ d + 0 = d
    BY <1>1, <1>7
  <2> QED
    BY <1>10, <1>11, <1>a, <2>1
<1>13. ASSUME NEW k \in 1 .. n PROVE p[k] = p[k - 1] + s[k]
  <2>1. k \in 0 .. n /\ k - 1 \in 0 .. n /\ d + (k - 1) = d + k - 1 /\ d + k - 1 \in 1 .. l
        /\ (d + k - 1) + 1 = d + k
    BY <1>1, <1>7
  <2> DEFINE v == z[d + k - 1]
             w == z[d + k]
             x == z[d]
  <2>2. v = s[k] + w
    BY <1>2, <1>8, <2>1
  <2>3. p[k] = b + x - w /\ p[k - 1] = b + x - v /\ v \in Int /\ w \in Int /\ x \in Int /\ s[k] \in Int
    BY <1>8, <1>10, <1>11, <2>1
  <2> DEFINE a == s[k]
  <2>4. v = a + w /\ p[k] = b + x - w /\ p[k - 1] = b + x - v
        /\ v \in Int /\ w \in Int /\ x \in Int /\ a \in Int /\ b \in Int
    BY <1>a, <2>2, <2>3
  <2>5. a = s[k]
    OBVIOUS
  <2> HIDE DEF v, w, x, a, b
  <2>6. b + x - w = (b + x - v) + a
    BY <2>4
  <2> QED
    BY <2>4, <2>5, <2>6
<1>14. FoldLeft(+, b, s) = p[n]
  BY <1>7, <1>8, <1>11, <1>12, <1>13, <1>a, SequenceSum
<1>15. p[n] = b + z[d]
  <2>1. n \in 0 .. n /\ d + n = l + 1
    BY <1>1, <1>7
  <2> QED
    BY <1>2, <1>10, <1>11, <1>a, <2>1
<1> DEFINE x == g.clock[Len(c.code)]
           w == g.clock[c.loopInitAddress[d]]
           v == z[d]
<1>16. x \in Int /\ w \in Int /\ v \in Int /\ v + owed = x - w + LOOP_EXEC_TIME /\ Clocks(c) = b + v
  BY <1>1, <1>3, <1>5, <1>10, <1>14, <1>15
<1>17. Last(c.loopInitAddress) = c.loopInitAddress[d] /\ w = g.clock[Last(c.loopInitAddress)]
       /\ x = g.clock[Len(c.code)]
  BY <1>4
<1> HIDE DEF x, w, v
<1>18. b + v = x - w - owed
  BY <1>16, <1>a DEF b, LOOP_EXEC_TIME
<1> QED
  BY <1>16, <1>17, <1>18

(* A definition leaves the code and the loops alone. *)
SameCode(c, r) ==
  r.code = c.code /\ r.loopInitAddress = c.loopInitAddress /\ r.loopInTime = c.loopInTime

LEMMA AddVarKeepsCode ==
  ASSUME NEW c, Compilation(c), NEW name, NEW words
  PROVE  SameCode(c, addVar(c, name, words)) /\ Compilation(addVar(c, name, words))
<1> DEFINE acc == AccOf(c, words)
           names == Append(c.varsName, name)
           values == Append(c.varsValue, acc.value)
           renamed == [c.varsName EXCEPT ![Max(Places(c, name.text))] = acc.value]
           r == addVar(c, name, words)
<1>1. \/ r = Fail(c, "thrown")
      \/ r = [c EXCEPT !.varsName = names, !.varsValue = values]
      \/ r = [c EXCEPT !.varsName = renamed]
  <2>1. addVar(c, name, words) =
        IF acc.thrown THEN Fail(c, "thrown")
        ELSE IF Places(c, name.text) = {}
        THEN [c EXCEPT !.varsName = Append(@, name), !.varsValue = Append(@, acc.value)]
        ELSE [c EXCEPT !.varsName[Max(Places(c, name.text))] = acc.value]
    BY Zenon DEF addVar, AccOf, FirstOf, Joined
  <2> HIDE DEF acc
  <2>2. /\ [c EXCEPT !.varsName = Append(@, name), !.varsValue = Append(@, acc.value)] =
             [c EXCEPT !.varsName = names, !.varsValue = values]
        /\ [c EXCEPT !.varsName[Max(Places(c, name.text))] = acc.value] = [c EXCEPT !.varsName = renamed]
    BY DEF Compilation
  <2> QED
    BY <2>1, <2>2
<1> HIDE DEF names, values, renamed, r, acc
<1>2. SameCode(c, r) /\ Compilation(r)
  <2>1. CASE r = Fail(c, "thrown")
    BY <2>1 DEF Fail, Compilation, SameCode
  <2>2. CASE r = [c EXCEPT !.varsName = names, !.varsValue = values]
    BY <2>2 DEF Compilation, SameCode
  <2>3. CASE r = [c EXCEPT !.varsName = renamed]
    BY <2>3 DEF Compilation, SameCode
  <2> QED
    BY <1>1, <2>1, <2>2, <2>3
<1> QED
  BY <1>2 DEF r

(* The values with which a compilation goes on: those of the file, or one   *)
(* of each variable.                                                       *)
Fitting(c, values) == values = << >> \/ (values \in Seq(Word) /\ Len(c.varsName) <= Len(values))

LEMMA NumberTyped ==
  ASSUME NEW c, Vars(c), NEW values, Fitting(c, values), NEW word \in Word
  PROVE  Number(c, values, word) \in Int
<1> DEFINE p == Places(c, word.text)
           v == Lookup(c, values, word)
<1>1. v \in Word
  <2>1. CASE p = {}
    BY <2>1 DEF Lookup
  <2>2. CASE p # {}
    <3>1. Min(p) \in 1 .. Len(c.varsName) /\ c.varsValue[Min(p)] \in Word /\ v = Value(c, values, Min(p))
      BY <2>2, PlacesIn DEF Lookup
    <3>2. values # << >> => values[Min(p)] \in Word
      <4>1. SUFFICES ASSUME values # << >> PROVE values[Min(p)] \in Word
        OBVIOUS
      <4>2. values \in Seq(Word) /\ Len(c.varsName) <= Len(values)
        BY <4>1 DEF Fitting
      <4>3. Len(c.varsName) \in Nat /\ Len(values) \in Nat
        BY <4>2, LenProperties DEF Vars
      <4> HIDE DEF p
      <4>4. Min(p) \in 1 .. Len(values)
        BY <3>1, <4>2, <4>3
      <4> QED
        BY <4>2, <4>4, ElementOfSeq
    <3> HIDE DEF p, v
    <3> QED
      BY <3>1, <3>2 DEF Value
  <2> QED
    BY <2>1, <2>2
<1> HIDE DEF v
<1>2. v.dec \in Int /\ word.dec \in Int
  BY <1>1 DEF Word
<1> QED
  BY <1>2 DEF Number, v

-----------------------------------------------------------------------------
(* Each line keeps the clocks, if every loop is ended by endsync.          *)

TimedCode(c) == \E g, z : Timed(c, g, z, 0)

LEMMA AddTimeSizes ==
  ASSUME NEW c, Compilation(c), c.loopInTime \in Seq(Int), NEW t, AddTime(c, t).err = "none"
  PROVE  /\ Len(AddTime(c, t).loopInTime) = Len(c.loopInTime)
         /\ AddTime(c, t).loopInitAddress = c.loopInitAddress /\ c.err = "none"
<1> DEFINE r == AddTime(c, t)
<1>1. r.loopInitAddress = c.loopInitAddress
  BY AddTimeIs
<1>2. CASE c.loopInTime = << >>
  <2>1. r = c
    BY <1>2, AddTimeIs
  <2> HIDE DEF r
  <2> QED
    BY <2>1 DEF r
<1>3. CASE c.loopInTime # << >>
  <2>1. loopIndex(c) # 0
    BY <1>3, AddTimeIs
  <2>2. /\ r.loopInTime = [c.loopInTime EXCEPT ![loopIndex(c)] = c.loopInTime[loopIndex(c)] + t]
        /\ r.err = c.err
    BY <1>3, <2>1, AddTimeIs
  <2> HIDE DEF r
  <2>3. Len(r.loopInTime) = Len(c.loopInTime)
    BY <2>2
  <2> QED
    BY <1>1, <2>2, <2>3 DEF r
<1> QED
  BY <1>2, <1>3

LEMMA OpenedIs ==
  ASSUME NEW c, Compilation(c), NEW n
  PROVE  LET b == Emit(Pushed(c), "loop", n)
         IN /\ Compilation(b) /\ b.loopInitAddress = Append(c.loopInitAddress, Len(c.code) + 1)
            /\ b.loopInTime = Append(c.loopInTime, 0)
<1> DEFINE b == Emit(Pushed(c), "loop", n)
           stack == Append(c.loopInitAddress, Len(c.code) + 1)
           times == Append(c.loopInTime, 0)
<1>1. Compilation(Pushed(c)) /\ Pushed(c).loopInitAddress = stack /\ Pushed(c).loopInTime = times
  BY PushedIs DEF SameVars
<1> HIDE DEF stack, times
<1>2. /\ Compilation(b) /\ b.code = Append(Pushed(c).code, [op |-> "loop", n |-> n])
      /\ b.loopInitAddress = stack /\ b.loopInTime = times
  BY <1>1, EmitIs DEF SameVars
<1> QED
  BY <1>2 DEF stack, times

LEMMA TimedLoop ==
  ASSUME NEW c, TimedCode(c), c.err = "none", Len(c.loopInitAddress) = Len(c.loopInTime), NEW n,
         NEW r, r = AddTime(Emit(Pushed(c), "loop", n), LOOP_EXEC_TIME), r.err = "none"
  PROVE  TimedCode(r) /\ Len(r.loopInitAddress) = Len(r.loopInTime)
<1> DEFINE b == Emit(Pushed(c), "loop", n)
<1>1. PICK g, z : Timed(c, g, z, 0)
  BY DEF TimedCode
<1>2. PICK h, y : Timed(b, h, y, LOOP_EXEC_TIME)
  BY <1>1, TimedOpens
<1>3. /\ Compilation(b) /\ b.loopInitAddress = Append(c.loopInitAddress, Len(c.code) + 1)
      /\ b.loopInTime = Append(c.loopInTime, 0)
  <2>1. Compilation(c)
    BY <1>1 DEF Timed
  <2> QED
    BY <2>1, OpenedIs
<1> HIDE DEF b
<1>4. r = AddTime(b, LOOP_EXEC_TIME)
  BY DEF b
<1>5. LOOP_EXEC_TIME \in Int /\ LOOP_EXEC_TIME - LOOP_EXEC_TIME = 0
  BY DEF LOOP_EXEC_TIME
<1>6. /\ Len(r.loopInTime) = Len(b.loopInTime) /\ r.loopInitAddress = b.loopInitAddress /\ b.err = "none"
  <2>1. b.loopInTime \in Seq(Int)
    BY <1>2 DEF Timed, Summed
  <2> QED
    BY <1>3, <1>4, <2>1, AddTimeSizes
<1>7. TimedCode(r)
  <2>1. \E x : Timed(AddTime(b, LOOP_EXEC_TIME), h, x, LOOP_EXEC_TIME - LOOP_EXEC_TIME)
    BY <1>2, <1>4, <1>5, <1>6, TimedAdds
  <2> QED
    BY <1>4, <1>5, <2>1 DEF TimedCode
<1>8. Len(b.loopInitAddress) = Len(c.loopInitAddress) + 1 /\ Len(b.loopInTime) = Len(c.loopInTime) + 1
  <2>1. c.loopInitAddress \in Seq(Nat) /\ c.loopInTime \in Seq(Int)
    BY <1>1 DEF Timed, Stacked, Summed
  <2> QED
    BY <1>3, <2>1, Appended
<1> QED
  BY <1>6, <1>7, <1>8

(* Delays and the status of the outputs. *)
LEMMA TimedEmitted ==
  ASSUME NEW c, TimedCode(c), NEW op \in {"delay", "status"}, NEW n,
         NEW t \in Int, Time([op |-> op, n |-> n]) = t,
         NEW r, r = AddTime(Emit(c, op, n), t), r.err = "none"
  PROVE  TimedCode(r) /\ Len(r.loopInitAddress) = Len(c.loopInitAddress)
         /\ Len(r.loopInTime) = Len(c.loopInTime)
<1> DEFINE b == Emit(c, op, n)
<1>1. PICK g, z : Timed(c, g, z, 0)
  BY DEF TimedCode
<1>2. PICK h : Timed(b, h, z, t)
  <2>1. 0 \in Int /\ 0 + t = t
    OBVIOUS
  <2> QED
    BY <1>1, <2>1, TimedEmits
<1>3. /\ Compilation(b) /\ b.loopInitAddress = c.loopInitAddress /\ b.loopInTime = c.loopInTime
  BY <1>1, EmitIs DEF Timed, SameVars
<1> HIDE DEF b
<1>4. r = AddTime(b, t)
  BY DEF b
<1>5. t - t = 0
  OBVIOUS
<1>6. /\ Len(r.loopInTime) = Len(b.loopInTime) /\ r.loopInitAddress = b.loopInitAddress /\ b.err = "none"
  <2>1. b.loopInTime \in Seq(Int)
    BY <1>2 DEF Timed, Summed
  <2> QED
    BY <1>3, <1>4, <2>1, AddTimeSizes
<1>7. TimedCode(r)
  <2>1. \E x : Timed(AddTime(b, t), h, x, t - t)
    BY <1>2, <1>4, <1>6, TimedAdds
  <2> QED
    BY <1>4, <1>5, <2>1 DEF TimedCode
<1> QED
  BY <1>3, <1>6, <1>7

LEMMA TimedSync ==
  ASSUME NEW c, TimedCode(c), loopIndex(c) # 0, NEW r, r = endSyncFunc(c), r.err = "none"
  PROVE  TimedCode(r)
<1> DEFINE ended == AddTime(c, END_EXEC_TIME)
           magic == SyncDelay(Clocks(ended))
           delayed == Emit(ended, "delay", magic)
           t == magic + DELAY_EXEC_TIME
           full == AddTime(delayed, t)
<1>1. PICK g, z : Timed(c, g, z, 0)
  BY DEF TimedCode
<1>a. Compilation(c) /\ c.loopInTime \in Seq(Int)
  BY <1>1 DEF Timed, Summed
<1>2. r = EndLoop(full)
  <2>1. Fail(c, "failed").err # "none"
    BY <1>a, FailIs
  <2> QED
    BY <2>1, EndSyncFuncIs
<1>b. full = AddTime(delayed, t)
  OBVIOUS
<1> HIDE DEF full
<1>3. Compilation(full) => full.err = "none"
  BY <1>2, EndLoopIs
<1>c. /\ SameVars(c, ended) /\ ended.code = c.code /\ ended.loopInitAddress = c.loopInitAddress
  BY <1>a, AddTimeIs
<1>d. /\ delayed = Emit(ended, "delay", magic) /\ t = magic + DELAY_EXEC_TIME
      /\ magic = SyncDelay(Clocks(ended))
      /\ ended = AddTime(c, END_EXEC_TIME)
  OBVIOUS
<1> HIDE DEF delayed, magic, t, ended
<1>4. /\ Compilation(delayed) /\ delayed.loopInitAddress = c.loopInitAddress
      /\ delayed.loopInTime = ended.loopInTime /\ delayed.err = ended.err
  <2>1. Compilation(ended)
    BY <1>c DEF SameVars
  <2>2. SameVars(ended, delayed) /\ delayed.loopInitAddress = ended.loopInitAddress
        /\ delayed.loopInTime = ended.loopInTime /\ delayed.err = ended.err
        /\ delayed.code = Append(ended.code, [op |-> "delay", n |-> magic])
    BY <1>d, <2>1, EmitIs
  <2> QED
    BY <1>c, <2>2 DEF SameVars
<1>5. full.err = "none" /\ ended.err = "none" /\ c.err = "none"
  <2>1. full.err = "none"
    BY <1>3, <1>4, <1>b, AddTimeIs DEF SameVars
  <2>2. CASE c.loopInTime = << >>
    <3>1. Len(c.loopInTime) = 0 /\ Len(c.loopInitAddress) <= Len(c.loopInTime)
      BY <1>1, <2>2, EmptySeq DEF Timed
    <3>2. Len(c.loopInitAddress) \in Nat /\ Len(c.loopInitAddress) # 0
      BY <1>1, TimedTypes DEF loopIndex
    <3> QED
      BY <3>1, <3>2
  <2>3. CASE c.loopInTime # << >>
    <3>1. ended.err = c.err
          /\ ended.loopInTime =
               [c.loopInTime EXCEPT ![loopIndex(c)] = c.loopInTime[loopIndex(c)] + END_EXEC_TIME]
      BY <1>a, <1>d, <2>3, AddTimeIs
    <3>2. c.loopInTime[loopIndex(c)] + END_EXEC_TIME \in Int
      <4>1. loopIndex(c) \in 1 .. Len(c.loopInTime)
        <5>1. Len(c.loopInitAddress) <= Len(c.loopInTime)
          BY <1>1 DEF Timed
        <5>2. Len(c.loopInitAddress) \in Nat /\ Len(c.loopInitAddress) # 0 /\ Len(c.loopInTime) \in Nat
          BY <1>1, TimedTypes DEF loopIndex
        <5> QED
          BY <5>1, <5>2 DEF loopIndex
      <4> QED
        BY <1>a, <4>1, ElementOfSeq DEF END_EXEC_TIME
    <3>3. ended.loopInTime \in Seq(Int)
      <4> DEFINE x == c.loopInTime[loopIndex(c)] + END_EXEC_TIME
                 times == c.loopInTime
                 k == loopIndex(c)
                 l == Len(times)
      <4>1. ended.loopInTime = [times EXCEPT ![k] = x] /\ x \in Int
        BY <3>1, <3>2
      <4>2. times \in [1 .. l -> Int] /\ l \in Nat
        BY <1>a, LenProperties
      <4> HIDE DEF x, times, l, k
      <4>3. [times EXCEPT ![k] = x] \in [1 .. l -> Int]
        BY <4>1, <4>2
      <4> QED
        BY <4>1, <4>2, <4>3
    <3> QED
      BY <1>4, <1>b, <2>1, <3>1, <3>3, AddTimeSizes
  <2> QED
    BY <2>2, <2>3
<1>6. PICK y : Timed(ended, g, y, -END_EXEC_TIME)
  <2>1. 0 \in Int /\ END_EXEC_TIME \in Int /\ 0 - END_EXEC_TIME = -END_EXEC_TIME
    BY DEF END_EXEC_TIME
  <2> QED
    BY <1>1, <1>5, <1>d, <2>1, TimedAdds
<1> DEFINE x == g.clock[Len(c.code)]
           w == g.clock[Last(c.loopInitAddress)]
<1>7. x \in Int /\ w \in Int /\ Len(c.code) \in Nat /\ Last(c.loopInitAddress) \in 1 .. Len(c.code)
  <2>1. Len(c.loopInitAddress) \in Nat /\ Len(c.loopInitAddress) # 0
    BY <1>1, TimedTypes DEF loopIndex
  <2>2. Len(c.loopInitAddress) \in 1 .. Len(c.loopInitAddress)
    BY <2>1
  <2> QED
    BY <1>1, <2>2, TimedTypes DEF Last
<1>8. Clocks(ended) = (x - w) + END_EXEC_TIME
  <2>1. -END_EXEC_TIME \in Int /\ Len(ended.loopInitAddress) # 0
    BY <1>c DEF END_EXEC_TIME, loopIndex
  <2>2. Clocks(ended) = x - w - (-END_EXEC_TIME)
    BY <1>6, <1>c, <2>1, ClocksAre
  <2> HIDE DEF x, w
  <2> QED
    BY <1>7, <2>2 DEF END_EXEC_TIME
<1>9. magic \in Int /\ ((x - w) + END_EXEC_TIME + DELAY_EXEC_TIME + magic) % MULT_FOR_SYNC = 0
  <2> DEFINE u == (x - w) + END_EXEC_TIME
  <2>1. u \in Int
    <3> HIDE DEF x, w
    <3> QED
      BY <1>7 DEF END_EXEC_TIME
  <2> HIDE DEF x, w, u
  <2>2. magic = SyncDelay(u)
    BY <1>8, <1>d DEF u
  <2>3. SyncDelay(u) \in 1 .. MULT_FOR_SYNC /\ (u + DELAY_EXEC_TIME + SyncDelay(u)) % MULT_FOR_SYNC = 0
    BY <2>1, SyncDelayCompletes
  <2>4. magic \in Int
    BY <2>2, <2>3 DEF MULT_FOR_SYNC
  <2> QED
    BY <2>2, <2>3, <2>4 DEF u
<1>10. t \in Int /\ Time([op |-> "delay", n |-> magic]) = t /\ t = magic + 8
  BY <1>9, <1>d DEF Time, DELAY_EXEC_TIME
<1> DEFINE e == [op |-> "delay", n |-> magic]
<1>11. PICK h : Timed(delayed, h, y, -END_EXEC_TIME + t) /\ Continues(g, h, Len(ended.code), e)
  <2>1. -END_EXEC_TIME \in Int
    BY DEF END_EXEC_TIME
  <2> QED
    BY <1>6, <1>10, <1>d, <2>1, TimedEmits
<1>e. e.op = "delay" /\ Time(e) = t
  BY <1>10
<1>f. delayed.code = Append(ended.code, e)
  BY <1>c, <1>d, EmitIs DEF SameVars
<1> HIDE DEF e
<1>12. PICK v : Timed(full, h, v, -END_EXEC_TIME)
  <2>1. -END_EXEC_TIME + t \in Int /\ (-END_EXEC_TIME + t) - t = -END_EXEC_TIME
    BY <1>10 DEF END_EXEC_TIME
  <2>2. \E v : Timed(AddTime(delayed, t), h, v, (-END_EXEC_TIME + t) - t)
    BY <1>4, <1>5, <1>10, <1>11, <1>b, <2>1, TimedAdds
  <2> QED
    BY <1>b, <2>1, <2>2
<1>13. full.loopInitAddress = c.loopInitAddress /\ full.code = delayed.code
  BY <1>4, <1>b, AddTimeIs
<1>14. h.clock[Len(full.code)] = x + t /\ h.clock[Last(c.loopInitAddress)] = w
  <2>1. Len(full.code) = Len(c.code) + 1
    <3>1. \E X : ended.code \in Seq(X)
      BY <1>6 DEF Timed
    <3> QED
      BY <1>13, <1>c, <1>f, <3>1, Appended
  <2>2. /\ \A i \in 0 .. Len(c.code) : h.clock[i] = g.clock[i]
        /\ h.clock[Len(c.code) + 1] = g.clock[Len(c.code)] + t
    BY <1>11, <1>c, <1>e DEF Continues, Taken
  <2>3. Last(c.loopInitAddress) \in 0 .. Len(c.code)
    BY <1>7
  <2> QED
    BY <2>1, <2>2, <2>3
<1>15. Whole(h.clock[Len(full.code)] + END_EXEC_TIME - h.clock[Last(full.loopInitAddress)])
  <2>1. h.clock[Len(full.code)] = x + t /\ h.clock[Last(full.loopInitAddress)] = w
    BY <1>13, <1>14
  <2> HIDE DEF x, w
  <2>2. (x + t) + END_EXEC_TIME - w = (x - w) + END_EXEC_TIME + DELAY_EXEC_TIME + magic
    BY <1>7, <1>9, <1>10 DEF END_EXEC_TIME, DELAY_EXEC_TIME
  <2> QED
    BY <1>9, <2>1, <2>2 DEF Whole
<1>16. Len(full.loopInitAddress) # 0
  BY <1>13 DEF loopIndex
<1> QED
  BY <1>2, <1>12, <1>15, <1>16, TimedEnds DEF TimedCode

LEMMA SameCodeTimed ==
  ASSUME NEW c, TimedCode(c), NEW r, Compilation(r), SameCode(c, r) PROVE TimedCode(r)
BY DEF TimedCode, Timed, SameCode

LEMMA LineTimed ==
  ASSUME NEW c, TimedCode(c), Vars(c), c.err = "none", NEW values, Fitting(c, values),
         NEW line, Words(line), line.op # "end",
         line.op = "loop" => Len(c.loopInitAddress) = Len(c.loopInTime),
         NEW r, r = CompileLine(c, values, line), r.err = "none"
  PROVE  /\ TimedCode(r)
         /\ line.op # "endsync" /\ Len(c.loopInitAddress) = Len(c.loopInTime) =>
              Len(r.loopInitAddress) = Len(r.loopInTime)
<1>1. Compilation(c)
  BY DEF TimedCode, Timed
<1>2. \A how : how # "none" => r # Fail(c, how)
  BY <1>1, FailIs
<1>3. CASE r = c
  BY <1>3
<1>4. CASE ~Incomplete(line) /\ line.op = "loop" /\ r = loopFunc(c, values, line.arg)
  <2>1. PICK n : r = AddTime(Emit(Pushed(c), "loop", n), LOOP_EXEC_TIME)
    BY <1>2, <1>4, LoopFuncIs
  <2>2. Len(c.loopInitAddress) = Len(c.loopInTime)
    BY <1>4
  <2> QED
    BY <2>1, <2>2, TimedLoop
<1>5. CASE ~Incomplete(line) /\ line.op = "delay" /\ r = delayFunc(c, values, line.arg)
  <2> DEFINE n == Number(c, values, line.arg)
             t == DELAY_EXEC_TIME + n
  <2>1. n \in Int
    BY <1>5, NumberTyped DEF Words
  <2>2. r = AddTime(Emit(c, "delay", n), t)
    BY <1>2, <1>5, DelayFuncIs
  <2> HIDE DEF n
  <2>3. t \in Int /\ Time([op |-> "delay", n |-> n]) = t
    BY <2>1 DEF Time, DELAY_EXEC_TIME
  <2> HIDE DEF t
  <2> QED
    BY <2>2, <2>3, TimedEmitted
<1>6. CASE ~Incomplete(line) /\ line.op = "status" /\ r = statusFunc(c, values, line.arg)
  <2>1. PICK n : r = AddTime(Emit(c, "status", n), STATUS_EXEC_TIME)
    BY <1>2, <1>6, StatusFuncIs
  <2>2. STATUS_EXEC_TIME \in Int /\ Time([op |-> "status", n |-> n]) = STATUS_EXEC_TIME
    BY DEF Time, STATUS_EXEC_TIME
  <2> QED
    BY <2>1, <2>2, TimedEmitted
<1>7. CASE line.op = "endsync" /\ r = endSyncFunc(c)
  <2>1. loopIndex(c) # 0
    BY <1>2, <1>7, EndSyncFuncIs
  <2> QED
    BY <1>7, <2>1, TimedSync
<1>8. CASE ~Incomplete(line) /\ line.op = "=" /\ r = addVar(c, line.name, line.words)
  <2>1. SameCode(c, r) /\ Compilation(r)
    BY <1>1, <1>8, AddVarKeepsCode
  <2> QED
    BY <2>1, SameCodeTimed DEF SameCode
<1> QED
  BY <1>2, <1>3, <1>4, <1>5, <1>6, <1>7, <1>8, LineIs

LEMMA StartTimed == TimedCode(Start)
<1>1. PICK g : Profile(<< >>, g) /\ LapsWhole(<< >>, g)
  BY EmptyProfile
<1> DEFINE z == [k \in 1 .. 1 |-> 0]
<1>2. Len(<< >>) = 0 /\ \A X : << >> \in Seq(X)
  BY EmptySeq
<1>3. z \in [1 .. 0 + 1 -> Int] /\ z[0 + 1] = 0
  OBVIOUS
<1> HIDE DEF z
<1>4. Summed(<< >>, z)
  BY <1>2, <1>3 DEF Summed
<1>5. Stacked(<< >>, g.depth[0], g.open[0])
  <2>1. g.depth[0] = 0
    BY <1>1 DEF Profile
  <2> QED
    BY <1>2, <2>1 DEF Stacked
<1>6. Compilation(Start) /\ Start.code = << >> /\ Start.loopInitAddress = << >> /\ Start.loopInTime = << >>
  BY DEF Compilation, Start
<1>7. Timed(Start, g, z, 0)
  BY <1>1, <1>2, <1>4, <1>5, <1>6 DEF Timed
<1> QED
  BY <1>7 DEF TimedCode

(* A file of which every loop is ended by endsync and none begins after    *)
(* another has ended.                                                      *)
Regular(lines) == AllSynced(lines) /\ Nested(lines)

LEMMA FileTimed ==
  ASSUME NEW lines, File(lines), Regular(lines), NEW values, NEW q, InTurn(q, lines, values),
         q[Len(lines)].err = "none", \A k \in 0 .. Len(lines) : Fitting(q[k], values)
  PROVE  TimedCode(q[Len(lines)])
<1> DEFINE n == Len(lines)
           Even(k) == \/ Len(q[k].loopInitAddress) = Len(q[k].loopInTime)
                      \/ \E j \in 1 .. k : lines[j].op \in Ends
           Fine(k) == TimedCode(q[k]) /\ Even(k)
           T == {k \in 0 .. n : ~Fine(k)}
<1>0. n \in Nat /\ DOMAIN lines = 1 .. n
  BY DEF File
<1>1. SUFFICES ASSUME T # {} PROVE FALSE
  <2>1. n \in 0 .. n
    BY <1>0
  <2> QED
    BY <2>1
<1>2. PICK m \in T : \A k \in T : m <= k
  <2>1. T \in SUBSET Nat
    BY <1>0
  <2> HIDE DEF T
  <2> QED
    BY <1>1, <2>1, SmallestNumber
<1>3. m \in 0 .. n /\ ~Fine(m)
  OBVIOUS
<1>4. m # 0
  <2>1. q[0] = Start
    BY DEF InTurn
  <2>2. Fine(0)
    BY <2>1, StartTimed DEF Start
  <2> HIDE DEF Fine
  <2> QED
    BY <1>3, <2>2
<1>5. m \in 1 .. n /\ m - 1 \in 0 .. n /\ Fine(m - 1)
  <2> HIDE DEF Fine
  <2> QED
    BY <1>0, <1>2, <1>3, <1>4
<1> DEFINE b == q[m - 1]
           c == q[m]
           line == lines[m]
<1>6. c = CompileLine(b, values, line)
  BY <1>5 DEF InTurn
<1>7. Words(line) /\ line.op # "end"
  BY <1>0, <1>5 DEF File, Regular, AllSynced
<1>8. b.err = "none" /\ c.err = "none" /\ Vars(b) /\ Fitting(b, values) /\ TimedCode(b) /\ Even(m - 1)
  BY <1>3, <1>5, StepsGrow, StepsCompiled DEF Step
<1>9. line.op = "loop" => Len(b.loopInitAddress) = Len(b.loopInTime)
  <2>1. SUFFICES ASSUME line.op = "loop", NEW j \in 1 .. m - 1, lines[j].op \in Ends PROVE FALSE
    BY <1>8
  <2>2. j \in 1 .. n /\ j < m
    BY <1>0, <1>5
  <2>3. m < j
    BY <1>0, <1>5, <2>1, <2>2 DEF Regular, Nested
  <2> QED
    BY <1>5, <2>2, <2>3
<1> HIDE DEF T
<1>10. TimedCode(c) /\ (line.op # "endsync" /\ Len(b.loopInitAddress) = Len(b.loopInTime) =>
                           Len(c.loopInitAddress) = Len(c.loopInTime))
  <2> HIDE DEF b, c, line
  <2> QED
    BY <1>6, <1>7, <1>8, <1>9, LineTimed
<1>11. Even(m)
  <2>1. CASE line.op = "endsync"
    <3>1. m \in 1 .. m
      BY <1>5
    <3> QED
      BY <2>1, <3>1 DEF Ends
  <2>2. CASE line.op # "endsync" /\ Len(b.loopInitAddress) = Len(b.loopInTime)
    BY <1>10, <2>2
  <2>3. CASE \E j \in 1 .. m - 1 : lines[j].op \in Ends
    <3>1. 1 .. m - 1 \subseteq 1 .. m
      BY <1>5
    <3> QED
      BY <2>3, <3>1
  <2> QED
    BY <1>8, <2>1, <2>2, <2>3
<1> QED
  BY <1>3, <1>10, <1>11

-----------------------------------------------------------------------------
(* Code for the board with its clocks.                                     *)

Clocked(code) == \E g : Profile(code, g) /\ LapsWhole(code, g)

LEMMA EndClocked ==
  ASSUME NEW c, TimedCode(c) PROVE Clocked(Append(c.code, [op |-> "endSeq", n |-> 0]))
<1> DEFINE e == [op |-> "endSeq", n |-> 0]
<1>1. PICK g, z : Timed(c, g, z, 0)
  BY DEF TimedCode
<1>2. PICK X : c.code \in Seq(X)
  BY <1>1 DEF Timed
<1>3. e.op # "endLoop" /\ Time(e) \in Int
  BY DEF Time
<1> HIDE DEF e
<1>4. PICK h : Profile(Append(c.code, e), h) /\ Continues(g, h, Len(c.code), e)
  BY <1>1, <1>2, <1>3, ProfileGrows DEF Timed
<1>5. LapsWhole(Append(c.code, e), h)
  BY <1>1, <1>2, <1>3, <1>4, LapsGrow DEF Timed
<1> QED
  BY <1>4, <1>5 DEF Clocked, e

LEMMA CompiledIs ==
  ASSUME NEW lines, File(lines), NEW values, NEW c, c = compileSequencer(lines, values), c.err = "none"
  PROVE  LET b == Folded(lines, values)
         IN /\ b.err = "none" /\ Vars(b)
            /\ c.code = Append(b.code, [op |-> "endSeq", n |-> 0])
            /\ c.varsName = b.varsName /\ c.varsValue = b.varsValue
<1> DEFINE b == Folded(lines, values)
<1>1. PICK q : InTurn(q, lines, values) /\ b = q[Len(lines)]
  BY LinesInTurn DEF File
<1>2. Step(b)
  <2>1. Len(lines) \in 0 .. Len(lines)
    BY DEF File
  <2> QED
    BY <1>1, <2>1, StepsCompiled
<1>3. c = IF b.err # "none" THEN b ELSE Emit(b, "endSeq", 0)
  BY Zenon DEF compileSequencer, Folded
<1> HIDE DEF b
<1>4. Compilation(b) /\ Vars(b)
  BY <1>2 DEF Step, CodeInv
<1>5. c = Emit(b, "endSeq", 0) /\ b.err = "none"
  BY <1>3
<1>6. SameVars(b, c) /\ c.code = Append(b.code, [op |-> "endSeq", n |-> 0])
  BY <1>4, <1>5, EmitIs
<1> QED
  BY <1>4, <1>5, <1>6 DEF b, SameVars

LEMMA LoadedTimed ==
  ASSUME NEW lines, File(lines), Regular(lines), Folded(lines, << >>).err = "none"
  PROVE  TimedCode(Folded(lines, << >>))
<1>1. PICK q : InTurn(q, lines, << >>) /\ Folded(lines, << >>) = q[Len(lines)]
  BY LinesInTurn DEF File
<1>2. \A k \in 0 .. Len(lines) : Fitting(q[k], << >>)
  BY DEF Fitting
<1>3. q[Len(lines)].err = "none"
  BY <1>1
<1> QED
  BY <1>1, <1>2, <1>3, FileTimed

LEMMA ReloadedTimed ==
  ASSUME NEW lines, File(lines), Regular(lines), Folded(lines, << >>).err = "none",
         NEW values \in Seq(Word), Len(values) = Len(Folded(lines, << >>).varsName),
         Folded(lines, values).err = "none"
  PROVE  TimedCode(Folded(lines, values))
<1>0. Len(lines) \in Nat
  BY DEF File
<1>1. PICK q : InTurn(q, lines, << >>) /\ Folded(lines, << >>) = q[Len(lines)]
  BY LinesInTurn DEF File
<1>2. PICK r : InTurn(r, lines, values) /\ Folded(lines, values) = r[Len(lines)]
  BY LinesInTurn DEF File
<1>3. q[Len(lines)].err = "none" /\ r[Len(lines)].err = "none"
  BY <1>1, <1>2
<1>4. ASSUME NEW k \in 0 .. Len(lines) PROVE Fitting(r[k], values)
  <2>1. Len(q[k].varsName) <= Len(q[Len(lines)].varsName) /\ r[k].err = "none"
    BY <1>1, <1>2, <1>3, StepsGrow
  <2>2. Alike(q[k], r[k])
    BY <1>1, <1>2, <1>3, <2>1, StepsAlike
  <2> QED
    BY <1>1, <2>1, <2>2 DEF Alike, Fitting
<1> QED
  BY <1>2, <1>3, <1>4, FileTimed

-----------------------------------------------------------------------------
(* What the handler holds: the variables of a file that could be compiled,  *)
(* with a word each, and, when it is good, the code of that file.           *)

Held(s) ==
  /\ File(s.seqContent)
  /\ Folded(s.seqContent, << >>).err = "none"
  /\ s.seqVarsName = Folded(s.seqContent, << >>).varsName
  /\ s.seqVarsValue \in Seq(Word) /\ Len(s.seqVarsValue) = Len(s.seqVarsName)
  /\ s.seqGood /\ Regular(s.seqContent) => Clocked(s.compSeq)

LEMMA FailedHeld == ASSUME NEW s, Handler(s), Held(s), NEW c PROVE Held(Failed(s, c))
<1> DEFINE ended == c.err \in {"thrown", "undefined"}
           r == Failed(s, c)
<1>1. r = [s EXCEPT !.seqGood = FALSE, !.crashed = ended]
  BY DEF Failed
<1> HIDE DEF ended, r
<1>2. /\ r.seqContent = s.seqContent /\ r.seqVarsName = s.seqVarsName
      /\ r.seqVarsValue = s.seqVarsValue /\ ~r.seqGood
  BY <1>1 DEF Handler
<1> QED
  BY <1>2 DEF Held, r

LEMMA LoadHeld ==
  ASSUME NEW s, Handler(s), Held(s), NEW file, File(file) PROVE Held(loadNewSequencer(s, file))
<1> DEFINE c == compileSequencer(file, << >>)
           b == Folded(file, << >>)
<1>1. CASE c.err # "none"
  BY <1>1, FailedHeld DEF loadNewSequencer, Loaded
<1>2. CASE c.err = "none"
  <2> DEFINE r == loadNewSequencer(s, file)
  <2>1. r = [s EXCEPT !.seqContent = file, !.compSeq = c.code, !.seqVarsName = c.varsName,
                      !.seqVarsValue = c.varsValue, !.seqGood = TRUE]
    BY <1>2 DEF loadNewSequencer, Loaded
  <2>2. /\ b.err = "none" /\ Vars(b) /\ c.code = Append(b.code, [op |-> "endSeq", n |-> 0])
        /\ c.varsName = b.varsName /\ c.varsValue = b.varsValue
    BY <1>2, CompiledIs
  <2>3. Regular(file) => Clocked(c.code)
    BY <2>2, LoadedTimed, EndClocked
  <2> HIDE DEF b, c, r
  <2>4. /\ r.seqContent = file /\ r.compSeq = c.code /\ r.seqVarsName = c.varsName
        /\ r.seqVarsValue = c.varsValue
    BY <2>1 DEF Handler
  <2> QED
    BY <2>2, <2>3, <2>4 DEF Held, Vars, b, r
<1> QED
  BY <1>1, <1>2

LEMMA ReloadHeld ==
  ASSUME NEW s, Handler(s), Held(s) PROVE Held(loadSequencer(s))
<1> DEFINE c == compileSequencer(s.seqContent, s.seqVarsValue)
           b == Folded(s.seqContent, s.seqVarsValue)
<1>1. CASE c.err # "none"
  BY <1>1, FailedHeld DEF loadSequencer, Reloaded
<1>2. CASE c.err = "none"
  <2> DEFINE r == loadSequencer(s)
  <2>1. r = [s EXCEPT !.compSeq = c.code, !.seqGood = TRUE]
    BY <1>2 DEF loadSequencer, Reloaded
  <2>2. b.err = "none" /\ c.code = Append(b.code, [op |-> "endSeq", n |-> 0])
    BY <1>2, CompiledIs DEF Held
  <2>3. Regular(s.seqContent) => Clocked(c.code)
    BY <2>2, ReloadedTimed, EndClocked DEF Held
  <2> HIDE DEF b, c, r
  <2>4. /\ r.seqContent = s.seqContent /\ r.compSeq = c.code /\ r.seqVarsName = s.seqVarsName
        /\ r.seqVarsValue = s.seqVarsValue
    BY <2>1 DEF Handler
  <2> QED
    BY <2>3, <2>4 DEF Held, r
<1> QED
  BY <1>1, <1>2

LEMMA ChangeHeld ==
  ASSUME NEW s, Handler(s), Held(s), NEW text, NEW word \in Word
  PROVE  Held(changeSeqVarValue(s, text, word)) /\ Handler(changeSeqVarValue(s, text, word))
<1> DEFINE k == VarInd(s, text)
           l == Len(s.seqVarsValue)
           values == [s.seqVarsValue EXCEPT ![k] = word]
           r == changeSeqVarValue(s, text, word)
<1>1. r = [s EXCEPT !.seqVarsValue = values]
  BY DEF changeSeqVarValue
<1>2. s.seqVarsValue \in [1 .. l -> Word] /\ l \in Nat
  BY LenProperties DEF Held
<1>3. values \in [1 .. l -> Word]
  <2> HIDE DEF k, l
  <2> QED
    BY <1>2
<1> HIDE DEF k, values, r
<1>4. values \in Seq(Word) /\ Len(values) = Len(s.seqVarsValue)
  BY <1>2, <1>3
<1>5. /\ r.seqContent = s.seqContent /\ r.compSeq = s.compSeq /\ r.seqVarsName = s.seqVarsName
      /\ r.seqVarsValue = values /\ r.seqGood = s.seqGood /\ Handler(r)
  BY <1>1 DEF Handler
<1> QED
  BY <1>4, <1>5 DEF Held, r

LEMMA NothingHeld == Held(NoSequencer)
<1>1. << >> \in Seq(Word) /\ Len(<< >>) = 0 /\ DOMAIN << >> = 1 .. 0 /\ 1 .. 0 = {}
  BY EmptySeq
<1>2. File(<< >>)
  BY <1>1 DEF File
<1>3. PICK q : InTurn(q, << >>, << >>) /\ Folded(<< >>, << >>) = q[0]
  BY <1>1, LinesInTurn
<1>4. Folded(<< >>, << >>) = Start
  BY <1>3 DEF InTurn
<1> QED
  BY <1>1, <1>2, <1>4 DEF Held, NoSequencer, Start

HeldInv == files \in Users /\ Handler(seq) /\ Held(seq)

LEMMA HeldInit == ASSUME Init PROVE HeldInv
BY NothingHeld DEF Init, HeldInv, Handler, NoSequencer

LEMMA HeldStep == ASSUME HeldInv, Inv, [Next]_vars PROVE HeldInv'
<1>0. Handler(seq')
  BY InvStep DEF Inv, HandlerInv
<1>1. CASE Load
  <2>1. PICK file \in files : seq' = loadNewSequencer(seq, file)
    BY <1>1 DEF Load
  <2>2. files' = files /\ files \in Users /\ Held(seq) /\ Handler(seq)
    BY <1>1 DEF Load, HeldInv
  <2>3. File(file)
    BY <2>2, SequencerAssumption DEF File
  <2> QED
    BY <1>0, <2>1, <2>2, <2>3, LoadHeld DEF HeldInv
<1>2. CASE SetVar
  <2>1. PICK i \in DOMAIN seq.seqVarsName, word \in NewValues :
                seq' = loadSequencer(changeSeqVarValue(seq, seq.seqVarsName[i].text, word))
    BY <1>2, Zenon DEF SetVar
  <2>2. files' = files /\ files \in Users /\ Held(seq) /\ Handler(seq)
    BY <1>2 DEF SetVar, HeldInv
  <2>3. word \in Word
    BY SequencerAssumption
  <2> QED
    BY <1>0, <2>1, <2>2, <2>3, ChangeHeld, ReloadHeld DEF HeldInv
<1>3. CASE UNCHANGED vars
  BY <1>3 DEF vars, HeldInv
<1> QED
  BY <1>1, <1>2, <1>3 DEF Next

-----------------------------------------------------------------------------
(* What one instruction does on the board.                                 *)

Board(b) ==
  b = [on |-> b.on, pc |-> b.pc, loops |-> b.loops, clock |-> b.clock, trace |-> b.trace, laps |-> b.laps]

(* b goes to the place pc and the clock, with its loops and laps. *)
Goes(b, r, pc, clock, loops, laps) ==
  Board(r) /\ r.on = b.on /\ r.pc = pc /\ r.clock = clock /\ r.loops = loops /\ r.laps = laps

LEMMA BoardPasses ==
  ASSUME NEW b, Board(b), NEW code, code[b.pc + 1].op \in {"delay", "status"}
  PROVE  Goes(b, BoardStep(b, code), b.pc + 1, b.clock + Time(code[b.pc + 1]), b.loops, b.laps)
<1> DEFINE i == code[b.pc + 1]
           t == Time(i)
           pc == b.pc + 1
           clock == b.clock + t
           trace == Append(b.trace, i)
           r == BoardStep(b, code)
<1>1. r = [[b EXCEPT !.pc = pc, !.clock = clock] EXCEPT !.trace = trace]
  <2> DEFINE passed == [b EXCEPT !.pc = @ + 1, !.clock = @ + t]
  <2>1. r = [passed EXCEPT !.trace = Append(@, i)]
    <3>1. CASE i.op = "delay"
      BY <3>1 DEF BoardStep, Time
    <3>2. CASE i.op = "status"
      BY <3>2 DEF BoardStep, Time
    <3> QED
      BY <3>1, <3>2
  <2>2. passed = [b EXCEPT !.pc = pc, !.clock = clock]
    OBVIOUS
  <2>3. passed.trace = b.trace
    <3> HIDE DEF pc, clock
    <3> QED
      BY <2>2 DEF Board
  <2>4. [passed EXCEPT !.trace = Append(@, i)] = [passed EXCEPT !.trace = Append(passed.trace, i)]
    OBVIOUS
  <2> HIDE DEF passed
  <2> QED
    BY <2>1, <2>2, <2>3, <2>4
<1> HIDE DEF i, t, pc, clock, trace, r
<1>2. Goes(b, r, pc, clock, b.loops, b.laps)
  BY <1>1 DEF Board, Goes
<1> QED
  BY <1>2 DEF i, t, pc, clock, r

LEMMA BoardOpens ==
  ASSUME NEW b, Board(b), NEW code, code[b.pc + 1].op = "loop"
  PROVE  \E loop : /\ loop.since = b.clock + LOOP_EXEC_TIME
                   /\ Goes(b, BoardStep(b, code), b.pc + 1, b.clock + LOOP_EXEC_TIME,
                           Append(b.loops, loop), b.laps)
<1> DEFINE i == code[b.pc + 1]
           pc == b.pc + 1
           clock == b.clock + LOOP_EXEC_TIME
           loop == [left |-> i.n, since |-> clock]
           loops == Append(b.loops, loop)
           r == BoardStep(b, code)
<1>1. r = [[b EXCEPT !.pc = pc, !.clock = clock] EXCEPT !.loops = loops]
  <2> DEFINE passed == [b EXCEPT !.pc = @ + 1, !.clock = @ + LOOP_EXEC_TIME]
  <2>1. r = [passed EXCEPT !.loops = Append(@, loop)]
    BY DEF BoardStep
  <2>2. passed = [b EXCEPT !.pc = pc, !.clock = clock]
    OBVIOUS
  <2>3. passed.loops = b.loops
    <3> HIDE DEF pc, clock
    <3> QED
      BY <2>2 DEF Board
  <2>4. [passed EXCEPT !.loops = Append(@, loop)] = [passed EXCEPT !.loops = Append(passed.loops, loop)]
    OBVIOUS
  <2> HIDE DEF passed
  <2> QED
    BY <2>1, <2>2, <2>3, <2>4
<1>2. loop.since = clock
  OBVIOUS
<1> HIDE DEF i, pc, clock, loop, loops, r
<1>3. Goes(b, r, pc, clock, loops, b.laps)
  BY <1>1 DEF Board, Goes
<1> QED
  BY <1>2, <1>3 DEF pc, clock, loops, r

LEMMA BoardEnds ==
  ASSUME NEW b, Board(b), NEW code, code[b.pc + 1].op = "endLoop"
  PROVE  LET now == b.clock + END_EXEC_TIME
             laps == b.laps \cup {now - Last(b.loops).since}
             r == BoardStep(b, code)
         IN \/ Goes(b, r, b.pc + 1, now, Front(b.loops), laps)
            \/ \E loop : /\ loop.since = now
                         /\ Goes(b, r, code[b.pc + 1].n, now, Append(Front(b.loops), loop), laps)
<1> DEFINE i == code[b.pc + 1]
           now == b.clock + END_EXEC_TIME
           laps == b.laps \cup {now - Last(b.loops).since}
           top == Last(b.loops)
           loop == [left |-> top.left - 1, since |-> now]
           pc == b.pc + 1
           front == Front(b.loops)
           loops == Append(front, loop)
           r == BoardStep(b, code)
<1>1. r = [b EXCEPT !.clock = now, !.pc = IF top.left = 0 THEN @ + 1 ELSE i.n,
                    !.laps = @ \cup {now - top.since},
                    !.loops = IF top.left = 0 THEN Front(@) ELSE Append(Front(@), loop)]
  BY DEF BoardStep
<1>2. CASE top.left = 0
  <2>1. r = [b EXCEPT !.clock = now, !.pc = pc, !.laps = laps, !.loops = front]
    BY <1>1, <1>2
  <2> HIDE DEF i, now, laps, top, loop, pc, front, loops, r
  <2>2. Goes(b, r, pc, now, front, laps)
    BY <2>1 DEF Board, Goes
  <2> QED
    BY <2>2 DEF r, pc, now, front, laps, top
<1>3. CASE top.left # 0
  <2> DEFINE n == i.n
  <2>1. r = [b EXCEPT !.clock = now, !.pc = n, !.laps = laps, !.loops = loops]
    BY <1>1, <1>3
  <2>2. loop.since = now
    OBVIOUS
  <2> HIDE DEF i, n, now, laps, top, loop, pc, front, loops, r
  <2>3. Goes(b, r, n, now, loops, laps)
    BY <2>1 DEF Board, Goes
  <2> QED
    BY <2>2, <2>3 DEF r, n, i, now, front, laps, top, loops
<1> QED
  BY <1>2, <1>3

LEMMA BoardStops == ASSUME NEW b, NEW code, code[b.pc + 1].op = "endSeq" PROVE BoardStep(b, code) = b
BY DEF BoardStep

LEMMA WholeSums ==
  ASSUME NEW x \in Int, NEW y \in Int, Whole(x), Whole(y) PROVE Whole(x + y) /\ Whole(x - y)
<1> DEFINE a == x \div 20
           b == y \div 20
<1>1. a \in Int /\ b \in Int /\ x = 20 * a /\ y = 20 * b
  BY DEF Whole, MULT_FOR_SYNC
<1> HIDE DEF a, b
<1>2. x + y = 20 * (a + b) /\ x - y = 20 * (a - b) /\ a + b \in Int /\ a - b \in Int
  BY <1>1
<1>3. \A k \in Int : (20 * k) % 20 = 0
  OBVIOUS
<1> QED
  BY <1>2, <1>3 DEF Whole, MULT_FOR_SYNC

(* The board is as many clocks after the place it is at as a whole number  *)
(* of rounds takes, and each of its loops after its own place.             *)
Running(b, code, g) ==
  /\ Board(b) /\ \E X : b.loops \in Seq(X)
  /\ b.pc \in 0 .. Len(code) - 1 /\ b.clock \in Int /\ Whole(b.clock - g.clock[b.pc])
  /\ Len(b.loops) = g.depth[b.pc]
  /\ \A k \in 1 .. g.depth[b.pc] :
       b.loops[k].since \in Int /\ Whole(b.loops[k].since - g.clock[g.open[b.pc][k]])
  /\ \A lap \in b.laps : Whole(lap)

LEMMA BoardRuns ==
  ASSUME NEW code, Complete(code), NEW g, Profile(code, g), LapsWhole(code, g), NEW b, Running(b, code, g)
  PROVE  Running(BoardStep(b, code), code, g)
<1> DEFINE n == Len(code)
           p == b.pc
           q == p + 1
           i == code[q]
           r == BoardStep(b, code)
           d == g.depth[p]
           o == g.open[p]
           s == b.loops
<1>1. n \in Nat /\ DOMAIN code = 1 .. n
  BY LenProperties DEF Complete
<1>2. p \in 0 .. n - 1 /\ b.clock \in Int /\ Whole(b.clock - g.clock[p]) /\ Board(b)
  BY DEF Running
<1>3. PICK X : s \in Seq(X)
  BY DEF Running
<1>4. Len(s) = d /\ \A k \in 1 .. d : s[k].since \in Int /\ Whole(s[k].since - g.clock[o[k]])
  BY DEF Running
<1>5. \A lap \in b.laps : Whole(lap)
  BY DEF Running
<1> HIDE DEF n
<1>6. p \in Nat /\ p \in 0 .. n /\ q \in 1 .. n /\ q \in 0 .. n /\ q - 1 = p
  BY <1>1, <1>2
<1>7. /\ g.clock \in [0 .. n -> Int] /\ g.depth \in [0 .. n -> Nat] /\ g.open \in [0 .. n -> [Nat -> Nat]]
      /\ Taken(i, g.clock[p], g.clock[q]) /\ Nesting(i, q, d, o, g.depth[q], g.open[q]) /\ Since(g, p)
  <2>1. /\ g.clock \in [0 .. Len(code) -> Int] /\ g.depth \in [0 .. Len(code) -> Nat]
        /\ g.open \in [0 .. Len(code) -> [Nat -> Nat]]
        /\ \A j \in 1 .. Len(code) :
             /\ Taken(code[j], g.clock[j - 1], g.clock[j])
             /\ Nesting(code[j], j, g.depth[j - 1], g.open[j - 1], g.depth[j], g.open[j])
        /\ \A j \in 0 .. Len(code) : Since(g, j)
    BY DEF Profile
  <2> HIDE DEF p, q
  <2> QED
    BY <1>6, <2>1 DEF n
<1>8. i.op \in Ops \cup {"endSeq"} /\ (i.op # "endSeq" => q \in 0 .. n - 1)
  <2>1. i.op \in Ops \cup {"endSeq"} /\ (i.op # "endSeq" => q # n)
    BY <1>1, <1>6 DEF Complete, n
  <2> QED
    BY <1>1, <1>6, <2>1
<1>a. g.clock[p] \in Int /\ g.clock[q] \in Int /\ d \in Nat /\ o \in [Nat -> Nat]
  BY <1>6, <1>7
<1>b. Time(i) \in Int /\ g.clock[q] = g.clock[p] + Time(i)
  BY <1>7 DEF Taken
<1> DEFINE x == b.clock
           u == g.clock[p]
           t == Time(i)
<1>c. /\ x \in Int /\ u \in Int /\ t \in Int /\ g.clock[q] = u + t /\ Whole(x - u)
  BY <1>2, <1>a, <1>b
<1>9. CASE i.op \in {"delay", "status"}
  <2>1. Goes(b, r, q, x + t, s, b.laps)
    BY <1>2, <1>9, BoardPasses
  <2>2. g.depth[q] = d /\ g.open[q] = o
    BY <1>7, <1>9 DEF Nesting
  <2> HIDE DEF p, q, i, r, d, o, s, x, u, t
  <2>3. x + t \in Int /\ (x + t) - (u + t) = x - u
    BY <1>c
  <2>4. q \in 0 .. n - 1
    BY <1>8, <1>9
  <2>5. Running(r, code, g)
    BY <1>3, <1>4, <1>5, <1>c, <2>1, <2>2, <2>3, <2>4 DEF Goes, Running, n
  <2> QED
    BY <2>5 DEF r
<1>10. CASE i.op = "loop"
  <2>1. PICK loop : /\ loop.since = x + LOOP_EXEC_TIME
                    /\ Goes(b, r, q, x + LOOP_EXEC_TIME, Append(s, loop), b.laps)
    BY <1>2, <1>10, BoardOpens
  <2>2. g.depth[q] = d + 1 /\ g.open[q] = [o EXCEPT ![d + 1] = q]
    BY <1>7, <1>10 DEF Nesting
  <2>3. t = LOOP_EXEC_TIME
    BY <1>10 DEF Time
  <2> DEFINE loops == Append(s, loop)
  <2>4. loops \in Seq(X \cup {loop}) /\ Len(loops) = d + 1 /\ loops[d + 1] = loop
        /\ \A k \in 1 .. d : loops[k] = s[k]
    BY <1>3, <1>4, Appended
  <2> HIDE DEF p, q, i, r, d, o, s, x, u, t, loops
  <2>5. x + LOOP_EXEC_TIME \in Int /\ (x + LOOP_EXEC_TIME) - (u + t) = x - u
    BY <1>c, <2>3 DEF LOOP_EXEC_TIME
  <2>6. q \in 0 .. n - 1
    BY <1>8, <1>10
  <2>7. ASSUME NEW k \in 1 .. d + 1
        PROVE  loops[k].since \in Int /\ Whole(loops[k].since - g.clock[g.open[q][k]])
    <3>1. d + 1 \in Nat /\ q \in Nat /\ k \in Nat
      BY <1>6, <1>a
    <3>2. CASE k = d + 1
      <4>1. g.open[q][k] = q
        BY <1>a, <2>2, <3>1, <3>2
      <4> QED
        BY <1>c, <2>1, <2>4, <2>5, <3>2, <4>1
    <3>3. CASE k \in 1 .. d
      <4>1. k # d + 1
        BY <1>a, <3>3
      <4>2. g.open[q][k] = o[k]
        BY <1>a, <2>2, <3>1, <4>1
      <4> QED
        BY <1>4, <2>4, <3>3, <4>2
    <3> QED
      BY <1>a, <3>2, <3>3
  <2>8. Running(r, code, g)
    BY <1>5, <1>c, <2>1, <2>2, <2>4, <2>5, <2>6, <2>7 DEF Goes, Running, n, loops
  <2> QED
    BY <2>8 DEF r
<1>11. CASE i.op = "endLoop"
  <2> DEFINE top == Last(s)
             now == x + END_EXEC_TIME
             lap == now - top.since
             laps == b.laps \cup {lap}
             front == Front(s)
             m == i.n
             w == g.clock[m]
             v == top.since
  <2>1. \/ Goes(b, r, q, now, front, laps)
        \/ \E loop : loop.since = now /\ Goes(b, r, m, now, Append(front, loop), laps)
    BY <1>2, <1>11, BoardEnds
  <2>2. d # 0 /\ g.depth[q] = d - 1 /\ g.open[q] = o /\ m = o[d]
    BY <1>7, <1>11 DEF Nesting
  <2>3. t = END_EXEC_TIME
    BY <1>11 DEF Time
  <2>4. Whole(g.clock[q] - w)
    BY <1>6, <1>11 DEF LapsWhole, n
  <2>5. d \in 1 .. d
    BY <1>a, <2>2
  <2>6. m \in 1 .. p /\ g.depth[m] = d /\ \A j \in 1 .. d : g.open[m][j] = o[j]
    BY <1>7, <2>2, <2>5 DEF Since
  <2>7. m \in 0 .. n - 1 /\ m \in 0 .. n
    BY <1>1, <1>2, <2>6
  <2>8. /\ top = s[d] /\ front \in Seq(X) /\ Len(front) = d - 1
        /\ \A k \in 1 .. d - 1 : front[k] = s[k]
    <3>1. Len(s) # 0 /\ Len(s) = d
      BY <1>4, <2>2
    <3>2. /\ Last(s) = s[Len(s)] /\ Front(s) \in Seq(X) /\ Len(Front(s)) = Len(s) - 1
          /\ \A k \in 1 .. Len(s) - 1 : Front(s)[k] = s[k]
      BY <1>3, <3>1, FrontIs
    <3> HIDE DEF s, d
    <3> QED
      BY <3>1, <3>2
  <2>9. w \in Int /\ v \in Int /\ Whole(v - w)
    BY <1>4, <1>7, <2>2, <2>5, <2>7, <2>8
  <2>10. Goes(b, r, q, now, front, laps) =>
           r.pc = q /\ r.clock = now /\ r.loops = front /\ r.laps = laps /\ Board(r)
    BY DEF Goes
  <2>a. now = x + END_EXEC_TIME /\ lap = now - v /\ laps = b.laps \cup {lap}
    OBVIOUS
  <2>b. g.clock[q] = u + t /\ Whole((u + t) - w)
    BY <1>c, <2>4
  <2> HIDE DEF p, q, i, r, d, o, s, x, u, t, top, now, lap, laps, front, m, w, v
  <2>11. now \in Int /\ now - (u + t) = x - u
    BY <1>c, <2>3, <2>a DEF END_EXEC_TIME
  <2>12. Whole(now - w)
    <3>1. now - w = (x - u) + ((u + t) - w) /\ x - u \in Int /\ (u + t) - w \in Int
      BY <1>c, <2>3, <2>9, <2>a DEF END_EXEC_TIME
    <3> QED
      BY <1>c, <2>b, <3>1, WholeSums
  <2>13. Whole(lap)
    <3>1. lap = (now - w) - (v - w) /\ now - w \in Int /\ v - w \in Int
      BY <2>9, <2>11, <2>a
    <3> QED
      BY <2>9, <2>12, <3>1, WholeSums
  <2>14. \A l \in laps : Whole(l)
    BY <1>5, <2>13, <2>a
  <2>15. \A k \in 1 .. d - 1 : k \in 1 .. d
    BY <1>a
  <2>16. CASE Goes(b, r, q, now, front, laps)
    <3>1. q \in 0 .. n - 1
      BY <1>8, <1>11
    <3>2. Running(r, code, g)
      BY <1>4, <1>c, <2>2, <2>8, <2>11, <2>14, <2>15, <2>16, <2>b, <3>1 DEF Goes, Running, n
    <3> QED
      BY <3>2 DEF r
  <2>17. ASSUME NEW loop, loop.since = now, Goes(b, r, m, now, Append(front, loop), laps)
         PROVE  Running(r, code, g)
    <3> DEFINE loops == Append(front, loop)
    <3>1. loops \in Seq(X \cup {loop}) /\ Len(loops) = (d - 1) + 1 /\ loops[(d - 1) + 1] = loop
          /\ \A k \in 1 .. d - 1 : loops[k] = front[k]
      BY <2>8, Appended
    <3>2. (d - 1) + 1 = d
      BY <1>a
    <3> HIDE DEF loops
    <3>3. ASSUME NEW k \in 1 .. d
          PROVE  loops[k].since \in Int /\ Whole(loops[k].since - g.clock[g.open[m][k]])
      <4>1. CASE k = d
        <5>1. g.open[m][k] = m /\ loops[k] = loop
          BY <2>2, <2>6, <3>1, <3>2, <4>1
        <5> QED
          BY <2>11, <2>12, <2>17, <5>1 DEF w
      <4>2. CASE k \in 1 .. d - 1
        BY <1>4, <2>6, <2>8, <3>1, <4>2
      <4> QED
        BY <1>a, <4>1, <4>2
    <3>4. Whole(now - g.clock[m])
      BY <2>12 DEF w
    <3> QED
      BY <2>6, <2>7, <2>11, <2>14, <2>17, <3>1, <3>2, <3>3, <3>4 DEF Goes, Running, n, loops
  <2> QED
    BY <2>1, <2>16, <2>17 DEF r
<1>12. CASE i.op = "endSeq"
  BY <1>12, BoardStops
<1> QED
  BY <1>8, <1>9, <1>10, <1>11, <1>12 DEF Ops

LEMMA BoardKeeps ==
  ASSUME NEW b, Board(b), NEW code
  PROVE  Board(BoardStep(b, code)) /\ BoardStep(b, code).on = b.on
<1> DEFINE op == code[b.pc + 1].op
<1>1. CASE op \in {"delay", "status"}
  BY <1>1, BoardPasses DEF Goes
<1>2. CASE op = "loop"
  BY <1>2, BoardOpens DEF Goes
<1>3. CASE op = "endLoop"
  BY <1>3, BoardEnds DEF Goes
<1>4. CASE op \notin {"delay", "status", "loop", "endLoop"}
  BY <1>4 DEF BoardStep
<1> QED
  BY <1>1, <1>2, <1>3, <1>4

LEMMA BoardStarts ==
  ASSUME NEW code, Complete(code), NEW g, Profile(code, g), NEW b, Board(b), b.pc = 0, b.clock = 0,
         b.loops = << >>, b.laps = {}
  PROVE  Running(b, code, g)
<1>1. Len(code) \in Nat /\ Len(code) # 0
  BY EmptySeq, LenProperties DEF Complete
<1>2. 0 \in 0 .. Len(code) - 1
  BY <1>1
<1>3. g.clock[0] = 0 /\ g.depth[0] = 0
  BY DEF Profile
<1>4. Len(<< >>) = 0 /\ << >> \in Seq(Nat) /\ 1 .. 0 = {}
  BY EmptySeq
<1>5. Whole(0 - 0)
  BY DEF Whole, MULT_FOR_SYNC
<1> QED
  BY <1>2, <1>3, <1>4, <1>5 DEF Running

-----------------------------------------------------------------------------
(* The board runs the code of the sequencer that is held.                  *)

RunsAsTimed(b, s) ==
  /\ s.seqGood
  /\ Regular(s.seqContent) =>
       \E g : Profile(s.compSeq, g) /\ LapsWhole(s.compSeq, g) /\ Running(b, s.compSeq, g)

RunInv ==
  /\ Inv /\ HeldInv
  /\ Board(board) /\ (~board.on => board = Stopped) /\ (board.on => RunsAsTimed(board, seq))

LEMMA RunInvInit == ASSUME RunsInit PROVE RunInv
<1>1. Inv /\ HeldInv
  BY InvInit, HeldInit DEF RunsInit
<1>2. board = Stopped
  BY DEF RunsInit
<1> QED
  BY <1>1, <1>2 DEF RunInv, Board, Stopped

LEMMA RunInvStep == ASSUME RunInv, [RunsNext]_<<vars, board>> PROVE RunInv'
<1>1. CASE LoadOrSet
  <2>1. Next /\ board' = board /\ ~board.on
    BY <1>1 DEF LoadOrSet
  <2>2. Inv' /\ HeldInv'
    BY <2>1, InvStep, HeldStep DEF RunInv
  <2> QED
    BY <2>1, <2>2 DEF RunInv
<1>2. CASE StartBoard
  <2>1. /\ ~board.on /\ seq.seqGood /\ board' = [board EXCEPT !.on = TRUE] /\ seq' = seq /\ files' = files
    BY <1>2 DEF StartBoard, vars
  <2>2. Inv' /\ HeldInv'
    BY <2>1, InvStep, HeldStep DEF RunInv, vars
  <2>3. board = Stopped
    BY <2>1 DEF RunInv
  <2>4. /\ Board(board') /\ board'.on /\ board'.pc = 0 /\ board'.clock = 0
        /\ board'.loops = << >> /\ board'.laps = {}
    BY <2>1, <2>3 DEF Board, Stopped
  <2>5. Complete(seq.compSeq) /\ (Regular(seq.seqContent) => Clocked(seq.compSeq))
    BY <2>1 DEF RunInv, Inv, HandlerInv, HeldInv, Held
  <2>6. RunsAsTimed(board', seq)
    <3>1. SUFFICES ASSUME Regular(seq.seqContent)
                   PROVE  \E g : /\ Profile(seq.compSeq, g) /\ LapsWhole(seq.compSeq, g)
                                 /\ Running(board', seq.compSeq, g)
      BY <2>1 DEF RunsAsTimed
    <3>2. PICK g : Profile(seq.compSeq, g) /\ LapsWhole(seq.compSeq, g)
      BY <2>5, <3>1 DEF Clocked
    <3> QED
      BY <2>4, <2>5, <3>2, BoardStarts
  <2> QED
    BY <2>1, <2>2, <2>4, <2>6 DEF RunInv
<1>3. CASE RunBoard
  <2>1. board.on /\ board' = BoardStep(board, seq.compSeq) /\ seq' = seq /\ files' = files
    BY <1>3 DEF RunBoard, vars
  <2>2. Inv' /\ HeldInv'
    BY <2>1, InvStep, HeldStep DEF RunInv, vars
  <2>3. Board(board') /\ board'.on
    BY <2>1, BoardKeeps DEF RunInv
  <2>4. RunsAsTimed(board, seq) /\ Complete(seq.compSeq)
    BY <2>1 DEF RunInv, RunsAsTimed, Inv, HandlerInv
  <2>5. RunsAsTimed(board', seq)
    <3>1. SUFFICES ASSUME Regular(seq.seqContent)
                   PROVE  \E g : /\ Profile(seq.compSeq, g) /\ LapsWhole(seq.compSeq, g)
                                 /\ Running(board', seq.compSeq, g)
      BY <2>4 DEF RunsAsTimed
    <3>2. PICK g : /\ Profile(seq.compSeq, g) /\ LapsWhole(seq.compSeq, g)
                   /\ Running(board, seq.compSeq, g)
      BY <2>4, <3>1 DEF RunsAsTimed
    <3>3. Running(board', seq.compSeq, g)
      BY <2>1, <2>4, <3>2, BoardRuns
    <3> QED
      BY <3>2, <3>3
  <2> QED
    BY <2>1, <2>2, <2>3, <2>5 DEF RunInv
<1>4. CASE UNCHANGED <<vars, board>>
  <2>1. board' = board /\ seq' = seq /\ files' = files
    BY <1>4 DEF vars
  <2>2. Inv' /\ HeldInv'
    BY <2>1, InvStep, HeldStep DEF RunInv, vars
  <2> QED
    BY <2>1, <2>2 DEF RunInv
<1> QED
  BY <1>1, <1>2, <1>3, <1>4 DEF RunsNext

LEMMA RunInvariance == RunsSpec => []RunInv
BY RunInvInit, RunInvStep, PTL DEF RunsSpec

(* Whatever files a user has, whichever values the variables are set to and *)
(* whichever loads and changes have failed: when every loop of the file     *)
(* that the daemon believes to be loaded ends with endsync, and none begins *)
(* after another has ended, every iteration on the board takes a multiple   *)
(* of 20 clocks (sequencerHandler::endSyncFunc).                            *)
THEOREM SyncedLoopsHold == RunsSpec => []SyncedLoops
<1>1. RunInv => SyncedLoops
  <2> SUFFICES ASSUME RunInv, board.on, AllSynced(seq.seqContent), Nested(seq.seqContent),
                      NEW lap \in board.laps
               PROVE  lap % MULT_FOR_SYNC = 0
    BY DEF SyncedLoops, Synced
  <2>1. PICK g : Running(board, seq.compSeq, g)
    BY DEF RunInv, RunsAsTimed, Regular
  <2> QED
    BY <2>1 DEF Running, Whole
<1> QED
  BY <1>1, RunInvariance, PTL
===============================================================================
