-------------------------- MODULE SequencerCompiler --------------------------
(***************************************************************************)
(* The compiler of class sequencerHandler: lines of a legacy sequencer     *)
(* file to instructions for the board.                                     *)
(*                                                                         *)
(* A line is a record: op is its keyword, arg the word after it, and a     *)
(* definition "x = a | b" has op "=", its name and its words.  A word has  *)
(* the readings the compiler makes of it: its text, the number strtol      *)
(* finds in base 10, the bits it finds in base 2, and whether it consists  *)
(* of binary digits only.  Words have at most 29 characters.               *)
(***************************************************************************)
EXTENDS Integers, SequencesExt, FiniteSetsExt, Functions

MULT_FOR_SYNC == 20
LOOP_EXEC_TIME == 6
DELAY_EXEC_TIME == 8
STATUS_EXEC_TIME == 5
END_EXEC_TIME == 7
maxValue == 2 ^ 29 - 1          (* maxNumOfLoops and maxNumOfDelay *)

Texts == STRING \cup {""}     (* "" is that of a word which is not there *)
Word == [text : Texts, dec : Int, bits : SUBSET (0 .. 28), whole : BOOLEAN]

Name(t) == [text |-> t, dec |-> 0, bits |-> {}, whole |-> FALSE]
BitsWord(t, bits) ==
  [text |-> t, dec |-> SumSet({10 ^ b : b \in bits}), bits |-> bits, whole |-> TRUE]

(* The variables of a compilation.                                         *)
(* err is "failed" after a return 1, "thrown" after an exception nobody    *)
(* catches, "undefined" after an access outside a vector.                  *)
Start ==
  [code |-> << >>, varsName |-> << >>, varsValue |-> << >>,
   loopInitAddress |-> << >>, loopInTime |-> << >>, err |-> "none"]

loopIndex(c) == Len(c.loopInitAddress)
Fail(c, how) == [c EXCEPT !.err = how]
Emit(c, op, n) == [c EXCEPT !.code = Append(@, [op |-> op, n |-> n])]

(* loopInTime has an element for every loop so far, ended or not, and is   *)
(* indexed by the depth of nesting.                                        *)
AddTime(c, t) ==
  IF c.loopInTime = << >> THEN c
  ELSE IF loopIndex(c) = 0 THEN Fail(c, "undefined")
  ELSE [c EXCEPT !.loopInTime[loopIndex(c)] = @ + t]

Places(c, text) == {i \in DOMAIN c.varsName : c.varsName[i].text = text}

(* A variable has the value of the file when a file is loaded, and the     *)
(* value it was set to, values[i], when the sequencer is compiled again.   *)
Value(c, values, i) == IF values = << >> THEN c.varsValue[i] ELSE values[i]

Lookup(c, values, word) ==
  IF Places(c, word.text) = {} THEN word
  ELSE Value(c, values, Min(Places(c, word.text)))

Number(c, values, word) == IF word.dec > 0 THEN word.dec ELSE Lookup(c, values, word).dec

loopFunc(c, values, word) ==
  LET n == Number(c, values, word)
      pushed == [c EXCEPT !.loopInitAddress = Append(@, Len(c.code) + 1),
                          !.loopInTime = Append(@, 0)]
  IN IF n < 0 \/ n > maxValue THEN Fail(c, "failed")
     ELSE AddTime(Emit(pushed, "loop", (n - 1) % 2 ^ 29), LOOP_EXEC_TIME)

delayFunc(c, values, word) ==
  LET n == Number(c, values, word)
  IN IF n <= 0 \/ n > maxValue THEN Fail(c, "failed")
     ELSE AddTime(Emit(c, "delay", n), DELAY_EXEC_TIME + n)

statusFunc(c, values, word) ==
  LET v == IF word.bits # {} \/ word.whole THEN word ELSE Lookup(c, values, word)
  IN IF v.bits = {} /\ ~v.whole THEN Fail(c, "failed")
     ELSE AddTime(Emit(c, "status", v.bits), STATUS_EXEC_TIME)

(* Mutant: a loop is ended with the address of the outermost one. *)
EndOutermost(c) ==
  [Emit(c, "endLoop", Head(c.loopInitAddress)) EXCEPT !.loopInitAddress = Front(@)]

EndLoop(c) ==
  [Emit(c, "endLoop", Last(c.loopInitAddress)) EXCEPT !.loopInitAddress = Front(@)]

endFunc(c) ==
  IF loopIndex(c) = 0 THEN Fail(c, "failed") ELSE EndLoop(AddTime(c, END_EXEC_TIME))

(* The delay that makes an iteration of a loop a multiple of 20 clocks: at *)
(* least one clock is needed beyond the execution time of the instruction. *)
SyncDelay(numClks) ==
  LET rest == numClks % MULT_FOR_SYNC
  IN IF MULT_FOR_SYNC - rest > DELAY_EXEC_TIME
     THEN MULT_FOR_SYNC - rest - DELAY_EXEC_TIME
     ELSE 2 * MULT_FOR_SYNC - rest - DELAY_EXEC_TIME

(* Mutant: the clocks of the loops inside are not added. *)
OwnClocks(c) == c.loopInTime[loopIndex(c)] - LOOP_EXEC_TIME

Clocks(c) ==
  FoldLeft(+, -LOOP_EXEC_TIME, SubSeq(c.loopInTime, loopIndex(c), Len(c.loopInTime)))

endSyncFunc(c) ==
  LET ended == AddTime(c, END_EXEC_TIME)
      magic == SyncDelay(Clocks(ended))
  IN IF loopIndex(c) = 0 THEN Fail(c, "failed")
     ELSE EndLoop(AddTime(Emit(ended, "delay", magic), magic + DELAY_EXEC_TIME))

(* "|" with a variable after it joins its bits to the value so far.  With  *)
(* anything else after it the value of the variable before is used again,  *)
(* or nothing: valAfterOperand stays as it is.                             *)
Or(c, acc, word) ==
  LET after == IF Places(c, word.text) = {} THEN acc.valAfterOperand
               ELSE c.varsValue[Min(Places(c, word.text))]
      binary(w) == w.whole \/ w.text = ""
  IN [value |-> BitsWord("", acc.value.bits \cup after.bits),
      valAfterOperand |-> after,
      thrown |-> acc.thrown \/ ~binary(acc.value) \/ ~binary(after)]

(* Mutant: a second definition of a variable adds its value. *)
addValue(c, name, words) ==
  IF Places(c, name.text) = {}
  THEN [c EXCEPT !.varsName = Append(@, name), !.varsValue = Append(@, words[1])]
  ELSE [c EXCEPT !.varsValue = Append(@, words[1])]

(* A second definition of a variable renames it to the new value.          *)
addVar(c, name, words) ==
  LET first == IF Places(c, words[1].text) = {} THEN words[1]
               ELSE c.varsValue[Max(Places(c, words[1].text))]
      acc == FoldLeft(LAMBDA a, w : Or(c, a, w),
                      [value |-> first, valAfterOperand |-> Name(""), thrown |-> FALSE],
                      Tail(words))
  IN IF acc.thrown THEN Fail(c, "thrown")
     ELSE IF Places(c, name.text) = {}
     THEN [c EXCEPT !.varsName = Append(@, name), !.varsValue = Append(@, acc.value)]
     ELSE [c EXCEPT !.varsName[Max(Places(c, name.text))] = acc.value]

(* The word after the keyword, or the value of a variable, is not there. *)
Incomplete(line) ==
  \/ line.op \in {"loop", "delay", "status"} /\ line.arg.text = ""
  \/ line.op = "=" /\ line.words = << >>

(* A line with an unknown first word is ignored. *)
CompileLine(c, values, line) ==
  IF c.err # "none" THEN c
  ELSE IF Incomplete(line) THEN Fail(c, "undefined")
  ELSE CASE line.op = "loop"    -> loopFunc(c, values, line.arg)
         [] line.op = "delay"   -> delayFunc(c, values, line.arg)
         [] line.op = "status"  -> statusFunc(c, values, line.arg)
         [] line.op = "end"     -> endFunc(c)
         [] line.op = "endsync" -> endSyncFunc(c)
         [] line.op = "="       -> addVar(c, line.name, line.words)
         [] OTHER               -> c

(* Loops without an end are logged by endSeqFunc and compiled. *)
compileSequencer(seqCont, values) ==
  LET c == FoldLeft(LAMBDA acc, line : CompileLine(acc, values, line), Start, seqCont)
  IN IF c.err # "none" THEN c ELSE Emit(c, "endSeq", 0)

=============================================================================
