--------------------------- MODULE LegacySequencer ---------------------------
(***************************************************************************)
(* Class sequencerHandler: the legacy sequencer the daemon has loaded, its *)
(* variables and its compiled code, over loads and variable changes that   *)
(* may fail.  An exception that nobody catches, or an access outside a     *)
(* vector, ends the daemon.                                                *)
(***************************************************************************)
EXTENDS SequencerCompiler

CONSTANTS
  Users,      (* the sequencer files each user has: sets of sequences of lines *)
  NewValues   (* words a user sets variables to                              *)

(* A file has lines, and a line the words that its keyword takes. *)
Words(line) ==
  /\ line.op \in {"loop", "delay", "status"} => line.arg \in Word
  /\ line.op = "=" => line.name \in Word /\ line.words \in Seq(Word)

ASSUME SequencerAssumption ==
  /\ \A u \in Users : \A file \in u :
       /\ Len(file) \in Nat /\ DOMAIN file = 1 .. Len(file)
       /\ \A k \in DOMAIN file : Words(file[k])
  /\ NewValues \subseteq Word

VARIABLES
  files,      (* this user's *)
  seq         (* the fields of the handler *)

vars == <<files, seq>>

NoSequencer ==
  [seqContent |-> << >>, compSeq |-> << >>, seqVarsName |-> << >>,
   seqVarsValue |-> << >>, seqGood |-> FALSE, crashed |-> FALSE]

LTASOFT_MIN_SEQ_VAR_VALUE == 1
LTASOFT_MAX_SEQ_VAR_VALUE == 2 ^ 29 - 1

TypeOK ==
  /\ files \in Users /\ seq.seqContent \in files \cup {<< >>}
  /\ \A i \in DOMAIN seq.compSeq :
       seq.compSeq[i].op \in {"loop", "delay", "status", "endLoop", "endSeq"}
  /\ Len(seq.seqVarsName) = Len(seq.seqVarsValue)
  /\ seq.seqGood \in BOOLEAN /\ seq.crashed \in BOOLEAN

(* What a failed compilation leaves: the flag is cleared at its start. *)
Failed(s, c) == [s EXCEPT !.seqGood = FALSE, !.crashed = c.err \in {"thrown", "undefined"}]

(* What a compilation leaves, c, for the lines of a file: one that         *)
(* compiles replaces everything, one that does not nothing.                *)
Loaded(s, file, c) ==
  IF c.err # "none" THEN Failed(s, c)
  ELSE [s EXCEPT !.seqContent = file, !.compSeq = c.code, !.seqVarsName = c.varsName,
                 !.seqVarsValue = c.varsValue, !.seqGood = TRUE]

loadNewSequencer(s, file) == Loaded(s, file, compileSequencer(file, << >>))

(* The sequencer is compiled again with the values its variables have now. *)
Reloaded(s, c) ==
  IF c.err # "none" THEN Failed(s, c) ELSE [s EXCEPT !.compSeq = c.code, !.seqGood = TRUE]

loadSequencer(s) == Reloaded(s, compileSequencer(s.seqContent, s.seqVarsValue))

isSequencerVar(s, text) == \E i \in DOMAIN s.seqVarsName : s.seqVarsName[i].text = text
VarInd(s, text) == Min({i \in DOMAIN s.seqVarsName : s.seqVarsName[i].text = text})
getSequencerVarValue(s, text) == s.seqVarsValue[VarInd(s, text)]

(* check_is_a_number has accepted the word: its digits are decimal. *)
InRange(word) == word.dec \in LTASOFT_MIN_SEQ_VAR_VALUE .. LTASOFT_MAX_SEQ_VAR_VALUE

changeSeqVarValue(s, text, word) == [s EXCEPT !.seqVarsValue[VarInd(s, text)] = word]

Changes(s, text, word) == isSequencerVar(s, text) /\ InRange(word)

-----------------------------------------------------------------------------

Init == files \in Users /\ seq = NoSequencer

(* cmd_load_seq.  A file that does not exist changes nothing. *)
Load ==
  /\ ~seq.crashed
  /\ \E file \in files : seq' = loadNewSequencer(seq, file)
  /\ UNCHANGED files

(* set_seq_var: the value is changed before the sequencer is compiled, and *)
(* stays when that fails.                                                  *)
SetVar ==
  /\ ~seq.crashed
  /\ \E i \in DOMAIN seq.seqVarsName, word \in NewValues :
       /\ Changes(seq, seq.seqVarsName[i].text, word)
       /\ seq' = loadSequencer(changeSeqVarValue(seq, seq.seqVarsName[i].text, word))
  /\ UNCHANGED files

Next == Load \/ SetVar

Spec == Init /\ [][Next]_vars

-----------------------------------------------------------------------------

Ended(code) == {i \in DOMAIN code : code[i].op = "endLoop"}

(* The jumps of code go to loops before them, each to the last one that no *)
(* other has ended in between.                                             *)
Nests(code) ==
  \A i \in Ended(code) :
    /\ code[i].n \in 1 .. i - 1 /\ code[code[i].n].op = "loop"
    /\ \A j \in Ended(code) : i < j => code[j].n < code[i].n \/ code[j].n > i

(* The code for the board always ends, and ends each loop at most once and *)
(* from the inside, whichever loads and changes of variables have failed:  *)
(* the board keeps its loops on a stack (sequencerHandler::endFunc and     *)
(* endSyncFunc, which pop the addresses that loopFunc pushes).             *)
LoopsNest ==
  /\ seq.seqGood => seq.compSeq # << >>
  /\ \A i \in DOMAIN seq.compSeq : seq.compSeq[i].op = "endSeq" <=> i = Len(seq.compSeq)
  /\ Nests(seq.compSeq)
=============================================================================
