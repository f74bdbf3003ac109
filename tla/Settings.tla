------------------------------ MODULE Settings ------------------------------
(***************************************************************************)
(* The daemon's settings (class UserInterpreter): loading a legacy or a    *)
(* smart sequencer, changing their variables, the dimensions of the image, *)
(* and the calibration, which changes them for a while.  Everything is     *)
(* uploaded to the board command by command; a command may be lost, or     *)
(* only its answer.                                                        *)
(***************************************************************************)
EXTENDS Integers, SequencesExt, FiniteSetsExt, Functions

CONSTANTS
  Users,        (* what each user has, a sequence: legacy files, smart documents,
                   the variables that are set, and how many commands may be lost *)
  NewValues,    (* words a user sets variables to                              *)
  UserCols      (* numbers of columns a user sets                              *)

VARIABLES
  user,
  seq,          (* the legacy sequencer *)
  sseq,         (* the smart sequencer  *)
  cols, rows, readoutType,
  saved,        (* what the calibration will put back, while it runs *)
  alive,        (* FALSE once the daemon has crashed or hangs        *)
  board,
  lost,         (* commands lost so far *)
  (* history *)
  incomplete,   (* the kinds of sequencer whose last upload lost something *)
  document,     (* the document that has been loaded *)
  colsByUser    (* cols has been set since it was last computed *)

settings == <<seq, sseq, cols, rows, readoutType>>
history == <<incomplete, document, colsByUser>>
vars == <<user, settings, saved, alive, board, lost, history>>

Legacy == INSTANCE LegacySequencer WITH files <- {}, Users <- {}   (* its operators *)
Smart == INSTANCE SmartSequencer
Board == INSTANCE BoardSimulator

NCH == 4                              (* LTA_NUMBER_OF_CHANNELS *)
NROW == "NROW"                        (* SEQ_CONVENTION_READ_ROWS_NUMBER *)
NCOL == "NCOL"
NSAMP == "NSAMP"
Dimensions == {NROW, NCOL, NSAMP}

NoDocument == [none |-> "none"]
NotCalibrating == [on |-> FALSE]

TypeOK ==
  /\ user \in DOMAIN Users
  /\ seq.seqContent \in Users[user].files \cup {<< >>} /\ seq.seqGood \in BOOLEAN
  /\ Len(seq.seqVarsName) = Len(seq.seqVarsValue)
  /\ sseq.out = "ok" /\ sseq.seqGood \in BOOLEAN
  /\ cols \in Nat /\ rows \in Nat /\ readoutType \in {"standard", "interleaving"}
  /\ lost \in 0 .. Users[user].losses /\ incomplete \subseteq {"legacy", "smart"}
  /\ document \in Users[user].docs \cup {NoDocument}
  /\ <<alive, saved.on, colsByUser>> \in BOOLEAN \X BOOLEAN \X BOOLEAN

-----------------------------------------------------------------------------
(* Uploads.  at is the place of a command that fails, 0 if none does, and  *)
(* done says whether the board has executed it nevertheless.               *)

NoFailure == <<0, FALSE>>
Failures(commands) ==
  {NoFailure} \cup (IF lost < Users[user].losses THEN (1 .. Len(commands)) \X BOOLEAN ELSE {})

Execute(b, commands) == FoldLeft(LAMBDA a, c : Board!parseMsg(a, c), b, commands)

LegacyCommands(code) ==
  <<[op |-> "seqStart 0"], [op |-> "seq clear"]>>
    \o [k \in DOMAIN code |-> [op |-> "seq", id |-> k, arg |-> code[k]]]
    \o <<[op |-> "seq load"]>>

(* load_seq goes on after a command that fails. *)
load_seq(b, code, failure) ==
  Execute(b, IF failure = NoFailure \/ failure[2] THEN LegacyCommands(code)
             ELSE RemoveAt(LegacyCommands(code), failure[1]))

ClearCommands == <<[op |-> "sek reset"], [op |-> "clear recipes"], [op |-> "clear dynamicVector"]>>

(* load_smart_seq goes on after one of the first three, not after others. *)
UploadSmart(b, commands, failure) ==
  LET sent == IF failure = NoFailure THEN commands
              ELSE IF failure[1] > 3
              THEN SubSeq(commands, 1, IF failure[2] THEN failure[1] ELSE failure[1] - 1)
              ELSE IF failure[2] THEN commands ELSE RemoveAt(commands, failure[1])
  IN Execute(b, sent)

Lost(failure) == lost' = lost + (IF failure = NoFailure THEN 0 ELSE 1)
Uploaded(kind, complete) ==
  incomplete' = IF complete THEN incomplete \ {kind} ELSE incomplete \cup {kind}

NothingSent == UNCHANGED <<board, lost, incomplete>>
Die == alive' = FALSE /\ UNCHANGED <<settings, saved, board, lost, history, user>>
Ready == alive /\ ~saved.on

-----------------------------------------------------------------------------
(* Dimensions                                                              *)

SeqValue(s, var) == Legacy!getSequencerVarValue(s, var).dec

(* Mutant: the number of samples is left out. *)
SeqDimensionsInPixels(s) ==
  IF \A v \in Dimensions : Legacy!isSequencerVar(s, v)
  THEN /\ cols' = SeqValue(s, NCOL)
       /\ rows' = SeqValue(s, NROW)
       /\ colsByUser' = FALSE
  ELSE UNCHANGED <<cols, rows, colsByUser>>

(* update_seq_dimensions: when the sequencer has all three variables. *)
SeqDimensions(s) ==
  IF \A v \in Dimensions : Legacy!isSequencerVar(s, v)
  THEN /\ cols' = SeqValue(s, NCOL) * SeqValue(s, NSAMP)
       /\ rows' = SeqValue(s, NROW)
       /\ colsByUser' = FALSE
  ELSE UNCHANGED <<cols, rows, colsByUser>>

(* Mutant: only the columns are required. *)
SmartDimensionsUnchecked(h) ==
  LET given(v) == IF Smart!IsVar(h, v) THEN Smart!resolveIntVar(h, v) ELSE -1
  IN /\ rows' = IF Smart!IsVar(h, NROW) THEN given(NROW) ELSE rows
     /\ IF given(NCOL) # -1
        THEN cols' = given(NCOL) * given(NSAMP) /\ colsByUser' = FALSE
        ELSE UNCHANGED <<cols, colsByUser>>

(* The beginning of load_smart_seq; -1 stands for a missing variable. *)
SmartDimensions(h) ==
  LET given(v) == IF Smart!IsVar(h, v) THEN Smart!resolveIntVar(h, v) ELSE -1
  IN /\ rows' = IF Smart!IsVar(h, NROW) THEN given(NROW) ELSE rows
     /\ IF -1 \notin {given(NCOL), given(NSAMP)}
        THEN cols' = given(NCOL) * given(NSAMP) /\ colsByUser' = FALSE
        ELSE UNCHANGED <<cols, colsByUser>>

SmartDimensionsOutcome(h) ==
  LET of(v) == IF Smart!IsVar(h, v) THEN Smart!IntOutcome(h, v) ELSE "ok"
  IN Smart!First(<<of(NROW), of(NCOL), of(NSAMP)>>)

-----------------------------------------------------------------------------
(* Commands of the user                                                    *)

Init ==
  /\ user \in DOMAIN Users
  /\ seq = Legacy!NoSequencer /\ sseq = Smart!NoSmart
  /\ cols = 1024 /\ rows = 512 /\ readoutType = "standard"
  /\ saved = NotCalibrating /\ alive = TRUE
  /\ \E garbage \in SUBSET {Board!PED_STATE, Board!SIG_STATE} :
       board = [Board!Unloaded EXCEPT !.adcState = garbage]
  /\ lost = 0
  /\ incomplete = {} /\ document = NoDocument /\ colsByUser = FALSE

(* The sequencer s that loading a file has left is uploaded.  A file that  *)
(* does not compile leaves dimensions and board alone.                     *)
cmd_load_seq(s) ==
  IF s.crashed THEN Die
  ELSE /\ seq' = s
       /\ IF ~s.seqGood
          THEN NothingSent /\ UNCHANGED <<cols, rows, readoutType, colsByUser>>
          ELSE \E f \in Failures(LegacyCommands(s.compSeq)) :
                 /\ board' = load_seq(board, s.compSeq, f)
                 /\ Lost(f) /\ Uploaded("legacy", f = NoFailure)
                 /\ readoutType' = IF Legacy!isSequencerVar(s, "INTERLEAVING")
                                   THEN "interleaving" ELSE "standard"
                 /\ SeqDimensions(s)
       /\ UNCHANGED <<user, sseq, saved, alive, document>>

LoadSeq ==
  /\ Ready
  /\ \E file \in Users[user].files : cmd_load_seq(Legacy!loadNewSequencer(seq, file))

(* load_smart_seq for h, the smart sequencer as it is now. *)
LoadSmartSeq(h) ==
  LET made == Smart!CommandsOutcome(h)
      commands == ClearCommands \o (IF made = "ok" THEN Smart!makeCommandsToBoard(h) ELSE << >>)
  IN
  IF SmartDimensionsOutcome(h) # "ok" \/ made \in {"crash", "hang"} THEN Die
  ELSE /\ sseq' = h
       /\ SmartDimensions(h)
       /\ \E f \in Failures(commands) :
            /\ board' = UploadSmart(board, commands, f)
            /\ Lost(f)
            /\ Uploaded("smart", f = NoFailure /\ made = "ok")
       /\ UNCHANGED <<user, seq, readoutType, saved, alive>>

cmd_load_smart_seq(doc) ==
  LET h == Smart!loadNewSequencer(sseq, doc)
      caught == Smart!Ending(h, "ok")
  IN CASE h.out = "ok" -> LoadSmartSeq(h) /\ document' = doc
       [] h.out = "exception" ->
            /\ sseq' = caught
            /\ document' = IF caught = sseq THEN document ELSE NoDocument
            /\ NothingSent
            /\ UNCHANGED <<user, seq, cols, rows, readoutType, saved, alive, colsByUser>>
       [] OTHER -> Die

LoadSmart == Ready /\ \E doc \in Users[user].docs : cmd_load_smart_seq(doc)

(* An exception out of the durations is not caught here.  Nothing is done  *)
(* when the variable has the value.                                        *)
cmd_set_sseq_var(var, word) ==
  LET h == Smart!changeSeqVarValue(sseq, var, word.text)
  IN IF Smart!resolveVar(sseq, var) = "endless" THEN Die
     ELSE IF Smart!resolveVar(sseq, var) = word.text THEN UNCHANGED vars
     ELSE IF h.out # "ok" THEN Die
     ELSE LoadSmartSeq(h) /\ UNCHANGED document

(* set_seq_var: nothing is sent unless the value is accepted and compiles. *)
set_seq_var(s, var, word) ==
  IF Legacy!Changes(s, var, word)
  THEN Legacy!loadSequencer(Legacy!changeSeqVarValue(s, var, word)) ELSE s

(* s is the sequencer set_seq_var has left, and sent whether it is sent. *)

cmd_set_seq_var(s, sent) ==
  IF s.crashed THEN Die
  ELSE /\ seq' = s
       /\ SeqDimensions(s)
       /\ IF ~sent THEN NothingSent
          ELSE \E f \in Failures(LegacyCommands(s.compSeq)) :
                 /\ board' = load_seq(board, s.compSeq, f)
                 /\ Lost(f) /\ Uploaded("legacy", f = NoFailure)
       /\ UNCHANGED <<user, sseq, readoutType, saved, alive, document>>

(* A variable of both sequencers is the smart one's. *)
SetVar ==
  /\ Ready
  /\ \E word \in NewValues :
       \/ \E var \in DOMAIN sseq.fVars \cap Users[user].sets : cmd_set_sseq_var(var, word)
       \/ \E k \in DOMAIN seq.seqVarsName :
            /\ seq.seqVarsName[k].text \in Users[user].sets \ DOMAIN sseq.fVars
            /\ LET s == set_seq_var(seq, seq.seqVarsName[k].text, word)
               IN cmd_set_seq_var(s, Legacy!InRange(word) /\ s.seqGood)

cmd_set_cols_var ==
  /\ Ready
  /\ \E n \in UserCols : cols' = n
  /\ colsByUser' = TRUE
  /\ UNCHANGED <<user, seq, sseq, rows, readoutType, saved, alive, board, lost, incomplete, document>>

-----------------------------------------------------------------------------
(* The calibration: cmd_get_calibrate_interleaving until its readout, and  *)
(* after it.  It sets three variables, each with an upload of its own.     *)

CalibrationNeeds == Dimensions \cup {"CCDNCOL", "CCDNROW", "CCDNPRES"}
SafeRegion == 30          (* LTASOFT_CALIBRATION_NUMBER_PIXELS_SAFE_GOOD_REGION *)
CalibrationCols == 100
CalibrationRows == 200
CalibrationNSAMP == Legacy!BitsWord("1", {0})
Number(n) == [text |-> ToString(n), dec |-> n, bits |-> {}, whole |-> FALSE]

(* The three changes, with the upload after each; one of them may lose a   *)
(* command.  They are made with the sequencer as it is after the others.   *)
Change(st, change, s, failure) ==
  [seq |-> s,
   board |-> IF Legacy!Changes(st.seq, change.var, change.word) /\ s.seqGood
             THEN load_seq(st.board, s.compSeq, failure) ELSE st.board]

ChangeAll(changes, place, failure) ==
  FoldLeft(LAMBDA st, k : Change(st, changes[k], set_seq_var(st.seq, changes[k].var, changes[k].word),
                                 IF k = place THEN failure ELSE NoFailure),
           [seq |-> seq, board |-> board], <<1, 2, 3>>)

(* The upload after the last change makes good what was lost before it. *)
SetThree(changes) ==
  \E place \in 1 .. 3, f \in Failures(LegacyCommands(seq.compSeq)) :
    /\ f = NoFailure => place = 3
    /\ \E st \in {ChangeAll(changes, place, f)} : seq' = st.seq /\ board' = st.board
    /\ Lost(f) /\ Uploaded("legacy", f = NoFailure \/ place # 3)

To(nsamp, row, col) ==
  <<[var |-> NSAMP, word |-> nsamp], [var |-> NROW, word |-> row], [var |-> NCOL, word |-> col]>>

CalibrateBegin ==
  LET size(array, region) == SeqValue(seq, array) + 2 * SafeRegion + region
      ncol == size("CCDNCOL", CalibrationCols)
      nrow == size("CCDNROW", CalibrationRows)
      value(v) == Legacy!getSequencerVarValue(seq, v)
  IN /\ Ready /\ \A v \in CalibrationNeeds : Legacy!isSequencerVar(seq, v)
     /\ SetThree(To(CalibrationNSAMP, Number(nrow), Number(ncol)))
     /\ saved' = [on |-> TRUE, prevNSAMP |-> value(NSAMP), prevNROWS |-> value(NROW),
                  prevNCOLS |-> value(NCOL), prevCols |-> cols, prevRows |-> rows,
                  seq |-> seq, colsByUser |-> colsByUser]
     /\ cols' = ncol /\ rows' = nrow /\ colsByUser' = FALSE
     /\ UNCHANGED <<user, sseq, readoutType, alive, document>>

(* Mutant: the size of the image is put back, and not the variable. *)
RestoreWithoutRows ==
  To(saved.prevNSAMP, Legacy!getSequencerVarValue(seq, NROW), saved.prevNCOLS)

Restore == To(saved.prevNSAMP, saved.prevNROWS, saved.prevNCOLS)

CalibrateEnd ==
  /\ alive /\ saved.on
  /\ SetThree(Restore)
  /\ cols' = saved.prevCols /\ rows' = saved.prevRows /\ colsByUser' = saved.colsByUser
  /\ saved' = NotCalibrating
  /\ UNCHANGED <<user, sseq, readoutType, alive, document>>

-----------------------------------------------------------------------------
(* A readout (cmd_start_standard_readout, run_seq).                        *)

Dynamic == sseq.seqGood /\ Smart!dynVarInUse(sseq)

(* It changes no setting, but with a dynamic variable the size of its      *)
(* image is computed after it, and no exception of that is caught.         *)
cmd_start_standard_readout ==
  /\ Ready /\ readoutType = "standard" /\ Dynamic
  /\ Smart!DimensionsOutcome(sseq) # "ok"
  /\ Die

sampsExpected ==
  IF readoutType = "standard" /\ Dynamic THEN -1 ELSE cols * rows * NCH

(* The legacy sequencer is run when there is a good one, whatever the last *)
(* one loaded.                                                             *)
Sent == NCH * (IF seq.seqGood THEN Board!doReadoutLegacy(board) ELSE Board!doReadoutSmart(board))

-----------------------------------------------------------------------------

Next ==
  \/ LoadSeq \/ LoadSmart \/ SetVar \/ cmd_set_cols_var
  \/ CalibrateBegin \/ CalibrateEnd \/ cmd_start_standard_readout

Spec == Init /\ [][Next]_vars

-----------------------------------------------------------------------------

OnlyLegacy == seq.seqGood /\ sseq = Smart!NoSmart
OnlySmart == sseq.seqGood /\ seq = Legacy!NoSequencer
DimensionsKnown ==
  \A v \in Dimensions : IF OnlySmart THEN Smart!IsVar(sseq, v) ELSE Legacy!isSequencerVar(seq, v)

(* The readout thread stops when it has as many samples as it expects, and *)
(* otherwise waits for its timeout: for every sequence of loads, failed    *)
(* loads, changes of variables and calibrations, a user of one kind of     *)
(* sequencer expects what the uploaded sequencer sends                     *)
(* (UserInterpreter::cmd_start_standard_readout).                          *)
ExpectsWhatIsSent ==
  (alive /\ (OnlyLegacy \/ OnlySmart) /\ DimensionsKnown /\ incomplete = {} /\ ~colsByUser)
    => sampsExpected \in {-1, Sent}

(* The meaning of a document, with the values of its variables now.        *)
RECURSIVE Meaning(_, _, _)
Meaning(doc, h, elements) ==
  IF elements = << >> THEN << >>
  ELSE LET e == Head(elements)
           n == IF e.n \in DOMAIN doc.dynVars
                THEN Smart!resolveIntVar(h, Head(doc.dynVars[e.n]))
                ELSE Smart!resolveIntVar(h, e.n)
           step(s) == [bits |-> Smart!resolveState(doc.states, s.state, {}).bits,
                       delay |-> Smart!resolveIntVar(h, s.delay)]
           own == [k \in DOMAIN doc.recipes[e.name] |-> step(doc.recipes[e.name][k])]
           once == own \o Meaning(doc, h, e.kids)
       IN FlattenSeq([k \in 1 .. n |-> once]) \o Meaning(doc, h, Tail(elements))

(* Steps that name a state, or are one: see the README for the others. *)
StepsNamed(doc) ==
  \A r \in DOMAIN doc.recipes : \A k \in DOMAIN doc.recipes[r] :
    LET text == doc.recipes[r][k].state
    IN text \in DOMAIN doc.states \/ (Len(text) = 1 /\ text[1] \in DOMAIN Smart!Bitstring)

BoardRuns ==
  LET trace == Board!Runs(board, 1)
  IN [k \in DOMAIN trace |-> [bits |-> trace[k].bits, delay |-> trace[k].delay]]

(* After a complete upload the recipes on the board, followed from mother  *)
(* to daughter to sister, do what the elements of the document say,        *)
(* however they are nested, and with the values the variables have now     *)
(* (smartSequencerHandler::loadSequence and makeCommandsToBoard).          *)
BoardRunsDocument ==
  (alive /\ document # NoDocument /\ sseq.seqGood /\ "smart" \notin incomplete
     /\ StepsNamed(document))
    => BoardRuns = Meaning(document, sseq, document.sequence)

OneValue ==
  Cardinality({Smart!resolveIntVar(sseq, t) : t \in ToSet(Smart!DynamicValues(sseq))}) = 1

(* The image of a readout with a dynamic variable has the rows the daemon  *)
(* believes the readout has, and all the samples the board sends: for all  *)
(* partitions into regions, whatever has been set since the upload of the  *)
(* document (smartSequencerHandler::calculateSmartImageDimensions).  The   *)
(* simulated board knows one value of the variable only, so this is about  *)
(* variables whose values are equal, by whatever names they are given.     *)
SmartImageIsReadout ==
  (alive /\ OnlySmart /\ Dynamic /\ DimensionsKnown /\ incomplete = {}
     /\ Smart!DimensionsOutcome(sseq) = "ok" /\ OneValue)
    => LET nCols == Smart!calculateSmartImageDimensions(sseq)
       IN DOMAIN nCols = 0 .. rows - 1 /\ NCH * FoldFunction(+, 0, nCols) = Sent

(* A calibration leaves the sequencer, its variables, the dimensions and   *)
(* the program on the board as it found them, also when a command is lost  *)
(* before the last upload (UserInterpreter::cmd_get_calibrate_interleaving).*)
CalibrationRestores ==
  [][(saved.on /\ ~saved'.on /\ saved.seq.seqGood) =>
       /\ seq' = saved.seq /\ cols' = saved.prevCols /\ rows' = saved.prevRows
       /\ "legacy" \notin incomplete'
            => board'.seq = load_seq(Board!Unloaded, saved.seq.compSeq, NoFailure).seq]_vars
=============================================================================
