---------------------------- MODULE SequencerRuns ----------------------------
(***************************************************************************)
(* What the board does with compiled code, what the lines of a file mean,  *)
(* and that they agree.                                                    *)
(***************************************************************************)
EXTENDS LegacySequencer

VARIABLE board   (* the board's sequencer, once it has been started *)

(* A loop instruction loads a counter with the repetitions left after the  *)
(* first, an end of loop counts it down and jumps.  laps has the clocks of *)
(* each iteration.                                                         *)
Stopped == [on |-> FALSE, pc |-> 0, loops |-> << >>, clock |-> 0, trace |-> << >>, laps |-> {}]

BoardStep(b, code) ==
  LET i == code[b.pc + 1]
      passed(t) == [b EXCEPT !.pc = @ + 1, !.clock = @ + t]
      now == b.clock + END_EXEC_TIME
      top == Last(b.loops)
  IN CASE i.op = "delay"  -> [passed(DELAY_EXEC_TIME + i.n) EXCEPT !.trace = Append(@, i)]
       [] i.op = "status" -> [passed(STATUS_EXEC_TIME) EXCEPT !.trace = Append(@, i)]
       [] i.op = "loop"   ->
            [passed(LOOP_EXEC_TIME) EXCEPT
               !.loops = Append(@, [left |-> i.n, since |-> b.clock + LOOP_EXEC_TIME])]
       [] i.op = "endLoop" ->
            [b EXCEPT !.clock = now,
                      !.pc = IF top.left = 0 THEN @ + 1 ELSE i.n,
                      !.laps = @ \cup {now - top.since},
                      !.loops = IF top.left = 0 THEN Front(@)
                                ELSE Append(Front(@), [left |-> top.left - 1, since |-> now])]
       [] OTHER -> b   (* endSeq *)

-----------------------------------------------------------------------------
(* The meaning of lines, with the values the daemon reports.               *)

Ends == {"end", "endsync"}
Depth(lines) == FoldLeft(LAMBDA d, x : IF x.op = "loop" THEN d + 1
                                       ELSE IF x.op \in Ends THEN d - 1 ELSE d, 0, lines)
EndOf(lines) == Min({k \in DOMAIN lines : Depth(SubSeq(lines, 1, k)) = 0})

Balanced(lines) == /\ Depth(lines) = 0
                   /\ \A k \in DOMAIN lines : Depth(SubSeq(lines, 1, k)) >= 0

Reported(word) == IF isSequencerVar(seq, word.text) THEN getSequencerVarValue(seq, word.text) ELSE word
Count(word) == IF word.dec > 0 THEN word.dec ELSE Reported(word).dec
Bits(word) == IF word.whole THEN word.bits ELSE Reported(word).bits

Lines == UNION {ToSet(f) : f \in files}
Padding == [op |-> "padding"]
Repeat(n, s) == FlattenSeq([k \in 1 .. n |-> s])

Meaning[lines \in Seq(Lines)] ==
  IF lines = << >> THEN << >>
  ELSE LET line == Head(lines)
           end == EndOf(lines)
           pad == IF lines[end].op = "endsync" THEN <<Padding>> ELSE << >>
       IN CASE line.op = "loop" ->
                 Repeat(Count(line.arg), Meaning[SubSeq(lines, 2, end - 1)] \o pad)
                   \o Meaning[SubSeq(lines, end + 1, Len(lines))]
            [] line.op = "delay"  -> <<[op |-> "delay", n |-> Count(line.arg)]>> \o Meaning[Tail(lines)]
            [] line.op = "status" -> <<[op |-> "status", n |-> Bits(line.arg)]>> \o Meaning[Tail(lines)]
            [] OTHER -> Meaning[Tail(lines)]

(* trace is a beginning of meaning. *)
Begins(trace, meaning) ==
  /\ Len(trace) <= Len(meaning)
  /\ \A k \in DOMAIN trace :
       \/ trace[k].op = meaning[k].op /\ trace[k].n = meaning[k].n
       \/ trace[k].op = "delay" /\ meaning[k].op = "padding"

(* Files that mean something: loops are ended and repeated, variables are  *)
(* defined once and before they are used.                                  *)
Defined(lines, k) == {lines[j].name.text : j \in {i \in 1 .. k - 1 : lines[i].op = "="}}
Known(lines, k, word) == word.dec > 0 \/ word.whole \/ word.text \in Defined(lines, k)

Plain(lines) ==
  /\ Balanced(lines)
  /\ \A k \in DOMAIN lines :
       /\ lines[k].op = "=" => lines[k].name.text \notin Defined(lines, k)
       /\ lines[k].op \in {"loop", "delay", "status"} => Known(lines, k, lines[k].arg)
       /\ lines[k].op = "loop" => Count(lines[k].arg) >= 1

(* Mutually nested loops: none begins after another has ended. *)
Nested(lines) ==
  \A j, k \in DOMAIN lines : lines[j].op \in Ends /\ lines[k].op = "loop" => k < j

AllSynced(lines) == \A k \in DOMAIN lines : lines[k].op # "end"

-----------------------------------------------------------------------------

RunsInit == Init /\ board = Stopped

LoadOrSet == ~board.on /\ Next /\ UNCHANGED board

(* The sequencer that the daemon believes to be good is started.           *)
StartBoard ==
  /\ ~board.on /\ seq.seqGood /\ Plain(seq.seqContent)
  /\ board' = [board EXCEPT !.on = TRUE]
  /\ UNCHANGED vars

RunBoard ==
  /\ board.on /\ board' = BoardStep(board, seq.compSeq)
  /\ UNCHANGED vars

RunsNext == LoadOrSet \/ StartBoard \/ RunBoard

RunsSpec == RunsInit /\ [][RunsNext]_<<vars, board>>

Finished == board.on /\ seq.compSeq[board.pc + 1].op = "endSeq"

-----------------------------------------------------------------------------

(* When the daemon believes it has a good sequencer, what the board does   *)
(* with its code is what the file says, loop by loop, with the values the  *)
(* daemon reports of the variables: whatever loads and changes have been   *)
(* made and have failed before (sequencerHandler::compileSequencer).       *)
CompiledRunsSource ==
  board.on =>
    LET meaning == Meaning[seq.seqContent]
    IN Begins(board.trace, meaning) /\ (Finished => Len(board.trace) = Len(meaning))

(* Every iteration of a loop that ends with endsync takes a multiple of 20 *)
(* clocks, however its loops are nested and repeated                       *)
(* (sequencerHandler::endSyncFunc).  Excepted are files with a loop after  *)
(* the end of another: see SyncedSiblings.                                 *)
Synced == \A lap \in board.laps : lap % MULT_FOR_SYNC = 0

SyncedLoops ==
  (board.on /\ AllSynced(seq.seqContent) /\ Nested(seq.seqContent)) => Synced

(* "sum all the number of clocks in the sequencer nested in this loop"     *)
(* (sequencerHandler.cpp:744): so much is said of every loop.              *)
SyncedSiblings == board.on /\ AllSynced(seq.seqContent) => Synced
=============================================================================
