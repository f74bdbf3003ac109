---------------------------- MODULE ReadoutProofs ----------------------------
(***************************************************************************)
(* Proofs about Readout, for every number of packets, commands, failures   *)
(* and file sizes.  The inductive invariant IInv says, for each place the  *)
(* readout thread can be in, what the two shared flags, the open file and  *)
(* the main thread's position can be; the other properties are preserved   *)
(* once that is known, each with a strengthening of its own.               *)
(*                                                                         *)
(* FilesHoldSamples is about a sum over a sequence, which is a fold.  The  *)
(* fold's recursion has a solution (its closed form) and only one: a set   *)
(* of indices on which two differ would have a least one, and does not.    *)
(***************************************************************************)
EXTENDS Readout, SequenceFacts

(* What each step of the thread knows of the shared state. *)
ThreadInv ==
  /\ thr = "none" => readingFlag = 0 /\ readoutStatus \in {-1, 0}
  /\ thr = "open" => readingFlag = 1 /\ readoutStatus = 0
  /\ thr = "flush" => readingFlag = 1 /\ readoutStatus = 0
  /\ thr \in {"loop", "recv"} => readoutStatus \in 1 .. 3
  /\ thr = "leave" => readingFlag = 0 /\ readoutStatus \in 1 .. 3
  /\ thr = "exited" =>
       \/ readoutStatus = -1 /\ pc \in {"start_readout_thread", "join_failed"}
       \/ readoutStatus = 0 /\ pc = "join"
  /\ readoutStatus = -1 => thr \in {"none", "exited"} /\ openFailures > 0

(* What each step of the main thread knows of it. *)
MainInv ==
  /\ thr # "none" <=> Holding
  /\ thr \in {"open", "flush"} => pc = "start_readout_thread"
  /\ thr # "none" /\ pc \notin {"join", "join_failed"} => readingFlag = 1
  /\ pc \in {"join", "join_failed"} => readingFlag = 0
  /\ pc = "join" /\ thr = "none" => readoutStatus = -1
  /\ pc = "join_failed" => thr = "exited"
  /\ pc \in InReadout \cup {"bin_to_fits"} => cmd.kind # "readoff"
  /\ pc \in {"start_readout_thread", "join_failed"} => ~refused
  /\ refused => readoutStatus = -1

(* The stream is open only under a thread that has opened it. *)
FileInv ==
  /\ fileOpen => thr \in {"flush", "loop", "recv"} /\ fileLen # << >>
  /\ thr = "flush" => fileOpen

Control == ThreadInv /\ MainInv /\ FileInv /\ JoinedOnce

IInv == TypeOK /\ Control

(* The groups of variables are always expanded. *)
USE DEF dumpVars, flagVars, fileVars, sampVars, sockVars, commandVars, exposureVars, boardVars

-----------------------------------------------------------------------------
(* Type correctness, the Boolean variables and the others apart: no one of *)
(* the provers is good at both.                                            *)

Booleans ==
  /\ badJoin \in BOOLEAN /\ crashed \in BOOLEAN /\ fileOpen \in BOOLEAN
  /\ quiet \in BOOLEAN /\ gaveUp \in BOOLEAN /\ refused \in BOOLEAN
  /\ doneClearing \in BOOLEAN /\ doneExposing \in BOOLEAN /\ switchesOn \in BOOLEAN

Values ==
  /\ readingFlag \in {0, 1} /\ readoutStatus \in -1 .. 3 /\ thr \in ThreadSteps
  /\ openFailures \in 0 .. MaxOpenFailures /\ fileLen \in Seq(Nat)
  /\ sampsRead \in Nat /\ sampsExpected \in Int
  /\ stale \in Nat /\ fresh \in Nat /\ saved \in Nat
  /\ backlog \in Seq(Commands) /\ commands \in 0 .. MaxCommands
  /\ pc \in MainSteps /\ cmd \in Commands
  /\ clock \in 0 .. 3 /\ volt \in Nat /\ base \in Nat
  /\ boardLeft \in Nat /\ total \in Nat

LEMMA TypeParts == TypeOK <=> Booleans /\ Values
BY DEF TypeOK, DumpTypeOK, Booleans, Values

LEMMA InitBooleans == Init => Booleans
BY Zenon DEF Init, DumpInit, Booleans

LEMMA InitValues == Init => Values
<1> SUFFICES ASSUME Init PROVE Values
  OBVIOUS
<1>1. cmd \in Commands /\ pc \in MainSteps
  BY DEF Init, NoCommand, Commands, MainSteps
<1> QED
  BY <1>1, DumpAssumption, ReadoutAssumption DEF Init, DumpInit, Values, ThreadSteps

(* The count a command expects is a number. *)
LEMMA ExpectedIsInt == ASSUME NEW c \in Commands PROVE c.expected \in Int
<1>1. CASE c \in [kind: {"readoff", "startseq"}, expected: {-1}, exposure: {"none"},
                  midRead: BOOLEAN]
  <2>1. c.expected = -1
    BY <1>1
  <2> QED
    BY <2>1
<1>2. CASE c \notin [kind: {"readoff", "startseq"}, expected: {-1}, exposure: {"none"},
                     midRead: BOOLEAN]
  <2>1. c.expected \in Expected
    BY <1>2 DEF Commands
  <2> QED
    BY <2>1, ReadoutAssumption
<1> QED
  BY <1>1, <1>2

LEMMA BooleansStep == ASSUME Booleans, Next PROVE Booleans'
<1> USE DEF Booleans
<1>1. CASE Main
  <2>1. CASE CmdRead
    BY <2>1, Zenon DEF CmdRead, Accept, create_thread, is_readout_active
  <2>2. CASE ThreadReady
    BY <2>2, Zenon DEF ThreadReady
  <2>3. CASE ThreadFailed
    BY <2>3, Zenon DEF ThreadFailed
  <2>4. CASE JoinFailed
    BY <2>4, Zenon DEF JoinFailed, join_thread
  <2>5. CASE RunSeq
    BY <2>5, Zenon DEF RunSeq, StartSequencer
  <2>6. CASE CheckDone
    BY <2>6, Zenon DEF CheckDone, is_readout_done
  <2>7. CASE CheckStartup
    BY <2>7, Zenon DEF CheckStartup, is_readout_getting_data
  <2>8. CASE ExposureStart
    BY <2>8, Zenon DEF ExposureStart
  <2>9. CASE ExposureEnd
    BY <2>9, Zenon DEF ExposureEnd
  <2>10. CASE NextTurn
    BY <2>10, Zenon DEF NextTurn
  <2>11. CASE CleanupReadout
    BY <2>11, Zenon DEF CleanupReadout
  <2>12. CASE StopReadoutThread
    BY <2>12, Zenon DEF StopReadoutThread, AfterStop, is_readout_active
  <2>13. CASE JoinThread
    BY <2>13, Zenon DEF JoinThread, join_thread, AfterStop
  <2>14. CASE BinToFits
    BY <2>14, Zenon DEF BinToFits
  <2>15. CASE CmdStopReadout
    BY <2>15, Zenon DEF CmdStopReadout, Accept
  <2>16. CASE ResetBoard
    BY <2>16, Zenon DEF ResetBoard
  <2>17. CASE CmdStartSeq
    BY <2>17, Zenon DEF CmdStartSeq, Accept, StartSequencer
  <2> QED
    BY <1>1, <2>1, <2>2, <2>3, <2>4, <2>5, <2>6, <2>7, <2>8, <2>9, <2>10, <2>11, <2>12, <2>13, <2>14, <2>15, <2>16, <2>17 DEF Main
<1>2. CASE Thread
  <2> USE <1>2 DEF Thread
  <2>1. CASE OpenFirstFile
    BY <2>1, Zenon DEF OpenFirstFile
  <2>2. CASE Flush
    BY <2>2, Zenon DEF Flush
  <2>3. CASE LoopHead
    BY <2>3, Zenon DEF LoopHead, RollOver
  <2>4. CASE ReceivePacket
    BY <2>4, Zenon DEF ReceivePacket
  <2>5. CASE ReceiveTimeout
    BY <2>5, Zenon DEF ReceiveTimeout
  <2>6. CASE CloseLastFile
    BY <2>6, Zenon DEF CloseLastFile
  <2>7. CASE ThreadExit
    BY <2>7, Zenon DEF ThreadExit
  <2> QED
    BY <2>1, <2>2, <2>3, <2>4, <2>5, <2>6, <2>7 DEF saveData
<1>3. CASE ClockTick
  BY <1>3, Zenon DEF ClockTick
<1>4. CASE QuietTick /\ UNCHANGED <<commandVars, pc, exposureVars, boardVars>>
  BY <1>4, Zenon DEF QuietTick
<1>5. CASE BoardSends
  BY <1>5, Zenon DEF BoardSends
<1>6. CASE ClientSends
  BY <1>6, Zenon DEF ClientSends
<1> QED
  BY <1>1, <1>2, <1>3, <1>4, <1>5, <1>6 DEF Next, Timeouts

LEMMA ValuesStep == ASSUME Values, Next PROVE Values'
<1> USE DumpAssumption, ReadoutAssumption DEF Values, MainSteps, InReadout, InWaitLoop,
     ThreadSteps
<1>1. CASE Main
  <2>1. CASE CmdRead
    <3> USE <2>1 DEF CmdRead, Accept, create_thread, is_readout_active
    <3>1. fileLen' \in Seq(Nat)
      <4>1. fileLen' = << >> \/ fileLen' = fileLen
        OBVIOUS
      <4>2. << >> \in Seq(Nat) /\ fileLen \in Seq(Nat)
        OBVIOUS
      <4> QED
        BY <4>1, <4>2, Zenon
    <3>2. sampsExpected' \in Int
      <4> DEFINE c == Head(backlog)
      <4>1. c.expected \in Int
        BY ExpectedIsInt
      <4> HIDE DEF c
      <4>2. sampsExpected' \in {c.expected, sampsExpected}
        BY DEF c
      <4> QED
        BY <4>1, <4>2
    <3>3. /\ readingFlag' \in {readingFlag, 1} /\ readoutStatus' \in {readoutStatus, 0}
          /\ sampsRead' \in {sampsRead, 0}
      OBVIOUS
    <3>4. thr' \in ThreadSteps /\ pc' \in MainSteps
      OBVIOUS
    <3>5. backlog' \in Seq(Commands) /\ cmd' \in Commands
      OBVIOUS
    <3>6. UNCHANGED <<openFailures, sockVars, commands, clock, volt, base, boardVars>>
      OBVIOUS
    <3> QED
      BY <3>1, <3>2, <3>3, <3>4, <3>5, <3>6
  <2>2. CASE ThreadReady
    BY <2>2 DEF ThreadReady
  <2>3. CASE ThreadFailed
    BY <2>3 DEF ThreadFailed
  <2>4. CASE JoinFailed
    BY <2>4 DEF JoinFailed, join_thread
  <2>5. CASE RunSeq
    BY <2>5 DEF RunSeq, StartSequencer
  <2>6. CASE CheckDone
    BY <2>6 DEF CheckDone, is_readout_done
  <2>7. CASE CheckStartup
    BY <2>7 DEF CheckStartup, is_readout_getting_data
  <2>8. CASE ExposureStart
    BY <2>8 DEF ExposureStart
  <2>9. CASE ExposureEnd
    BY <2>9 DEF ExposureEnd
  <2>10. CASE NextTurn
    BY <2>10 DEF NextTurn
  <2>11. CASE CleanupReadout
    BY <2>11 DEF CleanupReadout
  <2>12. CASE StopReadoutThread
    BY <2>12 DEF StopReadoutThread, AfterStop, is_readout_active
  <2>13. CASE JoinThread
    BY <2>13 DEF JoinThread, join_thread, AfterStop
  <2>14. CASE BinToFits
    BY <2>14 DEF BinToFits
  <2>15. CASE CmdStopReadout
    BY <2>15 DEF CmdStopReadout, Accept
  <2>16. CASE ResetBoard
    BY <2>16 DEF ResetBoard
  <2>17. CASE CmdStartSeq
    BY <2>17 DEF CmdStartSeq, Accept, StartSequencer
  <2> QED
    BY <1>1, <2>1, <2>2, <2>3, <2>4, <2>5, <2>6, <2>7, <2>8, <2>9, <2>10, <2>11, <2>12, <2>13, <2>14, <2>15, <2>16, <2>17 DEF Main
<1>2. CASE Thread
  <2> USE <1>2 DEF Thread
  <2>1. CASE OpenFirstFile
    <3>1. fileLen' = Append(fileLen, 0) \/ fileLen' = fileLen
      BY <2>1 DEF OpenFirstFile
    <3>2. Append(fileLen, 0) \in Seq(Nat) /\ fileLen \in Seq(Nat)
      OBVIOUS
    <3>3. fileLen' \in Seq(Nat)
      BY <3>1, <3>2, Zenon
    <3> QED
      BY <2>1, <3>3 DEF OpenFirstFile
  <2>2. CASE Flush
    BY <2>2 DEF Flush
  <2>3. CASE LoopHead
    <3>1. fileLen' = Append(fileLen, 0) \/ fileLen' = fileLen
      BY <2>3 DEF LoopHead, RollOver
    <3>2. Append(fileLen, 0) \in Seq(Nat) /\ fileLen \in Seq(Nat)
      OBVIOUS
    <3>3. fileLen' \in Seq(Nat)
      BY <3>1, <3>2, Zenon
    <3> QED
      BY <2>3, <3>3 DEF LoopHead, RollOver
  <2>4. CASE ReceivePacket
    <3> USE <2>4 DEF ReceivePacket
    <3>1. CASE fileOpen
      BY <3>1
    <3>2. CASE ~fileOpen
      BY <3>2
    <3> QED
      BY <3>1, <3>2
  <2>5. CASE ReceiveTimeout
    BY <2>5 DEF ReceiveTimeout
  <2>6. CASE CloseLastFile
    BY <2>6 DEF CloseLastFile
  <2>7. CASE ThreadExit
    BY <2>7 DEF ThreadExit
  <2> QED
    BY <2>1, <2>2, <2>3, <2>4, <2>5, <2>6, <2>7 DEF saveData
<1>3. CASE ClockTick
  BY <1>3 DEF ClockTick
<1>4. CASE QuietTick /\ UNCHANGED <<commandVars, pc, exposureVars, boardVars>>
  BY <1>4 DEF QuietTick
<1>5. CASE BoardSends
  BY <1>5 DEF BoardSends
<1>6. CASE ClientSends
  BY <1>6 DEF ClientSends
<1> QED
  BY <1>1, <1>2, <1>3, <1>4, <1>5, <1>6 DEF Next, Timeouts

(* The types of all variables, in every reachable state. *)
THEOREM TypeCorrect == Spec => []TypeOK
<1>1. Init => TypeOK
  BY InitBooleans, InitValues, TypeParts
<1>2. TypeOK /\ [Next]_vars => TypeOK'
  <2> SUFFICES ASSUME Booleans, Values, [Next]_vars PROVE Booleans' /\ Values'
    BY TypeParts, PTL
  <2>1. CASE Next
    BY <2>1, BooleansStep, ValuesStep
  <2>2. CASE UNCHANGED vars
    BY <2>2 DEF vars, Booleans, Values
  <2> QED
    BY <2>1, <2>2
<1> QED
  BY <1>1, <1>2, PTL DEF Spec

-----------------------------------------------------------------------------
(* The control invariant.                                                  *)

LEMMA ControlStep == ASSUME TypeOK, Control, Next PROVE Control'
<1> USE DEF Control, ThreadInv, MainInv, FileInv, JoinedOnce, Holding, InWaitLoop,
     InReadout, TypeOK, DumpTypeOK
<1>1. CASE Main
  <2>1. CASE CmdRead
    BY <2>1 DEF CmdRead, Accept, create_thread, is_readout_active
  <2>2. CASE ThreadReady
    BY <2>2 DEF ThreadReady
  <2>3. CASE ThreadFailed
    BY <2>3 DEF ThreadFailed
  <2>4. CASE JoinFailed
    BY <2>4 DEF JoinFailed, join_thread
  <2>5. CASE RunSeq
    BY <2>5 DEF RunSeq, StartSequencer
  <2>6. CASE CheckDone
    BY <2>6 DEF CheckDone, is_readout_done
  <2>7. CASE CheckStartup
    BY <2>7 DEF CheckStartup, is_readout_getting_data
  <2>8. CASE ExposureStart
    BY <2>8 DEF ExposureStart
  <2>9. CASE ExposureEnd
    BY <2>9 DEF ExposureEnd
  <2>10. CASE NextTurn
    BY <2>10 DEF NextTurn
  <2>11. CASE CleanupReadout
    BY <2>11 DEF CleanupReadout
  <2>12. CASE StopReadoutThread
    BY <2>12 DEF StopReadoutThread, AfterStop, is_readout_active
  <2>13. CASE JoinThread
    BY <2>13 DEF JoinThread, join_thread, AfterStop
  <2>14. CASE BinToFits
    BY <2>14 DEF BinToFits
  <2>15. CASE CmdStopReadout
    BY <2>15 DEF CmdStopReadout, Accept
  <2>16. CASE ResetBoard
    BY <2>16 DEF ResetBoard
  <2>17. CASE CmdStartSeq
    BY <2>17 DEF CmdStartSeq, Accept, StartSequencer
  <2> QED
    BY <1>1, <2>1, <2>2, <2>3, <2>4, <2>5, <2>6, <2>7, <2>8, <2>9, <2>10, <2>11, <2>12, <2>13, <2>14, <2>15, <2>16, <2>17 DEF Main
<1>2. CASE Thread
  <2> USE <1>2 DEF Thread
  <2>1. CASE OpenFirstFile
    BY <2>1 DEF OpenFirstFile
  <2>2. CASE Flush
    BY <2>2 DEF Flush
  <2>3. CASE LoopHead
    BY <2>3 DEF LoopHead, RollOver
  <2>4. CASE ReceivePacket
    BY <2>4 DEF ReceivePacket
  <2>5. CASE ReceiveTimeout
    BY <2>5 DEF ReceiveTimeout
  <2>6. CASE CloseLastFile
    BY <2>6 DEF CloseLastFile
  <2>7. CASE ThreadExit
    BY <2>7 DEF ThreadExit
  <2> QED
    BY <2>1, <2>2, <2>3, <2>4, <2>5, <2>6, <2>7 DEF saveData
<1>3. CASE ClockTick
  BY <1>3 DEF ClockTick
<1>4. CASE QuietTick /\ UNCHANGED <<commandVars, pc, exposureVars, boardVars>>
  BY <1>4 DEF QuietTick
<1>5. CASE BoardSends
  BY <1>5 DEF BoardSends
<1>6. CASE ClientSends
  BY <1>6 DEF ClientSends
<1> QED
  BY <1>1, <1>2, <1>3, <1>4, <1>5, <1>6 DEF Next, Timeouts

(* IInv holds in every reachable state. *)
THEOREM Invariance == Spec => []IInv
<1>1. Init => Control
  BY DEF Init, DumpInit, Control, ThreadInv, MainInv, FileInv, JoinedOnce, Holding, InWaitLoop,
         InReadout
<1>2. TypeOK /\ Control /\ [Next]_vars => Control'
  <2>1. ASSUME TypeOK, Control, UNCHANGED vars PROVE Control'
    BY <2>1 DEF vars, Control, ThreadInv, MainInv, FileInv, JoinedOnce, Holding
  <2> QED
    BY <2>1, ControlStep
<1> QED
  BY <1>1, <1>2, TypeCorrect, PTL DEF Spec, IInv

(* Main holds a thread exactly while it runs the command that created it,  *)
(* the thread reports before that call returns, and it has closed its      *)
(* files before they are converted.                                        *)
THEOREM ThreadIsOwned == Spec => []ThreadOwned
<1>1. IInv => ThreadOwned
  BY DEF IInv, Control, TypeOK, ThreadInv, MainInv, FileInv, ThreadOwned, Holding, InWaitLoop
<1> QED
  BY <1>1, Invariance, PTL

(* A thread is joined once, unless a data file could not be opened. *)
THEOREM NoDoubleJoin == Spec => []JoinedOnce
<1>1. IInv => JoinedOnce
  BY DEF IInv, Control
<1> QED
  BY <1>1, Invariance, PTL

-----------------------------------------------------------------------------
(* No packet is dropped from the start of the sequencer on: NothingDropped *)
(* is preserved by every step once the flags are where IInv says.          *)

LEMMA NothingDroppedStep == ASSUME IInv, NothingDropped, Next PROVE NothingDropped'
<1> USE DEF IInv, Control, ThreadInv, MainInv, FileInv, JoinedOnce, Holding, InWaitLoop,
     InReadout, TypeOK, DumpTypeOK, NothingDropped
<1>1. CASE Main
  <2>1. CASE CmdRead
    BY <2>1 DEF CmdRead, Accept, create_thread, is_readout_active
  <2>2. CASE ThreadReady
    BY <2>2 DEF ThreadReady
  <2>3. CASE ThreadFailed
    BY <2>3 DEF ThreadFailed
  <2>4. CASE JoinFailed
    BY <2>4 DEF JoinFailed, join_thread
  <2>5. CASE RunSeq
    BY <2>5 DEF RunSeq, StartSequencer
  <2>6. CASE CheckDone
    BY <2>6 DEF CheckDone, is_readout_done
  <2>7. CASE CheckStartup
    BY <2>7 DEF CheckStartup, is_readout_getting_data
  <2>8. CASE ExposureStart
    BY <2>8 DEF ExposureStart
  <2>9. CASE ExposureEnd
    BY <2>9 DEF ExposureEnd
  <2>10. CASE NextTurn
    BY <2>10 DEF NextTurn
  <2>11. CASE CleanupReadout
    BY <2>11 DEF CleanupReadout
  <2>12. CASE StopReadoutThread
    BY <2>12 DEF StopReadoutThread, AfterStop, is_readout_active
  <2>13. CASE JoinThread
    BY <2>13 DEF JoinThread, join_thread, AfterStop
  <2>14. CASE BinToFits
    BY <2>14 DEF BinToFits
  <2>15. CASE CmdStopReadout
    BY <2>15 DEF CmdStopReadout, Accept
  <2>16. CASE ResetBoard
    BY <2>16 DEF ResetBoard
  <2>17. CASE CmdStartSeq
    BY <2>17 DEF CmdStartSeq, Accept, StartSequencer
  <2> QED
    BY <1>1, <2>1, <2>2, <2>3, <2>4, <2>5, <2>6, <2>7, <2>8, <2>9, <2>10, <2>11, <2>12, <2>13, <2>14, <2>15, <2>16, <2>17 DEF Main
<1>2. CASE Thread
  <2> USE <1>2 DEF Thread
  <2>1. CASE OpenFirstFile
    BY <2>1 DEF OpenFirstFile
  <2>2. CASE Flush
    BY <2>2 DEF Flush
  <2>3. CASE LoopHead
    BY <2>3 DEF LoopHead, RollOver
  <2>4. CASE ReceivePacket
    <3>1. saved' + fresh' = saved + fresh
      BY <2>4 DEF ReceivePacket
    <3>2. UNCHANGED <<pc, cmd, boardLeft, total>>
      BY <2>4 DEF ReceivePacket
    <3> QED
      BY <3>1, <3>2
  <2>5. CASE ReceiveTimeout
    BY <2>5 DEF ReceiveTimeout
  <2>6. CASE CloseLastFile
    BY <2>6 DEF CloseLastFile
  <2>7. CASE ThreadExit
    BY <2>7 DEF ThreadExit
  <2> QED
    BY <2>1, <2>2, <2>3, <2>4, <2>5, <2>6, <2>7 DEF saveData
<1>3. CASE ClockTick
  BY <1>3 DEF ClockTick
<1>4. CASE QuietTick /\ UNCHANGED <<commandVars, pc, exposureVars, boardVars>>
  BY <1>4 DEF QuietTick
<1>5. CASE BoardSends
  BY <1>5 DEF BoardSends
<1>6. CASE ClientSends
  BY <1>6 DEF ClientSends
<1> QED
  BY <1>1, <1>2, <1>3, <1>4, <1>5, <1>6 DEF Next, Timeouts

(* The daemon drops no packet of the sequencer run it reads out. *)
THEOREM NoPacketDropped == Spec => []NothingDropped
<1>1. Init => NothingDropped
  BY DEF Init, DumpInit, NothingDropped, InWaitLoop
<1>2. IInv /\ NothingDropped /\ [Next]_vars => NothingDropped'
  <2>1. ASSUME IInv, NothingDropped, UNCHANGED vars PROVE NothingDropped'
    BY <2>1 DEF vars, NothingDropped, InWaitLoop
  <2> QED
    BY <2>1, NothingDroppedStep
<1> QED
  BY <1>1, <1>2, Invariance, PTL DEF Spec

-----------------------------------------------------------------------------
(* No readout ends early.                                                  *)

(* The count that was asked for has been reached. *)
Complete == sampsExpected \in Nat /\ sampsRead >= sampsExpected

(* Complete when the thread says so, and from there to the conversion; a   *)
(* readout whose first file could not be opened has no file.               *)
EndInv ==
  /\ readoutStatus = 3 /\ ~gaveUp => Complete
  /\ pc \in {"cleanup_readout", "stop_readout_thread", "join", "bin_to_fits"}
       /\ cmd.kind # "readoff" /\ fileLen # << >> /\ ~gaveUp => Complete
  /\ thr = "open" \/ pc = "join_failed" \/ (thr = "exited" /\ readoutStatus = -1)
       => fileLen = << >>

LEMMA EndInvStep == ASSUME IInv, EndInv, Next PROVE EndInv'
<1> USE DEF IInv, Control, ThreadInv, MainInv, FileInv, JoinedOnce, Holding, InWaitLoop,
     InReadout, TypeOK, DumpTypeOK, EndInv, Complete
<1>1. CASE Main
  <2>1. CASE CmdRead
    <3> USE <2>1 DEF CmdRead, Accept, is_readout_active
    <3>1. CASE is_readout_active
      <4>1. thr = "none" /\ readoutStatus = -1 /\ readingFlag = 0
        BY <3>1
      <4> QED
        BY <3>1, <4>1
    <3>2. CASE ~is_readout_active
      BY <3>2 DEF create_thread
    <3> QED
      BY <3>1, <3>2
  <2>2. CASE ThreadReady
    BY <2>2 DEF ThreadReady
  <2>3. CASE ThreadFailed
    BY <2>3 DEF ThreadFailed
  <2>4. CASE JoinFailed
    BY <2>4 DEF JoinFailed, join_thread
  <2>5. CASE RunSeq
    BY <2>5 DEF RunSeq, StartSequencer
  <2>6. CASE CheckDone
    BY <2>6 DEF CheckDone, is_readout_done
  <2>7. CASE CheckStartup
    BY <2>7 DEF CheckStartup, is_readout_getting_data
  <2>8. CASE ExposureStart
    BY <2>8 DEF ExposureStart
  <2>9. CASE ExposureEnd
    BY <2>9 DEF ExposureEnd
  <2>10. CASE NextTurn
    BY <2>10 DEF NextTurn
  <2>11. CASE CleanupReadout
    BY <2>11 DEF CleanupReadout
  <2>12. CASE StopReadoutThread
    BY <2>12 DEF StopReadoutThread, AfterStop, is_readout_active
  <2>13. CASE JoinThread
    BY <2>13 DEF JoinThread, join_thread, AfterStop
  <2>14. CASE BinToFits
    BY <2>14 DEF BinToFits
  <2>15. CASE CmdStopReadout
    BY <2>15 DEF CmdStopReadout, Accept
  <2>16. CASE ResetBoard
    BY <2>16 DEF ResetBoard
  <2>17. CASE CmdStartSeq
    BY <2>17 DEF CmdStartSeq, Accept, StartSequencer
  <2> QED
    BY <1>1, <2>1, <2>2, <2>3, <2>4, <2>5, <2>6, <2>7, <2>8, <2>9, <2>10, <2>11, <2>12, <2>13, <2>14, <2>15, <2>16, <2>17 DEF Main
<1>2. CASE Thread
  <2> USE <1>2 DEF Thread
  <2>1. CASE OpenFirstFile
    BY <2>1 DEF OpenFirstFile
  <2>2. CASE Flush
    BY <2>2 DEF Flush
  <2>3. CASE LoopHead
    BY <2>3 DEF LoopHead, RollOver
  <2>4. CASE ReceivePacket
    <3>1. fileLen' # << >> => fileLen # << >>
      BY <2>4 DEF ReceivePacket
    <3>2. Complete => Complete'
      BY <2>4 DEF ReceivePacket
    <3>3. /\ thr = "recv" /\ readoutStatus' = 2
          /\ UNCHANGED <<pc, cmd, gaveUp>>
          /\ thr' \in {"loop", "recv"}
      BY <2>4 DEF ReceivePacket
    <3>4. pc # "join_failed"
      BY <3>3
    <3> QED
      BY <3>1, <3>2, <3>3, <3>4
  <2>5. CASE ReceiveTimeout
    BY <2>5 DEF ReceiveTimeout
  <2>6. CASE CloseLastFile
    BY <2>6 DEF CloseLastFile
  <2>7. CASE ThreadExit
    BY <2>7 DEF ThreadExit
  <2> QED
    BY <2>1, <2>2, <2>3, <2>4, <2>5, <2>6, <2>7 DEF saveData
<1>3. CASE ClockTick
  BY <1>3 DEF ClockTick
<1>4. CASE QuietTick /\ UNCHANGED <<commandVars, pc, exposureVars, boardVars>>
  BY <1>4 DEF QuietTick
<1>5. CASE BoardSends
  BY <1>5 DEF BoardSends
<1>6. CASE ClientSends
  BY <1>6 DEF ClientSends
<1> QED
  BY <1>1, <1>2, <1>3, <1>4, <1>5, <1>6 DEF Next, Timeouts

(* Without a timeout, a readout has all the samples it was asked for. *)
THEOREM NoReadoutEndsEarly == Spec => []NoEarlyEnd
<1>1. Init => EndInv
  BY DEF Init, DumpInit, EndInv, Complete
<1>2. IInv /\ EndInv /\ [Next]_vars => EndInv'
  <2>1. ASSUME IInv, EndInv, UNCHANGED vars PROVE EndInv'
    BY <2>1 DEF vars, EndInv, Complete
  <2> QED
    BY <2>1, EndInvStep
<1>3. IInv /\ EndInv => NoEarlyEnd
  BY DEF EndInv, Complete, NoEarlyEnd, IInv, Control, MainInv
<1> QED
  BY <1>1, <1>2, <1>3, Invariance, PTL DEF Spec

-----------------------------------------------------------------------------
(* Exposures are undone.                                                   *)

(* The order of the loop's two exposure steps: the voltages are shifted    *)
(* before they are restored, once, and a turn that finds the exposure over *)
(* does not sleep before restoring them.                                   *)
ExposureInv ==
  /\ doneExposing => switchesOn /\ volt = base
  /\ pc \in InWaitLoop =>
       /\ cmd.exposure # "long" => ~doneClearing
       /\ ~doneClearing => volt = base
       /\ doneExposing /\ cmd.exposure = "long" => doneClearing
       /\ pc = "exposure_end" /\ cmd.exposure = "long" /\ clock >= 1 => doneClearing
  /\ cmd.exposure # "none" =>
       /\ pc = "usleep" /\ clock >= 2 => doneExposing
       /\ pc \in {"wait", "startup_timeout", "exposure_start", "cleanup_readout"} /\ clock = 3
            => doneExposing

(* Only read has an exposure. *)
LEMMA OnlyReadExposes ==
  ASSUME NEW c \in Commands, c.kind # "read" PROVE c.exposure = "none"
BY DEF Commands

LEMMA ExposureInvStep == ASSUME IInv, ExposureInv, Next PROVE ExposureInv'
<1>0. cmd.kind # "read" => cmd.exposure = "none"
  BY OnlyReadExposes DEF IInv, TypeOK
<1> USE DEF IInv, Control, ThreadInv, MainInv, FileInv, JoinedOnce, Holding, InWaitLoop,
     InReadout, TypeOK, DumpTypeOK, ExposureInv
<1>1. CASE Main
  <2>1. CASE CmdRead
    BY <2>1 DEF CmdRead, Accept, create_thread, is_readout_active
  <2>2. CASE ThreadReady
    BY <2>2 DEF ThreadReady
  <2>3. CASE ThreadFailed
    BY <2>3 DEF ThreadFailed
  <2>4. CASE JoinFailed
    BY <2>4 DEF JoinFailed, join_thread
  <2>5. CASE RunSeq
    BY <2>5 DEF RunSeq, StartSequencer
  <2>6. CASE CheckDone
    BY <2>6 DEF CheckDone, is_readout_done
  <2>7. CASE CheckStartup
    BY <2>7, <1>0 DEF CheckStartup, is_readout_getting_data
  <2>8. CASE ExposureStart
    BY <2>8 DEF ExposureStart
  <2>9. CASE ExposureEnd
    BY <2>9 DEF ExposureEnd
  <2>10. CASE NextTurn
    BY <2>10 DEF NextTurn
  <2>11. CASE CleanupReadout
    BY <2>11 DEF CleanupReadout
  <2>12. CASE StopReadoutThread
    BY <2>12 DEF StopReadoutThread, AfterStop, is_readout_active
  <2>13. CASE JoinThread
    BY <2>13 DEF JoinThread, join_thread, AfterStop
  <2>14. CASE BinToFits
    BY <2>14 DEF BinToFits
  <2>15. CASE CmdStopReadout
    BY <2>15 DEF CmdStopReadout, Accept
  <2>16. CASE ResetBoard
    BY <2>16 DEF ResetBoard
  <2>17. CASE CmdStartSeq
    BY <2>17 DEF CmdStartSeq, Accept, StartSequencer
  <2> QED
    BY <1>1, <2>1, <2>2, <2>3, <2>4, <2>5, <2>6, <2>7, <2>8, <2>9, <2>10, <2>11, <2>12, <2>13, <2>14, <2>15, <2>16, <2>17 DEF Main
<1>2. CASE Thread
  <2> USE <1>2 DEF Thread
  <2>1. CASE OpenFirstFile
    BY <2>1 DEF OpenFirstFile
  <2>2. CASE Flush
    BY <2>2 DEF Flush
  <2>3. CASE LoopHead
    BY <2>3 DEF LoopHead, RollOver
  <2>4. CASE ReceivePacket
    BY <2>4 DEF ReceivePacket
  <2>5. CASE ReceiveTimeout
    BY <2>5 DEF ReceiveTimeout
  <2>6. CASE CloseLastFile
    BY <2>6 DEF CloseLastFile
  <2>7. CASE ThreadExit
    BY <2>7 DEF ThreadExit
  <2> QED
    BY <2>1, <2>2, <2>3, <2>4, <2>5, <2>6, <2>7 DEF saveData
<1>3. CASE ClockTick
  BY <1>3 DEF ClockTick
<1>4. CASE QuietTick /\ UNCHANGED <<commandVars, pc, exposureVars, boardVars>>
  BY <1>4 DEF QuietTick
<1>5. CASE BoardSends
  BY <1>5 DEF BoardSends
<1>6. CASE ClientSends
  BY <1>6 DEF ClientSends
<1> QED
  BY <1>1, <1>2, <1>3, <1>4, <1>5, <1>6 DEF Next, Timeouts

(* Whatever exposure a readout ends, it undoes. *)
THEOREM ExposureIsUndone == Spec => []ExposureUndone
<1>1. Init => ExposureInv
  BY DEF Init, DumpInit, ExposureInv, InWaitLoop
<1>2. IInv /\ ExposureInv /\ [Next]_vars => ExposureInv'
  <2>1. ASSUME IInv, ExposureInv, UNCHANGED vars PROVE ExposureInv'
    BY <2>1 DEF vars, ExposureInv, InWaitLoop
  <2> QED
    BY <2>1, ExposureInvStep
<1>3. IInv /\ ExposureInv => ExposureUndone
  BY DEF ExposureInv, ExposureUndone, IInv, TypeOK
<1> QED
  BY <1>1, <1>2, <1>3, Invariance, PTL DEF Spec

-----------------------------------------------------------------------------
(* The daemon implements Recording.                                        *)

LEMMA RecordingStep == ASSUME IInv, Next PROVE [Rec!RecNext]_(Rec!recVars)
<1> USE DEF IInv, Control, ThreadInv, MainInv, FileInv, JoinedOnce, Holding, InWaitLoop,
     InReadout, TypeOK, DumpTypeOK, Rec!RecNext, Rec!Begin, Rec!Refuse, Rec!Record,
     Rec!Seal, Rec!Convert, Rec!recVars, phaseMap
<1>1. CASE Main
  <2>1. CASE CmdRead
    BY <2>1 DEF CmdRead, Accept, create_thread, is_readout_active
  <2>2. CASE ThreadReady
    BY <2>2 DEF ThreadReady
  <2>3. CASE ThreadFailed
    BY <2>3 DEF ThreadFailed
  <2>4. CASE JoinFailed
    BY <2>4 DEF JoinFailed, join_thread
  <2>5. CASE RunSeq
    BY <2>5 DEF RunSeq, StartSequencer
  <2>6. CASE CheckDone
    BY <2>6 DEF CheckDone, is_readout_done
  <2>7. CASE CheckStartup
    BY <2>7 DEF CheckStartup, is_readout_getting_data
  <2>8. CASE ExposureStart
    BY <2>8 DEF ExposureStart
  <2>9. CASE ExposureEnd
    BY <2>9 DEF ExposureEnd
  <2>10. CASE NextTurn
    BY <2>10 DEF NextTurn
  <2>11. CASE CleanupReadout
    BY <2>11 DEF CleanupReadout
  <2>12. CASE StopReadoutThread
    BY <2>12 DEF StopReadoutThread, AfterStop, is_readout_active
  <2>13. CASE JoinThread
    BY <2>13 DEF JoinThread, join_thread, AfterStop
  <2>14. CASE BinToFits
    BY <2>14 DEF BinToFits
  <2>15. CASE CmdStopReadout
    BY <2>15 DEF CmdStopReadout, Accept
  <2>16. CASE ResetBoard
    BY <2>16 DEF ResetBoard
  <2>17. CASE CmdStartSeq
    BY <2>17 DEF CmdStartSeq, Accept, StartSequencer
  <2> QED
    BY <1>1, <2>1, <2>2, <2>3, <2>4, <2>5, <2>6, <2>7, <2>8, <2>9, <2>10, <2>11, <2>12, <2>13, <2>14, <2>15, <2>16, <2>17 DEF Main
<1>2. CASE Thread
  <2> USE <1>2 DEF Thread
  <2>1. CASE OpenFirstFile
    BY <2>1 DEF OpenFirstFile
  <2>2. CASE Flush
    BY <2>2 DEF Flush
  <2>3. CASE LoopHead
    BY <2>3 DEF LoopHead, RollOver
  <2>4. CASE ReceivePacket
    BY <2>4 DEF ReceivePacket
  <2>5. CASE ReceiveTimeout
    BY <2>5 DEF ReceiveTimeout
  <2>6. CASE CloseLastFile
    BY <2>6 DEF CloseLastFile
  <2>7. CASE ThreadExit
    BY <2>7 DEF ThreadExit
  <2> QED
    BY <2>1, <2>2, <2>3, <2>4, <2>5, <2>6, <2>7 DEF saveData
<1>3. CASE ClockTick
  BY <1>3 DEF ClockTick
<1>4. CASE QuietTick /\ UNCHANGED <<commandVars, pc, exposureVars, boardVars>>
  BY <1>4 DEF QuietTick
<1>5. CASE BoardSends
  BY <1>5 DEF BoardSends
<1>6. CASE ClientSends
  BY <1>6 DEF ClientSends
<1> QED
  BY <1>1, <1>2, <1>3, <1>4, <1>5, <1>6 DEF Next, Timeouts

(* One recording at a time, sealed before it is converted. *)
THEOREM ImplementsRecording == Spec => OneRecordingAtATime
<1>1. Init => Rec!RecInit
  BY DEF Init, DumpInit, Rec!RecInit, phaseMap
<1>2. IInv /\ [Next]_vars => [Rec!RecNext]_(Rec!recVars)
  <2>1. ASSUME UNCHANGED vars PROVE UNCHANGED Rec!recVars
    BY <2>1 DEF vars, Rec!recVars, phaseMap
  <2> QED
    BY <2>1, RecordingStep
<1> QED
  BY <1>1, <1>2, Invariance, PTL DEF Spec, OneRecordingAtATime, Rec!RecSpec

-----------------------------------------------------------------------------
(* The sum of files that are full but the last one.                        *)

SumOf(s) == FoldLeft(LAMBDA a, b : a + b, 0, s)

LEMMA SumIsRecursive ==
  ASSUME NEW s
  PROVE  SumOf(s) =
           (CHOOSE g : g = [t \in SUBSET DOMAIN s |->
                              IF t = {} THEN 0 ELSE g[t \ {Max(t)}] + s[Max(t)]])[DOMAIN s]
BY Zenon DEF SumOf, FoldLeft, MapThenFoldSet

(* A function on the sets of indices that satisfies the recursion of the   *)
(* sum is its only solution.                                               *)
Recursion(s, g) ==
  g = [t \in SUBSET DOMAIN s |-> IF t = {} THEN 0 ELSE g[t \ {Max(t)}] + s[Max(t)]]

LEMMA OneSolution ==
  ASSUME NEW S, NEW s \in Seq(S), NEW g, NEW h, Recursion(s, g), Recursion(s, h)
  PROVE  g[DOMAIN s] = h[DOMAIN s]
<1> DEFINE D == DOMAIN s
           T == {t \in SUBSET D : g[t] # h[t]}
<1>0. Len(s) \in Nat /\ D = 1 .. Len(s)
  BY LenProperties
<1>1. \A t \in SUBSET D : /\ g[t] = IF t = {} THEN 0 ELSE g[t \ {Max(t)}] + s[Max(t)]
                          /\ h[t] = IF t = {} THEN 0 ELSE h[t \ {Max(t)}] + s[Max(t)]
  <2>1. \A t \in SUBSET D : g[t] = IF t = {} THEN 0 ELSE g[t \ {Max(t)}] + s[Max(t)]
    BY Zenon DEF Recursion
  <2>2. \A t \in SUBSET D : h[t] = IF t = {} THEN 0 ELSE h[t \ {Max(t)}] + s[Max(t)]
    BY Zenon DEF Recursion
  <2> QED
    BY <2>1, <2>2
<1>2. IsWellFoundedOn(StrictSubsetOrdering(D), SUBSET D)
  <2>1. IsFiniteSet(D)
    BY <1>0, FS_Interval
  <2> QED
    BY <2>1, FS_StrictSubsetOrderingWellFounded, FS_FiniteSubsetsOfFinite
<1>3. SUFFICES ASSUME T # {} PROVE FALSE
  OBVIOUS
<1>4. PICK t \in T : \A u \in T : <<u, t>> \notin StrictSubsetOrdering(D)
  <2>1. T \subseteq SUBSET D
    OBVIOUS
  <2> HIDE DEF T
  <2> QED
    BY <1>2, <1>3, <2>1, WFMin
<1>5. t \in SUBSET D /\ g[t] # h[t]
  OBVIOUS
<1>6. t # {}
  BY <1>1, <1>5
<1>7. Max(t) \in t
  BY <1>0, <1>5, <1>6, GreatestIndex
<1>8. t \ {Max(t)} \in SUBSET D /\ <<t \ {Max(t)}, t>> \in StrictSubsetOrdering(D)
  BY <1>5, <1>7 DEF StrictSubsetOrdering
<1>9. g[t \ {Max(t)}] = h[t \ {Max(t)}]
  BY <1>4, <1>8
<1> QED
  BY <1>1, <1>5, <1>6, <1>9

Full(s) == s \in Seq(Nat) /\ \A i \in 1 .. Len(s) : i < Len(s) => s[i] = MaxFile

LEMMA OneFileMore ==
  ASSUME NEW k \in Int
  PROVE  MaxFile * k \in Int /\ MaxFile * (k - 1) \in Int /\ MaxFile * (k - 1) + MaxFile = MaxFile * k
BY DumpAssumption

LEMMA SumOfFull ==
  ASSUME NEW s, Full(s)
  PROVE  SumOf(s) = IF s = << >> THEN 0 ELSE MaxFile * (Len(s) - 1) + s[Len(s)]
<1> DEFINE n == Len(s)
           D == DOMAIN s
           last(t) == IF n \in t THEN s[n] ELSE 0
           E == [t \in SUBSET D |-> MaxFile * Cardinality(t \ {n}) + last(t)]
<1>0. s \in Seq(Nat) /\ n \in Nat /\ D = 1 .. n /\ MaxFile \in Nat
  BY DumpAssumption, LenProperties DEF Full
<1>1. \A t \in SUBSET D : IsFiniteSet(t) /\ IsFiniteSet(t \ {n}) /\ Cardinality(t \ {n}) \in Nat
  <2>1. IsFiniteSet(D)
    BY <1>0, FS_Interval
  <2> QED
    BY <2>1, FS_Subset, FS_RemoveElement, FS_CardinalityType
<1>2. ASSUME NEW t \in SUBSET D
      PROVE  E[t] = IF t = {} THEN 0 ELSE E[t \ {Max(t)}] + s[Max(t)]
  <2>0. E[t] = MaxFile * Cardinality(t \ {n}) + last(t)
    OBVIOUS
  <2>1. CASE t = {}
    <3>1. t \ {n} = {} /\ Cardinality(t \ {n}) = 0 /\ last(t) = 0
      BY <2>1, FS_EmptySet
    <3> QED
      BY <1>0, <2>0, <2>1, <3>1
  <2>2. CASE t # {}
    <3> DEFINE x == Max(t)
               u == t \ {x}
    <3>1. x \in t
      BY <1>0, <2>2, GreatestIndex
    <3> HIDE DEF x
    <3>2. u \in SUBSET D /\ E[u] = MaxFile * Cardinality(u \ {n}) + last(u)
      OBVIOUS
    <3>3. x \in 1 .. n /\ s[x] \in Nat
      BY <1>0, <3>1
    <3>4. Cardinality(t \ {n}) \in Nat /\ IsFiniteSet(t \ {n}) /\ last(t) \in Nat
      BY <1>0, <1>1
    <3>5. CASE x = n
      <4>1. u \ {n} = t \ {n} /\ last(u) = 0 /\ last(t) = s[x]
        BY <3>1, <3>5
      <4> DEFINE c == Cardinality(t \ {n})
      <4>2. E[u] = MaxFile * c + 0 /\ E[t] = MaxFile * c + s[x]
        BY <2>0, <3>2, <4>1
      <4>3. MaxFile * c \in Int
        BY <3>4, OneFileMore
      <4> HIDE DEF c, u, E
      <4>4. E[t] = E[u] + s[x]
        BY <3>3, <4>2, <4>3
      <4> QED
        BY <2>2, <4>4 DEF u, x
    <3>6. CASE x # n
      <4>1. u \ {n} = (t \ {n}) \ {x} /\ x \in t \ {n} /\ last(u) = last(t)
        BY <3>1, <3>6
      <4>2. Cardinality((t \ {n}) \ {x}) = Cardinality(t \ {n}) - 1
        BY <3>4, <4>1, FS_RemoveElement, Zenon
      <4>3. s[x] = MaxFile
        <5>1. x < n
          <6>1. n \in Nat /\ x \in 1 .. n /\ x # n
            BY <1>0, <3>3, <3>6
          <6> HIDE DEF n
          <6> QED
            BY <6>1
        <5>2. x \in 1 .. Len(s)
          BY <3>3
        <5> QED
          BY <5>1, <5>2 DEF Full
      <4> DEFINE c == Cardinality(t \ {n})
                 l == last(t)
      <4>4. E[u] = MaxFile * (c - 1) + l /\ E[t] = MaxFile * c + l
        BY <2>0, <3>2, <4>1, <4>2
      <4>5. c \in Nat /\ l \in Nat
        BY <3>4
      <4> HIDE DEF c, l, u, E
      <4>6. MaxFile * c \in Int /\ MaxFile * (c - 1) \in Int /\ MaxFile * (c - 1) + MaxFile = MaxFile * c
        BY <4>5, OneFileMore
      <4>7. E[t] = E[u] + s[x]
        BY <1>0, <4>3, <4>4, <4>5, <4>6
      <4> QED
        BY <2>2, <4>7 DEF u, x
    <3> QED
      BY <3>5, <3>6
  <2> QED
    BY <2>1, <2>2
<1>3. Recursion(s, E)
  <2>1. E = [t \in SUBSET D |-> E[t]]
    OBVIOUS
  <2> HIDE DEF E
  <2> QED
    BY <1>2, <2>1 DEF Recursion
<1>4. SumOf(s) = E[D]
  <2> DEFINE g == CHOOSE f : Recursion(s, f)
  <2>1. SumOf(s) = g[D]
    BY SumIsRecursive, Zenon DEF Recursion
  <2>2. Recursion(s, g)
    BY <1>3, Zenon
  <2> HIDE DEF E, g
  <2> QED
    BY <1>0, <1>3, <2>1, <2>2, OneSolution, Zenon
<1>5. CASE s = << >>
  <2>1. D = {}
    BY <1>0, <1>5
  <2>2. E[D] = 0
    BY <1>2, <2>1
  <2> QED
    BY <1>4, <1>5, <2>2
<1>6. CASE s # << >>
  <2>1. n \in D /\ D \ {n} = 1 .. n - 1 /\ n >= 1
    BY <1>0, <1>6, EmptySeq
  <2>2. Cardinality(D \ {n}) = n - 1
    <3> HIDE DEF n, D
    <3>1. Cardinality(1 .. n - 1) = IF 1 > n - 1 THEN 0 ELSE n - 1 - 1 + 1
      <4>1. n - 1 \in Int /\ 1 \in Int
        BY <1>0
      <4> QED
        BY <4>1, FS_Interval
    <3>2. Cardinality(1 .. n - 1) = n - 1
      <4>1. IF 1 > n - 1 THEN 0 = n - 1 ELSE n - 1 - 1 + 1 = n - 1
        BY <1>0, <2>1
      <4> QED
        BY <3>1, <4>1
    <3> QED
      BY <2>1, <3>2
  <2>3. E[D] = MaxFile * (n - 1) + s[n]
    BY <2>1, <2>2
  <2> QED
    BY <1>4, <1>6, <2>3
<1> QED
  BY <1>5, <1>6

-----------------------------------------------------------------------------
(* The files of a readout.                                                 *)

(* What files that are full but the last one hold. *)
Held(s) == IF s = << >> THEN 0 ELSE MaxFile * (Len(s) - 1) + s[Len(s)]

(* The first file is opened once; a packet is written to a file with room. *)
FilesInv ==
  /\ Full(fileLen)
  /\ \A i \in 1 .. Len(fileLen) : fileLen[i] <= MaxFile
  /\ thr = "open" => fileLen = << >>
  /\ thr = "recv" /\ fileOpen => fileLen[Len(fileLen)] < MaxFile
  /\ sampsRead = Held(fileLen)

(* The other steps write no file and open none. *)
WritesNothing ==
  /\ UNCHANGED <<fileLen, sampsRead>>
  /\ thr' \in {"open", "recv"} => thr' = thr
  /\ fileOpen' => fileOpen

LEMMA OtherSteps ==
  ASSUME Next, ~CmdRead, ~OpenFirstFile, ~LoopHead, ~ReceivePacket PROVE WritesNothing
<1> USE DEF WritesNothing
<1>1. CASE Main
  <2>1. CASE ThreadReady \/ ThreadFailed \/ RunSeq \/ CheckDone \/ CheckStartup
    BY <2>1 DEF ThreadReady, ThreadFailed, RunSeq, CheckDone, CheckStartup, StartSequencer
  <2>2. CASE ExposureStart \/ ExposureEnd \/ NextTurn \/ CleanupReadout \/ StopReadoutThread
    BY <2>2 DEF ExposureStart, ExposureEnd, NextTurn, CleanupReadout, StopReadoutThread
  <2>3. CASE JoinFailed \/ JoinThread
    BY <2>3 DEF JoinFailed, JoinThread, join_thread
  <2>4. CASE BinToFits \/ CmdStopReadout \/ ResetBoard \/ CmdStartSeq
    BY <2>4 DEF BinToFits, CmdStopReadout, ResetBoard, CmdStartSeq
  <2> QED
    BY <1>1, <2>1, <2>2, <2>3, <2>4 DEF Main
<1>2. CASE Thread
  <2>1. Flush \/ ReceiveTimeout \/ CloseLastFile \/ ThreadExit
    BY <1>2 DEF Thread, saveData
  <2>2. CASE Flush \/ ReceiveTimeout
    BY <2>2 DEF Flush, ReceiveTimeout
  <2>3. CASE CloseLastFile \/ ThreadExit
    BY <2>3 DEF CloseLastFile, ThreadExit
  <2> QED
    BY <2>1, <2>2, <2>3
<1>3. CASE Timeouts
  BY <1>3 DEF Timeouts, ClockTick, QuietTick
<1>4. CASE BoardSends \/ ClientSends
  BY <1>4 DEF BoardSends, ClientSends
<1> QED
  BY <1>1, <1>2, <1>3, <1>4 DEF Next

LEMMA FilesInvStep == ASSUME IInv, FilesInv, [Next]_vars PROVE FilesInv'
<1> DEFINE n == Len(fileLen)
<1>a. /\ fileLen \in Seq(Nat) /\ n \in Nat /\ MaxFile \in Nat \ {0} /\ sampsRead \in Nat
      /\ fileLen # << >> => n >= 1 /\ fileLen[n] \in Nat
  BY DumpAssumption, EmptySeq, LenProperties DEF IInv, TypeOK, DumpTypeOK
<1>1. CASE UNCHANGED vars \/ WritesNothing
  <2>1. WritesNothing
    BY <1>1 DEF vars, WritesNothing
  <2> QED
    BY <2>1 DEF WritesNothing, FilesInv, Full, Held
<1>2. CASE CmdRead
  <2>1. CASE UNCHANGED dumpVars
    BY <2>1 DEF FilesInv, Full, Held
  <2>2. CASE ~UNCHANGED dumpVars
    <3>1. fileLen' = << >> /\ sampsRead' = 0 /\ thr' = "open"
      BY <1>2, <2>2 DEF CmdRead, create_thread
    <3>2. << >> \in Seq(Nat) /\ Len(<< >>) = 0
      BY EmptySeq
    <3> QED
      BY <3>1, <3>2 DEF FilesInv, Full, Held
  <2> QED
    BY <2>1, <2>2
<1>3. CASE OpenFirstFile
  <2>1. fileLen = << >> /\ sampsRead = 0
    BY <1>3 DEF OpenFirstFile, FilesInv, Held
  <2>2. CASE fileLen' = Append(fileLen, 0) /\ thr' = "flush"
    <3>1. fileLen' \in Seq(Nat) /\ fileLen' # << >> /\ Len(fileLen') = 1 /\ fileLen'[1] = 0
      BY <2>1, <2>2
    <3>2. sampsRead' = 0
      BY <1>3, <2>1 DEF OpenFirstFile
    <3>3. MaxFile * (1 - 1) = 0
      BY <1>a
    <3> QED
      BY <1>a, <2>2, <3>1, <3>2, <3>3 DEF FilesInv, Full, Held
  <2>3. CASE UNCHANGED <<fileLen, fileOpen>> /\ thr' = "exited"
    BY <1>3, <2>3 DEF OpenFirstFile, FilesInv, Full, Held
  <2> QED
    BY <1>3, <2>2, <2>3 DEF OpenFirstFile
<1>4. CASE LoopHead
  <2>1. thr' = "recv" /\ UNCHANGED sampsRead
    BY <1>4 DEF LoopHead
  <2>2. CASE fileOpen /\ fileLen[n] >= MaxFile
    <3>1. fileLen # << >> /\ fileLen[n] = MaxFile
      BY <1>a, <2>2 DEF IInv, Control, FileInv, FilesInv
    <3>2. CASE fileLen' = Append(fileLen, 0)
      <4>1. /\ fileLen' \in Seq(Nat) /\ fileLen' # << >> /\ Len(fileLen') = n + 1
            /\ \A i \in 1 .. n : fileLen'[i] = fileLen[i]
            /\ fileLen'[n + 1] = 0
        BY <1>a, <3>2, AppendProperties
      <4>2. \A i \in 1 .. n : fileLen'[i] = MaxFile
        BY <1>a, <3>1, <4>1 DEF FilesInv, Full
      <4>3. Held(fileLen) = MaxFile * (n - 1) + MaxFile /\ Held(fileLen)' = MaxFile * (n + 1 - 1) + 0
        BY <3>1, <4>1 DEF Held
      <4>4. Held(fileLen)' = Held(fileLen)
        <5>1. n \in Int /\ n + 1 - 1 = n
          BY <1>a
        <5> HIDE DEF n
        <5>2. MaxFile * n \in Int /\ MaxFile * (n - 1) + MaxFile = MaxFile * n
          BY <5>1, OneFileMore
        <5> QED
          BY <4>3, <5>1, <5>2
      <4> QED
        BY <1>a, <2>1, <4>1, <4>2, <4>4 DEF FilesInv, Full
    <3>3. CASE UNCHANGED fileLen /\ fileOpen' = FALSE
      BY <2>1, <3>3 DEF FilesInv, Full, Held
    <3> QED
      BY <1>4, <2>2, <3>2, <3>3 DEF LoopHead, RollOver
  <2>3. CASE ~(fileOpen /\ fileLen[n] >= MaxFile)
    <3>1. UNCHANGED fileVars
      BY <1>4, <2>3 DEF LoopHead
    <3>2. fileOpen => fileLen # << >>
      BY DEF IInv, Control, FileInv
    <3>3. fileOpen => fileLen[n] < MaxFile
      BY <1>a, <2>3, <3>2
    <3> QED
      BY <2>1, <3>1, <3>3 DEF FilesInv, Full, Held
  <2> QED
    BY <2>2, <2>3
<1>5. CASE ReceivePacket
  <2>1. thr' \notin {"open"} /\ UNCHANGED fileOpen
    BY <1>5 DEF ReceivePacket
  <2>2. CASE fileOpen
    <3>1. /\ fileLen' = [fileLen EXCEPT ![n] = @ + 1] /\ sampsRead' = sampsRead + 1
          /\ thr = "recv" /\ thr' = "loop"
      BY <1>5, <2>2 DEF ReceivePacket
    <3>2. fileLen # << >> /\ fileLen[n] < MaxFile
      BY <2>2, <3>1 DEF IInv, Control, FileInv, FilesInv
    <3>3. /\ fileLen' \in Seq(Nat) /\ fileLen' # << >> /\ Len(fileLen') = n
          /\ \A i \in 1 .. n : i # n => fileLen'[i] = fileLen[i]
          /\ fileLen'[n] = fileLen[n] + 1
      <4>1. n \in 1 .. Len(fileLen) /\ fileLen[n] + 1 \in Nat
        BY <1>a, <3>2
      <4>2. fileLen' = [fileLen EXCEPT ![n] = fileLen[n] + 1]
        BY <3>1
      <4> QED
        BY <1>a, <4>1, <4>2, EmptySeq, ExceptSeq
    <3>4. Held(fileLen) = MaxFile * (n - 1) + fileLen[n]
          /\ Held(fileLen)' = MaxFile * (n - 1) + (fileLen[n] + 1)
      BY <3>2, <3>3 DEF Held
    <3>5. Held(fileLen)' = Held(fileLen) + 1
      <4>1. n \in Int /\ fileLen[n] \in Int
        BY <1>a, <3>2
      <4> HIDE DEF n
      <4>2. MaxFile * (n - 1) \in Int
        BY <4>1, OneFileMore
      <4> QED
        BY <3>4, <4>1, <4>2
    <3>6. Full(fileLen)' /\ \A i \in 1 .. n : fileLen'[i] <= MaxFile
      <4>1. \A i \in 1 .. n : fileLen[i] <= MaxFile /\ (i < n => fileLen[i] = MaxFile)
        BY DEF FilesInv, Full
      <4>2. \A i \in 1 .. n : i < n => fileLen'[i] = MaxFile
        BY <1>a, <3>3, <4>1
      <4>3. \A i \in 1 .. n : fileLen'[i] <= MaxFile
        BY <1>a, <3>2, <3>3, <4>1
      <4> QED
        BY <3>3, <4>2, <4>3 DEF Full
    <3>7. sampsRead' = Held(fileLen)'
      BY <3>1, <3>5 DEF FilesInv
    <3> QED
      BY <3>1, <3>3, <3>6, <3>7 DEF FilesInv
  <2>3. CASE ~fileOpen
    BY <1>5, <2>1, <2>3 DEF ReceivePacket, FilesInv, Full, Held
  <2> QED
    BY <2>2, <2>3
<1> QED
  BY <1>1, <1>2, <1>3, <1>4, <1>5, OtherSteps

(* The data files a conversion will read hold every sample the thread has  *)
(* counted, and are full but the last one, whatever the size of a file, the*)
(* pauses and the failures (saveData, DumpToDisc).                         *)
THEOREM FilesHoldAll == Spec => []FilesHoldSamples
<1>1. Init => FilesInv
  <2>1. << >> \in Seq(Nat) /\ Len(<< >>) = 0
    BY EmptySeq
  <2> QED
    BY <2>1 DEF Init, DumpInit, FilesInv, Full, Held
<1>2. IInv /\ FilesInv /\ [Next]_vars => FilesInv'
  BY FilesInvStep
<1>3. FilesInv => FilesHoldSamples
  <2> SUFFICES ASSUME FilesInv PROVE FilesHoldSamples
    OBVIOUS
  <2>1. Samples = SumOf(fileLen)
    BY Zenon DEF Samples, SumOf
  <2>2. SumOf(fileLen) = Held(fileLen)
    BY SumOfFull DEF FilesInv, Held
  <2> QED
    BY <2>1, <2>2 DEF FilesInv, FilesHoldSamples, Full
<1> QED
  BY <1>1, <1>2, <1>3, Invariance, PTL DEF Spec
===============================================================================
