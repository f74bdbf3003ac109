---------------------------- MODULE HandshakeProofs ----------------------------
(***************************************************************************)
(* Proofs about CtrlHandshake, for any answers of the board and any number *)
(* of commands and losses.                                                 *)
(*                                                                         *)
(* That commands are executed once rests on the order of datagrams alone:  *)
(* it holds however many answers are late.  That text arrives as it was    *)
(* made needs every answer in time, and acknowledgements that are not lost *)
(* (Timely).                                                               *)
(***************************************************************************)
EXTENDS CtrlHandshake, SequenceTheorems, TLAPS

(* Only a call of the daemon has asked. *)
AskedInCall == asked => pc \in SendSteps \cup RecvSteps

TypeInv == TypeOK /\ AskedInCall

Posted == {i \in DOMAIN toBoard : toBoard[i].reg = "MASTER_DATA"}

StartsText(x) == x.reg = "MASTER_DREADY" /\ x.val = "dready_start"
EndsText(x) == x.reg = "MASTER_DREADY" /\ x.val # "dready_start"

NoStartSent == \A i \in DOMAIN toBoard : ~StartsText(toBoard[i])
NoEndSent == \A i \in DOMAIN toBoard : ~EndsText(toBoard[i])
NoStartAnswered == \A k \in DOMAIN toDaemon : toDaemon[k].word # "dack_start"

(* A command under way is the one that has not been executed.              *)
OneCommand ==
  /\ \A i, j \in Posted : i = j
  /\ Posted # {} => pc = "m_start" /\ commands = executed + 1
  /\ Posted = {} => commands = executed

(* It is ahead of the writes that start its acknowledgement.               *)
Ahead ==
  \A p \in Posted :
    /\ mdack # "dack_start" /\ NoStartAnswered
    /\ \A i \in DOMAIN toBoard : i < p => ~StartsText(toBoard[i])

(* The acknowledgement of the board goes from end to start and back to end,*)
(* once for each command: on its way to the daemon, in the register and on *)
(* its way to the board.                                                   *)
EndsThenStarts ==
  /\ \A i, j \in DOMAIN toBoard : i < j /\ StartsText(toBoard[i]) => ~EndsText(toBoard[j])
  /\ mdack = "dack_start" => NoEndSent
  /\ \A k \in DOMAIN toDaemon : toDaemon[k].word = "dack_start" =>
       /\ mdack = "dack_start"
       /\ \A l \in DOMAIN toDaemon : k < l => toDaemon[l].word # "dack_end"

StartsThenEnds ==
  /\ \A i, j \in DOMAIN toBoard : i < j /\ EndsText(toBoard[i]) => ~StartsText(toBoard[j])
  /\ mdack # "dack_start" => NoStartSent
  /\ \A k \in DOMAIN toDaemon : toDaemon[k].word = "dack_end" =>
       /\ mdack # "dack_start"
       /\ \A l \in DOMAIN toDaemon : k < l => toDaemon[l].word # "dack_start"

AllEnded == NoStartSent /\ mdack # "dack_start" /\ NoStartAnswered

Ordered ==
  /\ pc = "m_start" => EndsThenStarts
  /\ pc = "m_end" => StartsThenEnds
  /\ pc \notin SendSteps => AllEnded

CInv == TypeInv /\ OneCommand /\ Ahead /\ Ordered

-----------------------------------------------------------------------------

(* What the code has no answer to does not happen: no answer is late, the  *)
(* data thread does not end while text is taken, commands and              *)
(* acknowledgements are not lost.                                          *)
Timely == MaxLate = 0 /\ ~Overtaking /\ "MASTER_DATA" \notin Lossy /\ "SLAVE_DACK" \notin Lossy

(* The request that is asked is the last datagram under way, or has been   *)
(* answered, or is lost.                                                   *)
OneRequest ==
  /\ late = 0
  /\ asked => pc \in SendSteps \cup RecvSteps
  /\ Len(toDaemon) <= 1
  /\ toDaemon # << >> => toBoard = << >> /\ asked
  /\ \A i \in DOMAIN toBoard : toBoard[i].reg \in ReadRegs =>
       asked /\ i = Len(toBoard) /\ toBoard[i] = Request

Acks(val) == \E i \in DOMAIN toBoard : toBoard[i].reg = "SLAVE_DACK" /\ toBoard[i].val = val
StartAcked == Acks("dack_start")
EndAcked == Acks("dack_end")
TakenByDaemon == pc = "s_end" \/ EndAcked

(* Where the acknowledgements of text are.                                 *)
FirstAck ==
  \A i \in DOMAIN toBoard : toBoard[i].reg = "SLAVE_DACK" =>
    i = 1 /\ toBoard[i].val \in {"dack_start", "dack_end"}

OneAck ==
  /\ FirstAck
  /\ StartAcked => pc = "s_end" /\ sdready = "dready_start"
  /\ EndAcked => pc \in {"idle", "polled", "s_ready", "m_start"} /\ sdready = "dready_end"

(* What is offered is there, and what is there is offered or taken.        *)
Offered ==
  /\ sdready = "dready_start" => chunk # Nothing
  /\ sdready = "dready_end" => chunk = Nothing \/ TakenByDaemon
  /\ TakenByDaemon => chunk # Nothing
  /\ pc \in {"s_length", "s_data"} => sdready = "dready_start"
  /\ pc = "s_end" /\ ~StartAcked => sdready = "dready_end"
  /\ chunk # Nothing => dlen = SizeOf(chunk)
  /\ chunk = Nothing => rest = << >>

(* An answer is what the board has now.                                    *)
Answered ==
  /\ pc = "s_data" => ndata = SizeOf(chunk)
  /\ toDaemon # << >> =>
       /\ pc = "s_ready" /\ Answer.word = "dready_start" => sdready = "dready_start"
       /\ pc = "s_length" => Answer.word = dlen
       /\ pc = "s_data" => Answer.chunk = chunk

Slave == OneRequest /\ OneAck /\ Offered /\ Answered

Marks == {"text", "error", "done", "read done"}

(* The text of the board is the end of one answer, and what the daemon has *)
(* received of that answer is its beginning.                               *)
OneAnswer ==
  /\ sending => executed >= 1
  /\ chunk # Nothing =>
       /\ chunk.mark \in Marks /\ chunk.cmd = executed /\ chunk.no >= 1 /\ executed >= 1
       /\ made = chunk.no + Len(rest)
  /\ \A i \in DOMAIN rest :
       rest[i].mark \in Marks /\ rest[i].cmd = executed /\ rest[i].no = chunk.no + i

(* n chunks of the last answer have been received. *)
Received(n) ==
  /\ n = 0 => \A i \in DOMAIN got : got[i].cmd < executed
  /\ n > 0 => got # << >> /\ got[Len(got)].cmd = executed /\ got[Len(got)].no = n

Continued ==
  /\ \A i \in DOMAIN got : got[i].cmd <= executed
  /\ TakenByDaemon => got # << >> /\ got[Len(got)] = chunk
  /\ chunk # Nothing /\ ~TakenByDaemon => Received(chunk.no - 1)
  /\ chunk = Nothing => IF executed = 0 THEN got = << >> ELSE made >= 1 /\ Received(made)

Text == OneAnswer /\ Continued /\ TextGenuine

(* What the listener to a command has collected, and is about to. *)
Listening == expect = "done" /\ caller = "listen" /\ pc \in RecvSteps \cup {"polled"}
Collected == IF pc \in {"s_end", "polled"} THEN Len(text) + Len(tempBuff) ELSE Len(text)

Collecting ==
  /\ pc \in {"s_length", "s_data"} \/ (pc = "s_ready" /\ asked) => tempBuff = << >>
  /\ pc = "s_end" => tempBuff = <<got[Len(got)]>>
  /\ pc = "polled" => tempBuff = << >> \/ (got # << >> /\ tempBuff = <<got[Len(got)]>>)
  /\ pc \in SendSteps =>
       /\ expect = "done" /\ text = << >>
       /\ \A i \in DOMAIN got : got[i].cmd < commands
  /\ Listening => Received(Collected)

TInv == CInv /\ Slave /\ Text /\ Collecting /\ AnswersThisCommand

(* The groups of variables are always expanded. *)
USE DEF daemonVars, textVars, boardVars

-----------------------------------------------------------------------------
(* Datagrams under way.                                                    *)

LEMMA Removed ==
  ASSUME NEW S, NEW s \in Seq(S), NEW i \in 1 .. Len(s)
  PROVE  /\ RemoveAt(s, i) \in Seq(S) /\ Len(RemoveAt(s, i)) = Len(s) - 1
         /\ \A k \in 1 .. Len(s) - 1 : RemoveAt(s, i)[k] = s[IF k < i THEN k ELSE k + 1]
<1> DEFINE a == SubSeq(s, 1, i - 1)
           b == SubSeq(s, i + 1, Len(s))
<1>1. a \in Seq(S) /\ Len(a) = i - 1 /\ \A k \in 1 .. i - 1 : a[k] = s[k]
  OBVIOUS
<1>2. b \in Seq(S) /\ Len(b) = Len(s) - i /\ \A k \in 1 .. Len(s) - i : b[k] = s[k + i]
  OBVIOUS
<1> HIDE DEF a, b
<1>3. RemoveAt(s, i) = a \o b
  BY DEF RemoveAt, a, b
<1>4. a \o b \in Seq(S) /\ Len(a \o b) = Len(s) - 1
  <2>1. i \in Nat /\ Len(s) \in Nat /\ i - 1 + (Len(s) - i) = Len(s) - 1
    OBVIOUS
  <2>2. a \o b \in Seq(S) /\ Len(a \o b) = Len(a) + Len(b)
    BY <1>1, <1>2, ConcatProperties
  <2> QED
    BY <1>1, <1>2, <2>1, <2>2
<1>5. ASSUME NEW k \in 1 .. Len(s) - 1 PROVE (a \o b)[k] = s[IF k < i THEN k ELSE k + 1]
  <2>1. CASE k < i
    BY <1>1, <1>2, <2>1
  <2>2. CASE ~(k < i)
    <3>1. (a \o b)[k] = b[k - (i - 1)] /\ k - (i - 1) \in 1 .. Len(s) - i
      BY <1>1, <1>2, <2>2
    <3> QED
      BY <1>2, <2>2, <3>1
  <2> QED
    BY <2>1, <2>2
<1> QED
  BY <1>3, <1>4, <1>5

-----------------------------------------------------------------------------
(* Types                                                                   *)

LEMMA RequestType == ASSUME TypeOK, pc \in SendSteps \cup RecvSteps PROVE Request \in ToBoard
BY DEF TypeOK, Request, ReadFrom, ToBoard, SendSteps, RecvSteps, ReadRegs, Words

LEMMA ChunkTypes ==
  /\ Nothing \in Chunks /\ Garbage \in Chunks
  /\ \A c \in Chunks : [c EXCEPT !.mark = "cut"] \in Chunks
BY DEF Nothing, Garbage, Chunks

LEMMA AnswerType == ASSUME TypeOK, toDaemon # << >> PROVE Answer \in ToDaemon /\ Tail(toDaemon) \in Seq(ToDaemon)
<1>1. toDaemon \in Seq(ToDaemon)
  BY DEF TypeOK
<1> QED
  BY <1>1, HeadTailProperties DEF Answer

(* The Boolean variables and the others apart: no one of the provers is    *)
(* good at both.                                                           *)
Booleans == asked \in BOOLEAN /\ sending \in BOOLEAN
Control ==
  /\ pc \in {"idle", "polled"} \cup SendSteps \cup RecvSteps
  /\ caller \in {"listen", "drain"} /\ expect \in {"done", "read done"}
  /\ mdack \in {"zero", "dack_start", "dack_end"} /\ sdready \in {"dready_start", "dready_end"}
  /\ dlen \in {"zero", "short", "full"} /\ ndata \in Words
Counters ==
  /\ commands \in 0 .. MaxCommands /\ executed \in Nat /\ made \in Nat
  /\ lost \in 0 .. MaxLost /\ late \in 0 .. MaxLate
TextTypes ==
  /\ tempBuff \in Seq(Chunks) /\ text \in Seq(Chunks) /\ got \in Seq(Chunks)
  /\ chunk \in Chunks /\ rest \in Seq(Chunks)
UnderWay == toBoard \in Seq(ToBoard) /\ toDaemon \in Seq(ToDaemon)

LEMMA TypeParts == TypeOK <=> Booleans /\ Control /\ Counters /\ TextTypes /\ UnderWay
BY Zenon DEF TypeOK, Booleans, Control, Counters, TextTypes, UnderWay

LEMMA InitTypes == Init => TypeOK
<1> SUFFICES ASSUME Init PROVE TypeOK
  OBVIOUS
<1>1. Booleans
  BY Zenon DEF Init, Booleans
<1>2. Control
  BY DEF Init, Control, Words
<1>3. Counters
  BY CtrlAssumption DEF Init, Counters
<1>4. TextTypes
  BY ChunkTypes, EmptySeq DEF Init, TextTypes
<1>5. UnderWay
  BY EmptySeq DEF Init, UnderWay
<1> QED
  BY <1>1, <1>2, <1>3, <1>4, <1>5, TypeParts

LEMMA ChunkOf ==
  ASSUME NEW n \in Nat, NEW c \in Nat, NEW mark \in {"text", "error", "done", "read done"}
  PROVE  [no |-> n, cmd |-> c, mark |-> mark] \in Chunks
BY DEF Chunks
LEMMA AnsweringType ==
  ASSUME NEW reply \in Replies, executed \in Nat
  PROVE  Answering(reply) \in Seq(Chunks) /\ Answering(reply) # << >> /\ Len(Answering(reply)) = Len(reply)
<1>1. reply \in Seq({"text", "error", "done"}) /\ reply # << >>
  BY CtrlAssumption
<1>2. Len(reply) \in Nat \ {0} /\ \A i \in 1 .. Len(reply) : reply[i] \in {"text", "error", "done"}
  BY <1>1
<1>3. \A i \in 1 .. Len(reply) : [no |-> i, cmd |-> executed + 1, mark |-> reply[i]] \in Chunks
  <2> SUFFICES ASSUME NEW i \in 1 .. Len(reply)
               PROVE  [no |-> i, cmd |-> executed + 1, mark |-> reply[i]] \in Chunks
    OBVIOUS
  <2>1. i \in Nat /\ executed + 1 \in Nat /\ reply[i] \in {"text", "error", "done"}
    BY <1>2
  <2> QED
    BY <2>1, ChunkOf
<1>4. Answering(reply) \in Seq(Chunks) /\ Len(Answering(reply)) = Len(reply)
  BY <1>2, <1>3 DEF Answering
<1> QED
  BY <1>2, <1>4, EmptySeq

(* What a read of the board is answered. *)
LEMMA ReadType ==
  ASSUME TypeOK, toBoard # << >>, Head(toBoard).reg \in ReadRegs, HandleRead
  PROVE  \E x \in ToDaemon : toDaemon' = Append(toDaemon, x)
<1> DEFINE m == Head(toBoard)
<1>1. mdack \in Words /\ sdready \in Words /\ dlen \in Words /\ "zero" \in Words /\ "text" \in Words
  BY DEF TypeOK, Words
<1>2. Garbage \in Chunks /\ AsText(m.val) \in Chunks
  BY ChunkTypes DEF TypeOK, AsText
<1>3. CASE m.reg = "MASTER_DACK"
  BY <1>1, <1>2, <1>3 DEF HandleRead, ToDaemon
<1>4. CASE m.reg = "SLAVE_DREADY"
  BY <1>1, <1>2, <1>4 DEF HandleRead, ToDaemon
<1>5. CASE m.reg = "SLAVE_DLENGTH"
  BY <1>1, <1>2, <1>5 DEF HandleRead, ToDaemon
<1>6. CASE m.reg = "SLAVE_DATA"
  BY <1>1, <1>2, <1>6 DEF HandleRead, ToDaemon
<1> QED
  BY <1>3, <1>4, <1>5, <1>6 DEF ReadRegs

LEMMA BooleansStep == ASSUME Booleans, Next PROVE Booleans'
<1> USE DEF Booleans
<1>1. CASE SendCmd
  BY <1>1, Zenon DEF SendCmd
<1>2. CASE ListenForReadDone
  BY <1>2, Zenon DEF ListenForReadDone
<1>3. CASE Drain
  BY <1>3, Zenon DEF Drain
<1>4. CASE ListenReturns
  BY <1>4, Zenon DEF ListenReturns
<1>5. CASE DrainReturns
  BY <1>5, Zenon DEF DrainReturns
<1>6. CASE Ask
  BY <1>6, Zenon DEF Ask
<1>7. CASE AskAgain
  BY <1>7, Zenon DEF AskAgain
<1>8. CASE MasterAck
  BY <1>8, Zenon DEF MasterAck, TakeAnswer
<1>9. CASE SlaveReady
  BY <1>9, Zenon DEF SlaveReady, TakeAnswer
<1>10. CASE SlaveLength
  BY <1>10, Zenon DEF SlaveLength, TakeAnswer
<1>11. CASE SlaveData
  BY <1>11, Zenon DEF SlaveData, TakeAnswer
<1>12. CASE SlaveEnd
  BY <1>12, Zenon DEF SlaveEnd, TakeAnswer
<1>13. CASE HandleCommand
  BY <1>13, Zenon DEF HandleCommand, Arrives, moveTextToTransfer
<1>14. CASE HandleMasterReady
  BY <1>14, Zenon DEF HandleMasterReady, Arrives
<1>15. CASE HandleSlaveAck
  BY <1>15, Zenon DEF HandleSlaveAck, Arrives, moveTextToTransfer
<1>16. CASE HandleRead
  BY <1>16, Zenon DEF HandleRead, Arrives
<1>17. CASE ReadDone
  BY <1>17, Zenon DEF ReadDone, moveTextToTransfer
<1>18. CASE Lose
  BY <1>18, Zenon DEF Lose
<1> QED
  BY <1>1, <1>2, <1>3, <1>4, <1>5, <1>6, <1>7, <1>8, <1>9, <1>10, <1>11, <1>12, <1>13, <1>14,
     <1>15, <1>16, <1>17, <1>18 DEF Next, Calls, Daemon, Board

LEMMA ControlStep == ASSUME TypeOK, Next PROVE Control'
<1>0. Control
  BY TypeParts
<1>a. toDaemon # << >> => Answer \in ToDaemon
  BY AnswerType
<1> USE DEF Control, SendSteps, RecvSteps, SizeOf
<1>1. CASE SendCmd
  BY <1>0, <1>1 DEF SendCmd
<1>2. CASE ListenForReadDone
  BY <1>0, <1>2 DEF ListenForReadDone
<1>3. CASE Drain
  BY <1>0, <1>3 DEF Drain
<1>4. CASE ListenReturns
  BY <1>0, <1>4 DEF ListenReturns, Heard
<1>5. CASE DrainReturns
  BY <1>0, <1>5 DEF DrainReturns
<1>6. CASE Ask
  BY <1>0, <1>6 DEF Ask
<1>7. CASE AskAgain
  BY <1>0, <1>7 DEF AskAgain
<1>8. CASE MasterAck
  BY <1>0, <1>8 DEF MasterAck, TakeAnswer
<1>9. CASE SlaveReady
  BY <1>0, <1>9 DEF SlaveReady, TakeAnswer
<1>10. CASE SlaveLength
  BY <1>0, <1>a, <1>10 DEF SlaveLength, TakeAnswer, ToDaemon
<1>11. CASE SlaveData
  BY <1>0, <1>11 DEF SlaveData, TakeAnswer
<1>12. CASE SlaveEnd
  BY <1>0, <1>12 DEF SlaveEnd, TakeAnswer
<1>13. CASE HandleCommand
  BY <1>0, <1>13 DEF HandleCommand, Arrives, moveTextToTransfer
<1>14. CASE HandleMasterReady
  BY <1>0, <1>14 DEF HandleMasterReady, Arrives
<1>15. CASE HandleSlaveAck
  BY <1>0, <1>15 DEF HandleSlaveAck, Arrives, moveTextToTransfer
<1>16. CASE HandleRead
  BY <1>0, <1>16 DEF HandleRead, Arrives
<1>17. CASE ReadDone
  BY <1>0, <1>17 DEF ReadDone, moveTextToTransfer
<1>18. CASE Lose
  BY <1>0, <1>18 DEF Lose
<1> QED
  BY <1>1, <1>2, <1>3, <1>4, <1>5, <1>6, <1>7, <1>8, <1>9, <1>10, <1>11, <1>12, <1>13, <1>14,
     <1>15, <1>16, <1>17, <1>18 DEF Next, Calls, Daemon, Board

LEMMA CountersStep == ASSUME TypeOK, Next PROVE Counters'
<1>0. Counters
  BY TypeParts
<1> USE CtrlAssumption DEF Counters
<1>1. CASE SendCmd
  BY <1>0, <1>1 DEF SendCmd
<1>2. CASE ListenForReadDone
  BY <1>0, <1>2 DEF ListenForReadDone
<1>3. CASE Drain
  BY <1>0, <1>3 DEF Drain
<1>4. CASE ListenReturns
  BY <1>0, <1>4 DEF ListenReturns
<1>5. CASE DrainReturns
  BY <1>0, <1>5 DEF DrainReturns
<1>6. CASE Ask
  BY <1>0, <1>6 DEF Ask
<1>7. CASE AskAgain
  BY <1>0, <1>7 DEF AskAgain
<1>8. CASE MasterAck
  BY <1>0, <1>8 DEF MasterAck, TakeAnswer
<1>9. CASE SlaveReady
  BY <1>0, <1>9 DEF SlaveReady, TakeAnswer
<1>10. CASE SlaveLength
  BY <1>0, <1>10 DEF SlaveLength, TakeAnswer
<1>11. CASE SlaveData
  BY <1>0, <1>11 DEF SlaveData, TakeAnswer
<1>12. CASE SlaveEnd
  BY <1>0, <1>12 DEF SlaveEnd, TakeAnswer
<1>13. CASE HandleCommand
  <2>1. PICK reply \in Replies : made' = Len(reply)
    BY <1>13 DEF HandleCommand
  <2>2. Len(reply) \in Nat
    BY <2>1
  <2> QED
    BY <1>0, <1>13, <2>1, <2>2 DEF HandleCommand
<1>14. CASE HandleMasterReady
  BY <1>0, <1>14 DEF HandleMasterReady, Arrives
<1>15. CASE HandleSlaveAck
  BY <1>0, <1>15 DEF HandleSlaveAck, Arrives, moveTextToTransfer
<1>16. CASE HandleRead
  BY <1>0, <1>16 DEF HandleRead, Arrives
<1>17. CASE ReadDone
  <2>1. made' = made + 1 /\ UNCHANGED <<commands, executed, lost, late>>
    BY <1>17 DEF ReadDone
  <2> QED
    BY <1>0, <2>1
<1>18. CASE Lose
  BY <1>0, <1>18 DEF Lose
<1> QED
  BY <1>1, <1>2, <1>3, <1>4, <1>5, <1>6, <1>7, <1>8, <1>9, <1>10, <1>11, <1>12, <1>13, <1>14,
     <1>15, <1>16, <1>17, <1>18 DEF Next, Calls, Daemon, Board

LEMMA TextStep == ASSUME TypeOK, Next PROVE TextTypes'
<1>0. TextTypes
  BY TypeParts
<1>a. toDaemon # << >> => Answer.chunk \in Chunks
  BY AnswerType DEF ToDaemon
<1> USE DEF TextTypes
<1>1. CASE SendCmd
  BY <1>0, <1>1, EmptySeq DEF SendCmd
<1>2. CASE ListenForReadDone
  BY <1>0, <1>2, EmptySeq DEF ListenForReadDone
<1>3. CASE Drain
  BY <1>0, <1>3 DEF Drain
<1>4. CASE ListenReturns
  BY <1>0, <1>4, ConcatProperties DEF ListenReturns
<1>5. CASE DrainReturns
  BY <1>0, <1>5 DEF DrainReturns
<1>6. CASE Ask
  BY <1>0, <1>6, EmptySeq DEF Ask
<1>7. CASE AskAgain
  BY <1>0, <1>7 DEF AskAgain
<1>8. CASE MasterAck
  BY <1>0, <1>8 DEF MasterAck, TakeAnswer
<1>9. CASE SlaveReady
  BY <1>0, <1>9 DEF SlaveReady, TakeAnswer
<1>10. CASE SlaveLength
  BY <1>0, <1>10 DEF SlaveLength, TakeAnswer
<1>11. CASE SlaveData
  <2>1. <<Answer.chunk>> \in Seq(Chunks) /\ Append(got, Answer.chunk) \in Seq(Chunks)
    BY <1>0, <1>a, <1>11, AppendProperties DEF SlaveData, TakeAnswer
  <2> QED
    BY <1>0, <1>11, <2>1 DEF SlaveData
<1>12. CASE SlaveEnd
  BY <1>0, <1>12 DEF SlaveEnd, TakeAnswer
<1>13. CASE HandleCommand
  <2>1. PICK reply \in Replies : moveTextToTransfer(Answering(reply))
    BY <1>13 DEF HandleCommand
  <2>2. Answering(reply) \in Seq(Chunks) /\ Answering(reply) # << >>
    BY AnsweringType DEF TypeOK
  <2>3. chunk' \in Chunks /\ rest' \in Seq(Chunks)
    BY <2>1, <2>2, HeadTailProperties DEF moveTextToTransfer
  <2> QED
    BY <1>0, <1>13, <2>3 DEF HandleCommand
<1>14. CASE HandleMasterReady
  BY <1>0, <1>14 DEF HandleMasterReady, Arrives
<1>15. CASE HandleSlaveAck
  BY <1>0, <1>15, ChunkTypes, HeadTailProperties DEF HandleSlaveAck, Arrives, moveTextToTransfer
<1>16. CASE HandleRead
  BY <1>0, <1>16 DEF HandleRead, Arrives
<1>17. CASE ReadDone
  <2> DEFINE last == [no |-> made + 1, cmd |-> executed, mark |-> "read done"]
  <2>1. last \in Chunks
    <3>1. made + 1 \in Nat /\ executed \in Nat
      BY TypeParts DEF Counters
    <3> QED
      BY <3>1, ChunkOf
  <2> HIDE DEF last
  <2>2. Append(rest, last) \in Seq(Chunks) /\ Append(rest, last) # << >>
    BY <1>0, <2>1, AppendProperties
  <2>3. chunk' \in Chunks /\ rest' \in Seq(Chunks)
    BY <1>17, <2>2, HeadTailProperties DEF ReadDone, moveTextToTransfer, last
  <2> QED
    BY <1>0, <1>17, <2>3 DEF ReadDone
<1>18. CASE Lose
  BY <1>0, <1>18 DEF Lose
<1> QED
  BY <1>1, <1>2, <1>3, <1>4, <1>5, <1>6, <1>7, <1>8, <1>9, <1>10, <1>11, <1>12, <1>13, <1>14,
     <1>15, <1>16, <1>17, <1>18 DEF Next, Calls, Daemon, Board

LEMMA UnderWayStep == ASSUME TypeOK, AskedInCall, Next PROVE UnderWay'
<1>0. UnderWay
  BY TypeParts
<1>a. toDaemon # << >> => Tail(toDaemon) \in Seq(ToDaemon)
  BY AnswerType
<1>b. \A regs : Arrives(regs) => toBoard' \in Seq(ToBoard)
  BY <1>0, HeadTailProperties DEF Arrives, UnderWay
<1>c. \A reg \in WriteRegs, val \in Words : WriteTo(reg, val) \in ToBoard
  BY DEF WriteTo, ToBoard
<1> USE DEF UnderWay
<1>1. CASE SendCmd
  <2>1. WriteTo("MASTER_DATA", "text") \in ToBoard
    BY <1>c DEF WriteRegs, Words
  <2> QED
    BY <1>0, <1>1, <2>1, AppendProperties DEF SendCmd
<1>2. CASE ListenForReadDone
  BY <1>0, <1>2 DEF ListenForReadDone
<1>3. CASE Drain
  BY <1>0, <1>3 DEF Drain
<1>4. CASE ListenReturns
  BY <1>0, <1>4 DEF ListenReturns
<1>5. CASE DrainReturns
  BY <1>0, <1>5 DEF DrainReturns
<1>6. CASE Ask
  <2>1. Request \in ToBoard
    BY <1>6, RequestType DEF Ask
  <2>2. /\ WriteTo("MASTER_DREADY", "dready_start") \in ToBoard
        /\ WriteTo("MASTER_DREADY", "dready_end") \in ToBoard
    BY <1>c DEF WriteRegs, Words
  <2>3. toBoard' \in Seq(ToBoard)
    BY <1>0, <1>6, <2>1, <2>2, ConcatProperties DEF Ask
  <2> QED
    BY <1>0, <1>6, <2>3 DEF Ask
<1>7. CASE AskAgain
  <2>1. Request \in ToBoard
    BY <1>7, RequestType DEF AskAgain, AskedInCall
  <2> QED
    BY <1>0, <1>7, <2>1, AppendProperties DEF AskAgain
<1>8. CASE MasterAck
  BY <1>0, <1>a, <1>8 DEF MasterAck, TakeAnswer
<1>9. CASE SlaveReady
  BY <1>0, <1>a, <1>9 DEF SlaveReady, TakeAnswer
<1>10. CASE SlaveLength
  BY <1>0, <1>a, <1>10 DEF SlaveLength, TakeAnswer
<1>11. CASE SlaveData
  <2>1. WriteTo("SLAVE_DACK", "dack_start") \in ToBoard
    BY <1>c DEF WriteRegs, Words
  <2> QED
    BY <1>0, <1>a, <1>11, <2>1, AppendProperties DEF SlaveData, TakeAnswer
<1>12. CASE SlaveEnd
  <2>1. WriteTo("SLAVE_DACK", "dack_end") \in ToBoard
    BY <1>c DEF WriteRegs, Words
  <2> QED
    BY <1>0, <1>a, <1>12, <2>1, AppendProperties DEF SlaveEnd, TakeAnswer
<1>13. CASE HandleCommand
  BY <1>0, <1>b, <1>13 DEF HandleCommand
<1>14. CASE HandleMasterReady
  BY <1>0, <1>b, <1>14 DEF HandleMasterReady
<1>15. CASE HandleSlaveAck
  BY <1>0, <1>b, <1>15 DEF HandleSlaveAck
<1>16. CASE HandleRead
  <2>1. PICK x \in ToDaemon : toDaemon' = Append(toDaemon, x)
    BY <1>16, ReadType DEF HandleRead, Arrives
  <2> QED
    BY <1>0, <1>b, <1>16, <2>1, AppendProperties DEF HandleRead
<1>17. CASE ReadDone
  BY <1>0, <1>17 DEF ReadDone, moveTextToTransfer
<1>18. CASE Lose
  <2>1. toBoard' \in Seq(ToBoard)
    BY <1>0, <1>18, Removed DEF Lose
  <2>2. toDaemon' \in Seq(ToDaemon)
    BY <1>0, <1>18, Removed DEF Lose
  <2> QED
    BY <2>1, <2>2
<1> QED
  BY <1>1, <1>2, <1>3, <1>4, <1>5, <1>6, <1>7, <1>8, <1>9, <1>10, <1>11, <1>12, <1>13, <1>14,
     <1>15, <1>16, <1>17, <1>18 DEF Next, Calls, Daemon, Board

LEMMA AskedStep == ASSUME TypeOK, AskedInCall, Next PROVE AskedInCall'
<1> USE DEF AskedInCall, SendSteps, RecvSteps
<1>1. CASE SendCmd
  BY <1>1 DEF SendCmd
<1>2. CASE ListenForReadDone
  BY <1>2 DEF ListenForReadDone
<1>3. CASE Drain
  BY <1>3 DEF Drain
<1>4. CASE ListenReturns
  BY <1>4 DEF ListenReturns
<1>5. CASE DrainReturns
  BY <1>5 DEF DrainReturns
<1>6. CASE Ask
  BY <1>6 DEF Ask
<1>7. CASE AskAgain
  BY <1>7 DEF AskAgain
<1>8. CASE MasterAck
  BY <1>8 DEF MasterAck, TakeAnswer
<1>9. CASE SlaveReady
  BY <1>9 DEF SlaveReady, TakeAnswer
<1>10. CASE SlaveLength
  BY <1>10 DEF SlaveLength, TakeAnswer
<1>11. CASE SlaveData
  BY <1>11 DEF SlaveData, TakeAnswer
<1>12. CASE SlaveEnd
  BY <1>12 DEF SlaveEnd, TakeAnswer
<1>13. CASE HandleCommand
  BY <1>13 DEF HandleCommand, Arrives, moveTextToTransfer
<1>14. CASE HandleMasterReady
  BY <1>14 DEF HandleMasterReady, Arrives
<1>15. CASE HandleSlaveAck
  BY <1>15 DEF HandleSlaveAck, Arrives, moveTextToTransfer
<1>16. CASE HandleRead
  BY <1>16 DEF HandleRead, Arrives
<1>17. CASE ReadDone
  BY <1>17 DEF ReadDone, moveTextToTransfer
<1>18. CASE Lose
  BY <1>18 DEF Lose
<1> QED
  BY <1>1, <1>2, <1>3, <1>4, <1>5, <1>6, <1>7, <1>8, <1>9, <1>10, <1>11, <1>12, <1>13, <1>14,
     <1>15, <1>16, <1>17, <1>18 DEF Next, Calls, Daemon, Board

LEMMA TypeStep == ASSUME TypeInv, [Next]_vars PROVE TypeInv'
<1>1. CASE Next
  <2>1. TypeOK /\ AskedInCall /\ Booleans
    BY TypeParts DEF TypeInv
  <2>2. Booleans' /\ Control' /\ Counters' /\ TextTypes' /\ UnderWay' /\ AskedInCall'
    BY <1>1, <2>1, BooleansStep, ControlStep, CountersStep, TextStep, UnderWayStep, AskedStep
  <2>3. TypeOK'
    BY <2>2, Zenon DEF TypeOK, Booleans, Control, Counters, TextTypes, UnderWay
  <2> QED
    BY <2>2, <2>3 DEF TypeInv
<1>2. CASE UNCHANGED vars
  BY <1>2 DEF vars, TypeInv, AskedInCall, TypeOK
<1> QED
  BY <1>1, <1>2

LEMMA TypeInvariance == Spec => []TypeInv
<1>1. Init => TypeInv
  BY InitTypes DEF Init, TypeInv, AskedInCall
<1> QED
  BY <1>1, TypeStep, PTL DEF Spec

(* The variables have their types. *)
THEOREM TypeCorrect == Spec => []TypeOK
<1>1. TypeInv => TypeOK
  BY DEF TypeInv
<1> QED
  BY <1>1, TypeInvariance, PTL

-----------------------------------------------------------------------------
(* What the steps do to the datagrams under way.                           *)

LEMMA Flows ==
  ASSUME TypeInv
  PROVE  /\ toBoard \in Seq(ToBoard) /\ Len(toBoard) \in Nat /\ DOMAIN toBoard = 1 .. Len(toBoard)
         /\ toDaemon \in Seq(ToDaemon) /\ Len(toDaemon) \in Nat /\ DOMAIN toDaemon = 1 .. Len(toDaemon)
<1>1. toBoard \in Seq(ToBoard) /\ toDaemon \in Seq(ToDaemon)
  BY DEF TypeInv, TypeOK
<1> QED
  BY <1>1, LenProperties

LEMMA Sent ==
  ASSUME TypeInv, NEW x \in ToBoard, toBoard' = Append(toBoard, x)
  PROVE  /\ DOMAIN toBoard' = 1 .. Len(toBoard) + 1 /\ Len(toBoard') = Len(toBoard) + 1
         /\ \A i \in 1 .. Len(toBoard) : toBoard'[i] = toBoard[i]
         /\ toBoard'[Len(toBoard) + 1] = x
<1>1. Append(toBoard, x) \in Seq(ToBoard) /\ Len(Append(toBoard, x)) = Len(toBoard) + 1
  BY Flows, AppendProperties
<1>2. DOMAIN toBoard' = 1 .. Len(toBoard')
  BY <1>1, LenProperties
<1> QED
  BY <1>1, <1>2, Flows, AppendProperties

LEMMA Delivered ==
  ASSUME TypeInv, NEW regs, Arrives(regs)
  PROVE  /\ Len(toBoard) \in Nat \ {0} /\ toBoard[1] = Head(toBoard) /\ toBoard[1].reg \in regs
         /\ DOMAIN toBoard' = 1 .. Len(toBoard) - 1 /\ Len(toBoard') = Len(toBoard) - 1
         /\ \A i \in 1 .. Len(toBoard) - 1 : toBoard'[i] = toBoard[i + 1]
<1>1. toBoard # << >> /\ toBoard' = Tail(toBoard) /\ Head(toBoard).reg \in regs
  BY DEF Arrives
<1>2. Len(toBoard) \in Nat \ {0}
  BY <1>1, Flows, EmptySeq
<1>3. toBoard[1] = Head(toBoard)
  BY <1>1, Flows
<1>4. Tail(toBoard) \in Seq(ToBoard) /\ Len(Tail(toBoard)) = Len(toBoard) - 1
  BY <1>1, Flows, HeadTailProperties
<1>5. DOMAIN toBoard' = 1 .. Len(toBoard')
  BY <1>1, <1>4, LenProperties
<1> QED
  BY <1>1, <1>2, <1>3, <1>4, <1>5, Flows, HeadTailProperties

LEMMA Asked ==
  ASSUME TypeInv, Ask
  PROVE  /\ Len(toBoard') = Len(toBoard) + (IF pc \in SendSteps THEN 2 ELSE 1)
         /\ DOMAIN toBoard' = 1 .. Len(toBoard')
         /\ \A i \in 1 .. Len(toBoard) : toBoard'[i] = toBoard[i]
         /\ toBoard'[Len(toBoard')] = Request
         /\ pc = "m_start" => toBoard'[Len(toBoard) + 1] = WriteTo("MASTER_DREADY", "dready_start")
         /\ pc = "m_end" => toBoard'[Len(toBoard) + 1] = WriteTo("MASTER_DREADY", "dready_end")
<1>1. Request \in ToBoard /\ pc \in SendSteps \cup RecvSteps
  BY RequestType DEF Ask, TypeInv
<1>2. CASE pc \in SendSteps
  <2>1. PICK w \in ToBoard :
          /\ toBoard' = toBoard \o <<w, Request>>
          /\ pc = "m_start" => w = WriteTo("MASTER_DREADY", "dready_start")
          /\ pc = "m_end" => w = WriteTo("MASTER_DREADY", "dready_end")
    BY <1>2 DEF Ask, SendSteps, WriteTo, ToBoard, WriteRegs, Words
  <2>2. <<w, Request>> \in Seq(ToBoard) /\ Len(<<w, Request>>) = 2
    BY <1>1
  <2>3. toBoard' \in Seq(ToBoard) /\ Len(toBoard') = Len(toBoard) + 2
    BY <2>1, <2>2, Flows, ConcatProperties
  <2>4. \A i \in 1 .. Len(toBoard) + 2 :
          toBoard'[i] = IF i <= Len(toBoard) THEN toBoard[i] ELSE <<w, Request>>[i - Len(toBoard)]
    BY <2>1, <2>2, Flows, ConcatProperties
  <2>5. DOMAIN toBoard' = 1 .. Len(toBoard')
    BY <2>3, LenProperties
  <2>6. /\ toBoard'[Len(toBoard) + 1] = <<w, Request>>[1]
        /\ toBoard'[Len(toBoard) + 2] = <<w, Request>>[2]
    BY <2>4, Flows
  <2> HIDE DEF Request
  <2> QED
    BY <1>2, <2>1, <2>3, <2>4, <2>5, <2>6, Flows
<1>3. CASE pc \notin SendSteps
  <2>1. toBoard' = toBoard \o <<Request>>
    BY <1>3 DEF Ask, SendSteps
  <2>2. toBoard' = Append(toBoard, Request)
    BY <1>1, <2>1, Flows, AppendIsConcat
  <2> QED
    BY <1>1, <1>3, <2>2, Sent, Flows DEF SendSteps
<1> QED
  BY <1>2, <1>3

LEMMA Replied ==
  ASSUME TypeInv, TakeAnswer
  PROVE  /\ Len(toDaemon) \in Nat \ {0} /\ Answer = toDaemon[1] /\ Answer \in ToDaemon
         /\ DOMAIN toDaemon' = 1 .. Len(toDaemon) - 1 /\ Len(toDaemon') = Len(toDaemon) - 1
         /\ \A k \in 1 .. Len(toDaemon) - 1 : toDaemon'[k] = toDaemon[k + 1]
<1>1. toDaemon # << >> /\ toDaemon' = Tail(toDaemon)
  BY DEF TakeAnswer
<1>2. Len(toDaemon) \in Nat \ {0}
  BY <1>1, Flows, EmptySeq
<1>3. toDaemon[1] = Answer /\ Answer \in ToDaemon
  BY <1>1, Flows, HeadTailProperties DEF Answer
<1>4. Tail(toDaemon) \in Seq(ToDaemon) /\ Len(Tail(toDaemon)) = Len(toDaemon) - 1
  BY <1>1, Flows, HeadTailProperties
<1>5. DOMAIN toDaemon' = 1 .. Len(toDaemon')
  BY <1>1, <1>4, LenProperties
<1> QED
  BY <1>1, <1>2, <1>3, <1>4, <1>5, Flows, HeadTailProperties

(* The word that answers a read. *)
LEMMA Read ==
  ASSUME TypeInv, HandleRead
  PROVE  /\ DOMAIN toDaemon' = 1 .. Len(toDaemon) + 1 /\ Len(toDaemon') = Len(toDaemon) + 1
         /\ \A k \in 1 .. Len(toDaemon) : toDaemon'[k] = toDaemon[k]
         /\ \E x \in ToDaemon :
              /\ toDaemon'[Len(toDaemon) + 1] = x
              /\ toDaemon' = Append(toDaemon, x)
              /\ x.word \in {"dack_start", "dack_end"} =>
                   x.word = mdack /\ Head(toBoard).reg = "MASTER_DACK"
              /\ Head(toBoard).reg = "MASTER_DACK" => x.word = mdack
              /\ Head(toBoard).reg = "SLAVE_DREADY" => x.word = sdready
              /\ Head(toBoard).reg = "SLAVE_DLENGTH" => x.word = dlen
              /\ Head(toBoard).reg = "SLAVE_DATA" => x.chunk = AsText(Head(toBoard).val)
<1>1. PICK x \in ToDaemon : toDaemon' = Append(toDaemon, x)
  BY ReadType DEF HandleRead, Arrives, TypeInv
<1>2. Append(toDaemon, x) \in Seq(ToDaemon)
  BY Flows, AppendProperties
<1>3. DOMAIN toDaemon' = 1 .. Len(toDaemon')
  BY <1>1, <1>2, LenProperties
<1>4. DOMAIN toDaemon' = 1 .. Len(toDaemon) + 1 /\ Len(toDaemon') = Len(toDaemon) + 1
  BY <1>1, <1>3, Flows, AppendProperties
<1>5. \A k \in 1 .. Len(toDaemon) : toDaemon'[k] = toDaemon[k]
  BY <1>1, Flows, AppendProperties
<1>6. toDaemon'[Len(toDaemon) + 1] = x
  BY <1>1, Flows, AppendProperties
<1> DEFINE m == Head(toBoard)
           y == CASE m.reg = "MASTER_DACK" -> [word |-> mdack, chunk |-> Garbage]
                  [] m.reg = "SLAVE_DREADY" -> [word |-> sdready, chunk |-> Garbage]
                  [] m.reg = "SLAVE_DLENGTH" -> [word |-> dlen, chunk |-> Garbage]
                  [] m.reg = "SLAVE_DATA" ->
                       [word |-> IF chunk = Nothing THEN "zero" ELSE "text", chunk |-> AsText(m.val)]
<1>7. toDaemon' = Append(toDaemon, y)
  BY DEF HandleRead
<1> HIDE DEF y
<1>8. x = y
  <2>1. Append(toDaemon, y)[Len(toDaemon) + 1] = y
    BY Flows
  <2> QED
    BY <1>6, <1>7, <2>1
<1>9. m.reg \in ReadRegs
  BY DEF HandleRead, Arrives
<1>10. /\ sdready \notin {"dack_start", "dack_end"} /\ dlen \notin {"dack_start", "dack_end"}
  BY DEF TypeInv, TypeOK
<1>11. /\ m.reg = "MASTER_DACK" => x.word = mdack
       /\ m.reg = "SLAVE_DREADY" => x.word = sdready
       /\ m.reg = "SLAVE_DLENGTH" => x.word = dlen
       /\ m.reg = "SLAVE_DATA" => x.chunk = AsText(m.val) /\ x.word \in {"zero", "text"}
  BY <1>8 DEF y
<1>12. x.word \in {"dack_start", "dack_end"} => m.reg = "MASTER_DACK"
  BY <1>9, <1>10, <1>11 DEF ReadRegs
<1> QED
  BY <1>1, <1>4, <1>5, <1>6, <1>11, <1>12

LEMMA Lost ==
  ASSUME TypeInv, Lose
  PROVE  \/ /\ \E i \in 1 .. Len(toBoard) :
                  /\ toBoard[i].reg \in Lossy
                  /\ DOMAIN toBoard' = 1 .. Len(toBoard) - 1 /\ Len(toBoard') = Len(toBoard) - 1
                  /\ \A k \in 1 .. Len(toBoard) - 1 :
                       toBoard'[k] = toBoard[IF k < i THEN k ELSE k + 1]
            /\ UNCHANGED toDaemon
         \/ /\ \E i \in 1 .. Len(toDaemon) :
                  /\ DOMAIN toDaemon' = 1 .. Len(toDaemon) - 1 /\ Len(toDaemon') = Len(toDaemon) - 1
                  /\ \A k \in 1 .. Len(toDaemon) - 1 :
                       toDaemon'[k] = toDaemon[IF k < i THEN k ELSE k + 1]
            /\ UNCHANGED toBoard
<1>1. CASE \E i \in 1 .. Len(toBoard) : toBoard[i].reg \in Lossy /\ toBoard' = RemoveAt(toBoard, i) /\ UNCHANGED toDaemon
  <2>1. PICK i \in 1 .. Len(toBoard) : toBoard[i].reg \in Lossy /\ toBoard' = RemoveAt(toBoard, i)
    BY <1>1
  <2>2. toBoard' \in Seq(ToBoard)
    BY <2>1, Flows, Removed
  <2>3. DOMAIN toBoard' = 1 .. Len(toBoard')
    BY <2>2, LenProperties
  <2>4. /\ Len(toBoard') = Len(toBoard) - 1
        /\ \A k \in 1 .. Len(toBoard) - 1 : toBoard'[k] = toBoard[IF k < i THEN k ELSE k + 1]
    BY <2>1, Flows, Removed
  <2> QED
    BY <1>1, <2>1, <2>3, <2>4
<1>2. CASE \E i \in 1 .. Len(toDaemon) : toDaemon' = RemoveAt(toDaemon, i) /\ UNCHANGED toBoard
  <2>1. PICK i \in 1 .. Len(toDaemon) : toDaemon' = RemoveAt(toDaemon, i)
    BY <1>2
  <2>2. toDaemon' \in Seq(ToDaemon)
    BY <2>1, Flows, Removed
  <2>3. DOMAIN toDaemon' = 1 .. Len(toDaemon')
    BY <2>2, LenProperties
  <2>4. /\ Len(toDaemon') = Len(toDaemon) - 1
        /\ \A k \in 1 .. Len(toDaemon) - 1 : toDaemon'[k] = toDaemon[IF k < i THEN k ELSE k + 1]
    BY <2>1, Flows, Removed
  <2> QED
    BY <1>2, <2>1, <2>3, <2>4
<1> QED
  BY <1>1, <1>2 DEF Lose

-----------------------------------------------------------------------------
(* Most steps leave the writes of sendCmdEthe in their order, and the      *)
(* answers in theirs, or take some away.                                   *)

IsOrder(x) == x.reg \in {"MASTER_DATA", "MASTER_DREADY"}

NoNewOrders ==
  DOMAIN toBoard' \subseteq Nat /\
  \E f \in [DOMAIN toBoard' -> Nat] :
    /\ \A i \in DOMAIN toBoard' :
         IsOrder(toBoard'[i]) => f[i] \in DOMAIN toBoard /\ toBoard'[i] = toBoard[f[i]]
    /\ \A i, j \in DOMAIN toBoard' : i < j => f[i] < f[j]

NoNewWords ==
  \E f \in [DOMAIN toDaemon' -> Nat] :
    /\ \A k \in DOMAIN toDaemon' :
         f[k] \in DOMAIN toDaemon /\ toDaemon'[k] = toDaemon[f[k]]
    /\ \A k, l \in DOMAIN toDaemon' : k < l => f[k] < f[l]

LEMMA OrdersKept == ASSUME TypeInv, UNCHANGED toBoard PROVE NoNewOrders
<1>1. DOMAIN toBoard' = DOMAIN toBoard /\ DOMAIN toBoard \subseteq Nat
  BY Flows
<1> DEFINE f == [i \in DOMAIN toBoard' |-> i]
<1>3. f \in [DOMAIN toBoard' -> Nat]
  BY <1>1
<1>4. \A i \in DOMAIN toBoard' : f[i] = i
  OBVIOUS
<1> HIDE DEF f
<1> QED
  BY <1>1, <1>3, <1>4 DEF NoNewOrders

LEMMA OrdersAdded ==
  ASSUME TypeInv, NEW x \in ToBoard, ~IsOrder(x), toBoard' = Append(toBoard, x) PROVE NoNewOrders
<1>1. /\ DOMAIN toBoard' = 1 .. Len(toBoard) + 1 /\ toBoard'[Len(toBoard) + 1] = x
      /\ \A i \in 1 .. Len(toBoard) : toBoard'[i] = toBoard[i]
  BY Sent
<1>2. Len(toBoard) \in Nat /\ DOMAIN toBoard = 1 .. Len(toBoard)
  BY Flows
<1> DEFINE f == [i \in DOMAIN toBoard' |-> i]
<1>3. f \in [DOMAIN toBoard' -> Nat] /\ \A i \in DOMAIN toBoard' : f[i] = i
  BY <1>1, <1>2
<1>4. \A i \in DOMAIN toBoard' : i \in DOMAIN toBoard \/ i = Len(toBoard) + 1
  BY <1>1, <1>2
<1> HIDE DEF f
<1> QED
  BY <1>1, <1>2, <1>3, <1>4 DEF NoNewOrders

LEMMA OrdersDelivered == ASSUME TypeInv, NEW regs, Arrives(regs) PROVE NoNewOrders
<1>1. /\ Len(toBoard) \in Nat \ {0} /\ DOMAIN toBoard' = 1 .. Len(toBoard) - 1
      /\ \A i \in 1 .. Len(toBoard) - 1 : toBoard'[i] = toBoard[i + 1]
  BY Delivered
<1>2. DOMAIN toBoard = 1 .. Len(toBoard)
  BY Flows
<1> DEFINE f == [i \in DOMAIN toBoard' |-> i + 1]
<1>3. f \in [DOMAIN toBoard' -> Nat] /\ \A i \in DOMAIN toBoard' : f[i] = i + 1
  BY <1>1
<1>4. \A i \in DOMAIN toBoard' : i \in Nat /\ i + 1 \in DOMAIN toBoard
  BY <1>1, <1>2
<1> HIDE DEF f
<1>5. \A i \in DOMAIN toBoard' : f[i] \in DOMAIN toBoard /\ toBoard'[i] = toBoard[f[i]]
  BY <1>1, <1>3, <1>4
<1> QED
  BY <1>3, <1>4, <1>5 DEF NoNewOrders

LEMMA WordsKept == ASSUME TypeInv, UNCHANGED toDaemon PROVE NoNewWords
<1>1. DOMAIN toDaemon' = DOMAIN toDaemon /\ DOMAIN toDaemon \subseteq Nat
  BY Flows
<1> DEFINE f == [i \in DOMAIN toDaemon' |-> i]
<1>2. f \in [DOMAIN toDaemon' -> Nat] /\ \A i \in DOMAIN toDaemon' : f[i] = i
  BY <1>1
<1> HIDE DEF f
<1> QED
  BY <1>1, <1>2 DEF NoNewWords

LEMMA WordsTaken == ASSUME TypeInv, TakeAnswer PROVE NoNewWords
<1>1. /\ Len(toDaemon) \in Nat \ {0} /\ DOMAIN toDaemon' = 1 .. Len(toDaemon) - 1
      /\ \A k \in 1 .. Len(toDaemon) - 1 : toDaemon'[k] = toDaemon[k + 1]
  BY Replied
<1>2. DOMAIN toDaemon = 1 .. Len(toDaemon)
  BY Flows
<1> DEFINE f == [k \in DOMAIN toDaemon' |-> k + 1]
<1>3. f \in [DOMAIN toDaemon' -> Nat] /\ \A k \in DOMAIN toDaemon' : f[k] = k + 1
  BY <1>1
<1>4. \A k \in DOMAIN toDaemon' : k \in Nat /\ k + 1 \in DOMAIN toDaemon
  BY <1>1, <1>2
<1> HIDE DEF f
<1>5. \A k \in DOMAIN toDaemon' : f[k] \in DOMAIN toDaemon /\ toDaemon'[k] = toDaemon[f[k]]
  BY <1>1, <1>3, <1>4
<1> QED
  BY <1>3, <1>4, <1>5 DEF NoNewWords

LEMMA SomeLost == ASSUME TypeInv, Lose PROVE NoNewOrders /\ NoNewWords
<1>0. /\ Len(toBoard) \in Nat /\ DOMAIN toBoard = 1 .. Len(toBoard)
      /\ Len(toDaemon) \in Nat /\ DOMAIN toDaemon = 1 .. Len(toDaemon)
  BY Flows
<1>1. ASSUME NEW i \in 1 .. Len(toBoard), DOMAIN toBoard' = 1 .. Len(toBoard) - 1,
             \A k \in 1 .. Len(toBoard) - 1 : toBoard'[k] = toBoard[IF k < i THEN k ELSE k + 1]
      PROVE  NoNewOrders
  <2> DEFINE f == [k \in DOMAIN toBoard' |-> IF k < i THEN k ELSE k + 1]
  <2>1. f \in [DOMAIN toBoard' -> Nat] /\ \A k \in DOMAIN toBoard' : f[k] = IF k < i THEN k ELSE k + 1
    BY <1>0, <1>1
  <2>2. \A k \in DOMAIN toBoard' : k \in Nat /\ f[k] \in DOMAIN toBoard
    BY <1>0, <1>1, <2>1
  <2> HIDE DEF f
  <2>3. \A k \in DOMAIN toBoard' : toBoard'[k] = toBoard[f[k]]
    BY <1>1, <2>1
  <2>4. \A k, l \in DOMAIN toBoard' : k < l => f[k] < f[l]
    BY <2>1, <2>2
  <2> QED
    BY <2>1, <2>2, <2>3, <2>4 DEF NoNewOrders
<1>2. ASSUME NEW i \in 1 .. Len(toDaemon), DOMAIN toDaemon' = 1 .. Len(toDaemon) - 1,
             \A k \in 1 .. Len(toDaemon) - 1 : toDaemon'[k] = toDaemon[IF k < i THEN k ELSE k + 1]
      PROVE  NoNewWords
  <2> DEFINE f == [k \in DOMAIN toDaemon' |-> IF k < i THEN k ELSE k + 1]
  <2>1. f \in [DOMAIN toDaemon' -> Nat] /\ \A k \in DOMAIN toDaemon' : f[k] = IF k < i THEN k ELSE k + 1
    BY <1>0, <1>2
  <2>2. \A k \in DOMAIN toDaemon' : k \in Nat /\ f[k] \in DOMAIN toDaemon
    BY <1>0, <1>2, <2>1
  <2> HIDE DEF f
  <2>3. \A k \in DOMAIN toDaemon' : toDaemon'[k] = toDaemon[f[k]]
    BY <1>2, <2>1
  <2>4. \A k, l \in DOMAIN toDaemon' : k < l => f[k] < f[l]
    BY <2>1, <2>2
  <2> QED
    BY <2>1, <2>2, <2>3, <2>4 DEF NoNewWords
<1>3. UNCHANGED toDaemon \/ UNCHANGED toBoard
  BY DEF Lose
<1>4. NoNewOrders
  BY <1>1, Lost, OrdersKept
<1>5. NoNewWords
  BY <1>2, Lost, WordsKept
<1> QED
  BY <1>4, <1>5

LEMMA OrderKept ==
  ASSUME CInv, NoNewOrders, NoNewWords, mdack' = mdack,
         pc' = pc \/ (pc \notin SendSteps /\ pc' \notin SendSteps)
  PROVE  Ahead' /\ Ordered'
<1>1. Ahead /\ Ordered
  BY DEF CInv
<1>3. PICK f \in [DOMAIN toBoard' -> Nat] :
        /\ \A i \in DOMAIN toBoard' :
             IsOrder(toBoard'[i]) => f[i] \in DOMAIN toBoard /\ toBoard'[i] = toBoard[f[i]]
        /\ \A i, j \in DOMAIN toBoard' : i < j => f[i] < f[j]
  BY DEF NoNewOrders
<1>4. PICK g \in [DOMAIN toDaemon' -> Nat] :
        /\ \A k \in DOMAIN toDaemon' :
             g[k] \in DOMAIN toDaemon /\ toDaemon'[k] = toDaemon[g[k]]
        /\ \A k, l \in DOMAIN toDaemon' : k < l => g[k] < g[l]
  BY DEF NoNewWords
<1>5. \A i \in DOMAIN toBoard' : StartsText(toBoard'[i]) \/ EndsText(toBoard'[i]) => IsOrder(toBoard'[i])
  BY DEF StartsText, EndsText, IsOrder
<1>6. /\ NoStartSent => NoStartSent'
      /\ NoEndSent => NoEndSent'
      /\ NoStartAnswered => NoStartAnswered'
  BY <1>3, <1>4, <1>5 DEF NoStartSent, NoEndSent, NoStartAnswered
<1>7. Ahead'
  <2> SUFFICES ASSUME NEW p \in Posted'
               PROVE  /\ mdack' # "dack_start" /\ NoStartAnswered'
                      /\ \A i \in DOMAIN toBoard' : i < p => ~StartsText(toBoard'[i])
    BY DEF Ahead
  <2>1. p \in DOMAIN toBoard' /\ toBoard'[p].reg = "MASTER_DATA"
    BY DEF Posted
  <2>2. f[p] \in Posted
    BY <1>3, <2>1 DEF Posted, IsOrder
  <2>3. /\ mdack # "dack_start" /\ NoStartAnswered
        /\ \A i \in DOMAIN toBoard : i < f[p] => ~StartsText(toBoard[i])
    BY <1>1, <2>2 DEF Ahead
  <2>4. ASSUME NEW i \in DOMAIN toBoard', i < p, StartsText(toBoard'[i]) PROVE FALSE
    BY <1>3, <1>5, <2>1, <2>3, <2>4
  <2> QED
    BY <1>6, <2>3, <2>4
<1>8. EndsThenStarts => EndsThenStarts'
  <2> SUFFICES ASSUME EndsThenStarts PROVE EndsThenStarts'
    OBVIOUS
  <2>1. \A i, j \in DOMAIN toBoard' : i < j /\ StartsText(toBoard'[i]) => ~EndsText(toBoard'[j])
    BY <1>3, <1>5 DEF EndsThenStarts
  <2>2. mdack' = "dack_start" => NoEndSent'
    BY <1>6 DEF EndsThenStarts
  <2>3. \A k \in DOMAIN toDaemon' : toDaemon'[k].word = "dack_start" =>
          /\ mdack' = "dack_start"
          /\ \A l \in DOMAIN toDaemon' : k < l => toDaemon'[l].word # "dack_end"
    BY <1>4 DEF EndsThenStarts
  <2> QED
    BY <2>1, <2>2, <2>3 DEF EndsThenStarts
<1>9. StartsThenEnds => StartsThenEnds'
  <2> SUFFICES ASSUME StartsThenEnds PROVE StartsThenEnds'
    OBVIOUS
  <2>1. \A i, j \in DOMAIN toBoard' : i < j /\ EndsText(toBoard'[i]) => ~StartsText(toBoard'[j])
    BY <1>3, <1>5 DEF StartsThenEnds
  <2>2. mdack' # "dack_start" => NoStartSent'
    BY <1>6 DEF StartsThenEnds
  <2>3. \A k \in DOMAIN toDaemon' : toDaemon'[k].word = "dack_end" =>
          /\ mdack' # "dack_start"
          /\ \A l \in DOMAIN toDaemon' : k < l => toDaemon'[l].word # "dack_start"
    BY <1>4 DEF StartsThenEnds
  <2> QED
    BY <2>1, <2>2, <2>3 DEF StartsThenEnds
<1>10. AllEnded => AllEnded'
  BY <1>6 DEF AllEnded
<1>11. Ordered'
  BY <1>1, <1>8, <1>9, <1>10 DEF Ordered, SendSteps
<1> QED
  BY <1>7, <1>11

(* A step that neither posts, takes nor loses a command. *)
LEMMA PostedKept ==
  ASSUME CInv, NoNewOrders, UNCHANGED <<commands, executed>>,
         Posted # {} => Posted' # {} /\ pc' = pc
  PROVE  OneCommand'
<1>1. PICK f \in [DOMAIN toBoard' -> Nat] :
        /\ \A i \in DOMAIN toBoard' :
             IsOrder(toBoard'[i]) => f[i] \in DOMAIN toBoard /\ toBoard'[i] = toBoard[f[i]]
        /\ \A i, j \in DOMAIN toBoard' : i < j => f[i] < f[j]
  BY DEF NoNewOrders
<1>2. \A p \in Posted' : p \in DOMAIN toBoard' /\ f[p] \in Posted /\ f[p] \in Nat
  BY <1>1 DEF Posted, IsOrder
<1>3. DOMAIN toBoard' \subseteq Nat
  BY DEF NoNewOrders
<1>4. ASSUME NEW p \in Posted', NEW q \in Posted' PROVE p = q
  <2>1. f[p] = f[q]
    BY <1>2 DEF CInv, OneCommand
  <2>2. p \in DOMAIN toBoard' /\ q \in DOMAIN toBoard' /\ p \in Nat /\ q \in Nat
    BY <1>2, <1>3
  <2>3. ~(p < q) /\ ~(q < p)
    BY <1>1, <1>2, <2>1, <2>2
  <2> QED
    BY <2>2, <2>3
<1>5. Posted' = {} <=> Posted = {}
  BY <1>2
<1> QED
  BY <1>4, <1>5 DEF CInv, OneCommand

CommandInv == OneCommand /\ Ahead /\ Ordered

LEMMA SendCmdStep == ASSUME CInv, SendCmd PROVE CommandInv'
<1>1. WriteTo("MASTER_DATA", "text") \in ToBoard /\ WriteTo("MASTER_DATA", "text").reg = "MASTER_DATA"
  BY DEF WriteTo, ToBoard, WriteRegs, Words
<1>2. pc = "idle" /\ pc' = "m_start" /\ commands' = commands + 1 /\ UNCHANGED <<executed, toDaemon, mdack>>
  BY DEF SendCmd
<1>3. AllEnded /\ Posted = {} /\ commands = executed
  BY <1>2 DEF CInv, OneCommand, Ordered, SendSteps
<1>4. commands \in Nat /\ executed \in Nat
  BY TypeParts DEF CInv, TypeInv, Counters
<1> DEFINE n == Len(toBoard) + 1
<1>5. /\ n \in Nat \ {0} /\ DOMAIN toBoard' = 1 .. n /\ toBoard'[n].reg = "MASTER_DATA"
      /\ DOMAIN toBoard = 1 .. n - 1 /\ \A i \in 1 .. n - 1 : toBoard'[i] = toBoard[i]
  BY <1>1, Sent, Flows DEF CInv, SendCmd
<1> HIDE DEF n
<1>6. Posted' = {n}
  <2>1. \A i \in DOMAIN toBoard' : (i \in DOMAIN toBoard /\ toBoard'[i] = toBoard[i]) \/ i = n
    BY <1>5
  <2>2. n \in Posted'
    BY <1>5 DEF Posted
  <2>3. \A i \in Posted' : i = n
    BY <1>3, <2>1 DEF Posted
  <2> QED
    BY <2>2, <2>3
<1>7. OneCommand'
  BY <1>2, <1>3, <1>4, <1>6 DEF OneCommand
<1>8. \A i \in DOMAIN toBoard' : ~StartsText(toBoard'[i])
  BY <1>3, <1>5 DEF AllEnded, NoStartSent, StartsText
<1>9. Ahead'
  BY <1>2, <1>3, <1>8 DEF Ahead, AllEnded, NoStartAnswered
<1>10. EndsThenStarts'
  BY <1>2, <1>3, <1>8 DEF EndsThenStarts, AllEnded, NoStartAnswered
<1> QED
  BY <1>2, <1>7, <1>9, <1>10 DEF CommandInv, Ordered, SendSteps

LEMMA AskStep == ASSUME CInv, Ask PROVE CommandInv'
<1>0. pc \in SendSteps \cup RecvSteps
  BY DEF Ask
<1>1. Request.reg \in ReadRegs /\ Request \in ToBoard
  <2>1. Request \in ToBoard
    BY <1>0, RequestType DEF CInv, TypeInv
  <2> QED
    BY <1>0, <2>1 DEF Request, ReadFrom, ReadRegs, SendSteps, RecvSteps
<1>2. UNCHANGED <<pc, commands, executed, toDaemon, mdack>>
  BY DEF Ask
<1>3. NoNewWords
  BY <1>2, WordsKept DEF CInv
<1>4. CASE pc \in SendSteps
  <2>1. PICK v : /\ Len(toBoard') = Len(toBoard) + 2 /\ DOMAIN toBoard' = 1 .. Len(toBoard')
                 /\ toBoard'[Len(toBoard')] = Request
                 /\ toBoard'[Len(toBoard) + 1] = WriteTo("MASTER_DREADY", v)
                 /\ pc = "m_start" => v = "dready_start"
                 /\ pc = "m_end" => v = "dready_end"
                 /\ \A i \in 1 .. Len(toBoard) : toBoard'[i] = toBoard[i]
    BY <1>4, Asked DEF CInv, SendSteps
  <2> DEFINE n == Len(toBoard) + 1
  <2>2. /\ n \in Nat \ {0} /\ DOMAIN toBoard' = 1 .. n + 1 /\ DOMAIN toBoard = 1 .. n - 1
        /\ toBoard'[n].reg = "MASTER_DREADY" /\ toBoard'[n].val = v /\ toBoard'[n + 1].reg \in ReadRegs
        /\ \A i \in 1 .. n - 1 : toBoard'[i] = toBoard[i]
    BY <1>1, <2>1, Flows DEF CInv, WriteTo
  <2> HIDE DEF n
  <2>3. \A i \in DOMAIN toBoard' : i \in DOMAIN toBoard \/ i = n \/ i = n + 1
    BY <2>2
  <2>4. Posted' = Posted /\ \A p \in Posted : p < n
    BY <2>2, <2>3 DEF Posted, ReadRegs
  <2>5. OneCommand'
    BY <1>2, <2>4 DEF CInv, OneCommand
  <2>6. Ahead'
    <3> SUFFICES ASSUME NEW p \in Posted'
                 PROVE  /\ mdack' # "dack_start" /\ NoStartAnswered'
                        /\ \A i \in DOMAIN toBoard' : i < p => ~StartsText(toBoard'[i])
      BY DEF Ahead
    <3>1. p \in Posted /\ p < n
      BY <2>4
    <3>2. \A i \in DOMAIN toBoard' : i < p => i \in DOMAIN toBoard /\ toBoard'[i] = toBoard[i]
      <4>1. p \in Nat
        BY <2>2, <3>1 DEF Posted
      <4> QED
        BY <2>2, <3>1, <4>1
    <3>3. mdack' # "dack_start" /\ NoStartAnswered'
      BY <1>2, <3>1 DEF CInv, Ahead, NoStartAnswered
    <3> QED
      BY <3>1, <3>2, <3>3 DEF CInv, Ahead, StartsText
  <2>7. CASE pc = "m_start"
    <3>1. v = "dready_start" /\ EndsThenStarts
      BY <2>1, <2>7 DEF CInv, Ordered
    <3>2. \A i \in DOMAIN toBoard' : EndsText(toBoard'[i]) => i \in DOMAIN toBoard /\ EndsText(toBoard[i])
      BY <2>2, <2>3, <3>1 DEF EndsText, ReadRegs
    <3>3. \A i, j \in DOMAIN toBoard' : i < j /\ StartsText(toBoard'[i]) => ~EndsText(toBoard'[j])
      BY <2>2, <3>1, <3>2 DEF EndsThenStarts
    <3>4. EndsThenStarts'
      BY <1>2, <3>1, <3>2, <3>3 DEF EndsThenStarts, NoEndSent
    <3> QED
      BY <1>2, <2>5, <2>6, <2>7, <3>4 DEF CommandInv, Ordered, SendSteps
  <2>8. CASE pc = "m_end"
    <3>1. v = "dready_end" /\ StartsThenEnds
      BY <2>1, <2>8 DEF CInv, Ordered
    <3>2. \A i \in DOMAIN toBoard' : StartsText(toBoard'[i]) => i \in DOMAIN toBoard /\ StartsText(toBoard[i])
      BY <2>2, <2>3, <3>1 DEF StartsText, ReadRegs
    <3>3. \A i, j \in DOMAIN toBoard' : i < j /\ EndsText(toBoard'[i]) => ~StartsText(toBoard'[j])
      BY <2>2, <3>1, <3>2 DEF StartsThenEnds
    <3>4. StartsThenEnds'
      BY <1>2, <3>1, <3>2, <3>3 DEF StartsThenEnds, NoStartSent
    <3> QED
      BY <1>2, <2>5, <2>6, <2>8, <3>4 DEF CommandInv, Ordered, SendSteps
  <2> QED
    BY <1>4, <2>7, <2>8 DEF SendSteps
<1>5. CASE pc \notin SendSteps
  <2>1. toBoard' = toBoard \o <<Request>>
    BY <1>5 DEF Ask, SendSteps
  <2>2. toBoard' = Append(toBoard, Request) /\ ~IsOrder(Request)
    BY <1>1, <2>1, Flows, AppendIsConcat DEF CInv, IsOrder, ReadRegs
  <2>3. NoNewOrders
    BY <1>1, <2>2, OrdersAdded DEF CInv
  <2>4. Posted = {}
    BY <1>5 DEF CInv, OneCommand, SendSteps
  <2> QED
    BY <1>2, <1>3, <2>3, <2>4, OrderKept, PostedKept DEF CommandInv
<1> QED
  BY <1>4, <1>5

LEMMA MasterAckStep == ASSUME CInv, MasterAck PROVE CommandInv'
<1>1. /\ Len(toDaemon) \in Nat \ {0} /\ DOMAIN toDaemon' = 1 .. Len(toDaemon) - 1
      /\ \A k \in 1 .. Len(toDaemon) - 1 : toDaemon'[k] = toDaemon[k + 1]
      /\ Answer = toDaemon[1] /\ DOMAIN toDaemon = 1 .. Len(toDaemon)
  BY Replied, Flows DEF MasterAck, CInv
<1>2. UNCHANGED <<commands, executed, toBoard, mdack>> /\ pc \in SendSteps
  BY DEF MasterAck
<1>3. NoNewOrders /\ NoNewWords
  BY <1>2, OrdersKept, WordsTaken DEF MasterAck, CInv
<1>4. Posted' = Posted
  BY <1>2 DEF Posted
<1>5. \A k \in DOMAIN toDaemon' : k + 1 \in DOMAIN toDaemon /\ 1 < k + 1 /\ toDaemon'[k] = toDaemon[k + 1]
  BY <1>1
<1>6. 1 \in DOMAIN toDaemon /\ toDaemon[1] = Answer
  BY <1>1
<1>7. CASE pc = "m_start" /\ Answer.word = "dack_start"
  <2>1. pc' = "m_end" /\ EndsThenStarts
    BY <1>7 DEF MasterAck, CInv, Ordered
  <2>2. Posted = {} /\ mdack = "dack_start" /\ NoEndSent
    BY <1>6, <1>7, <2>1 DEF CInv, Ahead, NoStartAnswered, EndsThenStarts
  <2>3. \A k \in DOMAIN toDaemon' : toDaemon'[k].word # "dack_end"
    BY <1>5, <1>6, <1>7, <2>1 DEF EndsThenStarts
  <2>4. StartsThenEnds'
    BY <1>2, <2>2, <2>3 DEF StartsThenEnds, NoEndSent
  <2>5. OneCommand' /\ Ahead'
    BY <1>2, <1>4, <2>2 DEF OneCommand, Ahead, CInv
  <2> QED
    BY <2>1, <2>4, <2>5 DEF CommandInv, Ordered, SendSteps
<1>8. CASE pc = "m_end" /\ Answer.word = "dack_end"
  <2>1. pc' = "s_ready" /\ StartsThenEnds
    BY <1>8 DEF MasterAck, CInv, Ordered
  <2>2. Posted = {} /\ mdack # "dack_start" /\ NoStartSent
    BY <1>6, <1>8, <2>1 DEF CInv, OneCommand, StartsThenEnds
  <2>3. \A k \in DOMAIN toDaemon' : toDaemon'[k].word # "dack_start"
    BY <1>5, <1>6, <1>8, <2>1 DEF StartsThenEnds
  <2>4. AllEnded'
    BY <1>2, <2>2, <2>3 DEF AllEnded, NoStartSent, NoStartAnswered
  <2>5. OneCommand' /\ Ahead'
    BY <1>2, <1>4, <2>2 DEF OneCommand, Ahead, CInv
  <2> QED
    BY <2>1, <2>4, <2>5 DEF CommandInv, Ordered, SendSteps
<1>9. CASE pc' = pc
  BY <1>2, <1>3, <1>4, <1>9, OrderKept, PostedKept DEF CommandInv
<1> QED
  BY <1>7, <1>8, <1>9 DEF MasterAck

LEMMA HandleCommandStep == ASSUME CInv, HandleCommand PROVE CommandInv'
<1>1. /\ Len(toBoard) \in Nat \ {0} /\ DOMAIN toBoard' = 1 .. Len(toBoard) - 1
      /\ \A i \in 1 .. Len(toBoard) - 1 : toBoard'[i] = toBoard[i + 1]
      /\ toBoard[1].reg = "MASTER_DATA" /\ DOMAIN toBoard = 1 .. Len(toBoard)
  <2>1. TypeInv /\ Arrives({"MASTER_DATA"})
    BY DEF HandleCommand, CInv
  <2>2. toBoard[1].reg \in {"MASTER_DATA"}
    BY <2>1, Delivered
  <2> QED
    BY <2>1, <2>2, Delivered, Flows
<1>2. UNCHANGED <<pc, commands, toDaemon, mdack>> /\ executed' = executed + 1
  BY DEF HandleCommand
<1>3. 1 \in Posted
  BY <1>1 DEF Posted
<1>4. \A p \in Posted : p = 1
  BY <1>3 DEF CInv, OneCommand
<1>5. \A p \in DOMAIN toBoard' : p + 1 \in DOMAIN toBoard /\ p + 1 # 1 /\ toBoard'[p] = toBoard[p + 1]
  BY <1>1
<1>6. Posted' = {}
  BY <1>4, <1>5 DEF Posted
<1>7. OneCommand' /\ Ahead'
  BY <1>2, <1>3, <1>6 DEF CInv, OneCommand, Ahead
<1>8. NoNewOrders /\ NoNewWords
  BY <1>2, OrdersDelivered, WordsKept DEF CInv, HandleCommand
<1>9. Ordered'
  BY <1>2, <1>8, OrderKept
<1> QED
  BY <1>7, <1>9 DEF CommandInv

LEMMA HandleMasterReadyStep == ASSUME CInv, HandleMasterReady PROVE CommandInv'
<1>1. /\ Len(toBoard) \in Nat \ {0} /\ DOMAIN toBoard' = 1 .. Len(toBoard) - 1
      /\ \A i \in 1 .. Len(toBoard) - 1 : toBoard'[i] = toBoard[i + 1]
      /\ Head(toBoard) = toBoard[1] /\ toBoard[1].reg = "MASTER_DREADY" /\ DOMAIN toBoard = 1 .. Len(toBoard)
  <2>1. TypeInv /\ Arrives({"MASTER_DREADY"})
    BY DEF HandleMasterReady, CInv
  <2>2. toBoard[1].reg \in {"MASTER_DREADY"}
    BY <2>1, Delivered
  <2> QED
    BY <2>1, <2>2, Delivered, Flows
<1>2. /\ UNCHANGED <<pc, commands, executed, toDaemon>>
      /\ mdack' = IF toBoard[1].val = "dready_start" THEN "dack_start" ELSE "dack_end"
  BY <1>1 DEF HandleMasterReady
<1>3. \A i \in DOMAIN toBoard' : i \in Nat /\ i >= 1 /\ i + 1 \in DOMAIN toBoard /\ toBoard'[i] = toBoard[i + 1]
  BY <1>1
<1>4. 1 \in DOMAIN toBoard /\ (StartsText(toBoard[1]) \/ EndsText(toBoard[1]))
  BY <1>1 DEF StartsText, EndsText
<1>5. /\ StartsText(toBoard[1]) => mdack' = "dack_start"
      /\ EndsText(toBoard[1]) => mdack' = "dack_end"
  BY <1>2 DEF StartsText, EndsText
<1>6. Posted # {} => Posted' # {} /\ ~StartsText(toBoard[1])
  <2> SUFFICES ASSUME NEW p \in Posted PROVE Posted' # {} /\ ~StartsText(toBoard[1])
    OBVIOUS
  <2>1. p \in 1 .. Len(toBoard) /\ p # 1 /\ toBoard[p].reg = "MASTER_DATA"
    BY <1>1 DEF Posted
  <2>2. p - 1 \in DOMAIN toBoard' /\ toBoard'[p - 1] = toBoard[p] /\ 1 < p
    BY <1>1, <2>1
  <2>3. p - 1 \in Posted'
    BY <2>1, <2>2 DEF Posted
  <2>4. ~StartsText(toBoard[1])
    BY <1>1, <2>2 DEF CInv, Ahead
  <2> QED
    BY <2>3, <2>4
<1>7. OneCommand'
  <2>1. NoNewOrders
    BY OrdersDelivered DEF CInv, HandleMasterReady
  <2> QED
    BY <1>2, <1>6, <2>1, PostedKept
<1>8. Ahead'
  <2> SUFFICES ASSUME NEW p \in Posted'
               PROVE  /\ mdack' # "dack_start" /\ NoStartAnswered'
                      /\ \A i \in DOMAIN toBoard' : i < p => ~StartsText(toBoard'[i])
    BY DEF Ahead
  <2>1. p \in DOMAIN toBoard' /\ p + 1 \in Posted
    BY <1>3 DEF Posted
  <2>2. mdack' # "dack_start" /\ NoStartAnswered'
    BY <1>2, <1>4, <1>5, <1>6, <2>1 DEF CInv, Ahead, NoStartAnswered
  <2> QED
    BY <1>3, <2>1, <2>2 DEF CInv, Ahead
<1>9. EndsThenStarts => EndsThenStarts'
  <2> SUFFICES ASSUME EndsThenStarts PROVE EndsThenStarts'
    OBVIOUS
  <2>1. \A i, j \in DOMAIN toBoard' : i < j /\ StartsText(toBoard'[i]) => ~EndsText(toBoard'[j])
    BY <1>3 DEF EndsThenStarts
  <2>2. CASE StartsText(toBoard[1])
    <3>1. NoEndSent'
      BY <1>1, <1>3, <2>2 DEF EndsThenStarts, NoEndSent
    <3> QED
      BY <1>2, <1>5, <2>1, <2>2, <3>1 DEF EndsThenStarts
  <2>3. CASE EndsText(toBoard[1])
    <3>1. mdack # "dack_start"
      BY <1>1, <2>3 DEF EndsThenStarts, NoEndSent
    <3> QED
      BY <1>2, <1>5, <2>1, <2>3, <3>1 DEF EndsThenStarts
  <2> QED
    BY <1>4, <2>2, <2>3, <1>1 DEF StartsText, EndsText
<1>10. StartsThenEnds => StartsThenEnds'
  <2> SUFFICES ASSUME StartsThenEnds PROVE StartsThenEnds'
    OBVIOUS
  <2>1. \A i, j \in DOMAIN toBoard' : i < j /\ EndsText(toBoard'[i]) => ~StartsText(toBoard'[j])
    BY <1>3 DEF StartsThenEnds
  <2>2. CASE EndsText(toBoard[1])
    <3>1. NoStartSent'
      BY <1>1, <1>3, <2>2 DEF StartsThenEnds, NoStartSent
    <3> QED
      BY <1>2, <1>5, <2>1, <2>2, <3>1 DEF StartsThenEnds
  <2>3. CASE StartsText(toBoard[1])
    <3>1. mdack = "dack_start"
      BY <1>1, <2>3 DEF StartsThenEnds, NoStartSent
    <3> QED
      BY <1>2, <1>5, <2>1, <2>3, <3>1 DEF StartsThenEnds
  <2> QED
    BY <1>1, <2>2, <2>3 DEF StartsText, EndsText
<1>11. AllEnded => AllEnded'
  BY <1>1, <1>2, <1>3, <1>4, <1>5 DEF AllEnded, NoStartSent, NoStartAnswered, StartsText, EndsText
<1>12. Ordered'
  BY <1>2, <1>9, <1>10, <1>11 DEF CInv, Ordered, SendSteps
<1> QED
  BY <1>7, <1>8, <1>12 DEF CommandInv

LEMMA HandleReadStep == ASSUME CInv, HandleRead PROVE CommandInv'
<1>1. /\ Len(toBoard) \in Nat \ {0} /\ DOMAIN toBoard' = 1 .. Len(toBoard) - 1
      /\ \A i \in 1 .. Len(toBoard) - 1 : toBoard'[i] = toBoard[i + 1]
      /\ toBoard[1].reg \in ReadRegs /\ DOMAIN toBoard = 1 .. Len(toBoard)
  <2>1. Arrives(ReadRegs)
    BY DEF HandleRead
  <2> QED
    BY <2>1, Delivered, Flows DEF CInv
<1>2. UNCHANGED <<pc, commands, executed, mdack>>
  BY DEF HandleRead
<1>3. \A i \in DOMAIN toBoard' : i \in Nat /\ i + 1 \in DOMAIN toBoard /\ toBoard'[i] = toBoard[i + 1]
  BY <1>1
<1>4. PICK x \in ToDaemon :
        /\ DOMAIN toDaemon' = 1 .. Len(toDaemon) + 1 /\ toDaemon'[Len(toDaemon) + 1] = x
        /\ \A k \in 1 .. Len(toDaemon) : toDaemon'[k] = toDaemon[k]
        /\ x.word \in {"dack_start", "dack_end"} => x.word = mdack
  BY Read DEF CInv
<1>5. Len(toDaemon) \in Nat /\ DOMAIN toDaemon = 1 .. Len(toDaemon)
  BY Flows DEF CInv
<1>6. \A k \in DOMAIN toDaemon' :
        /\ k \in Nat
        /\ \/ k \in DOMAIN toDaemon /\ toDaemon'[k] = toDaemon[k]
           \/ k = Len(toDaemon) + 1 /\ toDaemon'[k] = x /\ k \notin DOMAIN toDaemon
  BY <1>4, <1>5
<1>7. Posted # {} => Posted' # {}
  <2> SUFFICES ASSUME NEW p \in Posted PROVE Posted' # {}
    OBVIOUS
  <2>1. p \in 1 .. Len(toBoard) /\ p # 1 /\ toBoard[p].reg = "MASTER_DATA"
    BY <1>1 DEF Posted, ReadRegs
  <2>2. p - 1 \in DOMAIN toBoard' /\ toBoard'[p - 1] = toBoard[p]
    BY <1>1, <2>1
  <2>3. p - 1 \in Posted'
    BY <2>1, <2>2 DEF Posted
  <2> QED
    BY <2>3
<1>8. OneCommand'
  <2>1. NoNewOrders
    BY OrdersDelivered DEF CInv, HandleRead
  <2> QED
    BY <1>2, <1>7, <2>1, PostedKept
<1>9. mdack # "dack_start" /\ NoStartAnswered => NoStartAnswered'
  BY <1>4, <1>6 DEF NoStartAnswered
<1>10. Ahead'
  <2> SUFFICES ASSUME NEW p \in Posted'
               PROVE  /\ mdack' # "dack_start" /\ NoStartAnswered'
                      /\ \A i \in DOMAIN toBoard' : i < p => ~StartsText(toBoard'[i])
    BY DEF Ahead
  <2>1. p \in DOMAIN toBoard' /\ p + 1 \in Posted
    BY <1>3 DEF Posted
  <2>2. mdack' # "dack_start" /\ NoStartAnswered'
    BY <1>2, <1>9, <2>1 DEF CInv, Ahead
  <2> QED
    BY <1>3, <2>1, <2>2 DEF CInv, Ahead
<1>11. NoStartSent => NoStartSent'
  BY <1>3 DEF NoStartSent
<1>12. NoEndSent => NoEndSent'
  BY <1>3 DEF NoEndSent
<1>13. EndsThenStarts => EndsThenStarts'
  <2> SUFFICES ASSUME EndsThenStarts PROVE EndsThenStarts'
    OBVIOUS
  <2>1. \A i, j \in DOMAIN toBoard' : i < j /\ StartsText(toBoard'[i]) => ~EndsText(toBoard'[j])
    BY <1>3 DEF EndsThenStarts
  <2>2. ASSUME NEW k \in DOMAIN toDaemon', toDaemon'[k].word = "dack_start"
        PROVE  mdack' = "dack_start" /\ \A l \in DOMAIN toDaemon' : k < l => toDaemon'[l].word # "dack_end"
    <3>1. mdack = "dack_start"
      BY <1>4, <1>6, <2>2 DEF EndsThenStarts
    <3>2. x.word # "dack_end"
      BY <1>4, <3>1
    <3>3. ASSUME NEW l \in DOMAIN toDaemon', k < l PROVE toDaemon'[l].word # "dack_end"
      <4>1. CASE l \in DOMAIN toDaemon
        <5>1. k \in DOMAIN toDaemon
          BY <1>5, <1>6, <3>3, <4>1
        <5> QED
          BY <1>6, <2>2, <3>3, <4>1, <5>1 DEF EndsThenStarts
      <4>2. CASE l \notin DOMAIN toDaemon
        BY <1>6, <3>2, <4>2
      <4> QED
        BY <4>1, <4>2
    <3> QED
      BY <1>2, <3>1, <3>3
  <2> QED
    BY <1>2, <1>12, <2>1, <2>2 DEF EndsThenStarts
<1>14. StartsThenEnds => StartsThenEnds'
  <2> SUFFICES ASSUME StartsThenEnds PROVE StartsThenEnds'
    OBVIOUS
  <2>1. \A i, j \in DOMAIN toBoard' : i < j /\ EndsText(toBoard'[i]) => ~StartsText(toBoard'[j])
    BY <1>3 DEF StartsThenEnds
  <2>2. ASSUME NEW k \in DOMAIN toDaemon', toDaemon'[k].word = "dack_end"
        PROVE  mdack' # "dack_start" /\ \A l \in DOMAIN toDaemon' : k < l => toDaemon'[l].word # "dack_start"
    <3>1. mdack # "dack_start"
      BY <1>4, <1>6, <2>2 DEF StartsThenEnds
    <3>2. x.word # "dack_start"
      BY <1>4, <3>1
    <3>3. ASSUME NEW l \in DOMAIN toDaemon', k < l PROVE toDaemon'[l].word # "dack_start"
      <4>1. CASE l \in DOMAIN toDaemon
        <5>1. k \in DOMAIN toDaemon
          BY <1>5, <1>6, <3>3, <4>1
        <5> QED
          BY <1>6, <2>2, <3>3, <4>1, <5>1 DEF StartsThenEnds
      <4>2. CASE l \notin DOMAIN toDaemon
        BY <1>6, <3>2, <4>2
      <4> QED
        BY <4>1, <4>2
    <3> QED
      BY <1>2, <3>1, <3>3
  <2> QED
    BY <1>2, <1>11, <2>1, <2>2 DEF StartsThenEnds
<1>15. AllEnded => AllEnded'
  BY <1>2, <1>9, <1>11 DEF AllEnded
<1>16. Ordered'
  BY <1>2, <1>13, <1>14, <1>15 DEF CInv, Ordered, SendSteps
<1> QED
  BY <1>8, <1>10, <1>16 DEF CommandInv

LEMMA CommandStep ==
  ASSUME CInv, "MASTER_DATA" \notin Lossy, Next PROVE CommandInv'
<1>0. TypeInv /\ OneCommand
  BY DEF CInv
<1>1. CASE NoNewOrders /\ NoNewWords /\ UNCHANGED <<commands, executed, mdack>>
           /\ (pc' = pc \/ (pc \notin SendSteps /\ pc' \notin SendSteps))
           /\ (Posted # {} => Posted' # {})
  <2>1. Posted # {} => pc = "m_start"
    BY <1>0 DEF OneCommand
  <2>2. Posted # {} => Posted' # {} /\ pc' = pc
    BY <1>1, <2>1 DEF SendSteps
  <2>3. Ahead' /\ Ordered'
    BY <1>1, OrderKept
  <2>4. OneCommand'
    BY <1>1, <2>2, PostedKept
  <2> QED
    BY <2>3, <2>4 DEF CommandInv
<1>2. SendCmd => CommandInv'
  BY SendCmdStep
<1>3. Ask => CommandInv'
  BY AskStep
<1>4. MasterAck => CommandInv'
  BY MasterAckStep
<1>5. HandleCommand => CommandInv'
  BY HandleCommandStep
<1>6. HandleMasterReady => CommandInv'
  BY HandleMasterReadyStep
<1>7. HandleRead => CommandInv'
  BY HandleReadStep
<1>8. ASSUME UNCHANGED <<toBoard, toDaemon, commands, executed, mdack>>, pc \notin SendSteps, pc' \notin SendSteps
      PROVE  CommandInv'
  <2>1. NoNewOrders /\ NoNewWords /\ Posted' = Posted
    BY <1>0, <1>8, OrdersKept, WordsKept DEF Posted
  <2> QED
    BY <1>1, <1>8, <2>1
<1>9. CASE ListenForReadDone
  BY <1>8, <1>9 DEF ListenForReadDone, SendSteps
<1>10. CASE Drain
  BY <1>8, <1>10 DEF Drain, SendSteps
<1>11. CASE ListenReturns
  BY <1>8, <1>11 DEF ListenReturns, SendSteps, Heard
<1>12. CASE DrainReturns
  BY <1>8, <1>12 DEF DrainReturns, SendSteps
<1>13. CASE AskAgain
  <2>1. pc \in SendSteps \cup RecvSteps
    BY <1>0, <1>13 DEF TypeInv, AskedInCall, AskAgain
  <2>2. Request \in ToBoard
    BY <1>0, <2>1, RequestType DEF TypeInv
  <2>3. Request.reg \in ReadRegs
    BY <2>1 DEF Request, ReadFrom, ReadRegs, SendSteps, RecvSteps
  <2>4. toBoard' = Append(toBoard, Request) /\ UNCHANGED <<toDaemon, commands, executed, mdack, pc>>
    BY <1>13 DEF AskAgain
  <2>5. NoNewOrders
    BY <1>0, <2>2, <2>3, <2>4, OrdersAdded DEF IsOrder, ReadRegs
  <2>6. Posted # {} => Posted' # {}
    BY <1>0, <2>2, <2>4, Sent, Flows DEF Posted
  <2> QED
    BY <1>0, <1>1, <2>4, <2>5, <2>6, WordsKept
<1>14. ASSUME TakeAnswer, UNCHANGED <<toBoard, commands, executed, mdack>>, pc \notin SendSteps, pc' \notin SendSteps
       PROVE  CommandInv'
  <2>1. NoNewOrders /\ NoNewWords /\ Posted' = Posted
    BY <1>0, <1>14, OrdersKept, WordsTaken DEF Posted
  <2> QED
    BY <1>1, <1>14, <2>1
<1>15. CASE SlaveReady
  <2>1. TakeAnswer
    BY <1>15 DEF SlaveReady
  <2> QED
    BY <1>14, <1>15, <2>1 DEF SlaveReady, SendSteps
<1>16. CASE SlaveLength
  <2>1. TakeAnswer
    BY <1>16 DEF SlaveLength
  <2> QED
    BY <1>14, <1>16, <2>1 DEF SlaveLength, SendSteps
<1>17. ASSUME TakeAnswer, NEW v \in {"dack_start", "dack_end"}, toBoard' = Append(toBoard, WriteTo("SLAVE_DACK", v)),
              UNCHANGED <<commands, executed, mdack>>, pc \notin SendSteps, pc' \notin SendSteps
       PROVE  CommandInv'
  <2>1. WriteTo("SLAVE_DACK", v) \in ToBoard /\ ~IsOrder(WriteTo("SLAVE_DACK", v))
    BY DEF WriteTo, ToBoard, WriteRegs, Words, IsOrder
  <2>2. NoNewOrders /\ NoNewWords
    BY <1>0, <1>17, <2>1, OrdersAdded, WordsTaken
  <2>3. Posted = {}
    BY <1>0, <1>17 DEF OneCommand, SendSteps
  <2> QED
    BY <1>1, <1>17, <2>2, <2>3
<1>18. CASE SlaveData
  <2>1. TakeAnswer
    BY <1>18 DEF SlaveData
  <2> QED
    BY <1>17, <1>18, <2>1 DEF SlaveData, SendSteps
<1>19. CASE SlaveEnd
  <2>1. TakeAnswer
    BY <1>19 DEF SlaveEnd
  <2>2. UNCHANGED <<commands, executed, mdack>> /\ pc \notin SendSteps /\ pc' \notin SendSteps
    BY <1>19 DEF SlaveEnd, SendSteps
  <2>3. UNCHANGED toBoard \/ toBoard' = Append(toBoard, WriteTo("SLAVE_DACK", "dack_end"))
    BY <1>19 DEF SlaveEnd
  <2> QED
    BY <1>14, <1>17, <2>1, <2>2, <2>3
<1>20. CASE HandleSlaveAck
  <2>1. Arrives({"SLAVE_DACK"}) /\ UNCHANGED <<pc, toDaemon, commands, executed, mdack>>
    BY <1>20 DEF HandleSlaveAck
  <2>2. NoNewOrders /\ NoNewWords
    BY <1>0, <2>1, OrdersDelivered, WordsKept
  <2>3. Posted # {} => Posted' # {}
    <3> SUFFICES ASSUME NEW p \in Posted PROVE Posted' # {}
      OBVIOUS
    <3>1. toBoard[1].reg \in {"SLAVE_DACK"}
      BY <1>0, <2>1, Delivered
    <3>2. /\ Len(toBoard) \in Nat /\ DOMAIN toBoard = 1 .. Len(toBoard) /\ DOMAIN toBoard' = 1 .. Len(toBoard) - 1
          /\ \A i \in 1 .. Len(toBoard) - 1 : toBoard'[i] = toBoard[i + 1]
      BY <1>0, <2>1, Delivered, Flows
    <3>3. p \in 1 .. Len(toBoard) /\ p # 1 /\ toBoard[p].reg = "MASTER_DATA"
      BY <3>1, <3>2 DEF Posted
    <3>4. p - 1 \in DOMAIN toBoard' /\ toBoard'[p - 1] = toBoard[p]
      BY <3>2, <3>3
    <3>5. p - 1 \in Posted'
      BY <3>3, <3>4 DEF Posted
    <3> QED
      BY <3>5
  <2> QED
    BY <1>1, <2>1, <2>2, <2>3
<1>21. CASE ReadDone
  <2>1. UNCHANGED <<pc, toBoard, toDaemon, commands, executed, mdack>>
    BY <1>21 DEF ReadDone
  <2>2. NoNewOrders /\ NoNewWords /\ Posted' = Posted
    BY <1>0, <2>1, OrdersKept, WordsKept DEF Posted
  <2> QED
    BY <1>1, <2>1, <2>2
<1>22. CASE Lose
  <2>1. NoNewOrders /\ NoNewWords /\ UNCHANGED <<pc, commands, executed, mdack>>
    BY <1>0, <1>22, SomeLost DEF Lose
  <2>2. Posted # {} => Posted' # {}
    <3> SUFFICES ASSUME NEW p \in Posted, UNCHANGED toDaemon, toBoard' # toBoard PROVE Posted' # {}
      BY <1>0, <1>22, Lost DEF Posted
    <3>1. PICK i \in 1 .. Len(toBoard) :
            /\ toBoard[i].reg # "MASTER_DATA" /\ DOMAIN toBoard' = 1 .. Len(toBoard) - 1
            /\ \A k \in 1 .. Len(toBoard) - 1 : toBoard'[k] = toBoard[IF k < i THEN k ELSE k + 1]
      BY <1>0, <1>22, Lost
    <3>2. p \in 1 .. Len(toBoard) /\ p # i /\ toBoard[p].reg = "MASTER_DATA" /\ Len(toBoard) \in Nat
      BY <1>0, <3>1, Flows DEF Posted
    <3>3. CASE p < i
      <4>1. p \in DOMAIN toBoard' /\ toBoard'[p] = toBoard[p]
        BY <3>1, <3>2, <3>3
      <4> QED
        BY <3>2, <4>1 DEF Posted
    <3>4. CASE p > i
      <4>1. p - 1 \in DOMAIN toBoard' /\ toBoard'[p - 1] = toBoard[p]
        BY <3>1, <3>2, <3>4
      <4>2. p - 1 \in Posted'
        BY <3>2, <4>1 DEF Posted
      <4> QED
        BY <4>2
    <3> QED
      BY <3>2, <3>3, <3>4
  <2> QED
    BY <1>1, <2>1, <2>2
<1> QED
  BY <1>2, <1>3, <1>4, <1>5, <1>6, <1>7, <1>9, <1>10, <1>11, <1>12, <1>13, <1>15, <1>16, <1>18,
     <1>19, <1>20, <1>21, <1>22 DEF Next, Calls, Daemon, Board

LEMMA CInvStep ==
  ASSUME CInv, "MASTER_DATA" \notin Lossy, [Next]_vars PROVE CInv'
<1>1. TypeInv'
  BY TypeStep DEF CInv
<1>2. CASE Next
  BY <1>1, <1>2, CommandStep DEF CInv, CommandInv
<1>3. CASE UNCHANGED vars
  <2>1. UNCHANGED <<pc, toBoard, toDaemon, mdack, commands, executed>>
    BY <1>3 DEF vars
  <2>2. Posted' = Posted
    BY <2>1 DEF Posted
  <2> QED
    BY <1>1, <2>1, <2>2 DEF CInv, OneCommand, Ahead, Ordered, EndsThenStarts, StartsThenEnds, AllEnded,
       NoStartSent, NoEndSent, NoStartAnswered
<1> QED
  BY <1>2, <1>3

LEMMA InitCInv == Init => CInv
<1> SUFFICES ASSUME Init PROVE CInv
  OBVIOUS
<1>1. TypeInv
  BY InitTypes DEF Init, TypeInv, AskedInCall
<1>2. DOMAIN toBoard = {} /\ DOMAIN toDaemon = {}
  BY DEF Init
<1>3. pc = "idle" /\ commands = 0 /\ executed = 0 /\ mdack = "zero"
  BY DEF Init
<1>4. Posted = {}
  BY <1>2 DEF Posted
<1> QED
  BY <1>1, <1>2, <1>3, <1>4 DEF CInv, OneCommand, Ahead, Ordered, AllEnded, NoStartSent, NoStartAnswered, SendSteps

LEMMA CommandInvariance == ASSUME "MASTER_DATA" \notin Lossy PROVE Spec => []CInv
<1>1. Init => CInv
  BY InitCInv
<1>2. CInv /\ [Next]_vars => CInv'
  BY CInvStep
<1> QED
  BY <1>1, <1>2, PTL DEF Spec

LEMMA DialogueStep == ASSUME CInv, CInv', Next PROVE [Dlg!DialogueNext]_(Dlg!dialogueVars)
<1>0. OneCommand /\ commands \in Nat /\ executed \in Nat
  BY TypeParts DEF CInv, TypeInv, Counters
<1> USE DEF Dlg!DialogueNext, Dlg!Post, Dlg!Execute, Dlg!GoOn, Dlg!dialogueVars, SendSteps, RecvSteps
<1>1. CASE SendCmd
  BY <1>1 DEF SendCmd
<1>2. CASE ListenForReadDone
  <2>1. pc = "idle" /\ pc' = "s_ready" /\ UNCHANGED <<commands, executed>>
    BY <1>2 DEF ListenForReadDone
  <2> QED
    BY <2>1
<1>3. CASE Drain
  BY <1>3 DEF Drain
<1>4. CASE ListenReturns
  BY <1>4 DEF ListenReturns, Heard
<1>5. CASE DrainReturns
  BY <1>5 DEF DrainReturns
<1>6. CASE Ask
  BY <1>6 DEF Ask
<1>7. CASE AskAgain
  BY <1>7 DEF AskAgain
<1>8. CASE MasterAck
  <2>1. pc = "m_end" => executed = commands
    BY <1>0 DEF OneCommand
  <2> QED
    BY <1>0, <1>8, <2>1 DEF MasterAck
<1>9. CASE SlaveReady
  BY <1>9 DEF SlaveReady, TakeAnswer
<1>10. CASE SlaveLength
  BY <1>10 DEF SlaveLength, TakeAnswer
<1>11. CASE SlaveData
  BY <1>11 DEF SlaveData, TakeAnswer
<1>12. CASE SlaveEnd
  BY <1>12 DEF SlaveEnd, TakeAnswer
<1>13. CASE HandleCommand
  <2>1. Posted # {}
    <3>1. TypeInv /\ Arrives({"MASTER_DATA"})
      BY <1>13 DEF HandleCommand, CInv
    <3>2. toBoard[1].reg \in {"MASTER_DATA"}
      BY <3>1, Delivered
    <3>3. Len(toBoard) \in Nat \ {0} /\ DOMAIN toBoard = 1 .. Len(toBoard)
      BY <3>1, Delivered, Flows
    <3> QED
      BY <3>2, <3>3 DEF Posted
  <2> QED
    BY <1>0, <1>13, <2>1 DEF HandleCommand, OneCommand
<1>14. CASE HandleMasterReady
  BY <1>14 DEF HandleMasterReady, Arrives
<1>15. CASE HandleSlaveAck
  BY <1>15 DEF HandleSlaveAck, Arrives, moveTextToTransfer
<1>16. CASE HandleRead
  BY <1>16 DEF HandleRead, Arrives
<1>17. CASE ReadDone
  BY <1>17 DEF ReadDone, moveTextToTransfer
<1>18. CASE Lose
  BY <1>18 DEF Lose
<1> QED
  BY <1>1, <1>2, <1>3, <1>4, <1>5, <1>6, <1>7, <1>8, <1>9, <1>10, <1>11, <1>12, <1>13, <1>14,
     <1>15, <1>16, <1>17, <1>18 DEF Next, Calls, Daemon, Board

(* However many answers are late or lost, the board executes a command     *)
(* once, and before sendCmdEthe goes on to listen.                         *)
THEOREM CommandsAreExecuted == ASSUME "MASTER_DATA" \notin Lossy PROVE Spec => CommandsExecuted
<1>1. Init => Dlg!DialogueInit
  BY DEF Init, Dlg!DialogueInit, SendSteps
<1>2. CInv /\ CInv' /\ [Next]_vars => [Dlg!DialogueNext]_(Dlg!dialogueVars)
  <2>1. ASSUME UNCHANGED vars PROVE UNCHANGED Dlg!dialogueVars
    BY <2>1 DEF vars, Dlg!dialogueVars
  <2> QED
    BY <2>1, DialogueStep
<1>3. Spec => []CInv
  BY CommandInvariance
<1> QED
  BY <1>1, <1>2, <1>3, PTL DEF Spec, CommandsExecuted, Dlg!DialogueSpec

-----------------------------------------------------------------------------
(* One request at a time.                                                  *)

LEMMA EmptyBoard == ASSUME TypeInv PROVE toBoard = << >> <=> Len(toBoard) = 0
BY Flows

LEMMA EmptyDaemon == ASSUME TypeInv PROVE toDaemon = << >> <=> Len(toDaemon) = 0
BY Flows

LEMMA EmptyBoardNext == ASSUME TypeInv' PROVE toBoard' = << >> <=> Len(toBoard') = 0
<1>1. toBoard' \in Seq(ToBoard)
  BY DEF TypeInv, TypeOK
<1> QED
  BY <1>1

LEMMA TookAnswer ==
  ASSUME TypeInv, TypeInv', OneRequest, TakeAnswer
  PROVE  /\ toBoard = << >> /\ toDaemon # << >> /\ toDaemon' = << >> /\ asked' = FALSE
         /\ Answer \in ToDaemon
<1>1. toBoard = << >> /\ toDaemon # << >> /\ asked' = FALSE
  BY DEF OneRequest, TakeAnswer
<1>2. Len(toDaemon') = 0
  <2>1. Len(toDaemon') = Len(toDaemon) - 1 /\ Len(toDaemon) \in Nat \ {0} /\ Len(toDaemon) <= 1
    BY Replied DEF OneRequest
  <2> QED
    BY <2>1
<1>3. toDaemon' \in Seq(ToDaemon)
  BY DEF TypeInv, TypeOK
<1> QED
  BY <1>1, <1>2, <1>3, Replied

LEMMA AnsweredOne ==
  ASSUME TypeInv, TypeInv', OneRequest, HandleRead
  PROVE  /\ Head(toBoard) = Request /\ toBoard' = << >> /\ toDaemon = << >> /\ asked
         /\ \A i \in DOMAIN toBoard : toBoard[i] = Request
         /\ Len(toDaemon') = 1 /\ toDaemon' # << >>
<1>1. Arrives(ReadRegs)
  BY DEF HandleRead
<1>2. /\ Len(toBoard) \in Nat \ {0} /\ toBoard[1] = Head(toBoard) /\ toBoard[1].reg \in ReadRegs
      /\ Len(toBoard') = Len(toBoard) - 1 /\ DOMAIN toBoard = 1 .. Len(toBoard)
  BY <1>1, Delivered, Flows
<1>3. asked /\ 1 = Len(toBoard) /\ toBoard[1] = Request
  BY <1>2 DEF OneRequest
<1>4. toBoard' = << >>
  <2>1. Len(toBoard) = 1 /\ Len(toBoard') = Len(toBoard) - 1
    BY <1>2, <1>3
  <2>2. Len(toBoard') = 0
    BY <2>1
  <2> QED
    BY <2>2, EmptyBoardNext
<1>5. toDaemon = << >> /\ Len(toDaemon) = 0
  BY <1>2, EmptyBoard, EmptyDaemon DEF OneRequest
<1>6. Len(toDaemon') = 1
  BY <1>5, Read
<1>7. toDaemon' # << >>
  BY <1>6
<1> QED
  BY <1>2, <1>3, <1>4, <1>5, <1>6, <1>7

LEMMA NoAnswerBehindWrites ==
  ASSUME TypeInv, OneRequest, NEW regs, Arrives(regs) PROVE toDaemon = << >>
BY DEF OneRequest, Arrives

(* Writes leave the request where it is, at the end. *)
LEMMA OneRequestStep == ASSUME Timely, TypeInv, TypeInv', OneRequest, Next PROVE OneRequest'
<1>1. late' = 0
  <2>1. late' \in 0 .. MaxLate /\ MaxLate = 0
    BY DEF Timely, TypeInv, TypeOK
  <2> QED
    BY <2>1
<1>2. asked' => pc' \in SendSteps \cup RecvSteps
  BY DEF TypeInv, AskedInCall
<1>a. Len(toBoard) \in Nat /\ DOMAIN toBoard = 1 .. Len(toBoard)
  BY Flows
<1>b. late = 0 /\ MaxLate = 0 /\ Len(toDaemon) <= 1 /\ (toDaemon # << >> => toBoard = << >> /\ asked)
      /\ (\A i \in DOMAIN toBoard : toBoard[i].reg \in ReadRegs =>
             asked /\ i = Len(toBoard) /\ toBoard[i] = Request)
      /\ (asked => pc \in SendSteps \cup RecvSteps)
  BY DEF OneRequest, Timely
<1>3. ASSUME UNCHANGED <<toBoard, toDaemon>>, ~asked, ~asked' PROVE OneRequest'
  BY <1>1, <1>2, <1>3, <1>b DEF OneRequest
<1>4. ASSUME UNCHANGED <<toBoard, toDaemon, asked, pc, ndata>> PROVE OneRequest'
  <2>1. Request' = Request
    BY <1>4 DEF Request
  <2> QED
    BY <1>1, <1>2, <1>4, <1>b, <2>1 DEF OneRequest
<1>5. ASSUME NEW x \in ToBoard, toBoard' = Append(toBoard, x), toDaemon' = << >>,
             \A i \in DOMAIN toBoard : toBoard[i].reg \notin ReadRegs,
             x.reg \in ReadRegs => asked' /\ x = Request'
      PROVE  OneRequest'
  <2>1. /\ DOMAIN toBoard' = 1 .. Len(toBoard) + 1 /\ Len(toBoard') = Len(toBoard) + 1
        /\ \A i \in 1 .. Len(toBoard) : toBoard'[i] = toBoard[i]
        /\ toBoard'[Len(toBoard) + 1] = x
    BY <1>5, Sent
  <2>2. ASSUME NEW i \in DOMAIN toBoard', toBoard'[i].reg \in ReadRegs
        PROVE  asked' /\ i = Len(toBoard') /\ toBoard'[i] = Request'
    <3>1. i = Len(toBoard) + 1
      BY <1>a, <1>5, <2>1, <2>2
    <3> QED
      BY <1>5, <2>1, <2>2, <3>1
  <2>3. Len(toDaemon') <= 1
    BY <1>5
  <2> QED
    BY <1>1, <1>2, <1>5, <2>2, <2>3 DEF OneRequest
<1>6. ASSUME NEW regs, Arrives(regs), UNCHANGED <<toDaemon, asked, pc, ndata>> PROVE OneRequest'
  <2>1. /\ Len(toBoard) \in Nat \ {0} /\ DOMAIN toBoard' = 1 .. Len(toBoard) - 1
        /\ Len(toBoard') = Len(toBoard) - 1
        /\ \A i \in 1 .. Len(toBoard) - 1 : toBoard'[i] = toBoard[i + 1]
    BY <1>6, Delivered
  <2>2. toDaemon = << >> /\ Request' = Request
    BY <1>6, NoAnswerBehindWrites DEF Request
  <2>3. ASSUME NEW i \in DOMAIN toBoard', toBoard'[i].reg \in ReadRegs
        PROVE  asked' /\ i = Len(toBoard') /\ toBoard'[i] = Request'
    <3>1. i + 1 \in DOMAIN toBoard /\ toBoard'[i] = toBoard[i + 1]
      BY <1>a, <2>1
    <3>2. asked /\ i + 1 = Len(toBoard) /\ toBoard[i + 1] = Request
      BY <1>b, <2>3, <3>1
    <3>3. i = Len(toBoard')
      BY <2>1, <3>2
    <3> QED
      BY <1>6, <2>2, <3>1, <3>2, <3>3
  <2> QED
    BY <1>1, <1>2, <1>6, <1>b, <2>2, <2>3 DEF OneRequest
<1>7. ASSUME toBoard' = << >>, toDaemon' = << >> PROVE OneRequest'
  BY <1>1, <1>2, <1>7 DEF OneRequest
<1>8. CASE SendCmd
  <2>1. WriteTo("MASTER_DATA", "text") \in ToBoard /\ WriteTo("MASTER_DATA", "text").reg = "MASTER_DATA"
    BY DEF WriteTo, ToBoard, WriteRegs, Words
  <2>2. ~asked /\ UNCHANGED toDaemon /\ toBoard' = Append(toBoard, WriteTo("MASTER_DATA", "text"))
    BY <1>8, <1>b DEF SendCmd, SendSteps, RecvSteps
  <2>3. \A i \in DOMAIN toBoard : toBoard[i].reg \notin ReadRegs
    BY <1>b, <2>2
  <2>4. toDaemon' = << >> /\ WriteTo("MASTER_DATA", "text").reg \notin ReadRegs
    BY <1>b, <2>1, <2>2 DEF ReadRegs
  <2> QED
    BY <1>5, <2>1, <2>2, <2>3, <2>4
<1>9. CASE ListenForReadDone \/ Drain
  <2>1. pc = "idle" /\ UNCHANGED asked
    BY <1>9 DEF ListenForReadDone, Drain
  <2>2. ~asked /\ ~asked'
    BY <1>b, <2>1 DEF SendSteps, RecvSteps
  <2> QED
    BY <1>3, <1>9, <2>2 DEF ListenForReadDone, Drain
<1>10. CASE ListenReturns \/ DrainReturns
  <2>1. ~asked /\ ~asked'
    BY <1>10, <1>b DEF ListenReturns, DrainReturns, SendSteps, RecvSteps
  <2> QED
    BY <1>3, <1>10, <2>1 DEF ListenReturns, DrainReturns
<1>11. CASE Ask
  <2>1. ~asked /\ asked' = TRUE /\ UNCHANGED <<toDaemon, pc, ndata>>
    BY <1>11 DEF Ask
  <2>2. Request' = Request
    BY <2>1 DEF Request
  <2>3. toDaemon' = << >> /\ Len(toDaemon') <= 1 /\ \A i \in DOMAIN toBoard : toBoard[i].reg \notin ReadRegs
    BY <1>b, <2>1
  <2>4. /\ Len(toBoard') = Len(toBoard) + (IF pc \in SendSteps THEN 2 ELSE 1)
        /\ DOMAIN toBoard' = 1 .. Len(toBoard')
        /\ \A i \in 1 .. Len(toBoard) : toBoard'[i] = toBoard[i]
        /\ toBoard'[Len(toBoard')] = Request
    BY <1>11, Asked
  <2>5. pc \in SendSteps => toBoard'[Len(toBoard) + 1].reg = "MASTER_DREADY"
    BY <1>11, Asked DEF SendSteps, WriteTo
  <2>6. ASSUME NEW i \in DOMAIN toBoard', toBoard'[i].reg \in ReadRegs PROVE i = Len(toBoard')
    <3>1. i \notin 1 .. Len(toBoard)
      BY <1>a, <2>3, <2>4, <2>6
    <3>2. CASE pc \in SendSteps
      <4>1. i # Len(toBoard) + 1
        BY <2>5, <2>6, <3>2 DEF ReadRegs
      <4> QED
        BY <1>a, <2>4, <3>1, <3>2, <4>1
    <3>3. CASE pc \notin SendSteps
      BY <1>a, <2>4, <3>1, <3>3
    <3> QED
      BY <3>2, <3>3
  <2> QED
    BY <1>1, <1>2, <2>1, <2>2, <2>3, <2>4, <2>6 DEF OneRequest
<1>12. CASE AskAgain
  <2>1. asked /\ asked' /\ UNCHANGED <<toDaemon, pc, ndata>> /\ ~AnswerUnderWay /\ toBoard' = Append(toBoard, Request)
    BY <1>12, <1>b DEF AskAgain
  <2>2. Request \in ToBoard /\ Request' = Request
    BY <1>b, <2>1, RequestType DEF Request, TypeInv
  <2>3. toDaemon' = << >> /\ \A i \in DOMAIN toBoard : toBoard[i].reg \notin ReadRegs
    BY <1>a, <2>1 DEF AnswerUnderWay
  <2> QED
    BY <1>5, <2>1, <2>2, <2>3
<1>13. ASSUME TakeAnswer, UNCHANGED toBoard PROVE OneRequest'
  BY <1>7, <1>13, TookAnswer
<1>14. CASE MasterAck \/ SlaveReady \/ SlaveLength
  BY <1>13, <1>14 DEF MasterAck, SlaveReady, SlaveLength
<1>15. ASSUME TakeAnswer, NEW v \in {"dack_start", "dack_end"}, toBoard' = Append(toBoard, WriteTo("SLAVE_DACK", v))
       PROVE  OneRequest'
  <2>1. WriteTo("SLAVE_DACK", v) \in ToBoard /\ WriteTo("SLAVE_DACK", v).reg \notin ReadRegs
    BY DEF WriteTo, ToBoard, WriteRegs, Words, ReadRegs
  <2>2. toDaemon' = << >> /\ DOMAIN toBoard = {}
    BY <1>15, TookAnswer
  <2> QED
    BY <1>5, <1>15, <2>1, <2>2
<1>16. CASE SlaveData
  BY <1>15, <1>16 DEF SlaveData
<1>17. CASE SlaveEnd
  <2>1. TakeAnswer /\ (UNCHANGED toBoard \/ toBoard' = Append(toBoard, WriteTo("SLAVE_DACK", "dack_end")))
    BY <1>17 DEF SlaveEnd
  <2> QED
    BY <1>13, <1>15, <2>1
<1>18. CASE HandleCommand
  BY <1>6, <1>18 DEF HandleCommand
<1>19. CASE HandleMasterReady
  BY <1>6, <1>19 DEF HandleMasterReady
<1>20. CASE HandleSlaveAck
  BY <1>6, <1>20 DEF HandleSlaveAck
<1>21. CASE HandleRead
  <2>1. toBoard' = << >> /\ Len(toDaemon') = 1 /\ asked /\ UNCHANGED asked
    BY <1>21, AnsweredOne DEF HandleRead
  <2> QED
    BY <1>1, <1>2, <2>1 DEF OneRequest
<1>22. CASE ReadDone
  BY <1>4, <1>22 DEF ReadDone
<1>23. CASE Lose
  <2>1. UNCHANGED <<asked, pc, ndata>>
    BY <1>23 DEF Lose
  <2>2. Request' = Request
    BY <2>1 DEF Request
  <2>3. CASE UNCHANGED toDaemon /\ toBoard' # toBoard
    <3>1. PICK i \in 1 .. Len(toBoard) :
            /\ DOMAIN toBoard' = 1 .. Len(toBoard) - 1 /\ Len(toBoard') = Len(toBoard) - 1
            /\ \A k \in 1 .. Len(toBoard) - 1 : toBoard'[k] = toBoard[IF k < i THEN k ELSE k + 1]
      BY <1>23, <2>3, Lost
    <3>2. toDaemon = << >>
      BY <1>a, <1>b, <3>1
    <3>3. ASSUME NEW k \in DOMAIN toBoard', toBoard'[k].reg \in ReadRegs
          PROVE  asked' /\ k = Len(toBoard') /\ toBoard'[k] = Request'
      <4> DEFINE j == IF k < i THEN k ELSE k + 1
      <4>1. j \in DOMAIN toBoard /\ toBoard'[k] = toBoard[j]
        BY <1>a, <3>1
      <4>2. asked /\ j = Len(toBoard) /\ toBoard[j] = Request
        BY <1>b, <3>3, <4>1
      <4>3. k = Len(toBoard) - 1
        BY <1>a, <3>1, <4>2
      <4> QED
        BY <2>1, <2>2, <3>1, <4>1, <4>2, <4>3
    <3> QED
      BY <1>1, <1>2, <1>b, <2>3, <3>2, <3>3 DEF OneRequest
  <2>4. CASE UNCHANGED toBoard /\ toDaemon' # toDaemon
    <3>1. PICK i \in 1 .. Len(toDaemon) : Len(toDaemon') = Len(toDaemon) - 1
      BY <1>23, <2>4, Lost
    <3>2. Len(toDaemon) = 1
      BY <1>b, <3>1, Flows
    <3>3. toDaemon # << >> /\ toDaemon' \in Seq(ToDaemon) /\ Len(toDaemon') = 0
      <4>1. toDaemon' \in Seq(ToDaemon)
        BY DEF TypeInv, TypeOK
      <4> QED
        BY <3>1, <3>2, <4>1, EmptyDaemon
    <3>4. toDaemon' = << >> /\ toBoard' = << >>
      BY <1>b, <2>4, <3>3
    <3> QED
      BY <1>7, <3>4
  <2>5. CASE UNCHANGED <<toBoard, toDaemon>>
    BY <1>4, <2>1, <2>5
  <2> QED
    BY <1>23, <2>3, <2>4, <2>5 DEF Lose
<1> QED
  BY <1>8, <1>9, <1>10, <1>11, <1>12, <1>14, <1>16, <1>17, <1>18, <1>19, <1>20, <1>21, <1>22, <1>23
     DEF Next, Calls, Daemon, Board

-----------------------------------------------------------------------------
(* The acknowledgements of text.                                           *)

AckAt == {i \in DOMAIN toBoard : toBoard[i].reg = "SLAVE_DACK"}
AcksKept == AckAt' = AckAt /\ \A i \in AckAt : toBoard'[i] = toBoard[i]

LEMMA KeptAcks ==
  ASSUME AcksKept, FirstAck
  PROVE  FirstAck' /\ (StartAcked' <=> StartAcked) /\ (EndAcked' <=> EndAcked)
BY DEF AcksKept, AckAt, FirstAck, StartAcked, EndAcked, Acks

LEMMA NoAcks == ASSUME AckAt = {} PROVE ~StartAcked /\ ~EndAcked
BY DEF AckAt, StartAcked, EndAcked, Acks

LEMMA NoAcksNext == ASSUME AckAt' = {} PROVE FirstAck' /\ ~StartAcked' /\ ~EndAcked'
BY DEF AckAt, FirstAck, StartAcked, EndAcked, Acks

(* Only the three steps of an acknowledgement disturb one.                 *)
NoAckStep ==
  \/ Calls \/ ListenReturns \/ DrainReturns \/ Ask \/ AskAgain
  \/ MasterAck \/ SlaveReady \/ SlaveLength
  \/ HandleCommand \/ HandleMasterReady \/ HandleRead \/ ReadDone \/ Lose

LEMMA AcksStay ==
  ASSUME Timely, TypeInv, TypeInv', OneRequest, FirstAck, NoAckStep
  PROVE  AcksKept
<1>a. Len(toBoard) \in Nat /\ DOMAIN toBoard = 1 .. Len(toBoard)
  BY Flows
<1>1. ASSUME UNCHANGED toBoard PROVE AcksKept
  BY <1>1 DEF AcksKept, AckAt
<1>2. ASSUME AckAt = {}, AckAt' = {} PROVE AcksKept
  BY <1>2 DEF AcksKept
<1>3. ASSUME NEW regs, Arrives(regs), "SLAVE_DACK" \notin regs PROVE AcksKept
  <2>1. /\ Len(toBoard) \in Nat \ {0} /\ DOMAIN toBoard' = 1 .. Len(toBoard) - 1
        /\ \A i \in 1 .. Len(toBoard) - 1 : toBoard'[i] = toBoard[i + 1]
        /\ toBoard[1].reg \in regs
    BY <1>3, Delivered
  <2>2. AckAt = {}
    BY <1>3, <2>1 DEF AckAt, FirstAck
  <2>3. \A i \in DOMAIN toBoard' : i + 1 \in DOMAIN toBoard /\ toBoard'[i] = toBoard[i + 1]
    BY <1>a, <2>1
  <2>4. AckAt' = {}
    BY <2>2, <2>3 DEF AckAt
  <2> QED
    BY <1>2, <2>2, <2>4
<1>4. ASSUME DOMAIN toBoard \subseteq DOMAIN toBoard', \A i \in DOMAIN toBoard : toBoard'[i] = toBoard[i],
             \A i \in DOMAIN toBoard' : i \in DOMAIN toBoard \/ toBoard'[i].reg # "SLAVE_DACK"
      PROVE  AcksKept
  BY <1>4 DEF AcksKept, AckAt
<1>5. ASSUME NEW x \in ToBoard, toBoard' = Append(toBoard, x), x.reg # "SLAVE_DACK" PROVE AcksKept
  <2>1. /\ DOMAIN toBoard' = 1 .. Len(toBoard) + 1 /\ toBoard'[Len(toBoard) + 1] = x
        /\ \A i \in 1 .. Len(toBoard) : toBoard'[i] = toBoard[i]
    BY <1>5, Sent
  <2>2. \A i \in DOMAIN toBoard' : i \in DOMAIN toBoard \/ i = Len(toBoard) + 1
    BY <1>a, <2>1
  <2>3. DOMAIN toBoard \subseteq DOMAIN toBoard'
    BY <1>a, <2>1
  <2> QED
    BY <1>a, <1>4, <1>5, <2>1, <2>2, <2>3
<1>6. CASE SendCmd
  <2>1. WriteTo("MASTER_DATA", "text") \in ToBoard /\ WriteTo("MASTER_DATA", "text").reg # "SLAVE_DACK"
    BY DEF WriteTo, ToBoard, WriteRegs, Words
  <2> QED
    BY <1>5, <1>6, <2>1 DEF SendCmd
<1>7. CASE Ask
  <2>1. pc \in SendSteps \cup RecvSteps
    BY <1>7 DEF Ask
  <2>2. Request.reg # "SLAVE_DACK"
    BY <2>1 DEF Request, ReadFrom, SendSteps, RecvSteps
  <2>3. /\ Len(toBoard') = Len(toBoard) + (IF pc \in SendSteps THEN 2 ELSE 1)
        /\ DOMAIN toBoard' = 1 .. Len(toBoard')
        /\ \A i \in 1 .. Len(toBoard) : toBoard'[i] = toBoard[i]
        /\ toBoard'[Len(toBoard')] = Request
    BY <1>7, Asked
  <2>4. pc \in SendSteps => toBoard'[Len(toBoard) + 1].reg = "MASTER_DREADY"
    BY <1>7, Asked DEF SendSteps, WriteTo
  <2>5. DOMAIN toBoard \subseteq DOMAIN toBoard'
    BY <1>a, <2>3
  <2>6. ASSUME NEW i \in DOMAIN toBoard', i \notin DOMAIN toBoard PROVE toBoard'[i].reg # "SLAVE_DACK"
    <3>1. i = Len(toBoard') \/ (pc \in SendSteps /\ i = Len(toBoard) + 1)
      BY <1>a, <2>3, <2>6
    <3> QED
      BY <2>2, <2>3, <2>4, <3>1
  <2> QED
    BY <1>a, <1>4, <2>3, <2>5, <2>6
<1>8. CASE AskAgain
  <2>1. pc \in SendSteps \cup RecvSteps /\ toBoard' = Append(toBoard, Request)
    BY <1>8 DEF AskAgain, TypeInv, AskedInCall
  <2>2. Request \in ToBoard
    BY <2>1, RequestType DEF TypeInv
  <2>3. Request.reg # "SLAVE_DACK"
    BY <2>1 DEF Request, ReadFrom, SendSteps, RecvSteps
  <2> QED
    BY <1>5, <2>1, <2>2, <2>3
<1>9. CASE HandleCommand
  BY <1>3, <1>9 DEF HandleCommand
<1>10. CASE HandleMasterReady
  BY <1>3, <1>10 DEF HandleMasterReady
<1>11. CASE HandleRead
  BY <1>3, <1>11 DEF HandleRead, ReadRegs
<1>12. CASE Lose
  <2>1. CASE UNCHANGED toBoard
    BY <1>1, <2>1
  <2>2. CASE toBoard' # toBoard
    <3>1. PICK i \in 1 .. Len(toBoard) :
            /\ toBoard[i].reg \in Lossy /\ DOMAIN toBoard' = 1 .. Len(toBoard) - 1
            /\ \A k \in 1 .. Len(toBoard) - 1 : toBoard'[k] = toBoard[IF k < i THEN k ELSE k + 1]
      BY <1>12, <2>2, Lost
    <3>2. toBoard[i].reg # "SLAVE_DACK"
      BY <3>1 DEF Timely
    <3>3. ASSUME NEW k \in AckAt PROVE k = 1 /\ k \in AckAt' /\ toBoard'[k] = toBoard[k]
      <4>1. k = 1 /\ toBoard[k].reg = "SLAVE_DACK"
        BY DEF AckAt, FirstAck
      <4>2. 1 < i /\ 1 \in DOMAIN toBoard'
        BY <1>a, <3>1, <3>2, <4>1
      <4>3. toBoard'[1] = toBoard[1]
        BY <1>a, <3>1, <4>2
      <4> QED
        BY <4>1, <4>2, <4>3 DEF AckAt
    <3>4. ASSUME NEW k \in AckAt' PROVE k \in AckAt
      <4> DEFINE j == IF k < i THEN k ELSE k + 1
      <4>1. k \in DOMAIN toBoard' /\ toBoard'[k].reg = "SLAVE_DACK"
        BY DEF AckAt
      <4>2. j \in DOMAIN toBoard /\ toBoard'[k] = toBoard[j]
        BY <1>a, <3>1, <4>1
      <4>3. j = 1
        BY <4>1, <4>2 DEF FirstAck
      <4>4. k \in 1 .. Len(toBoard) - 1
        BY <3>1, <4>1
      <4>5. j = k
        BY <1>a, <4>3, <4>4
      <4> QED
        BY <4>1, <4>2, <4>5 DEF AckAt
    <3> QED
      BY <3>3, <3>4 DEF AcksKept
  <2> QED
    BY <2>1, <2>2
<1>13. CASE ListenForReadDone \/ Drain \/ ListenReturns \/ DrainReturns
  BY <1>1, <1>13 DEF ListenForReadDone, Drain, ListenReturns, DrainReturns
<1>14. CASE MasterAck \/ SlaveReady \/ SlaveLength \/ ReadDone
  BY <1>1, <1>14 DEF MasterAck, SlaveReady, SlaveLength, ReadDone
<1> QED
  BY <1>6, <1>7, <1>8, <1>9, <1>10, <1>11, <1>12, <1>13, <1>14 DEF NoAckStep, Calls

(* An acknowledgement is sent when nothing else is under way.              *)
LEMMA AckSent ==
  ASSUME TypeInv, toBoard = << >>, NEW v \in {"dack_start", "dack_end"},
         toBoard' = Append(toBoard, WriteTo("SLAVE_DACK", v))
  PROVE  FirstAck' /\ (StartAcked' <=> v = "dack_start") /\ (EndAcked' <=> v = "dack_end")
<1>1. WriteTo("SLAVE_DACK", v) \in ToBoard
  BY DEF WriteTo, ToBoard, WriteRegs, Words
<1>2. Len(toBoard) = 0
  OBVIOUS
<1>3. DOMAIN toBoard' = {1} /\ toBoard'[1] = WriteTo("SLAVE_DACK", v)
  BY <1>1, <1>2, Sent
<1>4. WriteTo("SLAVE_DACK", v).reg = "SLAVE_DACK" /\ WriteTo("SLAVE_DACK", v).val = v
  BY DEF WriteTo
<1> QED
  BY <1>3, <1>4 DEF FirstAck, StartAcked, EndAcked, Acks

(* When it arrives, it is the only one. *)
LEMMA AckHandled ==
  ASSUME TypeInv, FirstAck, HandleSlaveAck
  PROVE  /\ FirstAck' /\ ~StartAcked' /\ ~EndAcked'
         /\ Head(toBoard).val = "dack_start" => StartAcked
         /\ Head(toBoard).val # "dack_start" => EndAcked
<1>1. Arrives({"SLAVE_DACK"})
  BY DEF HandleSlaveAck
<1>2. toBoard[1].reg \in {"SLAVE_DACK"}
  BY <1>1, Delivered
<1>3. /\ Len(toBoard) \in Nat \ {0} /\ DOMAIN toBoard = 1 .. Len(toBoard)
      /\ DOMAIN toBoard' = 1 .. Len(toBoard) - 1 /\ toBoard[1] = Head(toBoard)
      /\ \A i \in 1 .. Len(toBoard) - 1 : toBoard'[i] = toBoard[i + 1]
  BY <1>1, Delivered, Flows
<1>4. \A i \in DOMAIN toBoard' : i + 1 \in DOMAIN toBoard /\ i + 1 # 1 /\ toBoard'[i] = toBoard[i + 1]
  BY <1>3
<1>5. AckAt' = {}
  BY <1>4 DEF AckAt, FirstAck
<1>6. 1 \in DOMAIN toBoard /\ toBoard[1].reg = "SLAVE_DACK"
  BY <1>2, <1>3
<1>7. toBoard[1].val \in {"dack_start", "dack_end"}
  BY <1>6 DEF FirstAck
<1>8. /\ Head(toBoard).val = "dack_start" => StartAcked
      /\ Head(toBoard).val # "dack_start" => EndAcked
  BY <1>3, <1>6, <1>7 DEF StartAcked, EndAcked, Acks
<1> QED
  BY <1>5, <1>8, NoAcksNext

LEMMA NoAckUnderWay == ASSUME toBoard = << >> PROVE ~StartAcked /\ ~EndAcked
BY NoAcks DEF AckAt

LEMMA NoAckBehind ==
  ASSUME TypeInv, FirstAck, NEW regs, Arrives(regs), "SLAVE_DACK" \notin regs
  PROVE  ~StartAcked /\ ~EndAcked
<1>1. toBoard[1].reg \in regs /\ Len(toBoard) \in Nat \ {0} /\ DOMAIN toBoard = 1 .. Len(toBoard)
  BY Delivered, Flows
<1>2. AckAt = {}
  BY <1>1 DEF AckAt, FirstAck
<1> QED
  BY <1>2, NoAcks

-----------------------------------------------------------------------------
(* The text of the board.                                                  *)

LEMMA NewAnswer ==
  ASSUME TypeInv, HandleCommand
  PROVE  \E reply \in Replies :
           /\ Len(reply) \in Nat \ {0} /\ \A i \in 1 .. Len(reply) : reply[i] \in {"text", "error", "done"}
           /\ chunk' = [no |-> 1, cmd |-> executed + 1, mark |-> reply[1]]
           /\ made' = Len(reply) /\ Len(rest') = Len(reply) - 1 /\ DOMAIN rest' = 1 .. Len(reply) - 1
           /\ \A i \in DOMAIN rest' : rest'[i] = [no |-> i + 1, cmd |-> executed + 1, mark |-> reply[i + 1]]
           /\ dlen' = SizeOf(chunk') /\ sdready' = "dready_start" /\ executed' = executed + 1
<1>1. PICK reply \in Replies : moveTextToTransfer(Answering(reply)) /\ made' = Len(reply)
  BY DEF HandleCommand
<1>2. executed \in Nat
  BY DEF TypeInv, TypeOK
<1>3. reply \in Seq({"text", "error", "done"}) /\ reply # << >>
  BY CtrlAssumption
<1>4. Len(reply) \in Nat \ {0} /\ \A i \in 1 .. Len(reply) : reply[i] \in {"text", "error", "done"}
  BY <1>3
<1>5. /\ Answering(reply) \in Seq(Chunks) /\ Answering(reply) # << >> /\ Len(Answering(reply)) = Len(reply)
  BY <1>2, AnsweringType
<1>6. \A i \in 1 .. Len(reply) : Answering(reply)[i] = [no |-> i, cmd |-> executed + 1, mark |-> reply[i]]
  BY DEF Answering
<1>7. Head(Answering(reply)) = Answering(reply)[1]
  BY <1>5
<1>8. /\ Tail(Answering(reply)) \in Seq(Chunks) /\ Len(Tail(Answering(reply))) = Len(reply) - 1
      /\ \A i \in 1 .. Len(reply) - 1 : Tail(Answering(reply))[i] = Answering(reply)[i + 1]
  BY <1>5, HeadTailProperties
<1>9. DOMAIN Tail(Answering(reply)) = 1 .. Len(reply) - 1
  BY <1>8, LenProperties
<1>10. \A i \in 1 .. Len(reply) - 1 : i + 1 \in 1 .. Len(reply)
  BY <1>4
<1>11. 1 \in 1 .. Len(reply)
  BY <1>4
<1>12. /\ chunk' = [no |-> 1, cmd |-> executed + 1, mark |-> reply[1]]
       /\ rest' = Tail(Answering(reply)) /\ sdready' = "dready_start" /\ dlen' = SizeOf(chunk')
  BY <1>1, <1>6, <1>7, <1>11 DEF moveTextToTransfer
<1>13. executed' = executed + 1
  BY DEF HandleCommand
<1>14. \A i \in 1 .. Len(reply) - 1 : rest'[i] = [no |-> i + 1, cmd |-> executed + 1, mark |-> reply[i + 1]]
  BY <1>6, <1>8, <1>10, <1>12
<1> QED
  BY <1>1, <1>4, <1>8, <1>9, <1>12, <1>13, <1>14

LEMMA NextChunk ==
  ASSUME TypeInv, rest # << >>, moveTextToTransfer(rest)
  PROVE  /\ Len(rest) \in Nat \ {0} /\ DOMAIN rest = 1 .. Len(rest) /\ chunk' = rest[1]
         /\ Len(rest') = Len(rest) - 1 /\ DOMAIN rest' = 1 .. Len(rest) - 1
         /\ \A i \in DOMAIN rest' : rest'[i] = rest[i + 1]
         /\ dlen' = SizeOf(chunk') /\ sdready' = "dready_start"
<1>1. rest \in Seq(Chunks)
  BY DEF TypeInv, TypeOK
<1>2. Len(rest) \in Nat \ {0} /\ DOMAIN rest = 1 .. Len(rest) /\ Head(rest) = rest[1]
  BY <1>1, EmptySeq, LenProperties
<1>3. /\ Tail(rest) \in Seq(Chunks) /\ Len(Tail(rest)) = Len(rest) - 1
      /\ \A i \in 1 .. Len(rest) - 1 : Tail(rest)[i] = rest[i + 1]
  BY <1>1, HeadTailProperties
<1>4. DOMAIN Tail(rest) = 1 .. Len(rest) - 1
  BY <1>3, LenProperties
<1> QED
  BY <1>2, <1>3, <1>4 DEF moveTextToTransfer

LEMMA LastChunk ==
  ASSUME TypeInv, Timely, chunk = Nothing => rest = << >>, ReadDone
  PROVE  /\ chunk = Nothing /\ rest = << >> /\ rest' = << >> /\ made' = made + 1
         /\ chunk' = [no |-> made + 1, cmd |-> executed, mark |-> "read done"]
         /\ dlen' = SizeOf(chunk') /\ sdready' = "dready_start"
<1> DEFINE last == [no |-> made + 1, cmd |-> executed, mark |-> "read done"]
<1>1. chunk = Nothing /\ rest = << >>
  BY DEF ReadDone, Timely
<1>2. made' = made + 1 /\ moveTextToTransfer(Append(rest, last))
  BY DEF ReadDone
<1> HIDE DEF last
<1>3. Append(<< >>, last) = <<last>> /\ Head(<<last>>) = last /\ Tail(<<last>>) = << >>
  OBVIOUS
<1> QED
  BY <1>1, <1>2, <1>3 DEF moveTextToTransfer, last

LEMMA OneAnswerStep ==
  ASSUME Timely, TypeInv, TypeInv', OneRequest, OneAck, Offered, OneAnswer, Next PROVE OneAnswer'
<1>a. executed \in Nat /\ made \in Nat /\ chunk \in Chunks /\ rest \in Seq(Chunks)
  BY DEF TypeInv, TypeOK
<1>b. chunk.no \in Nat /\ chunk.cmd \in Nat
  BY <1>a DEF Chunks
<1>1. ASSUME UNCHANGED <<sending, executed, chunk, rest, made>> PROVE OneAnswer'
  BY <1>1 DEF OneAnswer
<1>2. CASE HandleCommand
  <2>1. PICK reply \in Replies :
           /\ Len(reply) \in Nat \ {0} /\ \A i \in 1 .. Len(reply) : reply[i] \in {"text", "error", "done"}
           /\ chunk' = [no |-> 1, cmd |-> executed + 1, mark |-> reply[1]]
           /\ made' = Len(reply) /\ Len(rest') = Len(reply) - 1 /\ DOMAIN rest' = 1 .. Len(reply) - 1
           /\ \A i \in DOMAIN rest' : rest'[i] = [no |-> i + 1, cmd |-> executed + 1, mark |-> reply[i + 1]]
           /\ executed' = executed + 1
    BY <1>2, NewAnswer
  <2>2. \A i \in 1 .. Len(reply) - 1 : i \in Nat /\ i + 1 \in 1 .. Len(reply)
    BY <2>1
  <2>3. chunk'.no = 1 /\ chunk'.cmd = executed' /\ chunk'.mark \in Marks
    <3>1. reply[1] \in {"text", "error", "done"}
      BY <2>1
    <3>2. chunk'.no = 1 /\ chunk'.cmd = executed + 1 /\ chunk'.mark = reply[1]
      BY <2>1
    <3> QED
      BY <2>1, <3>1, <3>2 DEF Marks
  <2>4. ASSUME NEW i \in DOMAIN rest'
        PROVE  rest'[i].mark \in Marks /\ rest'[i].cmd = executed' /\ rest'[i].no = chunk'.no + i
    <3>1. rest'[i] = [no |-> i + 1, cmd |-> executed + 1, mark |-> reply[i + 1]]
      BY <2>1
    <3>2. reply[i + 1] \in {"text", "error", "done"} /\ i \in Nat
      BY <2>1, <2>2
    <3>3. rest'[i].no = i + 1 /\ rest'[i].cmd = executed + 1 /\ rest'[i].mark = reply[i + 1]
      BY <3>1
    <3>4. rest'[i].no = chunk'.no + i
      BY <2>3, <3>2, <3>3
    <3>5. rest'[i].mark \in Marks
      BY <3>2, <3>3 DEF Marks
    <3> QED
      BY <2>1, <3>3, <3>4, <3>5
  <2>5. executed' >= 1 /\ made' = chunk'.no + Len(rest')
    BY <1>a, <2>1, <2>3
  <2> QED
    BY <2>3, <2>4, <2>5 DEF OneAnswer
<1>3. CASE HandleSlaveAck
  <2>1. UNCHANGED <<sending, executed, made>>
    BY <1>3 DEF HandleSlaveAck
  <2>2. CASE UNCHANGED <<chunk, rest>>
    BY <1>1, <2>1, <2>2
  <2>3. CASE Head(toBoard).val # "dack_start" /\ rest # << >>
    <3>1. moveTextToTransfer(rest)
      BY <1>3, <2>3 DEF HandleSlaveAck
    <3>2. /\ Len(rest) \in Nat \ {0} /\ DOMAIN rest = 1 .. Len(rest) /\ chunk' = rest[1]
          /\ Len(rest') = Len(rest) - 1 /\ DOMAIN rest' = 1 .. Len(rest) - 1
          /\ \A i \in DOMAIN rest' : rest'[i] = rest[i + 1]
      BY <2>3, <3>1, NextChunk
    <3>3. chunk # Nothing
      BY <2>3 DEF Offered
    <3>4. 1 \in DOMAIN rest
      BY <3>2
    <3>5. chunk'.mark \in Marks /\ chunk'.cmd = executed /\ chunk'.no = chunk.no + 1
      BY <3>2, <3>4 DEF OneAnswer
    <3>6. ASSUME NEW i \in DOMAIN rest'
          PROVE  rest'[i].mark \in Marks /\ rest'[i].cmd = executed /\ rest'[i].no = chunk'.no + i
      <4>1. i \in Nat /\ i + 1 \in DOMAIN rest /\ rest'[i] = rest[i + 1]
        BY <3>2
      <4>2. rest[i + 1].mark \in Marks /\ rest[i + 1].cmd = executed /\ rest[i + 1].no = chunk.no + (i + 1)
        BY <4>1 DEF OneAnswer
      <4> QED
        BY <1>b, <3>5, <4>1, <4>2
    <3>7. executed >= 1 /\ made = chunk.no + Len(rest) /\ chunk.no >= 1
      BY <3>3 DEF OneAnswer
    <3>8. made = chunk'.no + Len(rest') /\ chunk'.no >= 1
      BY <1>b, <3>2, <3>5, <3>7
    <3> QED
      BY <2>1, <3>5, <3>6, <3>7, <3>8 DEF OneAnswer
  <2>4. CASE chunk' = Nothing /\ UNCHANGED rest /\ rest = << >>
    BY <2>1, <2>4 DEF OneAnswer
  <2> QED
    BY <1>3, <2>2, <2>3, <2>4 DEF HandleSlaveAck
<1>4. CASE ReadDone
  <2>1. /\ chunk = Nothing /\ rest = << >> /\ rest' = << >> /\ made' = made + 1
        /\ chunk' = [no |-> made + 1, cmd |-> executed, mark |-> "read done"]
    BY <1>4, LastChunk DEF Offered
  <2>2. executed' = executed /\ executed >= 1
    BY <1>4 DEF ReadDone, OneAnswer
  <2>3. chunk'.no = made + 1 /\ chunk'.cmd = executed /\ chunk'.mark = "read done"
    BY <2>1
  <2>4. Len(rest') = 0 /\ DOMAIN rest' = {}
    <3>1. rest' = << >>
      BY <2>1
    <3> QED
      BY <3>1
  <2>5. made' = chunk'.no + Len(rest') /\ chunk'.no >= 1
    <3>1. made' = made + 1
      BY <2>1
    <3>2. made \in Nat /\ chunk'.no = made + 1
      BY <1>a, <2>3
    <3>3. Len(rest') = 0
      BY <2>4
    <3> QED
      BY <3>1, <3>2, <3>3
  <2>6. \A i \in DOMAIN rest' : FALSE
    BY <2>4
  <2> QED
    BY <2>2, <2>3, <2>5, <2>6 DEF OneAnswer, Marks
<1>5. CASE HandleMasterReady \/ HandleRead
  BY <1>1, <1>5 DEF HandleMasterReady, HandleRead
<1>6. CASE Calls
  BY <1>1, <1>6 DEF Calls, SendCmd, ListenForReadDone, Drain
<1>7. CASE Lose
  BY <1>1, <1>7 DEF Lose
<1>8. CASE Daemon
  <2>1. CASE ListenReturns \/ DrainReturns \/ Ask \/ AskAgain
    BY <1>1, <2>1 DEF ListenReturns, DrainReturns, Ask, AskAgain
  <2>2. CASE MasterAck \/ SlaveReady \/ SlaveLength \/ SlaveData \/ SlaveEnd
    BY <1>1, <2>2 DEF MasterAck, SlaveReady, SlaveLength, SlaveData, SlaveEnd
  <2> QED
    BY <1>8, <2>1, <2>2 DEF Daemon
<1> QED
  BY <1>2, <1>3, <1>4, <1>5, <1>6, <1>7, <1>8 DEF Next, Board

-----------------------------------------------------------------------------
(* Offering and taking text.                                               *)

LEMMA SomeText ==
  ASSUME Timely, TypeInv, OneRequest, OneAck, Offered, OneAnswer
  PROVE  /\ HandleCommand => chunk' # Nothing
         /\ HandleSlaveAck /\ Head(toBoard).val # "dack_start" /\ rest # << >> => chunk' # Nothing
         /\ ReadDone => chunk' # Nothing
<1>a. executed \in Nat /\ made \in Nat /\ chunk \in Chunks
  BY DEF TypeInv, TypeOK
<1>b. chunk.no \in Nat /\ Nothing.no = 0 /\ Nothing.cmd = 0
  BY <1>a DEF Chunks, Nothing
<1>1. ASSUME HandleCommand PROVE chunk' # Nothing
  <2>1. chunk'.cmd = executed + 1
    BY <1>1, NewAnswer
  <2> QED
    BY <1>a, <1>b, <2>1
<1>2. ASSUME HandleSlaveAck, Head(toBoard).val # "dack_start", rest # << >> PROVE chunk' # Nothing
  <2>1. Len(rest) \in Nat \ {0} /\ DOMAIN rest = 1 .. Len(rest) /\ chunk' = rest[1]
    BY <1>2, NextChunk DEF HandleSlaveAck
  <2>2. rest[1].no = chunk.no + 1
    BY <2>1 DEF OneAnswer
  <2>3. chunk.no + 1 # 0
    BY <1>b
  <2> QED
    BY <1>b, <2>1, <2>2, <2>3
<1>3. ASSUME ReadDone PROVE chunk' # Nothing
  <2>1. chunk' = [no |-> made + 1, cmd |-> executed, mark |-> "read done"]
    BY <1>3, LastChunk DEF Offered
  <2>2. chunk'.no = made + 1
    BY <2>1
  <2> QED
    BY <1>a, <1>b, <2>2
<1> QED
  BY <1>1, <1>2, <1>3

(* While a command is under way no text is being taken. *)
LEMMA CommandArrives == ASSUME CInv, HandleCommand PROVE pc = "m_start"
<1>1. TypeInv /\ Arrives({"MASTER_DATA"})
  BY DEF CInv, HandleCommand
<1>2. toBoard[1].reg \in {"MASTER_DATA"}
  BY <1>1, Delivered
<1>3. Len(toBoard) \in Nat \ {0} /\ DOMAIN toBoard = 1 .. Len(toBoard)
  BY <1>1, Delivered, Flows
<1>4. 1 \in Posted
  BY <1>2, <1>3 DEF Posted
<1> QED
  BY <1>4 DEF CInv, OneCommand

LEMMA OfferedStep ==
  ASSUME Timely, CInv, CInv', Slave, OneAnswer, Next PROVE OneAck' /\ Offered'
<1>a. TypeInv /\ TypeInv' /\ OneRequest /\ OneAck /\ Offered /\ Answered /\ FirstAck
  BY DEF CInv, Slave, OneAck
<1>b. sdready \in {"dready_start", "dready_end"}
  BY <1>a DEF TypeInv, TypeOK
<1>c. NoAckStep => FirstAck' /\ (StartAcked' <=> StartAcked) /\ (EndAcked' <=> EndAcked)
  BY <1>a, AcksStay, KeptAcks
<1>d. TakeAnswer => ~StartAcked /\ ~EndAcked /\ toBoard = << >> /\ toDaemon # << >>
  BY <1>a, TookAnswer, NoAckUnderWay
<1> USE DEF OneAck, Offered, TakenByDaemon
<1>1. CASE SendCmd
  <2>1. pc = "idle" /\ pc' = "m_start" /\ UNCHANGED <<sdready, chunk, rest, dlen, toDaemon>>
    BY <1>1 DEF SendCmd
  <2>2. NoAckStep
    BY <1>1 DEF NoAckStep, Calls
  <2> QED
    BY <1>a, <1>b, <1>c, <2>1, <2>2
<1>2. ASSUME UNCHANGED <<sdready, chunk, rest, dlen>>, FirstAck' /\ (StartAcked' <=> StartAcked) /\ (EndAcked' <=> EndAcked),
             \/ pc' = pc
             \/ pc \in {"idle", "polled"} /\ pc' \in {"idle", "s_ready", "m_start"}
             \/ ~StartAcked /\ ~EndAcked /\ pc # "s_end" /\ pc' \notin {"s_length", "s_data", "s_end"}
             \/ ~StartAcked /\ ~EndAcked /\ sdready = "dready_start" /\ pc # "s_end" /\ pc' # "s_end"
      PROVE  OneAck' /\ Offered'
  BY <1>a, <1>b, <1>2
<1>3. CASE ListenForReadDone \/ Drain \/ ListenReturns \/ DrainReturns
  <2>1. UNCHANGED <<sdready, chunk, rest, dlen>> /\ NoAckStep
    BY <1>3 DEF ListenForReadDone, Drain, ListenReturns, DrainReturns, NoAckStep, Calls
  <2>2. pc \in {"idle", "polled"} /\ pc' \in {"idle", "s_ready"}
    BY <1>3 DEF ListenForReadDone, Drain, ListenReturns, DrainReturns
  <2> QED
    BY <1>2, <1>c, <2>1, <2>2
<1>4. CASE Ask \/ AskAgain
  <2>1. UNCHANGED <<pc, sdready, chunk, rest, dlen>> /\ NoAckStep
    BY <1>4 DEF Ask, AskAgain, NoAckStep
  <2> QED
    BY <1>2, <1>c, <2>1
<1>5. CASE MasterAck
  <2>1. TakeAnswer /\ UNCHANGED <<sdready, chunk, rest, dlen>> /\ NoAckStep
    BY <1>5 DEF MasterAck, NoAckStep
  <2>2. pc # "s_end" /\ pc' \notin {"s_length", "s_data", "s_end"}
    BY <1>5 DEF MasterAck, SendSteps
  <2> QED
    BY <1>2, <1>c, <1>d, <2>1, <2>2
<1>6. CASE SlaveReady
  <2>1. TakeAnswer /\ UNCHANGED <<sdready, chunk, rest, dlen>> /\ NoAckStep
    BY <1>6 DEF SlaveReady, NoAckStep
  <2>2. pc # "s_end" /\ (pc' = "polled" \/ (pc' = "s_length" /\ Answer.word = "dready_start"))
    BY <1>6 DEF SlaveReady
  <2>3. pc = "s_ready" /\ (Answer.word = "dready_start" => sdready = "dready_start")
    BY <1>6, <1>a, <1>d, <2>1 DEF SlaveReady, Answered
  <2> QED
    BY <1>2, <1>c, <1>d, <2>1, <2>2, <2>3
<1>7. CASE SlaveLength
  <2>1. TakeAnswer /\ UNCHANGED <<sdready, chunk, rest, dlen>> /\ NoAckStep
    BY <1>7 DEF SlaveLength, NoAckStep
  <2>2. pc = "s_length" /\ pc' \in {"s_data", "polled"}
    BY <1>7 DEF SlaveLength
  <2> QED
    BY <1>2, <1>a, <1>c, <1>d, <2>1, <2>2
<1>8. CASE SlaveData
  <2>1. /\ TakeAnswer /\ UNCHANGED <<sdready, chunk, rest, dlen>> /\ pc = "s_data" /\ pc' = "s_end"
        /\ toBoard' = Append(toBoard, WriteTo("SLAVE_DACK", "dack_start"))
    BY <1>8 DEF SlaveData
  <2>2. FirstAck' /\ StartAcked' /\ ~EndAcked'
    BY <1>a, <1>d, <2>1, AckSent
  <2> QED
    BY <1>a, <2>1, <2>2
<1>9. CASE SlaveEnd
  <2>1. TakeAnswer /\ UNCHANGED <<sdready, chunk, rest, dlen>> /\ pc = "s_end"
    BY <1>9 DEF SlaveEnd
  <2>2. sdready = "dready_end" /\ chunk # Nothing
    BY <1>a, <1>d, <2>1
  <2>3. CASE UNCHANGED <<toBoard, pc>>
    <3>1. AcksKept
      BY <2>3 DEF AcksKept, AckAt
    <3>2. FirstAck' /\ (StartAcked' <=> StartAcked) /\ (EndAcked' <=> EndAcked)
      BY <1>a, <3>1, KeptAcks
    <3> QED
      BY <1>2, <2>1, <2>3, <3>2
  <2>4. CASE toBoard' = Append(toBoard, WriteTo("SLAVE_DACK", "dack_end")) /\ pc' = "polled"
    <3>1. FirstAck' /\ ~StartAcked' /\ EndAcked'
      BY <1>a, <1>d, <2>1, <2>4, AckSent
    <3> QED
      BY <1>a, <2>1, <2>2, <2>4, <3>1
  <2> QED
    BY <1>9, <2>3, <2>4 DEF SlaveEnd
<1>10. CASE HandleCommand
  <2>1. pc = "m_start" /\ pc' = pc
    BY <1>10, CommandArrives DEF HandleCommand
  <2>2. ~StartAcked /\ ~EndAcked
    BY <1>10, <1>a, NoAckBehind DEF HandleCommand
  <2>3. NoAckStep
    BY <1>10 DEF NoAckStep
  <2>4. chunk' # Nothing /\ sdready' = "dready_start" /\ dlen' = SizeOf(chunk')
    BY <1>10, <1>a, SomeText, NewAnswer
  <2>5. FirstAck' /\ ~StartAcked' /\ ~EndAcked'
    BY <1>c, <2>2, <2>3
  <2> QED
    BY <2>1, <2>4, <2>5
<1>11. CASE HandleMasterReady
  <2>1. UNCHANGED <<pc, sdready, chunk, rest, dlen>>
    BY <1>11 DEF HandleMasterReady
  <2>2. NoAckStep
    BY <1>11 DEF NoAckStep
  <2> QED
    BY <1>2, <1>c, <2>1, <2>2
<1>12. CASE HandleSlaveAck
  <2>1. UNCHANGED pc /\ FirstAck' /\ ~StartAcked' /\ ~EndAcked'
    BY <1>12, <1>a, AckHandled DEF HandleSlaveAck
  <2>2. CASE Head(toBoard).val = "dack_start"
    <3>1. StartAcked /\ sdready' = "dready_end" /\ UNCHANGED <<chunk, rest, dlen>>
      BY <1>12, <1>a, <2>2, AckHandled DEF HandleSlaveAck
    <3> QED
      BY <1>a, <2>1, <3>1
  <2>3. CASE Head(toBoard).val # "dack_start" /\ rest # << >>
    <3>1. EndAcked /\ moveTextToTransfer(rest)
      BY <1>12, <1>a, <2>3, AckHandled DEF HandleSlaveAck
    <3>2. chunk' # Nothing /\ sdready' = "dready_start" /\ dlen' = SizeOf(chunk')
      BY <1>12, <1>a, <2>3, <3>1, SomeText, NextChunk
    <3> QED
      BY <1>a, <2>1, <3>1, <3>2
  <2>4. CASE Head(toBoard).val # "dack_start" /\ rest = << >>
    <3>1. EndAcked /\ chunk' = Nothing /\ UNCHANGED <<sdready, rest, dlen>>
      BY <1>12, <1>a, <2>4, AckHandled DEF HandleSlaveAck
    <3> QED
      BY <1>a, <2>1, <2>4, <3>1
  <2> QED
    BY <2>2, <2>3, <2>4
<1>13. CASE HandleRead
  <2>1. UNCHANGED <<pc, sdready, chunk, rest, dlen>> /\ NoAckStep
    BY <1>13 DEF HandleRead, NoAckStep
  <2> QED
    BY <1>2, <1>c, <2>1
<1>14. CASE ReadDone
  <2>1. /\ chunk = Nothing /\ chunk' # Nothing /\ dlen' = SizeOf(chunk') /\ sdready' = "dready_start"
        /\ UNCHANGED <<pc, toBoard>>
    BY <1>14, <1>a, LastChunk, SomeText DEF ReadDone
  <2>2. ~StartAcked /\ ~EndAcked /\ pc # "s_end"
    BY <1>a, <1>b, <2>1
  <2>3. AcksKept
    BY <2>1 DEF AcksKept, AckAt
  <2>4. FirstAck' /\ ~StartAcked' /\ ~EndAcked'
    BY <1>a, <2>2, <2>3, KeptAcks
  <2> QED
    BY <2>1, <2>2, <2>4
<1>15. CASE Lose
  <2>1. UNCHANGED <<pc, sdready, chunk, rest, dlen>> /\ NoAckStep
    BY <1>15 DEF Lose, NoAckStep
  <2> QED
    BY <1>2, <1>c, <2>1
<1> QED
  BY <1>1, <1>3, <1>4, <1>5, <1>6, <1>7, <1>8, <1>9, <1>10, <1>11, <1>12, <1>13, <1>14, <1>15
     DEF Next, Calls, Daemon, Board

-----------------------------------------------------------------------------
(* An answer is what the board has now: nothing changes the text of the    *)
(* board between a read of it and the taking of the answer.                *)

LEMMA AckBefore ==
  ASSUME TypeInv, OneAck, HandleSlaveAck PROVE pc \notin {"s_length", "s_data"} /\ toBoard # << >>
<1>1. StartAcked \/ EndAcked
  BY AckHandled DEF OneAck
<1>2. pc \in {"idle", "polled", "s_ready", "m_start", "s_end"}
  BY <1>1 DEF OneAck
<1>3. toBoard # << >>
  BY DEF HandleSlaveAck, Arrives
<1> QED
  BY <1>2, <1>3

(* Text that is asked for by its length is not cut. *)
LEMMA WholeChunk == ASSUME NEW c, c = chunk PROVE AsText(SizeOf(c)) = c
BY DEF AsText, Fits

LEMMA AnsweredStep ==
  ASSUME Timely, CInv, CInv', Slave, OneAnswer, Next PROVE Answered'
<1>a. TypeInv /\ TypeInv' /\ OneRequest /\ OneAck /\ Offered /\ Answered
  BY DEF CInv, Slave
<1>1. ASSUME UNCHANGED <<pc, ndata, sdready, chunk, dlen>>, UNCHANGED toDaemon \/ toDaemon' = << >>
      PROVE  Answered'
  BY <1>1, <1>a DEF Answered, Answer
<1>2. ASSUME toDaemon' = << >>, pc' # "s_data" PROVE Answered'
  BY <1>2 DEF Answered
<1>3. ASSUME pc' \notin {"s_ready", "s_length", "s_data"} PROVE Answered'
  BY <1>3 DEF Answered
<1>4. CASE SendCmd
  BY <1>3, <1>4 DEF SendCmd
<1>5. CASE ListenForReadDone \/ Drain \/ ListenReturns \/ DrainReturns
  <2>1. pc \in {"idle", "polled"} /\ pc' \in {"idle", "s_ready"} /\ UNCHANGED toDaemon
    BY <1>5 DEF ListenForReadDone, Drain, ListenReturns, DrainReturns
  <2>2. toDaemon = << >>
    BY <1>a, <2>1 DEF OneRequest, SendSteps, RecvSteps
  <2> QED
    BY <1>2, <2>1, <2>2
<1>6. CASE Ask \/ AskAgain
  BY <1>1, <1>6 DEF Ask, AskAgain
<1>7. CASE MasterAck
  <2>1. TakeAnswer /\ pc' # "s_data"
    BY <1>7 DEF MasterAck, SendSteps
  <2> QED
    BY <1>2, <1>a, <2>1, TookAnswer
<1>8. CASE SlaveReady
  <2>1. TakeAnswer /\ pc' # "s_data"
    BY <1>8 DEF SlaveReady
  <2> QED
    BY <1>2, <1>a, <2>1, TookAnswer
<1>9. CASE SlaveLength
  <2>1. TakeAnswer /\ pc = "s_length" /\ ndata' = Answer.word /\ UNCHANGED <<chunk, dlen>>
    BY <1>9 DEF SlaveLength
  <2>2. toDaemon # << >> /\ toDaemon' = << >>
    BY <1>a, <2>1, TookAnswer
  <2>3. ndata' = dlen /\ chunk # Nothing
    BY <1>a, <2>1, <2>2 DEF Answered, Offered
  <2>4. ndata' = SizeOf(chunk)
    BY <1>a, <2>3 DEF Offered
  <2>5. SizeOf(chunk') = SizeOf(chunk)
    BY <2>1
  <2> QED
    BY <2>2, <2>4, <2>5 DEF Answered
<1>10. CASE SlaveData
  BY <1>3, <1>10 DEF SlaveData
<1>11. CASE SlaveEnd
  BY <1>3, <1>11 DEF SlaveEnd
<1>12. CASE HandleCommand
  <2>1. pc = "m_start" /\ pc' = pc
    BY <1>12, CommandArrives DEF HandleCommand
  <2> QED
    BY <1>3, <2>1
<1>13. CASE HandleMasterReady
  BY <1>1, <1>13 DEF HandleMasterReady
<1>14. CASE HandleSlaveAck
  <2>1. pc' # "s_data"
    BY <1>14, <1>a, AckBefore DEF HandleSlaveAck
  <2>2. toDaemon' = << >>
    BY <1>14, <1>a, AckBefore DEF OneRequest, HandleSlaveAck
  <2> QED
    BY <1>2, <2>1, <2>2
<1>15. CASE HandleRead
  <2>1. UNCHANGED <<pc, ndata, sdready, chunk, dlen>> /\ Head(toBoard) = Request
    BY <1>15, <1>a, AnsweredOne DEF HandleRead
  <2>2. toDaemon = << >> /\ Len(toDaemon) = 0
    BY <1>15, <1>a, AnsweredOne, EmptyDaemon
  <2>3. PICK x \in ToDaemon :
              /\ toDaemon' = Append(toDaemon, x)
              /\ Head(toBoard).reg = "SLAVE_DREADY" => x.word = sdready
              /\ Head(toBoard).reg = "SLAVE_DLENGTH" => x.word = dlen
              /\ Head(toBoard).reg = "SLAVE_DATA" => x.chunk = AsText(Head(toBoard).val)
    BY <1>15, <1>a, Read
  <2>4. toDaemon' = <<x>> /\ Answer' = x
    BY <2>2, <2>3 DEF Answer
  <2>5. CASE pc = "s_ready"
    <3>1. Head(toBoard).reg = "SLAVE_DREADY"
      BY <2>1, <2>5 DEF Request, ReadFrom, SendSteps
    <3> QED
      BY <2>1, <2>3, <2>4, <2>5, <3>1 DEF Answered
  <2>6. CASE pc = "s_length"
    <3>1. Head(toBoard).reg = "SLAVE_DLENGTH"
      BY <2>1, <2>6 DEF Request, ReadFrom, SendSteps
    <3> QED
      BY <2>1, <2>3, <2>4, <2>6, <3>1 DEF Answered
  <2>7. CASE pc = "s_data"
    <3>1. Head(toBoard).reg = "SLAVE_DATA" /\ Head(toBoard).val = ndata
      BY <2>1, <2>7 DEF Request, ReadFrom, SendSteps
    <3>2. ndata = SizeOf(chunk)
      BY <1>a, <2>7 DEF Answered
    <3>3. x.chunk = chunk
      BY <2>3, <3>1, <3>2, WholeChunk
    <3>4. ndata' = SizeOf(chunk)'
      BY <2>1, <3>2
    <3> QED
      BY <2>1, <2>4, <2>7, <3>3, <3>4 DEF Answered
  <2> QED
    BY <1>3, <2>1, <2>5, <2>6, <2>7
<1>16. CASE ReadDone
  <2>1. chunk = Nothing /\ sdready' = "dready_start" /\ UNCHANGED <<pc, ndata, toDaemon>>
    BY <1>16, <1>a, LastChunk DEF ReadDone, Offered
  <2>2. pc \notin {"s_length", "s_data"}
    BY <1>a, <2>1 DEF Offered
  <2> QED
    BY <2>1, <2>2 DEF Answered
<1>17. CASE Lose
  <2>1. UNCHANGED <<pc, ndata, sdready, chunk, dlen>>
    BY <1>17 DEF Lose
  <2>2. UNCHANGED toDaemon \/ toDaemon' = << >>
    <3>1. CASE toDaemon' # toDaemon
      <4>1. PICK i \in 1 .. Len(toDaemon) : Len(toDaemon') = Len(toDaemon) - 1
        BY <1>17, <1>a, <3>1, Lost
      <4>2. Len(toDaemon) <= 1 /\ Len(toDaemon) \in Nat
        BY <1>a, Flows DEF OneRequest
      <4>3. Len(toDaemon') = 0
        BY <4>1, <4>2
      <4>4. toDaemon' \in Seq(ToDaemon)
        BY <1>a DEF TypeInv, TypeOK
      <4> QED
        BY <4>3, <4>4, EmptySeq
    <3> QED
      BY <3>1
  <2> QED
    BY <1>1, <2>1, <2>2
<1> QED
  BY <1>4, <1>5, <1>6, <1>7, <1>8, <1>9, <1>10, <1>11, <1>12, <1>13, <1>14, <1>15, <1>16, <1>17
     DEF Next, Calls, Daemon, Board

LEMMA SlaveStep == ASSUME Timely, CInv, CInv', Slave, OneAnswer, Next PROVE Slave'
<1>1. TypeInv /\ TypeInv' /\ OneRequest
  BY DEF CInv, Slave
<1> QED
  BY <1>1, OneRequestStep, OfferedStep, AnsweredStep DEF Slave

-----------------------------------------------------------------------------
(* What the daemon has received.                                           *)

LEMMA GotTypes ==
  ASSUME TypeInv
  PROVE  /\ got \in Seq(Chunks) /\ Len(got) \in Nat /\ DOMAIN got = 1 .. Len(got)
         /\ got # << >> <=> Len(got) \in DOMAIN got
         /\ \A i \in DOMAIN got : got[i].cmd \in Nat /\ got[i].no \in Nat
         /\ executed \in Nat /\ made \in Nat /\ chunk \in Chunks /\ chunk.no \in Nat /\ chunk.cmd \in Nat
<1>1. got \in Seq(Chunks) /\ executed \in Nat /\ made \in Nat /\ chunk \in Chunks
  BY DEF TypeInv, TypeOK
<1>2. Len(got) \in Nat /\ DOMAIN got = 1 .. Len(got) /\ (got = << >> <=> Len(got) = 0)
  BY <1>1, LenProperties, EmptySeq
<1>3. \A i \in DOMAIN got : got[i] \in Chunks
  BY <1>1, <1>2, ElementOfSeq
<1>4. \A c \in Chunks : c.cmd \in Nat /\ c.no \in Nat
  BY DEF Chunks
<1>5. got # << >> <=> Len(got) \in DOMAIN got
  BY <1>2
<1> QED
  BY <1>1, <1>2, <1>3, <1>4, <1>5

LEMMA ReceivedOnce ==
  ASSUME TypeInv, NEW m \in Nat, NEW n \in Nat, Received(m), Received(n) PROVE m = n
<1>1. CASE m = 0 /\ n > 0
  <2>1. Len(got) \in DOMAIN got /\ got[Len(got)].cmd = executed
    BY <1>1, GotTypes DEF Received
  <2>2. got[Len(got)].cmd < executed
    BY <1>1, <2>1 DEF Received
  <2> QED
    BY <2>1, <2>2, GotTypes
<1>2. CASE n = 0 /\ m > 0
  <2>1. Len(got) \in DOMAIN got /\ got[Len(got)].cmd = executed
    BY <1>2, GotTypes DEF Received
  <2>2. got[Len(got)].cmd < executed
    BY <1>2, <2>1 DEF Received
  <2> QED
    BY <2>1, <2>2, GotTypes
<1>3. CASE m > 0 /\ n > 0
  BY <1>3 DEF Received
<1> QED
  BY <1>1, <1>2, <1>3

(* Text is received as it is offered, and once. *)
LEMMA TextTaken ==
  ASSUME TypeInv, TypeInv', Slave, OneAnswer, Continued, SlaveData
  PROVE  /\ got' = Append(got, chunk) /\ tempBuff' = <<chunk>>
         /\ Len(got') = Len(got) + 1 /\ DOMAIN got' = 1 .. Len(got) + 1 /\ got' # << >>
         /\ got'[Len(got) + 1] = chunk /\ \A i \in 1 .. Len(got) : got'[i] = got[i]
         /\ chunk # Nothing /\ chunk.mark \in Marks /\ chunk.cmd = executed /\ chunk.no >= 1
         /\ Received(chunk.no - 1)
<1>1. TakeAnswer /\ pc = "s_data"
  BY DEF SlaveData
<1>2. toDaemon # << >> /\ OneRequest /\ OneAck /\ Offered /\ Answered
  BY <1>1, TookAnswer DEF Slave
<1>3. Answer.chunk = chunk
  BY <1>1, <1>2 DEF Answered
<1>4. got' = Append(got, chunk) /\ tempBuff' = <<chunk>>
  BY <1>3 DEF SlaveData
<1>5. chunk # Nothing /\ ~TakenByDaemon
  BY <1>1, <1>2 DEF Offered, TakenByDaemon, OneAck
<1>6. chunk.mark \in Marks /\ chunk.cmd = executed /\ chunk.no >= 1
  BY <1>5 DEF OneAnswer
<1>7. Received(chunk.no - 1)
  BY <1>5 DEF Continued
<1>8. got \in Seq(Chunks) /\ chunk \in Chunks
  BY GotTypes
<1>9. /\ Len(got') = Len(got) + 1 /\ got' \in Seq(Chunks)
      /\ got'[Len(got) + 1] = chunk /\ \A i \in 1 .. Len(got) : got'[i] = got[i]
  BY <1>4, <1>8, AppendProperties
<1>10. DOMAIN got' = 1 .. Len(got) + 1 /\ got' # << >>
  BY <1>4, <1>8, <1>9, LenProperties, AppendProperties
<1> QED
  BY <1>4, <1>5, <1>6, <1>7, <1>9, <1>10

LEMMA ContinuedStep ==
  ASSUME Timely, CInv, CInv', Slave, Slave', OneAnswer, Continued, Next PROVE Continued'
<1>a. TypeInv /\ TypeInv' /\ OneRequest /\ OneAck /\ Offered /\ FirstAck
  BY DEF CInv, Slave, OneAck
<1>b. /\ got \in Seq(Chunks) /\ Len(got) \in Nat /\ DOMAIN got = 1 .. Len(got)
      /\ executed \in Nat /\ made \in Nat /\ chunk.no \in Nat /\ chunk.cmd \in Nat
      /\ \A i \in DOMAIN got : got[i].cmd \in Nat /\ got[i].no \in Nat
  BY <1>a, GotTypes
<1>1. ASSUME UNCHANGED <<got, executed, chunk, made>>, TakenByDaemon' <=> TakenByDaemon PROVE Continued'
  <2>1. UNCHANGED Received(chunk.no - 1) /\ UNCHANGED Received(made)
    BY <1>1 DEF Received
  <2>2. (\A i \in DOMAIN got : got[i].cmd <= executed)'
    BY <1>1 DEF Continued
  <2>3. (TakenByDaemon => got # << >> /\ got[Len(got)] = chunk)'
    BY <1>1 DEF Continued
  <2>4. (chunk # Nothing /\ ~TakenByDaemon => Received(chunk.no - 1))'
    BY <1>1, <2>1 DEF Continued
  <2>5. (chunk = Nothing => IF executed = 0 THEN got = << >> ELSE made >= 1 /\ Received(made))'
    BY <1>1, <2>1 DEF Continued
  <2> QED
    BY <2>2, <2>3, <2>4, <2>5 DEF Continued
<1>2. ASSUME NoAckStep, ~HandleCommand, ~ReadDone PROVE Continued'
  <2>1. EndAcked' <=> EndAcked
    BY <1>2, <1>a, AcksStay, KeptAcks
  <2>2. UNCHANGED <<got, executed, chunk, made>>
    <3>1. CASE Calls
      BY <3>1 DEF Calls, SendCmd, ListenForReadDone, Drain
    <3>2. CASE ListenReturns \/ DrainReturns \/ Ask \/ AskAgain
      BY <3>2 DEF ListenReturns, DrainReturns, Ask, AskAgain
    <3>3. CASE MasterAck \/ SlaveReady \/ SlaveLength
      BY <3>3 DEF MasterAck, SlaveReady, SlaveLength
    <3>4. CASE HandleMasterReady \/ HandleRead \/ Lose
      BY <3>4 DEF HandleMasterReady, HandleRead, Lose
    <3> QED
      BY <1>2, <3>1, <3>2, <3>3, <3>4 DEF NoAckStep
  <2>3. pc' = "s_end" <=> pc = "s_end"
    <3>1. CASE Calls
      BY <3>1 DEF Calls, SendCmd, ListenForReadDone, Drain
    <3>2. CASE ListenReturns \/ DrainReturns \/ Ask \/ AskAgain
      BY <3>2 DEF ListenReturns, DrainReturns, Ask, AskAgain
    <3>3. CASE MasterAck \/ SlaveReady \/ SlaveLength
      BY <3>3 DEF MasterAck, SlaveReady, SlaveLength, SendSteps
    <3>4. CASE HandleMasterReady \/ HandleRead \/ Lose
      BY <3>4 DEF HandleMasterReady, HandleRead, Lose
    <3> QED
      BY <1>2, <3>1, <3>2, <3>3, <3>4 DEF NoAckStep
  <2> QED
    BY <1>1, <2>1, <2>2, <2>3 DEF TakenByDaemon
<1>3. CASE SlaveData
  <2>1. /\ Len(got') = Len(got) + 1 /\ DOMAIN got' = 1 .. Len(got) + 1 /\ got' # << >>
        /\ got'[Len(got) + 1] = chunk /\ \A i \in 1 .. Len(got) : got'[i] = got[i]
        /\ chunk # Nothing /\ chunk.cmd = executed
    BY <1>3, <1>a, TextTaken
  <2>2. UNCHANGED <<executed, chunk>> /\ TakenByDaemon'
    BY <1>3 DEF SlaveData, TakenByDaemon
  <2>3. ASSUME NEW i \in DOMAIN got' PROVE got'[i].cmd <= executed
    <3>1. CASE i = Len(got) + 1
      BY <1>b, <2>1, <3>1
    <3>2. CASE i \in DOMAIN got
      BY <1>b, <2>1, <3>2 DEF Continued
    <3> QED
      BY <1>b, <2>1, <2>3, <3>1, <3>2
  <2>4. got'[Len(got')] = chunk
    BY <2>1
  <2> QED
    BY <2>1, <2>2, <2>3, <2>4 DEF Continued
<1>4. CASE SlaveEnd
  <2>1. TakenByDaemon /\ UNCHANGED <<got, executed, chunk, made>>
    BY <1>4 DEF SlaveEnd, TakenByDaemon
  <2>2. toBoard = << >>
    BY <1>4, <1>a, TookAnswer DEF SlaveEnd
  <2>3. TakenByDaemon'
    <3>1. CASE UNCHANGED pc
      BY <2>1, <3>1, <1>4 DEF TakenByDaemon, SlaveEnd
    <3>2. CASE toBoard' = Append(toBoard, WriteTo("SLAVE_DACK", "dack_end"))
      BY <1>a, <2>2, <3>2, AckSent DEF TakenByDaemon
    <3> QED
      BY <1>4, <3>1, <3>2 DEF SlaveEnd
  <2> QED
    BY <1>1, <2>1, <2>3
<1>5. CASE HandleCommand
  <2>1. ~TakenByDaemon'
    <3>1. pc' # "s_end" /\ ~EndAcked
      BY <1>5, <1>a, CommandArrives, NoAckBehind DEF HandleCommand
    <3>2. EndAcked' <=> EndAcked
      BY <1>5, <1>a, AcksStay, KeptAcks DEF NoAckStep
    <3> QED
      BY <3>1, <3>2 DEF TakenByDaemon
  <2>2. chunk'.no = 1 /\ executed' = executed + 1 /\ UNCHANGED got /\ chunk' # Nothing
    <3>1. chunk' # Nothing
      BY <1>5, <1>a, SomeText
    <3>2. executed' = executed + 1 /\ UNCHANGED got
      BY <1>5 DEF HandleCommand
    <3>3. chunk'.no = 1
      BY <1>5, <1>a, NewAnswer
    <3> QED
      BY <3>1, <3>2, <3>3
  <2>3. \A i \in DOMAIN got' : got'[i].cmd < executed' /\ got'[i].cmd <= executed'
    BY <1>b, <2>2 DEF Continued
  <2>4. Received(chunk.no - 1)'
    BY <2>2, <2>3 DEF Received
  <2> QED
    BY <2>1, <2>2, <2>3, <2>4 DEF Continued
<1>6. CASE HandleSlaveAck
  <2>1. UNCHANGED <<got, executed, made, pc>> /\ ~EndAcked'
    BY <1>6, <1>a, AckHandled DEF HandleSlaveAck
  <2>2. CASE Head(toBoard).val = "dack_start"
    <3>1. StartAcked /\ UNCHANGED chunk
      BY <1>6, <1>a, <2>2, AckHandled DEF HandleSlaveAck
    <3>2. TakenByDaemon /\ TakenByDaemon'
      BY <1>a, <2>1, <3>1 DEF OneAck, TakenByDaemon
    <3> QED
      BY <1>1, <2>1, <3>1, <3>2
  <2>3. CASE Head(toBoard).val # "dack_start"
    <3>1. EndAcked
      BY <1>6, <1>a, <2>3, AckHandled
    <3>2. got # << >> /\ got[Len(got)] = chunk /\ chunk # Nothing /\ ~TakenByDaemon'
      BY <1>a, <2>1, <3>1 DEF OneAck, TakenByDaemon, Continued, Offered
    <3>3. chunk.cmd = executed /\ chunk.no >= 1 /\ made = chunk.no + Len(rest) /\ executed >= 1
      BY <3>2 DEF OneAnswer
    <3>4. \A i \in DOMAIN got' : got'[i].cmd <= executed'
      BY <2>1 DEF Continued
    <3>5. got' # << >> /\ got'[Len(got')].cmd = executed' /\ got'[Len(got')].no = chunk.no
      BY <2>1, <3>2, <3>3
    <3>6. CASE rest # << >>
      <4>1. chunk' = rest[1] /\ 1 \in DOMAIN rest
        BY <1>6, <1>a, <2>3, <3>6, NextChunk DEF HandleSlaveAck
      <4>2. chunk'.no - 1 = chunk.no
        <5>1. rest[1].no = chunk.no + 1
          BY <4>1 DEF OneAnswer
        <5> QED
          BY <1>b, <4>1, <5>1
      <4>3. chunk'.no - 1 # 0
        BY <1>b, <3>3, <4>2
      <4>4. chunk' # Nothing
        BY <1>6, <1>a, <2>3, <3>6, SomeText
      <4>5. Received(chunk.no - 1)'
        BY <3>5, <4>2, <4>3 DEF Received
      <4> QED
        BY <3>2, <3>4, <4>4, <4>5 DEF Continued
    <3>7. CASE rest = << >>
      <4>1. chunk' = Nothing
        BY <1>6, <2>3, <3>7 DEF HandleSlaveAck
      <4>2. made' = chunk.no /\ made' >= 1 /\ executed' # 0
        <5>1. Len(rest) = 0
          BY <3>7
        <5> QED
          BY <1>b, <2>1, <3>3, <5>1
      <4>3. Received(made)'
        BY <1>b, <3>3, <3>5, <4>2 DEF Received
      <4> QED
        BY <3>2, <3>4, <4>1, <4>2, <4>3 DEF Continued
    <3> QED
      BY <3>6, <3>7
  <2> QED
    BY <2>2, <2>3
<1>7. CASE ReadDone
  <2>1. /\ chunk = Nothing /\ chunk' # Nothing /\ chunk'.no = made + 1 /\ UNCHANGED toBoard
        /\ UNCHANGED <<got, executed, pc>>
    <3>1. chunk = Nothing /\ chunk' = [no |-> made + 1, cmd |-> executed, mark |-> "read done"]
      BY <1>7, <1>a, LastChunk DEF Offered
    <3>2. chunk'.no = made + 1
      BY <3>1
    <3> QED
      BY <1>7, <1>a, <3>1, <3>2, SomeText DEF ReadDone
  <2>2. ~TakenByDaemon /\ executed # 0
    <3>1. sending
      BY <1>7, Zenon DEF ReadDone
    <3>2. ~TakenByDaemon
      BY <1>a, <2>1 DEF Offered
    <3>3. executed >= 1
      BY <3>1 DEF OneAnswer
    <3> QED
      BY <1>b, <3>2, <3>3
  <2>3. ~TakenByDaemon'
    BY <2>1, <2>2 DEF TakenByDaemon, EndAcked, Acks
  <2>4. Received(made)
    BY <2>1, <2>2 DEF Continued
  <2>5. chunk'.no - 1 = made
    BY <1>b, <2>1
  <2>6. Received(chunk.no - 1)'
    BY <2>1, <2>4, <2>5 DEF Received
  <2>7. \A i \in DOMAIN got' : got'[i].cmd <= executed'
    BY <2>1 DEF Continued
  <2> QED
    BY <2>1, <2>3, <2>6, <2>7 DEF Continued
<1>8. NoAckStep \/ SlaveData \/ SlaveEnd \/ HandleSlaveAck
  BY DEF NoAckStep, Next, Daemon, Board
<1> QED
  BY <1>2, <1>3, <1>4, <1>5, <1>6, <1>7, <1>8

LEMMA GenuineStep ==
  ASSUME Timely, CInv, CInv', Slave, OneAnswer, Continued, TextGenuine, Next PROVE TextGenuine'
<1>a. TypeInv /\ TypeInv'
  BY DEF CInv
<1>b. /\ got \in Seq(Chunks) /\ Len(got) \in Nat /\ DOMAIN got = 1 .. Len(got)
      /\ executed \in Nat /\ chunk.no \in Nat
  BY <1>a, GotTypes
<1>1. CASE UNCHANGED got
  BY <1>1 DEF TextGenuine
<1>2. CASE SlaveData
  <2>1. /\ Len(got') = Len(got) + 1 /\ got'[Len(got) + 1] = chunk /\ \A i \in 1 .. Len(got) : got'[i] = got[i]
        /\ chunk.mark \in Marks /\ chunk.cmd = executed /\ chunk.no >= 1 /\ Received(chunk.no - 1)
    BY <1>2, <1>a, TextTaken
  <2>2. ASSUME NEW i \in 1 .. Len(got')
        PROVE  /\ got'[i].mark \in {"text", "error", "done", "read done"}
               /\ IF got'[i].no = 1
                    THEN \A j \in 1 .. i - 1 : got'[j].cmd < got'[i].cmd
                    ELSE i > 1 /\ got'[i - 1].no = got'[i].no - 1 /\ got'[i - 1].cmd = got'[i].cmd
    <3>1. CASE i \in 1 .. Len(got)
      <4>1. got'[i] = got[i] /\ \A j \in 1 .. i - 1 : got'[j] = got[j]
        BY <1>b, <2>1, <3>1
      <4>2. i > 1 => got'[i - 1] = got[i - 1]
        BY <1>b, <2>1, <3>1
      <4>3. /\ got[i].mark \in {"text", "error", "done", "read done"}
            /\ IF got[i].no = 1
                 THEN \A j \in 1 .. i - 1 : got[j].cmd < got[i].cmd
                 ELSE i > 1 /\ got[i - 1].no = got[i].no - 1 /\ got[i - 1].cmd = got[i].cmd
        BY <3>1 DEF TextGenuine
      <4> QED
        BY <4>1, <4>2, <4>3
    <3>2. CASE i = Len(got) + 1
      <4>1. got'[i] = chunk /\ i - 1 = Len(got)
        BY <1>b, <2>1, <3>2
      <4>2. CASE chunk.no = 1
        <5>1. \A j \in 1 .. Len(got) : got[j].cmd < executed
          BY <1>b, <2>1, <4>2 DEF Received
        <5>2. \A j \in 1 .. i - 1 : got'[j].cmd < chunk.cmd
          BY <2>1, <4>1, <5>1
        <5> QED
          BY <2>1, <4>1, <4>2, <5>2 DEF Marks
      <4>3. CASE chunk.no # 1
        <5>1. got # << >> /\ got[Len(got)].cmd = executed /\ got[Len(got)].no = chunk.no - 1
          BY <1>b, <2>1, <4>3 DEF Received
        <5>2. Len(got) \in 1 .. Len(got)
          BY <1>a, <1>b, <5>1, GotTypes
        <5>3. i > 1 /\ got'[i - 1] = got[Len(got)]
          BY <1>b, <2>1, <3>2, <4>1, <5>2
        <5> QED
          BY <2>1, <4>1, <4>3, <5>1, <5>3 DEF Marks
      <4> QED
        BY <4>2, <4>3
    <3>3. i \in 1 .. Len(got) \/ i = Len(got) + 1
      BY <1>b, <2>1
    <3> QED
      BY <3>1, <3>2, <3>3
  <2> QED
    BY <2>2 DEF TextGenuine
<1>3. SlaveData \/ UNCHANGED got
  <2>1. CASE Calls
    BY <2>1 DEF Calls, SendCmd, ListenForReadDone, Drain
  <2>2. CASE ListenReturns \/ DrainReturns \/ Ask \/ AskAgain
    BY <2>2 DEF ListenReturns, DrainReturns, Ask, AskAgain
  <2>3. CASE MasterAck \/ SlaveReady \/ SlaveLength \/ SlaveEnd
    BY <2>3 DEF MasterAck, SlaveReady, SlaveLength, SlaveEnd
  <2>4. CASE Board
    BY <2>4 DEF Board, HandleCommand, HandleMasterReady, HandleSlaveAck, HandleRead, ReadDone
  <2>5. CASE Lose
    BY <2>5 DEF Lose
  <2> QED
    BY <2>1, <2>2, <2>3, <2>4, <2>5 DEF Next, Daemon
<1> QED
  BY <1>1, <1>2, <1>3

-----------------------------------------------------------------------------
(* What a listener collects.                                               *)

LEMMA ListenerTypes ==
  ASSUME TypeInv
  PROVE  /\ text \in Seq(Chunks) /\ Len(text) \in Nat /\ DOMAIN text = 1 .. Len(text)
         /\ commands \in Nat /\ (asked => pc \in SendSteps \cup RecvSteps)
<1>1. text \in Seq(Chunks) /\ commands \in 0 .. MaxCommands /\ MaxCommands \in Nat
  BY CtrlAssumption DEF TypeInv, TypeOK
<1> QED
  BY <1>1, LenProperties DEF TypeInv, AskedInCall

LEMMA OutsideSend == ASSUME CInv, pc # "m_start" PROVE commands = executed
BY DEF CInv, OneCommand

LEMMA CollectingStep ==
  ASSUME Timely, CInv, CInv', Slave, OneAnswer, Continued, Collecting, Next PROVE Collecting'
<1>a. TypeInv /\ TypeInv' /\ OneRequest /\ OneAck
  BY DEF CInv, Slave
<1>b. /\ Len(got) \in Nat /\ DOMAIN got = 1 .. Len(got) /\ executed \in Nat /\ chunk.no \in Nat
      /\ \A i \in DOMAIN got : got[i].cmd \in Nat
      /\ Len(text) \in Nat /\ commands \in Nat
  BY <1>a, GotTypes, ListenerTypes
<1>c. Len(<< >>) = 0 /\ \A x : Len(<<x>>) = 1
  OBVIOUS
<1>d. (~asked \/ pc \in SendSteps \cup RecvSteps) /\ (~asked' \/ pc' \in SendSteps \cup RecvSteps)
  BY <1>a DEF TypeInv, AskedInCall
<1> USE DEF SendSteps, RecvSteps
<1>1. ASSUME UNCHANGED <<pc, asked, caller, expect, tempBuff, text, got, commands, executed>>
      PROVE  Collecting'
  <2>1. Collected' = Collected /\ Listening' = Listening
    BY <1>1 DEF Collected, Listening
  <2>2. Received(Collected)' <=> Received(Collected)
    BY <1>1, <2>1 DEF Received
  <2> QED
    BY <1>1, <2>1, <2>2 DEF Collecting
<1>2. CASE SendCmd
  <2>1. /\ pc = "idle" /\ pc' = "m_start" /\ expect' = "done" /\ text' = << >>
        /\ UNCHANGED got /\ commands' = commands + 1
    BY <1>2 DEF SendCmd
  <2>2. \A i \in DOMAIN got' : got'[i].cmd < commands'
    BY <1>b, <2>1, OutsideSend DEF Continued
  <2>3. ~Listening'
    BY <2>1 DEF Listening
  <2> QED
    BY <2>1, <2>2, <2>3 DEF Collecting
<1>3. CASE ListenForReadDone
  <2>1. pc' = "s_ready" /\ pc = "idle" /\ expect' = "read done" /\ UNCHANGED asked
    BY <1>3 DEF ListenForReadDone
  <2>2. ~asked' /\ ~Listening'
    BY <1>d, <2>1 DEF Listening
  <2> QED
    BY <2>1, <2>2 DEF Collecting
<1>4. CASE Drain
  <2>1. pc' = "s_ready" /\ pc = "idle" /\ caller' = "drain" /\ UNCHANGED asked
    BY <1>4 DEF Drain
  <2>2. ~asked' /\ ~Listening'
    BY <1>d, <2>1 DEF Listening
  <2> QED
    BY <2>1, <2>2 DEF Collecting
<1>5. CASE DrainReturns
  <2>1. pc' \in {"s_ready", "idle"} /\ pc = "polled" /\ caller' = "drain" /\ UNCHANGED asked
    BY <1>5 DEF DrainReturns
  <2>2. ~asked' /\ ~Listening'
    BY <1>d, <2>1 DEF Listening
  <2> QED
    BY <2>1, <2>2 DEF Collecting
<1>6. CASE ListenReturns
  <2>1. /\ pc' \in {"s_ready", "idle"} /\ pc = "polled" /\ caller = "listen"
        /\ UNCHANGED <<asked, expect, caller, got, executed>> /\ text' = text \o tempBuff
    BY <1>6 DEF ListenReturns
  <2>2. ~asked'
    BY <1>d, <2>1
  <2>3. Len(text') = Len(text) + Len(tempBuff)
    <3>1. text \in Seq(Chunks) /\ tempBuff \in Seq(Chunks)
      BY <1>a DEF TypeInv, TypeOK
    <3> QED
      BY <2>1, <3>1, ConcatProperties
  <2>4. ASSUME Listening' PROVE Received(Collected)'
    <3>1. Listening /\ Collected = Len(text') /\ Collected' = Len(text')
      BY <2>1, <2>3, <2>4 DEF Listening, Collected
    <3>2. Received(Collected)
      BY <3>1 DEF Collecting
    <3> QED
      BY <2>1, <3>1, <3>2 DEF Received
  <2> QED
    BY <2>1, <2>2, <2>4 DEF Collecting
<1>7. CASE Ask
  <2>1. /\ UNCHANGED <<pc, caller, expect, text, got, commands, executed>>
        /\ tempBuff' = IF pc = "s_ready" THEN << >> ELSE tempBuff
    BY <1>7 DEF Ask
  <2>2. Collected' = Collected /\ Listening' = Listening
    BY <2>1 DEF Collected, Listening
  <2>3. Received(Collected)' <=> Received(Collected)
    BY <2>1, <2>2 DEF Received
  <2> QED
    BY <2>1, <2>2, <2>3 DEF Collecting
<1>8. CASE MasterAck
  <2>1. /\ pc \in SendSteps /\ pc' \in {pc, "m_end", "s_ready"} /\ TakeAnswer
        /\ UNCHANGED <<expect, tempBuff, text, got, commands, executed>>
    BY <1>8 DEF MasterAck
  <2>2. asked' = FALSE
    BY <2>1 DEF TakeAnswer
  <2>3. expect = "done" /\ text = << >> /\ \A i \in DOMAIN got : got[i].cmd < commands
    BY <2>1 DEF Collecting
  <2>4. ASSUME Listening' PROVE Received(Collected)'
    <3>1. pc' = "s_ready" /\ pc = "m_end"
      BY <1>8, <2>4 DEF MasterAck, Listening
    <3>2. commands = executed /\ Collected' = 0
      BY <1>c, <2>1, <2>3, <3>1, OutsideSend DEF Collected
    <3> QED
      BY <2>1, <2>3, <3>2 DEF Received
  <2> QED
    BY <2>1, <2>2, <2>3, <2>4 DEF Collecting
<1>9. ASSUME pc \in {"s_ready", "s_length"}, pc' \in {"s_length", "s_data", "polled"}, TakeAnswer,
             UNCHANGED <<caller, expect, tempBuff, text, got, commands, executed>>
      PROVE  Collecting'
  <2>1. asked
    BY <1>9, Zenon DEF TakeAnswer
  <2>2. tempBuff = << >>
    BY <1>9, <2>1 DEF Collecting
  <2>3. Collected' = Collected /\ Listening' = Listening
    BY <1>9, <1>b, <1>c, <2>2 DEF Collected, Listening
  <2>4. Received(Collected)' <=> Received(Collected)
    BY <1>9, <2>3 DEF Received
  <2> QED
    BY <1>9, <2>2, <2>3, <2>4 DEF Collecting
<1>10. CASE SlaveReady
  BY <1>9, <1>10 DEF SlaveReady
<1>11. CASE SlaveLength
  BY <1>9, <1>11 DEF SlaveLength
<1>12. CASE SlaveData
  <2>1. /\ tempBuff' = <<chunk>> /\ Len(got') = Len(got) + 1 /\ got' # << >>
        /\ got'[Len(got) + 1] = chunk /\ chunk.cmd = executed /\ chunk.no >= 1 /\ Received(chunk.no - 1)
    BY <1>12, <1>a, TextTaken
  <2>2. pc = "s_data" /\ pc' = "s_end" /\ UNCHANGED <<caller, expect, text, commands, executed>>
    BY <1>12 DEF SlaveData
  <2>3. tempBuff' = <<got'[Len(got')]>>
    BY <2>1
  <2>4. ASSUME Listening' PROVE Received(Collected)'
    <3>1. Listening /\ Collected = Len(text)
      BY <2>2, <2>4 DEF Listening, Collected
    <3>2. Received(Len(text))
      BY <3>1 DEF Collecting
    <3>3. chunk.no - 1 \in Nat
      BY <1>b, <2>1
    <3>4. chunk.no - 1 = Len(text)
      BY <1>a, <1>b, <2>1, <3>2, <3>3, ReceivedOnce
    <3>5. Collected' = chunk.no /\ chunk.no # 0
      <4>1. Collected' = Len(text') + Len(tempBuff')
        BY <2>2 DEF Collected
      <4>2. Len(text') = Len(text) /\ Len(tempBuff') = 1
        BY <1>c, <2>1, <2>2
      <4> QED
        BY <1>b, <2>1, <3>4, <4>1, <4>2
    <3>6. got'[Len(got')] = chunk
      BY <2>1
    <3> QED
      BY <1>b, <2>1, <2>2, <3>5, <3>6 DEF Received
  <2> QED
    BY <2>2, <2>3, <2>4 DEF Collecting
<1>13. CASE SlaveEnd
  <2>1. /\ pc = "s_end" /\ pc' \in {"s_end", "polled"}
        /\ UNCHANGED <<caller, expect, tempBuff, text, got, commands, executed>>
    BY <1>13 DEF SlaveEnd
  <2>2. got # << >> /\ tempBuff = <<got[Len(got)]>>
    BY <2>1 DEF Collecting, Continued, TakenByDaemon
  <2>3. Collected' = Collected /\ Listening' = Listening
    BY <2>1 DEF Collected, Listening
  <2>4. Received(Collected)' <=> Received(Collected)
    BY <2>1, <2>3 DEF Received
  <2> QED
    BY <2>1, <2>2, <2>3, <2>4 DEF Collecting
<1>14. CASE HandleCommand
  <2>1. pc = "m_start" /\ UNCHANGED <<pc, expect, text, got, commands>>
    BY <1>14, CommandArrives DEF HandleCommand
  <2>2. ~Listening'
    BY <2>1 DEF Listening
  <2> QED
    BY <2>1, <2>2 DEF Collecting
<1>15. CASE AskAgain \/ HandleMasterReady \/ HandleSlaveAck \/ HandleRead
  BY <1>1, <1>15 DEF AskAgain, HandleMasterReady, HandleSlaveAck, HandleRead
<1>16. CASE ReadDone \/ Lose
  BY <1>1, <1>16 DEF ReadDone, Lose
<1> QED
  BY <1>2, <1>3, <1>4, <1>5, <1>6, <1>7, <1>8, <1>10, <1>11, <1>12, <1>13, <1>14, <1>15, <1>16
     DEF Next, Calls, Daemon, Board

LEMMA AnswersStep ==
  ASSUME CInv, CInv', Collecting, AnswersThisCommand, Next PROVE AnswersThisCommand'
<1>a. TypeInv
  BY DEF CInv
<1>b. text \in Seq(Chunks) /\ Len(text) \in Nat /\ executed \in Nat
  BY <1>a, GotTypes, ListenerTypes
<1>1. ASSUME UNCHANGED <<expect, text, commands>> PROVE AnswersThisCommand'
  BY <1>1 DEF AnswersThisCommand
<1>2. CASE SendCmd
  <2>1. Len(text') = 0
    BY <1>2 DEF SendCmd
  <2> QED
    BY <2>1 DEF AnswersThisCommand
<1>3. CASE ListenForReadDone
  <2>1. expect' = "read done"
    BY <1>3 DEF ListenForReadDone
  <2> QED
    BY <2>1 DEF AnswersThisCommand
<1>4. CASE ListenReturns
  <2>1. /\ pc = "polled" /\ caller = "listen" /\ UNCHANGED <<expect, commands>>
        /\ text' = text \o tempBuff
    BY <1>4 DEF ListenReturns
  <2>2. CASE tempBuff = << >>
    <3>1. text' = text
      BY <1>b, <2>1, <2>2, ConcatEmptySeq
    <3> QED
      BY <1>1, <2>1, <3>1
  <2>3. CASE expect # "done"
    BY <2>1, <2>3 DEF AnswersThisCommand
  <2>4. CASE tempBuff # << >> /\ expect = "done"
    <3>1. got # << >> /\ tempBuff = <<got[Len(got)]>>
      BY <2>1, <2>4 DEF Collecting
    <3>2. Listening /\ Collected = Len(text) + Len(tempBuff)
      BY <2>1, <2>4 DEF Listening, Collected
    <3>3. Received(Len(text) + 1)
      <4>1. Len(tempBuff) = 1
        BY <3>1
      <4> QED
        BY <3>2, <4>1 DEF Collecting
    <3>4. got[Len(got)].cmd = executed /\ got[Len(got)].no = Len(text) + 1
      BY <1>b, <3>3 DEF Received
    <3>5. commands = executed
      BY <2>1, OutsideSend
    <3>6. /\ Len(text') = Len(text) + 1 /\ text'[Len(text) + 1] = got[Len(got)]
          /\ \A i \in 1 .. Len(text) : text'[i] = text[i]
      <4>1. got[Len(got)] \in Chunks
        BY <1>a, <3>1, GotTypes, ElementOfSeq
      <4>2. text' = Append(text, got[Len(got)])
        BY <1>b, <2>1, <3>1, <4>1, AppendIsConcat
      <4> QED
        BY <1>b, <4>1, <4>2, AppendProperties
    <3>7. ASSUME NEW i \in 1 .. Len(text') PROVE text'[i].cmd = commands /\ text'[i].no = i
      <4>1. CASE i \in 1 .. Len(text)
        BY <2>4, <3>6, <4>1 DEF AnswersThisCommand
      <4>2. CASE i = Len(text) + 1
        BY <3>4, <3>5, <3>6, <4>2
      <4> QED
        BY <1>b, <3>6, <4>1, <4>2
    <3> QED
      BY <2>1, <3>7 DEF AnswersThisCommand
  <2> QED
    BY <2>2, <2>3, <2>4
<1>5. CASE Drain \/ DrainReturns \/ Ask \/ AskAgain
  BY <1>1, <1>5 DEF Drain, DrainReturns, Ask, AskAgain
<1>6. CASE MasterAck \/ SlaveReady \/ SlaveLength \/ SlaveData \/ SlaveEnd
  BY <1>1, <1>6 DEF MasterAck, SlaveReady, SlaveLength, SlaveData, SlaveEnd
<1>7. CASE Board \/ Lose
  BY <1>1, <1>7 DEF Board, HandleCommand, HandleMasterReady, HandleSlaveAck, HandleRead, ReadDone, Lose
<1> QED
  BY <1>2, <1>3, <1>4, <1>5, <1>6, <1>7 DEF Next, Calls, Daemon

-----------------------------------------------------------------------------
(* Text, when every answer is in time                                      *)

LEMMA InitTInv == Init => TInv
<1> SUFFICES ASSUME Init PROVE TInv
  OBVIOUS
<1>1. CInv
  BY InitCInv
<1>2. /\ pc = "idle" /\ asked = FALSE /\ caller = "drain" /\ expect = "done" /\ tempBuff = << >>
      /\ text = << >> /\ got = << >> /\ toBoard = << >> /\ toDaemon = << >> /\ sdready = "dready_end"
      /\ chunk = Nothing /\ rest = << >> /\ sending = FALSE /\ executed = 0 /\ late = 0
  BY DEF Init
<1>3. /\ DOMAIN toBoard = {} /\ DOMAIN got = {} /\ DOMAIN rest = {} /\ Len(toDaemon) = 0
      /\ Len(text) = 0 /\ Len(got) = 0
  BY <1>2
<1>4. OneRequest
  BY <1>2, <1>3 DEF OneRequest
<1>5. OneAck
  BY <1>2, <1>3 DEF OneAck, FirstAck, StartAcked, EndAcked, Acks
<1>6. Offered
  BY <1>2, <1>3 DEF Offered, TakenByDaemon, EndAcked, Acks
<1>7. Answered
  BY <1>2 DEF Answered
<1>8. OneAnswer
  BY <1>2, <1>3 DEF OneAnswer
<1>9. Continued
  BY <1>2, <1>3 DEF Continued, TakenByDaemon, EndAcked, Acks
<1>10. TextGenuine
  <2>1. \A i \in 1 .. Len(got) : FALSE
    BY <1>3
  <2> QED
    BY <2>1 DEF TextGenuine
<1>11. Collecting
  BY <1>2 DEF Collecting, Listening, SendSteps, RecvSteps
<1>12. AnswersThisCommand
  BY <1>3 DEF AnswersThisCommand
<1> QED
  BY <1>1, <1>4, <1>5, <1>6, <1>7, <1>8, <1>9, <1>10, <1>11, <1>12 DEF TInv, Slave, Text

LEMMA TInvStep == ASSUME Timely, TInv, [Next]_vars PROVE TInv'
<1>1. "MASTER_DATA" \notin Lossy
  BY DEF Timely
<1>2. CInv /\ CInv'
  BY <1>1, CInvStep DEF TInv
<1>3. CASE Next
  <2>1. TypeInv /\ TypeInv' /\ OneRequest /\ OneAck /\ Offered /\ OneAnswer /\ Continued /\ TextGenuine
    BY <1>2 DEF TInv, CInv, Slave, Text
  <2>2. Slave'
    BY <1>2, <1>3, <2>1, SlaveStep DEF TInv
  <2>3. OneAnswer'
    BY <1>3, <2>1, OneAnswerStep
  <2>4. Continued'
    BY <1>2, <1>3, <2>1, <2>2, ContinuedStep DEF TInv
  <2>5. TextGenuine'
    BY <1>2, <1>3, <2>1, GenuineStep DEF TInv
  <2>6. Collecting'
    BY <1>2, <1>3, <2>1, CollectingStep DEF TInv
  <2>7. AnswersThisCommand'
    BY <1>2, <1>3, AnswersStep DEF TInv
  <2> QED
    BY <1>2, <2>2, <2>3, <2>4, <2>5, <2>6, <2>7 DEF TInv, Text
<1>4. CASE UNCHANGED vars
  <2> USE <1>4 DEF vars
  <2>1. Slave'
    <3>1. OneRequest'
      BY DEF TInv, Slave, OneRequest, Request
    <3>2. OneAck'
      BY DEF TInv, Slave, OneAck, FirstAck, StartAcked, EndAcked, Acks
    <3>3. Offered'
      BY DEF TInv, Slave, Offered, TakenByDaemon, StartAcked, EndAcked, Acks
    <3>4. Answered'
      BY DEF TInv, Slave, Answered, Answer
    <3> QED
      BY <3>1, <3>2, <3>3, <3>4 DEF Slave
  <2>2. Text'
    <3>1. OneAnswer'
      BY DEF TInv, Text, OneAnswer
    <3>2. Continued'
      BY DEF TInv, Text, Continued, TakenByDaemon, EndAcked, Acks, Received
    <3>3. TextGenuine'
      BY DEF TInv, Text, TextGenuine
    <3> QED
      BY <3>1, <3>2, <3>3 DEF Text
  <2>3. Collecting'
    BY DEF TInv, Collecting, Listening, Collected, Received
  <2>4. AnswersThisCommand'
    BY DEF TInv, AnswersThisCommand
  <2> QED
    BY <1>2, <2>1, <2>2, <2>3, <2>4 DEF TInv
<1> QED
  BY <1>3, <1>4

LEMMA TextInvariance == ASSUME Timely PROVE Spec => []TInv
<1>1. Init => TInv
  BY InitTInv
<1>2. TInv /\ [Next]_vars => TInv'
  BY TInvStep
<1> QED
  BY <1>1, <1>2, PTL DEF Spec

(* Board text arrives as it was made: no chunk is invented, cut, repeated  *)
(* or skipped, and none comes after one of a later answer (recvCmdEthe and *)
(* moveTextToTransfer), whatever requests and answers are lost.            *)
THEOREM TextArrives == ASSUME Timely PROVE Spec => []TextGenuine
<1>1. TInv => TextGenuine
  BY DEF TInv, Text
<1> QED
  BY <1>1, TextInvariance, PTL

(* What listenForBoardResponse collects for a command is the beginning of  *)
(* the answer to this command.                                             *)
THEOREM AnswersBelong == ASSUME Timely PROVE Spec => []AnswersThisCommand
<1>1. TInv => AnswersThisCommand
  BY DEF TInv
<1> QED
  BY <1>1, TextInvariance, PTL

(* Text that waits behind a chunk is waiting for the daemon only: the      *)
(* chunk is offered, or the daemon owes its acknowledgement.               *)
THEOREM NoTextIsStuck == ASSUME Timely PROVE Spec => []TextOffered
<1>1. ASSUME TInv PROVE TextOffered
  <2>1. TypeInv /\ OneAck /\ Offered
    BY <1>1 DEF TInv, CInv, Slave
  <2>2. CASE rest # << >> /\ sdready # "dready_start"
    <3>1. sdready = "dready_end"
      BY <2>1, <2>2 DEF TypeInv, TypeOK
    <3>2. pc = "s_end" \/ EndAcked
      BY <2>1, <2>2, <3>1 DEF Offered, TakenByDaemon
    <3>3. CASE EndAcked
      <4>1. PICK i \in DOMAIN toBoard : toBoard[i].reg = "SLAVE_DACK" /\ toBoard[i].val = "dack_end"
        BY <3>3 DEF EndAcked, Acks
      <4>2. toBoard[i] \in ToBoard /\ i \in 1 .. Len(toBoard)
        BY <2>1, <4>1, Flows, ElementOfSeq
      <4>3. toBoard[i] = WriteTo("SLAVE_DACK", "dack_end")
        BY <4>1, <4>2 DEF ToBoard, WriteTo
      <4> QED
        BY <4>2, <4>3 DEF TextOffered, Acknowledging
    <3> QED
      BY <3>2, <3>3 DEF TextOffered, Acknowledging
  <2> QED
    BY <2>2 DEF TextOffered
<1> QED
  BY <1>1, TextInvariance, PTL
=============================================================================
