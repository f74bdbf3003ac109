---------------------------- MODULE CtrlHandshake ----------------------------
(***************************************************************************)
(* Text between the daemon (class Ethernet, called by talkToBoard and by   *)
(* the main loop) and the board (the control side of ltaSimulator_t), over *)
(* UDP.                                                                    *)
(*                                                                         *)
(* All traffic is writes and reads of the board's registers.  A write is   *)
(* not acknowledged; a read is asked again when no answer comes in time,   *)
(* and whatever datagram comes next is taken for its answer.  On top, two  *)
(* handshakes carry text: sendCmdEthe (m_start, m_end) and recvCmdEthe     *)
(* (s_ready, s_length, s_data, s_end).                                     *)
(*                                                                         *)
(* Board text moves in chunks.  A chunk is a record of the command it      *)
(* answers, of its place in that answer and of what the daemon looks for   *)
(* in it; the bytes are left out.  Datagrams on the direct link keep their *)
(* order; some may be lost (Lossy) and some answers late (MaxLate).        *)
(***************************************************************************)
EXTENDS Integers, SequencesExt

CONSTANTS
  Replies,      (* the board's answers, as sequences of "text", "error" and "done" *)
  Lossy,        (* the datagrams the network may lose, by register or "answer"      *)
  Starts,       (* whether commands start the sequencer, a subset of BOOLEAN        *)
  Overtaking,   (* the data thread may end while the daemon is taking text          *)
  MaxCommands,  (* bound: commands sent                                             *)
  MaxLost,      (* bound: datagrams lost                                            *)
  MaxLate       (* bound: answers that come after the daemon has asked again        *)

Words == {"dready_start", "dready_end", "dack_start", "dack_end", "zero", "short", "full", "text"}
WriteRegs == {"MASTER_DATA", "MASTER_DREADY", "SLAVE_DACK"}
ReadRegs == {"MASTER_DACK", "SLAVE_DREADY", "SLAVE_DLENGTH", "SLAVE_DATA"}

ASSUME CtrlAssumption ==
  /\ Replies \subseteq Seq({"text", "error", "done"}) /\ << >> \notin Replies
  /\ Lossy \subseteq WriteRegs \cup ReadRegs \cup {"answer"}
  /\ Starts \subseteq BOOLEAN /\ Overtaking \in BOOLEAN
  /\ MaxCommands \in Nat /\ MaxLost \in Nat /\ MaxLate \in Nat

VARIABLES
  pc,        (* the daemon's step; "idle" outside Ethernet, "polled" after recvCmdEthe *)
  asked,     (* a read has been sent and its answer not taken                     *)
  caller,    (* who called recvCmdEthe: "listen" or "drain" (the main loop)       *)
  expect,    (* what listenForBoardResponse waits for: "done" or "read done"      *)
  ndata,     (* the length that recvCmdEthe has read                              *)
  tempBuff,  (* the chunk recvCmdEthe has received, if any                        *)
  text,      (* the chunks received by this listenForBoardResponse                *)
  got,       (* history: all chunks received                                      *)
  commands,  (* number of commands sent                                           *)
  toBoard, toDaemon,  (* datagrams under way                                      *)
  mdack, sdready, dlen,  (* the board's registers MASTER_DACK, SLAVE_DREADY, SLAVE_DLENGTH *)
  chunk,     (* responseChunk_, what a read of SLAVE_DATA returns                 *)
  rest,      (* responseBuff_, the text after it                                  *)
  sending,   (* the data thread runs (mode_ is eData)                             *)
  executed,  (* history: number of commands executed                              *)
  made,      (* history: number of chunks made since the last command             *)
  lost, late (* datagrams lost and answers overtaken so far                       *)

daemonVars == <<pc, asked, caller, expect, ndata, tempBuff, text, got, commands>>
textVars == <<dlen, chunk, rest, made>>
boardVars == <<mdack, sdready, textVars, sending, executed>>
vars == <<daemonVars, toBoard, toDaemon, boardVars, lost, late>>

Nothing == [no |-> 0, cmd |-> 0, mark |-> "none"]
Chunks == [no: Nat, cmd: Nat, mark: {"none", "text", "error", "done", "read done", "garbage", "cut"}]
WriteTo(reg, val) == [reg |-> reg, val |-> val]
ReadFrom(reg, val) == [reg |-> reg, val |-> val]
ToBoard == [reg: WriteRegs \cup ReadRegs, val: Words]
ToDaemon == [word: Words, chunk: Chunks]

SendSteps == {"m_start", "m_end"}
RecvSteps == {"s_ready", "s_length", "s_data", "s_end"}

TypeOK ==
  /\ pc \in {"idle", "polled"} \cup SendSteps \cup RecvSteps /\ asked \in BOOLEAN
  /\ caller \in {"listen", "drain"} /\ expect \in {"done", "read done"}
  /\ ndata \in Words /\ tempBuff \in Seq(Chunks) /\ text \in Seq(Chunks) /\ got \in Seq(Chunks)
  /\ commands \in 0 .. MaxCommands
  /\ toBoard \in Seq(ToBoard) /\ toDaemon \in Seq(ToDaemon)
  /\ mdack \in {"zero", "dack_start", "dack_end"} /\ sdready \in {"dready_start", "dready_end"}
  /\ dlen \in {"zero", "short", "full"}
  /\ chunk \in Chunks /\ rest \in Seq(Chunks)
  /\ sending \in BOOLEAN /\ executed \in Nat /\ made \in Nat
  /\ lost \in 0 .. MaxLost /\ late \in 0 .. MaxLate

Init ==
  /\ pc = "idle" /\ asked = FALSE /\ caller = "drain" /\ expect = "done"
  /\ ndata = "zero" /\ tempBuff = << >> /\ text = << >> /\ got = << >> /\ commands = 0
  /\ toBoard = << >> /\ toDaemon = << >>
  /\ mdack = "zero" /\ sdready = "dready_end" /\ dlen = "zero"
  /\ chunk = Nothing /\ rest = << >>
  /\ sending = FALSE /\ executed = 0 /\ made = 0
  /\ lost = 0 /\ late = 0

-----------------------------------------------------------------------------
(* The callers: talkToBoard sends a command and listens, cleanup_readout   *)
(* and cmd_run_seq only listen, the main loop drains.                      *)

(* sendCmdEthe begins by writing the command. *)
SendCmd ==
  /\ pc = "idle" /\ commands < MaxCommands
  /\ commands' = commands + 1
  /\ toBoard' = Append(toBoard, WriteTo("MASTER_DATA", "text"))
  /\ pc' = "m_start"
  /\ expect' = "done" /\ text' = << >>
  /\ UNCHANGED <<asked, caller, ndata, tempBuff, got, toDaemon, boardVars, lost, late>>

ListenForReadDone ==
  /\ pc = "idle" /\ commands > 0
  /\ pc' = "s_ready" /\ caller' = "listen"
  /\ expect' = "read done" /\ text' = << >>
  /\ UNCHANGED <<asked, ndata, tempBuff, got, commands, toBoard, toDaemon, boardVars, lost, late>>

Drain ==
  /\ pc = "idle"
  /\ pc' = "s_ready" /\ caller' = "drain"
  /\ UNCHANGED <<asked, expect, ndata, tempBuff, text, got, commands, toBoard, toDaemon,
                 boardVars, lost, late>>

(* What a caller does when recvCmdEthe returns. *)
Heard == \E i \in 1 .. Len(text') : text'[i].mark \in {"error", expect}

ListenReturns ==
  /\ pc = "polled" /\ caller = "listen"
  /\ text' = text \o tempBuff
  /\ pc' \in IF Heard THEN {"idle"} ELSE {"s_ready", "idle"}
  /\ UNCHANGED <<asked, caller, expect, ndata, tempBuff, got, commands, toBoard, toDaemon,
                 boardVars, lost, late>>

DrainReturns ==
  /\ pc = "polled" /\ caller = "drain"
  /\ pc' = IF tempBuff = << >> THEN "idle" ELSE "s_ready"
  /\ UNCHANGED <<asked, caller, expect, ndata, tempBuff, text, got, commands, toBoard,
                 toDaemon, boardVars, lost, late>>

-----------------------------------------------------------------------------
(* Class Ethernet.                                                         *)

Request ==
  CASE pc \in SendSteps -> ReadFrom("MASTER_DACK", "zero")
    [] pc \in {"s_ready", "s_end"} -> ReadFrom("SLAVE_DREADY", "zero")
    [] pc = "s_length" -> ReadFrom("SLAVE_DLENGTH", "zero")
    [] pc = "s_data" -> ReadFrom("SLAVE_DATA", ndata)

(* Mutant: the first loop sends the command each turn. *)
AskWithCommand ==
  /\ pc \in SendSteps \cup RecvSteps /\ ~asked
  /\ toBoard' = toBoard \o
       CASE pc = "m_start" -> <<WriteTo("MASTER_DATA", "text"),
                                WriteTo("MASTER_DREADY", "dready_start"), Request>>
         [] pc = "m_end" -> <<WriteTo("MASTER_DREADY", "dready_end"), Request>>
         [] OTHER -> <<Request>>
  /\ asked' = TRUE
  /\ tempBuff' = IF pc = "s_ready" THEN << >> ELSE tempBuff
  /\ UNCHANGED <<pc, caller, expect, ndata, text, got, commands, toDaemon, boardVars, lost, late>>

(* Each turn of the loops of sendCmdEthe writes before it reads. *)
Ask ==
  /\ pc \in SendSteps \cup RecvSteps /\ ~asked
  /\ toBoard' = toBoard \o
       CASE pc = "m_start" -> <<WriteTo("MASTER_DREADY", "dready_start"), Request>>
         [] pc = "m_end" -> <<WriteTo("MASTER_DREADY", "dready_end"), Request>>
         [] OTHER -> <<Request>>
  /\ asked' = TRUE
  /\ tempBuff' = IF pc = "s_ready" THEN << >> ELSE tempBuff
  /\ UNCHANGED <<pc, caller, expect, ndata, text, got, commands, toDaemon, boardVars, lost, late>>

AnswerUnderWay == toDaemon # << >> \/ \E i \in 1 .. Len(toBoard) : toBoard[i].reg \in ReadRegs

(* Mutant: the time-out only waits again. *)
WaitAgain ==
  /\ asked /\ ~AnswerUnderWay
  /\ UNCHANGED vars

(* No answer in time: ask again.  The answer may still come. *)
AskAgain ==
  /\ asked
  /\ IF AnswerUnderWay THEN late < MaxLate /\ late' = late + 1 ELSE UNCHANGED late
  /\ toBoard' = Append(toBoard, Request)
  /\ UNCHANGED <<daemonVars, toDaemon, boardVars, lost>>

Answer == Head(toDaemon)

TakeAnswer == asked /\ asked' = FALSE /\ toDaemon # << >> /\ toDaemon' = Tail(toDaemon)

(* sendCmdEthe: the board must have said start, then end. *)
MasterAck ==
  /\ pc \in SendSteps /\ TakeAnswer
  /\ \/ /\ pc = "m_start" /\ Answer.word = "dack_start"
        /\ pc' = "m_end"
        /\ UNCHANGED caller
     \/ /\ pc = "m_end" /\ Answer.word = "dack_end"
        /\ pc' = "s_ready" /\ caller' = "listen"
     \/ /\ ~(pc = "m_start" /\ Answer.word = "dack_start")
        /\ ~(pc = "m_end" /\ Answer.word = "dack_end")
        /\ UNCHANGED <<pc, caller>>
  /\ UNCHANGED <<expect, ndata, tempBuff, text, got, commands, toBoard, boardVars, lost, late>>

(* recvCmdEthe: is there text, and how much?  Anything odd means no. *)
SlaveReady ==
  /\ pc = "s_ready" /\ TakeAnswer
  /\ pc' = IF Answer.word = "dready_start" THEN "s_length" ELSE "polled"
  /\ UNCHANGED <<caller, expect, ndata, tempBuff, text, got, commands, toBoard, boardVars,
                 lost, late>>

SlaveLength ==
  /\ pc = "s_length" /\ TakeAnswer
  /\ ndata' = Answer.word
  /\ pc' = IF Answer.word \in {"zero", "short", "full"} THEN "s_data" ELSE "polled"
  /\ UNCHANGED <<caller, expect, tempBuff, text, got, commands, toBoard, boardVars, lost, late>>

(* Mutant: the text is taken and the handshake left there. *)
SlaveDataOnly ==
  /\ pc = "s_data" /\ TakeAnswer
  /\ tempBuff' = <<Answer.chunk>> /\ got' = Append(got, Answer.chunk)
  /\ toBoard' = Append(toBoard, WriteTo("SLAVE_DACK", "dack_start"))
  /\ pc' = "polled"
  /\ UNCHANGED <<caller, expect, ndata, text, commands, boardVars, lost, late>>

(* The text itself, whatever came, and the acknowledgement that starts. *)
SlaveData ==
  /\ pc = "s_data" /\ TakeAnswer
  /\ tempBuff' = <<Answer.chunk>> /\ got' = Append(got, Answer.chunk)
  /\ toBoard' = Append(toBoard, WriteTo("SLAVE_DACK", "dack_start"))
  /\ pc' = "s_end"
  /\ UNCHANGED <<caller, expect, ndata, text, commands, boardVars, lost, late>>

(* Poll until the board takes the text back, then acknowledge that. *)
SlaveEnd ==
  /\ pc = "s_end" /\ TakeAnswer
  /\ IF Answer.word = "dready_end"
       THEN /\ toBoard' = Append(toBoard, WriteTo("SLAVE_DACK", "dack_end"))
            /\ pc' = "polled"
       ELSE UNCHANGED <<toBoard, pc>>
  /\ UNCHANGED <<caller, expect, ndata, tempBuff, text, got, commands, boardVars, lost, late>>

-----------------------------------------------------------------------------
(* The board.                                                              *)

Arrives(regs) ==
  toBoard # << >> /\ Head(toBoard).reg \in regs /\ toBoard' = Tail(toBoard)

SizeOf(c) == IF c.mark = "none" THEN "zero" ELSE IF c.mark = "text" THEN "full" ELSE "short"

(* Mutant: the chunk is not erased from the buffer. *)
CopyTextToTransfer(buffer) ==
  /\ chunk' = Head(buffer) /\ rest' = buffer
  /\ dlen' = SizeOf(Head(buffer))
  /\ sdready' = "dready_start"

(* moveTextToTransfer: the next chunk of a text is offered. *)
moveTextToTransfer(buffer) ==
  /\ chunk' = Head(buffer) /\ rest' = Tail(buffer)
  /\ dlen' = SizeOf(Head(buffer))
  /\ sdready' = "dready_start"

Answering(reply) ==
  [i \in 1 .. Len(reply) |-> [no |-> i, cmd |-> executed + 1, mark |-> reply[i]]]

(* Mutant: the reply is added to the text that is left. *)
HandleCommandAppending ==
  /\ Arrives({"MASTER_DATA"})
  /\ executed' = executed + 1
  /\ \E reply \in Replies :
       /\ moveTextToTransfer(rest \o Answering(reply))
       /\ made' = Len(reply)
  /\ \E start \in Starts : sending' = (sending \/ start)
  /\ UNCHANGED <<daemonVars, toDaemon, mdack, lost, late>>

(* A command: its reply replaces whatever text was left.  It may start the *)
(* sequencer and with it the data thread.                                  *)
HandleCommand ==
  /\ Arrives({"MASTER_DATA"})
  /\ executed' = executed + 1
  /\ \E reply \in Replies :
       /\ moveTextToTransfer(Answering(reply))
       /\ made' = Len(reply)
  /\ \E start \in Starts : sending' = (sending \/ start)
  /\ UNCHANGED <<daemonVars, toDaemon, mdack, lost, late>>

(* Mutant: the acknowledgement repeats what was written. *)
EchoMasterReady ==
  /\ Arrives({"MASTER_DREADY"})
  /\ mdack' = Head(toBoard).val
  /\ UNCHANGED <<daemonVars, toDaemon, sdready, textVars, sending, executed, lost, late>>

HandleMasterReady ==
  /\ Arrives({"MASTER_DREADY"})
  /\ mdack' = IF Head(toBoard).val = "dready_start" THEN "dack_start" ELSE "dack_end"
  /\ UNCHANGED <<daemonVars, toDaemon, sdready, textVars, sending, executed, lost, late>>

HandleSlaveAck ==
  /\ Arrives({"SLAVE_DACK"})
  /\ IF Head(toBoard).val = "dack_start"
       THEN sdready' = "dready_end" /\ UNCHANGED <<chunk, rest, dlen>>
       ELSE IF rest # << >>
         THEN moveTextToTransfer(rest)
         ELSE chunk' = Nothing /\ UNCHANGED <<sdready, rest, dlen>>
  /\ UNCHANGED <<daemonVars, toDaemon, mdack, sending, executed, made, lost, late>>

(* As much of the chunk as was asked for; a register read as text, or text *)
(* read as a register, is something else altogether.                       *)
Fits(c, val) == val = "full" \/ SizeOf(c) \in {"zero", val}
AsText(val) == IF Fits(chunk, val) THEN chunk ELSE [chunk EXCEPT !.mark = "cut"]
Garbage == [Nothing EXCEPT !.mark = "garbage"]

HandleRead ==
  /\ Arrives(ReadRegs)
  /\ LET m == Head(toBoard) IN
       toDaemon' = Append(toDaemon,
         CASE m.reg = "MASTER_DACK" -> [word |-> mdack, chunk |-> Garbage]
           [] m.reg = "SLAVE_DREADY" -> [word |-> sdready, chunk |-> Garbage]
           [] m.reg = "SLAVE_DLENGTH" -> [word |-> dlen, chunk |-> Garbage]
           [] m.reg = "SLAVE_DATA" ->
                [word |-> IF chunk = Nothing THEN "zero" ELSE "text", chunk |-> AsText(m.val)])
  /\ UNCHANGED <<daemonVars, boardVars, lost, late>>

(* mainAction finds that the data thread has ended, and says so after what *)
(* it still has to say.  It offers the next chunk whatever the daemon is   *)
(* doing with the current one; a sequencer usually runs longer than that.  *)
ReadDone ==
  /\ sending /\ sending' = FALSE
  /\ Overtaking \/ chunk = Nothing
  /\ made' = made + 1
  /\ moveTextToTransfer(Append(rest, [no |-> made + 1, cmd |-> executed, mark |-> "read done"]))
  /\ UNCHANGED <<daemonVars, toBoard, toDaemon, mdack, executed, lost, late>>

-----------------------------------------------------------------------------
(* The network.                                                            *)

Lose ==
  /\ lost < MaxLost /\ lost' = lost + 1
  /\ \/ /\ \E i \in 1 .. Len(toBoard) :
             toBoard[i].reg \in Lossy /\ toBoard' = RemoveAt(toBoard, i)
        /\ UNCHANGED toDaemon
     \/ /\ "answer" \in Lossy
        /\ \E i \in 1 .. Len(toDaemon) : toDaemon' = RemoveAt(toDaemon, i)
        /\ UNCHANGED toBoard
  /\ UNCHANGED <<daemonVars, boardVars, late>>

Calls == SendCmd \/ ListenForReadDone \/ Drain
Daemon ==
  \/ ListenReturns \/ DrainReturns \/ Ask \/ AskAgain
  \/ MasterAck \/ SlaveReady \/ SlaveLength \/ SlaveData \/ SlaveEnd
Board == HandleCommand \/ HandleMasterReady \/ HandleSlaveAck \/ HandleRead \/ ReadDone

Next == Calls \/ Daemon \/ Board \/ Lose

Spec == Init /\ [][Next]_vars

(* Both processes run, and a listener's time is up sooner or later. *)
FairSpec ==
  /\ Spec
  /\ WF_vars(Daemon) /\ WF_vars(Board)
  /\ SF_vars(ListenReturns /\ pc' = "idle")

-----------------------------------------------------------------------------
(* Properties.                                                             *)

(* The board executes every command once, in order, and has done so when   *)
(* sendCmdEthe returns, whatever requests and answers get lost: re-sending *)
(* a request never executes anything twice.                                *)
Dlg == INSTANCE Dialogue WITH posted <- commands, calling <- pc \in SendSteps
CommandsExecuted == Dlg!DialogueSpec

(* Text from the board arrives as it was made: an answer is received from  *)
(* its start, chunk after chunk, none of them invented, cut, repeated or   *)
(* skipped, and never after a chunk of a later answer.                     *)
TextGenuine ==
  \A i \in 1 .. Len(got) :
    /\ got[i].mark \in {"text", "error", "done", "read done"}
    /\ IF got[i].no = 1
         THEN \A j \in 1 .. i - 1 : got[j].cmd < got[i].cmd
         ELSE i > 1 /\ got[i - 1].no = got[i].no - 1 /\ got[i - 1].cmd = got[i].cmd

(* What talkToBoard collects is the beginning of the answer to its own     *)
(* command, not to one whose listener gave up before.                      *)
AnswersThisCommand ==
  expect = "done" => \A i \in 1 .. Len(text) : text[i].cmd = commands /\ text[i].no = i

(* The board never sits on text: what is left is offered, or the daemon is *)
(* about to acknowledge the chunk before it.                               *)
Acknowledging ==
  \/ pc = "s_end"
  \/ \E i \in 1 .. Len(toBoard) : toBoard[i] = WriteTo("SLAVE_DACK", "dack_end")
TextOffered == rest # << >> => sdready = "dready_start" \/ Acknowledging

(* A call into Ethernet comes back. *)
CallsReturn == pc # "idle" ~> pc = "idle"

=============================================================================
