------------------------------- MODULE Readout -------------------------------
(***************************************************************************)
(* A readout, end to end: the clients' commands, the command interpreter   *)
(* (class UserInterpreter, run by the main thread, one command at a time), *)
(* the readout thread of DumpToDisc and the board that streams the data.   *)
(*                                                                         *)
(* pc is where the main thread is; each value is named after the function  *)
(* or the statement it is about to run.  Time is a clock of four phases,   *)
(* started with the sequencer: 1 when EXPOSURE_START_DELAY has passed, 2   *)
(* when the exposure has ended, 3 when the startup timeout (always the     *)
(* longest of the three) has.  The limits are at least a second apart, so  *)
(* the loop's sleep of a millisecond crosses at most one of them; commands *)
(* to the board may take as long as they like.                             *)
(***************************************************************************)
EXTENDS DumpToDisc, SequencesExt

CONSTANTS
  MaxPackets,   (* bound: packets the board may send for one sequencer run     *)
  MaxCommands,  (* bound: commands the clients send                            *)
  Expected,     (* values of sampsExpected; -1 with a dynamic sequencer        *)
  Exposures     (* of "none", "short" (<= EXPOSURE_START_DELAY) and "long"     *)

ASSUME ReadoutAssumption ==
  /\ MaxPackets \in Nat /\ MaxCommands \in Nat
  /\ Expected \subseteq Int
  /\ Exposures \subseteq {"none", "short", "long"}

VARIABLES
  backlog,       (* connections not accepted yet, each holding its command      *)
  commands,      (* number of commands sent so far                              *)
  pc, cmd,       (* where the main thread is and the command it runs            *)
  refused,       (* start_readout_thread said "nothing done" to this command    *)
  clock,         (* time since the sequencer started                            *)
  doneClearing, doneExposing,  (* the exposure steps of this readout done so far *)
  volt,          (* the CCD voltages, in exposure adjustments from the nominal  *)
  base,          (* volt as read before the exposure (readoutVoltages)          *)
  switchesOn,    (* the VDD, VR and VDR switches                                *)
  boardLeft,     (* packets the board has still to send                         *)
  total          (* history: packets sent or to be sent for this sequencer run  *)

exposureVars == <<clock, doneClearing, doneExposing, volt, base, switchesOn>>
boardVars == <<boardLeft, total>>
commandVars == <<backlog, commands, cmd, refused>>
vars == <<dumpVars, commandVars, pc, exposureVars, boardVars>>

Commands ==
  [kind: {"read"}, expected: Expected, exposure: Exposures, midRead: {FALSE}]
    \cup [kind: {"readraw"}, expected: Expected, exposure: {"none"}, midRead: {FALSE}]
    \cup [kind: {"readoff", "startseq"}, expected: {-1}, exposure: {"none"}, midRead: BOOLEAN]

InWaitLoop == {"wait", "startup_timeout", "exposure_start", "exposure_end", "usleep"}
InReadout == InWaitLoop \cup
               {"start_readout_thread", "join_failed", "run_seq", "cleanup_readout"}
MainSteps == InReadout \cup {"idle", "stop_readout_thread", "join", "bin_to_fits", "reset_board"}

TypeOK ==
  /\ DumpTypeOK
  /\ backlog \in Seq(Commands) /\ commands \in 0 .. MaxCommands
  /\ pc \in MainSteps /\ cmd \in Commands /\ refused \in BOOLEAN
  /\ clock \in 0 .. 3 /\ doneClearing \in BOOLEAN /\ doneExposing \in BOOLEAN
  /\ volt \in Nat /\ base \in Nat /\ switchesOn \in BOOLEAN
  /\ boardLeft \in Nat /\ total \in Nat

(* No command yet: any command will do as the last one. *)
NoCommand == [kind |-> "startseq", expected |-> -1, exposure |-> "none", midRead |-> FALSE]

Init ==
  /\ DumpInit
  /\ backlog = << >> /\ commands = 0
  /\ pc = "idle" /\ cmd = NoCommand /\ refused = FALSE
  /\ clock = 0 /\ doneClearing = FALSE /\ doneExposing = FALSE
  /\ volt = 0 /\ base = 0 /\ switchesOn = TRUE
  /\ boardLeft = 0 /\ total = 0

-----------------------------------------------------------------------------
(* The clients and the board.                                              *)

Reading == thr # "none" /\ pc \in InReadout

(* A client connects and sends a command.  The connection waits in the     *)
(* listen queue until the main thread accepts it.                          *)
ClientSends ==
  /\ commands < MaxCommands
  /\ \E c \in Commands :
       /\ c.midRead = (c.kind = "readoff" /\ Reading)
       /\ backlog' = Append(backlog, c)
  /\ commands' = commands + 1
  /\ UNCHANGED <<dumpVars, pc, cmd, refused, exposureVars, boardVars>>

BoardSends ==
  /\ boardLeft > 0
  /\ boardLeft' = boardLeft - 1
  /\ fresh' = fresh + 1
  /\ UNCHANGED <<flagVars, fileVars, sampVars, thr, badJoin, crashed, stale, saved,
                 commandVars, pc, exposureVars, total>>

(* The sequencer starts from its beginning: the board will send some       *)
(* number of packets, and those it sent before are stale from now on.      *)
StartSequencer ==
  /\ \E n \in 0 .. MaxPackets : boardLeft' = n /\ total' = n
  /\ stale' = stale + fresh
  /\ fresh' = 0 /\ saved' = 0

-----------------------------------------------------------------------------
(* The main thread.                                                        *)

Accept(kinds) ==
  /\ ~crashed /\ pc = "idle" /\ backlog # << >>
  /\ Head(backlog).kind \in kinds
  /\ cmd' = Head(backlog)
  /\ backlog' = Tail(backlog)

(* read and readraw: start_readout_thread up to its waiting loop.  A       *)
(* refusal returns readingFlag, which the caller takes for a status.       *)
CmdRead ==
  /\ Accept({"read", "readraw"})
  /\ \/ /\ ~is_readout_active
        /\ create_thread(Head(backlog).expected)
        /\ refused' = FALSE
        /\ pc' = "start_readout_thread"
     \/ /\ is_readout_active
        /\ refused' = TRUE
        /\ pc' = IF readingFlag = 0 THEN "run_seq"
                 ELSE IF Head(backlog).kind = "read" THEN "bin_to_fits" ELSE "idle"
        /\ UNCHANGED dumpVars
  /\ UNCHANGED <<commands, exposureVars, boardVars>>

(* Mutant: the waiting loop takes "initial" for "ready". *)
ThreadReadyEarly ==
  /\ ~crashed /\ pc = "start_readout_thread" /\ readoutStatus >= 0
  /\ pc' = "run_seq"
  /\ UNCHANGED <<dumpVars, commandVars, exposureVars, boardVars>>

(* The waiting loop of start_readout_thread ends on ready or on failed. *)
ThreadReady ==
  /\ ~crashed /\ pc = "start_readout_thread" /\ readoutStatus >= 1
  /\ pc' = "run_seq"
  /\ UNCHANGED <<dumpVars, commandVars, exposureVars, boardVars>>

ThreadFailed ==
  /\ ~crashed /\ pc = "start_readout_thread" /\ readoutStatus = -1
  /\ readingFlag' = 0
  /\ pc' = "join_failed"
  /\ UNCHANGED <<readoutStatus, fileVars, sampVars, thr, badJoin, crashed, sockVars,
                 commandVars, exposureVars, boardVars>>

(* run_readout returns 0 whatever happened, so a read goes on to convert. *)
JoinFailed ==
  /\ ~crashed /\ pc = "join_failed"
  /\ join_thread
  /\ pc' = IF cmd.kind = "read" THEN "bin_to_fits" ELSE "idle"
  /\ UNCHANGED <<commandVars, exposureVars, boardVars>>

(* Record the voltages, open the switches for the exposure, start the      *)
(* sequencer (or the board's raw buffer transfer) and the timers.          *)
RunSeq ==
  /\ ~crashed /\ pc = "run_seq"
  /\ StartSequencer
  /\ switchesOn' = (switchesOn /\ cmd.exposure = "none")
  /\ base' = volt
  /\ clock' = 0 /\ doneClearing' = FALSE /\ doneExposing' = FALSE
  /\ pc' = "wait"
  /\ UNCHANGED <<flagVars, fileVars, sampVars, thr, badJoin, crashed, commandVars, volt>>

(* Mutant: a board that sends nothing is waited for. *)
CheckStartupPatient ==
  /\ ~crashed /\ pc = "startup_timeout"
  /\ pc' = IF cmd.kind = "read" THEN "exposure_start" ELSE "usleep"
  /\ UNCHANGED <<dumpVars, commandVars, exposureVars, boardVars>>

(* The head of the waiting loop, and the test for a board that sends       *)
(* nothing: two reads of readoutStatus.                                    *)
CheckDone ==
  /\ ~crashed /\ pc = "wait"
  /\ pc' = IF is_readout_done THEN "cleanup_readout" ELSE "startup_timeout"
  /\ UNCHANGED <<dumpVars, commandVars, exposureVars, boardVars>>

CheckStartup ==
  /\ ~crashed /\ pc = "startup_timeout"
  /\ IF clock = 3 /\ ~is_readout_getting_data
       THEN pc' = "cleanup_readout" /\ gaveUp' = TRUE
       ELSE /\ pc' = IF cmd.kind = "read" THEN "exposure_start" ELSE "usleep"
            /\ UNCHANGED gaveUp
  /\ UNCHANGED <<flagVars, fileVars, sampsRead, sampsExpected, quiet, thr, badJoin,
                 crashed, sockVars, commandVars, exposureVars, boardVars>>

(* Mutant: doneClearing is not consulted. *)
ExposureStartAgain ==
  /\ ~crashed /\ pc = "exposure_start"
  /\ IF cmd.exposure = "long" /\ clock >= 1
       THEN volt' = base + 1 /\ doneClearing' = TRUE /\ clock' \in clock .. 3
       ELSE UNCHANGED <<volt, doneClearing, clock>>
  /\ pc' = "exposure_end"
  /\ UNCHANGED <<dumpVars, commandVars, doneExposing, base, switchesOn, boardVars>>

(* Once the clearing is over, shift the voltages for the exposure. *)
ExposureStart ==
  /\ ~crashed /\ pc = "exposure_start"
  /\ IF cmd.exposure = "long" /\ ~doneClearing /\ clock >= 1
       THEN volt' = base + 1 /\ doneClearing' = TRUE /\ clock' \in clock .. 3
       ELSE UNCHANGED <<volt, doneClearing, clock>>
  /\ pc' = "exposure_end"
  /\ UNCHANGED <<dumpVars, commandVars, doneExposing, base, switchesOn, boardVars>>

(* At its end, close the switches and restore the voltages. *)
ExposureEnd ==
  /\ ~crashed /\ pc = "exposure_end"
  /\ IF cmd.exposure # "none" /\ ~doneExposing /\ clock >= 2
       THEN /\ switchesOn' = TRUE
            /\ volt' = IF cmd.exposure = "long" THEN base ELSE volt
            /\ doneExposing' = TRUE
            /\ clock' \in clock .. 3
       ELSE UNCHANGED <<switchesOn, volt, doneExposing, clock>>
  /\ pc' = "usleep"
  /\ UNCHANGED <<dumpVars, commandVars, doneClearing, base, boardVars>>

(* usleep(1000): the next turn of the loop, with or without a limit passed. *)
NextTurn ==
  /\ ~crashed /\ pc = "usleep"
  /\ pc' = "wait"
  /\ UNCHANGED <<dumpVars, commandVars, exposureVars, boardVars>>

ClockTick ==
  /\ ~crashed /\ pc = "usleep" /\ clock < 3
  /\ clock' = clock + 1
  /\ pc' = "wait"
  /\ UNCHANGED <<dumpVars, commandVars, doneClearing, doneExposing, volt, base,
                 switchesOn, boardVars>>

(* Wait for the board's "Read done" for a while, with or without success. *)
CleanupReadout ==
  /\ ~crashed /\ pc = "cleanup_readout"
  /\ pc' = "stop_readout_thread"
  /\ UNCHANGED <<dumpVars, commandVars, exposureVars, boardVars>>

(* Mutant: is_readout_active is not asked. *)
StopAnyThread ==
  /\ ~crashed /\ pc = "stop_readout_thread"
  /\ readingFlag' = 0 /\ pc' = "join"
  /\ UNCHANGED <<readoutStatus, fileVars, sampVars, thr, badJoin, crashed, sockVars,
                 commandVars, exposureVars, boardVars>>

AfterStop == IF cmd.kind = "readoff" THEN "reset_board" ELSE "bin_to_fits"

(* Mutant: the thread is asked to leave but not waited for. *)
JoinNobody ==
  /\ ~crashed /\ pc = "join"
  /\ pc' = AfterStop
  /\ UNCHANGED <<dumpVars, commandVars, exposureVars, boardVars>>

StopReadoutThread ==
  /\ ~crashed /\ pc = "stop_readout_thread"
  /\ IF is_readout_active THEN readingFlag' = 0 /\ pc' = "join"
                          ELSE UNCHANGED readingFlag /\ pc' = AfterStop
  /\ UNCHANGED <<readoutStatus, fileVars, sampVars, thr, badJoin, crashed, sockVars,
                 commandVars, exposureVars, boardVars>>

JoinThread ==
  /\ ~crashed /\ pc = "join"
  /\ join_thread
  /\ pc' = AfterStop
  /\ UNCHANGED <<commandVars, exposureVars, boardVars>>

(* The files listed in inFileNames are read and become the image. *)
BinToFits ==
  /\ ~crashed /\ pc = "bin_to_fits"
  /\ pc' = "idle"
  /\ UNCHANGED <<dumpVars, commandVars, exposureVars, boardVars>>

CmdStopReadout ==
  /\ Accept({"readoff"})
  /\ refused' = FALSE
  /\ pc' = "stop_readout_thread"
  /\ UNCHANGED <<dumpVars, commands, exposureVars, boardVars>>

(* readoff then stops the packer and the sequencer. *)
ResetBoard ==
  /\ ~crashed /\ pc = "reset_board"
  /\ boardLeft' = 0
  /\ pc' = "idle"
  /\ UNCHANGED <<dumpVars, commandVars, exposureVars, total>>

(* startseq and runseq: the sequencer without a readout thread. *)
CmdStartSeq ==
  /\ Accept({"startseq"})
  /\ refused' = FALSE
  /\ IF is_readout_active THEN UNCHANGED <<sockVars, boardVars>> ELSE StartSequencer
  /\ UNCHANGED <<flagVars, fileVars, sampVars, thr, badJoin, crashed, commands, pc,
                 exposureVars>>

Main ==
  \/ CmdRead \/ ThreadReady \/ ThreadFailed \/ JoinFailed \/ RunSeq
  \/ CheckDone \/ CheckStartup \/ ExposureStart \/ ExposureEnd \/ NextTurn
  \/ CleanupReadout \/ StopReadoutThread \/ JoinThread \/ BinToFits
  \/ CmdStopReadout \/ ResetBoard \/ CmdStartSeq

Thread == saveData /\ UNCHANGED <<commandVars, pc, exposureVars, boardVars>>

Timeouts ==
  \/ ClockTick
  \/ QuietTick /\ UNCHANGED <<commandVars, pc, exposureVars, boardVars>>

Next == Main \/ Thread \/ Timeouts \/ BoardSends \/ ClientSends

Spec == Init /\ [][Next]_vars

(* Both threads are scheduled, time passes and the board goes on sending   *)
(* what it has; nothing obliges a client to send a command.                *)
FairSpec ==
  /\ Spec
  /\ WF_vars(Main) /\ WF_vars(Thread) /\ WF_vars(BoardSends)
  /\ SF_vars(ClockTick)
  /\ WF_vars(QuietTick /\ UNCHANGED <<commandVars, pc, exposureVars, boardVars>>)

-----------------------------------------------------------------------------
(* Properties.                                                             *)

(* Where the main thread holds the thread: between pthread_create and      *)
(* pthread_join.                                                           *)
Holding ==
  \/ pc \in {"start_readout_thread", "join_failed"}
  \/ pc \in InWaitLoop \cup {"run_seq", "cleanup_readout"} /\ ~refused
  \/ pc \in {"stop_readout_thread", "join"} /\ cmd.kind # "readoff" /\ ~refused

(* A readout thread exists exactly while the command that created it is    *)
(* being run; until it has reported, the creating call is still waiting    *)
(* (the thread reads that call's arguments through pointers); and it has   *)
(* closed its file and gone before the conversion opens the files.         *)
ThreadOwned ==
  /\ thr # "none" <=> Holding
  /\ thr \in {"open", "flush"} => pc = "start_readout_thread"
  /\ pc \in {"idle", "bin_to_fits"} /\ ~crashed => ~fileOpen

(* From the start of the sequencer to the end of the readout no packet of  *)
(* that sequencer run is dropped by the daemon: each has been received by  *)
(* the readout thread, is in the socket or is still to come.  In           *)
(* particular the flush of stale data is over before the sequencer starts. *)
NothingDropped ==
  pc \in InWaitLoop \cup {"cleanup_readout", "stop_readout_thread", "join"}
    /\ cmd.kind # "readoff"
  => saved + fresh + boardLeft = total

Samples == FoldLeft(LAMBDA a, b : a + b, 0, fileLen)

(* Every sample the thread counts is in a file the conversion will read,   *)
(* and every file but the last is full, none overfull, across roll-overs.  *)
FilesHoldSamples ==
  /\ pc # "idle" /\ ~refused /\ cmd.kind \in {"read", "readraw"} => Samples = sampsRead
  /\ \A i \in 1 .. Len(fileLen) :
       /\ fileLen[i] <= MaxFile
       /\ i < Len(fileLen) => fileLen[i] = MaxFile

(* A readout that reaches its conversion without any timeout having ended  *)
(* it has at least the number of samples that was asked for: a pause       *)
(* between packets, however placed, never ends it early.                   *)
NoEarlyEnd ==
  pc = "bin_to_fits" /\ fileLen # << >> /\ ~gaveUp
  => sampsExpected \in Nat /\ sampsRead >= sampsExpected

(* Once a readout has ended its exposure, the switches are closed and the  *)
(* voltages are back to what they were before it, and stay so; and a       *)
(* readout that waited until its startup timeout has ended its exposure.   *)
ExposureUndone ==
  pc \in InReadout \cup {"stop_readout_thread", "join", "bin_to_fits"}
  => /\ doneExposing => switchesOn /\ (cmd.exposure = "long" => volt = base)
     /\ pc = "cleanup_readout" /\ clock = 3 /\ cmd.exposure # "none" => doneExposing

(* pthread_join is never called twice for one thread, unless a data file   *)
(* could not be opened.                                                    *)
JoinedOnce == badJoin => openFailures > 0

(* Every command, however the board and the readout thread behave, comes   *)
(* to its end and the daemon is ready for the next one.                    *)
CommandsEnd == pc # "idle" ~> pc = "idle" \/ crashed

(* Every client that connected is served. *)
ClientsServed == backlog # << >> ~> backlog = << >> \/ crashed

(* The daemon implements Recording: the recording is under way from the    *)
(* creation of the readout thread to its join, and the image is what has   *)
(* been received (and is in the listed files: FilesHoldSamples).           *)
phaseMap ==
  IF thr # "none" THEN "recording" ELSE IF pc = "bin_to_fits" THEN "sealed" ELSE "idle"
Rec == INSTANCE Recording WITH phase <- phaseMap, image <- sampsRead
OneRecordingAtATime == Rec!RecSpec

(* "currently reading or transfering data...nothing done": a command that  *)
(* got this answer does not start the sequencer.                           *)
RefusedMeansNothingDone == refused => pc \notin InWaitLoop

(* "Will use %s = %f during exposure, %f during readout": while no readout *)
(* is under way the voltages are those of the readout.                     *)
ReadoutVoltagesRestored == pc = "idle" => volt = 0 /\ switchesOn

=============================================================================
