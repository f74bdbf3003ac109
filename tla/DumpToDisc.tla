----------------------------- MODULE DumpToDisc -----------------------------
(***************************************************************************)
(* The readout thread of the daemon (class DumpToDisc and the thread       *)
(* routine saveData) and the data socket it drains.                        *)
(*                                                                         *)
(* The thread and its creator share two plain integers, readingFlag (main  *)
(* clears it to ask the thread to leave) and readoutStatus (the thread     *)
(* reports progress in it), and the list of files the thread has opened.   *)
(* There is no lock: what keeps them consistent is the order in which the  *)
(* two sides write them, which is what this module keeps step by step.     *)
(*                                                                         *)
(* A data packet is one unit: of samples, of bytes and of the count the    *)
(* caller expects.  Packets in the socket are told apart only by whether   *)
(* the board sent them before (stale) or after (fresh) the last start of   *)
(* the sequencer; the stale ones are ahead in the queue.                   *)
(*                                                                         *)
(* The calls made by the main thread are operators here (is_readout_...,   *)
(* create_thread, join_thread); module Readout puts them in order.         *)
(***************************************************************************)
EXTENDS Integers, Sequences

CONSTANTS
  MaxFile,         (* packets after which a file is closed and the next one opened *)
  MaxOpenFailures  (* bound: how many times opening a data file may fail           *)

ASSUME DumpAssumption == MaxFile \in Nat \ {0} /\ MaxOpenFailures \in Nat

VARIABLES
  readingFlag,    (* 1 while main wants the thread to run                          *)
  readoutStatus,  (* -1 failed, 0 initial, 1 ready, 2 getting data, 3 data ended   *)
  thr,            (* where the thread is; "none" when there is nothing to join     *)
  badJoin,        (* pthread_join was called with no thread left to join           *)
  crashed,        (* the process has died                                          *)
  openFailures,   (* number of failed opens so far                                 *)
  fileLen,        (* inFileNames: the packets in each listed file, oldest first    *)
  fileOpen,       (* outFile points to an open stream (FALSE: NULL or closed)      *)
  sampsRead,      (* samples received by this thread                               *)
  sampsExpected,  (* samples the caller expects, -1 when it cannot know            *)
  quiet,          (* READOUT_TIMEOUT has elapsed since the last packet             *)
  gaveUp,         (* history: this readout was ended by a timeout                  *)
  stale,          (* packets in the socket sent before the last sequencer start    *)
  fresh,          (* packets in the socket sent since                              *)
  saved           (* history: fresh packets a readout thread has received          *)

flagVars == <<readingFlag, readoutStatus>>
fileVars == <<fileLen, fileOpen, openFailures>>
sampVars == <<sampsRead, sampsExpected, quiet, gaveUp>>
sockVars == <<stale, fresh, saved>>
dumpVars == <<flagVars, fileVars, sampVars, sockVars, thr, badJoin, crashed>>

ThreadSteps == {"none", "open", "flush", "loop", "recv", "leave", "exited"}

DumpTypeOK ==
  /\ readingFlag \in {0, 1}
  /\ readoutStatus \in -1 .. 3
  /\ thr \in ThreadSteps
  /\ badJoin \in BOOLEAN /\ crashed \in BOOLEAN
  /\ openFailures \in 0 .. MaxOpenFailures
  /\ fileLen \in Seq(Nat) /\ fileOpen \in BOOLEAN
  /\ sampsRead \in Nat /\ sampsExpected \in Int
  /\ quiet \in BOOLEAN /\ gaveUp \in BOOLEAN
  /\ stale \in Nat /\ fresh \in Nat /\ saved \in Nat

DumpInit ==
  /\ readingFlag = 0 /\ readoutStatus = 0
  /\ thr = "none" /\ badJoin = FALSE /\ crashed = FALSE
  /\ openFailures = 0 /\ fileLen = << >> /\ fileOpen = FALSE
  /\ sampsRead = 0 /\ sampsExpected = -1
  /\ quiet = FALSE /\ gaveUp = FALSE /\ saved = 0
  /\ stale = 0 /\ fresh = 0

-----------------------------------------------------------------------------
(* What the main thread sees and does.                                     *)

is_readout_active == readingFlag # 0 \/ readoutStatus # 0
is_readout_getting_data == readoutStatus >= 2
is_readout_done == readoutStatus = 3

(* The part of start_readout_thread up to pthread_create. *)
create_thread(expected) ==
  /\ readingFlag' = 1
  /\ readoutStatus' = 0
  /\ fileLen' = << >>
  /\ thr' = "open"
  /\ sampsExpected' = expected
  /\ sampsRead' = 0
  /\ quiet' = FALSE /\ gaveUp' = FALSE
  /\ UNCHANGED <<fileOpen, openFailures, badJoin, crashed, sockVars>>

(* pthread_join: waits for the thread.  Joining a thread that was joined   *)
(* before is undefined: the call returns at once or the process dies.      *)
join_thread ==
  /\ \/ /\ thr = "exited"
        /\ thr' = "none"
        /\ UNCHANGED <<badJoin, crashed>>
     \/ /\ thr = "none"
        /\ badJoin' = TRUE
        /\ crashed' \in BOOLEAN
        /\ UNCHANGED thr
  /\ UNCHANGED <<flagVars, fileVars, sampVars, sockVars>>

-----------------------------------------------------------------------------
(* The thread routine saveData.                                            *)

(* The first file.  The thread leaves with status -1 when it cannot be     *)
(* opened.                                                                 *)
OpenFirstFile ==
  /\ ~crashed /\ thr = "open"
  /\ \/ /\ fileLen' = Append(fileLen, 0)
        /\ fileOpen' = TRUE
        /\ thr' = "flush"
        /\ UNCHANGED <<openFailures, readoutStatus>>
     \/ /\ openFailures < MaxOpenFailures
        /\ openFailures' = openFailures + 1
        /\ readoutStatus' = -1
        /\ thr' = "exited"
        /\ UNCHANGED <<fileLen, fileOpen>>
  /\ UNCHANGED <<readingFlag, sampVars, badJoin, crashed, sockVars>>

(* Mutant: ready is announced before the socket has been drained. *)
FlushAfterReady ==
  /\ ~crashed /\ thr = "flush"
  /\ \/ /\ readoutStatus = 0
        /\ readoutStatus' = 1
        /\ UNCHANGED <<stale, fresh, thr>>
     \/ /\ stale > 0
        /\ stale' = stale - 1
        /\ UNCHANGED <<fresh, thr, readoutStatus>>
     \/ /\ stale = 0 /\ fresh > 0
        /\ fresh' = fresh - 1
        /\ UNCHANGED <<stale, thr, readoutStatus>>
     \/ /\ stale = 0 /\ fresh = 0 /\ readoutStatus = 1
        /\ thr' = "loop"
        /\ UNCHANGED <<stale, fresh, readoutStatus>>
  /\ UNCHANGED <<readingFlag, fileVars, sampVars, badJoin, crashed, saved>>

(* dataSocket->flush() drops packets until a receive times out, and only   *)
(* then does the thread announce that it is ready.                         *)
Flush ==
  /\ ~crashed /\ thr = "flush"
  /\ \/ /\ stale > 0
        /\ stale' = stale - 1
        /\ UNCHANGED <<fresh, thr, readoutStatus>>
     \/ /\ stale = 0 /\ fresh > 0
        /\ fresh' = fresh - 1
        /\ UNCHANGED <<stale, thr, readoutStatus>>
     \/ /\ stale = 0 /\ fresh = 0
        /\ readoutStatus' = 1
        /\ thr' = "loop"
        /\ UNCHANGED <<stale, fresh>>
  /\ UNCHANGED <<readingFlag, fileVars, sampVars, badJoin, crashed, saved>>

(* Mutant: the next file is opened but not listed for the conversion. *)
RollOverUnlisted ==
  \/ UNCHANGED fileVars
  \/ /\ openFailures < MaxOpenFailures
     /\ openFailures' = openFailures + 1
     /\ fileOpen' = FALSE
     /\ UNCHANGED fileLen

(* Close the full file and open the next; a failure leaves a null stream.  *)
RollOver ==
  \/ /\ fileLen' = Append(fileLen, 0)
     /\ UNCHANGED <<fileOpen, openFailures>>
  \/ /\ openFailures < MaxOpenFailures
     /\ openFailures' = openFailures + 1
     /\ fileOpen' = FALSE
     /\ UNCHANGED fileLen

(* The head of the loop: is the thread still wanted, is the file full?     *)
LoopHead ==
  /\ ~crashed /\ thr = "loop" /\ readingFlag = 1
  /\ thr' = "recv"
  /\ IF fileOpen /\ fileLen[Len(fileLen)] >= MaxFile
       THEN RollOver
       ELSE UNCHANGED fileVars
  /\ UNCHANGED <<flagVars, sampVars, badJoin, crashed, sockVars>>

(* Mutant: the result of the receive is not looked at. *)
ReceiveUnchecked ==
  /\ ~crashed /\ thr = "recv" /\ fileOpen
  /\ IF stale > 0
       THEN stale' = stale - 1 /\ UNCHANGED <<fresh, saved>>
       ELSE fresh' = fresh - 1 /\ saved' = saved + 1 /\ UNCHANGED stale
  /\ readoutStatus' = 2
  /\ quiet' = FALSE
  /\ fileLen' = [fileLen EXCEPT ![Len(fileLen)] = @ + 1]
  /\ sampsRead' = sampsRead + 1
  /\ thr' = "loop"
  /\ UNCHANGED <<readingFlag, fileOpen, openFailures, sampsExpected, gaveUp, badJoin, crashed>>

(* A packet: written to the current file, whatever the status was before.  *)
(* Writing through the null stream a failed roll-over left kills the       *)
(* process.                                                                *)
ReceivePacket ==
  /\ ~crashed /\ thr = "recv" /\ stale + fresh > 0
  /\ IF stale > 0
       THEN stale' = stale - 1 /\ UNCHANGED <<fresh, saved>>
       ELSE fresh' = fresh - 1 /\ saved' = saved + 1 /\ UNCHANGED stale
  /\ readoutStatus' = 2
  /\ quiet' = FALSE
  /\ IF fileOpen
       THEN /\ fileLen' = [fileLen EXCEPT ![Len(fileLen)] = @ + 1]
            /\ sampsRead' = sampsRead + 1
            /\ thr' = "loop"
            /\ UNCHANGED crashed
       ELSE /\ crashed' = TRUE
            /\ UNCHANGED <<fileLen, sampsRead, thr>>
  /\ UNCHANGED <<readingFlag, fileOpen, openFailures, sampsExpected, gaveUp, badJoin>>

(* Mutant: any pause between packets ends the readout. *)
TimeoutEnds ==
  /\ ~crashed /\ thr = "recv" /\ stale + fresh = 0
  /\ IF readoutStatus = 2
       THEN /\ readoutStatus' = 3
            /\ gaveUp' = (gaveUp \/ (quiet /\ sampsRead # sampsExpected))
       ELSE UNCHANGED <<readoutStatus, gaveUp>>
  /\ thr' = "loop"
  /\ UNCHANGED <<readingFlag, fileVars, sampsRead, sampsExpected, quiet,
                 badJoin, crashed, sockVars>>

(* Mutant: READOUT_TIMEOUT is not looked at. *)
TimeoutOnCountOnly ==
  /\ ~crashed /\ thr = "recv" /\ stale + fresh = 0
  /\ readoutStatus' = IF readoutStatus = 2 /\ sampsRead = sampsExpected THEN 3 ELSE readoutStatus
  /\ thr' = "loop"
  /\ UNCHANGED <<readingFlag, fileVars, sampVars, badJoin, crashed, sockVars>>

(* No packet within the socket's timeout.  Once data have come, the        *)
(* readout is over when the count is right or the long timeout is up.      *)
ReceiveTimeout ==
  /\ ~crashed /\ thr = "recv" /\ stale + fresh = 0
  /\ IF readoutStatus = 2 /\ (quiet \/ sampsRead = sampsExpected)
       THEN /\ readoutStatus' = 3
            /\ gaveUp' = (gaveUp \/ (quiet /\ sampsRead # sampsExpected))
       ELSE UNCHANGED <<readoutStatus, gaveUp>>
  /\ thr' = "loop"
  /\ UNCHANGED <<readingFlag, fileVars, sampsRead, sampsExpected, quiet,
                 badJoin, crashed, sockVars>>

(* readingFlag is no longer 1: close the file (a null one kills the        *)
(* process) ...                                                            *)
CloseLastFile ==
  /\ ~crashed /\ thr = "loop" /\ readingFlag # 1
  /\ fileOpen' = FALSE
  /\ IF fileOpen THEN thr' = "leave" /\ UNCHANGED crashed
                 ELSE crashed' = TRUE /\ UNCHANGED thr
  /\ UNCHANGED <<flagVars, fileLen, openFailures, sampVars, badJoin, sockVars>>

(* ... then clear the status and exit.                                     *)
ThreadExit ==
  /\ ~crashed /\ thr = "leave"
  /\ readoutStatus' = 0
  /\ thr' = "exited"
  /\ UNCHANGED <<readingFlag, fileVars, sampVars, badJoin, crashed, sockVars>>

(* get_end_time / time_is_up on READOUT_TIMEOUT, restarted by each packet. *)
QuietTick ==
  /\ ~crashed /\ thr \in {"loop", "recv"} /\ readoutStatus = 2 /\ ~quiet
  /\ quiet' = TRUE
  /\ UNCHANGED <<flagVars, fileVars, sampsRead, sampsExpected, gaveUp,
                 thr, badJoin, crashed, sockVars>>

saveData ==
  \/ OpenFirstFile \/ Flush \/ LoopHead \/ ReceivePacket \/ ReceiveTimeout
  \/ CloseLastFile \/ ThreadExit

=============================================================================
