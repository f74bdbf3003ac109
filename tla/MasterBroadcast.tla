---------------------------- MODULE MasterBroadcast ----------------------------
(***************************************************************************)
(* masterLta.exe: one command to one board's daemon or to those of all     *)
(* boards, and their replies (class masterLta_t).  Users start several     *)
(* masters, and interrupt some; a lock file keeps two from running at the  *)
(* same time.                                                              *)
(*                                                                         *)
(* The daemons are as masters see them (UserInterpreter::listenForCommands):*)
(* a queue of connections that are served one at a time, some text, and    *)
(* the end of the connection.  Boards are numbered as in the configuration *)
(* file.  A reply is a sequence of pieces.                                 *)
(***************************************************************************)
EXTENDS Integers, FiniteSets, Sequences, SequencesExt

CONSTANTS
  Masters,      (* processes, each run for one command               *)
  Requests,     (* what they are run for                             *)
  NBoards,      (* boards of the configuration file                  *)
  Buffer,       (* pieces a read returns at most                     *)
  MaxPieces,    (* bound: pieces of a reply                          *)
  MaxFaults,    (* bound: daemons that die or are late to be told    *)
  Nobody        (* no master                                         *)

Boards == 1 .. NBoards
Words == {"multi", "other"}

ASSUME MasterAssumption ==
  /\ NBoards \in Nat \ {0} /\ Buffer \in Nat \ {0} /\ MaxPieces \in Nat /\ MaxFaults \in Nat
  /\ Nobody \notin Masters
  /\ Requests \subseteq [to : SUBSET Boards, all : BOOLEAN, word : Words]
  /\ \A r \in Requests : IF r.all THEN r.to = Boards ELSE \E b \in Boards : r.to = {b}

VARIABLES
  request,      (* of each master: the boards and the word of the command *)
  pc, todo,     (* of each master: where it is, the boards it has left    *)
  lock,         (* who holds /tmp/masterLta.lock                          *)
  resp,         (* ltas_[b].resp of each master                           *)
  conn,         (* the connection of each master to each daemon           *)
  daemon,       (* what each daemon does                                  *)
  queue,        (* the masters that wait to be accepted by it             *)
  serves,       (* client_sock_: the master it serves                     *)
  executed,     (* history: the commands it was given                     *)
  faults

masterVars == <<request, pc, todo, lock, resp>>
daemonVars == <<daemon, queue, serves, executed, faults>>
vars == <<masterVars, conn, daemonVars>>

To(m) == request[m].to
Running == {"connecting", "sending", "listening"}

NoReply == [sendStatus |-> -1, replyStatus |-> -1, replyMsg |-> << >>]
NoConn == [at |-> "none", msg |-> << >>, pieces |-> << >>, broken |-> FALSE]

CommandsOf(b, m) == {k \in DOMAIN executed[b] : executed[b][k].by = m}

TypeOK ==
  /\ request \in [Masters -> Requests]
  /\ pc \in [Masters -> Running \cup {"started", "ended"}]
  /\ todo \in [Masters -> SUBSET Boards]
  /\ lock \in Masters \cup {Nobody}
  /\ \A m \in Masters : (lock = m) <=> (pc[m] \in Running)
  /\ \A m \in Masters, b \in Boards :
       /\ resp[m][b].sendStatus \in -1 .. 1 /\ resp[m][b].replyStatus \in -1 .. 1
       /\ conn[m][b].at \in {"none", "queued", "served", "closed"}
       /\ (conn[m][b].at = "served") <=> (serves[b] = m)
       /\ (conn[m][b].at = "queued") <=> (\E k \in DOMAIN queue[b] : queue[b][k] = m)
       /\ Cardinality(CommandsOf(b, m)) <= 1
  /\ \A b \in Boards : (daemon[b] \in {"serving", "executing"}) <=> (serves[b] \in Masters)
  /\ faults \in 0 .. MaxFaults

Init ==
  /\ request \in [Masters -> Requests]
  /\ pc = [m \in Masters |-> "started"] /\ todo = [m \in Masters |-> {}]
  /\ lock = Nobody
  /\ resp = [m \in Masters |-> [b \in Boards |-> NoReply]]
  /\ conn = [m \in Masters |-> [b \in Boards |-> NoConn]]
  /\ daemon = [b \in Boards |-> "idle"]
  /\ queue = [b \in Boards |-> << >>]
  /\ serves = [b \in Boards |-> Nobody]
  /\ executed = [b \in Boards |-> << >>]
  /\ faults = 0

-----------------------------------------------------------------------------
(* A master                                                                *)

(* Mutant: the lock is not looked at. *)
StartWithoutLock(m) ==
  /\ pc[m] = "started"
  /\ lock' = m /\ pc' = [pc EXCEPT ![m] = "connecting"]
  /\ todo' = [todo EXCEPT ![m] = To(m)]
  /\ UNCHANGED <<request, resp, conn, daemonVars>>

(* main: one instance at a time. *)
Start(m) ==
  /\ pc[m] = "started"
  /\ IF lock = Nobody
     THEN /\ lock' = m /\ pc' = [pc EXCEPT ![m] = "connecting"]
          /\ todo' = [todo EXCEPT ![m] = To(m)]
     ELSE pc' = [pc EXCEPT ![m] = "ended"] /\ UNCHANGED <<lock, todo>>
  /\ UNCHANGED <<request, resp, conn, daemonVars>>

FirstToDo(m, b) == b \in todo[m] /\ \A c \in todo[m] : b <= c

(* connectSocket.  The loop goes on after a board that cannot be reached. *)
connectSocket(m) ==
  /\ pc[m] = "connecting"
  /\ \E b \in Boards :
       /\ FirstToDo(m, b)
       /\ todo' = [todo EXCEPT ![m] = @ \ {b}]
       /\ IF daemon[b] # "down"
          THEN /\ conn' = [conn EXCEPT ![m][b].at = "queued"]
               /\ queue' = [queue EXCEPT ![b] = Append(@, m)]
               /\ UNCHANGED resp
          ELSE resp' = [resp EXCEPT ![m][b].sendStatus = 1] /\ UNCHANGED <<conn, queue>>
  /\ UNCHANGED <<request, pc, lock, daemon, serves, executed, faults>>

(* The process ends: its lock and its sockets go with it, and what has not *)
(* been read of them.                                                      *)
Ends(m) ==
  /\ pc' = [pc EXCEPT ![m] = "ended"]
  /\ lock' = Nobody
  /\ todo' = [todo EXCEPT ![m] = {}]
  /\ conn' = [conn EXCEPT ![m] = [b \in Boards |-> [@[b] EXCEPT !.pieces = << >>]]]

(* Mutant: whoever could be reached is sent the command. *)
ConnectedToSome(m) ==
  /\ pc[m] = "connecting" /\ todo[m] = {}
  /\ pc' = [pc EXCEPT ![m] = "sending"]
  /\ todo' = [todo EXCEPT ![m] = {b \in To(m) : conn[m][b].at # "none"}]
  /\ UNCHANGED <<request, lock, resp, conn, daemonVars>>

(* Nothing is sent unless every board has been reached. *)
Connected(m) ==
  /\ pc[m] = "connecting" /\ todo[m] = {}
  /\ IF \E b \in To(m) : resp[m][b].sendStatus = 1 THEN Ends(m)
     ELSE /\ pc' = [pc EXCEPT ![m] = "sending"]
          /\ todo' = [todo EXCEPT ![m] = To(m)]
          /\ UNCHANGED <<lock, conn>>
  /\ UNCHANGED <<request, resp, daemonVars>>

(* "multi" alone, to all boards, is sent with the name of the board.       *)
MessageTo(m, b) ==
  IF request[m].all /\ request[m].word = "multi" THEN <<"multi", b>> ELSE <<request[m].word>>

(* sendMessage.  What send returns is not looked at: a connection the      *)
(* daemon has closed takes the message, and nobody reads it.               *)
sendMessage(m) ==
  /\ pc[m] = "sending"
  /\ \E b \in Boards :
       /\ FirstToDo(m, b)
       /\ todo' = [todo EXCEPT ![m] = @ \ {b}]
       /\ conn' = [conn EXCEPT ![m][b].msg = MessageTo(m, b)]
       /\ resp' = [resp EXCEPT ![m][b].sendStatus = 0]
  /\ UNCHANGED <<request, pc, lock, daemonVars>>

Sent(m) ==
  /\ pc[m] = "sending" /\ todo[m] = {}
  /\ pc' = [pc EXCEPT ![m] = "listening"]
  /\ todo' = [todo EXCEPT ![m] = To(m)]
  /\ UNCHANGED <<request, lock, resp, conn, daemonVars>>

-----------------------------------------------------------------------------
(* listenForReply: select waits, without a timeout, until some connections *)
(* can be read, and one read is made of each.  These reads are of different*)
(* connections, and one step.                                              *)

Readable(m) == {b \in todo[m] : conn[m][b].pieces # << >> \/ conn[m][b].at = "closed"}

Taken(m, b) == SubSeq(conn[m][b].pieces, 1, Min({Buffer, Len(conn[m][b].pieces)}))
Remaining(m, b) == SubSeq(conn[m][b].pieces, Len(Taken(m, b)) + 1, Len(conn[m][b].pieces))

(* A connection whose message was read ends with 0.  One that was closed   *)
(* before may be seen as closed or as an error.                            *)
EndStatus(m, b) == IF CommandsOf(b, m) # {} THEN {0} ELSE {0, 1}

(* Mutant: a read replaces what was read before. *)
ReplyReplaced(m, b, status) ==
  IF conn[m][b].pieces = << >> THEN [resp[m][b] EXCEPT !.replyStatus = status]
  ELSE [resp[m][b] EXCEPT !.replyMsg = Taken(m, b)]

ReplyRead(m, b, status) ==
  IF conn[m][b].pieces = << >> THEN [resp[m][b] EXCEPT !.replyStatus = status]
  ELSE [resp[m][b] EXCEPT !.replyMsg = @ \o Taken(m, b)]

(* Mutant: only an error is taken for the end of a connection. *)
DoneIfError(m, status) == {b \in Readable(m) : conn[m][b].pieces = << >> /\ status[b] = 1}

Done(m, status) == {b \in Readable(m) : conn[m][b].pieces = << >>}

listenForReply(m) ==
  /\ pc[m] = "listening" /\ Readable(m) # {}
  /\ \E status \in [Readable(m) -> {0, 1}] :
       /\ \A b \in Readable(m) : status[b] \in EndStatus(m, b)
       /\ resp' = [resp EXCEPT ![m] = [b \in Boards |->
                     IF b \in Readable(m) THEN ReplyRead(m, b, status[b]) ELSE @[b]]]
       /\ todo' = [todo EXCEPT ![m] = @ \ Done(m, status)]
  /\ conn' = [conn EXCEPT ![m] = [b \in Boards |->
                IF b \in Readable(m) THEN [@[b] EXCEPT !.pieces = Remaining(m, b)] ELSE @[b]]]
  /\ UNCHANGED <<request, pc, lock, daemonVars>>

Replied(m) ==
  /\ pc[m] = "listening" /\ todo[m] = {} /\ Ends(m)
  /\ UNCHANGED <<request, resp, daemonVars>>

(* The user interrupts the process: it reports nothing. *)
Interrupt(m) ==
  /\ pc[m] \in Running /\ Ends(m)
  /\ resp' = [resp EXCEPT ![m] = [b \in Boards |-> NoReply]]
  /\ UNCHANGED <<request, daemonVars>>

-----------------------------------------------------------------------------
(* A daemon                                                                *)

Accept(b) ==
  /\ daemon[b] = "idle" /\ queue[b] # << >>
  /\ daemon' = [daemon EXCEPT ![b] = "serving"]
  /\ serves' = [serves EXCEPT ![b] = Head(queue[b])]
  /\ queue' = [queue EXCEPT ![b] = Tail(@)]
  /\ conn' = [conn EXCEPT ![Head(queue[b])][b].at = "served"]
  /\ UNCHANGED <<masterVars, executed, faults>>

Closes(b) ==
  /\ conn' = [conn EXCEPT ![serves[b]][b].at = "closed"]
  /\ daemon' = [daemon EXCEPT ![b] = "idle"]
  /\ serves' = [serves EXCEPT ![b] = Nobody]

(* recv: the message, also of a master that has ended since, or the end of *)
(* a connection that has none.                                             *)
Receive(b) ==
  /\ daemon[b] = "serving"
  /\ LET m == serves[b] IN
       \/ /\ conn[m][b].msg # << >>
          /\ daemon' = [daemon EXCEPT ![b] = "executing"]
          /\ executed' = [executed EXCEPT ![b] =
               Append(@, [by |-> m, msg |-> conn[m][b].msg, said |-> << >>, done |-> FALSE])]
          /\ UNCHANGED <<conn, serves>>
       \/ /\ conn[m][b].msg = << >> /\ pc[m] = "ended"
          /\ Closes(b) /\ UNCHANGED executed
  /\ UNCHANGED <<masterVars, queue, faults>>

(* The sockets of accepted connections have the timeout of the listening   *)
(* one (tcpSocket::create): a master that is slow to connect to the other  *)
(* boards is not waited for.                                               *)
ReceiveTimesOut(b) ==
  /\ daemon[b] = "serving" /\ faults < MaxFaults
  /\ conn[serves[b]][b].msg = << >> /\ pc[serves[b]] # "ended"
  /\ Closes(b) /\ faults' = faults + 1
  /\ UNCHANGED <<masterVars, queue, executed>>

Dies(b) ==
  /\ daemon' = [daemon EXCEPT ![b] = "down"]
  /\ serves' = [serves EXCEPT ![b] = Nobody]
  /\ queue' = [queue EXCEPT ![b] = << >>]
  /\ conn' = [m \in Masters |-> [conn[m] EXCEPT ![b].at =
                IF @ \in {"queued", "served"} THEN "closed" ELSE @]]

(* The handler prints.  Text for a master that has ended breaks the        *)
(* connection, and the next text ends the daemon: SIGPIPE is not handled.  *)
Says(b) ==
  /\ daemon[b] = "executing"
  /\ LET m == serves[b]
         last == Len(executed[b])
         piece == <<b, Len(executed[b][last].said) + 1>>
     IN /\ Len(executed[b][last].said) < MaxPieces
        /\ executed' = [executed EXCEPT ![b][last].said = Append(@, piece)]
        /\ IF conn[m][b].broken THEN Dies(b)
           ELSE /\ conn' = IF pc[m] = "ended"
                           THEN [conn EXCEPT ![m][b].broken = TRUE]
                           ELSE [conn EXCEPT ![m][b].pieces = Append(@, piece)]
                /\ UNCHANGED <<daemon, serves, queue>>
  /\ UNCHANGED <<masterVars, faults>>

Finish(b) ==
  /\ daemon[b] = "executing"
  /\ executed' = [executed EXCEPT ![b][Len(executed[b])].done = TRUE]
  /\ Closes(b)
  /\ UNCHANGED <<masterVars, queue, faults>>

Crash(b) ==
  /\ daemon[b] # "down" /\ faults < MaxFaults
  /\ Dies(b) /\ faults' = faults + 1
  /\ UNCHANGED <<masterVars, executed>>

-----------------------------------------------------------------------------

MasterStep(m) ==
  Start(m) \/ connectSocket(m) \/ Connected(m) \/ sendMessage(m) \/ Sent(m)
    \/ listenForReply(m) \/ Replied(m)

Next ==
  \/ \E m \in Masters : MasterStep(m) \/ Interrupt(m)
  \/ \E b \in Boards : Accept(b) \/ Receive(b) \/ ReceiveTimesOut(b) \/ Says(b)
                         \/ Finish(b) \/ Crash(b)

(* Processes go on; every command of a daemon ends.  Nothing obliges a     *)
(* daemon to die or to be slow, a user to interrupt, a handler to print.   *)
Fairness ==
  /\ \A m \in Masters : WF_vars(MasterStep(m))
  /\ \A b \in Boards : WF_vars(Accept(b)) /\ WF_vars(Receive(b)) /\ WF_vars(Finish(b))

Spec == Init /\ [][Next]_vars /\ Fairness

-----------------------------------------------------------------------------

(* A broadcast that could not reach every board is executed by none, though*)
(* the daemons it did reach have accepted it (masterLta_t::broadcast).     *)
AllOrNobody ==
  \A m \in Masters :
    (\E b \in To(m) : resp[m][b].sendStatus = 1)
      => \A c \in Boards : CommandsOf(c, m) = {} /\ conn[m][c].msg = << >>

(* The boards execute broadcasts in the same order, also when a user       *)
(* interrupts one and starts the next while daemons still execute: boards  *)
(* that are read out together have the same settings (main, tryGetLock).   *)
Before(b, m, n) == \E i \in CommandsOf(b, m), j \in CommandsOf(b, n) : i < j

SameOrder ==
  \A m, n \in {o \in Masters : request[o].all}, b, c \in Boards :
    ~(Before(b, m, n) /\ Before(c, n, m))

(* A master that reports a board without an error (and was not interrupted)*)
(* has all the text the board printed for this master's command, in the    *)
(* order it was printed, if the daemon finished it; and it was the command *)
(* for this board (masterLta_t::listenForReply, sendMessage).              *)
ReportSound ==
  \A m \in Masters, b \in Boards :
    resp[m][b].replyStatus = 0 =>
      \A k \in CommandsOf(b, m) :
        /\ executed[b][k].msg = MessageTo(m, b)
        /\ executed[b][k].done => resp[m][b].replyMsg = executed[b][k].said
        /\ IsPrefix(resp[m][b].replyMsg, executed[b][k].said)

(* A master that has the lock ends, whichever daemons die, close early or  *)
(* print nothing (masterLta_t::listenForReply waits without a timeout).    *)
MasterEnds == \A m \in Masters : pc[m] = "connecting" ~> pc[m] = "ended"
=============================================================================
