----------------------------- MODULE MasterProofs -----------------------------
(***************************************************************************)
(* Proofs about MasterBroadcast, for every number of masters, boards and   *)
(* faults and every length of a reply.                                     *)
(*                                                                         *)
(* The order of broadcasts is an order of connections: whoever has the lock*)
(* is behind all the others at every daemon it has connected to, and a     *)
(* daemon serves its connections in their order.                           *)
(*                                                                         *)
(* What a master reports (ReportSound): as long as a master runs, what it  *)
(* has read and what is still on the connection are together what the      *)
(* board has printed for its command.  A connection that is reported is    *)
(* closed and has been read to its end.                                    *)
(***************************************************************************)
EXTENDS MasterBroadcast, FiniteSetTheorems, SequenceTheorems, TLAPS

Pieces == Boards \X Nat
Messages == {<< >>} \cup {<<w>> : w \in Words} \cup {<<w, b>> : w \in Words, b \in Boards}
Replies == [sendStatus : -1 .. 1, replyStatus : -1 .. 1, replyMsg : Seq(Pieces)]
Connections ==
  [at : {"none", "queued", "served", "closed"}, msg : Messages, pieces : Seq(Pieces), broken : BOOLEAN]
Commands == [by : Masters, msg : Messages, said : Seq(Pieces), done : BOOLEAN]

(* The sets the variables take their values from, and who is being served. *)
Types ==
  /\ request \in [Masters -> Requests]
  /\ pc \in [Masters -> Running \cup {"started", "ended"}]
  /\ todo \in [Masters -> SUBSET Boards]
  /\ lock \in Masters \cup {Nobody}
  /\ resp \in [Masters -> [Boards -> Replies]]
  /\ conn \in [Masters -> [Boards -> Connections]]
  /\ daemon \in [Boards -> {"idle", "serving", "executing", "down"}]
  /\ queue \in [Boards -> Seq(Masters)]
  /\ serves \in [Boards -> Masters \cup {Nobody}]
  /\ executed \in [Boards -> Seq(Commands)]
  /\ faults \in 0 .. MaxFaults
  /\ \A b \in Boards : (daemon[b] \in {"serving", "executing"}) <=> (serves[b] \in Masters)
  /\ \A b \in Boards : daemon[b] = "executing" => executed[b] # << >>

(* The lock is with the master that runs. *)
Locked == \A m \in Masters : (lock = m) <=> (pc[m] \in Running)

(* A master connects once to each board. *)
Fresh ==
  \A m \in Masters, b \in Boards :
    pc[m] = "started" \/ (pc[m] = "connecting" /\ b \in todo[m]) => conn[m][b].at = "none"

InQueue(b, m) == \E k \in DOMAIN queue[b] : queue[b][k] = m

(* Where a connection is says what its daemon knows of it. *)
Queues ==
  \A b \in Boards :
    /\ \A m \in Masters : (conn[m][b].at = "served") <=> (serves[b] = m)
    /\ \A m \in Masters : (conn[m][b].at = "queued") <=> InQueue(b, m)
    /\ \A i, j \in DOMAIN queue[b] : queue[b][i] = queue[b][j] => i = j

(* A command was received from a connection that is still served, and then *)
(* is being executed, or has been closed.                                  *)
Received ==
  \A b \in Boards : \A k \in DOMAIN executed[b] :
    LET m == executed[b][k].by IN
      /\ conn[m][b].at \in {"served", "closed"}
      /\ serves[b] = m => daemon[b] = "executing"
      /\ conn[m][b].msg # << >>

Once ==
  \A b \in Boards : \A i, j \in DOMAIN executed[b] :
    executed[b][i].by = executed[b][j].by => i = j

(* Nothing is sent before all boards have been reached. *)
NothingSentBy(m) ==
  /\ pc[m] \in {"started", "connecting"} => \A b \in Boards : conn[m][b].msg = << >>
  /\ pc[m] \in {"sending", "listening"} => \A b \in To(m) : resp[m][b].sendStatus # 1
  /\ (\E b \in To(m) : resp[m][b].sendStatus = 1) => \A b \in Boards : conn[m][b].msg = << >>

NothingSent == \A m \in Masters : NothingSentBy(m)

(* The connection, or the command, of m comes before that of n. *)
Precedes(b, m, n) ==
  \/ \E i, j \in DOMAIN executed[b] : i < j /\ executed[b][i].by = m /\ executed[b][j].by = n
  \/ \E i, j \in DOMAIN queue[b] : i < j /\ queue[b][i] = m /\ queue[b][j] = n
  \/ conn[n][b].at = "queued" /\ conn[m][b].at \in {"served", "closed"}
  \/ conn[n][b].at = "served" /\ conn[m][b].at = "closed"

SameWay ==
  \A m, n \in Masters, b, c \in Boards : ~(Precedes(b, m, n) /\ Precedes(c, n, m))

(* Nobody is behind the master that connects. *)
NobodyBehind == \A m, n \in Masters, b \in Boards : pc[m] = "connecting" => ~Precedes(b, m, n)

Connecting == Types /\ Locked /\ Fresh /\ Queues

IInv == Connecting /\ Received /\ Once /\ NothingSent /\ SameWay /\ NobodyBehind

(* The groups of variables are always expanded. *)
USE DEF masterVars, daemonVars

-----------------------------------------------------------------------------
(* Types                                                                   *)

(* A field of a connection or of a reply is set. *)
LEMMA NoPieces == << >> \in Seq(Pieces)
OBVIOUS

LEMMA PrefixType ==
  ASSUME NEW S, NEW s \in Seq(S), NEW n \in 0 .. Len(s)
  PROVE  SubSeq(s, 1, n) \in Seq(S) /\ Len(SubSeq(s, 1, n)) = n
OBVIOUS

LEMMA SetAt ==
  ASSUME NEW c \in Connections, NEW a \in {"none", "queued", "served", "closed"}
  PROVE  [c EXCEPT !.at = a] \in Connections
BY DEF Connections

LEMMA SetMsg ==
  ASSUME NEW c \in Connections, NEW t \in Messages PROVE [c EXCEPT !.msg = t] \in Connections
BY DEF Connections

LEMMA SetPieces ==
  ASSUME NEW c \in Connections, NEW p \in Seq(Pieces) PROVE [c EXCEPT !.pieces = p] \in Connections
BY DEF Connections

LEMMA SetBroken == ASSUME NEW c \in Connections PROVE [c EXCEPT !.broken = TRUE] \in Connections
BY DEF Connections

LEMMA SetReplies ==
  ASSUME NEW r \in Replies, NEW n \in {0, 1}, NEW t \in Seq(Pieces)
  PROVE  /\ [r EXCEPT !.sendStatus = n] \in Replies
         /\ [r EXCEPT !.replyStatus = n] \in Replies
         /\ [r EXCEPT !.replyMsg = t] \in Replies
BY DEF Replies

LEMMA ElementType ==
  ASSUME Types, NEW m \in Masters, NEW b \in Boards
  PROVE  conn[m][b] \in Connections /\ resp[m][b] \in Replies
BY DEF Types

LEMMA ToType == ASSUME Types, NEW m \in Masters PROVE To(m) \in SUBSET Boards
BY MasterAssumption DEF Types, To

LEMMA MessageToType ==
  ASSUME Types, NEW m \in Masters, NEW b \in Boards
  PROVE  MessageTo(m, b) \in Messages /\ MessageTo(m, b) # << >>
<1>1. request[m].word \in Words
  BY MasterAssumption DEF Types
<1>2. <<request[m].word>> # << >> /\ <<"multi", b>> # << >>
  OBVIOUS
<1> QED
  BY <1>1, <1>2 DEF MessageTo, Messages, Words

LEMMA InitTypes == Init => Types
<1> SUFFICES ASSUME Init PROVE Types
  OBVIOUS
<1>1. NoReply \in Replies /\ NoConn \in Connections
  BY DEF NoReply, NoConn, Replies, Connections, Messages
<1> QED
  BY <1>1, MasterAssumption DEF Init, Types, Running

(* What is left of a process that ends. *)
LEMMA EndsTypes ==
  ASSUME Types, NEW m \in Masters, Ends(m)
  PROVE  /\ pc' \in [Masters -> Running \cup {"started", "ended"}]
         /\ lock' = Nobody
         /\ todo' \in [Masters -> SUBSET Boards]
         /\ conn' \in [Masters -> [Boards -> Connections]]
<1>1. [b \in Boards |-> [conn[m][b] EXCEPT !.pieces = << >>]] \in [Boards -> Connections]
  <2>1. \A b \in Boards : [conn[m][b] EXCEPT !.pieces = << >>] \in Connections
    BY NoPieces, SetPieces, ElementType
  <2> QED
    BY <2>1
<1>2. conn' \in [Masters -> [Boards -> Connections]]
  BY <1>1 DEF Types, Ends
<1> QED
  BY <1>2 DEF Types, Ends

LEMMA MasterTypes == ASSUME Types, NEW m \in Masters, MasterStep(m) \/ Interrupt(m) PROVE Types'
<1>1. CASE Start(m)
  <2>1. [todo EXCEPT ![m] = To(m)] \in [Masters -> SUBSET Boards]
    BY ToType DEF Types
  <2>2. todo' \in [Masters -> SUBSET Boards] /\ lock' \in Masters \cup {Nobody}
    BY <1>1, <2>1 DEF Types, Start
  <2>3. pc' \in [Masters -> Running \cup {"started", "ended"}]
    BY <1>1, ZenonT(30) DEF Types, Start, Running
  <2> QED
    BY <1>1, <2>2, <2>3 DEF Types, Start
<1>2. CASE connectSocket(m)
  <2>1. PICK b \in Boards :
          /\ todo' = [todo EXCEPT ![m] = @ \ {b}]
          /\ IF daemon[b] # "down"
             THEN /\ conn' = [conn EXCEPT ![m][b].at = "queued"]
                  /\ queue' = [queue EXCEPT ![b] = Append(@, m)]
                  /\ UNCHANGED resp
             ELSE resp' = [resp EXCEPT ![m][b].sendStatus = 1] /\ UNCHANGED <<conn, queue>>
    BY <1>2 DEF connectSocket
  <2>2. [conn EXCEPT ![m][b].at = "queued"] \in [Masters -> [Boards -> Connections]]
    <3>1. [conn[m][b] EXCEPT !.at = "queued"] \in Connections
      BY SetAt, ElementType
    <3>2. [conn[m] EXCEPT ![b].at = "queued"] \in [Boards -> Connections]
      BY <3>1 DEF Types
    <3> QED
      BY <3>2 DEF Types
  <2>3. [queue EXCEPT ![b] = Append(@, m)] \in [Boards -> Seq(Masters)]
    BY DEF Types
  <2>4. [resp EXCEPT ![m][b].sendStatus = 1] \in [Masters -> [Boards -> Replies]]
    <3>1. [resp[m][b] EXCEPT !.sendStatus = 1] \in Replies
      BY NoPieces, SetReplies, ElementType
    <3>2. [resp[m] EXCEPT ![b].sendStatus = 1] \in [Boards -> Replies]
      BY <3>1 DEF Types
    <3> QED
      BY <3>2 DEF Types
  <2> QED
    BY <1>2, <2>1, <2>2, <2>3, <2>4, ZenonT(30) DEF Types, connectSocket
<1>3. CASE Connected(m)
  <2>1. CASE Ends(m)
    BY <1>3, <2>1, EndsTypes DEF Types, Connected
  <2>2. CASE ~Ends(m)
    <3>1. [todo EXCEPT ![m] = To(m)] \in [Masters -> SUBSET Boards]
      BY ToType DEF Types
    <3>2. todo' \in [Masters -> SUBSET Boards] /\ UNCHANGED <<lock, conn>>
      BY <1>3, <2>2, <3>1 DEF Types, Connected
    <3>3. pc' \in [Masters -> Running \cup {"started", "ended"}]
      BY <1>3, <2>2, ZenonT(30) DEF Types, Connected, Running
    <3> QED
      BY <1>3, <3>2, <3>3 DEF Types, Connected
  <2> QED
    BY <2>1, <2>2
<1>4. CASE sendMessage(m)
  <2>1. PICK b \in Boards :
          /\ todo' = [todo EXCEPT ![m] = @ \ {b}]
          /\ conn' = [conn EXCEPT ![m][b].msg = MessageTo(m, b)]
          /\ resp' = [resp EXCEPT ![m][b].sendStatus = 0]
    BY <1>4 DEF sendMessage
  <2>2. conn' \in [Masters -> [Boards -> Connections]]
    <3>1. [conn[m][b] EXCEPT !.msg = MessageTo(m, b)] \in Connections
      BY MessageToType, SetMsg, ElementType
    <3>2. [conn[m] EXCEPT ![b].msg = MessageTo(m, b)] \in [Boards -> Connections]
      BY <3>1 DEF Types
    <3> QED
      BY <2>1, <3>2 DEF Types
  <2>3. resp' \in [Masters -> [Boards -> Replies]]
    <3>1. [resp[m][b] EXCEPT !.sendStatus = 0] \in Replies
      BY NoPieces, SetReplies, ElementType
    <3>2. [resp[m] EXCEPT ![b].sendStatus = 0] \in [Boards -> Replies]
      BY <3>1 DEF Types
    <3> QED
      BY <2>1, <3>2 DEF Types
  <2> QED
    BY <1>4, <2>1, <2>2, <2>3 DEF Types, sendMessage
<1>5. CASE Sent(m)
  BY <1>5, ToType DEF Types, Sent, Running
<1>6. CASE listenForReply(m)
  <2>1. \A b \in Boards : Taken(m, b) \in Seq(Pieces) /\ Remaining(m, b) \in Seq(Pieces)
    <3> SUFFICES ASSUME NEW b \in Boards
                 PROVE  Taken(m, b) \in Seq(Pieces) /\ Remaining(m, b) \in Seq(Pieces)
      OBVIOUS
    <3> DEFINE p == conn[m][b].pieces
    <3>1. p \in Seq(Pieces)
      BY DEF Types, Connections
    <3>2. Min({Buffer, Len(p)}) \in 0 .. Len(p)
      BY <3>1, MasterAssumption DEF Min
    <3>3. Taken(m, b) = SubSeq(p, 1, Min({Buffer, Len(p)}))
      BY DEF Taken
    <3> HIDE DEF p
    <3>4. Taken(m, b) \in Seq(Pieces) /\ Len(Taken(m, b)) \in 0 .. Len(p)
      BY <3>1, <3>2, <3>3, PrefixType
    <3>5. Remaining(m, b) = SubSeq(p, Len(Taken(m, b)) + 1, Len(p))
      BY DEF Remaining, p
    <3> QED
      BY <3>1, <3>4, <3>5
  <2>2. PICK status \in [Readable(m) -> {0, 1}] :
          /\ resp' = [resp EXCEPT ![m] = [b \in Boards |->
                     IF b \in Readable(m) THEN ReplyRead(m, b, status[b]) ELSE @[b]]]
          /\ todo' = [todo EXCEPT ![m] = @ \ Done(m, status)]
    BY <1>6 DEF listenForReply
  <2>3. \A b \in Readable(m) : ReplyRead(m, b, status[b]) \in Replies
    <3> SUFFICES ASSUME NEW b \in Readable(m) PROVE ReplyRead(m, b, status[b]) \in Replies
      OBVIOUS
    <3>1. b \in Boards /\ resp[m][b] \in Replies /\ status[b] \in {0, 1}
      BY DEF Types, Readable
    <3>2. resp[m][b].replyMsg \o Taken(m, b) \in Seq(Pieces)
      BY <2>1, <3>1 DEF Replies
    <3> QED
      BY <3>1, <3>2, SetReplies, NoPieces DEF ReplyRead
  <2>4. resp' \in [Masters -> [Boards -> Replies]]
    BY <2>2, <2>3 DEF Types
  <2>5. \A b \in Boards : [conn[m][b] EXCEPT !.pieces = Remaining(m, b)] \in Connections
    BY <2>1, SetPieces, ElementType
  <2>6. conn' \in [Masters -> [Boards -> Connections]]
    BY <1>6, <2>5 DEF Types, listenForReply
  <2> QED
    BY <1>6, <2>2, <2>4, <2>6 DEF Types, listenForReply
<1>7. CASE Replied(m)
  BY <1>7, EndsTypes DEF Types, Replied
<1>8. CASE Interrupt(m)
  <2>1. NoReply \in Replies
    BY DEF NoReply, Replies
  <2> QED
    BY <1>8, <2>1, EndsTypes DEF Types, Interrupt
<1> QED
  BY <1>1, <1>2, <1>3, <1>4, <1>5, <1>6, <1>7, <1>8 DEF MasterStep

(* The connection of the master a daemon serves is closed. *)
LEMMA ClosesTypes ==
  ASSUME Types, NEW b \in Boards, Closes(b)
  PROVE  /\ conn' \in [Masters -> [Boards -> Connections]]
         /\ daemon' \in [Boards -> {"idle", "serving", "executing", "down"}]
         /\ serves' \in [Boards -> Masters \cup {Nobody}]
         /\ \A c \in Boards : daemon'[c] = "executing" => daemon[c] = "executing"
         /\ daemon[b] \in {"serving", "executing"} =>
              \A c \in Boards : (daemon'[c] \in {"serving", "executing"}) <=> (serves'[c] \in Masters)
<1>1. conn' \in [Masters -> [Boards -> Connections]]
  <2>1. CASE serves[b] \in Masters
    <3>1. [conn[serves[b]][b] EXCEPT !.at = "closed"] \in Connections
      BY <2>1, SetAt, ElementType
    <3>2. [conn[serves[b]] EXCEPT ![b].at = "closed"] \in [Boards -> Connections]
      BY <2>1, <3>1 DEF Types
    <3> QED
      BY <2>1, <3>2 DEF Types, Closes
  <2>2. CASE serves[b] \notin Masters
    BY <2>2 DEF Types, Closes
  <2> QED
    BY <2>1, <2>2
<1> QED
  BY <1>1, MasterAssumption DEF Types, Closes

LEMMA DiesTypes ==
  ASSUME Types, NEW b \in Boards, Dies(b)
  PROVE  /\ conn' \in [Masters -> [Boards -> Connections]]
         /\ daemon' \in [Boards -> {"idle", "serving", "executing", "down"}]
         /\ serves' \in [Boards -> Masters \cup {Nobody}]
         /\ queue' \in [Boards -> Seq(Masters)]
         /\ \A c \in Boards : daemon'[c] = "executing" => daemon[c] = "executing"
         /\ \A c \in Boards : (daemon'[c] \in {"serving", "executing"}) <=> (serves'[c] \in Masters)
<1>1. \A m \in Masters :
        [conn[m] EXCEPT ![b].at = IF @ \in {"queued", "served"} THEN "closed" ELSE @]
          \in [Boards -> Connections]
  <2> SUFFICES ASSUME NEW m \in Masters
               PROVE  [conn[m] EXCEPT ![b].at = IF @ \in {"queued", "served"} THEN "closed" ELSE @]
                        \in [Boards -> Connections]
    OBVIOUS
  <2>1. conn[m][b] \in Connections /\ conn[m][b].at \in {"none", "queued", "served", "closed"}
    BY DEF Types, Connections
  <2>2. [conn[m][b] EXCEPT !.at = IF @ \in {"queued", "served"} THEN "closed" ELSE @] \in Connections
    BY <2>1, SetAt
  <2> QED
    BY <2>2 DEF Types
<1>2. conn' \in [Masters -> [Boards -> Connections]]
  BY <1>1 DEF Dies
<1> QED
  BY <1>2, MasterAssumption DEF Types, Dies

(* A field of the last command of a board is set, if it has one. *)
LEMMA SetLast ==
  ASSUME NEW s \in Seq(Commands), NEW t \in Seq(Pieces)
  PROVE  /\ [s EXCEPT ![Len(s)].done = TRUE] \in Seq(Commands)
         /\ [s EXCEPT ![Len(s)].said = t] \in Seq(Commands)
<1>1. CASE Len(s) \in DOMAIN s
  <2>1. s[Len(s)] \in Commands
    BY <1>1
  <2>2. /\ [s[Len(s)] EXCEPT !.done = TRUE] \in Commands
        /\ [s[Len(s)] EXCEPT !.said = t] \in Commands
    BY <2>1 DEF Commands
  <2> QED
    BY <1>1, <2>2
<1>2. CASE Len(s) \notin DOMAIN s
  <2>1. [s EXCEPT ![Len(s)].done = TRUE] = s
    BY <1>2
  <2>2. [s EXCEPT ![Len(s)].said = t] = s
    BY <1>2
  <2> QED
    BY <2>1, <2>2
<1> QED
  BY <1>1, <1>2

(* These are the effects of Says and Finish on the history; who was given  *)
(* which command is not among them.                                        *)
SameCommands ==
  \A b \in Boards :
    /\ DOMAIN executed'[b] = DOMAIN executed[b]
    /\ \A k \in DOMAIN executed[b] : executed'[b][k].by = executed[b][k].by

LEMMA FinishHistory ==
  ASSUME Types, NEW b \in Boards, Finish(b)
  PROVE  /\ executed' \in [Boards -> Seq(Commands)] /\ SameCommands
         /\ \A c \in Boards : executed'[c] # << >> <=> executed[c] # << >>
<1>1. executed' = [executed EXCEPT ![b] = [@ EXCEPT ![Len(@)].done = TRUE]]
  BY DEF Finish
<1>2. executed'[b] = [executed[b] EXCEPT ![Len(executed[b])].done = TRUE]
  BY <1>1 DEF Types
<1>3. executed[b] \in Seq(Commands) /\ executed'[b] \in Seq(Commands)
  <2>1. executed[b] \in Seq(Commands)
    BY DEF Types
  <2> QED
    BY <1>2, <2>1, SetLast, NoPieces
<1>4. executed' \in [Boards -> Seq(Commands)]
  BY <1>1, <1>2, <1>3 DEF Types
<1>5. DOMAIN executed'[b] = DOMAIN executed[b]
  BY <1>2, <1>3
<1>6. \A k \in DOMAIN executed[b] : executed'[b][k].by = executed[b][k].by
  BY <1>2, <1>3 DEF Commands
<1>7. \A c \in Boards : c # b => executed'[c] = executed[c]
  BY <1>1 DEF Types
<1>8. executed'[b] # << >> <=> executed[b] # << >>
  BY <1>3, <1>5
<1> QED
  BY <1>4, <1>5, <1>6, <1>7, <1>8 DEF SameCommands

LEMMA SaysHistory ==
  ASSUME Types, NEW b \in Boards, Says(b)
  PROVE  /\ executed' \in [Boards -> Seq(Commands)] /\ SameCommands
         /\ \A c \in Boards : executed'[c] # << >> <=> executed[c] # << >>
<1> DEFINE last == Len(executed[b])
           said == Append(executed[b][last].said, <<b, Len(executed[b][last].said) + 1>>)
<1>1. executed' = [executed EXCEPT ![b] = [@ EXCEPT ![last].said = said]]
  BY DEF Says
<1>2. executed'[b] = [executed[b] EXCEPT ![last].said = said]
  BY <1>1 DEF Types
<1>3. executed[b] \in Seq(Commands)
  BY DEF Types
<1>4. executed'[b] \in Seq(Commands)
  <2>1. executed[b][last] \in Commands
    BY <1>3 DEF Types, Says
  <2>2. executed[b][last].said \in Seq(Pieces)
    BY <2>1 DEF Commands
  <2>3. said \in Seq(Pieces)
    BY <2>2 DEF Pieces
  <2> QED
    BY <1>2, <1>3, <2>3, SetLast
<1> HIDE DEF last, said
<1>5. executed' \in [Boards -> Seq(Commands)]
  BY <1>1, <1>2, <1>4 DEF Types
<1>6. DOMAIN executed'[b] = DOMAIN executed[b]
  BY <1>2, <1>3
<1>7. \A k \in DOMAIN executed[b] : executed'[b][k].by = executed[b][k].by
  BY <1>2, <1>3 DEF Commands
<1>8. \A c \in Boards : c # b => executed'[c] = executed[c]
  BY <1>1 DEF Types
<1>9. executed'[b] # << >> <=> executed[b] # << >>
  BY <1>3, <1>4, <1>6
<1> QED
  BY <1>5, <1>6, <1>7, <1>8, <1>9 DEF SameCommands

LEMMA DaemonTypes ==
  ASSUME Types, NEW b \in Boards,
         Accept(b) \/ Receive(b) \/ ReceiveTimesOut(b) \/ Says(b) \/ Finish(b) \/ Crash(b)
  PROVE  Types'
<1>1. CASE Accept(b)
  <2>1. Head(queue[b]) \in Masters /\ Tail(queue[b]) \in Seq(Masters)
    BY <1>1 DEF Types, Accept
  <2>2. conn' \in [Masters -> [Boards -> Connections]]
    <3> DEFINE m == Head(queue[b])
    <3>1. [conn[m][b] EXCEPT !.at = "served"] \in Connections
      BY <2>1, SetAt, ElementType
    <3>2. [conn[m] EXCEPT ![b].at = "served"] \in [Boards -> Connections]
      BY <2>1, <3>1 DEF Types
    <3> QED
      BY <1>1, <2>1, <3>2 DEF Types, Accept
  <2> QED
    BY <1>1, <2>1, <2>2 DEF Types, Accept
<1>2. CASE Receive(b)
  <2>1. serves[b] \in Masters
    BY <1>2 DEF Types, Receive
  <2>2. CASE Closes(b) /\ UNCHANGED executed
    BY <1>2, <2>2, ClosesTypes DEF Types, Receive
  <2>3. CASE ~(Closes(b) /\ UNCHANGED executed)
    <3>1. [by |-> serves[b], msg |-> conn[serves[b]][b].msg, said |-> << >>, done |-> FALSE] \in Commands
      BY <2>1 DEF Types, Connections, Commands
    <3> DEFINE c == [by |-> serves[b], msg |-> conn[serves[b]][b].msg, said |-> << >>, done |-> FALSE]
    <3>2. Append(executed[b], c) \in Seq(Commands)
      BY <3>1 DEF Types
    <3>3. executed' = [executed EXCEPT ![b] = Append(@, c)]
      BY <1>2, <2>3 DEF Receive
    <3>4. executed' \in [Boards -> Seq(Commands)]
      BY <3>2, <3>3 DEF Types
    <3> HIDE DEF c
    <3>5. Append(executed[b], c) # << >>
      <4>1. executed[b] \in Seq(Commands)
        BY DEF Types
      <4>2. Len(Append(executed[b], c)) = Len(executed[b]) + 1 /\ Len(executed[b]) \in Nat
        BY <4>1
      <4> QED
        BY <4>2
    <3>6. \A d \in Boards : daemon'[d] = "executing" => executed'[d] # << >>
      BY <1>2, <2>3, <3>3, <3>5 DEF Types, Receive
    <3> QED
      BY <1>2, <2>1, <2>3, <3>4, <3>6 DEF Types, Receive
  <2> QED
    BY <2>2, <2>3
<1>3. CASE ReceiveTimesOut(b)
  BY <1>3, ClosesTypes, MasterAssumption DEF Types, ReceiveTimesOut
<1>4. CASE Says(b)
  <2> DEFINE last == Len(executed[b])
             piece == <<b, Len(executed[b][last].said) + 1>>
             m == serves[b]
  <2>1. m \in Masters
    BY <1>4 DEF Types, Says
  <2>2. piece \in Pieces
    <3>1. executed[b][last] \in Commands
      <4>1. executed[b] \in Seq(Commands) /\ executed[b] # << >>
        BY <1>4 DEF Types, Says
      <4> QED
        BY <4>1
    <3>2. executed[b][last].said \in Seq(Pieces)
      BY <3>1 DEF Commands
    <3> QED
      BY <3>2 DEF Pieces
  <2>3. /\ executed' \in [Boards -> Seq(Commands)]
        /\ \A c \in Boards : executed'[c] # << >> <=> executed[c] # << >>
    BY <1>4, SaysHistory
  <2>4. CASE Dies(b)
    <3>1. UNCHANGED <<masterVars, faults>>
      BY <1>4 DEF Says
    <3>2. \A c \in Boards : daemon'[c] = "executing" => executed'[c] # << >>
      BY <2>3, <2>4, DiesTypes DEF Types
    <3> QED
      BY <2>3, <2>4, <3>1, <3>2, DiesTypes DEF Types
  <2>5. CASE ~Dies(b) /\ pc[m] = "ended"
    <3>1. [conn[m] EXCEPT ![b].broken = TRUE] \in [Boards -> Connections]
      BY <2>1, SetBroken, ElementType DEF Types
    <3>2. conn' = [conn EXCEPT ![m][b].broken = TRUE]
      BY <1>4, <2>5 DEF Says
    <3>3. conn' \in [Masters -> [Boards -> Connections]]
      BY <2>1, <3>1, <3>2 DEF Types
    <3> QED
      BY <1>4, <2>3, <2>5, <3>3 DEF Types, Says
  <2>6. CASE ~Dies(b) /\ pc[m] # "ended"
    <3>1. conn' = [conn EXCEPT ![m][b].pieces = Append(@, piece)]
      BY <1>4, <2>6 DEF Says
    <3> DEFINE p == Append(conn[m][b].pieces, piece)
    <3>2. conn[m][b].pieces \in Seq(Pieces)
      BY <2>1, ElementType DEF Connections
    <3>3. p \in Seq(Pieces)
      BY <2>2, <3>2
    <3>4. [conn[m][b] EXCEPT !.pieces = p] \in Connections
      BY <2>1, <3>3, SetPieces, ElementType
    <3>5. [conn[m] EXCEPT ![b].pieces = p] \in [Boards -> Connections]
      BY <2>1, <3>4 DEF Types
    <3>6. conn' \in [Masters -> [Boards -> Connections]]
      BY <2>1, <3>1, <3>5 DEF Types
    <3> QED
      BY <1>4, <2>3, <2>6, <3>6 DEF Types, Says
  <2> QED
    BY <2>4, <2>5, <2>6
<1>5. CASE Finish(b)
  <2>1. /\ executed' \in [Boards -> Seq(Commands)]
        /\ \A c \in Boards : executed'[c] # << >> <=> executed[c] # << >>
    BY <1>5, FinishHistory
  <2> QED
    BY <1>5, <2>1, ClosesTypes DEF Types, Finish
<1>6. CASE Crash(b)
  BY <1>6, DiesTypes, MasterAssumption DEF Types, Crash
<1> QED
  BY <1>1, <1>2, <1>3, <1>4, <1>5, <1>6

LEMMA TypesStep == ASSUME Types, [Next]_vars PROVE Types'
<1>1. CASE UNCHANGED vars
  BY <1>1 DEF Types, vars
<1>2. CASE Next
  BY <1>2, MasterTypes, DaemonTypes DEF Next
<1> QED
  BY <1>1, <1>2

-----------------------------------------------------------------------------
(* What the steps do to where connections are and to what was sent.        *)

KeepsAt == \A n \in Masters, c \in Boards : conn'[n][c].at = conn[n][c].at
KeepsMsg == \A n \in Masters, c \in Boards : conn'[n][c].msg = conn[n][c].msg
MovesAt(m, b, a) ==
  \A n \in Masters, c \in Boards :
    conn'[n][c].at = IF n = m /\ c = b THEN a ELSE conn[n][c].at

(* Steps of a master that connect and send nothing. *)
Local(m) == Start(m) \/ Connected(m) \/ Sent(m) \/ listenForReply(m) \/ Replied(m) \/ Interrupt(m)

LEMMA EndsKeeps == ASSUME Types, NEW m \in Masters, Ends(m) PROVE KeepsAt /\ KeepsMsg
<1>1. \A b \in Boards : conn[m][b] \in Connections
  BY DEF Types
<1>2. \A b \in Boards : /\ conn'[m][b].at = conn[m][b].at
                        /\ conn'[m][b].msg = conn[m][b].msg
  BY <1>1 DEF Types, Ends, Connections
<1>3. \A n \in Masters : n # m => conn'[n] = conn[n]
  BY DEF Types, Ends
<1> QED
  BY <1>2, <1>3 DEF KeepsAt, KeepsMsg

LEMMA LocalKeeps ==
  ASSUME Types, NEW m \in Masters, Local(m) PROVE KeepsAt /\ KeepsMsg /\ UNCHANGED daemonVars
<1>1. CASE Start(m) \/ Sent(m)
  BY <1>1 DEF Start, Sent, KeepsAt, KeepsMsg
<1>2. CASE Connected(m)
  BY <1>2, EndsKeeps DEF Connected, KeepsAt, KeepsMsg
<1>3. CASE listenForReply(m)
  <2>1. \A b \in Boards : conn[m][b] \in Connections
    BY DEF Types
  <2>2. \A b \in Boards : /\ conn'[m][b].at = conn[m][b].at
                          /\ conn'[m][b].msg = conn[m][b].msg
    BY <1>3, <2>1 DEF Types, listenForReply, Connections
  <2>3. \A n \in Masters : n # m => conn'[n] = conn[n]
    BY <1>3 DEF Types, listenForReply
  <2> QED
    BY <1>3, <2>2, <2>3 DEF KeepsAt, KeepsMsg, listenForReply
<1>4. CASE Replied(m) \/ Interrupt(m)
  BY <1>4, EndsKeeps DEF Replied, Interrupt
<1> QED
  BY <1>1, <1>2, <1>3, <1>4 DEF Local

LEMMA SendKeeps ==
  ASSUME Types, NEW m \in Masters, sendMessage(m)
  PROVE  /\ KeepsAt /\ UNCHANGED daemonVars
         /\ \A n \in Masters, c \in Boards :
              conn'[n][c].msg # conn[n][c].msg => n = m /\ conn'[n][c].msg # << >>
<1>1. PICK b \in Boards : conn' = [conn EXCEPT ![m][b].msg = MessageTo(m, b)]
  BY DEF sendMessage
<1>2. MessageTo(m, b) # << >>
  BY MessageToType
<1>3. conn[m][b] \in Connections
  BY DEF Types
<1> HIDE DEF MessageTo
<1>4. conn'[m][b].msg = MessageTo(m, b) /\ conn'[m][b].at = conn[m][b].at
  BY <1>1, <1>3 DEF Types, Connections
<1>5. \A n \in Masters, c \in Boards : n # m \/ c # b => conn'[n][c] = conn[n][c]
  BY <1>1 DEF Types
<1> QED
  BY <1>2, <1>4, <1>5 DEF KeepsAt, sendMessage

(* A connection moves. *)
LEMMA Moves ==
  ASSUME Types, NEW m \in Masters, NEW b \in Boards,
         NEW a \in {"queued", "served", "closed"},
         conn' = [conn EXCEPT ![m][b].at = a]
  PROVE  MovesAt(m, b, a) /\ KeepsMsg
<1>1. conn[m][b] \in Connections
  BY DEF Types
<1>2. conn'[m][b].at = a /\ conn'[m][b].msg = conn[m][b].msg
  BY <1>1 DEF Types, Connections
<1>3. \A n \in Masters, c \in Boards : n # m \/ c # b => conn'[n][c] = conn[n][c]
  BY DEF Types
<1> QED
  BY <1>2, <1>3 DEF MovesAt, KeepsMsg

(* What is left of a board that dies. *)
Loses(b) ==
  /\ daemon' = [daemon EXCEPT ![b] = "down"]
  /\ serves' = [serves EXCEPT ![b] = Nobody]
  /\ queue' = [queue EXCEPT ![b] = << >>]
  /\ \A n \in Masters, c \in Boards :
       conn'[n][c].at = IF c = b /\ conn[n][c].at \in {"queued", "served"}
                        THEN "closed" ELSE conn[n][c].at
  /\ KeepsMsg

LEMMA DiesLoses == ASSUME Types, NEW b \in Boards, Dies(b) PROVE Loses(b)
<1>1. ASSUME NEW n \in Masters
      PROVE  /\ conn'[n][b].at = IF conn[n][b].at \in {"queued", "served"} THEN "closed"
                                 ELSE conn[n][b].at
             /\ conn'[n][b].msg = conn[n][b].msg
             /\ \A c \in Boards : c # b => conn'[n][c] = conn[n][c]
  <2> DEFINE a == IF conn[n][b].at \in {"queued", "served"} THEN "closed" ELSE conn[n][b].at
  <2>1. conn'[n] = [conn[n] EXCEPT ![b] = [@ EXCEPT !.at = a]]
    BY DEF Dies
  <2>2. conn[n] \in [Boards -> Connections] /\ conn[n][b] \in Connections
    BY DEF Types
  <2>3. conn'[n][b] = [conn[n][b] EXCEPT !.at = a]
    BY <2>1, <2>2
  <2>4. conn'[n][b].msg = conn[n][b].msg /\ conn'[n][b].at = a
    BY <2>2, <2>3 DEF Connections
  <2>5. \A c \in Boards : c # b => conn'[n][c] = conn[n][c]
    BY <2>1, <2>2
  <2> QED
    BY <2>4, <2>5
<1> QED
  BY <1>1 DEF Loses, Dies, KeepsMsg

(* The steps of a daemon, by their effect on its connections. *)
Serves(b) ==
  /\ queue[b] # << >> /\ daemon[b] = "idle"
  /\ daemon' = [daemon EXCEPT ![b] = "serving"]
  /\ serves' = [serves EXCEPT ![b] = Head(queue[b])]
  /\ queue' = [queue EXCEPT ![b] = Tail(@)]
  /\ MovesAt(Head(queue[b]), b, "served") /\ KeepsMsg /\ UNCHANGED executed

IsGiven(b) ==
  /\ serves[b] \in Masters /\ daemon[b] = "serving" /\ conn[serves[b]][b].msg # << >>
  /\ daemon' = [daemon EXCEPT ![b] = "executing"]
  /\ \E c \in Commands :
       c.by = serves[b] /\ executed' = [executed EXCEPT ![b] = Append(@, c)]
  /\ UNCHANGED <<conn, queue, serves>>

Leaves(b) ==
  /\ serves[b] \in Masters
  /\ daemon' = [daemon EXCEPT ![b] = "idle"]
  /\ serves' = [serves EXCEPT ![b] = Nobody]
  /\ MovesAt(serves[b], b, "closed") /\ KeepsMsg /\ SameCommands /\ UNCHANGED queue

Talks == KeepsAt /\ KeepsMsg /\ SameCommands /\ UNCHANGED <<daemon, queue, serves>>

LEMMA Effects ==
  ASSUME Types, NEW b \in Boards,
         Accept(b) \/ Receive(b) \/ ReceiveTimesOut(b) \/ Says(b) \/ Finish(b) \/ Crash(b)
  PROVE  /\ UNCHANGED masterVars
         /\ Serves(b) \/ IsGiven(b) \/ Leaves(b) \/ Talks \/ (Loses(b) /\ SameCommands)
<1>1. CASE Accept(b)
  <2>1. Head(queue[b]) \in Masters
    BY <1>1 DEF Types, Accept
  <2>2. MovesAt(Head(queue[b]), b, "served") /\ KeepsMsg
    BY <1>1, <2>1, Moves DEF Accept
  <2> QED
    BY <1>1, <2>2 DEF Accept, Serves
<1>2. CASE Receive(b)
  <2>1. serves[b] \in Masters
    BY <1>2 DEF Types, Receive
  <2>2. CASE Closes(b) /\ UNCHANGED executed
    <3>1. MovesAt(serves[b], b, "closed") /\ KeepsMsg
      BY <2>1, <2>2, Moves DEF Closes
    <3> QED
      BY <1>2, <2>1, <2>2, <3>1 DEF Receive, Closes, Leaves, SameCommands
  <2>3. CASE ~(Closes(b) /\ UNCHANGED executed)
    <3> DEFINE c == [by |-> serves[b], msg |-> conn[serves[b]][b].msg, said |-> << >>, done |-> FALSE]
    <3>1. c \in Commands
      BY <2>1 DEF Types, Connections, Commands
    <3>2. c.by = serves[b]
      OBVIOUS
    <3>3. executed' = [executed EXCEPT ![b] = Append(@, c)]
      BY <1>2, <2>3 DEF Receive
    <3> HIDE DEF c
    <3> QED
      BY <1>2, <2>1, <2>3, <3>1, <3>2, <3>3 DEF Receive, IsGiven
  <2> QED
    BY <2>2, <2>3
<1>3. CASE ReceiveTimesOut(b)
  <2>1. serves[b] \in Masters
    BY <1>3 DEF Types, ReceiveTimesOut
  <2>2. MovesAt(serves[b], b, "closed") /\ KeepsMsg
    BY <1>3, <2>1, Moves DEF Closes, ReceiveTimesOut
  <2> QED
    BY <1>3, <2>1, <2>2 DEF ReceiveTimesOut, Closes, Leaves, SameCommands
<1>4. CASE Says(b)
  <2>1. SameCommands /\ UNCHANGED masterVars
    BY <1>4, SaysHistory DEF Says
  <2>2. CASE Dies(b)
    BY <2>1, <2>2, DiesLoses
  <2>3. CASE ~Dies(b)
    <3> DEFINE m == serves[b]
               piece == <<b, Len(executed[b][Len(executed[b])].said) + 1>>
    <3>1. m \in Masters
      BY <1>4 DEF Types, Says
    <3>2. conn[m][b] \in Connections
      BY <3>1 DEF Types
    <3>3. \/ conn' = [conn EXCEPT ![m][b].broken = TRUE]
          \/ conn' = [conn EXCEPT ![m][b].pieces = Append(@, piece)]
      BY <1>4, <2>3 DEF Says
    <3> HIDE DEF m, piece
    <3>4. conn'[m][b].at = conn[m][b].at /\ conn'[m][b].msg = conn[m][b].msg
      <4>1. CASE conn' = [conn EXCEPT ![m][b].broken = TRUE]
        BY <3>1, <3>2, <4>1 DEF Types, Connections
      <4>2. CASE conn' = [conn EXCEPT ![m][b].pieces = Append(@, piece)]
        BY <3>1, <3>2, <4>2 DEF Types, Connections
      <4> QED
        BY <3>3, <4>1, <4>2
    <3>5. \A n \in Masters, c \in Boards : n # m \/ c # b => conn'[n][c] = conn[n][c]
      BY <3>1, <3>3 DEF Types
    <3> QED
      BY <1>4, <2>1, <2>3, <3>4, <3>5 DEF Says, Talks, KeepsAt, KeepsMsg
  <2> QED
    BY <2>2, <2>3
<1>5. CASE Finish(b)
  <2>1. serves[b] \in Masters
    BY <1>5 DEF Types, Finish
  <2>2. MovesAt(serves[b], b, "closed") /\ KeepsMsg
    BY <1>5, <2>1, Moves DEF Closes, Finish
  <2> QED
    BY <1>5, <2>1, <2>2, FinishHistory DEF Finish, Closes, Leaves
<1>6. CASE Crash(b)
  BY <1>6, DiesLoses DEF Crash, SameCommands
<1> QED
  BY <1>1, <1>2, <1>3, <1>4, <1>5, <1>6

LEMMA MasterCases ==
  ASSUME Types, NEW m \in Masters, MasterStep(m) \/ Interrupt(m)
  PROVE  \/ Local(m) /\ KeepsAt /\ KeepsMsg /\ UNCHANGED daemonVars
         \/ connectSocket(m)
         \/ sendMessage(m) /\ KeepsAt /\ UNCHANGED daemonVars
BY LocalKeeps, SendKeeps DEF MasterStep, Local

LEMMA ConnectCases ==
  ASSUME Types, NEW m \in Masters, connectSocket(m)
  PROVE  /\ pc[m] = "connecting" /\ KeepsMsg
         /\ UNCHANGED <<request, pc, lock, daemon, serves, executed>>
         /\ \E b \in todo[m] :
              /\ b \in Boards /\ todo' = [todo EXCEPT ![m] = @ \ {b}]
              /\ \/ KeepsAt /\ UNCHANGED queue
                 \/ MovesAt(m, b, "queued") /\ queue' = [queue EXCEPT ![b] = Append(@, m)]
<1>1. PICK b \in Boards :
        /\ b \in todo[m] /\ todo' = [todo EXCEPT ![m] = @ \ {b}]
        /\ \/ UNCHANGED <<conn, queue>>
           \/ /\ conn' = [conn EXCEPT ![m][b].at = "queued"]
              /\ queue' = [queue EXCEPT ![b] = Append(@, m)]
  BY DEF connectSocket, FirstToDo
<1>2. CASE UNCHANGED <<conn, queue>>
  BY <1>1, <1>2 DEF connectSocket, KeepsAt, KeepsMsg
<1>3. CASE ~UNCHANGED <<conn, queue>>
  <2>1. MovesAt(m, b, "queued") /\ KeepsMsg
    BY <1>1, <1>3, Moves
  <2> QED
    BY <1>1, <1>3, <2>1 DEF connectSocket
<1> QED
  BY <1>2, <1>3

-----------------------------------------------------------------------------
(* The lock, and who has connected to whom                                 *)

LEMMA LockedStep == ASSUME Types, Locked, [Next]_vars PROVE Locked'
<1>1. CASE UNCHANGED vars
  BY <1>1 DEF Locked, vars
<1>2. ASSUME NEW m \in Masters, MasterStep(m) \/ Interrupt(m) PROVE Locked'
  <2> USE MasterAssumption DEF Types, Locked, Running
  <2>1. CASE Start(m)
    BY <2>1 DEF Start
  <2>2. CASE connectSocket(m) \/ listenForReply(m) \/ sendMessage(m) \/ Sent(m)
    BY <2>2 DEF connectSocket, listenForReply, sendMessage, Sent
  <2>3. CASE Connected(m)
    BY <2>3 DEF Connected, Ends
  <2>4. CASE Replied(m) \/ Interrupt(m)
    <3>1. pc[m] \in Running /\ pc' = [pc EXCEPT ![m] = "ended"] /\ lock' = Nobody
      BY <2>4 DEF Replied, Interrupt, Ends
    <3>2. lock = m
      BY <3>1
    <3> QED
      BY <3>1, <3>2
  <2> QED
    BY <1>2, <2>1, <2>2, <2>3, <2>4 DEF MasterStep
<1>3. ASSUME NEW b \in Boards,
             Accept(b) \/ Receive(b) \/ ReceiveTimesOut(b) \/ Says(b) \/ Finish(b) \/ Crash(b)
      PROVE  Locked'
  BY <1>3, Effects DEF Locked
<1> QED
  BY <1>1, <1>2, <1>3 DEF Next

LEMMA FreshStep == ASSUME Connecting, [Next]_vars PROVE Fresh'
<1> USE DEF Connecting
<1>1. CASE UNCHANGED vars
  BY <1>1 DEF Fresh, vars
<1>2. ASSUME NEW m \in Masters, MasterStep(m) \/ Interrupt(m) PROVE Fresh'
  <2>1. CASE Local(m) /\ KeepsAt /\ KeepsMsg /\ UNCHANGED daemonVars
    <3>1. \A n \in Masters : n # m => pc'[n] = pc[n] /\ todo'[n] = todo[n]
      BY <2>1 DEF Types, Local, Start, Connected, Sent, listenForReply, Replied, Interrupt, Ends
    <3>2. pc'[m] \in {"started", "connecting"} => pc[m] = "started"
      BY <2>1 DEF Types, Local, Start, Connected, Sent, listenForReply, Replied, Interrupt, Ends, Running
    <3> QED
      BY <2>1, <3>1, <3>2 DEF Fresh, KeepsAt
  <2>2. CASE connectSocket(m)
    <3>1. PICK b \in todo[m] :
            /\ b \in Boards /\ todo' = [todo EXCEPT ![m] = @ \ {b}]
            /\ \/ KeepsAt /\ UNCHANGED queue
               \/ MovesAt(m, b, "queued") /\ queue' = [queue EXCEPT ![b] = Append(@, m)]
      BY <2>2, ConnectCases
    <3>2. UNCHANGED pc /\ pc[m] = "connecting"
      BY <2>2, ConnectCases
    <3> QED
      <4>1. ASSUME NEW n \in Masters, NEW c \in Boards,
                   pc'[n] = "started" \/ (pc'[n] = "connecting" /\ c \in todo'[n])
            PROVE  conn'[n][c].at = "none"
        <5>1. n = m => c # b
          BY <3>1, <3>2, <4>1 DEF Types
        <5>2. pc[n] = "started" \/ (pc[n] = "connecting" /\ c \in todo[n])
          BY <3>1, <3>2, <4>1 DEF Types
        <5>3. conn'[n][c].at = conn[n][c].at
          BY <3>1, <5>1 DEF KeepsAt, MovesAt
        <5> QED
          BY <5>2, <5>3 DEF Fresh
      <4> QED
        BY <4>1 DEF Fresh
  <2>3. CASE sendMessage(m) /\ KeepsAt /\ UNCHANGED daemonVars
    BY <2>3 DEF Types, Fresh, KeepsAt, sendMessage
  <2> QED
    BY <1>2, <2>1, <2>2, <2>3, MasterCases
<1>3. ASSUME NEW b \in Boards,
             Accept(b) \/ Receive(b) \/ ReceiveTimesOut(b) \/ Says(b) \/ Finish(b) \/ Crash(b)
      PROVE  Fresh'
  <2>1. UNCHANGED <<pc, todo>>
    BY <1>3, Effects
  <2>2. \A n \in Masters, c \in Boards : conn[n][c].at = "none" => conn'[n][c].at = "none"
    <3>1. CASE Serves(b)
      <4>1. Head(queue[b]) \in Masters /\ InQueue(b, Head(queue[b]))
        <5>1. queue[b] \in Seq(Masters) /\ queue[b] # << >>
          BY <3>1 DEF Types, Serves
        <5>2. 1 \in DOMAIN queue[b] /\ Head(queue[b]) = queue[b][1]
          BY <5>1
        <5> QED
          BY <5>1, <5>2 DEF InQueue
      <4> QED
        BY <3>1, <4>1 DEF Serves, Queues, MovesAt
    <3>2. CASE IsGiven(b)
      BY <3>2 DEF IsGiven
    <3>3. CASE Leaves(b)
      BY <3>3 DEF Leaves, Queues, MovesAt
    <3>4. CASE Talks
      BY <3>4 DEF Talks, KeepsAt
    <3>5. CASE Loses(b)
      BY <3>5 DEF Loses
    <3> QED
      BY <1>3, <3>1, <3>2, <3>3, <3>4, <3>5, Effects
  <2> QED
    BY <2>1, <2>2 DEF Fresh
<1> QED
  BY <1>1, <1>2, <1>3 DEF Next

(* Of a queue that gets longer, or shorter, by one. *)
LEMMA Appended ==
  ASSUME NEW S, NEW s \in Seq(S), NEW m \in S
  PROVE  /\ DOMAIN Append(s, m) = DOMAIN s \cup {Len(s) + 1}
         /\ \A k \in DOMAIN s : Append(s, m)[k] = s[k] /\ k < Len(s) + 1
         /\ Append(s, m)[Len(s) + 1] = m
OBVIOUS

LEMMA Shortened ==
  ASSUME NEW S, NEW s \in Seq(S), s # << >>
  PROVE  /\ 1 \in DOMAIN s /\ Head(s) = s[1]
         /\ \A k \in DOMAIN Tail(s) : k \in Int /\ k + 1 \in DOMAIN s /\ k + 1 # 1 /\ Tail(s)[k] = s[k + 1]
         /\ \A k \in DOMAIN s : k # 1 => k \in Int /\ k - 1 \in DOMAIN Tail(s) /\ Tail(s)[k - 1] = s[k]
OBVIOUS

QueuesAt(b) ==
  /\ \A m \in Masters : (conn[m][b].at = "served") <=> (serves[b] = m)
  /\ \A m \in Masters : (conn[m][b].at = "queued") <=> InQueue(b, m)
  /\ \A i, j \in DOMAIN queue[b] : queue[b][i] = queue[b][j] => i = j

LEMMA QueuesSame ==
  ASSUME Queues, KeepsAt, UNCHANGED <<queue, serves>> PROVE Queues'
BY DEF Queues, KeepsAt, InQueue

LEMMA OthersSame ==
  ASSUME Queues, NEW c \in Boards,
         \A n \in Masters : conn'[n][c].at = conn[n][c].at,
         queue'[c] = queue[c], serves'[c] = serves[c]
  PROVE  QueuesAt(c)'
BY DEF Queues, QueuesAt, InQueue

LEMMA QueuesStep == ASSUME Connecting, [Next]_vars PROVE Queues'
<1> USE DEF Connecting
<1>1. CASE UNCHANGED vars
  BY <1>1 DEF Queues, InQueue, vars
<1>2. ASSUME NEW m \in Masters, MasterStep(m) \/ Interrupt(m) PROVE Queues'
  <2>1. CASE KeepsAt /\ UNCHANGED daemonVars
    BY <2>1, QueuesSame
  <2>2. CASE connectSocket(m)
    <3>1. PICK b \in todo[m] :
            /\ b \in Boards /\ todo' = [todo EXCEPT ![m] = @ \ {b}]
            /\ \/ KeepsAt /\ UNCHANGED queue
               \/ MovesAt(m, b, "queued") /\ queue' = [queue EXCEPT ![b] = Append(@, m)]
      BY <2>2, ConnectCases
    <3>2. UNCHANGED serves /\ pc[m] = "connecting"
      BY <2>2, ConnectCases
    <3>3. CASE KeepsAt /\ UNCHANGED queue
      BY <3>2, <3>3, QueuesSame
    <3>4. CASE MovesAt(m, b, "queued") /\ queue' = [queue EXCEPT ![b] = Append(@, m)]
      <4>1. conn[m][b].at = "none"
        BY <3>1, <3>2 DEF Fresh
      <4>2. /\ queue'[b] = Append(queue[b], m)
            /\ queue[b] \in Seq(Masters)
        BY <3>1, <3>4 DEF Types
      <4>3. /\ DOMAIN queue'[b] = DOMAIN queue[b] \cup {Len(queue[b]) + 1}
            /\ \A k \in DOMAIN queue[b] : queue'[b][k] = queue[b][k] /\ k < Len(queue[b]) + 1
            /\ queue'[b][Len(queue[b]) + 1] = m
        BY <4>2, Appended
      <4>4. ~InQueue(b, m)
        BY <3>1, <4>1 DEF Queues
      <4>5. \A n \in Masters : InQueue(b, n)' <=> (n = m \/ InQueue(b, n))
        BY <4>3 DEF InQueue
      <4>6. \A i, j \in DOMAIN queue'[b] : queue'[b][i] = queue'[b][j] => i = j
        BY <3>1, <4>3, <4>4 DEF InQueue, Queues
      <4>7. QueuesAt(b)'
        BY <3>1, <3>2, <3>4, <4>1, <4>5, <4>6 DEF MovesAt, Queues, QueuesAt
      <4>8. \A c \in Boards : c # b => QueuesAt(c)'
        BY <3>1, <3>2, <3>4, OthersSame DEF MovesAt, Types
      <4> QED
        BY <4>7, <4>8 DEF Queues, QueuesAt
    <3> QED
      BY <3>1, <3>3, <3>4
  <2> QED
    BY <1>2, <2>1, <2>2, MasterCases
<1>3. ASSUME NEW b \in Boards,
             Accept(b) \/ Receive(b) \/ ReceiveTimesOut(b) \/ Says(b) \/ Finish(b) \/ Crash(b)
      PROVE  Queues'
  <2>1. CASE Serves(b)
    <3> DEFINE m == Head(queue[b])
    <3>1. queue[b] \in Seq(Masters) /\ queue[b] # << >> /\ queue'[b] = Tail(queue[b])
      BY <2>1 DEF Types, Serves
    <3>2. /\ 1 \in DOMAIN queue[b] /\ m = queue[b][1]
          /\ \A k \in DOMAIN queue'[b] :
               k \in Int /\ k + 1 \in DOMAIN queue[b] /\ k + 1 # 1 /\ queue'[b][k] = queue[b][k + 1]
          /\ \A k \in DOMAIN queue[b] :
               k # 1 => k \in Int /\ k - 1 \in DOMAIN queue'[b] /\ queue'[b][k - 1] = queue[b][k]
      BY <3>1, Shortened
    <3> HIDE DEF m
    <3>3. m \in Masters
      BY <3>1, <3>2
    <3>4. \A n \in Masters : InQueue(b, n)' <=> (n # m /\ InQueue(b, n))
      BY <3>2 DEF Queues, InQueue
    <3>5. \A i, j \in DOMAIN queue'[b] : queue'[b][i] = queue'[b][j] => i = j
      BY <3>2 DEF Queues
    <3>6. conn[m][b].at = "queued"
      BY <3>2, <3>3 DEF Queues, InQueue
    <3>7. serves[b] \notin Masters /\ serves'[b] = m
      BY <2>1 DEF Types, Serves, m
    <3>8. \A n \in Masters, c \in Boards :
            conn'[n][c].at = IF n = m /\ c = b THEN "served" ELSE conn[n][c].at
      BY <2>1 DEF Serves, MovesAt, m
    <3>9. QueuesAt(b)'
      BY <3>3, <3>4, <3>5, <3>6, <3>7, <3>8 DEF Queues, QueuesAt
    <3>10. \A c \in Boards : c # b => QueuesAt(c)'
      BY <2>1, <3>8, OthersSame DEF Serves, Types
    <3> QED
      BY <3>9, <3>10 DEF Queues, QueuesAt
  <2>2. CASE IsGiven(b)
    BY <2>2 DEF IsGiven, Queues, InQueue
  <2>3. CASE Leaves(b)
    <3> DEFINE m == serves[b]
    <3>1. QueuesAt(b)'
      <4>1. m \in Masters /\ UNCHANGED queue /\ serves'[b] = Nobody
        BY <2>3 DEF Leaves, Types
      <4>2. conn[m][b].at = "served"
        BY <4>1 DEF Queues
      <4>3. \A n \in Masters : conn'[n][b].at = IF n = m THEN "closed" ELSE conn[n][b].at
        BY <2>3 DEF Leaves, MovesAt
      <4>4. \A n \in Masters : (conn'[n][b].at = "served") <=> (serves'[b] = n)
        BY <4>1, <4>3, MasterAssumption DEF Queues
      <4>5. \A n \in Masters : (conn'[n][b].at = "queued") <=> InQueue(b, n)'
        BY <4>1, <4>2, <4>3 DEF Queues, InQueue
      <4>6. \A i, j \in DOMAIN queue'[b] : queue'[b][i] = queue'[b][j] => i = j
        BY <4>1 DEF Queues
      <4> QED
        BY <4>4, <4>5, <4>6 DEF QueuesAt
    <3>2. \A c \in Boards : c # b => QueuesAt(c)'
      BY <2>3, OthersSame DEF Leaves, MovesAt, Types
    <3> QED
      BY <3>1, <3>2 DEF Queues, QueuesAt
  <2>4. CASE Talks
    BY <2>4, QueuesSame DEF Talks
  <2>5. CASE Loses(b)
    <3>1. QueuesAt(b)'
      <4>1. queue'[b] = << >> /\ serves'[b] = Nobody
        BY <2>5 DEF Loses, Types
      <4>2. \A n \in Masters : conn'[n][b].at \notin {"queued", "served"}
        BY <2>5 DEF Loses
      <4> QED
        BY <4>1, <4>2, MasterAssumption DEF QueuesAt, InQueue
    <3>2. \A c \in Boards : c # b => QueuesAt(c)'
      BY <2>5, OthersSame DEF Loses, Types
    <3> QED
      BY <3>1, <3>2 DEF Queues, QueuesAt
  <2> QED
    BY <1>3, <2>1, <2>2, <2>3, <2>4, <2>5, Effects
<1> QED
  BY <1>1, <1>2, <1>3 DEF Next

-----------------------------------------------------------------------------
(* What daemons have been given                                            *)

LEMMA ByType ==
  ASSUME Types, NEW b \in Boards, NEW k \in DOMAIN executed[b] PROVE executed[b][k].by \in Masters
<1>1. executed[b] \in Seq(Commands)
  BY DEF Types
<1>2. executed[b][k] \in Commands
  BY <1>1
<1> QED
  BY <1>2 DEF Commands

LEMMA ReceivedStep == ASSUME Connecting, Received, [Next]_vars PROVE Received'
<1> USE DEF Connecting
<1>1. CASE UNCHANGED vars
  BY <1>1 DEF Received, vars
<1>2. ASSUME NEW m \in Masters, MasterStep(m) \/ Interrupt(m) PROVE Received'
  <2>1. UNCHANGED <<executed, serves, daemon>>
    BY <1>2, MasterCases, ConnectCases
  <2>2. \A n \in Masters, c \in Boards :
          /\ conn[n][c].at \in {"served", "closed"} => conn'[n][c].at = conn[n][c].at
          /\ conn[n][c].msg # << >> => conn'[n][c].msg # << >>
    <3>1. CASE KeepsAt /\ KeepsMsg
      BY <3>1 DEF KeepsAt, KeepsMsg
    <3>2. CASE connectSocket(m)
      BY <3>2, ConnectCases DEF Fresh, MovesAt, KeepsAt, KeepsMsg
    <3>3. CASE sendMessage(m)
      BY <3>3, SendKeeps DEF KeepsAt
    <3> QED
      BY <1>2, <3>1, <3>2, <3>3, MasterCases
  <2>3. \A c \in Boards : \A k \in DOMAIN executed[c] : executed[c][k].by \in Masters
    BY ByType
  <2> QED
    BY <2>1, <2>2, <2>3 DEF Received
<1>3. ASSUME NEW b \in Boards,
             Accept(b) \/ Receive(b) \/ ReceiveTimesOut(b) \/ Says(b) \/ Finish(b) \/ Crash(b)
      PROVE  Received'
  <2>0. \A c \in Boards : \A k \in DOMAIN executed[c] : executed[c][k].by \in Masters
    BY ByType
  <2>1. CASE Serves(b)
    <3>1. Head(queue[b]) \in Masters /\ InQueue(b, Head(queue[b]))
      <4>1. queue[b] \in Seq(Masters) /\ queue[b] # << >>
        BY <2>1 DEF Types, Serves
      <4> QED
        BY <4>1, Shortened DEF InQueue
    <3>2. conn[Head(queue[b])][b].at = "queued"
      BY <3>1 DEF Queues
    <3>3. serves' = [serves EXCEPT ![b] = Head(queue[b])] /\ daemon' = [daemon EXCEPT ![b] = "serving"]
      BY <2>1 DEF Serves
    <3>4. MovesAt(Head(queue[b]), b, "served") /\ KeepsMsg /\ UNCHANGED executed
      BY <2>1 DEF Serves
    <3>5. serves[b] \notin Masters
      BY <2>1 DEF Serves, Types
    <3>6. ASSUME NEW c \in Boards, NEW k \in DOMAIN executed[c]
          PROVE  LET m == executed[c][k].by IN
                   /\ conn'[m][c].at \in {"served", "closed"}
                   /\ serves'[c] = m => daemon'[c] = "executing"
                   /\ conn'[m][c].msg # << >>
      <4> DEFINE m == executed[c][k].by
      <4>1. /\ m \in Masters /\ conn[m][c].at \in {"served", "closed"}
            /\ serves[c] = m => daemon[c] = "executing"
            /\ conn[m][c].msg # << >>
        BY <2>0 DEF Received
      <4> HIDE DEF m
      <4>2. c = b => m # Head(queue[b])
        BY <3>2, <4>1
      <4>3. conn'[m][c].at = conn[m][c].at /\ conn'[m][c].msg # << >>
        BY <3>4, <4>1, <4>2 DEF MovesAt, KeepsMsg
      <4>4. c # b => serves'[c] = serves[c] /\ daemon'[c] = daemon[c]
        BY <3>3 DEF Types
      <4>5. serves'[b] = Head(queue[b])
        BY <3>3 DEF Types
      <4>6. serves'[c] = m => daemon'[c] = "executing"
        BY <4>1, <4>2, <4>4, <4>5
      <4> QED
        BY <4>1, <4>3, <4>6 DEF m
    <3> QED
      BY <3>4, <3>6 DEF Received
  <2>2. CASE IsGiven(b)
    <3>1. PICK d \in Commands :
            d.by = serves[b] /\ executed' = [executed EXCEPT ![b] = Append(@, d)]
      BY <2>2 DEF IsGiven
    <3>2. executed[b] \in Seq(Commands) /\ executed'[b] = Append(executed[b], d)
      BY <3>1 DEF Types
    <3>3. /\ DOMAIN executed'[b] = DOMAIN executed[b] \cup {Len(executed[b]) + 1}
          /\ \A k \in DOMAIN executed[b] : executed'[b][k] = executed[b][k]
          /\ executed'[b][Len(executed[b]) + 1] = d
      BY <3>2, Appended
    <3>4. \A c \in Boards : c # b => executed'[c] = executed[c] /\ daemon'[c] = daemon[c]
      BY <2>2, <3>1 DEF Types, IsGiven
    <3>5. /\ daemon'[b] = "executing" /\ UNCHANGED <<conn, serves>> /\ serves[b] \in Masters
          /\ conn[serves[b]][b].msg # << >>
      BY <2>2 DEF Types, IsGiven
    <3>6. conn[serves[b]][b].at = "served"
      BY <3>5 DEF Queues
    <3>7. ASSUME NEW c \in Boards, NEW k \in DOMAIN executed'[c]
          PROVE  LET m == executed'[c][k].by IN
                   /\ conn'[m][c].at \in {"served", "closed"}
                   /\ serves'[c] = m => daemon'[c] = "executing"
                   /\ conn'[m][c].msg # << >>
      <4>1. CASE k \in DOMAIN executed[c]
        <5>1. executed'[c][k] = executed[c][k]
          BY <3>3, <3>4, <4>1
        <5>2. c = b => daemon'[c] = "executing"
          BY <3>5
        <5> QED
          BY <3>4, <3>5, <4>1, <5>1, <5>2 DEF Received
      <4>2. CASE k \notin DOMAIN executed[c]
        <5>1. c = b /\ executed'[c][k] = d
          BY <3>3, <3>4, <4>2
        <5> QED
          BY <3>1, <3>5, <3>6, <5>1
      <4> QED
        BY <4>1, <4>2
    <3> QED
      BY <3>7 DEF Received
  <2>3. CASE Leaves(b)
    <3>1. serves'[b] = Nobody /\ \A c \in Boards : c # b => serves'[c] = serves[c] /\ daemon'[c] = daemon[c]
      BY <2>3 DEF Leaves, Types
    <3>2. MovesAt(serves[b], b, "closed") /\ KeepsMsg /\ SameCommands
      BY <2>3 DEF Leaves
    <3> QED
      BY <2>0, <3>1, <3>2, MasterAssumption DEF Received, MovesAt, KeepsMsg, SameCommands
  <2>4. CASE Talks
    BY <2>0, <2>4 DEF Received, Talks, KeepsAt, KeepsMsg, SameCommands
  <2>5. CASE Loses(b) /\ SameCommands
    <3>1. serves'[b] = Nobody /\ \A c \in Boards : c # b => serves'[c] = serves[c] /\ daemon'[c] = daemon[c]
      BY <2>5 DEF Loses, Types
    <3> QED
      BY <2>0, <2>5, <3>1, MasterAssumption DEF Received, Loses, KeepsMsg, SameCommands
  <2> QED
    BY <1>3, <2>1, <2>2, <2>3, <2>4, <2>5, Effects
<1> QED
  BY <1>1, <1>2, <1>3 DEF Next

LEMMA OnceStep == ASSUME Types, Received, Once, [Next]_vars PROVE Once'
<1>1. CASE UNCHANGED executed \/ SameCommands
  BY <1>1 DEF Once, SameCommands
<1>2. ASSUME NEW b \in Boards, IsGiven(b) PROVE Once'
  <2>1. PICK d \in Commands :
          d.by = serves[b] /\ executed' = [executed EXCEPT ![b] = Append(@, d)]
    BY <1>2 DEF IsGiven
  <2>2. executed[b] \in Seq(Commands) /\ executed'[b] = Append(executed[b], d)
    BY <2>1 DEF Types
  <2>3. /\ DOMAIN executed'[b] = DOMAIN executed[b] \cup {Len(executed[b]) + 1}
        /\ \A k \in DOMAIN executed[b] : executed'[b][k] = executed[b][k]
        /\ executed'[b][Len(executed[b]) + 1] = d
    BY <2>2, Appended
  <2>4. \A k \in DOMAIN executed[b] : executed[b][k].by # serves[b]
    BY <1>2 DEF Received, IsGiven
  <2>5. \A c \in Boards : c # b => executed'[c] = executed[c]
    BY <2>1 DEF Types
  <2> QED
    BY <2>1, <2>3, <2>4, <2>5 DEF Once
<1>3. CASE UNCHANGED vars
  BY <1>1, <1>3 DEF vars
<1>4. CASE Next
  BY <1>1, <1>2, <1>4, MasterCases, ConnectCases, Effects DEF Next, Serves, Leaves, Talks
<1> QED
  BY <1>3, <1>4

LEMMA NothingSentStep == ASSUME Types, NothingSent, [Next]_vars PROVE NothingSent'
<1>1. CASE UNCHANGED vars
  BY <1>1 DEF NothingSent, NothingSentBy, vars, To
<1>2. ASSUME NEW m \in Masters, MasterStep(m) \/ Interrupt(m) PROVE NothingSent'
  <2>1. /\ UNCHANGED request
        /\ \A n \in Masters : n # m => /\ pc'[n] = pc[n] /\ resp'[n] = resp[n]
                                      /\ \A c \in Boards : conn'[n][c].msg = conn[n][c].msg
    <3>1. UNCHANGED request /\ \A n \in Masters : n # m => pc'[n] = pc[n] /\ resp'[n] = resp[n]
      BY <1>2 DEF MasterStep, Start, connectSocket, Connected, sendMessage, Sent, listenForReply,
                  Replied, Interrupt, Ends, Types
    <3>2. \A n \in Masters : n # m => \A c \in Boards : conn'[n][c].msg = conn[n][c].msg
      BY <1>2, MasterCases, ConnectCases, SendKeeps DEF KeepsMsg
    <3> QED
      BY <3>1, <3>2
  <2>2. (Local(m) \/ connectSocket(m)) => \A c \in Boards : conn'[m][c].msg = conn[m][c].msg
    BY LocalKeeps, ConnectCases DEF KeepsMsg
  <2>3. To(m)' = To(m) /\ To(m) \subseteq Boards
    BY <2>1, ToType DEF To
  <2> HIDE DEF To
  <2>4. NothingSentBy(m)
    BY DEF NothingSent, NothingSentBy
  <2>5. NothingSentBy(m)'
    <3>1. CASE Start(m)
      BY <2>2, <2>3, <2>4, <3>1 DEF Start, Types, NothingSentBy, Local
    <3>2. CASE connectSocket(m)
      BY <2>2, <2>3, <2>4, <3>2, ConnectCases DEF Types, NothingSentBy
    <3>3. CASE Connected(m)
      <4>1. pc[m] = "connecting" /\ UNCHANGED resp
        BY <3>3 DEF Connected
      <4>2. pc'[m] = "sending" => \A b \in To(m) : resp[m][b].sendStatus # 1
        BY <3>3 DEF Connected, Ends, Types
      <4>3. pc'[m] \in {"sending", "ended"}
        BY <3>3 DEF Connected, Ends, Types
      <4> QED
        BY <2>2, <2>3, <2>4, <3>3, <4>1, <4>2, <4>3 DEF NothingSentBy, Local
    <3>4. CASE sendMessage(m)
      <4>1. pc[m] = "sending" /\ pc'[m] = "sending"
        BY <3>4 DEF sendMessage
      <4>2. PICK b \in Boards : resp' = [resp EXCEPT ![m][b].sendStatus = 0]
        BY <3>4 DEF sendMessage
      <4>3. resp'[m][b].sendStatus = 0
        BY <4>2, ElementType DEF Types, Replies
      <4>4. \A c \in Boards : c # b => resp'[m][c] = resp[m][c]
        BY <4>2 DEF Types
      <4>5. \A c \in To(m) : resp'[m][c].sendStatus # 1
        BY <2>3, <2>4, <4>1, <4>3, <4>4 DEF NothingSentBy
      <4> QED
        BY <2>3, <4>1, <4>5 DEF NothingSentBy
    <3>5. CASE Sent(m)
      BY <2>2, <2>3, <2>4, <3>5 DEF Sent, Types, NothingSentBy, Local
    <3>6. CASE listenForReply(m)
      <4>1. pc[m] = "listening" /\ UNCHANGED pc
        BY <3>6 DEF listenForReply
      <4>2. \A c \in Boards : resp'[m][c].sendStatus = resp[m][c].sendStatus
        <5>1. PICK status : resp' = [resp EXCEPT ![m] = [b \in Boards |->
                     IF b \in Readable(m) THEN ReplyRead(m, b, status[b]) ELSE @[b]]]
          BY <3>6 DEF listenForReply
        <5>2. \A c \in Boards : ReplyRead(m, c, status[c]).sendStatus = resp[m][c].sendStatus
          BY ElementType DEF ReplyRead, Replies
        <5> HIDE DEF ReplyRead
        <5> QED
          BY <5>1, <5>2 DEF Types
      <4> QED
        BY <2>2, <2>3, <2>4, <3>6, <4>1, <4>2 DEF NothingSentBy, Local
    <3>7. CASE Replied(m)
      <4>1. pc'[m] = "ended" /\ UNCHANGED resp
        BY <3>7 DEF Replied, Ends, Types
      <4> QED
        BY <2>2, <2>3, <2>4, <3>7, <4>1 DEF NothingSentBy, Local
    <3>8. CASE Interrupt(m)
      <4>1. pc'[m] = "ended" /\ \A c \in Boards : resp'[m][c].sendStatus = -1
        BY <3>8 DEF Interrupt, Ends, Types, NoReply
      <4> QED
        BY <2>3, <4>1 DEF NothingSentBy
    <3> QED
      BY <1>2, <3>1, <3>2, <3>3, <3>4, <3>5, <3>6, <3>7, <3>8 DEF MasterStep
  <2>6. \A n \in Masters : n # m => NothingSentBy(n)'
    <3> SUFFICES ASSUME NEW n \in Masters, n # m PROVE NothingSentBy(n)'
      OBVIOUS
    <3>1. To(n)' = To(n) /\ NothingSentBy(n)
      BY <2>1 DEF To, NothingSent, NothingSentBy
    <3> QED
      BY <2>1, <3>1, ToType DEF NothingSentBy
  <2> QED
    BY <2>5, <2>6 DEF NothingSent, NothingSentBy
<1>3. ASSUME NEW b \in Boards,
             Accept(b) \/ Receive(b) \/ ReceiveTimesOut(b) \/ Says(b) \/ Finish(b) \/ Crash(b)
      PROVE  NothingSent'
  <2>1. UNCHANGED masterVars /\ KeepsMsg
    BY <1>3, Effects DEF Serves, IsGiven, Leaves, Talks, Loses, KeepsMsg
  <2> QED
    BY <2>1 DEF NothingSent, NothingSentBy, KeepsMsg, To
<1> QED
  BY <1>1, <1>2, <1>3 DEF Next

-----------------------------------------------------------------------------
(* The order of connections                                                *)

(* Only a new connection is behind others it was not behind before. *)
LEMMA DaemonKeepsOrder ==
  ASSUME Connecting, Received, NEW d \in Boards,
         Accept(d) \/ Receive(d) \/ ReceiveTimesOut(d) \/ Says(d) \/ Finish(d) \/ Crash(d),
         NEW b \in Boards, NEW m \in Masters, NEW n \in Masters, Precedes(b, m, n)'
  PROVE  Precedes(b, m, n)
<1> USE DEF Connecting
<1>1. CASE Serves(d)
  <2> DEFINE h == Head(queue[d])
  <2>1. queue[d] \in Seq(Masters) /\ queue[d] # << >>
    BY <1>1 DEF Serves, Types
  <2>2. /\ 1 \in DOMAIN queue[d] /\ h = queue[d][1]
        /\ \A k \in DOMAIN queue'[d] :
             k \in Int /\ k + 1 \in DOMAIN queue[d] /\ k + 1 # 1 /\ queue'[d][k] = queue[d][k + 1]
    BY <1>1, <2>1, Shortened DEF Serves, Types
  <2>3. h \in Masters
    BY <2>1, <2>2
  <2>4. \A o \in Masters, c \in Boards :
          conn'[o][c].at = IF o = h /\ c = d THEN "served" ELSE conn[o][c].at
    BY <1>1 DEF Serves, MovesAt
  <2>5. UNCHANGED executed /\ \A c \in Boards : c # d => queue'[c] = queue[c]
    BY <1>1 DEF Serves, Types
  <2> HIDE DEF h
  <2>6. conn[h][d].at = "queued" /\ \A o \in Masters : conn[o][d].at # "served"
    <3>1. serves[d] \notin Masters
      BY <1>1 DEF Serves, Types
    <3> QED
      BY <2>2, <2>3, <3>1 DEF Queues, InQueue
  <2>7. CASE \E i, j \in DOMAIN queue'[b] : i < j /\ queue'[b][i] = m /\ queue'[b][j] = n
    <3>1. CASE b = d
      <4>1. PICK i, j \in DOMAIN queue'[d] : i < j /\ queue'[d][i] = m /\ queue'[d][j] = n
        BY <2>7, <3>1
      <4>2. /\ i + 1 \in DOMAIN queue[d] /\ j + 1 \in DOMAIN queue[d] /\ i + 1 < j + 1
            /\ queue[d][i + 1] = m /\ queue[d][j + 1] = n
        BY <2>2, <4>1
      <4> QED
        BY <3>1, <4>2 DEF Precedes
    <3>2. CASE b # d
      BY <2>5, <2>7, <3>2 DEF Precedes
    <3> QED
      BY <3>1, <3>2
  <2>8. CASE conn'[n][b].at = "queued" /\ conn'[m][b].at \in {"served", "closed"}
    <3>1. conn[n][b].at = "queued"
      BY <2>4, <2>8
    <3>2. CASE m = h /\ b = d
      <4>1. n # h /\ InQueue(d, n)
        BY <2>4, <2>8, <3>1, <3>2 DEF Queues
      <4>2. PICK j \in DOMAIN queue[d] : queue[d][j] = n
        BY <4>1 DEF InQueue
      <4>3. 1 < j
        BY <2>1, <2>2, <4>1, <4>2
      <4> QED
        BY <2>2, <3>2, <4>2, <4>3 DEF Precedes
    <3>3. CASE ~(m = h /\ b = d)
      BY <2>4, <2>8, <3>1, <3>3 DEF Precedes
    <3> QED
      BY <3>2, <3>3
  <2>9. CASE conn'[n][b].at = "served" /\ conn'[m][b].at = "closed"
    BY <2>4, <2>6, <2>9 DEF Precedes
  <2>10. CASE \E i, j \in DOMAIN executed'[b] :
                i < j /\ executed'[b][i].by = m /\ executed'[b][j].by = n
    BY <2>5, <2>10 DEF Precedes
  <2> QED
    BY <2>7, <2>8, <2>9, <2>10 DEF Precedes
<1>2. CASE IsGiven(d)
  <2>1. UNCHANGED <<conn, queue>>
    BY <1>2 DEF IsGiven
  <2>2. CASE \E i, j \in DOMAIN executed'[b] :
               i < j /\ executed'[b][i].by = m /\ executed'[b][j].by = n
    <3>1. PICK e \in Commands :
            e.by = serves[d] /\ executed' = [executed EXCEPT ![d] = Append(@, e)]
      BY <1>2 DEF IsGiven
    <3>2. executed[d] \in Seq(Commands) /\ executed'[d] = Append(executed[d], e)
      BY <3>1 DEF Types
    <3>3. /\ DOMAIN executed'[d] = DOMAIN executed[d] \cup {Len(executed[d]) + 1}
          /\ \A k \in DOMAIN executed[d] : executed'[d][k] = executed[d][k] /\ k < Len(executed[d]) + 1
          /\ executed'[d][Len(executed[d]) + 1] = e
      BY <3>2, Appended
    <3>4. CASE b # d
      BY <2>2, <3>1, <3>4 DEF Precedes, Types
    <3>5. CASE b = d
      <4>1. PICK i, j \in DOMAIN executed'[d] :
              i < j /\ executed'[d][i].by = m /\ executed'[d][j].by = n
        BY <2>2, <3>5
      <4>2. i \in DOMAIN executed[d] /\ executed[d][i].by = m
        <5>1. Len(executed[d]) \in Nat /\ DOMAIN executed[d] = 1 .. Len(executed[d])
          BY <3>2
        <5> QED
          BY <3>3, <4>1, <5>1
      <4>3. CASE j \in DOMAIN executed[d]
        BY <3>3, <3>5, <4>1, <4>2, <4>3 DEF Precedes
      <4>4. CASE j \notin DOMAIN executed[d]
        <5>1. n = serves[d] /\ daemon[d] # "executing"
          BY <1>2, <3>1, <3>3, <4>1, <4>4 DEF IsGiven
        <5>2. conn[n][d].at = "served" /\ serves[d] # m
          BY <4>2, <5>1 DEF Queues, Received
        <5>3. conn[m][d].at = "closed"
          BY <4>2, <5>2 DEF Received, Queues
        <5> QED
          BY <3>5, <5>2, <5>3 DEF Precedes
      <4> QED
        BY <4>3, <4>4
    <3> QED
      BY <3>4, <3>5
  <2> QED
    BY <2>1, <2>2 DEF Precedes
<1>3. CASE SameCommands /\ UNCHANGED queue /\ (KeepsAt \/ Leaves(d))
  <2>1. CASE \E i, j \in DOMAIN executed'[b] :
               i < j /\ executed'[b][i].by = m /\ executed'[b][j].by = n
    BY <1>3, <2>1 DEF SameCommands, Precedes
  <2>2. CASE ~\E i, j \in DOMAIN executed'[b] :
               i < j /\ executed'[b][i].by = m /\ executed'[b][j].by = n
    <3>1. CASE KeepsAt
      BY <1>3, <2>2, <3>1 DEF KeepsAt, Precedes
    <3>2. CASE Leaves(d)
      <4>1. conn[serves[d]][d].at = "served" /\ serves[d] \in Masters
        BY <3>2 DEF Leaves, Queues
      <4>2. \A o \in Masters, c \in Boards :
              conn'[o][c].at = IF o = serves[d] /\ c = d THEN "closed" ELSE conn[o][c].at
        BY <3>2 DEF Leaves, MovesAt
      <4>3. \A o \in Masters : conn[o][d].at = "served" => o = serves[d]
        BY DEF Queues
      <4> QED
        BY <1>3, <2>2, <4>1, <4>2, <4>3 DEF Precedes
    <3> QED
      BY <1>3, <3>1, <3>2
  <2> QED
    BY <2>1, <2>2
<1>4. CASE Loses(d) /\ SameCommands
  <2>1. CASE \E i, j \in DOMAIN executed'[b] :
               i < j /\ executed'[b][i].by = m /\ executed'[b][j].by = n
    BY <1>4, <2>1 DEF SameCommands, Precedes
  <2>2. CASE ~\E i, j \in DOMAIN executed'[b] :
               i < j /\ executed'[b][i].by = m /\ executed'[b][j].by = n
    <3>1. CASE b = d
      <4>1. queue'[d] = << >> /\ \A o \in Masters : conn'[o][d].at \notin {"queued", "served"}
        BY <1>4 DEF Loses, Types
      <4> QED
        BY <2>2, <3>1, <4>1 DEF Precedes
    <3>2. CASE b # d
      <4>1. queue'[b] = queue[b] /\ \A o \in Masters : conn'[o][b].at = conn[o][b].at
        BY <1>4, <3>2 DEF Loses, Types
      <4> QED
        BY <2>2, <4>1 DEF Precedes
    <3> QED
      BY <3>1, <3>2
  <2> QED
    BY <2>1, <2>2
<1> QED
  BY <1>1, <1>2, <1>3, <1>4, Effects DEF Leaves, Talks

LEMMA SameOrderKept ==
  ASSUME KeepsAt, UNCHANGED <<queue, executed>>,
         NEW b \in Boards, NEW m \in Masters, NEW n \in Masters, Precedes(b, m, n)'
  PROVE  Precedes(b, m, n)
BY DEF KeepsAt, Precedes

LEMMA ConnectOrder ==
  ASSUME Connecting, Received, NEW o \in Masters, connectSocket(o),
         NEW b \in Boards, NEW m \in Masters, NEW n \in Masters, Precedes(b, m, n)'
  PROVE  Precedes(b, m, n) \/ (n = o /\ m # o)
<1> USE DEF Connecting
<1>1. PICK d \in todo[o] :
        /\ d \in Boards /\ todo' = [todo EXCEPT ![o] = @ \ {d}]
        /\ \/ KeepsAt /\ UNCHANGED queue
           \/ MovesAt(o, d, "queued") /\ queue' = [queue EXCEPT ![d] = Append(@, o)]
  BY ConnectCases
<1>2. UNCHANGED executed /\ pc[o] = "connecting"
  BY ConnectCases
<1>3. CASE KeepsAt /\ UNCHANGED queue
  BY <1>2, <1>3, SameOrderKept
<1>4. CASE MovesAt(o, d, "queued") /\ queue' = [queue EXCEPT ![d] = Append(@, o)]
  <2>1. conn[o][d].at = "none"
    BY <1>1, <1>2 DEF Fresh
  <2>2. \A p \in Masters, c \in Boards :
          conn'[p][c].at = IF p = o /\ c = d THEN "queued" ELSE conn[p][c].at
    BY <1>4 DEF MovesAt
  <2>3. CASE b = d
    <3>1. queue[d] \in Seq(Masters) /\ queue'[d] = Append(queue[d], o)
      BY <1>1, <1>4 DEF Types
    <3>2. /\ DOMAIN queue'[d] = DOMAIN queue[d] \cup {Len(queue[d]) + 1}
          /\ \A k \in DOMAIN queue[d] : queue'[d][k] = queue[d][k] /\ k < Len(queue[d]) + 1
          /\ queue'[d][Len(queue[d]) + 1] = o
          /\ Len(queue[d]) \in Nat /\ DOMAIN queue[d] = 1 .. Len(queue[d])
      BY <3>1, Appended
    <3>3. \A k \in DOMAIN queue[d] : queue[d][k] # o
      BY <1>1, <2>1 DEF Queues, InQueue
    <3>4. CASE \E i, j \in DOMAIN queue'[d] : i < j /\ queue'[d][i] = m /\ queue'[d][j] = n
      <4>1. PICK i, j \in DOMAIN queue'[d] : i < j /\ queue'[d][i] = m /\ queue'[d][j] = n
        BY <3>4
      <4>2. i \in DOMAIN queue[d] /\ queue[d][i] = m /\ m # o
        BY <3>2, <3>3, <4>1
      <4>3. j \in DOMAIN queue[d] => queue[d][j] = n
        BY <3>2, <4>1
      <4>4. j \notin DOMAIN queue[d] => n = o
        BY <3>2, <4>1
      <4> QED
        BY <2>3, <4>1, <4>2, <4>3, <4>4 DEF Precedes
    <3>5. CASE ~\E i, j \in DOMAIN queue'[d] : i < j /\ queue'[d][i] = m /\ queue'[d][j] = n
      BY <1>2, <2>1, <2>2, <2>3, <3>5 DEF Precedes
    <3> QED
      BY <3>4, <3>5
  <2>4. CASE b # d
    <3>1. queue'[b] = queue[b] /\ \A p \in Masters : conn'[p][b].at = conn[p][b].at
      BY <1>4, <2>2, <2>4 DEF Types
    <3> QED
      BY <1>2, <3>1 DEF Precedes
  <2> QED
    BY <2>3, <2>4
<1> QED
  BY <1>1, <1>3, <1>4

(* A step, by what it does to the order. *)
LEMMA OrderStep ==
  ASSUME Connecting, Received, [Next]_vars
  PROVE  \/ \A b \in Boards, m, n \in Masters : Precedes(b, m, n)' => Precedes(b, m, n)
         \/ \E o \in Masters :
              /\ pc[o] = "connecting" /\ pc' = pc
              /\ \A b \in Boards, m, n \in Masters :
                   Precedes(b, m, n)' => Precedes(b, m, n) \/ (n = o /\ m # o)
<1>1. CASE UNCHANGED vars
  BY <1>1 DEF Precedes, vars
<1>2. CASE \E m \in Masters : (MasterStep(m) \/ Interrupt(m)) /\ ~connectSocket(m)
  BY <1>2, MasterCases, SameOrderKept DEF Connecting
<1>3. CASE \E m \in Masters : connectSocket(m)
  BY <1>3, ConnectOrder, ConnectCases DEF Connecting
<1>4. CASE \E d \in Boards :
             Accept(d) \/ Receive(d) \/ ReceiveTimesOut(d) \/ Says(d) \/ Finish(d) \/ Crash(d)
  BY <1>4, DaemonKeepsOrder
<1> QED
  BY <1>1, <1>2, <1>3, <1>4 DEF Next

LEMMA SameWayStep ==
  ASSUME Connecting, Received, SameWay, NobodyBehind, [Next]_vars PROVE SameWay'
BY OrderStep DEF SameWay, NobodyBehind

LEMMA NobodyBehindStep ==
  ASSUME Connecting, Received, NobodyBehind, [Next]_vars PROVE NobodyBehind'
<1> SUFFICES ASSUME NEW o \in Masters, NEW n \in Masters, NEW b \in Boards,
                    pc'[o] = "connecting", Precedes(b, o, n)'
             PROVE  FALSE
  BY DEF NobodyBehind
<1> USE DEF Connecting
<1>1. Locked' /\ Types'
  BY LockedStep, TypesStep
<1>2. CASE pc[o] = "connecting"
  <2>1. ~Precedes(b, o, n)
    BY <1>2 DEF NobodyBehind
  <2>2. PICK p \in Masters : pc[p] = "connecting" /\ n = p /\ o # p
    BY <2>1, OrderStep
  <2> QED
    BY <1>2, <2>2 DEF Locked, Running
<1>3. CASE pc[o] # "connecting"
  <2>1. Start(o)
    <3>1. PICK m \in Masters : MasterStep(m) \/ Interrupt(m)
      BY <1>3, Effects DEF Next, vars
    <3>2. m = o
      BY <1>3, <3>1 DEF MasterStep, Start, connectSocket, Connected, sendMessage, Sent,
                        listenForReply, Replied, Interrupt, Ends, Types
    <3> QED
      BY <1>3, <3>1, <3>2 DEF MasterStep, Start, connectSocket, Connected, sendMessage, Sent,
                        listenForReply, Replied, Interrupt, Ends, Types
  <2>2. pc[o] = "started" /\ KeepsAt /\ UNCHANGED <<queue, executed>>
    BY <2>1, LocalKeeps DEF Start, Local
  <2>3. Precedes(b, o, n)
    BY <2>2, SameOrderKept
  <2>4. conn[o][b].at = "none"
    BY <2>2 DEF Fresh
  <2>5. \A k \in DOMAIN executed[b] : executed[b][k].by # o
    BY <2>4 DEF Received
  <2>6. \A k \in DOMAIN queue[b] : queue[b][k] # o
    BY <2>4 DEF Queues, InQueue
  <2> QED
    BY <2>3, <2>4, <2>5, <2>6 DEF Precedes
<1> QED
  BY <1>2, <1>3

-----------------------------------------------------------------------------

LEMMA InitIInv == Init => IInv
<1> SUFFICES ASSUME Init PROVE IInv
  OBVIOUS
<1>1. Types
  BY InitTypes
<1>2. /\ \A m \in Masters : pc[m] = "started"
      /\ \A m \in Masters, b \in Boards :
           conn[m][b].at = "none" /\ conn[m][b].msg = << >> /\ resp[m][b].sendStatus = -1
      /\ \A b \in Boards : queue[b] = << >> /\ executed[b] = << >> /\ serves[b] = Nobody
      /\ lock = Nobody
  BY DEF Init, NoConn, NoReply
<1>3. Locked /\ Fresh
  BY <1>2, MasterAssumption DEF Locked, Fresh, Running
<1>4. Queues /\ Received /\ Once
  BY <1>2, MasterAssumption DEF Queues, InQueue, Received, Once
<1>5. NothingSent
  BY <1>1, <1>2, ToType DEF NothingSent, NothingSentBy
<1>6. SameWay /\ NobodyBehind
  BY <1>2 DEF SameWay, NobodyBehind, Precedes
<1> QED
  BY <1>1, <1>3, <1>4, <1>5, <1>6 DEF IInv, Connecting

LEMMA StepIInv == IInv /\ [Next]_vars => IInv'
<1> SUFFICES ASSUME IInv, [Next]_vars PROVE IInv'
  OBVIOUS
<1>1. Connecting'
  BY TypesStep, LockedStep, FreshStep, QueuesStep DEF IInv, Connecting
<1>2. Received' /\ Once' /\ NothingSent'
  BY ReceivedStep, OnceStep, NothingSentStep DEF IInv, Connecting
<1>3. SameWay' /\ NobodyBehind'
  BY SameWayStep, NobodyBehindStep DEF IInv
<1> QED
  BY <1>1, <1>2, <1>3 DEF IInv

LEMMA Invariance == Spec => []IInv
BY InitIInv, StepIInv, PTL DEF Spec

(* The types of the variables, that one master runs at a time and has a    *)
(* connection where the daemon has it, and that a daemon is given a command*)
(* once (main, masterLta_t, UserInterpreter::listenForCommands).           *)
THEOREM TypeCorrect == Spec => []TypeOK
<1>1. IInv => TypeOK
  <2> SUFFICES ASSUME IInv PROVE TypeOK
    OBVIOUS
  <2> USE DEF IInv, Connecting
  <2>1. ASSUME NEW m \in Masters, NEW b \in Boards
        PROVE  /\ resp[m][b].sendStatus \in -1 .. 1 /\ resp[m][b].replyStatus \in -1 .. 1
               /\ conn[m][b].at \in {"none", "queued", "served", "closed"}
    BY ElementType DEF Replies, Connections
  <2>2. ASSUME NEW m \in Masters, NEW b \in Boards
        PROVE  Cardinality(CommandsOf(b, m)) <= 1
    <3>1. CASE CommandsOf(b, m) = {}
      BY <3>1, FS_EmptySet
    <3>2. CASE CommandsOf(b, m) # {}
      <4>1. PICK k : k \in CommandsOf(b, m)
        BY <3>2
      <4>2. CommandsOf(b, m) = {k}
        BY <4>1 DEF CommandsOf, Once
      <4>3. Cardinality({k}) = 1
        BY FS_Singleton
      <4> QED
        BY <4>2, <4>3
    <3> QED
      BY <3>1, <3>2
  <2> QED
    BY <2>1, <2>2 DEF TypeOK, Types, Locked, Queues, InQueue
<1> QED
  BY <1>1, Invariance, PTL

(* A broadcast is executed by no board unless all could be reached         *)
(* (masterLta_t::broadcast).                                               *)
THEOREM BroadcastToAll == Spec => []AllOrNobody
<1>1. IInv => AllOrNobody
  <2> SUFFICES ASSUME IInv, NEW m \in Masters, \E b \in To(m) : resp[m][b].sendStatus = 1
               PROVE  \A c \in Boards : CommandsOf(c, m) = {} /\ conn[m][c].msg = << >>
    BY DEF AllOrNobody
  <2>1. \A c \in Boards : conn[m][c].msg = << >>
    BY DEF IInv, NothingSent, NothingSentBy
  <2> QED
    BY <2>1 DEF IInv, Received, CommandsOf
<1> QED
  BY <1>1, Invariance, PTL

(* All boards execute broadcasts in one order, whichever masters were      *)
(* interrupted in between (main, tryGetLock, listenForCommands).           *)
THEOREM BroadcastsInOrder == Spec => []SameOrder
<1>1. IInv => SameOrder
  <2>1. ASSUME IInv, NEW b \in Boards, NEW m \in Masters, NEW n \in Masters, Before(b, m, n)
        PROVE  Precedes(b, m, n)
    BY <2>1 DEF Before, CommandsOf, Precedes
  <2> QED
    BY <2>1 DEF IInv, SameWay, SameOrder
<1> QED
  BY <1>1, Invariance, PTL

-----------------------------------------------------------------------------
(* What a master reports.                                                  *)

(* A board that executes executes the last of its commands. *)
ExecutesLast ==
  \A b \in Boards :
    daemon[b] = "executing" => executed[b] # << >> /\ executed[b][Len(executed[b])].by = serves[b]

(* What a board receives from a master is the message for this board.      *)
RightMessage(m, b) ==
  /\ conn[m][b].msg \in {<< >>, MessageTo(m, b)}
  /\ \A k \in CommandsOf(b, m) : executed[b][k].msg = MessageTo(m, b)

(* Nothing of a reply is lost on its way to a master that runs.            *)
WholeReply(m, b) ==
  pc[m] # "ended" =>
    /\ conn[m][b].broken = FALSE
    /\ CommandsOf(b, m) = {} => resp[m][b].replyMsg = << >> /\ conn[m][b].pieces = << >>
    /\ \A k \in CommandsOf(b, m) :
         executed[b][k].said = resp[m][b].replyMsg \o conn[m][b].pieces

(* A reply that is reported has been read to its end.                      *)
ReadToTheEnd(m, b) ==
  /\ resp[m][b].replyStatus # -1 => conn[m][b].at = "closed" /\ conn[m][b].pieces = << >>
  /\ resp[m][b].replyStatus = 0 =>
       \A k \in CommandsOf(b, m) : executed[b][k].said = resp[m][b].replyMsg

Exchange(m, b) == RightMessage(m, b) /\ WholeReply(m, b) /\ ReadToTheEnd(m, b)
Exchanges == \A m \in Masters, b \in Boards : Exchange(m, b)

RInv == IInv /\ ExecutesLast /\ Exchanges

(* The groups of variables are always expanded. *)
USE DEF masterVars, daemonVars

-----------------------------------------------------------------------------
(* What a step leaves alone.                                               *)

SameText(m, b) ==
  /\ conn'[m][b].msg = conn[m][b].msg /\ conn'[m][b].pieces = conn[m][b].pieces
  /\ conn'[m][b].broken = conn[m][b].broken

SameReply(m, b) ==
  /\ resp'[m][b].replyMsg = resp[m][b].replyMsg
  /\ resp'[m][b].replyStatus = resp[m][b].replyStatus

SameCommandsOf(m, b) ==
  /\ CommandsOf(b, m)' = CommandsOf(b, m)
  /\ \A k \in CommandsOf(b, m) :
       executed'[b][k].msg = executed[b][k].msg /\ executed'[b][k].said = executed[b][k].said

LEMMA ExchangeKept ==
  ASSUME NEW m \in Masters, NEW b \in Boards, Exchange(m, b), UNCHANGED request,
         SameText(m, b), SameReply(m, b), SameCommandsOf(m, b),
         pc[m] = "ended" => pc'[m] = "ended",
         conn[m][b].at = "closed" => conn'[m][b].at = "closed"
  PROVE  Exchange(m, b)'
<1>1. RightMessage(m, b)'
  BY DEF Exchange, RightMessage, MessageTo, SameText, SameCommandsOf
<1>2. WholeReply(m, b)'
  BY DEF Exchange, WholeReply, SameText, SameReply, SameCommandsOf
<1>3. ReadToTheEnd(m, b)'
  BY DEF Exchange, ReadToTheEnd, SameText, SameReply, SameCommandsOf
<1> QED
  BY <1>1, <1>2, <1>3 DEF Exchange

LEMMA SameHistory ==
  ASSUME UNCHANGED executed, NEW m \in Masters, NEW b \in Boards PROVE SameCommandsOf(m, b)
BY DEF SameCommandsOf, CommandsOf

LEMMA SameCommandsThere ==
  ASSUME NEW m \in Masters, NEW b \in Boards, executed'[b] = executed[b] PROVE SameCommandsOf(m, b)
BY DEF SameCommandsOf, CommandsOf

(* A process does not start again, a connection is not used again. *)
LEMMA StaysEnded ==
  ASSUME Types, [Next]_vars, NEW m \in Masters, pc[m] = "ended" PROVE pc'[m] = "ended"
<1>1. CASE UNCHANGED vars
  BY <1>1 DEF vars
<1>2. ASSUME NEW o \in Masters, MasterStep(o) \/ Interrupt(o) PROVE pc'[m] = "ended"
  <2> USE DEF Types, Running
  <2>1. CASE Start(o) \/ Connected(o) \/ Sent(o)
    BY <2>1 DEF Start, Connected, Sent, Ends
  <2>2. CASE connectSocket(o) \/ sendMessage(o) \/ listenForReply(o)
    BY <2>2 DEF connectSocket, sendMessage, listenForReply
  <2>3. CASE Replied(o) \/ Interrupt(o)
    BY <2>3 DEF Replied, Interrupt, Ends
  <2> QED
    BY <1>2, <2>1, <2>2, <2>3 DEF MasterStep
<1>3. ASSUME NEW d \in Boards,
             Accept(d) \/ Receive(d) \/ ReceiveTimesOut(d) \/ Says(d) \/ Finish(d) \/ Crash(d)
      PROVE  pc'[m] = "ended"
  BY <1>3, Effects
<1> QED
  BY <1>1, <1>2, <1>3 DEF Next

LEMMA StaysClosed ==
  ASSUME Connecting, [Next]_vars, NEW m \in Masters, NEW b \in Boards, conn[m][b].at = "closed"
  PROVE  conn'[m][b].at = "closed"
<1> USE DEF Connecting
<1>1. CASE UNCHANGED vars
  BY <1>1 DEF vars
<1>2. ASSUME NEW o \in Masters, MasterStep(o) \/ Interrupt(o) PROVE conn'[m][b].at = "closed"
  <2>1. CASE KeepsAt
    BY <2>1 DEF KeepsAt
  <2>2. CASE connectSocket(o)
    <3>1. PICK d \in todo[o] :
            /\ d \in Boards
            /\ \/ KeepsAt
               \/ MovesAt(o, d, "queued")
      BY <2>2, ConnectCases
    <3>2. conn[o][d].at = "none"
      BY <2>2, <3>1, ConnectCases DEF Fresh
    <3> QED
      BY <2>1, <3>1, <3>2 DEF MovesAt
  <2> QED
    BY <1>2, <2>1, <2>2, MasterCases
<1>3. ASSUME NEW d \in Boards,
             Accept(d) \/ Receive(d) \/ ReceiveTimesOut(d) \/ Says(d) \/ Finish(d) \/ Crash(d)
      PROVE  conn'[m][b].at = "closed"
  <2>1. CASE Serves(d)
    <3>1. queue[d] \in Seq(Masters) /\ queue[d] # << >>
      BY <2>1 DEF Types, Serves
    <3>2. Head(queue[d]) \in Masters /\ InQueue(d, Head(queue[d]))
      BY <3>1, Shortened DEF InQueue
    <3>3. conn[Head(queue[d])][d].at = "queued"
      BY <3>2 DEF Queues
    <3>4. MovesAt(Head(queue[d]), d, "served")
      BY <2>1 DEF Serves
    <3> QED
      BY <3>3, <3>4 DEF MovesAt
  <2>2. CASE IsGiven(d)
    BY <2>2 DEF IsGiven
  <2>3. CASE Leaves(d)
    BY <2>3 DEF Leaves, MovesAt
  <2>4. CASE Talks
    BY <2>4 DEF Talks, KeepsAt
  <2>5. CASE Loses(d)
    BY <2>5 DEF Loses
  <2> QED
    BY <1>3, <2>1, <2>2, <2>3, <2>4, <2>5, Effects
<1> QED
  BY <1>1, <1>2, <1>3 DEF Next

(* A connection moves, and takes its text along. *)
LEMMA MovesText ==
  ASSUME Types, NEW o \in Masters, NEW d \in Boards, NEW a \in {"queued", "served", "closed"},
         conn' = [conn EXCEPT ![o][d].at = a],
         NEW m \in Masters, NEW b \in Boards
  PROVE  SameText(m, b)
<1>1. conn[o][d] \in Connections
  BY DEF Types
<1>2. SameText(o, d)
  BY <1>1 DEF Types, Connections, SameText
<1>3. m # o \/ b # d => conn'[m][b] = conn[m][b]
  BY DEF Types
<1> QED
  BY <1>2, <1>3 DEF SameText

LEMMA DiesText ==
  ASSUME Types, NEW d \in Boards, Dies(d), NEW m \in Masters, NEW b \in Boards PROVE SameText(m, b)
<1> DEFINE a == IF conn[m][d].at \in {"queued", "served"} THEN "closed" ELSE conn[m][d].at
<1>1. conn'[m] = [conn[m] EXCEPT ![d] = [@ EXCEPT !.at = a]]
  BY DEF Dies
<1>2. conn[m] \in [Boards -> Connections] /\ conn[m][d] \in Connections
  BY DEF Types
<1>3. conn'[m][d] = [conn[m][d] EXCEPT !.at = a]
  BY <1>1, <1>2
<1>4. SameText(m, d)
  BY <1>2, <1>3 DEF Connections, SameText
<1>5. b # d => conn'[m][b] = conn[m][b]
  BY <1>1, <1>2
<1> QED
  BY <1>4, <1>5 DEF SameText

-----------------------------------------------------------------------------
(* The steps of a master                                                   *)

(* A master that ends leaves what it has not read. *)
LEMMA EndsText ==
  ASSUME Types, NEW o \in Masters, Ends(o)
  PROVE  /\ pc'[o] = "ended"
         /\ \A b \in Boards : /\ conn'[o][b].msg = conn[o][b].msg /\ conn'[o][b].pieces = << >>
                              /\ conn'[o][b].at = conn[o][b].at
         /\ \A m \in Masters, b \in Boards : m # o => SameText(m, b)
<1>1. \A b \in Boards : conn[o][b] \in Connections
  BY DEF Types
<1>2. \A b \in Boards : conn'[o][b] = [conn[o][b] EXCEPT !.pieces = << >>]
  BY DEF Types, Ends
<1>3. \A m \in Masters : m # o => conn'[m] = conn[m]
  BY DEF Types, Ends
<1>4. pc'[o] = "ended"
  BY DEF Types, Ends
<1> QED
  BY <1>1, <1>2, <1>3, <1>4 DEF Connections, SameText

LEMMA EndsExchange ==
  ASSUME IInv, [Next]_vars, NEW o \in Masters, Ends(o), UNCHANGED <<request, executed>>,
         \/ UNCHANGED resp
         \/ \A b \in Boards : /\ resp'[o][b].replyStatus = -1
                              /\ \A m \in Masters : m # o => resp'[m] = resp[m],
         NEW m \in Masters, NEW b \in Boards, Exchange(m, b)
  PROVE  Exchange(m, b)'
<1>a. Types /\ Connecting
  BY DEF IInv, Connecting
<1>1. CASE m # o
  <2>1. SameText(m, b)
    BY <1>1, <1>a, EndsText
  <2>2. SameReply(m, b)
    BY <1>1 DEF SameReply
  <2> QED
    BY <1>a, <2>1, <2>2, SameHistory, StaysEnded, StaysClosed, ExchangeKept
<1>2. CASE m = o
  <2>1. /\ pc'[m] = "ended" /\ conn'[m][b].msg = conn[m][b].msg /\ conn'[m][b].pieces = << >>
        /\ conn'[m][b].at = conn[m][b].at
    BY <1>2, <1>a, EndsText
  <2>2. SameCommandsOf(m, b)
    BY SameHistory
  <2>3. resp'[m][b].replyStatus = -1 \/ SameReply(m, b)
    BY <1>2 DEF SameReply
  <2>4. RightMessage(m, b)'
    BY <2>1, <2>2 DEF Exchange, RightMessage, MessageTo, SameCommandsOf
  <2>5. WholeReply(m, b)'
    BY <2>1 DEF WholeReply
  <2>6. ReadToTheEnd(m, b)'
    BY <2>1, <2>2, <2>3 DEF Exchange, ReadToTheEnd, SameReply, SameCommandsOf
  <2> QED
    BY <2>4, <2>5, <2>6 DEF Exchange
<1> QED
  BY <1>1, <1>2

LEMMA ConnectExchange ==
  ASSUME IInv, [Next]_vars, NEW o \in Masters, connectSocket(o),
         NEW m \in Masters, NEW b \in Boards, Exchange(m, b)
  PROVE  Exchange(m, b)'
<1>a. Types /\ Connecting
  BY DEF IInv, Connecting
<1>1. PICK d \in Boards :
        \/ conn' = [conn EXCEPT ![o][d].at = "queued"] /\ UNCHANGED resp
        \/ resp' = [resp EXCEPT ![o][d].sendStatus = 1] /\ UNCHANGED conn
  BY DEF connectSocket
<1>2. SameText(m, b)
  BY <1>1, <1>a, MovesText DEF SameText
<1>3. SameReply(m, b)
  <2>1. CASE UNCHANGED resp
    BY <2>1 DEF SameReply
  <2>2. CASE resp' = [resp EXCEPT ![o][d].sendStatus = 1]
    <3>1. resp[o][d] \in Replies
      BY <1>a DEF Types
    <3>2. resp'[o][d] = [resp[o][d] EXCEPT !.sendStatus = 1]
      BY <1>a, <2>2 DEF Types
    <3>3. SameReply(o, d)
      BY <3>1, <3>2 DEF Replies, SameReply
    <3>4. m # o \/ b # d => resp'[m][b] = resp[m][b]
      BY <1>a, <2>2 DEF Types
    <3> QED
      BY <3>3, <3>4 DEF SameReply
  <2> QED
    BY <1>1, <2>1, <2>2
<1>4. UNCHANGED <<request, executed>>
  BY DEF connectSocket
<1> QED
  BY <1>a, <1>2, <1>3, <1>4, SameHistory, StaysEnded, StaysClosed, ExchangeKept

LEMMA SendExchange ==
  ASSUME IInv, [Next]_vars, NEW o \in Masters, sendMessage(o),
         NEW m \in Masters, NEW b \in Boards, Exchange(m, b)
  PROVE  Exchange(m, b)'
<1>a. Types /\ Connecting
  BY DEF IInv, Connecting
<1>1. PICK d \in Boards : /\ conn' = [conn EXCEPT ![o][d].msg = MessageTo(o, d)]
                          /\ resp' = [resp EXCEPT ![o][d].sendStatus = 0]
  BY DEF sendMessage
<1>2. UNCHANGED <<request, pc, executed>>
  BY DEF sendMessage
<1>3. SameReply(m, b)
  <2>1. resp[o][d] \in Replies
    BY <1>a DEF Types
  <2>2. resp'[o][d] = [resp[o][d] EXCEPT !.sendStatus = 0]
    BY <1>a, <1>1 DEF Types
  <2>3. SameReply(o, d)
    BY <2>1, <2>2 DEF Replies, SameReply
  <2>4. m # o \/ b # d => resp'[m][b] = resp[m][b]
    BY <1>a, <1>1 DEF Types
  <2> QED
    BY <2>3, <2>4 DEF SameReply
<1>4. SameCommandsOf(m, b)
  BY <1>2, SameHistory
<1>5. CASE m # o \/ b # d
  <2>1. conn'[m][b] = conn[m][b]
    BY <1>a, <1>1, <1>5 DEF Types
  <2> QED
    BY <1>a, <1>2, <1>3, <1>4, <2>1, StaysClosed, ExchangeKept DEF SameText
<1>6. CASE m = o /\ b = d
  <2>1. conn[m][b] \in Connections
    BY <1>a DEF Types
  <2>2. conn'[m][b] = [conn[m][b] EXCEPT !.msg = MessageTo(m, b)]
    BY <1>a, <1>1, <1>6 DEF Types
  <2> HIDE DEF MessageTo
  <2>3. /\ conn'[m][b].msg = MessageTo(m, b) /\ conn'[m][b].pieces = conn[m][b].pieces
        /\ conn'[m][b].broken = conn[m][b].broken /\ conn'[m][b].at = conn[m][b].at
    BY <2>1, <2>2 DEF Connections
  <2>4. MessageTo(m, b)' = MessageTo(m, b)
    BY <1>2 DEF MessageTo
  <2>5. RightMessage(m, b)'
    BY <1>4, <2>3, <2>4 DEF Exchange, RightMessage, SameCommandsOf
  <2>6. WholeReply(m, b)'
    BY <1>2, <1>3, <1>4, <2>3 DEF Exchange, WholeReply, SameReply, SameCommandsOf
  <2>7. ReadToTheEnd(m, b)'
    BY <1>3, <1>4, <2>3 DEF Exchange, ReadToTheEnd, SameReply, SameCommandsOf
  <2> QED
    BY <2>5, <2>6, <2>7 DEF Exchange
<1> QED
  BY <1>5, <1>6

(* What a read takes and what it leaves are what there was. *)
LEMMA TakenAndRemaining ==
  ASSUME NEW s \in Seq(Pieces), NEW n \in 0 .. Len(s)
  PROVE  /\ SubSeq(s, 1, n) \in Seq(Pieces) /\ Len(SubSeq(s, 1, n)) = n
         /\ SubSeq(s, n + 1, Len(s)) \in Seq(Pieces)
         /\ SubSeq(s, 1, n) \o SubSeq(s, n + 1, Len(s)) = s
<1>1. Len(s) \in Nat
  OBVIOUS
<1>2. SubSeq(s, 1, n) \in Seq(Pieces) /\ Len(SubSeq(s, 1, n)) = n
  BY PrefixType
<1>3. SubSeq(s, n + 1, Len(s)) \in Seq(Pieces)
  BY <1>1
<1>4. 1 \in 1 .. Len(s) + 1 /\ n \in 1 - 1 .. Len(s) /\ Len(s) \in n .. Len(s)
  BY <1>1
<1>5. SubSeq(s, 1, n) \o SubSeq(s, n + 1, Len(s)) = SubSeq(s, 1, Len(s))
  BY <1>4, ConcatAdjacentSubSeq
<1>6. SubSeq(s, 1, Len(s)) = s
  BY SubSeqFull
<1> QED
  BY <1>2, <1>3, <1>5, <1>6

LEMMA ReadPart ==
  ASSUME Types, NEW m \in Masters, NEW b \in Boards
  PROVE  /\ Taken(m, b) \in Seq(Pieces) /\ Remaining(m, b) \in Seq(Pieces)
         /\ Taken(m, b) \o Remaining(m, b) = conn[m][b].pieces
<1> DEFINE p == conn[m][b].pieces
           n == Min({Buffer, Len(p)})
<1>1. p \in Seq(Pieces)
  BY DEF Types, Connections
<1>2. n \in 0 .. Len(p)
  BY <1>1, MasterAssumption DEF Min
<1>3. Taken(m, b) = SubSeq(p, 1, n)
  BY DEF Taken
<1>4. Remaining(m, b) = SubSeq(p, Len(Taken(m, b)) + 1, Len(p))
  BY DEF Remaining
<1> HIDE DEF p, n
<1>5. /\ SubSeq(p, 1, n) \in Seq(Pieces) /\ Len(SubSeq(p, 1, n)) = n
      /\ SubSeq(p, n + 1, Len(p)) \in Seq(Pieces)
      /\ SubSeq(p, 1, n) \o SubSeq(p, n + 1, Len(p)) = p
  BY <1>1, <1>2, TakenAndRemaining
<1>6. Len(Taken(m, b)) = n
  BY <1>3, <1>5
<1>7. Remaining(m, b) = SubSeq(p, n + 1, Len(p))
  BY <1>4, <1>6
<1> QED
  BY <1>3, <1>5, <1>7 DEF p

LEMMA ThreeParts ==
  ASSUME NEW s \in Seq(Pieces), NEW t \in Seq(Pieces), NEW u \in Seq(Pieces)
  PROVE  (s \o t) \o u = s \o (t \o u)
BY ConcatAssociative

LEMMA ListenExchange ==
  ASSUME IInv, [Next]_vars, NEW o \in Masters, listenForReply(o),
         NEW m \in Masters, NEW b \in Boards, Exchange(m, b)
  PROVE  Exchange(m, b)'
<1>a. Types /\ Connecting
  BY DEF IInv, Connecting
<1>1. PICK status \in [Readable(o) -> {0, 1}] :
        resp' = [resp EXCEPT ![o] = [d \in Boards |->
                   IF d \in Readable(o) THEN ReplyRead(o, d, status[d]) ELSE @[d]]]
  BY DEF listenForReply
<1>2. conn' = [conn EXCEPT ![o] = [d \in Boards |->
                 IF d \in Readable(o) THEN [@[d] EXCEPT !.pieces = Remaining(o, d)] ELSE @[d]]]
  BY DEF listenForReply
<1>3. UNCHANGED <<request, pc, executed>> /\ pc[o] = "listening"
  BY DEF listenForReply
<1>4. SameCommandsOf(m, b)
  BY <1>3, SameHistory
<1>5. CASE m # o \/ b \notin Readable(o)
  <2>1. conn'[m][b] = conn[m][b]
    BY <1>a, <1>2, <1>5 DEF Types
  <2>2. resp'[m][b] = resp[m][b]
    BY <1>a, <1>1, <1>5 DEF Types
  <2> QED
    BY <1>a, <1>3, <1>4, <2>1, <2>2, StaysClosed, ExchangeKept DEF SameText, SameReply
<1>6. CASE m = o /\ b \in Readable(o)
  <2>1. conn[m][b] \in Connections /\ resp[m][b] \in Replies
    BY <1>a DEF Types
  <2>2. conn'[m][b] = [conn[m][b] EXCEPT !.pieces = Remaining(m, b)]
    BY <1>a, <1>2, <1>6 DEF Types
  <2>3. resp'[m][b] = ReplyRead(m, b, status[b])
    BY <1>a, <1>1, <1>6 DEF Types
  <2>4. /\ conn'[m][b].pieces = Remaining(m, b) /\ conn'[m][b].msg = conn[m][b].msg
        /\ conn'[m][b].broken = conn[m][b].broken /\ conn'[m][b].at = conn[m][b].at
    <3> HIDE DEF Remaining
    <3> QED
      BY <2>1, <2>2 DEF Connections
  <2>5. /\ Taken(m, b) \in Seq(Pieces) /\ Remaining(m, b) \in Seq(Pieces)
        /\ Taken(m, b) \o Remaining(m, b) = conn[m][b].pieces
    BY <1>a, ReadPart
  <2>6. resp[m][b].replyMsg \in Seq(Pieces)
    BY <2>1 DEF Replies
  <2>7. RightMessage(m, b)'
    BY <1>3, <1>4, <2>4 DEF Exchange, RightMessage, MessageTo, SameCommandsOf
  <2>8. /\ conn[m][b].broken = FALSE
        /\ CommandsOf(b, m) = {} => resp[m][b].replyMsg = << >> /\ conn[m][b].pieces = << >>
        /\ \A k \in CommandsOf(b, m) :
             executed[b][k].said = resp[m][b].replyMsg \o conn[m][b].pieces
    BY <1>3, <1>6 DEF Exchange, WholeReply
  <2>9. CASE conn[m][b].pieces = << >>
    <3>1. /\ resp'[m][b].replyMsg = resp[m][b].replyMsg /\ resp'[m][b].replyStatus = status[b]
      BY <2>1, <2>3, <2>9 DEF Replies, ReplyRead
    <3>2. Remaining(m, b) = << >>
      <4>1. Len(Taken(m, b) \o Remaining(m, b)) = 0
        BY <2>5, <2>9
      <4>2. Len(Taken(m, b) \o Remaining(m, b)) = Len(Taken(m, b)) + Len(Remaining(m, b))
        BY <2>5, ConcatProperties
      <4>3. Len(Taken(m, b)) \in Nat /\ Len(Remaining(m, b)) \in Nat
        BY <2>5
      <4>4. Len(Remaining(m, b)) = 0
        BY <4>1, <4>2, <4>3
      <4> QED
        BY <2>5, <4>4, EmptySeq
    <3>3. WholeReply(m, b)'
      BY <1>4, <2>4, <2>8, <2>9, <3>1, <3>2 DEF WholeReply, SameCommandsOf
    <3>4. conn'[m][b].at = "closed"
      BY <1>6, <2>4, <2>9 DEF Readable
    <3>5. \A k \in CommandsOf(b, m) : executed[b][k].said = resp[m][b].replyMsg
      BY <2>6, <2>8, <2>9, ConcatEmptySeq
    <3>6. ReadToTheEnd(m, b)'
      BY <1>4, <2>4, <3>1, <3>2, <3>4, <3>5 DEF ReadToTheEnd, SameCommandsOf
    <3> QED
      BY <2>7, <3>3, <3>6 DEF Exchange
  <2>10. CASE conn[m][b].pieces # << >>
    <3>1. resp'[m][b].replyMsg = resp[m][b].replyMsg \o Taken(m, b)
      <4>1. resp'[m][b] = [resp[m][b] EXCEPT !.replyMsg = resp[m][b].replyMsg \o Taken(m, b)]
        BY <2>3, <2>10 DEF ReplyRead
      <4> HIDE DEF Taken
      <4> QED
        BY <2>1, <4>1 DEF Replies
    <3>2. resp'[m][b].replyStatus = resp[m][b].replyStatus
      <4>1. resp'[m][b] = [resp[m][b] EXCEPT !.replyMsg = resp[m][b].replyMsg \o Taken(m, b)]
        BY <2>3, <2>10 DEF ReplyRead
      <4> HIDE DEF Taken
      <4> QED
        BY <2>1, <4>1 DEF Replies
    <3>3. (resp[m][b].replyMsg \o Taken(m, b)) \o Remaining(m, b)
            = resp[m][b].replyMsg \o conn[m][b].pieces
      <4> HIDE DEF Taken, Remaining
      <4>1. (resp[m][b].replyMsg \o Taken(m, b)) \o Remaining(m, b)
              = resp[m][b].replyMsg \o (Taken(m, b) \o Remaining(m, b))
        BY <2>5, <2>6, ThreeParts
      <4> QED
        BY <2>5, <4>1, Zenon
    <3>4. CommandsOf(b, m) # {}
      BY <2>8, <2>10
    <3>5. WholeReply(m, b)'
      BY <1>4, <2>4, <2>8, <3>1, <3>3, <3>4 DEF WholeReply, SameCommandsOf
    <3>6. resp[m][b].replyStatus = -1
      BY <2>10 DEF Exchange, ReadToTheEnd
    <3>7. ReadToTheEnd(m, b)'
      BY <3>2, <3>6 DEF ReadToTheEnd
    <3> QED
      BY <2>7, <3>5, <3>7 DEF Exchange
  <2> QED
    BY <2>9, <2>10
<1> QED
  BY <1>5, <1>6

LEMMA MasterExchange ==
  ASSUME IInv, [Next]_vars, NEW o \in Masters, MasterStep(o) \/ Interrupt(o),
         NEW m \in Masters, NEW b \in Boards, Exchange(m, b)
  PROVE  Exchange(m, b)'
<1>a. Types /\ Connecting
  BY DEF IInv, Connecting
<1>1. CASE UNCHANGED <<request, resp, conn, executed>>
  BY <1>1, <1>a, SameHistory, StaysEnded, StaysClosed, ExchangeKept DEF SameText, SameReply
<1>2. CASE Start(o) \/ Sent(o)
  BY <1>1, <1>2 DEF Start, Sent
<1>3. CASE Connected(o)
  BY <1>1, <1>3, EndsExchange DEF Connected
<1>4. CASE Replied(o)
  BY <1>4, EndsExchange DEF Replied
<1>5. CASE Interrupt(o)
  <2>1. Ends(o) /\ UNCHANGED <<request, executed>>
    BY <1>5 DEF Interrupt
  <2>2. \A d \in Boards : resp'[o][d].replyStatus = -1 /\ \A n \in Masters : n # o => resp'[n] = resp[n]
    BY <1>5, <1>a DEF Interrupt, Types, NoReply
  <2> QED
    BY <2>1, <2>2, EndsExchange
<1> QED
  BY <1>2, <1>3, <1>4, <1>5, ConnectExchange, SendExchange, ListenExchange DEF MasterStep

-----------------------------------------------------------------------------
(* The steps of a daemon                                                   *)

LEMMA SameLength ==
  ASSUME Types, Types', SameCommands, NEW b \in Boards
  PROVE  /\ Len(executed'[b]) = Len(executed[b])
         /\ executed'[b] # << >> <=> executed[b] # << >>
<1>1. executed[b] \in Seq(Commands) /\ executed'[b] \in Seq(Commands)
  BY DEF Types
<1>2. 1 .. Len(executed'[b]) = 1 .. Len(executed[b])
  BY <1>1, LenProperties DEF SameCommands
<1>3. Len(executed'[b]) \in Nat /\ Len(executed[b]) \in Nat
  BY <1>1
<1>4. Len(executed'[b]) = Len(executed[b])
  BY <1>2, <1>3
<1> QED
  BY <1>1, <1>4, EmptySeq

LEMMA ExecutesLastStep == ASSUME IInv, ExecutesLast, [Next]_vars PROVE ExecutesLast'
<1>a. Types /\ Types'
  BY TypesStep DEF IInv, Connecting
<1>1. CASE UNCHANGED <<daemon, serves, executed>>
  BY <1>1 DEF ExecutesLast
<1>2. ASSUME SameCommands, NEW b \in Boards, daemon'[b] = "executing",
             daemon[b] = "executing", serves'[b] = serves[b]
      PROVE  executed'[b] # << >> /\ executed'[b][Len(executed'[b])].by = serves'[b]
  <2>1. executed[b] # << >> /\ executed[b][Len(executed[b])].by = serves[b]
    BY <1>2 DEF ExecutesLast
  <2>2. executed[b] \in Seq(Commands)
    BY <1>a DEF Types
  <2>3. Len(executed[b]) \in DOMAIN executed[b]
    BY <2>1, <2>2, EmptySeq, LenProperties
  <2> QED
    BY <1>a, <1>2, <2>1, <2>3, SameLength DEF SameCommands
<1>3. ASSUME NEW b \in Boards, IsGiven(b) PROVE ExecutesLast'
  <2>1. PICK d \in Commands :
          d.by = serves[b] /\ executed' = [executed EXCEPT ![b] = Append(@, d)]
    BY <1>3 DEF IsGiven
  <2>2. executed[b] \in Seq(Commands) /\ executed'[b] = Append(executed[b], d)
    BY <1>a, <2>1 DEF Types
  <2>3. /\ executed'[b] # << >> /\ Len(executed'[b]) = Len(executed[b]) + 1
        /\ executed'[b][Len(executed[b]) + 1] = d
    BY <2>2, AppendProperties
  <2>4. \A c \in Boards : c # b => executed'[c] = executed[c] /\ daemon'[c] = daemon[c]
    BY <1>a, <1>3, <2>1 DEF Types, IsGiven
  <2>5. UNCHANGED serves
    BY <1>3 DEF IsGiven
  <2> QED
    BY <2>1, <2>3, <2>4, <2>5 DEF ExecutesLast
<1>4. ASSUME NEW b \in Boards, Serves(b) \/ Leaves(b) \/ Loses(b), SameCommands PROVE ExecutesLast'
  <2>1. daemon'[b] # "executing"
    BY <1>a, <1>4 DEF Types, Serves, Leaves, Loses
  <2>2. \A c \in Boards : c # b => daemon'[c] = daemon[c] /\ serves'[c] = serves[c]
    BY <1>a, <1>4 DEF Types, Serves, Leaves, Loses
  <2> QED
    BY <1>2, <1>4, <2>1, <2>2 DEF ExecutesLast
<1>5. CASE Talks
  BY <1>2, <1>5 DEF ExecutesLast, Talks
<1>6. CASE UNCHANGED vars
  BY <1>1, <1>6 DEF vars
<1>7. CASE Next
  <2>1. ASSUME NEW m \in Masters, MasterStep(m) \/ Interrupt(m) PROVE ExecutesLast'
    BY <1>a, <1>1, <2>1, MasterCases, ConnectCases
  <2>2. ASSUME NEW b \in Boards,
               Accept(b) \/ Receive(b) \/ ReceiveTimesOut(b) \/ Says(b) \/ Finish(b) \/ Crash(b)
        PROVE  ExecutesLast'
    <3>1. Serves(b) \/ IsGiven(b) \/ Leaves(b) \/ Talks \/ (Loses(b) /\ SameCommands)
      BY <1>a, <2>2, Effects
    <3>2. Serves(b) \/ Leaves(b) => SameCommands
      BY DEF Serves, Leaves, SameCommands
    <3> QED
      BY <1>3, <1>4, <1>5, <3>1, <3>2
  <2> QED
    BY <1>7, <2>1, <2>2 DEF Next
<1> QED
  BY <1>6, <1>7

(* A connection moves, and its daemon prints nothing. *)
LEMMA MoveExchange ==
  ASSUME IInv, [Next]_vars, UNCHANGED masterVars, NEW m \in Masters, NEW b \in Boards,
         SameText(m, b), SameCommandsOf(m, b), Exchange(m, b)
  PROVE  Exchange(m, b)'
<1>1. Connecting
  BY DEF IInv
<1>2. SameReply(m, b)
  BY DEF SameReply
<1>3. conn[m][b].at = "closed" => conn'[m][b].at = "closed"
  BY <1>1, StaysClosed
<1> QED
  BY <1>2, <1>3, ExchangeKept

LEMMA ServedMaster ==
  ASSUME Types, NEW d \in Boards, daemon[d] \in {"serving", "executing"} PROVE serves[d] \in Masters
BY DEF Types

LEMMA FinishCommands ==
  ASSUME Types, NEW d \in Boards, Finish(d), NEW m \in Masters, NEW b \in Boards
  PROVE  SameCommandsOf(m, b)
<1>1. executed' = [executed EXCEPT ![d] = [@ EXCEPT ![Len(@)].done = TRUE]]
  BY DEF Finish
<1>2. executed'[d] = [executed[d] EXCEPT ![Len(executed[d])].done = TRUE]
  BY <1>1 DEF Types
<1>3. executed[d] \in Seq(Commands)
  BY DEF Types
<1>4. DOMAIN executed'[d] = DOMAIN executed[d]
  BY <1>2, <1>3
<1>5. \A k \in DOMAIN executed[d] : /\ executed'[d][k].by = executed[d][k].by
                                    /\ executed'[d][k].msg = executed[d][k].msg
                                    /\ executed'[d][k].said = executed[d][k].said
  BY <1>2, <1>3 DEF Commands
<1>6. CASE b = d
  BY <1>4, <1>5, <1>6 DEF SameCommandsOf, CommandsOf
<1>7. CASE b # d
  <2>1. executed'[b] = executed[b]
    BY <1>1, <1>7 DEF Types
  <2> QED
    BY <2>1, SameCommandsThere
<1> QED
  BY <1>6, <1>7

LEMMA QuietExchange ==
  ASSUME IInv, [Next]_vars, NEW d \in Boards,
         \/ Accept(d) \/ ReceiveTimesOut(d) \/ Finish(d) \/ Crash(d)
         \/ Receive(d) /\ Closes(d) /\ UNCHANGED executed,
         NEW m \in Masters, NEW b \in Boards, Exchange(m, b)
  PROVE  Exchange(m, b)'
<1>a. Types
  BY DEF IInv, Connecting
<1>1. UNCHANGED masterVars
  BY <1>a, Effects
<1>2. CASE Accept(d)
  <2>1. Head(queue[d]) \in Masters
    BY <1>a, <1>2 DEF Types, Accept
  <2>2. SameText(m, b)
    BY <1>a, <1>2, <2>1, MovesText DEF Accept
  <2> QED
    BY <1>1, <1>2, <2>2, SameHistory, MoveExchange DEF Accept
<1>3. CASE ReceiveTimesOut(d) \/ Finish(d) \/ (Receive(d) /\ Closes(d) /\ UNCHANGED executed)
  <2>1. serves[d] \in Masters /\ Closes(d)
    BY <1>a, <1>3, ServedMaster DEF ReceiveTimesOut, Finish, Receive
  <2>2. SameText(m, b)
    BY <1>a, <2>1, MovesText DEF Closes
  <2>3. SameCommandsOf(m, b)
    BY <1>a, <1>3, SameHistory, FinishCommands DEF ReceiveTimesOut
  <2> QED
    BY <1>1, <2>2, <2>3, MoveExchange
<1>4. CASE Crash(d)
  <2>1. SameText(m, b)
    BY <1>a, <1>4, DiesText DEF Crash
  <2> QED
    BY <1>1, <1>4, <2>1, SameHistory, MoveExchange DEF Crash
<1> QED
  BY <1>2, <1>3, <1>4

(* The daemon is given a command, the only one of this master. *)
LEMMA GivenExchange ==
  ASSUME IInv, [Next]_vars, NEW d \in Boards,
         Receive(d), ~(Closes(d) /\ UNCHANGED executed),
         NEW m \in Masters, NEW b \in Boards, Exchange(m, b)
  PROVE  Exchange(m, b)'
<1>a. Types /\ Queues /\ Received
  BY DEF IInv, Connecting
<1> DEFINE n == serves[d]
           c == [by |-> n, msg |-> conn[n][d].msg, said |-> << >>, done |-> FALSE]
           new == Len(executed[d]) + 1
<1>1. /\ daemon[d] = "serving" /\ conn[n][d].msg # << >>
      /\ executed' = [executed EXCEPT ![d] = Append(@, c)]
      /\ UNCHANGED conn /\ UNCHANGED masterVars
  BY DEF Receive
<1>2. n \in Masters
  BY <1>a, <1>1, ServedMaster
<1>3. c \in Commands
  BY <1>a, <1>2 DEF Types, Connections, Commands
<1>4. c.by = n /\ c.msg = conn[n][d].msg /\ c.said = << >>
  OBVIOUS
<1>5. executed[d] \in Seq(Commands)
  BY <1>a DEF Types
<1> HIDE DEF c
<1>6. executed'[d] = Append(executed[d], c)
  BY <1>a, <1>1 DEF Types
<1>7. /\ DOMAIN executed'[d] = DOMAIN executed[d] \cup {new}
      /\ \A k \in DOMAIN executed[d] : executed'[d][k] = executed[d][k]
      /\ executed'[d][new] = c
  BY <1>3, <1>5, <1>6, Appended
<1>8. \A k \in DOMAIN executed[d] : executed[d][k].by # n
  BY <1>a, <1>1 DEF Received
<1>9. SameText(m, b) /\ SameReply(m, b)
  BY <1>1 DEF SameText, SameReply
<1>10. CASE b # d
  <2>1. executed'[b] = executed[b]
    BY <1>a, <1>1, <1>10 DEF Types
  <2> QED
    BY <1>1, <1>9, <2>1, SameCommandsThere, MoveExchange
<1>11. CASE b = d /\ m # n
  <2>1. SameCommandsOf(m, b)
    BY <1>4, <1>7, <1>11 DEF SameCommandsOf, CommandsOf
  <2> QED
    BY <1>1, <1>9, <2>1, MoveExchange
<1>12. CASE b = d /\ m = n
  <2>1. CommandsOf(b, m)' = {new} /\ CommandsOf(b, m) = {}
    BY <1>4, <1>7, <1>8, <1>12 DEF CommandsOf
  <2>2. executed'[b][new].msg = conn[m][b].msg /\ executed'[b][new].said = << >>
    BY <1>4, <1>7, <1>12
  <2>3. MessageTo(m, b)' = MessageTo(m, b)
    BY <1>1 DEF MessageTo
  <2>4. RightMessage(m, b)'
    BY <1>1, <1>12, <2>1, <2>2, <2>3 DEF Exchange, RightMessage
  <2>5. ASSUME pc[m] # "ended"
        PROVE  resp[m][b].replyMsg = << >> /\ conn[m][b].pieces = << >> /\ conn[m][b].broken = FALSE
    BY <2>1, <2>5 DEF Exchange, WholeReply
  <2>6. << >> \o << >> = << >>
    BY NoPieces, ConcatEmptySeq
  <2>7. WholeReply(m, b)'
    BY <1>1, <2>1, <2>2, <2>5, <2>6 DEF WholeReply
  <2>8. conn[m][b].at = "served"
    BY <1>a, <1>12 DEF Queues
  <2>9. resp[m][b].replyStatus = -1
    BY <2>8 DEF Exchange, ReadToTheEnd
  <2>10. ReadToTheEnd(m, b)'
    BY <1>1, <2>9 DEF ReadToTheEnd
  <2> QED
    BY <2>4, <2>7, <2>10 DEF Exchange
<1> QED
  BY <1>10, <1>11, <1>12

(* What is printed goes to the last command, which is that of the master   *)
(* that is served.                                                         *)
Piece(d) == <<d, Len(executed[d][Len(executed[d])].said) + 1>>

LEMMA SaysSaid ==
  ASSUME IInv, ExecutesLast, NEW d \in Boards, Says(d)
  PROVE  LET last == Len(executed[d]) IN
         /\ serves[d] \in Masters /\ Piece(d) \in Pieces
         /\ CommandsOf(d, serves[d]) = {last}
         /\ executed[d][last].said \in Seq(Pieces)
         /\ DOMAIN executed'[d] = DOMAIN executed[d]
         /\ \A k \in DOMAIN executed[d] : /\ executed'[d][k].by = executed[d][k].by
                                          /\ executed'[d][k].msg = executed[d][k].msg
                                          /\ k # last => executed'[d][k].said = executed[d][k].said
         /\ executed'[d][last].said = Append(executed[d][last].said, Piece(d))
         /\ \A b \in Boards : b # d => executed'[b] = executed[b]
<1>a. Types /\ Once
  BY DEF IInv, Connecting
<1> DEFINE last == Len(executed[d])
           said == Append(executed[d][last].said, Piece(d))
<1>1. executed' = [executed EXCEPT ![d] = [@ EXCEPT ![last].said = said]]
  BY DEF Says, Piece
<1>2. executed'[d] = [executed[d] EXCEPT ![last].said = said]
  BY <1>a, <1>1 DEF Types
<1>3. daemon[d] = "executing"
  BY DEF Says
<1>4. executed[d] \in Seq(Commands) /\ executed[d] # << >> /\ executed[d][last].by = serves[d]
  BY <1>a, <1>3 DEF Types, ExecutesLast
<1>5. last \in DOMAIN executed[d]
  BY <1>4, EmptySeq, LenProperties
<1>6. executed[d][last] \in Commands
  BY <1>4, <1>5
<1>7. executed[d][last].said \in Seq(Pieces)
  BY <1>6 DEF Commands
<1>8. Piece(d) \in Pieces
  BY <1>7 DEF Piece, Pieces
<1>9. CommandsOf(d, serves[d]) = {last}
  BY <1>a, <1>4, <1>5 DEF CommandsOf, Once
<1>10. serves[d] \in Masters
  BY <1>a, <1>3, ServedMaster
<1> HIDE DEF last, said
<1>11. DOMAIN executed'[d] = DOMAIN executed[d]
  BY <1>2, <1>4
<1>12. \A k \in DOMAIN executed[d] : /\ executed'[d][k].by = executed[d][k].by
                                     /\ executed'[d][k].msg = executed[d][k].msg
                                     /\ k # last => executed'[d][k].said = executed[d][k].said
  BY <1>2, <1>4 DEF Commands
<1>13. executed'[d][last].said = said
  BY <1>2, <1>4, <1>5, <1>6 DEF Commands
<1>14. \A b \in Boards : b # d => executed'[b] = executed[b]
  BY <1>a, <1>1 DEF Types
<1> QED
  BY <1>7, <1>8, <1>9, <1>10, <1>11, <1>12, <1>13, <1>14 DEF last, said

(* The text goes to the connection, if its master can read it. *)
LEMMA SaysText ==
  ASSUME IInv, ExecutesLast, NEW d \in Boards, Says(d), NEW m \in Masters, NEW b \in Boards
  PROVE  /\ m # serves[d] \/ b # d => SameText(m, b)
         /\ conn'[m][b].msg = conn[m][b].msg
         /\ pc[serves[d]] # "ended" /\ ~conn[serves[d]][d].broken =>
              /\ conn'[serves[d]][d].pieces = Append(conn[serves[d]][d].pieces, Piece(d))
              /\ ~conn'[serves[d]][d].broken
<1>a. Types
  BY DEF IInv, Connecting
<1>b. serves[d] \in Masters /\ Piece(d) \in Pieces
  BY SaysSaid
<1>1. CASE conn[serves[d]][d].broken
  <2>1. Dies(d)
    BY <1>1 DEF Says
  <2> QED
    BY <1>a, <1>1, <2>1, DiesText DEF SameText
<1>2. CASE ~conn[serves[d]][d].broken
  <2> DEFINE n == serves[d]
  <2>1. conn' = IF pc[n] = "ended" THEN [conn EXCEPT ![n][d].broken = TRUE]
                ELSE [conn EXCEPT ![n][d].pieces = Append(@, Piece(d))]
    BY <1>2 DEF Says, Piece
  <2> HIDE DEF n
  <2>2. n \in Masters
    BY <1>b DEF n
  <2>3. conn[n][d] \in Connections
    BY <1>a, <2>2 DEF Types
  <2>4. m # n \/ b # d => conn'[m][b] = conn[m][b]
    BY <1>a, <2>1, <2>2 DEF Types
  <2>5. CASE pc[n] = "ended"
    <3>1. conn'[n][d] = [conn[n][d] EXCEPT !.broken = TRUE]
      BY <1>a, <2>1, <2>2, <2>5 DEF Types
    <3>2. conn'[n][d].msg = conn[n][d].msg
      BY <2>3, <3>1 DEF Connections
    <3> QED
      BY <2>4, <2>5, <3>2 DEF SameText, n
  <2>6. CASE pc[n] # "ended"
    <3> DEFINE p == Append(conn[n][d].pieces, Piece(d))
    <3>1. conn'[n][d] = [conn[n][d] EXCEPT !.pieces = p]
      BY <1>a, <2>1, <2>2, <2>6 DEF Types
    <3> HIDE DEF p
    <3>2. /\ conn'[n][d].msg = conn[n][d].msg /\ conn'[n][d].pieces = p
          /\ conn'[n][d].broken = conn[n][d].broken
      BY <2>3, <3>1 DEF Connections
    <3> QED
      BY <2>4, <3>2 DEF SameText, n, p
  <2> QED
    BY <2>5, <2>6
<1> QED
  BY <1>1, <1>2

LEMMA SaysExchange ==
  ASSUME IInv, ExecutesLast, [Next]_vars, NEW d \in Boards, Says(d),
         NEW m \in Masters, NEW b \in Boards, Exchange(m, b)
  PROVE  Exchange(m, b)'
<1>a. Types /\ Queues
  BY DEF IInv, Connecting
<1>b. UNCHANGED masterVars
  BY DEF Says
<1> DEFINE last == Len(executed[d])
<1>1. CASE b # d
  <2>1. executed'[b] = executed[b]
    BY <1>1, SaysSaid
  <2> QED
    BY <1>b, <1>1, <2>1, SaysText, SameCommandsThere, MoveExchange
<1>2. CASE b = d /\ m # serves[d]
  <2>1. last \notin CommandsOf(d, m)
    BY <1>2, SaysSaid DEF CommandsOf
  <2>2. SameCommandsOf(m, b)
    BY <1>2, <2>1, SaysSaid DEF SameCommandsOf, CommandsOf
  <2> QED
    BY <1>b, <1>2, <2>2, SaysText, MoveExchange
<1>3. CASE b = d /\ m = serves[d]
  <2>1. CommandsOf(b, m) = {last} /\ CommandsOf(b, m)' = {last}
    BY <1>3, SaysSaid DEF CommandsOf
  <2>2. executed'[b][last].msg = executed[b][last].msg
    <3>1. last \in DOMAIN executed[b]
      BY <1>3, <2>1 DEF CommandsOf
    <3> QED
      BY <1>3, <3>1, SaysSaid
  <2>3. MessageTo(m, b)' = MessageTo(m, b)
    BY <1>b DEF MessageTo
  <2>4. conn'[m][b].msg = conn[m][b].msg
    BY SaysText
  <2>5. RightMessage(m, b)'
    BY <2>1, <2>2, <2>3, <2>4 DEF Exchange, RightMessage
  <2>6. WholeReply(m, b)'
    <3> SUFFICES ASSUME pc[m] # "ended"
                 PROVE  /\ conn'[m][b].broken = FALSE
                        /\ executed'[b][last].said = resp[m][b].replyMsg \o conn'[m][b].pieces
      BY <1>b, <2>1 DEF WholeReply
    <3> DEFINE r == resp[m][b].replyMsg
               p == conn[m][b].pieces
    <3>1. conn[m][b].broken = FALSE /\ executed[b][last].said = r \o p
      <4>1. last \in CommandsOf(b, m)
        BY <2>1
      <4>2. WholeReply(m, b)
        BY DEF Exchange
      <4>3. /\ conn[m][b].broken = FALSE
            /\ \A k \in CommandsOf(b, m) : executed[b][k].said = r \o p
        BY <4>2 DEF WholeReply
      <4> QED
        BY <4>1, <4>3
    <3>2. conn'[m][b].broken = FALSE /\ conn'[m][b].pieces = Append(p, Piece(d))
      <4>1. pc[serves[d]] # "ended" /\ ~conn[serves[d]][d].broken
        BY <1>3, <3>1
      <4>2. /\ conn'[serves[d]][d].pieces = Append(conn[serves[d]][d].pieces, Piece(d))
            /\ ~conn'[serves[d]][d].broken
        BY <4>1, SaysText
      <4>3. conn'[m][b].broken \in BOOLEAN
        <5>1. Types'
          BY <1>a, TypesStep
        <5>2. conn'[m][b] \in Connections
          BY <5>1 DEF Types
        <5> QED
          BY <5>2 DEF Connections
      <4> QED
        BY <1>3, <4>2, <4>3
    <3>3. executed'[b][last].said = Append(r \o p, Piece(d))
      BY <1>3, <3>1, SaysSaid
    <3>4. r \in Seq(Pieces) /\ p \in Seq(Pieces) /\ Piece(d) \in Pieces
      <4>1. resp[m][b] \in Replies /\ conn[m][b] \in Connections
        BY <1>a DEF Types
      <4> QED
        BY <4>1, SaysSaid DEF Replies, Connections
    <3> HIDE DEF r, p
    <3>5. Append(r \o p, Piece(d)) = r \o Append(p, Piece(d))
      <4> DEFINE x == <<Piece(d)>>
      <4>1. x \in Seq(Pieces)
        BY <3>4
      <4>2. r \o p \in Seq(Pieces)
        BY <3>4, ConcatProperties
      <4>3. Append(r \o p, Piece(d)) = (r \o p) \o x
        BY <3>4, <4>2, AppendIsConcat
      <4>4. Append(p, Piece(d)) = p \o x
        BY <3>4, AppendIsConcat
      <4> HIDE DEF x
      <4>5. (r \o p) \o x = r \o (p \o x)
        BY <3>4, <4>1, ThreeParts
      <4> QED
        BY <4>3, <4>4, <4>5
    <3> QED
      BY <3>2, <3>3, <3>5 DEF r
  <2>7. conn[m][b].at = "served"
    BY <1>a, <1>3 DEF Queues
  <2>8. resp[m][b].replyStatus = -1
    BY <2>7 DEF Exchange, ReadToTheEnd
  <2>9. ReadToTheEnd(m, b)'
    BY <1>b, <2>8 DEF ReadToTheEnd
  <2> QED
    BY <2>5, <2>6, <2>9 DEF Exchange
<1> QED
  BY <1>1, <1>2, <1>3

-----------------------------------------------------------------------------

LEMMA InitRInv == Init => RInv
<1> SUFFICES ASSUME Init PROVE RInv
  OBVIOUS
<1>1. IInv
  BY InitIInv
<1>2. /\ \A m \in Masters, b \in Boards :
           /\ conn[m][b].msg = << >> /\ conn[m][b].pieces = << >> /\ conn[m][b].broken = FALSE
           /\ resp[m][b].replyMsg = << >> /\ resp[m][b].replyStatus = -1
      /\ \A b \in Boards : daemon[b] = "idle" /\ executed[b] = << >>
  BY DEF Init, NoConn, NoReply
<1>3. \A m \in Masters, b \in Boards : CommandsOf(b, m) = {}
  <2>1. DOMAIN << >> = {}
    OBVIOUS
  <2> QED
    BY <1>2, <2>1 DEF CommandsOf
<1>4. ExecutesLast
  BY <1>2 DEF ExecutesLast
<1>5. Exchanges
  BY <1>2, <1>3 DEF Exchanges, Exchange, RightMessage, WholeReply, ReadToTheEnd
<1> QED
  BY <1>1, <1>4, <1>5 DEF RInv

LEMMA StepRInv == RInv /\ [Next]_vars => RInv'
<1> SUFFICES ASSUME RInv, [Next]_vars PROVE RInv'
  OBVIOUS
<1>1. IInv /\ ExecutesLast
  BY DEF RInv
<1>2. IInv' /\ ExecutesLast'
  BY <1>1, StepIInv, ExecutesLastStep
<1>3. ASSUME NEW m \in Masters, NEW b \in Boards PROVE Exchange(m, b)'
  <2>1. Exchange(m, b)
    BY DEF RInv, Exchanges
  <2>2. CASE UNCHANGED vars
    BY <1>1, <2>1, <2>2, SameHistory, MoveExchange DEF vars, SameText
  <2>3. ASSUME NEW o \in Masters, MasterStep(o) \/ Interrupt(o) PROVE Exchange(m, b)'
    BY <1>1, <2>1, <2>3, MasterExchange
  <2>4. ASSUME NEW d \in Boards,
               Accept(d) \/ Receive(d) \/ ReceiveTimesOut(d) \/ Says(d) \/ Finish(d) \/ Crash(d)
        PROVE  Exchange(m, b)'
    BY <1>1, <2>1, <2>4, QuietExchange, GivenExchange, SaysExchange
  <2> QED
    BY <2>2, <2>3, <2>4 DEF Next
<1> QED
  BY <1>2, <1>3 DEF RInv, Exchanges

LEMMA RepliesInvariance == Spec => []RInv
BY InitRInv, StepRInv, PTL DEF Spec

(* A board that is reported without an error was given the command meant   *)
(* for it, and the report is all it has printed for it, in order           *)
(* (masterLta_t::sendMessage, listenForReply).                             *)
THEOREM ReportsAreSound == Spec => []ReportSound
<1>1. RInv => ReportSound
  <2> SUFFICES ASSUME RInv, NEW m \in Masters, NEW b \in Boards,
                      resp[m][b].replyStatus = 0, NEW k \in CommandsOf(b, m)
               PROVE  /\ executed[b][k].msg = MessageTo(m, b)
                      /\ executed[b][k].done => resp[m][b].replyMsg = executed[b][k].said
                      /\ IsPrefix(resp[m][b].replyMsg, executed[b][k].said)
    BY DEF ReportSound
  <2>1. Types /\ Exchange(m, b)
    BY DEF RInv, IInv, Connecting, Exchanges
  <2>2. executed[b][k].msg = MessageTo(m, b) /\ executed[b][k].said = resp[m][b].replyMsg
    BY <2>1 DEF Exchange, RightMessage, ReadToTheEnd
  <2>3. resp[m][b].replyMsg \in Seq(Pieces)
    BY <2>1 DEF Types, Replies
  <2>4. IsPrefix(resp[m][b].replyMsg, resp[m][b].replyMsg)
    BY <2>3, SubSeqFull DEF IsPrefix
  <2> QED
    BY <2>2, <2>4
<1> QED
  BY <1>1, RepliesInvariance, PTL

===============================================================================
