------------------------------ MODULE DatReader ------------------------------
(***************************************************************************)
(* The .dat files of a readout and class dataFileReader, which walks them  *)
(* word by word, packet by packet and file by file, and counts the places  *)
(* where the counters of packets and words do not follow each other.       *)
(*                                                                         *)
(* A sample's value is the number of its word: all the conversions do with *)
(* it is to move it, to negate it and to add it to others.                 *)
(***************************************************************************)
EXTENDS Naturals, Integers, SequencesExt

CONSTANTS
  NumChannels,     (* LTA_NUMBER_OF_CHANNELS: 4                              *)
  WordMod,         (* the word counter has 4 bits: 16                        *)
  PackMod,         (* the packet counter has 8 bits: 256                     *)
  StartupPackets   (* STARTUP_PACKETS: 20                                    *)

ASSUME ReaderAssumption ==
  /\ NumChannels \in Nat \ {0} /\ StartupPackets \in Nat
  /\ WordMod \in Nat \ {0, 1} /\ PackMod \in Nat \ {0, 1}

VARIABLES
  files,  (* inFileNames, with the packets each file holds *)
  rd      (* the reader's fields                           *)

readerVars == <<files, rd>>

-----------------------------------------------------------------------------
(* What the board sends: words, sample after sample and channel after      *)
(* channel, the same number of words in each packet but the last.  (The    *)
(* simulator's packets hold all the channels of each sample; the daemon    *)
(* does not rely on it.)                                                   *)

Word(nch, n) == [chID |-> n % nch, counter |-> n % WordMod, samp |-> n + 1]

Packet(nch, perPacket, nWords, p) ==
  LET last == IF (p + 1) * perPacket < nWords THEN (p + 1) * perPacket ELSE nWords
  IN [counter |-> p % PackMod,
      words |-> [i \in 1 .. last - p * perPacket |-> Word(nch, p * perPacket + i - 1)]]

(* The words and the packets a file may hold. *)
Words(nch) == [chID : 0 .. nch - 1, counter : Nat, samp : Int]
Packets(nch) == [counter : Nat, words : Seq(Words(nch))]

(* nsamp samples of each of nch channels. *)
Stream(nch, perPacket, nsamp) ==
  [p \in 1 .. ((nch * nsamp + perPacket - 1) \div perPacket) |->
     Packet(nch, perPacket, nch * nsamp, p - 1)]

-----------------------------------------------------------------------------

NewReader ==
  [iFile |-> 1, packet |-> 1, buffer |-> << >>, end |-> FALSE,
   dataCount |-> 0, packetCount |-> 0, missingPackets |-> 0, dataGaps |-> 0,
   dataIndexOld |-> 0, packPreviousIndex |-> 0]

Follows(new, old, mod) == (new - old + mod) % mod = 1

NeedsData == rd.buffer = << >> /\ ~rd.end

(* getWord finds the end of a file and goes on with the next, if any. *)
NextFile ==
  /\ NeedsData /\ rd.packet > Len(files[rd.iFile])
  /\ rd' = [rd EXCEPT !.iFile = @ + 1, !.packet = 1, !.end = (rd.iFile = Len(files))]
  /\ UNCHANGED files

(* getWord reads a packet.  Packets that do not follow each other do not   *)
(* count at the start, when the daemon is not listening to the data yet,   *)
(* and neither they nor words do before the first word.                    *)
ReadPacket ==
  /\ NeedsData /\ rd.packet <= Len(files[rd.iFile])
  /\ LET p == files[rd.iFile][rd.packet]
         old(i) == IF i = 1 THEN rd.dataIndexOld ELSE p.words[i - 1].counter
         gaps == {i \in DOMAIN p.words :
                    /\ ~Follows(p.words[i].counter, old(i), WordMod)
                    /\ rd.dataCount + i - 1 # 0}
         lost == /\ ~Follows(p.counter, rd.packPreviousIndex, PackMod)
                 /\ rd.dataCount # 0
                 /\ rd.packetCount + 1 >= StartupPackets
     IN rd' = [rd EXCEPT !.packet = @ + 1, !.buffer = p.words,
                         !.packetCount = @ + 1,
                         !.missingPackets = @ + (IF lost THEN 1 ELSE 0),
                         !.dataGaps = @ + Cardinality(gaps),
                         !.dataCount = @ + Len(p.words),
                         !.dataIndexOld = IF p.words = << >> THEN @ ELSE Last(p.words).counter,
                         !.packPreviousIndex = p.counter]
  /\ UNCHANGED files

(* getWord has a word for its caller. *)
HasWord == rd.buffer # << >>
NextWord == Head(rd.buffer)
PopWord == rd' = [rd EXCEPT !.buffer = Tail(@)] /\ UNCHANGED files

(* All the words of the files, in the order getWord returns them. *)
Recorded == FlattenSeq([f \in DOMAIN files |-> FlattenSeq([p \in DOMAIN files[f] |-> files[f][p].words])])

=============================================================================
