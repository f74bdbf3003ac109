--------------------------- MODULE ConversionProofs ---------------------------
(***************************************************************************)
(* What a conversion leaves of a readout (Conversion), for every job, every*)
(* recording, every size of chunks and files, and wherever the daemon is   *)
(* killed.                                                                 *)
(***************************************************************************)
EXTENDS Conversion, SequenceFacts

-----------------------------------------------------------------------------
(* There are words in the files only if there are words in a packet.       *)
LEMMA RecordedSomewhere ==
  ASSUME NEW P, files \in Seq(Seq(P)), Recorded # << >>
  PROVE  \E f \in DOMAIN files : \E p \in DOMAIN files[f] : files[f][p].words # << >>
<1> SUFFICES ASSUME \A f \in DOMAIN files : \A p \in DOMAIN files[f] : files[f][p].words = << >>
             PROVE  FALSE
  OBVIOUS
<1> DEFINE inner(f) == [p \in DOMAIN files[f] |-> files[f][p].words]
           outer == [f \in DOMAIN files |-> FlattenSeq(inner(f))]
<1>1. ASSUME NEW f \in DOMAIN files PROVE FlattenSeq(inner(f)) = << >>
  <2>1. files[f] \in Seq(P)
    BY ElementOfSeq
  <2>2. Len(files[f]) \in Nat /\ DOMAIN files[f] = 1 .. Len(files[f])
    BY <2>1, LenProperties
  <2>3. inner(f) \in Seq({<< >>})
    BY <2>2
  <2> HIDE DEF inner
  <2> QED
    BY <2>3, FlattenEmpty
<1>2. outer \in Seq({<< >>})
  <2>1. Len(files) \in Nat /\ DOMAIN files = 1 .. Len(files)
    BY LenProperties
  <2> HIDE DEF inner
  <2> QED
    BY <1>1, <2>1
<1>3. Recorded = FlattenSeq(outer)
  BY Zenon DEF Recorded
<1> QED
  BY <1>2, <1>3, FlattenEmpty

-----------------------------------------------------------------------------
(* The reader.                                                             *)

Readers(nch) ==
  [iFile : Nat, packet : Nat \ {0}, buffer : Seq(Words(nch)),
   end : BOOLEAN, dataCount : Nat, packetCount : Nat, missingPackets : Nat, dataGaps : Nat,
   dataIndexOld : Nat, packPreviousIndex : Nat]

(* Where the reader has been. *)
Behind(f, p) == rd.end \/ f < rd.iFile \/ (f = rd.iFile /\ p < rd.packet)

(* The words behind the reader have been counted. *)
ReaderInv ==
  /\ files \in Seq(Seq(Packets(job.nch))) /\ files # << >>
  /\ rd \in Readers(job.nch)
  /\ ~rd.end => rd.iFile \in 1 .. Len(files)
  /\ \A f \in DOMAIN files : \A p \in DOMAIN files[f] :
       Behind(f, p) /\ files[f][p].words # << >> => rd.dataCount # 0

(* A reader at the first file has nothing behind it. *)
LEMMA FreshReader ==
  ASSUME NEW nch, NEW P, NEW s \in Seq(Seq(P)), s # << >>
  PROVE  /\ NewReader \in Readers(nch) /\ NewReader.iFile \in 1 .. Len(s)
         /\ \A f \in DOMAIN s : \A p \in DOMAIN s[f] : f >= 1 /\ p >= 1
<1>1. Len(s) \in Nat /\ Len(s) # 0 /\ DOMAIN s = 1 .. Len(s)
  BY EmptySeq, LenProperties
<1>2. ASSUME NEW f \in DOMAIN s, NEW p \in DOMAIN s[f] PROVE f >= 1 /\ p >= 1
  BY <1>1, ElementOfSeq, LenProperties
<1>3. NewReader \in Readers(nch) /\ NewReader.iFile = 1
  BY EmptySeq DEF NewReader, Readers
<1> QED
  BY <1>1, <1>2, <1>3

LEMMA ReaderInvInit == ASSUME Init PROVE ReaderInv
<1>1. files \in Seq(Seq(Packets(job.nch))) /\ files # << >> /\ rd = NewReader
  BY ConversionAssumption DEF Init
<1>2. rd.iFile = 1 /\ rd.packet = 1 /\ rd.end = FALSE
  BY <1>1 DEF NewReader
<1>3. \A f \in DOMAIN files : \A p \in DOMAIN files[f] : ~Behind(f, p)
  BY <1>1, <1>2, FreshReader DEF Behind
<1> QED
  BY <1>1, <1>3, FreshReader DEF ReaderInv

LEMMA NextFileStep == ASSUME ReaderInv, NextFile PROVE UNCHANGED job => ReaderInv'
<1> SUFFICES ASSUME UNCHANGED job PROVE ReaderInv'
  OBVIOUS
<1>1. /\ files' = files /\ rd' \in Readers(job.nch)
      /\ rd'.iFile = rd.iFile + 1 /\ rd'.packet = 1 /\ rd'.dataCount = rd.dataCount
      /\ rd'.end <=> rd.iFile = Len(files)
  <2> DEFINE last == rd.iFile = Len(files)
             next == rd.iFile + 1
  <2>1. files' = files /\ rd' = [rd EXCEPT !.iFile = next, !.packet = 1, !.end = last]
    BY DEF NextFile
  <2>2. rd \in Readers(job.nch) /\ last \in BOOLEAN
    BY DEF ReaderInv
  <2>3. next \in Nat
    BY <2>2 DEF Readers
  <2> HIDE DEF last, next
  <2>4. rd'.iFile = next /\ rd'.packet = 1 /\ rd'.dataCount = rd.dataCount /\ rd'.end = last
    BY <2>1, <2>2 DEF Readers
  <2>5. rd' = [iFile |-> next, packet |-> 1, buffer |-> rd.buffer, end |-> last,
               dataCount |-> rd.dataCount, packetCount |-> rd.packetCount,
               missingPackets |-> rd.missingPackets, dataGaps |-> rd.dataGaps,
               dataIndexOld |-> rd.dataIndexOld, packPreviousIndex |-> rd.packPreviousIndex]
    BY <2>1, <2>2 DEF Readers
  <2>6. rd' \in Readers(job.nch)
    BY <2>2, <2>3, <2>5 DEF Readers
  <2>7. rd'.end <=> rd.iFile = Len(files)
    BY <2>4, Zenon DEF last
  <2> QED
    BY <2>1, <2>4, <2>6, <2>7 DEF next
<1>2. ~rd.end /\ rd.packet > Len(files[rd.iFile]) /\ rd.iFile \in 1 .. Len(files) /\ rd.packet \in Nat
  BY DEF ReaderInv, NextFile, NeedsData, Readers
<1>3. ASSUME NEW f \in DOMAIN files, NEW p \in DOMAIN files[f], Behind(f, p)'
      PROVE  Behind(f, p)
  <2>1. f \in 1 .. Len(files) /\ Len(files) \in Nat
    BY LenProperties DEF ReaderInv
  <2>2. p \in 1 .. Len(files[f]) /\ Len(files[f]) \in Nat
    BY ElementOfSeq, LenProperties DEF ReaderInv
  <2>3. f <= rd.iFile
    <3>1. CASE rd'.end
      BY <1>1, <2>1, <3>1
    <3>2. CASE ~rd'.end
      BY <1>1, <1>2, <1>3, <2>1, <2>2, <3>2 DEF Behind
    <3> QED
      BY <3>1, <3>2
  <2> QED
    BY <1>2, <2>1, <2>2, <2>3 DEF Behind
<1>4. ~rd'.end => rd'.iFile \in 1 .. Len(files')
  <2>1. Len(files) \in Nat
    BY LenProperties DEF ReaderInv
  <2> QED
    BY <1>1, <1>2, <2>1
<1> QED
  BY <1>1, <1>3, <1>4 DEF ReaderInv

LEMMA ReadPacketStep == ASSUME ReaderInv, ReadPacket PROVE UNCHANGED job => ReaderInv'
<1> SUFFICES ASSUME UNCHANGED job PROVE ReaderInv'
  OBVIOUS
<1> DEFINE p == files[rd.iFile][rd.packet]
           old(i) == IF i = 1 THEN rd.dataIndexOld ELSE p.words[i - 1].counter
           gaps == {i \in DOMAIN p.words :
                      /\ ~Follows(p.words[i].counter, old(i), WordMod)
                      /\ rd.dataCount + i - 1 # 0}
           lost == /\ ~Follows(p.counter, rd.packPreviousIndex, PackMod)
                   /\ rd.dataCount # 0
                   /\ rd.packetCount + 1 >= StartupPackets
<1>0. /\ ~rd.end /\ rd.packet <= Len(files[rd.iFile]) /\ rd.iFile \in 1 .. Len(files)
      /\ rd.packet \in Nat \ {0} /\ rd.dataCount \in Nat
  BY DEF ReaderInv, ReadPacket, NeedsData, Readers
<1>1. p \in Packets(job.nch)
  <2>1. files[rd.iFile] \in Seq(Packets(job.nch))
    BY <1>0, ElementOfSeq DEF ReaderInv
  <2> QED
    BY <1>0, <2>1, ElementOfSeq, LenProperties
<1>2. Len(p.words) \in Nat /\ IsFiniteSet(gaps) /\ Cardinality(gaps) \in Nat
  <2>1. Len(p.words) \in Nat /\ DOMAIN p.words = 1 .. Len(p.words)
    BY <1>1, LenProperties DEF Packets
  <2>2. IsFiniteSet(DOMAIN p.words)
    BY <2>1, FS_Interval
  <2> QED
    BY <2>1, <2>2, FS_Subset, FS_CardinalityType
<1>3. /\ files' = files
      /\ rd' = [rd EXCEPT !.packet = @ + 1, !.buffer = p.words,
                          !.packetCount = @ + 1,
                          !.missingPackets = @ + (IF lost THEN 1 ELSE 0),
                          !.dataGaps = @ + Cardinality(gaps),
                          !.dataCount = @ + Len(p.words),
                          !.dataIndexOld = IF p.words = << >> THEN @ ELSE Last(p.words).counter,
                          !.packPreviousIndex = p.counter]
  BY DEF ReadPacket
<1>4. p.words # << >> => Last(p.words).counter \in Nat /\ Len(p.words) # 0
  <2> SUFFICES ASSUME p.words # << >>
               PROVE  Last(p.words).counter \in Nat /\ Len(p.words) # 0
    OBVIOUS
  <2>1. p.words \in Seq(Words(job.nch))
    BY <1>1 DEF Packets
  <2>2. Len(p.words) # 0 /\ Len(p.words) \in 1 .. Len(p.words)
    <3>1. Len(p.words) # 0
      BY <2>1, EmptySeq
    <3> HIDE DEF p
    <3> QED
      BY <1>2, <3>1
  <2>3. p.words[Len(p.words)] \in Words(job.nch)
    BY <2>1, <2>2, ElementOfSeq
  <2> QED
    BY <2>2, <2>3 DEF Last, Words
<1> HIDE DEF gaps, lost
<1>5. rd' \in Readers(job.nch)
  <2>1. /\ p.counter \in Nat
        /\ p.words \in Seq(Words(job.nch))
    BY <1>1 DEF Packets
  <2> DEFINE m == rd.missingPackets + (IF lost THEN 1 ELSE 0)
             g == rd.dataGaps + Cardinality(gaps)
             o == IF p.words = << >> THEN rd.dataIndexOld ELSE Last(p.words).counter
  <2>2. /\ rd \in Readers(job.nch) /\ rd.missingPackets \in Nat /\ rd.dataGaps \in Nat
        /\ rd.packet \in Nat \ {0} /\ rd.packetCount \in Nat /\ rd.dataIndexOld \in Nat
        /\ rd.iFile \in Nat /\ rd.end \in BOOLEAN
    BY DEF ReaderInv, Readers
  <2>3. m \in Nat
    <3> HIDE DEF p
    <3> QED
      BY <2>2
  <2>4. g \in Nat
    <3> HIDE DEF p
    <3> QED
      BY <1>2, <2>2
  <2>5. o \in Nat
    BY <1>4, <2>2
  <2>6. rd' = [rd EXCEPT !.packet = rd.packet + 1, !.buffer = p.words,
                         !.packetCount = rd.packetCount + 1, !.missingPackets = m, !.dataGaps = g,
                         !.dataCount = rd.dataCount + Len(p.words),
                         !.dataIndexOld = o, !.packPreviousIndex = p.counter]
    BY <1>3, Zenon
  <2> DEFINE w == p.words
             c == p.counter
  <2>7. w \in Seq(Words(job.nch)) /\ c \in Nat
        /\ Len(w) \in Nat
    BY <1>2, <2>1
  <2>8. rd' = [rd EXCEPT !.packet = rd.packet + 1, !.buffer = w,
                         !.packetCount = rd.packetCount + 1, !.missingPackets = m, !.dataGaps = g,
                         !.dataCount = rd.dataCount + Len(w),
                         !.dataIndexOld = o, !.packPreviousIndex = c]
    BY <2>6, Zenon
  <2> HIDE DEF p, m, g, o, w, c
  <2>9. rd.packet + 1 \in Nat \ {0} /\ rd.packetCount + 1 \in Nat /\ rd.dataCount + Len(w) \in Nat
    BY <1>0, <2>2, <2>7
  <2>10. rd' = [iFile |-> rd.iFile, packet |-> rd.packet + 1, buffer |-> w, end |-> rd.end,
               dataCount |-> rd.dataCount + Len(w), packetCount |-> rd.packetCount + 1,
               missingPackets |-> m, dataGaps |-> g, dataIndexOld |-> o, packPreviousIndex |-> c]
    BY <2>2, <2>8 DEF Readers
  <2> QED
    BY <2>2, <2>3, <2>4, <2>5, <2>7, <2>9, <2>10 DEF Readers
<1>6. /\ rd'.packet = rd.packet + 1 /\ rd'.dataCount = rd.dataCount + Len(p.words)
      /\ rd'.end = rd.end /\ rd'.iFile = rd.iFile
  BY <1>3 DEF ReaderInv, Readers
<1>7. ASSUME NEW f \in DOMAIN files, NEW q \in DOMAIN files[f], Behind(f, q)',
             files[f][q].words # << >>
      PROVE  rd'.dataCount # 0
  <2>1. q \in Nat /\ f \in Nat
    BY ElementOfSeq, LenProperties DEF ReaderInv
  <2>2. CASE Behind(f, q)
    <3>1. rd.dataCount # 0
      BY <1>7, <2>2 DEF ReaderInv
    <3> HIDE DEF p
    <3> QED
      BY <1>0, <1>2, <1>6, <3>1
  <2>3. CASE ~Behind(f, q)
    <3>1. f = rd.iFile /\ q = rd.packet
      BY <1>0, <1>6, <1>7, <2>1, <2>3 DEF Behind
    <3> QED
      BY <1>0, <1>2, <1>4, <1>6, <1>7, <3>1
  <2> QED
    BY <2>2, <2>3
<1> QED
  BY <1>0, <1>3, <1>5, <1>6, <1>7 DEF ReaderInv

LEMMA PopWordStep == ASSUME ReaderInv, HasWord, PopWord PROVE UNCHANGED job => ReaderInv'
<1> SUFFICES ASSUME UNCHANGED job PROVE ReaderInv'
  OBVIOUS
<1>1. Tail(rd.buffer) \in Seq(Words(job.nch))
  BY HeadTailProperties DEF ReaderInv, Readers, HasWord
<1>2. rd' \in Readers(job.nch) /\ files' = files
  BY <1>1 DEF ReaderInv, Readers, PopWord
<1>3. /\ rd'.packet = rd.packet /\ rd'.dataCount = rd.dataCount /\ rd'.end = rd.end
      /\ rd'.iFile = rd.iFile
  BY DEF ReaderInv, Readers, PopWord
<1> QED
  BY <1>2, <1>3 DEF ReaderInv, Behind

-----------------------------------------------------------------------------
(* What is left of a readout.                                              *)

HasData == \E f \in DOMAIN files : \E p \in DOMAIN files[f] : files[f][p].words # << >>

JobInv ==
  /\ job \in [mode : Modes, nCols : Nat, nRows : Nat, nch : Nat, nsamp : Nat,
              perPacket : Nat \ {0}, nSamps : Seq(Seq(Nat)), nColsAve : Nat,
              bufferSize : Nat, regMaxCol : Nat, regMaxRow : Nat, tool : BOOLEAN]
  /\ [job EXCEPT !.tool = FALSE] \in Jobs
  /\ job.tool => job.mode = "fits"
  /\ phase \in Running \cup Ended
  /\ phase \in {"save_counts", "delete"} => job.mode = "fits"
  /\ phase \in {"save_counts", "delete", "compress"} => rd.end

(* Nothing is deleted before the data have been looked at and the image is *)
(* closed; then what is not good, or could not be compressed, stays.       *)
KeptInv ==
  /\ dataGood \in BOOLEAN /\ deleteDats \in BOOLEAN /\ keepTemp \in BOOLEAN /\ dats \in BOOLEAN
  /\ job.mode = "fits" /\ phase \in {"read", "save_counts", "delete", "too many channels"} => dats
  /\ job.mode = "fits" /\ phase \in {"delete", "compress"} => fits = "closed"
  /\ job.tool /\ phase = "delete" => ~deleteDats /\ keepTemp
  /\ job.tool /\ HasData => dats
  /\ job.mode = "fits" /\ HasData
       => \/ dats \/ fits = "closed" \/ fz = "whole"
          \/ phase = "done" /\ ~keepTemp
  /\ job.mode = "fits" /\ HasData /\ keepTemp /\ ~dataGood /\ phase \in {"compress", "done"}
       => dats /\ fits = "closed"

Inv == ReaderInv /\ JobInv /\ KeptInv

LEMMA DataCounted == ASSUME ReaderInv, HasData, rd.end PROVE rd.dataCount # 0
BY DEF ReaderInv, HasData, Behind

LEMMA InitInv == ASSUME Init PROVE Inv
<1>1. job \in [mode : Modes, nCols : Nat, nRows : Nat, nch : Nat, nsamp : Nat,
              perPacket : Nat \ {0}, nSamps : Seq(Seq(Nat)), nColsAve : Nat,
              bufferSize : Nat, regMaxCol : Nat, regMaxRow : Nat, tool : {FALSE}]
  BY ConversionAssumption DEF Init
<1>2. [job EXCEPT !.tool = FALSE] = job
  BY <1>1
<1>3. JobInv
  BY <1>1, <1>2 DEF Init, JobInv, Running
<1>4. KeptInv
  BY <1>1 DEF Init, KeptInv
<1> QED
  BY <1>3, <1>4, ReaderInvInit DEF Inv

(* The steps of the other actions that matter here. *)
LEMMA ReaderInvStep == ASSUME Inv, [Next]_vars PROVE ReaderInv'
<1>1. CASE UNCHANGED <<readerVars, job>>
  BY <1>1 DEF Inv, ReaderInv, Behind, readerVars
<1>2. CASE Read
  BY <1>2, NextFileStep, ReadPacketStep DEF Inv, Read
<1>3. ASSUME NEW mode, InLoop(mode), UNCHANGED job PROVE ReaderInv'
  BY <1>3, PopWordStep DEF Inv, InLoop
<1>4. CASE readOldDatFiles
  <2>1. files' = files /\ rd' = NewReader /\ job'.nch = job.nch
    BY <1>4 DEF readOldDatFiles, Inv, JobInv
  <2>2. rd'.iFile = 1 /\ rd'.packet = 1 /\ rd'.end = FALSE
    BY <2>1 DEF NewReader
  <2>3. files \in Seq(Seq(Packets(job.nch))) /\ files # << >>
    BY DEF Inv, ReaderInv
  <2>4. \A f \in DOMAIN files : \A p \in DOMAIN files[f] : ~Behind(f, p)'
    BY <2>2, <2>3, FreshReader DEF Behind
  <2> QED
    BY <2>1, <2>3, <2>4, FreshReader DEF ReaderInv
<1>5. CASE FitsWord \/ FitsEnd
  BY <1>1, <1>3, <1>5 DEF FitsWord, FitsEnd, FitsLeft, AtEnd
<1>6. CASE SaveCounts \/ DeleteDats \/ CompressFits \/ Kill
  BY <1>1, <1>6 DEF SaveCounts, DeleteDats, CompressFits, Kill
<1>7. CASE MisplaceWord
  BY <1>3, <1>7 DEF MisplaceWord
<1>8. CASE InterleavingWord \/ SmartWord \/ CalibrateWord
  BY <1>3, <1>8 DEF InterleavingWord, SmartWord, CalibrateWord, PlaceWord
<1>9. CASE RawWord
  BY <1>3, <1>9 DEF RawWord
<1>10. CASE InterleavingEnd \/ SmartEnd \/ RawEnd \/ CalibrateEnd
  BY <1>1, <1>10 DEF InterleavingEnd, SmartEnd, RawEnd, CalibrateEnd, AtEnd
<1>11. CASE UNCHANGED vars
  BY <1>1, <1>11 DEF vars
<1> QED
  BY <1>2, <1>4, <1>5, <1>6, <1>7, <1>8, <1>9, <1>10, <1>11 DEF Next

(* In the loops, whatever they do with the pixels. *)
Loops ==
  /\ UNCHANGED <<files, job, diskVars>>
  /\ phase = "read" /\ phase' \in {"read", "undefined"}

LEMMA LoopSteps ==
  ASSUME Read \/ MisplaceWord \/ InterleavingWord \/ SmartWord \/ RawWord \/ CalibrateWord
  PROVE  Loops
<1> USE DEF Loops
<1>1. CASE Read
  BY <1>1 DEF Read, NextFile, ReadPacket
<1>2. CASE MisplaceWord
  BY <1>2 DEF MisplaceWord, InLoop, PopWord
<1>3. CASE InterleavingWord
  <2>1. UNCHANGED <<files, job, diskVars>> /\ phase = "read"
    BY <1>3 DEF InterleavingWord, PlaceWord, InLoop, PopWord
  <2>2. phase' \in {"read", "undefined"}
    BY <1>3, <2>1 DEF InterleavingWord, compute_pixel_value
  <2> QED
    BY <2>1, <2>2
<1>4. CASE SmartWord
  <2>1. UNCHANGED <<files, job, diskVars>> /\ phase = "read"
    BY <1>4 DEF SmartWord, PlaceWord, InLoop, PopWord
  <2>2. phase' \in {"read", "undefined"}
    BY <1>4, <2>1 DEF SmartWord, compute_pixel_value_smart
  <2> QED
    BY <2>1, <2>2
<1>5. CASE RawWord
  BY <1>5 DEF RawWord, InLoop, PopWord
<1>6. CASE CalibrateWord
  BY <1>6 DEF CalibrateWord, PlaceWord, InLoop, PopWord
<1> QED
  BY <1>1, <1>2, <1>3, <1>4, <1>5, <1>6

LEMMA JobInvStep == ASSUME Inv, [Next]_vars PROVE JobInv'
<1> USE DEF Running, Ended, JobInv
<1>0. JobInv
  BY DEF Inv
<1>1. CASE Loops
  BY <1>0, <1>1 DEF Loops
<1>2. CASE FitsWord \/ FitsEnd
  <2>1. UNCHANGED job /\ job.mode = "fits"
    BY <1>2 DEF FitsWord, FitsEnd, FitsLeft, InLoop, AtEnd
  <2>2. FitsWord => phase' \in {"read", "too many channels"}
    BY DEF FitsWord, FlushIf
  <2>3. FitsEnd => phase' \in {"save_counts", "too many channels"} /\ rd.end /\ UNCHANGED rd
    BY DEF FitsEnd, FlushIf, AtEnd, readerVars
  <2> QED
    BY <1>0, <1>2, <2>1, <2>2, <2>3
<1>3. CASE SaveCounts \/ DeleteDats \/ CompressFits \/ Kill
  BY <1>0, <1>3 DEF SaveCounts, DeleteDats, CompressFits, Kill, readerVars
<1>4. CASE InterleavingEnd \/ SmartEnd \/ RawEnd \/ CalibrateEnd
  <2>1. UNCHANGED <<job, rd>> /\ rd.end
    BY <1>4 DEF InterleavingEnd, SmartEnd, RawEnd, CalibrateEnd, AtEnd, readerVars
  <2>2. phase' \in {"done", "undefined", "compress"}
    BY <1>4 DEF InterleavingEnd, SmartEnd, RawEnd, CalibrateEnd, compute_pixel_value,
                compute_pixel_value_smart
  <2> QED
    BY <1>0, <2>1, <2>2
<1>5. CASE readOldDatFiles
  <2>1. job' = [job EXCEPT !.tool = TRUE] /\ job.mode = "fits" /\ phase' = "read"
    BY <1>5 DEF readOldDatFiles
  <2>2. [job' EXCEPT !.tool = FALSE] = [job EXCEPT !.tool = FALSE]
    BY <1>0, <2>1
  <2> QED
    BY <1>0, <2>1, <2>2
<1>6. CASE UNCHANGED vars
  BY <1>0, <1>6 DEF vars, readerVars
<1> QED
  BY <1>1, <1>2, <1>3, <1>4, <1>5, <1>6, LoopSteps DEF Next

LEMMA KeptInvStep == ASSUME Inv, [Next]_vars PROVE KeptInv'
<1> USE DEF KeptInv
<1>0. KeptInv /\ JobInv
  BY DEF Inv
<1>a. UNCHANGED files => (HasData' <=> HasData)
  BY DEF HasData
<1>1. CASE Loops
  BY <1>0, <1>1, <1>a DEF Loops, diskVars
<1>2. CASE FitsWord \/ FitsEnd
  <2>1. /\ UNCHANGED <<files, job, dataGood, deleteDats, keepTemp, dats, fz>>
        /\ phase = "read" /\ job.mode = "fits"
        /\ phase' # "too many channels" => UNCHANGED fits
    BY <1>2 DEF FitsWord, FitsEnd, FitsLeft, InLoop, AtEnd, PopWord, readerVars
  <2>2. phase' \in {"read", "save_counts", "too many channels"}
    BY <1>2 DEF FitsWord, FitsEnd, FlushIf
  <2>3. dats
    BY <1>0, <2>1
  <2> QED
    BY <1>0, <1>a, <2>1, <2>2, <2>3
<1>3. CASE SaveCounts
  <2>1. /\ UNCHANGED <<files, job, dats, fz>> /\ phase = "save_counts" /\ phase' = "delete"
        /\ fits' = "closed" /\ (job.tool => ~deleteDats' /\ keepTemp')
        /\ deleteDats' \in BOOLEAN /\ keepTemp' \in BOOLEAN
    BY <1>3 DEF SaveCounts, readerVars
  <2>2. dataGood' \in BOOLEAN
    BY <1>3 DEF SaveCounts
  <2>3. job.mode = "fits" /\ dats
    BY <1>0, <2>1 DEF JobInv
  <2> QED
    BY <1>0, <1>a, <2>1, <2>2, <2>3
<1>4. CASE DeleteDats
  <2>1. /\ UNCHANGED <<files, job, dataGood, deleteDats, keepTemp, fz>> /\ phase = "delete"
        /\ phase' = IF rd.dataCount # 0 THEN "compress" ELSE "done"
    BY <1>4 DEF DeleteDats, readerVars
  <2>2. job.mode = "fits" /\ dats /\ fits = "closed" /\ rd.end
    BY <1>0, <2>1 DEF JobInv
  <2>3. HasData => phase' = "compress" /\ rd.dataCount # 0
    BY <2>1, <2>2, DataCounted DEF Inv
  <2>4. phase' = "compress" => UNCHANGED fits
    BY <1>4, <2>1 DEF DeleteDats
  <2>5. dats' \in BOOLEAN
    BY <1>0, <1>4 DEF DeleteDats
  <2>6. HasData /\ job.tool => dats'
    BY <1>0, <1>4, <2>1, <2>2, <2>3 DEF DeleteDats
  <2>7. HasData /\ keepTemp /\ ~dataGood => dats'
    BY <1>4, <2>2, <2>3 DEF DeleteDats
  <2> QED
    BY <1>0, <1>a, <2>1, <2>2, <2>3, <2>4, <2>5, <2>6, <2>7
<1>5. CASE CompressFits
  <2>1. /\ UNCHANGED <<files, job, dataGood, deleteDats, keepTemp, dats>> /\ phase = "compress"
        /\ phase' = "done"
    BY <1>5 DEF CompressFits, readerVars
  <2>2. job.mode = "fits" => \/ fz' = "whole" \/ ~keepTemp \/ fits' = fits
    BY <1>0, <1>5 DEF CompressFits
  <2>3. job.mode = "fits" /\ keepTemp /\ ~dataGood => fits' = fits
    BY <1>5 DEF CompressFits
  <2>4. job.mode = "fits" => fits = "closed"
    BY <1>0, <2>1
  <2> QED
    BY <1>0, <1>a, <2>1, <2>2, <2>3, <2>4
<1>6. CASE Kill
  <2>1. /\ UNCHANGED <<files, job, dataGood, deleteDats, keepTemp, dats, fits>>
        /\ phase \in Running /\ phase' = "killed"
        /\ phase # "compress" => fz' = fz
    BY <1>6 DEF Kill, readerVars
  <2>2. job.mode = "fits" => dats \/ fits = "closed"
    BY <1>0, <2>1 DEF Running
  <2> QED
    BY <1>0, <1>a, <2>1, <2>2
<1>7. CASE InterleavingEnd \/ SmartEnd \/ CalibrateEnd \/ RawEnd
  <2>1. /\ UNCHANGED <<files, job, dataGood, keepTemp>> /\ job.mode # "fits"
    BY <1>7 DEF InterleavingEnd, SmartEnd, CalibrateEnd, RawEnd, AtEnd, readerVars
  <2>2. deleteDats' \in BOOLEAN /\ dats' \in BOOLEAN
    BY <1>0, <1>7 DEF InterleavingEnd, SmartEnd, CalibrateEnd, RawEnd
  <2>3. ~job.tool
    BY <1>0, <2>1 DEF JobInv
  <2> QED
    BY <1>0, <1>a, <2>1, <2>2, <2>3
<1>8. CASE readOldDatFiles
  <2>1. /\ UNCHANGED <<files, deleteDats, keepTemp, dats>> /\ dats
        /\ dataGood' = FALSE /\ phase' = "read"
    BY <1>8 DEF readOldDatFiles
  <2> QED
    BY <1>0, <1>a, <2>1
<1>9. CASE UNCHANGED vars
  BY <1>0, <1>9, <1>a DEF vars, readerVars, diskVars
<1> QED
  BY <1>1, <1>2, <1>3, <1>4, <1>5, <1>6, <1>7, <1>8, <1>9, LoopSteps DEF Next

LEMMA Invariance == Spec => []Inv
<1>1. Inv /\ [Next]_vars => Inv'
  BY ReaderInvStep, JobInvStep, KeptInvStep DEF Inv
<1> QED
  BY <1>1, InitInv, PTL DEF Spec

LEMMA DataRecorded == ASSUME ReaderInv, Recorded # << >> PROVE HasData
<1>1. files \in Seq(Seq(Packets(job.nch)))
  BY DEF ReaderInv
<1> QED
  BY <1>1, RecordedSomewhere DEF HasData

(* The data files are never deleted by a readOldDatFiles that found data in *)
(* them (save_counts and the end of bin_to_fits with the options the tool   *)
(* sets).                                                                   *)
THEOREM ToolDeletesNothing == Spec => []ToolKeepsData
<1>1. Inv => ToolKeepsData
  BY DataRecorded DEF Inv, KeptInv, ToolKeepsData
<1> QED
  BY <1>1, Invariance, PTL

(* Wherever the daemon is killed, a readout can be had from its data files  *)
(* or from a closed image (the order in which bin_to_fits closes, checks,   *)
(* deletes and compresses).                                                 *)
THEOREM ReadoutsSurvive == Spec => []Recoverable
<1>1. Inv => Recoverable
  BY DataRecorded DEF Inv, KeptInv, Recoverable
<1> QED
  BY <1>1, Invariance, PTL

-----------------------------------------------------------------------------
(* What a channel's words give.                                            *)

Selects(g, w, c) ==
  /\ g \in [0 .. Len(w) -> Seq(Int)] /\ g[0] = << >>
  /\ \A k \in 1 .. Len(w) :
       g[k] = IF w[k].chID = c THEN Append(g[k - 1], w[k].samp) ELSE g[k - 1]

LEMMA SamplesRecursive ==
  ASSUME NEW nch, NEW w \in Seq(Words(nch)), NEW c
  PROVE  \E g : Selects(g, w, c) /\ SamplesIn(w, c) = g[Len(w)]
<1> DEFINE n == Len(w)
           X == Seq(Int)
           R(f) == f = [k \in 0 .. n |->
                          IF k = 0 THEN << >>
                          ELSE IF w[k].chID = c THEN Append(f[k - 1], w[k].samp) ELSE f[k - 1]]
           of == CHOOSE f : R(f)
           step == [p \in (1 .. n) \X X |->
                      IF w[p[1]].chID = c THEN Append(p[2], w[p[1]].samp) ELSE p[2]]
<1>1. n \in Nat /\ \A k \in 1 .. n : w[k] \in Words(nch) /\ w[k].samp \in Int
  <2>1. n \in Nat /\ \A k \in 1 .. n : w[k] \in Words(nch)
    BY LenProperties, ElementOfSeq
  <2> HIDE DEF n
  <2> QED
    BY <2>1 DEF Words
<1>2. step \in [(1 .. n) \X X -> X]
  BY <1>1, AppendProperties
<1>3. PICK g : Recurs(g, X, << >>, n, step)
  <2>1. << >> \in X /\ n \in Nat
    BY <1>1, EmptySeq
  <2> HIDE DEF X, step, n
  <2> QED
    BY <1>2, <2>1, RecursionHasSolution
<1>4. \A k \in 1 .. n : k - 1 \in 0 .. n
  <2> HIDE DEF n
  <2> QED
    BY <1>1
<1>5. ASSUME NEW k \in 1 .. n
      PROVE  g[k] = IF w[k].chID = c THEN Append(g[k - 1], w[k].samp) ELSE g[k - 1]
  <2>1. <<k, g[k - 1]>> \in (1 .. n) \X X
    BY <1>3, <1>4 DEF Recurs
  <2> QED
    BY <1>3, <2>1 DEF Recurs
<1>6. R(g)
  <2>1. g = [k \in 0 .. n |-> g[k]] /\ g[0] = << >>
    BY <1>3 DEF Recurs
  <2>2. \A k \in 0 .. n : k # 0 => k \in 1 .. n
    <3> HIDE DEF n
    <3> QED
      BY <1>1
  <2> QED
    BY <1>5, <2>1, <2>2
<1>7. SamplesIn(w, c) = of[n]
  BY Zenon DEF SamplesIn
<1>8. R(of)
  <2> HIDE DEF R
  <2> QED
    BY <1>6, Zenon
<1> HIDE DEF of, n, X, step
<1>9. n \in 0 .. n /\ 0 \in 0 .. n /\ \A k \in 1 .. n : k \in 0 .. n /\ k # 0
  BY <1>1
<1>10. /\ of[0] = << >>
       /\ \A k \in 1 .. n : of[k] = IF w[k].chID = c THEN Append(of[k - 1], w[k].samp) ELSE of[k - 1]
  BY <1>8, <1>9
<1> DEFINE T == {k \in 0 .. n : of[k] # g[k]}
<1>11. T = {}
  <2>1. SUFFICES ASSUME T # {} PROVE FALSE
    OBVIOUS
  <2>2. PICK m \in T : \A k \in T : m <= k
    <3>1. T \in SUBSET Nat
      OBVIOUS
    <3> HIDE DEF T
    <3> QED
      BY <2>1, <3>1, SmallestNumber
  <2>3. m \in 0 .. n /\ of[m] # g[m]
    OBVIOUS
  <2>4. m # 0
    BY <1>3, <1>10, <2>3 DEF Recurs
  <2>5. m \in 1 .. n /\ m - 1 \in 0 .. n /\ m - 1 \notin T
    BY <1>1, <2>2, <2>3, <2>4
  <2> QED
    BY <1>5, <1>10, <2>3, <2>5
<1>12. of[n] = g[n]
  BY <1>9, <1>11
<1> QED
  BY <1>3, <1>5, <1>7, <1>12 DEF Recurs, Selects, n, X

Pixels(w, c) == Negated(SamplesIn(w, c))

LEMMA NoPixels == \A c : Pixels(<< >>, c) = << >>
<1> SUFFICES ASSUME NEW c PROVE Pixels(<< >>, c) = << >>
  OBVIOUS
<1>1. << >> \in Seq(Words(0)) /\ Len(<< >>) = 0
  BY EmptySeq
<1> DEFINE w == << >>
<1>2. w \in Seq(Words(0)) /\ Len(w) = 0
  BY <1>1
<1> HIDE DEF w
<1>3. PICK g : Selects(g, w, c) /\ SamplesIn(w, c) = g[Len(w)]
  BY <1>2, SamplesRecursive
<1>4. SamplesIn(<< >>, c) = << >>
  BY <1>2, <1>3 DEF w, Selects
<1> QED
  BY <1>4 DEF Pixels, Negated

LEMMA PixelsAppend ==
  ASSUME NEW nch, NEW w \in Seq(Words(nch)), NEW v \in Words(nch), NEW c
  PROVE  /\ Pixels(w, c) \in Seq(Int)
         /\ Pixels(Append(w, v), c) = IF v.chID = c THEN Append(Pixels(w, c), -v.samp) ELSE Pixels(w, c)
<1> DEFINE n == Len(w)
           u == Append(w, v)
<1>1. /\ n \in Nat /\ u \in Seq(Words(nch)) /\ Len(u) = n + 1
      /\ \A k \in 1 .. n : u[k] = w[k]
      /\ u[n + 1] = v /\ v.samp \in Int
  BY LenProperties, AppendProperties DEF Words
<1>2. PICK g : Selects(g, w, c) /\ SamplesIn(w, c) = g[Len(w)]
  BY SamplesRecursive
<1> HIDE DEF u
<1>3. PICK h : Selects(h, u, c) /\ SamplesIn(u, c) = h[Len(u)]
  BY <1>1, SamplesRecursive
<1>a. n = Len(w)
  OBVIOUS
<1> HIDE DEF n
<1> DEFINE T == {k \in 0 .. n : g[k] # h[k]}
<1>4. T = {}
  <2>1. SUFFICES ASSUME T # {} PROVE FALSE
    OBVIOUS
  <2>2. PICK m \in T : \A k \in T : m <= k
    <3>1. T \in SUBSET Nat
      OBVIOUS
    <3> HIDE DEF T
    <3> QED
      BY <2>1, <3>1, SmallestNumber
  <2>3. m \in 0 .. n /\ g[m] # h[m]
    OBVIOUS
  <2>4. m # 0
    BY <1>2, <1>3, <2>3 DEF Selects
  <2>5. m \in 1 .. n /\ m \in 1 .. Len(u) /\ m - 1 \in 0 .. n /\ m - 1 \notin T
    BY <1>1, <2>2, <2>3, <2>4
  <2> QED
    BY <1>1, <1>2, <1>3, <1>a, <2>3, <2>5 DEF Selects
<1>5. g[n] = h[n] /\ g[n] \in Seq(Int)
  BY <1>1, <1>2, <1>4, <1>a DEF Selects
<1>6. SamplesIn(w, c) = g[n]
  BY <1>2, <1>a
<1>7. SamplesIn(u, c) = IF v.chID = c THEN Append(g[n], v.samp) ELSE g[n]
  <2>1. n + 1 \in 1 .. Len(u) /\ (n + 1) - 1 = n
    BY <1>1
  <2>2. h[n + 1] = IF u[n + 1].chID = c THEN Append(h[(n + 1) - 1], u[n + 1].samp) ELSE h[(n + 1) - 1]
    BY <1>3, <2>1 DEF Selects
  <2> QED
    BY <1>1, <1>3, <1>5, <2>1, <2>2
<1>8. ASSUME NEW x \in Seq(Int), NEW y \in Int
      PROVE  Negated(x) \in Seq(Int) /\ Negated(Append(x, y)) = Append(Negated(x), -y)
  <2>1. Len(x) \in Nat /\ DOMAIN x = 1 .. Len(x) /\ \A i \in 1 .. Len(x) : x[i] \in Int
    BY LenProperties, ElementOfSeq
  <2>2. Negated(x) \in Seq(Int) /\ Len(Negated(x)) = Len(x)
        /\ \A i \in 1 .. Len(x) : Negated(x)[i] = -x[i]
    BY <2>1 DEF Negated
  <2>3. /\ Append(x, y) \in Seq(Int) /\ Len(Append(x, y)) = Len(x) + 1
        /\ \A i \in 1 .. Len(x) : Append(x, y)[i] = x[i]
        /\ Append(x, y)[Len(x) + 1] = y /\ DOMAIN Append(x, y) = 1 .. Len(x) + 1
    BY AppendProperties, LenProperties
  <2> DEFINE s == Negated(Append(x, y))
             t == Append(Negated(x), -y)
  <2>4. s = [i \in 1 .. Len(x) + 1 |-> -Append(x, y)[i]]
    BY <2>3 DEF Negated
  <2>5. \A i \in 1 .. Len(x) + 1 : i \notin 1 .. Len(x) => i = Len(x) + 1
    BY <2>1
  <2>6. s \in Seq(Int) /\ Len(s) = Len(x) + 1
    BY <2>1, <2>3, <2>4, <2>5
  <2>7. /\ t \in Seq(Int) /\ Len(t) = Len(x) + 1 /\ t[Len(x) + 1] = -y
        /\ \A i \in 1 .. Len(x) : t[i] = -x[i]
    <3>1. -y \in Int
      OBVIOUS
    <3> QED
      BY <2>2, <3>1, AppendProperties
  <2>8. \A i \in 1 .. Len(s) : s[i] = t[i]
    BY <2>3, <2>4, <2>5, <2>6, <2>7
  <2> HIDE DEF s, t
  <2>9. s = t
    BY <2>6, <2>7, <2>8, SeqEqual
  <2> QED
    BY <2>2, <2>9 DEF s, t
<1>9. Pixels(w, c) \in Seq(Int) /\ Pixels(w, c) = Negated(g[n])
  BY <1>5, <1>6, <1>8, <1>1 DEF Pixels
<1>10. Pixels(u, c) = IF v.chID = c THEN Append(Negated(g[n]), -v.samp) ELSE Negated(g[n])
  BY <1>1, <1>5, <1>7, <1>8 DEF Pixels
<1> QED
  BY <1>9, <1>10 DEF u

=============================================================================
