------------------------------ MODULE Conversion ------------------------------
(***************************************************************************)
(* Class DataConversion: the .dat files of a readout are turned into an    *)
(* image, and then files are deleted.  Each bin_to_... function is a loop  *)
(* over the words of the files followed by what it does at the end; the    *)
(* loop's iterations and the steps of the end are actions.  The process    *)
(* may be killed between any two, and readOldDatFiles run on what is left. *)
(*                                                                         *)
(* Reading or writing outside a vector ends the behaviour: phase is        *)
(* "undefined".                                                            *)
(***************************************************************************)
EXTENDS DatReader

CONSTANTS
  Jobs,        (* the readouts to convert, with the image size expected      *)
  Recordings(_),  (* the .dat files a readout may leave                      *)
  ChunkSize    (* FITS_CHUNKSIZE: words buffered before they are written     *)

F == INSTANCE FitsWriter

Modes == {"fits", "interleaving", "smart", "raw", "calibrate"}

(* A readout leaves at least one file, in which nch channels are found;    *)
(* there are words in the packets the board sends.                         *)
(* calculateSmartImageDimensions gives a smart image at least one row and  *)
(* each row the same number of pixels; a calibration reads a margin around *)
(* its region.                                                             *)
ASSUME ConversionAssumption ==
  /\ ChunkSize \in Nat
  /\ Jobs \subseteq [mode : Modes, nCols : Nat, nRows : Nat, nch : Nat, nsamp : Nat,
                     perPacket : Nat \ {0}, nSamps : Seq(Seq(Nat)), nColsAve : Nat,
                     bufferSize : Nat, regMaxCol : Nat, regMaxRow : Nat, tool : {FALSE}]
  /\ \A j \in Jobs :
       /\ Recordings(j) \subseteq Seq(Seq(Packets(j.nch))) \ {<< >>}
       /\ j.mode = "smart" => /\ j.nSamps # << >>
                              /\ \A r \in DOMAIN j.nSamps : Len(j.nSamps[r]) = j.nColsAve
       /\ j.mode = "calibrate" => j.regMaxCol < j.nCols /\ j.regMaxRow < j.nRows

VARIABLES
  job,              (* the readout converted: see Jobs                      *)
  phase,            (* where the conversion is                              *)
  pixelsVectorMap,  (* bin_to_fits: channel -> pixels not written yet       *)
  bufferedWords,
  pixelsVector,     (* the others: pixels not used yet, by order of arrival *)
  channelIndex,     (*   of the channels, and channel -> place in it        *)
  rows,             (* bin_to_fits_smart: the row each channel is filling    *)
  outf, outfAve,    (* the image files being written                        *)
  dataGood, deleteDats, keepTemp, dats, fits, fz  (* what the end works on  *)

imageVars == <<pixelsVectorMap, bufferedWords, pixelsVector, channelIndex, rows, outf, outfAve>>
diskVars == <<dataGood, deleteDats, keepTemp, dats, fits, fz>>
vars == <<readerVars, job, phase, imageVars, diskVars>>

Running == {"read", "save_counts", "delete", "compress"}
Ended == {"done", "too many channels", "undefined", "killed"}

TypeOK ==
  /\ [job EXCEPT !.tool = FALSE] \in Jobs /\ job.mode \in Modes
  /\ phase \in Running \cup Ended
  /\ DOMAIN pixelsVectorMap \subseteq 0 .. job.nch - 1
  /\ bufferedWords \in Nat /\ Len(pixelsVector) <= job.nch
  /\ \A i \in DOMAIN channelIndex : channelIndex[i] \in -1 .. Len(pixelsVector) - 1
  /\ \A h \in F!HDUs : Len(outf.data[h]) <= outf.pixExpected
  /\ dataGood \in BOOLEAN /\ deleteDats \in BOOLEAN /\ keepTemp \in BOOLEAN
  /\ dats \in BOOLEAN                         (* the .dat files exist        *)
  /\ fits \in {"none", "open", "closed"}      (* the uncompressed image file *)
  /\ fz \in {"none", "partial", "whole"}      (* the compressed image file   *)

(* The dimensions of a smart readout: row r has job.nSamps[r][i] samples   *)
(* of its i-th pixel.                                                      *)
Total(s) == FoldLeft(+, 0, s)
nCols(r) == Total(job.nSamps[r])
nColsAllMax == CHOOSE n \in {nCols(r) : r \in DOMAIN job.nSamps} :
                 \A r \in DOMAIN job.nSamps : nCols(r) <= n

NewImage ==
  IF job.mode = "smart" THEN F!create_img(nColsAllMax, Len(job.nSamps))
  ELSE F!create_img(job.nCols, job.nRows)

NoRows == [h \in F!HDUs |-> [row |-> 1, filled |-> << >>]]

Init ==
  /\ job \in Jobs
  /\ files \in Recordings(job)
  /\ rd = NewReader
  /\ phase = "read"
  /\ pixelsVectorMap = << >> /\ bufferedWords = 0
  /\ pixelsVector = << >> /\ channelIndex = << >> /\ rows = NoRows
  /\ outf = NewImage
  /\ outfAve = F!create_img(job.nColsAve, Len(job.nSamps))
  /\ dataGood = FALSE /\ deleteDats = TRUE /\ keepTemp = FALSE
  /\ dats = TRUE /\ fits = "open" /\ fz = "none"

Read == phase = "read" /\ (NextFile \/ ReadPacket) /\ UNCHANGED <<job, phase, imageVars, diskVars>>

InLoop(mode) == phase = "read" /\ job.mode = mode /\ HasWord /\ PopWord
AtEnd(mode) == phase = "read" /\ job.mode = mode /\ rd.end /\ UNCHANGED readerVars

(* What the channels have is written, each to its HDU.                     *)
dump_channels(o, hdu, pixels) ==
  FoldLeft(LAMBDA w, c : F!dump_to_fits(w, hdu[c], pixels[c]), o, SetToSeq(DOMAIN pixels))

-----------------------------------------------------------------------------
(* bin_to_fits.                                                            *)

Channels(map) == DOMAIN map

(* The channels seen so far are given the HDUs in the order of their ids:  *)
(* this is done only when all of them have been seen.                      *)
HduOf(map, c) == Cardinality({d \in Channels(map) : d <= c})

(* Mutant: what has been written stays in the buffers. *)
FlushKeeping(map) ==
  /\ outf' = dump_channels(outf, [c \in Channels(map) |-> HduOf(map, c)], map)
  /\ pixelsVectorMap' = map

Flush(map) ==
  /\ outf' = dump_channels(outf, [c \in Channels(map) |-> HduOf(map, c)], map)
  /\ pixelsVectorMap' = [c \in Channels(map) |-> << >>]

Buffered(map, w) ==
  [c \in Channels(map) \cup {w.chID} |->
     IF c # w.chID THEN map[c]
     ELSE IF c \in Channels(map) THEN Append(map[c], -w.samp) ELSE <<-w.samp>>]

(* The end of an iteration: write the buffers, or wait for the channels    *)
(* not seen yet, or give up.                                               *)
FlushIf(full, map, buffered, next) ==
  LET n == Cardinality(Channels(map))
  IN \/ /\ full /\ n = NumChannels
        /\ Flush(map) /\ bufferedWords' = 0 /\ phase' = next
     \/ /\ full /\ n > NumChannels
        /\ pixelsVectorMap' = map /\ bufferedWords' = buffered /\ UNCHANGED outf
        /\ phase' = "too many channels"
     \/ /\ ~full \/ n < NumChannels
        /\ pixelsVectorMap' = map /\ bufferedWords' = buffered /\ UNCHANGED outf
        /\ phase' = next

(* Giving up, the function returns and its FitsWriter closes the image.    *)
FitsLeft ==
  /\ fits' = IF phase' = "too many channels" THEN "closed" ELSE fits
  /\ UNCHANGED <<job, pixelsVector, channelIndex, rows, outfAve,
                 dataGood, deleteDats, keepTemp, dats, fz>>

FitsWord ==
  /\ InLoop("fits")
  /\ FlushIf(bufferedWords + 1 >= ChunkSize, Buffered(pixelsVectorMap, NextWord),
             bufferedWords + 1, "read")
  /\ FitsLeft

FitsEnd ==
  /\ AtEnd("fits")
  /\ FlushIf(TRUE, pixelsVectorMap, bufferedWords, "save_counts")
  /\ FitsLeft

(* Mutant: words that do not follow each other are not looked at. *)
SaveCountsOnly ==
  /\ phase = "save_counts"
  /\ dataGood' = \A h \in F!HDUs : F!RightCount(outf, h)
  /\ deleteDats' \in BOOLEAN /\ keepTemp' \in BOOLEAN
  /\ job.tool => ~deleteDats' /\ keepTemp'
  /\ fits' = "closed" /\ phase' = "delete"
  /\ UNCHANGED <<readerVars, job, imageVars, dats, fz>>

(* Mutant: readOldDatFiles leaves the options as they are in the daemon. *)
SaveCountsAnyOptions ==
  /\ phase = "save_counts"
  /\ dataGood' = /\ rd.missingPackets = 0 /\ rd.dataGaps = 0
                 /\ \A h \in F!HDUs : F!RightCount(outf, h)
  /\ deleteDats' \in BOOLEAN /\ keepTemp' \in BOOLEAN
  /\ fits' = "closed" /\ phase' = "delete"
  /\ UNCHANGED <<readerVars, job, imageVars, dats, fz>>

(* The counts are checked and the image is closed.  What the user has set  *)
(* deleteDats and keepTemp to is first looked at now.                      *)
SaveCounts ==
  /\ phase = "save_counts"
  /\ dataGood' = /\ rd.missingPackets = 0 /\ rd.dataGaps = 0
                 /\ Cardinality(Channels(pixelsVectorMap)) = NumChannels
                 /\ \A h \in F!HDUs : F!RightCount(outf, h)
  /\ \E d, k \in BOOLEAN :
       /\ job.tool => ~d /\ k    (* readOldDatFiles keeps what it reads *)
       /\ deleteDats' = d /\ keepTemp' = k
  /\ fits' = "closed" /\ phase' = "delete"
  /\ UNCHANGED <<readerVars, job, imageVars, dats, fz>>

DeleteDats ==
  /\ phase = "delete"
  /\ \/ /\ dataGood
        /\ dats' = (dats /\ ~(deleteDats \/ ~keepTemp))
        /\ UNCHANGED fits
     \/ /\ ~dataGood /\ rd.dataCount = 0
        /\ dats' = FALSE /\ fits' = "none"
     \/ /\ ~dataGood /\ rd.dataCount # 0
        /\ dats' = (dats /\ keepTemp)
        /\ UNCHANGED fits
  /\ phase' = IF rd.dataCount # 0 THEN "compress" ELSE "done"
  /\ UNCHANGED <<readerVars, job, imageVars, dataGood, deleteDats, keepTemp, fz>>

(* Mutant: the image is deleted whether or not it could be compressed. *)
CompressFitsMoving ==
  /\ phase = "compress"
  /\ fz' \in {"partial", "whole"} /\ fits' = "none"
  /\ phase' = "done"
  /\ UNCHANGED <<readerVars, job, imageVars, dataGood, deleteDats, keepTemp, dats>>

(* compressFits may fail: a full disk leaves a part of the compressed      *)
(* image.  The smart conversion checks no counts and keeps the data files. *)
CompressFits ==
  /\ phase = "compress"
  /\ \E failed \in BOOLEAN :
       LET delete == IF job.mode = "smart" THEN ~failed ELSE (dataGood /\ ~failed) \/ ~keepTemp
       IN /\ fz' = IF failed THEN "partial" ELSE "whole"
          /\ fits' = IF delete THEN "none" ELSE fits
  /\ phase' = "done"
  /\ UNCHANGED <<readerVars, job, imageVars, dataGood, deleteDats, keepTemp, dats>>

-----------------------------------------------------------------------------
(* The other conversions give a channel its place when its first word      *)
(* arrives: this works as long as the channels first arrive in the order   *)
(* of their ids.                                                           *)

NewChannel(w) == w.chID >= Len(channelIndex)

PlacesWith(w) ==
  IF ~NewChannel(w) THEN channelIndex
  ELSE channelIndex \o [i \in 1 .. w.chID - Len(channelIndex) |-> -1] \o <<Len(pixelsVector)>>

VectorWith(w, value) ==
  LET pv == IF NewChannel(w) THEN Append(pixelsVector, << >>) ELSE pixelsVector
  IN [pv EXCEPT ![PlacesWith(w)[w.chID + 1] + 1] = Append(@, value)]

OutsideVector(w) == PlacesWith(w)[w.chID + 1] = -1

(* An iteration of such a loop.                                            *)
PlaceWord(mode, value) ==
  /\ InLoop(mode) /\ ~OutsideVector(NextWord)
  /\ channelIndex' = PlacesWith(NextWord)
  /\ UNCHANGED <<job, pixelsVectorMap, bufferedWords, diskVars>>

MisplaceWord ==
  /\ \E mode \in {"interleaving", "smart", "calibrate"} : InLoop(mode)
  /\ OutsideVector(NextWord)
  /\ phase' = "undefined"
  /\ UNCHANGED <<job, imageVars, diskVars>>

(* bin_to_fits_interleaving.  Each pixel is three integrations: channels 0 *)
(* and 1 take the first two, channels 2 and 3 the last two, each with its  *)
(* share of the noise that the two channels of the other pair see at the   *)
(* same times (the arithmetic is left out).                                *)

Offset(place) == IF place <= 1 THEN 0 ELSE 1
Others(place) == IF place <= 1 THEN <<2, 3>> ELSE <<0, 1>>

Pixel(pv, place, k) ==
  LET at(p) == <<pv[p + 1][3 * k + Offset(place) + 1], pv[p + 1][3 * k + Offset(place) + 2]>>
  IN <<at(place), at(Others(place)[1]), at(Others(place)[2])>>

(* The loop's bound is size() - 3 + 1, without a sign: with fewer than two *)
(* integrations left it never stops.                                       *)
Reaches(pv, place, n) ==
  \A p \in {place, Others(place)[1], Others(place)[2]} :
    p < Len(pv) /\ Len(pv[p + 1]) >= 3 * (n - 1) + Offset(place) + 2

(* Mutant: a pixel is ready when two of its integrations are. *)
PixelsReadyEarly(pv, place) == IF place <= 3 THEN (Len(pv[place + 1]) + 1) \div 3 ELSE 0

PixelsReady(pv, place) == IF place <= 3 THEN Len(pv[place + 1]) \div 3 ELSE 0

ComputeInBounds(pv) ==
  \A place \in 0 .. Len(pv) - 1 :
    /\ Len(pv[place + 1]) >= 2
    /\ PixelsReady(pv, place) > 0 => Reaches(pv, place, PixelsReady(pv, place))

compute_pixel_value(pv, next) ==
  LET new == [i \in DOMAIN pv |-> [k \in 1 .. PixelsReady(pv, i - 1) |-> Pixel(pv, i - 1, k - 1)]]
      kept(i) == Len(F!Written(outf, i, new[i]))
  IN IF ComputeInBounds(pv)
     THEN /\ outf' = dump_channels(outf, [i \in DOMAIN pv |-> i], new)
          /\ pixelsVector' = [i \in DOMAIN pv |-> SubSeq(pv[i], 3 * kept(i) + 1, Len(pv[i]))]
          /\ phase' = next
     ELSE phase' = "undefined" /\ pixelsVector' = pv /\ UNCHANGED outf

InterleavingWord ==
  /\ PlaceWord("interleaving", NextWord.samp)
  /\ LET pv == VectorWith(NextWord, NextWord.samp)
     IN IF Len(pv[1]) > job.nCols
        THEN compute_pixel_value(pv, "read")
        ELSE pixelsVector' = pv /\ UNCHANGED <<outf, phase>>
  /\ UNCHANGED <<rows, outfAve>>

(* Mutant: what the loop has left over is not converted. *)
InterleavingEndOnly ==
  /\ AtEnd("interleaving")
  /\ phase' = "done" /\ fits' = "closed"
  /\ UNCHANGED <<job, imageVars, dataGood, deleteDats, keepTemp, dats, fz>>

InterleavingEnd ==
  /\ AtEnd("interleaving")
  /\ compute_pixel_value(pixelsVector, "done")
  /\ fits' = "closed"
  /\ UNCHANGED <<job, pixelsVectorMap, bufferedWords, channelIndex, rows, outfAve,
                 dataGood, deleteDats, keepTemp, dats, fz>>

(* bin_to_fits_smart.  The image of all the samples is padded on the       *)
(* right; in the other image each pixel is an average.                     *)

SMART_FLAG_NOT_REAL_PIXELS == -1

Padded(row) == row \o [i \in 1 .. nColsAllMax - Len(row) |-> SMART_FLAG_NOT_REAL_PIXELS]

(* An average is a sum and the number it is divided by.                    *)
Averaged(r, row) ==
  LET n == job.nSamps[r]
      first(i) == Total(SubSeq(n, 1, i - 1)) + 1
  IN [i \in 1 .. job.nColsAve |->
        IF i <= Len(n) THEN <<Total(SubSeq(row, first(i), first(i) + n[i] - 1)), n[i]>>
        ELSE <<0, 1>>]

(* Mutant: a row that is just full waits for one more pixel. *)
FillRowLate(s, i) ==
  IF s.left = << >> \/ s.row > Len(job.nSamps) THEN s
  ELSE LET needed == nCols(s.row) - Len(s.filled)
           row == s.filled \o SubSeq(s.left, 1, needed)
       IN IF Len(s.left) <= needed
          THEN [s EXCEPT !.filled = @ \o s.left, !.left = << >>]
          ELSE [s EXCEPT !.filled = << >>, !.row = @ + 1,
                         !.left = SubSeq(@, needed + 1, Len(@)),
                         !.all = @ \o Padded(row), !.ave = @ \o Averaged(s.row, row)]

(* One turn of the loop over the pixels of a channel: they are put in the  *)
(* row being filled, and a full row is written.  Pixels after the last row *)
(* are ignored.                                                            *)
FillRow(s, i) ==
  IF s.left = << >> \/ s.row > Len(job.nSamps) THEN s
  ELSE LET needed == nCols(s.row) - Len(s.filled)
           row == s.filled \o SubSeq(s.left, 1, needed)
       IN IF Len(s.left) < needed
          THEN [s EXCEPT !.filled = @ \o s.left, !.left = << >>]
          ELSE [s EXCEPT !.filled = << >>, !.row = @ + 1,
                         !.left = SubSeq(@, needed + 1, Len(@)),
                         !.all = @ \o Padded(row), !.ave = @ \o Averaged(s.row, row)]

(* Each turn uses a pixel or ends a row. *)
FillRows(h, pixels) ==
  FoldLeft(FillRow,
           [row |-> rows[h].row, filled |-> rows[h].filled, left |-> pixels,
            all |-> << >>, ave |-> << >>],
           [i \in 1 .. Len(pixels) + Len(job.nSamps) |-> i])

compute_pixel_value_smart(pv, next) ==
  LET done == [h \in DOMAIN pv |-> FillRows(h, pv[h])]
      hdu == [h \in DOMAIN pv |-> h]
  IN IF Len(pv) <= NumChannels
     THEN /\ outf' = dump_channels(outf, hdu, [h \in DOMAIN pv |-> done[h].all])
          /\ outfAve' = dump_channels(outfAve, hdu, [h \in DOMAIN pv |-> done[h].ave])
          /\ rows' = [h \in F!HDUs |-> IF h \in DOMAIN pv
                                       THEN [row |-> done[h].row, filled |-> done[h].filled]
                                       ELSE rows[h]]
          /\ pixelsVector' = [h \in DOMAIN pv |-> << >>]
          /\ phase' = next
     ELSE phase' = "undefined" /\ pixelsVector' = pv /\ UNCHANGED <<outf, outfAve, rows>>

SmartWord ==
  /\ PlaceWord("smart", -NextWord.samp)
  /\ LET pv == VectorWith(NextWord, -NextWord.samp)
     IN IF Len(pv[1]) > nColsAllMax
        THEN compute_pixel_value_smart(pv, "read")
        ELSE pixelsVector' = pv /\ UNCHANGED <<outf, outfAve, rows, phase>>

SmartEnd ==
  /\ AtEnd("smart")
  /\ compute_pixel_value_smart(pixelsVector, "compress")
  /\ fits' = "closed"
  /\ UNCHANGED <<job, pixelsVectorMap, bufferedWords, channelIndex,
                 dataGood, deleteDats, keepTemp, dats, fz>>

(* bin_to_raw writes each word to the .csv file, which is closed, and      *)
(* deletes the data if the board's whole buffer has arrived.               *)
RawWord ==
  /\ InLoop("raw")
  /\ UNCHANGED <<job, phase, imageVars, diskVars>>

RawEnd ==
  /\ AtEnd("raw")
  /\ deleteDats' \in BOOLEAN
  /\ dats' = (dats /\ ~(rd.dataCount = job.bufferSize /\ deleteDats'))
  /\ fits' = "closed" /\ phase' = "done"
  /\ UNCHANGED <<job, imageVars, dataGood, keepTemp, fz>>

(* bin_to_calibrate buffers the whole readout, cuts it in pixels of three  *)
(* integrations and correlates the pixels of a region of the image.        *)
CalibrateWord ==
  /\ PlaceWord("calibrate", NextWord.samp)
  /\ pixelsVector' = VectorWith(NextWord, NextWord.samp)
  /\ UNCHANGED <<phase, rows, outf, outfAve>>

CalibrateInBounds(pv) ==
  LET pixels == (Len(pv[1]) + 2) \div 3
      lastInRegion == job.regMaxCol + (job.regMaxRow - 1) * job.nCols
  IN /\ Len(pv) <= 4 /\ lastInRegion < pixels
     /\ \A place \in 0 .. Len(pv) - 1 : Reaches(pv, place, pixels)

CalibrateEnd ==
  /\ AtEnd("calibrate")
  /\ phase' = IF pixelsVector = << >> \/ CalibrateInBounds(pixelsVector) THEN "done" ELSE "undefined"
  /\ fits' = "closed"
  /\ UNCHANGED <<job, imageVars, dataGood, deleteDats, keepTemp, dats, fz>>

-----------------------------------------------------------------------------

(* The daemon is killed: what is in its memory is lost. *)
Kill ==
  /\ phase \in Running
  /\ phase' = "killed"
  /\ fz' \in IF phase = "compress" THEN {fz, "partial"} ELSE {fz}
  /\ UNCHANGED <<readerVars, job, imageVars, dataGood, deleteDats, keepTemp, dats, fits>>

(* The user runs readOldDatFiles on what an image's readout has left. *)
readOldDatFiles ==
  /\ phase \in Ended /\ job.mode = "fits" /\ ~job.tool /\ dats
  /\ job' = [job EXCEPT !.tool = TRUE]
  /\ rd' = NewReader
  /\ phase' = "read"
  /\ pixelsVectorMap' = << >> /\ bufferedWords' = 0
  /\ outf' = F!create_img(job.nCols, job.nRows)
  /\ dataGood' = FALSE /\ fits' = "open"
  /\ UNCHANGED <<files, pixelsVector, channelIndex, rows, outfAve, deleteDats, keepTemp,
                 dats, fz>>

Next ==
  \/ Read
  \/ FitsWord \/ FitsEnd \/ SaveCounts \/ DeleteDats \/ CompressFits
  \/ MisplaceWord
  \/ InterleavingWord \/ InterleavingEnd
  \/ SmartWord \/ SmartEnd
  \/ RawWord \/ RawEnd
  \/ CalibrateWord \/ CalibrateEnd
  \/ Kill \/ readOldDatFiles

Spec == Init /\ [][Next]_vars

-----------------------------------------------------------------------------
(* Properties.                                                             *)

Sent == [n \in 1 .. job.nch * job.nsamp |-> Word(job.nch, n - 1)]
SamplesIn(words, c) ==
  LET of[n \in 0 .. Len(words)] ==
        IF n = 0 THEN << >>
        ELSE IF words[n].chID = c THEN Append(of[n - 1], words[n].samp) ELSE of[n - 1]
  IN of[Len(words)]
Samples(c) == SamplesIn(Recorded, c)
Negated(x) == [i \in DOMAIN x |-> -x[i]]
FirstOf(x, n) == SubSeq(x, 1, IF n < Len(x) THEN n ELSE Len(x))
Seen == {w.chID : w \in ToSet(Recorded)}

(* Each HDU of an image from bin_to_fits holds the pixels of one channel,  *)
(* as recorded, from the first on and up to the size of the image, however *)
(* the words were chunked and split over files (dataConversion.cpp, the    *)
(* loop of bin_to_fits and FitsWriter::dump_to_fits).                      *)
ImageIsTheStream ==
  (/\ job.mode = "fits" /\ phase \in {"delete", "compress", "done"}
   /\ Cardinality(Seen) = NumChannels)
     => \A h \in F!HDUs : \E c \in Seen :
          /\ Cardinality({d \in Seen : d <= c}) = h
          /\ outf.data[h] = FirstOf(Negated(Samples(c)), outf.pixExpected)

(* The packets of a readout as the reader meets them, file after file, and *)
(* what was lost between packet j and the next: words, and packets.  It is *)
(* less than 0 when a packet came again or out of order.                   *)
Arrivals == FlattenSeq(files)
FirstWord(p) == p.words[1].samp - 1
Number(p) == FirstWord(p) \div job.perPacket

WordsLost(j) ==
  FirstWord(Arrivals[j + 1]) - (FirstWord(Arrivals[j]) + Len(Arrivals[j].words))
PacketsLost(j) == Number(Arrivals[j + 1]) - (Number(Arrivals[j]) + 1)

(* All that arrived was sent, what arrived first begins with channel 0,    *)
(* and nowhere was a whole period of the word counter lost, unless after   *)
(* the start it was not a whole period of the packet counter.              *)
FaultsShow ==
  /\ ToSet(Arrivals) \subseteq ToSet(Stream(job.nch, job.perPacket, job.nsamp))
  /\ Arrivals # << >> => FirstWord(Arrivals[1]) % job.nch = 0
  /\ \A j \in 1 .. Len(Arrivals) - 1 :
       \/ WordsLost(j) = 0
       \/ WordsLost(j) % WordMod # 0
       \/ j + 1 >= StartupPackets /\ PacketsLost(j) % PackMod # 0

(* Where faults show, "data good" is said only of an image that holds a    *)
(* contiguous run of the samples the board sent, the same one of all       *)
(* channels: not when packets were lost or doubled between others, came    *)
(* out of order, or are in the next file.  (The board may send more than   *)
(* the size of the image: then nobody notices which end is missing.)       *)
(* dataFileReader.cpp, getWord; dataConversion.cpp, bin_to_fits.           *)
DataGoodSound ==
  dataGood /\ FaultsShow =>
    \E k \in 0 .. job.nsamp - outf.pixExpected : \A h \in F!HDUs :
      outf.data[h] = [i \in 1 .. outf.pixExpected |-> -Word(job.nch, job.nch * (k + i - 1) + h - 1).samp]

(* Whatever the daemon was doing when it was killed, a readout of all the  *)
(* channels can still be had from the data files or from a closed image;   *)
(* with keepTemp set, one that is not good keeps both.  Excepted is an     *)
(* image that could not be compressed with keepTemp not set.               *)
Recoverable ==
  (job.mode = "fits" /\ Recorded # << >> /\ Cardinality(Seen) = NumChannels)
    => /\ \/ dats \/ fits = "closed" \/ fz = "whole"
          \/ phase = "done" /\ ~keepTemp
       /\ (keepTemp /\ ~dataGood /\ phase \in {"compress", "done"}) => dats /\ fits = "closed"

(* The data files are never deleted by a readOldDatFiles that found data   *)
(* in them, nor a compressed image while the data it came from are gone.   *)
ToolKeepsData == job.tool /\ Recorded # << >> => dats

(* The smart image has each complete row of the readout at its place, and  *)
(* each pixel of the other image is the average of its own samples,        *)
(* however the chunks of the loop and the rows overlap.  (A row without    *)
(* samples is written only when pixels of a later row come.)               *)
SmartRows ==
  (/\ job.mode = "smart" /\ phase \in {"compress", "done"} /\ Seen # {}
   /\ \A r \in DOMAIN job.nSamps : nCols(r) > 0)
    => \A c \in Seen :
         LET x == Negated(Samples(c))
             h == Cardinality({d \in Seen : d <= c})
             before(r) == Total([q \in 1 .. r - 1 |-> nCols(q)])
             complete == Cardinality({r \in DOMAIN job.nSamps : before(r) + nCols(r) <= Len(x)})
             row(r) == SubSeq(x, before(r) + 1, before(r) + nCols(r))
         IN /\ outf.data[h] = FlattenSeq([r \in 1 .. complete |-> Padded(row(r))])
            /\ \A r \in 1 .. complete : \A i \in DOMAIN job.nSamps[r] :
                 LET a == before(r) + Total(SubSeq(job.nSamps[r], 1, i - 1))
                 IN outfAve.data[h][(r - 1) * job.nColsAve + i] =
                      <<Total(SubSeq(x, a + 1, a + job.nSamps[r][i])), job.nSamps[r][i]>>

(* Readouts with the number of columns of which the loop of                *)
(* bin_to_fits_interleaving keeps the channels in step.  (With a single    *)
(* column it converts when only channel 0 has more than one integration.)  *)
InStep == job.nCols % 3 # 2 /\ job.nCols > 1

AsExpected == /\ Recorded = Sent /\ job.nch = NumChannels
              /\ job.mode \in {"interleaving", "calibrate"}
                   => job.nsamp = 3 * job.nCols * job.nRows

(* The interleaved image has all the pixels, each corrected with the noise *)
(* the other two channels saw at its own times.                            *)
InterleavedPixels ==
  LET all == [p \in 1 .. NumChannels |-> Samples(p - 1)]
      image == [h \in F!HDUs |-> [k \in 1 .. job.nCols * job.nRows |-> Pixel(all, h - 1, k - 1)]]
  IN (job.mode = "interleaving" /\ phase = "done" /\ AsExpected /\ InStep)
       => outf.data = image

(* A readout of the size expected with nothing missing is converted        *)
(* without going outside a vector.                                         *)
InBounds ==
  (phase = "undefined" /\ AsExpected) => job.mode = "interleaving" /\ ~InStep

=============================================================================
