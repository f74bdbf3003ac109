------------------------------ MODULE FitsWriter ------------------------------
(***************************************************************************)
(* Class FitsWriter: an image file with one HDU per channel, filled from   *)
(* its first pixel on.                                                     *)
(***************************************************************************)
EXTENDS Integers, SequencesExt

CONSTANT NumChannels   (* LTA_NUMBER_OF_CHANNELS *)

HDUs == 1 .. NumChannels

create_img(nCols, nRows) ==
  [pixExpected |-> nCols * nRows,
   pixelCounts |-> [h \in HDUs |-> 0],
   data |-> [h \in HDUs |-> << >>]]

spaceRemaining(outf, h) == outf.pixExpected - outf.pixelCounts[h]

(* The part of pixels that dump_to_fits leaves in the caller's vector when *)
(* it does not clear it: the part that fits the image.                     *)
Written(outf, h, pixels) ==
  IF h \notin HDUs \/ pixels = << >> THEN pixels
  ELSE SubSeq(pixels, 1, IF spaceRemaining(outf, h) < Len(pixels)
                         THEN spaceRemaining(outf, h) ELSE Len(pixels))

(* Mutant: pixels after the last of the image are written too. *)
dump_all_to_fits(outf, h, pixels) ==
  IF h \notin HDUs THEN outf
  ELSE [outf EXCEPT !.pixelCounts[h] = @ + Len(pixels), !.data[h] = @ \o pixels]

(* Excess pixels are counted and dropped.  CFITSIO refuses an HDU that     *)
(* does not exist.                                                         *)
dump_to_fits(outf, h, pixels) ==
  IF h \notin HDUs THEN outf
  ELSE [outf EXCEPT !.pixelCounts[h] = @ + Len(pixels),
                    !.data[h] = @ \o Written(outf, h, pixels)]

(* What save_counts answers for one HDU. *)
RightCount(outf, h) == outf.pixelCounts[h] = outf.pixExpected

=============================================================================
