------------------------------ MODULE Recording ------------------------------
(***************************************************************************)
(* What the readout machinery promises to the rest of the daemon: one      *)
(* recording at a time.  An image grows only while it is being recorded,   *)
(* is sealed before it is converted, and the conversion sees exactly what  *)
(* was recorded.                                                           *)
(***************************************************************************)
EXTENDS Naturals

VARIABLES
  phase,  (* "idle", "recording", "sealed" (being converted)  *)
  image   (* samples recorded, which the conversion will read *)

recVars == <<phase, image>>

RecInit == phase = "idle" /\ image = 0

(* A read starts with an empty image. *)
Begin ==
  /\ phase = "idle"
  /\ phase' = "recording"
  /\ image' = 0

(* A read that could start no recording: the last image is left as it is. *)
Refuse ==
  /\ phase = "idle"
  /\ phase' = "sealed"
  /\ UNCHANGED image

(* A sample is recorded. *)
Record ==
  /\ phase = "recording"
  /\ image' = image + 1
  /\ UNCHANGED phase

(* The recording ends, for conversion or, after a failure, for nothing. *)
Seal ==
  /\ phase = "recording"
  /\ phase' \in {"sealed", "idle"}
  /\ UNCHANGED image

(* The image has been converted. *)
Convert ==
  /\ phase = "sealed"
  /\ phase' = "idle"
  /\ UNCHANGED image

RecNext == Begin \/ Refuse \/ Record \/ Seal \/ Convert

RecSpec == RecInit /\ [][RecNext]_recVars

=============================================================================
