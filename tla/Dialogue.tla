------------------------------- MODULE Dialogue -------------------------------
(***************************************************************************)
(* What sending a command to the board promises its caller: the board has  *)
(* executed the command, once, when the call goes on to listen for the     *)
(* answer, and no other command has been executed in between.              *)
(***************************************************************************)
EXTENDS Naturals

VARIABLES
  posted,    (* commands handed over for sending      *)
  executed,  (* commands the board has executed       *)
  calling    (* the call that sends one has not ended *)

dialogueVars == <<posted, executed, calling>>

DialogueInit == posted = 0 /\ executed = 0 /\ calling = FALSE

Post ==
  /\ ~calling
  /\ posted' = posted + 1
  /\ calling' = TRUE
  /\ UNCHANGED executed

Execute ==
  /\ calling /\ executed < posted
  /\ executed' = executed + 1
  /\ UNCHANGED <<posted, calling>>

GoOn ==
  /\ calling /\ executed = posted
  /\ calling' = FALSE
  /\ UNCHANGED <<posted, executed>>

DialogueNext == Post \/ Execute \/ GoOn

DialogueSpec == DialogueInit /\ [][DialogueNext]_dialogueVars

=============================================================================
