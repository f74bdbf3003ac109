------------------------------- MODULE MCMaster -------------------------------
(* Two masters and two boards. *)
EXTENDS MasterBroadcast

CONSTANTS m1, m2
MCMasters == {m1, m2}
MCRequests == {[to |-> Boards, all |-> TRUE, word |-> "multi"], [to |-> {2}, all |-> FALSE, word |-> "multi"]}
=============================================================================
