--------------------------- MODULE MCCtrlHandshake ---------------------------
(* CtrlHandshake for TLC: the network and the board's answers. *)
EXTENDS CtrlHandshake

ReadsAndAnswers == ReadRegs \cup {"answer", "MASTER_DREADY"}
ShortReplies == {<<"done">>, <<"text", "text", "done">>, <<"error", "done">>}
NothingLost == {}

=============================================================================
