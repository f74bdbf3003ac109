----------------------------- MODULE MCSequencer -----------------------------
(* All the short programs of an alphabet of lines, after the definition of *)
(* their variables, and some longer ones.                                  *)
EXTENDS SequencerRuns

CONSTANT MaxLines   (* bound: lines of a program after its definitions *)

Num(t, n) == [text |-> t, dec |-> n, bits |-> {}, whole |-> FALSE]

Def(n, words) == [op |-> "=", name |-> Name(n), words |-> words]
With(op, word) == [op |-> op, arg |-> word]
Only(op) == [op |-> op]

Definitions ==
  <<Def("V", <<Num("2", 2)>>), Def("D", <<Num("2", 2)>>), Def("S", <<BitsWord("01", {0})>>)>>

loopV == With("loop", Name("V"))
loop2 == With("loop", Num("2", 2))
delayD == With("delay", Name("D"))
statusS == With("status", Name("S"))
Alphabet == {loopV, loop2, delayD, statusS, Only("end"), Only("endsync")}

Bodies == UNION {[1 .. n -> Alphabet] : n \in 0 .. MaxLines}

LongBodies ==
  {<<loopV, delayD, loop2, statusS, loopV, delayD, Only("endsync"), delayD, Only("endsync"), statusS, Only("endsync")>>,
   <<loopV, loop2, statusS, Only("endsync"), delayD, loopV, delayD, Only("endsync"), Only("endsync")>>,
   <<delayD, loopV, loop2, statusS, Only("end"), delayD, Only("endsync")>>}

(* What a line may have wrong with it. *)
Flawed ==
  {<<loopV, With("delay", Name("X")), Only("end")>>, <<loopV, delayD, Only("end"), statusS>>,
   <<With("status", Num("2", 2)), delayD>>, <<With("loop", Name("X")), Only("end")>>,
   <<Def("V", <<Num("3", 3)>>), loopV, delayD, Only("end")>>,
   <<Def("X", <<Name("V"), Name("A")>>), delayD>>, <<Only("unknown"), delayD>>,
   <<With("delay", Name("")), Only("comment")>>,
   <<Def("X", <<BitsWord("10", {1}), Name("S"), BitsWord("10", {1})>>), With("status", Name("X"))>>}

(* Each user has a program, a simple one and one that does not compile. *)
Simple == Definitions \o <<loop2, delayD, Only("endsync")>>
Broken == Definitions \o <<With("status", Name("V"))>>

MCUsers == {{Definitions \o b, Simple, Broken} : b \in Bodies \cup LongBodies \cup Flawed}
MCNewValues == {BitsWord("1", {0}), Num("2", 2)}
=============================================================================
