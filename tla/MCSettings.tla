----------------------------- MODULE MCSettings -----------------------------
(* Users with legacy files, with smart documents and with both.            *)
EXTENDS Settings

CONSTANT TreeSize   (* bound: elements of the enumerated sequences *)

Num(t, n) == [text |-> t, dec |-> n, bits |-> {}, whole |-> FALSE]
BitsWord(t, bits) == [text |-> t, dec |-> 1, bits |-> bits, whole |-> TRUE]
Def(n, words) == [op |-> "=", name |-> Num(n, 0), words |-> words]
With(op, word) == [op |-> op, arg |-> word]
Only(op) == [op |-> op]

MCNewValues == {Num("2", 2), Num("0", 0)}

-----------------------------------------------------------------------------
(* Legacy files *)

Defs == <<Def(NROW, <<Num("3", 3)>>), Def(NCOL, <<Num("2", 2)>>), Def(NSAMP, <<Num("2", 2)>>),
          Def("P", <<BitsWord("ped", {25})>>), Def("S", <<BitsWord("sig", {26})>>)>>
Chip == <<Def("CCDNCOL", <<Num("6", 6)>>), Def("CCDNROW", <<Num("8", 8)>>),
          Def("CCDNPRES", <<Num("7", 7)>>)>>
Status(v) == With("status", Num(v, 0))
Loop(v) == With("loop", Num(v, 0))

Body == <<Loop(NROW), Loop(NCOL), Loop(NSAMP), Status("P"), With("delay", Num("5", 5)),
          Status("S"), Only("end"), Only("endsync"), Only("end")>>
CleanFirst == <<With("loop", Num("9", 9)), With("delay", Num("2", 2)), Only("end")>>

Plain == Defs \o Body
Calibrated == Defs \o Chip \o Body
Interleaved == Defs \o Chip \o <<Def("INTERLEAVING", <<Num("1", 1)>>)>> \o CleanFirst \o Body
NoDimensions == Tail(Defs) \o <<With("loop", Num("9", 9))>> \o Tail(Body)
Broken == Calibrated \o <<Only("end")>>

-----------------------------------------------------------------------------
(* Smart documents *)

HD1 == <<"HD1">>
HD2 == <<"HD2">>
Step(state, delay) == [state |-> state, delay |-> delay]

Vars == (NROW :> "3") @@ (NCOL :> "2") @@ (NSAMP :> "N") @@ ("N" :> "2") @@ ("wait" :> "3")
States == (HD1 :> <<"HD1bit">>) @@ (HD2 :> <<"HD2bit">>) @@ (<<"BOTH">> :> <<"HD1", "HD2">>)
Recipes == ("vertical" :> <<Step(<<"0">>, "wait")>>) @@ ("horizontal" :> <<Step(<<"0">>, "1")>>)
             @@ ("skipper" :> <<Step(HD1, "2"), Step(HD2, "wait")>>)

Element(name, n, kids) == [name |-> name, n |-> n, ncluster |-> << >>, kids |-> kids]
All == {"variables", "dynamicVariables", "recipes", "sequence"}

Readout(skipper) ==
  <<Element("vertical", NROW, <<Element("horizontal", NCOL, <<skipper>>)>>)>>

Document(values, sequence) ==
  [sections |-> All, vars |-> values, states |-> States, dynVars |-> ("dyn" :> <<"2", "2", "N">>),
   recipes |-> Recipes, sequence |-> sequence]

Standard == Document(Vars, Readout(Element("skipper", NSAMP, << >>)))
Skipper(widths) == [Element("skipper", "dyn", << >>) EXCEPT !.ncluster = widths]
DynamicDoc == Document(Vars, Readout(Skipper(<<"2", "1">>)))

(* One region, as large as the image; and six, whose value has names.      *)
OneRegion == [Document(Vars, Readout(Skipper(<<NCOL, NROW>>))) EXCEPT !.dynVars["dyn"] = <<NSAMP>>]
SixRegions == [Document(Vars, Readout(Skipper(<<"1", "1">>))) EXCEPT
                 !.dynVars["dyn"] = <<"N", NSAMP, "N", NSAMP, "N", "N">>]
Cleaning == Document(Vars, <<Element("vertical", "2", <<Element("horizontal", "1", << >>)>>)>>
                             \o Readout(Element("skipper", NSAMP, << >>)))

(* All nestings of TreeSize elements, each with a recipe of its own, which *)
(* are numbered in the order of the document.                              *)
Forests[first, next \in 1 .. TreeSize + 1] ==
  IF first >= next THEN {<< >>}
  ELSE UNION {{<<Element(ToString(first), "2", kids)>> \o rest :
                 kids \in Forests[first + 1, k], rest \in Forests[k, next]} :
              k \in first + 1 .. next}

Numbered == [name \in {ToString(k) : k \in 1 .. TreeSize} |-> <<Step(<<"0">>, name), Step(HD2, "wait")>>]

Trees == {[Document("wait" :> "3", forest) EXCEPT !.recipes = Numbered] :
            forest \in Forests[1, TreeSize + 1]}

(* What a document may have wrong with it. *)
Flawed ==
  {[Standard EXCEPT !.sections = @ \ {s}] : s \in All}
  \cup {[Standard EXCEPT !.sections = {}], [Standard EXCEPT !.sequence = << >>]}
  \cup {[DynamicDoc EXCEPT !.dynVars["dyn"] = <<"2">>],
        Document(Vars, Readout(Element("skipper", "dyn", << >>))),
        Document(Vars, <<Skipper(<<"2", "1">>)>>),
        Document(Vars, Readout(Skipper(<<"2">>))),
        Document(Vars, Readout(Skipper(<<"0", "1">>))),
        Document(Vars, Readout(Skipper(<<"2", "0">>))),
        Document(Vars, <<Element("vertical", "2", Readout(Skipper(<<"2", "1">>)))>>),
        Document(Vars, Readout(Element("unknown", NSAMP, << >>))),
        Document(Vars, Readout(Element("skipper", "unknown", << >>))),
        [Standard EXCEPT !.vars["N"] = NSAMP],
        Document((NCOL :> "2") @@ ("wait" :> "3"), <<Element("skipper", NCOL, << >>)>>),
        [Standard EXCEPT !.vars[NROW] = "unknown"],
        [Standard EXCEPT !.recipes["skipper"][1].state = <<"HD1", "HD2">>],
        [Standard EXCEPT !.recipes["skipper"][1].state = <<"unknown">>],
        [Standard EXCEPT !.recipes["skipper"][2].delay = "unknown"],
        [Standard EXCEPT !.states[HD2] = HD2]}

-----------------------------------------------------------------------------

Has(files, docs, sets, losses) ==
  [files |-> files, docs |-> docs, sets |-> sets, losses |-> losses]

(* In some order; SetToSeq would try all sequences. *)
Listed(S) == FoldSet(LAMBDA x, list : Append(list, x), << >>, S)

MCUsers ==
  Listed(
    {Has({Calibrated, Broken}, {}, {NROW, "P"}, 1), Has({Plain, Interleaved}, {}, {NCOL}, 1),
     Has({NoDimensions, Calibrated}, {}, {NROW, NSAMP}, 0), Has({Plain}, {Standard}, {NROW, "P"}, 0),
     Has({}, {Standard, DynamicDoc}, {NROW, "N"}, 1),
     Has({}, {OneRegion, SixRegions}, {NCOL, "N"}, 0), Has({}, {Cleaning, Standard}, {NCOL}, 1)}
    \cup {Has({}, {Standard, d}, {NROW}, 0) : d \in Flawed}
    \cup {Has({}, {d}, {"wait"}, 0) : d \in Trees})
=============================================================================
