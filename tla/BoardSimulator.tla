--------------------------- MODULE BoardSimulator ---------------------------
(***************************************************************************)
(* What the simulated board makes of sequencer commands: how many samples  *)
(* its next readout sends (ltaSimulator_t::parseMsgAndProduceResponse and  *)
(* doReadout), and, for a smart sequencer, what a real board is told to    *)
(* do: recipes linked as mother, daughters and sisters.                    *)
(***************************************************************************)
EXTENDS Integers, SequencesExt, FiniteSetsExt, Functions

PED_STATE == 25       (* bits of a status of the legacy sequencer *)
SIG_STATE == 26

BlankRecipe ==
  [daughter |-> 0, mother |-> 0, sister |-> 0, n |-> -1, statuses |-> << >>]

ClearSeq ==
  [depth |-> 0, depthADC |-> -1, loops |-> << >>, peds |-> 0, sigs |-> 0]

Unloaded ==
  [seq |-> ClearSeq, adcState |-> {}, recipes |-> << >>, adcRecipe |-> 0, dynVarValue |-> -1]

Set(f, x, v) == [y \in DOMAIN f \cup {x} |-> IF y = x THEN v ELSE f[y]]

(* An instruction of the legacy sequencer.  The ADC is counted when its    *)
(* state changes; that state is not cleared with the sequencer.            *)
SeqStatus(b, bits) ==
  LET adc == bits \cap {PED_STATE, SIG_STATE}
      counted == [b.seq EXCEPT
        !.depthADC = IF @ = -1 THEN b.seq.depth ELSE @,
        !.peds = IF PED_STATE \in adc THEN @ + 1 ELSE @,
        !.sigs = IF SIG_STATE \in adc THEN @ + 1 ELSE @]
  IN [b EXCEPT !.adcState = adc,
               !.seq = IF adc \in {{}, b.adcState} THEN @ ELSE counted]

SeqInstruction(b, i) ==
  CASE i.op = "status" -> SeqStatus(b, i.n)
    [] i.op = "loop" ->
         [b EXCEPT !.adcState = {}, !.seq.depth = @ + 1,
                   !.seq.loops = Set(@, b.seq.depth, i.n)]
    [] i.op = "endLoop" -> [b EXCEPT !.adcState = {}, !.seq.depth = @ - 1]
    [] OTHER -> b

Recipe(b, id) == IF id \in DOMAIN b.recipes THEN b.recipes[id] ELSE BlankRecipe
SetRecipe(b, id, r) == [b EXCEPT !.recipes = Set(@, id, r)]

RecipeStatus(b, id, status) ==
  LET set == SetRecipe(b, id, [Recipe(b, id) EXCEPT
                                 !.statuses = Set(@, status.at, status)])
  IN IF status.bits \cap {"HD1", "HD2"} = {} THEN set ELSE [set EXCEPT !.adcRecipe = id]

(* Of a dynamic variable only the first value is kept. *)
parseMsg(b, c) ==
  CASE c.op = "seq clear" -> [b EXCEPT !.seq = ClearSeq]
    [] c.op = "seq" -> SeqInstruction(b, c.arg)
    [] c.op = "clear recipes" -> [b EXCEPT !.recipes = << >>, !.adcRecipe = 0]
    [] c.op = "clear dynamicVector" -> [b EXCEPT !.dynVarValue = -1]
    [] c.op = "dynamicVector" -> IF c.id = 1 THEN [b EXCEPT !.dynVarValue = c.arg] ELSE b
    [] c.op = "daughter" -> SetRecipe(b, c.id, [Recipe(b, c.id) EXCEPT !.daughter = c.arg])
    [] c.op = "mother" -> SetRecipe(b, c.id, [Recipe(b, c.id) EXCEPT !.mother = c.arg])
    [] c.op = "sister" -> SetRecipe(b, c.id, [Recipe(b, c.id) EXCEPT !.sister = c.arg])
    [] c.op = "status" -> RecipeStatus(b, c.id, c.arg)
    [] c.op = "dynamic" -> SetRecipe(b, c.id, [Recipe(b, c.id) EXCEPT !.n = b.dynVarValue])
    [] c.op = "n" -> SetRecipe(b, c.id, [Recipe(b, c.id) EXCEPT !.n = c.arg])
    [] OTHER -> b     (* seqStart 0, seq load, sek reset, dynamicDependence *)

(* Samples per channel of a readout: the loops, or recipes, around the one *)
(* with the ADC; "cdsout" is at 2, signal less pedestal.  Without three of *)
(* them the simulator reads outside its arrays.                            *)
doReadoutLegacy(b) ==
  LET repeated(k) == b.seq.loops[b.seq.depthADC - k] + 1
  IN IF b.seq.depthADC < 3 THEN -1
     ELSE repeated(3) * repeated(2) * repeated(1) * b.seq.sigs

doReadoutSmart(b) ==
  LET horz == Recipe(b, b.adcRecipe).mother
      vert == Recipe(b, horz).mother
  IN IF 0 \in {b.adcRecipe, horz, vert} THEN -1
     ELSE Recipe(b, b.adcRecipe).n * Recipe(b, horz).n * Recipe(b, vert).n

(* A recipe runs its statuses, then its daughter, n times, then its sister *)
(* follows (as smartSequencerHandler::seqStepCount takes it).              *)
RECURSIVE Runs(_, _)
Runs(b, id) ==
  IF id = 0 THEN << >>
  ELSE LET once == Recipe(b, id).statuses \o Runs(b, Recipe(b, id).daughter)
       IN FlattenSeq([k \in 1 .. Recipe(b, id).n |-> once]) \o Runs(b, Recipe(b, id).sister)
=============================================================================
