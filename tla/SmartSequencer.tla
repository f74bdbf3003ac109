--------------------------- MODULE SmartSequencer ---------------------------
(***************************************************************************)
(* Class smartSequencerHandler: from a sequencer document to the commands  *)
(* that write it into the board, and the changes of its variables.         *)
(*                                                                         *)
(* A document has sections and what they hold: variables and states by     *)
(* name, recipes as sequences of steps, and the elements of <sequence> as  *)
(* nested records.  The value of a state is the sequence of the words that *)
(* "|" joins; other values are one word.  Elements have the attributes the *)
(* compiler reads, but for ncluster.                                       *)
(***************************************************************************)
EXTENDS Integers, SequencesExt, FiniteSetsExt, Functions

(* How a call ended: "exception" is a sequencerException, "crash" any      *)
(* other way the daemon ends, "hang" a loop without an end.                *)
Outcomes == {"ok", "exception", "crash", "hang"}
First(outcomes) ==
  IF \A k \in DOMAIN outcomes : outcomes[k] = "ok" THEN "ok"
  ELSE outcomes[Min({k \in DOMAIN outcomes : outcomes[k] # "ok"})]

(* What a number's word stands for; an empty word is a zero.               *)
strtol ==
  ("" :> 0) @@ ("-1" :> -1) @@ ("0" :> 0) @@ ("1" :> 1) @@ ("2" :> 2) @@ ("3" :> 3)
    @@ ("4" :> 4) @@ ("5" :> 5) @@ ("6" :> 6) @@ ("7" :> 7) @@ ("8" :> 8) @@ ("9" :> 9)

(* Bitstrings are named by the signals they set, all others are off.       *)
Bitstring == ("0" :> {}) @@ ("HD1bit" :> {"HD1"}) @@ ("HD2bit" :> {"HD2"})

NoExtraLevel == 0     (* SMART_NO_EXTRA_LEVEL_ID; recipes count from 1 *)

NoSmart ==
  [fVars |-> << >>, fStates |-> << >>, fDynVars |-> << >>, fActiveDynVar |-> "",
   fRecipes |-> << >>, fRecipeUB |-> << >>, seqGood |-> FALSE, out |-> "ok"]

Ending(h, out) == [h EXCEPT !.out = out]
IsVar(h, t) == t \in DOMAIN h.fVars
dynVarInUse(h) == h.fActiveDynVar # ""

-----------------------------------------------------------------------------
(* Values.  A variable may have another's name as its value.               *)

RECURSIVE Follow(_, _, _)
Follow(vars, t, seen) ==
  IF t \in seen THEN "endless"
  ELSE IF t \notin DOMAIN vars THEN t ELSE Follow(vars, vars[t], seen \cup {t})

resolveVar(h, t) == Follow(h.fVars, t, {})

FloatOutcome(h, t) == IF resolveVar(h, t) = "endless" THEN "hang" ELSE "ok"
IntOutcome(h, t) ==
  IF FloatOutcome(h, t) = "ok" /\ resolveVar(h, t) \notin DOMAIN strtol
  THEN "exception" ELSE FloatOutcome(h, t)
resolveIntVar(h, t) == strtol[resolveVar(h, t)]

RECURSIVE resolveState(_, _, _)
resolveState(states, words, seen) ==
  LET parts == [k \in DOMAIN words |-> resolveState(states, <<words[k]>>, seen)]
  IN IF words = << >> THEN [out |-> "ok", bits |-> {}]
     ELSE IF Len(words) = 1 /\ words[1] \in DOMAIN Bitstring
     THEN [out |-> "ok", bits |-> Bitstring[words[1]]]
     ELSE IF words \in seen THEN [out |-> "crash", bits |-> {}]
     ELSE IF words \in DOMAIN states THEN resolveState(states, states[words], seen \cup {words})
     ELSE IF Len(words) < 2 THEN [out |-> "exception", bits |-> {}]
     ELSE [out  |-> First([k \in DOMAIN words |-> parts[k].out]),
           bits |-> UNION {parts[k].bits : k \in DOMAIN words}]

-----------------------------------------------------------------------------
(* Loading                                                                 *)

NoRecipe ==
  [recipeName |-> "", deeperLevel_id |-> NoExtraLevel, selfLevel_id |-> NoExtraLevel,
   upperLevel_id |-> NoExtraLevel, times_to_execute |-> "", isDynamic |-> FALSE,
   ncluster |-> << >>, id_depen |-> << >>]

RECURSIVE Ancestors(_, _, _)
Ancestors(recipes, id, depth) ==
  IF depth = 0 \/ id = NoExtraLevel THEN << >>
  ELSE <<recipes[id].upperLevel_id>> \o Ancestors(recipes, recipes[id].upperLevel_id, depth - 1)

(* A dynamic variable depends on as many levels above it as ncluster has   *)
(* words.  With more words than levels the list of recipes is read before  *)
(* its beginning.                                                          *)
compilePseudoRecipe(h, element, id) ==
  LET named == [h EXCEPT !.fRecipeUB[id].recipeName = element.name]
      dynamic == [named EXCEPT !.fRecipeUB[id].times_to_execute = "-1",
                               !.fRecipeUB[id].isDynamic = TRUE]
      above == Ancestors(h.fRecipeUB, id, Len(element.ncluster))
  IN IF element.name \notin DOMAIN h.fRecipes THEN Ending(h, "exception")
     ELSE IF element.n \notin DOMAIN h.fDynVars
     THEN [named EXCEPT !.fRecipeUB[id].times_to_execute = element.n]
     ELSE IF dynVarInUse(h) THEN Ending(dynamic, "exception")
     ELSE IF element.ncluster = << >> \/ Len(above) < Len(element.ncluster)
     THEN Ending(dynamic, "crash")
     ELSE [dynamic EXCEPT !.fActiveDynVar = element.n,
                          !.fRecipeUB[id].ncluster = element.ncluster,
                          !.fRecipeUB[id].id_depen = above]

(* Mutant: a mother is linked to her last daughter. *)
LinkedToLast(recipes, mother, sister) ==
  LET id == Len(recipes) + 1
      added == Append(recipes, [NoRecipe EXCEPT !.upperLevel_id = mother])
  IN [k \in 1 .. id |->
        [added[k] EXCEPT !.deeperLevel_id = IF k = mother THEN id ELSE @,
                         !.selfLevel_id = IF k = sister THEN id ELSE @]]

(* A new recipe with its links to mother and elder sister, and back. *)
Linked(recipes, mother, sister) ==
  LET id == Len(recipes) + 1
      added == Append(recipes, [NoRecipe EXCEPT !.upperLevel_id = mother])
  IN [k \in 1 .. id |->
        [added[k] EXCEPT
           !.deeperLevel_id = IF k = mother /\ @ = NoExtraLevel THEN id ELSE @,
           !.selfLevel_id = IF k = sister THEN id ELSE @]]

ElementAt(top, path) == FoldLeft(LAMBDA e, k : e.kids[k], [kids |-> top], path)

(* The walk over the elements.  path leads to recipeElement, and recIndex  *)
(* is its recipe once it has one: from there on it is done with.           *)
RECURSIVE Walk(_, _, _, _, _, _, _)
Walk(h, top, path, recIndex, motherIndex, sisterIndex, done) ==
  LET element == ElementAt(top, path)
      new == Len(h.fRecipeUB) + 1
      compiled == compilePseudoRecipe(
                    [h EXCEPT !.fRecipeUB = Linked(@, motherIndex, sisterIndex)], element, new)
      now == IF done THEN h ELSE compiled
      this == IF done THEN recIndex ELSE new
      upper == now.fRecipeUB[this].upperLevel_id
      sisters == ElementAt(top, Front(path)).kids
  IN IF now.out # "ok" THEN now
     ELSE IF ~done /\ element.kids # << >>
     THEN Walk(now, top, Append(path, 1), this, this, NoExtraLevel, FALSE)
     ELSE IF Last(path) < Len(sisters)
     THEN Walk(now, top, Append(Front(path), Last(path) + 1), this, upper, this, FALSE)
     ELSE IF Len(path) = 1 THEN now
     ELSE Walk(now, top, Front(path), upper, motherIndex, sisterIndex, TRUE)

loadSequence(h, top) ==
  IF top = << >> THEN Ending(h, "exception")
  ELSE Walk(h, top, <<1>>, NoExtraLevel, NoExtraLevel, NoExtraLevel, FALSE)

-----------------------------------------------------------------------------
(* Durations: only how their calculation ends, and what it leaves behind.  *)

Mothers(h, id) == SelectSeq(Ancestors(h.fRecipeUB, id, Len(h.fRecipeUB)),
                            LAMBDA m : m # NoExtraLevel)

(* A recipe whose name was not found has none, and no steps. *)
Steps(h, id) ==
  LET name == h.fRecipeUB[id].recipeName
  IN IF name \in DOMAIN h.fRecipes THEN h.fRecipes[name] ELSE << >>

calculateSequencerDuration(h) ==
  First(FlattenSeq([id \in DOMAIN h.fRecipeUB |->
    [k \in DOMAIN (<<id>> \o Mothers(h, id)) |->
       IntOutcome(h, h.fRecipeUB[(<<id>> \o Mothers(h, id))[k]].times_to_execute)]
    \o [k \in DOMAIN Steps(h, id) |-> FloatOutcome(h, Steps(h, id)[k].delay)]]))

(* Steps are looked up among the states in the order of execution, which   *)
(* is that of the recipes' numbers, until one has the word HD2 in its      *)
(* definition.  Looking up a text that is no name defines it, empty.       *)
Defined(h, text) == IF text \in DOMAIN h.fStates THEN h.fStates[text] ELSE << >>

Visited(h) ==
  LET texts == FlattenSeq([id \in DOMAIN h.fRecipeUB |->
                 [k \in DOMAIN Steps(h, id) |-> Steps(h, id)[k].state]])
      data == {k \in DOMAIN texts : "HD2" \in ToSet(Defined(h, texts[k]))}
  IN IF data = {} THEN ToSet(texts) ELSE {texts[k] : k \in 1 .. Min(data)}

calculateSequencerTimeUntilFirstData(h) ==
  IF h.fRecipeUB = << >> THEN Ending(h, "crash")
  ELSE [h EXCEPT !.fStates = [t \in DOMAIN @ \cup Visited(h) |-> Defined(h, t)]]

Durations(h) ==
  IF calculateSequencerDuration(h) = "ok" THEN calculateSequencerTimeUntilFirstData(h)
  ELSE Ending(h, calculateSequencerDuration(h))

-----------------------------------------------------------------------------
(* The operations                                                          *)

(* A document that cannot be parsed leaves the sequencer as it is; any     *)
(* other failure leaves what has been read so far.  Sections are read in   *)
(* this order.                                                             *)
loadNewSequencer(h, doc) ==
  LET has(sections) == sections \subseteq doc.sections
      vars == [NoSmart EXCEPT !.fVars = doc.vars, !.fStates = doc.states]
      dyns == [vars EXCEPT !.fDynVars = doc.dynVars]
      recs == [dyns EXCEPT !.fRecipes = doc.recipes]
      seqd == loadSequence(recs, doc.sequence)
      timed == Durations(seqd)
  IN IF doc.sections = {} THEN Ending(h, "exception")
     ELSE IF ~has({"variables"}) THEN Ending(NoSmart, "exception")
     ELSE IF ~has({"dynamicVariables"}) THEN Ending(vars, "exception")
     ELSE IF ~has({"recipes"}) THEN Ending(dyns, "exception")
     ELSE IF ~has({"sequence"}) THEN Ending(recs, "exception")
     ELSE IF seqd.out # "ok" THEN seqd
     ELSE IF timed.out # "ok" THEN timed
     ELSE [timed EXCEPT !.seqGood = TRUE]

changeSeqVarValue(h, var, value) == Durations([h EXCEPT !.fVars[var] = value])

(* The commands that describe recipe id, in order. *)
RecipeCommands(h, id) ==
  LET r == h.fRecipeUB[id]
      cmd(op, arg) == [op |-> op, id |-> id, arg |-> arg]
  IN <<cmd("daughter", r.deeperLevel_id), cmd("mother", r.upperLevel_id),
       cmd("sister", r.selfLevel_id)>>
     \o [k \in DOMAIN Steps(h, id) |->
           cmd("status", [at    |-> k,
                          bits  |-> resolveState(h.fStates, Steps(h, id)[k].state, {}).bits,
                          delay |-> resolveIntVar(h, Steps(h, id)[k].delay)])]
     \o (IF r.isDynamic
         THEN <<cmd("dynamic", TRUE)>>
              \o [k \in DOMAIN r.ncluster |->
                    cmd("dynamicDependence",
                        [on |-> r.id_depen[k], size |-> resolveIntVar(h, r.ncluster[k])])]
         ELSE <<cmd("dynamic", FALSE), cmd("n", resolveIntVar(h, r.times_to_execute))>>)

DynamicValues(h) == IF dynVarInUse(h) THEN h.fDynVars[h.fActiveDynVar] ELSE << >>

(* All commands are made before the first is sent. *)
CommandsOutcome(h) ==
  First([k \in DOMAIN DynamicValues(h) |-> IntOutcome(h, DynamicValues(h)[k])]
    \o FlattenSeq([id \in DOMAIN h.fRecipeUB |->
         FlattenSeq([k \in DOMAIN Steps(h, id) |->
           <<resolveState(h.fStates, Steps(h, id)[k].state, {}).out,
             IntOutcome(h, Steps(h, id)[k].delay)>>])
         \o (IF h.fRecipeUB[id].isDynamic
             THEN [k \in DOMAIN h.fRecipeUB[id].ncluster |->
                     IntOutcome(h, h.fRecipeUB[id].ncluster[k])]
             ELSE <<IntOutcome(h, h.fRecipeUB[id].times_to_execute)>>)]))

makeCommandsToBoard(h) ==
  [k \in DOMAIN DynamicValues(h) |->
     [op |-> "dynamicVector", id |-> k, arg |-> resolveIntVar(h, DynamicValues(h)[k])]]
  \o FlattenSeq([id \in DOMAIN h.fRecipeUB |-> RecipeCommands(h, id)])

(* The columns of every row of a readout with a dynamic variable: each     *)
(* pixel has as many samples as the variable has in its region.            *)
Dynamic(h) == CHOOSE id \in DOMAIN h.fRecipeUB : h.fRecipeUB[id].isDynamic
Times(h, k) == resolveIntVar(h, h.fRecipeUB[Mothers(h, Dynamic(h))[k]].times_to_execute)
Width(h, k) == resolveIntVar(h, h.fRecipeUB[Dynamic(h)].ncluster[k])

Region(h, x, y) ==
  x \div Width(h, 1)
    + (y \div Width(h, 2)) * ((Times(h, 1) + Width(h, 1) - 1) \div Width(h, 1)) + 1

Regions(h) == {Region(h, x, y) : x \in 0 .. Times(h, 1) - 1, y \in 0 .. Times(h, 2) - 1}

(* Without rows the largest of no rows is taken; the width of a region is  *)
(* a divisor, that of the columns once there is one (no document has a     *)
(* negative one); a region that has no value is read outside the vector.   *)
DimensionsOutcome(h) ==
  LET widths == h.fRecipeUB[Dynamic(h)].ncluster
      mothers == Mothers(h, Dynamic(h))
      read == First([k \in 1 .. 2 |-> IntOutcome(h, widths[k])]
                      \o [k \in DOMAIN mothers |->
                            IntOutcome(h, h.fRecipeUB[mothers[k]].times_to_execute)])
      value(r) == IF r \in DOMAIN DynamicValues(h) THEN IntOutcome(h, DynamicValues(h)[r])
                  ELSE "crash"
  IN IF Len(widths) < 2 THEN "crash"
     ELSE IF read # "ok" THEN read
     ELSE IF Len(mothers) # 2 THEN "exception"
     ELSE IF Times(h, 2) <= 0 \/ Width(h, 2) = 0 \/ (Times(h, 1) > 0 /\ Width(h, 1) = 0)
     THEN "crash"
     ELSE First([r \in Regions(h) |-> value(r)])

(* Mutant: rows and columns are exchanged. *)
DimensionsTransposed(h) ==
  [y \in 0 .. Times(h, 1) - 1 |->
     FoldLeft(LAMBDA sum, x : sum + resolveIntVar(h, DynamicValues(h)[Region(h, y, x - 1)]),
              0, [x \in 1 .. Times(h, 2) |-> x])]

calculateSmartImageDimensions(h) ==
  [y \in 0 .. Times(h, 2) - 1 |->
     FoldLeft(LAMBDA sum, x : sum + resolveIntVar(h, DynamicValues(h)[Region(h, x - 1, y)]),
              0, [x \in 1 .. Times(h, 1) |-> x])]
=============================================================================
