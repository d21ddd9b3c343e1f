-------------------------- MODULE MCRegisterStack --------------------------
(***************************************************************************)
(* RegisterStack on a stack of three registers.                            *)
(***************************************************************************)
EXTENDS RegisterStack

MCBlocks == 0 .. 2 * Top + 5

(* A short integer takes less memory than a real.                          *)
MCSize == [v \in Values \union {Junk} |-> IF v = "short" THEN 1 ELSE 2]

(***************************************************************************)
(* The states TLC tells apart.  Which block a register points to does not  *)
(* matter, only which registers point to the same block or to a free one.  *)
(* Contents that no later step copies to where they count, and no property *)
(* of the run looks at, matter only by their size: the temporary register  *)
(* outside of the function that uses it, saved registers there is no undo  *)
(* for, and all of them once undo has failed.                              *)
(***************************************************************************)
Counts(r) ==
  /\ ~ undoFailed
  /\ \/ r \in 0 .. R
     \/ r = Temp /\ phase = "run"
     \/ r > Temp /\ (phase = "save" \/ (canUndo /\ phase # "clear"))

Earlier ==
  << [r \in 0 .. R |-> before.held[r]], before.lift,
     IF before.canUndo
       THEN <<[r \in 0 .. L |-> before.held[savedRegisterFor(r)]], before.savedLift>>
       ELSE <<>> >>

Owners == {desc[r] : r \in Registers}

View ==
  <<[r \in Registers |-> IF Counts(r) THEN <<holds(r)>> ELSE <<>>],
    [r \in Registers |-> Size[holds(r)]],
    IF Cardinality(Owners) = Cardinality(Registers) /\ inUse = Owners THEN <<>>
    ELSE [r \in Registers |-> <<{q \in Registers : desc[q] = desc[r]}, desc[r] \in inUse>>],
    free, lift, canUndo, phase, todo, claimFailed, undoFailed,
    (phase = "save" \/ canUndo) /\ savedLift,
    IF phase = "idle" THEN <<>>
    ELSE <<err, func, IF undoFailed THEN <<>> ELSE Earlier>> >>
=============================================================================
