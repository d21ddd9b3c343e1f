------------------------ MODULE MCSubroutineLevels ------------------------
(* SubroutineLevels on a pool that hands out the first blocks that are     *)
(* free, so that a block given back is the next one taken.                 *)
EXTENDS SubroutineLevels, TLC

MCPlaces(S, k) ==
  LET free   == Addr \ S
      nth(i) == CHOOSE a \in free : Cardinality({b \in free : b <= a}) = i
  IN IF k <= Cardinality(free) THEN {[i \in 1 .. k |-> nth(i)]} ELSE {}

(* The states TLC tells apart: as long as every block has its one owner    *)
(* and the links are right, it does not matter which block is whose.       *)
View ==
  << [i \in DOMAIN Chain |-> <<Frame(Chain[i]), ram.lev[Chain[i]].level>>],
     ram.lost, ram.count, here, running, engines, job, cut,
     IF LevelsOwnMemory /\ LevelsLinked THEN <<>> ELSE <<ram>> >>

(* One routine is like another.                                            *)
Symmetry == Permutations(Points)
=============================================================================
