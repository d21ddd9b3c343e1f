------------------------- MODULE BlockAvailability -------------------------
(***************************************************************************)
(* The test that comes before every register and matrix allocation: is     *)
(* there room for numBlocks claims of sizeInBlocks and one of extra_size?  *)
(*                                                                         *)
(*   src/src/core/memory/block_availability_pure.zig   the accumulator     *)
(*   src/src/core/memory/memory.zig   isMemoryBlockAvailable, its scan     *)
(*                                                                         *)
(* The machine asks the question of some free list and then makes the      *)
(* claims, one call of freeListAlloc after the other.                      *)
(***************************************************************************)
EXTENDS FreeList

CONSTANTS
  MaxRegions,      (* free regions in the list                             *)
  MaxRegionSize,   (* blocks in a region                                   *)
  Sizes,           (* sizeInBlocks                                         *)
  NumBlocks,       (* numBlocks                                            *)
  Fraction         (* extraFraction is 1/Fraction                          *)

ASSUME AvailabilityAssumption ==
  /\ MaxRegions \in Nat /\ MaxRegionSize \in Nat
  /\ Sizes \subseteq Nat \ {0}
  /\ NumBlocks \in Nat \ {0} /\ Fraction \in Nat \ {0}

VARIABLES
  freeMemoryRegions,  (* the free list                                     *)
  size,               (* the size asked for                                *)
  available,          (* the answer                                        *)
  claims,             (* the claims still to be made, in order             *)
  granted             (* FALSE once a claim came back NULL                 *)

vars == <<freeMemoryRegions, size, available, claims, granted>>

(* scaleExtraSize: the fraction is cut off, not rounded.                   *)
scaleExtraSize(sizeInBlocks) == sizeInBlocks \div Fraction

---------------------------------------------------------------------------
(* The accumulator (Availability): blocks counted so far, whether the      *)
(* extra block was seen, and whether the request was found satisfiable.    *)
NoRegionSeen == [count |-> 0, haveExtra |-> FALSE, satisfied |-> FALSE]

(* Slip: whole blocks count towards the request, the extra block is        *)
(* forgotten.                                                              *)
acceptWithoutExtra(acc, this, sz, extra) ==
  LET count == acc.count + (this \div sz)
  IN  [acc EXCEPT !.count = count,
                  !.satisfied = acc.satisfied \/ count >= NumBlocks]

(* Slip: only one region is ever looked at, nothing is accumulated.        *)
acceptWithoutMemory(acc, this, sz, extra) ==
  [acc EXCEPT !.satisfied =
     acc.satisfied \/ this >= sz * NumBlocks + extra]

(***************************************************************************)
(* accept: a region that holds everything settles it; otherwise whole      *)
(* blocks are counted, and a region's rest, or a region too small for a    *)
(* whole block, can be the extra block.                                    *)
(***************************************************************************)
accept(acc, this, sz, extra) ==
  LET holdsAll  == this >= sz * NumBlocks + extra
      wholeOnes == this >= sz
      count     == IF wholeOnes THEN acc.count + (this \div sz) ELSE acc.count
      haveExtra == \/ acc.haveExtra
                   \/ wholeOnes /\ this % sz >= extra
                   \/ ~ wholeOnes /\ this >= extra
      enough    == \/ wholeOnes /\ count > NumBlocks
                   \/ wholeOnes /\ count = NumBlocks /\ haveExtra
                   \/ ~ wholeOnes /\ this >= extra /\ count >= NumBlocks
  IN  IF acc.satisfied THEN acc
      ELSE IF holdsAll THEN [acc EXCEPT !.satisfied = TRUE]
      ELSE [count |-> count, haveExtra |-> haveExtra, satisfied |-> enough]

(* The loop of isMemoryBlockAvailable: the accumulator after k regions.     *)
scanned(fr, sz) ==
  LET acc[k \in 0 .. Len(fr)] ==
        IF k = 0 THEN NoRegionSeen
                 ELSE accept(acc[k - 1], fr[k].sizeInBlocks, sz,
                             scaleExtraSize(sz))
  IN  acc

isMemoryBlockAvailable(fr, sz) == scanned(fr, sz)[Len(fr)].satisfied

---------------------------------------------------------------------------
(* The free lists of up to MaxRegions regions, one used block between two. *)
FreeLists ==
  UNION {{[i \in 1 .. n |-> [blockAddress |-> (MaxRegionSize + 1) * i,
                             sizeInBlocks |-> s[i]]]
          : s \in [1 .. n -> 0 .. MaxRegionSize]} : n \in 0 .. MaxRegions}

(* The caller asks, and is about to make its claims.                       *)
Init ==
  /\ freeMemoryRegions \in FreeLists
  /\ size \in Sizes
  /\ available = isMemoryBlockAvailable(freeMemoryRegions, size)
  /\ claims = Append([i \in 1 .. NumBlocks |-> size], scaleExtraSize(size))
  /\ granted = TRUE

(* A claim is granted from the best fit.  An extra claim of nothing is not *)
(* made.                                                                   *)
Granted ==
  /\ claims # <<>> /\ granted
  /\ IF Head(claims) = 0
       THEN UNCHANGED freeMemoryRegions
       ELSE \E k \in DOMAIN freeMemoryRegions :
              /\ IsBestFit(freeMemoryRegions, Head(claims), k)
              /\ freeMemoryRegions' = Carve(freeMemoryRegions, Head(claims), k)
  /\ claims' = Tail(claims)
  /\ UNCHANGED <<size, available, granted>>

(* A claim no region can hold comes back NULL.                             *)
Refused ==
  /\ claims # <<>> /\ granted
  /\ Head(claims) # 0
  /\ OutOfMemory(freeMemoryRegions, Head(claims))
  /\ granted' = FALSE
  /\ UNCHANGED <<freeMemoryRegions, size, available, claims>>

Next == Granted \/ Refused

Spec == Init /\ [][Next]_vars

---------------------------------------------------------------------------
(***************************************************************************)
(* An answer of yes is a promise: none of the claims the caller asked      *)
(* about comes back NULL, however the best fit spreads them over the       *)
(* regions (register_metadata_reallocate.zig frees the old block on the    *)
(* strength of it).                                                        *)
(***************************************************************************)
YesIsKept == available => granted

(***************************************************************************)
(* An answer of no is not given lightly: when it is no, the claims cannot  *)
(* all be met.  A RAM FULL reported with the room there would be wrong.    *)
(***************************************************************************)
NoIsJustified == granted /\ claims = <<>> => available
=============================================================================
