------------------------------ MODULE FreeList ------------------------------
(***************************************************************************)
(* The free list behind the calculator's block allocator, as pure          *)
(* operators on a list of free regions (src/src/shell/free_list.zig).      *)
(*                                                                         *)
(* The table freeMemoryRegions[0 .. numberOfFreeMemoryRegions-1] is a      *)
(* sequence of regions; its length is numberOfFreeMemoryRegions.  An xcopy *)
(* that closes or opens a gap in the table is RemoveAt or InsertAt.        *)
(* Addresses and sizes count 4-byte blocks.                                *)
(*                                                                         *)
(* A definition marked "Slip" is a wrong variant of the one behind it, by  *)
(* which the properties are tested; no specification uses it.              *)
(***************************************************************************)
EXTENDS Integers, Sequences, SequencesExt

(* An entry of the table: freeMemoryRegion_t.                              *)
Region == [blockAddress : Nat, sizeInBlocks : Nat]

(* The first block after a region.                                         *)
End(r) == r.blockAddress + r.sizeInBlocks

(* A claim of zero blocks takes one.                                       *)
Blocks(claimed) == IF claimed = 0 THEN 1 ELSE claimed

---------------------------------------------------------------------------
(***************************************************************************)
(* freeListAlloc: the first region of exactly n blocks wins, otherwise the *)
(* smallest larger one, the first of them when several are equally small.  *)
(***************************************************************************)
IsBestFit(fr, n, k) ==
  /\ fr[k].sizeInBlocks >= n
  /\ \A m \in DOMAIN fr :
       fr[m].sizeInBlocks >= n =>
         \/ fr[k].sizeInBlocks < fr[m].sizeInBlocks
         \/ fr[k].sizeInBlocks = fr[m].sizeInBlocks /\ k <= m

(* Slip: give up when the first region of the table is too small.          *)
OutOfMemoryAtFirst(fr, n) ==
  \A k \in DOMAIN fr : k = 1 => fr[k].sizeInBlocks < n

(* No region can hold n blocks: freeListAlloc returns NULL.                *)
OutOfMemory(fr, n) == \A k \in DOMAIN fr : fr[k].sizeInBlocks < n

(* Slip: the rest of the region keeps the address of the block taken.      *)
CarveInPlace(fr, n, k) ==
  IF fr[k].sizeInBlocks = n
    THEN RemoveAt(fr, k)
    ELSE [fr EXCEPT ![k].sizeInBlocks = fr[k].sizeInBlocks - n]

(* A block is taken from the front of region k; an exact fit leaves the    *)
(* table.                                                                  *)
Carve(fr, n, k) ==
  IF fr[k].sizeInBlocks = n
    THEN RemoveAt(fr, k)
    ELSE [fr EXCEPT ![k] = [blockAddress |-> fr[k].blockAddress + n,
                            sizeInBlocks |-> fr[k].sizeInBlocks - n]]

---------------------------------------------------------------------------
(* The regions that start at an address, and those that end at one.        *)
StartingAt(fr, a) == {i \in DOMAIN fr : fr[i].blockAddress = a}
EndingAt(fr, a) == {i \in DOMAIN fr : End(fr[i]) = a}

(* insertFreeBlock's slot: the first region that does not start before p.  *)
IsInsertionPoint(fr, p, i) ==
  /\ i \in 1 .. Len(fr) + 1
  /\ \A m \in 1 .. i - 1 : fr[m].blockAddress < p
  /\ i <= Len(fr) => fr[i].blockAddress >= p

(* insertFreeBlock, below the limit of the table.                          *)
insertFreeBlock(fr, p, n) ==
  InsertAt(fr, CHOOSE i \in 1 .. Len(fr) + 1 : IsInsertionPoint(fr, p, i),
           [blockAddress |-> p, sizeInBlocks |-> n])

(* Region j grows downwards by the n blocks in front of it.                *)
GrowDown(fr, j, n) ==
  [fr EXCEPT ![j] = [blockAddress |-> fr[j].blockAddress - n,
                     sizeInBlocks |-> fr[j].sizeInBlocks + n]]

(* Region i grows upwards by the n blocks behind it.                       *)
GrowUp(fr, i, n) ==
  [fr EXCEPT ![i] = [blockAddress |-> fr[i].blockAddress,
                     sizeInBlocks |-> fr[i].sizeInBlocks + n]]

(* Releasing p .. p+n-1 touches no free region, so it needs a new entry.   *)
NeedsEntry(fr, p, n) ==
  /\ StartingAt(fr, p + n) = {}
  /\ EndingAt(fr, p) = {}

(* Slip: the region behind is joined, the region in front is not looked at. *)
freeListFreeJoinsBehind(fr, p, n) ==
  LET after == StartingAt(fr, p + n)
  IN  IF after # {} THEN GrowDown(fr, CHOOSE x \in after : TRUE, n)
                    ELSE insertFreeBlock(fr, p, n)

(***************************************************************************)
(* freeListFree: the released blocks join the region behind them, then the *)
(* region in front; when they join both, the entry behind is removed.      *)
(***************************************************************************)
freeListFree(fr, p, n) ==
  LET after  == StartingAt(fr, p + n)
      before == EndingAt(fr, p)
      j      == CHOOSE x \in after : TRUE
      i      == CHOOSE x \in before : TRUE
  IN  CASE after # {} /\ before # {} ->
             RemoveAt(GrowUp(fr, i, n + fr[j].sizeInBlocks), j)
        [] after # {} /\ before = {} -> GrowDown(fr, j, n)
        [] after = {} /\ before # {} -> GrowUp(fr, i, n)
        [] OTHER -> insertFreeBlock(fr, p, n)

(* Slip: the tail is taken to begin one block further on.                  *)
freeListReduceOffByOne(fr, p, old, new) ==
  LET after == StartingAt(fr, p + old)
  IN  IF after # {} THEN GrowDown(fr, CHOOSE x \in after : TRUE, old - new - 1)
                    ELSE insertFreeBlock(fr, p + new + 1, old - new - 1)

(* freeListReduce: only the tail is released, behind a block that stays    *)
(* allocated.                                                              *)
freeListReduce(fr, p, old, new) ==
  LET after == StartingAt(fr, p + old)
      j     == CHOOSE x \in after : TRUE
  IN  IF after # {} THEN GrowDown(fr, j, old - new)
                    ELSE insertFreeBlock(fr, p + new, old - new)

(* The entry freeListReduce needs when the tail meets no free region.      *)
ReduceNeedsEntry(fr, p, old) == StartingAt(fr, p + old) = {}

---------------------------------------------------------------------------
(* getFreeRamMemory, in blocks: freeMem after k turns of its loop, and     *)
(* what the status menu and MEM? show.                                     *)
freeMem(fr) ==
  LET sum[k \in 0 .. Len(fr)] ==
        IF k = 0 THEN 0 ELSE sum[k - 1] + fr[k].sizeInBlocks
  IN  sum

getFreeRamMemory(fr) == freeMem(fr)[Len(fr)]

---------------------------------------------------------------------------
(***************************************************************************)
(* What checkFreeRegionOverlap looks for: the table is sorted by address   *)
(* and no region reaches, or even touches, a later one.                    *)
(***************************************************************************)
SortedApart(fr) ==
  \A i, j \in DOMAIN fr : i < j => End(fr[i]) < fr[j].blockAddress
=============================================================================
