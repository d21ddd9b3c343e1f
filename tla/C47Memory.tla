----------------------------- MODULE C47Memory -----------------------------
(***************************************************************************)
(* The calculator's RAM pool: registers, variables, subroutine levels and  *)
(* formulae are blocks taken from the free list, and the program area      *)
(* grows downwards from the end of the pool into the last free region.     *)
(*                                                                         *)
(*   src/src/shell/free_list.zig            the free list                  *)
(*   src/src/core/memory/memory_c47_alloc.zig      the accounting wrappers *)
(*   src/src/core/memory/memory_resize_program.zig the program area        *)
(*   src/upstream/src/c47/memory.c          the free memory it reports     *)
(*                                                                         *)
(* One action is one call.  The callers' side of the contract is in the    *)
(* guards: a block is released, reduced or reallocated once, with the size *)
(* it was claimed with.  A definition marked "Slip" is a wrong variant of  *)
(* the one behind it, by which the properties are tested.                  *)
(***************************************************************************)
EXTENDS FreeList, FiniteSets

CONSTANTS
  RamSize,         (* RAM_SIZE_IN_BLOCKS                                   *)
  Region0Addr,     (* the first block behind the reserved variables        *)
  MaxFreeRegions,  (* MAX_FREE_REGIONS                                     *)
  C47_NULL,        (* the block address that stands for NULL               *)
  Claims,          (* the sizes the callers claim                          *)
  ProgramSizes,    (* the sizes the callers ask for the program area       *)
  DmcpBuild        (* firmware (TRUE) or simulator (FALSE)                 *)

ASSUME MemoryAssumption ==
  /\ RamSize \in Nat /\ Region0Addr \in Nat /\ Region0Addr + 1 < RamSize
  /\ MaxFreeRegions \in Nat \ {0}
  /\ C47_NULL \in Nat /\ C47_NULL > RamSize
  /\ Claims \subseteq Nat /\ ProgramSizes \subseteq 0 .. RamSize
  /\ DmcpBuild \in BOOLEAN

VARIABLES
  freeMemoryRegions,       (* the free list                                *)
  allocatedMemoryRegions,  (* the blocks in the callers' hands             *)
  beginOfProgramMemory,    (* first block of the program area              *)
  c47MemInBlocks,          (* blocks claimed, as the status menu shows it  *)
  returned,                (* the pointer the last call returned           *)
  status                   (* running, or how the program came to an end   *)

vars == <<freeMemoryRegions, allocatedMemoryRegions, beginOfProgramMemory,
          c47MemInBlocks, returned, status>>

(* A block in a caller's hands: its address and the size it was claimed    *)
(* with.                                                                   *)
Allocation == [blockAddress : Nat, claimed : Nat]
AllocEnd(a) == a.blockAddress + Blocks(a.claimed)

(* What a call that returns nothing leaves in returned.                    *)
NoPointer == C47_NULL + 1

(***************************************************************************)
(* A simulator that runs out of table entries or of room for programs      *)
(* exits.  On the firmware backToSystem() only sets a flag and returns, so *)
(* the code after it runs on.                                              *)
(***************************************************************************)
Status == {"running", "exited", "backToDMCP", "undefined"}

Init ==
  /\ freeMemoryRegions = <<[blockAddress |-> Region0Addr,
                            sizeInBlocks |-> RamSize - Region0Addr - 1]>>
  /\ allocatedMemoryRegions = {}
  /\ beginOfProgramMemory = RamSize - 1
  /\ c47MemInBlocks = 0
  /\ returned = NoPointer
  /\ status = "running"

(* Slip: the limit of the table is not tested.                             *)
ReleaseUnlimited(fr, p, n) ==
  freeMemoryRegions' = freeListFree(fr, p, n) /\ status' = status

(* The blocks p .. p+n-1 go back to the list fr; a full table ends the     *)
(* simulator, and makes the firmware write past the table.                 *)
Release(fr, p, n) ==
  IF NeedsEntry(fr, p, n) /\ Len(fr) = MaxFreeRegions
    THEN /\ status' = IF DmcpBuild THEN "undefined" ELSE "exited"
         /\ freeMemoryRegions' = fr
    ELSE /\ status' = status
         /\ freeMemoryRegions' = freeListFree(fr, p, n)

allocC47Blocks(claimed) ==
  /\ status = "running"
  /\ \/ \E k \in DOMAIN freeMemoryRegions :
          /\ IsBestFit(freeMemoryRegions, Blocks(claimed), k)
          /\ LET p == freeMemoryRegions[k].blockAddress
             IN  /\ freeMemoryRegions' =
                       Carve(freeMemoryRegions, Blocks(claimed), k)
                 /\ allocatedMemoryRegions' = allocatedMemoryRegions
                       \union {[blockAddress |-> p, claimed |-> claimed]}
                 /\ returned' = p
          /\ c47MemInBlocks' = c47MemInBlocks + claimed
     \/ /\ OutOfMemory(freeMemoryRegions, Blocks(claimed))
        /\ returned' = C47_NULL
        /\ UNCHANGED <<freeMemoryRegions, allocatedMemoryRegions,
                       c47MemInBlocks>>
  /\ UNCHANGED <<beginOfProgramMemory, status>>

freeC47Blocks(a) ==
  /\ status = "running"
  /\ c47MemInBlocks' = c47MemInBlocks - a.claimed
  /\ allocatedMemoryRegions' = allocatedMemoryRegions \ {a}
  /\ Release(freeMemoryRegions, a.blockAddress, Blocks(a.claimed))
  /\ returned' = NoPointer
  /\ UNCHANGED beginOfProgramMemory

(* The new block is taken before the old one is released, so the two never *)
(* overlap; without a new block the old one is kept.                       *)
reallocC47Blocks(a, claimed) ==
  /\ status = "running"
  /\ \/ \E k \in DOMAIN freeMemoryRegions :
          /\ IsBestFit(freeMemoryRegions, Blocks(claimed), k)
          /\ LET p == freeMemoryRegions[k].blockAddress
             IN  /\ allocatedMemoryRegions' = (allocatedMemoryRegions \ {a})
                       \union {[blockAddress |-> p, claimed |-> claimed]}
                 /\ returned' = p
          /\ Release(Carve(freeMemoryRegions, Blocks(claimed), k),
                     a.blockAddress, Blocks(a.claimed))
          /\ c47MemInBlocks' = c47MemInBlocks + claimed - a.claimed
     \/ /\ OutOfMemory(freeMemoryRegions, Blocks(claimed))
        /\ returned' = C47_NULL
        /\ UNCHANGED <<freeMemoryRegions, allocatedMemoryRegions,
                       c47MemInBlocks, status>>
  /\ UNCHANGED beginOfProgramMemory

(* Slip: the accounting takes the blocks that stay in use off as well.     *)
reduceC47BlocksMiscounted(a, claimed) ==
  /\ claimed < a.claimed
  /\ claimed # 0
  /\ status = "running"
  /\ allocatedMemoryRegions' = (allocatedMemoryRegions \ {a})
        \union {[a EXCEPT !.claimed = claimed]}
  /\ freeMemoryRegions' = freeListReduce(freeMemoryRegions, a.blockAddress,
                                         a.claimed, claimed)
  /\ c47MemInBlocks' = c47MemInBlocks - a.claimed
  /\ returned' = NoPointer
  /\ UNCHANGED <<beginOfProgramMemory, status>>

(* Reducing to nothing is a release; otherwise the tail is released.       *)
reduceC47Blocks(a, claimed) ==
  /\ claimed < a.claimed
  /\ \/ claimed = 0 /\ freeC47Blocks(a)
     \/ /\ claimed # 0
        /\ status = "running"
        /\ allocatedMemoryRegions' = (allocatedMemoryRegions \ {a})
              \union {[a EXCEPT !.claimed = claimed]}
        /\ IF /\ ReduceNeedsEntry(freeMemoryRegions, a.blockAddress, a.claimed)
              /\ Len(freeMemoryRegions) = MaxFreeRegions
             THEN /\ status' = IF DmcpBuild THEN "undefined" ELSE "exited"
                  /\ UNCHANGED freeMemoryRegions
             ELSE /\ freeMemoryRegions' =
                       freeListReduce(freeMemoryRegions, a.blockAddress,
                                      a.claimed, claimed)
                  /\ UNCHANGED status
        /\ c47MemInBlocks' = c47MemInBlocks + claimed - a.claimed
        /\ returned' = NoPointer
        /\ UNCHANGED beginOfProgramMemory

---------------------------------------------------------------------------
(***************************************************************************)
(* resizeProgramMemory adjusts the size of the last free region directly,  *)
(* without looking at its address.  With an empty table it addresses entry *)
(* -1.                                                                     *)
(***************************************************************************)
LastRegion == freeMemoryRegions[Len(freeMemoryRegions)]

SetLastSize(size) ==
  freeMemoryRegions' =
    [freeMemoryRegions EXCEPT ![Len(freeMemoryRegions)] =
       [blockAddress |-> LastRegion.blockAddress, sizeInBlocks |-> size]]

ProgramSize == RamSize - beginOfProgramMemory

(* The program area never gets smaller than the block of the empty .END.   *)
NewProgramSize(size) == IF size = 0 THEN 1 ELSE size

(* Slip: the room in the last region is not tested.                        *)
GrowProgramMemoryUntested(delta) ==
  /\ SetLastSize(LastRegion.sizeInBlocks - delta)
  /\ beginOfProgramMemory' = beginOfProgramMemory - delta
  /\ UNCHANGED status

GrowProgramMemory(delta) ==
  \/ /\ delta <= LastRegion.sizeInBlocks
     /\ SetLastSize(LastRegion.sizeInBlocks - delta)
     /\ beginOfProgramMemory' = beginOfProgramMemory - delta
     /\ UNCHANGED status
  \/ /\ delta > LastRegion.sizeInBlocks
     /\ IF DmcpBuild
          THEN /\ status' = "backToDMCP"
               /\ beginOfProgramMemory' = C47_NULL
          ELSE /\ status' = "exited"
               /\ UNCHANGED beginOfProgramMemory
     /\ UNCHANGED freeMemoryRegions

ShrinkProgramMemory(delta) ==
  /\ SetLastSize(LastRegion.sizeInBlocks + delta)
  /\ beginOfProgramMemory' = beginOfProgramMemory + delta
  /\ UNCHANGED status

resizeProgramMemory(size) ==
  /\ status = "running"
  /\ \/ /\ freeMemoryRegions = <<>>
        /\ NewProgramSize(size) # ProgramSize
        /\ status' = "undefined"
        /\ UNCHANGED <<freeMemoryRegions, beginOfProgramMemory>>
     \/ /\ freeMemoryRegions # <<>>
        /\ NewProgramSize(size) > ProgramSize
        /\ GrowProgramMemory(NewProgramSize(size) - ProgramSize)
     \/ /\ freeMemoryRegions # <<>>
        /\ NewProgramSize(size) < ProgramSize
        /\ ShrinkProgramMemory(ProgramSize - NewProgramSize(size))
  /\ returned' = NoPointer
  /\ UNCHANGED <<allocatedMemoryRegions, c47MemInBlocks>>

---------------------------------------------------------------------------
BlockCalls ==
  \/ \E claimed \in Claims : allocC47Blocks(claimed)
  \/ \E a \in allocatedMemoryRegions :
       \/ freeC47Blocks(a)
       \/ \E claimed \in Claims : reallocC47Blocks(a, claimed)
       \/ \E claimed \in Claims : reduceC47Blocks(a, claimed)

Next == BlockCalls \/ \E size \in ProgramSizes : resizeProgramMemory(size)

Spec == Init /\ [][Next]_vars

(***************************************************************************)
(* What resizeProgramMemory takes for granted and nothing in the code      *)
(* checks: the last free region is the one in front of the program area.   *)
(***************************************************************************)
TailRegionMeetsPrograms ==
  /\ freeMemoryRegions # <<>>
  /\ End(LastRegion) = beginOfProgramMemory

NextTail ==
  \/ BlockCalls
  \/ /\ TailRegionMeetsPrograms
     /\ \E size \in ProgramSizes : resizeProgramMemory(size)

(* The calls in any order, as long as what is taken for granted holds      *)
(* whenever the program area is resized.                                   *)
SpecTail == Init /\ [][NextTail]_vars

---------------------------------------------------------------------------
(* Every variable has its type.                                            *)
TypeOK ==
  /\ freeMemoryRegions \in Seq(Region)
  /\ allocatedMemoryRegions \in SUBSET Allocation
  /\ beginOfProgramMemory \in Nat
  /\ c47MemInBlocks \in Int
  /\ returned \in Nat
  /\ status \in Status

(***************************************************************************)
(* Whatever the order of the calls, the free list stays sorted and fully   *)
(* coalesced: a region that reaches or touches the next one is what        *)
(* checkFreeRegionOverlap reports as a double free (free_list.zig:402).    *)
(***************************************************************************)
FreeRegionsSortedApart == SortedApart(freeMemoryRegions)

(* The extents of the pool: the free regions and the blocks in use.        *)
InRegion(b, r) == r.blockAddress <= b /\ b < End(r)
InAllocation(b, a) == a.blockAddress <= b /\ b < AllocEnd(a)

(***************************************************************************)
(* No block of the pool is in two places: two callers never hold the same  *)
(* block, no caller's block is free, and neither reaches into the program  *)
(* area.  resizeProgramMemory and the free list share the last region      *)
(* without telling each other.                                             *)
(***************************************************************************)
NoSharedBlock ==
  status = "running" =>
    /\ \A a, b \in allocatedMemoryRegions :
         a # b => AllocEnd(a) <= b.blockAddress \/ AllocEnd(b) <= a.blockAddress
    /\ \A a \in allocatedMemoryRegions : \A i \in DOMAIN freeMemoryRegions :
         \/ AllocEnd(a) <= freeMemoryRegions[i].blockAddress
         \/ End(freeMemoryRegions[i]) <= a.blockAddress
    /\ \A a \in allocatedMemoryRegions :
         Region0Addr <= a.blockAddress /\ AllocEnd(a) <= beginOfProgramMemory
    /\ \A i \in DOMAIN freeMemoryRegions :
         /\ Region0Addr <= freeMemoryRegions[i].blockAddress
         /\ End(freeMemoryRegions[i]) <= beginOfProgramMemory

(***************************************************************************)
(* No block of the pool is lost: what is neither in a caller's hands nor   *)
(* in the program area is in the free list, so that every release, partial *)
(* release and program resize gives its blocks back.                       *)
(***************************************************************************)
NoLostBlock ==
  status = "running" =>
    \A b \in Region0Addr .. beginOfProgramMemory - 1 :
      \/ \E i \in DOMAIN freeMemoryRegions : InRegion(b, freeMemoryRegions[i])
      \/ \E a \in allocatedMemoryRegions : InAllocation(b, a)

(***************************************************************************)
(* The two figures the status menu shows add up: blocks claimed (plus one  *)
(* for every claim of zero blocks), free blocks and the program area make  *)
(* the whole pool.                                                         *)
(***************************************************************************)
FiguresAddUp ==
  status = "running" =>
    c47MemInBlocks
      + Cardinality({a \in allocatedMemoryRegions : a.claimed = 0})
      + getFreeRamMemory(freeMemoryRegions)
      + ProgramSize
    = RamSize - Region0Addr

(***************************************************************************)
(* The table never holds more entries than it has room for, and never more *)
(* than the live blocks can separate: with coalescing, at most one region  *)
(* more than there are blocks in use.  This is what makes MAX_FREE_REGIONS *)
(* a bound on fragmentation.                                               *)
(***************************************************************************)
TableBounded ==
  status = "running" =>
    /\ Len(freeMemoryRegions) <= MaxFreeRegions
    /\ Len(freeMemoryRegions) <= Cardinality(allocatedMemoryRegions) + 1

---------------------------------------------------------------------------
(* The pool as its callers see it, without the free list.                  *)
Pool == INSTANCE BlockPool WITH
          NULL         <- C47_NULL,
          NONE         <- NoPointer,
          inUse        <- allocatedMemoryRegions,
          programStart <- beginOfProgramMemory,
          answer       <- returned,
          running      <- (status = "running")

(***************************************************************************)
(* The best-fit free list with coalescing implements the abstract pool: in *)
(* particular a claim fails only when no run of unused blocks is long      *)
(* enough, whatever happened before (free_list.zig, freeListAlloc).        *)
(***************************************************************************)
ImplementsBlockPool == Pool!Spec
=============================================================================
