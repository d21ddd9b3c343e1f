---------------------------- MODULE MCC47Memory ----------------------------
(* C47Memory on a pool of a few blocks.                                    *)
EXTENDS C47Memory

(***************************************************************************)
(* What pool_poison.zig:20-25 says of resizeProgramMemory: when it makes a *)
(* free region grow, the blocks the region newly covers were program       *)
(* memory.                                                                 *)
(***************************************************************************)
GrownRegionWasProgramMemory ==
  [][ \A b \in Region0Addr .. RamSize - 1 :
        /\ beginOfProgramMemory < beginOfProgramMemory'
        /\ \E i \in DOMAIN freeMemoryRegions' : InRegion(b, freeMemoryRegions'[i])
        /\ ~ \E i \in DOMAIN freeMemoryRegions : InRegion(b, freeMemoryRegions[i])
        => b >= beginOfProgramMemory ]_vars
=============================================================================
