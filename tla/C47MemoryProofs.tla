-------------------------- MODULE C47MemoryProofs --------------------------
(***************************************************************************)
(* The allocator keeps its pool partitioned, for pools, tables and claims  *)
(* of any size; and what that means for its users: the figures the status  *)
(* menu shows add up, the table of free regions is bounded by the blocks   *)
(* in use, and the free list implements the abstract pool.                 *)
(***************************************************************************)
EXTENDS C47Memory, FreeListProofs, FiniteSetTheorems, FunctionTheorems

(***************************************************************************)
(* The partition of the pool, of a free list fr, blocks in use al and a    *)
(* program area that starts at bg.  It is stated with parameters because   *)
(* reallocC47Blocks passes through an intermediate list.                   *)
(***************************************************************************)
UseDisjoint(al) ==
  \A a, b \in al : a # b => AllocEnd(a) <= b.blockAddress
                            \/ AllocEnd(b) <= a.blockAddress

UseApart(fr, al) == \A a \in al : Apart(fr, a.blockAddress, Blocks(a.claimed))

UseWithin(al, bg) ==
  \A a \in al : Region0Addr <= a.blockAddress /\ AllocEnd(a) <= bg

FreeWithin(fr, bg) ==
  \A i \in DOMAIN fr : Region0Addr <= fr[i].blockAddress /\ End(fr[i]) <= bg

Covered(fr, al, bg) ==
  \A b \in Region0Addr .. bg - 1 :
    InFree(b, fr) \/ \E a \in al : InAllocation(b, a)

PoolOK(fr, al, bg) ==
  /\ fr \in Seq(Region)
  /\ al \in SUBSET Allocation
  /\ SortedApart(fr)
  /\ UseDisjoint(al)
  /\ UseApart(fr, al)
  /\ UseWithin(al, bg)
  /\ FreeWithin(fr, bg)
  /\ Covered(fr, al, bg)

(* The inductive invariant.                                                *)
MemoryInv ==
  /\ TypeOK
  /\ FreeRegionsSortedApart
  /\ status = "running" =>
       /\ PoolOK(freeMemoryRegions, allocatedMemoryRegions, beginOfProgramMemory)
       /\ Region0Addr <= beginOfProgramMemory /\ beginOfProgramMemory < RamSize

---------------------------------------------------------------------------
(* A claim takes at least one block.                                       *)
LEMMA BlocksPositive ==
  ASSUME NEW c \in Nat
  PROVE  Blocks(c) \in Nat \ {0} /\ c <= Blocks(c)
BY DEF Blocks

(* The numbers of a block in use.                                          *)
LEMMA AllocationNumbers ==
  ASSUME NEW al \in SUBSET Allocation, NEW a \in al
  PROVE  /\ a.blockAddress \in Nat /\ a.claimed \in Nat
         /\ Blocks(a.claimed) \in Nat \ {0}
         /\ AllocEnd(a) = a.blockAddress + Blocks(a.claimed)
         /\ AllocEnd(a) \in Nat
<1>1. a.blockAddress \in Nat /\ a.claimed \in Nat
  BY DEF Allocation
<1>2. QED
  BY <1>1, BlocksPositive DEF AllocEnd

(* Taking a block keeps the pool partitioned.                              *)
LEMMA CarveKeepsPool ==
  ASSUME NEW fr, NEW al, NEW bg \in Nat, PoolOK(fr, al, bg),
         NEW c \in Nat, NEW k \in DOMAIN fr, Blocks(c) <= fr[k].sizeInBlocks
  PROVE  LET new == [blockAddress |-> fr[k].blockAddress, claimed |-> c]
         IN  /\ PoolOK(Carve(fr, Blocks(c), k), al \union {new}, bg)
             /\ new \in Allocation /\ new \notin al
             /\ Len(Carve(fr, Blocks(c), k)) <= Len(fr)
<1> DEFINE n == Blocks(c)
           p == fr[k].blockAddress
           new == [blockAddress |-> p, claimed |-> c]
           g == Carve(fr, n, k)
           al2 == al \union {new}
<1>1. fr \in Seq(Region) /\ SortedApart(fr)
  BY DEF PoolOK
<1>2. /\ Len(fr) \in Nat /\ DOMAIN fr = 1 .. Len(fr)
      /\ \A i \in 1 .. Len(fr) :
           /\ fr[i].blockAddress \in Nat /\ fr[i].sizeInBlocks \in Nat
           /\ End(fr[i]) \in Nat /\ fr[i].blockAddress <= End(fr[i])
           /\ End(fr[i]) = fr[i].blockAddress + fr[i].sizeInBlocks
  BY <1>1, RegionNumbers
<1>3. n \in Nat \ {0}
  BY BlocksPositive
<1>4. p \in Nat /\ p + n <= End(fr[k]) /\ Region0Addr <= p /\ End(fr[k]) <= bg
  BY <1>2, <1>3 DEF PoolOK, FreeWithin
<1>5. new \in Allocation /\ AllocEnd(new) = p + n /\ new.blockAddress = p
  BY <1>4 DEF Allocation, AllocEnd
<1>6. /\ g \in Seq(Region)
      /\ Len(g) <= Len(fr)
      /\ SortedApart(g) /\ Apart(g, p, n)
  BY <1>1, <1>2, <1>3, CarveProperties
<1>7. \A i \in DOMAIN g : \E j \in DOMAIN fr :
        fr[j].blockAddress <= g[i].blockAddress /\ End(g[i]) <= End(fr[j])
  BY <1>1, <1>2, <1>3, CarveProperties
<1>8. \A b \in Int : InFree(b, fr) => InFree(b, g) \/ (p <= b /\ b < p + n)
  BY <1>1, <1>2, <1>3, CarveProperties
<1>9. /\ Len(g) \in Nat /\ DOMAIN g = 1 .. Len(g)
      /\ \A i \in 1 .. Len(g) :
           g[i].blockAddress \in Nat /\ End(g[i]) \in Nat
  BY <1>6, RegionEntries
<1> HIDE DEF n, p, new, g
<1>10. ASSUME NEW a \in al
       PROVE  AllocEnd(a) <= p \/ p + n <= a.blockAddress
  <2>1. \/ a.blockAddress + Blocks(a.claimed) <= fr[k].blockAddress
        \/ End(fr[k]) <= a.blockAddress
    BY DEF PoolOK, UseApart, Apart
  <2>2. AllocEnd(a) = a.blockAddress + Blocks(a.claimed) /\ a.blockAddress \in Nat
    BY AllocationNumbers DEF PoolOK
  <2>3. End(fr[k]) \in Nat
    BY <1>2
  <2>4. QED
    BY <1>3, <1>4, <2>1, <2>2, <2>3 DEF p
<1>11. new \notin al
  <2> SUFFICES ASSUME new \in al PROVE FALSE
    OBVIOUS
  <2>1. AllocEnd(new) <= p \/ p + n <= new.blockAddress
    BY <1>10
  <2>2. QED
    BY <1>3, <1>4, <1>5, <2>1
<1>12. al2 \in SUBSET Allocation
  BY <1>5 DEF PoolOK
<1>13. UseDisjoint(al2)
  BY <1>5, <1>10 DEF PoolOK, UseDisjoint
<1>14. UseApart(g, al2)
  <2> SUFFICES ASSUME NEW a \in al2
               PROVE  Apart(g, a.blockAddress, Blocks(a.claimed))
    BY DEF UseApart
  <2>1. CASE a = new
    BY <1>6, <2>1 DEF new, n
  <2>2. CASE a \in al
    <3> SUFFICES ASSUME NEW i \in DOMAIN g
                 PROVE  \/ a.blockAddress + Blocks(a.claimed) <= g[i].blockAddress
                        \/ End(g[i]) <= a.blockAddress
      BY DEF Apart
    <3>1. PICK j \in DOMAIN fr : /\ fr[j].blockAddress <= g[i].blockAddress
                                 /\ End(g[i]) <= End(fr[j])
      BY <1>7
    <3>2. \/ a.blockAddress + Blocks(a.claimed) <= fr[j].blockAddress
          \/ End(fr[j]) <= a.blockAddress
      BY <2>2 DEF PoolOK, UseApart, Apart
    <3>3. a.blockAddress \in Nat /\ Blocks(a.claimed) \in Nat
      BY <2>2, AllocationNumbers DEF PoolOK
    <3>4. /\ fr[j].blockAddress \in Nat /\ End(fr[j]) \in Nat
          /\ g[i].blockAddress \in Nat /\ End(g[i]) \in Nat
      BY <1>2, <1>9
    <3>5. QED
      BY <3>1, <3>2, <3>3, <3>4
  <2>3. QED
    BY <2>1, <2>2
<1>15. UseWithin(al2, bg)
  <2>1. AllocEnd(new) <= bg
    BY <1>2, <1>3, <1>4, <1>5
  <2>2. QED
    BY <1>4, <1>5, <2>1 DEF PoolOK, UseWithin
<1>16. FreeWithin(g, bg)
  <2> SUFFICES ASSUME NEW i \in DOMAIN g
               PROVE  Region0Addr <= g[i].blockAddress /\ End(g[i]) <= bg
    BY DEF FreeWithin
  <2>1. PICK j \in DOMAIN fr : /\ fr[j].blockAddress <= g[i].blockAddress
                               /\ End(g[i]) <= End(fr[j])
    BY <1>7
  <2>2. Region0Addr <= fr[j].blockAddress /\ End(fr[j]) <= bg
    BY DEF PoolOK, FreeWithin
  <2>3. /\ fr[j].blockAddress \in Nat /\ End(fr[j]) \in Nat
        /\ g[i].blockAddress \in Nat /\ End(g[i]) \in Nat
    BY <1>2, <1>9
  <2>4. QED
    BY <2>1, <2>2, <2>3, MemoryAssumption
<1>17. Covered(g, al2, bg)
  <2> SUFFICES ASSUME NEW b \in Region0Addr .. bg - 1
               PROVE  InFree(b, g) \/ \E a \in al2 : InAllocation(b, a)
    BY DEF Covered
  <2>1. b \in Int
    BY MemoryAssumption
  <2>2. CASE InFree(b, fr)
    <3>1. CASE InFree(b, g)
      BY <3>1
    <3>2. CASE p <= b /\ b < p + n
      BY <1>5, <3>2 DEF InAllocation
    <3>3. QED
      BY <1>8, <2>1, <2>2, <3>1, <3>2
  <2>3. CASE \E a \in al : InAllocation(b, a)
    BY <2>3
  <2>4. QED
    BY <2>2, <2>3 DEF PoolOK, Covered
<1>18. PoolOK(g, al2, bg)
  BY <1>6, <1>12, <1>13, <1>14, <1>15, <1>16, <1>17 DEF PoolOK
<1>19. QED
  BY <1>5, <1>6, <1>11, <1>18 DEF g, n, new, p

(* Giving a block back keeps the pool partitioned.                         *)
LEMMA FreeKeepsPool ==
  ASSUME NEW fr, NEW al, NEW bg \in Nat, PoolOK(fr, al, bg), NEW a \in al
  PROVE  LET g == freeListFree(fr, a.blockAddress, Blocks(a.claimed))
         IN  /\ PoolOK(g, al \ {a}, bg)
             /\ Len(g) <= Len(fr) + 1
             /\ ~ NeedsEntry(fr, a.blockAddress, Blocks(a.claimed)) =>
                  Len(g) <= Len(fr)
<1> DEFINE p == a.blockAddress
           n == Blocks(a.claimed)
           g == freeListFree(fr, p, n)
           al2 == al \ {a}
<1>1. /\ fr \in Seq(Region) /\ SortedApart(fr) /\ al \in SUBSET Allocation
      /\ Apart(fr, p, n)
  BY DEF PoolOK, UseApart
<1>2. /\ p \in Nat /\ n \in Nat \ {0} /\ AllocEnd(a) = p + n
      /\ Region0Addr <= p /\ p + n <= bg
  BY <1>1, AllocationNumbers DEF PoolOK, UseWithin
<1>3. Released(g, fr, p, n)
  BY <1>1, <1>2, FreeReleases
<1> HIDE DEF p, n, g
<1>4. UseDisjoint(al2)
  BY DEF PoolOK, UseDisjoint
<1>5. UseApart(g, al2)
  <2> SUFFICES ASSUME NEW b \in al2
               PROVE  Apart(g, b.blockAddress, Blocks(b.claimed))
    BY DEF UseApart
  <2>1. /\ b.blockAddress \in Nat /\ Blocks(b.claimed) \in Nat \ {0}
        /\ AllocEnd(b) = b.blockAddress + Blocks(b.claimed)
    BY <1>1, AllocationNumbers
  <2>2. p + n <= b.blockAddress \/ b.blockAddress + Blocks(b.claimed) <= p
    BY <1>2, <2>1 DEF PoolOK, UseDisjoint, p
  <2>3. Apart(fr, b.blockAddress, Blocks(b.claimed))
    BY DEF PoolOK, UseApart
  <2>4. QED
    BY <1>1, <1>2, <1>3, <2>1, <2>2, <2>3, ReleasedStaysApart
<1>6. UseWithin(al2, bg)
  BY DEF PoolOK, UseWithin
<1>7. FreeWithin(g, bg)
  <2>1. \A x \in DOMAIN fr :
          Region0Addr <= fr[x].blockAddress /\ End(fr[x]) <= bg
    BY DEF PoolOK, FreeWithin
  <2>2. QED
    BY <1>1, <1>2, <1>3, <2>1, ReleasedStaysWithin, MemoryAssumption
       DEF FreeWithin
<1>8. Covered(g, al2, bg)
  <2> SUFFICES ASSUME NEW b \in Region0Addr .. bg - 1
               PROVE  InFree(b, g) \/ \E x \in al2 : InAllocation(b, x)
    BY DEF Covered
  <2>1. b \in Int
    BY MemoryAssumption
  <2>2. CASE InFree(b, fr)
    BY <1>3, <2>1, <2>2 DEF Released
  <2>3. CASE InAllocation(b, a)
    <3>1. p <= b /\ b < p + n
      BY <1>2, <2>3 DEF InAllocation, p
    <3>2. QED
      BY <1>3, <2>1, <3>1 DEF Released
  <2>4. CASE \E x \in al : x # a /\ InAllocation(b, x)
    BY <2>4
  <2>5. QED
    BY <2>2, <2>3, <2>4 DEF PoolOK, Covered
<1>9. PoolOK(g, al2, bg)
  BY <1>1, <1>3, <1>4, <1>5, <1>6, <1>7, <1>8 DEF PoolOK, Released
<1>10. QED
  BY <1>3, <1>9 DEF Released, g, p, n

(* Giving the tail of a block back keeps the pool partitioned.             *)
LEMMA ReduceKeepsPool ==
  ASSUME NEW fr, NEW al, NEW bg \in Nat, PoolOK(fr, al, bg), NEW a \in al,
         NEW c \in Nat \ {0}, c < a.claimed
  PROVE  LET g == freeListReduce(fr, a.blockAddress, a.claimed, c)
         IN  /\ PoolOK(g, (al \ {a}) \union {[a EXCEPT !.claimed = c]}, bg)
             /\ Len(g) <= Len(fr) + 1
             /\ ~ ReduceNeedsEntry(fr, a.blockAddress, a.claimed) =>
                  Len(g) <= Len(fr)
<1> DEFINE p == a.blockAddress
           old == a.claimed
           new == [a EXCEPT !.claimed = c]
           g == freeListReduce(fr, p, old, c)
           q == p + c
           n == old - c
           al2 == (al \ {a}) \union {new}
<1>1. /\ fr \in Seq(Region) /\ SortedApart(fr) /\ al \in SUBSET Allocation
      /\ a \in Allocation
  BY DEF PoolOK
<1>2. p \in Nat /\ old \in Nat /\ Blocks(old) = old /\ Blocks(c) = c
  BY <1>1, AllocationNumbers DEF Blocks
<1>3. /\ AllocEnd(a) = p + old /\ Apart(fr, p, old)
      /\ Region0Addr <= p /\ p + old <= bg
  BY <1>2 DEF PoolOK, UseApart, UseWithin, AllocEnd
<1>4. /\ new \in Allocation /\ new.blockAddress = p /\ new.claimed = c
      /\ AllocEnd(new) = p + c
  BY <1>1, <1>2 DEF Allocation, AllocEnd
<1>5. /\ q \in Nat /\ n \in Nat \ {0} /\ q + n = p + old
      /\ p < q
  BY <1>2
<1>6. /\ Released(g, fr, q, n)
      /\ ReduceNeedsEntry(fr, p, old) <=> NeedsEntry(fr, q, n)
  BY <1>1, <1>2, <1>3, ReduceReleases
<1> HIDE DEF p, old, new, g, q, n
<1>7. ASSUME NEW b \in al \ {a}
      PROVE  /\ b.blockAddress \in Nat /\ Blocks(b.claimed) \in Nat \ {0}
             /\ AllocEnd(b) = b.blockAddress + Blocks(b.claimed)
             /\ p + old <= b.blockAddress \/ AllocEnd(b) <= p
  <2>1. /\ b.blockAddress \in Nat /\ Blocks(b.claimed) \in Nat \ {0}
        /\ AllocEnd(b) = b.blockAddress + Blocks(b.claimed)
    BY <1>1, AllocationNumbers
  <2>2. AllocEnd(a) <= b.blockAddress \/ AllocEnd(b) <= a.blockAddress
    BY DEF PoolOK, UseDisjoint
  <2>3. QED
    BY <1>3, <2>1, <2>2 DEF p
<1>8. UseDisjoint(al2)
  <2> SUFFICES ASSUME NEW x \in al2, NEW y \in al2, x # y
               PROVE  AllocEnd(x) <= y.blockAddress \/ AllocEnd(y) <= x.blockAddress
    BY DEF UseDisjoint
  <2>1. CASE x \in al \ {a} /\ y \in al \ {a}
    BY <2>1 DEF PoolOK, UseDisjoint
  <2>2. CASE x = new
    <3>1. y \in al \ {a}
      BY <2>2
    <3>2. /\ y.blockAddress \in Nat /\ AllocEnd(y) \in Nat
          /\ p + old <= y.blockAddress \/ AllocEnd(y) <= p
      BY <1>7, <3>1
    <3>3. QED
      BY <1>2, <1>4, <2>2, <3>2, c < old DEF old
  <2>3. CASE y = new
    <3>1. x \in al \ {a}
      BY <2>3
    <3>2. /\ x.blockAddress \in Nat /\ AllocEnd(x) \in Nat
          /\ p + old <= x.blockAddress \/ AllocEnd(x) <= p
      BY <1>7, <3>1
    <3>3. QED
      BY <1>2, <1>4, <2>3, <3>2, c < old DEF old
  <2>4. QED
    BY <2>1, <2>2, <2>3
<1>9. UseApart(g, al2)
  <2> SUFFICES ASSUME NEW b \in al2
               PROVE  Apart(g, b.blockAddress, Blocks(b.claimed))
    BY DEF UseApart
  <2>1. CASE b = new
    <3>1. Apart(fr, p, c)
      <4> SUFFICES ASSUME NEW i \in DOMAIN fr
                   PROVE  p + c <= fr[i].blockAddress \/ End(fr[i]) <= p
        BY DEF Apart
      <4>1. p + old <= fr[i].blockAddress \/ End(fr[i]) <= p
        BY <1>3 DEF Apart
      <4>2. fr[i].blockAddress \in Nat
        BY <1>1, RegionEntries
      <4>3. QED
        BY <1>2, <4>1, <4>2 DEF old
    <3>2. q + n <= p \/ p + c <= q
      BY <1>2, <1>5 DEF q
    <3>3. Apart(g, p, c)
      BY <1>1, <1>2, <1>5, <1>6, <3>1, <3>2, ReleasedStaysApart
    <3>4. QED
      BY <1>2, <1>4, <2>1, <3>3
  <2>2. CASE b \in al \ {a}
    <3>1. Apart(fr, b.blockAddress, Blocks(b.claimed))
      BY <2>2 DEF PoolOK, UseApart
    <3>2. q + n <= b.blockAddress \/ b.blockAddress + Blocks(b.claimed) <= q
      BY <1>2, <1>5, <1>7, <2>2
    <3>3. QED
      BY <1>1, <1>5, <1>6, <1>7, <2>2, <3>1, <3>2, ReleasedStaysApart
  <2>3. QED
    BY <2>1, <2>2
<1>10. UseWithin(al2, bg)
  <2>1. AllocEnd(new) <= bg
    BY <1>2, <1>3, <1>4 DEF old
  <2>2. QED
    BY <1>3, <1>4, <2>1 DEF PoolOK, UseWithin
<1>11. FreeWithin(g, bg)
  <2>1. \A x \in DOMAIN fr :
          Region0Addr <= fr[x].blockAddress /\ End(fr[x]) <= bg
    BY DEF PoolOK, FreeWithin
  <2>2. Region0Addr <= q /\ q + n <= bg
    BY <1>2, <1>3, <1>5, MemoryAssumption
  <2>3. QED
    BY <1>1, <1>5, <1>6, <2>1, <2>2, ReleasedStaysWithin, MemoryAssumption
       DEF FreeWithin
<1>12. Covered(g, al2, bg)
  <2> SUFFICES ASSUME NEW b \in Region0Addr .. bg - 1
               PROVE  InFree(b, g) \/ \E x \in al2 : InAllocation(b, x)
    BY DEF Covered
  <2>1. b \in Int
    BY MemoryAssumption
  <2>2. CASE InFree(b, fr)
    BY <1>6, <2>1, <2>2 DEF Released
  <2>3. CASE InAllocation(b, a)
    <3>1. p <= b /\ b < p + old
      BY <1>3, <2>3 DEF InAllocation, p
    <3>2. CASE b < q
      <4>1. InAllocation(b, new)
        BY <1>4, <3>1, <3>2 DEF InAllocation, q
      <4>2. QED
        BY <4>1
    <3>3. CASE q <= b
      BY <1>5, <1>6, <2>1, <3>1, <3>3 DEF Released
    <3>4. QED
      BY <1>5, <2>1, <3>2, <3>3
  <2>4. CASE \E x \in al : x # a /\ InAllocation(b, x)
    BY <2>4
  <2>5. QED
    BY <2>2, <2>3, <2>4 DEF PoolOK, Covered
<1>13. PoolOK(g, al2, bg)
  BY <1>1, <1>4, <1>6, <1>8, <1>9, <1>10, <1>11, <1>12 DEF PoolOK, Released
<1>14. QED
  BY <1>6, <1>13 DEF Released, g, p, old, new

(***************************************************************************)
(* Moving the border between the last free region and the program area     *)
(* behind it keeps the pool partitioned: no block in use lies between that *)
(* region and the program area.                                            *)
(***************************************************************************)
LEMMA ResizeKeepsPool ==
  ASSUME NEW fr, NEW al, NEW bg \in Nat, PoolOK(fr, al, bg),
         fr # <<>>, End(fr[Len(fr)]) = bg, NEW size \in Nat
  PROVE  LET g == [fr EXCEPT ![Len(fr)] =
                     [blockAddress |-> fr[Len(fr)].blockAddress,
                      sizeInBlocks |-> size]]
             start == fr[Len(fr)].blockAddress + size
         IN  /\ PoolOK(g, al, start)
             /\ start \in Nat /\ Region0Addr <= start
<1> DEFINE last == Len(fr)
           p == fr[last].blockAddress
           r == [blockAddress |-> p, sizeInBlocks |-> size]
           g == [fr EXCEPT ![last] = r]
           start == p + size
<1>1. fr \in Seq(Region) /\ SortedApart(fr) /\ al \in SUBSET Allocation
  BY DEF PoolOK
<1>2. /\ Len(fr) \in Nat /\ DOMAIN fr = 1 .. Len(fr)
      /\ \A i \in 1 .. Len(fr) :
           /\ fr[i].blockAddress \in Nat
           /\ End(fr[i]) \in Nat /\ fr[i].blockAddress <= End(fr[i])
  BY <1>1, RegionNumbers
<1>3. last \in 1 .. Len(fr) /\ last \in Nat /\ last = Len(fr)
  BY <1>1, <1>2, EmptySeq
<1>4. p \in Nat /\ start \in Nat /\ Region0Addr <= p /\ Region0Addr <= start
  BY <1>2, <1>3, MemoryAssumption DEF PoolOK, FreeWithin
<1>5. /\ g \in Seq(Region) /\ Len(g) = Len(fr)
      /\ \A i \in 1 .. Len(fr) : g[i] = IF i = last THEN r ELSE fr[i]
  BY <1>1, <1>3, <1>4, ReplaceEntry
<1>6. DOMAIN g = 1 .. Len(fr)
  BY <1>5, RegionNumbers
<1>7. r.blockAddress = p /\ End(r) = start
  BY DEF End
<1> HIDE DEF last, p, r, g, start
<1>8. ASSUME NEW i \in 1 .. Len(fr), i # last
      PROVE  End(fr[i]) < p
  <2>1. i < last
    BY <1>3, <1>8
  <2>2. QED
    BY <1>1, <1>2, <1>3, <2>1 DEF SortedApart, p
<1>9. ASSUME NEW a \in al
      PROVE  /\ a.blockAddress \in Nat /\ Blocks(a.claimed) \in Nat \ {0}
             /\ AllocEnd(a) = a.blockAddress + Blocks(a.claimed)
             /\ AllocEnd(a) <= p
  <2>1. /\ a.blockAddress \in Nat /\ Blocks(a.claimed) \in Nat \ {0}
        /\ AllocEnd(a) = a.blockAddress + Blocks(a.claimed)
    BY <1>1, AllocationNumbers
  <2>2. a.blockAddress + Blocks(a.claimed) <= p \/ bg <= a.blockAddress
    BY <1>2, <1>3 DEF PoolOK, UseApart, Apart, p, last
  <2>3. AllocEnd(a) <= bg
    BY DEF PoolOK, UseWithin
  <2>4. QED
    BY <1>4, <2>1, <2>2, <2>3
<1>10. SortedApart(g)
  <2> SUFFICES ASSUME NEW i \in 1 .. Len(fr), NEW j \in 1 .. Len(fr), i < j
               PROVE  End(g[i]) < g[j].blockAddress
    BY <1>6 DEF SortedApart
  <2>1. i # last
    BY <1>3
  <2>2. g[i] = fr[i]
    BY <1>5, <2>1
  <2>3. CASE j = last
    BY <1>5, <1>7, <1>8, <2>1, <2>2, <2>3
  <2>4. CASE j # last
    BY <1>1, <1>2, <1>5, <2>2, <2>4 DEF SortedApart
  <2>5. QED
    BY <2>3, <2>4
<1>11. UseDisjoint(al)
  BY DEF PoolOK
<1>12. UseApart(g, al)
  <2> SUFFICES ASSUME NEW a \in al, NEW i \in 1 .. Len(fr)
               PROVE  \/ a.blockAddress + Blocks(a.claimed) <= g[i].blockAddress
                      \/ End(g[i]) <= a.blockAddress
    BY <1>6 DEF UseApart, Apart
  <2>1. CASE i = last
    BY <1>5, <1>7, <1>9, <2>1
  <2>2. CASE i # last
    BY <1>2, <1>5, <2>2 DEF PoolOK, UseApart, Apart
  <2>3. QED
    BY <2>1, <2>2
<1>13. UseWithin(al, start)
  <2> SUFFICES ASSUME NEW a \in al
               PROVE  Region0Addr <= a.blockAddress /\ AllocEnd(a) <= start
    BY DEF UseWithin
  <2>1. Region0Addr <= a.blockAddress
    BY DEF PoolOK, UseWithin
  <2>2. AllocEnd(a) \in Nat /\ AllocEnd(a) <= p
    BY <1>9
  <2>3. QED
    BY <1>4, <2>1, <2>2 DEF start
<1>14. FreeWithin(g, start)
  <2> SUFFICES ASSUME NEW i \in 1 .. Len(fr)
               PROVE  Region0Addr <= g[i].blockAddress /\ End(g[i]) <= start
    BY <1>6 DEF FreeWithin
  <2>1. CASE i = last
    BY <1>4, <1>5, <1>7, <2>1
  <2>2. CASE i # last
    <3>1. g[i] = fr[i] /\ End(fr[i]) < p /\ End(fr[i]) \in Nat
      BY <1>2, <1>5, <1>8, <2>2
    <3>2. Region0Addr <= fr[i].blockAddress
      BY <1>2 DEF PoolOK, FreeWithin
    <3>3. QED
      BY <1>4, <3>1, <3>2 DEF start
  <2>3. QED
    BY <2>1, <2>2
<1>15. Covered(g, al, start)
  <2> SUFFICES ASSUME NEW b \in Region0Addr .. start - 1
               PROVE  InFree(b, g) \/ \E a \in al : InAllocation(b, a)
    BY DEF Covered
  <2>1. b \in Int /\ Region0Addr <= b /\ b < start
    BY <1>4, MemoryAssumption
  <2>2. CASE p <= b
    <3>1. g[last].blockAddress <= b /\ b < End(g[last])
      BY <1>3, <1>5, <1>7, <2>1, <2>2
    <3>2. QED
      BY <1>3, <1>6, <3>1 DEF InFree
  <2>3. CASE b < p
    <3>1. b \in Region0Addr .. bg - 1
      <4>1. p <= bg
        BY <1>2, <1>3 DEF p, last
      <4>2. QED
        BY <1>4, <2>1, <2>3, <4>1, MemoryAssumption
    <3>2. CASE InFree(b, fr)
      <4>1. PICK i \in 1 .. Len(fr) : fr[i].blockAddress <= b /\ b < End(fr[i])
        BY <1>2, <3>2 DEF InFree
      <4>2. i # last
        BY <1>4, <2>1, <2>3, <4>1 DEF p
      <4>3. g[i] = fr[i]
        BY <1>5, <4>2
      <4>4. QED
        BY <1>6, <4>1, <4>3 DEF InFree
    <3>3. QED
      BY <3>1, <3>2 DEF PoolOK, Covered
  <2>4. QED
    BY <1>4, <2>1, <2>2, <2>3
<1>16. PoolOK(g, al, start)
  BY <1>1, <1>5, <1>10, <1>11, <1>12, <1>13, <1>14, <1>15 DEF PoolOK
<1>17. QED
  BY <1>4, <1>16 DEF g, r, start, p, last

---------------------------------------------------------------------------
(* The pool starts out partitioned.                                        *)
LEMMA InitPool == Init => MemoryInv
<1> SUFFICES ASSUME Init PROVE MemoryInv
  OBVIOUS
<1> DEFINE r == [blockAddress |-> Region0Addr,
                 sizeInBlocks |-> RamSize - Region0Addr - 1]
           fr == <<r>>
<1>1. r \in Region /\ r.blockAddress = Region0Addr /\ End(r) = RamSize - 1
  BY MemoryAssumption DEF Region, End
<1>2. /\ fr \in Seq(Region) /\ Len(fr) = 1 /\ DOMAIN fr = 1 .. 1
      /\ fr[1] = r
  BY <1>1
<1> HIDE DEF r, fr
<1>3. SortedApart(fr)
  BY <1>2 DEF SortedApart
<1>4. FreeWithin(fr, RamSize - 1)
  BY <1>1, <1>2, MemoryAssumption DEF FreeWithin
<1>5. Covered(fr, {}, RamSize - 1)
  BY <1>1, <1>2, MemoryAssumption DEF Covered, InFree
<1>6. PoolOK(fr, {}, RamSize - 1)
  BY <1>2, <1>3, <1>4, <1>5
     DEF PoolOK, UseDisjoint, UseApart, UseWithin
<1>7. /\ freeMemoryRegions = fr /\ allocatedMemoryRegions = {}
      /\ beginOfProgramMemory = RamSize - 1 /\ status = "running"
      /\ c47MemInBlocks = 0 /\ returned = NoPointer
  BY DEF Init, fr, r
<1>8. TypeOK
  BY <1>2, <1>7, MemoryAssumption DEF TypeOK, Status, NoPointer
<1>9. QED
  BY <1>3, <1>6, <1>7, <1>8, MemoryAssumption
     DEF MemoryInv, FreeRegionsSortedApart

(***************************************************************************)
(* Release of a block in use, from a partitioned pool.                     *)
(***************************************************************************)
LEMMA ReleaseKeepsPool ==
  ASSUME NEW fr, NEW al, PoolOK(fr, al, beginOfProgramMemory),
         beginOfProgramMemory \in Nat, status \in Status,
         NEW a \in al, Release(fr, a.blockAddress, Blocks(a.claimed))
  PROVE  /\ freeMemoryRegions' \in Seq(Region) /\ SortedApart(freeMemoryRegions')
         /\ status' \in Status
         /\ status' = "running" =>
              PoolOK(freeMemoryRegions', al \ {a}, beginOfProgramMemory)
<1> DEFINE p == a.blockAddress
           n == Blocks(a.claimed)
<1>1. fr \in Seq(Region) /\ SortedApart(fr)
  BY DEF PoolOK
<1>2. PoolOK(freeListFree(fr, p, n), al \ {a}, beginOfProgramMemory)
  BY FreeKeepsPool
<1>3. /\ freeListFree(fr, p, n) \in Seq(Region)
      /\ SortedApart(freeListFree(fr, p, n))
  BY <1>2 DEF PoolOK
<1>4. CASE NeedsEntry(fr, p, n) /\ Len(fr) = MaxFreeRegions
  BY <1>1, <1>4 DEF Release, Status
<1>5. CASE ~ (NeedsEntry(fr, p, n) /\ Len(fr) = MaxFreeRegions)
  BY <1>2, <1>3, <1>5 DEF Release
<1>6. QED
  BY <1>4, <1>5

(***************************************************************************)
(* Every call keeps the inductive invariant; one step per call.            *)
(***************************************************************************)
LEMMA StepKeepsPool == MemoryInv /\ [NextTail]_vars => MemoryInv'
<1> SUFFICES ASSUME MemoryInv, [NextTail]_vars PROVE MemoryInv'
  OBVIOUS
<1> DEFINE fr == freeMemoryRegions
           al == allocatedMemoryRegions
           bg == beginOfProgramMemory
           Border == Region0Addr <= bg /\ bg < RamSize
<1>1. /\ fr \in Seq(Region) /\ al \in SUBSET Allocation /\ bg \in Nat
      /\ c47MemInBlocks \in Int /\ returned \in Nat /\ status \in Status
  BY DEF MemoryInv, TypeOK
<1>2. status = "running" => PoolOK(fr, al, bg) /\ Border
  BY DEF MemoryInv
<1>3. Claims \subseteq Nat /\ C47_NULL \in Nat /\ NoPointer \in Nat
  BY MemoryAssumption DEF NoPointer
<1>4. ASSUME NEW c \in Claims, allocC47Blocks(c)
      PROVE  MemoryInv'
  <2>1. PoolOK(fr, al, bg) /\ Border /\ c \in Nat
    BY <1>2, <1>3, <1>4 DEF allocC47Blocks
  <2>2. ASSUME NEW k \in DOMAIN fr, IsBestFit(fr, Blocks(c), k),
               fr' = Carve(fr, Blocks(c), k),
               al' = al \union {[blockAddress |-> fr[k].blockAddress,
                                 claimed |-> c]},
               returned' = fr[k].blockAddress,
               c47MemInBlocks' = c47MemInBlocks + c, bg' = bg, status' = status
        PROVE  MemoryInv'
    <3>1. Blocks(c) <= fr[k].sizeInBlocks
      <4>1. fr[k].sizeInBlocks \in Nat /\ Blocks(c) \in Nat
        BY <1>1, <2>1, RegionNumbers, BlocksPositive
      <4>2. QED
        BY <2>2, <4>1 DEF IsBestFit
    <3>2. PoolOK(fr', al', bg)
      BY <1>1, <2>1, <2>2, <3>1, CarveKeepsPool
    <3>3. returned' \in Nat /\ c47MemInBlocks' \in Int
      BY <1>1, <2>1, <2>2, RegionNumbers
    <3>4. QED
      BY <1>1, <2>1, <2>2, <3>2, <3>3
         DEF MemoryInv, TypeOK, FreeRegionsSortedApart, PoolOK
  <2>3. CASE UNCHANGED <<fr, al, c47MemInBlocks, bg, status>> /\ returned' = C47_NULL
    BY <1>1, <1>3, <2>1, <2>3
       DEF MemoryInv, TypeOK, FreeRegionsSortedApart, PoolOK
  <2>4. QED
    BY <1>4, <2>2, <2>3 DEF allocC47Blocks
<1>5. ASSUME NEW a \in al, freeC47Blocks(a)
      PROVE  MemoryInv'
  <2>1. PoolOK(fr, al, bg) /\ Border
    BY <1>2, <1>5 DEF freeC47Blocks
  <2>2. Release(fr, a.blockAddress, Blocks(a.claimed))
    BY <1>5 DEF freeC47Blocks
  <2>3. /\ fr' \in Seq(Region) /\ SortedApart(fr') /\ status' \in Status
        /\ status' = "running" => PoolOK(fr', al \ {a}, bg)
    BY <1>1, <2>1, <2>2, ReleaseKeepsPool
  <2>4. a.claimed \in Nat
    BY <1>1, AllocationNumbers
  <2>5. /\ al' = al \ {a} /\ bg' = bg /\ returned' = NoPointer
        /\ c47MemInBlocks' = c47MemInBlocks - a.claimed
    BY <1>5 DEF freeC47Blocks
  <2>6. TypeOK'
    BY <1>1, <1>3, <2>3, <2>4, <2>5 DEF TypeOK
  <2>7. QED
    BY <2>1, <2>3, <2>5, <2>6 DEF MemoryInv, FreeRegionsSortedApart
<1>6. ASSUME NEW a \in al, NEW c \in Claims, reallocC47Blocks(a, c)
      PROVE  MemoryInv'
  <2>1. PoolOK(fr, al, bg) /\ Border /\ c \in Nat
    BY <1>2, <1>3, <1>6 DEF reallocC47Blocks
  <2>2. ASSUME NEW k \in DOMAIN fr, IsBestFit(fr, Blocks(c), k),
               al' = (al \ {a}) \union {[blockAddress |-> fr[k].blockAddress,
                                         claimed |-> c]},
               returned' = fr[k].blockAddress,
               Release(Carve(fr, Blocks(c), k), a.blockAddress, Blocks(a.claimed)),
               c47MemInBlocks' = c47MemInBlocks + c - a.claimed, bg' = bg
        PROVE  MemoryInv'
    <3> DEFINE new == [blockAddress |-> fr[k].blockAddress, claimed |-> c]
               mid == al \union {new}
    <3>1. Blocks(c) <= fr[k].sizeInBlocks
      <4>1. fr[k].sizeInBlocks \in Nat /\ Blocks(c) \in Nat
        BY <1>1, <2>1, RegionNumbers, BlocksPositive
      <4>2. QED
        BY <2>2, <4>1 DEF IsBestFit
    <3>2. /\ PoolOK(Carve(fr, Blocks(c), k), mid, bg)
          /\ new \in Allocation /\ new \notin al
      BY <1>1, <2>1, <2>2, <3>1, CarveKeepsPool
    <3>3. mid \ {a} = al'
      BY <2>2, <3>2
    <3>4. /\ fr' \in Seq(Region) /\ SortedApart(fr') /\ status' \in Status
          /\ status' = "running" => PoolOK(fr', mid \ {a}, bg)
      <4>1. a \in mid
        OBVIOUS
      <4> HIDE DEF mid
      <4>2. QED
        BY <1>1, <2>2, <3>2, <4>1, ReleaseKeepsPool, Zenon
    <3>5. returned' \in Nat /\ c47MemInBlocks' \in Int
      BY <1>1, <2>1, <2>2, RegionNumbers, AllocationNumbers
    <3>6. TypeOK'
      BY <1>1, <2>2, <3>2, <3>4, <3>5 DEF TypeOK
    <3>7. QED
      BY <2>1, <2>2, <3>3, <3>4, <3>6 DEF MemoryInv, FreeRegionsSortedApart
  <2>3. CASE UNCHANGED <<fr, al, c47MemInBlocks, bg, status>> /\ returned' = C47_NULL
    BY <1>1, <1>3, <2>1, <2>3
       DEF MemoryInv, TypeOK, FreeRegionsSortedApart, PoolOK
  <2>4. QED
    BY <1>6, <2>2, <2>3 DEF reallocC47Blocks
<1>7. ASSUME NEW a \in al, NEW c \in Claims, reduceC47Blocks(a, c)
      PROVE  MemoryInv'
  <2>1. CASE freeC47Blocks(a)
    BY <1>5, <2>1
  <2>2. CASE c # 0 /\ ~ freeC47Blocks(a)
    <3> DEFINE g == freeListReduce(fr, a.blockAddress, a.claimed, c)
               new == [a EXCEPT !.claimed = c]
    <3>1. PoolOK(fr, al, bg) /\ Border /\ c \in Nat \ {0} /\ c < a.claimed
      BY <1>2, <1>3, <1>7, <2>2 DEF reduceC47Blocks
    <3>2. /\ al' = (al \ {a}) \union {new} /\ bg' = bg /\ returned' = NoPointer
          /\ c47MemInBlocks' = c47MemInBlocks + c - a.claimed
      BY <1>7, <2>2 DEF reduceC47Blocks
    <3>3. PoolOK(g, al', bg)
      BY <1>1, <3>1, <3>2, ReduceKeepsPool
    <3>4. g \in Seq(Region) /\ SortedApart(g) /\ SortedApart(fr) /\ al' \subseteq Allocation
      BY <3>1, <3>3 DEF PoolOK
    <3>5. \/ fr' = fr /\ status' \in Status \ {"running"}
          \/ fr' = g /\ status' = status
      BY <1>7, <2>2 DEF reduceC47Blocks, Status
    <3>6. a.claimed \in Nat
      BY <1>1, AllocationNumbers
    <3> HIDE DEF g, new
    <3>7. TypeOK'
      BY <1>1, <1>3, <3>1, <3>2, <3>4, <3>5, <3>6 DEF TypeOK
    <3>8. status' = "running" => fr' = g
      BY <3>5
    <3>9. SortedApart(fr')
      BY <3>4, <3>5
    <3>10. QED
      BY <3>1, <3>2, <3>3, <3>7, <3>8, <3>9 DEF MemoryInv, FreeRegionsSortedApart
  <2>3. QED
    BY <1>7, <2>1, <2>2 DEF reduceC47Blocks
<1>8. ASSUME TailRegionMeetsPrograms, NEW size \in ProgramSizes,
             resizeProgramMemory(size)
      PROVE  MemoryInv'
  <2> DEFINE last == Len(fr)
             p == fr[last].blockAddress
             old == fr[last].sizeInBlocks
             G(n) == [fr EXCEPT ![last] = [blockAddress |-> p, sizeInBlocks |-> n]]
  <2>1. PoolOK(fr, al, bg) /\ Border /\ fr # <<>> /\ End(fr[last]) = bg
    BY <1>2, <1>8 DEF resizeProgramMemory, TailRegionMeetsPrograms, LastRegion
  <2>2. p \in Nat /\ old \in Nat /\ bg = p + old
    <3>1. last \in 1 .. Len(fr)
      BY <1>1, <2>1, EmptySeq, LenProperties
    <3>2. QED
      BY <1>1, <2>1, <3>1, RegionNumbers
  <2>3. size \in Nat /\ NewProgramSize(size) \in Nat \ {0} /\ RamSize \in Nat
    BY MemoryAssumption DEF NewProgramSize
  <2>4. /\ al' = al /\ c47MemInBlocks' = c47MemInBlocks /\ returned' = NoPointer
    BY <1>8 DEF resizeProgramMemory
  <2>5. ASSUME NEW n \in Nat, fr' = G(n), bg' = p + n, bg' < RamSize,
               status' = status
        PROVE  MemoryInv'
    <3>1. PoolOK(G(n), al, p + n) /\ p + n \in Nat /\ Region0Addr <= p + n
      BY <1>1, <2>1, ResizeKeepsPool
    <3> HIDE DEF G
    <3>2. G(n) \in Seq(Region) /\ SortedApart(G(n))
      BY <3>1 DEF PoolOK
    <3>3. TypeOK'
      BY <1>1, <1>3, <2>4, <2>5, <3>1, <3>2 DEF TypeOK
    <3>4. QED
      BY <2>4, <2>5, <3>1, <3>2, <3>3 DEF MemoryInv, FreeRegionsSortedApart
  <2>6. CASE NewProgramSize(size) > ProgramSize
             /\ GrowProgramMemory(NewProgramSize(size) - ProgramSize)
    <3> DEFINE delta == NewProgramSize(size) - ProgramSize
    <3>1. delta \in Nat /\ delta > 0
      BY <1>1, <2>3, <2>6 DEF ProgramSize
    <3> HIDE DEF delta
    <3>2. CASE /\ delta <= old /\ fr' = G(old - delta) /\ bg' = bg - delta
               /\ status' = status
      <4>1. old - delta \in Nat /\ bg' = p + (old - delta) /\ bg' < RamSize
        <5> HIDE DEF p, old
        <5>1. /\ p \in Nat /\ old \in Nat /\ delta \in Nat /\ RamSize \in Nat
              /\ bg = p + old /\ bg < RamSize /\ delta <= old /\ delta > 0
              /\ bg' = bg - delta
          BY <2>1, <2>2, <2>3, <3>1, <3>2
        <5>2. QED
          BY ONLY <5>1
      <4>2. QED
        BY <2>5, <3>2, <4>1
    <3>3. CASE /\ status' \in Status \ {"running"} /\ fr' = fr
               /\ bg' \in {bg, C47_NULL}
      BY <1>1, <1>3, <2>1, <2>4, <3>3
         DEF MemoryInv, TypeOK, FreeRegionsSortedApart, PoolOK
    <3>4. QED
      BY <2>6, <3>2, <3>3
         DEF GrowProgramMemory, SetLastSize, LastRegion, delta, Status
  <2>7. CASE NewProgramSize(size) < ProgramSize
             /\ ShrinkProgramMemory(ProgramSize - NewProgramSize(size))
    <3> DEFINE delta == ProgramSize - NewProgramSize(size)
    <3>1. delta \in Nat /\ bg + delta < RamSize
      BY <1>1, <2>1, <2>3, <2>7 DEF ProgramSize
    <3>2. fr' = G(old + delta) /\ bg' = bg + delta /\ status' = status
      BY <2>7 DEF ShrinkProgramMemory, SetLastSize, LastRegion
    <3> HIDE DEF delta
    <3>3. old + delta \in Nat /\ bg' = p + (old + delta) /\ bg' < RamSize
      BY <1>1, <2>2, <3>1, <3>2
    <3>4. QED
      BY <2>5, <3>2, <3>3
  <2>8. QED
    BY <1>8, <2>1, <2>6, <2>7 DEF resizeProgramMemory
<1>9. CASE UNCHANGED vars
  BY <1>9 DEF vars, MemoryInv, TypeOK, FreeRegionsSortedApart
<1>10. QED
  BY <1>4, <1>5, <1>6, <1>7, <1>8, <1>9 DEF NextTail, BlockCalls

---------------------------------------------------------------------------
(***************************************************************************)
(* The partition of the pool holds at all times, for every pool, table and *)
(* set of claims.                                                          *)
(***************************************************************************)
THEOREM MemoryInvariant == SpecTail => []MemoryInv
BY InitPool, StepKeepsPool, PTL DEF SpecTail

(* Every variable keeps its type.                                          *)
THEOREM TypeCorrect == SpecTail => []TypeOK
BY MemoryInvariant, PTL DEF MemoryInv

(***************************************************************************)
(* The free list stays sorted and coalesced, so checkFreeRegionOverlap     *)
(* never has a double free to report.                                      *)
(***************************************************************************)
THEOREM FreeListStaysSorted == SpecTail => []FreeRegionsSortedApart
BY MemoryInvariant, PTL DEF MemoryInv

(***************************************************************************)
(* No block is ever in two places: in two callers' hands, in a caller's    *)
(* hands and in the free list, or in either and in the program area.       *)
(***************************************************************************)
THEOREM BlocksNeverShared == SpecTail => []NoSharedBlock
<1>1. MemoryInv => NoSharedBlock
  <2> SUFFICES ASSUME MemoryInv, status = "running" PROVE NoSharedBlock
    BY DEF NoSharedBlock
  <2>1. PoolOK(freeMemoryRegions, allocatedMemoryRegions, beginOfProgramMemory)
    BY DEF MemoryInv
  <2>2. ASSUME NEW a \in allocatedMemoryRegions, NEW i \in DOMAIN freeMemoryRegions
        PROVE  \/ AllocEnd(a) <= freeMemoryRegions[i].blockAddress
               \/ End(freeMemoryRegions[i]) <= a.blockAddress
    BY <2>1 DEF PoolOK, UseApart, Apart, AllocEnd
  <2>3. QED
    BY <2>1, <2>2 DEF NoSharedBlock, PoolOK, UseDisjoint, UseWithin, FreeWithin
<1>2. QED
  BY <1>1, MemoryInvariant, PTL

(* No block is ever lost: what nobody holds is in the free list.           *)
THEOREM BlocksNeverLost == SpecTail => []NoLostBlock
<1>1. MemoryInv => NoLostBlock
  BY DEF MemoryInv, NoLostBlock, PoolOK, Covered, InFree, InRegion
<1>2. QED
  BY <1>1, MemoryInvariant, PTL

---------------------------------------------------------------------------
(* The claims of zero blocks, which c47MemInBlocks does not count.         *)
ZeroClaims(al) == {a \in al : a.claimed = 0}

(* What a block in use adds to the two counts.                             *)
LEMMA ClaimCounted ==
  ASSUME NEW al, IsFiniteSet(al), NEW x, x \notin al, x.claimed \in Nat
  PROVE  /\ Cardinality(ZeroClaims(al)) \in Nat
         /\ IsFiniteSet(al \union {x})
         /\ Cardinality(ZeroClaims(al \union {x})) + x.claimed =
              Cardinality(ZeroClaims(al)) + Blocks(x.claimed)
<1> DEFINE z == ZeroClaims(al)
           y == ZeroClaims(al \union {x})
<1>1. IsFiniteSet(z) /\ Cardinality(z) \in Nat
  BY FS_Subset, FS_CardinalityType DEF ZeroClaims
<1>2. IsFiniteSet(al \union {x})
  BY FS_AddElement
<1>3. CASE x.claimed = 0
  <2>1. y = z \union {x} /\ x \notin z
    BY <1>3 DEF ZeroClaims
  <2> HIDE DEF y, z
  <2>2. Cardinality(y) = Cardinality(z) + 1
    BY <1>1, <2>1, FS_AddElement
  <2>3. QED
    BY <1>1, <1>2, <1>3, <2>2 DEF Blocks, y, z
<1>4. CASE x.claimed # 0
  <2>1. y = z
    BY <1>4 DEF ZeroClaims
  <2>2. QED
    BY <1>1, <1>2, <1>4, <2>1 DEF Blocks
<1>5. QED
  BY <1>3, <1>4

(* What giving a block back takes off the two counts.                      *)
LEMMA ReturnCounted ==
  ASSUME NEW al, IsFiniteSet(al), NEW x \in al, x.claimed \in Nat
  PROVE  /\ Cardinality(ZeroClaims(al)) \in Nat
         /\ Cardinality(ZeroClaims(al \ {x})) \in Nat
         /\ IsFiniteSet(al \ {x})
         /\ Cardinality(ZeroClaims(al)) + x.claimed =
              Cardinality(ZeroClaims(al \ {x})) + Blocks(x.claimed)
<1> DEFINE rest == al \ {x}
<1>1. IsFiniteSet(rest) /\ x \notin rest /\ rest \union {x} = al
  BY FS_RemoveElement
<1>2. Cardinality(ZeroClaims(al)) \in Nat
  BY FS_Subset, FS_CardinalityType DEF ZeroClaims
<1> HIDE DEF rest
<1>3. /\ Cardinality(ZeroClaims(rest)) \in Nat
      /\ Cardinality(ZeroClaims(rest \union {x})) + x.claimed =
           Cardinality(ZeroClaims(rest)) + Blocks(x.claimed)
  BY <1>1, ClaimCounted
<1>4. QED
  BY <1>1, <1>2, <1>3 DEF rest

(***************************************************************************)
(* The figures of a pool: mem blocks claimed, the blocks of the claims of  *)
(* zero, the free blocks and the program area make up the pool, and the    *)
(* free regions have room in the table.                                    *)
(***************************************************************************)
FiguresOK(fr, al, bg, mem) ==
  /\ IsFiniteSet(al)
  /\ Len(fr) <= MaxFreeRegions
  /\ mem + Cardinality(ZeroClaims(al)) + getFreeRamMemory(fr) + (RamSize - bg)
       = RamSize - Region0Addr

FiguresInv ==
  status = "running" =>
    FiguresOK(freeMemoryRegions, allocatedMemoryRegions, beginOfProgramMemory,
              c47MemInBlocks)

(* Taking a block keeps the figures.                                       *)
LEMMA CarveKeepsFigures ==
  ASSUME NEW fr, NEW al, NEW bg \in Nat, NEW mem \in Int, PoolOK(fr, al, bg),
         FiguresOK(fr, al, bg, mem),
         NEW c \in Nat, NEW k \in DOMAIN fr, Blocks(c) <= fr[k].sizeInBlocks
  PROVE  FiguresOK(Carve(fr, Blocks(c), k),
                   al \union {[blockAddress |-> fr[k].blockAddress, claimed |-> c]},
                   bg, mem + c)
<1> DEFINE new == [blockAddress |-> fr[k].blockAddress, claimed |-> c]
           g == Carve(fr, Blocks(c), k)
           al2 == al \union {new}
<1>1. PoolOK(g, al2, bg) /\ new \notin al /\ Len(g) <= Len(fr)
  BY CarveKeepsPool
<1>2. /\ fr \in Seq(Region) /\ DOMAIN fr = 1 .. Len(fr) /\ Len(fr) \in Nat
      /\ g \in Seq(Region) /\ Len(g) \in Nat
  BY <1>1, RegionEntries DEF PoolOK
<1>3. Blocks(c) \in Nat \ {0} /\ new.claimed = c
  BY BlocksPositive
<1>4. /\ getFreeRamMemory(g) = getFreeRamMemory(fr) - Blocks(c)
      /\ getFreeRamMemory(fr) \in Nat
  BY <1>2, <1>3, CarveTotal
<1>5. IsFiniteSet(al)
  BY DEF FiguresOK
<1> HIDE DEF g, new
<1>6. /\ Cardinality(ZeroClaims(al)) \in Nat /\ IsFiniteSet(al2)
      /\ Cardinality(ZeroClaims(al2)) + c = Cardinality(ZeroClaims(al)) + Blocks(c)
  BY <1>1, <1>3, <1>5, ClaimCounted
<1>7. Cardinality(ZeroClaims(al2)) \in Nat
  BY <1>6, FS_Subset, FS_CardinalityType DEF ZeroClaims
<1> HIDE DEF al2
<1>8. Len(g) <= MaxFreeRegions
  BY <1>1, <1>2, MemoryAssumption DEF FiguresOK
<1>9. (mem + c) + Cardinality(ZeroClaims(al2)) + getFreeRamMemory(g) + (RamSize - bg)
        = RamSize - Region0Addr
  <2>1. mem + Cardinality(ZeroClaims(al)) + getFreeRamMemory(fr) + (RamSize - bg)
          = RamSize - Region0Addr
    BY DEF FiguresOK
  <2>2. RamSize \in Nat /\ Region0Addr \in Nat
    BY MemoryAssumption
  <2> DEFINE u == Cardinality(ZeroClaims(al))
             v == Cardinality(ZeroClaims(al2))
             w == getFreeRamMemory(fr)
             x == getFreeRamMemory(g)
             n == Blocks(c)
  <2> HIDE DEF u, v, w, x, n
  <2>3. /\ u \in Nat /\ v \in Nat /\ w \in Nat /\ n \in Nat /\ x = w - n
        /\ v + c = u + n
        /\ mem + u + w + (RamSize - bg) = RamSize - Region0Addr
    BY <1>3, <1>4, <1>6, <1>7, <2>1 DEF u, v, w, x, n
  <2>4. (mem + c) + v + x + (RamSize - bg) = RamSize - Region0Addr
    BY <2>2, <2>3
  <2>5. QED
    BY <2>4 DEF v, x
<1>10. QED
  BY <1>6, <1>8, <1>9 DEF FiguresOK, g, new, al2

(* Giving a block back keeps the figures, unless the table is full.        *)
LEMMA ReleaseKeepsFigures ==
  ASSUME NEW fr, NEW al, NEW bg \in Nat, NEW mem \in Int, PoolOK(fr, al, bg),
         FiguresOK(fr, al, bg, mem), NEW a \in al,
         Release(fr, a.blockAddress, Blocks(a.claimed)), status' = "running"
  PROVE  FiguresOK(freeMemoryRegions', al \ {a}, bg, mem - a.claimed)
<1> DEFINE p == a.blockAddress
           n == Blocks(a.claimed)
           g == freeListFree(fr, p, n)
           al2 == al \ {a}
<1>1. /\ freeMemoryRegions' = g
      /\ ~ (NeedsEntry(fr, p, n) /\ Len(fr) = MaxFreeRegions)
  BY DEF Release
<1>2. /\ PoolOK(g, al2, bg) /\ Len(g) <= Len(fr) + 1
      /\ ~ NeedsEntry(fr, p, n) => Len(g) <= Len(fr)
  BY FreeKeepsPool
<1>3. /\ fr \in Seq(Region) /\ Len(fr) \in Nat /\ al \in SUBSET Allocation
      /\ g \in Seq(Region) /\ Len(g) \in Nat
  BY <1>2, RegionEntries DEF PoolOK
<1>4. /\ p \in Nat /\ a.claimed \in Nat /\ n \in Nat \ {0}
  BY <1>3, AllocationNumbers
<1> HIDE DEF p, n, g
<1>5. getFreeRamMemory(g) = getFreeRamMemory(fr) + n /\ getFreeRamMemory(fr) \in Nat
  BY <1>3, <1>4, FreeTotal DEF g
<1>6. IsFiniteSet(al) /\ Len(fr) <= MaxFreeRegions /\ MaxFreeRegions \in Nat
  BY MemoryAssumption DEF FiguresOK
<1>7. /\ Cardinality(ZeroClaims(al)) \in Nat /\ Cardinality(ZeroClaims(al2)) \in Nat
      /\ IsFiniteSet(al2)
      /\ Cardinality(ZeroClaims(al)) + a.claimed = Cardinality(ZeroClaims(al2)) + n
  BY <1>4, <1>6, ReturnCounted DEF n
<1> HIDE DEF al2
<1>8. Len(g) <= MaxFreeRegions
  BY <1>1, <1>2, <1>3, <1>6
<1>9. (mem - a.claimed) + Cardinality(ZeroClaims(al2)) + getFreeRamMemory(g)
        + (RamSize - bg) = RamSize - Region0Addr
  <2>1. mem + Cardinality(ZeroClaims(al)) + getFreeRamMemory(fr) + (RamSize - bg)
          = RamSize - Region0Addr
    BY DEF FiguresOK
  <2>2. RamSize \in Nat /\ Region0Addr \in Nat
    BY MemoryAssumption
  <2> DEFINE u == Cardinality(ZeroClaims(al))
             v == Cardinality(ZeroClaims(al2))
             w == getFreeRamMemory(fr)
             x == getFreeRamMemory(g)
             c == a.claimed
  <2> HIDE DEF u, v, w, x, c
  <2>3. /\ u \in Nat /\ v \in Nat /\ w \in Nat /\ n \in Nat /\ c \in Nat
        /\ x = w + n /\ u + c = v + n
        /\ mem + u + w + (RamSize - bg) = RamSize - Region0Addr
    BY <1>4, <1>5, <1>7, <2>1 DEF u, v, w, x, c
  <2>4. (mem - c) + v + x + (RamSize - bg) = RamSize - Region0Addr
    BY <2>2, <2>3
  <2>5. QED
    BY <2>4 DEF v, x, c
<1>10. QED
  BY <1>1, <1>7, <1>8, <1>9 DEF FiguresOK, al2

(* Giving the tail of a block back keeps the figures.                      *)
LEMMA ReduceKeepsFigures ==
  ASSUME NEW fr, NEW al, NEW bg \in Nat, NEW mem \in Int, PoolOK(fr, al, bg),
         FiguresOK(fr, al, bg, mem), NEW a \in al,
         NEW c \in Nat \ {0}, c < a.claimed,
         ~ (ReduceNeedsEntry(fr, a.blockAddress, a.claimed)
            /\ Len(fr) = MaxFreeRegions)
  PROVE  FiguresOK(freeListReduce(fr, a.blockAddress, a.claimed, c),
                   (al \ {a}) \union {[a EXCEPT !.claimed = c]},
                   bg, mem + c - a.claimed)
<1> DEFINE p == a.blockAddress
           old == a.claimed
           new == [a EXCEPT !.claimed = c]
           g == freeListReduce(fr, p, old, c)
           rest == al \ {a}
           al2 == rest \union {new}
<1>1. /\ PoolOK(g, al2, bg) /\ Len(g) <= Len(fr) + 1
      /\ ~ ReduceNeedsEntry(fr, p, old) => Len(g) <= Len(fr)
  BY ReduceKeepsPool
<1>2. /\ fr \in Seq(Region) /\ Len(fr) \in Nat /\ al \in SUBSET Allocation
      /\ g \in Seq(Region) /\ Len(g) \in Nat /\ a \in Allocation
  BY <1>1, RegionEntries DEF PoolOK
<1>3. p \in Nat /\ old \in Nat /\ Blocks(old) = old /\ Blocks(c) = c
  BY <1>2, AllocationNumbers DEF Blocks
<1>4. new.claimed = c /\ new.blockAddress = p
  BY <1>2 DEF Allocation
<1>5. new \notin rest
  <2> SUFFICES ASSUME new \in rest PROVE FALSE
    OBVIOUS
  <2>1. AllocEnd(a) <= new.blockAddress \/ AllocEnd(new) <= a.blockAddress
    BY DEF PoolOK, UseDisjoint
  <2>2. AllocEnd(a) = p + old /\ AllocEnd(new) = p + c
    BY <1>3, <1>4 DEF AllocEnd
  <2> HIDE DEF new
  <2>3. p + old <= p \/ p + c <= p
    BY <1>4, <2>1, <2>2
  <2>4. QED
    BY <1>3, <2>3
<1> HIDE DEF g, new, p, old
<1>6. /\ getFreeRamMemory(g) = getFreeRamMemory(fr) + (old - c)
      /\ getFreeRamMemory(fr) \in Nat
  BY <1>2, <1>3, ReduceTotal DEF g, old
<1>7. IsFiniteSet(al) /\ Len(fr) <= MaxFreeRegions /\ MaxFreeRegions \in Nat
  BY MemoryAssumption DEF FiguresOK
<1>8. /\ Cardinality(ZeroClaims(al)) \in Nat /\ Cardinality(ZeroClaims(rest)) \in Nat
      /\ IsFiniteSet(rest)
      /\ Cardinality(ZeroClaims(al)) + old = Cardinality(ZeroClaims(rest)) + old
  BY <1>3, <1>7, ReturnCounted DEF old
<1> HIDE DEF rest
<1>9. /\ IsFiniteSet(al2)
      /\ Cardinality(ZeroClaims(al2)) + c = Cardinality(ZeroClaims(rest)) + c
  BY <1>3, <1>4, <1>5, <1>8, ClaimCounted
<1>10. Cardinality(ZeroClaims(al2)) \in Nat
  BY <1>9, FS_Subset, FS_CardinalityType DEF ZeroClaims
<1> HIDE DEF al2
<1>11. Len(g) <= MaxFreeRegions
  BY <1>1, <1>2, <1>7 DEF p, old
<1>12. (mem + c - old) + Cardinality(ZeroClaims(al2)) + getFreeRamMemory(g)
         + (RamSize - bg) = RamSize - Region0Addr
  <2>1. mem + Cardinality(ZeroClaims(al)) + getFreeRamMemory(fr) + (RamSize - bg)
          = RamSize - Region0Addr
    BY DEF FiguresOK
  <2>2. RamSize \in Nat /\ Region0Addr \in Nat
    BY MemoryAssumption
  <2> DEFINE u == Cardinality(ZeroClaims(al))
             v == Cardinality(ZeroClaims(al2))
             y == Cardinality(ZeroClaims(rest))
             w == getFreeRamMemory(fr)
             x == getFreeRamMemory(g)
  <2> HIDE DEF u, v, w, x, y
  <2>3. /\ u \in Nat /\ v \in Nat /\ w \in Nat /\ y \in Nat
        /\ x = w + (old - c) /\ u + old = y + old /\ v + c = y + c
        /\ mem + u + w + (RamSize - bg) = RamSize - Region0Addr
    BY <1>6, <1>8, <1>9, <1>10, <2>1 DEF u, v, w, x, y
  <2>4. (mem + c - old) + v + x + (RamSize - bg) = RamSize - Region0Addr
    BY <1>3, <2>2, <2>3
  <2>5. QED
    BY <2>4 DEF v, x
<1>13. QED
  BY <1>9, <1>11, <1>12 DEF FiguresOK, g, new, al2, rest, p, old

(* Moving the border of the program area keeps the figures.                *)
LEMMA ResizeKeepsFigures ==
  ASSUME NEW fr \in Seq(Region), NEW al, NEW mem \in Int, fr # <<>>,
         FiguresOK(fr, al, End(fr[Len(fr)]), mem), NEW size \in Nat
  PROVE  LET g == Replaced(fr, Len(fr), fr[Len(fr)].blockAddress, size)
             start == fr[Len(fr)].blockAddress + size
         IN  FiguresOK(g, al, start, mem)
<1> DEFINE last == Len(fr)
           p == fr[last].blockAddress
           old == fr[last].sizeInBlocks
           g == Replaced(fr, last, p, size)
<1>1. last \in 1 .. Len(fr)
  BY RegionEntries, EmptySeq
<1>2. p \in Nat /\ old \in Nat /\ End(fr[last]) = p + old
  BY <1>1, RegionNumbers
<1> HIDE DEF last, p, old
<1>3. /\ Len(g) = Len(fr) /\ getFreeRamMemory(fr) \in Nat
      /\ getFreeRamMemory(g) = getFreeRamMemory(fr) - old + size
  BY <1>1, <1>2, ReplaceTotal DEF old
<1> HIDE DEF g
<1>4. /\ IsFiniteSet(al) /\ Len(fr) <= MaxFreeRegions
      /\ mem + Cardinality(ZeroClaims(al)) + getFreeRamMemory(fr)
           + (RamSize - (p + old)) = RamSize - Region0Addr
  BY <1>2 DEF FiguresOK, last
<1>5. Cardinality(ZeroClaims(al)) \in Nat
  BY <1>4, FS_Subset, FS_CardinalityType DEF ZeroClaims
<1>6. mem + Cardinality(ZeroClaims(al)) + getFreeRamMemory(g)
        + (RamSize - (p + size)) = RamSize - Region0Addr
  <2>1. RamSize \in Nat /\ Region0Addr \in Nat
    BY MemoryAssumption
  <2> DEFINE u == Cardinality(ZeroClaims(al))
             w == getFreeRamMemory(fr)
  <2> HIDE DEF u, w
  <2>2. /\ u \in Nat /\ w \in Nat
        /\ mem + u + w + (RamSize - (p + old)) = RamSize - Region0Addr
    BY <1>3, <1>4, <1>5 DEF u, w
  <2>3. mem + u + (w - old + size) + (RamSize - (p + size)) = RamSize - Region0Addr
    BY <1>2, <2>1, <2>2
  <2>4. QED
    BY <1>3, <2>3 DEF u, w
<1>7. QED
  BY <1>3, <1>4, <1>6 DEF FiguresOK, g, p, last

---------------------------------------------------------------------------
(* The figures are right at the start.                                     *)
LEMMA InitFigures == Init => FiguresInv
<1> SUFFICES ASSUME Init PROVE FiguresInv
  OBVIOUS
<1> DEFINE size == RamSize - Region0Addr - 1
           r == [blockAddress |-> Region0Addr, sizeInBlocks |-> size]
           fr == <<r>>
<1>1. /\ RamSize \in Nat /\ Region0Addr \in Nat /\ size \in Nat
      /\ MaxFreeRegions \in Nat \ {0}
  BY MemoryAssumption
<1>2. r \in Region /\ r.sizeInBlocks = size
  BY <1>1 DEF Region
<1>3. fr \in Seq(Region) /\ Len(fr) = 1 /\ fr[1].sizeInBlocks = size
  <2> HIDE DEF r
  <2>1. QED
    BY <1>2
<1>4. /\ freeMemoryRegions = fr /\ allocatedMemoryRegions = {}
      /\ beginOfProgramMemory = RamSize - 1 /\ c47MemInBlocks = 0
  BY DEF Init
<1> HIDE DEF fr
<1>5. getFreeRamMemory(fr) = size
  <2>1. freeMem(fr)[0] = 0 /\ freeMem(fr)[1] = freeMem(fr)[1 - 1] + fr[1].sizeInBlocks
    BY <1>3, FreeMemValues
  <2> HIDE DEF size
  <2>2. freeMem(fr)[1] = size
    BY <1>1, <1>3, <2>1
  <2>3. QED
    BY <1>3, <2>2 DEF getFreeRamMemory
<1>6. IsFiniteSet({}) /\ Cardinality(ZeroClaims({})) = 0
  BY FS_EmptySet DEF ZeroClaims
<1>7. FiguresOK(fr, {}, RamSize - 1, 0)
  BY <1>1, <1>3, <1>5, <1>6 DEF FiguresOK
<1>8. QED
  BY <1>4, <1>7 DEF FiguresInv

(* Every call keeps the figures; one step per call.                        *)
LEMMA StepKeepsFigures ==
  MemoryInv /\ FiguresInv /\ [NextTail]_vars => FiguresInv'
<1> SUFFICES ASSUME MemoryInv, FiguresInv, [NextTail]_vars, status' = "running"
             PROVE  FiguresOK(freeMemoryRegions', allocatedMemoryRegions',
                              beginOfProgramMemory', c47MemInBlocks')
  BY DEF FiguresInv
<1> DEFINE fr == freeMemoryRegions
           al == allocatedMemoryRegions
           bg == beginOfProgramMemory
           mem == c47MemInBlocks
           Good == FiguresOK(fr', al', bg', mem')
<1>1. fr \in Seq(Region) /\ al \in SUBSET Allocation /\ bg \in Nat /\ mem \in Int
  BY DEF MemoryInv, TypeOK
<1>2. status = "running" =>
        PoolOK(fr, al, bg) /\ bg < RamSize /\ FiguresOK(fr, al, bg, mem)
  BY DEF MemoryInv, FiguresInv
<1>3. Claims \subseteq Nat
  BY MemoryAssumption
<1>4. ASSUME NEW c \in Claims, NEW k \in DOMAIN fr, IsBestFit(fr, Blocks(c), k)
      PROVE  c \in Nat /\ Blocks(c) <= fr[k].sizeInBlocks
  <2>1. fr[k].sizeInBlocks \in Nat /\ Blocks(c) \in Nat /\ c \in Nat
    BY <1>1, <1>3, RegionNumbers, BlocksPositive
  <2>2. QED
    BY <1>4, <2>1 DEF IsBestFit
<1>5. ASSUME NEW c \in Claims, allocC47Blocks(c)
      PROVE  Good
  <2>1. PoolOK(fr, al, bg) /\ FiguresOK(fr, al, bg, mem) /\ bg' = bg
    BY <1>2, <1>5 DEF allocC47Blocks
  <2>2. ASSUME NEW k \in DOMAIN fr, IsBestFit(fr, Blocks(c), k),
               fr' = Carve(fr, Blocks(c), k),
               al' = al \union {[blockAddress |-> fr[k].blockAddress,
                                 claimed |-> c]},
               mem' = mem + c
        PROVE  Good
    BY <1>1, <1>4, <2>1, <2>2, CarveKeepsFigures
  <2>3. CASE UNCHANGED <<fr, al, mem>>
    BY <2>1, <2>3
  <2>4. QED
    BY <1>5, <2>2, <2>3 DEF allocC47Blocks
<1>6. ASSUME NEW a \in al, freeC47Blocks(a)
      PROVE  Good
  <2>1. PoolOK(fr, al, bg) /\ FiguresOK(fr, al, bg, mem)
    BY <1>2, <1>6 DEF freeC47Blocks
  <2>2. /\ Release(fr, a.blockAddress, Blocks(a.claimed))
        /\ al' = al \ {a} /\ bg' = bg /\ mem' = mem - a.claimed
    BY <1>6 DEF freeC47Blocks
  <2>3. QED
    BY <1>1, <2>1, <2>2, ReleaseKeepsFigures
<1>7. ASSUME NEW a \in al, NEW c \in Claims, reallocC47Blocks(a, c)
      PROVE  Good
  <2>1. PoolOK(fr, al, bg) /\ FiguresOK(fr, al, bg, mem) /\ bg' = bg
    BY <1>2, <1>7 DEF reallocC47Blocks
  <2>2. ASSUME NEW k \in DOMAIN fr, IsBestFit(fr, Blocks(c), k),
               al' = (al \ {a}) \union {[blockAddress |-> fr[k].blockAddress,
                                         claimed |-> c]},
               Release(Carve(fr, Blocks(c), k), a.blockAddress, Blocks(a.claimed)),
               mem' = mem + c - a.claimed
        PROVE  Good
    <3> DEFINE new == [blockAddress |-> fr[k].blockAddress, claimed |-> c]
               mid == al \union {new}
               g == Carve(fr, Blocks(c), k)
               m == mem + c
    <3>1. c \in Nat /\ Blocks(c) <= fr[k].sizeInBlocks
      BY <1>4, <2>2
    <3>2. PoolOK(g, mid, bg) /\ new \notin al
      BY <1>1, <2>1, <3>1, CarveKeepsPool
    <3>3. FiguresOK(g, mid, bg, m)
      BY <1>1, <2>1, <3>1, CarveKeepsFigures
    <3>4. a \in mid /\ mid \ {a} = al' /\ m \in Int /\ mem' = m - a.claimed
      <4>1. mid \ {a} = al'
        BY <2>2, <3>2
      <4>2. a \in mid
        OBVIOUS
      <4>3. m \in Int
        BY <1>1, <3>1
      <4>4. mem' = m - a.claimed
        BY <1>1, <2>2, <3>1, AllocationNumbers
      <4>5. QED
        BY <4>1, <4>2, <4>3, <4>4
    <3> HIDE DEF mid, g, m
    <3>5. Release(g, a.blockAddress, Blocks(a.claimed))
      BY <2>2 DEF g
    <3>6. FiguresOK(fr', mid \ {a}, bg, m - a.claimed)
      BY <1>1, <3>2, <3>3, <3>4, <3>5, ReleaseKeepsFigures
    <3>7. QED
      BY <2>1, <3>4, <3>6
  <2>3. CASE UNCHANGED <<fr, al, mem>>
    BY <2>1, <2>3
  <2>4. QED
    BY <1>7, <2>2, <2>3 DEF reallocC47Blocks
<1>8. ASSUME NEW a \in al, NEW c \in Claims, reduceC47Blocks(a, c)
      PROVE  Good
  <2>1. CASE freeC47Blocks(a)
    BY <1>6, <2>1
  <2>2. CASE c # 0 /\ ~ freeC47Blocks(a)
    <3>1. /\ PoolOK(fr, al, bg) /\ FiguresOK(fr, al, bg, mem)
          /\ c \in Nat \ {0} /\ c < a.claimed
      BY <1>2, <1>3, <1>8, <2>2 DEF reduceC47Blocks
    <3>2. /\ al' = (al \ {a}) \union {[a EXCEPT !.claimed = c]} /\ bg' = bg
          /\ mem' = mem + c - a.claimed
      BY <1>8, <2>2 DEF reduceC47Blocks
    <3>3. /\ ~ (ReduceNeedsEntry(fr, a.blockAddress, a.claimed)
                /\ Len(fr) = MaxFreeRegions)
          /\ fr' = freeListReduce(fr, a.blockAddress, a.claimed, c)
      BY <1>8, <2>2 DEF reduceC47Blocks
    <3>4. QED
      BY <1>1, <3>1, <3>2, <3>3, ReduceKeepsFigures
  <2>3. QED
    BY <1>8, <2>1, <2>2 DEF reduceC47Blocks
<1>9. ASSUME TailRegionMeetsPrograms, NEW size \in ProgramSizes,
             resizeProgramMemory(size)
      PROVE  Good
  <2> DEFINE last == Len(fr)
             p == fr[last].blockAddress
             old == fr[last].sizeInBlocks
             n == bg' - p
  <2>1. /\ FiguresOK(fr, al, bg, mem) /\ bg < RamSize
        /\ fr # <<>> /\ End(fr[last]) = bg
        /\ al' = al /\ mem' = mem
    BY <1>2, <1>9 DEF resizeProgramMemory, TailRegionMeetsPrograms, LastRegion
  <2>2. p \in Nat /\ old \in Nat /\ bg = p + old
    <3>1. last \in 1 .. Len(fr)
      BY <1>1, <2>1, EmptySeq, LenProperties
    <3>2. QED
      BY <1>1, <2>1, <3>1, RegionNumbers
  <2>3. size \in Nat /\ NewProgramSize(size) \in Nat \ {0} /\ RamSize \in Nat
    BY MemoryAssumption DEF NewProgramSize
  <2>4. ASSUME NEW m \in Nat, fr' = Replaced(fr, last, p, m), bg' = p + m
        PROVE  Good
    BY <1>1, <2>1, <2>4, ResizeKeepsFigures
  <2>5. CASE NewProgramSize(size) > ProgramSize
             /\ GrowProgramMemory(NewProgramSize(size) - ProgramSize)
    <3> DEFINE delta == NewProgramSize(size) - ProgramSize
               m == old - delta
    <3>1. delta \in Int
      BY <1>1, <2>3 DEF ProgramSize
    <3>2. /\ delta <= old /\ bg' = bg - delta
          /\ fr' = [fr EXCEPT ![last] = [blockAddress |-> p, sizeInBlocks |-> m]]
      BY <2>5 DEF GrowProgramMemory, SetLastSize, LastRegion
    <3>3. fr' = Replaced(fr, last, p, m)
      BY <3>2 DEF Replaced
    <3> HIDE DEF delta, p, old
    <3>4. m \in Nat /\ bg' = p + m
      BY <2>2, <3>1, <3>2
    <3>5. QED
      BY <2>4, <3>3, <3>4 DEF p
  <2>6. CASE NewProgramSize(size) < ProgramSize
             /\ ShrinkProgramMemory(ProgramSize - NewProgramSize(size))
    <3> DEFINE delta == ProgramSize - NewProgramSize(size)
               m == old + delta
    <3>1. delta \in Nat
      BY <1>1, <2>3, <2>6 DEF ProgramSize
    <3>2. /\ bg' = bg + delta
          /\ fr' = [fr EXCEPT ![last] = [blockAddress |-> p, sizeInBlocks |-> m]]
      BY <2>6 DEF ShrinkProgramMemory, SetLastSize, LastRegion
    <3>3. fr' = Replaced(fr, last, p, m)
      BY <3>2 DEF Replaced
    <3> HIDE DEF delta, p, old
    <3>4. m \in Nat /\ bg' = p + m
      BY <2>2, <3>1, <3>2
    <3>5. QED
      BY <2>4, <3>3, <3>4 DEF p
  <2>7. QED
    BY <1>9, <2>1, <2>5, <2>6 DEF resizeProgramMemory
<1>10. CASE UNCHANGED vars
  BY <1>2, <1>10 DEF vars
<1>11. QED
  BY <1>5, <1>6, <1>7, <1>8, <1>9, <1>10 DEF NextTail, BlockCalls

(* Partition and figures together.                                         *)
LEMMA PoolInvariant == SpecTail => [](MemoryInv /\ FiguresInv)
<1>1. Init => MemoryInv /\ FiguresInv
  BY InitPool, InitFigures
<1>2. MemoryInv /\ FiguresInv /\ [NextTail]_vars => (MemoryInv /\ FiguresInv)'
  BY StepKeepsPool, StepKeepsFigures
<1>3. QED
  BY <1>1, <1>2, PTL DEF SpecTail

(***************************************************************************)
(* What the status menu and MEM? report is always the truth:               *)
(* c47MemInBlocks and getFreeRamMemory, which are kept apart from each     *)
(* other, together with the program area make up the whole pool.           *)
(***************************************************************************)
THEOREM FiguresAlwaysAddUp == SpecTail => []FiguresAddUp
<1>1. MemoryInv /\ FiguresInv => FiguresAddUp
  BY DEF FiguresInv, FiguresOK, FiguresAddUp, ZeroClaims, ProgramSize
<1>2. QED
  BY <1>1, PoolInvariant, PTL

(***************************************************************************)
(* Between two free regions lies a block in use, and no block in use lies  *)
(* behind two of them.                                                     *)
(***************************************************************************)
LEMMA RegionsSeparated ==
  ASSUME NEW fr, NEW al, NEW bg \in Nat, PoolOK(fr, al, bg), IsFiniteSet(al)
  PROVE  Len(fr) <= Cardinality(al) + 1
<1>1. /\ fr \in Seq(Region) /\ SortedApart(fr) /\ al \in SUBSET Allocation
      /\ Cardinality(al) \in Nat
  BY FS_CardinalityType DEF PoolOK
<1>2. /\ Len(fr) \in Nat /\ DOMAIN fr = 1 .. Len(fr)
      /\ \A i \in 1 .. Len(fr) :
           /\ fr[i].blockAddress \in Nat
           /\ End(fr[i]) \in Nat /\ fr[i].blockAddress <= End(fr[i])
  BY <1>1, RegionNumbers
<1> DEFINE n == Len(fr) - 1
           Behind(i) == CHOOSE a \in al : InAllocation(End(fr[i]), a)
           f == [i \in 1 .. n |-> Behind(i)]
<1>3. ASSUME NEW i \in 1 .. n
      PROVE  \E a \in al : InAllocation(End(fr[i]), a)
  <2>1. i \in 1 .. Len(fr) /\ i + 1 \in 1 .. Len(fr)
    BY <1>2
  <2>2. End(fr[i]) < fr[i + 1].blockAddress
    BY <1>1, <1>2, <2>1 DEF SortedApart
  <2>3. Region0Addr <= fr[i].blockAddress /\ End(fr[i + 1]) <= bg
    BY <1>2, <2>1 DEF PoolOK, FreeWithin
  <2>4. End(fr[i]) \in Region0Addr .. bg - 1
    <3>1. /\ fr[i].blockAddress \in Nat /\ End(fr[i]) \in Nat
          /\ fr[i].blockAddress <= End(fr[i]) /\ Region0Addr \in Nat
          /\ fr[i + 1].blockAddress \in Nat /\ End(fr[i + 1]) \in Nat
          /\ fr[i + 1].blockAddress <= End(fr[i + 1])
      BY <1>2, <2>1, MemoryAssumption
    <3>2. QED
      BY <2>2, <2>3, <3>1
  <2>5. ~ InFree(End(fr[i]), fr)
    <3> SUFFICES ASSUME NEW j \in 1 .. Len(fr),
                        fr[j].blockAddress <= End(fr[i]), End(fr[i]) < End(fr[j])
                 PROVE  FALSE
      BY <1>2 DEF InFree
    <3>1. CASE i < j
      <4>1. End(fr[i]) < fr[j].blockAddress
        BY <1>1, <1>2, <2>1, <3>1 DEF SortedApart
      <4>2. QED
        BY <1>2, <2>1, <4>1
    <3>2. CASE j < i
      <4>1. End(fr[j]) < fr[i].blockAddress
        BY <1>1, <1>2, <2>1, <3>2 DEF SortedApart
      <4>2. QED
        BY <1>2, <2>1, <4>1
    <3>3. CASE i = j
      BY <1>2, <2>1, <3>3
    <3>4. QED
      BY <1>2, <2>1, <3>1, <3>2, <3>3
  <2>6. QED
    BY <2>4, <2>5 DEF PoolOK, Covered
<1>4. \A i \in 1 .. n : Behind(i) \in al /\ InAllocation(End(fr[i]), Behind(i))
  BY <1>3
<1> HIDE DEF Behind
<1>5. f \in [1 .. n -> al]
  BY <1>4
<1>6. ASSUME NEW i \in 1 .. n, NEW j \in 1 .. n, i < j, f[i] = f[j]
      PROVE  FALSE
  <2> DEFINE a == f[i]
             lo == a.blockAddress
             hi == AllocEnd(a)
  <2>1. a \in al /\ InAllocation(End(fr[i]), a) /\ InAllocation(End(fr[j]), a)
    BY <1>4, <1>6
  <2>2. i \in 1 .. Len(fr) /\ j \in 1 .. Len(fr)
    BY <1>2
  <2>3. /\ lo \in Nat /\ Blocks(a.claimed) \in Nat
        /\ hi = lo + Blocks(a.claimed)
    BY <1>1, <2>1, AllocationNumbers
  <2>4. lo <= End(fr[i]) /\ End(fr[j]) < hi
    BY <2>1 DEF InAllocation
  <2>5. hi <= fr[j].blockAddress \/ End(fr[j]) <= lo
    BY <1>2, <2>1, <2>2, <2>3 DEF PoolOK, UseApart, Apart
  <2>6. End(fr[i]) < fr[j].blockAddress
    BY <1>1, <1>2, <1>6, <2>2 DEF SortedApart
  <2> HIDE DEF a, lo, hi
  <2>7. /\ hi \in Nat /\ lo \in Nat
        /\ fr[j].blockAddress \in Nat /\ End(fr[j]) \in Nat /\ End(fr[i]) \in Nat
        /\ fr[j].blockAddress <= End(fr[j])
    BY <1>2, <2>2, <2>3
  <2>8. QED
    BY <2>4, <2>5, <2>6, <2>7
<1>7. f \in Injection(1 .. n, al)
  <2>1. \A i, j \in 1 .. n : f[i] = f[j] => i = j
    <3> SUFFICES ASSUME NEW i \in 1 .. n, NEW j \in 1 .. n, f[i] = f[j], i # j
                 PROVE  FALSE
      OBVIOUS
    <3>1. i < j \/ j < i
      BY <1>2
    <3> HIDE DEF f
    <3>2. QED
      BY <1>6, <3>1
  <2> HIDE DEF f
  <2>2. QED
    BY <1>5, <2>1 DEF Injection, IsInjective
<1>8. Cardinality(1 .. n) <= Cardinality(al)
  <2> HIDE DEF f, n
  <2>1. QED
    BY <1>7, FS_Injection
<1>9. n \in Int /\ Cardinality(1 .. n) = IF 1 > n THEN 0 ELSE n - 1 + 1
  <2>1. n \in Int
    BY <1>2
  <2> HIDE DEF n
  <2>2. QED
    BY <2>1, FS_Interval
<1>10. QED
  BY <1>1, <1>2, <1>8, <1>9

(***************************************************************************)
(* The table of free regions never overflows while the calculator runs,    *)
(* and fragmentation is bounded by the number of blocks in use: with at    *)
(* most MAX_FREE_REGIONS - 1 blocks in use, no release can find it full.   *)
(***************************************************************************)
THEOREM TableStaysBounded == SpecTail => []TableBounded
<1>1. MemoryInv /\ FiguresInv => TableBounded
  BY RegionsSeparated DEF MemoryInv, TypeOK, FiguresInv, FiguresOK, TableBounded
<1>2. QED
  BY <1>1, PoolInvariant, PTL

---------------------------------------------------------------------------
(***************************************************************************)
(* A run of n unused blocks lies in one free region: where a region ends,  *)
(* the next block is not free, because the list is coalesced.  So when no  *)
(* region is large enough, there is no such run.                           *)
(***************************************************************************)
LEMMA NoRoomUnnoticed ==
  ASSUME NEW fr, NEW al, NEW bg \in Nat, PoolOK(fr, al, bg),
         NEW n \in Nat \ {0}, OutOfMemory(fr, n), NEW p \in Nat,
         Region0Addr <= p, p + n <= bg,
         \A a \in al : p + n <= a.blockAddress \/ AllocEnd(a) <= p
  PROVE  FALSE
<1>1. fr \in Seq(Region) /\ SortedApart(fr) /\ al \in SUBSET Allocation
  BY DEF PoolOK
<1>2. /\ Len(fr) \in Nat /\ DOMAIN fr = 1 .. Len(fr)
      /\ \A i \in 1 .. Len(fr) :
           /\ fr[i].blockAddress \in Nat /\ fr[i].sizeInBlocks \in Nat
           /\ End(fr[i]) \in Nat /\ fr[i].blockAddress <= End(fr[i])
           /\ End(fr[i]) = fr[i].blockAddress + fr[i].sizeInBlocks
  BY <1>1, RegionNumbers
<1>3. ASSUME NEW b \in Nat, p <= b, b < p + n
      PROVE  \E i \in 1 .. Len(fr) : fr[i].blockAddress <= b /\ b < End(fr[i])
  <2>1. b \in Region0Addr .. bg - 1
    BY <1>3, MemoryAssumption
  <2>2. ~ \E a \in al : InAllocation(b, a)
    <3> SUFFICES ASSUME NEW a \in al, a.blockAddress <= b, b < AllocEnd(a)
                 PROVE  FALSE
      BY DEF InAllocation
    <3>1. a.blockAddress \in Nat /\ AllocEnd(a) \in Nat
      BY <1>1, AllocationNumbers
    <3>2. QED
      BY <1>3, <3>1
  <2>3. QED
    BY <1>2, <2>1, <2>2 DEF PoolOK, Covered, InFree
<1>4. PICK i \in 1 .. Len(fr) : fr[i].blockAddress <= p /\ p < End(fr[i])
  BY <1>3
<1>5. fr[i].sizeInBlocks < n
  BY <1>2 DEF OutOfMemory
<1> DEFINE e == End(fr[i])
<1>6. e \in Nat /\ p <= e /\ e < p + n
  BY <1>2, <1>4, <1>5
<1>7. PICK j \in 1 .. Len(fr) : fr[j].blockAddress <= e /\ e < End(fr[j])
  <2> HIDE DEF e
  <2>1. QED
    BY <1>3, <1>6
<1>8. CASE i < j
  <2>1. e < fr[j].blockAddress
    BY <1>1, <1>2, <1>8 DEF SortedApart
  <2>2. QED
    BY <1>2, <1>6, <1>7, <2>1
<1>9. CASE j < i
  <2>1. End(fr[j]) < fr[i].blockAddress
    BY <1>1, <1>2, <1>9 DEF SortedApart
  <2>2. QED
    BY <1>2, <1>6, <1>7, <2>1
<1>10. CASE i = j
  BY <1>2, <1>6, <1>7, <1>10
<1>11. QED
  BY <1>8, <1>9, <1>10

(* What the free list offers is unused in the abstract pool.               *)
LEMMA FreeRegionUnused ==
  ASSUME NEW k \in DOMAIN freeMemoryRegions, NEW c \in Nat,
         PoolOK(freeMemoryRegions, allocatedMemoryRegions, beginOfProgramMemory),
         beginOfProgramMemory \in Nat, beginOfProgramMemory < RamSize,
         Blocks(c) <= freeMemoryRegions[k].sizeInBlocks
  PROVE  /\ freeMemoryRegions[k].blockAddress \in Region0Addr .. RamSize
         /\ Pool!Unused(freeMemoryRegions[k].blockAddress, Pool!Size(c))
<1> DEFINE fr == freeMemoryRegions
           al == allocatedMemoryRegions
           bg == beginOfProgramMemory
           p == fr[k].blockAddress
           n == Blocks(c)
           e == End(fr[k])
<1>1. fr \in Seq(Region) /\ al \in SUBSET Allocation
  BY DEF PoolOK
<1>2. /\ k \in 1 .. Len(fr) /\ p \in Nat /\ e \in Nat
      /\ e = p + fr[k].sizeInBlocks /\ fr[k].sizeInBlocks \in Nat
  BY <1>1, RegionNumbers
<1>3. n \in Nat \ {0} /\ Pool!Size(c) = n
  BY BlocksPositive DEF Pool!Size, Blocks
<1>4. Region0Addr <= p /\ e <= bg
  BY DEF PoolOK, FreeWithin
<1>5. p \in Region0Addr .. RamSize /\ p + n <= bg /\ p + n <= e
  BY <1>2, <1>3, <1>4, MemoryAssumption
<1>6. ASSUME NEW a \in al
      PROVE  p + n <= a.blockAddress \/ a.blockAddress + Pool!Size(a.claimed) <= p
  <2>1. a.blockAddress + Blocks(a.claimed) <= p \/ e <= a.blockAddress
    BY DEF PoolOK, UseApart, Apart
  <2>2. a.blockAddress \in Nat /\ Pool!Size(a.claimed) = Blocks(a.claimed)
    BY <1>1, AllocationNumbers DEF Pool!Size, Blocks
  <2> HIDE DEF p, n, e
  <2>3. QED
    BY <1>2, <1>3, <1>5, <2>1, <2>2
<1>7. QED
  BY <1>3, <1>4, <1>5, <1>6 DEF Pool!Unused

(* A claim the free list refuses is one the abstract pool refuses.         *)
LEMMA RefusalJustified ==
  ASSUME NEW c \in Nat,
         PoolOK(freeMemoryRegions, allocatedMemoryRegions, beginOfProgramMemory),
         beginOfProgramMemory \in Nat,
         OutOfMemory(freeMemoryRegions, Blocks(c))
  PROVE  \A p \in Region0Addr .. RamSize : ~ Pool!Unused(p, Pool!Size(c))
<1> SUFFICES ASSUME NEW p \in Region0Addr .. RamSize,
                    Pool!Unused(p, Pool!Size(c))
             PROVE  FALSE
  OBVIOUS
<1>1. Blocks(c) \in Nat \ {0} /\ Pool!Size(c) = Blocks(c) /\ p \in Nat
  BY BlocksPositive, MemoryAssumption DEF Pool!Size, Blocks
<1>2. /\ Region0Addr <= p /\ p + Blocks(c) <= beginOfProgramMemory
      /\ \A a \in allocatedMemoryRegions :
           p + Blocks(c) <= a.blockAddress \/ AllocEnd(a) <= p
  BY <1>1 DEF Pool!Unused, Pool!Size, AllocEnd, Blocks
<1>3. QED
  BY <1>1, <1>2, NoRoomUnnoticed

(***************************************************************************)
(* Every call is a step of the abstract pool.                              *)
(***************************************************************************)
LEMMA StepRefines ==
  MemoryInv /\ MemoryInv' /\ [NextTail]_vars => [Pool!Next]_(Pool!vars)
<1> SUFFICES ASSUME MemoryInv, MemoryInv', [NextTail]_vars
             PROVE  Pool!Next \/ UNCHANGED Pool!vars
  OBVIOUS
<1> DEFINE fr == freeMemoryRegions
           al == allocatedMemoryRegions
           bg == beginOfProgramMemory
<1>1. fr \in Seq(Region) /\ al \in SUBSET Allocation /\ bg \in Nat
  BY DEF MemoryInv, TypeOK
<1>2. /\ status = "running" =>
           PoolOK(fr, al, bg) /\ Region0Addr <= bg /\ bg < RamSize
      /\ status' = "running" =>
           PoolOK(fr', al', bg') /\ Region0Addr <= bg' /\ bg' < RamSize
      /\ bg' \in Nat
  BY DEF MemoryInv, TypeOK
<1>3. Claims \subseteq Nat
  BY MemoryAssumption
<1>4. ASSUME NEW c \in Claims, NEW k \in DOMAIN fr, IsBestFit(fr, Blocks(c), k),
             status = "running"
      PROVE  /\ fr[k].blockAddress \in Region0Addr .. RamSize
             /\ Pool!Unused(fr[k].blockAddress, Pool!Size(c))
  <2>1. fr[k].sizeInBlocks \in Nat /\ Blocks(c) \in Nat /\ c \in Nat
    BY <1>1, <1>3, RegionNumbers, BlocksPositive
  <2>2. Blocks(c) <= fr[k].sizeInBlocks
    BY <1>4, <2>1 DEF IsBestFit
  <2>3. QED
    BY <1>1, <1>2, <1>4, <2>1, <2>2, FreeRegionUnused
<1>5. ASSUME NEW c \in Claims, OutOfMemory(fr, Blocks(c)), status = "running"
      PROVE  \A p \in Region0Addr .. RamSize : ~ Pool!Unused(p, Pool!Size(c))
  BY <1>1, <1>2, <1>3, <1>5, RefusalJustified
<1>6. ASSUME NEW c \in Claims, allocC47Blocks(c)
      PROVE  Pool!Claim(c)
  <2>1. status = "running" /\ status' = "running" /\ bg' = bg
    BY <1>6 DEF allocC47Blocks
  <2>2. ASSUME NEW k \in DOMAIN fr, IsBestFit(fr, Blocks(c), k),
               al' = al \union {[blockAddress |-> fr[k].blockAddress,
                                 claimed |-> c]},
               returned' = fr[k].blockAddress
        PROVE  Pool!Claim(c)
    <3>1. /\ fr[k].blockAddress \in Region0Addr .. RamSize
          /\ Pool!Unused(fr[k].blockAddress, Pool!Size(c))
      BY <1>4, <2>1, <2>2
    <3>2. QED
      BY <2>1, <2>2, <3>1 DEF Pool!Claim
  <2>3. CASE OutOfMemory(fr, Blocks(c)) /\ returned' = C47_NULL /\ al' = al
    <3>1. \A p \in Region0Addr .. RamSize : ~ Pool!Unused(p, Pool!Size(c))
      BY <1>5, <2>1, <2>3
    <3>2. QED
      BY <2>1, <2>3, <3>1 DEF Pool!Claim
  <2>4. QED
    BY <1>6, <2>2, <2>3 DEF allocC47Blocks
<1>7. ASSUME NEW a \in al, freeC47Blocks(a)
      PROVE  Pool!GiveBack(a)
  <2>1. /\ status = "running" /\ al' = al \ {a} /\ returned' = NoPointer /\ bg' = bg
    BY <1>7 DEF freeC47Blocks
  <2>2. QED
    BY <2>1 DEF Pool!GiveBack
<1>8. ASSUME NEW a \in al, NEW c \in Claims, reallocC47Blocks(a, c)
      PROVE  Pool!Move(a, c)
  <2>1. status = "running" /\ bg' = bg
    BY <1>8 DEF reallocC47Blocks
  <2>2. ASSUME NEW k \in DOMAIN fr, IsBestFit(fr, Blocks(c), k),
               al' = (al \ {a}) \union {[blockAddress |-> fr[k].blockAddress,
                                         claimed |-> c]},
               returned' = fr[k].blockAddress
        PROVE  Pool!Move(a, c)
    <3>1. /\ fr[k].blockAddress \in Region0Addr .. RamSize
          /\ Pool!Unused(fr[k].blockAddress, Pool!Size(c))
      BY <1>4, <2>1, <2>2
    <3>2. QED
      BY <2>1, <2>2, <3>1 DEF Pool!Move
  <2>3. CASE /\ OutOfMemory(fr, Blocks(c)) /\ returned' = C47_NULL
             /\ al' = al /\ status' = status
    <3>1. \A p \in Region0Addr .. RamSize : ~ Pool!Unused(p, Pool!Size(c))
      BY <1>5, <2>1, <2>3
    <3>2. QED
      BY <2>1, <2>3, <3>1 DEF Pool!Move
  <2>4. QED
    BY <1>8, <2>2, <2>3 DEF reallocC47Blocks
<1>9. ASSUME NEW a \in al, NEW c \in Claims, reduceC47Blocks(a, c)
      PROVE  Pool!GiveBack(a) \/ Pool!Shorten(a, c)
  <2>1. CASE freeC47Blocks(a)
    BY <1>7, <2>1
  <2>2. CASE c # 0 /\ ~ freeC47Blocks(a)
    <3>1. /\ status = "running" /\ c < a.claimed
          /\ al' = (al \ {a}) \union {[a EXCEPT !.claimed = c]} /\ bg' = bg
          /\ returned' = NoPointer
      BY <1>9, <2>2 DEF reduceC47Blocks
    <3>2. a \in Allocation /\ a.claimed \in Nat
      BY <1>1, AllocationNumbers
    <3>3. c \in 1 .. a.claimed - 1
      BY <1>3, <2>2, <3>1, <3>2
    <3>4. [a EXCEPT !.claimed = c] =
            [blockAddress |-> a.blockAddress, claimed |-> c]
      BY <3>2 DEF Allocation
    <3>5. QED
      BY <3>1, <3>3, <3>4 DEF Pool!Shorten
  <2>3. QED
    BY <1>9, <2>1, <2>2 DEF reduceC47Blocks
<1>10. ASSUME TailRegionMeetsPrograms, NEW size \in ProgramSizes,
              resizeProgramMemory(size)
       PROVE  \/ \E start \in Region0Addr .. RamSize - 1 : Pool!MovePrograms(start)
              \/ Pool!GiveUp
  <2>1. /\ status = "running" /\ al' = al /\ returned' = NoPointer
        /\ \/ GrowProgramMemory(NewProgramSize(size) - ProgramSize)
           \/ ShrinkProgramMemory(ProgramSize - NewProgramSize(size))
    BY <1>10 DEF resizeProgramMemory, TailRegionMeetsPrograms
  <2>2. CASE status' = "running"
    <3>1. /\ bg' \in Region0Addr .. RamSize - 1 /\ bg' < RamSize
          /\ Region0Addr <= bg'
      BY <1>2, <2>2, MemoryAssumption
    <3>2. \A a \in al : a.blockAddress + Pool!Size(a.claimed) <= bg'
      BY <1>2, <2>1, <2>2 DEF PoolOK, UseWithin, AllocEnd, Pool!Size, Blocks
    <3>3. Pool!MovePrograms(bg')
      BY <2>1, <2>2, <3>1, <3>2 DEF Pool!MovePrograms
    <3>4. QED
      BY <3>1, <3>3
  <2>3. CASE status' # "running"
    <3>1. bg' \in {bg, C47_NULL}
      BY <2>1, <2>3 DEF GrowProgramMemory, ShrinkProgramMemory
    <3>2. QED
      BY <2>1, <2>3, <3>1 DEF Pool!GiveUp
  <2>4. QED
    BY <2>2, <2>3
<1>11. CASE UNCHANGED vars
  BY <1>11 DEF vars, Pool!vars
<1>12. QED
  <2>1. CASE BlockCalls
    BY <1>6, <1>7, <1>8, <1>9, <2>1 DEF BlockCalls, Pool!Next
  <2>2. CASE TailRegionMeetsPrograms /\ \E size \in ProgramSizes : resizeProgramMemory(size)
    BY <1>10, <2>2 DEF Pool!Next
  <2>3. QED
    BY <1>11, <2>1, <2>2 DEF NextTail

(***************************************************************************)
(* The best-fit free list, with its coalescing and its table of limited    *)
(* length, implements the abstract pool: a claim is refused only when no   *)
(* run of unused blocks is long enough, and a caller keeps its blocks      *)
(* until it gives them back.  For every size of the pool and on both       *)
(* builds.                                                                 *)
(***************************************************************************)
THEOREM FreeListImplementsPool == SpecTail => ImplementsBlockPool
<1>1. Init => Pool!Init
  BY DEF Init, Pool!Init
<1>2. QED
  BY <1>1, StepRefines, MemoryInvariant, PTL
     DEF SpecTail, ImplementsBlockPool, Pool!Spec
=============================================================================
