---------------------- MODULE BlockAvailabilityProofs ----------------------
(***************************************************************************)
(* The availability test gives the answer the allocator will give, for     *)
(* free lists, sizes, numbers of blocks and fractions of any size.         *)
(*                                                                         *)
(* The argument is a count: a free list holds as many blocks of the asked  *)
(* size as its regions hold whole ones.  A granted claim lowers that count *)
(* by exactly one and leaves the rests of the regions as they were,        *)
(* whichever region the best fit takes it from.                            *)
(***************************************************************************)
EXTENDS BlockAvailability, FreeListProofs

(* What is left of each region when only its whole blocks count.           *)
WholeOnes(fr, sz) ==
  [i \in 1 .. Len(fr) |-> [blockAddress |-> fr[i].blockAddress,
                           sizeInBlocks |-> fr[i].sizeInBlocks \div sz]]

(* The blocks of size sz the list holds.                                   *)
Count(fr, sz) == getFreeRamMemory(WholeOnes(fr, sz))

(* One of the first k regions has a rest that can be the extra block.      *)
HasRest(fr, sz, extra, k) ==
  \E i \in 1 .. k : fr[i].sizeInBlocks % sz >= extra

(* There is room for n claims of sz and one of extra.                      *)
Room(fr, sz, n, extra) ==
  \/ Count(fr, sz) > n
  \/ Count(fr, sz) = n /\ (extra = 0 \/ HasRest(fr, sz, extra, Len(fr)))

(***************************************************************************)
(* The inductive invariant: the answer given is right for the claims that  *)
(* are still to be made of what is still free.                             *)
(***************************************************************************)
AvailabilityInv ==
  /\ freeMemoryRegions \in Seq(Region)
  /\ size \in Nat \ {0}
  /\ available \in BOOLEAN /\ granted \in BOOLEAN
  /\ claims \in Seq(Nat)
  /\ \A i \in 1 .. Len(claims) - 1 : claims[i] = size
  /\ claims # <<>> => claims[Len(claims)] = scaleExtraSize(size)
  /\ claims # <<>> /\ granted =>
       (available <=> Room(freeMemoryRegions, size, Len(claims) - 1,
                           scaleExtraSize(size)))
  /\ claims = <<>> /\ granted => available
  /\ ~ granted => ~ available

---------------------------------------------------------------------------
(* One more block of size s takes s more.                                  *)
LEMMA ProductGrows ==
  ASSUME NEW s \in Nat \ {0}, NEW p \in Nat, NEW q \in Nat, p < q
  PROVE  s * p \in Nat /\ s * q \in Nat /\ s * q >= s * p + s
<1>1. PICK d \in Nat : q = p + 1 + d
  <2>1. q - p - 1 \in Nat /\ q = p + 1 + (q - p - 1)
    OBVIOUS
  <2>2. QED
    BY <2>1
<1>2. s * q = s * p + s + s * d
  BY <1>1
<1>3. s * d \in Nat /\ s * p \in Nat
  OBVIOUS
<1>4. QED
  BY <1>2, <1>3

(* A region is its whole blocks and its rest.                              *)
LEMMA Division ==
  ASSUME NEW s \in Nat \ {0}, NEW n \in Nat
  PROVE  /\ n \div s \in Nat /\ n % s \in Nat /\ n % s < s
         /\ n = s * (n \div s) + (n % s)
         /\ s * (n \div s) \in Nat
<1>1. n \div s \in Nat
  OBVIOUS
<1>2. n % s \in Nat /\ n % s < s
  OBVIOUS
<1>3. n = s * (n \div s) + (n % s)
  OBVIOUS
<1>4. s * (n \div s) \in Nat
  BY <1>1
<1>5. QED
  BY <1>1, <1>2, <1>3, <1>4

(* There is one way to divide a region.                                    *)
LEMMA DivisionUnique ==
  ASSUME NEW s \in Nat \ {0}, NEW n \in Nat, NEW q \in Nat, NEW r \in Nat,
         r < s, n = s * q + r
  PROVE  n \div s = q /\ n % s = r
<1> DEFINE p == n \div s
           t == n % s
<1>1. /\ p \in Nat /\ t \in Nat /\ t < s /\ n = s * p + t
      /\ s * p \in Nat
  BY Division
<1>2. s * q \in Nat
  OBVIOUS
<1> HIDE DEF p, t
<1>3. ~ (p < q)
  <2>1. ASSUME p < q PROVE s * q >= s * p + s
    BY <1>1, <2>1, ProductGrows
  <2>2. QED
    BY <1>1, <1>2, <2>1
<1>4. ~ (q < p)
  <2>1. ASSUME q < p PROVE s * p >= s * q + s
    BY <1>1, <2>1, ProductGrows
  <2>2. QED
    BY <1>1, <1>2, <2>1
<1>5. p = q
  BY <1>1, <1>3, <1>4
<1>6. QED
  BY <1>1, <1>2, <1>5 DEF p, t

(* A region too small for a whole block is all rest.                       *)
LEMMA SmallRegion ==
  ASSUME NEW s \in Nat \ {0}, NEW n \in Nat
  PROVE  /\ n < s => n \div s = 0 /\ n % s = n
         /\ n >= s => n \div s > 0
<1>1. n < s => n \div s = 0 /\ n % s = n
  <2>1. n = s * 0 + n
    OBVIOUS
  <2>2. QED
    BY <2>1, DivisionUnique
<1>2. ASSUME n >= s PROVE n \div s > 0
  <2> DEFINE q == n \div s
  <2>1. q \in Nat /\ n % s < s /\ n % s \in Nat /\ n = s * q + (n % s)
    BY Division
  <2> HIDE DEF q
  <2>2. CASE q = 0
    <3>1. s * q = 0
      BY <2>2
    <3>2. QED
      BY <1>2, <2>1, <3>1
  <2>3. QED
    BY <2>1, <2>2 DEF q
<1>3. QED
  BY <1>1, <1>2

(* Taking one whole block from a region.                                   *)
LEMMA OneBlockLess ==
  ASSUME NEW s \in Nat \ {0}, NEW n \in Nat, n >= s
  PROVE  /\ n - s \in Nat
         /\ (n - s) \div s = (n \div s) - 1
         /\ (n - s) % s = n % s
<1> DEFINE q == n \div s
           r == n % s
<1>1. q \in Nat /\ r \in Nat /\ r < s /\ n = s * q + r /\ q > 0
  BY Division, SmallRegion
<1> HIDE DEF q, r
<1>2. q - 1 \in Nat /\ s * q = s * (q - 1) + s /\ s * (q - 1) \in Nat
  BY <1>1
<1>3. n - s \in Nat /\ n - s = s * (q - 1) + r
  BY <1>1, <1>2
<1>4. (n - s) \div s = q - 1 /\ (n - s) % s = r
  BY <1>1, <1>2, <1>3, DivisionUnique
<1>5. QED
  BY <1>3, <1>4 DEF q, r

---------------------------------------------------------------------------
(* The whole blocks of a list of regions are a list of regions again, so   *)
(* that the sums of FreeListProofs count them.                             *)
LEMMA WholeOnesValues ==
  ASSUME NEW fr \in Seq(Region), NEW sz \in Nat \ {0}
  PROVE  /\ WholeOnes(fr, sz) \in Seq(Region)
         /\ Len(WholeOnes(fr, sz)) = Len(fr)
         /\ \A i \in 1 .. Len(fr) :
              /\ WholeOnes(fr, sz)[i].sizeInBlocks = fr[i].sizeInBlocks \div sz
              /\ WholeOnes(fr, sz)[i] = [blockAddress |-> fr[i].blockAddress,
                                         sizeInBlocks |-> fr[i].sizeInBlocks \div sz]
<1> DEFINE w(i) == [blockAddress |-> fr[i].blockAddress,
                    sizeInBlocks |-> fr[i].sizeInBlocks \div sz]
<1>1. Len(fr) \in Nat
  BY RegionEntries
<1>2. ASSUME NEW i \in 1 .. Len(fr)
      PROVE  w(i) \in Region
  <2>1. fr[i].blockAddress \in Nat /\ fr[i].sizeInBlocks \in Nat
    BY RegionEntries
  <2>2. fr[i].sizeInBlocks \div sz \in Nat
    BY <2>1, Division
  <2>3. QED
    BY <2>1, <2>2 DEF Region
<1>3. WholeOnes(fr, sz) = [i \in 1 .. Len(fr) |-> w(i)]
  BY DEF WholeOnes
<1> HIDE DEF w
<1>4. [i \in 1 .. Len(fr) |-> w(i)] \in Seq(Region)
  BY <1>1, <1>2
<1>5. Len([i \in 1 .. Len(fr) |-> w(i)]) = Len(fr)
  BY <1>1
<1>6. ASSUME NEW i \in 1 .. Len(fr)
      PROVE  WholeOnes(fr, sz)[i] = w(i)
  BY <1>3
<1>7. QED
  BY <1>3, <1>4, <1>5, <1>6 DEF w

(* A region counts for at least its own whole blocks.                      *)
LEMMA CountAtLeast ==
  ASSUME NEW fr \in Seq(Region), NEW sz \in Nat \ {0}, NEW k \in 1 .. Len(fr)
  PROVE  Count(fr, sz) >= fr[k].sizeInBlocks \div sz
<1> DEFINE w == WholeOnes(fr, sz)
           g == RemoveAt(w, k)
<1>1. /\ w \in Seq(Region) /\ Len(w) = Len(fr)
      /\ w[k].sizeInBlocks = fr[k].sizeInBlocks \div sz
  BY WholeOnesValues
<1>2. w[k].sizeInBlocks \in Nat
  BY <1>1, RegionEntries
<1> HIDE DEF w
<1>3. /\ g \in Seq(Region) /\ Len(g) = Len(w) - 1
      /\ \A j \in 1 .. Len(w) - 1 : g[j] = IF j < k THEN w[j] ELSE w[j + 1]
  BY <1>1, RemoveAtProperties
<1> HIDE DEF g
<1>4. /\ getFreeRamMemory(w) = getFreeRamMemory(g) + w[k].sizeInBlocks
      /\ getFreeRamMemory(g) \in Nat
  BY <1>1, <1>3, SumGap
<1>5. QED
  BY <1>1, <1>2, <1>4 DEF Count, w

(* Regions that are all too small hold no whole block.                     *)
LEMMA CountNone ==
  ASSUME NEW fr \in Seq(Region), NEW sz \in Nat \ {0},
         \A i \in 1 .. Len(fr) : fr[i].sizeInBlocks < sz
  PROVE  Count(fr, sz) = 0
<1> DEFINE w == WholeOnes(fr, sz)
           s == freeMem(w)
           T == {m \in Nat : s[m] = 0}
<1>1. Len(fr) \in Nat /\ \A i \in 1 .. Len(fr) : fr[i].sizeInBlocks \in Nat
  BY RegionEntries
<1>2. /\ w \in Seq(Region) /\ Len(w) = Len(fr)
      /\ \A i \in 1 .. Len(fr) : w[i].sizeInBlocks = fr[i].sizeInBlocks \div sz
  BY WholeOnesValues
<1>3. \A i \in 1 .. Len(fr) : fr[i].sizeInBlocks \div sz = 0
  BY <1>1, SmallRegion
<1> HIDE DEF w
<1>4. /\ s[0] = 0
      /\ \A k \in 1 .. Len(fr) : s[k] = s[k - 1] + w[k].sizeInBlocks
  BY <1>2, FreeMemValues
<1> HIDE DEF s
<1>5. 0 \in T /\ \A k \in 1 .. Len(fr) : k - 1 \in T => k \in T
  BY <1>1, <1>2, <1>3, <1>4
<1>6. \A k \in 0 .. Len(fr) : k \in T
  <2> HIDE DEF T
  <2>1. QED
    BY <1>1, <1>5, IntervalInduction
<1>7. QED
  BY <1>1, <1>2, <1>6 DEF Count, getFreeRamMemory, s, w

(* A claim of sz lowers the count by one and keeps the rests.              *)
LEMMA ClaimCounted ==
  ASSUME NEW fr \in Seq(Region), NEW sz \in Nat \ {0}, NEW k \in 1 .. Len(fr),
         fr[k].sizeInBlocks >= sz, NEW e \in Nat \ {0}
  PROVE  LET g == Carve(fr, sz, k)
         IN  /\ g \in Seq(Region)
             /\ Count(g, sz) = Count(fr, sz) - 1
             /\ Count(fr, sz) \in Nat
             /\ HasRest(g, sz, e, Len(g)) <=> HasRest(fr, sz, e, Len(fr))
<1> DEFINE n == fr[k].sizeInBlocks
           g == Carve(fr, sz, k)
           w == WholeOnes(fr, sz)
           v == WholeOnes(g, sz)
<1>1. /\ Len(fr) \in Nat /\ fr[k].blockAddress \in Nat /\ n \in Nat
  BY RegionEntries
<1>2. /\ w \in Seq(Region) /\ Len(w) = Len(fr)
      /\ \A i \in 1 .. Len(fr) :
           /\ w[i].sizeInBlocks = fr[i].sizeInBlocks \div sz
           /\ w[i] = [blockAddress |-> fr[i].blockAddress,
                      sizeInBlocks |-> fr[i].sizeInBlocks \div sz]
  BY WholeOnesValues
<1>3. CASE n = sz
  <2>1. g = RemoveAt(fr, k)
    BY <1>3 DEF Carve
  <2>2. /\ g \in Seq(Region) /\ Len(g) = Len(fr) - 1
        /\ \A j \in 1 .. Len(fr) - 1 : g[j] = IF j < k THEN fr[j] ELSE fr[j + 1]
    BY <2>1, RemoveAtProperties
  <2>3. n \div sz = 1 /\ n % sz = 0
    <3>1. sz = sz * 1 + 0
      OBVIOUS
    <3>2. QED
      BY <1>3, <3>1, DivisionUnique
  <2> HIDE DEF g, n, w
  <2>4. /\ v \in Seq(Region) /\ Len(v) = Len(g)
        /\ \A i \in 1 .. Len(g) :
             v[i] = [blockAddress |-> g[i].blockAddress,
                     sizeInBlocks |-> g[i].sizeInBlocks \div sz]
    BY <2>2, WholeOnesValues
  <2> HIDE DEF v
  <2>5. \A j \in 1 .. Len(fr) - 1 : v[j] = IF j < k THEN w[j] ELSE w[j + 1]
    <3> SUFFICES ASSUME NEW j \in 1 .. Len(fr) - 1
                 PROVE  v[j] = IF j < k THEN w[j] ELSE w[j + 1]
      OBVIOUS
    <3>1. CASE j < k
      <4>1. j \in 1 .. Len(fr) /\ g[j] = fr[j]
        BY <1>1, <2>2, <3>1
      <4>2. QED
        BY <1>2, <2>2, <2>4, <3>1, <4>1
    <3>2. CASE ~ (j < k)
      <4>1. j + 1 \in 1 .. Len(fr) /\ g[j] = fr[j + 1]
        BY <1>1, <2>2, <3>2
      <4>2. QED
        BY <1>2, <2>2, <2>4, <3>2, <4>1
    <3>3. QED
      BY <3>1, <3>2
  <2>6. /\ getFreeRamMemory(w) = getFreeRamMemory(v) + w[k].sizeInBlocks
        /\ getFreeRamMemory(v) \in Nat
    BY <1>2, <2>2, <2>4, <2>5, SumGap
  <2>7. w[k].sizeInBlocks = 1
    BY <1>2, <2>3 DEF n
  <2>8. ASSUME NEW j \in 1 .. Len(g), g[j].sizeInBlocks % sz >= e
        PROVE  \E i \in 1 .. Len(fr) : fr[i].sizeInBlocks % sz >= e
    <3>1. CASE j < k
      BY <1>1, <2>2, <2>8, <3>1
    <3>2. CASE ~ (j < k)
      <4>1. j + 1 \in 1 .. Len(fr) /\ g[j] = fr[j + 1]
        BY <1>1, <2>2, <3>2
      <4>2. QED
        BY <2>8, <4>1
    <3>3. QED
      BY <3>1, <3>2
  <2>9. ASSUME NEW i \in 1 .. Len(fr), fr[i].sizeInBlocks % sz >= e
        PROVE  \E j \in 1 .. Len(g) : g[j].sizeInBlocks % sz >= e
    <3>1. i # k
      BY <2>3, <2>9 DEF n
    <3>2. CASE i < k
      <4>1. i \in 1 .. Len(g) /\ g[i] = fr[i]
        BY <1>1, <2>2, <3>2
      <4>2. QED
        BY <2>9, <4>1
    <3>3. CASE i > k
      <4>1. i - 1 \in 1 .. Len(g) /\ g[i - 1] = fr[i]
        BY <1>1, <2>2, <3>3
      <4>2. QED
        BY <2>9, <4>1
    <3>4. QED
      BY <3>1, <3>2, <3>3
  <2>10. HasRest(g, sz, e, Len(g)) <=> HasRest(fr, sz, e, Len(fr))
    BY <2>8, <2>9 DEF HasRest
  <2>11. QED
    BY <2>2, <2>6, <2>7, <2>10 DEF Count, g, w, v
<1>4. CASE n # sz
  <2> DEFINE a == fr[k].blockAddress + sz
             m == n - sz
  <2>1. /\ a \in Nat /\ m \in Nat
        /\ m \div sz = (n \div sz) - 1 /\ m % sz = n % sz
    <3>1. n \in Nat /\ n >= sz /\ fr[k].blockAddress \in Nat
      BY <1>1
    <3> HIDE DEF n
    <3>2. /\ n - sz \in Nat
          /\ (n - sz) \div sz = (n \div sz) - 1 /\ (n - sz) % sz = n % sz
      BY <3>1, OneBlockLess
    <3>3. a \in Nat
      BY <3>1
    <3>4. QED
      BY <3>2, <3>3
  <2>2. n \div sz \in Nat
    BY <1>1, Division
  <2>3. g = [fr EXCEPT ![k] = [blockAddress |-> a, sizeInBlocks |-> m]]
    BY <1>4 DEF Carve
  <2> HIDE DEF a, m
  <2>4. /\ g \in Seq(Region) /\ Len(g) = Len(fr)
        /\ \A i \in 1 .. Len(fr) :
             g[i] = IF i = k THEN [blockAddress |-> a, sizeInBlocks |-> m]
                             ELSE fr[i]
    <3>1. a \in Nat /\ m \in Nat
      BY <2>1
    <3> HIDE DEF g
    <3>2. QED
      BY ONLY <2>3, <3>1, ReplaceEntry, fr \in Seq(Region), k \in 1 .. Len(fr)
  <2> HIDE DEF g, w, n
  <2>5. /\ v \in Seq(Region) /\ Len(v) = Len(g)
        /\ \A i \in 1 .. Len(g) :
             /\ v[i].sizeInBlocks = g[i].sizeInBlocks \div sz
             /\ v[i] = [blockAddress |-> g[i].blockAddress,
                        sizeInBlocks |-> g[i].sizeInBlocks \div sz]
    BY <2>4, WholeOnesValues
  <2> HIDE DEF v
  <2>6. \A i \in 1 .. Len(w) : i # k => v[i] = w[i]
    BY <1>2, <2>4, <2>5
  <2>7. g[k].sizeInBlocks = m
    BY <2>4
  <2>8. /\ getFreeRamMemory(v) =
             getFreeRamMemory(w) - w[k].sizeInBlocks + v[k].sizeInBlocks
        /\ getFreeRamMemory(w) \in Nat
    BY <1>2, <2>4, <2>5, <2>6, SumReplaced
  <2>9. w[k].sizeInBlocks = n \div sz /\ v[k].sizeInBlocks = (n \div sz) - 1
    BY <1>2, <2>1, <2>4, <2>5, <2>7 DEF n
  <2>10. \A i \in 1 .. Len(fr) :
           g[i].sizeInBlocks % sz = fr[i].sizeInBlocks % sz
    BY <2>1, <2>4, <2>7 DEF n
  <2>11. HasRest(g, sz, e, Len(g)) <=> HasRest(fr, sz, e, Len(fr))
    BY <2>4, <2>10 DEF HasRest
  <2>12. QED
    BY <2>2, <2>4, <2>8, <2>9, <2>11 DEF Count, g, w, v
<1>5. QED
  BY <1>3, <1>4

---------------------------------------------------------------------------
(* The loop of isMemoryBlockAvailable, n turns long.                       *)
IsScan(f, fr, sz, n) ==
  f = [k \in 0 .. n |-> IF k = 0 THEN NoRegionSeen
                        ELSE accept(f[k - 1], fr[k].sizeInBlocks, sz,
                                    scaleExtraSize(sz))]

(* The recursion is well defined.                                          *)
LEMMA ScanExists ==
  ASSUME NEW fr, NEW sz, NEW n \in Nat
  PROVE  \E f : IsScan(f, fr, sz, n)
<1> DEFINE T == {m \in Nat : \E f : IsScan(f, fr, sz, m)}
           A(acc, k) == accept(acc, fr[k].sizeInBlocks, sz, scaleExtraSize(sz))
<1>1. 0 \in T
  <2>1. IsScan([k \in 0 .. 0 |-> NoRegionSeen], fr, sz, 0)
    BY DEF IsScan
  <2>2. QED
    BY <2>1
<1>2. ASSUME NEW m \in 1 .. n, m - 1 \in T
      PROVE  m \in T
  <2>1. PICK f : IsScan(f, fr, sz, m - 1)
    BY <1>2
  <2> DEFINE g == [k \in 0 .. m |-> IF k < m THEN f[k] ELSE A(f[m - 1], m)]
  <2>2. f = [k \in 0 .. m - 1 |-> IF k = 0 THEN NoRegionSeen ELSE A(f[k - 1], k)]
    BY <2>1 DEF IsScan
  <2> HIDE DEF A
  <2>3. \A j \in 0 .. m - 1 :
          f[j] = IF j = 0 THEN NoRegionSeen ELSE A(f[j - 1], j)
    BY <2>2
  <2>4. ASSUME NEW k \in 0 .. m
        PROVE  g[k] = IF k = 0 THEN NoRegionSeen ELSE A(g[k - 1], k)
    <3>1. CASE k < m
      BY <2>3, <3>1
    <3>2. CASE k = m
      <4>1. g[k] = A(f[m - 1], m) /\ g[m - 1] = f[m - 1]
        BY <3>2
      <4>2. QED
        BY <3>2, <4>1
    <3>3. QED
      BY <3>1, <3>2
  <2>5. g = [k \in 0 .. m |-> IF k = 0 THEN NoRegionSeen ELSE A(g[k - 1], k)]
    BY <2>4
  <2>6. IsScan(g, fr, sz, m)
    BY <2>5 DEF IsScan, A
  <2>7. QED
    BY <2>6
<1> HIDE DEF T
<1>3. n \in T
  BY <1>1, <1>2, IntervalInduction
<1>4. QED
  BY <1>3 DEF T

(* The accumulator after one more region.                                  *)
LEMMA ScannedValues ==
  ASSUME NEW fr \in Seq(Region), NEW sz
  PROVE  /\ scanned(fr, sz)[0] = NoRegionSeen
         /\ \A k \in 1 .. Len(fr) :
              scanned(fr, sz)[k] =
                accept(scanned(fr, sz)[k - 1], fr[k].sizeInBlocks, sz,
                       scaleExtraSize(sz))
<1> DEFINE f == scanned(fr, sz)
           A(acc, k) == accept(acc, fr[k].sizeInBlocks, sz, scaleExtraSize(sz))
<1>1. Len(fr) \in Nat
  BY RegionEntries
<1>2. IsScan(f, fr, sz, Len(fr))
  <2> DEFINE h == CHOOSE s : IsScan(s, fr, sz, Len(fr))
  <2>1. IsScan(h, fr, sz, Len(fr))
    BY <1>1, ScanExists
  <2>2. f = h
    BY DEF scanned, IsScan
  <2>3. QED
    BY <2>1, <2>2
<1> HIDE DEF f
<1>3. f = [k \in 0 .. Len(fr) |-> IF k = 0 THEN NoRegionSeen ELSE A(f[k - 1], k)]
  BY <1>2 DEF IsScan
<1> HIDE DEF A
<1>4. f[0] = NoRegionSeen /\ \A k \in 1 .. Len(fr) : f[k] = A(f[k - 1], k)
  BY <1>1, <1>3
<1>5. QED
  BY <1>4 DEF f, A

---------------------------------------------------------------------------
(* What the accumulator stands for after k regions with c whole blocks     *)
(* among them; h says whether one of them has a rest for the extra block.  *)
Tells(acc, c, h) ==
  /\ acc = [count |-> acc.count, haveExtra |-> acc.haveExtra,
            satisfied |-> acc.satisfied]
  /\ acc.satisfied \in BOOLEAN
  /\ acc.satisfied <=> (c > NumBlocks \/ (c = NumBlocks /\ h))
  /\ ~ acc.satisfied => acc.count = c /\ (acc.haveExtra <=> h)
  /\ acc.haveExtra \in BOOLEAN

(* accept adds up: the region that is said to hold everything would also   *)
(* have been counted as enough.                                            *)
LEMMA AcceptCounts ==
  ASSUME NEW acc, NEW c \in Nat, NEW h \in BOOLEAN, Tells(acc, c, h),
         NEW this \in Nat, NEW sz \in Nat \ {0}, NEW e \in Nat
  PROVE  Tells(accept(acc, this, sz, e), c + (this \div sz),
               h \/ this % sz >= e)
<1> DEFINE q == this \div sz
           r == this % sz
           x == accept(acc, this, sz, e)
<1>1. /\ q \in Nat /\ r \in Nat /\ r < sz /\ this = sz * q + r
      /\ sz * q \in Nat
  BY Division
<1>2. /\ this < sz => q = 0 /\ r = this
      /\ this >= sz => q > 0
  BY SmallRegion
<1>3. NumBlocks \in Nat \ {0} /\ sz * NumBlocks \in Nat
  BY AvailabilityAssumption
<1>4. ASSUME this >= sz * NumBlocks + e
      PROVE  q > NumBlocks \/ (q = NumBlocks /\ r >= e)
  <2> HIDE DEF q, r
  <2>1. CASE q < NumBlocks
    <3>1. sz * NumBlocks >= sz * q + sz
      BY <1>1, <1>3, <2>1, ProductGrows
    <3>2. QED
      BY <1>1, <1>3, <1>4, <3>1
  <2>2. CASE q = NumBlocks
    BY <1>1, <1>3, <1>4, <2>2
  <2>3. QED
    BY <1>1, <1>3, <2>1, <2>2
<1>5. CASE acc.satisfied
  <2>1. x = acc
    BY <1>5 DEF accept
  <2>2. c > NumBlocks \/ (c = NumBlocks /\ h)
    BY <1>5 DEF Tells
  <2> HIDE DEF q, r, x
  <2>3. c + q > NumBlocks \/ (c + q = NumBlocks /\ (h \/ r >= e))
    BY <1>1, <1>3, <2>2
  <2>4. Tells(x, c + q, h \/ r >= e)
    BY <1>5, <2>1, <2>3 DEF Tells
  <2>5. QED
    BY <2>4 DEF q, r, x
<1>6. CASE ~ acc.satisfied /\ this >= sz * NumBlocks + e
  <2>1. x = [acc EXCEPT !.satisfied = TRUE]
    BY <1>6 DEF accept
  <2>2. x = [count |-> acc.count, haveExtra |-> acc.haveExtra,
             satisfied |-> TRUE]
    BY <2>1 DEF Tells
  <2>3. acc.haveExtra \in BOOLEAN
    BY DEF Tells
  <2> HIDE DEF q, r, x
  <2>4. c + q > NumBlocks \/ (c + q = NumBlocks /\ (h \/ r >= e))
    BY <1>1, <1>3, <1>4, <1>6
  <2>5. Tells(x, c + q, h \/ r >= e)
    BY <2>2, <2>3, <2>4 DEF Tells
  <2>6. QED
    BY <2>5 DEF q, r, x
<1>7. CASE ~ acc.satisfied /\ ~ (this >= sz * NumBlocks + e)
  <2>1. /\ ~ (c > NumBlocks \/ (c = NumBlocks /\ h))
        /\ acc.count = c /\ (acc.haveExtra <=> h) /\ acc.haveExtra \in BOOLEAN
    BY <1>7 DEF Tells
  <2>2. CASE this >= sz
    <3>1. x = [count |-> acc.count + q, haveExtra |-> acc.haveExtra \/ r >= e,
               satisfied |-> \/ acc.count + q > NumBlocks
                             \/ acc.count + q = NumBlocks
                                /\ (acc.haveExtra \/ r >= e)]
      BY <1>7, <2>1, <2>2 DEF accept
    <3> HIDE DEF q, r, x
    <3>2. Tells(x, c + q, h \/ r >= e)
      BY <2>1, <3>1 DEF Tells
    <3>3. QED
      BY <3>2 DEF q, r, x
  <2>3. CASE this < sz
    <3> DEFINE fits == this >= e
    <3>1. x = [count |-> acc.count, haveExtra |-> acc.haveExtra \/ fits,
               satisfied |-> fits /\ acc.count >= NumBlocks]
      <4>1. ~ (this >= sz)
        BY <2>3
      <4>2. QED
        BY <1>7, <2>1, <4>1 DEF accept
    <3>2. q = 0 /\ r = this
      BY <1>2, <2>3
    <3> HIDE DEF q, r, x
    <3>3. c + q = c
      BY <3>2
    <3> HIDE DEF fits
    <3>4. (fits /\ c >= NumBlocks) <=> (c > NumBlocks \/ (c = NumBlocks /\ (h \/ fits)))
      BY <1>3, <2>1
    <3>5. Tells(x, c, h \/ fits)
      BY <2>1, <3>1, <3>4 DEF Tells
    <3>6. QED
      BY <3>2, <3>3, <3>5 DEF q, r, x, fits
  <2>4. QED
    BY <2>2, <2>3
<1>8. QED
  BY <1>5, <1>6, <1>7 DEF Tells

(* The answer of isMemoryBlockAvailable is whether there is room.          *)
LEMMA AnswerIsRoom ==
  ASSUME NEW fr \in Seq(Region), NEW sz \in Nat \ {0}
  PROVE  /\ isMemoryBlockAvailable(fr, sz) \in BOOLEAN
         /\ isMemoryBlockAvailable(fr, sz) <=>
              Room(fr, sz, NumBlocks, scaleExtraSize(sz))
         /\ scaleExtraSize(sz) \in Nat /\ scaleExtraSize(sz) <= sz
<1> DEFINE e == scaleExtraSize(sz)
           n == Len(fr)
           a == scanned(fr, sz)
           w == WholeOnes(fr, sz)
           s == freeMem(w)
           T == {k \in Nat : Tells(a[k], s[k], HasRest(fr, sz, e, k))}
<1>1. n \in Nat /\ \A i \in 1 .. n : fr[i].sizeInBlocks \in Nat
  BY RegionEntries
<1>2. e \in Nat /\ e <= sz /\ NumBlocks \in Nat \ {0}
  <2>1. Fraction \in Nat \ {0} /\ NumBlocks \in Nat \ {0}
    BY AvailabilityAssumption
  <2>2. /\ e \in Nat /\ sz % Fraction \in Nat /\ Fraction * e \in Nat
        /\ sz = Fraction * e + (sz % Fraction)
    BY <2>1, Division DEF scaleExtraSize
  <2> HIDE DEF e
  <2>3. Fraction * e >= e
    BY <2>1, <2>2
  <2>4. QED
    BY <2>1, <2>2, <2>3
<1>3. /\ a[0] = NoRegionSeen
      /\ \A k \in 1 .. n : a[k] = accept(a[k - 1], fr[k].sizeInBlocks, sz, e)
  BY ScannedValues
<1>4. /\ w \in Seq(Region) /\ Len(w) = n
      /\ \A i \in 1 .. n : w[i].sizeInBlocks = fr[i].sizeInBlocks \div sz
  BY WholeOnesValues
<1> HIDE DEF w, n, a, e
<1>5. /\ s[0] = 0 /\ \A k \in 1 .. n : s[k] = s[k - 1] + w[k].sizeInBlocks
      /\ \A k \in 0 .. n : s[k] \in Nat
  BY <1>4, FreeMemValues
<1> HIDE DEF s
<1>6. 0 \in T
  <2>1. ~ HasRest(fr, sz, e, 0)
    BY DEF HasRest
  <2>2. Tells(NoRegionSeen, 0, HasRest(fr, sz, e, 0))
    BY <1>2, <2>1 DEF Tells, NoRegionSeen
  <2>3. QED
    BY <1>3, <1>5, <2>2
<1>7. ASSUME NEW k \in 1 .. n, k - 1 \in T
      PROVE  k \in T
  <2> DEFINE this == fr[k].sizeInBlocks
             h == HasRest(fr, sz, e, k - 1)
  <2>1. /\ k - 1 \in 0 .. n /\ k \in 0 .. n /\ this \in Nat /\ s[k - 1] \in Nat
        /\ h \in BOOLEAN
    BY <1>1, <1>5 DEF HasRest
  <2>2. Tells(a[k - 1], s[k - 1], h)
    BY <1>7
  <2>3. /\ a[k] = accept(a[k - 1], this, sz, e)
        /\ s[k] = s[k - 1] + (this \div sz)
    BY <1>3, <1>4, <1>5
  <2>4. (h \/ this % sz >= e) <=> HasRest(fr, sz, e, k)
    <3>1. \A i \in 1 .. k : i \in 1 .. k - 1 \/ i = k
      BY <1>1
    <3>2. k \in 1 .. k /\ \A i \in 1 .. k - 1 : i \in 1 .. k
      BY <1>1
    <3>3. QED
      BY <3>1, <3>2 DEF HasRest
  <2>5. HasRest(fr, sz, e, k) \in BOOLEAN
    BY DEF HasRest
  <2> HIDE DEF this, h
  <2>6. Tells(accept(a[k - 1], this, sz, e), s[k - 1] + (this \div sz),
              h \/ this % sz >= e)
    BY <1>2, <2>1, <2>2, AcceptCounts
  <2>7. Tells(a[k], s[k], HasRest(fr, sz, e, k))
    BY <2>3, <2>4, <2>5, <2>6
  <2>8. QED
    BY <1>1, <2>7
<1>8. n \in T
  <2>1. \A k \in 0 .. n : k \in T
    <3> HIDE DEF T
    <3>1. QED
      BY <1>1, <1>6, <1>7, IntervalInduction
  <2>2. QED
    BY <1>1, <2>1
<1>9. /\ a[n].satisfied \in BOOLEAN
      /\ a[n].satisfied <=> \/ s[n] > NumBlocks
                            \/ s[n] = NumBlocks /\ HasRest(fr, sz, e, n)
  BY <1>8 DEF Tells
<1>10. s[n] = Count(fr, sz)
  BY <1>4 DEF Count, getFreeRamMemory, s, w
<1>11. ASSUME Count(fr, sz) = NumBlocks, e = 0
       PROVE  HasRest(fr, sz, e, n)
  <2>1. n # 0
    BY <1>2, <1>5, <1>10, <1>11
  <2>2. 1 \in 1 .. n
    BY <1>1, <2>1
  <2>3. fr[1].sizeInBlocks % sz \in Nat
    BY <1>1, <2>2, Division
  <2>4. QED
    BY <1>11, <2>2, <2>3 DEF HasRest
<1>12. a[n].satisfied <=> Room(fr, sz, NumBlocks, e)
  BY <1>9, <1>10, <1>11 DEF Room, n
<1>13. QED
  BY <1>2, <1>9, <1>12 DEF isMemoryBlockAvailable, a, n, e

---------------------------------------------------------------------------
(* Room for one claim of sz less, once it was granted.                     *)
LEMMA RoomAfterClaim ==
  ASSUME NEW fr \in Seq(Region), NEW sz \in Nat \ {0}, NEW k \in 1 .. Len(fr),
         fr[k].sizeInBlocks >= sz, NEW e \in Nat, NEW n \in Nat \ {0}
  PROVE  /\ Carve(fr, sz, k) \in Seq(Region)
         /\ Room(Carve(fr, sz, k), sz, n - 1, e) <=> Room(fr, sz, n, e)
<1> DEFINE g == Carve(fr, sz, k)
<1>1. CASE e = 0
  <2>1. g \in Seq(Region) /\ Count(g, sz) = Count(fr, sz) - 1 /\ Count(fr, sz) \in Nat
    BY ClaimCounted
  <2> HIDE DEF g
  <2>2. QED
    BY <1>1, <2>1 DEF Room, g
<1>2. CASE e # 0
  <2>1. /\ g \in Seq(Region) /\ Count(g, sz) = Count(fr, sz) - 1
        /\ Count(fr, sz) \in Nat
        /\ HasRest(g, sz, e, Len(g)) <=> HasRest(fr, sz, e, Len(fr))
    BY <1>2, ClaimCounted
  <2> HIDE DEF g
  <2>2. QED
    BY <1>2, <2>1 DEF Room, g
<1>3. QED
  BY <1>1, <1>2

(* Only the extra claim is left: there is room iff a region can hold it.   *)
LEMMA RoomForExtra ==
  ASSUME NEW fr \in Seq(Region), NEW sz \in Nat \ {0}, NEW e \in Nat, e <= sz
  PROVE  /\ e = 0 => Room(fr, sz, 0, e)
         /\ \A k \in 1 .. Len(fr) : fr[k].sizeInBlocks >= e => Room(fr, sz, 0, e)
         /\ e # 0 /\ OutOfMemory(fr, e) => ~ Room(fr, sz, 0, e)
<1>1. /\ Len(fr) \in Nat /\ DOMAIN fr = 1 .. Len(fr)
      /\ \A i \in 1 .. Len(fr) : fr[i].sizeInBlocks \in Nat
  BY RegionEntries
<1>2. Count(fr, sz) \in Nat
  <2> DEFINE w == WholeOnes(fr, sz)
  <2>1. w \in Seq(Region) /\ Len(w) \in Nat
    BY WholeOnesValues, RegionEntries
  <2> HIDE DEF w
  <2>2. freeMem(w)[Len(w)] \in Nat
    BY <2>1, FreeMemValues
  <2>3. QED
    BY <2>2 DEF Count, getFreeRamMemory, w
<1>3. e = 0 => Room(fr, sz, 0, e)
  BY <1>2 DEF Room
<1>4. ASSUME NEW k \in 1 .. Len(fr), fr[k].sizeInBlocks >= e
      PROVE  Room(fr, sz, 0, e)
  <2>1. CASE fr[k].sizeInBlocks >= sz
    <3>1. fr[k].sizeInBlocks \div sz > 0 /\ fr[k].sizeInBlocks \div sz \in Nat
      BY <1>1, <2>1, SmallRegion, Division
    <3>2. Count(fr, sz) >= fr[k].sizeInBlocks \div sz
      BY CountAtLeast
    <3>3. QED
      BY <1>2, <3>1, <3>2 DEF Room
  <2>2. CASE fr[k].sizeInBlocks < sz
    <3>1. fr[k].sizeInBlocks % sz = fr[k].sizeInBlocks
      BY <1>1, <2>2, SmallRegion
    <3>2. HasRest(fr, sz, e, Len(fr))
      BY <1>4, <3>1 DEF HasRest
    <3>3. QED
      BY <1>2, <3>2 DEF Room
  <2>3. QED
    BY <1>1, <2>1, <2>2
<1>5. ASSUME e # 0, OutOfMemory(fr, e)
      PROVE  ~ Room(fr, sz, 0, e)
  <2>1. \A i \in 1 .. Len(fr) : fr[i].sizeInBlocks < e /\ fr[i].sizeInBlocks < sz
    BY <1>1, <1>5 DEF OutOfMemory
  <2>2. Count(fr, sz) = 0
    BY <2>1, CountNone
  <2>3. \A i \in 1 .. Len(fr) : fr[i].sizeInBlocks % sz = fr[i].sizeInBlocks
    BY <1>1, <2>1, SmallRegion
  <2>4. ~ HasRest(fr, sz, e, Len(fr))
    BY <1>1, <2>1, <2>3 DEF HasRest
  <2>5. QED
    BY <1>5, <2>2, <2>4 DEF Room
<1>6. QED
  BY <1>3, <1>4, <1>5

---------------------------------------------------------------------------
(* The invariant in an initial state: the question has just been asked.    *)
LEMMA InitAnswered == Init => AvailabilityInv
<1> SUFFICES ASSUME Init PROVE AvailabilityInv
  OBVIOUS
<1> DEFINE e == scaleExtraSize(size)
           c == [i \in 1 .. NumBlocks |-> size]
<1>1. size \in Nat \ {0} /\ NumBlocks \in Nat \ {0}
  BY AvailabilityAssumption DEF Init
<1>2. freeMemoryRegions \in Seq(Region)
  <2>1. PICK n \in 0 .. MaxRegions : \E s \in [1 .. n -> 0 .. MaxRegionSize] :
          freeMemoryRegions = [i \in 1 .. n |->
                                 [blockAddress |-> (MaxRegionSize + 1) * i,
                                  sizeInBlocks |-> s[i]]]
    BY DEF Init, FreeLists
  <2>2. PICK s \in [1 .. n -> 0 .. MaxRegionSize] :
          freeMemoryRegions = [i \in 1 .. n |->
                                 [blockAddress |-> (MaxRegionSize + 1) * i,
                                  sizeInBlocks |-> s[i]]]
    BY <2>1
  <2>3. n \in Nat
    BY AvailabilityAssumption
  <2> DEFINE r(i) == [blockAddress |-> (MaxRegionSize + 1) * i,
                      sizeInBlocks |-> s[i]]
  <2>4. ASSUME NEW i \in 1 .. n
        PROVE  r(i) \in Region
    <3>1. s[i] \in Nat /\ (MaxRegionSize + 1) * i \in Nat
      BY <2>3, AvailabilityAssumption
    <3>2. QED
      BY <3>1 DEF Region
  <2>5. freeMemoryRegions = [i \in 1 .. n |-> r(i)]
    BY <2>2
  <2> HIDE DEF r
  <2>6. QED
    BY <2>3, <2>4, <2>5
<1>3. /\ e \in Nat /\ available \in BOOLEAN
      /\ available <=> Room(freeMemoryRegions, size, NumBlocks, e)
  BY <1>1, <1>2, AnswerIsRoom DEF Init
<1>4. /\ c \in Seq(Nat) /\ Len(c) = NumBlocks
      /\ \A i \in 1 .. NumBlocks : c[i] = size
  BY <1>1
<1>5. claims = Append(c, e) /\ granted = TRUE
  BY DEF Init
<1> HIDE DEF c, e
<1>6. /\ claims \in Seq(Nat) /\ Len(claims) = NumBlocks + 1
      /\ \A i \in 1 .. NumBlocks : claims[i] = size
      /\ claims[NumBlocks + 1] = e
  BY <1>1, <1>3, <1>4, <1>5, AppendProperties
<1>7. claims # <<>> /\ Len(claims) - 1 = NumBlocks
  BY <1>1, <1>6
<1>8. QED
  BY <1>1, <1>2, <1>3, <1>5, <1>6, <1>7 DEF AvailabilityInv, e

(* A claim that is granted leaves the answer right for those behind it.    *)
LEMMA GrantedKeepsAnswer == AvailabilityInv /\ Granted => AvailabilityInv'
<1> SUFFICES ASSUME AvailabilityInv, Granted PROVE AvailabilityInv'
  OBVIOUS
<1> DEFINE fr == freeMemoryRegions
           e == scaleExtraSize(size)
           n == Len(claims) - 1
<1>1. /\ fr \in Seq(Region) /\ size \in Nat \ {0} /\ claims \in Seq(Nat)
      /\ claims # <<>> /\ granted = TRUE
      /\ \A i \in 1 .. n : claims[i] = size
      /\ claims[Len(claims)] = e
      /\ available \in BOOLEAN
      /\ available <=> Room(fr, size, n, e)
  BY DEF AvailabilityInv, Granted
<1>2. /\ claims' = Tail(claims) /\ size' = size /\ available' = available
      /\ granted' = granted
  BY DEF Granted
<1>3. e \in Nat /\ e <= size
  BY <1>1, AnswerIsRoom
<1>4. /\ Len(claims) \in Nat /\ n \in Nat /\ Head(claims) = claims[1]
      /\ claims' \in Seq(Nat) /\ Len(claims') = n
      /\ \A i \in 1 .. n : claims'[i] = claims[i + 1]
  <2>1. Len(claims) \in Nat /\ Len(claims) # 0
    BY <1>1, EmptySeq, LenProperties
  <2>2. QED
    BY <1>1, <1>2, <2>1, HeadTailProperties
<1>5. e' = e
  BY <1>2 DEF scaleExtraSize
<1>6. /\ \A i \in 1 .. Len(claims') - 1 : claims'[i] = size
      /\ claims' # <<>> => claims'[Len(claims')] = e
  <2>1. \A i \in 1 .. n - 1 : claims'[i] = size
    <3> SUFFICES ASSUME NEW i \in 1 .. n - 1 PROVE claims'[i] = size
      OBVIOUS
    <3>1. n \in Nat
      BY <1>4
    <3> HIDE DEF n
    <3>2. i \in 1 .. n /\ i + 1 \in 1 .. n
      BY <3>1
    <3>3. QED
      BY <1>1, <1>4, <3>2
  <2>2. claims' # <<>> => n # 0
    BY <1>4
  <2>3. n # 0 => claims'[n] = e
    BY <1>1, <1>4
  <2>4. QED
    BY <1>4, <2>1, <2>2, <2>3
<1>7. CASE n = 0
  <2>1. claims' = <<>> /\ Head(claims) = e
    <3>1. Len(claims) = 1
      <4>1. Len(claims) \in Nat
        BY <1>4
      <4>2. QED
        BY <1>7, <4>1
    <3>2. Len(claims') = 0
      BY <1>4, <1>7
    <3>3. claims[1] = e
      BY <1>1, <3>1
    <3>4. QED
      BY <1>4, <3>2, <3>3, EmptySeq
  <2>2. CASE e = 0
    <3>1. fr' = fr
      BY <2>1, <2>2 DEF Granted
    <3>2. available
      <4>1. Room(fr, size, n, e)
        <5> HIDE DEF n, e
        <5>1. QED
          BY <1>1, <1>3, <1>7, <2>2, RoomForExtra
      <4>2. QED
        BY <1>1, <4>1
    <3>3. QED
      BY <1>1, <1>2, <1>4, <2>1, <3>1, <3>2 DEF AvailabilityInv
  <2>3. CASE e # 0
    <3>1. PICK k \in DOMAIN fr : IsBestFit(fr, e, k) /\ fr' = Carve(fr, e, k)
      BY <2>1, <2>3 DEF Granted
    <3>2. k \in 1 .. Len(fr) /\ fr[k].sizeInBlocks >= e
      BY <1>1, <3>1, RegionEntries DEF IsBestFit
    <3>3. fr' \in Seq(Region)
      BY <1>1, <1>3, <2>3, <3>1, <3>2, CarveProperties
    <3>4. available
      BY <1>1, <1>3, <1>7, <3>2, RoomForExtra
    <3>5. QED
      BY <1>1, <1>2, <1>4, <2>1, <3>3, <3>4 DEF AvailabilityInv
  <2>4. QED
    BY <2>2, <2>3
<1>8. CASE n # 0
  <2>1. Head(claims) = size /\ claims' # <<>>
    BY <1>1, <1>4, <1>8
  <2>2. PICK k \in DOMAIN fr : IsBestFit(fr, size, k) /\ fr' = Carve(fr, size, k)
    BY <1>1, <2>1 DEF Granted
  <2>3. k \in 1 .. Len(fr) /\ fr[k].sizeInBlocks >= size
    BY <1>1, <2>2, RegionEntries DEF IsBestFit
  <2> HIDE DEF n, e
  <2>4. /\ fr' \in Seq(Region)
        /\ Room(fr', size, n - 1, e) <=> Room(fr, size, n, e)
    BY <1>1, <1>3, <1>4, <1>8, <2>2, <2>3, RoomAfterClaim
  <2>5. available <=> Room(fr', size, n - 1, e)
    BY <1>1, <2>4
  <2>6. QED
    BY <1>1, <1>2, <1>4, <1>5, <1>6, <2>1, <2>4, <2>5 DEF AvailabilityInv, e
<1>9. QED
  BY <1>7, <1>8

(* A claim comes back NULL only when there was no room.                    *)
LEMMA RefusedKeepsAnswer == AvailabilityInv /\ Refused => AvailabilityInv'
<1> SUFFICES ASSUME AvailabilityInv, Refused PROVE AvailabilityInv'
  OBVIOUS
<1> DEFINE fr == freeMemoryRegions
           e == scaleExtraSize(size)
           n == Len(claims) - 1
<1>1. /\ fr \in Seq(Region) /\ size \in Nat \ {0} /\ claims \in Seq(Nat)
      /\ claims # <<>> /\ granted = TRUE
      /\ \A i \in 1 .. n : claims[i] = size
      /\ claims[Len(claims)] = e
      /\ available \in BOOLEAN
      /\ available <=> Room(fr, size, n, e)
      /\ Head(claims) # 0 /\ OutOfMemory(fr, Head(claims))
  BY DEF AvailabilityInv, Refused
<1>2. /\ claims' = claims /\ size' = size /\ available' = available
      /\ granted' = FALSE /\ fr' = fr
  BY DEF Refused
<1>3. e \in Nat /\ e <= size
  BY <1>1, AnswerIsRoom
<1>4. Len(claims) \in Nat /\ n \in Nat /\ Head(claims) = claims[1]
  <2>1. Len(claims) \in Nat /\ Len(claims) # 0
    BY <1>1, EmptySeq, LenProperties
  <2>2. QED
    BY <1>1, <2>1, HeadTailProperties
<1>5. ~ available
  <2>1. CASE n = 0
    <3>1. Head(claims) = e
      <4>1. Len(claims) = 1
        BY <1>4, <2>1
      <4>2. QED
        BY <1>1, <1>4, <4>1
    <3>2. QED
      BY <1>1, <1>3, <2>1, <3>1, RoomForExtra
  <2>2. CASE n # 0
    <3>1. Head(claims) = size
      <4>1. n \in Nat
        BY <1>4
      <4>2. 1 \in 1 .. n
        <5> HIDE DEF n
        <5>1. QED
          BY <2>2, <4>1
      <4>3. QED
        BY <1>1, <1>4, <4>2
    <3>2. \A i \in 1 .. Len(fr) : fr[i].sizeInBlocks < size
      BY <1>1, <3>1, RegionEntries DEF OutOfMemory
    <3>3. Count(fr, size) = 0
      BY <1>1, <3>2, CountNone
    <3>4. QED
      BY <1>1, <1>4, <2>2, <3>3 DEF Room
  <2>3. QED
    BY <2>1, <2>2
<1>6. QED
  BY <1>1, <1>2, <1>5 DEF AvailabilityInv, scaleExtraSize

(* The invariant holds in every state.                                     *)
LEMMA AnswerStaysRight == Spec => []AvailabilityInv
<1>1. Init => AvailabilityInv
  BY InitAnswered
<1>2. AvailabilityInv /\ UNCHANGED vars => AvailabilityInv'
  BY DEF AvailabilityInv, vars, scaleExtraSize, Room, Count, HasRest
<1>3. AvailabilityInv /\ [Next]_vars => AvailabilityInv'
  BY <1>2, GrantedKeepsAnswer, RefusedKeepsAnswer DEF Next
<1>4. QED
  BY <1>1, <1>3, PTL DEF Spec

---------------------------------------------------------------------------
(***************************************************************************)
(* Once isMemoryBlockAvailable said yes, none of the claims it was asked   *)
(* about comes back NULL: for any free list, any block size, any number of *)
(* blocks and any fraction.                                                *)
(***************************************************************************)
THEOREM YesIsAlwaysKept == Spec => []YesIsKept
<1>1. AvailabilityInv => YesIsKept
  BY DEF AvailabilityInv, YesIsKept
<1>2. QED
  BY <1>1, AnswerStaysRight, PTL

(***************************************************************************)
(* When all the claims could be met, isMemoryBlockAvailable did not say    *)
(* no: the test refuses nothing the allocator would have granted.          *)
(***************************************************************************)
THEOREM NoIsAlwaysJustified == Spec => []NoIsJustified
<1>1. AvailabilityInv => NoIsJustified
  BY DEF AvailabilityInv, NoIsJustified
<1>2. QED
  BY <1>1, AnswerStaysRight, PTL
=============================================================================
