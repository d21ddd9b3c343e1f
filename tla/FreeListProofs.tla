--------------------------- MODULE FreeListProofs ---------------------------
(***************************************************************************)
(* What the operations of the free list preserve, for lists of any length, *)
(* and what they add to or take off the free memory shown.                 *)
(***************************************************************************)
EXTENDS FreeList, SequenceTheorems, WellFoundedInduction, TLAPS

(* The n blocks from p on meet no region of fr.                            *)
Apart(fr, p, n) ==
  \A i \in DOMAIN fr : p + n <= fr[i].blockAddress \/ End(fr[i]) <= p

(* Block b is free.                                                        *)
InFree(b, fr) ==
  \E i \in DOMAIN fr : fr[i].blockAddress <= b /\ b < End(fr[i])

---------------------------------------------------------------------------
(* Every non-empty set of natural numbers has a least element; the scans   *)
(* of the free list stop at the first entry that qualifies.                *)
LEMMA LeastNatural ==
  ASSUME NEW T \in SUBSET Nat, T # {}
  PROVE  \E x \in T : \A y \in T : x <= y
<1>1. PICK x \in T : \A y \in T : ~ (<<y, x>> \in OpToRel(<, Nat))
  BY NatLessThanWellFounded, WFMin, Zenon
<1>2. \A y \in T : ~ (y < x)
  BY <1>1 DEF OpToRel
<1>3. QED
  BY <1>2

(* Closing the gap of entry i (the xcopy that shifts the table down).      *)
LEMMA RemoveAtProperties ==
  ASSUME NEW S, NEW s \in Seq(S), NEW i \in 1 .. Len(s)
  PROVE  /\ RemoveAt(s, i) \in Seq(S)
         /\ Len(RemoveAt(s, i)) = Len(s) - 1
         /\ \A j \in 1 .. Len(s) - 1 :
              RemoveAt(s, i)[j] = IF j < i THEN s[j] ELSE s[j + 1]
<1> DEFINE l == SubSeq(s, 1, i - 1)
           r == SubSeq(s, i + 1, Len(s))
           c == l \o r
<1>1. Len(s) \in Nat /\ \A j \in 1 .. Len(s) : s[j] \in S
  BY LenProperties
<1>2. l \in Seq(S) /\ Len(l) = i - 1 /\ \A j \in 1 .. i - 1 : l[j] = s[j]
  <2>1. \A j \in 1 .. i - 1 : s[j] \in S
    BY <1>1
  <2>2. QED
    BY <1>1, <2>1, SubSeqProperties
<1>3. /\ r \in Seq(S) /\ Len(r) = Len(s) - i
      /\ \A j \in 1 .. Len(s) - i : r[j] = s[i + j]
  <2>1. \A j \in i + 1 .. Len(s) : s[j] \in S
    BY <1>1
  <2>2. QED
    BY <1>1, <2>1, SubSeqProperties
<1>4. RemoveAt(s, i) = c
  BY DEF RemoveAt
<1> HIDE DEF l, r
<1>5. /\ c \in Seq(S) /\ Len(c) = Len(l) + Len(r)
      /\ \A j \in 1 .. Len(l) + Len(r) :
           c[j] = IF j <= Len(l) THEN l[j] ELSE r[j - Len(l)]
  BY <1>2, <1>3, ConcatProperties, Zenon
<1> HIDE DEF c
<1>6. ASSUME NEW j \in 1 .. Len(s) - 1
      PROVE  c[j] = IF j < i THEN s[j] ELSE s[j + 1]
  <2>1. CASE j < i
    BY <1>1, <1>2, <1>3, <1>5, <2>1
  <2>2. CASE ~ (j < i)
    <3>1. c[j] = r[j - (i - 1)]
      BY <1>1, <1>2, <1>3, <1>5, <2>2
    <3>2. r[j - (i - 1)] = s[i + (j - (i - 1))]
      BY <1>1, <1>3, <2>2
    <3>3. QED
      BY <1>1, <2>2, <3>1, <3>2
  <2>3. QED
    BY <2>1, <2>2
<1>7. QED
  BY <1>1, <1>2, <1>3, <1>4, <1>5, <1>6

(* Opening a gap at entry i (the xcopy that shifts the table up).          *)
LEMMA InsertAtProperties ==
  ASSUME NEW S, NEW s \in Seq(S), NEW i \in 1 .. Len(s) + 1, NEW e \in S
  PROVE  /\ InsertAt(s, i, e) \in Seq(S)
         /\ Len(InsertAt(s, i, e)) = Len(s) + 1
         /\ \A j \in 1 .. i - 1 : InsertAt(s, i, e)[j] = s[j]
         /\ InsertAt(s, i, e)[i] = e
         /\ \A j \in i + 1 .. Len(s) + 1 : InsertAt(s, i, e)[j] = s[j - 1]
<1> DEFINE l == SubSeq(s, 1, i - 1)
           m == <<e>>
           r == SubSeq(s, i, Len(s))
           c == l \o m
           d == c \o r
<1>1. Len(s) \in Nat /\ \A j \in 1 .. Len(s) : s[j] \in S
  BY LenProperties
<1>2. l \in Seq(S) /\ Len(l) = i - 1 /\ \A j \in 1 .. i - 1 : l[j] = s[j]
  <2>1. \A j \in 1 .. i - 1 : s[j] \in S
    BY <1>1
  <2>2. QED
    BY <1>1, <2>1, SubSeqProperties
<1>3. /\ r \in Seq(S) /\ Len(r) = Len(s) - i + 1
      /\ \A j \in 1 .. Len(s) - i + 1 : r[j] = s[i + j - 1]
  <2>1. \A j \in i .. Len(s) : s[j] \in S
    BY <1>1
  <2>2. QED
    BY <1>1, <2>1, SubSeqProperties
<1>4. m \in Seq(S) /\ Len(m) = 1 /\ m[1] = e
  OBVIOUS
<1>5. InsertAt(s, i, e) = d
  BY DEF InsertAt
<1> HIDE DEF l, m, r
<1>6. /\ c \in Seq(S) /\ Len(c) = Len(l) + Len(m)
      /\ \A j \in 1 .. Len(l) + Len(m) :
           c[j] = IF j <= Len(l) THEN l[j] ELSE m[j - Len(l)]
  BY <1>2, <1>4, ConcatProperties, Zenon
<1> HIDE DEF c
<1>7. /\ d \in Seq(S) /\ Len(d) = Len(c) + Len(r)
      /\ \A j \in 1 .. Len(c) + Len(r) :
           d[j] = IF j <= Len(c) THEN c[j] ELSE r[j - Len(c)]
  <2>1. c \in Seq(S) /\ r \in Seq(S)
    BY <1>3, <1>6
  <2>2. QED
    BY <2>1, ConcatProperties, Zenon
<1> HIDE DEF d
<1>8. \A j \in 1 .. i : c[j] = IF j < i THEN s[j] ELSE e
  BY <1>1, <1>2, <1>4, <1>6
<1>9. ASSUME NEW j \in 1 .. Len(s) + 1
      PROVE  d[j] = IF j < i THEN s[j] ELSE IF j = i THEN e ELSE s[j - 1]
  <2>1. Len(c) = i
    BY <1>1, <1>2, <1>4, <1>6
  <2>2. CASE j <= i
    BY <1>1, <1>3, <1>7, <1>8, <2>1, <2>2
  <2>3. CASE ~ (j <= i)
    <3>1. d[j] = r[j - i]
      BY <1>1, <1>3, <1>7, <2>1, <2>3
    <3>2. r[j - i] = s[i + (j - i) - 1]
      BY <1>1, <1>3, <2>3
    <3>3. QED
      BY <1>1, <2>3, <3>1, <3>2
  <2>4. QED
    BY <2>2, <2>3
<1>10. Len(d) = Len(s) + 1
  BY <1>1, <1>2, <1>3, <1>4, <1>6, <1>7
<1>11. QED
  BY <1>1, <1>5, <1>7, <1>9, <1>10

---------------------------------------------------------------------------
(* The entries of a list of regions are numbers.                           *)
LEMMA RegionEntries ==
  ASSUME NEW fr \in Seq(Region)
  PROVE  /\ Len(fr) \in Nat /\ DOMAIN fr = 1 .. Len(fr)
         /\ \A i \in 1 .. Len(fr) :
              /\ fr[i].blockAddress \in Nat /\ fr[i].sizeInBlocks \in Nat
              /\ End(fr[i]) \in Nat /\ fr[i].blockAddress <= End(fr[i])
<1>1. Len(fr) \in Nat /\ DOMAIN fr = 1 .. Len(fr)
  BY LenProperties
<1>2. \A i \in 1 .. Len(fr) : fr[i] \in Region
  BY <1>1, ElementOfSeq
<1>3. QED
  BY <1>1, <1>2 DEF Region, End

(* Replacing one entry by a region.                                        *)
LEMMA ReplaceEntry ==
  ASSUME NEW fr \in Seq(Region), NEW k \in 1 .. Len(fr),
         NEW a \in Nat, NEW n \in Nat
  PROVE  LET g == [fr EXCEPT ![k] = [blockAddress |-> a, sizeInBlocks |-> n]]
         IN  /\ g \in Seq(Region) /\ Len(g) = Len(fr)
             /\ \A i \in 1 .. Len(fr) :
                  g[i] = IF i = k THEN [blockAddress |-> a, sizeInBlocks |-> n]
                                  ELSE fr[i]
<1> DEFINE r == [blockAddress |-> a, sizeInBlocks |-> n]
<1>1. r \in Region
  BY DEF Region
<1> HIDE DEF r
<1>2. /\ [fr EXCEPT ![k] = r] \in Seq(Region)
      /\ Len([fr EXCEPT ![k] = r]) = Len(fr)
      /\ \A i \in 1 .. Len(fr) :
           [fr EXCEPT ![k] = r][i] = IF i = k THEN r ELSE fr[i]
  BY <1>1, ExceptSeq
<1>3. QED
  BY <1>2 DEF r

(* The scan of insertFreeBlock finds its slot in any list.                 *)
LEMMA InsertionPointExists ==
  ASSUME NEW fr \in Seq(Region), NEW p \in Nat
  PROVE  \E i \in 1 .. Len(fr) + 1 : IsInsertionPoint(fr, p, i)
<1> DEFINE T == {i \in 1 .. Len(fr) + 1 :
                   i = Len(fr) + 1 \/ fr[i].blockAddress >= p}
<1>1. Len(fr) \in Nat /\ \A i \in 1 .. Len(fr) : fr[i].blockAddress \in Nat
  BY RegionEntries
<1>2. T \in SUBSET Nat /\ T # {}
  <2>1. Len(fr) + 1 \in T
    BY <1>1
  <2>2. QED
    BY <1>1, <2>1
<1> HIDE DEF T
<1>3. PICK x \in T : \A y \in T : x <= y
  BY <1>2, LeastNatural
<1>4. IsInsertionPoint(fr, p, x)
  BY <1>1, <1>3 DEF T, IsInsertionPoint
<1>5. QED
  BY <1>3, <1>4 DEF T

(* insertFreeBlock puts the released blocks at their slot.                 *)
LEMMA InsertFreeBlockProperties ==
  ASSUME NEW fr \in Seq(Region), NEW p \in Nat, NEW n \in Nat
  PROVE  \E i \in 1 .. Len(fr) + 1 :
           /\ IsInsertionPoint(fr, p, i)
           /\ insertFreeBlock(fr, p, n) \in Seq(Region)
           /\ Len(insertFreeBlock(fr, p, n)) = Len(fr) + 1
           /\ \A j \in 1 .. i - 1 : insertFreeBlock(fr, p, n)[j] = fr[j]
           /\ insertFreeBlock(fr, p, n)[i] =
                [blockAddress |-> p, sizeInBlocks |-> n]
           /\ \A j \in i + 1 .. Len(fr) + 1 :
                insertFreeBlock(fr, p, n)[j] = fr[j - 1]
<1> DEFINE slot == CHOOSE x \in 1 .. Len(fr) + 1 : IsInsertionPoint(fr, p, x)
<1>1. slot \in 1 .. Len(fr) + 1 /\ IsInsertionPoint(fr, p, slot)
  BY InsertionPointExists
<1>2. PICK i \in 1 .. Len(fr) + 1 : i = slot
  BY <1>1
<1>3. PICK r \in Region : r = [blockAddress |-> p, sizeInBlocks |-> n]
  BY DEF Region
<1>4. insertFreeBlock(fr, p, n) = InsertAt(fr, i, r)
  BY <1>2, <1>3 DEF insertFreeBlock
<1>5. /\ InsertAt(fr, i, r) \in Seq(Region)
      /\ Len(InsertAt(fr, i, r)) = Len(fr) + 1
      /\ InsertAt(fr, i, r)[i] = r
  BY InsertAtProperties
<1>6. \A j \in 1 .. i - 1 : InsertAt(fr, i, r)[j] = fr[j]
  BY InsertAtProperties
<1>7. \A j \in i + 1 .. Len(fr) + 1 : InsertAt(fr, i, r)[j] = fr[j - 1]
  BY InsertAtProperties
<1>8. IsInsertionPoint(fr, p, i)
  BY <1>1, <1>2
<1>9. QED
  BY <1>3, <1>4, <1>5, <1>6, <1>7, <1>8

---------------------------------------------------------------------------
(* Taking n blocks from region k keeps a list of regions sorted and apart, *)
(* leaves no free block among the n, loses no other, and puts no region    *)
(* where there was none.                                                   *)
LEMMA CarveProperties ==
  ASSUME NEW fr \in Seq(Region), NEW k \in 1 .. Len(fr), NEW n \in Nat \ {0},
         n <= fr[k].sizeInBlocks
  PROVE  LET g == Carve(fr, n, k)
             p == fr[k].blockAddress
         IN  /\ g \in Seq(Region)
             /\ Len(g) <= Len(fr)
             /\ SortedApart(fr) => SortedApart(g) /\ Apart(g, p, n)
             /\ \A i \in DOMAIN g : \E j \in DOMAIN fr :
                  fr[j].blockAddress <= g[i].blockAddress /\ End(g[i]) <= End(fr[j])
             /\ \A b \in Int : InFree(b, fr) =>
                  InFree(b, g) \/ (p <= b /\ b < p + n)
<1> DEFINE g == Carve(fr, n, k)
           p == fr[k].blockAddress
<1>1. /\ Len(fr) \in Nat /\ DOMAIN fr = 1 .. Len(fr)
      /\ \A i \in 1 .. Len(fr) :
           /\ fr[i].blockAddress \in Nat /\ fr[i].sizeInBlocks \in Nat
           /\ End(fr[i]) \in Nat /\ fr[i].blockAddress <= End(fr[i])
           /\ End(fr[i]) = fr[i].blockAddress + fr[i].sizeInBlocks
  BY RegionEntries DEF End
<1>2. CASE fr[k].sizeInBlocks = n
  <2>1. g = RemoveAt(fr, k)
    BY <1>2 DEF Carve
  <2>2. g \in Seq(Region) /\ Len(g) = Len(fr) - 1
    BY <2>1, RemoveAtProperties
  <2>3. \A j \in 1 .. Len(fr) - 1 : g[j] = IF j < k THEN fr[j] ELSE fr[j + 1]
    BY <2>1, RemoveAtProperties
  <2>4. DOMAIN g = 1 .. Len(fr) - 1
    BY <2>2, LenProperties
  <2> HIDE DEF g
  <2> DEFINE src(i) == IF i < k THEN i ELSE i + 1
  <2>10. \A i \in DOMAIN g :
           src(i) \in 1 .. Len(fr) /\ src(i) # k /\ g[i] = fr[src(i)]
    BY <1>1, <2>3, <2>4
  <2>11. \A i, j \in DOMAIN g : i < j => src(i) < src(j)
    BY <1>1, <2>4
  <2> HIDE DEF src
  <2>5. ASSUME SortedApart(fr)
        PROVE  SortedApart(g) /\ Apart(g, p, n)
    <3>1. SortedApart(g)
      <4> SUFFICES ASSUME NEW i \in DOMAIN g, NEW j \in DOMAIN g, i < j
                   PROVE  End(g[i]) < g[j].blockAddress
        BY DEF SortedApart
      <4>1. src(i) < src(j)
        BY <2>11
      <4>2. End(fr[src(i)]) < fr[src(j)].blockAddress
        BY <1>1, <2>5, <2>10, <4>1 DEF SortedApart
      <4>3. QED
        BY <2>10, <4>2
    <3>2. Apart(g, p, n)
      <4> SUFFICES ASSUME NEW i \in DOMAIN g
                   PROVE  p + n <= g[i].blockAddress \/ End(g[i]) <= p
        BY DEF Apart
      <4>1. \/ End(fr[k]) < fr[src(i)].blockAddress
            \/ End(fr[src(i)]) < fr[k].blockAddress
        BY <1>1, <2>5, <2>10 DEF SortedApart
      <4>2. QED
        BY <1>1, <1>2, <2>10, <4>1
    <3>3. QED
      BY <3>1, <3>2
  <2>6. ASSUME NEW i \in DOMAIN g
        PROVE  \E j \in DOMAIN fr :
          fr[j].blockAddress <= g[i].blockAddress /\ End(g[i]) <= End(fr[j])
    <3>1. /\ src(i) \in DOMAIN fr
          /\ fr[src(i)].blockAddress <= g[i].blockAddress
          /\ End(g[i]) <= End(fr[src(i)])
      BY <1>1, <2>10
    <3>2. QED
      BY <3>1
  <2>7. ASSUME NEW b \in Int, InFree(b, fr)
        PROVE  InFree(b, g) \/ (p <= b /\ b < p + n)
    <3>1. PICK i \in 1 .. Len(fr) : fr[i].blockAddress <= b /\ b < End(fr[i])
      BY <1>1, <2>7 DEF InFree
    <3>2. CASE i < k
      <4>1. i \in DOMAIN g /\ g[i] = fr[i]
        BY <1>1, <2>3, <2>4, <3>2
      <4>2. QED
        BY <3>1, <4>1 DEF InFree
    <3>3. CASE i = k
      BY <1>1, <1>2, <3>1, <3>3
    <3>4. CASE i > k
      <4>1. i - 1 \in DOMAIN g /\ g[i - 1] = fr[i]
        BY <1>1, <2>3, <2>4, <3>4
      <4>2. QED
        BY <3>1, <4>1 DEF InFree
    <3>5. QED
      BY <1>1, <3>2, <3>3, <3>4
  <2>8. Len(g) <= Len(fr)
    BY <1>1, <2>2
  <2>9. QED
    BY <2>2, <2>5, <2>6, <2>7, <2>8 DEF g
<1>3. CASE fr[k].sizeInBlocks # n
  <2> DEFINE a == p + n
             m == fr[k].sizeInBlocks - n
             r == [blockAddress |-> a, sizeInBlocks |-> m]
  <2>1. g = [fr EXCEPT ![k] = r]
    BY <1>3 DEF Carve
  <2>2. a \in Nat /\ m \in Nat
    BY <1>1
  <2>3. /\ g \in Seq(Region) /\ Len(g) = Len(fr)
        /\ \A i \in 1 .. Len(fr) : g[i] = IF i = k THEN r ELSE fr[i]
    BY <2>1, <2>2, ReplaceEntry
  <2>4. DOMAIN g = 1 .. Len(fr)
    BY <2>3, LenProperties
  <2>5. /\ g[k].blockAddress = p + n
        /\ End(g[k]) = End(fr[k])
        /\ \A i \in 1 .. Len(fr) : i # k => g[i] = fr[i]
    BY <1>1, <2>3 DEF End
  <2> HIDE DEF g, a, m, r
  <2>6. ASSUME SortedApart(fr)
        PROVE  SortedApart(g) /\ Apart(g, p, n)
    <3>1. SortedApart(g)
      <4> SUFFICES ASSUME NEW i \in DOMAIN g, NEW j \in DOMAIN g, i < j
                   PROVE  End(g[i]) < g[j].blockAddress
        BY DEF SortedApart
      <4>1. End(fr[i]) < fr[j].blockAddress
        BY <1>1, <2>4, <2>6 DEF SortedApart
      <4>2. End(g[i]) = End(fr[i]) /\ fr[j].blockAddress <= g[j].blockAddress
        BY <1>1, <2>4, <2>5
      <4>3. g[j].blockAddress \in Nat
        BY <1>1, <2>4, <2>5
      <4>4. QED
        BY <1>1, <2>4, <4>1, <4>2, <4>3
    <3>2. Apart(g, p, n)
      <4> SUFFICES ASSUME NEW i \in DOMAIN g
                   PROVE  p + n <= g[i].blockAddress \/ End(g[i]) <= p
        BY DEF Apart
      <4>1. CASE i = k
        BY <1>1, <2>5, <4>1
      <4>2. CASE i # k
        <5>1. \/ End(fr[k]) < fr[i].blockAddress
              \/ End(fr[i]) < fr[k].blockAddress
          BY <1>1, <2>4, <2>6, <4>2 DEF SortedApart
        <5>2. QED
          BY <1>1, <2>4, <2>5, <4>2, <5>1
      <4>3. QED
        BY <4>1, <4>2
    <3>3. QED
      BY <3>1, <3>2
  <2>7. ASSUME NEW i \in DOMAIN g
        PROVE  \E j \in DOMAIN fr :
          fr[j].blockAddress <= g[i].blockAddress /\ End(g[i]) <= End(fr[j])
    <3>1. /\ i \in DOMAIN fr
          /\ fr[i].blockAddress <= g[i].blockAddress
          /\ End(g[i]) <= End(fr[i])
      BY <1>1, <2>4, <2>5
    <3>2. QED
      BY <3>1
  <2>8. ASSUME NEW b \in Int, InFree(b, fr)
        PROVE  InFree(b, g) \/ (p <= b /\ b < p + n)
    <3>1. PICK i \in 1 .. Len(fr) : fr[i].blockAddress <= b /\ b < End(fr[i])
      BY <1>1, <2>8 DEF InFree
    <3>2. CASE i = k /\ b < p + n
      BY <3>1, <3>2
    <3>3. CASE i # k \/ ~ (b < p + n)
      <4>1. i \in DOMAIN g /\ g[i].blockAddress <= b /\ b < End(g[i])
        BY <1>1, <2>4, <2>5, <3>1, <3>3
      <4>2. QED
        BY <4>1 DEF InFree
    <3>4. QED
      BY <3>2, <3>3
  <2>9. QED
    BY <1>1, <2>3, <2>6, <2>7, <2>8 DEF g
<1>4. QED
  BY <1>2, <1>3

---------------------------------------------------------------------------
(***************************************************************************)
(* What a release of p .. p+n-1 makes of a list: g holds the regions of fr *)
(* and the released blocks, joined with their neighbours.                  *)
(***************************************************************************)
Joined(r, fr, p, n) ==
  /\ \/ r.blockAddress = p
     \/ \E x \in DOMAIN fr : End(fr[x]) = p /\ r.blockAddress = fr[x].blockAddress
  /\ \/ End(r) = p + n
     \/ \E y \in DOMAIN fr : fr[y].blockAddress = p + n /\ End(r) = End(fr[y])

Released(g, fr, p, n) ==
  /\ g \in Seq(Region)
  /\ Len(g) <= Len(fr) + 1
  /\ ~ NeedsEntry(fr, p, n) => Len(g) <= Len(fr)
  /\ SortedApart(g)
  /\ \A i \in DOMAIN g : (\E j \in DOMAIN fr : g[i] = fr[j])
                         \/ Joined(g[i], fr, p, n)
  /\ \A b \in Int : InFree(b, fr) \/ (p <= b /\ b < p + n) => InFree(b, g)

(* The numbers of a list, with the definition of End unfolded.             *)
LEMMA RegionNumbers ==
  ASSUME NEW fr \in Seq(Region)
  PROVE  /\ Len(fr) \in Nat /\ DOMAIN fr = 1 .. Len(fr)
         /\ \A i \in 1 .. Len(fr) :
              /\ fr[i].blockAddress \in Nat /\ fr[i].sizeInBlocks \in Nat
              /\ End(fr[i]) \in Nat /\ fr[i].blockAddress <= End(fr[i])
              /\ End(fr[i]) = fr[i].blockAddress + fr[i].sizeInBlocks
BY RegionEntries DEF End

(* The released blocks join the region behind them only.                   *)
LEMMA ReleaseGrowsDown ==
  ASSUME NEW fr \in Seq(Region), NEW p \in Nat, NEW n \in Nat \ {0},
         SortedApart(fr), Apart(fr, p, n),
         NEW j \in 1 .. Len(fr), fr[j].blockAddress = p + n,
         EndingAt(fr, p) = {}
  PROVE  Released(GrowDown(fr, j, n), fr, p, n)
<1> DEFINE g == GrowDown(fr, j, n)
           m == fr[j].sizeInBlocks + n
           r == [blockAddress |-> p, sizeInBlocks |-> m]
<1>1. /\ Len(fr) \in Nat /\ DOMAIN fr = 1 .. Len(fr)
      /\ \A i \in 1 .. Len(fr) :
           /\ fr[i].blockAddress \in Nat /\ fr[i].sizeInBlocks \in Nat
           /\ End(fr[i]) \in Nat /\ fr[i].blockAddress <= End(fr[i])
           /\ End(fr[i]) = fr[i].blockAddress + fr[i].sizeInBlocks
  BY RegionNumbers
<1>2. m \in Nat /\ fr[j].blockAddress - n = p
  BY <1>1
<1>3. g = [fr EXCEPT ![j] = r]
  BY <1>2 DEF GrowDown
<1>4. /\ g \in Seq(Region) /\ Len(g) = Len(fr)
      /\ \A i \in 1 .. Len(fr) : g[i] = IF i = j THEN r ELSE fr[i]
  BY <1>2, <1>3, ReplaceEntry
<1>5. DOMAIN g = 1 .. Len(fr)
  BY <1>4, LenProperties
<1>6. /\ g[j].blockAddress = p /\ End(g[j]) = End(fr[j])
      /\ \A i \in 1 .. Len(fr) : i # j => g[i] = fr[i]
  BY <1>1, <1>4 DEF End
<1> HIDE DEF g, m, r
<1>7. ASSUME NEW x \in 1 .. Len(fr), x < j
      PROVE  End(fr[x]) < p
  <2>1. End(fr[x]) < p + n
    BY <1>1, <1>7 DEF SortedApart
  <2>2. p + n <= fr[x].blockAddress \/ End(fr[x]) <= p
    BY <1>1 DEF Apart
  <2>3. End(fr[x]) # p
    BY <1>1 DEF EndingAt
  <2>4. /\ fr[x].blockAddress \in Nat /\ End(fr[x]) \in Nat
        /\ fr[x].blockAddress <= End(fr[x])
    BY <1>1
  <2>5. QED
    BY <2>1, <2>2, <2>3, <2>4
<1>8. SortedApart(g)
  <2> SUFFICES ASSUME NEW x \in DOMAIN g, NEW y \in DOMAIN g, x < y
               PROVE  End(g[x]) < g[y].blockAddress
    BY DEF SortedApart
  <2>1. End(fr[x]) < fr[y].blockAddress
    BY <1>1, <1>5 DEF SortedApart
  <2>2. CASE y = j
    BY <1>5, <1>6, <1>7, <2>2
  <2>3. CASE y # j
    BY <1>5, <1>6, <2>1, <2>3
  <2>4. QED
    BY <2>2, <2>3
<1>9. ASSUME NEW i \in DOMAIN g
      PROVE  (\E x \in DOMAIN fr : g[i] = fr[x]) \/ Joined(g[i], fr, p, n)
  <2>1. CASE i = j
    BY <1>1, <1>6, <2>1 DEF Joined
  <2>2. CASE i # j
    BY <1>1, <1>5, <1>6, <2>2
  <2>3. QED
    BY <2>1, <2>2
<1>10. ASSUME NEW b \in Int, InFree(b, fr) \/ (p <= b /\ b < p + n)
       PROVE  InFree(b, g)
  <2>1. CASE p <= b /\ b < p + n
    <3>1. j \in DOMAIN g /\ g[j].blockAddress <= b /\ b < End(g[j])
      BY <1>1, <1>5, <1>6, <2>1
    <3>2. QED
      BY <3>1 DEF InFree
  <2>2. CASE InFree(b, fr)
    <3>1. PICK x \in 1 .. Len(fr) : fr[x].blockAddress <= b /\ b < End(fr[x])
      BY <1>1, <2>2 DEF InFree
    <3>2. x \in DOMAIN g /\ g[x].blockAddress <= b /\ b < End(g[x])
      BY <1>1, <1>5, <1>6, <3>1
    <3>3. QED
      BY <3>2 DEF InFree
  <2>3. QED
    BY <1>10, <2>1, <2>2
<1>11. QED
  BY <1>1, <1>4, <1>8, <1>9, <1>10 DEF Released, g

(* The released blocks join the region in front of them only.              *)
LEMMA ReleaseGrowsUp ==
  ASSUME NEW fr \in Seq(Region), NEW p \in Nat, NEW n \in Nat \ {0},
         SortedApart(fr), Apart(fr, p, n),
         NEW j \in 1 .. Len(fr), End(fr[j]) = p,
         StartingAt(fr, p + n) = {}
  PROVE  Released(GrowUp(fr, j, n), fr, p, n)
<1> DEFINE g == GrowUp(fr, j, n)
           a == fr[j].blockAddress
           m == fr[j].sizeInBlocks + n
           r == [blockAddress |-> a, sizeInBlocks |-> m]
<1>1. /\ Len(fr) \in Nat /\ DOMAIN fr = 1 .. Len(fr)
      /\ \A i \in 1 .. Len(fr) :
           /\ fr[i].blockAddress \in Nat /\ fr[i].sizeInBlocks \in Nat
           /\ End(fr[i]) \in Nat /\ fr[i].blockAddress <= End(fr[i])
           /\ End(fr[i]) = fr[i].blockAddress + fr[i].sizeInBlocks
  BY RegionNumbers
<1>2. m \in Nat /\ a \in Nat
  BY <1>1
<1>3. g = [fr EXCEPT ![j] = r]
  BY DEF GrowUp
<1>4. /\ g \in Seq(Region) /\ Len(g) = Len(fr)
      /\ \A i \in 1 .. Len(fr) : g[i] = IF i = j THEN r ELSE fr[i]
  BY <1>2, <1>3, ReplaceEntry
<1>5. DOMAIN g = 1 .. Len(fr)
  BY <1>4, LenProperties
<1>6. /\ g[j].blockAddress = fr[j].blockAddress /\ End(g[j]) = p + n
      /\ \A i \in 1 .. Len(fr) : i # j => g[i] = fr[i]
  <2>1. g[j] = r /\ \A i \in 1 .. Len(fr) : i # j => g[i] = fr[i]
    BY <1>4
  <2>2. fr[j].blockAddress + (fr[j].sizeInBlocks + n) = p + n
    BY <1>1
  <2>3. r.blockAddress = fr[j].blockAddress /\ End(r) = p + n
    BY <2>2 DEF End
  <2>4. QED
    BY <2>1, <2>3
<1> HIDE DEF g, a, m, r
<1>7. ASSUME NEW y \in 1 .. Len(fr), j < y
      PROVE  p + n < fr[y].blockAddress
  <2>1. p < fr[y].blockAddress
    BY <1>1, <1>7 DEF SortedApart
  <2>2. p + n <= fr[y].blockAddress \/ End(fr[y]) <= p
    BY <1>1 DEF Apart
  <2>3. p + n # fr[y].blockAddress
    BY <1>1 DEF StartingAt
  <2>4. /\ fr[y].blockAddress \in Nat /\ End(fr[y]) \in Nat
        /\ fr[y].blockAddress <= End(fr[y])
    BY <1>1
  <2>5. QED
    BY <2>1, <2>2, <2>3, <2>4
<1>8. SortedApart(g)
  <2> SUFFICES ASSUME NEW x \in DOMAIN g, NEW y \in DOMAIN g, x < y
               PROVE  End(g[x]) < g[y].blockAddress
    BY DEF SortedApart
  <2>1. End(fr[x]) < fr[y].blockAddress
    BY <1>1, <1>5 DEF SortedApart
  <2>2. CASE x = j
    BY <1>5, <1>6, <1>7, <2>2
  <2>3. CASE x # j
    BY <1>5, <1>6, <2>1, <2>3
  <2>4. QED
    BY <2>2, <2>3
<1>9. ASSUME NEW i \in DOMAIN g
      PROVE  (\E x \in DOMAIN fr : g[i] = fr[x]) \/ Joined(g[i], fr, p, n)
  <2>1. CASE i = j
    BY <1>1, <1>6, <2>1 DEF Joined
  <2>2. CASE i # j
    BY <1>1, <1>5, <1>6, <2>2
  <2>3. QED
    BY <2>1, <2>2
<1>10. ASSUME NEW b \in Int, InFree(b, fr) \/ (p <= b /\ b < p + n)
       PROVE  InFree(b, g)
  <2>1. CASE p <= b /\ b < p + n
    <3>1. j \in DOMAIN g /\ g[j].blockAddress <= b /\ b < End(g[j])
      BY <1>1, <1>5, <1>6, <2>1
    <3>2. QED
      BY <3>1 DEF InFree
  <2>2. CASE InFree(b, fr)
    <3>1. PICK x \in 1 .. Len(fr) : fr[x].blockAddress <= b /\ b < End(fr[x])
      BY <1>1, <2>2 DEF InFree
    <3>2. x \in DOMAIN g /\ g[x].blockAddress <= b /\ b < End(g[x])
      BY <1>1, <1>5, <1>6, <3>1
    <3>3. QED
      BY <3>2 DEF InFree
  <2>3. QED
    BY <1>10, <2>1, <2>2
<1>11. QED
  BY <1>1, <1>4, <1>8, <1>9, <1>10 DEF Released, g

(* The released blocks close the gap between two regions.                  *)
LEMMA ReleaseJoins ==
  ASSUME NEW fr \in Seq(Region), NEW p \in Nat, NEW n \in Nat \ {0},
         SortedApart(fr), Apart(fr, p, n),
         NEW i \in 1 .. Len(fr), End(fr[i]) = p,
         NEW j \in 1 .. Len(fr), fr[j].blockAddress = p + n
  PROVE  Released(RemoveAt(GrowUp(fr, i, n + fr[j].sizeInBlocks), j), fr, p, n)
<1> DEFINE d == n + fr[j].sizeInBlocks
           h == GrowUp(fr, i, d)
           g == RemoveAt(h, j)
           a == fr[i].blockAddress
           m == fr[i].sizeInBlocks + d
           r == [blockAddress |-> a, sizeInBlocks |-> m]
           src(x) == IF x < j THEN x ELSE x + 1
<1>1. /\ Len(fr) \in Nat /\ DOMAIN fr = 1 .. Len(fr)
      /\ \A x \in 1 .. Len(fr) :
           /\ fr[x].blockAddress \in Nat /\ fr[x].sizeInBlocks \in Nat
           /\ End(fr[x]) \in Nat /\ fr[x].blockAddress <= End(fr[x])
           /\ End(fr[x]) = fr[x].blockAddress + fr[x].sizeInBlocks
  BY RegionNumbers
<1>2. m \in Nat /\ a \in Nat
  BY <1>1, SMTT(30)
<1>3. h = [fr EXCEPT ![i] = r]
  BY DEF GrowUp
<1>4. /\ h \in Seq(Region) /\ Len(h) = Len(fr)
      /\ \A x \in 1 .. Len(fr) : h[x] = IF x = i THEN r ELSE fr[x]
  <2> HIDE DEF d, h, g, a, m
  <2>1. /\ [fr EXCEPT ![i] = r] \in Seq(Region)
        /\ Len([fr EXCEPT ![i] = r]) = Len(fr)
        /\ \A x \in 1 .. Len(fr) :
             [fr EXCEPT ![i] = r][x] = IF x = i THEN r ELSE fr[x]
    BY <1>2, ReplaceEntry
  <2>2. QED
    BY <1>3, <2>1, Zenon
<1>5. r.blockAddress = fr[i].blockAddress /\ End(r) = End(fr[j])
  <2> DEFINE u == fr[i].sizeInBlocks
             v == fr[j].sizeInBlocks
             e == End(fr[j])
  <2>1. a \in Nat /\ u \in Nat /\ v \in Nat /\ n \in Nat /\ p \in Nat
    BY <1>1
  <2>2. a + u = p
    BY <1>1
  <2>3. e = p + n + v
    BY <1>1
  <2>4. m = u + (n + v) /\ r.blockAddress = a /\ End(r) = a + m
    BY DEF End
  <2> HIDE DEF a, u, v, e, m, r
  <2>5. a + m = e
    BY ONLY <2>1, <2>2, <2>3, <2>4
  <2>6. r.blockAddress = a /\ End(r) = e
    BY <2>4, <2>5, Zenon
  <2>7. QED
    BY <2>6, Zenon DEF a, e
<1> HIDE DEF d, h, a, m, r
<1>6. g \in Seq(Region) /\ Len(g) = Len(fr) - 1
  BY <1>4, RemoveAtProperties
<1>7. DOMAIN g = 1 .. Len(fr) - 1
  BY <1>6, LenProperties
<1>8. \A x \in 1 .. Len(fr) - 1 : g[x] = IF x < j THEN h[x] ELSE h[x + 1]
  <2>1. Len(h) = Len(fr) /\ j \in 1 .. Len(h) /\ h \in Seq(Region)
    BY <1>4
  <2>2. \A x \in 1 .. Len(h) - 1 : g[x] = IF x < j THEN h[x] ELSE h[x + 1]
    BY <2>1, RemoveAtProperties
  <2>3. QED
    BY <2>1, <2>2
<1> HIDE DEF g
<1>9. \A x \in DOMAIN g : src(x) \in 1 .. Len(fr) /\ src(x) # j
                         /\ g[x] = h[src(x)]
  BY <1>1, <1>7, <1>8
<1>10. \A x, y \in DOMAIN g : x < y => src(x) < src(y)
  BY <1>1, <1>7
<1>11. i < j
  <2>1. i # j
    BY <1>1
  <2>2. ~ (j < i)
    <3>1. j < i => End(fr[j]) < fr[i].blockAddress
      BY <1>1 DEF SortedApart
    <3>2. QED
      BY <1>1, <3>1
  <2>3. QED
    BY <1>1, <2>1, <2>2
<1>12. src(i) = i /\ i \in DOMAIN g
  BY <1>1, <1>7, <1>11
<1> HIDE DEF src
<1>13. ASSUME NEW y \in 1 .. Len(fr), i < y, y # j
       PROVE  End(fr[j]) < fr[y].blockAddress
  <2>1. p < fr[y].blockAddress
    BY <1>1, <1>13 DEF SortedApart
  <2>2. p + n <= fr[y].blockAddress \/ End(fr[y]) <= p
    BY <1>1 DEF Apart
  <2>3. y < j => End(fr[y]) < p + n
    BY <1>1 DEF SortedApart
  <2>4. /\ fr[y].blockAddress \in Nat /\ End(fr[y]) \in Nat
        /\ fr[y].blockAddress <= End(fr[y])
    BY <1>1
  <2>5. ~ (y < j)
    BY <2>1, <2>2, <2>3, <2>4
  <2>6. j < y
    BY <1>1, <1>13, <2>5
  <2>7. QED
    BY <1>1, <2>6 DEF SortedApart
<1>14. SortedApart(g)
  <2> SUFFICES ASSUME NEW x \in DOMAIN g, NEW y \in DOMAIN g, x < y
               PROVE  End(g[x]) < g[y].blockAddress
    BY DEF SortedApart
  <2>1. src(x) < src(y)
    BY <1>10
  <2>2. End(fr[src(x)]) < fr[src(y)].blockAddress
    BY <1>1, <1>9, <2>1 DEF SortedApart
  <2>3. h[src(y)].blockAddress = fr[src(y)].blockAddress
    BY <1>4, <1>5, <1>9
  <2>4. CASE src(x) = i
    <3>1. End(fr[j]) < fr[src(y)].blockAddress
      BY <1>9, <1>13, <2>1, <2>4
    <3>2. h[src(x)] = r
      BY <1>4, <2>4
    <3>3. QED
      BY <1>5, <1>9, <2>3, <3>1, <3>2
  <2>5. CASE src(x) # i
    <3>1. h[src(x)] = fr[src(x)]
      BY <1>4, <1>9, <2>5
    <3>2. QED
      BY <1>9, <2>2, <2>3, <3>1
  <2>6. QED
    BY <2>4, <2>5
<1>15. ASSUME NEW x \in DOMAIN g
       PROVE  (\E y \in DOMAIN fr : g[x] = fr[y]) \/ Joined(g[x], fr, p, n)
  <2>1. CASE src(x) = i
    <3>1. g[x] = r
      BY <1>4, <1>9, <2>1
    <3>2. QED
      BY <1>1, <1>5, <3>1 DEF Joined
  <2>2. CASE src(x) # i
    <3>1. g[x] = fr[src(x)] /\ src(x) \in DOMAIN fr
      BY <1>1, <1>4, <1>9, <2>2
    <3>2. QED
      BY <3>1
  <2>3. QED
    BY <2>1, <2>2
<1>16. g[i] = r
  BY <1>4, <1>9, <1>12
<1>17. ASSUME NEW b \in Int, InFree(b, fr) \/ (p <= b /\ b < p + n)
       PROVE  InFree(b, g)
  <2>1. ASSUME fr[i].blockAddress <= b, b < End(fr[j])
        PROVE  InFree(b, g)
    BY <1>5, <1>12, <1>16, <2>1 DEF InFree
  <2>2. CASE p <= b /\ b < p + n
    BY <1>1, <2>1, <2>2
  <2>3. CASE InFree(b, fr)
    <3>1. PICK x \in 1 .. Len(fr) : fr[x].blockAddress <= b /\ b < End(fr[x])
      BY <1>1, <2>3 DEF InFree
    <3>2. CASE x = i \/ x = j
      BY <1>1, <2>1, <3>1, <3>2
    <3>3. CASE x # i /\ x < j
      <4>1. x \in DOMAIN g
        BY <1>1, <1>7, <3>3
      <4>2. g[x] = h[x] /\ h[x] = fr[x]
        BY <1>4, <1>7, <1>8, <3>3, <4>1
      <4>3. QED
        BY <3>1, <4>1, <4>2 DEF InFree
    <3>4. CASE j < x
      <4>1. x - 1 \in DOMAIN g /\ g[x - 1] = h[x]
        BY <1>1, <1>7, <1>8, <3>4
      <4>2. h[x] = fr[x]
        BY <1>1, <1>4, <1>11, <3>4
      <4>3. QED
        BY <3>1, <4>1, <4>2 DEF InFree
    <3>5. QED
      BY <1>1, <3>2, <3>3, <3>4
  <2>4. QED
    BY <1>17, <2>2, <2>3
<1>18. Len(g) <= Len(fr)
  BY <1>1, <1>6
<1>19. Released(g, fr, p, n)
  BY <1>1, <1>6, <1>14, <1>15, <1>17, <1>18 DEF Released
<1>20. QED
  BY <1>19 DEF g, h, d

(* The released blocks touch no region and get an entry of their own.      *)
LEMMA ReleaseInserts ==
  ASSUME NEW fr \in Seq(Region), NEW p \in Nat, NEW n \in Nat \ {0},
         SortedApart(fr), Apart(fr, p, n), NeedsEntry(fr, p, n)
  PROVE  Released(insertFreeBlock(fr, p, n), fr, p, n)
<1> DEFINE g == insertFreeBlock(fr, p, n)
           r == [blockAddress |-> p, sizeInBlocks |-> n]
<1>1. /\ Len(fr) \in Nat /\ DOMAIN fr = 1 .. Len(fr)
      /\ \A x \in 1 .. Len(fr) :
           /\ fr[x].blockAddress \in Nat /\ fr[x].sizeInBlocks \in Nat
           /\ End(fr[x]) \in Nat /\ fr[x].blockAddress <= End(fr[x])
           /\ End(fr[x]) = fr[x].blockAddress + fr[x].sizeInBlocks
  BY RegionNumbers
<1>2. PICK i \in 1 .. Len(fr) + 1 :
         /\ IsInsertionPoint(fr, p, i)
         /\ g \in Seq(Region)
         /\ Len(g) = Len(fr) + 1
         /\ \A x \in 1 .. i - 1 : g[x] = fr[x]
         /\ g[i] = r
         /\ \A x \in i + 1 .. Len(fr) + 1 : g[x] = fr[x - 1]
  BY InsertFreeBlockProperties
<1>3. DOMAIN g = 1 .. Len(fr) + 1
  BY <1>2, LenProperties
<1>4. r.blockAddress = p /\ End(r) = p + n
  BY DEF End
<1> HIDE DEF g, r
<1>5. ASSUME NEW x \in 1 .. Len(fr), x < i
      PROVE  End(fr[x]) < p
  <2>1. fr[x].blockAddress < p
    BY <1>1, <1>2, <1>5 DEF IsInsertionPoint
  <2>2. p + n <= fr[x].blockAddress \/ End(fr[x]) <= p
    BY <1>1 DEF Apart
  <2>3. End(fr[x]) # p
    BY <1>1 DEF NeedsEntry, EndingAt
  <2>4. fr[x].blockAddress \in Nat /\ End(fr[x]) \in Nat
    BY <1>1
  <2>5. QED
    BY <2>1, <2>2, <2>3, <2>4
<1>6. ASSUME NEW x \in 1 .. Len(fr), i <= x
      PROVE  p + n < fr[x].blockAddress
  <2>1. /\ fr[x].blockAddress \in Nat /\ End(fr[x]) \in Nat
        /\ fr[x].blockAddress <= End(fr[x])
    BY <1>1
  <2>2. fr[x].blockAddress >= p
    <3>1. i <= Len(fr) /\ fr[i].blockAddress >= p
      BY <1>1, <1>2, <1>6 DEF IsInsertionPoint
    <3>2. i < x => End(fr[i]) < fr[x].blockAddress
      BY <1>1, <3>1 DEF SortedApart
    <3>3. /\ fr[i].blockAddress \in Nat /\ End(fr[i]) \in Nat
          /\ fr[i].blockAddress <= End(fr[i])
      BY <1>1, <3>1
    <3>4. CASE i = x
      BY <3>1, <3>4
    <3>5. CASE i < x
      BY <2>1, <3>1, <3>2, <3>3, <3>5
    <3>6. QED
      BY <1>1, <1>6, <3>4, <3>5
  <2>3. p + n <= fr[x].blockAddress \/ End(fr[x]) <= p
    BY <1>1 DEF Apart
  <2>4. End(fr[x]) # p /\ fr[x].blockAddress # p + n
    BY <1>1 DEF NeedsEntry, EndingAt, StartingAt
  <2>5. QED
    BY <2>1, <2>2, <2>3, <2>4
<1>7. SortedApart(g)
  <2> SUFFICES ASSUME NEW x \in DOMAIN g, NEW y \in DOMAIN g, x < y
               PROVE  End(g[x]) < g[y].blockAddress
    BY DEF SortedApart
  <2>1. CASE y < i
    <3>1. g[x] = fr[x] /\ g[y] = fr[y] /\ x \in DOMAIN fr /\ y \in DOMAIN fr
      BY <1>1, <1>2, <1>3, <2>1
    <3>2. QED
      BY <3>1 DEF SortedApart
  <2>2. CASE y = i
    <3>1. g[x] = fr[x] /\ g[y] = r /\ x \in 1 .. Len(fr) /\ x < i
      BY <1>1, <1>2, <1>3, <2>2
    <3>2. QED
      BY <1>4, <1>5, <3>1
  <2>3. CASE i < y /\ x < i
    <3>1. g[x] = fr[x] /\ x \in 1 .. Len(fr)
      BY <1>1, <1>2, <1>3, <2>3
    <3>2. g[y] = fr[y - 1] /\ y - 1 \in 1 .. Len(fr) /\ x < y - 1
      BY <1>1, <1>2, <1>3, <2>3
    <3>3. QED
      BY <1>1, <3>1, <3>2 DEF SortedApart
  <2>4. CASE i < y /\ x = i
    <3>1. g[y] = fr[y - 1] /\ y - 1 \in 1 .. Len(fr) /\ i <= y - 1
      <4>1. y \in i + 1 .. Len(fr) + 1
        BY <1>1, <1>3, <2>4
      <4>2. g[y] = fr[y - 1]
        BY <1>2, <4>1
      <4>3. y - 1 \in 1 .. Len(fr) /\ i <= y - 1
        BY <1>1, <4>1
      <4>4. QED
        BY <4>2, <4>3
    <3>2. QED
      BY <1>2, <1>4, <1>6, <2>4, <3>1
  <2>5. CASE i < y /\ i < x
    <3>1. g[y] = fr[y - 1] /\ y - 1 \in 1 .. Len(fr)
      BY <1>1, <1>2, <1>3, <2>5
    <3>2. g[x] = fr[x - 1] /\ x - 1 \in 1 .. Len(fr) /\ x - 1 < y - 1
      BY <1>1, <1>2, <1>3, <2>5
    <3>3. QED
      BY <1>1, <3>1, <3>2 DEF SortedApart
  <2>6. QED
    BY <1>1, <1>3, <2>1, <2>2, <2>3, <2>4, <2>5
<1>8. ASSUME NEW x \in DOMAIN g
      PROVE  (\E y \in DOMAIN fr : g[x] = fr[y]) \/ Joined(g[x], fr, p, n)
  <2>1. CASE x = i
    BY <1>2, <1>4, <2>1 DEF Joined
  <2>2. CASE x < i
    <3>1. x \in DOMAIN fr /\ g[x] = fr[x]
      BY <1>1, <1>2, <1>3, <2>2
    <3>2. QED
      BY <3>1
  <2>3. CASE i < x
    <3>1. x - 1 \in DOMAIN fr /\ g[x] = fr[x - 1]
      BY <1>1, <1>2, <1>3, <2>3
    <3>2. QED
      BY <3>1
  <2>4. QED
    BY <1>1, <1>3, <2>1, <2>2, <2>3
<1>9. ASSUME NEW b \in Int, InFree(b, fr) \/ (p <= b /\ b < p + n)
      PROVE  InFree(b, g)
  <2>1. CASE p <= b /\ b < p + n
    <3>1. i \in DOMAIN g
      BY <1>3
    <3>2. QED
      BY <1>2, <1>4, <2>1, <3>1 DEF InFree
  <2>2. CASE InFree(b, fr)
    <3>1. PICK x \in 1 .. Len(fr) : fr[x].blockAddress <= b /\ b < End(fr[x])
      BY <1>1, <2>2 DEF InFree
    <3>2. CASE x < i
      <4>1. x \in DOMAIN g /\ g[x] = fr[x]
        BY <1>1, <1>2, <1>3, <3>2
      <4>2. QED
        BY <3>1, <4>1 DEF InFree
    <3>3. CASE ~ (x < i)
      <4>1. x + 1 \in DOMAIN g /\ x + 1 \in i + 1 .. Len(fr) + 1
        BY <1>1, <1>3, <3>3
      <4>2. g[x + 1] = fr[x]
        BY <1>1, <1>2, <4>1
      <4>3. QED
        BY <3>1, <4>1, <4>2 DEF InFree
    <3>4. QED
      BY <3>2, <3>3
  <2>3. QED
    BY <1>9, <2>1, <2>2
<1>10. Len(g) <= Len(fr) + 1
  BY <1>1, <1>2
<1>11. Released(g, fr, p, n)
  BY <1>2, <1>7, <1>8, <1>9, <1>10 DEF Released
<1>12. QED
  BY <1>11 DEF g

(* freeListFree, over its four cases.                                      *)
LEMMA FreeReleases ==
  ASSUME NEW fr \in Seq(Region), NEW p \in Nat, NEW n \in Nat \ {0},
         SortedApart(fr), Apart(fr, p, n)
  PROVE  Released(freeListFree(fr, p, n), fr, p, n)
<1> DEFINE after  == StartingAt(fr, p + n)
           before == EndingAt(fr, p)
           j      == CHOOSE x \in after : TRUE
           i      == CHOOSE x \in before : TRUE
<1>1. Len(fr) \in Nat /\ DOMAIN fr = 1 .. Len(fr)
  BY RegionEntries
<1>2. after # {} => j \in 1 .. Len(fr) /\ fr[j].blockAddress = p + n
  BY <1>1 DEF StartingAt
<1>3. before # {} => i \in 1 .. Len(fr) /\ End(fr[i]) = p
  BY <1>1 DEF EndingAt
<1>4. CASE after # {} /\ before # {}
  <2>1. freeListFree(fr, p, n) =
          RemoveAt(GrowUp(fr, i, n + fr[j].sizeInBlocks), j)
    BY <1>4 DEF freeListFree
  <2> HIDE DEF i, j
  <2>2. QED
    BY <1>2, <1>3, <1>4, <2>1, ReleaseJoins
<1>5. CASE after # {} /\ before = {}
  <2>1. freeListFree(fr, p, n) = GrowDown(fr, j, n)
    BY <1>5 DEF freeListFree
  <2> HIDE DEF i, j
  <2>2. QED
    BY <1>2, <1>5, <2>1, ReleaseGrowsDown
<1>6. CASE after = {} /\ before # {}
  <2>1. freeListFree(fr, p, n) = GrowUp(fr, i, n)
    BY <1>6 DEF freeListFree
  <2> HIDE DEF i, j
  <2>2. QED
    BY <1>3, <1>6, <2>1, ReleaseGrowsUp
<1>7. CASE after = {} /\ before = {}
  <2>1. freeListFree(fr, p, n) = insertFreeBlock(fr, p, n)
    BY <1>7 DEF freeListFree
  <2>2. NeedsEntry(fr, p, n)
    BY <1>7 DEF NeedsEntry
  <2>3. QED
    BY <2>1, <2>2, ReleaseInserts
<1>8. QED
  BY <1>4, <1>5, <1>6, <1>7

(* freeListReduce releases the tail of a block as freeListFree would: no   *)
(* region can end where the part that stays does.                          *)
LEMMA ReduceReleases ==
  ASSUME NEW fr \in Seq(Region), NEW p \in Nat, NEW old \in Nat,
         NEW new \in Nat \ {0}, new < old,
         SortedApart(fr), Apart(fr, p, old)
  PROVE  /\ Released(freeListReduce(fr, p, old, new), fr, p + new, old - new)
         /\ ReduceNeedsEntry(fr, p, old) <=> NeedsEntry(fr, p + new, old - new)
<1>1. /\ Len(fr) \in Nat /\ DOMAIN fr = 1 .. Len(fr)
      /\ \A x \in 1 .. Len(fr) :
           /\ fr[x].blockAddress \in Nat /\ End(fr[x]) \in Nat
           /\ fr[x].blockAddress <= End(fr[x])
  BY RegionEntries
<1>2. p + new \in Nat /\ old - new \in Nat \ {0} /\ (p + new) + (old - new) = p + old
  OBVIOUS
<1>3. Apart(fr, p + new, old - new)
  <2> SUFFICES ASSUME NEW x \in DOMAIN fr
               PROVE  \/ p + old <= fr[x].blockAddress
                      \/ End(fr[x]) <= p + new
    BY <1>2 DEF Apart
  <2>1. p + old <= fr[x].blockAddress \/ End(fr[x]) <= p
    BY DEF Apart
  <2>2. End(fr[x]) \in Nat
    BY <1>1
  <2>3. QED
    BY <2>1, <2>2
<1>4. EndingAt(fr, p + new) = {}
  <2> SUFFICES ASSUME NEW x \in DOMAIN fr, End(fr[x]) = p + new
               PROVE  FALSE
    BY DEF EndingAt
  <2>1. p + old <= fr[x].blockAddress \/ End(fr[x]) <= p
    BY DEF Apart
  <2>2. fr[x].blockAddress \in Nat /\ fr[x].blockAddress <= End(fr[x])
    BY <1>1
  <2>3. QED
    BY <2>1, <2>2
<1>5. ReduceNeedsEntry(fr, p, old) <=> NeedsEntry(fr, p + new, old - new)
  BY <1>2, <1>4 DEF ReduceNeedsEntry, NeedsEntry
<1>6. freeListReduce(fr, p, old, new) = freeListFree(fr, p + new, old - new)
  <2> DEFINE after == StartingAt(fr, p + old)
             j     == CHOOSE x \in after : TRUE
  <2>1. StartingAt(fr, (p + new) + (old - new)) = after
    BY <1>2
  <2>2. CASE after # {}
    <3>1. freeListReduce(fr, p, old, new) = GrowDown(fr, j, old - new)
      BY <2>2 DEF freeListReduce
    <3>2. freeListFree(fr, p + new, old - new) = GrowDown(fr, j, old - new)
      BY <1>4, <2>1, <2>2 DEF freeListFree
    <3>3. QED
      BY <3>1, <3>2
  <2>3. CASE after = {}
    <3>1. freeListReduce(fr, p, old, new) =
            insertFreeBlock(fr, p + new, old - new)
      BY <2>3 DEF freeListReduce
    <3>2. freeListFree(fr, p + new, old - new) =
            insertFreeBlock(fr, p + new, old - new)
      BY <1>4, <2>1, <2>3 DEF freeListFree
    <3>3. QED
      BY <3>1, <3>2
  <2>4. QED
    BY <2>2, <2>3
<1>7. QED
  BY <1>2, <1>3, <1>5, <1>6, FreeReleases

---------------------------------------------------------------------------
(* After a release, blocks that were apart from the list and from what was *)
(* released are still apart from the list.                                 *)
LEMMA ReleasedStaysApart ==
  ASSUME NEW fr \in Seq(Region), NEW p \in Nat, NEW n \in Nat \ {0}, NEW g,
         Released(g, fr, p, n),
         NEW q \in Nat, NEW m \in Nat \ {0},
         Apart(fr, q, m), p + n <= q \/ q + m <= p
  PROVE  Apart(g, q, m)
<1>1. DOMAIN fr = 1 .. Len(fr) /\ \A x \in 1 .. Len(fr) :
        /\ fr[x].blockAddress \in Nat /\ End(fr[x]) \in Nat
        /\ fr[x].blockAddress <= End(fr[x])
  BY RegionEntries
<1> SUFFICES ASSUME NEW i \in DOMAIN g
             PROVE  q + m <= g[i].blockAddress \/ End(g[i]) <= q
  BY DEF Apart
<1>2. CASE \E j \in DOMAIN fr : g[i] = fr[j]
  BY <1>2 DEF Apart
<1>3. CASE Joined(g[i], fr, p, n)
  <2>1. CASE p + n <= q
    <3>1. CASE End(g[i]) = p + n
      BY <2>1, <3>1
    <3>2. CASE \E y \in DOMAIN fr :
                 fr[y].blockAddress = p + n /\ End(g[i]) = End(fr[y])
      <4>1. PICK y \in DOMAIN fr :
                   fr[y].blockAddress = p + n /\ End(g[i]) = End(fr[y])
        BY <3>2
      <4>2. q + m <= fr[y].blockAddress \/ End(fr[y]) <= q
        BY DEF Apart
      <4>3. QED
        BY <2>1, <4>1, <4>2
    <3>3. QED
      BY <1>3, <3>1, <3>2 DEF Joined
  <2>2. CASE q + m <= p
    <3>1. CASE g[i].blockAddress = p
      BY <2>2, <3>1
    <3>2. CASE \E x \in DOMAIN fr :
                 End(fr[x]) = p /\ g[i].blockAddress = fr[x].blockAddress
      <4>1. PICK x \in DOMAIN fr :
                   End(fr[x]) = p /\ g[i].blockAddress = fr[x].blockAddress
        BY <3>2
      <4>2. q + m <= fr[x].blockAddress \/ End(fr[x]) <= q
        BY DEF Apart
      <4>3. QED
        BY <2>2, <4>1, <4>2
    <3>3. QED
      BY <1>3, <3>1, <3>2 DEF Joined
  <2>3. QED
    BY <2>1, <2>2
<1>4. QED
  BY <1>2, <1>3 DEF Released

(* A release stays within the bounds of the list and of what was released. *)
LEMMA ReleasedStaysWithin ==
  ASSUME NEW fr \in Seq(Region), NEW p \in Nat, NEW n \in Nat \ {0}, NEW g,
         Released(g, fr, p, n),
         NEW lo \in Nat, NEW hi \in Nat, lo <= p, p + n <= hi,
         \A x \in DOMAIN fr : lo <= fr[x].blockAddress /\ End(fr[x]) <= hi
  PROVE  \A i \in DOMAIN g : lo <= g[i].blockAddress /\ End(g[i]) <= hi
<1> SUFFICES ASSUME NEW i \in DOMAIN g
             PROVE  lo <= g[i].blockAddress /\ End(g[i]) <= hi
  OBVIOUS
<1>1. CASE \E j \in DOMAIN fr : g[i] = fr[j]
  BY <1>1
<1>2. CASE Joined(g[i], fr, p, n)
  BY <1>2 DEF Joined
<1>3. QED
  BY <1>1, <1>2 DEF Released

---------------------------------------------------------------------------
(* Induction up to n, over a set instead of a predicate.                   *)
LEMMA IntervalInduction ==
  ASSUME NEW T, NEW n \in Nat, 0 \in T,
         \A k \in 1 .. n : k - 1 \in T => k \in T
  PROVE  \A k \in 0 .. n : k \in T
<1> DEFINE Bad == {k \in 0 .. n : k \notin T}
<1> SUFFICES ASSUME Bad # {} PROVE FALSE
  OBVIOUS
<1>1. PICK m \in Bad : \A x \in Bad : m <= x
  <2>1. Bad \in SUBSET Nat
    OBVIOUS
  <2> HIDE DEF Bad
  <2>2. QED
    BY <2>1, LeastNatural
<1>2. m \in 1 .. n /\ m - 1 \notin Bad /\ m - 1 \in 0 .. n
  BY <1>1
<1>3. QED
  BY <1>1, <1>2

---------------------------------------------------------------------------
(* The loop of getFreeRamMemory: the sums it goes through in n turns.      *)
IsSum(f, fr, n) ==
  f = [k \in 0 .. n |-> IF k = 0 THEN 0 ELSE f[k - 1] + fr[k].sizeInBlocks]

(* The recursion is well defined.                                          *)
LEMMA SumExists ==
  ASSUME NEW fr, NEW n \in Nat
  PROVE  \E f : IsSum(f, fr, n)
<1> DEFINE T == {m \in Nat : \E f : IsSum(f, fr, m)}
<1>1. 0 \in T
  <2>1. IsSum([k \in 0 .. 0 |-> 0], fr, 0)
    BY DEF IsSum
  <2>2. QED
    BY <2>1
<1>2. ASSUME NEW m \in 1 .. n, m - 1 \in T
      PROVE  m \in T
  <2>1. PICK f : IsSum(f, fr, m - 1)
    BY <1>2
  <2> DEFINE g == [k \in 0 .. m |-> IF k < m THEN f[k]
                                     ELSE f[m - 1] + fr[m].sizeInBlocks]
  <2>2. \A j \in 0 .. m - 1 :
          f[j] = IF j = 0 THEN 0 ELSE f[j - 1] + fr[j].sizeInBlocks
    BY <2>1 DEF IsSum
  <2>3. ASSUME NEW k \in 0 .. m
        PROVE  g[k] = IF k = 0 THEN 0 ELSE g[k - 1] + fr[k].sizeInBlocks
    <3>1. CASE k < m
      BY <2>2, <3>1
    <3>2. CASE k = m
      <4>1. g[k] = f[m - 1] + fr[m].sizeInBlocks /\ g[m - 1] = f[m - 1]
        BY <3>2
      <4>2. QED
        BY <3>2, <4>1
    <3>3. QED
      BY <3>1, <3>2
  <2>4. IsSum(g, fr, m)
    BY <2>3 DEF IsSum
  <2>5. QED
    BY <2>4
<1> HIDE DEF T
<1>3. n \in T
  BY <1>1, <1>2, IntervalInduction
<1>4. QED
  BY <1>3 DEF T

(* freeMem adds up the sizes of the regions, one after the other.          *)
LEMMA FreeMemValues ==
  ASSUME NEW fr \in Seq(Region)
  PROVE  /\ freeMem(fr)[0] = 0
         /\ \A k \in 1 .. Len(fr) :
              freeMem(fr)[k] = freeMem(fr)[k - 1] + fr[k].sizeInBlocks
         /\ \A k \in 0 .. Len(fr) : freeMem(fr)[k] \in Nat
<1> DEFINE f == freeMem(fr)
<1>1. Len(fr) \in Nat /\ \A i \in 1 .. Len(fr) : fr[i].sizeInBlocks \in Nat
  BY RegionEntries
<1>2. IsSum(f, fr, Len(fr))
  <2> DEFINE h == CHOOSE s : IsSum(s, fr, Len(fr))
  <2>1. IsSum(h, fr, Len(fr))
    BY <1>1, SumExists
  <2>2. f = h
    BY DEF freeMem, IsSum
  <2>3. QED
    BY <2>1, <2>2
<1> HIDE DEF f
<1>3. /\ f[0] = 0
      /\ \A k \in 1 .. Len(fr) : f[k] = f[k - 1] + fr[k].sizeInBlocks
  BY <1>1, <1>2 DEF IsSum
<1> DEFINE T == {k \in Nat : f[k] \in Nat}
<1>4. 0 \in T
  BY <1>3
<1>5. \A k \in 1 .. Len(fr) : k - 1 \in T => k \in T
  BY <1>1, <1>3
<1>6. \A k \in 0 .. Len(fr) : k \in T
  <2> HIDE DEF T
  <2>1. QED
    BY <1>1, <1>4, <1>5, IntervalInduction
<1>7. QED
  BY <1>3, <1>6 DEF f

(* Changing one region changes the sum by the difference of the sizes.     *)
LEMMA SumReplaced ==
  ASSUME NEW fr \in Seq(Region), NEW g \in Seq(Region), Len(g) = Len(fr),
         NEW k \in 1 .. Len(fr),
         \A i \in 1 .. Len(fr) : i # k => g[i] = fr[i]
  PROVE  /\ getFreeRamMemory(g) =
              getFreeRamMemory(fr) - fr[k].sizeInBlocks + g[k].sizeInBlocks
         /\ getFreeRamMemory(fr) \in Nat
<1> DEFINE s == freeMem(fr)
           t == freeMem(g)
           n == Len(fr)
           d == g[k].sizeInBlocks - fr[k].sizeInBlocks
           T == {m \in Nat : t[m] = IF m < k THEN s[m] ELSE s[m] + d}
<1>1. /\ n \in Nat /\ k \in Nat /\ k > 0
      /\ \A i \in 1 .. n : fr[i].sizeInBlocks \in Nat /\ g[i].sizeInBlocks \in Nat
  BY RegionEntries
<1>2. /\ s[0] = 0 /\ \A m \in 1 .. n : s[m] = s[m - 1] + fr[m].sizeInBlocks
      /\ \A m \in 0 .. n : s[m] \in Nat
  BY FreeMemValues
<1>3. /\ t[0] = 0 /\ \A m \in 1 .. n : t[m] = t[m - 1] + g[m].sizeInBlocks
  BY FreeMemValues
<1> HIDE DEF s, t, n
<1>4. 0 \in T
  BY <1>1, <1>2, <1>3
<1>5. ASSUME NEW m \in 1 .. n, m - 1 \in T
      PROVE  m \in T
  <2>1. /\ s[m - 1] \in Nat /\ s[m] = s[m - 1] + fr[m].sizeInBlocks
        /\ t[m] = t[m - 1] + g[m].sizeInBlocks
        /\ t[m - 1] = IF m - 1 < k THEN s[m - 1] ELSE s[m - 1] + d
        /\ fr[m].sizeInBlocks \in Nat /\ g[m].sizeInBlocks \in Nat
        /\ d \in Int
    BY <1>1, <1>2, <1>3, <1>5 DEF n
  <2>2. CASE m = k
    BY <1>1, <2>1, <2>2, SMTT(30)
  <2>3. CASE m # k
    <3>1. g[m].sizeInBlocks = fr[m].sizeInBlocks
      BY <2>3 DEF n
    <3> HIDE DEF d
    <3>2. QED
      BY <1>1, <2>1, <2>3, <3>1, SMTT(30)
  <2>4. QED
    BY <2>2, <2>3
<1>6. n \in T
  <2>1. \A m \in 0 .. n : m \in T
    <3> HIDE DEF T
    <3>1. QED
      BY <1>1, <1>4, <1>5, IntervalInduction
  <2>2. QED
    BY <1>1, <2>1
<1>7. t[n] = s[n] + d /\ s[n] \in Nat
  BY <1>1, <1>2, <1>6 DEF n
<1>8. fr[k].sizeInBlocks \in Nat /\ g[k].sizeInBlocks \in Nat
  BY <1>1 DEF n
<1>9. QED
  BY <1>7, <1>8 DEF getFreeRamMemory, s, t, n

(* Taking a region out of the table takes its size off the sum.            *)
LEMMA SumGap ==
  ASSUME NEW fr \in Seq(Region), NEW g \in Seq(Region),
         NEW k \in 1 .. Len(fr), Len(g) = Len(fr) - 1,
         \A j \in 1 .. Len(fr) - 1 : g[j] = IF j < k THEN fr[j] ELSE fr[j + 1]
  PROVE  /\ getFreeRamMemory(fr) = getFreeRamMemory(g) + fr[k].sizeInBlocks
         /\ getFreeRamMemory(g) \in Nat
<1> DEFINE s == freeMem(fr)
           t == freeMem(g)
           n == Len(fr) - 1
           d == fr[k].sizeInBlocks
           T == {m \in Nat : IF m < k THEN s[m] = t[m] ELSE s[m + 1] = t[m] + d}
<1>1. /\ n \in Nat /\ k \in Nat /\ k > 0 /\ Len(fr) \in Nat /\ Len(fr) = n + 1
      /\ \A i \in 1 .. n + 1 : fr[i].sizeInBlocks \in Nat
      /\ \A i \in 1 .. n : g[i].sizeInBlocks \in Nat
  BY RegionEntries
<1>2. /\ s[0] = 0 /\ \A m \in 1 .. n + 1 : s[m] = s[m - 1] + fr[m].sizeInBlocks
      /\ \A m \in 0 .. n + 1 : s[m] \in Nat
  BY <1>1, FreeMemValues
<1>3. /\ t[0] = 0 /\ \A m \in 1 .. n : t[m] = t[m - 1] + g[m].sizeInBlocks
      /\ \A m \in 0 .. n : t[m] \in Nat
  BY FreeMemValues
<1>4. \A j \in 1 .. n : g[j] = IF j < k THEN fr[j] ELSE fr[j + 1]
  OBVIOUS
<1>5. k <= n + 1 /\ d \in Nat
  BY <1>1
<1> HIDE DEF s, t, n, d
<1>6. 0 \in T
  BY <1>1, <1>2, <1>3
<1>7. ASSUME NEW m \in 1 .. n, m - 1 \in T
      PROVE  m \in T
  <2>1. /\ s[m] = s[m - 1] + fr[m].sizeInBlocks
        /\ s[m + 1] = s[m] + fr[m + 1].sizeInBlocks
        /\ t[m] = t[m - 1] + g[m].sizeInBlocks
        /\ IF m - 1 < k THEN s[m - 1] = t[m - 1] ELSE s[m] = t[m - 1] + d
        /\ s[m - 1] \in Nat /\ s[m] \in Nat /\ s[m + 1] \in Nat
        /\ t[m - 1] \in Nat /\ t[m] \in Nat
        /\ fr[m].sizeInBlocks \in Nat /\ fr[m + 1].sizeInBlocks \in Nat
        /\ g[m].sizeInBlocks \in Nat
    BY <1>1, <1>2, <1>3, <1>7
  <2>2. CASE m < k
    <3>1. g[m] = fr[m]
      BY <1>4, <2>2
    <3>2. QED
      BY <1>1, <2>1, <2>2, <3>1
  <2>3. CASE m = k
    <3>1. g[m].sizeInBlocks = fr[m + 1].sizeInBlocks
      BY <1>1, <1>4, <2>3
    <3>2. s[m] = t[m - 1] + d
      BY <1>1, <2>1, <2>3 DEF d
    <3>3. s[m + 1] = t[m] + d
      <4>1. s[m + 1] = (t[m - 1] + d) + fr[m + 1].sizeInBlocks
        BY <2>1, <3>2
      <4>2. t[m] + d = (t[m - 1] + fr[m + 1].sizeInBlocks) + d
        BY <2>1, <3>1
      <4>3. t[m - 1] \in Nat /\ d \in Nat /\ fr[m + 1].sizeInBlocks \in Nat
        BY <1>5, <2>1
      <4>4. \A x, y, z \in Nat : (x + y) + z = (x + z) + y
        OBVIOUS
      <4>5. QED
        BY ONLY <4>1, <4>2, <4>3, <4>4
    <3>4. QED
      BY <1>1, <2>3, <3>3
  <2>4. CASE m > k
    <3>1. g[m].sizeInBlocks = fr[m + 1].sizeInBlocks
      BY <1>1, <1>4, <2>4
    <3>2. s[m] = t[m - 1] + d
      BY <1>1, <2>1, <2>4
    <3>3. s[m + 1] = t[m] + d
      <4>1. s[m + 1] = (t[m - 1] + d) + fr[m + 1].sizeInBlocks
        BY <2>1, <3>2
      <4>2. t[m] + d = (t[m - 1] + fr[m + 1].sizeInBlocks) + d
        BY <2>1, <3>1
      <4>3. t[m - 1] \in Nat /\ d \in Nat /\ fr[m + 1].sizeInBlocks \in Nat
        BY <1>5, <2>1
      <4>4. \A x, y, z \in Nat : (x + y) + z = (x + z) + y
        OBVIOUS
      <4>5. QED
        BY ONLY <4>1, <4>2, <4>3, <4>4
    <3>4. QED
      BY <1>1, <2>4, <3>3
  <2>5. QED
    BY <1>1, <2>2, <2>3, <2>4
<1>8. n \in T
  <2>1. \A m \in 0 .. n : m \in T
    <3> HIDE DEF T
    <3>1. QED
      BY <1>1, <1>6, <1>7, IntervalInduction
  <2>2. QED
    BY <1>1, <2>1
<1>9. s[n + 1] = t[n] + d /\ t[n] \in Nat
  <2>1. t[n] \in Nat
    BY <1>1, <1>3
  <2>2. CASE n < k
    <3>1. k = n + 1 /\ s[n] = t[n]
      BY <1>1, <1>5, <1>8, <2>2
    <3>2. s[n + 1] = s[n] + fr[n + 1].sizeInBlocks
      BY <1>1, <1>2
    <3>3. QED
      BY <2>1, <3>1, <3>2 DEF d
  <2>3. CASE ~ (n < k)
    BY <1>8, <2>1, <2>3
  <2>4. QED
    BY <2>2, <2>3
<1>10. QED
  BY <1>1, <1>9 DEF getFreeRamMemory, s, t, n, d

(* What a claim takes off the sum.                                         *)
LEMMA CarveTotal ==
  ASSUME NEW fr \in Seq(Region), NEW k \in 1 .. Len(fr), NEW n \in Nat \ {0},
         n <= fr[k].sizeInBlocks
  PROVE  /\ getFreeRamMemory(Carve(fr, n, k)) = getFreeRamMemory(fr) - n
         /\ getFreeRamMemory(fr) \in Nat
<1> DEFINE size == fr[k].sizeInBlocks
           g == Carve(fr, n, k)
<1>1. fr[k].blockAddress \in Nat /\ size \in Nat /\ Len(fr) \in Nat
  BY RegionEntries
<1>2. CASE size = n
  <2>1. g = RemoveAt(fr, k)
    BY <1>2 DEF Carve
  <2>2. /\ g \in Seq(Region) /\ Len(g) = Len(fr) - 1
        /\ \A j \in 1 .. Len(fr) - 1 : g[j] = IF j < k THEN fr[j] ELSE fr[j + 1]
    BY <2>1, RemoveAtProperties
  <2> HIDE DEF g
  <2>3. /\ getFreeRamMemory(fr) = getFreeRamMemory(g) + size
        /\ getFreeRamMemory(g) \in Nat
    BY <2>2, SumGap
  <2>4. QED
    BY <1>1, <1>2, <2>3 DEF g
<1>3. CASE size # n
  <2> DEFINE a == fr[k].blockAddress + n
             r == [blockAddress |-> a, sizeInBlocks |-> size - n]
  <2>1. a \in Nat /\ size - n \in Nat
    BY <1>1
  <2>2. g = [fr EXCEPT ![k] = r]
    BY <1>3 DEF Carve
  <2> HIDE DEF a
  <2>3. /\ g \in Seq(Region) /\ Len(g) = Len(fr)
        /\ \A i \in 1 .. Len(fr) : g[i] = IF i = k THEN r ELSE fr[i]
    BY <2>1, <2>2, ReplaceEntry
  <2> HIDE DEF g
  <2>4. /\ getFreeRamMemory(g) =
             getFreeRamMemory(fr) - fr[k].sizeInBlocks + g[k].sizeInBlocks
        /\ getFreeRamMemory(fr) \in Nat
    BY <2>3, SumReplaced
  <2>5. g[k].sizeInBlocks = size - n
    BY <2>3
  <2>6. QED
    BY <1>1, <2>4, <2>5 DEF g
<1>4. QED
  BY <1>2, <1>3

(* Giving entry k another address and size.                                *)
Replaced(fr, k, a, m) ==
  [fr EXCEPT ![k] = [blockAddress |-> a, sizeInBlocks |-> m]]

LEMMA ReplaceTotal ==
  ASSUME NEW fr \in Seq(Region), NEW k \in 1 .. Len(fr), NEW a \in Nat,
         NEW m \in Nat
  PROVE  LET g == Replaced(fr, k, a, m)
         IN  /\ g \in Seq(Region) /\ Len(g) = Len(fr)
             /\ \A i \in 1 .. Len(fr) : i # k => g[i] = fr[i]
             /\ getFreeRamMemory(g) =
                  getFreeRamMemory(fr) - fr[k].sizeInBlocks + m
             /\ getFreeRamMemory(fr) \in Nat
<1> DEFINE r == [blockAddress |-> a, sizeInBlocks |-> m]
           g == [fr EXCEPT ![k] = r]
<1>1. /\ g \in Seq(Region) /\ Len(g) = Len(fr)
      /\ \A i \in 1 .. Len(fr) : g[i] = IF i = k THEN r ELSE fr[i]
  BY ReplaceEntry
<1> HIDE DEF g
<1>2. /\ getFreeRamMemory(g) =
           getFreeRamMemory(fr) - fr[k].sizeInBlocks + g[k].sizeInBlocks
      /\ getFreeRamMemory(fr) \in Nat
  BY <1>1, SumReplaced
<1>3. g[k].sizeInBlocks = m
  BY <1>1
<1>4. QED
  BY <1>1, <1>2, <1>3 DEF g, Replaced

(* Entering a region of n blocks.                                          *)
LEMMA InsertTotal ==
  ASSUME NEW fr \in Seq(Region), NEW p \in Nat, NEW n \in Nat
  PROVE  /\ getFreeRamMemory(insertFreeBlock(fr, p, n)) = getFreeRamMemory(fr) + n
         /\ getFreeRamMemory(fr) \in Nat
<1> DEFINE g == insertFreeBlock(fr, p, n)
<1>1. PICK i \in 1 .. Len(fr) + 1 :
        /\ g \in Seq(Region)
        /\ Len(g) = Len(fr) + 1
        /\ \A j \in 1 .. i - 1 : g[j] = fr[j]
        /\ g[i] = [blockAddress |-> p, sizeInBlocks |-> n]
        /\ \A j \in i + 1 .. Len(fr) + 1 : g[j] = fr[j - 1]
  BY InsertFreeBlockProperties
<1> HIDE DEF g
<1>2. Len(fr) \in Nat /\ i \in Nat
  BY RegionEntries
<1>3. ASSUME NEW j \in 1 .. Len(fr)
      PROVE  fr[j] = IF j < i THEN g[j] ELSE g[j + 1]
  <2>1. CASE j < i
    <3>1. j \in 1 .. i - 1
      BY <1>2, <2>1
    <3>2. QED
      BY <1>1, <2>1, <3>1
  <2>2. CASE ~ (j < i)
    <3>1. j + 1 \in i + 1 .. Len(fr) + 1 /\ (j + 1) - 1 = j
      BY <1>2, <2>2
    <3>2. QED
      BY <1>1, <2>2, <3>1
  <2>3. QED
    BY <2>1, <2>2
<1>4. i \in 1 .. Len(g) /\ Len(fr) = Len(g) - 1
  BY <1>1, <1>2
<1>5. /\ getFreeRamMemory(g) = getFreeRamMemory(fr) + g[i].sizeInBlocks
      /\ getFreeRamMemory(fr) \in Nat
  BY <1>1, <1>3, <1>4, SumGap
<1>6. QED
  BY <1>1, <1>5 DEF g

(* What a release adds to the sum, whichever neighbours it joins.          *)
LEMMA FreeTotal ==
  ASSUME NEW fr \in Seq(Region), NEW p \in Nat, NEW n \in Nat \ {0}
  PROVE  /\ getFreeRamMemory(freeListFree(fr, p, n)) = getFreeRamMemory(fr) + n
         /\ getFreeRamMemory(fr) \in Nat
<1> DEFINE after  == StartingAt(fr, p + n)
           before == EndingAt(fr, p)
           j      == CHOOSE x \in after : TRUE
           i      == CHOOSE x \in before : TRUE
<1>1. /\ Len(fr) \in Nat /\ DOMAIN fr = 1 .. Len(fr)
      /\ \A x \in 1 .. Len(fr) :
           /\ fr[x].blockAddress \in Nat /\ fr[x].sizeInBlocks \in Nat
           /\ End(fr[x]) \in Nat /\ fr[x].blockAddress <= End(fr[x])
  BY RegionEntries
<1>2. after # {} => j \in 1 .. Len(fr) /\ fr[j].blockAddress = p + n
  BY <1>1 DEF StartingAt
<1>3. before # {} => i \in 1 .. Len(fr) /\ End(fr[i]) = p
  BY <1>1 DEF EndingAt
<1>4. CASE after # {} /\ before # {}
  <2> DEFINE d == n + fr[j].sizeInBlocks
             h == GrowUp(fr, i, d)
             g == RemoveAt(h, j)
  <2>1. freeListFree(fr, p, n) = g
    BY <1>4 DEF freeListFree
  <2>a. /\ i \in 1 .. Len(fr) /\ End(fr[i]) = p
        /\ j \in 1 .. Len(fr) /\ fr[j].blockAddress = p + n
    BY <1>2, <1>3, <1>4
  <2> HIDE DEF i, j
  <2>2. i # j /\ d \in Nat /\ fr[i].blockAddress \in Nat /\ fr[j].sizeInBlocks \in Nat
    BY <1>1, <2>a
  <2>3. /\ h \in Seq(Region) /\ Len(h) = Len(fr) /\ h[j] = fr[j]
        /\ getFreeRamMemory(h) = getFreeRamMemory(fr) + d
        /\ getFreeRamMemory(fr) \in Nat
    <3> DEFINE m == fr[i].sizeInBlocks + d
    <3>1. fr[i].sizeInBlocks \in Nat /\ m \in Nat
      BY <1>1, <2>a, <2>2, SMTT(30)
    <3> DEFINE a == fr[i].blockAddress
               e == Replaced(fr, i, a, m)
    <3>2. h = e /\ a \in Nat
      BY <2>2 DEF GrowUp, Replaced
    <3> HIDE DEF d, m, a
    <3>e. /\ e \in Seq(Region) /\ Len(e) = Len(fr)
          /\ \A x \in 1 .. Len(fr) : x # i => e[x] = fr[x]
          /\ getFreeRamMemory(e) =
               getFreeRamMemory(fr) - fr[i].sizeInBlocks + m
          /\ getFreeRamMemory(fr) \in Nat
      BY <2>a, <3>1, <3>2, ReplaceTotal
    <3> HIDE DEF h
    <3>3. /\ h \in Seq(Region) /\ Len(h) = Len(fr) /\ h[j] = fr[j]
          /\ getFreeRamMemory(h) =
               getFreeRamMemory(fr) - fr[i].sizeInBlocks + m
          /\ getFreeRamMemory(fr) \in Nat
      BY <2>a, <2>2, <3>2, <3>e
    <3>4. QED
      BY <2>2, <3>1, <3>3 DEF m
  <2>4. /\ g \in Seq(Region) /\ Len(g) = Len(h) - 1
        /\ \A x \in 1 .. Len(h) - 1 : g[x] = IF x < j THEN h[x] ELSE h[x + 1]
    <3> HIDE DEF h
    <3>1. QED
      BY <2>a, <2>3, RemoveAtProperties
  <2>5. /\ getFreeRamMemory(h) = getFreeRamMemory(g) + h[j].sizeInBlocks
        /\ getFreeRamMemory(g) \in Nat
    <3> HIDE DEF h, g
    <3>1. QED
      BY <2>a, <2>3, <2>4, SumGap
  <2>6. QED
    <3>1. h[j].sizeInBlocks = fr[j].sizeInBlocks
      BY <2>3
    <3> HIDE DEF h, g
    <3>2. /\ getFreeRamMemory(g) + fr[j].sizeInBlocks =
               getFreeRamMemory(fr) + (n + fr[j].sizeInBlocks)
          /\ getFreeRamMemory(g) \in Nat /\ getFreeRamMemory(fr) \in Nat
      BY <2>3, <2>5, <3>1
    <3>3. getFreeRamMemory(g) = getFreeRamMemory(fr) + n
      <4>1. \A x, y, z \in Nat : x + z = y + (n + z) => x = y + n
        OBVIOUS
      <4>2. QED
        BY <2>2, <3>2, <4>1
    <3>4. QED
      BY <2>1, <2>3, <3>3
<1>5. CASE after # {} /\ before = {}
  <2>1. freeListFree(fr, p, n) = GrowDown(fr, j, n)
    BY <1>5 DEF freeListFree
  <2>a. j \in 1 .. Len(fr) /\ fr[j].blockAddress = p + n
    BY <1>2, <1>5
  <2> HIDE DEF i, j
  <2> DEFINE a == fr[j].blockAddress - n
             m == fr[j].sizeInBlocks + n
             g == GrowDown(fr, j, n)
             e == Replaced(fr, j, a, m)
  <2>2. a \in Nat /\ m \in Nat /\ fr[j].sizeInBlocks \in Nat
    BY <1>1, <2>a
  <2>3. g = e
    BY DEF GrowDown, Replaced
  <2> HIDE DEF a, m
  <2>e. /\ getFreeRamMemory(e) = getFreeRamMemory(fr) - fr[j].sizeInBlocks + m
        /\ getFreeRamMemory(fr) \in Nat
    BY <2>a, <2>2, ReplaceTotal
  <2> HIDE DEF g
  <2>4. /\ getFreeRamMemory(g) = getFreeRamMemory(fr) - fr[j].sizeInBlocks + m
        /\ getFreeRamMemory(fr) \in Nat
    BY <2>3, <2>e
  <2>5. QED
    BY <2>1, <2>2, <2>4 DEF g, m
<1>6. CASE after = {} /\ before # {}
  <2>1. freeListFree(fr, p, n) = GrowUp(fr, i, n)
    BY <1>6 DEF freeListFree
  <2>a. i \in 1 .. Len(fr)
    BY <1>3, <1>6
  <2> HIDE DEF i, j
  <2> DEFINE m == fr[i].sizeInBlocks + n
             g == GrowUp(fr, i, n)
             a == fr[i].blockAddress
             e == Replaced(fr, i, a, m)
  <2>2. g = e
    BY DEF GrowUp, Replaced
  <2>3. a \in Nat /\ m \in Nat /\ fr[i].sizeInBlocks \in Nat
    BY <1>1, <2>a
  <2> HIDE DEF a, m
  <2>e. /\ getFreeRamMemory(e) = getFreeRamMemory(fr) - fr[i].sizeInBlocks + m
        /\ getFreeRamMemory(fr) \in Nat
    BY <2>a, <2>3, ReplaceTotal
  <2> HIDE DEF g
  <2>4. /\ getFreeRamMemory(g) = getFreeRamMemory(fr) - fr[i].sizeInBlocks + m
        /\ getFreeRamMemory(fr) \in Nat
    BY <2>2, <2>e
  <2>5. QED
    BY <2>1, <2>3, <2>4 DEF g, m
<1>7. CASE after = {} /\ before = {}
  <2>1. freeListFree(fr, p, n) = insertFreeBlock(fr, p, n)
    BY <1>7 DEF freeListFree
  <2>2. QED
    BY <2>1, InsertTotal
<1>8. QED
  BY <1>4, <1>5, <1>6, <1>7

(* What a partial release adds to the sum.                                 *)
LEMMA ReduceTotal ==
  ASSUME NEW fr \in Seq(Region), NEW p \in Nat, NEW old \in Nat,
         NEW new \in Nat, new < old
  PROVE  /\ getFreeRamMemory(freeListReduce(fr, p, old, new)) =
              getFreeRamMemory(fr) + (old - new)
         /\ getFreeRamMemory(fr) \in Nat
<1> DEFINE after == StartingAt(fr, p + old)
           j     == CHOOSE x \in after : TRUE
           n     == old - new
           q     == p + new
<1>1. n \in Nat /\ q \in Nat /\ n <= p + old
  OBVIOUS
<1>2. CASE after # {}
  <2>1. freeListReduce(fr, p, old, new) = GrowDown(fr, j, n)
    BY <1>2 DEF freeListReduce
  <2>2. j \in 1 .. Len(fr) /\ fr[j].blockAddress = p + old
    BY <1>2, RegionEntries DEF StartingAt
  <2> HIDE DEF j, n, q
  <2> DEFINE a == fr[j].blockAddress - n
             m == fr[j].sizeInBlocks + n
             g == GrowDown(fr, j, n)
             e == Replaced(fr, j, a, m)
  <2>3. a \in Nat /\ m \in Nat /\ fr[j].sizeInBlocks \in Nat
    BY <1>1, <2>2, RegionEntries
  <2>4. g = e
    BY DEF GrowDown, Replaced
  <2> HIDE DEF a, m
  <2>e. /\ getFreeRamMemory(e) = getFreeRamMemory(fr) - fr[j].sizeInBlocks + m
        /\ getFreeRamMemory(fr) \in Nat
    BY <1>1, <2>2, <2>3, ReplaceTotal
  <2> HIDE DEF g
  <2>5. /\ getFreeRamMemory(g) = getFreeRamMemory(fr) - fr[j].sizeInBlocks + m
        /\ getFreeRamMemory(fr) \in Nat
    BY <2>4, <2>e
  <2>6. getFreeRamMemory(g) = getFreeRamMemory(fr) + n
    BY <1>1, <2>3, <2>5 DEF m
  <2>7. QED
    BY <2>1, <2>5, <2>6 DEF n, g
<1>3. CASE after = {}
  <2>1. freeListReduce(fr, p, old, new) = insertFreeBlock(fr, q, n)
    BY <1>3 DEF freeListReduce
  <2> HIDE DEF n, q
  <2>2. /\ getFreeRamMemory(insertFreeBlock(fr, q, n)) = getFreeRamMemory(fr) + n
        /\ getFreeRamMemory(fr) \in Nat
    BY <1>1, InsertTotal
  <2>3. QED
    BY <2>1, <2>2 DEF n
<1>4. QED
  BY <1>2, <1>3
=============================================================================
