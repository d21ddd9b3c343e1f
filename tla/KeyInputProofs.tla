-------------------------- MODULE KeyInputProofs --------------------------
(***************************************************************************)
(* The safety of the key input, for a ring buffer of any size, any keys    *)
(* and any number of events, on both builds.  The ring is described by the *)
(* number of keys in it, the key in each place and the slot behind write;  *)
(* what drainKeys' loop keeps is shown for one turn and then for all.      *)
(***************************************************************************)
EXTENDS KeyInput, SequenceTheorems, WellFoundedInduction, TLAPS

(* Indices wrap at most once.                                              *)
LEMMA WrapUp ==
  ASSUME NEW W \in Nat \ {0}, NEW x \in Nat, x < 2 * W
  PROVE  x % W = IF x < W THEN x ELSE x - W
OBVIOUS

LEMMA WrapDown ==
  ASSUME NEW W \in Nat \ {0}, NEW x \in Int, -W <= x, x < W
  PROVE  x % W = IF x >= 0 THEN x ELSE x + W
OBVIOUS

(* Numbers that follow each other are not both even or both odd.           *)
LEMMA EvenOdd ==
  ASSUME NEW n \in Nat
  PROVE  n % 2 = 0 <=> (n + 1) % 2 # 0
OBVIOUS

---------------------------------------------------------------------------
(* The ring.                                                               *)

Slots == 0 .. BufferSize - 1

Buffer == [data : [Slots -> Event], read : Slots, write : Slots]

Count(b) == (b.write - b.read) % BufferSize
Place(b, i) == (b.read + i - 1) % BufferSize
Slot(b, i) == b.data[Place(b, i)]

LEMMA BufferFields ==
  ASSUME NEW b \in Buffer
  PROVE  /\ b.data \in [Slots -> Event] /\ b.read \in Slots /\ b.write \in Slots
         /\ b.read \in Nat /\ b.write \in Nat
         /\ b.read < BufferSize /\ b.write < BufferSize
         /\ BufferSize \in Nat /\ BufferSize > 1
BY KeyBufferAssumption DEF Buffer, Slots

(* The arithmetic of the two indices r and w.                              *)
LEMMA Indices ==
  ASSUME NEW r \in Slots, NEW w \in Slots
  PROVE  LET n == (w - r) % BufferSize
         IN /\ n = (IF w >= r THEN w - r ELSE w - r + BufferSize)
            /\ n \in 0 .. BufferSize - 1
            /\ (n = 0 <=> r = w)
            /\ (n = BufferSize - 1 <=> r = (w + 1) % BufferSize)
            /\ (w + 1) % BufferSize = (IF w + 1 < BufferSize THEN w + 1 ELSE 0)
            /\ (w - 1) % BufferSize = (IF w = 0 THEN BufferSize - 1 ELSE w - 1)
            /\ \A i \in 1 .. BufferSize :
                 (r + i - 1) % BufferSize =
                   IF r + i - 1 < BufferSize THEN r + i - 1 ELSE r + i - 1 - BufferSize
<1>1. /\ r \in Nat /\ w \in Nat /\ r < BufferSize /\ w < BufferSize
      /\ BufferSize \in Nat \ {0} /\ BufferSize > 1
  BY KeyBufferAssumption DEF Slots
<1>2. /\ w - r \in Int /\ - BufferSize <= w - r /\ w - r < BufferSize
      /\ w - 1 \in Int /\ - BufferSize <= w - 1 /\ w - 1 < BufferSize
      /\ w + 1 \in Nat /\ w + 1 < 2 * BufferSize
      /\ \A i \in 1 .. BufferSize : r + i - 1 \in Nat /\ r + i - 1 < 2 * BufferSize
  BY <1>1
<1>3. (w - r) % BufferSize = IF w - r >= 0 THEN w - r ELSE w - r + BufferSize
  <2> DEFINE x == w - r
  <2>1. x \in Int /\ - BufferSize <= x /\ x < BufferSize
    BY <1>2
  <2> HIDE DEF x
  <2>2. x % BufferSize = IF x >= 0 THEN x ELSE x + BufferSize
    BY <1>1, <2>1, WrapDown
  <2> QED BY <2>2 DEF x
<1>4. (w - 1) % BufferSize = IF w - 1 >= 0 THEN w - 1 ELSE w - 1 + BufferSize
  <2> DEFINE x == w - 1
  <2>1. x \in Int /\ - BufferSize <= x /\ x < BufferSize
    BY <1>2
  <2> HIDE DEF x
  <2>2. x % BufferSize = IF x >= 0 THEN x ELSE x + BufferSize
    BY <1>1, <2>1, WrapDown
  <2> QED BY <2>2 DEF x
<1>5. (w + 1) % BufferSize = IF w + 1 < BufferSize THEN w + 1 ELSE w + 1 - BufferSize
  <2> DEFINE x == w + 1
  <2>1. x \in Nat /\ x < 2 * BufferSize
    BY <1>2
  <2> HIDE DEF x
  <2>2. x % BufferSize = IF x < BufferSize THEN x ELSE x - BufferSize
    BY <1>1, <2>1, WrapUp
  <2> QED BY <1>1, <2>2 DEF x
<1>6. ASSUME NEW i \in 1 .. BufferSize
      PROVE  (r + i - 1) % BufferSize =
               IF r + i - 1 < BufferSize THEN r + i - 1 ELSE r + i - 1 - BufferSize
  <2> DEFINE x == r + i - 1
  <2>1. x \in Nat /\ x < 2 * BufferSize
    BY <1>2
  <2> HIDE DEF x
  <2>2. x % BufferSize = IF x < BufferSize THEN x ELSE x - BufferSize
    BY <1>1, <2>1, WrapUp
  <2> QED BY <1>1, <2>2 DEF x
<1> HIDE DEF Slots
<1>7. /\ (w - r) % BufferSize = (IF w >= r THEN w - r ELSE w - r + BufferSize)
      /\ (w + 1) % BufferSize = (IF w + 1 < BufferSize THEN w + 1 ELSE 0)
      /\ (w - 1) % BufferSize = (IF w = 0 THEN BufferSize - 1 ELSE w - 1)
  BY <1>1, <1>3, <1>4, <1>5
<1>8. LET n == (w - r) % BufferSize
      IN /\ n \in 0 .. BufferSize - 1
         /\ (n = 0 <=> r = w)
         /\ (n = BufferSize - 1 <=> r = (w + 1) % BufferSize)
  BY <1>1, <1>7
<1> QED BY <1>6, <1>7, <1>8

(* What a buffer holds.                                                    *)
LEMMA RingFacts ==
  ASSUME NEW b \in Buffer
  PROVE  /\ Count(b) \in 0 .. BufferSize - 1
         /\ (empty(b) <=> Count(b) = 0) /\ (full(b) <=> Count(b) = BufferSize - 1)
         /\ Contents(b) = [i \in 1 .. Count(b) |-> Slot(b, i)]
         /\ Contents(b) \in Seq(Event) /\ Len(Contents(b)) = Count(b)
         /\ \A i \in 1 .. BufferSize : Place(b, i) \in Slots /\ Slot(b, i) \in Event
         /\ LastWritten(b) \in Event
         /\ Count(b) > 0 => LastWritten(b) = Slot(b, Count(b))
<1>1. /\ b.data \in [Slots -> Event] /\ b.read \in Slots /\ b.write \in Slots
      /\ b.read \in Nat /\ b.write \in Nat
      /\ b.read < BufferSize /\ b.write < BufferSize
      /\ BufferSize \in Nat /\ BufferSize > 1
  BY BufferFields
<1> DEFINE n == Count(b)
<1>2. /\ n = (IF b.write >= b.read THEN b.write - b.read ELSE b.write - b.read + BufferSize)
      /\ n \in 0 .. BufferSize - 1
      /\ (n = 0 <=> b.read = b.write)
      /\ (n = BufferSize - 1 <=> b.read = (b.write + 1) % BufferSize)
      /\ (b.write - 1) % BufferSize = (IF b.write = 0 THEN BufferSize - 1 ELSE b.write - 1)
      /\ \A i \in 1 .. BufferSize :
           Place(b, i) = IF b.read + i - 1 < BufferSize THEN b.read + i - 1
                                                        ELSE b.read + i - 1 - BufferSize
  BY <1>1, Indices DEF Count, Place
<1>3. Contents(b) = [i \in 1 .. n |-> Slot(b, i)]
  BY DEF Contents, Count, Slot, Place
<1>4. ASSUME NEW i \in 1 .. BufferSize PROVE Place(b, i) \in Slots
  <2> DEFINE p == b.read
  <2>1. p \in Nat /\ p < BufferSize /\ BufferSize \in Nat
        /\ Place(b, i) = IF p + i - 1 < BufferSize THEN p + i - 1 ELSE p + i - 1 - BufferSize
    BY <1>1, <1>2
  <2> HIDE DEF p
  <2> QED BY ONLY <2>1, i \in 1 .. BufferSize DEF Slots
<1>5. \A i \in 1 .. BufferSize : Slot(b, i) \in Event
  BY <1>1, <1>4 DEF Slot
<1>6. \A i \in 1 .. n : i \in 1 .. BufferSize
  BY <1>1, <1>2
<1>7. (b.write - 1) % BufferSize \in Slots
  <2> DEFINE p == b.write
             m == (b.write - 1) % BufferSize
  <2>1. p \in Nat /\ p < BufferSize /\ BufferSize \in Nat /\ BufferSize > 1
        /\ m = (IF p = 0 THEN BufferSize - 1 ELSE p - 1)
    BY <1>1, <1>2
  <2> HIDE DEF p, m
  <2>2. m \in Slots
    BY ONLY <2>1 DEF Slots
  <2> QED BY <2>2 DEF m
<1>8. n > 0 => Place(b, n) = (b.write - 1) % BufferSize
  BY <1>1, <1>2
<1> HIDE DEF n
<1>9. Contents(b) \in Seq(Event) /\ Len(Contents(b)) = n
  BY <1>2, <1>3, <1>5, <1>6
<1>10. LastWritten(b) \in Event
  BY <1>1, <1>7 DEF LastWritten
<1>11. n > 0 => LastWritten(b) = Slot(b, n)
  BY <1>8 DEF LastWritten, Slot
<1> QED BY <1>2, <1>3, <1>4, <1>5, <1>9, <1>10, <1>11 DEF n, empty, full

(* The values Count and Place have.                                        *)
LEMMA RingIndices ==
  ASSUME NEW b \in Buffer
  PROVE  /\ Count(b) = (IF b.write >= b.read THEN b.write - b.read
                                             ELSE b.write - b.read + BufferSize)
         /\ (b.write + 1) % BufferSize = (IF b.write + 1 < BufferSize THEN b.write + 1 ELSE 0)
         /\ (b.read + 1) % BufferSize = (IF b.read + 1 < BufferSize THEN b.read + 1 ELSE 0)
         /\ \A i \in 1 .. BufferSize :
              Place(b, i) = IF b.read + i - 1 < BufferSize THEN b.read + i - 1
                                                           ELSE b.read + i - 1 - BufferSize
BY BufferFields, Indices DEF Count, Place

Stored(b, q, e) ==
  /\ q \in Buffer /\ Count(q) = Count(b) + 1
  /\ \A i \in 1 .. Count(b) : Slot(q, i) = Slot(b, i)
  /\ Slot(q, Count(q)) = e /\ LastWritten(q) = e
  /\ \A s \in Slots : q.data[s] = IF s = b.write THEN e ELSE b.data[s]

(* push stores the key behind the others.                                  *)
LEMMA PushFacts ==
  ASSUME NEW b \in Buffer, NEW e \in Event, ~ full(b), LastWritten(b).key # e.key,
         NEW q, q = push(b, e)
  PROVE  Stored(b, q, e)
<1> DEFINE N == BufferSize
           r == b.read
           w == b.write
           n == Count(b)
<1>1. /\ b.data \in [Slots -> Event] /\ r \in Slots /\ w \in Slots
      /\ r \in Nat /\ w \in Nat /\ r < N /\ w < N /\ N \in Nat /\ N > 1
  BY BufferFields
<1>2. /\ n = (IF w >= r THEN w - r ELSE w - r + N)
      /\ (w + 1) % N = (IF w + 1 < N THEN w + 1 ELSE 0)
      /\ \A i \in 1 .. N : Place(b, i) = IF r + i - 1 < N THEN r + i - 1 ELSE r + i - 1 - N
  BY RingIndices
<1>3. n \in 0 .. N - 1 /\ n # N - 1
  BY RingFacts
<1>4. q = [b EXCEPT !.data[b.write] = e, !.write = (b.write + 1) % BufferSize]
  BY DEF push, Buffer
<1>5. (w + 1) % N \in Slots
  <2> HIDE DEF w, N
  <2>1. (w + 1) % N \in 0 .. N - 1
    BY ONLY <1>1, <1>2
  <2> QED BY <2>1 DEF Slots, N
<1>6. /\ q \in Buffer /\ q.read = r /\ q.write = (w + 1) % N
      /\ q.data = [b.data EXCEPT ![w] = e]
  BY <1>1, <1>4, <1>5 DEF Buffer
<1>7. \A s \in Slots : q.data[s] = IF s = w THEN e ELSE b.data[s]
  BY <1>1, <1>6
<1>8. /\ Count(q) = (IF q.write >= r THEN q.write - r ELSE q.write - r + N)
      /\ \A i \in 1 .. N : Place(q, i) = IF r + i - 1 < N THEN r + i - 1 ELSE r + i - 1 - N
  BY <1>6, RingIndices
<1>9. q.write = (IF w + 1 < N THEN w + 1 ELSE 0)
  BY <1>2, <1>6
<1>10. PICK m : m = Count(q)
  OBVIOUS
<1>11. PICK v : v = q.write
  OBVIOUS
<1> HIDE DEF N, r, w, n
<1>12. m = n + 1
  BY ONLY <1>1, <1>2, <1>3, <1>8, <1>9, <1>10, <1>11
<1>13. ASSUME NEW i \in 1 .. n PROVE Place(q, i) = Place(b, i) /\ Place(b, i) # w /\ i \in 1 .. N
  <2>1. i \in 1 .. N
    BY ONLY <1>1, <1>3, i \in 1 .. n
  <2>2. /\ Place(q, i) = Place(b, i)
        /\ Place(b, i) = IF r + i - 1 < N THEN r + i - 1 ELSE r + i - 1 - N
    BY ONLY <1>2, <1>8, <2>1
  <2>3. Place(b, i) # w
    BY ONLY <1>1, <1>2, <1>3, <2>1, <2>2, i \in 1 .. n
  <2> QED BY <2>1, <2>2, <2>3
<1>14. \A i \in 1 .. n : Slot(q, i) = Slot(b, i)
  BY <1>7, <1>13, RingFacts DEF Slot, N
<1>15. Place(q, m) = w
  <2>1. m \in 1 .. N
    BY ONLY <1>1, <1>3, <1>12
  <2>2. Place(q, m) = IF r + m - 1 < N THEN r + m - 1 ELSE r + m - 1 - N
    BY ONLY <1>8, <2>1
  <2> QED BY ONLY <1>1, <1>2, <1>3, <1>12, <2>2
<1>16. Slot(q, m) = e
  BY <1>1, <1>7, <1>15 DEF Slot
<1>17. m > 0
  BY <1>3, <1>12
<1>18. LastWritten(q) = Slot(q, m)
  BY <1>6, <1>10, <1>17, RingFacts
<1> QED BY <1>6, <1>7, <1>10, <1>12, <1>14, <1>16, <1>18 DEF n, w, Stored

(* pop takes the first key.                                                *)
LEMMA PopFacts ==
  ASSUME NEW b \in Buffer, ~ empty(b), NEW q, q = pop(b)
  PROVE  /\ q \in Buffer /\ Count(b) > 0 /\ Count(q) = Count(b) - 1
         /\ \A i \in 1 .. Count(q) : i + 1 \in 1 .. Count(b) /\ Slot(q, i) = Slot(b, i + 1)
         /\ oldest(b) = Slot(b, 1) /\ LastWritten(q) = LastWritten(b) /\ q.data = b.data
<1> DEFINE N == BufferSize
           r == b.read
           w == b.write
           n == Count(b)
<1>1. /\ b.data \in [Slots -> Event] /\ r \in Slots /\ w \in Slots
      /\ r \in Nat /\ w \in Nat /\ r < N /\ w < N /\ N \in Nat /\ N > 1
  BY BufferFields
<1>2. /\ n = (IF w >= r THEN w - r ELSE w - r + N)
      /\ (r + 1) % N = (IF r + 1 < N THEN r + 1 ELSE 0)
      /\ \A i \in 1 .. N : Place(b, i) = IF r + i - 1 < N THEN r + i - 1 ELSE r + i - 1 - N
  BY RingIndices
<1>3. n \in 0 .. N - 1 /\ n # 0
  BY RingFacts
<1>4. (r + 1) % N \in Slots
  <2> HIDE DEF r, N
  <2>1. (r + 1) % N \in 0 .. N - 1
    BY ONLY <1>1, <1>2
  <2> QED BY <2>1 DEF Slots, N
<1>5. /\ q \in Buffer /\ q.write = w /\ q.read = (r + 1) % N /\ q.data = b.data
  BY <1>1, <1>4 DEF Buffer, pop
<1>6. PICK p : p = q.read
  OBVIOUS
<1>7. /\ Count(q) = (IF w >= p THEN w - p ELSE w - p + N)
      /\ \A i \in 1 .. N : Place(q, i) = IF p + i - 1 < N THEN p + i - 1 ELSE p + i - 1 - N
  BY <1>5, <1>6, RingIndices
<1>8. p = (IF r + 1 < N THEN r + 1 ELSE 0)
  BY <1>2, <1>5, <1>6
<1>9. LastWritten(q) = LastWritten(b)
  BY <1>5 DEF LastWritten
<1>10. PICK m : m = Count(q)
  OBVIOUS
<1> HIDE DEF N, r, w, n
<1>11. m = n - 1
  BY ONLY <1>1, <1>2, <1>3, <1>7, <1>8, <1>10
<1>12. ASSUME NEW i \in 1 .. m PROVE i + 1 \in 1 .. n /\ Place(q, i) = Place(b, i + 1)
  <2>1. i \in 1 .. N /\ i + 1 \in 1 .. N /\ i + 1 \in 1 .. n
    BY ONLY <1>1, <1>3, <1>11, i \in 1 .. m
  <2>2. /\ Place(q, i) = IF p + i - 1 < N THEN p + i - 1 ELSE p + i - 1 - N
        /\ Place(b, i + 1) = IF r + (i + 1) - 1 < N THEN r + (i + 1) - 1 ELSE r + (i + 1) - 1 - N
    BY ONLY <1>2, <1>7, <2>1
  <2> QED BY ONLY <1>1, <1>8, <2>1, <2>2
<1>13. Place(b, 1) = r
  <2>1. 1 \in 1 .. N
    BY ONLY <1>1
  <2>2. Place(b, 1) = IF r + 1 - 1 < N THEN r + 1 - 1 ELSE r + 1 - 1 - N
    BY ONLY <1>2, <2>1
  <2> QED BY ONLY <1>1, <2>2
<1>14. oldest(b) = Slot(b, 1)
  BY <1>13 DEF oldest, Slot, r
<1> QED BY <1>3, <1>5, <1>9, <1>10, <1>11, <1>12, <1>14 DEF n, Slot

(* clear forgets the keys, not what the slots hold.                        *)
LEMMA ClearFacts ==
  ASSUME NEW b \in Buffer, NEW q, q = clear(b)
  PROVE  q \in Buffer /\ Count(q) = 0 /\ LastWritten(q) = LastWritten(b) /\ q.data = b.data
<1>1. q \in Buffer /\ q.write = b.write /\ q.read = b.write /\ q.data = b.data
  BY DEF clear, Buffer
<1>2. empty(q)
  BY <1>1 DEF empty
<1>3. LastWritten(q) = LastWritten(b)
  BY <1>1 DEF LastWritten
<1> QED BY <1>1, <1>2, <1>3, RingFacts

---------------------------------------------------------------------------
(* The loop of drainKeys.                                                  *)

LEMMA LeastOfNaturals ==
  ASSUME NEW T \in SUBSET Nat, T # {}
  PROVE  \E x \in T : \A y \in T : x <= y
<1>1. PICK x \in T : \A y \in T : ~ (<<y, x>> \in OpToRel(<, Nat))
  BY NatLessThanWellFounded, WFMin, Zenon
<1>2. \A y \in T : ~ (y < x)
  BY <1>1 DEF OpToRel
<1> QED BY <1>2

LEMMA UpTo ==
  ASSUME NEW T, NEW n \in Nat, 0 \in T, \A k \in 1 .. n : k - 1 \in T => k \in T
  PROVE  \A k \in 0 .. n : k \in T
<1> DEFINE Bad == {k \in 0 .. n : k \notin T}
<1> SUFFICES ASSUME Bad # {} PROVE FALSE
  OBVIOUS
<1>1. PICK m \in Bad : \A x \in Bad : m <= x
  <2>1. Bad \in SUBSET Nat
    OBVIOUS
  <2> HIDE DEF Bad
  <2> QED BY <2>1, LeastOfNaturals
<1>2. m \in 1 .. n /\ m - 1 \notin Bad /\ m - 1 \in 0 .. n
  BY <1>1
<1> QED BY <1>1, <1>2

(* f is the sequence of states of n turns.                                 *)
IsTurns(f, b, raw, n) ==
  f = [i \in 0 .. n |-> IF i = 0 THEN {[buf |-> b, taken |-> 0]}
                                 ELSE {drainOne(raw, s) : s \in f[i - 1]}]

LEMMA TurnsExist ==
  ASSUME NEW b, NEW raw, NEW n \in Nat
  PROVE  \E f : IsTurns(f, b, raw, n)
<1> DEFINE T == {m \in Nat : \E f : IsTurns(f, b, raw, m)}
           Turn(S) == {drainOne(raw, s) : s \in S}
           start == {[buf |-> b, taken |-> 0]}
<1>1. 0 \in T
  <2>1. IsTurns([k \in 0 .. 0 |-> start], b, raw, 0)
    BY DEF IsTurns
  <2> QED BY <2>1
<1>2. ASSUME NEW m \in 1 .. n, m - 1 \in T PROVE m \in T
  <2>1. PICK f : IsTurns(f, b, raw, m - 1)
    BY <1>2
  <2> DEFINE g == [k \in 0 .. m |-> IF k < m THEN f[k] ELSE Turn(f[m - 1])]
  <2>2. \A j \in 0 .. m - 1 : f[j] = IF j = 0 THEN start ELSE Turn(f[j - 1])
    BY <2>1 DEF IsTurns
  <2> HIDE DEF Turn, start
  <2>3. ASSUME NEW k \in 0 .. m PROVE g[k] = IF k = 0 THEN start ELSE Turn(g[k - 1])
    <3>1. CASE k < m
      BY <2>2, <3>1
    <3>2. CASE k = m
      <4>1. g[k] = Turn(f[m - 1]) /\ g[m - 1] = f[m - 1]
        BY <3>2
      <4> QED BY <3>2, <4>1
    <3> QED BY <3>1, <3>2
  <2>4. g = [k \in 0 .. m |-> IF k = 0 THEN start ELSE Turn(g[k - 1])]
    <3>1. g = [k \in 0 .. m |-> g[k]]
      OBVIOUS
    <3> HIDE DEF g
    <3> QED BY <2>3, <3>1
  <2>5. IsTurns(g, b, raw, m)
    <3> HIDE DEF g
    <3> QED BY <2>4 DEF IsTurns, Turn, start
  <2> HIDE DEF g
  <2> QED BY <2>5
<1> HIDE DEF T
<1>3. n \in T
  BY <1>1, <1>2, UpTo
<1> QED BY <1>3 DEF T

(* What every turn keeps holds at the end.                                 *)
LEMMA DrainInduction ==
  ASSUME NEW b, NEW raw, Len(raw) \in Nat, NEW T, [buf |-> b, taken |-> 0] \in T,
         \A s \in T : drainOne(raw, s) \in T, NEW d \in drainKeys(b, raw)
  PROVE  \E s \in T : d = [buf |-> s.buf, left |-> SubSeq(raw, s.taken + 1, Len(raw))]
<1> DEFINE f == turns(b, raw)
           n == Len(raw)
           U == {k \in Nat : f[k] \subseteq T}
<1>1. IsTurns(f, b, raw, n)
  <2> DEFINE h == CHOOSE g : IsTurns(g, b, raw, n)
  <2>1. IsTurns(h, b, raw, n)
    BY TurnsExist
  <2>2. f = h
    BY DEF turns, IsTurns
  <2> QED BY <2>1, <2>2
<1>2. n \in Nat
  OBVIOUS
<1> HIDE DEF f, n
<1>3. /\ f[0] = {[buf |-> b, taken |-> 0]}
      /\ \A k \in 1 .. n : f[k] = {drainOne(raw, s) : s \in f[k - 1]}
  BY <1>1, <1>2, SMTT(30) DEF IsTurns
<1>4. 0 \in U
  BY <1>3
<1>5. ASSUME NEW k \in 1 .. n, k - 1 \in U PROVE k \in U
  <2>1. f[k] = {drainOne(raw, s) : s \in f[k - 1]} /\ f[k - 1] \subseteq T /\ k \in Nat
    BY <1>2, <1>3, <1>5
  <2> QED BY <2>1
<1>6. n \in U
  <2> HIDE DEF U
  <2> QED BY <1>2, <1>4, <1>5, UpTo
<1>7. d \in {[buf |-> s.buf, left |-> SubSeq(raw, s.taken + 1, n)] : s \in f[n]}
  BY DEF drainKeys, f, n
<1> QED BY <1>6, <1>7 DEF n

(* The R47 layout moves no key to or from EXIT, R/S and the release.       *)
LEMMA RemapFacts ==
  ASSUME NEW e \in Event
  PROVE  /\ remapKey(e) \in Event /\ remapKey(e).nr = e.nr
         /\ (remapKey(e).key = Released <=> e.key = Released)
         /\ (remapKey(e).key \in Interrupts <=> e.key \in Interrupts)
<1>1. e.key \in Nat /\ e.nr \in Nat
  BY DEF Event
<1>2. CASE ~ (built_for_r47 /\ e.key \in DOMAIN R47Layout)
  BY <1>2 DEF remapKey
<1>3. CASE built_for_r47 /\ e.key \in DOMAIN R47Layout
  <2> DEFINE k == R47Layout[e.key]
  <2>1. e.key \in {11, 15, 16, 18, 23, 28}
    BY <1>3 DEF R47Layout
  <2>2. k \in {18, 16, 15, 23, 28, 11}
    BY <2>1 DEF R47Layout
  <2> HIDE DEF k
  <2>3. remapKey(e) = [e EXCEPT !.key = k]
    BY <1>3 DEF remapKey, k
  <2>4. remapKey(e) \in Event /\ remapKey(e).nr = e.nr /\ remapKey(e).key = k
    BY <2>2, <2>3 DEF Event
  <2> QED BY <2>1, <2>2, <2>4 DEF Released, Interrupts, EXIT, RS
<1> QED BY <1>2, <1>3

LoopStates(raw) == [buf : Buffer, taken : 0 .. Len(raw)]

(* A turn of the loop that takes the next key refuses it or stores it.     *)
Refuses(raw, s, t) ==
  /\ s.taken + 1 \in 1 .. Len(raw)
  /\ t.taken = s.taken + 1 /\ t.buf = s.buf
  /\ LastWritten(s.buf).key = remapKey(raw[s.taken + 1]).key

Stores(raw, s, t) ==
  /\ s.taken + 1 \in 1 .. Len(raw)
  /\ t.taken = s.taken + 1
  /\ Stored(s.buf, t.buf, remapKey(raw[s.taken + 1]))

LEMMA TurnCases ==
  ASSUME NEW raw \in Seq(Event), NEW s \in LoopStates(raw), NEW t, t = drainOne(raw, s)
  PROVE  /\ t \in LoopStates(raw)
         /\ t = s \/ Refuses(raw, s, t) \/ Stores(raw, s, t)
<1>1. /\ s.buf \in Buffer /\ s.taken \in 0 .. Len(raw) /\ Len(raw) \in Nat
  BY DEF LoopStates
<1>2. CASE full(s.buf) \/ s.taken = Len(raw)
  BY <1>2 DEF drainOne
<1>3. CASE ~ (full(s.buf) \/ s.taken = Len(raw))
  <2> DEFINE k == s.taken + 1
             e == remapKey(raw[k])
             b == s.buf
  <2>1. k \in 1 .. Len(raw) /\ k \in 0 .. Len(raw)
    BY <1>1, <1>3
  <2>2. raw[k] \in Event
    BY <2>1, ElementOfSeq
  <2>3. e \in Event
    BY <2>2, RemapFacts
  <2>4. t = [buf |-> push(b, e), taken |-> k]
    BY <1>3 DEF drainOne
  <2> HIDE DEF e
  <2>5. CASE LastWritten(b).key = e.key
    <3>1. push(b, e) = b
      BY <2>5 DEF push
    <3> QED BY <1>1, <2>1, <2>4, <2>5, <3>1 DEF LoopStates, Refuses, e
  <2>6. CASE LastWritten(b).key # e.key
    <3>1. Stored(b, push(b, e), e)
      BY <1>1, <1>3, <2>3, <2>6, PushFacts
    <3>2. push(b, e) \in Buffer
      BY <3>1 DEF Stored
    <3> QED BY <2>1, <2>4, <3>1, <3>2 DEF LoopStates, Stores, e
  <2> QED BY <2>5, <2>6
<1> QED BY <1>2, <1>3

---------------------------------------------------------------------------
(* What holds of the keys on their way.  h is the key handled last, b the  *)
(* ring, raw the system's buffer of which k keys are taken, ev the number  *)
(* of events and n that at the last stop of a computation.                 *)

(* A press has an odd number, a release an even one.                       *)
Parity(e) == e.key = Released <=> e.nr % 2 = 0

RingOrder(h, b) ==
  /\ \A i, j \in 1 .. Count(b) : i < j => Slot(b, i).nr < Slot(b, j).nr
  /\ \A i \in 1 .. Count(b) : h.nr < Slot(b, i).nr
  /\ h.nr <= LastWritten(b).nr
  /\ \A s \in Slots : Parity(b.data[s])

SdkOrder(raw, ev) ==
  /\ raw \in Seq(Event)
  /\ \A i, j \in 1 .. Len(raw) : i < j => raw[i].nr < raw[j].nr
  /\ \A i \in 1 .. Len(raw) : raw[i].nr <= ev /\ Parity(raw[i])

(* The slot behind write is older than what is still to come, also when    *)
(* its key is no longer in the ring.                                       *)
Ahead(b, raw, k, ev) ==
  /\ LastWritten(b).nr <= ev
  /\ \A i \in 1 .. Len(raw) : i > k => LastWritten(b).nr < raw[i].nr

RingSpent(b, n) ==
  \A i \in 1 .. Count(b) : Slot(b, i).key \in Interrupts => Slot(b, i).nr > n

SdkSpent(raw, n) ==
  \A i \in 1 .. Len(raw) : raw[i].key \in Interrupts => raw[i].nr > n

InRing(b) == \E i \in 1 .. Count(b) : Slot(b, i).key \in Interrupts

(* The slot behind write of an empty ring is no interrupt key, so that     *)
(* push does not take the next one for a repeat.                           *)
Fresh(b) == Count(b) = 0 => LastWritten(b).key \notin Interrupts

(* One turn of the loop, for the order of the keys.                        *)
InLoop(h, raw, ev, n) ==
  {s \in LoopStates(raw) :
     /\ RingOrder(h, s.buf) /\ Ahead(s.buf, raw, s.taken, ev) /\ RingSpent(s.buf, n)}

LEMMA TurnOrder ==
  ASSUME NEW h \in Event, NEW raw, NEW ev \in Nat, NEW n \in Nat,
         SdkOrder(raw, ev), SdkSpent(raw, n), NEW s \in InLoop(h, raw, ev, n)
  PROVE  drainOne(raw, s) \in InLoop(h, raw, ev, n)
<1>1. PICK t : t = drainOne(raw, s)
  OBVIOUS
<1>2. /\ raw \in Seq(Event) /\ Len(raw) \in Nat
      /\ \A i, j \in 1 .. Len(raw) : i < j => raw[i].nr < raw[j].nr
      /\ \A i \in 1 .. Len(raw) : raw[i].nr <= ev /\ Parity(raw[i])
      /\ \A i \in 1 .. Len(raw) : raw[i] \in Event
  BY ElementOfSeq DEF SdkOrder
<1>3. /\ s \in LoopStates(raw) /\ s.buf \in Buffer /\ s.taken \in 0 .. Len(raw)
      /\ RingOrder(h, s.buf) /\ Ahead(s.buf, raw, s.taken, ev) /\ RingSpent(s.buf, n)
  BY DEF InLoop, LoopStates
<1>4. t \in LoopStates(raw) /\ (t = s \/ Refuses(raw, s, t) \/ Stores(raw, s, t))
  BY <1>1, <1>2, <1>3, TurnCases
<1> DEFINE k == s.taken + 1
           b == s.buf
<1>5. CASE Refuses(raw, s, t)
  <2>1. k \in 1 .. Len(raw) /\ t.taken = k /\ t.buf = b
    BY <1>5 DEF Refuses
  <2>2. Ahead(b, raw, k, ev)
    BY <1>2, <1>3 DEF Ahead
  <2> QED BY <1>1, <1>3, <1>4, <2>1, <2>2 DEF InLoop
<1>6. CASE Stores(raw, s, t)
  <2> DEFINE e == remapKey(raw[k])
             q == t.buf
             m == Count(b)
  <2>1. k \in 1 .. Len(raw) /\ t.taken = k /\ Stored(b, q, e)
    BY <1>6 DEF Stores
  <2>2. /\ raw[k] \in Event /\ e \in Event /\ e.nr = raw[k].nr /\ e.nr \in Nat
        /\ (e.key = Released <=> raw[k].key = Released)
        /\ (e.key \in Interrupts <=> raw[k].key \in Interrupts)
    <3>1. raw[k] \in Event
      BY <1>2, <2>1
    <3> QED BY <3>1, RemapFacts DEF Event
  <2> HIDE DEF e, q, m, b
  <2>3. /\ q \in Buffer /\ Count(q) = m + 1 /\ Slot(q, m + 1) = e /\ LastWritten(q) = e
        /\ \A i \in 1 .. m : Slot(q, i) = Slot(b, i)
        /\ \A c \in Slots : q.data[c] = IF c = b.write THEN e ELSE b.data[c]
    BY <2>1 DEF Stored, m
  <2>4. /\ m \in Nat /\ \A i \in 1 .. m : Slot(b, i) \in Event
        /\ LastWritten(b) \in Event /\ (m > 0 => LastWritten(b) = Slot(b, m))
    <3>1. b \in Buffer
      BY <1>3 DEF b
    <3>2. m \in 0 .. BufferSize - 1 /\ BufferSize \in Nat
      BY <3>1, RingFacts, BufferFields DEF m
    <3>3. \A i \in 1 .. m : i \in 1 .. BufferSize
      BY <3>2
    <3> QED BY <3>1, <3>2, <3>3, RingFacts DEF m
  <2>5. LastWritten(b).nr \in Nat /\ LastWritten(b).nr < e.nr /\ e.nr <= ev /\ h.nr \in Nat
    <3>1. LastWritten(b).nr \in Nat /\ h.nr \in Nat
      BY <2>4 DEF Event
    <3>2. k > s.taken
      BY <1>2, <1>3, <2>1
    <3>3. LastWritten(b).nr < raw[k].nr
      BY <1>3, <2>1, <3>2 DEF Ahead, b
    <3>4. raw[k].nr <= ev
      BY <1>2, <2>1
    <3> QED BY <2>2, <3>1, <3>3, <3>4
  <2>6. \A i \in 1 .. m : Slot(b, i).nr \in Nat /\ Slot(b, i).nr <= LastWritten(b).nr
    <3> TAKE i \in 1 .. m
    <3>1. m > 0 /\ m \in 1 .. m /\ (i = m \/ i < m) /\ Slot(b, m).nr \in Nat /\ Slot(b, i).nr \in Nat
      BY <2>4 DEF Event
    <3>2. i < m => Slot(b, i).nr < Slot(b, m).nr
      BY <1>3, <3>1 DEF RingOrder, m, b
    <3> QED BY <2>4, <3>1, <3>2
  <2>7. RingOrder(h, q)
    <3>1. ASSUME NEW i \in 1 .. m + 1, NEW j \in 1 .. m + 1, i < j
          PROVE  Slot(q, i).nr < Slot(q, j).nr
      <4>1. i \in 1 .. m
        BY <2>4, <3>1
      <4>2. CASE j = m + 1
        BY <2>2, <2>3, <2>5, <2>6, <4>1, <4>2
      <4>3. CASE j # m + 1
        <5>1. j \in 1 .. m
          BY <2>4, <4>3
        <5>2. Slot(b, i).nr < Slot(b, j).nr
          BY <1>3, <3>1, <4>1, <5>1 DEF RingOrder, m, b
        <5> QED BY <2>3, <4>1, <5>1, <5>2
      <4> QED BY <4>2, <4>3
    <3>2. ASSUME NEW i \in 1 .. m + 1 PROVE h.nr < Slot(q, i).nr
      <4>1. h.nr <= LastWritten(b).nr
        BY <1>3 DEF RingOrder, b
      <4>2. CASE i = m + 1
        BY <2>2, <2>3, <2>5, <4>1, <4>2
      <4>3. CASE i # m + 1
        <5>1. i \in 1 .. m
          BY <2>4, <4>3
        <5>2. h.nr < Slot(b, i).nr
          BY <1>3, <5>1 DEF RingOrder, m, b
        <5> QED BY <2>3, <5>1, <5>2
      <4> QED BY <4>2, <4>3
    <3>3. h.nr <= LastWritten(q).nr
      <4>1. h.nr <= LastWritten(b).nr
        BY <1>3 DEF RingOrder, b
      <4> QED BY <2>2, <2>3, <2>5, <4>1
    <3>4. ASSUME NEW c \in Slots PROVE Parity(q.data[c])
      <4>1. Parity(e)
        BY <1>2, <2>1, <2>2 DEF Parity
      <4>2. Parity(b.data[c])
        BY <1>3 DEF RingOrder, b
      <4> QED BY <2>3, <4>1, <4>2
    <3> QED BY <2>3, <3>1, <3>2, <3>3, <3>4 DEF RingOrder
  <2>8. Ahead(q, raw, k, ev)
    <3>1. \A i \in 1 .. Len(raw) : i > k => e.nr < raw[i].nr
      BY <1>2, <2>1, <2>2
    <3> QED BY <2>3, <2>5, <3>1 DEF Ahead
  <2>9. RingSpent(q, n)
    <3> SUFFICES ASSUME NEW i \in 1 .. m + 1, Slot(q, i).key \in Interrupts
                 PROVE  Slot(q, i).nr > n
      BY <2>3 DEF RingSpent
    <3>1. CASE i = m + 1
      BY <2>1, <2>2, <2>3, <3>1 DEF SdkSpent
    <3>2. CASE i # m + 1
      <4>1. i \in 1 .. m
        BY <2>4, <3>2
      <4>2. Slot(q, i) = Slot(b, i)
        BY <2>3, <4>1
      <4>3. Slot(b, i).key \in Interrupts => Slot(b, i).nr > n
        BY <1>3, <4>1 DEF RingSpent, m, b
      <4> QED BY <4>2, <4>3
    <3> QED BY <3>1, <3>2
  <2> QED BY <1>1, <1>4, <2>1, <2>7, <2>8, <2>9 DEF InLoop, q
<1> QED BY <1>1, <1>4, <1>5, <1>6

(* The part of a sequence behind its first k elements.                     *)
LEMMA Rest ==
  ASSUME NEW S, NEW raw \in Seq(S), NEW k \in 0 .. Len(raw), NEW l,
         l = SubSeq(raw, k + 1, Len(raw))
  PROVE  /\ l \in Seq(S) /\ Len(l) = Len(raw) - k /\ Len(raw) \in Nat
         /\ \A i \in 1 .. Len(l) : k + i \in 1 .. Len(raw) /\ l[i] = raw[k + i]
<1>1. Len(raw) \in Nat /\ k + 1 \in 1 .. Len(raw) + 1
  OBVIOUS
<1>2. /\ l \in Seq(S)
      /\ Len(l) = IF k + 1 <= Len(raw) THEN Len(raw) - (k + 1) + 1 ELSE 0
      /\ \A i \in 1 .. Len(raw) - (k + 1) + 1 : l[i] = raw[k + 1 + i - 1]
  <2> DEFINE a == k + 1
             z == Len(raw)
  <2>1. a \in 1 .. Len(raw) + 1 /\ z \in a - 1 .. Len(raw)
    BY <1>1
  <2> HIDE DEF a, z
  <2>2. /\ SubSeq(raw, a, z) \in Seq(S)
        /\ Len(SubSeq(raw, a, z)) = IF a <= z THEN z - a + 1 ELSE 0
        /\ \A i \in 1 .. z - a + 1 : SubSeq(raw, a, z)[i] = raw[a + i - 1]
    BY <2>1, SubSeqProperties
  <2> QED BY <2>2 DEF a, z
<1>3. Len(l) = Len(raw) - k
  BY <1>1, <1>2
<1>4. ASSUME NEW i \in 1 .. Len(l) PROVE k + i \in 1 .. Len(raw) /\ l[i] = raw[k + i]
  <2>1. i \in 1 .. Len(raw) - (k + 1) + 1 /\ k + 1 + i - 1 = k + i /\ k + i \in 1 .. Len(raw)
    BY <1>1, <1>3
  <2> QED BY <1>2, <2>1
<1> QED BY <1>1, <1>2, <1>3, <1>4

(* The order of all keys on their way.                                     *)
Ordered(h, b, raw, ev, n) ==
  /\ b \in Buffer /\ RingOrder(h, b) /\ SdkOrder(raw, ev) /\ Ahead(b, raw, 0, ev)
  /\ RingSpent(b, n) /\ SdkSpent(raw, n)

(* What is left of raw is in order, too.                                   *)
LEMMA RestOrder ==
  ASSUME NEW raw, NEW ev \in Nat, NEW n \in Nat, SdkOrder(raw, ev), SdkSpent(raw, n),
         NEW b, NEW k \in 0 .. Len(raw), Ahead(b, raw, k, ev),
         NEW l, l = SubSeq(raw, k + 1, Len(raw))
  PROVE  SdkOrder(l, ev) /\ Ahead(b, l, 0, ev) /\ SdkSpent(l, n)
<1>1. /\ raw \in Seq(Event) /\ Len(raw) \in Nat
      /\ \A i, j \in 1 .. Len(raw) : i < j => raw[i].nr < raw[j].nr
      /\ \A i \in 1 .. Len(raw) : raw[i].nr <= ev /\ Parity(raw[i])
  BY DEF SdkOrder
<1>2. /\ l \in Seq(Event) /\ Len(l) = Len(raw) - k
      /\ \A i \in 1 .. Len(l) : k + i \in 1 .. Len(raw) /\ l[i] = raw[k + i]
  BY <1>1, Rest
<1>3. \A i \in 1 .. Len(l) : k + i > k
  BY <1>1, <1>2
<1>4. \A i, j \in 1 .. Len(l) : i < j => k + i < k + j
  BY <1>1, <1>2
<1>5. \A i, j \in 1 .. Len(l) : i < j => l[i].nr < l[j].nr
  BY <1>1, <1>2, <1>4
<1>6. \A i \in 1 .. Len(l) : l[i].nr <= ev /\ Parity(l[i])
  BY <1>1, <1>2
<1>7. Ahead(b, l, 0, ev)
  BY <1>2, <1>3 DEF Ahead
<1>8. SdkSpent(l, n)
  BY <1>2 DEF SdkSpent
<1> QED BY <1>2, <1>5, <1>6, <1>7, <1>8 DEF SdkOrder

(* drainKeys reorders nothing.                                             *)
LEMMA DrainOrder ==
  ASSUME NEW h \in Event, NEW b, NEW raw, NEW ev \in Nat, NEW n \in Nat,
         Ordered(h, b, raw, ev, n), NEW d \in drainKeys(b, raw)
  PROVE  Ordered(h, d.buf, d.left, ev, n)
<1> DEFINE T == InLoop(h, raw, ev, n)
           s0 == [buf |-> b, taken |-> 0]
<1>1. /\ b \in Buffer /\ RingOrder(h, b) /\ SdkOrder(raw, ev) /\ Ahead(b, raw, 0, ev)
      /\ RingSpent(b, n) /\ SdkSpent(raw, n) /\ raw \in Seq(Event) /\ Len(raw) \in Nat
  BY DEF Ordered, SdkOrder
<1>2. s0 \in T
  BY <1>1 DEF InLoop, LoopStates
<1>3. \A s \in T : drainOne(raw, s) \in T
  BY <1>1, TurnOrder
<1> HIDE DEF T
<1>4. PICK s \in T : d = [buf |-> s.buf, left |-> SubSeq(raw, s.taken + 1, Len(raw))]
  BY <1>1, <1>2, <1>3, DrainInduction
<1>5. /\ s.buf \in Buffer /\ s.taken \in 0 .. Len(raw)
      /\ RingOrder(h, s.buf) /\ Ahead(s.buf, raw, s.taken, ev) /\ RingSpent(s.buf, n)
  BY DEF T, InLoop, LoopStates
<1>6. d.buf = s.buf /\ d.left = SubSeq(raw, s.taken + 1, Len(raw))
  BY <1>4
<1>7. SdkOrder(d.left, ev) /\ Ahead(s.buf, d.left, 0, ev) /\ SdkSpent(d.left, n)
  BY <1>1, <1>5, <1>6, RestOrder
<1> QED BY <1>5, <1>6, <1>7 DEF Ordered

---------------------------------------------------------------------------
(* An interrupt key is not lost on its way.                                *)
InRaw(raw, k) == \E i \in 1 .. Len(raw) : i > k /\ raw[i].key \in Interrupts

LEMMA TurnInterrupt ==
  ASSUME NEW raw \in Seq(Event), NEW s \in LoopStates(raw), Fresh(s.buf),
         InRing(s.buf) \/ InRaw(raw, s.taken), NEW t, t = drainOne(raw, s)
  PROVE  Fresh(t.buf) /\ (InRing(t.buf) \/ InRaw(raw, t.taken))
<1> DEFINE k == s.taken + 1
           b == s.buf
           q == t.buf
           e == remapKey(raw[k])
<1>1. t = s \/ Refuses(raw, s, t) \/ Stores(raw, s, t)
  BY TurnCases
<1>2. b \in Buffer /\ s.taken \in 0 .. Len(raw) /\ Len(raw) \in Nat
  BY DEF LoopStates
<1>3. /\ Count(b) \in Nat /\ (Count(b) > 0 => LastWritten(b) = Slot(b, Count(b)))
  BY <1>2, RingFacts, BufferFields
<1>4. ASSUME k \in 1 .. Len(raw) PROVE e.key \in Interrupts <=> raw[k].key \in Interrupts
  <2>1. raw[k] \in Event
    BY <1>4, ElementOfSeq
  <2> QED BY <2>1, RemapFacts
<1>5. ASSUME InRaw(raw, s.taken), raw[k].key \notin Interrupts PROVE InRaw(raw, k)
  <2>1. PICK i \in 1 .. Len(raw) : i > s.taken /\ raw[i].key \in Interrupts
    BY <1>5 DEF InRaw
  <2>2. i # k
    BY <1>5, <2>1
  <2>3. i > k
    BY <1>2, <2>1, <2>2
  <2> QED BY <2>1, <2>3 DEF InRaw
<1>6. CASE Refuses(raw, s, t)
  <2>1. k \in 1 .. Len(raw) /\ t.taken = k /\ q = b /\ LastWritten(b).key = e.key
    BY <1>6 DEF Refuses
  <2>2. CASE raw[k].key \in Interrupts
    <3>1. LastWritten(b).key \in Interrupts
      BY <1>4, <2>1, <2>2
    <3>2. Count(b) > 0
      BY <1>3, <3>1 DEF Fresh
    <3>3. Count(b) \in 1 .. Count(b) /\ Slot(b, Count(b)).key \in Interrupts
      BY <1>3, <3>1, <3>2
    <3>4. InRing(b)
      BY <3>3 DEF InRing
    <3> QED BY <2>1, <3>4
  <2>3. CASE raw[k].key \notin Interrupts
    BY <1>5, <2>1, <2>3
  <2> QED BY <2>2, <2>3
<1>7. CASE Stores(raw, s, t)
  <2>1. /\ k \in 1 .. Len(raw) /\ t.taken = k /\ Count(q) = Count(b) + 1
        /\ Slot(q, Count(q)) = e /\ \A i \in 1 .. Count(b) : Slot(q, i) = Slot(b, i)
    BY <1>7 DEF Stores, Stored
  <2>2. Fresh(q)
    BY <1>3, <2>1 DEF Fresh
  <2>3. \A i \in 1 .. Count(b) : i \in 1 .. Count(q)
    BY <1>3, <2>1
  <2>4. InRing(b) => InRing(q)
    BY <2>1, <2>3 DEF InRing
  <2>5. CASE raw[k].key \in Interrupts
    <3>1. Count(q) \in 1 .. Count(q) /\ Slot(q, Count(q)).key \in Interrupts
      BY <1>3, <1>4, <2>1, <2>5
    <3>2. InRing(q)
      BY <3>1 DEF InRing
    <3> QED BY <2>2, <3>2
  <2>6. CASE raw[k].key \notin Interrupts
    BY <1>5, <2>1, <2>2, <2>4, <2>6
  <2> QED BY <2>5, <2>6
<1> QED BY <1>1, <1>6, <1>7

LEMMA DrainInterrupt ==
  ASSUME NEW b \in Buffer, NEW raw \in Seq(Event), Fresh(b), NEW d \in drainKeys(b, raw)
  PROVE  Fresh(d.buf) /\ (InRing(b) \/ InRaw(raw, 0) => InRing(d.buf) \/ InRaw(d.left, 0))
<1> DEFINE s0 == [buf |-> b, taken |-> 0]
<1>0. Len(raw) \in Nat
  OBVIOUS
<1>1. Fresh(d.buf)
  <2> DEFINE T == {s \in LoopStates(raw) : Fresh(s.buf)}
  <2>1. s0 \in T
    BY <1>0 DEF LoopStates
  <2>2. ASSUME NEW s \in T PROVE drainOne(raw, s) \in T
    <3>1. PICK t : t = drainOne(raw, s)
      OBVIOUS
    <3>2. t \in LoopStates(raw) /\ (t = s \/ Refuses(raw, s, t) \/ Stores(raw, s, t))
      BY <3>1, TurnCases
    <3>3. CASE Stores(raw, s, t)
      <4>1. s.buf \in Buffer /\ Count(t.buf) = Count(s.buf) + 1
        BY <3>3 DEF Stores, Stored, LoopStates
      <4>2. Count(s.buf) \in Nat
        BY <4>1, RingFacts, BufferFields
      <4>3. Fresh(t.buf)
        BY <4>1, <4>2 DEF Fresh
      <4> QED BY <3>1, <3>2, <4>3
    <3>4. CASE t = s \/ Refuses(raw, s, t)
      BY <3>1, <3>2, <3>4 DEF Refuses
    <3> QED BY <3>2, <3>3, <3>4
  <2> HIDE DEF T
  <2>3. PICK s \in T : d = [buf |-> s.buf, left |-> SubSeq(raw, s.taken + 1, Len(raw))]
    BY <1>0, <2>1, <2>2, DrainInduction
  <2> QED BY <2>3 DEF T
<1>2. ASSUME InRing(b) \/ InRaw(raw, 0) PROVE InRing(d.buf) \/ InRaw(d.left, 0)
  <2> DEFINE T == {s \in LoopStates(raw) :
                     Fresh(s.buf) /\ (InRing(s.buf) \/ InRaw(raw, s.taken))}
  <2>1. s0 \in T
    BY <1>0, <1>2 DEF LoopStates
  <2>2. ASSUME NEW s \in T PROVE drainOne(raw, s) \in T
    BY TurnCases, TurnInterrupt
  <2> HIDE DEF T
  <2>3. PICK s \in T : d = [buf |-> s.buf, left |-> SubSeq(raw, s.taken + 1, Len(raw))]
    BY <1>0, <2>1, <2>2, DrainInduction
  <2>4. s.taken \in 0 .. Len(raw) /\ (InRing(s.buf) \/ InRaw(raw, s.taken))
    BY DEF T, LoopStates
  <2>5. d.buf = s.buf /\ d.left = SubSeq(raw, s.taken + 1, Len(raw))
    BY <2>3
  <2>6. /\ Len(d.left) = Len(raw) - s.taken
        /\ \A i \in 1 .. Len(d.left) : d.left[i] = raw[s.taken + i]
    <3>1. PICK k \in 0 .. Len(raw) : k = s.taken
      BY <2>4
    <3>2. LET r == SubSeq(raw, k + 1, Len(raw))
          IN /\ Len(r) = Len(raw) - k
             /\ \A i \in 1 .. Len(r) : r[i] = raw[k + i]
      BY ONLY Rest, raw \in Seq(Event), k \in 0 .. Len(raw)
    <3> QED BY ONLY <2>5, <3>1, <3>2
  <2>7. ASSUME InRaw(raw, s.taken) PROVE InRaw(d.left, 0)
    <3>1. PICK i \in 1 .. Len(raw) : i > s.taken /\ raw[i].key \in Interrupts
      BY <2>7 DEF InRaw
    <3>2. PICK j : j = i - s.taken
      OBVIOUS
    <3>3. j \in 1 .. Len(d.left) /\ j > 0 /\ s.taken + j = i
      <4> DEFINE z == Len(raw)
                 k == s.taken
                 m == Len(d.left)
      <4>1. k \in 0 .. z /\ z \in Nat /\ m = z - k /\ i \in 1 .. z /\ i > k /\ j = i - k
        BY <1>0, <2>4, <2>6, <3>1, <3>2
      <4> HIDE DEF z, k, m
      <4>2. j \in 1 .. m /\ j > 0 /\ k + j = i
        BY ONLY <4>1
      <4> QED BY <4>2 DEF k, m
    <3> QED BY <2>6, <3>1, <3>3 DEF InRaw
  <2> QED BY <2>4, <2>5, <2>7
<1> QED BY <1>1, <1>2

---------------------------------------------------------------------------
(* A key whose predecessor is known is not refused as a repeat of it.      *)

(* Event m is handled, in the ring or in the system's buffer.              *)
Known(h, b, raw, m) ==
  \/ h.nr = m
  \/ \E i \in 1 .. Count(b) : Slot(b, i).nr = m
  \/ \E i \in 1 .. Len(raw) : raw[i].nr = m

LEMMA RingBelow ==
  ASSUME NEW h \in Event, NEW b \in Buffer, RingOrder(h, b)
  PROVE  /\ LastWritten(b) \in Event /\ LastWritten(b).nr \in Nat /\ h.nr \in Nat
         /\ h.nr <= LastWritten(b).nr /\ Parity(LastWritten(b))
         /\ \A i \in 1 .. Count(b) : Slot(b, i).nr \in Nat /\ Slot(b, i).nr <= LastWritten(b).nr
<1> DEFINE m == Count(b)
<1>1. /\ m \in 0 .. BufferSize - 1 /\ BufferSize \in Nat /\ BufferSize > 1
      /\ LastWritten(b) \in Event /\ (m > 0 => LastWritten(b) = Slot(b, m))
      /\ \A i \in 1 .. BufferSize : Slot(b, i) \in Event
  BY RingFacts, BufferFields
<1> HIDE DEF m
<1>2. \A i \in 1 .. m : i \in 1 .. BufferSize
  BY <1>1
<1>3. ASSUME NEW i \in 1 .. m
      PROVE  Slot(b, i).nr \in Nat /\ Slot(b, i).nr <= LastWritten(b).nr
  <2>1. m > 0 /\ m \in 1 .. m /\ (i = m \/ i < m)
    BY <1>1
  <2>2. Slot(b, m).nr \in Nat /\ Slot(b, i).nr \in Nat
    BY <1>1, <1>2, <2>1 DEF Event
  <2>3. i < m => Slot(b, i).nr < Slot(b, m).nr
    BY <2>1 DEF RingOrder, m
  <2> QED BY <1>1, <2>1, <2>2, <2>3
<1>4. Parity(LastWritten(b))
  <2> DEFINE v == (b.write - 1) % BufferSize
  <2>1. b.write \in Slots /\ b.write \in Nat /\ b.write < BufferSize
        /\ v = (IF b.write = 0 THEN BufferSize - 1 ELSE b.write - 1)
    BY BufferFields, Indices
  <2>2. PICK w : w = b.write
    OBVIOUS
  <2>3. w \in Nat /\ w < BufferSize /\ v = (IF w = 0 THEN BufferSize - 1 ELSE w - 1)
    BY <2>1, <2>2
  <2> HIDE DEF v
  <2>4. v \in Slots
    BY ONLY <1>1, <2>3 DEF Slots
  <2> QED BY <2>4 DEF RingOrder, LastWritten, v
<1> QED BY <1>1, <1>3, <1>4 DEF RingOrder, Event, m

(* The state of the loop: which keys have arrived.                         *)
Arrived(h, b, raw, s) ==
  /\ s.taken = 0 => s.buf = b
  /\ s.taken > 0 => (LastWritten(s.buf).key = Released <=> raw[s.taken].key = Released)
  /\ \A i \in 1 .. Len(raw) :
       i <= s.taken /\ Known(h, b, raw, raw[i].nr - 1) =>
         \E j \in 1 .. Count(s.buf) : Slot(s.buf, j).nr = raw[i].nr

(* The key after k known ones is not refused.                              *)
LEMMA NotRefused ==
  ASSUME NEW h \in Event, NEW b, NEW raw, NEW ev \in Nat, NEW n \in Nat,
         Ordered(h, b, raw, ev, n), NEW s \in InLoop(h, raw, ev, n), Arrived(h, b, raw, s),
         NEW k \in 1 .. Len(raw), k = s.taken + 1, Known(h, b, raw, raw[k].nr - 1)
  PROVE  LastWritten(s.buf).key # remapKey(raw[k]).key
<1>1. /\ b \in Buffer /\ RingOrder(h, b) /\ raw \in Seq(Event) /\ Len(raw) \in Nat
      /\ \A i, j \in 1 .. Len(raw) : i < j => raw[i].nr < raw[j].nr
      /\ \A i \in 1 .. Len(raw) : Parity(raw[i]) /\ LastWritten(b).nr < raw[i].nr
  <2>1. \A i \in 1 .. Len(raw) : i > 0
    OBVIOUS
  <2> QED BY <2>1 DEF Ordered, SdkOrder, Ahead
<1>2. \A i \in 1 .. Len(raw) : raw[i] \in Event /\ raw[i].nr \in Nat
  <2>1. \A i \in 1 .. Len(raw) : raw[i] \in Event
    BY ONLY <1>1, ElementOfSeq
  <2> QED BY ONLY <2>1 DEF Event
<1>3. /\ LastWritten(b).nr \in Nat /\ h.nr \in Nat
      /\ h.nr <= LastWritten(b).nr /\ Parity(LastWritten(b))
      /\ \A i \in 1 .. Count(b) : Slot(b, i).nr \in Nat /\ Slot(b, i).nr <= LastWritten(b).nr
  BY <1>1, RingBelow
<1>4. s.taken \in 0 .. Len(raw)
  BY DEF InLoop, LoopStates
<1> DEFINE m == raw[k].nr - 1
<1>5. \/ m <= LastWritten(b).nr
      \/ \E i \in 1 .. Len(raw) : raw[i].nr = m /\ i < k
  <2>1. CASE h.nr = m
    BY <1>3, <2>1
  <2>2. CASE \E i \in 1 .. Count(b) : Slot(b, i).nr = m
    BY <1>3, <2>2
  <2>3. CASE \E i \in 1 .. Len(raw) : raw[i].nr = m
    <3>1. PICK i \in 1 .. Len(raw) : raw[i].nr = m
      BY <2>3
    <3>2. raw[i].nr < raw[k].nr
      BY ONLY <1>2, <3>1, k \in 1 .. Len(raw)
    <3>3. k < i => raw[k].nr < raw[i].nr
      BY <1>1
    <3>4. ~ (k < i) /\ k # i
      BY ONLY <1>2, <3>2, <3>3, i \in 1 .. Len(raw), k \in 1 .. Len(raw)
    <3>5. i < k
      BY ONLY <1>1, <3>4, i \in 1 .. Len(raw), k \in 1 .. Len(raw)
    <3> QED BY <3>1, <3>5
  <2> QED BY <2>1, <2>2, <2>3 DEF Known
<1>6. raw[k] \in Event /\ raw[k].nr \in Nat /\ Parity(raw[k]) /\ LastWritten(b).nr < raw[k].nr
      /\ m \in Int
  BY <1>1, <1>2
<1>7. remapKey(raw[k]).key = Released <=> raw[k].key = Released
  BY <1>6, RemapFacts
<1>8. ASSUME NEW x \in Nat, x = m PROVE x % 2 = 0 <=> raw[k].key # Released
  <2>1. raw[k].nr = x + 1
    BY <1>6, <1>8
  <2>2. x % 2 = 0 <=> (x + 1) % 2 # 0
    BY EvenOdd
  <2> QED BY <1>6, <2>1, <2>2 DEF Parity
<1>9. CASE s.taken = 0
  <2>1. k = 1 /\ s.buf = b
    BY <1>4, <1>9 DEF Arrived
  <2>2. ~ \E i \in 1 .. Len(raw) : i < k
    BY <1>1, <2>1
  <2>3. LastWritten(b).nr = m
    BY <1>3, <1>5, <1>6, <2>2
  <2>4. LastWritten(b).key = Released <=> raw[k].key # Released
    BY <1>3, <1>8, <2>3 DEF Parity
  <2> QED BY <1>7, <2>1, <2>4
<1>10. CASE s.taken > 0
  <2> DEFINE p == s.taken
  <2>1. p \in 1 .. Len(raw) /\ p < k /\ \A i \in 1 .. Len(raw) : i < k => i = p \/ i < p
    BY <1>1, <1>4, <1>10
  <2>2. raw[p].nr \in Nat /\ raw[p].nr < raw[k].nr /\ LastWritten(b).nr < raw[p].nr
    BY <1>1, <1>2, <2>1
  <2> HIDE DEF p
  <2>3. m <= raw[p].nr
    <3>1. CASE m <= LastWritten(b).nr
      BY <1>3, <1>6, <2>2, <3>1
    <3>2. CASE \E i \in 1 .. Len(raw) : raw[i].nr = m /\ i < k
      <4>1. PICK i \in 1 .. Len(raw) : raw[i].nr = m /\ i < k
        BY <3>2
      <4>2. i = p \/ raw[i].nr < raw[p].nr
        BY <1>1, <2>1, <4>1
      <4> QED BY <1>2, <2>2, <4>1, <4>2
    <3> QED BY <1>5, <3>1, <3>2
  <2>4. raw[p].nr = m
    BY <1>6, <2>2, <2>3
  <2>5. raw[p].key = Released <=> raw[k].key # Released
    BY <1>1, <1>8, <2>1, <2>2, <2>4 DEF Parity
  <2>6. LastWritten(s.buf).key = Released <=> raw[p].key = Released
    BY <1>10 DEF Arrived, p
  <2> QED BY <1>7, <2>5, <2>6
<1> QED BY <1>4, <1>9, <1>10

LEMMA TurnArrives ==
  ASSUME NEW h \in Event, NEW b, NEW raw, NEW ev \in Nat, NEW n \in Nat,
         Ordered(h, b, raw, ev, n), NEW s \in InLoop(h, raw, ev, n), Arrived(h, b, raw, s),
         NEW t, t = drainOne(raw, s)
  PROVE  Arrived(h, b, raw, t)
<1> DEFINE k == s.taken + 1
           c == s.buf
           q == t.buf
           e == remapKey(raw[k])
<1>1. raw \in Seq(Event) /\ Len(raw) \in Nat
  BY DEF Ordered, SdkOrder
<1>2. s \in LoopStates(raw) /\ c \in Buffer /\ s.taken \in 0 .. Len(raw)
  BY DEF InLoop, LoopStates
<1>3. t = s \/ Refuses(raw, s, t) \/ Stores(raw, s, t)
  BY <1>1, <1>2, TurnCases
<1>4. ASSUME k \in 1 .. Len(raw)
      PROVE  e.nr = raw[k].nr /\ (e.key = Released <=> raw[k].key = Released)
  <2>1. raw[k] \in Event
    BY <1>1, <1>4, ElementOfSeq
  <2> QED BY <2>1, RemapFacts
<1>5. \A i \in 1 .. Len(raw) : i <= k => i <= s.taken \/ i = k
  BY <1>1, <1>2
<1>6. k > 0 /\ k # 0
  BY <1>2
<1>7. \A i \in 1 .. Len(raw) :
        i <= s.taken /\ Known(h, b, raw, raw[i].nr - 1) =>
          \E j \in 1 .. Count(c) : Slot(c, j).nr = raw[i].nr
  BY DEF Arrived
<1>8. CASE Refuses(raw, s, t)
  <2>1. k \in 1 .. Len(raw) /\ t.taken = k /\ q = c /\ LastWritten(c).key = e.key
    BY <1>8 DEF Refuses
  <2>2. ~ Known(h, b, raw, raw[k].nr - 1)
    BY <2>1, NotRefused
  <2>3. LastWritten(q).key = Released <=> raw[k].key = Released
    BY <1>4, <2>1
  <2> QED BY <1>5, <1>6, <1>7, <2>1, <2>2, <2>3 DEF Arrived
<1>9. CASE Stores(raw, s, t)
  <2>1. /\ k \in 1 .. Len(raw) /\ t.taken = k /\ Count(q) = Count(c) + 1
        /\ Slot(q, Count(q)) = e /\ LastWritten(q) = e
        /\ \A i \in 1 .. Count(c) : Slot(q, i) = Slot(c, i)
    BY <1>9 DEF Stores, Stored
  <2>2. Count(c) \in Nat
    BY <1>2, RingFacts, BufferFields
  <2>3. Count(q) \in 1 .. Count(q) /\ \A j \in 1 .. Count(c) : j \in 1 .. Count(q)
    BY <2>1, <2>2
  <2>4. LastWritten(q).key = Released <=> raw[k].key = Released
    BY <1>4, <2>1
  <2>5. Slot(q, Count(q)).nr = raw[k].nr
    BY <1>4, <2>1
  <2>6. ASSUME NEW i \in 1 .. Len(raw), i <= k, Known(h, b, raw, raw[i].nr - 1)
        PROVE  \E j \in 1 .. Count(q) : Slot(q, j).nr = raw[i].nr
    <3>1. CASE i = k
      BY <2>3, <2>5, <3>1
    <3>2. CASE i <= s.taken
      <4>1. PICK j \in 1 .. Count(c) : Slot(c, j).nr = raw[i].nr
        BY <1>7, <2>6, <3>2
      <4> QED BY <2>1, <2>3, <4>1
    <3> QED BY <1>5, <2>6, <3>1, <3>2
  <2> QED BY <1>6, <2>1, <2>4, <2>6 DEF Arrived
<1> QED BY <1>3, <1>8, <1>9

(* drainKeys loses no key whose predecessor is known.                      *)
LEMMA DrainArrives ==
  ASSUME NEW h \in Event, NEW b, NEW raw, NEW ev \in Nat, NEW n \in Nat,
         Ordered(h, b, raw, ev, n), NEW d \in drainKeys(b, raw),
         NEW i \in 1 .. Len(raw), Known(h, b, raw, raw[i].nr - 1)
  PROVE  Known(h, d.buf, d.left, raw[i].nr)
<1> DEFINE T == {s \in InLoop(h, raw, ev, n) : Arrived(h, b, raw, s)}
           s0 == [buf |-> b, taken |-> 0]
<1>1. /\ b \in Buffer /\ RingOrder(h, b) /\ SdkOrder(raw, ev) /\ Ahead(b, raw, 0, ev)
      /\ RingSpent(b, n) /\ SdkSpent(raw, n) /\ raw \in Seq(Event) /\ Len(raw) \in Nat
  BY DEF Ordered, SdkOrder
<1>2. s0 \in T
  <2>1. s0 \in InLoop(h, raw, ev, n)
    BY <1>1 DEF InLoop, LoopStates
  <2>2. Arrived(h, b, raw, s0)
    BY <1>1 DEF Arrived
  <2> QED BY <2>1, <2>2
<1>3. \A s \in T : drainOne(raw, s) \in T
  BY <1>1, TurnOrder, TurnArrives
<1> HIDE DEF T
<1>4. PICK s \in T : d = [buf |-> s.buf, left |-> SubSeq(raw, s.taken + 1, Len(raw))]
  BY <1>1, <1>2, <1>3, DrainInduction
<1>5. s.taken \in 0 .. Len(raw) /\ Arrived(h, b, raw, s)
  BY DEF T, InLoop, LoopStates
<1>6. d.buf = s.buf /\ d.left = SubSeq(raw, s.taken + 1, Len(raw))
  BY <1>4
<1>7. CASE i <= s.taken
  BY <1>5, <1>6, <1>7 DEF Arrived, Known
<1>8. CASE ~ (i <= s.taken)
  <2>1. /\ Len(d.left) = Len(raw) - s.taken
        /\ \A j \in 1 .. Len(d.left) : d.left[j] = raw[s.taken + j]
    <3>1. PICK k, l : k = s.taken /\ l = d.left
      OBVIOUS
    <3>2. raw \in Seq(Event) /\ k \in 0 .. Len(raw) /\ l = SubSeq(raw, k + 1, Len(raw))
      BY <1>1, <1>5, <1>6, <3>1
    <3>3. Len(l) = Len(raw) - k /\ \A j \in 1 .. Len(l) : l[j] = raw[k + j]
      BY ONLY <3>2, Rest
    <3> QED BY ONLY <3>1, <3>3
  <2> DEFINE z == Len(raw)
             k == s.taken
             m == Len(d.left)
             j == i - k
  <2>2. k \in 0 .. z /\ z \in Nat /\ m = z - k /\ i \in 1 .. z /\ ~ (i <= k)
    BY <1>1, <1>5, <1>8, <2>1
  <2> HIDE DEF z, k, m
  <2>3. j \in 1 .. m /\ k + j = i
    BY ONLY <2>2
  <2>4. d.left[j] = raw[i]
    <3> HIDE DEF j
    <3> QED BY <2>1, <2>3 DEF k, m
  <2> HIDE DEF j
  <2> QED BY <2>3, <2>4 DEF Known, m
<1> QED BY <1>7, <1>8

---------------------------------------------------------------------------
(* The system's buffer holds the last events, without a gap: keys are only *)
(* taken from its front, and thrown away all at once.                      *)

Latest(raw, ev) ==
  /\ raw \in Seq(Event) /\ Len(raw) <= ev
  /\ \A i \in 1 .. Len(raw) : raw[i].nr = ev - Len(raw) + i

LEMMA LatestAppend ==
  ASSUME NEW ev \in Nat, NEW raw, Latest(raw, ev), NEW x \in Event, x.nr = ev + 1
  PROVE  Latest(Append(raw, x), ev + 1)
<1>1. PICK l : l = Append(raw, x)
  OBVIOUS
<1>2. /\ raw \in Seq(Event) /\ Len(raw) \in Nat /\ Len(raw) <= ev
      /\ \A i \in 1 .. Len(raw) : raw[i].nr = ev - Len(raw) + i
  BY DEF Latest
<1> DEFINE z == Len(raw)
<1>3. /\ l \in Seq(Event) /\ Len(l) = z + 1 /\ l[z + 1] = x
      /\ \A i \in 1 .. z : l[i] = raw[i]
  BY <1>1, <1>2, AppendProperties
<1>4. z \in Nat /\ z <= ev /\ \A i \in 1 .. z : raw[i].nr = ev - z + i
  BY <1>2
<1> HIDE DEF z
<1>5. ASSUME NEW i \in 1 .. z + 1 PROVE l[i].nr = (ev + 1) - (z + 1) + i
  <2>1. CASE i = z + 1
    <3>1. l[i].nr = ev + 1
      BY <1>3, <2>1
    <3> QED BY <1>4, <2>1, <3>1
  <2>2. CASE i # z + 1
    <3>1. i \in 1 .. z
      BY <1>4, <2>2
    <3>2. l[i].nr = ev - z + i
      BY <1>3, <1>4, <3>1
    <3> QED BY <1>4, <3>2
  <2> QED BY <2>1, <2>2
<1>6. Len(l) <= ev + 1
  BY <1>3, <1>4
<1> QED BY <1>1, <1>3, <1>5, <1>6 DEF Latest

LEMMA LatestRest ==
  ASSUME NEW ev \in Nat, NEW raw, Latest(raw, ev), NEW k \in 0 .. Len(raw),
         NEW l, l = SubSeq(raw, k + 1, Len(raw))
  PROVE  Latest(l, ev)
<1>1. /\ raw \in Seq(Event) /\ Len(raw) \in Nat /\ Len(raw) <= ev
      /\ \A i \in 1 .. Len(raw) : raw[i].nr = ev - Len(raw) + i
  BY DEF Latest
<1>2. /\ l \in Seq(Event) /\ Len(l) = Len(raw) - k
      /\ \A i \in 1 .. Len(l) : k + i \in 1 .. Len(raw) /\ l[i] = raw[k + i]
  <2>1. raw \in Seq(Event) /\ k \in 0 .. Len(raw)
    BY <1>1
  <2>2. LET s == SubSeq(raw, k + 1, Len(raw))
        IN /\ s \in Seq(Event) /\ Len(s) = Len(raw) - k
           /\ \A i \in 1 .. Len(s) : k + i \in 1 .. Len(raw) /\ s[i] = raw[k + i]
    BY ONLY <2>1, Rest
  <2> QED BY ONLY <2>2, l = SubSeq(raw, k + 1, Len(raw))
<1>3. ASSUME NEW i \in 1 .. Len(l) PROVE l[i].nr = ev - Len(l) + i
  <2>1. l[i].nr = ev - Len(raw) + (k + i)
    BY <1>1, <1>2
  <2>2. PICK z, m : z = Len(raw) /\ m = Len(l)
    OBVIOUS
  <2>3. z \in Nat /\ m = z - k /\ k \in 0 .. z /\ i \in 1 .. m
    BY <1>1, <1>2, <2>2
  <2>4. ev - z + (k + i) = ev - m + i
    BY ONLY <2>3, ev \in Nat
  <2> QED BY <2>1, <2>2, <2>4
<1>4. Len(l) <= ev
  BY <1>1, <1>2
<1> QED BY <1>2, <1>3, <1>4 DEF Latest

LEMMA LatestNone ==
  ASSUME NEW ev \in Nat, NEW raw, raw = <<>>
  PROVE  Latest(raw, ev)
<1>1. raw \in Seq(Event) /\ Len(raw) = 0 /\ \A i \in 1 .. Len(raw) : FALSE
  OBVIOUS
<1> QED BY <1>1 DEF Latest

LEMMA LatestDrain ==
  ASSUME NEW ev \in Nat, NEW raw, Latest(raw, ev), NEW b \in Buffer, NEW d \in drainKeys(b, raw)
  PROVE  Latest(d.left, ev)
<1> DEFINE T == LoopStates(raw)
<1>1. raw \in Seq(Event) /\ Len(raw) \in Nat /\ \A i \in 1 .. Len(raw) : raw[i] \in Event
  BY ElementOfSeq DEF Latest
<1>2. [buf |-> b, taken |-> 0] \in T
  BY <1>1 DEF LoopStates
<1>3. \A s \in T : drainOne(raw, s) \in T
  BY <1>1, TurnCases
<1> HIDE DEF T
<1>4. PICK s \in T : d = [buf |-> s.buf, left |-> SubSeq(raw, s.taken + 1, Len(raw))]
  BY <1>1, <1>2, <1>3, DrainInduction
<1>5. s.taken \in 0 .. Len(raw) /\ d.left = SubSeq(raw, s.taken + 1, Len(raw))
  BY <1>4 DEF T, LoopStates
<1> QED BY <1>5, LatestRest

---------------------------------------------------------------------------
(* The inductive invariant.                                                *)

PressesAlternate == held = Released <=> events % 2 = 0

(* An interrupt key that is asked for is in the ring buffer, in the        *)
(* system's buffer while that is still to be popped, or has been popped.   *)
AskedIsSeen ==
  asked => /\ mode = "computing"
           /\ \/ InRing(buffer)
              \/ poll \notin Found /\ InRaw(sdk, 0)
              \/ poll = "interrupt"

(* Only computations and programs poll.                                    *)
PollsWhenBusy == poll # "no" => mode \in {"computing", "running"}

(* Every event up to the last stop of a computation has been typed.        *)
StopIsPast == stoppedAt <= events

Inv ==
  /\ TypeOK
  /\ Ordered(handled, buffer, sdk, events, stoppedAt)
  /\ PressesAlternate
  /\ StopIsPast
  /\ mode = "computing" => Fresh(buffer)
  /\ AskedIsSeen
  /\ Latest(sdk, events)
  /\ PollsWhenBusy

(* The types of the two buffers are in Ordered.                            *)
LEMMA InvFacts ==
  ASSUME Inv
  PROVE  /\ held \in Keys \union {Released} /\ events \in 0 .. MaxEvents /\ mode \in Modes
         /\ handled \in Event /\ asked \in BOOLEAN /\ stoppedAt \in 0 .. MaxEvents
         /\ MaxEvents \in Nat /\ events \in Nat /\ stoppedAt \in Nat
         /\ Ordered(handled, buffer, sdk, events, stoppedAt)
         /\ buffer \in Buffer /\ sdk \in Seq(Event) /\ Len(sdk) \in Nat
         /\ RingOrder(handled, buffer) /\ SdkOrder(sdk, events) /\ Ahead(buffer, sdk, 0, events)
         /\ RingSpent(buffer, stoppedAt) /\ SdkSpent(sdk, stoppedAt)
         /\ poll \in Stages /\ Latest(sdk, events)
<1>1. TypeOK /\ Ordered(handled, buffer, sdk, events, stoppedAt) /\ Latest(sdk, events)
  BY DEF Inv
<1>2. MaxEvents \in Nat
  BY KeyInputAssumption
<1>3. /\ held \in Keys \union {Released} /\ events \in 0 .. MaxEvents /\ mode \in Modes
      /\ poll \in Stages
      /\ handled \in Event /\ asked \in BOOLEAN /\ stoppedAt \in 0 .. MaxEvents
      /\ sdk \in Seq(Event)
  BY <1>1 DEF TypeOK
<1>4. events \in Nat /\ stoppedAt \in Nat /\ Len(sdk) \in Nat
  BY <1>2, <1>3
<1> QED BY <1>1, <1>2, <1>3, <1>4 DEF Ordered

LEMMA HasInterrupt ==
  ASSUME NEW b \in Buffer
  PROVE  hasInterruptKey(b) <=> InRing(b)
<1>1. /\ Count(b) \in Nat /\ Contents(b) = [i \in 1 .. Count(b) |-> Slot(b, i)]
  BY RingFacts, BufferFields
<1>2. DOMAIN Contents(b) = 1 .. Count(b) /\ \A i \in 1 .. Count(b) : Contents(b)[i] = Slot(b, i)
  BY <1>1
<1> QED BY <1>2 DEF hasInterruptKey, InRing

LEMMA InSdkIsRaw ==
  ASSUME sdk \in Seq(Event)
  PROVE  InSdk <=> InRaw(sdk, 0)
<1>1. DOMAIN sdk = 1 .. Len(sdk) /\ \A i \in 1 .. Len(sdk) : i > 0
  BY LenProperties
<1> QED BY <1>1 DEF InSdk, InRaw

(* A new event.                                                            *)
LEMMA AppendOrder ==
  ASSUME NEW h \in Event, NEW b, NEW raw, NEW ev \in Nat, NEW n \in Nat, n <= ev,
         Ordered(h, b, raw, ev, n), NEW x \in Event, x.nr = ev + 1, Parity(x),
         NEW l, l = Append(raw, x)
  PROVE  Ordered(h, b, l, ev + 1, n)
<1>1. /\ b \in Buffer /\ RingOrder(h, b) /\ RingSpent(b, n)
      /\ raw \in Seq(Event) /\ Len(raw) \in Nat
      /\ \A i, j \in 1 .. Len(raw) : i < j => raw[i].nr < raw[j].nr
      /\ \A i \in 1 .. Len(raw) : raw[i].nr <= ev /\ Parity(raw[i])
      /\ \A i \in 1 .. Len(raw) : i > 0 => LastWritten(b).nr < raw[i].nr
      /\ \A i \in 1 .. Len(raw) : raw[i].key \in Interrupts => raw[i].nr > n
      /\ LastWritten(b).nr <= ev
  BY DEF Ordered, SdkOrder, Ahead, SdkSpent
<1>2. LastWritten(b).nr \in Nat
  BY <1>1, RingBelow
<1> DEFINE z == Len(raw)
<1>3. /\ l \in Seq(Event) /\ Len(l) = z + 1 /\ l[z + 1] = x
      /\ \A i \in 1 .. z : l[i] = raw[i]
  BY <1>1, AppendProperties
<1>4. \A i \in 1 .. z : raw[i] \in Event
  BY <1>1, ElementOfSeq
<1>5. \A i \in 1 .. z : raw[i].nr \in Nat
  BY <1>4 DEF Event
<1>6. z \in Nat
  BY <1>1
<1> HIDE DEF z
<1>7. \A i \in 1 .. z + 1 : i = z + 1 \/ i \in 1 .. z
  BY <1>6
<1>8. ASSUME NEW i \in 1 .. z + 1, NEW j \in 1 .. z + 1, i < j PROVE l[i].nr < l[j].nr
  <2>1. i \in 1 .. z
    BY <1>6, <1>8
  <2>2. CASE j = z + 1
    <3>1. raw[i].nr \in Nat /\ raw[i].nr <= ev /\ l[i] = raw[i] /\ l[j] = x
      BY <1>1, <1>3, <1>5, <2>1, <2>2 DEF z
    <3> QED BY <3>1
  <2>3. CASE j \in 1 .. z
    BY <1>1, <1>3, <1>8, <2>1, <2>3 DEF z
  <2> QED BY <1>7, <2>2, <2>3
<1>9. ASSUME NEW i \in 1 .. z + 1
      PROVE  /\ l[i].nr <= ev + 1 /\ Parity(l[i]) /\ LastWritten(b).nr < l[i].nr
             /\ (l[i].key \in Interrupts => l[i].nr > n)
  <2>1. CASE i = z + 1
    <3>1. l[i] = x
      BY <1>3, <2>1
    <3> QED BY <1>1, <1>2, <3>1
  <2>2. CASE i \in 1 .. z
    <3>1. l[i] = raw[i] /\ raw[i].nr \in Nat /\ raw[i].nr <= ev /\ Parity(raw[i])
          /\ LastWritten(b).nr < raw[i].nr /\ (raw[i].key \in Interrupts => raw[i].nr > n)
      BY <1>1, <1>3, <1>5, <2>2 DEF z
    <3> QED BY <3>1
  <2> QED BY <1>7, <2>1, <2>2
<1>10. SdkOrder(l, ev + 1) /\ SdkSpent(l, n)
  BY <1>3, <1>8, <1>9 DEF SdkOrder, SdkSpent
<1>11. Ahead(b, l, 0, ev + 1)
  BY <1>1, <1>2, <1>3, <1>9 DEF Ahead
<1> QED BY <1>1, <1>10, <1>11 DEF Ordered

(* The main loop takes a key from the ring.                                *)
LEMMA PopOrder ==
  ASSUME NEW h \in Event, NEW b, NEW raw, NEW ev \in Nat, NEW n \in Nat,
         Ordered(h, b, raw, ev, n), ~ empty(b), NEW q, q = pop(b)
  PROVE  /\ Ordered(oldest(b), q, raw, ev, n) /\ oldest(b) \in Event
         /\ (oldest(b).key \in Interrupts => oldest(b).nr > n)
         /\ (oldest(b).key \notin Interrupts => Fresh(q))
<1>1. b \in Buffer /\ RingOrder(h, b) /\ RingSpent(b, n) /\ Ahead(b, raw, 0, ev)
  BY DEF Ordered
<1> DEFINE m == Count(b)
<1>2. /\ q \in Buffer /\ m > 0 /\ Count(q) = m - 1
      /\ \A i \in 1 .. Count(q) : i + 1 \in 1 .. m /\ Slot(q, i) = Slot(b, i + 1)
      /\ oldest(b) = Slot(b, 1) /\ LastWritten(q) = LastWritten(b) /\ q.data = b.data
  BY <1>1, PopFacts
<1>3. m \in Nat /\ 1 \in 1 .. BufferSize /\ (m > 0 => LastWritten(b) = Slot(b, m))
  BY <1>1, RingFacts, BufferFields
<1>4. Slot(b, 1) \in Event
  BY <1>1, <1>3, RingFacts
<1>5. 1 \in 1 .. m
  BY <1>2, <1>3
<1>6. Slot(b, 1).nr <= LastWritten(b).nr
  BY <1>1, <1>5, RingBelow
<1>7. RingOrder(Slot(b, 1), q)
  <2>1. \A i \in 1 .. Count(q) : 1 < i + 1
    OBVIOUS
  <2>2. \A i, j \in 1 .. Count(q) : i < j => i + 1 < j + 1
    OBVIOUS
  <2>3. \A i, j \in 1 .. m : i < j => Slot(b, i).nr < Slot(b, j).nr
    BY <1>1 DEF RingOrder
  <2>4. \A i, j \in 1 .. Count(q) : i < j => Slot(q, i).nr < Slot(q, j).nr
    BY <1>2, <2>2, <2>3
  <2>5. \A i \in 1 .. Count(q) : Slot(b, 1).nr < Slot(q, i).nr
    BY <1>2, <1>5, <2>1, <2>3
  <2>6. \A c \in Slots : Parity(q.data[c])
    BY <1>1, <1>2 DEF RingOrder
  <2> QED BY <1>2, <1>6, <2>4, <2>5, <2>6 DEF RingOrder
<1>8. RingSpent(q, n) /\ (Slot(b, 1).key \in Interrupts => Slot(b, 1).nr > n)
  BY <1>1, <1>2, <1>5 DEF RingSpent
<1>9. Ahead(q, raw, 0, ev)
  BY <1>1, <1>2 DEF Ahead
<1>10. ASSUME Slot(b, 1).key \notin Interrupts PROVE Fresh(q)
  <2>1. Count(q) = 0 => m = 1
    BY <1>2, <1>3
  <2> QED BY <1>2, <1>3, <1>10, <2>1 DEF Fresh
<1> QED BY <1>2, <1>4, <1>7, <1>8, <1>9, <1>10 DEF Ordered

(* Keys are dropped from either buffer.                                    *)
LEMMA ClearOrder ==
  ASSUME NEW h, NEW b, NEW raw, NEW ev, NEW n, Ordered(h, b, raw, ev, n)
  PROVE  Ordered(h, clear(b), raw, ev, n) /\ ~ InRing(clear(b))
<1>1. PICK q : q = clear(b)
  OBVIOUS
<1>2. b \in Buffer
  BY DEF Ordered
<1>3. q \in Buffer /\ Count(q) = 0 /\ LastWritten(q) = LastWritten(b) /\ q.data = b.data
  BY <1>1, <1>2, ClearFacts
<1>4. \A i \in 1 .. Count(q) : FALSE
  BY <1>3
<1>5. RingOrder(h, q) /\ RingSpent(q, n) /\ Ahead(q, raw, 0, ev) /\ ~ InRing(q)
  BY <1>3, <1>4 DEF Ordered, RingOrder, RingSpent, Ahead, InRing
<1> QED BY <1>1, <1>3, <1>5 DEF Ordered

LEMMA DropOrder ==
  ASSUME NEW h, NEW b, NEW raw, NEW ev \in Nat, NEW n, Ordered(h, b, raw, ev, n)
  PROVE  /\ Ordered(h, b, <<>>, ev, n)
         /\ (~ InRing(b) => Ordered(h, b, <<>>, ev, ev))
<1>1. <<>> \in Seq(Event) /\ Len(<<>>) = 0 /\ \A i \in 1 .. Len(<<>>) : FALSE
  OBVIOUS
<1>2. PICK l : l = <<>>
  OBVIOUS
<1>3. l \in Seq(Event) /\ \A i \in 1 .. Len(l) : FALSE
  BY <1>1, <1>2
<1>4. SdkOrder(l, ev) /\ Ahead(b, l, 0, ev) /\ \A m : SdkSpent(l, m)
  BY <1>3 DEF Ordered, SdkOrder, Ahead, SdkSpent
<1>5. ~ InRing(b) => RingSpent(b, ev)
  BY DEF InRing, RingSpent
<1> QED BY <1>2, <1>4, <1>5 DEF Ordered

LEMMA TailOrder ==
  ASSUME NEW h, NEW b, NEW raw, NEW ev \in Nat, NEW n \in Nat, Ordered(h, b, raw, ev, n),
         raw # <<>>
  PROVE  Ordered(h, b, Tail(raw), ev, n)
<1>1. /\ raw \in Seq(Event) /\ Len(raw) \in Nat /\ SdkOrder(raw, ev) /\ SdkSpent(raw, n)
      /\ Ahead(b, raw, 0, ev)
  BY DEF Ordered, SdkOrder
<1>2. Len(raw) > 0
  BY <1>1, EmptySeq, LenProperties
<1>3. 1 \in 0 .. Len(raw) /\ Tail(raw) = SubSeq(raw, 2, Len(raw))
  BY <1>1, <1>2
<1>4. Ahead(b, raw, 1, ev)
  BY <1>1 DEF Ahead
<1>5. PICK k : k = 1
  OBVIOUS
<1>6. k \in 0 .. Len(raw) /\ Ahead(b, raw, k, ev) /\ Tail(raw) = SubSeq(raw, k + 1, Len(raw))
  BY <1>3, <1>4, <1>5
<1>7. SdkOrder(Tail(raw), ev) /\ Ahead(b, Tail(raw), 0, ev) /\ SdkSpent(Tail(raw), n)
  BY <1>1, <1>6, RestOrder
<1> QED BY <1>7 DEF Ordered

---------------------------------------------------------------------------
(* The steps.                                                              *)

(* The two buffers have their types when they are in order.                *)
LEMMA OrderTyped ==
  ASSUME NEW h, NEW b, NEW raw, NEW ev, NEW n, Ordered(h, b, raw, ev, n)
  PROVE  /\ raw \in Seq(Event)
         /\ b \in [data  : [0 .. BufferSize - 1 -> Event],
                   read  : 0 .. BufferSize - 1,
                   write : 0 .. BufferSize - 1]
BY DEF Ordered, SdkOrder, Buffer, Slots

(* Nothing is numbered up to the number of events that were typed before   *)
(* those still in the system's buffer.                                     *)
LEMMA LatestSpent ==
  ASSUME NEW ev \in Nat, NEW raw, Latest(raw, ev), NEW n, n = ev - Len(raw)
  PROVE  n \in Nat /\ n <= ev /\ SdkSpent(raw, n)
<1>1. Len(raw) \in Nat /\ Len(raw) <= ev /\ \A i \in 1 .. Len(raw) : raw[i].nr = n + i
  BY DEF Latest
<1>2. n \in Nat /\ n <= ev
  BY <1>1
<1>3. \A i \in 1 .. Len(raw) : n + i > n
  BY <1>1, <1>2
<1> QED BY <1>1, <1>2, <1>3 DEF SdkSpent

LEMMA KeyboardKeeps ==
  ASSUME Inv, Keyboard
  PROVE  Inv'
<1>1. /\ held \in Keys \union {Released} /\ events \in 0 .. MaxEvents /\ mode \in Modes
      /\ handled \in Event /\ asked \in BOOLEAN /\ stoppedAt \in 0 .. MaxEvents
      /\ MaxEvents \in Nat /\ events \in Nat /\ stoppedAt \in Nat
      /\ Ordered(handled, buffer, sdk, events, stoppedAt) /\ sdk \in Seq(Event)
      /\ Len(sdk) \in Nat
  BY InvFacts
<1>2. Keys \subseteq Nat \ {0} /\ MaxEvents % 2 = 0
  BY KeyInputAssumption
<1>3. stoppedAt <= events
  BY DEF Inv, StopIsPast
<1>4. PICK k \in Keys \union {Released} :
        /\ KeyEvent(k) /\ UNCHANGED <<buffer, mode, poll, handled, stoppedAt>>
        /\ (k = Released <=> held # Released)
        /\ \/ asked' = asked
           \/ asked' = TRUE /\ mode = "computing" /\ poll \notin Found /\ k \in Interrupts
        /\ (k # Released => events < MaxEvents)
  <2>1. CASE KeyUp
    BY <2>1 DEF KeyUp
  <2>2. CASE \E k \in Keys : KeyDown(k)
    <3>1. PICK k \in Keys : KeyDown(k)
      BY <2>2
    <3>2. k # Released /\ held = Released /\ events < MaxEvents /\ KeyEvent(k)
          /\ UNCHANGED <<buffer, mode, poll, handled, stoppedAt>>
      BY <1>2, <3>1 DEF KeyDown, Released
    <3>3. \/ asked' = asked
          \/ asked' = TRUE /\ mode = "computing" /\ poll \notin Found /\ k \in Interrupts
      BY <1>1, <3>1 DEF KeyDown
    <3> QED BY <3>2, <3>3
  <2> QED BY <2>1, <2>2 DEF Keyboard
<1> DEFINE x == [key |-> k, nr |-> events + 1]
<1>5. held' = k /\ events' = events + 1 /\ sdk' = Append(sdk, x)
  BY <1>4 DEF KeyEvent
<1>6. (events % 2 = 0 <=> (events + 1) % 2 # 0) /\ (held = Released <=> events % 2 = 0)
  BY <1>1, EvenOdd DEF Inv, PressesAlternate
<1>7. x \in Event /\ x.nr = events + 1 /\ x.key = k /\ Parity(x)
  BY <1>1, <1>2, <1>4, <1>6 DEF Event, Parity, Released
<1> HIDE DEF x
<1>8. Ordered(handled, buffer, sdk', events + 1, stoppedAt)
  BY <1>1, <1>3, <1>5, <1>7, AppendOrder
<1>9. events + 1 \in 0 .. MaxEvents
  <2>1. CASE k # Released
    BY <1>1, <1>4, <2>1
  <2>2. CASE k = Released
    <3>1. events # MaxEvents
      BY <1>2, <1>4, <1>6, <2>2
    <3> QED BY <1>1, <3>1
  <2> QED BY <2>1, <2>2
<1>10. PressesAlternate'
  BY <1>4, <1>5, <1>6 DEF PressesAlternate
<1>11. InRaw(sdk', 0) \/ (~ InRaw(sdk, 0) /\ k \notin Interrupts)
  <2> DEFINE z == Len(sdk)
  <2>1. /\ Len(sdk') = z + 1 /\ sdk'[z + 1] = x /\ \A i \in 1 .. z : sdk'[i] = sdk[i]
    BY <1>1, <1>5, <1>7, AppendProperties
  <2>2. z \in Nat
    BY <1>1
  <2> HIDE DEF z
  <2>3. z + 1 \in 1 .. z + 1 /\ z + 1 > 0 /\ \A i \in 1 .. z : i \in 1 .. z + 1
    BY <2>2
  <2>4. k \in Interrupts => InRaw(sdk', 0)
    BY <1>7, <2>1, <2>3 DEF InRaw
  <2>5. InRaw(sdk, 0) => InRaw(sdk', 0)
    BY <2>1, <2>3 DEF InRaw, z
  <2> QED BY <2>4, <2>5
<1>12. AskedIsSeen'
  BY <1>4, <1>11 DEF AskedIsSeen, Inv
<1>13. Latest(sdk', events')
  BY <1>1, <1>5, <1>7, InvFacts, LatestAppend
<1>14. TypeOK'
  <2>1. /\ held' \in Keys \union {Released} /\ events' \in 0 .. MaxEvents /\ mode' \in Modes
        /\ poll' \in Stages
        /\ handled' \in Event /\ asked' \in BOOLEAN /\ stoppedAt' \in 0 .. MaxEvents
        /\ Ordered(handled', buffer', sdk', events', stoppedAt')
    BY <1>1, <1>4, <1>5, <1>8, <1>9, InvFacts
  <2> QED BY <2>1, OrderTyped DEF TypeOK
<1> QED
  BY <1>1, <1>3, <1>4, <1>5, <1>8, <1>10, <1>12, <1>13, <1>14 DEF Inv, PollsWhenBusy, StopIsPast

(* drainKeys, whoever calls it.                                            *)
LEMMA DrainKeeps ==
  ASSUME Inv, NEW d \in drainKeys(buffer, sdk), buffer' = d.buf, sdk' = d.left,
         UNCHANGED <<held, events, poll, handled, asked, stoppedAt>>,
         poll = "no",
         mode' = mode \/ (mode # "computing" /\ mode' # "computing" /\ mode' \in Modes)
  PROVE  Inv'
<1>1. /\ held \in Keys \union {Released} /\ events \in 0 .. MaxEvents /\ mode \in Modes
      /\ handled \in Event /\ asked \in BOOLEAN /\ stoppedAt \in 0 .. MaxEvents
      /\ events \in Nat /\ stoppedAt \in Nat /\ buffer \in Buffer /\ sdk \in Seq(Event)
      /\ Ordered(handled, buffer, sdk, events, stoppedAt)
  BY InvFacts
<1>2. Ordered(handled, d.buf, d.left, events, stoppedAt) /\ Latest(d.left, events)
  BY <1>1, InvFacts, DrainOrder, LatestDrain
<1>3. TypeOK'
  <2>1. /\ held' \in Keys \union {Released} /\ events' \in 0 .. MaxEvents /\ mode' \in Modes
        /\ poll' \in Stages
        /\ handled' \in Event /\ asked' \in BOOLEAN /\ stoppedAt' \in 0 .. MaxEvents
        /\ Ordered(handled', buffer', sdk', events', stoppedAt')
    BY <1>1, <1>2, InvFacts
  <2> QED BY <2>1, OrderTyped DEF TypeOK
<1>4. CASE mode = "computing"
  <2>1. Fresh(buffer) /\ poll = "no" /\ (asked => InRing(buffer) \/ InRaw(sdk, 0))
    BY <1>4 DEF Inv, AskedIsSeen
  <2>2. Fresh(d.buf) /\ (InRing(buffer) \/ InRaw(sdk, 0) => InRing(d.buf) \/ InRaw(d.left, 0))
    BY <1>1, <2>1, DrainInterrupt
  <2>3. AskedIsSeen'
    BY <1>4, <2>1, <2>2 DEF AskedIsSeen, Found
  <2> QED BY <1>2, <1>3, <2>2, <2>3 DEF Inv, PollsWhenBusy, PressesAlternate, StopIsPast
<1>5. CASE mode # "computing"
  <2>1. ~ asked /\ mode' # "computing"
    BY <1>5 DEF Inv, AskedIsSeen
  <2> QED BY <1>2, <1>3, <2>1 DEF Inv, PollsWhenBusy, PressesAlternate, StopIsPast, AskedIsSeen
<1> QED BY <1>4, <1>5

LEMMA DrainsKeep ==
  ASSUME Inv, Redraw \/ MainLoopDrains \/ ProgramEnds
  PROVE  Inv'
<1>1. keyBuffer_pop /\ UNCHANGED <<held, events, poll, handled, asked, stoppedAt>>
  BY DEF Redraw, MainLoopDrains, ProgramEnds
<1>2. /\ poll = "no"
      /\ mode' = mode \/ (mode # "computing" /\ mode' # "computing" /\ mode' \in Modes)
  BY DEF Redraw, MainLoopDrains, ProgramEnds, Modes, Inv, PollsWhenBusy
<1>3. PICK d \in drainKeys(buffer, sdk) : buffer' = d.buf /\ sdk' = d.left
  BY <1>1 DEF keyBuffer_pop
<1> QED BY <1>1, <1>2, <1>3, DrainKeeps

LEMMA HandlesKeeps ==
  ASSUME Inv, MainLoopHandlesKey
  PROVE  Inv'
<1>1. /\ held \in Keys \union {Released} /\ events \in 0 .. MaxEvents /\ mode \in Modes
      /\ handled \in Event /\ asked \in BOOLEAN /\ stoppedAt \in 0 .. MaxEvents
      /\ events \in Nat /\ stoppedAt \in Nat
      /\ Ordered(handled, buffer, sdk, events, stoppedAt)
  BY InvFacts
<1>2. asked' = FALSE /\ poll = "no" /\ UNCHANGED <<held, events, sdk, poll, stoppedAt>>
  BY DEF MainLoopHandlesKey, Inv, PollsWhenBusy
<1>3. /\ Ordered(handled', buffer', sdk, events, stoppedAt) /\ handled' \in Event
      /\ mode' \in Modes /\ (mode' = "computing" => Fresh(buffer'))
  <2>1. CASE empty(buffer)
    BY <1>1, <2>1 DEF MainLoopHandlesKey, Modes
  <2>2. CASE ~ empty(buffer)
    <3>1. /\ buffer' = pop(buffer) /\ handled' = oldest(buffer)
          /\ mode' \in ModesAfter(oldest(buffer).key)
      BY <2>2 DEF MainLoopHandlesKey
    <3>2. /\ Ordered(oldest(buffer), pop(buffer), sdk, events, stoppedAt)
          /\ oldest(buffer) \in Event
          /\ (oldest(buffer).key \notin Interrupts => Fresh(pop(buffer)))
      BY <1>1, <2>2, PopOrder
    <3>3. ASSUME NEW k, mode' \in ModesAfter(k)
          PROVE  mode' \in Modes /\ (mode' = "computing" => k \notin Interrupts)
      BY <3>3 DEF ModesAfter, Modes, Interrupts, EXIT, RS, DISP, Released
    <3> QED BY <3>1, <3>2, <3>3
  <2> QED BY <2>1, <2>2
<1>4. TypeOK'
  <2>1. /\ held' \in Keys \union {Released} /\ events' \in 0 .. MaxEvents /\ mode' \in Modes
        /\ poll' \in Stages
        /\ handled' \in Event /\ asked' \in BOOLEAN /\ stoppedAt' \in 0 .. MaxEvents
        /\ Ordered(handled', buffer', sdk', events', stoppedAt')
    BY <1>1, <1>2, <1>3, InvFacts
  <2> QED BY <2>1, OrderTyped DEF TypeOK
<1> QED BY <1>2, <1>3, <1>4 DEF Inv, PollsWhenBusy, PressesAlternate, StopIsPast, AskedIsSeen

(* The steps that leave the ring alone or clear it, and are not in a       *)
(* computation afterwards.                                                 *)
LEMMA DropsKeep ==
  ASSUME Inv, MainLoopDropsKeys \/ ComputationEnds \/ ProgramPoll \/ ProgramStops
  PROVE  Inv'
<1>1. /\ held \in Keys \union {Released} /\ events \in 0 .. MaxEvents /\ mode \in Modes
      /\ handled \in Event /\ asked \in BOOLEAN /\ stoppedAt \in 0 .. MaxEvents
      /\ events \in Nat /\ stoppedAt \in Nat /\ buffer \in Buffer
      /\ Ordered(handled, buffer, sdk, events, stoppedAt)
      /\ poll \in Stages /\ Latest(sdk, events)
  BY InvFacts
<1>2. UNCHANGED <<held, events, handled, stoppedAt>> /\ poll' = "no" /\ poll' \in Stages
  BY DEF MainLoopDropsKeys, ComputationEnds, ProgramPoll, ProgramStops, Stages, Inv, PollsWhenBusy
<1>3. mode' \in Modes /\ mode' # "computing" /\ asked' = FALSE
  BY <1>1 DEF MainLoopDropsKeys, ComputationEnds, ProgramPoll, ProgramStops, Inv, AskedIsSeen, Modes
<1>4. Ordered(handled, buffer', sdk', events, stoppedAt) /\ Latest(sdk', events)
  <2>1. CASE MainLoopDropsKeys
    <3>1. PICK d \in drainKeys(buffer, sdk) : buffer' = clear(d.buf) /\ sdk' = d.left
      BY <2>1 DEF MainLoopDropsKeys
    <3>2. Ordered(handled, d.buf, d.left, events, stoppedAt) /\ Latest(d.left, events)
      BY <1>1, DrainOrder, LatestDrain
    <3> QED BY <3>1, <3>2, ClearOrder
  <2>2. CASE ComputationEnds \/ ProgramPoll
    BY <1>1, <2>2 DEF ComputationEnds, ProgramPoll
  <2>3. CASE ProgramStops
    <3>1. buffer' = buffer /\ sdk' = IF sdk = <<>> THEN sdk ELSE Tail(sdk)
      BY <2>3 DEF ProgramStops
    <3>2. ASSUME sdk # <<>>
          PROVE  Ordered(handled, buffer, Tail(sdk), events, stoppedAt) /\ Latest(Tail(sdk), events)
      <4>1. Ordered(handled, buffer, Tail(sdk), events, stoppedAt)
        BY <1>1, <3>2, TailOrder
      <4>2. sdk \in Seq(Event) /\ Len(sdk) \in Nat
        BY InvFacts
      <4>3. PICK k : k = 1
        OBVIOUS
      <4>4. k \in 0 .. Len(sdk) /\ Tail(sdk) = SubSeq(sdk, k + 1, Len(sdk))
        <5>1. Len(sdk) > 0
          BY <3>2, <4>2, EmptySeq, LenProperties
        <5> QED BY <4>2, <4>3, <5>1
      <4> QED BY <1>1, <4>1, <4>4, LatestRest
    <3> QED BY <1>1, <3>1, <3>2
  <2> QED BY <2>1, <2>2, <2>3
<1>5. TypeOK'
  <2>1. /\ held' \in Keys \union {Released} /\ events' \in 0 .. MaxEvents /\ mode' \in Modes
        /\ poll' \in Stages
        /\ handled' \in Event /\ asked' \in BOOLEAN /\ stoppedAt' \in 0 .. MaxEvents
        /\ Ordered(handled', buffer', sdk', events', stoppedAt')
    BY <1>1, <1>2, <1>3, <1>4
  <2> QED BY <2>1, OrderTyped DEF TypeOK
<1> QED BY <1>2, <1>3, <1>4, <1>5 DEF Inv, PollsWhenBusy, PressesAlternate, StopIsPast, AskedIsSeen

(* C47PopKeyNoBuffer sees every interrupt key that went down before it has *)
(* emptied the system's buffer.                                            *)
LEMMA PopKeeps ==
  ASSUME Inv, C47PopKeyNoBuffer \/ KeyIsReleased \/ KeysArePopped
  PROVE  Inv'
<1>1. /\ held \in Keys \union {Released} /\ events \in 0 .. MaxEvents /\ mode \in Modes
      /\ handled \in Event /\ asked \in BOOLEAN /\ stoppedAt \in 0 .. MaxEvents
      /\ events \in Nat /\ stoppedAt \in Nat /\ buffer \in Buffer /\ sdk \in Seq(Event)
      /\ Ordered(handled, buffer, sdk, events, stoppedAt)
      /\ poll \in Stages /\ Latest(sdk, events)
  BY InvFacts
<1>2. UNCHANGED <<held, events, buffer, mode, handled, asked, stoppedAt>>
  BY DEF C47PopKeyNoBuffer, KeyIsReleased, KeysArePopped
<1>3. /\ poll' \in Stages /\ mode \in {"computing", "running"}
      /\ (sdk' = sdk \/ sdk' = <<>>)
  BY DEF C47PopKeyNoBuffer, KeyIsReleased, KeysArePopped, Stages, Inv, PollsWhenBusy
<1>4. Ordered(handled, buffer, sdk', events, stoppedAt) /\ Latest(sdk', events)
  BY <1>1, <1>3, DropOrder, LatestNone
<1>5. AskedIsSeen'
  <2> SUFFICES ASSUME asked, ~ InRing(buffer)
               PROVE  (poll' \notin Found /\ InRaw(sdk', 0)) \/ poll' = "interrupt"
    BY <1>2 DEF AskedIsSeen, Inv
  <2>1. (poll \notin Found /\ InRaw(sdk, 0)) \/ poll = "interrupt"
    BY DEF Inv, AskedIsSeen
  <2>2. CASE C47PopKeyNoBuffer
    <3>1. poll = "no" /\ sdk' = sdk
      BY <2>2 DEF C47PopKeyNoBuffer
    <3>2. InRaw(sdk, 0)
      BY <2>1, <3>1
    <3>3. sdk # <<>>
      <4>1. \E i \in 1 .. Len(sdk) : TRUE
        BY <3>2 DEF InRaw
      <4>2. sdk = <<>> => Len(sdk) = 0
        OBVIOUS
      <4> QED BY <4>1, <4>2
    <3>4. poll' = "waits"
      BY <2>2, <3>3 DEF C47PopKeyNoBuffer
    <3> QED BY <3>1, <3>2, <3>4 DEF Found
  <2>3. CASE KeyIsReleased
    <3>1. poll = "waits" /\ poll' = "pops" /\ sdk' = sdk
      BY <2>3 DEF KeyIsReleased
    <3> QED BY <2>1, <3>1 DEF Found
  <2>4. CASE KeysArePopped
    <3>1. poll = "pops" /\ poll' = IF InSdk THEN "interrupt" ELSE "nothing"
      BY <2>4 DEF KeysArePopped
    <3> QED BY <1>1, <2>1, <3>1, InSdkIsRaw
  <2> QED BY <2>2, <2>3, <2>4
<1>6. TypeOK'
  <2>1. /\ held' \in Keys \union {Released} /\ events' \in 0 .. MaxEvents /\ mode' \in Modes
        /\ poll' \in Stages
        /\ handled' \in Event /\ asked' \in BOOLEAN /\ stoppedAt' \in 0 .. MaxEvents
        /\ Ordered(handled', buffer', sdk', events', stoppedAt')
    BY <1>1, <1>2, <1>3, <1>4
  <2> QED BY <2>1, OrderTyped DEF TypeOK
<1> QED BY <1>2, <1>3, <1>4, <1>5, <1>6 DEF Inv, PollsWhenBusy, PressesAlternate, StopIsPast

LEMMA PollKeeps ==
  ASSUME Inv, exitKeyWaiting
  PROVE  Inv' /\ (asked => mode' # "computing")
<1>1. /\ held \in Keys \union {Released} /\ events \in 0 .. MaxEvents /\ mode \in Modes
      /\ handled \in Event /\ asked \in BOOLEAN /\ stoppedAt \in 0 .. MaxEvents
      /\ MaxEvents \in Nat
      /\ events \in Nat /\ stoppedAt \in Nat /\ buffer \in Buffer /\ sdk \in Seq(Event)
      /\ Ordered(handled, buffer, sdk, events, stoppedAt)
      /\ poll \in Stages /\ Latest(sdk, events)
  BY InvFacts
<1> DEFINE ring == InRing(buffer)
           stop == poll = "interrupt" \/ ring
           now  == events - Len(sdk)
<1>2. /\ mode = "computing" /\ poll \in Found /\ poll' = "no" /\ asked' = FALSE
      /\ UNCHANGED <<held, events, handled>>
  BY DEF exitKeyWaiting, PollReturns
<1>3. /\ buffer' = IF ring \/ ~ stop THEN clear(buffer) ELSE buffer
      /\ mode' = IF stop THEN "idle" ELSE "computing"
      /\ stoppedAt' = IF stop THEN now ELSE stoppedAt
      /\ sdk' = IF stop THEN sdk ELSE <<>>
  BY <1>1, <1>2, HasInterrupt DEF exitKeyWaiting, StopsAt
<1>4. asked => stop
  BY <1>2 DEF Inv, AskedIsSeen
<1>5. Fresh(buffer)
  BY <1>2 DEF Inv
<1>6. now \in Nat /\ now <= events /\ SdkSpent(sdk, now)
  BY <1>1, LatestSpent
<1> HIDE DEF now
<1>7. /\ Ordered(handled, clear(buffer), sdk, events, now)
      /\ Ordered(handled, clear(buffer), <<>>, events, stoppedAt)
      /\ (~ ring => Ordered(handled, buffer, sdk, events, now))
  <2>1. Ordered(handled, clear(buffer), sdk, events, stoppedAt) /\ ~ InRing(clear(buffer))
    BY <1>1, ClearOrder
  <2>2. \A b : ~ InRing(b) => RingSpent(b, now)
    BY DEF InRing, RingSpent
  <2>3. Ordered(handled, clear(buffer), sdk, events, now)
    BY <1>6, <2>1, <2>2 DEF Ordered
  <2>4. ~ ring => Ordered(handled, buffer, sdk, events, now)
    BY <1>1, <1>6, <2>2 DEF Ordered
  <2> QED BY <1>1, <2>1, <2>3, <2>4, DropOrder
<1>8. ~ stop => Fresh(clear(buffer))
  <2> SUFFICES ASSUME ~ stop PROVE LastWritten(clear(buffer)).key \notin Interrupts
    BY DEF Fresh
  <2>1. LastWritten(clear(buffer)) = LastWritten(buffer)
    BY <1>1, ClearFacts
  <2>2. Count(buffer) \in Nat /\ (Count(buffer) > 0 => LastWritten(buffer) = Slot(buffer, Count(buffer)))
    BY <1>1, RingFacts, BufferFields
  <2>3. CASE Count(buffer) = 0
    BY <1>5, <2>1, <2>3 DEF Fresh
  <2>4. CASE Count(buffer) > 0
    <3>1. Count(buffer) \in 1 .. Count(buffer)
      BY <2>2, <2>4
    <3>2. Slot(buffer, Count(buffer)).key \notin Interrupts
      BY <3>1 DEF InRing
    <3> QED BY <2>1, <2>2, <2>4, <3>2
  <2> QED BY <2>2, <2>3, <2>4
<1> HIDE DEF ring
<1>9. Ordered(handled, buffer', sdk', events, stoppedAt') /\ Latest(sdk', events)
  BY <1>1, <1>3, <1>7, LatestNone
<1>10. /\ mode' \in Modes /\ stoppedAt' \in 0 .. MaxEvents /\ stoppedAt' <= events
       /\ (mode' = "computing" => Fresh(buffer'))
  BY <1>1, <1>3, <1>6, <1>8 DEF Modes, Inv, StopIsPast
<1>11. TypeOK'
  <2>1. /\ held' \in Keys \union {Released} /\ events' \in 0 .. MaxEvents /\ mode' \in Modes
        /\ poll' \in Stages
        /\ handled' \in Event /\ asked' \in BOOLEAN /\ stoppedAt' \in 0 .. MaxEvents
        /\ Ordered(handled', buffer', sdk', events', stoppedAt')
    BY <1>1, <1>2, <1>9, <1>10 DEF Stages
  <2> QED BY <2>1, OrderTyped DEF TypeOK
<1>12. Inv'
  BY <1>2, <1>9, <1>10, <1>11 DEF Inv, PollsWhenBusy, PressesAlternate, StopIsPast, AskedIsSeen
<1> QED BY <1>3, <1>4, <1>12

LEMMA NextKeeps == Inv /\ [Next]_vars => Inv'
<1> SUFFICES ASSUME Inv, [Next]_vars PROVE Inv'
  OBVIOUS
<1>1. CASE UNCHANGED vars
  BY <1>1 DEF vars, Inv, TypeOK, PollsWhenBusy, PressesAlternate, StopIsPast, AskedIsSeen
<1> QED
  BY <1>1, KeyboardKeeps, DrainsKeep, HandlesKeeps, DropsKeep, PopKeeps, PollKeeps DEF Next, MainLoop

LEMMA InitInv == Init => Inv
<1> SUFFICES ASSUME Init PROVE Inv
  OBVIOUS
<1>1. /\ MaxEvents \in Nat /\ BufferSize \in Nat /\ BufferSize > 1
  BY KeyInputAssumption, KeyBufferAssumption
<1> DEFINE z == [key |-> Released, nr |-> 0]
<1>2. z \in Event /\ Parity(z) /\ z.nr = 0 /\ z.key \notin Interrupts
  BY DEF Event, Parity, Released, Interrupts, EXIT, RS
<1>3. handled = z /\ sdk = <<>> /\ events = 0 /\ stoppedAt = 0
  BY DEF Init
<1> HIDE DEF z
<1>4. buffer = [data |-> [i \in Slots |-> z], read |-> 0, write |-> 0]
  BY DEF Init, EmptyBuffer, Slots, z
<1>5. 0 \in Slots
  BY <1>1 DEF Slots
<1>6. /\ buffer \in Buffer /\ buffer.read = buffer.write
      /\ buffer.data = [i \in Slots |-> z]
  BY <1>2, <1>4, <1>5 DEF Buffer
<1>7. Count(buffer) = 0
  <2>1. empty(buffer)
    BY <1>6 DEF empty
  <2> QED BY <1>6, <2>1, RingFacts
<1>8. LastWritten(buffer) = z
  <2>1. (buffer.write - 1) % BufferSize = BufferSize - 1 /\ BufferSize - 1 \in Slots
    <3>1. buffer.write = 0
      BY <1>4
    <3>2. \A w \in Slots : (w - 1) % BufferSize = (IF w = 0 THEN BufferSize - 1 ELSE w - 1)
      BY <1>5, Indices
    <3>3. BufferSize - 1 \in Slots
      BY <1>1 DEF Slots
    <3> QED BY <1>5, <3>1, <3>2, <3>3
  <2> QED BY <1>6, <2>1 DEF LastWritten
<1>9. \A i \in 1 .. Count(buffer) : FALSE
  BY <1>7
<1>10. RingOrder(handled, buffer) /\ RingSpent(buffer, stoppedAt)
  BY <1>2, <1>3, <1>6, <1>8, <1>9 DEF RingOrder, RingSpent
<1>11. sdk \in Seq(Event) /\ \A i \in 1 .. Len(sdk) : FALSE
  BY <1>3
<1>12. SdkOrder(sdk, events) /\ SdkSpent(sdk, stoppedAt) /\ Ahead(buffer, sdk, 0, events)
  BY <1>2, <1>3, <1>8, <1>11 DEF SdkOrder, SdkSpent, Ahead
<1>13. Ordered(handled, buffer, sdk, events, stoppedAt)
  BY <1>6, <1>10, <1>12 DEF Ordered
<1>14. TypeOK
  <2>1. /\ held \in Keys \union {Released} /\ events \in 0 .. MaxEvents /\ mode \in Modes
        /\ poll \in Stages
        /\ handled \in Event /\ asked \in BOOLEAN /\ stoppedAt \in 0 .. MaxEvents
    <3>1. 0 \in 0 .. MaxEvents
      BY <1>1
    <3>2. held \in Keys \union {Released} /\ mode \in Modes /\ asked \in BOOLEAN /\ poll \in Stages
      BY DEF Init, Modes, Stages
    <3> QED BY <1>2, <1>3, <3>1, <3>2
  <2> QED BY <1>13, <2>1, OrderTyped DEF TypeOK
<1>15. Latest(sdk, events)
  BY <1>3, LatestNone
<1> QED BY <1>3, <1>13, <1>14, <1>15 DEF Init, Inv, PollsWhenBusy, PressesAlternate, StopIsPast, AskedIsSeen

(* The invariant holds at all times.                                       *)
THEOREM KeysInvariant == Spec => []Inv
BY InitInv, NextKeeps, PTL DEF Spec

---------------------------------------------------------------------------
(* The keys on their way, as one sequence.                                 *)

Transit(h, b, raw) == <<h>> \o Contents(b) \o raw

Nth(h, b, raw, i) ==
  IF i = 1 THEN h
           ELSE IF i <= 1 + Count(b) THEN Slot(b, i - 1) ELSE raw[i - (1 + Count(b))]

LEMMA TransitFacts ==
  ASSUME NEW h \in Event, NEW b \in Buffer, NEW raw \in Seq(Event),
         NEW t, t = Transit(h, b, raw)
  PROVE  /\ Count(b) \in Nat /\ Len(raw) \in Nat
         /\ DOMAIN t = 1 .. 1 + Count(b) + Len(raw)
         /\ \A i \in DOMAIN t : t[i] = Nth(h, b, raw, i)
<1> DEFINE m == Count(b)
           c == Contents(b)
           l == Len(raw)
<1>1. m \in 0 .. BufferSize - 1 /\ BufferSize \in Nat /\ BufferSize > 1
  BY RingFacts, BufferFields
<1>2. c = [i \in 1 .. m |-> Slot(b, i)] /\ c \in Seq(Event) /\ Len(c) = m
  BY RingFacts
<1>3. l \in Nat /\ m \in Nat
  BY <1>1
<1>4. \A i \in 1 .. m : c[i] = Slot(b, i)
  BY <1>2
<1> HIDE DEF m, c, l
<1>5. PICK u : u = <<h>>
  OBVIOUS
<1>6. PICK a : a = u \o c
  OBVIOUS
<1>7. u \in Seq(Event) /\ Len(u) = 1 /\ u[1] = h
  BY <1>5
<1>8. /\ a \in Seq(Event) /\ Len(a) = 1 + m
      /\ \A i \in 1 .. 1 + m : a[i] = IF i <= 1 THEN u[i] ELSE c[i - 1]
  <2>1. /\ u \o c \in Seq(Event) /\ Len(u \o c) = Len(u) + Len(c)
        /\ \A i \in 1 .. Len(u) + Len(c) :
             (u \o c)[i] = IF i <= Len(u) THEN u[i] ELSE c[i - Len(u)]
    BY <1>2, <1>7, ConcatProperties
  <2> QED BY <1>2, <1>6, <1>7, <2>1
<1>9. /\ a \o raw \in Seq(Event) /\ Len(a \o raw) = Len(a) + Len(raw)
      /\ \A i \in 1 .. Len(a) + Len(raw) :
           (a \o raw)[i] = IF i <= Len(a) THEN a[i] ELSE raw[i - Len(a)]
  BY <1>8, ConcatProperties
<1>10. t = a \o raw
  BY <1>5, <1>6 DEF c, Transit
<1>11. /\ t \in Seq(Event) /\ Len(t) = 1 + m + l
       /\ \A i \in 1 .. 1 + m + l : t[i] = IF i <= 1 + m THEN a[i] ELSE raw[i - (1 + m)]
  BY <1>8, <1>9, <1>10 DEF l
<1>12. DOMAIN t = 1 .. 1 + m + l
  BY <1>11, LenProperties
<1>13. ASSUME NEW i \in 1 .. 1 + m + l
       PROVE  t[i] = Nth(h, b, raw, i)
  <2>1. CASE i = 1
    <3>1. 1 \in 1 .. 1 + m /\ i <= 1 + m
      BY <1>3, <2>1
    <3>2. a[1] = h
      BY <1>7, <1>8, <3>1
    <3> QED BY <1>11, <2>1, <3>1, <3>2 DEF Nth
  <2>2. CASE i # 1 /\ i <= 1 + m
    <3>1. i \in 1 .. 1 + m /\ ~ (i <= 1) /\ i - 1 \in 1 .. m
      BY <1>3, <2>2
    <3>2. a[i] = Slot(b, i - 1)
      BY <1>4, <1>8, <3>1
    <3> QED BY <1>11, <2>2, <3>2 DEF Nth, m
  <2>3. CASE i # 1 /\ ~ (i <= 1 + m)
    BY <1>11, <2>3 DEF Nth, m
  <2> QED BY <2>1, <2>2, <2>3
<1> QED BY <1>3, <1>12, <1>13 DEF m, l

(* They are in the order of their numbers.                                 *)
LEMMA TransitOrdered ==
  ASSUME NEW h \in Event, NEW b, NEW raw, NEW ev \in Nat, NEW n \in Nat,
         Ordered(h, b, raw, ev, n), NEW t, t = Transit(h, b, raw)
  PROVE  \A i, j \in DOMAIN t : i < j => t[i].nr < t[j].nr
<1>1. /\ b \in Buffer /\ RingOrder(h, b) /\ raw \in Seq(Event)
      /\ \A i, j \in 1 .. Len(raw) : i < j => raw[i].nr < raw[j].nr
      /\ \A i \in 1 .. Len(raw) : i > 0 => LastWritten(b).nr < raw[i].nr
  BY DEF Ordered, SdkOrder, Ahead
<1> DEFINE m == Count(b)
           l == Len(raw)
<1>2. /\ m \in Nat /\ l \in Nat /\ DOMAIN t = 1 .. 1 + m + l
      /\ \A i \in DOMAIN t : t[i] = Nth(h, b, raw, i)
  BY <1>1, TransitFacts
<1>3. /\ LastWritten(b).nr \in Nat /\ h.nr \in Nat /\ h.nr <= LastWritten(b).nr
      /\ \A i \in 1 .. m : Slot(b, i).nr \in Nat /\ Slot(b, i).nr <= LastWritten(b).nr
  BY <1>1, RingBelow
<1>4. \A i \in 1 .. l : raw[i].nr \in Nat /\ LastWritten(b).nr < raw[i].nr
  <2>1. \A i \in 1 .. l : raw[i] \in Event /\ i > 0
    BY <1>1, <1>2, ElementOfSeq
  <2> QED BY <1>1, <2>1 DEF Event
<1>5. /\ \A i, j \in 1 .. m : i < j => Slot(b, i).nr < Slot(b, j).nr
      /\ \A i \in 1 .. m : h.nr < Slot(b, i).nr
  BY <1>1 DEF RingOrder
<1>6. \A i, j \in 1 .. l : i < j => raw[i].nr < raw[j].nr
  BY <1>1
<1> SUFFICES ASSUME NEW i \in 1 .. 1 + m + l, NEW j \in 1 .. 1 + m + l, i < j
             PROVE  Nth(h, b, raw, i).nr < Nth(h, b, raw, j).nr
  BY <1>2, SMTT(30)
<1> HIDE DEF m, l
<1>7. CASE j <= 1 + m
  <2>1. j - 1 \in 1 .. m /\ j # 1 /\ i <= 1 + m
    BY <1>2, <1>7
  <2>2. Nth(h, b, raw, j) = Slot(b, j - 1)
    BY <1>7, <2>1 DEF Nth, m
  <2>3. CASE i = 1
    BY <1>5, <2>1, <2>2, <2>3 DEF Nth
  <2>4. CASE i # 1
    <3>1. i - 1 \in 1 .. m /\ i - 1 < j - 1
      BY <1>2, <2>1, <2>4
    <3>2. Nth(h, b, raw, i) = Slot(b, i - 1)
      BY <2>1, <2>4 DEF Nth, m
    <3> QED BY <1>5, <2>1, <2>2, <3>1, <3>2
  <2> QED BY <2>3, <2>4
<1>8. CASE ~ (j <= 1 + m)
  <2>1. j - (1 + m) \in 1 .. l /\ j # 1
    BY <1>2, <1>8
  <2>2. Nth(h, b, raw, j) = raw[j - (1 + m)]
    BY <1>8, <2>1 DEF Nth, m
  <2>3. raw[j - (1 + m)].nr \in Nat /\ LastWritten(b).nr < raw[j - (1 + m)].nr
    BY <1>4, <2>1
  <2>4. CASE i = 1
    BY <1>3, <2>2, <2>3, <2>4 DEF Nth
  <2>5. CASE i # 1 /\ i <= 1 + m
    <3>1. i - 1 \in 1 .. m
      BY <1>2, <2>5
    <3>2. Nth(h, b, raw, i) = Slot(b, i - 1)
      BY <2>5 DEF Nth, m
    <3> QED BY <1>3, <2>2, <2>3, <3>1, <3>2
  <2>6. CASE ~ (i <= 1 + m)
    <3>1. i - (1 + m) \in 1 .. l /\ i - (1 + m) < j - (1 + m) /\ i # 1
      BY <1>2, <1>8, <2>6
    <3>2. Nth(h, b, raw, i) = raw[i - (1 + m)]
      BY <2>6, <3>1 DEF Nth, m
    <3> QED BY <1>6, <2>1, <2>2, <3>1, <3>2
  <2>7. i = 1 \/ (i # 1 /\ i <= 1 + m) \/ ~ (i <= 1 + m)
    OBVIOUS
  <2> QED BY <2>4, <2>5, <2>6, <2>7
<1> QED BY <1>7, <1>8

Numbered(t, x) == \E i \in DOMAIN t : t[i].nr = x

(* An event is among them when it is handled or in a buffer.               *)
LEMMA TransitKnown ==
  ASSUME NEW h \in Event, NEW b \in Buffer, NEW raw \in Seq(Event), NEW x
  PROVE  Numbered(Transit(h, b, raw), x) <=> Known(h, b, raw, x)
<1>0. PICK t : t = Transit(h, b, raw)
  OBVIOUS
<1> DEFINE m == Count(b)
           l == Len(raw)
<1>1. /\ m \in Nat /\ l \in Nat /\ DOMAIN t = 1 .. 1 + m + l
      /\ \A i \in DOMAIN t : t[i] = Nth(h, b, raw, i)
  BY <1>0, TransitFacts
<1> HIDE DEF m, l
<1>2. ASSUME NEW i \in 1 .. 1 + m + l, t[i].nr = x
      PROVE  Known(h, b, raw, x)
  <2>0. Nth(h, b, raw, i).nr = x
    BY <1>1, <1>2
  <2>1. CASE i = 1
    BY <2>0, <2>1 DEF Nth, Known
  <2>2. CASE i # 1 /\ i <= 1 + m
    <3>1. i - 1 \in 1 .. m
      BY <1>1, <2>2
    <3>2. Nth(h, b, raw, i) = Slot(b, i - 1)
      BY <2>2 DEF Nth, m
    <3> QED BY <2>0, <3>1, <3>2 DEF Known, m
  <2>3. CASE i # 1 /\ ~ (i <= 1 + m)
    <3>1. i - (1 + m) \in 1 .. l
      BY <1>1, <2>3
    <3>2. Nth(h, b, raw, i) = raw[i - (1 + m)]
      BY <2>3 DEF Nth, m
    <3> QED BY <2>0, <3>1, <3>2 DEF Known, l
  <2> QED BY <2>1, <2>2, <2>3
<1>3. ASSUME h.nr = x
      PROVE  \E i \in DOMAIN t : t[i].nr = x
  <2>1. 1 \in DOMAIN t
    BY <1>1
  <2>2. t[1] = h
    BY <1>1, <2>1 DEF Nth
  <2> QED BY <1>3, <2>1, <2>2
<1>4. ASSUME NEW k \in 1 .. m, Slot(b, k).nr = x
      PROVE  \E i \in DOMAIN t : t[i].nr = x
  <2>1. PICK i : i = k + 1
    OBVIOUS
  <2>2. i \in DOMAIN t /\ i # 1 /\ i <= 1 + m /\ i - 1 = k
    BY <1>1, <2>1
  <2>3. t[i] = Slot(b, k)
    BY <1>1, <2>2 DEF Nth, m
  <2> QED BY <1>4, <2>2, <2>3
<1>5. ASSUME NEW k \in 1 .. l, raw[k].nr = x
      PROVE  \E i \in DOMAIN t : t[i].nr = x
  <2>1. PICK i : i = k + (1 + m)
    OBVIOUS
  <2>2. i \in DOMAIN t /\ i # 1 /\ ~ (i <= 1 + m) /\ i - (1 + m) = k
    BY <1>1, <2>1
  <2>3. t[i] = raw[k]
    BY <1>1, <2>2 DEF Nth, m
  <2> QED BY <1>5, <2>2, <2>3
<1>6. (\E i \in DOMAIN t : t[i].nr = x) <=> Known(h, b, raw, x)
  BY <1>1, <1>2, <1>3, <1>4, <1>5 DEF Known, m, l
<1> QED BY <1>0, <1>6 DEF Numbered

---------------------------------------------------------------------------
(* Every variable has its type at all times.                               *)
THEOREM KeysTypeCorrect == Spec => []TypeOK
<1>1. Inv => TypeOK
  BY DEF Inv
<1> QED BY <1>1, KeysInvariant, PTL

(* The key handled last, those in the ring buffer and those in the         *)
(* system's buffer are in the order they were typed in, whichever part of  *)
(* the program drained, popped, cleared or dropped keys.                   *)
THEOREM KeysAlwaysInOrder == Spec => []KeysInOrder
<1>1. Inv => KeysInOrder
  <2> SUFFICES ASSUME Inv PROVE KeysInOrder
    OBVIOUS
  <2>1. /\ handled \in Event /\ events \in Nat /\ stoppedAt \in Nat
        /\ Ordered(handled, buffer, sdk, events, stoppedAt)
    BY InvFacts
  <2>2. PICK t : t = Transit(handled, buffer, sdk)
    OBVIOUS
  <2>3. \A i, j \in DOMAIN t : i < j => t[i].nr < t[j].nr
    BY <2>1, <2>2, TransitOrdered
  <2>4. t = InTransit
    BY <2>2 DEF InTransit, Transit
  <2> QED BY <2>3, <2>4 DEF KeysInOrder
<1> QED BY <1>1, KeysInvariant, PTL

(* An EXIT or R/S pressed during a computation, or while its poll waits    *)
(* for another key to come up and until it has emptied the system's        *)
(* buffer, stops it at the end of that poll of exitKeyWaiting, however     *)
(* many redraws have moved keys to the ring buffer in between and however  *)
(* full that is.  Of one pressed later in the poll the theorem says        *)
(* nothing: the poll may throw it away.                                    *)
THEOREM InterruptAlwaysStops == Spec => InterruptStopsComputation
<1>1. Inv /\ [Next]_vars => [asked /\ ~ asked' => mode' # "computing"]_vars
  <2> SUFFICES ASSUME Inv, Next, asked, ~ asked'
               PROVE  mode' # "computing"
    OBVIOUS
  <2>1. mode = "computing"
    BY DEF Inv, AskedIsSeen
  <2>2. asked' = asked \/ exitKeyWaiting \/ ComputationEnds
    BY <2>1 DEF Next, Keyboard, KeyUp, KeyDown, MainLoop, MainLoopDrains, MainLoopHandlesKey,
         MainLoopDropsKeys, Redraw, C47PopKeyNoBuffer, KeyIsReleased, KeysArePopped, ProgramPoll,
         ProgramStops, ProgramEnds
  <2>3. CASE exitKeyWaiting
    BY <2>3, PollKeeps
  <2>4. CASE ComputationEnds
    BY <2>4 DEF ComputationEnds
  <2> QED BY <2>2, <2>3, <2>4
<1> QED BY <1>1, KeysInvariant, PTL DEF Spec, InterruptStopsComputation

(* No EXIT or R/S typed before the poll that stopped a computation had     *)
(* emptied the system's buffer is handled afterwards.                      *)
THEOREM InterruptAlwaysSpent == Spec => InterruptIsSpent
<1>1. Inv /\ [Next]_vars
        => [handled' # handled /\ handled'.key \in Interrupts => handled'.nr > stoppedAt]_vars
  <2> SUFFICES ASSUME Inv, Next, handled' # handled, handled'.key \in Interrupts
               PROVE  handled'.nr > stoppedAt
    OBVIOUS
  <2>1. /\ handled \in Event /\ events \in Nat /\ stoppedAt \in Nat
        /\ Ordered(handled, buffer, sdk, events, stoppedAt)
    BY InvFacts
  <2>2. ~ empty(buffer) /\ handled' = oldest(buffer)
    BY DEF Next, Keyboard, KeyUp, KeyDown, MainLoop, MainLoopDrains, MainLoopHandlesKey,
         MainLoopDropsKeys, Redraw, C47PopKeyNoBuffer, KeyIsReleased, KeysArePopped,
         exitKeyWaiting, PollReturns, ComputationEnds, ProgramPoll, ProgramStops, ProgramEnds
  <2>3. oldest(buffer).key \in Interrupts => oldest(buffer).nr > stoppedAt
    <3>1. PICK q : q = pop(buffer)
      OBVIOUS
    <3> QED BY <2>1, <2>2, <3>1, PopOrder
  <2> QED BY <2>2, <2>3
<1> QED BY <1>1, KeysInvariant, PTL DEF Spec, InterruptIsSpent

(* A step of the idle main loop or a redraw moves the event behind a known *)
(* one to the ring buffer or leaves it where it is.                        *)
LEMMA StepArrives ==
  ASSUME Inv, [Next]_vars, mode \in {"idle", "taking"},
         NEW i \in 1 .. Len(sdk), Known(handled, buffer, sdk, sdk[i].nr - 1)
  PROVE  Known(handled', buffer', sdk', sdk[i].nr)
<1>1. /\ handled \in Event /\ events \in Nat /\ stoppedAt \in Nat
      /\ sdk \in Seq(Event) /\ Len(sdk) \in Nat
      /\ Ordered(handled, buffer, sdk, events, stoppedAt)
  BY InvFacts
<1>2. CASE Redraw \/ MainLoopDrains
  <2>1. keyBuffer_pop /\ handled' = handled
    BY <1>2 DEF Redraw, MainLoopDrains
  <2>2. PICK d \in drainKeys(buffer, sdk) : buffer' = d.buf /\ sdk' = d.left
    BY <2>1 DEF keyBuffer_pop
  <2>3. Known(handled, d.buf, d.left, sdk[i].nr)
    BY <1>1, DrainArrives
  <2> QED BY <2>1, <2>2, <2>3
<1>3. CASE sdk' = sdk
  BY <1>3 DEF Known
<1>4. ASSUME NEW x, sdk' = Append(sdk, x)
      PROVE  Known(handled', buffer', sdk', sdk[i].nr)
  <2>1. i \in 1 .. Len(sdk') /\ sdk'[i] = sdk[i]
    BY <1>1, <1>4
  <2> QED BY <2>1 DEF Known
<1>5. Redraw \/ MainLoopDrains \/ sdk' = sdk \/ \E x : sdk' = Append(sdk, x)
  <2>1. CASE Keyboard
    BY <2>1 DEF Keyboard, KeyUp, KeyDown, KeyEvent
  <2>2. CASE UNCHANGED vars
    BY <2>2 DEF vars
  <2>3. CASE MainLoopHandlesKey
    BY <2>3 DEF MainLoopHandlesKey
  <2>4. CASE KeysArePopped
    BY <2>4 DEF KeysArePopped, Inv, PollsWhenBusy
  <2> QED BY <2>1, <2>2, <2>3, <2>4 DEF Next, MainLoop, MainLoopDropsKeys, C47PopKeyNoBuffer,
               KeyIsReleased, exitKeyWaiting, PollReturns, ComputationEnds, ProgramPoll,
               ProgramStops, ProgramEnds
<1> QED BY <1>2, <1>3, <1>4, <1>5

(* Typing ahead loses nothing: an event that leaves the system's buffer in *)
(* a drain of the main loop or a redraw arrives in the ring buffer, also   *)
(* when that fills up during the drain, as long as the event before it is  *)
(* still known of.                                                         *)
THEOREM TypingAheadLosesNothing == Spec => TypedAheadKeysArrive
<1>1. Inv /\ Inv' /\ [Next]_vars
        => [\A i \in DOMAIN sdk : FollowsKnown(sdk[i]) => ~ Dropped(sdk[i])]_vars
  <2> SUFFICES ASSUME Inv, Inv', [Next]_vars, NEW i \in DOMAIN sdk,
                      FollowsKnown(sdk[i]), Dropped(sdk[i])
               PROVE  FALSE
    OBVIOUS
  <2>1. /\ handled \in Event /\ buffer \in Buffer /\ sdk \in Seq(Event)
    BY InvFacts
  <2>2. /\ handled' \in Event /\ buffer' \in Buffer /\ sdk' \in Seq(Event)
    <3>1. handled' \in Event /\ sdk' \in Seq(Event)
      BY DEF Inv, TypeOK
    <3>2. buffer' \in Buffer
      BY DEF Inv, Ordered
    <3> QED BY <3>1, <3>2
  <2>3. i \in 1 .. Len(sdk)
    BY <2>1, LenProperties
  <2>4. Known(handled, buffer, sdk, sdk[i].nr - 1)
    <3>1. Numbered(Transit(handled, buffer, sdk), sdk[i].nr - 1)
      BY DEF FollowsKnown, InTransit, Transit, Numbered
    <3> QED BY <2>1, <3>1, TransitKnown
  <2>5. mode \in {"idle", "taking"}
    BY DEF Dropped
  <2>6. Known(handled', buffer', sdk', sdk[i].nr)
    BY <2>3, <2>4, <2>5, StepArrives
  <2>7. Numbered(Transit(handled', buffer', sdk'), sdk[i].nr)
    BY <2>2, <2>6, TransitKnown
  <2>8. Transit(handled', buffer', sdk') = InTransit'
    BY DEF InTransit, Transit, Contents
  <2> QED BY <2>7, <2>8 DEF Dropped, Numbered
<1> QED BY <1>1, KeysInvariant, PTL DEF Spec, TypedAheadKeysArrive
=============================================================================
