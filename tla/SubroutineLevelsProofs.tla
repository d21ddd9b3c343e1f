----------------------- MODULE SubroutineLevelsProofs -----------------------
(***************************************************************************)
(* The subroutine levels for every memory, every pool that keeps its       *)
(* promise, and every bound.  The two invariants about the levels need     *)
(* each other: a block is given back with the right size because the flags *)
(* and registers pointers tell what LocR has claimed, and these pointers   *)
(* are right because a return finds the caller's block where its link      *)
(* says.  They are proved of the record `ram` operation by operation.      *)
(*                                                                         *)
(* All of LocR, its failures and the clearing of the local registers do    *)
(* one thing, TopBecomes: the block of the current level moves or stays,   *)
(* and its list of registers becomes another one.                          *)
(***************************************************************************)
EXTENDS SubroutineLevels, FiniteSetTheorems, SequenceTheorems, NaturalsInduction, TLAPS

Level ==
  [ret : Points \cup {NULL}, level : Nat, next : Addr \cup {NULL},
   prev : Addr \cup {NULL}, flagged : BOOLEAN, regs : Seq(Addr)]

Ram ==
  [size : [Addr -> Nat], lev : [Addr -> Level], val : [Addr -> Values], cur : Addr,
   flags : Addr \cup {NULL}, regs : Addr \cup {NULL}, level0 : Addr, count : Nat,
   misuse : BOOLEAN, chain : Seq(Addr), lost : SUBSET Nat]

Lev(r, i) == r.lev[r.chain[i]]
Regs(r, i) == Lev(r, i).regs
SizeOf(v) == IF v.flagged THEN 4 + Len(v.regs) ELSE 3

OneOwner(r) ==
  /\ \A i, j \in 1 .. Len(r.chain) : r.chain[i] = r.chain[j] => i = j
  /\ \A i, j \in 1 .. Len(r.chain) : \A x \in 1 .. Len(Regs(r, i)) :
       /\ r.chain[j] # Regs(r, i)[x]
       /\ \A y \in 1 .. Len(Regs(r, j)) : Regs(r, i)[x] = Regs(r, j)[y] => i = j /\ x = y

Sized(r) ==
  \A i \in 1 .. Len(r.chain) :
    /\ r.size[r.chain[i]] = SizeOf(Lev(r, i))
    /\ Len(Regs(r, i)) <= 99 /\ (~ Lev(r, i).flagged => Regs(r, i) = <<>>)
    /\ \A x \in 1 .. Len(Regs(r, i)) : r.size[Regs(r, i)[x]] = 4

IsData(r, a) == \E i \in 1 .. Len(r.chain) : \E x \in 1 .. Len(Regs(r, i)) : a = Regs(r, i)[x]
IsLevel(r, a) == \E i \in 1 .. Len(r.chain) : a = r.chain[i]

NothingElse(r) ==
  \A a \in Addr : /\ r.size[a] > 0 => IsLevel(r, a) \/ IsData(r, a)
                  /\ r.val[a] # Zero => IsData(r, a)

LinkedBack(r) ==
  /\ r.chain[Len(r.chain)] = r.cur
  /\ Lev(r, 1).prev = NULL /\ Lev(r, 1).level = 0
  /\ \A i \in 2 .. Len(r.chain) :
       /\ Lev(r, i).prev = r.chain[i - 1] /\ Lev(r, i).ret \in Points
       /\ Lev(r, i).level > Lev(r, i - 1).level
  /\ r.count > Lev(r, Len(r.chain)).level

Pointers(r) ==
  /\ r.flags = IF Lev(r, Len(r.chain)).flagged THEN r.cur ELSE NULL
  /\ r.regs = IF Regs(r, Len(r.chain)) # <<>> THEN r.cur ELSE NULL

LinkedOn(r) ==
  /\ Lev(r, Len(r.chain)).next = NULL
  /\ \A i \in 2 .. Len(r.chain) : i \notin r.lost => Lev(r, i - 1).next = r.chain[i]
  /\ 1 \notin r.lost => r.level0 = r.chain[1]

Good(r) ==
  /\ r \in Ram /\ r.chain # <<>> /\ ~ r.misuse
  /\ OneOwner(r) /\ Sized(r) /\ NothingElse(r)
  /\ LinkedBack(r) /\ Pointers(r) /\ LinkedOn(r)

---------------------------------------------------------------------------
Engine ==
  [start : Nat, orig : Nat, depth : Nat, here : Points \cup {NULL},
   step : {"next", "redo", "calls"}]

RunsTyped(es, run) ==
  /\ es \in Seq(Engine) /\ Len(es) <= MaxEngines
  /\ es # <<>> => es[1].depth = 0
  /\ \A k \in 1 .. Len(es) : es[k].depth > 0 => es[k].here \in Points
  /\ run \in BOOLEAN /\ (run => es # <<>>)

JobTyped(j, es, c) ==
  /\ c \in 0 .. Len(es)
  /\ j \in [then : {"none", "goto", "load", "fnFinish", "execProgram"}, to : Nat,
            here : Points \cup {NULL}]
  /\ j.then = "none" => j = NoJob
  /\ j.then \in {"goto", "load"} => es = <<>> /\ j.to = 0
  /\ j.then = "fnFinish" => c = Len(es) /\ j.to = 0 /\ j.here \in Points /\ es # <<>>
  /\ j.then = "execProgram" =>
       /\ es # <<>> /\ es[Len(es)].depth > 0
       /\ j.to = es[Len(es)].orig /\ j.here = es[Len(es)].here

(* An engine that execProgram has started was started from level number    *)
(* orig at depth, and runs above it until it ends.  An outermost run in    *)
(* the midst of others comes right behind the last that may have lost its  *)
(* caller's level.                                                         *)
Nested(r, es, j, c) ==
  /\ \A k \in c + 2 .. Len(es) : es[k].depth > 0
  /\ \A k \in c + 1 .. Len(es) :
       es[k].depth > 0 =>
         /\ es[k].depth <= Len(r.chain)
         /\ Lev(r, es[k].depth).level = es[k].orig
         /\ \/ k = Len(es) /\ j.then = "execProgram"
            \/ /\ es[k].depth < Len(r.chain)
               /\ Lev(r, es[k].depth + 1).level = es[k].start
         /\ \A i \in c + 1 .. k - 1 : es[i].depth < es[k].depth

Bounded(r) == r.count <= MaxCount /\ Len(r.chain) <= MaxLevels

Inv ==
  /\ here \in Points /\ Good(ram) /\ Bounded(ram)
  /\ RunsTyped(engines, running) /\ JobTyped(job, engines, cut)
  /\ Nested(ram, engines, job, cut)

---------------------------------------------------------------------------
(* What follows from Good about the current level's block.                 *)

In(s, c) == \E x \in 1 .. Len(s) : s[x] = c

LEMMA RamFields ==
  ASSUME NEW r \in Ram
  PROVE  /\ r.size \in [Addr -> Nat] /\ r.lev \in [Addr -> Level]
         /\ r.val \in [Addr -> Values] /\ r.cur \in Addr /\ r.count \in Nat
         /\ r.chain \in Seq(Addr) /\ r.lost \in SUBSET Nat /\ r.level0 \in Addr
         /\ \A a \in Addr : /\ r.size[a] \in Nat /\ r.lev[a] \in Level
                            /\ r.lev[a].level \in Nat /\ r.lev[a].regs \in Seq(Addr)
                            /\ r.lev[a].flagged \in BOOLEAN
                            /\ r.lev[a].prev \in Addr \cup {NULL}
<1>1. /\ r.size \in [Addr -> Nat] /\ r.lev \in [Addr -> Level]
      /\ r.val \in [Addr -> Values] /\ r.cur \in Addr /\ r.count \in Nat
      /\ r.chain \in Seq(Addr) /\ r.lost \in SUBSET Nat /\ r.level0 \in Addr
  BY DEF Ram
<1>2. \A a \in Addr : r.size[a] \in Nat /\ r.lev[a] \in Level
  BY <1>1
<1> QED BY <1>1, <1>2 DEF Level

LEMMA GoodFacts ==
  ASSUME NEW r, Good(r)
  PROVE  /\ r \in Ram /\ Len(r.chain) \in Nat \ {0}
         /\ \A i \in 1 .. Len(r.chain) :
              /\ r.chain[i] \in Addr /\ Lev(r, i) \in Level
              /\ Lev(r, i).level \in Nat
              /\ Regs(r, i) \in Seq(Addr) /\ Len(Regs(r, i)) \in Nat
              /\ \A x \in 1 .. Len(Regs(r, i)) : Regs(r, i)[x] \in Addr
              /\ r.size[r.chain[i]] > 0
         /\ r.cur = r.chain[Len(r.chain)]
<1>1. r \in Ram /\ r.chain # <<>> /\ r.chain \in Seq(Addr)
  BY RamFields DEF Good
<1>2. Len(r.chain) \in Nat \ {0}
  BY <1>1, EmptySeq
<1>3. \A i \in 1 .. Len(r.chain) : r.chain[i] \in Addr
  BY <1>1, ElementOfSeq
<1>4. \A i \in 1 .. Len(r.chain) :
        Lev(r, i) \in Level /\ Lev(r, i).level \in Nat /\ Regs(r, i) \in Seq(Addr)
  BY <1>1, <1>3, RamFields DEF Lev, Regs
<1>5. \A i \in 1 .. Len(r.chain) : Len(Regs(r, i)) \in Nat
  BY <1>4, LenProperties
<1>6. \A i \in 1 .. Len(r.chain) : \A x \in 1 .. Len(Regs(r, i)) : Regs(r, i)[x] \in Addr
  BY <1>4, ElementOfSeq
<1>7. \A i \in 1 .. Len(r.chain) : r.size[r.chain[i]] > 0
  <2> SUFFICES ASSUME NEW i \in 1 .. Len(r.chain) PROVE r.size[r.chain[i]] > 0
    OBVIOUS
  <2>1. r.size[r.chain[i]] = SizeOf(Lev(r, i)) /\ Len(Lev(r, i).regs) \in Nat
    BY <1>5 DEF Good, Sized, Regs
  <2> QED BY <2>1 DEF SizeOf
<1> QED BY <1>1, <1>2, <1>3, <1>4, <1>5, <1>6, <1>7 DEF Good, LinkedBack

(***************************************************************************)
(* q is r with the current level's block at b, flagged or not, and s the   *)
(* list of its registers: those it had, in their places, and new ones.     *)
(***************************************************************************)
Header(v, w) == v.ret = w.ret /\ v.level = w.level /\ v.prev = w.prev

TopBecomes(r, q, b, s, fl) ==
  LET n   == Len(r.chain)
      a   == r.cur
      old == Regs(r, n)
  IN /\ q \in Ram /\ ~ q.misuse /\ b \in Addr
     /\ b = a \/ r.size[b] = 0
     /\ q.chain = [r.chain EXCEPT ![n] = b] /\ q.cur = b /\ q.count = r.count
     /\ s \in Seq(Addr) /\ Len(s) <= 99 /\ (~ fl => s = <<>>)
     /\ \A x, y \in 1 .. Len(s) : s[x] = s[y] => x = y
     /\ \A x \in 1 .. Len(s) :
          /\ s[x] # b
          /\ IF x <= Len(old) THEN s[x] = old[x] ELSE r.size[s[x]] = 0 \/ s[x] = a
     /\ \A c \in Addr :
          q.size[c] = CASE c = b -> (IF fl THEN 4 + Len(s) ELSE 3)
                        [] c # b /\ In(s, c) -> 4
                        [] c # b /\ ~ In(s, c) /\ (c = a \/ In(old, c)) -> 0
                        [] OTHER -> r.size[c]
     /\ \A c \in Addr :
          q.val[c] = IF In(old, c) /\ ~ In(s, c) THEN Zero ELSE r.val[c]
     /\ Header(q.lev[b], r.lev[a]) /\ q.lev[b].next = r.lev[a].next
     /\ q.lev[b].flagged = fl /\ q.lev[b].regs = s
     /\ \A i \in 1 .. n - 1 :
          /\ Header(Lev(q, i), Lev(r, i)) /\ Lev(q, i).flagged = Lev(r, i).flagged
          /\ Regs(q, i) = Regs(r, i)
          /\ i < n - 1 => Lev(q, i).next = Lev(r, i).next
     /\ q.flags = (IF fl THEN b ELSE NULL)
     /\ q.regs = (IF s # <<>> THEN b ELSE NULL)
     /\ \A i \in 1 .. n - 1 : i \notin q.lost => i \notin r.lost
     /\ n \notin q.lost => IF n = 1 THEN q.level0 = b ELSE Lev(q, n - 1).next = b
     /\ n > 1 => q.level0 = r.level0

LEMMA TopBecomesGood ==
  ASSUME NEW r, NEW q, NEW b, NEW s, NEW fl \in BOOLEAN, Good(r),
         TopBecomes(r, q, b, s, fl)
  PROVE  Good(q)
<1> DEFINE n == Len(r.chain)
           a == r.cur
           old == Regs(r, n)
<1>1. /\ r \in Ram /\ n \in Nat \ {0} /\ a = r.chain[n]
      /\ \A i \in 1 .. n :
              /\ r.chain[i] \in Addr /\ Lev(r, i) \in Level
              /\ Lev(r, i).level \in Nat
              /\ Regs(r, i) \in Seq(Addr) /\ Len(Regs(r, i)) \in Nat
              /\ \A x \in 1 .. Len(Regs(r, i)) : Regs(r, i)[x] \in Addr
              /\ r.size[r.chain[i]] > 0
  BY GoodFacts
<1>2. /\ q \in Ram /\ ~ q.misuse /\ b \in Addr /\ (b = a \/ r.size[b] = 0)
      /\ q.cur = b /\ q.count = r.count
      /\ s \in Seq(Addr) /\ Len(s) <= 99 /\ (~ fl => s = <<>>)
      /\ \A x, y \in 1 .. Len(s) : s[x] = s[y] => x = y
      /\ \A x \in 1 .. Len(s) :
           /\ s[x] # b
           /\ IF x <= Len(old) THEN s[x] = old[x] ELSE r.size[s[x]] = 0 \/ s[x] = a
  BY DEF TopBecomes
<1>3. /\ r.chain \in Seq(Addr) /\ q.chain \in Seq(Addr) /\ Len(q.chain) = n
      /\ \A i \in 1 .. n : q.chain[i] = IF i = n THEN b ELSE r.chain[i]
  <2>1. r.chain \in Seq(Addr) /\ n \in 1 .. n
    BY <1>1, RamFields
  <2> QED BY <1>2, <2>1, ExceptSeq DEF TopBecomes
<1>4. q.chain # <<>>
  BY <1>1, <1>3
<1>5. /\ \A i \in 1 .. n - 1 : Regs(q, i) = Regs(r, i) /\ q.chain[i] = r.chain[i]
      /\ Regs(q, n) = s /\ q.chain[n] = b /\ Lev(q, n) = q.lev[b]
      /\ Len(s) \in Nat /\ \A x \in 1 .. Len(s) : s[x] \in Addr
  <2>1. Len(s) \in Nat /\ \A x \in 1 .. Len(s) : s[x] \in Addr
    BY <1>2, LenProperties, ElementOfSeq
  <2>2. q.lev[b].regs = s /\ \A i \in 1 .. n - 1 : Regs(q, i) = Regs(r, i)
    BY DEF TopBecomes
  <2>3. n \in 1 .. n /\ \A i \in 1 .. n - 1 : i \in 1 .. n /\ i # n
    BY <1>1
  <2>4. q.chain[n] = b /\ \A i \in 1 .. n - 1 : q.chain[i] = r.chain[i]
    BY <1>3, <2>3
  <2>5. Lev(q, n) = q.lev[b] /\ Regs(q, n) = s
    BY <2>2, <2>4 DEF Regs, Lev
  <2> QED BY <2>1, <2>2, <2>4, <2>5
(* How the registers and levels below relate to the new block and list.    *)
<1>6. ASSUME NEW i \in 1 .. n - 1
      PROVE  /\ r.chain[i] # b /\ r.chain[i] # a /\ ~ In(s, r.chain[i]) /\ ~ In(old, r.chain[i])
             /\ \A x \in 1 .. Len(Regs(r, i)) :
                  LET c == Regs(r, i)[x]
                  IN c # b /\ c # a /\ ~ In(s, c) /\ ~ In(old, c) /\ c \in Addr
                     /\ \A j \in 1 .. n : c # r.chain[j]
  <2>1. i \in 1 .. n /\ n \in 1 .. n /\ i # n
    BY <1>1
  <2>2. r.chain[i] # a /\ ~ In(old, r.chain[i]) /\ r.chain[i] # b
    BY <1>1, <1>2, <2>1, SMTT(30) DEF Good, OneOwner, In
  <2>3. ~ In(s, r.chain[i])
    <3> SUFFICES ASSUME NEW y \in 1 .. Len(s), s[y] = r.chain[i] PROVE FALSE
      BY DEF In
    <3>0. s[y] = r.chain[i]
      OBVIOUS
    <3>1. CASE y <= Len(old)
      <4>1. y \in 1 .. Len(old) /\ s[y] = old[y]
        BY <1>1, <1>2, <1>5, <2>1, <3>1
      <4> QED BY <2>2, <4>1 DEF In
    <3>2. CASE ~ (y <= Len(old))
      <4>1. r.size[s[y]] = 0 \/ s[y] = a
        BY <1>2, <3>2
      <4>2. r.size[r.chain[i]] > 0
        BY <1>1, <2>1
      <4> QED BY <2>2, <3>0, <4>1, <4>2
    <3> QED BY <3>1, <3>2
  <2>4. ASSUME NEW x \in 1 .. Len(Regs(r, i))
        PROVE  LET c == Regs(r, i)[x]
               IN c # b /\ c # a /\ ~ In(s, c) /\ ~ In(old, c) /\ c \in Addr
                  /\ \A j \in 1 .. n : c # r.chain[j]
    <3> DEFINE c == Regs(r, i)[x]
    <3>1. c \in Addr /\ r.size[c] = 4
      BY <1>1, <2>1 DEF Good, Sized
    <3>2. \A j \in 1 .. n : c # r.chain[j]
      BY <2>1 DEF Good, OneOwner
    <3>3. ~ In(old, c)
      BY <2>1 DEF Good, OneOwner, In
    <3> HIDE DEF c
    <3>4. c # a /\ c # b
      BY <1>1, <1>2, <2>1, <3>1, <3>2
    <3>5. ~ In(s, c)
      <4> SUFFICES ASSUME NEW y \in 1 .. Len(s), s[y] = c PROVE FALSE
        BY DEF In
      <4>1. CASE y <= Len(old)
        <5>1. y \in 1 .. Len(old) /\ s[y] = old[y]
          BY <1>1, <1>2, <1>5, <2>1, <4>1
        <5> QED BY <3>3, <5>1 DEF In
      <4>2. CASE ~ (y <= Len(old))
        BY <1>2, <3>1, <3>4, <4>2
      <4> QED BY <4>1, <4>2
    <3> QED BY <3>1, <3>2, <3>3, <3>4, <3>5 DEF c
  <2> QED BY <2>2, <2>3, <2>4
<1>7. OneOwner(q)
  <2>1. ASSUME NEW i \in 1 .. n, NEW j \in 1 .. n, q.chain[i] = q.chain[j]
        PROVE  i = j
    <3>1. CASE i # n /\ j # n
      <4>1. r.chain[i] = r.chain[j]
        BY <1>3, <2>1, <3>1
      <4> QED BY <4>1 DEF Good, OneOwner
    <3>2. ASSUME NEW k \in 1 .. n, k # n PROVE q.chain[k] # q.chain[n]
      <4>1. k \in 1 .. n - 1 /\ n \in 1 .. n
        BY <1>1, <3>2
      <4>2. q.chain[k] = r.chain[k] /\ q.chain[n] = b
        BY ONLY <1>3, <3>2, <4>1
      <4>3. r.chain[k] # b
        BY ONLY <1>6, <4>1
      <4> QED BY ONLY <4>2, <4>3
    <3> QED BY ONLY <2>1, <3>1, <3>2
  <2>2. ASSUME NEW i \in 1 .. n, NEW j \in 1 .. n, NEW x \in 1 .. Len(Regs(q, i))
        PROVE  /\ q.chain[j] # Regs(q, i)[x]
               /\ \A y \in 1 .. Len(Regs(q, j)) :
                    Regs(q, i)[x] = Regs(q, j)[y] => i = j /\ x = y
    <3>0. n \in 1 .. n
      BY <1>1
    <3>1. CASE i # n
      <4>1. i \in 1 .. n - 1 /\ Regs(q, i) = Regs(r, i) /\ x \in 1 .. Len(Regs(r, i))
        BY <1>1, <1>5, <2>2, <3>1
      <4> DEFINE c == Regs(r, i)[x]
      <4>2. /\ c # b /\ ~ In(s, c) /\ \A k \in 1 .. n : c # r.chain[k]
        BY <1>6, <4>1
      <4>3. q.chain[j] # c
        BY <1>3, <4>2
      <4>4. CASE j # n
        <5>1. j \in 1 .. n - 1 /\ Regs(q, j) = Regs(r, j)
          BY <1>1, <1>5, <4>4
        <5>2. \A y \in 1 .. Len(Regs(r, j)) : c = Regs(r, j)[y] => i = j /\ x = y
          BY <4>1 DEF Good, OneOwner
        <5> QED BY <4>1, <4>3, <5>1, <5>2
      <4>5. CASE j = n
        <5>1. Regs(q, j) = s
          BY <1>5, <4>5
        <5>2. \A y \in 1 .. Len(s) : c # s[y]
          BY <4>2 DEF In
        <5> QED BY <4>1, <4>3, <5>1, <5>2
      <4> QED BY <4>4, <4>5
    <3>2. CASE i = n
      <4>1. Regs(q, i) = s /\ x \in 1 .. Len(s)
        BY <1>5, <2>2, <3>2
      <4>2. CASE j # n
        <5>1. j \in 1 .. n - 1 /\ Regs(q, j) = Regs(r, j) /\ q.chain[j] = r.chain[j]
          BY <1>1, <1>5, <4>2
        <5>2. ~ In(s, r.chain[j]) /\ \A y \in 1 .. Len(Regs(r, j)) : ~ In(s, Regs(r, j)[y])
          BY <1>6, <5>1
        <5> QED BY <4>1, <5>1, <5>2 DEF In
      <4>3. CASE j = n
        BY <1>2, <1>5, <3>2, <4>1, <4>3
      <4> QED BY <4>2, <4>3
    <3> QED BY <3>1, <3>2
  <2> QED BY <1>3, <2>1, <2>2 DEF OneOwner
<1>8. \A c \in Addr :
          q.size[c] = CASE c = b -> (IF fl THEN 4 + Len(s) ELSE 3)
                        [] c # b /\ In(s, c) -> 4
                        [] c # b /\ ~ In(s, c) /\ (c = a \/ In(old, c)) -> 0
                        [] OTHER -> r.size[c]
  BY DEF TopBecomes
<1>9. Sized(q)
  <2> SUFFICES ASSUME NEW i \in 1 .. n
               PROVE  /\ q.size[q.chain[i]] = SizeOf(Lev(q, i))
                      /\ Len(Regs(q, i)) <= 99 /\ (~ Lev(q, i).flagged => Regs(q, i) = <<>>)
                      /\ \A x \in 1 .. Len(Regs(q, i)) : q.size[Regs(q, i)[x]] = 4
    BY <1>3 DEF Sized
  <2>1. CASE i # n
    <3>1. /\ i \in 1 .. n - 1 /\ Regs(q, i) = Regs(r, i) /\ q.chain[i] = r.chain[i]
          /\ Lev(q, i).flagged = Lev(r, i).flagged
      BY <1>1, <1>5, <2>1 DEF TopBecomes
    <3>2. /\ r.size[r.chain[i]] = SizeOf(Lev(r, i))
          /\ Len(Regs(r, i)) <= 99 /\ (~ Lev(r, i).flagged => Regs(r, i) = <<>>)
          /\ \A x \in 1 .. Len(Regs(r, i)) : r.size[Regs(r, i)[x]] = 4
      BY DEF Good, Sized
    <3>3. SizeOf(Lev(q, i)) = SizeOf(Lev(r, i))
      BY <3>1 DEF SizeOf, Regs
    <3>4. q.size[r.chain[i]] = r.size[r.chain[i]]
      BY <1>1, <1>6, <1>8, <3>1
    <3>5. \A x \in 1 .. Len(Regs(r, i)) : q.size[Regs(r, i)[x]] = r.size[Regs(r, i)[x]]
      BY <1>6, <1>8, <3>1
    <3> QED BY <3>1, <3>2, <3>3, <3>4, <3>5
  <2>2. CASE i = n
    <3>1. /\ Regs(q, i) = s /\ q.chain[i] = b /\ Lev(q, i) = q.lev[b]
          /\ q.lev[b].flagged = fl /\ q.lev[b].regs = s
      BY <1>5, <2>2 DEF TopBecomes
    <3>2. \A x \in 1 .. Len(s) : q.size[s[x]] = 4
      BY <1>2, <1>5, <1>8 DEF In
    <3>3. q.size[b] = IF fl THEN 4 + Len(s) ELSE 3
      BY <1>2, <1>8
    <3> QED BY <1>2, <3>1, <3>2, <3>3 DEF SizeOf
  <2> QED BY <2>1, <2>2
<1>10. NothingElse(q)
  <2> SUFFICES ASSUME NEW c \in Addr, ~ IsData(q, c)
               PROVE  /\ q.size[c] > 0 => IsLevel(q, c)
                      /\ q.val[c] = Zero
    BY DEF NothingElse
  <2>1. ~ In(s, c)
    <3>1. n \in 1 .. Len(q.chain) /\ Regs(q, n) = s
      BY <1>1, <1>3, <1>5
    <3> QED BY <3>1 DEF IsData, In
  <2>2. \A i \in 1 .. n - 1 : \A x \in 1 .. Len(Regs(r, i)) : c # Regs(r, i)[x]
    BY <1>1, <1>3, <1>5 DEF IsData
  <2>3. IsData(r, c) => In(old, c)
    <3> SUFFICES ASSUME IsData(r, c) PROVE In(old, c)
      OBVIOUS
    <3>1. PICK i \in 1 .. n : \E x \in 1 .. Len(Regs(r, i)) : c = Regs(r, i)[x]
      BY DEF IsData
    <3>2. i = n
      BY <1>1, <2>2, <3>1
    <3> QED BY <3>1, <3>2 DEF In
  <2>4. q.val[c] = Zero
    BY <2>1, <2>3 DEF TopBecomes, Good, NothingElse
  <2>5. ASSUME q.size[c] > 0 PROVE IsLevel(q, c)
    <3>1. CASE c = b
      BY <1>1, <1>3, <3>1 DEF IsLevel
    <3>2. CASE c # b
      <4>1. c # a /\ ~ In(old, c) /\ q.size[c] = r.size[c]
        BY <1>8, <2>1, <2>5, <3>2
      <4>2. PICK i \in 1 .. n : c = r.chain[i]
        BY <2>3, <2>5, <4>1 DEF Good, NothingElse, IsLevel
      <4>3. q.chain[i] = c
        BY <1>1, <1>3, <4>1, <4>2
      <4> QED BY <1>3, <4>3 DEF IsLevel
    <3> QED BY <3>1, <3>2
  <2> QED BY <2>4, <2>5
<1>11. /\ \A i \in 1 .. n : Header(Lev(q, i), Lev(r, i))
       /\ \A i \in 1 .. n - 1 : i < n - 1 => Lev(q, i).next = Lev(r, i).next
       /\ Lev(q, n).next = Lev(r, n).next
  <2>1. Lev(r, n) = r.lev[a]
    BY <1>1 DEF Lev
  <2>2. Header(Lev(q, n), Lev(r, n)) /\ Lev(q, n).next = Lev(r, n).next
    BY <1>5, <2>1 DEF TopBecomes
  <2>3. \A i \in 1 .. n - 1 : /\ Header(Lev(q, i), Lev(r, i))
                              /\ i < n - 1 => Lev(q, i).next = Lev(r, i).next
    BY DEF TopBecomes
  <2>4. \A i \in 1 .. n : i \in 1 .. n - 1 \/ i = n
    BY <1>1
  <2> QED BY <2>2, <2>3, <2>4
<1>12. LinkedBack(q)
  <2>1. q.chain[Len(q.chain)] = q.cur
    BY <1>2, <1>3, <1>5
  <2>2. Lev(q, 1).prev = NULL /\ Lev(q, 1).level = 0
    <3>1. 1 \in 1 .. n
      BY <1>1
    <3> QED BY <1>11, <3>1 DEF Header, Good, LinkedBack
  <2>3. ASSUME NEW i \in 2 .. n
        PROVE  /\ Lev(q, i).prev = q.chain[i - 1] /\ Lev(q, i).ret \in Points
               /\ Lev(q, i).level > Lev(q, i - 1).level
    <3>1. i \in 1 .. n /\ i - 1 \in 1 .. n /\ i - 1 # n
      BY <1>1
    <3>2. q.chain[i - 1] = r.chain[i - 1]
      BY <1>3, <3>1
    <3>3. /\ Lev(r, i).prev = r.chain[i - 1] /\ Lev(r, i).ret \in Points
          /\ Lev(r, i).level > Lev(r, i - 1).level
      BY DEF Good, LinkedBack
    <3> QED BY <1>11, <3>1, <3>2, <3>3 DEF Header
  <2>4. q.count > Lev(q, n).level
    <3>1. n \in 1 .. n
      BY <1>1
    <3> QED BY <1>2, <1>11, <3>1 DEF Header, Good, LinkedBack
  <2> QED BY <1>3, <2>1, <2>2, <2>3, <2>4 DEF LinkedBack
<1>13. Pointers(q)
  BY <1>2, <1>3, <1>5 DEF TopBecomes, Pointers
<1>14. LinkedOn(q)
  <2>1. Lev(q, n).next = NULL
    BY <1>11 DEF Good, LinkedOn
  <2>2. ASSUME NEW i \in 2 .. n, i \notin q.lost
        PROVE  Lev(q, i - 1).next = q.chain[i]
    <3>1. CASE i = n
      BY <1>1, <1>5, <2>2, <3>1 DEF TopBecomes
    <3>2. CASE i # n
      <4>1. i \in 1 .. n - 1 /\ i - 1 \in 1 .. n - 1 /\ i - 1 < n - 1
        BY <1>1, <3>2
      <4>2. i \notin r.lost
        BY <2>2, <4>1 DEF TopBecomes
      <4> QED BY <1>5, <1>11, <4>1, <4>2 DEF Good, LinkedOn
    <3> QED BY <3>1, <3>2
  <2>3. ASSUME 1 \notin q.lost PROVE q.level0 = q.chain[1]
    <3>1. CASE n = 1
      BY <1>5, <2>3, <3>1 DEF TopBecomes
    <3>2. CASE n # 1
      <4>0. \A k \in Nat \ {0} : k # 1 => k > 1 /\ 1 \in 1 .. k - 1
        OBVIOUS
      <4>1. n > 1 /\ 1 \in 1 .. n - 1
        BY <1>1, <3>2, <4>0
      <4> QED BY <1>5, <2>3, <4>1 DEF TopBecomes, Good, LinkedOn
    <3> QED BY <3>1, <3>2
  <2> QED BY <1>3, <2>1, <2>2, <2>3 DEF LinkedOn
<1> QED BY <1>2, <1>4, <1>7, <1>9, <1>10, <1>12, <1>13, <1>14 DEF Good

---------------------------------------------------------------------------
(* The fields that each of the small operations leaves.                    *)

LEMMA ImageCount ==
  ASSUME NEW s \in Seq(Addr), NEW k \in 0 .. Len(s),
         \A x, y \in 1 .. Len(s) : s[x] = s[y] => x = y
  PROVE  Cardinality({s[i] : i \in k + 1 .. Len(s)}) = Len(s) - k
<1>1. Len(s) \in Nat /\ Len(s) - k \in Nat
  BY LenProperties
<1> DEFINE T == {s[i] : i \in k + 1 .. Len(s)}
           h == [i \in 1 .. Len(s) - k |-> s[k + i]]
<1>2. h \in [1 .. Len(s) - k -> T]
  <2> SUFFICES ASSUME NEW i \in 1 .. Len(s) - k PROVE s[k + i] \in T
    OBVIOUS
  <2>1. k + i \in k + 1 .. Len(s)
    BY <1>1
  <2> QED BY <2>1
<1>3. ASSUME NEW i \in 1 .. Len(s) - k, NEW j \in 1 .. Len(s) - k, h[i] = h[j]
      PROVE  i = j
  <2>1. k + i \in 1 .. Len(s) /\ k + j \in 1 .. Len(s) /\ s[k + i] = s[k + j]
    BY <1>1, <1>3
  <2>2. k + i = k + j
    BY <2>1
  <2> QED BY <1>1, <2>2
<1>4. \A t \in T : \E i \in 1 .. Len(s) - k : h[i] = t
  <2> SUFFICES ASSUME NEW t \in T
               PROVE  \E i \in 1 .. Len(s) - k : h[i] = t
    OBVIOUS
  <2>0. PICK j \in k + 1 .. Len(s) : t = s[j]
    OBVIOUS
  <2>1. j - k \in 1 .. Len(s) - k /\ k + (j - k) = j
    BY <1>1
  <2>2. h[j - k] = s[j]
    BY <2>1
  <2> QED BY <2>0, <2>1, <2>2
<1> HIDE DEF T, h
<1>5. h \in Bijection(1 .. Len(s) - k, T)
  <2> DEFINE D == 1 .. Len(s) - k
  <2>1. /\ h \in [D -> T] /\ \A i, j \in D : h[i] = h[j] => i = j
        /\ \A t \in T : \E i \in D : h[i] = t
    BY <1>2, <1>3, <1>4
  <2> HIDE DEF D
  <2>2. h \in Injection(D, T)
    BY <2>1, Zenon DEF Injection, IsInjective
  <2>3. h \in Surjection(D, T)
    BY <2>1, Zenon DEF Surjection
  <2> QED BY <2>2, <2>3 DEF Bijection, D
<1>6. ExistsBijection(1 .. Len(s) - k, T)
  BY <1>5 DEF ExistsBijection
<1> QED BY <1>1, <1>6, FS_CountingElements DEF T

LEMMA ReallocFields ==
  ASSUME NEW r \in Ram, NEW b \in Addr, NEW old \in Nat, NEW new \in Nat,
         r.size[r.cur] = old, b # r.cur, r.chain # <<>>
  PROVE  LET m == Realloc(r, b, old, new)
             a == r.cur
         IN /\ m \in Ram
            /\ \A c \in Addr :
                 /\ m.size[c] = IF c = b THEN new ELSE IF c = a THEN 0 ELSE r.size[c]
                 /\ c # a => m.lev[c] = IF c = b THEN r.lev[a] ELSE r.lev[c]
                 /\ m.val[c] = IF c = a THEN Zero ELSE r.val[c]
            /\ m.chain = [r.chain EXCEPT ![Len(r.chain)] = b]
            /\ m.cur = r.cur /\ m.flags = r.flags /\ m.regs = r.regs
            /\ m.level0 = r.level0 /\ m.lost = r.lost
            /\ m.count = r.count /\ m.misuse = r.misuse
<1> DEFINE a == r.cur
           ch == [r.chain EXCEPT ![Len(r.chain)] = b]
           q == [r EXCEPT !.size[b] = new, !.lev[b] = r.lev[a], !.chain = ch]
           m == [q EXCEPT !.size[a] = 0, !.lev[a] = Blank, !.val[a] = Zero]
<1>1. /\ r.size \in [Addr -> Nat] /\ r.lev \in [Addr -> Level] /\ a \in Addr
      /\ r.val \in [Addr -> Values] /\ r.chain \in Seq(Addr) /\ r.lev[a] \in Level
  BY RamFields
<1>2. ch \in Seq(Addr)
  <2>1. Len(r.chain) \in 1 .. Len(r.chain)
    BY <1>1, EmptySeq
  <2> QED BY <1>1, <2>1, ExceptSeq
<1>3. Blank \in Level /\ Zero \in Values
  BY LevelsAssumption, EmptySeq DEF Blank, Level
<1> HIDE DEF ch
<1>4. /\ q \in Ram
      /\ \A c \in Addr : /\ q.size[c] = IF c = b THEN new ELSE r.size[c]
                         /\ q.lev[c] = IF c = b THEN r.lev[a] ELSE r.lev[c]
      /\ q.val = r.val /\ q.chain = ch
      /\ q.cur = r.cur /\ q.flags = r.flags /\ q.regs = r.regs
      /\ q.level0 = r.level0 /\ q.lost = r.lost
      /\ q.count = r.count /\ q.misuse = r.misuse
  BY <1>1, <1>2 DEF Ram
<1>5. Realloc(r, b, old, new) = m
  <2>1. q.size[a] = old
    BY <1>1, <1>4
  <2> HIDE DEF q
  <2>2. Realloc(r, b, old, new) = Free(q, a, old)
    BY DEF Realloc, q, ch
  <2> QED BY <2>1, <2>2 DEF Free
<1> HIDE DEF q
<1>6. /\ m \in Ram
      /\ \A c \in Addr : /\ m.size[c] = IF c = a THEN 0 ELSE q.size[c]
                         /\ m.lev[c] = IF c = a THEN Blank ELSE q.lev[c]
                         /\ m.val[c] = IF c = a THEN Zero ELSE q.val[c]
      /\ m.chain = q.chain
      /\ m.cur = q.cur /\ m.flags = q.flags /\ m.regs = q.regs
      /\ m.level0 = q.level0 /\ m.lost = q.lost
      /\ m.count = q.count /\ m.misuse = q.misuse
  <2>1. q.size \in [Addr -> Nat] /\ q.lev \in [Addr -> Level] /\ q.val \in [Addr -> Values]
    BY <1>4, RamFields
  <2> QED BY <1>1, <1>3, <1>4, <2>1 DEF Ram
<1> HIDE DEF m
<1> QED BY <1>1, <1>4, <1>5, <1>6 DEF ch

Refreshed(q, m, b, s) ==
  /\ q \in Ram
  /\ q.cur = b /\ q.flags = b /\ q.regs = (IF s # <<>> THEN b ELSE NULL)
  /\ Header(q.lev[b], m.lev[b]) /\ q.lev[b].next = m.lev[b].next
  /\ q.lev[b].flagged = TRUE /\ q.lev[b].regs = s
  /\ \A c \in Addr \ {b} : q.lev[c] = m.lev[c]
  /\ q.size = m.size /\ q.val = m.val /\ q.chain = m.chain
  /\ q.level0 = m.level0 /\ q.lost = m.lost
  /\ q.count = m.count /\ q.misuse = m.misuse

LEMMA RefreshFields ==
  ASSUME NEW m \in Ram, NEW b \in Addr, NEW s \in Seq(Addr)
  PROVE  Refreshed(refreshLocalStorage(m, b, s), m, b, s)
<1> DEFINE v == [[m.lev[b] EXCEPT !.flagged = TRUE] EXCEPT !.regs = s]
           lv == [m.lev EXCEPT ![b] = v]
           q == [m EXCEPT !.cur = b, !.flags = b, !.regs = IF s = <<>> THEN NULL ELSE b,
                          !.lev = lv]
<1>1. m.lev \in [Addr -> Level] /\ m.lev[b] \in Level
  BY RamFields
<1>2. /\ v \in Level /\ Header(v, m.lev[b]) /\ v.next = m.lev[b].next
      /\ v.flagged = TRUE /\ v.regs = s
  BY <1>1 DEF Level, Header
<1>3. refreshLocalStorage(m, b, s) = q
  BY <1>1, ZenonT(40) DEF refreshLocalStorage, Ram, Level
<1> HIDE DEF v
<1>4. lv \in [Addr -> Level] /\ lv[b] = v /\ \A c \in Addr \ {b} : lv[c] = m.lev[c]
  BY <1>1, <1>2
<1> HIDE DEF lv
<1>5. /\ q \in Ram
      /\ q.cur = b /\ q.flags = b /\ q.regs = (IF s # <<>> THEN b ELSE NULL)
      /\ q.lev = lv
      /\ q.size = m.size /\ q.val = m.val /\ q.chain = m.chain
      /\ q.level0 = m.level0 /\ q.lost = m.lost
      /\ q.count = m.count /\ q.misuse = m.misuse
  BY <1>4 DEF Ram
<1> HIDE DEF q
<1> QED BY <1>2, <1>3, <1>4, <1>5 DEF Refreshed

Filled(q, m, data) ==
  /\ q \in Ram
  /\ \A c \in Addr : q.size[c] = IF In(data, c) THEN 4 ELSE m.size[c]
  /\ q.cur = m.cur /\ q.flags = m.flags /\ q.regs = m.regs
  /\ q.lev = m.lev /\ q.val = m.val /\ q.chain = m.chain
  /\ q.level0 = m.level0 /\ q.lost = m.lost
  /\ q.count = m.count /\ q.misuse = m.misuse

LEMMA InitializedFields ==
  ASSUME NEW m \in Ram, NEW data \in Seq(Addr)
  PROVE  Filled(Initialized(m, data), m, data)
<1> DEFINE sz == [a \in Addr |-> IF \E i \in DOMAIN data : data[i] = a
                                       THEN RealBlocks ELSE m.size[a]]
           q == [m EXCEPT !.size = sz]
<1>1. m.size \in [Addr -> Nat] /\ DOMAIN data = 1 .. Len(data)
  BY RamFields, LenProperties
<1>2. sz \in [Addr -> Nat] /\ \A c \in Addr : sz[c] = IF In(data, c) THEN 4 ELSE m.size[c]
  BY <1>1 DEF In, RealBlocks
<1>3. Initialized(m, data) = q
  BY DEF Initialized, Ram
<1> HIDE DEF sz
<1>4. /\ q \in Ram /\ q.size = sz
      /\ q.cur = m.cur /\ q.flags = m.flags /\ q.regs = m.regs
      /\ q.lev = m.lev /\ q.val = m.val /\ q.chain = m.chain
      /\ q.level0 = m.level0 /\ q.lost = m.lost
      /\ q.count = m.count /\ q.misuse = m.misuse
  BY <1>2 DEF Ram
<1> HIDE DEF q
<1> QED BY <1>2, <1>3, <1>4 DEF Filled

Relinked(q, m) ==
  /\ q \in Ram
  /\ q.cur = m.cur /\ q.flags = m.flags /\ q.regs = m.regs
  /\ q.size = m.size /\ q.val = m.val /\ q.chain = m.chain
  /\ q.count = m.count /\ q.misuse = m.misuse
  /\ curLevel(m) = 0 =>
       q.lev = m.lev /\ q.lost = m.lost \ {1} /\ q.level0 = m.cur
  /\ curLevel(m) # 0 =>
       LET p == m.lev[m.cur].prev
       IN /\ q.lost = m.lost \ {Len(m.chain)} /\ q.level0 = m.level0
          /\ \A c \in Addr \ {p} : q.lev[c] = m.lev[c]
          /\ Header(q.lev[p], m.lev[p]) /\ q.lev[p].next = m.cur
          /\ q.lev[p].flagged = m.lev[p].flagged
          /\ q.lev[p].regs = m.lev[p].regs

LEMMA LinksFields ==
  ASSUME NEW m \in Ram, curLevel(m) # 0 => m.lev[m.cur].prev \in Addr
  PROVE  Relinked(updateSubroutineLinks(m), m)
<1>1. CASE curLevel(m) = 0
  <2>1. updateSubroutineLinks(m) = [m EXCEPT !.level0 = m.cur, !.lost = m.lost \ {1}]
    BY <1>1 DEF updateSubroutineLinks, Ram
  <2>2. m.cur \in Addr /\ m.lost \ {1} \in SUBSET Nat
    BY RamFields
  <2> DEFINE q == [m EXCEPT !.level0 = m.cur, !.lost = m.lost \ {1}]
  <2>3. /\ q \in Ram
        /\ q.cur = m.cur /\ q.flags = m.flags /\ q.regs = m.regs
        /\ q.size = m.size /\ q.val = m.val /\ q.chain = m.chain
        /\ q.count = m.count /\ q.misuse = m.misuse
        /\ q.lev = m.lev /\ q.lost = m.lost \ {1} /\ q.level0 = m.cur
    BY <2>2 DEF Ram
  <2> HIDE DEF q
  <2> QED BY <1>1, <2>1, <2>3 DEF q, Relinked
<1>2. CASE curLevel(m) # 0
  <2> DEFINE p == m.lev[m.cur].prev
             v == [m.lev[p] EXCEPT !.next = m.cur]
             lv == [m.lev EXCEPT ![p] = v]
             q == [m EXCEPT !.lev = lv, !.lost = m.lost \ {Len(m.chain)}]
  <2>1. /\ m.cur \in Addr /\ m.lost \ {Len(m.chain)} \in SUBSET Nat
        /\ m.lev \in [Addr -> Level] /\ p \in Addr /\ m.lev[p] \in Level
    BY <1>2, RamFields
  <2>2. /\ v \in Level /\ Header(v, m.lev[p]) /\ v.next = m.cur
        /\ v.flagged = m.lev[p].flagged /\ v.regs = m.lev[p].regs
    BY <2>1 DEF Level, Header
  <2>3. updateSubroutineLinks(m) = q
    BY <1>2, <2>1 DEF updateSubroutineLinks, Ram, Level
  <2> HIDE DEF v, p
  <2>4. lv \in [Addr -> Level] /\ lv[p] = v /\ \A c \in Addr \ {p} : lv[c] = m.lev[c]
    BY <2>1, <2>2
  <2> HIDE DEF lv
  <2>5. /\ q \in Ram
        /\ q.cur = m.cur /\ q.flags = m.flags /\ q.regs = m.regs
        /\ q.size = m.size /\ q.val = m.val /\ q.chain = m.chain
        /\ q.count = m.count /\ q.misuse = m.misuse /\ q.level0 = m.level0
        /\ q.lev = lv /\ q.lost = m.lost \ {Len(m.chain)}
    BY <2>1, <2>4 DEF Ram
  <2> HIDE DEF q
  <2> QED BY <1>2, <2>2, <2>3, <2>4, <2>5 DEF p, Relinked
<1> QED BY <1>1, <1>2

Reduced(q, m, b, new) ==
  /\ q \in Ram
  /\ \A c \in Addr : q.size[c] = IF c = b THEN new ELSE m.size[c]
  /\ q.cur = m.cur /\ q.flags = m.flags /\ q.regs = m.regs
  /\ q.lev = m.lev /\ q.val = m.val /\ q.chain = m.chain
  /\ q.level0 = m.level0 /\ q.lost = m.lost
  /\ q.count = m.count /\ q.misuse = m.misuse

LEMMA ReduceFields ==
  ASSUME NEW m \in Ram, NEW b \in Addr, NEW old, NEW new \in Nat, m.size[b] = old
  PROVE  Reduced(Reduce(m, b, old, new), m, b, new)
<1>1. Reduce(m, b, old, new) = [m EXCEPT !.size[b] = new]
  BY DEF Reduce
<1>2. m.size \in [Addr -> Nat]
  BY RamFields
<1> DEFINE q == [m EXCEPT !.size[b] = new]
<1>3. /\ q \in Ram
      /\ \A c \in Addr : q.size[c] = IF c = b THEN new ELSE m.size[c]
      /\ q.cur = m.cur /\ q.flags = m.flags /\ q.regs = m.regs
      /\ q.lev = m.lev /\ q.val = m.val /\ q.chain = m.chain
      /\ q.level0 = m.level0 /\ q.lost = m.lost
      /\ q.count = m.count /\ q.misuse = m.misuse
  BY <1>2 DEF Ram
<1> HIDE DEF q
<1> QED BY <1>1, <1>3 DEF q, Reduced

---------------------------------------------------------------------------
(* LocR and what goes with it: each makes the top of the levels another.   *)

LEMMA OneOrMore ==
  \A k \in Nat \ {0} : /\ k = 1 \/ (k > 1 /\ k - 1 \in 1 .. k - 1)
                       /\ k > 1 => k # 1
                       /\ k # 1 => k > 1 /\ k \in 2 .. k
OBVIOUS

LEMMA TopFacts ==
  ASSUME NEW r, Good(r)
  PROVE  LET n == Len(r.chain)
             a == r.cur
         IN /\ n \in Nat \ {0} /\ a = r.chain[n] /\ a \in Addr
            /\ r.lev[a] = Lev(r, n) /\ curRegs(r) = Regs(r, n)
            /\ curLevel(r) = Lev(r, n).level /\ curLevel(r) \in Nat
            /\ curLevel(r) = 0 <=> n = 1
            /\ n > 1 => /\ r.lev[a].prev = r.chain[n - 1] /\ r.chain[n - 1] \in Addr
                        /\ r.chain[n - 1] # a
            /\ r.size[a] = SizeOf(r.lev[a]) /\ r.size[a] \in Nat \ {0}
            /\ Regs(r, n) \in Seq(Addr) /\ Len(Regs(r, n)) \in 0 .. 99
            /\ (r.flags = NULL <=> ~ r.lev[a].flagged)
            /\ (r.regs = NULL <=> Regs(r, n) = <<>>)
            /\ (r.regs # NULL => r.regs = a)
            /\ (~ r.lev[a].flagged => Regs(r, n) = <<>>)
            /\ r.val[a] = Zero
            /\ \A x, y \in 1 .. Len(Regs(r, n)) : Regs(r, n)[x] = Regs(r, n)[y] => x = y
            /\ \A x \in 1 .. Len(Regs(r, n)) :
                 /\ Regs(r, n)[x] \in Addr /\ Regs(r, n)[x] # a
                 /\ r.size[Regs(r, n)[x]] = 4
            /\ \A i \in 1 .. n - 1 :
                 /\ r.chain[i] \in Addr /\ r.chain[i] # a /\ r.size[r.chain[i]] > 0
                 /\ i < n - 1 => r.chain[i] # r.chain[n - 1]
<1> DEFINE n == Len(r.chain)
           a == r.cur
<1>1. /\ r \in Ram /\ n \in Nat \ {0} /\ a = r.chain[n]
      /\ \A i \in 1 .. n :
              /\ r.chain[i] \in Addr /\ Lev(r, i) \in Level
              /\ Lev(r, i).level \in Nat
              /\ Regs(r, i) \in Seq(Addr) /\ Len(Regs(r, i)) \in Nat
              /\ \A x \in 1 .. Len(Regs(r, i)) : Regs(r, i)[x] \in Addr
              /\ r.size[r.chain[i]] > 0
  BY GoodFacts
<1>2. n \in 1 .. n
  BY <1>1
<1>3. /\ a \in Addr /\ r.lev[a] = Lev(r, n) /\ curRegs(r) = Regs(r, n)
      /\ curLevel(r) = Lev(r, n).level /\ curLevel(r) \in Nat
  BY <1>1, <1>2 DEF Lev, Regs, curRegs, curLevel
<1>4. n = 1 => curLevel(r) = 0
  BY <1>3 DEF Good, LinkedBack
<1>5. ASSUME n > 1
      PROVE  /\ r.lev[a].prev = r.chain[n - 1] /\ r.chain[n - 1] \in Addr
             /\ r.chain[n - 1] # a /\ curLevel(r) # 0
  <2>1. n \in 2 .. n /\ n - 1 \in 1 .. n /\ n - 1 # n
    BY <1>1, <1>5
  <2>2. Lev(r, n).prev = r.chain[n - 1] /\ Lev(r, n).level > Lev(r, n - 1).level
    BY <2>1 DEF Good, LinkedBack
  <2>3. Lev(r, n - 1).level \in Nat /\ r.chain[n - 1] \in Addr
    BY <1>1, <2>1
  <2>4. r.chain[n - 1] # a
    BY <1>1, <1>2, <2>1 DEF Good, OneOwner
  <2> QED BY <1>3, <2>2, <2>3, <2>4
<1>6. curLevel(r) = 0 <=> n = 1
  <2>1. \A k \in Nat \ {0} : k = 1 \/ k > 1
    OBVIOUS
  <2>2. n = 1 \/ n > 1
    BY <1>1, <2>1
  <2> QED BY <1>4, <1>5, <2>2
<1>7. /\ r.size[a] = SizeOf(r.lev[a]) /\ r.size[a] \in Nat \ {0}
      /\ Len(Regs(r, n)) \in 0 .. 99 /\ (~ r.lev[a].flagged => Regs(r, n) = <<>>)
      /\ \A x \in 1 .. Len(Regs(r, n)) : r.size[Regs(r, n)[x]] = 4
  <2>1. r.size[a] \in Nat
    BY <1>1, <1>3, RamFields
  <2>2. /\ r.size[r.chain[n]] = SizeOf(Lev(r, n))
        /\ Len(Regs(r, n)) <= 99 /\ (~ Lev(r, n).flagged => Regs(r, n) = <<>>)
        /\ \A x \in 1 .. Len(Regs(r, n)) : r.size[Regs(r, n)[x]] = 4
    BY <1>2 DEF Good, Sized
  <2>3. r.size[a] > 0 /\ Len(Regs(r, n)) \in Nat
    BY <1>1, <1>2
  <2>4. \A k \in Nat : (k > 0 => k \in Nat \ {0}) /\ (k <= 99 => k \in 0 .. 99)
    OBVIOUS
  <2>5. r.size[a] \in Nat \ {0} /\ Len(Regs(r, n)) \in 0 .. 99
    BY <2>1, <2>2, <2>3, <2>4
  <2>6. r.chain[n] = a /\ r.lev[a] = Lev(r, n)
    BY <1>1, <1>3
  <2> QED BY <2>2, <2>5, <2>6
<1>8. /\ (r.flags = NULL <=> ~ r.lev[a].flagged)
      /\ (r.regs = NULL <=> Regs(r, n) = <<>>)
      /\ (r.regs # NULL => r.regs = a)
  <2>1. Pointers(r)
    BY DEF Good
  <2>2. a # NULL /\ r.lev[a] = Lev(r, n)
    BY <1>3, LevelsAssumption
  <2> QED BY <2>1, <2>2 DEF Pointers
<1>9. \A x, y \in 1 .. Len(Regs(r, n)) : Regs(r, n)[x] = Regs(r, n)[y] => x = y
  BY <1>2 DEF Good, OneOwner
<1>10. \A x \in 1 .. Len(Regs(r, n)) : Regs(r, n)[x] \in Addr /\ Regs(r, n)[x] # a
  BY <1>1, <1>2 DEF Good, OneOwner
<1>11. r.val[a] = Zero
  <2>1. ~ IsData(r, a)
    BY <1>1, <1>2 DEF Good, OneOwner, IsData
  <2> QED BY <1>3, <2>1 DEF Good, NothingElse
<1>12. \A i \in 1 .. n - 1 :
         /\ r.chain[i] \in Addr /\ r.chain[i] # a /\ r.size[r.chain[i]] > 0
         /\ i < n - 1 => r.chain[i] # r.chain[n - 1]
  <2> SUFFICES ASSUME NEW i \in 1 .. n - 1
               PROVE  /\ r.chain[i] \in Addr /\ r.chain[i] # a /\ r.size[r.chain[i]] > 0
                      /\ i < n - 1 => r.chain[i] # r.chain[n - 1]
    OBVIOUS
  <2>1. i \in 1 .. n /\ i # n /\ n - 1 \in 1 .. n /\ (i < n - 1 => i # n - 1)
    BY <1>1
  <2> QED BY <1>1, <1>2, <2>1 DEF Good, OneOwner
<1>13. Regs(r, n) \in Seq(Addr)
  BY <1>1, <1>2
<1> QED BY <1>1, <1>3, <1>5, <1>6, <1>7, <1>8, <1>9, <1>10, <1>11, <1>12, <1>13

(* The block a moves to b, and the list of its registers becomes s: what   *)
(* it was, and the new ones in `data`, which may lie in the block left.    *)
Grown(r, b, s, data, m) ==
  /\ b \in Addr /\ r.size[b] = 0
  /\ s \in Seq(Addr) /\ data \in Seq(Addr) /\ Len(s) <= 99
  /\ s = curRegs(r) \o data
  /\ m = Realloc(r, b, r.size[r.cur], levelBlocks(Len(s)))
  /\ \A x \in 1 .. Len(data) : m.size[data[x]] = 0
  /\ \A x, y \in 1 .. Len(data) : data[x] = data[y] => x = y

(* The new list: `data` lies in Z or in block a, and the old list does not. *)
NewOnes(a, b, old, data, Z) ==
  /\ old \in Seq(Addr) /\ data \in Seq(Addr)
  /\ \A x \in 1 .. Len(old) : old[x] \notin Z /\ old[x] # a /\ old[x] # b
  /\ \A x \in 1 .. Len(data) : (data[x] \in Z \/ data[x] = a) /\ data[x] # b
  /\ \A x, y \in 1 .. Len(old) : old[x] = old[y] => x = y
  /\ \A x, y \in 1 .. Len(data) : data[x] = data[y] => x = y

NewList(a, b, old, data, Z, s) ==
  /\ \A c : In(s, c) <=> In(old, c) \/ In(data, c)
  /\ \A x \in 1 .. Len(s) :
       s[x] # b /\ IF x <= Len(old) THEN s[x] = old[x] ELSE s[x] \in Z \/ s[x] = a
  /\ \A x, y \in 1 .. Len(s) : s[x] = s[y] => x = y

LEMMA GrownList ==
  ASSUME NEW a, NEW b, NEW old, NEW data, NEW Z, NewOnes(a, b, old, data, Z)
  PROVE  NewList(a, b, old, data, Z, old \o data)
<1>0. /\ old \in Seq(Addr) /\ data \in Seq(Addr)
      /\ \A x \in 1 .. Len(old) : old[x] \notin Z /\ old[x] # a /\ old[x] # b
      /\ \A x \in 1 .. Len(data) : (data[x] \in Z \/ data[x] = a) /\ data[x] # b
      /\ \A x, y \in 1 .. Len(old) : old[x] = old[y] => x = y
      /\ \A x, y \in 1 .. Len(data) : data[x] = data[y] => x = y
  BY DEF NewOnes
<1> PICK s : s = old \o data
  OBVIOUS
<1> DEFINE l == Len(old)
           d == Len(data)
<1>1. l \in Nat /\ d \in Nat
  BY <1>0, LenProperties
<1>2. /\ Len(s) = l + d
      /\ \A x \in 1 .. l + d : s[x] = IF x <= l THEN old[x] ELSE data[x - l]
  BY <1>0, ConcatProperties
<1>3. /\ \A x \in 1 .. l : x \in 1 .. l + d /\ x <= l
      /\ \A x \in 1 .. d : l + x \in 1 .. l + d /\ ~ (l + x <= l) /\ (l + x) - l = x
      /\ \A x \in 1 .. l + d : IF x <= l THEN x \in 1 .. l ELSE x - l \in 1 .. d
      /\ \A x, y \in 1 .. l + d : x - l = y - l => x = y
  BY <1>1
<1> HIDE DEF l, d
<1>4. \A x \in 1 .. l + d : \/ x <= l /\ x \in 1 .. l /\ s[x] = old[x]
                            \/ ~ (x <= l) /\ x - l \in 1 .. d /\ s[x] = data[x - l]
  BY <1>2, <1>3
<1>5. /\ \A x \in 1 .. l : s[x] = old[x]
      /\ \A x \in 1 .. d : s[l + x] = data[x]
  BY <1>2, <1>3
<1>6. \A c : In(s, c) <=> In(old, c) \/ In(data, c)
  <2> SUFFICES ASSUME NEW c PROVE In(s, c) <=> In(old, c) \/ In(data, c)
    OBVIOUS
  <2>1. In(old, c) => In(s, c)
    BY <1>2, <1>3, <1>5 DEF In, l
  <2>2. In(data, c) => In(s, c)
    BY <1>2, <1>3, <1>5 DEF In, d
  <2>3. In(s, c) => In(old, c) \/ In(data, c)
    BY <1>2, <1>4 DEF In, l, d
  <2> QED BY <2>1, <2>2, <2>3
<1>7. \A x \in 1 .. l + d :
        s[x] # b /\ IF x <= l THEN s[x] = old[x] ELSE s[x] \in Z \/ s[x] = a
  BY <1>0, <1>4 DEF l, d
<1>8. ASSUME NEW x \in 1 .. l + d, NEW y \in 1 .. l + d, s[x] = s[y]
      PROVE  x = y
  <2>1. CASE x <= l /\ y <= l
    BY <1>0, <1>4, <1>8, <2>1 DEF l
  <2>2. CASE ~ (x <= l) /\ ~ (y <= l)
    <3>1. x - l \in 1 .. d /\ y - l \in 1 .. d /\ data[x - l] = data[y - l]
      BY <1>4, <1>8, <2>2
    <3>2. x - l = y - l
      BY <1>0, <3>1 DEF d
    <3> QED BY <1>3, <3>2
  <2>3. CASE x <= l /\ ~ (y <= l)
    <3>1. x \in 1 .. l /\ y - l \in 1 .. d /\ old[x] = data[y - l]
      BY <1>4, <1>8, <2>3
    <3>2. old[x] \notin Z /\ old[x] # a /\ (data[y - l] \in Z \/ data[y - l] = a)
      BY <1>0, <3>1 DEF l, d
    <3> QED BY <3>1, <3>2
  <2>4. CASE ~ (x <= l) /\ y <= l
    <3>1. y \in 1 .. l /\ x - l \in 1 .. d /\ old[y] = data[x - l]
      BY <1>4, <1>8, <2>4
    <3>2. old[y] \notin Z /\ old[y] # a /\ (data[x - l] \in Z \/ data[x - l] = a)
      BY <1>0, <3>1 DEF l, d
    <3> QED BY <3>1, <3>2
  <2> QED BY <2>1, <2>2, <2>3, <2>4
<1> QED BY <1>2, <1>6, <1>7, <1>8 DEF l, NewList


(* The fields of a level that has moved, as they follow from r.            *)
Moved(r, q, b, s, data, m) ==
  LET n == Len(r.chain)
      a == r.cur
  IN /\ q \in Ram /\ ~ q.misuse
     /\ \A c \in Addr :
          q.size[c] = IF In(data, c) THEN 4 ELSE IF c = b THEN 4 + Len(s)
                      ELSE IF c = a THEN 0 ELSE r.size[c]
     /\ \A c \in Addr : q.val[c] = IF c = a THEN Zero ELSE r.val[c]
     /\ q.chain = [r.chain EXCEPT ![n] = b] /\ q.cur = b /\ q.count = r.count
     /\ q.flags = b /\ q.regs = (IF s # <<>> THEN b ELSE NULL)
     /\ Header(q.lev[b], r.lev[a]) /\ q.lev[b].next = r.lev[a].next
     /\ q.lev[b].flagged = TRUE /\ q.lev[b].regs = s
     /\ n = 1 =>
          /\ \A c \in Addr \ {a, b} : q.lev[c] = r.lev[c]
          /\ q.lost = r.lost \ {1} /\ q.level0 = b
     /\ n > 1 =>
          LET p == r.chain[n - 1]
          IN /\ q.lost = r.lost \ {n} /\ q.level0 = r.level0
             /\ \A c \in Addr \ {p, a, b} : q.lev[c] = r.lev[c]
             /\ Header(q.lev[p], r.lev[p]) /\ q.lev[p].next = b
             /\ q.lev[p].flagged = r.lev[p].flagged
             /\ q.lev[p].regs = r.lev[p].regs
     /\ m \in Ram
     /\ \A c \in Addr :
          m.size[c] = IF c = b THEN 4 + Len(s) ELSE IF c = a THEN 0 ELSE r.size[c]

LEMMA MovedFields ==
  ASSUME NEW r, Good(r), NEW b, NEW s, NEW data, NEW m, Grown(r, b, s, data, m)
  PROVE  Moved(r, updateSubroutineLinks(Initialized(refreshLocalStorage(m, b, s), data)),
               b, s, data, m)
<1> DEFINE n == Len(r.chain)
           a == r.cur
           sz == 4 + Len(s)
           m1 == refreshLocalStorage(m, b, s)
           m2 == Initialized(m1, data)
           q == updateSubroutineLinks(m2)
<1>1. /\ b \in Addr /\ r.size[b] = 0 /\ s \in Seq(Addr) /\ data \in Seq(Addr)
      /\ m = Realloc(r, b, r.size[a], sz)
  BY DEF Grown, levelBlocks
<1>2. /\ n \in Nat \ {0} /\ a \in Addr /\ r.size[a] \in Nat \ {0}
      /\ curLevel(r) = r.lev[a].level /\ (curLevel(r) = 0 <=> n = 1)
  BY TopFacts DEF curLevel
<1>3. n > 1 => /\ r.lev[a].prev = r.chain[n - 1] /\ r.chain[n - 1] \in Addr
               /\ r.chain[n - 1] # a /\ r.chain[n - 1] # b
  <2>1. n > 1 => n - 1 \in 1 .. n - 1
    BY <1>2
  <2>2. n > 1 => /\ r.lev[a].prev = r.chain[n - 1] /\ r.chain[n - 1] \in Addr
                 /\ r.chain[n - 1] # a
    BY TopFacts
  <2>3. \A i \in 1 .. n - 1 : r.size[r.chain[i]] > 0
    BY TopFacts
  <2> QED BY <1>1, <2>1, <2>2, <2>3
<1>4. b # a /\ r \in Ram /\ r.chain # <<>> /\ ~ r.misuse /\ r.chain \in Seq(Addr)
  BY <1>1, <1>2, RamFields DEF Good
<1>5. sz \in Nat /\ r.size[a] \in Nat
  BY <1>1, <1>2, LenProperties
<1> HIDE DEF sz
<1>6. /\ m \in Ram
      /\ \A c \in Addr :
           m.size[c] = IF c = b THEN sz ELSE IF c = a THEN 0 ELSE r.size[c]
      /\ \A c \in Addr : c # a => m.lev[c] = IF c = b THEN r.lev[a] ELSE r.lev[c]
      /\ \A c \in Addr : m.val[c] = IF c = a THEN Zero ELSE r.val[c]
      /\ m.chain = [r.chain EXCEPT ![n] = b]
      /\ m.level0 = r.level0 /\ m.lost = r.lost
      /\ m.count = r.count /\ m.misuse = r.misuse
  BY <1>1, <1>4, <1>5, ReallocFields, SMTT(30)
<1>7. Len(m.chain) = n
  <2>1. n \in 1 .. n
    BY <1>2
  <2> QED BY <1>1, <1>4, <1>6, <2>1, ExceptSeq
<1>8. /\ m1 \in Ram
      /\ m1.cur = b /\ m1.flags = b /\ m1.regs = (IF s # <<>> THEN b ELSE NULL)
      /\ Header(m1.lev[b], m.lev[b]) /\ m1.lev[b].next = m.lev[b].next
      /\ m1.lev[b].flagged = TRUE /\ m1.lev[b].regs = s
      /\ \A c \in Addr \ {b} : m1.lev[c] = m.lev[c]
      /\ m1.size = m.size /\ m1.val = m.val /\ m1.chain = m.chain
      /\ m1.level0 = m.level0 /\ m1.lost = m.lost
      /\ m1.count = m.count /\ m1.misuse = m.misuse
  <2>1. m \in Ram
    BY <1>6
  <2>2. b \in Addr /\ s \in Seq(Addr)
    BY <1>1
  <2>3. Refreshed(m1, m, b, s)
    BY ONLY <2>1, <2>2, RefreshFields
  <2> HIDE DEF m1
  <2> QED BY ONLY <2>3 DEF Refreshed
<1> HIDE DEF m1
<1>9. /\ m2 \in Ram
      /\ \A c \in Addr : m2.size[c] = IF In(data, c) THEN 4 ELSE m1.size[c]
      /\ m2.cur = m1.cur /\ m2.flags = m1.flags /\ m2.regs = m1.regs
      /\ m2.lev = m1.lev /\ m2.val = m1.val /\ m2.chain = m1.chain
      /\ m2.level0 = m1.level0 /\ m2.lost = m1.lost
      /\ m2.count = m1.count /\ m2.misuse = m1.misuse
  <2>1. m1 \in Ram
    BY <1>8
  <2> QED BY ONLY <1>1, <2>1, InitializedFields DEF Filled
<1> HIDE DEF m2
<1>10. m.lev[b] = r.lev[a]
  BY <1>1, <1>4, <1>6
<1>11. /\ curLevel(m2) = curLevel(r) /\ m2.lev[m2.cur].prev = r.lev[a].prev
       /\ m2.cur = b /\ Len(m2.chain) = n
  <2>1. m2.cur = b /\ m2.lev = m1.lev /\ Header(m1.lev[b], r.lev[a]) /\ m2.chain = m.chain
    BY <1>8, <1>9, <1>10
  <2> QED BY <1>2, <1>7, <2>1 DEF curLevel, Header
<1>12. /\ q \in Ram
       /\ q.cur = m2.cur /\ q.flags = m2.flags /\ q.regs = m2.regs
       /\ q.size = m2.size /\ q.val = m2.val /\ q.chain = m2.chain
       /\ q.count = m2.count /\ q.misuse = m2.misuse
       /\ n = 1 => q.lev = m2.lev /\ q.lost = m2.lost \ {1} /\ q.level0 = b
       /\ n > 1 => LET p == r.chain[n - 1]
                   IN /\ q.lost = m2.lost \ {n} /\ q.level0 = m2.level0
                      /\ \A c \in Addr \ {p} : q.lev[c] = m2.lev[c]
                      /\ Header(q.lev[p], m2.lev[p]) /\ q.lev[p].next = b
                      /\ q.lev[p].flagged = m2.lev[p].flagged
                      /\ q.lev[p].regs = m2.lev[p].regs
  <2>1. n = 1 \/ n > 1
    BY <1>2, OneOrMore
  <2>2. n > 1 => curLevel(m2) # 0 /\ m2.lev[m2.cur].prev = r.chain[n - 1]
    <3>1. n > 1 => n # 1
      BY <1>2, OneOrMore
    <3> QED BY <1>2, <1>3, <1>11, <3>1
  <2>3. n = 1 => curLevel(m2) = 0
    BY <1>2, <1>11
  <2>4. curLevel(m2) # 0 => m2.lev[m2.cur].prev \in Addr
    BY <1>3, <2>1, <2>2, <2>3
  <2>5. m2 \in Ram /\ m2.cur = b /\ Len(m2.chain) = n
    BY <1>9, <1>11
  <2> QED BY ONLY <2>2, <2>3, <2>4, <2>5, LinksFields DEF Relinked
<1> HIDE DEF q
<1>13. /\ Header(q.lev[b], r.lev[a]) /\ q.lev[b].next = r.lev[a].next
       /\ q.lev[b].flagged = TRUE /\ q.lev[b].regs = s
  <2>1. q.lev[b] = m1.lev[b]
    <3>1. n = 1 \/ n > 1
      BY <1>2, OneOrMore
    <3> QED BY <1>1, <1>3, <1>9, <1>12, <3>1
  <2> QED BY <1>8, <1>10, <2>1
<1>14. \A c \in Addr \ {a, b} : m2.lev[c] = r.lev[c]
  BY <1>6, <1>8, <1>9
<1>15. \A c \in Addr :
         q.size[c] = IF In(data, c) THEN 4 ELSE IF c = b THEN sz
                             ELSE IF c = a THEN 0 ELSE r.size[c]
  BY <1>6, <1>8, <1>9, <1>12
<1>16. \A c \in Addr : q.val[c] = IF c = a THEN Zero ELSE r.val[c]
  BY <1>6, <1>8, <1>9, <1>12
<1>17. /\ q.chain = [r.chain EXCEPT ![n] = b] /\ q.cur = b /\ q.count = r.count
       /\ q.flags = b /\ q.regs = (IF s # <<>> THEN b ELSE NULL) /\ ~ q.misuse
  BY <1>4, <1>6, <1>8, <1>9, <1>12
<1>18. n = 1 => /\ \A c \in Addr \ {a, b} : q.lev[c] = r.lev[c]
                /\ q.lost = r.lost \ {1} /\ q.level0 = b
  BY <1>6, <1>8, <1>9, <1>12, <1>14
<1>19. n > 1 => LET p == r.chain[n - 1]
                IN /\ q.lost = r.lost \ {n} /\ q.level0 = r.level0
                   /\ \A c \in Addr \ {p, a, b} : q.lev[c] = r.lev[c]
                   /\ Header(q.lev[p], r.lev[p]) /\ q.lev[p].next = b
                   /\ q.lev[p].flagged = r.lev[p].flagged
                   /\ q.lev[p].regs = r.lev[p].regs
  <2> SUFFICES ASSUME n > 1
               PROVE LET p == r.chain[n - 1]
                IN /\ q.lost = r.lost \ {n} /\ q.level0 = r.level0
                   /\ \A c \in Addr \ {p, a, b} : q.lev[c] = r.lev[c]
                   /\ Header(q.lev[p], r.lev[p]) /\ q.lev[p].next = b
                   /\ q.lev[p].flagged = r.lev[p].flagged
                   /\ q.lev[p].regs = r.lev[p].regs
    OBVIOUS
  <2>1. m2.lev[r.chain[n - 1]] = r.lev[r.chain[n - 1]]
    BY <1>3, <1>14
  <2>2. m2.lost = r.lost /\ m2.level0 = r.level0
    BY <1>6, <1>8, <1>9
  <2> QED BY <1>12, <1>14, <2>1, <2>2
<1> HIDE DEF a, n
<1> QED
  BY <1>6, <1>12, <1>13, <1>15, <1>16, <1>17, <1>18, <1>19 DEF q, m2, m1, sz, a, n, Moved


LEMMA MoveDone ==
  ASSUME NEW r, Good(r), NEW b, NEW s, NEW data, NEW m, Grown(r, b, s, data, m)
  PROVE  TopBecomes(r, updateSubroutineLinks(
                         Initialized(refreshLocalStorage(m, b, s), data)), b, s, TRUE)
<1> DEFINE n == Len(r.chain)
           a == r.cur
           old == Regs(r, n)
           Z == {c \in Addr : r.size[c] = 0}
<1>0. PICK q : q = updateSubroutineLinks(Initialized(refreshLocalStorage(m, b, s), data))
  OBVIOUS
<1>1. Moved(r, q, b, s, data, m)
  BY <1>0, MovedFields
<1>2. /\ b \in Addr /\ r.size[b] = 0 /\ s \in Seq(Addr) /\ data \in Seq(Addr)
      /\ Len(s) <= 99 /\ s = curRegs(r) \o data
      /\ \A x \in 1 .. Len(data) : m.size[data[x]] = 0
      /\ \A x, y \in 1 .. Len(data) : data[x] = data[y] => x = y
  BY DEF Grown
<1>3. /\ n \in Nat \ {0} /\ a \in Addr /\ r.size[a] \in Nat \ {0} /\ r.val[a] = Zero
      /\ curRegs(r) = old /\ old \in Seq(Addr)
  BY TopFacts
<1>4. /\ \A x, y \in 1 .. Len(old) : old[x] = old[y] => x = y
      /\ \A x \in 1 .. Len(old) : old[x] \in Addr /\ old[x] # a /\ r.size[old[x]] = 4
  BY TopFacts
<1>5. \A i \in 1 .. n - 1 :
           /\ r.chain[i] \in Addr /\ r.chain[i] # a /\ r.size[r.chain[i]] > 0
           /\ i < n - 1 => r.chain[i] # r.chain[n - 1]
  BY TopFacts
<1>6. b # a /\ r.chain \in Seq(Addr)
  BY <1>2, <1>3, RamFields DEF Good
<1>7. /\ \A x \in 1 .. Len(old) : old[x] \notin Z /\ old[x] # a /\ old[x] # b
      /\ \A x \in 1 .. Len(data) : (data[x] \in Z \/ data[x] = a) /\ data[x] # b
  <2>1. \A x \in 1 .. Len(data) : data[x] \in Addr
    BY <1>2, ElementOfSeq
  <2>2. \A c \in Addr :
          m.size[c] = IF c = b THEN 4 + Len(s) ELSE IF c = a THEN 0 ELSE r.size[c]
    BY <1>1 DEF Moved
  <2>3. 4 + Len(s) # 0
    BY <1>2, LenProperties
  <2>4. ASSUME NEW x \in 1 .. Len(data)
        PROVE  (data[x] \in Z \/ data[x] = a) /\ data[x] # b
    <3>1. data[x] \in Addr /\ m.size[data[x]] = 0
      BY <1>2, <2>1
    <3> QED BY <2>2, <2>3, <3>1
  <2>5. ASSUME NEW x \in 1 .. Len(old)
        PROVE  old[x] \notin Z /\ old[x] # a /\ old[x] # b
    <3>1. old[x] # a /\ r.size[old[x]] = 4
      BY <1>4
    <3> HIDE DEF old
    <3> QED BY <1>2, <3>1
  <2> QED BY <2>4, <2>5
<1>8. /\ \A c : In(s, c) <=> In(old, c) \/ In(data, c)
      /\ \A x \in 1 .. Len(s) :
              s[x] # b /\ IF x <= Len(old) THEN s[x] = old[x] ELSE s[x] \in Z \/ s[x] = a
      /\ \A x, y \in 1 .. Len(s) : s[x] = s[y] => x = y
  <2>1. s = old \o data /\ old \in Seq(Addr) /\ data \in Seq(Addr)
    BY <1>2, <1>3
  <2>2. \A x, y \in 1 .. Len(data) : data[x] = data[y] => x = y
    BY <1>2
  <2>3. \A x, y \in 1 .. Len(old) : old[x] = old[y] => x = y
    BY <1>4
  <2>4. \A x \in 1 .. Len(old) : old[x] \notin Z /\ old[x] # a /\ old[x] # b
    BY <1>7
  <2>5. \A x \in 1 .. Len(data) : (data[x] \in Z \/ data[x] = a) /\ data[x] # b
    BY <1>7
  <2> HIDE DEF a, old, Z
  <2>6. NewOnes(a, b, old, data, Z)
    BY ONLY <2>1, <2>2, <2>3, <2>4, <2>5 DEF NewOnes
  <2>7. NewList(a, b, old, data, Z, s)
    BY ONLY <2>1, <2>6, GrownList
  <2> QED BY ONLY <2>7 DEF NewList
<1>9. \A x \in 1 .. Len(s) :
        s[x] # b /\ IF x <= Len(old) THEN s[x] = old[x] ELSE r.size[s[x]] = 0 \/ s[x] = a
  BY <1>8
<1>10. \A c \in Addr :
          q.size[c] = CASE c = b -> 4 + Len(s)
                        [] c # b /\ In(s, c) -> 4
                        [] c # b /\ ~ In(s, c) /\ (c = a \/ In(old, c)) -> 0
                        [] OTHER -> r.size[c]
  <2> SUFFICES ASSUME NEW c \in Addr
               PROVE  q.size[c] = CASE c = b -> 4 + Len(s)
                        [] c # b /\ In(s, c) -> 4
                        [] c # b /\ ~ In(s, c) /\ (c = a \/ In(old, c)) -> 0
                        [] OTHER -> r.size[c]
    OBVIOUS
  <2>1. q.size[c] = IF In(data, c) THEN 4 ELSE IF c = b THEN 4 + Len(s)
                    ELSE IF c = a THEN 0 ELSE r.size[c]
    BY <1>1 DEF Moved
  <2>2. c = b => ~ In(data, c)
    BY <1>7 DEF In
  <2>3. In(old, c) => c # a /\ r.size[c] = 4
    BY <1>4 DEF In
  <2>4. In(s, c) <=> In(old, c) \/ In(data, c)
    BY <1>8
  <2> HIDE DEF a, old, Z
  <2> QED BY ONLY <2>1, <2>2, <2>3, <2>4
<1>11. \A c \in Addr : q.val[c] = IF In(old, c) /\ ~ In(s, c) THEN Zero ELSE r.val[c]
  <2>1. \A c \in Addr : q.val[c] = IF c = a THEN Zero ELSE r.val[c]
    BY <1>1 DEF Moved
  <2> QED BY <1>3, <1>8, <2>1
<1>12. /\ q \in Ram /\ ~ q.misuse
       /\ q.chain = [r.chain EXCEPT ![n] = b] /\ q.cur = b /\ q.count = r.count
       /\ q.flags = b /\ q.regs = (IF s # <<>> THEN b ELSE NULL)
       /\ Header(q.lev[b], r.lev[a]) /\ q.lev[b].next = r.lev[a].next
       /\ q.lev[b].flagged = TRUE /\ q.lev[b].regs = s
  BY <1>1 DEF Moved
<1>13. \A i \in 1 .. n - 1 : q.chain[i] = r.chain[i]
  <2>1. n \in 1 .. n /\ \A i \in 1 .. n - 1 : i \in 1 .. n /\ i # n
    BY <1>3
  <2> QED BY <1>2, <1>6, <1>12, <2>1, ExceptSeq
<1>14. ASSUME NEW i \in 1 .. n - 1
       PROVE  /\ Header(Lev(q, i), Lev(r, i)) /\ Lev(q, i).flagged = Lev(r, i).flagged
              /\ Regs(q, i) = Regs(r, i)
              /\ i < n - 1 => Lev(q, i).next = Lev(r, i).next
  <2> DEFINE c == r.chain[i]
             p == r.chain[n - 1]
  <2>1. c \in Addr /\ c # a /\ c # b /\ (i < n - 1 => c # p)
    BY <1>2, <1>5
  <2>2. n > 1
    BY <1>3
  <2>3. Lev(q, i) = q.lev[c] /\ Lev(r, i) = r.lev[c]
    BY <1>13 DEF Lev
  <2>4. /\ \A d \in Addr \ {p, a, b} : q.lev[d] = r.lev[d]
        /\ Header(q.lev[p], r.lev[p]) /\ q.lev[p].flagged = r.lev[p].flagged
        /\ q.lev[p].regs = r.lev[p].regs
    BY <1>1, <2>2 DEF Moved
  <2> HIDE DEF c, p, a
  <2>5. CASE c = p
    BY <2>1, <2>3, <2>4, <2>5 DEF Regs
  <2>6. CASE c # p
    BY <2>1, <2>3, <2>4, <2>6 DEF Regs, Header
  <2> QED BY <2>5, <2>6
<1>15. /\ \A i \in 1 .. n - 1 : i \notin q.lost => i \notin r.lost
       /\ n \notin q.lost => IF n = 1 THEN q.level0 = b ELSE Lev(q, n - 1).next = b
       /\ n > 1 => q.level0 = r.level0
  <2>1. CASE n = 1
    <3>1. q.lost = r.lost \ {1} /\ q.level0 = b
      BY <1>1, <2>1 DEF Moved
    <3> QED BY <2>1, <3>1
  <2>2. CASE n # 1
    <3>1. n > 1 /\ n - 1 \in 1 .. n - 1
      BY <1>3, <2>2, OneOrMore
    <3>2. Lev(q, n - 1) = q.lev[r.chain[n - 1]]
      BY <1>13, <3>1 DEF Lev
    <3>3. \A i \in 1 .. n - 1 : i # n
      BY <1>3
    <3>4. /\ q.lost = r.lost \ {n} /\ q.level0 = r.level0
          /\ q.lev[r.chain[n - 1]].next = b
      BY <1>1, <3>1 DEF Moved
    <3> QED BY <2>2, <3>1, <3>2, <3>3, <3>4
  <2> QED BY <2>1, <2>2
<1> HIDE DEF a, n, old
<1>16. TopBecomes(r, q, b, s, TRUE)
  BY <1>2, <1>8, <1>9, <1>10, <1>11, <1>12, <1>14, <1>15
  DEF TopBecomes, a, n, old
<1> QED BY <1>0, <1>16

(* A LocR that has failed half-way: the block has moved, and is what it    *)
(* was; no link leads to it.                                               *)
MovedBack(r, q, b) ==
  LET n == Len(r.chain)
      a == r.cur
  IN /\ q \in Ram /\ ~ q.misuse /\ b \in Addr /\ r.size[b] = 0
     /\ \A c \in Addr :
          q.size[c] = IF c = b THEN r.size[a] ELSE IF c = a THEN 0 ELSE r.size[c]
     /\ \A c \in Addr : q.val[c] = IF c = a THEN Zero ELSE r.val[c]
     /\ q.chain = [r.chain EXCEPT ![n] = b] /\ q.cur = b /\ q.count = r.count
     /\ q.flags = (IF r.lev[a].flagged THEN b ELSE NULL)
     /\ q.regs = (IF r.lev[a].regs # <<>> THEN b ELSE NULL)
     /\ Header(q.lev[b], r.lev[a]) /\ q.lev[b].next = r.lev[a].next
     /\ q.lev[b].flagged = r.lev[a].flagged /\ q.lev[b].regs = r.lev[a].regs
     /\ \A c \in Addr \ {a, b} : q.lev[c] = r.lev[c]
     /\ q.lost = r.lost \cup {n} /\ q.level0 = r.level0

LEMMA MoveFailed ==
  ASSUME NEW r, Good(r), NEW b, NEW q, MovedBack(r, q, b)
  PROVE  TopBecomes(r, q, b, curRegs(r), r.lev[r.cur].flagged)
<1> DEFINE n == Len(r.chain)
           a == r.cur
           old == Regs(r, n)
           fl == r.lev[a].flagged
<1>1. /\ q \in Ram /\ ~ q.misuse /\ b \in Addr /\ r.size[b] = 0
      /\ \A c \in Addr :
          q.size[c] = IF c = b THEN r.size[a] ELSE IF c = a THEN 0 ELSE r.size[c]
      /\ \A c \in Addr : q.val[c] = IF c = a THEN Zero ELSE r.val[c]
      /\ q.chain = [r.chain EXCEPT ![n] = b] /\ q.cur = b /\ q.count = r.count
      /\ q.flags = (IF fl THEN b ELSE NULL)
      /\ q.regs = (IF r.lev[a].regs # <<>> THEN b ELSE NULL)
      /\ Header(q.lev[b], r.lev[a]) /\ q.lev[b].next = r.lev[a].next
      /\ q.lev[b].flagged = fl /\ q.lev[b].regs = r.lev[a].regs
      /\ \A c \in Addr \ {a, b} : q.lev[c] = r.lev[c]
      /\ q.lost = r.lost \cup {n} /\ q.level0 = r.level0
  BY DEF MovedBack
<1>2. /\ n \in Nat \ {0} /\ a \in Addr /\ r.size[a] \in Nat \ {0} /\ r.val[a] = Zero
      /\ curRegs(r) = old /\ r.lev[a].regs = old /\ old \in Seq(Addr) /\ Len(old) \in 0 .. 99
      /\ r.size[a] = SizeOf(r.lev[a]) /\ (~ fl => old = <<>>)
  BY TopFacts DEF curRegs
<1>3. /\ \A x, y \in 1 .. Len(old) : old[x] = old[y] => x = y
      /\ \A x \in 1 .. Len(old) : old[x] \in Addr /\ old[x] # a /\ r.size[old[x]] = 4
  BY TopFacts
<1>4. \A i \in 1 .. n - 1 : r.chain[i] \in Addr /\ r.chain[i] # a /\ r.size[r.chain[i]] > 0
  BY TopFacts
<1>5. b # a /\ r.chain \in Seq(Addr)
  BY <1>1, <1>2, RamFields DEF Good
<1>6. r.size[a] = IF fl THEN 4 + Len(old) ELSE 3
  BY <1>2 DEF SizeOf
<1>7. \A i \in 1 .. n - 1 : q.chain[i] = r.chain[i]
  <2>1. n \in 1 .. n /\ \A i \in 1 .. n - 1 : i \in 1 .. n /\ i # n
    BY <1>2
  <2> QED BY <1>1, <1>5, <2>1, ExceptSeq
<1>8. ASSUME NEW i \in 1 .. n - 1
      PROVE  Lev(q, i) = Lev(r, i)
  BY <1>1, <1>4, <1>7 DEF Lev
<1>9. ASSUME NEW c \in Addr
      PROVE  q.size[c] = CASE c = b -> (IF fl THEN 4 + Len(old) ELSE 3)
                        [] c # b /\ In(old, c) -> 4
                        [] c # b /\ ~ In(old, c) /\ (c = a \/ In(old, c)) -> 0
                        [] OTHER -> r.size[c]
  <2>1. In(old, c) => c # a /\ r.size[c] = 4
    BY <1>3 DEF In
  <2>2. q.size[c] = IF c = b THEN r.size[a] ELSE IF c = a THEN 0 ELSE r.size[c]
    BY <1>1
  <2> HIDE DEF a, old, fl
  <2> QED BY <1>6, <2>1, <2>2
<1>10. \A c \in Addr : q.val[c] = r.val[c]
  BY <1>1, <1>2
<1>11. \A x \in 1 .. Len(old) :
         old[x] # b /\ IF x <= Len(old) THEN old[x] = old[x] ELSE r.size[old[x]] = 0 \/ old[x] = a
  <2> SUFFICES ASSUME NEW x \in 1 .. Len(old) PROVE old[x] # b /\ x <= Len(old)
    OBVIOUS
  <2>1. Len(old) \in Nat
    BY <1>2
  <2>2. r.size[old[x]] = 4 /\ r.size[b] = 0
    BY <1>1, <1>3
  <2> HIDE DEF old
  <2> QED BY <2>1, <2>2
<1>12. /\ \A i \in 1 .. n - 1 : i \notin q.lost => i \notin r.lost
       /\ n \in q.lost
  BY <1>1
<1> HIDE DEF a, n, old, fl
<1>13. /\ \A i \in 1 .. n - 1 :
          /\ Header(Lev(q, i), Lev(r, i)) /\ Lev(q, i).flagged = Lev(r, i).flagged
          /\ Regs(q, i) = Regs(r, i)
          /\ i < n - 1 => Lev(q, i).next = Lev(r, i).next
  BY <1>8 DEF Header, Regs
<1>15. \A c \in Addr : q.val[c] = IF In(old, c) /\ ~ In(old, c) THEN Zero ELSE r.val[c]
  BY <1>10
<1>16. /\ q.regs = (IF old # <<>> THEN b ELSE NULL) /\ q.lev[b].regs = old
       /\ old \in Seq(Addr) /\ Len(old) <= 99 /\ (~ fl => old = <<>>)
  <2>0. \A k \in 0 .. 99 : k <= 99
    OBVIOUS
  <2>1. Len(old) <= 99
    BY <1>2, <2>0
  <2>2. q.regs = (IF old # <<>> THEN b ELSE NULL) /\ q.lev[b].regs = old
    BY <1>1, <1>2
  <2> QED BY <1>2, <2>1, <2>2
<1>17. /\ n \notin q.lost => IF n = 1 THEN q.level0 = b ELSE Lev(q, n - 1).next = b
       /\ n > 1 => q.level0 = r.level0
  BY <1>1, <1>12
<1>18. /\ q \in Ram /\ ~ q.misuse /\ b \in Addr /\ (b = a \/ r.size[b] = 0)
       /\ q.chain = [r.chain EXCEPT ![n] = b] /\ q.cur = b /\ q.count = r.count
       /\ q.flags = (IF fl THEN b ELSE NULL) /\ q.lev[b].flagged = fl
       /\ Header(q.lev[b], r.lev[a]) /\ q.lev[b].next = r.lev[a].next
  BY <1>1
<1>14. TopBecomes(r, q, b, old, fl)
  BY ONLY <1>3, <1>9, <1>11, <1>12, <1>13, <1>15, <1>16, <1>17, <1>18
  DEF TopBecomes, a, n, old
<1> QED BY <1>2, <1>14 DEF fl, a

(* The block stays where it is, and s is the beginning of its list.        *)
TopStays(r, q, s, fl) ==
  LET n == Len(r.chain)
      a == r.cur
      old == curRegs(r)
  IN /\ q \in Ram /\ ~ q.misuse
     /\ s \in Seq(Addr) /\ Len(s) <= Len(old) /\ (~ fl => s = <<>>)
     /\ \A x \in 1 .. Len(s) : s[x] = old[x]
     /\ \A c \in Addr :
          q.size[c] = IF c = a THEN (IF fl THEN 4 + Len(s) ELSE 3)
                      ELSE IF In(old, c) /\ ~ In(s, c) THEN 0 ELSE r.size[c]
     /\ \A c \in Addr : q.val[c] = IF In(old, c) /\ ~ In(s, c) THEN Zero ELSE r.val[c]
     /\ q.chain = r.chain /\ q.cur = a /\ q.count = r.count
     /\ q.flags = (IF fl THEN a ELSE NULL)
     /\ q.regs = (IF s # <<>> THEN a ELSE NULL)
     /\ Header(q.lev[a], r.lev[a]) /\ q.lev[a].next = r.lev[a].next
     /\ q.lev[a].flagged = fl /\ q.lev[a].regs = s
     /\ \A c \in Addr \ {a} : /\ Header(q.lev[c], r.lev[c])
                              /\ q.lev[c].flagged = r.lev[c].flagged
                              /\ q.lev[c].regs = r.lev[c].regs
                              /\ c # r.chain[n - 1] => q.lev[c].next = r.lev[c].next
     /\ r.lost \ {n} \subseteq q.lost
     /\ n \notin q.lost => IF n = 1 THEN q.level0 = a ELSE q.lev[r.chain[n - 1]].next = a
     /\ n > 1 => q.level0 = r.level0

LEMMA StaysBecomes ==
  ASSUME NEW r, Good(r), NEW q, NEW s, NEW fl \in BOOLEAN, TopStays(r, q, s, fl)
  PROVE  TopBecomes(r, q, r.cur, s, fl)
<1> DEFINE n == Len(r.chain)
           a == r.cur
           old == Regs(r, n)
<1>1. /\ n \in Nat \ {0} /\ a \in Addr /\ a = r.chain[n]
      /\ curRegs(r) = old /\ old \in Seq(Addr) /\ Len(old) \in 0 .. 99
  BY TopFacts
<1>2. /\ \A x, y \in 1 .. Len(old) : old[x] = old[y] => x = y
      /\ \A x \in 1 .. Len(old) : old[x] \in Addr /\ old[x] # a /\ r.size[old[x]] = 4
  BY TopFacts
<1>3. \A i \in 1 .. n - 1 :
        /\ r.chain[i] \in Addr /\ r.chain[i] # a
        /\ i < n - 1 => r.chain[i] # r.chain[n - 1]
  BY TopFacts
<1> HIDE DEF n, a, old
<1>4. /\ q \in Ram /\ ~ q.misuse
      /\ s \in Seq(Addr) /\ Len(s) <= Len(old) /\ (~ fl => s = <<>>)
      /\ \A x \in 1 .. Len(s) : s[x] = old[x]
      /\ q.chain = r.chain /\ q.cur = a /\ q.count = r.count
      /\ q.flags = (IF fl THEN a ELSE NULL)
      /\ q.regs = (IF s # <<>> THEN a ELSE NULL)
      /\ Header(q.lev[a], r.lev[a]) /\ q.lev[a].next = r.lev[a].next
      /\ q.lev[a].flagged = fl /\ q.lev[a].regs = s
  BY <1>1 DEF TopStays, a
<1>5. /\ \A c \in Addr :
          q.size[c] = IF c = a THEN (IF fl THEN 4 + Len(s) ELSE 3)
                      ELSE IF In(old, c) /\ ~ In(s, c) THEN 0 ELSE r.size[c]
      /\ \A c \in Addr : q.val[c] = IF In(old, c) /\ ~ In(s, c) THEN Zero ELSE r.val[c]
  BY <1>1 DEF TopStays, a
<1>6. /\ \A c \in Addr \ {a} :
                              /\ Header(q.lev[c], r.lev[c])
                              /\ q.lev[c].flagged = r.lev[c].flagged
                              /\ q.lev[c].regs = r.lev[c].regs
                              /\ c # r.chain[n - 1] => q.lev[c].next = r.lev[c].next
      /\ r.lost \ {n} \subseteq q.lost
      /\ n \notin q.lost => IF n = 1 THEN q.level0 = a ELSE q.lev[r.chain[n - 1]].next = a
      /\ n > 1 => q.level0 = r.level0
  BY DEF TopStays, n, a
<1>7. Len(s) \in Nat /\ Len(old) \in Nat /\ Len(s) <= 99
  <2>1. Len(s) \in Nat
    BY <1>4, LenProperties
  <2>2. \A k \in 0 .. 99, l \in Nat : k \in Nat /\ (l <= k => l <= 99)
    OBVIOUS
  <2> QED BY <1>1, <1>4, <2>1, <2>2
<1>8. /\ \A x \in 1 .. Len(s) : x \in 1 .. Len(old) /\ x <= Len(old)
      /\ \A x \in 1 .. Len(s) : s[x] = old[x]
  BY <1>4, <1>7
<1>9. \A x, y \in 1 .. Len(s) : s[x] = s[y] => x = y
  BY <1>2, <1>8
<1>10. \A x \in 1 .. Len(s) :
         s[x] # a /\ IF x <= Len(old) THEN s[x] = old[x] ELSE r.size[s[x]] = 0 \/ s[x] = a
  BY <1>2, <1>8
<1>11. ASSUME NEW c \in Addr
       PROVE  q.size[c] = CASE c = a -> (IF fl THEN 4 + Len(s) ELSE 3)
                        [] c # a /\ In(s, c) -> 4
                        [] c # a /\ ~ In(s, c) /\ (c = a \/ In(old, c)) -> 0
                        [] OTHER -> r.size[c]
  <2>1. In(s, c) => In(old, c) /\ r.size[c] = 4
    BY <1>2, <1>8 DEF In
  <2>2. q.size[c] = IF c = a THEN (IF fl THEN 4 + Len(s) ELSE 3)
                      ELSE IF In(old, c) /\ ~ In(s, c) THEN 0 ELSE r.size[c]
    BY <1>5
  <2> QED BY ONLY <2>1, <2>2
<1>12. q.chain = [r.chain EXCEPT ![n] = a]
  <2>1. r.chain \in Seq(Addr)
    BY RamFields DEF Good
  <2>2. r.chain = [i \in 1 .. n |-> r.chain[i]]
    BY <2>1, LenProperties DEF n
  <2> QED BY <1>1, <1>4, <2>2
<1>13. ASSUME NEW i \in 1 .. n - 1
       PROVE  /\ Header(Lev(q, i), Lev(r, i)) /\ Lev(q, i).flagged = Lev(r, i).flagged
              /\ Regs(q, i) = Regs(r, i)
              /\ i < n - 1 => Lev(q, i).next = Lev(r, i).next
  <2>1. r.chain[i] \in Addr \ {a} /\ (i < n - 1 => r.chain[i] # r.chain[n - 1])
    BY <1>3
  <2>2. Lev(q, i) = q.lev[r.chain[i]] /\ Lev(r, i) = r.lev[r.chain[i]]
    BY <1>4 DEF Lev
  <2> QED BY <1>6, <2>1, <2>2 DEF Regs
<1>14. /\ \A i \in 1 .. n - 1 : i \notin q.lost => i \notin r.lost
       /\ n \notin q.lost => IF n = 1 THEN q.level0 = a ELSE Lev(q, n - 1).next = a
       /\ n > 1 => q.level0 = r.level0
  <2>1. \A i \in 1 .. n - 1 : i # n
    BY <1>1
  <2>2. Lev(q, n - 1) = q.lev[r.chain[n - 1]]
    BY <1>4 DEF Lev
  <2> QED BY <1>6, <2>1, <2>2
<1> QED
  BY <1>1, <1>4, <1>5, <1>7, <1>9, <1>10, <1>11, <1>12, <1>13, <1>14
  DEF TopBecomes, a, n, old

---------------------------------------------------------------------------
(* The failures of LocR.                                                   *)

LEMMA GrowFails ==
  ASSUME NEW r, Good(r), NEW b \in Addr, r.size[b] = 0, r.lev[r.cur].flagged, NEW k \in Nat
  PROVE  MovedBack(r, Unlinked(refreshLocalStorage(
                        Reduce(Realloc(r, b, r.size[r.cur], k), b, k, r.size[r.cur]),
                        b, curRegs(r))), b)
<1> DEFINE n == Len(r.chain)
           a == r.cur
           old == curRegs(r)
<1>0. PICK m : m = Realloc(r, b, r.size[a], k)
  OBVIOUS
<1>1. PICK w : w = Reduce(m, b, k, r.size[a])
  OBVIOUS
<1>2. PICK u : u = refreshLocalStorage(w, b, old)
  OBVIOUS
<1>3. /\ n \in Nat \ {0} /\ a \in Addr /\ r.size[a] \in Nat \ {0}
      /\ old \in Seq(Addr) /\ r.lev[a].regs = old
  BY TopFacts DEF curRegs
<1>4. b # a /\ r \in Ram /\ r.chain # <<>> /\ ~ r.misuse /\ r.chain \in Seq(Addr)
  BY <1>3, RamFields DEF Good
<1>5. /\ m \in Ram
      /\ \A c \in Addr :
           m.size[c] = IF c = b THEN k ELSE IF c = a THEN 0 ELSE r.size[c]
      /\ \A c \in Addr : c # a => m.lev[c] = IF c = b THEN r.lev[a] ELSE r.lev[c]
      /\ \A c \in Addr : m.val[c] = IF c = a THEN Zero ELSE r.val[c]
      /\ m.chain = [r.chain EXCEPT ![n] = b]
      /\ m.level0 = r.level0 /\ m.lost = r.lost
      /\ m.count = r.count /\ m.misuse = r.misuse
  BY <1>0, <1>3, <1>4, ReallocFields
<1>6. Len(m.chain) = n
  <2>1. n \in 1 .. n
    BY <1>3
  <2> QED BY <1>4, <1>5, <2>1, ExceptSeq
<1>7. Reduced(w, m, b, r.size[a])
  BY <1>1, <1>3, <1>5, ReduceFields
<1>8. Refreshed(u, w, b, old)
  <2>1. w \in Ram
    BY <1>7 DEF Reduced
  <2> HIDE DEF old
  <2> QED BY <1>2, <1>3, <2>1, RefreshFields
<1>9. PICK q : q = Unlinked(u)
  OBVIOUS
<1>10. /\ u \in Ram /\ u.chain = m.chain /\ u.lost = r.lost /\ u.level0 = r.level0
       /\ u.count = r.count /\ ~ u.misuse
       /\ u.size = w.size /\ u.val = m.val
       /\ u.cur = b /\ u.flags = b /\ u.regs = (IF old # <<>> THEN b ELSE NULL)
       /\ Header(u.lev[b], m.lev[b]) /\ u.lev[b].next = m.lev[b].next
       /\ u.lev[b].flagged = TRUE /\ u.lev[b].regs = old
       /\ \A c \in Addr \ {b} : u.lev[c] = m.lev[c]
  BY <1>4, <1>5, <1>7, <1>8 DEF Reduced, Refreshed
<1>11. \A c \in Addr :
           u.size[c] = IF c = b THEN r.size[a] ELSE IF c = a THEN 0 ELSE r.size[c]
  BY <1>5, <1>7, <1>10 DEF Reduced
<1>12. /\ q \in Ram /\ q.chain = u.chain /\ q.lost = u.lost \cup {n} /\ q.level0 = u.level0
       /\ q.count = u.count /\ q.misuse = u.misuse
       /\ q.size = u.size /\ q.val = u.val
       /\ q.cur = u.cur /\ q.flags = u.flags /\ q.regs = u.regs /\ q.lev = u.lev
  <2>1. Len(u.chain) = n
    BY <1>6, <1>10
  <2>2. q = [u EXCEPT !.lost = u.lost \cup {n}]
    BY <1>9, <1>10, <2>1 DEF Unlinked, Ram
  <2>3. u.lost \cup {n} \in SUBSET Nat
    BY <1>3, <1>10, RamFields
  <2> HIDE DEF n
  <2> QED BY <1>10, <2>2, <2>3 DEF Ram
<1>13. MovedBack(r, q, b)
  <2>1. m.lev[b] = r.lev[a] /\ \A c \in Addr \ {a, b} : m.lev[c] = r.lev[c]
    BY <1>4, <1>5
  <2>2. r.lev[a].flagged = TRUE
    <3>1. r.lev[a].flagged \in BOOLEAN
      BY <1>3, <1>4, RamFields
    <3> QED BY <3>1
  <2> HIDE DEF n, a, old
  <2>3. /\ q \in Ram /\ ~ q.misuse
        /\ \A c \in Addr : q.size[c] = IF c = b THEN r.size[a] ELSE IF c = a THEN 0 ELSE r.size[c]
        /\ \A c \in Addr : q.val[c] = IF c = a THEN Zero ELSE r.val[c]
        /\ q.chain = [r.chain EXCEPT ![n] = b] /\ q.cur = b /\ q.count = r.count
    BY <1>5, <1>10, <1>11, <1>12
  <2>4. /\ q.flags = (IF r.lev[a].flagged THEN b ELSE NULL)
        /\ q.regs = (IF r.lev[a].regs # <<>> THEN b ELSE NULL)
        /\ Header(q.lev[b], r.lev[a]) /\ q.lev[b].next = r.lev[a].next
        /\ q.lev[b].flagged = r.lev[a].flagged /\ q.lev[b].regs = r.lev[a].regs
    BY <1>3, <1>10, <1>12, <2>1, <2>2
  <2>5. /\ \A c \in Addr \ {a, b} : q.lev[c] = r.lev[c]
        /\ q.lost = r.lost \cup {n} /\ q.level0 = r.level0
    BY <1>10, <1>12, <2>1
  <2> QED BY <2>3, <2>4, <2>5 DEF MovedBack, a, n
<1> QED BY <1>0, <1>1, <1>2, <1>9, <1>13

LEMMA FirstFails ==
  ASSUME NEW r, Good(r), NEW b \in Addr, r.size[b] = 0, ~ r.lev[r.cur].flagged, NEW k \in Nat
  PROVE  MovedBack(r, Unlinked([Reduce(Realloc(r, b, r.size[r.cur], k), b, k, r.size[r.cur])
                                  EXCEPT !.cur = b, !.flags = NULL, !.regs = NULL]), b)
<1> DEFINE n == Len(r.chain)
           a == r.cur
<1>0. PICK m : m = Realloc(r, b, r.size[a], k)
  OBVIOUS
<1>1. PICK w : w = Reduce(m, b, k, r.size[a])
  OBVIOUS
<1>2. PICK u : u = [w EXCEPT !.cur = b, !.flags = NULL, !.regs = NULL]
  OBVIOUS
<1>3. /\ n \in Nat \ {0} /\ a \in Addr /\ r.size[a] \in Nat \ {0}
      /\ r.lev[a].regs = <<>>
  BY TopFacts DEF curRegs
<1>4. b # a /\ r \in Ram /\ r.chain # <<>> /\ ~ r.misuse /\ r.chain \in Seq(Addr)
  BY <1>3, RamFields DEF Good
<1>5. /\ m \in Ram
      /\ \A c \in Addr :
           m.size[c] = IF c = b THEN k ELSE IF c = a THEN 0 ELSE r.size[c]
      /\ \A c \in Addr : c # a => m.lev[c] = IF c = b THEN r.lev[a] ELSE r.lev[c]
      /\ \A c \in Addr : m.val[c] = IF c = a THEN Zero ELSE r.val[c]
      /\ m.chain = [r.chain EXCEPT ![n] = b]
      /\ m.level0 = r.level0 /\ m.lost = r.lost
      /\ m.count = r.count /\ m.misuse = r.misuse
  BY <1>0, <1>3, <1>4, ReallocFields
<1>6. Len(m.chain) = n
  <2>1. n \in 1 .. n
    BY <1>3
  <2> QED BY <1>4, <1>5, <2>1, ExceptSeq
<1>7. Reduced(w, m, b, r.size[a])
  BY <1>1, <1>3, <1>5, ReduceFields
<1>8. w \in Ram
  BY <1>7 DEF Reduced
<1>9. PICK q : q = Unlinked(u)
  OBVIOUS
<1>10. /\ u \in Ram /\ u.chain = m.chain /\ u.lost = r.lost /\ u.level0 = r.level0
       /\ u.count = r.count /\ ~ u.misuse
       /\ u.size = w.size /\ u.val = m.val /\ u.lev = m.lev
       /\ u.cur = b /\ u.flags = NULL /\ u.regs = NULL
  <2>1. /\ u \in Ram /\ u.chain = w.chain /\ u.lost = w.lost /\ u.level0 = w.level0
        /\ u.count = w.count /\ u.misuse = w.misuse
        /\ u.size = w.size /\ u.val = w.val /\ u.lev = w.lev
        /\ u.cur = b /\ u.flags = NULL /\ u.regs = NULL
    BY <1>2, <1>8 DEF Ram
  <2> QED BY <1>4, <1>5, <1>7, <2>1 DEF Reduced
<1>11. \A c \in Addr :
           u.size[c] = IF c = b THEN r.size[a] ELSE IF c = a THEN 0 ELSE r.size[c]
  BY <1>5, <1>7, <1>10 DEF Reduced
<1>12. /\ q \in Ram /\ q.chain = u.chain /\ q.lost = u.lost \cup {n} /\ q.level0 = u.level0
       /\ q.count = u.count /\ q.misuse = u.misuse
       /\ q.size = u.size /\ q.val = u.val
       /\ q.cur = u.cur /\ q.flags = u.flags /\ q.regs = u.regs /\ q.lev = u.lev
  <2>1. Len(u.chain) = n
    BY <1>6, <1>10
  <2>2. q = [u EXCEPT !.lost = u.lost \cup {n}]
    BY <1>9, <1>10, <2>1 DEF Unlinked, Ram
  <2>3. u.lost \cup {n} \in SUBSET Nat
    BY <1>3, <1>10, RamFields
  <2> HIDE DEF n
  <2> QED BY <1>10, <2>2, <2>3 DEF Ram
<1>13. MovedBack(r, q, b)
  <2>1. m.lev[b] = r.lev[a] /\ \A c \in Addr \ {a, b} : m.lev[c] = r.lev[c]
    BY <1>4, <1>5
  <2> HIDE DEF n, a
  <2>3. /\ q \in Ram /\ ~ q.misuse
        /\ \A c \in Addr : q.size[c] = IF c = b THEN r.size[a] ELSE IF c = a THEN 0 ELSE r.size[c]
        /\ \A c \in Addr : q.val[c] = IF c = a THEN Zero ELSE r.val[c]
        /\ q.chain = [r.chain EXCEPT ![n] = b] /\ q.cur = b /\ q.count = r.count
    BY <1>5, <1>10, <1>11, <1>12
  <2>4. /\ q.flags = (IF r.lev[a].flagged THEN b ELSE NULL)
        /\ q.regs = (IF r.lev[a].regs # <<>> THEN b ELSE NULL)
        /\ Header(q.lev[b], r.lev[a]) /\ q.lev[b].next = r.lev[a].next
        /\ q.lev[b].flagged = r.lev[a].flagged /\ q.lev[b].regs = r.lev[a].regs
    BY <1>3, <1>10, <1>12, <2>1 DEF Header, a
  <2>5. /\ \A c \in Addr \ {a, b} : q.lev[c] = r.lev[c]
        /\ q.lost = r.lost \cup {n} /\ q.level0 = r.level0
    BY <1>10, <1>12, <2>1
  <2> QED BY <2>3, <2>4, <2>5 DEF MovedBack, a, n
<1> QED BY <1>0, <1>1, <1>2, <1>9, <1>13

---------------------------------------------------------------------------
(* Fewer registers, or none.                                               *)

Gone(s, k) == {s[i] : i \in k + 1 .. Len(s)}

FreedRange(q, r, gone) ==
  /\ q \in Ram
  /\ \A c \in Addr : q.size[c] = IF c \in gone THEN 0 ELSE r.size[c]
  /\ \A c \in Addr : q.val[c] = IF c \in gone THEN Zero ELSE r.val[c]
  /\ q.cur = r.cur /\ q.flags = r.flags /\ q.regs = r.regs
  /\ q.lev = r.lev /\ q.chain = r.chain
  /\ q.level0 = r.level0 /\ q.lost = r.lost
  /\ q.count = r.count /\ q.misuse = r.misuse

LEMMA FreeRangeFields ==
  ASSUME NEW r, Good(r), NEW k \in Nat, k < Len(curRegs(r))
  PROVE  FreedRange(freeLocalRegisterRange(r, k), r, Gone(curRegs(r), k))
<1> DEFINE a == r.cur
           old == curRegs(r)
           gone == Gone(old, k)
           all == IF r.regs = NULL THEN <<>> ELSE r.lev[r.regs].regs
<1>1. /\ a \in Addr /\ old \in Seq(Addr) /\ Len(old) \in 0 .. 99
      /\ (r.regs = NULL <=> old = <<>>) /\ (r.regs # NULL => r.regs = a)
      /\ \A x, y \in 1 .. Len(old) : old[x] = old[y] => x = y
      /\ \A x \in 1 .. Len(old) : r.size[old[x]] = 4
  BY TopFacts
<1>2. all = old
  <2>1. old # <<>>
    <3>1. Len(<<>>) = 0 /\ ~ (k < 0)
      BY EmptySeq
    <3> QED BY <3>1
  <2> QED BY <1>1, <2>1 DEF curRegs
<1>3. k \in 0 .. Len(old) /\ Len(old) \in Nat
  <2>1. \A l \in 0 .. 99 : l \in Nat /\ (k < l => k \in 0 .. l)
    OBVIOUS
  <2> QED BY <1>1, <2>1
<1> HIDE DEF old
<1>4. Cardinality(gone) = Len(old) - k
  BY <1>1, <1>3, ImageCount DEF Gone
<1>5. \A c \in gone : r.size[c] = 4
  BY <1>1, <1>3 DEF Gone
<1>6. r \in Ram /\ r.size \in [Addr -> Nat] /\ r.val \in [Addr -> Values] /\ Zero \in Values
  BY RamFields, LevelsAssumption DEF Good
<1> DEFINE sz == [c \in Addr |-> IF c \in gone THEN 0 ELSE r.size[c]]
           vl == [c \in Addr |-> IF c \in gone THEN Zero ELSE r.val[c]]
           q == [r EXCEPT !.size = sz, !.val = vl]
<1>7. freeLocalRegisterRange(r, k) = q
  <2> DEFINE g == {all[i] : i \in k + 1 .. Len(all)}
  <2>1. g = gone
    BY <1>2 DEF Gone
  <2>2. Cardinality(g) = Len(curRegs(r)) - k /\ \A c \in g : r.size[c] = RealBlocks
    BY <1>4, <1>5, <2>1 DEF RealBlocks, old
  <2>3. freeLocalRegisterRange(r, k)
          = IF Cardinality(g) = Len(curRegs(r)) - k /\ \A c \in g : r.size[c] = RealBlocks
              THEN [r EXCEPT !.size = [c \in Addr |-> IF c \in g THEN 0 ELSE r.size[c]],
                             !.val = [c \in Addr |-> IF c \in g THEN Zero ELSE r.val[c]]]
              ELSE [r EXCEPT !.misuse = TRUE]
    BY <1>6 DEF freeLocalRegisterRange, Ram
  <2> HIDE DEF g, gone
  <2> QED BY <2>1, <2>2, <2>3
<1>8. /\ sz \in [Addr -> Nat] /\ vl \in [Addr -> Values]
      /\ \A c \in Addr : sz[c] = IF c \in gone THEN 0 ELSE r.size[c]
      /\ \A c \in Addr : vl[c] = IF c \in gone THEN Zero ELSE r.val[c]
  BY <1>6
<1> HIDE DEF gone, sz, vl
<1>9. /\ q \in Ram /\ q.size = sz /\ q.val = vl
      /\ q.cur = r.cur /\ q.flags = r.flags /\ q.regs = r.regs
      /\ q.lev = r.lev /\ q.chain = r.chain
      /\ q.level0 = r.level0 /\ q.lost = r.lost
      /\ q.count = r.count /\ q.misuse = r.misuse
  BY <1>6, <1>8 DEF Ram
<1> HIDE DEF q
<1>10. FreedRange(q, r, gone)
  BY <1>8, <1>9 DEF FreedRange
<1> QED BY <1>7, <1>10 DEF gone, old

LEMMA FirstOnes ==
  ASSUME NEW s \in Seq(Addr), NEW k \in Nat, k <= Len(s),
         \A x, y \in 1 .. Len(s) : s[x] = s[y] => x = y
  PROVE  LET t == SubSeq(s, 1, k)
         IN /\ t \in Seq(Addr) /\ Len(t) = k
            /\ \A x \in 1 .. k : t[x] = s[x]
            /\ \A c : c \in Gone(s, k) <=> In(s, c) /\ ~ In(t, c)
<1> DEFINE t == SubSeq(s, 1, k)
<1>1. Len(s) \in Nat
  BY LenProperties
<1>2. t \in Seq(Addr) /\ Len(t) = k /\ \A x \in 1 .. k : t[x] = s[x]
  <2>1. \A x \in 1 .. k : x \in 1 .. Len(s)
    BY <1>1
  <2> QED BY <1>1, <2>1, SubSeqProperties, ElementOfSeq
<1> HIDE DEF t
<1>3. ASSUME NEW c PROVE c \in Gone(s, k) <=> In(s, c) /\ ~ In(t, c)
  <2>1. /\ \A x \in k + 1 .. Len(s) : x \in 1 .. Len(s) /\ x \notin 1 .. k
        /\ \A x \in 1 .. Len(s) : x \in k + 1 .. Len(s) \/ x \in 1 .. k
        /\ \A x \in 1 .. k : x \in 1 .. Len(s)
    BY <1>1
  <2>2. In(t, c) <=> \E x \in 1 .. k : s[x] = c
    BY <1>2 DEF In
  <2>3. c \in Gone(s, k) <=> \E x \in k + 1 .. Len(s) : s[x] = c
    BY DEF Gone
  <2> QED BY <2>1, <2>2, <2>3 DEF In
<1> QED BY <1>2, <1>3 DEF t

LEMMA ShrinkStays ==
  ASSUME NEW r, Good(r), NEW k \in Nat, k < Len(curRegs(r))
  PROVE  TopStays(r, shrinkLocalRegisters(r, k), SubSeq(curRegs(r), 1, k), TRUE)
<1> DEFINE n == Len(r.chain)
           a == r.cur
           old == curRegs(r)
           s == SubSeq(old, 1, k)
<1>1. /\ n \in Nat \ {0} /\ a \in Addr /\ a = r.chain[n]
      /\ old \in Seq(Addr) /\ Len(old) \in Nat
      /\ \A x, y \in 1 .. Len(old) : old[x] = old[y] => x = y
      /\ \A x \in 1 .. Len(old) : old[x] # a
  <2>1. \A l \in 0 .. 99 : l \in Nat
    OBVIOUS
  <2> QED BY <2>1, TopFacts
<1>2. /\ curLevel(r) = 0 <=> n = 1
      /\ n > 1 => /\ r.lev[a].prev = r.chain[n - 1] /\ r.chain[n - 1] \in Addr
                  /\ r.chain[n - 1] # a
  BY TopFacts
<1>3. r.size[a] = 4 + Len(old)
  <2>1. old # <<>>
    <3>1. Len(<<>>) = 0 /\ ~ (k < 0)
      BY EmptySeq
    <3> QED BY <3>1
  <2>2. r.lev[a].flagged /\ r.size[a] = SizeOf(r.lev[a]) /\ r.lev[a].regs = old
    BY <2>1, TopFacts DEF curRegs
  <2> QED BY <2>2 DEF SizeOf
<1> HIDE DEF old
<1>4. /\ s \in Seq(Addr) /\ Len(s) = k
      /\ \A x \in 1 .. k : s[x] = old[x]
      /\ \A c : c \in Gone(old, k) <=> In(old, c) /\ ~ In(s, c)
  <2>1. k <= Len(old)
    BY <1>1 DEF old
  <2> QED BY <1>1, <2>1, FirstOnes
<1> HIDE DEF s
<1>5. PICK f : f = freeLocalRegisterRange(r, k)
  OBVIOUS
<1>6. FreedRange(f, r, Gone(old, k))
  BY <1>5, FreeRangeFields DEF old
<1>7. PICK w : w = Reduce(f, a, 4 + Len(old), 4 + k)
  OBVIOUS
<1>8. ~ In(old, a)
  BY <1>1 DEF In
<1>9. Reduced(w, f, a, 4 + k)
  <2>1. f \in Ram /\ f.size[a] = 4 + Len(old)
    BY <1>1, <1>3, <1>4, <1>6, <1>8 DEF FreedRange
  <2>2. 4 + k \in Nat
    OBVIOUS
  <2> QED BY <1>1, <1>7, <2>1, <2>2, ReduceFields
<1>10. PICK u : u = refreshLocalStorage(w, a, s)
  OBVIOUS
<1>11. Refreshed(u, w, a, s)
  <2>1. w \in Ram
    BY <1>9 DEF Reduced
  <2> HIDE DEF a
  <2> QED BY <1>1, <1>4, <1>10, <2>1, RefreshFields
<1>12. PICK q : q = updateSubroutineLinks(u)
  OBVIOUS
<1>13. /\ u \in Ram /\ u.lost = r.lost /\ u.level0 = r.level0 /\ u.chain = r.chain
       /\ u.count = r.count /\ u.misuse = r.misuse /\ u.cur = a /\ u.flags = a
       /\ u.regs = (IF s # <<>> THEN a ELSE NULL)
       /\ Header(u.lev[a], r.lev[a]) /\ u.lev[a].next = r.lev[a].next
       /\ u.lev[a].flagged = TRUE /\ u.lev[a].regs = s
       /\ \A c \in Addr \ {a} : u.lev[c] = r.lev[c]
       /\ u.size = w.size /\ u.val = f.val
  BY <1>6, <1>9, <1>11 DEF FreedRange, Reduced, Refreshed
<1>14. Relinked(q, u)
  <2>1. curLevel(u) = curLevel(r) /\ u.lev[u.cur].prev = r.lev[a].prev
    BY <1>13 DEF Header, curLevel
  <2>2. curLevel(u) # 0 => u.lev[u.cur].prev \in Addr
    BY <1>1, <1>2, <2>1, OneOrMore
  <2> QED BY <1>12, <1>13, <2>2, LinksFields
<1>15. \A c \in Addr : /\ u.size[c] = IF c = a THEN 4 + k
                                      ELSE IF In(old, c) /\ ~ In(s, c) THEN 0 ELSE r.size[c]
                       /\ u.val[c] = IF In(old, c) /\ ~ In(s, c) THEN Zero ELSE r.val[c]
  BY <1>4, <1>6, <1>9, <1>13 DEF FreedRange, Reduced
<1>16. curLevel(u) = curLevel(r) /\ u.lev[u.cur].prev = r.lev[a].prev
  BY <1>13 DEF Header, curLevel
<1>17. /\ q \in Ram /\ ~ q.misuse /\ q.cur = a /\ q.flags = a
       /\ q.regs = (IF s # <<>> THEN a ELSE NULL)
       /\ q.size = u.size /\ q.val = u.val /\ q.chain = r.chain /\ q.count = r.count
  <2>1. ~ r.misuse
    BY DEF Good
  <2> QED BY <1>13, <1>14, <2>1 DEF Relinked
<1>18. CASE n = 1
  <2>1. q.lev = u.lev /\ q.lost = r.lost \ {1} /\ q.level0 = a
    BY <1>2, <1>13, <1>14, <1>16, <1>18 DEF Relinked
  <2>2. \A c \in Addr \ {a} : /\ Header(q.lev[c], r.lev[c])
                              /\ q.lev[c].flagged = r.lev[c].flagged
                              /\ q.lev[c].regs = r.lev[c].regs
                              /\ q.lev[c].next = r.lev[c].next
    BY <1>13, <2>1 DEF Header
  <2>3. /\ Header(q.lev[a], r.lev[a]) /\ q.lev[a].next = r.lev[a].next
        /\ q.lev[a].flagged = TRUE /\ q.lev[a].regs = s
    BY <1>13, <2>1
  <2>4. /\ r.lost \ {n} \subseteq q.lost
        /\ n \notin q.lost => IF n = 1 THEN q.level0 = a ELSE q.lev[r.chain[n - 1]].next = a
        /\ n > 1 => q.level0 = r.level0
    BY <1>18, <2>1
  <2> HIDE DEF n, a
  <2>5. TopStays(r, q, s, TRUE)
    BY <1>1, <1>4, <1>15, <1>17, <2>2, <2>3, <2>4 DEF TopStays, n, a, old
  <2> QED BY <1>5, <1>7, <1>10, <1>12, <2>5 DEF shrinkLocalRegisters, levelBlocks, s, old, a
<1>19. CASE n > 1
  <2> DEFINE p == r.chain[n - 1]
  <2>1. p \in Addr /\ p # a /\ u.lev[u.cur].prev = p /\ curLevel(u) # 0
    BY <1>1, <1>2, <1>16, <1>19, OneOrMore
  <2> HIDE DEF p
  <2>2. /\ q.lost = r.lost \ {n} /\ q.level0 = r.level0
        /\ \A c \in Addr \ {p} : q.lev[c] = u.lev[c]
        /\ Header(q.lev[p], u.lev[p]) /\ q.lev[p].next = a
        /\ q.lev[p].flagged = u.lev[p].flagged /\ q.lev[p].regs = u.lev[p].regs
    BY <1>13, <1>14, <2>1 DEF Relinked
  <2>3. \A c \in Addr \ {a} : /\ Header(q.lev[c], r.lev[c])
                              /\ q.lev[c].flagged = r.lev[c].flagged
                              /\ q.lev[c].regs = r.lev[c].regs
                              /\ c # p => q.lev[c].next = r.lev[c].next
    BY <1>13, <2>1, <2>2 DEF Header
  <2>4. /\ Header(q.lev[a], r.lev[a]) /\ q.lev[a].next = r.lev[a].next
        /\ q.lev[a].flagged = TRUE /\ q.lev[a].regs = s
    BY <1>1, <1>13, <2>1, <2>2
  <2>5. /\ r.lost \ {n} \subseteq q.lost
        /\ n \notin q.lost => IF n = 1 THEN q.level0 = a ELSE q.lev[p].next = a
        /\ n > 1 => q.level0 = r.level0
    BY <1>1, <1>19, <2>2, OneOrMore
  <2> HIDE DEF n, a
  <2>6. TopStays(r, q, s, TRUE)
    BY <1>1, <1>4, <1>15, <1>17, <2>3, <2>4, <2>5 DEF TopStays, n, a, old, p
  <2> QED BY <1>5, <1>7, <1>10, <1>12, <2>6 DEF shrinkLocalRegisters, levelBlocks, s, old, a
<1> QED BY <1>1, <1>18, <1>19, OneOrMore

LEMMA SameTop ==
  ASSUME NEW r, Good(r)
  PROVE  TopBecomes(r, r, r.cur, curRegs(r), r.lev[r.cur].flagged)
<1> DEFINE n == Len(r.chain)
           a == r.cur
           old == curRegs(r)
           fl == r.lev[a].flagged
<1>1. /\ n \in Nat \ {0} /\ a \in Addr /\ a = r.chain[n] /\ r.lev[a] = Lev(r, n)
      /\ old \in Seq(Addr) /\ Len(old) \in 0 .. 99 /\ (~ fl => old = <<>>)
      /\ r.size[a] = SizeOf(r.lev[a]) /\ r.lev[a].regs = old
  BY TopFacts DEF curRegs
<1>2. fl \in BOOLEAN /\ r \in Ram /\ ~ r.misuse
  BY <1>1, RamFields DEF Good
<1>3. Pointers(r) /\ LinkedOn(r)
  BY DEF Good
<1>4. /\ r.flags = (IF fl THEN a ELSE NULL)
      /\ r.regs = (IF old # <<>> THEN a ELSE NULL)
  BY <1>1, <1>3 DEF Pointers, Regs
<1>5. n \notin r.lost => IF n = 1 THEN r.level0 = a ELSE r.lev[r.chain[n - 1]].next = a
  <2>1. n # 1 => n \in 2 .. n
    BY <1>1, OneOrMore
  <2> QED BY <1>1, <1>3, <2>1 DEF LinkedOn, Lev
<1>6. r.size[a] = IF fl THEN 4 + Len(old) ELSE 3
  BY <1>1 DEF SizeOf
<1>7. Len(old) <= Len(old)
  <2>1. \A k \in 0 .. 99 : k <= k
    OBVIOUS
  <2> QED BY <1>1, <2>1
<1> HIDE DEF n, a, old, fl
<1>8. /\ \A c \in Addr :
          r.size[c] = IF c = a THEN (IF fl THEN 4 + Len(old) ELSE 3)
                      ELSE IF In(old, c) /\ ~ In(old, c) THEN 0 ELSE r.size[c]
      /\ \A c \in Addr : r.val[c] = IF In(old, c) /\ ~ In(old, c) THEN Zero ELSE r.val[c]
  BY <1>6
<1>9. TopStays(r, r, old, fl)
  BY <1>1, <1>2, <1>4, <1>5, <1>7, <1>8 DEF TopStays, Header, n, a, old, fl
<1> QED BY <1>2, <1>9, StaysBecomes DEF a, old, fl

(* The level gives up its registers, and then the word for its flags.      *)
LEMMA WithoutStays ==
  ASSUME NEW r, Good(r)
  PROVE  TopBecomes(r, WithoutRegisters(r), r.cur, <<>>, r.lev[r.cur].flagged)
<1>1. CASE curRegs(r) = <<>>
  <2>1. WithoutRegisters(r) = r
    BY <1>1 DEF WithoutRegisters
  <2> QED BY <1>1, <2>1, SameTop
<1>2. CASE curRegs(r) # <<>>
  <2>1. r.flags # NULL /\ r.lev[r.cur].flagged /\ curRegs(r) \in Seq(Addr) /\ r.cur \in Addr
    BY <1>2, TopFacts
  <2>2. r.lev[r.cur].flagged = TRUE
    <3>1. r.lev[r.cur].flagged \in BOOLEAN
      BY <2>1, RamFields DEF Good
    <3> QED BY <2>1, <3>1
  <2>3. WithoutRegisters(r) = shrinkLocalRegisters(r, 0)
    BY <1>2, <2>1 DEF WithoutRegisters
  <2>4. 0 < Len(curRegs(r))
    BY <1>2, <2>1, EmptySeq
  <2>5. SubSeq(curRegs(r), 1, 0) = <<>>
    BY <2>1, SubSeqEmpty
  <2>6. TopStays(r, WithoutRegisters(r), <<>>, TRUE)
    BY <2>3, <2>4, <2>5, ShrinkStays
  <2> QED BY <2>2, <2>6, StaysBecomes
<1> QED BY <1>1, <1>2

(* What a changed top has to do with the one before.                       *)
LEMMA BecomesFacts ==
  ASSUME NEW r, Good(r), NEW q, NEW b, NEW s, NEW fl \in BOOLEAN, TopBecomes(r, q, b, s, fl)
  PROVE  /\ Good(q) /\ q.cur = b /\ q.count = r.count /\ Len(q.chain) = Len(r.chain)
         /\ \A i \in 1 .. Len(r.chain) - 1 : q.chain[i] = r.chain[i]
         /\ \A i \in 1 .. Len(r.chain) : Lev(q, i).level = Lev(r, i).level
         /\ curRegs(q) = s /\ q.lev[b].flagged = fl /\ curLevel(q) = curLevel(r)
         /\ Header(q.lev[b], r.lev[r.cur])
<1> DEFINE n == Len(r.chain)
<1>1. Good(q)
  BY TopBecomesGood
<1>2. /\ q.chain = [r.chain EXCEPT ![n] = b] /\ q.cur = b /\ q.count = r.count
      /\ Header(q.lev[b], r.lev[r.cur]) /\ q.lev[b].flagged = fl /\ q.lev[b].regs = s
      /\ \A i \in 1 .. n - 1 : Header(Lev(q, i), Lev(r, i))
      /\ b \in Addr
  BY DEF TopBecomes
<1>3. n \in Nat \ {0} /\ r.cur = r.chain[n] /\ r.chain \in Seq(Addr)
  BY TopFacts, RamFields DEF Good
<1>4. Len(q.chain) = n /\ q.chain[n] = b /\ \A i \in 1 .. n - 1 : q.chain[i] = r.chain[i]
  <2>1. n \in 1 .. n /\ \A i \in 1 .. n - 1 : i \in 1 .. n /\ i # n
    BY <1>3
  <2> QED BY <1>2, <1>3, <2>1, ExceptSeq
<1>5. ASSUME NEW i \in 1 .. n PROVE Lev(q, i).level = Lev(r, i).level
  <2>1. CASE i = n
    BY <1>2, <1>3, <1>4, <2>1 DEF Lev, Header
  <2>2. CASE i # n
    <3>1. i \in 1 .. n - 1
      BY <1>3, <2>2
    <3> QED BY <1>2, <3>1 DEF Header
  <2> QED BY <2>1, <2>2
<1>6. curRegs(q) = s /\ curLevel(q) = curLevel(r)
  BY <1>2 DEF curRegs, curLevel, Header
<1> QED BY <1>1, <1>2, <1>4, <1>5, <1>6

LEMMA CleanStays ==
  ASSUME NEW r, Good(r)
  PROVE  \E w : /\ TopBecomes(r, w, r.cur, <<>>, r.lev[r.cur].flagged)
                /\ TopBecomes(w, cleanLocalFlagsAndRegisters(r), r.cur, <<>>, FALSE)
<1> DEFINE a == r.cur
           n == Len(r.chain)
           fl == r.lev[a].flagged
<1>1. PICK w : w = WithoutRegisters(r)
  OBVIOUS
<1>2. a \in Addr /\ fl \in BOOLEAN
  <2>1. a \in Addr
    BY TopFacts
  <2> QED BY <2>1, RamFields DEF Good
<1>3. TopBecomes(r, w, a, <<>>, fl)
  BY <1>1, WithoutStays
<1>4. /\ Good(w) /\ w.cur = a /\ Len(w.chain) = n
      /\ curRegs(w) = <<>> /\ w.lev[a].flagged = fl
  BY <1>2, <1>3, BecomesFacts
<1>5. PICK q : q = cleanLocalFlagsAndRegisters(r)
  OBVIOUS
<1> DEFINE u == IF w.lev[w.cur].flagged
             THEN [Reduce(w, w.cur, levelBlocks(0), headerOnlyBlocks)
                     EXCEPT !.lev[w.cur].flagged = FALSE]
             ELSE w
<1>6. q = [u EXCEPT !.flags = NULL, !.regs = NULL]
  BY <1>1, <1>5 DEF cleanLocalFlagsAndRegisters
<1>7. /\ w \in Ram /\ w.lev \in [Addr -> Level] /\ w.lev[a] \in Level
      /\ w.size[a] = (IF fl THEN 4 ELSE 3) /\ ~ w.misuse /\ w.lev[a].regs = <<>>
      /\ w.chain[n] = a /\ n \in Nat \ {0}
      /\ \A c \in Addr : w.size[c] \in Nat
  <2>1. w \in Ram /\ ~ w.misuse /\ w.lev \in [Addr -> Level] /\ w.lev[a] \in Level
        /\ \A c \in Addr : w.size[c] \in Nat
    BY <1>2, <1>4, RamFields DEF Good
  <2>2. /\ w.size[a] = SizeOf(w.lev[a]) /\ w.chain[n] = a /\ n \in Nat \ {0}
    BY <1>4, TopFacts
  <2>3. w.lev[a].regs = <<>>
    BY <1>4 DEF curRegs
  <2>4. Len(<<>>) = 0
    OBVIOUS
  <2>5. w.size[a] = IF fl THEN 4 ELSE 3
    BY <1>4, <2>2, <2>3, <2>4 DEF SizeOf
  <2> QED BY <2>1, <2>2, <2>3, <2>5
<1>8. /\ u \in Ram /\ u.cur = a /\ u.chain = w.chain /\ u.count = w.count
      /\ ~ u.misuse /\ u.val = w.val
      /\ u.lost = w.lost /\ u.level0 = w.level0
      /\ \A c \in Addr : u.size[c] = IF c = a THEN 3 ELSE w.size[c]
      /\ Header(u.lev[a], w.lev[a]) /\ u.lev[a].next = w.lev[a].next
      /\ u.lev[a].flagged = FALSE /\ u.lev[a].regs = <<>>
      /\ \A c \in Addr \ {a} : u.lev[c] = w.lev[c]
  <2>1. CASE fl
    <3>1. PICK x : x = Reduce(w, a, 4, 3)
      OBVIOUS
    <3>2. Reduced(x, w, a, 3)
      BY <1>2, <1>7, <2>1, <3>1, ReduceFields
    <3> DEFINE v == [w.lev[a] EXCEPT !.flagged = FALSE]
               lv == [w.lev EXCEPT ![a] = v]
    <3>3. /\ v \in Level /\ Header(v, w.lev[a]) /\ v.next = w.lev[a].next
          /\ v.flagged = FALSE /\ v.regs = <<>>
      BY <1>7 DEF Level, Header
    <3>4. x \in Ram /\ x.lev = w.lev
      BY <3>2 DEF Reduced
    <3>5. u = [x EXCEPT !.lev = lv]
      <4>1. u = [x EXCEPT !.lev[a].flagged = FALSE]
        BY <1>4, <2>1, <3>1 DEF levelBlocks, headerOnlyBlocks
      <4>2. x.lev \in [Addr -> Level] /\ x.lev[a] \in Level
        BY <1>7, <3>4
      <4> HIDE DEF u
      <4> QED BY <3>4, <4>1, <4>2 DEF Ram, Level
    <3> HIDE DEF v, a
    <3>6. lv \in [Addr -> Level] /\ lv[a] = v /\ \A c \in Addr \ {a} : lv[c] = w.lev[c]
      BY <1>2, <1>7, <3>3
    <3> HIDE DEF lv, u
    <3>7. /\ u \in Ram /\ u.cur = x.cur /\ u.chain = x.chain /\ u.count = x.count
          /\ u.misuse = x.misuse /\ u.val = x.val /\ u.size = x.size
          /\ u.lost = x.lost /\ u.level0 = x.level0 /\ u.lev = lv
      BY <3>4, <3>5, <3>6 DEF Ram
    <3> QED BY <1>4, <1>7, <3>2, <3>3, <3>6, <3>7 DEF Reduced, a
  <2>2. CASE ~ fl
    <3>1. u = w
      BY <1>4, <2>2
    <3>2. w.lev[a].flagged = FALSE
      BY <1>2, <1>4, <2>2
    <3> HIDE DEF u
    <3> QED BY <1>2, <1>4, <1>7, <2>2, <3>1, <3>2 DEF Header
  <2> QED BY <2>1, <2>2
<1> HIDE DEF u
<1>9. /\ q \in Ram /\ q.cur = a /\ q.chain = w.chain /\ q.count = w.count
      /\ ~ q.misuse /\ q.val = w.val /\ q.flags = NULL /\ q.regs = NULL
      /\ q.lost = w.lost /\ q.level0 = w.level0
      /\ q.size = u.size /\ q.lev = u.lev
  BY <1>6, <1>8 DEF Ram
<1>10. n \notin w.lost => IF n = 1 THEN w.level0 = a ELSE w.lev[w.chain[n - 1]].next = a
  <2>1. LinkedOn(w)
    BY <1>4 DEF Good
  <2>2. n # 1 => n \in 2 .. n
    BY <1>7, OneOrMore
  <2> QED BY <1>4, <1>7, <2>1, <2>2 DEF LinkedOn, Lev
<1>11. n # 1 => w.chain[n - 1] \in Addr \ {a}
  <2>1. LET k == Len(w.chain)
        IN k > 1 => w.chain[k - 1] \in Addr /\ w.chain[k - 1] # w.cur
    BY <1>4, TopFacts
  <2>2. n # 1 => n > 1
    BY <1>7, OneOrMore
  <2> QED BY <1>4, <2>1, <2>2
<1>12. TopStays(w, q, <<>>, FALSE)
  <2>1. \A c : ~ In(<<>>, c)
    BY DEF In
  <2>2. <<>> \in Seq(Addr) /\ Len(<<>>) <= Len(<<>>) /\ \A x \in 1 .. Len(<<>>) : FALSE
    BY EmptySeq
  <2> HIDE DEF a, n
  <2>3. /\ \A c \in Addr \ {a} : /\ Header(q.lev[c], w.lev[c])
                                 /\ q.lev[c].flagged = w.lev[c].flagged
                                 /\ q.lev[c].regs = w.lev[c].regs
                                 /\ q.lev[c].next = w.lev[c].next
        /\ Header(q.lev[a], w.lev[a]) /\ q.lev[a].next = w.lev[a].next
        /\ q.lev[a].flagged = FALSE /\ q.lev[a].regs = <<>>
    BY <1>8, <1>9 DEF Header
  <2>4. n \notin q.lost => IF n = 1 THEN q.level0 = a ELSE q.lev[w.chain[n - 1]].next = a
    BY <1>9, <1>10, <1>11, <2>3
  <2> QED BY <1>4, <1>8, <1>9, <2>1, <2>2, <2>3, <2>4 DEF TopStays
<1> QED BY <1>3, <1>4, <1>5, <1>12, StaysBecomes

---------------------------------------------------------------------------
(* LocR as a whole.                                                        *)

(* What the pool promises.                                                 *)
Unused(p, m, k) ==
  /\ p \in Seq(Addr) /\ Len(p) = k
  /\ \A x \in 1 .. k : p[x] \in Addr /\ m.size[p[x]] = 0
  /\ \A x, y \in 1 .. k : p[x] = p[y] => x = y

LEMMA Claimed ==
  ASSUME NEW m \in Ram, NEW k \in 0 .. 99, NEW p \in Places(InUse(m), k)
  PROVE  Unused(p, m, k)
<1>1. InUse(m) \in SUBSET Addr
  BY DEF InUse
<1>2. p \in [1 .. k -> Addr \ InUse(m)] /\ \A x, y \in 1 .. k : p[x] = p[y] => x = y
  BY <1>1, LevelsAssumption
<1>3. k \in Nat
  OBVIOUS
<1>4. p \in Seq(Addr) /\ Len(p) = k
  <2>1. p \in [1 .. k -> Addr]
    BY <1>2
  <2> QED BY <1>3, <2>1
<1>5. \A x \in 1 .. k : p[x] \in Addr /\ p[x] \notin InUse(m)
  BY <1>2
<1>6. \A c \in Addr : c \notin InUse(m) => m.size[c] = 0
  <2>1. \A c \in Addr : m.size[c] \in Nat
    BY RamFields
  <2> QED BY <2>1 DEF InUse
<1> QED BY <1>2, <1>4, <1>5, <1>6 DEF Unused

LEMMA OneClaimed ==
  ASSUME NEW r \in Ram, NEW p \in Places(InUse(r), 1)
  PROVE  p[1] \in Addr /\ r.size[p[1]] = 0 /\ p \in Seq(Addr) /\ Len(p) = 1
<1>1. 1 \in 0 .. 99 /\ 1 \in 1 .. 1
  OBVIOUS
<1>2. Unused(p, r, 1)
  BY <1>1, Claimed
<1> QED BY <1>1, <1>2 DEF Unused

Resized(r, o, k) ==
  \/ /\ o.err = FALSE
     /\ \E b, s : TopBecomes(r, o.ram, b, s, TRUE) /\ Len(s) = k
  \/ /\ o.err = TRUE
     /\ \E b : TopBecomes(r, o.ram, b, curRegs(r), r.lev[r.cur].flagged)

(* A block b was found; then the new registers, too.                       *)
LEMMA MoreRegisters ==
  ASSUME NEW r, Good(r), NEW b \in Addr, r.size[b] = 0, NEW k \in 0 .. 99,
         k >= Len(curRegs(r)), NEW m, m = Realloc(r, b, r.size[r.cur], levelBlocks(k)),
         NEW data \in Places(InUse(m), k - Len(curRegs(r)))
  PROVE  Resized(r, Done(updateSubroutineLinks(
                       Initialized(refreshLocalStorage(m, b, curRegs(r) \o data), data))), k)
<1> DEFINE old == curRegs(r)
           s == old \o data
<1>1. /\ old \in Seq(Addr) /\ Len(old) \in 0 .. 99 /\ r.cur \in Addr
      /\ r.size[r.cur] \in Nat \ {0}
  BY TopFacts
<1>2. r \in Ram /\ r.chain # <<>> /\ b # r.cur /\ r.size[r.cur] \in Nat
  BY <1>1 DEF Good
<1>3. m \in Ram
  <2>1. levelBlocks(k) \in Nat
    BY DEF levelBlocks
  <2> QED BY <1>2, <2>1, ReallocFields
<1>4. \A l \in 0 .. 99 : k >= l => k - l \in 0 .. 99 /\ l + (k - l) = k
  OBVIOUS
<1>5. k - Len(old) \in 0 .. 99 /\ Len(old) + (k - Len(old)) = k
  BY <1>1, <1>4
<1>6. /\ data \in Seq(Addr) /\ Len(data) = k - Len(old)
      /\ \A x \in 1 .. k - Len(old) : m.size[data[x]] = 0
      /\ \A x, y \in 1 .. k - Len(old) : data[x] = data[y] => x = y
  <2> DEFINE d == k - Len(old)
  <2>1. d \in 0 .. 99 /\ data \in Places(InUse(m), d)
    BY <1>5
  <2> HIDE DEF d
  <2>2. Unused(data, m, d)
    BY <1>3, <2>1, Claimed
  <2> QED BY <2>2 DEF Unused, d
<1>7. s \in Seq(Addr) /\ Len(s) = k
  BY <1>1, <1>5, <1>6, ConcatProperties
<1>8. Grown(r, b, s, data, m)
  <2>1. Len(s) <= 99
    BY <1>7
  <2> QED BY <1>6, <1>7, <2>1 DEF Grown
<1> HIDE DEF s
<1>9. TopBecomes(r, updateSubroutineLinks(Initialized(refreshLocalStorage(m, b, s), data)),
                 b, s, TRUE)
  BY <1>8, MoveDone
<1> QED BY <1>7, <1>9 DEF Resized, Done, s

LEMMA LocRBecomes ==
  ASSUME NEW r, Good(r), NEW k \in Sizes, NEW o \in allocateLocalRegisters(r, k)
  PROVE  Resized(r, o, k)
<1> DEFINE a == r.cur
           old == curRegs(r)
           fl == r.lev[a].flagged
<1>1. /\ old \in Seq(Addr) /\ Len(old) \in 0 .. 99 /\ a \in Addr
      /\ r.size[a] = SizeOf(r.lev[a]) /\ (r.flags = NULL <=> ~ fl)
      /\ (~ fl => old = <<>>)
  BY TopFacts
<1>2. k \in 0 .. 99 /\ k \in Nat /\ Len(old) \in Nat
  <2>1. \A l \in 0 .. 99 : l \in Nat
    OBVIOUS
  <2> QED BY <1>1, <2>1, LevelsAssumption
<1>3. fl \in BOOLEAN /\ r \in Ram
  BY <1>1, RamFields DEF Good
<1>4. Resized(r, Failed(r), k)
  BY SameTop DEF Resized, Failed
<1>5. CASE r.flags = NULL
  <2>1. ~ fl /\ old = <<>> /\ r.size[a] = headerOnlyBlocks /\ Len(old) = 0
    <3>1. ~ fl /\ old = <<>>
      BY <1>1, <1>5
    <3>2. r.size[a] = 3
      BY <1>1, <3>1 DEF SizeOf
    <3> QED BY <3>1, <3>2 DEF headerOnlyBlocks
  <2>2. o \in allocateFirstLocalRegisters(r, k)
    BY <1>5 DEF allocateLocalRegisters
  <2> SUFFICES ASSUME o # Failed(r) PROVE Resized(r, o, k)
    BY <1>4
  <2>3. PICK p \in Places(InUse(r), 1) :
          LET m == Realloc(r, p[1], headerOnlyBlocks, levelBlocks(k))
          IN \/ \E data \in Places(InUse(m), k) :
                  o = Done(updateSubroutineLinks(
                             Initialized(refreshLocalStorage(m, p[1], data), data)))
             \/ o = Failed(Unlinked([Reduce(m, p[1], levelBlocks(k), headerOnlyBlocks)
                           EXCEPT !.cur = p[1], !.flags = NULL, !.regs = NULL]))
    BY <2>2 DEF allocateFirstLocalRegisters
  <2>4. PICK b : b = p[1]
    OBVIOUS
  <2>5. PICK m : m = Realloc(r, b, headerOnlyBlocks, levelBlocks(k))
    OBVIOUS
  <2>6. b \in Addr /\ r.size[b] = 0
    BY <1>3, <2>4, OneClaimed
  <2>7. CASE \E data \in Places(InUse(m), k) :
                  o = Done(updateSubroutineLinks(
                             Initialized(refreshLocalStorage(m, b, data), data)))
    <3>1. PICK data \in Places(InUse(m), k) :
                  o = Done(updateSubroutineLinks(
                             Initialized(refreshLocalStorage(m, b, data), data)))
      BY <2>7
    <3>2. r.chain # <<>> /\ b # a /\ r.size[a] \in Nat /\ levelBlocks(k) \in Nat
      BY <1>2, <2>1, <2>6 DEF Good, headerOnlyBlocks, levelBlocks
    <3>3. m = Realloc(r, b, r.size[a], levelBlocks(k))
      BY <2>1, <2>5
    <3>4. m \in Ram
      BY <1>3, <2>6, <3>2, <3>3, ReallocFields
    <3>5. data \in Seq(Addr)
      BY <1>2, <3>4, Claimed DEF Unused
    <3>6. old \o data = data
      BY <2>1, <3>5, ConcatEmptySeq
    <3>7. k - Len(old) = k /\ k >= Len(old)
      BY <1>2, <2>1
    <3>8. data \in Places(InUse(m), k - Len(old))
      BY <3>7
    <3> HIDE DEF a, old
    <3>9. Resized(r, Done(updateSubroutineLinks(
                       Initialized(refreshLocalStorage(m, b, old \o data), data))), k)
      BY <1>2, <2>6, <3>3, <3>7, <3>8, MoreRegisters DEF a, old
    <3> QED BY <3>1, <3>6, <3>9
  <2>8. CASE o = Failed(Unlinked([Reduce(m, b, levelBlocks(k), headerOnlyBlocks)
                           EXCEPT !.cur = b, !.flags = NULL, !.regs = NULL]))
    <3>0. levelBlocks(k) \in Nat
      BY <1>2 DEF levelBlocks
    <3>1. PICK q : q = Unlinked([Reduce(m, b, levelBlocks(k), headerOnlyBlocks)
                           EXCEPT !.cur = b, !.flags = NULL, !.regs = NULL])
      OBVIOUS
    <3>2. MovedBack(r, q, b)
      BY <2>1, <2>5, <2>6, <3>0, <3>1, FirstFails
    <3>3. TopBecomes(r, q, b, old, fl)
      BY <3>2, MoveFailed
    <3> QED BY <2>8, <3>1, <3>3 DEF Resized, Failed
  <2> QED BY <2>3, <2>4, <2>5, <2>7, <2>8
<1>6. CASE r.flags # NULL
  <2>1. fl /\ fl = TRUE /\ r.lev[a].regs = old /\ r.size[a] = levelBlocks(Len(old))
    BY <1>1, <1>3, <1>6 DEF SizeOf, curRegs, levelBlocks
  <2>2. CASE k = Len(old)
    <3>1. o = Done(r)
      BY <1>6, <2>2 DEF allocateLocalRegisters
    <3>2. TopBecomes(r, r, a, old, TRUE)
      BY <2>1, SameTop
    <3> QED BY <2>2, <3>1, <3>2 DEF Resized, Done
  <2>3. CASE k > Len(old)
    <3>0. k # Len(old) /\ k >= Len(old) /\ ~ (k < Len(old))
      BY <1>2, <2>3
    <3>1. o \in growLocalRegisters(r, k)
      BY <1>6, <2>3, <3>0 DEF allocateLocalRegisters
    <3> SUFFICES ASSUME o # Failed(r) PROVE Resized(r, o, k)
      BY <1>4
    <3>2. PICK p \in Places(InUse(r), 1) :
            LET m == Realloc(r, p[1], levelBlocks(Len(old)), levelBlocks(k))
            IN \/ \E data \in Places(InUse(m), k - Len(old)) :
                    o = Done(updateSubroutineLinks(
                           Initialized(refreshLocalStorage(m, p[1], old \o data), data)))
               \/ o = Failed(Unlinked(refreshLocalStorage(
                        Reduce(m, p[1], levelBlocks(k), levelBlocks(Len(old))), p[1], old)))
      BY <3>1 DEF growLocalRegisters
    <3>3. PICK b : b = p[1]
      OBVIOUS
    <3>4. PICK m : m = Realloc(r, b, levelBlocks(Len(old)), levelBlocks(k))
      OBVIOUS
    <3>5. b \in Addr /\ r.size[b] = 0
      BY <1>3, <3>3, OneClaimed
    <3>6. m = Realloc(r, b, r.size[a], levelBlocks(k)) /\ levelBlocks(k) \in Nat
      BY <1>2, <2>1, <3>4 DEF levelBlocks
    <3>7. CASE \E data \in Places(InUse(m), k - Len(old)) :
                    o = Done(updateSubroutineLinks(
                           Initialized(refreshLocalStorage(m, b, old \o data), data)))
      <4>1. PICK data \in Places(InUse(m), k - Len(old)) :
                    o = Done(updateSubroutineLinks(
                           Initialized(refreshLocalStorage(m, b, old \o data), data)))
        BY <3>7
      <4> HIDE DEF a, old
      <4>2. Resized(r, Done(updateSubroutineLinks(
                       Initialized(refreshLocalStorage(m, b, old \o data), data))), k)
        BY <1>2, <3>0, <3>5, <3>6, MoreRegisters DEF a, old
      <4> QED BY <4>1, <4>2
    <3>8. CASE o = Failed(Unlinked(refreshLocalStorage(
                        Reduce(m, b, levelBlocks(k), levelBlocks(Len(old))), b, old)))
      <4>1. PICK q : q = Unlinked(refreshLocalStorage(
                        Reduce(m, b, levelBlocks(k), levelBlocks(Len(old))), b, old))
        OBVIOUS
      <4>2. MovedBack(r, q, b)
        BY <2>1, <3>5, <3>6, <4>1, GrowFails
      <4>3. TopBecomes(r, q, b, old, fl)
        BY <4>2, MoveFailed
      <4> QED BY <3>8, <4>1, <4>3 DEF Resized, Failed
    <3> QED BY <3>2, <3>3, <3>4, <3>7, <3>8
  <2>4. CASE k < Len(old)
    <3>0. k # Len(old) /\ ~ (k > Len(old)) /\ k <= Len(old)
      BY <1>2, <2>4
    <3>1. o = Done(shrinkLocalRegisters(r, k))
      BY <1>6, <2>4, <3>0 DEF allocateLocalRegisters
    <3> DEFINE s == SubSeq(old, 1, k)
    <3>2. TopStays(r, shrinkLocalRegisters(r, k), s, TRUE)
      BY <1>2, <2>4, ShrinkStays
    <3>3. Len(s) = k
      <4>1. \A x, y \in 1 .. Len(old) : old[x] = old[y] => x = y
        BY TopFacts
      <4> QED BY <1>1, <1>2, <3>0, <4>1, FirstOnes
    <3> HIDE DEF s
    <3>4. TopBecomes(r, shrinkLocalRegisters(r, k), a, s, TRUE)
      BY <3>2, StaysBecomes
    <3> QED BY <3>1, <3>3, <3>4 DEF Resized, Done
  <2>5. k = Len(old) \/ k > Len(old) \/ k < Len(old)
    BY <1>2
  <2> QED BY <2>2, <2>3, <2>4, <2>5
<1> QED BY <1>5, <1>6

---------------------------------------------------------------------------
(* Calls.                                                                  *)

Pushed(r, q, b) ==
  /\ q \in Ram /\ ~ q.misuse
  /\ \A c \in Addr : q.size[c] = IF c = b THEN 3 ELSE r.size[c]
  /\ q.val = r.val /\ q.cur = b /\ q.flags = NULL /\ q.regs = NULL
  /\ q.level0 = r.level0 /\ q.lost = r.lost /\ q.count = r.count + 1
  /\ q.chain = Append(r.chain, b)
  /\ q.lev[b].ret = here /\ q.lev[b].level = r.count /\ q.lev[b].prev = r.cur
  /\ q.lev[b].next = NULL /\ q.lev[b].flagged = FALSE /\ q.lev[b].regs = <<>>
  /\ Header(q.lev[r.cur], r.lev[r.cur]) /\ q.lev[r.cur].next = b
  /\ q.lev[r.cur].flagged = r.lev[r.cur].flagged
  /\ q.lev[r.cur].regs = r.lev[r.cur].regs
  /\ \A c \in Addr \ {b, r.cur} : q.lev[c] = r.lev[c]

LEMMA PushFields ==
  ASSUME NEW r, Good(r), here \in Points, NEW b \in Addr, r.size[b] = 0
  PROVE  Pushed(r, NewLevel(r, b), b)
<1> DEFINE a == r.cur
           v == [r.lev[a] EXCEPT !.next = b]
           u == [Blank EXCEPT !.ret = here, !.level = r.count, !.prev = a]
           lv == [[r.lev EXCEPT ![a] = v] EXCEPT ![b] = u]
           sz == [r.size EXCEPT ![b] = 3]
           ch == Append(r.chain, b)
           q == [r EXCEPT !.size = sz, !.lev = lv, !.cur = b, !.count = r.count + 1,
                          !.flags = NULL, !.regs = NULL, !.chain = ch]
<1>1. /\ r \in Ram /\ ~ r.misuse /\ a \in Addr /\ r.lev \in [Addr -> Level]
      /\ r.lev[a] \in Level /\ r.size \in [Addr -> Nat] /\ r.chain \in Seq(Addr)
      /\ r.count \in Nat
  BY RamFields DEF Good
<1>2. b # a
  BY TopFacts
<1>3. /\ v \in Level /\ Header(v, r.lev[a]) /\ v.next = b
      /\ v.flagged = r.lev[a].flagged /\ v.regs = r.lev[a].regs
  BY <1>1 DEF Level, Header
<1>4. /\ u \in Level /\ u.ret = here /\ u.level = r.count /\ u.prev = a /\ u.next = NULL
      /\ u.flagged = FALSE /\ u.regs = <<>>
  <2>1. <<>> \in Seq(Addr)
    BY EmptySeq
  <2> QED BY <1>1, <2>1 DEF Level, Blank
<1>5. NewLevel(r, b) = q
  BY <1>1, <1>2 DEF NewLevel, Ram, Level
<1> HIDE DEF v, u, a
<1>6. /\ lv \in [Addr -> Level] /\ lv[b] = u /\ lv[a] = v
      /\ \A c \in Addr \ {a, b} : lv[c] = r.lev[c]
  BY <1>1, <1>2, <1>3, <1>4
<1>7. sz \in [Addr -> Nat] /\ \A c \in Addr : sz[c] = IF c = b THEN 3 ELSE r.size[c]
  BY <1>1
<1>8. ch \in Seq(Addr) /\ r.count + 1 \in Nat
  BY <1>1
<1> HIDE DEF lv, sz, ch
<1>9. /\ q \in Ram /\ q.size = sz /\ q.lev = lv /\ q.cur = b /\ q.count = r.count + 1
      /\ q.flags = NULL /\ q.regs = NULL /\ q.chain = ch /\ q.val = r.val
      /\ q.level0 = r.level0 /\ q.lost = r.lost /\ q.misuse = r.misuse
  BY <1>1, <1>6, <1>7, <1>8 DEF Ram
<1> HIDE DEF q
<1>10. Pushed(r, q, b)
  BY <1>1, <1>3, <1>4, <1>6, <1>7, <1>9 DEF Pushed, ch, a
<1> QED BY <1>5, <1>10

LEMMA PushGood ==
  ASSUME NEW r, Good(r), here \in Points, NEW b \in Addr, r.size[b] = 0, NEW q, Pushed(r, q, b)
  PROVE  /\ Good(q) /\ Len(q.chain) = Len(r.chain) + 1
         /\ \A i \in 1 .. Len(r.chain) : /\ q.chain[i] = r.chain[i]
                                         /\ Header(Lev(q, i), Lev(r, i))
                                         /\ Lev(q, i).flagged = Lev(r, i).flagged
                                         /\ Regs(q, i) = Regs(r, i)
         /\ q.chain[Len(r.chain) + 1] = b /\ curLevel(q) = r.count
<1> DEFINE n == Len(r.chain)
           a == r.cur
<1>1. /\ r \in Ram /\ n \in Nat \ {0} /\ a = r.chain[n]
      /\ \A i \in 1 .. n :
              /\ r.chain[i] \in Addr /\ Lev(r, i) \in Level
              /\ Lev(r, i).level \in Nat
              /\ Regs(r, i) \in Seq(Addr) /\ Len(Regs(r, i)) \in Nat
              /\ \A x \in 1 .. Len(Regs(r, i)) : Regs(r, i)[x] \in Addr
              /\ r.size[r.chain[i]] > 0
  BY GoodFacts
<1>2. /\ OneOwner(r) /\ Sized(r) /\ NothingElse(r) /\ LinkedBack(r) /\ LinkedOn(r)
      /\ r.count \in Nat /\ r.chain \in Seq(Addr)
  BY RamFields DEF Good
<1> HIDE DEF n, a
<1>3. Len(q.chain) = n + 1 /\ q.chain[n + 1] = b /\ \A i \in 1 .. n : q.chain[i] = r.chain[i]
  BY <1>1, <1>2, AppendProperties DEF Pushed, n
<1>4. \A i \in 1 .. n : /\ r.chain[i] # b
                        /\ \A x \in 1 .. Len(Regs(r, i)) : Regs(r, i)[x] # b
  <2> SUFFICES ASSUME NEW i \in 1 .. n
               PROVE  /\ r.chain[i] # b
                      /\ \A x \in 1 .. Len(Regs(r, i)) : Regs(r, i)[x] # b
    OBVIOUS
  <2>1. r.size[r.chain[i]] > 0
    BY <1>1
  <2>2. \A x \in 1 .. Len(Regs(r, i)) : r.size[Regs(r, i)[x]] = 4
    BY <1>2 DEF Sized, n
  <2> QED BY <2>1, <2>2
<1>5. n \in 1 .. n /\ a \in Addr /\ a # b
  BY <1>1, <1>4
<1>6. ASSUME NEW i \in 1 .. n
      PROVE  /\ Header(Lev(q, i), Lev(r, i)) /\ Lev(q, i).flagged = Lev(r, i).flagged
             /\ Regs(q, i) = Regs(r, i)
             /\ Lev(q, i).next = IF i = n THEN b ELSE Lev(r, i).next
  <2>1. Lev(q, i) = q.lev[r.chain[i]] /\ Lev(r, i) = r.lev[r.chain[i]] /\ r.chain[i] \in Addr
    BY <1>1, <1>3 DEF Lev
  <2>2. CASE i = n
    BY <1>1, <2>1, <2>2 DEF Pushed, Regs, a
  <2>3. CASE i # n
    <3>1. r.chain[i] # a
      BY <1>1, <1>2, <1>5, <2>3 DEF OneOwner, n
    <3>2. r.chain[i] \in Addr \ {b, a}
      BY <1>4, <2>1, <3>1
    <3>3. q.lev[r.chain[i]] = r.lev[r.chain[i]]
      BY <3>2 DEF Pushed, a
    <3> QED BY <2>1, <2>3, <3>3 DEF Header, Regs
  <2> QED BY <2>2, <2>3
<1>7. /\ Lev(q, n + 1) = q.lev[b] /\ Regs(q, n + 1) = <<>> /\ Len(Regs(q, n + 1)) = 0
  <2>1. Lev(q, n + 1) = q.lev[b] /\ Regs(q, n + 1) = <<>>
    BY <1>3 DEF Lev, Regs, Pushed
  <2> QED BY <2>1
<1>8. /\ \A i \in 1 .. n + 1 : i \in 1 .. n \/ i = n + 1
      /\ \A i \in 1 .. n : i # n + 1 /\ i \in 1 .. n + 1
      /\ \A i \in 2 .. n + 1 : i \in 2 .. n \/ i = n + 1
      /\ \A i \in 2 .. n : i \in 1 .. n /\ i - 1 \in 1 .. n /\ i - 1 # n
      /\ n + 1 - 1 = n /\ n + 1 \in 1 .. n + 1 /\ 1 \in 1 .. n
  BY <1>1
<1>9. OneOwner(q)
  <2>1. ASSUME NEW i \in 1 .. n + 1, NEW j \in 1 .. n + 1, q.chain[i] = q.chain[j]
        PROVE  i = j
    BY <1>2, <1>3, <1>4, <1>8, <2>1, SMTT(30) DEF OneOwner, n
  <2>2. ASSUME NEW i \in 1 .. n + 1, NEW j \in 1 .. n + 1, NEW x \in 1 .. Len(Regs(q, i))
        PROVE  /\ q.chain[j] # Regs(q, i)[x]
               /\ \A y \in 1 .. Len(Regs(q, j)) :
                    Regs(q, i)[x] = Regs(q, j)[y] => i = j /\ x = y
    <3>1. i \in 1 .. n
      <4>1. i # n + 1
        BY <1>7
      <4> QED BY <1>8, <4>1
    <3>2. Regs(q, i) = Regs(r, i)
      BY <1>6, <3>1
    <3>3. CASE j \in 1 .. n
      <4>1. Regs(q, j) = Regs(r, j) /\ q.chain[j] = r.chain[j]
        BY <1>3, <1>6, <3>3
      <4> QED BY <1>2, <3>1, <3>2, <3>3, <4>1 DEF OneOwner, n
    <3>4. CASE j = n + 1
      BY <1>3, <1>4, <1>7, <3>1, <3>2, <3>4
    <3> QED BY <1>8, <3>3, <3>4
  <2> QED BY <1>3, <2>1, <2>2 DEF OneOwner
<1>10. \A c \in Addr : q.size[c] = IF c = b THEN 3 ELSE r.size[c]
  BY DEF Pushed
<1>11. Sized(q)
  <2> SUFFICES ASSUME NEW i \in 1 .. n + 1
               PROVE  /\ q.size[q.chain[i]] = SizeOf(Lev(q, i))
                      /\ Len(Regs(q, i)) <= 99 /\ (~ Lev(q, i).flagged => Regs(q, i) = <<>>)
                      /\ \A x \in 1 .. Len(Regs(q, i)) : q.size[Regs(q, i)[x]] = 4
    BY <1>3 DEF Sized
  <2>1. CASE i \in 1 .. n
    <3>1. /\ Regs(q, i) = Regs(r, i) /\ q.chain[i] = r.chain[i]
          /\ Lev(q, i).flagged = Lev(r, i).flagged
      BY <1>3, <1>6, <2>1
    <3>2. /\ r.size[r.chain[i]] = SizeOf(Lev(r, i))
          /\ Len(Regs(r, i)) <= 99 /\ (~ Lev(r, i).flagged => Regs(r, i) = <<>>)
          /\ \A x \in 1 .. Len(Regs(r, i)) : r.size[Regs(r, i)[x]] = 4
      BY <1>2, <2>1 DEF Sized, n
    <3>3. SizeOf(Lev(q, i)) = SizeOf(Lev(r, i))
      BY <3>1 DEF SizeOf, Regs
    <3>4. q.size[r.chain[i]] = r.size[r.chain[i]]
      BY <1>1, <1>4, <1>10, <2>1
    <3>5. \A x \in 1 .. Len(Regs(r, i)) : q.size[Regs(r, i)[x]] = r.size[Regs(r, i)[x]]
      BY <1>1, <1>4, <1>10, <2>1
    <3> QED BY <3>1, <3>2, <3>3, <3>4, <3>5
  <2>2. CASE i = n + 1
    <3>1. q.lev[b].flagged = FALSE /\ q.size[b] = 3
      BY <1>10 DEF Pushed
    <3> QED BY <1>3, <1>7, <2>2, <3>1 DEF SizeOf
  <2> QED BY <1>8, <2>1, <2>2
<1>12. NothingElse(q)
  <2>1. ASSUME NEW c \in Addr, IsData(r, c) PROVE IsData(q, c)
    <3>1. PICK i \in 1 .. n : \E x \in 1 .. Len(Regs(r, i)) : c = Regs(r, i)[x]
      BY <2>1 DEF IsData, n
    <3>2. i \in 1 .. Len(q.chain) /\ Regs(q, i) = Regs(r, i)
      BY <1>3, <1>6, <1>8, <3>1
    <3> QED BY <3>1, <3>2 DEF IsData
  <2>2. ASSUME NEW c \in Addr, IsLevel(r, c) PROVE IsLevel(q, c)
    BY <1>3, <1>8, <2>2 DEF IsLevel, n
  <2>3. IsLevel(q, b)
    BY <1>3, <1>8 DEF IsLevel
  <2>4. q.val = r.val
    BY DEF Pushed
  <2> QED BY <1>2, <1>10, <2>1, <2>2, <2>3, <2>4 DEF NothingElse
<1>13. /\ q.lev[b].ret = here /\ q.lev[b].level = r.count /\ q.lev[b].prev = a
       /\ q.lev[b].next = NULL /\ q.lev[b].flagged = FALSE /\ q.lev[b].regs = <<>>
       /\ q.cur = b /\ q.count = r.count + 1 /\ q.flags = NULL /\ q.regs = NULL
       /\ q.level0 = r.level0 /\ q.lost = r.lost
  BY DEF Pushed, a
<1>14. LinkedBack(q)
  <2>1. Lev(q, 1).prev = NULL /\ Lev(q, 1).level = 0
    BY <1>2, <1>6, <1>8 DEF LinkedBack, Header
  <2>2. ASSUME NEW i \in 2 .. n
        PROVE  /\ Lev(q, i).prev = q.chain[i - 1] /\ Lev(q, i).ret \in Points
               /\ Lev(q, i).level > Lev(q, i - 1).level
    <3>1. /\ Lev(r, i).prev = r.chain[i - 1] /\ Lev(r, i).ret \in Points
          /\ Lev(r, i).level > Lev(r, i - 1).level
      BY <1>2 DEF LinkedBack, n
    <3>2. i \in 1 .. n /\ i - 1 \in 1 .. n
      BY <1>8
    <3>3. Header(Lev(q, i), Lev(r, i)) /\ Header(Lev(q, i - 1), Lev(r, i - 1))
          /\ q.chain[i - 1] = r.chain[i - 1]
      BY <1>3, <1>6, <3>2
    <3> QED BY <3>1, <3>3 DEF Header
  <2>3. /\ Lev(q, n + 1).prev = q.chain[n] /\ Lev(q, n + 1).ret \in Points
        /\ Lev(q, n + 1).level > Lev(q, n).level
    <3>1. r.count > Lev(r, n).level /\ Lev(q, n).level = Lev(r, n).level
      BY <1>2, <1>5, <1>6 DEF LinkedBack, Header, n
    <3> QED BY <1>1, <1>3, <1>5, <1>7, <1>13, <3>1
  <2>4. q.count > Lev(q, n + 1).level
    BY <1>2, <1>7, <1>13
  <2>5. q.chain[n + 1] = q.cur
    BY <1>3, <1>13
  <2>6. ASSUME NEW i \in 2 .. n + 1
        PROVE  /\ Lev(q, i).prev = q.chain[i - 1] /\ Lev(q, i).ret \in Points
               /\ Lev(q, i).level > Lev(q, i - 1).level
    <3>1. CASE i \in 2 .. n
      BY <2>2, <3>1
    <3>2. CASE i = n + 1
      <4>1. i - 1 = n
        BY <1>1, <3>2
      <4> QED BY <2>3, <3>2, <4>1
    <3> QED BY <1>8, <3>1, <3>2
  <2> QED BY <1>3, <2>1, <2>4, <2>5, <2>6 DEF LinkedBack
<1>15. Pointers(q)
  BY <1>3, <1>7, <1>13 DEF Pointers
<1>16. LinkedOn(q)
  <2>1. Lev(q, n + 1).next = NULL
    BY <1>7, <1>13
  <2>2. ASSUME NEW i \in 2 .. n + 1, i \notin q.lost
        PROVE  Lev(q, i - 1).next = q.chain[i]
    <3>1. CASE i \in 2 .. n
      <4>1. Lev(r, i - 1).next = r.chain[i]
        BY <1>2, <1>13, <2>2, <3>1 DEF LinkedOn, n
      <4>2. i \in 1 .. n /\ i - 1 \in 1 .. n /\ i - 1 # n
        BY <1>8, <3>1
      <4> QED BY <1>3, <1>6, <4>1, <4>2
    <3>2. CASE i = n + 1
      <4>1. i - 1 = n
        BY <1>1, <3>2
      <4> QED BY <1>3, <1>5, <1>6, <3>2, <4>1
    <3> QED BY <1>8, <3>1, <3>2
  <2>3. 1 \notin q.lost => q.level0 = q.chain[1]
    BY <1>2, <1>3, <1>8, <1>13 DEF LinkedOn
  <2> QED BY <1>3, <2>1, <2>2, <2>3 DEF LinkedOn
<1>17. q \in Ram /\ ~ q.misuse
  BY DEF Pushed
<1>18. q.chain # <<>>
  <2>1. Len(q.chain) # 0
    BY <1>1, <1>3
  <2> QED BY <2>1
<1>19. Good(q)
  BY <1>9, <1>11, <1>12, <1>14, <1>15, <1>16, <1>17, <1>18 DEF Good
<1>20. curLevel(q) = r.count
  BY <1>13 DEF curLevel
<1> QED BY <1>3, <1>6, <1>19, <1>20 DEF n

---------------------------------------------------------------------------
(* Returns.                                                                *)

Popped(r, q) ==
  LET n == Len(r.chain)
      a == r.cur
      p == r.chain[n - 1]
  IN /\ q \in Ram /\ ~ q.misuse
     /\ \A c \in Addr : q.size[c] = IF c = a THEN 0 ELSE r.size[c]
     /\ \A c \in Addr : q.val[c] = IF c = a THEN Zero ELSE r.val[c]
     /\ \A c \in Addr \ {a, p} : q.lev[c] = r.lev[c]
     /\ Header(q.lev[p], r.lev[p]) /\ q.lev[p].next = NULL
     /\ q.lev[p].flagged = r.lev[p].flagged /\ q.lev[p].regs = r.lev[p].regs
     /\ q.cur = p /\ q.count = r.count - 1 /\ q.chain = SubSeq(r.chain, 1, n - 1)
     /\ q.lost = r.lost \ {n} /\ q.level0 = r.level0
     /\ q.flags = (IF r.lev[p].flagged THEN p ELSE NULL)
     /\ q.regs = (IF r.lev[p].flagged /\ r.lev[p].regs # <<>> THEN p ELSE NULL)

LEMMA PopFields ==
  ASSUME NEW r, Good(r), Len(r.chain) > 1, curRegs(r) = <<>>
  PROVE  LET p == r.lev[r.cur].prev
             f == Free(r, r.cur, headerOnlyBlocks + (IF r.lev[r.cur].flagged THEN 1 ELSE 0))
             back == f.lev[p]
         IN Popped(r, [f EXCEPT !.cur = p, !.lev[p].next = NULL, !.count = @ - 1,
               !.chain = SubSeq(@, 1, Len(@) - 1), !.lost = @ \ {Len(r.chain)},
               !.flags = IF back.flagged THEN p ELSE NULL,
               !.regs = IF back.flagged /\ back.regs # <<>> THEN p ELSE NULL])
<1> DEFINE n == Len(r.chain)
           a == r.cur
           p == r.lev[a].prev
           sz == [r.size EXCEPT ![a] = 0]
           vl == [r.val EXCEPT ![a] = Zero]
           lw == [r.lev EXCEPT ![a] = Blank]
           f == [r EXCEPT !.size = sz, !.lev = lw, !.val = vl]
           v == [lw[p] EXCEPT !.next = NULL]
           lv == [lw EXCEPT ![p] = v]
           ch == SubSeq(r.chain, 1, n - 1)
           fg == IF lw[p].flagged THEN p ELSE NULL
           rg == IF lw[p].flagged /\ lw[p].regs # <<>> THEN p ELSE NULL
           q == [r EXCEPT !.size = sz, !.lev = lv, !.val = vl, !.cur = p, !.count = r.count - 1,
                          !.chain = ch, !.lost = r.lost \ {n}, !.flags = fg, !.regs = rg]
<1>1. /\ r \in Ram /\ ~ r.misuse /\ a \in Addr /\ r.lev \in [Addr -> Level]
      /\ r.size \in [Addr -> Nat] /\ r.chain \in Seq(Addr)
      /\ r.count \in Nat /\ r.val \in [Addr -> Values] /\ r.lost \in SUBSET Nat
  BY RamFields DEF Good
<1>2. /\ p = r.chain[n - 1] /\ p \in Addr /\ p # a /\ n \in Nat \ {0}
      /\ curLevel(r) = Lev(r, n).level /\ curLevel(r) \in Nat
      /\ r.size[a] = SizeOf(r.lev[a])
  BY TopFacts
<1>3. r.size[a] = headerOnlyBlocks + (IF r.lev[a].flagged THEN 1 ELSE 0)
  <2>1. Len(r.lev[a].regs) = 0
    BY DEF curRegs
  <2> QED BY <1>2, <2>1 DEF SizeOf, headerOnlyBlocks
<1>4. Blank \in Level /\ Zero \in Values
  BY LevelsAssumption, EmptySeq DEF Blank, Level
<1>5. Free(r, a, headerOnlyBlocks + (IF r.lev[a].flagged THEN 1 ELSE 0)) = f
  BY <1>1, <1>3 DEF Free, Ram
<1>6. /\ sz \in [Addr -> Nat] /\ vl \in [Addr -> Values] /\ lw \in [Addr -> Level]
      /\ \A c \in Addr : sz[c] = IF c = a THEN 0 ELSE r.size[c]
      /\ \A c \in Addr : vl[c] = IF c = a THEN Zero ELSE r.val[c]
      /\ \A c \in Addr \ {a} : lw[c] = r.lev[c]
  BY <1>1, <1>4
<1>7. lw[p] = r.lev[p] /\ lw[p] \in Level
  BY <1>2, <1>6
<1> HIDE DEF sz, vl, lw, p
<1>8. f \in Ram /\ f.size = sz /\ f.lev = lw /\ f.val = vl
      /\ f.cur = a /\ f.count = r.count /\ f.chain = r.chain /\ f.lost = r.lost
  BY <1>1, <1>6 DEF Ram
<1>9. [f EXCEPT !.cur = p, !.lev[p].next = NULL, !.count = @ - 1,
               !.chain = SubSeq(@, 1, Len(@) - 1), !.lost = @ \ {Len(r.chain)},
               !.flags = IF f.lev[p].flagged THEN p ELSE NULL,
               !.regs = IF f.lev[p].flagged /\ f.lev[p].regs # <<>> THEN p ELSE NULL] = q
  <2>1. [f EXCEPT !.cur = p, !.lev[p].next = NULL, !.count = @ - 1,
               !.chain = SubSeq(@, 1, Len(@) - 1), !.lost = @ \ {Len(r.chain)},
               !.flags = IF f.lev[p].flagged THEN p ELSE NULL,
               !.regs = IF f.lev[p].flagged /\ f.lev[p].regs # <<>> THEN p ELSE NULL]
          = [f EXCEPT !.cur = p, !.lev = lv, !.count = r.count - 1, !.chain = ch,
                      !.lost = r.lost \ {n}, !.flags = fg, !.regs = rg]
    <3> HIDE DEF f
    <3> QED BY ONLY <1>8 DEF Ram
  <2> HIDE DEF lv, ch, fg, rg
  <2> QED BY ONLY <1>1, <2>1, ZenonT(40) DEF Ram
<1>10. /\ v \in Level /\ Header(v, r.lev[p]) /\ v.next = NULL
       /\ v.flagged = r.lev[p].flagged /\ v.regs = r.lev[p].regs
  BY <1>7 DEF Level, Header
<1> HIDE DEF v
<1>11. lv \in [Addr -> Level] /\ lv[p] = v /\ \A c \in Addr \ {a, p} : lv[c] = r.lev[c]
  BY <1>2, <1>6, <1>10
<1>12. r.count - 1 \in Nat
  <2>1. r.count > curLevel(r)
    BY <1>2 DEF Good, LinkedBack
  <2> QED BY <1>1, <1>2, <2>1
<1>13. ch \in Seq(Addr)
  BY <1>1, <1>2, SubSeqProperties
<1>14. fg \in Addr \cup {NULL} /\ rg \in Addr \cup {NULL} /\ r.lost \ {n} \in SUBSET Nat
  BY <1>1, <1>2
<1>15. /\ fg = (IF r.lev[p].flagged THEN p ELSE NULL)
       /\ rg = (IF r.lev[p].flagged /\ r.lev[p].regs # <<>> THEN p ELSE NULL)
  BY <1>7
<1> HIDE DEF lv, ch, fg, rg, n
<1>16. /\ q \in Ram /\ q.size = sz /\ q.lev = lv /\ q.val = vl /\ q.cur = p
       /\ q.count = r.count - 1 /\ q.chain = ch /\ q.lost = r.lost \ {n}
       /\ q.flags = fg /\ q.regs = rg /\ q.level0 = r.level0 /\ q.misuse = r.misuse
  BY <1>1, <1>2, <1>6, <1>11, <1>12, <1>13, <1>14 DEF Ram
<1> HIDE DEF q
<1>17. Popped(r, q)
  <2>1. r.chain[Len(r.chain) - 1] = p
    BY <1>2 DEF n
  <2> HIDE DEF a
  <2> QED BY <1>1, <1>6, <1>10, <1>11, <1>15, <1>16, <2>1 DEF Popped, ch, n, a
<1> HIDE DEF f
<1> QED BY <1>5, <1>9, <1>17 DEF p

LEMMA PopGood ==
  ASSUME NEW r, Good(r), Len(r.chain) > 1, curRegs(r) = <<>>, NEW q, Popped(r, q)
  PROVE  /\ Good(q) /\ Len(q.chain) = Len(r.chain) - 1
         /\ \A i \in 1 .. Len(r.chain) - 1 : /\ q.chain[i] = r.chain[i]
                                             /\ Header(Lev(q, i), Lev(r, i))
                                             /\ Lev(q, i).flagged = Lev(r, i).flagged
                                             /\ Regs(q, i) = Regs(r, i)
<1> DEFINE n == Len(r.chain)
           m == n - 1
           a == r.cur
           p == r.chain[m]
<1>1. /\ r \in Ram /\ n \in Nat \ {0} /\ a = r.chain[n]
      /\ \A i \in 1 .. n :
              /\ r.chain[i] \in Addr /\ Lev(r, i) \in Level
              /\ Lev(r, i).level \in Nat
              /\ Regs(r, i) \in Seq(Addr) /\ Len(Regs(r, i)) \in Nat
              /\ \A x \in 1 .. Len(Regs(r, i)) : Regs(r, i)[x] \in Addr
              /\ r.size[r.chain[i]] > 0
  BY GoodFacts
<1>2. /\ OneOwner(r) /\ Sized(r) /\ NothingElse(r) /\ LinkedBack(r) /\ LinkedOn(r)
      /\ r.count \in Nat /\ r.chain \in Seq(Addr) /\ Regs(r, n) = <<>>
      /\ Len(Regs(r, n)) = 0
  <2>1. curRegs(r) = Regs(r, n)
    BY TopFacts
  <2>2. Regs(r, n) = <<>> /\ Len(Regs(r, n)) = 0
    BY <2>1
  <2> QED BY <2>2, RamFields DEF Good
<1>3. /\ m \in Nat \ {0} /\ m \in 1 .. m /\ m \in 1 .. n /\ n \in 1 .. n
      /\ \A i \in 1 .. m : i \in 1 .. n /\ i # n
      /\ \A i \in 1 .. n : i \in 1 .. m \/ i = n
      /\ \A i \in 2 .. m : i \in 2 .. n /\ i \in 1 .. m /\ i - 1 \in 1 .. m /\ i - 1 # m
      /\ 1 \in 1 .. m /\ n \in 2 .. n /\ m \in Nat
  <2>1. \A k \in Nat : k > 1 =>
          /\ k - 1 \in Nat \ {0} /\ k - 1 \in 1 .. k - 1 /\ k - 1 \in 1 .. k /\ k \in 1 .. k
          /\ \A i \in 1 .. k - 1 : i \in 1 .. k /\ i # k
          /\ \A i \in 1 .. k : i \in 1 .. k - 1 \/ i = k
          /\ \A i \in 2 .. k - 1 : i \in 2 .. k /\ i \in 1 .. k - 1 /\ i - 1 \in 1 .. k - 1
                                   /\ i - 1 # k - 1
          /\ 1 \in 1 .. k - 1 /\ k \in 2 .. k
    OBVIOUS
  <2> QED BY <1>1, <2>1
<1>4. /\ q \in Ram /\ ~ q.misuse
      /\ \A c \in Addr : q.size[c] = IF c = a THEN 0 ELSE r.size[c]
      /\ \A c \in Addr : q.val[c] = IF c = a THEN Zero ELSE r.val[c]
      /\ \A c \in Addr \ {a, p} : q.lev[c] = r.lev[c]
      /\ Header(q.lev[p], r.lev[p]) /\ q.lev[p].next = NULL
      /\ q.lev[p].flagged = r.lev[p].flagged /\ q.lev[p].regs = r.lev[p].regs
      /\ q.cur = p /\ q.count = r.count - 1 /\ q.chain = SubSeq(r.chain, 1, m)
      /\ q.lost = r.lost \ {n} /\ q.level0 = r.level0
      /\ q.flags = (IF r.lev[p].flagged THEN p ELSE NULL)
      /\ q.regs = (IF r.lev[p].flagged /\ r.lev[p].regs # <<>> THEN p ELSE NULL)
  BY DEF Popped
<1> HIDE DEF m
<1>5. Len(q.chain) = m /\ \A i \in 1 .. m : q.chain[i] = r.chain[i]
  <2>1. m <= Len(r.chain)
    BY <1>3
  <2> QED BY <1>2, <1>3, <1>4, <2>1, SubSeqProperties
<1> HIDE DEF n, a, p
<1>6. ASSUME NEW i \in 1 .. m
      PROVE  /\ r.chain[i] \in Addr \ {a}
             /\ \A x \in 1 .. Len(Regs(r, i)) : Regs(r, i)[x] \in Addr \ {a}
  <2>1. i \in 1 .. n /\ i # n
    BY <1>3
  <2>2. n \in 1 .. n
    BY <1>3
  <2>3. r.chain[i] # r.chain[n] /\ \A x \in 1 .. Len(Regs(r, i)) : r.chain[n] # Regs(r, i)[x]
    BY <1>2, <2>1, <2>2 DEF OneOwner, n
  <2> QED BY <1>1, <2>1, <2>3
<1>7. ASSUME NEW i \in 1 .. m
      PROVE  /\ Header(Lev(q, i), Lev(r, i)) /\ Lev(q, i).flagged = Lev(r, i).flagged
             /\ Regs(q, i) = Regs(r, i)
             /\ Lev(q, i).next = IF i = m THEN NULL ELSE Lev(r, i).next
  <2>1. Lev(q, i) = q.lev[r.chain[i]] /\ Lev(r, i) = r.lev[r.chain[i]]
    BY <1>5 DEF Lev
  <2>2. CASE i = m
    <3>1. r.chain[i] = p
      BY <2>2 DEF p
    <3> QED BY <1>4, <2>1, <2>2, <3>1 DEF Regs
  <2>3. CASE i # m
    <3>1. r.chain[i] # p
      BY <1>2, <1>3, <2>3 DEF OneOwner, n, p
    <3>2. q.lev[r.chain[i]] = r.lev[r.chain[i]]
      BY <1>4, <1>6, <3>1
    <3> QED BY <2>1, <2>3, <3>2 DEF Header, Regs
  <2> QED BY <2>2, <2>3
<1>8. OneOwner(q)
  <2>1. ASSUME NEW i \in 1 .. m, NEW j \in 1 .. m, q.chain[i] = q.chain[j]
        PROVE  i = j
    BY <1>2, <1>3, <1>5, <2>1 DEF OneOwner, n
  <2>2. ASSUME NEW i \in 1 .. m, NEW j \in 1 .. m, NEW x \in 1 .. Len(Regs(q, i))
        PROVE  /\ q.chain[j] # Regs(q, i)[x]
               /\ \A y \in 1 .. Len(Regs(q, j)) :
                    Regs(q, i)[x] = Regs(q, j)[y] => i = j /\ x = y
    <3>1. /\ Regs(q, i) = Regs(r, i) /\ Regs(q, j) = Regs(r, j) /\ q.chain[j] = r.chain[j]
          /\ i \in 1 .. n /\ j \in 1 .. n
      BY <1>3, <1>5, <1>7
    <3> QED BY <1>2, <3>1 DEF OneOwner, n
  <2> QED BY <1>5, <2>1, <2>2 DEF OneOwner
<1>9. Sized(q)
  <2> SUFFICES ASSUME NEW i \in 1 .. m
               PROVE  /\ q.size[q.chain[i]] = SizeOf(Lev(q, i))
                      /\ Len(Regs(q, i)) <= 99 /\ (~ Lev(q, i).flagged => Regs(q, i) = <<>>)
                      /\ \A x \in 1 .. Len(Regs(q, i)) : q.size[Regs(q, i)[x]] = 4
    BY <1>5 DEF Sized
  <2>1. /\ Regs(q, i) = Regs(r, i) /\ q.chain[i] = r.chain[i]
        /\ Lev(q, i).flagged = Lev(r, i).flagged /\ i \in 1 .. n
    BY <1>3, <1>5, <1>7
  <2>2. /\ r.size[r.chain[i]] = SizeOf(Lev(r, i))
        /\ Len(Regs(r, i)) <= 99 /\ (~ Lev(r, i).flagged => Regs(r, i) = <<>>)
        /\ \A x \in 1 .. Len(Regs(r, i)) : r.size[Regs(r, i)[x]] = 4
    BY <1>2, <2>1 DEF Sized, n
  <2>3. SizeOf(Lev(q, i)) = SizeOf(Lev(r, i))
    BY <2>1 DEF SizeOf, Regs
  <2>4. q.size[r.chain[i]] = r.size[r.chain[i]]
    BY <1>4, <1>6
  <2>5. \A x \in 1 .. Len(Regs(r, i)) : q.size[Regs(r, i)[x]] = r.size[Regs(r, i)[x]]
    BY <1>4, <1>6
  <2> QED BY <2>1, <2>2, <2>3, <2>4, <2>5
<1>10. NothingElse(q)
  <2>1. ASSUME NEW c \in Addr, IsData(r, c) PROVE IsData(q, c)
    <3>1. PICK i \in 1 .. n : \E x \in 1 .. Len(Regs(r, i)) : c = Regs(r, i)[x]
      BY <2>1 DEF IsData, n
    <3>2. i # n
      BY <1>2, <3>1
    <3>3. i \in 1 .. Len(q.chain) /\ Regs(q, i) = Regs(r, i)
      BY <1>3, <1>5, <1>7, <3>1, <3>2
    <3> QED BY <3>1, <3>3 DEF IsData
  <2>2. ASSUME NEW c \in Addr, c # a, IsLevel(r, c) PROVE IsLevel(q, c)
    <3>1. PICK i \in 1 .. n : c = r.chain[i]
      BY <2>2 DEF IsLevel, n
    <3>2. i # n
      BY <1>1, <2>2, <3>1
    <3> QED BY <1>3, <1>5, <3>1, <3>2 DEF IsLevel
  <2>3. ASSUME NEW c \in Addr PROVE /\ q.size[c] > 0 => IsLevel(q, c) \/ IsData(q, c)
                                    /\ q.val[c] # Zero => IsData(q, c)
    <3>1. CASE c = a
      BY <1>4, <3>1
    <3>2. CASE c # a
      BY <1>2, <1>4, <2>1, <2>2, <3>2 DEF NothingElse
    <3> QED BY <3>1, <3>2
  <2> QED BY <2>3 DEF NothingElse
<1>11. LinkedBack(q)
  <2>1. Lev(q, 1).prev = NULL /\ Lev(q, 1).level = 0
    BY <1>2, <1>3, <1>7 DEF LinkedBack, Header
  <2>2. ASSUME NEW i \in 2 .. m
        PROVE  /\ Lev(q, i).prev = q.chain[i - 1] /\ Lev(q, i).ret \in Points
               /\ Lev(q, i).level > Lev(q, i - 1).level
    <3>1. i \in 2 .. n /\ i \in 1 .. m /\ i - 1 \in 1 .. m
      BY <1>3
    <3>2. /\ Lev(r, i).prev = r.chain[i - 1] /\ Lev(r, i).ret \in Points
          /\ Lev(r, i).level > Lev(r, i - 1).level
      BY <1>2, <3>1 DEF LinkedBack, n
    <3>3. Header(Lev(q, i), Lev(r, i)) /\ Header(Lev(q, i - 1), Lev(r, i - 1))
          /\ q.chain[i - 1] = r.chain[i - 1]
      BY <1>5, <1>7, <3>1
    <3> QED BY <3>2, <3>3 DEF Header
  <2>3. q.count > Lev(q, m).level
    <3>1. r.count > Lev(r, n).level /\ Lev(r, n).level > Lev(r, m).level
      BY <1>2, <1>3 DEF LinkedBack, n, m
    <3>2. Lev(q, m).level = Lev(r, m).level
      BY <1>3, <1>7 DEF Header
    <3>3. r.count \in Nat /\ Lev(r, n).level \in Nat /\ Lev(r, m).level \in Nat
      BY <1>1, <1>2, <1>3
    <3> QED BY <1>4, <3>1, <3>2, <3>3
  <2>4. q.chain[m] = q.cur
    BY <1>3, <1>4, <1>5 DEF p
  <2> QED BY <1>5, <2>1, <2>2, <2>3, <2>4 DEF LinkedBack
<1>12. Pointers(q)
  <2>1. Lev(r, m) = r.lev[p] /\ q.cur = p
    BY <1>4 DEF Lev, p
  <2>2. ~ r.lev[p].flagged => r.lev[p].regs = <<>>
    BY <1>2, <1>3, <2>1 DEF Sized, Regs, n
  <2>3. Lev(q, m).flagged = r.lev[p].flagged /\ Regs(q, m) = r.lev[p].regs
    BY <1>3, <1>7, <2>1 DEF Regs
  <2>4. q.flags = (IF r.lev[p].flagged THEN p ELSE NULL)
    BY <1>4
  <2>5. q.regs = (IF r.lev[p].regs # <<>> THEN p ELSE NULL)
    BY <1>4, <2>2
  <2> QED BY <1>5, <2>1, <2>3, <2>4, <2>5 DEF Pointers
<1>13. LinkedOn(q)
  <2>1. Lev(q, m).next = NULL
    BY <1>3, <1>7
  <2>2. ASSUME NEW i \in 2 .. m, i \notin q.lost
        PROVE  Lev(q, i - 1).next = q.chain[i]
    <3>1. i \in 2 .. n /\ i \in 1 .. m /\ i - 1 \in 1 .. m /\ i - 1 # m /\ i # n
      BY <1>3
    <3>2. Lev(r, i - 1).next = r.chain[i]
      BY <1>2, <1>4, <2>2, <3>1 DEF LinkedOn, n
    <3> QED BY <1>5, <1>7, <3>1, <3>2
  <2>3. 1 \notin q.lost => q.level0 = q.chain[1]
    BY <1>2, <1>3, <1>4, <1>5 DEF LinkedOn
  <2> QED BY <1>5, <2>1, <2>2, <2>3 DEF LinkedOn
<1>14. q.chain # <<>>
  <2>1. Len(q.chain) # 0
    BY <1>3, <1>5
  <2> QED BY <2>1
<1>15. Good(q)
  BY <1>4, <1>8, <1>9, <1>10, <1>11, <1>12, <1>13, <1>14 DEF Good
<1> QED BY <1>5, <1>7, <1>15 DEF m, n

---------------------------------------------------------------------------
(* The numbers of the levels grow, which the loops of fnReturn rely on.    *)

LEMMA UpTo ==
  ASSUME NEW T, NEW n \in Nat, 0 \in T, \A k \in 1 .. n : k - 1 \in T => k \in T
  PROVE  \A k \in 0 .. n : k \in T
<1> DEFINE Bad == {k \in 0 .. n : k \notin T}
<1> SUFFICES ASSUME Bad # {} PROVE FALSE
  OBVIOUS
<1>1. PICK m \in Bad : \A y \in Bad : ~ (y < m)
  <2>1. Bad \in SUBSET Nat
    OBVIOUS
  <2> HIDE DEF Bad
  <2>2. PICK m \in Bad : \A y \in Bad : ~ (<<y, m>> \in OpToRel(<, Nat))
    BY <2>1, NatLessThanWellFounded, WFMin, Zenon
  <2> QED BY <2>1, <2>2 DEF OpToRel
<1>2. m \in 1 .. n /\ m - 1 \in 0 .. n /\ m - 1 < m
  OBVIOUS
<1> QED BY <1>1, <1>2

LEMMA LevelsGrow ==
  ASSUME NEW r, Good(r)
  PROVE  \A i, j \in 1 .. Len(r.chain) : i < j => Lev(r, i).level < Lev(r, j).level
<1> DEFINE n == Len(r.chain)
<1> SUFFICES ASSUME NEW i \in 1 .. n
             PROVE  \A j \in 1 .. n : i < j => Lev(r, i).level < Lev(r, j).level
  OBVIOUS
<1>1. n \in Nat /\ \A j \in 1 .. n : Lev(r, j).level \in Nat
  BY GoodFacts
<1>2. \A j \in 2 .. n : Lev(r, j - 1).level < Lev(r, j).level
  BY <1>1 DEF Good, LinkedBack
<1> HIDE DEF n
<1> DEFINE T == {j \in Nat : j <= n /\ i < j => Lev(r, i).level < Lev(r, j).level}
<1>3. 0 \in T
  OBVIOUS
<1>4. ASSUME NEW k \in 1 .. n, k - 1 \in T PROVE k \in T
  <2>1. CASE i < k
    <3>1. k \in 2 .. n /\ k \in 1 .. n /\ k - 1 \in 1 .. n /\ k - 1 <= n /\ (k - 1 = i \/ i < k - 1)
      BY <1>1, <2>1
    <3>2. Lev(r, k - 1).level < Lev(r, k).level
      BY <1>2, <3>1
    <3>3. CASE k - 1 = i
      BY <3>2, <3>3
    <3>4. CASE i < k - 1
      <4>1. Lev(r, i).level < Lev(r, k - 1).level
        BY <1>4, <3>1, <3>4
      <4>2. /\ Lev(r, i).level \in Nat /\ Lev(r, k - 1).level \in Nat
            /\ Lev(r, k).level \in Nat
        BY <1>1, <3>1
      <4> QED BY <3>2, <4>1, <4>2
    <3> QED BY <3>1, <3>3, <3>4
  <2>2. CASE ~ (i < k)
    BY <2>2
  <2> QED BY <2>1, <2>2
<1> HIDE DEF T
<1>5. \A j \in 0 .. n : j \in T
  BY <1>1, <1>3, <1>4, UpTo
<1>6. \A j \in 1 .. n : j \in 0 .. n /\ j <= n
  BY <1>1
<1> QED BY <1>5, <1>6 DEF T

---------------------------------------------------------------------------
(* Returns and calls as a whole.                                           *)

SameLevels(r, q, k) == \A i \in 1 .. k : Lev(q, i).level = Lev(r, i).level

Returns(r, q) ==
  LET n == Len(r.chain)
  IN \E w : /\ TopBecomes(r, w, r.cur, <<>>, r.lev[r.cur].flagged) /\ Good(w)
            /\ Len(w.chain) = n /\ curRegs(w) = <<>>
            /\ IF n > 1 THEN Popped(w, q) ELSE TopBecomes(w, q, w.cur, <<>>, FALSE)

LEMMA ReturnSteps ==
  ASSUME NEW r, Good(r)
  PROVE  Returns(r, fnReturn(r))
<1> DEFINE n == Len(r.chain)
           fl == r.lev[r.cur].flagged
<1>1. n \in Nat \ {0} /\ curLevel(r) \in Nat /\ (curLevel(r) = 0 <=> n = 1) /\ r.cur \in Addr
  BY TopFacts
<1>2. fl \in BOOLEAN
  BY <1>1, RamFields DEF Good
<1>3. CASE n > 1
  <2>1. PICK w : w = WithoutRegisters(r)
    OBVIOUS
  <2>2. TopBecomes(r, w, r.cur, <<>>, fl)
    BY <2>1, WithoutStays
  <2>3. Good(w) /\ Len(w.chain) = n /\ curRegs(w) = <<>>
    BY <1>2, <2>2, BecomesFacts
  <2>4. curLevel(r) > 0
    <3>1. \A k \in Nat : k # 0 => k > 0
      OBVIOUS
    <3>2. n # 1
      BY <1>1, <1>3, OneOrMore
    <3> QED BY <1>1, <3>1, <3>2
  <2>5. PICK q : q = fnReturn(r)
    OBVIOUS
  <2>6. Popped(w, q)
    <3>1. q = ReturnFromLevel(r)
      BY <2>4, <2>5 DEF fnReturn
    <3>2. LET p == w.lev[w.cur].prev
              f == Free(w, w.cur, headerOnlyBlocks + (IF w.lev[w.cur].flagged THEN 1 ELSE 0))
              back == f.lev[p]
          IN q = [f EXCEPT !.cur = p, !.lev[p].next = NULL, !.count = @ - 1,
               !.chain = SubSeq(@, 1, Len(@) - 1), !.lost = @ \ {Len(w.chain)},
               !.flags = IF back.flagged THEN p ELSE NULL,
               !.regs = IF back.flagged /\ back.regs # <<>> THEN p ELSE NULL]
      BY <2>1, <2>3, <3>1 DEF ReturnFromLevel
    <3> QED BY <1>3, <2>3, <3>2, PopFields
  <2> QED BY <1>3, <2>2, <2>3, <2>5, <2>6 DEF Returns
<1>4. CASE ~ (n > 1)
  <2>1. n = 1 /\ ~ (curLevel(r) > 0)
    <3>1. n = 1
      BY <1>1, <1>4, OneOrMore
    <3> QED BY <1>1, <3>1
  <2>2. fnReturn(r) = cleanLocalFlagsAndRegisters(r)
    BY <2>1 DEF fnReturn
  <2>3. PICK q : q = fnReturn(r)
    OBVIOUS
  <2>4. PICK w : TopBecomes(r, w, r.cur, <<>>, fl) /\ TopBecomes(w, q, r.cur, <<>>, FALSE)
    BY <2>2, <2>3, CleanStays
  <2>5. Good(w) /\ Len(w.chain) = n /\ curRegs(w) = <<>> /\ w.cur = r.cur
    BY <1>2, <2>4, BecomesFacts
  <2> QED BY <1>4, <2>3, <2>4, <2>5 DEF Returns
<1> QED BY <1>3, <1>4

LEMMA ReturnGood ==
  ASSUME NEW r, Good(r), NEW q, Returns(r, q)
  PROVE  /\ Good(q) /\ q.count <= r.count
         /\ Len(q.chain) = IF Len(r.chain) > 1 THEN Len(r.chain) - 1 ELSE Len(r.chain)
         /\ SameLevels(r, q, Len(q.chain))
         /\ Len(r.chain) > 1 => q.count = r.count - 1
<1> DEFINE n == Len(r.chain)
           fl == r.lev[r.cur].flagged
<1>1. n \in Nat \ {0} /\ r.count \in Nat /\ r.cur \in Addr
  BY TopFacts, RamFields DEF Good
<1>2. fl \in BOOLEAN
  BY <1>1, RamFields DEF Good
<1>3. PICK w : /\ TopBecomes(r, w, r.cur, <<>>, fl) /\ Good(w)
               /\ Len(w.chain) = n /\ curRegs(w) = <<>>
               /\ IF n > 1 THEN Popped(w, q) ELSE TopBecomes(w, q, w.cur, <<>>, FALSE)
  BY DEF Returns
<1>4. w.count = r.count /\ \A i \in 1 .. n : Lev(w, i).level = Lev(r, i).level
  BY <1>2, <1>3, BecomesFacts
<1>5. CASE n > 1
  <2>1. /\ Good(q) /\ Len(q.chain) = n - 1
        /\ \A i \in 1 .. n - 1 : Header(Lev(q, i), Lev(w, i))
    BY <1>3, <1>5, PopGood
  <2>2. q.count = r.count - 1
    BY <1>3, <1>4, <1>5 DEF Popped
  <2>3. \A i \in 1 .. n - 1 : i \in 1 .. n
    BY <1>1
  <2>4. SameLevels(r, q, n - 1)
    BY <1>4, <2>1, <2>3 DEF SameLevels, Header
  <2>5. q.count <= r.count
    BY <1>1, <2>2
  <2> QED BY <1>5, <2>1, <2>2, <2>4, <2>5
<1>6. CASE ~ (n > 1)
  <2>1. TopBecomes(w, q, w.cur, <<>>, FALSE)
    BY <1>3, <1>6
  <2>2. /\ Good(q) /\ q.count = w.count /\ Len(q.chain) = n
        /\ \A i \in 1 .. n : Lev(q, i).level = Lev(w, i).level
    <3>1. PICK b : b = w.cur
      OBVIOUS
    <3>2. PICK f \in BOOLEAN : f = FALSE
      OBVIOUS
    <3>3. TopBecomes(w, q, b, <<>>, f) /\ Good(w) /\ Len(w.chain) = n
      BY <1>3, <2>1, <3>1, <3>2
    <3> HIDE DEF n
    <3> QED BY <3>3, BecomesFacts
  <2>3. q.count <= r.count
    BY <1>1, <1>4, <2>2
  <2> QED BY <1>4, <1>6, <2>2, <2>3 DEF SameLevels
<1> QED BY <1>5, <1>6

LEMMA PointReturned ==
  ASSUME NEW r, Good(r), here \in Points
  PROVE  ReturnPoint(r) \in Points
<1>1. LET n == Len(r.chain)
      IN n \in Nat \ {0} /\ curLevel(r) \in Nat /\ (curLevel(r) = 0 <=> n = 1)
         /\ r.lev[r.cur] = Lev(r, n)
  BY TopFacts
<1>2. curLevel(r) > 0 => Len(r.chain) \in 2 .. Len(r.chain)
  <2>1. \A k \in Nat : k > 0 => k # 0
    OBVIOUS
  <2>2. curLevel(r) > 0 => Len(r.chain) # 1
    BY <1>1, <2>1
  <2> QED BY <1>1, <2>2, OneOrMore
<1> QED BY <1>1, <1>2 DEF ReturnPoint, Good, LinkedBack

(* XEQ that found no memory: the level is counted all the same.            *)
LEMMA CountedGood ==
  ASSUME NEW r, Good(r), NEW q, q = [r EXCEPT !.count = @ + 1]
  PROVE  /\ Good(q) /\ q.count = r.count + 1 /\ q.chain = r.chain /\ q.lev = r.lev
         /\ q.val = r.val /\ q.cur = r.cur /\ q.size = r.size
<1>1. r \in Ram /\ r.count \in Nat /\ r.count + 1 \in Nat /\ Good(r)
  BY RamFields DEF Good
<1>2. /\ q \in Ram /\ q.count = r.count + 1 /\ q.chain = r.chain /\ q.lev = r.lev
      /\ q.val = r.val /\ q.cur = r.cur /\ q.size = r.size /\ q.flags = r.flags
      /\ q.regs = r.regs /\ q.level0 = r.level0 /\ q.lost = r.lost /\ q.misuse = r.misuse
  BY <1>1 DEF Ram
<1>3. /\ \A i : Lev(q, i) = Lev(r, i)
      /\ \A i : Regs(q, i) = Regs(r, i)
  BY <1>2 DEF Lev, Regs
<1>4. OneOwner(q) /\ Sized(q) /\ Pointers(q) /\ LinkedOn(q)
  <2>1. OneOwner(r) /\ Sized(r) /\ Pointers(r) /\ LinkedOn(r)
    BY DEF Good
  <2>2. OneOwner(q)
    BY <1>2, <1>3, <2>1 DEF OneOwner
  <2>3. Sized(q)
    <3> SUFFICES ASSUME NEW i \in 1 .. Len(r.chain)
                 PROVE  /\ q.size[q.chain[i]] = SizeOf(Lev(q, i))
                        /\ Len(Regs(q, i)) <= 99 /\ (~ Lev(q, i).flagged => Regs(q, i) = <<>>)
                        /\ \A x \in 1 .. Len(Regs(q, i)) : q.size[Regs(q, i)[x]] = 4
      BY <1>2 DEF Sized
    <3>1. Lev(q, i) = Lev(r, i) /\ Regs(q, i) = Regs(r, i)
      BY <1>3
    <3> QED BY <1>2, <2>1, <3>1 DEF Sized
  <2>4. Pointers(q)
    BY <1>2, <1>3, <2>1 DEF Pointers
  <2>5. LinkedOn(q)
    BY <1>2, <1>3, <2>1 DEF LinkedOn
  <2> QED BY <2>2, <2>3, <2>4, <2>5
<1>5. NothingElse(q)
  <2>1. \A c : (IsData(q, c) <=> IsData(r, c)) /\ (IsLevel(q, c) <=> IsLevel(r, c))
    BY <1>2, <1>3 DEF IsData, IsLevel
  <2> QED BY <1>1, <1>2, <2>1 DEF Good, NothingElse
<1>6. LinkedBack(q)
  <2>1. LinkedBack(r) /\ Lev(r, Len(r.chain)).level \in Nat
    BY TopFacts DEF Good
  <2>2. q.count > Lev(q, Len(q.chain)).level
    BY <1>1, <1>2, <1>3, <2>1 DEF LinkedBack
  <2> QED BY <1>2, <1>3, <2>1, <2>2 DEF LinkedBack
<1> QED BY <1>1, <1>2, <1>4, <1>5, <1>6 DEF Good

Executes(r, o) ==
  LET n == Len(r.chain)
  IN /\ o.err \in BOOLEAN
     /\ IF o.err
          THEN \/ o.ram = [r EXCEPT !.count = @ + 1]
               \/ \E b \in Addr : \E q : r.size[b] = 0 /\ Pushed(r, q, b) /\ Returns(q, o.ram)
          ELSE \E b \in Addr : r.size[b] = 0 /\ Pushed(r, o.ram, b)

LEMMA ExecuteSteps ==
  ASSUME NEW r, Good(r), here \in Points, NEW o \in fnExecute(r)
  PROVE  Executes(r, o)
<1>1. CASE o = Failed([r EXCEPT !.count = @ + 1])
  BY <1>1 DEF Executes, Failed
<1>2. CASE o # Failed([r EXCEPT !.count = @ + 1])
  <2>1. PICK p \in Places(InUse(r), 1) :
          o \in {Done(NewLevel(r, p[1])), Failed(fnReturn(NewLevel(r, p[1])))}
    BY <1>2 DEF fnExecute
  <2>2. PICK b : b = p[1]
    OBVIOUS
  <2>3. PICK q : q = NewLevel(r, b)
    OBVIOUS
  <2>4. b \in Addr /\ r.size[b] = 0
    BY <2>2, OneClaimed DEF Good
  <2>5. Pushed(r, q, b)
    BY <2>3, <2>4, PushFields
  <2>6. CASE o = Done(q)
    BY <2>4, <2>5, <2>6 DEF Executes, Done
  <2>7. CASE o = Failed(fnReturn(q))
    <3>1. Good(q)
      BY <2>4, <2>5, PushGood
    <3>2. Returns(q, fnReturn(q))
      BY <3>1, ReturnSteps
    <3>3. o.err = TRUE /\ o.ram = fnReturn(q)
      BY <2>7 DEF Failed
    <3> QED BY <2>4, <2>5, <3>2, <3>3 DEF Executes
  <2> QED BY <2>1, <2>2, <2>3, <2>6, <2>7
<1> QED BY <1>1, <1>2

LEMMA ExecuteGood ==
  ASSUME NEW r, Good(r), here \in Points, NEW o, Executes(r, o)
  PROVE  /\ Good(o.ram) /\ o.ram.count <= r.count + 1 /\ o.err \in BOOLEAN
         /\ Len(o.ram.chain) = IF o.err THEN Len(r.chain) ELSE Len(r.chain) + 1
         /\ SameLevels(r, o.ram, Len(r.chain))
<1> DEFINE n == Len(r.chain)
<1>0. o.err \in BOOLEAN /\ n \in Nat \ {0} /\ r.count \in Nat
  BY TopFacts, RamFields DEF Executes, Good
<1>1. ASSUME NEW b \in Addr, NEW q, r.size[b] = 0, Pushed(r, q, b)
      PROVE  /\ Good(q) /\ Len(q.chain) = n + 1 /\ q.count = r.count + 1
             /\ SameLevels(r, q, n)
  <2>1. /\ Good(q) /\ Len(q.chain) = n + 1
        /\ \A i \in 1 .. n : Header(Lev(q, i), Lev(r, i))
    BY <1>1, PushGood
  <2>2. q.count = r.count + 1
    BY <1>1 DEF Pushed
  <2> QED BY <2>1, <2>2 DEF SameLevels, Header
<1>2. CASE ~ o.err
  <2>1. PICK b \in Addr : r.size[b] = 0 /\ Pushed(r, o.ram, b)
    BY <1>2 DEF Executes
  <2>2. /\ Good(o.ram) /\ Len(o.ram.chain) = n + 1 /\ o.ram.count = r.count + 1
        /\ SameLevels(r, o.ram, n)
    BY <1>1, <2>1
  <2>3. o.ram.count <= r.count + 1
    BY <1>0, <2>2
  <2> QED BY <1>0, <1>2, <2>2, <2>3
<1>3. CASE o.err /\ o.ram = [r EXCEPT !.count = @ + 1]
  <2>1. /\ Good(o.ram) /\ o.ram.count = r.count + 1 /\ o.ram.chain = r.chain
        /\ o.ram.lev = r.lev
    BY <1>3, CountedGood
  <2>2. o.ram.count <= r.count + 1
    BY <1>0, <2>1
  <2> QED BY <1>0, <1>3, <2>1, <2>2 DEF SameLevels, Lev
<1>4. CASE o.err /\ \E b \in Addr : \E q :
                     r.size[b] = 0 /\ Pushed(r, q, b) /\ Returns(q, o.ram)
  <2>0. PICK b \in Addr : \E q : r.size[b] = 0 /\ Pushed(r, q, b) /\ Returns(q, o.ram)
    BY <1>4
  <2>1. PICK q : r.size[b] = 0 /\ Pushed(r, q, b) /\ Returns(q, o.ram)
    BY <2>0
  <2>2. /\ Good(q) /\ Len(q.chain) = n + 1 /\ q.count = r.count + 1
        /\ SameLevels(r, q, n)
    BY <1>1, <2>1
  <2>3. /\ Good(o.ram) /\ o.ram.count <= q.count
        /\ Len(o.ram.chain) = IF Len(q.chain) > 1 THEN Len(q.chain) - 1 ELSE Len(q.chain)
        /\ SameLevels(q, o.ram, Len(o.ram.chain))
    BY <2>1, <2>2, ReturnGood
  <2>4. n + 1 > 1 /\ n + 1 - 1 = n
    BY <1>0
  <2>5. Len(o.ram.chain) = n
    BY <1>0, <2>2, <2>3, <2>4
  <2> QED BY <1>0, <1>4, <2>2, <2>3, <2>5 DEF SameLevels
<1> QED BY <1>0, <1>2, <1>3, <1>4 DEF Executes

StoresAt(r, q, i, v) == q = [r EXCEPT !.val[r.lev[r.regs].regs[i]] = v]

LEMMA StoreGood ==
  ASSUME NEW r, Good(r), r.regs # NULL, NEW i \in 1 .. Len(r.lev[r.regs].regs),
         NEW v \in Values, NEW q, StoresAt(r, q, i, v)
  PROVE  /\ Good(q) /\ q.count = r.count /\ q.chain = r.chain /\ q.lev = r.lev
         /\ r.lev[r.regs].regs = curRegs(r)
         /\ \A c \in Addr : q.val[c] = IF c = curRegs(r)[i] THEN v ELSE r.val[c]
<1> DEFINE n == Len(r.chain)
           x == curRegs(r)[i]
<1>1. /\ r.lev[r.regs].regs = curRegs(r) /\ curRegs(r) = Regs(r, n) /\ n \in Nat \ {0}
      /\ i \in 1 .. Len(Regs(r, n))
  <2>1. r.regs = r.cur /\ curRegs(r) = Regs(r, n) /\ n \in Nat \ {0}
    BY TopFacts
  <2> QED BY <2>1 DEF curRegs
<1>2. r \in Ram /\ r.val \in [Addr -> Values]
  BY RamFields DEF Good
<1>3. x \in Addr /\ IsData(r, x)
  <2>1. n \in 1 .. n
    BY <1>1
  <2>2. Regs(r, n)[i] \in Addr
    BY <1>1, TopFacts
  <2> QED BY <1>1, <2>1, <2>2 DEF IsData
<1> DEFINE vl == [r.val EXCEPT ![x] = v]
<1>4. vl \in [Addr -> Values] /\ \A c \in Addr : vl[c] = IF c = x THEN v ELSE r.val[c]
  BY <1>2, <1>3
<1>5. q = [r EXCEPT !.val = vl]
  BY <1>1, <1>2 DEF Ram, StoresAt
<1> HIDE DEF x, vl
<1>6. /\ q \in Ram /\ q.count = r.count /\ q.chain = r.chain /\ q.lev = r.lev
      /\ q.val = vl /\ q.cur = r.cur /\ q.size = r.size /\ q.flags = r.flags
      /\ q.regs = r.regs /\ q.level0 = r.level0 /\ q.lost = r.lost /\ q.misuse = r.misuse
  BY <1>2, <1>4, <1>5 DEF Ram
<1>7. /\ \A j : Lev(q, j) = Lev(r, j)
      /\ \A j : Regs(q, j) = Regs(r, j)
  BY <1>6 DEF Lev, Regs
<1>8. /\ OneOwner(r) /\ Sized(r) /\ Pointers(r) /\ LinkedOn(r) /\ LinkedBack(r)
      /\ NothingElse(r) /\ r.chain # <<>> /\ ~ r.misuse
  BY DEF Good
<1>9. OneOwner(q)
  <2>1. q.chain = r.chain /\ OneOwner(r)
    BY <1>6, <1>8
  <2> QED BY ONLY <1>7, <2>1 DEF OneOwner
<1>10. Sized(q)
  <2> SUFFICES ASSUME NEW j \in 1 .. Len(r.chain)
               PROVE  /\ q.size[q.chain[j]] = SizeOf(Lev(q, j))
                      /\ Len(Regs(q, j)) <= 99 /\ (~ Lev(q, j).flagged => Regs(q, j) = <<>>)
                      /\ \A y \in 1 .. Len(Regs(q, j)) : q.size[Regs(q, j)[y]] = 4
    BY <1>6 DEF Sized
  <2>1. Lev(q, j) = Lev(r, j) /\ Regs(q, j) = Regs(r, j)
    BY <1>7
  <2> QED BY <1>6, <1>8, <2>1 DEF Sized
<1>11. NothingElse(q)
  <2>1. \A c : (IsData(q, c) <=> IsData(r, c)) /\ (IsLevel(q, c) <=> IsLevel(r, c))
    BY <1>6, <1>7 DEF IsData, IsLevel
  <2> QED BY <1>3, <1>4, <1>6, <1>8, <2>1 DEF NothingElse
<1>12. LinkedBack(q)
  BY <1>6, <1>7, <1>8 DEF LinkedBack
<1>13. Pointers(q)
  BY <1>6, <1>7, <1>8 DEF Pointers
<1>14. LinkedOn(q)
  BY <1>6, <1>7, <1>8 DEF LinkedOn
<1>15. Good(q)
  BY <1>6, <1>8, <1>9, <1>10, <1>11, <1>12, <1>13, <1>14 DEF Good
<1> QED BY <1>1, <1>4, <1>6, <1>15 DEF x

LEMMA StartGood ==
  ASSUME NEW p \in Places({}, 1), NEW q,
         q = [size |-> [b \in Addr |-> IF b = p[1] THEN headerOnlyBlocks ELSE 0],
              lev |-> [b \in Addr |-> Blank], val |-> [b \in Addr |-> Zero],
              cur |-> p[1], flags |-> NULL, regs |-> NULL, level0 |-> p[1], count |-> 1,
              misuse |-> FALSE, chain |-> p, lost |-> {}]
  PROVE  Good(q) /\ Len(q.chain) = 1 /\ q.count = 1
<1>1. p \in [1 .. 1 -> Addr]
  <2>1. PICK S \in SUBSET Addr : S = {}
    OBVIOUS
  <2>2. PICK k \in 0 .. 99 : k = 1
    OBVIOUS
  <2>3. p \in Places(S, k)
    BY <2>1, <2>2
  <2>4. p \in [1 .. k -> Addr \ S]
    BY <2>3, LevelsAssumption
  <2> QED BY <2>1, <2>2, <2>4
<1>2. p \in Seq(Addr) /\ Len(p) = 1 /\ p[1] \in Addr /\ p # <<>>
  <2>1. 1 \in Nat /\ 1 \in 1 .. 1
    OBVIOUS
  <2>2. ASSUME NEW k \in Nat, p \in [1 .. k -> Addr] PROVE p \in Seq(Addr) /\ Len(p) = k
    BY <2>2
  <2>3. p \in Seq(Addr) /\ Len(p) = 1 /\ p[1] \in Addr
    BY <1>1, <2>1, <2>2
  <2>4. p # <<>>
    <3>1. Len(<<>>) = 0 /\ 0 # 1
      OBVIOUS
    <3> QED BY ONLY <2>3, <3>1
  <2> QED BY <2>3, <2>4
<1>3. Blank \in Level /\ Zero \in Values
  BY LevelsAssumption, EmptySeq DEF Blank, Level
<1>4. /\ Blank.next = NULL /\ Blank.prev = NULL /\ Blank.level = 0 /\ Blank.flagged = FALSE
      /\ Blank.regs = <<>>
  BY DEF Blank
<1> DEFINE sz == [b \in Addr |-> IF b = p[1] THEN headerOnlyBlocks ELSE 0]
           lv == [b \in Addr |-> Blank]
           vl == [b \in Addr |-> Zero]
<1>5. /\ sz \in [Addr -> Nat] /\ lv \in [Addr -> Level] /\ vl \in [Addr -> Values]
      /\ \A b \in Addr : /\ sz[b] = IF b = p[1] THEN 3 ELSE 0
                         /\ lv[b] = Blank /\ vl[b] = Zero
  BY <1>3 DEF headerOnlyBlocks
<1> HIDE DEF sz, lv, vl
<1>6. /\ q \in Ram /\ q.size = sz /\ q.lev = lv /\ q.val = vl /\ q.cur = p[1]
      /\ q.flags = NULL /\ q.regs = NULL /\ q.level0 = p[1] /\ q.count = 1
      /\ q.misuse = FALSE /\ q.chain = p /\ q.lost = {}
  <2>1. q = [size |-> sz, lev |-> lv, val |-> vl,
              cur |-> p[1], flags |-> NULL, regs |-> NULL, level0 |-> p[1], count |-> 1,
              misuse |-> FALSE, chain |-> p, lost |-> {}]
    BY DEF sz, lv, vl
  <2> QED BY <1>2, <1>5, <2>1 DEF Ram
<1>7. /\ Lev(q, 1) = Blank /\ Regs(q, 1) = <<>> /\ Len(Regs(q, 1)) = 0
      /\ \A i \in 1 .. Len(q.chain) : i = 1
      /\ \A i \in 2 .. Len(q.chain) : FALSE
  <2>1. Lev(q, 1) = Blank
    BY <1>2, <1>5, <1>6 DEF Lev
  <2>2. Regs(q, 1) = <<>>
    BY <1>4, <2>1 DEF Regs
  <2>3. Len(q.chain) = 1
    BY <1>2, <1>6
  <2>4. (\A i \in 1 .. 1 : i = 1) /\ (\A i \in 2 .. 1 : FALSE) /\ Len(<<>>) = 0
    OBVIOUS
  <2> QED BY <2>1, <2>2, <2>3, <2>4
<1>8. OneOwner(q)
  <2>1. \A x \in 1 .. 0 : FALSE
    OBVIOUS
  <2> QED BY ONLY <1>7, <2>1 DEF OneOwner
<1>9. Sized(q)
  <2>1. q.size[q.chain[1]] = 3 /\ SizeOf(Lev(q, 1)) = 3
    BY <1>2, <1>4, <1>5, <1>6, <1>7 DEF SizeOf
  <2>2. Len(Regs(q, 1)) <= 99 /\ \A x \in 1 .. Len(Regs(q, 1)) : FALSE
    <3>1. 0 <= 99 /\ \A x \in 1 .. 0 : FALSE
      OBVIOUS
    <3> QED BY ONLY <1>7, <3>1
  <2> QED BY <1>7, <2>1, <2>2 DEF Sized
<1>10. NothingElse(q)
  <2>1. IsLevel(q, p[1])
    BY <1>2, <1>6 DEF IsLevel
  <2> QED BY <1>5, <1>6, <2>1 DEF NothingElse
<1>11. LinkedBack(q)
  <2>1. q.chain[Len(q.chain)] = q.cur /\ Lev(q, Len(q.chain)) = Blank
    BY <1>2, <1>6, <1>7
  <2> QED BY <1>4, <1>6, <1>7, <2>1 DEF LinkedBack
<1>12. Pointers(q) /\ LinkedOn(q)
  BY <1>2, <1>4, <1>6, <1>7 DEF Pointers, LinkedOn
<1> QED BY <1>2, <1>6, <1>8, <1>9, <1>10, <1>11, <1>12 DEF Good

---------------------------------------------------------------------------
(* The engines.                                                            *)

LEMMA Bounds ==
  /\ MaxLevels \in Nat \ {0} /\ MaxCount \in Nat \ {0} /\ MaxEngines \in Nat \ {0}
  /\ 0 <= MaxEngines /\ 1 <= MaxEngines /\ 1 <= MaxLevels /\ 1 <= MaxCount
<1>1. \A k \in Nat \ {0} : 0 <= k /\ 1 <= k
  OBVIOUS
<1>2. MaxLevels \in Nat \ {0} /\ MaxCount \in Nat \ {0} /\ MaxEngines \in Nat \ {0}
  BY LevelsAssumption
<1> QED BY <1>1, <1>2

LEMMA EnginesTyped ==
  ASSUME NEW es, NEW run, RunsTyped(es, run)
  PROVE  /\ Len(es) \in Nat /\ (es # <<>> <=> Len(es) > 0) /\ DOMAIN es = 1 .. Len(es)
         /\ \A k \in 1 .. Len(es) :
              /\ es[k] \in Engine /\ es[k].depth \in Nat /\ es[k].orig \in Nat
              /\ es[k].start \in Nat /\ es[k].here \in Points \cup {NULL}
<1>1. es \in Seq(Engine)
  BY DEF RunsTyped
<1>2. Len(es) \in Nat /\ es \in [1 .. Len(es) -> Engine] /\ DOMAIN es = 1 .. Len(es)
  BY ONLY <1>1, LenProperties
<1>3. es # <<>> <=> Len(es) > 0
  BY ONLY <1>1, <1>2, EmptySeq
<1>4. \A x \in Engine : /\ x.depth \in Nat /\ x.orig \in Nat /\ x.start \in Nat
                        /\ x.here \in Points \cup {NULL}
  BY DEF Engine
<1>5. \A k \in 1 .. Len(es) : es[k] \in Engine
  BY ONLY <1>2
<1> QED BY ONLY <1>2, <1>3, <1>4, <1>5

(* Engines that differ in their steps only.                                *)
SameRuns(es, fs) ==
  /\ fs \in Seq(Engine)
  /\ \A k \in 1 .. Len(fs) :
       /\ fs[k].depth = es[k].depth /\ fs[k].here = es[k].here
       /\ fs[k].orig = es[k].orig /\ fs[k].start = es[k].start

LEMMA SameRunsTyped ==
  ASSUME NEW es, NEW run, RunsTyped(es, run), NEW fs, SameRuns(es, fs), Len(fs) <= Len(es),
         NEW res \in BOOLEAN, res => Len(fs) > 0
  PROVE  RunsTyped(fs, res)
<1>1. Len(es) \in Nat /\ (es # <<>> <=> Len(es) > 0) /\ Len(es) <= MaxEngines
  BY EnginesTyped DEF RunsTyped
<1>2. fs \in Seq(Engine) /\ Len(fs) \in Nat /\ (fs # <<>> <=> Len(fs) > 0)
  <2>1. fs \in Seq(Engine)
    BY DEF SameRuns
  <2>2. Len(fs) \in Nat
    BY ONLY <2>1, LenProperties
  <2> QED BY ONLY <2>1, <2>2, EmptySeq
<1>3. Len(fs) <= MaxEngines
  BY <1>1, <1>2, Bounds
<1>4. ASSUME NEW k \in 1 .. Len(fs)
      PROVE  /\ k \in 1 .. Len(es) /\ fs[k].depth = es[k].depth /\ fs[k].here = es[k].here
             /\ fs[k].depth > 0 => fs[k].here \in Points
  <2>1. k \in 1 .. Len(es)
    BY <1>1, <1>2
  <2> QED BY <2>1 DEF SameRuns, RunsTyped
<1>5. fs # <<>> => fs[1].depth = 0
  <2>1. SUFFICES ASSUME Len(fs) > 0 PROVE fs[1].depth = 0
    BY <1>2
  <2>2. 1 \in 1 .. Len(fs) /\ Len(es) > 0
    BY <1>1, <1>2, <2>1
  <2> QED BY <1>1, <1>4, <2>2 DEF RunsTyped
<1> QED BY <1>2, <1>3, <1>4, <1>5 DEF RunsTyped

LEMMA SameRunsNested ==
  ASSUME NEW es, NEW fs, SameRuns(es, fs), NEW r, NEW j, NEW l, NEW c \in Nat,
         NEW run, RunsTyped(es, run), Nested(r, es, j, c), Len(fs) <= Len(es),
         Len(fs) = Len(es) => l.then = j.then
  PROVE  Nested(r, fs, l, c)
<1>1. Len(es) \in Nat /\ Len(fs) \in Nat
  BY EnginesTyped, LenProperties DEF SameRuns
<1>2. ASSUME NEW k \in c + 1 .. Len(fs), fs[k].depth > 0
      PROVE  /\ fs[k].depth <= Len(r.chain)
             /\ Lev(r, fs[k].depth).level = fs[k].orig
             /\ \/ k = Len(fs) /\ l.then = "execProgram"
                \/ /\ fs[k].depth < Len(r.chain)
                   /\ Lev(r, fs[k].depth + 1).level = fs[k].start
             /\ \A i \in c + 1 .. k - 1 : fs[i].depth < fs[k].depth
  <2>1. /\ k \in c + 1 .. Len(es) /\ k \in 1 .. Len(fs)
        /\ k = Len(es) => k = Len(fs) /\ Len(fs) = Len(es)
        /\ \A i \in c + 1 .. k - 1 : i \in 1 .. Len(fs)
    BY <1>1
  <2>2. /\ fs[k].depth = es[k].depth /\ fs[k].orig = es[k].orig
        /\ fs[k].start = es[k].start
        /\ \A i \in c + 1 .. k - 1 : fs[i].depth = es[i].depth
    BY <2>1 DEF SameRuns
  <2> QED BY <1>2, <2>1, <2>2 DEF Nested
<1>3. ASSUME NEW k \in c + 2 .. Len(fs) PROVE fs[k].depth > 0
  <2>1. k \in c + 2 .. Len(es) /\ k \in 1 .. Len(fs)
    BY <1>1
  <2> QED BY <2>1 DEF Nested, SameRuns
<1> QED BY <1>2, <1>3 DEF Nested

LEMMA CallersTyped ==
  ASSUME NEW run, RunsTyped(engines, run), Len(engines) > 0,
         NEW s \in {"next", "redo", "calls"}
  PROVE  /\ SameRuns(engines, CallersAt(s)) /\ Len(CallersAt(s)) = Len(engines) - 1
         /\ Len(engines) - 1 \in Nat
<1> DEFINE n == Len(engines) - 1
           f == CallersAt(s)
<1>1. Len(engines) \in Nat /\ n \in Nat /\ \A k \in 1 .. n : k \in 1 .. Len(engines)
  BY EnginesTyped
<1>2. ASSUME NEW x \in Engine
      PROVE  /\ [x EXCEPT !.step = s] \in Engine
             /\ [x EXCEPT !.step = s].depth = x.depth /\ [x EXCEPT !.step = s].here = x.here
             /\ [x EXCEPT !.step = s].orig = x.orig /\ [x EXCEPT !.step = s].start = x.start
  BY DEF Engine
<1>3. f = [k \in 1 .. n |-> IF k = n THEN [engines[k] EXCEPT !.step = s] ELSE engines[k]]
  BY DEF CallersAt
<1> HIDE DEF n, f
<1>4. ASSUME NEW k \in 1 .. n
      PROVE  /\ f[k] \in Engine
             /\ f[k].depth = engines[k].depth /\ f[k].here = engines[k].here
             /\ f[k].orig = engines[k].orig /\ f[k].start = engines[k].start
  <2>1. engines[k] \in Engine
    BY <1>1, EnginesTyped
  <2>2. f[k] = IF k = n THEN [engines[k] EXCEPT !.step = s] ELSE engines[k]
    BY <1>3
  <2> QED BY <1>2, <2>1, <2>2
<1>5. f \in [1 .. n -> Engine]
  BY <1>3, <1>4
<1>6. f \in Seq(Engine) /\ Len(f) = n
  BY <1>1, <1>5, SeqDef
<1> QED BY <1>1, <1>4, <1>6 DEF SameRuns, f, n

LEMMA NoJobTyped ==
  ASSUME NEW es, NEW c \in 0 .. Len(es)
  PROVE  JobTyped(NoJob, es, c)
<1>1. /\ NoJob.then = "none"
      /\ NoJob \in [then : {"none", "goto", "load", "fnFinish", "execProgram"}, to : Nat,
                    here : Points \cup {NULL}]
  BY DEF NoJob
<1> QED BY <1>1 DEF JobTyped

(* The engines up to c say nothing of the levels.                          *)
LEMMA NoCalls ==
  ASSUME NEW r, NEW es, NEW j, NEW c \in Nat, Len(es) = c
  PROVE  Nested(r, es, j, c)
<1>1. (\A k \in c + 1 .. c : FALSE) /\ (\A k \in c + 2 .. c : FALSE)
  OBVIOUS
<1> QED BY <1>1 DEF Nested

LEMMA NoEngines ==
  ASSUME NEW r, NEW j
  PROVE  Nested(r, <<>>, j, 0)
<1>1. Len(<<>>) = 0 /\ 0 \in Nat
  OBVIOUS
<1> QED BY ONLY <1>1, NoCalls

(* The end of an outermost run, and of one that execProgram started.       *)
LEMMA EndOfOutermost ==
  ASSUME RunsTyped(engines, running), engines # <<>>, job = NoJob, EndOfRun,
         engine.depth = 0
  PROVE  /\ RunsTyped(engines', running') /\ JobTyped(job', engines', cut')
         /\ Nested(ram', engines', job', cut')
<1>1. /\ engines' = CallersAt("calls") /\ running' = FALSE /\ job' = NoJob
      /\ cut' = Len(engines) - 1
  BY DEF EndOfRun
<1>2. Len(engines) \in Nat /\ Len(engines) > 0
  BY EnginesTyped
<1>3. SameRuns(engines, engines') /\ Len(engines') = cut' /\ cut' \in Nat
  BY <1>1, <1>2, CallersTyped
<1>4. Len(engines') <= Len(engines) /\ cut' \in 0 .. Len(engines')
  BY <1>1, <1>2, <1>3
<1>5. RunsTyped(engines', FALSE)
  BY <1>3, <1>4, SameRunsTyped
<1>6. JobTyped(NoJob, engines', cut')
  BY <1>4, NoJobTyped
<1>7. Nested(ram', engines', job', cut')
  BY <1>3, NoCalls
<1> QED BY <1>1, <1>5, <1>6, <1>7

LEMMA EndOfCalled ==
  ASSUME RunsTyped(engines, running), JobTyped(job, engines, cut), engines # <<>>,
         EndOfRun, engine.depth # 0
  PROVE  /\ RunsTyped(engines', running') /\ JobTyped(job', engines', cut')
         /\ engines' = engines /\ running' = running /\ cut' = cut
         /\ job'.then = "execProgram"
<1> DEFINE e == Len(engines)
<1>1. /\ job' = [then |-> "execProgram", to |-> engines[e].orig, here |-> engines[e].here]
      /\ engines' = engines /\ running' = running /\ cut' = cut
  BY DEF EndOfRun, engine
<1>2. e \in Nat /\ e > 0
  BY EnginesTyped
<1>3. e \in 1 .. e
  BY <1>2
<1>4. /\ engines[e].orig \in Nat /\ engines[e].here \in Points \cup {NULL}
      /\ engines[e].depth \in Nat
  BY <1>3, EnginesTyped
<1>5. engines[e].depth > 0
  BY <1>4 DEF engine
<1>6. /\ job' \in [then : {"none", "goto", "load", "fnFinish", "execProgram"}, to : Nat,
                   here : Points \cup {NULL}]
      /\ job'.then = "execProgram" /\ job'.to = engines[e].orig
      /\ job'.here = engines[e].here
  BY <1>1, <1>4
<1>7. cut \in 0 .. e
  BY DEF JobTyped
<1> QED BY <1>1, <1>5, <1>6, <1>7 DEF JobTyped

(* The levels the engines were started from are among the first m.         *)
Room(es, j, c, m) ==
  \A k \in c + 1 .. Len(es) :
    es[k].depth > 0 => /\ es[k].depth <= m
                       /\ es[k].depth < m \/ (k = Len(es) /\ j.then = "execProgram")

LEMMA NestedRoom ==
  ASSUME NEW r, NEW q, NEW es, NEW run, NEW j, NEW l, NEW c \in Nat, Good(q),
         RunsTyped(es, run), Nested(r, es, j, c), j.then = "execProgram" => l.then = "execProgram",
         NEW m \in Nat, m <= Len(q.chain), SameLevels(r, q, m), Room(es, l, c, m)
  PROVE  Nested(q, es, l, c)
<1>1. Len(q.chain) \in Nat /\ Len(es) \in Nat
  BY GoodFacts, EnginesTyped
<1>2. ASSUME NEW k \in c + 1 .. Len(es), es[k].depth > 0
      PROVE  /\ es[k].depth <= Len(q.chain)
             /\ Lev(q, es[k].depth).level = es[k].orig
             /\ \/ k = Len(es) /\ l.then = "execProgram"
                \/ /\ es[k].depth < Len(q.chain)
                   /\ Lev(q, es[k].depth + 1).level = es[k].start
             /\ \A i \in c + 1 .. k - 1 : es[i].depth < es[k].depth
  <2>1. k \in 1 .. Len(es)
    BY <1>1
  <2>2. PICK d \in Nat : d = es[k].depth
    BY <2>1, EnginesTyped
  <2>3. d > 0 /\ d <= m /\ (d < m \/ (k = Len(es) /\ l.then = "execProgram"))
    BY <1>2, <2>2 DEF Room
  <2>4. d \in 1 .. m /\ d <= Len(q.chain)
    BY <1>1, <2>2, <2>3
  <2>5. /\ Lev(r, d).level = es[k].orig
        /\ (k = Len(es) /\ j.then = "execProgram") \/ Lev(r, d + 1).level = es[k].start
        /\ \A i \in c + 1 .. k - 1 : es[i].depth < d
    BY <1>2, <2>2 DEF Nested
  <2>6. Lev(q, d).level = es[k].orig
    BY <2>4, <2>5 DEF SameLevels
  <2>7. CASE k = Len(es) /\ l.then = "execProgram"
    BY <2>2, <2>4, <2>5, <2>6, <2>7
  <2>8. CASE ~ (k = Len(es) /\ l.then = "execProgram")
    <3>1. Lev(r, d + 1).level = es[k].start /\ d < m
      BY <2>3, <2>5, <2>8
    <3>2. d + 1 \in 1 .. m /\ d < Len(q.chain)
      BY <1>1, <2>2, <3>1
    <3>3. Lev(q, d + 1).level = es[k].start
      BY <3>1, <3>2 DEF SameLevels
    <3> QED BY <2>2, <2>4, <2>5, <2>6, <3>2, <3>3
  <2> QED BY <2>7, <2>8
<1>3. \A k \in c + 2 .. Len(es) : es[k].depth > 0
  BY DEF Nested
<1> QED BY <1>2, <1>3 DEF Nested

(* Levels that are there stay, or there are no engines after the step.     *)
LEMMA NestedKeeps ==
  ASSUME NEW r, NEW q, NEW es, NEW run, NEW j, NEW l, NEW c \in Nat, Good(r), Good(q),
         RunsTyped(es, run), Nested(r, es, j, c),
         j.then = "execProgram" => l.then = "execProgram",
         Len(r.chain) <= Len(q.chain), SameLevels(r, q, Len(r.chain))
  PROVE  Nested(q, es, l, c)
<1>1. Len(r.chain) \in Nat
  BY GoodFacts
<1>2. Room(es, l, c, Len(r.chain))
  BY DEF Nested, Room
<1> QED BY <1>1, <1>2, NestedRoom

LEMMA OneEngine ==
  ASSUME NEW r, NEW j
  PROVE  Nested(r, <<Outermost>>, j, 0) /\ RunsTyped(<<Outermost>>, TRUE)
<1> DEFINE es == <<Outermost>>
<1>1. /\ Outermost \in Engine /\ Outermost.depth = 0 /\ Len(es) = 1 /\ es[1] = Outermost
      /\ es # <<>>
  BY DEF Outermost, Engine
<1>2. es \in Seq(Engine)
  BY <1>1
<1>3. /\ (\A k \in 1 .. 1 : k = 1) /\ (\A k \in 0 + 1 .. 1 : k = 1)
      /\ (\A k \in 0 + 2 .. 1 : FALSE) /\ 1 <= MaxEngines /\ ~ (0 > 0)
  BY Bounds
<1> HIDE DEF es
<1>4. Nested(r, es, j, 0)
  BY ONLY <1>1, <1>3 DEF Nested
<1>5. RunsTyped(es, TRUE)
  BY ONLY <1>1, <1>2, <1>3 DEF RunsTyped
<1> QED BY <1>4, <1>5 DEF es

LEMMA CutNat ==
  ASSUME Inv
  PROVE  /\ cut \in Nat /\ Len(engines) \in Nat /\ cut \in 0 .. Len(engines)
         /\ engines = <<>> => cut = 0
<1>1. Len(engines) \in Nat /\ cut \in 0 .. Len(engines) /\ (engines # <<>> <=> Len(engines) > 0)
  BY EnginesTyped DEF Inv, JobTyped
<1> QED BY <1>1

LEMMA EndKeeps ==
  ASSUME Inv, EndOfRun, job = NoJob, engines # <<>>, Good(ram'),
         Len(ram.chain) <= Len(ram'.chain), SameLevels(ram, ram', Len(ram.chain))
  PROVE  /\ RunsTyped(engines', running') /\ JobTyped(job', engines', cut')
         /\ Nested(ram', engines', job', cut')
<1>1. /\ Good(ram) /\ RunsTyped(engines, running) /\ Nested(ram, engines, job, cut)
      /\ cut \in Nat /\ JobTyped(job, engines, cut)
  BY CutNat DEF Inv
<1>2. CASE engine.depth = 0
  BY <1>1, <1>2, EndOfOutermost
<1>3. CASE engine.depth # 0
  <2>1. /\ RunsTyped(engines', running') /\ JobTyped(job', engines', cut')
        /\ engines' = engines /\ cut' = cut /\ job'.then = "execProgram"
    BY <1>1, <1>3, EndOfCalled
  <2>2. Nested(ram', engines, job', cut)
    BY <1>1, <2>1, NestedKeeps
  <2> QED BY <2>1, <2>2
<1> QED BY <1>2, <1>3

LEMMA StepEndsKeeps ==
  ASSUME Inv, NEW err, StepEnds(err), job = NoJob, Good(ram'),
         Len(ram.chain) <= Len(ram'.chain), SameLevels(ram, ram', Len(ram.chain))
  PROVE  /\ RunsTyped(engines', running') /\ JobTyped(job', engines', cut')
         /\ Nested(ram', engines', job', cut')
<1>1. /\ Good(ram) /\ RunsTyped(engines, running) /\ Nested(ram, engines, job, cut)
      /\ cut \in Nat /\ JobTyped(job, engines, cut)
  BY CutNat DEF Inv
<1>2. CASE engines # <<>> /\ EndOfRun
  BY <1>2, EndKeeps
<1>3. CASE UNCHANGED <<engines, running, job, cut>>
  <2>1. engines' = engines /\ running' = running /\ job' = job /\ cut' = cut
    BY <1>3
  <2>2. Nested(ram', engines, job, cut)
    BY <1>1, NestedKeeps
  <2> QED BY <1>1, <2>1, <2>2
<1> QED BY <1>2, <1>3 DEF StepEnds

LEMMA ExecuteInv ==
  ASSUME Inv, NEW p \in Points, Execute(p)
  PROVE  Inv'
<1>1. PICK o \in fnExecute(ram) :
        /\ ram' = o.ram /\ here' = (IF o.err THEN here ELSE p) /\ StepEnds(o.err)
  BY DEF Execute
<1>2. /\ Good(ram) /\ here \in Points /\ job = NoJob /\ Len(ram.chain) < MaxLevels
      /\ ram.count < MaxCount
  BY DEF Inv, Execute, Stepping, Running
<1>3. Executes(ram, o)
  BY <1>2, ExecuteSteps
<1>4. /\ Good(o.ram) /\ o.ram.count <= ram.count + 1 /\ o.err \in BOOLEAN
      /\ Len(o.ram.chain) = IF o.err THEN Len(ram.chain) ELSE Len(ram.chain) + 1
      /\ SameLevels(ram, o.ram, Len(ram.chain))
  BY <1>2, <1>3, ExecuteGood
<1>5. Len(ram.chain) <= Len(ram'.chain) /\ Bounded(ram')
  <2>1. /\ Len(ram.chain) \in Nat /\ ram.count \in Nat /\ o.ram.count \in Nat
        /\ MaxLevels \in Nat /\ MaxCount \in Nat
    BY <1>2, <1>4, TopFacts, RamFields, Bounds DEF Good
  <2>2. \A k, l, m \in Nat : /\ k <= l + 1 /\ l < m => k <= m
                             /\ k <= k /\ k <= k + 1
                             /\ k < m => k <= m /\ k + 1 <= m
    OBVIOUS
  <2>3. o.ram.count <= MaxCount
    BY <1>2, <1>4, <2>1, <2>2
  <2>4. Len(ram.chain) <= Len(o.ram.chain) /\ Len(o.ram.chain) <= MaxLevels
    BY <1>2, <1>4, <2>1, <2>2
  <2> QED BY <1>1, <2>3, <2>4 DEF Bounded
<1>6. /\ RunsTyped(engines', running') /\ JobTyped(job', engines', cut')
      /\ Nested(ram', engines', job', cut')
  BY <1>1, <1>2, <1>4, <1>5, StepEndsKeeps
<1>7. here' \in Points
  BY <1>1, <1>2, <1>4
<1> QED BY <1>1, <1>4, <1>5, <1>6, <1>7 DEF Inv

LEMMA MenuKeyInv ==
  ASSUME Inv, NEW p \in Points, MenuKey(p)
  PROVE  Inv'
<1>1. PICK o \in fnExecute(ram) : ram' = o.ram /\ here' = (IF o.err THEN here ELSE p)
  BY DEF MenuKey
<1>2. /\ Good(ram) /\ here \in Points /\ job = NoJob /\ Len(ram.chain) < MaxLevels
      /\ ram.count < MaxCount
  BY DEF Inv, MenuKey, Idle
<1>3. Executes(ram, o)
  BY <1>2, ExecuteSteps
<1>4. /\ Good(o.ram) /\ o.ram.count <= ram.count + 1 /\ o.err \in BOOLEAN
      /\ Len(o.ram.chain) = IF o.err THEN Len(ram.chain) ELSE Len(ram.chain) + 1
  BY <1>2, <1>3, ExecuteGood
<1>5. Bounded(ram')
  <2>1. /\ Len(ram.chain) \in Nat /\ ram.count \in Nat /\ o.ram.count \in Nat
        /\ MaxLevels \in Nat /\ MaxCount \in Nat
    BY <1>2, <1>4, TopFacts, RamFields, Bounds DEF Good
  <2>2. \A k, l, m \in Nat : /\ k <= l + 1 /\ l < m => k <= m
                             /\ k < m => k <= m /\ k + 1 <= m
    OBVIOUS
  <2> QED BY <1>1, <1>2, <1>4, <2>1, <2>2 DEF Bounded
<1>6. engines' = <<Outermost>> /\ running' = TRUE /\ job' = NoJob /\ cut' = cut
  BY <1>2 DEF MenuKey
<1>7. RunsTyped(engines', running') /\ Nested(ram', engines', job', cut')
  <2>1. Nested(ram', <<Outermost>>, job', 0) /\ RunsTyped(<<Outermost>>, TRUE)
    BY OneEngine
  <2>2. cut' = 0
    BY <1>6, CutNat DEF MenuKey, Idle
  <2> QED BY <1>6, <2>1, <2>2
<1>8. JobTyped(job', engines', cut')
  <2>1. cut' \in 0 .. Len(<<Outermost>>)
    BY <1>6, CutNat DEF MenuKey, Idle
  <2> QED BY <1>6, <2>1, NoJobTyped
<1>9. here' \in Points
  BY <1>1, <1>2, <1>4
<1> QED BY <1>1, <1>4, <1>5, <1>7, <1>8, <1>9 DEF Inv

LEMMA LocRInv ==
  ASSUME Inv, NEW k \in Sizes, LocR(k)
  PROVE  Inv'
<1>1. PICK o \in allocateLocalRegisters(ram, k) : ram' = o.ram /\ StepEnds(o.err)
  BY DEF LocR
<1>2. Good(ram) /\ Bounded(ram) /\ here \in Points /\ here' = here /\ job = NoJob
  BY DEF Inv, LocR, Stepping, Running, Idle
<1>3. Resized(ram, o, k)
  BY <1>2, LocRBecomes
<1>4. PICK fl \in BOOLEAN : \E b, s : TopBecomes(ram, o.ram, b, s, fl)
  <2>1. ram.lev[ram.cur].flagged \in BOOLEAN
    BY <1>2, RamFields DEF Good
  <2>2. PICK f \in BOOLEAN : f = TRUE
    OBVIOUS
  <2>3. \/ \E b, s : TopBecomes(ram, o.ram, b, s, f)
        \/ \E b, s : TopBecomes(ram, o.ram, b, s, ram.lev[ram.cur].flagged)
    BY <1>3, <2>2, Zenon DEF Resized
  <2> QED BY <2>1, <2>3, Zenon
<1>5. /\ Good(o.ram) /\ o.ram.count = ram.count /\ Len(o.ram.chain) = Len(ram.chain)
      /\ \A i \in 1 .. Len(ram.chain) : Lev(o.ram, i).level = Lev(ram, i).level
  <2>1. PICK b, s : TopBecomes(ram, o.ram, b, s, fl)
    BY <1>4
  <2> QED BY <1>2, <2>1, BecomesFacts
<1>6. Len(ram.chain) <= Len(o.ram.chain)
  <2>1. Len(ram.chain) \in Nat
    BY <1>2, TopFacts
  <2> QED BY <1>5, <2>1
<1>7. /\ RunsTyped(engines', running') /\ JobTyped(job', engines', cut')
      /\ Nested(ram', engines', job', cut')
  <2>1. SameLevels(ram, ram', Len(ram.chain))
    BY <1>1, <1>5 DEF SameLevels
  <2> QED BY <1>1, <1>2, <1>5, <1>6, <2>1, StepEndsKeeps
<1>8. Bounded(ram')
  BY <1>1, <1>2, <1>5 DEF Bounded
<1> QED BY <1>1, <1>2, <1>5, <1>7, <1>8 DEF Inv

LEMMA StoreInv ==
  ASSUME Inv, NEW i, NEW v \in Values, StoreLocal(i, v)
  PROVE  Inv'
<1>1. /\ Good(ram) /\ Bounded(ram) /\ here \in Points /\ RunsTyped(engines, running)
      /\ JobTyped(job, engines, cut) /\ Nested(ram, engines, job, cut) /\ cut \in Nat
  BY CutNat DEF Inv
<1>2. /\ here' = here /\ engines' = engines /\ job' = job /\ cut' = cut /\ running' = running
  BY DEF StoreLocal
<1>3. Good(ram') /\ ram'.count = ram.count /\ ram'.chain = ram.chain /\ ram'.lev = ram.lev
  <2>1. /\ ram.regs # NULL /\ i \in 1 .. Len(ram.lev[ram.regs].regs)
        /\ StoresAt(ram, ram', i, v)
    BY DEF StoreLocal, StoresAt
  <2> QED BY <1>1, <2>1, StoreGood
<1>4. Len(ram.chain) <= Len(ram'.chain) /\ SameLevels(ram, ram', Len(ram.chain))
  <2>1. Len(ram.chain) \in Nat
    BY <1>1, TopFacts
  <2> QED BY <1>3, <2>1 DEF SameLevels, Lev
<1>5. Nested(ram', engines, job, cut)
  BY <1>1, <1>3, <1>4, NestedKeeps
<1> QED BY <1>1, <1>2, <1>3, <1>5 DEF Inv, Bounded

LEMMA EndInv ==
  ASSUME Inv, StepFails \/ EndOfStoppedRun
  PROVE  Inv'
<1>1. /\ EndOfRun /\ job = NoJob /\ engines # <<>> /\ ram' = ram /\ here' = here
  BY DEF StepFails, Running, EndOfStoppedRun
<1>2. Good(ram) /\ RunsTyped(engines, running) /\ JobTyped(job, engines, cut)
  BY DEF Inv
<1>3. Len(ram.chain) <= Len(ram'.chain) /\ SameLevels(ram, ram', Len(ram.chain))
  <2>1. Len(ram.chain) \in Nat
    BY <1>2, TopFacts
  <2> QED BY <1>1, <2>1 DEF SameLevels
<1>4. /\ RunsTyped(engines', running') /\ JobTyped(job', engines', cut')
      /\ Nested(ram', engines', job', cut')
  BY <1>1, <1>2, <1>3, EndKeeps
<1> QED BY <1>1, <1>4 DEF Inv

LEMMA KeyInv ==
  ASSUME Inv, RunProgram \/ (\E what \in {"goto", "load"} : StartJob(what)) \/ fnFinish \/ Stop
  PROVE  Inv'
<1>1. /\ Good(ram) /\ Bounded(ram) /\ here \in Points /\ RunsTyped(engines, running)
      /\ JobTyped(job, engines, cut) /\ Nested(ram, engines, job, cut) /\ cut \in Nat
      /\ Len(engines) \in Nat /\ (engines = <<>> => cut = 0)
  BY CutNat DEF Inv
<1>2. CASE RunProgram
  <2>1. /\ engines' = <<Outermost>> /\ running' = TRUE /\ job' = NoJob /\ cut' = 0
        /\ ram' = ram /\ here' = here /\ job = NoJob
    BY <1>1, <1>2 DEF RunProgram, Idle
  <2>2. Nested(ram, <<Outermost>>, NoJob, 0) /\ RunsTyped(<<Outermost>>, TRUE)
    BY OneEngine
  <2>3. 0 \in 0 .. Len(<<Outermost>>)
    OBVIOUS
  <2>4. JobTyped(NoJob, <<Outermost>>, 0)
    BY <2>3, NoJobTyped
  <2> QED BY <1>1, <2>1, <2>2, <2>4 DEF Inv
<1>3. ASSUME NEW what \in {"goto", "load"}, StartJob(what) PROVE Inv'
  <2>1. /\ engines' = engines /\ engines = <<>> /\ running' = running /\ cut' = 0
        /\ cut = 0 /\ ram' = ram /\ here' = here
        /\ job' = [then |-> what, to |-> 0, here |-> here]
    BY <1>1, <1>3 DEF StartJob, Idle
  <2>2. /\ job'.then \in {"goto", "load"} /\ job'.to = 0
        /\ job' \in [then : {"none", "goto", "load", "fnFinish", "execProgram"}, to : Nat,
                     here : Points \cup {NULL}]
    BY <1>1, <2>1
  <2>3. JobTyped(job', engines', cut')
    BY <1>1, <2>1, <2>2 DEF JobTyped
  <2>4. Nested(ram', engines', job', cut')
    BY <2>1, NoEngines
  <2> QED BY <1>1, <2>1, <2>3, <2>4 DEF Inv
<1>4. CASE fnFinish
  <2>1. /\ engines' = engines /\ engines # <<>> /\ running' = running
        /\ cut' = Len(engines) /\ ram' = ram /\ here' = here
        /\ job' = [then |-> "fnFinish", to |-> 0, here |-> here]
    BY <1>4 DEF fnFinish, Stepping, Running
  <2>2. /\ job'.then = "fnFinish" /\ job'.here = here /\ job'.to = 0
        /\ job' \in [then : {"none", "goto", "load", "fnFinish", "execProgram"}, to : Nat,
                     here : Points \cup {NULL}]
    BY <1>1, <2>1
  <2>3. JobTyped(job', engines', cut')
    <3>1. Len(engines) \in 0 .. Len(engines)
      BY <1>1
    <3> QED BY <1>1, <2>1, <2>2, <3>1 DEF JobTyped
  <2>4. Nested(ram', engines', job', cut')
    BY <1>1, <2>1, NoCalls
  <2> QED BY <1>1, <2>1, <2>3, <2>4 DEF Inv
<1>5. CASE Stop
  <2> DEFINE e == Len(engines)
  <2>1. PICK s \in {"next", "calls"} : engines' = [engines EXCEPT ![e].step = s]
    BY <1>5 DEF Stop
  <2>2. /\ running' = FALSE /\ cut' = cut /\ job' = job /\ ram' = ram /\ here' = here
        /\ job = NoJob /\ engines # <<>>
    BY <1>5 DEF Stop, Stepping, Running
  <2>3. e \in 1 .. e /\ engines \in Seq(Engine)
    BY <1>1, <2>2, EnginesTyped DEF RunsTyped
  <2>4. PICK x : x = [engines[e] EXCEPT !.step = s]
    OBVIOUS
  <2>5. /\ x \in Engine /\ x.depth = engines[e].depth /\ x.here = engines[e].here
        /\ x.orig = engines[e].orig /\ x.start = engines[e].start
    <3>1. engines[e] \in Engine
      BY <1>1, <2>3, EnginesTyped
    <3> QED BY <2>4, <3>1 DEF Engine
  <2>6. /\ engines' \in Seq(Engine) /\ Len(engines') = e
        /\ \A k \in 1 .. e : engines'[k] = IF k = e THEN x ELSE engines[k]
    <3>1. engines' = [engines EXCEPT ![e] = x]
      BY <2>1, <2>4
    <3> QED BY <2>3, <2>5, <3>1, ExceptSeq
  <2> HIDE DEF e
  <2>7. SameRuns(engines, engines')
    BY <2>5, <2>6 DEF SameRuns
  <2>8. Len(engines') = Len(engines) /\ Len(engines') <= Len(engines)
    BY <1>1, <2>6 DEF e
  <2>9. RunsTyped(engines', FALSE)
    BY <1>1, <2>7, <2>8, SameRunsTyped
  <2>10. Nested(ram, engines', job, cut)
    BY <1>1, <2>7, <2>8, SameRunsNested
  <2>11. JobTyped(NoJob, engines', cut)
    <3>1. cut \in 0 .. Len(engines')
      BY <2>8, CutNat
    <3> QED BY <3>1, NoJobTyped
  <2> QED BY <1>1, <2>2, <2>9, <2>10, <2>11 DEF Inv
<1> QED BY <1>2, <1>3, <1>4, <1>5

LEMMA CleanGood ==
  ASSUME NEW r, Good(r), NEW q, q = cleanLocalFlagsAndRegisters(r)
  PROVE  /\ Good(q) /\ q.count = r.count /\ Len(q.chain) = Len(r.chain)
         /\ Len(r.chain) <= Len(q.chain) /\ SameLevels(r, q, Len(r.chain))
<1> DEFINE n == Len(r.chain)
           fl == r.lev[r.cur].flagged
<1>1. n \in Nat \ {0} /\ r.cur \in Addr
  BY TopFacts
<1>2. fl \in BOOLEAN
  BY <1>1, RamFields DEF Good
<1>3. PICK w : TopBecomes(r, w, r.cur, <<>>, fl) /\ TopBecomes(w, q, r.cur, <<>>, FALSE)
  BY CleanStays
<1>4. PICK a : a = r.cur
  OBVIOUS
<1>5. PICK f \in BOOLEAN : f = FALSE
  OBVIOUS
<1>6. TopBecomes(r, w, a, <<>>, fl) /\ TopBecomes(w, q, a, <<>>, f)
  BY <1>3, <1>4, <1>5
<1> HIDE DEF fl, n
<1>7. /\ Good(w) /\ w.count = r.count /\ Len(w.chain) = n
      /\ \A i \in 1 .. n : Lev(w, i).level = Lev(r, i).level
  BY <1>2, <1>6, BecomesFacts DEF n
<1>8. /\ Good(q) /\ q.count = w.count /\ Len(q.chain) = n
      /\ \A i \in 1 .. n : Lev(q, i).level = Lev(w, i).level
  BY <1>6, <1>7, BecomesFacts
<1>9. n <= n
  BY <1>1
<1> QED BY <1>7, <1>8, <1>9 DEF SameLevels, n

LEMMA AppendedTyped ==
  ASSUME NEW es, NEW run, RunsTyped(es, run), Len(es) < MaxEngines, NEW x \in Engine,
         IF es = <<>> THEN x.depth = 0 ELSE x.depth > 0 => x.here \in Points,
         NEW fs \in Seq(Engine), Len(fs) = Len(es) + 1, fs[Len(es) + 1] = x,
         \A k \in 1 .. Len(es) : fs[k] = es[k]
  PROVE  RunsTyped(fs, TRUE)
<1> DEFINE e == Len(es)
<1>1. e \in Nat /\ (es # <<>> <=> e > 0) /\ MaxEngines \in Nat
  BY EnginesTyped, Bounds
<1>2. /\ e + 1 <= MaxEngines /\ \A k \in 1 .. e + 1 : k = e + 1 \/ k \in 1 .. e
      /\ e > 0 => 1 \in 1 .. e
      /\ e = 0 \/ e > 0
      /\ e = 0 => 1 = e + 1
  BY <1>1
<1>3. fs # <<>>
  <2>1. Len(fs) # 0 /\ Len(<<>>) = 0
    BY <1>1
  <2> QED BY <2>1
<1> HIDE DEF e
<1>4. fs[1].depth = 0
  <2>1. CASE e > 0
    BY <1>1, <1>2, <2>1 DEF RunsTyped, e
  <2>2. CASE e = 0
    <3>1. es = <<>> /\ x.depth = 0
      BY <1>1, <2>2
    <3> QED BY <1>2, <2>2, <3>1 DEF e
  <2> QED BY <1>2, <2>1, <2>2
<1>5. ASSUME NEW k \in 1 .. e + 1, fs[k].depth > 0 PROVE fs[k].here \in Points
  <2>1. CASE k = e + 1
    <3>1. fs[k] = x
      BY <2>1 DEF e
    <3>2. CASE es = <<>>
      BY <1>5, <3>1, <3>2
    <3>3. CASE es # <<>>
      BY <1>5, <3>1, <3>3
    <3> QED BY <3>2, <3>3
  <2>2. CASE k \in 1 .. e
    BY <1>5, <2>2 DEF RunsTyped, e
  <2> QED BY <1>2, <2>1, <2>2
<1> QED BY <1>2, <1>3, <1>4, <1>5 DEF RunsTyped, e

LEMMA execProgramInv ==
  ASSUME Inv, NEW p \in Points, execProgram(p)
  PROVE  Inv'
<1> DEFINE n == Len(ram.chain)
           e == Len(engines)
<1>1. PICK o \in fnExecute(ram) :
        /\ ram' = o.ram /\ here' = (IF o.err THEN here ELSE p)
        /\ engines' = Append(engines,
                        [start |-> curLevel(o.ram), orig |-> curLevel(ram),
                         depth |-> Len(ram.chain), here |-> here,
                         step |-> IF o.err THEN "redo" ELSE "next"])
        /\ cut' = IF o.err THEN Len(engines) + 1 ELSE cut
  BY DEF execProgram
<1>2. /\ Good(ram) /\ here \in Points /\ job = NoJob /\ n < MaxLevels
      /\ ram.count < MaxCount /\ e < MaxEngines /\ engines # <<>> /\ running = TRUE
      /\ running' = running /\ job' = job /\ RunsTyped(engines, running)
      /\ JobTyped(job, engines, cut) /\ Nested(ram, engines, job, cut)
      /\ cut \in Nat /\ e \in Nat /\ cut \in 0 .. e
  BY CutNat DEF Inv, execProgram, Running, RunsTyped
<1>3. Executes(ram, o)
  BY <1>2, ExecuteSteps
<1>4. /\ Good(o.ram) /\ o.ram.count <= ram.count + 1 /\ o.err \in BOOLEAN
      /\ Len(o.ram.chain) = IF o.err THEN n ELSE n + 1
      /\ SameLevels(ram, o.ram, n)
  BY <1>2, <1>3, ExecuteGood
<1>5. /\ n \in Nat \ {0} /\ ram.count \in Nat /\ o.ram.count \in Nat
      /\ MaxLevels \in Nat /\ MaxCount \in Nat /\ MaxEngines \in Nat
      /\ curLevel(ram) \in Nat /\ curLevel(ram) = Lev(ram, n).level
      /\ curLevel(o.ram) \in Nat /\ curLevel(o.ram) = Lev(o.ram, Len(o.ram.chain)).level
  BY <1>2, <1>4, TopFacts, RamFields, Bounds DEF Good
<1>6. Bounded(ram')
  <2>1. \A k, l, m \in Nat : /\ k <= l + 1 /\ l < m => k <= m
                             /\ k < m => k <= m /\ k + 1 <= m
    OBVIOUS
  <2> QED BY <1>1, <1>2, <1>4, <1>5, <2>1 DEF Bounded
<1>7. PICK x : x = [start |-> curLevel(o.ram), orig |-> curLevel(ram),
                    depth |-> n, here |-> here, step |-> IF o.err THEN "redo" ELSE "next"]
  OBVIOUS
<1>8. /\ x \in Engine /\ x.depth = n /\ x.here = here /\ x.orig = curLevel(ram)
      /\ x.start = curLevel(o.ram)
  BY <1>2, <1>4, <1>5, <1>7 DEF Engine
<1>9. engines \in Seq(Engine) /\ engines' = Append(engines, x)
  BY <1>1, <1>2, <1>7 DEF RunsTyped
<1>10. \A k \in 1 .. e : engines[k].depth \in Nat
  BY <1>2, EnginesTyped
<1> HIDE DEF n, e
<1>11. /\ engines' \in Seq(Engine) /\ Len(engines') = e + 1 /\ engines'[e + 1] = x
       /\ \A k \in 1 .. e : engines'[k] = engines[k]
  BY <1>8, <1>9, AppendProperties DEF e
<1>12. RunsTyped(engines', running')
  BY <1>2, <1>5, <1>8, <1>11, AppendedTyped DEF e
<1>13. JobTyped(job', engines', cut')
  <2>1. cut' \in 0 .. Len(engines')
    BY <1>1, <1>2, <1>4, <1>11 DEF e
  <2> QED BY <1>2, <2>1, NoJobTyped
<1>14. Nested(ram', engines', job', cut')
  <2>1. CASE o.err
    <3>1. cut' = e + 1 /\ e + 1 \in Nat
      BY <1>1, <1>2, <2>1 DEF e
    <3> QED BY <1>11, <3>1, NoCalls
  <2>2. CASE ~ o.err
    <3>1. cut' = cut /\ Len(o.ram.chain) = n + 1 /\ job.then = "none"
      BY <1>1, <1>2, <1>4, <2>2 DEF NoJob
    <3>2. ASSUME NEW k \in cut + 1 .. e, engines[k].depth > 0
          PROVE  /\ engines[k].depth \in 1 .. n /\ engines[k].depth < n
                 /\ Lev(ram, engines[k].depth).level = engines[k].orig
                 /\ Lev(ram, engines[k].depth + 1).level = engines[k].start
                 /\ \A i \in cut + 1 .. k - 1 : engines[i].depth < engines[k].depth
      <4>1. k \in 1 .. e /\ engines[k].depth \in Nat
        BY <1>2, <1>10
      <4>2. /\ engines[k].depth <= n /\ engines[k].depth < n
            /\ Lev(ram, engines[k].depth).level = engines[k].orig
            /\ Lev(ram, engines[k].depth + 1).level = engines[k].start
            /\ \A i \in cut + 1 .. k - 1 : engines[i].depth < engines[k].depth
        BY <1>2, <3>1, <3>2 DEF Nested, e, n
      <4> QED BY <1>5, <3>2, <4>1, <4>2
    <3>3. ASSUME NEW k \in 1 .. e, k \in cut + 1 .. e PROVE engines[k].depth < n
      <4>1. engines[k].depth \in Nat
        BY <1>10
      <4>2. CASE engines[k].depth > 0
        BY <3>2, <3>3, <4>2
      <4>3. CASE engines[k].depth = 0
        BY <1>5, <4>3
      <4> QED BY <4>1, <4>2, <4>3
    <3>4. ASSUME NEW k \in cut + 1 .. e + 1, engines'[k].depth > 0
          PROVE  /\ engines'[k].depth <= n + 1
                 /\ Lev(o.ram, engines'[k].depth).level = engines'[k].orig
                 /\ engines'[k].depth < n + 1
                 /\ Lev(o.ram, engines'[k].depth + 1).level = engines'[k].start
                 /\ \A i \in cut + 1 .. k - 1 : engines'[i].depth < engines'[k].depth
      <4>1. CASE k = e + 1
        <5>1. engines'[k] = x
          BY <1>11, <4>1
        <5>2. \A i \in cut + 1 .. k - 1 : i \in 1 .. e /\ i \in cut + 1 .. e
          BY <1>2, <4>1
        <5>3. n \in 1 .. n /\ n <= n + 1 /\ n < n + 1
          BY <1>5
        <5>4. Lev(o.ram, n).level = curLevel(ram)
          BY <1>4, <1>5, <5>3 DEF SameLevels
        <5>5. Lev(o.ram, n + 1).level = curLevel(o.ram)
          BY <1>5, <3>1
        <5>6. \A i \in cut + 1 .. k - 1 : engines'[i].depth < n
          BY <1>11, <3>3, <5>2
        <5> QED BY <1>8, <5>1, <5>3, <5>4, <5>5, <5>6
      <4>2. CASE k # e + 1
        <5>1. /\ k \in cut + 1 .. e /\ k \in 1 .. e
              /\ \A i \in cut + 1 .. k - 1 : i \in 1 .. e
          BY <1>2, <4>2
        <5>2. engines'[k] = engines[k] /\ engines[k].depth > 0
          BY <1>11, <3>4, <5>1
        <5>3. PICK d \in 1 .. n : d = engines[k].depth /\ d < n
          BY <3>2, <5>1, <5>2
        <5>4. /\ Lev(ram, d).level = engines[k].orig /\ Lev(ram, d + 1).level = engines[k].start
              /\ \A i \in cut + 1 .. k - 1 : engines[i].depth < d
          BY <3>2, <5>1, <5>2, <5>3
        <5>5. d + 1 \in 1 .. n /\ d < n + 1 /\ d <= n + 1
          BY <1>5, <5>3
        <5>6. Lev(o.ram, d).level = engines[k].orig /\ Lev(o.ram, d + 1).level = engines[k].start
          BY <1>4, <5>3, <5>4, <5>5 DEF SameLevels
        <5>7. \A i \in cut + 1 .. k - 1 : engines'[i].depth < d
          BY <1>11, <5>1, <5>4
        <5> QED BY <5>2, <5>3, <5>5, <5>6, <5>7
      <4> QED BY <4>1, <4>2
    <3>5. ASSUME NEW k \in cut + 2 .. e + 1 PROVE engines'[k].depth > 0
      <4>1. CASE k = e + 1
        BY <1>5, <1>8, <1>11, <4>1
      <4>2. CASE k # e + 1
        <5>1. k \in cut + 2 .. e /\ k \in 1 .. e
          BY <1>2, <4>2
        <5> QED BY <1>2, <1>11, <5>1 DEF Nested, e
      <4> QED BY <4>1, <4>2
    <3> QED BY <1>1, <1>11, <3>1, <3>4, <3>5 DEF Nested
  <2> QED BY <1>4, <2>1, <2>2
<1>15. here' \in Points
  BY <1>1, <1>2, <1>4
<1> QED BY <1>1, <1>4, <1>6, <1>12, <1>13, <1>14, <1>15 DEF Inv

LEMMA execProgramStoppedInv ==
  ASSUME Inv, NEW p \in Points, execProgramStopped(p)
  PROVE  Inv'
<1> DEFINE e == Len(engines)
<1>1. /\ Good(ram) /\ Bounded(ram) /\ RunsTyped(engines, running) /\ job = NoJob
      /\ JobTyped(job, engines, cut) /\ Nested(ram, engines, job, cut) /\ e \in Nat
      /\ e < MaxEngines /\ ram' = ram /\ here' = p /\ job' = NoJob
  BY CutNat DEF Inv, execProgramStopped
<1>2. CASE UNCHANGED <<engines, running, cut>>
  BY <1>1, <1>2 DEF Inv
<1>3. CASE /\ engines' = Append(engines, Outermost) /\ running' = TRUE
           /\ cut' = Len(engines)
  <2>1. Outermost \in Engine /\ Outermost.depth = 0
    BY DEF Outermost, Engine
  <2>2. engines \in Seq(Engine)
    BY <1>1 DEF RunsTyped
  <2> HIDE DEF e
  <2>3. /\ engines' \in Seq(Engine) /\ Len(engines') = e + 1 /\ engines'[e + 1] = Outermost
        /\ \A k \in 1 .. e : engines'[k] = engines[k]
    BY <1>3, <2>1, <2>2, AppendProperties DEF e
  <2>4. RunsTyped(engines', running')
    <3>1. ~ (Outermost.depth > 0)
      BY <2>1
    <3>2. RunsTyped(engines', TRUE)
      BY <1>1, <2>1, <2>3, <3>1, AppendedTyped DEF e
    <3> QED BY <1>3, <3>2
  <2>5. JobTyped(job', engines', cut')
    <3>1. cut' \in 0 .. Len(engines')
      BY <1>1, <1>3, <2>3 DEF e
    <3> QED BY <1>1, <3>1, NoJobTyped
  <2>6. Nested(ram', engines', job', cut')
    <3>1. /\ \A k \in e + 1 .. e + 1 : k = e + 1
          /\ \A k \in e + 2 .. e + 1 : FALSE
          /\ ~ (0 > 0)
      BY <1>1
    <3>2. cut' = e
      BY <1>3 DEF e
    <3> QED BY <2>1, <2>3, <3>1, <3>2 DEF Nested
  <2> QED BY <1>1, <2>4, <2>5, <2>6 DEF Inv
<1> QED BY <1>2, <1>3 DEF execProgramStopped

(* A return to a level above the one that called the innermost engine, or  *)
(* to that level where the engine ends.                                    *)
LEMMA ReturnNested ==
  ASSUME NEW r, NEW q, NEW es, NEW run, NEW j, NEW l, NEW c \in Nat, Good(r), Returns(r, q),
         RunsTyped(es, run), Nested(r, es, j, c),
         j.then = "execProgram" => l.then = "execProgram",
         c < Len(es) /\ es[Len(es)].depth > 0 =>
           /\ es[Len(es)].depth < Len(r.chain)
           /\ es[Len(es)].depth + 1 = Len(r.chain) => l.then = "execProgram"
  PROVE  Nested(q, es, l, c)
<1> DEFINE n == Len(r.chain)
           m == Len(q.chain)
           e == Len(es)
<1>1. /\ Good(q) /\ m = (IF n > 1 THEN n - 1 ELSE n) /\ SameLevels(r, q, m)
  BY ReturnGood
<1>2. n \in Nat \ {0} /\ m \in Nat /\ e \in Nat
  BY <1>1, TopFacts, EnginesTyped
<1>3. Room(es, l, c, m)
  <2> SUFFICES ASSUME NEW k \in c + 1 .. e, es[k].depth > 0
               PROVE  /\ es[k].depth <= m
                      /\ es[k].depth < m \/ (k = e /\ l.then = "execProgram")
    BY DEF Room
  <2>1. /\ k \in 1 .. e /\ e \in 1 .. e /\ c < e /\ (k = e \/ k < e)
        /\ k < e => e \in c + 2 .. e /\ k \in c + 1 .. e - 1
        /\ e \in c + 1 .. e
    BY <1>2
  <2>2. PICK d \in Nat : d = es[k].depth
    BY <2>1, EnginesTyped
  <2>3. PICK f \in Nat : f = es[e].depth
    BY <2>1, EnginesTyped
  <2>4. f > 0 /\ (k < e => d < f)
    <3>1. CASE k = e
      BY <2>1, <2>2, <2>3, <3>1
    <3>2. CASE k < e
      <4>1. es[e].depth > 0
        BY <2>1, <3>2 DEF Nested
      <4>2. es[k].depth < es[e].depth
        BY <2>1, <3>2, <4>1 DEF Nested
      <4> QED BY <2>2, <2>3, <4>1, <4>2
    <3> QED BY <2>1, <3>1, <3>2
  <2>5. f < n /\ (f + 1 = n => l.then = "execProgram")
    BY <2>1, <2>3, <2>4
  <2>6. f <= m /\ (f < m \/ f + 1 = n)
    BY <1>1, <1>2, <2>4, <2>5
  <2>7. CASE k = e
    BY <2>3, <2>5, <2>6, <2>7
  <2>8. CASE k < e
    BY <1>2, <2>2, <2>4, <2>6, <2>8
  <2> QED BY <2>1, <2>7, <2>8
<1>4. m <= m
  BY <1>2
<1> QED BY <1>1, <1>2, <1>3, <1>4, NestedRoom

LEMMA ReturnBounded ==
  ASSUME NEW r, Good(r), Bounded(r), NEW q, Returns(r, q)
  PROVE  Bounded(q)
<1>1. /\ Good(q) /\ q.count <= r.count
      /\ Len(q.chain) = IF Len(r.chain) > 1 THEN Len(r.chain) - 1 ELSE Len(r.chain)
  BY ReturnGood
<1>2. /\ Len(r.chain) \in Nat \ {0} /\ Len(q.chain) \in Nat \ {0}
      /\ r.count \in Nat /\ q.count \in Nat /\ MaxCount \in Nat /\ MaxLevels \in Nat
  BY <1>1, TopFacts, RamFields, Bounds DEF Good
<1>3. \A k, l, m \in Nat : /\ k <= l /\ l <= m => k <= m
                           /\ k = (IF l > 1 THEN l - 1 ELSE l) => k <= l
  OBVIOUS
<1>4. Len(q.chain) <= Len(r.chain)
  BY <1>1, <1>2, <1>3
<1> QED BY <1>1, <1>2, <1>3, <1>4 DEF Bounded

LEMMA RtnInv ==
  ASSUME Inv, Rtn
  PROVE  Inv'
<1> DEFINE n == Len(ram.chain)
           e == Len(engines)
<1>1. /\ Good(ram) /\ Bounded(ram) /\ here \in Points /\ RunsTyped(engines, running)
      /\ JobTyped(job, engines, cut) /\ Nested(ram, engines, job, cut) /\ cut \in Nat
      /\ e \in Nat /\ engines # <<>> /\ job = NoJob /\ job.then = "none"
      /\ ram' = fnReturn(ram) /\ here' = ReturnPoint(ram)
  BY CutNat DEF Inv, Rtn, Stepping, Running, NoJob
<1>2. Returns(ram, ram') /\ here' \in Points
  BY <1>1, ReturnSteps, PointReturned
<1>3. Good(ram') /\ Bounded(ram')
  BY <1>1, <1>2, ReturnGood, ReturnBounded
<1>4. n \in Nat \ {0} /\ curLevel(ram) = Lev(ram, n).level
  BY <1>1, TopFacts
<1>5. cut < e /\ engines[e].depth > 0 => /\ engines[e].depth < n
                                        /\ Lev(ram, engines[e].depth + 1).level = engines[e].start
  <2>1. cut < e => e \in cut + 1 .. e
    BY <1>1
  <2> QED BY <1>1, <2>1 DEF Nested
<1>6. CASE EndOfRun
  <2>1. CASE engine.depth = 0
    BY <1>1, <1>2, <1>3, <1>6, <2>1, EndOfOutermost DEF Inv
  <2>2. CASE engine.depth # 0
    <3>1. /\ RunsTyped(engines', running') /\ JobTyped(job', engines', cut')
          /\ engines' = engines /\ cut' = cut /\ job'.then = "execProgram"
      BY <1>1, <1>6, <2>2, EndOfCalled
    <3>2. Nested(ram', engines, job', cut)
      BY <1>1, <1>2, <1>5, <3>1, ReturnNested
    <3> QED BY <1>2, <1>3, <3>1, <3>2 DEF Inv
  <2> QED BY <2>1, <2>2
<1>7. CASE curLevel(ram) # engine.start /\ UNCHANGED <<engines, running, job, cut>>
  <2>1. engines' = engines /\ running' = running /\ job' = job /\ cut' = cut
    BY <1>7
  <2>2. cut < e /\ engines[e].depth > 0 => engines[e].depth + 1 # n
    BY <1>4, <1>5, <1>7 DEF engine
  <2>3. Nested(ram', engines, job, cut)
    BY <1>1, <1>2, <1>5, <2>2, ReturnNested
  <2> QED BY <1>1, <1>2, <1>3, <2>1, <2>3 DEF Inv
<1> QED BY <1>6, <1>7 DEF Rtn

LEMMA RtnByHandInv ==
  ASSUME Inv, RtnByHand
  PROVE  Inv'
<1>1. /\ Good(ram) /\ Bounded(ram) /\ here \in Points /\ RunsTyped(engines, running)
      /\ JobTyped(job, engines, cut) /\ engines = <<>>
      /\ ram' = fnReturn(ram) /\ here' = ReturnPoint(ram)
      /\ engines' = engines /\ running' = running /\ job' = job /\ cut' = cut
  BY DEF Inv, RtnByHand, Idle
<1>2. Returns(ram, ram') /\ here' \in Points
  BY <1>1, ReturnSteps, PointReturned
<1>3. Good(ram') /\ Bounded(ram')
  BY <1>1, <1>2, ReturnGood, ReturnBounded
<1>4. Nested(ram', engines', job', cut')
  <2>1. cut = 0
    BY <1>1, CutNat
  <2> QED BY <1>1, <2>1, NoEngines
<1> QED BY <1>1, <1>2, <1>3, <1>4 DEF Inv

LEMMA UnwindInv ==
  ASSUME Inv, Unwind
  PROVE  Inv'
<1> DEFINE n == Len(ram.chain)
           e == Len(engines)
<1>1. /\ Good(ram) /\ Bounded(ram) /\ here \in Points /\ RunsTyped(engines, running)
      /\ JobTyped(job, engines, cut) /\ Nested(ram, engines, job, cut) /\ cut \in Nat
      /\ e \in Nat /\ job # NoJob /\ curLevel(ram) > job.to
      /\ ram' = fnReturn(ram) /\ here' = ReturnPoint(ram)
      /\ engines' = engines /\ running' = running /\ job' = job /\ cut' = cut
  BY CutNat DEF Inv, Unwind
<1>2. Returns(ram, ram') /\ here' \in Points
  BY <1>1, ReturnSteps, PointReturned
<1>3. Good(ram') /\ Bounded(ram')
  BY <1>1, <1>2, ReturnGood, ReturnBounded
<1>4. Nested(ram', engines, job, cut)
  <2>1. CASE job.then \in {"goto", "load"}
    <3>1. engines = <<>> /\ cut = 0
      BY <1>1, <2>1, CutNat DEF JobTyped
    <3> QED BY <3>1, NoEngines
  <2>2. CASE job.then = "fnFinish"
    BY <1>1, <2>2, NoCalls DEF JobTyped
  <2>3. CASE job.then = "execProgram"
    <3>1. job.to = engines[e].orig /\ engines # <<>>
      BY <1>1, <2>3 DEF JobTyped
    <3>2. e \in 1 .. e /\ (cut < e => e \in cut + 1 .. e)
      BY <1>1, <3>1, EnginesTyped
    <3>3. /\ n \in Nat \ {0} /\ curLevel(ram) = Lev(ram, n).level /\ curLevel(ram) \in Nat
      BY <1>1, TopFacts
    <3>4. ASSUME cut < e, engines[e].depth > 0 PROVE engines[e].depth < n
      <4>1. /\ engines[e].depth <= n /\ Lev(ram, engines[e].depth).level = engines[e].orig
            /\ engines[e].depth \in Nat
        BY <1>1, <3>2, <3>4, EnginesTyped DEF Nested
      <4>2. engines[e].depth # n
        <5>1. SUFFICES ASSUME engines[e].depth = n PROVE FALSE
          OBVIOUS
        <5>2. curLevel(ram) = job.to
          BY <3>1, <3>3, <4>1, <5>1
        <5>3. \A k \in Nat : ~ (k > k)
          OBVIOUS
        <5> QED BY <1>1, <3>3, <5>2, <5>3
      <4> QED BY <3>3, <4>1, <4>2
    <3> QED BY <1>1, <1>2, <2>3, <3>4, ReturnNested
  <2> QED BY <1>1, <2>1, <2>2, <2>3 DEF JobTyped
<1> QED BY <1>1, <1>2, <1>3, <1>4 DEF Inv

LEMMA GoOnInv ==
  ASSUME Inv, NEW p \in Points, GoOn(p)
  PROVE  Inv'
<1>1. /\ Good(ram) /\ Bounded(ram) /\ RunsTyped(engines, running) /\ engines = <<>>
      /\ ram' = cleanLocalFlagsAndRegisters(ram) /\ here' = p /\ job' = NoJob /\ cut' = cut
  BY DEF Inv, JobTyped, GoOn, JobDone
<1>2. Good(ram') /\ ram'.count = ram.count /\ Len(ram'.chain) = Len(ram.chain)
  BY <1>1, CleanGood
<1>3. cut' = 0 /\ 0 \in 0 .. Len(<<>>) /\ 0 \in 0 .. Len(<<Outermost>>)
  BY <1>1, CutNat
<1>4. /\ RunsTyped(engines', running') /\ Nested(ram', engines', job', cut')
      /\ JobTyped(job', engines', cut')
  <2>1. CASE running' = TRUE /\ engines' = <<Outermost>>
    <3>1. JobTyped(NoJob, <<Outermost>>, 0)
      BY <1>3, NoJobTyped
    <3>2. Nested(ram', <<Outermost>>, NoJob, 0) /\ RunsTyped(<<Outermost>>, TRUE)
      BY OneEngine
    <3> QED BY <1>1, <1>3, <2>1, <3>1, <3>2
  <2>2. CASE UNCHANGED <<running, engines>>
    <3>1. JobTyped(NoJob, <<>>, 0)
      BY <1>3, NoJobTyped
    <3>2. Nested(ram', <<>>, NoJob, 0)
      BY NoEngines
    <3> QED BY <1>1, <1>3, <2>2, <3>1, <3>2
  <2> QED BY <2>1, <2>2 DEF GoOn
<1> QED BY <1>1, <1>2, <1>4 DEF Inv, Bounded

LEMMA LoadedInv ==
  ASSUME Inv, Loaded
  PROVE  Inv'
<1>1. /\ engines = <<>> /\ cut = 0
      /\ ram' = ram /\ here' = here /\ job' = NoJob /\ cut' = cut
      /\ running' = running /\ engines' = engines
  BY CutNat DEF Inv, JobTyped, Loaded, JobDone
<1>2. Nested(ram', engines', job', cut') /\ JobTyped(job', engines', cut')
  <2>1. 0 \in 0 .. Len(<<>>)
    OBVIOUS
  <2> QED BY <1>1, <2>1, NoEngines, NoJobTyped
<1> QED BY <1>1, <1>2 DEF Inv

LEMMA FinishedInv ==
  ASSUME Inv, Finished
  PROVE  Inv'
<1>1. /\ Good(ram) /\ Bounded(ram) /\ RunsTyped(engines, running)
      /\ cut = Len(engines) /\ cut \in Nat /\ job.here \in Points
      /\ ram' = cleanLocalFlagsAndRegisters(ram) /\ here' = job.here /\ job' = NoJob
      /\ cut' = cut /\ running' = FALSE /\ engines' = engines
  BY CutNat DEF Inv, JobTyped, Finished, JobDone
<1>2. Good(ram') /\ ram'.count = ram.count /\ Len(ram'.chain) = Len(ram.chain)
  BY <1>1, CleanGood
<1>3. Nested(ram', engines', job', cut') /\ JobTyped(job', engines', cut')
  <2>1. cut \in 0 .. Len(engines)
    BY <1>1
  <2> QED BY <1>1, <2>1, NoJobTyped, NoCalls
<1>4. RunsTyped(engines', running')
  BY <1>1 DEF RunsTyped
<1> QED BY <1>1, <1>2, <1>3, <1>4 DEF Inv, Bounded

LEMMA ReturnedInv ==
  ASSUME Inv, Returned
  PROVE  Inv'
<1> DEFINE e == Len(engines)
<1>1. /\ Good(ram) /\ Bounded(ram) /\ RunsTyped(engines, running) /\ cut \in Nat
      /\ cut \in 0 .. e /\ e \in Nat /\ engines # <<>>
      /\ JobTyped(job, engines, cut) /\ Nested(ram, engines, job, cut)
      /\ job.then = "execProgram" /\ ram' = ram /\ here' = job.here /\ job' = NoJob
      /\ running' = running /\ cut' = IF cut < e THEN cut ELSE e - 1
  BY CutNat DEF Inv, JobTyped, Returned, JobDone
<1>2. PICK s \in {"next", "redo", "calls"} : engines' = CallersAt(s)
  BY DEF Returned
<1>3. e > 0 /\ engines[e].depth > 0 /\ job.here = engines[e].here /\ e \in 1 .. e
  BY <1>1, EnginesTyped DEF JobTyped
<1>4. SameRuns(engines, engines') /\ Len(engines') = e - 1 /\ e - 1 \in Nat
  BY <1>1, <1>2, <1>3, CallersTyped
<1>5. e > 1
  <2>1. CASE e = 1
    <3>1. engines[1].depth = 0 /\ ~ (0 > 0)
      BY <1>1 DEF RunsTyped
    <3> QED BY <1>3, <2>1, <3>1
  <2>2. \A k \in Nat : k > 0 /\ k # 1 => k > 1
    OBVIOUS
  <2> HIDE DEF e
  <2> QED BY <1>1, <1>3, <2>1, <2>2
<1>6. Len(engines') > 0 /\ Len(engines') <= e /\ Len(engines') # e
  BY <1>1, <1>4, <1>5
<1>7. RunsTyped(engines', running)
  BY <1>1, <1>4, <1>6, SameRunsTyped DEF RunsTyped
<1>8. cut' \in 0 .. Len(engines') /\ cut' \in Nat
  BY <1>1, <1>4, <1>6
<1>9. JobTyped(NoJob, engines', cut')
  BY <1>8, NoJobTyped
<1>10. Nested(ram, engines', NoJob, cut')
  <2>1. CASE cut < e
    <3>1. Nested(ram, engines', NoJob, cut)
      BY <1>1, <1>4, <1>6, SameRunsNested
    <3> QED BY <1>1, <2>1, <3>1
  <2>2. CASE ~ (cut < e)
    <3>1. cut' = Len(engines')
      BY <1>1, <1>4, <2>2
    <3> QED BY <1>8, <3>1, NoCalls
  <2> QED BY <2>1, <2>2
<1>11. here' \in Points
  BY <1>1, <1>3 DEF RunsTyped
<1> QED BY <1>1, <1>7, <1>9, <1>10, <1>11 DEF Inv

LEMMA InitInv ==
  ASSUME Init
  PROVE  Inv
<1>1. Good(ram) /\ Len(ram.chain) = 1 /\ ram.count = 1
  <2>1. PICK p \in Places({}, 1) :
          ram = [size |-> [b \in Addr |-> IF b = p[1] THEN headerOnlyBlocks ELSE 0],
              lev |-> [b \in Addr |-> Blank], val |-> [b \in Addr |-> Zero],
              cur |-> p[1], flags |-> NULL, regs |-> NULL, level0 |-> p[1], count |-> 1,
              misuse |-> FALSE, chain |-> p, lost |-> {}]
    BY DEF Init
  <2> QED BY <2>1, StartGood
<1>2. /\ here \in Points /\ running = FALSE /\ engines = <<>> /\ job = NoJob /\ cut = 0
  BY DEF Init
<1>3. JobTyped(job, engines, cut) /\ Nested(ram, engines, job, cut)
  <2>1. 0 \in 0 .. Len(<<>>)
    OBVIOUS
  <2> QED BY <1>2, <2>1, NoJobTyped, NoEngines
<1>4. RunsTyped(engines, running)
  <2>1. <<>> \in Seq(Engine) /\ Len(<<>>) = 0 /\ (\A k \in 1 .. 0 : FALSE) /\ 0 <= MaxEngines
    BY Bounds
  <2> QED BY <1>2, <2>1 DEF RunsTyped
<1> QED BY <1>1, <1>2, <1>3, <1>4, Bounds DEF Inv, Bounded

LEMMA NextInv ==
  ASSUME Inv, [Next]_vars
  PROVE  Inv'
<1>1. ASSUME NEW p \in Points,
             Execute(p) \/ execProgram(p) \/ execProgramStopped(p) \/ MenuKey(p)
      PROVE  Inv'
  BY <1>1, ExecuteInv, execProgramInv, execProgramStoppedInv, MenuKeyInv
<1>2. CASE Rtn \/ RtnByHand
  BY <1>2, RtnInv, RtnByHandInv
<1>3. CASE StepFails \/ EndOfStoppedRun
  BY <1>3, EndInv
<1>4. CASE Stop \/ RunProgram \/ fnFinish \/ \E what \in {"goto", "load"} : StartJob(what)
  BY <1>4, KeyInv
<1>5. ASSUME NEW k \in Sizes, LocR(k) PROVE Inv'
  BY <1>5, LocRInv
<1>6. ASSUME NEW i \in DOMAIN curRegs(ram), NEW v \in Values, StoreLocal(i, v) PROVE Inv'
  BY <1>6, StoreInv
<1>7. CASE UnwindStep
  <2>1. ASSUME NEW p \in Points, GoOn(p) PROVE Inv'
    BY <2>1, GoOnInv
  <2> QED BY <1>7, <2>1, UnwindInv, LoadedInv, FinishedInv, ReturnedInv DEF UnwindStep
<1>8. CASE UNCHANGED vars
  BY <1>8 DEF vars, Inv, Bounded
<1> QED BY <1>1, <1>2, <1>3, <1>4, <1>5, <1>6, <1>7, <1>8 DEF Next

(***************************************************************************)
(* The inductive invariant: the blocks of the levels and of their          *)
(* registers and the links between them are what they should be, and the   *)
(* engines that execProgram has started stand on levels that are there,    *)
(* each above the one that called it - all of them, or, below a run that   *)
(* may take its callers' levels away (FINISH, a level that found no        *)
(* memory, a run started anew after a STOP), those inside of that run.     *)
(***************************************************************************)
THEOREM LevelsInvariant == Spec => []Inv
<1>1. Init => Inv
  BY InitInv
<1>2. Inv /\ [Next]_vars => Inv'
  BY NextInv
<1> QED BY <1>1, <1>2, PTL DEF Spec

---------------------------------------------------------------------------
(* What the invariant says.                                                *)

LEMMA SmallSizes ==
  \A k \in Nat : k <= 99 => 4 + k \in 0 .. 4 + 99 /\ 3 \in 0 .. 4 + 99
OBVIOUS

LEMMA SizeBounded ==
  ASSUME NEW r, Good(r)
  PROVE  \A a \in Addr : r.size[a] \in 0 .. 4 + 99
<1>1. r \in Ram /\ Sized(r) /\ NothingElse(r)
  BY DEF Good
<1>2. \A a \in Addr : r.size[a] \in Nat
  BY <1>1, RamFields
<1> SUFFICES ASSUME NEW a \in Addr, r.size[a] > 0 PROVE r.size[a] \in 0 .. 4 + 99
  BY <1>2
<1>3. CASE IsLevel(r, a)
  <2>1. PICK i \in 1 .. Len(r.chain) : a = r.chain[i]
    BY <1>3 DEF IsLevel
  <2>2. r.size[a] = SizeOf(Lev(r, i)) /\ Len(Lev(r, i).regs) <= 99 /\ Len(Lev(r, i).regs) \in Nat
    BY <1>1, <2>1, GoodFacts DEF Sized, Regs
  <2>3. 4 + Len(Lev(r, i).regs) \in 0 .. 4 + 99 /\ 3 \in 0 .. 4 + 99
    BY <2>2, SmallSizes
  <2> QED BY <2>2, <2>3 DEF SizeOf
<1>4. CASE IsData(r, a)
  <2>1. r.size[a] = 4
    BY <1>1, <1>4 DEF IsData, Sized
  <2> QED BY <2>1
<1> QED BY <1>1, <1>3, <1>4 DEF NothingElse

(***************************************************************************)
(* Every variable of the levels has its type, and no block is larger than  *)
(* the largest LocR; a program runs only inside of an engine.              *)
(***************************************************************************)
THEOREM LevelsTypeCorrect == Spec => []TypeOK
<1>1. ASSUME Inv PROVE TypeOK
  <2>1. /\ here \in Points /\ running \in BOOLEAN /\ cut \in 0 .. Len(engines) /\ Good(ram)
        /\ Bounded(ram) /\ RunsTyped(engines, running) /\ JobTyped(job, engines, cut)
    BY <1>1 DEF Inv, RunsTyped, JobTyped
  <2>2. /\ ram \in Ram /\ ram.size \in [Addr -> Nat] /\ ram.val \in [Addr -> Values]
        /\ ram.cur \in Addr /\ ram.count \in Nat /\ ram.chain \in Seq(Addr)
    BY <2>1, RamFields DEF Good
  <2>3. ram.flags \in Addr \cup {NULL} /\ ram.regs \in Addr \cup {NULL}
    BY <2>2 DEF Ram
  <2>4. ram.size \in [Addr -> 0 .. 4 + 99]
    BY <2>1, <2>2, SizeBounded
  <2>5. ram.count \in 1 .. MaxCount
    <3>1. ram.count > Lev(ram, Len(ram.chain)).level /\ Lev(ram, Len(ram.chain)).level \in Nat
      BY <2>1, TopFacts DEF Good, LinkedBack
    <3>2. ram.count <= MaxCount /\ MaxCount \in Nat
      BY <2>1, Bounds DEF Bounded
    <3> QED BY <2>2, <3>1, <3>2
  <2>6. Len(ram.chain) \in 1 .. MaxLevels
    <3>1. Len(ram.chain) \in Nat \ {0} /\ Len(ram.chain) <= MaxLevels /\ MaxLevels \in Nat
      BY <2>1, TopFacts, Bounds DEF Bounded
    <3> QED BY <3>1
  <2>7. Len(engines) <= MaxEngines /\ (running => engines # <<>>)
    BY <2>1 DEF RunsTyped
  <2>8. job.then \in {"none", "goto", "load", "fnFinish", "execProgram"}
    BY <2>1 DEF JobTyped
  <2> QED BY <2>1, <2>2, <2>3, <2>4, <2>5, <2>6, <2>7, <2>8 DEF TypeOK, Chain
<1> QED BY <1>1, LevelsInvariant, PTL

(***************************************************************************)
(* The way back from the current level leads through all levels to level   *)
(* 0, and their numbers grow, whatever XEQ, RTN, LocR and the loops of     *)
(* fnReturn have done and where they have failed.                          *)
(***************************************************************************)
THEOREM LevelsAlwaysLinked == Spec => []LevelsLinked
<1>1. ASSUME Inv PROVE LevelsLinked
  <2>1. LinkedBack(ram) /\ Pointers(ram) /\ LinkedOn(ram)
    BY <1>1 DEF Inv, Good
  <2> QED BY <2>1 DEF LinkedBack, Pointers, LinkedOn, LevelsLinked, Chain, Lev, Regs
<1> QED BY <1>1, LevelsInvariant, PTL

(***************************************************************************)
(* While a function of SOLVE or of an integral runs, and when it has       *)
(* ended, its caller's level is there, and at the end it is the current    *)
(* one - for every engine but those whose callers' levels FINISH, a level  *)
(* that found no memory or a run started anew after a STOP may have taken  *)
(* (lbl_gto_xeq.zig:676); a function called inside of such a run leaves    *)
(* its own caller's level alone all the same.                              *)
(***************************************************************************)
THEOREM CallersKeepTheirLevel == Spec => []CallersLevelKept
<1>1. ASSUME Inv PROVE CallersLevelKept
  <2> DEFINE n == Len(ram.chain)
             e == Len(engines)
  <2>1. /\ Good(ram) /\ RunsTyped(engines, running) /\ JobTyped(job, engines, cut)
        /\ Nested(ram, engines, job, cut) /\ cut \in Nat
    BY <1>1, CutNat DEF Inv
  <2>2. e \in Nat /\ n \in Nat \ {0} /\ \A k \in cut + 1 .. e : k \in 1 .. e
    BY <2>1, TopFacts, EnginesTyped
  <2>3. ASSUME NEW k \in cut + 1 .. e PROVE n >= engines[k].depth
    <3>1. engines[k].depth \in Nat
      BY <2>1, <2>2, EnginesTyped
    <3>2. engines[k].depth > 0 => engines[k].depth <= n
      BY <2>1 DEF Nested
    <3> QED BY <2>2, <3>1, <3>2
  <2>4. ASSUME cut < e, job.then = "execProgram", curLevel(ram) <= job.to
        PROVE  n = engines[e].depth
    <3>1. engines[e].depth > 0 /\ job.to = engines[e].orig
      BY <2>1, <2>4 DEF JobTyped
    <3>2. e \in cut + 1 .. e /\ e \in 1 .. e
      BY <2>1, <2>2, <2>4
    <3>3. PICK d \in Nat : d = engines[e].depth
      BY <2>1, <3>2, EnginesTyped
    <3>4. d \in 1 .. n /\ Lev(ram, d).level = job.to
      <4>1. d <= n /\ Lev(ram, d).level = job.to
        BY <2>1, <3>1, <3>2, <3>3 DEF Nested
      <4> QED BY <2>2, <3>1, <3>3, <4>1
    <3>5. SUFFICES ASSUME d # n PROVE FALSE
      BY <3>3
    <3>6. d < n /\ n \in 1 .. n
      BY <2>2, <3>4, <3>5
    <3>7. Lev(ram, d).level < Lev(ram, n).level
      BY <2>1, <3>4, <3>6, LevelsGrow
    <3>8. curLevel(ram) = Lev(ram, n).level /\ curLevel(ram) \in Nat /\ Lev(ram, d).level \in Nat
      BY <2>1, <3>4, TopFacts, GoodFacts
    <3>9. \A k, l \in Nat : ~ (k < l /\ l <= k)
      OBVIOUS
    <3> QED BY <2>4, <3>4, <3>7, <3>8, <3>9
  <2> QED BY <2>3, <2>4 DEF CallersLevelKept, Chain, engine
<1> QED BY <1>1, LevelsInvariant, PTL

LEMMA ImageAll ==
  ASSUME NEW s \in Seq(Addr), \A x, y \in 1 .. Len(s) : s[x] = s[y] => x = y
  PROVE  /\ DOMAIN s = 1 .. Len(s)
         /\ Cardinality({s[i] : i \in DOMAIN s}) = Len(s)
<1>1. Len(s) \in Nat /\ DOMAIN s = 1 .. Len(s)
  BY LenProperties
<1>2. PICK k \in 0 .. Len(s) : k = 0
  BY <1>1
<1>3. Cardinality({s[i] : i \in k + 1 .. Len(s)}) = Len(s) - k
  BY ImageCount
<1>4. k + 1 .. Len(s) = DOMAIN s /\ Len(s) - k = Len(s)
  BY <1>1, <1>2
<1> QED BY <1>1, <1>3, <1>4

(***************************************************************************)
(* Memory is neither lost nor freed twice: the blocks in use are those of  *)
(* the levels and of their local registers, each of them has one owner and *)
(* the size its owner will give it back with, and no block was ever given  *)
(* back with another size.                                                 *)
(***************************************************************************)
THEOREM MemoryHasOwners == Spec => []LevelsOwnMemory
<1>1. ASSUME Inv PROVE LevelsOwnMemory
  <2> DEFINE n == Len(ram.chain)
             levels == {Chain[i] : i \in DOMAIN Chain}
             data   == UNION {DataOf(a) : a \in levels}
  <2>1. /\ Good(ram) /\ ram \in Ram /\ ~ ram.misuse /\ OneOwner(ram) /\ Sized(ram)
        /\ NothingElse(ram)
    BY <1>1 DEF Inv, Good
  <2>2. ram.chain \in Seq(Addr) /\ n \in Nat /\ DOMAIN ram.chain = 1 .. n
    BY <2>1, RamFields, LenProperties
  <2>3. \A i \in 1 .. n :
          /\ ram.chain[i] \in Addr /\ Regs(ram, i) \in Seq(Addr)
          /\ \A x \in 1 .. Len(Regs(ram, i)) : Regs(ram, i)[x] \in Addr
          /\ ram.size[ram.chain[i]] > 0
    BY <2>1, GoodFacts
  <2>4. \A a : a \in levels <=> IsLevel(ram, a)
    BY <2>2 DEF IsLevel, Chain
  <2>5. ASSUME NEW i \in 1 .. n
        PROVE  /\ DataOf(ram.chain[i]) = {Regs(ram, i)[x] : x \in DOMAIN Regs(ram, i)}
               /\ DOMAIN Regs(ram, i) = 1 .. Len(Regs(ram, i))
               /\ Cardinality(DataOf(ram.chain[i])) = Len(Regs(ram, i))
    <3>1. DataOf(ram.chain[i]) = {Regs(ram, i)[x] : x \in DOMAIN Regs(ram, i)}
      BY DEF DataOf, Regs, Lev
    <3>2. \A x, y \in 1 .. Len(Regs(ram, i)) : Regs(ram, i)[x] = Regs(ram, i)[y] => x = y
      BY <2>1 DEF OneOwner
    <3>3. PICK s \in Seq(Addr) : s = Regs(ram, i)
      BY <2>3
    <3>4. /\ DOMAIN s = 1 .. Len(s)
          /\ Cardinality({s[x] : x \in DOMAIN s}) = Len(s)
      <4>1. \A x, y \in 1 .. Len(s) : s[x] = s[y] => x = y
        BY <3>2, <3>3
      <4> QED BY <4>1, ImageAll
    <3> QED BY <3>1, <3>3, <3>4
  <2>6. ASSUME NEW i \in 1 .. n, NEW c
        PROVE  c \in DataOf(ram.chain[i]) <=> \E x \in 1 .. Len(Regs(ram, i)) : c = Regs(ram, i)[x]
    BY <2>5
  <2>7. \A c : c \in data <=> IsData(ram, c)
    <3> SUFFICES ASSUME NEW c PROVE c \in data <=> IsData(ram, c)
      OBVIOUS
    <3>1. c \in data <=> \E a \in levels : c \in DataOf(a)
      OBVIOUS
    <3> HIDE DEF levels, data
    <3>2. ASSUME NEW a \in levels, c \in DataOf(a) PROVE IsData(ram, c)
      <4>1. PICK i \in 1 .. n : a = ram.chain[i]
        BY <2>4 DEF IsLevel
      <4> QED BY <2>6, <3>2, <4>1 DEF IsData
    <3>3. ASSUME IsData(ram, c) PROVE \E a \in levels : c \in DataOf(a)
      <4>1. PICK i \in 1 .. n : \E x \in 1 .. Len(Regs(ram, i)) : c = Regs(ram, i)[x]
        BY <3>3 DEF IsData
      <4>2. c \in DataOf(ram.chain[i])
        BY <2>6, <4>1
      <4>3. ram.chain[i] \in levels
        BY <2>4 DEF IsLevel
      <4> QED BY <4>2, <4>3
    <3> QED BY <3>1, <3>2, <3>3
  <2>8. Cardinality(levels) = Len(Chain)
    <3>1. \A i, j \in 1 .. n : ram.chain[i] = ram.chain[j] => i = j
      BY <2>1 DEF OneOwner
    <3> QED BY <2>2, <3>1, ImageAll DEF Chain
  <2>9. InUse(ram) = levels \union data
    <3>1. ASSUME NEW a \in Addr, ram.size[a] > 0 PROVE a \in levels \union data
      BY <2>1, <2>4, <2>7, <3>1 DEF NothingElse
    <3>2. ASSUME NEW a, IsLevel(ram, a) PROVE a \in Addr /\ ram.size[a] > 0
      BY <2>3, <3>2 DEF IsLevel
    <3>3. ASSUME NEW a, IsData(ram, a) PROVE a \in Addr /\ ram.size[a] > 0
      <4>1. a \in Addr /\ ram.size[a] = 4
        BY <2>1, <2>3, <3>3 DEF IsData, Sized
      <4> QED BY <4>1
    <3> HIDE DEF levels, data
    <3>4. \A a : a \in InUse(ram) <=> a \in levels \union data
      BY <2>4, <2>7, <3>1, <3>2, <3>3 DEF InUse
    <3> QED BY <3>4
  <2>10. levels \intersect data = {}
    <3>1. \A a : ~ (IsLevel(ram, a) /\ IsData(ram, a))
      BY <2>1 DEF IsLevel, IsData, OneOwner
    <3> HIDE DEF levels, data
    <3> QED BY <2>4, <2>7, <3>1
  <2>11. \A a \in data : ram.size[a] = RealBlocks
    <3>1. \A a : IsData(ram, a) => ram.size[a] = 4
      BY <2>1 DEF IsData, Sized
    <3> HIDE DEF levels, data
    <3> QED BY <2>7, <3>1 DEF RealBlocks
  <2>12. ASSUME NEW a \in levels
         PROVE  /\ Cardinality(DataOf(a)) = Len(ram.lev[a].regs)
                /\ ram.size[a] = IF ram.lev[a].flagged THEN levelBlocks(Len(ram.lev[a].regs))
                                                       ELSE headerOnlyBlocks
    <3>1. PICK i \in 1 .. n : a = ram.chain[i]
      BY <2>4 DEF IsLevel
    <3>2. ram.lev[a] = Lev(ram, i) /\ ram.lev[a].regs = Regs(ram, i)
      BY <3>1 DEF Lev, Regs
    <3>3. ram.size[a] = SizeOf(ram.lev[a])
      BY <2>1, <3>1, <3>2 DEF Sized
    <3> QED BY <2>5, <3>1, <3>2, <3>3 DEF SizeOf, levelBlocks, headerOnlyBlocks
  <2>13. ASSUME NEW a \in levels, NEW b \in levels, a # b
         PROVE  DataOf(a) \intersect DataOf(b) = {}
    <3>1. PICK i \in 1 .. n : a = ram.chain[i]
      BY <2>4 DEF IsLevel
    <3>2. PICK j \in 1 .. n : b = ram.chain[j]
      BY <2>4 DEF IsLevel
    <3>3. i # j
      BY <2>13, <3>1, <3>2
    <3>4. ASSUME NEW c, c \in DataOf(a), c \in DataOf(b) PROVE FALSE
      <4>1. PICK x \in 1 .. Len(Regs(ram, i)) : c = Regs(ram, i)[x]
        BY <2>6, <3>1, <3>4
      <4>2. PICK y \in 1 .. Len(Regs(ram, j)) : c = Regs(ram, j)[y]
        BY <2>6, <3>2, <3>4
      <4>3. Regs(ram, i)[x] = Regs(ram, j)[y] => i = j
        BY <2>1 DEF OneOwner
      <4> QED BY <3>3, <4>1, <4>2, <4>3
    <3> QED BY <3>4
  <2> QED BY <2>1, <2>8, <2>9, <2>10, <2>11, <2>12, <2>13 DEF LevelsOwnMemory
<1> QED BY <1>1, LevelsInvariant, PTL

---------------------------------------------------------------------------
(* The calls as a program sees them.                                       *)

LocalsAt(r, i) ==
  IF Lev(r, i).flagged THEN [x \in 1 .. Len(Regs(r, i)) |-> r.val[Regs(r, i)[x]]] ELSE NULL

FrameAt(r, i) ==
  [ret |-> IF Lev(r, i).prev = NULL THEN NULL ELSE Lev(r, i).ret, locals |-> LocalsAt(r, i)]

FramesOf(r) == [i \in 1 .. Len(r.chain) |-> FrameAt(r, i)]

FrameSet == [ret : Points \cup {NULL}, locals : Seq(Values) \cup {NULL}]

LEMMA FramesTyped ==
  ASSUME NEW r, Good(r)
  PROVE  /\ FramesOf(r) \in Seq(FrameSet) /\ Len(FramesOf(r)) = Len(r.chain)
         /\ \A i \in 1 .. Len(r.chain) :
              /\ FramesOf(r)[i] = FrameAt(r, i) /\ FrameAt(r, i) \in FrameSet
              /\ Lev(r, i).flagged => /\ LocalsAt(r, i) \in Seq(Values)
                                      /\ Len(LocalsAt(r, i)) = Len(Regs(r, i))
                                      /\ DOMAIN LocalsAt(r, i) = 1 .. Len(Regs(r, i))
                                      /\ LocalsAt(r, i) # NULL
<1> DEFINE n == Len(r.chain)
<1>1. /\ n \in Nat /\ r.val \in [Addr -> Values]
      /\ \A i \in 1 .. n : /\ Lev(r, i) \in Level /\ Len(Regs(r, i)) \in Nat
                           /\ \A x \in 1 .. Len(Regs(r, i)) : Regs(r, i)[x] \in Addr
  BY GoodFacts, RamFields DEF Good
<1>2. ASSUME NEW i \in 1 .. n
      PROVE  /\ FrameAt(r, i) \in FrameSet
             /\ Lev(r, i).flagged => /\ LocalsAt(r, i) \in Seq(Values)
                                     /\ Len(LocalsAt(r, i)) = Len(Regs(r, i))
                                     /\ DOMAIN LocalsAt(r, i) = 1 .. Len(Regs(r, i))
                                     /\ LocalsAt(r, i) # NULL
  <2>1. Lev(r, i).ret \in Points \cup {NULL} /\ Lev(r, i).flagged \in BOOLEAN
    BY <1>1 DEF Level
  <2>2. ASSUME Lev(r, i).flagged
        PROVE  /\ LocalsAt(r, i) \in Seq(Values)
               /\ Len(LocalsAt(r, i)) = Len(Regs(r, i))
               /\ DOMAIN LocalsAt(r, i) = 1 .. Len(Regs(r, i))
    <3>1. PICK k \in Nat : k = Len(Regs(r, i))
      BY <1>1
    <3>2. LocalsAt(r, i) = [x \in 1 .. k |-> r.val[Regs(r, i)[x]]]
      BY <2>2, <3>1 DEF LocalsAt
    <3>3. LocalsAt(r, i) \in [1 .. k -> Values]
      BY <1>1, <3>1, <3>2
    <3>4. \A f \in [1 .. k -> Values] : f \in Seq(Values) /\ Len(f) = k /\ DOMAIN f = 1 .. k
      OBVIOUS
    <3> QED BY <3>1, <3>3, <3>4
  <2>3. LocalsAt(r, i) \in Seq(Values) \cup {NULL}
    BY <2>2 DEF LocalsAt
  <2>4. FrameAt(r, i) \in FrameSet
    BY <2>1, <2>3 DEF FrameAt, FrameSet
  <2>5. \A f \in Seq(Values) : f # NULL
    BY LevelsAssumption
  <2> QED BY <2>2, <2>4, <2>5
<1>3. FramesOf(r) \in [1 .. n -> FrameSet]
  BY <1>2 DEF FramesOf
<1>4. \A f \in [1 .. n -> FrameSet] : f \in Seq(FrameSet) /\ Len(f) = n
  BY <1>1
<1> QED BY <1>2, <1>3, <1>4 DEF FramesOf

(* The registers of a level below the current one are not the current      *)
(* level's.                                                                *)
LEMMA SameFrame ==
  ASSUME NEW r, NEW q, NEW i, Header(Lev(q, i), Lev(r, i)), Lev(q, i).flagged = Lev(r, i).flagged,
         Regs(q, i) = Regs(r, i),
         \A x \in 1 .. Len(Regs(r, i)) : q.val[Regs(r, i)[x]] = r.val[Regs(r, i)[x]]
  PROVE  FrameAt(q, i) = FrameAt(r, i)
<1>1. LocalsAt(q, i) = LocalsAt(r, i)
  BY DEF LocalsAt
<1> QED BY <1>1 DEF FrameAt, Header

(* A list of registers that becomes another one.                           *)
Kept(r, old, k) == [x \in 1 .. k |-> IF x <= Len(old) THEN r.val[old[x]] ELSE Zero]

LEMMA BecomesFrames ==
  ASSUME NEW r, Good(r), NEW q, NEW b, NEW s, NEW fl \in BOOLEAN, TopBecomes(r, q, b, s, fl)
  PROVE  LET n == Len(r.chain)
         IN /\ \A i \in 1 .. n - 1 : FrameAt(q, i) = FrameAt(r, i)
            /\ FrameAt(q, n).ret = FrameAt(r, n).ret
            /\ FrameAt(q, n).locals = IF fl THEN Kept(r, curRegs(r), Len(s)) ELSE NULL
<1> DEFINE n == Len(r.chain)
           a == r.cur
           old == Regs(r, n)
<1>1. /\ r \in Ram /\ n \in Nat \ {0} /\ a = r.chain[n] /\ curRegs(r) = old
      /\ r.lev[a] = Lev(r, n) /\ Len(old) \in Nat
  BY TopFacts DEF Good
<1>2. /\ s \in Seq(Addr) /\ b \in Addr
      /\ \A x \in 1 .. Len(s) :
           IF x <= Len(old) THEN s[x] = old[x] ELSE r.size[s[x]] = 0 \/ s[x] = a
      /\ \A c \in Addr : q.val[c] = IF In(old, c) /\ ~ In(s, c) THEN Zero ELSE r.val[c]
      /\ Header(q.lev[b], r.lev[a]) /\ q.lev[b].flagged = fl /\ q.lev[b].regs = s
      /\ \A i \in 1 .. n - 1 :
           /\ Header(Lev(q, i), Lev(r, i)) /\ Lev(q, i).flagged = Lev(r, i).flagged
           /\ Regs(q, i) = Regs(r, i)
  BY DEF TopBecomes
<1>3. Lev(q, n) = q.lev[b]
  <2>1. Good(q) /\ q.cur = b /\ Len(q.chain) = n
    BY BecomesFacts
  <2> QED BY <2>1, TopFacts
<1>4. ASSUME NEW i \in 1 .. n - 1 PROVE FrameAt(q, i) = FrameAt(r, i)
  <2>1. i \in 1 .. n /\ n \in 1 .. n /\ i # n
    BY <1>1
  <2>2. ASSUME NEW x \in 1 .. Len(Regs(r, i))
        PROVE  q.val[Regs(r, i)[x]] = r.val[Regs(r, i)[x]]
    <3>1. Regs(r, i)[x] \in Addr
      BY <2>1, GoodFacts
    <3>2. ~ In(old, Regs(r, i)[x])
      BY <2>1 DEF In, Good, OneOwner
    <3> QED BY <1>2, <3>1, <3>2
  <2> QED BY <1>2, <2>2, SameFrame
<1>5. FrameAt(q, n).ret = FrameAt(r, n).ret
  BY <1>1, <1>2, <1>3 DEF FrameAt, Header
<1>6. ASSUME NEW x \in 1 .. Len(s)
      PROVE  q.val[s[x]] = IF x <= Len(old) THEN r.val[old[x]] ELSE Zero
  <2>1. s[x] \in Addr /\ In(s, s[x])
    BY <1>2, ElementOfSeq DEF In
  <2>2. q.val[s[x]] = r.val[s[x]]
    BY <1>2, <2>1
  <2>3. CASE x <= Len(old)
    BY <1>2, <2>2, <2>3
  <2>4. CASE ~ (x <= Len(old))
    <3>1. r.size[s[x]] = 0 \/ s[x] = a
      BY <1>2, <2>4
    <3>2. r.val[a] = Zero
      BY TopFacts
    <3>3. r.size[s[x]] = 0 => r.val[s[x]] = Zero
      <4>1. \A c : IsData(r, c) => r.size[c] = 4
        BY DEF Good, Sized, IsData
      <4>2. 0 # 4
        OBVIOUS
      <4> QED BY <2>1, <4>1, <4>2 DEF Good, NothingElse
    <3> QED BY <2>2, <2>4, <3>1, <3>2, <3>3
  <2> QED BY <2>3, <2>4
<1>7. FrameAt(q, n).locals = IF fl THEN Kept(r, curRegs(r), Len(s)) ELSE NULL
  <2>1. Lev(q, n).flagged = fl /\ Regs(q, n) = s
    BY <1>2, <1>3 DEF Regs
  <2>2. FrameAt(q, n).locals = IF fl THEN [x \in 1 .. Len(s) |-> q.val[s[x]]] ELSE NULL
    BY <2>1 DEF FrameAt, LocalsAt
  <2>3. [x \in 1 .. Len(s) |-> q.val[s[x]]] = Kept(r, old, Len(s))
    BY <1>6 DEF Kept
  <2> QED BY <1>1, <2>2, <2>3
<1> QED BY <1>4, <1>5, <1>7

SameFrames(r, q, k) == \A i \in 1 .. k : FrameAt(q, i) = FrameAt(r, i)

LEMMA FramesEqual ==
  ASSUME NEW r, NEW q, Len(q.chain) = Len(r.chain), SameFrames(r, q, Len(r.chain))
  PROVE  FramesOf(q) = FramesOf(r)
BY DEF FramesOf, SameFrames

(* The current level has other registers.                                  *)
TopOnly(r, q, L) ==
  LET n == Len(r.chain)
  IN /\ Len(q.chain) = n
     /\ SameFrames(r, q, n - 1)
     /\ FrameAt(q, n).ret = FrameAt(r, n).ret
     /\ FrameAt(q, n).locals = L

LEMMA TopFrames ==
  ASSUME NEW r, NEW q, NEW L, Good(r), Good(q), TopOnly(r, q, L)
  PROVE  FramesOf(q) = [FramesOf(r) EXCEPT ![Len(r.chain)].locals = L]
<1> DEFINE n == Len(r.chain)
           G == [FramesOf(r) EXCEPT ![n].locals = L]
<1>0. /\ Len(q.chain) = n /\ FrameAt(q, n).ret = FrameAt(r, n).ret /\ FrameAt(q, n).locals = L
      /\ \A i \in 1 .. n - 1 : FrameAt(q, i) = FrameAt(r, i)
  BY DEF TopOnly, SameFrames
<1>1. n \in Nat \ {0}
  BY GoodFacts
<1>2. n \in 1 .. n /\ \A i \in 1 .. n : i # n => i \in 1 .. n - 1
  BY <1>1
<1>3. FrameAt(q, n) = [FrameAt(r, n) EXCEPT !.locals = L]
  BY ONLY <1>0 DEF FrameAt
<1>4. G = [i \in 1 .. n |-> IF i = n THEN [FrameAt(r, n) EXCEPT !.locals = L] ELSE FrameAt(r, i)]
  BY <1>2 DEF FramesOf
<1>5. FramesOf(q) = [i \in 1 .. n |-> FrameAt(q, i)]
  BY <1>0 DEF FramesOf
<1>6. ASSUME NEW i \in 1 .. n
      PROVE  FrameAt(q, i) = IF i = n THEN [FrameAt(r, n) EXCEPT !.locals = L] ELSE FrameAt(r, i)
  BY <1>0, <1>2, <1>3
<1> QED BY <1>4, <1>5, <1>6

LEMMA FramesCut ==
  ASSUME NEW r, NEW q, Good(r), Good(q), Len(r.chain) > 1, Len(q.chain) = Len(r.chain) - 1,
         SameFrames(r, q, Len(q.chain))
  PROVE  FramesOf(q) = SubSeq(FramesOf(r), 1, Len(r.chain) - 1)
<1>1. PICK m \in Nat : m = Len(r.chain) - 1 /\ m = Len(q.chain)
  BY GoodFacts
<1>2. \A i \in 1 .. m : i \in 1 .. Len(r.chain)
  BY <1>1, GoodFacts
<1>3. \A i \in 1 .. m : FramesOf(r)[i] = FrameAt(r, i) /\ FrameAt(r, i) \in FrameSet
  BY <1>2, FramesTyped
<1>4. PICK F : F = FramesOf(r)
  OBVIOUS
<1>5. \A i \in 1 .. m : F[i] \in FrameSet
  BY <1>3, <1>4
<1>6. /\ SubSeq(F, 1, m) \in Seq(FrameSet)
      /\ Len(SubSeq(F, 1, m)) = (IF 1 <= m THEN m - 1 + 1 ELSE 0)
      /\ \A k \in 1 .. m - 1 + 1 : SubSeq(F, 1, m)[k] = F[1 + k - 1]
  <2>1. 1 \in Int /\ m \in Int
    OBVIOUS
  <2> QED BY ONLY <1>5, <2>1, SubSeqProperties
<1>7. PICK G : G = SubSeq(F, 1, m)
  OBVIOUS
<1>8. 1 <= m /\ m - 1 + 1 = m /\ (\A k \in 1 .. m : 1 + k - 1 = k)
  <2>1. Len(r.chain) \in Nat
    BY GoodFacts
  <2> QED BY <1>1, <2>1
<1>9. G \in Seq(FrameSet) /\ Len(G) = m /\ \A k \in 1 .. m : G[k] = F[k]
  BY <1>6, <1>7, <1>8
<1>10. G = [k \in 1 .. m |-> G[k]]
  BY <1>9
<1>11. FramesOf(q) = [k \in 1 .. m |-> FrameAt(q, k)]
  BY <1>1 DEF FramesOf
<1>12. \A k \in 1 .. m : FrameAt(q, k) = G[k]
  BY <1>1, <1>3, <1>4, <1>9 DEF SameFrames
<1>13. FramesOf(q) = G
  BY <1>10, <1>11, <1>12
<1> QED BY <1>1, <1>4, <1>7, <1>13

LEMMA PopFrames ==
  ASSUME NEW r, Good(r), Len(r.chain) > 1, curRegs(r) = <<>>, NEW q, Popped(r, q)
  PROVE  SameFrames(r, q, Len(r.chain) - 1)
<1> DEFINE n == Len(r.chain)
<1> SUFFICES ASSUME NEW i \in 1 .. n - 1 PROVE FrameAt(q, i) = FrameAt(r, i)
  BY DEF SameFrames
<1>1. /\ Header(Lev(q, i), Lev(r, i)) /\ Lev(q, i).flagged = Lev(r, i).flagged
      /\ Regs(q, i) = Regs(r, i)
  BY PopGood
<1>2. n \in Nat \ {0} /\ r.cur = r.chain[n]
  BY TopFacts
<1>3. i \in 1 .. n /\ n \in 1 .. n
  BY <1>2
<1>4. ASSUME NEW x \in 1 .. Len(Regs(r, i)) PROVE q.val[Regs(r, i)[x]] = r.val[Regs(r, i)[x]]
  <2>1. Regs(r, i)[x] \in Addr
    BY <1>3, GoodFacts
  <2>2. Regs(r, i)[x] # r.cur
    BY <1>2, <1>3 DEF Good, OneOwner
  <2> QED BY <2>1, <2>2 DEF Popped
<1> QED BY <1>1, <1>4, SameFrame

LEMMA PushFrames ==
  ASSUME NEW r, Good(r), here \in Points, NEW b \in Addr, r.size[b] = 0, NEW q, Pushed(r, q, b)
  PROVE  /\ SameFrames(r, q, Len(r.chain))
         /\ FramesOf(q) = Append(FramesOf(r), [ret |-> here, locals |-> NULL])
<1> DEFINE n == Len(r.chain)
<1>1. /\ Good(q) /\ Len(q.chain) = n + 1 /\ q.chain[n + 1] = b
      /\ \A i \in 1 .. n : /\ Header(Lev(q, i), Lev(r, i))
                           /\ Lev(q, i).flagged = Lev(r, i).flagged
                           /\ Regs(q, i) = Regs(r, i)
  BY PushGood
<1>2. /\ q.val = r.val /\ q.lev[b].ret = here /\ q.lev[b].prev = r.cur
      /\ q.lev[b].flagged = FALSE
  BY DEF Pushed
<1>3. n \in Nat \ {0} /\ r.cur \in Addr
  BY TopFacts
<1>4. ASSUME NEW i \in 1 .. n PROVE FrameAt(q, i) = FrameAt(r, i)
  BY <1>1, <1>2, SameFrame
<1>5. FrameAt(q, n + 1) = [ret |-> here, locals |-> NULL]
  <2>1. Lev(q, n + 1) = q.lev[b]
    BY <1>1 DEF Lev
  <2>2. r.cur # NULL
    BY <1>3, LevelsAssumption
  <2> QED BY <1>2, <2>1, <2>2 DEF FrameAt, LocalsAt
<1>6. PICK F \in Seq(FrameSet) : F = FramesOf(r) /\ Len(F) = n
  BY FramesTyped
<1>7. PICK x : x = [ret |-> here, locals |-> NULL]
  OBVIOUS
<1>8. n + 1 \in 1 .. n + 1 /\ \A i \in 1 .. n + 1 : i = n + 1 \/ (i \in 1 .. n /\ i # n + 1)
  BY <1>3
<1>9. x \in FrameSet
  <2>1. FrameAt(q, n + 1) \in FrameSet
    BY <1>1, <1>8, FramesTyped
  <2> QED BY <1>5, <1>7, <2>1
<1>10. PICK G : G = Append(F, x)
  OBVIOUS
<1>11. /\ G \in Seq(FrameSet) /\ Len(G) = n + 1 /\ G[n + 1] = x
       /\ \A i \in 1 .. n : G[i] = F[i]
  <2> HIDE DEF n
  <2> QED BY <1>6, <1>9, <1>10, AppendProperties
<1>12. G = [i \in 1 .. n + 1 |-> G[i]]
  <2>1. n + 1 \in Nat
    BY <1>3
  <2> QED BY <1>11, <2>1
<1>13. \A i \in 1 .. n : F[i] = FrameAt(r, i)
  BY <1>6 DEF FramesOf
<1>14. \A i \in 1 .. n + 1 : G[i] = FrameAt(q, i)
  BY <1>4, <1>5, <1>7, <1>8, <1>11, <1>13
<1>15. FramesOf(q) = [i \in 1 .. n + 1 |-> FrameAt(q, i)]
  BY <1>1 DEF FramesOf
<1>16. FramesOf(q) = G
  BY <1>12, <1>14, <1>15
<1> QED BY <1>4, <1>6, <1>7, <1>10, <1>16 DEF SameFrames

LEMMA CleanFrames ==
  ASSUME NEW r, Good(r), NEW q, q = cleanLocalFlagsAndRegisters(r)
  PROVE  FramesOf(q) = [FramesOf(r) EXCEPT ![Len(r.chain)].locals = NULL]
<1> DEFINE n == Len(r.chain)
           fl == r.lev[r.cur].flagged
<1>1. n \in Nat \ {0} /\ r.cur \in Addr
  BY TopFacts
<1>2. fl \in BOOLEAN
  BY <1>1, RamFields DEF Good
<1>3. PICK w : TopBecomes(r, w, r.cur, <<>>, fl) /\ TopBecomes(w, q, r.cur, <<>>, FALSE)
  BY CleanStays
<1>4. PICK a : a = r.cur
  OBVIOUS
<1>5. PICK f \in BOOLEAN : f = FALSE
  OBVIOUS
<1>6. TopBecomes(r, w, a, <<>>, fl) /\ TopBecomes(w, q, a, <<>>, f)
  BY <1>3, <1>4, <1>5
<1> HIDE DEF fl, n
<1>7. Good(w) /\ Len(w.chain) = n
  BY <1>2, <1>6, BecomesFacts DEF n
<1>8. Good(q) /\ Len(q.chain) = n
  BY <1>6, <1>7, BecomesFacts
<1>9. /\ \A i \in 1 .. n - 1 : FrameAt(w, i) = FrameAt(r, i)
      /\ FrameAt(w, n).ret = FrameAt(r, n).ret
  BY <1>2, <1>6, BecomesFrames DEF n
<1>10. /\ \A i \in 1 .. n - 1 : FrameAt(q, i) = FrameAt(w, i)
       /\ FrameAt(q, n).ret = FrameAt(w, n).ret
       /\ FrameAt(q, n).locals = IF f THEN Kept(w, curRegs(w), Len(<<>>)) ELSE NULL
  BY <1>6, <1>7, BecomesFrames
<1>11. /\ \A i \in 1 .. n - 1 : FrameAt(q, i) = FrameAt(r, i)
       /\ FrameAt(q, n).ret = FrameAt(r, n).ret /\ FrameAt(q, n).locals = NULL
  BY <1>5, <1>9, <1>10
<1>12. Good(r)
  OBVIOUS
<1>13. TopOnly(r, q, NULL)
  BY ONLY <1>8, <1>11 DEF n, TopOnly, SameFrames
<1> QED BY ONLY <1>8, <1>12, <1>13, TopFrames DEF n

LEMMA ReturnFrames ==
  ASSUME NEW r, Good(r), NEW q, Returns(r, q)
  PROVE  LET n == Len(r.chain)
         IN /\ n > 1 => SameFrames(r, q, n - 1)
            /\ FramesOf(q) = IF n > 1 THEN SubSeq(FramesOf(r), 1, n - 1)
                             ELSE [FramesOf(r) EXCEPT ![n].locals = NULL]
<1> DEFINE n == Len(r.chain)
           fl == r.lev[r.cur].flagged
<1>1. n \in Nat \ {0} /\ r.cur \in Addr
  BY TopFacts
<1>2. fl \in BOOLEAN
  BY <1>1, RamFields DEF Good
<1>3. PICK w : /\ TopBecomes(r, w, r.cur, <<>>, fl) /\ Good(w)
               /\ Len(w.chain) = n /\ curRegs(w) = <<>>
               /\ IF n > 1 THEN Popped(w, q) ELSE TopBecomes(w, q, w.cur, <<>>, FALSE)
  BY DEF Returns
<1>4. PICK f \in BOOLEAN : f = FALSE
  OBVIOUS
<1>5. /\ \A i \in 1 .. n - 1 : FrameAt(w, i) = FrameAt(r, i)
      /\ FrameAt(w, n).ret = FrameAt(r, n).ret
  BY <1>2, <1>3, BecomesFrames
<1>6. CASE n > 1
  <2>1. Popped(w, q) /\ Len(w.chain) > 1
    BY <1>3, <1>6
  <2>2. SameFrames(w, q, n - 1)
    BY <1>3, <2>1, PopFrames
  <2>3. SameFrames(r, q, n - 1)
    BY <1>5, <2>2 DEF SameFrames
  <2>4. Good(q) /\ Len(q.chain) = n - 1
    BY <1>6, ReturnGood
  <2>5. FramesOf(q) = SubSeq(FramesOf(r), 1, n - 1)
    BY <1>6, <2>3, <2>4, FramesCut
  <2> QED BY <1>6, <2>3, <2>5
<1>7. CASE ~ (n > 1)
  <2>1. TopBecomes(w, q, w.cur, <<>>, f)
    BY <1>3, <1>4, <1>7
  <2>2. Good(q) /\ Len(q.chain) = n
    BY <1>7, ReturnGood
  <2> HIDE DEF n, fl
  <2>3. /\ \A i \in 1 .. n - 1 : FrameAt(q, i) = FrameAt(w, i)
        /\ FrameAt(q, n).ret = FrameAt(w, n).ret
        /\ FrameAt(q, n).locals = IF f THEN Kept(w, curRegs(w), Len(<<>>)) ELSE NULL
    BY <1>3, <2>1, BecomesFrames
  <2>4. /\ \A i \in 1 .. n - 1 : FrameAt(q, i) = FrameAt(r, i)
        /\ FrameAt(q, n).ret = FrameAt(r, n).ret /\ FrameAt(q, n).locals = NULL
    BY <1>4, <1>5, <2>3
  <2>5. FramesOf(q) = [FramesOf(r) EXCEPT ![n].locals = NULL]
    <3>1. TopOnly(r, q, NULL)
      BY ONLY <2>2, <2>4 DEF n, TopOnly, SameFrames
    <3> QED BY ONLY Good(r), <2>2, <3>1, TopFrames DEF n
  <2> QED BY <1>7, <2>5 DEF n
<1> QED BY <1>6, <1>7

LEMMA ExecuteFrames ==
  ASSUME NEW r, Good(r), here \in Points, NEW o, Executes(r, o)
  PROVE  /\ o.err \in BOOLEAN
         /\ FramesOf(o.ram) = IF o.err THEN FramesOf(r)
                              ELSE Append(FramesOf(r), [ret |-> here, locals |-> NULL])
<1> DEFINE n == Len(r.chain)
<1>0. o.err \in BOOLEAN /\ n \in Nat \ {0}
  BY TopFacts DEF Executes
<1>1. CASE ~ o.err
  <2>1. PICK b \in Addr : r.size[b] = 0 /\ Pushed(r, o.ram, b)
    BY <1>1 DEF Executes
  <2>2. FramesOf(o.ram) = Append(FramesOf(r), [ret |-> here, locals |-> NULL])
    BY <2>1, PushFrames
  <2> QED BY <1>0, <1>1, <2>2
<1>2. CASE o.err /\ o.ram = [r EXCEPT !.count = @ + 1]
  <2>1. o.ram.chain = r.chain /\ o.ram.lev = r.lev /\ o.ram.val = r.val
    BY <1>2, CountedGood
  <2>2. FramesOf(o.ram) = FramesOf(r)
    BY <2>1 DEF FramesOf, FrameAt, LocalsAt, Lev, Regs
  <2> QED BY <1>0, <1>2, <2>2
<1>3. CASE o.err /\ \E b \in Addr : \E q :
                     r.size[b] = 0 /\ Pushed(r, q, b) /\ Returns(q, o.ram)
  <2>0. PICK b \in Addr : \E q : r.size[b] = 0 /\ Pushed(r, q, b) /\ Returns(q, o.ram)
    BY <1>3
  <2>1. PICK q : r.size[b] = 0 /\ Pushed(r, q, b) /\ Returns(q, o.ram)
    BY <2>0
  <2>2. Good(q) /\ Len(q.chain) = n + 1
    BY <2>1, PushGood
  <2>3. SameFrames(r, q, n)
    BY <2>1, PushFrames
  <2>4. n + 1 > 1 /\ n + 1 - 1 = n
    BY <1>0
  <2>5. SameFrames(q, o.ram, Len(q.chain) - 1) /\ Len(q.chain) - 1 = n
    <3>1. Len(q.chain) > 1 /\ Len(q.chain) - 1 = n
      BY <1>0, <2>2, <2>4
    <3> QED BY <2>1, <2>2, <3>1, ReturnFrames
  <2>6. Len(o.ram.chain) = n
    BY <1>3, ExecuteGood
  <2>7. SameFrames(r, o.ram, n)
    BY <2>3, <2>5 DEF SameFrames
  <2>8. FramesOf(o.ram) = FramesOf(r)
    BY <2>6, <2>7, FramesEqual
  <2> QED BY <1>0, <1>3, <2>8
<1> QED BY <1>0, <1>1, <1>2, <1>3 DEF Executes

(* LocR as the program sees it.                                            *)
Sizing(F, n, k) ==
  LET L    == F[n].locals
      held == IF L = NULL THEN <<>> ELSE L
  IN [F EXCEPT ![n].locals = [x \in 1 .. k |-> IF x <= Len(held) THEN held[x] ELSE Zero]]

LEMMA HeldLocals ==
  ASSUME NEW r, Good(r), NEW k \in Nat
  PROVE  LET n == Len(r.chain)
             L == FramesOf(r)[n].locals
             held == IF L = NULL THEN <<>> ELSE L
         IN Kept(r, curRegs(r), k) = [x \in 1 .. k |-> IF x <= Len(held) THEN held[x] ELSE Zero]
<1> DEFINE n == Len(r.chain)
           L == FramesOf(r)[n].locals
           held == IF L = NULL THEN <<>> ELSE L
           old == curRegs(r)
<1>1. /\ n \in Nat \ {0} /\ old = Regs(r, n) /\ r.lev[r.cur] = Lev(r, n) /\ Len(old) \in Nat
      /\ (~ Lev(r, n).flagged => old = <<>>)
  BY TopFacts
<1>2. n \in 1 .. n
  BY <1>1
<1>3. L = LocalsAt(r, n)
  <2>1. FramesOf(r)[n] = FrameAt(r, n)
    BY <1>2, FramesTyped
  <2> QED BY <2>1 DEF FrameAt
<1>4. CASE Lev(r, n).flagged
  <2>1. held = LocalsAt(r, n) /\ Len(held) = Len(old)
    BY <1>1, <1>2, <1>3, <1>4, FramesTyped
  <2>2. \A x \in 1 .. Len(old) : held[x] = r.val[old[x]]
    BY <1>1, <1>4, <2>1 DEF LocalsAt
  <2>3. \A x \in 1 .. k : x <= Len(old) => x \in 1 .. Len(old)
    BY <1>1
  <2> HIDE DEF held, old, n, L
  <2>4. Kept(r, old, k) = [x \in 1 .. k |-> IF x <= Len(held) THEN held[x] ELSE Zero]
    BY <2>1, <2>2, <2>3 DEF Kept
  <2> QED BY <2>4 DEF held, old, n, L
<1>5. CASE ~ Lev(r, n).flagged
  <2>1. held = <<>> /\ old = <<>>
    BY <1>1, <1>3, <1>5 DEF LocalsAt
  <2>2. \A x \in 1 .. k : ~ (x <= Len(<<>>))
    OBVIOUS
  <2> HIDE DEF held, old, n, L
  <2>3. Kept(r, old, k) = [x \in 1 .. k |-> IF x <= Len(held) THEN held[x] ELSE Zero]
    BY <2>1, <2>2 DEF Kept
  <2> QED BY <2>3 DEF held, old, n, L
<1> QED BY <1>4, <1>5

LEMMA LocRFrames ==
  ASSUME NEW r, Good(r), NEW k \in Nat, NEW o, Resized(r, o, k)
  PROVE  FramesOf(o.ram) \in {FramesOf(r), Sizing(FramesOf(r), Len(r.chain), k)}
<1> DEFINE n == Len(r.chain)
<1>1. n \in Nat \ {0} /\ r.cur \in Addr /\ r.lev[r.cur] = Lev(r, n) /\ curRegs(r) = Regs(r, n)
  BY TopFacts
<1>2. CASE \E b, s : TopBecomes(r, o.ram, b, s, TRUE) /\ Len(s) = k
  <2>1. PICK b, s : TopBecomes(r, o.ram, b, s, TRUE) /\ Len(s) = k
    BY <1>2
  <2>2. PICK f \in BOOLEAN : f = TRUE
    OBVIOUS
  <2>3. TopBecomes(r, o.ram, b, s, f)
    BY <2>1, <2>2
  <2>4. Good(o.ram) /\ Len(o.ram.chain) = n
    BY <2>3, BecomesFacts
  <2>5. /\ \A i \in 1 .. n - 1 : FrameAt(o.ram, i) = FrameAt(r, i)
        /\ FrameAt(o.ram, n).ret = FrameAt(r, n).ret
        /\ FrameAt(o.ram, n).locals = IF f THEN Kept(r, curRegs(r), Len(s)) ELSE NULL
    BY <2>3, BecomesFrames
  <2>6. PICK L : L = Kept(r, curRegs(r), k)
    OBVIOUS
  <2>7. FrameAt(o.ram, n).locals = L
    BY <2>1, <2>2, <2>5, <2>6
  <2>8. FramesOf(o.ram) = [FramesOf(r) EXCEPT ![n].locals = L]
    <3>1. TopOnly(r, o.ram, L)
      BY ONLY <2>4, <2>5, <2>7 DEF TopOnly, SameFrames
    <3> QED BY ONLY Good(r), <2>4, <3>1, TopFrames
  <2>9. FramesOf(o.ram) = Sizing(FramesOf(r), n, k)
    <3> DEFINE S == FramesOf(r)[n].locals
               held == IF S = NULL THEN <<>> ELSE S
    <3>1. L = [x \in 1 .. k |-> IF x <= Len(held) THEN held[x] ELSE Zero]
      BY ONLY Good(r), k \in Nat, <2>6, HeldLocals
    <3> QED BY ONLY <2>8, <3>1 DEF Sizing
  <2> QED BY <2>9
<1>3. CASE \E b : TopBecomes(r, o.ram, b, curRegs(r), r.lev[r.cur].flagged)
  <2>1. PICK b : TopBecomes(r, o.ram, b, curRegs(r), r.lev[r.cur].flagged)
    BY <1>3
  <2>2. PICK f \in BOOLEAN : f = r.lev[r.cur].flagged
    BY <1>1, RamFields DEF Good
  <2>3. PICK s : s = curRegs(r)
    OBVIOUS
  <2>4. TopBecomes(r, o.ram, b, s, f)
    BY <2>1, <2>2, <2>3
  <2>5. Good(o.ram) /\ Len(o.ram.chain) = n
    BY <2>4, BecomesFacts
  <2>6. /\ \A i \in 1 .. n - 1 : FrameAt(o.ram, i) = FrameAt(r, i)
        /\ FrameAt(o.ram, n).ret = FrameAt(r, n).ret
        /\ FrameAt(o.ram, n).locals = IF f THEN Kept(r, curRegs(r), Len(s)) ELSE NULL
    BY <2>4, BecomesFrames
  <2>7. FrameAt(r, n).locals = IF f THEN Kept(r, curRegs(r), Len(s)) ELSE NULL
    <3>1. FrameAt(r, n).locals =
            IF f THEN [x \in 1 .. Len(s) |-> r.val[s[x]]] ELSE NULL
      BY <1>1, <2>2, <2>3 DEF FrameAt, LocalsAt
    <3>2. \A x \in 1 .. Len(s) : x <= Len(s)
      BY <2>3, TopFacts
    <3>3. Kept(r, s, Len(s)) = [x \in 1 .. Len(s) |-> r.val[s[x]]]
      BY <3>2 DEF Kept
    <3> QED BY <2>3, <3>1, <3>3
  <2>8. FrameAt(o.ram, n) = FrameAt(r, n)
    BY <2>6, <2>7 DEF FrameAt
  <2>9. SameFrames(r, o.ram, n)
    <3>1. \A i \in 1 .. n : i = n \/ i \in 1 .. n - 1
      BY <1>1
    <3> QED BY <2>6, <2>8, <3>1 DEF SameFrames
  <2> QED BY <2>5, <2>9, FramesEqual
<1> QED BY <1>2, <1>3 DEF Resized

StoredAt(F, G, n, i, v) ==
  /\ F[n].locals # NULL /\ i \in DOMAIN F[n].locals
  /\ G = [F EXCEPT ![n].locals[i] = v]

LEMMA StoreFrames ==
  ASSUME NEW r, Good(r), r.regs # NULL, NEW i \in 1 .. Len(r.lev[r.regs].regs),
         NEW v \in Values, NEW q, StoresAt(r, q, i, v)
  PROVE  StoredAt(FramesOf(r), FramesOf(q), Len(r.chain), i, v)
<1> DEFINE n == Len(r.chain)
           old == curRegs(r)
<1>1. /\ Good(q) /\ q.chain = r.chain /\ q.lev = r.lev /\ r.lev[r.regs].regs = old
      /\ \A c \in Addr : q.val[c] = IF c = old[i] THEN v ELSE r.val[c]
  BY StoreGood
<1>2. Good(r) /\ i \in 1 .. Len(old) /\ r.regs # NULL
  BY <1>1
<1>3. /\ n \in Nat \ {0} /\ old = Regs(r, n) /\ Lev(r, n).flagged
  BY <1>2, TopFacts
<1>4. n \in 1 .. n
  BY <1>3
<1>5. \A k \in 1 .. n : Lev(q, k) = Lev(r, k) /\ Regs(q, k) = Regs(r, k)
  BY <1>1 DEF Lev, Regs
<1>6. ASSUME NEW k \in 1 .. n - 1 PROVE FrameAt(q, k) = FrameAt(r, k)
  <2>1. k \in 1 .. n /\ k # n
    BY <1>3
  <2>2. ASSUME NEW x \in 1 .. Len(Regs(r, k)) PROVE q.val[Regs(r, k)[x]] = r.val[Regs(r, k)[x]]
    <3>1. Regs(r, k)[x] \in Addr
      BY <2>1, GoodFacts
    <3>2. OneOwner(r)
      BY DEF Good
    <3>3. Regs(r, k)[x] # old[i]
      BY ONLY <1>2, <1>3, <1>4, <2>1, <2>2, <3>2 DEF OneOwner
    <3> QED BY <1>1, <3>1, <3>3
  <2>3. /\ Header(Lev(q, k), Lev(r, k)) /\ Lev(q, k).flagged = Lev(r, k).flagged
        /\ Regs(q, k) = Regs(r, k)
    BY <1>5, <2>1 DEF Header
  <2> QED BY ONLY <2>2, <2>3, SameFrame
<1>7. PICK L : L = LocalsAt(r, n)
  OBVIOUS
<1>8. /\ L \in Seq(Values) /\ Len(L) = Len(old) /\ DOMAIN L = 1 .. Len(old) /\ L # NULL
      /\ FramesOf(r)[n] = FrameAt(r, n)
  BY ONLY <1>2, <1>3, <1>4, <1>7, FramesTyped
<1>9. LocalsAt(q, n) = [L EXCEPT ![i] = v]
  <2>1. L = [x \in 1 .. Len(old) |-> r.val[old[x]]]
    BY <1>3, <1>7 DEF LocalsAt
  <2>2. LocalsAt(q, n) = [x \in 1 .. Len(old) |-> q.val[old[x]]]
    <3>1. Lev(q, n).flagged /\ Regs(q, n) = old
      BY ONLY <1>3, <1>4, <1>5
    <3> QED BY ONLY <3>1 DEF LocalsAt
  <2>3. \A x \in 1 .. Len(old) : old[x] \in Addr /\ (old[x] = old[i] => x = i)
    BY <1>2, <1>3, TopFacts
  <2>4. \A x \in 1 .. Len(old) : q.val[old[x]] = IF x = i THEN v ELSE r.val[old[x]]
    BY <1>1, <1>2, <2>3
  <2> HIDE DEF old, n
  <2> QED BY <1>2, <2>1, <2>2, <2>4
<1>10. PICK M : M = [L EXCEPT ![i] = v]
  OBVIOUS
<1>11. FrameAt(q, n).ret = FrameAt(r, n).ret /\ FrameAt(q, n).locals = M
  BY <1>4, <1>5, <1>9, <1>10 DEF FrameAt
<1>12. FramesOf(q) = [FramesOf(r) EXCEPT ![n].locals = M]
  <2>1. Len(q.chain) = n /\ Good(q)
    BY <1>1
  <2>2. TopOnly(r, q, M)
    BY ONLY <1>6, <1>11, <2>1 DEF TopOnly, SameFrames
  <2> QED BY ONLY <1>2, <2>1, <2>2, TopFrames
<1>13. FramesOf(r)[n].locals = L
  BY <1>7, <1>8 DEF FrameAt
<1> QED BY ONLY <1>2, <1>8, <1>10, <1>12, <1>13 DEF StoredAt

---------------------------------------------------------------------------
(* The levels implement nested calls.                                      *)

BlockFrame(r, a) ==
  [ret    |-> IF r.lev[a].prev = NULL THEN NULL ELSE r.lev[a].ret,
   locals |-> IF r.lev[a].flagged
                THEN [x \in DOMAIN r.lev[a].regs |-> r.val[r.lev[a].regs[x]]] ELSE NULL]

Mapped == [i \in DOMAIN Chain |-> Frame(Chain[i])]

LEMMA BlockFrames ==
  ASSUME NEW r, Good(r)
  PROVE  [i \in DOMAIN r.chain |-> BlockFrame(r, r.chain[i])] = FramesOf(r)
<1>1. DOMAIN r.chain = 1 .. Len(r.chain)
  BY RamFields, LenProperties DEF Good
<1>2. ASSUME NEW i \in 1 .. Len(r.chain) PROVE BlockFrame(r, r.chain[i]) = FrameAt(r, i)
  <2>1. Regs(r, i) \in Seq(Addr)
    BY GoodFacts
  <2>2. DOMAIN Regs(r, i) = 1 .. Len(Regs(r, i))
    BY <2>1, LenProperties
  <2>3. r.lev[r.chain[i]] = Lev(r, i) /\ r.lev[r.chain[i]].regs = Regs(r, i)
    BY DEF Lev, Regs
  <2> QED BY <2>2, <2>3 DEF BlockFrame, FrameAt, LocalsAt
<1> QED BY <1>1, <1>2 DEF FramesOf

LEMMA MappedFrames ==
  /\ Good(ram) => Mapped = FramesOf(ram)
  /\ Good(ram') => Mapped' = FramesOf(ram')
<1>1. Mapped = [i \in DOMAIN ram.chain |-> BlockFrame(ram, ram.chain[i])]
  BY DEF Mapped, Chain, Frame, BlockFrame
<1>2. Mapped' = [i \in DOMAIN ram'.chain |-> BlockFrame(ram', ram'.chain[i])]
  BY DEF Mapped, Chain, Frame, BlockFrame
<1> QED BY <1>1, <1>2, BlockFrames

LEMMA AbstractCall ==
  ASSUME NEW p \in Points, here' = p,
         Mapped' = Append(Mapped, [ret |-> here, locals |-> NULL])
  PROVE  Abstract!Next
<1>1. Abstract!Call(p)
  BY DEF Abstract!Call, Mapped
<1> QED BY <1>1 DEF Abstract!Next

LEMMA AbstractReturn ==
  ASSUME Len(Mapped) > 1, here' = Mapped[Len(Mapped)].ret,
         Mapped' = SubSeq(Mapped, 1, Len(Mapped) - 1)
  PROVE  Abstract!Next
<1>1. Abstract!Return
  BY DEF Abstract!Return, Abstract!top, Mapped
<1> QED BY <1>1 DEF Abstract!Next

LEMMA AbstractRestart ==
  ASSUME Len(Mapped) = 1, NEW p \in Points, here' = p,
         Mapped' = [Mapped EXCEPT ![1].locals = NULL]
  PROVE  Abstract!Next
<1>1. Abstract!Restart(p)
  BY DEF Abstract!Restart, Abstract!top, Mapped
<1> QED BY <1>1 DEF Abstract!Next

LEMMA AbstractJump ==
  ASSUME NEW p \in Points, here' = p, Mapped' = Mapped
  PROVE  Abstract!Next
<1>1. Abstract!Jump(p)
  BY DEF Abstract!Jump, Mapped
<1> QED BY <1>1 DEF Abstract!Next

LEMMA AbstractResize ==
  ASSUME NEW k \in Sizes, here' = here, Mapped' = Sizing(Mapped, Len(Mapped), k)
  PROVE  Abstract!Next
<1>1. Abstract!Resize(k)
  BY DEF Abstract!Resize, Abstract!top, Abstract!locals, Mapped, Sizing
<1> QED BY <1>1 DEF Abstract!Next

LEMMA AbstractStore ==
  ASSUME NEW v \in Values, Mapped[Len(Mapped)].locals # NULL,
         NEW i \in DOMAIN Mapped[Len(Mapped)].locals, here' = here,
         Mapped' = [Mapped EXCEPT ![Len(Mapped)].locals[i] = v]
  PROVE  Abstract!Next
<1>1. Abstract!Store(i, v)
  BY DEF Abstract!Store, Abstract!top, Mapped
<1>2. Abstract!locals # NULL /\ i \in DOMAIN Abstract!locals
  BY DEF Abstract!locals, Abstract!top, Mapped
<1> QED BY <1>1, <1>2 DEF Abstract!Next

LEMMA AbstractStutter ==
  ASSUME here' = here, Mapped' = Mapped
  PROVE  UNCHANGED Abstract!vars
BY DEF Abstract!vars, Mapped

LEMMA ReturnRefines ==
  ASSUME Inv, Good(ram'), ram' = fnReturn(ram), here' = ReturnPoint(ram)
  PROVE  Abstract!Next
<1> DEFINE n == Len(ram.chain)
<1>1. Good(ram) /\ here \in Points
  BY DEF Inv
<1>2. Returns(ram, ram')
  BY <1>1, ReturnSteps
<1>3. PICK F : F = FramesOf(ram)
  OBVIOUS
<1>4. Mapped = F /\ Mapped' = FramesOf(ram') /\ Len(F) = n
  BY <1>1, <1>3, MappedFrames, FramesTyped
<1>5. Mapped' = IF n > 1 THEN SubSeq(F, 1, n - 1) ELSE [F EXCEPT ![n].locals = NULL]
  BY <1>1, <1>2, <1>3, <1>4, ReturnFrames
<1>6. /\ n \in Nat \ {0} /\ curLevel(ram) \in Nat /\ (curLevel(ram) = 0 <=> n = 1)
      /\ ram.lev[ram.cur] = Lev(ram, n)
  BY <1>1, TopFacts
<1>7. CASE n > 1
  <2>1. n # 1 /\ n \in 1 .. n
    <3>1. \A k \in Nat \ {0} : k > 1 => k # 1 /\ k \in 1 .. k
      OBVIOUS
    <3> QED BY <1>6, <1>7, <3>1
  <2>2. curLevel(ram) > 0
    <3>1. \A k \in Nat : k # 0 => k > 0
      OBVIOUS
    <3> QED BY <1>6, <2>1, <3>1
  <2>3. here' = Lev(ram, n).ret
    BY <1>6, <2>2 DEF ReturnPoint
  <2>4. Lev(ram, n).prev # NULL
    <3>1. Lev(ram, n).prev = ram.chain[n - 1] /\ ram.chain[n - 1] \in Addr
      BY <1>1, <1>6, <1>7, TopFacts
    <3> QED BY <3>1, LevelsAssumption
  <2>5. F[n] = FrameAt(ram, n)
    BY <1>1, <1>3, <2>1, FramesTyped
  <2>6. here' = F[n].ret
    BY <2>3, <2>4, <2>5 DEF FrameAt
  <2> QED BY <1>4, <1>5, <1>7, <2>6, AbstractReturn
<1>8. CASE ~ (n > 1)
  <2>1. n = 1
    BY <1>6, <1>8, OneOrMore
  <2>2. ~ (curLevel(ram) > 0)
    <3>1. ~ (0 > 0)
      OBVIOUS
    <3> QED BY <1>6, <2>1, <3>1
  <2>3. here' = here
    BY <2>2 DEF ReturnPoint
  <2>4. Mapped' = [F EXCEPT ![1].locals = NULL]
    BY <1>5, <1>8, <2>1
  <2> QED BY <1>1, <1>4, <2>1, <2>3, <2>4, AbstractRestart
<1> QED BY <1>7, <1>8

LEMMA CleanRefines ==
  ASSUME Inv, Good(ram'), ram' = cleanLocalFlagsAndRegisters(ram), NEW p \in Points, here' = p,
         curLevel(ram) <= 0
  PROVE  Abstract!Next
<1> DEFINE n == Len(ram.chain)
<1>1. Good(ram)
  BY DEF Inv
<1>2. PICK F : F = FramesOf(ram)
  OBVIOUS
<1>3. Mapped = F /\ Mapped' = FramesOf(ram') /\ Len(F) = n
  BY <1>1, <1>2, MappedFrames, FramesTyped
<1>4. n = 1
  <2>1. curLevel(ram) \in Nat /\ (curLevel(ram) = 0 <=> n = 1)
    BY <1>1, TopFacts
  <2>2. \A k \in Nat : k <= 0 => k = 0
    OBVIOUS
  <2> QED BY <2>1, <2>2
<1>5. FramesOf(ram') = [F EXCEPT ![n].locals = NULL]
  BY <1>1, <1>2, CleanFrames
<1> QED BY <1>3, <1>4, <1>5, AbstractRestart

LEMMA ExecuteRefines ==
  ASSUME Inv, Good(ram'), NEW p \in Points, NEW o \in fnExecute(ram), ram' = o.ram,
         here' = (IF o.err THEN here ELSE p)
  PROVE  Abstract!Next \/ UNCHANGED Abstract!vars
<1>1. Good(ram) /\ here \in Points
  BY DEF Inv
<1>2. Mapped = FramesOf(ram) /\ Mapped' = FramesOf(ram')
  BY <1>1, MappedFrames
<1>3. Executes(ram, o)
  BY <1>1, ExecuteSteps
<1>4. /\ o.err \in BOOLEAN
      /\ FramesOf(o.ram) = IF o.err THEN FramesOf(ram)
                           ELSE Append(FramesOf(ram), [ret |-> here, locals |-> NULL])
  BY <1>1, <1>3, ExecuteFrames
<1>5. CASE o.err
  BY <1>2, <1>4, <1>5, AbstractStutter
<1>6. CASE ~ o.err
  BY <1>2, <1>4, <1>6, AbstractCall
<1> QED BY <1>5, <1>6

LEMMA LocRRefines ==
  ASSUME Inv, Good(ram'), NEW k \in Sizes, LocR(k)
  PROVE  Abstract!Next \/ UNCHANGED Abstract!vars
<1>1. Good(ram) /\ here' = here /\ k \in Nat
  <2>1. \A l \in 0 .. 99 : l \in Nat
    OBVIOUS
  <2>2. k \in 0 .. 99
    BY LevelsAssumption
  <2> QED BY <2>1, <2>2 DEF Inv, LocR
<1>2. PICK o \in allocateLocalRegisters(ram, k) : ram' = o.ram
  BY DEF LocR
<1>3. Resized(ram, o, k)
  BY <1>1, <1>2, LocRBecomes
<1>4. FramesOf(ram') \in {FramesOf(ram), Sizing(FramesOf(ram), Len(ram.chain), k)}
  BY <1>1, <1>2, <1>3, LocRFrames
<1>5. /\ Mapped = FramesOf(ram) /\ Mapped' = FramesOf(ram')
      /\ Len(FramesOf(ram)) = Len(ram.chain)
  BY <1>1, MappedFrames, FramesTyped
<1>6. CASE Mapped' = Mapped
  BY <1>1, <1>6, AbstractStutter
<1>7. CASE Mapped' = Sizing(Mapped, Len(Mapped), k)
  BY <1>1, <1>7, AbstractResize
<1> QED BY <1>4, <1>5, <1>6, <1>7

LEMMA StoreRefines ==
  ASSUME Inv, Good(ram'), NEW i, NEW v \in Values, StoreLocal(i, v)
  PROVE  Abstract!Next
<1>1. Good(ram) /\ here' = here
  BY DEF Inv, StoreLocal
<1>2. ram.regs # NULL /\ i \in 1 .. Len(ram.lev[ram.regs].regs) /\ StoresAt(ram, ram', i, v)
  BY DEF StoreLocal, StoresAt
<1>3. PICK F : F = FramesOf(ram)
  OBVIOUS
<1>4. Mapped = F /\ Mapped' = FramesOf(ram') /\ Len(F) = Len(ram.chain)
  BY <1>1, <1>3, MappedFrames, FramesTyped
<1>5. StoredAt(FramesOf(ram), FramesOf(ram'), Len(ram.chain), i, v)
  BY <1>1, <1>2, StoreFrames
<1>6. PICK n : n = Len(ram.chain)
  OBVIOUS
<1>7. StoredAt(F, FramesOf(ram'), n, i, v)
  BY <1>3, <1>5, <1>6
<1> QED BY <1>1, <1>4, <1>6, <1>7, AbstractStore DEF StoredAt

LEMMA NextRefines ==
  ASSUME Inv, Inv', [Next]_vars
  PROVE  [Abstract!Next]_(Abstract!vars)
<1>1. Good(ram) /\ Good(ram') /\ here \in Points /\ here' \in Points
  BY DEF Inv
<1>2. ASSUME NEW p \in Points, Execute(p) \/ execProgram(p) \/ MenuKey(p)
      PROVE  Abstract!Next \/ UNCHANGED Abstract!vars
  <2>1. PICK o \in fnExecute(ram) : ram' = o.ram /\ here' = (IF o.err THEN here ELSE p)
    BY <1>2 DEF Execute, execProgram, MenuKey
  <2> QED BY <1>1, <2>1, ExecuteRefines
<1>3. CASE Rtn \/ RtnByHand \/ Unwind
  <2>1. ram' = fnReturn(ram) /\ here' = ReturnPoint(ram)
    BY <1>3 DEF Rtn, RtnByHand, Unwind
  <2> QED BY <1>1, <2>1, ReturnRefines
<1>4. ASSUME ram' = ram, here' = here PROVE UNCHANGED Abstract!vars
  <2>1. Mapped = FramesOf(ram) /\ Mapped' = FramesOf(ram)
    BY <1>1, <1>4, MappedFrames
  <2> QED BY <1>4, <2>1, AbstractStutter
<1>5. CASE StepFails \/ Stop \/ EndOfStoppedRun \/ RunProgram \/ fnFinish \/ Loaded
           \/ UNCHANGED vars
  <2>1. ram' = ram /\ here' = here
    BY <1>5 DEF StepFails, Stop, EndOfStoppedRun, RunProgram, fnFinish, Loaded, vars
  <2> QED BY <1>4, <2>1
<1>6. ASSUME NEW what \in {"goto", "load"}, StartJob(what) PROVE UNCHANGED Abstract!vars
  BY <1>4, <1>6 DEF StartJob
<1>7. ASSUME NEW k \in Sizes, LocR(k) PROVE Abstract!Next \/ UNCHANGED Abstract!vars
  BY <1>1, <1>7, LocRRefines
<1>8. ASSUME NEW i \in DOMAIN curRegs(ram), NEW v \in Values, StoreLocal(i, v)
      PROVE  Abstract!Next
  BY <1>1, <1>8, StoreRefines
<1>9. ASSUME NEW p \in Points, GoOn(p) PROVE Abstract!Next
  <2>1. ram' = cleanLocalFlagsAndRegisters(ram) /\ here' = p /\ curLevel(ram) <= 0
    <3>1. job.to = 0
      BY <1>9 DEF Inv, JobTyped, GoOn, JobDone
    <3> QED BY <1>9, <3>1 DEF GoOn, JobDone
  <2> QED BY <1>1, <2>1, CleanRefines
<1>10. CASE Finished
  <2>1. /\ ram' = cleanLocalFlagsAndRegisters(ram) /\ here' = job.here /\ curLevel(ram) <= 0
        /\ job.here \in Points
    <3>1. job.to = 0 /\ job.here \in Points
      BY <1>10 DEF Inv, JobTyped, Finished, JobDone
    <3> QED BY <1>10, <3>1 DEF Finished, JobDone
  <2> QED BY <1>1, <2>1, CleanRefines
<1>11. ASSUME ram' = ram PROVE Abstract!Next
  <2>1. Mapped' = Mapped
    BY <1>1, <1>11, MappedFrames
  <2> QED BY <1>1, <2>1, AbstractJump
<1>12. CASE UnwindStep
  BY <1>3, <1>5, <1>9, <1>10, <1>11, <1>12 DEF UnwindStep, Returned
<1>13. ASSUME NEW p \in Points, execProgramStopped(p) PROVE Abstract!Next
  BY <1>11, <1>13 DEF execProgramStopped
<1> QED BY <1>2, <1>3, <1>5, <1>6, <1>7, <1>8, <1>12, <1>13 DEF Next

LEMMA InitRefines ==
  ASSUME Init
  PROVE  Abstract!Init
<1>1. Inv
  BY InitInv
<1>2. Good(ram) /\ here \in Points
  BY <1>1 DEF Inv
<1>3. Len(ram.chain) = 1 /\ Lev(ram, 1) = Blank
  <2>1. PICK p \in Places({}, 1) :
          ram = [size |-> [b \in Addr |-> IF b = p[1] THEN headerOnlyBlocks ELSE 0],
              lev |-> [b \in Addr |-> Blank], val |-> [b \in Addr |-> Zero],
              cur |-> p[1], flags |-> NULL, regs |-> NULL, level0 |-> p[1], count |-> 1,
              misuse |-> FALSE, chain |-> p, lost |-> {}]
    BY DEF Init
  <2>2. Len(ram.chain) = 1
    BY <2>1, StartGood
  <2>3. ram.chain[1] \in Addr
    <3>1. 1 \in 1 .. 1
      OBVIOUS
    <3> QED BY <1>2, <2>2, <3>1, GoodFacts
  <2>4. ram.lev = [b \in Addr |-> Blank]
    BY <2>1
  <2> QED BY <2>2, <2>3, <2>4 DEF Lev
<1>4. FrameAt(ram, 1) = [ret |-> NULL, locals |-> NULL]
  BY <1>3 DEF FrameAt, LocalsAt, Blank
<1>5. FramesOf(ram) = <<[ret |-> NULL, locals |-> NULL]>>
  <2>1. PICK x : x = [ret |-> NULL, locals |-> NULL]
    OBVIOUS
  <2>2. FramesOf(ram) = [i \in 1 .. 1 |-> FrameAt(ram, i)]
    BY <1>3 DEF FramesOf
  <2>3. \A i \in 1 .. 1 : FrameAt(ram, i) = x
    BY <1>4, <2>1
  <2>4. [i \in 1 .. 1 |-> x] = <<x>>
    OBVIOUS
  <2>5. FramesOf(ram) = [i \in 1 .. 1 |-> x]
    BY <2>2, <2>3
  <2> QED BY <2>1, <2>4, <2>5
<1>6. Mapped = <<[ret |-> NULL, locals |-> NULL]>>
  BY <1>2, <1>5, MappedFrames
<1> QED BY <1>2, <1>6 DEF Abstract!Init, Mapped

(***************************************************************************)
(* The levels implement nested calls, for every program, every memory and  *)
(* every bound: a return goes to the point behind its call and finds the   *)
(* caller's local registers as they were, LocR keeps what the registers    *)
(* that stay hold, and an XEQ or a LocR that fails changes nothing a       *)
(* program can see, although it may have moved the level's block.          *)
(***************************************************************************)
THEOREM LevelsImplementCalls == Spec => ImplementsCallStack
<1>1. Init => Abstract!Init
  BY InitRefines
<1>2. Inv /\ Inv' /\ [Next]_vars => [Abstract!Next]_(Abstract!vars)
  BY NextRefines
<1> QED BY <1>1, <1>2, LevelsInvariant, PTL DEF Spec, ImplementsCallStack, Abstract!Spec

=============================================================================
