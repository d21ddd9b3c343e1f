--------------------------- MODULE RegisterRange ---------------------------
(***************************************************************************)
(* The commands on a range of registers: R-CLR, R-COPY, R-SWAP and R-SORT. *)
(*                                                                         *)
(*   src/src/core/state/stack/stack_register_commands.zig   the commands   *)
(*   src/src/core/state/runtime/stack_runtime_register_range.zig           *)
(*                                             the bands a range stays in  *)
(*                                                                         *)
(* R-SWAP and R-SORT move descriptors, R-COPY copies contents and needs    *)
(* memory where the size changes, R-SORT needs a scratch block for every   *)
(* level of its recursion.  The registers are 0 .. LastLettered and the    *)
(* one behind; X is the first of the lettered band.                        *)
(*                                                                         *)
(* A definition marked "Slip" is a wrong variant of the one behind it, by  *)
(* which the properties are tested; no specification uses it.              *)
(***************************************************************************)
EXTENDS Integers, Sequences, SequencesExt

CONSTANTS
  XReg,          (* REGISTER_X: the numbered registers are 0 .. XReg-1     *)
  LastLettered,  (* the last register of the lettered band                 *)
  Kinds,         (* kinds of contents: "number", "text", "nan", "matrix"   *)
  FreeBlocks     (* numbers of free blocks to begin with, in one region    *)

ASSUME RangeAssumption ==
  /\ XReg \in Nat \ {0} /\ LastLettered \in Nat /\ XReg <= LastLettered
  /\ Kinds \subseteq {"number", "text", "nan", "matrix"}
  /\ FreeBlocks \subseteq Nat

VARIABLES
  reg,            (* what the registers hold                               *)
  free,           (* free blocks of the pool                               *)
  lastErrorCode,
  command,        (* the command that was run and its range, or "none"     *)
  before,         (* what the registers held before it                     *)
  freeBefore      (* and the free blocks                                   *)

vars == <<reg, free, lastErrorCode, command, before, freeBefore>>

Registers == 0 .. LastLettered + 1

(***************************************************************************)
(* The contents of a register: kind, the key by which two of a kind        *)
(* compare, and the register it came from, which the code does not see.    *)
(* Garbage is a descriptor read from a scratch block nobody wrote.         *)
(***************************************************************************)
Keys(kind) == IF kind = "number" THEN {0, 1} ELSE {0}
Content == [kind : Kinds, key : {0, 1}, from : Registers]
Zero(r) == [kind |-> "number", key |-> 0, from |-> r]
Garbage == [kind |-> "garbage", key |-> 0, from |-> 0]

(* A NaN is a number to the type test, and compares with nothing.          *)
DataType(c) == IF c.kind = "nan" THEN "number" ELSE c.kind

(* getRegisterFullSizeInBlocks.  The number types are taken to be of one   *)
(* size, texts to be larger: what matters is that some copies need memory. *)
Size(c) == IF c.kind = "text" THEN 2 ELSE 1

(* registerCmp: whether two contents compare, and whether the first is     *)
(* the greater one.                                                        *)
Comparable(a, b) == a.kind = b.kind /\ a.kind \in {"number", "text"}
Greater(a, b) == a.key > b.key

---------------------------------------------------------------------------
(* The end of the band of a range that begins at s; there is none for a    *)
(* register behind the bands.                                              *)
BandEnd(s) == IF s < XReg THEN XReg ELSE LastLettered + 1

(* getRegParamRange: a count of zero is the rest of the band.              *)
Count(s, n) == IF n = 0 THEN BandEnd(s) - s ELSE n
InBand(s, n) == s <= LastLettered /\ s + n <= BandEnd(s)

(* getRegParam reads the range from X, which has to be a real.             *)
ParamError(ranges) ==
  IF DataType(reg[XReg]) # "number" THEN "invalid type"
  ELSE IF reg[XReg].kind = "nan" \/ \E r \in ranges : ~ InBand(r[1], r[2])
    THEN "out of range"
  ELSE "none"

(* The state a command works on, and a command that ends in it.            *)
Calc == [reg |-> reg, free |-> free, err |-> "none"]

Becomes(c) == reg' = c.reg /\ free' = c.free /\ lastErrorCode' = c.err

Fails(error) == Becomes([Calc EXCEPT !.err = error])

---------------------------------------------------------------------------
(* Slip: the room in the pool is not tested.                               *)
PutUntested(c, src, d) ==
  [c EXCEPT !.reg[d] = src, !.free = @ + Size(c.reg[d]) - Size(src)]

(***************************************************************************)
(* Register d gets the contents src.  A change of size or type takes a new *)
(* block, if there is room for two of them (reallocateRegister); without   *)
(* room d keeps what it had.                                               *)
(***************************************************************************)
Put(c, src, d) ==
  LET old == c.reg[d]
  IN  IF DataType(old) # DataType(src) /\ c.free < 2 * Size(src)
        THEN [c EXCEPT !.err = "RAM full"]
        ELSE [c EXCEPT !.reg[d] = src, !.free = @ + Size(old) - Size(src)]

Positions(n) == [i \in 1 .. n |-> i - 1]

(* clearRegister for every register of the range, with the zero of the     *)
(* normal input mode; a register without memory for it is passed over.     *)
regClr(s, count) ==
  LET n == Count(s, count)
      e == ParamError({<<s, n>>})
  IN  IF e # "none"
        THEN Fails(e)
        ELSE Becomes(FoldLeft(LAMBDA c, i : Put(c, Zero(s + i), s + i),
                              Calc, Positions(n)))

(* Slip: always from the first register to the last.                       *)
copyDirectionAscending(s, d) == IF s # d THEN "ascending" ELSE "none"

copyDirection(s, d) ==
  CASE s > d -> "ascending" [] s < d -> "descending" [] s = d -> "none"

(* The copy stops at the first register without memory for it.             *)
regCopy(s, count, d) ==
  LET n == Count(s, count)
      e == ParamError({<<s, n>>, <<d, n>>})
      order == CASE copyDirection(s, d) = "ascending"  -> Positions(n)
                 [] copyDirection(s, d) = "descending" -> Reverse(Positions(n))
                 [] copyDirection(s, d) = "none"       -> <<>>
  IN  IF e # "none"
        THEN Fails(e)
        ELSE Becomes(FoldLeft(LAMBDA c, i :
                                IF c.err = "RAM full" THEN c
                                ELSE Put(c, c.reg[s + i], d + i),
                              Calc, order))

rangesOverlap(s, d, n) == d < s + n /\ s < d + n

regSwap(s, count, d) ==
  LET n == Count(s, count)
      e == ParamError({<<s, n>>, <<d, n>>})
  IN  CASE e # "none" -> Fails(e)
        [] e = "none" /\ rangesOverlap(s, d, n) -> Fails("out of range")
        [] OTHER ->
             Becomes(FoldLeft(LAMBDA c, i :
                       [c EXCEPT !.reg[s + i] = c.reg[d + i],
                                 !.reg[d + i] = c.reg[s + i]],
                     Calc, Positions(n)))

---------------------------------------------------------------------------
(* Slip: of two equal registers the right one goes first.                  *)
FromLeftUnstable(r, pos1, pos2, center, last) ==
  pos2 > last \/ (pos1 <= center /\ Greater(r[pos2], r[pos1]))

(* Which of the two runs the next register is taken from.                  *)
FromLeft(r, pos1, pos2, center, last) ==
  pos2 > last \/ (pos1 <= center /\ ~ Greater(r[pos1], r[pos2]))

(***************************************************************************)
(* The merge.  The comparison comes first, also when one run is used up:   *)
(* pos2 is then the register behind the range.  A pair that does not       *)
(* compare leaves the slot of the scratch block as it was.                 *)
(***************************************************************************)
Merge(r, first, center, last) ==
  LET step(m, i) ==
        IF ~ Comparable(r[m.pos1], r[m.pos2]) THEN m
        ELSE IF FromLeft(r, m.pos1, m.pos2, center, last)
          THEN [m EXCEPT !.sorted[first + i] = r[m.pos1], !.pos1 = @ + 1]
          ELSE [m EXCEPT !.sorted[first + i] = r[m.pos2], !.pos2 = @ + 1]
      none == [pos1 |-> first, pos2 |-> center + 1,
               sorted |-> [k \in first .. last |-> Garbage]]
      sorted == FoldLeft(step, none, Positions(last - first + 1)).sorted
  IN  [k \in DOMAIN r |-> IF k \in first .. last THEN sorted[k] ELSE r[k]]

(* Slip: the scratch block is not given back.                              *)
freeScratchNever(c, n) == c

freeScratch(c, n) == [c EXCEPT !.free = @ + n]

(***************************************************************************)
(* sortRegisterRange: two registers are swapped in place, more are sorted  *)
(* by halves and merged through a scratch block, which is claimed before   *)
(* the halves are sorted.                                                  *)
(***************************************************************************)
RECURSIVE sortRegisterRange(_, _, _)
sortRegisterRange(c, first, last) ==
  LET n      == last - first + 1
      center == (last - first) \div 2 + first
      held   == [c EXCEPT !.free = @ - n]
      halves == sortRegisterRange(sortRegisterRange(held, first, center),
                                  center + 1, last)
      merged == [halves EXCEPT !.reg = Merge(@, first, center, last)]
  IN  CASE n = 1 -> c
        [] n = 2 -> IF /\ Comparable(c.reg[first], c.reg[last])
                       /\ Greater(c.reg[first], c.reg[last])
                      THEN [c EXCEPT !.reg[first] = c.reg[last],
                                     !.reg[last] = c.reg[first]]
                      ELSE c
        [] n > 2 /\ c.free < n -> [c EXCEPT !.err = "RAM full"]
        [] n > 2 /\ c.free >= n /\ c.err = "RAM full" -> held
        [] OTHER -> freeScratch(merged, n)

(* Only a range that begins with a number, a text, a date or a time is     *)
(* tested to be all of one type.                                           *)
MixedTypes(s, n) ==
  /\ reg[s].kind # "matrix"
  /\ \E i \in s .. s + n - 1 : DataType(reg[i]) # DataType(reg[s])

regSort(s, count) ==
  LET n == Count(s, count)
      e == ParamError({<<s, n>>})
  IN  CASE e # "none" -> Fails(e)
        [] e = "none" /\ MixedTypes(s, n) -> Fails("invalid type")
        [] OTHER -> Becomes(sortRegisterRange(Calc, s, s + n - 1))

---------------------------------------------------------------------------
(* The registers hold anything; one command is run.                        *)
Init ==
  /\ \E kind \in [Registers -> Kinds] :
       \E key \in [Registers -> {0, 1}] :
         /\ \A r \in Registers : key[r] \in Keys(kind[r])
         /\ reg = [r \in Registers |->
                     [kind |-> kind[r], key |-> key[r], from |-> r]]
  /\ free \in FreeBlocks
  /\ lastErrorCode = "none"
  /\ command = [name |-> "none"]
  /\ before = reg
  /\ freeBefore = free

Run(name, s, n, d) ==
  /\ command' = [name |-> name, s |-> s, n |-> Count(s, n), d |-> d]
  /\ before' = reg
  /\ freeBefore' = free

Next ==
  /\ command.name = "none"
  /\ \E s \in Registers, n \in 0 .. LastLettered + 1 :
       \/ regClr(s, n) /\ Run("clear", s, n, s)
       \/ regSort(s, n) /\ Run("sort", s, n, s)
       \/ \E d \in Registers :
            \/ regCopy(s, n, d) /\ Run("copy", s, n, d)
            \/ regSwap(s, n, d) /\ Run("swap", s, n, d)

Spec == Init /\ [][Next]_vars

---------------------------------------------------------------------------
(* Every variable has its type.                                            *)
TypeOK ==
  /\ reg \in [Registers -> Content \union {Garbage}
                            \union {Zero(r) : r \in Registers}]
  /\ before \in [Registers -> Content]
  /\ {free, freeBefore} \subseteq Nat
  /\ lastErrorCode \in {"none", "invalid type", "out of range", "RAM full"}

Succeeded(name) == command.name = name /\ lastErrorCode = "none"

From(first) == first .. first + command.n - 1

(***************************************************************************)
(* R-COPY and R-SWAP act as if on all registers of their ranges at once: a *)
(* copy to an overlapping range does not read what it has just written,    *)
(* and a swap that goes through has exchanged the two ranges               *)
(* (register_range_ops.zig, "picks an iteration direction that avoids      *)
(* clobbering the overlap").                                               *)
(***************************************************************************)
RangesMoveAtOnce ==
  /\ Succeeded("copy") =>
       \A r \in Registers :
         reg[r] = IF r \in From(command.d)
                    THEN before[r - command.d + command.s] ELSE before[r]
  /\ Succeeded("swap") =>
       \A r \in Registers :
         reg[r] = CASE r \in From(command.d) -> before[r - command.d + command.s]
                    [] r \in From(command.s) -> before[r - command.s + command.d]
                    [] OTHER -> before[r]

(* All registers of a set compare with each other.                         *)
AllComparable(R) == \A i, j \in R : Comparable(before[i], before[j])

(* The range is the one before, in ascending order, equal registers in     *)
(* the order they had, and nothing else has changed.                       *)
StablySorted(s, n) ==
  /\ {reg[i] : i \in s .. s + n - 1} = {before[i] : i \in s .. s + n - 1}
  /\ \A i, j \in s .. s + n - 1 : i < j =>
       /\ ~ Greater(reg[i], reg[j])
       /\ reg[i].key = reg[j].key => reg[i].from < reg[j].from
  /\ \A r \in Registers \ (s .. s + n - 1) : reg[r] = before[r]

(***************************************************************************)
(* R-SORT is a stable sort, through any number of levels and at any        *)
(* length, as long as the register behind the range compares with those in *)
(* it ("keep their input order", stack_register_commands.zig).             *)
(***************************************************************************)
SortIsStable ==
  Succeeded("sort") /\ AllComparable(command.s .. command.s + command.n) =>
    StablySorted(command.s, command.n)

(***************************************************************************)
(* The same for any neighbour: R-SORT is "a recursive merge sort of the    *)
(* register descriptors across the range" (stack_register_commands.zig:4). *)
(***************************************************************************)
SortDependsOnItsRange ==
  Succeeded("sort") /\ AllComparable(From(command.s)) =>
    StablySorted(command.s, command.n)

(***************************************************************************)
(* No block is lost or gained: what the registers and the free list held   *)
(* before a command, they hold after it.  R-CLR and R-COPY change sizes    *)
(* and may run out of memory half way, R-SORT claims and returns a scratch *)
(* block on every level.  An R-SORT that runs out of memory is excepted:   *)
(* a half that finds no memory leaves the other half with its scratch      *)
(* block, which is not returned (stack_register_commands.zig:37).          *)
(***************************************************************************)
BlocksHeld(r) == SumFunction([i \in DOMAIN r |-> Size(r[i])])

PoolKept ==
  (/\ command.name = "sort" => lastErrorCode # "RAM full"
   /\ \A r \in Registers : reg[r] # Garbage)
  => free + BlocksHeld(reg) = freeBefore + BlocksHeld(before)
=============================================================================
