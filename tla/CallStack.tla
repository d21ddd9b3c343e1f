----------------------------- MODULE CallStack -----------------------------
(***************************************************************************)
(* What subroutine levels promise: calls and returns that nest, local      *)
(* registers that belong to one call, and a call or a LocR that is refused *)
(* changes nothing.  Blocks, links and level numbers are not visible.      *)
(* SubroutineLevels implements it.                                         *)
(***************************************************************************)
EXTENDS Integers, Sequences

CONSTANTS
  Points,     (* where a program can be                                    *)
  Values,     (* what a local register can hold                            *)
  Zero,       (* what a new one holds                                      *)
  Sizes,      (* how many local registers a program asks for               *)
  NoLocals    (* a call that has declared nothing; no point to return to   *)

VARIABLES
  frames,     (* the calls that have not returned, the main program first  *)
  at          (* the point the program is at                               *)

vars == <<frames, at>>

top == Len(frames)
locals == frames[top].locals

Init ==
  /\ at \in Points
  /\ frames = <<[ret |-> NoLocals, locals |-> NoLocals]>>

Call(p) ==
  /\ frames' = Append(frames, [ret |-> at, locals |-> NoLocals])
  /\ at' = p

Return ==
  /\ top > 1
  /\ at' = frames[top].ret
  /\ frames' = SubSeq(frames, 1, top - 1)

(* LocR, FOR and NEXT: the registers that stay keep what they hold.        *)
Resize(n) ==
  LET held == IF locals = NoLocals THEN <<>> ELSE locals
  IN /\ frames' = [frames EXCEPT ![top].locals =
                     [i \in 1 .. n |-> IF i <= Len(held) THEN held[i] ELSE Zero]]
     /\ UNCHANGED at

Store(i, v) ==
  /\ frames' = [frames EXCEPT ![top].locals[i] = v]
  /\ UNCHANGED at

(* The main program gives up its local registers.                          *)
Restart(p) ==
  /\ top = 1
  /\ frames' = [frames EXCEPT ![1].locals = NoLocals]
  /\ at' = p

Jump(p) == at' = p /\ UNCHANGED frames

Next ==
  \/ \E p \in Points : Call(p) \/ Restart(p) \/ Jump(p)
  \/ Return
  \/ \E n \in Sizes : Resize(n)
  \/ \E v \in Values : locals # NoLocals /\ \E i \in DOMAIN locals : Store(i, v)

Spec == Init /\ [][Next]_vars
=============================================================================
