----------------------------- MODULE ValueStack -----------------------------
(***************************************************************************)
(* What the RPN stack promises: a stack of values, a last X and a register *)
(* that functions change as a whole or not at all, and one level of undo,  *)
(* which takes back the last function.  Blocks, copies and the order of    *)
(* the steps are not visible.  RegisterStack implements it until memory    *)
(* runs out where the code does not expect it.                             *)
(***************************************************************************)
EXTENDS Integers

CONSTANTS Top, Values, Zero, None

VARIABLES
  vals,    (* 0 .. Top: the stack from X up; then last X and a register    *)
  lift,    (* the next value pushes the stack up                           *)
  saved,   (* stack, last X and lift before the last function, or None     *)
  short    (* memory ran out in the middle of a function                   *)

vars == <<vals, lift, saved, short>>

L == Top + 1
R == Top + 2
Cells == 0 .. R

---------------------------------------------------------------------------
(* A value arrives in X.                                                   *)
Push(v, up) ==
  [c \in Cells |-> CASE c = 0 -> v
                     [] c \in 1 .. Top /\ up -> vals[c - 1]
                     [] OTHER -> vals[c]]

Without(cell) == [c \in Cells |-> IF c \in cell .. Top - 1 THEN vals[c + 1] ELSE vals[c]]

Swap(a, b) == [vals EXCEPT ![a] = vals[b], ![b] = vals[a]]

Effect(name, v) ==
  CASE name = "SwapXY"      -> Swap(0, 1)
    [] name = "SwapX"       -> Swap(0, R)
    [] name = "RollUp"      -> Push(vals[Top], TRUE)
    [] name = "RollDown"    -> [Without(0) EXCEPT ![Top] = vals[0]]
    [] name = "ClX"         -> [vals EXCEPT ![0] = Zero]
    [] name = "Drop"        -> Without(0)
    [] name = "DropY"       -> Without(1)
    [] name = "FillStack"   -> [c \in Cells |-> IF c <= Top THEN vals[0] ELSE vals[c]]
    [] name = "Enter"       -> Push(vals[0], TRUE)
    [] name = "RecallStack" -> Push(vals[Top], lift)
    [] name = "Recall"      -> Push(vals[R], lift)
    [] name = "LastX"       -> Push(vals[L], lift)
    [] name = "Store"       -> [vals EXCEPT ![R] = vals[0]]
    [] name = "StoreL"      -> [vals EXCEPT ![L] = vals[0]]
    [] name = "Constant"    -> Push(v, lift)
    [] name = "Add"         -> [Without(1) EXCEPT ![0] = v, ![L] = vals[0]]

Names == {"SwapXY", "SwapX", "RollUp", "RollDown", "ClX", "Drop", "DropY",
          "FillStack", "Enter", "RecallStack", "Recall", "LastX", "Store",
          "StoreL", "Constant", "Add"}

(* These go on without a saved state; the others are refused.              *)
RunsWithoutUndo == {"SwapXY", "SwapX", "RollUp", "RollDown", "ClX"}

(* ENTER takes the lift to be set.                                         *)
Snapshot(name) == [vals |-> [c \in 0 .. L |-> vals[c]],
                   lift |-> lift \/ name = "Enter"]

Done(name) ==
  /\ lift' = (name \notin {"ClX", "Enter"})
  /\ \/ saved' = Snapshot(name)
     \/ name \in RunsWithoutUndo /\ saved' = None
  /\ \E v \in Values : vals' = Effect(name, v)
  /\ UNCHANGED short

(* Memory ran out, and nothing has happened; there is nothing to undo.     *)
Failed(name) ==
  /\ saved' = None
  /\ lift' \in {lift, lift \/ name = "Enter"}
  /\ UNCHANGED <<vals, short>>

Undo ==
  /\ saved # None
  /\ saved' = None
  /\ lift' = saved.lift
  /\ vals' = [c \in Cells |-> IF c = R THEN vals[R] ELSE saved.vals[c]]
  /\ UNCHANGED short

(* Nothing is promised from here on.                                       *)
Shortage == short' = TRUE

Init ==
  /\ vals \in [Cells -> Values]
  /\ lift \in BOOLEAN
  /\ saved = None
  /\ short = FALSE

Next ==
  \/ /\ ~ short
     /\ \/ \E name \in Names : Done(name) \/ Failed(name)
        \/ Undo
  \/ Shortage

Spec == Init /\ [][Next]_vars
=============================================================================
