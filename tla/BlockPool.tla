----------------------------- MODULE BlockPool -----------------------------
(***************************************************************************)
(* What the allocator promises its callers, without a free list: a claim   *)
(* yields some run of unused blocks, fails only when there is none, and a  *)
(* caller keeps its blocks until it gives them back.                       *)
(***************************************************************************)
EXTENDS Integers

CONSTANTS RamSize, Region0Addr, NULL, NONE, Claims

VARIABLES
  inUse,         (* the blocks in the callers' hands                       *)
  programStart,  (* the program area is programStart .. RamSize-1          *)
  answer,        (* what the last call returned, NONE if nothing           *)
  running        (* FALSE once the program has given up                    *)

vars == <<inUse, programStart, answer, running>>

Size(claimed) == IF claimed = 0 THEN 1 ELSE claimed

(* The n blocks from p on lie in the pool and in nobody's hands.           *)
Unused(p, n) ==
  /\ Region0Addr <= p /\ p + n <= programStart
  /\ \A a \in inUse :
       p + n <= a.blockAddress \/ a.blockAddress + Size(a.claimed) <= p

Init ==
  /\ inUse = {}
  /\ programStart = RamSize - 1
  /\ answer = NONE
  /\ running = TRUE

Claim(claimed) ==
  /\ running
  /\ \/ \E p \in Region0Addr .. RamSize :
          /\ Unused(p, Size(claimed))
          /\ inUse' = inUse \union {[blockAddress |-> p, claimed |-> claimed]}
          /\ answer' = p
     \/ /\ \A p \in Region0Addr .. RamSize : ~ Unused(p, Size(claimed))
        /\ answer' = NULL
        /\ UNCHANGED inUse
  /\ UNCHANGED <<programStart, running>>

GiveBack(a) ==
  /\ running
  /\ inUse' = inUse \ {a}
  /\ answer' = NONE
  /\ UNCHANGED programStart
  /\ running' \in BOOLEAN

Move(a, claimed) ==
  /\ running
  /\ \/ /\ \E p \in Region0Addr .. RamSize :
             /\ Unused(p, Size(claimed))
             /\ inUse' = (inUse \ {a})
                   \union {[blockAddress |-> p, claimed |-> claimed]}
             /\ answer' = p
        /\ running' \in BOOLEAN
     \/ /\ \A p \in Region0Addr .. RamSize : ~ Unused(p, Size(claimed))
        /\ answer' = NULL
        /\ UNCHANGED <<inUse, running>>
  /\ UNCHANGED programStart

Shorten(a, claimed) ==
  /\ running
  /\ claimed \in 1 .. a.claimed - 1
  /\ inUse' = (inUse \ {a})
        \union {[blockAddress |-> a.blockAddress, claimed |-> claimed]}
  /\ answer' = NONE
  /\ UNCHANGED programStart
  /\ running' \in BOOLEAN

(* The program area keeps a block of its own, and its new extent is taken  *)
(* from nobody.                                                            *)
MovePrograms(start) ==
  /\ running
  /\ start < RamSize
  /\ \A a \in inUse : a.blockAddress + Size(a.claimed) <= start
  /\ Region0Addr <= start
  /\ programStart' = start
  /\ answer' = NONE
  /\ UNCHANGED <<inUse, running>>

(* The program gives up; it may lose its program area on the way.          *)
GiveUp ==
  /\ running
  /\ running' = FALSE
  /\ answer' = NONE
  /\ programStart' \in {programStart, NULL}
  /\ UNCHANGED inUse

Next ==
  \/ \E claimed \in Claims : Claim(claimed)
  \/ \E a \in inUse :
       \/ GiveBack(a)
       \/ \E claimed \in Claims : Move(a, claimed) \/ Shorten(a, claimed)
  \/ \E start \in Region0Addr .. RamSize - 1 : MovePrograms(start)
  \/ GiveUp

Spec == Init /\ [][Next]_vars
=============================================================================
