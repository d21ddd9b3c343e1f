--------------------------- MODULE RegisterStack ---------------------------
(***************************************************************************)
(* The RPN stack, its undo copy and the functions that move and copy       *)
(* registers, on registers that own blocks of the pool.                    *)
(*                                                                         *)
(*   src/src/core/state/stack/           lift, drop, fill, roll, swap,     *)
(*                                       clear, saveForUndo, undo          *)
(*   src/src/core/state/register_metadata/register_metadata_reallocate.zig *)
(*   src/src/shell/display/items/items.zig            reallyRunFunction    *)
(*                                                                         *)
(* A function runs from the keyboard, in the normal mode: its state is     *)
(* saved for undo, its steps are taken, and after an error the saved state *)
(* is put back.  The steps are the copies and moves its handler makes, one *)
(* after the other; nothing comes between them.                            *)
(*                                                                         *)
(* A definition marked "Slip" is a wrong variant of the one behind it, by  *)
(* which the properties are tested; no specification uses it.              *)
(***************************************************************************)
EXTENDS Integers, Sequences, FiniteSets

CONSTANTS
  Top,         (* the top of the stack, REGISTER_T or REGISTER_D; X is 0   *)
  Blocks,      (* blocks of memory; register r begins with block r         *)
  Values,      (* what a register can hold                                 *)
  Zero,        (* the real 0 among them                                    *)
  Junk,        (* what a new block holds                                   *)
  Size,        (* memory each of them takes                                *)
  FreeMemory,  (* amounts of memory the rest of the program leaves free    *)
  None         (* stands for a state that was not saved                    *)

Contents == Values \union {Junk}

---------------------------------------------------------------------------
(* The registers: the stack from X up, L, a general register, the          *)
(* temporary one, and the saved copies of stack and L.                     *)
X == 0
Y == 1
StackRegs == 0 .. Top
L == Top + 1
R == Top + 2
Temp == Top + 3
savedRegisterFor(r) == Top + 4 + r
Registers == 0 .. 2 * Top + 5

ASSUME StackAssumption ==
  /\ Top \in Nat /\ Top >= 2
  /\ Registers \subseteq Blocks
  /\ Zero \in Values /\ Junk \notin Values
  /\ Size \in [Contents -> Nat \ {0}] /\ Size[Junk] = Size[Zero]
  /\ FreeMemory \subseteq Nat
  /\ None \notin [vals : [0 .. L -> Contents], lift : BOOLEAN]

VARIABLES
  desc,        (* the block each register's descriptor points to           *)
  heap,        (* the contents of the blocks                               *)
  inUse,       (* the blocks the pool has handed out                       *)
  free,        (* the memory that is left                                  *)
  lift,        (* FLAG_ASLIFT                                              *)
  savedLift,   (* FLAG_ASLIFT in savedSystemFlags0                         *)
  canUndo,     (* thereIsSomethingToUndo                                   *)
  err,         (* lastErrorCode                                            *)
  func,        (* the function that runs or ran last                       *)
  phase,       (* how far reallyRunFunction has come                       *)
  todo,        (* the steps still to be taken in this phase                *)
  claimFailed, (* a block was claimed without a test and there was none    *)
  undoFailed,  (* undo could not copy a register back                      *)
  before       (* contents and flags before the function                   *)

memory  == <<desc, heap, inUse, free>>
flags   == <<lift, savedLift, canUndo>>
history == <<claimFailed, undoFailed, before>>
vars    == <<memory, flags, err, func, phase, todo, history>>

Phases == {"idle", "save", "clear", "run", "undo", "halted"}
Ops == {"copy", "clear", "write", "lift", "drop", "fill", "swap",
        "rollUp", "rollDown"}

(* A step: must says that the handler returns when it fails.  drop does    *)
(* nothing at the top of the stack, and no function asks for it.           *)
Steps == {s \in [op : Ops, src : Registers, dst : Registers, val : Contents,
                 must : BOOLEAN] : s.op = "drop" => s.dst \in 0 .. Top - 1}

Step(op, src, dst, must) ==
  [op |-> op, src |-> src, dst |-> dst, val |-> Zero, must |-> must]

holds(r) == heap[desc[r]]

(* What the history variable keeps.                                        *)
Now == [held      |-> [r \in Registers \ {Temp} |-> holds(r)],
        lift      |-> lift,
        savedLift |-> savedLift,
        canUndo   |-> canUndo]

---------------------------------------------------------------------------
(* The functions: what they do to the undo state (US_STATUS) and to the    *)
(* stack lift (SLS_STATUS), and the steps of their handlers.               *)
Names == {"SwapXY", "SwapX", "RollUp", "RollDown", "ClX", "Drop", "DropY",
          "FillStack", "Enter", "RecallStack", "Recall", "LastX", "Store",
          "StoreL", "Constant", "Add", "Undo"}
Functions == [name : Names, val : Values]

(* US_ENABL_XEQ: runs also if there is no memory to save for undo.         *)
RunsWithoutUndo(f) ==
  f.name \in {"SwapXY", "SwapX", "RollUp", "RollDown", "ClX"}

IsReal(v) == Size[v] = Size[Zero]

(* fnAdd takes its result of real arguments and writes a real, in place.   *)
Applicable(f) ==
  /\ f.name \in {"Constant", "Add"} => IsReal(f.val)
  /\ f.name \notin {"Constant", "Add"} => f.val = Zero
  /\ f.name = "Add" => IsReal(holds(X)) /\ IsReal(holds(Y))

Lift == Step("lift", X, X, FALSE)
Write(v) == [Step("write", X, X, FALSE) EXCEPT !.val = v]
Copy(s, d) == Step("copy", s, d, FALSE)
CopyOrReturn(s, d) == Step("copy", s, d, TRUE)
Fills == [i \in 1 .. Top |-> Step("fill", X, i, TRUE)]

(* fnRecall of a register that is not on the stack.                        *)
RecallFrom(r) ==
  IF lift THEN <<Step("rollUp", X, X, FALSE), Copy(r, X)>> ELSE <<Copy(r, X)>>

(* fnRecall of the top of the stack, which the lift frees.                 *)
RecallTop == <<Copy(Top, Temp), Lift, Copy(Temp, X)>>

keyEnter == <<Lift, CopyOrReturn(Y, X)>>
fnStore(r) == <<Copy(X, r)>>
fnConstant(v) == <<Lift, Write(v)>>

(* processRealComplexDyadicFunction: saveLastX, the result, and the drop   *)
(* of Y in adjustResult.                                                   *)
DyadicFunction(v) ==
  <<CopyOrReturn(X, L), Write(v), Step("drop", X, Y, FALSE)>>

StepsOf(f) ==
  CASE f.name = "SwapXY"      -> <<Step("swap", X, Y, FALSE)>>
    [] f.name = "SwapX"       -> <<Step("swap", X, R, FALSE)>>
    [] f.name = "RollUp"      -> <<Step("rollUp", X, X, FALSE)>>
    [] f.name = "RollDown"    -> <<Step("rollDown", X, X, FALSE)>>
    [] f.name = "ClX"         -> <<Step("clear", X, X, FALSE)>>
    [] f.name = "Drop"        -> <<Step("drop", X, X, FALSE)>>
    [] f.name = "DropY"       -> <<Step("drop", X, Y, FALSE)>>
    [] f.name = "FillStack"   -> Fills
    [] f.name = "Enter"       -> keyEnter
    [] f.name = "RecallStack" -> RecallTop
    [] f.name = "Recall"      -> RecallFrom(R)
    [] f.name = "LastX"       -> RecallFrom(L)
    [] f.name = "Store"       -> fnStore(R)
    [] f.name = "StoreL"      -> fnStore(L)
    [] f.name = "Constant"    -> fnConstant(f.val)
    [] f.name = "Add"         -> DyadicFunction(f.val)
    [] f.name = "Undo"        -> <<>>

(* saveForUndo: from the top down to X, then L, until a copy fails.        *)
SaveSteps == [i \in 1 .. Top + 2 |->
  LET r == IF i = Top + 2 THEN L ELSE Top + 1 - i
  IN  CopyOrReturn(r, savedRegisterFor(r))]

(* clearSavedStackRegisters and SAVED_REGISTER_L.                          *)
ClearSteps == [i \in 1 .. Top + 2 |->
  LET r == IF i = Top + 2 THEN L ELSE Top + 1 - i
  IN  Step("clear", X, savedRegisterFor(r), FALSE)]

(* Slip: L is not put back.                                                *)
UndoStepsWithoutL == [i \in 1 .. Top + 1 |->
  Copy(savedRegisterFor(Top + 1 - i), Top + 1 - i)]

(* undo: the same registers back; a copy that fails is not noticed.        *)
UndoSteps == [i \in 1 .. Top + 2 |->
  LET r == IF i = Top + 2 THEN L ELSE Top + 1 - i
  IN  Copy(savedRegisterFor(r), r)]

---------------------------------------------------------------------------
(* A step that succeeds, and one that fails with an error.                 *)
Continue ==
  /\ todo' = Tail(todo)
  /\ UNCHANGED <<flags, err, func, phase, history>>

FailStep ==
  /\ err' = "RAM_FULL"
  /\ todo' = IF Head(todo).must THEN <<>> ELSE Tail(todo)
  /\ undoFailed' = (undoFailed \/ phase = "undo")
  /\ UNCHANGED <<memory, flags, func, phase, claimFailed, before>>

(* A claim that was not tested and found no memory.  What the calculator   *)
(* does next depends on a null or stale pointer; the model ends here.      *)
HaltStep(error) ==
  /\ err' = error
  /\ claimFailed' = TRUE
  /\ phase' = "halted"
  /\ todo' = <<>>
  /\ UNCHANGED <<flags, func, undoFailed, before>>

(* The next step is op.                                                    *)
StepIs(op) == phase # "idle" /\ todo # <<>> /\ Head(todo).op = op

(* Slip: the memory of the old block is not given back.                    *)
ReplaceLosing(d, r, old, v) ==
  \E b \in Blocks \ (inUse \ {old}) :
    /\ desc' = [d EXCEPT ![r] = b]
    /\ heap' = [heap EXCEPT ![b] = v]
    /\ inUse' = (inUse \ {old}) \union {b}
    /\ free' = IF free >= Size[v] THEN free - Size[v] ELSE 0

(* With descriptors d, register r gives up block old and gets a new one    *)
(* with contents v.                                                        *)
Replace(d, r, old, v) ==
  \E b \in Blocks \ (inUse \ {old}) :
    /\ desc' = [d EXCEPT ![r] = b]
    /\ heap' = [heap EXCEPT ![b] = v]
    /\ inUse' = (inUse \ {old}) \union {b}
    /\ free' = free + Size[heap[old]] - Size[v]

(* Slip: the room is not tested.                                           *)
RoomUntested(v) == TRUE

(* memoryBlockAvailable, before the old block is freed.                    *)
Room(v) == free >= 2 * Size[v]

(* Register r gets contents v: in place if the size is the same, else in   *)
(* a new block (reallocateRegister).                                       *)
Put(r, v) ==
  \/ /\ Size[holds(r)] = Size[v]
     /\ heap' = [heap EXCEPT ![desc[r]] = v]
     /\ UNCHANGED <<desc, inUse, free>>
     /\ Continue
  \/ /\ Size[holds(r)] # Size[v]
     /\ Room(v)
     /\ Replace(desc, r, desc[r], v)
     /\ Continue
  \/ /\ Size[holds(r)] # Size[v]
     /\ ~ Room(v)
     /\ FailStep

copySourceRegisterToDestRegister ==
  /\ StepIs("copy")
  /\ Put(Head(todo).dst, holds(Head(todo).src))

(* A register that has to be retyped is not zeroed while an earlier error  *)
(* is on record.                                                           *)
clearRegister ==
  /\ StepIs("clear")
  /\ LET r == Head(todo).dst
     IN  Put(r, IF err = "RAM_FULL" /\ Size[holds(r)] # Size[Zero]
                  THEN Junk ELSE Zero)

WriteX ==
  /\ StepIs("write")
  /\ heap' = [heap EXCEPT ![desc[X]] = Head(todo).val]
  /\ UNCHANGED <<desc, inUse, free>>
  /\ Continue

(* Block old is freed and one for v claimed, without a test.               *)
Fits(old, v) == free + Size[heap[old]] >= Size[v]

Freed(old) ==
  /\ inUse' = inUse \ {old}
  /\ free' = free + Size[heap[old]]
  /\ UNCHANGED heap

(* The stack moved up by one; Y and X then hold the same descriptor.       *)
MovedUp == [r \in Registers |-> IF r \in 1 .. Top THEN desc[r - 1] ELSE desc[r]]

liftStack ==
  /\ StepIs("lift")
  /\ LET old == IF lift THEN desc[Top] ELSE desc[X]
         d   == IF lift THEN MovedUp ELSE desc
     IN  \/ Fits(old, Junk) /\ Replace(d, X, old, Junk) /\ Continue
         \/ /\ ~ Fits(old, Junk)
            /\ desc' = d
            /\ Freed(old)
            /\ HaltStep(err)

MovedDown(reg) ==
  [r \in Registers |-> IF r \in reg .. Top - 1 THEN desc[r + 1] ELSE desc[r]]

(* Slip: the top register keeps sharing its block with the one below.      *)
dropSharing ==
  /\ StepIs("drop")
  /\ LET reg == Head(todo).dst
     IN  desc' = MovedDown(reg) /\ Freed(desc[reg]) /\ Continue

(* The register below the top gets a copy of the top.                      *)
drop ==
  /\ StepIs("drop")
  /\ LET reg == Head(todo).dst
         v   == holds(Top)
     IN  \/ /\ Fits(desc[reg], v)
            /\ Replace(MovedDown(reg), Top - 1, desc[reg], v)
            /\ Continue
         \/ /\ ~ Fits(desc[reg], v)
            /\ desc' = MovedDown(reg)
            /\ Freed(desc[reg])
            /\ HaltStep("RAM_FULL")

fillStack ==
  /\ StepIs("fill")
  /\ LET reg == Head(todo).dst
         v   == holds(X)
     IN  \/ /\ Fits(desc[reg], v)
            /\ Replace(desc, reg, desc[reg], v)
            /\ Continue
         \/ /\ ~ Fits(desc[reg], v)
            /\ UNCHANGED desc
            /\ Freed(desc[reg])
            /\ HaltStep("RAM_FULL")

swapRegs ==
  /\ StepIs("swap")
  /\ LET s == Head(todo).src
         d == Head(todo).dst
     IN  desc' = [desc EXCEPT ![s] = desc[d], ![d] = desc[s]]
  /\ UNCHANGED <<heap, inUse, free>>
  /\ Continue

rollUp ==
  /\ StepIs("rollUp")
  /\ desc' = [MovedUp EXCEPT ![X] = desc[Top]]
  /\ UNCHANGED <<heap, inUse, free>>
  /\ Continue

rollDown ==
  /\ StepIs("rollDown")
  /\ desc' = [MovedDown(X) EXCEPT ![Top] = desc[X]]
  /\ UNCHANGED <<heap, inUse, free>>
  /\ Continue

---------------------------------------------------------------------------
(* reallyRunFunction.  ENTER sets the lift flag before it saves the state  *)
(* a second time; as nothing has changed in between, the second save only  *)
(* saves the flag.                                                         *)
RunHandler ==
  /\ phase' = "run"
  /\ todo' = StepsOf(func)
  /\ lift' = (lift \/ func.name = "Enter")
  /\ savedLift' = (savedLift \/ func.name = "Enter")

RestoreState ==
  /\ phase' = "undo"
  /\ todo' = UndoSteps
  /\ lift' = savedLift

Begin(f) ==
  /\ phase = "idle"
  /\ Applicable(f)
  /\ func' = f
  /\ err' = "none"
  /\ before' = Now
  /\ \/ /\ f.name # "Undo"
        /\ phase' = "save"
        /\ todo' = SaveSteps
        /\ savedLift' = lift
        /\ UNCHANGED <<lift, canUndo>>
     \/ /\ f.name = "Undo" /\ canUndo
        /\ RestoreState
        /\ UNCHANGED <<savedLift, canUndo>>
     \/ /\ f.name = "Undo" /\ ~ canUndo
        /\ UNCHANGED <<flags, phase, todo>>
  /\ UNCHANGED <<memory, claimFailed, undoFailed>>

SaveEnds ==
  /\ phase = "save" /\ todo = <<>>
  /\ \/ /\ err = "none"
        /\ canUndo' = TRUE
        /\ RunHandler
     \/ /\ err # "none"
        /\ phase' = "clear"
        /\ todo' = ClearSteps
        /\ UNCHANGED flags
  /\ UNCHANGED <<memory, err, func, history>>

(* Without memory to save, only some functions are run.                    *)
ClearEnds ==
  /\ phase = "clear" /\ todo = <<>>
  /\ canUndo' = FALSE
  /\ \/ /\ RunsWithoutUndo(func)
        /\ err' = "none"
        /\ RunHandler
     \/ /\ ~ RunsWithoutUndo(func)
        /\ phase' = "idle"
        /\ UNCHANGED <<lift, savedLift, err, todo>>
  /\ UNCHANGED <<memory, func, history>>

(* After an error the saved state is put back, if there is one; else the   *)
(* lift flag is set or cleared as the function wants it.                   *)
RunEnds ==
  /\ phase = "run" /\ todo = <<>>
  /\ \/ err # "none" /\ canUndo /\ RestoreState
     \/ /\ err # "none" /\ ~ canUndo
        /\ phase' = "idle"
        /\ UNCHANGED <<todo, lift>>
     \/ /\ err = "none"
        /\ phase' = "idle"
        /\ lift' = (func.name \notin {"ClX", "Enter"})
        /\ UNCHANGED todo
  /\ UNCHANGED <<memory, savedLift, canUndo, err, func, history>>

UndoEnds ==
  /\ phase = "undo" /\ todo = <<>>
  /\ phase' = "idle"
  /\ canUndo' = FALSE
  /\ UNCHANGED <<memory, lift, savedLift, err, func, todo, history>>

(* A cleared stack; the general register holds anything.                   *)
Init ==
  /\ desc = [r \in Registers |-> r]
  /\ inUse = Registers
  /\ \E v \in Values : heap = [b \in Blocks |-> IF b = R THEN v ELSE Zero]
  /\ free \in FreeMemory
  /\ lift \in BOOLEAN /\ savedLift = FALSE /\ canUndo = FALSE
  /\ err = "none"
  /\ func = [name |-> "Undo", val |-> Zero]
  /\ phase = "idle" /\ todo = <<>>
  /\ claimFailed = FALSE /\ undoFailed = FALSE
  /\ before = Now

(* Between two functions programs, variables and matrices take memory and  *)
(* give it back.                                                           *)
OtherMemoryUse ==
  /\ phase = "idle"
  /\ free' \in FreeMemory
  /\ UNCHANGED <<desc, heap, inUse, flags, err, func, phase, todo, history>>

TakeStep ==
  \/ copySourceRegisterToDestRegister \/ clearRegister \/ WriteX
  \/ liftStack \/ drop \/ fillStack \/ swapRegs \/ rollUp \/ rollDown

Next ==
  \/ \E f \in Functions : Begin(f)
  \/ OtherMemoryUse
  \/ TakeStep
  \/ SaveEnds \/ ClearEnds \/ RunEnds \/ UndoEnds

Spec == Init /\ [][Next]_vars
---------------------------------------------------------------------------
(* The types.  That free is a natural number says that no step takes more  *)
(* memory than there is: the tests of reallocateRegister and the failing   *)
(* claims of lift, drop and fill are where they have to be.                *)
TypeOK ==
  /\ desc \in [Registers -> Blocks]
  /\ heap \in [Blocks -> Contents]
  /\ inUse \subseteq Blocks
  /\ free \in Nat
  /\ lift \in BOOLEAN /\ savedLift \in BOOLEAN /\ canUndo \in BOOLEAN
  /\ err \in {"none", "RAM_FULL"}
  /\ func \in Functions
  /\ phase \in Phases
  /\ todo \in Seq(Steps)
  /\ claimFailed \in BOOLEAN /\ undoFailed \in BOOLEAN
  /\ before \in [held : [Registers \ {Temp} -> Contents], lift : BOOLEAN,
                 savedLift : BOOLEAN, canUndo : BOOLEAN]

(***************************************************************************)
(* After every step every register owns one block of its own, which is in  *)
(* use, and no block in use is without an owner: the descriptors that      *)
(* liftStack, drop and the rolls move around, the block lift frees before  *)
(* it claims, the copy drop makes at the top, and reallocateRegister's     *)
(* release of the old block.  It ends only where a claim without a test    *)
(* finds no memory.                                                        *)
(***************************************************************************)
Owned ==
  ~ claimFailed =>
    /\ \A q, r \in Registers : desc[q] = desc[r] => q = r
    /\ inUse = {desc[r] : r \in Registers}

---------------------------------------------------------------------------
(* What a function has to do is visible when it has ended.                 *)
Seen == IF phase = "idle" THEN Now ELSE before
OutOfMemory == claimFailed \/ undoFailed

SeenVals == [c \in 0 .. R |-> IF OutOfMemory THEN Zero ELSE Seen.held[c]]
SeenLift == OutOfMemory \/ Seen.lift
SeenSaved ==
  IF OutOfMemory \/ ~ Seen.canUndo THEN None
  ELSE [vals |-> [c \in 0 .. L |-> Seen.held[savedRegisterFor(c)]],
        lift |-> Seen.savedLift]

Abstract == INSTANCE ValueStack WITH
  vals <- SeenVals, lift <- SeenLift, saved <- SeenSaved, short <- OutOfMemory

(***************************************************************************)
(* The registers implement the abstract stack: through every order of      *)
(* lifts, copies and moves, and whatever copies memory is lacking for, a   *)
(* function happens as a whole or not at all (reallyRunFunction's undo     *)
(* after an error) and UNDO takes back exactly the last function - as long *)
(* as no untested claim and no copy of undo itself has failed.             *)
(***************************************************************************)
ImplementsValueStack == Abstract!Spec

(***************************************************************************)
(* Memory is neither lost nor gained: every amount the registers give up   *)
(* in lift, drop, fill and reallocateRegister is given back to the pool    *)
(* in full.                                                                *)
(***************************************************************************)
Memory == free + Cardinality(UNION {{b} \X (1 .. Size[heap[b]]) : b \in inUse})

MemoryAccounted == [][phase # "idle" => Memory' = Memory]_vars
=============================================================================
