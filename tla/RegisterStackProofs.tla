------------------------ MODULE RegisterStackProofs ------------------------
(***************************************************************************)
(* RegisterStack for a stack of any height, any contents and sizes, and    *)
(* any memory: every register owns one block of its own (the types and     *)
(* Owned are kept by every step), the registers implement the abstract     *)
(* ValueStack, and no memory is lost or gained while a function runs.      *)
(***************************************************************************)
EXTENDS RegisterStack, TLAPS, SequenceTheorems, FiniteSetTheorems, FunctionTheorems

(* Register r apart, the descriptors d point to different blocks, which    *)
(* are the ones in use but for old: the state in which a claim for r makes *)
(* up for the block old that was freed.                                    *)
LacksOne(d, r, old) ==
  /\ \A p, q \in Registers \ {r} : d[p] = d[q] => p = q
  /\ inUse \ {old} = {d[q] : q \in Registers \ {r}}

(***************************************************************************)
(* A claim for the register without a block restores ownership             *)
(* (reallocateRegister, and the last lines of liftStack, drop, fillStack). *)
(***************************************************************************)
LEMMA ReplaceOwns ==
  ASSUME NEW d \in [Registers -> Blocks], NEW r \in Registers, NEW old, NEW v,
         LacksOne(d, r, old), Replace(d, r, old, v)
  PROVE  /\ \A p, q \in Registers : desc'[p] = desc'[q] => p = q
         /\ inUse' = {desc'[q] : q \in Registers}
<1>1. PICK b \in Blocks \ (inUse \ {old}) :
        /\ desc' = [d EXCEPT ![r] = b]
        /\ inUse' = (inUse \ {old}) \union {b}
  BY DEF Replace
<1>2. desc'[r] = b /\ \A q \in Registers \ {r} : desc'[q] = d[q]
  BY <1>1
<1>3. \A q \in Registers \ {r} : desc'[q] # b
  BY <1>1, <1>2 DEF LacksOne
<1>4. \A p, q \in Registers : desc'[p] = desc'[q] => p = q
  BY <1>2, <1>3 DEF LacksOne
<1>5. {desc'[q] : q \in Registers} = {d[q] : q \in Registers \ {r}} \union {b}
  BY <1>2
<1> QED BY <1>1, <1>4, <1>5 DEF LacksOne

(***************************************************************************)
(* The claim keeps the types: the memory covers it.                        *)
(***************************************************************************)
LEMMA ReplaceTyped ==
  ASSUME TypeOK, NEW d \in [Registers -> Blocks], NEW r \in Registers,
         NEW old \in Blocks, NEW v \in Contents, Replace(d, r, old, v),
         Fits(old, v)
  PROVE  /\ desc' \in [Registers -> Blocks]
         /\ heap' \in [Blocks -> Contents]
         /\ inUse' \subseteq Blocks
         /\ free' \in Nat
<1>1. PICK b \in Blocks \ (inUse \ {old}) :
        /\ desc' = [d EXCEPT ![r] = b]
        /\ heap' = [heap EXCEPT ![b] = v]
        /\ inUse' = (inUse \ {old}) \union {b}
        /\ free' = free + Size[heap[old]] - Size[v]
  BY DEF Replace
<1>2. free \in Nat /\ Size[heap[old]] \in Nat /\ Size[v] \in Nat
  BY StackAssumption DEF TypeOK
<1>3. free' \in Nat
  BY <1>1, <1>2 DEF Fits
<1> QED BY <1>1, <1>3 DEF TypeOK

---------------------------------------------------------------------------
(***************************************************************************)
(* liftStack: with the stack moved up and the block of the top freed, only *)
(* X lacks a block.                                                        *)
(***************************************************************************)
LEMMA LiftLacksX ==
  ASSUME TypeOK, Owned, ~ claimFailed
  PROVE  /\ MovedUp \in [Registers -> Blocks]
         /\ LacksOne(MovedUp, X, desc[Top])
<1> DEFINE d == MovedUp
<1>1. Top \in Nat /\ Top >= 2 /\ Registers = 0 .. 2 * Top + 5
  BY StackAssumption DEF Registers
<1>2. desc \in [Registers -> Blocks]
  BY DEF TypeOK
<1>3. d \in [Registers -> Blocks]
  BY <1>1, <1>2 DEF MovedUp
<1>4. \A r \in Registers : d[r] = IF r \in 1 .. Top THEN desc[r - 1] ELSE desc[r]
  BY <1>1 DEF MovedUp
<1>5. \A p, q \in Registers : desc[p] = desc[q] => p = q
  BY DEF Owned
<1>6. inUse = {desc[r] : r \in Registers}
  BY DEF Owned
<1> HIDE DEF d
<1>7. \A p, q \in Registers \ {X} : d[p] = d[q] => p = q
  BY <1>1, <1>4, <1>5 DEF X
<1>8. \A q \in Registers \ {X} : d[q] \in inUse \ {desc[Top]}
  BY <1>1, <1>4, <1>5, <1>6 DEF X
<1>9. ASSUME NEW b \in inUse \ {desc[Top]}
      PROVE  \E q \in Registers \ {X} : d[q] = b
  <2>1. PICK r \in Registers : b = desc[r]
    BY <1>6
  <2>2. CASE r \in 0 .. Top - 1
    <3>1. r + 1 \in Registers \ {X} /\ d[r + 1] = desc[r]
      BY <1>1, <1>4, <2>2 DEF X
    <3> QED BY <3>1, <2>1
  <2>3. CASE r \notin 0 .. Top - 1
    <3>1. r # Top
      BY <2>1
    <3>2. r \in Registers \ {X} /\ d[r] = desc[r]
      BY <1>1, <1>4, <2>3, <3>1 DEF X
    <3> QED BY <3>2, <2>1
  <2> QED BY <2>2, <2>3
<1>10. inUse \ {desc[Top]} = {d[q] : q \in Registers \ {X}}
  BY <1>8, <1>9
<1>11. LacksOne(d, X, desc[Top])
  BY <1>7, <1>10 DEF LacksOne
<1> QED BY <1>3, <1>11 DEF d

(***************************************************************************)
(* drop: with the registers above moved down and the block of the dropped  *)
(* one freed, only the register below the top lacks a block of its own.    *)
(***************************************************************************)
LEMMA DropLacksOne ==
  ASSUME TypeOK, Owned, ~ claimFailed, NEW reg \in 0 .. Top - 1
  PROVE  /\ MovedDown(reg) \in [Registers -> Blocks]
         /\ LacksOne(MovedDown(reg), Top - 1, desc[reg])
<1> DEFINE d == MovedDown(reg)
<1>1. Top \in Nat /\ Top >= 2 /\ Registers = 0 .. 2 * Top + 5
  BY StackAssumption DEF Registers
<1>2. desc \in [Registers -> Blocks]
  BY DEF TypeOK
<1>3. d \in [Registers -> Blocks]
  BY <1>1, <1>2 DEF MovedDown
<1>4. \A r \in Registers : d[r] = IF r \in reg .. Top - 1 THEN desc[r + 1] ELSE desc[r]
  BY <1>1 DEF MovedDown
<1>5. \A p, q \in Registers : desc[p] = desc[q] => p = q
  BY DEF Owned
<1>6. inUse = {desc[r] : r \in Registers}
  BY DEF Owned
<1> HIDE DEF d
<1>7. \A p, q \in Registers \ {Top - 1} : d[p] = d[q] => p = q
  BY <1>1, <1>4, <1>5
<1>8. \A q \in Registers \ {Top - 1} : d[q] \in inUse \ {desc[reg]}
  BY <1>1, <1>4, <1>5, <1>6
<1>9. ASSUME NEW b \in inUse \ {desc[reg]}
      PROVE  \E q \in Registers \ {Top - 1} : d[q] = b
  <2>1. PICK r \in Registers : b = desc[r]
    BY <1>6
  <2>2. CASE r \in reg + 1 .. Top - 1
    <3>1. r - 1 \in Registers \ {Top - 1} /\ d[r - 1] = desc[r]
      BY <1>1, <1>4, <2>2
    <3> QED BY <3>1, <2>1
  <2>3. CASE r \notin reg + 1 .. Top - 1
    <3>1. r # reg
      BY <2>1
    <3>2. r \in Registers \ {Top - 1} /\ d[r] = desc[r]
      BY <1>1, <1>4, <2>3, <3>1
    <3> QED BY <3>2, <2>1
  <2> QED BY <2>2, <2>3
<1>10. inUse \ {desc[reg]} = {d[q] : q \in Registers \ {Top - 1}}
  BY <1>8, <1>9
<1>11. LacksOne(d, Top - 1, desc[reg])
  BY <1>7, <1>10 DEF LacksOne
<1> QED BY <1>3, <1>11 DEF d

(***************************************************************************)
(* Descriptors that trade places keep ownership: every one is still there  *)
(* (swapRegs, rollUp, rollDown).                                           *)
(***************************************************************************)
LEMMA PermutedOwns ==
  ASSUME Owned, ~ claimFailed, inUse' = inUse,
         NEW p \in [Registers -> Registers],
         \A q, r \in Registers : p[q] = p[r] => q = r,
         \A r \in Registers : \E q \in Registers : p[q] = r,
         \A r \in Registers : desc'[r] = desc[p[r]]
  PROVE  Owned'
<1>1. \A q, r \in Registers : desc'[q] = desc'[r] => q = r
  BY DEF Owned
<1>2. {desc'[r] : r \in Registers} = {desc[r] : r \in Registers}
  <2>1. \A r \in Registers : desc'[r] \in {desc[q] : q \in Registers}
    OBVIOUS
  <2>2. \A r \in Registers : desc[r] \in {desc'[q] : q \in Registers}
    OBVIOUS
  <2> QED BY <2>1, <2>2
<1> QED BY <1>1, <1>2 DEF Owned

(* swapRegs: two descriptors trade places.                                 *)
LEMMA SwapOwns ==
  ASSUME TypeOK, Owned, ~ claimFailed, inUse' = inUse,
         NEW s \in Registers, NEW d \in Registers,
         desc' = [desc EXCEPT ![s] = desc[d], ![d] = desc[s]]
  PROVE  desc' \in [Registers -> Blocks] /\ Owned'
<1> DEFINE p == [r \in Registers |-> IF r = d THEN s ELSE IF r = s THEN d ELSE r]
<1>1. desc \in [Registers -> Blocks]
  BY DEF TypeOK
<1>2. \A r \in Registers : desc'[r] = desc[p[r]]
  BY <1>1
<1>3. /\ p \in [Registers -> Registers]
      /\ \A q, r \in Registers : p[q] = p[r] => q = r
  OBVIOUS
<1>4. \A r \in Registers : p[p[r]] = r /\ p[r] \in Registers
  OBVIOUS
<1>5. \A r \in Registers : \E q \in Registers : p[q] = r
  BY <1>4
<1> HIDE DEF p
<1>6. Owned'
  BY <1>2, <1>3, <1>5, PermutedOwns
<1> QED BY <1>1, <1>6

(* rollUp: every descriptor goes up by one, the top to X.                  *)
LEMMA RollUpOwns ==
  ASSUME TypeOK, Owned, ~ claimFailed, inUse' = inUse,
         desc' = [MovedUp EXCEPT ![X] = desc[Top]]
  PROVE  desc' \in [Registers -> Blocks] /\ Owned'
<1> DEFINE p == [r \in Registers |-> IF r = 0 THEN Top
                                    ELSE IF r \in 1 .. Top THEN r - 1 ELSE r]
<1>1. desc \in [Registers -> Blocks]
  BY DEF TypeOK
<1>2. Top \in Nat /\ Top >= 2 /\ Registers = 0 .. 2 * Top + 5
  BY StackAssumption DEF Registers
<1>3. \A r \in Registers : desc'[r] = desc[p[r]]
  BY <1>1, <1>2 DEF MovedUp, X
<1>4. /\ p \in [Registers -> Registers]
      /\ \A q, r \in Registers : p[q] = p[r] => q = r
  BY <1>2
<1>5. ASSUME NEW r \in Registers
      PROVE  \E q \in Registers : p[q] = r
  <2> DEFINE q == IF r = Top THEN 0 ELSE IF r \in 0 .. Top - 1 THEN r + 1 ELSE r
  <2>1. q \in Registers /\ p[q] = r
    BY <1>2
  <2> QED BY <2>1
<1>6. desc' \in [Registers -> Blocks]
  BY <1>1, <1>2 DEF MovedUp, X
<1> HIDE DEF p
<1>7. Owned'
  BY <1>3, <1>4, <1>5, PermutedOwns
<1> QED BY <1>6, <1>7

(* rollDown: every descriptor goes down by one, X to the top.              *)
LEMMA RollDownOwns ==
  ASSUME TypeOK, Owned, ~ claimFailed, inUse' = inUse,
         desc' = [MovedDown(X) EXCEPT ![Top] = desc[X]]
  PROVE  desc' \in [Registers -> Blocks] /\ Owned'
<1> DEFINE p == [r \in Registers |-> IF r = Top THEN 0
                                    ELSE IF r \in 0 .. Top - 1 THEN r + 1 ELSE r]
<1>1. desc \in [Registers -> Blocks]
  BY DEF TypeOK
<1>2. Top \in Nat /\ Top >= 2 /\ Registers = 0 .. 2 * Top + 5
  BY StackAssumption DEF Registers
<1>3. \A r \in Registers : desc'[r] = desc[p[r]]
  BY <1>1, <1>2 DEF MovedDown, X
<1>4. /\ p \in [Registers -> Registers]
      /\ \A q, r \in Registers : p[q] = p[r] => q = r
  BY <1>2
<1>5. ASSUME NEW r \in Registers
      PROVE  \E q \in Registers : p[q] = r
  <2> DEFINE q == IF r = 0 THEN Top ELSE IF r \in 1 .. Top THEN r - 1 ELSE r
  <2>1. q \in Registers /\ p[q] = r
    BY <1>2
  <2> QED BY <2>1
<1>6. desc' \in [Registers -> Blocks]
  BY <1>1, <1>2 DEF MovedDown, X
<1> HIDE DEF p
<1>7. Owned'
  BY <1>3, <1>4, <1>5, PermutedOwns
<1> QED BY <1>6, <1>7

---------------------------------------------------------------------------
(* The two halves of the type invariant.                                   *)
MemoryTyped ==
  /\ desc \in [Registers -> Blocks]
  /\ heap \in [Blocks -> Contents]
  /\ inUse \subseteq Blocks
  /\ free \in Nat

ControlTyped ==
  /\ lift \in BOOLEAN /\ savedLift \in BOOLEAN /\ canUndo \in BOOLEAN
  /\ err \in {"none", "RAM_FULL"}
  /\ func \in Functions
  /\ phase \in Phases
  /\ todo \in Seq(Steps)
  /\ claimFailed \in BOOLEAN /\ undoFailed \in BOOLEAN
  /\ before \in [held : [Registers \ {Temp} -> Contents], lift : BOOLEAN,
                 savedLift : BOOLEAN, canUndo : BOOLEAN]

(* A claim that failed without a test ends the behaviour.                  *)
Halted == claimFailed => phase = "halted" /\ todo = <<>>

(***************************************************************************)
(* The inductive invariant: Owned alone does not say that no step follows  *)
(* a failed claim, nor that drop stays below the top.                      *)
(***************************************************************************)
Inv == TypeOK /\ Owned /\ Halted

(* The two halves make up the type invariant.                              *)
LEMMA TypeHalves == (TypeOK <=> MemoryTyped /\ ControlTyped)
  BY DEF TypeOK, MemoryTyped, ControlTyped

(***************************************************************************)
(* The step lists of the functions, of saveForUndo and of undo consist of  *)
(* steps; what drop is asked to drop lies below the top.                   *)
(***************************************************************************)
LEMMA StepsTyped ==
  /\ SaveSteps \in Seq(Steps)
  /\ ClearSteps \in Seq(Steps)
  /\ UndoSteps \in Seq(Steps)
  /\ \A f \in Functions : StepsOf(f) \in Seq(Steps)
<1>1. /\ Top \in Nat /\ Top >= 2 /\ Registers = 0 .. 2 * Top + 5
      /\ Zero \in Contents /\ Values \subseteq Contents
  BY StackAssumption DEF Registers, Contents
<1>2. \A r \in 0 .. L : r \in Registers /\ savedRegisterFor(r) \in Registers
  BY <1>1 DEF L, savedRegisterFor
<1>3. X \in Registers /\ Y \in Registers /\ L \in Registers /\ R \in Registers
      /\ Temp \in Registers /\ Top \in Registers
  BY <1>1 DEF X, Y, L, R, Temp
<1>4. \A op \in Ops \ {"drop"}, s, d \in Registers, m \in BOOLEAN :
        Step(op, s, d, m) \in Steps
  BY <1>1 DEF Step, Steps
<1>5. \A n \in Nat : \A g \in [1 .. n -> Steps] : g \in Seq(Steps)
  BY SeqDef
<1>6. Top + 2 \in Nat /\ \A i \in 1 .. Top + 2 :
        (IF i = Top + 2 THEN L ELSE Top + 1 - i) \in 0 .. L
  BY <1>1 DEF L
<1>7. SaveSteps \in [1 .. Top + 2 -> Steps]
  BY <1>2, <1>4, <1>6 DEF SaveSteps, CopyOrReturn, Ops
<1>8. ClearSteps \in [1 .. Top + 2 -> Steps]
  BY <1>2, <1>3, <1>4, <1>6 DEF ClearSteps, Ops
<1>9. UndoSteps \in [1 .. Top + 2 -> Steps]
  BY <1>2, <1>4, <1>6 DEF UndoSteps, Copy, Ops
<1>10. ASSUME NEW f \in Functions
       PROVE  StepsOf(f) \in Seq(Steps)
  <2>1. Fills \in Seq(Steps)
    <3>1. Fills \in [1 .. Top -> Steps]
      <4>1. \A i \in 1 .. Top : i \in Registers
        BY <1>1
      <4> QED BY <1>3, <1>4, <4>1 DEF Fills, Ops
    <3> QED BY <3>1, <1>1, <1>5
  <2>2. \A s, d \in Registers : Copy(s, d) \in Steps /\ CopyOrReturn(s, d) \in Steps
    BY <1>4 DEF Copy, CopyOrReturn, Ops
  <2>3. Lift \in Steps /\ Step("swap", X, Y, FALSE) \in Steps
        /\ Step("swap", X, R, FALSE) \in Steps
        /\ Step("rollUp", X, X, FALSE) \in Steps
        /\ Step("rollDown", X, X, FALSE) \in Steps
        /\ Step("clear", X, X, FALSE) \in Steps
    BY <1>3, <1>4 DEF Lift, Ops
  <2>4. Write(f.val) \in Steps
    <3>1. f.val \in Contents
      BY <1>1 DEF Functions
    <3> QED BY <1>1, <1>3, <3>1 DEF Write, Step, Steps, Ops
  <2>5. Step("drop", X, X, FALSE) \in Steps /\ Step("drop", X, Y, FALSE) \in Steps
    <3>1. X \in 0 .. Top - 1 /\ Y \in 0 .. Top - 1
      BY <1>1 DEF X, Y
    <3> QED BY <1>1, <1>3, <3>1 DEF Step, Steps, Ops
  <2>6. \A a, b, c \in Steps : /\ <<a>> \in Seq(Steps)
                                /\ <<a, b>> \in Seq(Steps)
                                /\ <<a, b, c>> \in Seq(Steps)
    OBVIOUS
  <2>7. <<>> \in Seq(Steps)
    OBVIOUS
  <2>8. \A r \in Registers : RecallFrom(r) \in Seq(Steps)
    <3> TAKE r \in Registers
    <3>1. Copy(r, X) \in Steps
      BY <1>3, <2>2
    <3>2. <<Copy(r, X)>> \in Seq(Steps)
          /\ <<Step("rollUp", X, X, FALSE), Copy(r, X)>> \in Seq(Steps)
      BY <2>3, <2>6, <3>1, Zenon
    <3> QED BY <3>2 DEF RecallFrom
  <2>9. f.name \in Names
    BY DEF Functions
  <2>10. CASE f.name = "SwapXY"
    BY <2>3, <2>6, <2>10 DEF StepsOf
  <2>11. CASE f.name = "SwapX"
    BY <2>3, <2>6, <2>11 DEF StepsOf
  <2>12. CASE f.name = "RollUp"
    BY <2>3, <2>6, <2>12 DEF StepsOf
  <2>13. CASE f.name = "RollDown"
    BY <2>3, <2>6, <2>13 DEF StepsOf
  <2>14. CASE f.name = "ClX"
    BY <2>3, <2>6, <2>14 DEF StepsOf
  <2>15. CASE f.name = "Drop"
    BY <2>5, <2>6, <2>15 DEF StepsOf
  <2>16. CASE f.name = "DropY"
    BY <2>5, <2>6, <2>16 DEF StepsOf
  <2>17. CASE f.name = "FillStack"
    BY <2>1, <2>17 DEF StepsOf
  <2>18. CASE f.name = "Enter"
    BY <1>3, <2>2, <2>3, <2>6, <2>18 DEF StepsOf, keyEnter
  <2>19. CASE f.name = "RecallStack"
    BY <1>3, <2>2, <2>3, <2>6, <2>19 DEF StepsOf, RecallTop
  <2>20. CASE f.name = "Recall"
    BY <1>3, <2>8, <2>20 DEF StepsOf
  <2>21. CASE f.name = "LastX"
    BY <1>3, <2>8, <2>21 DEF StepsOf
  <2>22. CASE f.name = "Store"
    BY <1>3, <2>2, <2>6, <2>22 DEF StepsOf, fnStore
  <2>23. CASE f.name = "StoreL"
    BY <1>3, <2>2, <2>6, <2>23 DEF StepsOf, fnStore
  <2>24. CASE f.name = "Constant"
    BY <2>3, <2>4, <2>6, <2>24 DEF StepsOf, fnConstant
  <2>25. CASE f.name = "Add"
    BY <1>3, <2>2, <2>4, <2>5, <2>6, <2>25 DEF StepsOf, DyadicFunction
  <2>26. CASE f.name = "Undo"
    BY <2>7, <2>26 DEF StepsOf
  <2> QED
    BY <2>9, <2>10, <2>11, <2>12, <2>13, <2>14, <2>15, <2>16, <2>17, <2>18, <2>19,
       <2>20, <2>21, <2>22, <2>23, <2>24, <2>25, <2>26 DEF Names
<1> QED BY <1>5, <1>6, <1>7, <1>8, <1>9, <1>10

---------------------------------------------------------------------------
(* What holds while a step is under way.                                   *)
LEMMA StepGiven ==
  ASSUME Inv, NEW op, StepIs(op)
  PROVE  /\ ~ claimFailed /\ todo # <<>>
         /\ Head(todo) \in Steps /\ Tail(todo) \in Seq(Steps)
         /\ Head(todo).src \in Registers /\ Head(todo).dst \in Registers
         /\ Head(todo).val \in Contents /\ Head(todo).must \in BOOLEAN
<1>1. ~ claimFailed /\ todo # <<>>
  BY DEF Inv, StepIs, Halted
<1>2. todo \in Seq(Steps)
  BY DEF Inv, TypeOK
<1>3. Head(todo) \in Steps /\ Tail(todo) \in Seq(Steps)
  BY <1>1, <1>2
<1>4. \A s \in Steps : /\ s.src \in Registers /\ s.dst \in Registers
                       /\ s.val \in Contents /\ s.must \in BOOLEAN
  BY DEF Steps
<1> QED BY <1>1, <1>3, <1>4

(* A step that succeeds and leaves every register a block keeps Inv.       *)
LEMMA ContinueKeeps ==
  ASSUME Inv, NEW op, StepIs(op), Continue, MemoryTyped', Owned'
  PROVE  Inv'
<1>1. ~ claimFailed /\ Tail(todo) \in Seq(Steps)
  BY StepGiven
<1>2. ControlTyped'
  BY <1>1 DEF Inv, TypeOK, ControlTyped, Continue, flags, history
<1>3. Halted'
  BY <1>1 DEF Halted, Continue, history
<1>4. TypeOK'
  BY <1>2 DEF TypeOK, MemoryTyped, ControlTyped
<1> QED BY <1>3, <1>4 DEF Inv

(* So does one that is refused.                                            *)
LEMMA FailStepKeeps ==
  ASSUME Inv, NEW op, StepIs(op), FailStep
  PROVE  Inv'
<1>1. ~ claimFailed /\ Tail(todo) \in Seq(Steps) /\ <<>> \in Seq(Steps)
  BY StepGiven
<1>2. todo' \in Seq(Steps)
  BY <1>1 DEF FailStep
<1>3. undoFailed' \in BOOLEAN
  BY DEF FailStep
<1>4. UNCHANGED <<desc, heap, inUse, free, lift, savedLift, canUndo, func, phase,
                  claimFailed, before>> /\ err' = "RAM_FULL"
  BY DEF FailStep, memory, flags
<1>5. TypeOK'
  BY <1>2, <1>3, <1>4 DEF Inv, TypeOK
<1>6. Owned'
  BY <1>4 DEF Inv, Owned
<1> QED BY <1>1, <1>4, <1>5, <1>6 DEF Inv, Halted

(* An untested claim that fails ends the behaviour, with the types kept.   *)
LEMMA HaltStepKeeps ==
  ASSUME Inv, NEW e \in {"none", "RAM_FULL"}, NEW old \in Blocks,
         desc' \in [Registers -> Blocks], Freed(old), HaltStep(e)
  PROVE  Inv'
<1>1. /\ err' = e /\ claimFailed' = TRUE /\ phase' = "halted" /\ todo' = <<>>
      /\ UNCHANGED <<lift, savedLift, canUndo, func, undoFailed, before>>
  BY DEF HaltStep, flags
<1>2. heap' \in [Blocks -> Contents] /\ inUse' \subseteq Blocks
  BY DEF Inv, TypeOK, Freed
<1>3. free' \in Nat
  <2>1. free \in Nat /\ Size[heap[old]] \in Nat
    BY StackAssumption DEF Inv, TypeOK
  <2>2. free' = free + Size[heap[old]]
    BY DEF Freed
  <2> QED BY <2>1, <2>2
<1>4. phase' \in Phases
  BY <1>1 DEF Phases
<1>5. todo' \in Seq(Steps)
  <2>1. <<>> \in Seq(Steps)
    OBVIOUS
  <2> QED BY <1>1, <2>1
<1>6. TypeOK'
  BY <1>1, <1>2, <1>3, <1>4, <1>5 DEF Inv, TypeOK
<1> QED BY <1>1, <1>6 DEF Inv, Owned, Halted

(* A claim that fits, for a register that lacks a block, keeps Inv.        *)
LEMMA ReplaceKeeps ==
  ASSUME Inv, NEW op, StepIs(op), NEW d \in [Registers -> Blocks],
         NEW r \in Registers, NEW old \in Blocks, NEW v \in Contents,
         LacksOne(d, r, old), Fits(old, v), Replace(d, r, old, v), Continue
  PROVE  Inv'
<1>1. TypeOK
  BY DEF Inv
<1>2. MemoryTyped'
  BY <1>1, ReplaceTyped DEF MemoryTyped
<1>3. Owned'
  BY ReplaceOwns DEF Owned
<1> QED BY <1>2, <1>3, ContinueKeeps

(* A register that owns its block lacks one when the block is freed.       *)
LEMMA OwnLacksOne ==
  ASSUME Owned, ~ claimFailed, NEW r \in Registers
  PROVE  LacksOne(desc, r, desc[r])
  BY DEF Owned, LacksOne

(***************************************************************************)
(* Put: in place, in a new block that the test has found room for, or      *)
(* refused (reallocateRegister).                                           *)
(***************************************************************************)
LEMMA PutKeeps ==
  ASSUME Inv, NEW op, StepIs(op), NEW r \in Registers, NEW v \in Contents,
         Put(r, v)
  PROVE  Inv'
<1>1. ~ claimFailed
  BY StepGiven
<1>2. /\ desc \in [Registers -> Blocks] /\ heap \in [Blocks -> Contents]
      /\ inUse \subseteq Blocks /\ free \in Nat
  BY DEF Inv, TypeOK
<1>3. CASE /\ heap' = [heap EXCEPT ![desc[r]] = v]
           /\ UNCHANGED <<desc, inUse, free>>
           /\ Continue
  <2>1. MemoryTyped'
    BY <1>2, <1>3 DEF MemoryTyped
  <2>2. Owned'
    BY <1>3 DEF Inv, Owned, Continue, history
  <2> QED BY <1>3, <2>1, <2>2, ContinueKeeps
<1>4. CASE Room(v) /\ Replace(desc, r, desc[r], v) /\ Continue
  <2>1. Size[heap[desc[r]]] \in Nat /\ Size[v] \in Nat
    BY <1>2, StackAssumption
  <2>2. Fits(desc[r], v)
    BY <1>2, <1>4, <2>1 DEF Fits, Room
  <2>3. LacksOne(desc, r, desc[r])
    BY <1>1, OwnLacksOne DEF Inv
  <2>4. desc[r] \in Blocks
    BY <1>2
  <2> QED BY <1>2, <1>4, <2>2, <2>3, <2>4, ReplaceKeeps
<1>5. CASE FailStep
  BY <1>5, FailStepKeeps
<1> QED BY <1>3, <1>4, <1>5 DEF Put

(***************************************************************************)
(* Every step of a function, of saveForUndo and of undo keeps the          *)
(* invariant.                                                              *)
(***************************************************************************)
LEMMA TakeStepKeeps ==
  ASSUME Inv, TakeStep
  PROVE  Inv'
<1>1. /\ Top \in Nat /\ Top >= 2 /\ Registers = 0 .. 2 * Top + 5
      /\ Zero \in Contents /\ Junk \in Contents
  BY StackAssumption DEF Registers, Contents
<1>2. X \in Registers /\ Top \in Registers /\ Top - 1 \in Registers
  BY <1>1 DEF X
<1>3. /\ TypeOK /\ Owned /\ desc \in [Registers -> Blocks]
      /\ heap \in [Blocks -> Contents] /\ inUse \subseteq Blocks /\ free \in Nat
  BY DEF Inv, TypeOK
<1>4. \A r \in Registers : desc[r] \in Blocks /\ holds(r) \in Contents
  BY <1>3 DEF holds
<1>5. CASE copySourceRegisterToDestRegister
  <2>1. StepIs("copy") /\ Put(Head(todo).dst, holds(Head(todo).src))
    BY <1>5 DEF copySourceRegisterToDestRegister
  <2>2. Head(todo).dst \in Registers /\ holds(Head(todo).src) \in Contents
    BY <1>4, <2>1, StepGiven
  <2> QED BY <2>1, <2>2, PutKeeps
<1>6. CASE clearRegister
  <2> DEFINE v == IF err = "RAM_FULL" /\ Size[holds(Head(todo).dst)] # Size[Zero]
                    THEN Junk ELSE Zero
  <2>1. StepIs("clear") /\ Put(Head(todo).dst, v)
    BY <1>6 DEF clearRegister
  <2>2. Head(todo).dst \in Registers /\ v \in Contents
    BY <1>1, <2>1, StepGiven
  <2> HIDE DEF v
  <2> QED BY <2>1, <2>2, PutKeeps
<1>7. CASE WriteX
  <2>1. /\ StepIs("write") /\ Continue /\ UNCHANGED <<desc, inUse, free>>
        /\ heap' = [heap EXCEPT ![desc[X]] = Head(todo).val]
    BY <1>7 DEF WriteX
  <2>2. Head(todo).val \in Contents
    BY <2>1, StepGiven
  <2>3. MemoryTyped'
    BY <1>3, <2>1, <2>2 DEF MemoryTyped
  <2>4. Owned'
    BY <1>3, <2>1 DEF Owned, Continue, history
  <2> QED BY <2>1, <2>3, <2>4, ContinueKeeps
<1>8. CASE liftStack
  <2> DEFINE old == IF lift THEN desc[Top] ELSE desc[X]
             d   == IF lift THEN MovedUp ELSE desc
  <2>1. /\ StepIs("lift")
        /\ \/ Fits(old, Junk) /\ Replace(d, X, old, Junk) /\ Continue
           \/ desc' = d /\ Freed(old) /\ HaltStep(err)
    BY <1>8 DEF liftStack
  <2>2. ~ claimFailed
    BY <2>1, StepGiven
  <2>3. d \in [Registers -> Blocks] /\ LacksOne(d, X, old)
    BY <1>2, <1>3, <2>2, LiftLacksX, OwnLacksOne
  <2>4. old \in Blocks
    BY <1>2, <1>4
  <2> HIDE DEF old, d
  <2>5. CASE Fits(old, Junk) /\ Replace(d, X, old, Junk) /\ Continue
    BY <1>1, <1>2, <2>1, <2>3, <2>4, <2>5, ReplaceKeeps
  <2>6. CASE desc' = d /\ Freed(old) /\ HaltStep(err)
    <3>1. err \in {"none", "RAM_FULL"}
      BY <1>3 DEF TypeOK
    <3> QED BY <2>3, <2>4, <2>6, <3>1, HaltStepKeeps
  <2> QED BY <2>1, <2>5, <2>6
<1>9. CASE drop
  <2> DEFINE reg == Head(todo).dst
             v   == holds(Top)
  <2>1. /\ StepIs("drop")
        /\ \/ Fits(desc[reg], v) /\ Continue
              /\ Replace(MovedDown(reg), Top - 1, desc[reg], v)
           \/ desc' = MovedDown(reg) /\ Freed(desc[reg]) /\ HaltStep("RAM_FULL")
    BY <1>9 DEF drop
  <2>2. ~ claimFailed /\ Head(todo) \in Steps /\ reg \in Registers
    BY <2>1, StepGiven
  <2>3. reg \in 0 .. Top - 1
    BY <2>1, <2>2 DEF Steps, StepIs
  <2>4. desc[reg] \in Blocks /\ v \in Contents
    BY <1>2, <1>4, <2>2
  <2> HIDE DEF reg, v
  <2>5. /\ MovedDown(reg) \in [Registers -> Blocks]
        /\ LacksOne(MovedDown(reg), Top - 1, desc[reg])
    BY <1>3, <2>2, <2>3, DropLacksOne
  <2>6. CASE Fits(desc[reg], v) /\ Continue
             /\ Replace(MovedDown(reg), Top - 1, desc[reg], v)
    BY <1>2, <2>1, <2>4, <2>5, <2>6, ReplaceKeeps
  <2>7. CASE desc' = MovedDown(reg) /\ Freed(desc[reg]) /\ HaltStep("RAM_FULL")
    BY <2>4, <2>5, <2>7, HaltStepKeeps
  <2> QED BY <2>1, <2>6, <2>7
<1>10. CASE fillStack
  <2> DEFINE reg == Head(todo).dst
             v   == holds(X)
  <2>1. /\ StepIs("fill")
        /\ \/ Fits(desc[reg], v) /\ Continue /\ Replace(desc, reg, desc[reg], v)
           \/ UNCHANGED desc /\ Freed(desc[reg]) /\ HaltStep("RAM_FULL")
    BY <1>10 DEF fillStack
  <2>2. ~ claimFailed /\ reg \in Registers
    BY <2>1, StepGiven
  <2>3. desc[reg] \in Blocks /\ v \in Contents
    BY <1>2, <1>4, <2>2
  <2> HIDE DEF reg, v
  <2>4. LacksOne(desc, reg, desc[reg])
    BY <1>3, <2>2, OwnLacksOne
  <2>5. CASE Fits(desc[reg], v) /\ Continue /\ Replace(desc, reg, desc[reg], v)
    BY <1>3, <2>1, <2>2, <2>3, <2>4, <2>5, ReplaceKeeps
  <2>6. CASE UNCHANGED desc /\ Freed(desc[reg]) /\ HaltStep("RAM_FULL")
    BY <1>3, <2>3, <2>6, HaltStepKeeps
  <2> QED BY <2>1, <2>5, <2>6
<1>11. CASE swapRegs
  <2>1. /\ StepIs("swap") /\ Continue /\ UNCHANGED <<heap, inUse, free>>
        /\ desc' = [desc EXCEPT ![Head(todo).src] = desc[Head(todo).dst],
                               ![Head(todo).dst] = desc[Head(todo).src]]
    BY <1>11 DEF swapRegs
  <2>2. ~ claimFailed /\ Head(todo).src \in Registers /\ Head(todo).dst \in Registers
    BY <2>1, StepGiven
  <2>3. desc' \in [Registers -> Blocks] /\ Owned'
    BY <1>3, <2>1, <2>2, SwapOwns
  <2>4. MemoryTyped'
    BY <1>3, <2>1, <2>3 DEF MemoryTyped
  <2> QED BY <2>1, <2>3, <2>4, ContinueKeeps
<1>12. CASE rollUp
  <2>1. /\ StepIs("rollUp") /\ Continue /\ UNCHANGED <<heap, inUse, free>>
        /\ desc' = [MovedUp EXCEPT ![X] = desc[Top]]
    BY <1>12 DEF rollUp
  <2>2. desc' \in [Registers -> Blocks] /\ Owned'
    BY <1>3, <2>1, StepGiven, RollUpOwns
  <2>3. MemoryTyped'
    BY <1>3, <2>1, <2>2 DEF MemoryTyped
  <2> QED BY <2>1, <2>2, <2>3, ContinueKeeps
<1>13. CASE rollDown
  <2>1. /\ StepIs("rollDown") /\ Continue /\ UNCHANGED <<heap, inUse, free>>
        /\ desc' = [MovedDown(X) EXCEPT ![Top] = desc[X]]
    BY <1>13 DEF rollDown
  <2>2. desc' \in [Registers -> Blocks] /\ Owned'
    BY <1>3, <2>1, StepGiven, RollDownOwns
  <2>3. MemoryTyped'
    BY <1>3, <2>1, <2>2 DEF MemoryTyped
  <2> QED BY <2>1, <2>2, <2>3, ContinueKeeps
<1> QED BY <1>5, <1>6, <1>7, <1>8, <1>9, <1>10, <1>11, <1>12, <1>13 DEF TakeStep

---------------------------------------------------------------------------
(* The first and the last step of reallyRunFunction, and what happens      *)
(* between two functions, leave registers and blocks alone.                *)
LEMMA ControlKeeps ==
  ASSUME Inv, ControlTyped', Halted', UNCHANGED <<desc, heap, inUse, claimFailed>>,
         free' \in Nat
  PROVE  Inv'
<1>1. TypeOK'
  BY DEF Inv, TypeOK, ControlTyped
<1>2. Owned'
  BY DEF Inv, Owned
<1> QED BY <1>1, <1>2 DEF Inv

(***************************************************************************)
(* The initial state satisfies the invariant: every register begins with   *)
(* the block of its own number.                                            *)
(***************************************************************************)
LEMMA InitKeeps == Init => Inv
<1> SUFFICES ASSUME Init PROVE Inv
  OBVIOUS
<1>1. /\ Registers \subseteq Blocks /\ Zero \in Values /\ FreeMemory \subseteq Nat
  BY StackAssumption
<1>2. PICK v \in Values : heap = [b \in Blocks |-> IF b = R THEN v ELSE Zero]
  BY DEF Init
<1>3. /\ desc = [r \in Registers |-> r] /\ inUse = Registers /\ free \in FreeMemory
  BY DEF Init
<1>4. MemoryTyped
  BY <1>1, <1>2, <1>3 DEF MemoryTyped, Contents
<1>5. ControlTyped
  <2>1. \A r \in Registers : holds(r) \in Contents
    BY <1>4 DEF MemoryTyped, holds
  <2>2. before = Now /\ lift \in BOOLEAN /\ savedLift = FALSE /\ canUndo = FALSE
    BY DEF Init
  <2>3. before \in [held : [Registers \ {Temp} -> Contents], lift : BOOLEAN,
                   savedLift : BOOLEAN, canUndo : BOOLEAN]
    BY <2>1, <2>2 DEF Now
  <2>4. func \in Functions
    BY <1>1 DEF Init, Functions, Names
  <2>5. todo \in Seq(Steps)
    <3>1. <<>> \in Seq(Steps)
      OBVIOUS
    <3> QED BY <3>1 DEF Init
  <2> QED BY <2>2, <2>3, <2>4, <2>5 DEF Init, ControlTyped, Phases
<1>6. Owned
  BY <1>3 DEF Owned
<1>7. Halted
  BY DEF Init, Halted
<1> QED BY <1>4, <1>5, <1>6, <1>7, TypeHalves DEF Inv

(***************************************************************************)
(* Every step keeps the invariant.                                         *)
(***************************************************************************)
LEMMA NextKeeps == Inv /\ [Next]_vars => Inv'
<1> SUFFICES ASSUME Inv, [Next]_vars PROVE Inv'
  OBVIOUS
<1>1. /\ lift \in BOOLEAN /\ savedLift \in BOOLEAN /\ canUndo \in BOOLEAN
      /\ func \in Functions /\ todo \in Seq(Steps) /\ free \in Nat
      /\ claimFailed \in BOOLEAN /\ undoFailed \in BOOLEAN
      /\ err \in {"none", "RAM_FULL"} /\ phase \in Phases
      /\ before \in [held : [Registers \ {Temp} -> Contents], lift : BOOLEAN,
                     savedLift : BOOLEAN, canUndo : BOOLEAN]
  BY DEF Inv, TypeOK
<1>2. claimFailed => phase = "halted"
  BY DEF Inv, Halted
<1>3. CASE \E f \in Functions : Begin(f)
  <2> PICK f \in Functions : Begin(f)
    BY <1>3
  <2>1. /\ phase = "idle" /\ func' = f /\ err' = "none" /\ before' = Now
        /\ UNCHANGED <<desc, heap, inUse, free, claimFailed, undoFailed>>
    BY DEF Begin, memory
  <2>2. /\ phase' \in Phases /\ todo' \in Seq(Steps) /\ lift' \in BOOLEAN
        /\ savedLift' \in BOOLEAN /\ canUndo' \in BOOLEAN
    <3>1. CASE phase' = "save" /\ todo' = SaveSteps /\ savedLift' = lift
               /\ UNCHANGED <<lift, canUndo>>
      BY <1>1, <3>1, StepsTyped DEF Phases
    <3>2. CASE RestoreState /\ UNCHANGED <<savedLift, canUndo>>
      BY <1>1, <3>2, StepsTyped DEF Phases, RestoreState
    <3>3. CASE UNCHANGED <<flags, phase, todo>>
      BY <1>1, <3>3 DEF flags
    <3> QED BY <3>1, <3>2, <3>3 DEF Begin
  <2>3. before' \in [held : [Registers \ {Temp} -> Contents], lift : BOOLEAN,
                    savedLift : BOOLEAN, canUndo : BOOLEAN]
    <3>1. \A r \in Registers : holds(r) \in Contents
      BY DEF Inv, TypeOK, holds
    <3> QED BY <1>1, <2>1, <3>1 DEF Now
  <2>4. ControlTyped'
    BY <1>1, <2>1, <2>2, <2>3 DEF ControlTyped
  <2>5. Halted'
    BY <1>2, <2>1 DEF Halted
  <2> QED BY <1>1, <2>1, <2>4, <2>5, ControlKeeps
<1>4. CASE OtherMemoryUse
  <2>1. /\ phase = "idle" /\ free' \in FreeMemory
        /\ UNCHANGED <<desc, heap, inUse, lift, savedLift, canUndo, err, func, phase,
                       todo, claimFailed, undoFailed, before>>
    BY <1>4 DEF OtherMemoryUse, flags, history
  <2>2. free' \in Nat
    BY <2>1, StackAssumption
  <2>3. ControlTyped'
    BY <1>1, <2>1 DEF ControlTyped
  <2>4. Halted'
    BY <1>2, <2>1 DEF Halted
  <2> QED BY <2>1, <2>2, <2>3, <2>4, ControlKeeps
<1>5. CASE TakeStep
  BY <1>5, TakeStepKeeps
<1>6. ASSUME /\ phase \in {"save", "clear", "run", "undo"}
             /\ phase' \in Phases /\ todo' \in Seq(Steps) /\ lift' \in BOOLEAN
             /\ savedLift' \in BOOLEAN /\ canUndo' \in BOOLEAN
             /\ err' \in {"none", "RAM_FULL"}
             /\ UNCHANGED <<memory, func, history>>
      PROVE  Inv'
  <2>1. UNCHANGED <<desc, heap, inUse, free, func, claimFailed, undoFailed, before>>
    BY <1>6 DEF memory, history
  <2>2. ControlTyped'
    BY <1>1, <1>6, <2>1 DEF ControlTyped
  <2>3. Halted'
    BY <1>2, <1>6, <2>1 DEF Halted
  <2> QED BY <1>1, <2>1, <2>2, <2>3, ControlKeeps
<1>7. ASSUME RunHandler
      PROVE  /\ phase' \in Phases /\ todo' \in Seq(Steps) /\ lift' \in BOOLEAN
             /\ savedLift' \in BOOLEAN
  BY <1>1, <1>7, StepsTyped DEF RunHandler, Phases
<1>8. CASE SaveEnds
  <2>1. /\ phase = "save" /\ UNCHANGED <<memory, err, func, history>>
        /\ \/ canUndo' = TRUE /\ RunHandler
           \/ phase' = "clear" /\ todo' = ClearSteps /\ UNCHANGED flags
    BY <1>8 DEF SaveEnds
  <2>2. CASE canUndo' = TRUE /\ RunHandler
    BY <1>1, <1>6, <1>7, <2>1, <2>2
  <2>3. CASE phase' = "clear" /\ todo' = ClearSteps /\ UNCHANGED flags
    <3>1. phase' \in Phases /\ todo' \in Seq(Steps)
          /\ UNCHANGED <<lift, savedLift, canUndo>>
      BY <2>3, StepsTyped DEF Phases, flags
    <3> QED BY <1>1, <1>6, <2>1, <3>1
  <2> QED BY <2>1, <2>2, <2>3
<1>9. CASE ClearEnds
  <2>1. /\ phase = "clear" /\ canUndo' = FALSE /\ UNCHANGED <<memory, func, history>>
        /\ \/ err' = "none" /\ RunHandler
           \/ phase' = "idle" /\ UNCHANGED <<lift, savedLift, err, todo>>
    BY <1>9 DEF ClearEnds
  <2>2. CASE err' = "none" /\ RunHandler
    BY <1>1, <1>6, <1>7, <2>1, <2>2
  <2>3. CASE phase' = "idle" /\ UNCHANGED <<lift, savedLift, err, todo>>
    <3>1. phase' \in Phases
      BY <2>3 DEF Phases
    <3> QED BY <1>1, <1>6, <2>1, <2>3, <3>1
  <2> QED BY <2>1, <2>2, <2>3
<1>10. CASE RunEnds
  <2>1. /\ phase = "run" /\ UNCHANGED <<memory, savedLift, canUndo, err, func, history>>
        /\ \/ RestoreState
           \/ phase' = "idle" /\ UNCHANGED <<todo, lift>>
           \/ /\ phase' = "idle" /\ UNCHANGED todo
              /\ lift' = (func.name \notin {"ClX", "Enter"})
    BY <1>10 DEF RunEnds
  <2>2. phase' \in Phases /\ todo' \in Seq(Steps) /\ lift' \in BOOLEAN
    BY <1>1, <2>1, StepsTyped DEF Phases, RestoreState
  <2> QED BY <1>1, <1>6, <2>1, <2>2
<1>11. CASE UndoEnds
  <2>1. /\ phase = "undo" /\ phase' = "idle" /\ canUndo' = FALSE
        /\ UNCHANGED <<memory, lift, savedLift, err, func, todo, history>>
    BY <1>11 DEF UndoEnds
  <2>2. phase' \in Phases
    BY <2>1 DEF Phases
  <2> QED BY <1>1, <1>6, <2>1, <2>2
<1>12. CASE UNCHANGED vars
  <2>1. UNCHANGED <<desc, heap, inUse, free, lift, savedLift, canUndo, err, func, phase,
                    todo, claimFailed, undoFailed, before>>
    BY <1>12 DEF vars, memory, flags, history
  <2>2. ControlTyped'
    BY <1>1, <2>1 DEF ControlTyped
  <2>3. Halted'
    BY <2>1 DEF Inv, Halted
  <2> QED BY <1>1, <2>1, <2>2, <2>3, ControlKeeps
<1> QED
  BY <1>3, <1>4, <1>5, <1>8, <1>9, <1>10, <1>11, <1>12 DEF Next

---------------------------------------------------------------------------
(***************************************************************************)
(* The inductive invariant holds in every state.                           *)
(***************************************************************************)
THEOREM StackInvariant == Spec => []Inv
  BY InitKeeps, NextKeeps, PTL DEF Spec

(***************************************************************************)
(* The types hold in every state; no step of a function, of saveForUndo or *)
(* of undo takes more memory than is free.                                 *)
(***************************************************************************)
THEOREM StackTyped == Spec => []TypeOK
<1>1. Inv => TypeOK
  BY DEF Inv
<1> QED BY <1>1, StackInvariant, PTL

(***************************************************************************)
(* After every step every register owns one block of its own and no block  *)
(* in use is without an owner, until an untested claim of liftStack, drop  *)
(* or fillStack finds no memory.                                           *)
(***************************************************************************)
THEOREM RegistersOwnTheirBlocks == Spec => []Owned
<1>1. Inv => Owned
  BY DEF Inv
<1> QED BY <1>1, StackInvariant, PTL

---------------------------------------------------------------------------
(* The value of register r after step s of a function, on registers with   *)
(* contents h; up is FLAG_ASLIFT.                                          *)
After(h, s, up, r) ==
  CASE s.op = "copy"     -> IF r = s.dst THEN h[s.src] ELSE h[r]
    [] s.op = "clear"    -> IF r = s.dst THEN Zero ELSE h[r]
    [] s.op = "write"    -> IF r = X THEN s.val ELSE h[r]
    [] s.op = "lift"     -> IF r = X THEN Junk
                            ELSE IF up /\ r \in 1 .. Top THEN h[r - 1] ELSE h[r]
    [] s.op = "drop"     -> IF r \in s.dst .. Top - 1 THEN h[r + 1] ELSE h[r]
    [] s.op = "fill"     -> IF r = s.dst THEN h[X] ELSE h[r]
    [] s.op = "swap"     -> IF r = s.dst THEN h[s.src]
                            ELSE IF r = s.src THEN h[s.dst] ELSE h[r]
    [] s.op = "rollUp"   -> IF r = X THEN h[Top]
                            ELSE IF r \in 1 .. Top THEN h[r - 1] ELSE h[r]
    [] s.op = "rollDown" -> IF r = Top THEN h[X]
                            ELSE IF r \in 0 .. Top - 1 THEN h[r + 1] ELSE h[r]

Apply(h, s, up) == [r \in Registers |-> After(h, s, up, r)]

(* The contents after the steps of a handler, of which there are at most   *)
(* three (FILL apart).                                                     *)
Outcome(h, t, up) ==
  CASE Len(t) = 0 -> h
    [] Len(t) = 1 -> Apply(h, t[1], up)
    [] Len(t) = 2 -> Apply(Apply(h, t[1], up), t[2], up)
    [] Len(t) = 3 -> Apply(Apply(Apply(h, t[1], up), t[2], up), t[3], up)

(* What function f is to make of the stack, L and R of b.                  *)
Pushed(b, v, up, c) ==
  IF c = 0 THEN v ELSE IF c \in 1 .. Top /\ up THEN b[c - 1] ELSE b[c]

Dropped(b, reg, c) == IF c \in reg .. Top - 1 THEN b[c + 1] ELSE b[c]

Target(f, b, up, c) ==
  CASE f.name = "SwapXY"      -> IF c = 0 THEN b[1] ELSE IF c = 1 THEN b[0] ELSE b[c]
    [] f.name = "SwapX"       -> IF c = 0 THEN b[R] ELSE IF c = R THEN b[0] ELSE b[c]
    [] f.name = "RollUp"      -> Pushed(b, b[Top], TRUE, c)
    [] f.name = "RollDown"    -> IF c = Top THEN b[0] ELSE Dropped(b, 0, c)
    [] f.name = "ClX"         -> IF c = 0 THEN Zero ELSE b[c]
    [] f.name = "Drop"        -> Dropped(b, 0, c)
    [] f.name = "DropY"       -> Dropped(b, 1, c)
    [] f.name = "FillStack"   -> IF c <= Top THEN b[0] ELSE b[c]
    [] f.name = "Enter"       -> Pushed(b, b[0], TRUE, c)
    [] f.name = "RecallStack" -> Pushed(b, b[Top], up, c)
    [] f.name = "Recall"      -> Pushed(b, b[R], up, c)
    [] f.name = "LastX"       -> Pushed(b, b[L], up, c)
    [] f.name = "Store"       -> IF c = R THEN b[0] ELSE b[c]
    [] f.name = "StoreL"      -> IF c = L THEN b[0] ELSE b[c]
    [] f.name = "Constant"    -> Pushed(b, f.val, up, c)
    [] f.name = "Add"         -> IF c = 0 THEN f.val ELSE IF c = L THEN b[0]
                                 ELSE Dropped(b, 1, c)

---------------------------------------------------------------------------
(* The steps t are the last ones of the n steps of s.                      *)
Rest(t, s, n) ==
  /\ Len(t) <= n
  /\ \A i \in 1 .. Len(t) : t[i] = s[n - Len(t) + i]

(* The register saveForUndo and undo copy in their i-th step.              *)
Nth(i) == IF i = Top + 2 THEN L ELSE Top + 1 - i

Held == [r \in Registers |-> holds(r)]
Was(r) == before.held[r]

StackUnchanged == \A c \in 0 .. R : holds(c) = Was(c)
StackSaved == \A c \in 0 .. L : holds(savedRegisterFor(c)) = Was(c)
Entering == func.name = "Enter"

Saving ==
  /\ func.name # "Undo"
  /\ lift = before.lift /\ savedLift = before.lift
  /\ StackUnchanged
  /\ err # "none" => todo = <<>>
  /\ err = "none" =>
       /\ Rest(todo, SaveSteps, Top + 2)
       /\ \A i \in 1 .. (Top + 2) - Len(todo) :
            holds(savedRegisterFor(Nth(i))) = Was(Nth(i))

Clearing ==
  /\ func.name # "Undo"
  /\ lift = before.lift /\ savedLift = before.lift
  /\ StackUnchanged
  /\ \A i \in 1 .. Len(todo) : todo[i].op = "clear" /\ todo[i].dst > Temp

RunStep(s) == /\ s.src <= Temp /\ s.dst <= Temp
              /\ s.op = "swap" => s.src = X

Filling ==
  /\ Rest(todo, Fills, Top)
  /\ \A c \in 0 .. R :
       holds(c) = IF c <= Top - Len(todo) THEN Was(0) ELSE Was(c)

OnTheWay ==
  /\ Len(todo) <= 3
  /\ \A c \in 0 .. R :
       Outcome(Held, todo, lift)[c] = Target(func, before.held, before.lift, c)

Running ==
  /\ func.name # "Undo"
  /\ lift = (before.lift \/ Entering) /\ savedLift = lift
  /\ \A i \in 1 .. Len(todo) :
       /\ RunStep(todo[i])
       /\ todo[i].dst = R => Len(todo) = 1 /\ err = "none"
  /\ canUndo => StackSaved
  /\ todo # <<>> \/ err # "none" => holds(R) = Was(R)
  /\ ~ canUndo =>
       /\ RunsWithoutUndo(func)
       /\ Len(todo) <= 1
       /\ err # "none" => todo = <<>> /\ ~ Entering
       /\ todo # <<>> \/ err # "none" => StackUnchanged
  /\ err = "none" => IF func.name = "FillStack" THEN Filling ELSE OnTheWay

Undoing ==
  /\ lift = savedLift
  /\ holds(R) = Was(R)
  /\ Rest(todo, UndoSteps, Top + 2)
  /\ \A i \in 1 .. (Top + 2) - Len(todo) :
       holds(Nth(i)) = holds(savedRegisterFor(Nth(i)))
  /\ func.name = "Undo" =>
       /\ before.canUndo /\ savedLift = before.savedLift
       /\ \A c \in 0 .. L : holds(savedRegisterFor(c)) = Was(savedRegisterFor(c))
  /\ func.name # "Undo" =>
       /\ savedLift = (before.lift \/ Entering)
       /\ StackSaved

ValuesInv ==
  ~ OutOfMemory =>
    /\ phase = "idle" => todo = <<>>
    /\ phase = "save" => Saving
    /\ phase = "clear" => Clearing
    /\ phase = "run" => Running
    /\ phase = "undo" => Undoing
    /\ phase # "halted"

---------------------------------------------------------------------------
(* The registers as numbers.                                               *)
LEMMA RegisterNumbers ==
  /\ Top \in Nat /\ Top >= 2 /\ Registers = 0 .. 2 * Top + 5
  /\ X = 0 /\ Y = 1 /\ L = Top + 1 /\ R = Top + 2 /\ Temp = Top + 3
  /\ \A r : savedRegisterFor(r) = Top + 4 + r
  BY StackAssumption DEF Registers, X, Y, L, R, Temp, savedRegisterFor

(* The i-th register saved or restored: each one is, once.                 *)
LEMMA NthRegister ==
  /\ \A i \in 1 .. Top + 2 : Nth(i) \in 0 .. Top + 1
  /\ \A i, j \in 1 .. Top + 2 : Nth(i) = Nth(j) => i = j
  /\ \A c \in 0 .. Top + 1 : \E i \in 1 .. Top + 2 : Nth(i) = c
<1>1. Top \in Nat /\ L = Top + 1
  BY RegisterNumbers
<1>2. \A i \in 1 .. Top + 2 : Nth(i) \in 0 .. Top + 1
  BY <1>1 DEF Nth
<1>3. \A i, j \in 1 .. Top + 2 : Nth(i) = Nth(j) => i = j
  BY <1>1 DEF Nth
<1>4. ASSUME NEW c \in 0 .. Top + 1
      PROVE  \E i \in 1 .. Top + 2 : Nth(i) = c
  <2>1. CASE c = Top + 1
    <3>1. Top + 2 \in 1 .. Top + 2 /\ Nth(Top + 2) = c
      BY <1>1, <2>1 DEF Nth
    <3> QED BY <3>1
  <2>2. CASE c # Top + 1
    <3>1. Top + 1 - c \in 1 .. Top + 2 /\ Nth(Top + 1 - c) = c
      BY <1>1, <2>2 DEF Nth
    <3> QED BY <3>1
  <2> QED BY <2>1, <2>2
<1> QED BY <1>2, <1>3, <1>4

(* One step less to go.                                                    *)
LEMMA RestTail ==
  ASSUME NEW S, NEW t \in Seq(S), t # <<>>
  PROVE  /\ Len(t) \in Nat \ {0} /\ Head(t) = t[1]
         /\ Tail(t) \in Seq(S) /\ Len(Tail(t)) = Len(t) - 1
         /\ \A i \in 1 .. Len(t) - 1 : Tail(t)[i] = t[i + 1]
         /\ \A s, n : n \in Nat /\ Rest(t, s, n) =>
              Head(t) = s[n - Len(t) + 1] /\ Rest(Tail(t), s, n)
<1>1. Len(t) \in Nat /\ Len(t) # 0
  BY EmptySeq, LenProperties
<1>2. /\ Head(t) = t[1] /\ Tail(t) \in Seq(S) /\ Len(Tail(t)) = Len(t) - 1
      /\ \A i \in 1 .. Len(t) - 1 : Tail(t)[i] = t[i + 1]
  BY <1>1, HeadTailProperties
<1>3. ASSUME NEW s, NEW n \in Nat, Rest(t, s, n)
      PROVE  Head(t) = s[n - Len(t) + 1] /\ Rest(Tail(t), s, n)
  <2>1. Len(t) <= n /\ \A i \in 1 .. Len(t) : t[i] = s[n - Len(t) + i]
    BY <1>3 DEF Rest
  <2>2. Head(t) = s[n - Len(t) + 1]
    BY <1>1, <1>2, <2>1
  <2>3. ASSUME NEW i \in 1 .. Len(Tail(t))
        PROVE  Tail(t)[i] = s[n - Len(Tail(t)) + i]
    <3>1. i + 1 \in 1 .. Len(t) /\ Tail(t)[i] = t[i + 1]
      BY <1>1, <1>2
    <3>2. t[i + 1] = s[n - Len(t) + (i + 1)]
      BY <2>1, <3>1
    <3>3. n - Len(t) + (i + 1) = n - Len(Tail(t)) + i
      BY <1>1, <1>2
    <3> QED BY <3>1, <3>2, <3>3
  <2>4. Len(Tail(t)) <= n
    BY <1>1, <1>2, <2>1
  <2> QED BY <2>2, <2>3, <2>4 DEF Rest
<1> QED BY <1>1, <1>2, <1>3

---------------------------------------------------------------------------
(* What a claim for register r makes of the contents.                      *)
LEMMA ReplaceValues ==
  ASSUME NEW d \in [Registers -> Blocks], NEW r \in Registers, NEW old, NEW v,
         LacksOne(d, r, old), Replace(d, r, old, v), TypeOK
  PROVE  holds(r)' = v /\ \A q \in Registers \ {r} : holds(q)' = heap[d[q]]
<1>1. PICK b \in Blocks \ (inUse \ {old}) :
        desc' = [d EXCEPT ![r] = b] /\ heap' = [heap EXCEPT ![b] = v]
  BY DEF Replace
<1>2. desc'[r] = b /\ \A q \in Registers \ {r} : desc'[q] = d[q] /\ d[q] # b
  BY <1>1 DEF LacksOne
<1>3. heap \in [Blocks -> Contents] /\ \A q \in Registers : d[q] \in Blocks
  BY DEF TypeOK
<1> QED BY <1>1, <1>2, <1>3 DEF holds

(* A copy or a reset changes its own register, or fails.                   *)
LEMMA PutValues ==
  ASSUME Inv, NEW op, StepIs(op), NEW r \in Registers, NEW v \in Contents,
         Put(r, v)
  PROVE  \/ FailStep
         \/ /\ Continue
            /\ holds(r)' = v /\ \A q \in Registers \ {r} : holds(q)' = holds(q)
<1>1. ~ claimFailed /\ TypeOK /\ Owned
  BY StepGiven DEF Inv
<1>2. desc \in [Registers -> Blocks] /\ heap \in [Blocks -> Contents]
  BY <1>1 DEF TypeOK
<1>3. CASE /\ heap' = [heap EXCEPT ![desc[r]] = v]
           /\ UNCHANGED <<desc, inUse, free>>
           /\ Continue
  <2>1. \A q \in Registers \ {r} : desc[q] # desc[r]
    BY <1>1 DEF Owned
  <2> QED BY <1>2, <1>3, <2>1 DEF holds
<1>4. CASE Room(v) /\ Replace(desc, r, desc[r], v) /\ Continue
  <2>1. LacksOne(desc, r, desc[r])
    BY <1>1, OwnLacksOne
  <2>2. holds(r)' = v /\ \A q \in Registers \ {r} : holds(q)' = heap[desc[q]]
    BY <1>1, <1>2, <1>4, <2>1, ReplaceValues
  <2> QED BY <1>4, <2>2 DEF holds
<1>5. CASE FailStep
  BY <1>5
<1> QED BY <1>3, <1>4, <1>5 DEF Put

(* A step that does what it is for, on the contents.                       *)
Succeeds ==
  /\ Continue
  /\ \A r \in Registers : holds(r)' = After(Held, Head(todo), lift, r)

(* A register reset after an error: what it holds does not matter.         *)
Resets ==
  /\ Continue
  /\ Head(todo).op = "clear" /\ err # "none"
  /\ \A r \in Registers \ {Head(todo).dst} : holds(r)' = holds(r)

(***************************************************************************)
(* A step succeeds, fails as a whole (copies and resets do), or ends the   *)
(* behaviour.                                                              *)
(***************************************************************************)
LEMMA StepValues ==
  ASSUME Inv, TakeStep
  PROVE  \/ claimFailed'
         \/ FailStep /\ Head(todo).op \in {"copy", "clear"}
         \/ Succeeds \/ Resets
<1>1. /\ TypeOK /\ Owned
      /\ desc \in [Registers -> Blocks] /\ heap \in [Blocks -> Contents]
  BY DEF Inv, TypeOK
<1>2. /\ Top \in Nat /\ Top >= 2 /\ Registers = 0 .. 2 * Top + 5 /\ X = 0
      /\ X \in Registers /\ Top \in Registers /\ Top - 1 \in Registers
      /\ Zero \in Contents /\ Junk \in Contents
  BY RegisterNumbers, StackAssumption DEF Contents
<1>3. \A r \in Registers : Held[r] = holds(r) /\ holds(r) \in Contents
  BY <1>1 DEF Held, holds
<1>4. PICK s : s = Head(todo)
  OBVIOUS
<1>5. CASE copySourceRegisterToDestRegister
  <2>1. StepIs("copy") /\ Put(s.dst, holds(s.src))
    BY <1>4, <1>5 DEF copySourceRegisterToDestRegister
  <2>2. s.dst \in Registers /\ s.src \in Registers /\ s.op = "copy"
    BY <1>4, <2>1, StepGiven DEF StepIs
  <2>3. PICK v : v = holds(s.src)
    OBVIOUS
  <2>4. v \in Contents /\ Put(s.dst, v)
    BY <1>3, <2>1, <2>2, <2>3
  <2>5. \/ FailStep
        \/ /\ Continue /\ holds(s.dst)' = v
           /\ \A q \in Registers \ {s.dst} : holds(q)' = holds(q)
    BY <2>1, <2>2, <2>4, PutValues
  <2> QED BY <1>3, <1>4, <2>2, <2>3, <2>5 DEF Succeeds, After
<1>6. CASE clearRegister
  <2> DEFINE z == IF err = "RAM_FULL" /\ Size[holds(s.dst)] # Size[Zero]
                    THEN Junk ELSE Zero
  <2>1. StepIs("clear") /\ Put(s.dst, z)
    BY <1>4, <1>6 DEF clearRegister
  <2>2. s.dst \in Registers /\ s.op = "clear"
    BY <1>4, <2>1, StepGiven DEF StepIs
  <2>3. PICK v : v = z
    OBVIOUS
  <2>4. /\ v \in Contents /\ Put(s.dst, v)
        /\ err = "none" => v = Zero
    BY <1>2, <2>1, <2>3
  <2>5. \/ FailStep
        \/ /\ Continue /\ holds(s.dst)' = v
           /\ \A q \in Registers \ {s.dst} : holds(q)' = holds(q)
    BY <2>1, <2>2, <2>4, PutValues
  <2> QED BY <1>3, <1>4, <2>2, <2>4, <2>5 DEF Succeeds, Resets, After
<1>7. CASE WriteX
  <2>1. /\ StepIs("write") /\ Continue /\ UNCHANGED <<desc, inUse, free>>
        /\ heap' = [heap EXCEPT ![desc[X]] = s.val]
    BY <1>4, <1>7 DEF WriteX
  <2>2. s.op = "write" /\ ~ claimFailed
    BY <1>4, <2>1, StepGiven DEF StepIs
  <2>3. \A q \in Registers \ {X} : desc[q] # desc[X]
    BY <1>1, <1>2, <2>2 DEF Owned
  <2>4. holds(X)' = s.val /\ \A q \in Registers \ {X} : holds(q)' = holds(q)
    BY <1>1, <1>2, <2>1, <2>3 DEF holds
  <2> QED BY <1>2, <1>3, <1>4, <2>1, <2>2, <2>4 DEF Succeeds, After
<1>8. CASE liftStack
  <2> DEFINE o == IF lift THEN desc[Top] ELSE desc[X]
             e == IF lift THEN MovedUp ELSE desc
  <2>1. /\ StepIs("lift")
        /\ \/ Replace(e, X, o, Junk) /\ Continue
           \/ HaltStep(err)
    BY <1>8 DEF liftStack
  <2>2. ~ claimFailed /\ s.op = "lift"
    BY <1>4, <2>1, StepGiven DEF StepIs
  <2>3. e \in [Registers -> Blocks] /\ LacksOne(e, X, o)
    BY <1>1, <1>2, <2>2, LiftLacksX, OwnLacksOne
  <2>4. \A q \in Registers \ {X} :
          heap[e[q]] = IF lift /\ q \in 1 .. Top THEN holds(q - 1) ELSE holds(q)
    BY <1>1, <1>2 DEF MovedUp, holds
  <2>5. PICK d : d = e
    OBVIOUS
  <2>6. PICK old : old = o
    OBVIOUS
  <2> HIDE DEF e, o
  <2>7. CASE Replace(e, X, o, Junk) /\ Continue
    <3>1. d \in [Registers -> Blocks] /\ LacksOne(d, X, old) /\ Replace(d, X, old, Junk)
      BY <2>3, <2>5, <2>6, <2>7
    <3>2. holds(X)' = Junk /\ \A q \in Registers \ {X} : holds(q)' = heap[d[q]]
      BY <1>1, <1>2, <3>1, ReplaceValues
    <3>3. \A q \in Registers \ {X} : q \in 1 .. Top => q - 1 \in Registers
      BY <1>2
    <3> QED BY <1>2, <1>3, <1>4, <2>2, <2>4, <2>5, <2>7, <3>2, <3>3 DEF Succeeds, After
  <2>8. CASE HaltStep(err)
    BY <2>8 DEF HaltStep
  <2> QED BY <2>1, <2>7, <2>8
<1>9. CASE drop
  <2>1. PICK v : v = holds(Top)
    OBVIOUS
  <2>2. PICK reg : reg = s.dst
    OBVIOUS
  <2>3. PICK d : d = MovedDown(reg)
    OBVIOUS
  <2>4. PICK old : old = desc[reg]
    OBVIOUS
  <2>5. /\ StepIs("drop")
        /\ \/ Replace(d, Top - 1, old, v) /\ Continue
           \/ HaltStep("RAM_FULL")
    BY <1>4, <1>9, <2>1, <2>2, <2>3, <2>4 DEF drop
  <2>6. ~ claimFailed /\ s.op = "drop" /\ s \in Steps
    BY <1>4, <2>5, StepGiven DEF StepIs
  <2>7. reg \in 0 .. Top - 1
    BY <2>2, <2>6 DEF Steps
  <2>8. d \in [Registers -> Blocks] /\ LacksOne(d, Top - 1, old)
    BY <1>1, <2>3, <2>4, <2>6, <2>7, DropLacksOne
  <2>9. \A q \in Registers \ {Top - 1} :
          heap[d[q]] = IF q \in reg .. Top - 1 THEN holds(q + 1) ELSE holds(q)
    BY <1>1, <1>2, <2>3, <2>7 DEF MovedDown, holds
  <2>10. CASE Replace(d, Top - 1, old, v) /\ Continue
    <3>1. /\ holds(Top - 1)' = v
          /\ \A q \in Registers \ {Top - 1} : holds(q)' = heap[d[q]]
      BY <1>1, <1>2, <2>8, <2>10, ReplaceValues
    <3>2. \A q \in Registers :
            holds(q)' = IF q \in reg .. Top - 1 THEN holds(q + 1) ELSE holds(q)
      BY <1>2, <2>1, <2>7, <2>9, <3>1
    <3>3. \A q \in Registers : q \in reg .. Top - 1 => q + 1 \in Registers
      BY <1>2, <2>7
    <3> QED BY <1>3, <1>4, <2>2, <2>6, <2>10, <3>2, <3>3 DEF Succeeds, After
  <2>11. CASE HaltStep("RAM_FULL")
    BY <2>11 DEF HaltStep
  <2> QED BY <2>5, <2>10, <2>11
<1>10. CASE fillStack
  <2>1. PICK v : v = holds(X)
    OBVIOUS
  <2>2. PICK reg : reg = s.dst
    OBVIOUS
  <2>3. /\ StepIs("fill")
        /\ \/ Replace(desc, reg, desc[reg], v) /\ Continue
           \/ HaltStep("RAM_FULL")
    BY <1>4, <1>10, <2>1, <2>2 DEF fillStack
  <2>4. ~ claimFailed /\ s.op = "fill" /\ reg \in Registers
    BY <1>4, <2>2, <2>3, StepGiven DEF StepIs
  <2>5. LacksOne(desc, reg, desc[reg])
    BY <1>1, <2>4, OwnLacksOne
  <2>6. CASE Replace(desc, reg, desc[reg], v) /\ Continue
    <3>1. holds(reg)' = v /\ \A q \in Registers \ {reg} : holds(q)' = heap[desc[q]]
      BY <1>1, <2>4, <2>5, <2>6, ReplaceValues
    <3>2. \A q \in Registers \ {reg} : holds(q)' = holds(q)
      BY <3>1 DEF holds
    <3> QED BY <1>2, <1>3, <1>4, <2>1, <2>2, <2>4, <2>6, <3>1, <3>2 DEF Succeeds, After
  <2>7. CASE HaltStep("RAM_FULL")
    BY <2>7 DEF HaltStep
  <2> QED BY <2>3, <2>6, <2>7
<1>11. CASE swapRegs
  <2>1. /\ StepIs("swap") /\ Continue /\ heap' = heap
        /\ desc' = [desc EXCEPT ![s.src] = desc[s.dst], ![s.dst] = desc[s.src]]
    BY <1>4, <1>11 DEF swapRegs
  <2>2. s.op = "swap" /\ s.src \in Registers /\ s.dst \in Registers
    BY <1>4, <2>1, StepGiven DEF StepIs
  <2>3. \A q \in Registers : holds(q)' = IF q = s.dst THEN holds(s.src)
                                         ELSE IF q = s.src THEN holds(s.dst) ELSE holds(q)
    BY <1>1, <2>1, <2>2 DEF holds
  <2> QED BY <1>3, <1>4, <2>1, <2>2, <2>3 DEF Succeeds, After
<1>12. CASE rollUp
  <2>1. /\ StepIs("rollUp") /\ Continue /\ heap' = heap
        /\ desc' = [MovedUp EXCEPT ![X] = desc[Top]]
    BY <1>12 DEF rollUp
  <2>2. s.op = "rollUp"
    BY <1>4, <2>1 DEF StepIs
  <2>3. \A q \in Registers : desc'[q] = IF q = X THEN desc[Top]
                               ELSE IF q \in 1 .. Top THEN desc[q - 1] ELSE desc[q]
    BY <1>1, <1>2, <2>1 DEF MovedUp
  <2>4. \A q \in Registers : holds(q)' = IF q = X THEN holds(Top)
                               ELSE IF q \in 1 .. Top THEN holds(q - 1) ELSE holds(q)
    BY <2>1, <2>3 DEF holds
  <2>5. \A q \in Registers : q \in 1 .. Top => q - 1 \in Registers
    BY <1>2
  <2> QED BY <1>2, <1>3, <1>4, <2>1, <2>2, <2>4, <2>5 DEF Succeeds, After
<1>13. CASE rollDown
  <2>1. /\ StepIs("rollDown") /\ Continue /\ heap' = heap
        /\ desc' = [MovedDown(X) EXCEPT ![Top] = desc[X]]
    BY <1>13 DEF rollDown
  <2>2. s.op = "rollDown"
    BY <1>4, <2>1 DEF StepIs
  <2>3. \A q \in Registers : desc'[q] = IF q = Top THEN desc[X]
                               ELSE IF q \in 0 .. Top - 1 THEN desc[q + 1] ELSE desc[q]
    BY <1>1, <1>2, <2>1 DEF MovedDown
  <2>4. \A q \in Registers : holds(q)' = IF q = Top THEN holds(X)
                               ELSE IF q \in 0 .. Top - 1 THEN holds(q + 1) ELSE holds(q)
    BY <2>1, <2>3 DEF holds
  <2>5. \A q \in Registers : q \in 0 .. Top - 1 => q + 1 \in Registers
    BY <1>2
  <2> QED BY <1>2, <1>3, <1>4, <2>1, <2>2, <2>4, <2>5 DEF Succeeds, After
<1> QED BY <1>5, <1>6, <1>7, <1>8, <1>9, <1>10, <1>11, <1>12, <1>13 DEF TakeStep

---------------------------------------------------------------------------
(* The steps of saveForUndo, of its error path and of undo.                *)
LEMMA UndoStateSteps ==
  \A i \in 1 .. Top + 2 :
    /\ SaveSteps[i] = CopyOrReturn(Nth(i), savedRegisterFor(Nth(i)))
    /\ ClearSteps[i] = Step("clear", X, savedRegisterFor(Nth(i)), FALSE)
    /\ UndoSteps[i] = Copy(savedRegisterFor(Nth(i)), Nth(i))
  BY DEF SaveSteps, ClearSteps, UndoSteps, Nth

(* What a step that succeeds or fails leaves alone.                        *)
LEMMA ControlUnchanged ==
  /\ Continue => /\ UNCHANGED <<lift, savedLift, canUndo, err, func, phase,
                               claimFailed, undoFailed, before>>
                 /\ todo' = Tail(todo)
  /\ FailStep => /\ UNCHANGED <<desc, heap, lift, savedLift, canUndo, func, phase,
                               claimFailed, before>>
                 /\ err' = "RAM_FULL"
                 /\ todo' = IF Head(todo).must THEN <<>> ELSE Tail(todo)
                 /\ undoFailed' = (undoFailed \/ phase = "undo")
  BY DEF Continue, FailStep, memory, flags, history

(* A copy or a fill changes its own register.                              *)
LEMMA CopySucceeds ==
  ASSUME Succeeds, NEW s, s = Head(todo), s.op = "copy",
         s.src \in Registers, s.dst \in Registers
  PROVE  /\ holds(s.dst)' = holds(s.src)
         /\ \A r \in Registers \ {s.dst} : holds(r)' = holds(r)
  BY DEF Succeeds, After, Held

(* saveForUndo copies on, or stops at the first copy that fails.           *)
LEMMA SavingStep ==
  ASSUME Inv, Saving, todo # <<>>, FailStep \/ Succeeds \/ Resets
  PROVE  Saving'
<1> DEFINE n == Top + 2
           k == n - Len(todo)
<1>1. /\ Top \in Nat /\ Top >= 2 /\ Registers = 0 .. 2 * Top + 5
      /\ L = Top + 1 /\ R = Top + 2 /\ Temp = Top + 3
      /\ \A r : savedRegisterFor(r) = Top + 4 + r
  BY RegisterNumbers
<1>2. /\ err = "none" /\ Rest(todo, SaveSteps, n)
      /\ func.name # "Undo" /\ lift = before.lift /\ savedLift = before.lift
      /\ \A c \in 0 .. R : holds(c) = Was(c)
      /\ \A i \in 1 .. k : holds(savedRegisterFor(Nth(i))) = Was(Nth(i))
  BY DEF Saving, StackUnchanged
<1>3. todo \in Seq(Steps) /\ n \in Nat
  BY <1>1 DEF Inv, TypeOK
<1>4. /\ Len(todo) \in Nat \ {0} /\ Len(Tail(todo)) = Len(todo) - 1
      /\ Head(todo) = SaveSteps[k + 1] /\ Rest(Tail(todo), SaveSteps, n)
  BY <1>2, <1>3, RestTail
<1>5. k \in Nat /\ k + 1 \in 1 .. Top + 2 /\ n - Len(Tail(todo)) = k + 1
  BY <1>1, <1>2, <1>4 DEF Rest
<1>6. PICK s : s = Head(todo)
  OBVIOUS
<1>7. PICK m : m = Nth(k + 1)
  OBVIOUS
<1>8. s = CopyOrReturn(m, savedRegisterFor(m))
  BY <1>4, <1>5, <1>6, <1>7, UndoStateSteps
<1>9. /\ s.op = "copy" /\ s.src = m /\ s.dst = savedRegisterFor(m)
      /\ s.must = TRUE
  BY <1>8 DEF CopyOrReturn, Step
<1>10. m \in 0 .. Top + 1 /\ \A i \in 1 .. k : Nth(i) # m /\ Nth(i) \in 0 .. Top + 1
  <2>1. \A i \in 1 .. k : i \in 1 .. Top + 2 /\ i # k + 1
    BY <1>1, <1>5
  <2> HIDE DEF k
  <2> QED BY <1>5, <1>7, <2>1, NthRegister
<1>11. /\ savedRegisterFor(m) \in Registers /\ m \in Registers
       /\ savedRegisterFor(m) > Temp /\ m \in 0 .. R
       /\ \A c \in 0 .. R : c \in Registers \ {savedRegisterFor(m)}
       /\ \A i \in 1 .. k :
            savedRegisterFor(Nth(i)) \in Registers \ {savedRegisterFor(m)}
  BY <1>1, <1>10
<1> HIDE DEF n, k
<1>12. CASE FailStep
  <2>1. todo' = <<>> /\ err' = "RAM_FULL"
        /\ UNCHANGED <<desc, heap, lift, savedLift, func, before>>
    BY <1>6, <1>9, <1>12, ControlUnchanged
  <2>2. StackUnchanged'
    BY <1>2, <2>1 DEF StackUnchanged, holds, Was
  <2> QED BY <1>2, <2>1, <2>2 DEF Saving
<1>13. CASE Succeeds
  <2>1. todo' = Tail(todo) /\ UNCHANGED <<lift, savedLift, err, func, before>>
    BY <1>13, ControlUnchanged DEF Succeeds
  <2>2. /\ holds(s.dst)' = holds(s.src)
        /\ \A r \in Registers \ {s.dst} : holds(r)' = holds(r)
    BY <1>6, <1>9, <1>11, <1>13, CopySucceeds
  <2>3. holds(savedRegisterFor(m))' = Was(m)
    BY <1>2, <1>9, <1>11, <2>2
  <2>4. \A r : Was(r)' = Was(r)
    BY <2>1 DEF Was
  <2>5. StackUnchanged'
    BY <1>2, <1>9, <1>11, <2>2, <2>4 DEF StackUnchanged
  <2>6. ASSUME NEW i \in 1 .. k + 1
        PROVE  holds(savedRegisterFor(Nth(i)))' = Was(Nth(i))'
    <3>1. CASE i = k + 1
      BY <1>7, <2>3, <2>4, <3>1
    <3>2. CASE i # k + 1
      <4>1. i \in 1 .. k
        BY <1>5, <3>2
      <4> QED BY <1>2, <1>9, <1>11, <2>2, <2>4, <4>1
    <3> QED BY <3>1, <3>2
  <2>7. (Top + 2) - Len(todo') = k + 1 /\ Rest(todo', SaveSteps, Top + 2)
    BY <1>4, <1>5, <2>1 DEF n
  <2> QED BY <1>2, <2>1, <2>5, <2>6, <2>7 DEF Saving
<1>14. CASE Resets
  BY <1>2, <1>14 DEF Resets
<1> QED BY <1>12, <1>13, <1>14

(* The error path of saveForUndo resets only saved registers.              *)
LEMMA ClearingStep ==
  ASSUME Inv, Clearing, todo # <<>>, FailStep \/ Succeeds \/ Resets
  PROVE  Clearing'
<1>1. /\ Top \in Nat /\ Registers = 0 .. 2 * Top + 5
      /\ R = Top + 2 /\ Temp = Top + 3
  BY RegisterNumbers
<1>2. /\ func.name # "Undo" /\ lift = before.lift /\ savedLift = before.lift
      /\ \A c \in 0 .. R : holds(c) = Was(c)
      /\ \A i \in 1 .. Len(todo) : todo[i].op = "clear" /\ todo[i].dst > Temp
  BY DEF Clearing, StackUnchanged
<1>3. todo \in Seq(Steps)
  BY DEF Inv, TypeOK
<1>4. /\ Len(todo) \in Nat \ {0} /\ Head(todo) = todo[1]
      /\ Len(Tail(todo)) = Len(todo) - 1
      /\ \A i \in 1 .. Len(todo) - 1 : Tail(todo)[i] = todo[i + 1]
  BY <1>3, RestTail
<1>5. \A i \in 1 .. Len(Tail(todo)) :
        Tail(todo)[i].op = "clear" /\ Tail(todo)[i].dst > Temp
  BY <1>2, <1>4
<1>6. Head(todo).op = "clear" /\ Head(todo).dst > Temp
  BY <1>2, <1>4
<1>7. todo' \in {<<>>, Tail(todo)} /\ UNCHANGED <<lift, savedLift, func, before>>
  BY ControlUnchanged DEF Succeeds, Resets
<1>8. \A i \in 1 .. Len(todo') : todo'[i].op = "clear" /\ todo'[i].dst > Temp
  <2>1. CASE todo' = <<>>
    BY <2>1
  <2> QED BY <1>5, <1>7, <2>1
<1>9. \A c \in 0 .. R : holds(c)' = holds(c)
  <2>1. CASE FailStep
    BY <2>1, ControlUnchanged DEF holds
  <2>2. \A c \in 0 .. R : c \in Registers /\ c # Head(todo).dst
    BY <1>1, <1>6
  <2>3. CASE Succeeds
    BY <1>6, <2>2, <2>3 DEF Succeeds, After, Held
  <2>4. CASE Resets
    BY <2>2, <2>4 DEF Resets
  <2> QED BY <2>1, <2>3, <2>4
<1>10. StackUnchanged'
  BY <1>2, <1>7, <1>9 DEF StackUnchanged, Was
<1> QED BY <1>2, <1>7, <1>8, <1>10 DEF Clearing

(* undo copies on; a copy that fails is what undoFailed records.           *)
LEMMA UndoingStep ==
  ASSUME Inv, Undoing, phase = "undo", todo # <<>>, ~ undoFailed',
         FailStep \/ Succeeds \/ Resets
  PROVE  Undoing'
<1> DEFINE n == Top + 2
           k == n - Len(todo)
<1>1. /\ Top \in Nat /\ Top >= 2 /\ Registers = 0 .. 2 * Top + 5
      /\ L = Top + 1 /\ R = Top + 2 /\ Temp = Top + 3
      /\ \A r : savedRegisterFor(r) = Top + 4 + r
  BY RegisterNumbers
<1>2. /\ Rest(todo, UndoSteps, n) /\ lift = savedLift /\ holds(R) = Was(R)
      /\ \A i \in 1 .. k : holds(Nth(i)) = holds(savedRegisterFor(Nth(i)))
  BY DEF Undoing
<1>3. todo \in Seq(Steps) /\ n \in Nat
  BY <1>1 DEF Inv, TypeOK
<1>4. /\ Len(todo) \in Nat \ {0} /\ Len(Tail(todo)) = Len(todo) - 1
      /\ Head(todo) = UndoSteps[k + 1] /\ Rest(Tail(todo), UndoSteps, n)
  BY <1>2, <1>3, RestTail
<1>5. k \in Nat /\ k + 1 \in 1 .. Top + 2 /\ n - Len(Tail(todo)) = k + 1
  BY <1>1, <1>2, <1>4 DEF Rest
<1>6. PICK s : s = Head(todo)
  OBVIOUS
<1>7. PICK m : m = Nth(k + 1)
  OBVIOUS
<1>8. s = Copy(savedRegisterFor(m), m)
  BY <1>4, <1>5, <1>6, <1>7, UndoStateSteps
<1>9. s.op = "copy" /\ s.src = savedRegisterFor(m) /\ s.dst = m
  BY <1>8 DEF Copy, Step
<1>10. m \in 0 .. Top + 1 /\ \A i \in 1 .. k : Nth(i) # m /\ Nth(i) \in 0 .. Top + 1
  <2>1. \A i \in 1 .. k : i \in 1 .. Top + 2 /\ i # k + 1
    BY <1>1, <1>5
  <2> HIDE DEF k
  <2> QED BY <1>5, <1>7, <2>1, NthRegister
<1>11. /\ savedRegisterFor(m) \in Registers /\ m \in Registers /\ R \in Registers \ {m}
       /\ \A c \in 0 .. L : savedRegisterFor(c) \in Registers \ {m}
       /\ \A i \in 1 .. k : Nth(i) \in Registers \ {m} /\ Nth(i) \in 0 .. L
       /\ m \in 0 .. L
  BY <1>1, <1>10
<1> HIDE DEF n, k
<1>12. ~ FailStep
  BY ControlUnchanged
<1>13. ~ Resets
  BY <1>6, <1>9 DEF Resets
<1>14. Succeeds
  BY <1>12, <1>13
<1>15. todo' = Tail(todo) /\ UNCHANGED <<lift, savedLift, func, before>>
  BY <1>14, ControlUnchanged DEF Succeeds
<1>16. /\ holds(m)' = holds(savedRegisterFor(m))
       /\ \A r \in Registers \ {m} : holds(r)' = holds(r)
  BY <1>6, <1>9, <1>11, <1>14, CopySucceeds
<1>17. \A r : Was(r)' = Was(r)
  BY <1>15 DEF Was
<1>18. \A c \in 0 .. L : holds(savedRegisterFor(c))' = holds(savedRegisterFor(c))
  BY <1>11, <1>16
<1>19. ASSUME NEW i \in 1 .. k + 1
       PROVE  holds(Nth(i))' = holds(savedRegisterFor(Nth(i)))'
  <2>1. CASE i = k + 1
    BY <1>7, <1>11, <1>16, <1>18, <2>1
  <2>2. CASE i # k + 1
    <3>1. i \in 1 .. k
      BY <1>5, <2>2
    <3> QED BY <1>2, <1>11, <1>16, <1>18, <3>1
  <2> QED BY <2>1, <2>2
<1>20. (Top + 2) - Len(todo') = k + 1 /\ Rest(todo', UndoSteps, Top + 2)
  BY <1>4, <1>5, <1>15 DEF n
<1>21. (holds(R) = Was(R))'
  BY <1>2, <1>11, <1>16, <1>17
<1>22. (func.name = "Undo" =>
          /\ before.canUndo /\ savedLift = before.savedLift
          /\ \A c \in 0 .. L :
               holds(savedRegisterFor(c)) = Was(savedRegisterFor(c)))'
  BY <1>15, <1>17, <1>18 DEF Undoing
<1>23. (func.name # "Undo" =>
          savedLift = (before.lift \/ Entering) /\ StackSaved)'
  BY <1>15, <1>17, <1>18 DEF Undoing, StackSaved, Entering
<1> QED BY <1>2, <1>15, <1>19, <1>20, <1>21, <1>22, <1>23 DEF Undoing

---------------------------------------------------------------------------
(* A step of a handler changes no saved register, and R only on purpose.   *)
LEMMA AfterElsewhere ==
  ASSUME NEW s \in Steps, RunStep(s), NEW h, NEW up \in BOOLEAN
  PROVE  /\ \A r \in Registers : r > Temp => After(h, s, up, r) = h[r]
         /\ s.dst # R => After(h, s, up, R) = h[R]
<1>1. /\ Top \in Nat /\ Top >= 2 /\ Registers = 0 .. 2 * Top + 5
      /\ X = 0 /\ R = Top + 2 /\ Temp = Top + 3
  BY RegisterNumbers
<1>2. /\ s.op \in Ops /\ s.src \in Registers /\ s.dst \in Registers
      /\ s.src <= Temp /\ s.dst <= Temp /\ (s.op = "swap" => s.src = X)
      /\ s.op = "drop" => s.dst \in 0 .. Top - 1
  BY DEF Steps, RunStep
<1>3. ASSUME NEW r \in Registers, r > Temp \/ (r = R /\ s.dst # R)
      PROVE  After(h, s, up, r) = h[r]
  <2>1. r # X /\ r \notin 0 .. Top /\ r # s.dst /\ (s.op = "swap" => r # s.src)
    BY <1>1, <1>2, <1>3
  <2>2. r \notin 1 .. Top /\ r \notin s.dst .. Top - 1 /\ r \notin 0 .. Top - 1 /\ r # Top
    BY <1>1, <1>2, <2>1
  <2> QED BY <1>2, <2>1, <2>2 DEF After, Ops
<1>4. R \in Registers
  BY <1>1
<1> QED BY <1>3, <1>4

(* One step of the handler is one application less.                        *)
LEMMA OutcomeStep ==
  ASSUME NEW S, NEW t \in Seq(S), t # <<>>, Len(t) <= 3, NEW h, NEW up
  PROVE  Outcome(h, t, up) = Outcome(Apply(h, Head(t), up), Tail(t), up)
<1>1. /\ Len(t) \in Nat \ {0} /\ Head(t) = t[1] /\ Len(Tail(t)) = Len(t) - 1
      /\ \A i \in 1 .. Len(t) - 1 : Tail(t)[i] = t[i + 1]
  BY RestTail
<1>2. PICK u : u = Tail(t)
  OBVIOUS
<1>3. PICK g : g = Apply(h, Head(t), up)
  OBVIOUS
<1>4. CASE Len(t) = 1
  <2>1. Len(u) = 0
    BY <1>1, <1>2, <1>4
  <2>2. Outcome(h, t, up) = Apply(h, t[1], up) /\ Outcome(g, u, up) = g
    BY <1>4, <2>1 DEF Outcome
  <2> QED BY <1>1, <1>2, <1>3, <2>2
<1>5. CASE Len(t) = 2
  <2>1. Len(u) = 1 /\ u[1] = t[2]
    <3>1. Len(u) = 1 /\ 1 \in 1 .. Len(t) - 1
      BY <1>1, <1>2, <1>5
    <3>2. u[1] = t[1 + 1]
      BY <1>1, <1>2, <3>1
    <3> QED BY <3>1, <3>2
  <2>2. /\ Outcome(h, t, up) = Apply(Apply(h, t[1], up), t[2], up)
        /\ Outcome(g, u, up) = Apply(g, u[1], up)
    BY <1>5, <2>1 DEF Outcome
  <2> QED BY <1>1, <1>2, <1>3, <2>1, <2>2
<1>6. CASE Len(t) = 3
  <2>1. Len(u) = 2 /\ u[1] = t[2] /\ u[2] = t[3]
    <3>1. Len(u) = 2 /\ 1 \in 1 .. Len(t) - 1 /\ 2 \in 1 .. Len(t) - 1
      BY <1>1, <1>2, <1>6
    <3>2. u[1] = t[1 + 1] /\ u[2] = t[2 + 1]
      BY <1>1, <1>2, <3>1
    <3> QED BY <3>1, <3>2
  <2>2. /\ Outcome(h, t, up) = Apply(Apply(Apply(h, t[1], up), t[2], up), t[3], up)
        /\ Outcome(g, u, up) = Apply(Apply(g, u[1], up), u[2], up)
    BY <1>6, <2>1 DEF Outcome
  <2> QED BY <1>1, <1>2, <1>3, <2>1, <2>2
<1> QED BY <1>1, <1>4, <1>5, <1>6

(* FILL copies X one register further up.                                  *)
LEMMA FillingStep ==
  ASSUME Inv, Filling, todo # <<>>, err = "none", FailStep \/ Succeeds \/ Resets,
         err' = "none"
  PROVE  Filling'
<1> DEFINE k == Top - Len(todo)
<1>1. /\ Top \in Nat /\ Top >= 2 /\ Registers = 0 .. 2 * Top + 5
      /\ X = 0 /\ R = Top + 2
  BY RegisterNumbers
<1>2. /\ Rest(todo, Fills, Top)
      /\ \A c \in 0 .. R : holds(c) = IF c <= k THEN Was(0) ELSE Was(c)
  BY DEF Filling
<1>3. todo \in Seq(Steps)
  BY DEF Inv, TypeOK
<1>4. /\ Len(todo) \in Nat \ {0} /\ Len(Tail(todo)) = Len(todo) - 1
      /\ Head(todo) = Fills[k + 1] /\ Rest(Tail(todo), Fills, Top)
  BY <1>1, <1>2, <1>3, RestTail
<1>5. k \in Nat /\ k + 1 \in 1 .. Top /\ Top - Len(Tail(todo)) = k + 1
  BY <1>1, <1>2, <1>4 DEF Rest
<1>6. Head(todo) = Step("fill", X, k + 1, TRUE)
  BY <1>4, <1>5 DEF Fills
<1>7. Head(todo).op = "fill" /\ Head(todo).dst = k + 1
  BY <1>6 DEF Step
<1> HIDE DEF k
<1>8. Succeeds
  <2>1. ~ FailStep
    BY ControlUnchanged
  <2> QED BY <1>7, <2>1 DEF Resets
<1>9. todo' = Tail(todo) /\ UNCHANGED before
  BY <1>8, ControlUnchanged DEF Succeeds
<1>10. \A r \in Registers : holds(r)' = IF r = k + 1 THEN holds(0) ELSE holds(r)
  <2>1. \A r \in Registers : Held[r] = holds(r)
    BY DEF Held
  <2>2. 0 \in Registers
    BY <1>1
  <2> QED BY <1>1, <1>7, <1>8, <2>1, <2>2 DEF Succeeds, After
<1>11. \A r : Was(r)' = Was(r)
  BY <1>9 DEF Was
<1>12. ASSUME NEW c \in 0 .. R
       PROVE  holds(c)' = IF c <= k + 1 THEN Was(0) ELSE Was(c)
  <2>1. c \in Registers /\ 0 \in 0 .. R /\ c \in Int
    BY <1>1
  <2>2. holds(0) = Was(0)
    BY <1>2, <1>5, <2>1
  <2> QED BY <1>2, <1>5, <1>10, <2>1, <2>2
<1>13. Top - Len(todo') = k + 1
  BY <1>5, <1>9
<1>14. \A c \in 0 .. R :
         (holds(c) = IF c <= Top - Len(todo) THEN Was(0) ELSE Was(c))'
  BY <1>11, <1>12, <1>13
<1> QED BY <1>4, <1>9, <1>14 DEF Filling

(* Any other handler comes closer to what its function promises.           *)
LEMMA OnTheWayStep ==
  ASSUME Inv, OnTheWay, todo # <<>>, Succeeds
  PROVE  OnTheWay'
<1>1. Top \in Nat /\ Registers = 0 .. 2 * Top + 5 /\ R = Top + 2
  BY RegisterNumbers
<1>2. todo \in Seq(Steps)
  BY DEF Inv, TypeOK
<1>3. todo' = Tail(todo) /\ UNCHANGED <<lift, func, before>>
  BY ControlUnchanged DEF Succeeds
<1>4. Held' = Apply(Held, Head(todo), lift)
  BY DEF Succeeds, Apply, Held
<1>5. Len(todo) \in Nat /\ Len(Tail(todo)) = Len(todo) - 1 /\ Len(todo) <= 3
  BY <1>2, RestTail DEF OnTheWay
<1>6. Outcome(Held, todo, lift) = Outcome(Held', todo', lift')
  <2>1. Outcome(Held, todo, lift)
          = Outcome(Apply(Held, Head(todo), lift), Tail(todo), lift)
    BY <1>2, <1>5, OutcomeStep
  <2> QED BY <1>3, <1>4, <2>1
<1>7. Len(todo') <= 3
  BY <1>3, <1>5
<1>8. \A c \in 0 .. R :
        Outcome(Held', todo', lift')[c] = Target(func', before'.held, before'.lift, c)
  BY <1>3, <1>6 DEF OnTheWay
<1>9. \A c \in 0 .. R :
        (Outcome(Held, todo, lift)[c] = Target(func, before.held, before.lift, c))'
  BY <1>8
<1> QED BY <1>7, <1>9 DEF OnTheWay

(***************************************************************************)
(* The steps of a handler: what it has changed by the time it fails can be *)
(* taken back, and what it has not yet done it still will do.              *)
(***************************************************************************)
LEMMA RunningStep ==
  ASSUME Inv, Running, todo # <<>>, FailStep \/ Succeeds \/ Resets
  PROVE  Running'
<1>1. /\ Top \in Nat /\ Top >= 2 /\ Registers = 0 .. 2 * Top + 5
      /\ L = Top + 1 /\ R = Top + 2 /\ Temp = Top + 3
      /\ \A r : savedRegisterFor(r) = Top + 4 + r
  BY RegisterNumbers
<1>2. /\ todo \in Seq(Steps) /\ lift \in BOOLEAN /\ err \in {"none", "RAM_FULL"}
  BY DEF Inv, TypeOK
<1>3. /\ Len(todo) \in Nat \ {0} /\ Head(todo) = todo[1]
      /\ Tail(todo) \in Seq(Steps) /\ Len(Tail(todo)) = Len(todo) - 1
      /\ \A i \in 1 .. Len(todo) - 1 : Tail(todo)[i] = todo[i + 1]
  BY <1>2, RestTail
<1>4. Head(todo) \in Steps
  BY <1>2
<1>5. PICK s : s = Head(todo)
  OBVIOUS
<1>6. /\ s \in Steps /\ RunStep(s)
      /\ s.dst = R => Len(todo) = 1 /\ err = "none"
  BY <1>3, <1>4, <1>5 DEF Running
<1>7. /\ UNCHANGED <<lift, savedLift, canUndo, func, before>>
      /\ todo' \in {<<>>, Tail(todo)}
      /\ err' = err \/ err' = "RAM_FULL"
  BY ControlUnchanged DEF Succeeds, Resets
<1>8. \A r : Was(r)' = Was(r)
  BY <1>7 DEF Was
<1>9. \A i \in 1 .. Len(todo') : RunStep(todo'[i]) /\ todo'[i].dst # R
  <2>1. CASE todo' = <<>>
    BY <2>1
  <2>2. CASE todo' = Tail(todo)
    <3> SUFFICES ASSUME NEW i \in 1 .. Len(todo')
                 PROVE  RunStep(todo'[i]) /\ todo'[i].dst # R
      OBVIOUS
    <3>1. i + 1 \in 1 .. Len(todo) /\ todo'[i] = todo[i + 1] /\ Len(todo) # 1
      BY <1>3, <2>2
    <3> QED BY <3>1 DEF Running
  <2> QED BY <1>7, <2>1, <2>2
<1>10. \A c \in 0 .. L : holds(savedRegisterFor(c))' = holds(savedRegisterFor(c))
  <2>1. \A c \in 0 .. L : savedRegisterFor(c) \in Registers /\ savedRegisterFor(c) > Temp
    BY <1>1
  <2>2. CASE FailStep
    BY <2>2, ControlUnchanged DEF holds
  <2>3. CASE Succeeds
    <3>1. \A r \in Registers : r > Temp => holds(r)' = Held[r]
      BY <1>2, <1>5, <1>6, <2>3, AfterElsewhere DEF Succeeds
    <3> QED BY <2>1, <3>1 DEF Held
  <2>4. CASE Resets
    <3>1. s.dst <= Temp /\ s.dst \in Registers
      BY <1>6 DEF RunStep, Steps
    <3>2. \A c \in 0 .. L : savedRegisterFor(c) \in Registers \ {s.dst}
      BY <1>1, <2>1, <3>1
    <3> QED BY <1>5, <2>4, <3>2 DEF Resets
  <2> QED BY <2>2, <2>3, <2>4
<1>11. (canUndo => StackSaved)'
  BY <1>7, <1>8, <1>10 DEF Running, StackSaved
<1>12. todo' # <<>> \/ err' # "none" => holds(R)' = Was(R)
  <2> SUFFICES ASSUME todo' # <<>> \/ err' # "none" PROVE holds(R)' = Was(R)
    OBVIOUS
  <2>1. holds(R) = Was(R) /\ R \in Registers
    BY <1>1 DEF Running
  <2>2. CASE FailStep
    BY <2>1, <2>2, ControlUnchanged DEF holds
  <2>3. ASSUME Continue PROVE s.dst # R
    <3>1. todo' = Tail(todo) /\ err' = err
      BY <2>3, ControlUnchanged
    <3>2. CASE s.dst = R
      <4>1. Len(Tail(todo)) = 0 /\ err = "none"
        <5>1. Len(todo) = 1 /\ err = "none"
          BY <1>6, <3>2
        <5>2. Len(Tail(todo)) = Len(todo) - 1
          BY <1>3
        <5> QED BY <5>1, <5>2
      <4>2. Tail(todo) = <<>>
        BY <1>3, <4>1, EmptySeq
      <4> QED BY <3>1, <4>1, <4>2
    <3> QED BY <3>2
  <2>4. CASE Succeeds
    <3>1. holds(R)' = Held[R]
      BY <1>2, <1>5, <1>6, <2>1, <2>3, <2>4, AfterElsewhere DEF Succeeds
    <3> QED BY <2>1, <3>1 DEF Held
  <2>5. CASE Resets
    BY <1>5, <2>1, <2>3, <2>5 DEF Resets
  <2> QED BY <2>2, <2>4, <2>5
<1>13. ASSUME ~ canUndo
       PROVE  /\ RunsWithoutUndo(func) /\ todo' = <<>> /\ ~ Entering
              /\ err' # "none" => StackUnchanged'
  <2>1. /\ RunsWithoutUndo(func) /\ Len(todo) <= 1 /\ err = "none" /\ StackUnchanged
    BY <1>13 DEF Running
  <2>2. Tail(todo) = <<>>
    BY <1>3, <2>1, EmptySeq
  <2>3. ~ Entering
    BY <2>1 DEF RunsWithoutUndo, Entering
  <2>4. ASSUME err' # "none" PROVE StackUnchanged'
    <3>1. FailStep
      BY <2>1, <2>4, ControlUnchanged DEF Succeeds, Resets
    <3> QED BY <2>1, <3>1, ControlUnchanged DEF StackUnchanged, holds, Was
  <2> QED BY <1>7, <2>1, <2>2, <2>3, <2>4
<1>14. ASSUME err' = "none"
       PROVE  (IF func.name = "FillStack" THEN Filling ELSE OnTheWay)'
  <2>1. ~ FailStep /\ err = "none"
    BY <1>14, ControlUnchanged DEF Succeeds, Resets
  <2>2. Succeeds
    BY <2>1 DEF Resets
  <2>3. CASE func.name = "FillStack"
    BY <1>7, <1>14, <2>1, <2>2, <2>3, FillingStep DEF Running
  <2>4. CASE func.name # "FillStack"
    BY <1>7, <2>1, <2>2, <2>4, OnTheWayStep DEF Running
  <2> QED BY <2>3, <2>4
<1>15. (~ canUndo => /\ RunsWithoutUndo(func)
                     /\ Len(todo) <= 1
                     /\ err # "none" => todo = <<>> /\ ~ Entering
                     /\ todo # <<>> \/ err # "none" => StackUnchanged)'
  <2> SUFFICES ASSUME ~ canUndo'
               PROVE  (/\ RunsWithoutUndo(func)
                       /\ Len(todo) <= 1
                       /\ err # "none" => todo = <<>> /\ ~ Entering
                       /\ todo # <<>> \/ err # "none" => StackUnchanged)'
    OBVIOUS
  <2>1. /\ RunsWithoutUndo(func) /\ todo' = <<>> /\ ~ Entering
        /\ err' # "none" => StackUnchanged'
    BY <1>7, <1>13
  <2>2. RunsWithoutUndo(func)' /\ ~ Entering'
    BY <1>7, <2>1 DEF RunsWithoutUndo, Entering
  <2> QED BY <2>1, <2>2
<1>16. (lift = (before.lift \/ Entering) /\ savedLift = lift /\ func.name # "Undo")'
  BY <1>7 DEF Running, Entering
<1>17. (todo # <<>> \/ err # "none" => holds(R) = Was(R))'
  BY <1>8, <1>12
<1>18. (\A i \in 1 .. Len(todo) :
          RunStep(todo[i]) /\ (todo[i].dst = R => Len(todo) = 1 /\ err = "none"))'
  BY <1>9
<1> QED BY <1>11, <1>14, <1>15, <1>16, <1>17, <1>18 DEF Running

---------------------------------------------------------------------------
(* What the steps of a handler make of the contents: one, two or three.    *)
LEMMA OutcomeOfOne ==
  ASSUME NEW h, NEW up, NEW s
  PROVE  Len(<<s>>) = 1 /\ Outcome(h, <<s>>, up) = Apply(h, s, up)
  BY DEF Outcome

(* Two steps.                                                              *)
LEMMA OutcomeOfTwo ==
  ASSUME NEW h, NEW up, NEW s, NEW u
  PROVE  Len(<<s, u>>) = 2 /\ Outcome(h, <<s, u>>, up) = Apply(Apply(h, s, up), u, up)
  BY DEF Outcome

(* Three steps.                                                            *)
LEMMA OutcomeOfThree ==
  ASSUME NEW h, NEW up, NEW s, NEW u, NEW w
  PROVE  /\ Len(<<s, u, w>>) = 3
         /\ Outcome(h, <<s, u, w>>, up) = Apply(Apply(Apply(h, s, up), u, up), w, up)
  BY DEF Outcome

(* The contents after one step.                                            *)
LEMMA ApplyAt ==
  ASSUME NEW h, NEW s, NEW up, NEW r \in Registers
  PROVE  Apply(h, s, up)[r] = After(h, s, up, r)
  BY DEF Apply

(* The function is to leave these contents behind.                         *)
Reaches(f, b, up, g) == \A c \in 0 .. R : g[c] = Target(f, b, up, c)

(***************************************************************************)
(* Run to the end, the steps of a handler do what the function promises.   *)
(***************************************************************************)
LEMMA HandlerOutcome ==
  ASSUME NEW f \in Functions, f.name \notin {"Undo", "FillStack"}, lift \in BOOLEAN,
         NEW h, NEW b, \A c \in 0 .. R : h[c] = b[c]
  PROVE  /\ Len(StepsOf(f)) <= 3
         /\ Reaches(f, b, lift, Outcome(h, StepsOf(f), lift \/ f.name = "Enter"))
<1>1. /\ Top \in Nat /\ Top >= 2 /\ Registers = 0 .. 2 * Top + 5
      /\ X = 0 /\ Y = 1 /\ L = Top + 1 /\ R = Top + 2 /\ Temp = Top + 3
  BY RegisterNumbers
<1>2. f.name \in Names
  BY DEF Functions
<1>3. \A c \in 0 .. R : c \in Registers
  BY <1>1
<1>4. PICK up : up = (lift \/ f.name = "Enter")
  OBVIOUS
<1> DEFINE Goal(t) == Len(t) <= 3 /\ Reaches(f, b, lift, Outcome(h, t, up))
<1>5. ASSUME NEW s, Reaches(f, b, lift, Apply(h, s, up))
      PROVE  Goal(<<s>>)
  BY <1>5, OutcomeOfOne
<1>6. ASSUME NEW s, NEW u, Reaches(f, b, lift, Apply(Apply(h, s, up), u, up))
      PROVE  Goal(<<s, u>>)
  BY <1>6, OutcomeOfTwo
<1>7. ASSUME NEW s, NEW u, NEW w,
             Reaches(f, b, lift, Apply(Apply(Apply(h, s, up), u, up), w, up))
      PROVE  Goal(<<s, u, w>>)
  BY <1>7, OutcomeOfThree
<1> SUFFICES Goal(StepsOf(f))
  BY <1>4
<1> HIDE DEF Goal
<1>8. CASE f.name = "SwapXY"
  <2>1. PICK s : s = Step("swap", X, Y, FALSE)
    OBVIOUS
  <2>2. s.op = "swap" /\ s.src = X /\ s.dst = Y
    BY <2>1 DEF Step
  <2>3. \A c \in 0 .. R : After(h, s, up, c) = Target(f, b, lift, c)
    BY <1>1, <1>8, <2>2 DEF After, Target, Pushed, Dropped
  <2>4. Reaches(f, b, lift, Apply(h, s, up))
    BY <1>3, <2>3, ApplyAt DEF Reaches
  <2>5. StepsOf(f) = <<s>>
    BY <1>8, <2>1 DEF StepsOf
  <2> QED BY <1>5, <2>4, <2>5
<1>9. CASE f.name = "SwapX"
  <2>1. PICK s : s = Step("swap", X, R, FALSE)
    OBVIOUS
  <2>2. s.op = "swap" /\ s.src = X /\ s.dst = R
    BY <2>1 DEF Step
  <2>3. \A c \in 0 .. R : After(h, s, up, c) = Target(f, b, lift, c)
    BY <1>1, <1>9, <2>2 DEF After, Target, Pushed, Dropped
  <2>4. Reaches(f, b, lift, Apply(h, s, up))
    BY <1>3, <2>3, ApplyAt DEF Reaches
  <2>5. StepsOf(f) = <<s>>
    BY <1>9, <2>1 DEF StepsOf
  <2> QED BY <1>5, <2>4, <2>5
<1>10. CASE f.name = "RollUp"
  <2>1. PICK s : s = Step("rollUp", X, X, FALSE)
    OBVIOUS
  <2>2. s.op = "rollUp" /\ s.src = X /\ s.dst = X
    BY <2>1 DEF Step
  <2>3. \A c \in 0 .. R : After(h, s, up, c) = Target(f, b, lift, c)
    BY <1>1, <1>10, <2>2 DEF After, Target, Pushed, Dropped
  <2>4. Reaches(f, b, lift, Apply(h, s, up))
    BY <1>3, <2>3, ApplyAt DEF Reaches
  <2>5. StepsOf(f) = <<s>>
    BY <1>10, <2>1 DEF StepsOf
  <2> QED BY <1>5, <2>4, <2>5
<1>11. CASE f.name = "RollDown"
  <2>1. PICK s : s = Step("rollDown", X, X, FALSE)
    OBVIOUS
  <2>2. s.op = "rollDown" /\ s.src = X /\ s.dst = X
    BY <2>1 DEF Step
  <2>3. \A c \in 0 .. R : After(h, s, up, c) = Target(f, b, lift, c)
    BY <1>1, <1>11, <2>2 DEF After, Target, Pushed, Dropped
  <2>4. Reaches(f, b, lift, Apply(h, s, up))
    BY <1>3, <2>3, ApplyAt DEF Reaches
  <2>5. StepsOf(f) = <<s>>
    BY <1>11, <2>1 DEF StepsOf
  <2> QED BY <1>5, <2>4, <2>5
<1>12. CASE f.name = "ClX"
  <2>1. PICK s : s = Step("clear", X, X, FALSE)
    OBVIOUS
  <2>2. s.op = "clear" /\ s.src = X /\ s.dst = X
    BY <2>1 DEF Step
  <2>3. \A c \in 0 .. R : After(h, s, up, c) = Target(f, b, lift, c)
    BY <1>1, <1>12, <2>2 DEF After, Target, Pushed, Dropped
  <2>4. Reaches(f, b, lift, Apply(h, s, up))
    BY <1>3, <2>3, ApplyAt DEF Reaches
  <2>5. StepsOf(f) = <<s>>
    BY <1>12, <2>1 DEF StepsOf
  <2> QED BY <1>5, <2>4, <2>5
<1>13. CASE f.name = "Drop"
  <2>1. PICK s : s = Step("drop", X, X, FALSE)
    OBVIOUS
  <2>2. s.op = "drop" /\ s.src = X /\ s.dst = X
    BY <2>1 DEF Step
  <2>3. \A c \in 0 .. R : After(h, s, up, c) = Target(f, b, lift, c)
    BY <1>1, <1>13, <2>2 DEF After, Target, Pushed, Dropped
  <2>4. Reaches(f, b, lift, Apply(h, s, up))
    BY <1>3, <2>3, ApplyAt DEF Reaches
  <2>5. StepsOf(f) = <<s>>
    BY <1>13, <2>1 DEF StepsOf
  <2> QED BY <1>5, <2>4, <2>5
<1>14. CASE f.name = "DropY"
  <2>1. PICK s : s = Step("drop", X, Y, FALSE)
    OBVIOUS
  <2>2. s.op = "drop" /\ s.src = X /\ s.dst = Y
    BY <2>1 DEF Step
  <2>3. \A c \in 0 .. R : After(h, s, up, c) = Target(f, b, lift, c)
    BY <1>1, <1>14, <2>2 DEF After, Target, Pushed, Dropped
  <2>4. Reaches(f, b, lift, Apply(h, s, up))
    BY <1>3, <2>3, ApplyAt DEF Reaches
  <2>5. StepsOf(f) = <<s>>
    BY <1>14, <2>1 DEF StepsOf
  <2> QED BY <1>5, <2>4, <2>5
<1>15. CASE f.name = "Store"
  <2>1. PICK s : s = Copy(X, R)
    OBVIOUS
  <2>2. s.op = "copy" /\ s.src = X /\ s.dst = R
    BY <2>1 DEF Step, Copy
  <2>3. \A c \in 0 .. R : After(h, s, up, c) = Target(f, b, lift, c)
    BY <1>1, <1>15, <2>2 DEF After, Target, Pushed, Dropped
  <2>4. Reaches(f, b, lift, Apply(h, s, up))
    BY <1>3, <2>3, ApplyAt DEF Reaches
  <2>5. StepsOf(f) = <<s>>
    BY <1>15, <2>1 DEF StepsOf, fnStore
  <2> QED BY <1>5, <2>4, <2>5
<1>16. CASE f.name = "StoreL"
  <2>1. PICK s : s = Copy(X, L)
    OBVIOUS
  <2>2. s.op = "copy" /\ s.src = X /\ s.dst = L
    BY <2>1 DEF Step, Copy
  <2>3. \A c \in 0 .. R : After(h, s, up, c) = Target(f, b, lift, c)
    BY <1>1, <1>16, <2>2 DEF After, Target, Pushed, Dropped
  <2>4. Reaches(f, b, lift, Apply(h, s, up))
    BY <1>3, <2>3, ApplyAt DEF Reaches
  <2>5. StepsOf(f) = <<s>>
    BY <1>16, <2>1 DEF StepsOf, fnStore
  <2> QED BY <1>5, <2>4, <2>5
<1>17. CASE f.name = "Enter"
  <2>1. PICK s : s = Lift
    OBVIOUS
  <2>2. PICK u : u = CopyOrReturn(Y, X)
    OBVIOUS
  <2>3. s.op = "lift" /\ u.op = "copy" /\ u.src = Y /\ u.dst = X
    BY <2>1, <2>2 DEF Step, Lift, CopyOrReturn
  <2>4. PICK g : g = Apply(h, s, up)
    OBVIOUS
  <2>5. \A r \in 0 .. R : g[r] = After(h, s, up, r)
    BY <1>3, <2>4, ApplyAt
  <2>6. \A r \in 0 .. R : g[r] = IF r = 0 THEN Junk
                             ELSE IF up /\ r \in 1 .. Top THEN b[r - 1] ELSE b[r]
    BY <1>1, <2>3, <2>5 DEF After
  <2>7. up = TRUE
    BY <1>4, <1>17
  <2>8. \A c \in 0 .. R : After(g, u, up, c) = Target(f, b, lift, c)
    BY <1>1, <1>17, <2>3, <2>6, <2>7 DEF After, Target, Pushed
  <2>9. Reaches(f, b, lift, Apply(g, u, up))
    BY <1>3, <2>8, ApplyAt DEF Reaches
  <2>10. StepsOf(f) = <<s, u>>
    BY <1>17, <2>1, <2>2 DEF StepsOf, keyEnter
  <2> QED BY <1>6, <2>4, <2>9, <2>10
<1>18. CASE f.name = "Constant"
  <2>1. PICK s : s = Lift
    OBVIOUS
  <2>2. PICK u : u = Write(f.val)
    OBVIOUS
  <2>3. s.op = "lift" /\ u.op = "write" /\ u.val = f.val
    BY <2>1, <2>2 DEF Step, Lift, Write
  <2>4. PICK g : g = Apply(h, s, up)
    OBVIOUS
  <2>5. \A r \in 0 .. R : g[r] = After(h, s, up, r)
    BY <1>3, <2>4, ApplyAt
  <2>6. \A r \in 0 .. R : g[r] = IF r = 0 THEN Junk
                             ELSE IF up /\ r \in 1 .. Top THEN b[r - 1] ELSE b[r]
    BY <1>1, <2>3, <2>5 DEF After
  <2>7. up = lift
    BY <1>4, <1>18
  <2>8. \A c \in 0 .. R : After(g, u, up, c) = Target(f, b, lift, c)
    BY <1>1, <1>18, <2>3, <2>6, <2>7 DEF After, Target, Pushed
  <2>9. Reaches(f, b, lift, Apply(g, u, up))
    BY <1>3, <2>8, ApplyAt DEF Reaches
  <2>10. StepsOf(f) = <<s, u>>
    BY <1>18, <2>1, <2>2 DEF StepsOf, fnConstant
  <2> QED BY <1>6, <2>4, <2>9, <2>10
<1>19. CASE f.name = "Recall"
  <2>1. PICK s : s = Step("rollUp", X, X, FALSE)
    OBVIOUS
  <2>2. PICK u : u = Copy(R, X)
    OBVIOUS
  <2>3. s.op = "rollUp" /\ u.op = "copy" /\ u.src = R /\ u.dst = X
    BY <2>1, <2>2 DEF Step, Copy
  <2>4. up = lift
    BY <1>4, <1>19
  <2>5. CASE lift
    <3>1. PICK g : g = Apply(h, s, up)
      OBVIOUS
    <3>2. \A r \in 0 .. R : g[r] = After(h, s, up, r)
      BY <1>3, <3>1, ApplyAt
    <3>3. \A r \in 1 .. R : g[r] = IF r \in 1 .. Top THEN b[r - 1] ELSE b[r]
      BY <1>1, <2>3, <3>2 DEF After
    <3>4. \A c \in 0 .. R : After(g, u, up, c) = Target(f, b, lift, c)
      BY <1>1, <1>19, <2>3, <2>5, <3>3 DEF After, Target, Pushed
    <3>5. Reaches(f, b, lift, Apply(g, u, up))
      BY <1>3, <3>4, ApplyAt DEF Reaches
    <3>6. StepsOf(f) = <<s, u>>
      BY <1>19, <2>1, <2>2, <2>5 DEF StepsOf, RecallFrom
    <3> QED BY <1>6, <3>1, <3>5, <3>6
  <2>6. CASE ~ lift
    <3>1. \A c \in 0 .. R : After(h, u, up, c) = Target(f, b, lift, c)
      BY <1>1, <1>19, <2>3, <2>6 DEF After, Target, Pushed
    <3>2. Reaches(f, b, lift, Apply(h, u, up))
      BY <1>3, <3>1, ApplyAt DEF Reaches
    <3>3. StepsOf(f) = <<u>>
      BY <1>19, <2>2, <2>6 DEF StepsOf, RecallFrom
    <3> QED BY <1>5, <3>2, <3>3
  <2> QED BY <2>5, <2>6
<1>20. CASE f.name = "LastX"
  <2>1. PICK s : s = Step("rollUp", X, X, FALSE)
    OBVIOUS
  <2>2. PICK u : u = Copy(L, X)
    OBVIOUS
  <2>3. s.op = "rollUp" /\ u.op = "copy" /\ u.src = L /\ u.dst = X
    BY <2>1, <2>2 DEF Step, Copy
  <2>4. up = lift
    BY <1>4, <1>20
  <2>5. CASE lift
    <3>1. PICK g : g = Apply(h, s, up)
      OBVIOUS
    <3>2. \A r \in 0 .. R : g[r] = After(h, s, up, r)
      BY <1>3, <3>1, ApplyAt
    <3>3. \A r \in 1 .. R : g[r] = IF r \in 1 .. Top THEN b[r - 1] ELSE b[r]
      BY <1>1, <2>3, <3>2 DEF After
    <3>4. \A c \in 0 .. R : After(g, u, up, c) = Target(f, b, lift, c)
      BY <1>1, <1>20, <2>3, <2>5, <3>3 DEF After, Target, Pushed
    <3>5. Reaches(f, b, lift, Apply(g, u, up))
      BY <1>3, <3>4, ApplyAt DEF Reaches
    <3>6. StepsOf(f) = <<s, u>>
      BY <1>20, <2>1, <2>2, <2>5 DEF StepsOf, RecallFrom
    <3> QED BY <1>6, <3>1, <3>5, <3>6
  <2>6. CASE ~ lift
    <3>1. \A c \in 0 .. R : After(h, u, up, c) = Target(f, b, lift, c)
      BY <1>1, <1>20, <2>3, <2>6 DEF After, Target, Pushed
    <3>2. Reaches(f, b, lift, Apply(h, u, up))
      BY <1>3, <3>1, ApplyAt DEF Reaches
    <3>3. StepsOf(f) = <<u>>
      BY <1>20, <2>2, <2>6 DEF StepsOf, RecallFrom
    <3> QED BY <1>5, <3>2, <3>3
  <2> QED BY <2>5, <2>6
<1>21. CASE f.name = "RecallStack"
  <2>1. PICK s : s = Copy(Top, Temp)
    OBVIOUS
  <2>2. PICK u : u = Lift
    OBVIOUS
  <2>3. PICK w : w = Copy(Temp, X)
    OBVIOUS
  <2>4. /\ s.op = "copy" /\ s.src = Top /\ s.dst = Temp /\ u.op = "lift"
        /\ w.op = "copy" /\ w.src = Temp /\ w.dst = X
    BY <2>1, <2>2, <2>3 DEF Step, Copy, Lift
  <2>5. up = lift /\ Temp \in Registers /\ Temp \notin 0 .. R
    BY <1>1, <1>4, <1>21
  <2>6. PICK g : g = Apply(h, s, up)
    OBVIOUS
  <2>7. PICK k : k = Apply(g, u, up)
    OBVIOUS
  <2>8. \A r \in 0 .. R \union {Temp} :
          g[r] = After(h, s, up, r) /\ k[r] = After(g, u, up, r)
    BY <1>3, <2>5, <2>6, <2>7, ApplyAt
  <2>9. g[Temp] = b[Top] /\ \A r \in 0 .. R : g[r] = b[r]
    BY <1>1, <2>4, <2>5, <2>8 DEF After
  <2>10. k[Temp] = b[Top] /\ \A r \in 1 .. R :
           k[r] = IF up /\ r \in 1 .. Top THEN b[r - 1] ELSE b[r]
    <3>1. \A r : r # X => After(g, u, up, r) =
                          IF up /\ r \in 1 .. Top THEN g[r - 1] ELSE g[r]
      BY <2>4 DEF After
    <3>2. Temp # X /\ Temp \notin 1 .. Top /\ \A r \in 1 .. R : r # X /\ r \in 0 .. R
      BY <1>1
    <3>3. \A r \in 1 .. Top : r - 1 \in 0 .. R
      BY <1>1
    <3> QED BY <2>8, <2>9, <3>1, <3>2, <3>3
  <2>11. \A c \in 0 .. R : After(k, w, up, c) = Target(f, b, lift, c)
    BY <1>1, <1>21, <2>4, <2>5, <2>10 DEF After, Target, Pushed
  <2>12. Reaches(f, b, lift, Apply(k, w, up))
    BY <1>3, <2>11, ApplyAt DEF Reaches
  <2>13. StepsOf(f) = <<s, u, w>>
    BY <1>21, <2>1, <2>2, <2>3 DEF StepsOf, RecallTop
  <2> QED BY <1>7, <2>6, <2>7, <2>12, <2>13
<1>22. CASE f.name = "Add"
  <2>1. PICK s : s = CopyOrReturn(X, L)
    OBVIOUS
  <2>2. PICK u : u = Write(f.val)
    OBVIOUS
  <2>3. PICK w : w = Step("drop", X, Y, FALSE)
    OBVIOUS
  <2>4. /\ s.op = "copy" /\ s.src = X /\ s.dst = L /\ u.op = "write" /\ u.val = f.val
        /\ w.op = "drop" /\ w.dst = Y
    BY <2>1, <2>2, <2>3 DEF Step, CopyOrReturn, Write
  <2>5. PICK g : g = Apply(h, s, up)
    OBVIOUS
  <2>6. PICK k : k = Apply(g, u, up)
    OBVIOUS
  <2>7. \A r \in 0 .. R : g[r] = After(h, s, up, r) /\ k[r] = After(g, u, up, r)
    BY <1>3, <2>5, <2>6, ApplyAt
  <2>8. \A r \in 0 .. R : g[r] = IF r = L THEN b[0] ELSE b[r]
    BY <1>1, <2>4, <2>7 DEF After
  <2>9. \A r \in 0 .. R : k[r] = IF r = 0 THEN f.val ELSE IF r = L THEN b[0] ELSE b[r]
    BY <1>1, <2>4, <2>7, <2>8 DEF After
  <2>10. \A c \in 0 .. R : After(k, w, up, c) = Target(f, b, lift, c)
    BY <1>1, <1>22, <2>4, <2>9 DEF After, Target, Dropped
  <2>11. Reaches(f, b, lift, Apply(k, w, up))
    BY <1>3, <2>10, ApplyAt DEF Reaches
  <2>12. StepsOf(f) = <<s, u, w>>
    BY <1>22, <2>1, <2>2, <2>3 DEF StepsOf, DyadicFunction
  <2> QED BY <1>7, <2>5, <2>6, <2>11, <2>12
<1> QED BY <1>2, <1>8, <1>9, <1>10, <1>11, <1>12, <1>13, <1>14, <1>15,
     <1>16, <1>17, <1>18, <1>19, <1>20, <1>21, <1>22 DEF Names

(***************************************************************************)
(* The handlers write only to the stack, L, R and the temporary register;  *)
(* those that write to R do nothing else; those that run without a saved   *)
(* state take one step.                                                    *)
(***************************************************************************)
LEMMA HandlerSteps ==
  ASSUME NEW f \in Functions, f.name # "Undo"
  PROVE  /\ \A i \in 1 .. Len(StepsOf(f)) :
              /\ RunStep(StepsOf(f)[i])
              /\ StepsOf(f)[i].dst = R => Len(StepsOf(f)) = 1
         /\ RunsWithoutUndo(f) => Len(StepsOf(f)) = 1
<1>1. /\ Top \in Nat /\ Top >= 2 /\ X = 0 /\ Y = 1 /\ L = Top + 1
      /\ R = Top + 2 /\ Temp = Top + 3
  BY RegisterNumbers
<1>2. f.name \in Names
  BY DEF Functions
<1> DEFINE Ok(s) == RunStep(s) /\ s.dst # R
<1>3. /\ RunStep(Step("swap", X, Y, FALSE)) /\ RunStep(Step("swap", X, R, FALSE))
      /\ RunStep(Copy(X, R))
  BY <1>1 DEF RunStep, Step, Copy
<1>4. /\ Ok(Lift) /\ Ok(Write(f.val)) /\ Ok(Step("rollUp", X, X, FALSE))
      /\ Ok(Step("rollDown", X, X, FALSE)) /\ Ok(Step("clear", X, X, FALSE))
      /\ Ok(Step("drop", X, X, FALSE)) /\ Ok(Step("drop", X, Y, FALSE))
  BY <1>1 DEF RunStep, Step, Lift, Write
<1>5. /\ Ok(CopyOrReturn(Y, X)) /\ Ok(Copy(Top, Temp)) /\ Ok(Copy(Temp, X))
      /\ Ok(Copy(L, X)) /\ Ok(Copy(R, X)) /\ Ok(Copy(X, L)) /\ Ok(CopyOrReturn(X, L))
  BY <1>1 DEF RunStep, Step, Copy, CopyOrReturn
<1>6. Len(Fills) = Top /\ \A i \in 1 .. Top : Ok(Fills[i])
  BY <1>1 DEF Fills, Step, RunStep
<1> DEFINE Good(t) == /\ \A i \in 1 .. Len(t) :
                           RunStep(t[i]) /\ (t[i].dst = R => Len(t) = 1)
                      /\ RunsWithoutUndo(f) => Len(t) = 1
<1>7. \A s : RunStep(s) => Good(<<s>>)
  OBVIOUS
<1>8. \A s, u : Ok(s) /\ Ok(u) /\ ~ RunsWithoutUndo(f) => Good(<<s, u>>)
  OBVIOUS
<1>9. \A s, u, w : Ok(s) /\ Ok(u) /\ Ok(w) /\ ~ RunsWithoutUndo(f) => Good(<<s, u, w>>)
  OBVIOUS
<1>10. ~ RunsWithoutUndo(f) => Good(Fills)
  BY <1>6
<1>11. \A s : Ok(s) => RunStep(s)
  OBVIOUS
<1>12. RunsWithoutUndo(f) <=>
         f.name \in {"SwapXY", "SwapX", "RollUp", "RollDown", "ClX"}
  BY DEF RunsWithoutUndo
<1> SUFFICES Good(StepsOf(f))
  OBVIOUS
<1> HIDE DEF Ok, Good
<1>13. CASE f.name \in {"SwapXY", "SwapX", "Store"}
  BY <1>3, <1>7, <1>13 DEF StepsOf, fnStore
<1>14. CASE f.name \in {"RollUp", "RollDown", "ClX"}
  BY <1>4, <1>7, <1>11, <1>14 DEF StepsOf
<1>15. CASE f.name \in {"Drop", "DropY"}
  BY <1>4, <1>7, <1>11, <1>15 DEF StepsOf
<1>16. CASE f.name = "StoreL"
  BY <1>5, <1>7, <1>11, <1>16 DEF StepsOf, fnStore
<1>17. CASE f.name = "FillStack"
  BY <1>10, <1>12, <1>17 DEF StepsOf
<1>18. CASE f.name = "Enter"
  BY <1>4, <1>5, <1>8, <1>12, <1>18 DEF StepsOf, keyEnter
<1>19. CASE f.name = "Constant"
  BY <1>4, <1>8, <1>12, <1>19 DEF StepsOf, fnConstant
<1>20. CASE f.name = "RecallStack"
  BY <1>4, <1>5, <1>9, <1>12, <1>20 DEF StepsOf, RecallTop
<1>21. CASE f.name = "Add"
  BY <1>4, <1>5, <1>9, <1>12, <1>21 DEF StepsOf, DyadicFunction
<1>22. CASE f.name \in {"Recall", "LastX"}
  BY <1>4, <1>5, <1>7, <1>8, <1>11, <1>12, <1>22 DEF StepsOf, RecallFrom
<1> QED BY <1>2, <1>13, <1>14, <1>15, <1>16, <1>17, <1>18, <1>19, <1>20, <1>21,
           <1>22 DEF Names

---------------------------------------------------------------------------
(***************************************************************************)
(* reallyRunFunction calls the handler: its steps will do what the         *)
(* function promises.                                                      *)
(***************************************************************************)
LEMMA RunHandlerRuns ==
  ASSUME Inv, RunHandler, UNCHANGED <<desc, heap, func, before>>,
         func.name # "Undo", lift = before.lift, savedLift = before.lift,
         StackUnchanged, err' = "none", canUndo' => StackSaved,
         ~ canUndo' => RunsWithoutUndo(func)
  PROVE  Running'
<1>1. /\ Top \in Nat /\ Top >= 2 /\ Registers = 0 .. 2 * Top + 5
      /\ L = Top + 1 /\ R = Top + 2
  BY RegisterNumbers
<1>2. lift \in BOOLEAN /\ func \in Functions
  BY DEF Inv, TypeOK
<1>3. /\ todo' = StepsOf(func)
      /\ lift' = (lift \/ func.name = "Enter") /\ savedLift' = lift'
      /\ func' = func /\ before' = before
  BY DEF RunHandler
<1>4. Held' = Held /\ \A r : holds(r)' = holds(r) /\ Was(r)' = Was(r)
  BY DEF Held, holds, Was
<1>5. StackUnchanged' /\ (canUndo' => StackSaved')
  BY <1>4 DEF StackUnchanged, StackSaved
<1>6. /\ \A i \in 1 .. Len(todo') :
           RunStep(todo'[i]) /\ (todo'[i].dst = R => Len(todo') = 1)
      /\ ~ canUndo' => Len(todo') = 1
  BY <1>2, <1>3, HandlerSteps
<1>7. (holds(R) = Was(R))'
  BY <1>1, <1>5 DEF StackUnchanged
<1>8. (RunsWithoutUndo(func) <=> RunsWithoutUndo(func)') /\ (Entering <=> Entering')
  BY <1>3 DEF RunsWithoutUndo, Entering
<1>9. (IF func.name = "FillStack" THEN Filling ELSE OnTheWay)'
  <2>1. CASE func.name = "FillStack"
    <3>1. todo' = Fills
      BY <1>3, <2>1 DEF StepsOf
    <3>2. Len(Fills) = Top
      BY <1>1 DEF Fills
    <3>3. Rest(Fills, Fills, Top)
      <4>1. \A i \in 1 .. Top : (Top - Top) + i = i
        BY <1>1
      <4> QED BY <1>1, <3>2, <4>1 DEF Rest
    <3>4. \A c \in 0 .. R : (holds(c) = IF c <= Top - Len(todo) THEN Was(0) ELSE Was(c))'
      BY <1>1, <1>5, <3>1, <3>2 DEF StackUnchanged
    <3>5. Filling'
      BY <3>1, <3>3, <3>4 DEF Filling
    <3> QED BY <1>3, <2>1, <3>5
  <2>2. CASE func.name # "FillStack"
    <3>1. PICK f : f = func
      OBVIOUS
    <3>2. PICK h : h = Held
      OBVIOUS
    <3>3. PICK b : b = before.held
      OBVIOUS
    <3>4. f \in Functions /\ f.name \notin {"Undo", "FillStack"}
      BY <1>2, <2>2, <3>1
    <3>5. \A c \in 0 .. R : h[c] = b[c]
      BY <1>1, <3>2, <3>3 DEF Held, StackUnchanged, Was
    <3>6. /\ Len(StepsOf(f)) <= 3
          /\ Reaches(f, b, lift, Outcome(h, StepsOf(f), lift \/ f.name = "Enter"))
      BY <1>2, <3>4, <3>5, HandlerOutcome
    <3>7. /\ todo' = StepsOf(f) /\ lift' = (lift \/ f.name = "Enter")
          /\ func' = f /\ before'.held = b /\ before'.lift = lift /\ Held' = h
      BY <1>3, <1>4, <3>1, <3>2, <3>3
    <3>8. \A c \in 0 .. R : Outcome(Held', todo', lift')[c]
                            = Target(func', before'.held, before'.lift, c)
      BY <3>6, <3>7 DEF Reaches
    <3>9. \A c \in 0 .. R :
            (Outcome(Held, todo, lift)[c] = Target(func, before.held, before.lift, c))'
      BY <3>8
    <3>10. OnTheWay'
      BY <3>6, <3>7, <3>9 DEF OnTheWay
    <3> QED BY <1>3, <2>2, <3>10
  <2> QED BY <2>1, <2>2
<1>10. (lift = (before.lift \/ Entering) /\ savedLift = lift /\ func.name # "Undo")'
  BY <1>3 DEF Entering
<1>11. (\A i \in 1 .. Len(todo) :
          RunStep(todo[i]) /\ (todo[i].dst = R => Len(todo) = 1 /\ err = "none"))'
  BY <1>6
<1>12. (~ canUndo => /\ RunsWithoutUndo(func)
                     /\ Len(todo) <= 1
                     /\ err # "none" => todo = <<>> /\ ~ Entering
                     /\ todo # <<>> \/ err # "none" => StackUnchanged)'
  <2> SUFFICES ASSUME ~ canUndo'
               PROVE  (/\ RunsWithoutUndo(func)
                       /\ Len(todo) <= 1
                       /\ err # "none" => todo = <<>> /\ ~ Entering
                       /\ todo # <<>> \/ err # "none" => StackUnchanged)'
    OBVIOUS
  <2>1. RunsWithoutUndo(func)'
    BY <1>8
  <2>2. Len(todo') = 1
    BY <1>6
  <2>3. Len(todo') <= 1
    BY ONLY <2>2
  <2> QED BY <1>5, <2>1, <2>3
<1> QED BY <1>5, <1>7, <1>9, <1>10, <1>11, <1>12 DEF Running

(* Memory that was lacking remains on record.                              *)
LEMMA ShortageLasts ==
  ASSUME OutOfMemory, [Next]_vars
  PROVE  OutOfMemory'
<1>1. ASSUME Continue \/ FailStep \/ \E e : HaltStep(e) PROVE OutOfMemory'
  BY <1>1 DEF OutOfMemory, Continue, FailStep, HaltStep, history
<1>2. CASE TakeStep
  <2>1. Continue \/ FailStep \/ \E e : HaltStep(e)
    BY <1>2 DEF TakeStep, copySourceRegisterToDestRegister, clearRegister, WriteX,
      liftStack, drop, fillStack, swapRegs, rollUp, rollDown, Put
  <2> QED BY <1>1, <2>1
<1>3. CASE UNCHANGED <<claimFailed, undoFailed>>
  BY <1>3 DEF OutOfMemory
<1>4. ASSUME ~ TakeStep PROVE UNCHANGED <<claimFailed, undoFailed>>
  BY <1>4 DEF Next, Begin, OtherMemoryUse, SaveEnds, ClearEnds, RunEnds, UndoEnds,
    history, vars
<1> QED BY <1>2, <1>3, <1>4

(* The steps of saveForUndo and of undo reach every register of the stack, *)
(* and L.                                                                  *)
LEMMA AllSaved ==
  ASSUME Saving, err = "none", todo = <<>>
  PROVE  StackSaved
<1>1. Top \in Nat /\ L = Top + 1
  BY RegisterNumbers
<1>2. Len(todo) = 0
  OBVIOUS
<1>3. \A i \in 1 .. Top + 2 : holds(savedRegisterFor(Nth(i))) = Was(Nth(i))
  BY <1>1, <1>2 DEF Saving
<1> QED BY <1>1, <1>3, NthRegister DEF StackSaved

(* undo has put back what was saved.                                       *)
LEMMA AllRestored ==
  ASSUME Undoing, todo = <<>>
  PROVE  \A c \in 0 .. L : holds(c) = holds(savedRegisterFor(c))
<1>1. Top \in Nat /\ L = Top + 1
  BY RegisterNumbers
<1>2. Len(todo) = 0
  OBVIOUS
<1>3. \A i \in 1 .. Top + 2 : holds(Nth(i)) = holds(savedRegisterFor(Nth(i)))
  BY <1>1, <1>2 DEF Undoing
<1> QED BY <1>1, <1>3, NthRegister

(* The lists of steps are as long as there are registers to save.          *)
LEMMA ListLengths ==
  /\ Len(SaveSteps) = Top + 2 /\ Rest(SaveSteps, SaveSteps, Top + 2)
  /\ Len(UndoSteps) = Top + 2 /\ Rest(UndoSteps, UndoSteps, Top + 2)
  /\ Len(ClearSteps) = Top + 2
<1>1. Top + 2 \in Nat
  BY RegisterNumbers
<1>2. Len(SaveSteps) = Top + 2 /\ Len(UndoSteps) = Top + 2 /\ Len(ClearSteps) = Top + 2
  BY <1>1 DEF SaveSteps, UndoSteps, ClearSteps
<1>3. \A i \in 1 .. Top + 2 : (Top + 2) - (Top + 2) + i = i
  BY <1>1
<1> QED BY <1>1, <1>2, <1>3 DEF Rest

(***************************************************************************)
(* A function begins: nothing has changed, nothing is saved.               *)
(***************************************************************************)
LEMMA BeginValues ==
  ASSUME Inv, ValuesInv, ~ OutOfMemory, NEW f \in Functions, Begin(f)
  PROVE  ValuesInv'
<1>1. /\ Top \in Nat /\ Top >= 2 /\ Registers = 0 .. 2 * Top + 5
      /\ L = Top + 1 /\ R = Top + 2 /\ Temp = Top + 3
      /\ \A r : savedRegisterFor(r) = Top + 4 + r
  BY RegisterNumbers
<1>2. /\ phase = "idle" /\ func' = f /\ err' = "none" /\ before' = Now
      /\ UNCHANGED <<desc, heap, claimFailed, undoFailed>>
  BY DEF Begin, memory
<1>3. /\ before'.lift = lift /\ before'.savedLift = savedLift
      /\ before'.canUndo = canUndo
      /\ \A r \in Registers \ {Temp} : before'.held[r] = holds(r)
  BY <1>2 DEF Now
<1>4. \A r \in Registers \ {Temp} : holds(r)' = Was(r)'
  BY <1>2, <1>3 DEF holds, Was
<1>5. \A c \in 0 .. R : c \in Registers \ {Temp}
  BY <1>1
<1>6. \A c \in 0 .. L : savedRegisterFor(c) \in Registers \ {Temp}
  BY <1>1
<1>7. todo = <<>>
  BY <1>2 DEF ValuesInv
<1>8. CASE f.name # "Undo" /\ phase' = "save" /\ todo' = SaveSteps /\ savedLift' = lift
           /\ UNCHANGED <<lift, canUndo>>
  <2>1. Saving'
    <3>1. StackUnchanged'
      BY <1>4, <1>5 DEF StackUnchanged
    <3>2. Rest(todo', SaveSteps, Top + 2) /\ (Top + 2) - Len(todo') = 0
      BY <1>1, <1>8, ListLengths
    <3>3. \A i \in 1 .. (Top + 2) - Len(todo') :
            (holds(savedRegisterFor(Nth(i))) = Was(Nth(i)))'
      BY <3>2
    <3>4. (func.name # "Undo" /\ lift = before.lift /\ savedLift = before.lift)'
      BY <1>2, <1>3, <1>8
    <3> QED BY <1>2, <3>1, <3>2, <3>3, <3>4 DEF Saving
  <2> QED BY <1>8, <2>1 DEF ValuesInv
<1>9. CASE f.name = "Undo" /\ canUndo /\ RestoreState /\ UNCHANGED <<savedLift, canUndo>>
  <2>1. phase' = "undo" /\ todo' = UndoSteps /\ lift' = savedLift
    BY <1>9 DEF RestoreState
  <2>2. Undoing'
    <3>1. (holds(R) = Was(R))'
      BY <1>1, <1>4, <1>5
    <3>2. Rest(todo', UndoSteps, Top + 2) /\ (Top + 2) - Len(todo') = 0
      BY <1>1, <2>1, ListLengths
    <3>3. \A i \in 1 .. (Top + 2) - Len(todo') :
            (holds(Nth(i)) = holds(savedRegisterFor(Nth(i))))'
      BY <3>2
    <3>4. (\A c \in 0 .. L : holds(savedRegisterFor(c)) = Was(savedRegisterFor(c)))'
      BY <1>4, <1>6
    <3>5. (before.canUndo /\ savedLift = before.savedLift)' /\ func'.name = "Undo"
      BY <1>2, <1>3, <1>9
    <3>6. (lift = savedLift)'
      BY <1>9, <2>1
    <3> QED BY <3>1, <3>2, <3>3, <3>4, <3>5, <3>6 DEF Undoing
  <2> QED BY <2>1, <2>2 DEF ValuesInv
<1>10. CASE UNCHANGED <<flags, phase, todo>>
  BY <1>2, <1>7, <1>10 DEF ValuesInv
<1> QED BY <1>8, <1>9, <1>10 DEF Begin

(***************************************************************************)
(* saveForUndo has ended.                                                  *)
(***************************************************************************)
LEMMA SaveEndsValues ==
  ASSUME Inv, ValuesInv, ~ OutOfMemory, SaveEnds
  PROVE  ValuesInv'
<1>1. /\ Top \in Nat /\ Temp = Top + 3 /\ \A r : savedRegisterFor(r) = Top + 4 + r
  BY RegisterNumbers
<1>2. phase = "save" /\ todo = <<>> /\ UNCHANGED <<memory, err, func, history>>
  BY DEF SaveEnds
<1>3. UNCHANGED <<desc, heap, func, before, err>>
  BY <1>2 DEF memory, history
<1>4. Saving
  BY <1>2 DEF ValuesInv
<1>5. /\ func.name # "Undo" /\ lift = before.lift /\ savedLift = before.lift
      /\ StackUnchanged
  BY <1>4 DEF Saving
<1>6. CASE err = "none" /\ canUndo' = TRUE /\ RunHandler
  <2>1. StackSaved
    BY <1>2, <1>4, <1>6, AllSaved
  <2>2. Running'
    BY <1>3, <1>5, <1>6, <2>1, RunHandlerRuns
  <2>3. phase' = "run"
    BY <1>6 DEF RunHandler
  <2> QED BY <2>2, <2>3 DEF ValuesInv
<1>7. CASE phase' = "clear" /\ todo' = ClearSteps /\ UNCHANGED flags
  <2>1. UNCHANGED <<lift, savedLift>>
    BY <1>7 DEF flags
  <2>2. StackUnchanged'
    BY <1>3, <1>5 DEF StackUnchanged, holds, Was
  <2>3. ASSUME NEW i \in 1 .. Len(todo')
        PROVE  todo'[i].op = "clear" /\ todo'[i].dst > Temp
    <3>1. i \in 1 .. Top + 2 /\ Nth(i) \in 0 .. Top + 1
      BY <1>7, ListLengths, NthRegister
    <3>2. todo'[i] = Step("clear", X, savedRegisterFor(Nth(i)), FALSE)
      BY <1>7, <3>1, UndoStateSteps
    <3>3. todo'[i].op = "clear" /\ todo'[i].dst = savedRegisterFor(Nth(i))
      BY <3>2 DEF Step
    <3>4. savedRegisterFor(Nth(i)) > Temp
      BY <1>1, <3>1
    <3> QED BY <3>3, <3>4
  <2>4. Clearing'
    BY <1>3, <1>5, <2>1, <2>2, <2>3 DEF Clearing
  <2> QED BY <1>7, <2>4 DEF ValuesInv
<1> QED BY <1>6, <1>7 DEF SaveEnds

(* The error path of saveForUndo has ended.                                *)
LEMMA ClearEndsValues ==
  ASSUME Inv, ValuesInv, ~ OutOfMemory, ClearEnds
  PROVE  ValuesInv'
<1>1. phase = "clear" /\ todo = <<>> /\ canUndo' = FALSE
      /\ UNCHANGED <<desc, heap, func, before>>
  BY DEF ClearEnds, memory, history
<1>2. /\ func.name # "Undo" /\ lift = before.lift /\ savedLift = before.lift
      /\ StackUnchanged
  BY <1>1 DEF ValuesInv, Clearing
<1>3. CASE RunsWithoutUndo(func) /\ err' = "none" /\ RunHandler
  <2>1. Running'
    BY <1>1, <1>2, <1>3, RunHandlerRuns
  <2>2. phase' = "run"
    BY <1>3 DEF RunHandler
  <2> QED BY <2>1, <2>2 DEF ValuesInv
<1>4. CASE phase' = "idle" /\ UNCHANGED <<lift, savedLift, err, todo>>
  BY <1>1, <1>4 DEF ValuesInv
<1> QED BY <1>3, <1>4 DEF ClearEnds

(***************************************************************************)
(* The handler has ended: after an error the saved state is as it was.     *)
(***************************************************************************)
LEMMA RunEndsValues ==
  ASSUME Inv, ValuesInv, ~ OutOfMemory, RunEnds
  PROVE  ValuesInv'
<1>1. Top \in Nat
  BY RegisterNumbers
<1>2. phase = "run" /\ todo = <<>>
      /\ UNCHANGED <<desc, heap, savedLift, canUndo, err, func, before>>
  BY DEF RunEnds, memory, history
<1>3. Running
  BY <1>2 DEF ValuesInv
<1>4. CASE err # "none" /\ canUndo /\ RestoreState
  <2>1. phase' = "undo" /\ todo' = UndoSteps /\ lift' = savedLift
    BY <1>4 DEF RestoreState
  <2>2. /\ func.name # "Undo" /\ savedLift = (before.lift \/ Entering)
        /\ StackSaved /\ holds(R) = Was(R)
    BY <1>3, <1>4 DEF Running
  <2>3. Rest(todo', UndoSteps, Top + 2) /\ (Top + 2) - Len(todo') = 0
    BY <1>1, <2>1, ListLengths
  <2>4. \A i \in 1 .. (Top + 2) - Len(todo') :
          (holds(Nth(i)) = holds(savedRegisterFor(Nth(i))))'
    BY <2>3
  <2>5. StackSaved' /\ (holds(R) = Was(R))'
    BY <1>2, <2>2 DEF StackSaved, holds, Was
  <2>6. (lift = savedLift)' /\ (func.name # "Undo")'
        /\ (savedLift = (before.lift \/ Entering))'
    BY <1>2, <2>1, <2>2 DEF Entering
  <2>7. Undoing'
    BY <2>3, <2>4, <2>5, <2>6 DEF Undoing
  <2> QED BY <2>1, <2>7 DEF ValuesInv
<1>5. CASE phase' = "idle" /\ UNCHANGED todo
  BY <1>2, <1>5 DEF ValuesInv
<1> QED BY <1>4, <1>5 DEF RunEnds

---------------------------------------------------------------------------
(* Nothing is saved at first, and no function runs.                        *)
LEMMA InitValues == Init => ValuesInv
  BY DEF Init, ValuesInv

(***************************************************************************)
(* Every step keeps what is known of the contents.                         *)
(***************************************************************************)
LEMMA NextValues == Inv /\ ValuesInv /\ [Next]_vars => ValuesInv'
<1> SUFFICES ASSUME Inv, ValuesInv, [Next]_vars, ~ OutOfMemory'
             PROVE  ValuesInv'
  BY DEF ValuesInv
<1>1. ~ OutOfMemory
  BY ShortageLasts
<1>2. CASE TakeStep
  <2>1. FailStep \/ Succeeds \/ Resets
    BY <1>2, StepValues DEF OutOfMemory
  <2>2. UNCHANGED phase /\ ~ undoFailed'
    BY <2>1, ControlUnchanged DEF Succeeds, Resets, OutOfMemory
  <2>3. phase # "idle" /\ todo # <<>>
    BY <1>2 DEF TakeStep, copySourceRegisterToDestRegister, clearRegister, WriteX,
      liftStack, drop, fillStack, swapRegs, rollUp, rollDown, StepIs
  <2>4. CASE phase = "save"
    BY <1>1, <2>1, <2>2, <2>3, <2>4, SavingStep DEF ValuesInv
  <2>5. CASE phase = "clear"
    BY <1>1, <2>1, <2>2, <2>3, <2>5, ClearingStep DEF ValuesInv
  <2>6. CASE phase = "run"
    BY <1>1, <2>1, <2>2, <2>3, <2>6, RunningStep DEF ValuesInv
  <2>7. CASE phase = "undo"
    BY <1>1, <2>1, <2>2, <2>3, <2>7, UndoingStep DEF ValuesInv
  <2>8. phase \in Phases /\ phase # "halted"
    BY <1>1 DEF Inv, TypeOK, ValuesInv
  <2> QED BY <2>3, <2>4, <2>5, <2>6, <2>7, <2>8 DEF Phases
<1>3. CASE \E f \in Functions : Begin(f)
  BY <1>1, <1>3, BeginValues
<1>4. CASE OtherMemoryUse
  BY <1>1, <1>4 DEF OtherMemoryUse, ValuesInv
<1>5. CASE SaveEnds
  BY <1>1, <1>5, SaveEndsValues
<1>6. CASE ClearEnds
  BY <1>1, <1>6, ClearEndsValues
<1>7. CASE RunEnds
  BY <1>1, <1>7, RunEndsValues
<1>8. CASE UndoEnds
  BY <1>8 DEF UndoEnds, ValuesInv
<1>9. CASE UNCHANGED vars
  <2>1. UNCHANGED <<desc, heap, lift, savedLift, canUndo, err, func, phase, todo,
                    claimFailed, undoFailed, before>>
    BY <1>9 DEF vars, memory, flags, history
  <2>2. /\ UNCHANGED <<Saving, Clearing, Running, Undoing>>
    BY <2>1 DEF Saving, Clearing, Running, Undoing, StackUnchanged, StackSaved, Entering,
      Filling, OnTheWay, Held, holds, Was, RunsWithoutUndo
  <2> QED BY <1>1, <2>1, <2>2 DEF ValuesInv
<1> QED BY <1>2, <1>3, <1>4, <1>5, <1>6, <1>7, <1>8, <1>9 DEF Next

---------------------------------------------------------------------------
(* What the abstract stack sees of a step: nothing, an end of memory, a    *)
(* function that failed, one that was done, or UNDO.                       *)
LEMMA SeesNothing ==
  ASSUME UNCHANGED <<Seen, OutOfMemory>>
  PROVE  UNCHANGED Abstract!vars
  BY DEF Abstract!vars, SeenVals, SeenLift, SeenSaved

(* Memory ran out.                                                         *)
LEMMA SeesShortage ==
  ASSUME OutOfMemory'
  PROVE  Abstract!Next
  BY DEF Abstract!Next, Abstract!Shortage, OutOfMemory

(* The types of what is seen.                                              *)
LEMMA SeenTyped ==
  ASSUME TypeOK
  PROVE  /\ Seen.lift \in BOOLEAN /\ Seen.savedLift \in BOOLEAN /\ Seen.canUndo \in BOOLEAN
         /\ \A r \in Registers \ {Temp} : Seen.held[r] \in Contents
<1>1. \A r \in Registers : holds(r) \in Contents
  BY DEF TypeOK, holds
<1>2. /\ Now.lift \in BOOLEAN /\ Now.savedLift \in BOOLEAN /\ Now.canUndo \in BOOLEAN
      /\ \A r \in Registers \ {Temp} : Now.held[r] \in Contents
  BY <1>1 DEF TypeOK, Now
<1>3. before \in [held : [Registers \ {Temp} -> Contents], lift : BOOLEAN,
                 savedLift : BOOLEAN, canUndo : BOOLEAN]
  BY DEF TypeOK
<1>4. /\ before.lift \in BOOLEAN /\ before.savedLift \in BOOLEAN
      /\ before.canUndo \in BOOLEAN
      /\ \A r \in Registers \ {Temp} : before.held[r] \in Contents
  BY <1>3
<1> QED BY <1>2, <1>4 DEF Seen

(* With memory left, what is seen is what the registers hold or held.      *)
LEMMA SeenIs ==
  ASSUME TypeOK, ~ OutOfMemory
  PROVE  /\ OutOfMemory = FALSE
         /\ SeenVals = [c \in 0 .. R |-> Seen.held[c]]
         /\ SeenLift = Seen.lift
         /\ ~ Seen.canUndo => SeenSaved = None
         /\ Seen.canUndo =>
              SeenSaved = [vals |-> [c \in 0 .. L |-> Seen.held[savedRegisterFor(c)]],
                           lift |-> Seen.savedLift]
<1>1. OutOfMemory = FALSE
  BY DEF OutOfMemory
<1>2. Seen.lift \in BOOLEAN
  BY SeenTyped
<1> QED BY <1>1, <1>2 DEF SeenVals, SeenLift, SeenSaved

(* The same after a step.                                                  *)
LEMMA SeenThen ==
  ASSUME TypeOK', ~ OutOfMemory'
  PROVE  /\ OutOfMemory' = FALSE
         /\ SeenVals' = [c \in 0 .. R |-> Seen'.held[c]]
         /\ SeenLift' = Seen'.lift
         /\ ~ Seen'.canUndo => SeenSaved' = None
         /\ Seen'.canUndo =>
              SeenSaved' = [vals |-> [c \in 0 .. L |-> Seen'.held[savedRegisterFor(c)]],
                            lift |-> Seen'.savedLift]
<1>1. OutOfMemory' = FALSE
  BY DEF OutOfMemory
<1>2. (TypeOK => Seen.lift \in BOOLEAN)'
  BY SeenTyped, PTL
<1> QED BY <1>1, <1>2 DEF SeenVals, SeenLift, SeenSaved

(* The functions of the abstract stack.                                    *)
LEMMA NamesAgree ==
  ASSUME TypeOK, func.name # "Undo"
  PROVE  func.name \in Abstract!Names /\ func.val \in Values
<1>1. func.name \in Names /\ func.val \in Values
  BY DEF TypeOK, Functions
<1> QED BY <1>1 DEF Names, Abstract!Names

(* Nothing has happened, and there is nothing to undo.                     *)
LEMMA SeesFailure ==
  ASSUME TypeOK, TypeOK', ~ OutOfMemory, ~ OutOfMemory', func.name # "Undo",
         ~ Seen'.canUndo,
         Seen'.lift = Seen.lift \/ Seen'.lift = (Seen.lift \/ Entering),
         \A c \in 0 .. R : Seen'.held[c] = Seen.held[c]
  PROVE  Abstract!Next
<1>1. UNCHANGED <<SeenVals, OutOfMemory>> /\ SeenSaved' = None
  BY SeenIs, SeenThen
<1>2. SeenLift' \in {SeenLift, SeenLift \/ func.name = "Enter"}
  BY SeenIs, SeenThen DEF Entering
<1>3. Abstract!Failed(func.name)
  BY <1>1, <1>2 DEF Abstract!Failed
<1> QED BY <1>3, NamesAgree DEF Abstract!Next

(* What the function does, on the abstract stack.                          *)
LEMMA EffectIs ==
  ASSUME TypeOK, ~ OutOfMemory, NEW f \in Functions, f.name # "Undo"
  PROVE  Abstract!Effect(f.name, f.val)
         = [c \in 0 .. R |-> Target(f, Seen.held, Seen.lift, c)]
<1>1. /\ Top \in Nat /\ Top >= 2 /\ L = Top + 1 /\ R = Top + 2
  BY RegisterNumbers
<1>2. Abstract!L = L /\ Abstract!R = R /\ Abstract!Cells = 0 .. R
  BY <1>1 DEF Abstract!L, Abstract!R, Abstract!Cells
<1>3. f.name \in Names
  BY DEF Functions
<1>4. PICK n : n = f.name
  OBVIOUS
<1>5. PICK b : b = Seen.held
  OBVIOUS
<1>6. PICK up : up = Seen.lift
  OBVIOUS
<1>7. up \in BOOLEAN /\ SeenLift = up /\ SeenVals = [c \in 0 .. R |-> b[c]]
  BY <1>5, <1>6, SeenIs, SeenTyped
<1> DEFINE T == [c \in 0 .. R |-> Target(f, b, up, c)]
<1> SUFFICES Abstract!Effect(f.name, f.val) = T
  BY <1>5, <1>6
<1>8. CASE f.name = "SwapXY"
  <2> DEFINE E == [c \in 0 .. R |-> IF c = 0 THEN b[1] ELSE IF c = 1 THEN b[0] ELSE b[c]]
  <2>1. Abstract!Effect(f.name, f.val) = Abstract!Swap(0, 1)
    BY <1>2, <1>7, <1>8 DEF Abstract!Effect
  <2>2. T = E
    BY <1>8 DEF Target
  <2>3. Abstract!Swap(0, 1) = E
    <3>1. SeenVals[0] = b[0] /\ SeenVals[1] = b[1] /\ 0 # 1
      BY <1>1, <1>7
    <3>2. Abstract!Swap(0, 1) = [SeenVals EXCEPT ![0] = b[1], ![1] = b[0]]
      BY <3>1 DEF Abstract!Swap
    <3> QED BY <1>1, <1>7, <3>1, <3>2
  <2> QED BY <2>1, <2>2, <2>3
<1>9. CASE f.name = "SwapX"
  <2> DEFINE E == [c \in 0 .. R |-> IF c = 0 THEN b[R] ELSE IF c = R THEN b[0] ELSE b[c]]
  <2>1. Abstract!Effect(f.name, f.val) = Abstract!Swap(0, R)
    BY <1>2, <1>7, <1>9 DEF Abstract!Effect
  <2>2. T = E
    BY <1>9 DEF Target
  <2>3. Abstract!Swap(0, R) = E
    <3>1. SeenVals[0] = b[0] /\ SeenVals[R] = b[R] /\ 0 # R
      BY <1>1, <1>7
    <3>2. Abstract!Swap(0, R) = [SeenVals EXCEPT ![0] = b[R], ![R] = b[0]]
      BY <3>1 DEF Abstract!Swap
    <3> QED BY <1>1, <1>7, <3>1, <3>2
  <2> QED BY <2>1, <2>2, <2>3
<1>10. CASE f.name = "RollUp"
  <2> DEFINE E == [c \in 0 .. R |-> IF c = 0 THEN b[Top] ELSE IF c \in 1 .. Top THEN b[c - 1] ELSE b[c]]
  <2>1. Abstract!Effect(f.name, f.val) = Abstract!Push(SeenVals[Top], TRUE)
    BY <1>2, <1>7, <1>10 DEF Abstract!Effect
  <2>2. T = E
    BY <1>10 DEF Target, Pushed
  <2>3. Abstract!Push(SeenVals[Top], TRUE) = E
    BY <1>1, <1>2, <1>7 DEF Abstract!Push
  <2> QED BY <2>1, <2>2, <2>3
<1>11. CASE f.name = "Enter"
  <2> DEFINE E == [c \in 0 .. R |-> IF c = 0 THEN b[0] ELSE IF c \in 1 .. Top THEN b[c - 1] ELSE b[c]]
  <2>1. Abstract!Effect(f.name, f.val) = Abstract!Push(SeenVals[0], TRUE)
    BY <1>2, <1>7, <1>11 DEF Abstract!Effect
  <2>2. T = E
    BY <1>11 DEF Target, Pushed
  <2>3. Abstract!Push(SeenVals[0], TRUE) = E
    BY <1>1, <1>2, <1>7 DEF Abstract!Push
  <2> QED BY <2>1, <2>2, <2>3
<1>12. CASE f.name = "RecallStack"
  <2> DEFINE E == [c \in 0 .. R |-> IF c = 0 THEN b[Top] ELSE IF c \in 1 .. Top /\ up THEN b[c - 1] ELSE b[c]]
  <2>1. Abstract!Effect(f.name, f.val) = Abstract!Push(SeenVals[Top], up)
    BY <1>2, <1>7, <1>12 DEF Abstract!Effect
  <2>2. T = E
    BY <1>12 DEF Target, Pushed
  <2>3. Abstract!Push(SeenVals[Top], up) = E
    BY <1>1, <1>2, <1>7 DEF Abstract!Push
  <2> QED BY <2>1, <2>2, <2>3
<1>13. CASE f.name = "Recall"
  <2> DEFINE E == [c \in 0 .. R |-> IF c = 0 THEN b[R] ELSE IF c \in 1 .. Top /\ up THEN b[c - 1] ELSE b[c]]
  <2>1. Abstract!Effect(f.name, f.val) = Abstract!Push(SeenVals[R], up)
    BY <1>2, <1>7, <1>13 DEF Abstract!Effect
  <2>2. T = E
    BY <1>13 DEF Target, Pushed
  <2>3. Abstract!Push(SeenVals[R], up) = E
    BY <1>1, <1>2, <1>7 DEF Abstract!Push
  <2> QED BY <2>1, <2>2, <2>3
<1>14. CASE f.name = "LastX"
  <2> DEFINE E == [c \in 0 .. R |-> IF c = 0 THEN b[L] ELSE IF c \in 1 .. Top /\ up THEN b[c - 1] ELSE b[c]]
  <2>1. Abstract!Effect(f.name, f.val) = Abstract!Push(SeenVals[L], up)
    BY <1>2, <1>7, <1>14 DEF Abstract!Effect
  <2>2. T = E
    BY <1>14 DEF Target, Pushed
  <2>3. Abstract!Push(SeenVals[L], up) = E
    BY <1>1, <1>2, <1>7 DEF Abstract!Push
  <2> QED BY <2>1, <2>2, <2>3
<1>15. CASE f.name = "Constant"
  <2> DEFINE E == [c \in 0 .. R |-> IF c = 0 THEN f.val ELSE IF c \in 1 .. Top /\ up THEN b[c - 1] ELSE b[c]]
  <2>1. Abstract!Effect(f.name, f.val) = Abstract!Push(f.val, up)
    BY <1>2, <1>7, <1>15 DEF Abstract!Effect
  <2>2. T = E
    BY <1>15 DEF Target, Pushed
  <2>3. Abstract!Push(f.val, up) = E
    BY <1>1, <1>2, <1>7 DEF Abstract!Push
  <2> QED BY <2>1, <2>2, <2>3
<1>16. CASE f.name = "Drop"
  <2> DEFINE E == [c \in 0 .. R |-> IF c \in 0 .. Top - 1 THEN b[c + 1] ELSE b[c]]
  <2>1. Abstract!Effect(f.name, f.val) = Abstract!Without(0)
    BY <1>2, <1>7, <1>16 DEF Abstract!Effect
  <2>2. T = E
    BY <1>16 DEF Target, Dropped
  <2>3. Abstract!Without(0) = E
    BY <1>1, <1>2, <1>7 DEF Abstract!Without
  <2> QED BY <2>1, <2>2, <2>3
<1>17. CASE f.name = "DropY"
  <2> DEFINE E == [c \in 0 .. R |-> IF c \in 1 .. Top - 1 THEN b[c + 1] ELSE b[c]]
  <2>1. Abstract!Effect(f.name, f.val) = Abstract!Without(1)
    BY <1>2, <1>7, <1>17 DEF Abstract!Effect
  <2>2. T = E
    BY <1>17 DEF Target, Dropped
  <2>3. Abstract!Without(1) = E
    BY <1>1, <1>2, <1>7 DEF Abstract!Without
  <2> QED BY <2>1, <2>2, <2>3
<1>18. CASE f.name = "RollDown"
  <2> DEFINE E == [c \in 0 .. R |-> IF c = Top THEN b[0] ELSE IF c \in 0 .. Top - 1 THEN b[c + 1] ELSE b[c]]
  <2>1. Abstract!Effect(f.name, f.val) = [Abstract!Without(0) EXCEPT ![Top] = SeenVals[0]]
    BY <1>2, <1>7, <1>18 DEF Abstract!Effect
  <2>2. T = E
    BY <1>18 DEF Target, Dropped
  <2>3. [Abstract!Without(0) EXCEPT ![Top] = SeenVals[0]] = E
    <3>1. Abstract!Without(0) = [c \in 0 .. R |-> IF c \in 0 .. Top - 1 THEN b[c + 1] ELSE b[c]]
      BY <1>1, <1>2, <1>7 DEF Abstract!Without
    <3>2. SeenVals[0] = b[0]
      BY <1>1, <1>7
    <3> QED BY <1>1, <3>1, <3>2
  <2> QED BY <2>1, <2>2, <2>3
<1>19. CASE f.name = "Add"
  <2> DEFINE E == [c \in 0 .. R |-> IF c = 0 THEN f.val ELSE IF c = L THEN b[0] ELSE
              IF c \in 1 .. Top - 1 THEN b[c + 1] ELSE b[c]]
  <2>1. Abstract!Effect(f.name, f.val) = [Abstract!Without(1) EXCEPT ![0] = f.val, ![L] = SeenVals[0]]
    BY <1>2, <1>7, <1>19 DEF Abstract!Effect
  <2>2. T = E
    BY <1>19 DEF Target, Dropped
  <2>3. [Abstract!Without(1) EXCEPT ![0] = f.val, ![L] = SeenVals[0]] = E
    <3>1. Abstract!Without(1) = [c \in 0 .. R |-> IF c \in 1 .. Top - 1 THEN b[c + 1] ELSE b[c]]
      BY <1>1, <1>2, <1>7 DEF Abstract!Without
    <3>2. SeenVals[0] = b[0]
      BY <1>1, <1>7
    <3> QED BY <1>1, <3>1, <3>2
  <2> QED BY <2>1, <2>2, <2>3
<1>20. CASE f.name = "ClX"
  <2> DEFINE E == [c \in 0 .. R |-> IF c = 0 THEN Zero ELSE b[c]]
  <2>1. Abstract!Effect(f.name, f.val) = [SeenVals EXCEPT ![0] = Zero]
    BY <1>2, <1>7, <1>20 DEF Abstract!Effect
  <2>2. T = E
    BY <1>20 DEF Target
  <2>3. [SeenVals EXCEPT ![0] = Zero] = E
    BY <1>1, <1>2, <1>7
  <2> QED BY <2>1, <2>2, <2>3
<1>21. CASE f.name = "Store"
  <2> DEFINE E == [c \in 0 .. R |-> IF c = R THEN b[0] ELSE b[c]]
  <2>1. Abstract!Effect(f.name, f.val) = [SeenVals EXCEPT ![R] = SeenVals[0]]
    BY <1>2, <1>7, <1>21 DEF Abstract!Effect
  <2>2. T = E
    BY <1>21 DEF Target
  <2>3. [SeenVals EXCEPT ![R] = SeenVals[0]] = E
    BY <1>1, <1>2, <1>7
  <2> QED BY <2>1, <2>2, <2>3
<1>22. CASE f.name = "StoreL"
  <2> DEFINE E == [c \in 0 .. R |-> IF c = L THEN b[0] ELSE b[c]]
  <2>1. Abstract!Effect(f.name, f.val) = [SeenVals EXCEPT ![L] = SeenVals[0]]
    BY <1>2, <1>7, <1>22 DEF Abstract!Effect
  <2>2. T = E
    BY <1>22 DEF Target
  <2>3. [SeenVals EXCEPT ![L] = SeenVals[0]] = E
    BY <1>1, <1>2, <1>7
  <2> QED BY <2>1, <2>2, <2>3
<1>23. CASE f.name = "FillStack"
  <2> DEFINE E == [c \in 0 .. R |-> IF c <= Top THEN b[0] ELSE b[c]]
  <2>1. Abstract!Effect(f.name, f.val) = [c \in 0 .. R |-> IF c <= Top THEN SeenVals[0] ELSE SeenVals[c]]
    BY <1>2, <1>7, <1>23 DEF Abstract!Effect
  <2>2. T = E
    BY <1>23 DEF Target
  <2>3. [c \in 0 .. R |-> IF c <= Top THEN SeenVals[0] ELSE SeenVals[c]] = E
    BY <1>1, <1>2, <1>7
  <2> QED BY <2>1, <2>2, <2>3
<1> QED BY <1>3, <1>8, <1>9, <1>10, <1>11, <1>12, <1>13, <1>14, <1>15, <1>16,
           <1>17, <1>18, <1>19, <1>20, <1>21, <1>22, <1>23 DEF Names

(* The function is done, and saved for undo or one that runs without.      *)
LEMMA SeesDone ==
  ASSUME TypeOK, TypeOK', ~ OutOfMemory, ~ OutOfMemory', func.name # "Undo",
         Seen'.lift = (func.name \notin {"ClX", "Enter"}),
         \A c \in 0 .. R : Seen'.held[c] = Target(func, Seen.held, Seen.lift, c),
         Seen'.canUndo =>
           /\ Seen'.savedLift = (Seen.lift \/ Entering)
           /\ \A c \in 0 .. L : Seen'.held[savedRegisterFor(c)] = Seen.held[c],
         ~ Seen'.canUndo => RunsWithoutUndo(func)
  PROVE  Abstract!Next
<1>1. /\ Top \in Nat /\ L = Top + 1 /\ R = Top + 2
  BY RegisterNumbers
<1>2. func \in Functions
  BY DEF TypeOK
<1>3. SeenVals' = Abstract!Effect(func.name, func.val)
  <2>1. PICK f : f = func
    OBVIOUS
  <2>2. f \in Functions /\ f.name # "Undo"
    BY <1>2, <2>1
  <2>3. Abstract!Effect(f.name, f.val)
        = [c \in 0 .. R |-> Target(f, Seen.held, Seen.lift, c)]
    BY <2>2, EffectIs
  <2>4. \A c \in 0 .. R : Seen'.held[c] = Target(f, Seen.held, Seen.lift, c)
    BY <2>1
  <2>5. SeenVals' = [c \in 0 .. R |-> Seen'.held[c]]
    BY SeenThen
  <2> QED BY <2>1, <2>3, <2>4, <2>5
<1>4. SeenLift' = (func.name \notin {"ClX", "Enter"}) /\ UNCHANGED OutOfMemory
  BY SeenIs, SeenThen
<1>5. \/ SeenSaved' = Abstract!Snapshot(func.name)
      \/ func.name \in Abstract!RunsWithoutUndo /\ SeenSaved' = None
  <2>1. CASE Seen'.canUndo
    <3>1. SeenSaved' = [vals |-> [c \in 0 .. L |-> Seen'.held[savedRegisterFor(c)]],
                        lift |-> Seen'.savedLift]
      BY <2>1, SeenThen
    <3>2. [c \in 0 .. L |-> Seen'.held[savedRegisterFor(c)]] = [c \in 0 .. L |-> SeenVals[c]]
      <4>1. \A c \in 0 .. L : SeenVals[c] = Seen.held[c]
        BY <1>1, SeenIs
      <4>2. \A c \in 0 .. L : Seen'.held[savedRegisterFor(c)] = SeenVals[c]
        BY <2>1, <4>1
      <4> QED BY <4>2
    <3>3. Seen'.savedLift = (SeenLift \/ func.name = "Enter")
      BY <2>1, SeenIs DEF Entering
    <3>4. Abstract!L = L
      BY <1>1 DEF Abstract!L
    <3> QED BY <3>1, <3>2, <3>3, <3>4 DEF Abstract!Snapshot
  <2>2. CASE ~ Seen'.canUndo
    <3>1. SeenSaved' = None
      BY <2>2, SeenThen
    <3>2. func.name \in Abstract!RunsWithoutUndo
      BY <2>2 DEF RunsWithoutUndo, Abstract!RunsWithoutUndo
    <3> QED BY <3>1, <3>2
  <2> QED BY <2>1, <2>2
<1>6. func.val \in Values /\ func.name \in Abstract!Names
  BY NamesAgree
<1>7. Abstract!Done(func.name)
  BY <1>3, <1>4, <1>5, <1>6 DEF Abstract!Done
<1>8. ~ OutOfMemory
  OBVIOUS
<1> QED BY <1>6, <1>7, <1>8 DEF Abstract!Next

(* What was saved is back.                                                 *)
LEMMA SeesUndo ==
  ASSUME TypeOK, TypeOK', ~ OutOfMemory, ~ OutOfMemory',
         Seen.canUndo, ~ Seen'.canUndo, Seen'.lift = Seen.savedLift,
         Seen'.held[R] = Seen.held[R],
         \A c \in 0 .. L : Seen'.held[c] = Seen.held[savedRegisterFor(c)]
  PROVE  Abstract!Next
<1>1. /\ Top \in Nat /\ L = Top + 1 /\ R = Top + 2 /\ Temp = Top + 3
      /\ Registers = 0 .. 2 * Top + 5
      /\ \A r : savedRegisterFor(r) = Top + 4 + r
  BY RegisterNumbers
<1>2. SeenSaved = [vals |-> [c \in 0 .. L |-> Seen.held[savedRegisterFor(c)]],
                   lift |-> Seen.savedLift]
  BY SeenIs
<1>3. SeenSaved # None
  <2>1. \A c \in 0 .. L : savedRegisterFor(c) \in Registers \ {Temp}
    BY <1>1
  <2>2. [c \in 0 .. L |-> Seen.held[savedRegisterFor(c)]] \in [0 .. L -> Contents]
    BY <2>1, SeenTyped
  <2>3. Seen.savedLift \in BOOLEAN
    BY SeenTyped
  <2>4. SeenSaved \in [vals : [0 .. L -> Contents], lift : BOOLEAN]
    BY <1>2, <2>2, <2>3
  <2> QED BY <2>4, StackAssumption
<1>4. SeenSaved' = None /\ SeenLift' = SeenSaved.lift /\ UNCHANGED OutOfMemory
  BY <1>2, SeenIs, SeenThen
<1>5. SeenVals' = [c \in 0 .. R |-> IF c = R THEN SeenVals[R] ELSE SeenSaved.vals[c]]
  <2>1. \A c \in 0 .. R : Seen'.held[c] = IF c = R THEN SeenVals[R] ELSE SeenSaved.vals[c]
    <3>1. SeenVals[R] = Seen.held[R]
      BY <1>1, SeenIs
    <3>2. \A c \in 0 .. L : SeenSaved.vals[c] = Seen.held[savedRegisterFor(c)]
      BY <1>2
    <3>3. \A c \in 0 .. R : c = R \/ c \in 0 .. L
      BY <1>1
    <3> QED BY <3>1, <3>2, <3>3
  <2>2. SeenVals' = [c \in 0 .. R |-> Seen'.held[c]]
    BY SeenThen
  <2> QED BY <2>1, <2>2
<1>6. Abstract!R = R /\ Abstract!Cells = 0 .. R
  BY <1>1 DEF Abstract!R, Abstract!Cells
<1>7. Abstract!Undo
  BY <1>3, <1>4, <1>5, <1>6 DEF Abstract!Undo
<1> QED BY <1>7 DEF Abstract!Next

(* A handler that has ended without an error has done what the function    *)
(* promises.                                                               *)
LEMMA FunctionEnds ==
  ASSUME Running, todo = <<>>, err = "none"
  PROVE  \A c \in 0 .. R : holds(c) = Target(func, before.held, before.lift, c)
<1>1. /\ Top \in Nat /\ R = Top + 2 /\ Registers = 0 .. 2 * Top + 5
  BY RegisterNumbers
<1>2. Len(todo) = 0
  OBVIOUS
<1>3. CASE func.name = "FillStack"
  <2>1. \A c \in 0 .. R : holds(c) = IF c <= Top - 0 THEN Was(0) ELSE Was(c)
    BY <1>2, <1>3 DEF Running, Filling
  <2>2. \A c \in 0 .. R : Target(func, before.held, before.lift, c)
                          = IF c <= Top THEN Was(0) ELSE Was(c)
    BY <1>3 DEF Target, Was
  <2> QED BY <1>1, <2>1, <2>2
<1>4. CASE func.name # "FillStack"
  <2>1. \A c \in 0 .. R :
          Outcome(Held, todo, lift)[c] = Target(func, before.held, before.lift, c)
    BY <1>4 DEF Running, OnTheWay
  <2>2. Outcome(Held, todo, lift) = Held
    BY <1>2 DEF Outcome
  <2>3. \A c \in 0 .. R : Held[c] = holds(c)
    BY <1>1 DEF Held
  <2> QED BY <2>1, <2>2, <2>3
<1> QED BY <1>3, <1>4

---------------------------------------------------------------------------
(* Every step of the registers is a step of the abstract stack, or none.   *)
LEMMA StepRefines ==
  ASSUME Inv, Inv', ValuesInv, [Next]_vars
  PROVE  [Abstract!Next]_(Abstract!vars)
<1>1. CASE OutOfMemory'
  BY <1>1, SeesShortage
<1>2. CASE ~ OutOfMemory'
  <2>1. ~ OutOfMemory /\ UNCHANGED OutOfMemory
    BY <1>2, ShortageLasts DEF OutOfMemory
  <2>2. /\ TypeOK /\ TypeOK'
        /\ Top \in Nat /\ L = Top + 1 /\ R = Top + 2 /\ Temp = Top + 3
        /\ Registers = 0 .. 2 * Top + 5
        /\ \A r : savedRegisterFor(r) = Top + 4 + r
    BY RegisterNumbers DEF Inv
  <2>3. phase = "idle" => Seen = Now
    BY DEF Seen
  <2>4. phase # "idle" => Seen = before
    BY DEF Seen
  <2>5. phase' = "idle" => Seen' = Now'
    BY DEF Seen
  <2>6. phase' # "idle" => Seen' = before'
    BY DEF Seen
  <2>7. /\ Now'.lift = lift' /\ Now'.savedLift = savedLift' /\ Now'.canUndo = canUndo'
        /\ \A r \in Registers \ {Temp} : Now'.held[r] = holds(r)'
    BY DEF Now
  <2>8. /\ \A c \in 0 .. R : c \in Registers \ {Temp}
        /\ \A c \in 0 .. L : savedRegisterFor(c) \in Registers \ {Temp}
    BY <2>2
  <2>9. ASSUME Seen' = Seen PROVE [Abstract!Next]_(Abstract!vars)
    BY <2>1, <2>9, SeesNothing
  <2>10. CASE TakeStep
    <3>1. FailStep \/ Succeeds \/ Resets
      BY <1>2, <2>10, StepValues DEF OutOfMemory
    <3>2. UNCHANGED <<phase, before>>
      BY <3>1, ControlUnchanged DEF Succeeds, Resets
    <3>3. phase # "idle"
      BY <2>10 DEF TakeStep, copySourceRegisterToDestRegister, clearRegister, WriteX,
        liftStack, drop, fillStack, swapRegs, rollUp, rollDown, StepIs
    <3> QED BY <2>4, <2>6, <2>9, <3>2, <3>3
  <2>11. CASE \E f \in Functions : Begin(f)
    <3>1. PICK f \in Functions : Begin(f)
      BY <2>11
    <3>2. /\ phase = "idle" /\ before' = Now /\ UNCHANGED <<desc, heap>>
          /\ \/ phase' # "idle" \/ UNCHANGED <<flags, phase, todo>>
      BY <3>1 DEF Begin, RestoreState, memory
    <3>3. phase' = "idle" => UNCHANGED <<lift, savedLift, canUndo>>
      BY <3>2 DEF flags
    <3>4. phase' = "idle" => Now' = Now
      BY <3>2, <3>3 DEF Now, holds
    <3> QED BY <2>3, <2>5, <2>6, <2>9, <3>2, <3>4
  <2>12. CASE OtherMemoryUse
    <3>1. phase = "idle" /\ UNCHANGED <<desc, heap, lift, savedLift, canUndo, phase>>
      BY <2>12 DEF OtherMemoryUse, flags
    <3>2. Now' = Now
      BY <3>1 DEF Now, holds
    <3> QED BY <2>3, <2>5, <2>9, <3>1, <3>2
  <2>13. CASE SaveEnds
    <3>1. phase # "idle" /\ phase' # "idle" /\ UNCHANGED before
      BY <2>13 DEF SaveEnds, RunHandler, history
    <3> QED BY <2>4, <2>6, <2>9, <3>1
  <2>14. CASE ClearEnds
    <3>1. /\ phase = "clear" /\ todo = <<>> /\ canUndo' = FALSE
          /\ UNCHANGED <<desc, heap, before, func>>
          /\ \/ RunHandler
             \/ phase' = "idle" /\ UNCHANGED lift
      BY <2>14 DEF ClearEnds, memory, history
    <3>2. CASE RunHandler
      BY <2>4, <2>6, <2>9, <3>1, <3>2 DEF RunHandler
    <3>3. CASE phase' = "idle" /\ UNCHANGED lift
      <4>1. func.name # "Undo" /\ lift = before.lift /\ StackUnchanged
        BY <2>1, <3>1 DEF ValuesInv, Clearing
      <4>2. ~ Seen'.canUndo /\ Seen'.lift = Seen.lift
        BY <2>4, <2>5, <2>7, <3>1, <3>3, <4>1
      <4>3. \A c \in 0 .. R : Seen'.held[c] = Seen.held[c]
        BY <2>4, <2>5, <2>7, <2>8, <3>1, <3>3, <4>1 DEF StackUnchanged, Was, holds
      <4>4. Abstract!Next
        BY <1>2, <2>1, <2>2, <4>1, <4>2, <4>3, SeesFailure
      <4> QED BY <4>4
    <3> QED BY <3>1, <3>2, <3>3
  <2>15. CASE RunEnds
    <3>1. /\ phase = "run" /\ todo = <<>>
          /\ UNCHANGED <<desc, heap, savedLift, canUndo, before, func>>
      BY <2>15 DEF RunEnds, memory, history
    <3>2. Running
      BY <2>1, <3>1 DEF ValuesInv
    <3>3. CASE RestoreState
      BY <2>4, <2>6, <2>9, <3>1, <3>3 DEF RestoreState
    <3>4. CASE err # "none" /\ ~ canUndo /\ phase' = "idle" /\ UNCHANGED lift
      <4>1. func.name # "Undo" /\ lift = (before.lift \/ Entering) /\ StackUnchanged
        BY <3>2, <3>4 DEF Running
      <4>2. ~ Seen'.canUndo /\ Seen'.lift = (Seen.lift \/ Entering)
        BY <2>4, <2>5, <2>7, <3>1, <3>4, <4>1
      <4>3. \A c \in 0 .. R : Seen'.held[c] = Seen.held[c]
        BY <2>4, <2>5, <2>7, <2>8, <3>1, <3>4, <4>1 DEF StackUnchanged, Was, holds
      <4>4. Abstract!Next
        BY <1>2, <2>1, <2>2, <4>1, <4>2, <4>3, SeesFailure
      <4> QED BY <4>4
    <3>5. CASE /\ err = "none" /\ phase' = "idle"
               /\ lift' = (func.name \notin {"ClX", "Enter"})
      <4>1. /\ func.name # "Undo" /\ lift = (before.lift \/ Entering) /\ savedLift = lift
            /\ canUndo => StackSaved
            /\ ~ canUndo => RunsWithoutUndo(func)
        BY <3>2 DEF Running
      <4>2. Seen = before /\ Seen' = Now'
        BY <2>4, <2>5, <3>1, <3>5
      <4>3. \A c \in 0 .. R : holds(c) = Target(func, before.held, before.lift, c)
        BY <2>2, <2>8, <3>1, <3>2, <3>5, FunctionEnds
      <4>4. \A r : holds(r)' = holds(r)
        BY <3>1 DEF holds
      <4>5. \A c \in 0 .. R : Seen'.held[c] = Target(func, Seen.held, Seen.lift, c)
        BY <2>7, <2>8, <4>2, <4>3, <4>4
      <4>6. Seen'.lift = (func.name \notin {"ClX", "Enter"})
        BY <2>7, <3>5, <4>2
      <4>7. Seen'.canUndo =>
              /\ Seen'.savedLift = (Seen.lift \/ Entering)
              /\ \A c \in 0 .. L : Seen'.held[savedRegisterFor(c)] = Seen.held[c]
        BY <2>7, <2>8, <3>1, <4>1, <4>2, <4>4 DEF StackSaved, Was
      <4>8. ~ Seen'.canUndo => RunsWithoutUndo(func)
        BY <2>7, <3>1, <4>1, <4>2
      <4>9. Abstract!Next
        BY <1>2, <2>1, <2>2, <4>1, <4>5, <4>6, <4>7, <4>8, SeesDone
      <4> QED BY <4>9
    <3> QED BY <2>15, <3>3, <3>4, <3>5 DEF RunEnds
  <2>16. CASE UndoEnds
    <3>1. /\ phase = "undo" /\ todo = <<>> /\ phase' = "idle" /\ canUndo' = FALSE
          /\ UNCHANGED <<desc, heap, lift, savedLift, before, func>>
      BY <2>16 DEF UndoEnds, memory, history
    <3>2. Undoing
      BY <2>1, <3>1 DEF ValuesInv
    <3>3. \A c \in 0 .. L : holds(c) = holds(savedRegisterFor(c))
      BY <3>1, <3>2, AllRestored
    <3>4. Seen = before /\ Seen' = Now'
      BY <2>4, <2>5, <3>1
    <3>5. \A r : holds(r)' = holds(r)
      BY <3>1 DEF holds
    <3>6. lift = savedLift /\ holds(R) = before.held[R]
      BY <3>2 DEF Undoing, Was
    <3>7. ~ Seen'.canUndo /\ Seen'.lift = savedLift /\ Seen'.held[R] = Seen.held[R]
      BY <2>2, <2>7, <2>8, <3>1, <3>4, <3>5, <3>6
    <3>8. CASE func.name = "Undo"
      <4>1. /\ Seen.canUndo /\ Seen'.lift = Seen.savedLift
            /\ \A c \in 0 .. L : holds(savedRegisterFor(c)) = Seen.held[savedRegisterFor(c)]
        BY <3>2, <3>4, <3>7, <3>8 DEF Undoing, Was
      <4>2. \A c \in 0 .. L : Seen'.held[c] = Seen.held[savedRegisterFor(c)]
        <5>1. \A c \in 0 .. L : c \in 0 .. R
          BY <2>2
        <5> QED BY <2>7, <2>8, <3>3, <3>4, <3>5, <4>1, <5>1
      <4>3. Abstract!Next
        BY <1>2, <2>1, <2>2, <3>7, <4>1, <4>2, SeesUndo
      <4> QED BY <4>3
    <3>9. CASE func.name # "Undo"
      <4>1. savedLift = (Seen.lift \/ Entering) /\ StackSaved
        BY <3>2, <3>4, <3>9 DEF Undoing
      <4>2. \A c \in 0 .. L : Seen'.held[c] = Seen.held[c]
        <5>1. \A c \in 0 .. L : c \in 0 .. R
          BY <2>2
        <5> QED BY <2>7, <2>8, <3>3, <3>4, <3>5, <4>1, <5>1 DEF StackSaved, Was
      <4>3. \A c \in 0 .. R : Seen'.held[c] = Seen.held[c]
        <5>1. \A c \in 0 .. R : c = R \/ c \in 0 .. L
          BY <2>2
        <5> QED BY <3>7, <4>2, <5>1
      <4>4. Seen'.lift = (Seen.lift \/ Entering)
        BY <3>7, <4>1
      <4>5. Abstract!Next
        BY <1>2, <2>1, <2>2, <3>7, <3>9, <4>3, <4>4, SeesFailure
      <4> QED BY <4>5
    <3> QED BY <3>8, <3>9
  <2>17. CASE UNCHANGED vars
    <3>1. UNCHANGED <<desc, heap, lift, savedLift, canUndo, phase, before>>
      BY <2>17 DEF vars, memory, flags, history
    <3>2. Seen' = Seen
      BY <3>1 DEF Seen, Now, holds
    <3> QED BY <2>9, <3>2
  <2> QED BY <2>10, <2>11, <2>12, <2>13, <2>14, <2>15, <2>16, <2>17 DEF Next
<1> QED BY <1>1, <1>2

(* The registers begin like the abstract stack.                            *)
LEMMA InitRefines == Init => Abstract!Init
<1> SUFFICES ASSUME Init PROVE Abstract!Init
  OBVIOUS
<1>1. /\ Top \in Nat /\ R = Top + 2 /\ Temp = Top + 3 /\ Registers = 0 .. 2 * Top + 5
      /\ Registers \subseteq Blocks /\ Zero \in Values
  BY RegisterNumbers, StackAssumption
<1>2. TypeOK
  BY InitKeeps DEF Inv
<1>3. ~ OutOfMemory
  BY DEF Init, OutOfMemory
<1>4. Seen = Now
  BY DEF Seen, Init
<1>5. PICK v \in Values : heap = [b \in Blocks |-> IF b = R THEN v ELSE Zero]
  BY DEF Init
<1>6. \A r \in Registers : holds(r) \in Values
  BY <1>1, <1>5 DEF Init, holds
<1>7. \A c \in 0 .. R : Seen.held[c] \in Values
  BY <1>1, <1>4, <1>6 DEF Now
<1>8. SeenVals \in [0 .. R -> Values]
  BY <1>2, <1>3, <1>7, SeenIs
<1>9. SeenLift \in BOOLEAN
  BY <1>2, <1>3, SeenIs, SeenTyped
<1>10. ~ Seen.canUndo
  BY <1>4 DEF Now, Init
<1>11. SeenSaved = None /\ OutOfMemory = FALSE
  BY <1>2, <1>3, <1>10, SeenIs
<1>12. Abstract!Cells = 0 .. R
  BY <1>1 DEF Abstract!Cells, Abstract!R
<1> QED BY <1>8, <1>9, <1>11, <1>12 DEF Abstract!Init

(***************************************************************************)
(* What is known of the contents while a function runs holds in every      *)
(* state: saved copies are what they were copied from, a handler that has  *)
(* not failed is on its way to the promised contents, and what undo has    *)
(* put back is what was saved.                                             *)
(***************************************************************************)
THEOREM ContentsInvariant == Spec => []ValuesInv
  BY InitValues, NextValues, StackInvariant, PTL DEF Spec

(***************************************************************************)
(* The registers implement the abstract stack, for a stack of any height,  *)
(* any contents and sizes, and any memory: a function happens as a whole   *)
(* or not at all, and UNDO takes back exactly the last one.                *)
(***************************************************************************)
THEOREM RegistersImplementStack == Spec => ImplementsValueStack
<1>1. Inv /\ Inv' /\ ValuesInv /\ [Next]_vars => [Abstract!Next]_(Abstract!vars)
  BY StepRefines
<1> QED
  BY <1>1, InitRefines, StackInvariant, ContentsInvariant, PTL
  DEF Spec, ImplementsValueStack, Abstract!Spec

---------------------------------------------------------------------------
(* The memory the blocks of S take, unit by unit.                          *)
Units(h, b) == {b} \X (1 .. Size[h[b]])
Used(h, S) == UNION {Units(h, b) : b \in S}

(* A block takes as many units as its contents have.                       *)
LEMMA UnitsOfBlock ==
  ASSUME NEW h, NEW b, h[b] \in Contents
  PROVE  IsFiniteSet(Units(h, b)) /\ Cardinality(Units(h, b)) = Size[h[b]]
<1>1. Size[h[b]] \in Nat \ {0}
  BY StackAssumption
<1>2. PICK n : n = Size[h[b]]
  OBVIOUS
<1>3. n \in Nat \ {0}
  BY <1>1, <1>2
<1>4. IsFiniteSet(1 .. n) /\ Cardinality(1 .. n) = n
  BY <1>3, FS_Interval
<1>5. IsFiniteSet({b}) /\ Cardinality({b}) = 1
  BY FS_Singleton
<1>6. IsFiniteSet({b} \X (1 .. n)) /\ Cardinality({b} \X (1 .. n)) = 1 * n
  BY <1>4, <1>5, FS_Product
<1> QED BY <1>2, <1>3, <1>6 DEF Units

(* Finitely many blocks take finitely many units.                          *)
LEMMA UsedFinite ==
  ASSUME NEW h, NEW S, IsFiniteSet(S), \A b \in S : h[b] \in Contents
  PROVE  IsFiniteSet(Used(h, S))
<1> DEFINE T == {Units(h, b) : b \in S}
           f == [b \in S |-> Units(h, b)]
<1>1. f \in Surjection(S, T)
  BY Fun_IsSurj
<1>2. IsFiniteSet(T)
  BY <1>1, FS_Surjection
<1>3. \A U \in T : IsFiniteSet(U)
  BY UnitsOfBlock
<1> HIDE DEF T
<1>4. IsFiniteSet(UNION T)
  BY <1>2, <1>3, FS_UNION
<1> QED BY <1>4 DEF T, Used

(* One block more takes its own units more.                                *)
LEMMA UsedAdd ==
  ASSUME NEW h, NEW S, IsFiniteSet(S), NEW b, b \notin S,
         \A c \in S \union {b} : h[c] \in Contents
  PROVE  /\ Cardinality(Used(h, S)) \in Nat
         /\ Cardinality(Used(h, S \union {b})) = Cardinality(Used(h, S)) + Size[h[b]]
<1>1. PICK A : A = Used(h, S)
  OBVIOUS
<1>2. PICK B : B = Units(h, b)
  OBVIOUS
<1>3. IsFiniteSet(A) /\ Cardinality(A) \in Nat
  BY <1>1, UsedFinite, FS_CardinalityType
<1>4. IsFiniteSet(B) /\ Cardinality(B) = Size[h[b]] /\ Cardinality(B) \in Nat
  BY <1>2, UnitsOfBlock, FS_CardinalityType
<1>5. A \intersect B = {}
  BY <1>1, <1>2 DEF Used, Units
<1>6. Used(h, S \union {b}) = A \union B
  BY <1>1, <1>2 DEF Used
<1>7. Cardinality(A \union B) = Cardinality(A) + Cardinality(B) - Cardinality(A \intersect B)
  BY <1>3, <1>4, FS_Union
<1>8. Cardinality(A \intersect B) = 0
  BY <1>5, FS_EmptySet
<1>9. Cardinality(A \union B) = Cardinality(A) + Cardinality(B)
  BY <1>3, <1>4, <1>7, <1>8
<1> QED BY <1>1, <1>3, <1>4, <1>6, <1>9

(* Blocks whose contents have the same sizes take the same memory.         *)
LEMMA UsedSame ==
  ASSUME NEW g, NEW h, NEW S, \A b \in S : Size[g[b]] = Size[h[b]]
  PROVE  Used(g, S) = Used(h, S)
<1>1. \A b \in S : Units(g, b) = Units(h, b)
  BY DEF Units
<1> QED BY <1>1 DEF Used

(* The blocks in use are as many as the registers.                         *)
LEMMA InUseFinite ==
  ASSUME Inv, ~ claimFailed
  PROVE  /\ IsFiniteSet(inUse) /\ inUse \subseteq Blocks
         /\ \A b \in inUse : heap[b] \in Contents
         /\ \A r \in Registers : desc[r] \in inUse
         /\ Memory = free + Cardinality(Used(heap, inUse))
<1>1. /\ desc \in [Registers -> Blocks] /\ heap \in [Blocks -> Contents]
      /\ inUse \subseteq Blocks /\ inUse = {desc[r] : r \in Registers}
  BY DEF Inv, TypeOK, Owned
<1>2. IsFiniteSet(Registers)
  <2>1. 0 \in Int /\ 2 * Top + 5 \in Int
    BY StackAssumption
  <2> QED BY <2>1, FS_Interval DEF Registers
<1>3. desc \in Surjection(Registers, inUse)
  BY <1>1, Fun_IsSurj
<1>4. IsFiniteSet(inUse)
  BY <1>2, <1>3, FS_Surjection
<1>5. Memory = free + Cardinality(Used(heap, inUse))
  BY DEF Memory, Used, Units
<1> QED BY <1>1, <1>4, <1>5

(* A block given up, and a claim that makes up for it.                     *)
LEMMA FreedAccounted ==
  ASSUME Inv, ~ claimFailed, NEW old \in inUse, Freed(old)
  PROVE  Memory' = Memory
<1>1. /\ inUse' = inUse \ {old} /\ free' = free + Size[heap[old]] /\ heap' = heap
  BY DEF Freed
<1>2. PICK S : S = inUse \ {old}
  OBVIOUS
<1>3. /\ old \notin S /\ inUse = S \union {old} /\ IsFiniteSet(S)
      /\ \A c \in S \union {old} : heap[c] \in Contents
  BY <1>2, InUseFinite, FS_RemoveElement
<1>4. /\ Cardinality(Used(heap, S)) \in Nat
      /\ Cardinality(Used(heap, S \union {old})) = Cardinality(Used(heap, S)) + Size[heap[old]]
  BY <1>3, UsedAdd
<1>5. Memory = free + (Cardinality(Used(heap, S)) + Size[heap[old]])
  BY <1>3, <1>4, InUseFinite
<1>6. Memory' = (free + Size[heap[old]]) + Cardinality(Used(heap, S))
  BY <1>1, <1>2 DEF Memory, Used, Units
<1>7. free \in Nat /\ Size[heap[old]] \in Nat
  BY <1>3, StackAssumption DEF Inv, TypeOK
<1> QED BY <1>4, <1>5, <1>6, <1>7

(* The claim takes what it needs of what was given up and what is free.    *)
LEMMA ReplaceAccounted ==
  ASSUME Inv, ~ claimFailed, NEW d, NEW r, NEW old \in inUse, NEW v \in Contents,
         Replace(d, r, old, v)
  PROVE  Memory' = Memory
<1>1. PICK b \in Blocks \ (inUse \ {old}) :
        /\ heap' = [heap EXCEPT ![b] = v]
        /\ inUse' = (inUse \ {old}) \union {b}
        /\ free' = free + Size[heap[old]] - Size[v]
  BY DEF Replace
<1>2. heap \in [Blocks -> Contents]
  BY DEF Inv, TypeOK
<1>3. PICK S : S = inUse \ {old}
  OBVIOUS
<1>4. /\ old \notin S /\ inUse = S \union {old} /\ IsFiniteSet(S) /\ S \subseteq Blocks
      /\ \A c \in S \union {old} : heap[c] \in Contents
  BY <1>3, InUseFinite, FS_RemoveElement
<1>5. PICK g : g = heap'
  OBVIOUS
<1>6. /\ g[b] = v /\ b \notin S /\ \A c \in S : g[c] = heap[c]
      /\ inUse' = S \union {b}
  BY <1>1, <1>2, <1>3, <1>4, <1>5
<1>7. /\ Cardinality(Used(heap, S)) \in Nat
      /\ Cardinality(Used(heap, S \union {old})) = Cardinality(Used(heap, S)) + Size[heap[old]]
  BY <1>4, UsedAdd
<1>8. /\ Cardinality(Used(g, S)) \in Nat
      /\ Cardinality(Used(g, S \union {b})) = Cardinality(Used(g, S)) + Size[g[b]]
  <2>1. \A c \in S \union {b} : g[c] \in Contents
    BY <1>4, <1>6
  <2> QED BY <1>4, <1>6, <2>1, UsedAdd
<1>9. Used(g, S) = Used(heap, S)
  BY <1>6, UsedSame
<1>10. Memory = free + (Cardinality(Used(heap, S)) + Size[heap[old]])
  BY <1>4, <1>7, InUseFinite
<1>11. Memory' = free' + Cardinality(Used(g, S \union {b}))
  BY <1>5, <1>6 DEF Memory, Used, Units
<1>12. free \in Nat /\ Size[heap[old]] \in Nat /\ Size[v] \in Nat
  BY <1>4, StackAssumption DEF Inv, TypeOK
<1> QED BY <1>1, <1>6, <1>7, <1>8, <1>9, <1>10, <1>11, <1>12

(* Contents of the same size written in place.                             *)
LEMMA InPlaceAccounted ==
  ASSUME Inv, NEW r \in Registers, NEW v, Size[holds(r)] = Size[v],
         heap' = [heap EXCEPT ![desc[r]] = v], UNCHANGED <<inUse, free>>
  PROVE  Memory' = Memory
<1>1. heap \in [Blocks -> Contents] /\ inUse \subseteq Blocks
  BY DEF Inv, TypeOK
<1>2. PICK g : g = heap'
  OBVIOUS
<1>3. \A b \in inUse : Size[g[b]] = Size[heap[b]]
  BY <1>1, <1>2 DEF holds
<1>4. Used(g, inUse) = Used(heap, inUse)
  BY <1>3, UsedSame
<1>5. Memory' = free + Cardinality(Used(g, inUse))
  BY <1>2 DEF Memory, Used, Units
<1>6. Memory = free + Cardinality(Used(heap, inUse))
  BY DEF Memory, Used, Units
<1> QED BY <1>4, <1>5, <1>6

---------------------------------------------------------------------------
(* The registers that are to be written in place hold contents of the size *)
(* that is written: X is a new block or was a real before the function     *)
(* began.                                                                  *)
Arguments ==
  /\ func.name \in {"Constant", "Add"} => IsReal(func.val)
  /\ func.name = "Add" => IsReal(holds(X))

WriteFits(i) ==
  todo[i].op = "write" =>
    /\ IsReal(todo[i].val)
    /\ i = 1 => IsReal(holds(X))
    /\ i = 2 => \/ todo[1].op = "lift"
                \/ todo[1].op = "copy" /\ todo[1].dst # X /\ IsReal(holds(X))
    /\ i < 3

WritesFit ==
  /\ phase \in {"save", "clear"} =>
       /\ Arguments
       /\ \A i \in 1 .. Len(todo) : todo[i].op \in {"copy", "clear"} /\ todo[i].dst # X
  /\ phase = "run" => \A i \in 1 .. Len(todo) : WriteFits(i)
  /\ phase = "undo" => \A i \in 1 .. Len(todo) : todo[i].op = "copy"
  /\ phase = "halted" => todo = <<>>

(* The handlers that write X in place: the value is the one they were      *)
(* given, and X is new or untouched.                                       *)
HandlerWrites(f, t, i) ==
  t[i].op = "write" =>
    /\ i = 2 /\ t[i].val = f.val
    /\ \/ f.name = "Constant" /\ t[1].op = "lift"
       \/ f.name = "Add" /\ t[1].op = "copy" /\ t[1].dst # X

(* Every handler writes so, or not at all.                                 *)
LEMMA HandlersWrite ==
  ASSUME NEW f \in Functions
  PROVE  \A i \in 1 .. Len(StepsOf(f)) : HandlerWrites(f, StepsOf(f), i)
<1>1. /\ Top \in Nat /\ Top >= 2 /\ X = 0 /\ L = Top + 1
  BY RegisterNumbers
<1>2. f.name \in Names
  BY DEF Functions
<1> DEFINE Good(t) == \A i \in 1 .. Len(t) : HandlerWrites(f, t, i)
           Ok(s) == s.op # "write"
<1>3. /\ Ok(Lift) /\ Ok(Step("rollUp", X, X, FALSE)) /\ Ok(Step("swap", X, Y, FALSE))
      /\ Ok(Step("rollDown", X, X, FALSE)) /\ Ok(Step("clear", X, X, FALSE))
      /\ Ok(Step("drop", X, X, FALSE)) /\ Ok(Step("drop", X, Y, FALSE))
      /\ Ok(Step("swap", X, R, FALSE))
  BY DEF Step, Lift
<1>4. \A s, d : Ok(Copy(s, d)) /\ Ok(CopyOrReturn(s, d))
  BY DEF Step, Copy, CopyOrReturn
<1>5. Len(Fills) = Top /\ \A i \in 1 .. Top : Ok(Fills[i])
  BY <1>1 DEF Fills, Step
<1>6. Good(Fills) /\ Good(<<>>)
  BY <1>5 DEF HandlerWrites
<1>7. \A s : Ok(s) => Good(<<s>>)
  BY DEF HandlerWrites
<1>8. \A s, u : Ok(s) /\ Ok(u) => Good(<<s, u>>)
  BY DEF HandlerWrites
<1>9. \A s, u, w : Ok(s) /\ Ok(u) /\ Ok(w) => Good(<<s, u, w>>)
  BY DEF HandlerWrites
<1>10. CASE f.name = "Constant"
  <2>1. PICK s : s = Lift
    OBVIOUS
  <2>2. PICK u : u = Write(f.val)
    OBVIOUS
  <2>3. s.op = "lift" /\ u.val = f.val
    BY <2>1, <2>2 DEF Lift, Write, Step
  <2>4. Good(<<s, u>>)
    BY <1>10, <2>3 DEF HandlerWrites
  <2>5. StepsOf(f) = <<s, u>>
    BY <1>10, <2>1, <2>2 DEF StepsOf, fnConstant
  <2> QED BY <2>4, <2>5
<1>11. CASE f.name = "Add"
  <2>1. PICK s : s = CopyOrReturn(X, L)
    OBVIOUS
  <2>2. PICK u : u = Write(f.val)
    OBVIOUS
  <2>3. PICK w : w = Step("drop", X, Y, FALSE)
    OBVIOUS
  <2>4. s.op = "copy" /\ s.dst # X /\ u.val = f.val /\ w.op = "drop"
    BY <1>1, <2>1, <2>2, <2>3 DEF CopyOrReturn, Write, Step
  <2>5. Good(<<s, u, w>>)
    BY <1>11, <2>4 DEF HandlerWrites
  <2>6. StepsOf(f) = <<s, u, w>>
    BY <1>11, <2>1, <2>2, <2>3 DEF StepsOf, DyadicFunction
  <2> QED BY <2>5, <2>6
<1> SUFFICES Good(StepsOf(f))
  OBVIOUS
<1> HIDE DEF Good, Ok
<1>12. CASE f.name \in {"SwapXY", "SwapX", "RollUp", "RollDown", "ClX", "Drop", "DropY"}
  BY <1>3, <1>7, <1>12 DEF StepsOf
<1>13. CASE f.name \in {"Store", "StoreL"}
  BY <1>4, <1>7, <1>13 DEF StepsOf, fnStore
<1>14. CASE f.name \in {"FillStack", "Undo"}
  BY <1>6, <1>14 DEF StepsOf
<1>15. CASE f.name = "Enter"
  BY <1>3, <1>4, <1>8, <1>15 DEF StepsOf, keyEnter
<1>16. CASE f.name \in {"Recall", "LastX"}
  BY <1>3, <1>4, <1>7, <1>8, <1>16 DEF StepsOf, RecallFrom
<1>17. CASE f.name = "RecallStack"
  BY <1>3, <1>4, <1>9, <1>17 DEF StepsOf, RecallTop
<1> QED BY <1>2, <1>10, <1>11, <1>12, <1>13, <1>14, <1>15, <1>16, <1>17 DEF Names, Good

(* A step of saveForUndo, of a handler or of undo leaves the writes in     *)
(* order.                                                                  *)
LEMMA TakeStepWrites ==
  ASSUME Inv, Inv', WritesFit, TakeStep
  PROVE  WritesFit'
<1>1. CASE claimFailed'
  BY <1>1 DEF Inv, Halted, WritesFit
<1>2. CASE ~ claimFailed'
  <2>1. \/ FailStep /\ Head(todo).op \in {"copy", "clear"}
        \/ Succeeds \/ Resets
    BY <1>2, StepValues
  <2>2. UNCHANGED <<phase, func>> /\ (todo' = <<>> \/ todo' = Tail(todo))
    BY <2>1, ControlUnchanged DEF Succeeds, Resets
  <2>3. phase # "idle" /\ todo # <<>>
    BY DEF TakeStep, copySourceRegisterToDestRegister, clearRegister, WriteX,
      liftStack, drop, fillStack, swapRegs, rollUp, rollDown, StepIs
  <2>4. todo \in Seq(Steps) /\ phase \in Phases /\ heap \in [Blocks -> Contents]
        /\ desc \in [Registers -> Blocks]
    BY DEF Inv, TypeOK
  <2>5. /\ Len(todo) \in Nat \ {0} /\ Head(todo) = todo[1]
        /\ Len(Tail(todo)) = Len(todo) - 1
        /\ \A i \in 1 .. Len(todo) - 1 : Tail(todo)[i] = todo[i + 1]
    BY <2>3, <2>4, RestTail
  <2>6. \A i \in 1 .. Len(todo') :
          /\ i + 1 \in 1 .. Len(todo) /\ todo'[i] = todo[i + 1] /\ i + 1 # 1
    <3>1. CASE todo' = <<>>
      <4>1. Len(todo') = 0
        BY <3>1
      <4> QED BY <4>1
    <3>2. CASE todo' = Tail(todo)
      <4>1. Len(todo') = Len(todo) - 1 /\ \A i \in 1 .. Len(todo) - 1 : todo'[i] = todo[i + 1]
        BY <2>5, <3>2
      <4> QED BY <2>5, <4>1
    <3> QED BY <2>2, <3>1, <3>2
  <2>7. X \in Registers /\ X = 0
    BY RegisterNumbers
  <2>8. ASSUME Head(todo).op \in {"copy", "clear"}, Head(todo).dst # X
        PROVE  holds(X)' = holds(X)
    <3>1. CASE FailStep
      BY <3>1, ControlUnchanged DEF holds
    <3>2. CASE Succeeds
      <4>1. holds(X)' = After(Held, Head(todo), lift, X)
        BY <2>7, <3>2 DEF Succeeds
      <4>2. After(Held, Head(todo), lift, X) = Held[X]
        BY <2>8 DEF After
      <4> QED BY <2>7, <4>1, <4>2 DEF Held
    <3>3. CASE Resets
      BY <2>7, <2>8, <3>3 DEF Resets
    <3> QED BY <2>1, <3>1, <3>2, <3>3
  <2>9. CASE phase \in {"save", "clear"}
    <3>1. Arguments /\ \A i \in 1 .. Len(todo) :
            todo[i].op \in {"copy", "clear"} /\ todo[i].dst # X
      BY <2>9 DEF WritesFit
    <3>2. holds(X)' = holds(X)
      BY <2>5, <2>8, <3>1
    <3>3. Arguments'
      BY <2>2, <3>1, <3>2 DEF Arguments, IsReal
    <3>4. \A i \in 1 .. Len(todo') : todo'[i].op \in {"copy", "clear"} /\ todo'[i].dst # X
      BY <2>6, <3>1
    <3> QED BY <2>2, <2>9, <3>3, <3>4 DEF WritesFit
  <2>10. CASE phase = "run"
    <3>1. ASSUME NEW i \in 1 .. Len(todo'), todo'[i].op = "write"
          PROVE  i = 1 /\ IsReal(todo'[i].val) /\ IsReal(holds(X)')
      <4>1. i + 1 \in 1 .. Len(todo) /\ todo[i + 1].op = "write" /\ todo'[i] = todo[i + 1]
        BY <2>6, <3>1
      <4>2. WriteFits(i + 1)
        BY <2>10, <4>1 DEF WritesFit
      <4>3. i + 1 < 3 /\ IsReal(todo'[i].val)
        BY <4>1, <4>2 DEF WriteFits
      <4>4. i = 1
        BY <4>3
      <4>5. \/ todo[1].op = "lift"
            \/ todo[1].op = "copy" /\ todo[1].dst # X /\ IsReal(holds(X))
        BY <4>1, <4>2, <4>4 DEF WriteFits
      <4>6. CASE todo[1].op = "lift"
        <5>1. Succeeds
          BY <2>1, <2>5, <4>6 DEF Resets
        <5>2. holds(X)' = After(Held, Head(todo), lift, X)
          BY <2>7, <5>1 DEF Succeeds
        <5>3. After(Held, Head(todo), lift, X) = Junk
          BY <2>5, <4>6 DEF After
        <5>4. IsReal(Junk)
          BY StackAssumption DEF IsReal
        <5> QED BY <4>3, <4>4, <5>2, <5>3, <5>4
      <4>7. CASE todo[1].op = "copy" /\ todo[1].dst # X /\ IsReal(holds(X))
        <5>1. holds(X)' = holds(X)
          BY <2>5, <2>8, <4>7
        <5> QED BY <4>3, <4>4, <4>7, <5>1
      <4> QED BY <4>5, <4>6, <4>7
    <3>2. ASSUME NEW i \in 1 .. Len(todo') PROVE WriteFits(i)'
      BY <3>1, <3>2 DEF WriteFits, IsReal
    <3> QED BY <2>2, <2>10, <3>2 DEF WritesFit
  <2>11. CASE phase = "undo"
    <3>1. \A i \in 1 .. Len(todo) : todo[i].op = "copy"
      BY <2>11 DEF WritesFit
    <3>2. \A i \in 1 .. Len(todo') : todo'[i].op = "copy"
      BY <2>6, <3>1
    <3> QED BY <2>2, <2>11, <3>2 DEF WritesFit
  <2>12. phase # "halted"
    BY <2>3 DEF WritesFit
  <2> QED BY <2>3, <2>4, <2>9, <2>10, <2>11, <2>12 DEF Phases
<1> QED BY <1>1, <1>2

(* Reals of one size, before the handler is called.                        *)
LEMMA RunHandlerWrites ==
  ASSUME Inv, Arguments, RunHandler, UNCHANGED <<desc, heap>>
  PROVE  WritesFit'
<1>1. func \in Functions
  BY DEF Inv, TypeOK
<1>2. phase' = "run" /\ todo' = StepsOf(func)
  BY DEF RunHandler
<1>3. \A i \in 1 .. Len(todo') : HandlerWrites(func, todo', i)
  BY <1>1, <1>2, HandlersWrite
<1>4. holds(X)' = holds(X)
  BY DEF holds
<1>5. ASSUME NEW i \in 1 .. Len(todo'), todo'[i].op = "write"
      PROVE  WriteFits(i)'
  <2>1. /\ i = 2 /\ todo'[i].val = func.val
        /\ \/ func.name = "Constant" /\ todo'[1].op = "lift"
           \/ func.name = "Add" /\ todo'[1].op = "copy" /\ todo'[1].dst # X
    BY <1>3, <1>5 DEF HandlerWrites
  <2>2. IsReal(todo'[i].val)
    BY <2>1 DEF Arguments
  <2>3. todo'[1].op = "lift"
        \/ (todo'[1].op = "copy" /\ todo'[1].dst # X /\ IsReal(holds(X)'))
    BY <1>4, <2>1 DEF Arguments
  <2> QED BY <2>1, <2>2, <2>3 DEF WriteFits, IsReal
<1>6. \A i \in 1 .. Len(todo') : WriteFits(i)'
  <2> TAKE i \in 1 .. Len(todo')
  <2>1. CASE todo'[i].op # "write"
    BY <2>1 DEF WriteFits
  <2> QED BY <1>5, <2>1
<1> QED BY <1>2, <1>6 DEF WritesFit

(***************************************************************************)
(* What is written in place fits, initially and after every step.          *)
(***************************************************************************)
LEMMA InitWrites == Init => WritesFit
  BY DEF Init, WritesFit

(* Every step keeps the writes in order.                                   *)
LEMMA NextWrites == Inv /\ Inv' /\ WritesFit /\ [Next]_vars => WritesFit'
<1> SUFFICES ASSUME Inv, Inv', WritesFit, [Next]_vars PROVE WritesFit'
  OBVIOUS
<1>1. /\ Top \in Nat /\ X = 0 /\ \A r : savedRegisterFor(r) = Top + 4 + r
  BY RegisterNumbers
<1>2. ASSUME NEW i \in 1 .. Top + 2
      PROVE  /\ SaveSteps[i].op = "copy" /\ SaveSteps[i].dst # X
             /\ ClearSteps[i].op = "clear" /\ ClearSteps[i].dst # X
             /\ UndoSteps[i].op = "copy"
  <2>1. Nth(i) \in 0 .. Top + 1
    BY NthRegister
  <2>2. savedRegisterFor(Nth(i)) # X
    BY <1>1, <2>1
  <2>3. /\ SaveSteps[i] = CopyOrReturn(Nth(i), savedRegisterFor(Nth(i)))
        /\ ClearSteps[i] = Step("clear", X, savedRegisterFor(Nth(i)), FALSE)
        /\ UndoSteps[i] = Copy(savedRegisterFor(Nth(i)), Nth(i))
    BY UndoStateSteps
  <2>4. SaveSteps[i].op = "copy" /\ SaveSteps[i].dst = savedRegisterFor(Nth(i))
    BY <2>3 DEF CopyOrReturn, Step
  <2>5. ClearSteps[i].op = "clear" /\ ClearSteps[i].dst = savedRegisterFor(Nth(i))
    BY <2>3 DEF Step
  <2>6. UndoSteps[i].op = "copy"
    BY <2>3 DEF Copy, Step
  <2> QED BY <2>2, <2>4, <2>5, <2>6
<1>3. CASE TakeStep
  BY <1>3, TakeStepWrites
<1>4. CASE \E f \in Functions : Begin(f)
  <2>1. PICK f \in Functions : Begin(f)
    BY <1>4
  <2>2. phase = "idle" /\ Applicable(f) /\ func' = f /\ UNCHANGED <<desc, heap>>
    BY <2>1 DEF Begin, memory
  <2>3. CASE phase' = "save" /\ todo' = SaveSteps
    <3>1. holds(X)' = holds(X)
      BY <2>2 DEF holds
    <3>2. Arguments'
      BY <2>2, <3>1 DEF Arguments, Applicable, IsReal
    <3>3. \A i \in 1 .. Len(todo') : todo'[i].op \in {"copy", "clear"} /\ todo'[i].dst # X
      BY <1>2, <2>3, ListLengths
    <3> QED BY <2>3, <3>2, <3>3 DEF WritesFit
  <2>4. CASE RestoreState
    <3>1. phase' = "undo" /\ todo' = UndoSteps
      BY <2>4 DEF RestoreState
    <3>2. \A i \in 1 .. Len(todo') : todo'[i].op = "copy"
      BY <1>2, <3>1, ListLengths
    <3> QED BY <3>1, <3>2 DEF WritesFit
  <2>5. CASE UNCHANGED <<flags, phase, todo>>
    BY <2>2, <2>5 DEF WritesFit
  <2> QED BY <2>1, <2>3, <2>4, <2>5 DEF Begin
<1>5. CASE OtherMemoryUse
  BY <1>5 DEF OtherMemoryUse, WritesFit
<1>6. CASE SaveEnds
  <2>1. /\ phase = "save" /\ UNCHANGED <<desc, heap, func>>
        /\ \/ RunHandler
           \/ phase' = "clear" /\ todo' = ClearSteps
    BY <1>6 DEF SaveEnds, memory
  <2>2. Arguments
    BY <2>1 DEF WritesFit
  <2>3. CASE RunHandler
    BY <2>1, <2>2, <2>3, RunHandlerWrites
  <2>4. CASE phase' = "clear" /\ todo' = ClearSteps
    <3>1. Arguments'
      BY <2>1, <2>2 DEF Arguments, IsReal, holds
    <3>2. \A i \in 1 .. Len(todo') : todo'[i].op \in {"copy", "clear"} /\ todo'[i].dst # X
      BY <1>2, <2>4, ListLengths
    <3> QED BY <2>4, <3>1, <3>2 DEF WritesFit
  <2> QED BY <2>1, <2>3, <2>4
<1>7. CASE ClearEnds
  <2>1. /\ phase = "clear" /\ UNCHANGED <<desc, heap, func>>
        /\ RunHandler \/ phase' = "idle"
    BY <1>7 DEF ClearEnds, memory
  <2>2. Arguments
    BY <2>1 DEF WritesFit
  <2>3. CASE RunHandler
    BY <2>1, <2>2, <2>3, RunHandlerWrites
  <2> QED BY <2>1, <2>3 DEF WritesFit
<1>8. CASE RunEnds
  <2>1. RestoreState \/ phase' = "idle"
    BY <1>8 DEF RunEnds
  <2>2. CASE RestoreState
    <3>1. phase' = "undo" /\ todo' = UndoSteps
      BY <2>2 DEF RestoreState
    <3>2. \A i \in 1 .. Len(todo') : todo'[i].op = "copy"
      BY <1>2, <3>1, ListLengths
    <3> QED BY <3>1, <3>2 DEF WritesFit
  <2> QED BY <2>1, <2>2 DEF WritesFit
<1>9. CASE UndoEnds
  BY <1>9 DEF UndoEnds, WritesFit
<1>10. CASE UNCHANGED vars
  <2>1. UNCHANGED <<desc, heap, phase, todo, func>>
    BY <1>10 DEF vars, memory
  <2> QED BY <2>1 DEF WritesFit, WriteFits, Arguments, IsReal, holds
<1> QED BY <1>3, <1>4, <1>5, <1>6, <1>7, <1>8, <1>9, <1>10 DEF Next

(***************************************************************************)
(* No step of a function, of saveForUndo or of undo loses or gains memory. *)
(***************************************************************************)
LEMMA TakeStepAccounted ==
  ASSUME Inv, WritesFit, TakeStep
  PROVE  Memory' = Memory
<1>1. /\ Top \in Nat /\ Top >= 2 /\ Registers = 0 .. 2 * Top + 5 /\ X = 0
      /\ X \in Registers /\ Top \in Registers
      /\ Zero \in Contents /\ Junk \in Contents
  BY RegisterNumbers, StackAssumption DEF Contents
<1>2. desc \in [Registers -> Blocks] /\ heap \in [Blocks -> Contents]
  BY DEF Inv, TypeOK
<1>3. \A r \in Registers : holds(r) \in Contents
  BY <1>2 DEF holds
<1>4. ASSUME UNCHANGED <<heap, inUse, free>> PROVE Memory' = Memory
  BY <1>4 DEF Memory
<1>5. ~ claimFailed
  BY StepGiven DEF TakeStep, copySourceRegisterToDestRegister, clearRegister, WriteX,
    liftStack, drop, fillStack, swapRegs, rollUp, rollDown
<1>6. \A r \in Registers : desc[r] \in inUse
  BY <1>5, InUseFinite
<1>7. ASSUME NEW r \in Registers, NEW v \in Contents, Put(r, v)
      PROVE  Memory' = Memory
  <2>1. CASE Size[holds(r)] = Size[v] /\ heap' = [heap EXCEPT ![desc[r]] = v]
             /\ UNCHANGED <<inUse, free>>
    BY <2>1, InPlaceAccounted
  <2>2. CASE Replace(desc, r, desc[r], v)
    BY <1>5, <1>6, <2>2, ReplaceAccounted
  <2>3. CASE FailStep
    BY <1>4, <2>3 DEF FailStep, memory
  <2> QED BY <1>7, <2>1, <2>2, <2>3 DEF Put
<1>8. CASE copySourceRegisterToDestRegister
  <2>1. StepIs("copy") /\ Put(Head(todo).dst, holds(Head(todo).src))
    BY <1>8 DEF copySourceRegisterToDestRegister
  <2>2. Head(todo).dst \in Registers /\ holds(Head(todo).src) \in Contents
    BY <1>3, <2>1, StepGiven
  <2> QED BY <1>7, <2>1, <2>2
<1>9. CASE clearRegister
  <2>1. PICK v : v = IF err = "RAM_FULL" /\ Size[holds(Head(todo).dst)] # Size[Zero]
                       THEN Junk ELSE Zero
    OBVIOUS
  <2>2. StepIs("clear") /\ Put(Head(todo).dst, v)
    BY <1>9, <2>1 DEF clearRegister
  <2>3. Head(todo).dst \in Registers /\ v \in Contents
    BY <1>1, <2>1, <2>2, StepGiven
  <2> QED BY <1>7, <2>2, <2>3
<1>10. CASE WriteX
  <2>1. PICK v : v = Head(todo).val
    OBVIOUS
  <2>2. /\ StepIs("write") /\ UNCHANGED <<inUse, free>>
        /\ heap' = [heap EXCEPT ![desc[X]] = v]
    BY <1>10, <2>1 DEF WriteX
  <2>3. phase # "idle" /\ todo # <<>> /\ Head(todo).op = "write" /\ phase \in Phases
        /\ todo \in Seq(Steps)
    BY <2>2 DEF StepIs, Inv, TypeOK
  <2>4. Head(todo) = todo[1] /\ 1 \in 1 .. Len(todo)
    BY <2>3, RestTail
  <2>5. phase = "run"
    BY <2>3, <2>4 DEF WritesFit, Phases
  <2>6. WriteFits(1)
    BY <2>4, <2>5 DEF WritesFit
  <2>7. IsReal(v) /\ IsReal(holds(X))
    BY <2>1, <2>3, <2>4, <2>6 DEF WriteFits
  <2>8. Size[holds(X)] = Size[v]
    BY <2>7 DEF IsReal
  <2> QED BY <1>1, <2>2, <2>8, InPlaceAccounted
<1>11. CASE liftStack
  <2>1. PICK old : old = IF lift THEN desc[Top] ELSE desc[X]
    OBVIOUS
  <2>2. PICK d : d = IF lift THEN MovedUp ELSE desc
    OBVIOUS
  <2>3. Replace(d, X, old, Junk) \/ Freed(old)
    BY <1>11, <2>1, <2>2 DEF liftStack
  <2>4. old \in inUse
    BY <1>1, <1>6, <2>1
  <2> QED BY <1>1, <1>5, <2>3, <2>4, ReplaceAccounted, FreedAccounted
<1>12. CASE drop
  <2>1. PICK reg : reg = Head(todo).dst
    OBVIOUS
  <2>2. PICK old : old = desc[reg]
    OBVIOUS
  <2>3. PICK v : v = holds(Top)
    OBVIOUS
  <2>4. StepIs("drop") /\ (Replace(MovedDown(reg), Top - 1, old, v) \/ Freed(old))
    BY <1>12, <2>1, <2>2, <2>3 DEF drop
  <2>5. old \in inUse /\ v \in Contents
    BY <1>1, <1>3, <1>6, <2>1, <2>2, <2>3, <2>4, StepGiven
  <2> QED BY <1>5, <2>4, <2>5, ReplaceAccounted, FreedAccounted
<1>13. CASE fillStack
  <2>1. PICK reg : reg = Head(todo).dst
    OBVIOUS
  <2>2. PICK old : old = desc[reg]
    OBVIOUS
  <2>3. PICK v : v = holds(X)
    OBVIOUS
  <2>4. StepIs("fill") /\ (Replace(desc, reg, old, v) \/ Freed(old))
    BY <1>13, <2>1, <2>2, <2>3 DEF fillStack
  <2>5. old \in inUse /\ v \in Contents
    BY <1>1, <1>3, <1>6, <2>1, <2>2, <2>3, <2>4, StepGiven
  <2> QED BY <1>5, <2>4, <2>5, ReplaceAccounted, FreedAccounted
<1>14. CASE swapRegs \/ rollUp \/ rollDown
  BY <1>4, <1>14 DEF swapRegs, rollUp, rollDown
<1> QED BY <1>8, <1>9, <1>10, <1>11, <1>12, <1>13, <1>14 DEF TakeStep

(***************************************************************************)
(* Memory is neither lost nor gained while a function runs, for a stack of *)
(* any height, any contents and sizes: what lift, drop, fill and           *)
(* reallocateRegister give up goes back to the pool in full, and what is   *)
(* written in place has the size of what was there.                        *)
(***************************************************************************)
THEOREM MemoryIsAccounted == Spec => MemoryAccounted
<1>1. Inv /\ WritesFit /\ [Next]_vars => [phase # "idle" => Memory' = Memory]_vars
  <2> SUFFICES ASSUME Inv, WritesFit, Next, phase # "idle" PROVE Memory' = Memory
    OBVIOUS
  <2>1. ASSUME UNCHANGED memory PROVE Memory' = Memory
    BY <2>1 DEF memory, Memory
  <2>2. CASE TakeStep
    BY <2>2, TakeStepAccounted
  <2>3. CASE SaveEnds \/ ClearEnds \/ RunEnds \/ UndoEnds
    BY <2>1, <2>3 DEF SaveEnds, ClearEnds, RunEnds, UndoEnds
  <2>4. ~ OtherMemoryUse /\ ~ \E f \in Functions : Begin(f)
    BY DEF OtherMemoryUse, Begin
  <2> QED BY <2>2, <2>3, <2>4 DEF Next
<1> QED
  BY <1>1, InitWrites, NextWrites, StackInvariant, PTL DEF Spec, MemoryAccounted
=============================================================================
