------------------------------ MODULE ForLoops ------------------------------
(***************************************************************************)
(* FOR and NEXT in a program: the table of running loops, which all calls  *)
(* share, and the two local registers each loop takes from its call.       *)
(*                                                                         *)
(*   src/src/shell/program/structured.zig                                  *)
(*                                                                         *)
(* A program is a sequence of steps; of the steps without a part in loops  *)
(* and calls there is only a test, which skips a step.  Calls are those    *)
(* SubroutineLevels promises.  Values are left out: whether NEXT finds the *)
(* counter past the end is open, and FOR can always meet a value it cannot *)
(* count with.                                                             *)
(*                                                                         *)
(* A definition marked "Slip" is a wrong variant of the one behind it, by  *)
(* which the properties are tested; no specification uses it.              *)
(***************************************************************************)
EXTENDS Integers, Sequences, FiniteSets

CONSTANTS
  Texts,       (* program memories: sequences of programs                  *)
  Global,      (* counters that are registers every call sees              *)
  Local,       (* counters that are the first local register of the call   *)
  Names,       (* counters that are named variables                        *)
  MaxLoops,    (* FOR_MAX_LOOPS                                            *)
  MaxLocals,   (* FOR_MAX_LOCALS                                           *)
  LevelWrap    (* a row has a byte for the level                           *)

FOR_LOCALS == 2

VARIABLES
  text,      (* program memory; nobody edits it                            *)
  pc,        (* currentProgramNumber and currentLocalStepNumber            *)
  frames,    (* calls: where each returns to, how many local registers it  *)
             (* has, and - history - the loops it has opened and not left  *)
  rows,      (* forLoopTable and forLoopStep                               *)
  variables, (* the table of named variables                               *)
  running,   (* programRunStop = PGM_RUNNING                               *)
  outcome,   (* history: what the last step, if FOR or NEXT, came to       *)
  astray     (* history: a FOR went on with the loop of an earlier call    *)

vars == <<text, pc, frames, rows, variables, running, outcome, astray>>

---------------------------------------------------------------------------
(* Program text.                                                           *)

Op(t, p)  == IF p[2] \in DOMAIN t[p[1]] THEN t[p[1]][p[2]][1] ELSE "END"
Arg(t, p) == t[p[1]][p[2]][2]
After(p)  == <<p[1], p[2] + 1>>

IsFor(op) == op \in {"FOR", "FORTOP"}

(* forNextOfThisFor: the NEXT at the depth of the FOR at p.                *)
NextOf(t, p) ==
  LET prog  == t[p[1]]
      Count(ops, j) == Cardinality({i \in p[2] + 1 .. j : prog[i][1] \in ops})
  IN {j \in p[2] + 1 .. Len(prog) :
        /\ prog[j][1] = "NEXT"
        /\ Count({"NEXT"}, j) = Count({"FOR", "FORTOP"}, j) + 1}

Least(S) == CHOOSE s \in S : \A u \in S : s <= u

LabelAt(t, l) ==
  CHOOSE p \in UNION {{q} \X DOMAIN t[q] : q \in DOMAIN t} : t[p[1]][p[2]] = <<"LBL", l>>

(* structWalkProgram, as far as it looks at FOR and NEXT: they nest, a     *)
(* pair counts in one register and is in one routine, and LocR comes       *)
(* before the first FOR of its routine.                                    *)
Walk(prog) ==
  LET w[i \in 0 .. Len(prog)] ==
        IF i = 0 THEN [ok |-> TRUE, open |-> <<>>, forSeen |-> FALSE]
        ELSE LET s  == w[i - 1]
                 op == prog[i][1]
                 boundary == op = "LBL" /\ i > 1 /\ prog[i - 1][1] = "RTN"
                 inner == s.open[Len(s.open)]
             IN CASE boundary ->
                       [s EXCEPT !.forSeen = FALSE,
                                 !.open = [k \in DOMAIN s.open |-> "crossed"]]
                  [] op = "LOCR" -> [s EXCEPT !.ok = @ /\ ~ s.forSeen]
                  [] IsFor(op) ->
                       [s EXCEPT !.forSeen = TRUE, !.open = Append(@, prog[i][2]),
                                 !.ok = @ /\ Len(s.open) < MaxLoops]
                  [] op = "NEXT" ->
                       [s EXCEPT !.ok = @ /\ s.open # <<>> /\ inner = prog[i][2],
                                 !.open = IF @ = <<>> THEN @ ELSE SubSeq(@, 1, Len(@) - 1)]
                  [] OTHER -> s
  IN w[Len(prog)]

Valid(t) == \A q \in DOMAIN t : Walk(t[q]).ok /\ Walk(t[q]).open = <<>>

ASSUME LoopsAssumption ==
  /\ MaxLoops \in Nat \ {0} /\ MaxLocals \in Nat /\ LevelWrap \in Nat \ {0}
  /\ Global \subseteq STRING /\ Local \subseteq STRING /\ Names \subseteq STRING
  /\ Global \intersect Names = {} /\ Local \intersect (Global \union Names) = {}
  /\ \A t \in Texts : Valid(t)

---------------------------------------------------------------------------
(* The table.                                                              *)

Rows == 1 .. MaxLoops

NoRow == 0

level == Len(frames) - 1
locals == frames[Len(frames)].regs
loops == frames[Len(frames)].open

(* The register number of a counter; 0 for one that is not there.          *)
FIRST_LOCAL_REGISTER == 7000

Regist(c) ==
  LET at == {i \in DOMAIN variables : variables[i] = c}
  IN CASE c \in Global -> 1
       [] c \in Local  -> IF locals > 0 THEN FIRST_LOCAL_REGISTER ELSE 0
       [] OTHER        -> IF at = {} THEN 0 ELSE 1 + Least(at)

Taken(row) == row.step # 0

forLoopRegistersLive(row) == row.base + FOR_LOCALS <= locals

DropSlip(t) ==
  [r \in Rows |->
     IF /\ Taken(t[r])
        /\ \/ t[r].level # level
           \/ t[r].program # pc[1] \/ ~ forLoopRegistersLive(t[r])
       THEN [t[r] EXCEPT !.step = 0]
       ELSE t[r]]

forDropDeadLoops(t) ==
  [r \in Rows |->
     IF /\ Taken(t[r])
        /\ \/ t[r].level > level
           \/ /\ t[r].level = level
              /\ t[r].program # pc[1] \/ ~ forLoopRegistersLive(t[r])
       THEN [t[r] EXCEPT !.step = 0]
       ELSE t[r]]

First(S) == IF S = {} THEN NoRow ELSE Least(S)

AnyLevelSlip(t, reg) == First({r \in Rows : Taken(t[r]) /\ t[r].counter = reg})

forLoopOfCounter(t, reg) ==
  First({r \in Rows : Taken(t[r]) /\ t[r].level = level /\ t[r].counter = reg})

forCounterAlreadyCounted(t, reg) ==
  \E r \in Rows : /\ Taken(t[r]) /\ t[r].counter = reg
                  /\ t[r].level = level \/ reg < FIRST_LOCAL_REGISTER

forLoopOfStep(t) == First({r \in Rows : t[r].step = pc[2] /\ t[r].level = level})

forFreeLoopRow(t) == First({r \in Rows : ~ Taken(t[r])})

forInnerLoopStillOpen(t, row) ==
  \E r \in Rows : Taken(t[r]) /\ t[r].level = level /\ t[r].step > t[row].step

(* The pointer is kept over edits of the program only if it still reads a  *)
(* FOR of the program that is open; a power cycle takes it away.           *)
forLoopStepPointerLive(row) ==
  row.at # <<>> /\ row.at[1] = pc[1] /\ IsFor(Op(text, row.at))

forClearLoops == [r \in Rows |-> [rows[r] EXCEPT !.step = 0, !.at = <<>>]]

forAdjustCountersAfterVariableDelete(t, k) ==
  [r \in Rows |->
     CASE Taken(t[r]) /\ t[r].counter = k -> [t[r] EXCEPT !.step = 0]
       [] Taken(t[r]) /\ t[r].counter > k /\ t[r].counter < FIRST_LOCAL_REGISTER ->
            [t[r] EXCEPT !.counter = @ - 1]
       [] OTHER -> t[r]]

---------------------------------------------------------------------------
(* Steps.                                                                  *)

SetLocals(n)   == [frames EXCEPT ![Len(frames)].regs = n]
Opened(c)      == [program |-> pc[1], step |-> pc[2], counter |-> c, base |-> locals]
Without(seq, i) == SubSeq(seq, 1, i - 1) \o SubSeq(seq, i + 1, Len(seq))

At(op) == running /\ Op(text, pc) = op
AtFor  == running /\ IsFor(Op(text, pc))
Quiet  == outcome' = "none" /\ UNCHANGED astray

(* An error ends the run at this step.                                     *)
Refused(why, t) ==
  /\ outcome' = why /\ running' = FALSE /\ rows' = t
  /\ UNCHANGED <<text, pc, frames, variables, astray>>

(* This FOR is running already.                                            *)
ForCarriesOn ==
  /\ AtFor
  /\ LET t == forDropDeadLoops(rows)
         r == forLoopOfStep(t)
     IN /\ r # NoRow /\ forLoopRegistersLive(t[r])
        /\ rows' = t
  /\ pc' = After(pc)
  /\ outcome' = "carries_on"
  /\ astray' = (astray \/ ~ \E i \in DOMAIN loops : loops[i].program = pc[1] /\ loops[i].step = pc[2])
  /\ UNCHANGED <<text, frames, variables, running>>

NewRow(reg) == [step |-> pc[2], counter |-> reg, base |-> locals, level |-> level % LevelWrap,
                program |-> pc[1], at |-> pc]

(* fnFor, fnForYx and fnForTop: past is the comparison FORTOP makes at     *)
(* once.  In a text VALID has passed, forHasNext never refuses.            *)
ForStarts(past) ==
  /\ AtFor /\ (past => Op(text, pc) = "FORTOP")
  /\ LET c   == Arg(text, pc)
         reg == Regist(c)
         t   == forDropDeadLoops(rows)
         r   == forFreeLoopRow(t)
     IN /\ forLoopOfStep(t) = NoRow
        /\ \/ reg = 0 /\ Refused("invalid_counter", t)
           \/ reg # 0 /\ Refused("invalid_value", t)
           \/ /\ reg # 0 /\ forCounterAlreadyCounted(t, reg)
              /\ Refused("already_counted", t)
           \/ /\ reg # 0 /\ ~ forCounterAlreadyCounted(t, reg)
              /\ \/ /\ r = NoRow \/ locals + FOR_LOCALS > MaxLocals
                    /\ Refused("too_deep", t)
                 \/ /\ r # NoRow /\ locals + FOR_LOCALS <= MaxLocals
                    /\ Refused("ram_full", t)
                 \/ /\ r # NoRow /\ locals + FOR_LOCALS <= MaxLocals
                    /\ outcome' = "starts"
                    /\ IF past
                         THEN /\ rows' = [t EXCEPT ![r] = [NewRow(reg) EXCEPT !.step = 0]]
                              /\ pc' = <<pc[1], Least(NextOf(text, pc)) + 1>>
                              /\ UNCHANGED frames
                         ELSE /\ rows' = [t EXCEPT ![r] = NewRow(reg)]
                              /\ pc' = After(pc)
                              /\ frames' = [SetLocals(locals + FOR_LOCALS)
                                              EXCEPT ![Len(frames)].open = Append(@, Opened(c))]
                    /\ UNCHANGED <<text, variables, running, astray>>

ClosesInOrder(t, r) ==
  r # NoRow /\ ~ forInnerLoopStillOpen(t, r) /\ forLoopRegistersLive(t[r])

OffByOneSlip(row) == row.base - 1

(* The number of local registers the call had before the loop.             *)
localsBefore(row) == row.base

(* fnNext finds its loop by its counter, and the FOR to go back to by its  *)
(* address or, after a power cycle, by its step number.                    *)
NEXT(past) ==
  /\ At("NEXT")
  /\ LET reg == Regist(Arg(text, pc))
         t   == forDropDeadLoops(rows)
         r   == forLoopOfCounter(t, reg)
         back == IF forLoopStepPointerLive(t[r]) THEN t[r].at ELSE <<pc[1], t[r].step>>
     IN \/ reg = 0 /\ Refused("invalid_counter", rows)
        \/ /\ reg # 0
           /\ ~ ClosesInOrder(t, r)
           /\ Refused("next_without_for", t)
        \/ /\ reg # 0
           /\ ClosesInOrder(t, r)
           /\ \/ Refused("invalid_value", t)
              \/ /\ ~ past
                 /\ rows' = [t EXCEPT ![r].at = back]
                 /\ pc' = After(back)
                 /\ outcome' = "pass"
                 /\ UNCHANGED <<text, frames, variables, running, astray>>
              \/ /\ past
                 /\ rows' = [t EXCEPT ![r].step = 0]
                 /\ pc' = After(pc)
                 /\ frames' = [SetLocals(localsBefore(t[r])) EXCEPT ![Len(frames)].open =
                                 SelectSeq(@, LAMBDA o : o.step # t[r].step)]
                 /\ outcome' = "closes"
                 /\ UNCHANGED <<text, variables, running, astray>>

XEQ ==
  /\ At("XEQ")
  /\ pc' = LabelAt(text, Arg(text, pc))
  /\ frames' = Append(frames, [ret |-> After(pc), regs |-> 0, open |-> <<>>])
  /\ Quiet /\ UNCHANGED <<text, rows, variables, running>>

(* A return leaves the rows of its loops in the table.  At level 0 the run *)
(* ends behind the RTN, or at the top of the program.                      *)
RTN ==
  /\ At("RTN") \/ At("END")
  /\ IF level > 0
       THEN /\ pc' = frames[Len(frames)].ret
            /\ frames' = SubSeq(frames, 1, level)
            /\ UNCHANGED running
       ELSE /\ pc' = IF Op(text, pc) = "END" \/ Op(text, After(pc)) = "END"
                       THEN <<pc[1], 1>> ELSE After(pc)
            /\ frames' = [frames EXCEPT ![1].regs = 0, ![1].open = <<>>]
            /\ running' = FALSE
  /\ Quiet /\ UNCHANGED <<text, rows, variables>>

LocR ==
  /\ At("LOCR")
  /\ frames' = SetLocals(Arg(text, pc))
  /\ pc' = After(pc)
  /\ Quiet /\ UNCHANGED <<text, rows, variables, running>>

OtherStep ==
  /\ At("LBL") \/ At("TEST")
  /\ \/ pc' = After(pc)
     \/ Op(text, pc) = "TEST" /\ pc' = After(After(pc))
  /\ Quiet /\ UNCHANGED <<text, frames, rows, variables, running>>

(* FINISH and CLSTRUC.                                                     *)
Finish ==
  /\ running
  /\ rows' = forClearLoops
  /\ frames' = <<[frames[1] EXCEPT !.regs = 0, !.open = <<>>]>>
  /\ pc' = <<pc[1], 1>>
  /\ running' = FALSE
  /\ Quiet /\ UNCHANGED <<text, variables>>

---------------------------------------------------------------------------
(* Between runs.                                                           *)

Stop ==
  /\ running /\ running' = FALSE
  /\ Quiet /\ UNCHANGED <<text, pc, frames, rows, variables>>

Resume ==
  /\ ~ running /\ running' = TRUE
  /\ Quiet /\ UNCHANGED <<text, pc, frames, rows, variables>>

(* XEQ by hand gives up all levels, not the rows.                          *)
Start ==
  /\ ~ running /\ running' = TRUE
  /\ pc' = <<1, 1>>
  /\ frames' = <<[frames[1] EXCEPT !.regs = 0, !.open = <<>>]>>
  /\ Quiet /\ UNCHANGED <<text, rows, variables>>

(* The table is saved with the calculator, the pointers are not.           *)
PowerCycle ==
  /\ ~ running
  /\ rows' = [r \in Rows |-> [rows[r] EXCEPT !.at = <<>>]]
  /\ Quiet /\ UNCHANGED <<text, pc, frames, variables, running>>

(* A loop that counts in the variable ends with it.                        *)
DeleteVariable(i) ==
  /\ variables' = Without(variables, i)
  /\ rows' = forAdjustCountersAfterVariableDelete(rows, 1 + i)
  /\ frames' = [k \in DOMAIN frames |-> [frames[k] EXCEPT !.open =
                  SelectSeq(@, LAMBDA o : o.counter # variables[i])]]
  /\ Quiet /\ UNCHANGED <<text, pc, running>>

Init ==
  /\ text \in Texts
  /\ pc = <<1, 1>>
  /\ frames = <<[ret |-> <<1, 1>>, regs |-> 0, open |-> <<>>]>>
  /\ rows = [r \in Rows |-> [step |-> 0, counter |-> 0, base |-> 0, level |-> 0,
                              program |-> 0, at |-> <<>>]]
  /\ variables \in {s \in [1 .. Cardinality(Names) -> Names] :
                      \A i, j \in DOMAIN s : s[i] = s[j] => i = j}
  /\ running = FALSE /\ outcome = "none" /\ astray = FALSE

Next ==
  \/ ForCarriesOn
  \/ \E past \in BOOLEAN : ForStarts(past) \/ NEXT(past)
  \/ XEQ \/ RTN \/ LocR \/ OtherStep \/ Finish
  \/ Stop \/ Resume \/ Start \/ PowerCycle
  \/ \E i \in DOMAIN variables : DeleteVariable(i)

Spec == Init /\ [][Next]_vars

---------------------------------------------------------------------------
Outcomes == {"none", "carries_on", "starts", "pass", "closes", "invalid_counter",
             "invalid_value", "already_counted", "too_deep", "ram_full", "next_without_for"}

(* Types; a row's registers lie within what a call may have.               *)
TypeOK ==
  /\ outcome \in Outcomes /\ running \in BOOLEAN /\ astray \in BOOLEAN
  /\ \A r \in Rows :
       /\ rows[r].base \in 0 .. MaxLocals /\ rows[r].level \in 0 .. LevelWrap - 1
       /\ rows[r].counter \in Nat /\ rows[r].step \in Nat
  /\ \A k \in DOMAIN frames : frames[k].regs \in 0 .. MaxLocals

(* The row of loop o of call k.                                            *)
RowOf(k, o) ==
  \E r \in Rows :
    /\ rows[r].step = o.step /\ rows[r].program = o.program
    /\ rows[r].level = k - 1 /\ rows[r].base = o.base
    /\ o.counter \in Names =>
         rows[r].counter - 1 \in DOMAIN variables /\ variables[rows[r].counter - 1] = o.counter

(***************************************************************************)
(* A loop keeps its row and its registers as long as its call has not left *)
(* it: forDropDeadLoops, which the FOR and NEXT of every other call run    *)
(* over the one table, drops none of them, a power cycle and the deletion  *)
(* of other variables lose none, and the pairs of registers of a call's    *)
(* loops do not overlap.                                                   *)
(***************************************************************************)
OpenLoopsKept ==
  ~ astray =>
  \A k \in DOMAIN frames :
    LET open == frames[k].open
    IN /\ \A i \in DOMAIN open :
            RowOf(k, open[i]) /\ open[i].base + FOR_LOCALS <= frames[k].regs
       /\ \A i, j \in DOMAIN open : i < j => open[i].base + FOR_LOCALS <= open[j].base

(***************************************************************************)
(* A NEXT that steps or ends a loop has found the innermost loop of its    *)
(* own call, the one whose FOR it closes in the text, whatever rows calls  *)
(* before this one have left in the table (fnNext finds a row by counter   *)
(* and level number alone).                                                *)
(***************************************************************************)
NextClosesOwnLoop ==
  [][outcome' \in {"pass", "closes"} /\ ~ astray =>
       /\ loops # <<>>
       /\ LET o == loops[Len(loops)]
          IN /\ o.program = pc[1] /\ pc[2] \in NextOf(text, <<o.program, o.step>>)
             /\ outcome' = "pass" => pc' = <<o.program, o.step + 1>>
             /\ outcome' = "closes" => frames'[Len(frames)].regs = o.base]_vars

(***************************************************************************)
(* A FOR starts its loop unless a loop that is running stands against it:  *)
(* "Prevent having the same variable in a second simultaneous FOR loop"    *)
(* (structured.zig:825), and "an RTN inside the body is the early exit the *)
(* specification allows" (structured.zig:883).                             *)
(***************************************************************************)
ForStartsItsLoop ==
  [][/\ outcome' = "already_counted" =>
          \E k \in DOMAIN frames : \E i \in DOMAIN frames[k].open :
            frames[k].open[i].counter = Arg(text, pc)
     /\ outcome' = "carries_on" =>
          \E i \in DOMAIN loops : loops[i].program = pc[1] /\ loops[i].step = pc[2]]_vars
=============================================================================
