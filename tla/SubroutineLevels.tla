------------------------- MODULE SubroutineLevels -------------------------
(***************************************************************************)
(* Subroutine levels: the blocks that hold a call's return point and its   *)
(* local registers, the pointers to them, and the engines that run         *)
(* programs on them.                                                       *)
(*                                                                         *)
(*   src/src/shell/program/lbl_gto_xeq.zig     fnExecute, fnReturn,        *)
(*                                 fnFinish, runProgram, execProgram       *)
(*   src/src/core/state/register_metadata/                                 *)
(*     register_metadata_local_registers.zig   allocateLocalRegisters      *)
(*   src/src/shell/display/items/items.zig     GTO and XEQ keyed by hand   *)
(*                                                                         *)
(* The pool is what C47Memory promises of it: a claim gives a block that   *)
(* is not in use or, at any time, nothing; a block that is made larger     *)
(* moves; one that is made smaller stays.                                  *)
(*                                                                         *)
(* A definition marked "Slip" is a wrong variant of the one behind it, by  *)
(* which the properties are tested; no specification uses it.              *)
(***************************************************************************)
EXTENDS Integers, Sequences, FiniteSets

CONSTANTS
  Addr,         (* blocks of memory                                        *)
  NULL,         (* no block                                                *)
  Places(_, _), (* Places(S, k): lists of k blocks a pool using S may give *)
  Points,       (* routines, the places a program can be at                *)
  Values, Zero, (* what a local register holds, and what a new one holds   *)
  Sizes,        (* bound: numbers of local registers a program asks for    *)
  MaxLevels,    (* bound: calls that have not returned                     *)
  MaxCount,     (* bound: numberOfSubroutineLevels                         *)
  MaxEngines    (* bound: runs inside of each other                        *)

ASSUME LevelsAssumption ==
  /\ NULL \notin Addr /\ NULL \notin Seq(Values)
  /\ Zero \in Values
  /\ Sizes \subseteq 0 .. 99
  /\ {MaxLevels, MaxCount, MaxEngines} \subseteq Nat \ {0}
  /\ \A S \in SUBSET Addr : \A k \in 0 .. 99 : \A p \in Places(S, k) :
       /\ p \in [1 .. k -> Addr \ S]
       /\ \A i, j \in 1 .. k : p[i] = p[j] => i = j

VARIABLES
  ram,      (* memory, and the variables that point into it                *)
  here,     (* currentProgramNumber and currentLocalStepNumber             *)
  running,  (* programRunStop = PGM_RUNNING                                *)
  engines,  (* runProgram: the outermost one and those inside of it        *)
  job,      (* a loop of fnReturn: the level it ends at, and for what      *)
  cut       (* history: engines that may have lost their callers' levels   *)

vars == <<ram, here, running, engines, job, cut>>

---------------------------------------------------------------------------
(* Memory: size[a] = 0 is a block not in use.  A level's block holds its   *)
(* header and, after LocR, flags and one descriptor for each register.     *)

Blank == [ret |-> NULL, level |-> 0, next |-> NULL, prev |-> NULL,
          flagged |-> FALSE, regs |-> <<>>]

RealBlocks == 4

headerOnlyBlocks == 3

levelBlocks(n) == 4 + n

InUse(r) == {a \in Addr : r.size[a] > 0}

Free(r, a, n) ==
  IF r.size[a] = n
    THEN [r EXCEPT !.size[a] = 0, !.lev[a] = Blank, !.val[a] = Zero]
    ELSE [r EXCEPT !.misuse = TRUE]

Reduce(r, a, old, new) ==
  IF r.size[a] = old THEN [r EXCEPT !.size[a] = new] ELSE [r EXCEPT !.misuse = TRUE]

(* reallocC47Blocks of the current level's block, to block b.              *)
Realloc(r, b, old, new) ==
  LET a == r.cur
  IN Free([r EXCEPT !.size[b] = new, !.lev[b] = r.lev[a],
                    !.chain = [r.chain EXCEPT ![Len(r.chain)] = b]], a, old)

curLevel(r) == r.lev[r.cur].level
curRegs(r) == r.lev[r.cur].regs

---------------------------------------------------------------------------
(* Local registers.                                                        *)

refreshLocalStorage(r, b, regs) ==
  [r EXCEPT !.cur = b, !.flags = b, !.regs = IF regs = <<>> THEN NULL ELSE b,
            !.lev[b].flagged = TRUE, !.lev[b].regs = regs]

(* freeLocalRegisterRange: the data of the registers after the first n.    *)
freeLocalRegisterRange(r, n) ==
  LET all  == IF r.regs = NULL THEN <<>> ELSE r.lev[r.regs].regs
      gone == {all[i] : i \in n + 1 .. Len(all)}
  IN IF /\ Cardinality(gone) = Len(curRegs(r)) - n
        /\ \A a \in gone : r.size[a] = RealBlocks
       THEN [r EXCEPT !.size = [a \in Addr |-> IF a \in gone THEN 0 ELSE @[a]],
                      !.val  = [a \in Addr |-> IF a \in gone THEN Zero ELSE @[a]]]
       ELSE [r EXCEPT !.misuse = TRUE]

updateSubroutineLinks(r) ==
  IF curLevel(r) = 0 THEN [r EXCEPT !.level0 = r.cur, !.lost = @ \ {1}]
  ELSE [r EXCEPT !.lev[r.lev[r.cur].prev].next = r.cur, !.lost = @ \ {Len(r.chain)}]

(* Each register gets a real of its own, which is 0.                       *)
Initialized(r, data) ==
  [r EXCEPT !.size = [a \in Addr |-> IF \E i \in DOMAIN data : data[i] = a
                                       THEN RealBlocks ELSE @[a]]]

(* The links to a block that has moved.                                    *)
Unlinked(r) == [r EXCEPT !.lost = @ \union {Len(r.chain)}]

Done(r)   == [ram |-> r, err |-> FALSE]
Failed(r) == [ram |-> r, err |-> TRUE]

(* When a register cannot be given its real, those before it are taken     *)
(* back and the block is reduced where it is now.                          *)
allocateFirstLocalRegisters(r, n) ==
  {Failed(r)} \union
  UNION {LET b     == p[1]
             moved == Realloc(r, b, headerOnlyBlocks, levelBlocks(n))
         IN {Done(updateSubroutineLinks(Initialized(refreshLocalStorage(moved, b, data), data))) :
               data \in Places(InUse(moved), n)}
            \union
            IF n = 0 THEN {}
            ELSE {Failed(Unlinked([Reduce(moved, b, levelBlocks(n), headerOnlyBlocks)
                           EXCEPT !.cur = b, !.flags = NULL, !.regs = NULL]))} :
         p \in Places(InUse(r), 1)}

GrowSlip(r, n) ==
  {Failed(r)} \union
  UNION {LET b     == p[1]
             old   == curRegs(r)
             moved == Realloc(r, b, levelBlocks(Len(old)), levelBlocks(n))
         IN {Done(Initialized(refreshLocalStorage(moved, b, old \o data), data)) :
               data \in Places(InUse(moved), n - Len(old))} :
         p \in Places(InUse(r), 1)}

RestartSlip(r, n) ==
  {Failed(r)} \union
  UNION {LET b     == p[1]
             moved == Realloc(r, b, levelBlocks(Len(curRegs(r))), levelBlocks(n))
         IN {Done(updateSubroutineLinks(
                    Initialized(refreshLocalStorage(moved, b, data), data))) :
               data \in Places(InUse(moved), n)} :
         p \in Places(InUse(r), 1)}

growLocalRegisters(r, n) ==
  {Failed(r)} \union
  UNION {LET b     == p[1]
             old   == curRegs(r)
             moved == Realloc(r, b, levelBlocks(Len(old)), levelBlocks(n))
         IN {Done(updateSubroutineLinks(
                    Initialized(refreshLocalStorage(moved, b, old \o data), data))) :
               data \in Places(InUse(moved), n - Len(old))}
            \union
            {Failed(Unlinked(refreshLocalStorage(
                      Reduce(moved, b, levelBlocks(n), levelBlocks(Len(old))), b, old)))} :
         p \in Places(InUse(r), 1)}

shrinkLocalRegisters(r, n) ==
  LET old  == curRegs(r)
      less == Reduce(freeLocalRegisterRange(r, n), r.cur,
                     levelBlocks(Len(old)), levelBlocks(n))
  IN updateSubroutineLinks(refreshLocalStorage(less, r.cur, SubSeq(old, 1, n)))

allocateLocalRegisters(r, n) ==
  IF r.flags = NULL THEN allocateFirstLocalRegisters(r, n)
  ELSE CASE n = Len(curRegs(r)) -> {Done(r)}
         [] n > Len(curRegs(r)) -> growLocalRegisters(r, n)
         [] n < Len(curRegs(r)) -> {Done(shrinkLocalRegisters(r, n))}

(* allocateLocalRegisters(0) where the level has registers.                *)
WithoutRegisters(r) ==
  IF curRegs(r) = <<>> THEN r
  ELSE IF r.flags = NULL THEN [r EXCEPT !.misuse = TRUE]
  ELSE shrinkLocalRegisters(r, 0)

cleanLocalFlagsAndRegisters(r) ==
  LET w == WithoutRegisters(r)
      u == IF w.lev[w.cur].flagged
             THEN [Reduce(w, w.cur, levelBlocks(0), headerOnlyBlocks)
                     EXCEPT !.lev[w.cur].flagged = FALSE]
             ELSE w
  IN [u EXCEPT !.flags = NULL, !.regs = NULL]

---------------------------------------------------------------------------
(* Calls and returns.                                                      *)

(* A return from a level: its block goes back with the size LocR left.     *)
LeakSlip(r) ==
  LET w == WithoutRegisters(r)
      p == w.lev[w.cur].prev
      f == IF w.lev[w.cur].flagged THEN w ELSE Free(w, w.cur, headerOnlyBlocks)
      back == f.lev[p]
  IN [f EXCEPT !.cur = p, !.lev[p].next = NULL, !.count = @ - 1,
               !.chain = SubSeq(@, 1, Len(@) - 1), !.lost = @ \ {Len(r.chain)},
               !.flags = IF back.flagged THEN p ELSE NULL,
               !.regs = IF back.flagged /\ back.regs # <<>> THEN p ELSE NULL]

ReturnFromLevel(r) ==
  LET w == WithoutRegisters(r)
      p == w.lev[w.cur].prev
      f == Free(w, w.cur, headerOnlyBlocks + (IF w.lev[w.cur].flagged THEN 1 ELSE 0))
      back == f.lev[p]
  IN [f EXCEPT !.cur = p, !.lev[p].next = NULL, !.count = @ - 1,
               !.chain = SubSeq(@, 1, Len(@) - 1), !.lost = @ \ {Len(r.chain)},
               !.flags = IF back.flagged THEN p ELSE NULL,
               !.regs = IF back.flagged /\ back.regs # <<>> THEN p ELSE NULL]

CountSlip(r) ==
  IF curLevel(r) > 0 THEN ReturnFromLevel(r)
  ELSE [cleanLocalFlagsAndRegisters(r) EXCEPT !.count = @ - 1]

fnReturn(r) == IF curLevel(r) > 0 THEN ReturnFromLevel(r) ELSE cleanLocalFlagsAndRegisters(r)

ReturnPoint(r) == IF curLevel(r) > 0 THEN r.lev[r.cur].ret ELSE here

(* fnExecute in a running program.  The new level is counted before its    *)
(* block is claimed; when the label is missing, the level is given up.     *)
NewLevel(r, b) ==
  [r EXCEPT !.size[b] = 3, !.lev[r.cur].next = b, !.cur = b,
            !.lev[b] = [Blank EXCEPT !.ret = here, !.level = r.count, !.prev = r.cur],
            !.count = @ + 1, !.flags = NULL, !.regs = NULL, !.chain = Append(@, b)]

fnExecute(r) ==
  {Failed([r EXCEPT !.count = @ + 1])} \union
  UNION {{Done(NewLevel(r, p[1])), Failed(fnReturn(NewLevel(r, p[1])))} :
         p \in Places(InUse(r), 1)}

---------------------------------------------------------------------------
(* Engines.  A run ends at the RTN of the level it started at.  depth: the *)
(* levels there were when execProgram started it, 0 for an outermost run.  *)
(* step: "redo" - the next step is the one the engine was started from,    *)
(* because fnExecute did not leave it; "calls" - no program runs any more, *)
(* and the step the engine is at is not over and may call execProgram.     *)

NoJob == [then |-> "none", to |-> 0, here |-> NULL]

Outermost == [start |-> 0, orig |-> 0, depth |-> 0, here |-> NULL, step |-> "next"]

engine == engines[Len(engines)]

Idle    == engines = <<>> /\ job = NoJob
Running == engines # <<>> /\ running /\ job = NoJob
Stepping == Running /\ engine.step # "redo"

(* The engines without the innermost one; its caller is at step s.         *)
CallersAt(s) ==
  LET n == Len(engines) - 1
  IN [k \in 1 .. n |-> IF k = n THEN [engines[k] EXCEPT !.step = s] ELSE engines[k]]

(* runProgram behind its loop; execProgram then gives up the levels the    *)
(* run has left, but not when the run was an outermost one.                *)
EndOfRun ==
  IF engine.depth = 0
    THEN /\ engines' = CallersAt("calls") /\ running' = FALSE /\ cut' = Len(engines) - 1
         /\ UNCHANGED job
    ELSE /\ job' = [then |-> "execProgram", to |-> engine.orig, here |-> engine.here]
         /\ UNCHANGED <<engines, running, cut>>

(* An error ends the run, unless FLAG_IGN1ER says to ignore it.            *)
StepEnds(err) ==
  \/ err /\ engines # <<>> /\ EndOfRun
  \/ UNCHANGED <<engines, running, job, cut>>

(* XEQ in a program.                                                       *)
Execute(p) ==
  /\ Stepping /\ Len(ram.chain) < MaxLevels /\ ram.count < MaxCount
  /\ \E o \in fnExecute(ram) :
       /\ ram' = o.ram
       /\ here' = IF o.err THEN here ELSE p
       /\ StepEnds(o.err)

RtnEndsSlip ==
  /\ Stepping
  /\ ram' = fnReturn(ram)
  /\ here' = ReturnPoint(ram)
  /\ IF curLevel(ram) = 0 THEN EndOfRun ELSE UNCHANGED <<engines, running, job, cut>>

(* RTN and END in a program.                                               *)
Rtn ==
  /\ Stepping
  /\ ram' = fnReturn(ram)
  /\ here' = ReturnPoint(ram)
  /\ IF curLevel(ram) = engine.start THEN EndOfRun ELSE UNCHANGED <<engines, running, job, cut>>

(* RTN keyed by hand.                                                      *)
RtnByHand ==
  /\ Idle
  /\ ram' = fnReturn(ram)
  /\ here' = ReturnPoint(ram)
  /\ UNCHANGED <<running, engines, job, cut>>

(* LocR, in a program or by hand; FOR and NEXT call it too.                *)
LocR(n) ==
  /\ Stepping \/ Idle
  /\ \E o \in allocateLocalRegisters(ram, n) :
       /\ ram' = o.ram
       /\ StepEnds(o.err)
  /\ UNCHANGED here

StoreLocal(i, v) ==
  /\ Stepping \/ Idle
  /\ ram.regs # NULL /\ i \in 1 .. Len(ram.lev[ram.regs].regs)
  /\ ram' = [ram EXCEPT !.val[ram.lev[ram.regs].regs[i]] = v]
  /\ UNCHANGED <<here, running, engines, job, cut>>

(* A step of SOLVE, an integral, a sum or a plot calls its function; an    *)
(* error of fnExecute does not keep the run from starting.                 *)
execProgram(p) ==
  /\ Running /\ Len(engines) < MaxEngines
  /\ Len(ram.chain) < MaxLevels /\ ram.count < MaxCount
  /\ \E o \in fnExecute(ram) :
       /\ ram' = o.ram
       /\ here' = IF o.err THEN here ELSE p
       /\ engines' = Append(engines,
                       [start |-> curLevel(o.ram), orig |-> curLevel(ram),
                        depth |-> Len(ram.chain), here |-> here,
                        step |-> IF o.err THEN "redo" ELSE "next"])
       /\ cut' = IF o.err THEN Len(engines) + 1 ELSE cut
  /\ UNCHANGED <<running, job>>

(* The same when no program runs: SOLVE keyed by hand, or a step that goes *)
(* on although its function has stopped - sums, integrals and the solver   *)
(* look only for an error.  fnExecute has no level to return to, it jumps  *)
(* and starts an outermost run on the level there is; if an error is set,  *)
(* it only jumps.                                                          *)
execProgramStopped(p) ==
  /\ ~ running /\ job = NoJob /\ Len(engines) < MaxEngines
  /\ engines # <<>> => engine.step = "calls"
  /\ here' = p
  /\ \/ /\ engines' = Append(engines, Outermost) /\ running' = TRUE
        /\ cut' = Len(engines)
     \/ UNCHANGED <<engines, running, cut>>
  /\ UNCHANGED <<ram, job>>

(* Any step can fail.                                                      *)
StepFails ==
  /\ Running
  /\ EndOfRun
  /\ UNCHANGED <<ram, here>>

(* STOP, or R/S seen by the outermost engine, which ends at once; the      *)
(* battery may run low in a step that has not called its function yet.     *)
Stop ==
  /\ Stepping
  /\ running' = FALSE
  /\ \E s \in {"next", "calls"} : engines' = [engines EXCEPT ![Len(engines)].step = s]
  /\ UNCHANGED <<ram, here, job, cut>>

EndOfStoppedRun ==
  /\ engines # <<>> /\ ~ running /\ job = NoJob
  /\ EndOfRun
  /\ UNCHANGED <<ram, here>>

---------------------------------------------------------------------------
(* From the keyboard, while no program runs.                               *)

(* R/S and SST.                                                            *)
RunProgram ==
  /\ Idle
  /\ running' = TRUE
  /\ engines' = <<Outermost>>
  /\ UNCHANGED <<ram, here, job, cut>>

(* A key of the programmable menu with an XEQ behind it.  The run starts   *)
(* although fnExecute has failed; then it ends after one step.             *)
MenuKey(p) ==
  /\ Idle /\ Len(ram.chain) < MaxLevels /\ ram.count < MaxCount
  /\ \E o \in fnExecute(ram) :
       /\ ram' = o.ram
       /\ here' = IF o.err THEN here ELSE p
  /\ running' = TRUE /\ engines' = <<Outermost>>
  /\ UNCHANGED <<job, cut>>

(* GTO, XEQ and CLP; reading a state file.                                 *)
StartJob(what) ==
  /\ Idle
  /\ job' = [then |-> what, to |-> 0, here |-> here]
  /\ UNCHANGED <<ram, here, running, engines, cut>>

(* FINISH and CLSTRUC, in a program.                                       *)
fnFinish ==
  /\ Stepping
  /\ job' = [then |-> "fnFinish", to |-> 0, here |-> here]
  /\ cut' = Len(engines)
  /\ UNCHANGED <<ram, here, running, engines>>

(* while (level > to) fnReturn(0)                                          *)
Unwind ==
  /\ job # NoJob /\ curLevel(ram) > job.to
  /\ ram' = fnReturn(ram)
  /\ here' = ReturnPoint(ram)
  /\ UNCHANGED <<running, engines, job, cut>>

JobDone(what) == job.then = what /\ curLevel(ram) <= job.to /\ job' = NoJob

GoOn(p) ==
  /\ JobDone("goto")
  /\ ram' = cleanLocalFlagsAndRegisters(ram)
  /\ here' = p
  /\ \/ running' = TRUE /\ engines' = <<Outermost>>
     \/ UNCHANGED <<running, engines>>
  /\ UNCHANGED cut

Loaded ==
  /\ JobDone("load")
  /\ UNCHANGED <<ram, here, running, engines, cut>>

Finished ==
  /\ JobDone("fnFinish")
  /\ ram' = cleanLocalFlagsAndRegisters(ram)
  /\ running' = FALSE
  /\ here' = job.here
  /\ UNCHANGED <<engines, cut>>

(* execProgram puts the caller's step back; in a program that has stopped  *)
(* it may be called again before the caller's step is over.                *)
Returned ==
  /\ JobDone("execProgram")
  /\ here' = job.here
  /\ engines' = CallersAt(IF running THEN "next" ELSE "calls")
  /\ cut' = IF cut < Len(engines) THEN cut ELSE Len(engines) - 1
  /\ UNCHANGED <<ram, running>>

UnwindStep == Unwind \/ Loaded \/ Finished \/ Returned \/ \E p \in Points : GoOn(p)

Init ==
  /\ here \in Points
  /\ \E p \in Places({}, 1) :
       ram = [size |-> [b \in Addr |-> IF b = p[1] THEN headerOnlyBlocks ELSE 0],
              lev |-> [b \in Addr |-> Blank], val |-> [b \in Addr |-> Zero],
              cur |-> p[1], flags |-> NULL, regs |-> NULL, level0 |-> p[1], count |-> 1,
              misuse |-> FALSE, chain |-> p, lost |-> {}]
  /\ running = FALSE /\ engines = <<>> /\ job = NoJob /\ cut = 0

Next ==
  \/ \E p \in Points : Execute(p) \/ execProgram(p) \/ execProgramStopped(p) \/ MenuKey(p)
  \/ Rtn \/ RtnByHand \/ StepFails \/ Stop \/ EndOfStoppedRun \/ RunProgram \/ fnFinish
  \/ \E n \in Sizes : LocR(n)
  \/ \E i \in DOMAIN curRegs(ram), v \in Values : StoreLocal(i, v)
  \/ \E what \in {"goto", "load"} : StartJob(what)
  \/ UnwindStep

Spec == Init /\ [][Next]_vars

---------------------------------------------------------------------------
Chain == ram.chain

(* Types; the count of levels is never 0, and a program runs in an engine. *)
TypeOK ==
  /\ here \in Points /\ running \in BOOLEAN /\ cut \in 0 .. Len(engines)
  /\ ram.cur \in Addr /\ ram.flags \in Addr \union {NULL} /\ ram.regs \in Addr \union {NULL}
  /\ ram.size \in [Addr -> 0 .. 4 + 99] /\ ram.val \in [Addr -> Values]
  /\ ram.count \in 1 .. MaxCount /\ Chain \in Seq(Addr) /\ Len(Chain) \in 1 .. MaxLevels
  /\ Len(engines) <= MaxEngines /\ (running => engines # <<>>)
  /\ job.then \in {"none", "goto", "load", "fnFinish", "execProgram"}

(* The data of the local registers of the level in block a.                *)
DataOf(a) == {ram.lev[a].regs[i] : i \in DOMAIN ram.lev[a].regs}

(***************************************************************************)
(* Memory is neither lost nor freed twice: fnReturn,                       *)
(* cleanLocalFlagsAndRegisters and allocateLocalRegisters give every block *)
(* back with the size it has, and the blocks in use are those of the       *)
(* levels that have not returned and of their registers, each with one     *)
(* owner - after every LocR that failed half-way, too.                     *)
(***************************************************************************)
LevelsOwnMemory ==
  LET levels == {Chain[i] : i \in DOMAIN Chain}
      data   == UNION {DataOf(a) : a \in levels}
      Owned(a) == Cardinality(DataOf(a)) = Len(ram.lev[a].regs)
  IN /\ ~ ram.misuse
     /\ Cardinality(levels) = Len(Chain)
     /\ InUse(ram) = levels \union data
     /\ levels \intersect data = {}
     /\ \A a \in data : ram.size[a] = RealBlocks
     /\ \A a \in levels :
          /\ Owned(a)
          /\ ram.size[a] = IF ram.lev[a].flagged THEN levelBlocks(Len(ram.lev[a].regs))
                                                 ELSE headerOnlyBlocks
     /\ \A a, b \in levels : a # b => DataOf(a) \intersect DataOf(b) = {}

(***************************************************************************)
(* The levels are linked: the way back from the current level leads        *)
(* through all of them to level 0, their numbers grow from 0 - which the   *)
(* loops of fnReturn rely on - also after an XEQ that found no memory and  *)
(* was counted all the same, and currentLocalFlags and                     *)
(* currentLocalRegisters point into the current level or nowhere.  The     *)
(* links forward, and the one to level 0, are right except to a level that *)
(* a failed LocR has moved.                                                *)
(***************************************************************************)
LevelsLinked ==
  LET lev(i) == ram.lev[Chain[i]]
      n == Len(Chain)
  IN /\ ram.cur = Chain[n]
     /\ lev(1).prev = NULL /\ lev(1).level = 0
     /\ \A i \in 2 .. n : lev(i).prev = Chain[i - 1] /\ lev(i).level > lev(i - 1).level
     /\ ram.count > lev(n).level
     /\ ram.flags = IF lev(n).flagged THEN ram.cur ELSE NULL
     /\ ram.regs = IF lev(n).regs # <<>> THEN ram.cur ELSE NULL
     /\ lev(n).next = NULL
     /\ \A i \in 2 .. n : i \notin ram.lost => lev(i - 1).next = Chain[i]
     /\ 1 \notin ram.lost => ram.level0 = Chain[1]

(***************************************************************************)
(* A function that SOLVE or an integral runs leaves its caller's level     *)
(* alone, however it ends (execProgram, lbl_gto_xeq.zig:1531): while it    *)
(* runs the level is there, and after it the caller goes on at the step it *)
(* was at, with this level the current one.  Excepted are the callers of   *)
(* three runs: one that started although fnExecute had no memory for its   *)
(* level; one with a FINISH; and the outermost run that execProgram starts *)
(* after the function has stopped - it stands on the caller's level, and   *)
(* its RTN returns from it (lbl_gto_xeq.zig:676).  A function called in    *)
(* such a run still leaves the level of its own caller alone.              *)
(***************************************************************************)
CallersLevelKept ==
  /\ \A k \in cut + 1 .. Len(engines) : Len(Chain) >= engines[k].depth
  /\ cut < Len(engines) /\ job.then = "execProgram" /\ curLevel(ram) <= job.to
       => Len(Chain) = engine.depth

---------------------------------------------------------------------------
(* The calls as a program sees them, read from the levels' blocks.         *)
Frame(a) ==
  [ret    |-> IF ram.lev[a].prev = NULL THEN NULL ELSE ram.lev[a].ret,
   locals |-> IF ram.lev[a].flagged
                THEN [i \in DOMAIN ram.lev[a].regs |-> ram.val[ram.lev[a].regs[i]]]
                ELSE NULL]

Abstract == INSTANCE CallStack WITH
  frames <- [i \in DOMAIN Chain |-> Frame(Chain[i])], at <- here, NoLocals <- NULL

(***************************************************************************)
(* The levels implement nested calls: a return goes to the point behind    *)
(* its call and finds the caller's local registers as they were, LocR      *)
(* keeps what the registers that stay hold, and an XEQ or a LocR that      *)
(* fails changes nothing, although LocR has moved the level's block.       *)
(***************************************************************************)
ImplementsCallStack == Abstract!Spec
=============================================================================
