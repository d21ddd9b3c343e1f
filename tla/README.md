# z47: a TLA+ model of the calculator's core

z47 is an RPN calculator (the C47/R47 firmware and its simulator) whose engine
is being rewritten in Zig under `src/src/`. This directory holds TLA+ modules
for the parts of it that keep state with delicate invariants, TLC
configurations that check them on small instances, and TLAPS proofs of what
matters most.

The repository also holds the C program the rewrite started from
(`src/upstream/`), as a reference for parity tests. The modules are written from
the Zig code under `src/src/`, which is what is built and shipped, and `PROJECT.json`
maps every definition to it; nothing is mapped to the C files.

## The system

| part | state it keeps | operations | correct when |
|---|---|---|---|
| block allocator (`shell/free_list.zig`, `core/memory/memory_c47_alloc.zig`) | table of free regions, blocks in use, `c47MemInBlocks` | alloc, realloc, reduce, free | the pool is partitioned, the table sorted and coalesced, a claim fails only without room |
| program area (`core/memory/memory_resize_program.zig`) | `beginOfProgramMemory`, the size of the last free region | resize | it takes and returns only blocks nobody else has |
| availability test (`core/memory/block_availability_pure.zig`, `memory.zig`) | none | `isMemoryBlockAvailable` | its answer is what the allocator then delivers |
| key input (`core/input/keyboard_state_ringbuffer.zig`, `shell/c47.zig`, `shell/extensions/addons.zig`) | the system's key buffer, the ring buffer | drain, take, clear, poll | order, no loss, interrupts seen once |
| registers (`core/state/register_metadata/`) | descriptors (type, block), payloads | reallocate, copy, clear | every register owns one block of its own |
| register ranges (`core/state/stack/stack_register_commands.zig`) | none of their own | R-CLR, R-COPY, R-SWAP, R-SORT | a range moves as if at once, a sort is stable, a failed command loses nothing |
| RPN stack and undo (`core/state/stack/`) | X..T (or X..D), L, saved copies, flags | lift, drop, roll, swap, fill, save, undo | undo restores what was; no block shared or lost, also when memory runs out |
| subroutine levels (`shell/program/lbl_gto_xeq.zig`, `register_metadata_local_registers.zig`) | linked list of level blocks, local registers and flags | XEQ, RTN, LocR, END, FINISH, nested runs | list, counters and owned blocks agree; calls nest, also when memory runs out |
| structured programs (`shell/program/structured.zig`) | table of running FOR loops, two local registers each | FOR, FORyx, FORTOP, NEXT, CLSTRUC, VALID | a loop keeps its row and registers; a NEXT finds its own loop |
| named variables (`register_metadata_variables.zig`) | the table of variables, in the pool | create, find, delete | a variable keeps its register when the table moves |
| timers (`shell/timer.zig`, `shell/c47.zig`) | 11 timers, `nextTimerRefresh` | start, stop, run, refresh, the main loop's sleep | a due timer fires, none early; sleep ends in time |
| program engine (`shell/program/`) | current program and step, run/stop state | step, skip, goto, run | stays in the program; stops when told |
| function keys (`core/input/keyboard_state.zig`, `shell/display/screen.zig`) | state of the press, shift, three timers | press, release, double press, long press | a press runs what was shown for it, in order |
| keyboard modes (`core/input/`, `shell/input/`) | TAM, NIM, AIM modes, menus | press, release | one mode at a time |
| numeric, statistics, plots, display, print, files | | | not modelled: see below |

The parts meet in three places. Everything that outlives a command is a block
of the one pool, so the allocator's invariants carry the register, stack,
subroutine and variable code. The program area shares the last free region
with the allocator without a common interface. And keys arrive while the
program is busy: the main loop, a redraw, a long computation and a running
program all empty the same two buffers. Two smaller meetings: FOR and NEXT take
their registers from the subroutine level that runs, while their table is one
for all levels; and a function key leaves its item to a timer, so that the next
key may come first.

What is hard here, and hard to test: long sequences of claims and releases that
meet a boundary of the free list; the same code running on after a failed
allocation, because an out-of-memory call returns on the firmware and exits on
the simulator; state checked in one call and used in the next; a key that moves
from one buffer to the other between two polls; a table whose rows outlive the
call they belong to; a clock that wraps and whose zero means "none"; a release
that goes to another screen than its press. `PROJECT.json` lists these
hazards with their lines.

## Modules

| module | models |
|---|---|
| `FreeList` | the free list as operators on a sequence of regions |
| `C47Memory` | the pool: allocator calls, accounting, program area; how it maps to `BlockPool` |
| `BlockPool` | what the allocator promises, without a list |
| `MCC47Memory` | instance, a statement a comment makes |
| `BlockAvailability` | the availability test and the claims after it |
| `KeyBuffer` | the ring buffer as operators on a record |
| `KeyInput` | the keyboard and everyone who takes keys |
| `RegisterRange` | the commands on ranges of registers |
| `RegisterStack` | the stack, its undo copy and the functions on them, on registers that own blocks; how it maps to `ValueStack` |
| `ValueStack` | what the stack promises: a stack of values with one level of undo |
| `MCRegisterStack` | instance: sizes, and the states TLC tells apart |
| `SubroutineLevels` | levels, local registers and the engines that run programs on them |
| `CallStack` | what levels promise: nested calls with local registers |
| `MCSubroutineLevels` | instance: a pool that hands out the first free blocks |
| `ForLoops` | FOR and NEXT: the table of running loops, on calls as `CallStack` has them |
| `MCForLoops` | instance: the programs |
| `Timers` | the software timers and the main loop that serves them |
| `MCTimers` | instance: which timer shortens a sleep |
| `FunctionKeys` | the state machine of the six function keys |
| `FreeListProofs`, `C47MemoryProofs`, `BlockAvailabilityProofs` | lemmas and theorems on the memory |
| `RegisterStackProofs`, `SubroutineLevelsProofs`, `TimersProofs`, `FunctionKeysProofs`, `KeyInputProofs` | those of the module each is named after |

A definition marked "Slip" is a deliberately wrong variant of the definition
that follows it. No specification uses one; they show that the properties can
fail.

**FreeList and C47Memory.** The table `freeMemoryRegions` is a sequence of
`[blockAddress, sizeInBlocks]`; `numberOfFreeMemoryRegions` is its length and
an `xcopy` inside the table is `RemoveAt` or `InsertAt`. The scans of the code
are written as what they find: the best fit (the first exact fit, else the
first of the smallest larger regions), the region that starts behind or ends
in front of a released block, the insertion point. `allocatedMemoryRegions` is
the set of blocks in the callers' hands (on the simulator the code keeps it
too). The guards hold the callers' side of the contract: a block is released
once, with the size it was claimed with. `status` says how a call that cannot
succeed ends: the simulator exits; on the firmware `backToSystem` sets a flag
and returns, and the code behind it runs on, which either writes past the
table ("undefined") or stores a null start of the program area. The contents
of blocks and programs are left out. `returned` holds what the last call gave
back; a call that returns nothing leaves `NoPointer` there, so that a NULL in
the refinement is always the answer to a claim. Sizes are natural numbers: the code's
`u16` sums stay below 65534 because the pool does, which the invariant shows.

**BlockAvailability.** `isMemoryBlockAvailable(size, 2, 0.1)` guards register
reallocation. The model takes any free list, computes the answer with the
code's accumulator and then makes the claims. `extraFraction` is `1/Fraction`;
`Fraction = 2` makes the extra block larger than zero for small sizes, where
the code's 0.1 would need sizes above ten. A size of zero is not asked for by
any data type and is excluded.

**KeyBuffer and KeyInput.** The system's buffer (`key_pop`, in the calculator's
ROM) is external: a queue of key codes, 0 for a key that went up. Events carry
a number, which the code does not see, so that order and loss can be stated.
`drainKeys` is the code's loop, turn by turn (`drainOne`): `push` refuses a key
equal to the slot behind `write`, and a full buffer stops the loop before the
next key is taken. The turns are a function into sets of one state each; an
action picks the last one with `\E`, which computes it once. The main loop
drains in one step and takes the key in the next, as a key may arrive in
between. `exitKeyWaiting` and the program engine's poll both call
`C47PopKeyNoBuffer`, whose progress is `poll`: with a key waiting it waits until
no key is down (`KeyIsReleased`) and empties the system's buffer
(`KeysArePopped`), and only then its caller decides (`exitKeyWaiting`,
`ProgramPoll`). Keys go down and up between these steps. The calls inside a step
are one: `exitKeyWaiting` looks at the ring buffer and drops both buffers at
once, which no key can tell from two steps, as the keyboard does not fill the
ring buffer. `asked` records an interrupt key pressed before the pop. R/S acts when it goes up (`keyboard_state.zig:565`), EXIT starts
nothing when it goes down, other keys may start a computation on either edge.
`fnPause`, the printer's poll and the other callers of `clearKeyBuffer` are
left out; so is a computation nested in a program.

**RegisterRange.** A register holds a kind of contents, the key by which it
compares, and the register it came from, which the code does not see. X gives
the range as a real (`sss.nnddd`); the model takes any start, count and
destination together with any contents of X, so that the type and range errors
are reached, and leaves out the digits, the bands behind the lettered registers
and the load from a file that a negative X asks for. Sizes are abstracted to
two: a text needs two blocks, anything else one. The free pool is one region,
so room is a number. `sortRegisterRange` is recursive as in the code; a slot
of the scratch block that the merge did not write holds `Garbage`, which
compares with nothing.

**RegisterStack and ValueStack.** A register is a descriptor that points to a
block. `reallyRunFunction` is cut into phases (save for undo, clear the saved
registers when that failed, run the handler, undo after an error), and a phase
into steps: one copy, clear, lift, drop, fill, swap or roll each, so that every
point at which memory can run out is a state. A step that must succeed ends the
phase when it fails, the others are passed over, as the code's tests have it. A
value is known by its size; types of one size are one type, and the room in
the pool is a number (that the availability test tells the truth is
`BlockAvailability`'s matter). Between two functions the rest of the program
takes and returns memory (`OtherMemoryUse`). Lift, drop and fill free a block
and claim another one without making sure; where the claim fails the code goes
on with a null or stale pointer, and the model ends (`halted`). A function runs
from the keyboard in the normal mode, without `FLAG_IGN1ER`, eRPN, the
statistics sums and input variables. ENTER's second save is left out, because
it copies what has just been copied.

`ValueStack` knows values only: a function is done, or refused with nothing
changed; UNDO takes back the last one, but not a store into a register. The
mapping shows the values when a function has ended, and `short` from the first
failure in which the code leaves its own protocol.

**SubroutineLevels and CallStack.** A level is a block of the pool: header (3
blocks of the pool in the code, `headerOnlyBlocks`), and after LocR the flags
and one descriptor per local register, each with a real of its own in another
block. `ram` holds the blocks with their sizes, the header fields and the
globals that point to them (`currentSubroutineLevelData`, `currentLocalFlags`,
`currentLocalRegisters`, level 0, `numberOfSubroutineLevels`). The pool is what
`BlockPool` promises: every claim may fail, a block made larger moves, one made
smaller stays; a release or reduction with a wrong size sets `misuse`. The two
history fields are `chain`, the blocks of the calls that have not returned, and
`lost`, the levels a failed LocR has moved without telling its neighbours.
`runProgram` is one element of `engines` for each run inside of another one
(`execProgram`, which SOLVE, integrals, sums and plots use); the loops that
return from level after level are a `job` of one return per step, since each
of them is a complete `fnReturn`. A failing step ends the run or, under
FLAG_IGN1ER, does not. Labels and steps are `Points`. `step` tells what an
engine does next: "redo" marks a nested run that started although `fnExecute`
failed, whose first step is the very step that started it; "calls" a step that
is not over although its program has stopped. Sums, integrals and the solver
look for an error only, so such a step calls `execProgram` again; no program
runs then, `fnExecute` pushes no level, and `execProgramStopped` starts an
outermost run (`depth` 0) on the caller's. `cut` is the number of engines that
may have lost their callers' levels by that, by a FINISH or by a failed XEQ.
`CallStack` knows frames only; the mapping reads them from the
blocks.

**ForLoops.** A program is a sequence of steps, from the small language FOR,
FORTOP, NEXT, LocR, XEQ, RTN, LBL and a test that skips a step. `Walk` is the
check VALID makes of loops, and an assumption says that every text of an
instance passes it. A row of `forLoopTable` holds what the code's row holds,
with `at` for `forLoopStep`, which a power cycle takes away. Values are left
out: whether a NEXT is past the end is open, and FOR and NEXT can always meet a
value they cannot count with. The frames also record, as history, the loops a
call has opened and not left. A routine may declare its local registers
conditionally; then a FOR can carry on with the row an earlier call left, which
sets `astray`, and the other properties say nothing from there on.

**Timers.** The firmware's lane. The clock goes round after `Wrap` ticks as the
32-bit counter does, and `left` is the time a timer really has to wait, which
the code does not have. A key handler or a callback is any sequence of
`fnTimerStart`, `fnTimerStop` and `fnTimerExec`, with time passing; the handler
of a key ends by starting `TO_KB_ACTV`, that of a screen dump by stopping the
key timers. The other
steps of the loop take no time. A pass of `refreshTimer` is one step per timer,
because a callback may start a timer the pass has yet to come to. What wakes
the loop (a key, the minute's wake-up, a power change) comes with a tick; the
wake-ups, after which the loop starts over without looking at the timers, at
most once in `InterruptPeriod`. `fnTimerDel`, which nobody calls, is
`fnTimerStop` here.

**FunctionKeys.** The globals of the state machine are the fields of one record,
and each stretch of a handler is an operator on it. `shown` records the row of
the menu whose item the display named last for the key that is down; a tap
keeps it, together with the number of its press. An item that is run may bring
up any screen; a screen matters only by what it does to function keys: SHOW and
the stopwatch take presses, the four browsers and KEY? releases, the equation
editor and alpha menus block double presses of two keys. The timers that act on
the machine, `TO_FN_LONG`, `TO_FN_EXEC` and `TO_FG_TIMR`, may expire at any
moment they run (that they do expire is `Timers`' matter). The last one takes
the shift back four seconds after the fg key; `lapsed` records that it did so
with a key down. The lane is the
firmware's: on the simulator a mouse button sets the shift before the press is
handled. Assignment, and keys during a running program, are left out.

## Runs

| run | what it shows | bounds |
|---|---|---|
| `memory` | the seven properties of `C47Memory`, with `BlockPool` as refinement | pool of 9 blocks, 3 regions, claims of 0, 2, 3 blocks, program sizes 0, 2, 3 |
| `last_region` | violation: a shrinking program area grows a region over a live block | the same, with `Spec` |
| `availability` | yes is kept, no is justified | all lists of at most 3 regions of at most 9 blocks, sizes 1 to 4 |
| `keys` | order, interrupts, no loss at a full buffer, nothing left lying | 4 slots, 8 events, 4 keys |
| `ranges` | overlapping copies and swaps, the stable sort, no block lost | 5 numbered registers, X and the one behind; 1, 4 or 8 free blocks |
| `sort_neighbour` | violation: a sort depends on the register behind its range | 4 numbered registers, all kinds |
| `stack` | types, ownership, no memory lost, `ValueStack` as refinement | a stack of 3 with L, one register, the temporary one and the saved copies; two sizes; 0 or 5 units of memory at any time between functions |
| `levels` | memory of levels, links, callers' levels, `CallStack` as refinement | 5 blocks, 3 levels, 0 to 2 local registers of 2 values, 2 points (symmetric), 3 engines, a level count of at most 4 |
| `loops` | open loops keep rows and registers, a NEXT closes its own loop | 50 program texts of 2 routines chosen from 5 and a third one; 3 rows, 6 local registers, 4 counters |
| `loops_early_exit` | violation: a row left by an early RTN stands against a FOR | the same |
| `timers` | no sleep past a timer, none early, all due ones fire, no time left behind | 2 timers, a counter of 5, delays of 1 and 2, refresh period 3, interrupts every 3 |
| `fnkeys` | what was shown is run, in order, and the ladder needs a key | 4 presses of 2 keys, one of them blocked for double presses; 8 screens, all settings |

Why the bounds are enough. In a pool of nine blocks claims of two and three
blocks leave up to four fragments, so that every case of coalescing (none, one
side, the other, both), a full table, an exact fit, an out-of-memory claim and
a program area that meets a live block all occur; the claim of zero blocks
exercises the rounding. Three regions of up to nine blocks hold two claims of
up to four blocks and the extra one in every distribution over regions. Four
slots hold three keys; eight events fill them and leave some in the system's
buffer, wrap both indices and allow an interrupt before, in and after a
computation. A larger ring differs only in the number of keys it takes to fill.
Five registers make the sort recurse twice with halves of two and three, so
that a scratch block is claimed under another one; one free block lets no text
be copied, four let a copy fail half way, eight hold both levels of the sort.
A stack of three has a register above and one below those a lift, drop or roll
moves. With no memory every copy that changes a size fails and so does a lift
over a short integer; five units let two copies through, so that a save, a
function or an undo fails at its first step, half way or not at all. TLC
identifies states that differ only in which block a register has or in contents
nobody will read (`View`).
Three levels have a level with both neighbours; five blocks let LocR find memory
for the level and not for the registers, for all or for none, and a level count
of four is one more than the levels, so that a failed XEQ and its gap in the
numbers occur. Three engines are a program, a function it runs and a run started
in that one, before or after a STOP. The routines of the loop texts cover one loop, two nested loops,
LocR before FORTOP, LocR that may be skipped, and a loop with a call in it whose
routine has two loops of its own; three rows fill up, six local registers are
too few for the third pair. Two timers are one that a callback starts and one
that is behind or in front of it in the pass; a counter of five with delays of
two wraps between the start and the end of a timer, in a pass and in a sleep.
Four presses are a tap that waits, one that takes it over or runs it, and two
that meet what those have left.

Deadlock checking is off where the model may stop: the memory model when the
program has exited, the availability model when the claims are made, the range model after its one
command, the stack model when a claim failed, the key
model when `MaxEvents` is used up, the function keys when `MaxPresses` are.
Levels, loops and timers never stop, and TLC checks that.

`SpecTail` restricts `Spec` to behaviours in which the last free region is the
one in front of the programs whenever the program area is resized. The code
takes this for granted without a check; `last_region` shows what happens
otherwise. Everything else is checked and proved for `SpecTail`, with the calls
of the allocator in any order and size.

Fairness is assumed in two modules. In `KeyInput`: the main loop goes on (nothing
in the firmware can block it but the waits that are modelled), a poll goes on
once no key is down, a computation ends however often it polls in between
(strong fairness, since each poll disables its end for a while), the stop of a
program is carried through, and a key that is down comes up. Nothing is assumed of running programs, which may loop, or of presses and
redraws. In `Timers`: the main loop goes on, which includes that a handler and a
callback end, and time passes. Nothing is assumed of keys, wake-ups, switching
off and on, or of what handlers do to timers. Wake-ups are rarer than the loop's
rounds by the guard of `Tick` and not by fairness: the real ones are a minute
apart.

## What the checks found

Three runs contradict a comment of the code; each finding in `PROJECT.json` quotes
it.

1. `resizeProgramMemory` adds the blocks a shrinking program area gives back to
   the last free region, whatever its address (run `last_region`).
2. R-SORT compares with the register behind its range before it tests whether
   the run is used up. A range of texts in front of a number is sorted into
   uninitialized descriptors (run `sort_neighbour`).
3. A RTN inside a FOR loop leaves the loop's row in the table. A FOR of a later
   call at that level is then refused for counting in a register "already
   counted", or carries on with the loop that is over (run `loops_early_exit`).

Others came up while modelling. The models follow the code there, and the
properties except exactly these cases:

- On the firmware a failed growth of the program area sets
  `beginOfProgramMemory` to null and carries on (`status` in `C47Memory`).
- `KeyBuffer.push` takes the slot behind `write` for the previous key even after
  `clear`; the second press of the key that interrupted a computation is then
  dropped as a repeat (`KeysInOrder` speaks of the keys that arrive).
- An EXIT or R/S that goes down after a poll has emptied the system's buffer and
  before `exitKeyWaiting` throws away what it takes for old keys
  (`addons.zig:1923-1930`) is lost, and the computation goes on (`asked` in
  `InterruptStopsComputation`).
- An R-SORT whose recursion runs out of memory reports RAM full and still merges
  what it has, and a half can keep its scratch block for good (`SortIsStable`,
  `PoolKept`).
- `undo` tests none of its copies. After a function that ran out of memory they
  can fail for the same reason (`ImplementsValueStack` ends there).
- `execProgram` starts its nested run also when `fnExecute` had no memory for
  the level. The run then redoes the step that called it, at the caller's level
  (`cut` in `CallersLevelKept`).
- After a STOP in the function of a sum, an integral or the solver, the step that
  runs it goes on (`sumprod.zig:506`, `solve_owned.zig:1014` and `1021` look for
  an error only) and calls `execProgram` again. `fnExecute` then starts the
  function as an outermost run on the caller's level (`lbl_gto_xeq.zig:676`),
  whose RTN returns from that level or takes its local registers, and nothing is
  put back (`cut` again).
- FINISH in a nested run gives up all levels, those of the callers included
  (`cut` again).
- `fnExecute` counts the level it had no memory for; the numbers of later levels
  have a gap, which does no harm (`LevelsLinked`).
- A failed LocR leaves the previous level, or `ptrToSubroutineLevel0Header`,
  with the address the level had (`lost` in `LevelsLinked`).
- A timer that expires at exactly 0 of the wrapping counter reads as no timer,
  and one that is due just before the wrap and not served by then waits for the
  wrapped counter to catch up; around the wrap timers fire early (`ZeroHides`,
  `WrapHides`, `NeverEarly`). The counter wraps every 49.7 days.
- The stopwatch menu runs a press at once, ahead of an f-shifted tap that still
  waits; in the equation editor a second press of the same key loses the first
  one; a release that goes to a browser or to KEY? leaves the ladder climbing
  with no key down (the exceptions of the `FunctionKeys` properties).
- `TO_FG_TIMR` takes the shift back also while a function key is down: the name
  of the shifted item stays on the display, and the release runs the unshifted
  one (`lapsed` in `RunsWhatWasShown`).

## Proofs

Theorems hold for every value of the constants that satisfies the assumptions
named in the modules: any pool, table, stack height, number of timers, width of
the counter, set of keys, size of the ring, bound on levels or events. Each one
that names a property of a run says of all instances what the run shows of one.

| theorem | property | inductive invariant |
|---|---|---|
| `TypeCorrect`, `FreeListStaysSorted`, `BlocksNeverShared`, `BlocksNeverLost` | `TypeOK`, `FreeRegionsSortedApart`, `NoSharedBlock`, `NoLostBlock` of `C47Memory` | `MemoryInv` |
| `FiguresAlwaysAddUp`, `TableStaysBounded` | `FiguresAddUp`, `TableBounded` | `MemoryInv`, `FiguresInv` |
| `FreeListImplementsPool` | `ImplementsBlockPool` | `MemoryInv` |
| `YesIsAlwaysKept`, `NoIsAlwaysJustified` | `YesIsKept`, `NoIsJustified` of `BlockAvailability` | `AvailabilityInv` |
| `StackTyped`, `RegistersOwnTheirBlocks` | `TypeOK`, `Owned` of `RegisterStack` | `Inv` |
| `RegistersImplementStack` | `ImplementsValueStack` | `Inv`, `ValuesInv` |
| `MemoryIsAccounted` | `MemoryAccounted` | `Inv`, `WritesFit` |
| `LevelsTypeCorrect`, `LevelsAlwaysLinked`, `MemoryHasOwners`, `CallersKeepTheirLevel` | `TypeOK`, `LevelsLinked`, `LevelsOwnMemory`, `CallersLevelKept` of `SubroutineLevels` | `Inv` |
| `LevelsImplementCalls` | `ImplementsCallStack` | `Inv` |
| `TimersTypeCorrect`, `NoSleepPastTimers`, `NoTimerEarly` | `TypeOK`, `NeverSleepsPast`, `NeverEarly` of `Timers` | `Inv` |
| `FunctionKeysTypeCorrect`, `PressesRunWhatWasShown`, `PressesRunInOrder`, `NoClimbWithoutKey` | `TypeOK`, `RunsWhatWasShown`, `TapsRunInOrder`, `LadderWhileDown` of `FunctionKeys` | `Inv` |
| `KeysTypeCorrect`, `KeysAlwaysInOrder`, `InterruptAlwaysStops`, `InterruptAlwaysSpent`, `TypingAheadLosesNothing` | `TypeOK`, `KeysInOrder`, `InterruptStopsComputation`, `InterruptIsSpent`, `TypedAheadKeysArrive` of `KeyInput` | `Inv` |

Every inductive invariant also holds in TLC, on the instance of the component's
run.

**Memory.** None of the four invariants of `C47MemoryProofs` is inductive alone.
That the list stays sorted when a block comes back needs to know that the block
lies in no free region; that blocks are not shared after a claim needs the list
to be sorted apart; that nothing is lost needs both, and the extent of the
program area. `MemoryInv` is their conjunction with the types and with the fact
that every live block is not empty. The only assumption on constants is
`MemoryAssumption`; `C47_NULL` lies behind the pool. As for the run, the
theorems are about `SpecTail`. `FreeListProofs` holds the lemmas about the
operators, in terms of which block a list covers: what `Carve`,
`insertFreeBlock`, `GrowDown`, `GrowUp` and the join of three regions cover,
and that each keeps the list sorted apart. `C47MemoryProofs` then takes one
lemma per call (claim, release, reduce, program resize) to preserve the
partition, and one step per action.

Three consequences of `MemoryInv` follow in the same module. The figures: the sum
`getFreeRamMemory` makes over the list is a recursive function, and each list
operation changes it by the size it adds or takes (induction by the least
counterexample, over a set, since the provers cannot use a predicate as a
parameter). The bound on the table: between two free
regions lies a block in use, and no block in use lies behind two of them. The
refinement: best fit finds no region exactly when there is no run of free
blocks of that length, because in a partitioned pool such a run lies inside of
one coalesced region.

**Availability test.** `AvailabilityInv` says that the answer is right for the
claims still to be made of what is still free. What that means is said without
the accumulator (`Room`): let the count of a list be the number of whole blocks
of the size asked for that its regions hold. There is room for n such blocks
and the extra one when the count is above n, or equal to n with a region whose
rest takes the extra block. The loop is shown to compute just that, by
induction over the regions (least counterexample, as above); its shortcut, a
region that holds everything, and the return in the middle of the list agree
with it because counts only grow. A claim of that size, best fit or not, lowers
the count by one and leaves every rest as it was, so `Room` before the claim is
`Room` with one claim less after it. `AvailabilityAssumption` asks for a size,
a number of blocks and a fraction that are not zero.

**Register stack.** `Inv` adds to types and ownership that no step follows an
untested claim that failed, and the types say that only registers below the top
are dropped. The argument: in the middle of a lift, a drop, a fill or a
reallocation exactly one register lacks a block and exactly one block in use
has no register (`LacksOne`); the claim makes up for it (`ReplaceOwns`). Swaps
and rolls are permutations (`PermutedOwns`). A refused step changes nothing,
and `Room` or `Fits` keeps the memory from going below zero.

That the registers implement `ValueStack` needs to know what they hold in the
middle of a function. The mapping shows the state before the function until the
function has ended, so every step but the last stutters, and the last one has
to find what `ValueStack` promises. `ValuesInv` has one part for each phase. While the
state is saved, the copies made so far equal the stack, which is untouched. In
a handler that has met no error, the steps that are left lead to the promised
contents: `Outcome` of them is `Target` (`Filling` for FILL, whose steps are as
many as the stack is high). Each of lift, drop, copy, swap and roll then only
has to be shown to do to the registers what `Apply` says. After an error the
handler's work does not matter, because the copies still are the stack before
it (`StackSaved`), and the one register undo does not bring back, R, is written
by a last step only. A function that goes on without copies, because saving
them failed, has one step and so needs none. What undo has put back is what was
saved. From there each way a function can end is one step of `ValueStack`. All
this ends with `OutOfMemory`, the first failure of an untested claim or of
undo's own copy.

`MemoryAccounted` counts units of memory: `Memory` is what is free and the
sizes of the blocks in use. Blocks claimed and released change both sides by
the same amount. `WriteX`, which writes through the old pointer, is the step
that needs more: the value written has the size of a real, and X is new, or
held a real when the function began and no step before touched it (`WritesFit`,
inductive beside `Inv`, also after undo has failed).

`StackAssumption` asks for a stack of at least three, a block for every
register, sizes above zero, new contents of the size of a zero, and a `None`
that is no saved state.

**Subroutine levels.** `Good` describes the record of blocks: each has one owner
and the size its owner's fields say (`OneOwner`, `Sized`, `NothingElse`), the
links lead back to level 0 (`LinkedBack`), on to the current level except where
a failed LocR has moved one (`LinkedOn`), and the two pointers to flags and
registers are those of the current level (`Pointers`). Ownership and links need
each other: a return frees what the pointers say and finds its caller by the
link. LocR in all its cases, failures included, is one thing to the invariant:
the current block moves or stays and gets another list of registers
(`TopBecomes`). `Nested` says on which levels the engines above `cut` stand, by
number and by depth: numbers grow along the links, so the returns of a nested
run, which stop at a number, stop at the caller's level. An outermost run that
execProgram starts comes right behind `cut`, since it may return from any level;
the runs nested in it keep the levels of their own callers. The frames of `CallStack`
are read off the blocks, and each operation changes them as its abstract
counterpart does. `LevelsAssumption` asks of the pool only that it hands out
blocks that are free and different from each other; that is what `BlockPool`
promises.

**Timers.** `NeverSleepsPast` needs what `nextTimerRefresh` knows while the loop
is not in a pass (`RefreshBehind`), how the wrapping counter and the time a timer
has left relate (`ClockLinked`), and that the sleep chosen from both stays short
enough as time passes (`SleepBounded`). That `Earliest`, a recursion over the
timers, is not behind any of them is proved by induction over the timers.

**Function keys.** Each property is about a few bits of the record and needs the
combinations in which they occur: what a tap that waits excludes (`TapWaits`),
that the machine knows the key that is down (`KeyKnown`), when the ladder is on
or off (`LadderOn`, `LadderOff`), and the order of the press run last, the one
that waits and the one that is down (`Counted`). That a press runs what was
shown is carried from the press to the release by `AsShown`: the row is the one
shown, or there is no shift because it has lapsed. A handler passes through
several machines in one step, so these parts take the machine as a parameter.

**Key input.** The ring is described by the number of keys in it (`Count`), the
key in each place (`Slot`) and the slot behind `write` (`LastWritten`). What the
loop of `drainKeys` keeps is proved for one turn and then for all
(`DrainInduction`). `push` compares codes only, so that nothing is lost rests on
the parity of the events: presses have odd numbers and releases even ones, so a
key and the one before it never have the same code, and the slot behind `write`
holds the one before it as long as that is known of (`NotRefused`). That slot
can also be a key long gone, and then refuses the next one of the same code;
`Fresh` says that during a computation it is no interrupt key when the ring is
empty, without which an interrupt could vanish between two polls. `AskedIsSeen`
says where an interrupt that was asked for is: in one of the buffers, or found
by the poll, whose wait and pop are steps of their own. `Ahead`
orders the slot behind `write` before everything still to come, also when its
key has left the ring, and `RingSpent` and `SdkSpent` say that no interrupt key
in either buffer is from before the last stop.

The proofs corrected the models in some places. `BlockPool` did not allow the
null start of the program area that a failed resize leaves on the firmware. Two
`CASE`s, in `allocateLocalRegisters` and `ParamError`, had overlapping arms,
from which TLC takes the first and logic may take any. `LevelsAssumption` did
not bound the sizes LocR is asked for. An exception of `TapsRunInOrder` for
browsers turned out not to be needed.

Only model-checked:

- liveness, which is out of the prover's reach: `KeysAreTaken` of `KeyInput`,
  `DueTimersFire` and `NoTimerKeepsAwake` of `Timers`;
- `RegisterRange`: its sort is a recursive operator, as in the code, with which
  the prover cannot deal, and its copies are folds over the range;
- `ForLoops`. Its properties are not true of every text that VALID accepts: a
  test can skip the FOR or the NEXT behind it, and VALID, which reads a program
  from top to bottom, does not see that. The texts of the run have no such
  test. A theorem would need that as an assumption on texts, and then an
  induction over the nesting of loops in them.

## Plan

1. Proofs: `TypeOK` and `OpenLoopsKept` of `ForLoops`, for texts in which no
   test skips a FOR or a NEXT.
2. `NamedVariables`: the table that moves when it grows.
3. `RegisterStack`: SHUFFLE, DROP n and DUP n, and functions run by a program,
   where no state is saved.
4. The shift keys and the long press of ordinary keys, beside `FunctionKeys`.

## Not modelled

Numeric functions, solver, statistics, plots: decimal floating point, no
control a model checker would explore. Display, menus, printing, text:
formatting. Files (state, programs): byte layouts and I/O. GMP's allocator: a
counter around the C heap. IF, DO and REPEAT of structured programs: they keep no
state between two steps. The keyboard state machine apart from the function keys
is thousands of lines of dispatch on key, mode and menu; only what it does to the
key buffers and to a function key that waits is modelled. The C program under
`src/upstream/` and the simulator's own lanes (GTK, mouse) are not modelled where
they differ from the firmware's, except in `C47Memory`, which has both.
