------------------------------ MODULE KeyInput ------------------------------
(***************************************************************************)
(* Who takes keys from where, on the firmware.  The keyboard fills the     *)
(* system's key buffer; three parts of the program empty it:               *)
(*                                                                         *)
(*   - the main loop, and every redraw of the screen, move keys to the     *)
(*     ring buffer; the main loop handles them one by one                  *)
(*     (src/src/shell/c47.zig, src/src/shell/display/screen.zig);          *)
(*   - a long computation asks exitKeyWaiting whether to stop              *)
(*     (src/src/shell/extensions/addons.zig);                              *)
(*   - a running program looks for R/S and EXIT between two steps          *)
(*     (src/src/shell/program/lbl_gto_xeq.zig, runProgram).                *)
(*                                                                         *)
(* The last two also redraw, or run after a redraw, so a key they look for *)
(* may be in either buffer.  They take several steps for it, and keys go   *)
(* down and up between the steps.                                          *)
(***************************************************************************)
EXTENDS KeyBuffer

CONSTANTS
  Keys,       (* the keys that are pressed                                 *)
  MaxEvents   (* bound on the key events of a behaviour, even              *)

ASSUME KeyInputAssumption ==
  /\ Keys \subseteq Nat \ {0}
  /\ MaxEvents \in Nat /\ MaxEvents % 2 = 0

VARIABLES
  held,      (* the key that is down, or Released                          *)
  events,    (* number of key events so far                                *)
  sdk,       (* the system's key buffer, oldest event first                *)
  buffer,    (* the ring buffer                                            *)
  mode,      (* what the program is busy with                              *)
  poll,      (* how far a call of C47PopKeyNoBuffer has come               *)
  handled,   (* the event the main loop handled last                       *)
  asked,     (* an interrupt key was pressed since the computation's last  *)
             (* poll, in time for the next one                             *)
  stoppedAt  (* number of events when the poll that stopped a computation  *)
             (* had emptied the system's buffer                            *)

vars == <<held, events, sdk, buffer, mode, poll, handled, asked, stoppedAt>>

(* The main loop is "taking" a key between its drain and outKeyBuffer, and *)
(* "dumping" the screen until the key is up; "stopping" is the program     *)
(* engine after R/S or EXIT.                                               *)
Modes == {"idle", "taking", "dumping", "computing", "running", "stopping"}

(* C47PopKeyNoBuffer is not running, "waits" until no key is down, "pops"  *)
(* the keys, and has found an interrupt key among them or not.             *)
Stages == {"no", "waits", "pops", "interrupt", "nothing"}
Found == {"interrupt", "nothing"}

Init ==
  /\ held = Released
  /\ events = 0
  /\ sdk = <<>>
  /\ buffer = EmptyBuffer
  /\ mode = "idle"
  /\ poll = "no"
  /\ handled = [key |-> Released, nr |-> 0]
  /\ asked = FALSE
  /\ stoppedAt = 0

---------------------------------------------------------------------------
(* The keyboard: at most one key is down at a time, and a key goes down or *)
(* up at any moment.                                                       *)
KeyEvent(k) ==
  /\ held' = k
  /\ events' = events + 1
  /\ sdk' = Append(sdk, [key |-> k, nr |-> events + 1])

KeyDown(k) ==
  /\ held = Released
  /\ events < MaxEvents
  /\ KeyEvent(k)
  /\ asked' = (asked \/ (mode = "computing" /\ poll \notin Found /\ k \in Interrupts))
  /\ UNCHANGED <<buffer, mode, poll, handled, stoppedAt>>

KeyUp ==
  /\ held # Released
  /\ KeyEvent(Released)
  /\ UNCHANGED <<buffer, mode, poll, handled, asked, stoppedAt>>

(* keyBuffer_pop, as every redraw of a stack line or of the program        *)
(* listing calls it.                                                       *)
keyBuffer_pop ==
  \E drained \in drainKeys(buffer, sdk) :
    buffer' = drained.buf /\ sdk' = drained.left

Redraw ==
  /\ mode \in {"idle", "computing", "stopping"}
  /\ poll = "no"
  /\ sdk # <<>>
  /\ keyBuffer_pop
  /\ UNCHANGED <<held, events, mode, poll, handled, asked, stoppedAt>>

---------------------------------------------------------------------------
(* Slip: the main loop goes to sleep when the system's buffer is empty.    *)
KeyWaitingInSdk == sdk # <<>>

(* The main loop sleeps while both buffers are empty.                      *)
KeyWaiting == sdk # <<>> \/ ~ empty(buffer)

MainLoopDrains ==
  /\ mode = "idle"
  /\ KeyWaiting
  /\ keyBuffer_pop
  /\ mode' = "taking"
  /\ UNCHANGED <<held, events, poll, handled, asked, stoppedAt>>

(* What handling a key may start: EXIT and R/S act when they go up, other  *)
(* keys when they go down or up.                                           *)
ModesAfter(key) ==
  CASE key = DISP -> {"dumping"}
    [] key = Released -> {"idle", "computing", "running"}
    [] key \in Interrupts -> {"idle"}
    [] OTHER -> {"idle", "computing"}

(* outKeyBuffer, and the key is handled.  There may be no key, when the    *)
(* drain only dropped some.                                                *)
MainLoopHandlesKey ==
  /\ mode = "taking"
  /\ IF empty(buffer)
       THEN mode' = "idle" /\ UNCHANGED <<buffer, handled>>
       ELSE /\ buffer' = pop(buffer)
            /\ handled' = oldest(buffer)
            /\ mode' \in ModesAfter(oldest(buffer).key)
  /\ asked' = FALSE
  /\ UNCHANGED <<held, events, sdk, poll, stoppedAt>>

(* After a screen dump, once the key is up, what was typed is dropped.     *)
MainLoopDropsKeys ==
  /\ mode = "dumping"
  /\ held = Released
  /\ \E drained \in drainKeys(buffer, sdk) :
       buffer' = clear(drained.buf) /\ sdk' = drained.left
  /\ mode' = "idle"
  /\ UNCHANGED <<held, events, poll, handled, asked, stoppedAt>>

---------------------------------------------------------------------------
(***************************************************************************)
(* C47PopKeyNoBuffer, called by exitKeyWaiting in a computation and by     *)
(* runProgram between two steps of a program: with a key waiting it waits  *)
(* until no key is down and then empties the system's buffer.              *)
(***************************************************************************)
C47PopKeyNoBuffer ==
  /\ poll = "no"
  /\ \/ mode = "computing" /\ poll' = IF sdk = <<>> THEN "nothing" ELSE "waits"
     \/ mode = "running" /\ sdk # <<>> /\ poll' = "waits"
  /\ UNCHANGED <<held, events, sdk, buffer, mode, handled, asked, stoppedAt>>

KeyIsReleased ==
  /\ poll = "waits"
  /\ held = Released
  /\ poll' = "pops"
  /\ UNCHANGED <<held, events, sdk, buffer, mode, handled, asked, stoppedAt>>

InSdk == \E i \in DOMAIN sdk : sdk[i].key \in Interrupts

(* The keys that went down again in the meantime are among the popped.     *)
KeysArePopped ==
  /\ poll = "pops"
  /\ sdk' = <<>>
  /\ poll' = IF InSdk THEN "interrupt" ELSE "nothing"
  /\ UNCHANGED <<held, events, buffer, mode, handled, asked, stoppedAt>>

---------------------------------------------------------------------------
PollReturns ==
  /\ mode = "computing"
  /\ poll \in Found
  /\ poll' = "no"
  /\ asked' = FALSE
  /\ UNCHANGED <<held, events, handled>>

(* The events up to those that the poll left in the system's buffer.       *)
StopsAt == stoppedAt' = events - Len(sdk)

(* Slip: the ring buffer is not looked at.                                 *)
exitKeyWaitingSdkOnly ==
  /\ PollReturns
  /\ IF poll = "interrupt"
       THEN UNCHANGED <<sdk, buffer>> /\ mode' = "idle" /\ StopsAt
       ELSE sdk' = <<>> /\ buffer' = clear(buffer) /\ UNCHANGED <<mode, stoppedAt>>

(* Slip: the key that stops the computation stays in the ring buffer.      *)
exitKeyWaitingUnspent ==
  /\ PollReturns
  /\ IF poll = "interrupt" \/ hasInterruptKey(buffer)
       THEN UNCHANGED <<sdk, buffer>> /\ mode' = "idle" /\ StopsAt
       ELSE sdk' = <<>> /\ buffer' = clear(buffer) /\ UNCHANGED <<mode, stoppedAt>>

(***************************************************************************)
(* exitKeyWaiting after its pop: an interrupt key that was popped, or is   *)
(* in the ring buffer, stops the computation.  One in the ring buffer is   *)
(* spent.  With none the computation goes on, and both buffers are thrown  *)
(* away, with the keys that went down since the pop.                       *)
(***************************************************************************)
exitKeyWaiting ==
  /\ PollReturns
  /\ LET ringInterrupt == hasInterruptKey(buffer)
         checkKey      == poll = "interrupt" \/ ringInterrupt
     IN  /\ buffer' = IF ringInterrupt \/ ~ checkKey THEN clear(buffer) ELSE buffer
         /\ IF checkKey
              THEN mode' = "idle" /\ StopsAt /\ UNCHANGED sdk
              ELSE sdk' = <<>> /\ UNCHANGED <<mode, stoppedAt>>

(* The computation comes to its end between two polls.                     *)
ComputationEnds ==
  /\ mode = "computing"
  /\ poll = "no"
  /\ mode' = "idle"
  /\ asked' = FALSE
  /\ UNCHANGED <<held, events, sdk, buffer, poll, handled, stoppedAt>>

---------------------------------------------------------------------------
(* runProgram after its pop: only the popped keys are looked at.           *)
ProgramPoll ==
  /\ mode = "running"
  /\ poll \in Found
  /\ poll' = "no"
  /\ mode' = IF poll = "interrupt" THEN "stopping" ELSE "running"
  /\ UNCHANGED <<held, events, sdk, buffer, handled, asked, stoppedAt>>

(* The stop waits for the key to go up and pops one event.                 *)
ProgramStops ==
  /\ mode = "stopping"
  /\ held = Released
  /\ sdk' = IF sdk = <<>> THEN sdk ELSE Tail(sdk)
  /\ mode' = "idle"
  /\ UNCHANGED <<held, events, buffer, poll, handled, asked, stoppedAt>>

(* The program ends by itself and the screen is redrawn.                   *)
ProgramEnds ==
  /\ mode = "running"
  /\ poll = "no"
  /\ mode' = "idle"
  /\ keyBuffer_pop
  /\ UNCHANGED <<held, events, poll, handled, asked, stoppedAt>>

---------------------------------------------------------------------------
Keyboard == KeyUp \/ \E k \in Keys : KeyDown(k)

MainLoop == MainLoopDrains \/ MainLoopHandlesKey \/ MainLoopDropsKeys

Next ==
  \/ Keyboard
  \/ MainLoop
  \/ Redraw
  \/ C47PopKeyNoBuffer
  \/ KeyIsReleased
  \/ KeysArePopped
  \/ exitKeyWaiting
  \/ ComputationEnds
  \/ ProgramPoll
  \/ ProgramStops
  \/ ProgramEnds

(* The program's own steps are taken, a computation ends however often it  *)
(* polls, and a key that went down comes up again.  A program need not end.*)
Fairness ==
  /\ WF_vars(MainLoop)
  /\ WF_vars(KeyIsReleased)
  /\ WF_vars(KeysArePopped)
  /\ WF_vars(exitKeyWaiting \/ ProgramPoll)
  /\ SF_vars(ComputationEnds)
  /\ WF_vars(ProgramStops)
  /\ WF_vars(KeyUp)

Spec == Init /\ [][Next]_vars /\ Fairness

---------------------------------------------------------------------------
Event == [key : Nat, nr : Nat]

(* Every variable has its type.                                            *)
TypeOK ==
  /\ held \in Keys \union {Released}
  /\ events \in 0 .. MaxEvents
  /\ sdk \in Seq(Event)
  /\ buffer \in [data  : [0 .. BufferSize - 1 -> Event],
                 read  : 0 .. BufferSize - 1,
                 write : 0 .. BufferSize - 1]
  /\ mode \in Modes
  /\ poll \in Stages
  /\ handled \in Event
  /\ asked \in BOOLEAN
  /\ stoppedAt \in 0 .. MaxEvents

(***************************************************************************)
(* Keys are never reordered or handled twice, whoever moves them: the one  *)
(* handled last, those in the ring buffer and those in the system's buffer *)
(* are in the order in which they were typed.                              *)
(***************************************************************************)
InTransit == <<handled>> \o Contents(buffer) \o sdk

KeysInOrder ==
  \A i, j \in DOMAIN InTransit : i < j => InTransit[i].nr < InTransit[j].nr

(***************************************************************************)
(* "EXIT (32) or R/S (35) both stop a long computation" (addons.zig): one  *)
(* pressed during the computation stops it at the next poll, even when a   *)
(* redraw has moved it to the ring buffer before, or it goes down while    *)
(* the poll waits for another key to come up.  One pressed after the poll  *)
(* has emptied the system's buffer and before it is over is no such key:   *)
(* exitKeyWaiting may throw it away unread.                                *)
(***************************************************************************)
InterruptStopsComputation ==
  [][asked /\ ~ asked' => mode' # "computing"]_vars

(***************************************************************************)
(* The key that stopped a computation is spent: no EXIT or R/S typed       *)
(* before the stopping poll had emptied the system's buffer is handled     *)
(* afterwards, so that R/S does not start again what it has just stopped   *)
(* (addons.zig, exitKeyWaiting).                                           *)
(***************************************************************************)
InterruptIsSpent ==
  [][handled' # handled /\ handled'.key \in Interrupts
       => handled'.nr > stoppedAt]_vars

(* The main loop or a redraw took e from the system's buffer, and neither  *)
(* the ring buffer nor the main loop has got it.                           *)
Dropped(e) ==
  /\ mode \in {"idle", "taking"}
  /\ e.nr \notin {InTransit'[i].nr : i \in DOMAIN InTransit'}

(* The event before it has not been dropped or spent.                      *)
FollowsKnown(e) == \E i \in DOMAIN InTransit : InTransit[i].nr = e.nr - 1

(***************************************************************************)
(* Typing ahead loses nothing: as long as the event before it is still     *)
(* known of, an event that leaves the system's buffer arrives in the ring  *)
(* buffer, also when that is full at the time.                             *)
(***************************************************************************)
TypedAheadKeysArrive ==
  [][\A i \in DOMAIN sdk : FollowsKnown(sdk[i]) => ~ Dropped(sdk[i])]_vars

(***************************************************************************)
(* No key is left lying in a buffer while the calculator is idle: it is    *)
(* handled, spent or dropped, unless a program runs on.                    *)
(***************************************************************************)
InBuffers(n) ==
  \/ \E i \in DOMAIN sdk : sdk[i].nr = n
  \/ \E i \in DOMAIN Contents(buffer) : Contents(buffer)[i].nr = n

KeysAreTaken ==
  \A n \in 1 .. MaxEvents :
    InBuffers(n) ~> (~ InBuffers(n) \/ mode = "running")
=============================================================================
