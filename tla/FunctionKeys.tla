----------------------------- MODULE FunctionKeys -----------------------------
(***************************************************************************)
(* The six function keys of the firmware: a tap runs the item under the    *)
(* key, a long press climbs a ladder of shifts (none, f, g, NOP), and a    *)
(* second tap within 150 ms goes to g.  Three timers act on it: TO_FN_LONG *)
(* climbs while the key is down, TO_FN_EXEC runs a tap that was not        *)
(* followed by a second one, and TO_FG_TIMR, where FLAG_SHFT_4s is set,    *)
(* takes the shift back 4 s after the fg key, whatever is down then        *)
(* (src/src/core/input/keyboard_state.zig,                                 *)
(* src/src/shell/display/screen.zig).                                      *)
(*                                                                         *)
(* Running an item may bring up any other screen, and with it other rules  *)
(* for the next key.  The timers may expire at any moment they run; one    *)
(* key is down at a time.  The state is one record, `fn`, so that a        *)
(* handler's successive changes are successive operators on it.            *)
(***************************************************************************)
EXTENDS Naturals

CONSTANTS
  Keys,             (* function keys, numbers other than 0                 *)
  BlockedKeys,      (* those of them that BLOCK_DOUBLEPRESS_MENU names     *)
  Screens,          (* what an item may bring up                           *)
  MaxPresses        (* bound on the presses of a behaviour                 *)

ASSUME FunctionKeysAssumption ==
  /\ Keys \subseteq Nat \ {0} /\ BlockedKeys \subseteq Keys
  /\ MaxPresses \in Nat

(* "equation" and "alpha" are the menus that block the double press of     *)
(* some keys; "timer" is the stopwatch menu; "blank" has no menu at all;   *)
(* "browser" stands for the four browsers, "key_entry" for the argument of *)
(* KEY?.                                                                   *)
AllScreens ==
  {"menu", "equation", "alpha", "timer", "blank", "browser", "show", "key_entry"}

ASSUME ScreensAssumption == "menu" \in Screens /\ Screens \subseteq AllScreens

VARIABLES
  fn,        (* the state machine, the shift, the timers, the screen       *)
  presses,   (* number of presses of function keys so far                  *)
  down,      (* the function key that is down, or NoKey                    *)
  setting,   (* FLAG_G_DOUBLETAP and LongPressF                            *)
  swallowed  (* a release was not taken, and its ladder is still on        *)

vars == <<fn, presses, down, setting, swallowed>>

NoKey == 0
(* The shifts are numbers, as the rows of a menu are: an item is found at  *)
(* the row that the shift and the offset of the key number add up to.      *)
none == 0
f == 1
g == 2
NOP == 3
NoTap == [key |-> NoKey, offset |-> none, nr |-> 0, shown |-> none, lapsed |-> FALSE]
Nothing == [key |-> NoKey, row |-> none, nr |-> 0, shown |-> none,
            lapsed |-> FALSE, at_once |-> FALSE]

Init ==
  /\ fn = [FN_state |-> "init", FN_key_pressed |-> NoKey,
           FN_key_pressed_last |-> NoKey, FN_timeouts_in_progress |-> FALSE,
           FN_timed_out_to_NOP_or_Executed |-> FALSE,
           FN_timed_out_to_RELEASE_EXEC |-> FALSE,
           FN_handle_timed_out_to_EXEC |-> FALSE, releaseOverride |-> FALSE,
           shift |-> none, TO_FN_LONG |-> FALSE, TO_FN_EXEC |-> NoTap,
           TO_FG_TIMR |-> FALSE, screen |-> "menu", shown |-> none,
           lapsed |-> FALSE, ran |-> Nothing]
  /\ presses = 0
  /\ down = NoKey
  /\ swallowed = FALSE
  /\ setting \in [G_DOUBLETAP : BOOLEAN, LongPressF : {"F14", "F124", "F1234"}]

---------------------------------------------------------------------------
(* Running an item.  `to` is the screen it leaves; `shown`, kept with each *)
(* tap, is the row whose item the display named when the tap was made;     *)
(* `lapsed` is set when TO_FG_TIMR took the shift back after that.         *)

resetShiftState(m) == [m EXCEPT !.shift = none, !.TO_FG_TIMR = FALSE]

executeFunction(m, tap, to) ==
  LET done == [m EXCEPT !.FN_timed_out_to_NOP_or_Executed = TRUE]
  IN  IF m.screen = "browser" THEN done
      ELSE [resetShiftState(done) EXCEPT
              !.screen = to,
              !.ran = [key |-> tap.key, row |-> tap.offset + m.shift, nr |-> tap.nr,
                       shown |-> tap.shown, lapsed |-> tap.lapsed, at_once |-> FALSE]]

execFnTimeout(m, tap, to) ==
  IF m.FN_timed_out_to_NOP_or_Executed THEN m ELSE executeFunction(m, tap, to)

(* fnTimerExec(TO_FN_EXEC), and the timer's own expiring: a tap that waits *)
(* is run now.                                                             *)
FlushTap(m, to) ==
  IF m.TO_FN_EXEC = NoTap THEN m
  ELSE execFnTimeout([m EXCEPT !.TO_FN_EXEC = NoTap], m.TO_FN_EXEC, to)

---------------------------------------------------------------------------
(* Pressing a function key.                                                *)

DoublePress(m) ==
  /\ setting.G_DOUBLETAP
  /\ ~(m.screen \in {"equation", "alpha"} /\ m.FN_key_pressed \in BlockedKeys)

(* A second press counts as one only while the first tap still waits.      *)
NextState(m) ==
  LET waits == m.TO_FN_EXEC # NoTap
  IN  IF m.FN_state # "rel1" THEN [m EXCEPT !.FN_state = "press1"]
      ELSE IF waits THEN [m EXCEPT !.FN_state = "press2"]
      ELSE [m EXCEPT !.FN_state = "press1", !.FN_timeouts_in_progress = FALSE]

(* What becomes of a tap that waits: another key runs it, the same key     *)
(* takes it over.                                                          *)
DropSlip(m, to) ==
  [m EXCEPT !.TO_FN_EXEC = NoTap,
            !.FN_handle_timed_out_to_EXEC = m.FN_key_pressed_last # m.FN_key_pressed]

WaitingTap(m, to) ==
  IF m.TO_FN_EXEC = NoTap
  THEN [m EXCEPT !.FN_handle_timed_out_to_EXEC = TRUE]
  ELSE IF m.FN_key_pressed_last # m.FN_key_pressed
  THEN [FlushTap(m, to) EXCEPT !.FN_handle_timed_out_to_EXEC = TRUE]
  ELSE [m EXCEPT !.TO_FN_EXEC = NoTap, !.FN_handle_timed_out_to_EXEC = FALSE]

Remember(m) ==
  IF m.FN_state = "press1" THEN [m EXCEPT !.FN_key_pressed_last = m.FN_key_pressed]
  ELSE m

(* In the equation editor the same key takes the tap over without going to *)
(* g.                                                                      *)
DoubleG(before, m) ==
  /\ before.TO_FN_EXEC # NoTap
  /\ before.FN_key_pressed_last = before.FN_key_pressed
  /\ m.screen # "equation"

DoubleClicked(m, double_g) ==
  IF ~DoublePress(m) THEN m
  ELSE IF double_g
  THEN [m EXCEPT !.shift = g, !.FN_handle_timed_out_to_EXEC = FALSE]
  ELSE [m EXCEPT !.FN_timeouts_in_progress = FALSE, !.TO_FN_LONG = FALSE]

StartsLadder(m, double_click_detected) ==
  IF m.FN_timeouts_in_progress /\ ~double_click_detected THEN m
  ELSE [m EXCEPT !.FN_timeouts_in_progress = TRUE, !.TO_FN_LONG = TRUE,
                 !.FN_timed_out_to_NOP_or_Executed = FALSE,
                 !.shown = m.shift, !.lapsed = FALSE]

btnFnPressed_StateMachine(m, to) ==
  LET first == NextState([m EXCEPT !.FN_timed_out_to_RELEASE_EXEC = FALSE])
      settled == Remember(WaitingTap(first, to))
      double_g == DoubleG(first, settled)
  IN  StartsLadder(DoubleClicked(settled, double_g),
                   double_g /\ DoublePress(settled))

OverrideSlip(m, key, nr, to) ==
  LET pressed == [m EXCEPT !.FN_timed_out_to_NOP_or_Executed = FALSE,
                           !.FN_key_pressed = key]
  IN  CASE m.screen = "show" -> [m EXCEPT !.screen = to, !.releaseOverride = TRUE]
        [] m.screen \in {"key_entry", "browser"} -> pressed
        [] OTHER -> btnFnPressed_StateMachine(pressed, to)

(* SHOW is left by any key; the stopwatch menu runs the item of the key at *)
(* once; the browsers and KEY? wait for the release, or for nothing.       *)
btnFnPressed(m, key, nr, to) ==
  LET pressed == [m EXCEPT !.FN_timed_out_to_NOP_or_Executed = FALSE,
                           !.releaseOverride = FALSE, !.FN_key_pressed = key]
  IN  CASE m.screen = "show" -> [m EXCEPT !.screen = to, !.releaseOverride = TRUE]
        [] m.screen = "timer" /\ m.shift # f ->
             [pressed EXCEPT !.releaseOverride = TRUE,
                             !.ran = [key |-> key, row |-> none, nr |-> nr,
                                      shown |-> none, lapsed |-> FALSE,
                                      at_once |-> TRUE]]
        [] m.screen \in {"key_entry", "browser"} -> pressed
        [] OTHER -> btnFnPressed_StateMachine(pressed, to)

---------------------------------------------------------------------------
(* Releasing it.                                                           *)

FN_cancel(m) ==
  [m EXCEPT !.FN_key_pressed = NoKey, !.FN_timeouts_in_progress = FALSE,
            !.TO_FN_LONG = FALSE]

OffsetSlip(m, nr) == [key |-> m.FN_key_pressed, offset |-> none, nr |-> nr,
                      shown |-> m.shown, lapsed |-> m.lapsed]

Tap(m, nr) == [key |-> m.FN_key_pressed, offset |-> m.shift, nr |-> nr,
               shown |-> m.shown, lapsed |-> m.lapsed]

(* A first release, not after a climb, leaves the tap to TO_FN_EXEC.       *)
Delayed(m, nr) ==
  LET released == IF m.FN_state = "press2" THEN "rel2" ELSE "rel1"
  IN  [m EXCEPT !.FN_state = released,
                !.TO_FN_EXEC = IF /\ DoublePress(m) /\ released = "rel1"
                                  /\ m.FN_handle_timed_out_to_EXEC
                               THEN Tap(m, nr) ELSE @]

ShiftSlip(m, nr, to) ==
  LET waits == Delayed(m, nr)
      clicked == IF ~m.FN_timed_out_to_NOP_or_Executed /\ waits.TO_FN_EXEC = NoTap
                 THEN executeFunction(waits, [Tap(m, nr) EXCEPT !.offset = none], to)
                 ELSE waits
  IN  FN_cancel(clicked)

(* Anything else that is not NOP is run at once, at the shift reached.     *)
btnFnReleased_StateMachine(m, nr, to) ==
  LET waits == Delayed(m, nr)
      clicked == IF ~m.FN_timed_out_to_NOP_or_Executed /\ waits.TO_FN_EXEC = NoTap
                 THEN executeFunction(waits, [Tap(m, nr) EXCEPT !.offset = none], to)
                 ELSE waits
      EXEC_pri == m.FN_timeouts_in_progress /\ m.FN_key_pressed # NoKey
  IN  IF \/ m.FN_timed_out_to_RELEASE_EXEC \/ m.FN_timed_out_to_NOP_or_Executed
         \/ EXEC_pri
      THEN FN_cancel(resetShiftState(clicked))
      ELSE waits

btnFnReleased(m, nr, to) ==
  CASE m.screen = "browser" -> m
    [] m.screen = "key_entry" -> [m EXCEPT !.shift = none, !.screen = to]
    [] OTHER -> IF m.releaseOverride THEN m
                ELSE btnFnReleased_StateMachine(m, nr, to)

---------------------------------------------------------------------------
(* The ladder.                                                             *)

StepTo(m, shift) ==
  [m EXCEPT !.shift = shift, !.FN_timed_out_to_RELEASE_EXEC = TRUE,
            !.TO_FN_LONG = TRUE, !.shown = shift, !.lapsed = FALSE]

FN_handler_StepToNOP(m) ==
  [m EXCEPT !.FN_timed_out_to_NOP_or_Executed = TRUE, !.shown = NOP, !.lapsed = FALSE,
            !.FN_timeouts_in_progress = FALSE, !.TO_FN_LONG = FALSE]

Climb(m) ==
  CASE m.shift = none -> IF setting.LongPressF = "F14" THEN FN_handler_StepToNOP(m)
                         ELSE StepTo(m, f)
    [] m.shift = f -> CASE setting.LongPressF = "F1234" -> StepTo(m, g)
                        [] setting.LongPressF = "F124" -> FN_handler_StepToNOP(m)
                        [] OTHER -> m
    [] OTHER -> FN_handler_StepToNOP(m)

FN_handler(m) ==
  IF /\ m.FN_state \in {"press1", "press2"} /\ m.FN_timeouts_in_progress
     /\ m.FN_key_pressed # NoKey /\ m.screen # "blank"
  THEN Climb([m EXCEPT !.FN_handle_timed_out_to_EXEC = FALSE])
  ELSE m

---------------------------------------------------------------------------
Press(key) ==
  /\ down = NoKey /\ presses < MaxPresses
  /\ \E to \in Screens : fn' = btnFnPressed(fn, key, presses + 1, to)
  /\ down' = key
  /\ presses' = presses + 1
  /\ UNCHANGED <<setting, swallowed>>

Release ==
  /\ down # NoKey
  /\ \E to \in Screens : fn' = btnFnReleased(fn, presses, to)
  /\ down' = NoKey
  /\ swallowed' = (fn'.FN_timeouts_in_progress
                   /\ (swallowed \/ fn.screen \in {"browser", "key_entry"}))
  /\ UNCHANGED <<presses, setting>>

ExecTimeout ==
  /\ fn.TO_FN_EXEC # NoTap
  /\ \E to \in Screens : fn' = FlushTap(fn, to)
  /\ UNCHANGED <<presses, down, setting, swallowed>>

LongTimeout ==
  /\ fn.TO_FN_LONG
  /\ fn' = FN_handler([fn EXCEPT !.TO_FN_LONG = FALSE])
  /\ UNCHANGED <<presses, down, setting, swallowed>>

(* Shft_stop: the name on the display stays.                               *)
ShiftTimeout ==
  /\ fn.TO_FG_TIMR
  /\ fn' = [resetShiftState(fn) EXCEPT
              !.lapsed = @ \/ (down # NoKey /\ fn.shift # none)]
  /\ UNCHANGED <<presses, down, setting, swallowed>>

(* The screens there may be after a tap that waits has been run.           *)
ScreensAfterTap == IF fn.TO_FN_EXEC = NoTap THEN {fn.screen} ELSE Screens

(* Any other key: determineItem runs the tap that waits before anything    *)
(* else, and Setup_MultiPresses stops the ladder, except on the SHOW       *)
(* screen; then the key sets a shift, and fg may start TO_FG_TIMR, which f *)
(* and g leave as it is; or its item is run.                               *)
OtherKey ==
  /\ down = NoKey
  /\ \E to \in ScreensAfterTap :
       LET m == FlushTap(fn, to)
           stopped == [m EXCEPT !.TO_FN_LONG = @ /\ m.screen = "show"]
       IN  \/ \E shift \in {none, f, g}, fg \in BOOLEAN :
                fn' = [stopped EXCEPT !.shift = shift, !.TO_FG_TIMR = @ \/ fg]
           \/ \E s \in Screens : fn' = [resetShiftState(stopped) EXCEPT !.screen = s]
  /\ UNCHANGED <<presses, down, setting, swallowed>>

Next ==
  \/ \E key \in Keys : Press(key)
  \/ Release
  \/ ExecTimeout
  \/ LongTimeout
  \/ ShiftTimeout
  \/ OtherKey

Spec == Init /\ [][Next]_vars

---------------------------------------------------------------------------
(* Types; shift and the offset of a waiting tap together name a row of the *)
(* menu.                                                                   *)
TypeOK ==
  /\ fn.FN_state \in {"init", "press1", "rel1", "press2", "rel2"}
  /\ fn.FN_key_pressed \in Keys \cup {NoKey}
  /\ fn.FN_key_pressed_last \in Keys \cup {NoKey}
  /\ fn.shift \in {none, f, g} /\ fn.shown \in {none, f, g, NOP}
  /\ fn.screen \in Screens
  /\ fn.TO_FN_EXEC \in [key : Keys, offset : {none, f, g}, nr : 1 .. MaxPresses,
                        shown : {none, f, g}, lapsed : BOOLEAN] \cup {NoTap}
  /\ fn.ran.row \in {none, f, g}

(***************************************************************************)
(* A press runs the item whose name the display showed last for it: the    *)
(* shift a tap had when it was made, though it is run later and the shift  *)
(* keys work in between; the rung a long press had reached; g for a double *)
(* press; and nothing for one held until NOP.  Two exceptions: a press     *)
(* after one whose item brought up a screen that takes no releases, with   *)
(* the ladder of that one still on; and a key held while TO_FG_TIMR takes  *)
(* the shift back, which runs the unshifted item under the shifted one's   *)
(* name.                                                                   *)
(***************************************************************************)
RunsWhatWasShown ==
  [][fn'.ran # fn.ran =>
       \/ fn'.ran.row = fn'.ran.shown
       \/ fn'.ran.lapsed /\ fn'.ran.row = none
       \/ swallowed]_vars

(***************************************************************************)
(* Items are run in the order of the presses, no press is run twice, and a *)
(* tap that waits for TO_FN_EXEC is not forgotten: it stops waiting when   *)
(* it is run or when the same key is pressed again, which goes to g.       *)
(* Two exceptions: the stopwatch menu runs a press at once, ahead of a tap *)
(* that waits; the equation editor loses a tap when the same key is        *)
(* pressed again, which does not go to g there.                            *)
(***************************************************************************)
TapsRunInOrder ==
  [][/\ fn'.ran # fn.ran => fn'.ran.nr > fn.ran.nr \/ fn.ran.at_once
     /\ fn.TO_FN_EXEC # NoTap /\ fn'.TO_FN_EXEC = NoTap =>
          \/ fn'.ran.nr = fn.TO_FN_EXEC.nr
          \/ /\ down' = fn.TO_FN_EXEC.key
             /\ fn'.shift = g \/ fn.screen = "equation"]_vars

(***************************************************************************)
(* TO_FN_LONG climbs the ladder only while a function key is down: the end *)
(* of every press takes the key off it, also when the tap still waits or   *)
(* the press before was swallowed by SHOW or the stopwatch.  The exception *)
(* is again a release that a browser or KEY? did not take.                 *)
(***************************************************************************)
LadderWhileDown ==
  [][down = NoKey /\ down' = NoKey /\ ~swallowed => fn'.shown = fn.shown]_vars

=============================================================================
