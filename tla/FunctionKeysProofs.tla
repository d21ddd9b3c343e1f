-------------------------- MODULE FunctionKeysProofs --------------------------
(***************************************************************************)
(* The function keys for any set of keys, any screens an item may bring up *)
(* and any number of presses.  The properties are about a few bits of one  *)
(* record, and each needs to know in which combinations the bits occur:    *)
(* what a tap that waits excludes (TapWaits), what a key that is down      *)
(* implies (PressOn), and when the ladder can be on (LadderOff).           *)
(***************************************************************************)
EXTENDS FunctionKeys, TLAPS

Taps ==
  [key : Keys, offset : {none, f, g}, nr : 1 .. MaxPresses, shown : {none, f, g},
   lapsed : BOOLEAN]

Runs ==
  [key : Keys, row : {none, f, g}, nr : 1 .. MaxPresses, shown : {none, f, g, NOP},
   lapsed : BOOLEAN, at_once : BOOLEAN]

Machine ==
  [FN_state : {"init", "press1", "rel1", "press2", "rel2"},
   FN_key_pressed : Keys \cup {NoKey}, FN_key_pressed_last : Keys \cup {NoKey},
   FN_timeouts_in_progress : BOOLEAN, FN_timed_out_to_NOP_or_Executed : BOOLEAN,
   FN_timed_out_to_RELEASE_EXEC : BOOLEAN, FN_handle_timed_out_to_EXEC : BOOLEAN,
   releaseOverride : BOOLEAN, shift : {none, f, g}, TO_FN_LONG : BOOLEAN,
   TO_FN_EXEC : Taps \cup {NoTap}, TO_FG_TIMR : BOOLEAN, screen : Screens,
   shown : {none, f, g, NOP}, lapsed : BOOLEAN, ran : Runs \cup {Nothing}]

---------------------------------------------------------------------------
(* The parts of the inductive invariant.  Those about the machine take it  *)
(* as a parameter: a handler goes through several of them in one step.     *)

Types ==
  /\ fn \in Machine
  /\ presses \in 0 .. MaxPresses
  /\ down \in Keys \cup {NoKey}
  /\ setting \in [G_DOUBLETAP : BOOLEAN, LongPressF : {"F14", "F124", "F1234"}]
  /\ swallowed \in BOOLEAN

(* A row is the one shown, or TO_FG_TIMR has taken the shift back since.   *)
AsShown(row, it) == row = it.shown \/ (it.lapsed /\ row = none)
USE DEF AsShown

(* A tap waits only where it can be run or taken over as it was made: no   *)
(* shift, its screen still there, its key the last one, not run before.    *)
TapWaits(m) ==
  m.TO_FN_EXEC # NoTap =>
    /\ m.screen \notin {"show", "browser", "key_entry"}
    /\ m.FN_state = "rel1" /\ m.shift = none
    /\ ~m.FN_timed_out_to_NOP_or_Executed
    /\ AsShown(m.TO_FN_EXEC.offset, m.TO_FN_EXEC)
    /\ m.TO_FN_EXEC.key = m.FN_key_pressed_last
    /\ setting.G_DOUBLETAP
    /\ ~(m.screen \in {"equation", "alpha"} /\ m.TO_FN_EXEC.key \in BlockedKeys)
    /\ m.TO_FN_EXEC.nr > m.ran.nr \/ m.ran.at_once

(* A key is down and its release will be taken.                            *)
Held == down # NoKey /\ ~fn.releaseOverride

(* The machine knows the key that is down, and no tap waits by then.       *)
KeyKnown ==
  /\ Held => fn.FN_key_pressed = down /\ fn.TO_FN_EXEC = NoTap

(* With no key down the ladder is off.                                     *)
LadderOff == ~Held /\ ~swallowed => ~fn.FN_timeouts_in_progress

(* While a key is down it is on the ladder, or has left it at NOP, and the *)
(* shift is the one shown unless TO_FG_TIMR has taken it back.  The last   *)
(* conjunct is about a first press: it will leave a tap behind.            *)
PressOn(m) ==
  /\ m.FN_state \in {"press1", "press2"}
  /\ m.FN_timed_out_to_NOP_or_Executed \/ m.FN_timeouts_in_progress
  /\ ~m.FN_timed_out_to_NOP_or_Executed /\ ~swallowed => AsShown(m.shift, m)
  /\ m.FN_state = "press1" => m.FN_key_pressed_last = m.FN_key_pressed
  /\ m.FN_state = "press1" /\ m.FN_handle_timed_out_to_EXEC /\ DoublePress(m) =>
       /\ AsShown(m.shift, m) /\ m.shown # NOP
       /\ ~m.FN_timed_out_to_NOP_or_Executed
       /\ m.screen # "show"

LadderOn ==
  Held /\ fn.screen \notin {"browser", "key_entry"} => PressOn(fn)

(* The presses that are run, that wait and that are down come in this      *)
(* order.                                                                  *)
Counted ==
  /\ fn.ran.nr <= presses /\ (Held => fn.ran.nr < presses)
  /\ fn.TO_FN_EXEC.nr <= presses
  /\ down # NoKey => presses >= 1

Inv ==
  Types /\ TapWaits(fn) /\ KeyKnown /\ LadderOff /\ LadderOn /\ Counted

---------------------------------------------------------------------------
(* The operators on the machine.                                           *)

LEMMA NoTapIsNone == NoTap \notin Taps
BY FunctionKeysAssumption DEF NoTap, Taps, NoKey

(* A tap that waits is run, at the row of its own offset.                  *)
LEMMA FlushRuns ==
  ASSUME NEW m \in Machine, NEW to \in Screens, m.TO_FN_EXEC # NoTap,
         m.screen # "browser", m.shift = none, ~m.FN_timed_out_to_NOP_or_Executed,
         AsShown(m.TO_FN_EXEC.offset, m.TO_FN_EXEC)
  PROVE  /\ FlushTap(m, to) \in Machine
         /\ FlushTap(m, to) =
              [m EXCEPT !.TO_FN_EXEC = NoTap, !.shift = none, !.TO_FG_TIMR = FALSE,
                          !.screen = to,
                        !.FN_timed_out_to_NOP_or_Executed = TRUE,
                        !.ran = [key |-> m.TO_FN_EXEC.key,
                                 row |-> m.TO_FN_EXEC.offset,
                                 nr |-> m.TO_FN_EXEC.nr,
                                 shown |-> m.TO_FN_EXEC.shown,
                                 lapsed |-> m.TO_FN_EXEC.lapsed, at_once |-> FALSE]]
<1>1. m.TO_FN_EXEC \in Taps
  BY DEF Machine
<1>2. m.TO_FN_EXEC.offset + m.shift = m.TO_FN_EXEC.offset
  BY <1>1 DEF Taps, none, f, g
<1> DEFINE m1 == [m EXCEPT !.TO_FN_EXEC = NoTap]
<1>3. /\ FlushTap(m, to) = execFnTimeout(m1, m.TO_FN_EXEC, to)
      /\ ~m1.FN_timed_out_to_NOP_or_Executed /\ m1.screen # "browser"
      /\ m1.shift = m.shift
  BY DEF FlushTap, Machine
<1>4. FlushTap(m, to) = executeFunction(m1, m.TO_FN_EXEC, to)
  BY <1>3 DEF execFnTimeout
<1> DEFINE it == [key |-> m.TO_FN_EXEC.key, row |-> m.TO_FN_EXEC.offset,
                  nr |-> m.TO_FN_EXEC.nr, shown |-> m.TO_FN_EXEC.shown,
                  lapsed |-> m.TO_FN_EXEC.lapsed,
                  at_once |-> FALSE]
           r == [m EXCEPT !.TO_FN_EXEC = NoTap, !.shift = none, !.TO_FG_TIMR = FALSE,
                          !.screen = to,
                          !.FN_timed_out_to_NOP_or_Executed = TRUE, !.ran = it]
<1>5. it \in Runs
  BY <1>1 DEF Taps, Runs
<1>6. r \in Machine
  BY <1>5 DEF Machine
<1>7. executeFunction(m1, m.TO_FN_EXEC, to) =
        [[m1 EXCEPT !.FN_timed_out_to_NOP_or_Executed = TRUE]
           EXCEPT !.shift = none, !.TO_FG_TIMR = FALSE, !.screen = to, !.ran = it]
  BY <1>2, <1>3 DEF executeFunction, resetShiftState
<1>8. executeFunction(m1, m.TO_FN_EXEC, to) = r
  <2> HIDE DEF it
  <2> QED BY <1>7 DEF Machine
<1> QED BY <1>4, <1>6, <1>8

(* What a press leaves when no tap waits: the first press of a pair, with  *)
(* the ladder begun anew unless an earlier one was still on.               *)
LEMMA FirstPress ==
  ASSUME NEW m \in Machine, NEW to \in Screens, m.TO_FN_EXEC = NoTap,
         m.screen # "show", ~swallowed => ~m.FN_timeouts_in_progress,
         ~m.FN_timed_out_to_NOP_or_Executed
  PROVE  LET r == btnFnPressed_StateMachine(m, to)
         IN  /\ r \in Machine /\ r.TO_FN_EXEC = NoTap
             /\ r.FN_key_pressed = m.FN_key_pressed
             /\ r.releaseOverride = m.releaseOverride
             /\ r.screen = m.screen /\ r.ran = m.ran
             /\ PressOn(r)
<1> DEFINE m0 == [m EXCEPT !.FN_timed_out_to_RELEASE_EXEC = FALSE]
           first == NextState(m0)
           wait == WaitingTap(first, to)
           settled == Remember(wait)
           clicked == DoubleClicked(settled, FALSE)
           r == StartsLadder(clicked, FALSE)
<1>1. m0 \in Machine /\ m0.TO_FN_EXEC = NoTap
  BY DEF Machine
<1>2. /\ first \in Machine /\ first.TO_FN_EXEC = NoTap /\ first.FN_state = "press1"
      /\ first.FN_key_pressed = m.FN_key_pressed /\ first.screen = m.screen
      /\ first.releaseOverride = m.releaseOverride /\ first.ran = m.ran
      /\ first.shift = m.shift
      /\ ~swallowed => ~first.FN_timeouts_in_progress
      /\ ~first.FN_timed_out_to_NOP_or_Executed
  BY <1>1 DEF NextState, Machine
<1> HIDE DEF first
<1>3. /\ wait \in Machine /\ wait.TO_FN_EXEC = NoTap /\ wait.FN_state = "press1"
      /\ wait.FN_key_pressed = m.FN_key_pressed /\ wait.screen = m.screen
      /\ wait.releaseOverride = m.releaseOverride /\ wait.ran = m.ran
      /\ wait.shift = m.shift
      /\ ~swallowed => ~wait.FN_timeouts_in_progress
      /\ ~wait.FN_timed_out_to_NOP_or_Executed
  BY <1>2 DEF WaitingTap, Machine
<1> HIDE DEF wait
<1>4. /\ settled \in Machine /\ settled.TO_FN_EXEC = NoTap
      /\ settled.FN_state = "press1" /\ settled.FN_key_pressed_last = m.FN_key_pressed
      /\ settled.FN_key_pressed = m.FN_key_pressed /\ settled.screen = m.screen
      /\ settled.releaseOverride = m.releaseOverride /\ settled.ran = m.ran
      /\ settled.shift = m.shift
      /\ ~swallowed => ~settled.FN_timeouts_in_progress
      /\ ~settled.FN_timed_out_to_NOP_or_Executed
  BY <1>3 DEF Remember, Machine
<1> HIDE DEF settled
<1>5. /\ clicked \in Machine /\ clicked.TO_FN_EXEC = NoTap
      /\ clicked.FN_state = "press1" /\ clicked.FN_key_pressed_last = m.FN_key_pressed
      /\ clicked.FN_key_pressed = m.FN_key_pressed /\ clicked.screen = m.screen
      /\ clicked.releaseOverride = m.releaseOverride /\ clicked.ran = m.ran
      /\ clicked.shift = m.shift
      /\ ~swallowed \/ DoublePress(clicked) => ~clicked.FN_timeouts_in_progress
      /\ ~clicked.FN_timed_out_to_NOP_or_Executed
  <2>1. CASE DoublePress(settled)
    <3>1. clicked = [settled EXCEPT !.FN_timeouts_in_progress = FALSE,
                                    !.TO_FN_LONG = FALSE]
      BY <2>1 DEF DoubleClicked
    <3> HIDE DEF clicked
    <3> QED BY <1>4, <3>1 DEF Machine
  <2>2. CASE ~DoublePress(settled)
    <3>1. clicked = settled
      BY <2>2 DEF DoubleClicked
    <3> QED BY <1>4, <2>2, <3>1
  <2> QED BY <2>1, <2>2
<1> HIDE DEF clicked
<1>6. /\ r \in Machine /\ r.TO_FN_EXEC = NoTap
      /\ r.FN_state = "press1" /\ r.FN_key_pressed_last = m.FN_key_pressed
      /\ r.FN_key_pressed = m.FN_key_pressed /\ r.screen = m.screen
      /\ r.releaseOverride = m.releaseOverride /\ r.ran = m.ran
      /\ r.FN_timeouts_in_progress
      /\ ~swallowed \/ DoublePress(r) => r.shift = r.shown
      /\ ~r.FN_timed_out_to_NOP_or_Executed
  <2>1. CASE clicked.FN_timeouts_in_progress
    <3>1. r = clicked
      BY <2>1 DEF StartsLadder
    <3> QED BY <1>5, <2>1, <3>1
  <2>2. CASE ~clicked.FN_timeouts_in_progress
    <3>1. r = [clicked EXCEPT !.FN_timeouts_in_progress = TRUE, !.TO_FN_LONG = TRUE,
                              !.FN_timed_out_to_NOP_or_Executed = FALSE,
                              !.shown = clicked.shift, !.lapsed = FALSE]
      BY <2>2 DEF StartsLadder
    <3> HIDE DEF r
    <3> QED BY <1>5, <3>1 DEF Machine
  <2> QED BY <2>1, <2>2
<1>7. btnFnPressed_StateMachine(m, to) = r
  BY <1>2 DEF btnFnPressed_StateMachine, DoubleG, first, wait, settled, clicked
<1> HIDE DEF r
<1>8. r.shift # NOP
  BY <1>6 DEF Machine, none, f, g, NOP
<1> QED BY <1>6, <1>7, <1>8 DEF PressOn

(* What a press leaves when a tap waits: another key has run the tap, the  *)
(* same key has taken it over and goes to g, except in the equation        *)
(* editor.                                                                 *)
LEMMA SecondPress ==
  ASSUME NEW m \in Machine, NEW to \in Screens, TapWaits(m), m.TO_FN_EXEC # NoTap,
         ~swallowed => ~m.FN_timeouts_in_progress
  PROVE  LET r == btnFnPressed_StateMachine(m, to)
         IN  /\ r \in Machine /\ r.TO_FN_EXEC = NoTap
             /\ r.FN_key_pressed = m.FN_key_pressed
             /\ r.releaseOverride = m.releaseOverride
             /\ PressOn(r)
             /\ \/ /\ m.FN_key_pressed_last # m.FN_key_pressed
                   /\ r.ran = [key |-> m.TO_FN_EXEC.key, row |-> m.TO_FN_EXEC.offset,
                               nr |-> m.TO_FN_EXEC.nr,
                               shown |-> m.TO_FN_EXEC.shown,
                               lapsed |-> m.TO_FN_EXEC.lapsed, at_once |-> FALSE]
                \/ /\ m.FN_key_pressed_last = m.FN_key_pressed
                   /\ r.ran = m.ran
                   /\ r.shift = g \/ m.screen = "equation"
<1> DEFINE m0 == [m EXCEPT !.FN_timed_out_to_RELEASE_EXEC = FALSE]
           first == NextState(m0)
           wait == WaitingTap(first, to)
           settled == Remember(wait)
           dg == DoubleG(first, settled)
           clicked == DoubleClicked(settled, dg)
           r == StartsLadder(clicked, dg /\ DoublePress(settled))
           it == [key |-> m.TO_FN_EXEC.key, row |-> m.TO_FN_EXEC.offset,
                  nr |-> m.TO_FN_EXEC.nr, shown |-> m.TO_FN_EXEC.shown,
                  lapsed |-> m.TO_FN_EXEC.lapsed,
                  at_once |-> FALSE]
<1>0. btnFnPressed_StateMachine(m, to) = r
  BY DEF btnFnPressed_StateMachine
<1>1. m0 \in Machine /\ m0.TO_FN_EXEC # NoTap /\ m0.FN_state = "rel1"
  BY DEF Machine, TapWaits
<1>2. first = [m0 EXCEPT !.FN_state = "press2"]
  BY <1>1 DEF NextState
<1>3. /\ first \in Machine /\ first.TO_FN_EXEC = m.TO_FN_EXEC /\ first.FN_state = "press2"
      /\ first.FN_key_pressed = m.FN_key_pressed /\ first.screen = m.screen
      /\ first.FN_key_pressed_last = m.FN_key_pressed_last
      /\ first.releaseOverride = m.releaseOverride /\ first.ran = m.ran
      /\ first.shift = m.shift
      /\ ~swallowed => ~first.FN_timeouts_in_progress
      /\ first.FN_timed_out_to_NOP_or_Executed = m.FN_timed_out_to_NOP_or_Executed
  BY <1>1, <1>2, ZenonT(40) DEF Machine
<1> HIDE DEF first, m0
<1>4. CASE m.FN_key_pressed_last # m.FN_key_pressed
  <2>1. /\ FlushTap(first, to) \in Machine
        /\ FlushTap(first, to) =
              [first EXCEPT !.TO_FN_EXEC = NoTap, !.shift = none, !.TO_FG_TIMR = FALSE,
                          !.screen = to,
                        !.FN_timed_out_to_NOP_or_Executed = TRUE, !.ran = it]
    <3>1. /\ first.screen # "browser" /\ first.shift = none
          /\ ~first.FN_timed_out_to_NOP_or_Executed
          /\ AsShown(first.TO_FN_EXEC.offset, first.TO_FN_EXEC)
      BY <1>3 DEF TapWaits
    <3>2. first.TO_FN_EXEC # NoTap
      BY <1>3
    <3> DEFINE it1 == [key |-> first.TO_FN_EXEC.key, row |-> first.TO_FN_EXEC.offset,
                       nr |-> first.TO_FN_EXEC.nr,
                       shown |-> first.TO_FN_EXEC.shown,
                       lapsed |-> first.TO_FN_EXEC.lapsed, at_once |-> FALSE]
    <3>3. /\ FlushTap(first, to) \in Machine
          /\ FlushTap(first, to) =
              [first EXCEPT !.TO_FN_EXEC = NoTap, !.shift = none, !.TO_FG_TIMR = FALSE,
                          !.screen = to,
                        !.FN_timed_out_to_NOP_or_Executed = TRUE, !.ran = it1]
      BY <1>3, <3>1, <3>2, FlushRuns
    <3>4. it1 = it
      BY <1>3
    <3> QED BY <3>3, <3>4
  <2>2. /\ wait \in Machine /\ wait.TO_FN_EXEC = NoTap /\ wait.FN_state = "press2"
        /\ wait.FN_key_pressed = m.FN_key_pressed /\ wait.ran = it
        /\ wait.releaseOverride = m.releaseOverride
        /\ ~swallowed => ~wait.FN_timeouts_in_progress
    <3>1. wait = [FlushTap(first, to) EXCEPT !.FN_handle_timed_out_to_EXEC = TRUE]
      BY <1>3, <1>4 DEF WaitingTap
    <3>2. PICK x \in Machine : x = FlushTap(first, to)
      BY <2>1
    <3>3. /\ x.TO_FN_EXEC = NoTap /\ x.FN_state = "press2"
          /\ x.FN_key_pressed = m.FN_key_pressed /\ x.ran = it
          /\ x.releaseOverride = m.releaseOverride
          /\ ~swallowed => ~x.FN_timeouts_in_progress
      <4> HIDE DEF it
      <4> QED BY <1>3, <2>1, <3>2 DEF Machine
    <3> HIDE DEF it, wait
    <3> QED BY <3>1, <3>2, <3>3 DEF Machine
  <2> HIDE DEF wait
  <2>3. settled = wait /\ dg = FALSE
    BY <1>3, <1>4, <2>2 DEF Remember, DoubleG
  <2>4. /\ clicked \in Machine /\ clicked.TO_FN_EXEC = NoTap
        /\ clicked.FN_state = "press2" /\ clicked.ran = it
        /\ clicked.FN_key_pressed = m.FN_key_pressed
        /\ clicked.releaseOverride = m.releaseOverride
        /\ ~swallowed => ~clicked.FN_timeouts_in_progress
    <3>1. \/ clicked = wait
          \/ clicked = [wait EXCEPT !.FN_timeouts_in_progress = FALSE,
                                   !.TO_FN_LONG = FALSE]
      BY <2>3 DEF DoubleClicked
    <3> HIDE DEF it, clicked
    <3>2. CASE clicked = wait
      BY <2>2, <3>2
    <3>3. CASE clicked # wait
      BY <2>2, <3>1, <3>3 DEF Machine
    <3> QED BY <3>2, <3>3
  <2>5. r = StartsLadder(clicked, FALSE)
    BY <2>3
  <2> HIDE DEF clicked, r, it
  <2>6. /\ r \in Machine /\ r.TO_FN_EXEC = NoTap
        /\ r.FN_state = "press2" /\ r.ran = it
        /\ r.FN_key_pressed = m.FN_key_pressed
        /\ r.releaseOverride = m.releaseOverride
        /\ r.FN_timeouts_in_progress
        /\ ~swallowed => r.shift = r.shown
    <3>1. CASE clicked.FN_timeouts_in_progress
      BY <2>4, <2>5, <3>1 DEF StartsLadder
    <3>2. CASE ~clicked.FN_timeouts_in_progress
      <4>1. r = [clicked EXCEPT !.FN_timeouts_in_progress = TRUE, !.TO_FN_LONG = TRUE,
                                !.FN_timed_out_to_NOP_or_Executed = FALSE,
                                !.shown = clicked.shift, !.lapsed = FALSE]
        BY <2>5, <3>2 DEF StartsLadder
      <4> QED BY <2>4, <4>1 DEF Machine
    <3> QED BY <3>1, <3>2
  <2>7. PressOn(r)
    BY <2>6 DEF PressOn
  <2> QED BY <1>0, <1>4, <2>6, <2>7 DEF it
<1>5. CASE m.FN_key_pressed_last = m.FN_key_pressed
  <2>1. wait = [first EXCEPT !.TO_FN_EXEC = NoTap,
                             !.FN_handle_timed_out_to_EXEC = FALSE]
    BY <1>3, <1>5 DEF WaitingTap
  <2> HIDE DEF wait
  <2>2. /\ wait \in Machine /\ wait.TO_FN_EXEC = NoTap /\ wait.FN_state = "press2"
        /\ wait.FN_key_pressed = m.FN_key_pressed /\ wait.ran = m.ran
        /\ wait.releaseOverride = m.releaseOverride /\ wait.screen = m.screen
        /\ ~swallowed => ~wait.FN_timeouts_in_progress
    BY <1>3, <2>1 DEF Machine
  <2>3. settled = wait
    BY <2>2 DEF Remember
  <2>4. DoublePress(settled)
    BY <1>5, <2>2, <2>3 DEF DoublePress, TapWaits
  <2>5. dg <=> m.screen # "equation"
    BY <1>3, <1>5, <2>2, <2>3 DEF DoubleG
  <2> HIDE DEF settled, dg
  <2>6. /\ clicked \in Machine /\ clicked.TO_FN_EXEC = NoTap
        /\ clicked.FN_state = "press2" /\ clicked.ran = m.ran
        /\ clicked.FN_key_pressed = m.FN_key_pressed
        /\ clicked.releaseOverride = m.releaseOverride
        /\ clicked.shift = g \/ m.screen = "equation"
        /\ ~dg => ~clicked.FN_timeouts_in_progress
    <3>1. CASE dg
      <4>1. clicked = [wait EXCEPT !.shift = g, !.FN_handle_timed_out_to_EXEC = FALSE]
        BY <2>3, <2>4, <3>1 DEF DoubleClicked
      <4> HIDE DEF clicked
      <4> QED BY <2>2, <3>1, <4>1 DEF Machine
    <3>2. CASE ~dg
      <4>1. clicked = [wait EXCEPT !.FN_timeouts_in_progress = FALSE,
                                   !.TO_FN_LONG = FALSE]
        BY <2>3, <2>4, <3>2 DEF DoubleClicked
      <4> HIDE DEF clicked
      <4> QED BY <2>2, <2>5, <3>2, <4>1 DEF Machine
    <3> QED BY <3>1, <3>2
  <2> HIDE DEF clicked
  <2>7. r = [clicked EXCEPT !.FN_timeouts_in_progress = TRUE, !.TO_FN_LONG = TRUE,
                            !.FN_timed_out_to_NOP_or_Executed = FALSE,
                            !.shown = clicked.shift, !.lapsed = FALSE]
    BY <2>4, <2>6 DEF StartsLadder
  <2> HIDE DEF r
  <2>8. /\ r \in Machine /\ r.TO_FN_EXEC = NoTap
        /\ r.FN_state = "press2" /\ r.ran = m.ran
        /\ r.FN_key_pressed = m.FN_key_pressed
        /\ r.releaseOverride = m.releaseOverride
        /\ r.FN_timeouts_in_progress /\ AsShown(r.shift, r)
        /\ r.shift = g \/ m.screen = "equation"
    BY <2>6, <2>7 DEF Machine
  <2>9. PressOn(r)
    BY <2>8 DEF PressOn
  <2> QED BY <1>0, <1>5, <2>8, <2>9
<1> QED BY <1>4, <1>5

(* The end of a release takes the shift back and the key off the ladder.   *)
LEMMA CancelKeeps ==
  ASSUME NEW m \in Machine
  PROVE  LET r == FN_cancel(resetShiftState(m))
         IN  /\ r \in Machine /\ ~r.FN_timeouts_in_progress /\ r.shift = none
             /\ r.ran = m.ran /\ r.TO_FN_EXEC = m.TO_FN_EXEC
             /\ r.FN_state = m.FN_state /\ r.screen = m.screen
             /\ r.FN_key_pressed_last = m.FN_key_pressed_last
             /\ r.FN_timed_out_to_NOP_or_Executed = m.FN_timed_out_to_NOP_or_Executed
<1> DEFINE m1 == resetShiftState(m)
<1>1. /\ m1 \in Machine /\ m1.shift = none
      /\ m1.ran = m.ran /\ m1.TO_FN_EXEC = m.TO_FN_EXEC
      /\ m1.FN_state = m.FN_state /\ m1.screen = m.screen
      /\ m1.FN_key_pressed_last = m.FN_key_pressed_last
      /\ m1.FN_timed_out_to_NOP_or_Executed = m.FN_timed_out_to_NOP_or_Executed
  BY DEF resetShiftState, Machine
<1> HIDE DEF m1
<1>2. ASSUME NEW x \in Machine
      PROVE  LET r == FN_cancel(x)
             IN  /\ r \in Machine
                 /\ ~r.FN_timeouts_in_progress /\ r.shift = x.shift
                 /\ r.ran = x.ran /\ r.TO_FN_EXEC = x.TO_FN_EXEC
                 /\ r.FN_state = x.FN_state /\ r.screen = x.screen
                 /\ r.FN_key_pressed_last = x.FN_key_pressed_last
                 /\ r.FN_timed_out_to_NOP_or_Executed
                      = x.FN_timed_out_to_NOP_or_Executed
  <2> DEFINE r == FN_cancel(x)
  <2>1. r = [x EXCEPT !.FN_key_pressed = NoKey, !.FN_timeouts_in_progress = FALSE,
                      !.TO_FN_LONG = FALSE]
    BY DEF FN_cancel
  <2> HIDE DEF r
  <2>2. r \in Machine
    BY <2>1 DEF Machine
  <2>3. /\ ~r.FN_timeouts_in_progress /\ r.shift = x.shift
        /\ r.ran = x.ran /\ r.TO_FN_EXEC = x.TO_FN_EXEC
        /\ r.FN_state = x.FN_state /\ r.screen = x.screen
        /\ r.FN_key_pressed_last = x.FN_key_pressed_last
        /\ r.FN_timed_out_to_NOP_or_Executed = x.FN_timed_out_to_NOP_or_Executed
    BY <2>1 DEF Machine
  <2> QED BY <2>2, <2>3 DEF r
<1>3. m1 \in Machine
  BY <1>1
<1>4. LET r == FN_cancel(m1)
      IN  /\ r \in Machine
          /\ ~r.FN_timeouts_in_progress /\ r.shift = m1.shift
          /\ r.ran = m1.ran /\ r.TO_FN_EXEC = m1.TO_FN_EXEC
          /\ r.FN_state = m1.FN_state /\ r.screen = m1.screen
          /\ r.FN_key_pressed_last = m1.FN_key_pressed_last
          /\ r.FN_timed_out_to_NOP_or_Executed
               = m1.FN_timed_out_to_NOP_or_Executed
  BY ONLY <1>2, <1>3
<1> QED BY <1>1, <1>4 DEF m1

(* What a release leaves: nothing run because NOP was reached, the item of *)
(* the rung reached run at once, or a tap that waits.  The ladder is off   *)
(* in each case.                                                           *)
LEMMA ReleaseEnds ==
  ASSUME NEW m \in Machine, NEW nr \in 1 .. MaxPresses, NEW to \in Screens,
         m.TO_FN_EXEC = NoTap, m.FN_key_pressed # NoKey,
         m.screen \notin {"browser", "key_entry"}, PressOn(m)
  PROVE  LET r == btnFnReleased_StateMachine(m, nr, to)
         IN  /\ r \in Machine /\ ~r.FN_timeouts_in_progress
             /\ \/ r.ran = m.ran /\ r.TO_FN_EXEC = NoTap
                \/ /\ r.ran = [key |-> m.FN_key_pressed, row |-> m.shift, nr |-> nr,
                               shown |-> m.shown, lapsed |-> m.lapsed, at_once |-> FALSE]
                   /\ r.TO_FN_EXEC = NoTap
                   /\ ~m.FN_timed_out_to_NOP_or_Executed
                \/ /\ r.ran = m.ran /\ r.TO_FN_EXEC = Tap(m, nr)
                   /\ r.FN_state = "rel1" /\ r.shift = none /\ r.screen = m.screen
                   /\ r.FN_key_pressed_last = m.FN_key_pressed
                   /\ DoublePress(m) /\ AsShown(m.shift, m) /\ m.screen # "show"
                   /\ ~r.FN_timed_out_to_NOP_or_Executed
<1> DEFINE waits == Delayed(m, nr)
           nop == m.FN_timed_out_to_NOP_or_Executed
           it == [key |-> m.FN_key_pressed, row |-> m.shift, nr |-> nr,
                  shown |-> m.shown, lapsed |-> m.lapsed, at_once |-> FALSE]
           clicked == IF ~nop /\ waits.TO_FN_EXEC = NoTap
                      THEN executeFunction(waits, [Tap(m, nr) EXCEPT !.offset = none], to)
                      ELSE waits
           r == FN_cancel(resetShiftState(clicked))
           left == /\ m.FN_state = "press1" /\ m.FN_handle_timed_out_to_EXEC
                   /\ DoublePress(m)
<1>1. btnFnReleased_StateMachine(m, nr, to) = r
  BY DEF btnFnReleased_StateMachine, PressOn
<1>2. m.FN_key_pressed \in Keys
  BY DEF Machine
<1>3. /\ left => Tap(m, nr) \in Taps /\ Tap(m, nr) # NoTap
      /\ it \in Runs
  <2>1. left => AsShown(m.shift, m) /\ m.shown # NOP
    BY DEF PressOn
  <2>2. /\ m.shift \in {none, f, g} /\ m.shown \in {none, f, g, NOP}
        /\ m.lapsed \in BOOLEAN
    BY DEF Machine
  <2> HIDE DEF left
  <2>3. left => Tap(m, nr) \in Taps
    BY <1>2, <2>1, <2>2 DEF Tap, Taps
  <2>4. it \in Runs
    BY <1>2, <2>2 DEF Runs
  <2> QED BY <2>3, <2>4, NoTapIsNone
<1>4. /\ waits \in Machine /\ waits.FN_state \in {"rel1", "rel2"}
      /\ waits.ran = m.ran /\ waits.screen = m.screen /\ waits.shift = m.shift
      /\ waits.FN_key_pressed_last = m.FN_key_pressed_last
      /\ waits.FN_timed_out_to_NOP_or_Executed = nop
      /\ waits.TO_FN_EXEC = IF left THEN Tap(m, nr) ELSE NoTap
      /\ left => waits.FN_state = "rel1"
  <2> DEFINE released == IF m.FN_state = "press2" THEN "rel2" ELSE "rel1"
  <2>1. waits = [m EXCEPT !.FN_state = released,
                          !.TO_FN_EXEC = IF left THEN Tap(m, nr) ELSE NoTap]
    BY DEF Delayed, PressOn
  <2>2. PICK t \in Taps \cup {NoTap} : t = IF left THEN Tap(m, nr) ELSE NoTap
    BY <1>3
  <2>3. released \in {"rel1", "rel2"} /\ (left => released = "rel1")
    OBVIOUS
  <2> HIDE DEF waits, left, released
  <2>4. waits = [m EXCEPT !.FN_state = released, !.TO_FN_EXEC = t]
    BY <2>1, <2>2
  <2> QED BY <2>2, <2>3, <2>4 DEF Machine
<1> HIDE DEF waits, left
<1>5. CASE left
  <2>1. ~nop /\ clicked = waits /\ waits.TO_FN_EXEC = Tap(m, nr)
    BY <1>3, <1>4, <1>5 DEF PressOn, left
  <2>2. /\ r \in Machine /\ ~r.FN_timeouts_in_progress /\ r.ran = m.ran
        /\ r.TO_FN_EXEC = Tap(m, nr) /\ r.FN_state = "rel1" /\ r.shift = none
        /\ r.screen = m.screen /\ r.FN_key_pressed_last = m.FN_key_pressed_last
        /\ r.FN_timed_out_to_NOP_or_Executed = nop
    <3> HIDE DEF clicked
    <3> QED BY <1>4, <1>5, <2>1, CancelKeeps
  <2>3. AsShown(m.shift, m) /\ m.screen # "show" /\ m.FN_key_pressed_last = m.FN_key_pressed
    BY <1>5 DEF left, PressOn
  <2> QED BY <1>1, <1>5, <2>1, <2>2, <2>3 DEF left
<1>6. CASE ~left /\ nop
  <2>1. clicked = waits
    BY <1>6
  <2>2. /\ r \in Machine /\ ~r.FN_timeouts_in_progress /\ r.ran = m.ran
        /\ r.TO_FN_EXEC = NoTap
    <3> HIDE DEF clicked
    <3> QED BY <1>4, <1>6, <2>1, CancelKeeps
  <2> QED BY <1>1, <2>2
<1>7. CASE ~left /\ ~nop
  <2>1. clicked = executeFunction(waits, [Tap(m, nr) EXCEPT !.offset = none], to)
    BY <1>4, <1>7
  <2>2. [key |-> [Tap(m, nr) EXCEPT !.offset = none].key,
         row |-> [Tap(m, nr) EXCEPT !.offset = none].offset + waits.shift,
         nr |-> [Tap(m, nr) EXCEPT !.offset = none].nr,
         shown |-> [Tap(m, nr) EXCEPT !.offset = none].shown,
         lapsed |-> [Tap(m, nr) EXCEPT !.offset = none].lapsed, at_once |-> FALSE] = it
    <3>1. none + m.shift = m.shift
      BY DEF none, f, g, Machine
    <3> QED BY <1>4, <3>1 DEF Tap
  <2>3. clicked = [[waits EXCEPT !.FN_timed_out_to_NOP_or_Executed = TRUE]
                     EXCEPT !.shift = none, !.TO_FG_TIMR = FALSE, !.screen = to, !.ran = it]
    BY <1>4, <2>1, <2>2 DEF executeFunction, resetShiftState
  <2> HIDE DEF clicked, it
  <2>4. clicked \in Machine /\ clicked.ran = it /\ clicked.TO_FN_EXEC = NoTap
    BY <1>3, <1>4, <1>7, <2>3 DEF Machine
  <2>5. /\ r \in Machine /\ ~r.FN_timeouts_in_progress /\ r.ran = it
        /\ r.TO_FN_EXEC = NoTap
    BY <2>4, CancelKeeps
  <2> QED BY <1>1, <1>7, <2>5 DEF it
<1> QED BY <1>5, <1>6, <1>7

(* A step of the ladder keeps what is known of the press, and a tap that   *)
(* waits stops it.                                                         *)
LEMMA ClimbKeeps ==
  ASSUME NEW m \in Machine,
         setting \in [G_DOUBLETAP : BOOLEAN, LongPressF : {"F14", "F124", "F1234"}]
  PROVE  LET r == FN_handler(m)
         IN  /\ r \in Machine
             /\ r.TO_FN_EXEC = m.TO_FN_EXEC /\ r.ran = m.ran
             /\ r.FN_key_pressed = m.FN_key_pressed /\ r.screen = m.screen
             /\ r.releaseOverride = m.releaseOverride
             /\ r.FN_timeouts_in_progress => m.FN_timeouts_in_progress
             /\ ~m.FN_timeouts_in_progress => r = m
             /\ m.FN_state = "rel1" => r = m
             /\ PressOn(m) => PressOn(r)
<1> DEFINE m1 == [m EXCEPT !.FN_handle_timed_out_to_EXEC = FALSE]
           r == FN_handler(m)
<1>1. m1 \in Machine
  BY DEF Machine
<1>2. CASE r = m
  BY <1>2
<1>3. CASE r # m
  <2>1. /\ m.FN_state \in {"press1", "press2"} /\ m.FN_timeouts_in_progress
        /\ r = Climb(m1)
    BY <1>3 DEF FN_handler
  <2>2. \/ r = m1
        \/ r = FN_handler_StepToNOP(m1)
        \/ \E s \in {f, g} : r = StepTo(m1, s)
    <3>1. setting.LongPressF \in {"F14", "F124", "F1234"}
      OBVIOUS
    <3> HIDE DEF m1, r
    <3> QED BY <2>1, <3>1 DEF Climb
  <2>3. CASE r = m1
    <3> HIDE DEF r
    <3>1. /\ r \in Machine
          /\ r.TO_FN_EXEC = m.TO_FN_EXEC /\ r.ran = m.ran
          /\ r.FN_key_pressed = m.FN_key_pressed /\ r.screen = m.screen
          /\ r.releaseOverride = m.releaseOverride
          /\ r.FN_state = m.FN_state /\ r.FN_key_pressed_last = m.FN_key_pressed_last
          /\ r.shift = m.shift /\ r.shown = m.shown /\ r.lapsed = m.lapsed
          /\ r.FN_timeouts_in_progress = m.FN_timeouts_in_progress
          /\ r.FN_timed_out_to_NOP_or_Executed = m.FN_timed_out_to_NOP_or_Executed
          /\ r.FN_handle_timed_out_to_EXEC = FALSE
      BY <2>3 DEF Machine
    <3> QED BY <2>1, <3>1 DEF PressOn, r
  <2>4. CASE r = FN_handler_StepToNOP(m1)
    <3> HIDE DEF r
    <3>1. /\ r \in Machine
          /\ r.TO_FN_EXEC = m.TO_FN_EXEC /\ r.ran = m.ran
          /\ r.FN_key_pressed = m.FN_key_pressed /\ r.screen = m.screen
          /\ r.releaseOverride = m.releaseOverride
          /\ r.FN_state = m.FN_state /\ r.FN_key_pressed_last = m.FN_key_pressed_last
          /\ r.FN_timeouts_in_progress = FALSE
          /\ r.FN_timed_out_to_NOP_or_Executed = TRUE
          /\ r.FN_handle_timed_out_to_EXEC = FALSE
      BY <2>4 DEF FN_handler_StepToNOP, Machine
    <3> QED BY <2>1, <3>1 DEF PressOn, r
  <2>5. CASE \E s \in {f, g} : r = StepTo(m1, s)
    <3>0. PICK s \in {f, g} : r = StepTo(m1, s)
      BY <2>5
    <3> HIDE DEF r
    <3>1. /\ r \in Machine
          /\ r.TO_FN_EXEC = m.TO_FN_EXEC /\ r.ran = m.ran
          /\ r.FN_key_pressed = m.FN_key_pressed /\ r.screen = m.screen
          /\ r.releaseOverride = m.releaseOverride
          /\ r.FN_state = m.FN_state /\ r.FN_key_pressed_last = m.FN_key_pressed_last
          /\ AsShown(r.shift, r)
          /\ r.FN_timeouts_in_progress = m.FN_timeouts_in_progress
          /\ r.FN_timed_out_to_NOP_or_Executed = m.FN_timed_out_to_NOP_or_Executed
          /\ r.FN_handle_timed_out_to_EXEC = FALSE
      BY <3>0 DEF StepTo, Machine
    <3> QED BY <2>1, <3>1 DEF PressOn, r
  <2> QED BY <2>2, <2>3, <2>4, <2>5
<1> QED BY <1>2, <1>3

---------------------------------------------------------------------------
(* The steps.  Each keeps the invariant and does what the three action     *)
(* properties ask of it.                                                   *)

ShownIsRun == fn'.ran # fn.ran => AsShown(fn'.ran.row, fn'.ran) \/ swallowed

InOrder ==
  /\ fn'.ran # fn.ran => fn'.ran.nr > fn.ran.nr \/ fn.ran.at_once
  /\ fn.TO_FN_EXEC # NoTap /\ fn'.TO_FN_EXEC = NoTap =>
       \/ fn'.ran.nr = fn.TO_FN_EXEC.nr
       \/ /\ down' = fn.TO_FN_EXEC.key
          /\ fn'.shift = g \/ fn.screen = "equation"

NoClimb == down = NoKey /\ down' = NoKey /\ ~swallowed => fn'.shown = fn.shown

Right == Inv' /\ ShownIsRun /\ InOrder /\ NoClimb

LEMMA NumbersOfRuns ==
  ASSUME Types
  PROVE  /\ fn.ran.nr \in Nat /\ fn.TO_FN_EXEC.nr \in Nat /\ presses \in Nat
         /\ MaxPresses \in Nat
<1>1. fn.ran \in Runs \cup {Nothing} /\ fn.TO_FN_EXEC \in Taps \cup {NoTap}
  BY DEF Types, Machine
<1>2. \A x \in 1 .. MaxPresses : x \in Nat
  BY FunctionKeysAssumption
<1>3. fn.ran.nr \in Nat
  BY <1>1, <1>2 DEF Runs, Nothing
<1>4. fn.TO_FN_EXEC.nr \in Nat
  BY <1>1, <1>2 DEF Taps, NoTap
<1> QED BY <1>3, <1>4, FunctionKeysAssumption DEF Types

LEMMA PressIsRight ==
  ASSUME Inv, NEW key \in Keys, Press(key)
  PROVE  Right
<1>1. /\ down = NoKey /\ presses < MaxPresses /\ down' = key /\ presses' = presses + 1
      /\ setting' = setting /\ swallowed' = swallowed /\ key # NoKey
  BY FunctionKeysAssumption DEF Press, NoKey
<1>2. PICK to \in Screens : fn' = btnFnPressed(fn, key, presses + 1, to)
  BY DEF Press
<1>3. Types /\ fn \in Machine /\ presses + 1 \in 1 .. MaxPresses /\ presses' \in 0 .. MaxPresses
  BY <1>1, FunctionKeysAssumption DEF Inv, Types
<1>4. /\ fn.ran.nr \in Nat /\ fn.TO_FN_EXEC.nr \in Nat /\ presses \in Nat
      /\ fn.ran.nr <= presses /\ fn.TO_FN_EXEC.nr <= presses
  BY <1>3, NumbersOfRuns DEF Inv, Counted
<1>5. ~swallowed => ~fn.FN_timeouts_in_progress
  BY <1>1 DEF Inv, LadderOff, Held
<1>6. fn' \in Machine => Types'
  BY <1>1, <1>3 DEF Types
<1>7. NoClimb
  BY <1>1 DEF NoClimb
<1>8. presses' >= 1 /\ fn.ran.nr <= presses' /\ fn.ran.nr < presses' /\ fn.TO_FN_EXEC.nr <= presses'
      /\ NoTap.nr <= presses'
  BY <1>1, <1>4 DEF NoTap
<1> DEFINE pressed == [fn EXCEPT !.FN_timed_out_to_NOP_or_Executed = FALSE,
                                 !.releaseOverride = FALSE, !.FN_key_pressed = key]
<1>9. /\ pressed \in Machine /\ pressed.TO_FN_EXEC = fn.TO_FN_EXEC
      /\ pressed.FN_key_pressed = key /\ ~pressed.releaseOverride
      /\ pressed.screen = fn.screen /\ pressed.ran = fn.ran /\ pressed.shift = fn.shift
      /\ pressed.FN_state = fn.FN_state
      /\ pressed.FN_key_pressed_last = fn.FN_key_pressed_last
      /\ pressed.FN_timeouts_in_progress = fn.FN_timeouts_in_progress
      /\ ~pressed.FN_timed_out_to_NOP_or_Executed
  BY <1>3 DEF Machine
<1>10. CASE fn.screen = "show"
  <2>1. fn' = [fn EXCEPT !.screen = to, !.releaseOverride = TRUE]
    BY <1>2, <1>10 DEF btnFnPressed
  <2>2. fn.TO_FN_EXEC = NoTap
    BY <1>10 DEF Inv, TapWaits
  <2>3. /\ fn' \in Machine /\ fn'.TO_FN_EXEC = NoTap /\ fn'.releaseOverride
        /\ fn'.ran = fn.ran /\ fn'.FN_timeouts_in_progress = fn.FN_timeouts_in_progress
    BY <1>3, <2>1, <2>2 DEF Machine
  <2> QED
    BY <1>1, <1>5, <1>6, <1>7, <1>8, <2>2, <2>3
    DEF Right, Inv, TapWaits, KeyKnown, LadderOff, LadderOn, Counted, Held,
        ShownIsRun, InOrder
<1>11. CASE fn.screen = "timer" /\ fn.shift # f
  <2> DEFINE it == [key |-> key, row |-> none, nr |-> presses + 1,
                    shown |-> none, lapsed |-> FALSE, at_once |-> TRUE]
  <2>1. fn' = [pressed EXCEPT !.releaseOverride = TRUE, !.ran = it]
    BY <1>2, <1>11 DEF btnFnPressed
  <2>2. it \in Runs /\ AsShown(it.row, it) /\ it.nr = presses + 1 /\ it.at_once
    BY <1>3 DEF Runs
  <2> HIDE DEF pressed, it
  <2>3. /\ fn' \in Machine /\ fn'.TO_FN_EXEC = fn.TO_FN_EXEC /\ fn'.releaseOverride
        /\ fn'.ran = it /\ fn'.FN_timeouts_in_progress = fn.FN_timeouts_in_progress
        /\ fn'.screen = fn.screen /\ fn'.shift = fn.shift /\ fn'.FN_state = fn.FN_state
        /\ fn'.FN_key_pressed_last = fn.FN_key_pressed_last
        /\ ~fn'.FN_timed_out_to_NOP_or_Executed
    BY <1>9, <2>1, <2>2 DEF Machine
  <2>4. TapWaits(fn)'
    BY <1>1, <2>2, <2>3 DEF Inv, TapWaits
  <2>5. presses + 1 > fn.ran.nr /\ presses + 1 <= presses'
    BY <1>1, <1>4
  <2> QED
    BY <1>1, <1>5, <1>6, <1>7, <1>8, <2>2, <2>3, <2>4, <2>5
    DEF Right, Inv, KeyKnown, LadderOff, LadderOn, Counted, Held,
        ShownIsRun, InOrder
<1>12. CASE fn.screen \in {"key_entry", "browser"}
  <2>1. fn' = pressed
    BY <1>2, <1>12 DEF btnFnPressed
  <2>2. fn.TO_FN_EXEC = NoTap
    BY <1>12 DEF Inv, TapWaits
  <2> HIDE DEF pressed
  <2> QED
    BY <1>1, <1>6, <1>7, <1>8, <1>9, <1>12, <2>1, <2>2
    DEF Right, Inv, TapWaits, KeyKnown, LadderOff, LadderOn, Counted, Held,
        ShownIsRun, InOrder
<1>13. CASE /\ fn.screen \notin {"show", "key_entry", "browser"}
            /\ ~(fn.screen = "timer" /\ fn.shift # f)
  <2>1. fn' = btnFnPressed_StateMachine(pressed, to)
    BY <1>2, <1>13 DEF btnFnPressed
  <2> HIDE DEF pressed
  <2>2. PressOn(fn') => PressOn(fn)'
    BY <1>1 DEF PressOn, DoublePress
  <2>3. CASE fn.TO_FN_EXEC = NoTap
    <3>1. /\ fn' \in Machine /\ fn'.TO_FN_EXEC = NoTap
          /\ fn'.FN_key_pressed = key /\ ~fn'.releaseOverride
          /\ fn'.ran = fn.ran /\ PressOn(fn')
      BY <1>5, <1>9, <1>13, <2>1, <2>3, FirstPress
    <3> QED
      BY <1>1, <1>6, <1>7, <1>8, <2>2, <2>3, <3>1
      DEF Right, Inv, TapWaits, KeyKnown, LadderOff, LadderOn, Counted, Held,
          ShownIsRun, InOrder
  <2>4. CASE fn.TO_FN_EXEC # NoTap
    <3>1. TapWaits(pressed)
      BY <1>9, <2>4 DEF Inv, TapWaits
    <3>2. /\ fn' \in Machine /\ fn'.TO_FN_EXEC = NoTap
          /\ fn'.FN_key_pressed = key /\ ~fn'.releaseOverride
          /\ PressOn(fn')
          /\ \/ /\ fn'.ran = [key |-> fn.TO_FN_EXEC.key, row |-> fn.TO_FN_EXEC.offset,
                              nr |-> fn.TO_FN_EXEC.nr,
                              shown |-> fn.TO_FN_EXEC.shown,
                              lapsed |-> fn.TO_FN_EXEC.lapsed, at_once |-> FALSE]
             \/ /\ fn.FN_key_pressed_last = key
                /\ fn'.ran = fn.ran
                /\ fn'.shift = g \/ fn.screen = "equation"
      BY <1>5, <1>9, <1>13, <2>1, <2>4, <3>1, SecondPress
    <3>3. /\ fn.TO_FN_EXEC.key = fn.FN_key_pressed_last
          /\ AsShown(fn.TO_FN_EXEC.offset, fn.TO_FN_EXEC)
          /\ fn.TO_FN_EXEC.nr > fn.ran.nr \/ fn.ran.at_once
      BY <2>4 DEF Inv, TapWaits
    <3>4. \/ /\ fn'.ran.nr = fn.TO_FN_EXEC.nr /\ AsShown(fn'.ran.row, fn'.ran)
          \/ /\ fn.FN_key_pressed_last = key
             /\ fn'.ran = fn.ran
             /\ fn'.shift = g \/ fn.screen = "equation"
      BY <3>2, <3>3
    <3>5. InOrder /\ ShownIsRun
      BY <1>1, <3>3, <3>4 DEF InOrder, ShownIsRun
    <3>6. fn'.ran.nr <= presses' /\ fn'.ran.nr < presses'
      BY <1>1, <1>4, <3>4
    <3> QED
      BY <1>1, <1>6, <1>7, <1>8, <2>2, <3>2, <3>5, <3>6
      DEF Right, Inv, TapWaits, KeyKnown, LadderOff, LadderOn, Counted, Held
  <2> QED BY <2>3, <2>4
<1> QED BY <1>10, <1>11, <1>12, <1>13

LEMMA ReleaseIsRight ==
  ASSUME Inv, Release
  PROVE  Right
<1>1. /\ down # NoKey /\ down' = NoKey /\ presses' = presses /\ setting' = setting
      /\ swallowed' = (fn'.FN_timeouts_in_progress
                       /\ (swallowed \/ fn.screen \in {"browser", "key_entry"}))
  BY DEF Release
<1>2. PICK to \in Screens : fn' = btnFnReleased(fn, presses, to)
  BY DEF Release
<1>3. Types /\ fn \in Machine /\ presses \in 1 .. MaxPresses
  BY <1>1, FunctionKeysAssumption DEF Inv, Types, Counted
<1>4. /\ fn.ran.nr \in Nat /\ fn.TO_FN_EXEC.nr \in Nat /\ presses \in Nat
      /\ fn.ran.nr <= presses /\ fn.TO_FN_EXEC.nr <= presses
  BY <1>3, NumbersOfRuns DEF Inv, Counted
<1>5. swallowed' \in BOOLEAN
  BY <1>1
<1>6. fn' \in Machine => Types'
  BY <1>1, <1>3, <1>5 DEF Types
<1>7. NoClimb
  BY <1>1 DEF NoClimb
<1>8. CASE fn.screen = "browser"
  <2>1. fn' = fn
    BY <1>2, <1>8 DEF btnFnReleased
  <2> QED
    BY <1>1, <1>3, <1>4, <1>6, <1>7, <1>8, <2>1
    DEF Right, Inv, TapWaits, KeyKnown, LadderOff, LadderOn, Counted, Held,
        ShownIsRun, InOrder
<1>9. CASE fn.screen = "key_entry"
  <2>1. fn' = [fn EXCEPT !.shift = none, !.screen = to]
    BY <1>2, <1>9 DEF btnFnReleased
  <2>2. fn.TO_FN_EXEC = NoTap
    BY <1>9 DEF Inv, TapWaits
  <2>3. fn' \in Machine /\ fn'.TO_FN_EXEC = NoTap /\ fn'.ran = fn.ran
    BY <1>3, <2>1, <2>2 DEF Machine
  <2> QED
    BY <1>1, <1>4, <1>6, <1>7, <1>9, <2>2, <2>3
    DEF Right, Inv, TapWaits, KeyKnown, LadderOff, LadderOn, Counted, Held,
        ShownIsRun, InOrder
<1>10. CASE fn.screen \notin {"browser", "key_entry"} /\ fn.releaseOverride
  <2>1. fn' = fn
    BY <1>2, <1>10 DEF btnFnReleased
  <2>2. ~swallowed => ~fn.FN_timeouts_in_progress
    BY <1>10 DEF Inv, LadderOff, Held
  <2>3. TapWaits(fn)'
    BY <1>1, <2>1 DEF Inv, TapWaits
  <2> QED
    BY <1>1, <1>3, <1>4, <1>6, <1>7, <1>10, <2>1, <2>2, <2>3
    DEF Right, Inv, KeyKnown, LadderOff, LadderOn, Counted, Held,
        ShownIsRun, InOrder
<1>11. CASE fn.screen \notin {"browser", "key_entry"} /\ ~fn.releaseOverride
  <2>1. fn' = btnFnReleased_StateMachine(fn, presses, to)
    BY <1>2, <1>11 DEF btnFnReleased
  <2>2. /\ fn.TO_FN_EXEC = NoTap /\ fn.FN_key_pressed = down /\ PressOn(fn)
        /\ fn.ran.nr < presses
    BY <1>1, <1>11 DEF Inv, KeyKnown, LadderOn, Held, Counted
  <2>3. /\ fn' \in Machine /\ ~fn'.FN_timeouts_in_progress
        /\ \/ fn'.ran = fn.ran /\ fn'.TO_FN_EXEC = NoTap
           \/ /\ fn'.ran = [key |-> fn.FN_key_pressed, row |-> fn.shift, nr |-> presses,
                            shown |-> fn.shown, lapsed |-> fn.lapsed, at_once |-> FALSE]
              /\ fn'.TO_FN_EXEC = NoTap
              /\ ~fn.FN_timed_out_to_NOP_or_Executed
           \/ /\ fn'.ran = fn.ran /\ fn'.TO_FN_EXEC = Tap(fn, presses)
              /\ fn'.FN_state = "rel1" /\ fn'.shift = none /\ fn'.screen = fn.screen
              /\ fn'.FN_key_pressed_last = fn.FN_key_pressed
              /\ DoublePress(fn) /\ AsShown(fn.shift, fn) /\ fn.screen # "show"
              /\ ~fn'.FN_timed_out_to_NOP_or_Executed
    BY <1>1, <1>3, <1>11, <2>1, <2>2, ReleaseEnds
  <2>4. /\ TapWaits(fn)' /\ fn'.TO_FN_EXEC.nr <= presses /\ fn'.ran.nr <= presses
        /\ ShownIsRun /\ InOrder
    <3>1. CASE fn'.ran = fn.ran /\ fn'.TO_FN_EXEC = NoTap
      BY <1>4, <2>2, <3>1 DEF TapWaits, ShownIsRun, InOrder, NoTap
    <3>2. CASE /\ fn'.ran = [key |-> fn.FN_key_pressed, row |-> fn.shift, nr |-> presses,
                            shown |-> fn.shown, lapsed |-> fn.lapsed, at_once |-> FALSE]
               /\ fn'.TO_FN_EXEC = NoTap
               /\ ~fn.FN_timed_out_to_NOP_or_Executed
      <4>1. fn'.ran.row = fn.shift /\ fn'.ran.nr = presses /\ fn'.ran.shown = fn.shown
        BY <3>2
      <4>2. ~swallowed => AsShown(fn.shift, fn)
        BY <2>2, <3>2 DEF PressOn
      <4> QED BY <1>4, <2>2, <3>2, <4>1, <4>2
              DEF TapWaits, ShownIsRun, InOrder, NoTap
    <3>3. CASE /\ fn'.ran = fn.ran /\ fn'.TO_FN_EXEC = Tap(fn, presses)
               /\ fn'.FN_state = "rel1" /\ fn'.shift = none /\ fn'.screen = fn.screen
               /\ fn'.FN_key_pressed_last = fn.FN_key_pressed
               /\ DoublePress(fn) /\ AsShown(fn.shift, fn) /\ fn.screen # "show"
               /\ ~fn'.FN_timed_out_to_NOP_or_Executed
      <4>1. /\ fn'.TO_FN_EXEC.key = fn.FN_key_pressed
            /\ fn'.TO_FN_EXEC.offset = fn.shift
            /\ fn'.TO_FN_EXEC.shown = fn.shown /\ fn'.TO_FN_EXEC.nr = presses
            /\ fn'.TO_FN_EXEC.lapsed = fn.lapsed
        BY <3>3 DEF Tap
      <4>2. TapWaits(fn)'
        BY <1>1, <1>4, <1>11, <2>2, <3>3, <4>1 DEF TapWaits, DoublePress
      <4> QED BY <1>4, <2>2, <3>3, <4>1, <4>2 DEF ShownIsRun, InOrder
    <3> QED BY <2>3, <3>1, <3>2, <3>3
  <2> QED
    BY <1>1, <1>6, <1>7, <2>3, <2>4
    DEF Right, Inv, KeyKnown, LadderOff, LadderOn, Counted, Held
<1> QED BY <1>8, <1>9, <1>10, <1>11

LEMMA ExecTimeoutIsRight ==
  ASSUME Inv, ExecTimeout
  PROVE  Right
<1>1. /\ fn.TO_FN_EXEC # NoTap /\ down' = down /\ presses' = presses
      /\ setting' = setting /\ swallowed' = swallowed
  BY DEF ExecTimeout
<1>2. PICK to \in Screens : fn' = FlushTap(fn, to)
  BY DEF ExecTimeout
<1>3. Types /\ fn \in Machine
  BY DEF Inv, Types
<1>4. /\ fn.ran.nr \in Nat /\ fn.TO_FN_EXEC.nr \in Nat /\ presses \in Nat
      /\ fn.TO_FN_EXEC.nr <= presses
  BY <1>3, NumbersOfRuns DEF Inv, Counted
<1>5. /\ fn.screen # "browser" /\ fn.shift = none
      /\ ~fn.FN_timed_out_to_NOP_or_Executed
      /\ AsShown(fn.TO_FN_EXEC.offset, fn.TO_FN_EXEC)
      /\ fn.TO_FN_EXEC.nr > fn.ran.nr \/ fn.ran.at_once
  BY <1>1 DEF Inv, TapWaits
<1> DEFINE it == [key |-> fn.TO_FN_EXEC.key, row |-> fn.TO_FN_EXEC.offset,
                  nr |-> fn.TO_FN_EXEC.nr, shown |-> fn.TO_FN_EXEC.shown,
                  lapsed |-> fn.TO_FN_EXEC.lapsed,
                  at_once |-> FALSE]
<1>6. /\ fn' \in Machine
      /\ fn' = [fn EXCEPT !.TO_FN_EXEC = NoTap, !.shift = none, !.TO_FG_TIMR = FALSE,
                          !.screen = to,
                          !.FN_timed_out_to_NOP_or_Executed = TRUE, !.ran = it]
  BY <1>1, <1>2, <1>3, <1>5, FlushRuns
<1>7. AsShown(it.row, it) /\ it.nr = fn.TO_FN_EXEC.nr
  BY <1>5
<1> HIDE DEF it
<1>8. /\ fn'.TO_FN_EXEC = NoTap /\ fn'.ran = it /\ fn'.shown = fn.shown
      /\ fn'.releaseOverride = fn.releaseOverride
      /\ fn'.FN_timeouts_in_progress = fn.FN_timeouts_in_progress
  BY <1>3, <1>6 DEF Machine
<1>9. NoTap.nr <= presses
  BY <1>4 DEF NoTap
<1>10. ~Held
  BY <1>1 DEF Inv, KeyKnown
<1>11. ~Held'
  BY <1>1, <1>8, <1>10 DEF Held
<1>12. Types'
  BY <1>1, <1>3, <1>6 DEF Types
<1>13. LadderOff'
  BY <1>1, <1>8, <1>10 DEF Inv, LadderOff
<1>14. down # NoKey => presses >= 1
  BY DEF Inv, Counted
<1> QED
  BY <1>1, <1>4, <1>5, <1>7, <1>8, <1>9, <1>11, <1>12, <1>13, <1>14
  DEF Right, Inv, TapWaits, KeyKnown, LadderOn, Counted,
      ShownIsRun, InOrder, NoClimb

LEMMA LongTimeoutIsRight ==
  ASSUME Inv, LongTimeout
  PROVE  Right
<1> DEFINE m == [fn EXCEPT !.TO_FN_LONG = FALSE]
<1>1. /\ fn' = FN_handler(m) /\ down' = down /\ presses' = presses
      /\ setting' = setting /\ swallowed' = swallowed
  BY DEF LongTimeout
<1>2. /\ fn \in Machine /\ Types
      /\ setting \in [G_DOUBLETAP : BOOLEAN, LongPressF : {"F14", "F124", "F1234"}]
  BY DEF Inv, Types
<1>3. /\ m \in Machine
      /\ m.TO_FN_EXEC = fn.TO_FN_EXEC /\ m.ran = fn.ran
      /\ m.FN_key_pressed = fn.FN_key_pressed /\ m.screen = fn.screen
      /\ m.FN_key_pressed_last = fn.FN_key_pressed_last
      /\ m.releaseOverride = fn.releaseOverride
      /\ m.FN_timeouts_in_progress = fn.FN_timeouts_in_progress
      /\ m.FN_timed_out_to_NOP_or_Executed = fn.FN_timed_out_to_NOP_or_Executed
      /\ m.FN_handle_timed_out_to_EXEC = fn.FN_handle_timed_out_to_EXEC
      /\ m.shift = fn.shift /\ m.shown = fn.shown /\ m.FN_state = fn.FN_state
      /\ m.lapsed = fn.lapsed
  BY <1>2 DEF Machine
<1> HIDE DEF m
<1>4. /\ fn' \in Machine
      /\ fn'.TO_FN_EXEC = m.TO_FN_EXEC /\ fn'.ran = m.ran
      /\ fn'.FN_key_pressed = m.FN_key_pressed /\ fn'.screen = m.screen
      /\ fn'.releaseOverride = m.releaseOverride
      /\ fn'.FN_timeouts_in_progress => m.FN_timeouts_in_progress
      /\ ~m.FN_timeouts_in_progress => fn' = m
      /\ m.FN_state = "rel1" => fn' = m
      /\ PressOn(m) => PressOn(fn')
  BY <1>1, <1>2, <1>3, ClimbKeeps
<1>5. Types'
  BY <1>1, <1>2, <1>4 DEF Types
<1>6. TapWaits(fn)'
  BY <1>1, <1>3, <1>4 DEF Inv, TapWaits
<1>7. Held' <=> Held
  BY <1>1, <1>3, <1>4 DEF Held
<1>8. LadderOff' /\ NoClimb
  BY <1>1, <1>3, <1>4, <1>7 DEF Inv, LadderOff, NoClimb, Held
<1>9. LadderOn'
  <2>1. PressOn(fn) => PressOn(m)
    BY <1>3 DEF PressOn, DoublePress
  <2>2. PressOn(fn') => PressOn(fn)'
    BY <1>1 DEF PressOn, DoublePress
  <2> QED BY <1>3, <1>4, <1>7, <2>1, <2>2 DEF Inv, LadderOn
<1>10. KeyKnown' /\ Counted'
  BY <1>1, <1>3, <1>4, <1>7 DEF Inv, KeyKnown, Counted
<1> QED
  BY <1>3, <1>4, <1>5, <1>6, <1>8, <1>9, <1>10 DEF Right, Inv, ShownIsRun, InOrder

(* TO_FG_TIMR: with a key down, the row that will be run is not the one    *)
(* shown any more.                                                         *)
LEMMA ShiftTimeoutIsRight ==
  ASSUME Inv, ShiftTimeout
  PROVE  Right
<1> DEFINE lapsed == fn.lapsed \/ (down # NoKey /\ fn.shift # none)
<1>1. /\ down' = down /\ presses' = presses
      /\ setting' = setting /\ swallowed' = swallowed
      /\ fn' = [[fn EXCEPT !.shift = none, !.TO_FG_TIMR = FALSE]
                  EXCEPT !.lapsed = lapsed]
  BY DEF ShiftTimeout, resetShiftState, Inv, Types, Machine
<1>2. fn \in Machine /\ Types
  BY DEF Inv, Types
<1>3. lapsed \in BOOLEAN
  BY <1>2 DEF Machine
<1> HIDE DEF lapsed
<1>4. /\ fn' \in Machine
      /\ fn'.TO_FN_EXEC = fn.TO_FN_EXEC /\ fn'.ran = fn.ran
      /\ fn'.FN_key_pressed = fn.FN_key_pressed /\ fn'.screen = fn.screen
      /\ fn'.FN_key_pressed_last = fn.FN_key_pressed_last
      /\ fn'.releaseOverride = fn.releaseOverride
      /\ fn'.FN_timeouts_in_progress = fn.FN_timeouts_in_progress
      /\ fn'.FN_timed_out_to_NOP_or_Executed = fn.FN_timed_out_to_NOP_or_Executed
      /\ fn'.FN_handle_timed_out_to_EXEC = fn.FN_handle_timed_out_to_EXEC
      /\ fn'.shift = none /\ fn'.shown = fn.shown /\ fn'.FN_state = fn.FN_state
      /\ fn'.lapsed = lapsed
  BY <1>1, <1>2, <1>3 DEF Machine
<1>5. Types'
  BY <1>1, <1>2, <1>4 DEF Types
<1>6. TapWaits(fn)'
  BY <1>1, <1>4 DEF Inv, TapWaits
<1>7. Held' <=> Held
  BY <1>1, <1>4 DEF Held
<1>8. LadderOff' /\ KeyKnown' /\ Counted' /\ NoClimb
  BY <1>1, <1>4, <1>7 DEF Inv, LadderOff, KeyKnown, Counted, NoClimb
<1>9. LadderOn'
  <2>1. Held /\ AsShown(fn.shift, fn) => AsShown(fn'.shift, fn')
    BY <1>4 DEF Held, lapsed
  <2>2. Held /\ PressOn(fn) => PressOn(fn)'
    BY <1>1, <1>4, <2>1 DEF PressOn, DoublePress
  <2> QED BY <1>4, <1>7, <2>2 DEF Inv, LadderOn
<1> QED
  BY <1>4, <1>5, <1>6, <1>8, <1>9 DEF Right, Inv, ShownIsRun, InOrder

LEMMA OtherKeyIsRight ==
  ASSUME Inv, OtherKey
  PROVE  Right
<1>1. /\ down = NoKey /\ down' = down /\ presses' = presses
      /\ setting' = setting /\ swallowed' = swallowed
  BY DEF OtherKey
<1>2. PICK to \in Screens :
        LET m == FlushTap(fn, to)
            stopped == [m EXCEPT !.TO_FN_LONG = @ /\ m.screen = "show"]
        IN  \/ \E shift \in {none, f, g}, fg \in BOOLEAN :
                 fn' = [stopped EXCEPT !.shift = shift, !.TO_FG_TIMR = @ \/ fg]
            \/ \E s \in Screens : fn' = [resetShiftState(stopped) EXCEPT !.screen = s]
  <2>1. ScreensAfterTap \subseteq Screens
    BY DEF ScreensAfterTap, Inv, Types, Machine
  <2> QED BY <2>1 DEF OtherKey
<1> DEFINE m == FlushTap(fn, to)
           long == m.TO_FN_LONG /\ m.screen = "show"
           stopped == [m EXCEPT !.TO_FN_LONG = long]
<1>3. Types /\ fn \in Machine
  BY DEF Inv, Types
<1>4. /\ fn.ran.nr \in Nat /\ fn.TO_FN_EXEC.nr \in Nat /\ presses \in Nat
      /\ fn.TO_FN_EXEC.nr <= presses /\ fn.ran.nr <= presses
  BY <1>3, NumbersOfRuns DEF Inv, Counted
<1>5. /\ m \in Machine /\ m.TO_FN_EXEC = NoTap /\ m.shown = fn.shown
      /\ m.FN_timeouts_in_progress = fn.FN_timeouts_in_progress
      /\ m.ran.nr <= presses
      /\ m.ran # fn.ran =>
           AsShown(m.ran.row, m.ran) /\ (m.ran.nr > fn.ran.nr \/ fn.ran.at_once)
      /\ fn.TO_FN_EXEC # NoTap => m.ran.nr = fn.TO_FN_EXEC.nr
  <2>1. CASE fn.TO_FN_EXEC = NoTap
    BY <1>3, <1>4, <2>1 DEF FlushTap
  <2>2. CASE fn.TO_FN_EXEC # NoTap
    <3>1. /\ fn.screen # "browser" /\ fn.shift = none
          /\ ~fn.FN_timed_out_to_NOP_or_Executed
          /\ AsShown(fn.TO_FN_EXEC.offset, fn.TO_FN_EXEC)
          /\ fn.TO_FN_EXEC.nr > fn.ran.nr \/ fn.ran.at_once
      BY <2>2 DEF Inv, TapWaits
    <3> DEFINE it == [key |-> fn.TO_FN_EXEC.key, row |-> fn.TO_FN_EXEC.offset,
                      nr |-> fn.TO_FN_EXEC.nr, shown |-> fn.TO_FN_EXEC.shown,
                      lapsed |-> fn.TO_FN_EXEC.lapsed,
                      at_once |-> FALSE]
    <3>2. /\ m \in Machine
          /\ m = [fn EXCEPT !.TO_FN_EXEC = NoTap, !.shift = none, !.TO_FG_TIMR = FALSE,
                          !.screen = to,
                              !.FN_timed_out_to_NOP_or_Executed = TRUE, !.ran = it]
      BY <1>3, <2>2, <3>1, FlushRuns
    <3>3. AsShown(it.row, it) /\ it.nr = fn.TO_FN_EXEC.nr
      BY <3>1
    <3> HIDE DEF it, m
    <3>4. /\ m.TO_FN_EXEC = NoTap /\ m.ran = it /\ m.shown = fn.shown
          /\ m.FN_timeouts_in_progress = fn.FN_timeouts_in_progress
      BY <1>3, <3>2 DEF Machine
    <3> QED BY <1>4, <3>1, <3>2, <3>3, <3>4
  <2> QED BY <2>1, <2>2
<1>6. long \in BOOLEAN
  OBVIOUS
<1> HIDE DEF m, long
<1>7. /\ fn' \in Machine /\ fn'.TO_FN_EXEC = NoTap /\ fn'.shown = m.shown
      /\ fn'.FN_timeouts_in_progress = m.FN_timeouts_in_progress /\ fn'.ran = m.ran
  <2>1. /\ stopped \in Machine /\ stopped.TO_FN_EXEC = NoTap
        /\ stopped.shown = m.shown /\ stopped.ran = m.ran
        /\ stopped.FN_timeouts_in_progress = m.FN_timeouts_in_progress
    BY <1>5, <1>6 DEF Machine
  <2>2. \/ \E shift \in {none, f, g}, fg \in BOOLEAN :
             fn' = [stopped EXCEPT !.shift = shift, !.TO_FG_TIMR = @ \/ fg]
        \/ \E s \in Screens : fn' = [resetShiftState(stopped) EXCEPT !.screen = s]
    BY <1>2 DEF m, long
  <2> HIDE DEF stopped
  <2>3. CASE \E shift \in {none, f, g}, fg \in BOOLEAN :
               fn' = [stopped EXCEPT !.shift = shift, !.TO_FG_TIMR = @ \/ fg]
    <3>1. PICK shift \in {none, f, g}, t \in BOOLEAN :
            fn' = [stopped EXCEPT !.shift = shift, !.TO_FG_TIMR = t]
      BY <2>3
    <3> QED BY <2>1, <3>1 DEF Machine
  <2>4. CASE \E s \in Screens : fn' = [resetShiftState(stopped) EXCEPT !.screen = s]
    <3>1. PICK s \in Screens :
            fn' = [[stopped EXCEPT !.shift = none, !.TO_FG_TIMR = FALSE]
                     EXCEPT !.screen = s]
      BY <2>4 DEF resetShiftState
    <3> QED BY <2>1, <3>1 DEF Machine
  <2> QED BY <2>2, <2>3, <2>4
<1>8. Types'
  BY <1>1, <1>3, <1>7 DEF Types
<1>9. ~Held /\ ~Held'
  BY <1>1 DEF Held
<1>10. NoTap.nr <= presses
  BY <1>4 DEF NoTap
<1> QED
  BY <1>1, <1>5, <1>7, <1>8, <1>9, <1>10
  DEF Right, Inv, TapWaits, KeyKnown, LadderOff, LadderOn, Counted,
      ShownIsRun, InOrder, NoClimb

LEMMA StepIsRight == Inv /\ Next => Right
BY PressIsRight, ReleaseIsRight, ExecTimeoutIsRight, LongTimeoutIsRight,
   ShiftTimeoutIsRight, OtherKeyIsRight
   DEF Next

LEMMA InitIsRight == Init => Inv
<1> SUFFICES ASSUME Init PROVE Inv
  OBVIOUS
<1>1. Types
  <2>1. fn \in Machine
    BY ScreensAssumption DEF Init, Machine
  <2>2. presses \in 0 .. MaxPresses
    BY FunctionKeysAssumption DEF Init
  <2>3. /\ down \in Keys \cup {NoKey} /\ swallowed \in BOOLEAN
        /\ setting \in [G_DOUBLETAP : BOOLEAN, LongPressF : {"F14", "F124", "F1234"}]
    BY DEF Init
  <2> QED BY <2>1, <2>2, <2>3 DEF Types
<1>2. fn.TO_FN_EXEC = NoTap /\ fn.ran = Nothing /\ ~fn.FN_timeouts_in_progress
  BY DEF Init
<1>3. NoTap.nr = 0 /\ Nothing.nr = 0
  BY DEF NoTap, Nothing
<1> QED
  BY <1>1, <1>2, <1>3 DEF Init, Inv, TapWaits, KeyKnown, LadderOff, LadderOn,
                          Counted, Held

LEMMA KeysInvariant == Spec => []Inv
<1>1. Inv /\ UNCHANGED vars => Inv'
  BY DEF Inv, vars, Types, TapWaits, KeyKnown, LadderOff, LadderOn, PressOn,
         DoublePress, Counted, Held
<1>2. Inv /\ [Next]_vars => Inv'
  BY <1>1, StepIsRight DEF Right
<1> QED BY <1>2, InitIsRight, PTL DEF Spec

---------------------------------------------------------------------------
(* The state of the function keys stays in its types; in particular the    *)
(* row of the item that is run, a sum of two shifts, is always a row of    *)
(* the menu.                                                               *)
THEOREM FunctionKeysTypeCorrect == Spec => []TypeOK
<1>1. Inv => TypeOK
  <2> SUFFICES ASSUME Inv PROVE TypeOK
    OBVIOUS
  <2>1. fn \in Machine
    BY DEF Inv, Types
  <2>2. fn.ran.row \in {none, f, g}
    BY <2>1 DEF Machine, Runs, Nothing
  <2> QED BY <2>1, <2>2 DEF TypeOK, Machine, Taps
<1> QED BY <1>1, KeysInvariant, PTL

(* Whatever the keys, the screens and the order of presses, releases and   *)
(* timeouts, a press runs the item the display named for it; or the        *)
(* unshifted one, when TO_FG_TIMR took the shift back while the key was    *)
(* down; or it follows a press whose release was not taken.                *)
THEOREM PressesRunWhatWasShown == Spec => RunsWhatWasShown
<1>1. Inv /\ [Next]_vars =>
        [fn'.ran # fn.ran =>
           \/ fn'.ran.row = fn'.ran.shown
           \/ fn'.ran.lapsed /\ fn'.ran.row = none
           \/ swallowed]_vars
  BY StepIsRight DEF Right, ShownIsRun
<1> QED BY <1>1, KeysInvariant, PTL DEF Spec, RunsWhatWasShown

(* No press is run twice or out of order, and no tap that waits is lost    *)
(* but to a second press of its key.                                       *)
THEOREM PressesRunInOrder == Spec => TapsRunInOrder
<1>1. Inv /\ [Next]_vars =>
        [/\ fn'.ran # fn.ran => fn'.ran.nr > fn.ran.nr \/ fn.ran.at_once
         /\ fn.TO_FN_EXEC # NoTap /\ fn'.TO_FN_EXEC = NoTap =>
              \/ fn'.ran.nr = fn.TO_FN_EXEC.nr
              \/ /\ down' = fn.TO_FN_EXEC.key
                 /\ fn'.shift = g \/ fn.screen = "equation"]_vars
  BY StepIsRight DEF Right, InOrder
<1> QED BY <1>1, KeysInvariant, PTL DEF Spec, TapsRunInOrder

(* With no function key down, TO_FN_LONG does not climb.                   *)
THEOREM NoClimbWithoutKey == Spec => LadderWhileDown
<1>1. Inv /\ [Next]_vars =>
        [down = NoKey /\ down' = NoKey /\ ~swallowed => fn'.shown = fn.shown]_vars
  BY StepIsRight DEF Right, NoClimb
<1> QED BY <1>1, KeysInvariant, PTL DEF Spec, LadderWhileDown

=============================================================================
