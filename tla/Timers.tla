------------------------------- MODULE Timers -------------------------------
(***************************************************************************)
(* The software timers of the firmware and the main loop that serves them  *)
(* (src/src/shell/timer.zig, src/src/shell/c47.zig, program_main).         *)
(*                                                                         *)
(* The system gives a millisecond counter that wraps and a sleep that ends *)
(* at a timeout or an interrupt.  The loop keeps in nextTimerRefresh the   *)
(* earliest expiration of a running timer (0: none), sleeps no longer than *)
(* that, and calls refreshTimer when it has come.  Timers are started and  *)
(* stopped by key handlers and by the callbacks of other timers; while a   *)
(* callback runs, mutexRefreshTimer keeps nextTimerRefresh as it is.       *)
(*                                                                         *)
(* The clock of the model goes round, as the counter does; `left` is the   *)
(* time each timer really has to wait.  Time passes while the loop sleeps, *)
(* in handlers and in callbacks; the loop's own steps take none.  Keys,    *)
(* wake-ups and power changes come with the passing of time, the last two  *)
(* at most once in InterruptPeriod.                                        *)
(***************************************************************************)
EXTENDS Naturals, FiniteSets, FiniteSetsExt

CONSTANTS
  TMR_NUMBER,             (* number of timers                              *)
  TO_KB_ACTV,             (* the timer that a key starts                   *)
  Wrap,                   (* the counter counts modulo Wrap                *)
  Delays,                 (* delays the timers are started with            *)
  SCREEN_REFRESH_PERIOD,  (* the longest sleep with a timeout              *)
  SleepCap,               (* the longest sleep while this timer runs       *)
  InterruptPeriod         (* least time between two interrupts             *)

Timers == 0 .. TMR_NUMBER - 1
Time == 0 .. Wrap - 1
NotRunning == Wrap                     (* stopped, completed or not used    *)
Forever == SCREEN_REFRESH_PERIOD + 1   (* a sleep without a timeout        *)

ASSUME TimersAssumption ==
  /\ TMR_NUMBER \in Nat \ {0} /\ Wrap \in Nat \ {0}
  /\ TO_KB_ACTV \in Timers
  /\ Delays \subseteq 1 .. Wrap - 1 /\ Delays # {}
  /\ SCREEN_REFRESH_PERIOD \in Time \ {0}
  /\ SleepCap \in [Timers -> Nat \ {0}]
  /\ InterruptPeriod \in Nat \ {0, 1}

VARIABLES
  now,                (* sys_current_ms()                                  *)
  timer_will_expire,  (* the expiration of each running timer              *)
  left,               (* the time each timer still has to wait             *)
  nextTimerRefresh,
  timerLastCalled,
  mutexRefreshTimer,
  pc,                 (* where the main loop is                            *)
  pass,               (* the pass of refreshTimer: its time, the timer it  *)
                      (* has come to                                       *)
  sleep,              (* the rest of the sleep, Forever without a timeout  *)
  key,                (* a key waits, or is being handled                  *)
  interrupt,          (* "clock" or "power": the flag that is up           *)
  pgmEnd,             (* STAT_PGM_END: switched off                        *)
  suspended           (* STAT_SUSPENDED and STAT_OFF                       *)

timers == <<timer_will_expire, left, nextTimerRefresh>>
power == <<pgmEnd, suspended>>
vars == <<now, timers, timerLastCalled, mutexRefreshTimer, pc, pass, sleep,
          key, interrupt, power>>

NoPass == [time |-> 0, i |-> 0]
Running(t) == timer_will_expire[t] # NotRunning

(* fnTimerReset, the eleven calls of fnTimerConfig, and the assignment     *)
(* after them: no timer runs, yet nextTimerRefresh is not 0.               *)
Init ==
  /\ now \in Time
  /\ timer_will_expire = [t \in Timers |-> NotRunning]
  /\ left = [t \in Timers |-> 0]
  /\ nextTimerRefresh = SCREEN_REFRESH_PERIOD
  /\ timerLastCalled = 0
  /\ mutexRefreshTimer = FALSE
  /\ pc = "top"
  /\ pass = NoPass
  /\ sleep = 0
  /\ key = FALSE
  /\ interrupt = "none"
  /\ pgmEnd = FALSE
  /\ suspended = FALSE

---------------------------------------------------------------------------
(* The timers.                                                             *)

(* The loop of fnRebuildTimerRefresh: the least expiration of the running  *)
(* timers, except that 0 stands for none seen yet, so that an expiration   *)
(* of 0 forgets the timers before it.                                      *)
Earliest(expires) ==
  LET after[n \in 0 .. TMR_NUMBER] ==
        IF n = 0 THEN 0
        ELSE LET seen == after[n - 1]
                 next == expires[n - 1]
             IN  IF next # NotRunning /\ (seen = 0 \/ next < seen)
                 THEN next ELSE seen
  IN  after[TMR_NUMBER]

fnRebuildTimerRefresh ==
  nextTimerRefresh' = IF mutexRefreshTimer THEN nextTimerRefresh
                      ELSE Earliest(timer_will_expire')

StartSlip(t, delay) ==
  /\ timer_will_expire' = [timer_will_expire EXCEPT ![t] = (now + delay) % Wrap]
  /\ left' = [left EXCEPT ![t] = delay]
  /\ UNCHANGED nextTimerRefresh

WidthSlip(t, delay) ==
  /\ timer_will_expire' = [timer_will_expire EXCEPT ![t] = now + delay]
  /\ left' = [left EXCEPT ![t] = delay]
  /\ fnRebuildTimerRefresh

fnTimerStart(t, delay) ==
  /\ timer_will_expire' = [timer_will_expire EXCEPT ![t] = (now + delay) % Wrap]
  /\ left' = [left EXCEPT ![t] = delay]
  /\ fnRebuildTimerRefresh

EndsTimer(t) ==
  /\ timer_will_expire' = [timer_will_expire EXCEPT ![t] = NotRunning]
  /\ left' = [left EXCEPT ![t] = 0]

(* Also fnTimerDel: what a timer is when it does not run is a matter of    *)
(* the handlers only.                                                      *)
fnTimerStop(t) ==
  /\ EndsTimer(t)
  /\ fnRebuildTimerRefresh

(* Runs the callback of a running timer at once.  What the callback does   *)
(* to the timers are further calls of the same handler.  nextTimerRefresh  *)
(* is left as it was.                                                      *)
fnTimerExec(t) ==
  /\ Running(t)
  /\ EndsTimer(t)
  /\ UNCHANGED nextTimerRefresh

(* What a key handler or a callback does to the timers.                    *)
Call ==
  /\ pc \in {"handler", "callback"}
  /\ \E t \in Timers :
       \/ \E delay \in Delays : fnTimerStart(t, delay)
       \/ fnTimerStop(t)
       \/ fnTimerExec(t)
  /\ UNCHANGED <<now, timerLastCalled, mutexRefreshTimer, pc, pass, sleep, key,
                 interrupt, power>>

---------------------------------------------------------------------------
(* refreshTimer.                                                           *)

StartPass ==
  /\ pass' = [time |-> now, i |-> 0]
  /\ pc' = "refresh"

(* A counter that is behind the last call has wrapped: every running timer *)
(* is fired.                                                               *)
Expired(t) ==
  \/ pass.time < timerLastCalled
  \/ timer_will_expire[t] <= pass.time

EverySlip(t) == Running(t)

Fires(t) == Running(t) /\ Expired(t)

RefreshStep ==
  /\ pc = "refresh" /\ pass.i < TMR_NUMBER
  /\ IF Fires(pass.i)
     THEN /\ EndsTimer(pass.i)
          /\ mutexRefreshTimer' = TRUE
          /\ pc' = "callback"
          /\ UNCHANGED pass
     ELSE /\ pass' = [pass EXCEPT !.i = @ + 1]
          /\ UNCHANGED <<timer_will_expire, left, mutexRefreshTimer, pc>>
  /\ UNCHANGED <<now, nextTimerRefresh, timerLastCalled, sleep, key,
                 interrupt, power>>

MutexSlip ==
  /\ pc = "callback"
  /\ pc' = "refresh"
  /\ pass' = [pass EXCEPT !.i = @ + 1]
  /\ UNCHANGED <<mutexRefreshTimer, now, timers, timerLastCalled, sleep, key,
                 interrupt, power>>

CallbackEnd ==
  /\ pc = "callback"
  /\ mutexRefreshTimer' = FALSE
  /\ pc' = "refresh"
  /\ pass' = [pass EXCEPT !.i = @ + 1]
  /\ UNCHANGED <<now, timers, timerLastCalled, sleep, key, interrupt, power>>

NoRebuildSlip ==
  /\ pc = "refresh" /\ pass.i = TMR_NUMBER
  /\ timerLastCalled' = pass.time
  /\ pc' = "top"
  /\ pass' = NoPass
  /\ UNCHANGED <<timers, now, mutexRefreshTimer, sleep, key, interrupt, power>>

RefreshEnd ==
  /\ pc = "refresh" /\ pass.i = TMR_NUMBER
  /\ timerLastCalled' = pass.time
  /\ UNCHANGED <<timer_will_expire, left>>
  /\ fnRebuildTimerRefresh
  /\ pc' = "top"
  /\ pass' = NoPass
  /\ UNCHANGED <<now, mutexRefreshTimer, sleep, key, interrupt, power>>

---------------------------------------------------------------------------
(* The main loop.                                                          *)

(* The timeout of a sleep: until nextTimerRefresh, or 1 when it has come,  *)
(* and no longer than the running timers' caps and a screen refresh.       *)
SleepTime ==
  Min({SCREEN_REFRESH_PERIOD,
       IF nextTimerRefresh > now THEN nextTimerRefresh - now ELSE 1}
      \cup {SleepCap[t] : t \in {u \in Timers : Running(u)}})

Sleep ==
  /\ pc = "top"
  /\ \/ /\ pgmEnd /\ suspended
        /\ sleep' = Forever
        /\ pc' = "asleep"
     \/ /\ ~pgmEnd /\ ~key
        /\ sleep' = IF nextTimerRefresh = 0 THEN Forever ELSE SleepTime
        /\ pc' = "asleep"
     \/ /\ IF pgmEnd THEN ~suspended ELSE key
        /\ pc' = "awake"
        /\ UNCHANGED sleep
  /\ UNCHANGED <<now, timers, timerLastCalled, mutexRefreshTimer, pass, key,
                 interrupt, power>>

Wake ==
  /\ pc = "asleep"
  /\ sleep = 0 \/ key \/ interrupt # "none" \/ pgmEnd # suspended
  /\ pc' = "awake"
  /\ sleep' = 0
  /\ UNCHANGED <<now, timers, timerLastCalled, mutexRefreshTimer, pass, key,
                 interrupt, power>>

(* The once-a-minute wake-up and a power change are dealt with first, and  *)
(* the loop starts over: nextTimerRefresh is not looked at.                *)
Interrupted ==
  /\ pc = "awake" /\ interrupt # "none"
  /\ IF interrupt = "power" /\ ~suspended /\ ~Running(TO_KB_ACTV)
     THEN \E delay \in Delays : fnTimerStart(TO_KB_ACTV, delay)
     ELSE UNCHANGED timers
  /\ interrupt' = "none"
  /\ pc' = "top"
  /\ UNCHANGED <<now, timerLastCalled, mutexRefreshTimer, pass, sleep, key,
                 power>>

GoOff ==
  /\ pc = "awake" /\ interrupt = "none" /\ pgmEnd
  /\ suspended' = TRUE
  /\ pc' = "top"
  /\ UNCHANGED <<now, timers, timerLastCalled, mutexRefreshTimer, pass, sleep,
                 key, interrupt, pgmEnd>>

(* A key is handled; a calculator just switched on may run a program.      *)
GoOn ==
  /\ pc = "awake" /\ interrupt = "none" /\ ~pgmEnd
  /\ suspended' = FALSE
  /\ pc' = IF key \/ suspended THEN "handler" ELSE "check"
  /\ UNCHANGED <<now, timers, timerLastCalled, mutexRefreshTimer, pass, sleep,
                 key, interrupt, pgmEnd>>

(* Every key starts TO_KB_ACTV but the screen dump, which ends with the    *)
(* stops of resetKeytimers.                                                *)
HandlerEnd ==
  /\ pc = "handler"
  /\ IF key
     THEN \/ \E delay \in Delays : fnTimerStart(TO_KB_ACTV, delay)
          \/ \E t \in Timers \ {TO_KB_ACTV} : fnTimerStop(t)
     ELSE UNCHANGED timers
  /\ key' = FALSE
  /\ pc' = "check"
  /\ UNCHANGED <<now, timerLastCalled, mutexRefreshTimer, pass, sleep, interrupt,
                 power>>

Check ==
  /\ pc = "check"
  /\ IF nextTimerRefresh # 0 /\ nextTimerRefresh <= now
     THEN StartPass
     ELSE pc' = "top" /\ UNCHANGED pass
  /\ UNCHANGED <<now, timers, timerLastCalled, mutexRefreshTimer, sleep, key,
                 interrupt, power>>

MainLoop ==
  \/ Sleep \/ Wake \/ Interrupted \/ GoOff \/ GoOn \/ HandlerEnd \/ Check
  \/ RefreshStep \/ CallbackEnd \/ RefreshEnd

---------------------------------------------------------------------------
(* The world outside.                                                      *)

Tick ==
  /\ pc \in {"handler", "callback"} \/ (pc = "asleep" /\ sleep # 0)
  /\ now' = (now + 1) % Wrap
  /\ left' = [t \in Timers |-> IF left[t] = 0 THEN 0 ELSE left[t] - 1]
  /\ sleep' = IF pc # "asleep" \/ sleep = Forever THEN sleep ELSE sleep - 1
  /\ key' \in IF suspended \/ pc # "asleep" THEN {key} ELSE {key, TRUE}
  /\ interrupt' \in IF now' % InterruptPeriod = 0
                    THEN {interrupt, "clock", "power"} ELSE {interrupt}
  /\ UNCHANGED <<timer_will_expire, nextTimerRefresh, timerLastCalled,
                 mutexRefreshTimer, pc, pass, power>>

(* OFF is a function like any other; the system switches off by itself     *)
(* when nothing has happened for long, which dmcpResetAutoOff holds off    *)
(* while nextTimerRefresh is not 0.                                        *)
SwitchOff ==
  /\ \/ pc = "handler"
     \/ pc = "asleep" /\ sleep = Forever /\ nextTimerRefresh = 0
  /\ ~pgmEnd
  /\ pgmEnd' = TRUE
  /\ UNCHANGED <<now, timers, timerLastCalled, mutexRefreshTimer, pc, pass, sleep,
                 key, interrupt, suspended>>

SwitchOn ==
  /\ pgmEnd /\ suspended /\ pc = "asleep"
  /\ pgmEnd' = FALSE
  /\ key' = TRUE
  /\ UNCHANGED <<now, timers, timerLastCalled, mutexRefreshTimer, pc, pass, sleep,
                 interrupt, suspended>>

Next == MainLoop \/ Call \/ Tick \/ SwitchOff \/ SwitchOn

(* The loop runs on, handlers and callbacks end, and time passes.          *)
Spec == Init /\ [][Next]_vars /\ WF_vars(MainLoop) /\ WF_vars(Tick)

---------------------------------------------------------------------------
(* Types; the mutex is held exactly while a callback runs, and times stay  *)
(* within the counter.                                                     *)
TypeOK ==
  /\ now \in Time
  /\ timer_will_expire \in [Timers -> Time \cup {NotRunning}]
  /\ left \in [Timers -> Time]
  /\ nextTimerRefresh \in Time
  /\ timerLastCalled \in Time
  /\ mutexRefreshTimer = (pc = "callback")
  /\ pc \in {"top", "asleep", "awake", "handler", "check", "refresh", "callback"}
  /\ pass \in [time : Time, i : 0 .. TMR_NUMBER]
  /\ sleep \in 0 .. Forever
  /\ key \in BOOLEAN /\ pgmEnd \in BOOLEAN /\ suspended \in BOOLEAN
  /\ interrupt \in {"none", "clock", "power"}

(* Two ways the counter hides a running timer.  An expiration of exactly 0 *)
(* reads as no timer; a timer that was due before the counter wrapped and  *)
(* was not served by then seems to lie almost a whole turn ahead, which    *)
(* still is a timeout.                                                     *)
ZeroHides == \E t \in Timers : timer_will_expire[t] = 0
WrapHides(t) == left[t] = 0 /\ timer_will_expire[t] > now /\ sleep # Forever

(***************************************************************************)
(* The calculator never sleeps past a timer: when it sleeps with a timeout *)
(* it wakes by the time the first running timer is due (at the latest one  *)
(* tick on when that is now), and it sleeps without one only when no timer *)
(* runs - whichever handlers and callbacks started, restarted, stopped and *)
(* ran timers before.  Behind it are the rebuilding of nextTimerRefresh in *)
(* every call but those made under the mutex, the rebuilding at the end of *)
(* the pass that makes up for these, and the timeout of the main loop.     *)
(***************************************************************************)
NeverSleepsPast ==
  pc = "asleep" /\ ~suspended /\ ~pgmEnd /\ ~ZeroHides =>
    \A t \in Timers : Running(t) =>
      WrapHides(t) \/ sleep <= IF left[t] = 0 THEN 1 ELSE left[t]

(***************************************************************************)
(* refreshTimer fires no timer before its time: not one that a callback of *)
(* the same pass started after the pass read the clock, either.  The three *)
(* exceptions are the counter's: the expiration lies beyond the wrap (and  *)
(* is a small number already reached), the counter wrapped during the      *)
(* pass, or it is behind the last pass, when all running timers are fired. *)
(***************************************************************************)
NeverEarly ==
  [][\A t \in Timers :
       pc = "refresh" /\ Running(t) /\ ~Running(t)' /\ left[t] > 0 =>
         \/ now + left[t] >= Wrap
         \/ now < pass.time
         \/ pass.time < timerLastCalled]_vars

Due(t) == Running(t) /\ left[t] = 0

(***************************************************************************)
(* A timer that is due is fired (or stopped or started again), also when   *)
(* it was started in a callback, when keys keep coming and when wake-ups   *)
(* make the loop skip its check - unless the calculator is off or the      *)
(* counter hides the timer.                                                *)
(***************************************************************************)
DueTimersFire ==
  \A t \in Timers :
    Due(t) ~> (~Due(t) \/ suspended \/ ZeroHides \/ WrapHides(t))

(***************************************************************************)
(* With no timer running nextTimerRefresh goes back to 0 - after the start *)
(* of the program, and after fnTimerExec, which leaves it alone - or it    *)
(* would keep the calculator from switching itself off for good.           *)
(***************************************************************************)
NoTimerKeepsAwake ==
  (\A t \in Timers : ~Running(t)) ~>
    (nextTimerRefresh = 0 \/ suspended \/ \E t \in Timers : Running(t))

=============================================================================
