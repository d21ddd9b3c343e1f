---------------------------- MODULE TimersProofs ----------------------------
(***************************************************************************)
(* The safety properties of the timers, for any number of timers, width of *)
(* the counter, delays and sleeping times.                                 *)
(***************************************************************************)
EXTENDS Timers, WellFoundedInduction, TLAPS

(* The counter's arithmetic: a sum of two times wraps at most once.        *)
LEMMA ModWrap ==
  ASSUME NEW W \in Nat \ {0}, NEW x \in Nat, x < 2 * W
  PROVE  x % W = IF x < W THEN x ELSE x - W
OBVIOUS

LEMMA ClockSum ==
  ASSUME NEW a \in Time, NEW d \in Time
  PROVE  /\ (a + d) % Wrap \in {a + d, a + d - Wrap}
         /\ (a + d) % Wrap \in Time
<1>1. /\ a \in Nat /\ d \in Nat /\ Wrap \in Nat \ {0}
      /\ a < Wrap /\ d < Wrap /\ a + d \in Nat /\ a + d < 2 * Wrap
  BY TimersAssumption DEF Time
<1> DEFINE x == a + d
<1>2. x % Wrap = IF x < Wrap THEN x ELSE x - Wrap
  <2>1. x \in Nat /\ x < 2 * Wrap /\ Wrap \in Nat \ {0}
    BY <1>1
  <2> HIDE DEF x
  <2>2. QED
    BY <2>1, ModWrap
<1>3. QED
  BY <1>1, <1>2 DEF Time

(* Every non-empty set of natural numbers has a least element.             *)
LEMMA LeastOfNaturals ==
  ASSUME NEW T \in SUBSET Nat, T # {}
  PROVE  \E x \in T : \A y \in T : x <= y
<1>1. PICK x \in T : \A y \in T : ~ (<<y, x>> \in OpToRel(<, Nat))
  BY NatLessThanWellFounded, WFMin, Zenon
<1>2. \A y \in T : ~ (y < x)
  BY <1>1 DEF OpToRel
<1>3. QED
  BY <1>2

---------------------------------------------------------------------------
(* The loop of fnRebuildTimerRefresh: one turn, and the values it goes     *)
(* through in n turns.                                                     *)
Earlier(seen, next) ==
  IF next # NotRunning /\ (seen = 0 \/ next < seen) THEN next ELSE seen

IsScan(f, expires, n) ==
  f = [k \in 0 .. n |-> IF k = 0 THEN 0 ELSE Earlier(f[k - 1], expires[k - 1])]

(* The recursion is well defined.                                          *)
LEMMA ScanExists ==
  ASSUME NEW expires, NEW n \in Nat
  PROVE  \E s : IsScan(s, expires, n)
<1> DEFINE Bad == {m \in Nat : ~ \E s : IsScan(s, expires, m)}
<1> SUFFICES ASSUME Bad # {} PROVE FALSE
  OBVIOUS
<1>1. PICK m \in Bad : \A x \in Bad : m <= x
  <2>1. Bad \in SUBSET Nat
    OBVIOUS
  <2> HIDE DEF Bad
  <2>2. QED
    BY <2>1, LeastOfNaturals
<1>2. m # 0
  <2> SUFFICES ASSUME m = 0 PROVE FALSE
    OBVIOUS
  <2>1. IsScan([k \in 0 .. 0 |-> 0], expires, 0)
    BY DEF IsScan
  <2>2. QED
    BY <1>1, <2>1
<1>3. m - 1 \in Nat /\ m - 1 \notin Bad
  BY <1>1, <1>2
<1>4. PICK s : IsScan(s, expires, m - 1)
  BY <1>3
<1> DEFINE t == [k \in 0 .. m |-> IF k < m THEN s[k]
                                   ELSE Earlier(s[m - 1], expires[m - 1])]
<1>5. ASSUME NEW k \in 0 .. m
      PROVE  t[k] = IF k = 0 THEN 0 ELSE Earlier(t[k - 1], expires[k - 1])
  <2>1. m \in Nat /\ m > 0
    BY <1>1, <1>2
  <2>2. \A j \in 0 .. m - 1 :
          s[j] = IF j = 0 THEN 0 ELSE Earlier(s[j - 1], expires[j - 1])
    BY <1>4 DEF IsScan
  <2>3. CASE k < m
    BY <2>1, <2>2, <2>3
  <2>4. CASE k = m
    <3>1. t[k] = Earlier(s[m - 1], expires[m - 1]) /\ t[m - 1] = s[m - 1]
      BY <2>1, <2>4
    <3>2. QED
      BY <2>1, <2>4, <3>1
  <2>5. QED
    BY <2>1, <2>3, <2>4
<1>6. IsScan(t, expires, m)
  BY <1>5 DEF IsScan
<1>7. QED
  BY <1>1, <1>6

(* Earliest is the last value of the scan over all timers.                 *)
LEMMA EarliestIsScan ==
  ASSUME NEW expires
  PROVE  \E s : IsScan(s, expires, TMR_NUMBER) /\ Earliest(expires) = s[TMR_NUMBER]
<1> DEFINE f == CHOOSE s : IsScan(s, expires, TMR_NUMBER)
<1>1. IsScan(f, expires, TMR_NUMBER)
  BY ScanExists, TimersAssumption
<1>2. Earliest(expires) = f[TMR_NUMBER]
  BY DEF Earliest, IsScan, Earlier
<1>3. QED
  BY <1>1, <1>2

(***************************************************************************)
(* What nextTimerRefresh is after a rebuild: a time, and as long as no     *)
(* timer expires at 0, one that is not 0 and not behind any running timer. *)
(***************************************************************************)
LEMMA EarliestBounds ==
  ASSUME NEW expires \in [Timers -> Time \cup {NotRunning}]
  PROVE  /\ Earliest(expires) \in Time
         /\ (\A t \in Timers : expires[t] # 0) =>
              \A t \in Timers : expires[t] # NotRunning =>
                Earliest(expires) # 0 /\ Earliest(expires) <= expires[t]
<1>1. PICK s : /\ IsScan(s, expires, TMR_NUMBER)
               /\ Earliest(expires) = s[TMR_NUMBER]
  BY EarliestIsScan
<1>2. TMR_NUMBER \in Nat /\ Wrap \in Nat \ {0}
  BY TimersAssumption
<1> DEFINE Good(k) ==
      /\ s[k] \in Time
      /\ (\A t \in Timers : expires[t] # 0) =>
           \A t \in Timers : t < k /\ expires[t] # NotRunning =>
             s[k] # 0 /\ s[k] <= expires[t]
           Bad == {k \in 0 .. TMR_NUMBER : ~ Good(k)}
<1>3. \A k \in 0 .. TMR_NUMBER :
        s[k] = IF k = 0 THEN 0 ELSE Earlier(s[k - 1], expires[k - 1])
  BY <1>1 DEF IsScan
<1>4. Good(0)
  BY <1>2, <1>3 DEF Time, Timers
<1>5. ASSUME NEW k \in 0 .. TMR_NUMBER, k # 0, Good(k - 1)
      PROVE  Good(k)
  <2>1. /\ k - 1 \in Timers /\ k - 1 \in 0 .. TMR_NUMBER
        /\ \A t \in Timers : t < k => t < k - 1 \/ t = k - 1
    BY <1>2, <1>5 DEF Timers
  <2>2. s[k] = Earlier(s[k - 1], expires[k - 1])
    BY <1>3, <1>5
  <2>3. \A t \in Timers : expires[t] \in Time \cup {NotRunning}
    OBVIOUS
  <2>4. QED
    BY <1>2, <1>5, <2>1, <2>2, <2>3 DEF Earlier, Time, NotRunning
<1>6. Bad = {}
  <2> SUFFICES ASSUME Bad # {} PROVE FALSE
    OBVIOUS
  <2>1. Bad \in SUBSET Nat
    BY <1>2
  <2>2. PICK m \in Bad : \A x \in Bad : m <= x
    <3> HIDE DEF Bad
    <3>1. QED
      BY <2>1, LeastOfNaturals
  <2>3. m # 0
    BY <1>4, <2>2
  <2>4. m - 1 \in 0 .. TMR_NUMBER /\ m - 1 \notin Bad
    BY <1>2, <2>2, <2>3
  <2>5. Good(m - 1)
    BY <2>4
  <2> HIDE DEF Good
  <2>6. QED
    BY <1>5, <2>2, <2>3, <2>5
<1>7. Good(TMR_NUMBER)
  <2> HIDE DEF Good
  <2>1. QED
    BY <1>2, <1>6
<1>8. \A t \in Timers : t < TMR_NUMBER
  BY <1>2 DEF Timers
<1>9. QED
  BY <1>1, <1>7, <1>8

---------------------------------------------------------------------------
(* The inductive invariant.  A callback runs for a timer of the table; a   *)
(* handler runs for a key, and the calculator is then on.                  *)
PassInside == pc = "callback" => pass.i < TMR_NUMBER

HandlerHasKey ==
  /\ pc = "handler" => key /\ ~suspended
  /\ suspended /\ ~pgmEnd => key

(* A timer that is not due expires when its time is up, on the counter.    *)
ClockLinked ==
  \A t \in Timers : Running(t) /\ left[t] > 0 =>
    timer_will_expire[t] \in {now + left[t], now + left[t] - Wrap}

(* Whenever the loop looks at nextTimerRefresh, no running timer is before *)
(* it.                                                                     *)
Behind ==
  ~ZeroHides => \A t \in Timers : Running(t) =>
    nextTimerRefresh # 0 /\ nextTimerRefresh <= timer_will_expire[t]

RefreshBehind == pc \in {"top", "asleep", "awake", "check"} => Behind

(* A sleep ends when a timer is due; when the counter hides that it is, no *)
(* later than at the time the counter shows.                               *)
Rest(t) ==
  IF left[t] > 0 THEN left[t]
  ELSE IF timer_will_expire[t] > now THEN timer_will_expire[t] - now ELSE 1

SleepBounded ==
  pc = "asleep" /\ ~suspended /\ ~pgmEnd /\ ~ZeroHides =>
    \A t \in Timers : Running(t) => sleep # Forever /\ sleep <= Rest(t)

Inv ==
  /\ TypeOK /\ PassInside /\ HandlerHasKey
  /\ ClockLinked /\ RefreshBehind /\ SleepBounded

---------------------------------------------------------------------------
(* The constants, and the types the proofs use most.                       *)
LEMMA Constants ==
  /\ TMR_NUMBER \in Nat \ {0} /\ Wrap \in Nat \ {0}
  /\ Delays \subseteq Time \ {0}
  /\ SCREEN_REFRESH_PERIOD \in Time \ {0} /\ Forever \in Nat
  /\ SCREEN_REFRESH_PERIOD < Forever
  /\ TO_KB_ACTV \in Timers
BY TimersAssumption DEF Time, Forever

(* A rebuild, after any change of the timers that leaves their types.      *)
LEMMA Rebuilds ==
  ASSUME TypeOK, fnRebuildTimerRefresh,
         timer_will_expire' \in [Timers -> Time \cup {NotRunning}]
  PROVE  nextTimerRefresh' \in Time /\ (~mutexRefreshTimer => Behind')
<1>1. CASE mutexRefreshTimer
  BY <1>1 DEF fnRebuildTimerRefresh, TypeOK
<1>2. CASE ~mutexRefreshTimer
  <2>1. nextTimerRefresh' = Earliest(timer_will_expire')
    BY <1>2 DEF fnRebuildTimerRefresh
  <2>2. QED
    BY <2>1, EarliestBounds DEF Behind, ZeroHides, Running
<1>3. QED
  BY <1>1, <1>2

(* The timers keep types and clock, and are rebuilt unless under the mutex *)
(* or in fnTimerExec.                                                      *)
TimersTyped ==
  /\ timer_will_expire \in [Timers -> Time \cup {NotRunning}]
  /\ left \in [Timers -> Time]
  /\ nextTimerRefresh \in Time

LEMMA StartKeeps ==
  ASSUME TypeOK, ClockLinked, now' = now,
         NEW t \in Timers, NEW delay \in Delays, fnTimerStart(t, delay)
  PROVE  TimersTyped' /\ ClockLinked' /\ (~mutexRefreshTimer => Behind')
<1>1. /\ now \in Time /\ delay \in Time \ {0} /\ Wrap \in Nat \ {0}
      /\ left \in [Timers -> Time]
      /\ timer_will_expire \in [Timers -> Time \cup {NotRunning}]
  BY Constants DEF TypeOK
<1>2. /\ (now + delay) % Wrap \in {now + delay, now + delay - Wrap}
      /\ (now + delay) % Wrap \in Time
  BY <1>1, ClockSum
<1>3. /\ timer_will_expire' = [timer_will_expire EXCEPT ![t] = (now + delay) % Wrap]
      /\ left' = [left EXCEPT ![t] = delay]
  BY DEF fnTimerStart
<1>4. /\ timer_will_expire' \in [Timers -> Time \cup {NotRunning}]
      /\ left' \in [Timers -> Time]
  BY <1>1, <1>2, <1>3
<1>5. ClockLinked'
  BY <1>1, <1>2, <1>3 DEF ClockLinked, Running
<1>6. nextTimerRefresh' \in Time /\ (~mutexRefreshTimer => Behind')
  BY <1>4, Rebuilds DEF fnTimerStart
<1>7. QED
  BY <1>4, <1>5, <1>6 DEF TimersTyped

LEMMA EndKeeps ==
  ASSUME TypeOK, ClockLinked, now' = now, NEW t \in Timers, EndsTimer(t)
  PROVE  /\ timer_will_expire' \in [Timers -> Time \cup {NotRunning}]
         /\ left' \in [Timers -> Time]
         /\ ClockLinked'
<1>1. /\ timer_will_expire' = [timer_will_expire EXCEPT ![t] = NotRunning]
      /\ left' = [left EXCEPT ![t] = 0]
      /\ left \in [Timers -> Time] /\ 0 \in Time
      /\ timer_will_expire \in [Timers -> Time \cup {NotRunning}]
  BY Constants DEF EndsTimer, TypeOK, Time
<1>2. QED
  BY <1>1 DEF ClockLinked, Running

(* The timeout of a sleep is a time, no longer than nextTimerRefresh says. *)
LEMMA SleepTimeBounds ==
  ASSUME TypeOK
  PROVE  /\ SleepTime \in Nat /\ SleepTime <= SCREEN_REFRESH_PERIOD
         /\ SleepTime <= IF nextTimerRefresh > now THEN nextTimerRefresh - now ELSE 1
<1> DEFINE until == IF nextTimerRefresh > now THEN nextTimerRefresh - now ELSE 1
           S == {SCREEN_REFRESH_PERIOD, until}
                \cup {SleepCap[t] : t \in {u \in Timers : Running(u)}}
<1>1. S \in SUBSET Nat
  <2>1. until \in Nat /\ SCREEN_REFRESH_PERIOD \in Nat
    BY Constants DEF TypeOK, Time
  <2>2. \A t \in Timers : SleepCap[t] \in Nat
    BY TimersAssumption
  <2> HIDE DEF until
  <2>3. QED
    BY <2>1, <2>2
<1>2. SCREEN_REFRESH_PERIOD \in S /\ until \in S
  OBVIOUS
<1>3. SleepTime = CHOOSE x \in S : \A y \in S : x <= y
  BY DEF SleepTime, Min
<1> HIDE DEF S
<1>4. \E x \in S : \A y \in S : x <= y
  BY <1>1, <1>2, LeastOfNaturals
<1>5. SleepTime \in S /\ \A y \in S : SleepTime <= y
  BY <1>3, <1>4
<1>6. QED
  BY <1>1, <1>2, <1>5

---------------------------------------------------------------------------
(* Init satisfies the invariant.                                           *)
LEMMA InitInv == Init => Inv
<1> SUFFICES ASSUME Init PROVE Inv
  OBVIOUS
<1>1. TypeOK
  <2>1. NoPass \in [time : Time, i : 0 .. TMR_NUMBER] /\ 0 \in Time
    BY Constants DEF NoPass, Time
  <2>2. 0 \in 0 .. Forever /\ SCREEN_REFRESH_PERIOD \in Time
    BY Constants
  <2>3. QED
    BY <2>1, <2>2 DEF Init, TypeOK
<1>2. \A t \in Timers : ~Running(t)
  BY DEF Init, Running
<1>3. QED
  BY <1>1, <1>2
     DEF Init, Inv, PassInside, HandlerHasKey, ClockLinked, RefreshBehind,
         Behind, SleepBounded

(* What a call from a handler or a callback keeps.                         *)
LEMMA CallKeeps == Inv /\ Call => Inv'
<1> SUFFICES ASSUME Inv, Call PROVE Inv'
  OBVIOUS
<1>1. /\ TypeOK /\ ClockLinked /\ pc \in {"handler", "callback"}
      /\ UNCHANGED <<now, timerLastCalled, mutexRefreshTimer, pc, pass, sleep,
                     key, interrupt, pgmEnd, suspended>>
  BY DEF Inv, Call, power
<1>2. PICK t \in Timers : \/ \E delay \in Delays : fnTimerStart(t, delay)
                          \/ fnTimerStop(t)
                          \/ fnTimerExec(t)
  BY DEF Call
<1>3. TimersTyped' /\ ClockLinked'
  <2>1. CASE \E delay \in Delays : fnTimerStart(t, delay)
    BY <1>1, <2>1, StartKeeps
  <2>2. CASE fnTimerStop(t)
    BY <1>1, <2>2, EndKeeps, Rebuilds DEF fnTimerStop, TimersTyped
  <2>3. CASE fnTimerExec(t)
    BY <1>1, <2>3, EndKeeps DEF fnTimerExec, TimersTyped, TypeOK
  <2>4. QED
    BY <1>2, <2>1, <2>2, <2>3
<1>4. TypeOK'
  BY <1>1, <1>3 DEF TypeOK, TimersTyped
<1>5. QED
  BY <1>1, <1>3, <1>4
     DEF Inv, PassInside, HandlerHasKey, RefreshBehind, SleepBounded

(* The steps of refreshTimer.                                              *)
LEMMA RefreshKeeps ==
  Inv /\ (RefreshStep \/ CallbackEnd \/ RefreshEnd) => Inv'
<1>1. ASSUME Inv, RefreshStep PROVE Inv'
  <2>1. /\ TypeOK /\ ClockLinked /\ pc = "refresh" /\ pass.i \in Timers
        /\ pass \in [time : Time, i : 0 .. TMR_NUMBER]
        /\ UNCHANGED <<now, nextTimerRefresh, timerLastCalled, sleep, key,
                       interrupt, pgmEnd, suspended>>
    BY <1>1, Constants DEF Inv, RefreshStep, power, TypeOK, Timers
  <2>2. CASE Fires(pass.i)
    <3>1. /\ EndsTimer(pass.i) /\ mutexRefreshTimer' = TRUE
          /\ pc' = "callback" /\ pass' = pass
      BY <1>1, <2>2 DEF RefreshStep
    <3>2. /\ timer_will_expire' \in [Timers -> Time \cup {NotRunning}]
          /\ left' \in [Timers -> Time] /\ ClockLinked'
      BY <2>1, <3>1, EndKeeps
    <3>3. TypeOK'
      BY <2>1, <3>1, <3>2 DEF TypeOK
    <3>4. PassInside'
      BY <2>1, <3>1, Constants DEF PassInside, Timers
    <3>5. QED
      BY <1>1, <2>1, <3>1, <3>2, <3>3, <3>4
         DEF Inv, HandlerHasKey, RefreshBehind, SleepBounded
  <2>3. CASE ~Fires(pass.i)
    <3>1. /\ pass' = [pass EXCEPT !.i = @ + 1]
          /\ UNCHANGED <<timer_will_expire, left, mutexRefreshTimer, pc>>
      BY <1>1, <2>3 DEF RefreshStep
    <3>2. pass' \in [time : Time, i : 0 .. TMR_NUMBER]
      BY <2>1, <3>1, Constants DEF Timers
    <3>3. TypeOK'
      BY <2>1, <3>1, <3>2 DEF TypeOK
    <3>4. QED
      BY <1>1, <2>1, <3>1, <3>3
         DEF Inv, PassInside, HandlerHasKey, ClockLinked, Running, RefreshBehind,
             SleepBounded
  <2>4. QED
    BY <2>2, <2>3
<1>2. ASSUME Inv, CallbackEnd PROVE Inv'
  <2>1. /\ TypeOK /\ ClockLinked /\ pass.i < TMR_NUMBER /\ pc' = "refresh"
        /\ pass \in [time : Time, i : 0 .. TMR_NUMBER]
        /\ mutexRefreshTimer' = FALSE /\ pass' = [pass EXCEPT !.i = @ + 1]
        /\ UNCHANGED <<now, timer_will_expire, left, nextTimerRefresh,
                       timerLastCalled, sleep, key, interrupt, pgmEnd, suspended>>
    BY <1>2 DEF Inv, CallbackEnd, PassInside, TypeOK, timers, power
  <2>2. pass' \in [time : Time, i : 0 .. TMR_NUMBER]
    BY <2>1, Constants
  <2>3. TypeOK'
    BY <2>1, <2>2 DEF TypeOK
  <2>4. QED
    BY <1>2, <2>1, <2>3
       DEF Inv, PassInside, HandlerHasKey, ClockLinked, Running, RefreshBehind,
           SleepBounded
<1>3. ASSUME Inv, RefreshEnd PROVE Inv'
  <2>1. /\ TypeOK /\ ClockLinked /\ pc = "refresh" /\ pc' = "top"
        /\ ~mutexRefreshTimer /\ fnRebuildTimerRefresh
        /\ timerLastCalled' = pass.time /\ pass' = NoPass
        /\ UNCHANGED <<now, timer_will_expire, left, mutexRefreshTimer, sleep, key,
                       interrupt, pgmEnd, suspended>>
    BY <1>3 DEF Inv, RefreshEnd, TypeOK, power
  <2>2. nextTimerRefresh' \in Time /\ Behind'
    BY <2>1, Rebuilds DEF TypeOK
  <2>3. NoPass \in [time : Time, i : 0 .. TMR_NUMBER]
    BY Constants DEF NoPass, Time
  <2>4. TypeOK'
    BY <2>1, <2>2, <2>3 DEF TypeOK
  <2>5. QED
    BY <1>3, <2>1, <2>2, <2>4
       DEF Inv, PassInside, HandlerHasKey, ClockLinked, Running, RefreshBehind,
           SleepBounded
<1>4. QED
  BY <1>1, <1>2, <1>3

(* Falling asleep: what nextTimerRefresh promises becomes the timeout's.   *)
LEMMA SleepKeeps == Inv /\ Sleep => Inv'
<1> SUFFICES ASSUME Inv, Sleep PROVE Inv'
  OBVIOUS
<1>1. /\ TypeOK /\ ClockLinked /\ Behind /\ pc = "top"
      /\ pc' \in {"asleep", "awake"}
      /\ UNCHANGED <<now, timer_will_expire, left, nextTimerRefresh, timerLastCalled,
                     mutexRefreshTimer, pass, key, interrupt, pgmEnd, suspended>>
  BY DEF Inv, Sleep, RefreshBehind, timers, power
<1>2. /\ SleepTime \in Nat /\ SleepTime <= SCREEN_REFRESH_PERIOD
      /\ SleepTime <= IF nextTimerRefresh > now THEN nextTimerRefresh - now ELSE 1
  BY <1>1, SleepTimeBounds
<1>3. /\ now \in Nat /\ now < Wrap /\ nextTimerRefresh \in Nat
      /\ Wrap \in Nat \ {0} /\ SCREEN_REFRESH_PERIOD \in Nat /\ Forever \in Nat
      /\ Forever = SCREEN_REFRESH_PERIOD + 1 /\ sleep \in 0 .. Forever
  BY <1>1, Constants DEF TypeOK, Time, Forever
<1>4. sleep' \in {sleep, Forever, SleepTime}
  BY DEF Sleep
<1>5. sleep' \in 0 .. Forever
  BY <1>2, <1>3, <1>4
<1>6. TypeOK'
  BY <1>1, <1>5 DEF TypeOK
<1>7. SleepBounded'
  <2> SUFFICES ASSUME pc' = "asleep", ~suspended, ~pgmEnd, ~ZeroHides,
                      NEW t \in Timers, Running(t)
               PROVE  sleep' # Forever /\ sleep' <= Rest(t)
    BY <1>1 DEF SleepBounded, ZeroHides, Running, Rest
  <2>1. nextTimerRefresh # 0 /\ nextTimerRefresh <= timer_will_expire[t]
    BY <1>1 DEF Behind
  <2>2. sleep' = SleepTime
    BY <2>1 DEF Sleep
  <2>3. /\ timer_will_expire[t] \in Nat /\ timer_will_expire[t] < Wrap
        /\ left[t] \in Nat /\ left[t] < Wrap
    BY <1>1, Constants DEF TypeOK, Running, Time, NotRunning
  <2>4. left[t] > 0 => timer_will_expire[t] \in {now + left[t], now + left[t] - Wrap}
    BY <1>1 DEF ClockLinked
  <2> HIDE DEF SleepTime
  <2>5. QED
    BY <1>2, <1>3, <2>1, <2>2, <2>3, <2>4 DEF Rest
<1>8. QED
  BY <1>1, <1>6, <1>7
     DEF Inv, PassInside, HandlerHasKey, ClockLinked, Running, RefreshBehind, Behind,
         ZeroHides

(* The steps of the loop that start or check timers.                       *)
LEMMA LoopKeeps ==
  Inv /\ (Wake \/ Interrupted \/ GoOff \/ GoOn \/ HandlerEnd \/ Check) => Inv'
<1>1. ASSUME Inv, Wake PROVE Inv'
  <2>1. 0 \in 0 .. Forever
    BY Constants
  <2>2. TypeOK'
    BY <1>1, <2>1 DEF Inv, Wake, TypeOK, timers, power
  <2>3. QED
    BY <1>1, <2>2
       DEF Inv, Wake, PassInside, HandlerHasKey, ClockLinked, Running, RefreshBehind,
           Behind, ZeroHides, SleepBounded, timers, power
<1>2. ASSUME Inv, Interrupted PROVE Inv'
  <2>1. /\ TypeOK /\ ClockLinked /\ Behind /\ pc = "awake" /\ ~mutexRefreshTimer
        /\ pc' = "top" /\ interrupt' = "none"
        /\ UNCHANGED <<now, timerLastCalled, mutexRefreshTimer, pass, sleep, key,
                       pgmEnd, suspended>>
    BY <1>2 DEF Inv, Interrupted, RefreshBehind, TypeOK, power
  <2>2. TimersTyped' /\ ClockLinked' /\ Behind'
    <3>1. CASE \E delay \in Delays : fnTimerStart(TO_KB_ACTV, delay)
      BY <2>1, <3>1, StartKeeps, Constants
    <3>2. CASE UNCHANGED timers
      BY <2>1, <3>2
         DEF timers, TypeOK, TimersTyped, ClockLinked, Behind, ZeroHides, Running
    <3>3. QED
      BY <1>2, <3>1, <3>2 DEF Interrupted
  <2>3. TypeOK'
    BY <2>1, <2>2 DEF TypeOK, TimersTyped
  <2>4. QED
    BY <1>2, <2>1, <2>2, <2>3
       DEF Inv, PassInside, HandlerHasKey, RefreshBehind, SleepBounded
<1>3. ASSUME Inv, GoOff \/ GoOn PROVE Inv'
  <2>1. /\ TypeOK /\ ClockLinked /\ Behind /\ pc = "awake"
        /\ UNCHANGED <<now, timer_will_expire, left, nextTimerRefresh, timerLastCalled,
                       mutexRefreshTimer, pass, sleep, key, interrupt, pgmEnd>>
        /\ pc' \in {"top", "handler", "check"} /\ suspended' \in BOOLEAN
    BY <1>3 DEF Inv, GoOff, GoOn, RefreshBehind, timers
  <2>2. TypeOK'
    BY <2>1 DEF TypeOK
  <2>3. HandlerHasKey'
    BY <1>3 DEF Inv, GoOff, GoOn, HandlerHasKey
  <2>4. QED
    BY <1>3, <2>1, <2>2, <2>3
       DEF Inv, PassInside, ClockLinked, Running, RefreshBehind, Behind, ZeroHides,
           SleepBounded
<1>4. ASSUME Inv, HandlerEnd PROVE Inv'
  <2>1. /\ TypeOK /\ ClockLinked /\ pc = "handler" /\ key /\ ~suspended
        /\ ~mutexRefreshTimer /\ pc' = "check" /\ key' = FALSE
        /\ UNCHANGED <<now, timerLastCalled, mutexRefreshTimer, pass, sleep,
                       interrupt, pgmEnd, suspended>>
    BY <1>4 DEF Inv, HandlerEnd, HandlerHasKey, TypeOK, power
  <2>2. \/ \E delay \in Delays : fnTimerStart(TO_KB_ACTV, delay)
        \/ \E t \in Timers : fnTimerStop(t)
    BY <1>4, <2>1 DEF HandlerEnd
  <2>3. TimersTyped' /\ ClockLinked' /\ Behind'
    <3>1. CASE \E delay \in Delays : fnTimerStart(TO_KB_ACTV, delay)
      BY <2>1, <3>1, StartKeeps, Constants
    <3>2. CASE \E t \in Timers : fnTimerStop(t)
      <4>1. PICK t \in Timers : fnTimerStop(t)
        BY <3>2
      <4> QED BY <2>1, <4>1, EndKeeps, Rebuilds DEF fnTimerStop, TimersTyped
    <3> QED BY <2>2, <3>1, <3>2
  <2>4. TypeOK'
    BY <2>1, <2>3 DEF TypeOK, TimersTyped
  <2>5. QED
    BY <2>1, <2>3, <2>4
       DEF Inv, PassInside, HandlerHasKey, RefreshBehind, SleepBounded
<1>5. ASSUME Inv, Check PROVE Inv'
  <2>1. /\ TypeOK /\ ClockLinked /\ Behind /\ pc = "check" /\ pc' \in {"refresh", "top"}
        /\ pass' \in {pass, [time |-> now, i |-> 0]}
        /\ UNCHANGED <<now, timer_will_expire, left, nextTimerRefresh, timerLastCalled,
                       mutexRefreshTimer, sleep, key, interrupt, pgmEnd, suspended>>
    BY <1>5 DEF Inv, Check, StartPass, RefreshBehind, timers, power
  <2>2. pass' \in [time : Time, i : 0 .. TMR_NUMBER]
    BY <2>1, Constants DEF TypeOK
  <2>3. TypeOK'
    BY <2>1, <2>2 DEF TypeOK
  <2>4. QED
    BY <1>5, <2>1, <2>3
       DEF Inv, PassInside, HandlerHasKey, ClockLinked, Running, RefreshBehind, Behind,
           ZeroHides, SleepBounded
<1>6. QED
  BY <1>1, <1>2, <1>3, <1>4, <1>5

(* Time passes, and with it what is left of the waits and of the sleep.    *)
LEMMA TickKeeps == Inv /\ Tick => Inv'
<1> SUFFICES ASSUME Inv, Tick PROVE Inv'
  OBVIOUS
<1>1. /\ TypeOK /\ ClockLinked /\ now' = (now + 1) % Wrap
      /\ left' = [t \in Timers |-> IF left[t] = 0 THEN 0 ELSE left[t] - 1]
      /\ UNCHANGED <<timer_will_expire, nextTimerRefresh, timerLastCalled,
                     mutexRefreshTimer, pc, pass, pgmEnd, suspended>>
  BY DEF Inv, Tick, power
<1>2. /\ now \in Nat /\ now < Wrap /\ Wrap \in Nat \ {0} /\ Forever \in Nat
      /\ sleep \in 0 .. Forever
      /\ \A t \in Timers : left[t] \in Nat /\ left[t] < Wrap
      /\ \A t \in Timers : Running(t) =>
           timer_will_expire[t] \in Nat /\ timer_will_expire[t] < Wrap
  BY <1>1, Constants DEF TypeOK, Time, Running, NotRunning
<1>3. now' = IF now + 1 < Wrap THEN now + 1 ELSE 0
  <2> DEFINE x == now + 1
  <2>1. x \in Nat /\ x < 2 * Wrap /\ Wrap \in Nat \ {0} /\ x <= Wrap
    BY <1>2
  <2>2. x % Wrap = IF x < Wrap THEN x ELSE x - Wrap
    <3> HIDE DEF x
    <3>1. QED
      BY <2>1, ModWrap
  <2>3. QED
    BY <1>1, <1>2, <2>1, <2>2
<1>4. /\ now' \in Time /\ left' \in [Timers -> Time]
  BY <1>1, <1>2, <1>3 DEF Time
<1>5. /\ key' \in BOOLEAN /\ interrupt' \in {"none", "clock", "power"}
      /\ key => key'
  BY <1>1 DEF Tick, TypeOK
<1>6. /\ pc # "asleep" \/ sleep = Forever => sleep' = sleep
      /\ pc = "asleep" /\ sleep # Forever => sleep' = sleep - 1 /\ sleep # 0
  BY DEF Tick
<1>7. sleep' \in 0 .. Forever
  BY <1>2, <1>6
<1>8. TypeOK'
  BY <1>1, <1>4, <1>5, <1>7 DEF TypeOK
<1>9. ClockLinked'
  <2> SUFFICES ASSUME NEW t \in Timers, Running(t), left'[t] > 0
               PROVE  timer_will_expire[t] \in {now' + left'[t], now' + left'[t] - Wrap}
    BY <1>1 DEF ClockLinked, Running
  <2>1. left'[t] = left[t] - 1 /\ left[t] > 0 /\ left[t] \in Nat
    BY <1>1, <1>2
  <2>2. timer_will_expire[t] \in {now + left[t], now + left[t] - Wrap}
    BY <1>1, <2>1 DEF ClockLinked
  <2>3. QED
    BY <1>2, <1>3, <2>1, <2>2
<1>10. SleepBounded'
  <2> SUFFICES ASSUME pc = "asleep", ~suspended, ~pgmEnd, ~ZeroHides,
                      NEW t \in Timers, Running(t)
               PROVE  sleep' # Forever /\ sleep' <= Rest(t)'
    BY <1>1 DEF SleepBounded, ZeroHides, Running
  <2>1. sleep # Forever /\ sleep <= Rest(t)
    BY DEF Inv, SleepBounded
  <2>2. sleep' = sleep - 1 /\ sleep # 0
    BY <1>6, <2>1
  <2>3. left'[t] = IF left[t] = 0 THEN 0 ELSE left[t] - 1
    BY <1>1
  <2>4. QED
    BY <1>1, <1>2, <1>3, <2>1, <2>2, <2>3 DEF Rest
<1>11. QED
  BY <1>1, <1>5, <1>8, <1>9, <1>10
     DEF Inv, PassInside, HandlerHasKey, RefreshBehind, Behind, ZeroHides, Running

(* Off and on.                                                             *)
LEMMA SwitchKeeps == Inv /\ (SwitchOff \/ SwitchOn) => Inv'
<1> SUFFICES ASSUME Inv, SwitchOff \/ SwitchOn PROVE Inv'
  OBVIOUS
<1>1. TypeOK'
  BY DEF Inv, SwitchOff, SwitchOn, TypeOK, timers
<1>2. QED
  BY <1>1
     DEF Inv, SwitchOff, SwitchOn, PassInside, HandlerHasKey, ClockLinked, Running,
         RefreshBehind, Behind, ZeroHides, SleepBounded, timers

(* Every step keeps the invariant.                                         *)
LEMMA NextInv == Inv /\ [Next]_vars => Inv'
<1>1. Inv /\ UNCHANGED vars => Inv'
  BY DEF vars, timers, power, Inv, TypeOK, PassInside, HandlerHasKey, ClockLinked,
         Running, RefreshBehind, Behind, ZeroHides, SleepBounded, Rest
<1>2. QED
  BY <1>1, CallKeeps, RefreshKeeps, SleepKeeps, LoopKeeps, TickKeeps, SwitchKeeps
     DEF Next, MainLoop

---------------------------------------------------------------------------
(* The invariant holds at all times.                                       *)
THEOREM TimersInvariant == Spec => []Inv
BY InitInv, NextInv, PTL DEF Spec

(***************************************************************************)
(* Times stay within the counter, and the mutex of refreshTimer is held    *)
(* exactly while a callback runs.                                          *)
(***************************************************************************)
THEOREM TimersTypeCorrect == Spec => []TypeOK
BY TimersInvariant, PTL DEF Inv

(***************************************************************************)
(* The calculator never sleeps past a timer that the counter does not      *)
(* hide, whatever handlers and callbacks did to the timers before: the     *)
(* main loop's timeout and fnRebuildTimerRefresh together.                 *)
(***************************************************************************)
THEOREM NoSleepPastTimers == Spec => []NeverSleepsPast
<1>1. Inv => NeverSleepsPast
  <2> SUFFICES ASSUME Inv, pc = "asleep", ~suspended, ~pgmEnd, ~ZeroHides,
                      NEW t \in Timers, Running(t)
               PROVE  WrapHides(t) \/ sleep <= IF left[t] = 0 THEN 1 ELSE left[t]
    BY DEF NeverSleepsPast
  <2>1. sleep # Forever /\ sleep <= Rest(t)
    BY DEF Inv, SleepBounded
  <2>2. left[t] \in Nat
    BY Constants DEF Inv, TypeOK, Time
  <2>3. QED
    BY <2>1, <2>2 DEF Rest, WrapHides
<1>2. QED
  BY <1>1, TimersInvariant, PTL

(***************************************************************************)
(* refreshTimer fires no timer before its time, except where the counter   *)
(* has wrapped.                                                            *)
(***************************************************************************)
THEOREM NoTimerEarly == Spec => NeverEarly
<1> DEFINE Early(t) == /\ pc = "refresh" /\ Running(t) /\ ~Running(t)' /\ left[t] > 0
                       /\ ~ (\/ now + left[t] >= Wrap
                             \/ now < pass.time
                             \/ pass.time < timerLastCalled)
<1>1. Inv /\ [Next]_vars => [\A t \in Timers : ~Early(t)]_vars
  <2> SUFFICES ASSUME Inv, Next, NEW t \in Timers, Early(t) PROVE FALSE
    OBVIOUS
  <2>1. RefreshStep
    BY DEF Next, MainLoop, Sleep, Wake, Interrupted, GoOff, GoOn, HandlerEnd, Check,
           CallbackEnd, RefreshEnd, Call, Tick, SwitchOff, SwitchOn, timers, Running
  <2>2. Fires(pass.i) /\ t = pass.i
    BY <2>1 DEF RefreshStep, EndsTimer, Running, Inv, TypeOK
  <2>3. timer_will_expire[t] <= pass.time
    BY <2>2 DEF Fires, Expired
  <2>4. timer_will_expire[t] \in {now + left[t], now + left[t] - Wrap}
    BY DEF Inv, ClockLinked
  <2>5. /\ timer_will_expire[t] \in Nat /\ left[t] \in Nat /\ now \in Nat
        /\ pass.time \in Nat /\ Wrap \in Nat
    BY Constants DEF Inv, TypeOK, Time, Running, NotRunning
  <2>6. QED
    BY <2>3, <2>4, <2>5
<1>2. [\A t \in Timers : ~Early(t)]_vars =>
      [\A t \in Timers :
         pc = "refresh" /\ Running(t) /\ ~Running(t)' /\ left[t] > 0 =>
           \/ now + left[t] >= Wrap
           \/ now < pass.time
           \/ pass.time < timerLastCalled]_vars
  OBVIOUS
<1>3. QED
  BY <1>1, <1>2, TimersInvariant, PTL DEF Spec, NeverEarly
=============================================================================
