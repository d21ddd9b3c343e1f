CONSTANTS
  TMR_NUMBER = 2
  TO_KB_ACTV = 1
  Wrap = 5
  Delays = {1, 2}
  SCREEN_REFRESH_PERIOD = 3
  SleepCap <- MCSleepCap
  InterruptPeriod = 3
SPECIFICATION Spec
INVARIANTS
  TypeOK
  NeverSleepsPast
PROPERTIES
  NeverEarly
  DueTimersFire
  NoTimerKeepsAwake
