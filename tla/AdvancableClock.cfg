SPECIFICATION FairSpec
CONSTANTS
  Threads = {tick, x}
  Ticker = tick
  Timers = {t, u}
  NoTimer = NoTimer
  Durations = {0, 2}
  Steps = {1}
  MaxReal = 3
  MaxAdvanced = 1
INVARIANTS
  TimeIsConserved
  RunsOnce
  NothingIsOverdue
PROPERTY
  TimersFire
