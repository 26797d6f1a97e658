SPECIFICATION Spec
CONSTANTS
  Threads = {tick, x}
  Ticker = tick
  Timers = {t, u}
  NoTimer = NoTimer
  Durations = {0, 2}
  Steps = {1}
  MaxReal = 3
  MaxAdvanced = 1
CHECK_DEADLOCK FALSE

\* Each of these is violated; TLC reports one at a time.
INVARIANT FiresInOrder
\* INVARIANT NowKeepsUp
\* PROPERTY StopPrevents
