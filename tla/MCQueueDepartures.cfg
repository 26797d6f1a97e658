SPECIFICATION FairSpec
CONSTANTS
  Calls = {d1, c1}
  Dialers = {d1}
  HangupOnStar <- NoCalls
  None = None
  HangupInWait = {c1}
  MaxVerbs = 2
CHECK_DEADLOCK FALSE

\* Each of these is violated; TLC reports one at a time.
INVARIANT NoMissedMatch
\* INVARIANT CompletedCallsStop
\* PROPERTY StaleBridgeEnd
\* PROPERTY HangupEndsBridge
