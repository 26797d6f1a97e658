SPECIFICATION Spec
CONSTANTS
  Calls = {c1, c2}
  Dialers <- NoCalls
  HangupOnStar <- NoCalls
  None = None
  HangupInWait <- NoCalls
  MaxVerbs = 1
INVARIANTS
  CallersMeetAgents
