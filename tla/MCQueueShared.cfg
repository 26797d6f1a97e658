SPECIFICATION Spec
CONSTANTS
  Calls = {d1, d2, c1}
  Dialers = {d1, d2}
  HangupOnStar <- NoCalls
  None = None
  HangupInWait <- NoCalls
  MaxVerbs = 1
INVARIANTS
  OneBridgePerMember
