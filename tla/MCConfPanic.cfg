SPECIFICATION Spec
CONSTANTS
  Calls = {a, b}
  StartsOnEnter = {a, b}
  EndsOnExit <- NoCalls
  WithCallback = {a, b}
  HangupOnStar <- NoCalls
  Interests <- AllEvents
  ApiStatuses <- NoStatus
  HangupInWait <- NoCalls
  MaxVerbs = 1
INVARIANTS
  NoPanic
CHECK_DEADLOCK FALSE
