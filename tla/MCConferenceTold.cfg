SPECIFICATION Spec
CONSTANTS
  Calls = {a, b}
  StartsOnEnter = {a}
  EndsOnExit = {b}
  WithCallback = {a, b}
  HangupOnStar <- NoCalls
  Interests <- AllEvents
  ApiStatuses = {"in-progress"}
  HangupInWait <- NoCalls
  MaxVerbs = 2
INVARIANTS
  ParticipantsAreInside
  CallbacksTellTheRoom
  CallbacksInOrder
CHECK_DEADLOCK FALSE
