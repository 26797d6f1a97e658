SPECIFICATION FairSpec
CONSTANTS
  Calls = {a, b}
  StartsOnEnter = {a}
  EndsOnExit <- NoCalls
  WithCallback = {a}
  HangupOnStar = {b}
  Interests <- EndOnly
  ApiStatuses <- CompleteOnly
  HangupInWait = {a}
  MaxVerbs = 1
PROPERTIES
  ClosedQueueDrains
  HangupEndsCall
  CompletionEmptiesRoom
CHECK_DEADLOCK FALSE
