SPECIFICATION FairSpec
CONSTANTS
  Calls = {a, b}
  StartsOnEnter = {a, b}
  EndsOnExit = {b}
  WithCallback = {a, b}
  HangupOnStar <- NoCalls
  Interests <- AllEvents
  ApiStatuses <- CompleteOnly
  HangupInWait <- NoCalls
  MaxVerbs = 2
CHECK_DEADLOCK FALSE

\* Each of these is violated; TLC reports one at a time.
PROPERTY EndNotifiesParticipants
\* PROPERTY EndedRoomReleasesWorker
\* PROPERTY JoinsAfresh
