SPECIFICATION FairSpec
CONSTANTS
  Calls = {d1, c1}
  Dialers = {d1}
  HangupOnStar = {d1}
  None = None
  HangupInWait = {c1}
  MaxVerbs = 2
INVARIANTS
  MembersAreWaiting
  NotLeftAlone
PROPERTIES
  HangupEndsCall
  ShutdownEmptiesQueue
