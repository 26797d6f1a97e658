SPECIFICATION FairSpec
CONSTANTS
  k1 = k1
  pound = pound
  Keys <- Telephone
  Messages <- Typed
  Gathers <- Asked
  Senders = {s}
  NoKey = NoKey
  NoMessage = NoMessage
  MaxVerbs = 3
  MaxMessages = 2
  MaxRecordings = 2
CHECK_DEADLOCK FALSE

\* Each of these is violated; TLC reports one at a time.
INVARIANT DigitsSentOnce
\* INVARIANT RecordingIsOfItsVerb
\* INVARIANT LockIsReleased
\* PROPERTY SendersReturn
