SPECIFICATION FairSpec
CONSTANTS
  k1 = k1
  pound = pound
  Keys <- Telephone
  Messages <- Typed
  Gathers <- Asked
  Senders = {s}
  NoKey = NoKey
  NoMessage = NoMessage
  MaxVerbs = 2
  MaxMessages = 2
  MaxRecordings = 2
INVARIANTS
  GatherHearsItsKeys
  ActionDigitsSentOnce
  RecordingsAreReported
PROPERTY
  HangupEndsCall
