SPECIFICATION Spec
CONSTANTS
  Urls = {u1}
  NoUrl = NoUrl
  Keep = Keep
  InterestSets <- MCInterestSets
  CallbackParams <- MCCallbackParams
INVARIANTS
  NoFault
  QueueClosedAtEnd
  RunnerEndsItsCall
  NoLostUrlUpdate
  ReportsInOrder
  ReportOfTheEnd
  OneVerbAfterEnd
