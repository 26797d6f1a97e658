SPECIFICATION FairSpec
CONSTANTS
  Urls = {u1}
  NoUrl = NoUrl
  Keep = Keep
  InterestSets <- MCNoPreference
  CallbackParams = {Keep}
PROPERTIES
  HangupEndsRunner
  WorkerExits
  ImplementsProtocol
