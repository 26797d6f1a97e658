SPECIFICATION Spec
CONSTANTS
  Urls = {u1}
  NoUrl = NoUrl
  Keep = Keep
  InterestSets <- MCRingingOnly
  CallbackParams = {Keep}
\* Each of these is violated; TLC reports one at a time.
INVARIANT ToldOnlyWhatWasAsked
\* PROPERTY EndLosesNoUpdate
