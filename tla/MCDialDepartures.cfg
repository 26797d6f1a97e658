SPECIFICATION FairSpec
CONSTANTS
  Legs = {l1}
  Documents = {l1}
  BadUrls <- NoLegs
  HangupOnStar = FALSE
  Requests = {"answer", "busy", "hangup", "url"}
  None = None
CHECK_DEADLOCK FALSE

\* Each of these is violated; TLC reports one at a time.
INVARIANT AnsweredLegIsNotBusy
\* PROPERTY NoLateAnswer
\* PROPERTY CompletedLegsEndWait
\* PROPERTY LegEndsBridge
\* PROPERTY UrlUpdateEndsBridge
