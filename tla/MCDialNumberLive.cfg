SPECIFICATION FairSpec
CONSTANTS
  Legs = {l1, l2}
  Documents <- NoLegs
  BadUrls <- NoLegs
  HangupOnStar = FALSE
  Requests = {"answer", "busy", "url"}
  None = None
PROPERTIES
  RefusalsEndWait
  LosersEnd
  HangupEndsDial
  MonitorsExit
