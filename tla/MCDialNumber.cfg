SPECIFICATION Spec
CONSTANTS
  Legs = {l1, l2}
  Documents = {l1, l2}
  BadUrls = {l1, l2}
  HangupOnStar = TRUE
  Requests = {"answer", "busy", "failed", "hangup", "close"}
  None = None
INVARIANTS
  OutcomeHasReason
  LegsAreHungUp
SYMMETRY LegSymmetry
