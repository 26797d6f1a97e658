SPECIFICATION Spec
CONSTANTS
  Legs = {l1, l2}
  Documents <- NoLegs
  BadUrls = {l2}
  HangupOnStar = FALSE
  Requests <- NoLegs
  None = None
INVARIANTS
  NoOrphanLegs
