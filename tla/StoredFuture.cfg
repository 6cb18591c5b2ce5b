CONSTANTS
  Procs = {p, q}
  NoProc = noproc
  ScreenPolicy = FALSE
  ScreenFallback = TRUE
  RetainActivity = FALSE
  CatalogCreates = FALSE
  Lease = 1
  MaxTime = 2
  Skew = 1
  Kinds = {"report", "sighting", "reading", "verification"}
  Activities = {"waiting"}
  Details = {"question"}
  Takeovers = FALSE
SPECIFICATION Spec
INVARIANT NeverCorrupt
CHECK_DEADLOCK FALSE
