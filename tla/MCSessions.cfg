CONSTANTS
  Procs = {p, q}
  NoProc = noproc
  ScreenPolicy = FALSE
  ScreenFallback = TRUE
  RetainActivity = FALSE
  CatalogCreates = FALSE
  Lease = 1
  MaxTime = 4
  Sources = {"report", "sighting", "reading"}
  Numbered = FALSE
  Bare = {}
SYMMETRY Symmetry
SPECIFICATION MCSpec
INVARIANTS TypeOK StoredStateValid ActivityIsOwn NoFutureEvidence ExitEnds GoneIsTrue
INVARIANTS SessionsAreTrue ViewsAgree
PROPERTIES EvidenceNeverRegresses DecisionNeverRegresses
CHECK_DEADLOCK FALSE
