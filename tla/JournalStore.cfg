CONSTANTS
  Writers = {w1}
  Tracker = tracker
  None = none
  Reports = {r, late, tomb}
  Late = {late}
  Tombs = {tomb}
  MaxSeq = 3
  MaxEv = 1
  MaxFaults = 1
SPECIFICATION FairSpec
INVARIANTS TypeOK FoldAgrees Durable NotResurrected JournalContiguous OwnerAgrees RefusedStaysOut SavedMeansOnDisk
PROPERTIES ImplementsRegistry EventuallySaved
CHECK_DEADLOCK FALSE
