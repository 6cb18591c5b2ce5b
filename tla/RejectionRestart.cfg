CONSTANTS
  Writers = {w1}
  Tracker = tracker
  None = none
  Reports = {r, late}
  Late = {late}
  Tombs = {}
  MaxSeq = 3
  MaxEv = 1
  MaxFaults = 0
SPECIFICATION Spec
INVARIANT RejectionSurvivesRestart
CHECK_DEADLOCK FALSE
