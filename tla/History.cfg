CONSTANTS
  p1 = p1
  p2 = p2
  r1 = r1
  r2 = r2
  bin1 = bin1
  bin2 = bin2
  set1 = set1
  set2 = set2
SYMMETRY Symmetry
SPECIFICATION HistorySpec
INVARIANTS AnswersAreExact
PROPERTIES IndexSteps
CHECK_DEADLOCK FALSE
