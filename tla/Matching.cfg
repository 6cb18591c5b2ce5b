CONSTANTS
  p1 = p1
  p2 = p2
  noproc = noproc
  l1 = l1
  l2 = l2
  id1 = id1
  id2 = id2
  nosid = nosid
  h1 = h1
  h2 = h2
SYMMETRY Symmetry
SPECIFICATION MatchingSpec
INVARIANTS OneLiveSession ScansDecide
PROPERTIES EndedProcessesStay
CHECK_DEADLOCK FALSE
