CONSTANTS
  w = w
  silent = silent
  s1 = s1
  s2 = s2
  t1 = t1
  t2 = t2
  q1 = q1
  q2 = q2
  p1 = p1
  p2 = p2
  noproc = noproc
  h1 = h1
  h2 = h2
  a1 = a1
  c1 = c1
  c2 = c2
SPECIFICATION FilesSpec
PROPERTIES LastChangeShown
CHECK_DEADLOCK FALSE
