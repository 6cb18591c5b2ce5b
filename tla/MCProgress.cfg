CONSTANTS
  w = w
  s1 = s1
  a1 = a1
  c1 = c1
  t1 = t1
SPECIFICATION FairSpec
PROPERTIES CallsEnd NewsArrive
CHECK_DEADLOCK FALSE
