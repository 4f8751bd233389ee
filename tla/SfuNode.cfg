CONSTANTS
  s1 = s1
  s2 = s2
  Streams = {s1, s2}
  Misses = 2
  None = None
  Keep = Keep
SPECIFICATION Spec
CHECK_DEADLOCK FALSE
PROPERTIES NodeIsEntitled NodeSettles
