\* Two connections race over two sessions with a revoke.
SPECIFICATION FairSpec
CONSTANTS
  Conns = {c1, c2}
  Sessions = {s1, s2}
  None = None
  MaxRevokes = 2
INVARIANT NoZombie
PROPERTIES CleanedUp
CHECK_DEADLOCK FALSE
