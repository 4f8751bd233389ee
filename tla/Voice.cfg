\* Migration: two jobs of different priority over three nodes, so that a retry
\* finds a node it has not tried.  Cascade: three users on a root, a leaf, and
\* a node to move to.  Two waiters and two commands at the registry; two nodes
\* of three places, with three reservations at a time; an administrator and
\* two managers; three users who report; two deployments, of which the node of
\* one connects, is barred or is deleted by others.
CONSTANTS
  n1 = n1
  n2 = n2
  n3 = n3
  j1 = j1
  j2 = j2
  r1 = r1
  u1 = u1
  u2 = u2
  u3 = u3
  a1 = a1
  p1 = p1
  p2 = p2
  t1 = t1
  t2 = t2
  None = None
  Nodes = {n1, n2, n3}
  Rooms = {r1}
  Jobs = {j1, j2}
  Priorities = {10, 20}
  MaxJoins = 0
  MaxFaults = 1
  Users = {u1, u2, u3}
  MaxEpoch = 3
  Two = {t1, t2}
  MaxWaits = 3
  SmallPool = {p1, p2}
  Admins = {a1}
  Defaults = {}
  MaxUsers <- MCMaxUsers
  Share = 1
  Life = 2
  Sustain = 2
  Window = 4
  Threshold = 3
  Cooldown <- MCCooldown
  Dedup = 2
  Interval = 1
  MaxTime = 8
  MaxLives = 1
SPECIFICATION MCSpec
SYMMETRY Symmetry
CHECK_DEADLOCK FALSE
INVARIANTS OneStar JoinedReachAnchor WaitsAreMet DeploymentsAreTrue
PROPERTIES MovesAreSafe GraphLivesWithRoom PlacedByRule FiresWithGrounds
