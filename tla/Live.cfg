\* Migration without faults, with two rooms to join.  Interactions: a button
\* pressed twice and two calls of the bot at a time.
SPECIFICATION MCSpec
CONSTANTS
  Nodes = {n1, n2}
  Rooms = {r1, r2}
  Jobs = {j1}
  Priorities = {10}
  MaxJoins = 1
  MaxFaults = 0
  None = None
  Presses = {i1, i2}
  Callbacks = {c1, c2}
PROPERTIES EndsUnaided EndsOnce
CHECK_DEADLOCK FALSE
