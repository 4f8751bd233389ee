\* The stage: three users, of whom one is restricted, and a window that the
\* second outgrows.  Texts: two handlers, two planes with a worker each and the backfill, a
\* queue of one.  Sight: the author a, one user u1 he may address, one who
\* manages messages.  Sounds: one pack, and four handlers in all.
CONSTANTS
  r1 = r1
  r2 = r2
  w1 = w1
  w2 = w2
  b = b
  f1 = f1
  f2 = f2
  a = a
  u1 = u1
  m = m
  l1 = l1
  l2 = l2
  l3 = l3
  None = None
  Listeners = {l1, l2, l3}
  Restricted = {l3}
  CapacityWindow = 1
  HardMaxSpeakers = 2
  MaxQueueLength = 2
  Requests = {r1, r2}
  Workers = {w1, w2, b}
  Backfill = b
  QueueSize = 1
  MaxTexts = 3
  Uploads = {f1, f2}
  Users = {a, u1, m}
  Author = a
  Reactor = u1
  Managers = {m}
  MaxEdits = 1
  MaxMessages = 4
  MaxPasswords = 2
  MaxHandlers = 4
SPECIFICATION Spec
SYMMETRY Symmetry
CHECK_DEADLOCK FALSE
INVARIANTS
  TextsAreTrue FilesServed ReachesAudience ReadsAreTrue
  ChannelsAreTrue SettledRoom
PROPERTIES SeatsAreFair
