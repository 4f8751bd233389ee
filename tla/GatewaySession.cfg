\* Two connections, so that a RESUME races with the old one, and a
\* replay buffer of one frame, so that a RESUME can come too late. No
\* symmetry: it is not sound for liveness.
SPECIFICATION FairSpec
CONSTANTS
  Conns = {c1, c2}
  None = None
  SendBuffer = 1
  ReplayBufferSize = 1
  MaxSeq = 3
INVARIANT StreamInv
PROPERTIES ImplementsStream DetachSparesSuccessor Progress
CHECK_DEADLOCK FALSE
