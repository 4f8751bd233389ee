CONSTANTS
  Channels = {c1, c2}
  Shares = {1, 2, 3, 4}
  None = None
  ChannelCap = 2
  Base = 2
SPECIFICATION FairSpec
INVARIANT QuotaHolds
PROPERTIES LoopSettles
