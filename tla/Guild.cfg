\* Two handlers at a time; one pack with one user beside its author, three
\* stickers of two pictures; one role, one member and three audited changes; one
\* restriction that runs out; two sessions and three calls; three friends of whom
\* two fit into the group; two items of two pictures; three files of public
\* pictures, and two banners.
SPECIFICATION Spec
CONSTANTS
  Two = {a, b}
  Three = {x, y, z}
  None = None
  Lost = Lost
  Owners = {"user", "guild", "role"}
  BannerLimit = 2
  Users = {u1}
  MaxPacks = 1
  MaxItems = 2
  MaxRefs = 2
  MaxPerms = 1
  Records = {s1}
  CacheTTL = 1
  MinDuration = 1
  MaxTime = 2
  MaxWrites = 1
  Sessions = {c1, c2}
  Statuses = {"dnd", "invisible"}
  Activities = {1, 2}
  MaxActivities = 1
  MaxUpdates = 2
  MaxMembers = 2
  MaxHandlers = 4
SYMMETRY Symmetry
CHECK_DEADLOCK FALSE
INVARIANTS StickersAreTrue AssetsAreTrue RightsAreTrue ShownTruly CosmeticsAreTrue
