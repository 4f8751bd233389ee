\* Two handlers at a time in each part; bounds on the tokens, the rows and the
\* ledger that let every handler run at least twice.
CONSTANTS
  r1 = r1
  r2 = r2
  u1 = u1
  u2 = u2
  v1 = v1
  v2 = v2
  v3 = v3
  a = a
  b = b
  g = g
  p = p
  None = None
  Requests = {r1, r2}
  Users = {u1, u2}
  MaxUses = 2
  MaxIds = 3
  GuildHandlers = 5
  MaxTokens = 3
  MaxPasswords = 2
  Registrants = {v1, v2, v3}
  RegistrationUses = 1
  Scopes = {g, p}
  AdminScopes = {p}
  MaxAgentTokens = 2
  MaxLedger = 3
  MaxCount = 3
  Cap = 2
  Two = {a, b}
  Rate = 1
  Burst = 1
  MaxTime = 2
  MaxHandlers = 4
SPECIFICATION Spec
SYMMETRY Symmetry
CHECK_DEADLOCK FALSE
INVARIANTS
  MembersAreTrue RevokedStaysOut PlatformIsHeld MachinesAreHeld PointsAddUp
  SocialIsTrue
