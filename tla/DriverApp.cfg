SPECIFICATION PromptSpec
CONSTANTS
  j1 = j1
  j2 = j2
  d1 = d1
  r1 = r1
  Jobs = {j1, j2}
  Drivers = {d1}
  Redispatches = {r1}
  None = None
  CandidateLimit = 1
  OfferTtl = 1
  LockTtl = 1
  Patches = {}
  MaxFailures = 1
  MaxDrops = 1
SYMMETRY Symmetry
INVARIANTS
  AppTypeOK
  OfferShown
  UpdatesEarned
  PhoneAgrees
  FreedWhenDone
CHECK_DEADLOCK FALSE
