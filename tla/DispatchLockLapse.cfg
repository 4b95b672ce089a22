SPECIFICATION PromptSpec
CONSTANTS
  j1 = j1
  d1 = d1
  d2 = d2
  r1 = r1
  Jobs = {j1}
  Drivers = {d1, d2}
  Redispatches = {r1}
  None = None
  CandidateLimit = 2
  OfferTtl = 2
  LockTtl = 3
  Patches = {}
  MaxFailures = 0
SYMMETRY Symmetry
INVARIANTS
  LockExcludes
CHECK_DEADLOCK FALSE
