SPECIFICATION PromptSpec
CONSTANTS
  j1 = j1
  j2 = j2
  d1 = d1
  d2 = d2
  Jobs = {j1, j2}
  Drivers = {d1, d2}
  Redispatches = {}
  None = None
  CandidateLimit = 2
  OfferTtl = 2
  LockTtl = 3
  Patches = {}
  MaxFailures = 0
SYMMETRY Symmetry
INVARIANTS
  OneJobPerDriver
CHECK_DEADLOCK FALSE
