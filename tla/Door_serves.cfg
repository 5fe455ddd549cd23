CONSTANTS
  r1 = r1
  r2 = r2
  r3 = r3
  r4 = r4
  b1 = b1
  b2 = b2
  b3 = b3
  b4 = b4
  a1 = a1
  a2 = a2
  Requests = {r1, r2, r3, r4}
  Budgets = {b1, b2, b3, b4}
  Ceiling = {b1, b2, b3}
  Addresses = {a1, a2}
  Scenes <- Serving
  Size = 1
  Keep = 2
  Remember = 2
  Refill = 2
  Token = Token
  Checker = Checker
  None = None
SPECIFICATION FairSpec
INVARIANTS
  RateHeld
  OwnAllowance
  CutByOthersOnly
  PoolsBounded
  NothingOutlives
PROPERTIES
  Settles
