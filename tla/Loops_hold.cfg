SPECIFICATION FairSpec
CONSTANTS
  Programs <- MCPrograms
  Functions <- MCFunctions
  Names <- MCNames
  Start = "main"
  Inputs <- MCInputs
  MaxLines = 1
  DEPTH_LIMIT = 4
  MaxInt = 6
  MaxOps = 16
  Baselines = {0, 1, 2, 3, None}
  BoundLimit = 5
  None = None
  Inf = Inf
  NaN = NaN
INVARIANTS
  BoundHeld
PROPERTIES
  LoopsEnd
CHECK_DEADLOCK FALSE
