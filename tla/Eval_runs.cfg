CONSTANTS
  c1 = c1
  Calls = {c1}
  Size = 1
  Capped = TRUE
  Uses <- EvalPool
  Kinds = {"run"}
  None = None
  CLOSED = CLOSED
  NoSlot = NoSlot
  NoCall = NoCall
  MaxSignals = 1
  Watched = TRUE
SPECIFICATION EvalFairSpec
INVARIANTS
  StopTold
  CompleteIsOwn
  ReceiptWhole
  NothingLeft
PROPERTIES
  EvalEnds
