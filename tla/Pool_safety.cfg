CONSTANTS
  c1 = c1
  c2 = c2
  Calls = {c1, c2}
  Size = 1
  Capped = TRUE
  Uses <- ClockAndClose
  Kinds = {"run", "check"}
  None = None
  CLOSED = CLOSED
  NoSlot = NoSlot
  NoCall = NoCall
SPECIFICATION Spec
SYMMETRY Symmetry
INVARIANTS
  UsedOnceUnlessClean
  NoProcessLeft
PROPERTIES
  OwnDeadlineIsE610
