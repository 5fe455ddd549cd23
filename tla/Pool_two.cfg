CONSTANTS
  c1 = c1
  c2 = c2
  c3 = c3
  Calls = {c1, c2, c3}
  Size = 2
  Capped = FALSE
  Uses <- CloseOnly
  Kinds = {"run"}
  None = None
  CLOSED = CLOSED
  NoSlot = NoSlot
  NoCall = NoCall
SPECIFICATION Spec
SYMMETRY Symmetry
INVARIANTS
  SlotsConserved
  HeldOnce
PROPERTIES
  KeepsPromise
