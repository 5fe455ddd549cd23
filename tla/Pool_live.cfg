CONSTANTS
  c1 = c1
  c2 = c2
  Calls = {c1, c2}
  Size = 1
  Capped = FALSE
  Uses <- ClockOrClose
  Kinds = {"run"}
  None = None
  CLOSED = CLOSED
  NoSlot = NoSlot
  NoCall = NoCall
SPECIFICATION FairSpec
PROPERTIES
  CallsEnd
