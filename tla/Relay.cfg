SPECIFICATION Spec
CONSTANTS
  Offers <- MCOffers
  Lines <- MCLines
  MaxCalls = 2
  MaxCost = 3
  MaxLines = 2
  MaxPrints = 2
  Default = Default
  Nothing = Nothing
  Turns = 2
  MaxFrames = 4
  Capped = TRUE
  Ways = {"package", "command", "pool", "worker"}
  Sites = {"declassified", "refused"}
  Every = 3
  MaxNotes = 8
INVARIANTS
  OwnAnswer
  CeilingHeld
  DoorInOrder
  StoppedForCause
  RecordsWhole
  AtLeast
PROPERTIES
  RunsEnd
CHECK_DEADLOCK FALSE
