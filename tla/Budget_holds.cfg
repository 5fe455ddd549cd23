CONSTANTS
  Path <- MCPath
  Within <- MCWithin
  Credential <- MCCredential
  Label = {"a", "b"}
  Domain = {"d"}
  Port = {80, 443}
  Module = {"math", "os"}
  Tool = {"s"}
  Constraint <- MCConstraint
  Items <- Everything
  MaxItems = 4
  MaxOps = 3
SPECIFICATION MCSpec
INVARIANTS
  OrderFree
  RoundTrips
  WithinCeiling
  WithinCounts
  OnlyAsWritten
