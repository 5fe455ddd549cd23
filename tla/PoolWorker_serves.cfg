CONSTANTS
  MaxRequests = 3
  MaxCalls = 2
SPECIFICATION FairSpec
INVARIANTS
  AnswersItsRequest
  ConfinedAsTold
  LeavesNothing
PROPERTIES
  NeitherWaits
