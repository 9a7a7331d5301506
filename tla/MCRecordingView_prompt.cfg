SPECIFICATION FairSpec
CONSTANTS
  MaxObjects = 2
  MaxHits = 2
  Responses <- AnyResponse
  StopWaitsForCallback = TRUE
  PerformsBeforeTouches = TRUE
  None = None
  Unread = Unread
INVARIANTS
  NoCrash
  WholeOffsets
PROPERTIES
  EveryIdentificationCallsBack
  EveryMatchFed
