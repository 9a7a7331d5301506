SPECIFICATION FairSpec
CONSTANTS
  MaxObjects = 3
  MaxHits = 1
  Responses <- PartialResponse
  StopWaitsForCallback = TRUE
  PerformsBeforeTouches = FALSE
  None = None
  Unread = Unread
INVARIANTS
  OwnMatches
PROPERTIES
  QuietAfterDispose
  DisposeReturns
\* A request that outlives its session may kill the process.
CHECK_DEADLOCK FALSE
