SPECIFICATION Spec
CONSTANTS
  MaxObjects = 2
  MaxHits = 1
  Responses <- AnyResponse
  StopWaitsForCallback = TRUE
  PerformsBeforeTouches = FALSE
  None = None
  Unread = Unread
PROPERTIES
  EveryIdentificationCallsBack
