SPECIFICATION Spec
CONSTANTS
  MaxObjects = 2
  MaxHits = 1
  Responses <- AnyResponse
  StopWaitsForCallback = FALSE
  PerformsBeforeTouches = FALSE
  None = None
  Unread = Unread
INVARIANTS
  TypeOK
  OneSession
  CancelHasSession
  NoneFreedInUse
  MeteringFollowsSession
\* The process may be killed by a memory fault.
CHECK_DEADLOCK FALSE
