SPECIFICATION FairSpec
CONSTANTS
  Offsets = {5, 90, 150}
  MaxIdentified = 2
  MaxTimers = 2
  LastSecond = 140
  Unloaded = Unloaded
INVARIANTS
  TypeOK
  TableAgrees
  BadgeTellsNews
  RowsRenderable
PROPERTIES
  FeedFollowsBroadcast
  EveryEventShown
