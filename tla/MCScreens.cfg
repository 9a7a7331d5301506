CONSTANTS
  Rows = {r1, r2, r3}
  Cells = {c1, c2}
  MaxLoads = 1
  LoadsBeforeReuse = TRUE
  MaxContent = 4
  Screen = 2
  Events <- FeedEvents
  MaxItems = 6
  None = None
  DefaultPicture = DefaultPicture
  NoPicture = NoPicture
SPECIFICATION ScreensSpec
INVARIANTS CommentsSound MyContentSound DetailsSound ValueOnSimpleLines
PROPERTY EveryRowLoaded
