CONSTANTS
  Rows = {r1, r2, r3}
  Cells = {c1, c2}
  MaxLoads = 2
  LoadsBeforeReuse = FALSE
  None = None
  DefaultPicture = DefaultPicture
  NoPicture = NoPicture
SPECIFICATION Spec
INVARIANT NoForeignPicture
