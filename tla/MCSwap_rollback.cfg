CONSTANTS
  FileSizes = {8}
  block_size = 2
  MaxBody = 1
  Leftovers = {0}
  Garbage = Garbage
SPECIFICATION Spec
INVARIANT RetrievedInOrder
CHECK_DEADLOCK FALSE
