SPECIFICATION Spec
CONSTANTS
  Uint32s = 4
  Wide = FALSE
  PageSize = 2
  Cells <- MCCells
  Zero = 0
  MaxData = 2
  None = None
INVARIANTS LimitsKept ContentKept SliceIsMemory
