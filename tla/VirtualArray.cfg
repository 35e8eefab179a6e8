CONSTANTS
  RowsInArray = 5
  MaxAccess = 2
  PreZero = TRUE
  Zero = 0
  Values = {0, 1}
  MinHeights = {0, 2, 9}
SPECIFICATION Spec
INVARIANTS
  CleanMeansSaved
PROPERTIES
  IsOneArray
