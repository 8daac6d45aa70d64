SPECIFICATION TableSpec
CONSTANTS
  MaxRows = 3
  MaxCols = 3
  Blank = Blank
  Layouts <- AllLayouts
CHECK_DEADLOCK FALSE
INVARIANTS
  TableTypeOK
  CellsInPlace
  TableKept
