CONSTANTS
  DNodeNum = 3
  FNodeNum = 1
  BlkNum = 3
  MaxDirs = 2
  MaxFiles = 1
  BlkPerFile = 2
  BlkSize = 7
  Names = {x, y}
  WriteSizes = {5}
SPECIFICATION Spec
SYMMETRY NameSymmetry
INVARIANTS TypeOK BitmapsExact
PROPERTY IsTreeFs
