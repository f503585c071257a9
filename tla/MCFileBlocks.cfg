CONSTANTS
  DNodeNum = 1
  FNodeNum = 2
  BlkNum = 5
  MaxDirs = 2
  MaxFiles = 2
  BlkPerFile = 2
  BlkSize = 7
  Names = {x, y}
  WriteSizes = {5}
SPECIFICATION Spec
INVARIANTS BitmapsExact NoBlockShared
SYMMETRY NameSymmetry
