CONSTANTS
  DNodeNum = 4
  FNodeNum = 1
  BlkNum = 3
  MaxDirs = 2
  MaxFiles = 0
  BlkPerFile = 2
  BlkSize = 5
  Names = {x, y}
  WriteSizes = {}
SPECIFICATION Spec
SYMMETRY NameSymmetry
INVARIANTS BitmapsExact NoNodeShared TreeLinks
