SPECIFICATION Spec
CONSTANTS
  Proc = {p1, p2}
  N = 3
  Sizes = {0, 2, 4}
  Byte = {1, 2}
  MaxBytes = 5
SYMMETRY ProcSymmetry
INVARIANTS TypeOK CopyInBounds OffsetsCount 
