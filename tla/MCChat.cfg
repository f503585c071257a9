CONSTANTS
  Conns = 3
  Devices = {d1, d2}
  Seconds = {s1, s2, s3}
  MaxRequests <- MCMaxRequests
SPECIFICATION Spec
SYMMETRY IdSymmetry
CHECK_DEADLOCK FALSE
INVARIANTS TypeOK  ThreadsSurvive ReachesItsDevice
