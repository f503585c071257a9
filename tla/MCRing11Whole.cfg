CONSTANTS
  Slots = 5
  Chunk = 255
  PerSlot = TRUE
  TextLength = FALSE
  Files <- MCFiles
  Leftovers = {0, 255}
  Strays = {10}
  Faults <- NoFaults
SPECIFICATION Spec
CHECK_DEADLOCK FALSE
INVARIANT AnnouncedCopyIsWhole
