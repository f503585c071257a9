CONSTANTS
  Slots = 5
  Chunk = 256
  PerSlot = FALSE
  TextLength = FALSE
  Files <- MCFiles
  Leftovers = {0, 256}
  Strays = {10}
  Faults <- MCFaults
SPECIFICATION FairSpec
CHECK_DEADLOCK FALSE
INVARIANTS TypeOK SlotExclusion OutputIsPrefix AnnouncedCopyIsWhole NobodyStranded IpcOutlivesChildren
PROPERTIES EndsOrNamedWait IsBoundedFifo
