SPECIFICATION Spec
CONSTANTS
  Elem = {1, 2, 3}
  M = 3
  MaxTaken = 5
INVARIANTS TypeOK
PROPERTIES Que2sIsQueue 
CHECK_DEADLOCK FALSE
