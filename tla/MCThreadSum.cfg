CONSTANTS
  N = 100
  MayFail = TRUE
SPECIFICATION FairSpec
CHECK_DEADLOCK FALSE
INVARIANTS TypeOK PrintsPartialSums SetOutlivesThreads
PROPERTIES IsOnePlaceQueue AllSumsPrinted
