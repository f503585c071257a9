CONSTANTS
  Names = {"a", "b"}
  Hidden = "0"
  Hash <- MCHash
  MaxSyms = 6
  MaxScopes = 4
SPECIFICATION Spec
CHECK_DEADLOCK FALSE
INVARIANTS TypeOK TableSound NoEarlyFree SplitScopesEnd FunctionsStay 
