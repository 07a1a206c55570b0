SPECIFICATION LiveSpec
CONSTANTS
  i1 = i1
  i2 = i2
  Invocations = {i1, i2}
  Asks <- MCAsks
  StartsWith <- MCStartsWith
  Within <- MCWithin
  MaxCrashes = 1
  None = None
INVARIANTS
  NothingWithoutPermission
  ExitCodeIsTheAnswer
  

  
CHECK_DEADLOCK FALSE
