SPECIFICATION Spec
CONSTANTS
  MaxWords = 4
  MaxSteps = 2
  Inputs <- MCInputs
  Scripts <- MCScripts
INVARIANTS
  EveryWordHasItsStep
  
CHECK_DEADLOCK FALSE
