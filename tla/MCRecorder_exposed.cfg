CONSTANTS
  MaxId = 1
SPECIFICATION Spec
INVARIANTS
  FailureIsExposed
