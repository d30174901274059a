SPECIFICATION Spec
CONSTANT
  MaxRuns = 3
INVARIANTS
  InOrder
PROPERTIES
  WrittenUnmounted
  SuccessIsComplete
