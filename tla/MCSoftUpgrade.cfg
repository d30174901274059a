SPECIFICATION Spec
CONSTANTS
  FreeMB <- AroundTheLimit
  MaxRuns = 3
  MaxFailures = 3
INVARIANTS
  FlashedIsWhole
  SpaceSuffices
  CustomisesItsOwn
PROPERTIES
  KeepsPromise
