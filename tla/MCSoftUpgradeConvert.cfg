SPECIFICATION Spec
CONSTANTS
  FreeMB <- AroundTheLimit
  MaxRuns = 1
  MaxFailures = 1
INVARIANTS
  ConversionErrorsReported
