SPECIFICATION Spec
CONSTANTS
  MaxFailures = 1
  MaxReboots = 2
  MaxKills = 2
INVARIANTS
  ImageRight
  RootUntouched
  DevicesQuiet
