SPECIFICATION Spec
CONSTANTS
  MaxFailures = 2
  MaxReboots = 2
  MaxRoom = 3
INVARIANTS
  ReadyImageComplete
  CleanDisk
PROPERTIES
  WorkKept
  EventuallyReady
