SPECIFICATION Spec
CONSTANTS
  Commands = 5
  Receivers = {"main", "worker"}
  ForkMayFail = TRUE
INVARIANTS
  OneAtATime
  OnlyLateHandlersSteal
PROPERTIES
  EndsUnlessStolen
