SPECIFICATION Spec
CONSTANTS
  Chunks = 3
  Budget <- AnyMishap
INVARIANTS
  FlashesFinal
  HeardToTheEnd
  RestoredFromBase
PROPERTIES
  RawWrittenReadOnly
  ConnectionCommits
  JobOutlivesItsClient
  KeepsPromise
  WritingGoesOn
