SPECIFICATION ConversionSpec
CONSTANTS
  Inputs <- AllCalls
  Chunk = 3
  HeaderLen <- Sizes
  Word = 1024
  MaxFaults = 1
  Partitions <- SomePartitions
  Data <- SomeData
  ImageFaults = 2
  Unsigned = 65536
INVARIANTS
  RightNumber
  WholeOrCutOff
  GoodCallGoodImage
  CaughtByTrailer
  ImageRight
  StaleOnlyAfterFault
  ZeroMeansWhole
