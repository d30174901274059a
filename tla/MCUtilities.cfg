SPECIFICATION Spec
CONSTANTS
  Answers <- AllAnswers
  Buffer = 4
  Lengths = {0, 1, 2, 3, 4, 5, 6}
  Room = 5
  BUFSIZE = 2
  Copies = {"tools", "reading", "writing"}
  MaxFaults = 2
  Dirs <- TreeDirs
  Files <- TreeFiles
  Top = "/mnt2"
  Parent <- TreeParent
  Size <- TreeSize
  Limit = 3
  MaxFailures = 2
  Texts <- AllTexts
  Orders = {"left", "right"}
INVARIANTS
  FileIsBody
  RightUnlessWriteFailed
  RemountsHarmless
  DecodesText
PROPERTIES
  CallsEnd
