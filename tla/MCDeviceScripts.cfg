SPECIFICATION ScriptsSpec
CONSTANTS
  Dirs <- ThreeDirs
  Names = {"sh", "ssh", "init"}
  New <- InNew
  Old <- InOld
  MaxFaults = 2
  FileNames <- AllFileNames
  Trees <- AllTrees
  Scripts = {"app", "shell"}
  MaxRuns = 3
INVARIANTS
  OwnFilesWin
  DataKept
