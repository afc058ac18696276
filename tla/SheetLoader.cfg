SPECIFICATION FairSpec
CONSTANTS
  main = main
  a = a
  b = b
  gone = gone
  Dot = Dot
  Root = Root
  Names = {main, a, b, gone}
  Disks <- DisksOfRun
  MaxSheets = 2
  MaxDepth = 7
INVARIANTS
  TypeOK
  PathsDiffer
  SoundIncludes
  NoErrorLost
PROPERTIES
  EveryLoadReturns
CHECK_DEADLOCK FALSE
