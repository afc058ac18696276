SPECIFICATION FairSpec
CONSTANTS
  Graphs <- GraphsOfRun
  MaxDepth = 6
INVARIANTS
  PathFits
  LoopsReported
  ReturnsReported
PROPERTY
  ScanEnds
CHECK_DEADLOCK FALSE
