SPECIFICATION FairSpec
CONSTANT Graphs <- GraphsOfRun
INVARIANTS
  TypeOK
  RightOrReported
  OrderedIsAccepted
PROPERTY Ends
CHECK_DEADLOCK FALSE
