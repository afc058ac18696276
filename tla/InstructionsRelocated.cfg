SPECIFICATION Spec
CONSTANTS
  Sources <- SourcesOfClaim
  MaxSheets = 4
  MaxObjects = 1
INVARIANT
  InstructionsRelocated
CHECK_DEADLOCK FALSE
