SPECIFICATION Spec
CONSTANTS
  Sources <- SourcesOfRun
  MaxSheets = 4
  MaxObjects = 1
INVARIANTS
  TypeOK
  OperandsRight
  StringsAreTexts
  CrashIsMissing
PROPERTY
  LoadKeepsVariables
CHECK_DEADLOCK FALSE
