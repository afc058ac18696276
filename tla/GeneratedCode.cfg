SPECIFICATION Spec
CONSTANT
  Sheets <- SheetsOfRun
INVARIANTS
  TypeOK
  TopTracked
  StaysInFrame
  DoesWhatIsMeant
PROPERTY
  Halts
CHECK_DEADLOCK FALSE
