SPECIFICATION SpecAny
CONSTANT
  Sheets <- SheetsOfUses
INVARIANT ResultsAreOfNow
CHECK_DEADLOCK FALSE
