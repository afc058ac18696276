SPECIFICATION SpecAny
CONSTANT
  Sheets <- SheetsOfClaim
INVARIANT
  StackTopTracked
CHECK_DEADLOCK FALSE
