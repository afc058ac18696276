SPECIFICATION SpecAny
CONSTANT
  Sheets <- SheetsOfOrder
INVARIANT InputsInOrder
CHECK_DEADLOCK FALSE
