SPECIFICATION Spec
CONSTANTS
  Inputs <- InputsOfRun
  Outputs <- OutputsOfRun
  Types = {Execution, Number, Text}
  TypeOf <- TypesOfRun
  Execution = Execution
  Number = Number
  Text = Text
  Lines = {1, 2}
  NoLine = NoLine
INVARIANTS
  TypeOK
  FindsAllWires
  WiredBothWays
  AmbiguityReported
CHECK_DEADLOCK FALSE
