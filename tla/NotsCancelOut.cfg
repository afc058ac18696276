SPECIFICATION Spec
CONSTANTS
  f = f
  v = v
  BodyLen = 4
  BSize = 1
  HSize = 2
  FSize = 4
  BMax = 127
  HMax = 32767
  Functions = {f}
  Variables = {v}
  Programs <- ProgramsOfClaims
INVARIANT NotsCancelOut
CHECK_DEADLOCK FALSE
