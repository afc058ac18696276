SPECIFICATION Spec
CONSTANTS
  f = f
  v = v
  BodyLen = 4
  BSize = 1
  HSize = 2
  FSize = 4
  BMax = 5
  HMax = 9
  Functions = {f}
  Variables = {v}
  Programs <- ProgramsOfRun
INVARIANTS
  TypeOK
  Linkable
  NothingLeft
  SameBehaviour
CHECK_DEADLOCK FALSE
