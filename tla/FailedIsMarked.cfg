SPECIFICATION Spec
CONSTANTS
  main = main
  a = a
  b = b
  gone = gone
  Dot = Dot
  Root = Root
  Names = {main, a, b, gone}
  Disks <- DisksOfFailures
  MaxSheets = 1
  MaxDepth = 7
INVARIANT FailedIsMarked
CHECK_DEADLOCK FALSE
