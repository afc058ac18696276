CONSTANTS
  main = main
  lib = lib
  plain = plain
  base = base
  Debuggable = {main, lib, base}
  Plain = {plain}
  Includes <- IncludesOfRun
  Nodes = {n}
  Wires = {w}
  None = None
  SheetStackSize = 2
  MaxCalls = 4
  MaxCCalls = 1
SPECIFICATION Spec
INVARIANT SheetStackFits
CHECK_DEADLOCK FALSE
