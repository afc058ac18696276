CONSTANTS
  SizeMin = 2
  Words = {0, 7}
  CodeLen = 2
  MaxTop = 6
SPECIFICATION Spec
INVARIANT TypeOK
INVARIANT Capacity
INVARIANT FrameLinkage
INVARIANT CleanHalt
PROPERTY ImplementsCallFrames
