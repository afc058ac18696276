SPECIFICATION Spec
CONSTANT Graphs <- GraphsOfWires
INVARIANT WiresMatch
CHECK_DEADLOCK FALSE
