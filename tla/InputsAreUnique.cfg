SPECIFICATION Spec
CONSTANT Graphs <- GraphsOfNumbers
INVARIANT InputsAreUnique
CHECK_DEADLOCK FALSE
