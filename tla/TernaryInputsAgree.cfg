SPECIFICATION Spec
CONSTANT Graphs <- GraphsOfTernaries
INVARIANT TernaryInputsAgree
CHECK_DEADLOCK FALSE
