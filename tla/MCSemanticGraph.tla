--------------------------- MODULE MCSemanticGraph ---------------------------
(***************************************************************************)
(* All ways to wire four nodes of some kinds: a subroutine's Define with   *)
(* branches and loops behind it, and nodes that compute with each other.   *)
(***************************************************************************)
EXTENDS SemanticGraph

Kind(name, hasInputs, outputs) == [name |-> name, hasInputs |-> hasInputs, outputs |-> outputs]

DefineNode     == Kind("Define", FALSE, <<TRUE>>)
PrintNode      == Kind("Print", TRUE, <<TRUE>>)
ReturnNode     == Kind("Return", TRUE, <<>>)
IfThenElseNode == Kind("IfThenElse", TRUE, <<TRUE, TRUE, TRUE>>)
WhileNode      == Kind("While", TRUE, <<TRUE, TRUE>>)
VariableNode   == Kind("x", FALSE, <<FALSE>>)
AddNode        == Kind("Add", TRUE, <<FALSE>>)
(* A call of a subroutine: it has an execution output and a value.         *)
CallNode       == Kind("S", TRUE, <<TRUE, FALSE>>)

(* Execution goes to one node that has an input for it, or to none, and a  *)
(* value to any nodes.                                                     *)
Targets(shape, execution) ==
  LET In(names) == {n \in DOMAIN shape : shape[n].name \in names}
  IN  IF execution
      THEN {<<>>} \union {<<n>> : n \in In({"Print", "Return", "IfThenElse", "While", "S"})}
      ELSE {SetToSortSeq(to, LAMBDA a, b : a < b) : to \in SUBSET In({"Add", "Print", "S"})}

NodesOf(shape, n) ==
  {[name |-> shape[n].name, hasInputs |-> shape[n].hasInputs,
    outputs |-> [i \in DOMAIN to |-> [execution |-> shape[n].outputs[i], to |-> to[i]]]] :
     to \in {t \in [DOMAIN shape[n].outputs -> Targets(shape, TRUE) \union Targets(shape, FALSE)] :
               \A i \in DOMAIN t : t[i] \in Targets(shape, shape[n].outputs[i])}}

Subroutine(define, numOutputs) ==
  [define |-> define, isSubroutine |-> TRUE, numOutputs |-> numOutputs]

Wired(shape, fs) ==
  {[nodes |-> <<a, b, c, d>>, functions |-> fs] :
     a \in NodesOf(shape, 1), b \in NodesOf(shape, 2), c \in NodesOf(shape, 3), d \in NodesOf(shape, 4)}

GraphsOfRun ==
  Wired(<<DefineNode, IfThenElseNode, PrintNode, ReturnNode>>, <<Subroutine(1, 2)>>)
    \union Wired(<<DefineNode, WhileNode, ReturnNode, PrintNode>>, <<Subroutine(1, 1), Subroutine(1, 2)>>)
    \union Wired(<<ReturnNode, ReturnNode, IfThenElseNode, DefineNode>>, <<Subroutine(4, 3)>>)
    \union Wired(<<VariableNode, AddNode, AddNode, PrintNode>>, <<>>)
    \union Wired(<<DefineNode, CallNode, AddNode, ReturnNode>>, <<Subroutine(1, 2)>>)
=============================================================================
