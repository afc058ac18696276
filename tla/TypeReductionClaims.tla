-------------------------- MODULE TypeReductionClaims --------------------------
(***************************************************************************)
(* Statements of the developer documentation and of comments that the      *)
(* reduction of types does not keep, each on graphs of two or three lines. *)
(***************************************************************************)
EXTENDS MCTypeReduction

Value(type) == Make("other", <<>>, {type})

Accepted == done /\ ~errors

(* A choice of a value of another line and a literal, and what prints it.  *)
GraphsOfTernaries ==
  {<<Value(a), Make("ternary", ins, VarAny), Make("print", <<Wire(2, VarAny)>>, {})>> :
     a \in Types, ins \in {<<Wire(1, VarAny), Literal(b)>> : b \in Types}
                          \union {<<Literal(b), Wire(1, VarAny)>> : b \in Types}}

(* dsemantic.c:2004-2006: for the Ternary operator, the two value inputs   *)
(* must be the same.  A literal that comes second replaces the type the    *)
(* wire has brought in no visit that compares the two.                     *)
TernaryInputsAgree ==
  Accepted => \A n \in Nodes : graph[n].kind = "ternary" => InputsAgree(n)

-----------------------------------------------------------------------------
(* Numbers of other lines, in the core functions that take two of them.    *)
GraphsOfNumbers ==
  {<<Value(a), Make(core[1], <<Wire(1, core[2]), Literal("Integer")>>, core[3])>> :
     a \in Number,
     core \in {<<"arithmetic", Number, Number>>, <<"divide", Number, {"Float"}>>,
               <<"div", Number, {"Integer"}>>, <<"comparison", Comparable, {"Boolean"}>>}}

(* semantic_analysis.rst:141-152: the passes go on until all sockets are   *)
(* reduced, since code generation needs to know exactly what data types it *)
(* is dealing with.  The inputs of Div and of comparisons stay vague.      *)
InputsAreUnique ==
  Accepted => \A n \in Nodes : \A k \in DOMAIN inputs[n] : IsReduced(inputs[n][k])

-----------------------------------------------------------------------------
(* A choice of two literals, or their negation, used as a number.          *)
GraphsOfWires ==
  {<<Make("ternary", <<Literal(a), Literal(a)>>, VarAny),
     Make("arithmetic", <<Wire(1, Number), Literal("Integer")>>, Number)>> : a \in Types}
  \union
  {<<Make("bitwise", <<Literal(a)>>, Bitwise),
     Make("arithmetic", <<Wire(1, Number), Literal("Integer")>>, Number)>> : a \in Bitwise}

(* semantic_analysis.rst:70-71: while sockets are connected, it is checked *)
(* that their data types match.  That is before types are reduced, and     *)
(* only arithmetic nodes check their wires again (dsemantic.c:1706-1733).  *)
WiresMatch ==
  Accepted => \A n \in Nodes : \A k \in DOMAIN graph[n].inputs : Fits(n, k)
=============================================================================
