--------------------------- MODULE MCTypeReduction ---------------------------
(***************************************************************************)
(* Graphs of three nodes without cycles, in every order of their lines.    *)
(***************************************************************************)
EXTENDS TypeReduction

Literal(type)    == [from |-> 0, type |-> {type}]
Wire(from, type) == [from |-> from, type |-> type]

Make(kind, ins, out) ==
  [kind |-> kind, inputs |-> ins, output |-> out, variable |-> "Integer"]

(* An input of any of the given vague types, from another node than n.     *)
WiresTo(n, type) == {Wire(m, type) : m \in (1..3) \ {n}}

NodesOfRun(n) ==
  LET numbers == WiresTo(n, Number) \union {Literal("Integer"), Literal("Float")}
      bits    == WiresTo(n, Bitwise)
      anys    == WiresTo(n, VarAny)
  IN  {Make("arithmetic", <<x, y>>, Number) : x \in WiresTo(n, Number), y \in numbers}
      \union {Make("arithmetic", <<Literal("Float"), Literal("Integer")>>, Number)}
      \union {Make("divide", <<x, Literal("Integer")>>, {"Float"}) : x \in WiresTo(n, Number)}
      \union {Make("div", <<x, Literal("Integer")>>, {"Integer"}) : x \in WiresTo(n, Number)}
      \union {Make("bitwise", <<x, y>>, Bitwise) :
                x \in bits, y \in bits \union {Literal("Integer"), Literal("Boolean")}}
      \union {Make("comparison", <<x, y>>, {"Boolean"}) :
                x \in anys, y \in anys \union {Literal("Integer"), Literal("String")}}
      \union {Make("ternary", <<x, y>>, VarAny) :
                x \in anys \union {Literal("Integer"), Literal("Boolean")},
                y \in anys \union {Literal("Float")}}
      \union {Make("print", <<x>>, {}) : x \in anys}
      \union {[Make("set", <<x>>, {}) EXCEPT !.variable = type] :
                x \in anys, type \in {"Integer", "Float"}}
      \union {Make("other", <<>>, {type}) : type \in {"Integer", "Float", "Boolean"}}

Matches(g) ==
  \A n \in DOMAIN g : \A k \in DOMAIN g[n].inputs :
    LET x == g[n].inputs[k] IN x.from # 0 => x.type \intersect g[x.from].output # {}

GraphsOfRun ==
  {g \in {<<a, b, c>> : a \in NodesOfRun(1), b \in NodesOfRun(2), c \in NodesOfRun(3)} :
     Matches(g) /\ Acyclic(g)}
=============================================================================
