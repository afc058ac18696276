-------------------------- MODULE MCGeneratedCode --------------------------
(***************************************************************************)
(* Small sheets of every shape: an expression of two nodes that is         *)
(* printed; a loop or a branch around a body; calls of a function and of   *)
(* two subroutines.  Nodes 1 to 5 are the getters of the variables, 6 and  *)
(* 7 compute, 10 to 14 are the nodes of Start, and 20 on the functions.    *)
(***************************************************************************)
EXTENDS GeneratedCode

Lit(type, v) == [from |-> 0, out |-> 0, type |-> type, val |-> v]
Num(v)       == Lit("Integer", v)
Flt(v)       == Lit("Float", v)
WireFrom(n, k, type) == [from |-> n, out |-> k, type |-> type, val |-> 0]

NodeOf(fn, name, in, out, next) ==
  [fn |-> fn, name |-> name, in |-> in, out |-> out, next |-> next]
Getter(x, type)   == NodeOf("Getter", x, <<>>, <<type>>, <<>>)

(* The types that the reduction leaves: inputs of Div and of comparators   *)
(* get none from a wire, and a Ternary has a literal, or its output would  *)
(* have none.                                                              *)
Untyped(in)       == [i \in DOMAIN in |-> IF in[i].from = 0 THEN in[i]
                                                             ELSE [in[i] EXCEPT !.type = "Vague"]]
Operator(o, in)   ==
  IF o = "Div" THEN NodeOf("Operator", o, Untyped(in), <<"Integer">>, <<>>)
  ELSE NodeOf("Operator", o, in,
         <<IF o = "/" \/ \E i \in DOMAIN in : in[i].type = "Float" THEN "Float" ELSE "Integer">>, <<>>)
Comparator(o, in) == NodeOf("Comparator", o, Untyped(in), <<"Boolean">>, <<>>)
Choice(c, a, b)   == NodeOf("Ternary", "?", <<c, a, b>>, <<a.type>>, <<>>)
LengthOf(a)       == NodeOf("Length", "len", <<a>>, <<"Integer">>, <<>>)
CallOf(f, in, next) == NodeOf("Call", f, in, [i \in DOMAIN in |-> "Integer"], next)
PrintOf(a, next)  == NodeOf("Print", "Print", <<a>>, <<>>, <<next>>)
SetX(a, next)     == NodeOf("Set", "x", <<a>>, <<>>, <<next>>)
ForOf(a, b, step, body, next) ==
  NodeOf("For", "For", <<a, b, step>>, <<a.type>>, <<body, next>>)

X == WireFrom(1, 1, "Integer")
D == WireFrom(2, 1, "Integer")
R == WireFrom(3, 1, "Float")
B == WireFrom(4, 1, "Boolean")
S == WireFrom(5, 1, "String")
Getters == 1 :> Getter("x", "Integer") @@ 2 :> Getter("d", "Integer") @@ 3 :> Getter("r", "Float")
           @@ 4 :> Getter("b", "Boolean") @@ 5 :> Getter("s", "String")

(* A function, x - a; a subroutine that returns early if a is 2, and       *)
(* otherwise adds a to x; and one without arguments that prints x.         *)
A(n)  == WireFrom(n, 1, "Integer")
Defined ==
  20 :> NodeOf("Define", 1, <<>>, <<"Integer">>, <<>>)
  @@ 21 :> Operator("-", <<X, A(20)>>)
  @@ 22 :> NodeOf("Return", 1, <<A(21)>>, <<>>, <<>>)
  @@ 23 :> NodeOf("Define", 2, <<>>, <<"Integer">>, <<24>>)
  @@ 24 :> NodeOf("IfThen", "If", <<WireFrom(25, 1, "Boolean")>>, <<>>, <<26, 27>>)
  @@ 25 :> Comparator("=", <<A(23), Num(2)>>)
  @@ 26 :> NodeOf("Return", 2, <<Num(9)>>, <<>>, <<>>)
  @@ 27 :> SetX(WireFrom(28, 1, "Integer"), 29)
  @@ 28 :> Operator("+", <<A(23), X>>)
  @@ 29 :> NodeOf("Return", 2, <<A(23)>>, <<>>, <<>>)
  @@ 30 :> NodeOf("Define", 3, <<>>, <<>>, <<31>>)
  @@ 31 :> PrintOf(X, 0)
FunctionOf(sub, n, first, return) ==
  [isSubroutine |-> sub, args |-> [i \in 1..n |-> "Integer"], rets |-> [i \in 1..n |-> "Integer"],
   first |-> first, return |-> return]
Functions == <<FunctionOf(FALSE, 1, 0, 22), FunctionOf(TRUE, 1, 24, 0), FunctionOf(TRUE, 0, 31, 0)>>

Initially(d) == [x |-> <<"i", 1>>, d |-> <<"i", d>>, r |-> <<"f", 2>>, b |-> <<"i", 1>>,
                 s |-> <<"i", 2>>]
SheetOf(nodes, d) ==
  [nodes |-> nodes @@ Getters @@ Defined, functions |-> Functions, start |-> 10,
   vars |-> Initially(d)]

-----------------------------------------------------------------------------
Operands == {Num(2), X, Flt(3), R}
Out6(n)  == WireFrom(6, 1, n.out[1])

(* Of one node, then of two.                                               *)
Inner == {Operator(o, <<a, b>>) : o \in {"-", "Div", "/"}, a \in Operands, b \in Operands}
         \union {Operator("-", <<Num(2), X, a>>) : a \in Operands}
         \union {Operator("Not", <<X>>), LengthOf(S), CallOf(1, <<X>>, <<>>)}
Outer(six) ==
  LET uses == (Operands \X {Out6(six)}) \union ({Out6(six)} \X Operands)
  IN  {Operator("-", <<u[1], u[2]>>) : u \in uses}
      \union {Comparator("<", <<u[1], u[2]>>) : u \in uses}
      \union {Choice(B, u[1], u[2]) : u \in {v \in uses : /\ v[1].type = v[2].type
                                                       /\ \E i \in 1..2 : v[i].from = 0}}
      \union {CallOf(1, <<v>>, <<>>) : v \in {Out6(six)} \intersect [from : {6}, out : {1},
                                           type : {"Integer"}, val : {0}]}
Expressions ==
  {SheetOf(6 :> six @@ 7 :> seven @@ 10 :> PrintOf(WireFrom(7, 1, seven.out[1]), 11)
           @@ 11 :> PrintOf(B, 0), 1) :
     <<six, seven>> \in UNION {{six} \X Outer(six) : six \in Inner}}
OfStrings ==
  {SheetOf(6 :> six @@ 7 :> Choice(B, Out6(six), Lit("Boolean", 0)) @@ 10 :> PrintOf(B, 11)
           @@ 11 :> PrintOf(WireFrom(7, 1, "Boolean"), 0), 1) :
     six \in {Comparator(o, <<S, Lit("String", n)>>) : o \in {"=", "#", "<", ">="}, n \in 1..2}}

(* A choice below a comparator, as the step of a loop, and as an argument. *)
ChoicesOfRun == {Choice(B, A(7), Num(2)), Choice(B, Num(2), A(7)), Choice(B, Num(1), X)}
OfChoices ==
  {SheetOf(6 :> six @@ 7 :> Operator("+", <<X, Num(1)>>) @@ 8 :> Comparator("<", <<a, A(6)>>)
           @@ 10 :> PrintOf(WireFrom(8, 1, "Boolean"), 11) @@ 11 :> PrintOf(B, 0), 1) :
     six \in ChoicesOfRun, a \in {X, Num(2)}}
  \union
  {SheetOf(6 :> six @@ 7 :> Operator("+", <<X, Num(1)>>)
           @@ 10 :> ForOf(a, Num(4), A(6), 11, 12) @@ 11 :> PrintOf(A(10), 13)
           @@ 13 :> SetX(A(10), 0) @@ 12 :> PrintOf(B, 14) @@ 14 :> CallOf(2, <<X>>, <<0>>), 1) :
     six \in ChoicesOfRun, a \in {X, Num(1)}}
  \union
  {SheetOf(6 :> six @@ 7 :> Operator("+", <<X, Num(1)>>)
           @@ 10 :> CallOf(2, <<A(6)>>, <<11>>) @@ 11 :> PrintOf(A(10), 12)
           @@ 12 :> PrintOf(B, 0), 1) : six \in ChoicesOfRun}

(* A body that uses the value v, in nodes 11 and 12.                       *)
Bodies(v) ==
  {11 :> PrintOf(v, 0), 11 :> SetX(A(7), 12) @@ 12 :> PrintOf(X, 0) @@ 7 :> Operator("+", <<X, v>>),
   11 :> CallOf(2, <<v>>, <<12>>) @@ 12 :> PrintOf(A(11), 0), 11 :> CallOf(3, <<>>, <<0>>),
   11 :> SetX(A(7), 12) @@ 12 :> CallOf(3, <<>>, <<0>>) @@ 7 :> CallOf(1, <<v>>, <<>>)}

Loops ==
  {SheetOf(10 :> ForOf(a, Num(2), step, 11, 14) @@ 14 :> PrintOf(X, 0) @@ body, d) :
     a \in {Num(1), X, Num(3)}, step \in {Num(1), Num(-1), D}, d \in {1, -1},
     body \in Bodies(A(10))}
  \union
  {SheetOf(10 :> ForOf(a, Flt(3), step, 11, 14) @@ 14 :> PrintOf(X, 0)
           @@ 11 :> PrintOf(WireFrom(10, 1, "Float"), 0), 1) :
     a \in {Flt(1), R}, step \in {Num(1), Flt(2), R}}
  \union   \* a loop in a loop
  {SheetOf(10 :> ForOf(Num(1), Num(2), Num(1), 13, 14) @@ 14 :> PrintOf(X, 0)
           @@ 13 :> ForOf(A(10), Num(2), D, 11, last) @@ 7 :> Operator("-", <<A(10), A(13)>>)
           @@ 11 :> PrintOf(A(7), 0) @@ 12 :> CallOf(2, <<A(10)>>, <<0>>), 1) : last \in {0, 12}}

Branches ==
  {SheetOf(6 :> Comparator("<", <<X, n>>)
           @@ 10 :> NodeOf(if, if, <<c>>, <<>>, IF if = "IfThen" THEN <<t, 14>> ELSE <<t, e, 14>>)
           @@ 14 :> PrintOf(X, 0) @@ 13 :> CallOf(2, <<X>>, <<0>>) @@ body, 1) :
     n \in {Num(1), Num(2)}, c \in {B, Lit("Boolean", 0), WireFrom(6, 1, "Boolean")},
     if \in {"IfThen", "IfThenElse"}, t \in {0, 11, 13}, e \in {0, 13}, body \in Bodies(X)}

Whiles ==
  {SheetOf(6 :> Comparator("<", <<X, Num(n)>>) @@ 7 :> Operator("+", <<X, Num(1)>>)
           @@ 10 :> NodeOf("While", "While", <<c>>, <<>>, <<11, 14>>)
           @@ 11 :> SetX(A(7), last) @@ 12 :> CallOf(2, <<D>>, <<13>>) @@ 13 :> PrintOf(A(12), 0)
           @@ 14 :> PrintOf(X, 0), 1) :
     n \in 1..3, c \in {WireFrom(6, 1, "Boolean"), Lit("Boolean", 0)}, last \in {0, 12}}

(* The results of a subroutine, used at once and later.                    *)
Calls ==
  {SheetOf(10 :> CallOf(2, <<v>>, <<11>>) @@ 11 :> PrintOf(X, 12) @@ 12 :> SetX(A(6), 13)
           @@ 6 :> Operator("+", <<A(10), w>>) @@ 13 :> PrintOf(A(10), 14) @@ 14 :> PrintOf(X, 0), 1) :
     v \in {Num(1), Num(2), X}, w \in {Num(1), X, A(10)}}

SheetsOfRun ==
  Expressions \union OfStrings \union OfChoices \union Loops \union Branches \union Whiles
    \union Calls
=============================================================================
