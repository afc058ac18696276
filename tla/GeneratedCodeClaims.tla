-------------------------- MODULE GeneratedCodeClaims --------------------------
(***************************************************************************)
(* Statements of the developer documentation and of comments that the code *)
(* does not keep, each on sheets of its own outside WithinLimits.          *)
(***************************************************************************)
EXTENDS MCGeneratedCode

(* A subroutine of two arguments and one result, called in a loop.         *)
Unbalanced ==
  [isSubroutine |-> TRUE, args |-> <<"Integer", "Integer">>, rets |-> <<"Integer">>,
   first |-> 24, return |-> 0]
SheetsOfClaim ==
  {[SheetOf(10 :> ForOf(Num(1), Num(2), Num(1), 11, 14) @@ 14 :> PrintOf(X, 0)
            @@ 11 :> NodeOf("Call", 2, <<A(10), v>>, <<"Integer">>, <<12>>)
            @@ 12 :> PrintOf(A(11), 13) @@ 13 :> SetX(w, 0), 1)
      EXCEPT !.functions[2] = Unbalanced, !.nodes[23].out = <<"Integer", "Integer">>] :
     v \in {Num(1), Num(2), X}, w \in {Num(1), A(10), A(11)}}

(* code_generation.rst: the generator keeps track, at any one time, of     *)
(* what the index of the top of the stack is.  After a call that takes     *)
(* more than it returns it does not: the code of the nodes that follow in  *)
(* the body of the loop, and the next turn of the loop, start lower.       *)
StackTopTracked == TopTracked

-----------------------------------------------------------------------------
(* A choice whose value is not the first a comparator has pushed.          *)
SheetsOfOrder ==
  {SheetOf(6 :> Choice(B, a, X) @@ 7 :> Comparator("<", <<A(6), b>>)
           @@ 10 :> PrintOf(WireFrom(7, 1, "Boolean"), 11) @@ 11 :> PrintOf(B, 0), 1) :
     a \in {Num(1), Num(3)}, b \in {Num(2), D}}

(* dcodegen.c:615: once the inputs are pushed, verify that they are in     *)
(* order from the top of the stack, and if not, get them there.  The       *)
(* second input of this comparator lies below the condition of the choice, *)
(* which is compared in its place.                                         *)
InputsInOrder ==
  LET now == [vars |-> [x \in DOMAIN vars |-> vars[x][2]]]
  IN  At("OP") => \A i \in DOMAIN Node(7).in : Operand(1 - i)[2] = ValueIn(now, Node(7).in[i])

-----------------------------------------------------------------------------
(* A value that is printed before a loop and in its body.                  *)
SheetsOfUses ==
  {SheetOf(6 :> Operator("+", <<X, Num(1)>>) @@ 10 :> PrintOf(A(6), 11)
           @@ 11 :> ForOf(a, Num(2), Num(1), 12, 0) @@ 12 :> PrintOf(A(6), last)
           @@ 13 :> SetX(A(11), 0), 1) :
     a \in {Num(1), X}, last \in {0, 13}}

(* code_generation.rst: the output of a non-execution node is generated    *)
(* for the node that gets it, so that calculations produce different       *)
(* results over time.  In the loop it is not: what has been popped counts  *)
(* as still on the stack, once the stack is as high again.                 *)
ResultsAreOfNow == pc >= 0 => IsPrefix(shown, meant.shown)
=============================================================================
