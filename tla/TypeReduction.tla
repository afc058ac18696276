---------------------------- MODULE TypeReduction ----------------------------
(***************************************************************************)
(* d_semantic_reduce_types and reduce_core_node of dsemantic.c: passes     *)
(* over the nodes of a graph that reduce the vague types of their sockets  *)
(* to single ones, until every node says that it is reduced.               *)
(*                                                                         *)
(* Execution and name sockets and the condition of a Ternary have single   *)
(* types from the start and are left out, so that a node has at most one   *)
(* output.  A vague type is the set of the types it allows.                *)
(***************************************************************************)
EXTENDS Integers, Sequences, SequencesExt, FiniteSets

CONSTANT Graphs  \* those d_semantic_scan_nodes may have built without an error

Types == {"Integer", "Float", "String", "Boolean"}

(* dtype.h *)
Number     == {"Integer", "Float"}
Bitwise    == {"Integer", "Boolean"}
Comparable == {"Integer", "Float", "String"}
VarAny     == Types

(* "arithmetic" is Add, Subtract, Multiply and For; "div" is Div, which    *)
(* truncates; "other" is any node whose sockets have single types:         *)
(* variables, calls, most core nodes.                                      *)
Kinds == {"arithmetic", "divide", "div", "bitwise", "comparison", "ternary", "print",
          "set", "other"}

(* An input is connected to the output of the node from, or has a literal  *)
(* of its type if from is 0.  A Set has a variable, of some type.          *)
Input == [from : Nat, type : SUBSET Types]
Node  == [kind : Kinds, inputs : Seq(Input), output : SUBSET Types, variable : Types]

(* The sockets of each kind of node, as dcore.c declares them: how many    *)
(* inputs there are, and the types of a connected input and of the output. *)
Single == {{type} : type \in Types}

NumInputs(kind) ==
  CASE kind = "arithmetic"                           -> Nat \ {0, 1}
    [] kind \in {"divide", "div", "comparison", "ternary"} -> {2}
    [] kind = "bitwise"                              -> {1, 2}
    [] kind \in {"print", "set"}                    -> {1}
    [] OTHER                                         -> Nat

InputTypes(kind) ==
  CASE kind \in {"arithmetic", "divide", "div"} -> {Number}
    [] kind = "bitwise"    -> {Bitwise}
    [] kind = "comparison" -> {Comparable, VarAny}
    [] kind = "other"      -> Single
    [] OTHER               -> {VarAny}

OutputTypes(kind) ==
  CASE kind = "arithmetic" -> {Number}
    [] kind = "bitwise"    -> {Bitwise}
    [] kind = "ternary"    -> {VarAny}
    [] OTHER               -> Single \union {{}}

ASSUME GraphsAssumption ==
  \A g \in Graphs :
    /\ g \in Seq(Node)
    /\ \A n \in DOMAIN g :
         /\ Len(g[n].inputs) \in NumInputs(g[n].kind)
         /\ g[n].output \in OutputTypes(g[n].kind)
         /\ \A k \in DOMAIN g[n].inputs :
              LET in == g[n].inputs[k]
                  types == InputTypes(g[n].kind)
              IN  IF in.from = 0
                  THEN in.type \in Single /\ \E type \in types : in.type \subseteq type
                  ELSE /\ in.from \in DOMAIN g /\ in.type \in types
                       /\ in.type \intersect g[in.from].output # {}

VARIABLES
  graph,
  inputs,   \* reducedTypes of the inputs of each node ...
  output,   \* ... and of its output
  reduced,  \* nodeReduced
  node,     \* the node the pass has come to
  needed,   \* neededToReduce
  errors,   \* an error has been pushed
  done      \* allReduced

vars == <<graph, inputs, output, reduced, node, needed, errors, done>>

Nodes == DOMAIN graph

Connected(n, k) == graph[n].inputs[k].from # 0
Source(n, k)    == graph[n].inputs[k].from

(* IS_TYPE_REDUCED *)
IsReduced(type) == Cardinality(type) = 1

-----------------------------------------------------------------------------
(* Each kind of node has a test of its own for an input whose type is not  *)
(* known yet, so that its wire must be followed.                           *)
FollowsWire(n, k) ==
  LET type == inputs[n][k]
  IN  /\ Connected(n, k)
      /\ CASE graph[n].kind \in {"arithmetic", "divide"} -> type # {"Float"}
           [] graph[n].kind = "bitwise" -> type \notin {{"Integer"}, {"Boolean"}}
           [] graph[n].kind = "comparison" ->
                type \intersect Number = {} /\ type \notin {{"String"}, {"Boolean"}}
           [] graph[n].kind = "ternary" -> ~IsReduced(type)
           [] graph[n].kind \in {"print", "set"} -> type = VarAny
           [] OTHER -> FALSE

(* The types of the inputs after the outputs they follow have been seen.   *)
Learned(n) ==
  [k \in DOMAIN inputs[n] |->
     IF FollowsWire(n, k) /\ IsReduced(output[Source(n, k)])
     THEN output[Source(n, k)] ELSE inputs[n][k]]

(* ~reducedAllInputs *)
Waits(n) ==
  \E k \in DOMAIN inputs[n] : FollowsWire(n, k) /\ ~IsReduced(output[Source(n, k)])

(* The inputs whose types are single, and the type of the last of them.    *)
Known(types) == {k \in DOMAIN types : IsReduced(types[k])}

LastKnown(types) == types[Max(Known(types))]

(* Is the type of an output one that an input connected to it cannot have? *)
Incompatible(n, type) ==
  \E m \in Nodes : \E k \in DOMAIN inputs[m] :
    Source(m, k) = n /\ inputs'[m][k] \intersect type = {}

Learn(n)   == inputs' = [inputs EXCEPT ![n] = Learned(n)]
Err(error) == errors' = (errors \/ error)
Settle(n, enough) == reduced' = [reduced EXCEPT ![n] = enough]

-----------------------------------------------------------------------------
(* Mutant: a consumer that has settled for another type is not noticed.    *)
ReduceArithmeticUnchecked(n) ==
  LET type == IF {"Float"} \in Range(Learned(n)) THEN {"Float"} ELSE {"Integer"}
  IN  /\ graph[n].kind = "arithmetic"
      /\ Learn(n)
      /\ output' = [output EXCEPT ![n] = type]
      /\ UNCHANGED errors
      /\ Settle(n, ~Waits(n))

(* The output gets its type in every pass, also while inputs are unknown.  *)
ReduceArithmetic(n) ==
  LET type == IF {"Float"} \in Range(Learned(n)) THEN {"Float"} ELSE {"Integer"}
  IN  /\ graph[n].kind = "arithmetic"
      /\ Learn(n)
      /\ output' = [output EXCEPT ![n] = type]
      /\ Err(Incompatible(n, type))
      /\ Settle(n, ~Waits(n))

ReduceDivide(n) ==
  /\ graph[n].kind = "divide"
  /\ Learn(n) /\ Settle(n, ~Waits(n))
  /\ UNCHANGED <<output, errors>>

(* Mutant: goes on trying when the inputs can never have the same type.    *)
ReduceBitwiseGoesOn(n) ==
  LET types == Learned(n)
      mixed == \E j, k \in Known(types) : types[j] # types[k]
  IN  /\ graph[n].kind = "bitwise"
      /\ Learn(n)
      /\ output' = IF Known(types) = {} THEN output
                   ELSE [output EXCEPT ![n] = LastKnown(types)]
      /\ Err(mixed)
      /\ Settle(n, ~Waits(n) /\ ~mixed)

(* All inputs must have the same type, which is that of the output.        *)
ReduceBitwise(n) ==
  LET types == Learned(n)
      mixed == \E j, k \in Known(types) : types[j] # types[k]
  IN  /\ graph[n].kind = "bitwise"
      /\ Learn(n)
      /\ output' = IF Known(types) = {} THEN output
                   ELSE [output EXCEPT ![n] = LastKnown(types)]
      /\ Err(mixed)
      /\ Settle(n, ~Waits(n) \/ mixed)

ReduceComparison(n) ==
  LET types  == Range(Learned(n))
      number == \E type \in types : type \intersect Number # {}
      string == {"String"} \in types
      bool   == {"Boolean"} \in types
  IN  /\ graph[n].kind = "comparison"
      /\ Learn(n)
      /\ Err((number /\ string) \/ (number /\ bool) \/ (string /\ bool))
      /\ Settle(n, ~Waits(n))
      /\ UNCHANGED output

(* Mutant: the first type that is known is not kept for the output.        *)
ReduceTernaryNoOutput(n) ==
  LET mixed == IsReduced(inputs[n][1]) /\ IsReduced(Learned(n)[2])
               /\ inputs[n][1] # Learned(n)[2]
  IN  /\ graph[n].kind = "ternary"
      /\ Learn(n)
      /\ Err(mixed)
      /\ Settle(n, ~Waits(n) \/ mixed)
      /\ UNCHANGED output

(* The output gets a type the inputs had before this pass; that of an      *)
(* input whose wire has only been followed now is not used.                *)
ReduceTernary(n) ==
  LET mixed == IsReduced(inputs[n][1]) /\ IsReduced(Learned(n)[2])
               /\ inputs[n][1] # Learned(n)[2]
  IN  /\ graph[n].kind = "ternary"
      /\ Learn(n)
      /\ output' = IF Known(inputs[n]) = {} THEN output
                   ELSE [output EXCEPT ![n] = LastKnown(inputs[n])]
      /\ Err(mixed)
      /\ Settle(n, ~Waits(n) \/ mixed)

(* Print and Set are reduced when they are first seen, because VarAny is   *)
(* a type, too.                                                            *)
ReducePrintOrSet(n) ==
  /\ graph[n].kind \in {"print", "set"}
  /\ Learn(n)
  /\ Err(graph[n].kind = "set" /\ Learned(n)[1] # {graph[n].variable})
  /\ Settle(n, TRUE)
  /\ UNCHANGED output

(* What reduce_core_node has no case for, Div among it, is reduced as it   *)
(* is.                                                                     *)
ReduceOther(n) ==
  /\ graph[n].kind \in {"div", "other"}
  /\ Settle(n, TRUE)
  /\ UNCHANGED <<inputs, output, errors>>

(* reduce_core_node *)
Reduce(n) ==
  \/ ReduceArithmetic(n) \/ ReduceDivide(n) \/ ReduceBitwise(n)
  \/ ReduceComparison(n) \/ ReduceTernary(n) \/ ReducePrintOrSet(n) \/ ReduceOther(n)

-----------------------------------------------------------------------------
ReduceNode ==
  /\ ~done /\ node \in Nodes /\ ~reduced[node]
  /\ Reduce(node)
  /\ node' = node + 1 /\ needed' = TRUE
  /\ UNCHANGED <<graph, done>>

SkipNode ==
  /\ ~done /\ node \in Nodes /\ reduced[node]
  /\ node' = node + 1
  /\ UNCHANGED <<graph, inputs, output, reduced, needed, errors, done>>

(* Mutant: a second pass is never made.                                    *)
EndPassFirst ==
  /\ ~done /\ node \notin Nodes
  /\ done' = TRUE
  /\ UNCHANGED <<graph, inputs, output, reduced, node, needed, errors>>

EndPass ==
  /\ ~done /\ node \notin Nodes
  /\ IF needed THEN node' = 1 /\ needed' = FALSE /\ UNCHANGED done
     ELSE done' = TRUE /\ UNCHANGED <<node, needed>>
  /\ UNCHANGED <<graph, inputs, output, reduced, errors>>

Init ==
  /\ graph \in Graphs
  /\ inputs = [n \in Nodes |-> [k \in DOMAIN graph[n].inputs |-> graph[n].inputs[k].type]]
  /\ output = [n \in Nodes |-> graph[n].output]
  /\ reduced = [n \in Nodes |-> FALSE]
  /\ node = 1 /\ needed = FALSE /\ errors = FALSE /\ done = FALSE

Next == ReduceNode \/ SkipNode \/ EndPass

(* The passes are a loop in C, which goes on until it ends.                *)
Spec     == Init /\ [][Next]_vars
FairSpec == Spec /\ WF_vars(Next)

-----------------------------------------------------------------------------
(***************************************************************************)
(* The types the nodes should have: what a Float or Boolean input makes of *)
(* an output, whatever the order of the lines (dsemantic.c:1639-2007).     *)
(* Only for graphs without cycles.                                         *)
(***************************************************************************)
TypeOf[n \in Nodes] ==
  LET of(k) == IF Connected(n, k) THEN TypeOf[Source(n, k)]
               ELSE graph[n].inputs[k].type
  IN  CASE graph[n].kind = "arithmetic" ->
             IF \E k \in DOMAIN graph[n].inputs : of(k) = {"Float"} THEN {"Float"} ELSE {"Integer"}
        [] graph[n].kind \in {"bitwise", "ternary"} -> of(1)
        [] OTHER -> graph[n].output

TypeOfInput(n, k) ==
  IF Connected(n, k) THEN TypeOf[Source(n, k)] ELSE graph[n].inputs[k].type

InputsOf(n) == {TypeOfInput(n, k) : k \in DOMAIN graph[n].inputs}

Fits(n, k) == TypeOfInput(n, k) \subseteq graph[n].inputs[k].type

(* What the inputs of a node must have in common (dsemantic.c:1818, 2004), *)
(* and what a Set may be given (dsemantic.c:1744).                         *)
InputsAgree(n) ==
  /\ graph[n].kind \in {"bitwise", "ternary"} =>
       \A j, k \in DOMAIN graph[n].inputs : TypeOfInput(n, j) = TypeOfInput(n, k)
  /\ graph[n].kind = "set" => InputsOf(n) = {{graph[n].variable}}

(* Strings and Booleans of other nodes are left out of comparisons: the    *)
(* types of these are never seen (dsemantic.c:1923).                       *)
WellTyped ==
  \A n \in Nodes :
    /\ \A k \in DOMAIN graph[n].inputs : Fits(n, k)
    /\ InputsAgree(n)
    /\ graph[n].kind = "comparison" => \A type \in InputsOf(n) : type \subseteq Number

(* A Ternary of two wires gives its output no type before its last visit   *)
(* (dsemantic.c:2083).                                                     *)
LiteralInTernaries ==
  \A n \in Nodes : graph[n].kind = "ternary" =>
    \E k \in DOMAIN graph[n].inputs : ~Connected(n, k)

(* A literal behind a wire is not compared with what the wire brings in    *)
(* the visit that it is followed in (dsemantic.c:2052, 2069).              *)
LiteralsFirst ==
  \A n \in Nodes : graph[n].kind = "ternary" => ~Connected(n, 1)

(* No node depends on itself: sources have a smaller rank.                 *)
Acyclic(g) ==
  \E rank \in [DOMAIN g -> DOMAIN g] :
    \A n \in DOMAIN g : \A k \in DOMAIN g[n].inputs :
      g[n].inputs[k].from # 0 => rank[g[n].inputs[k].from] < rank[n]

(* Each line only refers to lines above it.                                *)
InOrder == \A n \in Nodes : \A k \in DOMAIN graph[n].inputs : Source(n, k) < n

-----------------------------------------------------------------------------
(* Every variable keeps its type; a pass that has needed nothing so far    *)
(* has only come by reduced nodes (dsemantic.c:2116, 2151).                *)
TypeOK ==
  /\ \A n \in Nodes : inputs[n] \in Seq(SUBSET Types)
  /\ DOMAIN inputs = Nodes
  /\ output \in [Nodes -> SUBSET Types] /\ reduced \in [Nodes -> BOOLEAN]
  /\ node \in 1..(Len(graph) + 1)
  /\ needed \in BOOLEAN /\ errors \in BOOLEAN /\ done \in BOOLEAN
  /\ ~needed => \A n \in 1..(node - 1) : reduced[n]
  /\ done => \A n \in Nodes : reduced[n]

(***************************************************************************)
(* Outputs get a type before all of the inputs are known, and change it    *)
(* when a Float turns up; what has settled for the first type by then is   *)
(* always reported (dsemantic.c:1701-1734).  So, in whichever order the    *)
(* lines are, there is an error or else outputs end up with the right      *)
(* types, the inputs of bitwise operators and of Ternarys agree, variables *)
(* are set to what they can hold, and what arithmetic makes fits where it  *)
(* goes.  TypeReductionClaims shows that the last cannot be said of the    *)
(* other vague outputs, and why a Ternary must have its literal first.     *)
(***************************************************************************)
RightOrReported ==
  done /\ ~errors /\ LiteralsFirst /\ Acyclic(graph) =>
    \A n \in Nodes :
      /\ output[n] = TypeOf[n]
      /\ InputsAgree(n)
      /\ \A k \in DOMAIN graph[n].inputs :
           Connected(n, k) /\ graph[Source(n, k)].kind \notin {"bitwise", "ternary"} => Fits(n, k)

(***************************************************************************)
(* A program whose types agree, written so that each line refers to lines  *)
(* above it, is accepted, and every connected input knows its type, but    *)
(* for those of comparisons and of Div, which nothing reduces              *)
(* (dsemantic.c:1923, 2088, 2104-2160).                                    *)
(***************************************************************************)
OrderedIsAccepted ==
  done /\ InOrder /\ WellTyped /\ LiteralInTernaries =>
    /\ ~errors
    /\ \A n \in Nodes : graph[n].kind \notin {"comparison", "div"} =>
         \A k \in DOMAIN inputs[n] : inputs[n][k] = TypeOfInput(n, k)

(***************************************************************************)
(* The passes end, in whatever order the lines are, if no line depends on  *)
(* itself (dsemantic.c:2111).                                              *)
(***************************************************************************)
Ends == LiteralInTernaries => <>done
=============================================================================
