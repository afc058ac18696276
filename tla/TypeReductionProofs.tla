------------------------- MODULE TypeReductionProofs -------------------------
(***************************************************************************)
(* The types of outputs, as the passes of d_semantic_reduce_types leave    *)
(* them, for every graph without cycles that the sockets of the core       *)
(* functions allow, of any size and in any order of its lines.             *)
(***************************************************************************)
EXTENDS TypeReduction, FiniteSetTheorems, SequenceTheorems, WellFoundedInduction, TLAPS

-----------------------------------------------------------------------------
(***************************************************************************)
(* Types.                                                                  *)
(***************************************************************************)
LEMMA Singles ==
  ASSUME NEW type \in SUBSET Types
  PROVE  IsReduced(type) <=> type \in Single
<1>1. IsFiniteSet(Types)
  <2> DEFINE S == ((({} \union {"Integer"}) \union {"Float"}) \union {"String"}) \union {"Boolean"}
  <2>1. IsFiniteSet(S)
    <3> HIDE DEF S
    <3>1. IsFiniteSet({}) /\ \A T, x : IsFiniteSet(T) => IsFiniteSet(T \union {x})
      BY FS_EmptySet, FS_AddElement
    <3> QED
      BY <3>1 DEF S
  <2>2. S = Types
    BY DEF Types
  <2> QED
    BY <2>1, <2>2
<1>2. IsFiniteSet(type)
  BY <1>1, FS_Subset
<1>3. Cardinality(type) = 1 <=> \E x : type = {x}
  BY <1>2, FS_Singleton
<1> QED
  BY <1>3 DEF IsReduced, Single

LEMMA Vague ==
  /\ Number \in SUBSET Types /\ Number \notin Single
  /\ Bitwise \in SUBSET Types /\ Bitwise \notin Single
  /\ VarAny \in SUBSET Types /\ VarAny \notin Single
  /\ {"Integer"} \in Single /\ {"Float"} \in Single /\ {"Boolean"} \in Single
  /\ {"String"} \in Single /\ Single \subseteq SUBSET Types
BY DEF Number, Bitwise, VarAny, Types, Single

(* A set of numbers has a least one.                                       *)
LEMMA Least ==
  ASSUME NEW S \in SUBSET Nat, S # {}
  PROVE  \E m \in S : \A k \in S : m <= k
<1>1. PICK m \in S : \A k \in S : ~(<<k, m>> \in OpToRel(<, Nat))
  BY NatLessThanWellFounded, WFMin
<1>2. \A k \in S : ~(k < m) /\ k \in Nat /\ m \in Nat
  BY <1>1 DEF OpToRel
<1>3. \A k \in S : m <= k
  BY <1>2
<1> QED
  BY <1>3

(* What holds of 0, and of k + 1 if it does of k, holds of 0..n.           *)
LEMMA CountUp ==
  ASSUME NEW n \in Nat, NEW T, 0 \in T, \A k \in 0..(n - 1) : k \in T => k + 1 \in T
  PROVE  0..n \subseteq T
<1> SUFFICES ASSUME (0..n) \ T # {}
             PROVE  FALSE
  OBVIOUS
<1> DEFINE missing == (0..n) \ T
<1>1. PICK m \in missing : \A k \in missing : m <= k
  <2>1. missing \in SUBSET Nat /\ missing # {}
    OBVIOUS
  <2> HIDE DEF missing
  <2> QED
    BY <2>1, Least
<1>2. m - 1 \in 0..(n - 1) /\ (m - 1) + 1 = m
  BY <1>1
<1>3. m - 1 \in T
  BY <1>1, <1>2
<1> QED
  BY <1>1, <1>2, <1>3

(* Of the sockets that have a single type, if there are any, one is last.  *)
LEMMA LastIsKnown ==
  ASSUME NEW types \in Seq(SUBSET Types), Known(types) # {}
  PROVE  /\ Max(Known(types)) \in Known(types)
         /\ \A k \in Known(types) : k <= Max(Known(types))
<1> DEFINE K == Known(types)
<1>1. PICK n \in Nat : n = Len(types)
  OBVIOUS
<1>2. K \subseteq 1..n
  BY <1>1 DEF Known
<1>3. PICK m \in {n - k : k \in K} : \A x \in {n - k : k \in K} : m <= x
  <2>1. {n - k : k \in K} \in SUBSET Nat /\ {n - k : k \in K} # {}
    BY <1>1, <1>2
  <2> QED
    BY <2>1, Least
<1>4. PICK last \in K : m = n - last
  BY <1>3
<1>5. ASSUME NEW k \in K
      PROVE  last >= k
  <2>1. n - last <= n - k
    BY <1>3, <1>4
  <2>2. k \in 1..n /\ last \in 1..n
    BY <1>2
  <2> HIDE DEF K
  <2> QED
    BY <2>1, <2>2
<1>6. Max(K) \in K /\ \A y \in K : Max(K) >= y
  BY <1>4, <1>5 DEF Max
<1> HIDE DEF K
<1> QED
  BY <1>2, <1>6 DEF K

-----------------------------------------------------------------------------
(***************************************************************************)
(* Every state has a graph of the constant ones and types of its shape.    *)
(***************************************************************************)
Shaped ==
  /\ graph \in Graphs
  /\ \A n \in Nodes : DOMAIN inputs[n] = DOMAIN graph[n].inputs

Typed == TypeOK /\ Shaped

LEMMA GraphShape ==
  ASSUME graph \in Graphs
  PROVE  /\ Nodes = 1..Len(graph) /\ Len(graph) \in Nat
         /\ \A n \in Nodes :
              /\ graph[n].kind \in Kinds /\ graph[n].inputs \in Seq(Input)
              /\ graph[n].output \in SUBSET Types /\ graph[n].variable \in Types
<1>1. graph \in Seq(Node)
  BY GraphsAssumption
<1>2. \A n \in Nodes : graph[n] \in Node
  BY <1>1 DEF Nodes
<1> QED
  BY <1>1, <1>2 DEF Nodes, Node

LEMMA Sockets ==
  ASSUME graph \in Graphs, NEW n \in Nodes
  PROVE  /\ Len(graph[n].inputs) \in NumInputs(graph[n].kind)
         /\ DOMAIN graph[n].inputs = 1..Len(graph[n].inputs)
         /\ graph[n].output \in OutputTypes(graph[n].kind)
         /\ \A k \in DOMAIN graph[n].inputs :
              /\ Source(n, k) \in Nat /\ graph[n].inputs[k].type \in SUBSET Types
              /\ IF Connected(n, k)
                 THEN Source(n, k) \in Nodes
                      /\ graph[n].inputs[k].type \in InputTypes(graph[n].kind)
                      /\ graph[n].inputs[k].type \intersect graph[Source(n, k)].output # {}
                 ELSE graph[n].inputs[k].type \in Single
<1>1. graph[n].inputs \in Seq(Input)
  BY GraphShape
<1>2. \A k \in DOMAIN graph[n].inputs : graph[n].inputs[k] \in Input
  BY <1>1
<1>3. \A k \in DOMAIN graph[n].inputs :
        graph[n].inputs[k].from \in Nat /\ graph[n].inputs[k].type \in SUBSET Types
  BY <1>2 DEF Input
<1> QED
  BY <1>1, <1>3, GraphsAssumption DEF Nodes, Connected, Source

(* What a node has learned has the types of its sockets.                   *)
LEMMA LearnedTypes ==
  ASSUME Typed, NEW n \in Nodes
  PROVE  /\ Learned(n) \in Seq(SUBSET Types) /\ DOMAIN Learned(n) = DOMAIN inputs[n]
         /\ \A k \in DOMAIN inputs[n] :
              /\ inputs[n][k] \in SUBSET Types
              /\ Connected(n, k) => output[Source(n, k)] \in SUBSET Types
<1>1. PICK len \in Nat : inputs[n] \in [1..len -> SUBSET Types]
  BY DEF Typed, TypeOK
<1>2. \A k \in DOMAIN inputs[n] : Connected(n, k) => Source(n, k) \in Nodes
  BY Sockets DEF Typed, Shaped
<1>3. \A m \in Nodes : output[m] \in SUBSET Types
  BY DEF Typed, TypeOK
<1>4. ASSUME NEW k \in DOMAIN inputs[n]
      PROVE  Learned(n)[k] \in SUBSET Types
  BY <1>1, <1>2, <1>3, <1>4 DEF Learned, FollowsWire
<1>5. Learned(n) \in [1..len -> SUBSET Types]
  BY <1>1, <1>4 DEF Learned
<1>6. Learned(n) \in Seq(SUBSET Types)
  BY <1>5
<1> QED
  BY <1>1, <1>2, <1>3, <1>5, <1>6

LEMMA KnownTypes ==
  ASSUME NEW types \in Seq(SUBSET Types), Known(types) # {}
  PROVE  LastKnown(types) \in Single
<1>1. Max(Known(types)) \in Known(types)
  BY LastIsKnown
<1>2. /\ Max(Known(types)) \in DOMAIN types
      /\ IsReduced(types[Max(Known(types))])
  BY <1>1 DEF Known
<1>3. types[Max(Known(types))] \in SUBSET Types
  BY <1>2
<1> QED
  BY <1>2, <1>3, Singles DEF LastKnown

(* Whatever kind of node it is, a reduced node has types again, and        *)
(* changes no types but its own.                                           *)
LEMMA ReduceTypes ==
  ASSUME Typed, NEW n \in Nodes, Reduce(n)
  PROVE  /\ inputs' \in {inputs, [inputs EXCEPT ![n] = Learned(n)]}
         /\ \/ output' = output
            \/ \E type \in Single : output' = [output EXCEPT ![n] = type]
         /\ \E enough \in BOOLEAN : reduced' = [reduced EXCEPT ![n] = enough]
         /\ errors' \in BOOLEAN
<1>1. Learned(n) \in Seq(SUBSET Types) /\ inputs[n] \in Seq(SUBSET Types)
  BY LearnedTypes DEF Typed, TypeOK
<1>2. errors \in BOOLEAN
  BY DEF Typed, TypeOK
<1>3. CASE ReduceArithmetic(n)
  <2> DEFINE type == IF {"Float"} \in Range(Learned(n)) THEN {"Float"} ELSE {"Integer"}
  <2>1. type \in Single
    BY Vague
  <2>2. /\ inputs' = [inputs EXCEPT ![n] = Learned(n)]
        /\ output' = [output EXCEPT ![n] = type]
        /\ errors' = (errors \/ Incompatible(n, type))
        /\ reduced' = [reduced EXCEPT ![n] = ~Waits(n)]
    BY <1>3 DEF ReduceArithmetic, Learn, Err, Settle
  <2>3. errors' \in BOOLEAN /\ (~Waits(n)) \in BOOLEAN
    BY <1>2, <2>2
  <2> QED
    BY <2>1, <2>2, <2>3
<1>4. CASE ReduceDivide(n)
  <2>1. (~Waits(n)) \in BOOLEAN
    OBVIOUS
  <2> QED
    BY <1>2, <1>4, <2>1 DEF ReduceDivide, Learn, Settle
<1>5. CASE ReduceBitwise(n)
  <2> DEFINE types == Learned(n)
             mixed == \E j, k \in Known(types) : types[j] # types[k]
  <2>1. Known(types) # {} => LastKnown(types) \in Single
    BY <1>1, KnownTypes
  <2>2. /\ inputs' = [inputs EXCEPT ![n] = Learned(n)]
        /\ output' = IF Known(types) = {} THEN output
                     ELSE [output EXCEPT ![n] = LastKnown(types)]
        /\ errors' = (errors \/ mixed)
        /\ reduced' = [reduced EXCEPT ![n] = ~Waits(n) \/ mixed]
    BY <1>5 DEF ReduceBitwise, Learn, Err, Settle
  <2>3. errors' \in BOOLEAN /\ (~Waits(n) \/ mixed) \in BOOLEAN
    BY <1>2, <2>2
  <2> HIDE DEF types, mixed
  <2> QED
    BY <2>1, <2>2, <2>3
<1>6. CASE ReduceComparison(n)
  <2>1. PICK error : errors' = (errors \/ error)
    BY <1>6 DEF ReduceComparison, Err
  <2>2. errors' \in BOOLEAN /\ (~Waits(n)) \in BOOLEAN
    BY <1>2, <2>1
  <2> QED
    BY <1>6, <2>2 DEF ReduceComparison, Learn, Settle
<1>7. CASE ReduceTernary(n)
  <2> DEFINE types == inputs[n]
             mixed == IsReduced(inputs[n][1]) /\ IsReduced(Learned(n)[2])
                      /\ inputs[n][1] # Learned(n)[2]
  <2>1. Known(types) # {} => LastKnown(types) \in Single
    BY <1>1, KnownTypes
  <2>2. /\ inputs' = [inputs EXCEPT ![n] = Learned(n)]
        /\ output' = IF Known(types) = {} THEN output
                     ELSE [output EXCEPT ![n] = LastKnown(types)]
        /\ errors' = (errors \/ mixed)
        /\ reduced' = [reduced EXCEPT ![n] = ~Waits(n) \/ mixed]
    BY <1>7 DEF ReduceTernary, Learn, Err, Settle
  <2>3. errors' \in BOOLEAN /\ (~Waits(n) \/ mixed) \in BOOLEAN
    BY <1>2, <2>2
  <2> HIDE DEF types, mixed
  <2> QED
    BY <2>1, <2>2, <2>3
<1>8. CASE ReducePrintOrSet(n)
  <2>1. PICK error : errors' = (errors \/ error)
    BY <1>8 DEF ReducePrintOrSet, Err
  <2>2. errors' \in BOOLEAN
    BY <1>2, <2>1
  <2> QED
    BY <1>8, <2>2 DEF ReducePrintOrSet, Learn, Settle
<1>9. CASE ReduceOther(n)
  BY <1>2, <1>9 DEF ReduceOther, Settle
<1> QED
  BY <1>3, <1>4, <1>5, <1>6, <1>7, <1>8, <1>9 DEF Reduce

LEMMA TypedInit ==
  ASSUME Init
  PROVE  Typed
<1>1. graph \in Graphs
  BY DEF Init
<1>2. ASSUME NEW n \in Nodes
      PROVE  /\ inputs[n] \in Seq(SUBSET Types)
             /\ DOMAIN inputs[n] = DOMAIN graph[n].inputs
  <2>1. graph[n].inputs \in Seq(Input)
    BY <1>1, GraphShape
  <2>2. PICK len \in Nat : len = Len(graph[n].inputs)
    BY <2>1
  <2>3. inputs[n] = [k \in 1..len |-> graph[n].inputs[k].type]
    BY <2>1, <2>2 DEF Init
  <2>4. inputs[n] \in [1..len -> SUBSET Types]
    BY <1>1, <2>1, <2>2, <2>3, Sockets
  <2> QED
    BY <2>1, <2>2, <2>3, <2>4
<1>3. /\ output \in [Nodes -> SUBSET Types] /\ reduced \in [Nodes -> BOOLEAN]
      /\ DOMAIN inputs = Nodes
  BY <1>1, GraphShape DEF Init
<1>4. /\ node = 1 /\ node \in 1..(Len(graph) + 1) /\ 1..(node - 1) = {}
      /\ needed = FALSE /\ errors = FALSE /\ done = FALSE
  BY <1>1, GraphShape DEF Init
<1> QED
  BY <1>1, <1>2, <1>3, <1>4 DEF Typed, TypeOK, Shaped

LEMMA TypedStep ==
  ASSUME Typed, [Next]_vars
  PROVE  Typed'
<1>1. Nodes = 1..Len(graph) /\ Len(graph) \in Nat /\ graph \in Graphs
  BY GraphShape DEF Typed, Shaped
<1>2. CASE ReduceNode
  <2>1. /\ node \in Nodes /\ Reduce(node) /\ node' = node + 1 /\ needed' = TRUE
        /\ ~done /\ UNCHANGED <<graph, done>>
    BY <1>2 DEF ReduceNode
  <2>2. Nodes' = Nodes
    BY <2>1 DEF Nodes
  <2>3. /\ inputs' \in {inputs, [inputs EXCEPT ![node] = Learned(node)]}
        /\ \/ output' = output
           \/ \E type \in Single : output' = [output EXCEPT ![node] = type]
        /\ \E enough \in BOOLEAN : reduced' = [reduced EXCEPT ![node] = enough]
        /\ errors' \in BOOLEAN
    BY <2>1, ReduceTypes
  <2>4. /\ Learned(node) \in Seq(SUBSET Types) /\ DOMAIN Learned(node) = DOMAIN inputs[node]
    BY <2>1, LearnedTypes
  <2>5. /\ DOMAIN inputs' = Nodes
        /\ \A n \in Nodes : inputs'[n] \in Seq(SUBSET Types)
                            /\ DOMAIN inputs'[n] = DOMAIN graph[n].inputs
    BY <2>1, <2>3, <2>4 DEF Typed, TypeOK, Shaped
  <2>6. output' \in [Nodes -> SUBSET Types]
    BY <2>3, Vague DEF Typed, TypeOK
  <2>7. reduced' \in [Nodes -> BOOLEAN]
    BY <2>3 DEF Typed, TypeOK
  <2>8. node' \in 1..(Len(graph') + 1)
    BY <1>1, <2>1
  <2> QED
    BY <1>1, <2>1, <2>2, <2>3, <2>5, <2>6, <2>7, <2>8 DEF Typed, TypeOK, Shaped
<1>3. CASE SkipNode
  <2>1. /\ node \in Nodes /\ reduced[node] /\ node' = node + 1 /\ Nodes' = Nodes
        /\ ~done /\ UNCHANGED <<graph, inputs, output, reduced, needed, errors, done>>
    BY <1>3 DEF SkipNode, Nodes
  <2>2. node' \in 1..(Len(graph) + 1)
    BY <1>1, <2>1
  <2>3. ASSUME ~needed, NEW n \in 1..(node' - 1)
        PROVE  reduced[n]
    <3>1. n = node \/ n \in 1..(node - 1)
      BY <1>1, <2>1
    <3> QED
      BY <2>1, <2>3, <3>1 DEF Typed, TypeOK
  <2> QED
    BY <1>1, <2>1, <2>2, <2>3 DEF Typed, TypeOK, Shaped
<1>4. CASE EndPass
  <2>1. /\ node \notin Nodes /\ Nodes' = Nodes
        /\ \/ needed /\ node' = 1 /\ needed' = FALSE /\ UNCHANGED done
           \/ ~needed /\ done' = TRUE /\ UNCHANGED <<node, needed>>
        /\ ~done /\ UNCHANGED <<graph, inputs, output, reduced, errors>>
    BY <1>4 DEF EndPass, Nodes, Typed, TypeOK
  <2>2. node = Len(graph) + 1
    BY <1>1, <2>1 DEF Typed, TypeOK
  <2>3. ~needed => \A n \in Nodes : reduced[n]
    BY <1>1, <2>2 DEF Typed, TypeOK
  <2>4. ASSUME node' = 1
        PROVE  node' \in 1..(Len(graph) + 1) /\ 1..(node' - 1) = {}
    BY <1>1, <2>4
  <2>5. CASE needed
    <3>1. /\ node' = 1 /\ needed' = FALSE /\ done' = done /\ ~done /\ graph' = graph
          /\ reduced' = reduced /\ inputs' = inputs /\ output' = output /\ errors' = errors
      BY <2>1, <2>5
    <3>2. \A n \in 1..(node' - 1) : reduced'[n]
      BY <2>4, <3>1
    <3> QED
      BY <2>1, <2>4, <3>1, <3>2 DEF Typed, TypeOK, Shaped
  <2>6. CASE ~needed
    <3>1. /\ node' = node /\ needed' = needed /\ done' = TRUE /\ graph' = graph
          /\ reduced' = reduced /\ inputs' = inputs /\ output' = output /\ errors' = errors
      BY <2>1, <2>6
    <3> QED
      BY <2>1, <2>3, <3>1 DEF Typed, TypeOK, Shaped
  <2> QED
    BY <2>5, <2>6
<1>5. CASE UNCHANGED vars
  <2>1. Nodes' = Nodes
    BY <1>5 DEF vars, Nodes
  <2> QED
    BY <1>5, <2>1 DEF vars, Typed, TypeOK, Shaped
<1> QED
  BY <1>2, <1>3, <1>4, <1>5 DEF Next

LEMMA AlwaysTyped == Spec => []Typed
<1> QED
  BY TypedInit, TypedStep, PTL DEF Spec

(* Every variable keeps its type, and a pass that needed nothing ends with *)
(* every node reduced (dsemantic.c:2111-2155), however many nodes there    *)
(* are.                                                                    *)
THEOREM ReductionTypes == Spec => []TypeOK
<1>1. Typed => TypeOK
  BY DEF Typed
<1> QED
  BY <1>1, AlwaysTyped, PTL

-----------------------------------------------------------------------------
(***************************************************************************)
(* Outputs end up with the right types, unless there is an error.          *)
(***************************************************************************)
(* An input has the type it is declared with, or that of its source, which *)
(* is the one it still has.                                                *)
Fresh(n, k, type)  == type = graph[n].inputs[k].type
Agrees(n, k, type) == Connected(n, k) /\ type = output[Source(n, k)] /\ type \in Single

SumType(types) == IF {"Float"} \in Range(types) THEN {"Float"} ELSE {"Integer"}

(* The literal a Ternary takes its type from.                              *)
LiteralOf(n) == graph[n].inputs[1].type

Passing(n) == graph[n].kind \in {"arithmetic", "bitwise", "ternary"}

(* What the output of a node may be while the passes go on ...             *)
OutputOnItsWay(n) ==
  /\ graph[n].kind = "arithmetic" => output[n] \in {Number, SumType(inputs[n])}
  /\ graph[n].kind = "bitwise" =>
       \/ output[n] = Bitwise
       \/ output[n] \in Single /\ \E k \in DOMAIN inputs[n] : inputs[n][k] = output[n]
  /\ graph[n].kind = "ternary" => output[n] \in {VarAny, LiteralOf(n)}
  /\ ~Passing(n) => output[n] = graph[n].output

(* ... and what it is when the node is reduced.                            *)
OutputSettled(n) ==
  /\ graph[n].kind = "arithmetic" => output[n] = SumType(inputs[n])
  /\ graph[n].kind \in {"bitwise", "ternary"} =>
       \A k \in DOMAIN inputs[n] : inputs[n][k] = output[n]
  /\ graph[n].kind = "set" => inputs[n][1] = {graph[n].variable}

(* What arithmetic has made of its output so far can go where it goes.     *)
FitsConsumers(n) ==
  graph[n].kind = "arithmetic" /\ output[n] # Number =>
    \A m \in Nodes : \A k \in DOMAIN graph[m].inputs :
      Source(m, k) = n => output[n] \subseteq graph[m].inputs[k].type

Right(n) ==
  /\ \A k \in DOMAIN inputs[n] : Fresh(n, k, inputs[n][k]) \/ Agrees(n, k, inputs[n][k])
  /\ OutputOnItsWay(n) /\ FitsConsumers(n)
  /\ reduced[n] =>
       /\ OutputSettled(n)
       /\ Passing(n) => \A k \in DOMAIN inputs[n] :
                          Connected(n, k) => Agrees(n, k, inputs[n][k])
  /\ ~reduced[n] /\ graph[n].kind = "ternary" =>
       \A k \in DOMAIN inputs[n] : Fresh(n, k, inputs[n][k])

RightSoFar ==
  ~errors /\ LiteralsFirst /\ Acyclic(graph) => \A n \in Nodes : Right(n)

(* No node is its own source.                                              *)
LEMMA NotOwnSource ==
  ASSUME graph \in Graphs, Acyclic(graph), NEW n \in Nodes,
         NEW k \in DOMAIN graph[n].inputs, Connected(n, k)
  PROVE  Source(n, k) # n
<1>1. PICK rank \in [DOMAIN graph -> DOMAIN graph] :
        \A i \in DOMAIN graph : \A j \in DOMAIN graph[i].inputs :
          graph[i].inputs[j].from # 0 => rank[graph[i].inputs[j].from] < rank[i]
  BY DEF Acyclic
<1>2. rank[Source(n, k)] < rank[n]
  BY <1>1 DEF Nodes, Connected, Source
<1>3. rank[n] \in Nat
  BY <1>1, GraphShape DEF Nodes
<1> QED
  BY <1>2, <1>3

(* The kinds that pass a type on from their inputs have vague sockets.     *)
LEMMA PassingSockets ==
  ASSUME graph \in Graphs, NEW n \in Nodes, Passing(n)
  PROVE  /\ \A k \in DOMAIN graph[n].inputs :
              Connected(n, k) => graph[n].inputs[k].type \notin Single
         /\ graph[n].kind = "arithmetic" => graph[n].output = Number
         /\ graph[n].kind = "bitwise" => graph[n].output = Bitwise /\ 1 \in DOMAIN graph[n].inputs
         /\ graph[n].kind = "ternary" => graph[n].output = VarAny /\ DOMAIN graph[n].inputs = {1, 2}
<1>1. CASE graph[n].kind = "arithmetic"
  <2>1. InputTypes(graph[n].kind) = {Number} /\ OutputTypes(graph[n].kind) = {Number}
    BY <1>1 DEF InputTypes, OutputTypes
  <2> QED
    BY <1>1, <2>1, Sockets, Vague
<1>2. CASE graph[n].kind = "bitwise"
  <2>1. /\ InputTypes(graph[n].kind) = {Bitwise} /\ OutputTypes(graph[n].kind) = {Bitwise}
        /\ NumInputs(graph[n].kind) = {1, 2}
    BY <1>2 DEF InputTypes, OutputTypes, NumInputs
  <2>2. PICK len \in {1, 2} : DOMAIN graph[n].inputs = 1..len
    BY <2>1, Sockets
  <2>3. 1 \in 1..len
    BY <2>2
  <2> QED
    BY <1>2, <2>1, <2>2, <2>3, Sockets, Vague
<1>3. CASE graph[n].kind = "ternary"
  <2>1. /\ InputTypes(graph[n].kind) = {VarAny} /\ OutputTypes(graph[n].kind) = {VarAny}
        /\ NumInputs(graph[n].kind) = {2}
    BY <1>3 DEF InputTypes, OutputTypes, NumInputs
  <2>2. DOMAIN graph[n].inputs = 1..2 /\ 1..2 = {1, 2}
    BY <2>1, Sockets
  <2> QED
    BY <1>3, <2>1, <2>2, Sockets, Vague
<1> QED
  BY <1>1, <1>2, <1>3 DEF Passing

(* Which inputs have their wires followed.                                 *)
LEMMA Followed ==
  ASSUME Typed, NEW n \in Nodes, NEW k \in DOMAIN inputs[n]
  PROVE  /\ FollowsWire(n, k) => Connected(n, k)
         /\ Passing(n) /\ Connected(n, k) /\ ~FollowsWire(n, k) => inputs[n][k] \in Single
         /\ graph[n].kind = "ternary" => (FollowsWire(n, k) <=>
              Connected(n, k) /\ inputs[n][k] \notin Single)
<1>1. FollowsWire(n, k) => Connected(n, k)
  BY DEF FollowsWire
<1>2. IsReduced(inputs[n][k]) <=> inputs[n][k] \in Single
  BY LearnedTypes, Singles
<1>3. graph[n].kind = "arithmetic" =>
        (FollowsWire(n, k) <=> Connected(n, k) /\ inputs[n][k] # {"Float"})
  BY DEF FollowsWire
<1>4. graph[n].kind = "bitwise" =>
        (FollowsWire(n, k) <=>
           Connected(n, k) /\ inputs[n][k] \notin {{"Integer"}, {"Boolean"}})
  BY DEF FollowsWire
<1>5. graph[n].kind = "ternary" =>
        (FollowsWire(n, k) <=> Connected(n, k) /\ ~IsReduced(inputs[n][k]))
  BY DEF FollowsWire
<1> QED
  BY <1>1, <1>2, <1>3, <1>4, <1>5, Vague DEF Passing

(* What a visit makes of the type of an input.                             *)
LEMMA LearnsRight ==
  ASSUME Typed, NEW n \in Nodes, NEW k \in DOMAIN inputs[n],
         Fresh(n, k, inputs[n][k]) \/ Agrees(n, k, inputs[n][k])
  PROVE  /\ Fresh(n, k, Learned(n)[k]) \/ Agrees(n, k, Learned(n)[k])
         /\ ~Connected(n, k) => /\ Learned(n)[k] = inputs[n][k] /\ Learned(n)[k] \in Single
                                /\ Fresh(n, k, Learned(n)[k])
         /\ Passing(n) /\ inputs[n][k] \in Single => Learned(n)[k] = inputs[n][k]
         /\ Passing(n) /\ Connected(n, k) /\ ~Waits(n) => Agrees(n, k, Learned(n)[k])
         /\ Passing(n) /\ FollowsWire(n, k) /\ ~IsReduced(output[Source(n, k)]) =>
              Learned(n)[k] = inputs[n][k]
<1>1. /\ graph \in Graphs /\ k \in DOMAIN graph[n].inputs
      /\ Connected(n, k) => output[Source(n, k)] \in SUBSET Types
  BY LearnedTypes DEF Typed, Shaped
<1>2. Connected(n, k) => (IsReduced(output[Source(n, k)]) <=> output[Source(n, k)] \in Single)
  BY <1>1, Singles
<1>3. Learned(n)[k] = IF FollowsWire(n, k) /\ IsReduced(output[Source(n, k)])
                      THEN output[Source(n, k)] ELSE inputs[n][k]
  BY DEF Learned
<1>4. FollowsWire(n, k) => Connected(n, k)
  BY Followed
<1>5. Passing(n) /\ Connected(n, k) /\ ~FollowsWire(n, k) => inputs[n][k] \in Single
  BY Followed
<1>6. Passing(n) /\ Connected(n, k) => graph[n].inputs[k].type \notin Single
  BY <1>1, PassingSockets
<1>7. ~Connected(n, k) => graph[n].inputs[k].type \in Single
  BY <1>1, Sockets
<1>8. ~Waits(n) /\ FollowsWire(n, k) => IsReduced(output[Source(n, k)])
  BY DEF Waits
<1> QED
  BY <1>2, <1>3, <1>4, <1>5, <1>6, <1>7, <1>8 DEF Fresh, Agrees

-----------------------------------------------------------------------------
(***************************************************************************)
(* A visit of each kind of node that passes types on.                      *)
(***************************************************************************)
LEMMA BitwiseVisit ==
  ASSUME Typed, NEW n \in Nodes, Right(n), ~reduced[n], ReduceBitwise(n), ~errors'
  PROVE  /\ inputs'[n] = Learned(n) /\ DOMAIN Learned(n) = DOMAIN inputs[n]
         /\ output[n] \in Single => output'[n] = output[n]
         /\ \/ output'[n] = Bitwise
            \/ /\ output'[n] \in Single
               /\ \E k \in DOMAIN Learned(n) : Learned(n)[k] = output'[n]
         /\ reduced'[n] =>
              ~Waits(n) /\ \A k \in DOMAIN Learned(n) : Learned(n)[k] = output'[n]
<1> DEFINE types == Learned(n)
           mixed == \E j, k \in Known(types) : types[j] # types[k]
<1>1. /\ types \in Seq(SUBSET Types) /\ DOMAIN types = DOMAIN inputs[n]
      /\ graph \in Graphs /\ DOMAIN inputs[n] = DOMAIN graph[n].inputs
      /\ DOMAIN inputs = Nodes /\ DOMAIN output = Nodes /\ DOMAIN reduced = Nodes
  BY LearnedTypes DEF Typed, Shaped, TypeOK
<1>2. /\ inputs' = [inputs EXCEPT ![n] = types]
      /\ output' = IF Known(types) = {} THEN output
                   ELSE [output EXCEPT ![n] = LastKnown(types)]
      /\ errors' = (errors \/ mixed)
      /\ reduced' = [reduced EXCEPT ![n] = ~Waits(n) \/ mixed]
      /\ graph[n].kind = "bitwise"
  BY DEF ReduceBitwise, Learn, Err, Settle
<1>3. ~mixed
  BY <1>2
<1>4. /\ inputs'[n] = types /\ reduced'[n] = (~Waits(n) \/ mixed)
      /\ output'[n] = IF Known(types) = {} THEN output[n] ELSE LastKnown(types)
  BY <1>1, <1>2
<1>5. \A k \in DOMAIN types : k \in Known(types) <=> types[k] \in Single
  <2>1. \A k \in DOMAIN types : types[k] \in SUBSET Types
    BY <1>1
  <2> QED
    BY <2>1, Singles DEF Known
<1>6. \A k \in Known(types) : k \in DOMAIN types /\ LastKnown(types) = types[k]
  <2>1. Known(types) # {} => Max(Known(types)) \in Known(types)
    BY <1>1, LastIsKnown
  <2> QED
    BY <1>3, <2>1 DEF LastKnown, Known
<1>7. \A k \in DOMAIN inputs[n] : inputs[n][k] \in Single => types[k] = inputs[n][k]
  BY <1>2, LearnsRight DEF Passing, Right
<1>8. \/ output[n] = Bitwise
      \/ output[n] \in Single /\ \E k \in DOMAIN inputs[n] : inputs[n][k] = output[n]
  BY <1>2 DEF Right, OutputOnItsWay
<1>9. ASSUME output[n] \in Single
      PROVE  output'[n] = output[n]
  <2>1. PICK k \in DOMAIN inputs[n] : inputs[n][k] = output[n]
    BY <1>8, <1>9, Vague
  <2>2. types[k] = output[n] /\ k \in Known(types)
    BY <1>1, <1>5, <1>7, <1>9, <2>1
  <2> QED
    BY <1>4, <1>6, <2>2
<1>10. \/ output'[n] = Bitwise
       \/ /\ output'[n] \in Single
          /\ \E k \in DOMAIN types : types[k] = output'[n]
  <2>1. CASE Known(types) = {}
    BY <1>1, <1>4, <1>5, <1>7, <1>8, <2>1
  <2>2. CASE Known(types) # {}
    <3>1. PICK k : k \in Known(types)
      BY <2>2
    <3> QED
      BY <1>4, <1>5, <1>6, <3>1
  <2> QED
    BY <2>1, <2>2
<1>11. ASSUME reduced'[n], NEW k \in DOMAIN types
       PROVE  ~Waits(n) /\ output'[n] = types[k]
  <2>1. ~Waits(n)
    BY <1>3, <1>4, <1>11
  <2>2. types[k] \in Single
    BY <1>1, <1>2, <2>1, LearnsRight DEF Passing, Right, Agrees
  <2>3. k \in Known(types)
    BY <1>5, <2>2
  <2> QED
    BY <1>4, <1>6, <2>1, <2>3
<1>12. reduced'[n] => ~Waits(n)
  BY <1>3, <1>4
<1> QED
  BY <1>1, <1>4, <1>9, <1>10, <1>11, <1>12

LEMMA TernaryVisit ==
  ASSUME Typed, LiteralsFirst, NEW n \in Nodes, Right(n), ~reduced[n],
         ReduceTernary(n), ~errors'
  PROVE  /\ inputs'[n] = Learned(n) /\ DOMAIN Learned(n) = DOMAIN inputs[n]
         /\ output'[n] = LiteralOf(n)
         /\ reduced'[n] =>
              ~Waits(n) /\ \A k \in DOMAIN Learned(n) : Learned(n)[k] = output'[n]
         /\ ~reduced'[n] => \A k \in DOMAIN Learned(n) : Fresh(n, k, Learned(n)[k])
<1> DEFINE types == Learned(n)
           mixed == IsReduced(inputs[n][1]) /\ IsReduced(types[2]) /\ inputs[n][1] # types[2]
<1>1. /\ types \in Seq(SUBSET Types) /\ DOMAIN types = DOMAIN inputs[n]
      /\ graph \in Graphs /\ DOMAIN inputs[n] = DOMAIN graph[n].inputs
      /\ DOMAIN inputs = Nodes /\ DOMAIN output = Nodes /\ DOMAIN reduced = Nodes
      /\ inputs[n] \in Seq(SUBSET Types)
  BY LearnedTypes DEF Typed, Shaped, TypeOK
<1>2. /\ inputs' = [inputs EXCEPT ![n] = types]
      /\ output' = IF Known(inputs[n]) = {} THEN output
                   ELSE [output EXCEPT ![n] = LastKnown(inputs[n])]
      /\ errors' = (errors \/ mixed)
      /\ reduced' = [reduced EXCEPT ![n] = ~Waits(n) \/ mixed]
      /\ graph[n].kind = "ternary"
  BY DEF ReduceTernary, Learn, Err, Settle
<1>3. ~mixed
  BY <1>2
<1>4. /\ inputs'[n] = types /\ reduced'[n] = (~Waits(n) \/ mixed)
      /\ output'[n] = IF Known(inputs[n]) = {} THEN output[n] ELSE LastKnown(inputs[n])
  BY <1>1, <1>2
<1>5. DOMAIN inputs[n] = {1, 2}
  BY <1>1, <1>2, PassingSockets DEF Passing
<1>6. \A k \in {1, 2} : Fresh(n, k, inputs[n][k])
  BY <1>2, <1>5 DEF Right
<1>7. \A k \in {1, 2} : k \in Known(inputs[n]) <=> ~Connected(n, k)
  <2>1. \A k \in {1, 2} : inputs[n][k] \in SUBSET Types
    BY <1>1, <1>5
  <2>2. \A k \in {1, 2} : inputs[n][k] \in Single <=> ~Connected(n, k)
    BY <1>1, <1>2, <1>5, <1>6, Sockets, PassingSockets DEF Passing, Fresh
  <2> QED
    BY <1>5, <2>1, <2>2, Singles DEF Known
<1>8. ~Connected(n, 1)
  BY <1>2 DEF LiteralsFirst
<1>9. \A k \in {1, 2} : IF Connected(n, k)
                        THEN inputs[n][k] \notin Single /\ FollowsWire(n, k)
                        ELSE types[k] = inputs[n][k] /\ types[k] \in Single
  <2>1. \A k \in {1, 2} : IF Connected(n, k) THEN inputs[n][k] \notin Single
                          ELSE types[k] = inputs[n][k] /\ types[k] \in Single
    BY <1>1, <1>2, <1>5, <1>6, PassingSockets, LearnsRight DEF Passing, Fresh, Right
  <2> QED
    BY <1>2, <1>5, <2>1, Followed
<1>10. inputs[n][1] = LiteralOf(n) /\ types[1] = LiteralOf(n) /\ LiteralOf(n) \in Single
  BY <1>6, <1>8, <1>9 DEF LiteralOf, Fresh
<1>11. types[2] \in Single => types[2] = LiteralOf(n)
  <2>1. ASSUME types[2] \in Single
        PROVE  types[2] = LiteralOf(n)
    <3>1. IsReduced(inputs[n][1]) /\ IsReduced(types[2])
      BY <1>10, <2>1, Singles, Vague
    <3> QED
      BY <1>3, <1>10, <3>1
  <2> QED
    BY <2>1
<1>13. output'[n] = LiteralOf(n)
  <2>1. Known(inputs[n]) # {}
    BY <1>7, <1>8
  <2>2. /\ Max(Known(inputs[n])) \in Known(inputs[n])
        /\ \A k \in Known(inputs[n]) : k <= Max(Known(inputs[n]))
    BY <1>1, <2>1, LastIsKnown
  <2>3. PICK k \in {1, 2} : k = Max(Known(inputs[n])) /\ ~Connected(n, k)
    BY <1>5, <1>7, <2>2 DEF Known
  <2>4. inputs[n][k] = LiteralOf(n)
    BY <1>9, <1>10, <1>11, <2>3
  <2> QED
    BY <1>4, <2>1, <2>3, <2>4 DEF LastKnown
<1>14. reduced'[n] => ~Waits(n)
  BY <1>3, <1>4
<1>15. ASSUME reduced'[n], NEW k \in {1, 2}
       PROVE  types[k] = LiteralOf(n)
  <2>1. types[2] \in Single
    BY <1>2, <1>5, <1>9, <1>14, <1>15, LearnsRight DEF Passing, Right, Agrees
  <2> QED
    BY <1>10, <1>11, <2>1
<1>12. ASSUME ~reduced'[n], NEW k \in {1, 2}
       PROVE  Fresh(n, k, types[k])
  <2>1. PICK j \in {1, 2} : FollowsWire(n, j) /\ ~IsReduced(output[Source(n, j)])
    BY <1>4, <1>5, <1>12 DEF Waits
  <2>2. Connected(n, j)
    BY <1>5, <2>1, Followed
  <2>3. k # j => ~Connected(n, k)
    BY <1>8, <2>2
  <2>4. k = j => types[k] = inputs[n][k]
    BY <1>5, <2>1 DEF Learned
  <2> QED
    BY <1>6, <1>9, <2>3, <2>4 DEF Fresh
<1> QED
  BY <1>1, <1>4, <1>5, <1>12, <1>13, <1>14, <1>15

(* A consumer that has settled for the other type makes it an error.       *)
LEMMA ArithmeticVisit ==
  ASSUME Typed, NEW n \in Nodes, Right(n), ~reduced[n], ReduceArithmetic(n), ~errors'
  PROVE  /\ inputs'[n] = Learned(n) /\ DOMAIN Learned(n) = DOMAIN inputs[n]
         /\ output'[n] = SumType(Learned(n))
         /\ reduced'[n] => ~Waits(n)
         /\ output'[n] \in Single
         /\ \A m \in Nodes : \A k \in DOMAIN inputs[m] :
              m # n /\ Source(m, k) = n =>
                /\ inputs[m][k] \intersect output'[n] # {}
                /\ Agrees(m, k, inputs[m][k]) => output'[n] = output[n]
<1>1. /\ DOMAIN Learned(n) = DOMAIN inputs[n]
      /\ DOMAIN inputs = Nodes /\ DOMAIN output = Nodes /\ DOMAIN reduced = Nodes
  BY LearnedTypes DEF Typed, TypeOK
<1> DEFINE type == SumType(Learned(n))
<1>2. /\ inputs' = [inputs EXCEPT ![n] = Learned(n)]
      /\ output' = [output EXCEPT ![n] = type]
      /\ errors' = (errors \/ Incompatible(n, type))
      /\ reduced' = [reduced EXCEPT ![n] = ~Waits(n)]
  BY DEF ReduceArithmetic, Learn, Err, Settle, SumType
<1>3. type \in Single
  BY Vague DEF SumType
<1> HIDE DEF type
<1>4. inputs'[n] = Learned(n) /\ output'[n] = type /\ reduced'[n] = ~Waits(n)
  BY <1>1, <1>2
<1>5. ASSUME NEW m \in Nodes, NEW k \in DOMAIN inputs[m], m # n, Source(m, k) = n
      PROVE  inputs[m][k] \intersect type # {}
  <2>1. inputs'[m] = inputs[m]
    BY <1>1, <1>2, <1>5
  <2> QED
    BY <1>2, <1>5, <2>1 DEF Incompatible
<1>6. ASSUME NEW m \in Nodes, NEW k \in DOMAIN inputs[m], m # n, Source(m, k) = n,
             Agrees(m, k, inputs[m][k])
      PROVE  output'[n] = output[n]
  <2>1. inputs[m][k] \in Single /\ inputs[m][k] = output[n]
    BY <1>6 DEF Agrees
  <2>2. inputs[m][k] = type
    BY <1>3, <1>5, <1>6, <2>1 DEF Single
  <2> QED
    BY <1>4, <2>1, <2>2
<1> QED
  BY <1>1, <1>3, <1>4, <1>5, <1>6 DEF type

(* So the new type fits all inputs that are connected to it.               *)
LEMMA ArithmeticFits ==
  ASSUME Typed, Acyclic(graph), NEW n \in Nodes, \A m \in Nodes : Right(m), ~reduced[n],
         ReduceArithmetic(n), ~errors',
         NEW m \in Nodes, NEW k \in DOMAIN graph[m].inputs, Source(m, k) = n
  PROVE  output'[n] \subseteq graph[m].inputs[k].type
<1>1. /\ graph \in Graphs /\ k \in DOMAIN inputs[m] /\ graph[n].kind = "arithmetic"
      /\ n \in Nat \ {0}
  <2>1. graph \in Graphs /\ k \in DOMAIN inputs[m] /\ graph[n].kind = "arithmetic"
    BY DEF Typed, Shaped, ReduceArithmetic
  <2>2. PICK len \in Nat : Nodes = 1..len
    BY <2>1, GraphShape
  <2> QED
    BY <2>1, <2>2
<1>2. Connected(m, k)
  BY <1>1 DEF Connected, Source
<1>3. m # n
  BY <1>1, <1>2, NotOwnSource
<1>4. /\ output'[n] \in Single /\ inputs[m][k] \intersect output'[n] # {}
      /\ Agrees(m, k, inputs[m][k]) => output'[n] = output[n]
  BY <1>1, <1>3, ArithmeticVisit
<1>5. CASE Fresh(m, k, inputs[m][k])
  BY <1>4, <1>5 DEF Fresh, Single
<1>6. CASE Agrees(m, k, inputs[m][k])
  <2>1. output[n] \in Single /\ output'[n] = output[n]
    BY <1>4, <1>6 DEF Agrees
  <2>2. output[n] # Number /\ FitsConsumers(n)
    BY <2>1, Vague DEF Right
  <2> QED
    BY <1>1, <2>1, <2>2 DEF FitsConsumers
<1> QED
  BY <1>1, <1>5, <1>6 DEF Right

(* The other kinds of nodes leave the types of outputs alone.              *)
LEMMA OtherVisit ==
  ASSUME Typed, NEW n \in Nodes, Reduce(n), ~Passing(n)
  PROVE  output' = output
BY DEF Reduce, Passing, ReduceArithmetic, ReduceDivide, ReduceBitwise, ReduceComparison,
       ReduceTernary, ReducePrintOrSet, ReduceOther

(* A Set that is not an error has what its variable can hold.              *)
LEMMA SetVisit ==
  ASSUME Typed, NEW n \in Nodes, Reduce(n), ~errors', graph[n].kind = "set"
  PROVE  inputs'[n][1] = {graph[n].variable}
<1>1. ReducePrintOrSet(n)
  BY DEF Reduce, ReduceArithmetic, ReduceDivide, ReduceBitwise, ReduceComparison,
         ReduceTernary, ReduceOther
<1>2. inputs' = [inputs EXCEPT ![n] = Learned(n)] /\ Learned(n)[1] = {graph[n].variable}
  BY <1>1 DEF ReducePrintOrSet, Learn, Err
<1> QED
  BY <1>2 DEF Typed, TypeOK

(* An error is never taken back.                                           *)
LEMMA ErrorsStay ==
  ASSUME NEW n \in Nodes, Reduce(n), ~errors'
  PROVE  ~errors
<1>1. CASE ReduceArithmetic(n)
  BY <1>1 DEF ReduceArithmetic, Err
<1>2. CASE ReduceDivide(n)
  BY <1>2 DEF ReduceDivide
<1>3. CASE ReduceBitwise(n)
  BY <1>3 DEF ReduceBitwise, Err
<1>4. CASE ReduceComparison(n)
  BY <1>4 DEF ReduceComparison, Err
<1>5. CASE ReduceTernary(n)
  BY <1>5 DEF ReduceTernary, Err
<1>6. CASE ReducePrintOrSet(n)
  BY <1>6 DEF ReducePrintOrSet, Err
<1>7. CASE ReduceOther(n)
  BY <1>7 DEF ReduceOther
<1> QED
  BY <1>1, <1>2, <1>3, <1>4, <1>5, <1>6, <1>7 DEF Reduce

(* A type that an input of another node agrees with is not changed.        *)
LEMMA AgreedStays ==
  ASSUME Typed, LiteralsFirst, NEW n \in Nodes, Right(n), ~reduced[n], Reduce(n), ~errors',
         NEW m \in Nodes, NEW k \in DOMAIN inputs[m],
         m # n, Source(m, k) = n, Agrees(m, k, inputs[m][k])
  PROVE  output'[n] = output[n]
<1>1. output[n] \in Single
  BY DEF Agrees
<1>2. CASE ReduceArithmetic(n)
  BY <1>2, ArithmeticVisit
<1>3. CASE ReduceBitwise(n)
  BY <1>1, <1>3, BitwiseVisit
<1>4. CASE ReduceTernary(n)
  <2>1. output'[n] = LiteralOf(n)
    BY <1>4, TernaryVisit
  <2>2. output[n] \in {VarAny, LiteralOf(n)}
    BY <1>4 DEF Right, OutputOnItsWay, ReduceTernary
  <2> QED
    BY <1>1, <2>1, <2>2, Vague
<1>5. CASE ReduceDivide(n) \/ ReduceComparison(n) \/ ReducePrintOrSet(n) \/ ReduceOther(n)
  BY <1>5 DEF ReduceDivide, ReduceComparison, ReducePrintOrSet, ReduceOther
<1> QED
  BY <1>2, <1>3, <1>4, <1>5 DEF Reduce

(* What the visited node has learned agrees with what its sources have     *)
(* after the visit, since it is not one of them.                           *)
LEMMA LearnedAgrees ==
  ASSUME Typed, Acyclic(graph), NEW n \in Nodes, Reduce(n), graph' = graph,
         NEW k \in DOMAIN inputs[n], NEW type, Agrees(n, k, type)
  PROVE  output'[Source(n, k)] = output[Source(n, k)]
<1>1. /\ graph \in Graphs /\ k \in DOMAIN graph[n].inputs /\ DOMAIN output = Nodes
  BY DEF Typed, Shaped, TypeOK
<1>2. Source(n, k) # n /\ Source(n, k) \in Nodes
  BY <1>1, NotOwnSource, Sockets DEF Agrees
<1>3. \/ output' = output
      \/ \E x \in Single : output' = [output EXCEPT ![n] = x]
  BY ReduceTypes
<1> QED
  BY <1>1, <1>2, <1>3

LEMMA VisitedRight ==
  ASSUME Typed, LiteralsFirst, Acyclic(graph), NEW n \in Nodes, \A m \in Nodes : Right(m),
         ~reduced[n], Reduce(n), ~errors', graph' = graph
  PROVE  Right(n)'
<1>1. /\ graph \in Graphs /\ DOMAIN Learned(n) = DOMAIN inputs[n] /\ n \in DOMAIN inputs
      /\ n \in DOMAIN reduced
  BY LearnedTypes DEF Typed, Shaped, TypeOK
<1>2. inputs'[n] \in {inputs[n], Learned(n)} /\ DOMAIN inputs'[n] = DOMAIN inputs[n]
  BY <1>1, ReduceTypes
<1>3. ASSUME NEW k \in DOMAIN inputs[n], NEW type, Agrees(n, k, type)
      PROVE  /\ Connected(n, k) /\ type = output'[Source(n, k)] /\ type \in Single
  BY <1>3, LearnedAgrees DEF Agrees
<1> DEFINE FreshNow(k, type)  == type = graph[n].inputs[k].type
           AgreesNow(k, type) == Connected(n, k) /\ type = output'[Source(n, k)] /\ type \in Single
<1>4. ASSUME NEW k \in DOMAIN inputs[n]
      PROVE  FreshNow(k, inputs'[n][k]) \/ AgreesNow(k, inputs'[n][k])
  <2>1. Fresh(n, k, inputs[n][k]) \/ Agrees(n, k, inputs[n][k])
    BY DEF Right
  <2>2. Fresh(n, k, Learned(n)[k]) \/ Agrees(n, k, Learned(n)[k])
    BY <2>1, LearnsRight
  <2>3. Fresh(n, k, inputs'[n][k]) \/ Agrees(n, k, inputs'[n][k])
    BY <1>2, <2>1, <2>2
  <2> QED
    BY <1>3, <2>3 DEF Fresh
<1>5. ASSUME Passing(n), inputs'[n] = Learned(n), ~Waits(n),
             NEW k \in DOMAIN inputs[n], Connected(n, k)
      PROVE  AgreesNow(k, inputs'[n][k])
  <2>1. Fresh(n, k, inputs[n][k]) \/ Agrees(n, k, inputs[n][k])
    BY DEF Right
  <2>2. Agrees(n, k, Learned(n)[k])
    BY <1>5, <2>1, LearnsRight
  <2> QED
    BY <1>3, <1>5, <2>2
<1> DEFINE OnItsWayNow ==
             /\ graph[n].kind = "arithmetic" => output'[n] \in {Number, SumType(inputs'[n])}
             /\ graph[n].kind = "bitwise" =>
                  \/ output'[n] = Bitwise
                  \/ /\ output'[n] \in Single
                     /\ \E k \in DOMAIN inputs'[n] : inputs'[n][k] = output'[n]
             /\ graph[n].kind = "ternary" => output'[n] \in {VarAny, LiteralOf(n)}
             /\ ~Passing(n) => output'[n] = graph[n].output
           SettledNow ==
             /\ graph[n].kind = "arithmetic" => output'[n] = SumType(inputs'[n])
             /\ graph[n].kind \in {"bitwise", "ternary"} =>
                  \A k \in DOMAIN inputs'[n] : inputs'[n][k] = output'[n]
             /\ graph[n].kind = "set" => inputs'[n][1] = {graph[n].variable}
           FitsNow ==
             graph[n].kind = "arithmetic" /\ output'[n] # Number =>
               \A m \in Nodes : \A k \in DOMAIN graph[m].inputs :
                 Source(m, k) = n => output'[n] \subseteq graph[m].inputs[k].type
           ConnectedNow ==
             Passing(n) => \A k \in DOMAIN inputs'[n] :
                             Connected(n, k) => AgreesNow(k, inputs'[n][k])
           TernaryNow ==
             graph[n].kind = "ternary" => \A k \in DOMAIN inputs'[n] : FreshNow(k, inputs'[n][k])
<1>6. OnItsWayNow /\ (reduced'[n] => SettledNow /\ ConnectedNow) /\ (~reduced'[n] => TernaryNow)
  <2>1. CASE ReduceArithmetic(n)
    <3>1. graph[n].kind = "arithmetic" /\ Passing(n)
      BY <2>1 DEF ReduceArithmetic, Passing
    <3>2. /\ inputs'[n] = Learned(n) /\ output'[n] = SumType(Learned(n))
          /\ reduced'[n] => ~Waits(n)
      BY <2>1, ArithmeticVisit
    <3>3. reduced'[n] => ConnectedNow
      BY <1>2, <1>5, <3>1, <3>2
    <3> QED
      BY <3>1, <3>2, <3>3
  <2>2. CASE ReduceBitwise(n)
    <3>1. graph[n].kind = "bitwise" /\ Passing(n)
      BY <2>2 DEF ReduceBitwise, Passing
    <3>2. /\ inputs'[n] = Learned(n)
          /\ \/ output'[n] = Bitwise
             \/ /\ output'[n] \in Single
                /\ \E k \in DOMAIN Learned(n) : Learned(n)[k] = output'[n]
          /\ reduced'[n] =>
               ~Waits(n) /\ \A k \in DOMAIN Learned(n) : Learned(n)[k] = output'[n]
      BY <2>2, BitwiseVisit
    <3>3. reduced'[n] => ConnectedNow
      BY <1>2, <1>5, <3>1, <3>2
    <3> QED
      BY <3>1, <3>2, <3>3
  <2>3. CASE ReduceTernary(n)
    <3>1. graph[n].kind = "ternary" /\ Passing(n)
      BY <2>3 DEF ReduceTernary, Passing
    <3>2. /\ inputs'[n] = Learned(n) /\ output'[n] = LiteralOf(n)
          /\ reduced'[n] =>
               ~Waits(n) /\ \A k \in DOMAIN Learned(n) : Learned(n)[k] = output'[n]
          /\ ~reduced'[n] => \A k \in DOMAIN Learned(n) : Fresh(n, k, Learned(n)[k])
      BY <2>3, TernaryVisit
    <3>3. reduced'[n] => ConnectedNow
      BY <1>2, <1>5, <3>1, <3>2
    <3>4. ~reduced'[n] => TernaryNow
      BY <3>2 DEF Fresh
    <3> QED
      BY <3>1, <3>2, <3>3, <3>4
  <2>4. CASE ~Passing(n)
    <3>1. output' = output
      BY <2>4, OtherVisit
    <3>2. output[n] = graph[n].output
      BY <2>4 DEF Right, OutputOnItsWay
    <3>3. graph[n].kind \notin {"arithmetic", "bitwise", "ternary"}
      BY <2>4 DEF Passing
    <3>4. graph[n].kind = "set" => inputs'[n][1] = {graph[n].variable}
      BY SetVisit
    <3> QED
      BY <2>4, <3>1, <3>2, <3>3, <3>4
  <2>5. Passing(n) => ReduceArithmetic(n) \/ ReduceBitwise(n) \/ ReduceTernary(n)
    BY DEF Passing, Reduce, ReduceDivide, ReduceComparison, ReducePrintOrSet, ReduceOther
  <2> QED
    BY <2>1, <2>2, <2>3, <2>4, <2>5
<1>7. /\ OutputOnItsWay(n)' <=> OnItsWayNow
      /\ OutputSettled(n)' <=> SettledNow
      /\ FitsConsumers(n)' <=> FitsNow
  BY DEF OutputOnItsWay, OutputSettled, FitsConsumers, Passing, LiteralOf, Connected, Source, Nodes
<1>8. FitsNow
  <2>1. graph[n].kind = "arithmetic" => ReduceArithmetic(n)
    BY DEF Reduce, ReduceDivide, ReduceBitwise, ReduceComparison, ReduceTernary,
           ReducePrintOrSet, ReduceOther
  <2> QED
    BY <2>1, ArithmeticFits
<1>9. \A k \in DOMAIN inputs'[n] : /\ Fresh(n, k, inputs[n][k])' <=> FreshNow(k, inputs'[n][k])
                                   /\ Agrees(n, k, inputs[n][k])' <=> AgreesNow(k, inputs'[n][k])
                                   /\ Connected(n, k)' <=> Connected(n, k)
  BY DEF Fresh, Agrees, Connected, Source
<1>10. Passing(n)' <=> Passing(n)
  BY DEF Passing
<1> HIDE DEF FreshNow, AgreesNow, OnItsWayNow, SettledNow, FitsNow
<1> QED
  BY <1>2, <1>4, <1>6, <1>7, <1>8, <1>9, <1>10 DEF Right

LEMMA OthersRight ==
  ASSUME Typed, LiteralsFirst, NEW n \in Nodes, Right(n), ~reduced[n],
         Reduce(n), ~errors', graph' = graph, NEW m \in Nodes, m # n, Right(m)
  PROVE  Right(m)'
<1>1. /\ DOMAIN inputs = Nodes /\ DOMAIN output = Nodes /\ DOMAIN reduced = Nodes
  BY DEF Typed, TypeOK
<1>2. inputs'[m] = inputs[m] /\ output'[m] = output[m] /\ reduced'[m] = reduced[m]
  BY <1>1, ReduceTypes
<1>3. ASSUME NEW k \in DOMAIN inputs[m], Agrees(m, k, inputs[m][k])
      PROVE  output'[Source(m, k)] = output[Source(m, k)]
  <2>1. CASE Source(m, k) = n
    BY <1>3, <2>1, AgreedStays
  <2>2. CASE Source(m, k) # n
    <3>1. Source(m, k) \in Nodes
      BY <1>3, Sockets DEF Typed, Shaped, Agrees
    <3>2. \/ output' = output
          \/ \E type \in Single : output' = [output EXCEPT ![n] = type]
      BY ReduceTypes
    <3> QED
      BY <1>1, <2>2, <3>1, <3>2
  <2> QED
    BY <2>1, <2>2
<1>4. ASSUME NEW k \in DOMAIN inputs[m]
      PROVE  /\ Connected(m, k)' <=> Connected(m, k)
             /\ Fresh(m, k, inputs[m][k])' <=> Fresh(m, k, inputs[m][k])
             /\ Agrees(m, k, inputs[m][k]) => Agrees(m, k, inputs[m][k])'
  BY <1>2, <1>3 DEF Fresh, Agrees, Connected, Source
<1>5. /\ OutputOnItsWay(m)' <=> OutputOnItsWay(m)
      /\ OutputSettled(m)' <=> OutputSettled(m)
      /\ FitsConsumers(m)' <=> FitsConsumers(m)
      /\ Passing(m)' <=> Passing(m)
  BY <1>2 DEF OutputOnItsWay, OutputSettled, FitsConsumers, Passing, LiteralOf, Connected,
              Source, Nodes
<1> QED
  BY <1>2, <1>4, <1>5 DEF Right

LEMMA RightInit ==
  ASSUME Init
  PROVE  RightSoFar
<1>1. Typed /\ graph \in Graphs
  BY TypedInit DEF Init
<1> SUFFICES ASSUME NEW n \in Nodes
             PROVE  Right(n)
  BY DEF RightSoFar
<1>2. /\ inputs[n] = [k \in DOMAIN graph[n].inputs |-> graph[n].inputs[k].type]
      /\ output[n] = graph[n].output /\ reduced[n] = FALSE
  BY DEF Init
<1>3. \A k \in DOMAIN inputs[n] : Fresh(n, k, inputs[n][k])
  BY <1>2 DEF Fresh
<1>4. OutputOnItsWay(n) /\ FitsConsumers(n)
  BY <1>1, <1>2, PassingSockets DEF OutputOnItsWay, FitsConsumers, Passing
<1> QED
  BY <1>2, <1>3, <1>4 DEF Right

LEMMA RightStep ==
  ASSUME Typed, RightSoFar, [Next]_vars
  PROVE  RightSoFar'
<1>1. CASE ReduceNode
  <2>1. /\ node \in Nodes /\ ~reduced[node] /\ Reduce(node) /\ graph' = graph /\ Nodes' = Nodes
        /\ LiteralsFirst' <=> LiteralsFirst
    BY <1>1 DEF ReduceNode, Nodes, LiteralsFirst, Connected
  <2> SUFFICES ASSUME ~errors', LiteralsFirst, Acyclic(graph), NEW n \in Nodes
               PROVE  Right(n)'
    BY <2>1 DEF RightSoFar
  <2>2. \A m \in Nodes : Right(m)
    BY <2>1, ErrorsStay DEF RightSoFar
  <2>3. CASE n = node
    BY <2>1, <2>2, <2>3, VisitedRight
  <2>4. CASE n # node
    BY <2>1, <2>2, <2>4, OthersRight
  <2> QED
    BY <2>3, <2>4
<1>2. CASE UNCHANGED <<graph, inputs, output, reduced, errors>>
  BY <1>2 DEF RightSoFar, LiteralsFirst, Nodes, Right, Fresh, Agrees, OutputOnItsWay,
              FitsConsumers, OutputSettled, Passing, LiteralOf, Connected, Source
<1>3. SkipNode \/ EndPass \/ UNCHANGED vars => UNCHANGED <<graph, inputs, output, reduced, errors>>
  BY DEF SkipNode, EndPass, vars
<1> QED
  BY <1>1, <1>2, <1>3 DEF Next

-----------------------------------------------------------------------------
(***************************************************************************)
(* The equations of TypeOf have one solution, and the outputs of reduced   *)
(* nodes are it.                                                           *)
(***************************************************************************)
TypeBy(f, n) ==
  LET of(k) == IF Connected(n, k) THEN f[Source(n, k)] ELSE graph[n].inputs[k].type
  IN  CASE graph[n].kind = "arithmetic" ->
             IF \E k \in DOMAIN graph[n].inputs : of(k) = {"Float"} THEN {"Float"} ELSE {"Integer"}
        [] graph[n].kind \in {"bitwise", "ternary"} -> of(1)
        [] OTHER -> graph[n].output

Solves(f) == f = [n \in Nodes |-> TypeBy(f, n)]

LEMMA TypeOfSolves ==
  ASSUME NEW f, Solves(f)
  PROVE  Solves(TypeOf)
<1>1. Solves(CHOOSE g : Solves(g))
  OBVIOUS
<1>2. TypeOf = CHOOSE g : Solves(g)
  BY DEF TypeOf, Solves, TypeBy
<1> QED
  BY <1>1, <1>2

(* The type of an output is a matter of those that come before it.         *)
LEMMA SameSources ==
  ASSUME graph \in Graphs, NEW n \in Nodes, NEW f, NEW g,
         \A k \in DOMAIN graph[n].inputs :
           Connected(n, k) => f[Source(n, k)] = g[Source(n, k)]
  PROVE  TypeBy(f, n) = TypeBy(g, n)
<1>1. CASE graph[n].kind = "arithmetic"
  BY <1>1 DEF TypeBy
<1>2. CASE graph[n].kind \in {"bitwise", "ternary"}
  <2>1. 1 \in DOMAIN graph[n].inputs
    BY <1>2, PassingSockets DEF Passing
  <2> QED
    BY <1>2, <2>1 DEF TypeBy
<1>3. CASE ~Passing(n)
  BY <1>3 DEF TypeBy, Passing
<1> QED
  BY <1>1, <1>2, <1>3 DEF Passing

LEMMA OneSolution ==
  ASSUME graph \in Graphs, Acyclic(graph), NEW f, Solves(f), NEW g, Solves(g),
         NEW n \in Nodes
  PROVE  f[n] = g[n]
<1> DEFINE differ == {m \in Nodes : f[m] # g[m]}
<1>1. PICK rank \in [DOMAIN graph -> DOMAIN graph] :
        \A i \in DOMAIN graph : \A j \in DOMAIN graph[i].inputs :
          graph[i].inputs[j].from # 0 => rank[graph[i].inputs[j].from] < rank[i]
  BY DEF Acyclic
<1>2. \A m \in Nodes : rank[m] \in Nat
  BY <1>1, GraphShape DEF Nodes
<1> SUFFICES ASSUME differ # {}
             PROVE  FALSE
  OBVIOUS
<1>3. PICK m \in differ : \A i \in differ : rank[m] <= rank[i]
  <2>1. {rank[i] : i \in differ} \in SUBSET Nat /\ {rank[i] : i \in differ} # {}
    BY <1>2
  <2>2. PICK r \in {rank[i] : i \in differ} : \A x \in {rank[i] : i \in differ} : r <= x
    BY <2>1, Least
  <2> QED
    BY <2>2
<1>4. ASSUME NEW k \in DOMAIN graph[m].inputs, Connected(m, k)
      PROVE  f[Source(m, k)] = g[Source(m, k)]
  <2>1. rank[Source(m, k)] < rank[m]
    BY <1>1, <1>4 DEF Nodes, Connected, Source
  <2>2. Source(m, k) \in Nodes
    BY <1>4, Sockets
  <2>3. Source(m, k) \notin differ
    BY <1>2, <1>3, <2>1, <2>2
  <2> QED
    BY <2>2, <2>3
<1>5. TypeBy(f, m) = TypeBy(g, m)
  BY <1>4, SameSources
<1>6. f[m] = TypeBy(f, m) /\ g[m] = TypeBy(g, m)
  BY DEF Solves
<1> QED
  BY <1>3, <1>5, <1>6

LEMMA SettledSolves ==
  ASSUME Typed, \A n \in Nodes : reduced[n] /\ Right(n)
  PROVE  Solves(output)
<1>1. ASSUME NEW n \in Nodes
      PROVE  output[n] = TypeBy(output, n)
  <2>1. graph \in Graphs /\ DOMAIN inputs[n] = DOMAIN graph[n].inputs
    BY DEF Typed, Shaped
  <2>2. ASSUME Passing(n), NEW k \in DOMAIN inputs[n]
        PROVE  inputs[n][k] = IF Connected(n, k) THEN output[Source(n, k)]
                              ELSE graph[n].inputs[k].type
    BY <2>2 DEF Right, Fresh, Agrees
  <2>3. OutputSettled(n) /\ (~Passing(n) => output[n] = graph[n].output)
    BY DEF Right, OutputOnItsWay
  <2>4. CASE graph[n].kind = "arithmetic"
    <3>1. {"Float"} \in Range(inputs[n]) <=> \E k \in DOMAIN inputs[n] : inputs[n][k] = {"Float"}
      BY DEF Range
    <3>2. output[n] = IF \E k \in DOMAIN inputs[n] : inputs[n][k] = {"Float"}
                      THEN {"Float"} ELSE {"Integer"}
      BY <2>3, <2>4, <3>1 DEF OutputSettled, SumType
    <3> QED
      BY <2>1, <2>2, <2>4, <3>2 DEF TypeBy, Passing
  <2>5. CASE graph[n].kind \in {"bitwise", "ternary"}
    <3>1. 1 \in DOMAIN inputs[n] /\ Passing(n) /\ output[n] = inputs[n][1]
      BY <2>1, <2>3, <2>5, PassingSockets DEF Passing, OutputSettled
    <3> QED
      BY <2>2, <2>5, <3>1 DEF TypeBy
  <2>6. CASE ~Passing(n)
    BY <2>3, <2>6 DEF TypeBy, Passing
  <2> QED
    BY <2>4, <2>5, <2>6 DEF Passing
<1>2. output \in [Nodes -> SUBSET Types]
  BY DEF Typed, TypeOK
<1> QED
  BY <1>1, <1>2 DEF Solves

LEMMA AlwaysRight == Spec => []RightSoFar
<1>1. Init => RightSoFar
  BY RightInit
<1>2. Typed /\ RightSoFar /\ [Next]_vars => RightSoFar'
  BY RightStep
<1> QED
  BY <1>1, <1>2, AlwaysTyped, PTL DEF Spec

(* What the inputs of a reduced node have is what their sources have.      *)
LEMMA SettledInputs ==
  ASSUME Typed, Acyclic(graph), \A n \in Nodes : reduced[n] /\ Right(n), output = TypeOf,
         NEW n \in Nodes
  PROVE  /\ InputsAgree(n)
         /\ \A k \in DOMAIN graph[n].inputs :
              Connected(n, k) /\ graph[Source(n, k)].kind \notin {"bitwise", "ternary"} =>
                Fits(n, k)
<1>1. /\ graph \in Graphs /\ DOMAIN inputs[n] = DOMAIN graph[n].inputs
      /\ Right(n) /\ reduced[n]
  BY DEF Typed, Shaped
<1>2. ASSUME NEW k \in DOMAIN graph[n].inputs, Passing(n) \/ Agrees(n, k, inputs[n][k])
      PROVE  inputs[n][k] = TypeOfInput(n, k)
  BY <1>1, <1>2 DEF Right, Fresh, Agrees, TypeOfInput
<1>3. ASSUME graph[n].kind \in {"bitwise", "ternary"},
             NEW j \in DOMAIN graph[n].inputs, NEW k \in DOMAIN graph[n].inputs
      PROVE  TypeOfInput(n, j) = TypeOfInput(n, k)
  <2>1. inputs[n][j] = output[n] /\ inputs[n][k] = output[n]
    BY <1>1, <1>3 DEF Right, OutputSettled
  <2> QED
    BY <1>2, <1>3, <2>1 DEF Passing
<1>4. ASSUME graph[n].kind = "set"
      PROVE  InputsOf(n) = {{graph[n].variable}}
  <2>1. InputTypes(graph[n].kind) = {VarAny} /\ NumInputs(graph[n].kind) = {1}
    BY <1>4 DEF InputTypes, NumInputs
  <2>2. 1..1 = {1}
    OBVIOUS
  <2>3. DOMAIN graph[n].inputs = {1}
    BY <1>1, <2>1, <2>2, Sockets
  <2>4. inputs[n][1] = {graph[n].variable} /\ {graph[n].variable} \in Single
    BY <1>1, <1>4, GraphShape DEF Right, OutputSettled, Single
  <2>5. TypeOfInput(n, 1) = inputs[n][1]
    <3>1. CASE Connected(n, 1)
      <4>1. graph[n].inputs[1].type = VarAny
        BY <1>1, <2>1, <2>3, <3>1, Sockets
      <4>2. Agrees(n, 1, inputs[n][1])
        BY <1>1, <2>3, <2>4, <4>1, Vague DEF Right, Fresh
      <4> QED
        BY <1>2, <2>3, <4>2
    <3>2. CASE ~Connected(n, 1)
      BY <1>1, <2>3, <3>2 DEF Right, Fresh, Agrees, TypeOfInput
    <3> QED
      BY <3>1, <3>2
  <2> QED
    BY <2>3, <2>4, <2>5 DEF InputsOf
<1>5. ASSUME NEW k \in DOMAIN graph[n].inputs, Connected(n, k),
             graph[Source(n, k)].kind \notin {"bitwise", "ternary"}
      PROVE  Fits(n, k)
  <2>1. PICK m \in Nodes : m = Source(n, k)
    BY <1>1, <1>5, Sockets
  <2>2. TypeOfInput(n, k) = output[m] /\ Right(m) /\ reduced[m]
    BY <1>5, <2>1 DEF TypeOfInput
  <2>3. CASE graph[m].kind = "arithmetic"
    <3>1. output[m] = SumType(inputs[m])
      BY <2>2, <2>3 DEF Right, OutputSettled
    <3>2. output[m] # Number
      BY <3>1, Vague DEF SumType
    <3> QED
      BY <1>1, <2>1, <2>2, <2>3, <3>2 DEF Right, FitsConsumers, Fits
  <2>4. CASE ~Passing(m)
    <3>1. output[m] = graph[m].output /\ OutputTypes(graph[m].kind) = Single \union {{}}
      BY <2>2, <2>4 DEF Right, OutputOnItsWay, OutputTypes, Passing
    <3>2. /\ graph[m].output \in Single \union {{}}
          /\ graph[n].inputs[k].type \intersect graph[m].output # {}
      BY <1>1, <1>5, <2>1, <3>1, Sockets
    <3> QED
      BY <2>2, <3>1, <3>2 DEF Fits, Single
  <2> QED
    BY <1>5, <2>1, <2>3, <2>4 DEF Passing
<1> QED
  BY <1>3, <1>4, <1>5 DEF InputsAgree

(***************************************************************************)
(* However many passes it takes, in whichever order the lines of a graph   *)
(* are: when reduction ends without an error, the output of every node has *)
(* the type that its inputs make of it, also where a Float has turned up   *)
(* late, the inputs of bitwise operators and of Ternarys have one type,    *)
(* variables are set to what they can hold, and what arithmetic makes fits *)
(* the inputs it is connected to (dsemantic.c:1701-1734, 1744-1899).  The  *)
(* graph has no cycles, and a Ternary has a literal first.                 *)
(***************************************************************************)
THEOREM TypesAreRight == Spec => []RightOrReported
<1>1. ASSUME Typed, RightSoFar
      PROVE  RightOrReported
  <2> SUFFICES ASSUME done, ~errors, LiteralsFirst, Acyclic(graph), NEW n \in Nodes
               PROVE  /\ output[n] = TypeOf[n] /\ InputsAgree(n)
                      /\ \A k \in DOMAIN graph[n].inputs :
                           Connected(n, k) /\ graph[Source(n, k)].kind \notin {"bitwise", "ternary"}
                             => Fits(n, k)
    BY DEF RightOrReported
  <2>1. graph \in Graphs /\ \A m \in Nodes : reduced[m] /\ Right(m)
    BY <1>1 DEF Typed, TypeOK, Shaped, RightSoFar
  <2>2. Solves(output)
    BY <1>1, <2>1, SettledSolves
  <2>3. Solves(TypeOf)
    BY <2>2, TypeOfSolves
  <2>4. \A m \in Nodes : output[m] = TypeOf[m]
    BY <2>1, <2>2, <2>3, OneSolution
  <2>5. output = TypeOf
    BY <2>2, <2>3, <2>4 DEF Solves
  <2> QED
    BY <1>1, <2>1, <2>4, <2>5, SettledInputs
<1> QED
  BY <1>1, AlwaysTyped, AlwaysRight, PTL

-----------------------------------------------------------------------------
(***************************************************************************)
(* Programs whose types agree, in order.                                   *)
(***************************************************************************)
(* The types that f gives to the inputs of a node, and whether they agree. *)
InputBy(f, n, k) ==
  IF Connected(n, k) THEN f[Source(n, k)] ELSE graph[n].inputs[k].type

AgreesBy(f, n) ==
  /\ \A k \in DOMAIN graph[n].inputs : InputBy(f, n, k) \subseteq graph[n].inputs[k].type
  /\ graph[n].kind \in {"bitwise", "ternary"} =>
       \A j, k \in DOMAIN graph[n].inputs : InputBy(f, n, j) = InputBy(f, n, k)
  /\ graph[n].kind = "comparison" =>
       \A k \in DOMAIN graph[n].inputs : InputBy(f, n, k) \subseteq Number
  /\ graph[n].kind = "set" =>
       \A k \in DOMAIN graph[n].inputs : InputBy(f, n, k) = {graph[n].variable}

Accepts(f) ==
  Solves(f) /\ InOrder /\ LiteralInTernaries /\ \A n \in Nodes : AgreesBy(f, n)

(* In order, each node settles for its type when it is first seen.         *)
SettledBy(f, n) ==
  /\ output[n] = f[n]
  /\ Passing(n) => output[n] \in Single
  /\ graph[n].kind \notin {"comparison", "div"} =>
       \A k \in DOMAIN inputs[n] : inputs[n][k] = InputBy(f, n, k)

Untouched(n) ==
  output[n] = graph[n].output /\ \A k \in DOMAIN inputs[n] : Fresh(n, k, inputs[n][k])

AcceptedSoFar ==
  \A f : Accepts(f) =>
    /\ ~errors
    /\ \A n \in Nodes :
         /\ n < node => reduced[n]
         /\ reduced[n] => \A m \in Nodes : m < n => reduced[m]
         /\ IF reduced[n] THEN SettledBy(f, n) ELSE Untouched(n)

(* In order, the types of one output after the other solve the equations.  *)
LEMMA SolutionExists ==
  ASSUME graph \in Graphs, InOrder
  PROVE  \E f : Solves(f)
<1>1. PICK len \in Nat : Nodes = 1..len
  BY GraphShape
<1> DEFINE T == {m \in 0..len : \E f : f = [n \in 1..m |-> TypeBy(f, n)]}
<1>2. 0 \in T
  <2>1. 1..0 = {}
    OBVIOUS
  <2> DEFINE e == [n \in 1..0 |-> {}]
  <2>2. e = [n \in 1..0 |-> TypeBy(e, n)]
    BY <2>1
  <2>3. 0 \in 0..len
    OBVIOUS
  <2> HIDE DEF e
  <2> QED
    BY <2>2, <2>3
<1>3. ASSUME NEW m \in 0..(len - 1), m \in T
      PROVE  m + 1 \in T
  <2>1. PICK f : f = [n \in 1..m |-> TypeBy(f, n)]
    BY <1>3
  <2> DEFINE g == [n \in 1..(m + 1) |-> TypeBy(f, n)]
  <2>2. \A n \in 1..m : n \in 1..(m + 1) /\ g[n] = f[n]
    BY <1>3, <2>1
  <2>3. ASSUME NEW n \in 1..(m + 1)
        PROVE  TypeBy(f, n) = TypeBy(g, n)
    <3>1. n \in Nodes
      BY <1>1, <1>3
    <3>2. ASSUME NEW k \in DOMAIN graph[n].inputs, Connected(n, k)
          PROVE  f[Source(n, k)] = g[Source(n, k)]
      <4>1. Source(n, k) < n /\ Source(n, k) \in 1..len
        BY <1>1, <3>1, <3>2, Sockets DEF InOrder
      <4>2. Source(n, k) \in 1..m
        BY <1>3, <4>1
      <4> QED
        BY <2>2, <4>2
    <3> QED
      BY <3>1, <3>2, SameSources
  <2>4. g = [n \in 1..(m + 1) |-> TypeBy(g, n)]
    BY <2>3
  <2>5. m + 1 \in 0..len
    BY <1>3
  <2> HIDE DEF g
  <2> QED
    BY <2>4, <2>5
<1> HIDE DEF T
<1>4. len \in 0..len /\ 0..len \subseteq T
  BY <1>2, <1>3, CountUp
<1> QED
  BY <1>1, <1>4 DEF T, Solves

(* What a node that is seen for the first time learns from nodes that have *)
(* settled.                                                                *)
LEMMA SettledSource ==
  ASSUME Typed, NEW f, Solves(f), NEW n \in Nodes, NEW k \in DOMAIN graph[n].inputs,
         Connected(n, k), SettledBy(f, Source(n, k))
  PROVE  output[Source(n, k)] = f[Source(n, k)] /\ f[Source(n, k)] \in Single
<1>1. PICK m \in Nodes : m = Source(n, k)
  BY Sockets DEF Typed, Shaped
<1>2. graph \in Graphs /\ output[m] = f[m] /\ (Passing(m) => output[m] \in Single)
  BY <1>1 DEF SettledBy, Typed, Shaped
<1>3. ASSUME ~Passing(m)
      PROVE  f[m] \in Single
  <2>1. f[m] = TypeBy(f, m)
    BY DEF Solves
  <2>2. TypeBy(f, m) = graph[m].output
    BY <1>3 DEF TypeBy, Passing
  <2>3. OutputTypes(graph[m].kind) = Single \union {{}}
    BY <1>3 DEF OutputTypes, Passing
  <2>4. graph[m].output \in Single \union {{}} /\ graph[m].output # {}
    BY <1>1, <1>2, <2>3, Sockets
  <2> QED
    BY <2>1, <2>2, <2>4
<1> QED
  BY <1>1, <1>2, <1>3

LEMMA OrderedLearns ==
  ASSUME Typed, NEW f, Accepts(f), NEW n \in Nodes, Untouched(n),
         \A m \in Nodes : m < n => SettledBy(f, m),
         NEW k \in DOMAIN inputs[n]
  PROVE  /\ InputBy(f, n, k) \in Single
         /\ inputs[n][k] = graph[n].inputs[k].type
         /\ graph[n].kind \notin {"comparison", "div"} => Learned(n)[k] = InputBy(f, n, k)
         /\ graph[n].kind = "comparison" =>
              /\ Learned(n)[k] = inputs[n][k] /\ ~FollowsWire(n, k)
              /\ inputs[n][k] \notin {{"String"}, {"Boolean"}}
         /\ FollowsWire(n, k) => IsReduced(output[Source(n, k)])
<1>1. graph \in Graphs /\ k \in DOMAIN graph[n].inputs
  BY DEF Typed, Shaped
<1>2. inputs[n][k] = graph[n].inputs[k].type
  BY DEF Untouched, Fresh
<1>3. Learned(n)[k] = IF FollowsWire(n, k) /\ IsReduced(output[Source(n, k)])
                      THEN output[Source(n, k)] ELSE inputs[n][k]
  BY DEF Learned
<1>4. FollowsWire(n, k) => Connected(n, k)
  BY Followed
<1>5. CASE ~Connected(n, k)
  <2>1. inputs[n][k] \in Single /\ InputBy(f, n, k) = inputs[n][k]
    BY <1>1, <1>2, <1>5, Sockets DEF InputBy
  <2>2. ASSUME graph[n].kind = "comparison"
        PROVE  inputs[n][k] \notin {{"String"}, {"Boolean"}}
    <3>1. inputs[n][k] \subseteq Number
      BY <1>1, <2>1, <2>2 DEF Accepts, AgreesBy
    <3> QED
      BY <3>1 DEF Number
  <2> QED
    BY <1>2, <1>3, <1>4, <1>5, <2>1, <2>2
<1>6. CASE Connected(n, k)
  <2>1. Source(n, k) \in Nodes /\ Source(n, k) < n
    BY <1>1, <1>6, Sockets DEF Accepts, InOrder
  <2>2. output[Source(n, k)] = InputBy(f, n, k) /\ InputBy(f, n, k) \in Single
    BY <1>1, <1>6, <2>1, SettledSource DEF InputBy, Accepts
  <2>3. IsReduced(output[Source(n, k)])
    BY <2>2, Singles, Vague
  <2>4. InputBy(f, n, k) \subseteq inputs[n][k] /\ inputs[n][k] \in InputTypes(graph[n].kind)
    BY <1>1, <1>2, <1>6, Sockets DEF Accepts, AgreesBy
  <2>5. CASE graph[n].kind = "comparison"
    <3>1. inputs[n][k] \in {Comparable, VarAny}
      BY <2>4, <2>5 DEF InputTypes
    <3>2. /\ inputs[n][k] \intersect Number # {} /\ inputs[n][k] \notin {{"String"}, {"Boolean"}}
      BY <3>1 DEF Comparable, VarAny, Number, Types
    <3>3. ~FollowsWire(n, k)
      BY <2>5, <3>2 DEF FollowsWire
    <3> QED
      BY <1>2, <1>3, <2>2, <2>5, <3>2, <3>3
  <2>6. CASE graph[n].kind = "div"
    <3>1. ~FollowsWire(n, k)
      BY <2>6 DEF FollowsWire
    <3> QED
      BY <1>2, <2>2, <2>6, <3>1
  <2>7. CASE graph[n].kind = "other"
    <3>1. inputs[n][k] \in Single
      BY <2>4, <2>7 DEF InputTypes
    <3>2. InputBy(f, n, k) = inputs[n][k]
      BY <2>2, <2>4, <3>1 DEF Single
    <3> QED
      BY <1>2, <1>3, <2>2, <2>3, <2>7, <3>2
  <2>8. CASE graph[n].kind \notin {"comparison", "div", "other"}
    <3>1. FollowsWire(n, k)
      <4>1. CASE graph[n].kind \in {"arithmetic", "divide"}
        <5>1. inputs[n][k] = Number /\ Number # {"Float"}
          BY <2>4, <4>1 DEF InputTypes, Number
        <5> QED
          BY <1>6, <4>1, <5>1 DEF FollowsWire
      <4>2. CASE graph[n].kind = "bitwise"
        <5>1. inputs[n][k] = Bitwise /\ Bitwise \notin {{"Integer"}, {"Boolean"}}
          BY <2>4, <4>2 DEF InputTypes, Bitwise
        <5> QED
          BY <1>6, <4>2, <5>1 DEF FollowsWire
      <4>3. CASE graph[n].kind = "ternary"
        <5>1. inputs[n][k] = VarAny
          BY <2>4, <4>3 DEF InputTypes
        <5> QED
          BY <1>6, <4>3, <5>1, Vague, Followed
      <4>4. CASE graph[n].kind \in {"print", "set"}
        <5>1. inputs[n][k] = VarAny
          BY <2>4, <4>4 DEF InputTypes
        <5> QED
          BY <1>6, <4>4, <5>1 DEF FollowsWire
      <4>5. graph[n].kind \in Kinds
        BY <1>1, GraphShape
      <4> QED
        BY <2>8, <4>1, <4>2, <4>3, <4>4, <4>5 DEF Kinds
    <3> QED
      BY <1>2, <1>3, <2>2, <2>3, <2>8, <3>1
  <2> QED
    BY <2>5, <2>6, <2>7, <2>8
<1> QED
  BY <1>5, <1>6

(* So the node has all it needs, makes the type of its output of it, and   *)
(* no error.                                                               *)
LEMMA OrderedVisit ==
  ASSUME Typed, NEW f, Accepts(f), NEW n \in Nodes, Untouched(n), ~errors, Reduce(n),
         \A m \in Nodes : m < n => SettledBy(f, m), \A m \in Nodes : m > n => Untouched(m)
  PROVE  /\ reduced'[n] /\ ~errors'
         /\ output'[n] = f[n] /\ (Passing(n) => output'[n] \in Single)
         /\ graph[n].kind \notin {"comparison", "div"} =>
              \A k \in DOMAIN inputs[n] : inputs'[n][k] = InputBy(f, n, k)
<1> DEFINE types == Learned(n)
<1>1. /\ types \in Seq(SUBSET Types) /\ DOMAIN types = DOMAIN inputs[n]
      /\ graph \in Graphs /\ DOMAIN inputs[n] = DOMAIN graph[n].inputs
      /\ DOMAIN inputs = Nodes /\ DOMAIN output = Nodes /\ DOMAIN reduced = Nodes
      /\ inputs[n] \in Seq(SUBSET Types)
  BY LearnedTypes DEF Typed, Shaped, TypeOK
<1>2. \A k \in DOMAIN inputs[n] :
        /\ InputBy(f, n, k) \in Single /\ inputs[n][k] = graph[n].inputs[k].type
        /\ graph[n].kind \notin {"comparison", "div"} => types[k] = InputBy(f, n, k)
        /\ graph[n].kind = "comparison" =>
             types[k] = inputs[n][k] /\ inputs[n][k] \notin {{"String"}, {"Boolean"}}
  BY OrderedLearns
<1>3. ~Waits(n)
  BY OrderedLearns DEF Waits
<1>4. f[n] = TypeBy(f, n) /\ AgreesBy(f, n)
  BY DEF Accepts, Solves
<1>5. ~Passing(n) => output[n] = f[n]
  BY <1>4 DEF TypeBy, Passing, Untouched
<1>6. CASE ReduceArithmetic(n)
  <2> DEFINE type == SumType(types)
  <2>1. /\ inputs' = [inputs EXCEPT ![n] = types] /\ output' = [output EXCEPT ![n] = type]
        /\ errors' = (errors \/ Incompatible(n, type))
        /\ reduced' = [reduced EXCEPT ![n] = ~Waits(n)] /\ graph[n].kind = "arithmetic"
    BY <1>6 DEF ReduceArithmetic, Learn, Err, Settle, SumType
  <2>2. \A k \in DOMAIN inputs[n] : types[k] = InputBy(f, n, k)
    BY <1>2, <2>1
  <2>3. type = f[n] /\ type \in Single
    <3>1. {"Float"} \in Range(types) <=> \E k \in DOMAIN inputs[n] : InputBy(f, n, k) = {"Float"}
      BY <1>1, <2>2 DEF Range
    <3>2. TypeBy(f, n) = IF \E k \in DOMAIN inputs[n] : InputBy(f, n, k) = {"Float"}
                         THEN {"Float"} ELSE {"Integer"}
      BY <1>1, <2>1 DEF TypeBy, InputBy
    <3> QED
      BY <1>4, <3>1, <3>2, Vague DEF SumType
  <2> HIDE DEF type
  <2>4. ASSUME NEW m \in Nodes, NEW k \in DOMAIN inputs[m], Source(m, k) = n
        PROVE  inputs'[m][k] \intersect type # {}
    <3>1. k \in DOMAIN graph[m].inputs /\ n \in Nat /\ n # 0 /\ m \in Nat
      <4>1. k \in DOMAIN graph[m].inputs
        BY DEF Typed, Shaped
      <4>2. PICK len \in Nat : Nodes = 1..len
        BY <1>1, GraphShape
      <4> QED
        BY <4>1, <4>2
    <3>2. Connected(m, k) /\ n < m
      BY <2>4, <3>1 DEF Accepts, InOrder, Connected, Source
    <3>3. inputs'[m] = inputs[m] /\ Untouched(m)
      BY <1>1, <2>1, <3>1, <3>2
    <3>4. inputs'[m][k] = graph[m].inputs[k].type
      BY <2>4, <3>3 DEF Untouched, Fresh
    <3>5. type = InputBy(f, m, k)
      BY <2>3, <2>4, <3>2 DEF InputBy
    <3>6. type \subseteq graph[m].inputs[k].type
      BY <3>1, <3>5 DEF Accepts, AgreesBy
    <3> QED
      BY <2>3, <3>4, <3>6 DEF Single
  <2>5. ~Incompatible(n, type)
    BY <2>4 DEF Incompatible
  <2>6. /\ reduced'[n] /\ ~errors' /\ output'[n] = f[n] /\ output'[n] \in Single
        /\ inputs'[n] = types
    BY <1>1, <1>3, <2>1, <2>3, <2>5
  <2> QED
    BY <2>2, <2>6
<1>7. CASE ReduceBitwise(n)
  <2> DEFINE mixed == \E j, k \in Known(types) : types[j] # types[k]
  <2>1. /\ inputs' = [inputs EXCEPT ![n] = types]
        /\ output' = IF Known(types) = {} THEN output
                     ELSE [output EXCEPT ![n] = LastKnown(types)]
        /\ errors' = (errors \/ mixed)
        /\ reduced' = [reduced EXCEPT ![n] = ~Waits(n) \/ mixed] /\ graph[n].kind = "bitwise"
    BY <1>7 DEF ReduceBitwise, Learn, Err, Settle
  <2>2. \A k \in DOMAIN inputs[n] : types[k] = InputBy(f, n, k) /\ types[k] \in Single
    BY <1>2, <2>1
  <2>3. Known(types) = DOMAIN inputs[n]
    <3>1. \A k \in DOMAIN inputs[n] : IsReduced(types[k])
      BY <2>2, Singles, Vague
    <3> QED
      BY <1>1, <3>1 DEF Known
  <2>4. \A j, k \in DOMAIN inputs[n] : types[j] = types[k]
    BY <1>1, <1>4, <2>1, <2>2 DEF AgreesBy
  <2>5. ~mixed
    BY <2>3, <2>4
  <2>6. 1 \in DOMAIN inputs[n] /\ TypeBy(f, n) = InputBy(f, n, 1)
    BY <1>1, <2>1, PassingSockets DEF Passing, TypeBy, InputBy
  <2>7. LastKnown(types) = types[1]
    <3>1. Max(Known(types)) \in DOMAIN inputs[n]
      BY <1>1, <2>3, <2>6, LastIsKnown
    <3> QED
      BY <2>4, <2>6, <3>1 DEF LastKnown
  <2> HIDE DEF mixed
  <2>8. /\ reduced'[n] /\ ~errors' /\ output'[n] = types[1] /\ inputs'[n] = types
    BY <1>1, <1>3, <2>1, <2>3, <2>5, <2>6, <2>7
  <2> QED
    BY <1>4, <2>2, <2>6, <2>8
<1>8. CASE ReduceTernary(n)
  <2> DEFINE mixed == IsReduced(inputs[n][1]) /\ IsReduced(types[2]) /\ inputs[n][1] # types[2]
  <2>1. /\ inputs' = [inputs EXCEPT ![n] = types]
        /\ output' = IF Known(inputs[n]) = {} THEN output
                     ELSE [output EXCEPT ![n] = LastKnown(inputs[n])]
        /\ errors' = (errors \/ mixed)
        /\ reduced' = [reduced EXCEPT ![n] = ~Waits(n) \/ mixed] /\ graph[n].kind = "ternary"
    BY <1>8 DEF ReduceTernary, Learn, Err, Settle
  <2>2. \A k \in DOMAIN inputs[n] : types[k] = InputBy(f, n, k) /\ types[k] \in Single
    BY <1>2, <2>1
  <2>3. DOMAIN inputs[n] = {1, 2} /\ TypeBy(f, n) = InputBy(f, n, 1)
    BY <1>1, <2>1, PassingSockets DEF Passing, TypeBy, InputBy
  <2>4. types[1] = types[2]
    BY <1>1, <1>4, <2>1, <2>2, <2>3 DEF AgreesBy
  <2>5. \A k \in {1, 2} : k \in Known(inputs[n]) => ~Connected(n, k) /\ inputs[n][k] = types[k]
    <3>1. ASSUME NEW k \in {1, 2}, k \in Known(inputs[n])
          PROVE  ~Connected(n, k) /\ inputs[n][k] = types[k]
      <4>1. inputs[n][k] \in SUBSET Types /\ IsReduced(inputs[n][k])
        BY <1>1, <2>3, <3>1 DEF Known
      <4>2. inputs[n][k] \in Single
        BY <4>1, Singles
      <4>3. ~Connected(n, k)
        BY <1>1, <1>2, <2>1, <2>3, <4>2, PassingSockets DEF Passing
      <4> QED
        BY <1>2, <2>2, <2>3, <4>3 DEF InputBy
    <3> QED
      BY <3>1
  <2>6. ~mixed
    <3>1. IsReduced(inputs[n][1]) => 1 \in Known(inputs[n])
      BY <2>3 DEF Known
    <3> QED
      BY <2>4, <2>5, <3>1
  <2>7. Known(inputs[n]) # {}
    <3>1. PICK k \in {1, 2} : ~Connected(n, k)
      BY <1>1, <2>1, <2>3 DEF Accepts, LiteralInTernaries
    <3>2. inputs[n][k] \in Single
      BY <1>1, <1>2, <2>3, <3>1, Sockets
    <3>3. IsReduced(inputs[n][k])
      BY <3>2, Singles, Vague
    <3> QED
      BY <2>3, <3>3 DEF Known
  <2>8. LastKnown(inputs[n]) = types[2]
    <3>1. Max(Known(inputs[n])) \in Known(inputs[n])
      BY <1>1, <2>7, LastIsKnown
    <3>2. Max(Known(inputs[n])) \in {1, 2}
      BY <2>3, <3>1 DEF Known
    <3> QED
      BY <2>4, <2>5, <3>1, <3>2 DEF LastKnown
  <2> HIDE DEF mixed
  <2>9. /\ reduced'[n] /\ ~errors' /\ output'[n] = types[2] /\ inputs'[n] = types
    BY <1>1, <1>3, <2>1, <2>6, <2>7, <2>8
  <2>10. types[2] = InputBy(f, n, 1) /\ types[2] \in Single
    BY <2>2, <2>3, <2>4
  <2> QED
    BY <1>4, <2>2, <2>3, <2>9, <2>10
<1>9. CASE ReduceComparison(n)
  <2>1. graph[n].kind = "comparison" /\ ~Passing(n)
    BY <1>9 DEF ReduceComparison, Passing
  <2>2. {"String"} \notin Range(types) /\ {"Boolean"} \notin Range(types)
    BY <1>1, <1>2, <2>1 DEF Range
  <2>3. /\ output' = output /\ errors' = errors
        /\ reduced' = [reduced EXCEPT ![n] = ~Waits(n)]
    <3>1. PICK number :
            errors' = (errors \/ ((number /\ {"String"} \in Range(types))
                        \/ (number /\ {"Boolean"} \in Range(types))
                        \/ ({"String"} \in Range(types) /\ {"Boolean"} \in Range(types))))
      BY <1>9 DEF ReduceComparison, Err
    <3>2. errors' = errors
      BY <2>2, <3>1 DEF Typed, TypeOK
    <3> QED
      BY <1>9, <3>2 DEF ReduceComparison, Settle
  <2> QED
    BY <1>1, <1>3, <1>5, <2>1, <2>3
<1>10. CASE ReducePrintOrSet(n)
  <2>1. /\ inputs' = [inputs EXCEPT ![n] = types] /\ output' = output
        /\ errors' = (errors \/ (graph[n].kind = "set" /\ types[1] # {graph[n].variable}))
        /\ reduced' = [reduced EXCEPT ![n] = TRUE] /\ graph[n].kind \in {"print", "set"}
    BY <1>10 DEF ReducePrintOrSet, Learn, Err, Settle
  <2>2. 1 \in DOMAIN inputs[n]
    <3>1. NumInputs(graph[n].kind) = {1}
      BY <2>1 DEF NumInputs
    <3> QED
      BY <1>1, <3>1, Sockets
  <2>3. graph[n].kind = "set" => types[1] = {graph[n].variable}
    BY <1>1, <1>2, <1>4, <2>2 DEF AgreesBy
  <2>4. ~Passing(n) /\ graph[n].kind \notin {"comparison", "div"}
    BY <2>1 DEF Passing
  <2> QED
    BY <1>1, <1>2, <1>5, <2>1, <2>3, <2>4
<1>11. CASE ReduceDivide(n)
  <2>1. /\ inputs' = [inputs EXCEPT ![n] = types] /\ output' = output /\ errors' = errors
        /\ reduced' = [reduced EXCEPT ![n] = ~Waits(n)] /\ graph[n].kind = "divide"
    BY <1>11 DEF ReduceDivide, Learn, Settle
  <2>2. ~Passing(n) /\ graph[n].kind \notin {"comparison", "div"}
    BY <2>1 DEF Passing
  <2> QED
    BY <1>1, <1>2, <1>3, <1>5, <2>1, <2>2
<1>12. CASE ReduceOther(n)
  <2>1. /\ inputs' = inputs /\ output' = output /\ errors' = errors
        /\ reduced' = [reduced EXCEPT ![n] = TRUE] /\ graph[n].kind \in {"div", "other"}
    BY <1>12 DEF ReduceOther, Settle
  <2>2. ~Passing(n) /\ graph[n].kind # "comparison"
    BY <2>1 DEF Passing
  <2>3. ASSUME NEW k \in DOMAIN inputs[n], graph[n].kind # "div"
        PROVE  inputs[n][k] = InputBy(f, n, k)
    <3>1. ~FollowsWire(n, k)
      BY <2>1 DEF FollowsWire
    <3>2. types[k] = inputs[n][k]
      BY <3>1 DEF Learned
    <3> QED
      BY <1>2, <2>2, <2>3, <3>2
  <2> QED
    BY <1>1, <1>5, <2>1, <2>2, <2>3
<1> QED
  BY <1>6, <1>7, <1>8, <1>9, <1>10, <1>11, <1>12 DEF Reduce

LEMMA AcceptedInit ==
  ASSUME Init
  PROVE  AcceptedSoFar
<1>1. graph \in Graphs /\ node = 1 /\ ~errors
  BY DEF Init
<1>2. PICK len \in Nat : Nodes = 1..len
  BY <1>1, GraphShape
<1>3. ASSUME NEW n \in Nodes
      PROVE  ~(n < node) /\ ~reduced[n] /\ Untouched(n)
  <2>1. /\ inputs[n] = [k \in DOMAIN graph[n].inputs |-> graph[n].inputs[k].type]
        /\ output[n] = graph[n].output /\ reduced[n] = FALSE
    BY DEF Init
  <2>2. ~(n < node)
    BY <1>1, <1>2
  <2> QED
    BY <2>1, <2>2 DEF Untouched, Fresh
<1> QED
  BY <1>1, <1>3 DEF AcceptedSoFar

(* What f makes of a graph is no matter of the state of the reduction.     *)
LEMMA AcceptsStays ==
  ASSUME graph' = graph, NEW f
  PROVE  /\ Accepts(f)' <=> Accepts(f)
         /\ \A n, k : InputBy(f, n, k)' = InputBy(f, n, k)
<1>1. /\ Nodes' = Nodes
      /\ \A n, k : (Connected(n, k)' <=> Connected(n, k)) /\ Source(n, k)' = Source(n, k)
  BY DEF Nodes, Connected, Source
<1>2. \A n, k : InputBy(f, n, k)' = InputBy(f, n, k)
  BY DEF InputBy, Connected, Source
<1>3. ASSUME NEW n
      PROVE  TypeBy(f, n)' = TypeBy(f, n)
  BY DEF TypeBy, Connected, Source
<1>4. Solves(f)' <=> Solves(f)
  BY <1>1, <1>3 DEF Solves
<1>5. ASSUME NEW n
      PROVE  AgreesBy(f, n)' <=> AgreesBy(f, n)
  BY <1>2 DEF AgreesBy
<1>6. (InOrder' <=> InOrder) /\ (LiteralInTernaries' <=> LiteralInTernaries)
  BY <1>1 DEF InOrder, LiteralInTernaries
<1> QED
  BY <1>1, <1>2, <1>4, <1>5, <1>6 DEF Accepts

LEMMA AcceptedStep ==
  ASSUME Typed, AcceptedSoFar, [Next]_vars
  PROVE  AcceptedSoFar'
<1> SUFFICES ASSUME NEW f, Accepts(f)'
             PROVE  (/\ ~errors
                     /\ \A n \in Nodes :
                          /\ n < node => reduced[n]
                          /\ reduced[n] => \A m \in Nodes : m < n => reduced[m]
                          /\ IF reduced[n] THEN SettledBy(f, n) ELSE Untouched(n))'
  BY DEF AcceptedSoFar
<1>1. graph' = graph
  BY DEF Next, ReduceNode, SkipNode, EndPass, vars
<1>2. Nodes' = Nodes /\ Accepts(f) /\ \A n, k : InputBy(f, n, k)' = InputBy(f, n, k)
  BY <1>1, AcceptsStays DEF Nodes
<1>3. PICK len \in Nat : Nodes = 1..len
  BY GraphShape DEF Typed, Shaped
<1>4. /\ ~errors
      /\ \A n \in Nodes : /\ n < node => reduced[n]
                          /\ reduced[n] => \A m \in Nodes : m < n => reduced[m]
                          /\ IF reduced[n] THEN SettledBy(f, n) ELSE Untouched(n)
  BY <1>2 DEF AcceptedSoFar
<1>5. node \in Nat
  BY DEF Typed, TypeOK
<1>6. ASSUME NEW n \in Nodes, inputs'[n] = inputs[n], output'[n] = output[n]
      PROVE  (SettledBy(f, n)' <=> SettledBy(f, n)) /\ (Untouched(n)' <=> Untouched(n))
  BY <1>1, <1>2, <1>6 DEF SettledBy, Untouched, Passing, Fresh
<1>7. CASE ReduceNode
  <2>1. PICK c \in Nodes : c = node /\ ~reduced[c] /\ Reduce(c) /\ node' = c + 1
    BY <1>7 DEF ReduceNode
  <2>2. \A m \in Nodes : m < c => SettledBy(f, m) /\ reduced[m]
    BY <1>4, <2>1
  <2>3. \A m \in Nodes : m > c => Untouched(m) /\ ~reduced[m]
    <3>1. \A m \in Nodes : m > c => c < m
      BY <1>3
    <3> QED
      BY <1>4, <2>1, <3>1
  <2>4. Untouched(c)
    BY <1>4, <2>1
  <2>5. /\ reduced'[c] /\ ~errors' /\ output'[c] = f[c]
        /\ Passing(c) => output'[c] \in Single
        /\ graph[c].kind \notin {"comparison", "div"} =>
             \A k \in DOMAIN inputs[c] : inputs'[c][k] = InputBy(f, c, k)
    BY <1>2, <1>4, <2>1, <2>2, <2>3, <2>4, OrderedVisit
  <2>6. DOMAIN inputs'[c] = DOMAIN inputs[c]
    <3>1. DOMAIN Learned(c) = DOMAIN inputs[c] /\ DOMAIN inputs = Nodes
      BY LearnedTypes DEF Typed, TypeOK
    <3>2. inputs' \in {inputs, [inputs EXCEPT ![c] = Learned(c)]}
      BY <2>1, ReduceTypes
    <3> QED
      BY <3>1, <3>2
  <2>7. SettledBy(f, c)'
    BY <1>1, <1>2, <2>5, <2>6 DEF SettledBy, Passing
  <2>8. ASSUME NEW m \in Nodes, m # c
        PROVE  inputs'[m] = inputs[m] /\ output'[m] = output[m] /\ reduced'[m] = reduced[m]
    <3>1. DOMAIN inputs = Nodes /\ DOMAIN output = Nodes /\ DOMAIN reduced = Nodes
      BY DEF Typed, TypeOK
    <3> QED
      BY <2>1, <2>8, <3>1, ReduceTypes
  <2>9. ASSUME NEW n \in Nodes
        PROVE  /\ n < node' => reduced'[n]
               /\ reduced'[n] => \A m \in Nodes : m < n => reduced'[m]
               /\ IF reduced'[n] THEN SettledBy(f, n)' ELSE Untouched(n)'
    <3>1. n < node' => n < c \/ n = c
      BY <1>3, <2>1
    <3>2. n < node' => reduced'[n]
      BY <1>3, <2>2, <2>5, <2>8, <3>1
    <3>3. \A m \in Nodes : m < c => reduced'[m]
      BY <1>3, <2>2, <2>8
    <3>4. CASE n = c
      BY <2>5, <2>7, <3>2, <3>3, <3>4
    <3>5. CASE n # c
      <4>1. reduced'[n] = reduced[n] /\ (SettledBy(f, n)' <=> SettledBy(f, n))
            /\ (Untouched(n)' <=> Untouched(n))
        BY <1>6, <2>8, <3>5
      <4>2. reduced[n] => n < c
        BY <1>3, <2>3, <3>5
      <4>3. reduced[n] => \A m \in Nodes : m < n => m < c
        BY <1>3, <4>2
      <4>4. reduced'[n] => \A m \in Nodes : m < n => reduced'[m]
        BY <3>3, <4>1, <4>3
      <4> QED
        BY <1>4, <3>2, <4>1, <4>4
    <3> QED
      BY <3>4, <3>5
  <2> QED
    BY <1>2, <2>5, <2>9
<1>8. CASE UNCHANGED <<inputs, output, reduced, errors>> /\ \A n \in Nodes : n < node' => reduced[n]
  <2>1. \A n \in Nodes : (SettledBy(f, n)' <=> SettledBy(f, n)) /\ (Untouched(n)' <=> Untouched(n))
    BY <1>6, <1>8
  <2> QED
    BY <1>2, <1>4, <1>8, <2>1
<1>9. CASE SkipNode
  <2>1. reduced[node] /\ node' = node + 1 /\ UNCHANGED <<inputs, output, reduced, errors>>
    BY <1>9 DEF SkipNode
  <2>2. \A n \in Nodes : n < node' => n < node \/ n = node
    BY <1>3, <1>5, <2>1
  <2> QED
    BY <1>4, <1>8, <2>1, <2>2
<1>10. CASE EndPass
  <2>1. node' \in {1, node} /\ UNCHANGED <<inputs, output, reduced, errors>>
    BY <1>10 DEF EndPass
  <2>2. \A n \in Nodes : ~(n < 1)
    BY <1>3
  <2> QED
    BY <1>4, <1>8, <2>1, <2>2
<1>11. CASE UNCHANGED vars
  BY <1>4, <1>8, <1>11 DEF vars
<1> QED
  BY <1>7, <1>9, <1>10, <1>11 DEF Next

LEMMA AlwaysAccepted == Spec => []AcceptedSoFar
<1>1. Init => AcceptedSoFar
  BY AcceptedInit
<1>2. Typed /\ AcceptedSoFar /\ [Next]_vars => AcceptedSoFar'
  BY AcceptedStep
<1> QED
  BY <1>1, <1>2, AlwaysTyped, PTL DEF Spec

(***************************************************************************)
(* However long a program is: if its types agree and each line refers to   *)
(* lines above it, it is accepted, and every connected input has learned   *)
(* the type of what it is connected to, but for those of comparisons and   *)
(* of Div (dsemantic.c:2088-2160).  A Ternary has a literal.               *)
(***************************************************************************)
THEOREM InOrderIsAccepted == Spec => []OrderedIsAccepted
<1>1. ASSUME Typed, AcceptedSoFar
      PROVE  OrderedIsAccepted
  <2> SUFFICES ASSUME done, InOrder, WellTyped, LiteralInTernaries
               PROVE  /\ ~errors
                      /\ \A n \in Nodes : graph[n].kind \notin {"comparison", "div"} =>
                           \A k \in DOMAIN inputs[n] : inputs[n][k] = TypeOfInput(n, k)
    BY DEF OrderedIsAccepted
  <2>1. graph \in Graphs /\ \A n \in Nodes : reduced[n]
    BY <1>1 DEF Typed, TypeOK, Shaped
  <2>2. PICK f : f = TypeOf
    OBVIOUS
  <2>3. Solves(f)
    BY <2>1, <2>2, SolutionExists, TypeOfSolves
  <2>4. \A n, k : TypeOfInput(n, k) = InputBy(f, n, k)
    BY <2>2 DEF TypeOfInput, InputBy
  <2>5. \A n \in Nodes : AgreesBy(f, n)
    BY <2>4 DEF WellTyped, Fits, InputsAgree, AgreesBy, InputsOf
  <2>6. Accepts(f)
    BY <2>3, <2>5 DEF Accepts
  <2>7. ~errors /\ \A n \in Nodes : SettledBy(f, n)
    BY <1>1, <2>1, <2>6 DEF AcceptedSoFar
  <2> QED
    BY <2>4, <2>7 DEF SettledBy
<1> QED
  BY <1>1, AlwaysTyped, AlwaysAccepted, PTL
=============================================================================
