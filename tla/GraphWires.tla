------------------------------ MODULE GraphWires ------------------------------
(***************************************************************************)
(* The wires of a sheet's graph (dgraph.c): an array that is kept sorted,  *)
(* so that the semantic analysis and the code generator can find the wires *)
(* of a socket by binary search; and the last loop of                      *)
(* d_semantic_scan_nodes (dsemantic.c), which fills it by matching the     *)
(* line identifiers of input sockets with those of output sockets.         *)
(***************************************************************************)
EXTENDS Integers, Sequences, FiniteSetsExt, SequencesExt

CONSTANTS
  Inputs,     \* the input sockets, in the order the nodes have them
  Outputs,    \* the output sockets, likewise
  Types,      \* the data types, Execution among them
  Execution,  \* TYPE_EXECUTION
  TypeOf,     \* the set of types of each socket, SocketMeta.type
  Lines,      \* line identifiers
  NoLine      \* the socket is given a literal, or nothing

Sockets == Range(Inputs) \union Range(Outputs)

ASSUME SocketsAssumption ==
  /\ {Inputs, Outputs} \subseteq Seq([nodeIndex : Nat, socketIndex : Nat])
  /\ IsInjective(Inputs) /\ IsInjective(Outputs)
  /\ Range(Inputs) \intersect Range(Outputs) = {}
  /\ TypeOf \in [Sockets -> SUBSET Types]
ASSUME LinesAssumption == NoLine \notin Lines

VARIABLES
  lineOf,     \* the line identifier the source text gives each socket
  wires,      \* graph.wires
  unknown,    \* index in Inputs of the unknown line that is matched ...
  known,      \* ... and index in Outputs of the known line it is compared to
  errors      \* the compile errors so far, what is wrong and where

vars == <<lineOf, wires, unknown, known, errors>>

Wire(from, to) == [socketFrom |-> from, socketTo |-> to]

(* The array of a graph is indexed from 0.                                 *)
At(ws, i) == ws[i + 1]

-----------------------------------------------------------------------------
Sign(x, y) == IF x < y THEN -1 ELSE IF x > y THEN 1 ELSE 0

(* Mutant: the slip of d_wire_cmp, made where it would matter.             *)
CmpSocketTypo(s, t) ==
  IF s.nodeIndex < t.nodeIndex THEN -1 ELSE Sign(s.socketIndex, t.socketIndex)

CmpSocket(s, t) ==
  IF s.nodeIndex # t.nodeIndex THEN Sign(s.nodeIndex, t.nodeIndex)
                               ELSE Sign(s.socketIndex, t.socketIndex)

(***************************************************************************)
(* d_wire_cmp.  The test of the target nodes is "less than" twice, so that *)
(* a greater target node does not count: the sockets are compared instead. *)
(***************************************************************************)
CmpTarget(s, t) ==
  IF s.nodeIndex < t.nodeIndex THEN -1 ELSE Sign(s.socketIndex, t.socketIndex)

CmpWire(w, x) ==
  IF CmpSocket(w.socketFrom, x.socketFrom) # 0
  THEN CmpSocket(w.socketFrom, x.socketFrom)
  ELSE CmpTarget(w.socketTo, x.socketTo)

(* One turn of the loop of a binary search: cmp[k] compares what is sought *)
(* with element k.  No turn follows the one that has found it.             *)
Turn(s, cmp) ==
  LET middle == (s.left + s.right) \div 2
  IN  IF s.left > s.right THEN s
      ELSE [left   |-> IF cmp[middle] >= 0 THEN middle + 1 ELSE s.left,
            right  |-> IF cmp[middle] <= 0 THEN middle - 1 ELSE s.right,
            middle |-> middle]

(* There is less to look at after each turn, so that n are enough.         *)
Turns(n, cmp) ==
  LET turn[k \in 0..n] ==
        IF k = 0 THEN [left |-> 0, right |-> n - 1, middle |-> (n - 1) \div 2]
        ELSE Turn(turn[k - 1], cmp)
  IN  turn

(* The last of n elements a binary search has looked at.                   *)
BinarySearch(n, cmp) == Turns(n, cmp)[n].middle

IS_WIRE_FROM(ws, i, socket) ==
  i \in 0..(Len(ws) - 1) /\ At(ws, i).socketFrom = socket

(* Back from a wire of the socket to the first one.                        *)
FirstOf(ws, middle, socket) ==
  Max({-1} \union {i \in 0..middle : At(ws, i).socketFrom # socket}) + 1

d_wire_find_first(ws, socket) ==
  IF ws = <<>> THEN -1
  ELSE LET middle == BinarySearch(Len(ws),
                       [i \in 0..(Len(ws) - 1) |-> CmpSocket(socket, At(ws, i).socketFrom)])
       IN  IF IS_WIRE_FROM(ws, middle, socket) THEN FirstOf(ws, middle, socket) ELSE -1

(* Forward from there for as long as the wires are the socket's.           *)
d_socket_num_connections(ws, socket) ==
  LET first == d_wire_find_first(ws, socket)
  IN  IF first < 0 THEN 0
      ELSE Min({i \in first..Len(ws) : ~IS_WIRE_FROM(ws, i, socket)}) - first

-----------------------------------------------------------------------------
(* add_edge: where the new wire goes, and what is wrong with it then.      *)
Inserted(ws, wire) ==
  IF ws = <<>> THEN <<wire>>
  ELSE LET middle == BinarySearch(Len(ws),
                       [i \in 0..(Len(ws) - 1) |-> CmpWire(wire, At(ws, i))])
           behind == IF CmpWire(wire, At(ws, middle)) > 0 THEN 1 ELSE 0
       IN  InsertAt(ws, middle + behind + 1, wire)

d_is_input_socket(socket) == socket \in Range(Inputs)

IsExecution(socket) == TypeOf[socket] = {Execution}

(* Mutant: forgets the flow of execution.                                  *)
OnlyOneInput(socket) == d_is_input_socket(socket)

(* A value has one source, and a flow of execution one continuation.       *)
OnlyOne(socket) == d_is_input_socket(socket) # IsExecution(socket)

TooMany(ws, socket) ==
  IF d_socket_num_connections(ws, socket) > 1 /\ OnlyOne(socket)
  THEN {<<"too many connections", socket>>} ELSE {}

Mismatch(from, to) ==
  IF TypeOf[from] \intersect TypeOf[to] = {}
  THEN {<<"type mismatch", from, to>>} ELSE {}

(* Mutant: the opposite is forgotten.                                      *)
d_graph_add_wireOneWay(from, to) ==
  LET one == Inserted(wires, Wire(from, to))
  IN  /\ wires' = one
      /\ errors' = errors \union TooMany(one, from) \union Mismatch(from, to)

(***************************************************************************)
(* d_graph_add_wire: the wire and its opposite, each followed by the count *)
(* of connections at its end, and the types of both ends.                  *)
(***************************************************************************)
d_graph_add_wire(from, to) ==
  LET one  == Inserted(wires, Wire(from, to))
      both == Inserted(one, Wire(to, from))
  IN  /\ wires' = both
      /\ errors' = errors \union TooMany(one, from) \union TooMany(both, to)
                          \union Mismatch(from, to)

-----------------------------------------------------------------------------
(* The loop over the unknown lines, and in it over the known ones.         *)
Match(input, output) ==
  lineOf[input] # NoLine /\ lineOf[input] = lineOf[output]

Pending == unknown <= Len(Inputs)

(* Mutant: after a match the line behind it is left out.                   *)
CompareSkips ==
  LET input  == Inputs[unknown]
      output == Outputs[known]
  IN  /\ Pending /\ known <= Len(Outputs)
      /\ IF Match(input, output)
         THEN d_graph_add_wire(output, input)
         ELSE UNCHANGED <<wires, errors>>
      /\ known' = known + IF Match(input, output) THEN 2 ELSE 1
      /\ UNCHANGED <<lineOf, unknown>>

Compare ==
  LET input  == Inputs[unknown]
      output == Outputs[known]
  IN  /\ Pending /\ known <= Len(Outputs)
      /\ IF Match(input, output)
         THEN d_graph_add_wire(output, input)
         ELSE UNCHANGED <<wires, errors>>
      /\ known' = known + 1
      /\ UNCHANGED <<lineOf, unknown>>

(* No known line is left: the unknown line may have found no match.        *)
NextUnknown ==
  LET input == Inputs[unknown]
  IN  /\ Pending /\ known > Len(Outputs)
      /\ errors' = IF lineOf[input] = NoLine \/ \E o \in Range(Outputs) : Match(input, o)
                   THEN errors
                   ELSE errors \union {<<"undefined line", input>>}
      /\ unknown' = unknown + 1 /\ known' = 1
      /\ UNCHANGED <<lineOf, wires>>

Init ==
  /\ lineOf \in [Sockets -> Lines \union {NoLine}]
  /\ wires = <<>> /\ errors = {}
  /\ unknown = 1 /\ known = 1

Next == Compare \/ NextUnknown

Spec == Init /\ [][Next]_vars

-----------------------------------------------------------------------------
(* Every variable keeps its type.                                          *)
TypeOK ==
  /\ lineOf \in [Sockets -> Lines \union {NoLine}]
  /\ wires \in Seq([socketFrom : Sockets, socketTo : Sockets])
  /\ unknown \in 1..(Len(Inputs) + 1) /\ known \in 1..(Len(Outputs) + 1)

(***************************************************************************)
(* Binary search finds the wires of every socket, and the first of them,   *)
(* while wires of other sockets come and go around them: what all of the   *)
(* semantic analysis and code generation look wires up with                *)
(* (dgraph.c:363-445).                                                     *)
(***************************************************************************)
FindsAllWires ==
  \A socket \in Sockets :
    LET own == {i \in 0..(Len(wires) - 1) : At(wires, i).socketFrom = socket}
    IN  /\ d_wire_find_first(wires, socket) = IF own = {} THEN -1 ELSE Min(own)
        /\ d_socket_num_connections(wires, socket) = Cardinality(own)

(* The pairs of sockets with the same line that have been compared.        *)
Before(i, j) == i < unknown \/ (i = unknown /\ j < known)

Compared ==
  {c \in Range(Inputs) \X Range(Outputs) :
     /\ Match(c[1], c[2])
     /\ \E i \in DOMAIN Inputs, j \in DOMAIN Outputs :
          Before(i, j) /\ c = <<Inputs[i], Outputs[j]>>}

(***************************************************************************)
(* Two sockets are wired in both directions exactly if they share a line:  *)
(* no insertion overwrites, drops or doubles a wire (dgraph.c:466-505).    *)
(***************************************************************************)
WiredBothWays ==
  /\ Len(wires) = 2 * Cardinality(Compared)
  /\ Range(wires) = UNION {{Wire(c[1], c[2]), Wire(c[2], c[1])} : c \in Compared}

(***************************************************************************)
(* An input value with several sources, or an execution output with        *)
(* several continuations, is reported, and nothing else is: the count is   *)
(* taken after either end of each wire is inserted (dgraph.c:544-565).     *)
(***************************************************************************)
AmbiguityReported ==
  \A socket \in Sockets :
    <<"too many connections", socket>> \in errors <=>
      /\ IF d_is_input_socket(socket) THEN ~IsExecution(socket) ELSE IsExecution(socket)
      /\ Cardinality({c \in Compared : socket \in {c[1], c[2]}}) > 1
=============================================================================
