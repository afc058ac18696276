---------------------------- MODULE SemanticGraph ----------------------------
(***************************************************************************)
(* The last two checks of the semantic analysis (dsemantic.c): no path     *)
(* through the graph of a sheet comes back to where it was, and every      *)
(* execution of a subroutine that has outputs ends in a Return node.       *)
(*                                                                         *)
(* Both are recursions over the wires; a step is a call, a wire that is    *)
(* followed, or a return of one of them.                                   *)
(***************************************************************************)
EXTENDS Integers, Sequences, FiniteSets, SequencesExt

IsASequence(s) == Len(s) \in Nat /\ DOMAIN s = 1..Len(s)

CONSTANTS
  Graphs,     \* the connected graphs with the sheet's functions
  MaxDepth    \* bound: calls of check_for_return inside each other, behind
              \* which the C stack ends

(* A node has a name, says whether it has inputs that are not names, and   *)
(* for each output whether it is an execution socket and where its wires   *)
(* lead, in the order of graph.wires.                                      *)
ASSUME GraphsAssumption ==
  \A g \in Graphs :
    /\ IsASequence(g.nodes) /\ IsASequence(g.functions)
    /\ \A n \in DOMAIN g.nodes :
         /\ IsASequence(g.nodes[n].outputs)
         /\ \A i \in DOMAIN g.nodes[n].outputs :
              g.nodes[n].outputs[i].to \in Seq(DOMAIN g.nodes)
         (* The sockets of these are those of dcore.c:70-76 and dsheet.c:139-156. *)
         /\ g.nodes[n].name = "IfThenElse" =>
              Len(g.nodes[n].outputs) = 3 /\ \A i \in 1..3 : g.nodes[n].outputs[i].execution
         /\ g.nodes[n].name = "Return" => g.nodes[n].outputs = <<>>
    /\ \A i \in DOMAIN g.functions : g.functions[i].define \in DOMAIN g.nodes

ASSUME MaxDepthAssumption == MaxDepth \in Nat \ {0}

VARIABLES
  nodes,      \* graph.nodes with the wires that leave them
  functions,  \* sheet->functions
  phase,      \* the function of the scan that runs
  at,         \* index of the node or function its loop looks at
  path,       \* the calls of check_loop: each a node, and the output and
              \* the wire of it that are next
  calls,      \* the calls of check_for_return: each a node, and what the
              \* calls it has made returned
  errors      \* the errors that were pushed

vars == <<nodes, functions, phase, at, path, calls, errors>>

-----------------------------------------------------------------------------
Call(n) == [node |-> n, output |-> 1, wire |-> 1]

Looping == phase = "loops" /\ path # <<>>

(* Mutant: the node right above is not compared.                           *)
InPathBefore(n) == n \in {path[i].node : i \in 1..(Len(path) - 1)}

InPath(n) == n \in {path[i].node : i \in DOMAIN path}

(* Mutant: hasInputs is not reset for each node.                           *)
NoInputsSoFar(n) == \A m \in 1..n : ~nodes[m].hasInputs

NoInputs(n) == ~nodes[n].hasInputs

(* A node without inputs begins a path.                                    *)
BeginPath ==
  /\ phase = "loops" /\ path = <<>> /\ at <= Len(nodes)
  /\ NoInputs(at)
  /\ path' = <<Call(at)>>
  /\ UNCHANGED <<nodes, functions, phase, at, calls, errors>>

SkipNode ==
  /\ phase = "loops" /\ path = <<>> /\ at <= Len(nodes)
  /\ ~NoInputs(at)
  /\ at' = at + 1
  /\ UNCHANGED <<nodes, functions, phase, path, calls, errors>>

Outputs(n) == nodes[n].outputs

(* The next wire of the node at the end of the path.                       *)
FollowWire ==
  LET top  == path[Len(path)]
      to   == Outputs(top.node)[top.output].to
      gone == [path EXCEPT ![Len(path)].wire = @ + 1]
  IN  /\ Looping
      /\ top.output <= Len(Outputs(top.node)) /\ top.wire <= Len(to)
      /\ IF InPath(to[top.wire])
         THEN /\ errors' = errors \union {[what |-> "loop", node |-> to[top.wire]]}
              /\ path' = gone
         ELSE /\ path' = Append(gone, Call(to[top.wire]))
              /\ UNCHANGED errors
      /\ UNCHANGED <<nodes, functions, phase, at, calls>>

NextOutput ==
  LET top == path[Len(path)]
  IN  /\ Looping
      /\ top.output <= Len(Outputs(top.node))
      /\ top.wire > Len(Outputs(top.node)[top.output].to)
      /\ path' = [path EXCEPT ![Len(path)] =
                   [node |-> top.node, output |-> top.output + 1, wire |-> 1]]
      /\ UNCHANGED <<nodes, functions, phase, at, calls, errors>>

(* Mutant: the loop over the nodes does not go on.                         *)
LeaveNodeStays ==
  /\ Looping /\ path[Len(path)].output > Len(Outputs(path[Len(path)].node))
  /\ path' = SubSeq(path, 1, Len(path) - 1)
  /\ UNCHANGED <<nodes, functions, phase, at, calls, errors>>

(* All wires of the node have been followed; with the first node of the    *)
(* path, the loop over the nodes goes on.                                  *)
LeaveNode ==
  /\ Looping /\ path[Len(path)].output > Len(Outputs(path[Len(path)].node))
  /\ path' = SubSeq(path, 1, Len(path) - 1)
  /\ at' = IF Len(path) = 1 THEN at + 1 ELSE at
  /\ UNCHANGED <<nodes, functions, phase, calls, errors>>

(* sheet->hasErrors.  d_load_string sets it when the scan has returned.    *)
hasErrors == FALSE

LoopsDone ==
  /\ phase = "loops" /\ path = <<>> /\ at > Len(nodes)
  /\ phase' = IF hasErrors THEN "done" ELSE "returns"
  /\ at' = 1
  /\ UNCHANGED <<nodes, functions, path, calls, errors>>

-----------------------------------------------------------------------------
(* The outputs that are execution sockets, and the last of them.           *)
Executions(n)    == {i \in DOMAIN Outputs(n) : Outputs(n)[i].execution}
LastExecution(n) == CHOOSE i \in Executions(n) : \A j \in Executions(n) : j <= i

(* The outputs that check_for_return looks behind: all three of            *)
(* IfThenElse, otherwise the last.                                         *)
Looked(n) ==
  CASE nodes[n].name = "IfThenElse" -> Outputs(n)
    [] Executions(n) = {}           -> <<>>
    [] OTHER                        -> <<Outputs(n)[LastExecution(n)]>>

(* Mutant: one of then and else is enough.                                 *)
AnyReturns(n, results) ==
  CASE nodes[n].name = "IfThenElse" -> \E r \in Range(results) : r
    [] Looked(n) = <<>>             -> nodes[n].name = "Return"
    [] OTHER                        -> results[1]

Returns(n, results) ==
  CASE nodes[n].name = "IfThenElse" -> (results[1] /\ results[2]) \/ results[3]
    [] Looked(n) = <<>>             -> nodes[n].name = "Return"
    [] OTHER                        -> results[1]

(* A subroutine has an execution output as well as those it is to return.  *)
MustReturn(f) == f.isSubroutine /\ f.numOutputs > 1

BeginFunction ==
  /\ phase = "returns" /\ calls = <<>> /\ at <= Len(functions)
  /\ MustReturn(functions[at])
  /\ calls' = <<[node |-> functions[at].define, results |-> <<>>]>>
  /\ UNCHANGED <<nodes, functions, phase, at, path, errors>>

SkipFunction ==
  /\ phase = "returns" /\ calls = <<>> /\ at <= Len(functions)
  /\ ~MustReturn(functions[at])
  /\ at' = at + 1
  /\ UNCHANGED <<nodes, functions, phase, path, calls, errors>>

(* The first wire of the next output that is looked behind, if any.        *)
LookBehind ==
  LET top == Last(calls)
      to  == Looked(top.node)[Len(top.results) + 1].to
  IN  /\ calls # <<>> /\ Len(top.results) < Len(Looked(top.node))
      /\ IF to = <<>>
         THEN calls' = [calls EXCEPT ![Len(calls)].results = Append(@, FALSE)]
         ELSE /\ Len(calls) < MaxDepth
              /\ calls' = Append(calls, [node |-> to[1], results |-> <<>>])
      /\ UNCHANGED <<nodes, functions, phase, at, path, errors>>

(* A call returns its result to the call below, or to the loop.            *)
GiveResult ==
  LET top    == Last(calls)
      result == Returns(top.node, top.results)
      below  == Front(calls)
  IN  /\ calls # <<>> /\ Len(top.results) = Len(Looked(top.node))
      /\ IF below # <<>>
         THEN /\ calls' = [below EXCEPT ![Len(below)].results = Append(@, result)]
              /\ UNCHANGED <<at, errors>>
         ELSE /\ calls' = <<>>
              /\ at' = at + 1
              /\ errors' = IF result THEN errors
                           ELSE errors \union {[what |-> "no return", node |-> top.node]}
      /\ UNCHANGED <<nodes, functions, phase, path>>

ReturnsDone ==
  /\ phase = "returns" /\ calls = <<>> /\ at > Len(functions)
  /\ phase' = "done"
  /\ UNCHANGED <<nodes, functions, at, path, calls, errors>>

Init ==
  /\ \E g \in Graphs : nodes = g.nodes /\ functions = g.functions
  /\ phase = "loops" /\ at = 1
  /\ path = <<>> /\ calls = <<>> /\ errors = {}

DetectLoops  == BeginPath \/ SkipNode \/ FollowWire \/ NextOutput \/ LeaveNode \/ LoopsDone
CheckReturns == BeginFunction \/ SkipFunction \/ LookBehind \/ GiveResult \/ ReturnsDone

Next == DetectLoops \/ CheckReturns

Spec == Init /\ [][Next]_vars

(* The scan is one C function, which nothing makes wait.                   *)
FairSpec == Spec /\ WF_vars(Next)

-----------------------------------------------------------------------------
PathElements == [node : DOMAIN nodes, output : Nat \ {0}, wire : Nat \ {0}]

(* The array for the path has as many elements as there are nodes, and     *)
(* check_loop writes behind none of it, whatever loops the graph has; and  *)
(* all that it writes are indices of nodes (dsemantic.c:2190, 2247).       *)
PathFits == path \in Seq(PathElements) /\ Len(path) <= Len(nodes)

-----------------------------------------------------------------------------
(* What the two checks are for.  Behind[n] are the nodes that a path of at *)
(* least one wire leads to from n: those in every set that has the first   *)
(* steps from n and every further one.                                     *)
Steps == [n \in DOMAIN nodes |-> UNION {Range(o.to) : o \in Range(Outputs(n))}]

Onward(set) == \A n \in set : Steps[n] \subseteq set

Behind ==
  [n \in DOMAIN nodes |->
     {m \in DOMAIN nodes :
        \A set \in SUBSET DOMAIN nodes : Steps[n] \subseteq set /\ Onward(set) => m \in set}]

OnLoop == {n \in DOMAIN nodes : n \in Behind[n]}

(* A loop is reported if and only if a path from a node without inputs     *)
(* leads into one, and at a node of it.                                    *)
LoopsReported ==
  LET reached == UNION {Behind[n] \union {n} : n \in {m \in DOMAIN nodes : ~nodes[m].hasInputs}}
      found   == {e.node : e \in {d \in errors : d.what = "loop"}}
  IN  phase # "loops" =>
        /\ found \subseteq OnLoop
        /\ found = {} <=> OnLoop \intersect reached = {}

(***************************************************************************)
(* How the code of a graph can end when it is run from n: in a Return, or  *)
(* behind the last node.  Every execution output but the last is a branch  *)
(* that comes back; IfThenElse takes one of the first two, and any other   *)
(* node takes any of them, or none.  ends[m] is how it can end from m.     *)
(***************************************************************************)
EndsFrom(ends, n) ==
  LET EndsBehind(i) == IF Outputs(n)[i].to = <<>> THEN {"end"} ELSE ends[Outputs(n)[i].to[1]]
      last          == EndsBehind(LastExecution(n))
      branches      == UNION {EndsBehind(i) : i \in Executions(n) \ {LastExecution(n)}}
  IN  CASE nodes[n].name = "Return" -> {"return"}
        [] nodes[n].name = "IfThenElse" ->
             (branches \ {"end"}) \union IF "end" \in branches THEN last ELSE {}
        [] OTHER ->
             IF Executions(n) = {} THEN {"end"} ELSE (branches \ {"end"}) \union last

Endings == {"return", "end"}

(* The ends that it must have: from a loop without a way out, none.        *)
EndsOf ==
  LET possible == {ends \in [DOMAIN nodes -> SUBSET Endings] :
                     \A n \in DOMAIN nodes : EndsFrom(ends, n) \subseteq ends[n]}
  IN  [n \in DOMAIN nodes |-> {e \in Endings : \A ends \in possible : e \in ends[n]}]

(* A subroutine with outputs is rejected exactly if there are branches by  *)
(* which it ends without a Return (dsemantic.c:2335, 2369).                *)
ReturnsReported ==
  phase = "done" =>
    \A f \in Range(functions) : MustReturn(f) =>
      ("end" \in EndsOf[f.define] <=> [what |-> "no return", node |-> f.define] \in errors)

(* Looking for loops ends for every graph, and looking for returns for     *)
(* every graph without one.                                                *)
ScanEnds == <>(phase # "loops") /\ (OnLoop = {} => <>(phase = "done"))
=============================================================================
