------------------------- MODULE SemanticGraphProofs -------------------------
(***************************************************************************)
(* The array in which d_semantic_detect_loops keeps a path is long enough, *)
(* for every graph: no node is twice on the path, so that the path has at  *)
(* most as many nodes as the graph.  It reports the loops that a path      *)
(* leads into, and nothing else.  And d_semantic_check_subroutine_returns  *)
(* rejects the subroutines that can end without a Return, and no others.   *)
(***************************************************************************)
EXTENDS SemanticGraph, FunctionTheorems, FiniteSetTheorems, SequenceTheorems, WellFoundedInduction,
        TLAPS

IsGraph == \E g \in Graphs : nodes = g.nodes /\ functions = g.functions

NoneTwice == \A i, j \in DOMAIN path : path[i].node = path[j].node => i = j

PathInv ==
  /\ IsGraph
  /\ at \in Nat \ {0}
  /\ path \in Seq(PathElements)
  /\ NoneTwice

-----------------------------------------------------------------------------
(* What the assumption on the graphs says of the one that is scanned.      *)
LEMMA GraphFacts ==
  ASSUME IsGraph
  PROVE  /\ Len(nodes) \in Nat /\ DOMAIN nodes = 1..Len(nodes)
         /\ \A n \in DOMAIN nodes :
              /\ Len(Outputs(n)) \in Nat /\ DOMAIN Outputs(n) = 1..Len(Outputs(n))
              /\ \A i \in DOMAIN Outputs(n) : Outputs(n)[i].to \in Seq(DOMAIN nodes)
BY GraphsAssumption DEF IsGraph, IsASequence, Outputs

(* Distinct nodes are at most as many as there are.                        *)
LEMMA NoneTwiceFits ==
  ASSUME PathInv
  PROVE  PathFits
<1>1. /\ Len(nodes) \in Nat /\ DOMAIN nodes = 1..Len(nodes)
      /\ Len(path) \in Nat /\ DOMAIN path = 1..Len(path)
  BY GraphFacts DEF PathInv
<1>2. SUFFICES ASSUME Len(nodes) < Len(path)
               PROVE  FALSE
  BY <1>1 DEF PathFits, PathInv
<1> DEFINE nodeAt == [i \in 1..Len(path) |-> path[i].node]
<1>3. nodeAt \in [1..Len(path) -> 1..Len(nodes)]
  <2>1. ASSUME NEW i \in 1..Len(path)
        PROVE  path[i].node \in 1..Len(nodes)
    <3>1. path[i] \in PathElements
      BY <1>1 DEF PathInv
    <3> QED
      BY <1>1, <3>1 DEF PathElements
  <2> QED
    BY <2>1
<1>4. /\ IsFiniteSet(1..Len(path)) /\ Cardinality(1..Len(path)) = Len(path)
      /\ IsFiniteSet(1..Len(nodes)) /\ Cardinality(1..Len(nodes)) = Len(nodes)
  <2>1. ASSUME NEW n \in Nat
        PROVE  IsFiniteSet(1..n) /\ Cardinality(1..n) = n
    <3>1. Cardinality(1..n) = IF 1 > n THEN 0 ELSE n - 1 + 1
      BY FS_Interval
    <3>2. IsFiniteSet(1..n)
      BY FS_Interval
    <3> QED
      BY <3>1, <3>2
  <2> QED
    BY <1>1, <2>1
<1>5. Cardinality(1..Len(nodes)) < Cardinality(1..Len(path))
  BY <1>2, <1>4
<1>6. \E i, j \in 1..Len(path) : i # j /\ nodeAt[i] = nodeAt[j]
  <2> HIDE DEF nodeAt
  <2> QED BY <1>3, <1>4, <1>5, FS_PigeonHole, Zenon
<1> QED
  BY <1>1, <1>6 DEF PathInv, NoneTwice

-----------------------------------------------------------------------------
LEMMA InitPathInv == Init => PathInv
BY DEF Init, PathInv, IsGraph, NoneTwice

LEMMA OnPath ==
  ASSUME PathInv, path # <<>>
  PROVE  /\ Len(path) \in Nat \ {0} /\ Len(path) \in 1..Len(path) /\ DOMAIN path = 1..Len(path)
         /\ \A i \in 1..Len(path) :
              /\ path[i] \in PathElements /\ path[i].node \in DOMAIN nodes
              /\ path[i].output \in Nat \ {0} /\ path[i].wire \in Nat \ {0}
<1>1. path \in Seq(PathElements)
  BY DEF PathInv
<1>2. Len(path) \in Nat \ {0} /\ DOMAIN path = 1..Len(path)
  BY <1>1, EmptySeq, LenProperties
<1>3. \A i \in 1..Len(path) : path[i] \in PathElements
  BY <1>1, ElementOfSeq
<1> QED
  BY <1>2, <1>3 DEF PathElements

LEMMA Appended ==
  ASSUME NEW s \in Seq(PathElements), NEW e \in PathElements, NEW l, Len(s) = l
  PROVE  LET longer == Append(s, e)
         IN  /\ longer \in Seq(PathElements) /\ Len(longer) = l + 1 /\ longer[l + 1] = e
             /\ \A i \in 1..l : longer[i] = s[i]
BY AppendProperties

(* The element of the path that is replaced keeps its node.                *)
LEMMA TopReplaced ==
  ASSUME PathInv, path # <<>>, NEW gone \in PathElements, gone.node = path[Len(path)].node
  PROVE  LET left == [path EXCEPT ![Len(path)] = gone]
         IN  /\ left \in Seq(PathElements) /\ Len(left) = Len(path)
             /\ \A i \in 1..Len(path) : left[i] = IF i = Len(path) THEN gone ELSE path[i]
             /\ \A i \in 1..Len(path) : left[i].node = path[i].node
<1>1. path \in Seq(PathElements) /\ Len(path) \in 1..Len(path)
  BY OnPath DEF PathInv
<1> DEFINE left == [path EXCEPT ![Len(path)] = gone]
<1>2. /\ left \in Seq(PathElements) /\ Len(left) = Len(path)
      /\ \A i \in 1..Len(path) : left[i] = IF i = Len(path) THEN gone ELSE path[i]
  BY <1>1, ExceptSeq
<1> HIDE DEF left
<1>3. \A i \in 1..Len(path) : left[i].node = path[i].node
  BY <1>2
<1> QED
  BY <1>2, <1>3 DEF left

(* What follows a wire: c is the call that does, and t where it leads.     *)
LEMMA FollowWireIs ==
  ASSUME PathInv, FollowWire, NEW l, NEW c, NEW t, l = Len(path), c = path[l],
         t = Outputs(c.node)[c.output].to[c.wire]
  PROVE  /\ l \in Nat \ {0} /\ DOMAIN path = 1..l /\ c \in PathElements
         /\ c.output \in DOMAIN Outputs(c.node) /\ c.wire \in DOMAIN Outputs(c.node)[c.output].to
         /\ t \in DOMAIN nodes /\ path' \in Seq(PathElements)
         /\ \A i \in 1..l : /\ path'[i].node = path[i].node
                            /\ i # l => path'[i] = path[i]
         /\ path'[l].output = c.output /\ path'[l].wire = c.wire + 1
         /\ \/ /\ InPath(t) /\ DOMAIN path' = 1..l
               /\ errors' = errors \union {[what |-> "loop", node |-> t]}
            \/ /\ ~InPath(t) /\ DOMAIN path' = 1..(l + 1) /\ path'[l + 1] = Call(t)
               /\ errors' = errors
<1>1. path # <<>> /\ PathInv /\ IsGraph
  BY DEF FollowWire, Looping, PathInv
<1>2. /\ l \in Nat \ {0} /\ l \in 1..l /\ DOMAIN path = 1..l /\ c \in PathElements
      /\ c.node \in DOMAIN nodes /\ c.output \in Nat \ {0} /\ c.wire \in Nat \ {0}
  BY <1>1, OnPath
<1> DEFINE to   == Outputs(c.node)[c.output].to
           gone == [c EXCEPT !.wire = @ + 1]
           left == [path EXCEPT ![l] = gone]
<1>3. /\ c.output <= Len(Outputs(c.node)) /\ c.wire <= Len(to)
      /\ \/ /\ InPath(t) /\ path' = left
            /\ errors' = errors \union {[what |-> "loop", node |-> t]}
         \/ ~InPath(t) /\ path' = Append(left, Call(t)) /\ errors' = errors
  BY DEF FollowWire
<1>4. c.output \in DOMAIN Outputs(c.node)
  <2>1. PICK m \in Nat : m = Len(Outputs(c.node)) /\ DOMAIN Outputs(c.node) = 1..m
    BY <1>1, <1>2, GraphFacts
  <2>2. c.output <= m
    BY <1>3, <2>1
  <2>3. c.output \in 1..m
    BY <1>2, <2>2
  <2> QED
    BY <2>1, <2>3
<1>5. to \in Seq(DOMAIN nodes)
  BY <1>1, <1>2, <1>4, GraphFacts
<1> HIDE DEF to
<1>6. Len(to) \in Nat /\ DOMAIN to = 1..Len(to)
  BY <1>5, LenProperties
<1>7. c.wire \in DOMAIN to
  <2>1. PICK m \in Nat : m = Len(to) /\ DOMAIN to = 1..m
    BY <1>6
  <2>2. c.wire <= m
    BY <1>3, <2>1
  <2>3. c.wire \in 1..m
    BY <1>2, <2>2
  <2> QED
    BY <2>1, <2>3
<1>8. t \in DOMAIN nodes
  BY <1>5, <1>6, <1>7, ElementOfSeq DEF to
<1>9. /\ gone \in PathElements /\ gone.node = c.node
      /\ gone.output = c.output /\ gone.wire = c.wire + 1
  BY <1>2 DEF PathElements
<1> HIDE DEF gone
<1>10. /\ left \in Seq(PathElements) /\ Len(left) = l
       /\ \A i \in 1..l : left[i] = IF i = l THEN gone ELSE path[i]
       /\ \A i \in 1..l : left[i].node = path[i].node
  BY <1>1, <1>9, TopReplaced
<1> HIDE DEF left
<1>11. Call(t) \in PathElements
  BY <1>8 DEF Call, PathElements
<1>12. CASE InPath(t)
  <2>1. path' = left /\ errors' = errors \union {[what |-> "loop", node |-> t]}
    BY <1>3, <1>12
  <2>2. DOMAIN path' = 1..l
    BY <1>10, <2>1, LenProperties
  <2> QED
    BY <1>2, <1>4, <1>7, <1>8, <1>9, <1>10, <1>12, <2>1, <2>2 DEF to
<1>13. CASE ~InPath(t)
  <2>1. path' = Append(left, Call(t)) /\ errors' = errors
    BY <1>3, <1>13
  <2>2. /\ path' \in Seq(PathElements) /\ Len(path') = l + 1 /\ path'[l + 1] = Call(t)
        /\ \A i \in 1..l : path'[i] = left[i]
    <3>1. left \in Seq(PathElements) /\ Len(left) = l
      BY <1>10
    <3> DEFINE last   == Call(t)
               longer == Append(left, last)
    <3> HIDE DEF last
    <3>2. last \in PathElements
      BY <1>11 DEF last
    <3>3. /\ longer \in Seq(PathElements) /\ Len(longer) = l + 1 /\ longer[l + 1] = last
          /\ \A i \in 1..l : longer[i] = left[i]
      BY <3>1, <3>2, Appended
    <3>4. path' = longer /\ last = Call(t)
      BY <2>1 DEF last
    <3> HIDE DEF longer
    <3> QED
      BY <3>3, <3>4
  <2>3. DOMAIN path' = 1..(l + 1)
    BY <2>2, LenProperties
  <2> QED
    BY <1>2, <1>4, <1>7, <1>8, <1>9, <1>10, <1>13, <2>1, <2>2, <2>3 DEF to
<1> QED
  BY <1>12, <1>13

LEMMA NextOutputIs ==
  ASSUME PathInv, NextOutput, NEW l, NEW c, l = Len(path), c = path[l]
  PROVE  /\ l \in Nat \ {0} /\ DOMAIN path = 1..l /\ c \in PathElements
         /\ path' \in Seq(PathElements) /\ DOMAIN path' = 1..l
         /\ \A i \in 1..l : /\ path'[i].node = path[i].node
                            /\ i # l => path'[i] = path[i]
         /\ path'[l].output = c.output + 1 /\ path'[l].wire = 1
<1>1. path # <<>> /\ PathInv
  BY DEF NextOutput, Looping
<1>2. /\ l \in Nat \ {0} /\ l \in 1..l /\ DOMAIN path = 1..l /\ c \in PathElements
      /\ c.node \in DOMAIN nodes /\ c.output \in Nat \ {0} /\ c.wire \in Nat \ {0}
  BY <1>1, OnPath
<1> DEFINE gone == [node |-> c.node, output |-> c.output + 1, wire |-> 1]
<1>3. path' = [path EXCEPT ![l] = gone]
  BY DEF NextOutput
<1>4. gone \in PathElements /\ gone.node = c.node /\ gone.output = c.output + 1 /\ gone.wire = 1
  BY <1>2 DEF PathElements
<1> HIDE DEF gone
<1>5. /\ path' \in Seq(PathElements) /\ Len(path') = l
      /\ \A i \in 1..l : path'[i] = IF i = l THEN gone ELSE path[i]
      /\ \A i \in 1..l : path'[i].node = path[i].node
  BY <1>1, <1>3, <1>4, TopReplaced
<1>6. DOMAIN path' = 1..l
  BY <1>5, LenProperties
<1> QED
  BY <1>2, <1>4, <1>5, <1>6

LEMMA LeaveNodeIs ==
  ASSUME PathInv, LeaveNode, NEW l, l = Len(path)
  PROVE  /\ l \in Nat \ {0} /\ DOMAIN path = 1..l
         /\ path' \in Seq(PathElements) /\ DOMAIN path' = 1..(l - 1)
         /\ \A i \in 1..(l - 1) : path'[i] = path[i]
         /\ path' = <<>> <=> l = 1
<1>1. path # <<>> /\ PathInv /\ path' = SubSeq(path, 1, l - 1)
  BY DEF LeaveNode, Looping
<1>2. l \in Nat \ {0} /\ DOMAIN path = 1..l /\ \A i \in 1..l : path[i] \in PathElements
  BY <1>1, OnPath
<1>3. PICK m \in Nat : m = l - 1
  BY <1>2
<1>4. /\ path' \in Seq(PathElements)
      /\ Len(path') = IF 1 <= m THEN m - 1 + 1 ELSE 0
      /\ \A i \in 1..(m - 1 + 1) : path'[i] = path[1 + i - 1]
  BY <1>1, <1>2, <1>3, SubSeqProperties
<1>5. Len(path') = m
  BY <1>3, <1>4
<1>6. \A i \in 1..m : path'[i] = path[i]
  <2> TAKE i \in 1..m
  <2>1. m - 1 + 1 = m /\ 1 + i - 1 = i
    BY <1>3
  <2> QED
    BY <1>4, <2>1
<1>7. DOMAIN path' = 1..m
  BY <1>4, <1>5, LenProperties
<1>8. path' = <<>> <=> m = 0
  <2>1. path' # <<>> => Len(path') \in Nat \ {0}
    BY <1>4, EmptySeq
  <2>2. path' = <<>> => Len(path') = 0
    BY EmptySeq
  <2> QED
    BY <1>5, <2>1, <2>2
<1> QED
  BY <1>2, <1>3, <1>4, <1>6, <1>7, <1>8

(* A call is added only for a node that is not on the path.                *)
LEMMA FollowWireStep ==
  ASSUME PathInv, FollowWire
  PROVE  PathInv'
<1>1. PICK l, c, t : l = Len(path) /\ c = path[l] /\ t = Outputs(c.node)[c.output].to[c.wire]
  OBVIOUS
<1>2. /\ l \in Nat \ {0} /\ DOMAIN path = 1..l
      /\ path' \in Seq(PathElements)
      /\ \A i \in 1..l : path'[i].node = path[i].node
      /\ \/ DOMAIN path' = 1..l
         \/ ~InPath(t) /\ DOMAIN path' = 1..(l + 1) /\ path'[l + 1] = Call(t)
  BY <1>1, FollowWireIs
<1>3. PathElements' = PathElements /\ IsGraph' /\ at' \in Nat \ {0}
  BY DEF FollowWire, PathInv, IsGraph, PathElements
<1>4. ASSUME DOMAIN path' = 1..l
      PROVE  NoneTwice'
  BY <1>2, <1>4 DEF PathInv, NoneTwice
<1>5. ASSUME ~InPath(t) /\ DOMAIN path' = 1..(l + 1) /\ path'[l + 1] = Call(t)
      PROVE  NoneTwice'
  <2>1. \A i \in 1..l : path[i].node # t
    BY <1>2, <1>5 DEF InPath
  <2>2. path'[l + 1].node = t
    BY <1>5 DEF Call
  <2> SUFFICES ASSUME NEW i \in 1..(l + 1), NEW j \in 1..(l + 1), path'[i].node = path'[j].node
               PROVE  i = j
    BY <1>5 DEF NoneTwice
  <2>3. CASE i \in 1..l /\ j \in 1..l
    BY <1>2, <2>3 DEF PathInv, NoneTwice
  <2>4. CASE i = l + 1 \/ j = l + 1
    BY <1>2, <2>1, <2>2, <2>4
  <2> QED
    BY <1>2, <2>3, <2>4
<1>6. NoneTwice'
  BY <1>2, <1>4, <1>5
<1> QED
  BY <1>2, <1>3, <1>6 DEF PathInv

LEMMA NextOutputStep ==
  ASSUME PathInv, NextOutput
  PROVE  PathInv'
<1>1. PICK l, c : l = Len(path) /\ c = path[l]
  OBVIOUS
<1>2. /\ DOMAIN path = 1..l /\ path' \in Seq(PathElements) /\ DOMAIN path' = 1..l
      /\ \A i \in 1..l : path'[i].node = path[i].node
  BY <1>1, NextOutputIs
<1>3. NoneTwice'
  BY <1>2 DEF PathInv, NoneTwice
<1>4. PathElements' = PathElements /\ IsGraph' /\ at' \in Nat \ {0}
  BY DEF NextOutput, PathInv, IsGraph, PathElements
<1> QED
  BY <1>2, <1>3, <1>4 DEF PathInv

LEMMA LeaveNodeStep ==
  ASSUME PathInv, LeaveNode
  PROVE  PathInv'
<1>1. PICK l : l = Len(path)
  OBVIOUS
<1>2. /\ l \in Nat \ {0} /\ DOMAIN path = 1..l
      /\ path' \in Seq(PathElements) /\ DOMAIN path' = 1..(l - 1)
      /\ \A i \in 1..(l - 1) : path'[i] = path[i]
  BY <1>1, LeaveNodeIs
<1>3. NoneTwice'
  BY <1>2 DEF PathInv, NoneTwice
<1>4. PathElements' = PathElements /\ IsGraph' /\ at' \in Nat \ {0}
  BY DEF LeaveNode, PathInv, IsGraph, PathElements
<1> QED
  BY <1>2, <1>3, <1>4 DEF PathInv

(* Every other step leaves the path alone or begins one.                   *)
LEMMA StepPathInv == PathInv /\ [Next]_vars => PathInv'
<1> SUFFICES ASSUME PathInv, [Next]_vars
             PROVE  PathInv'
  OBVIOUS
<1>1. CASE BeginPath
  <2>1. Call(at) \in PathElements
    BY <1>1, GraphFacts DEF PathInv, BeginPath, Call, PathElements
  <2> QED
    BY <1>1, <2>1 DEF PathInv, BeginPath, NoneTwice, IsGraph, PathElements
<1>2. CASE SkipNode
  BY <1>2 DEF PathInv, SkipNode, NoneTwice, IsGraph, PathElements
<1>3. CASE FollowWire
  BY <1>3, FollowWireStep
<1>4. CASE NextOutput
  BY <1>4, NextOutputStep
<1>5. CASE LeaveNode
  BY <1>5, LeaveNodeStep
<1>6. CASE LoopsDone
  BY <1>6 DEF PathInv, LoopsDone, NoneTwice, IsGraph, PathElements
<1>7. CASE CheckReturns
  <2>1. /\ path' = path /\ nodes' = nodes /\ functions' = functions
        /\ at' \in {at, at + 1}
    BY <1>7 DEF CheckReturns, BeginFunction, SkipFunction, LookBehind, GiveResult, ReturnsDone
  <2> QED
    BY <2>1 DEF PathInv, NoneTwice, IsGraph, PathElements
<1>8. CASE UNCHANGED vars
  BY <1>8 DEF PathInv, NoneTwice, IsGraph, PathElements, vars
<1> QED
  BY <1>1, <1>2, <1>3, <1>4, <1>5, <1>6, <1>7, <1>8 DEF Next, DetectLoops

-----------------------------------------------------------------------------
(* check_loop never writes behind the array of the path, for every graph   *)
(* and wherever its loops are (dsemantic.c:2190, 2247).                    *)
THEOREM PathAlwaysFits == Spec => []PathFits
<1>1. Spec => []PathInv
  BY InitPathInv, StepPathInv, PTL DEF Spec
<1>2. PathInv => PathFits
  BY NoneTwiceFits
<1> QED
  BY <1>1, <1>2, PTL

-----------------------------------------------------------------------------
(***************************************************************************)
(* Behind[n] is what wires lead to from n.                                 *)
(***************************************************************************)
LEMMA StepsAre ==
  ASSUME IsGraph, NEW n \in DOMAIN nodes
  PROVE  /\ Steps[n] \subseteq DOMAIN nodes
         /\ \A o \in DOMAIN Outputs(n) : \A w \in DOMAIN Outputs(n)[o].to :
              Outputs(n)[o].to[w] \in Steps[n]
         /\ \A m \in Steps[n] : \E o \in DOMAIN Outputs(n) : \E w \in DOMAIN Outputs(n)[o].to :
              m = Outputs(n)[o].to[w]
<1>1. Steps[n] = UNION {Range(o.to) : o \in Range(Outputs(n))}
  BY DEF Steps
<1>2. \A o \in DOMAIN Outputs(n) : \A w \in DOMAIN Outputs(n)[o].to :
        Outputs(n)[o].to[w] \in Steps[n]
  BY <1>1 DEF Range
<1>3. \A m \in Steps[n] : \E o \in DOMAIN Outputs(n) : \E w \in DOMAIN Outputs(n)[o].to :
        m = Outputs(n)[o].to[w]
  BY <1>1 DEF Range
<1>4. ASSUME NEW o \in DOMAIN Outputs(n), NEW w \in DOMAIN Outputs(n)[o].to
      PROVE  Outputs(n)[o].to[w] \in DOMAIN nodes
  <2>1. Outputs(n)[o].to \in Seq(DOMAIN nodes)
    BY GraphFacts
  <2> QED
    BY <2>1, LenProperties, ElementOfSeq
<1> QED
  BY <1>2, <1>3, <1>4

LEMMA BehindIs ==
  ASSUME IsGraph, NEW n \in DOMAIN nodes
  PROVE  /\ Behind[n] \subseteq DOMAIN nodes /\ Steps[n] \subseteq Behind[n]
         /\ \A m \in Behind[n] : Steps[m] \subseteq Behind[n]
         /\ \A set \in SUBSET DOMAIN nodes :
              Steps[n] \subseteq set /\ Onward(set) => Behind[n] \subseteq set
<1>1. Behind[n] = {m \in DOMAIN nodes :
        \A set \in SUBSET DOMAIN nodes : Steps[n] \subseteq set /\ Onward(set) => m \in set}
  BY DEF Behind
<1>2. Steps[n] \subseteq DOMAIN nodes
  BY StepsAre
<1>3. ASSUME NEW m \in Behind[n], NEW k \in Steps[m]
      PROVE  k \in Behind[n]
  <2>1. m \in DOMAIN nodes
    BY <1>1
  <2>2. k \in DOMAIN nodes
    BY <2>1, StepsAre
  <2>3. ASSUME NEW set \in SUBSET DOMAIN nodes, Steps[n] \subseteq set, Onward(set)
        PROVE  k \in set
    <3>1. m \in set
      BY <1>1, <2>3
    <3> QED
      BY <2>3, <3>1 DEF Onward
  <2> QED
    BY <1>1, <2>2, <2>3
<1> QED
  BY <1>1, <1>2, <1>3

LEMMA BehindTransitive ==
  ASSUME IsGraph, NEW n \in DOMAIN nodes, NEW m \in Behind[n]
  PROVE  m \in DOMAIN nodes /\ Behind[m] \subseteq Behind[n]
<1>1. m \in DOMAIN nodes /\ Behind[n] \in SUBSET DOMAIN nodes
  BY BehindIs
<1>2. Steps[m] \subseteq Behind[n] /\ Onward(Behind[n])
  BY BehindIs DEF Onward
<1> QED
  BY <1>1, <1>2, BehindIs

(* What is behind a node begins with a step.                               *)
Reach(n) == {n} \union Behind[n]

LEMMA BehindParts ==
  ASSUME IsGraph, NEW n \in DOMAIN nodes, NEW m \in Behind[n]
  PROVE  \E s \in Steps[n] : m \in Reach(s)
<1> DEFINE set == UNION {Reach(s) : s \in Steps[n]}
<1>1. Steps[n] \subseteq DOMAIN nodes /\ Steps[n] \subseteq set
  BY StepsAre DEF Reach
<1>2. \A s \in Steps[n] : Reach(s) \subseteq DOMAIN nodes
  BY <1>1, BehindIs DEF Reach
<1>3. Onward(set)
  <2> SUFFICES ASSUME NEW s \in Steps[n], NEW k \in Reach(s)
               PROVE  Steps[k] \subseteq set
    BY DEF Onward
  <2>1. Steps[k] \subseteq Reach(s)
    BY <1>1, BehindIs DEF Reach
  <2> QED
    BY <2>1
<1>4. Behind[n] \subseteq set
  BY <1>1, <1>2, <1>3, BehindIs
<1> QED
  BY <1>4

(* What is looked at: what wires lead to from a node without inputs.      *)
Reached == UNION {Reach(n) : n \in {m \in DOMAIN nodes : NoInputs(m)}}

(* The nodes from which no loop can be reached.                            *)
Clear == {n \in DOMAIN nodes : Reach(n) \intersect OnLoop = {}}

LEMMA ClearNode ==
  ASSUME IsGraph, NEW n \in DOMAIN nodes, Steps[n] \subseteq Clear
  PROVE  n \in Clear
<1>1. ASSUME NEW m \in Behind[n]
      PROVE  m \notin OnLoop
  BY <1>1, BehindParts DEF Clear
<1>2. n \notin OnLoop
  BY <1>1 DEF OnLoop
<1> QED
  BY <1>1, <1>2 DEF Clear, Reach

LEMMA GraphStays ==
  ASSUME nodes' = nodes, functions' = functions
  PROVE  /\ IsGraph' = IsGraph
         /\ Steps' = Steps /\ Behind' = Behind /\ OnLoop' = OnLoop
         /\ Clear' = Clear /\ Reached' = Reached
         /\ \A n : Outputs(n)' = Outputs(n) /\ NoInputs(n)' = NoInputs(n)
<1>1. \A n : Outputs(n)' = Outputs(n) /\ NoInputs(n)' = NoInputs(n)
  BY DEF Outputs, NoInputs
<1>2. Steps' = Steps
  BY <1>1 DEF Steps
<1>3. Behind' = Behind
  BY <1>2 DEF Behind, Onward
<1>4. OnLoop' = OnLoop
  BY <1>3 DEF OnLoop
<1>5. Clear' = Clear
  BY <1>3, <1>4 DEF Reach, Clear
<1>6. Reached' = Reached
  BY <1>1, <1>3 DEF Reach, Reached
<1> QED
  BY <1>1, <1>2, <1>3, <1>4, <1>5, <1>6 DEF IsGraph

-----------------------------------------------------------------------------
(***************************************************************************)
(* What holds while check_loop runs.  Every node of the path is behind     *)
(* those before it.  As long as no loop was reported, none can be reached  *)
(* from the nodes the loop has dealt with, nor over a wire that has been   *)
(* followed, unless the path goes on over it.                              *)
(***************************************************************************)
Chained == \A i, j \in DOMAIN path : i < j => path[j].node \in Behind[path[i].node]

BeginsAt ==
  path # <<>> => at \in DOMAIN nodes /\ NoInputs(at) /\ path[1].node = at

Found == {e.node : e \in {d \in errors : d.what = "loop"}}

DealtWith == \A n \in DOMAIN nodes : n < at /\ NoInputs(n) => n \in Clear

Passed(call, o, w) == o < call.output \/ (o = call.output /\ w < call.wire)

GoesOnTo(i, n) == i + 1 \in DOMAIN path /\ path[i + 1].node = n

Followed(i) ==
  \A o \in DOMAIN Outputs(path[i].node) :
    \A w \in DOMAIN Outputs(path[i].node)[o].to :
      Passed(path[i], o, w) =>
        \/ Outputs(path[i].node)[o].to[w] \in Clear
        \/ GoesOnTo(i, Outputs(path[i].node)[o].to[w])

LoopInv ==
  /\ PathInv
  /\ Found \subseteq OnLoop \intersect Reached
  /\ phase = "loops" =>
       /\ calls = <<>> /\ Chained /\ BeginsAt
       /\ Found = {} => DealtWith /\ \A i \in DOMAIN path : Followed(i)
  /\ phase # "loops" => path = <<>> /\ (Found = {} => OnLoop \intersect Reached = {})

LEMMA InitLoopInv == Init => LoopInv
<1> SUFFICES ASSUME Init
             PROVE  LoopInv
  OBVIOUS
<1>1. PathInv /\ DOMAIN path = {} /\ Found = {}
  BY InitPathInv DEF Init, Found
<1>2. DealtWith
  BY <1>1, GraphFacts DEF PathInv, Init, DealtWith
<1> QED
  BY <1>1, <1>2 DEF LoopInv, Init, Chained, BeginsAt

(* No loop was reported, and all that can be reached was dealt with.       *)
LEMMA DealtWithAll ==
  ASSUME IsGraph, DealtWith, at > Len(nodes), at \in Nat
  PROVE  OnLoop \intersect Reached = {}
<1>1. \A n \in DOMAIN nodes : n < at
  BY GraphFacts
<1>2. \A n \in DOMAIN nodes : NoInputs(n) => Reach(n) \intersect OnLoop = {}
  BY <1>1 DEF DealtWith, Clear
<1> QED
  BY <1>2 DEF Reached

LEMMA LoopInvReports ==
  ASSUME LoopInv
  PROVE  LoopsReported
<1>1. Reached = UNION {Behind[n] \union {n} : n \in {m \in DOMAIN nodes : ~nodes[m].hasInputs}}
  BY DEF Reached, Reach, NoInputs
<1> QED
  BY <1>1 DEF LoopInv, LoopsReported, Found

LEMMA OutputIndices ==
  ASSUME IsGraph, NEW n \in DOMAIN nodes, NEW o \in DOMAIN Outputs(n),
         NEW w \in DOMAIN Outputs(n)[o].to
  PROVE  o \in Nat \ {0} /\ w \in Nat \ {0} /\ Outputs(n)[o].to[w] \in Steps[n]
<1>1. DOMAIN Outputs(n) = 1..Len(Outputs(n)) /\ Len(Outputs(n)) \in Nat
  BY GraphFacts
<1>2. Outputs(n)[o].to \in Seq(DOMAIN nodes)
  BY GraphFacts
<1>3. DOMAIN Outputs(n)[o].to = 1..Len(Outputs(n)[o].to) /\ Len(Outputs(n)[o].to) \in Nat
  BY <1>2, LenProperties
<1> QED
  BY <1>1, <1>3, StepsAre

(* What is to show of an element of the path after a step.                 *)
LEMMA FollowedThen ==
  ASSUME nodes' = nodes, functions' = functions, NEW i, NEW n, n = path'[i].node,
         \A o \in DOMAIN Outputs(n) : \A w \in DOMAIN Outputs(n)[o].to :
           Passed(path'[i], o, w) =>
             \/ Outputs(n)[o].to[w] \in Clear
             \/ i + 1 \in DOMAIN path' /\ path'[i + 1].node = Outputs(n)[o].to[w]
  PROVE  Followed(i)'
<1>1. Clear' = Clear /\ Outputs(n)' = Outputs(n)
  BY GraphStays
<1>2. Outputs(path[i].node)' = Outputs(n)
  BY DEF Outputs
<1> QED
  BY <1>1, <1>2 DEF Followed, Passed, GoesOnTo

(* The wire leads to a node behind every node of the path; it is on the    *)
(* path, which is a loop, or the path goes on with it.                     *)
LEMMA FollowWireLoop ==
  ASSUME LoopInv, FollowWire
  PROVE  LoopInv'
<1>1. PICK l, c, t : l = Len(path) /\ c = path[l] /\ t = Outputs(c.node)[c.output].to[c.wire]
  OBVIOUS
<1>2. PathInv /\ phase = "loops" /\ path # <<>> /\ IsGraph
  BY DEF LoopInv, FollowWire, Looping, PathInv
<1>3. /\ l \in Nat \ {0} /\ DOMAIN path = 1..l /\ c \in PathElements
      /\ c.output \in DOMAIN Outputs(c.node) /\ c.wire \in DOMAIN Outputs(c.node)[c.output].to
      /\ t \in DOMAIN nodes
  BY <1>1, <1>2, FollowWireIs
<1>4. /\ \A i \in 1..l : /\ path'[i].node = path[i].node
                         /\ i # l => path'[i] = path[i]
      /\ path'[l].output = c.output /\ path'[l].wire = c.wire + 1
  BY <1>1, <1>2, FollowWireIs
<1>5. \/ /\ InPath(t) /\ DOMAIN path' = 1..l
         /\ errors' = errors \union {[what |-> "loop", node |-> t]}
      \/ /\ ~InPath(t) /\ DOMAIN path' = 1..(l + 1) /\ path'[l + 1] = Call(t)
         /\ errors' = errors
  BY <1>1, <1>2, FollowWireIs
<1>6. /\ nodes' = nodes /\ functions' = functions /\ phase' = phase /\ at' = at /\ calls' = calls
  BY DEF FollowWire
<1>7. PathInv' /\ IsGraph'
  BY <1>2, FollowWireStep DEF PathInv
<1>8. /\ Behind' = Behind /\ OnLoop' = OnLoop /\ Clear' = Clear /\ Reached' = Reached
      /\ \A n : Outputs(n)' = Outputs(n) /\ NoInputs(n)' = NoInputs(n)
  BY <1>6, GraphStays
<1>9. \A i \in 1..l : path[i].node \in DOMAIN nodes
  BY <1>1, <1>2, OnPath
<1>10. \A i \in 1..l : t \in Behind[path[i].node]
  <2>1. c.node \in DOMAIN nodes
    BY <1>1, <1>3, <1>9
  <2>2. t \in Steps[c.node]
    BY <1>1, <1>2, <1>3, <2>1, StepsAre
  <2> TAKE i \in 1..l
  <2>3. path[i].node \in DOMAIN nodes
    BY <1>9
  <2>4. CASE i = l
    BY <1>1, <1>2, <2>1, <2>2, <2>4, BehindIs
  <2>5. CASE i < l
    <3>1. c.node \in Behind[path[i].node]
      BY <1>1, <1>2, <1>3, <2>5 DEF LoopInv, Chained
    <3> QED
      BY <1>2, <2>2, <2>3, <3>1, BehindIs
  <2> QED
    BY <1>3, <2>4, <2>5
<1>11. /\ at \in DOMAIN nodes /\ NoInputs(at) /\ path[1].node = at
  BY <1>2 DEF LoopInv, BeginsAt
<1>12. t \in Reached
  BY <1>3, <1>10, <1>11 DEF Reached, Reach
<1>13. BeginsAt'
  BY <1>3, <1>4, <1>6, <1>8, <1>11 DEF BeginsAt
<1>14. CASE InPath(t) /\ DOMAIN path' = 1..l
            /\ errors' = errors \union {[what |-> "loop", node |-> t]}
  <2>1. Found' = Found \union {t}
    <3> DEFINE r == [what |-> "loop", node |-> t]
    <3>1. r.what = "loop" /\ r.node = t /\ errors' = errors \union {r}
      BY <1>14
    <3> HIDE DEF r
    <3>2. Found' \subseteq Found \union {t}
      BY <3>1 DEF Found
    <3>3. Found \subseteq Found'
      BY <3>1 DEF Found
    <3>4. t \in Found'
      BY <3>1 DEF Found
    <3> QED
      BY <3>2, <3>3, <3>4
  <2>2. PICK i \in 1..l : path[i].node = t
    BY <1>3, <1>14 DEF InPath
  <2>3. t \in OnLoop
    BY <1>3, <1>10, <2>2 DEF OnLoop
  <2>4. Found' \subseteq OnLoop' \intersect Reached' /\ Found' # {}
    BY <1>8, <1>12, <2>1, <2>3 DEF LoopInv
  <2>5. Chained'
    <3>1. \A j, k \in 1..l : j < k => path[k].node \in Behind[path[j].node]
      BY <1>2, <1>3 DEF LoopInv, Chained
    <3> QED
      BY <1>4, <1>8, <1>14, <3>1 DEF Chained
  <2> QED
    BY <1>2, <1>6, <1>7, <1>13, <2>4, <2>5 DEF LoopInv
<1>15. CASE ~InPath(t) /\ DOMAIN path' = 1..(l + 1) /\ path'[l + 1] = Call(t) /\ errors' = errors
  <2>1. Found' = Found
    BY <1>15 DEF Found
  <2>2. Found' \subseteq OnLoop' \intersect Reached'
    BY <1>8, <2>1 DEF LoopInv
  <2>3. path'[l + 1].node = t /\ path'[l + 1].output = 1 /\ path'[l + 1].wire = 1
    BY <1>15 DEF Call
  <2>4. Chained'
    <3> SUFFICES ASSUME NEW j \in 1..(l + 1), NEW k \in 1..(l + 1), j < k
                 PROVE  path'[k].node \in Behind'[path'[j].node]
      BY <1>15 DEF Chained
    <3>1. CASE k = l + 1
      <4>1. j \in 1..l
        BY <1>3, <3>1
      <4> QED
        BY <1>4, <1>8, <1>10, <2>3, <3>1, <4>1
    <3>2. CASE k # l + 1
      <4>1. j \in 1..l /\ k \in 1..l
        BY <1>3, <3>2
      <4>2. path[k].node \in Behind[path[j].node]
        BY <1>2, <1>3, <4>1 DEF LoopInv, Chained
      <4> QED
        BY <1>4, <1>8, <4>1, <4>2
    <3> QED
      BY <3>1, <3>2
  <2>5. ASSUME Found' = {}
        PROVE  DealtWith'
    BY <1>2, <1>6, <1>8, <2>1, <2>5 DEF LoopInv, DealtWith
  <2>6. ASSUME Found' = {}, NEW i \in 1..(l + 1)
        PROVE  Followed(i)'
    <3>1. \A k \in 1..l : Followed(k)
      BY <1>2, <1>3, <2>1, <2>6 DEF LoopInv
    <3>2. CASE i = l + 1
      <4>1. ASSUME NEW o \in DOMAIN Outputs(t), NEW w \in DOMAIN Outputs(t)[o].to
            PROVE  ~Passed(path'[i], o, w)
        <5>1. o \in Nat \ {0} /\ w \in Nat \ {0}
          BY <1>2, <1>3, <4>1, OutputIndices
        <5> QED
          BY <2>3, <3>2, <5>1 DEF Passed
      <4>2. t = path'[i].node
        BY <2>3, <3>2
      <4> QED
        BY <1>6, <4>1, <4>2, FollowedThen
    <3>3. CASE i \in 1..l
      <4>1. PICK n : n = path[i].node
        OBVIOUS
      <4>2. n = path'[i].node /\ n \in DOMAIN nodes
        BY <1>4, <1>9, <3>3, <4>1
      <4>3. ASSUME NEW o \in DOMAIN Outputs(n), NEW w \in DOMAIN Outputs(n)[o].to,
                   Passed(path'[i], o, w)
            PROVE  \/ Outputs(n)[o].to[w] \in Clear
                   \/ i + 1 \in DOMAIN path' /\ path'[i + 1].node = Outputs(n)[o].to[w]
        <5>1. CASE Passed(path[i], o, w)
          <6>1. \/ Outputs(n)[o].to[w] \in Clear
                \/ i + 1 \in 1..l /\ path[i + 1].node = Outputs(n)[o].to[w]
            BY <1>3, <3>1, <3>3, <4>1, <4>3, <5>1 DEF Followed, GoesOnTo
          <6>2. ASSUME i + 1 \in 1..l
                PROVE  i + 1 \in 1..(l + 1) /\ path'[i + 1].node = path[i + 1].node
            BY <1>3, <1>4, <6>2
          <6> QED
            BY <1>15, <6>1, <6>2
        <5>2. CASE ~Passed(path[i], o, w)
          <6>1. i = l
            BY <1>4, <3>3, <4>3, <5>2
          <6>2. o \in Nat /\ w \in Nat /\ c.output \in Nat /\ c.wire \in Nat
            BY <1>2, <1>3, <4>2, <4>3, OutputIndices DEF PathElements
          <6>3. Passed(path'[l], o, w) /\ ~Passed(c, o, w)
            BY <1>1, <4>3, <5>2, <6>1
          <6>4. o = c.output /\ w = c.wire
            BY <1>4, <6>2, <6>3 DEF Passed
          <6>5. Outputs(n)[o].to[w] = t
            BY <1>1, <4>1, <6>1, <6>4
          <6>6. i + 1 \in 1..(l + 1) /\ i + 1 = l + 1
            BY <1>3, <6>1
          <6> QED
            BY <1>15, <2>3, <6>5, <6>6
        <5> QED
          BY <5>1, <5>2
      <4> QED
        BY <1>6, <4>2, <4>3, FollowedThen
    <3> QED
      BY <1>3, <3>2, <3>3
  <2> QED
    BY <1>2, <1>6, <1>7, <1>13, <1>15, <2>2, <2>4, <2>5, <2>6 DEF LoopInv
<1> QED
  BY <1>5, <1>14, <1>15

(* The wires of the output are all followed.                               *)
LEMMA NextOutputLoop ==
  ASSUME LoopInv, NextOutput
  PROVE  LoopInv'
<1>1. PICK l, c : l = Len(path) /\ c = path[l]
  OBVIOUS
<1>2. PathInv /\ phase = "loops" /\ path # <<>> /\ IsGraph
  BY DEF LoopInv, NextOutput, Looping, PathInv
<1>3. /\ l \in Nat \ {0} /\ DOMAIN path = 1..l /\ c \in PathElements /\ DOMAIN path' = 1..l
      /\ \A i \in 1..l : /\ path'[i].node = path[i].node
                         /\ i # l => path'[i] = path[i]
      /\ path'[l].output = c.output + 1 /\ path'[l].wire = 1
  BY <1>1, <1>2, NextOutputIs
<1>4. /\ nodes' = nodes /\ functions' = functions /\ phase' = phase /\ at' = at
      /\ calls' = calls /\ errors' = errors
      /\ c.wire > Len(Outputs(c.node)[c.output].to)
  BY <1>1 DEF NextOutput
<1>5. PathInv'
  BY <1>2, NextOutputStep
<1>6. /\ Behind' = Behind /\ OnLoop' = OnLoop /\ Clear' = Clear /\ Reached' = Reached
      /\ \A n : NoInputs(n)' = NoInputs(n)
  BY <1>4, GraphStays
<1>7. Found' = Found
  BY <1>4 DEF Found
<1>8. Chained'
  BY <1>2, <1>3, <1>6 DEF LoopInv, Chained
<1>9. BeginsAt'
  <2>1. at \in DOMAIN nodes /\ NoInputs(at) /\ path[1].node = at
    BY <1>2 DEF LoopInv, BeginsAt
  <2> QED
    BY <1>3, <1>4, <1>6, <2>1 DEF BeginsAt
<1>10. ASSUME Found' = {}
       PROVE  DealtWith'
  BY <1>2, <1>4, <1>6, <1>7, <1>10 DEF LoopInv, DealtWith
<1>11. ASSUME Found' = {}, NEW i \in 1..l
       PROVE  Followed(i)'
  <2>1. Followed(i)
    BY <1>2, <1>3, <1>7, <1>11 DEF LoopInv
  <2>2. PICK n : n = path[i].node
    OBVIOUS
  <2>3. n = path'[i].node /\ n \in DOMAIN nodes
    BY <1>1, <1>2, <1>3, <1>11, <2>2, OnPath
  <2>4. ASSUME NEW o \in DOMAIN Outputs(n), NEW w \in DOMAIN Outputs(n)[o].to,
               Passed(path'[i], o, w)
        PROVE  Passed(path[i], o, w)
    <3>1. CASE i # l
      BY <1>3, <2>4, <3>1
    <3>2. CASE i = l
      <4>1. o \in Nat \ {0} /\ w \in Nat \ {0} /\ c.output \in Nat /\ c.wire \in Nat
        BY <1>2, <1>3, <2>3, <2>4, OutputIndices DEF PathElements
      <4>2. o < c.output + 1 \/ (o = c.output + 1 /\ w < 1)
        BY <1>3, <2>4, <3>2 DEF Passed
      <4>3. ASSUME o = c.output
            PROVE  w < c.wire
        <5>1. Outputs(n)[o].to \in Seq(DOMAIN nodes)
          BY <1>2, <2>3, <2>4, GraphFacts
        <5>2. PICK k \in Nat : k = Len(Outputs(n)[o].to) /\ DOMAIN Outputs(n)[o].to = 1..k
          BY <5>1, LenProperties
        <5>3. c.wire > k
          BY <1>1, <1>4, <2>2, <3>2, <4>3, <5>2
        <5>4. w \in 1..k
          BY <2>4, <5>2
        <5> QED
          BY <4>1, <5>3, <5>4
      <4>4. o < c.output \/ (o = c.output /\ w < c.wire)
        BY <4>1, <4>2, <4>3
      <4> QED
        BY <1>1, <3>2, <4>4 DEF Passed
    <3> QED
      BY <3>1, <3>2
  <2>5. ASSUME NEW o \in DOMAIN Outputs(n), NEW w \in DOMAIN Outputs(n)[o].to,
               Passed(path'[i], o, w)
        PROVE  \/ Outputs(n)[o].to[w] \in Clear
               \/ i + 1 \in DOMAIN path' /\ path'[i + 1].node = Outputs(n)[o].to[w]
    <3>1. \/ Outputs(n)[o].to[w] \in Clear
          \/ i + 1 \in 1..l /\ path[i + 1].node = Outputs(n)[o].to[w]
      BY <1>3, <2>1, <2>2, <2>4, <2>5 DEF Followed, GoesOnTo
    <3> QED
      BY <1>3, <3>1
  <2> QED
    BY <1>4, <2>3, <2>5, FollowedThen
<1> QED
  BY <1>2, <1>3, <1>4, <1>5, <1>6, <1>7, <1>8, <1>9, <1>10, <1>11 DEF LoopInv

(* A node is left with all its wires followed: if none led to a loop, the  *)
(* node before it, or the loop over the nodes, has followed one more.      *)
LEMMA LeaveNodeLoop ==
  ASSUME LoopInv, LeaveNode
  PROVE  LoopInv'
<1>1. PICK l, c : l = Len(path) /\ c = path[l]
  OBVIOUS
<1>2. PathInv /\ phase = "loops" /\ path # <<>> /\ IsGraph /\ at \in Nat
  BY DEF LoopInv, LeaveNode, Looping, PathInv
<1>3. /\ l \in Nat \ {0} /\ DOMAIN path = 1..l /\ DOMAIN path' = 1..(l - 1)
      /\ \A i \in 1..(l - 1) : path'[i] = path[i]
      /\ path' = <<>> <=> l = 1
  BY <1>1, <1>2, LeaveNodeIs
<1>4. /\ nodes' = nodes /\ functions' = functions /\ phase' = phase
      /\ at' = IF l = 1 THEN at + 1 ELSE at
      /\ calls' = calls /\ errors' = errors
      /\ c.output > Len(Outputs(c.node))
  BY <1>1 DEF LeaveNode
<1>5. PathInv'
  BY <1>2, LeaveNodeStep
<1>6. /\ Behind' = Behind /\ OnLoop' = OnLoop /\ Clear' = Clear /\ Reached' = Reached
      /\ \A n : NoInputs(n)' = NoInputs(n)
  BY <1>4, GraphStays
<1>7. Found' = Found
  BY <1>4 DEF Found
<1>8. \A i \in 1..(l - 1) : i \in 1..l
  BY <1>3
<1>9. Chained'
  BY <1>2, <1>3, <1>6, <1>8 DEF LoopInv, Chained
<1>10. at \in DOMAIN nodes /\ NoInputs(at) /\ path[1].node = at
  BY <1>2 DEF LoopInv, BeginsAt
<1>11. BeginsAt'
  <2>1. CASE l = 1
    BY <1>3, <2>1 DEF BeginsAt
  <2>2. CASE l # 1
    <3>1. path'[1] = path[1]
      BY <1>3, <2>2
    <3> QED
      BY <1>4, <1>6, <1>10, <2>2, <3>1 DEF BeginsAt
  <2> QED
    BY <2>1, <2>2
<1>12. c.node \in DOMAIN nodes /\ c.output \in Nat /\ c.wire \in Nat
  BY <1>1, <1>2, OnPath
<1>13. ASSUME Found = {}
       PROVE  c.node \in Clear
  <2>1. Followed(l)
    BY <1>2, <1>3, <1>13 DEF LoopInv
  <2>2. ~(l + 1 \in DOMAIN path)
    BY <1>3
  <2>3. ASSUME NEW s \in Steps[c.node]
        PROVE  s \in Clear
    <3>1. PICK o \in DOMAIN Outputs(c.node) :
            \E w \in DOMAIN Outputs(c.node)[o].to : s = Outputs(c.node)[o].to[w]
      BY <1>2, <1>12, <2>3, StepsAre
    <3>2. PICK m \in Nat : m = Len(Outputs(c.node)) /\ DOMAIN Outputs(c.node) = 1..m
      BY <1>2, <1>12, GraphFacts
    <3>3. c.output > m
      BY <1>4, <3>2
    <3>4. o < c.output
      BY <1>12, <3>1, <3>2, <3>3
    <3> QED
      BY <1>1, <2>1, <2>2, <3>1, <3>4 DEF Followed, GoesOnTo, Passed
  <2> QED
    BY <1>2, <1>12, <2>3, ClearNode
<1>14. ASSUME Found' = {}
       PROVE  DealtWith'
  <2>1. DealtWith /\ c.node \in Clear
    BY <1>2, <1>7, <1>13, <1>14 DEF LoopInv
  <2>2. CASE l = 1
    <3>1. at \in Clear
      BY <1>1, <1>10, <2>1, <2>2
    <3>2. ASSUME NEW n \in DOMAIN nodes, n < at + 1, NoInputs(n)
          PROVE  n \in Clear
      <4>1. n \in Nat
        BY <1>2, GraphFacts
      <4>2. n < at \/ n = at
        BY <1>2, <3>2, <4>1
      <4> QED
        BY <2>1, <3>1, <3>2, <4>2 DEF DealtWith
    <3> QED
      BY <1>4, <1>6, <2>2, <3>2 DEF DealtWith
  <2>3. CASE l # 1
    BY <1>4, <1>6, <2>1, <2>3 DEF DealtWith
  <2> QED
    BY <2>2, <2>3
<1>15. ASSUME Found' = {}, NEW i \in 1..(l - 1)
       PROVE  Followed(i)'
  <2>1. Followed(i) /\ c.node \in Clear
    BY <1>2, <1>3, <1>7, <1>8, <1>13, <1>15 DEF LoopInv
  <2>2. PICK n : n = path[i].node
    OBVIOUS
  <2>3. n = path'[i].node /\ path'[i] = path[i]
    BY <1>3, <1>15, <2>2
  <2>4. ASSUME NEW o \in DOMAIN Outputs(n), NEW w \in DOMAIN Outputs(n)[o].to,
               Passed(path'[i], o, w)
        PROVE  \/ Outputs(n)[o].to[w] \in Clear
               \/ i + 1 \in DOMAIN path' /\ path'[i + 1].node = Outputs(n)[o].to[w]
    <3>1. \/ Outputs(n)[o].to[w] \in Clear
          \/ i + 1 \in 1..l /\ path[i + 1].node = Outputs(n)[o].to[w]
      BY <1>3, <2>1, <2>2, <2>3, <2>4 DEF Followed, GoesOnTo
    <3>2. CASE i + 1 = l
      BY <1>1, <2>1, <3>1, <3>2
    <3>3. CASE i + 1 # l
      <4>1. i + 1 \in 1..(l - 1)
        BY <1>3, <1>15, <3>3
      <4> QED
        BY <1>3, <3>1, <4>1
    <3> QED
      BY <3>2, <3>3
  <2> QED
    BY <1>4, <2>3, <2>4, FollowedThen
<1> QED
  BY <1>2, <1>3, <1>4, <1>5, <1>6, <1>7, <1>9, <1>11, <1>14, <1>15 DEF LoopInv

(* A path begins with a node whose wires are all still to follow.          *)
LEMMA BeginPathLoop ==
  ASSUME LoopInv, BeginPath
  PROVE  LoopInv'
<1>1. PathInv /\ IsGraph /\ phase = "loops" /\ at \in DOMAIN nodes /\ NoInputs(at)
  BY GraphFacts DEF LoopInv, PathInv, BeginPath
<1>2. /\ nodes' = nodes /\ functions' = functions /\ phase' = phase /\ at' = at
      /\ calls' = calls /\ errors' = errors /\ path' = <<Call(at)>>
  BY DEF BeginPath
<1>3. PathInv'
  BY <1>1, StepPathInv DEF Next, DetectLoops
<1>4. /\ OnLoop' = OnLoop /\ Clear' = Clear /\ Reached' = Reached
      /\ \A n : NoInputs(n)' = NoInputs(n)
  BY <1>2, GraphStays
<1>5. /\ DOMAIN path' = {1} /\ path'[1].node = at /\ path'[1].output = 1 /\ path'[1].wire = 1
  BY <1>2 DEF Call
<1>6. Found' = Found
  BY <1>2 DEF Found
<1>7. Chained' /\ BeginsAt'
  BY <1>1, <1>2, <1>4, <1>5 DEF Chained, BeginsAt
<1>8. Followed(1)'
  <2>1. ASSUME NEW o \in DOMAIN Outputs(at), NEW w \in DOMAIN Outputs(at)[o].to
        PROVE  ~Passed(path'[1], o, w)
    BY <1>1, <1>5, <2>1, OutputIndices DEF Passed
  <2> QED
    BY <1>2, <1>5, <2>1, FollowedThen
<1>9. ASSUME Found' = {}
      PROVE  DealtWith'
  BY <1>1, <1>2, <1>4, <1>6, <1>9 DEF LoopInv, DealtWith
<1> QED
  BY <1>1, <1>2, <1>3, <1>4, <1>5, <1>6, <1>7, <1>8, <1>9 DEF LoopInv

LEMMA SkipNodeLoop ==
  ASSUME LoopInv, SkipNode
  PROVE  LoopInv'
<1>1. PathInv /\ IsGraph /\ phase = "loops" /\ at \in Nat /\ path = <<>>
  BY DEF LoopInv, PathInv, SkipNode
<1>2. /\ nodes' = nodes /\ functions' = functions /\ phase' = phase /\ at' = at + 1
      /\ calls' = calls /\ errors' = errors /\ path' = path /\ ~NoInputs(at)
  BY DEF SkipNode
<1>3. PathInv'
  BY <1>1, StepPathInv DEF Next, DetectLoops
<1>4. /\ OnLoop' = OnLoop /\ Clear' = Clear /\ Reached' = Reached
      /\ \A n : NoInputs(n)' = NoInputs(n)
  BY <1>2, GraphStays
<1>5. Found' = Found /\ DOMAIN path' = {}
  BY <1>1, <1>2 DEF Found
<1>6. Chained' /\ BeginsAt'
  BY <1>1, <1>2, <1>5 DEF Chained, BeginsAt
<1>7. ASSUME Found' = {}
      PROVE  DealtWith'
  <2>1. DealtWith
    BY <1>1, <1>5, <1>7 DEF LoopInv
  <2>2. \A n \in DOMAIN nodes : n < at + 1 => n < at \/ n = at
    BY <1>1, GraphFacts
  <2> QED
    BY <1>2, <1>4, <2>1, <2>2 DEF DealtWith
<1> QED
  BY <1>1, <1>2, <1>3, <1>4, <1>5, <1>6, <1>7 DEF LoopInv

(* Behind the last node, what was found is all there is.                   *)
LEMMA LoopsDoneLoop ==
  ASSUME LoopInv, LoopsDone
  PROVE  LoopInv'
<1>1. PathInv /\ IsGraph /\ phase = "loops" /\ at \in Nat /\ path = <<>> /\ at > Len(nodes)
  BY DEF LoopInv, PathInv, LoopsDone
<1>2. /\ nodes' = nodes /\ functions' = functions /\ phase' = "returns"
      /\ calls' = calls /\ errors' = errors /\ path' = path
  BY DEF LoopsDone, hasErrors
<1>3. PathInv'
  BY <1>1, StepPathInv DEF Next, DetectLoops
<1>4. OnLoop' = OnLoop /\ Reached' = Reached
  BY <1>2, GraphStays
<1>5. Found' = Found
  BY <1>2 DEF Found
<1>6. ASSUME Found = {}
      PROVE  OnLoop \intersect Reached = {}
  BY <1>1, <1>6, DealtWithAll DEF LoopInv
<1> QED
  BY <1>1, <1>2, <1>3, <1>4, <1>5, <1>6 DEF LoopInv

(* Looking for returns reports no loop.                                    *)
LEMMA CheckReturnsLoop ==
  ASSUME LoopInv, CheckReturns
  PROVE  LoopInv'
<1>1. PathInv'
  BY StepPathInv DEF LoopInv, Next
<1>2. phase # "loops"
  BY DEF LoopInv, CheckReturns, BeginFunction, SkipFunction, LookBehind, GiveResult, ReturnsDone
<1>3. /\ nodes' = nodes /\ functions' = functions /\ path' = path /\ phase' \in {phase, "done"}
  BY DEF CheckReturns, BeginFunction, SkipFunction, LookBehind, GiveResult, ReturnsDone
<1>4. \/ errors' = errors
      \/ \E n : errors' = errors \union {[what |-> "no return", node |-> n]}
  BY DEF CheckReturns, BeginFunction, SkipFunction, LookBehind, GiveResult, ReturnsDone
<1>5. {d \in errors' : d.what = "loop"} = {d \in errors : d.what = "loop"}
  <2>1. ASSUME NEW n, errors' = errors \union {[what |-> "no return", node |-> n]}
        PROVE  {d \in errors' : d.what = "loop"} = {d \in errors : d.what = "loop"}
    <3> DEFINE r == [what |-> "no return", node |-> n]
    <3>1. r.what # "loop" /\ errors' = errors \union {r}
      BY <2>1
    <3> HIDE DEF r
    <3> QED
      BY <3>1
  <2> QED
    BY <1>4, <2>1
<1>6. Found' = Found
  BY <1>5 DEF Found
<1>7. OnLoop' = OnLoop /\ Reached' = Reached
  BY <1>3, GraphStays
<1> QED
  BY <1>1, <1>2, <1>3, <1>6, <1>7 DEF LoopInv

LEMMA StepLoopInv == LoopInv /\ [Next]_vars => LoopInv'
<1> SUFFICES ASSUME LoopInv, [Next]_vars
             PROVE  LoopInv'
  OBVIOUS
<1>1. CASE DetectLoops
  BY <1>1, BeginPathLoop, SkipNodeLoop, FollowWireLoop, NextOutputLoop, LeaveNodeLoop,
     LoopsDoneLoop DEF DetectLoops
<1>2. CASE CheckReturns
  BY <1>2, CheckReturnsLoop
<1>3. CASE UNCHANGED vars
  <2>1. /\ nodes' = nodes /\ functions' = functions /\ phase' = phase /\ at' = at
        /\ path' = path /\ calls' = calls /\ errors' = errors
    BY <1>3 DEF vars
  <2>2. /\ Behind' = Behind /\ OnLoop' = OnLoop /\ Clear' = Clear /\ Reached' = Reached
        /\ \A n : NoInputs(n)' = NoInputs(n)
    BY <2>1, GraphStays
  <2>3. PathInv'
    BY <1>3, StepPathInv DEF LoopInv
  <2>4. Found' = Found
    BY <2>1 DEF Found
  <2>5. (Chained => Chained') /\ (BeginsAt => BeginsAt') /\ (DealtWith => DealtWith')
    BY <2>1, <2>2 DEF Chained, BeginsAt, DealtWith
  <2>6. ASSUME NEW i, Followed(i)
        PROVE  Followed(i)'
    BY <2>1, <2>2, <2>6 DEF Followed, GoesOnTo, Passed, Outputs
  <2> QED
    BY <2>1, <2>2, <2>3, <2>4, <2>5, <2>6 DEF LoopInv
<1> QED
  BY <1>1, <1>2, <1>3 DEF Next

-----------------------------------------------------------------------------
(* check_loop reports a loop exactly if a path from a node without inputs  *)
(* leads into one, and at a node of it, for every graph                    *)
(* (dsemantic.c:2138-2283).                                                *)
THEOREM LoopsAreReported == Spec => []LoopsReported
<1>1. Spec => []LoopInv
  BY InitLoopInv, StepLoopInv, PTL DEF Spec
<1>2. LoopInv => LoopsReported
  BY LoopInvReports
<1> QED
  BY <1>1, <1>2, PTL

-----------------------------------------------------------------------------
(* The last execution output is one, if there is any.                      *)
LEMMA LastIs ==
  ASSUME IsGraph, NEW n \in DOMAIN nodes, Executions(n) # {}
  PROVE  /\ LastExecution(n) \in Executions(n)
         /\ \A j \in Executions(n) : j <= LastExecution(n)
<1>1. PICK l \in Nat : l = Len(Outputs(n)) /\ DOMAIN Outputs(n) = 1..l
  BY GraphFacts
<1>2. Executions(n) \subseteq 1..l
  BY <1>1 DEF Executions
<1>3. \E i \in Executions(n) : \A j \in Executions(n) : j <= i
  <2> DEFINE T == {l - i : i \in Executions(n)}
  <2>1. T \subseteq Nat /\ T # {}
    BY <1>2
  <2>2. PICK t \in T : \A u \in T : t <= u
    <3> HIDE DEF T
    <3>1. PICK t \in T : \A u \in T : ~(<<u, t>> \in OpToRel(<, Nat))
      BY <2>1, NatLessThanWellFounded, WFMin
    <3>2. \A u \in T : ~(u < t)
      BY <2>1, <3>1 DEF OpToRel
    <3>3. ASSUME NEW u \in T
          PROVE  t <= u
      <4>1. u \in Nat /\ t \in Nat /\ ~(u < t)
        BY <2>1, <3>2
      <4> QED
        BY <4>1
    <3> QED
      BY <3>3
  <2>3. PICK i \in Executions(n) : t = l - i
    BY <2>2
  <2>4. \A j \in Executions(n) : t <= l - j
    BY <2>2
  <2> QED
    BY <1>1, <1>2, <2>3, <2>4
<1> QED
  BY <1>3 DEF LastExecution

(* What the graph's nodes are, as check_for_return looks at them.          *)
LEMMA ExecutionFacts ==
  ASSUME IsGraph, NEW n \in DOMAIN nodes
  PROVE  /\ Executions(n) \subseteq DOMAIN Outputs(n)
         /\ nodes[n].name = "IfThenElse" =>
              /\ Len(Outputs(n)) = 3 /\ DOMAIN Outputs(n) = {1, 2, 3}
              /\ Executions(n) = {1, 2, 3} /\ LastExecution(n) = 3
         /\ nodes[n].name = "Return" => Executions(n) = {}
<1>1. Executions(n) \subseteq DOMAIN Outputs(n)
  BY DEF Executions
<1>2. PICK l \in Nat : l = Len(Outputs(n)) /\ DOMAIN Outputs(n) = 1..l
  BY GraphFacts
<1>3. /\ nodes[n].name = "IfThenElse" =>
           l = 3 /\ \A i \in 1..3 : Outputs(n)[i].execution
      /\ nodes[n].name = "Return" => Outputs(n) = <<>>
  BY <1>2, GraphsAssumption DEF IsGraph, Outputs
<1>4. ASSUME nodes[n].name = "IfThenElse"
      PROVE  /\ Len(Outputs(n)) = 3 /\ DOMAIN Outputs(n) = {1, 2, 3}
             /\ Executions(n) = {1, 2, 3} /\ LastExecution(n) = 3
  <2>1. l = 3 /\ DOMAIN Outputs(n) = 1..3
    BY <1>2, <1>3, <1>4
  <2>2. DOMAIN Outputs(n) = {1, 2, 3}
    BY <2>1
  <2>3. Executions(n) = {1, 2, 3}
    BY <1>3, <1>4, <2>2 DEF Executions
  <2>4. LastExecution(n) \in {1, 2, 3} /\ \A j \in {1, 2, 3} : j <= LastExecution(n)
    BY <2>3, LastIs
  <2> QED
    BY <1>2, <2>1, <2>2, <2>3, <2>4
<1>5. ASSUME nodes[n].name = "Return"
      PROVE  Executions(n) = {}
  <2>1. Len(Outputs(n)) = 0
    BY <1>3, <1>5, EmptySeq
  <2>2. DOMAIN Outputs(n) = {}
    BY <1>2, <2>1
  <2> QED
    BY <1>1, <2>2
<1> QED
  BY <1>1, <1>4, <1>5

EndsFunctions == [DOMAIN nodes -> SUBSET Endings]

(* How code ends behind an output, if it can end from its node so.         *)
EndsAfter(ends, n, i) == IF Outputs(n)[i].to = <<>> THEN {"end"} ELSE ends[Outputs(n)[i].to[1]]

LEMMA EndsFromIs ==
  ASSUME NEW ends, NEW n
  PROVE  EndsFrom(ends, n) =
           LET last     == EndsAfter(ends, n, LastExecution(n))
               branches == UNION {EndsAfter(ends, n, i) : i \in Executions(n) \ {LastExecution(n)}}
           IN  CASE nodes[n].name = "Return" -> {"return"}
                 [] nodes[n].name = "IfThenElse" ->
                      (branches \ {"end"}) \union IF "end" \in branches THEN last ELSE {}
                 [] OTHER ->
                      IF Executions(n) = {} THEN {"end"} ELSE (branches \ {"end"}) \union last
BY DEF EndsFrom, EndsAfter

LEMMA EndsAfterKept ==
  ASSUME IsGraph, NEW n \in DOMAIN nodes, NEW i \in Executions(n), NEW a \in EndsFunctions,
         NEW b \in EndsFunctions, \A m \in DOMAIN nodes : a[m] \subseteq b[m]
  PROVE  EndsAfter(a, n, i) \subseteq EndsAfter(b, n, i) /\ EndsAfter(b, n, i) \subseteq Endings
<1>1. Outputs(n)[i].to \in Seq(DOMAIN nodes)
  BY GraphFacts DEF Executions
<1>2. CASE Outputs(n)[i].to = <<>>
  BY <1>2 DEF EndsAfter, Endings
<1>3. CASE Outputs(n)[i].to # <<>>
  <2>1. Outputs(n)[i].to[1] \in DOMAIN nodes
    BY <1>1, <1>3, EmptySeq, LenProperties, ElementOfSeq
  <2> QED
    BY <1>3, <2>1 DEF EndsAfter, EndsFunctions
<1> QED
  BY <1>2, <1>3

(* The more ends there are behind a node, the more there are from it.      *)
LEMMA EndsFromKept ==
  ASSUME IsGraph, NEW n \in DOMAIN nodes, NEW a \in EndsFunctions,
         NEW b \in EndsFunctions, \A m \in DOMAIN nodes : a[m] \subseteq b[m]
  PROVE  EndsFrom(a, n) \subseteq EndsFrom(b, n) /\ EndsFrom(b, n) \subseteq Endings
<1>1. \A i \in Executions(n) :
        EndsAfter(a, n, i) \subseteq EndsAfter(b, n, i) /\ EndsAfter(b, n, i) \subseteq Endings
  BY EndsAfterKept
<1>2. CASE nodes[n].name = "Return" \/ Executions(n) = {}
  BY <1>2, ExecutionFacts, EndsFromIs DEF Endings
<1>3. CASE nodes[n].name # "Return" /\ Executions(n) # {}
  <2> DEFINE Branches(e) == UNION {EndsAfter(e, n, i) : i \in Executions(n) \ {LastExecution(n)}}
             Last1(e)    == EndsAfter(e, n, LastExecution(n))
  <2>1. Last1(a) \subseteq Last1(b) /\ Last1(b) \subseteq Endings
    BY <1>1, <1>3, LastIs
  <2>2. Branches(a) \subseteq Branches(b) /\ Branches(b) \subseteq Endings
    BY <1>1
  <2>3. CASE nodes[n].name = "IfThenElse"
    <3>1. /\ EndsFrom(a, n) = (Branches(a) \ {"end"}) \union IF "end" \in Branches(a) THEN Last1(a) ELSE {}
          /\ EndsFrom(b, n) = (Branches(b) \ {"end"}) \union IF "end" \in Branches(b) THEN Last1(b) ELSE {}
      BY <1>3, <2>3, EndsFromIs
    <3> HIDE DEF Branches, Last1
    <3> QED
      BY <2>1, <2>2, <3>1
  <2>4. CASE nodes[n].name # "IfThenElse"
    <3>1. /\ EndsFrom(a, n) = (Branches(a) \ {"end"}) \union Last1(a)
          /\ EndsFrom(b, n) = (Branches(b) \ {"end"}) \union Last1(b)
      BY <1>3, <2>4, EndsFromIs
    <3> HIDE DEF Branches, Last1
    <3> QED
      BY <2>1, <2>2, <3>1
  <2> QED
    BY <2>3, <2>4
<1> QED
  BY <1>2, <1>3

Possible ==
  {ends \in EndsFunctions : \A n \in DOMAIN nodes : EndsFrom(ends, n) \subseteq ends[n]}

(* The least ends are such that a node has those of one step, and no more. *)
LEMMA EndsAre ==
  ASSUME IsGraph
  PROVE  /\ EndsOf \in EndsFunctions
         /\ \A n \in DOMAIN nodes : EndsOf[n] = EndsFrom(EndsOf, n)
<1>1. EndsOf = [n \in DOMAIN nodes |-> {e \in Endings : \A ends \in Possible : e \in ends[n]}]
  BY DEF EndsOf, Possible, EndsFunctions
<1>2. EndsOf \in EndsFunctions
  BY <1>1 DEF EndsFunctions
<1>3. \A ends \in Possible : \A n \in DOMAIN nodes : EndsOf[n] \subseteq ends[n]
  BY <1>1
<1>4. ASSUME NEW n \in DOMAIN nodes
      PROVE  EndsFrom(EndsOf, n) \subseteq EndsOf[n]
  <2>1. ASSUME NEW ends \in Possible
        PROVE  EndsFrom(EndsOf, n) \subseteq ends[n] /\ EndsFrom(EndsOf, n) \subseteq Endings
    <3>1. ends \in EndsFunctions /\ EndsFrom(ends, n) \subseteq ends[n]
      BY DEF Possible
    <3>2. EndsFrom(EndsOf, n) \subseteq EndsFrom(ends, n) /\ EndsFrom(ends, n) \subseteq Endings
      BY <1>2, <1>3, <3>1, EndsFromKept
    <3> QED
      BY <3>1, <3>2
  <2>2. EndsFrom(EndsOf, n) \subseteq Endings
    BY <1>2, EndsFromKept
  <2> QED
    BY <1>1, <2>1, <2>2
<1> DEFINE step == [n \in DOMAIN nodes |-> EndsFrom(EndsOf, n)]
<1>5. step \in EndsFunctions
  <2>1. \A n \in DOMAIN nodes : EndsFrom(EndsOf, n) \in SUBSET Endings
    BY <1>2, EndsFromKept
  <2> QED
    BY <2>1 DEF EndsFunctions
<1>6. step \in Possible
  <2>1. \A n \in DOMAIN nodes : step[n] \subseteq EndsOf[n]
    BY <1>4
  <2>2. \A n \in DOMAIN nodes : step[n] = EndsFrom(EndsOf, n)
    OBVIOUS
  <2> HIDE DEF step
  <2>3. \A n \in DOMAIN nodes : EndsFrom(step, n) \subseteq EndsFrom(EndsOf, n)
    BY <1>2, <1>5, <2>1, EndsFromKept
  <2> QED
    BY <1>5, <2>2, <2>3 DEF Possible
<1>7. \A n \in DOMAIN nodes : EndsOf[n] \subseteq EndsFrom(EndsOf, n)
  BY <1>3, <1>6
<1> QED
  BY <1>2, <1>4, <1>7

-----------------------------------------------------------------------------
CallElements == [node : DOMAIN nodes, results : Seq(BOOLEAN)]

(* Behind the k-th output that is looked at, code can end without Return.  *)
Unreturned(n, k) == LET to == Looked(n)[k].to IN to = <<>> \/ "end" \in EndsOf[to[1]]

LEMMA LookedFacts ==
  ASSUME IsGraph, NEW n \in DOMAIN nodes
  PROVE  /\ Len(Looked(n)) \in Nat /\ DOMAIN Looked(n) = 1..Len(Looked(n))
         /\ \A k \in 1..Len(Looked(n)) :
              /\ Looked(n)[k].to \in Seq(DOMAIN nodes)
              /\ Looked(n)[k].to # <<>> => Looked(n)[k].to[1] \in DOMAIN nodes
<1>1. /\ Len(Looked(n)) \in Nat /\ DOMAIN Looked(n) = 1..Len(Looked(n))
      /\ \A k \in 1..Len(Looked(n)) : \E i \in DOMAIN Outputs(n) : Looked(n)[k] = Outputs(n)[i]
  <2>1. CASE nodes[n].name = "IfThenElse"
    <3>1. Executions(n) # {}
      BY <2>1, ExecutionFacts
    <3>2. Looked(n) = Outputs(n)
      BY <2>1, <3>1 DEF Looked
    <3> QED
      BY <3>2, GraphFacts
  <2>2. CASE nodes[n].name # "IfThenElse" /\ Executions(n) = {}
    <3>1. Looked(n) = <<>>
      BY <2>2 DEF Looked
    <3> QED
      BY <3>1
  <2>3. CASE nodes[n].name # "IfThenElse" /\ Executions(n) # {}
    <3>1. Looked(n) = <<Outputs(n)[LastExecution(n)]>>
      BY <2>3 DEF Looked
    <3>2. LastExecution(n) \in DOMAIN Outputs(n)
      BY <2>3, LastIs, ExecutionFacts
    <3> QED
      BY <3>1, <3>2
  <2> QED
    BY <2>1, <2>2, <2>3
<1>2. ASSUME NEW k \in 1..Len(Looked(n))
      PROVE  /\ Looked(n)[k].to \in Seq(DOMAIN nodes)
             /\ Looked(n)[k].to # <<>> => Looked(n)[k].to[1] \in DOMAIN nodes
  <2>1. Looked(n)[k].to \in Seq(DOMAIN nodes)
    BY <1>1, GraphFacts
  <2> HIDE DEF Looked
  <2>2. ASSUME NEW to \in Seq(DOMAIN nodes), to # <<>>
        PROVE  to[1] \in DOMAIN nodes
    BY <2>2, EmptySeq, LenProperties, ElementOfSeq
  <2> QED
    BY <2>1, <2>2
<1> QED
  BY <1>1, <1>2

(* With the right results for what is behind the outputs, a call gives the *)
(* right result for its node.                                              *)
LEMMA ReturnsIs ==
  ASSUME IsGraph, NEW n \in DOMAIN nodes, NEW results \in Seq(BOOLEAN),
         Len(results) = Len(Looked(n)),
         \A k \in DOMAIN results : results[k] <=> ~Unreturned(n, k)
  PROVE  /\ Returns(n, results) \in BOOLEAN
         /\ Returns(n, results) <=> "end" \notin EndsOf[n]
<1>1. EndsOf[n] = EndsFrom(EndsOf, n)
  BY EndsAre
<1>2. DOMAIN results = 1..Len(Looked(n)) /\ \A k \in DOMAIN results : results[k] \in BOOLEAN
  BY LenProperties, ElementOfSeq
<1>3. CASE nodes[n].name = "IfThenElse"
  <2>1. /\ Looked(n) = Outputs(n) /\ Looked(n) # <<>> /\ DOMAIN results = {1, 2, 3}
        /\ Executions(n) = {1, 2, 3} /\ LastExecution(n) = 3
    <3>1. /\ Len(Outputs(n)) = 3 /\ Executions(n) = {1, 2, 3} /\ LastExecution(n) = 3
      BY <1>3, ExecutionFacts
    <3>2. Looked(n) = Outputs(n)
      BY <1>3, <3>1 DEF Looked
    <3>3. Len(Looked(n)) = 3
      BY <3>1, <3>2
    <3>4. DOMAIN results = 1..3
      BY <1>2, <3>3
    <3>5. DOMAIN results = {1, 2, 3}
      BY <3>4
    <3>6. Looked(n) # <<>>
      <4>1. Len(<<>>) = 0
        OBVIOUS
      <4> HIDE DEF Looked
      <4> QED
        BY <3>3, <4>1
    <3> QED
      BY <3>1, <3>2, <3>5, <3>6
  <2>2. \A k \in {1, 2, 3} : results[k] <=> "end" \notin EndsAfter(EndsOf, n, k)
    BY <2>1 DEF Unreturned, EndsAfter
  <2>3. Returns(n, results) = ((results[1] /\ results[2]) \/ results[3])
    BY <1>3, <2>1 DEF Returns
  <2> DEFINE branches == UNION {EndsAfter(EndsOf, n, i) : i \in {1, 2}}
  <2>4. EndsOf[n] = (branches \ {"end"})
                      \union IF "end" \in branches THEN EndsAfter(EndsOf, n, 3) ELSE {}
    <3>1. {1, 2, 3} \ {3} = {1, 2}
      OBVIOUS
    <3> QED
      BY <1>1, <1>3, <2>1, <3>1, EndsFromIs
  <2>5. "end" \in branches <=> "end" \in EndsAfter(EndsOf, n, 1) \/ "end" \in EndsAfter(EndsOf, n, 2)
    OBVIOUS
  <2>6. "end" \in EndsOf[n] <=> "end" \in branches /\ "end" \in EndsAfter(EndsOf, n, 3)
    <3> HIDE DEF branches
    <3> QED
      BY <2>4
  <2> HIDE DEF branches
  <2> QED
    BY <1>2, <2>1, <2>2, <2>3, <2>5, <2>6
<1>4. CASE nodes[n].name # "IfThenElse" /\ Executions(n) = {}
  <2>1. Returns(n, results) = (nodes[n].name = "Return")
    BY <1>4 DEF Returns, Looked
  <2>2. EndsOf[n] = IF nodes[n].name = "Return" THEN {"return"} ELSE {"end"}
    BY <1>1, <1>4, EndsFromIs
  <2>3. CASE nodes[n].name = "Return"
    BY <2>1, <2>2, <2>3
  <2>4. CASE nodes[n].name # "Return"
    BY <2>1, <2>2, <2>4
  <2> QED
    BY <2>3, <2>4
<1>5. CASE nodes[n].name # "IfThenElse" /\ Executions(n) # {}
  <2>1. /\ Looked(n) = <<Outputs(n)[LastExecution(n)]>> /\ nodes[n].name # "Return"
        /\ Looked(n) # <<>> /\ Len(Looked(n)) = 1
    BY <1>5, ExecutionFacts DEF Looked
  <2>2. Returns(n, results) = results[1]
    BY <1>5, <2>1 DEF Returns
  <2>3. "end" \in EndsOf[n] <=> "end" \in EndsAfter(EndsOf, n, LastExecution(n))
    <3> DEFINE branches == UNION {EndsAfter(EndsOf, n, i) : i \in Executions(n) \ {LastExecution(n)}}
    <3>1. EndsOf[n] = (branches \ {"end"}) \union EndsAfter(EndsOf, n, LastExecution(n))
      BY <1>1, <1>5, <2>1, EndsFromIs
    <3> HIDE DEF branches
    <3> QED
      BY <3>1
  <2>4. Unreturned(n, 1) <=> "end" \in EndsAfter(EndsOf, n, LastExecution(n))
    BY <2>1 DEF Unreturned, EndsAfter
  <2>5. 1 \in DOMAIN results
    BY <1>2, <2>1
  <2> QED
    BY <1>2, <2>2, <2>3, <2>4, <2>5
<1> QED
  BY <1>3, <1>4, <1>5

-----------------------------------------------------------------------------
NoReturn(n) == [what |-> "no return", node |-> n]

(* The results a call has are those of the first outputs it looks at.      *)
ResultsRight(c) ==
  /\ Len(c.results) <= Len(Looked(c.node))
  /\ \A k \in DOMAIN c.results : c.results[k] <=> ~Unreturned(c.node, k)

(* Call c waits for call d, which was made for the next output.            *)
WaitsFor(c, d) ==
  LET k == Len(c.results) + 1
  IN  /\ k <= Len(Looked(c.node))
      /\ Looked(c.node)[k].to # <<>> /\ d.node = Looked(c.node)[k].to[1]

CallsRight ==
  /\ calls \in Seq(CallElements)
  /\ \A i \in DOMAIN calls : ResultsRight(calls[i])
  /\ \A i \in DOMAIN calls : i + 1 \in DOMAIN calls => WaitsFor(calls[i], calls[i + 1])

(* The first call is for the function that the loop looks at.              *)
CalledFor ==
  calls # <<>> =>
    /\ phase = "returns" /\ at \in DOMAIN functions /\ MustReturn(functions[at])
    /\ calls[1].node = functions[at].define

NoneWrong == \A n : NoReturn(n) \in errors => n \in DOMAIN nodes /\ "end" \in EndsOf[n]

NoneMissed ==
  phase # "loops" =>
    \A j \in DOMAIN functions :
      j < at /\ MustReturn(functions[j]) /\ "end" \in EndsOf[functions[j].define]
        => NoReturn(functions[j].define) \in errors

ReturnInv ==
  /\ IsGraph /\ at \in Nat \ {0}
  /\ CallsRight /\ CalledFor /\ NoneWrong /\ NoneMissed
  /\ phase = "done" => at > Len(functions)

LEMMA FunctionFacts ==
  ASSUME IsGraph
  PROVE  /\ Len(functions) \in Nat /\ DOMAIN functions = 1..Len(functions)
         /\ \A j \in DOMAIN functions : functions[j].define \in DOMAIN nodes
BY GraphsAssumption DEF IsGraph, IsASequence

LEMMA ReturnInvReports == ReturnInv => ReturnsReported
<1> SUFFICES ASSUME ReturnInv, phase = "done", NEW f \in Range(functions), MustReturn(f)
             PROVE  "end" \in EndsOf[f.define] <=> NoReturn(f.define) \in errors
  BY DEF ReturnsReported, NoReturn
<1>1. PICK j \in DOMAIN functions : f = functions[j]
  BY DEF Range
<1>2. j < at
  BY <1>1, FunctionFacts DEF ReturnInv
<1> QED
  BY <1>1, <1>2 DEF ReturnInv, NoneWrong, NoneMissed

LEMMA InitReturnInv == Init => ReturnInv
BY DEF Init, ReturnInv, IsGraph, CallsRight, CalledFor, NoneWrong, NoneMissed, NoReturn

(* What a step must leave alone for the graph to stay as it is.            *)
LEMMA ReturnGraphStays ==
  ASSUME nodes' = nodes
  PROVE  /\ EndsOf' = EndsOf /\ CallElements' = CallElements
         /\ \A n : Looked(n)' = Looked(n)
         /\ \A n, k : Unreturned(n, k)' <=> Unreturned(n, k)
         /\ \A c : ResultsRight(c)' <=> ResultsRight(c)
         /\ \A c, d : WaitsFor(c, d)' <=> WaitsFor(c, d)
<1>1. \A n : Executions(n)' = Executions(n) /\ Outputs(n)' = Outputs(n)
  BY DEF Executions, Outputs
<1>2. \A n : LastExecution(n)' = LastExecution(n)
  BY <1>1 DEF LastExecution
<1>3. \A n : Looked(n)' = Looked(n)
  BY <1>1, <1>2 DEF Looked
<1>4. \A ends, n : EndsFrom(ends, n)' = EndsFrom(ends, n)
  BY DEF EndsFrom, Executions, LastExecution, Outputs
<1>5. EndsOf' = EndsOf
  BY <1>4 DEF EndsOf
<1>6. \A n, k : Unreturned(n, k)' <=> Unreturned(n, k)
  BY <1>3, <1>5 DEF Unreturned
<1>7. \A c : ResultsRight(c)' <=> ResultsRight(c)
  BY <1>3, <1>6 DEF ResultsRight
<1>8. \A c, d : WaitsFor(c, d)' <=> WaitsFor(c, d)
  BY <1>3 DEF WaitsFor
<1> QED
  BY <1>3, <1>5, <1>6, <1>7, <1>8 DEF CallElements

(* A step that makes no call and has no result.                            *)
LEMMA CallsStay ==
  ASSUME ReturnInv, nodes' = nodes, functions' = functions, calls' = calls
  PROVE  IsGraph' /\ CallsRight'
<1>1. IsGraph'
  BY DEF ReturnInv, IsGraph
<1>2. CallsRight'
  BY ReturnGraphStays DEF ReturnInv, CallsRight
<1> QED
  BY <1>1, <1>2

LEMMA DetectLoopsReturns ==
  ASSUME ReturnInv, DetectLoops
  PROVE  ReturnInv'
<1>1. /\ nodes' = nodes /\ functions' = functions /\ calls' = calls
      /\ phase = "loops" /\ at' \in {at, at + 1, 1}
      /\ \/ phase' = "loops"
         \/ phase' = "returns" /\ at' = 1
  BY DEF DetectLoops, BeginPath, SkipNode, FollowWire, NextOutput, LeaveNode, LoopsDone,
         Looping, hasErrors
<1>2. \A n : NoReturn(n) \in errors' <=> NoReturn(n) \in errors
  <2>1. \/ errors' = errors
        \/ \E n : errors' = errors \union {[what |-> "loop", node |-> n]}
    BY DEF DetectLoops, BeginPath, SkipNode, FollowWire, NextOutput, LeaveNode, LoopsDone
  <2>2. ASSUME NEW n, NEW m
        PROVE  NoReturn(n) # [what |-> "loop", node |-> m]
    <3>1. NoReturn(n).what = "no return" /\ [what |-> "loop", node |-> m].what = "loop"
      BY DEF NoReturn
    <3> QED
      BY <3>1
  <2> QED
    BY <2>1, <2>2
<1>3. IsGraph' /\ CallsRight' /\ EndsOf' = EndsOf /\ calls = <<>>
  BY <1>1, CallsStay, ReturnGraphStays DEF ReturnInv, CalledFor
<1>4. CalledFor'
  BY <1>1, <1>3 DEF CalledFor
<1>5. NoneWrong'
  BY <1>1, <1>2, <1>3 DEF ReturnInv, NoneWrong, NoReturn
<1>6. NoneMissed'
  <2>1. \A j \in DOMAIN functions : ~(j < 1)
    BY FunctionFacts DEF ReturnInv
  <2> QED
    BY <1>1, <2>1 DEF NoneMissed
<1>7. at' \in Nat \ {0} /\ phase' # "done"
  BY <1>1 DEF ReturnInv
<1> QED
  BY <1>3, <1>4, <1>5, <1>6, <1>7 DEF ReturnInv

LEMMA BeginFunctionReturns ==
  ASSUME ReturnInv, BeginFunction
  PROVE  ReturnInv'
<1>1. /\ nodes' = nodes /\ functions' = functions /\ errors' = errors /\ phase' = phase
      /\ at' = at /\ calls = <<>> /\ phase = "returns" /\ at <= Len(functions)
      /\ MustReturn(functions[at])
  BY DEF BeginFunction
<1> DEFINE first == [node |-> functions[at].define, results |-> <<>>]
<1>2. calls' = <<first>> /\ EndsOf' = EndsOf /\ at \in DOMAIN functions
      /\ functions[at].define \in DOMAIN nodes /\ IsGraph'
  BY <1>1, ReturnGraphStays, FunctionFacts DEF BeginFunction, ReturnInv, IsGraph
<1>3. first \in CallElements /\ ResultsRight(first)
  <2>1. Len(Looked(first.node)) \in Nat
    BY <1>2, LookedFacts DEF ReturnInv
  <2> HIDE DEF Looked
  <2>2. first.results = <<>> /\ first.node = functions[at].define
    OBVIOUS
  <2>3. ResultsRight(first)
    BY <2>1, <2>2 DEF ResultsRight
  <2> QED
    BY <1>2, <2>3 DEF CallElements
<1>4. CallsRight'
  <2>1. /\ calls' \in Seq(CallElements) /\ DOMAIN calls' = {1} /\ calls'[1] = first
    BY <1>2, <1>3
  <2>2. CallElements' = CallElements /\ \A c : ResultsRight(c)' <=> ResultsRight(c)
    BY <1>1, ReturnGraphStays
  <2> HIDE DEF first
  <2> QED
    BY <1>3, <2>1, <2>2 DEF CallsRight
<1>5. CalledFor'
  BY <1>1, <1>2 DEF CalledFor, MustReturn
<1>6. NoneWrong' /\ NoneMissed'
  BY <1>1, <1>2 DEF ReturnInv, NoneWrong, NoneMissed, NoReturn, MustReturn
<1> QED
  BY <1>1, <1>2, <1>4, <1>5, <1>6 DEF ReturnInv

LEMMA SkipFunctionReturns ==
  ASSUME ReturnInv, SkipFunction
  PROVE  ReturnInv'
<1>1. /\ nodes' = nodes /\ functions' = functions /\ errors' = errors /\ phase' = phase
      /\ at' = at + 1 /\ calls' = calls /\ calls = <<>> /\ phase = "returns"
      /\ ~MustReturn(functions[at]) /\ at \in Nat \ {0}
  BY DEF SkipFunction, ReturnInv
<1>2. IsGraph' /\ CallsRight' /\ EndsOf' = EndsOf
  BY <1>1, CallsStay, ReturnGraphStays
<1>3. CalledFor' /\ NoneWrong'
  BY <1>1, <1>2 DEF ReturnInv, CalledFor, NoneWrong, NoReturn
<1>4. NoneMissed'
  <2>1. \A j \in DOMAIN functions : j < at + 1 => j < at \/ j = at
    BY <1>1, FunctionFacts DEF ReturnInv
  <2> QED
    BY <1>1, <1>2, <2>1 DEF ReturnInv, NoneMissed, NoReturn, MustReturn
<1> QED
  BY <1>1, <1>2, <1>3, <1>4 DEF ReturnInv

LEMMA ReturnsDoneReturns ==
  ASSUME ReturnInv, ReturnsDone
  PROVE  ReturnInv'
<1>1. /\ nodes' = nodes /\ functions' = functions /\ errors' = errors /\ phase' = "done"
      /\ at' = at /\ calls' = calls /\ calls = <<>> /\ phase = "returns"
      /\ at > Len(functions)
  BY DEF ReturnsDone
<1>2. IsGraph' /\ CallsRight' /\ EndsOf' = EndsOf
  BY <1>1, CallsStay, ReturnGraphStays
<1>3. CalledFor' /\ NoneWrong'
  BY <1>1, <1>2 DEF ReturnInv, CalledFor, NoneWrong, NoReturn
<1>4. NoneMissed'
  BY <1>1, <1>2 DEF ReturnInv, NoneMissed, NoReturn, MustReturn
<1> QED
  BY <1>1, <1>2, <1>3, <1>4 DEF ReturnInv

(* The calls, and what is on top of them.                                  *)
LEMMA CallFacts ==
  ASSUME ReturnInv, calls # <<>>, NEW l, l = Len(calls)
  PROVE  /\ l \in Nat \ {0} /\ DOMAIN calls = 1..l /\ l \in 1..l /\ Last(calls) = calls[l]
         /\ \A i \in 1..l : /\ calls[i].node \in DOMAIN nodes
                            /\ calls[i].results \in Seq(BOOLEAN)
                            /\ calls[i] \in CallElements /\ ResultsRight(calls[i])
<1>1. calls \in Seq(CallElements)
  BY DEF ReturnInv, CallsRight
<1>2. l \in Nat \ {0} /\ DOMAIN calls = 1..l
  BY <1>1, EmptySeq, LenProperties
<1>3. \A i \in 1..l : calls[i] \in CallElements
  BY <1>1, <1>2, ElementOfSeq
<1>4. \A i \in 1..l : calls[i].node \in DOMAIN nodes /\ calls[i].results \in Seq(BOOLEAN)
  BY <1>3 DEF CallElements
<1> QED
  BY <1>2, <1>3, <1>4 DEF ReturnInv, CallsRight, Last

(* A call is given the right answer for the next output it looks at.       *)
LEMMA AnswerFits ==
  ASSUME IsGraph, NEW c \in CallElements, ResultsRight(c), NEW k, k = Len(c.results) + 1,
         k <= Len(Looked(c.node)), NEW r \in BOOLEAN, r <=> ~Unreturned(c.node, k)
  PROVE  LET d == [c EXCEPT !.results = Append(@, r)]
         IN  d \in CallElements /\ d.node = c.node /\ ResultsRight(d)
<1>1. c.node \in DOMAIN nodes /\ c.results \in Seq(BOOLEAN)
  BY DEF CallElements
<1> DEFINE d      == [c EXCEPT !.results = Append(@, r)]
           longer == Append(c.results, r)
<1>2. d \in CallElements /\ d.node = c.node /\ d.results = longer
  BY <1>1 DEF CallElements
<1>3. /\ k \in Nat /\ DOMAIN c.results = 1..(k - 1) /\ Len(longer) = k /\ DOMAIN longer = 1..k
      /\ longer[k] = r /\ \A i \in 1..(k - 1) : longer[i] = c.results[i]
  <2>1. k - 1 \in Nat /\ k - 1 = Len(c.results) /\ DOMAIN c.results = 1..(k - 1)
    BY <1>1, LenProperties
  <2>2. /\ longer \in Seq(BOOLEAN) /\ Len(longer) = k - 1 + 1 /\ longer[k - 1 + 1] = r
        /\ \A i \in 1..(k - 1) : longer[i] = c.results[i]
    BY <1>1, <2>1, AppendProperties
  <2>3. DOMAIN longer = 1..(k - 1 + 1) /\ k - 1 + 1 = k
    BY <2>1, <2>2, LenProperties
  <2> HIDE DEF longer
  <2> QED
    BY <2>1, <2>2, <2>3
<1> HIDE DEF longer, d
<1>4. ASSUME NEW i \in 1..k
      PROVE  longer[i] <=> ~Unreturned(c.node, i)
  <2>1. CASE i = k
    BY <1>3, <2>1
  <2>2. CASE i # k
    <3>1. i \in 1..(k - 1)
      BY <1>3, <2>2
    <3> QED
      BY <1>3, <3>1 DEF ResultsRight
  <2> QED
    BY <2>1, <2>2
<1>5. ResultsRight(d)
  BY <1>2, <1>3, <1>4 DEF ResultsRight
<1> QED
  BY <1>2, <1>5 DEF d

(* The last call is replaced by one of the same node.                      *)
LEMMA AnsweredCalls ==
  ASSUME IsGraph, NEW s \in Seq(CallElements), NEW l \in Nat \ {0}, Len(s) = l,
         \A i \in 1..l : ResultsRight(s[i]),
         \A i \in 1..(l - 1) : WaitsFor(s[i], s[i + 1]),
         NEW d \in CallElements, d.node = s[l].node, ResultsRight(d)
  PROVE  LET t == [s EXCEPT ![l] = d]
         IN  /\ t \in Seq(CallElements) /\ DOMAIN t = 1..l /\ t[1].node = s[1].node
             /\ \A i \in DOMAIN t : ResultsRight(t[i])
             /\ \A i \in DOMAIN t : i + 1 \in DOMAIN t => WaitsFor(t[i], t[i + 1])
<1> DEFINE t == [s EXCEPT ![l] = d]
<1>1. l \in 1..Len(s)
  OBVIOUS
<1>2. /\ t \in Seq(CallElements) /\ Len(t) = l
      /\ \A i \in 1..l : t[i] = IF i = l THEN d ELSE s[i]
  BY <1>1, ExceptSeq
<1>3. DOMAIN t = 1..l
  BY <1>2, LenProperties
<1> HIDE DEF t
<1>4. t[1].node = s[1].node
  BY <1>2
<1>5. \A i \in 1..l : ResultsRight(t[i])
  BY <1>2
<1>6. ASSUME NEW i \in 1..l, i + 1 \in 1..l
      PROVE  WaitsFor(t[i], t[i + 1])
  <2>1. i # l /\ i \in 1..(l - 1)
    BY <1>6
  <2>2. t[i] = s[i] /\ t[i + 1].node = s[i + 1].node /\ WaitsFor(s[i], s[i + 1])
    BY <1>2, <1>6, <2>1
  <2> QED
    BY <2>2 DEF WaitsFor
<1> QED
  BY <1>2, <1>3, <1>4, <1>5, <1>6 DEF t

LEMMA LookBehindReturns ==
  ASSUME ReturnInv, LookBehind
  PROVE  ReturnInv'
<1>1. PICK l, c, k : l = Len(calls) /\ c = calls[l] /\ k = Len(c.results) + 1
  OBVIOUS
<1>2. calls # <<>> /\ IsGraph /\ calls \in Seq(CallElements)
  BY DEF LookBehind, ReturnInv, CallsRight
<1>3. /\ l \in Nat \ {0} /\ DOMAIN calls = 1..l /\ l \in 1..l /\ Last(calls) = c
      /\ c.node \in DOMAIN nodes /\ c.results \in Seq(BOOLEAN) /\ c \in CallElements
      /\ ResultsRight(c)
  BY <1>1, <1>2, CallFacts
<1> DEFINE to == Looked(c.node)[k].to
<1>4. /\ nodes' = nodes /\ functions' = functions /\ errors' = errors /\ phase' = phase /\ at' = at
      /\ Len(c.results) < Len(Looked(c.node))
      /\ to = <<>> => calls' = [calls EXCEPT ![l].results = Append(@, FALSE)]
      /\ to # <<>> => calls' = Append(calls, [node |-> to[1], results |-> <<>>])
  BY <1>1, <1>3 DEF LookBehind
<1>5. k \in 1..Len(Looked(c.node)) /\ k <= Len(Looked(c.node))
  <2>1. Len(c.results) \in Nat /\ Len(Looked(c.node)) \in Nat
    BY <1>2, <1>3, LookedFacts, LenProperties
  <2> QED
    BY <1>1, <1>4, <2>1
<1>6. to \in Seq(DOMAIN nodes) /\ (to # <<>> => to[1] \in DOMAIN nodes)
  BY <1>2, <1>3, <1>5, LookedFacts
<1>7. /\ \A i \in 1..l : ResultsRight(calls[i])
      /\ \A i \in 1..(l - 1) : WaitsFor(calls[i], calls[i + 1])
  <2>1. \A i \in 1..(l - 1) : i \in 1..l /\ i + 1 \in 1..l
    BY <1>3
  <2> QED
    BY <1>3, <2>1 DEF ReturnInv, CallsRight
<1>8. /\ calls' \in Seq(CallElements) /\ calls' # <<>> /\ calls'[1].node = calls[1].node
      /\ \A i \in DOMAIN calls' : ResultsRight(calls'[i])
      /\ \A i \in DOMAIN calls' : i + 1 \in DOMAIN calls' => WaitsFor(calls'[i], calls'[i + 1])
  <2>1. CASE to = <<>>
    <3> DEFINE d == [c EXCEPT !.results = Append(@, FALSE)]
    <3>1. calls' = [calls EXCEPT ![l] = d]
      BY <1>1, <1>4, <2>1
    <3>2. FALSE <=> ~Unreturned(c.node, k)
      BY <2>1 DEF Unreturned
    <3>3. d \in CallElements /\ d.node = c.node /\ ResultsRight(d)
      BY <1>1, <1>2, <1>3, <1>5, <3>2, AnswerFits
    <3> HIDE DEF d
    <3> DEFINE t == [calls EXCEPT ![l] = d]
    <3>4. /\ t \in Seq(CallElements) /\ DOMAIN t = 1..l /\ t[1].node = calls[1].node
          /\ \A i \in DOMAIN t : ResultsRight(t[i])
          /\ \A i \in DOMAIN t : i + 1 \in DOMAIN t => WaitsFor(t[i], t[i + 1])
      <4>1. d.node = calls[l].node
        BY <1>1, <3>3
      <4> QED
        BY <1>1, <1>2, <1>3, <1>7, <3>3, <4>1, AnsweredCalls
    <3>5. calls' = t
      BY <3>1
    <3> HIDE DEF t
    <3>6. calls' # <<>>
      BY <1>3, <3>4, <3>5
    <3> QED
      BY <3>4, <3>5, <3>6
  <2>2. CASE to # <<>>
    <3> DEFINE new == [node |-> to[1], results |-> <<>>]
    <3>1. calls' = Append(calls, new)
      BY <1>4, <2>2
    <3>2. new \in CallElements /\ new.node = to[1] /\ new.results = <<>>
      BY <1>6, <2>2 DEF CallElements
    <3> HIDE DEF new
    <3>3. ResultsRight(new)
      <4>1. new.node \in DOMAIN nodes
        BY <1>6, <2>2, <3>2
      <4>2. Len(Looked(new.node)) \in Nat
        BY <1>2, <4>1, LookedFacts
      <4> QED
        BY <3>2, <4>2 DEF ResultsRight
    <3>4. WaitsFor(c, new)
      BY <1>1, <1>5, <2>2, <3>2 DEF WaitsFor
    <3>5. /\ calls' \in Seq(CallElements) /\ Len(calls') = l + 1 /\ calls'[l + 1] = new
          /\ \A i \in 1..l : calls'[i] = calls[i]
      BY <1>1, <1>2, <3>1, <3>2, AppendProperties
    <3>6. DOMAIN calls' = 1..(l + 1) /\ calls' # <<>>
      BY <1>3, <3>5, LenProperties
    <3>7. ASSUME NEW i \in 1..(l + 1), i + 1 \in 1..(l + 1)
          PROVE  WaitsFor(calls'[i], calls'[i + 1])
      <4>1. CASE i = l
        BY <1>1, <1>3, <3>4, <3>5, <4>1
      <4>2. CASE i # l
        <5>1. i \in 1..(l - 1) /\ i \in 1..l /\ i + 1 \in 1..l
          BY <1>3, <3>7, <4>2
        <5> QED
          BY <1>7, <3>5, <5>1
      <4> QED
        BY <4>1, <4>2
    <3>8. ASSUME NEW i \in 1..(l + 1)
          PROVE  ResultsRight(calls'[i])
      <4>1. i = l + 1 \/ i \in 1..l
        BY <1>3
      <4> QED
        BY <1>7, <3>3, <3>5, <4>1
    <3> QED
      BY <1>3, <3>5, <3>6, <3>7, <3>8
  <2> QED
    BY <2>1, <2>2
<1>9. CallElements' = CallElements /\ EndsOf' = EndsOf /\ IsGraph'
  BY <1>2, <1>4, ReturnGraphStays DEF IsGraph
<1>10. CallsRight'
  BY <1>4, <1>8, <1>9, ReturnGraphStays DEF CallsRight
<1>11. CalledFor'
  BY <1>2, <1>4, <1>8 DEF ReturnInv, CalledFor, MustReturn
<1>12. NoneWrong' /\ NoneMissed'
  BY <1>4, <1>9 DEF ReturnInv, NoneWrong, NoneMissed, NoReturn, MustReturn
<1> QED
  BY <1>4, <1>9, <1>10, <1>11, <1>12 DEF ReturnInv

LEMMA GiveResultReturns ==
  ASSUME ReturnInv, GiveResult
  PROVE  ReturnInv'
<1>1. PICK l, c : l = Len(calls) /\ c = calls[l]
  OBVIOUS
<1>2. calls # <<>> /\ IsGraph /\ calls \in Seq(CallElements)
  BY DEF GiveResult, ReturnInv, CallsRight
<1>3. /\ l \in Nat \ {0} /\ DOMAIN calls = 1..l /\ l \in 1..l /\ Last(calls) = c
      /\ c.node \in DOMAIN nodes /\ c.results \in Seq(BOOLEAN) /\ c \in CallElements
      /\ ResultsRight(c)
  BY <1>1, <1>2, CallFacts
<1> DEFINE result == Returns(c.node, c.results)
           below  == Front(calls)
<1>4. /\ nodes' = nodes /\ functions' = functions /\ phase' = phase
      /\ Len(c.results) = Len(Looked(c.node))
      /\ below # <<>> =>
           /\ calls' = [below EXCEPT ![Len(below)].results = Append(@, result)]
           /\ at' = at /\ errors' = errors
      /\ below = <<>> =>
           /\ calls' = <<>> /\ at' = at + 1
           /\ errors' = IF result THEN errors ELSE errors \union {NoReturn(c.node)}
  BY <1>3 DEF GiveResult, NoReturn
<1>5. result \in BOOLEAN /\ (result <=> "end" \notin EndsOf[c.node])
  <2>1. \A k \in DOMAIN c.results : c.results[k] <=> ~Unreturned(c.node, k)
    BY <1>3 DEF ResultsRight
  <2> QED
    BY <1>2, <1>3, <1>4, <2>1, ReturnsIs
<1> HIDE DEF result
<1>6. CallElements' = CallElements /\ EndsOf' = EndsOf /\ IsGraph'
  BY <1>2, <1>4, ReturnGraphStays DEF IsGraph
<1>7. PICK m \in Nat : m = l - 1
  BY <1>3
<1>8. /\ below \in Seq(CallElements) /\ Len(below) = m
      /\ \A i \in 1..m : below[i] = calls[i]
  <2>1. below = SubSeq(calls, 1, m)
    BY <1>1, <1>7 DEF Front
  <2>2. /\ SubSeq(calls, 1, m) \in Seq(CallElements)
        /\ Len(SubSeq(calls, 1, m)) = IF 1 <= m THEN m - 1 + 1 ELSE 0
        /\ \A i \in 1..(m - 1 + 1) : SubSeq(calls, 1, m)[i] = calls[1 + i - 1]
    <3>1. \A i \in 1..m : i \in 1..l
      BY <1>3, <1>7
    <3>2. \A i \in 1..m : calls[i] \in CallElements
      BY <1>1, <1>2, <3>1, CallFacts
    <3> QED
      BY <1>1, <1>3, <1>7, <3>2, SubSeqProperties
  <2>3. Len(SubSeq(calls, 1, m)) = m
    BY <1>7, <2>2
  <2>4. ASSUME NEW i \in 1..m
        PROVE  below[i] = calls[i]
    <3>1. i \in 1..(m - 1 + 1) /\ 1 + i - 1 = i
      BY <1>7
    <3> QED
      BY <2>1, <2>2, <3>1
  <2> HIDE DEF below
  <2> QED
    BY <2>1, <2>2, <2>3, <2>4
<1> HIDE DEF below
<1>9. below = <<>> <=> m = 0
  BY <1>7, <1>8, EmptySeq
<1>10. CASE m = 0
  <2>1. l = 1 /\ at \in DOMAIN functions /\ phase = "returns" /\ MustReturn(functions[at])
        /\ c.node = functions[at].define /\ at \in Nat
    <3>1. l = 1
      BY <1>3, <1>7, <1>10
    <3> QED
      BY <1>1, <1>2, <3>1 DEF ReturnInv, CalledFor
  <2>2. calls' = <<>> /\ at' = at + 1
        /\ errors' = IF result THEN errors ELSE errors \union {NoReturn(c.node)}
    BY <1>4, <1>9, <1>10
  <2>3. CallsRight' /\ CalledFor'
    BY <2>2 DEF CallsRight, CalledFor
  <2>4. \A n : NoReturn(n) \in errors' <=> NoReturn(n) \in errors \/ (~result /\ n = c.node)
    <3>1. \A n, o : NoReturn(n) = NoReturn(o) => n = o
      BY DEF NoReturn
    <3> QED
      BY <1>5, <2>2, <3>1
  <2>5. NoneWrong'
    <3>1. ASSUME NEW n, NoReturn(n) \in errors'
          PROVE  n \in DOMAIN nodes /\ "end" \in EndsOf[n]
      BY <1>3, <1>5, <2>4, <3>1 DEF ReturnInv, NoneWrong
    <3> QED
      BY <1>4, <1>6, <3>1 DEF NoneWrong, NoReturn
  <2>6. NoneMissed'
    <3>1. ASSUME NEW j \in DOMAIN functions, j < at + 1, MustReturn(functions[j]),
                 "end" \in EndsOf[functions[j].define]
          PROVE  NoReturn(functions[j].define) \in errors'
      <4>1. j < at \/ j = at
        BY <1>2, <2>1, <3>1, FunctionFacts
      <4>2. CASE j < at
        BY <2>1, <2>4, <3>1, <4>2 DEF ReturnInv, NoneMissed
      <4>3. CASE j = at
        BY <1>5, <2>1, <2>4, <3>1, <4>3
      <4> QED
        BY <4>1, <4>2, <4>3
    <3> QED
      BY <1>4, <1>6, <2>2, <3>1 DEF NoneMissed, NoReturn, MustReturn
  <2> QED
    BY <1>4, <1>6, <2>1, <2>2, <2>3, <2>5, <2>6 DEF ReturnInv
<1>11. CASE m # 0
  <2>1. m \in Nat \ {0} /\ m \in 1..m /\ m \in 1..l /\ m + 1 = l /\ m + 1 \in 1..l
    BY <1>3, <1>7, <1>11
  <2> DEFINE b == calls[m]
             d == [b EXCEPT !.results = Append(@, result)]
             t == [below EXCEPT ![m] = d]
  <2>2. calls' = t /\ at' = at /\ errors' = errors /\ below[m] = b
    BY <1>4, <1>8, <1>9, <1>11, <2>1
  <2>3. PICK k : k = Len(b.results) + 1
    OBVIOUS
  <2>4. b \in CallElements /\ ResultsRight(b) /\ WaitsFor(b, c)
    BY <1>1, <1>2, <1>3, <2>1, CallFacts DEF ReturnInv, CallsRight
  <2>5. k <= Len(Looked(b.node)) /\ (result <=> ~Unreturned(b.node, k))
    BY <1>5, <2>3, <2>4 DEF WaitsFor, Unreturned
  <2> HIDE DEF b
  <2>6. d \in CallElements /\ d.node = b.node /\ ResultsRight(d)
    BY <1>2, <1>5, <2>3, <2>4, <2>5, AnswerFits
  <2> HIDE DEF d
  <2>7. /\ \A i \in 1..m : ResultsRight(below[i])
        /\ \A i \in 1..(m - 1) : WaitsFor(below[i], below[i + 1])
    <3>1. \A i \in 1..m : i \in 1..l
      BY <2>1
    <3>2. \A i \in 1..(m - 1) : i \in 1..m /\ i + 1 \in 1..m
      BY <2>1
    <3> QED
      BY <1>3, <1>8, <3>1, <3>2 DEF ReturnInv, CallsRight
  <2>8. /\ t \in Seq(CallElements) /\ DOMAIN t = 1..m /\ t[1].node = below[1].node
        /\ \A i \in DOMAIN t : ResultsRight(t[i])
        /\ \A i \in DOMAIN t : i + 1 \in DOMAIN t => WaitsFor(t[i], t[i + 1])
    <3>1. d.node = below[m].node
      BY <2>2, <2>6
    <3> QED
      BY <1>2, <1>8, <2>1, <2>6, <2>7, <3>1, AnsweredCalls
  <2> HIDE DEF t
  <2>9. CallsRight'
    BY <1>4, <1>6, <2>2, <2>8, ReturnGraphStays DEF CallsRight
  <2>10. CalledFor'
    <3>1. 1 \in 1..m
      BY <2>1
    <3>2. calls'[1].node = calls[1].node
      BY <1>8, <2>2, <2>8, <3>1
    <3> QED
      BY <1>2, <1>4, <2>2, <3>2 DEF ReturnInv, CalledFor, MustReturn
  <2>11. NoneWrong' /\ NoneMissed'
    BY <1>4, <1>6, <2>2 DEF ReturnInv, NoneWrong, NoneMissed, NoReturn, MustReturn
  <2> QED
    BY <1>4, <1>6, <2>2, <2>9, <2>10, <2>11 DEF ReturnInv
<1> QED
  BY <1>7, <1>10, <1>11

LEMMA StepReturnInv == ReturnInv /\ [Next]_vars => ReturnInv'
<1> SUFFICES ASSUME ReturnInv, [Next]_vars
             PROVE  ReturnInv'
  OBVIOUS
<1>1. CASE DetectLoops
  BY <1>1, DetectLoopsReturns
<1>2. CASE CheckReturns
  BY <1>2, BeginFunctionReturns, SkipFunctionReturns, LookBehindReturns, GiveResultReturns,
     ReturnsDoneReturns DEF CheckReturns
<1>3. CASE UNCHANGED vars
  <2>1. /\ nodes' = nodes /\ functions' = functions /\ phase' = phase /\ at' = at
        /\ calls' = calls /\ errors' = errors
    BY <1>3 DEF vars
  <2>2. IsGraph' /\ CallsRight' /\ EndsOf' = EndsOf
    BY <2>1, CallsStay, ReturnGraphStays
  <2> QED
    BY <2>1, <2>2 DEF ReturnInv, CalledFor, NoneWrong, NoneMissed, NoReturn, MustReturn
<1> QED
  BY <1>1, <1>2, <1>3 DEF Next

(* check_for_return rejects a subroutine with outputs exactly if its code  *)
(* can end without a Return, for every graph, however IfThenElse and other *)
(* branches are nested (dsemantic.c:2286-2400).                            *)
THEOREM ReturnsAreReported == Spec => []ReturnsReported
<1>1. Spec => []ReturnInv
  BY InitReturnInv, StepReturnInv, PTL DEF Spec
<1> QED
  BY <1>1, ReturnInvReports, PTL
=============================================================================
