------------------------------- MODULE CodeGen -------------------------------
(***************************************************************************)
(* The code generator (dcodegen.c).  It walks the graph of a sheet from    *)
(* its Start and Define nodes along the execution wires, and backwards     *)
(* along the value wires of each node it meets, and writes instructions    *)
(* for a stack machine.  Where a value lies is known only through two      *)
(* pieces of bookkeeping, both kept while the code is being written: the   *)
(* index of the top of the stack, and the index each socket was given.     *)
(*                                                                         *)
(* Sizes are counted in instructions, not in bytes; every jump is relative *)
(* and is computed from the sizes of pieces of code, as in the source.     *)
(***************************************************************************)
EXTENDS Integers, Sequences, FiniteSets, SequencesExt, Eagerly

(***************************************************************************)
(* graph.nodes[n] is a record: fn, the core function or what the custom    *)
(* name stands for; in, its value inputs; out, the types of its value      *)
(* outputs; next, the nodes its execution outputs lead to, 0 for none;     *)
(* and name, the operation, variable or function it refers to.  An input   *)
(* is wired to output `out` of node `from`, or has from = 0 and a literal. *)
(* graph.functions is the sequence of the functions of the sheet, and      *)
(* graph.start the first node after Start, 0 for none.                     *)
(***************************************************************************)
VARIABLE graph

Node(n)       == graph.nodes[n]
IsLiteral(in) == in.from = 0
Has(n, type)  == \E i \in DOMAIN Node(n).in : Node(n).in[i].type = type

(* d_is_execution_definition.                                              *)
IsExecution(n) ==
  \/ Node(n).fn \in {"For", "While", "IfThen", "IfThenElse", "Print", "Set"}
  \/ Node(n).fn \in {"Call", "Define", "Return"} /\ graph.functions[Node(n).name].isSubroutine

(* Sockets are numbered through the value inputs, then the value outputs.  *)
Input(n, i)  == <<n, i>>
Output(n, k) == <<n, Len(Node(n).in) + k>>
Sockets ==
  UNION {{n} \X (1..(Len(Node(n).in) + Len(Node(n).out))) : n \in DOMAIN graph.nodes}

(* The number of wires at an output socket.                                *)
Connections(n, k) ==
  Cardinality(UNION {{o} \X {i \in DOMAIN Node(o).in :
                             Node(o).in[i].from = n /\ Node(o).in[i].out = k} :
                     o \in DOMAIN graph.nodes})

Greatest(i, j) == IF i > j THEN i ELSE j

-----------------------------------------------------------------------------
(***************************************************************************)
(* The build context: the index of the top of the stack, the indices of    *)
(* the sockets, and the code so far.  base is the index of the top where   *)
(* the function began and is not in the source.  An instruction also tells *)
(* the index of the top the generator believed in when an execution node's *)
(* code starts with it; elsewhere its at is empty.                         *)
(***************************************************************************)
Ins(op, arg) == [op |-> op, arg |-> arg, at |-> {}]

(* A value has a representation, as an integer or as a float.              *)
Literal(in) == <<IF in.type = "Float" THEN "f" ELSE "i", in.val>>
Number(v)   == <<"i", v>>

(* The indices a node is given are -1 to begin with.                       *)
set_stack_index(c, socket, index) == [c EXCEPT !.pos[socket] = index]
get_stack_index(c, socket)        == c.pos[socket]

Fresh(c)       == [c EXCEPT !.code = <<>>]
Emit(c, code)  == [c EXCEPT !.code = @ \o code]
PushBy(c, ins) == [c EXCEPT !.code = Append(@, ins), !.top = @ + 1]
WithTop(c, t)  == [c EXCEPT !.top = t]

d_push_literal(c, n, i, cvtFloat) ==
  LET in   == Node(n).in[i]
      cvtf == IF in.type = "Integer" /\ cvtFloat THEN <<Ins("CVTF", 0)>> ELSE <<>>
  IN  set_stack_index(Emit(PushBy(c, Ins("PUSH", Literal(in))), cvtf), Input(n, i), c.top + 1)

d_push_variable(c, n) ==
  set_stack_index(PushBy(c, Ins("DEREF", Node(n).name)), Output(n, 1), c.top + 1)

(* The arguments lie at the bottom of the frame.                           *)
d_push_argument(c, k) == PushBy(c, Ins("GET", k))

RECURSIVE d_push_input(_, _, _, _), d_generate_nonexecution_node(_, _),
          d_generate_execution_node(_, _, _)

(***************************************************************************)
(* The value of an output, made for an input that is wired to it: computed *)
(* or copied if it is not on the stack.  A variable is read again, as it   *)
(* may have changed since.                                                 *)
(***************************************************************************)
Known(c, in) == get_stack_index(c, Output(in.from, in.out)) \in 0..c.top

(* Mutant: what was read once is taken to be good for ever.                *)
MadeOnce(c, in) ==
  CASE Known(c, in)             -> c
    [] Node(in.from).fn = "Define" -> d_push_argument(c, in.out)
    [] IsExecution(in.from)        -> c
    [] OTHER                       -> d_generate_nonexecution_node(c, in.from)

Made(c, in) ==
  CASE Known(c, in) /\ Node(in.from).fn = "Getter"  -> d_push_variable(c, in.from)
    [] ~Known(c, in) /\ Node(in.from).fn = "Define" -> d_push_argument(c, in.out)
    [] ~Known(c, in) /\ ~IsExecution(in.from)       -> d_generate_nonexecution_node(c, in.from)
    [] OTHER                                        -> c

(* ... and put on top, as a copy if it is an execution node's output.      *)
d_push_input(c, n, i, forceFloat) ==
  LET in       == Node(n).in[i]
      conn     == Output(in.from, in.out)
      argument == ~Known(c, in) /\ Node(in.from).fn = "Define"
      copied   == Known(c, in) /\ IsExecution(in.from)
      GetTop(d)    == PushBy(d, Ins("GET", get_stack_index(d, conn) - d.top))
      OnTop(d)     == get_stack_index(d, conn) = d.top
      Placed(d, t) == set_stack_index(d, Input(n, i), t)
  IN  IF IsLiteral(in) THEN d_push_literal(c, n, i, forceFloat)
      ELSE After(Made(c, in), LAMBDA d :
             IF argument \/ (OnTop(d) /\ ~copied) THEN Placed(d, d.top)
             ELSE IF copied THEN Placed(GetTop(d), d.top + 1)
             ELSE Placed(set_stack_index(GetTop(d), conn, d.top + 1), d.top + 1))

(* The inputs to push, the one that is to end on top last.                 *)
Pushed(n, order, ignoreLiterals) ==
  LET taken == SelectSeq([i \in DOMAIN Node(n).in |-> i],
                 LAMBDA i : \/ ~ignoreLiterals
                            \/ ~IsLiteral(Node(n).in[i])
                            \/ Node(n).in[i].type = "Float")
  IN  IF order THEN taken ELSE Reverse(taken)

(* Each input is found on the stack again when one is out of place; but    *)
(* the search for one begins at the last socket to be pushed and ends      *)
(* there: it steps away from the sockets and looks at no other.  Where     *)
(* that socket has no value, as the execution socket, nothing is tested.   *)
d_push_node_inputs(c, n, order, ignoreLiterals, forceFloat) ==
  LET s   == Pushed(n, order, ignoreLiterals)
      end == IF order THEN Len(Node(n).in) ELSE IF IsExecution(n) THEN 0 ELSE 1
      PositionsCorrect(d) == end \in Range(s) => get_stack_index(d, Input(n, end)) = d.top
      GetAgain(d, i) ==
        set_stack_index(PushBy(d, Ins("GET", get_stack_index(d, Input(n, i)) - d.top)),
                        Input(n, i), d.top + 1)
  IN  After(AfterAll(c, s, LAMBDA d, i : d_push_input(d, n, i, forceFloat)),
            LAMBDA d : IF PositionsCorrect(d) THEN d ELSE AfterAll(d, s, GetAgain))

-----------------------------------------------------------------------------
(* An operator is applied from the first input on; a literal that need not *)
(* become a float is the argument of the instruction.                      *)
d_generate_operator(c, n, forceFloat) ==
  LET in           == Node(n).in
      convertFloat == forceFloat \/ Has(n, "Float")
      Apply(i) == IF ~convertFloat /\ IsLiteral(in[i])
                  THEN Ins("OPI", [fn |-> Node(n).name, by |-> Literal(in[i])])
                  ELSE Ins("OP", [fn |-> Node(n).name, float |-> convertFloat])
      not  == Ins(IF in[1].type = "Integer" THEN "INV" ELSE "NOT", 0)
      code == IF Len(in) = 1 THEN <<not>> ELSE [j \in 1..(Len(in) - 1) |-> Apply(j + 1)]
  IN  After(d_push_node_inputs(c, n, FALSE, ~convertFloat, convertFloat), LAMBDA d :
        set_stack_index(
          WithTop(Emit(IF ~convertFloat /\ IsLiteral(in[1]) THEN d_push_literal(d, n, 1, FALSE)
                                                            ELSE d, code), c.top + 1),
          Output(n, 1), c.top + 1))

(* Div is the one operator whose result is made an integer again.          *)
ToInteger(c, n) ==
  IF Node(n).name = "Div" /\ Has(n, "Float") THEN Emit(c, <<Ins("CVTI", 0)>>) ELSE c

Negated  == {"#"}
StrCmpOf == [fn \in {"=", "<=", "<", ">=", ">", "#"} |->
              CASE fn \in {"=", "#"} -> 0 [] fn = "<=" -> 1 [] fn = "<" -> 2
                [] fn = ">=" -> 3 [] fn = ">" -> 4]

d_generate_comparator(c, n) ==
  LET fn      == IF Node(n).name \in Negated THEN "=" ELSE Node(n).name
      isFloat == Has(n, "Float")
      compare == IF Has(n, "String")
                 THEN <<Ins("PUSH", Number(StrCmpOf[fn])), Ins("SYSCALL", "STRCMP")>>
                 ELSE <<Ins("OP", [fn |-> fn, float |-> isFloat])>>
      not     == IF Node(n).name \in Negated THEN <<Ins("NOT", 0)>> ELSE <<>>
  IN  After(d_push_node_inputs(c, n, FALSE, FALSE, isFloat), LAMBDA d :
        set_stack_index(WithTop(Emit(d, compare \o not), d.top - 1), Output(n, 1), d.top - 1))

(* The results are taken to begin where the arguments end.                 *)
d_generate_call(c, n) ==
  LET Result(s) == s[1] = n /\ s[2] > Len(Node(n).in)
  IN  After(Emit(d_push_node_inputs(c, n, TRUE, FALSE, FALSE), <<Ins("CALL", Node(n).name)>>),
            LAMBDA d : [d EXCEPT !.pos = [s \in DOMAIN @ |->
              IF Result(s) THEN d.top - (s[2] - Len(Node(n).in) - 1) ELSE @[s]]])

d_generate_return(c, n) ==
  LET numReturns == Len(graph.functions[Node(n).name].rets)
  IN  IF numReturns = 0 THEN Emit(c, <<Ins("RET", 0)>>)
      ELSE Emit(d_push_node_inputs(c, n, FALSE, FALSE, FALSE), <<Ins("RETN", numReturns)>>)

(***************************************************************************)
(* Ternary: only the input that is chosen is computed.  The side that      *)
(* pushes less is given pushes to make up for it.  The condition is copied *)
(* for the jump if its source has another wire.                            *)
(***************************************************************************)
GenerateTernary(c, n) ==
  LET in    == Node(n).in
      known == IsLiteral(in[1])
      truth == in[1].val = 1
      copy  == IF Connections(in[1].from, in[1].out) > 1 THEN <<Ins("GET", 0)>> ELSE <<>>
      Side(d, i, taken) == IF taken THEN d_push_input(Fresh(d), n, i, FALSE) ELSE Fresh(d)
      Padded(d, final)  == (IF d.top < final THEN <<Ins("PUSHN", final - d.top)>> ELSE <<>>) \o d.code
      Joined(bool, true, false) ==
        LET final     == Greatest(true.top, false.top)
            trueCode  == Padded(true, final)
            falseCode == Append(Padded(false, final), Ins("JR", 1 + Len(trueCode)))
            d         == WithTop(false, final)
        IN  IF known
            THEN set_stack_index([d EXCEPT !.code = c.code \o Padded(IF truth THEN true ELSE false, final)],
                                 Output(n, 1), get_stack_index(d, Input(n, IF truth THEN 2 ELSE 3)))
            ELSE set_stack_index([d EXCEPT !.code = bool.code \o copy
                                    \o <<Ins("JRCON", 1 + Len(falseCode))>> \o falseCode \o trueCode],
                                 Output(n, 1), final)
  IN  After(d_push_input(c, n, 1, FALSE), LAMBDA bool :
      After(Side(bool, 2, ~known \/ truth), LAMBDA true :
      After(Side(WithTop(true, bool.top), 3, ~known \/ ~truth), LAMBDA false :
        Joined(bool, true, false))))

GenerateLength(c, n) ==
  After(Emit(d_push_input(c, n, 1, FALSE), <<Ins("PUSHN", 2), Ins("SYSCALL", "STRLEN")>>),
        LAMBDA d : set_stack_index(d, Output(n, 1), d.top))

d_generate_nonexecution_node(c, n) ==
  CASE Node(n).fn = "Ternary"    -> GenerateTernary(c, n)
    [] Node(n).fn = "Operator"   -> ToInteger(d_generate_operator(c, n, Node(n).name = "/"), n)
    [] Node(n).fn = "Comparator" -> d_generate_comparator(c, n)
    [] Node(n).fn = "Length"     -> GenerateLength(c, n)
    [] Node(n).fn = "Getter"     -> d_push_variable(c, n)
    [] Node(n).fn = "Call"       -> d_generate_call(c, n)

-----------------------------------------------------------------------------
(* The code of the node an execution output leads to, if there is one.     *)
Branch(c, n) == IF n = 0 THEN Fresh(c) ELSE d_generate_execution_node(Fresh(c), n, FALSE)

(* Mutant: the element that lies at the height to return to goes as well.  *)
PopBelow(c, t) == Append(c.code, Ins("POP", Greatest(0, c.top - t + 1)))

PopTo(c, t) == Append(c.code, Ins("POP", Greatest(0, c.top - t)))

(* Mutant: the condition is forgotten to be gone.                          *)
TestKept(c) == c

(* The condition is popped by the jump that tests it.                      *)
Tested(c) == WithTop(c, c.top - 1)

(***************************************************************************)
(* For: above the step and the stop value lies the index.  Whether it has  *)
(* passed the stop value depends on the sign of the step, which the code   *)
(* must find out when the step is not a literal.                           *)
(***************************************************************************)
ForPassed(step, float) ==
  LET Passed(fn) == Ins("OP", [fn |-> fn, float |-> float])
  IN  <<Ins("GET", -1), Ins("GET", -1)>> \o
      IF IsLiteral(step) THEN <<Passed(IF step.val > 0 THEN ">" ELSE "<")>>
      ELSE <<Ins("PUSH", Number(0)), Ins("GET", -5), Passed(">"), Ins("JRCON", 3),
             Passed("<"), Ins("JR", 2), Passed(">")>>

ForStep(step, float) ==
  IF ~float /\ IsLiteral(step) THEN <<Ins("OPI", [fn |-> "+", by |-> Literal(step)])>>
  ELSE <<Ins("GET", -2), Ins("OP", [fn |-> "+", float |-> float])>>

GenerateFor(c, n) ==
  LET float == Node(n).out[1] = "Float"
      loop  == ForPassed(Node(n).in[3], float)
      Code(body) == PopTo(body, c.top) \o ForStep(Node(n).in[3], float)
      Around(after) == loop \o <<Ins("JRCON", Len(after) + 2)>> \o after
                            \o <<Ins("JR", -(Len(loop) + 1 + Len(after)))>>
  IN  After(Branch(set_stack_index(c, Output(n, 1), c.top), Node(n).next[1]),
            LAMBDA body : [body EXCEPT !.top = c.top, !.code = c.code \o Around(Code(body))])

GenerateIf(c, n) ==
  LET both    == Node(n).fn = "IfThenElse"
      initTop == Tested(c).top
      Around(elseCode, thenCode) ==
        c.code \o <<Ins("JRCON", 2 + Len(elseCode))>> \o elseCode
               \o <<Ins("JR", 1 + Len(thenCode))>> \o thenCode
  IN  After(Branch(Tested(c), Node(n).next[1]), LAMBDA then :
      After(IF both THEN Branch(WithTop(then, initTop), Node(n).next[2]) ELSE then, LAMBDA else :
        [else EXCEPT !.top = initTop,
           !.code = Around(IF both THEN PopTo(else, initTop) ELSE <<>>, PopTo(then, initTop))]))

(* The argument that tells the system call how to write the value.         *)
TypeArg == [Integer |-> 0, Float |-> 1, String |-> 2, Boolean |-> 3]

GeneratePrint(c, n) ==
  Emit(c, <<Ins("PUSH", Number(1)), Ins("PUSH", Number(TypeArg[Node(n).in[1].type])),
            Ins("SYSCALL", "PRINT")>>)

GenerateSet(c, n) ==
  WithTop(Emit(c, <<Ins("PUSH", <<"adr", Node(n).name>>), Ins("SETADR", 0)>>), c.top - 1)

(* Mutant: the loop comes back to the test, not to the condition.          *)
BackToTest(condition, true) == Ins("JR", -(Len(true) + 2))

(* The loop comes back to the code that computes the condition.            *)
JumpBack(condition, true) == Ins("JR", -(Len(condition) + Len(true) + 2))

GenerateWhile(c, n, topBefore) ==
  LET never == IsLiteral(Node(n).in[1]) /\ Node(n).in[1].val = 0
      first == Node(n).next[1]
      Around(true) == <<Ins("NOT", 0), Ins("JRCON", Len(true) + 2)>>
                        \o Append(true, JumpBack(c.code, true))
  IN  IF never THEN c
      ELSE After(IF first = 0 THEN Fresh(c) ELSE Branch(Tested(c), first), LAMBDA body :
             [body EXCEPT !.top = c.top - 1, !.code = c.code \o Around(PopTo(body, topBefore))])

GenerateCore(c, n) ==
  LET float == Node(n).fn = "For" /\ Node(n).out[1] = "Float"
  IN  After(d_push_node_inputs(c, n, FALSE, FALSE, float), LAMBDA d :
        CASE Node(n).fn = "For"                      -> GenerateFor(d, n)
          [] Node(n).fn \in {"IfThen", "IfThenElse"} -> GenerateIf(d, n)
          [] Node(n).fn = "Print"                    -> GeneratePrint(d, n)
          [] Node(n).fn = "Set"                      -> GenerateSet(d, n)
          [] Node(n).fn = "While"                    -> GenerateWhile(d, n, c.top))

(* What the node left on the stack is popped, except what a call returned. *)
OwnCode(c, n) ==
  IF Node(n).fn = "Call" THEN d_generate_call(c, n)
  ELSE After(IF Node(n).fn = "Return" THEN d_generate_return(c, n) ELSE GenerateCore(c, n),
             LAMBDA d : [d EXCEPT !.code = PopTo(d, c.top), !.top = c.top])

Marked(code, at) == [code EXCEPT ![1].at = {at}]

(* Mutant: the code of the last node runs into what comes after it.        *)
RunsOn(n, retAtEnd) == <<>>

AtEnd(n, retAtEnd) ==
  IF retAtEnd /\ Node(n).fn # "Return" THEN <<Ins("RET", 0)>> ELSE <<>>

(* The node, and what follows it: its last execution output.               *)
d_generate_execution_node(c, n, retAtEnd) ==
  LET next == IF Node(n).next = <<>> THEN 0 ELSE Last(Node(n).next)
  IN  After(OwnCode(Fresh(c), n), LAMBDA d :
      After(IF next # 0 THEN d_generate_execution_node(Fresh(d), next, retAtEnd)
                        ELSE [d EXCEPT !.code = AtEnd(n, retAtEnd)], LAMBDA e :
        [e EXCEPT !.code = c.code \o Marked(d.code, c.top - c.base) \o @]))

-----------------------------------------------------------------------------
(* Each function, and Start, is preceded by a RET that no call reaches.    *)
Barrier == <<Ins("RET", 0)>>

d_generate_function(c, f) ==
  LET numInputs == Len(f.args) + IF f.isSubroutine THEN 1 ELSE 0
      d == [c EXCEPT !.top = numInputs, !.base = numInputs, !.code = Barrier]
  IN  IF ~f.isSubroutine THEN d_generate_return(d, f.return)
      ELSE IF f.first = 0 THEN d ELSE d_generate_execution_node(d, f.first, TRUE)

(* The index of the top is left as the last function had it.               *)
d_generate_start(c) ==
  LET d == [c EXCEPT !.base = c.top, !.code = Barrier]
  IN  IF graph.start = 0 THEN d ELSE d_generate_execution_node(d, graph.start, TRUE)

(* The code of the sheet, where each function's begins, and Start's.       *)
d_codegen_compile ==
  LET context == [top |-> -1, base |-> -1, code |-> <<>>, pos |-> [s \in Sockets |-> -1]]
      AddFunction(b, f) ==
        After(d_generate_function(b.context, f), LAMBDA d :
          [context |-> d, text |-> b.text \o d.code, entry |-> Append(b.entry, Len(b.text) + 2)])
      Sheet(fs, start) ==
        [text  |-> fs.text \o start.code \o IF Len(start.code) = 1 THEN Barrier ELSE <<>>,
         entry |-> fs.entry,
         main  |-> Len(fs.text) + 2]
  IN  After(AfterAll([context |-> context, text |-> <<>>, entry |-> <<>>],
                     graph.functions, AddFunction),
            LAMBDA fs : After(d_generate_start(fs.context), LAMBDA start : Sheet(fs, start)))
=============================================================================
