---------------------------- MODULE GeneratedCode ----------------------------
(***************************************************************************)
(* A sheet, compiled by the operators of CodeGen and then run by the       *)
(* virtual machine (dvm.c) instruction by instruction; and beside it what  *)
(* the graph of the sheet means, by evaluating each node when it is        *)
(* activated and its inputs when they are needed, with no stack at all.    *)
(*                                                                         *)
(* Values are whole numbers, a Boolean is 0 or 1, and a string is the      *)
(* number of its letters, all alike.                                       *)
(***************************************************************************)
EXTENDS CodeGen, TLC

CONSTANTS
  Sheets    \* the sheets that are compiled and run

VARIABLES
  text,     \* sheet->_text
  entry,    \* where the code of each function begins
  pc,       \* index of the next instruction, 0 when the machine has halted,
            \* -1 before the sheet is compiled
  stack,    \* the elements of the stack, without what CALL saves in it
  frames,   \* for each call: the return address, the height below the
            \* arguments, and the number of the arguments
  vars,     \* the variables, in the data section
  shown,    \* what was printed
  meant     \* what the graph means: what is printed, and the variables then

machine == <<pc, stack, frames, vars, shown>>
all     == <<graph, text, entry, meant, machine>>

-----------------------------------------------------------------------------
(* Operations on two values, the top of the stack first.                   *)
Compute(fn, x, y) ==
  LET Truth(b) == IF b THEN 1 ELSE 0
  IN  CASE fn = "+" -> x + y [] fn = "-" -> x - y [] fn = "*" -> x * y
        [] fn \in {"Div", "/"} -> x \div y
        [] fn = "=" -> Truth(x = y)
        [] fn = "<" -> Truth(x < y) [] fn = "<=" -> Truth(x <= y)
        [] fn = ">" -> Truth(x > y) [] fn = ">=" -> Truth(x >= y)

Comparisons == {"=", "<", "<=", ">", ">="}
Negation(integer, x) == IF integer THEN -x - 1 ELSE 1 - x

(***************************************************************************)
(* What the graph means.  A scope s has the variables, the arguments of    *)
(* the function, the values the execution nodes have put on their outputs, *)
(* what was printed, and whether a Return was met, with its inputs.        *)
(***************************************************************************)
RECURSIVE Value(_, _, _), Meant(_, _), MeantNode(_, _), Iterated(_, _, _, _, _)

ValueIn(s, in)    == IF IsLiteral(in) THEN in.val ELSE Value(s, in.from, in.out)
ValuesIn(s, n)    == [i \in DOMAIN Node(n).in |-> ValueIn(s, Node(n).in[i])]
Called(s, values) == [s EXCEPT !.args = values, !.done = FALSE, !.result = <<>>]

Value(s, n, k) ==
  LET in == Node(n).in
      v  == ValuesIn(s, n)
      f  == graph.functions[Node(n).name]
  IN  CASE IsExecution(n) /\ Node(n).fn # "Define" -> s.val[<<n, k>>]
        [] Node(n).fn = "Define"   -> s.args[k]
        [] Node(n).fn = "Getter"   -> s.vars[Node(n).name]
        [] Node(n).fn = "Operator" -> IF Len(in) = 1 THEN Negation(in[1].type = "Integer", v[1])
                                      ELSE FoldLeft(LAMBDA x, y : Compute(Node(n).name, x, y),
                                                    v[1], Tail(v))
        [] Node(n).fn = "Comparator" ->
             IF Node(n).name \in Negated THEN 1 - Compute("=", v[1], v[2])
                                         ELSE Compute(Node(n).name, v[1], v[2])
        [] Node(n).fn = "Length"   -> v[1]
        [] Node(n).fn = "Ternary"  -> ValueIn(s, in[IF v[1] = 1 THEN 2 ELSE 3])
        [] Node(n).fn = "Call" /\ ~f.isSubroutine -> ValuesIn(Called(s, v), f.return)[k]

Iterated(s, n, index, stop, step) ==
  IF s.done \/ (IF step > 0 THEN index > stop ELSE index < stop) THEN s
  ELSE After([s EXCEPT !.val = <<n, 1>> :> index @@ @], LAMBDA t :
       After(Meant(t, Node(n).next[1]), LAMBDA u :
       After(index + step, LAMBDA i : Iterated(u, n, i, stop, step))))

MeantNode(s, n) ==
  LET f == graph.functions[Node(n).name]
      Returned(t, results) == [t EXCEPT !.args = s.args, !.done = s.done, !.result = s.result,
        !.val = [o \in {n} \X DOMAIN f.rets |-> results[o[2]]] @@ s.val]
  IN  After(ValuesIn(s, n), LAMBDA v :
        CASE Node(n).fn = "For"   -> Iterated(s, n, v[1], v[2], v[3])
          [] Node(n).fn = "While" -> IF s.done \/ v[1] = 0 THEN s
                                     ELSE After(Meant(s, Node(n).next[1]), LAMBDA t : MeantNode(t, n))
          [] Node(n).fn = "IfThen" -> IF v[1] = 1 THEN Meant(s, Node(n).next[1]) ELSE s
          [] Node(n).fn = "IfThenElse" -> Meant(s, Node(n).next[IF v[1] = 1 THEN 1 ELSE 2])
          [] Node(n).fn = "Print"  -> [s EXCEPT !.shown = Append(@, v[1])]
          [] Node(n).fn = "Set"    -> [s EXCEPT !.vars[Node(n).name] = v[1]]
          [] Node(n).fn = "Return" -> [s EXCEPT !.done = TRUE, !.result = v]
          [] Node(n).fn = "Call"   ->
               After(After(Called(s, v), LAMBDA t : Meant(t, f.first)),
                     LAMBDA t : Returned(t, t.result)))

Meant(s, n) ==
  IF n = 0 \/ s.done THEN s
  ELSE After(MeantNode(s, n), LAMBDA t :
         IF Node(n).next = <<>> THEN t ELSE Meant(t, Last(Node(n).next)))

Meaning ==
  After([vars |-> [x \in DOMAIN graph.vars |-> graph.vars[x][2]], args |-> <<>>,
         val |-> <<>>, shown |-> <<>>, done |-> FALSE, result |-> <<>>],
        LAMBDA s : After(Meant(s, graph.start), LAMBDA t : [vars |-> t.vars, shown |-> t.shown]))

-----------------------------------------------------------------------------
(* The machine.  Operand(0) is the top of the stack, Operand(-1) below it. *)
Base       == IF frames = <<>> THEN 0 ELSE Last(frames).base
Height     == Len(stack) - Base
Operand(i) == stack[Len(stack) + i]
Under(k)   == SubSeq(stack, 1, Len(stack) - k)

(* The bits of a value, taken as an integer or as a float, whatever they   *)
(* were written as: a small integer is a float close to zero, a float a    *)
(* very large integer.                                                     *)
VeryLarge  == 1000000
AsInt(v)   == IF v[1] = "f" THEN VeryLarge ELSE v[2]
AsFloat(v) == IF v[1] = "f" THEN v[2] ELSE 0

Applied(fn, float, v, w) ==
  IF float THEN <<IF fn \in Comparisons THEN "i" ELSE "f", Compute(fn, AsFloat(v), AsFloat(w))>>
           ELSE <<"i", Compute(fn, AsInt(v), AsInt(w))>>

(* How many elements of its frame an instruction touches.                  *)
Needs(ins) ==
  CASE ins.op = "GET" -> IF ins.arg > 0 THEN ins.arg ELSE 1 - ins.arg
    [] ins.op \in {"POP", "RETN"} -> ins.arg
    [] ins.op \in {"OP", "SETADR"} -> 2
    [] ins.op \in {"OPI", "NOT", "INV", "CVTF", "CVTI", "JRCON"} -> 1
    [] ins.op = "CALL" -> Len(graph.functions[ins.arg].args)
    [] ins.op = "SYSCALL" -> 3
    [] OTHER -> 0

At(op) == pc > 0 /\ text[pc].op = op /\ Needs(text[pc]) <= Height
arg    == text[pc].arg
Continue(newStack) == /\ stack' = newStack
                      /\ pc' = pc + 1
                      /\ UNCHANGED <<frames, vars, shown>>

Push  == At("PUSH")  /\ Continue(Append(stack, arg))
PushN == At("PUSHN") /\ Continue(stack \o [i \in 1..arg |-> Number(0)])
Pop   == At("POP")   /\ Continue(Under(arg))
Get   == At("GET")   /\ Continue(Append(stack, IF arg > 0 THEN stack[Base + arg] ELSE Operand(arg)))
Deref == At("DEREF") /\ Continue(Append(stack, vars[arg]))

SetAdr ==
  /\ At("SETADR")
  /\ vars'  = [vars EXCEPT ![Operand(0)[2]] = Operand(-1)]
  /\ stack' = Under(2)
  /\ pc'    = pc + 1
  /\ UNCHANGED <<frames, shown>>

(* To divide by zero is a runtime error, of integers and of floats: the    *)
(* machine stops where it is.                                              *)
Divides(fn, float, by) ==
  fn \in {"Div", "/"} => (IF float THEN AsFloat(by) ELSE AsInt(by)) # 0

Op2_1 ==
  /\ At("OP") /\ Divides(arg.fn, arg.float, Operand(-1))
  /\ Continue(Append(Under(2), Applied(arg.fn, arg.float, Operand(0), Operand(-1))))

Op1_1_I ==
  /\ At("OPI") /\ Divides(arg.fn, FALSE, arg.by)
  /\ Continue(Append(Under(1), Applied(arg.fn, FALSE, Operand(0), arg.by)))

Op1_1 ==
  \/ At("NOT")  /\ Continue(Append(Under(1), Number(IF AsInt(Operand(0)) = 0 THEN 1 ELSE 0)))
  \/ At("INV")  /\ Continue(Append(Under(1), Number(Negation(TRUE, AsInt(Operand(0))))))
  \/ At("CVTF") /\ Continue(Append(Under(1), <<"f", AsInt(Operand(0))>>))
  \/ At("CVTI") /\ Continue(Append(Under(1), Number(AsFloat(Operand(0)))))

Jump == At("JR") /\ pc' = pc + arg /\ UNCHANGED <<stack, frames, vars, shown>>

JumpCon ==
  /\ At("JRCON")
  /\ pc'    = IF AsInt(Operand(0)) # 0 THEN pc + arg ELSE pc + 1
  /\ stack' = Under(1)
  /\ UNCHANGED <<frames, vars, shown>>

Call ==
  LET numArgs == Len(graph.functions[arg].args)
  IN  /\ At("CALL")
      /\ frames' = Append(frames, [ret |-> pc + 1, base |-> Len(stack) - numArgs,
                                   numArgs |-> numArgs])
      /\ pc' = entry[arg]
      /\ UNCHANGED <<stack, vars, shown>>

(* The values returned take the place of the frame; Start's RET halts.     *)
Ret ==
  LET kept == IF text[pc].op = "RETN" THEN arg ELSE 0
  IN  /\ At("RET") \/ At("RETN")
      /\ IF frames = <<>> THEN pc' = 0 /\ UNCHANGED <<stack, frames>>
         ELSE /\ pc'     = Last(frames).ret
              /\ frames' = Front(frames)
              /\ stack'  = SubSeq(stack, 1, Base) \o SubSeq(stack, Len(stack) - kept + 1, Len(stack))
      /\ UNCHANGED <<vars, shown>>

SysPrint ==
  LET v == Operand(-2)
  IN  /\ At("SYSCALL") /\ arg = "PRINT"
      /\ shown' = Append(shown, IF Operand(0)[2] = TypeArg.Float THEN AsFloat(v) ELSE AsInt(v))
      /\ stack' = Append(Under(3), Number(0))
      /\ pc'    = pc + 1
      /\ UNCHANGED <<frames, vars>>

SysStrCmp ==
  LET fn == CHOOSE f \in Comparisons : StrCmpOf[f] = Operand(0)[2]
  IN  /\ At("SYSCALL") /\ arg = "STRCMP"
      /\ Continue(Append(Under(3), Applied(fn, FALSE, Operand(-1), Operand(-2))))

SysStrLen ==
  /\ At("SYSCALL") /\ arg = "STRLEN"
  /\ Continue(Append(Under(3), Number(AsInt(Operand(-2)))))

-----------------------------------------------------------------------------
(***************************************************************************)
(* Sheets the generator keeps its books right for.  Each conjunct names a  *)
(* case in which it does not: the index of a computed value is not looked  *)
(* after once the value has been used; a call is taken to leave as much as *)
(* it takes; integers that come over a wire are never converted; types     *)
(* that Div and comparators get over a wire are not known to them; and the *)
(* condition of a Ternary is taken to stay below its result, where it lies *)
(* between that result and what was pushed before.                         *)
(***************************************************************************)
Computed(n) == /\ Node(n).fn \in {"Operator", "Comparator", "Ternary", "Length", "Call"}
               /\ ~IsExecution(n)
ComputedUsedOnce ==
  \A n \in DOMAIN graph.nodes : Computed(n) =>
    \/ Len(Node(n).out) = 1 /\ Connections(n, 1) <= 1
    \/ Len(Node(n).out) = 2 /\ Connections(n, 1) + Connections(n, 2) <= 1

CallsBalanced ==
  \A f \in Range(graph.functions) : Len(f.args) = Len(f.rets)

InFloats(n) ==
  \/ Node(n).fn \in {"Operator", "Comparator"} /\ (Has(n, "Float") \/ Node(n).name = "/")
  \/ Node(n).fn = "For" /\ Node(n).out[1] = "Float"
SourceType(in) == IF IsLiteral(in) THEN in.type ELSE Node(in.from).out[in.out]
IntegersLiteralAmongFloats ==
  \A n \in DOMAIN graph.nodes : InFloats(n) =>
    \A in \in Range(Node(n).in) : SourceType(in) = "Integer" => IsLiteral(in)

TypesOfWiresKnown ==
  \A n \in DOMAIN graph.nodes : Node(n).fn \in {"Operator", "Comparator"} =>
    \A in \in Range(Node(n).in) :
      SourceType(in) \in {"Float", "String"} => Has(n, SourceType(in))

(* The value of the node lies above more than one new element.             *)
RECURSIVE Wide(_)
Wide(n) == \/ Node(n).fn = "Ternary"
           \/ Computed(n) /\ Len(Node(n).out) # 1
           \/ Computed(n) /\ \E in \in Range(Node(n).in) : ~IsLiteral(in) /\ Wide(in.from)
FirstPushed(n) == IF Node(n).fn = "Call" THEN 1 ELSE Len(Node(n).in)
ConditionsShared ==
  \A n \in DOMAIN graph.nodes :
    /\ Node(n).fn = "Ternary" =>
         LET in == Node(n).in[1]
         IN  ~IsLiteral(in) /\ ~Computed(in.from) /\ Connections(in.from, in.out) > 1
    /\ Node(n).fn # "Ternary" =>
         \A i \in DOMAIN Node(n).in :
           \/ IsLiteral(Node(n).in[i]) \/ ~Wide(Node(n).in[i].from)
           \/ Node(n).fn # "Operator" /\ i = FirstPushed(n)

WithinLimits ==
  /\ ComputedUsedOnce /\ CallsBalanced /\ ConditionsShared
  /\ IntegersLiteralAmongFloats /\ TypesOfWiresKnown

InitAny ==
  /\ graph \in Sheets
  /\ text   = <<>>
  /\ entry  = <<>>
  /\ pc     = -1
  /\ stack  = <<>>
  /\ frames = <<>>
  /\ vars   = graph.vars
  /\ shown  = <<>>
  /\ meant  = <<>>

Init == InitAny /\ WithinLimits

Step == \/ Push \/ PushN \/ Pop \/ Get \/ Deref \/ SetAdr \/ Op2_1 \/ Op1_1_I \/ Op1_1
        \/ Jump \/ JumpCon \/ Call \/ Ret \/ SysPrint \/ SysStrCmp \/ SysStrLen
Run  == Step /\ UNCHANGED <<graph, text, entry, meant>>

(* The sheet is compiled and the machine is set to its main.               *)
Compile ==
  /\ pc = -1
  /\ \E sheet \in {d_codegen_compile} :
       text' = sheet.text /\ entry' = sheet.entry /\ pc' = sheet.main
  /\ meant' = Meaning
  /\ UNCHANGED <<graph, stack, frames, vars, shown>>

Next == Compile \/ Run

(* The machine takes the next step as long as there is one (d_vm_run).     *)
Spec    == Init /\ [][Next]_all /\ WF_machine(Run)
SpecAny == InitAny /\ [][Next]_all /\ WF_machine(Run)

-----------------------------------------------------------------------------
Reps == {"i", "f", "adr"}
TypeOK ==
  /\ pc \in -1..Len(text)
  /\ \A v \in Range(stack) \union Range(vars) : v[1] \in Reps
  /\ \A f \in Range(frames) : f.ret \in 1..Len(text) /\ f.base \in 0..Len(stack)

(* When an execution node's code begins, the frame is as high as the       *)
(* generator took it to be when it wrote that code: on whichever way it    *)
(* was reached, and however often.                                         *)
TopTracked ==
  pc > 0 => \A t \in text[pc].at :
    Height = t + IF frames = <<>> THEN 0 ELSE Last(frames).numArgs

(* No instruction reads or pops below the arguments of its own function,   *)
(* where the saved frame pointer and return address lie.                   *)
StaysInFrame == pc > 0 => Needs(text[pc]) <= Height

(* The program prints what its graph means, in that order, and leaves its  *)
(* variables so.                                                           *)
DoesWhatIsMeant ==
  /\ pc >= 0 => IsPrefix(shown, meant.shown)
  /\ pc = 0 => /\ shown = meant.shown
               /\ \A x \in DOMAIN vars : vars[x][2] = meant.vars[x]

(* A program whose graph means something that ends, ends.                  *)
Halts == (pc > 0) ~> (pc = 0)
=============================================================================
