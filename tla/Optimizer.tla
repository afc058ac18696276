------------------------------ MODULE Optimizer ------------------------------
(***************************************************************************)
(* The optimiser of doptimize.c: passes that walk over the bytecode of a   *)
(* sheet and cut pieces out of it, and d_optimize_remove_bytecode, which   *)
(* after each cut corrects whatever holds an address: relative jumps and   *)
(* calls, the list of instructions to link, the addresses of the sheet's   *)
(* functions and of its Start node.                                        *)
(*                                                                         *)
(* An instruction is a record: what it does, how many bytes its immediate  *)
(* takes, the immediate.  Addresses are in bytes, as in C.  OTHER stands   *)
(* for all the instructions no pass looks at.                              *)
(***************************************************************************)
EXTENDS Integers, Sequences, SequencesExt, FiniteSets

CONSTANTS
  BSize, HSize, FSize,  \* bytes of a byte, half and full immediate
  BMax, HMax,           \* the greatest byte and half immediate
  Functions,            \* functions of the sheet, which link to themselves
  Variables,            \* links that are not resolved before linking
  Programs              \* what the code generator may have left in the sheet

(* Instructions whose immediate is relative to their own address.          *)
Relative == {"JR", "JRCON", "CALLR"}

Immediate == Relative \union {"PUSH", "PUSHN", "POPN"}

Opcodes == Immediate \union {"NOT", "POP", "RET", "RETN", "CALLI", "OTHER"}

Ins == [op : Opcodes, width : {0, BSize, HSize, FSize}, arg : Int]

ASSUME SizesAssumption ==
  /\ BSize \in Nat \ {0} /\ HSize \in Nat /\ FSize \in Nat
  /\ BSize < HSize /\ HSize < FSize
  /\ BMax \in Nat /\ HMax \in Nat /\ BMax < HMax

-----------------------------------------------------------------------------
(* d_vm_ins_size *)
Size(ins) == 1 + ins.width + IF ins.op \in {"CALLI", "CALLR"} THEN BSize ELSE 0

(* The address of every instruction, and of the end of the text.           *)
Addresses(t) ==
  LET address[k \in 1..(Len(t) + 1)] ==
        IF k = 1 THEN 0 ELSE address[k - 1] + Size(t[k - 1])
  IN  address

(* The linker writes the address of a function into a call, and that of    *)
(* anything else into one of these.  CALLR is what a CALLI may become.     *)
LinkedTo(to) ==
  IF to \in Functions THEN {"CALLI"} ELSE {"PUSH", "CALLI", "CALLR", "OTHER"}

(* An instruction that the linker can write an address into.               *)
CanLink(t, l) ==
  \E k \in DOMAIN t :
    /\ Addresses(t)[k] = l.ins
    /\ t[k].width = FSize /\ t[k].op \in LinkedTo(l.to)

Links == [ins : Nat, to : Functions \union Variables]

ASSUME ProgramsAssumption ==
  \A p \in Programs :
    /\ p.text \in Seq(Ins)
    /\ p.links \subseteq Links /\ \A l \in p.links : CanLink(p.text, l)
    /\ p.ptr \in [Functions -> Nat] /\ p.main \in Nat

(* Instructions that end a function, and those that may go on elsewhere.   *)
Returns  == {"RET", "RETN"}
Branches == {"JR", "JRCON", "CALLI", "CALLR"}

(* Execution can begin here: no function runs on into the next.            *)
Entry(t, address) ==
  \E k \in DOMAIN t :
    Addresses(t)[k] = address /\ (k > 1 => t[k - 1].op \in Returns)

(* Of the sheet's own functions, whose addresses its links stand for.      *)
LinksToFunction(ls, address) ==
  \E l \in ls : /\ l.ins = address /\ l.to \in Functions
                /\ \A other \in ls : other.ins = address => other = l

(* What the code generator makes: it ends with a return, jumps lead to     *)
(* instructions, functions begin where others end, and it pops no negative *)
(* number.  A call of another sheet's function is an OTHER with a link: no *)
(* pass looks at that either (doptimize.c:556, 707).                       *)
WellFormed(p) ==
  /\ p.text # <<>> /\ p.text[Len(p.text)].op \in Returns
  /\ \A k \in DOMAIN p.text :
       /\ p.text[k].op \in Relative =>
            \E j \in DOMAIN p.text : Addresses(p.text)[k] + p.text[k].arg = Addresses(p.text)[j]
       /\ p.text[k].op = "CALLI" => LinksToFunction(p.links, Addresses(p.text)[k])
       /\ p.text[k].op = "POPN" => p.text[k].arg \in Nat
  /\ Entry(p.text, p.main) /\ \A f \in Functions : Entry(p.text, p.ptr[f])

ASSUME CodeAssumption == \A p \in Programs : WellFormed(p)

-----------------------------------------------------------------------------
VARIABLES
  original,   \* the program the code generator has left
  text,       \* sheet->_text
  links,      \* sheet->_insLinkList: the address of an instruction, and what to
  ptr,        \* _ptr of the link metadata of each function of the sheet
  main,       \* sheet->_main
  pass,       \* the pass that runs
  i,          \* the instruction it has come to
  repeat,     \* a pass of this round has found something
  intoCut     \* history: a jump led into a piece that was cut out, back to its
              \* first byte, or to an instruction changed to make up for it

vars == <<original, text, links, ptr, main, pass, i, repeat, intoCut>>

-----------------------------------------------------------------------------
AddressOf(k) == Addresses(text)[k]

-----------------------------------------------------------------------------
(* The immediate of a relative instruction that is now at the address at,  *)
(* after len bytes have been cut out at start.  The sum of the first test  *)
(* is unsigned in C, so that it is never less than start if negative.      *)
RelocatedNeverBack(at, amt, start, len) ==
  IF at < start /\ amt > 0 /\ at + amt >= start + len THEN amt - len ELSE amt

Relocated(at, amt, start, len) ==
  IF at >= start /\ amt < 0
  THEN IF at + len + amt \in 0..(start - 1) THEN amt + len ELSE amt
  ELSE IF at < start /\ amt > 0 /\ at + amt >= start + len THEN amt - len ELSE amt

(* An address somebody else holds, after the same cut.                     *)
MovedAlways(address, start, len) == address - len

Moved(address, start, len) ==
  IF address < start THEN address
  ELSE IF address < start + len THEN start ELSE address - len

(* The loop over the text that is left stops before its last instruction.  *)
RelocatedText(rest, start, len) ==
  [k \in DOMAIN rest |->
     IF rest[k].op \in Relative /\ k # Len(rest)
     THEN [rest[k] EXCEPT !.arg = Relocated(Addresses(rest)[k], @, start, len)]
     ELSE rest[k]]

(* Does a jump that is left lead where it is not looked after?             *)
LeadsInto(rest, start, len) ==
  \E k \in DOMAIN rest :
    LET now    == Addresses(rest)[k]
        before == IF now >= start THEN now + len ELSE now
        target == before + rest[k].arg
    IN  /\ rest[k].op \in Relative
        /\ target \in (start + 1)..(start + len - 1) \/ (target = start /\ before > start)

(* d_optimize_remove_bytecode, all but the text.                           *)
CutElsewhere(start, len) ==
  /\ links' = {[l EXCEPT !.ins = IF @ >= start + len THEN @ - len ELSE @] :
                 l \in {l \in links : l.ins \notin start..(start + len - 1)}}
  /\ ptr' = [f \in Functions |-> Moved(ptr[f], start, len)]
  /\ main' = Moved(main, start, len)

(* Does a jump lead to this instruction?                                   *)
LeadsTo(k) ==
  \E j \in DOMAIN text : text[j].op \in Relative /\ AddressOf(j) + text[j].arg = AddressOf(k)

(* Cuts out n instructions from the one the pass has come to, of a text in *)
(* which the one behind them may be changed to make up for it.             *)
Cut(t, n) ==
  LET rest  == SubSeq(t, 1, i - 1) \o SubSeq(t, i + n, Len(t))
      start == AddressOf(i)
      len   == Addresses(t)[i + n] - start
  IN  /\ text' = RelocatedText(rest, start, len)
      /\ intoCut' = (intoCut \/ LeadsInto(rest, start, len) \/ (t # text /\ LeadsTo(i + n)))
      /\ CutElsewhere(start, len)

(* Gives this instruction another opcode and a shorter immediate, and cuts *)
(* out the bytes that are not needed any more.                             *)
Shorten(ins) ==
  LET len   == text[i].width - ins.width
      start == AddressOf(i) + 1
  IN  /\ text' = [RelocatedText([text EXCEPT ![i] = ins], start, len) EXCEPT ![i] = ins]
      /\ CutElsewhere(start, len)
      /\ UNCHANGED intoCut

Untouched == UNCHANGED <<text, links, ptr, main, intoCut>>

-----------------------------------------------------------------------------
In(p) == pass = p /\ UNCHANGED original

(* The passes that look at two instructions stop at the last one.          *)
HasNext == i < Len(text)

Goto(p) == pass' = p /\ i' = 1 /\ repeat' = repeat

Found  == repeat' = TRUE /\ UNCHANGED <<pass, i>>
Onward == i' = i + 1 /\ UNCHANGED <<pass, repeat>>

(* d_optimize_not_consecutive *)
NotConsecutive ==
  /\ In("not")
  /\ IF ~HasNext THEN Untouched /\ Goto("pushPop")
     ELSE IF text[i].op = "NOT" /\ text[i + 1].op = "NOT"
     THEN Cut(text, 2) /\ Found
     ELSE Untouched /\ Onward

(* d_optimize_push_pop_consecutive *)
PushPopConsecutive ==
  /\ In("pushPop")
  /\ IF ~HasNext THEN Untouched /\ Goto("useless")
     ELSE IF text[i].op = "PUSH" /\ text[i + 1].op = "POP"
     THEN Cut(text, 2) /\ Found
     ELSE IF text[i].op = "PUSH" /\ text[i + 1].op = "POPN" /\ text[i + 1].arg > 0
     THEN Cut([text EXCEPT ![i + 1].arg = @ - 1], 1) /\ Found
     ELSE Untouched /\ Onward

(* Mutant: what d_optimize_useless finds starts no other round.            *)
UselessNoRepeat ==
  /\ In("useless")
  /\ IF i > Len(text)
     THEN /\ Untouched
          /\ pass' = IF repeat THEN "not" ELSE "relative"
          /\ i' = 1 /\ repeat' = FALSE
     ELSE IF text[i].op \in {"POPN", "PUSHN"} /\ text[i].arg = 0
     THEN Cut(text, 1) /\ UNCHANGED <<pass, i, repeat>>
     ELSE Untouched /\ Onward

(* d_optimize_useless, and at its end the end of the round.                *)
Useless ==
  /\ In("useless")
  /\ IF i > Len(text)
     THEN /\ Untouched
          /\ pass' = IF repeat THEN "not" ELSE "relative"
          /\ i' = 1 /\ repeat' = FALSE
     ELSE IF text[i].op \in {"POPN", "PUSHN"} /\ text[i].arg = 0
     THEN Cut(text, 1) /\ Found
     ELSE Untouched /\ Onward

(* The links of this instruction to the sheet's own functions.             *)
OwnLinks(k) == {l \in links : l.ins = AddressOf(k) /\ l.to \in Functions}

(* d_optimize_call_func_relative *)
CallFuncRelative ==
  /\ In("relative")
  /\ text' = [k \in DOMAIN text |->
                IF OwnLinks(k) # {}
                THEN LET l == CHOOSE l \in OwnLinks(k) : TRUE
                     IN  [text[k] EXCEPT !.op = "CALLR", !.arg = ptr[l.to] - l.ins]
                ELSE text[k]]
  /\ links' = {l \in links : l.to \notin Functions}
  /\ Goto("simplify")
  /\ UNCHANGED <<ptr, main, intoCut>>

(* d_optimize_simplify *)
Simpler(ins) ==
  IF ins.op = "RETN" /\ ins.arg = 0 THEN [op |-> "RET", width |-> 0, arg |-> 0]
  ELSE IF ins.op = "POPN" /\ ins.arg = 1 THEN [op |-> "POP", width |-> 0, arg |-> 0]
  ELSE ins

Simplify ==
  /\ In("simplify")
  /\ IF i > Len(text) THEN Untouched /\ Goto("shrink")
     ELSE /\ IF Simpler(text[i]) # text[i] THEN Shorten(Simpler(text[i])) ELSE Untouched
          /\ Onward

(* Mutant: forgets the instructions that the linker will write to.         *)
ShrinkableLinked(ins) == ins.op \in Immediate /\ ins.width = FSize

(* Of the operations of SHRINK_FIMMEDIATE_OPS (doptimize.c:673-681) those  *)
(* with an opcode here are shrunk.  The others (arithmetic and logic with  *)
(* an immediate, GET, ...) are OTHER: the same lines would shrink them,    *)
(* with no effect on the rest of the text but that it moves.               *)
Shrinkable(ins) ==
  /\ ins.op \in Immediate /\ ins.width = FSize
  /\ \A l \in links : l.ins # AddressOf(i)

Shrunk(ins, width) ==
  [ins EXCEPT !.width = width,
              !.arg = IF ins.op \in Relative /\ @ > 0 THEN @ - (FSize - width) ELSE @]

Fits(n, greatest) == n \in (-greatest - 1)..greatest

(* d_optimize_shrink_fimmediate *)
ShrinkFimmediate ==
  /\ In("shrink")
  /\ IF i > Len(text) THEN Untouched /\ Goto("done")
     ELSE /\ IF ~Shrinkable(text[i]) THEN Untouched
             ELSE IF Fits(text[i].arg, BMax) THEN Shorten(Shrunk(text[i], BSize))
             ELSE IF Fits(text[i].arg, HMax) THEN Shorten(Shrunk(text[i], HSize))
             ELSE Untouched
          /\ Onward

(* d_optimize_all *)
Init ==
  /\ original \in Programs
  /\ text = original.text /\ links = original.links
  /\ ptr = original.ptr /\ main = original.main
  /\ pass = "not" /\ i = 1 /\ repeat = FALSE
  /\ intoCut = FALSE

Next ==
  \/ NotConsecutive \/ PushPopConsecutive \/ Useless
  \/ CallFuncRelative \/ Simplify \/ ShrinkFimmediate

Spec == Init /\ [][Next]_vars

-----------------------------------------------------------------------------
(* Every variable keeps its type.                                          *)
TypeOK ==
  /\ text \in Seq(Ins) /\ i \in 1..(Len(text) + 1)
  /\ links \subseteq Links
  /\ ptr \in [Functions -> Nat] /\ main \in Nat
  /\ pass \in {"not", "pushPop", "useless", "relative", "simplify", "shrink", "done"}
  /\ repeat \in BOOLEAN /\ intoCut \in BOOLEAN

(***************************************************************************)
(* The linker can go on: each entry of its list is still the address of an *)
(* instruction whose immediate has the full width that the linker writes,  *)
(* after any number of cuts (doptimize.c:188-204, 699-711).                *)
(***************************************************************************)
Linkable ==
  \A l \in links : \E k \in DOMAIN text :
    AddressOf(k) = l.ins /\ text[k].width = FSize

(***************************************************************************)
(* The rounds go on until no pass has anything left to find, although each *)
(* pass makes work for the ones before it (doptimize.c:250-285).           *)
(***************************************************************************)
NothingLeft ==
  pass \notin {"not", "pushPop", "useless"} =>
    /\ \A k \in 1..(Len(text) - 1) :
         /\ ~(text[k].op = "NOT" /\ text[k + 1].op = "NOT")
         /\ text[k].op = "PUSH" =>
              text[k + 1].op # "POP" /\ ~(text[k + 1].op = "POPN" /\ text[k + 1].arg > 0)
    /\ \A k \in DOMAIN text : ~(text[k].op \in {"POPN", "PUSHN"} /\ text[k].arg = 0)

-----------------------------------------------------------------------------
(***************************************************************************)
(* What a program does: it is run from an address with a sequence of       *)
(* choices, one for each jump (taken or not) and each call (followed into  *)
(* the callee, or past it).  What it shows is the stack at each OTHER      *)
(* instruction, call and return.  NOT is applied to truth values only.     *)
(***************************************************************************)
Pushed(stack, n) == [k \in 1..n |-> [value |-> 0, negated |-> FALSE]] \o stack
Popped(stack, n) == SubSeq(stack, n + 1, Len(stack))

Negated(stack) ==
  IF stack = <<>> THEN stack
  ELSE <<[Head(stack) EXCEPT !.negated = ~@]>> \o Tail(stack)

Seen(what, n, stack) == <<[what |-> what, n |-> n, stack |-> stack]>>

(* The stack behind an instruction.                                        *)
After(ins, stack) ==
  CASE ins.op = "NOT"   -> Negated(stack)
    [] ins.op = "PUSH"  -> <<[value |-> ins.arg, negated |-> FALSE]>> \o stack
    [] ins.op = "PUSHN" -> Pushed(stack, ins.arg)
    [] ins.op = "POPN"  -> Popped(stack, ins.arg)
    [] ins.op \in {"POP", "JRCON"} -> Popped(stack, 1)
    [] OTHER -> stack

Shows(ins, stack) ==
  CASE ins.op \in {"CALLI", "CALLR"} -> Seen("CALL", 0, stack)
    [] ins.op = "OTHER"  -> Seen("OTHER", 0, stack)
    [] ins.op \in Returns -> Seen("RET", ins.arg, stack)
    [] OTHER -> <<>>

(* Where a jump or call leads.                                             *)
Target(p, at, ins) ==
  IF ins.op = "CALLI" THEN p.ptr[(CHOOSE l \in p.links : l.ins = at).to] ELSE at + ins.arg

State(at, stack, shown, choices, over) ==
  [at |-> at, stack |-> stack, shown |-> shown, choices |-> choices, over |-> over]

Executed(p, s, ins) ==
  LET stack  == After(ins, s.stack)
      shown  == s.shown \o Shows(ins, s.stack)
      next   == s.at + Size(ins)
      target == Target(p, s.at, ins)
  IN  IF ins.op \in Returns \/ (ins.op \in Branches /\ s.choices = <<>>)
      THEN State(s.at, stack, shown, s.choices, TRUE)
      ELSE IF ins.op \in Branches
      THEN State(IF ins.op = "JR" \/ Head(s.choices) THEN target ELSE next,
                 stack, shown, Tail(s.choices), FALSE)
      ELSE State(next, stack, shown, s.choices, FALSE)

Step(p, s) ==
  LET here == {k \in DOMAIN p.text : Addresses(p.text)[k] = s.at}
  IN  IF s.over THEN s
      ELSE IF here = {} THEN [s EXCEPT !.shown = @ \o Seen("nothing", 0, s.stack), !.over = TRUE]
      ELSE Executed(p, s, p.text[CHOOSE k \in here : TRUE])

(* Between two choices every instruction is executed once at most.         *)
Steps(choices) == (Len(choices) + 1) * Len(original.text) + 1

Run(p, address, choices, steps) ==
  LET run[n \in 0..steps] ==
        IF n = 0 THEN State(address, <<>>, <<>>, choices, FALSE) ELSE Step(p, run[n - 1])
  IN  run

Shown(p, address, choices) ==
  Run(p, address, choices, Steps(choices))[Steps(choices)].shown

Optimized == [text |-> text, links |-> links, ptr |-> ptr, main |-> main]

Pathways == [1..2 -> BOOLEAN]

(***************************************************************************)
(* The optimised program does what the original does, from Start and from  *)
(* every function, unless a jump led into a piece that was cut out (a TODO *)
(* of the code) or to an instruction changed to make up for one            *)
(* (doptimize.c:62-238 and all passes).                                    *)
(***************************************************************************)
SameBehaviour ==
  pass = "done" /\ ~intoCut =>
    \A choices \in Pathways :
      /\ Shown(Optimized, main, choices) = Shown(original, original.main, choices)
      /\ \A f \in Functions :
           Shown(Optimized, ptr[f], choices) = Shown(original, original.ptr[f], choices)
=============================================================================
