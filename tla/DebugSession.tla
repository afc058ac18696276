---------------------------- MODULE DebugSession ----------------------------
(***************************************************************************)
(* A debugging session of ddebug.c: the loop that runs the virtual machine *)
(* one instruction at a time, tells the agenda what each instruction does, *)
(* and keeps a stack of sheets beside the machine's own stack of calls, to *)
(* know whose debug information the next instruction is to be looked up    *)
(* in.                                                                     *)
(*                                                                         *)
(* Any instruction may come next.  Of the debug information of a sheet it  *)
(* is known that each call is in it (d_generate_call adds it), and that an *)
(* instruction of another sheet is not.                                    *)
(***************************************************************************)
EXTENDS Integers, Sequences, SequencesExt

CONSTANTS
  Debuggable,       \* the sheets that have debug information
  Plain,            \* the sheets that have none
  Includes,         \* pairs of a sheet and one it includes, however deeply
  Nodes, Wires,
  None,             \* no node, no sheet
  SheetStackSize,   \* DEBUG_SHEET_STACK_SIZE: 64 in ddebug.h
  MaxCalls,         \* bound: calls pending in the virtual machine
  MaxCCalls         \* bound: calls of C functions

Sheets == Debuggable \cup Plain

ASSUME SheetsAssumption ==
  /\ Debuggable \cap Plain = {} /\ None \notin Sheets \cup Nodes
ASSUME IncludesAssumption ==
  /\ Includes \subseteq Sheets \X Sheets
  /\ \A s \in Sheets : <<s, s>> \notin Includes
  /\ \A s, t, u \in Sheets :
       <<s, t>> \in Includes /\ <<t, u>> \in Includes => <<s, u>> \in Includes
ASSUME BoundsAssumption ==
  /\ SheetStackSize \in Nat \ {0} /\ MaxCalls \in Nat \ {0} /\ MaxCCalls \in Nat

VARIABLES
  agenda,       \* the breakpoints, and whether onNodeBreakpoint is set
  sheetStack,   \* session->sheetStack up to stackPtr
  vmCalls,      \* the sheets of the frames on the stack of the machine
  halted,       \* vm->halted
  running,      \* d_debug_continue_session has not returned
  breakpointHit,
  ended,        \* the session has been stopped
  cCalls,       \* history: the calls of C functions so far
  last          \* history: what the last instruction did

vars == <<agenda, sheetStack, vmCalls, halted, running, breakpointHit, ended,
          cCalls, last>>

Entry(sheet) == [sheet |-> sheet, numInternalCalls |-> 0]

(* The sheets whose functions the code of a sheet can call.                *)
Visible(sheet) == {sheet} \cup {t \in Sheets : <<sheet, t>> \in Includes}

Executing == vmCalls[Len(vmCalls)]
Current   == Last(sheetStack)

(* Index 0 is the only one that is negative in C, and SheetStackSize + 1   *)
(* lies behind the array, where the session keeps its machine: the write   *)
(* there is undefined, and the model does not go on from it.  The test for *)
(* the limit (ddebug.c:523-528) does not prevent that write: it compares   *)
(* stackPtr before it is raised, with the size instead of the last index,  *)
(* and so would end the session at the next call of another sheet, out of  *)
(* a state the model does not reach (see DebugSessionClaims).              *)
InBounds == Len(sheetStack) \in 1..SheetStackSize

Internal(change) ==
  [sheetStack EXCEPT ![Len(sheetStack)].numInternalCalls = @ + change]

(* info_at_ins finds something: the instruction is one of the sheet the    *)
(* session believes in, and that sheet has debug information.              *)
Found == Current.sheet = Executing /\ Executing \in Debuggable

(* Wires that carry a value or are activated, and a node that is entered.  *)
(* A breakpoint is compared by its wire or its node.                       *)
WireHit(wires)  == \E b \in agenda.wireBreakpoints : b.wire \in wires
NodeHit(node)   == /\ agenda.onNodeBreakpoint
                   /\ \E b \in agenda.nodeBreakpoints : b.node = node
(* Mutant: only nodes have breakpoints.                                    *)
HitNodesOnly(wires, node) == Found /\ NodeHit(node)

Hit(wires, node) == Found /\ (WireHit(wires) \/ NodeHit(node))

(* The rest of the iteration: the machine has taken the instruction, and   *)
(* the loop goes on unless it has halted or a breakpoint was hit.          *)
Taken(wires, node) ==
  /\ breakpointHit' = Hit(wires, node)
  /\ running' = ~(halted' \/ breakpointHit')
  /\ last' = [wires |-> wires, node |-> node]
  /\ UNCHANGED <<agenda, ended>>

Iterating == running /\ InBounds

-----------------------------------------------------------------------------
(* An instruction that neither calls nor returns, and one that fails.      *)
Step(wires, node) ==
  /\ Iterating
  /\ halted' \in BOOLEAN
  /\ Taken(wires, node)
  /\ UNCHANGED <<sheetStack, vmCalls, cCalls>>

(* Mutant: a call within the sheet is not counted.                         *)
CountCallToOthers(callee) ==
  sheetStack' = IF Found
                THEN IF callee # Executing
                     THEN Append(sheetStack, Entry(callee))
                     ELSE sheetStack
                ELSE IF Current.sheet \in Plain
                     THEN Internal(1)
                     ELSE sheetStack

(***************************************************************************)
(* What the session does about a call of something in the sheet callee: a  *)
(* call it finds goes by the sheet, one in a sheet without information is  *)
(* counted whatever it calls, and one it cannot find is lost on it.        *)
(***************************************************************************)
CountCall(callee) ==
  sheetStack' = IF Found
                THEN IF callee # Executing
                     THEN Append(sheetStack, Entry(callee))
                     ELSE Internal(1)
                ELSE IF Current.sheet \in Plain
                     THEN Internal(1)
                     ELSE sheetStack

Call(callee, wires, node) ==
  /\ Iterating
  /\ Len(vmCalls) < MaxCalls
  /\ CountCall(callee)
  /\ vmCalls' = Append(vmCalls, callee)
  /\ UNCHANGED <<halted, cCalls>>
  /\ Taken(wires, node)

(* A C function runs within its instruction, and may raise an error.       *)
CallC(callee, wires, node) ==
  /\ Iterating
  /\ cCalls < MaxCCalls
  /\ CountCall(callee)
  /\ cCalls' = cCalls + 1
  /\ halted' \in BOOLEAN
  /\ UNCHANGED vmCalls
  /\ Taken(wires, node)

(* Mutant: a return never leaves the sheet.                                *)
ReturnStays(wires, node) ==
  /\ Iterating
  /\ sheetStack' = Internal(-1)
  /\ IF Len(vmCalls) = 1
     THEN halted' = TRUE /\ UNCHANGED vmCalls
     ELSE vmCalls' = Front(vmCalls) /\ UNCHANGED halted
  /\ Taken(wires, node)
  /\ UNCHANGED cCalls

(* OP_RET and OP_RETN; in the starting frame the machine halts.            *)
Return(wires, node) ==
  /\ Iterating
  /\ sheetStack' = IF Current.numInternalCalls = 0
                   THEN Front(sheetStack)
                   ELSE Internal(-1)
  /\ IF Len(vmCalls) = 1
     THEN halted' = TRUE /\ UNCHANGED vmCalls
     ELSE vmCalls' = Front(vmCalls) /\ UNCHANGED halted
  /\ Taken(wires, node)
  /\ UNCHANGED cCalls

(* stackPtr has gone through either end of the array: what the loop reads  *)
(* and writes from here on is undefined.                                   *)
Undefined == running /\ ~InBounds /\ UNCHANGED vars

-----------------------------------------------------------------------------
(* d_debug_continue_session is called: the loop is entered unless halted.  *)
Continue ==
  /\ ~running /\ ~ended
  /\ breakpointHit' = FALSE
  /\ running' = ~halted
  /\ UNCHANGED <<agenda, sheetStack, vmCalls, halted, ended, cCalls, last>>

(* d_debug_stop_session *)
Stop ==
  /\ ~running /\ ~ended
  /\ ended' = TRUE
  /\ sheetStack' = <<>>
  /\ UNCHANGED <<agenda, vmCalls, halted, running, breakpointHit, cCalls, last>>

AtMostOne(S) == {{}} \cup {{x} : x \in S}

Agendas ==
  [onNodeBreakpoint : BOOLEAN,
   nodeBreakpoints : AtMostOne([sheet : Sheets, node : Nodes]),
   wireBreakpoints : AtMostOne([sheet : Sheets, wire : Wires])]

(* d_debug_create_session *)
Init ==
  /\ agenda \in Agendas
  /\ \E sheet \in Sheets : sheetStack = <<Entry(sheet)>> /\ vmCalls = <<sheet>>
  /\ halted = FALSE /\ running = FALSE /\ breakpointHit = FALSE /\ ended = FALSE
  /\ cCalls = 0
  /\ last = [wires |-> {}, node |-> None]

Next ==
  \/ \E wires \in SUBSET Wires, node \in Nodes \cup {None} :
       \/ Step(wires, node)
       \/ \E callee \in Visible(Executing) : Call(callee, wires, node) \/ CallC(callee, wires, node)
       \/ Return(wires, node)
  \/ Continue \/ Stop \/ Undefined

Spec == Init /\ [][Next]_vars

-----------------------------------------------------------------------------
(* Every variable keeps its type.                                          *)
TypeOK ==
  /\ agenda \in Agendas
  /\ sheetStack \in Seq([sheet : Sheets, numInternalCalls : Nat])
  /\ vmCalls \in Seq(Sheets)
  /\ {halted, running, breakpointHit, ended} \subseteq BOOLEAN
  /\ cCalls \in Nat
  /\ last \in [wires : SUBSET Wires, node : Nodes \cup {None}]

(* The frames of the machine, cut at the places in below: the k-th entry   *)
(* of the sheet stack stands for those from below[k] + 1 to below[k + 1].  *)
AccountsFor(below) ==
  /\ below[1] = 0 /\ below[Len(sheetStack) + 1] = Len(vmCalls)
  /\ \A k \in DOMAIN sheetStack :
       /\ below[k + 1] = below[k] + 1 + sheetStack[k].numInternalCalls
       /\ vmCalls[below[k] + 1] = sheetStack[k].sheet
       /\ sheetStack[k].sheet \in Debuggable =>
            \A i \in (below[k] + 1)..below[k + 1] : vmCalls[i] = sheetStack[k].sheet

Cuts == [1..(Len(sheetStack) + 1) -> 0..Len(vmCalls)]

(***************************************************************************)
(* As long as no C function has been called, the sheet stack is an account *)
(* of the machine's calls: every frame belongs to one entry, each entry    *)
(* begins with a frame of its sheet, and an entry of a debuggable sheet    *)
(* stands for frames of that sheet only, so that the session never looks   *)
(* an instruction up in the wrong debug information (ddebug.c:513-568).    *)
(* After the return from the starting frame no entry is left.              *)
(***************************************************************************)
CallsTracked ==
  cCalls = 0 /\ ~ended =>
    IF sheetStack = <<>> THEN halted ELSE \E below \in Cuts : AccountsFor(below)

(* The wires and the node of the last instruction that have a breakpoint   *)
(* in the given sheet.                                                     *)
WireBreakpointIn(sheet) ==
  \E b \in agenda.wireBreakpoints : b.sheet = sheet /\ b.wire \in last.wires
NodeBreakpointIn(sheet) ==
  \E b \in agenda.nodeBreakpoints : b.sheet = sheet /\ b.node = last.node

AllDebuggable == \A i \in DOMAIN vmCalls : vmCalls[i] \in Debuggable

(***************************************************************************)
(* A breakpoint pauses the session when its wire or its node is activated  *)
(* in a sheet all of whose callers are debuggable, a wire breakpoint with  *)
(* or without a callback (ddebug.c:429-444, 463-478, 493-506): the session *)
(* is not running any more, and says why.                                  *)
(***************************************************************************)
PausesAtBreakpoints ==
  \A sheet \in Sheets :
    running /\ cCalls = 0 /\ InBounds /\ AllDebuggable /\ sheet = Executing
    /\ \/ WireBreakpointIn(sheet)'
       \/ agenda.onNodeBreakpoint /\ NodeBreakpointIn(sheet)'
    => ~running' /\ breakpointHit'

(* The session does so at every step.                                      *)
BreakpointPauses == [][PausesAtBreakpoints]_vars
=============================================================================
