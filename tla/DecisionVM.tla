----------------------------- MODULE DecisionVM -----------------------------
(***************************************************************************)
(* The Decision virtual machine of dvm.c: one stack that holds values,     *)
(* saved frame pointers and return addresses side by side, all of them     *)
(* plain dints; bytecode that calls and returns; C functions that are      *)
(* called from bytecode and work on the same stack; and the host program   *)
(* that owns the machine.                                                  *)
(*                                                                         *)
(* The program is not fixed: any instruction may stand at any address, so  *)
(* the behaviours are those of every program.  Code is taken to respect    *)
(* its frame, i.e. to read, pop, pass and return only what lies above the  *)
(* frame pointer: dvm.c checks none of it and leaves it to the code        *)
(* generator.  Host and C functions are bound by the same rule.            *)
(***************************************************************************)
EXTENDS VMStack

CONSTANTS
  Words,      \* the dints a program computes with
  CodeLen,    \* code addresses are 0 .. CodeLen - 1
  MaxTop      \* bound: the elements a run of the model keeps on the stack

ASSUME WordsAssumption   == Words \subseteq Int /\ 0 \in Words
ASSUME CodeLenAssumption == CodeLen \in Nat \ {0}
ASSUME MaxTopAssumption  == MaxTop \in Nat

VARIABLES
  stack,          \* the elements from *basePtr up to *stackPtr
  stackSize,      \* vm->stackSize
  allocated,      \* vm->basePtr # NULL
  framePtr,       \* vm->framePtr as an index of stack; 0 is basePtr - 1
  pc,             \* vm->pc
  halted,         \* vm->halted
  runtimeError,   \* vm->runtimeError
  inC,            \* a C function is running inside OP_CALLC or OP_CALLCI
  savedFramePtr,  \* that instruction's local variable of the same name
  moved,          \* the allocation has moved since savedFramePtr was read
  dangling,       \* framePtr points into an allocation that has been freed
  calls           \* history: the calls that have not returned

vars == <<stack, stackSize, allocated, framePtr, pc, halted, runtimeError,
          inC, savedFramePtr, moved, dangling, calls>>

flags   == <<allocated, halted, runtimeError>>
cState  == <<inC, savedFramePtr, dangling>>

Code == 0 .. CodeLen - 1

top      == Len(stack)
FrameLen == top - framePtr

Room(n) == top + n <= MaxTop

(* d_vm_frame and d_vm_get *)
d_vm_frame == IF allocated THEN 0 ELSE FrameLen

d_vm_get(index) ==
  IF index > 0 THEN stack[framePtr + index] ELSE stack[top + index]

(* The indices d_vm_get may be given without leaving the frame.            *)
Indices == (1 - FrameLen) .. FrameLen

PositionOf(index) == IF index > 0 THEN framePtr + index ELSE top + index

(***************************************************************************)
(* vm_set_stack_size_to.  realloc may or may not move the allocation;      *)
(* stackPtr and framePtr are derived again, a copy of framePtr is not.     *)
(***************************************************************************)
ResizeTo(size) ==
  /\ stackSize' = size
  /\ IF size # stackSize /\ inC
     THEN moved' \in {moved, TRUE}
     ELSE moved' = moved

Push(v) ==
  /\ stack' = Append(stack, v)
  /\ ResizeTo(SizeAfterPush(top, stackSize))

PushN(n) ==
  /\ stack' = stack \o [i \in 1..n |-> 0]
  /\ ResizeTo(SizeAfterPushN(top, n, stackSize))

PopN(n) ==
  /\ stack' = Dropped(stack, n)
  /\ ResizeTo(SizeAfterPopN(top, n, stackSize))

-----------------------------------------------------------------------------
(* Instructions: d_vm_parse_ins_at_pc followed by d_vm_inc_pc.             *)

Running == ~halted /\ ~inC /\ ~dangling

(* An instruction that is not a jump continues with the one after it.      *)
FallThrough == pc + 1 \in Code /\ pc' = pc + 1

OpPush(v) ==
  /\ Running /\ FallThrough /\ Room(1)
  /\ Push(v)
  /\ UNCHANGED <<framePtr, calls, flags, cState>>

OpPushN(n) ==
  /\ Running /\ FallThrough /\ Room(n)
  /\ PushN(n)
  /\ UNCHANGED <<framePtr, calls, flags, cState>>

OpPop(n) ==
  /\ Running /\ FallThrough
  /\ n <= FrameLen
  /\ PopN(n)
  /\ UNCHANGED <<framePtr, calls, flags, cState>>

OpGet(index) ==
  /\ Running /\ FallThrough /\ Room(1)
  /\ Push(d_vm_get(index))
  /\ UNCHANGED <<framePtr, calls, flags, cState>>

(* OP_2_1: the result v replaces the second operand, the first is popped.  *)
OpBinary(v) ==
  /\ Running /\ FallThrough
  /\ FrameLen >= 2
  /\ stack' = Append(SubSeq(stack, 1, top - 2), v)
  /\ ResizeTo(SizeAfterPopN(top, 1, stackSize))
  /\ UNCHANGED <<framePtr, calls, flags, cState>>

OpDivByZero ==
  /\ Running /\ FallThrough
  /\ FrameLen >= 2
  /\ stack[top - 1] = 0
  /\ halted' = TRUE /\ runtimeError' = TRUE
  /\ UNCHANGED <<stack, stackSize, allocated, framePtr, moved, calls, cState>>

OpJump(target) ==
  /\ Running
  /\ pc' = target
  /\ UNCHANGED <<stack, stackSize, framePtr, moved, calls, flags, cState>>

OpJumpCon(target) ==
  /\ Running
  /\ FrameLen >= 1
  /\ IF stack[top] # 0 THEN pc' = target ELSE FallThrough
  /\ PopN(1)
  /\ UNCHANGED <<framePtr, calls, flags, cState>>

(* Mutant: the return address goes in first.                               *)
OpCallSwapped(n, target) ==
  LET first == top - n + 1
  IN  /\ Running /\ Room(2)
      /\ pc + 1 \in Code
      /\ n <= FrameLen
      /\ stack' = InsertedAt(stack, first, <<pc + 1, framePtr - 1>>)
      /\ ResizeTo(SizeAfterPushN(top, 2, stackSize))
      /\ framePtr' = first + 1
      /\ pc' = target
      /\ calls' = Append(calls, [fp |-> first + 1, ret |-> pc + 1])
      /\ UNCHANGED <<flags, cState>>

(***************************************************************************)
(* CALL_GENERIC: the difference of framePtr to basePtr and the return      *)
(* address go in under the n arguments.                                    *)
(***************************************************************************)
OpCall(n, target) ==
  LET first == top - n + 1
  IN  /\ Running /\ Room(2)
      /\ pc + 1 \in Code
      /\ n <= FrameLen
      /\ stack' = InsertedAt(stack, first, <<framePtr - 1, pc + 1>>)
      /\ ResizeTo(SizeAfterPushN(top, 2, stackSize))
      /\ framePtr' = first + 1
      /\ pc' = target
      /\ calls' = Append(calls, [fp |-> first + 1, ret |-> pc + 1])
      /\ UNCHANGED <<flags, cState>>

(* Mutants of the return: the saved pointer is not counted from basePtr,   *)
(* and one element of the frame too many is kept.                          *)
OpRetUnbased(m) ==
  LET ptr       == framePtr - 1
      lenRemove == top - ptr + 1 - m
  IN  /\ Running
      /\ framePtr > 0
      /\ m <= FrameLen
      /\ pc' = stack[framePtr]
      /\ framePtr' = stack[ptr]
      /\ stack' = RemovedAt(stack, ptr, lenRemove)
      /\ ResizeTo(SizeAfterPopN(top, lenRemove, stackSize))
      /\ calls' = Dropped(calls, 1)
      /\ UNCHANGED <<flags, cState>>

OpRetOneTooFew(m) ==
  LET ptr       == framePtr - 1
      lenRemove == top - ptr - m
  IN  /\ Running
      /\ framePtr > 0
      /\ m <= FrameLen
      /\ pc' = stack[framePtr]
      /\ framePtr' = stack[ptr] + 1
      /\ stack' = RemovedAt(stack, ptr, lenRemove)
      /\ ResizeTo(SizeAfterPopN(top, lenRemove, stackSize))
      /\ calls' = Dropped(calls, 1)
      /\ UNCHANGED <<flags, cState>>

(* OP_RET and OP_RETN in a frame some call has made.                       *)
OpRet(m) ==
  LET ptr       == framePtr - 1
      lenRemove == top - ptr + 1 - m
  IN  /\ Running
      /\ framePtr > 0
      /\ m <= FrameLen
      /\ pc' = stack[framePtr]
      /\ framePtr' = stack[ptr] + 1
      /\ stack' = RemovedAt(stack, ptr, lenRemove)
      /\ ResizeTo(SizeAfterPopN(top, lenRemove, stackSize))
      /\ calls' = Dropped(calls, 1)
      /\ UNCHANGED <<flags, cState>>

(* The same in the starting frame: what is on the stack stays there.       *)
OpRetHalts ==
  /\ Running
  /\ framePtr = 0
  /\ halted' = TRUE
  /\ pc' = pc + 1
  /\ UNCHANGED <<stack, stackSize, allocated, framePtr, runtimeError, moved,
                 calls, cState>>

(***************************************************************************)
(* OP_CALLCI, and OP_CALLC, which pops the C function first (pops = 1).    *)
(* No return address is kept: the frame of a C function is framePtr alone. *)
(***************************************************************************)
OpCallC(n, pops) ==
  /\ Running
  /\ pc + 1 \in Code
  /\ n + pops <= FrameLen
  /\ PopN(pops)
  /\ savedFramePtr' = framePtr
  /\ framePtr' = top - pops - n
  /\ inC' = TRUE
  /\ UNCHANGED <<pc, dangling, calls, flags>>

(* The C function returns: "Restore the original frame pointer."           *)
CReturn ==
  /\ inC
  /\ framePtr' = savedFramePtr
  /\ dangling' = moved
  /\ inC' = FALSE /\ savedFramePtr' = 0 /\ moved' = FALSE
  /\ FallThrough
  /\ UNCHANGED <<stack, stackSize, calls, flags>>

(* The C function calls d_vm_runtime_error, and goes on until it returns.  *)
CError ==
  /\ inC
  /\ halted' = TRUE /\ runtimeError' = TRUE
  /\ UNCHANGED <<stack, stackSize, allocated, framePtr, pc, moved, calls, cState>>

-----------------------------------------------------------------------------
(* The stack functions, called by a C function or by the host in between   *)
(* two runs.                                                               *)

Api == allocated /\ ~dangling /\ (inC \/ halted)

ApiPush(v) ==
  /\ Api /\ Room(1)
  /\ Push(v)
  /\ UNCHANGED <<framePtr, pc, calls, flags, cState>>

ApiPopN(n) ==
  /\ Api
  /\ n <= FrameLen
  /\ PopN(n)
  /\ UNCHANGED <<framePtr, pc, calls, flags, cState>>

ApiSet(index, v) ==
  /\ Api
  /\ stack' = [stack EXCEPT ![PositionOf(index)] = v]
  /\ UNCHANGED <<stackSize, framePtr, pc, moved, calls, flags, cState>>

(* d_vm_insert: at index 0 a push, of which v is put under the old top.    *)
ApiInsert(index, v) ==
  /\ Api /\ Room(1)
  /\ stack' = InsertedAt(stack, PositionOf(index), <<v>>)
  /\ ResizeTo(IF index = 0 THEN SizeAfterPush(top, stackSize)
                           ELSE SizeAfterPushN(top, 1, stackSize))
  /\ UNCHANGED <<framePtr, pc, calls, flags, cState>>

(* d_vm_remove_len: at most what is there, so one element at index 0.      *)
ApiRemoveLen(index, len) ==
  LET max == top - PositionOf(index) + 1
      num == IF len >= max THEN max ELSE len
  IN  /\ Api
      /\ stack' = RemovedAt(stack, PositionOf(index), num)
      /\ ResizeTo(SizeAfterPopN(top, num, stackSize))
      /\ UNCHANGED <<framePtr, pc, calls, flags, cState>>

-----------------------------------------------------------------------------
(* The host.                                                               *)

Idle == halted /\ ~inC

(* d_vm_run: runtimeError is left as the last run has set it.              *)
HostRun(start) ==
  /\ Idle /\ allocated /\ ~dangling
  /\ pc' = start
  /\ halted' = FALSE
 
  /\ UNCHANGED <<stack, stackSize, allocated, framePtr, runtimeError, moved,
                 calls, cState>>

(* Mutant: the frame pointer of the run before stays.                      *)
HostResetKeepsFrame ==
  /\ Idle
  /\ pc' = 0
  /\ stack' = <<>> /\ stackSize' = SizeMin /\ allocated' = TRUE
  /\ dangling' = FALSE
  /\ runtimeError' = FALSE
  /\ calls' = <<>>
  /\ UNCHANGED <<framePtr, halted, inC, savedFramePtr, moved>>

(* d_vm_reset *)
HostReset ==
  /\ Idle
  /\ pc' = 0
  /\ stack' = <<>> /\ stackSize' = SizeMin /\ allocated' = TRUE
  /\ framePtr' = 0 /\ dangling' = FALSE
  /\ runtimeError' = FALSE
  /\ calls' = <<>>
  /\ UNCHANGED <<halted, inC, savedFramePtr, moved>>

(* d_vm_free: the contents are gone, and nothing reads the stale pointers  *)
(* before d_vm_reset has set them.                                         *)
HostFree ==
  /\ Idle /\ allocated
  /\ allocated' = FALSE
  /\ stack' = <<>> /\ framePtr' = 0 /\ dangling' = FALSE /\ calls' = <<>>
  /\ UNCHANGED <<stackSize, pc, halted, runtimeError, inC, savedFramePtr,
                 moved>>

(* Bytecode that goes on with a dangling frame pointer is undefined: the   *)
(* model follows it no further.                                            *)
Undefined == dangling /\ ~halted /\ UNCHANGED vars

-----------------------------------------------------------------------------
(* d_vm_create *)
Init ==
  /\ stack = <<>> /\ stackSize = SizeMin /\ allocated = TRUE
  /\ framePtr = 0 /\ pc = 0
  /\ halted = TRUE /\ runtimeError = FALSE
  /\ inC = FALSE /\ savedFramePtr = 0 /\ moved = FALSE /\ dangling = FALSE
  /\ calls = <<>>

Instruction ==
  \/ \E v \in Words : OpPush(v) \/ OpBinary(v)
  \/ \E n \in 1..MaxTop : OpPushN(n) \/ OpPop(n)
  \/ \E index \in Indices : OpGet(index)
  \/ OpDivByZero
  \/ \E target \in Code : OpJump(target) \/ OpJumpCon(target)
  \/ \E n \in 0..FrameLen, target \in Code : OpCall(n, target)
  \/ \E m \in 0..FrameLen : OpRet(m)
  \/ OpRetHalts
  \/ \E n \in 0..FrameLen, pops \in 0..1 : OpCallC(n, pops)

StackFunction ==
  \/ \E v \in Words : ApiPush(v)
  \/ \E n \in 1..MaxTop : ApiPopN(n)
  \/ \E index \in Indices, v \in Words : ApiSet(index, v) \/ ApiInsert(index, v)
  \/ \E index \in Indices, len \in 1..MaxTop : ApiRemoveLen(index, len)

Host == (\E start \in Code : HostRun(start)) \/ HostReset \/ HostFree

Next == Instruction \/ StackFunction \/ CReturn \/ CError \/ Host \/ Undefined

Spec == Init /\ [][Next]_vars

-----------------------------------------------------------------------------
(* Every variable keeps its type.                                          *)
TypeOK ==
  /\ stack \in Seq(Int)
  /\ stackSize \in Nat
  /\ framePtr \in Nat /\ savedFramePtr \in Nat
  /\ pc \in 0..CodeLen
  /\ allocated \in BOOLEAN /\ halted \in BOOLEAN /\ runtimeError \in BOOLEAN
  /\ inC \in BOOLEAN /\ moved \in BOOLEAN /\ dangling \in BOOLEAN
  /\ calls \in Seq([fp : Nat, ret : Code])

(***************************************************************************)
(* No element lies outside the allocation, although each operation checks  *)
(* it with a test of its own, one of them before and one after the growth, *)
(* and although every pop may shrink the allocation (dvm.c:439-517).       *)
(***************************************************************************)
Capacity == top <= stackSize /\ stackSize >= SizeMin

(* The frame pointer of the innermost bytecode frame, and the one that the *)
(* k-th pending call has saved.                                            *)
CodeFrame   == IF inC THEN savedFramePtr ELSE framePtr
FrameBelow(k) == IF k = 1 THEN 0 ELSE calls[k - 1].fp

(***************************************************************************)
(* Under every frame lie the frame pointer and the return address of the   *)
(* call that made it, whatever the code above has pushed, popped, inserted *)
(* or removed since: OP_RET reads them from there (dvm.c:997-1005).        *)
(***************************************************************************)
FrameLinkage ==
  /\ framePtr <= top /\ CodeFrame <= framePtr
  /\ CodeFrame = IF calls = <<>> THEN 0 ELSE calls[Len(calls)].fp
  /\ \A k \in DOMAIN calls :
       /\ FrameBelow(k) + 2 <= calls[k].fp /\ calls[k].fp <= CodeFrame
       /\ stack[calls[k].fp] = calls[k].ret
       /\ stack[calls[k].fp - 1] = FrameBelow(k) - 1

(***************************************************************************)
(* A machine that has halted without an error has returned from everything *)
(* it has called, even if an earlier run was cut short by an error.        *)
(***************************************************************************)
CleanHalt == halted /\ ~runtimeError => ~inC /\ calls = <<>> /\ framePtr = 0
=============================================================================
