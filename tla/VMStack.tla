------------------------------- MODULE VMStack -------------------------------
(***************************************************************************)
(* The growing and shrinking array under the stack of the Decision virtual *)
(* machine: the sizing arithmetic of dvm.c, and where its memmove calls    *)
(* put the elements.  A stack is a sequence: s[1] is *basePtr and Len(s)   *)
(* is d_vm_top.  A size is the vm->stackSize of the allocation under it.   *)
(***************************************************************************)
EXTENDS Integers, Sequences

CONSTANT SizeMin    \* VM_STACK_SIZE_MIN: 16 in dvm.h, smaller in the runs

(***************************************************************************)
(* A size of 1 is a fixed point of the truncated scaling by 1.5, so that   *)
(* vm_increase_stack_size would leave a full stack of size 1 as it is.     *)
(***************************************************************************)
ASSUME SizeMinAssumption == SizeMin \in Nat /\ SizeMin >= 2

Greater(a, b) == IF a > b THEN a ELSE b

(* (duint)(size * VM_STACK_SIZE_SCALE_INC) and ..._SCALE_DEC.              *)
ScaleInc(size) == (3 * size) \div 2
ScaleDec(size) == size \div 2

(* vm_increase_stack_size *)
Increased(size) == Greater(ScaleInc(size), size)

(* vm_decrease_stack_size: never below the minimum, never upwards.         *)
Decreased(size) ==
  LET newSize == Greater(ScaleDec(size), SizeMin)
  IN  IF newSize < size THEN newSize ELSE size

(* The allocation after d_vm_push, d_vm_pushn and d_vm_popn on a stack of  *)
(* top elements in an allocation of the given size.                        *)
SizeAfterPush(top, size) == IF top >= size THEN Increased(size) ELSE size

(* Mutant: looks for room before the n elements are added.                 *)
SizeAfterPushNLate(top, n, size) ==
  IF n > 0 /\ top >= size THEN ScaleInc(top + n) ELSE size

SizeAfterPushN(top, n, size) ==
  IF n > 0 /\ top + n >= size THEN ScaleInc(top + n) ELSE size

(* d_vm_popn clamps n to what is there.                                    *)
Remaining(top, n) == Greater(top - n, 0)

SizeAfterPopN(top, n, size) ==
  IF n > 0 /\ Remaining(top, n) < ScaleDec(size) THEN Decreased(size) ELSE size

-----------------------------------------------------------------------------
(* VM_INSERT_LEN: room for the sequence vals is made at index i.           *)
InsertedAt(s, i, vals) == SubSeq(s, 1, i - 1) \o vals \o SubSeq(s, i, Len(s))

(* VM_REMOVE_LEN: the n elements from index i on go, the rest moves down.  *)
RemovedAt(s, i, n) == SubSeq(s, 1, i - 1) \o SubSeq(s, i + n, Len(s))

(* d_vm_popn on the elements.                                              *)
Dropped(s, n) == SubSeq(s, 1, Remaining(Len(s), n))
=============================================================================
