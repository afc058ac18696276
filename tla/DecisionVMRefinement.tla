------------------------ MODULE DecisionVMRefinement ------------------------
(***************************************************************************)
(* The flat stack of the virtual machine implements separate call frames.  *)
(***************************************************************************)
EXTENDS DecisionVM

FrameStart(k) == FrameBelow(k)
FrameEnd(k)   == IF k <= Len(calls) THEN calls[k].fp - 2 ELSE top

FrameAt(k) ==
  [vals |-> SubSeq(stack, FrameStart(k) + 1, FrameEnd(k)),
   ret  |-> IF k = 1 THEN -1 ELSE stack[FrameStart(k)]]

(* The flat stack cut at the frame pointers of the pending calls, and what *)
(* lies between the frame of the calling code and that of a C function.    *)
CutStack  == [k \in 1..Len(calls) + 1 |-> FrameAt(k)]
Untouched == IF inC THEN framePtr - savedFramePtr ELSE 0

Frames == INSTANCE CallFrames WITH
  frames  <- CutStack,
  hidden  <- Untouched,
  pc      <- pc,
  running <- ~halted

(***************************************************************************)
(* Each step of the machine is a step on separate frames: a callee finds   *)
(* exactly its arguments, no instruction and no C function reaches its     *)
(* caller's values, return values arrive on top of them in order, and      *)
(* control comes back behind the call (dvm.c:860-874, 984-1015).           *)
(***************************************************************************)
ImplementsCallFrames == Frames!Spec
=============================================================================
