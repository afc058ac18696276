----------------------------- MODULE CallFrames -----------------------------
(***************************************************************************)
(* What the virtual machine promises about calls, without a word about     *)
(* where things lie in memory: every call gets a frame of its own that     *)
(* starts with its arguments, code works in the innermost frame only, and  *)
(* a return leaves nothing of the frame but the return values, on top of   *)
(* the caller's values, and goes on behind the call.                       *)
(***************************************************************************)
EXTENDS Integers, Sequences

VARIABLES
  frames,     \* the frames, the innermost last: their values and return address
  hidden,     \* how many values of the innermost frame a running C function
              \* may not touch; 0 when there is none
  pc,
  running

absVars == <<frames, hidden, pc, running>>

NoReturn == -1
BaseFrame == [vals |-> <<>>, ret |-> NoReturn]

Inner   == frames[Len(frames)]
Callers == SubSeq(frames, 1, Len(frames) - 1)

Bottom(vals, n) == SubSeq(vals, 1, Len(vals) - n)
Topmost(vals, n) == SubSeq(vals, Len(vals) - n + 1, Len(vals))

InnerWith(vals) == Append(Callers, [Inner EXCEPT !.vals = vals])

(* Any work on the innermost frame: by code, by a C function above the     *)
(* values hidden from it, or by the host.                                  *)
Compute ==
  /\ Len(frames') = Len(frames)
  /\ LET vals == frames'[Len(frames)].vals
     IN  /\ frames' = InnerWith(vals)
         /\ Len(vals) >= hidden
         /\ SubSeq(vals, 1, hidden) = SubSeq(Inner.vals, 1, hidden)
  /\ UNCHANGED <<hidden, running>>

Call(n) ==
  /\ running /\ hidden = 0
  /\ frames' = Append(InnerWith(Bottom(Inner.vals, n)),
                      [vals |-> Topmost(Inner.vals, n), ret |-> pc + 1])
  /\ UNCHANGED <<hidden, running>>

Return(m) ==
  /\ running /\ hidden = 0
  /\ Len(frames) > 1
  /\ LET caller == frames[Len(frames) - 1]
     IN  frames' = Append(SubSeq(frames, 1, Len(frames) - 2),
                     [caller EXCEPT !.vals = @ \o Topmost(Inner.vals, m)])
  /\ pc' = Inner.ret
  /\ UNCHANGED <<hidden, running>>

(* A C function sees its n arguments and what it puts on top of them.      *)
EnterC(n, pops) ==
  /\ running /\ hidden = 0
  /\ frames' = InnerWith(Bottom(Inner.vals, pops))
  /\ hidden' = Len(Inner.vals) - pops - n
  /\ UNCHANGED <<pc, running>>

LeaveC == hidden' = 0 /\ UNCHANGED <<frames, running>>

Stop  == running /\ ~running' /\ UNCHANGED <<frames, hidden>>
Start == ~running /\ running' /\ UNCHANGED <<frames, hidden>>
Reset == ~running /\ frames' = <<BaseFrame>> /\ UNCHANGED <<hidden, running>>

Init == frames = <<BaseFrame>> /\ hidden = 0 /\ ~running /\ pc = 0

Next ==
  \/ Compute
  \/ \E n \in 0..Len(Inner.vals) : Call(n) \/ Return(n)
  \/ \E n \in 0..Len(Inner.vals), pops \in 0..1 : n + pops <= Len(Inner.vals) /\ EnterC(n, pops)
  \/ LeaveC
  \/ Stop \/ Start \/ Reset

Spec == Init /\ [][Next]_absVars
=============================================================================
