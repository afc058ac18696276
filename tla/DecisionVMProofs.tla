-------------------------- MODULE DecisionVMProofs --------------------------
(***************************************************************************)
(* Theorems about the virtual machine, for every minimal size, every set   *)
(* of words, every program length and every bound on the stack: it stays   *)
(* within its memory and its program, and the flat stack implements        *)
(* separate call frames, as every step of DecisionVM is one of CallFrames  *)
(* on the stack cut into frames, or changes none of them.                  *)
(***************************************************************************)
EXTENDS DecisionVMRefinement, SequenceTheorems, TLAPS

-----------------------------------------------------------------------------
(* The sizing arithmetic.                                                  *)

(* A push finds room, whatever the allocation was.                         *)
LEMMA PushFits ==
  ASSUME NEW t \in Nat, NEW size \in Nat, t <= size, SizeMin <= size
  PROVE  /\ SizeAfterPush(t, size) \in Nat
         /\ t + 1 <= SizeAfterPush(t, size)
         /\ SizeMin <= SizeAfterPush(t, size)
BY SizeMinAssumption DEF SizeAfterPush, Increased, ScaleInc, Greater

(* So do n pushes at once.                                                 *)
LEMMA PushNFits ==
  ASSUME NEW t \in Nat, NEW n \in Nat, NEW size \in Nat, t <= size, SizeMin <= size
  PROVE  /\ SizeAfterPushN(t, n, size) \in Nat
         /\ t + n <= SizeAfterPushN(t, n, size)
         /\ SizeMin <= SizeAfterPushN(t, n, size)
BY SizeMinAssumption DEF SizeAfterPushN, ScaleInc

(* Shrinking after a pop never cuts into what is left.                     *)
LEMMA PopNFits ==
  ASSUME NEW t \in Nat, NEW n \in Nat, NEW size \in Nat, t <= size, SizeMin <= size
  PROVE  /\ SizeAfterPopN(t, n, size) \in Nat
         /\ Remaining(t, n) <= SizeAfterPopN(t, n, size)
         /\ SizeMin <= SizeAfterPopN(t, n, size)
BY SizeMinAssumption DEF SizeAfterPopN, Decreased, ScaleDec, Remaining, Greater

-----------------------------------------------------------------------------
(* Where the elements are after an insertion, a removal and a pop.         *)

LEMMA DroppedProperties ==
  ASSUME NEW S, NEW s \in Seq(S), NEW n \in Nat
  PROVE  /\ Dropped(s, n) \in Seq(S)
         /\ Len(Dropped(s, n)) = Remaining(Len(s), n)
         /\ \A i \in 1..Len(Dropped(s, n)) : Dropped(s, n)[i] = s[i]
<1> DEFINE r == Remaining(Len(s), n)
<1>1. Len(s) \in Nat
  BY LenProperties
<1>2. r \in Nat /\ r <= Len(s)
  BY <1>1 DEF Remaining, Greater
<1>3. \A i \in 1..r : s[i] \in S
  BY <1>1, <1>2, ElementOfSeq
<1> HIDE DEF r
<1>4. /\ SubSeq(s, 1, r) \in Seq(S)
      /\ Len(SubSeq(s, 1, r)) = IF 1 <= r THEN r - 1 + 1 ELSE 0
      /\ \A i \in 1..r - 1 + 1 : SubSeq(s, 1, r)[i] = s[1 + i - 1]
  BY <1>2, <1>3, SubSeqProperties
<1>5. Len(SubSeq(s, 1, r)) = r
  BY <1>2, <1>4
<1>6. \A i \in 1..r : SubSeq(s, 1, r)[i] = s[i]
  BY <1>2, <1>4
<1> QED
  BY <1>4, <1>5, <1>6 DEF Dropped, r

(* Two sections of a sequence, and a sequence put in between.              *)
LEMMA SectionProperties ==
  ASSUME NEW S, NEW s \in Seq(S), NEW m \in Nat \ {0}, NEW n \in Nat,
         n <= Len(s), m <= n + 1
  PROVE  /\ SubSeq(s, m, n) \in Seq(S)
         /\ Len(SubSeq(s, m, n)) = n - m + 1
         /\ \A i \in 1..n - m + 1 : SubSeq(s, m, n)[i] = s[m + i - 1]
<1>1. Len(s) \in Nat
  BY LenProperties
<1>2. \A i \in m..n : s[i] \in S
  BY <1>1, ElementOfSeq
<1>3. /\ SubSeq(s, m, n) \in Seq(S)
      /\ Len(SubSeq(s, m, n)) = IF m <= n THEN n - m + 1 ELSE 0
      /\ \A i \in 1..n - m + 1 : SubSeq(s, m, n)[i] = s[m + i - 1]
  BY <1>2, SubSeqProperties
<1> QED
  BY <1>3

LEMMA InsertedAtProperties ==
  ASSUME NEW S, NEW s \in Seq(S), NEW i \in 1..Len(s) + 1, NEW vals \in Seq(S)
  PROVE  /\ InsertedAt(s, i, vals) \in Seq(S)
         /\ Len(InsertedAt(s, i, vals)) = Len(s) + Len(vals)
         /\ \A j \in 1..(i - 1) : InsertedAt(s, i, vals)[j] = s[j]
         /\ \A j \in 1..Len(vals) : InsertedAt(s, i, vals)[i - 1 + j] = vals[j]
<1> DEFINE low  == SubSeq(s, 1, i - 1)
           high == SubSeq(s, i, Len(s))
<1>1. Len(s) \in Nat /\ Len(vals) \in Nat
  BY LenProperties
<1>2. /\ low \in Seq(S) /\ Len(low) = i - 1
      /\ \A j \in 1..(i - 1) : low[j] = s[j]
  BY <1>1, SectionProperties
<1>3. high \in Seq(S) /\ Len(high) = Len(s) - i + 1
  BY <1>1, SectionProperties
<1> HIDE DEF low, high
<1>4. /\ low \o vals \in Seq(S)
      /\ Len(low \o vals) = Len(low) + Len(vals)
      /\ \A j \in 1..Len(low) + Len(vals) :
           (low \o vals)[j] = IF j <= Len(low) THEN low[j] ELSE vals[j - Len(low)]
  BY <1>2, ConcatProperties, Zenon
<1>5. /\ (low \o vals) \o high \in Seq(S)
      /\ Len((low \o vals) \o high) = Len(s) + Len(vals)
      /\ \A j \in 1..(i - 1 + Len(vals)) :
           ((low \o vals) \o high)[j] = (low \o vals)[j]
  <2> DEFINE lv == low \o vals
  <2>1. lv \in Seq(S) /\ Len(lv) = i - 1 + Len(vals)
    BY <1>2, <1>4
  <2>2. lv \in Seq(S)
    BY <2>1
  <2>3. high \in Seq(S)
    BY <1>3
  <2> HIDE DEF lv
  <2>4. /\ lv \o high \in Seq(S)
        /\ Len(lv \o high) = Len(lv) + Len(high)
        /\ \A j \in 1..Len(lv) + Len(high) :
             (lv \o high)[j] = IF j <= Len(lv) THEN lv[j] ELSE high[j - Len(lv)]
    BY <2>2, <2>3, ConcatProperties, Zenon
  <2>5. Len(lv \o high) = Len(s) + Len(vals)
    BY <1>1, <1>3, <2>1, <2>4
  <2>6. \A j \in 1..(i - 1 + Len(vals)) : (lv \o high)[j] = lv[j]
    BY <1>1, <1>3, <2>1, <2>4
  <2> QED
    BY <2>4, <2>5, <2>6 DEF lv
<1>6. InsertedAt(s, i, vals) = (low \o vals) \o high
  BY DEF InsertedAt, low, high
<1>7. \A j \in 1..(i - 1) : ((low \o vals) \o high)[j] = s[j]
  BY <1>1, <1>2, <1>4, <1>5
<1>8. \A j \in 1..Len(vals) : ((low \o vals) \o high)[i - 1 + j] = vals[j]
  <2> TAKE j \in 1..Len(vals)
  <2>1. i - 1 + j \in 1..(i - 1 + Len(vals)) /\ ~(i - 1 + j <= i - 1)
    BY <1>1
  <2>2. (low \o vals)[i - 1 + j] = vals[i - 1 + j - (i - 1)]
    BY <1>1, <1>2, <1>4, <2>1
  <2>3. i - 1 + j - (i - 1) = j
    OBVIOUS
  <2> QED
    BY <1>5, <2>1, <2>2, <2>3
<1> QED
  BY <1>5, <1>6, <1>7, <1>8

LEMMA RemovedAtProperties ==
  ASSUME NEW S, NEW s \in Seq(S), NEW i \in 1..Len(s) + 1, NEW n \in 0..Len(s) - i + 1
  PROVE  /\ RemovedAt(s, i, n) \in Seq(S)
         /\ Len(RemovedAt(s, i, n)) = Len(s) - n
         /\ \A j \in 1..(i - 1) : RemovedAt(s, i, n)[j] = s[j]
<1> DEFINE low  == SubSeq(s, 1, i - 1)
           high == SubSeq(s, i + n, Len(s))
<1>1. Len(s) \in Nat
  BY LenProperties
<1>2. /\ low \in Seq(S) /\ Len(low) = i - 1
      /\ \A j \in 1..(i - 1) : low[j] = s[j]
  BY <1>1, SectionProperties
<1>3. high \in Seq(S) /\ Len(high) = Len(s) - i - n + 1
  BY <1>1, SectionProperties
<1> HIDE DEF low, high
<1>4. /\ low \o high \in Seq(S)
      /\ Len(low \o high) = Len(s) - n
      /\ \A j \in 1..(i - 1) : (low \o high)[j] = low[j]
  BY <1>1, <1>2, <1>3, ConcatProperties
<1>5. RemovedAt(s, i, n) = low \o high
  BY DEF RemovedAt, low, high
<1> QED
  BY <1>2, <1>4, <1>5

-----------------------------------------------------------------------------
(***************************************************************************)
(* The inductive invariant.  Its parts need one another: an OP_RET loads   *)
(* pc and framePtr from the stack, so that their types follow only from    *)
(* the linkage of the frames, and the linkage speaks of elements that the  *)
(* capacity keeps inside the allocation.  A return makes the frame below   *)
(* the innermost one, so that every frame further down has to lie below    *)
(* that one too: that is what Nested adds.                                 *)
(***************************************************************************)
Nested ==
  \A j, k \in DOMAIN calls : j < k => calls[j].fp + 2 <= calls[k].fp

IInv == TypeOK /\ Capacity /\ FrameLinkage /\ Nested

(* Only a halted machine may stand behind the last instruction.            *)
PcInCode == ~halted => pc \in Code

(* What a step has to do to the stack for the frames up to index keep to   *)
(* survive it.                                                             *)
StackStep(keep) ==
  /\ stack' \in Seq(Int) /\ stackSize' \in Nat /\ moved' \in BOOLEAN
  /\ keep <= Len(stack')
  /\ Len(stack') <= stackSize' /\ SizeMin <= stackSize'
  /\ \A i \in 1..keep : stack'[i] = stack[i]

(* The pending calls stay as they are; C functions may come and go.        *)
SameCalls ==
  /\ calls' = calls /\ CodeFrame' = CodeFrame
  /\ framePtr' \in Nat /\ savedFramePtr' \in Nat /\ inC' \in BOOLEAN
  /\ CodeFrame' <= framePtr' /\ framePtr' <= Len(stack')

SameFrames == UNCHANGED <<framePtr, calls, inC, savedFramePtr>>

FlagsTyped ==
  /\ allocated \in BOOLEAN /\ halted \in BOOLEAN /\ runtimeError \in BOOLEAN
  /\ dangling \in BOOLEAN

LEMMA TopIsNat == IInv => top \in Nat
BY LenProperties DEF IInv, TypeOK, top

LEMMA SizesTyped ==
  IInv => /\ top \in Nat /\ stackSize \in Nat /\ framePtr \in Nat
          /\ top <= stackSize /\ SizeMin <= stackSize
          /\ CodeFrame \in Nat /\ CodeFrame <= framePtr /\ framePtr <= top
          /\ stack \in Seq(Int)
BY TopIsNat DEF IInv, TypeOK, Capacity, FrameLinkage, CodeFrame

LEMMA CallsTyped ==
  IInv => /\ Len(calls) \in Nat /\ DOMAIN calls = 1..Len(calls)
          /\ \A k \in 1..Len(calls) :
               /\ calls[k].fp \in Nat /\ calls[k].ret \in Code
               /\ FrameBelow(k) \in Nat
<1> SUFFICES ASSUME IInv
             PROVE  /\ Len(calls) \in Nat /\ DOMAIN calls = 1..Len(calls)
                    /\ \A k \in 1..Len(calls) :
                         /\ calls[k].fp \in Nat /\ calls[k].ret \in Code
                         /\ FrameBelow(k) \in Nat
  OBVIOUS
<1>1. calls \in Seq([fp : Nat, ret : Code])
  BY DEF IInv, TypeOK
<1>2. Len(calls) \in Nat /\ DOMAIN calls = 1..Len(calls)
  BY <1>1, LenProperties
<1>3. \A k \in 1..Len(calls) : calls[k] \in [fp : Nat, ret : Code]
  BY <1>1, ElementOfSeq, Zenon
<1>4. \A k \in 1..Len(calls) : calls[k].fp \in Nat /\ calls[k].ret \in Code
  BY <1>3
<1>5. \A k \in 1..Len(calls) : FrameBelow(k) \in Nat
  BY <1>2, <1>4 DEF FrameBelow
<1> QED
  BY <1>2, <1>4, <1>5

(* Frames nobody touches stay linked.                                      *)
LEMMA LinkageKept ==
  IInv /\ StackStep(CodeFrame) /\ SameCalls => FrameLinkage' /\ Nested'
<1> SUFFICES ASSUME IInv, StackStep(CodeFrame), SameCalls
             PROVE  FrameLinkage' /\ Nested'
  OBVIOUS
<1>1. Len(calls) \in Nat /\ DOMAIN calls = 1..Len(calls)
  BY CallsTyped
<1>2. CodeFrame' = CodeFrame /\ calls' = calls
  BY DEF SameCalls
<1>3. \A k \in 1..Len(calls) :
        calls[k].fp \in Nat /\ FrameBelow(k)' = FrameBelow(k) /\ FrameBelow(k) \in Nat
  BY <1>2, CallsTyped DEF FrameBelow
<1>4. ASSUME NEW k \in DOMAIN calls
      PROVE  /\ FrameBelow(k)' + 2 <= calls'[k].fp /\ calls'[k].fp <= CodeFrame'
             /\ stack'[calls'[k].fp] = calls'[k].ret
             /\ stack'[calls'[k].fp - 1] = FrameBelow(k)' - 1
  <2>1. /\ FrameBelow(k) + 2 <= calls[k].fp /\ calls[k].fp <= CodeFrame
        /\ stack[calls[k].fp] = calls[k].ret
        /\ stack[calls[k].fp - 1] = FrameBelow(k) - 1
    BY DEF IInv, FrameLinkage
  <2>2. calls[k].fp \in 1..CodeFrame /\ calls[k].fp - 1 \in 1..CodeFrame
    <3>1. CodeFrame \in Nat
      BY SizesTyped
    <3>2. calls[k].fp \in Nat /\ FrameBelow(k) \in Nat
      BY <1>1, <1>3
    <3> QED
      BY <2>1, <3>1, <3>2
  <2> QED
    BY <1>1, <1>2, <1>3, <2>1, <2>2 DEF StackStep
<1>5. framePtr' <= top' /\ CodeFrame' <= framePtr'
  BY DEF SameCalls, top
<1>6. CodeFrame' = IF calls' = <<>> THEN 0 ELSE calls'[Len(calls')].fp
  BY <1>2 DEF IInv, FrameLinkage
<1>7. Nested'
  BY <1>2 DEF IInv, Nested
<1> QED
  BY <1>2, <1>4, <1>5, <1>6, <1>7 DEF FrameLinkage

LEMMA CallsKept ==
  IInv /\ StackStep(CodeFrame) /\ SameCalls /\ FlagsTyped' /\ pc' \in 0..CodeLen => IInv'
<1> SUFFICES ASSUME IInv, StackStep(CodeFrame), SameCalls, FlagsTyped', pc' \in 0..CodeLen
             PROVE  IInv'
  OBVIOUS
<1>1. TypeOK'
  BY DEF IInv, TypeOK, StackStep, SameCalls, FlagsTyped
<1>2. Capacity'
  BY DEF StackStep, Capacity, top
<1> QED
  BY <1>1, <1>2, LinkageKept DEF IInv

LEMMA StepKeepsInvariant ==
  IInv /\ StackStep(framePtr) /\ SameFrames /\ FlagsTyped' /\ pc' \in 0..CodeLen => IInv'
<1> SUFFICES ASSUME IInv, StackStep(framePtr), SameFrames, FlagsTyped', pc' \in 0..CodeLen
             PROVE  IInv'
  OBVIOUS
<1>1. CodeFrame' = CodeFrame /\ CodeFrame \in Nat /\ CodeFrame <= framePtr
  BY SizesTyped DEF SameFrames, CodeFrame
<1>2. Len(stack') \in Nat
  BY LenProperties DEF StackStep
<1>3. StackStep(CodeFrame)
  BY <1>1, <1>2, SizesTyped DEF StackStep
<1>4. SameCalls
  BY <1>1, SizesTyped DEF SameCalls, SameFrames, IInv, TypeOK, StackStep
<1> QED
  BY <1>3, <1>4, CallsKept

-----------------------------------------------------------------------------
(* What the stack functions do to the stack.                               *)

LEMMA Resized ==
  ASSUME IInv, NEW size, ResizeTo(size)
  PROVE  stackSize' = size /\ moved' \in BOOLEAN
<1>1. CASE size # stackSize /\ inC
  BY <1>1, Zenon DEF ResizeTo, IInv, TypeOK
<1>2. CASE ~(size # stackSize /\ inC)
  BY <1>2, Zenon DEF ResizeTo, IInv, TypeOK
<1> QED
  BY <1>1, <1>2

LEMMA PushKeepsAll ==
  ASSUME IInv, NEW v \in Int, Push(v)
  PROVE  StackStep(framePtr)
<1>1. /\ top \in Nat /\ stackSize \in Nat /\ framePtr \in Nat
      /\ top <= stackSize /\ SizeMin <= stackSize
      /\ framePtr <= top /\ stack \in Seq(Int)
  BY SizesTyped
<1>2. /\ stack' \in Seq(Int) /\ Len(stack') = top + 1
      /\ \A i \in 1..top : stack'[i] = stack[i]
  BY <1>1, AppendProperties DEF Push, top
<1>3. stackSize' = SizeAfterPush(top, stackSize) /\ moved' \in BOOLEAN
  BY Resized DEF Push
<1> QED
  BY <1>1, <1>2, <1>3, PushFits DEF StackStep

LEMMA PushNKeepsAll ==
  ASSUME IInv, NEW n \in Nat, PushN(n)
  PROVE  StackStep(framePtr)
<1> DEFINE zeros == [i \in 1..n |-> 0]
<1>1. /\ top \in Nat /\ stackSize \in Nat /\ framePtr \in Nat
      /\ top <= stackSize /\ SizeMin <= stackSize
      /\ framePtr <= top /\ stack \in Seq(Int)
  BY SizesTyped
<1>2. zeros \in Seq(Int) /\ Len(zeros) = n
  OBVIOUS
<1>3. zeros \in Seq(Int)
  BY <1>2
<1>4. stack \in Seq(Int)
  BY <1>1
<1> HIDE DEF zeros
<1>5. /\ stack \o zeros \in Seq(Int)
      /\ Len(stack \o zeros) = Len(stack) + Len(zeros)
      /\ \A i \in 1..Len(stack) + Len(zeros) :
           (stack \o zeros)[i] = IF i <= Len(stack) THEN stack[i] ELSE zeros[i - Len(stack)]
  BY <1>3, <1>4, ConcatProperties, Zenon
<1>6. stack' = stack \o zeros
  BY DEF PushN, zeros
<1>7. /\ stack' \in Seq(Int) /\ Len(stack') = top + n
      /\ \A i \in 1..top : stack'[i] = stack[i]
  BY <1>1, <1>2, <1>5, <1>6 DEF top
<1>8. stackSize' = SizeAfterPushN(top, n, stackSize) /\ moved' \in BOOLEAN
  BY Resized DEF PushN
<1>9. stackSize' \in Nat /\ top + n <= stackSize' /\ SizeMin <= stackSize'
  BY <1>1, <1>8, PushNFits
<1>10. framePtr <= Len(stack') /\ Len(stack') <= stackSize'
  BY <1>1, <1>7, <1>9
<1>11. \A i \in 1..framePtr : stack'[i] = stack[i]
  BY <1>1, <1>7
<1> QED
  BY <1>7, <1>8, <1>9, <1>10, <1>11 DEF StackStep

LEMMA PopNKeepsFrame ==
  ASSUME IInv, NEW n \in Nat, n <= FrameLen, PopN(n)
  PROVE  StackStep(framePtr) /\ Len(stack') = top - n
<1>1. /\ top \in Nat /\ stackSize \in Nat /\ framePtr \in Nat
      /\ top <= stackSize /\ SizeMin <= stackSize
      /\ framePtr <= top /\ stack \in Seq(Int)
  BY SizesTyped
<1>2. Remaining(top, n) = top - n /\ framePtr <= top - n
  BY <1>1 DEF Remaining, Greater, FrameLen
<1>3. /\ stack' \in Seq(Int) /\ Len(stack') = top - n
      /\ \A i \in 1..(top - n) : stack'[i] = stack[i]
  <2>1. /\ Dropped(stack, n) \in Seq(Int)
        /\ Len(Dropped(stack, n)) = Remaining(Len(stack), n)
        /\ \A i \in 1..Len(Dropped(stack, n)) : Dropped(stack, n)[i] = stack[i]
    BY <1>1, DroppedProperties, Zenon
  <2>2. stack' = Dropped(stack, n)
    BY DEF PopN
  <2> QED
    BY <1>2, <2>1, <2>2 DEF top
<1>4. stackSize' = SizeAfterPopN(top, n, stackSize) /\ moved' \in BOOLEAN
  BY Resized DEF PopN
<1>5. stackSize' \in Nat /\ top - n <= stackSize' /\ SizeMin <= stackSize'
  BY <1>1, <1>2, <1>4, PopNFits
<1>6. \A i \in 1..framePtr : stack'[i] = stack[i]
  BY <1>1, <1>2, <1>3
<1> QED
  BY <1>2, <1>3, <1>4, <1>5, <1>6 DEF StackStep

(* An element in the frame is an element of the stack.                     *)
LEMMA IndexInStack ==
  ASSUME IInv, NEW index \in Indices
  PROVE  /\ PositionOf(index) \in 1..top
         /\ framePtr < PositionOf(index)
         /\ d_vm_get(index) \in Int
<1>1. top \in Nat /\ framePtr \in Nat /\ framePtr <= top /\ stack \in Seq(Int)
  BY SizesTyped
<1>2. PositionOf(index) \in 1..top /\ framePtr < PositionOf(index)
  BY <1>1 DEF Indices, FrameLen, PositionOf
<1>3. stack[PositionOf(index)] \in Int
  BY <1>1, <1>2, ElementOfSeq DEF top
<1>4. d_vm_get(index) = stack[PositionOf(index)]
  BY DEF d_vm_get, PositionOf
<1> QED
  BY <1>2, <1>3, <1>4

-----------------------------------------------------------------------------
(* Steps that work in the innermost frame.                                 *)

LEMMA FlagsKept == IInv /\ UNCHANGED flags /\ UNCHANGED cState => FlagsTyped'
BY DEF IInv, TypeOK, flags, cState, FlagsTyped

LEMMA FramesKept == UNCHANGED <<framePtr, calls, cState>> => SameFrames
BY DEF cState, SameFrames

LEMMA PcTyped == IInv => pc \in 0..CodeLen
BY DEF IInv, TypeOK

LEMMA FallsThrough == FallThrough => pc' \in 0..CodeLen
BY CodeLenAssumption DEF FallThrough, Code

LEMMA StackUntouched ==
  IInv /\ UNCHANGED <<stack, stackSize, moved>> => StackStep(framePtr)
BY SizesTyped DEF StackStep, IInv, TypeOK, top

LEMMA PushStep ==
  ASSUME IInv, NEW v \in Int, Push(v), pc' \in 0..CodeLen,
         UNCHANGED <<framePtr, calls, flags, cState>>
  PROVE  IInv'
BY PushKeepsAll, FlagsKept, FramesKept, StepKeepsInvariant

LEMMA PopNStep ==
  ASSUME IInv, NEW n \in Nat, n <= FrameLen, PopN(n), pc' \in 0..CodeLen,
         UNCHANGED <<framePtr, calls, flags, cState>>
  PROVE  IInv'
BY PopNKeepsFrame, FlagsKept, FramesKept, StepKeepsInvariant

LEMMA BinaryKeepsFrame ==
  ASSUME IInv, NEW v \in Int, OpBinary(v)
  PROVE  StackStep(framePtr)
<1> DEFINE low == SubSeq(stack, 1, top - 2)
<1>1. /\ top \in Nat /\ stackSize \in Nat /\ framePtr \in Nat
      /\ top <= stackSize /\ SizeMin <= stackSize
      /\ framePtr <= top /\ stack \in Seq(Int)
  BY SizesTyped
<1>2. top - 2 \in Nat /\ framePtr <= top - 2
  BY <1>1 DEF OpBinary, FrameLen
<1>3. /\ low \in Seq(Int) /\ Len(low) = top - 2
      /\ \A i \in 1..top - 2 : low[i] = stack[i]
  <2>1. /\ 1 \in Nat \ {0} /\ top - 2 <= Len(stack) /\ 1 <= top - 2 + 1
        /\ stack \in Seq(Int)
    BY <1>1, <1>2 DEF top
  <2>2. /\ low \in Seq(Int) /\ Len(low) = top - 2 - 1 + 1
        /\ \A i \in 1..top - 2 - 1 + 1 : low[i] = stack[1 + i - 1]
    BY <1>2, <2>1, SectionProperties
  <2> HIDE DEF low
  <2> QED
    BY <1>2, <2>2
<1> HIDE DEF low
<1>4. stack' = Append(low, v)
  BY DEF OpBinary, low
<1>5. /\ stack' \in Seq(Int) /\ Len(stack') = top - 1
      /\ \A i \in 1..top - 2 : stack'[i] = stack[i]
  <2>1. low \in Seq(Int)
    BY <1>3
  <2>2. /\ Append(low, v) \in Seq(Int) /\ Len(Append(low, v)) = Len(low) + 1
        /\ \A i \in 1..Len(low) : Append(low, v)[i] = low[i]
    BY <2>1, AppendProperties
  <2> QED
    BY <1>1, <1>2, <1>3, <1>4, <2>2
<1>6. stackSize' = SizeAfterPopN(top, 1, stackSize) /\ moved' \in BOOLEAN
  BY Resized DEF OpBinary
<1>7. Remaining(top, 1) = top - 1
  BY <1>1, <1>2 DEF Remaining, Greater
<1>8. stackSize' \in Nat /\ top - 1 <= stackSize' /\ SizeMin <= stackSize'
  BY <1>1, <1>6, <1>7, PopNFits
<1>9. \A i \in 1..framePtr : stack'[i] = stack[i]
  <2>1. \A i \in 1..framePtr : i \in 1..top - 2
    BY <1>1, <1>2
  <2> QED
    BY <2>1, <1>5, Zenon
<1>10. StackStep(framePtr)
  BY <1>1, <1>2, <1>5, <1>6, <1>8, <1>9 DEF StackStep
<1> QED
  BY <1>10

LEMMA BinaryStep ==
  ASSUME IInv, NEW v \in Int, OpBinary(v)
  PROVE  IInv'
BY BinaryKeepsFrame, FlagsKept, FramesKept, FallsThrough, StepKeepsInvariant DEF OpBinary

(* The stack functions of a C function or the host.                        *)
LEMMA SetKeepsFrame ==
  ASSUME IInv, NEW index \in Indices, NEW v \in Int, ApiSet(index, v)
  PROVE  StackStep(framePtr)
<1>1. /\ top \in Nat /\ stackSize \in Nat /\ framePtr \in Nat
      /\ top <= stackSize /\ SizeMin <= stackSize
      /\ framePtr <= top /\ stack \in Seq(Int)
  BY SizesTyped
<1>2. PositionOf(index) \in 1..top /\ framePtr < PositionOf(index)
  BY IndexInStack
<1>3. stack' = [stack EXCEPT ![PositionOf(index)] = v]
  BY DEF ApiSet
<1>4. /\ stack' \in Seq(Int) /\ Len(stack') = top
      /\ \A i \in 1..top : i # PositionOf(index) => stack'[i] = stack[i]
  BY <1>1, <1>2, <1>3, ExceptSeq DEF top
<1>5. \A i \in 1..framePtr : stack'[i] = stack[i]
  BY <1>1, <1>2, <1>4
<1>6. StackStep(framePtr)
  BY <1>1, <1>4, <1>5 DEF StackStep, ApiSet, IInv, TypeOK
<1> QED
  BY <1>6

LEMMA SetStep ==
  ASSUME IInv, NEW index \in Indices, NEW v \in Int, ApiSet(index, v)
  PROVE  IInv'
BY SetKeepsFrame, FlagsKept, FramesKept, PcTyped, StepKeepsInvariant DEF ApiSet

LEMMA InsertKeepsFrame ==
  ASSUME IInv, NEW index \in Indices, NEW v \in Int, ApiInsert(index, v)
  PROVE  StackStep(framePtr)
<1> DEFINE pos  == PositionOf(index)
           size == IF index = 0 THEN SizeAfterPush(top, stackSize)
                                ELSE SizeAfterPushN(top, 1, stackSize)
<1>1. /\ top \in Nat /\ stackSize \in Nat /\ framePtr \in Nat
      /\ top <= stackSize /\ SizeMin <= stackSize
      /\ framePtr <= top /\ stack \in Seq(Int)
  BY SizesTyped
<1>2. pos \in 1..top /\ framePtr < pos
  BY IndexInStack
<1>3. stackSize' = size /\ moved' \in BOOLEAN
  BY Resized DEF ApiInsert
<1>4. stackSize' \in Nat /\ top + 1 <= stackSize' /\ SizeMin <= stackSize'
  BY <1>1, <1>3, PushFits, PushNFits
<1> HIDE DEF pos
<1>5. <<v>> \in Seq(Int) /\ Len(<<v>>) = 1
  OBVIOUS
<1>6. pos \in 1..Len(stack) + 1
  BY <1>1, <1>2 DEF top
<1>7. /\ InsertedAt(stack, pos, <<v>>) \in Seq(Int)
      /\ Len(InsertedAt(stack, pos, <<v>>)) = Len(stack) + Len(<<v>>)
      /\ \A j \in 1..(pos - 1) : InsertedAt(stack, pos, <<v>>)[j] = stack[j]
  BY <1>1, <1>5, <1>6, InsertedAtProperties, ZenonT(30)
<1>8. stack' = InsertedAt(stack, pos, <<v>>)
  BY DEF ApiInsert, pos
<1>9. \A i \in 1..framePtr : stack'[i] = stack[i]
  <2>1. \A i \in 1..framePtr : i \in 1..(pos - 1)
    BY <1>1, <1>2
  <2> QED
    BY <2>1, <1>7, <1>8, Zenon
<1>10. /\ stack' \in Seq(Int) /\ Len(stack') <= stackSize' /\ framePtr <= Len(stack')
  <2>1. Len(stack') = top + 1
    BY <1>5, <1>7, <1>8 DEF top
  <2> QED
    BY <1>1, <1>4, <1>7, <1>8, <2>1
<1>11. StackStep(framePtr)
  BY <1>3, <1>4, <1>9, <1>10, Zenon DEF StackStep
<1> QED
  BY <1>11

LEMMA InsertStep ==
  ASSUME IInv, NEW index \in Indices, NEW v \in Int, ApiInsert(index, v)
  PROVE  IInv'
BY InsertKeepsFrame, FlagsKept, FramesKept, PcTyped, StepKeepsInvariant DEF ApiInsert

LEMMA RemoveLenKeepsFrame ==
  ASSUME IInv, NEW index \in Indices, NEW len \in Nat, ApiRemoveLen(index, len)
  PROVE  StackStep(framePtr)
<1> DEFINE pos == PositionOf(index)
           max == top - pos + 1
           num == IF len >= max THEN max ELSE len
<1>1. /\ top \in Nat /\ stackSize \in Nat /\ framePtr \in Nat
      /\ top <= stackSize /\ SizeMin <= stackSize
      /\ framePtr <= top /\ stack \in Seq(Int)
  BY SizesTyped
<1>2. pos \in 1..top /\ framePtr < pos
  BY IndexInStack
<1>3. num \in 0..top - pos + 1
  BY <1>1, <1>2
<1>4. stack' = RemovedAt(stack, pos, num)
  BY DEF ApiRemoveLen
<1>5. stackSize' = SizeAfterPopN(top, num, stackSize) /\ moved' \in BOOLEAN
  BY Resized DEF ApiRemoveLen
<1> HIDE DEF pos, num
<1>6. Remaining(top, num) = top - num
  BY <1>1, <1>2, <1>3 DEF Remaining, Greater
<1>7. num \in Nat
  BY <1>1, <1>2, <1>3
<1>8. stackSize' \in Nat /\ top - num <= stackSize' /\ SizeMin <= stackSize'
  BY <1>1, <1>5, <1>6, <1>7, PopNFits
<1>9. pos \in 1..Len(stack) + 1 /\ num \in 0..Len(stack) - pos + 1
  BY <1>1, <1>2, <1>3 DEF top
<1>10. /\ stack' \in Seq(Int) /\ Len(stack') = top - num
       /\ \A i \in 1..(pos - 1) : stack'[i] = stack[i]
  BY <1>1, <1>4, <1>9, RemovedAtProperties DEF top
<1>11. framePtr <= Len(stack') /\ \A i \in 1..framePtr : stack'[i] = stack[i]
  BY <1>1, <1>2, <1>3, <1>10
<1>12. StackStep(framePtr)
  BY <1>5, <1>8, <1>10, <1>11 DEF StackStep
<1> QED
  BY <1>12

LEMMA RemoveLenStep ==
  ASSUME IInv, NEW index \in Indices, NEW len \in Nat, ApiRemoveLen(index, len)
  PROVE  IInv'
BY RemoveLenKeepsFrame, FlagsKept, FramesKept, PcTyped, StepKeepsInvariant DEF ApiRemoveLen
-----------------------------------------------------------------------------
(* Calls and returns.                                                      *)

(* While bytecode runs, its frame is the one framePtr marks.               *)
LEMMA RunningFrame == IInv /\ Running => CodeFrame = framePtr
BY DEF Running, CodeFrame

LEMMA CallStep ==
  ASSUME IInv, NEW n \in 0..FrameLen, NEW target \in Code, OpCall(n, target)
  PROVE  IInv'
<1> DEFINE first == top - n + 1
           cells == <<framePtr - 1, pc + 1>>
           call  == [fp |-> first + 1, ret |-> pc + 1]
<1>1. /\ top \in Nat /\ stackSize \in Nat /\ framePtr \in Nat
      /\ top <= stackSize /\ SizeMin <= stackSize
      /\ framePtr <= top /\ stack \in Seq(Int)
  BY SizesTyped
<1>2. Running /\ pc + 1 \in Code /\ pc \in Int
  BY PcTyped DEF OpCall
<1>3. first \in 1..Len(stack) + 1 /\ framePtr < first /\ first + 1 <= top + 2
  BY <1>1 DEF FrameLen, top
<1>4. cells \in Seq(Int) /\ Len(cells) = 2 /\ cells[1] = framePtr - 1 /\ cells[2] = pc + 1
  BY <1>1, <1>2
<1>5. call \in [fp : Nat, ret : Code] /\ call.fp = first + 1 /\ call.ret = pc + 1
  BY <1>2, <1>3
<1>6. /\ stackSize' = SizeAfterPushN(top, 2, stackSize) /\ moved' \in BOOLEAN
  BY Resized DEF OpCall
<1>7. stackSize' \in Nat /\ top + 2 <= stackSize' /\ SizeMin <= stackSize'
  BY <1>1, <1>6, PushNFits
<1>8. /\ stack' = InsertedAt(stack, first, cells)
      /\ framePtr' = first + 1 /\ pc' = target /\ calls' = Append(calls, call)
  BY DEF OpCall
<1> HIDE DEF first, cells, call
<1>9. /\ InsertedAt(stack, first, cells) \in Seq(Int)
      /\ Len(InsertedAt(stack, first, cells)) = Len(stack) + Len(cells)
      /\ \A j \in 1..(first - 1) : InsertedAt(stack, first, cells)[j] = stack[j]
      /\ \A j \in 1..Len(cells) : InsertedAt(stack, first, cells)[first - 1 + j] = cells[j]
  <2>1. cells \in Seq(Int)
    BY <1>4
  <2> QED
    BY <1>1, <1>3, <2>1, InsertedAtProperties, SMTT(30)
<1>10. /\ stack' \in Seq(Int) /\ Len(stack') = top + 2
       /\ \A j \in 1..framePtr : stack'[j] = stack[j]
       /\ stack'[first] = framePtr - 1 /\ stack'[first + 1] = pc + 1
  <2>1. \A j \in 1..framePtr : j \in 1..(first - 1)
    BY <1>1, <1>3
  <2>2. first \in Nat /\ first - 1 + 1 = first /\ first - 1 + 2 = first + 1
    BY <1>1, <1>3 DEF top
  <2>3. 1 \in 1..Len(cells) /\ 2 \in 1..Len(cells)
    BY <1>4
  <2>4. stack'[first] = framePtr - 1 /\ stack'[first + 1] = pc + 1
    BY <1>4, <1>8, <1>9, <2>2, <2>3
  <2>5. Len(stack') = top + 2
    BY <1>4, <1>8, <1>9 DEF top
  <2> QED
    BY <1>8, <1>9, <2>1, <2>4, <2>5, Zenon
<1>11. /\ calls' \in Seq([fp : Nat, ret : Code]) /\ Len(calls') = Len(calls) + 1
       /\ \A k \in 1..Len(calls) : calls'[k] = calls[k]
       /\ calls'[Len(calls) + 1] = call
  <2>1. calls \in Seq([fp : Nat, ret : Code])
    BY DEF IInv, TypeOK
  <2>2. call \in [fp : Nat, ret : Code]
    BY <1>5
  <2> QED
    BY <1>8, <2>1, <2>2, AppendProperties
<1>12. /\ Len(calls) \in Nat /\ DOMAIN calls = 1..Len(calls)
       /\ \A k \in 1..Len(calls) : calls[k].fp \in Nat /\ FrameBelow(k) \in Nat
  BY CallsTyped
<1>13. DOMAIN calls' = 1..Len(calls) + 1 /\ calls' # <<>>
  BY <1>11, <1>12, LenProperties
<1>14. ~inC /\ CodeFrame = framePtr /\ CodeFrame' = framePtr'
  BY <1>2, RunningFrame DEF Running, OpCall, cState, CodeFrame
<1>15. framePtr = IF calls = <<>> THEN 0 ELSE calls[Len(calls)].fp
  BY <1>14 DEF IInv, FrameLinkage
<1>16. /\ \A k \in 1..Len(calls) : FrameBelow(k)' = FrameBelow(k)
       /\ \A k \in Nat : k = Len(calls) + 1 => FrameBelow(k)' = framePtr
  <2>1. \A k \in 1..Len(calls) : k # 1 => k - 1 \in 1..Len(calls)
    BY <1>12
  <2>2. \A k \in 1..Len(calls) : FrameBelow(k)' = FrameBelow(k)
    BY <1>11, <2>1 DEF FrameBelow
  <2>3. ASSUME NEW k \in Nat, k = Len(calls) + 1
        PROVE  FrameBelow(k)' = framePtr
    <3>1. calls \in Seq([fp : Nat, ret : Code])
      BY DEF IInv, TypeOK
    <3>2. CASE calls = <<>>
      <4>1. k = 1
        BY <2>3, <3>2, EmptySeq
      <4> QED
        BY <3>2, <4>1, <1>15 DEF FrameBelow
    <3>3. CASE calls # <<>>
      <4>1. Len(calls) \in Nat \ {0}
        BY <3>1, <3>3, EmptySeq, Zenon
      <4>2. Len(calls) \in 1..Len(calls) /\ k # 1 /\ k - 1 = Len(calls)
        BY <2>3, <4>1
      <4>3. FrameBelow(k)' = calls'[Len(calls)].fp
        BY <4>2 DEF FrameBelow
      <4> QED
        BY <3>3, <4>2, <4>3, <1>11, <1>15
    <3> QED
      BY <3>2, <3>3
  <2> QED
    BY <2>2, <2>3
<1>17. \A k \in 1..Len(calls) :
         /\ FrameBelow(k) + 2 <= calls[k].fp /\ calls[k].fp <= framePtr
         /\ stack[calls[k].fp] = calls[k].ret
         /\ stack[calls[k].fp - 1] = FrameBelow(k) - 1
  BY <1>12, <1>14 DEF IInv, FrameLinkage
<1>18. FrameLinkage'
  <2>1. framePtr' <= top' /\ CodeFrame' <= framePtr'
    BY <1>1, <1>3, <1>8, <1>10, <1>14 DEF top
  <2>2. CodeFrame' = IF calls' = <<>> THEN 0 ELSE calls'[Len(calls')].fp
    BY <1>5, <1>8, <1>11, <1>13, <1>14
  <2>3. ASSUME NEW k \in 1..Len(calls)
        PROVE  /\ FrameBelow(k)' + 2 <= calls'[k].fp /\ calls'[k].fp <= CodeFrame'
               /\ stack'[calls'[k].fp] = calls'[k].ret
               /\ stack'[calls'[k].fp - 1] = FrameBelow(k)' - 1
    <3>1. calls'[k] = calls[k] /\ FrameBelow(k)' = FrameBelow(k)
      BY <1>11, <1>16
    <3>2. calls[k].fp \in Nat /\ FrameBelow(k) \in Nat
      BY <1>12
    <3>3. calls[k].fp \in 1..framePtr /\ calls[k].fp - 1 \in 1..framePtr
      BY <1>1, <1>17, <3>2
    <3>4. calls[k].fp <= CodeFrame'
      BY <1>1, <1>3, <1>8, <1>14, <3>3
    <3> QED
      BY <1>10, <1>17, <3>1, <3>3, <3>4
  <2>4. ASSUME NEW k \in Nat, k = Len(calls) + 1
        PROVE  /\ FrameBelow(k)' + 2 <= calls'[k].fp
               /\ calls'[k].fp <= CodeFrame'
               /\ stack'[calls'[k].fp] = calls'[k].ret
               /\ stack'[calls'[k].fp - 1] = FrameBelow(k)' - 1
    <3>1. first + 1 - 1 = first /\ framePtr + 2 <= first + 1 /\ first \in Nat
      BY <1>1, <1>3
    <3>2. calls'[k].fp = first + 1 /\ calls'[k].ret = pc + 1
      BY <2>4, <1>5, <1>11
    <3>3. FrameBelow(k)' = framePtr /\ CodeFrame' = first + 1
      BY <2>4, <1>8, <1>14, <1>16
    <3>4. calls'[k].fp - 1 = first /\ FrameBelow(k)' + 2 <= calls'[k].fp
      <4>1. calls'[k].fp - 1 = first
        BY <3>1, <3>2
      <4>2. FrameBelow(k)' + 2 <= calls'[k].fp
        BY <1>1, <3>1, <3>2, <3>3
      <4> QED
        BY <4>1, <4>2
    <3>5. calls'[k].fp <= CodeFrame'
      BY <1>1, <3>1, <3>2, <3>3
    <3>6. stack'[calls'[k].fp] = calls'[k].ret
      BY <1>10, <3>2
    <3>7. stack'[calls'[k].fp - 1] = FrameBelow(k)' - 1
      BY <1>10, <3>3, <3>4
    <3> QED
      BY <3>4, <3>5, <3>6, <3>7
  <2>5. \A k \in DOMAIN calls' : k \in 1..Len(calls) \/ (k \in Nat /\ k = Len(calls) + 1)
    BY <1>12, <1>13
  <2>6. \A k \in DOMAIN calls' :
          /\ FrameBelow(k)' + 2 <= calls'[k].fp /\ calls'[k].fp <= CodeFrame'
          /\ stack'[calls'[k].fp] = calls'[k].ret
          /\ stack'[calls'[k].fp - 1] = FrameBelow(k)' - 1
    <3> TAKE k \in DOMAIN calls'
    <3>1. CASE k \in 1..Len(calls)
      BY <2>3, <3>1, Zenon
    <3>2. CASE k \in Nat /\ k = Len(calls) + 1
      BY <2>4, <3>2, Zenon
    <3> QED
      BY <2>5, <3>1, <3>2, Zenon
  <2> QED
    BY <2>1, <2>2, <2>6, Zenon DEF FrameLinkage
<1>19. Nested'
  <2> SUFFICES ASSUME NEW j \in DOMAIN calls', NEW k \in DOMAIN calls', j < k
               PROVE  calls'[j].fp + 2 <= calls'[k].fp
    BY DEF Nested
  <2>1. CASE k \in 1..Len(calls)
    <3>1. j \in 1..Len(calls)
      BY <2>1, <1>12, <1>13
    <3>2. j \in DOMAIN calls /\ k \in DOMAIN calls
      BY <2>1, <3>1, <1>12
    <3>3. calls[j].fp + 2 <= calls[k].fp
      BY <3>2 DEF IInv, Nested
    <3> QED
      BY <2>1, <3>1, <3>3, <1>11
  <2>2. CASE k = Len(calls) + 1
    <3>1. j \in 1..Len(calls)
      BY <2>2, <1>12, <1>13
    <3>2. calls'[j].fp <= framePtr /\ calls'[j].fp \in Nat
      BY <3>1, <1>11, <1>12, <1>17
    <3> QED
      BY <2>2, <3>2, <1>1, <1>3, <1>5, <1>11
  <2> QED
    BY <2>1, <2>2, <1>12, <1>13
<1>20. TypeOK'
  <2>1. framePtr' \in Nat /\ pc' \in 0..CodeLen
    BY <1>1, <1>3, <1>8, CodeLenAssumption DEF Code
  <2>2. UNCHANGED <<flags, cState>>
    BY DEF OpCall
  <2> QED
    BY <1>6, <1>7, <1>10, <1>11, <2>1, <2>2 DEF TypeOK, IInv, flags, cState
<1>21. Capacity'
  BY <1>7, <1>10 DEF Capacity, top
<1> QED
  BY <1>18, <1>19, <1>20, <1>21 DEF IInv
LEMMA ReturnStep ==
  ASSUME IInv, NEW m \in 0..FrameLen, OpRet(m)
  PROVE  IInv'
<1> DEFINE last == Len(calls)
           ptr  == framePtr - 1
           len  == top - ptr + 1 - m
           below == FrameBelow(last)
<1>1. /\ top \in Nat /\ stackSize \in Nat /\ framePtr \in Nat
      /\ top <= stackSize /\ SizeMin <= stackSize
      /\ framePtr <= top /\ stack \in Seq(Int)
  BY SizesTyped
<1>2. /\ Len(calls) \in Nat /\ DOMAIN calls = 1..Len(calls)
      /\ \A k \in 1..Len(calls) :
           calls[k].fp \in Nat /\ calls[k].ret \in Code /\ FrameBelow(k) \in Nat
  BY CallsTyped
<1>3. ~inC /\ CodeFrame = framePtr /\ framePtr > 0
  BY RunningFrame DEF Running, OpRet
<1>4. calls # <<>> /\ framePtr = calls[last].fp
  BY <1>3 DEF IInv, FrameLinkage
<1>5. last \in 1..Len(calls)
  <2>1. calls \in Seq([fp : Nat, ret : Code])
    BY DEF IInv, TypeOK
  <2>2. Len(calls) \in Nat \ {0}
    BY <1>4, <2>1, EmptySeq, Zenon
  <2> QED
    BY <2>2
<1>6. /\ below + 2 <= framePtr /\ below \in Nat
      /\ stack[framePtr] = calls[last].ret /\ stack[ptr] = below - 1
  BY <1>2, <1>4, <1>5 DEF IInv, FrameLinkage
<1>7. /\ pc' = stack[framePtr] /\ framePtr' = stack[ptr] + 1
      /\ stack' = RemovedAt(stack, ptr, len) /\ calls' = Dropped(calls, 1)
  BY DEF OpRet
<1>8. pc' \in 0..CodeLen /\ framePtr' = below
  BY <1>2, <1>5, <1>6, <1>7, CodeLenAssumption DEF Code
<1>9. stackSize' = SizeAfterPopN(top, len, stackSize) /\ moved' \in BOOLEAN
  BY Resized DEF OpRet
<1> HIDE DEF below
<1>10. /\ ptr \in 1..Len(stack) + 1 /\ len \in 0..Len(stack) - ptr + 1
       /\ len \in Nat /\ top - len = ptr - 1 + m /\ len <= top
       /\ below <= ptr - 1 /\ below <= top - len
  BY <1>1, <1>6 DEF FrameLen, top
<1> HIDE DEF ptr, len
<1>11. Remaining(top, len) = top - len
  BY <1>1, <1>10 DEF Remaining, Greater
<1>12. stackSize' \in Nat /\ top - len <= stackSize' /\ SizeMin <= stackSize'
  BY <1>1, <1>9, <1>10, <1>11, PopNFits
<1>13. /\ stack' \in Seq(Int) /\ Len(stack') = top - len
       /\ \A i \in 1..below : stack'[i] = stack[i]
  <2>1. stack \in Seq(Int)
    BY <1>1
  <2>2. ptr \in 1..Len(stack) + 1 /\ len \in 0..Len(stack) - ptr + 1
    BY <1>10
  <2>3. /\ RemovedAt(stack, ptr, len) \in Seq(Int)
        /\ Len(RemovedAt(stack, ptr, len)) = Len(stack) - len
        /\ \A j \in 1..(ptr - 1) : RemovedAt(stack, ptr, len)[j] = stack[j]
    BY <2>1, <2>2, RemovedAtProperties, Zenon
  <2>4. \A i \in 1..below : i \in 1..(ptr - 1)
    BY <1>6, <1>10
  <2> QED
    BY <1>7, <2>3, <2>4 DEF top
<1>14. /\ calls' \in Seq([fp : Nat, ret : Code]) /\ Len(calls') = last - 1
       /\ \A k \in 1..last - 1 : calls'[k] = calls[k]
  <2>1. calls \in Seq([fp : Nat, ret : Code])
    BY DEF IInv, TypeOK
  <2>2. /\ Dropped(calls, 1) \in Seq([fp : Nat, ret : Code])
        /\ Len(Dropped(calls, 1)) = Remaining(Len(calls), 1)
        /\ \A i \in 1..Len(Dropped(calls, 1)) : Dropped(calls, 1)[i] = calls[i]
    BY <2>1, DroppedProperties
  <2>3. Remaining(Len(calls), 1) = last - 1
    BY <1>2, <1>5 DEF Remaining, Greater
  <2> QED
    BY <1>7, <2>2, <2>3
<1>15. DOMAIN calls' = 1..last - 1
  BY <1>14, LenProperties
<1>16. UNCHANGED <<flags, cState>>
  BY DEF OpRet
<1>17. CodeFrame' = below
  BY <1>3, <1>8, <1>16 DEF CodeFrame, cState
<1>18. below = IF calls' = <<>> THEN 0 ELSE calls'[Len(calls')].fp
  <2>1. CASE last = 1
    <3>1. calls' = <<>>
      BY <2>1, <1>14, EmptySeq
    <3> QED
      BY <2>1, <3>1 DEF below, FrameBelow
  <2>2. CASE last # 1
    <3>1. last - 1 \in 1..last - 1 /\ Len(calls') # 0
      BY <2>2, <1>5, <1>14
    <3>2. calls' # <<>>
      BY <3>1, EmptySeq
    <3>3. below = calls[last - 1].fp
      BY <2>2 DEF below, FrameBelow
    <3> QED
      BY <3>1, <3>2, <3>3, <1>14
  <2> QED
    BY <2>1, <2>2
<1>19. \A k \in 1..last - 1 : k \in 1..last /\ k < last /\ calls[k].fp <= below
  <2> TAKE k \in 1..last - 1
  <2>1. k \in 1..last /\ last - 1 \in 1..last /\ k < last /\ last # 1
    BY <1>2, <1>5
  <2>2. below = calls[last - 1].fp
    BY <2>1 DEF below, FrameBelow
  <2>3. calls[k].fp \in Nat /\ calls[last - 1].fp \in Nat
    BY <1>2, <2>1
  <2>4. CASE k = last - 1
    BY <2>1, <2>2, <2>3, <2>4
  <2>5. CASE k # last - 1
    <3>1. k < last - 1
      BY <1>2, <2>5
    <3>2. calls[k].fp + 2 <= calls[last - 1].fp
      BY <1>2, <2>1, <3>1 DEF IInv, Nested
    <3> QED
      BY <2>1, <2>2, <2>3, <3>2
  <2> QED
    BY <2>4, <2>5
<1>20. \A k \in 1..last - 1 : FrameBelow(k)' = FrameBelow(k)
  <2>1. \A k \in 1..last - 1 : k # 1 => k - 1 \in 1..last - 1
    BY <1>2, <1>5
  <2> QED
    BY <1>14, <2>1 DEF FrameBelow
<1>21. FrameLinkage'
  <2>1. framePtr' <= top' /\ CodeFrame' <= framePtr'
    BY <1>6, <1>8, <1>10, <1>13, <1>17 DEF top
  <2>2. CodeFrame' = IF calls' = <<>> THEN 0 ELSE calls'[Len(calls')].fp
    BY <1>17, <1>18
  <2>3. ASSUME NEW k \in 1..last - 1
        PROVE  /\ FrameBelow(k)' + 2 <= calls'[k].fp /\ calls'[k].fp <= CodeFrame'
               /\ stack'[calls'[k].fp] = calls'[k].ret
               /\ stack'[calls'[k].fp - 1] = FrameBelow(k)' - 1
    <3>1. calls'[k] = calls[k] /\ FrameBelow(k)' = FrameBelow(k)
      BY <1>14, <1>20
    <3>2. k \in 1..last /\ calls[k].fp <= below /\ calls[k].fp \in Nat /\ FrameBelow(k) \in Nat
      BY <1>2, <1>19
    <3>3. /\ FrameBelow(k) + 2 <= calls[k].fp
          /\ stack[calls[k].fp] = calls[k].ret
          /\ stack[calls[k].fp - 1] = FrameBelow(k) - 1
      BY <1>2, <3>2 DEF IInv, FrameLinkage
    <3>4. calls[k].fp \in 1..below /\ calls[k].fp - 1 \in 1..below
      BY <1>6, <3>2, <3>3, SMTT(20)
    <3> QED
      BY <1>13, <1>17, <3>1, <3>2, <3>3, <3>4
  <2> QED
    BY <1>15, <2>1, <2>2, <2>3 DEF FrameLinkage
<1>22. Nested'
  <2> SUFFICES ASSUME NEW j \in DOMAIN calls', NEW k \in DOMAIN calls', j < k
               PROVE  calls'[j].fp + 2 <= calls'[k].fp
    BY DEF Nested
  <2>1. j \in 1..last - 1 /\ k \in 1..last - 1
    BY <1>15
  <2>2. calls'[j] = calls[j] /\ calls'[k] = calls[k] /\ j \in DOMAIN calls /\ k \in DOMAIN calls
    BY <1>2, <1>14, <1>19, <2>1
  <2> QED
    BY <2>2 DEF IInv, Nested
<1>23. TypeOK'
  BY <1>6, <1>8, <1>9, <1>12, <1>13, <1>14, <1>16 DEF TypeOK, IInv, flags, cState
<1>24. Capacity'
  BY <1>12, <1>13 DEF Capacity, top
<1> QED
  BY <1>21, <1>22, <1>23, <1>24 DEF IInv

LEMMA EnterCStep ==
  ASSUME IInv, NEW n \in 0..FrameLen, NEW pops \in 0..1, OpCallC(n, pops)
  PROVE  IInv'
<1>1. /\ top \in Nat /\ framePtr \in Nat /\ framePtr <= top /\ stack \in Seq(Int)
  BY SizesTyped
<1>2. pops \in Nat /\ pops <= FrameLen /\ n + pops <= FrameLen /\ PopN(pops)
  BY <1>1 DEF OpCallC, FrameLen
<1>3. StackStep(framePtr) /\ Len(stack') = top - pops
  BY <1>2, PopNKeepsFrame
<1>4. CodeFrame = framePtr
  BY RunningFrame DEF OpCallC
<1>5. CodeFrame' = framePtr /\ framePtr' = top - pops - n
  BY DEF CodeFrame, OpCallC
<1>6. framePtr' \in Nat /\ framePtr <= framePtr' /\ framePtr' <= Len(stack')
  BY <1>1, <1>2, <1>3, <1>5 DEF FrameLen
<1>7. SameCalls
  BY <1>1, <1>4, <1>5, <1>6 DEF SameCalls, OpCallC
<1>8. FlagsTyped' /\ pc' \in 0..CodeLen
  BY DEF OpCallC, IInv, TypeOK, FlagsTyped, flags
<1> QED
  BY <1>3, <1>4, <1>7, <1>8, CallsKept

LEMMA LeaveCStep ==
  ASSUME IInv, CReturn
  PROVE  IInv'
<1>1. /\ top \in Nat /\ stackSize \in Nat /\ framePtr \in Nat /\ savedFramePtr \in Nat
      /\ top <= stackSize /\ SizeMin <= stackSize
      /\ CodeFrame <= framePtr /\ framePtr <= top /\ stack \in Seq(Int)
  BY SizesTyped DEF IInv, TypeOK
<1>2. CodeFrame = savedFramePtr
  BY DEF CReturn, CodeFrame
<1>3. /\ stack' = stack /\ stackSize' = stackSize /\ moved' = FALSE
      /\ inC' = FALSE /\ savedFramePtr' = 0 /\ framePtr' = savedFramePtr /\ calls' = calls
  BY DEF CReturn
<1>4. StackStep(CodeFrame)
  <2>1. CodeFrame <= Len(stack') /\ Len(stack') <= stackSize' /\ SizeMin <= stackSize'
    BY <1>1, <1>2, <1>3, SizeMinAssumption DEF top
  <2> QED
    BY <1>1, <1>3, <2>1 DEF StackStep
<1>5. CodeFrame' = CodeFrame
  BY <1>2, <1>3 DEF CodeFrame
<1>6. SameCalls
  <2>1. CodeFrame' <= framePtr' /\ framePtr' <= Len(stack')
    BY <1>1, <1>2, <1>3, <1>5 DEF top
  <2>2. framePtr' \in Nat /\ savedFramePtr' \in Nat /\ inC' \in BOOLEAN
    BY <1>1, <1>3
  <2> QED
    BY <1>3, <1>5, <2>1, <2>2 DEF SameCalls
<1>7. FlagsTyped' /\ pc' \in 0..CodeLen
  BY FallsThrough DEF CReturn, IInv, TypeOK, FlagsTyped, flags
<1> QED
  BY <1>4, <1>6, <1>7, CallsKept

(* A machine without pending calls whose stack is empty.                   *)
LEMMA EmptiedStep ==
  ASSUME IInv, stack' = <<>>, calls' = <<>>, framePtr' = 0, inC' = FALSE,
         savedFramePtr' = savedFramePtr, moved' = moved,
         stackSize' \in Nat, SizeMin <= stackSize', FlagsTyped', pc' \in 0..CodeLen
  PROVE  IInv'
<1>1. <<>> \in Seq(Int) /\ <<>> \in Seq([fp : Nat, ret : Code]) /\ Len(<<>>) = 0
  OBVIOUS
<1>2. TypeOK'
  BY <1>1 DEF TypeOK, IInv, FlagsTyped
<1>3. Capacity'
  BY <1>1, SizeMinAssumption DEF Capacity, top
<1>4. FrameLinkage' /\ Nested'
  BY <1>1 DEF FrameLinkage, Nested, CodeFrame, top
<1> QED
  BY <1>2, <1>3, <1>4 DEF IInv

-----------------------------------------------------------------------------
LEMMA InitEstablishes == Init => IInv
<1> SUFFICES ASSUME Init PROVE IInv
  OBVIOUS
<1>1. <<>> \in Seq(Int) /\ <<>> \in Seq([fp : Nat, ret : Code]) /\ Len(<<>>) = 0
  OBVIOUS
<1>2. TypeOK
  <2>1. SizeMin \in Nat /\ 0 \in 0..CodeLen
    BY SizeMinAssumption, CodeLenAssumption
  <2> QED
    BY <1>1, <2>1, Zenon DEF Init, TypeOK
<1>3. Capacity
  BY <1>1, SizeMinAssumption DEF Init, Capacity, top
<1>4. FrameLinkage /\ Nested
  BY <1>1 DEF Init, FrameLinkage, Nested, CodeFrame, top
<1> QED
  BY <1>2, <1>3, <1>4 DEF IInv

LEMMA InstructionStep == IInv /\ PcInCode /\ Instruction => IInv'
<1> SUFFICES ASSUME IInv, PcInCode, Instruction PROVE IInv'
  OBVIOUS
<1>1. ASSUME NEW v \in Words, OpPush(v) PROVE IInv'
  <2>1. v \in Int
    BY WordsAssumption
  <2> QED
    BY <1>1, <2>1, FallsThrough, PushStep DEF OpPush
<1>2. ASSUME NEW v \in Words, OpBinary(v) PROVE IInv'
  BY <1>2, WordsAssumption, BinaryStep
<1>3. ASSUME NEW n \in 1..MaxTop, OpPushN(n) PROVE IInv'
  <2>1. n \in Nat
    BY MaxTopAssumption
  <2> QED
    BY <1>3, <2>1, FallsThrough, PushNKeepsAll, FlagsKept, FramesKept,
       StepKeepsInvariant DEF OpPushN
<1>4. ASSUME NEW n \in 1..MaxTop, OpPop(n) PROVE IInv'
  <2>1. n \in Nat
    BY MaxTopAssumption
  <2> QED
    BY <1>4, <2>1, FallsThrough, PopNStep DEF OpPop
<1>5. ASSUME NEW index \in Indices, OpGet(index) PROVE IInv'
  BY <1>5, IndexInStack, FallsThrough, PushStep DEF OpGet
<1>6. ASSUME OpDivByZero PROVE IInv'
  <2>1. StackStep(framePtr) /\ SameFrames
    BY <1>6, StackUntouched DEF OpDivByZero, SameFrames, cState
  <2>2. FlagsTyped'
    BY <1>6 DEF OpDivByZero, FlagsTyped, IInv, TypeOK, cState
  <2> QED
    BY <1>6, <2>1, <2>2, FallsThrough, StepKeepsInvariant DEF OpDivByZero
<1>7. ASSUME NEW target \in Code, OpJump(target) PROVE IInv'
  <2>1. pc' \in 0..CodeLen
    BY <1>7, CodeLenAssumption DEF OpJump, Code
  <2> QED
    BY <1>7, <2>1, StackUntouched, FlagsKept, FramesKept, StepKeepsInvariant DEF OpJump
<1>8. ASSUME NEW target \in Code, OpJumpCon(target) PROVE IInv'
  <2>1. pc' \in 0..CodeLen
    BY <1>8, CodeLenAssumption, FallsThrough DEF OpJumpCon, Code
  <2>2. 1 <= FrameLen /\ PopN(1) /\ UNCHANGED <<framePtr, calls, flags, cState>>
    BY <1>8, SizesTyped DEF OpJumpCon, FrameLen
  <2> QED
    BY <2>1, <2>2, PopNStep
<1>9. ASSUME OpRetHalts PROVE IInv'
  <2>1. StackStep(framePtr) /\ SameFrames
    BY <1>9, StackUntouched DEF OpRetHalts, SameFrames, cState
  <2>2. FlagsTyped'
    BY <1>9 DEF OpRetHalts, FlagsTyped, IInv, TypeOK, cState
  <2>3. pc' \in 0..CodeLen
    <3>1. pc \in Code /\ pc' = pc + 1
      BY <1>9 DEF OpRetHalts, Running, PcInCode
    <3> QED
      BY <3>1, CodeLenAssumption DEF Code
  <2> QED
    BY <2>1, <2>2, <2>3, StepKeepsInvariant
<1> QED
  BY <1>1, <1>2, <1>3, <1>4, <1>5, <1>6, <1>7, <1>8, <1>9, CallStep, ReturnStep,
     EnterCStep DEF Instruction

LEMMA OtherStep == IInv /\ (StackFunction \/ CReturn \/ CError \/ Host) => IInv'
<1>1. ASSUME IInv, StackFunction PROVE IInv'
  <2>1. ASSUME NEW v \in Words, ApiPush(v) PROVE IInv'
    BY <1>1, <2>1, WordsAssumption, PcTyped, PushStep DEF ApiPush
  <2>2. ASSUME NEW n \in 1..MaxTop, ApiPopN(n) PROVE IInv'
    BY <1>1, <2>2, MaxTopAssumption, PcTyped, PopNStep DEF ApiPopN
  <2>3. ASSUME NEW index \in Indices, NEW v \in Words, ApiSet(index, v) PROVE IInv'
    BY <1>1, <2>3, WordsAssumption, SetStep
  <2>4. ASSUME NEW index \in Indices, NEW v \in Words, ApiInsert(index, v) PROVE IInv'
    BY <1>1, <2>4, WordsAssumption, InsertStep
  <2>5. ASSUME NEW index \in Indices, NEW len \in 1..MaxTop, ApiRemoveLen(index, len)
        PROVE  IInv'
    BY <1>1, <2>5, MaxTopAssumption, RemoveLenStep
  <2> QED
    BY <1>1, <2>1, <2>2, <2>3, <2>4, <2>5 DEF StackFunction
<1>2. ASSUME IInv, CError PROVE IInv'
  <2>1. StackStep(framePtr) /\ SameFrames
    BY <1>2, StackUntouched DEF CError, SameFrames, cState
  <2>2. FlagsTyped'
    BY <1>2 DEF CError, FlagsTyped, IInv, TypeOK, cState
  <2> QED
    BY <1>2, <2>1, <2>2, PcTyped, StepKeepsInvariant DEF CError
<1>3. ASSUME IInv, NEW start \in Code, HostRun(start) PROVE IInv'
  <2>1. StackStep(framePtr) /\ SameFrames
    BY <1>3, StackUntouched DEF HostRun, SameFrames, cState
  <2>2. FlagsTyped'
    BY <1>3 DEF HostRun, FlagsTyped, IInv, TypeOK, cState
  <2>3. pc' \in 0..CodeLen
    BY <1>3, CodeLenAssumption DEF HostRun, Code
  <2> QED
    BY <1>3, <2>1, <2>2, <2>3, StepKeepsInvariant
<1>4. ASSUME IInv, HostReset PROVE IInv'
  <2>1. FlagsTyped' /\ inC' = FALSE
    BY <1>4 DEF HostReset, Idle, FlagsTyped, IInv, TypeOK
  <2>2. pc' \in 0..CodeLen
    BY <1>4, CodeLenAssumption DEF HostReset
  <2>3. stackSize' \in Nat /\ SizeMin <= stackSize'
    BY <1>4, SizeMinAssumption DEF HostReset
  <2> QED
    BY <1>4, <2>1, <2>2, <2>3, EmptiedStep DEF HostReset
<1>5. ASSUME IInv, HostFree PROVE IInv'
  <2>1. FlagsTyped' /\ pc' \in 0..CodeLen /\ inC' = FALSE
    BY <1>5 DEF HostFree, Idle, FlagsTyped, IInv, TypeOK
  <2> QED
    BY <1>5, <2>1, SizesTyped, EmptiedStep DEF HostFree
<1> QED
  BY <1>1, <1>2, <1>3, <1>4, <1>5, LeaveCStep DEF Host

LEMMA StutterStep == IInv /\ UNCHANGED vars => IInv'
<1> SUFFICES ASSUME IInv, UNCHANGED vars PROVE IInv'
  OBVIOUS
<1>1. StackStep(framePtr) /\ SameFrames /\ FlagsTyped' /\ pc' \in 0..CodeLen
  BY StackUntouched, PcTyped DEF vars, SameFrames, FlagsTyped, IInv, TypeOK
<1> QED
  BY <1>1, StepKeepsInvariant

LEMMA ReturnAddress ==
  ASSUME IInv, NEW m \in 0..FrameLen, OpRet(m)
  PROVE  pc' \in Code
<1>1. ~inC /\ framePtr > 0 /\ CodeFrame = framePtr /\ pc' = stack[framePtr]
  BY RunningFrame DEF OpRet, Running
<1>2. calls # <<>> /\ framePtr = calls[Len(calls)].fp
  BY <1>1 DEF IInv, FrameLinkage
<1>3. Len(calls) \in 1..Len(calls) /\ DOMAIN calls = 1..Len(calls)
  <2>1. calls \in Seq([fp : Nat, ret : Code])
    BY DEF IInv, TypeOK
  <2>2. Len(calls) \in Nat \ {0}
    BY <1>2, <2>1, EmptySeq, Zenon
  <2> QED
    BY <2>2, CallsTyped
<1>4. stack[framePtr] = calls[Len(calls)].ret
  BY <1>2, <1>3 DEF IInv, FrameLinkage
<1> QED
  BY <1>1, <1>3, <1>4, CallsTyped

LEMMA NextKeepsPcInCode == IInv /\ PcInCode /\ [Next]_vars => PcInCode'
<1> SUFFICES ASSUME IInv, PcInCode, [Next]_vars PROVE PcInCode'
  OBVIOUS
<1> USE DEF PcInCode, flags, cState
<1>1. CASE Instruction /\ ~(\E m \in 0..FrameLen : OpRet(m))
  BY <1>1, Zenon DEF Instruction, Running, FallThrough, OpPush, OpPushN, OpPop, OpGet, OpBinary,
     OpDivByZero, OpJump, OpJumpCon, OpCall, OpRetHalts, OpCallC
<1>2. CASE \E m \in 0..FrameLen : OpRet(m)
  BY <1>2, ReturnAddress
<1>3. CASE StackFunction
  BY <1>3, Zenon DEF StackFunction, ApiPush, ApiPopN, ApiSet, ApiInsert, ApiRemoveLen
<1>4. CASE CReturn \/ CError \/ Undefined \/ UNCHANGED vars
  BY <1>4, Zenon DEF CReturn, FallThrough, CError, Undefined, vars
<1>5. CASE Host
  <2>1. ASSUME NEW start \in Code, HostRun(start) PROVE pc' \in Code
    BY <2>1 DEF HostRun
  <2>2. CASE HostReset \/ HostFree
    BY <2>2 DEF HostReset, HostFree, Idle
  <2> QED
    BY <1>5, <2>1, <2>2 DEF Host
<1> QED
  BY <1>1, <1>2, <1>3, <1>4, <1>5 DEF Next

LEMMA NextKeepsInvariant == IInv /\ PcInCode /\ [Next]_vars => IInv'
BY InstructionStep, OtherStep, StutterStep DEF Next, Undefined

(* The inductive invariant holds in every reachable state.                 *)
THEOREM Invariance == Spec => [](IInv /\ PcInCode)
<1>1. Init => IInv /\ PcInCode
  BY InitEstablishes DEF Init, PcInCode
<1>2. (IInv /\ PcInCode) /\ [Next]_vars => (IInv /\ PcInCode)'
  BY NextKeepsInvariant, NextKeepsPcInCode
<1> QED
  BY <1>1, <1>2, PTL DEF Spec

(* Every variable keeps its type: OP_RET takes pc and framePtr from the    *)
(* stack (dvm.c:997-1005), and what it finds is a code address and a       *)
(* frame.                                                                  *)
THEOREM TypeCorrect == Spec => []TypeOK
<1>1. IInv => TypeOK
  BY DEF IInv
<1> QED
  BY <1>1, Invariance, PTL

(* No stack operation leaves an element outside the allocation, for every  *)
(* minimal size from 2 on (dvm.c:164-189, 438-518).                        *)
THEOREM StackFits == Spec => []Capacity
<1>1. IInv => Capacity
  BY DEF IInv
<1> QED
  BY <1>1, Invariance, PTL

(* Under every frame lie the frame pointer and the return address of the   *)
(* call that made it (dvm.c:860-874, 984-1015).                            *)
THEOREM FramesLinked == Spec => []FrameLinkage
<1>1. IInv => FrameLinkage
  BY DEF IInv
<1> QED
  BY <1>1, Invariance, PTL

(* A machine that has halted without an error has returned from every call *)
(* it has made (dvm.c:984-1015).                                           *)
THEOREM HaltsInTheStartingFrame == Spec => []CleanHalt
<1>1. Init => CleanHalt
  BY DEF Init, CleanHalt
<1>2. IInv /\ CleanHalt /\ [Next]_vars => CleanHalt'
  <2> SUFFICES ASSUME IInv, CleanHalt, [Next]_vars PROVE CleanHalt'
    OBVIOUS
  <2> USE DEF CleanHalt, flags, cState
  <2>1. CASE OpRetHalts
    <3>1. ~inC /\ framePtr = 0
      BY <2>1 DEF OpRetHalts, Running
    <3>2. calls = <<>>
      <4> SUFFICES ASSUME calls # <<>> PROVE FALSE
        OBVIOUS
      <4>1. calls \in Seq([fp : Nat, ret : Code])
        BY DEF IInv, TypeOK
      <4>2. Len(calls) \in Nat \ {0}
        BY <4>1, EmptySeq, Zenon
      <4>3. Len(calls) \in DOMAIN calls /\ Len(calls) \in 1..Len(calls)
        BY <4>2, CallsTyped
      <4>4. calls[Len(calls)].fp = 0
        BY <3>1 DEF IInv, FrameLinkage, CodeFrame
      <4>5. FrameBelow(Len(calls)) \in Nat /\ FrameBelow(Len(calls)) + 2 <= calls[Len(calls)].fp
        BY <4>3, CallsTyped DEF IInv, FrameLinkage
      <4> QED
        BY <4>4, <4>5
    <3> QED
      BY <2>1, <3>1, <3>2 DEF OpRetHalts
  <2>2. CASE Instruction /\ ~OpRetHalts
    <3>1. ~halted
      BY <2>2, Zenon DEF Instruction, Running, OpPush, OpPushN, OpPop, OpGet, OpBinary,
         OpDivByZero, OpJump, OpJumpCon, OpCall, OpRet, OpCallC
    <3>2. UNCHANGED halted \/ runtimeError' = TRUE
      BY <2>2, Zenon DEF Instruction, OpPush, OpPushN, OpPop, OpGet, OpBinary, OpDivByZero,
         OpJump, OpJumpCon, OpCall, OpRet, OpCallC
    <3> QED
      BY <3>1, <3>2
  <2>3. CASE StackFunction
    BY <2>3, Zenon DEF StackFunction, ApiPush, ApiPopN, ApiSet, ApiInsert, ApiRemoveLen
  <2>4. CASE CReturn \/ CError \/ Undefined \/ UNCHANGED vars
    BY <2>4, Zenon DEF CReturn, CError, Undefined, vars
  <2>5. CASE Host
    BY <2>5, Zenon DEF Host, HostRun, HostReset, HostFree, Idle
  <2> QED
    BY <2>1, <2>2, <2>3, <2>4, <2>5 DEF Next
<1> QED
  BY <1>1, <1>2, Invariance, PTL DEF Spec

-----------------------------------------------------------------------------
(* The flat stack implements separate call frames.                         *)

FrameSet == [vals : Seq(Int), ret : Int]

Depth     == Len(calls) + 1
InnerVals == SubSeq(stack, CodeFrame + 1, top)

-----------------------------------------------------------------------------
(* Sections of a sequence.                                                 *)

(* A section of a sequence, counted from what lies below it.               *)
LEMMA Section ==
  ASSUME NEW s \in Seq(Int), NEW a \in Nat, NEW b \in Nat, a <= b, b <= Len(s)
  PROVE  /\ SubSeq(s, a + 1, b) \in Seq(Int)
         /\ Len(SubSeq(s, a + 1, b)) = b - a
         /\ \A i \in 1..b - a : SubSeq(s, a + 1, b)[i] = s[a + i]
<1> DEFINE m == a + 1
           u == SubSeq(s, m, b)
<1>1. m \in Nat \ {0} /\ m <= b + 1 /\ b - m + 1 = b - a
  OBVIOUS
<1>2. \A i \in 1..b - a : m + i - 1 = a + i
  OBVIOUS
<1> HIDE DEF m
<1>3. /\ u \in Seq(Int) /\ Len(u) = b - m + 1
      /\ \A i \in 1..b - m + 1 : u[i] = s[m + i - 1]
  BY <1>1, SectionProperties
<1> HIDE DEF u
<1>4. /\ u \in Seq(Int) /\ Len(u) = b - a
      /\ \A i \in 1..b - a : u[i] = s[a + i]
  BY <1>1, <1>2, <1>3
<1> QED
  BY <1>4 DEF u, m

(* Sections are equal that have the same elements.                         *)
LEMMA SameSection ==
  ASSUME NEW s \in Seq(Int), NEW t \in Seq(Int), NEW a \in Nat, NEW b \in Nat,
         a <= b, b <= Len(s), b <= Len(t), \A i \in a + 1..b : s[i] = t[i]
  PROVE  SubSeq(s, a + 1, b) = SubSeq(t, a + 1, b)
<1> DEFINE u == SubSeq(s, a + 1, b)
           v == SubSeq(t, a + 1, b)
<1>1. u \in Seq(Int) /\ Len(u) = b - a /\ \A i \in 1..b - a : u[i] = s[a + i]
  BY Section
<1>2. v \in Seq(Int) /\ Len(v) = b - a /\ \A i \in 1..b - a : v[i] = t[a + i]
  BY Section
<1>3. \A i \in 1..b - a : a + i \in a + 1..b
  OBVIOUS
<1> HIDE DEF u, v
<1>4. \A i \in 1..Len(u) : u[i] = v[i]
  BY <1>1, <1>2, <1>3
<1>5. u = v
  BY <1>1, <1>2, <1>4, SeqEqual
<1> QED
  BY <1>5 DEF u, v

(* A concatenation, its second part counted from the first.                *)
LEMMA Concatenated ==
  ASSUME NEW u \in Seq(Int), NEW v \in Seq(Int)
  PROVE  /\ u \o v \in Seq(Int) /\ Len(u \o v) = Len(u) + Len(v)
         /\ \A i \in 1..Len(u) : (u \o v)[i] = u[i]
         /\ \A i \in 1..Len(v) : (u \o v)[Len(u) + i] = v[i]
<1> DEFINE w == u \o v
<1>1. /\ w \in Seq(Int) /\ Len(w) = Len(u) + Len(v)
      /\ \A i \in 1..Len(u) + Len(v) : w[i] = IF i <= Len(u) THEN u[i] ELSE v[i - Len(u)]
  BY ConcatProperties, Zenon
<1> HIDE DEF w
<1>2. PICK m \in Nat, n \in Nat : m = Len(u) /\ n = Len(v)
  BY LenProperties
<1>3. \A i \in 1..m + n : w[i] = IF i <= m THEN u[i] ELSE v[i - m]
  BY <1>1, <1>2
<1>4. \A i \in 1..m : i \in 1..m + n /\ i <= m
  OBVIOUS
<1>5. \A i \in 1..n : w[m + i] = v[i]
  <2> TAKE i \in 1..n
  <2>1. m + i \in 1..m + n /\ ~(m + i <= m) /\ m + i - m = i
    OBVIOUS
  <2>2. w[m + i] = v[m + i - m]
    BY <1>3, <2>1
  <2> QED
    BY <2>1, <2>2
<1>6. \A i \in 1..m : w[i] = u[i]
  BY <1>3, <1>4
<1> QED
  BY <1>1, <1>2, <1>5, <1>6 DEF w

(* The lower and the upper part of a section.                              *)
LEMMA SectionParts ==
  ASSUME NEW s \in Seq(Int), NEW a \in Nat, NEW n \in Nat, a + n <= Len(s)
  PROVE  /\ Frames!Bottom(SubSeq(s, a + 1, Len(s)), n) = SubSeq(s, a + 1, Len(s) - n)
         /\ Frames!Topmost(SubSeq(s, a + 1, Len(s)), n) = SubSeq(s, Len(s) - n + 1, Len(s))
         /\ SubSeq(s, a + 1, Len(s) - n) \in Seq(Int)
         /\ SubSeq(s, Len(s) - n + 1, Len(s)) \in Seq(Int)
<1> DEFINE u == SubSeq(s, a + 1, Len(s))
<1>1. Len(s) \in Nat /\ a <= Len(s)
  BY LenProperties
<1>2. PICK l \in Nat, c \in Nat, d \in Nat : l = Len(s) /\ c = l - n /\ d = c - a /\ a <= c /\ c <= l
  BY <1>1
<1>3. u \in Seq(Int) /\ Len(u) = l - a /\ \A i \in 1..l - a : u[i] = s[a + i]
  BY <1>1, <1>2, Section
<1> HIDE DEF u
<1>4. d <= Len(u) /\ Len(u) - n = d /\ d \in 0..Len(u)
  BY <1>2, <1>3
<1>5. /\ SubSeq(u, 0 + 1, d) \in Seq(Int) /\ Len(SubSeq(u, 0 + 1, d)) = d - 0
      /\ \A i \in 1..d - 0 : SubSeq(u, 0 + 1, d)[i] = u[0 + i]
  BY <1>3, <1>4, Section
<1>6. /\ SubSeq(s, a + 1, c) \in Seq(Int) /\ Len(SubSeq(s, a + 1, c)) = c - a
      /\ \A i \in 1..c - a : SubSeq(s, a + 1, c)[i] = s[a + i]
  BY <1>2, Section
<1>7. SubSeq(u, 0 + 1, d) = SubSeq(s, a + 1, c)
  <2> DEFINE v == SubSeq(u, 0 + 1, d)
             w == SubSeq(s, a + 1, c)
  <2>1. v \in Seq(Int) /\ w \in Seq(Int) /\ Len(v) = d /\ Len(w) = d
    BY <1>2, <1>5, <1>6, SMTT(20)
  <2>2. \A i \in 1..d : v[i] = w[i]
    BY <1>2, <1>3, <1>5, <1>6
  <2> HIDE DEF v, w
  <2>3. v = w
    BY <2>1, <2>2, SeqEqual
  <2> QED
    BY <2>3 DEF v, w
<1>8. /\ SubSeq(u, d + 1, Len(u)) \in Seq(Int) /\ Len(SubSeq(u, d + 1, Len(u))) = Len(u) - d
      /\ \A i \in 1..Len(u) - d : SubSeq(u, d + 1, Len(u))[i] = u[d + i]
  <2>1. PICK m \in Nat : m = Len(u)
    BY <1>3, LenProperties
  <2>2. /\ SubSeq(u, d + 1, m) \in Seq(Int) /\ Len(SubSeq(u, d + 1, m)) = m - d
        /\ \A i \in 1..m - d : SubSeq(u, d + 1, m)[i] = u[d + i]
    <3>1. u \in Seq(Int)
      BY <1>3
    <3>2. d <= m
      BY <1>4, <2>1
    <3>3. m <= Len(u)
      BY <2>1
    <3> QED
      BY <3>1, <3>2, <3>3, Section, Zenon
  <2> QED
    BY <2>1, <2>2
<1>9. /\ SubSeq(s, c + 1, l) \in Seq(Int) /\ Len(SubSeq(s, c + 1, l)) = l - c
      /\ \A i \in 1..l - c : SubSeq(s, c + 1, l)[i] = s[c + i]
  BY <1>2, Section, SMTT(20)
<1>10. SubSeq(u, d + 1, Len(u)) = SubSeq(s, c + 1, l)
  <2> DEFINE v == SubSeq(u, d + 1, Len(u))
             w == SubSeq(s, c + 1, l)
  <2>1. v \in Seq(Int) /\ w \in Seq(Int) /\ Len(v) = n /\ Len(w) = n
    BY <1>2, <1>3, <1>8, <1>9
  <2>2. \A i \in 1..n : v[i] = u[d + i] /\ w[i] = s[c + i]
    BY <1>2, <1>3, <1>8, <1>9
  <2>3. \A i \in 1..n : d + i \in 1..l - a /\ a + (d + i) = c + i
    BY <1>2
  <2>4. \A i \in 1..n : v[i] = w[i]
    BY <1>3, <2>2, <2>3
  <2> HIDE DEF v, w
  <2>5. v = w
    BY <2>1, <2>4, SeqEqual
  <2> QED
    BY <2>5 DEF v, w
<1>11. /\ Frames!Bottom(u, n) = SubSeq(u, 0 + 1, d)
       /\ Frames!Topmost(u, n) = SubSeq(u, d + 1, Len(u))
  <2>1. Frames!Bottom(u, n) = SubSeq(u, 1, Len(u) - n)
    BY DEF Frames!Bottom
  <2>2. Frames!Topmost(u, n) = SubSeq(u, Len(u) - n + 1, Len(u))
    BY DEF Frames!Topmost
  <2>3. 0 + 1 = 1
    OBVIOUS
  <2> QED
    BY <1>4, <2>1, <2>2, <2>3
<1>12. Len(s) - n = c
  BY <1>2
<1> QED
  BY <1>2, <1>6, <1>7, <1>9, <1>10, <1>11, <1>12 DEF u

(* An insertion, counted from what lies below it.                          *)
LEMMA InsertedBelow ==
  ASSUME NEW s \in Seq(Int), NEW c \in Nat, c <= Len(s), NEW vals \in Seq(Int)
  PROVE  /\ InsertedAt(s, c + 1, vals) \in Seq(Int)
         /\ Len(InsertedAt(s, c + 1, vals)) = Len(s) + Len(vals)
         /\ \A j \in 1..c : InsertedAt(s, c + 1, vals)[j] = s[j]
         /\ \A j \in 1..Len(vals) : InsertedAt(s, c + 1, vals)[c + j] = vals[j]
<1>1. PICK i \in 1..Len(s) + 1 : i = c + 1 /\ i - 1 = c
  <2>1. Len(s) \in Nat
    BY LenProperties
  <2> QED
    BY <2>1
<1>2. /\ InsertedAt(s, i, vals) \in Seq(Int)
      /\ Len(InsertedAt(s, i, vals)) = Len(s) + Len(vals)
      /\ \A j \in 1..(i - 1) : InsertedAt(s, i, vals)[j] = s[j]
      /\ \A j \in 1..Len(vals) : InsertedAt(s, i, vals)[i - 1 + j] = vals[j]
  BY InsertedAtProperties, SMTT(30)
<1> QED
  BY <1>1, <1>2

(* What lies above an insertion moves up by what is inserted.              *)
LEMMA InsertedAbove ==
  ASSUME NEW s \in Seq(Int), NEW c \in Nat, c <= Len(s), NEW vals \in Seq(Int)
  PROVE  SubSeq(InsertedAt(s, c + 1, vals), c + Len(vals) + 1, Len(s) + Len(vals)) =
           SubSeq(s, c + 1, Len(s))
<1>1. PICK l \in Nat, d \in Nat, e \in Nat, g \in Nat, h \in Nat :
        /\ l = Len(s) /\ d = Len(vals) /\ e = c + d /\ g = l + d /\ h = l - c
        /\ c <= l /\ e <= g /\ g - e = h /\ g = e + h
  <2>1. Len(s) \in Nat /\ Len(vals) \in Nat
    BY LenProperties
  <2> QED
    BY <2>1
<1> DEFINE low  == SubSeq(s, 0 + 1, c)
           high == SubSeq(s, c + 1, l)
           lv   == low \o vals
           t    == lv \o high
           u    == SubSeq(t, e + 1, g)
<1>2. low \in Seq(Int) /\ Len(low) = c - 0
  BY <1>1, Section
<1>3. high \in Seq(Int) /\ Len(high) = l - c
  BY <1>1, Section
<1>4. InsertedAt(s, c + 1, vals) = t
  <2>1. PICK i \in Nat : i = c + 1
    OBVIOUS
  <2>2. InsertedAt(s, i, vals) = (SubSeq(s, 1, i - 1) \o vals) \o SubSeq(s, i, Len(s))
    BY DEF InsertedAt
  <2>3. i - 1 = c /\ 0 + 1 = 1 /\ Len(s) = l
    BY <1>1, <2>1
  <2>4. InsertedAt(s, i, vals) = t
    BY <2>1, <2>2, <2>3
  <2> QED
    BY <2>1, <2>4
<1> HIDE DEF low, high
<1>5. lv \in Seq(Int) /\ Len(lv) = e
  <2>1. low \in Seq(Int)
    BY <1>2
  <2>2. lv \in Seq(Int) /\ Len(lv) = Len(low) + Len(vals)
    BY <2>1, Concatenated, Zenon
  <2> QED
    BY <1>1, <1>2, <2>2
<1> HIDE DEF lv
<1>6. t \in Seq(Int) /\ Len(t) = g /\ \A i \in 1..h : t[e + i] = high[i]
  <2>1. lv \in Seq(Int)
    BY <1>5
  <2>2. high \in Seq(Int)
    BY <1>3
  <2>3. /\ t \in Seq(Int) /\ Len(t) = Len(lv) + Len(high)
        /\ \A i \in 1..Len(high) : t[Len(lv) + i] = high[i]
    BY <2>1, <2>2, Concatenated, Zenon
  <2> QED
    BY <1>1, <1>3, <1>5, <2>3
<1> HIDE DEF t
<1>7. u \in Seq(Int) /\ Len(u) = h /\ \A i \in 1..h : u[i] = t[e + i]
  <2>1. t \in Seq(Int) /\ e <= g /\ g <= Len(t)
    BY <1>1, <1>6
  <2>2. u \in Seq(Int) /\ Len(u) = g - e /\ \A i \in 1..g - e : u[i] = t[e + i]
    BY <2>1, Section
  <2> QED
    BY <1>1, <2>2
<1> HIDE DEF u
<1>8. \A i \in 1..Len(u) : u[i] = high[i]
  BY <1>6, <1>7
<1>9. u = high
  BY <1>1, <1>3, <1>7, <1>8, SeqEqual
<1> QED
  BY <1>1, <1>4, <1>9 DEF u, high

(* A removal, counted from what lies below it.                             *)
LEMMA RemovedBelow ==
  ASSUME NEW s \in Seq(Int), NEW c \in Nat, NEW n \in Nat, NEW i \in Nat,
         i = c + 1, c + n <= Len(s)
  PROVE  /\ RemovedAt(s, i, n) \in Seq(Int)
         /\ Len(RemovedAt(s, i, n)) = Len(s) - n
         /\ \A j \in 1..c : RemovedAt(s, i, n)[j] = s[j]
<1>1. PICK h \in 1..Len(s) + 1 : h = i /\ h - 1 = c /\ n \in 0..Len(s) - h + 1
  <2>1. Len(s) \in Nat
    BY LenProperties
  <2>2. i \in 1..Len(s) + 1 /\ i - 1 = c /\ n \in 0..Len(s) - i + 1
    BY <2>1
  <2> QED
    BY <2>2
<1>2. /\ RemovedAt(s, h, n) \in Seq(Int)
      /\ Len(RemovedAt(s, h, n)) = Len(s) - n
      /\ \A j \in 1..(h - 1) : RemovedAt(s, h, n)[j] = s[j]
  <2>1. n \in 0..Len(s) - h + 1
    BY <1>1
  <2> QED
    BY <2>1, RemovedAtProperties
<1> QED
  BY <1>1, <1>2

(* What lies above a removal comes to lie on what is below it.             *)
LEMMA RemovedAbove ==
  ASSUME NEW s \in Seq(Int), NEW i \in Nat, NEW n \in Nat, NEW x \in Nat,
         1 <= x, x <= i, i + n <= Len(s) + 1
  PROVE  SubSeq(RemovedAt(s, i, n), x, Len(s) - n) = SubSeq(s, x, i - 1) \o SubSeq(s, i + n, Len(s))
<1>1. PICK l \in Nat : l = Len(s)
  BY LenProperties
<1>2. PICK a \in Nat, c \in Nat : a = x - 1 /\ c = i - 1 /\ a <= c
  OBVIOUS
<1>3. PICK e \in Nat : e = c + n /\ e <= l
  BY <1>1, <1>2
<1>4. PICK h \in Nat, b \in Nat : h = l - e /\ b = c - a
  BY <1>2, <1>3
<1>5. PICK g \in Nat : g = l - n /\ g = c + h /\ g - a = b + h /\ a <= g
  BY <1>2, <1>3, <1>4
<1>6. x = a + 1 /\ i - 1 = c /\ i + n = e + 1 /\ c = a + b
  BY <1>2, <1>3, <1>4
<1> DEFINE low  == SubSeq(s, 0 + 1, c)
           part == SubSeq(s, a + 1, c)
           high == SubSeq(s, e + 1, l)
           t    == low \o high
           u    == SubSeq(t, a + 1, g)
           v    == part \o high
<1>7. low \in Seq(Int) /\ Len(low) = c /\ \A j \in 1..c : low[j] = s[j]
  <2>1. 0 <= c /\ c <= Len(s)
    BY <1>1, <1>3
  <2>2. low \in Seq(Int) /\ Len(low) = c - 0 /\ \A j \in 1..c - 0 : low[j] = s[0 + j]
    BY <2>1, Section
  <2> HIDE DEF low
  <2> QED
    BY <2>2
<1>8. high \in Seq(Int) /\ Len(high) = h
  BY <1>1, <1>3, <1>4, Section
<1>9. part \in Seq(Int) /\ Len(part) = b /\ \A j \in 1..b : part[j] = s[a + j]
  BY <1>1, <1>2, <1>3, <1>4, Section
<1>10. RemovedAt(s, i, n) = t
  <2>1. RemovedAt(s, i, n) = SubSeq(s, 1, i - 1) \o SubSeq(s, i + n, Len(s))
    BY DEF RemovedAt
  <2>2. 0 + 1 = 1
    OBVIOUS
  <2> QED
    BY <1>1, <1>6, <2>1, <2>2
<1> HIDE DEF low, high, part
<1>11. /\ t \in Seq(Int) /\ Len(t) = g
       /\ \A j \in 1..c : t[j] = low[j]
       /\ \A j \in 1..h : t[c + j] = high[j]
  <2>1. low \in Seq(Int)
    BY <1>7
  <2>2. high \in Seq(Int)
    BY <1>8
  <2>3. /\ t \in Seq(Int) /\ Len(t) = Len(low) + Len(high)
        /\ \A j \in 1..Len(low) : t[j] = low[j]
        /\ \A j \in 1..Len(high) : t[Len(low) + j] = high[j]
    BY <2>1, <2>2, Concatenated, Zenon
  <2> QED
    BY <1>5, <1>7, <1>8, <2>3
<1>12. /\ v \in Seq(Int) /\ Len(v) = g - a
       /\ \A j \in 1..b : v[j] = part[j]
       /\ \A j \in 1..h : v[b + j] = high[j]
  <2>1. part \in Seq(Int)
    BY <1>9
  <2>2. high \in Seq(Int)
    BY <1>8
  <2>3. /\ v \in Seq(Int) /\ Len(v) = Len(part) + Len(high)
        /\ \A j \in 1..Len(part) : v[j] = part[j]
        /\ \A j \in 1..Len(high) : v[Len(part) + j] = high[j]
    BY <2>1, <2>2, Concatenated, Zenon
  <2> QED
    BY <1>5, <1>8, <1>9, <2>3
<1> HIDE DEF t, v
<1>13. u \in Seq(Int) /\ Len(u) = g - a /\ \A j \in 1..g - a : u[j] = t[a + j]
  BY <1>5, <1>11, Section
<1> HIDE DEF u
<1>14. ASSUME NEW j \in 1..b PROVE u[j] = v[j]
  <2>1. j \in 1..g - a /\ a + j \in 1..c
    BY <1>5, <1>6
  <2>2. u[j] = t[a + j] /\ t[a + j] = low[a + j] /\ low[a + j] = s[a + j]
    BY <1>7, <1>11, <1>13, <2>1
  <2> QED
    BY <1>9, <1>12, <2>2
<1>15. ASSUME NEW j \in 1..h PROVE u[b + j] = v[b + j]
  <2>1. b + j \in 1..g - a /\ a + (b + j) = c + j
    BY <1>5, <1>6
  <2>2. u[b + j] = t[c + j]
    BY <1>13, <2>1
  <2> QED
    BY <1>11, <1>12, <2>2
<1>16. u = v
  <2>1. \A j \in 1..b + h : j \in 1..b \/ (j - b \in 1..h /\ j = b + (j - b))
    OBVIOUS
  <2>2. 1..Len(u) = 1..b + h
    BY <1>5, <1>13
  <2>3. \A j \in 1..Len(u) : u[j] = v[j]
    BY <1>14, <1>15, <2>1, <2>2
  <2> QED
    BY <1>12, <1>13, <2>3, SeqEqual
<1>17. Len(s) - n = g
  BY <1>1, <1>5
<1> QED
  BY <1>1, <1>6, <1>10, <1>16, <1>17 DEF u, v, part, high

-----------------------------------------------------------------------------
(* The frames the stack is cut into.                                       *)

LEMMA Cuts ==
  ASSUME IInv
  PROVE  /\ Len(calls) \in Nat /\ Depth \in Nat \ {0} /\ Len(calls) = Depth - 1
         /\ FrameStart(Depth) = CodeFrame /\ FrameEnd(Depth) = top
         /\ \A k \in 1..Depth :
              /\ FrameStart(k) \in Nat /\ FrameEnd(k) \in Nat
              /\ FrameStart(k) <= FrameEnd(k) /\ FrameEnd(k) <= top
              /\ k # 1 => FrameStart(k) \in 1..top
         /\ \A k \in 1..Depth - 1 :
              /\ FrameStart(k) = FrameBelow(k)
              /\ FrameEnd(k) = calls[k].fp - 2 /\ FrameEnd(k) + 2 <= CodeFrame
<1>1. /\ Len(calls) \in Nat /\ DOMAIN calls = 1..Len(calls)
      /\ \A k \in 1..Len(calls) : calls[k].fp \in Nat /\ FrameBelow(k) \in Nat
  BY CallsTyped
<1>2. Depth \in Nat \ {0} /\ Len(calls) = Depth - 1
  BY <1>1 DEF Depth
<1>3. top \in Nat /\ CodeFrame \in Nat /\ CodeFrame <= top
  BY SizesTyped
<1>4. \A k \in 1..Len(calls) : FrameBelow(k) + 2 <= calls[k].fp /\ calls[k].fp <= CodeFrame
  BY <1>1 DEF IInv, FrameLinkage
<1>5. FrameStart(Depth) = CodeFrame
  <2>1. calls \in Seq([fp : Nat, ret : Code])
    BY DEF IInv, TypeOK
  <2>2. CASE calls = <<>>
    BY <2>2, <1>2, EmptySeq DEF FrameStart, FrameBelow, IInv, FrameLinkage
  <2>3. CASE calls # <<>>
    <3>1. Len(calls) \in Nat \ {0}
      BY <2>1, <2>3, EmptySeq, Zenon
    <3>2. Depth # 1 /\ Depth - 1 = Len(calls)
      BY <3>1 DEF Depth
    <3> QED
      BY <2>3, <3>2 DEF FrameStart, FrameBelow, IInv, FrameLinkage
  <2> QED
    BY <2>2, <2>3
<1>6. FrameEnd(Depth) = top
  BY <1>1 DEF FrameEnd, Depth
<1>7. \A k \in 1..Depth - 1 :
        /\ FrameStart(k) = FrameBelow(k)
        /\ FrameEnd(k) = calls[k].fp - 2 /\ FrameEnd(k) + 2 <= CodeFrame
        /\ FrameStart(k) \in Nat /\ FrameEnd(k) \in Nat /\ FrameStart(k) <= FrameEnd(k)
  <2> TAKE k \in 1..Depth - 1
  <2>1. k \in 1..Len(calls) /\ k # Depth
    BY <1>2
  <2>2. FrameStart(k) = FrameBelow(k) /\ FrameEnd(k) = calls[k].fp - 2
    BY <1>2, <2>1 DEF FrameStart, FrameEnd, Depth
  <2>3. /\ calls[k].fp \in Nat /\ FrameBelow(k) \in Nat
        /\ FrameBelow(k) + 2 <= calls[k].fp /\ calls[k].fp <= CodeFrame
    BY <1>1, <1>4, <2>1
  <2> QED
    BY <1>3, <2>2, <2>3
<1>8. \A k \in 1..Depth : k # 1 => FrameStart(k) \in 1..top
  <2> SUFFICES ASSUME NEW k \in 1..Depth, k # 1 PROVE FrameStart(k) \in 1..top
    OBVIOUS
  <2>1. k - 1 \in 1..Len(calls) /\ FrameStart(k) = calls[k - 1].fp
    BY <1>1, <1>2 DEF FrameStart, FrameBelow
  <2> QED
    BY <1>1, <1>3, <1>4, <2>1
<1>9. \A k \in 1..Depth :
        /\ FrameStart(k) \in Nat /\ FrameEnd(k) \in Nat
        /\ FrameStart(k) <= FrameEnd(k) /\ FrameEnd(k) <= top
  <2> SUFFICES ASSUME NEW k \in 1..Depth
               PROVE  /\ FrameStart(k) \in Nat /\ FrameEnd(k) \in Nat
                      /\ FrameStart(k) <= FrameEnd(k) /\ FrameEnd(k) <= top
    OBVIOUS
  <2>1. CASE k = Depth
    BY <1>3, <1>5, <1>6, <2>1
  <2>2. CASE k \in 1..Depth - 1
    BY <1>3, <1>7, <2>2
  <2> QED
    BY <1>2, <2>1, <2>2
<1> QED
  BY <1>1, <1>2, <1>5, <1>6, <1>7, <1>8, <1>9

(* The frame of a caller ends below the two cells of the call.             *)
LEMMA CallerEnds ==
  ASSUME IInv, NEW k \in 1..Depth - 1
  PROVE  /\ k \in 1..Depth /\ FrameEnd(k) \in Nat
         /\ FrameEnd(k) <= CodeFrame - 2 /\ FrameEnd(k) <= CodeFrame
<1>1. Depth \in Nat \ {0}
  BY Cuts
<1>2. k \in 1..Depth
  BY <1>1
<1>3. FrameEnd(k) \in Nat /\ FrameEnd(k) + 2 <= CodeFrame
  BY <1>2, Cuts
<1>4. CodeFrame \in Nat
  BY SizesTyped
<1> QED
  BY <1>2, <1>3, <1>4

LEMMA CutStackTyped ==
  ASSUME IInv
  PROVE  /\ CutStack \in Seq(FrameSet) /\ Len(CutStack) = Depth /\ CutStack # <<>>
         /\ DOMAIN CutStack = 1..Depth
         /\ \A k \in 1..Depth : CutStack[k] = FrameAt(k) /\ FrameAt(k) \in FrameSet
<1>1. Depth \in Nat \ {0} /\ CutStack = [k \in 1..Depth |-> FrameAt(k)]
  BY Cuts DEF CutStack, Depth
<1>2. ASSUME NEW k \in 1..Depth
      PROVE  FrameAt(k) \in FrameSet
  <2>1. stack \in Seq(Int) /\ Len(stack) = top /\ top \in Nat
    BY SizesTyped DEF top
  <2>2. SubSeq(stack, FrameStart(k) + 1, FrameEnd(k)) \in Seq(Int)
    <3>1. /\ FrameStart(k) + 1 \in Nat \ {0} /\ FrameEnd(k) \in Nat
          /\ FrameEnd(k) <= Len(stack) /\ FrameStart(k) + 1 <= FrameEnd(k) + 1
      BY <2>1, Cuts
    <3> QED
      BY <2>1, <3>1, SectionProperties
  <2>3. (IF k = 1 THEN -1 ELSE stack[FrameStart(k)]) \in Int
    <3>1. k # 1 => FrameStart(k) \in 1..Len(stack)
      BY <2>1, Cuts
    <3> QED
      BY <2>1, <3>1, ElementOfSeq
  <2> QED
    BY <2>2, <2>3 DEF FrameAt, FrameSet
<1>3. CutStack \in Seq(FrameSet) /\ Len(CutStack) = Depth /\ DOMAIN CutStack = 1..Depth
  BY <1>1, <1>2
<1> QED
  BY <1>1, <1>2, <1>3

(* The innermost frame.                                                    *)
LEMMA InnerIs ==
  ASSUME IInv
  PROVE  /\ Frames!Inner = FrameAt(Depth) /\ Frames!Inner \in FrameSet
         /\ Frames!Inner = [vals |-> InnerVals, ret |-> Frames!Inner.ret]
         /\ Frames!Inner.vals = InnerVals /\ InnerVals \in Seq(Int)
         /\ Frames!Inner.ret \in Int
         /\ Len(InnerVals) = top - CodeFrame
         /\ \A i \in 1..top - CodeFrame : InnerVals[i] = stack[CodeFrame + i]
         /\ calls # <<>> => Frames!Inner.ret = stack[CodeFrame]
<1>1. Frames!Inner = FrameAt(Depth) /\ FrameAt(Depth) \in FrameSet
  BY CutStackTyped, Cuts DEF Frames!Inner
<1>2. FrameAt(Depth).vals = InnerVals
  BY Cuts DEF FrameAt, InnerVals
<1>3. /\ top \in Nat /\ CodeFrame \in Nat /\ CodeFrame <= top
      /\ stack \in Seq(Int) /\ Len(stack) = top
  BY SizesTyped DEF top
<1>4. /\ InnerVals \in Seq(Int) /\ Len(InnerVals) = top - CodeFrame
      /\ \A i \in 1..top - CodeFrame : InnerVals[i] = stack[CodeFrame + i]
  BY <1>3, Section DEF InnerVals
<1>5. calls # <<>> => FrameAt(Depth).ret = stack[CodeFrame]
  <2>1. calls \in Seq([fp : Nat, ret : Code])
    BY DEF IInv, TypeOK
  <2>2. calls # <<>> => Len(calls) \in Nat \ {0}
    BY <2>1, EmptySeq, Zenon
  <2>3. calls # <<>> => Depth # 1
    BY <2>2 DEF Depth
  <2> QED
    BY <2>3, Cuts DEF FrameAt
<1> QED
  BY <1>1, <1>2, <1>4, <1>5 DEF FrameSet

(* What CallFrames calls InnerWith.                                        *)
LEMMA InnerWithIs ==
  ASSUME IInv, NEW vals \in Seq(Int)
  PROVE  /\ Frames!InnerWith(vals) \in Seq(FrameSet)
         /\ Len(Frames!InnerWith(vals)) = Depth
         /\ \A k \in 1..Depth - 1 : Frames!InnerWith(vals)[k] = FrameAt(k)
         /\ Frames!InnerWith(vals)[Depth] = [vals |-> vals, ret |-> Frames!Inner.ret]
<1> DEFINE callers == SubSeq(CutStack, 1, Depth - 1)
           inner   == [vals |-> vals, ret |-> Frames!Inner.ret]
<1>1. /\ Depth \in Nat \ {0} /\ CutStack \in Seq(FrameSet) /\ Len(CutStack) = Depth
      /\ \A k \in 1..Depth : CutStack[k] = FrameAt(k)
  BY Cuts, CutStackTyped
<1>2. callers \in Seq(FrameSet) /\ Len(callers) = Depth - 1
  <2>1. 1 \in Nat \ {0} /\ Depth - 1 \in Nat /\ 1 <= Depth - 1 + 1 /\ Depth - 1 <= Len(CutStack)
    BY <1>1
  <2> QED
    BY <1>1, <2>1, SectionProperties
<1>3. \A k \in 1..Depth - 1 : callers[k] = FrameAt(k)
  <2>1. 1 \in Nat \ {0} /\ Depth - 1 \in Nat /\ 1 <= Depth - 1 + 1 /\ Depth - 1 <= Len(CutStack)
    BY <1>1
  <2>2. \A i \in 1..Depth - 1 - 1 + 1 : callers[i] = CutStack[1 + i - 1]
    BY <1>1, <2>1, SectionProperties
  <2>3. \A i \in 1..Depth - 1 : i \in 1..Depth - 1 - 1 + 1 /\ 1 + i - 1 = i /\ i \in 1..Depth
    BY <1>1
  <2> QED
    BY <1>1, <2>2, <2>3
<1>4. inner \in FrameSet
  BY InnerIs DEF FrameSet
<1>5. [Frames!Inner EXCEPT !.vals = vals] = inner
  <2>1. Frames!Inner = [vals |-> InnerVals, ret |-> Frames!Inner.ret]
    BY InnerIs
  <2> QED
    BY <2>1
<1>6. Frames!InnerWith(vals) = Append(callers, inner)
  BY <1>1, <1>5 DEF Frames!InnerWith, Frames!Callers
<1> HIDE DEF callers, inner
<1>7. /\ Append(callers, inner) \in Seq(FrameSet)
      /\ Len(Append(callers, inner)) = Len(callers) + 1
      /\ \A k \in 1..Len(callers) : Append(callers, inner)[k] = callers[k]
      /\ Append(callers, inner)[Len(callers) + 1] = inner
  BY <1>2, <1>4, AppendProperties
<1>8. Len(callers) + 1 = Depth
  BY <1>1, <1>2
<1> QED
  BY <1>2, <1>3, <1>6, <1>7, <1>8 DEF inner

(* A frame is left alone by a step that leaves its bounds and the elements *)
(* up to its end.                                                          *)
LEMMA FrameKept ==
  ASSUME IInv, NEW k \in 1..Depth, NEW keep \in Nat,
         stack' \in Seq(Int), keep <= Len(stack'), \A i \in 1..keep : stack'[i] = stack[i],
         FrameStart(k)' = FrameStart(k), FrameEnd(k)' = FrameEnd(k), FrameEnd(k) <= keep
  PROVE  FrameAt(k)' = FrameAt(k)
<1>1. stack \in Seq(Int) /\ Len(stack) = top /\ top \in Nat /\ Len(stack') \in Nat
  BY SizesTyped, LenProperties DEF top
<1>2. PICK a \in Nat, b \in Nat :
        /\ a = FrameStart(k) /\ b = FrameEnd(k) /\ a <= b /\ b <= top /\ b <= keep
        /\ k # 1 => a \in 1..top
  BY Cuts
<1>3. b <= Len(stack) /\ b <= Len(stack')
  BY <1>1, <1>2
<1>4. \A i \in a + 1..b : stack'[i] = stack[i]
  BY <1>2
<1>5. SubSeq(stack', a + 1, b) = SubSeq(stack, a + 1, b)
  <2>1. stack' \in Seq(Int)
    OBVIOUS
  <2>2. stack \in Seq(Int)
    BY <1>1
  <2>3. a <= b
    BY <1>2
  <2>4. b <= Len(stack')
    BY <1>3
  <2>5. b <= Len(stack)
    BY <1>3
  <2> QED
    BY <1>4, <2>1, <2>2, <2>3, <2>4, <2>5, SameSection, Zenon
<1>6. k # 1 => stack'[a] = stack[a]
  BY <1>2
<1>7. FrameAt(k) = [vals |-> SubSeq(stack, a + 1, b), ret |-> IF k = 1 THEN -1 ELSE stack[a]]
  BY <1>2 DEF FrameAt
<1>8. FrameAt(k)' = [vals |-> SubSeq(stack', a + 1, b), ret |-> IF k = 1 THEN -1 ELSE stack'[a]]
  BY <1>2 DEF FrameAt
<1>9. FrameAt(k)' = [vals |-> SubSeq(stack, a + 1, b), ret |-> IF k = 1 THEN -1 ELSE stack[a]]
  BY <1>5, <1>6, <1>8
<1> QED
  BY <1>7, <1>9

(* The stack is cut into the frames of f.                                  *)
LEMMA CutInto ==
  ASSUME NEW f \in Seq(FrameSet), Depth' = Len(f), \A k \in 1..Len(f) : FrameAt(k)' = f[k]
  PROVE  CutStack' = f
<1>1. f = [k \in 1..Len(f) |-> f[k]]
  BY LenProperties
<1>2. CutStack' = [k \in 1..Len(f) |-> FrameAt(k)']
  BY DEF CutStack, Depth
<1> QED
  BY <1>1, <1>2

-----------------------------------------------------------------------------
(* Steps within the innermost frame.                                       *)

(* The frames of the callers are left alone.                               *)
LEMMA CallersKept ==
  ASSUME IInv, StackStep(CodeFrame), SameCalls
  PROVE  /\ Depth' = Depth
         /\ \A k \in 1..Depth - 1 : FrameAt(k)' = FrameAt(k)
         /\ FrameAt(Depth)' = [vals |-> InnerVals', ret |-> Frames!Inner.ret]
<1>1. calls' = calls /\ CodeFrame' = CodeFrame
  BY DEF SameCalls
<1>2. Depth' = Depth
  BY <1>1 DEF Depth
<1>3. /\ stack \in Seq(Int) /\ stack' \in Seq(Int) /\ Len(stack) = top /\ top \in Nat
      /\ Len(stack') \in Nat /\ CodeFrame \in Nat
      /\ CodeFrame <= top /\ CodeFrame <= Len(stack')
      /\ \A i \in 1..CodeFrame : stack'[i] = stack[i]
  <2>1. /\ stack' \in Seq(Int) /\ CodeFrame <= Len(stack')
        /\ \A i \in 1..CodeFrame : stack'[i] = stack[i]
    BY DEF StackStep
  <2>2. Len(stack') \in Nat
    BY <2>1, LenProperties
  <2> QED
    BY <2>1, <2>2, SizesTyped DEF top
<1>4. \A k : FrameStart(k)' = FrameStart(k)
  BY <1>1 DEF FrameStart, FrameBelow
<1>6. ASSUME NEW k \in 1..Depth - 1
      PROVE  FrameAt(k)' = FrameAt(k)
  <2>1. /\ FrameStart(k) \in Nat /\ FrameEnd(k) \in Nat /\ FrameStart(k) <= FrameEnd(k)
        /\ FrameEnd(k) + 2 <= CodeFrame /\ FrameEnd(k) = calls[k].fp - 2
    BY Cuts
  <2>2. FrameEnd(k)' = FrameEnd(k)
    BY <1>1, <1>2, Cuts DEF FrameEnd
  <2>3. FrameEnd(k) <= CodeFrame
    BY CallerEnds
  <2>4. k \in 1..Depth
    BY CallerEnds
  <2> QED
    BY <1>3, <1>4, <2>2, <2>3, <2>4, FrameKept
<1>7. FrameAt(Depth)' = [vals |-> InnerVals', ret |-> Frames!Inner.ret]
  <2>1. Frames!Inner.ret = IF Depth = 1 THEN -1 ELSE stack[CodeFrame]
    BY InnerIs, Cuts DEF FrameAt
  <2>2. Depth # 1 => CodeFrame \in 1..CodeFrame
    BY Cuts
  <2>3. (FrameEnd(Depth))' = top'
    BY <1>1, <1>2, Cuts DEF FrameEnd
  <2>4. (FrameStart(Depth))' = CodeFrame
    BY <1>1, <1>2, <1>4, Cuts DEF FrameStart, FrameBelow
  <2> QED
    BY <1>1, <1>2, <1>3, <2>1, <2>2, <2>3, <2>4 DEF FrameAt, InnerVals
<1> QED
  BY <1>2, <1>6, <1>7

(* So the step is one on the values of the innermost frame.                *)
LEMMA InnerChanged ==
  ASSUME IInv, StackStep(CodeFrame), SameCalls
  PROVE  /\ CutStack' = Frames!InnerWith(InnerVals') /\ InnerVals' \in Seq(Int)
         /\ Len(CutStack') = Len(CutStack) /\ CutStack'[Len(CutStack)].vals = InnerVals'
         /\ Len(InnerVals') = Len(stack') - CodeFrame
         /\ \A i \in 1..Len(stack') - CodeFrame : InnerVals'[i] = stack'[CodeFrame + i]
<1>1. /\ stack' \in Seq(Int) /\ Len(stack') \in Nat
      /\ CodeFrame \in Nat /\ CodeFrame <= Len(stack') /\ CodeFrame' = CodeFrame
  BY SizesTyped, LenProperties DEF StackStep, SameCalls
<1>3. InnerVals' = SubSeq(stack', CodeFrame + 1, Len(stack'))
  BY <1>1 DEF InnerVals, top
<1>4. /\ InnerVals' \in Seq(Int) /\ Len(InnerVals') = Len(stack') - CodeFrame
      /\ \A i \in 1..Len(stack') - CodeFrame : InnerVals'[i] = stack'[CodeFrame + i]
  BY <1>1, <1>3, Section
<1>6. CutStack' = Frames!InnerWith(InnerVals')
  <2>1. PICK f \in Seq(FrameSet) :
          /\ f = Frames!InnerWith(InnerVals') /\ Len(f) = Depth
          /\ \A k \in 1..Depth - 1 : f[k] = FrameAt(k)
          /\ f[Depth] = [vals |-> InnerVals', ret |-> Frames!Inner.ret]
    BY <1>4, InnerWithIs
  <2>2. \A k \in 1..Len(f) : FrameAt(k)' = f[k]
    <3>1. \A k \in 1..Depth : k \in 1..Depth - 1 \/ k = Depth
      BY Cuts
    <3> QED
      BY <2>1, <3>1, CallersKept
  <2>3. Depth' = Len(f)
    BY <2>1, CallersKept
  <2> QED
    BY <2>1, <2>2, <2>3, CutInto
<1>7. Len(CutStack) = Depth /\ Depth \in Nat \ {0}
  BY CutStackTyped, Cuts
<1>8. Len(CutStack') = Depth /\ CutStack'[Depth].vals = InnerVals'
  <2>1. PICK vals \in Seq(Int) : vals = InnerVals'
    BY <1>4
  <2>2. /\ Len(Frames!InnerWith(vals)) = Depth
        /\ Frames!InnerWith(vals)[Depth] = [vals |-> vals, ret |-> Frames!Inner.ret]
    BY InnerWithIs
  <2>3. CutStack' = Frames!InnerWith(vals)
    BY <1>6, <2>1
  <2> QED
    BY <2>1, <2>2, <2>3
<1> QED
  BY <1>4, <1>6, <1>7, <1>8

(* Nothing but flags and counters changes.                                 *)
LEMMA NothingCut ==
  ASSUME UNCHANGED <<stack, calls>>
  PROVE  CutStack' = CutStack
BY DEF CutStack, FrameAt, FrameStart, FrameEnd, FrameBelow, top

(* A step that leaves alone what lies below the frame pointer.             *)
LEMMA ComputeStep ==
  ASSUME IInv, StackStep(framePtr), SameFrames, halted' = halted
  PROVE  Frames!Compute
<1>1. /\ CodeFrame' = CodeFrame /\ CodeFrame \in Nat /\ CodeFrame <= framePtr
      /\ framePtr \in Nat /\ framePtr <= top /\ top \in Nat
  BY SizesTyped DEF SameFrames, CodeFrame
<1>2. /\ stack' \in Seq(Int) /\ Len(stack') \in Nat /\ framePtr <= Len(stack')
      /\ \A i \in 1..framePtr : stack'[i] = stack[i]
  BY LenProperties DEF StackStep
<1>3. StackStep(CodeFrame)
  BY <1>1, <1>2 DEF StackStep
<1>4. SameCalls
  BY <1>1, <1>2 DEF SameCalls, SameFrames, IInv, TypeOK
<1>5. Untouched' = Untouched /\ Untouched \in Nat /\ Untouched <= framePtr - CodeFrame
  BY <1>1 DEF Untouched, SameFrames, CodeFrame
<1>6. PICK h \in Nat : h = Untouched /\ h <= framePtr - CodeFrame
  BY <1>5
<1>7. /\ InnerVals' \in Seq(Int) /\ Len(InnerVals') = Len(stack') - CodeFrame
      /\ \A i \in 1..Len(stack') - CodeFrame : InnerVals'[i] = stack'[CodeFrame + i]
      /\ InnerVals \in Seq(Int) /\ Len(InnerVals) = top - CodeFrame
      /\ \A i \in 1..top - CodeFrame : InnerVals[i] = stack[CodeFrame + i]
  BY <1>3, <1>4, InnerChanged, InnerIs
<1>8. h <= Len(InnerVals') /\ h <= Len(InnerVals)
  BY <1>1, <1>2, <1>6, <1>7
<1>9. SubSeq(InnerVals', 1, h) = SubSeq(InnerVals, 1, h)
  <2>1. \A i \in 0 + 1..h : InnerVals'[i] = InnerVals[i]
    <3> SUFFICES ASSUME NEW i \in 0 + 1..h PROVE InnerVals'[i] = InnerVals[i]
      OBVIOUS
    <3>1. /\ i \in 1..Len(stack') - CodeFrame /\ i \in 1..top - CodeFrame
          /\ CodeFrame + i \in 1..framePtr
      BY <1>1, <1>2, <1>6
    <3> QED
      BY <1>2, <1>7, <3>1
  <2>2. SubSeq(InnerVals', 0 + 1, h) = SubSeq(InnerVals, 0 + 1, h)
    <3>1. 0 \in Nat /\ 0 <= h
      BY <1>6
    <3> QED
      BY <1>7, <1>8, <2>1, <3>1, SameSection
  <2> QED
    BY <2>2
<1>10. /\ CutStack' = Frames!InnerWith(CutStack'[Len(CutStack)].vals)
       /\ Len(CutStack') = Len(CutStack) /\ CutStack'[Len(CutStack)].vals = InnerVals'
  BY <1>3, <1>4, InnerChanged
<1>11. Frames!Inner.vals = InnerVals
  BY InnerIs
<1> QED
  BY <1>5, <1>6, <1>8, <1>9, <1>10, <1>11 DEF Frames!Compute
(* OP_CALL and OP_CALLR cut the arguments off into a frame of their own.   *)
LEMMA FramesOfCall ==
  ASSUME IInv, NEW n \in 0..FrameLen, NEW target \in Code, OpCall(n, target)
  PROVE  CutStack' = Append(Frames!InnerWith(Frames!Bottom(InnerVals, n)),
                            [vals |-> Frames!Topmost(InnerVals, n), ret |-> pc + 1])
<1> DEFINE cells == <<framePtr - 1, pc + 1>>
           call  == [fp |-> framePtr', ret |-> pc + 1]
<1>1. /\ CodeFrame = framePtr /\ pc \in Int /\ stack \in Seq(Int) /\ framePtr \in Nat
      /\ top \in Nat /\ Len(stack) = top
  BY RunningFrame, PcTyped, SizesTyped DEF OpCall, top
<1>2. PICK b \in Nat, c \in Nat, d \in Nat \ {0}, m \in Nat :
        /\ b = framePtr /\ c = top - n /\ d = Depth /\ m = n /\ b <= c /\ c + m = top
  <2>1. n \in Nat /\ top - n \in Nat /\ framePtr <= top - n /\ top - n + n = top
    BY <1>1, SizesTyped DEF FrameLen
  <2>2. Depth \in Nat \ {0}
    BY Cuts
  <2> QED
    BY <1>1, <2>1, <2>2
<1>3. /\ stack' = InsertedAt(stack, c + 1, cells) /\ framePtr' = c + 2
      /\ calls' = Append(calls, call)
  <2>1. top - n + 1 = c + 1 /\ top - n + 1 + 1 = c + 2
    BY <1>2
  <2> QED
    BY <2>1 DEF OpCall
<1>4. cells \in Seq(Int) /\ Len(cells) = 2 /\ cells[2] = pc + 1
  BY <1>1
<1>5. calls \in Seq([fp : Nat, ret : Code]) /\ call \in [fp : Nat, ret : Code]
  BY <1>3 DEF IInv, TypeOK, OpCall
<1>6. call.fp = c + 2 /\ call.ret = pc + 1
  BY <1>3
<1> HIDE DEF cells, call
<1>7. /\ stack' \in Seq(Int) /\ Len(stack') = top + 2
      /\ \A i \in 1..c : stack'[i] = stack[i]
      /\ stack'[c + 2] = pc + 1
  <2>1. c <= Len(stack)
    BY <1>1, <1>2
  <2>2. /\ InsertedAt(stack, c + 1, cells) \in Seq(Int)
        /\ Len(InsertedAt(stack, c + 1, cells)) = Len(stack) + Len(cells)
        /\ \A j \in 1..c : InsertedAt(stack, c + 1, cells)[j] = stack[j]
        /\ \A j \in 1..Len(cells) : InsertedAt(stack, c + 1, cells)[c + j] = cells[j]
    <3>1. stack \in Seq(Int)
      BY <1>1
    <3>2. c \in Nat
      BY <1>1
    <3>3. cells \in Seq(Int)
      BY <1>4
    <3> QED
      BY <2>1, <3>1, <3>2, <3>3, InsertedBelow, Zenon
  <2>3. /\ stack' \in Seq(Int) /\ Len(stack') = Len(stack) + Len(cells)
        /\ \A j \in 1..c : stack'[j] = stack[j]
        /\ \A j \in 1..Len(cells) : stack'[c + j] = cells[j]
    BY <1>3, <2>2
  <2>4. 2 \in 1..Len(cells)
    BY <1>4
  <2> QED
    BY <1>1, <1>4, <2>3, <2>4
<1>8. /\ Len(calls) = d - 1 /\ Len(calls') = d /\ calls'[d] = call
      /\ \A k \in 1..d - 1 : calls'[k] = calls[k]
  <2>1. Len(calls) = d - 1
    BY <1>2, Cuts
  <2>2. /\ Len(Append(calls, call)) = Len(calls) + 1
        /\ \A k \in 1..Len(calls) : Append(calls, call)[k] = calls[k]
        /\ Append(calls, call)[Len(calls) + 1] = call
    BY <1>5, AppendProperties
  <2> QED
    BY <1>2, <1>3, <2>1, <2>2
<1>9. Depth' = d + 1
  BY <1>8 DEF Depth
<1>10. \A k \in 1..d : FrameStart(k)' = FrameStart(k)
  BY <1>8 DEF FrameStart, FrameBelow
<1>11. \A k \in 1..d - 1 : FrameEnd(k)' = FrameEnd(k)
  BY <1>8 DEF FrameEnd
<1>12. FrameEnd(d)' = c
  BY <1>6, <1>8 DEF FrameEnd
<1>13. FrameStart(d + 1)' = c + 2 /\ FrameEnd(d + 1)' = top + 2
  BY <1>6, <1>7, <1>8 DEF FrameStart, FrameBelow, FrameEnd, top
<1>14. ASSUME NEW k \in 1..d - 1 PROVE FrameAt(k)' = FrameAt(k)
  <2>1. k \in 1..Depth - 1
    BY <1>2
  <2>2. PICK e \in Nat : e = FrameEnd(k) /\ e <= b /\ k \in 1..Depth
    BY <1>1, <1>2, <2>1, CallerEnds
  <2>3. c <= Len(stack')
    BY <1>2, <1>7
  <2>4. FrameEnd(k) <= c
    BY <1>2, <2>2
  <2>5. FrameStart(k)' = FrameStart(k) /\ FrameEnd(k)' = FrameEnd(k)
    BY <1>10, <1>11
  <2> QED
    BY <1>7, <2>2, <2>3, <2>4, <2>5, FrameKept
<1> DEFINE rest == Frames!Bottom(InnerVals, n)
           args == Frames!Topmost(InnerVals, n)
<1>15. /\ rest = SubSeq(stack, b + 1, c) /\ args = SubSeq(stack, c + 1, Len(stack))
       /\ rest \in Seq(Int) /\ args \in Seq(Int)
  <2>1. b + m <= Len(stack) /\ Len(stack) - m = c /\ InnerVals = SubSeq(stack, b + 1, Len(stack))
    BY <1>1, <1>2 DEF InnerVals
  <2>2. /\ Frames!Bottom(SubSeq(stack, b + 1, Len(stack)), m) = SubSeq(stack, b + 1, Len(stack) - m)
        /\ Frames!Topmost(SubSeq(stack, b + 1, Len(stack)), m) =
             SubSeq(stack, Len(stack) - m + 1, Len(stack))
        /\ SubSeq(stack, b + 1, Len(stack) - m) \in Seq(Int)
        /\ SubSeq(stack, Len(stack) - m + 1, Len(stack)) \in Seq(Int)
    BY <1>1, <2>1, SectionParts
  <2> QED
    BY <1>2, <2>1, <2>2
<1>16. FrameAt(d)' = [vals |-> rest, ret |-> Frames!Inner.ret]
  <2>1. SubSeq(stack', b + 1, c) = SubSeq(stack, b + 1, c)
    <3>1. c <= Len(stack) /\ c <= Len(stack') /\ \A i \in b + 1..c : stack'[i] = stack[i]
      BY <1>1, <1>2, <1>7
    <3> QED
      BY <1>1, <1>2, <1>7, <3>1, SameSection
  <2>2. FrameStart(d)' = b /\ FrameStart(d) = b
    BY <1>1, <1>2, <1>10, Cuts
  <2>3. Frames!Inner.ret = IF d = 1 THEN -1 ELSE stack[b]
    BY <1>2, <2>2, InnerIs DEF FrameAt
  <2>4. d # 1 => b \in 1..c
    BY <1>2, <2>2, Cuts
  <2>5. d # 1 => stack'[b] = stack[b]
    BY <1>7, <2>4
  <2> QED
    BY <1>12, <1>15, <2>1, <2>2, <2>3, <2>5 DEF FrameAt
<1>17. FrameAt(d + 1)' = [vals |-> args, ret |-> pc + 1]
  <2>1. SubSeq(stack', c + 2 + 1, top + 2) = SubSeq(stack, c + 1, Len(stack))
    <3>1. SubSeq(InsertedAt(stack, c + 1, cells), c + Len(cells) + 1, Len(stack) + Len(cells)) =
            SubSeq(stack, c + 1, Len(stack))
      <4>1. c <= Len(stack)
        BY <1>1, <1>2
      <4> QED
        BY <1>1, <1>4, <4>1, InsertedAbove
    <3> QED
      BY <1>1, <1>3, <1>4, <3>1
  <2>2. d + 1 # 1
    OBVIOUS
  <2> QED
    BY <1>7, <1>13, <1>15, <2>1, <2>2 DEF FrameAt
<1> HIDE DEF rest, args
<1>18. PICK g \in Seq(FrameSet) :
         /\ g = Frames!InnerWith(rest) /\ Len(g) = d
         /\ \A k \in 1..d - 1 : g[k] = FrameAt(k)
         /\ g[d] = [vals |-> rest, ret |-> Frames!Inner.ret]
  BY <1>2, <1>15, InnerWithIs
<1> DEFINE new == [vals |-> args, ret |-> pc + 1]
           f   == Append(g, new)
<1>19. new \in FrameSet
  BY <1>1, <1>15 DEF FrameSet
<1> HIDE DEF new
<1>20. /\ f \in Seq(FrameSet) /\ Len(f) = d + 1 /\ f[d + 1] = new
       /\ \A k \in 1..d : f[k] = g[k]
  BY <1>18, <1>19, AppendProperties
<1> HIDE DEF f
<1>21. \A k \in 1..Len(f) : FrameAt(k)' = f[k]
  <2>1. \A k \in 1..d + 1 : k \in 1..d - 1 \/ k = d \/ k = d + 1
    OBVIOUS
  <2>2. \A k \in 1..d - 1 : f[k] = FrameAt(k)'
    BY <1>14, <1>18, <1>20
  <2>3. f[d] = FrameAt(d)'
    BY <1>16, <1>18, <1>20
  <2>4. f[d + 1] = FrameAt(d + 1)'
    BY <1>17, <1>20 DEF new
  <2> QED
    BY <1>20, <2>1, <2>2, <2>3, <2>4
<1>22. CutStack' = f
  BY <1>9, <1>20, <1>21, CutInto
<1> QED
  BY <1>18, <1>22 DEF f, new, rest, args
(* OP_RET and OP_RETN drop the innermost frame, put its topmost m values   *)
(* on top of the caller's and go on behind the call.                       *)
LEMMA FramesOfReturn ==
  ASSUME IInv, NEW m \in 0..FrameLen, OpRet(m)
  PROVE  /\ Len(CutStack) > 1 /\ pc' = Frames!Inner.ret
         /\ CutStack' = Append(SubSeq(CutStack, 1, Len(CutStack) - 2),
                          [CutStack[Len(CutStack) - 1] EXCEPT
                             !.vals = @ \o Frames!Topmost(InnerVals, m)])
<1>1. /\ CodeFrame = framePtr /\ stack \in Seq(Int) /\ framePtr \in Nat /\ framePtr > 0
      /\ top \in Nat /\ Len(stack) = top /\ framePtr <= top
  BY RunningFrame, SizesTyped DEF OpRet, top
<1>2. calls # <<>>
  BY <1>1 DEF IInv, FrameLinkage
<1>3. calls \in Seq([fp : Nat, ret : Code]) /\ Len(calls) \in Nat \ {0}
  <2>1. calls \in Seq([fp : Nat, ret : Code])
    BY DEF IInv, TypeOK
  <2> QED
    BY <1>2, <2>1, EmptySeq, Zenon
<1>4. PICK d \in Nat \ {0} : Len(calls) = d /\ Depth = d + 1
  BY <1>3, Cuts
<1>5. calls[d].fp = framePtr /\ d \in DOMAIN calls
  BY <1>1, <1>2, <1>4, CallsTyped DEF IInv, FrameLinkage
<1>6. PICK a \in Nat, b \in Nat, c \in Nat :
        /\ a = FrameStart(d) /\ b = framePtr /\ c = b - 2 /\ a <= c /\ FrameEnd(d) = c
        /\ stack[b - 1] = a - 1 /\ (d # 1 => a \in 1..c)
  <2>1. PICK a \in Nat : a = FrameStart(d) /\ (d # 1 => a \in 1..top)
    BY <1>4, Cuts
  <2>2. FrameStart(d) = FrameBelow(d)
    BY DEF FrameStart
  <2>3. a + 2 <= framePtr /\ stack[framePtr - 1] = a - 1
    BY <1>5, <2>1, <2>2 DEF IInv, FrameLinkage
  <2>4. FrameEnd(d) = framePtr - 2
    BY <1>4, <1>5 DEF FrameEnd
  <2>5. framePtr - 2 \in Nat /\ a <= framePtr - 2 /\ (d # 1 => a \in 1..framePtr - 2)
    BY <1>1, <2>1, <2>3
  <2> QED
    BY <1>1, <2>1, <2>3, <2>4, <2>5
<1>7. PICK t \in Nat, n \in Nat, l \in Nat, i \in Nat, e \in Nat, g \in Nat :
        i = c + 1 /\ e = c + n /\ g = c + l /\ t = top /\ l = m /\ n = t - c - l /\ c + n <= t /\ t - n = c + l /\ c + n = t - l /\ b + l <= t
  <2>1. m \in Nat /\ framePtr + m <= top
    BY <1>1 DEF FrameLen
  <2>2. top - c - m \in Nat
    BY <1>1, <1>6, <2>1
  <2> QED
    BY <1>1, <1>6, <2>1, <2>2
<1>8. /\ stack' = RemovedAt(stack, i, n) /\ framePtr' = a /\ calls' = Dropped(calls, 1)
      /\ pc' = stack[b]
  <2>1. framePtr - 1 = i /\ top - (framePtr - 1) + 1 - m = n /\ framePtr - 1 = b - 1
    BY <1>1, <1>6, <1>7
  <2>2. stack[framePtr - 1] + 1 = a
    BY <1>6, <2>1
  <2> QED
    BY <1>6, <2>1, <2>2 DEF OpRet
<1>9. /\ stack' \in Seq(Int) /\ Len(stack') = c + l
      /\ \A j \in 1..c : stack'[j] = stack[j]
  <2>1. c + n <= Len(stack) /\ Len(stack) - n = c + l
    BY <1>1, <1>7
  <2>2. /\ RemovedAt(stack, i, n) \in Seq(Int)
        /\ Len(RemovedAt(stack, i, n)) = Len(stack) - n
        /\ \A j \in 1..c : RemovedAt(stack, i, n)[j] = stack[j]
    <3>1. stack \in Seq(Int)
      BY <1>1
    <3>2. i = c + 1
      BY <1>7
    <3>3. c + n <= Len(stack)
      BY <2>1
    <3> QED
      BY <3>1, <3>2, <3>3, RemovedBelow
  <2> QED
    BY <1>8, <2>1, <2>2
<1>10. Len(calls') = d - 1 /\ \A k \in 1..d - 1 : calls'[k] = calls[k]
  <2>1. /\ Len(Dropped(calls, 1)) = Remaining(Len(calls), 1)
        /\ \A k \in 1..Len(Dropped(calls, 1)) : Dropped(calls, 1)[k] = calls[k]
    <3>1. calls \in Seq([fp : Nat, ret : Code]) /\ 1 \in Nat
      BY <1>3
    <3> QED
      BY <3>1, DroppedProperties
  <2>2. Remaining(Len(calls), 1) = d - 1
    BY <1>4 DEF Remaining, Greater
  <2> QED
    BY <1>8, <2>1, <2>2
<1>11. Depth' = d
  BY <1>10 DEF Depth
<1>12. \A k \in 1..d : FrameStart(k)' = FrameStart(k)
  BY <1>10 DEF FrameStart, FrameBelow
<1>13. \A k \in 1..d - 1 : FrameEnd(k)' = FrameEnd(k)
  BY <1>4, <1>10 DEF FrameEnd
<1>14. FrameEnd(d)' = c + l
  BY <1>9, <1>10 DEF FrameEnd, top
<1>15. ASSUME NEW k \in 1..d - 1 PROVE FrameAt(k)' = FrameAt(k)
  <2>1. k \in 1..Depth - 1
    BY <1>4
  <2>2. FrameEnd(k) <= c /\ k \in 1..Depth
    BY <1>1, <1>6, <2>1, CallerEnds
  <2>3. c <= Len(stack')
    BY <1>9
  <2>4. FrameStart(k)' = FrameStart(k) /\ FrameEnd(k)' = FrameEnd(k)
    BY <1>12, <1>13
  <2> QED
    BY <1>9, <2>2, <2>3, <2>4, FrameKept
<1> DEFINE values == SubSeq(stack, a + 1, c)
           kept   == SubSeq(stack, t - l + 1, t)
<1>16. Frames!Topmost(InnerVals, m) = kept
  <2>1. b + l <= Len(stack) /\ InnerVals = SubSeq(stack, b + 1, Len(stack)) /\ Len(stack) = t
    BY <1>1, <1>6, <1>7 DEF InnerVals
  <2>2. Frames!Topmost(SubSeq(stack, b + 1, Len(stack)), l) =
          SubSeq(stack, Len(stack) - l + 1, Len(stack))
    BY <1>1, <2>1, SectionParts
  <2> QED
    BY <1>7, <2>1, <2>2
<1>17. values \in Seq(Int) /\ kept \in Seq(Int)
  <2>1. c <= Len(stack) /\ t - l \in Nat /\ t - l <= t /\ t <= Len(stack)
    BY <1>1, <1>6, <1>7
  <2> QED
    BY <1>1, <1>6, <2>1, Section
<1>18. SubSeq(stack', a + 1, c + l) = values \o kept
  <2>1. stack \in Seq(Int)
    BY <1>1
  <2>2. i = c + 1 /\ e = c + n
    BY <1>7
  <2>3. g = Len(stack) - n /\ e <= Len(stack) /\ Len(stack) = t
    BY <1>1, <1>7
  <2>4. a <= c
    BY <1>6
  <2>5. PICK x \in Nat : x = a + 1
    OBVIOUS
  <2>7. 1 <= x /\ x <= i /\ i + n <= Len(stack) + 1
    BY <1>1, <2>2, <2>3, <2>4, <2>5
  <2>8. SubSeq(RemovedAt(stack, i, n), x, Len(stack) - n) =
          SubSeq(stack, x, i - 1) \o SubSeq(stack, i + n, Len(stack))
    BY <2>1, <2>7, RemovedAbove, Zenon
  <2>9. i - 1 = c /\ i + n = e + 1
    BY <2>2
  <2>6. e = t - l /\ g = c + l
    BY <1>7
  <2> QED
    BY <1>8, <2>3, <2>5, <2>6, <2>8, <2>9
<1>19. FrameAt(d) = [vals |-> values, ret |-> IF d = 1 THEN -1 ELSE stack[a]]
  BY <1>6 DEF FrameAt
<1> HIDE DEF values, kept
<1>20. FrameAt(d)' = [vals |-> values \o kept, ret |-> IF d = 1 THEN -1 ELSE stack[a]]
  <2>1. FrameStart(d)' = a
    BY <1>6, <1>12
  <2>2. d # 1 => stack'[a] = stack[a]
    BY <1>6, <1>9
  <2> QED
    BY <1>14, <1>18, <2>1, <2>2 DEF FrameAt
<1>21. /\ CutStack \in Seq(FrameSet) /\ Len(CutStack) = d + 1
       /\ \A k \in 1..d + 1 : CutStack[k] = FrameAt(k) /\ FrameAt(k) \in FrameSet
  BY <1>4, CutStackTyped
<1> DEFINE below  == SubSeq(CutStack, 1, d - 1)
           caller == [CutStack[d] EXCEPT !.vals = @ \o kept]
           f      == Append(below, caller)
<1>22. caller = FrameAt(d)' /\ caller \in FrameSet
  <2>1. CutStack[d] = FrameAt(d) /\ FrameAt(d) \in FrameSet
    BY <1>21
  <2>2. caller = FrameAt(d)'
    <3>1. PICK ret \in Int : ret = IF d = 1 THEN -1 ELSE stack[a]
      BY <1>19, <2>1 DEF FrameSet
    <3>2. CutStack[d] = [vals |-> values, ret |-> ret]
      BY <1>19, <2>1, <3>1
    <3>3. caller = [vals |-> values \o kept, ret |-> ret]
      <4>1. values \in Seq(Int)
        BY <1>17
      <4>2. kept \in Seq(Int)
        BY <1>17
      <4>3. PICK frame \in FrameSet : frame = CutStack[d]
        BY <2>1
      <4>4. frame = [vals |-> values, ret |-> ret]
        BY <3>2, <4>3
      <4>5. [frame EXCEPT !.vals = @ \o kept] = [vals |-> values \o kept, ret |-> ret]
        <5>1. PICK all \in Seq(Int) : all = values \o kept
          BY <4>1, <4>2, ConcatProperties
        <5>2. frame.vals \o kept = all
          BY <4>4, <5>1
        <5>3. [frame EXCEPT !.vals = all] = [vals |-> all, ret |-> ret]
          BY <4>4
        <5> QED
          BY <5>1, <5>2, <5>3
      <4> QED
        BY <4>3, <4>5, Zenon
    <3> QED
      BY <1>20, <3>1, <3>3
  <2>3. values \o kept \in Seq(Int)
    BY <1>17, ConcatProperties
  <2>4. (IF d = 1 THEN -1 ELSE stack[a]) \in Int
    BY <1>19, <2>1 DEF FrameSet
  <2>5. FrameAt(d)' \in FrameSet
    BY <1>20, <2>3, <2>4 DEF FrameSet
  <2> QED
    BY <2>2, <2>5
<1>23. below \in Seq(FrameSet) /\ Len(below) = d - 1 /\ \A k \in 1..d - 1 : below[k] = FrameAt(k)
  <2>1. PICK last \in Nat : last = d - 1 /\ last <= Len(CutStack) /\ 1 <= last + 1
    BY <1>21
  <2>2. /\ SubSeq(CutStack, 1, last) \in Seq(FrameSet)
        /\ Len(SubSeq(CutStack, 1, last)) = last - 1 + 1
        /\ \A j \in 1..last - 1 + 1 : SubSeq(CutStack, 1, last)[j] = CutStack[1 + j - 1]
    <3>1. 1 \in Nat \ {0}
      OBVIOUS
    <3> QED
      BY <1>21, <2>1, <3>1, SectionProperties
  <2>3. \A j \in 1..last : j \in 1..last - 1 + 1 /\ 1 + j - 1 = j /\ j \in 1..d + 1
    BY <2>1
  <2> QED
    BY <1>21, <2>1, <2>2, <2>3
<1> HIDE DEF below, caller
<1>24. /\ f \in Seq(FrameSet) /\ Len(f) = d /\ f[d] = caller
       /\ \A k \in 1..d - 1 : f[k] = below[k]
  BY <1>22, <1>23, AppendProperties
<1> HIDE DEF f
<1>25. \A k \in 1..Len(f) : FrameAt(k)' = f[k]
  <2>1. \A k \in 1..d : k \in 1..d - 1 \/ k = d
    OBVIOUS
  <2>2. \A k \in 1..d - 1 : f[k] = FrameAt(k)'
    BY <1>15, <1>23, <1>24
  <2>3. f[d] = FrameAt(d)'
    BY <1>22, <1>24
  <2> QED
    BY <1>24, <2>1, <2>2, <2>3
<1>26. CutStack' = f
  BY <1>11, <1>24, <1>25, CutInto
<1>27. pc' = Frames!Inner.ret
  BY <1>1, <1>2, <1>6, <1>8, InnerIs
<1>28. Len(CutStack) > 1 /\ Len(CutStack) - 2 = d - 1 /\ Len(CutStack) - 1 = d
  BY <1>21
<1> QED
  BY <1>16, <1>26, <1>27, <1>28 DEF f, below, caller
(* OP_CALLC and OP_CALLCI leave the frames, but for a popped function, and *)
(* hide what lies below the arguments.                                     *)
LEMMA FramesOfEnterC ==
  ASSUME IInv, NEW n \in 0..FrameLen, NEW pops \in 0..1, OpCallC(n, pops)
  PROVE  /\ CutStack' = Frames!InnerWith(Frames!Bottom(InnerVals, pops))
         /\ Untouched' = Len(InnerVals) - pops - n
<1>1. /\ CodeFrame = framePtr /\ stack \in Seq(Int) /\ framePtr \in Nat
      /\ top \in Nat /\ Len(stack) = top /\ framePtr <= top
  BY RunningFrame, SizesTyped DEF OpCallC, top
<1>2. pops \in Nat /\ n \in Nat /\ pops <= FrameLen /\ n + pops <= FrameLen /\ PopN(pops)
  BY <1>1 DEF OpCallC, FrameLen
<1>3. PICK b \in Nat, c \in Nat, p \in Nat :
        b = framePtr /\ p = pops /\ c = top - p /\ b <= c /\ c - n \in Nat /\ b <= c - n
  BY <1>1, <1>2 DEF FrameLen
<1>4. StackStep(CodeFrame)
  BY <1>1, <1>2, PopNKeepsFrame
<1>5. framePtr' = c - n /\ savedFramePtr' = b /\ inC' = TRUE /\ calls' = calls
  BY <1>3 DEF OpCallC
<1>6. stack' \in Seq(Int) /\ Len(stack') = c /\ \A i \in 1..c : stack'[i] = stack[i]
  <2>1. stack \in Seq(Int)
    BY <1>1
  <2>2. /\ Dropped(stack, p) \in Seq(Int)
        /\ Len(Dropped(stack, p)) = Remaining(Len(stack), p)
        /\ \A i \in 1..Len(Dropped(stack, p)) : Dropped(stack, p)[i] = stack[i]
    BY <2>1, DroppedProperties
  <2>3. Remaining(Len(stack), p) = c
    BY <1>1, <1>3 DEF Remaining, Greater
  <2> QED
    BY <1>2, <1>3, <2>2, <2>3 DEF PopN
<1>7. CodeFrame' = b
  BY <1>5 DEF CodeFrame
<1>8. SameCalls
  BY <1>1, <1>3, <1>5, <1>6, <1>7 DEF SameCalls
<1>9. InnerVals' = SubSeq(stack', b + 1, c)
  BY <1>6, <1>7 DEF InnerVals, top
<1>10. SubSeq(stack', b + 1, c) = SubSeq(stack, b + 1, c)
  <2>1. c <= Len(stack) /\ c <= Len(stack') /\ \A i \in b + 1..c : stack'[i] = stack[i]
    BY <1>1, <1>3, <1>6
  <2> QED
    BY <1>1, <1>3, <1>6, <2>1, SameSection
<1>11. Frames!Bottom(InnerVals, pops) = SubSeq(stack, b + 1, c)
  <2>1. b + p <= Len(stack) /\ Len(stack) - p = c /\ InnerVals = SubSeq(stack, b + 1, Len(stack))
    BY <1>1, <1>3 DEF InnerVals
  <2>2. Frames!Bottom(SubSeq(stack, b + 1, Len(stack)), p) = SubSeq(stack, b + 1, Len(stack) - p)
    BY <1>1, <2>1, SectionParts
  <2> QED
    BY <1>3, <2>1, <2>2
<1>12. CutStack' = Frames!InnerWith(InnerVals')
  BY <1>4, <1>8, InnerChanged
<1>13. Untouched' = c - n - b
  BY <1>5 DEF Untouched
<1>14. Len(InnerVals) - pops - n = c - n - b
  <2>1. Len(InnerVals) = top - b
    BY <1>1, <1>3, InnerIs
  <2> QED
    BY <1>1, <1>2, <1>3, <2>1
<1> QED
  BY <1>9, <1>10, <1>11, <1>12, <1>13, <1>14

-----------------------------------------------------------------------------
(* What each action of the machine is on separate frames.                  *)

LEMMA CodeSeesItsFrame ==
  IInv /\ Running => ~halted /\ Untouched = 0 /\ Len(Frames!Inner.vals) = FrameLen
BY RunningFrame, InnerIs DEF Running, Untouched, FrameLen

LEMMA CallImplements ==
  ASSUME IInv, NEW n \in 0..FrameLen, NEW target \in Code, OpCall(n, target)
  PROVE  Frames!Next
<1>1. ~halted /\ Untouched = 0 /\ Len(Frames!Inner.vals) = FrameLen /\ Frames!Inner.vals = InnerVals
  BY CodeSeesItsFrame, InnerIs DEF OpCall
<1>2. UNCHANGED <<Untouched, ~halted>>
  BY <1>1 DEF OpCall, Running, flags, cState, Untouched
<1>3. CutStack' = Append(Frames!InnerWith(Frames!Bottom(InnerVals, n)),
                         [vals |-> Frames!Topmost(InnerVals, n), ret |-> pc + 1])
  BY FramesOfCall
<1>4. Frames!Call(n)
  BY <1>1, <1>2, <1>3 DEF Frames!Call
<1> QED
  BY <1>1, <1>4 DEF Frames!Next

LEMMA ReturnImplements ==
  ASSUME IInv, NEW m \in 0..FrameLen, OpRet(m)
  PROVE  Frames!Next
<1>1. ~halted /\ Untouched = 0 /\ Len(Frames!Inner.vals) = FrameLen /\ Frames!Inner.vals = InnerVals
  BY CodeSeesItsFrame, InnerIs DEF OpRet
<1>2. UNCHANGED <<Untouched, ~halted>>
  BY <1>1 DEF OpRet, Running, flags, cState, Untouched
<1>3. /\ Len(CutStack) > 1 /\ pc' = Frames!Inner.ret
      /\ CutStack' = Append(SubSeq(CutStack, 1, Len(CutStack) - 2),
                       [CutStack[Len(CutStack) - 1] EXCEPT
                          !.vals = @ \o Frames!Topmost(InnerVals, m)])
  BY FramesOfReturn
<1>4. Frames!Return(m)
  BY <1>1, <1>2, <1>3 DEF Frames!Return
<1> QED
  BY <1>1, <1>4 DEF Frames!Next

LEMMA EnterCImplements ==
  ASSUME IInv, NEW n \in 0..FrameLen, NEW pops \in 0..1, OpCallC(n, pops)
  PROVE  Frames!Next
<1>1. ~halted /\ Untouched = 0 /\ Len(Frames!Inner.vals) = FrameLen /\ Frames!Inner.vals = InnerVals
  BY CodeSeesItsFrame, InnerIs DEF OpCallC
<1>2. UNCHANGED <<pc, ~halted>> /\ n + pops <= Len(Frames!Inner.vals)
  BY <1>1 DEF OpCallC, flags
<1>3. /\ CutStack' = Frames!InnerWith(Frames!Bottom(InnerVals, pops))
      /\ Untouched' = Len(InnerVals) - pops - n
  BY FramesOfEnterC
<1>4. Frames!EnterC(n, pops)
  BY <1>1, <1>2, <1>3 DEF Frames!EnterC
<1> QED
  BY <1>1, <1>2, <1>4 DEF Frames!Next

(* The frame of a C function is gone, and with it what it could not touch. *)
LEMMA LeaveCImplements == CReturn => Frames!Next
<1> SUFFICES ASSUME CReturn PROVE Frames!Next
  OBVIOUS
<1>1. CutStack' = CutStack
  BY NothingCut DEF CReturn
<1>2. Untouched' = 0 /\ halted' = halted
  BY DEF CReturn, Untouched, flags
<1> QED
  BY <1>1, <1>2 DEF Frames!Next, Frames!LeaveC

(* A step that halts the machine, or starts it, and does nothing else.     *)
LEMMA SwitchImplements ==
  ASSUME UNCHANGED <<stack, calls, framePtr, inC, savedFramePtr>>,
         halted \in BOOLEAN, halted' = ~halted
  PROVE  Frames!Next
<1>1. CutStack' = CutStack
  BY NothingCut
<1>2. Untouched' = Untouched
  BY DEF Untouched
<1>3. halted' = ~halted /\ (halted = TRUE \/ halted = FALSE)
  OBVIOUS
<1> QED
  BY <1>1, <1>2, <1>3, Zenon DEF Frames!Next, Frames!Stop, Frames!Start

(* An empty stack without pending calls is the starting frame alone.       *)
LEMMA EmptyCut ==
  stack = <<>> /\ calls = <<>> => CutStack = <<Frames!BaseFrame>>
<1> SUFFICES ASSUME stack = <<>>, calls = <<>> PROVE CutStack = <<Frames!BaseFrame>>
  OBVIOUS
<1>1. Len(calls) + 1 = 1 /\ top = 0
  BY DEF top
<1>2. FrameAt(1) = Frames!BaseFrame
  <2>1. SubSeq(stack, 1, 0) = <<>>
    BY EmptySeq
  <2> QED
    BY <1>1, <2>1 DEF FrameAt, FrameStart, FrameBelow, FrameEnd, Frames!BaseFrame, Frames!NoReturn
<1>3. CutStack = [k \in 1..1 |-> FrameAt(1)]
  BY <1>1 DEF CutStack
<1> QED
  BY <1>2, <1>3
LEMMA EmptyCutNext ==
  (stack = <<>> /\ calls = <<>> => CutStack = <<Frames!BaseFrame>>)'
BY EmptyCut, PTL

LEMMA InstructionImplements == IInv /\ Instruction => Frames!Next
<1> SUFFICES ASSUME IInv, Instruction PROVE Frames!Next
  OBVIOUS
<1> USE DEF flags
<1>1. ASSUME NEW v \in Words, OpPush(v) PROVE Frames!Next
  BY <1>1, WordsAssumption, PushKeepsAll, FramesKept, ComputeStep DEF OpPush, Frames!Next
<1>2. ASSUME NEW v \in Words, OpBinary(v) PROVE Frames!Next
  BY <1>2, WordsAssumption, BinaryKeepsFrame, FramesKept, ComputeStep DEF OpBinary, Frames!Next
<1>3. ASSUME NEW n \in 1..MaxTop, OpPushN(n) PROVE Frames!Next
  <2>1. n \in Nat
    BY MaxTopAssumption
  <2> QED
    BY <1>3, <2>1, PushNKeepsAll, FramesKept, ComputeStep DEF OpPushN, Frames!Next
<1>4. ASSUME NEW n \in 1..MaxTop, OpPop(n) PROVE Frames!Next
  <2>1. n \in Nat
    BY MaxTopAssumption
  <2> QED
    BY <1>4, <2>1, PopNKeepsFrame, FramesKept, ComputeStep DEF OpPop, Frames!Next
<1>5. ASSUME NEW index \in Indices, OpGet(index) PROVE Frames!Next
  BY <1>5, IndexInStack, PushKeepsAll, FramesKept, ComputeStep DEF OpGet, Frames!Next
<1>6. ASSUME OpDivByZero PROVE Frames!Next
  BY <1>6, SwitchImplements DEF OpDivByZero, Running, cState, IInv, TypeOK
<1>7. ASSUME NEW target \in Code, OpJump(target) PROVE Frames!Next
  BY <1>7, StackUntouched, FramesKept, ComputeStep DEF OpJump, Frames!Next
<1>8. ASSUME NEW target \in Code, OpJumpCon(target) PROVE Frames!Next
  <2>1. 1 <= FrameLen /\ PopN(1) /\ UNCHANGED <<framePtr, calls, flags, cState>>
    BY <1>8, SizesTyped DEF OpJumpCon, FrameLen
  <2> QED
    BY <2>1, PopNKeepsFrame, FramesKept, ComputeStep DEF Frames!Next
<1>9. ASSUME OpRetHalts PROVE Frames!Next
  BY <1>9, SwitchImplements DEF OpRetHalts, Running, cState, IInv, TypeOK
<1> QED
  BY <1>1, <1>2, <1>3, <1>4, <1>5, <1>6, <1>7, <1>8, <1>9, CallImplements, ReturnImplements,
     EnterCImplements DEF Instruction

LEMMA StackFunctionImplements == IInv /\ StackFunction => Frames!Next
<1> SUFFICES ASSUME IInv, StackFunction PROVE Frames!Next
  OBVIOUS
<1> USE DEF flags
<1>1. ASSUME NEW v \in Words, ApiPush(v) PROVE Frames!Next
  BY <1>1, WordsAssumption, PushKeepsAll, FramesKept, ComputeStep DEF ApiPush, Frames!Next
<1>2. ASSUME NEW n \in 1..MaxTop, ApiPopN(n) PROVE Frames!Next
  <2>1. n \in Nat
    BY MaxTopAssumption
  <2> QED
    BY <1>2, <2>1, PopNKeepsFrame, FramesKept, ComputeStep DEF ApiPopN, Frames!Next
<1>3. ASSUME NEW index \in Indices, NEW v \in Words, ApiSet(index, v) PROVE Frames!Next
  BY <1>3, WordsAssumption, SetKeepsFrame, FramesKept, ComputeStep DEF ApiSet, Frames!Next
<1>4. ASSUME NEW index \in Indices, NEW v \in Words, ApiInsert(index, v) PROVE Frames!Next
  BY <1>4, WordsAssumption, InsertKeepsFrame, FramesKept, ComputeStep DEF ApiInsert, Frames!Next
<1>5. ASSUME NEW index \in Indices, NEW len \in 1..MaxTop, ApiRemoveLen(index, len)
      PROVE  Frames!Next
  BY <1>5, MaxTopAssumption, RemoveLenKeepsFrame, FramesKept, ComputeStep
     DEF ApiRemoveLen, Frames!Next
<1> QED
  BY <1>1, <1>2, <1>3, <1>4, <1>5 DEF StackFunction

LEMMA HostImplements == IInv /\ Host => Frames!Next
<1> SUFFICES ASSUME IInv, Host PROVE Frames!Next
  OBVIOUS
<1>1. ASSUME NEW start \in Code, HostRun(start) PROVE Frames!Next
  BY <1>1, SwitchImplements DEF HostRun, Idle, cState
<1>2. ASSUME HostReset \/ HostFree PROVE Frames!Next
  <2>1. halted = TRUE /\ halted' = halted /\ inC = FALSE /\ inC' = FALSE
    BY <1>2 DEF HostReset, HostFree, Idle, IInv, TypeOK
  <2>2. stack' = <<>> /\ calls' = <<>>
    BY <1>2 DEF HostReset, HostFree
  <2>3. CutStack' = <<Frames!BaseFrame>>
    BY <2>2, EmptyCutNext
  <2>4. Untouched' = Untouched
    BY <2>1 DEF Untouched
  <2> QED
    BY <2>1, <2>3, <2>4 DEF Frames!Next, Frames!Reset
<1> QED
  BY <1>1, <1>2 DEF Host

(* A C function that reports an error halts the machine, if nothing has    *)
(* halted it before.                                                       *)
LEMMA CErrorImplements == IInv /\ CError => [Frames!Next]_(Frames!absVars)
<1> SUFFICES ASSUME IInv, CError PROVE [Frames!Next]_(Frames!absVars)
  OBVIOUS
<1>1. CASE ~halted
  BY <1>1, SwitchImplements DEF CError, cState, IInv, TypeOK
<1>2. CASE halted
  <2>1. CutStack' = CutStack
    BY NothingCut DEF CError
  <2>2. Untouched' = Untouched /\ pc' = pc /\ halted' = halted
    BY <1>2 DEF CError, cState, Untouched, IInv, TypeOK
  <2> QED
    BY <2>1, <2>2 DEF Frames!absVars
<1> QED
  BY <1>1, <1>2

LEMMA StutterImplements == UNCHANGED vars => UNCHANGED Frames!absVars
<1> SUFFICES ASSUME UNCHANGED vars PROVE UNCHANGED Frames!absVars
  OBVIOUS
<1>1. CutStack' = CutStack
  BY NothingCut DEF vars
<1>2. Untouched' = Untouched /\ pc' = pc /\ halted' = halted
  BY DEF vars, Untouched
<1> QED
  BY <1>1, <1>2 DEF Frames!absVars

(***************************************************************************)
(* The machine implements separate call frames: a callee finds exactly its *)
(* arguments, no instruction and no C function reaches the values of a     *)
(* caller, return values arrive on top of them in order, and control comes *)
(* back behind the call (dvm.c:860-874, 984-1015).                         *)
(***************************************************************************)
THEOREM MachineImplementsFrames == Spec => ImplementsCallFrames
<1>1. Init => Frames!Init
  <2> SUFFICES ASSUME Init PROVE Frames!Init
    OBVIOUS
  <2>1. CutStack = <<Frames!BaseFrame>>
    BY EmptyCut DEF Init
  <2> QED
    BY <2>1 DEF Init, Frames!Init, Untouched
<1>2. IInv /\ [Next]_vars => [Frames!Next]_(Frames!absVars)
  BY InstructionImplements, StackFunctionImplements, LeaveCImplements, CErrorImplements,
     HostImplements, StutterImplements DEF Next, Undefined
<1> QED
  BY <1>1, <1>2, Invariance, PTL DEF Spec, ImplementsCallFrames, Frames!Spec
=============================================================================
