------------------------- MODULE DebugSessionProofs -------------------------
(***************************************************************************)
(* Theorems about debugging sessions, for all sheets and whatever includes *)
(* what, any number of breakpoints' nodes and wires, and any depth.        *)
(***************************************************************************)
EXTENDS DebugSession, SequenceTheorems, TLAPS

EntrySet == [sheet : Sheets, numInternalCalls : Nat]

(* An account, and that it gives every entry frames above those of the     *)
(* entries below it.                                                       *)
Ordered(below) ==
  \A j, k \in 1..(Len(sheetStack) + 1) : j <= k => below[j] <= below[k]

Account(below) == below \in Cuts /\ AccountsFor(below) /\ Ordered(below)

Tracked == cCalls = 0 /\ ~ended =>
             IF sheetStack = <<>> THEN halted ELSE \E below : Account(below)

Typed == TypeOK /\ vmCalls # <<>> /\ (ended => ~running)

IInv == Typed /\ Tracked

-----------------------------------------------------------------------------
(* The two stacks while the loop runs.                                     *)
LEMMA Stacks ==
  ASSUME Typed, InBounds
  PROVE  /\ sheetStack \in Seq(EntrySet) /\ vmCalls \in Seq(Sheets)
         /\ Len(sheetStack) \in Nat \ {0} /\ DOMAIN sheetStack = 1..Len(sheetStack)
         /\ Len(vmCalls) \in Nat \ {0} /\ DOMAIN vmCalls = 1..Len(vmCalls)
         /\ \A k \in 1..Len(sheetStack) :
              /\ sheetStack[k] \in EntrySet
              /\ sheetStack[k].sheet \in Sheets /\ sheetStack[k].numInternalCalls \in Nat
         /\ \A i \in 1..Len(vmCalls) : vmCalls[i] \in Sheets
         /\ Current \in EntrySet /\ Executing \in Sheets
<1>1. sheetStack \in Seq(EntrySet) /\ vmCalls \in Seq(Sheets)
  BY DEF Typed, TypeOK, EntrySet
<1>2. Len(sheetStack) \in Nat \ {0} /\ Len(vmCalls) \in Nat \ {0}
  BY <1>1 DEF Typed, InBounds
<1>3. \A k \in 1..Len(sheetStack) : sheetStack[k] \in EntrySet
  BY <1>1
<1>4. \A k \in 1..Len(sheetStack) :
        sheetStack[k].sheet \in Sheets /\ sheetStack[k].numInternalCalls \in Nat
  BY <1>3 DEF EntrySet
<1> QED
  BY <1>1, <1>2, <1>3, <1>4 DEF Current, Executing, Last

(* The count of the last entry changes, and nothing else.                  *)
LEMMA Counted ==
  ASSUME Typed, InBounds, NEW d \in Int, Current.numInternalCalls + d \in Nat
  PROVE  /\ Internal(d) \in Seq(EntrySet) /\ Len(Internal(d)) = Len(sheetStack)
         /\ Internal(d) # <<>>
         /\ \A k \in 1..(Len(sheetStack) - 1) : Internal(d)[k] = sheetStack[k]
         /\ Internal(d)[Len(sheetStack)].sheet = Current.sheet
         /\ Internal(d)[Len(sheetStack)].numInternalCalls = Current.numInternalCalls + d
<1> DEFINE L    == Len(sheetStack)
           gone == [Current EXCEPT !.numInternalCalls = @ + d]
<1>1. Current = sheetStack[L]
  BY DEF Current, Last
<1>2. gone \in EntrySet
  BY Stacks DEF EntrySet
<1>3. gone.sheet = Current.sheet /\ gone.numInternalCalls = Current.numInternalCalls + d
  BY Stacks DEF EntrySet
<1>4. Internal(d) = [sheetStack EXCEPT ![L] = gone]
  BY <1>1 DEF Internal
<1> HIDE DEF gone
<1>5. Internal(d) \in Seq(EntrySet) /\ Len(Internal(d)) = L
  BY <1>2, <1>4, Stacks
<1>6. \A k \in 1..L : Internal(d)[k] = IF k = L THEN gone ELSE sheetStack[k]
  BY <1>4, Stacks
<1> QED
  BY <1>3, <1>5, <1>6, Stacks

-----------------------------------------------------------------------------
(* What remains of the stacks after a return.                              *)
LEMMA Shortened ==
  ASSUME NEW S, NEW s \in Seq(S), s # <<>>
  PROVE  /\ Front(s) \in Seq(S) /\ Len(Front(s)) = Len(s) - 1
         /\ \A i \in 1..(Len(s) - 1) : Front(s)[i] = s[i]
<1>1. Len(s) \in Nat \ {0} /\ DOMAIN s = 1..Len(s)
  BY LenProperties
<1>2. /\ 1 \in 1..(Len(s) + 1) /\ Len(s) - 1 \in 0..Len(s) /\ Len(s) - 1 - 1 + 1 = Len(s) - 1
  BY <1>1
<1>3. Front(s) \in Seq(S) /\ Len(Front(s)) = Len(s) - 1
  BY <1>1, <1>2, SubSeqProperties DEF Front
<1>4. \A i \in 1..(Len(s) - 1) : Front(s)[i] = s[i]
  BY <1>1, <1>2 DEF Front
<1> QED
  BY <1>3, <1>4

LEMMA CountCallTyped ==
  ASSUME Typed, InBounds, NEW callee \in Visible(Executing), CountCall(callee)
  PROVE  sheetStack' \in Seq(EntrySet) /\ sheetStack' # <<>>
<1>1. callee \in Sheets
  BY Stacks DEF Visible
<1>2. Entry(callee) \in EntrySet
  BY <1>1 DEF Entry, EntrySet
<1>3. Append(sheetStack, Entry(callee)) \in Seq(EntrySet)
  BY <1>2, Stacks
<1>4. Append(sheetStack, Entry(callee)) # <<>>
  BY <1>2, Stacks
<1>5. Internal(1) \in Seq(EntrySet) /\ Internal(1) # <<>>
  <2>1. Current.numInternalCalls + 1 \in Nat
    BY Stacks DEF EntrySet
  <2> QED
    BY <2>1, Counted
<1>6. sheetStack # <<>>
  BY Stacks
<1> QED
  BY <1>3, <1>4, <1>5, <1>6, Stacks DEF CountCall

LEMMA ReturnTyped ==
  ASSUME Typed, NEW wires, NEW node, Return(wires, node)
  PROVE  /\ sheetStack' \in Seq(EntrySet)
         /\ vmCalls' \in Seq(Sheets) /\ vmCalls' # <<>>
         /\ halted' \in BOOLEAN
<1>1. InBounds
  BY DEF Return, Iterating
<1>2. sheetStack' \in Seq(EntrySet)
  <2>1. CASE Current.numInternalCalls = 0
    BY <1>1, <2>1, Stacks, Shortened DEF Return
  <2>2. CASE Current.numInternalCalls # 0
    <3>1. Current.numInternalCalls + (-1) \in Nat
      BY <1>1, <2>2, Stacks DEF EntrySet
    <3> QED
      BY <1>1, <2>2, <3>1, Counted DEF Return
  <2> QED
    BY <2>1, <2>2
<1>3. vmCalls' \in Seq(Sheets) /\ vmCalls' # <<>>
  <2>1. CASE Len(vmCalls) = 1
    BY <1>1, <2>1, Stacks DEF Return, Typed
  <2>2. CASE Len(vmCalls) # 1
    <3>1. vmCalls' = Front(vmCalls)
      BY <2>2 DEF Return
    <3>2. Len(vmCalls) - 1 > 0
      BY <1>1, <2>2, Stacks
    <3> QED
      BY <1>1, <3>1, <3>2, Stacks, Shortened
  <2> QED
    BY <2>1, <2>2
<1> QED
  BY <1>2, <1>3 DEF Return, Typed, TypeOK

(* What an iteration does to the rest of the session.                      *)
LEMMA TakenTyped ==
  ASSUME Typed, running, NEW wires \in SUBSET Wires, NEW node \in Nodes \cup {None},
         Taken(wires, node), halted' \in BOOLEAN
  PROVE  /\ agenda' \in Agendas
         /\ {halted', running', breakpointHit', ended'} \subseteq BOOLEAN
         /\ last' \in [wires : SUBSET Wires, node : Nodes \cup {None}]
         /\ ended' => ~running'
<1>1. breakpointHit' \in BOOLEAN
  BY DEF Taken, Hit
<1>2. running' \in BOOLEAN
  BY DEF Taken
<1>3. ended' = FALSE /\ agenda' \in Agendas
  BY DEF Typed, TypeOK, Taken
<1>4. last' \in [wires : SUBSET Wires, node : Nodes \cup {None}]
  BY DEF Taken
<1> QED
  BY <1>1, <1>2, <1>3, <1>4

LEMMA InitTyped == Init => Typed
<1> SUFFICES ASSUME Init
             PROVE  Typed
  OBVIOUS
<1>1. PICK sheet \in Sheets : sheetStack = <<Entry(sheet)>> /\ vmCalls = <<sheet>>
  BY DEF Init
<1>2. sheetStack \in Seq(EntrySet) /\ vmCalls \in Seq(Sheets) /\ vmCalls # <<>>
  <2>1. Entry(sheet) \in EntrySet
    BY DEF Entry, EntrySet
  <2> QED
    BY <1>1, <2>1
<1> QED
  BY <1>2 DEF Init, Typed, TypeOK, EntrySet

LEMMA StepTyped == Typed /\ [Next]_vars => Typed'
<1> SUFFICES ASSUME Typed, [Next]_vars
             PROVE  Typed'
  OBVIOUS
<1>1. ASSUME NEW wires \in SUBSET Wires, NEW node \in Nodes \cup {None}, Step(wires, node)
      PROVE  Typed'
  <2>1. /\ running /\ halted' \in BOOLEAN /\ Taken(wires, node)
        /\ sheetStack' = sheetStack /\ vmCalls' = vmCalls /\ cCalls' = cCalls
    BY <1>1 DEF Step, Iterating
  <2> QED
    BY <2>1, TakenTyped DEF Typed, TypeOK
<1>2. ASSUME NEW wires \in SUBSET Wires, NEW node \in Nodes \cup {None},
             NEW callee \in Visible(Executing), Call(callee, wires, node)
      PROVE  Typed'
  <2>1. /\ running /\ InBounds /\ halted' = halted /\ Taken(wires, node) /\ CountCall(callee)
        /\ vmCalls' = Append(vmCalls, callee) /\ cCalls' = cCalls
    BY <1>2 DEF Call, Iterating
  <2>2. callee \in Sheets
    BY <2>1, Stacks DEF Visible
  <2>3. vmCalls' \in Seq(Sheets) /\ vmCalls' # <<>>
    BY <2>1, <2>2, Stacks
  <2>4. sheetStack' \in Seq([sheet : Sheets, numInternalCalls : Nat])
    BY <2>1, CountCallTyped DEF EntrySet
  <2>5. halted' \in BOOLEAN
    BY <2>1 DEF Typed, TypeOK
  <2> QED
    BY <2>1, <2>3, <2>4, <2>5, TakenTyped DEF Typed, TypeOK
<1>3. ASSUME NEW wires \in SUBSET Wires, NEW node \in Nodes \cup {None},
             NEW callee \in Visible(Executing), CallC(callee, wires, node)
      PROVE  Typed'
  <2>1. /\ running /\ InBounds /\ halted' \in BOOLEAN /\ Taken(wires, node) /\ CountCall(callee)
        /\ vmCalls' = vmCalls /\ cCalls' = cCalls + 1
    BY <1>3 DEF CallC, Iterating
  <2>2. sheetStack' \in Seq([sheet : Sheets, numInternalCalls : Nat])
    BY <2>1, CountCallTyped DEF EntrySet
  <2>3. cCalls' \in Nat
    BY <2>1 DEF Typed, TypeOK
  <2>4. vmCalls' \in Seq(Sheets) /\ vmCalls' # <<>>
    BY <2>1 DEF Typed, TypeOK
  <2>5. /\ agenda' \in Agendas
        /\ {halted', running', breakpointHit', ended'} \subseteq BOOLEAN
        /\ last' \in [wires : SUBSET Wires, node : Nodes \cup {None}]
        /\ ended' => ~running'
    BY <2>1, TakenTyped
  <2> QED
    BY <2>2, <2>3, <2>4, <2>5 DEF Typed, TypeOK
<1>4. ASSUME NEW wires \in SUBSET Wires, NEW node \in Nodes \cup {None}, Return(wires, node)
      PROVE  Typed'
  <2>1. running /\ Taken(wires, node) /\ cCalls' = cCalls
    BY <1>4 DEF Return, Iterating
  <2> QED
    BY <1>4, <2>1, ReturnTyped, TakenTyped DEF Typed, TypeOK, EntrySet
<1>5. CASE Continue
  BY <1>5 DEF Continue, Typed, TypeOK
<1>6. CASE Stop
  BY <1>6 DEF Stop, Typed, TypeOK
<1>7. CASE Undefined
  BY <1>7 DEF Undefined, Typed, TypeOK, vars
<1>8. CASE UNCHANGED vars
  BY <1>8 DEF Typed, TypeOK, vars
<1> QED
  BY <1>1, <1>2, <1>3, <1>4, <1>5, <1>6, <1>7, <1>8 DEF Next

-----------------------------------------------------------------------------
(* An account says where each entry's frames are, and that the last entry  *)
(* has those at the top.                                                   *)
LEMMA AccountFacts ==
  ASSUME Typed, InBounds, NEW below, Account(below)
  PROVE  /\ below[1] = 0 /\ below[Len(sheetStack) + 1] = Len(vmCalls)
         /\ \A k \in 1..(Len(sheetStack) + 1) :
              below[k] \in Nat /\ below[k] <= Len(vmCalls)
         /\ \A k \in 1..(Len(sheetStack) + 1) :
              k <= Len(sheetStack) => below[k] <= below[Len(sheetStack)]
         /\ Len(vmCalls) = below[Len(sheetStack)] + 1 + Current.numInternalCalls
         /\ vmCalls[below[Len(sheetStack)] + 1] = Current.sheet
         /\ Current.sheet \in Debuggable => Executing = Current.sheet
<1>1. \A k \in 1..(Len(sheetStack) + 1) : below[k] \in 0..Len(vmCalls)
  BY DEF Account, Cuts
<1>2. /\ below[1] = 0 /\ below[Len(sheetStack) + 1] = Len(vmCalls)
      /\ \A k \in 1..Len(sheetStack) :
           /\ below[k + 1] = below[k] + 1 + sheetStack[k].numInternalCalls
           /\ vmCalls[below[k] + 1] = sheetStack[k].sheet
           /\ sheetStack[k].sheet \in Debuggable =>
                \A i \in (below[k] + 1)..below[k + 1] : vmCalls[i] = sheetStack[k].sheet
  BY Stacks DEF Account, AccountsFor
<1>3. \A k \in 1..(Len(sheetStack) + 1) :
        k <= Len(sheetStack) => below[k] <= below[Len(sheetStack)]
  BY Stacks DEF Account, Ordered
<1>4. Len(sheetStack) \in 1..Len(sheetStack) /\ Current = sheetStack[Len(sheetStack)]
  BY Stacks DEF Current, Last
<1>5. Len(vmCalls) = below[Len(sheetStack)] + 1 + Current.numInternalCalls
  BY <1>2, <1>4
<1>6. Current.sheet \in Debuggable => Executing = Current.sheet
  <2>1. Len(vmCalls) \in (below[Len(sheetStack)] + 1)..below[Len(sheetStack) + 1]
    BY <1>1, <1>2, <1>4, <1>5, Stacks
  <2> QED
    BY <1>2, <1>4, <2>1 DEF Executing
<1>7. vmCalls[below[Len(sheetStack)] + 1] = Current.sheet
  BY <1>2, <1>4
<1>8. \A k \in 1..(Len(sheetStack) + 1) : below[k] \in Nat /\ below[k] <= Len(vmCalls)
  BY <1>1, Stacks
<1> QED
  BY <1>2, <1>3, <1>5, <1>6, <1>7, <1>8

(* What an account is, for stacks whose entries and frames are known.      *)
LEMMA AccountOf ==
  ASSUME NEW L \in Nat, NEW m \in Nat, NEW below \in [1..(L + 1) -> Nat],
         DOMAIN sheetStack' = 1..L, Len(sheetStack') = L, Len(vmCalls') = m,
         below[1] = 0, below[L + 1] = m,
         \A j, k \in 1..(L + 1) : j <= k => below[j] <= below[k],
         \A k \in 1..L :
           /\ below[k + 1] = below[k] + 1 + sheetStack'[k].numInternalCalls
           /\ vmCalls'[below[k] + 1] = sheetStack'[k].sheet
           /\ sheetStack'[k].sheet \in Debuggable =>
                \A i \in (below[k] + 1)..below[k + 1] : vmCalls'[i] = sheetStack'[k].sheet
  PROVE  Account(below)'
<1>1. below \in [1..(L + 1) -> 0..m]
  <2>1. ASSUME NEW k \in 1..(L + 1)
        PROVE  below[k] \in 0..m
    <3>1. k <= L + 1 /\ L + 1 \in 1..(L + 1)
      OBVIOUS
    <3> QED
      BY <3>1
  <2> QED
    BY <2>1
<1> QED
  BY <1>1 DEF Account, Cuts, AccountsFor, Ordered

(* K entries stay, with their frames; above them is one entry with the     *)
(* rest of the frames.                                                     *)
LEMMA NewAccount ==
  ASSUME Typed, InBounds, NEW below, Account(below), NEW K \in Nat, NEW m \in Nat,
         NEW p \in Nat, K <= Len(sheetStack), p = below[K + 1],
         sheetStack' \in Seq(EntrySet), Len(sheetStack') = K + 1, Len(vmCalls') = m,
         \A k \in 1..K : sheetStack'[k] = sheetStack[k],
         m = p + 1 + sheetStack'[K + 1].numInternalCalls,
         \A i \in 1..p : vmCalls'[i] = vmCalls[i],
         vmCalls'[p + 1] = sheetStack'[K + 1].sheet,
         sheetStack'[K + 1].sheet \in Debuggable =>
           \A i \in (p + 1)..m : vmCalls'[i] = sheetStack'[K + 1].sheet
  PROVE  \E b : Account(b)'
<1> DEFINE L == K + 1
<1>1. /\ Len(sheetStack) \in Nat
      /\ \A k \in 1..(Len(sheetStack) + 1) : below[k] \in Nat
      /\ below[1] = 0
  BY Stacks, AccountFacts
<1>2. PICK b : /\ b \in [1..(L + 1) -> Nat] /\ b[L + 1] = m
               /\ \A k \in 1..L : b[k] = below[k]
  <2> DEFINE all == [k \in 1..(L + 1) |-> IF k = L + 1 THEN m ELSE below[k]]
  <2>1. all \in [1..(L + 1) -> Nat] /\ all[L + 1] = m /\ \A k \in 1..L : all[k] = below[k]
    BY <1>1
  <2> QED
    BY <2>1
<1>3. sheetStack'[L].numInternalCalls \in Nat /\ p <= m
  <2>1. L \in 1..Len(sheetStack')
    OBVIOUS
  <2>2. sheetStack'[L] \in EntrySet
    BY <2>1
  <2>3. sheetStack'[L].numInternalCalls \in Nat
    BY <2>2 DEF EntrySet
  <2> QED
    BY <2>3
<1>4. \A j, k \in 1..(Len(sheetStack) + 1) : j <= k => below[j] <= below[k]
  BY DEF Account, Ordered
<1>5. \A j, k \in 1..(L + 1) : j <= k => b[j] <= b[k]
  <2> SUFFICES ASSUME NEW j \in 1..(L + 1), NEW k \in 1..(L + 1), j <= k
               PROVE  b[j] <= b[k]
    OBVIOUS
  <2>1. CASE k \in 1..L
    <3>1. j \in 1..L /\ {j, k} \subseteq 1..(Len(sheetStack) + 1)
      BY <1>1, <2>1
    <3>2. b[j] = below[j] /\ b[k] = below[k]
      BY <1>2, <2>1, <3>1
    <3> QED
      BY <1>4, <3>1, <3>2
  <2>2. CASE k = L + 1 /\ j \in 1..L
    <3>1. below[j] <= below[L]
      BY <1>1, <1>4, <2>2
    <3>2. below[L] = p /\ below[j] \in Nat
      BY <1>1, <2>2
    <3>3. b[j] = below[j] /\ b[k] = m
      BY <1>2, <2>2
    <3>4. below[j] <= p
      BY <3>1, <3>2
    <3> QED
      BY <1>3, <3>2, <3>3, <3>4
  <2>3. CASE k = L + 1 /\ j = L + 1
    BY <1>2, <2>3
  <2> QED
    BY <2>1, <2>2, <2>3
<1>6. ASSUME NEW k \in 1..L
      PROVE  /\ b[k + 1] = b[k] + 1 + sheetStack'[k].numInternalCalls
             /\ vmCalls'[b[k] + 1] = sheetStack'[k].sheet
             /\ sheetStack'[k].sheet \in Debuggable =>
                  \A i \in (b[k] + 1)..b[k + 1] : vmCalls'[i] = sheetStack'[k].sheet
  <2>1. CASE k = L
    BY <1>2, <2>1
  <2>2. CASE k \in 1..K
    <3>1. k \in 1..Len(sheetStack) /\ {k, k + 1, K + 1} \subseteq 1..(Len(sheetStack) + 1)
      BY <1>1, <2>2
    <3>2. PICK f \in Nat, g \in Nat, e \in Nat :
            f = below[k] /\ g = below[k + 1] /\ e = sheetStack[k].numInternalCalls
      BY <1>1, <3>1, Stacks
    <3>3. /\ g = f + 1 + e /\ vmCalls[f + 1] = sheetStack[k].sheet
          /\ sheetStack[k].sheet \in Debuggable =>
               \A i \in (f + 1)..g : vmCalls[i] = sheetStack[k].sheet
      <4>1. k \in DOMAIN sheetStack
        BY <3>1, Stacks
      <4> QED
        BY <3>2, <4>1 DEF Account, AccountsFor
    <3>4. b[k] = f /\ b[k + 1] = g /\ sheetStack'[k] = sheetStack[k]
      <4>1. k \in 1..L /\ k + 1 \in 1..L
        BY <2>2
      <4> QED
        BY <1>2, <2>2, <3>2, <4>1
    <3>5. g <= p
      <4>1. k + 1 <= K + 1
        BY <2>2
      <4> QED
        BY <1>4, <3>1, <3>2, <4>1
    <3>6. f + 1 \in 1..p /\ \A i \in (f + 1)..g : i \in 1..p
      BY <3>3, <3>5
    <3>7. vmCalls'[f + 1] = vmCalls[f + 1] /\ \A i \in (f + 1)..g : vmCalls'[i] = vmCalls[i]
      BY <3>6
    <3> QED
      BY <3>2, <3>3, <3>4, <3>7
  <2> QED
    BY <2>1, <2>2
<1>7. /\ b[1] = 0 /\ DOMAIN sheetStack' = 1..L
  BY <1>1, <1>2
<1>8. L \in Nat /\ Len(sheetStack') = L /\ Len(vmCalls') = m
  OBVIOUS
<1>9. Account(b)'
  <2> HIDE DEF L
  <2> QED BY <1>2, <1>5, <1>6, <1>7, <1>8, AccountOf
<1> QED
  BY <1>9

(* A call that is counted on the last entry or gets one of its own.  One   *)
(* the session cannot find is not lost, because a debuggable entry at the  *)
(* top is for the sheet that executes.                                     *)
LEMMA CallTracked ==
  ASSUME Typed, InBounds, NEW below, Account(below),
         NEW callee \in Visible(Executing), CountCall(callee),
         vmCalls' = Append(vmCalls, callee)
  PROVE  \E b : Account(b)'
<1>1. PICK L \in Nat \ {0} : L = Len(sheetStack)
  BY Stacks
<1>2. PICK m \in Nat : m = Len(vmCalls)
  BY Stacks
<1>3. callee \in Sheets
  BY Stacks DEF Visible
<1>4. /\ Len(vmCalls') = m + 1 /\ vmCalls'[m + 1] = callee
      /\ \A i \in 1..m : vmCalls'[i] = vmCalls[i]
  BY <1>2, <1>3, Stacks
<1>5. sheetStack' \in Seq(EntrySet)
  BY CountCallTyped
<1>6. CASE Found /\ callee # Executing
  <2>1. sheetStack' = Append(sheetStack, Entry(callee))
    BY <1>6 DEF CountCall
  <2>2. Entry(callee) \in EntrySet
    BY <1>3 DEF Entry, EntrySet
  <2>3. /\ Len(sheetStack') = L + 1 /\ sheetStack'[L + 1] = Entry(callee)
        /\ \A k \in 1..L : sheetStack'[k] = sheetStack[k]
    BY <1>1, <2>1, <2>2, Stacks
  <2>4. sheetStack'[L + 1].sheet = callee /\ sheetStack'[L + 1].numInternalCalls = 0
    BY <2>3 DEF Entry
  <2>5. below[L + 1] = m
    BY <1>1, <1>2, AccountFacts
  <2>6. PICK r \in Nat : r = m + 1
    OBVIOUS
  <2>7. /\ Len(vmCalls') = r /\ r = m + 1 + sheetStack'[L + 1].numInternalCalls
        /\ vmCalls'[m + 1] = sheetStack'[L + 1].sheet
        /\ \A i \in (m + 1)..r : vmCalls'[i] = sheetStack'[L + 1].sheet
    BY <1>4, <2>4, <2>6
  <2>8. L \in Nat /\ L <= Len(sheetStack)
    BY <1>1
  <2> QED
    BY <1>4, <1>5, <2>3, <2>5, <2>7, <2>8, NewAccount
<1>7. CASE /\ sheetStack' = Internal(1)
           /\ Current.sheet \in Debuggable => callee = Executing
  <2>1. PICK n \in Nat : n = Current.numInternalCalls
    BY Stacks DEF EntrySet
  <2>2. PICK K \in Nat : K = L - 1
    BY <1>1
  <2>3. /\ Len(sheetStack') = K + 1
        /\ \A k \in 1..K : sheetStack'[k] = sheetStack[k]
        /\ sheetStack'[K + 1].sheet = Current.sheet
        /\ sheetStack'[K + 1].numInternalCalls = n + 1
    BY <1>1, <1>7, <2>1, <2>2, Counted
  <2>4. PICK p \in Nat : p = below[K + 1]
    <3>1. \A k \in 1..(Len(sheetStack) + 1) : below[k] \in Nat
      BY AccountFacts
    <3>2. K + 1 \in 1..(Len(sheetStack) + 1)
      BY <1>1, <2>2
    <3> QED
      BY <3>1, <3>2
  <2>5. /\ m = p + 1 + n /\ vmCalls[p + 1] = Current.sheet
        /\ vmCalls'[p + 1] = Current.sheet
        /\ \A i \in 1..p : vmCalls'[i] = vmCalls[i]
    <3>1. m = p + 1 + n /\ vmCalls[p + 1] = Current.sheet
      BY <1>1, <1>2, <2>1, <2>2, <2>4, AccountFacts
    <3>2. p + 1 \in 1..m /\ \A i \in 1..p : i \in 1..m
      BY <3>1
    <3> QED
      BY <1>4, <3>1, <3>2
  <2>6. Current.sheet \in Debuggable =>
          \A i \in (p + 1)..(m + 1) : vmCalls'[i] = Current.sheet
    <3> SUFFICES ASSUME Current.sheet \in Debuggable,
                        NEW i \in (p + 1)..(m + 1)
                 PROVE  vmCalls'[i] = Current.sheet
      OBVIOUS
    <3>1. callee = Current.sheet
      BY <1>7, AccountFacts
    <3>2. CASE i = m + 1
      BY <1>4, <3>1, <3>2
    <3>3. CASE i \in (p + 1)..m
      <4>1. K + 1 \in DOMAIN sheetStack /\ Current = sheetStack[K + 1]
        BY <1>1, <2>2, Stacks DEF Current, Last
      <4>2. \A j \in (below[K + 1] + 1)..below[K + 1 + 1] : vmCalls[j] = Current.sheet
        BY <4>1 DEF Account, AccountsFor
      <4>3. below[K + 1 + 1] = m
        BY <1>1, <1>2, <2>2, AccountFacts
      <4>4. vmCalls[i] = Current.sheet
        BY <2>4, <3>3, <4>2, <4>3
      <4>5. i \in 1..m
        BY <3>3
      <4> QED
        BY <1>4, <4>4, <4>5
    <3>4. i = m + 1 \/ i \in (p + 1)..m
      OBVIOUS
    <3> QED
      BY <3>2, <3>3, <3>4
  <2>7. PICK r \in Nat : r = m + 1
    OBVIOUS
  <2>8. r = p + 1 + sheetStack'[K + 1].numInternalCalls /\ Len(vmCalls') = r
    BY <1>4, <2>3, <2>5, <2>7
  <2>9. /\ vmCalls'[p + 1] = sheetStack'[K + 1].sheet
        /\ sheetStack'[K + 1].sheet \in Debuggable =>
             \A i \in (p + 1)..r : vmCalls'[i] = sheetStack'[K + 1].sheet
    BY <2>3, <2>5, <2>6, <2>7
  <2>10. K <= Len(sheetStack)
    BY <1>1, <2>2
  <2> QED
    BY <1>5, <2>3, <2>4, <2>5, <2>8, <2>9, <2>10, NewAccount
<1>8. Found \/ Current.sheet \in Plain
  <2>1. Current.sheet \in Debuggable \/ Current.sheet \in Plain
    BY Stacks DEF EntrySet, Sheets
  <2> QED
    BY <2>1, AccountFacts DEF Found
<1>9. Current.sheet \in Debuggable => Current.sheet \notin Plain
  BY SheetsAssumption
<1> QED
  BY <1>6, <1>7, <1>8, <1>9 DEF CountCall, Found

(* A return takes one frame from the last entry, or the entry with its     *)
(* only frame.                                                             *)
LEMMA ReturnTracked ==
  ASSUME Typed, NEW below, InBounds, Account(below),
         NEW wires, NEW node, Return(wires, node)
  PROVE  IF sheetStack' = <<>> THEN halted' ELSE \E b : Account(b)'
<1>1. PICK L \in Nat \ {0} : L = Len(sheetStack)
  BY Stacks
<1>2. PICK m \in Nat \ {0} : m = Len(vmCalls)
  BY Stacks
<1>3. PICK n \in Nat : n = Current.numInternalCalls
  BY Stacks DEF EntrySet
<1>4. PICK p \in Nat : p = below[L]
  BY <1>1, AccountFacts
<1>5. m = p + 1 + n /\ vmCalls[p + 1] = Current.sheet
  BY <1>1, <1>2, <1>3, <1>4, AccountFacts
<1>6. sheetStack' \in Seq(EntrySet)
  BY ReturnTyped
<1>7. ASSUME m # 1
      PROVE  Len(vmCalls') = m - 1 /\ \A i \in 1..(m - 1) : vmCalls'[i] = vmCalls[i]
  <2>1. vmCalls' = Front(vmCalls)
    BY <1>2, <1>7 DEF Return
  <2> QED
    BY <1>2, <2>1, Stacks, Shortened
<1>8. CASE n = 0
  <2>1. sheetStack' = Front(sheetStack)
    BY <1>3, <1>8 DEF Return
  <2>2. Len(sheetStack') = L - 1 /\ \A k \in 1..(L - 1) : sheetStack'[k] = sheetStack[k]
    BY <1>1, <2>1, Stacks, Shortened
  <2>3. CASE L = 1
    <3>1. m = 1
      BY <1>1, <1>4, <1>5, <1>8, <2>3, AccountFacts
    <3> QED
      BY <1>2, <1>6, <2>2, <2>3, <3>1 DEF Return
  <2>4. CASE L # 1
    <3>1. PICK K \in Nat : K = L - 2
      BY <1>1, <2>4
    <3>2. K + 1 \in DOMAIN sheetStack /\ K + 1 + 1 = L
      BY <1>1, <3>1, Stacks
    <3>3. /\ below[L] = below[K + 1] + 1 + sheetStack[K + 1].numInternalCalls
          /\ vmCalls[below[K + 1] + 1] = sheetStack[K + 1].sheet
          /\ sheetStack[K + 1].sheet \in Debuggable =>
               \A i \in (below[K + 1] + 1)..below[L] : vmCalls[i] = sheetStack[K + 1].sheet
      BY <3>2 DEF Account, AccountsFor
    <3>4. PICK q \in Nat : q = below[K + 1]
      <4>1. K + 1 \in 1..(Len(sheetStack) + 1)
        BY <1>1, <3>1
      <4>2. below[K + 1] \in Nat
        <5>1. \A k \in 1..(Len(sheetStack) + 1) : below[k] \in Nat
          BY AccountFacts
        <5> QED
          BY <4>1, <5>1
      <4> QED
        BY <4>2
    <3>5. PICK e \in Nat : e = sheetStack[K + 1].numInternalCalls
      BY <3>2, Stacks
    <3>6. p = q + 1 + e
      BY <1>4, <3>3, <3>4, <3>5
    <3>7. m # 1 /\ m - 1 = p /\ p \in Nat
      <4>1. m = p + 1
        BY <1>5, <1>8
      <4>2. p # 0
        BY <3>6
      <4> QED
        BY <4>1, <4>2
    <3>8. Len(vmCalls') = p /\ \A i \in 1..p : vmCalls'[i] = vmCalls[i]
      BY <1>7, <3>7
    <3>9. /\ sheetStack'[K + 1] = sheetStack[K + 1]
          /\ \A k \in 1..K : sheetStack'[k] = sheetStack[k]
          /\ Len(sheetStack') = K + 1
      BY <1>1, <2>2, <3>1
    <3>10. /\ vmCalls'[q + 1] = vmCalls[q + 1]
           /\ \A i \in 1..q : vmCalls'[i] = vmCalls[i]
           /\ \A i \in (q + 1)..p : vmCalls'[i] = vmCalls[i]
      BY <3>4, <3>5, <3>6, <3>8, SMTT(30)
    <3>11. /\ p = q + 1 + sheetStack'[K + 1].numInternalCalls
           /\ vmCalls'[q + 1] = sheetStack'[K + 1].sheet
           /\ sheetStack'[K + 1].sheet \in Debuggable =>
                \A i \in (q + 1)..p : vmCalls'[i] = sheetStack'[K + 1].sheet
      BY <1>4, <3>3, <3>4, <3>5, <3>6, <3>9, <3>10
    <3>12. K <= Len(sheetStack) /\ sheetStack' # <<>>
      BY <1>1, <3>1, <3>9
    <3> QED
      BY <1>6, <3>4, <3>7, <3>8, <3>9, <3>10, <3>11, <3>12, NewAccount
  <2> QED
    BY <2>3, <2>4
<1>9. CASE n # 0
  <2>1. sheetStack' = Internal(-1)
    BY <1>3, <1>9 DEF Return
  <2>2. PICK K \in Nat : K = L - 1
    BY <1>1
  <2>3. Current.numInternalCalls + (-1) \in Nat
    BY <1>3, <1>9
  <2>4. /\ Len(sheetStack') = K + 1
        /\ \A k \in 1..K : sheetStack'[k] = sheetStack[k]
        /\ sheetStack'[K + 1].sheet = Current.sheet
        /\ sheetStack'[K + 1].numInternalCalls = n - 1
        /\ sheetStack' # <<>>
    BY <1>1, <1>3, <2>1, <2>2, <2>3, Counted
  <2>5. PICK r \in Nat : r = m - 1 /\ r # 0
    BY <1>2, <1>3, <1>4, <1>5, <1>9
  <2>6. Len(vmCalls') = r /\ \A i \in 1..r : vmCalls'[i] = vmCalls[i]
    BY <1>2, <1>7, <2>5
  <2>7. below[K + 1] = p /\ K + 1 = L
    BY <1>1, <1>4, <2>2
  <2>8. r = p + n
    BY <1>2, <1>3, <1>4, <1>5, <2>5
  <2>9. /\ vmCalls'[p + 1] = Current.sheet
        /\ \A i \in 1..p : vmCalls'[i] = vmCalls[i]
        /\ \A i \in (p + 1)..r : vmCalls'[i] = vmCalls[i] /\ i \in (p + 1)..m
    <3>1. p + 1 \in 1..r /\ r + 1 = m
      BY <1>2, <1>3, <1>4, <1>9, <2>5, <2>8
    <3>2. \A i \in 1..p : i \in 1..r
      BY <1>4, <2>5, <3>1
    <3>3. \A i \in (p + 1)..r : i \in 1..r /\ i \in (p + 1)..m
      BY <1>4, <2>5, <3>1
    <3> QED
      BY <1>5, <2>6, <3>1, <3>2, <3>3
  <2>10. Current.sheet \in Debuggable => \A i \in (p + 1)..m : vmCalls[i] = Current.sheet
    <3>1. L \in DOMAIN sheetStack /\ Current = sheetStack[L]
      BY <1>1, Stacks DEF Current, Last
    <3>2. below[L + 1] = m
      BY <1>1, <1>2, AccountFacts
    <3> QED
      BY <1>4, <3>1, <3>2 DEF Account, AccountsFor
  <2>11. /\ r = p + 1 + sheetStack'[K + 1].numInternalCalls
         /\ vmCalls'[p + 1] = sheetStack'[K + 1].sheet
         /\ sheetStack'[K + 1].sheet \in Debuggable =>
              \A i \in (p + 1)..r : vmCalls'[i] = sheetStack'[K + 1].sheet
    BY <2>4, <2>8, <2>9, <2>10
  <2>12. K <= Len(sheetStack)
    BY <1>1, <2>2
  <2>13. \E b : Account(b)'
    BY <1>6, <2>4, <2>6, <2>7, <2>9, <2>11, <2>12, NewAccount, ZenonT(30)
  <2> QED
    BY <2>4, <2>13
<1> QED
  BY <1>8, <1>9
-----------------------------------------------------------------------------
(* The session begins with one entry, for the frame the machine begins     *)
(* with.                                                                   *)
LEMMA InitTracked == Init => Tracked
<1> SUFFICES ASSUME Init
             PROVE  sheetStack # <<>> /\ \E b : Account(b)
  BY DEF Tracked
<1> DEFINE b == [k \in 1..2 |-> k - 1]
<1>1. PICK sheet \in Sheets : sheetStack = <<Entry(sheet)>> /\ vmCalls = <<sheet>>
  BY DEF Init
<1>2. /\ Len(sheetStack) = 1 /\ DOMAIN sheetStack = 1..1 /\ Len(vmCalls) = 1
      /\ sheetStack[1].sheet = sheet /\ sheetStack[1].numInternalCalls = 0
      /\ vmCalls[1] = sheet
  BY <1>1 DEF Entry
<1>3. /\ b[1] = 0 /\ b[2] = 1 /\ b \in [1..2 -> 0..1]
      /\ \A j, k \in 1..2 : j <= k => b[j] <= b[k]
  OBVIOUS
<1>4. Account(b)
  <2> HIDE DEF b
  <2>1. b \in Cuts
    BY <1>2, <1>3 DEF Cuts
  <2>2. AccountsFor(b)
    BY <1>2, <1>3 DEF AccountsFor
  <2>3. Ordered(b)
    BY <1>2, <1>3 DEF Ordered
  <2> QED
    BY <2>1, <2>2, <2>3 DEF Account
<1>5. sheetStack # <<>>
  BY <1>1
<1> QED
  BY <1>4, <1>5

(* What Account says of unchanged stacks.                                  *)
LEMMA SameAccount ==
  ASSUME UNCHANGED <<sheetStack, vmCalls>>, NEW b
  PROVE  Account(b) => Account(b)'
BY DEF Account, Cuts, AccountsFor, Ordered

(* The account of an iteration's beginning.                                *)
LEMMA RunningTracked ==
  ASSUME IInv, Iterating, cCalls = 0
  PROVE  \E b : Account(b)
<1>1. ~ended
  BY DEF IInv, Typed, TypeOK, Iterating
<1>2. sheetStack # <<>>
  BY Stacks DEF IInv, Iterating
<1> QED
  BY <1>1, <1>2 DEF IInv, Tracked

(* Where all frames are of debuggable sheets, the instruction is found.    *)
LEMMA AllFound ==
  ASSUME IInv, Iterating, cCalls = 0, AllDebuggable
  PROVE  Found
<1>1. Typed /\ InBounds
  BY DEF IInv, Iterating
<1>2. PICK below : Account(below)
  BY RunningTracked
<1>3. PICK L \in Nat \ {0} : L = Len(sheetStack)
  BY <1>1, Stacks
<1>4. PICK n \in Nat : n = Current.numInternalCalls
  BY <1>1, Stacks DEF EntrySet
<1>5. L \in 1..(Len(sheetStack) + 1)
  BY <1>3
<1>6. PICK p \in Nat : p = below[L]
  <2>1. \A k \in 1..(Len(sheetStack) + 1) : below[k] \in Nat
    BY <1>1, <1>2, AccountFacts
  <2> QED
    BY <1>5, <2>1
<1>7. Len(vmCalls) = p + 1 + n /\ vmCalls[p + 1] = Current.sheet
  BY <1>1, <1>2, <1>3, <1>4, <1>6, AccountFacts
<1>8. p + 1 \in DOMAIN vmCalls
  BY <1>1, <1>7, Stacks
<1>9. Current.sheet \in Debuggable
  BY <1>7, <1>8 DEF AllDebuggable
<1> QED
  BY <1>1, <1>2, <1>9, AccountFacts DEF Found

LEMMA StepTracked == IInv /\ [Next]_vars => Tracked'
<1> SUFFICES ASSUME IInv, [Next]_vars
             PROVE  Tracked'
  OBVIOUS
<1>1. ASSUME NEW wires \in SUBSET Wires, NEW node \in Nodes \cup {None}, Step(wires, node)
      PROVE  Tracked'
  <2>1. /\ Iterating /\ UNCHANGED <<sheetStack, vmCalls>> /\ cCalls' = cCalls
    BY <1>1 DEF Step
  <2>2. sheetStack' # <<>>
    BY <2>1, Stacks DEF IInv, Iterating
  <2> QED
    BY <2>1, <2>2, RunningTracked, SameAccount DEF Tracked
<1>2. ASSUME NEW wires \in SUBSET Wires, NEW node \in Nodes \cup {None},
             NEW callee \in Visible(Executing), Call(callee, wires, node)
      PROVE  Tracked'
  <2>1. /\ Iterating /\ InBounds /\ CountCall(callee)
        /\ vmCalls' = Append(vmCalls, callee) /\ cCalls' = cCalls
    BY <1>2 DEF Call, Iterating
  <2>2. sheetStack' # <<>>
    BY <2>1, CountCallTyped DEF IInv
  <2>3. ASSUME cCalls = 0
        PROVE  \E b : Account(b)'
    BY <2>1, <2>3, RunningTracked, CallTracked DEF IInv
  <2> QED
    BY <2>1, <2>2, <2>3 DEF Tracked
<1>3. ASSUME NEW wires \in SUBSET Wires, NEW node \in Nodes \cup {None},
             NEW callee \in Visible(Executing), CallC(callee, wires, node)
      PROVE  Tracked'
  <2>1. cCalls' = cCalls + 1 /\ cCalls \in Nat
    BY <1>3 DEF CallC, IInv, Typed, TypeOK
  <2>2. cCalls' # 0
    BY <2>1
  <2> QED
    BY <2>2 DEF Tracked
<1>4. ASSUME NEW wires \in SUBSET Wires, NEW node \in Nodes \cup {None}, Return(wires, node)
      PROVE  Tracked'
  <2>1. Iterating /\ InBounds /\ cCalls' = cCalls
    BY <1>4 DEF Return, Iterating
  <2>2. ASSUME cCalls = 0
        PROVE  IF sheetStack' = <<>> THEN halted' ELSE \E b : Account(b)'
    BY <1>4, <2>1, <2>2, RunningTracked, ReturnTracked DEF IInv
  <2> QED
    BY <2>1, <2>2 DEF Tracked
<1>5. ASSUME UNCHANGED <<sheetStack, vmCalls, halted, cCalls, ended>>
      PROVE  Tracked'
  BY <1>5, SameAccount DEF IInv, Tracked
<1>6. CASE Continue
  BY <1>5, <1>6 DEF Continue
<1>7. CASE Stop
  BY <1>7 DEF Stop, Tracked
<1>8. CASE Undefined
  BY <1>5, <1>8 DEF Undefined, vars
<1>9. CASE UNCHANGED vars
  BY <1>5, <1>9 DEF vars
<1> QED
  BY <1>1, <1>2, <1>3, <1>4, <1>6, <1>7, <1>8, <1>9 DEF Next

(* The inductive invariant holds.                                          *)
LEMMA Invariant == Spec => []IInv
<1>1. Init => IInv
  BY InitTyped, InitTracked DEF IInv
<1>2. IInv /\ [Next]_vars => IInv'
  BY StepTyped, StepTracked DEF IInv
<1> QED
  BY <1>1, <1>2, PTL DEF Spec

(***************************************************************************)
(* Every variable of a session keeps its type: no count of calls becomes   *)
(* negative while the two stacks are within their bounds.                  *)
(***************************************************************************)
THEOREM SessionTypes == Spec => []TypeOK
<1>1. IInv => TypeOK
  BY DEF IInv, Typed
<1> QED
  BY <1>1, Invariant, PTL

(***************************************************************************)
(* Until a C function is called, the sheet stack accounts for every frame  *)
(* of the machine, however deep the calls are and whichever sheets have    *)
(* debug information (ddebug.c:513-568).                                   *)
(***************************************************************************)
THEOREM CallsAccounted == Spec => []CallsTracked
<1>1. IInv => CallsTracked
  BY DEF IInv, Tracked, Account, CallsTracked
<1> QED
  BY <1>1, Invariant, PTL

(***************************************************************************)
(* A breakpoint is never passed where all the callers are debuggable: the  *)
(* session pauses at it, whatever the agenda (ddebug.c:429-506).           *)
(***************************************************************************)
THEOREM BreakpointsPause == Spec => BreakpointPauses
<1>1. ASSUME IInv, NEW wires, NEW node, Iterating, Taken(wires, node)
      PROVE  PausesAtBreakpoints
  <2> SUFFICES ASSUME NEW sheet \in Sheets, cCalls = 0, AllDebuggable,
                      \/ WireBreakpointIn(sheet)'
                      \/ agenda.onNodeBreakpoint /\ NodeBreakpointIn(sheet)'
               PROVE  ~running' /\ breakpointHit'
    BY DEF PausesAtBreakpoints
  <2>1. Found
    BY <1>1, AllFound
  <2>2. agenda' = agenda /\ last' = [wires |-> wires, node |-> node]
    BY <1>1 DEF Taken
  <2>3. WireHit(wires) \/ NodeHit(node)
    BY <2>2 DEF WireBreakpointIn, NodeBreakpointIn, WireHit, NodeHit
  <2> QED
    BY <1>1, <2>1, <2>3 DEF Taken, Hit
<1>2. IInv /\ [Next]_vars => [PausesAtBreakpoints]_vars
  <2> SUFFICES ASSUME IInv, Next, ~UNCHANGED vars
               PROVE  PausesAtBreakpoints
    OBVIOUS
  <2>1. CASE Continue \/ Stop
    BY <2>1 DEF Continue, Stop, PausesAtBreakpoints
  <2>2. CASE \E wires, node : Iterating /\ Taken(wires, node)
    BY <1>1, <2>2
  <2>3. Continue \/ Stop \/ \E wires, node : Iterating /\ Taken(wires, node)
    <3>1. ~Undefined
      BY DEF Undefined
    <3> QED
      BY <3>1 DEF Next, Step, Call, CallC, Return
  <2> QED
    BY <2>1, <2>2, <2>3
<1> QED
  BY <1>2, Invariant, PTL DEF Spec, BreakpointPauses
=============================================================================
