-------------------------- MODULE GraphWiresProofs --------------------------
(***************************************************************************)
(* The wires of a graph stay sorted by the socket they come from, so that  *)
(* binary search finds them all, for every number of sockets and whatever  *)
(* lines the source text has.                                              *)
(***************************************************************************)
EXTENDS GraphWires, FiniteSetTheorems, SequenceTheorems, WellFoundedInduction, TLAPS

(* A set of numbers has a least one.                                       *)
LEMMA Least ==
  ASSUME NEW S \in SUBSET Nat, S # {}
  PROVE  \E m \in S : \A k \in S : m <= k
<1>1. PICK m \in S : \A k \in S : ~(<<k, m>> \in OpToRel(<, Nat))
  BY NatLessThanWellFounded, WFMin
<1>2. \A k \in S : ~(k < m) /\ k \in Nat /\ m \in Nat
  BY <1>1 DEF OpToRel
<1>3. \A k \in S : m <= k
  BY <1>2
<1> QED
  BY <1>3

(* What holds of 0, and of k + 1 if it does of k, holds of 0..n.           *)
LEMMA CountUp ==
  ASSUME NEW n \in Nat, NEW T, 0 \in T, \A k \in 0..(n - 1) : k \in T => k + 1 \in T
  PROVE  0..n \subseteq T
<1> SUFFICES ASSUME (0..n) \ T # {}
             PROVE  FALSE
  OBVIOUS
<1> DEFINE missing == (0..n) \ T
<1>1. PICK m \in missing : \A k \in missing : m <= k
  <2>1. missing \in SUBSET Nat /\ missing # {}
    OBVIOUS
  <2> HIDE DEF missing
  <2> QED
    BY <2>1, Least
<1>2. m - 1 \in 0..(n - 1) /\ (m - 1) + 1 = m
  BY <1>1
<1>3. m - 1 \in T
  BY <1>1, <1>2
<1> QED
  BY <1>1, <1>2, <1>3

-----------------------------------------------------------------------------
(***************************************************************************)
(* Binary search.                                                          *)
(***************************************************************************)
Begin(n) == [left |-> 0, right |-> n - 1, middle |-> (n - 1) \div 2]

RunsFor(f, n, cmp, m) ==
  /\ f = [k \in 0..m |-> f[k]] /\ f[0] = Begin(n)
  /\ \A k \in 0..(m - 1) : f[k + 1] = Turn(f[k], cmp)

LEMMA TurnsExist ==
  ASSUME NEW n \in Nat, NEW cmp
  PROVE  \E f : RunsFor(f, n, cmp, n)
<1> DEFINE T == {m \in Nat : \E f : RunsFor(f, n, cmp, m)}
<1>1. 0 \in T
  <2>1. RunsFor([k \in 0..0 |-> Begin(n)], n, cmp, 0)
    BY DEF RunsFor
  <2> QED
    BY <2>1
<1>2. ASSUME NEW m \in 0..(n - 1), m \in T
      PROVE  m + 1 \in T
  <2>1. PICK f : RunsFor(f, n, cmp, m)
    BY <1>2
  <2> DEFINE g == [k \in 0..(m + 1) |-> IF k = m + 1 THEN Turn(f[m], cmp) ELSE f[k]]
  <2>2. m \in Nat /\ g = [k \in 0..(m + 1) |-> g[k]]
    OBVIOUS
  <2>3. g[0] = Begin(n)
    BY <2>1, <2>2 DEF RunsFor
  <2>4. ASSUME NEW k \in 0..m
        PROVE  g[k + 1] = Turn(g[k], cmp)
    <3>1. CASE k = m
      BY <2>2, <3>1
    <3>2. CASE k # m
      <4>1. k \in 0..(m - 1) /\ k + 1 \in 0..m /\ k \in 0..m
        BY <2>2, <3>2
      <4>2. g[k + 1] = f[k + 1] /\ g[k] = f[k]
        BY <2>2, <4>1
      <4> QED
        BY <2>1, <4>1, <4>2 DEF RunsFor
    <3> QED
      BY <3>1, <3>2
  <2> HIDE DEF g
  <2>5. (m + 1) - 1 = m
    BY <2>2
  <2>6. RunsFor(g, n, cmp, m + 1)
    BY <2>2, <2>3, <2>4, <2>5 DEF RunsFor
  <2> QED
    BY <2>2, <2>6
<1> HIDE DEF T
<1>3. 0..n \subseteq T
  BY <1>1, <1>2, CountUp
<1> QED
  BY <1>3 DEF T

LEMMA TurnsRun ==
  ASSUME NEW n \in Nat, NEW cmp
  PROVE  RunsFor(Turns(n, cmp), n, cmp, n)
<1> DEFINE F(f) == f = [k \in 0..n |->
                          IF k = 0 THEN [left |-> 0, right |-> n - 1, middle |-> (n - 1) \div 2]
                          ELSE Turn(f[k - 1], cmp)]
<1>1. PICK f : RunsFor(f, n, cmp, n)
  BY TurnsExist
<1>2. F(f)
  <2>1. ASSUME NEW k \in 0..n, k # 0
        PROVE  f[k] = Turn(f[k - 1], cmp)
    <3>1. k - 1 \in 0..(n - 1) /\ (k - 1) + 1 = k
      BY <2>1
    <3> QED
      BY <1>1, <3>1 DEF RunsFor
  <2>2. f = [k \in 0..n |-> f[k]] /\ f[0] = Begin(n)
    BY <1>1 DEF RunsFor
  <2> QED
    BY <2>1, <2>2 DEF Begin
<1>3. PICK t : t = Turns(n, cmp)
  OBVIOUS
<1>4. F(t)
  BY <1>2, <1>3 DEF Turns
<1>5. t = [k \in 0..n |-> t[k]] /\ t[0] = Begin(n)
  BY <1>4 DEF Begin
<1>6. ASSUME NEW k \in 0..(n - 1)
      PROVE  t[k + 1] = Turn(t[k], cmp)
  <2>1. k + 1 \in 0..n /\ k + 1 # 0 /\ (k + 1) - 1 = k
    OBVIOUS
  <2> QED
    BY <1>4, <2>1
<1> QED
  BY <1>3, <1>5, <1>6 DEF RunsFor

(***************************************************************************)
(* Where a search ends: A is where what is sought may be behind an         *)
(* element, and B where it may be before it.                               *)
(***************************************************************************)
Splits(n, cmp, A, B) ==
  /\ cmp \in [0..(n - 1) -> Int]
  /\ \A m \in 0..(n - 1) : /\ cmp[m] > 0 => 0..m \subseteq A
                           /\ cmp[m] < 0 => m..(n - 1) \subseteq B

Ended(m, n, cmp, A, B) ==
  /\ m \in 0..(n - 1)
  /\ \/ cmp[m] = 0
     \/ cmp[m] > 0 /\ 0..m \subseteq A /\ (m + 1)..(n - 1) \subseteq B
     \/ cmp[m] < 0 /\ 0..(m - 1) \subseteq A /\ m..(n - 1) \subseteq B

(* After k turns.                                                          *)
Searching(s, k, n, cmp, A, B) ==
  \/ s.left > s.right /\ Ended(s.middle, n, cmp, A, B)
  \/ /\ s.left \in Nat /\ s.right \in Nat /\ s.left <= s.right /\ s.right <= n - 1
     /\ s.right - s.left < n - k
     /\ 0..(s.left - 1) \subseteq A /\ (s.right + 1)..(n - 1) \subseteq B

LEMMA TurnKeeps ==
  ASSUME NEW n \in Nat \ {0}, NEW cmp, NEW A, NEW B, Splits(n, cmp, A, B),
         NEW k \in 0..(n - 1), NEW s, Searching(s, k, n, cmp, A, B)
  PROVE  Searching(Turn(s, cmp), k + 1, n, cmp, A, B)
<1>1. CASE s.left > s.right /\ Ended(s.middle, n, cmp, A, B)
  <2>1. Turn(s, cmp) = s
    BY <1>1 DEF Turn
  <2> QED
    BY <1>1, <2>1 DEF Searching
<1>2. CASE /\ s.left \in Nat /\ s.right \in Nat /\ s.left <= s.right /\ s.right <= n - 1
           /\ s.right - s.left < n - k
           /\ 0..(s.left - 1) \subseteq A /\ (s.right + 1)..(n - 1) \subseteq B
  <2>1. PICK l, r, m, c : l = s.left /\ r = s.right /\ m = (l + r) \div 2 /\ c = cmp[m]
    OBVIOUS
  <2>2. /\ l \in Nat /\ r \in Nat /\ l <= r /\ r <= n - 1 /\ r - l < n - k
        /\ 0..(l - 1) \subseteq A /\ (r + 1)..(n - 1) \subseteq B
    BY <1>2, <2>1
  <2>3. m \in l..r /\ m \in 0..(n - 1)
    <3>1. m \in Int /\ 2 * m <= l + r /\ l + r <= 2 * m + 1
      BY <2>1, <2>2
    <3> QED
      BY <2>2, <3>1
  <2>4. c \in Int /\ (c > 0 => 0..m \subseteq A) /\ (c < 0 => m..(n - 1) \subseteq B)
    BY <2>1, <2>3 DEF Splits
  <2>5. PICK t : t = Turn(s, cmp)
    OBVIOUS
  <2>6. ~(s.left > s.right)
    BY <2>1, <2>2
  <2>7. t = [left   |-> IF c >= 0 THEN m + 1 ELSE l,
             right  |-> IF c <= 0 THEN m - 1 ELSE r,
             middle |-> m]
    BY <2>1, <2>5, <2>6 DEF Turn
  <2>8. CASE c = 0
    <3>1. t.left > t.right /\ t.middle = m
      BY <2>3, <2>7, <2>8
    <3>2. Ended(m, n, cmp, A, B)
      BY <2>1, <2>3, <2>8 DEF Ended
    <3> QED
      BY <2>5, <3>1, <3>2 DEF Searching
  <2>9. CASE c > 0
    <3>1. t.left = m + 1 /\ t.right = r /\ t.middle = m
      BY <2>4, <2>7, <2>9
    <3>2. 0..m \subseteq A
      BY <2>4, <2>9
    <3>3. CASE m + 1 > r
      <4>1. \A j \in (m + 1)..(n - 1) : j \in (r + 1)..(n - 1)
        BY <2>2, <2>3, <3>3
      <4>2. Ended(m, n, cmp, A, B)
        BY <2>1, <2>2, <2>3, <2>9, <3>2, <4>1 DEF Ended
      <4> QED
        BY <2>5, <3>1, <3>3, <4>2 DEF Searching
    <3>4. CASE m + 1 <= r
      <4>1. m + 1 \in Nat /\ r - (m + 1) < n - (k + 1) /\ (m + 1) - 1 = m
        BY <2>2, <2>3
      <4> QED
        BY <2>2, <2>5, <3>1, <3>2, <3>4, <4>1 DEF Searching
    <3> QED
      BY <2>2, <2>3, <3>3, <3>4
  <2>10. CASE c < 0
    <3>1. t.left = l /\ t.right = m - 1 /\ t.middle = m
      BY <2>4, <2>7, <2>10
    <3>2. m..(n - 1) \subseteq B
      BY <2>4, <2>10
    <3>3. CASE l > m - 1
      <4>1. \A j \in 0..(m - 1) : j \in 0..(l - 1)
        BY <2>2, <2>3, <3>3
      <4>2. Ended(m, n, cmp, A, B)
        BY <2>1, <2>2, <2>3, <2>10, <3>2, <4>1 DEF Ended
      <4> QED
        BY <2>5, <3>1, <3>3, <4>2 DEF Searching
    <3>4. CASE l <= m - 1
      <4>1. m - 1 \in Nat /\ (m - 1) - l < n - (k + 1) /\ (m - 1) + 1 = m /\ m - 1 <= n - 1
        BY <2>2, <2>3, <3>4
      <4> QED
        BY <2>2, <2>5, <3>1, <3>2, <3>4, <4>1 DEF Searching
    <3> QED
      BY <2>2, <2>3, <3>3, <3>4
  <2> QED
    BY <2>4, <2>8, <2>9, <2>10
<1> QED
  BY <1>1, <1>2 DEF Searching

LEMMA SearchEnds ==
  ASSUME NEW n \in Nat \ {0}, NEW cmp, NEW A, NEW B, Splits(n, cmp, A, B)
  PROVE  Ended(BinarySearch(n, cmp), n, cmp, A, B)
<1>1. PICK f : f = Turns(n, cmp)
  OBVIOUS
<1>2. f[0] = Begin(n) /\ \A k \in 0..(n - 1) : f[k + 1] = Turn(f[k], cmp)
  BY <1>1, TurnsRun DEF RunsFor
<1> DEFINE T == {k \in 0..n : Searching(f[k], k, n, cmp, A, B)}
<1>3. 0 \in T
  <2>1. f[0].left = 0 /\ f[0].right = n - 1
    BY <1>2 DEF Begin
  <2>2. /\ 0 \in 0..n /\ 0 \in Nat /\ n - 1 \in Nat /\ 0 <= n - 1 /\ (n - 1) - 0 < n - 0
        /\ 0..(0 - 1) = {} /\ ((n - 1) + 1)..(n - 1) = {}
    OBVIOUS
  <2> QED
    BY <2>1, <2>2 DEF Searching
<1>4. ASSUME NEW k \in 0..(n - 1), k \in T
      PROVE  k + 1 \in T
  <2>1. Searching(Turn(f[k], cmp), k + 1, n, cmp, A, B)
    BY <1>4, TurnKeeps
  <2>2. k + 1 \in 0..n
    OBVIOUS
  <2> QED
    BY <1>2, <2>1, <2>2
<1> HIDE DEF T
<1>5. 0..n \subseteq T
  BY <1>3, <1>4, CountUp
<1>6. Searching(f[n], n, n, cmp, A, B)
  BY <1>5 DEF T
<1>7. Ended(f[n].middle, n, cmp, A, B)
  BY <1>6 DEF Searching
<1> QED
  BY <1>1, <1>7 DEF BinarySearch

-----------------------------------------------------------------------------
(***************************************************************************)
(* The order of the wires.                                                 *)
(***************************************************************************)
Socket == [nodeIndex : Nat, socketIndex : Nat]

Edge == [socketFrom : Sockets, socketTo : Sockets]

LEMMA SocketsAreListed ==
  /\ Len(Inputs) \in Nat /\ DOMAIN Inputs = 1..Len(Inputs)
  /\ Len(Outputs) \in Nat /\ DOMAIN Outputs = 1..Len(Outputs)
<1>1. Inputs \in Seq(Socket) /\ Outputs \in Seq(Socket)
  BY SocketsAssumption DEF Socket
<1> QED
  BY <1>1, LenProperties

LEMMA SocketsAreSockets == Sockets \subseteq Socket
<1>1. \A s \in Seq(Socket) : Range(s) \subseteq Socket
  BY DEF Range
<1>2. Inputs \in Seq(Socket) /\ Outputs \in Seq(Socket)
  BY SocketsAssumption DEF Socket
<1> QED
  BY <1>1, <1>2 DEF Sockets

LEMMA CmpSocketOrders ==
  ASSUME NEW s \in Socket, NEW t \in Socket
  PROVE  /\ CmpSocket(s, t) \in Int
         /\ CmpSocket(s, t) = 0 <=> s = t
         /\ CmpSocket(s, t) > 0 <=> CmpSocket(t, s) < 0
<1>1. s = t <=> s.nodeIndex = t.nodeIndex /\ s.socketIndex = t.socketIndex
  BY DEF Socket
<1>2. PICK a, b, c, d : /\ a = s.nodeIndex /\ b = s.socketIndex
                        /\ c = t.nodeIndex /\ d = t.socketIndex
  OBVIOUS
<1>3. a \in Nat /\ b \in Nat /\ c \in Nat /\ d \in Nat
  BY <1>2 DEF Socket
<1>4. /\ CmpSocket(s, t) = IF a # c THEN Sign(a, c) ELSE Sign(b, d)
      /\ CmpSocket(t, s) = IF c # a THEN Sign(c, a) ELSE Sign(d, b)
  BY <1>2 DEF CmpSocket
<1>5. s = t <=> a = c /\ b = d
  BY <1>1, <1>2
<1> QED
  BY <1>3, <1>4, <1>5 DEF Sign

LEMMA CmpSocketTransitive ==
  ASSUME NEW s \in Socket, NEW t \in Socket, NEW u \in Socket,
         CmpSocket(s, t) <= 0, CmpSocket(t, u) <= 0
  PROVE  CmpSocket(s, u) <= 0
<1>1. PICK a, b, c, d, e, f : /\ a = s.nodeIndex /\ b = s.socketIndex
                              /\ c = t.nodeIndex /\ d = t.socketIndex
                              /\ e = u.nodeIndex /\ f = u.socketIndex
  OBVIOUS
<1>2. a \in Nat /\ b \in Nat /\ c \in Nat /\ d \in Nat /\ e \in Nat /\ f \in Nat
  BY <1>1 DEF Socket
<1>3. /\ CmpSocket(s, t) = IF a # c THEN Sign(a, c) ELSE Sign(b, d)
      /\ CmpSocket(t, u) = IF c # e THEN Sign(c, e) ELSE Sign(d, f)
      /\ CmpSocket(s, u) = IF a # e THEN Sign(a, e) ELSE Sign(b, f)
  BY <1>1 DEF CmpSocket
<1> QED
  BY <1>2, <1>3 DEF Sign

(* The slip of d_wire_cmp is about the targets only.                       *)
LEMMA CmpWireOrders ==
  ASSUME NEW w \in Edge, NEW x \in Edge
  PROVE  /\ CmpWire(w, x) \in Int
         /\ CmpWire(w, x) > 0 => CmpSocket(x.socketFrom, w.socketFrom) <= 0
         /\ CmpWire(w, x) < 0 => CmpSocket(w.socketFrom, x.socketFrom) <= 0
         /\ CmpWire(w, x) = 0 => w.socketFrom = x.socketFrom
<1>1. PICK s, t, u, v : s = w.socketFrom /\ t = x.socketFrom /\ u = w.socketTo /\ v = x.socketTo
  OBVIOUS
<1>2. s \in Socket /\ t \in Socket /\ u \in Socket /\ v \in Socket
  BY <1>1, SocketsAreSockets DEF Edge
<1>3. CmpTarget(u, v) \in Int
  BY <1>2 DEF CmpTarget, Sign
<1>4. CmpWire(w, x) = IF CmpSocket(s, t) # 0 THEN CmpSocket(s, t) ELSE CmpTarget(u, v)
  BY <1>1 DEF CmpWire
<1>5. /\ CmpSocket(s, t) \in Int /\ CmpSocket(t, s) \in Int
      /\ CmpSocket(s, t) = 0 <=> s = t
      /\ CmpSocket(t, s) = 0 <=> t = s
      /\ CmpSocket(s, t) > 0 <=> CmpSocket(t, s) < 0
  BY <1>2, CmpSocketOrders
<1> QED
  BY <1>1, <1>3, <1>4, <1>5

(* Behind another socket's wires, or among one's own.                      *)
Sorted(ws) ==
  \A i, j \in 0..(Len(ws) - 1) :
    i <= j => CmpSocket(At(ws, i).socketFrom, At(ws, j).socketFrom) <= 0

LEMMA Elements ==
  ASSUME NEW ws \in Seq(Edge), NEW i \in 0..(Len(ws) - 1)
  PROVE  At(ws, i) \in Edge /\ At(ws, i).socketFrom \in Socket /\ At(ws, i).socketFrom \in Sockets
<1>1. PICK n : n = Len(ws)
  OBVIOUS
<1>2. n \in Nat /\ i + 1 \in 1..n
  BY <1>1
<1>3. ws[i + 1] \in Edge
  BY <1>1, <1>2
<1> QED
  BY <1>3, SocketsAreSockets DEF At, Edge

-----------------------------------------------------------------------------
(***************************************************************************)
(* add_edge: the array grows by the wire, and stays sorted.                *)
(***************************************************************************)
(* t is s with e before what was element k.                                *)
GrownAt(t, s, k, e) ==
  /\ t \in Seq(Edge) /\ Len(t) = Len(s) + 1 /\ k \in 0..Len(s)
  /\ \A i \in 0..Len(s) :
       At(t, i) = IF i < k THEN At(s, i) ELSE IF i = k THEN e ELSE At(s, i - 1)

LEMMA Growing ==
  ASSUME NEW s \in Seq(Edge), NEW k \in 0..Len(s), NEW e \in Edge
  PROVE  GrownAt(InsertAt(s, k + 1, e), s, k, e)
<1>1. PICK n : n = Len(s)
  OBVIOUS
<1>2. n \in Nat /\ k \in 0..n /\ (k + 1) - 1 = k
  BY <1>1
<1>3. PICK p, q : p = SubSeq(s, 1, k) /\ q = SubSeq(s, k + 1, n)
  OBVIOUS
<1>4. /\ p \in Seq(Edge) /\ Len(p) = k
      /\ \A i \in 1..k : p[i] = s[i]
  <2>1. \A i \in 1..k : i \in 1..n
    BY <1>2
  <2>2. \A i \in 1..k : s[i] \in Edge
    BY <1>1, <2>1
  <2> QED
    BY <1>1, <1>2, <1>3, <2>1, <2>2
<1>5. /\ q \in Seq(Edge) /\ Len(q) = n - k
      /\ \A i \in 1..(n - k) : q[i] = s[k + i]
  <2>1. \A i \in (k + 1)..n : i \in 1..n
    BY <1>2
  <2>2. \A i \in (k + 1)..n : s[i] \in Edge
    BY <1>1, <2>1
  <2>3. q \in Seq(Edge)
    BY <1>1, <1>2, <1>3, <2>2, SubSeqProperties
  <2>4. Len(q) = n - k
    BY <1>1, <1>2, <1>3, SubSeqProperties
  <2> QED
    BY <1>1, <1>2, <1>3, <2>3, <2>4
<1>6. PICK t : t = (p \o <<e>>) \o q
  OBVIOUS
<1>7. InsertAt(s, k + 1, e) = t
  BY <1>1, <1>2, <1>3, <1>6 DEF InsertAt
<1>8. /\ t \in Seq(Edge) /\ Len(t) = n + 1
      /\ \A i \in 1..(n + 1) : t[i] = IF i <= k THEN p[i] ELSE IF i = k + 1 THEN e ELSE q[i - (k + 1)]
  <2>1. PICK r : r = p \o <<e>>
    OBVIOUS
  <2>2. r \in Seq(Edge) /\ Len(r) = k + 1 /\ \A i \in 1..(k + 1) : r[i] = IF i <= k THEN p[i] ELSE e
    BY <1>2, <1>4, <2>1
  <2>3. t = r \o q
    BY <1>6, <2>1
  <2>4. t \in Seq(Edge) /\ Len(t) = (k + 1) + (n - k)
    <3>1. r \in Seq(Edge) /\ q \in Seq(Edge)
      BY <1>5, <2>2
    <3>2. r \o q \in Seq(Edge) /\ Len(r \o q) = Len(r) + Len(q)
      BY <3>1, ConcatProperties
    <3> QED
      BY <1>5, <2>2, <2>3, <3>2
  <2>5. (k + 1) + (n - k) = n + 1
    BY <1>2
  <2>6. ASSUME NEW i \in 1..(n + 1)
        PROVE  t[i] = IF i <= k + 1 THEN r[i] ELSE q[i - (k + 1)]
    BY <1>5, <2>2, <2>3, <2>5, ConcatProperties
  <2>7. ASSUME NEW i \in 1..(n + 1)
        PROVE  t[i] = IF i <= k THEN p[i] ELSE IF i = k + 1 THEN e ELSE q[i - (k + 1)]
    <3>1. CASE i <= k + 1
      <4>1. i \in 1..(k + 1) /\ (i <= k \/ i = k + 1) /\ (i = k + 1 => ~(i <= k))
        BY <1>2, <3>1
      <4> QED
        BY <2>2, <2>6, <3>1, <4>1
    <3>2. CASE ~(i <= k + 1)
      <4>1. ~(i <= k) /\ i # k + 1
        BY <1>2, <3>2
      <4> QED
        BY <2>6, <3>2, <4>1
    <3> QED
      BY <3>1, <3>2
  <2> QED
    BY <2>4, <2>5, <2>7
<1>9. ASSUME NEW i \in 0..n
      PROVE  t[i + 1] = IF i < k THEN s[i + 1] ELSE IF i = k THEN e ELSE s[(i - 1) + 1]
  <2>1. i + 1 \in 1..(n + 1) /\ (i + 1 <= k <=> i < k) /\ (i + 1 = k + 1 <=> i = k)
    BY <1>2
  <2>2. t[i + 1] = IF i < k THEN p[i + 1] ELSE IF i = k THEN e ELSE q[(i + 1) - (k + 1)]
    BY <1>8, <2>1
  <2>3. CASE i < k
    <3>1. i + 1 \in 1..k
      BY <1>2, <2>3
    <3> QED
      BY <1>4, <2>2, <2>3, <3>1
  <2>4. CASE i = k
    <3>1. ~(i < k)
      BY <1>2, <2>4
    <3> QED
      BY <2>2, <2>4, <3>1
  <2>5. CASE i > k
    <3>1. /\ (i + 1) - (k + 1) \in 1..(n - k) /\ k + ((i + 1) - (k + 1)) = (i - 1) + 1
          /\ ~(i < k) /\ i # k
      BY <1>2, <2>5
    <3> QED
      BY <1>5, <2>2, <3>1
  <2> QED
    BY <1>2, <2>3, <2>4, <2>5
<1> QED
  BY <1>1, <1>2, <1>7, <1>8, <1>9 DEF GrownAt, At

(* Where add_edge puts the wire nothing is behind it or before it wrongly. *)
Fits(s, k, e) ==
  /\ \A i \in 0..(k - 1) : CmpSocket(At(s, i).socketFrom, e.socketFrom) <= 0
  /\ \A i \in k..(Len(s) - 1) : CmpSocket(e.socketFrom, At(s, i).socketFrom) <= 0

LEMMA AddEdgeFits ==
  ASSUME NEW ws \in Seq(Edge), Sorted(ws), NEW wire \in Edge
  PROVE  \E k \in 0..Len(ws) : GrownAt(Inserted(ws, wire), ws, k, wire) /\ Fits(ws, k, wire)
<1>1. CASE ws = <<>>
  <2>1. Inserted(ws, wire) = <<wire>> /\ Len(ws) = 0
    BY <1>1 DEF Inserted
  <2>2. 0 \in 0..Len(ws) /\ 0..(0 - 1) = {} /\ 0..(Len(ws) - 1) = {} /\ 0..Len(ws) = {0}
    BY <2>1
  <2>3. GrownAt(<<wire>>, ws, 0, wire)
    BY <2>1, <2>2 DEF GrownAt, At
  <2>4. Fits(ws, 0, wire)
    BY <2>2 DEF Fits
  <2> QED
    BY <2>1, <2>2, <2>3, <2>4
<1>2. CASE ws # <<>>
  <2>1. PICK n, cmp : n = Len(ws) /\ cmp = [i \in 0..(n - 1) |-> CmpWire(wire, At(ws, i))]
    OBVIOUS
  <2>2. n \in Nat \ {0}
    BY <1>2, <2>1
  <2> DEFINE A == {i \in 0..(n - 1) : CmpSocket(At(ws, i).socketFrom, wire.socketFrom) <= 0}
             B == {i \in 0..(n - 1) : CmpSocket(wire.socketFrom, At(ws, i).socketFrom) <= 0}
  <2>3. wire.socketFrom \in Socket
    BY SocketsAreSockets DEF Edge
  <2>4. ASSUME NEW m \in 0..(n - 1)
        PROVE  /\ cmp[m] \in Int
               /\ cmp[m] > 0 => 0..m \subseteq A
               /\ cmp[m] < 0 => m..(n - 1) \subseteq B
               /\ cmp[m] = 0 => At(ws, m).socketFrom = wire.socketFrom
    <3>1. At(ws, m) \in Edge /\ At(ws, m).socketFrom \in Socket
      BY <2>1, Elements
    <3>2. /\ cmp[m] \in Int
          /\ cmp[m] > 0 => CmpSocket(At(ws, m).socketFrom, wire.socketFrom) <= 0
          /\ cmp[m] < 0 => CmpSocket(wire.socketFrom, At(ws, m).socketFrom) <= 0
          /\ cmp[m] = 0 => wire.socketFrom = At(ws, m).socketFrom
      BY <2>1, <3>1, CmpWireOrders
    <3>3. ASSUME cmp[m] > 0, NEW i \in 0..m
          PROVE  i \in A
      <4>1. i \in 0..(n - 1) /\ i <= m
        BY <2>2
      <4>2. CmpSocket(At(ws, i).socketFrom, At(ws, m).socketFrom) <= 0
        BY <2>1, <4>1 DEF Sorted
      <4>3. At(ws, i).socketFrom \in Socket
        BY <2>1, <4>1, Elements
      <4> QED
        BY <2>3, <3>1, <3>2, <3>3, <4>1, <4>2, <4>3, CmpSocketTransitive
    <3>4. ASSUME cmp[m] < 0, NEW i \in m..(n - 1)
          PROVE  i \in B
      <4>1. i \in 0..(n - 1) /\ m <= i
        BY <2>2
      <4>2. CmpSocket(At(ws, m).socketFrom, At(ws, i).socketFrom) <= 0
        BY <2>1, <4>1 DEF Sorted
      <4>3. At(ws, i).socketFrom \in Socket
        BY <2>1, <4>1, Elements
      <4> QED
        BY <2>3, <3>1, <3>2, <3>4, <4>1, <4>2, <4>3, CmpSocketTransitive
    <3> QED
      BY <3>2, <3>3, <3>4
  <2>5. Splits(n, cmp, A, B)
    BY <2>1, <2>4 DEF Splits
  <2>6. PICK middle : middle = BinarySearch(n, cmp)
    OBVIOUS
  <2>7. Ended(middle, n, cmp, A, B)
    BY <2>2, <2>5, <2>6, SearchEnds
  <2>8. middle \in 0..(n - 1) /\ cmp[middle] \in Int /\ cmp[middle] = CmpWire(wire, At(ws, middle))
    BY <2>1, <2>4, <2>7 DEF Ended
  <2>9. PICK k : k = middle + (IF cmp[middle] > 0 THEN 1 ELSE 0)
    OBVIOUS
  <2>10. k \in 0..n
    BY <2>2, <2>8, <2>9
  <2>11. Inserted(ws, wire) = InsertAt(ws, k + 1, wire)
    BY <1>2, <2>1, <2>6, <2>8, <2>9 DEF Inserted
  <2>12. GrownAt(Inserted(ws, wire), ws, k, wire)
    BY <2>1, <2>10, <2>11, Growing
  <2>13. 0..(k - 1) \subseteq A /\ k..(n - 1) \subseteq B
    <3>1. CASE cmp[middle] = 0
      <4>1. k = middle /\ At(ws, middle).socketFrom = wire.socketFrom
        BY <2>4, <2>8, <2>9, <3>1
      <4>2. At(ws, middle).socketFrom \in Socket
        BY <2>3, <4>1
      <4>3. ASSUME NEW i \in 0..(k - 1)
            PROVE  i \in A
        <5>1. i \in 0..(n - 1) /\ i <= middle
          BY <2>2, <2>8, <4>1
        <5> QED
          BY <2>1, <2>8, <4>1, <5>1 DEF Sorted
      <4>4. ASSUME NEW i \in k..(n - 1)
            PROVE  i \in B
        <5>1. i \in 0..(n - 1) /\ middle <= i
          BY <2>2, <2>8, <4>1
        <5> QED
          BY <2>1, <2>8, <4>1, <5>1 DEF Sorted
      <4> QED
        BY <4>3, <4>4
    <3>2. CASE cmp[middle] > 0
      <4>1. k = middle + 1 /\ k - 1 = middle
        BY <2>8, <2>9, <3>2
      <4>2. 0..middle \subseteq A /\ (middle + 1)..(n - 1) \subseteq B
        BY <2>7, <2>8, <3>2 DEF Ended
      <4> QED
        BY <4>1, <4>2
    <3>3. CASE cmp[middle] < 0
      <4>1. k = middle
        BY <2>8, <2>9, <3>3
      <4>2. 0..(middle - 1) \subseteq A /\ middle..(n - 1) \subseteq B
        BY <2>7, <2>8, <3>3 DEF Ended
      <4> QED
        BY <4>1, <4>2
    <3> QED
      BY <2>8, <3>1, <3>2, <3>3
  <2>14. Fits(ws, k, wire)
    BY <2>1, <2>13 DEF Fits
  <2> QED
    BY <2>1, <2>10, <2>12, <2>14
<1> QED
  BY <1>1, <1>2

(* No wire is in the array twice.                                          *)
Distinct(ws) ==
  \A i, j \in 0..(Len(ws) - 1) : At(ws, i) = At(ws, j) => i = j

LEMMA RangeIsHeld ==
  ASSUME NEW ws \in Seq(Edge)
  PROVE  Range(ws) = {At(ws, i) : i \in 0..(Len(ws) - 1)}
<1>1. PICK n : n = Len(ws) /\ n \in Nat /\ DOMAIN ws = 1..n
  OBVIOUS
<1>2. ASSUME NEW i \in 1..n
      PROVE  i - 1 \in 0..(n - 1) /\ At(ws, i - 1) = ws[i]
  <2>1. i - 1 \in 0..(n - 1) /\ (i - 1) + 1 = i
    BY <1>1
  <2> QED
    BY <2>1 DEF At
<1>3. ASSUME NEW i \in 0..(n - 1)
      PROVE  i + 1 \in 1..n /\ At(ws, i) = ws[i + 1]
  BY <1>1 DEF At
<1>4. Range(ws) = {ws[i] : i \in 1..n}
  BY <1>1 DEF Range
<1> QED
  BY <1>1, <1>2, <1>3, <1>4

LEMMA InsertedKeeps ==
  ASSUME NEW ws \in Seq(Edge), Sorted(ws), Distinct(ws), NEW wire \in Edge, wire \notin Range(ws)
  PROVE  /\ Inserted(ws, wire) \in Seq(Edge)
         /\ Len(Inserted(ws, wire)) = Len(ws) + 1
         /\ Sorted(Inserted(ws, wire)) /\ Distinct(Inserted(ws, wire))
         /\ Range(Inserted(ws, wire)) = Range(ws) \union {wire}
<1>1. PICK t : t = Inserted(ws, wire)
  OBVIOUS
<1>2. PICK k \in 0..Len(ws) : GrownAt(t, ws, k, wire) /\ Fits(ws, k, wire)
  BY <1>1, AddEdgeFits
<1>3. PICK n : n = Len(ws) /\ n \in Nat
  OBVIOUS
<1>4. /\ t \in Seq(Edge) /\ Len(t) = n + 1 /\ k \in 0..n /\ (n + 1) - 1 = n
      /\ \A i \in 0..n : At(t, i) = IF i < k THEN At(ws, i) ELSE IF i = k THEN wire ELSE At(ws, i - 1)
  BY <1>2, <1>3 DEF GrownAt
<1>5. ASSUME NEW i \in 0..n
      PROVE  \/ i < k /\ i \in 0..(n - 1) /\ i \in 0..(k - 1) /\ At(t, i) = At(ws, i)
             \/ i = k /\ At(t, i) = wire
             \/ i > k /\ i - 1 \in 0..(n - 1) /\ i - 1 \in k..(n - 1) /\ At(t, i) = At(ws, i - 1)
  <2>1. CASE i < k
    BY <1>3, <1>4, <2>1
  <2>2. CASE i = k
    <3>1. ~(i < k)
      BY <1>4, <2>2
    <3> QED
      BY <1>4, <2>2, <3>1
  <2>3. CASE i > k
    <3>1. ~(i < k) /\ i # k /\ i - 1 \in 0..(n - 1) /\ i - 1 \in k..(n - 1)
      BY <1>3, <1>4, <2>3
    <3> QED
      BY <1>4, <2>3, <3>1
  <2> QED
    BY <1>4, <2>1, <2>2, <2>3
<1>6. wire.socketFrom \in Socket
  BY SocketsAreSockets DEF Edge
<1>7. ASSUME NEW i \in 0..n, NEW j \in 0..n, i <= j
      PROVE  CmpSocket(At(t, i).socketFrom, At(t, j).socketFrom) <= 0
  <2>1. \A a, b \in 0..(n - 1) : a <= b => CmpSocket(At(ws, a).socketFrom, At(ws, b).socketFrom) <= 0
    BY <1>3 DEF Sorted
  <2>2. \A a \in 0..(k - 1) : CmpSocket(At(ws, a).socketFrom, wire.socketFrom) <= 0
    BY <1>2 DEF Fits
  <2>3. \A a \in k..(n - 1) : CmpSocket(wire.socketFrom, At(ws, a).socketFrom) <= 0
    BY <1>2, <1>3 DEF Fits
  <2>4. CASE i < k /\ j < k
    BY <1>5, <1>7, <2>1, <2>4
  <2>5. CASE i < k /\ j = k
    BY <1>4, <1>5, <2>2, <2>5
  <2>6. CASE i < k /\ j > k
    <3>1. i \in 0..(n - 1) /\ j - 1 \in 0..(n - 1) /\ i <= j - 1
      BY <1>3, <1>4, <2>6
    <3>2. At(t, i) = At(ws, i) /\ At(t, j) = At(ws, j - 1)
      BY <1>4, <1>5, <2>6
    <3> QED
      BY <2>1, <3>1, <3>2
  <2>7. CASE i = k /\ j = k
    <3>1. CmpSocket(wire.socketFrom, wire.socketFrom) = 0
      BY <1>6, CmpSocketOrders
    <3> QED
      BY <1>4, <1>5, <2>7, <3>1
  <2>8. CASE i = k /\ j > k
    <3>1. j - 1 \in k..(n - 1) /\ At(t, j) = At(ws, j - 1) /\ At(t, i) = wire
      BY <1>4, <1>5, <2>8
    <3> QED
      BY <2>3, <3>1
  <2>9. CASE i > k /\ j > k
    <3>1. i - 1 \in 0..(n - 1) /\ j - 1 \in 0..(n - 1) /\ i - 1 <= j - 1
      BY <1>3, <1>4, <1>7, <2>9
    <3>2. At(t, i) = At(ws, i - 1) /\ At(t, j) = At(ws, j - 1)
      BY <1>4, <1>5, <2>9
    <3> QED
      BY <2>1, <3>1, <3>2
  <2> QED
    BY <1>4, <1>7, <2>4, <2>5, <2>6, <2>7, <2>8, <2>9
<1>8. ASSUME NEW i \in 0..n, NEW j \in 0..n, At(t, i) = At(t, j)
      PROVE  i = j
  <2>1. \A a \in 0..(n - 1) : At(ws, a) # wire
    BY <1>3, RangeIsHeld
  <2>2. \A a, b \in 0..(n - 1) : At(ws, a) = At(ws, b) => a = b
    BY <1>3 DEF Distinct
  <2>3. CASE i < k
    <3>1. i \in 0..(n - 1) /\ At(t, i) = At(ws, i)
      BY <1>4, <1>5, <2>3
    <3>2. CASE j < k
      <4>1. j \in 0..(n - 1) /\ At(t, j) = At(ws, j)
        BY <1>4, <1>5, <3>2
      <4> QED
        BY <1>8, <2>2, <3>1, <4>1
    <3>3. CASE j = k
      <4>1. At(t, j) = wire
        BY <1>4, <1>5, <3>3
      <4> QED
        BY <1>8, <2>1, <3>1, <4>1
    <3>4. CASE j > k
      <4>1. j - 1 \in 0..(n - 1) /\ At(t, j) = At(ws, j - 1) /\ i # j - 1
        BY <1>4, <1>5, <2>3, <3>4
      <4> QED
        BY <1>8, <2>2, <3>1, <4>1
    <3> QED
      BY <1>4, <3>2, <3>3, <3>4
  <2>4. CASE i = k
    <3>1. At(t, j) = wire
      BY <1>4, <1>5, <1>8, <2>4
    <3>2. ~(j < k) /\ ~(j > k)
      BY <1>4, <1>5, <2>1, <3>1
    <3> QED
      BY <1>4, <2>4, <3>2
  <2>5. CASE i > k
    <3>1. i - 1 \in 0..(n - 1) /\ At(t, i) = At(ws, i - 1)
      BY <1>4, <1>5, <2>5
    <3>2. CASE j < k
      <4>1. j \in 0..(n - 1) /\ At(t, j) = At(ws, j) /\ j # i - 1
        BY <1>4, <1>5, <2>5, <3>2
      <4> QED
        BY <1>8, <2>2, <3>1, <4>1
    <3>3. CASE j = k
      <4>1. At(t, j) = wire
        BY <1>4, <1>5, <3>3
      <4> QED
        BY <1>8, <2>1, <3>1, <4>1
    <3>4. CASE j > k
      <4>1. j - 1 \in 0..(n - 1) /\ At(t, j) = At(ws, j - 1)
        BY <1>4, <1>5, <3>4
      <4>2. i - 1 = j - 1
        BY <1>8, <2>2, <3>1, <4>1
      <4> QED
        BY <4>2
    <3> QED
      BY <1>4, <3>2, <3>3, <3>4
  <2> QED
    BY <1>4, <2>3, <2>4, <2>5
<1>9. Range(t) = Range(ws) \union {wire}
  <2>1. Range(t) = {At(t, i) : i \in 0..n} /\ Range(ws) = {At(ws, i) : i \in 0..(n - 1)}
    BY <1>3, <1>4, RangeIsHeld
  <2>2. ASSUME NEW i \in 0..n
        PROVE  At(t, i) \in {At(ws, a) : a \in 0..(n - 1)} \union {wire}
    BY <1>5
  <2>3. wire = At(t, k)
    BY <1>4, <1>5
  <2>4. ASSUME NEW a \in 0..(n - 1)
        PROVE  \E i \in 0..n : At(t, i) = At(ws, a)
    <3>1. CASE a < k
      <4>1. a \in 0..n
        BY <1>3
      <4>2. At(t, a) = At(ws, a)
        BY <1>4, <3>1, <4>1
      <4> QED
        BY <4>1, <4>2
    <3>2. CASE ~(a < k)
      <4>1. a + 1 \in 0..n /\ ~(a + 1 < k) /\ a + 1 # k /\ (a + 1) - 1 = a
        BY <1>3, <1>4, <3>2
      <4>2. At(t, a + 1) = At(ws, a)
        BY <1>4, <4>1
      <4> QED
        BY <4>1, <4>2
    <3> QED
      BY <3>1, <3>2
  <2> QED
    BY <1>4, <2>1, <2>2, <2>3, <2>4
<1> QED
  BY <1>1, <1>3, <1>4, <1>7, <1>8, <1>9 DEF Sorted, Distinct

-----------------------------------------------------------------------------
(***************************************************************************)
(* What the two look-ups find in an array that is sorted.                  *)
(***************************************************************************)
LEMMA MinIs ==
  ASSUME NEW S \in SUBSET Int, NEW m \in S, \A k \in S : m <= k
  PROVE  Min(S) = m
<1>1. \A x \in S : (\A y \in S : x <= y) => x = m
  <2>1. \A x \in S : x \in Int
    OBVIOUS
  <2> QED
    BY <2>1
<1> QED
  BY <1>1 DEF Min

LEMMA MaxIs ==
  ASSUME NEW S \in SUBSET Int, NEW m \in S, \A k \in S : m >= k
  PROVE  Max(S) = m
<1>1. \A x \in S : (\A y \in S : x >= y) => x = m
  <2>1. \A x \in S : x \in Int
    OBVIOUS
  <2> QED
    BY <2>1
<1> QED
  BY <1>1 DEF Max

Own(ws, socket) == {i \in 0..(Len(ws) - 1) : At(ws, i).socketFrom = socket}

(* The wires of a socket are next to each other.                           *)
LEMMA OwnIsConvex ==
  ASSUME NEW ws \in Seq(Edge), Sorted(ws), NEW socket \in Sockets,
         NEW i \in Own(ws, socket), NEW k \in Own(ws, socket), NEW j \in i..k
  PROVE  j \in Own(ws, socket)
<1>1. PICK n : n = Len(ws) /\ n \in Nat
  OBVIOUS
<1>2. /\ i \in 0..(n - 1) /\ k \in 0..(n - 1)
      /\ At(ws, i).socketFrom = socket /\ At(ws, k).socketFrom = socket
  BY <1>1 DEF Own
<1>3. j \in 0..(n - 1) /\ i <= j /\ j <= k
  BY <1>1, <1>2
<1>4. socket \in Socket /\ At(ws, j).socketFrom \in Socket
  BY <1>1, <1>3, Elements, SocketsAreSockets
<1>5. PICK s : s = At(ws, j).socketFrom
  OBVIOUS
<1>6. CmpSocket(socket, s) <= 0 /\ CmpSocket(s, socket) <= 0
  BY <1>1, <1>2, <1>3, <1>5 DEF Sorted
<1>7. /\ CmpSocket(socket, s) \in Int /\ CmpSocket(s, socket) \in Int
      /\ CmpSocket(s, socket) = 0 <=> s = socket
      /\ CmpSocket(socket, s) > 0 <=> CmpSocket(s, socket) < 0
  BY <1>4, <1>5, CmpSocketOrders
<1>8. s = socket
  BY <1>6, <1>7
<1> QED
  BY <1>1, <1>3, <1>5, <1>8 DEF Own

(* What d_wire_find_first compares with.                                   *)
Ahead(ws, socket) == [i \in 0..(Len(ws) - 1) |-> CmpSocket(socket, At(ws, i).socketFrom)]

LEMMA SearchFinds ==
  ASSUME NEW ws \in Seq(Edge), ws # <<>>, Sorted(ws), NEW socket \in Sockets
  PROVE  LET middle == BinarySearch(Len(ws), Ahead(ws, socket))
         IN  \/ middle \in Own(ws, socket)
             \/ middle \notin Own(ws, socket) /\ Own(ws, socket) = {}
<1>1. PICK n, cmp : n = Len(ws) /\ cmp = Ahead(ws, socket)
  OBVIOUS
<1>2. n \in Nat \ {0}
  BY <1>1
<1> DEFINE A == {i \in 0..(n - 1) : cmp[i] > 0}
           B == {i \in 0..(n - 1) : cmp[i] < 0}
<1>3. ASSUME NEW m \in 0..(n - 1)
      PROVE  /\ cmp[m] = CmpSocket(socket, At(ws, m).socketFrom)
             /\ cmp[m] \in Int
             /\ socket \in Socket /\ At(ws, m).socketFrom \in Socket
             /\ cmp[m] = 0 <=> m \in Own(ws, socket)
  <2>1. socket \in Socket /\ At(ws, m).socketFrom \in Socket
    BY <1>1, Elements, SocketsAreSockets
  <2>2. cmp[m] = CmpSocket(socket, At(ws, m).socketFrom)
    BY <1>1 DEF Ahead
  <2>3. cmp[m] \in Int /\ (cmp[m] = 0 <=> socket = At(ws, m).socketFrom)
    BY <2>1, <2>2, CmpSocketOrders
  <2> QED
    BY <1>1, <2>1, <2>2, <2>3 DEF Own
<1>4. ASSUME NEW i \in 0..(n - 1), NEW m \in 0..(n - 1), i <= m
      PROVE  (cmp[m] > 0 => cmp[i] > 0) /\ (cmp[i] < 0 => cmp[m] < 0)
  <2>1. PICK s, t : s = At(ws, i).socketFrom /\ t = At(ws, m).socketFrom
    OBVIOUS
  <2>2. socket \in Socket /\ s \in Socket /\ t \in Socket
    BY <1>3, <2>1
  <2>3. CmpSocket(s, t) <= 0
    BY <1>1, <1>4, <2>1 DEF Sorted
  <2>4. cmp[i] = CmpSocket(socket, s) /\ cmp[m] = CmpSocket(socket, t)
    BY <1>3, <2>1
  <2>5. CmpSocket(socket, s) \in Int /\ CmpSocket(socket, t) \in Int
    BY <1>3, <2>4
  <2>6. CmpSocket(socket, s) <= 0 => CmpSocket(socket, t) <= 0
    BY <2>2, <2>3, CmpSocketTransitive
  <2>7. CmpSocket(socket, t) = 0 => CmpSocket(socket, s) >= 0
    <3>1. CmpSocket(socket, t) = 0 => socket = t
      BY <2>2, CmpSocketOrders
    <3>2. CmpSocket(s, socket) \in Int
      BY <2>2, CmpSocketOrders
    <3>3. CmpSocket(s, socket) > 0 <=> CmpSocket(socket, s) < 0
      BY <2>2, CmpSocketOrders
    <3> QED
      BY <2>3, <2>5, <3>1, <3>2, <3>3
  <2> QED
    BY <2>4, <2>5, <2>6, <2>7
<1>5. Splits(n, cmp, A, B)
  <2>1. cmp \in [0..(n - 1) -> Int]
    <3>1. cmp = [i \in 0..(n - 1) |-> cmp[i]]
      BY <1>1 DEF Ahead
    <3> QED
      BY <1>3, <3>1
  <2>2. ASSUME NEW m \in 0..(n - 1), cmp[m] > 0, NEW i \in 0..m
        PROVE  i \in A
    <3>1. i \in 0..(n - 1) /\ i <= m
      BY <1>2
    <3> QED
      BY <1>4, <2>2, <3>1
  <2>3. ASSUME NEW m \in 0..(n - 1), cmp[m] < 0, NEW i \in m..(n - 1)
        PROVE  i \in B
    <3>1. i \in 0..(n - 1) /\ m <= i
      BY <1>2
    <3> QED
      BY <1>4, <2>3, <3>1
  <2> QED
    BY <2>1, <2>2, <2>3 DEF Splits
<1>6. PICK middle : middle = BinarySearch(n, cmp)
  OBVIOUS
<1>7. Ended(middle, n, cmp, A, B)
  BY <1>2, <1>5, <1>6, SearchEnds
<1>8. CASE cmp[middle] = 0
  BY <1>1, <1>3, <1>6, <1>7, <1>8 DEF Ended
<1>9. CASE cmp[middle] # 0
  <2>1. \A i \in 0..(n - 1) : i \in A \/ i \in B
    <3>1. middle \in 0..(n - 1)
      BY <1>7 DEF Ended
    <3>2. CASE 0..middle \subseteq A /\ (middle + 1)..(n - 1) \subseteq B
      <4>1. \A i \in 0..(n - 1) : i \in 0..middle \/ i \in (middle + 1)..(n - 1)
        BY <1>2, <3>1
      <4> QED
        BY <3>2, <4>1
    <3>3. CASE 0..(middle - 1) \subseteq A /\ middle..(n - 1) \subseteq B
      <4>1. \A i \in 0..(n - 1) : i \in 0..(middle - 1) \/ i \in middle..(n - 1)
        BY <1>2, <3>1
      <4> QED
        BY <3>3, <4>1
    <3> QED
      BY <1>7, <1>9, <3>2, <3>3 DEF Ended
  <2>2. \A i \in 0..(n - 1) : i \notin Own(ws, socket)
    <3>1. \A i \in 0..(n - 1) : cmp[i] # 0
      BY <1>3, <2>1
    <3> QED
      BY <1>3, <3>1
  <2>3. Own(ws, socket) = {}
    BY <1>1, <2>2 DEF Own
  <2> QED
    BY <1>1, <1>6, <2>3
<1> QED
  BY <1>8, <1>9

LEMMA LookUps ==
  ASSUME NEW ws \in Seq(Edge), Sorted(ws), NEW socket \in Sockets
  PROVE  /\ d_wire_find_first(ws, socket) =
              IF Own(ws, socket) = {} THEN -1 ELSE Min(Own(ws, socket))
         /\ d_socket_num_connections(ws, socket) = Cardinality(Own(ws, socket))
         /\ IsFiniteSet(Own(ws, socket))
<1>1. PICK n, own : n = Len(ws) /\ own = Own(ws, socket)
  OBVIOUS
<1>2. n \in Nat /\ own \in SUBSET (0..(n - 1)) /\ own \in SUBSET Nat
  BY <1>1 DEF Own
<1>3. \A i \in 0..(n - 1) : i \in own <=> At(ws, i).socketFrom = socket
  BY <1>1 DEF Own
<1>4. IsFiniteSet(own)
  <2>1. IsFiniteSet(0..(n - 1))
    <3>1. 0 \in Int /\ n - 1 \in Int
      BY <1>2
    <3> QED
      BY <3>1, FS_Interval
  <2> QED
    BY <1>2, <2>1, FS_Subset
<1>5. PICK first : first = d_wire_find_first(ws, socket)
  OBVIOUS
<1>6. CASE own = {}
  <2>1. first = -1
    <3>1. CASE ws = <<>>
      BY <1>5, <3>1 DEF d_wire_find_first
    <3>2. CASE ws # <<>>
      <4>1. PICK middle : middle = BinarySearch(Len(ws), Ahead(ws, socket))
        OBVIOUS
      <4>2. ~IS_WIRE_FROM(ws, middle, socket)
        BY <1>1, <1>3, <1>6 DEF IS_WIRE_FROM
      <4> QED
        BY <1>5, <3>2, <4>1, <4>2 DEF d_wire_find_first, Ahead
    <3> QED
      BY <3>1, <3>2
  <2>2. d_socket_num_connections(ws, socket) = 0
    BY <1>5, <2>1 DEF d_socket_num_connections
  <2>3. Cardinality(own) = 0
    BY <1>6, FS_EmptySet
  <2> QED
    BY <1>1, <1>4, <1>5, <1>6, <2>1, <2>2, <2>3
<1>7. CASE own # {}
  <2>1. PICK lo \in own : \A i \in own : lo <= i
    BY <1>2, <1>7, Least
  <2>2. lo \in 0..(n - 1) /\ lo \in Nat
    BY <1>2
  <2>3. Min(own) = lo
    <3>1. own \in SUBSET Int
      BY <1>2
    <3> QED
      BY <2>1, <3>1, MinIs
  <2>4. PICK middle : middle = BinarySearch(Len(ws), Ahead(ws, socket))
    OBVIOUS
  <2>5. ws # <<>>
    BY <1>1, <2>2
  <2>6. middle \in own
    BY <1>1, <1>7, <2>4, <2>5, SearchFinds
  <2>7. IS_WIRE_FROM(ws, middle, socket)
    BY <1>1, <1>2, <1>3, <2>6 DEF IS_WIRE_FROM
  <2>8. first = FirstOf(ws, middle, socket)
    BY <1>5, <2>4, <2>5, <2>7 DEF d_wire_find_first, Ahead
  <2>9. first = lo
    <3> DEFINE X == {-1} \union {i \in 0..middle : At(ws, i).socketFrom # socket}
    <3>1. middle \in 0..(n - 1) /\ lo <= middle
      BY <1>2, <2>1, <2>6
    <3>2. X \in SUBSET Int
      BY <3>1
    <3>3. lo - 1 \in X
      <4>1. CASE lo = 0
        BY <4>1
      <4>2. CASE lo # 0
        <5>1. lo - 1 \in 0..middle /\ lo - 1 \in 0..(n - 1) /\ ~(lo <= lo - 1)
          BY <1>2, <2>2, <3>1, <4>2
        <5>2. lo - 1 \notin own
          BY <2>1, <5>1
        <5> QED
          BY <1>3, <5>1, <5>2
      <4> QED
        BY <4>1, <4>2
    <3>4. ASSUME NEW x \in X
          PROVE  lo - 1 >= x
      <4>1. CASE x = -1
        BY <2>2, <4>1
      <4>2. CASE x \in 0..middle /\ At(ws, x).socketFrom # socket
        <5>1. x \in 0..(n - 1)
          BY <1>2, <3>1, <4>2
        <5>2. x \notin own
          BY <1>3, <4>2, <5>1
        <5>3. ~(x \in lo..middle)
          BY <1>1, <2>6, <5>2, OwnIsConvex
        <5> QED
          BY <2>2, <3>1, <4>2, <5>3
      <4> QED
        BY <4>1, <4>2
    <3> HIDE DEF X
    <3>5. Max(X) = lo - 1
      BY <3>2, <3>3, <3>4, MaxIs
    <3>6. first = Max(X) + 1
      BY <2>8 DEF FirstOf, X
    <3> QED
      BY <2>2, <3>5, <3>6
  <2>10. d_socket_num_connections(ws, socket) = Cardinality(own)
    <3> DEFINE Y == {i \in lo..Len(ws) : ~IS_WIRE_FROM(ws, i, socket)}
    <3>1. \A i \in lo..n : i \in Y <=> i \notin own
      BY <1>1, <1>2, <1>3, <2>2 DEF IS_WIRE_FROM
    <3>2. Y \in SUBSET Nat /\ Y \subseteq lo..n
      BY <1>1, <1>2, <2>2
    <3>3. n \in Y
      BY <1>2, <2>2, <3>1
    <3> HIDE DEF Y
    <3>4. PICK h \in Y : \A i \in Y : h <= i
      BY <3>2, <3>3, Least
    <3>5. h \in lo..n /\ h \in Nat /\ h \notin own /\ Y \in SUBSET Int
      BY <3>1, <3>2
    <3>6. Min(Y) = h
      BY <3>4, <3>5, MinIs
    <3>7. own = lo..(h - 1)
      <4>1. ASSUME NEW i \in own
            PROVE  i \in lo..(h - 1)
        <5>1. lo <= i /\ i \in 0..(n - 1)
          BY <1>2, <2>1
        <5>2. ~(h \in lo..i)
          BY <1>1, <3>5, OwnIsConvex
        <5> QED
          BY <2>2, <3>5, <5>1, <5>2
      <4>2. ASSUME NEW i \in lo..(h - 1)
            PROVE  i \in own
        <5>1. i \in lo..n /\ ~(h <= i)
          BY <1>2, <2>2, <3>5
        <5> QED
          BY <3>1, <3>4, <5>1
      <4> QED
        BY <4>1, <4>2
    <3>8. Cardinality(own) = h - lo
      <4>1. lo \in Int /\ h - 1 \in Int
        BY <2>2, <3>5
      <4>2. Cardinality(lo..(h - 1)) = IF lo > h - 1 THEN 0 ELSE (h - 1) - lo + 1
        BY <4>1, FS_Interval
      <4> QED
        BY <2>2, <3>5, <3>7, <4>2
    <3>9. d_socket_num_connections(ws, socket) = Min(Y) - first
      <4>1. ~(first < 0)
        BY <2>2, <2>9
      <4> QED
        BY <1>5, <2>9, <4>1 DEF d_socket_num_connections, Y
    <3> QED
      BY <2>9, <3>6, <3>8, <3>9
  <2> QED
    BY <1>1, <1>4, <1>5, <1>7, <2>3, <2>9, <2>10
<1> QED
  BY <1>6, <1>7

-----------------------------------------------------------------------------
(***************************************************************************)
(* The wires of a socket are as many as the pairs it has been matched in.  *)
(***************************************************************************)
Pairs == Range(Inputs) \X Range(Outputs)

With(C, socket) == {c \in C : socket \in {c[1], c[2]}}

IsWireOf(w, c) == w = Wire(c[1], c[2]) \/ w = Wire(c[2], c[1])

LEMMA PairsAreOfSockets ==
  ASSUME NEW c \in Pairs
  PROVE  /\ c = <<c[1], c[2]>>
         /\ c[1] \in Range(Inputs) /\ c[2] \in Range(Outputs)
         /\ c[1] \notin Range(Outputs) /\ c[2] \notin Range(Inputs)
         /\ c[1] \in Sockets /\ c[2] \in Sockets /\ c[1] # c[2]
         /\ Wire(c[1], c[2]) \in Edge /\ Wire(c[2], c[1]) \in Edge
<1>1. c = <<c[1], c[2]>> /\ c[1] \in Range(Inputs) /\ c[2] \in Range(Outputs)
  BY DEF Pairs
<1>2. /\ c[1] \notin Range(Outputs) /\ c[2] \notin Range(Inputs)
      /\ c[1] \in Sockets /\ c[2] \in Sockets /\ c[1] # c[2]
  BY <1>1, SocketsAssumption DEF Sockets
<1>3. Wire(c[1], c[2]) \in Edge /\ Wire(c[2], c[1]) \in Edge
  BY <1>2 DEF Wire, Edge
<1> QED
  BY <1>1, <1>2, <1>3

LEMMA CountsMatch ==
  ASSUME NEW ws \in Seq(Edge), Distinct(ws),
         NEW C \in SUBSET Pairs, NEW socket \in Sockets, IsFiniteSet(Own(ws, socket)),
         \A w \in Edge : w.socketFrom = socket => (w \in Range(ws) <=> \E c \in C : IsWireOf(w, c))
  PROVE  Cardinality(Own(ws, socket)) = Cardinality(With(C, socket))
<1>1. PICK own, pairs : own = Own(ws, socket) /\ pairs = With(C, socket)
  OBVIOUS
<1> DEFINE Pair(to) == IF socket \in Range(Inputs) THEN <<socket, to>> ELSE <<to, socket>>
           f == [i \in own |-> Pair(At(ws, i).socketTo)]
<1>2. ASSUME NEW i \in own
      PROVE  i \in 0..(Len(ws) - 1) /\ At(ws, i) \in Edge /\ At(ws, i) = Wire(socket, At(ws, i).socketTo)
  <2>1. i \in 0..(Len(ws) - 1) /\ At(ws, i).socketFrom = socket
    BY <1>1 DEF Own
  <2>2. At(ws, i) \in Edge
    BY <2>1, Elements
  <2> QED
    BY <2>1, <2>2 DEF Edge, Wire
<1>3. ASSUME NEW c \in C
      PROVE  /\ socket = c[1] => Pair(c[2]) = c
             /\ socket = c[2] => Pair(c[1]) = c
  <2>1. /\ c = <<c[1], c[2]>> /\ c[1] \in Range(Inputs) /\ c[2] \notin Range(Inputs)
    BY PairsAreOfSockets
  <2> QED
    BY <2>1
<1>4. ASSUME NEW i \in own
      PROVE  f[i] \in pairs
  <2>1. PICK w : w = At(ws, i)
    OBVIOUS
  <2>2. w \in Edge /\ w = Wire(socket, w.socketTo) /\ w.socketFrom = socket /\ w \in Range(ws)
    BY <1>2, <2>1, RangeIsHeld DEF Wire
  <2>3. PICK c \in C : IsWireOf(w, c)
    BY <2>2
  <2>4. \/ socket = c[1] /\ w.socketTo = c[2]
        \/ socket = c[2] /\ w.socketTo = c[1]
    BY <2>2, <2>3 DEF IsWireOf, Wire
  <2>5. Pair(w.socketTo) = c
    BY <1>3, <2>4
  <2>6. c \in pairs
    BY <1>1, <2>4 DEF With
  <2> QED
    BY <2>1, <2>5, <2>6
<1>5. ASSUME NEW i \in own, NEW j \in own, f[i] = f[j]
      PROVE  i = j
  <2>1. PICK t, u : t = At(ws, i).socketTo /\ u = At(ws, j).socketTo
    OBVIOUS
  <2>2. Pair(t) = Pair(u)
    BY <1>5, <2>1
  <2>3. t = u
    BY <2>2
  <2>4. At(ws, i) = At(ws, j)
    BY <1>2, <2>1, <2>3
  <2> QED
    BY <1>2, <2>4 DEF Distinct
<1>6. ASSUME NEW c \in pairs
      PROVE  \E i \in own : f[i] = c
  <2>1. c \in C /\ (socket = c[1] \/ socket = c[2])
    BY <1>1 DEF With
  <2>2. PICK to : to = IF socket = c[1] THEN c[2] ELSE c[1]
    OBVIOUS
  <2>3. IsWireOf(Wire(socket, to), c) /\ Wire(socket, to) \in Edge /\ Wire(socket, to).socketFrom = socket
    BY <2>1, <2>2, PairsAreOfSockets DEF IsWireOf, Wire
  <2>4. Wire(socket, to) \in Range(ws)
    BY <2>1, <2>3
  <2>5. PICK i \in 0..(Len(ws) - 1) : At(ws, i) = Wire(socket, to)
    BY <2>4, RangeIsHeld
  <2>6. i \in own /\ At(ws, i).socketTo = to
    BY <1>1, <2>5 DEF Own, Wire
  <2>7. Pair(to) = c
    BY <1>3, <2>1, <2>2
  <2> QED
    BY <2>6, <2>7
<1>7. f \in Bijection(own, pairs)
  <2> HIDE DEF Pair
  <2>1. f \in [own -> pairs]
    BY <1>4
  <2> QED
    BY <1>5, <1>6, <2>1 DEF Bijection, Injection, Surjection, IsInjective
<1>8. ExistsBijection(own, pairs)
  BY <1>7 DEF ExistsBijection
<1> QED
  BY <1>1, <1>8, FS_Bijection

-----------------------------------------------------------------------------
(***************************************************************************)
(* The pairs that have been compared.                                      *)
(***************************************************************************)
LEMMA ThePair ==
  ASSUME unknown \in 1..(Len(Inputs) + 1), known \in 1..(Len(Outputs) + 1),
         Pending, known <= Len(Outputs)
  PROVE  /\ unknown \in DOMAIN Inputs /\ known \in DOMAIN Outputs
         /\ <<Inputs[unknown], Outputs[known]>> \in Pairs
         /\ <<Inputs[unknown], Outputs[known]>> \notin Compared
<1>1. unknown \in DOMAIN Inputs /\ known \in DOMAIN Outputs
  BY SocketsAreListed DEF Pending
<1>2. <<Inputs[unknown], Outputs[known]>> \in Pairs
  BY <1>1 DEF Pairs, Range
<1>3. ASSUME NEW i \in DOMAIN Inputs, NEW j \in DOMAIN Outputs, Before(i, j),
             <<Inputs[unknown], Outputs[known]>> = <<Inputs[i], Outputs[j]>>
      PROVE  FALSE
  <2>1. i = unknown /\ j = known
    BY <1>1, <1>3, SocketsAssumption DEF IsInjective
  <2> QED
    BY <1>3, <2>1 DEF Before
<1> QED
  BY <1>1, <1>2, <1>3 DEF Compared

LEMMA ComparedGrows ==
  ASSUME unknown \in 1..(Len(Inputs) + 1), known \in 1..(Len(Outputs) + 1),
         Pending, known <= Len(Outputs),
         unknown' = unknown, known' = known + 1, lineOf' = lineOf
  PROVE  Compared' = IF Match(Inputs[unknown], Outputs[known])
                     THEN Compared \union {<<Inputs[unknown], Outputs[known]>>} ELSE Compared
<1>1. PICK pair : pair = <<Inputs[unknown], Outputs[known]>>
  OBVIOUS
<1>2. unknown \in DOMAIN Inputs /\ known \in DOMAIN Outputs /\ pair \in Pairs
  BY <1>1, ThePair
<1>3. ASSUME NEW i \in DOMAIN Inputs, NEW j \in DOMAIN Outputs
      PROVE  Before(i, j)' <=> Before(i, j) \/ (i = unknown /\ j = known)
  <2>1. i \in Nat /\ j \in Nat
    BY SocketsAreListed
  <2> QED
    BY <2>1 DEF Before
<1>4. ASSUME NEW c
      PROVE  Match(c[1], c[2])' <=> Match(c[1], c[2])
  BY DEF Match
<1>5. pair[1] = Inputs[unknown] /\ pair[2] = Outputs[known]
  BY <1>1
<1>6. ASSUME NEW c \in Pairs
      PROVE  c \in Compared' <=> c \in Compared \/ (c = pair /\ Match(Inputs[unknown], Outputs[known]))
  <2>1. c \in Compared' <=> /\ Match(c[1], c[2])'
                            /\ \E i \in DOMAIN Inputs, j \in DOMAIN Outputs :
                                 Before(i, j)' /\ c = <<Inputs[i], Outputs[j]>>
    BY DEF Compared, Pairs
  <2>2. c \in Compared <=> /\ Match(c[1], c[2])
                           /\ \E i \in DOMAIN Inputs, j \in DOMAIN Outputs :
                                Before(i, j) /\ c = <<Inputs[i], Outputs[j]>>
    BY DEF Compared, Pairs
  <2>3. c = pair => (Match(c[1], c[2]) <=> Match(Inputs[unknown], Outputs[known]))
    BY <1>5
  <2> HIDE DEF Match, Before
  <2>4. (\E i \in DOMAIN Inputs, j \in DOMAIN Outputs : Before(i, j)' /\ c = <<Inputs[i], Outputs[j]>>)
          <=> \/ c = pair
              \/ \E i \in DOMAIN Inputs, j \in DOMAIN Outputs : Before(i, j) /\ c = <<Inputs[i], Outputs[j]>>
    BY <1>1, <1>2, <1>3
  <2> QED
    BY <1>4, <2>1, <2>2, <2>3, <2>4
<1>7. Compared \subseteq Pairs /\ Compared' \subseteq Pairs
  BY DEF Compared, Pairs
<1> QED
  BY <1>1, <1>2, <1>6, <1>7

LEMMA ComparedStays ==
  ASSUME unknown \in 1..(Len(Inputs) + 1), known = Len(Outputs) + 1, Pending,
         unknown' = unknown + 1, known' = 1, lineOf' = lineOf
  PROVE  Compared' = Compared
<1>1. ASSUME NEW i \in DOMAIN Inputs, NEW j \in DOMAIN Outputs
      PROVE  Before(i, j)' <=> Before(i, j)
  <2>1. i \in Nat /\ j \in 1..Len(Outputs) /\ Len(Outputs) \in Nat
    BY SocketsAreListed
  <2> QED
    BY <2>1 DEF Before
<1>2. ASSUME NEW c
      PROVE  Match(c[1], c[2])' <=> Match(c[1], c[2])
  BY DEF Match
<1> QED
  BY <1>1, <1>2 DEF Compared

-----------------------------------------------------------------------------
(***************************************************************************)
(* d_graph_add_wire.                                                       *)
(***************************************************************************)
Wired(ws, C) ==
  /\ Len(ws) = 2 * Cardinality(C)
  /\ \A w \in Edge : w \in Range(ws) <=> \E c \in C : IsWireOf(w, c)

LEMMA WiredIs ==
  ASSUME NEW ws \in Seq(Edge), NEW C \in SUBSET Pairs
  PROVE  Wired(ws, C) <=>
           /\ Len(ws) = 2 * Cardinality(C)
           /\ Range(ws) = UNION {{Wire(c[1], c[2]), Wire(c[2], c[1])} : c \in C}
<1> DEFINE U == UNION {{Wire(c[1], c[2]), Wire(c[2], c[1])} : c \in C}
<1>1. ASSUME NEW w
      PROVE  w \in U <=> \E c \in C : IsWireOf(w, c)
  BY DEF IsWireOf
<1>2. \A w \in U : w \in Edge
  BY <1>1, PairsAreOfSockets DEF IsWireOf
<1>3. \A w \in Range(ws) : w \in Edge
  BY RangeIsHeld, Elements
<1> HIDE DEF U
<1>4. Range(ws) = U <=> \A w \in Edge : w \in Range(ws) <=> w \in U
  BY <1>2, <1>3
<1> QED
  BY <1>1, <1>4 DEF Wired, U

LEMMA WireAdded ==
  ASSUME NEW ws \in Seq(Edge), Sorted(ws), Distinct(ws),
         NEW C \in SUBSET Pairs, IsFiniteSet(C), Wired(ws, C),
         NEW pair \in Pairs, pair \notin C,
         NEW input, NEW output, pair = <<input, output>>,
         NEW one, one = Inserted(ws, Wire(output, input)),
         NEW both, both = Inserted(one, Wire(input, output))
  PROVE  /\ both \in Seq(Edge) /\ Sorted(both) /\ Distinct(both)
         /\ Wired(both, C \union {pair})
         /\ d_socket_num_connections(one, output) = Cardinality(With(C \union {pair}, output))
         /\ d_socket_num_connections(both, input) = Cardinality(With(C \union {pair}, input))
<1>1. PICK there, back : there = Wire(output, input) /\ back = Wire(input, output)
  OBVIOUS
<1>2. /\ input \in Range(Inputs) /\ output \in Range(Outputs)
      /\ input \in Sockets /\ output \in Sockets /\ input # output
      /\ there \in Edge /\ back \in Edge /\ pair[1] = input /\ pair[2] = output
  BY <1>1, PairsAreOfSockets
<1>3. ASSUME NEW c \in Pairs, IsWireOf(there, c) \/ IsWireOf(back, c)
      PROVE  c = pair
  <2>1. /\ c = <<c[1], c[2]>> /\ c[1] \in Range(Inputs) /\ c[2] \in Range(Outputs)
        /\ c[1] \notin Range(Outputs) /\ c[2] \notin Range(Inputs)
    BY PairsAreOfSockets
  <2>2. \/ c[1] = input /\ c[2] = output
        \/ c[1] = output /\ c[2] = input
    BY <1>1, <1>3 DEF IsWireOf, Wire
  <2>3. c[1] = input /\ c[2] = output
    BY <1>2, <2>1, <2>2
  <2> QED
    BY <2>1, <2>3
<1>4. there \notin Range(ws) /\ back \notin Range(ws) /\ there # back
  <2>1. there # back
    BY <1>1, <1>2 DEF Wire
  <2>2. there \notin Range(ws)
    BY <1>2, <1>3 DEF Wired
  <2>3. back \notin Range(ws)
    BY <1>2, <1>3 DEF Wired
  <2> QED
    BY <2>1, <2>2, <2>3
<1>5. /\ one \in Seq(Edge) /\ Len(one) = Len(ws) + 1
      /\ Sorted(one) /\ Distinct(one) /\ Range(one) = Range(ws) \union {there}
  BY <1>1, <1>2, <1>4, InsertedKeeps
<1>6. /\ both \in Seq(Edge) /\ Len(both) = Len(one) + 1
      /\ Sorted(both) /\ Distinct(both) /\ Range(both) = Range(one) \union {back}
  <2>1. back \notin Range(one)
    BY <1>4, <1>5
  <2> QED
    BY <1>1, <1>2, <1>5, <2>1, InsertedKeeps
<1>7. ASSUME NEW w
      PROVE  IsWireOf(w, pair) <=> w = there \/ w = back
  BY <1>1, <1>2 DEF IsWireOf
<1>8. PICK D : D = C \union {pair}
  OBVIOUS
<1>9. D \in SUBSET Pairs /\ IsFiniteSet(D) /\ Cardinality(D) = Cardinality(C) + 1
  BY <1>8, FS_AddElement
<1>10. ASSUME NEW w \in Edge
       PROVE  (\E c \in D : IsWireOf(w, c)) <=> w \in Range(ws) \/ w = there \/ w = back
  <2>1. (\E c \in D : IsWireOf(w, c)) <=> (\E c \in C : IsWireOf(w, c)) \/ IsWireOf(w, pair)
    BY <1>8
  <2>2. w \in Range(ws) <=> \E c \in C : IsWireOf(w, c)
    BY DEF Wired
  <2> QED
    BY <1>7, <2>1, <2>2
<1>11. Wired(both, D)
  <2>1. Len(both) = 2 * Cardinality(D)
    <3>1. PICK l, m : l = Len(ws) /\ m = Cardinality(C)
      OBVIOUS
    <3>2. l \in Nat /\ m \in Nat /\ l = 2 * m
      BY <3>1, FS_CardinalityType DEF Wired
    <3>3. Len(both) = (l + 1) + 1 /\ Cardinality(D) = m + 1
      BY <1>5, <1>6, <1>9, <3>1
    <3> QED
      BY <3>2, <3>3
  <2>2. \A w \in Edge : w \in Range(both) <=> \E c \in D : IsWireOf(w, c)
    BY <1>5, <1>6, <1>10
  <2> QED
    BY <2>1, <2>2 DEF Wired
<1>12. d_socket_num_connections(one, output) = Cardinality(With(D, output))
  <2>1. d_socket_num_connections(one, output) = Cardinality(Own(one, output)) /\ IsFiniteSet(Own(one, output))
    BY <1>2, <1>5, LookUps
  <2>2. back.socketFrom # output
    BY <1>1, <1>2 DEF Wire
  <2>3. \A w \in Edge : w.socketFrom = output => (w \in Range(one) <=> \E c \in D : IsWireOf(w, c))
    BY <1>5, <1>10, <2>2
  <2>4. Cardinality(Own(one, output)) = Cardinality(With(D, output))
    BY <1>2, <1>5, <1>9, <2>1, <2>3, CountsMatch
  <2> QED
    BY <2>1, <2>4
<1>13. d_socket_num_connections(both, input) = Cardinality(With(D, input))
  <2>1. d_socket_num_connections(both, input) = Cardinality(Own(both, input)) /\ IsFiniteSet(Own(both, input))
    BY <1>2, <1>6, LookUps
  <2>2. \A w \in Edge : w.socketFrom = input => (w \in Range(both) <=> \E c \in D : IsWireOf(w, c))
    BY <1>11 DEF Wired
  <2>3. Cardinality(Own(both, input)) = Cardinality(With(D, input))
    BY <1>2, <1>6, <1>9, <2>1, <2>2, CountsMatch
  <2> QED
    BY <2>1, <2>3
<1> QED
  BY <1>6, <1>8, <1>11, <1>12, <1>13

(* One more pair for its two sockets, and none for the others.             *)
LEMMA WithGrows ==
  ASSUME NEW C, IsFiniteSet(C), NEW pair \in Pairs, pair \notin C, NEW socket
  PROVE  /\ Cardinality(With(C, socket)) \in Nat
         /\ Cardinality(With(C \union {pair}, socket)) =
              Cardinality(With(C, socket)) + IF socket \in {pair[1], pair[2]} THEN 1 ELSE 0
<1>1. PICK W : W = With(C, socket)
  OBVIOUS
<1>2. IsFiniteSet(W) /\ Cardinality(W) \in Nat
  <2>1. W \in SUBSET C
    BY <1>1 DEF With
  <2> QED
    BY <2>1, FS_Subset, FS_CardinalityType
<1>3. CASE socket \in {pair[1], pair[2]}
  <2>1. With(C \union {pair}, socket) = W \union {pair} /\ pair \notin W
    BY <1>1, <1>3 DEF With
  <2>2. Cardinality(W \union {pair}) = Cardinality(W) + 1
    BY <1>2, <2>1, FS_AddElement
  <2> QED
    BY <1>1, <1>2, <1>3, <2>1, <2>2
<1>4. CASE socket \notin {pair[1], pair[2]}
  <2>1. With(C \union {pair}, socket) = W
    BY <1>1, <1>4 DEF With
  <2> QED
    BY <1>1, <1>2, <1>4, <2>1
<1> QED
  BY <1>3, <1>4

-----------------------------------------------------------------------------
(***************************************************************************)
(* The inductive invariant: what the runs check, and that the array is     *)
(* sorted and has no wire twice.                                           *)
(***************************************************************************)
GInv ==
  /\ TypeOK
  /\ Sorted(wires)
  /\ Distinct(wires)
  /\ IsFiniteSet(Compared)
  /\ WiredBothWays
  /\ AmbiguityReported

LEMMA NothingYet ==
  ASSUME Init
  PROVE  GInv
<1>1. TypeOK
  BY SocketsAreListed DEF Init, TypeOK
<1>2. Sorted(wires) /\ Distinct(wires)
  BY DEF Init, Sorted, Distinct
<1>3. Compared = {}
  <2>1. ASSUME NEW i \in DOMAIN Inputs, NEW j \in DOMAIN Outputs
        PROVE  ~Before(i, j)
    <3>1. i \in Nat \ {0} /\ j \in Nat \ {0}
      BY SocketsAreListed
    <3> QED
      BY <3>1 DEF Init, Before
  <2> QED
    BY <2>1 DEF Compared
<1>4. IsFiniteSet({}) /\ Cardinality({}) = 0
  BY FS_EmptySet
<1>5. WiredBothWays
  <2>1. wires = <<>> /\ Range(wires) = {}
    BY DEF Init, Range
  <2>2. UNION {{Wire(c[1], c[2]), Wire(c[2], c[1])} : c \in {}} = {}
    OBVIOUS
  <2> QED
    BY <1>3, <1>4, <2>1, <2>2 DEF WiredBothWays
<1>6. AmbiguityReported
  <2>1. ASSUME NEW socket
        PROVE  ~(Cardinality({c \in Compared : socket \in {c[1], c[2]}}) > 1)
    <3>1. {c \in Compared : socket \in {c[1], c[2]}} = {}
      BY <1>3
    <3> QED
      BY <1>4, <3>1
  <2> QED
    BY <2>1 DEF Init, AmbiguityReported
<1> QED
  BY <1>1, <1>2, <1>3, <1>4, <1>5, <1>6 DEF GInv

Reported(socket) == <<"too many connections", socket>> \in errors

LEMMA OnlyOneIs ==
  ASSUME NEW socket
  PROVE  OnlyOne(socket) <=> IF d_is_input_socket(socket) THEN ~IsExecution(socket)
                                                          ELSE IsExecution(socket)
<1>1. d_is_input_socket(socket) \in BOOLEAN /\ IsExecution(socket) \in BOOLEAN
  BY DEF d_is_input_socket, IsExecution
<1> QED
  BY <1>1 DEF OnlyOne

LEMMA CompareKeeps ==
  ASSUME GInv, Compare
  PROVE  GInv'
<1>1. PICK input, output, pair : /\ input = Inputs[unknown] /\ output = Outputs[known]
                                 /\ pair = <<input, output>>
  OBVIOUS
<1>2. /\ TypeOK /\ Sorted(wires) /\ Distinct(wires) /\ IsFiniteSet(Compared)
      /\ WiredBothWays /\ AmbiguityReported
  BY DEF GInv
<1>3. /\ Pending /\ known <= Len(Outputs)
      /\ IF Match(input, output) THEN d_graph_add_wire(output, input)
                                 ELSE UNCHANGED <<wires, errors>>
      /\ known' = known + 1 /\ lineOf' = lineOf /\ unknown' = unknown
  BY <1>1 DEF Compare
<1>4. /\ unknown \in 1..(Len(Inputs) + 1) /\ known \in 1..(Len(Outputs) + 1)
      /\ wires \in Seq(Edge) /\ lineOf \in [Sockets -> Lines \union {NoLine}]
  BY <1>2 DEF TypeOK, Edge
<1>5. pair \in Pairs /\ pair \notin Compared /\ Compared \in SUBSET Pairs
  <2>1. pair \in Pairs /\ pair \notin Compared
    BY <1>1, <1>3, <1>4, ThePair
  <2>2. Compared \in SUBSET Pairs
    BY DEF Compared, Pairs
  <2> QED
    BY <2>1, <2>2
<1>6. Compared' = IF Match(input, output) THEN Compared \union {pair} ELSE Compared
  BY <1>1, <1>3, <1>4, ComparedGrows
<1>7. known' \in 1..(Len(Outputs) + 1)
  <2>1. Len(Outputs) \in Nat
    BY SocketsAreListed
  <2> QED
    BY <1>3, <1>4, <2>1
<1>8. CASE ~Match(input, output)
  <2>1. wires' = wires /\ errors' = errors /\ Compared' = Compared
    BY <1>3, <1>6, <1>8
  <2>2. TypeOK'
    BY <1>3, <1>4, <1>7, <2>1 DEF TypeOK, Edge
  <2>3. Sorted(wires)' /\ Distinct(wires)' /\ IsFiniteSet(Compared)'
    BY <1>2, <2>1 DEF Sorted, Distinct
  <2>4. WiredBothWays' /\ AmbiguityReported'
    BY <1>2, <2>1 DEF WiredBothWays, AmbiguityReported
  <2> QED
    BY <2>2, <2>3, <2>4 DEF GInv
<1>9. CASE Match(input, output)
  <2>1. PICK C, D : C = Compared /\ D = C \union {pair}
    OBVIOUS
  <2>2. /\ Compared' = D /\ C \in SUBSET Pairs /\ D \in SUBSET Pairs
        /\ IsFiniteSet(C) /\ IsFiniteSet(D)
    BY <1>2, <1>5, <1>6, <1>9, <2>1, FS_AddElement
  <2>3. PICK one, both : /\ one = Inserted(wires, Wire(output, input))
                         /\ both = Inserted(one, Wire(input, output))
    OBVIOUS
  <2>4. /\ wires' = both
        /\ errors' = errors \union TooMany(one, output) \union TooMany(both, input)
                            \union Mismatch(output, input)
    BY <1>3, <1>9, <2>3 DEF d_graph_add_wire
  <2>5. Wired(wires, C)
    BY <1>2, <1>4, <2>1, <2>2, WiredIs DEF WiredBothWays
  <2>6. /\ both \in Seq(Edge) /\ Sorted(both) /\ Distinct(both) /\ Wired(both, D)
        /\ d_socket_num_connections(one, output) = Cardinality(With(D, output))
        /\ d_socket_num_connections(both, input) = Cardinality(With(D, input))
    <3>1. /\ wires \in Seq(Edge) /\ Sorted(wires) /\ Distinct(wires)
          /\ C \in SUBSET Pairs /\ IsFiniteSet(C) /\ Wired(wires, C)
          /\ pair \in Pairs /\ pair \notin C /\ pair = <<input, output>>
      BY <1>1, <1>2, <1>4, <1>5, <2>1, <2>2, <2>5
    <3>2. /\ both \in Seq(Edge) /\ Sorted(both) /\ Distinct(both)
          /\ Wired(both, C \union {pair})
          /\ d_socket_num_connections(one, output) = Cardinality(With(C \union {pair}, output))
          /\ d_socket_num_connections(both, input) = Cardinality(With(C \union {pair}, input))
      BY <2>3, <3>1, WireAdded
    <3> QED
      BY <2>1, <3>2
  <2>7. TypeOK'
    BY <1>3, <1>4, <1>7, <2>4, <2>6 DEF TypeOK, Edge
  <2>8. Sorted(wires)' /\ Distinct(wires)' /\ IsFiniteSet(Compared)'
    BY <2>2, <2>4, <2>6 DEF Sorted, Distinct
  <2>9. WiredBothWays'
    <3>1. Len(both) = 2 * Cardinality(D)
          /\ Range(both) = UNION {{Wire(c[1], c[2]), Wire(c[2], c[1])} : c \in D}
      BY <2>2, <2>6, WiredIs
    <3> QED
      BY <2>2, <2>4, <3>1 DEF WiredBothWays
  <2>10. ASSUME NEW socket \in Sockets
         PROVE  Reported(socket)' <=> OnlyOne(socket) /\ Cardinality(With(D, socket)) > 1
    <3>1. Reported(socket) <=> OnlyOne(socket) /\ Cardinality(With(C, socket)) > 1
      BY <1>2, <2>1, OnlyOneIs DEF AmbiguityReported, Reported, With
    <3>2. /\ Cardinality(With(C, socket)) \in Nat
          /\ Cardinality(With(D, socket)) =
               Cardinality(With(C, socket)) + IF socket \in {input, output} THEN 1 ELSE 0
      BY <1>1, <1>5, <2>1, <2>2, WithGrows
    <3>3. <<"too many connections", socket>> \notin Mismatch(output, input)
      BY DEF Mismatch
    <3>4. <<"too many connections", socket>> \in TooMany(one, output)
            <=> socket = output /\ OnlyOne(output) /\ Cardinality(With(D, output)) > 1
      BY <2>6 DEF TooMany
    <3>5. <<"too many connections", socket>> \in TooMany(both, input)
            <=> socket = input /\ OnlyOne(input) /\ Cardinality(With(D, input)) > 1
      BY <2>6 DEF TooMany
    <3>6. Reported(socket)' <=>
            \/ Reported(socket)
            \/ socket = output /\ OnlyOne(output) /\ Cardinality(With(D, output)) > 1
            \/ socket = input /\ OnlyOne(input) /\ Cardinality(With(D, input)) > 1
      BY <2>4, <3>3, <3>4, <3>5 DEF Reported
    <3>7. Cardinality(With(C, socket)) > 1 => Cardinality(With(D, socket)) > 1
      BY <3>2
    <3>8. CASE socket \in {input, output}
      BY <3>1, <3>6, <3>7, <3>8
    <3>9. CASE socket \notin {input, output}
      <4>1. Cardinality(With(D, socket)) = Cardinality(With(C, socket))
        BY <3>2, <3>9
      <4> QED
        BY <3>1, <3>6, <3>9, <4>1
    <3> QED
      BY <3>8, <3>9
  <2>11. AmbiguityReported'
    <3>1. AmbiguityReported' <=>
            \A socket \in Sockets :
              Reported(socket)' <=> OnlyOne(socket) /\ Cardinality(With(Compared', socket)) > 1
      BY OnlyOneIs DEF AmbiguityReported, Reported, With
    <3> QED
      BY <2>2, <2>10, <3>1
  <2> QED
    BY <2>7, <2>8, <2>9, <2>11 DEF GInv
<1> QED
  BY <1>8, <1>9

LEMMA NextUnknownKeeps ==
  ASSUME GInv, NextUnknown
  PROVE  GInv'
<1>1. /\ TypeOK /\ Sorted(wires) /\ Distinct(wires) /\ IsFiniteSet(Compared)
      /\ WiredBothWays /\ AmbiguityReported
  BY DEF GInv
<1>2. /\ Pending /\ known > Len(Outputs)
      /\ unknown' = unknown + 1 /\ known' = 1 /\ lineOf' = lineOf /\ wires' = wires
  BY DEF NextUnknown
<1>3. Len(Inputs) \in Nat /\ Len(Outputs) \in Nat
  BY SocketsAreListed
<1>4. unknown \in 1..(Len(Inputs) + 1) /\ known \in 1..(Len(Outputs) + 1)
  BY <1>1 DEF TypeOK
<1>5. Compared' = Compared
  <2>1. known = Len(Outputs) + 1
    BY <1>2, <1>3, <1>4
  <2> QED
    BY <1>2, <1>4, <2>1, ComparedStays
<1>6. TypeOK'
  <2>1. unknown' \in 1..(Len(Inputs) + 1) /\ known' \in 1..(Len(Outputs) + 1)
    BY <1>2, <1>3, <1>4 DEF Pending
  <2> QED
    BY <1>1, <1>2, <2>1 DEF TypeOK
<1>7. Sorted(wires)' /\ Distinct(wires)' /\ IsFiniteSet(Compared)' /\ WiredBothWays'
  BY <1>1, <1>2, <1>5 DEF Sorted, Distinct, WiredBothWays
<1>8. AmbiguityReported'
  <2>1. ASSUME NEW socket
        PROVE  <<"too many connections", socket>> \in errors'
                 <=> <<"too many connections", socket>> \in errors
    BY DEF NextUnknown
  <2> QED
    BY <1>1, <1>5, <2>1 DEF AmbiguityReported
<1> QED
  BY <1>6, <1>7, <1>8 DEF GInv

LEMMA Grown == Spec => []GInv
<1>1. ASSUME GInv, [Next]_vars
      PROVE  GInv'
  <2>1. CASE Compare
    BY <1>1, <2>1, CompareKeeps
  <2>2. CASE NextUnknown
    BY <1>1, <2>2, NextUnknownKeeps
  <2>3. CASE UNCHANGED vars
    <3>1. /\ lineOf' = lineOf /\ wires' = wires /\ unknown' = unknown
          /\ known' = known /\ errors' = errors
      BY <2>3 DEF vars
    <3>2. Compared' = Compared
      BY <3>1 DEF Compared, Match, Before
    <3>3. TypeOK' /\ Sorted(wires)' /\ Distinct(wires)' /\ IsFiniteSet(Compared)'
      BY <1>1, <3>1, <3>2 DEF GInv, TypeOK, Sorted, Distinct
    <3>4. WiredBothWays' /\ AmbiguityReported'
      BY <1>1, <3>1, <3>2 DEF GInv, WiredBothWays, AmbiguityReported
    <3> QED
      BY <3>3, <3>4 DEF GInv
  <2> QED
    BY <1>1, <2>1, <2>2, <2>3 DEF Next
<1> QED
  BY <1>1, NothingYet, PTL DEF Spec

-----------------------------------------------------------------------------
(* Every variable keeps its type.                                          *)
THEOREM GraphTypes == Spec => []TypeOK
<1>1. GInv => TypeOK
  BY DEF GInv
<1> QED
  BY <1>1, Grown, PTL

(***************************************************************************)
(* However many sockets there are and whatever lines they share, binary    *)
(* search finds all the wires of every socket, and the first of them:      *)
(* d_wire_cmp keeps the array sorted by the socket a wire comes from,      *)
(* although it is no order of the wires themselves (dgraph.c:363-505).     *)
(***************************************************************************)
THEOREM WiresAreFound == Spec => []FindsAllWires
<1>1. ASSUME GInv
      PROVE  FindsAllWires
  <2>1. wires \in Seq(Edge) /\ Sorted(wires)
    BY <1>1 DEF GInv, TypeOK, Edge
  <2> QED
    BY <2>1, LookUps DEF FindsAllWires, Own
<1> QED
  BY <1>1, Grown, PTL

(***************************************************************************)
(* No insertion overwrites, drops or doubles a wire: two sockets are wired *)
(* in both directions exactly if they share a line (dgraph.c:466-505).     *)
(***************************************************************************)
THEOREM WiredAsWritten == Spec => []WiredBothWays
<1>1. GInv => WiredBothWays
  BY DEF GInv
<1> QED
  BY <1>1, Grown, PTL

(***************************************************************************)
(* A socket that may have one wire only is reported exactly if it has been *)
(* matched twice: the count is right each time it is taken, between the    *)
(* two insertions too (dgraph.c:544-565).                                  *)
(***************************************************************************)
THEOREM AmbiguityIsReported == Spec => []AmbiguityReported
<1>1. GInv => AmbiguityReported
  BY DEF GInv
<1> QED
  BY <1>1, Grown, PTL
=============================================================================
