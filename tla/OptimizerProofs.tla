--------------------------- MODULE OptimizerProofs ---------------------------
(***************************************************************************)
(* What the optimiser does, for every size of the immediates and every     *)
(* program: jumps reach what they reached before, the linker finds what it *)
(* has to write to, the rounds leave nothing behind, and the program does  *)
(* what it did.                                                            *)
(***************************************************************************)
EXTENDS Optimizer, SequenceTheorems, WellFoundedInduction, TLAPS

(***************************************************************************)
(* A relative jump or call reaches what it reached before the cut, which   *)
(* has moved like every other address (doptimize.c:90-171), provided that  *)
(* it led neither into the piece nor back to its first byte.  The jump is  *)
(* at the address at now; it was behind the piece if it is at or after     *)
(* start.                                                                  *)
(***************************************************************************)
THEOREM JumpsReach ==
  ASSUME NEW at \in Nat, NEW amt \in Int, NEW start \in Nat, NEW len \in Nat \ {0},
         NEW before, before = IF at >= start THEN at + len ELSE at,
         NEW target \in Nat, target = before + amt,
         target \notin (start + 1)..(start + len - 1),
         ~(target = start /\ before > start)
  PROVE  at + Relocated(at, amt, start, len) = Moved(target, start, len)
<1>1. CASE at >= start
  <2>1. target < start \/ target >= start + len
    BY <1>1
  <2>2. CASE target < start
    BY <1>1, <2>2 DEF Relocated, Moved
  <2>3. CASE target >= start + len
    BY <1>1, <2>3 DEF Relocated, Moved
  <2> QED
    BY <2>1, <2>2, <2>3
<1>2. CASE at < start
  <2>1. target < start \/ target = start \/ target >= start + len
    BY <1>2
  <2>2. CASE target < start
    BY <1>2, <2>2 DEF Relocated, Moved
  <2>3. CASE target = start
    BY <1>2, <2>3 DEF Relocated, Moved
  <2>4. CASE target >= start + len
    BY <1>2, <2>4 DEF Relocated, Moved
  <2> QED
    BY <2>1, <2>2, <2>3, <2>4
<1> QED
  BY <1>1, <1>2

-----------------------------------------------------------------------------
(* What holds of 1, and of k + 1 if it does of k, holds of 1..n.           *)
LEMMA CountUp ==
  ASSUME NEW n \in Nat, NEW T, 1 \in T, \A k \in 1..(n - 1) : k \in T => k + 1 \in T
  PROVE  1..n \subseteq T
<1> SUFFICES ASSUME (1..n) \ T # {}
             PROVE  FALSE
  OBVIOUS
<1> DEFINE missing == (1..n) \ T
<1>1. missing \subseteq Nat /\ missing # {}
  OBVIOUS
<1>2. PICK m \in missing : \A k \in missing : ~(<<k, m>> \in OpToRel(<, Nat))
  <2> HIDE DEF missing
  <2> QED
    BY <1>1, NatLessThanWellFounded, WFMin
<1>3. \A k \in missing : ~(k < m)
  BY <1>1, <1>2 DEF OpToRel
<1>4. m \in 1..n /\ m # 1 /\ m \notin T
  OBVIOUS
<1>5. m - 1 \in 1..(n - 1)
  BY <1>4
<1>6. m - 1 \in T
  BY <1>3, <1>5
<1>7. (m - 1) + 1 \in T
  BY <1>5, <1>6
<1> QED
  BY <1>4, <1>7

-----------------------------------------------------------------------------
(***************************************************************************)
(* The addresses of a text.  Only the sizes of its instructions count.     *)
(***************************************************************************)
Sized(t) == Len(t) \in Nat /\ \A k \in 1..Len(t) : Size(t[k]) \in Nat \ {0}

Runs(a, t, n) ==
  /\ a \in [1..(n + 1) -> Nat] /\ a[1] = 0
  /\ \A k \in 1..n : a[k + 1] = a[k] + Size(t[k])

Grows(a, t, n) ==
  /\ a = [k \in 1..(n + 1) |-> a[k]] /\ a[1] = 0
  /\ \A k \in 1..n : a[k + 1] = a[k] + Size(t[k])

LEMMA RunsExist ==
  ASSUME NEW t, Sized(t)
  PROVE  \E a : Runs(a, t, Len(t))
<1> DEFINE T == {m \in Nat : m - 1 <= Len(t) => \E a : Runs(a, t, m - 1)}
<1>1. 1 \in T
  <2>1. Runs([k \in {1} |-> 0], t, 0)
    BY DEF Runs
  <2> QED
    BY <2>1
<1>2. ASSUME NEW m \in 1..Len(t), m \in T
      PROVE  m + 1 \in T
  <2>1. m - 1 \in Nat /\ m \in Nat /\ Len(t) \in Nat /\ m <= Len(t)
    BY DEF Sized
  <2>2. PICK a : Runs(a, t, m - 1)
    BY <1>2, <2>1
  <2> DEFINE b == [k \in 1..(m + 1) |-> IF k = m + 1 THEN a[m] + Size(t[m]) ELSE a[k]]
  <2>3. a \in [1..m -> Nat] /\ a[1] = 0 /\ \A k \in 1..(m - 1) : a[k + 1] = a[k] + Size(t[k])
    BY <2>1, <2>2 DEF Runs
  <2>4. Size(t[m]) \in Nat
    BY DEF Sized
  <2>5. b \in [1..(m + 1) -> Nat]
    BY <2>1, <2>3, <2>4
  <2>6. b[1] = 0
    BY <2>1, <2>3
  <2>7. ASSUME NEW k \in 1..m
        PROVE  b[k + 1] = b[k] + Size(t[k])
    <3>1. CASE k = m
      BY <2>1, <3>1
    <3>2. CASE k # m
      BY <2>1, <2>3, <3>2
    <3> QED
      BY <3>1, <3>2
  <2>8. Runs(b, t, m)
    BY <2>5, <2>6, <2>7 DEF Runs
  <2> QED
    BY <2>1, <2>8
<1> HIDE DEF T
<1>3. 1..(Len(t) + 1) \subseteq T
  <2>1. PICK n \in Nat : n = Len(t) + 1 /\ n - 1 = Len(t)
    BY DEF Sized
  <2>2. \A k \in 1..(n - 1) : k \in T => k + 1 \in T
    BY <1>2, <2>1
  <2> QED
    BY <1>1, <2>1, <2>2, CountUp
<1>4. Len(t) + 1 \in T /\ (Len(t) + 1) - 1 = Len(t) /\ Len(t) <= Len(t)
  BY <1>3 DEF Sized
<1> QED
  BY <1>4 DEF T

LEMMA RunsOnce ==
  ASSUME NEW n \in Nat, NEW t, NEW a, NEW b, Grows(a, t, n), Grows(b, t, n)
  PROVE  a = b
<1> DEFINE T == {k \in 1..(n + 1) : a[k] = b[k]}
<1>1. 1 \in T
  BY DEF Grows
<1>2. PICK m \in Nat : m = n + 1 /\ m - 1 = n
  OBVIOUS
<1>3. ASSUME NEW k \in 1..(m - 1), k \in T
      PROVE  k + 1 \in T
  <2>1. k \in 1..n /\ k + 1 \in 1..(n + 1)
    BY <1>2
  <2>2. a[k + 1] = b[k + 1]
    BY <1>3, <2>1 DEF Grows
  <2> QED
    BY <2>1, <2>2
<1> HIDE DEF T
<1>4. 1..m \subseteq T
  BY <1>1, <1>3, CountUp
<1>5. \A k \in 1..(n + 1) : a[k] = b[k]
  BY <1>2, <1>4 DEF T
<1> QED
  BY <1>5 DEF Grows

LEMMA AddressesRun ==
  ASSUME NEW t, Sized(t)
  PROVE  Runs(Addresses(t), t, Len(t))
<1>1. PICK a : Runs(a, t, Len(t))
  BY RunsExist
<1>2. PICK n \in Nat : n = Len(t)
  BY DEF Sized
<1> DEFINE F(f) == f = [k \in 1..(Len(t) + 1) |-> IF k = 1 THEN 0 ELSE f[k - 1] + Size(t[k - 1])]
<1>3. F(a)
  <2>1. ASSUME NEW k \in 1..(Len(t) + 1), k # 1
        PROVE  a[k] = a[k - 1] + Size(t[k - 1])
    <3>1. k - 1 \in 1..Len(t) /\ (k - 1) + 1 = k
      BY <2>1 DEF Sized
    <3> QED
      BY <1>1, <3>1 DEF Runs
  <2> QED
    BY <1>1, <2>1 DEF Runs
<1>4. PICK f : f = Addresses(t)
  OBVIOUS
<1>5. F(f)
  BY <1>3, <1>4 DEF Addresses
<1>6. f = [k \in 1..(n + 1) |-> f[k]] /\ f[1] = 0
  BY <1>2, <1>5
<1>7. ASSUME NEW k \in 1..n
      PROVE  f[k + 1] = f[k] + Size(t[k])
  <2>1. k + 1 \in 1..(n + 1) /\ k + 1 # 1 /\ (k + 1) - 1 = k
    BY <1>2
  <2> QED
    BY <1>2, <1>5, <2>1
<1>8. Grows(f, t, n) /\ Grows(a, t, n)
  BY <1>1, <1>2, <1>6, <1>7 DEF Runs, Grows
<1>9. a = f
  BY <1>8, RunsOnce
<1> QED
  BY <1>1, <1>4, <1>9

(* Whatever has the sizes of the text for differences is its addresses.    *)
LEMMA AddressesAre ==
  ASSUME NEW t, Sized(t), NEW a, Runs(a, t, Len(t))
  PROVE  a = Addresses(t)
<1>1. PICK n \in Nat : n = Len(t)
  BY DEF Sized
<1>2. PICK f : f = Addresses(t)
  OBVIOUS
<1>3. Runs(f, t, n)
  BY <1>1, <1>2, AddressesRun
<1>4. Grows(f, t, n) /\ Grows(a, t, n)
  BY <1>1, <1>3 DEF Runs, Grows
<1>5. f = a
  BY <1>4, RunsOnce
<1> QED
  BY <1>2, <1>5

(* Each instruction begins behind those before it.                         *)
LEMMA AddressesGrow ==
  ASSUME NEW t, Sized(t), NEW j \in 1..Len(t), NEW k \in (j + 1)..(Len(t) + 1)
  PROVE  Addresses(t)[j] + Size(t[j]) <= Addresses(t)[k]
<1>1. PICK n \in Nat : n = Len(t)
  BY DEF Sized
<1>2. PICK a : a = Addresses(t) /\ Runs(a, t, n)
  BY <1>1, AddressesRun
<1>3. j \in Nat /\ j <= n /\ 1 <= j
  BY <1>1
<1>4. /\ \A m \in 1..n : a[m + 1] = a[m] + Size(t[m]) /\ Size(t[m]) \in Nat
      /\ \A m \in 1..(n + 1) : a[m] \in Nat
  BY <1>1, <1>2 DEF Runs, Sized
<1> DEFINE T == {m \in 1..(n - j + 1) : a[j] + Size(t[j]) <= a[j + m]}
<1>5. 1 \in T
  BY <1>1, <1>3, <1>4
<1>6. PICK last \in Nat : last = n - j + 1
  BY <1>3
<1>7. ASSUME NEW m \in 1..(last - 1), m \in T
      PROVE  m + 1 \in T
  <2>1. j + m \in 1..n /\ (j + m) + 1 = j + (m + 1) /\ m + 1 \in 1..(n - j + 1)
    BY <1>3, <1>6
  <2>2. a[j + (m + 1)] = a[j + m] + Size(t[j + m])
    BY <1>4, <2>1
  <2>3. a[j] + Size(t[j]) <= a[j + m]
    BY <1>7
  <2>4. a[j] \in Nat /\ Size(t[j]) \in Nat /\ a[j + m] \in Nat /\ Size(t[j + m]) \in Nat
    BY <1>3, <1>4, <2>1
  <2>5. a[j] + Size(t[j]) <= a[j + (m + 1)]
    BY <2>2, <2>3, <2>4
  <2> QED
    BY <2>1, <2>5
<1> HIDE DEF T
<1>8. 1..last \subseteq T
  BY <1>5, <1>6, <1>7, CountUp
<1>9. k - j \in 1..last /\ j + (k - j) = k
  BY <1>1, <1>3, <1>6
<1>10. a[j] + Size(t[j]) <= a[j + (k - j)]
  BY <1>8, <1>9 DEF T
<1> QED
  BY <1>2, <1>9, <1>10

LEMMA InsSize ==
  ASSUME NEW ins \in Ins
  PROVE  Size(ins) \in Nat \ {0} /\ ins.width \in Nat /\ ins.width < Size(ins)
BY SizesAssumption DEF Ins, Size

LEMMA TextSized ==
  ASSUME NEW t \in Seq(Ins)
  PROVE  Sized(t) /\ DOMAIN t = 1..Len(t) /\ \A k \in 1..Len(t) : t[k] \in Ins
<1>1. Len(t) \in Nat /\ DOMAIN t = 1..Len(t)
  BY LenProperties
<1>2. \A k \in 1..Len(t) : t[k] \in Ins
  BY ElementOfSeq
<1> QED
  BY <1>1, <1>2, InsSize DEF Sized

(* All that addresses and links see of an instruction.                     *)
Alike(ins, other) == ins.op = other.op /\ ins.width = other.width

LEMMA AlikeSizes ==
  ASSUME NEW ins, NEW other, Alike(ins, other)
  PROVE  Size(ins) = Size(other)
BY DEF Alike, Size

(* Instructions of the same sizes have the same addresses.                 *)
LEMMA SameAddresses ==
  ASSUME NEW t \in Seq(Ins), NEW u \in Seq(Ins), Len(u) = Len(t),
         \A k \in 1..Len(t) : Alike(u[k], t[k])
  PROVE  Addresses(u) = Addresses(t)
<1>1. Sized(t) /\ Sized(u)
  BY TextSized
<1>2. Runs(Addresses(t), t, Len(t))
  BY <1>1, AddressesRun
<1>3. Runs(Addresses(t), u, Len(u))
  BY <1>2, AlikeSizes DEF Runs
<1> QED
  BY <1>1, <1>3, AddressesAre

(* Of the text t, u has lost n instructions at b, which took len bytes.    *)
CutOut(t, u, b, n) ==
  /\ t \in Seq(Ins) /\ u \in Seq(Ins)
  /\ b \in Nat \ {0} /\ n \in Nat \ {0}
  /\ b <= Len(u) + 1 /\ Len(t) = Len(u) + n
  /\ \A k \in 1..(b - 1) : Alike(u[k], t[k])
  /\ \A k \in b..Len(u) : Alike(u[k], t[k + n])

CutLen(t, b, n) == Addresses(t)[b + n] - Addresses(t)[b]

LEMMA AddressBounds ==
  ASSUME NEW t \in Seq(Ins), NEW n, n = Len(t)
  PROVE  /\ n \in Nat /\ DOMAIN t = 1..n /\ Addresses(t)[1] = 0
         /\ \A k \in 1..(n + 1) : Addresses(t)[k] \in Nat
         /\ \A k \in 1..n : /\ Addresses(t)[k + 1] = Addresses(t)[k] + Size(t[k])
                            /\ Size(t[k]) \in Nat \ {0}
         /\ \A j \in 1..n : \A k \in (j + 1)..(n + 1) :
              Addresses(t)[j] + Size(t[j]) <= Addresses(t)[k]
<1>1. Sized(t) /\ DOMAIN t = 1..n
  BY TextSized
<1>2. Runs(Addresses(t), t, n)
  BY <1>1, AddressesRun
<1>3. \A j \in 1..n : \A k \in (j + 1)..(n + 1) : Addresses(t)[j] + Size(t[j]) <= Addresses(t)[k]
  BY <1>1, AddressesGrow
<1> QED
  BY <1>1, <1>2, <1>3 DEF Runs, Sized

LEMMA CutAddresses ==
  ASSUME NEW t, NEW u, NEW b, NEW n, CutOut(t, u, b, n)
  PROVE  /\ Addresses(t)[b] \in Nat /\ CutLen(t, b, n) \in Nat \ {0}
         /\ \A k \in 1..b : Addresses(u)[k] = Addresses(t)[k]
         /\ \A k \in b..(Len(u) + 1) :
              Addresses(u)[k] = Addresses(t)[k + n] - CutLen(t, b, n)
<1>1. PICK a, all, rest, len, end :
        /\ a = Addresses(t) /\ all = Len(t) /\ rest = Len(u)
        /\ len = CutLen(t, b, n) /\ end = b + n
  OBVIOUS
<1>2. /\ t \in Seq(Ins) /\ u \in Seq(Ins)
      /\ \A k \in 1..(b - 1) : Alike(u[k], t[k])
      /\ \A k \in b..rest : Alike(u[k], t[k + n])
  BY <1>1 DEF CutOut
<1>3. rest \in Nat /\ b \in Nat \ {0} /\ n \in Nat \ {0} /\ b <= rest + 1 /\ all = rest + n
  BY <1>1, <1>2, LenProperties DEF CutOut
<1>4. /\ all \in Nat /\ a[1] = 0
      /\ \A k \in 1..(all + 1) : a[k] \in Nat
      /\ \A k \in 1..all : a[k + 1] = a[k] + Size(t[k]) /\ Size(t[k]) \in Nat \ {0}
      /\ \A j \in 1..all : \A k \in (j + 1)..(all + 1) : a[j] + Size(t[j]) <= a[k]
  BY <1>1, <1>2, AddressBounds
<1>5. /\ b \in 1..all /\ b \in 1..(all + 1)
      /\ end \in 1..(all + 1) /\ end \in (b + 1)..(all + 1)
  BY <1>1, <1>3
<1>6. /\ a[b] \in Nat /\ a[end] \in Nat /\ Size(t[b]) \in Nat \ {0}
      /\ a[b] + Size(t[b]) <= a[end] /\ len = a[end] - a[b]
  BY <1>1, <1>4, <1>5 DEF CutLen
<1>7. len \in Nat \ {0} /\ a[b] = a[end] - len
  BY <1>6
<1> DEFINE c == [k \in 1..(rest + 1) |-> IF k <= b THEN a[k] ELSE a[k + n] - len]
<1>8. /\ \A k \in 1..b : k \in 1..(rest + 1) /\ c[k] = a[k]
      /\ \A k \in b..(rest + 1) : k \in 1..(rest + 1) /\ c[k] = a[k + n] - len
  <2>1. \A k \in 1..b : k \in 1..(rest + 1)
    BY <1>3
  <2>2. \A k \in b..(rest + 1) : k \in 1..(rest + 1) /\ (k <= b => k = b)
    BY <1>3
  <2> QED
    BY <1>1, <1>7, <2>1, <2>2
<1>9. c \in [1..(rest + 1) -> Nat]
  <2>1. ASSUME NEW k \in 1..(rest + 1), ~(k <= b)
        PROVE  a[k + n] - len \in Nat
    <3>1. PICK j : j = k + n
      OBVIOUS
    <3>2. /\ j \in 1..(all + 1) /\ end \in 1..all /\ j \in (end + 1)..(all + 1)
      BY <1>1, <1>3, <2>1, <3>1
    <3>3. a[end] + Size(t[end]) <= a[j] /\ Size(t[end]) \in Nat /\ a[j] \in Nat
      BY <1>4, <3>2
    <3>4. a[j] - len \in Nat
      BY <1>6, <1>7, <3>3
    <3> QED
      BY <3>1, <3>4
  <2>2. ASSUME NEW k \in 1..(rest + 1), k <= b
        PROVE  a[k] \in Nat
    <3>1. k \in 1..(all + 1)
      BY <1>3
    <3> QED
      BY <1>4, <3>1
  <2> QED
    BY <2>1, <2>2
<1> HIDE DEF c
<1>10. ASSUME NEW k \in 1..rest
       PROVE  c[k + 1] = c[k] + Size(u[k])
  <2>1. CASE k < b
    <3>1. k \in 1..b /\ k + 1 \in 1..b /\ k \in 1..(b - 1) /\ k \in 1..all
      BY <1>3, <2>1
    <3>2. Size(u[k]) = Size(t[k])
      BY <1>2, <3>1, AlikeSizes
    <3>3. a[k + 1] = a[k] + Size(t[k])
      BY <1>4, <3>1
    <3> QED
      BY <1>8, <3>1, <3>2, <3>3
  <2>2. CASE ~(k < b)
    <3>1. PICK j : j = k + n
      OBVIOUS
    <3>2. /\ k \in b..(rest + 1) /\ k + 1 \in b..(rest + 1) /\ k \in b..rest
          /\ j \in 1..all /\ j \in 1..(all + 1) /\ (k + 1) + n = j + 1
      BY <1>3, <2>2, <3>1
    <3>3. Size(u[k]) = Size(t[j])
      BY <1>2, <3>1, <3>2, AlikeSizes
    <3>4. a[j + 1] = a[j] + Size(t[j]) /\ a[j] \in Nat /\ Size(t[j]) \in Nat
      BY <1>4, <3>2
    <3>5. c[k] = a[j] - len /\ c[k + 1] = a[j + 1] - len
      BY <1>8, <3>1, <3>2
    <3> QED
      BY <1>7, <3>3, <3>4, <3>5
  <2> QED
    BY <1>3, <2>1, <2>2
<1>11. c[1] = 0
  <2>1. 1 \in 1..b
    BY <1>3
  <2> QED
    BY <1>4, <1>8, <2>1
<1>12. Runs(c, u, Len(u))
  BY <1>1, <1>9, <1>10, <1>11 DEF Runs
<1>13. c = Addresses(u)
  BY <1>2, <1>12, TextSized, AddressesAre
<1> QED
  BY <1>1, <1>6, <1>7, <1>8, <1>13

(* Of the text t, u has lost len bytes at the end of the instruction b.    *)
Shortened(t, u, b, len) ==
  /\ t \in Seq(Ins) /\ u \in Seq(Ins) /\ Len(t) = Len(u)
  /\ b \in 1..Len(u) /\ len \in Nat /\ Size(t[b]) = Size(u[b]) + len
  /\ \A k \in (1..Len(u)) \ {b} : Alike(u[k], t[k])

LEMMA ShortenAddresses ==
  ASSUME NEW t, NEW u, NEW b, NEW len, Shortened(t, u, b, len)
  PROVE  /\ \A k \in 1..b : Addresses(u)[k] = Addresses(t)[k]
         /\ \A k \in (b + 1)..(Len(u) + 1) : Addresses(u)[k] = Addresses(t)[k] - len
<1>1. PICK a, n : a = Addresses(t) /\ n = Len(t) /\ n = Len(u)
  BY DEF Shortened
<1>2. /\ t \in Seq(Ins) /\ u \in Seq(Ins) /\ b \in 1..n /\ len \in Nat
      /\ Size(t[b]) = Size(u[b]) + len
      /\ \A k \in (1..n) \ {b} : Alike(u[k], t[k])
  BY <1>1 DEF Shortened
<1>3. /\ n \in Nat /\ a[1] = 0
      /\ \A k \in 1..(n + 1) : a[k] \in Nat
      /\ \A k \in 1..n : a[k + 1] = a[k] + Size(t[k]) /\ Size(t[k]) \in Nat \ {0}
      /\ \A j \in 1..n : \A k \in (j + 1)..(n + 1) : a[j] + Size(t[j]) <= a[k]
  BY <1>1, <1>2, AddressBounds
<1>4. \A k \in 1..n : Size(u[k]) \in Nat \ {0}
  BY <1>1, <1>2, AddressBounds
<1> DEFINE c == [k \in 1..(n + 1) |-> IF k <= b THEN a[k] ELSE a[k] - len]
<1>5. /\ \A k \in 1..b : k \in 1..(n + 1) /\ c[k] = a[k]
      /\ \A k \in (b + 1)..(n + 1) : k \in 1..(n + 1) /\ c[k] = a[k] - len
  <2>1. \A k \in 1..b : k \in 1..(n + 1)
    BY <1>2, <1>3
  <2>2. \A k \in (b + 1)..(n + 1) : k \in 1..(n + 1) /\ ~(k <= b)
    BY <1>2, <1>3
  <2> QED
    BY <2>1, <2>2
<1>6. c \in [1..(n + 1) -> Nat]
  <2>1. ASSUME NEW k \in 1..(n + 1), ~(k <= b)
        PROVE  a[k] - len \in Nat
    <3>1. k \in (b + 1)..(n + 1) /\ b \in 1..(n + 1)
      BY <1>2, <1>3, <2>1
    <3>2. a[b] + Size(t[b]) <= a[k]
      BY <1>2, <1>3, <3>1
    <3>3. a[b] \in Nat /\ a[k] \in Nat /\ Size(u[b]) \in Nat
      BY <1>2, <1>3, <1>4, <3>1
    <3> QED
      BY <1>2, <3>2, <3>3
  <2> QED
    BY <1>3, <2>1
<1> HIDE DEF c
<1>7. ASSUME NEW k \in 1..n
      PROVE  c[k + 1] = c[k] + Size(u[k])
  <2>1. k \in 1..(n + 1)
    BY <1>3
  <2>2. /\ a[k + 1] = a[k] + Size(t[k]) /\ a[k] \in Nat
        /\ Size(t[k]) \in Nat /\ Size(u[k]) \in Nat
    BY <1>3, <1>4, <2>1
  <2>3. CASE k < b
    <3>1. k \in 1..b /\ k + 1 \in 1..b /\ k # b
      BY <1>2, <1>3, <2>3
    <3>2. Size(u[k]) = Size(t[k])
      BY <1>2, <3>1, AlikeSizes
    <3> QED
      BY <1>5, <2>2, <3>1, <3>2
  <2>4. CASE k = b
    <3>1. k \in 1..b /\ k + 1 \in (b + 1)..(n + 1)
      BY <1>2, <1>3, <2>4
    <3>2. c[k] = a[k] /\ c[k + 1] = a[k + 1] - len
      BY <1>5, <3>1
    <3> QED
      BY <1>2, <2>2, <2>4, <3>2
  <2>5. CASE k > b
    <3>1. k \in (b + 1)..(n + 1) /\ k + 1 \in (b + 1)..(n + 1) /\ k # b
      BY <1>2, <1>3, <2>5
    <3>2. Size(u[k]) = Size(t[k])
      BY <1>2, <3>1, AlikeSizes
    <3>3. c[k] = a[k] - len /\ c[k + 1] = a[k + 1] - len
      BY <1>5, <3>1
    <3> QED
      BY <1>2, <2>2, <3>2, <3>3
  <2> QED
    BY <1>2, <2>3, <2>4, <2>5
<1>8. c[1] = 0
  <2>1. 1 \in 1..b
    BY <1>2
  <2> QED
    BY <1>3, <1>5, <2>1
<1>9. Runs(c, u, Len(u))
  BY <1>1, <1>6, <1>7, <1>8 DEF Runs
<1>10. c = Addresses(u)
  BY <1>2, <1>9, TextSized, AddressesAre
<1> QED
  BY <1>1, <1>5, <1>10

-----------------------------------------------------------------------------
(***************************************************************************)
(* The list of the linker after a cut: an entry of an instruction that is  *)
(* left is moved to where that instruction is now.                         *)
(***************************************************************************)
Redirected(l, start, len) == [l EXCEPT !.ins = IF @ >= start + len THEN @ - len ELSE @]

LEMMA RedirectedIs ==
  ASSUME NEW l \in Links, NEW start \in Nat, NEW len \in Nat,
         NEW m, m = Redirected(l, start, len)
  PROVE  /\ l.ins \in Nat /\ m \in Links /\ m.to = l.to
         /\ m.ins = IF l.ins >= start + len THEN l.ins - len ELSE l.ins
BY DEF Links, Redirected

LEMMA CutLinks ==
  ASSUME NEW t, NEW u, NEW b, NEW n, CutOut(t, u, b, n),
         NEW start, start = Addresses(t)[b], NEW len, len = CutLen(t, b, n),
         NEW l \in Links, CanLink(t, l), l.ins \notin start..(start + len - 1)
  PROVE  CanLink(u, Redirected(l, start, len))
<1>1. PICK a, all, rest, end, m :
        /\ a = Addresses(t) /\ all = Len(t) /\ rest = Len(u) /\ end = b + n
        /\ m = Redirected(l, start, len)
  OBVIOUS
<1>2. /\ start \in Nat /\ len \in Nat \ {0}
      /\ \A k \in 1..b : Addresses(u)[k] = a[k]
      /\ \A k \in b..(rest + 1) : Addresses(u)[k] = a[k + n] - len
  BY <1>1, CutAddresses
<1>3. /\ m.to = l.to /\ l.ins \in Nat
      /\ m.ins = IF l.ins >= start + len THEN l.ins - len ELSE l.ins
  <2>1. start \in Nat /\ len \in Nat
    BY <1>2
  <2> QED
    BY <1>1, <2>1, SMTT(30) DEF Links, Redirected
<1>4. /\ t \in Seq(Ins) /\ u \in Seq(Ins)
      /\ \A k \in 1..(b - 1) : Alike(u[k], t[k])
      /\ \A k \in b..rest : Alike(u[k], t[k + n])
  BY <1>1 DEF CutOut
<1>5. /\ rest \in Nat /\ b \in Nat \ {0} /\ n \in Nat \ {0} /\ b <= rest + 1
      /\ all = rest + n /\ end = b + n
  BY <1>1, <1>4, LenProperties DEF CutOut
<1>6. /\ all \in Nat /\ DOMAIN t = 1..all
      /\ \A k \in 1..(all + 1) : a[k] \in Nat
      /\ \A k \in 1..all : Size(t[k]) \in Nat \ {0}
      /\ \A j \in 1..all : \A k \in (j + 1)..(all + 1) : a[j] + Size(t[j]) <= a[k]
  BY <1>1, <1>4, AddressBounds
<1>7. DOMAIN u = 1..rest
  BY <1>1, <1>4, LenProperties
<1>8. b \in 1..all /\ end \in 1..(all + 1) /\ a[b] = start /\ a[end] = start + len
  <2>1. b \in 1..all /\ b \in 1..(all + 1) /\ end \in 1..(all + 1)
    BY <1>5
  <2>2. a[b] \in Nat /\ a[end] \in Nat
    BY <1>6, <2>1
  <2>3. a[b] = start /\ len = a[end] - a[b]
    BY <1>1 DEF CutLen
  <2> QED
    BY <2>1, <2>2, <2>3
<1>9. PICK k \in 1..all : a[k] = l.ins /\ t[k].width = FSize /\ t[k].op \in LinkedTo(l.to)
  BY <1>1, <1>6 DEF CanLink
<1>10. Size(t[k]) \in Nat \ {0} /\ Size(t[b]) \in Nat \ {0}
  BY <1>6, <1>8, <1>9
<1>11. CASE k < b
  <2>1. b \in (k + 1)..(all + 1) /\ k \in 1..b /\ k \in 1..(b - 1) /\ k \in 1..rest
    BY <1>5, <1>11
  <2>2. l.ins + Size(t[k]) <= start
    BY <1>6, <1>8, <1>9, <2>1
  <2>3. l.ins < start
    BY <1>2, <1>3, <1>10, <2>2
  <2>4. m.ins = l.ins
    BY <1>2, <1>3, <2>3
  <2>5. Addresses(u)[k] = m.ins /\ Alike(u[k], t[k])
    BY <1>2, <1>4, <1>9, <2>1, <2>4
  <2> QED
    BY <1>1, <1>3, <1>7, <1>9, <2>1, <2>5 DEF Alike, CanLink
<1>12. CASE k >= b /\ k < end
  <2>1. end \in (k + 1)..(all + 1)
    BY <1>5, <1>12
  <2>2. l.ins + Size(t[k]) <= start + len
    BY <1>6, <1>8, <1>9, <2>1
  <2>3. start <= l.ins
    <3>1. CASE k = b
      BY <1>2, <1>8, <1>9, <3>1
    <3>2. CASE k # b
      <4>1. k \in (b + 1)..(all + 1)
        BY <1>5, <1>12, <3>2
      <4>2. start + Size(t[b]) <= l.ins
        BY <1>6, <1>8, <1>9, <4>1
      <4> QED
        BY <1>2, <1>3, <1>10, <4>2
    <3> QED
      BY <3>1, <3>2
  <2>4. l.ins \in start..(start + len - 1)
    BY <1>2, <1>3, <1>10, <2>2, <2>3
  <2> QED
    BY <2>4
<1>13. CASE k >= end
  <2>1. l.ins >= start + len
    <3>1. CASE k = end
      BY <1>2, <1>3, <1>8, <1>9, <3>1
    <3>2. CASE k # end
      <4>1. end \in 1..all /\ k \in (end + 1)..(all + 1)
        BY <1>5, <1>13, <3>2
      <4>2. a[end] + Size(t[end]) <= a[k] /\ Size(t[end]) \in Nat
        BY <1>6, <4>1
      <4>3. (start + len) + Size(t[end]) <= l.ins
        BY <1>8, <1>9, <4>2
      <4> QED
        BY <1>2, <1>3, <4>2, <4>3
    <3> QED
      BY <3>1, <3>2
  <2>2. PICK j : j = k - n
    OBVIOUS
  <2>3. j \in b..rest /\ j \in b..(rest + 1) /\ j \in 1..rest /\ j + n = k
    BY <1>5, <1>13, <2>2
  <2>4. Addresses(u)[j] = l.ins - len /\ Alike(u[j], t[k])
    BY <1>2, <1>4, <1>9, <2>3
  <2>5. Addresses(u)[j] = m.ins
    BY <1>3, <2>1, <2>4
  <2> QED
    BY <1>1, <1>3, <1>7, <1>9, <2>3, <2>4, <2>5 DEF Alike, CanLink
<1> QED
  BY <1>5, <1>11, <1>12, <1>13

LEMMA ShortenLinks ==
  ASSUME NEW t, NEW u, NEW b, NEW len, Shortened(t, u, b, len),
         NEW start, start = Addresses(t)[b] + 1,
         NEW l \in Links, CanLink(t, l), l.ins # Addresses(t)[b]
  PROVE  CanLink(u, Redirected(l, start, len))
<1>1. PICK a, n, m :
        a = Addresses(t) /\ n = Len(t) /\ n = Len(u) /\ m = Redirected(l, start, len)
  BY DEF Shortened
<1>2. /\ t \in Seq(Ins) /\ u \in Seq(Ins) /\ b \in 1..n /\ len \in Nat
      /\ Size(t[b]) = Size(u[b]) + len
      /\ \A k \in (1..n) \ {b} : Alike(u[k], t[k])
  BY <1>1 DEF Shortened
<1>3. /\ \A k \in 1..b : Addresses(u)[k] = a[k]
      /\ \A k \in (b + 1)..(n + 1) : Addresses(u)[k] = a[k] - len
  BY <1>1, ShortenAddresses
<1>4. /\ n \in Nat /\ DOMAIN t = 1..n
      /\ \A k \in 1..(n + 1) : a[k] \in Nat
      /\ \A k \in 1..n : Size(t[k]) \in Nat \ {0}
      /\ \A j \in 1..n : \A k \in (j + 1)..(n + 1) : a[j] + Size(t[j]) <= a[k]
  BY <1>1, <1>2, AddressBounds
<1>5. DOMAIN u = 1..n /\ \A k \in 1..n : Size(u[k]) \in Nat \ {0}
  BY <1>1, <1>2, AddressBounds
<1>6. a[b] \in Nat /\ start = a[b] + 1 /\ start \in Nat
  <2>1. b \in 1..(n + 1)
    BY <1>2, <1>4
  <2>2. a[b] \in Nat /\ start = a[b] + 1
    BY <1>1, <1>4, <2>1
  <2> QED
    BY <2>2
<1>7. /\ m.to = l.to /\ l.ins \in Nat
      /\ m.ins = IF l.ins >= start + len THEN l.ins - len ELSE l.ins
  BY <1>1, <1>2, <1>6, SMTT(30) DEF Links, Redirected
<1>8. PICK k \in 1..n : a[k] = l.ins /\ t[k].width = FSize /\ t[k].op \in LinkedTo(l.to)
  BY <1>1, <1>4 DEF CanLink
<1>9. k # b /\ Alike(u[k], t[k])
  BY <1>1, <1>2, <1>8
<1>10. Size(t[k]) \in Nat \ {0} /\ Size(u[b]) \in Nat \ {0}
  BY <1>2, <1>4, <1>5, <1>8
<1>11. CASE k < b
  <2>1. k \in 1..b /\ b \in (k + 1)..(n + 1)
    BY <1>2, <1>4, <1>11
  <2>2. l.ins + Size(t[k]) <= a[b]
    BY <1>4, <1>8, <2>1
  <2>3. ~(l.ins >= start + len)
    <3>1. PICK at, size : at = a[b] /\ size = Size(t[k])
      OBVIOUS
    <3>2. at \in Nat /\ size \in Nat \ {0} /\ start = at + 1 /\ l.ins + size <= at
      BY <1>6, <1>10, <2>2, <3>1
    <3> QED
      BY <1>2, <1>7, <3>2
  <2>4. Addresses(u)[k] = m.ins
    BY <1>3, <1>7, <1>8, <2>1, <2>3
  <2> QED
    BY <1>1, <1>5, <1>7, <1>8, <1>9, <2>4 DEF Alike, CanLink
<1>12. CASE k > b
  <2>1. k \in (b + 1)..(n + 1)
    BY <1>2, <1>4, <1>12
  <2>2. a[b] + Size(t[b]) <= l.ins
    BY <1>2, <1>4, <1>8, <2>1
  <2>3. l.ins >= start + len
    <3>1. PICK at, size : at = a[b] /\ size = Size(u[b])
      OBVIOUS
    <3>2. at \in Nat /\ size \in Nat \ {0} /\ start = at + 1
      BY <1>6, <1>10, <3>1
    <3>3. at + (size + len) <= l.ins
      BY <1>2, <2>2, <3>1
    <3> QED
      BY <1>2, <1>7, <3>2, <3>3
  <2>4. Addresses(u)[k] = m.ins
    BY <1>3, <1>7, <1>8, <2>1, <2>3
  <2> QED
    BY <1>1, <1>5, <1>7, <1>8, <1>9, <2>4 DEF Alike, CanLink
<1> QED
  BY <1>2, <1>9, <1>11, <1>12

-----------------------------------------------------------------------------
LEMMA FunctionIsText ==
  ASSUME NEW n \in Nat, NEW t, DOMAIN t = 1..n, t = [k \in 1..n |-> t[k]],
         \A k \in 1..n : t[k] \in Ins
  PROVE  t \in Seq(Ins) /\ Len(t) = n
OBVIOUS

LEMMA RelocatedInt ==
  ASSUME NEW at \in Nat, NEW amt \in Int, NEW start \in Nat, NEW len \in Nat
  PROVE  Relocated(at, amt, start, len) \in Int
BY DEF Relocated

(* Relocation changes no more of an instruction than where it jumps to.    *)
SameButJumps(u, t) ==
  /\ Len(u) = Len(t)
  /\ \A k \in 1..Len(t) : Alike(u[k], t[k]) /\ (t[k].op \notin Relative => u[k] = t[k])

LEMMA RelocatedSame ==
  ASSUME NEW t \in Seq(Ins), NEW start \in Nat, NEW len \in Nat,
         NEW u, u = RelocatedText(t, start, len)
  PROVE  u \in Seq(Ins) /\ SameButJumps(u, t)
<1>1. PICK n, a : n = Len(t) /\ a = Addresses(t)
  OBVIOUS
<1>2. n \in Nat /\ DOMAIN t = 1..n /\ \A k \in 1..n : t[k] \in Ins
  BY <1>1, TextSized, LenProperties
<1>3. \A k \in 1..n : a[k] \in Nat
  <2>1. \A k \in 1..(n + 1) : a[k] \in Nat
    BY <1>1, AddressBounds
  <2>2. \A k \in 1..n : k \in 1..(n + 1)
    BY <1>2
  <2> QED
    BY <2>1, <2>2
<1>4. u = [k \in 1..n |->
             IF t[k].op \in Relative /\ k # n
             THEN [t[k] EXCEPT !.arg = Relocated(a[k], @, start, len)] ELSE t[k]]
  BY <1>1, <1>2 DEF RelocatedText
<1>5. ASSUME NEW k \in 1..n
      PROVE  u[k] \in Ins /\ Alike(u[k], t[k]) /\ (t[k].op \notin Relative => u[k] = t[k])
  <2>1. t[k] \in Ins /\ a[k] \in Nat
    BY <1>2, <1>3
  <2>2. CASE t[k].op \in Relative /\ k # n
    <3>1. u[k] = [t[k] EXCEPT !.arg = Relocated(a[k], @, start, len)]
      BY <1>4, <2>2
    <3>2. t[k].arg \in Int
      BY <2>1 DEF Ins
    <3>3. Relocated(a[k], t[k].arg, start, len) \in Int
      BY <2>1, <3>2, RelocatedInt
    <3> QED
      BY <2>1, <2>2, <3>1, <3>3 DEF Ins, Alike
  <2>3. CASE ~(t[k].op \in Relative /\ k # n)
    <3>1. u[k] = t[k]
      BY <1>4, <2>3
    <3> QED
      BY <2>1, <3>1 DEF Alike
  <2> QED
    BY <2>2, <2>3
<1>6. DOMAIN u = 1..n /\ u = [k \in 1..n |-> u[k]]
  BY <1>4
<1>7. u \in Seq(Ins) /\ Len(u) = n
  BY <1>2, <1>5, <1>6, FunctionIsText
<1> QED
  BY <1>1, <1>5, <1>7 DEF SameButJumps

(* What is left of t without n instructions at b.                          *)
Without(t, b, n) == SubSeq(t, 1, b - 1) \o SubSeq(t, b + n, Len(t))

LEMMA PieceOut ==
  ASSUME NEW t \in Seq(Ins), NEW b \in Nat \ {0}, NEW n \in Nat \ {0}, b + n <= Len(t) + 1,
         NEW u, u = Without(t, b, n)
  PROVE  /\ CutOut(t, u, b, n)
         /\ \A k \in 1..(b - 1) : u[k] = t[k]
         /\ \A k \in b..Len(u) : u[k] = t[k + n]
<1>1. PICK all, front, back :
        all = Len(t) /\ front = SubSeq(t, 1, b - 1) /\ back = SubSeq(t, b + n, all)
  OBVIOUS
<1>2. all \in Nat /\ \A k \in 1..all : t[k] \in Ins
  BY <1>1, TextSized, LenProperties
<1>3. /\ front \in Seq(Ins) /\ Len(front) = b - 1
      /\ \A k \in 1..(b - 1) : front[k] = t[k]
  <2>1. \A k \in 1..(b - 1) : t[k] \in Ins
    BY <1>1, <1>2
  <2>2. /\ SubSeq(t, 1, b - 1) \in Seq(Ins)
        /\ Len(SubSeq(t, 1, b - 1)) = IF 1 <= b - 1 THEN (b - 1) - 1 + 1 ELSE 0
        /\ \A k \in 1..((b - 1) - 1 + 1) : SubSeq(t, 1, b - 1)[k] = t[1 + k - 1]
    BY <2>1, SubSeqProperties
  <2>3. (b - 1) - 1 + 1 = b - 1 /\ \A k \in 1..(b - 1) : 1 + k - 1 = k
    OBVIOUS
  <2> QED
    BY <1>1, <2>2, <2>3
<1>4. /\ back \in Seq(Ins) /\ Len(back) = all + 1 - (b + n)
      /\ \A k \in 1..(all + 1 - (b + n)) : back[k] = t[(b + n) + k - 1]
  <2>1. \A k \in (b + n)..all : t[k] \in Ins
    BY <1>1, <1>2
  <2>2. /\ SubSeq(t, b + n, all) \in Seq(Ins)
        /\ Len(SubSeq(t, b + n, all)) = IF b + n <= all THEN all - (b + n) + 1 ELSE 0
        /\ \A k \in 1..(all - (b + n) + 1) : SubSeq(t, b + n, all)[k] = t[(b + n) + k - 1]
    BY <1>2, <2>1, SubSeqProperties
  <2>3. /\ all - (b + n) + 1 = all + 1 - (b + n)
        /\ (IF b + n <= all THEN all - (b + n) + 1 ELSE 0) = all + 1 - (b + n)
    BY <1>1, <1>2
  <2> QED
    BY <1>1, <2>2, <2>3
<1>5. u = front \o back
  BY <1>1 DEF Without
<1>6. /\ u \in Seq(Ins) /\ Len(u) = Len(front) + Len(back)
      /\ \A k \in 1..Len(front) + Len(back) :
           u[k] = IF k <= Len(front) THEN front[k] ELSE back[k - Len(front)]
  <2>1. front \in Seq(Ins) /\ back \in Seq(Ins)
    BY <1>3, <1>4
  <2>2. /\ front \o back \in Seq(Ins) /\ Len(front \o back) = Len(front) + Len(back)
        /\ \A k \in 1..Len(front) + Len(back) :
             (front \o back)[k] = IF k <= Len(front) THEN front[k] ELSE back[k - Len(front)]
    BY <2>1, ConcatProperties
  <2> QED
    BY <1>5, <2>2
<1>7. PICK rest : rest = Len(u)
  OBVIOUS
<1>8. rest = all - n /\ Len(front) + Len(back) = rest /\ rest \in Nat /\ b <= rest + 1
  <2>1. /\ Len(front) = b - 1 /\ Len(back) = all + 1 - (b + n)
        /\ rest = Len(front) + Len(back) /\ b + n <= all + 1
    BY <1>1, <1>3, <1>4, <1>6, <1>7
  <2> QED
    BY <1>2, <2>1
<1>9. \A k \in 1..rest : u[k] = IF k <= b - 1 THEN front[k] ELSE back[k - (b - 1)]
  BY <1>3, <1>6, <1>8
<1>10. ASSUME NEW k \in 1..(b - 1)
       PROVE  u[k] = t[k]
  <2>1. k \in 1..rest /\ k <= b - 1
    BY <1>8
  <2> QED
    BY <1>3, <1>9, <2>1
<1>11. ASSUME NEW k \in b..rest
       PROVE  u[k] = t[k + n]
  <2>1. PICK j : j = k - (b - 1)
    OBVIOUS
  <2>2. k \in 1..rest /\ ~(k <= b - 1)
    BY <1>8
  <2>3. j \in 1..(all + 1 - (b + n)) /\ (b + n) + j - 1 = k + n
    BY <1>2, <1>8, <2>1
  <2>4. u[k] = back[j]
    BY <1>9, <2>1, <2>2
  <2> QED
    BY <1>4, <2>3, <2>4
<1>12. all = rest + n
  BY <1>2, <1>8
<1> QED
  BY <1>1, <1>6, <1>7, <1>8, <1>10, <1>11, <1>12 DEF CutOut, Alike

-----------------------------------------------------------------------------
(***************************************************************************)
(* The inductive invariant: the linker can write to each entry of its      *)
(* list, and a pass that has found nothing so far has left nothing behind  *)
(* it, nor have the passes before it in the round.                         *)
(***************************************************************************)
NotPair(t, k) == t[k].op = "NOT" /\ t[k + 1].op = "NOT"

PushPopPair(t, k) ==
  t[k].op = "PUSH" /\ (t[k + 1].op = "POP" \/ (t[k + 1].op = "POPN" /\ t[k + 1].arg > 0))

UselessIns(t, k) == t[k].op \in {"POPN", "PUSHN"} /\ t[k].arg = 0

Rounds == {"not", "pushPop", "useless"}

LinksFit == \A l \in links : CanLink(text, l)

NothingMissed ==
  /\ pass \notin Rounds => ~repeat
  /\ ~repeat =>
       /\ \A k \in 1..(Len(text) - 1) :
            /\ (pass = "not" => k < i) => ~NotPair(text, k)
            /\ pass # "not" /\ (pass = "pushPop" => k < i) => ~PushPopPair(text, k)
       /\ \A k \in 1..Len(text) :
            pass \notin {"not", "pushPop"} /\ (pass = "useless" => k < i) => ~UselessIns(text, k)

OptInv == TypeOK /\ LinksFit /\ NothingMissed

(* Who else holds an address, after a cut.                                 *)
LEMMA ElsewhereKept ==
  ASSUME TypeOK, NEW start \in Nat, NEW len \in Nat, CutElsewhere(start, len)
  PROVE  /\ links' \subseteq Links /\ ptr' \in [Functions -> Nat] /\ main' \in Nat
         /\ \A m \in links' : \E l \in links :
              m = Redirected(l, start, len) /\ l.ins \notin start..(start + len - 1)
<1>1. \A address \in Nat : Moved(address, start, len) \in Nat
  BY DEF Moved
<1>2. ptr \in [Functions -> Nat] /\ main \in Nat /\ links \subseteq Links
  BY DEF TypeOK
<1>3. main' \in Nat /\ ptr' \in [Functions -> Nat]
  BY <1>1, <1>2 DEF CutElsewhere
<1>4. links' = {Redirected(l, start, len) :
                  l \in {l \in links : l.ins \notin start..(start + len - 1)}}
  BY DEF CutElsewhere, Redirected
<1>5. \A m \in links' : \E l \in links :
         m = Redirected(l, start, len) /\ l.ins \notin start..(start + len - 1)
  BY <1>4
<1>6. \A l \in links : Redirected(l, start, len) \in Links
  BY <1>2, RedirectedIs
<1>7. links' \subseteq Links
  BY <1>5, <1>6
<1> QED
  BY <1>3, <1>5, <1>7

LEMMA CutKeeps ==
  ASSUME TypeOK, LinksFit, NEW n \in Nat \ {0}, i + n <= Len(text) + 1,
         NEW t \in Seq(Ins), Len(t) = Len(text),
         \A k \in 1..Len(text) : Alike(t[k], text[k]),
         Cut(t, n)
  PROVE  /\ text' \in Seq(Ins) /\ Len(text) = Len(text') + n
         /\ links' \subseteq Links /\ ptr' \in [Functions -> Nat] /\ main' \in Nat
         /\ intoCut' \in BOOLEAN /\ LinksFit'
<1>1. PICK rest, start, len, old, new, b, all :
        /\ rest = SubSeq(t, 1, i - 1) \o SubSeq(t, i + n, Len(t))
        /\ start = AddressOf(i) /\ len = Addresses(t)[i + n] - start
        /\ old = text /\ new = text' /\ b = i /\ all = Len(text)
  OBVIOUS
<1>2. old \in Seq(Ins) /\ all \in Nat /\ b \in 1..(all + 1) /\ links \subseteq Links
  BY <1>1, LenProperties DEF TypeOK
<1>3. Addresses(t) = Addresses(old)
  BY <1>1, <1>2, SameAddresses
<1>4. start = Addresses(old)[b] /\ len = CutLen(old, b, n)
  BY <1>1, <1>3 DEF AddressOf, CutLen
<1>5. b \in Nat \ {0} /\ b + n <= Len(t) + 1
  BY <1>1, <1>2
<1>6. CutOut(t, rest, b, n)
  <2>1. rest = Without(t, b, n)
    BY <1>1 DEF Without
  <2> QED
    BY <1>5, <2>1, PieceOut
<1>7. /\ all = Len(rest) + n /\ b <= Len(rest) + 1 /\ Len(rest) \in Nat
      /\ \A k \in 1..(b - 1) : k \in 1..all /\ k \in 1..Len(rest)
      /\ \A k \in b..Len(rest) : k + n \in 1..all /\ k \in 1..Len(rest)
  <2>1. PICK m : m = Len(rest)
    OBVIOUS
  <2>2. m \in Nat /\ all = m + n /\ b + n <= all + 1
    BY <1>1, <1>5, <1>6, <2>1, LenProperties DEF CutOut
  <2> QED
    BY <1>2, <2>1, <2>2
<1>8. CutOut(old, rest, b, n)
  <2>1. /\ \A k \in 1..(b - 1) : Alike(rest[k], t[k])
        /\ \A k \in b..Len(rest) : Alike(rest[k], t[k + n])
    BY <1>6 DEF CutOut
  <2>2. \A k \in 1..all : Alike(t[k], old[k])
    BY <1>1
  <2>3. \A k \in 1..(b - 1) : Alike(rest[k], old[k])
    BY <1>7, <2>1, <2>2 DEF Alike
  <2>4. \A k \in b..Len(rest) : Alike(rest[k], old[k + n])
    BY <1>7, <2>1, <2>2 DEF Alike
  <2>5. rest \in Seq(Ins) /\ Len(old) = Len(rest) + n
    BY <1>1, <1>6 DEF CutOut
  <2> QED
    BY <1>2, <1>5, <1>7, <2>3, <2>4, <2>5 DEF CutOut
<1>9. start \in Nat /\ len \in Nat
  <2>1. Addresses(old)[b] \in Nat /\ CutLen(old, b, n) \in Nat \ {0}
    BY <1>8, CutAddresses
  <2> QED
    BY <1>4, <2>1
<1>10. /\ new = RelocatedText(rest, start, len) /\ CutElsewhere(start, len)
       /\ intoCut' = (intoCut \/ LeadsInto(rest, start, len)
                               \/ (t # text /\ LeadsTo(i + n)))
  BY <1>1 DEF Cut
<1>11. new \in Seq(Ins) /\ SameButJumps(new, rest)
  <2>1. rest \in Seq(Ins)
    BY <1>8 DEF CutOut
  <2> QED
    BY <1>9, <1>10, <2>1, RelocatedSame
<1>12. CutOut(old, new, b, n)
  <2>1. Len(new) = Len(rest) /\ \A k \in 1..Len(rest) : Alike(new[k], rest[k])
    BY <1>11 DEF SameButJumps
  <2>2. \A k \in 1..(b - 1) : Alike(new[k], old[k])
    BY <1>7, <1>8, <2>1 DEF Alike, CutOut
  <2>3. \A k \in b..Len(rest) : Alike(new[k], old[k + n])
    BY <1>7, <1>8, <2>1 DEF Alike, CutOut
  <2> QED
    BY <1>8, <1>11, <2>1, <2>2, <2>3 DEF CutOut
<1>13. /\ links' \subseteq Links /\ ptr' \in [Functions -> Nat] /\ main' \in Nat
       /\ \A m \in links' : \E l \in links :
            m = Redirected(l, start, len) /\ l.ins \notin start..(start + len - 1)
  BY <1>9, <1>10, ElsewhereKept
<1>14. \A l \in links : CanLink(old, l)
  BY <1>1 DEF LinksFit
<1>15. ASSUME NEW m \in links'
       PROVE  CanLink(new, m)
  <2>1. PICK l \in links :
          m = Redirected(l, start, len) /\ l.ins \notin start..(start + len - 1)
    BY <1>13
  <2>2. CanLink(new, Redirected(l, start, len))
    BY <1>2, <1>4, <1>12, <1>14, <2>1, CutLinks
  <2> QED
    BY <2>1, <2>2
<1>16. LinksFit'
  BY <1>1, <1>15 DEF LinksFit
<1>17. intoCut' \in BOOLEAN
  BY <1>10
<1> QED
  BY <1>1, <1>8, <1>11, <1>12, <1>13, <1>16, <1>17 DEF CutOut

(* An instruction gets a shorter immediate that no link is to be written to. *)
LEMMA ShortenKeeps ==
  ASSUME TypeOK, LinksFit, i <= Len(text),
         NEW ins \in Ins, ins.width <= text[i].width,
         Size(text[i]) = Size(ins) + (text[i].width - ins.width),
         \A l \in links : l.ins # AddressOf(i),
         Shorten(ins)
  PROVE  /\ text' \in Seq(Ins) /\ Len(text') = Len(text) /\ text'[i] = ins
         /\ \A k \in (1..Len(text)) \ {i} :
              /\ text'[k].op = text[k].op
              /\ text[k].op \notin Relative => text'[k] = text[k]
         /\ links' \subseteq Links /\ ptr' \in [Functions -> Nat] /\ main' \in Nat
         /\ intoCut' = intoCut /\ LinksFit'
<1>1. PICK base, moved, start, len, old, new, b, n :
        /\ base = [text EXCEPT ![i] = ins] /\ len = text[i].width - ins.width
        /\ start = AddressOf(i) + 1 /\ moved = RelocatedText(base, start, len)
        /\ old = text /\ new = text' /\ b = i /\ n = Len(text)
  OBVIOUS
<1>2. old \in Seq(Ins) /\ n \in Nat /\ b \in 1..n /\ n = Len(old) /\ links \subseteq Links
  BY <1>1, LenProperties DEF TypeOK
<1>3. old[b] \in Ins
  BY <1>2, ElementOfSeq
<1>4. len \in Nat
  <2>1. old[b].width \in Nat /\ ins.width \in Nat
    BY <1>3, InsSize
  <2> QED
    BY <1>1, <2>1
<1>5. start \in Nat /\ start = Addresses(old)[b] + 1
  <2>1. b \in 1..(n + 1)
    BY <1>2
  <2>2. Addresses(old)[b] \in Nat
    BY <1>2, <2>1, AddressBounds
  <2> QED
    BY <1>1, <2>2 DEF AddressOf
<1>6. /\ base \in Seq(Ins) /\ Len(base) = n /\ base[b] = ins
      /\ \A k \in (1..n) \ {b} : base[k] = old[k]
  <2>1. base = [old EXCEPT ![b] = ins]
    BY <1>1
  <2>2. /\ [old EXCEPT ![b] = ins] \in Seq(Ins) /\ Len([old EXCEPT ![b] = ins]) = Len(old)
        /\ \A k \in 1..Len(old) : [old EXCEPT ![b] = ins][k] = IF k = b THEN ins ELSE old[k]
    BY <1>2, ExceptSeq
  <2> QED
    BY <1>2, <2>1, <2>2
<1>7. moved \in Seq(Ins) /\ SameButJumps(moved, base)
  BY <1>1, <1>4, <1>5, <1>6, RelocatedSame
<1>8. new = [moved EXCEPT ![b] = ins] /\ CutElsewhere(start, len) /\ intoCut' = intoCut
  BY <1>1 DEF Shorten
<1>9. /\ new \in Seq(Ins) /\ Len(new) = n /\ new[b] = ins
      /\ \A k \in (1..n) \ {b} : new[k] = moved[k]
  <2>1. Len(moved) = n
    BY <1>6, <1>7 DEF SameButJumps
  <2>2. /\ [moved EXCEPT ![b] = ins] \in Seq(Ins) /\ Len([moved EXCEPT ![b] = ins]) = Len(moved)
        /\ \A k \in 1..Len(moved) :
             [moved EXCEPT ![b] = ins][k] = IF k = b THEN ins ELSE moved[k]
    BY <1>2, <1>7, <2>1, ExceptSeq
  <2> QED
    BY <1>2, <1>8, <2>1, <2>2
<1>10. \A k \in (1..n) \ {b} :
         Alike(new[k], old[k]) /\ (old[k].op \notin Relative => new[k] = old[k])
  BY <1>6, <1>7, <1>9 DEF SameButJumps
<1>11. Shortened(old, new, b, len)
  BY <1>1, <1>2, <1>4, <1>9, <1>10 DEF Shortened
<1>12. /\ links' \subseteq Links /\ ptr' \in [Functions -> Nat] /\ main' \in Nat
       /\ \A m \in links' : \E l \in links :
            m = Redirected(l, start, len) /\ l.ins \notin start..(start + len - 1)
  BY <1>4, <1>5, <1>8, ElsewhereKept
<1>13. \A l \in links : CanLink(old, l) /\ l.ins # Addresses(old)[b]
  BY <1>1 DEF LinksFit, AddressOf
<1>14. ASSUME NEW m \in links'
       PROVE  CanLink(new, m)
  <2>1. PICK l \in links : m = Redirected(l, start, len)
    BY <1>12
  <2>2. CanLink(new, Redirected(l, start, len))
    BY <1>2, <1>5, <1>11, <1>13, ShortenLinks
  <2> QED
    BY <2>1, <2>2
<1>15. LinksFit'
  BY <1>1, <1>14 DEF LinksFit
<1>16. \A k \in (1..n) \ {b} :
         new[k].op = old[k].op /\ (old[k].op \notin Relative => new[k] = old[k])
  BY <1>10 DEF Alike
<1>17. /\ text' \in Seq(Ins) /\ Len(text') = Len(text) /\ text'[i] = ins
       /\ \A k \in (1..Len(text)) \ {i} :
            /\ text'[k].op = text[k].op
            /\ text[k].op \notin Relative => text'[k] = text[k]
  BY <1>1, <1>9, <1>16
<1> QED
  BY <1>8, <1>12, <1>15, <1>17

(* An entry of the linker is of one instruction.                           *)
LEMMA LinkIsOf ==
  ASSUME TypeOK, LinksFit, NEW l \in links, NEW k \in 1..Len(text), l.ins = AddressOf(k)
  PROVE  text[k].width = FSize /\ text[k].op \in LinkedTo(l.to)
<1>1. PICK old, a, n : old = text /\ a = Addresses(text) /\ n = Len(text)
  OBVIOUS
<1>2. /\ n \in Nat /\ DOMAIN old = 1..n
      /\ \A j \in 1..n : Size(old[j]) \in Nat \ {0}
      /\ \A j \in 1..n : \A m \in (j + 1)..(n + 1) : a[j] + Size(old[j]) <= a[m]
      /\ \A j \in 1..(n + 1) : a[j] \in Nat
  BY <1>1, AddressBounds DEF TypeOK
<1>3. PICK j \in 1..n : a[j] = l.ins /\ old[j].width = FSize /\ old[j].op \in LinkedTo(l.to)
  BY <1>1, <1>2 DEF LinksFit, CanLink
<1>4. a[j] = a[k] /\ k \in 1..n
  BY <1>1, <1>3 DEF AddressOf
<1>5. ASSUME NEW p \in 1..n, NEW q \in 1..n, p < q
      PROVE  a[p] # a[q]
  <2>1. q \in (p + 1)..(n + 1) /\ p \in 1..(n + 1)
    BY <1>2, <1>5
  <2>2. a[p] + Size(old[p]) <= a[q] /\ Size(old[p]) \in Nat \ {0} /\ a[p] \in Nat
    BY <1>2, <2>1
  <2> QED
    BY <2>2
<1>6. j = k
  BY <1>3, <1>4, <1>5
<1> QED
  BY <1>1, <1>3, <1>6

-----------------------------------------------------------------------------
(* Cutting something out starts another round.                             *)
LEMMA FoundInv ==
  ASSUME OptInv, pass \in Rounds, Found, NEW n \in Nat \ {0}, i + n <= Len(text) + 1,
         NEW t \in Seq(Ins), Len(t) = Len(text),
         \A k \in 1..Len(text) : Alike(t[k], text[k]),
         Cut(t, n)
  PROVE  OptInv'
<1>1. /\ text' \in Seq(Ins) /\ Len(text) = Len(text') + n
      /\ links' \subseteq Links /\ ptr' \in [Functions -> Nat] /\ main' \in Nat
      /\ intoCut' \in BOOLEAN /\ LinksFit'
  BY CutKeeps DEF OptInv
<1>2. i' \in 1..(Len(text') + 1)
  <2>1. PICK old, new : old = Len(text) /\ new = Len(text')
    OBVIOUS
  <2>2. new \in Nat /\ old = new + n /\ i + n <= old + 1 /\ i \in 1..(old + 1) /\ i' = i
    BY <1>1, <2>1, LenProperties DEF OptInv, TypeOK, Found
  <2> QED
    BY <2>1, <2>2
<1>3. pass' = pass /\ repeat' = TRUE
  BY DEF Found
<1>4. TypeOK'
  BY <1>1, <1>2, <1>3 DEF OptInv, TypeOK
<1>5. NothingMissed'
  BY <1>3 DEF NothingMissed
<1> QED
  BY <1>1, <1>4, <1>5 DEF OptInv

(* What a step that leaves the program alone must see to.                  *)
LEMMA ScanInv ==
  ASSUME OptInv, Untouched, i' \in 1..(Len(text) + 1), repeat' \in BOOLEAN,
         pass' \in Rounds \union {"relative", "simplify", "shrink", "done"},
         NothingMissed'
  PROVE  OptInv'
<1>1. TypeOK'
  BY DEF OptInv, TypeOK, Untouched, Rounds
<1>2. LinksFit'
  BY DEF OptInv, LinksFit, Untouched
<1> QED
  BY <1>1, <1>2 DEF OptInv

LEMMA NotConsecutiveInv ==
  ASSUME OptInv, NotConsecutive
  PROVE  OptInv'
<1>1. PICK n : n = Len(text) /\ n \in Nat
  BY LenProperties DEF OptInv, TypeOK
<1>2. /\ pass = "not" /\ i \in 1..(n + 1) /\ repeat \in BOOLEAN /\ text \in Seq(Ins)
      /\ ~repeat => \A k \in 1..(n - 1) : k < i => ~NotPair(text, k)
  BY <1>1 DEF OptInv, TypeOK, NothingMissed, NotConsecutive, In
<1>3. CASE ~HasNext
  <2>1. Untouched /\ pass' = "pushPop" /\ i' = 1 /\ repeat' = repeat /\ i >= n
    BY <1>1, <1>2, <1>3 DEF NotConsecutive, HasNext, Goto
  <2>2. ~repeat => \A k \in 1..(n - 1) : ~NotPair(text, k)
    BY <1>1, <1>2, <2>1
  <2>3. NothingMissed'
    BY <1>1, <2>1, <2>2 DEF NothingMissed, NotPair, Rounds, Untouched
  <2>4. i' \in 1..(Len(text) + 1)
    BY <1>1, <2>1
  <2> QED
    BY <1>2, <2>1, <2>3, <2>4, ScanInv DEF Rounds
<1>4. CASE HasNext /\ NotPair(text, i)
  <2>1. Cut(text, 2) /\ Found
    BY <1>4 DEF NotConsecutive, NotPair
  <2>2. i + 2 <= Len(text) + 1
    BY <1>1, <1>2, <1>4 DEF HasNext
  <2>3. pass \in Rounds /\ \A k \in 1..Len(text) : Alike(text[k], text[k])
    BY <1>2 DEF Rounds, Alike
  <2> QED
    BY <1>2, <2>1, <2>2, <2>3, FoundInv
<1>5. CASE HasNext /\ ~NotPair(text, i)
  <2>1. Untouched /\ pass' = "not" /\ i' = i + 1 /\ repeat' = repeat /\ i < n
    BY <1>1, <1>2, <1>5 DEF NotConsecutive, NotPair, HasNext, Onward
  <2>2. ~repeat => \A k \in 1..(n - 1) : k < i + 1 => ~NotPair(text, k)
    <3>1. \A k \in 1..(n - 1) : k < i + 1 => k < i \/ k = i
      BY <1>1, <1>2
    <3> QED
      BY <1>2, <1>5, <3>1
  <2>3. NothingMissed'
    BY <1>1, <2>1, <2>2 DEF NothingMissed, NotPair, Rounds, Untouched
  <2>4. i' \in 1..(Len(text) + 1)
    BY <1>1, <1>2, <2>1
  <2> QED
    BY <1>2, <2>1, <2>3, <2>4, ScanInv DEF Rounds
<1> QED
  BY <1>3, <1>4, <1>5

LEMMA PushPopConsecutiveInv ==
  ASSUME OptInv, PushPopConsecutive
  PROVE  OptInv'
<1>1. PICK n : n = Len(text) /\ n \in Nat
  BY LenProperties DEF OptInv, TypeOK
<1>2. /\ pass = "pushPop" /\ i \in 1..(n + 1) /\ repeat \in BOOLEAN /\ text \in Seq(Ins)
      /\ ~repeat => \A k \in 1..(n - 1) : ~NotPair(text, k) /\ (k < i => ~PushPopPair(text, k))
  BY <1>1 DEF OptInv, TypeOK, NothingMissed, PushPopConsecutive, In
<1>3. pass \in Rounds /\ \A k \in 1..n : Alike(text[k], text[k])
  BY <1>2 DEF Rounds, Alike
<1>4. CASE ~HasNext
  <2>1. Untouched /\ pass' = "useless" /\ i' = 1 /\ repeat' = repeat /\ i >= n
    BY <1>1, <1>2, <1>4 DEF PushPopConsecutive, HasNext, Goto
  <2>2. ~repeat => \A k \in 1..(n - 1) : ~NotPair(text, k) /\ ~PushPopPair(text, k)
    BY <1>1, <1>2, <2>1
  <2>3. \A k \in 1..n : ~(k < i')
    BY <1>1, <2>1
  <2>4. NothingMissed'
    BY <1>1, <2>1, <2>2, <2>3 DEF NothingMissed, NotPair, PushPopPair, Rounds, Untouched
  <2>5. i' \in 1..(Len(text) + 1)
    BY <1>1, <2>1
  <2> QED
    BY <1>2, <2>1, <2>4, <2>5, ScanInv DEF Rounds
<1>5. CASE HasNext /\ text[i].op = "PUSH" /\ text[i + 1].op = "POP"
  <2>1. Cut(text, 2) /\ Found
    BY <1>5 DEF PushPopConsecutive
  <2>2. i + 2 <= Len(text) + 1
    BY <1>1, <1>2, <1>5 DEF HasNext
  <2> QED
    BY <1>1, <1>2, <1>3, <2>1, <2>2, FoundInv
<1>6. CASE /\ HasNext /\ text[i].op = "PUSH" /\ text[i + 1].op # "POP"
           /\ text[i + 1].op = "POPN" /\ text[i + 1].arg > 0
  <2>1. PICK t, b : t = [text EXCEPT ![b].arg = @ - 1] /\ b = i + 1
    OBVIOUS
  <2>2. Cut(t, 1) /\ Found
    BY <1>6, <2>1 DEF PushPopConsecutive
  <2>3. b \in 1..n /\ i + 1 <= Len(text) + 1
    BY <1>1, <1>2, <1>6, <2>1 DEF HasNext
  <2>4. DOMAIN text = 1..n /\ text[b] \in Ins
    BY <1>1, <1>2, <2>3, LenProperties, ElementOfSeq
  <2>5. PICK ins : ins = [text[b] EXCEPT !.arg = @ - 1]
    OBVIOUS
  <2>6. ins \in Ins /\ Alike(ins, text[b])
    BY <2>4, <2>5 DEF Ins, Alike
  <2>7. t = [text EXCEPT ![b] = ins]
    BY <2>1, <2>5
  <2>8. /\ [text EXCEPT ![b] = ins] \in Seq(Ins) /\ Len([text EXCEPT ![b] = ins]) = Len(text)
        /\ \A k \in 1..Len(text) : [text EXCEPT ![b] = ins][k] = IF k = b THEN ins ELSE text[k]
    BY <1>1, <1>2, <2>3, <2>6, ExceptSeq
  <2>9. t \in Seq(Ins) /\ Len(t) = Len(text) /\ \A k \in 1..Len(text) : Alike(t[k], text[k])
    BY <1>1, <1>3, <2>6, <2>7, <2>8
  <2> QED
    BY <1>3, <2>2, <2>3, <2>9, FoundInv
<1>7. CASE HasNext /\ ~PushPopPair(text, i)
  <2>1. Untouched /\ pass' = "pushPop" /\ i' = i + 1 /\ repeat' = repeat /\ i < n
    BY <1>1, <1>2, <1>7 DEF PushPopConsecutive, PushPopPair, HasNext, Onward
  <2>2. ~repeat => \A k \in 1..(n - 1) :
                     ~NotPair(text, k) /\ (k < i + 1 => ~PushPopPair(text, k))
    <3>1. \A k \in 1..(n - 1) : k < i + 1 => k < i \/ k = i
      BY <1>1, <1>2
    <3> QED
      BY <1>2, <1>7, <3>1
  <2>3. NothingMissed'
    BY <1>1, <2>1, <2>2 DEF NothingMissed, NotPair, PushPopPair, Rounds, Untouched
  <2>4. i' \in 1..(Len(text) + 1)
    BY <1>1, <1>2, <2>1
  <2> QED
    BY <1>2, <2>1, <2>3, <2>4, ScanInv DEF Rounds
<1> QED
  BY <1>4, <1>5, <1>6, <1>7 DEF PushPopPair

LEMMA UselessInv ==
  ASSUME OptInv, Useless
  PROVE  OptInv'
<1>1. PICK n : n = Len(text) /\ n \in Nat
  BY LenProperties DEF OptInv, TypeOK
<1>2. /\ pass = "useless" /\ i \in 1..(n + 1) /\ repeat \in BOOLEAN /\ text \in Seq(Ins)
      /\ ~repeat => /\ \A k \in 1..(n - 1) : ~NotPair(text, k) /\ ~PushPopPair(text, k)
                    /\ \A k \in 1..n : k < i => ~UselessIns(text, k)
  BY <1>1 DEF OptInv, TypeOK, NothingMissed, Useless, In
<1>3. CASE i > n
  <2>1. /\ Untouched /\ pass' = (IF repeat THEN "not" ELSE "relative")
        /\ i' = 1 /\ repeat' = FALSE
    BY <1>1, <1>3 DEF Useless
  <2>2. i' \in 1..(Len(text) + 1)
    BY <1>1, <2>1
  <2>3. \A k \in 1..n : k < i /\ ~(k < i')
    BY <1>1, <1>2, <1>3, <2>1
  <2>4. \A k \in 1..(n - 1) : ~(k < i')
    BY <1>1, <2>1
  <2>5. CASE repeat
    <3>1. NothingMissed'
      BY <1>1, <2>1, <2>4, <2>5 DEF NothingMissed, Rounds, Untouched
    <3> QED
      BY <2>1, <2>2, <2>5, <3>1, ScanInv DEF Rounds
  <2>6. CASE ~repeat
    <3>1. NothingMissed'
      BY <1>1, <1>2, <2>1, <2>3, <2>6
         DEF NothingMissed, NotPair, PushPopPair, UselessIns, Rounds, Untouched
    <3> QED
      BY <2>1, <2>2, <2>6, <3>1, ScanInv DEF Rounds
  <2> QED
    BY <1>2, <2>5, <2>6
<1>4. CASE ~(i > n) /\ UselessIns(text, i)
  <2>1. Cut(text, 1) /\ Found
    BY <1>1, <1>4 DEF Useless, UselessIns, Found
  <2>2. i + 1 <= Len(text) + 1
    BY <1>1, <1>2, <1>4
  <2>3. pass \in Rounds /\ \A k \in 1..Len(text) : Alike(text[k], text[k])
    BY <1>2 DEF Rounds, Alike
  <2> QED
    BY <1>2, <2>1, <2>2, <2>3, FoundInv
<1>5. CASE ~(i > n) /\ ~UselessIns(text, i)
  <2>1. Untouched /\ pass' = "useless" /\ i' = i + 1 /\ repeat' = repeat
    BY <1>1, <1>2, <1>5 DEF Useless, UselessIns, Onward
  <2>2. ~repeat => \A k \in 1..n : k < i + 1 => ~UselessIns(text, k)
    <3>1. \A k \in 1..n : k < i + 1 => k < i \/ k = i
      BY <1>1, <1>2
    <3> QED
      BY <1>2, <1>5, <3>1
  <2>3. NothingMissed'
    BY <1>1, <1>2, <2>1, <2>2
       DEF NothingMissed, NotPair, PushPopPair, UselessIns, Rounds, Untouched
  <2>4. i' \in 1..(Len(text) + 1)
    BY <1>1, <1>2, <1>5, <2>1
  <2> QED
    BY <1>2, <2>1, <2>3, <2>4, ScanInv DEF Rounds
<1> QED
  BY <1>3, <1>4, <1>5

-----------------------------------------------------------------------------
(* The passes behind the rounds give them no new work.                     *)
NoMoreWork(u, t) ==
  /\ Len(u) = Len(t)
  /\ \A k \in 1..Len(t) :
       /\ u[k].op = "NOT" => t[k].op = "NOT"
       /\ u[k].op = "PUSH" => t[k].op = "PUSH"
       /\ u[k].op = "POP" => t[k].op = "POP" \/ (t[k].op = "POPN" /\ t[k].arg > 0)
       /\ u[k].op \in {"POPN", "PUSHN"} => t[k].op = u[k].op /\ t[k].arg = u[k].arg

LEMMA StaysDone ==
  ASSUME NothingMissed, pass \notin Rounds, pass' \notin Rounds, repeat' = repeat,
         text \in Seq(Ins), NoMoreWork(text', text)
  PROVE  NothingMissed'
<1>1. PICK old, new, n : old = text /\ new = text' /\ n = Len(text) /\ n \in Nat
  BY LenProperties
<1>2. /\ ~repeat
      /\ \A k \in 1..(n - 1) : ~NotPair(old, k) /\ ~PushPopPair(old, k)
      /\ \A k \in 1..n : ~UselessIns(old, k)
  BY <1>1 DEF NothingMissed, Rounds
<1>3. /\ Len(new) = n
      /\ \A k \in 1..n :
           /\ new[k].op = "NOT" => old[k].op = "NOT"
           /\ new[k].op = "PUSH" => old[k].op = "PUSH"
           /\ new[k].op = "POP" => old[k].op = "POP" \/ (old[k].op = "POPN" /\ old[k].arg > 0)
           /\ new[k].op \in {"POPN", "PUSHN"} => old[k].op = new[k].op /\ old[k].arg = new[k].arg
  BY <1>1 DEF NoMoreWork
<1>4. ASSUME NEW k \in 1..(n - 1)
      PROVE  ~NotPair(new, k) /\ ~PushPopPair(new, k)
  <2>1. k \in 1..n /\ k + 1 \in 1..n
    BY <1>1
  <2>2. ~NotPair(new, k)
    BY <1>2, <1>3, <2>1 DEF NotPair
  <2>3. ~PushPopPair(new, k)
    BY <1>2, <1>3, <2>1 DEF PushPopPair
  <2> QED
    BY <2>2, <2>3
<1>5. \A k \in 1..n : ~UselessIns(new, k)
  BY <1>2, <1>3 DEF UselessIns
<1> QED
  BY <1>1, <1>2, <1>3, <1>4, <1>5 DEF NothingMissed, NotPair, PushPopPair, UselessIns

LEMMA CallFuncRelativeInv ==
  ASSUME OptInv, CallFuncRelative
  PROVE  OptInv'
<1>1. PICK old, new, n : old = text /\ new = text' /\ n = Len(text)
  OBVIOUS
<1>2. /\ n \in Nat /\ old \in Seq(Ins) /\ DOMAIN old = 1..n /\ links \subseteq Links
      /\ ptr \in [Functions -> Nat] /\ \A k \in 1..n : old[k] \in Ins
  BY <1>1, TextSized, LenProperties DEF OptInv, TypeOK
<1>3. ASSUME NEW k \in 1..n, OwnLinks(k) # {}
      PROVE  /\ old[k].op = "CALLI"
             /\ new[k] \in Ins /\ new[k].op = "CALLR" /\ new[k].width = old[k].width
  <2>1. PICK l : l = (CHOOSE own \in OwnLinks(k) : TRUE)
    OBVIOUS
  <2>2. l \in OwnLinks(k)
    BY <1>3, <2>1
  <2>3. l \in links /\ l.ins = AddressOf(k) /\ l.to \in Functions
    BY <2>2 DEF OwnLinks
  <2>4. old[k].op \in LinkedTo(l.to)
    BY <1>1, <2>3, LinkIsOf DEF OptInv
  <2>5. new[k] = [old[k] EXCEPT !.op = "CALLR", !.arg = ptr[l.to] - l.ins]
    BY <1>1, <1>2, <1>3, <2>1 DEF CallFuncRelative
  <2>6. l.ins \in Nat /\ ptr[l.to] \in Nat
    BY <1>2, <2>3 DEF Links
  <2>7. PICK arg \in Int : arg = ptr[l.to] - l.ins
    BY <2>6
  <2>8. old[k].op = "CALLI" /\ old[k] \in Ins /\ "CALLR" \in Opcodes
    BY <1>2, <2>3, <2>4 DEF LinkedTo, Opcodes, Immediate, Relative
  <2>9. new[k] = [old[k] EXCEPT !.op = "CALLR", !.arg = arg]
    BY <2>5, <2>7
  <2> QED
    BY <2>8, <2>9 DEF Ins
<1>4. ASSUME NEW k \in 1..n, OwnLinks(k) = {}
      PROVE  new[k] = old[k]
  BY <1>1, <1>2, <1>4 DEF CallFuncRelative
<1>5. new \in Seq(Ins) /\ Len(new) = n
  <2>1. DOMAIN new = 1..n /\ new = [k \in 1..n |-> new[k]]
    BY <1>1, <1>2 DEF CallFuncRelative
  <2>2. \A k \in 1..n : new[k] \in Ins
    BY <1>2, <1>3, <1>4
  <2> QED
    BY <1>2, <2>1, <2>2, FunctionIsText
<1>6. /\ pass = "relative" /\ pass' = "simplify" /\ i' = 1 /\ repeat' = repeat
      /\ links' = {l \in links : l.to \notin Functions}
      /\ UNCHANGED <<ptr, main, intoCut>>
  BY DEF CallFuncRelative, In, Goto
<1>7. TypeOK'
  <2>1. i' \in 1..(n + 1)
    BY <1>2, <1>6
  <2> QED
    BY <1>1, <1>2, <1>5, <1>6, <2>1 DEF OptInv, TypeOK
<1>8. Addresses(new) = Addresses(old)
  <2>1. \A k \in 1..n : Size(new[k]) = Size(old[k])
    BY <1>3, <1>4 DEF Size
  <2>2. Sized(old) /\ Sized(new)
    BY <1>2, <1>5, TextSized
  <2>3. Runs(Addresses(old), old, n)
    BY <1>1, <2>2, AddressesRun
  <2>4. Runs(Addresses(old), new, Len(new))
    BY <1>5, <2>1, <2>3 DEF Runs
  <2> QED
    BY <2>2, <2>4, AddressesAre
<1>9. DOMAIN new = 1..n
  BY <1>5, LenProperties
<1>10. ASSUME NEW l \in links'
       PROVE  CanLink(new, l)
  <2>1. l \in links /\ l.to \notin Functions
    BY <1>6
  <2>2. PICK k \in 1..n :
          Addresses(old)[k] = l.ins /\ old[k].width = FSize /\ old[k].op \in LinkedTo(l.to)
    BY <1>1, <1>2, <2>1 DEF OptInv, LinksFit, CanLink
  <2>3. new[k].width = FSize /\ new[k].op \in LinkedTo(l.to)
    BY <1>3, <1>4, <2>1, <2>2 DEF LinkedTo
  <2> QED
    BY <1>8, <1>9, <2>2, <2>3 DEF CanLink
<1>11. LinksFit'
  BY <1>1, <1>10 DEF LinksFit
<1>12. NoMoreWork(new, old)
  <2>1. \A k \in 1..n : new[k] = old[k] \/ new[k].op = "CALLR"
    BY <1>3, <1>4
  <2> QED
    BY <1>1, <1>5, <2>1 DEF NoMoreWork
<1>13. NothingMissed'
  BY <1>1, <1>2, <1>6, <1>12, StaysDone DEF OptInv, Rounds
<1> QED
  BY <1>7, <1>11, <1>13 DEF OptInv

(* One instruction gets shorter, and the pass goes on to the next.         *)
LEMMA ShortenInv ==
  ASSUME OptInv, pass \notin Rounds, Onward, i <= Len(text),
         NEW ins \in Ins, ins.width <= text[i].width,
         Size(text[i]) = Size(ins) + (text[i].width - ins.width),
         ins.op = "NOT" => text[i].op = "NOT",
         ins.op = "PUSH" => text[i].op = "PUSH",
         ins.op = "POP" => text[i].op = "POPN" /\ text[i].arg > 0,
         ins.op \in {"POPN", "PUSHN"} => text[i].op = ins.op /\ text[i].arg = ins.arg,
         \A l \in links : l.ins # AddressOf(i),
         Shorten(ins)
  PROVE  OptInv'
<1>1. PICK old, new, n : old = text /\ new = text' /\ n = Len(text) /\ n \in Nat
  BY LenProperties DEF OptInv, TypeOK
<1>2. /\ new \in Seq(Ins) /\ Len(new) = n /\ new[i] = ins
      /\ \A k \in (1..n) \ {i} :
           new[k].op = old[k].op /\ (old[k].op \notin Relative => new[k] = old[k])
      /\ links' \subseteq Links /\ ptr' \in [Functions -> Nat] /\ main' \in Nat
      /\ intoCut' = intoCut /\ LinksFit'
  BY <1>1, ShortenKeeps DEF OptInv
<1>3. i \in 1..n /\ i' = i + 1 /\ pass' = pass /\ repeat' = repeat
  BY <1>1 DEF OptInv, TypeOK, Onward
<1>4. i' \in 1..(n + 1)
  BY <1>1, <1>3
<1>5. TypeOK'
  BY <1>1, <1>2, <1>3, <1>4 DEF OptInv, TypeOK
<1>6. NoMoreWork(new, old)
  <2>1. \A k \in (1..n) \ {i} :
          new[k].op \in {"POPN", "PUSHN"} => old[k].op = new[k].op /\ old[k].arg = new[k].arg
    BY <1>2 DEF Relative
  <2>2. \A k \in (1..n) \ {i} : new[k].op = old[k].op
    BY <1>2
  <2> QED
    BY <1>1, <1>2, <2>1, <2>2 DEF NoMoreWork
<1>7. NothingMissed'
  <2>1. NothingMissed /\ text \in Seq(Ins)
    BY DEF OptInv, TypeOK
  <2> QED
    BY <1>1, <1>3, <1>6, <2>1, StaysDone
<1> QED
  BY <1>2, <1>5, <1>7 DEF OptInv

LEMMA OnwardInv ==
  ASSUME OptInv, pass \notin Rounds, i <= Len(text), Untouched, Onward
  PROVE  OptInv'
<1>1. PICK n : n = Len(text) /\ n \in Nat
  BY LenProperties DEF OptInv, TypeOK
<1>2. i' \in 1..(Len(text) + 1)
  BY <1>1 DEF OptInv, TypeOK, Onward
<1>3. pass' = pass /\ repeat' = repeat /\ text' = text
  BY DEF Onward, Untouched
<1>4. NoMoreWork(text, text)
  BY DEF NoMoreWork
<1>5. NothingMissed'
  BY <1>3, <1>4, StaysDone DEF OptInv, TypeOK
<1> QED
  BY <1>2, <1>3, <1>5, ScanInv DEF OptInv, TypeOK, Rounds

LEMMA GotoInv ==
  ASSUME OptInv, pass \notin Rounds, NEW p \in {"shrink", "done"}, Untouched, Goto(p)
  PROVE  OptInv'
<1>1. PICK n : n = Len(text) /\ n \in Nat
  BY LenProperties DEF OptInv, TypeOK
<1>2. pass' = p /\ repeat' = repeat /\ text' = text /\ i' = 1
  BY DEF Goto, Untouched
<1>3. i' \in 1..(Len(text) + 1)
  BY <1>1, <1>2
<1>4. NoMoreWork(text, text)
  BY DEF NoMoreWork
<1>5. pass' \notin Rounds
  BY <1>2 DEF Rounds
<1>6. NothingMissed'
  BY <1>2, <1>4, <1>5, StaysDone DEF OptInv, TypeOK
<1> QED
  BY <1>2, <1>3, <1>6, ScanInv DEF OptInv, TypeOK

LEMMA SimplifyInv ==
  ASSUME OptInv, Simplify
  PROVE  OptInv'
<1>1. pass = "simplify" /\ pass \notin Rounds
  BY DEF Simplify, In, Rounds
<1>2. CASE i > Len(text)
  BY <1>1, <1>2, GotoInv DEF Simplify
<1>3. CASE ~(i > Len(text)) /\ Simpler(text[i]) = text[i]
  <2>1. i <= Len(text)
    BY <1>3, LenProperties DEF OptInv, TypeOK
  <2> QED
    BY <1>1, <1>3, <2>1, OnwardInv DEF Simplify
<1>4. CASE ~(i > Len(text)) /\ Simpler(text[i]) # text[i]
  <2>1. i <= Len(text) /\ i \in 1..Len(text)
    BY <1>4, LenProperties DEF OptInv, TypeOK
  <2>2. PICK old, ins : old = text[i] /\ ins = Simpler(text[i])
    OBVIOUS
  <2>3. Shorten(ins) /\ Onward
    BY <1>4, <2>2 DEF Simplify
  <2>4. old \in Ins
    BY <2>1, <2>2, ElementOfSeq DEF OptInv, TypeOK
  <2>5. \/ /\ old.op = "RETN" /\ ins = [op |-> "RET", width |-> 0, arg |-> 0]
        \/ /\ old.op = "POPN" /\ old.arg = 1 /\ ins = [op |-> "POP", width |-> 0, arg |-> 0]
    BY <1>4, <2>2 DEF Simpler
  <2>6. ins \in Ins /\ ins.width = 0 /\ old.width \in Nat
    BY <2>4, <2>5, InsSize DEF Ins, Opcodes
  <2>7. Size(old) = Size(ins) + (old.width - ins.width)
    BY <2>5, <2>6 DEF Size
  <2>8. \A l \in links : l.ins # AddressOf(i)
    <3>1. \A l \in links : old.op \notin LinkedTo(l.to)
      BY <2>5 DEF LinkedTo
    <3> QED
      BY <2>1, <2>2, <3>1, LinkIsOf DEF OptInv
  <2>9. ins.width <= old.width
    BY <2>6
  <2>10. /\ ins.op \notin {"NOT", "PUSH", "POPN", "PUSHN"}
         /\ ins.op = "POP" => old.op = "POPN" /\ old.arg > 0
    BY <2>5
  <2> QED
    BY <1>1, <2>1, <2>2, <2>3, <2>6, <2>7, <2>8, <2>9, <2>10, ShortenInv
<1> QED
  BY <1>2, <1>3, <1>4

LEMMA ShrunkInv ==
  ASSUME OptInv, pass \notin Rounds, i <= Len(text), Shrinkable(text[i]),
         NEW width \in {BSize, HSize}, Shorten(Shrunk(text[i], width)), Onward
  PROVE  OptInv'
<1>1. PICK old, ins : old = text[i] /\ ins = Shrunk(text[i], width)
  OBVIOUS
<1>2. old \in Ins
  <2>1. i \in 1..Len(text)
    BY LenProperties DEF OptInv, TypeOK
  <2> QED
    BY <1>1, <2>1, ElementOfSeq DEF OptInv, TypeOK
<1>3. /\ old.op \in Immediate /\ old.width = FSize
      /\ \A l \in links : l.ins # AddressOf(i)
  BY <1>1 DEF Shrinkable
<1>4. width \in Nat /\ FSize \in Nat /\ width <= FSize
  BY SizesAssumption
<1>5. PICK arg \in Int :
        /\ ins = [old EXCEPT !.width = width, !.arg = arg]
        /\ old.op \notin Relative => arg = old.arg
  <2>1. PICK arg : arg = IF old.op \in Relative /\ old.arg > 0
                         THEN old.arg - (FSize - width) ELSE old.arg
    OBVIOUS
  <2>2. old.arg \in Int
    BY <1>2 DEF Ins
  <2>3. arg \in Int
    BY <1>4, <2>1, <2>2
  <2>4. ins = [old EXCEPT !.width = width, !.arg = arg]
    BY <1>1, <2>1 DEF Shrunk
  <2> QED
    BY <2>1, <2>3, <2>4
<1>6. /\ ins \in Ins /\ ins.op = old.op /\ ins.width = width
      /\ old.op \notin Relative => ins.arg = old.arg
  <2>1. PICK widths : widths = {0, BSize, HSize, FSize}
    OBVIOUS
  <2>2. old \in [op : Opcodes, width : widths, arg : Int] /\ width \in widths
    BY <1>2, <2>1 DEF Ins
  <2>3. /\ ins \in [op : Opcodes, width : widths, arg : Int]
        /\ ins.op = old.op /\ ins.width = width /\ ins.arg = arg
    BY <1>5, <2>2
  <2> QED
    BY <1>5, <2>1, <2>3 DEF Ins
<1>7. Size(old) = Size(ins) + (old.width - ins.width)
  BY <1>3, <1>4, <1>6, SizesAssumption DEF Size
<1>8. ins.op \in {"POPN", "PUSHN"} => old.op = ins.op /\ old.arg = ins.arg
  BY <1>6 DEF Relative
<1>9. ins.op # "POP"
  BY <1>3, <1>6 DEF Immediate, Relative
<1>10. ins.width <= old.width
  BY <1>3, <1>4, <1>6
<1> QED
  BY <1>1, <1>3, <1>6, <1>7, <1>8, <1>9, <1>10, ShortenInv

LEMMA ShrinkFimmediateInv ==
  ASSUME OptInv, ShrinkFimmediate
  PROVE  OptInv'
<1>1. pass = "shrink" /\ pass \notin Rounds
  BY DEF ShrinkFimmediate, In, Rounds
<1>2. CASE i > Len(text)
  BY <1>1, <1>2, GotoInv DEF ShrinkFimmediate
<1>3. CASE ~(i > Len(text))
  <2>1. i <= Len(text)
    BY <1>3, LenProperties DEF OptInv, TypeOK
  <2>2. /\ Onward
        /\ \/ Untouched
           \/ /\ Shrinkable(text[i])
              /\ \/ Shorten(Shrunk(text[i], BSize))
                 \/ Shorten(Shrunk(text[i], HSize))
    BY <1>3 DEF ShrinkFimmediate
  <2> QED
    BY <1>1, <2>1, <2>2, OnwardInv, ShrunkInv
<1> QED
  BY <1>2, <1>3

-----------------------------------------------------------------------------
LEMMA InitOptInv == Init => OptInv
<1> SUFFICES ASSUME Init
             PROVE  OptInv
  OBVIOUS
<1>1. /\ text \in Seq(Ins) /\ links \subseteq Links /\ ptr \in [Functions -> Nat]
      /\ main \in Nat /\ LinksFit
  BY ProgramsAssumption DEF Init, LinksFit
<1>2. i \in 1..(Len(text) + 1)
  BY <1>1, LenProperties DEF Init
<1>3. NothingMissed
  <2>1. pass = "not" /\ i = 1 /\ ~repeat
    BY DEF Init
  <2>2. \A k \in 1..(Len(text) - 1) : ~(k < i)
    BY <1>1, <2>1, LenProperties
  <2> QED
    BY <2>1, <2>2 DEF NothingMissed, Rounds
<1> QED
  BY <1>1, <1>2, <1>3 DEF Init, OptInv, TypeOK

LEMMA StepOptInv == OptInv /\ [Next]_vars => OptInv'
<1> SUFFICES ASSUME OptInv, [Next]_vars
             PROVE  OptInv'
  OBVIOUS
<1>1. CASE Next
  BY <1>1, NotConsecutiveInv, PushPopConsecutiveInv, UselessInv, CallFuncRelativeInv,
     SimplifyInv, ShrinkFimmediateInv DEF Next
<1>2. CASE UNCHANGED vars
  BY <1>2 DEF vars, OptInv, TypeOK, LinksFit, NothingMissed
<1> QED
  BY <1>1, <1>2

THEOREM OptInvHolds == Spec => []OptInv
<1>1. Init => OptInv
  BY InitOptInv
<1>2. OptInv /\ [Next]_vars => OptInv'
  BY StepOptInv
<1> QED
  BY <1>1, <1>2, PTL DEF Spec

(* Every variable keeps its type, through all cuts (doptimize.c:62-238).   *)
THEOREM OptimizerTypes == Spec => []TypeOK
<1>1. OptInv => TypeOK
  BY DEF OptInv
<1> QED
  BY <1>1, OptInvHolds, PTL

(***************************************************************************)
(* Each entry of the linker's list stays the address of an instruction     *)
(* with a full immediate, whatever is cut out of the text, and however     *)
(* often (doptimize.c:188-204, 699-711).                                   *)
(***************************************************************************)
THEOREM StaysLinkable == Spec => []Linkable
<1>1. OptInv => Linkable
  BY DEF OptInv, LinksFit, CanLink, Linkable, AddressOf
<1> QED
  BY <1>1, OptInvHolds, PTL

(***************************************************************************)
(* When the rounds end, no pass of them would find anything, and what the  *)
(* passes behind them do makes no new work (doptimize.c:250-285).          *)
(***************************************************************************)
THEOREM RoundsLeaveNothing == Spec => []NothingLeft
<1>1. ASSUME OptInv
      PROVE  NothingLeft
  <2>1. DOMAIN text = 1..Len(text)
    BY <1>1, LenProperties DEF OptInv, TypeOK
  <2> QED
    BY <1>1, <2>1
       DEF OptInv, NothingMissed, NothingLeft, NotPair, PushPopPair, UselessIns, Rounds
<1> QED
  BY <1>1, OptInvHolds, PTL

-----------------------------------------------------------------------------
(***************************************************************************)
(* What a program does, instruction by instruction.                        *)
(***************************************************************************)
Cells  == [value : Int, negated : BOOLEAN]
Stacks == Seq(Cells)
Views  == [what : {"CALL", "OTHER", "RET"}, n : Int, stack : Stacks]

(* Programs of the code generator, and what the optimiser makes of them.   *)
Prog(p) ==
  /\ p.text \in Seq(Ins) /\ p.links \subseteq Links /\ p.ptr \in [Functions -> Nat]
  /\ WellFormed(p)

IsState(s) ==
  /\ s = State(s.at, s.stack, s.shown, s.choices, s.over)
  /\ s.stack \in Stacks /\ s.shown \in Seq(Views)
  /\ s.choices \in Seq(BOOLEAN) /\ s.over \in BOOLEAN

(* The instruction k of the program leads to its instruction j.            *)
Leads(p, k, j) ==
  /\ j \in 1..Len(p.text)
  /\ Target(p, Addresses(p.text)[k], p.text[k]) = Addresses(p.text)[j]

(* Two NOTs leave the stack as it was.                                     *)
LEMMA NegatedTwice ==
  ASSUME NEW stack \in Stacks
  PROVE  Negated(stack) \in Stacks /\ Negated(Negated(stack)) = stack
<1>1. CASE stack = <<>>
  BY <1>1 DEF Negated, Stacks
<1>2. CASE stack # <<>>
  <2>1. Head(stack) \in Cells /\ Tail(stack) \in Seq(Cells) /\ stack = <<Head(stack)>> \o Tail(stack)
    BY <1>2, HeadTailProperties, SMTT(30) DEF Stacks
  <2>2. PICK first, rest : first = Head(stack) /\ rest = Tail(stack)
    OBVIOUS
  <2>3. first \in Cells /\ rest \in Seq(Cells) /\ stack = <<first>> \o rest
    BY <2>1, <2>2
  <2>4. PICK turned : turned = [first EXCEPT !.negated = ~@]
    OBVIOUS
  <2>5. turned \in Cells /\ [turned EXCEPT !.negated = ~@] = first
    BY <2>3, <2>4 DEF Cells
  <2>6. Negated(stack) = <<turned>> \o rest
    BY <1>2, <2>2, <2>4 DEF Negated
  <2>7. ASSUME NEW x \in Cells
        PROVE  /\ <<x>> \o rest \in Seq(Cells) /\ <<x>> \o rest # <<>>
               /\ Head(<<x>> \o rest) = x /\ Tail(<<x>> \o rest) = rest
    BY <2>3, SMTT(30)
  <2>8. Negated(<<turned>> \o rest) = <<[turned EXCEPT !.negated = ~@]>> \o rest
    BY <2>5, <2>7 DEF Negated
  <2> QED
    BY <2>3, <2>5, <2>6, <2>7, <2>8 DEF Stacks
<1> QED
  BY <1>1, <1>2

(* Popping from a stack with one more on top.                              *)
LEMMA PoppedTyped ==
  ASSUME NEW stack \in Stacks, NEW n \in Nat
  PROVE  Popped(stack, n) \in Stacks
<1>1. PICK all : all = Len(stack) /\ all \in Nat
  BY LenProperties DEF Stacks
<1>2. \A k \in (n + 1)..all : stack[k] \in Cells
  BY <1>1, ElementOfSeq DEF Stacks
<1> QED
  BY <1>1, <1>2, SubSeqProperties DEF Popped, Stacks

(* Popping nothing leaves the stack as it was.                             *)
LEMMA PoppedNone ==
  ASSUME NEW stack \in Stacks
  PROVE  Popped(stack, 0) = stack
<1>1. PICK all : all = Len(stack) /\ all \in Nat
  BY LenProperties DEF Stacks
<1>2. stack = [k \in 1..all |-> stack[k]]
  BY <1>1, LenProperties DEF Stacks
<1>3. Popped(stack, 0) = [k \in 1..all |-> stack[k]]
  BY <1>1 DEF Popped
<1> QED
  BY <1>2, <1>3

(* Pushing one element and popping some pops one element less.             *)
LEMMA PoppedMore ==
  ASSUME NEW stack \in Stacks, NEW x \in Cells, NEW n \in Nat \ {0}
  PROVE  /\ <<x>> \o stack \in Stacks
         /\ Popped(<<x>> \o stack, n) = Popped(stack, n - 1)
<1>1. PICK all : all = Len(stack) /\ all \in Nat
  BY LenProperties DEF Stacks
<1>2. PICK more : more = <<x>> \o stack
  OBVIOUS
<1>3. /\ more \in Stacks /\ Len(more) = all + 1
      /\ \A k \in 1..all : more[k + 1] = stack[k]
  BY <1>1, <1>2, SMTT(30) DEF Stacks
<1>4. PICK a, b : a = SubSeq(more, n + 1, all + 1) /\ b = SubSeq(stack, n, all)
  OBVIOUS
<1>5. a = [k \in 1..(all + 1 - n) |-> more[n + k]] /\ b = [k \in 1..(all + 1 - n) |-> stack[n + k - 1]]
  <2>1. \A k \in 1..(all + 1 - n) : (n + 1) + k - 1 = n + k
    OBVIOUS
  <2>2. a = [k \in 1..((all + 1) - (n + 1) + 1) |-> more[(n + 1) + k - 1]]
    BY <1>1, <1>4
  <2>3. b = [k \in 1..(all - n + 1) |-> stack[n + k - 1]]
    BY <1>1, <1>4
  <2>4. (all + 1) - (n + 1) + 1 = all + 1 - n /\ all - n + 1 = all + 1 - n
    BY <1>1
  <2>5. a = [k \in 1..(all + 1 - n) |-> more[(n + 1) + k - 1]]
    BY <2>2, <2>4, Zenon
  <2> QED
    BY <2>1, <2>3, <2>4, <2>5
<1>6. ASSUME NEW k \in 1..(all + 1 - n)
      PROVE  more[n + k] = stack[n + k - 1]
  <2>1. n + k - 1 \in 1..all /\ (n + k - 1) + 1 = n + k
    BY <1>1
  <2> QED
    BY <1>3, <2>1
<1>7. a = b
  BY <1>5, <1>6
<1>8. (n - 1) + 1 = n
  OBVIOUS
<1> QED
  BY <1>1, <1>2, <1>3, <1>4, <1>7, <1>8 DEF Popped

LEMMA PushedTyped ==
  ASSUME NEW stack \in Stacks, NEW n \in Int
  PROVE  Pushed(stack, n) \in Stacks /\ (n = 0 => Pushed(stack, n) = stack)
<1>1. PICK zeros : zeros = [k \in 1..n |-> [value |-> 0, negated |-> FALSE]]
  OBVIOUS
<1>2. [value |-> 0, negated |-> FALSE] \in Cells
  BY DEF Cells
<1>3. zeros \in Seq(Cells) /\ (n = 0 => zeros = <<>>)
  <2>1. CASE n \in Nat
    BY <1>1, <1>2, <2>1
  <2>2. CASE n \notin Nat
    <3>1. 1..n = 1..0
      BY <2>2
    <3>2. zeros = [k \in 1..0 |-> [value |-> 0, negated |-> FALSE]]
      BY <1>1, <3>1, Zenon
    <3> QED
      BY <2>2, <3>2
  <2> QED
    BY <2>1, <2>2
<1>4. <<>> \o stack = stack /\ zeros \o stack \in Seq(Cells)
  BY <1>3, ConcatProperties, ConcatEmptySeq DEF Stacks
<1> QED
  BY <1>1, <1>3, <1>4 DEF Pushed, Stacks

(* What an instruction leaves on the stack, and what it shows, are of      *)
(* their types.                                                            *)
LEMMA AfterTyped ==
  ASSUME NEW ins \in Ins, ins.op = "POPN" => ins.arg \in Nat, NEW stack \in Stacks
  PROVE  After(ins, stack) \in Stacks
<1>1. ins.arg \in Int
  BY DEF Ins
<1>2. ASSUME NEW x \in Cells
      PROVE  <<x>> \o stack \in Stacks
  BY <1>2, ConcatProperties DEF Stacks
<1>3. [value |-> ins.arg, negated |-> FALSE] \in Cells
  BY <1>1 DEF Cells
<1>4. Negated(stack) \in Stacks /\ Pushed(stack, ins.arg) \in Stacks /\ Popped(stack, 1) \in Stacks
  BY <1>1, NegatedTwice, PushedTyped, PoppedTyped
<1>5. ins.op = "POPN" => Popped(stack, ins.arg) \in Stacks
  BY PoppedTyped
<1> QED
  BY <1>2, <1>3, <1>4, <1>5 DEF After

LEMMA ShowsTyped ==
  ASSUME NEW ins \in Ins, NEW stack \in Stacks
  PROVE  Shows(ins, stack) \in Seq(Views)
<1>1. ins.arg \in Int /\ <<>> \in Seq(Views)
  BY DEF Ins
<1>2. /\ [what |-> "CALL", n |-> 0, stack |-> stack] \in Views
      /\ [what |-> "OTHER", n |-> 0, stack |-> stack] \in Views
      /\ [what |-> "RET", n |-> ins.arg, stack |-> stack] \in Views
  BY <1>1 DEF Views
<1>3. /\ Seen("CALL", 0, stack) \in Seq(Views) /\ Seen("OTHER", 0, stack) \in Seq(Views)
      /\ Seen("RET", ins.arg, stack) \in Seq(Views)
  BY <1>2 DEF Seen
<1>4. \/ Shows(ins, stack) = <<>>
      \/ Shows(ins, stack) = Seen("CALL", 0, stack)
      \/ Shows(ins, stack) = Seen("OTHER", 0, stack)
      \/ Shows(ins, stack) = Seen("RET", ins.arg, stack)
  BY DEF Shows
<1> QED
  BY <1>1, <1>3, <1>4

-----------------------------------------------------------------------------
(* No two instructions have one address.                                   *)
LEMMA AddressesOnce ==
  ASSUME NEW t \in Seq(Ins), NEW j \in 1..Len(t), NEW k \in 1..Len(t),
         Addresses(t)[j] = Addresses(t)[k]
  PROVE  j = k
<1>1. PICK n, a : n = Len(t) /\ a = Addresses(t)
  OBVIOUS
<1>2. /\ n \in Nat /\ j \in 1..n /\ k \in 1..n
      /\ \A h \in 1..(n + 1) : a[h] \in Nat
      /\ \A h \in 1..n : Size(t[h]) \in Nat \ {0}
      /\ \A g \in 1..n : \A h \in (g + 1)..(n + 1) : a[g] + Size(t[g]) <= a[h]
  BY <1>1, AddressBounds
<1>3. j \in 1..(n + 1) /\ k \in 1..(n + 1)
  BY <1>2
<1>4. a[j] \in Nat /\ a[k] \in Nat /\ Size(t[j]) \in Nat \ {0} /\ Size(t[k]) \in Nat \ {0}
  BY <1>2, <1>3
<1>5. ~(j < k)
  <2>1. SUFFICES ASSUME j < k
                 PROVE  FALSE
    OBVIOUS
  <2>2. k \in (j + 1)..(n + 1)
    BY <1>2, <2>1
  <2>3. a[j] + Size(t[j]) <= a[k]
    BY <1>2, <2>2
  <2> QED
    BY <1>1, <1>4, <2>3
<1>6. ~(k < j)
  <2>1. SUFFICES ASSUME k < j
                 PROVE  FALSE
    OBVIOUS
  <2>2. j \in (k + 1)..(n + 1)
    BY <1>2, <2>1
  <2>3. a[k] + Size(t[k]) <= a[j]
    BY <1>2, <2>2
  <2> QED
    BY <1>1, <1>4, <2>3
<1> QED
  BY <1>2, <1>5, <1>6

(* What is known of the instructions of a program.                         *)
LEMMA ProgFacts ==
  ASSUME NEW p, Prog(p), NEW n, n = Len(p.text), NEW a, a = Addresses(p.text)
  PROVE  /\ n \in Nat \ {0} /\ DOMAIN p.text = 1..n /\ p.text[n].op \in Returns
         /\ \A k \in 1..n :
              /\ p.text[k] \in Ins /\ a[k] \in Nat
              /\ a[k + 1] = a[k] + Size(p.text[k])
              /\ p.text[k].op = "POPN" => p.text[k].arg \in Nat
              /\ p.text[k].op \notin Returns => k + 1 \in 1..n
<1>1. p.text \in Seq(Ins) /\ WellFormed(p)
  BY DEF Prog
<1>2. n \in Nat /\ DOMAIN p.text = 1..n /\ \A k \in 1..n : p.text[k] \in Ins
  BY <1>1, TextSized, LenProperties
<1>3. /\ \A k \in 1..(n + 1) : a[k] \in Nat
      /\ \A k \in 1..n : a[k + 1] = a[k] + Size(p.text[k])
  BY <1>1, AddressBounds
<1>4. p.text # <<>> /\ p.text[n].op \in Returns
  BY <1>1 DEF WellFormed
<1>5. n # 0
  BY <1>1, <1>4, EmptySeq
<1>6. \A k \in 1..n : p.text[k].op = "POPN" => p.text[k].arg \in Nat
  BY <1>1, <1>2 DEF WellFormed
<1>7. \A k \in 1..n : p.text[k].op \notin Returns => k + 1 \in 1..n
  <2>1. \A k \in 1..n : k # n => k + 1 \in 1..n
    BY <1>2
  <2> QED
    BY <1>4, <2>1
<1>8. \A k \in 1..n : k \in 1..(n + 1)
  BY <1>2
<1> QED
  BY <1>2, <1>3, <1>4, <1>5, <1>6, <1>7, <1>8

(* A jump or call leads to an instruction.                                 *)
LEMMA TargetExists ==
  ASSUME NEW p, Prog(p), NEW k \in 1..Len(p.text), p.text[k].op \in Branches
  PROVE  \E j : Leads(p, k, j)
<1>1. DOMAIN p.text = 1..Len(p.text) /\ WellFormed(p)
  BY ProgFacts DEF Prog
<1>2. CASE p.text[k].op \in Relative
  <2>1. PICK j \in 1..Len(p.text) :
          Addresses(p.text)[k] + p.text[k].arg = Addresses(p.text)[j]
    BY <1>1, <1>2 DEF WellFormed
  <2>2. p.text[k].op # "CALLI"
    BY <1>2 DEF Relative
  <2> QED
    BY <2>1, <2>2 DEF Leads, Target
<1>3. CASE p.text[k].op = "CALLI"
  <2>1. LinksToFunction(p.links, Addresses(p.text)[k])
    BY <1>1, <1>3 DEF WellFormed
  <2>2. PICK l : l = CHOOSE link \in p.links : link.ins = Addresses(p.text)[k]
    OBVIOUS
  <2>3. l.to \in Functions
    BY <2>1, <2>2 DEF LinksToFunction
  <2>4. Entry(p.text, p.ptr[l.to])
    BY <1>1, <2>3 DEF WellFormed
  <2>5. PICK j \in 1..Len(p.text) : Addresses(p.text)[j] = p.ptr[l.to]
    BY <1>1, <2>4 DEF Entry
  <2> QED
    BY <1>3, <2>2, <2>5 DEF Leads, Target
<1> QED
  BY <1>2, <1>3 DEF Branches, Relative

(* A step executes the instruction at the address of the state.            *)
LEMMA StepIs ==
  ASSUME NEW p, Prog(p), NEW s, ~s.over, NEW k \in 1..Len(p.text),
         s.at = Addresses(p.text)[k]
  PROVE  Step(p, s) = Executed(p, s, p.text[k])
<1>1. PICK here : here = {j \in DOMAIN p.text : Addresses(p.text)[j] = s.at}
  OBVIOUS
<1>2. here = {k}
  <2>1. DOMAIN p.text = 1..Len(p.text) /\ p.text \in Seq(Ins)
    BY ProgFacts DEF Prog
  <2> QED
    BY <1>1, <2>1, AddressesOnce
<1>3. here # {} /\ (CHOOSE j \in here : TRUE) = k
  BY <1>2
<1> QED
  BY <1>1, <1>3 DEF Step

(* What one instruction does.                                              *)
Does(p, s, ins, next, z) ==
  /\ IsState(z) /\ z.stack = After(ins, s.stack)
  /\ z.shown = s.shown \o Shows(ins, s.stack)
  /\ ins.op \in Returns => z.over /\ z.choices = s.choices
  /\ ins.op \in Branches /\ s.choices = <<>> => z.over /\ z.choices = s.choices
  /\ ins.op \in Branches /\ s.choices # <<>> =>
       /\ ~z.over /\ z.choices = Tail(s.choices)
       /\ z.at = IF ins.op = "JR" \/ Head(s.choices) THEN Target(p, s.at, ins) ELSE next
  /\ ins.op \notin Returns \union Branches =>
       ~z.over /\ z.choices = s.choices /\ z.at = next

LEMMA StepDoes ==
  ASSUME NEW p, Prog(p), NEW s, IsState(s), ~s.over, NEW k \in 1..Len(p.text),
         s.at = Addresses(p.text)[k]
  PROVE  Does(p, s, p.text[k], Addresses(p.text)[k + 1], Step(p, s))
<1>0. PICK z, ins, after :
        z = Step(p, s) /\ ins = p.text[k] /\ after = Addresses(p.text)[k + 1]
  OBVIOUS
<1>1. z = Executed(p, s, ins)
  BY <1>0, StepIs
<1>2. /\ ins \in Ins /\ after = s.at + Size(ins)
      /\ ins.op = "POPN" => ins.arg \in Nat
  BY <1>0, ProgFacts
<1>3. s.stack \in Stacks /\ s.shown \in Seq(Views) /\ s.choices \in Seq(BOOLEAN)
  BY DEF IsState
<1>4. PICK stack, shown, next, target :
        /\ stack = After(ins, s.stack) /\ shown = s.shown \o Shows(ins, s.stack)
        /\ next = s.at + Size(ins) /\ target = Target(p, s.at, ins)
  OBVIOUS
<1>5. stack \in Stacks /\ shown \in Seq(Views)
  <2>1. Shows(ins, s.stack) \in Seq(Views)
    BY <1>2, <1>3, ShowsTyped
  <2> QED
    BY <1>2, <1>3, <1>4, <2>1, AfterTyped, ConcatProperties
<1>6. s.choices # <<>> => Tail(s.choices) \in Seq(BOOLEAN)
  BY <1>3, HeadTailProperties
<1>7. ASSUME NEW at, NEW choices \in Seq(BOOLEAN), NEW over \in BOOLEAN,
             z = State(at, stack, shown, choices, over)
      PROVE  /\ z.at = at /\ z.stack = stack /\ z.shown = shown
             /\ z.choices = choices /\ z.over = over /\ IsState(z)
  <2>1. /\ z.at = at /\ z.stack = stack /\ z.shown = shown
        /\ z.choices = choices /\ z.over = over
    BY <1>7 DEF State
  <2> QED
    BY <1>5, <1>7, <2>1 DEF IsState
<1>9. ASSUME ins.op \in Returns \/ (ins.op \in Branches /\ s.choices = <<>>)
      PROVE  Does(p, s, ins, after, z)
  <2>1. z = State(s.at, stack, shown, s.choices, TRUE)
    BY <1>1, <1>4, <1>9 DEF Executed
  <2>2. ins.op \in Returns => ins.op \notin Branches
    BY DEF Returns, Branches
  <2>3. z.stack = stack /\ z.shown = shown /\ z.choices = s.choices /\ z.over /\ IsState(z)
    <3>1. /\ z.stack = stack /\ z.shown = shown
          /\ z.choices = s.choices /\ z.over = TRUE /\ IsState(z)
      BY <1>3, <1>7, <2>1
    <3> QED
      BY <3>1
  <2> QED
    BY <1>4, <1>9, <2>2, <2>3 DEF Does
<1>10. ASSUME ins.op \in Branches /\ s.choices # <<>>
      PROVE  Does(p, s, ins, after, z)
  <2>1. ins.op \notin Returns
    BY <1>10 DEF Returns, Branches
  <2>2. PICK at, left : /\ at = IF ins.op = "JR" \/ Head(s.choices) THEN target ELSE next
                        /\ left = Tail(s.choices)
    OBVIOUS
  <2>3. z = State(at, stack, shown, left, FALSE)
    BY <1>1, <1>4, <1>10, <2>1, <2>2 DEF Executed
  <2>4. left \in Seq(BOOLEAN)
    BY <1>6, <1>10, <2>2
  <2>5. /\ z.at = at /\ z.stack = stack /\ z.shown = shown
        /\ z.choices = left /\ z.over = FALSE /\ IsState(z)
    BY <1>7, <2>3, <2>4
  <2> QED
    BY <1>2, <1>4, <1>10, <2>1, <2>2, <2>5 DEF Does
<1>11. ASSUME ins.op \notin Returns \union Branches
      PROVE  Does(p, s, ins, after, z)
  <2>1. z = State(next, stack, shown, s.choices, FALSE)
    BY <1>1, <1>4, <1>11 DEF Executed
  <2>2. /\ z.at = next /\ z.stack = stack /\ z.shown = shown
        /\ z.choices = s.choices /\ z.over = FALSE /\ IsState(z)
    BY <1>3, <1>7, <2>1
  <2> QED
    BY <1>2, <1>4, <1>11, <2>2 DEF Does
<1>12. Does(p, s, ins, after, z)
  BY <1>9, <1>10, <1>11
<1> QED
  BY <1>0, <1>12

-----------------------------------------------------------------------------
(* As CountUp, from 0.                                                     *)
LEMMA CountFrom0 ==
  ASSUME NEW n \in Nat, NEW T, 0 \in T, \A k \in 0..(n - 1) : k \in T => k + 1 \in T
  PROVE  0..n \subseteq T
<1> DEFINE U == {k \in 1..(n + 1) : k - 1 \in T}
<1>1. 1 \in U
  OBVIOUS
<1>2. PICK m \in Nat : m = n + 1 /\ m - 1 = n
  OBVIOUS
<1>3. ASSUME NEW k \in 1..(m - 1), k \in U
      PROVE  k + 1 \in U
  <2>1. k - 1 \in 0..(n - 1) /\ (k - 1) + 1 = k /\ (k + 1) - 1 = k /\ k + 1 \in 1..(n + 1)
    BY <1>2
  <2>2. k \in T
    BY <1>3, <2>1
  <2> QED
    BY <2>1, <2>2
<1> HIDE DEF U
<1>4. 1..m \subseteq U
  BY <1>1, <1>3, CountUp
<1>5. \A k \in 0..n : k + 1 \in 1..m /\ (k + 1) - 1 = k
  BY <1>2
<1> QED
  BY <1>4, <1>5 DEF U

(* The states of a run.                                                    *)
IsRun(r, p, s, n) == r = [h \in 0..n |-> IF h = 0 THEN s ELSE Step(p, r[h - 1])]

(* There is a run of each length, so that the function Run chooses is      *)
(* one.                                                                    *)
LEMMA RunExists ==
  ASSUME NEW p, NEW s, NEW n \in Nat
  PROVE  \E r : IsRun(r, p, s, n)
<1> DEFINE T == {m \in 0..n : \E r : IsRun(r, p, s, m)}
<1>1. 0 \in T
  <2>1. IsRun([h \in {0} |-> s], p, s, 0)
    BY DEF IsRun
  <2> QED
    BY <2>1
<1>2. ASSUME NEW m \in 0..(n - 1), m \in T
      PROVE  m + 1 \in T
  <2>1. PICK r : IsRun(r, p, s, m)
    BY <1>2
  <2> DEFINE z == [h \in 0..(m + 1) |-> IF h = m + 1 THEN Step(p, r[m]) ELSE r[h]]
  <2>2. ASSUME NEW h \in 0..(m + 1)
        PROVE  z[h] = IF h = 0 THEN s ELSE Step(p, z[h - 1])
    <3>1. CASE h = m + 1
      <4>1. h - 1 = m /\ m \in 0..(m + 1) /\ m # m + 1 /\ h # 0
        BY <3>1
      <4>2. z[h - 1] = r[m] /\ z[h] = Step(p, r[m])
        BY <3>1, <4>1
      <4> QED
        BY <4>1, <4>2
    <3>2. CASE h # m + 1
      <4>1. h \in 0..m /\ (h # 0 => h - 1 \in 0..(m + 1) /\ h - 1 # m + 1)
        BY <3>2
      <4>2. r[h] = IF h = 0 THEN s ELSE Step(p, r[h - 1])
        BY <2>1, <4>1 DEF IsRun
      <4>3. z[h] = r[h] /\ (h # 0 => z[h - 1] = r[h - 1])
        BY <3>2, <4>1
      <4> QED
        BY <4>2, <4>3
    <3> QED
      BY <3>1, <3>2
  <2>3. z = [h \in 0..(m + 1) |-> z[h]]
    OBVIOUS
  <2>4. IsRun(z, p, s, m + 1)
    <3> HIDE DEF z
    <3> QED
      BY <2>2, <2>3 DEF IsRun
  <2>5. m + 1 \in 0..n
    OBVIOUS
  <2> QED
    BY <2>4, <2>5
<1> HIDE DEF T
<1>3. n \in T
  BY <1>1, <1>2, CountFrom0
<1> QED
  BY <1>3 DEF T

RunOf(r, p, address, choices, n) ==
  /\ r[0] = State(address, <<>>, <<>>, choices, FALSE)
  /\ \A h \in 0..(n - 1) : r[h + 1] = Step(p, r[h])

LEMMA RunIs ==
  ASSUME NEW p, NEW address, NEW choices, NEW n \in Nat
  PROVE  RunOf(Run(p, address, choices, n), p, address, choices, n)
<1>0. PICK r : r = Run(p, address, choices, n)
  OBVIOUS
<1>1. PICK s : s = State(address, <<>>, <<>>, choices, FALSE)
  OBVIOUS
<1>2. IsRun(r, p, s, n)
  <2>1. PICK z : IsRun(z, p, s, n)
    BY RunExists
  <2>2. r = CHOOSE run : run = [h \in 0..n |-> IF h = 0 THEN s ELSE Step(p, run[h - 1])]
    BY <1>0, <1>1 DEF Run
  <2> QED
    BY <2>1, <2>2 DEF IsRun
<1>3. r[0] = s
  <2>1. 0 \in 0..n
    OBVIOUS
  <2> QED
    BY <1>2, <2>1 DEF IsRun
<1>4. ASSUME NEW h \in 0..(n - 1)
      PROVE  r[h + 1] = Step(p, r[h])
  <2>1. h + 1 \in 0..n /\ h + 1 # 0 /\ (h + 1) - 1 = h
    OBVIOUS
  <2> QED
    BY <1>2, <2>1 DEF IsRun
<1> QED
  BY <1>0, <1>1, <1>3, <1>4 DEF RunOf

(* The arithmetic of the bound on the steps.                               *)
LEMMA Times ==
  ASSUME NEW x \in Nat, NEW y \in Nat, NEW size \in Nat
  PROVE  /\ (x + 1) * size = x * size + size /\ x * size \in Nat
         /\ x <= y => x * size <= y * size
OBVIOUS

StartState(s, address, choices) == s = State(address, <<>>, <<>>, choices, FALSE)

LEMMA StartIs ==
  ASSUME NEW address, NEW choices \in Seq(BOOLEAN), NEW s, StartState(s, address, choices)
  PROVE  /\ IsState(s) /\ s.at = address /\ s.stack = <<>> /\ s.shown = <<>>
         /\ s.choices = choices /\ ~s.over
<1>1. /\ s.at = address /\ s.stack = <<>> /\ s.shown = <<>>
      /\ s.choices = choices /\ s.over = FALSE
  BY DEF StartState, State
<1>2. s.stack \in Stacks /\ s.shown \in Seq(Views)
  BY <1>1 DEF Stacks
<1> QED
  BY <1>1, <1>2 DEF IsState, StartState

(* At an instruction, with c choices of count left, after no more steps    *)
(* than there can be.                                                      *)
InTime(h, c, k, count, size) ==
  c \in Nat /\ c <= count /\ h <= (count - c) * size + (k - 1)

Going(p, h, s, count, size) ==
  \E k \in 1..Len(p.text) :
    s.at = Addresses(p.text)[k] /\ InTime(h, Len(s.choices), k, count, size)

(* Between two choices every instruction is executed once at most, so that *)
(* a run is over in time.                                                  *)
LEMMA RunsEnd ==
  ASSUME NEW p, Prog(p), NEW choices \in Seq(BOOLEAN), NEW size \in Nat, Len(p.text) <= size,
         NEW start \in 1..Len(p.text),
         NEW n, n = (Len(choices) + 1) * size + 1,
         NEW r, StartState(r[0], Addresses(p.text)[start], choices),
         \A h \in 0..(n - 1) : r[h + 1] = Step(p, r[h])
  PROVE  n \in Nat /\ r[n].over
<1>1. PICK count, last, a :
        count = Len(choices) /\ last = Len(p.text) /\ a = Addresses(p.text)
  OBVIOUS
<1>2. /\ count \in Nat /\ last \in Nat \ {0} /\ last <= size /\ start \in 1..last
      /\ n = (count + 1) * size + 1
  BY <1>1, ProgFacts, LenProperties
<1>3. n \in Nat /\ (count + 1) * size = count * size + size /\ count * size \in Nat
  BY <1>2, Times
<1> DEFINE T == {h \in 0..n : IsState(r[h]) /\ (~r[h].over => Going(p, h, r[h], count, size))}
<1>4. 0 \in T
  <2>1. /\ IsState(r[0]) /\ r[0].at = a[start] /\ r[0].choices = choices
    BY <1>1, StartIs
  <2>2. InTime(0, count, start, count, size)
    BY <1>2, <1>3 DEF InTime
  <2>3. Going(p, 0, r[0], count, size)
    BY <1>1, <1>2, <2>1, <2>2 DEF Going
  <2> QED
    BY <1>3, <2>1, <2>3
<1>5. ASSUME NEW h \in 0..(n - 1), h \in T
      PROVE  h + 1 \in T
  <2>1. PICK s, z : s = r[h] /\ z = r[h + 1]
    OBVIOUS
  <2>2. z = Step(p, s) /\ IsState(s) /\ h + 1 \in 0..n /\ h \in Nat
    BY <1>3, <1>5, <2>1
  <2>3. CASE s.over
    <3>1. z = s
      BY <2>2, <2>3 DEF Step
    <3> QED
      BY <2>1, <2>2, <2>3, <3>1
  <2>4. CASE ~s.over
    <3>1. PICK k \in 1..last : s.at = a[k] /\ InTime(h, Len(s.choices), k, count, size)
      BY <1>1, <1>5, <2>1, <2>4 DEF Going
    <3>2. PICK ins : ins = p.text[k]
      OBVIOUS
    <3>3. PICK c : c = Len(s.choices) /\ c \in Nat /\ c <= count
                   /\ h <= (count - c) * size + (k - 1)
      BY <3>1 DEF InTime
    <3>4. /\ IsState(z)
          /\ ins.op \in Returns => z.over
          /\ ins.op \in Branches /\ s.choices = <<>> => z.over
          /\ ins.op \in Branches /\ s.choices # <<>> =>
               /\ z.choices = Tail(s.choices)
               /\ z.at = Target(p, s.at, ins) \/ z.at = a[k + 1]
          /\ ins.op \notin Returns \union Branches => z.choices = s.choices /\ z.at = a[k + 1]
      <4>1. k \in 1..Len(p.text) /\ s.at = Addresses(p.text)[k]
        BY <1>1, <3>1
      <4>2. Does(p, s, ins, Addresses(p.text)[k + 1], z)
        BY <2>2, <2>4, <3>2, <4>1, StepDoes
      <4> QED
        BY <1>1, <4>2 DEF Does
    <3>5. ins.op \notin Returns => k + 1 \in 1..last
      BY <1>1, <3>2, ProgFacts
    <3>6. CASE ins.op \in Returns \/ (ins.op \in Branches /\ s.choices = <<>>)
      BY <2>1, <2>2, <3>4, <3>6
    <3>7. CASE ins.op \in Branches /\ s.choices # <<>>
      <4>1. ins.op \notin Returns
        BY <3>7 DEF Branches, Returns
      <4>2. \E j \in 1..last : Target(p, s.at, ins) = a[j]
        BY <1>1, <3>1, <3>2, <3>7, TargetExists DEF Leads
      <4>3. PICK j \in 1..last : z.at = a[j]
        BY <3>4, <3>5, <3>7, <4>1, <4>2
      <4>4. c # 0 /\ Len(z.choices) = c - 1
        <5>1. s.choices \in Seq(BOOLEAN)
          BY <2>2 DEF IsState
        <5> QED
          BY <3>3, <3>4, <3>7, <5>1, HeadTailProperties, EmptySeq
      <4>5. PICK d : d = count - c /\ d \in Nat /\ count - (c - 1) = d + 1 /\ c - 1 \in Nat
        <5>1. count \in Nat /\ c \in Nat /\ c <= count /\ c # 0
          BY <1>2, <3>3, <4>4
        <5> QED
          BY <5>1
      <4>6. (d + 1) * size = d * size + size /\ d * size \in Nat
        BY <4>5, Times
      <4>7. h <= d * size + (k - 1)
        BY <3>3, <4>5
      <4>8. h + 1 <= (d + 1) * size + (j - 1)
        BY <1>2, <2>2, <4>6, <4>7
      <4>9. InTime(h + 1, Len(z.choices), j, count, size)
        <5>1. c \in Nat /\ c <= count /\ count \in Nat
          BY <1>2, <3>3
        <5>2. h + 1 <= (count - (c - 1)) * size + (j - 1)
          BY <4>5, <4>8, Zenon
        <5> QED
          BY <4>4, <4>5, <5>1, <5>2 DEF InTime
      <4>10. Going(p, h + 1, z, count, size)
        BY <1>1, <4>3, <4>9 DEF Going
      <4> QED
        BY <2>1, <2>2, <3>4, <4>10
    <3>8. CASE ins.op \notin Returns \union Branches
      <4>1. k + 1 \in 1..last /\ z.at = a[k + 1] /\ Len(z.choices) = c
        BY <3>3, <3>4, <3>5, <3>8
      <4>2. PICK d : d = (count - c) * size /\ d \in Nat
        BY <1>2, <3>3, Times
      <4>3. h + 1 <= d + ((k + 1) - 1)
        BY <1>2, <2>2, <3>3, <4>2
      <4>4. InTime(h + 1, Len(z.choices), k + 1, count, size)
        BY <3>3, <4>1, <4>2, <4>3 DEF InTime
      <4>5. Going(p, h + 1, z, count, size)
        BY <1>1, <4>1, <4>4 DEF Going
      <4> QED
        BY <2>1, <2>2, <3>4, <4>5
    <3> QED
      BY <3>6, <3>7, <3>8
  <2> QED
    BY <2>3, <2>4
<1> HIDE DEF T
<1>6. n \in T
  <2>1. n \in 0..n
    BY <1>3
  <2>2. 0..n \subseteq T
    BY <1>3, <1>4, <1>5, CountFrom0
  <2> QED
    BY <2>1, <2>2
<1>7. ASSUME ~r[n].over
      PROVE  FALSE
  <2>1. PICK k \in 1..last : InTime(n, Len(r[n].choices), k, count, size)
    BY <1>1, <1>6, <1>7 DEF T, Going
  <2>2. PICK c : c \in Nat /\ c <= count /\ n <= (count - c) * size + (k - 1)
    BY <2>1 DEF InTime
  <2>3. (count - c) * size <= count * size /\ (count - c) * size \in Nat
    BY <1>2, <2>2, Times
  <2>4. PICK x, y : x = (count - c) * size /\ y = count * size
    OBVIOUS
  <2>5. x \in Nat /\ y \in Nat /\ x <= y /\ n <= x + (k - 1) /\ n = y + size + 1
    BY <1>2, <1>3, <2>2, <2>3, <2>4
  <2> QED
    BY <1>2, <2>5
<1> QED
  BY <1>3, <1>7

-----------------------------------------------------------------------------
(***************************************************************************)
(* Two programs side by side, where q is what is left of p after a cut: m  *)
(* has for each instruction of p the one of q that is reached with it.     *)
(* Behind the first instruction of the piece, c, the stacks may differ:    *)
(* the first program has negated what is on top, or pushed something.      *)
(***************************************************************************)
Mid(mid, c, k) == mid # "none" /\ k = c + 1

Fit(mid, c, k, stack, other) ==
  IF ~Mid(mid, c, k) THEN stack = other
  ELSE IF mid = "not" THEN stack = Negated(other)
  ELSE \E x \in Cells : stack = <<x>> \o other

(* An instruction of the piece, which q does without.                      *)
Skipped(p, m, mid, c, k) ==
  /\ p.text[k].op \notin Returns \union Branches /\ m[k + 1] = m[k]
  /\ \A stack, other \in Stacks : Fit(mid, c, k, stack, other) =>
       /\ Shows(p.text[k], stack) = <<>>
       /\ Fit(mid, c, k + 1, After(p.text[k], stack), other)

SameWays(ins, other) ==
  /\ ins.op \in Returns <=> other.op \in Returns
  /\ ins.op \in Branches <=> other.op \in Branches
  /\ ins.op = "JR" <=> other.op = "JR"

(* An instruction that both have.                                          *)
Followed(p, q, m, mid, c, k) ==
  /\ SameWays(p.text[k], q.text[m[k]])
  /\ \A stack, other \in Stacks : Fit(mid, c, k, stack, other) =>
       /\ Shows(p.text[k], stack) = Shows(q.text[m[k]], other)
       /\ p.text[k].op \notin Returns =>
            Fit(mid, c, k + 1, After(p.text[k], stack), After(q.text[m[k]], other))
  /\ p.text[k].op \notin Returns => m[k + 1] = m[k] + 1
  /\ p.text[k].op \in Branches =>
       /\ ~Mid(mid, c, k + 1)
       /\ \A j : Leads(p, k, j) => ~Mid(mid, c, j) /\ Leads(q, m[k], m[j])

Mirrors(p, q, m, mid, c) ==
  /\ m \in [1..Len(p.text) -> 1..Len(q.text)]
  /\ \A k \in 1..Len(p.text) : Skipped(p, m, mid, c, k) \/ Followed(p, q, m, mid, c, k)

Beside(p, q, m, mid, c, s, z) ==
  \E k \in 1..Len(p.text) :
    /\ s.at = Addresses(p.text)[k] /\ z.at = Addresses(q.text)[m[k]]
    /\ Fit(mid, c, k, s.stack, z.stack)

Together(p, q, m, mid, c, s, z) ==
  /\ IsState(s) /\ IsState(z)
  /\ s.shown = z.shown /\ s.choices = z.choices /\ s.over = z.over
  /\ ~s.over => Beside(p, q, m, mid, c, s, z)

(* One step of the original is followed by one step, or by none.           *)
LEMMA StepTogether ==
  ASSUME NEW p, NEW q, NEW m, NEW mid, NEW c, NEW s, NEW z,
         Prog(p), Prog(q), Mirrors(p, q, m, mid, c), Together(p, q, m, mid, c, s, z)
  PROVE  \/ Together(p, q, m, mid, c, Step(p, s), z)
         \/ Together(p, q, m, mid, c, Step(p, s), Step(q, z))
<1>1. CASE s.over
  <2>1. Step(p, s) = s
    BY <1>1 DEF Step
  <2> QED
    BY <2>1
<1>2. CASE ~s.over
  <2>1. /\ IsState(s) /\ IsState(z) /\ s.shown = z.shown /\ s.choices = z.choices
        /\ ~s.over /\ ~z.over
    BY <1>2 DEF Together
  <2>2. PICK k \in 1..Len(p.text) :
          /\ s.at = Addresses(p.text)[k] /\ z.at = Addresses(q.text)[m[k]]
          /\ Fit(mid, c, k, s.stack, z.stack)
    BY <1>2 DEF Together, Beside
  <2>3. PICK ins, other, after, behind, t, u :
          /\ ins = p.text[k] /\ other = q.text[m[k]]
          /\ after = Addresses(p.text)[k + 1] /\ behind = Addresses(q.text)[m[k] + 1]
          /\ t = Step(p, s) /\ u = Step(q, z)
    OBVIOUS
  <2>4. m \in [1..Len(p.text) -> 1..Len(q.text)] /\ m[k] \in 1..Len(q.text)
    BY DEF Mirrors
  <2>5. Does(p, s, ins, after, t) /\ Does(q, z, other, behind, u)
    BY <2>1, <2>2, <2>3, <2>4, StepDoes
  <2>6. s.stack \in Stacks /\ z.stack \in Stacks
    BY <2>1 DEF IsState
  <2>7. ins.op \notin Returns => k + 1 \in 1..Len(p.text)
    BY <2>3, ProgFacts
  <2>8. CASE Skipped(p, m, mid, c, k)
    <3>1. /\ ins.op \notin Returns \union Branches /\ m[k + 1] = m[k]
          /\ Shows(ins, s.stack) = <<>>
          /\ Fit(mid, c, k + 1, After(ins, s.stack), z.stack)
      BY <2>2, <2>3, <2>6, <2>8 DEF Skipped
    <3>2. /\ IsState(t) /\ t.stack = After(ins, s.stack) /\ t.shown = s.shown \o <<>>
          /\ ~t.over /\ t.choices = s.choices /\ t.at = after
      BY <2>5, <3>1 DEF Does
    <3>3. t.shown = z.shown /\ t.over = z.over
      <4>1. s.shown \in Seq(Views) /\ t.over \in BOOLEAN /\ z.over \in BOOLEAN
        BY <2>1, <3>2 DEF IsState
      <4> QED
        BY <2>1, <3>2, <4>1, ConcatEmptySeq
    <3>4. Beside(p, q, m, mid, c, t, z)
      BY <2>2, <2>3, <2>7, <3>1, <3>2 DEF Beside
    <3>5. Together(p, q, m, mid, c, t, z)
      BY <2>1, <3>2, <3>3, <3>4 DEF Together
    <3> QED
      BY <2>3, <3>5
  <2>9. CASE Followed(p, q, m, mid, c, k)
    <3>1. /\ SameWays(ins, other) /\ Shows(ins, s.stack) = Shows(other, z.stack)
          /\ ins.op \notin Returns =>
               Fit(mid, c, k + 1, After(ins, s.stack), After(other, z.stack)) /\ m[k + 1] = m[k] + 1
          /\ ins.op \in Branches =>
               /\ ~Mid(mid, c, k + 1)
               /\ \A j : Leads(p, k, j) => ~Mid(mid, c, j) /\ Leads(q, m[k], m[j])
      BY <2>2, <2>3, <2>6, <2>9 DEF Followed
    <3>2. /\ IsState(t) /\ IsState(u) /\ t.shown = u.shown
          /\ t.stack = After(ins, s.stack) /\ u.stack = After(other, z.stack)
      BY <2>1, <2>5, <3>1 DEF Does
    <3>3. CASE ins.op \in Returns \/ (ins.op \in Branches /\ s.choices = <<>>)
      <4>1. t.over /\ u.over /\ t.choices = u.choices /\ t.over = u.over
        <5>1. t.over /\ t.choices = s.choices
          BY <2>5, <3>3 DEF Does
        <5>2. u.over /\ u.choices = z.choices
          BY <2>1, <2>5, <3>1, <3>3 DEF Does, SameWays
        <5>3. t.over \in BOOLEAN /\ u.over \in BOOLEAN
          BY <3>2 DEF IsState
        <5> QED
          BY <2>1, <5>1, <5>2, <5>3
      <4>2. Together(p, q, m, mid, c, t, u)
        BY <3>2, <4>1 DEF Together
      <4> QED
        BY <2>3, <4>2
    <3>4. CASE ~(ins.op \in Returns \/ (ins.op \in Branches /\ s.choices = <<>>))
      <4>1. /\ ~t.over /\ ~u.over /\ t.choices = u.choices /\ t.over = u.over
        <5>1. ~t.over /\ t.choices = IF ins.op \in Branches THEN Tail(s.choices) ELSE s.choices
          BY <2>5, <3>4 DEF Does
        <5>2. ~u.over /\ u.choices = IF ins.op \in Branches THEN Tail(z.choices) ELSE z.choices
          BY <2>1, <2>5, <3>1, <3>4 DEF Does, SameWays
        <5>3. t.over \in BOOLEAN /\ u.over \in BOOLEAN
          BY <3>2 DEF IsState
        <5> QED
          BY <2>1, <5>1, <5>2, <5>3
      <4>2. CASE /\ ins.op \in Branches
                 /\ ins.op = "JR" \/ Head(s.choices)
        <5>1. /\ t.at = Target(p, s.at, ins) /\ u.at = Target(q, z.at, other)
          BY <2>1, <2>5, <3>1, <3>4, <4>2 DEF Does, SameWays
        <5>2. PICK j : Leads(p, k, j)
          BY <2>3, <4>2, TargetExists
        <5>3. ~Mid(mid, c, j) /\ Leads(q, m[k], m[j]) /\ ~Mid(mid, c, k + 1)
          BY <3>1, <4>2, <5>2
        <5>4. /\ j \in 1..Len(p.text) /\ t.at = Addresses(p.text)[j]
              /\ u.at = Addresses(q.text)[m[j]]
          BY <2>2, <2>3, <5>1, <5>2, <5>3 DEF Leads
        <5>5. Fit(mid, c, j, t.stack, u.stack)
          BY <3>1, <3>2, <3>4, <5>3 DEF Fit
        <5>6. Beside(p, q, m, mid, c, t, u)
          BY <5>4, <5>5 DEF Beside
        <5>7. Together(p, q, m, mid, c, t, u)
          BY <3>2, <4>1, <5>6 DEF Together
        <5> QED
          BY <2>3, <5>7
      <4>3. CASE ~(ins.op \in Branches /\ (ins.op = "JR" \/ Head(s.choices)))
        <5>1. t.at = after /\ u.at = behind
          BY <2>1, <2>5, <3>1, <3>4, <4>3 DEF Does, SameWays
        <5>2. k + 1 \in 1..Len(p.text) /\ m[k + 1] = m[k] + 1
          BY <2>7, <3>1, <3>4
        <5>3. Fit(mid, c, k + 1, t.stack, u.stack)
          BY <3>1, <3>2, <3>4
        <5>4. Beside(p, q, m, mid, c, t, u)
          BY <2>3, <5>1, <5>2, <5>3 DEF Beside
        <5>5. Together(p, q, m, mid, c, t, u)
          BY <3>2, <4>1, <5>4 DEF Together
        <5> QED
          BY <2>3, <5>5
      <4> QED
        BY <4>2, <4>3
    <3> QED
      BY <3>3, <3>4
  <2> QED
    BY <2>8, <2>9 DEF Mirrors
<1> QED
  BY <1>1, <1>2

(* What a run has shown when it is over.                                   *)
Outcome(p, address, choices, n) == Run(p, address, choices, n)[n].shown

(* From an instruction of p that is not inside the piece, both show the    *)
(* same.                                                                   *)
LEMMA MirrorsShow ==
  ASSUME NEW p, NEW q, NEW m, NEW mid, NEW c, Prog(p), Prog(q), Mirrors(p, q, m, mid, c),
         NEW choices \in Seq(BOOLEAN), NEW size \in Nat, Len(p.text) <= size,
         NEW start \in 1..Len(p.text), ~Mid(mid, c, start),
         NEW n, n = (Len(choices) + 1) * size + 1
  PROVE  Outcome(p, Addresses(p.text)[start], choices, n) =
           Outcome(q, Addresses(q.text)[m[start]], choices, n)
<1>1. n \in Nat
  <2>1. Len(choices) \in Nat
    BY LenProperties
  <2>2. (Len(choices) + 1) * size \in Nat
    BY <2>1, Times
  <2> QED
    BY <2>2
<1>2. PICK r, z : /\ r = Run(p, Addresses(p.text)[start], choices, n)
                  /\ z = Run(q, Addresses(q.text)[m[start]], choices, n)
  OBVIOUS
<1>3. /\ StartState(r[0], Addresses(p.text)[start], choices)
      /\ StartState(z[0], Addresses(q.text)[m[start]], choices)
      /\ \A h \in 0..(n - 1) : r[h + 1] = Step(p, r[h])
      /\ \A h \in 0..(n - 1) : z[h + 1] = Step(q, z[h])
  <2>1. RunOf(r, p, Addresses(p.text)[start], choices, n)
    BY <1>1, <1>2, RunIs
  <2>2. RunOf(z, q, Addresses(q.text)[m[start]], choices, n)
    BY <1>1, <1>2, RunIs
  <2> QED
    BY <2>1, <2>2 DEF StartState, RunOf
<1>4. r[n].over
  BY <1>3, RunsEnd
<1>5. Together(p, q, m, mid, c, r[0], z[0])
  <2>1. /\ IsState(r[0]) /\ r[0].at = Addresses(p.text)[start] /\ r[0].stack = <<>>
        /\ r[0].shown = <<>> /\ r[0].choices = choices /\ ~r[0].over
    BY <1>3, StartIs
  <2>2. /\ IsState(z[0]) /\ z[0].at = Addresses(q.text)[m[start]] /\ z[0].stack = <<>>
        /\ z[0].shown = <<>> /\ z[0].choices = choices /\ ~z[0].over
    BY <1>3, StartIs
  <2>3. Fit(mid, c, start, r[0].stack, z[0].stack)
    BY <2>1, <2>2 DEF Fit
  <2>4. Beside(p, q, m, mid, c, r[0], z[0])
    BY <2>1, <2>2, <2>3 DEF Beside
  <2>5. r[0].over = z[0].over
    BY <2>1, <2>2 DEF IsState
  <2> QED
    BY <2>1, <2>2, <2>4, <2>5 DEF Together
<1> DEFINE T == {h \in 0..n : \E g \in 0..h : Together(p, q, m, mid, c, r[h], z[g])}
<1>6. 0 \in T
  <2>1. 0 \in 0..n /\ 0 \in 0..0
    BY <1>1
  <2> QED
    BY <1>5, <2>1
<1>7. ASSUME NEW h \in 0..(n - 1), h \in T
      PROVE  h + 1 \in T
  <2>1. PICK g \in 0..h : Together(p, q, m, mid, c, r[h], z[g])
    BY <1>7
  <2>2. /\ h + 1 \in 0..n /\ g \in 0..(n - 1) /\ g \in 0..(h + 1) /\ g + 1 \in 0..(h + 1)
    BY <1>1
  <2>3. r[h + 1] = Step(p, r[h]) /\ z[g + 1] = Step(q, z[g])
    BY <1>3, <2>2
  <2>4. \/ Together(p, q, m, mid, c, r[h + 1], z[g])
        \/ Together(p, q, m, mid, c, r[h + 1], z[g + 1])
    BY <2>1, <2>3, StepTogether
  <2> QED
    BY <2>2, <2>4
<1> HIDE DEF T
<1>8. n \in T
  <2>1. n \in 0..n
    BY <1>1
  <2>2. 0..n \subseteq T
    BY <1>1, <1>6, <1>7, CountFrom0
  <2> QED
    BY <2>1, <2>2
<1>9. PICK g \in 0..n : Together(p, q, m, mid, c, r[n], z[g])
  BY <1>8 DEF T
<1>10. z[g].over /\ z[g].shown = r[n].shown
  BY <1>4, <1>9 DEF Together
<1> DEFINE U == {h \in 0..(n - g) : z[g + h] = z[g]}
<1>11. PICK left \in Nat : left = n - g
  BY <1>1
<1>12. 0 \in U
  BY <1>1, <1>11
<1>13. ASSUME NEW h \in 0..(left - 1), h \in U
       PROVE  h + 1 \in U
  <2>1. g + h \in 0..(n - 1) /\ (g + h) + 1 = g + (h + 1) /\ h + 1 \in 0..(n - g)
    BY <1>1, <1>11
  <2>2. z[g + (h + 1)] = Step(q, z[g + h]) /\ z[g + h] = z[g]
    BY <1>3, <1>13, <2>1
  <2>3. Step(q, z[g]) = z[g]
    BY <1>10 DEF Step
  <2> QED
    BY <2>1, <2>2, <2>3
<1> HIDE DEF U
<1>14. left \in U
  <2>1. left \in 0..left
    OBVIOUS
  <2>2. 0..left \subseteq U
    BY <1>12, <1>13, CountFrom0
  <2> QED
    BY <2>1, <2>2
<1>15. z[n] = z[g]
  <2>1. g + left = n
    BY <1>1, <1>11
  <2> QED
    BY <1>14, <2>1 DEF U
<1> QED
  BY <1>2, <1>10, <1>15 DEF Outcome

-----------------------------------------------------------------------------
(***************************************************************************)
(* What a cut of len bytes at start makes of a program: kept are the       *)
(* instructions that are left, m has where each is now, or for one that is *)
(* not left, where execution goes on.  Everything that holds an address    *)
(* holds the one it has moved to.                                          *)
(***************************************************************************)
SameKind(ins, other) ==
  /\ \/ other.op = ins.op
     \/ ins.op \in Returns /\ other.op \in Returns
     \/ ins.op = "POPN" /\ other.op = "POP"
  /\ other.op = "POPN" => other.arg \in Nat

Relocations(p, q, m, kept, start, len) ==
  /\ \A k \in 1..Len(p.text) : Addresses(q.text)[m[k]] = Moved(Addresses(p.text)[k], start, len)
  /\ \A k \in kept : p.text[k].op \in Relative =>
       Addresses(q.text)[m[k]] + q.text[m[k]].arg
         = Moved(Addresses(p.text)[k] + p.text[k].arg, start, len)
  /\ q.links = {Redirected(l, start, len) :
                  l \in {l \in p.links : l.ins \notin start..(start + len - 1)}}
  /\ \A l \in p.links : \E k \in 1..Len(p.text) :
       Addresses(p.text)[k] = l.ins /\ (k \in kept <=> l.ins \notin start..(start + len - 1))
  /\ q.ptr = [f \in Functions |-> Moved(p.ptr[f], start, len)]
  /\ q.main = Moved(p.main, start, len)

Squeezed(p, q, m, kept, start, len) ==
  /\ m \in [1..Len(p.text) -> 1..Len(q.text)] /\ m[1] = 1
  /\ kept \subseteq 1..Len(p.text)
  /\ \A h \in 1..Len(q.text) : \E k \in kept : m[k] = h
  /\ \A j, k \in kept : m[j] = m[k] => j = k
  /\ Len(p.text) \in kept /\ m[Len(p.text)] = Len(q.text)
  /\ \A k \in kept : SameKind(p.text[k], q.text[m[k]])
  /\ \A k \in 1..(Len(p.text) - 1) :
       p.text[k].op \in Returns => k \in kept /\ m[k + 1] = m[k] + 1
  /\ start \in Nat /\ len \in Nat /\ Relocations(p, q, m, kept, start, len)

LEMMA MovedNat ==
  ASSUME NEW address \in Nat, NEW start \in Nat, NEW len \in Nat
  PROVE  Moved(address, start, len) \in Nat
BY DEF Moved

(* Links and entries move like the addresses they stand for.               *)
LEMMA RedirectedMoves ==
  ASSUME NEW l \in Links, NEW start \in Nat, NEW len \in Nat,
         l.ins \notin start..(start + len - 1)
  PROVE  /\ Redirected(l, start, len).ins = Moved(l.ins, start, len)
         /\ Redirected(l, start, len).to = l.to
<1>1. PICK d : d = Redirected(l, start, len)
  OBVIOUS
<1>2. /\ l.ins \in Nat /\ d.to = l.to
      /\ d.ins = IF l.ins >= start + len THEN l.ins - len ELSE l.ins
  BY <1>1, SMTT(30) DEF Links, Redirected
<1>3. d.ins = Moved(l.ins, start, len)
  BY <1>2 DEF Moved
<1> QED
  BY <1>1, <1>2, <1>3

(* An entry of the list of the linker is for one function.                 *)
LEMMA LinkFound ==
  ASSUME NEW ls, NEW address, LinksToFunction(ls, address)
  PROVE  \E l \in ls :
           /\ l.ins = address /\ l.to \in Functions
           /\ \A other \in ls : other.ins = address => other = l
           /\ (CHOOSE other \in ls : other.ins = address) = l
<1>1. PICK l \in ls : /\ l.ins = address /\ l.to \in Functions
                      /\ \A other \in ls : other.ins = address => other = l
  BY DEF LinksToFunction
<1>2. PICK d : d = CHOOSE other \in ls : other.ins = address
  OBVIOUS
<1>3. d \in ls /\ d.ins = address
  BY <1>1, <1>2
<1> QED
  BY <1>1, <1>2, <1>3

(* A call that is left still finds its function.                           *)
LEMMA SqueezedLink ==
  ASSUME NEW p, NEW q, NEW m, NEW kept, NEW start, NEW len, Prog(p), q.text \in Seq(Ins),
         Squeezed(p, q, m, kept, start, len),
         NEW k \in kept, NEW l \in p.links, l.ins = Addresses(p.text)[k], l.to \in Functions,
         \A other \in p.links : other.ins = l.ins => other = l
  PROVE  \E d \in q.links :
           /\ d.ins = Addresses(q.text)[m[k]] /\ d.to = l.to
           /\ \A other \in q.links : other.ins = d.ins => other = d
<1>1. PICK a, b : a = Addresses(p.text) /\ b = Addresses(q.text)
  OBVIOUS
<1>2. /\ p.text \in Seq(Ins) /\ p.links \subseteq Links /\ start \in Nat /\ len \in Nat
      /\ kept \subseteq 1..Len(p.text)
  BY DEF Prog, Squeezed
<1>3. /\ \A j \in 1..Len(p.text) : b[m[j]] = Moved(a[j], start, len)
      /\ \A x \in p.links : \E j \in 1..Len(p.text) :
           a[j] = x.ins /\ (j \in kept <=> x.ins \notin start..(start + len - 1))
      /\ q.links = {Redirected(x, start, len) :
                      x \in {x \in p.links : x.ins \notin start..(start + len - 1)}}
  BY <1>1 DEF Squeezed, Relocations
<1>4. ASSUME NEW x \in p.links
      PROVE  \E j \in 1..Len(p.text) :
               a[j] = x.ins /\ (j \in kept <=> x.ins \notin start..(start + len - 1))
  BY <1>3
<1>5. l.ins \notin start..(start + len - 1)
  <2>1. PICK j \in 1..Len(p.text) :
          a[j] = l.ins /\ (j \in kept <=> l.ins \notin start..(start + len - 1))
    BY <1>4
  <2>2. j = k
    BY <1>1, <1>2, <2>1, AddressesOnce
  <2> QED
    BY <2>1, <2>2
<1>6. PICK d : d = Redirected(l, start, len)
  OBVIOUS
<1>7. d \in q.links /\ d.ins = Moved(l.ins, start, len) /\ d.to = l.to
  <2>1. d \in q.links
    BY <1>3, <1>5, <1>6
  <2> QED
    BY <1>2, <1>5, <1>6, <2>1, RedirectedMoves
<1>8. d.ins = b[m[k]]
  BY <1>1, <1>2, <1>3, <1>7
<1>9. ASSUME NEW other \in q.links, other.ins = d.ins
      PROVE  other = d
  <2>1. PICK x \in p.links :
          other = Redirected(x, start, len) /\ x.ins \notin start..(start + len - 1)
    BY <1>3
  <2>2. other.ins = Moved(x.ins, start, len)
    BY <1>2, <2>1, RedirectedMoves
  <2>3. PICK j \in kept : a[j] = x.ins
    BY <1>4, <2>1
  <2>4. b[m[j]] = b[m[k]]
    BY <1>2, <1>3, <1>8, <1>9, <2>2, <2>3
  <2>5. m[j] \in 1..Len(q.text) /\ m[k] \in 1..Len(q.text)
    BY <1>2 DEF Squeezed
  <2>6. m[j] = m[k]
    BY <1>1, <2>4, <2>5, AddressesOnce
  <2>7. j = k
    BY <2>6 DEF Squeezed
  <2>8. x = l
    BY <1>1, <2>3, <2>7
  <2> QED
    BY <1>6, <2>1, <2>8
<1> QED
  BY <1>1, <1>7, <1>8, <1>9

(* Where execution begins after the cut.                                   *)
LEMMA SqueezedEntry ==
  ASSUME NEW p, NEW q, NEW m, NEW kept, NEW start, NEW len, Prog(p), q.text \in Seq(Ins),
         Squeezed(p, q, m, kept, start, len),
         NEW address, Entry(p.text, address)
  PROVE  /\ Entry(q.text, Moved(address, start, len))
         /\ \E k \in 1..Len(p.text) :
              /\ Addresses(p.text)[k] = address /\ (k > 1 => p.text[k - 1].op \in Returns)
              /\ Addresses(q.text)[m[k]] = Moved(address, start, len)
<1>1. PICK n, a, b :
        /\ n = Len(p.text) /\ a = Addresses(p.text) /\ b = Addresses(q.text)
  OBVIOUS
<1>2. n \in Nat \ {0} /\ DOMAIN p.text = 1..n /\ DOMAIN q.text = 1..Len(q.text)
  BY <1>1, ProgFacts, LenProperties
<1>3. PICK k \in 1..n : a[k] = address /\ (k > 1 => p.text[k - 1].op \in Returns)
  BY <1>1, <1>2 DEF Entry
<1>4. b[m[k]] = Moved(address, start, len) /\ m[k] \in 1..Len(q.text)
  BY <1>1, <1>3 DEF Squeezed, Relocations
<1>5. ASSUME m[k] > 1
      PROVE  q.text[m[k] - 1].op \in Returns
  <2>1. k # 1
    BY <1>5 DEF Squeezed
  <2>2. PICK j : j = k - 1
    OBVIOUS
  <2>3. j \in 1..(n - 1) /\ j + 1 = k /\ p.text[j].op \in Returns
    BY <1>2, <1>3, <2>1, <2>2
  <2>4. j \in kept /\ m[k] = m[j] + 1 /\ m[j] \in 1..Len(q.text)
    BY <1>1, <2>3 DEF Squeezed
  <2>5. SameKind(p.text[j], q.text[m[j]])
    BY <2>4 DEF Squeezed
  <2>6. q.text[m[j]].op \in Returns
    BY <2>3, <2>5 DEF SameKind, Returns
  <2>7. m[k] - 1 = m[j]
    BY <2>4, LenProperties
  <2> QED
    BY <2>6, <2>7
<1>6. Entry(q.text, Moved(address, start, len))
  BY <1>1, <1>2, <1>4, <1>5 DEF Entry
<1> QED
  BY <1>1, <1>3, <1>4, <1>6

(* Jumps and calls lead where their targets have moved to.                 *)
LEMMA SqueezedLeads ==
  ASSUME NEW p, NEW q, NEW m, NEW kept, NEW start, NEW len, Prog(p), q.text \in Seq(Ins),
         Squeezed(p, q, m, kept, start, len),
         NEW k \in kept, p.text[k].op \in Branches, NEW j, Leads(p, k, j)
  PROVE  Leads(q, m[k], m[j])
<1>1. PICK a, b : a = Addresses(p.text) /\ b = Addresses(q.text)
  OBVIOUS
<1>2. j \in 1..Len(p.text) /\ Target(p, a[k], p.text[k]) = a[j] /\ k \in 1..Len(p.text)
  BY <1>1 DEF Leads, Squeezed
<1>3. b[m[j]] = Moved(a[j], start, len) /\ m[j] \in 1..Len(q.text)
  BY <1>1, <1>2 DEF Squeezed, Relocations
<1>4. q.text[m[k]].op = p.text[k].op
  <2>1. SameKind(p.text[k], q.text[m[k]])
    BY DEF Squeezed
  <2> QED
    BY <2>1 DEF SameKind, Branches, Returns
<1>5. CASE p.text[k].op # "CALLI"
  <2>1. p.text[k].op \in Relative
    BY <1>5 DEF Relative, Branches
  <2>2. b[m[k]] + q.text[m[k]].arg = Moved(a[k] + p.text[k].arg, start, len)
    BY <1>1, <2>1 DEF Squeezed, Relocations
  <2>3. a[k] + p.text[k].arg = a[j]
    BY <1>2, <1>5 DEF Target
  <2>4. Target(q, b[m[k]], q.text[m[k]]) = b[m[j]]
    BY <1>3, <1>4, <1>5, <2>2, <2>3 DEF Target
  <2> QED
    BY <1>1, <1>3, <2>4 DEF Leads
<1>6. CASE p.text[k].op = "CALLI"
  <2>1. LinksToFunction(p.links, a[k])
    BY <1>1, <1>2, <1>6, ProgFacts DEF Prog, WellFormed
  <2>2. PICK l \in p.links :
          /\ l.ins = a[k] /\ l.to \in Functions
          /\ \A other \in p.links : other.ins = a[k] => other = l
          /\ (CHOOSE other \in p.links : other.ins = a[k]) = l
    BY <2>1, LinkFound
  <2>3. PICK d \in q.links :
          /\ d.ins = b[m[k]] /\ d.to = l.to
          /\ \A other \in q.links : other.ins = d.ins => other = d
    BY <1>1, <2>2, SqueezedLink
  <2>4. LinksToFunction(q.links, b[m[k]])
    BY <2>2, <2>3 DEF LinksToFunction
  <2>5. (CHOOSE other \in q.links : other.ins = b[m[k]]) = d
    BY <2>3, <2>4, LinkFound
  <2>6. p.ptr[l.to] = a[j]
    BY <1>2, <1>6, <2>2 DEF Target
  <2>7. q.ptr[l.to] = Moved(a[j], start, len)
    BY <2>2, <2>6 DEF Squeezed, Relocations
  <2>8. Target(q, b[m[k]], q.text[m[k]]) = b[m[j]]
    BY <1>3, <1>4, <1>6, <2>3, <2>5, <2>7 DEF Target
  <2> QED
    BY <1>1, <1>3, <2>8 DEF Leads
<1> QED
  BY <1>5, <1>6

(* The program with the piece cut out is still one of the code generator.  *)
LEMMA SqueezedProg ==
  ASSUME NEW p, NEW q, NEW m, NEW kept, NEW start, NEW len, Prog(p),
         q.text \in Seq(Ins), q.links \subseteq Links, q.ptr \in [Functions -> Nat],
         Squeezed(p, q, m, kept, start, len)
  PROVE  Prog(q)
<1>1. PICK n, last, a, b :
        /\ n = Len(p.text) /\ last = Len(q.text)
        /\ a = Addresses(p.text) /\ b = Addresses(q.text)
  OBVIOUS
<1>2. /\ n \in Nat \ {0} /\ DOMAIN p.text = 1..n /\ p.text[n].op \in Returns
      /\ DOMAIN q.text = 1..last /\ last \in Nat
  BY <1>1, ProgFacts, LenProperties
<1>3. /\ m \in [1..n -> 1..last] /\ kept \subseteq 1..n /\ n \in kept /\ m[n] = last
      /\ \A h \in 1..last : \E k \in kept : m[k] = h
      /\ \A k \in kept : SameKind(p.text[k], q.text[m[k]])
  BY <1>1 DEF Squeezed
<1>4. q.text # <<>> /\ q.text[last].op \in Returns
  <2>1. last \in 1..last
    BY <1>2, <1>3
  <2>2. q.text # <<>>
    BY <1>1, <1>2, <2>1
  <2>3. SameKind(p.text[n], q.text[last])
    BY <1>3
  <2> QED
    BY <1>2, <2>2, <2>3 DEF SameKind, Returns
<1>5. ASSUME NEW h \in 1..last
      PROVE  /\ q.text[h].op \in Relative => \E j \in 1..last : b[h] + q.text[h].arg = b[j]
             /\ q.text[h].op = "CALLI" => LinksToFunction(q.links, b[h])
             /\ q.text[h].op = "POPN" => q.text[h].arg \in Nat
  <2>1. PICK k \in kept : m[k] = h
    BY <1>3
  <2>2. SameKind(p.text[k], q.text[h]) /\ k \in 1..n
    BY <1>3, <2>1
  <2>3. q.text[h].op = "POPN" => q.text[h].arg \in Nat
    BY <2>2 DEF SameKind
  <2>4. ASSUME q.text[h].op \in Relative
        PROVE  \E j \in 1..last : b[h] + q.text[h].arg = b[j]
    <3>1. p.text[k].op = q.text[h].op /\ p.text[k].op \in Branches /\ q.text[h].op # "CALLI"
      BY <2>2, <2>4 DEF SameKind, Relative, Returns, Branches
    <3>2. PICK j : Leads(p, k, j)
      BY <1>1, <2>2, <3>1, TargetExists
    <3>3. Leads(q, h, m[j])
      BY <2>1, <3>1, <3>2, SqueezedLeads
    <3> QED
      BY <1>1, <3>1, <3>3 DEF Leads, Target
  <2>5. ASSUME q.text[h].op = "CALLI"
        PROVE  LinksToFunction(q.links, b[h])
    <3>1. p.text[k].op = "CALLI"
      BY <2>2, <2>5 DEF SameKind, Returns
    <3>2. LinksToFunction(p.links, a[k])
      BY <1>1, <1>2, <2>2, <3>1 DEF Prog, WellFormed
    <3>3. PICK l \in p.links :
            /\ l.ins = a[k] /\ l.to \in Functions
            /\ \A other \in p.links : other.ins = a[k] => other = l
      BY <3>2, LinkFound
    <3>4. PICK d \in q.links :
            /\ d.ins = b[m[k]] /\ d.to = l.to
            /\ \A other \in q.links : other.ins = d.ins => other = d
      BY <1>1, <3>3, SqueezedLink
    <3> QED
      BY <2>1, <3>3, <3>4 DEF LinksToFunction
  <2> QED
    BY <2>3, <2>4, <2>5
<1>6. Entry(q.text, q.main) /\ \A f \in Functions : Entry(q.text, q.ptr[f])
  <2>1. Entry(p.text, p.main) /\ \A f \in Functions : Entry(p.text, p.ptr[f])
    BY DEF Prog, WellFormed
  <2>2. /\ q.main = Moved(p.main, start, len)
        /\ \A f \in Functions : q.ptr[f] = Moved(p.ptr[f], start, len)
    BY DEF Squeezed, Relocations
  <2> QED
    BY <2>1, <2>2, SqueezedEntry
<1>7. WellFormed(q)
  BY <1>1, <1>2, <1>4, <1>5, <1>6 DEF WellFormed
<1> QED
  BY <1>7 DEF Prog

-----------------------------------------------------------------------------
(* Where the instructions are after n of them have been cut out at c.      *)
CutIndex(size, c, n) ==
  [k \in 1..size |-> IF k <= c THEN k ELSE IF k < c + n THEN c ELSE k - n]

CutKept(size, c, n) == (1..size) \ (c..(c + n - 1))

Shifts(m, kept, size, c, n) ==
  /\ m \in [1..size -> 1..(size - n)] /\ m[1] = 1 /\ kept \subseteq 1..size
  /\ \A h \in 1..(size - n) : \E k \in kept : m[k] = h
  /\ \A j, k \in kept : m[j] = m[k] => j = k
  /\ size \in kept /\ m[size] = size - n
  /\ \A k \in kept : \/ k < c /\ m[k] = k
                     \/ k >= c + n /\ m[k] = k - n
  /\ \A k \in kept : k + 1 \in 1..size => m[k + 1] = m[k] + 1

(* What Cut makes of the indices and of the addresses.                     *)
LEMMA CutShifts ==
  ASSUME NEW size \in Nat, NEW c \in 1..size, NEW n \in Nat \ {0}, c + n <= size
  PROVE  Shifts(CutIndex(size, c, n), CutKept(size, c, n), size, c, n)
<1>0. PICK m, kept : m = CutIndex(size, c, n) /\ kept = CutKept(size, c, n)
  OBVIOUS
<1>1. m = [k \in 1..size |-> IF k <= c THEN k ELSE IF k < c + n THEN c ELSE k - n]
  BY <1>0 DEF CutIndex
<1>2. \A k \in 1..size : m[k] = IF k <= c THEN k ELSE IF k < c + n THEN c ELSE k - n
  BY <1>1
<1>3. \A k : k \in kept <=> k \in 1..size /\ (k < c \/ k >= c + n)
  BY <1>0 DEF CutKept
<1>4. m \in [1..size -> 1..(size - n)]
  <2>1. \A k \in 1..size :
          (IF k <= c THEN k ELSE IF k < c + n THEN c ELSE k - n) \in 1..(size - n)
    OBVIOUS
  <2> QED
    BY <1>1, <2>1
<1>5. ASSUME NEW h \in 1..(size - n)
      PROVE  \E k \in kept : m[k] = h
  <2>1. CASE h < c
    <3>1. h \in 1..size /\ h \in kept /\ m[h] = h
      BY <1>2, <1>3, <2>1
    <3> QED
      BY <3>1
  <2>2. CASE h >= c
    <3>1. PICK k : k = h + n
      OBVIOUS
    <3>2. k \in 1..size /\ k >= c + n /\ k - n = h
      BY <2>2, <3>1
    <3>3. k \in kept /\ m[k] = h
      BY <1>2, <1>3, <3>2
    <3> QED
      BY <3>3
  <2> QED
    BY <2>1, <2>2
<1>6. \A k \in kept : \/ k < c /\ m[k] = k
                      \/ k >= c + n /\ m[k] = k - n
  BY <1>2, <1>3
<1>7. \A j, k \in kept : m[j] = m[k] => j = k
  BY <1>3, <1>6
<1>8. \A k \in kept : k + 1 \in 1..size => m[k + 1] = m[k] + 1
  BY <1>2, <1>3, <1>6
<1>9. m[1] = 1 /\ size \in kept /\ m[size] = size - n
  BY <1>2, <1>3
<1> QED
  BY <1>0, <1>3, <1>4, <1>5, <1>6, <1>7, <1>8, <1>9 DEF Shifts

(* A cut of n instructions at c, none of which ends or leaves a function.  *)
(* The one behind them is that of t.                                       *)
CutFrom(p, q, t, c, n, start, len) ==
  /\ t \in Seq(Ins) /\ Len(t) = Len(p.text)
  /\ c \in 1..Len(p.text) /\ n \in Nat \ {0} /\ c + n <= Len(p.text)
  /\ \A k \in 1..Len(p.text) : Alike(t[k], p.text[k]) /\ (k # c + n => t[k] = p.text[k])
  /\ \/ t[c + n] = p.text[c + n]
     \/ t[c + n].op = "POPN" /\ t[c + n].arg \in Nat
  /\ \A k \in c..(c + n - 1) : p.text[k].op \notin Returns \union Branches
  /\ \A l \in p.links : CanLink(p.text, l)
  /\ start = Addresses(p.text)[c] /\ len = CutLen(p.text, c, n)
  /\ ~LeadsInto(Without(t, c, n), start, len)
  /\ q.text = RelocatedText(Without(t, c, n), start, len)
  /\ q.links = {Redirected(l, start, len) :
                  l \in {l \in p.links : l.ins \notin start..(start + len - 1)}}
  /\ q.ptr = [f \in Functions |-> Moved(p.ptr[f], start, len)]
  /\ q.main = Moved(p.main, start, len)

LEMMA CutTexts ==
  ASSUME NEW p, NEW q, NEW t, NEW c, NEW n, NEW start, NEW len, Prog(p),
         CutFrom(p, q, t, c, n, start, len),
         NEW size, size = Len(p.text), NEW rest, rest = Without(t, c, n),
         NEW m, m = CutIndex(size, c, n), NEW kept, kept = CutKept(size, c, n)
  PROVE  /\ rest \in Seq(Ins) /\ q.text \in Seq(Ins)
         /\ Len(rest) = size - n /\ Len(q.text) = size - n
         /\ start \in Nat /\ len \in Nat \ {0}
         /\ Addresses(rest) = Addresses(q.text) /\ SameButJumps(q.text, rest)
         /\ \A k \in kept : rest[m[k]] = t[k]
         /\ \A k \in 1..c : Addresses(q.text)[k] = Addresses(p.text)[k]
         /\ \A k \in c..(size - n + 1) : Addresses(q.text)[k] = Addresses(p.text)[k + n] - len
<1>1. /\ t \in Seq(Ins) /\ Len(t) = size /\ p.text \in Seq(Ins)
      /\ c \in 1..size /\ n \in Nat \ {0} /\ c + n <= size
      /\ \A k \in 1..size : Alike(t[k], p.text[k])
      /\ start = Addresses(p.text)[c] /\ len = CutLen(p.text, c, n)
      /\ q.text = RelocatedText(rest, start, len)
  BY DEF CutFrom, Prog
<1>2. size \in Nat /\ c \in Nat \ {0} /\ c + n <= Len(t) + 1
  BY <1>1, LenProperties
<1>3. /\ CutOut(t, rest, c, n)
      /\ \A k \in 1..(c - 1) : rest[k] = t[k]
      /\ \A k \in c..Len(rest) : rest[k] = t[k + n]
  BY <1>1, <1>2, PieceOut
<1>4. rest \in Seq(Ins) /\ Len(rest) = size - n
  <2>1. rest \in Seq(Ins) /\ Len(t) = Len(rest) + n
    BY <1>3 DEF CutOut
  <2>2. Len(rest) \in Nat
    BY <2>1, LenProperties
  <2> QED
    BY <1>1, <1>2, <2>1, <2>2
<1>5. Addresses(t) = Addresses(p.text)
  BY <1>1, SameAddresses
<1>6. start = Addresses(t)[c] /\ len = CutLen(t, c, n)
  BY <1>1, <1>5 DEF CutLen
<1>7. /\ start \in Nat /\ len \in Nat \ {0}
      /\ \A k \in 1..c : Addresses(rest)[k] = Addresses(t)[k]
      /\ \A k \in c..(Len(rest) + 1) : Addresses(rest)[k] = Addresses(t)[k + n] - len
  BY <1>3, <1>6, CutAddresses
<1>8. q.text \in Seq(Ins) /\ SameButJumps(q.text, rest)
  BY <1>1, <1>4, <1>7, RelocatedSame
<1>9. Len(q.text) = Len(rest) /\ Addresses(q.text) = Addresses(rest)
  BY <1>4, <1>8, SameAddresses DEF SameButJumps
<1>10. ASSUME NEW k \in kept
       PROVE  rest[m[k]] = t[k]
  <2>0. /\ kept \subseteq 1..size
        /\ \A h \in kept : \/ h < c /\ m[h] = h
                           \/ h >= c + n /\ m[h] = h - n
    <3>1. size \in Nat /\ c \in 1..size /\ n \in Nat \ {0} /\ c + n <= size
      BY <1>1, <1>2
    <3>2. Shifts(m, kept, size, c, n)
      BY <3>1, CutShifts
    <3> QED
      BY <3>2 DEF Shifts
  <2>1. k \in 1..size /\ ((k < c /\ m[k] = k) \/ (k >= c + n /\ m[k] = k - n))
    BY <2>0
  <2>2. CASE k < c /\ m[k] = k
    <3>1. k \in 1..(c - 1)
      BY <1>2, <2>1, <2>2
    <3> QED
      BY <1>3, <2>2, <3>1
  <2>3. CASE k >= c + n /\ m[k] = k - n
    <3>1. PICK h : h = k - n
      OBVIOUS
    <3>2. h \in c..Len(rest) /\ h + n = k
      BY <1>1, <1>2, <1>4, <2>1, <2>3, <3>1
    <3>3. rest[h] = t[h + n]
      BY <1>3, <3>2
    <3> QED
      BY <2>3, <3>1, <3>2, <3>3
  <2> QED
    BY <2>1, <2>2, <2>3
<1> QED
  BY <1>4, <1>5, <1>7, <1>8, <1>9, <1>10

LEMMA AddressesRise ==
  ASSUME NEW t \in Seq(Ins), NEW k \in 1..Len(t), NEW j \in 1..(k - 1)
  PROVE  /\ Addresses(t)[j] \in Nat /\ Addresses(t)[k] \in Nat
         /\ Addresses(t)[j] < Addresses(t)[k]
<1>1. PICK n, a : n = Len(t) /\ a = Addresses(t)
  OBVIOUS
<1>2. /\ n \in Nat /\ k \in 1..n /\ \A h \in 1..(n + 1) : a[h] \in Nat
      /\ \A h \in 1..n : Size(t[h]) \in Nat \ {0}
      /\ \A g \in 1..n : \A h \in (g + 1)..(n + 1) : a[g] + Size(t[g]) <= a[h]
  BY <1>1, AddressBounds
<1>3. j \in 1..n /\ j \in 1..(n + 1) /\ k \in 1..(n + 1) /\ k \in (j + 1)..(n + 1)
  BY <1>2
<1>4. a[j] \in Nat /\ a[k] \in Nat /\ Size(t[j]) \in Nat \ {0} /\ a[j] + Size(t[j]) <= a[k]
  BY <1>2, <1>3
<1> QED
  BY <1>1, <1>4

(* Every instruction of the piece is at its address, and no other is.      *)
LEMMA CutMoves ==
  ASSUME NEW p, NEW q, NEW t, NEW c, NEW n, NEW start, NEW len, Prog(p),
         CutFrom(p, q, t, c, n, start, len),
         NEW size, size = Len(p.text),
         NEW m, m = CutIndex(size, c, n), NEW kept, kept = CutKept(size, c, n)
  PROVE  \A k \in 1..size :
           /\ Addresses(q.text)[m[k]] = Moved(Addresses(p.text)[k], start, len)
           /\ k \in kept <=> Addresses(p.text)[k] \notin start..(start + len - 1)
           /\ k \in kept => Addresses(p.text)[k] =
                IF Addresses(q.text)[m[k]] >= start
                THEN Addresses(q.text)[m[k]] + len ELSE Addresses(q.text)[m[k]]
<1>1. PICK a, b : a = Addresses(p.text) /\ b = Addresses(q.text)
  OBVIOUS
<1>2. /\ p.text \in Seq(Ins) /\ c \in 1..size /\ n \in Nat \ {0} /\ c + n <= size
      /\ start = a[c] /\ len = CutLen(p.text, c, n)
  BY <1>1 DEF CutFrom, Prog
<1>3. size \in Nat /\ \A k \in 1..size : a[k] \in Nat
  BY <1>1, ProgFacts
<1>4. \A k \in 1..size : \A j \in 1..(k - 1) : a[j] < a[k]
  BY <1>1, <1>2, AddressesRise
<1>5. /\ start \in Nat /\ len \in Nat \ {0}
      /\ \A k \in 1..c : b[k] = a[k]
      /\ \A k \in c..(size - n + 1) : b[k] = a[k + n] - len
  <2>1. PICK rest : rest = Without(t, c, n)
    OBVIOUS
  <2> QED
    BY <1>1, <2>1, CutTexts
<1>6. a[c + n] = start + len
  <2>1. c + n \in 1..size
    BY <1>2, <1>3
  <2>2. len = a[c + n] - a[c]
    BY <1>1, <1>2 DEF CutLen
  <2> QED
    BY <1>2, <1>3, <2>1, <2>2
<1>7. /\ \A k \in 1..size : m[k] = IF k <= c THEN k ELSE IF k < c + n THEN c ELSE k - n
      /\ \A k : k \in kept <=> k \in 1..size /\ (k < c \/ k >= c + n)
  <2>1. \A k : k \in kept <=> k \in 1..size /\ ~(k \in c..(c + n - 1))
    BY DEF CutKept
  <2>2. \A k \in 1..size : ~(k \in c..(c + n - 1)) <=> (k < c \/ k >= c + n)
    BY <1>2, <1>3
  <2> QED
    BY <2>1, <2>2 DEF CutIndex
<1> SUFFICES ASSUME NEW k \in 1..size
             PROVE  /\ b[m[k]] = Moved(a[k], start, len)
                    /\ k \in kept <=> a[k] \notin start..(start + len - 1)
                    /\ k \in kept => a[k] = IF b[m[k]] >= start THEN b[m[k]] + len ELSE b[m[k]]
  BY <1>1
<1>8. PICK now, h : now = a[k] /\ h = m[k]
  OBVIOUS
<1>9. now \in Nat /\ k \in Nat \ {0}
  BY <1>3, <1>8
<1>10. CASE k < c
  <2>1. h = k /\ k \in kept /\ k \in 1..c /\ k \in 1..(c - 1)
    BY <1>2, <1>7, <1>8, <1>10
  <2>2. b[h] = now /\ now < start
    BY <1>2, <1>4, <1>5, <1>8, <2>1
  <2> QED
    BY <1>5, <1>8, <1>9, <2>1, <2>2 DEF Moved
<1>11. CASE k >= c /\ k < c + n
  <2>1. h = c /\ k \notin kept
    BY <1>2, <1>7, <1>8, <1>11
  <2>2. now >= start
    <3>1. CASE k = c
      BY <1>2, <1>5, <1>8, <3>1
    <3>2. CASE k # c
      <4>1. c \in 1..(k - 1)
        BY <1>2, <1>11, <3>2
      <4> QED
        BY <1>2, <1>3, <1>4, <1>8, <4>1
    <3> QED
      BY <3>1, <3>2
  <2>3. now < start + len
    <3>1. k \in 1..((c + n) - 1) /\ c + n \in 1..size
      BY <1>2, <1>3, <1>11
    <3> QED
      BY <1>4, <1>6, <1>8, <3>1
  <2>4. b[h] = start
    <3>1. c \in 1..c
      BY <1>2
    <3> QED
      BY <1>2, <1>5, <2>1, <3>1
  <2> QED
    BY <1>5, <1>8, <1>9, <2>1, <2>2, <2>3, <2>4 DEF Moved
<1>12. CASE k >= c + n
  <2>1. h = k - n /\ k \in kept /\ h \in c..(size - n + 1) /\ h + n = k
    <3>1. ~(k <= c) /\ ~(k < c + n) /\ k - n \in c..(size - n + 1) /\ (k - n) + n = k
      BY <1>2, <1>3, <1>12
    <3>2. k \in kept
      BY <1>7, <1>12
    <3>3. h = k - n
      BY <1>7, <1>8, <3>1
    <3> QED
      BY <3>1, <3>2, <3>3
  <2>2. now >= start + len
    <3>1. CASE k = c + n
      BY <1>5, <1>6, <1>8, <3>1
    <3>2. CASE k # c + n
      <4>1. c + n \in 1..(k - 1)
        BY <1>2, <1>12, <3>2
      <4> QED
        BY <1>3, <1>4, <1>5, <1>6, <1>8, <4>1
    <3> QED
      BY <3>1, <3>2
  <2>3. b[h] = now - len
    BY <1>5, <1>8, <2>1
  <2> QED
    BY <1>5, <1>8, <1>9, <2>1, <2>2, <2>3 DEF Moved
<1> QED
  BY <1>2, <1>3, <1>10, <1>11, <1>12

(* What is known of an instruction that is left.                           *)
LEMMA CutLeft ==
  ASSUME NEW p, NEW q, NEW t, NEW c, NEW n, NEW start, NEW len, Prog(p),
         CutFrom(p, q, t, c, n, start, len),
         NEW size, size = Len(p.text),
         NEW m, m = CutIndex(size, c, n), NEW k \in CutKept(size, c, n)
  PROVE  /\ k \in 1..size /\ q.text[m[k]].op = p.text[k].op
         /\ p.text[k].op \notin Relative => q.text[m[k]] = t[k]
         /\ p.text[k].op \in Relative =>
              /\ \A j \in 1..size : Addresses(p.text)[k] + p.text[k].arg = Addresses(p.text)[j] =>
                   Addresses(p.text)[j] \notin (start + 1)..(start + len - 1)
              /\ Addresses(q.text)[m[k]] + q.text[m[k]].arg
                   = Moved(Addresses(p.text)[k] + p.text[k].arg, start, len)
<1>1. PICK a, b, rest, kept, h :
        /\ a = Addresses(p.text) /\ b = Addresses(q.text) /\ rest = Without(t, c, n)
        /\ kept = CutKept(size, c, n) /\ h = m[k]
  OBVIOUS
<1>2. /\ rest \in Seq(Ins) /\ q.text \in Seq(Ins)
      /\ Len(rest) = size - n /\ start \in Nat /\ len \in Nat \ {0}
      /\ Addresses(rest) = b /\ SameButJumps(q.text, rest) /\ rest[h] = t[k]
  BY <1>1, CutTexts
<1>3. /\ c \in 1..size /\ n \in Nat \ {0} /\ c + n <= size
      /\ Alike(t[k], p.text[k]) /\ (k # c + n => t[k] = p.text[k])
      /\ t[c + n] = p.text[c + n] \/ t[c + n].op = "POPN"
      /\ ~LeadsInto(rest, start, len) /\ q.text = RelocatedText(rest, start, len)
      /\ k \in 1..size
  BY <1>1 DEF CutFrom, CutKept
<1>4. /\ size \in Nat \ {0} /\ p.text[size].op \in Returns
      /\ p.text[k] \in Ins /\ a[k] \in Nat /\ WellFormed(p) /\ DOMAIN p.text = 1..size
  BY <1>1, <1>3, ProgFacts DEF Prog
<1>5. /\ h \in 1..(size - n) /\ (k # size => h # size - n)
  <2>1. Shifts(m, kept, size, c, n)
    BY <1>1, <1>3, <1>4, CutShifts
  <2>2. m \in [1..size -> 1..(size - n)] /\ m[size] = size - n /\ size \in kept
    BY <2>1 DEF Shifts
  <2>3. \A j, g \in kept : m[j] = m[g] => j = g
    BY <2>1 DEF Shifts
  <2>4. h \in 1..(size - n)
    BY <1>1, <1>3, <2>2
  <2>5. k # size => m[k] # m[size]
    BY <1>1, <2>2, <2>3
  <2> QED
    BY <1>1, <2>2, <2>4, <2>5
<1>6. h \in DOMAIN rest
  BY <1>2, <1>5, LenProperties
<1>7. Alike(q.text[h], t[k]) /\ (t[k].op \notin Relative => q.text[h] = t[k])
  BY <1>2, <1>5 DEF SameButJumps
<1>8. q.text[h].op = p.text[k].op /\ t[k].op = p.text[k].op
  BY <1>3, <1>7 DEF Alike
<1>9. ASSUME p.text[k].op \in Relative
      PROVE  /\ \A j \in 1..size : a[k] + p.text[k].arg = a[j] =>
                  a[j] \notin (start + 1)..(start + len - 1)
             /\ b[h] + q.text[h].arg = Moved(a[k] + p.text[k].arg, start, len)
  <2>1. t[k] = p.text[k]
    BY <1>3, <1>8, <1>9 DEF Relative
  <2>2. k # size
    BY <1>4, <1>9 DEF Relative, Returns
  <2>3. PICK amt \in Int : amt = p.text[k].arg
    BY <1>4 DEF Ins
  <2>4. q.text[h] = [rest[h] EXCEPT !.arg = Relocated(b[h], amt, start, len)]
    <3>1. q.text[h] = IF rest[h].op \in Relative /\ h # Len(rest)
                      THEN [rest[h] EXCEPT !.arg = Relocated(Addresses(rest)[h], @, start, len)]
                      ELSE rest[h]
      BY <1>3, <1>6 DEF RelocatedText
    <3>2. rest[h].op \in Relative /\ h # Len(rest) /\ rest[h].arg = amt
      BY <1>2, <1>5, <1>9, <2>1, <2>2, <2>3
    <3> QED
      BY <1>2, <3>1, <3>2
  <2>5. q.text[h].arg = Relocated(b[h], amt, start, len)
    BY <1>2, <1>4, <2>1, <2>4 DEF Ins
  <2>6. PICK j \in 1..size : a[k] + amt = a[j]
    BY <1>1, <1>4, <1>3, <1>9, <2>3 DEF WellFormed
  <2>7. a[j] \in Nat
    BY <1>1, ProgFacts
  <2>8. /\ b[h] = Moved(a[k], start, len)
        /\ a[k] = IF b[h] >= start THEN b[h] + len ELSE b[h]
    BY <1>1, <1>3, CutMoves
  <2>9. b[h] \in Nat
    <3>1. PICK now \in Nat : now = a[k]
      BY <1>4
    <3>2. b[h] = Moved(now, start, len) /\ start \in Nat /\ len \in Nat
      BY <1>2, <2>8, <3>1
    <3> QED
      BY <3>2, MovedNat
  <2>10. /\ a[j] \notin (start + 1)..(start + len - 1)
         /\ ~(a[j] = start /\ a[k] > start)
    <3>1. PICK now, before, target :
            /\ now = Addresses(rest)[h]
            /\ before = IF now >= start THEN now + len ELSE now
            /\ target = before + rest[h].arg
      OBVIOUS
    <3>2. ~(target \in (start + 1)..(start + len - 1) \/ (target = start /\ before > start))
      BY <1>2, <1>3, <1>6, <1>9, <2>1, <3>1 DEF LeadsInto
    <3>3. before = a[k] /\ target = a[j]
      BY <1>2, <2>1, <2>3, <2>6, <2>8, <3>1
    <3> QED
      BY <3>2, <3>3
  <2>11. b[h] + Relocated(b[h], amt, start, len) = Moved(a[j], start, len)
    <3>1. PICK at, before, target : at = b[h] /\ before = a[k] /\ target = a[j]
      OBVIOUS
    <3>2. /\ start \in Nat /\ len \in Nat \ {0} /\ amt \in Int
          /\ at \in Nat /\ target \in Nat /\ target = before + amt
          /\ before = IF at >= start THEN at + len ELSE at
          /\ target \notin (start + 1)..(start + len - 1)
          /\ ~(target = start /\ before > start)
      BY <1>2, <2>6, <2>7, <2>8, <2>9, <2>10, <3>1
    <3>3. at + Relocated(at, amt, start, len) = Moved(target, start, len)
      BY <3>2, SMTT(60) DEF Relocated, Moved
    <3> QED
      BY <3>1, <3>3
  <2> QED
    BY <2>3, <2>5, <2>6, <2>10, <2>11
<1> QED
  BY <1>1, <1>3, <1>7, <1>8, <1>9

(* A cut, as the relation between the programs before and after it.        *)
LEMMA CutSqueezes ==
  ASSUME NEW p, NEW q, NEW t, NEW c, NEW n, NEW start, NEW len, Prog(p),
         CutFrom(p, q, t, c, n, start, len),
         NEW size, size = Len(p.text),
         NEW m, m = CutIndex(size, c, n), NEW kept, kept = CutKept(size, c, n)
  PROVE  Squeezed(p, q, m, kept, start, len)
<1>1. PICK a, b : a = Addresses(p.text) /\ b = Addresses(q.text)
  OBVIOUS
<1>2. /\ c \in 1..size /\ n \in Nat \ {0} /\ c + n <= size
      /\ \A k \in 1..size : k # c + n => t[k] = p.text[k]
      /\ \/ t[c + n] = p.text[c + n]
         \/ t[c + n].op = "POPN" /\ t[c + n].arg \in Nat
      /\ \A k \in c..(c + n - 1) : p.text[k].op \notin Returns \union Branches
      /\ \A l \in p.links : CanLink(p.text, l)
      /\ q.links = {Redirected(l, start, len) :
                      l \in {l \in p.links : l.ins \notin start..(start + len - 1)}}
      /\ q.ptr = [f \in Functions |-> Moved(p.ptr[f], start, len)]
      /\ q.main = Moved(p.main, start, len)
  BY DEF CutFrom
<1>3. /\ size \in Nat \ {0} /\ DOMAIN p.text = 1..size
      /\ \A k \in 1..size : p.text[k].op = "POPN" => p.text[k].arg \in Nat
  BY ProgFacts
<1>4. Shifts(m, kept, size, c, n)
  BY <1>2, <1>3, CutShifts
<1>5. Len(q.text) = size - n /\ start \in Nat /\ len \in Nat
  <2>1. PICK rest : rest = Without(t, c, n)
    OBVIOUS
  <2>2. Len(q.text) = size - n /\ start \in Nat /\ len \in Nat \ {0}
    BY <2>1, CutTexts
  <2> QED
    BY <2>2
<1>6. \A k \in 1..size :
        /\ b[m[k]] = Moved(a[k], start, len)
        /\ k \in kept <=> a[k] \notin start..(start + len - 1)
  BY <1>1, CutMoves
<1>7. \A k \in kept :
        /\ q.text[m[k]].op = p.text[k].op
        /\ p.text[k].op \notin Relative => q.text[m[k]] = t[k]
        /\ p.text[k].op \in Relative =>
             b[m[k]] + q.text[m[k]].arg = Moved(a[k] + p.text[k].arg, start, len)
  BY <1>1, CutLeft
<1>8. ASSUME NEW k \in kept
      PROVE  SameKind(p.text[k], q.text[m[k]])
  <2>1. k \in 1..size
    BY <1>4 DEF Shifts
  <2>2. ASSUME q.text[m[k]].op = "POPN"
        PROVE  q.text[m[k]].arg \in Nat
    <3>1. p.text[k].op = "POPN" /\ p.text[k].op \notin Relative
      BY <1>7, <2>2 DEF Relative
    <3>2. q.text[m[k]] = t[k]
      BY <1>7, <3>1
    <3> QED
      BY <1>2, <1>3, <2>1, <3>1, <3>2
  <2> QED
    BY <1>7, <2>2 DEF SameKind
<1>9. \A l \in p.links : \E k \in 1..size :
        a[k] = l.ins /\ (k \in kept <=> l.ins \notin start..(start + len - 1))
  <2>1. ASSUME NEW l \in p.links
        PROVE  \E k \in 1..size : a[k] = l.ins
    BY <1>1, <1>2, <1>3 DEF CanLink
  <2> QED
    BY <1>6, <2>1
<1>10. Relocations(p, q, m, kept, start, len)
  BY <1>1, <1>2, <1>6, <1>7, <1>9 DEF Relocations
<1>11. ASSUME NEW k \in 1..(size - 1), p.text[k].op \in Returns
       PROVE  k \in kept /\ m[k + 1] = m[k] + 1
  <2>1. k \in 1..size /\ k + 1 \in 1..size
    BY <1>3
  <2>2. k \notin c..(c + n - 1)
    BY <1>2, <1>11
  <2>3. k \in kept
    BY <2>1, <2>2 DEF CutKept
  <2> QED
    BY <1>4, <2>1, <2>3 DEF Shifts
<1> QED
  BY <1>4, <1>5, <1>8, <1>10, <1>11 DEF Squeezed, Shifts

(* No jump leads to the instruction behind c, and none runs from c into a  *)
(* function.                                                               *)
Unreached(p, c, n, mid) ==
  mid # "none" =>
    /\ p.text[c].op \notin Returns
    /\ n = 2 \/ ~\E j \in 1..Len(p.text) :
         /\ p.text[j].op \in Relative
         /\ Addresses(p.text)[j] + p.text[j].arg = Addresses(p.text)[c + 1]

(* Both programs follow an instruction that they both have.                *)
LEMMA CutFollowed ==
  ASSUME NEW p, NEW q, NEW t, NEW c, NEW n, NEW start, NEW len, Prog(p), q.text \in Seq(Ins),
         CutFrom(p, q, t, c, n, start, len),
         NEW size, size = Len(p.text),
         NEW m, m = CutIndex(size, c, n), NEW k \in CutKept(size, c, n),
         NEW mid, ~Mid(mid, c, k), ~Mid(mid, c, k + 1), t[k] = p.text[k],
         Unreached(p, c, n, mid)
  PROVE  Followed(p, q, m, mid, c, k)
<1>1. PICK a : a = Addresses(p.text)
  OBVIOUS
<1>2. PICK ins, other : ins = p.text[k] /\ other = q.text[m[k]]
  OBVIOUS
<1>3. /\ c \in 1..size /\ n \in Nat \ {0} /\ c + n <= size
      /\ start = a[c] /\ len = CutLen(p.text, c, n) /\ p.text \in Seq(Ins)
  BY <1>1 DEF CutFrom, Prog
<1>4. /\ k \in 1..size /\ other.op = ins.op /\ (ins.op \notin Relative => other = ins)
      /\ ins.op \in Relative =>
           \A j \in 1..size : a[k] + ins.arg = a[j] => a[j] \notin (start + 1)..(start + len - 1)
  BY <1>1, <1>2, CutLeft
<1>5. SameWays(ins, other)
  BY <1>4 DEF SameWays
<1>6. ASSUME NEW stack
      PROVE  /\ Shows(ins, stack) = Shows(other, stack)
             /\ After(ins, stack) = After(other, stack)
  <2>1. CASE ins.op \notin Relative
    BY <1>4, <2>1
  <2>2. CASE ins.op \in Relative
    <3>1. ins.op = "JR" \/ ins.op = "JRCON" \/ ins.op = "CALLR"
      BY <2>2 DEF Relative
    <3> QED
      BY <1>4, <3>1 DEF Shows, After, Returns
  <2> QED
    BY <2>1, <2>2
<1>7. Shifts(m, CutKept(size, c, n), size, c, n)
  BY <1>3, ProgFacts, CutShifts
<1>8. ins.op \notin Returns => m[k + 1] = m[k] + 1
  <2>1. ins.op \notin Returns => k + 1 \in 1..size
    BY <1>2, <1>4, ProgFacts
  <2> QED
    BY <1>7, <2>1 DEF Shifts
<1>9. Squeezed(p, q, m, CutKept(size, c, n), start, len)
  BY CutSqueezes
<1>10. ASSUME ins.op \in Branches, NEW j, Leads(p, k, j)
       PROVE  ~Mid(mid, c, j) /\ Leads(q, m[k], m[j])
  <2>1. Leads(q, m[k], m[j])
    BY <1>2, <1>9, <1>10, SqueezedLeads
  <2>2. ASSUME Mid(mid, c, j)
        PROVE  FALSE
    <3>1. /\ j = c + 1 /\ j \in 1..size /\ Target(p, a[k], ins) = a[j]
          /\ p.text[c].op \notin Returns
      BY <1>1, <1>2, <1>10, <2>2 DEF Mid, Leads, Unreached
    <3>2. CASE ins.op \in Relative
      <4>1. a[k] + ins.arg = a[j]
        BY <3>1, <3>2 DEF Target, Relative
      <4>2. CASE n = 2
        <5>1. c + 1 \in 1..size /\ c + 2 \in 1..size /\ c \in 1..((c + 1) - 1)
              /\ c + 1 \in 1..((c + 2) - 1)
          BY <1>3, <4>2
        <5>2. a[c] \in Nat /\ a[c + 1] \in Nat /\ a[c + 2] \in Nat
              /\ a[c] < a[c + 1] /\ a[c + 1] < a[c + 2]
          BY <1>1, <1>3, <5>1, AddressesRise
        <5>3. len = a[c + 2] - a[c]
          BY <1>1, <1>3, <4>2 DEF CutLen
        <5>4. a[j] \in (start + 1)..(start + len - 1)
          BY <1>3, <3>1, <5>2, <5>3
        <5> QED
          BY <1>4, <3>1, <3>2, <4>1, <5>4
      <4>3. CASE n # 2
        BY <1>1, <1>2, <1>4, <2>2, <3>1, <3>2, <4>1, <4>3 DEF Mid, Unreached
      <4> QED
        BY <4>2, <4>3
    <3>3. CASE ins.op = "CALLI"
      <4>1. LinksToFunction(p.links, a[k]) /\ DOMAIN p.text = 1..size /\ size \in Nat
        BY <1>1, <1>2, <1>4, <3>3, ProgFacts DEF Prog, WellFormed
      <4>2. PICK l \in p.links :
              /\ l.ins = a[k] /\ l.to \in Functions
              /\ (CHOOSE d \in p.links : d.ins = a[k]) = l
        BY <4>1, LinkFound
      <4>3. a[j] = p.ptr[l.to] /\ Entry(p.text, p.ptr[l.to])
        BY <3>1, <3>3, <4>2 DEF Target, Prog, WellFormed
      <4>4. PICK g \in 1..size : a[g] = a[j] /\ (g > 1 => p.text[g - 1].op \in Returns)
        BY <1>1, <4>1, <4>3 DEF Entry
      <4>5. g = j
        BY <1>1, <1>3, <3>1, <4>4, AddressesOnce
      <4>6. j > 1 /\ j - 1 = c
        BY <1>3, <3>1
      <4> QED
        BY <3>1, <4>4, <4>5, <4>6
    <3> QED
      BY <1>10, <3>2, <3>3 DEF Branches, Relative
  <2> QED
    BY <2>1, <2>2
<1> QED
  BY <1>2, <1>5, <1>6, <1>8, <1>10 DEF Followed, Fit

(* The pieces that the passes cut out.                                     *)
Piece(p, t, c, n, mid) ==
  \/ /\ mid = "none" /\ n = 1 /\ t = p.text
     /\ p.text[c].op \in {"POPN", "PUSHN"} /\ p.text[c].arg = 0
  \/ /\ mid = "not" /\ n = 2 /\ t = p.text
     /\ p.text[c].op = "NOT" /\ p.text[c + 1].op = "NOT"
  \/ /\ mid = "push" /\ n = 2 /\ t = p.text
     /\ p.text[c].op = "PUSH" /\ p.text[c + 1].op = "POP"
  \/ /\ mid = "push" /\ n = 1 /\ t = [p.text EXCEPT ![c + 1].arg = @ - 1]
     /\ p.text[c].op = "PUSH" /\ p.text[c + 1].op = "POPN" /\ p.text[c + 1].arg > 0
     /\ ~\E j \in 1..Len(p.text) :
          /\ p.text[j].op \in Relative
          /\ Addresses(p.text)[j] + p.text[j].arg = Addresses(p.text)[c + 1]

LEMMA PushedFits ==
  ASSUME NEW ins \in Ins, ins.op = "PUSH", NEW stack \in Stacks
  PROVE  \E x \in Cells : After(ins, stack) = <<x>> \o stack
<1>1. PICK x : x = [value |-> ins.arg, negated |-> FALSE]
  OBVIOUS
<1>2. x \in Cells
  BY <1>1 DEF Cells, Ins
<1>3. After(ins, stack) = <<x>> \o stack
  BY <1>1 DEF After
<1> QED
  BY <1>2, <1>3

(* The program with a piece cut out follows the one before.                *)
LEMMA CutMirrors ==
  ASSUME NEW p, NEW q, NEW t, NEW c, NEW n, NEW start, NEW len, Prog(p), q.text \in Seq(Ins),
         CutFrom(p, q, t, c, n, start, len), NEW mid, Piece(p, t, c, n, mid),
         NEW m, m = CutIndex(Len(p.text), c, n)
  PROVE  Mirrors(p, q, m, mid, c)
<1>1. PICK size, kept : size = Len(p.text) /\ kept = CutKept(size, c, n)
  OBVIOUS
<1>2. /\ c \in 1..size /\ n \in Nat \ {0} /\ c + n <= size /\ size \in Nat
      /\ \A k \in c..(c + n - 1) : p.text[k].op \notin Returns \union Branches
      /\ \A k \in 1..size : p.text[k] \in Ins /\ (k # c + n => t[k] = p.text[k])
      /\ \A k \in 1..size : p.text[k].op \notin Returns => k + 1 \in 1..size
      /\ p.text \in Seq(Ins) /\ DOMAIN p.text = 1..size
  BY <1>1, ProgFacts DEF CutFrom, Prog
<1>3. Shifts(m, kept, size, c, n)
  BY <1>1, <1>2, CutShifts
<1>4. m \in [1..size -> 1..Len(q.text)]
  <2>1. Squeezed(p, q, m, kept, start, len)
    BY <1>1, CutSqueezes
  <2> QED
    BY <1>1, <2>1 DEF Squeezed
<1>5. n = 1 \/ n = 2
  BY DEF Piece
<1>6. \A k \in c..(c + n - 1) : k \in 1..size /\ m[k + 1] = c /\ m[k] = c
  <2>1. \A k \in 1..size : m[k] = IF k <= c THEN k ELSE IF k < c + n THEN c ELSE k - n
    BY <1>1 DEF CutIndex
  <2>2. ASSUME NEW k \in c..(c + n - 1)
        PROVE  k \in 1..size /\ m[k + 1] = c /\ m[k] = c
    <3>1. k \in 1..size /\ k + 1 \in 1..size /\ k + 1 > c /\ k < c + n /\ k >= c
      BY <1>2
    <3>2. m[k] = c
      BY <1>2, <2>1, <3>1
    <3>3. CASE k + 1 < c + n
      BY <1>2, <2>1, <3>1, <3>3
    <3>4. CASE k + 1 = c + n
      BY <1>2, <2>1, <3>1, <3>4
    <3> QED
      BY <1>2, <3>1, <3>2, <3>3, <3>4
  <2> QED
    BY <2>2
<1>7. ASSUME NEW k \in c..(c + n - 1)
      PROVE  Skipped(p, m, mid, c, k)
  <2>1. PICK ins : ins = p.text[k] /\ ins \in Ins
    BY <1>2, <1>6
  <2>2. k = c \/ (k = c + 1 /\ n = 2)
    BY <1>2, <1>5
  <2>3. c # c + 1 /\ c + 2 # c + 1 /\ (c + 1) + 1 = c + 2
    BY <1>2
  <2>4. ASSUME NEW stack \in Stacks, NEW other \in Stacks, Fit(mid, c, k, stack, other)
        PROVE  Shows(ins, stack) = <<>> /\ Fit(mid, c, k + 1, After(ins, stack), other)
    <3>1. ins.op \in {"POPN", "PUSHN", "NOT", "PUSH", "POP"}
      BY <1>2, <2>1, <2>2 DEF Piece
    <3>2. Shows(ins, stack) = <<>>
      BY <3>1 DEF Shows, Returns
    <3>3. CASE mid = "none"
      <4>1. k = c /\ ins.op \in {"POPN", "PUSHN"} /\ ins.arg = 0 /\ stack = other
        BY <1>2, <2>1, <2>2, <2>4, <3>3 DEF Piece, Fit, Mid
      <4>2. After(ins, stack) = stack
        BY <4>1, PoppedNone, PushedTyped DEF After
      <4> QED
        BY <3>2, <3>3, <4>1, <4>2 DEF Fit, Mid
    <3>4. CASE mid = "not"
      <4>1. ins.op = "NOT" /\ n = 2
        BY <2>1, <2>2, <3>4 DEF Piece
      <4>2. After(ins, stack) = Negated(stack)
        BY <4>1 DEF After
      <4>3. CASE k = c
        <5>1. stack = other
          BY <2>3, <2>4, <4>3 DEF Fit, Mid
        <5> QED
          BY <3>2, <3>4, <4>2, <4>3, <5>1 DEF Fit, Mid
      <4>4. CASE k = c + 1
        <5>1. stack = Negated(other)
          BY <2>4, <3>4, <4>4 DEF Fit, Mid
        <5>2. After(ins, stack) = other
          BY <4>2, <5>1, NegatedTwice
        <5> QED
          BY <2>3, <3>2, <4>4, <5>2 DEF Fit, Mid
      <4> QED
        BY <2>2, <4>3, <4>4
    <3>5. CASE mid = "push"
      <4>1. CASE k = c
        <5>1. ins.op = "PUSH"
          BY <2>1, <3>5, <4>1 DEF Piece
        <5>2. stack = other
          BY <2>3, <2>4, <4>1 DEF Fit, Mid
        <5>3. \E x \in Cells : After(ins, stack) = <<x>> \o other
          BY <2>1, <5>1, <5>2, PushedFits
        <5> QED
          BY <3>2, <3>5, <4>1, <5>3 DEF Fit, Mid
      <4>2. CASE k = c + 1 /\ n = 2
        <5>1. ins.op = "POP"
          BY <2>1, <3>5, <4>2 DEF Piece
        <5>2. PICK x \in Cells : stack = <<x>> \o other
          BY <2>4, <3>5, <4>2 DEF Fit, Mid
        <5>3. After(ins, stack) = Popped(stack, 1)
          BY <5>1 DEF After
        <5>4. Popped(stack, 1) = Popped(other, 1 - 1)
          BY <5>2, PoppedMore
        <5>5. After(ins, stack) = other
          BY <5>3, <5>4, PoppedNone
        <5> QED
          BY <2>3, <3>2, <4>2, <5>5 DEF Fit, Mid
      <4> QED
        BY <2>2, <4>1, <4>2
    <3> QED
      BY <3>3, <3>4, <3>5 DEF Piece
  <2> QED
    BY <1>2, <1>6, <2>1, <2>4 DEF Skipped
<1>8. ASSUME NEW k \in kept, ~Mid(mid, c, k)
      PROVE  Followed(p, q, m, mid, c, k)
  <2>1. k \in 1..size /\ (k < c \/ k >= c + n)
    <3>1. k \in 1..size /\ k \notin c..(c + n - 1)
      BY <1>1, <1>8 DEF CutKept
    <3> QED
      BY <1>2, <3>1
  <2>2. ~Mid(mid, c, k + 1)
    BY <1>2, <2>1 DEF Mid
  <2>3. t[k] = p.text[k]
    <3>1. CASE t = p.text
      BY <3>1
    <3>2. CASE mid = "push" /\ n = 1
      <4>1. k # c + n
        BY <1>8, <3>2 DEF Mid
      <4> QED
        BY <1>2, <2>1, <4>1
    <3> QED
      BY <3>1, <3>2 DEF Piece
  <2>4. Unreached(p, c, n, mid)
    <3>1. c \in c..(c + n - 1)
      BY <1>2
    <3> QED
      BY <1>1, <1>2, <3>1 DEF Piece, Unreached
  <2>5. m = CutIndex(size, c, n) /\ k \in CutKept(size, c, n)
    BY <1>1
  <2> QED
    BY <1>1, <1>8, <2>2, <2>3, <2>4, <2>5, CutFollowed
<1>9. ASSUME NEW k \in kept, Mid(mid, c, k)
      PROVE  Followed(p, q, m, mid, c, k)
  <2>1. k = c + 1 /\ mid # "none" /\ k \in 1..size /\ k \notin c..(c + n - 1)
    BY <1>1, <1>9 DEF Mid, CutKept
  <2>2. n = 1 /\ mid = "push"
    <3>1. n # 2
      BY <1>2, <2>1
    <3> QED
      BY <2>1, <3>1 DEF Piece
  <2>3. PICK ins, other : ins = p.text[k] /\ other = q.text[m[k]]
    OBVIOUS
  <2>4. /\ t = [p.text EXCEPT ![k].arg = @ - 1]
        /\ ins.op = "POPN" /\ ins.arg > 0
    BY <2>1, <2>2, <2>3 DEF Piece
  <2>5. ins \in Ins /\ t[k] = [ins EXCEPT !.arg = @ - 1]
    <3>1. k \in DOMAIN p.text /\ ins \in Ins
      BY <1>2, <2>1, <2>3
    <3>2. t[k] = [p.text[k] EXCEPT !.arg = @ - 1]
      BY <2>4, <3>1
    <3> QED
      BY <2>3, <3>1, <3>2
  <2>6. other = t[k]
    <3>1. ins.op \notin Relative
      BY <2>4 DEF Relative
    <3> QED
      BY <1>1, <1>9, <2>3, <3>1, CutLeft
  <2>7. other.op = "POPN" /\ other.arg = ins.arg - 1 /\ ins.arg \in Nat \ {0}
    BY <2>4, <2>5, <2>6 DEF Ins
  <2>8. ins.op \notin Returns /\ other.op \notin Returns
        /\ ins.op \notin Branches /\ other.op \notin Branches
    BY <2>4, <2>7 DEF Returns, Branches
  <2>9. ASSUME NEW stack \in Stacks, NEW below \in Stacks, Fit(mid, c, k, stack, below)
        PROVE  /\ Shows(ins, stack) = Shows(other, below)
               /\ Fit(mid, c, k + 1, After(ins, stack), After(other, below))
    <3>1. PICK x \in Cells : stack = <<x>> \o below
      BY <1>9, <2>2, <2>9 DEF Fit
    <3>2. After(ins, stack) = Popped(stack, ins.arg) /\ After(other, below) = Popped(below, ins.arg - 1)
      BY <2>4, <2>7 DEF After
    <3>3. Popped(stack, ins.arg) = Popped(below, ins.arg - 1)
      BY <2>7, <3>1, PoppedMore
    <3>4. Shows(ins, stack) = <<>> /\ Shows(other, below) = <<>>
      BY <2>4, <2>7 DEF Shows, Returns
    <3>5. ~Mid(mid, c, k + 1)
      BY <1>2, <2>1 DEF Mid
    <3> QED
      BY <3>2, <3>3, <3>4, <3>5 DEF Fit
  <2>10. m[k + 1] = m[k] + 1
    <3>1. k + 1 \in 1..size
      BY <1>2, <2>1, <2>3, <2>8
    <3> QED
      BY <1>3, <1>9, <3>1 DEF Shifts
  <2>11. SameWays(ins, other)
    BY <2>4, <2>7 DEF SameWays
  <2> QED
    BY <2>3, <2>8, <2>9, <2>10, <2>11 DEF Followed
<1>10. \A k \in 1..size : k \in kept \/ k \in c..(c + n - 1)
  BY <1>1 DEF CutKept
<1> QED
  BY <1>1, <1>4, <1>7, <1>8, <1>9, <1>10 DEF Mirrors

-----------------------------------------------------------------------------
(* Both show the same from Start and from every function.                  *)
SameFrom(p, q, size) ==
  \A choices \in Seq(BOOLEAN) : \A n \in Nat : n = (Len(choices) + 1) * size + 1 =>
    /\ Outcome(p, p.main, choices, n) = Outcome(q, q.main, choices, n)
    /\ \A f \in Functions : Outcome(p, p.ptr[f], choices, n) = Outcome(q, q.ptr[f], choices, n)

(* A program that follows another, entry for entry, does the same.         *)
LEMMA SqueezedSame ==
  ASSUME NEW p, NEW q, NEW m, NEW kept, NEW start, NEW len, NEW mid, NEW c \in Nat \ {0},
         Prog(p), Prog(q), Squeezed(p, q, m, kept, start, len), Mirrors(p, q, m, mid, c),
         mid # "none" => p.text[c].op \notin Returns,
         NEW size \in Nat, Len(p.text) <= size
  PROVE  SameFrom(p, q, size)
<1>1. ASSUME NEW address, Entry(p.text, address),
             NEW choices \in Seq(BOOLEAN), NEW n, n = (Len(choices) + 1) * size + 1
      PROVE  Outcome(p, address, choices, n) = Outcome(q, Moved(address, start, len), choices, n)
  <2>1. PICK k \in 1..Len(p.text) :
          /\ Addresses(p.text)[k] = address /\ (k > 1 => p.text[k - 1].op \in Returns)
          /\ Addresses(q.text)[m[k]] = Moved(address, start, len)
    <3>1. q.text \in Seq(Ins)
      BY DEF Prog
    <3>2. \E k \in 1..Len(p.text) :
            /\ Addresses(p.text)[k] = address /\ (k > 1 => p.text[k - 1].op \in Returns)
            /\ Addresses(q.text)[m[k]] = Moved(address, start, len)
      BY <1>1, <3>1, SqueezedEntry
    <3> QED
      BY <3>2
  <2>2. ~Mid(mid, c, k)
    <3>1. SUFFICES ASSUME Mid(mid, c, k)
                   PROVE  FALSE
      OBVIOUS
    <3>2. k = c + 1 /\ mid # "none"
      BY <3>1 DEF Mid
    <3>3. k > 1 /\ k - 1 = c
      BY <3>2
    <3> QED
      BY <2>1, <3>2, <3>3
  <2>3. Outcome(p, Addresses(p.text)[k], choices, n) = Outcome(q, Addresses(q.text)[m[k]], choices, n)
    BY <1>1, <2>2, MirrorsShow
  <2> QED
    BY <2>1, <2>3
<1>2. /\ Entry(p.text, p.main) /\ q.main = Moved(p.main, start, len)
      /\ \A f \in Functions :
           Entry(p.text, p.ptr[f]) /\ q.ptr[f] = Moved(p.ptr[f], start, len)
  BY DEF Prog, WellFormed, Squeezed, Relocations
<1> QED
  BY <1>1, <1>2 DEF SameFrom

-----------------------------------------------------------------------------
(* A shorter instruction that does the same.                               *)
Shorter(old, ins, len) ==
  \/ old.op = "RETN" /\ ins.op = "RET" /\ ins.arg = old.arg
  \/ old.op = "POPN" /\ old.arg = 1 /\ ins.op = "POP"
  \/ /\ ins.op = old.op
     /\ ins.arg = IF old.op \in Relative /\ old.arg > 0 THEN old.arg - len ELSE old.arg

ShortenFrom(p, q, b, ins, start, len) ==
  /\ b \in 1..Len(p.text) /\ ins \in Ins /\ Shorter(p.text[b], ins, len)
  /\ len \in Nat /\ Size(p.text[b]) = Size(ins) + len
  /\ start = Addresses(p.text)[b] + 1
  /\ \A l \in p.links : CanLink(p.text, l) /\ l.ins # Addresses(p.text)[b]
  /\ q.text = [RelocatedText([p.text EXCEPT ![b] = ins], start, len) EXCEPT ![b] = ins]
  /\ q.links = {Redirected(l, start, len) :
                  l \in {l \in p.links : l.ins \notin start..(start + len - 1)}}
  /\ q.ptr = [f \in Functions |-> Moved(p.ptr[f], start, len)]
  /\ q.main = Moved(p.main, start, len)

(* The text with the shorter instruction, before and after it is corrected. *)
BeforeAfter(p, q, b, ins, start, len, base) ==
  LET size == Len(p.text)
  IN  /\ base \in Seq(Ins) /\ q.text \in Seq(Ins) /\ start \in Nat
      /\ Len(base) = size /\ Len(q.text) = size
      /\ base[b] = ins /\ q.text[b] = ins
      /\ \A k \in (1..size) \ {b} : base[k] = p.text[k]
      /\ \A k \in (1..size) \ {b} : q.text[k] = RelocatedText(base, start, len)[k]
      /\ \A k \in (1..size) \ {b} : Alike(q.text[k], p.text[k])
      /\ \A k \in (1..size) \ {b} : p.text[k].op \notin Relative => q.text[k] = p.text[k]
      /\ Addresses(base) = Addresses(q.text)
      /\ Shortened(p.text, q.text, b, len)

(* An immediate made shorter, as a relation between two programs.          *)
LEMMA ShortenTexts ==
  ASSUME NEW p, NEW q, NEW b, NEW ins, NEW start, NEW len, Prog(p),
         ShortenFrom(p, q, b, ins, start, len)
  PROVE  BeforeAfter(p, q, b, ins, start, len, [p.text EXCEPT ![b] = ins])
<1>0. PICK size, base : size = Len(p.text) /\ base = [p.text EXCEPT ![b] = ins]
  OBVIOUS
<1>1. PICK moved, old, new :
        moved = RelocatedText(base, start, len) /\ old = p.text /\ new = q.text
  OBVIOUS
<1>2. /\ old \in Seq(Ins) /\ size \in Nat /\ size = Len(old) /\ b \in 1..size /\ ins \in Ins
      /\ len \in Nat /\ Size(old[b]) = Size(ins) + len
      /\ start = Addresses(old)[b] + 1 /\ new = [moved EXCEPT ![b] = ins]
      /\ base = [old EXCEPT ![b] = ins]
  BY <1>0, <1>1, ProgFacts DEF ShortenFrom, Prog
<1>3. start \in Nat
  <2>1. Addresses(old)[b] \in Nat
    BY <1>1, <1>2, ProgFacts
  <2> QED
    BY <1>2, <2>1
<1>4. /\ base \in Seq(Ins) /\ Len(base) = size /\ base[b] = ins
      /\ \A k \in (1..size) \ {b} : base[k] = old[k]
  <2>1. /\ [old EXCEPT ![b] = ins] \in Seq(Ins) /\ Len([old EXCEPT ![b] = ins]) = Len(old)
        /\ \A k \in 1..Len(old) : [old EXCEPT ![b] = ins][k] = IF k = b THEN ins ELSE old[k]
    BY <1>2, ExceptSeq
  <2> QED
    BY <1>2, <2>1
<1>5. moved \in Seq(Ins) /\ SameButJumps(moved, base)
  BY <1>1, <1>2, <1>3, <1>4, RelocatedSame
<1>6. /\ new \in Seq(Ins) /\ Len(new) = size /\ new[b] = ins
      /\ \A k \in (1..size) \ {b} : new[k] = moved[k]
  <2>1. Len(moved) = size
    BY <1>4, <1>5 DEF SameButJumps
  <2>2. /\ [moved EXCEPT ![b] = ins] \in Seq(Ins) /\ Len([moved EXCEPT ![b] = ins]) = Len(moved)
        /\ \A k \in 1..Len(moved) : [moved EXCEPT ![b] = ins][k] = IF k = b THEN ins ELSE moved[k]
    BY <1>2, <1>5, <2>1, ExceptSeq
  <2> QED
    BY <1>2, <2>1, <2>2
<1>7. \A k \in (1..size) \ {b} :
        Alike(new[k], old[k]) /\ (old[k].op \notin Relative => new[k] = old[k])
  BY <1>4, <1>5, <1>6 DEF SameButJumps
<1>8. Shortened(old, new, b, len)
  BY <1>2, <1>6, <1>7 DEF Shortened
<1>9. Addresses(base) = Addresses(new)
  <2>1. \A k \in 1..size : Alike(new[k], base[k])
    BY <1>4, <1>6, <1>7 DEF Alike
  <2> QED
    BY <1>4, <1>6, <2>1, SameAddresses
<1> QED
  BY <1>0, <1>1, <1>3, <1>4, <1>6, <1>7, <1>8, <1>9 DEF BeforeAfter

(* Where everything is behind the shorter instruction.                     *)
LEMMA ShortenMoves ==
  ASSUME NEW p, NEW q, NEW b, NEW ins, NEW start, NEW len, Prog(p),
         ShortenFrom(p, q, b, ins, start, len), NEW k \in 1..Len(p.text)
  PROVE  /\ Addresses(p.text)[k] \in Nat /\ Addresses(q.text)[k] \in Nat
         /\ Addresses(q.text)[k] = Moved(Addresses(p.text)[k], start, len)
         /\ IF k <= b THEN /\ Addresses(p.text)[k] < start
                           /\ Addresses(q.text)[k] = Addresses(p.text)[k]
                      ELSE /\ Addresses(p.text)[k] >= start + len
                           /\ Addresses(q.text)[k] = Addresses(p.text)[k] - len
<1>1. PICK old, new, size, a, c :
        /\ old = p.text /\ new = q.text /\ size = Len(p.text)
        /\ a = Addresses(p.text) /\ c = Addresses(q.text)
  OBVIOUS
<1>2. /\ old \in Seq(Ins) /\ size \in Nat /\ b \in 1..size /\ len \in Nat /\ ins \in Ins
      /\ start = a[b] + 1 /\ Size(old[b]) = Size(ins) + len /\ k \in 1..size
  BY <1>1, ProgFacts DEF ShortenFrom, Prog
<1>3. /\ \A j \in 1..(size + 1) : a[j] \in Nat
      /\ \A j \in 1..size : \A h \in (j + 1)..(size + 1) : a[j] + Size(old[j]) <= a[h]
  BY <1>1, <1>2, AddressBounds
<1>4. Shortened(old, new, b, len) /\ Len(new) = size
  <2>1. BeforeAfter(p, q, b, ins, start, len, [p.text EXCEPT ![b] = ins])
    BY ShortenTexts
  <2> QED
    BY <1>1, <2>1 DEF BeforeAfter
<1>5. /\ \A j \in 1..b : c[j] = a[j]
      /\ \A j \in (b + 1)..(size + 1) : c[j] = a[j] - len
  BY <1>1, <1>4, ShortenAddresses
<1>6. a[k] \in Nat /\ a[b] \in Nat /\ Size(ins) \in Nat \ {0} /\ start \in Nat
  <2>1. k \in 1..(size + 1) /\ b \in 1..(size + 1)
    BY <1>2
  <2>2. Size(ins) \in Nat \ {0}
    BY <1>2, InsSize
  <2>3. a[k] \in Nat /\ a[b] \in Nat
    BY <1>3, <2>1
  <2> QED
    BY <1>2, <2>2, <2>3
<1>7. CASE k <= b
  <2>1. c[k] = a[k]
    BY <1>2, <1>5, <1>7
  <2>2. a[k] <= a[b]
    <3>1. k # b => k \in 1..(b - 1)
      BY <1>2, <1>7
    <3>2. k # b => a[k] < a[b]
      BY <1>1, <1>2, <3>1, AddressesRise
    <3> QED
      BY <1>6, <3>2
  <2> QED
    BY <1>1, <1>2, <1>6, <1>7, <2>1, <2>2 DEF Moved
<1>8. CASE ~(k <= b)
  <2>1. k \in (b + 1)..(size + 1)
    BY <1>2, <1>8
  <2>2. c[k] = a[k] - len /\ a[b] + Size(old[b]) <= a[k]
    BY <1>2, <1>3, <1>5, <2>1
  <2>3. a[k] >= start + len
    BY <1>2, <1>6, <2>2
  <2>4. PICK now : now = a[k]
    OBVIOUS
  <2>5. now \in Nat /\ start \in Nat /\ len \in Nat /\ now >= start + len
    BY <1>2, <1>6, <2>3, <2>4
  <2>6. now - len \in Nat /\ now - len = Moved(now, start, len)
    BY <2>5 DEF Moved
  <2> QED
    BY <1>1, <1>8, <2>2, <2>4, <2>5, <2>6
<1> QED
  BY <1>7, <1>8

Stay(size) == [k \in 1..size |-> k]

LEMMA StayIs ==
  ASSUME NEW size, NEW k \in 1..size
  PROVE  Stay(size)[k] = k
BY DEF Stay

(* Jumps reach what they reached, the shortened one included.              *)
LEMMA ShortenReaches ==
  ASSUME NEW p, NEW q, NEW b, NEW ins, NEW start, NEW len, Prog(p),
         ShortenFrom(p, q, b, ins, start, len),
         NEW k \in 1..Len(p.text), p.text[k].op \in Relative
  PROVE  Addresses(q.text)[k] + q.text[k].arg
           = Moved(Addresses(p.text)[k] + p.text[k].arg, start, len)
<1>1. PICK old, new, size, a, c, base :
        /\ old = p.text /\ new = q.text /\ size = Len(p.text)
        /\ a = Addresses(p.text) /\ c = Addresses(q.text)
        /\ base = [p.text EXCEPT ![b] = ins]
  OBVIOUS
<1>2. /\ base \in Seq(Ins) /\ start \in Nat /\ Len(base) = size /\ new[b] = ins
      /\ \A j \in (1..size) \ {b} : base[j] = old[j]
      /\ \A j \in (1..size) \ {b} : new[j] = RelocatedText(base, start, len)[j]
      /\ Addresses(base) = c
  <2>1. BeforeAfter(p, q, b, ins, start, len, base)
    BY <1>1, ShortenTexts
  <2> QED
    BY <1>1, <2>1 DEF BeforeAfter
<1>3. /\ b \in 1..size /\ len \in Nat /\ Shorter(old[b], ins, len)
      /\ size \in Nat \ {0} /\ old[size].op \in Returns /\ k \in 1..size
      /\ old[k] \in Ins /\ WellFormed(p) /\ DOMAIN p.text = 1..size
  BY <1>1, ProgFacts DEF ShortenFrom, Prog
<1>4. PICK amt \in Int : amt = old[k].arg
  BY <1>3 DEF Ins
<1>5. PICK j \in 1..size : a[k] + amt = a[j]
  BY <1>1, <1>3, <1>4 DEF WellFormed
<1>6. PICK at, before, target : at = c[k] /\ before = a[k] /\ target = a[j]
  OBVIOUS
<1>7. at \in Nat /\ before \in Nat /\ target \in Nat /\ target = before + amt
  BY <1>1, <1>5, <1>6, ShortenMoves
<1>8. /\ IF k <= b THEN before < start /\ at = before
                   ELSE before >= start + len /\ at = before - len
      /\ IF j <= b THEN target < start ELSE target >= start + len
  BY <1>1, <1>5, <1>6, ShortenMoves
<1>9. CASE k # b
  <2>1. k # size
    BY <1>1, <1>3 DEF Relative, Returns
  <2>2. k \in DOMAIN base
    BY <1>2, <1>3, LenProperties
  <2>3. RelocatedText(base, start, len)[k] =
          IF base[k].op \in Relative /\ k # Len(base)
          THEN [base[k] EXCEPT !.arg = Relocated(Addresses(base)[k], @, start, len)]
          ELSE base[k]
    BY <2>2 DEF RelocatedText
  <2>4. new[k] = [old[k] EXCEPT !.arg = Relocated(at, amt, start, len)]
    BY <1>1, <1>2, <1>3, <1>4, <1>6, <1>9, <2>1, <2>3
  <2>5. new[k].arg = Relocated(at, amt, start, len)
    BY <1>3, <2>4 DEF Ins
  <2>6. before = IF at >= start THEN at + len ELSE at
    <3>1. CASE k <= b
      BY <1>2, <1>3, <1>7, <1>8, <3>1
    <3>2. CASE ~(k <= b)
      BY <1>2, <1>3, <1>7, <1>8, <3>2
    <3> QED
      BY <3>1, <3>2
  <2>7. target < start \/ target >= start + len
    BY <1>8
  <2>8. at + Relocated(at, amt, start, len) = Moved(target, start, len)
    <3>1. start \in Nat /\ len \in Nat
      BY <1>2, <1>3
    <3> QED
      BY <1>7, <2>6, <2>7, <3>1, SMTT(60) DEF Relocated, Moved
  <2> QED
    BY <1>1, <1>4, <1>6, <1>7, <2>5, <2>8
<1>10. CASE k = b
  <2>1. ins.arg = IF amt > 0 THEN amt - len ELSE amt
    BY <1>1, <1>3, <1>4, <1>10 DEF Shorter, Relative
  <2>2. at = before /\ before < start /\ start = before + 1
    BY <1>1, <1>3, <1>6, <1>7, <1>8, <1>10 DEF ShortenFrom
  <2>3. IF amt > 0 THEN target >= start + len ELSE target < start
    <3>1. target < start \/ target >= start + len
      BY <1>8
    <3> QED
      BY <1>2, <1>3, <1>7, <2>2, <3>1
  <2>4. at + ins.arg = Moved(target, start, len)
    BY <1>2, <1>3, <1>7, <2>1, <2>2, <2>3 DEF Moved
  <2> QED
    BY <1>1, <1>2, <1>4, <1>6, <1>7, <1>10, <2>4
<1> QED
  BY <1>9, <1>10

LEMMA ShortenSqueezes ==
  ASSUME NEW p, NEW q, NEW b, NEW ins, NEW start, NEW len, Prog(p),
         ShortenFrom(p, q, b, ins, start, len), NEW size, size = Len(p.text)
  PROVE  Squeezed(p, q, Stay(size), 1..size, start, len)
<1>1. PICK old, new, a, c, m :
        /\ old = p.text /\ new = q.text /\ m = Stay(size)
        /\ a = Addresses(p.text) /\ c = Addresses(q.text)
  OBVIOUS
<1>2. /\ start \in Nat /\ Len(new) = size /\ new[b] = ins
      /\ \A k \in (1..size) \ {b} : Alike(new[k], old[k])
      /\ \A k \in (1..size) \ {b} : old[k].op \notin Relative => new[k] = old[k]
  <2>1. BeforeAfter(p, q, b, ins, start, len, [p.text EXCEPT ![b] = ins])
    BY ShortenTexts
  <2> QED
    BY <1>1, <2>1 DEF BeforeAfter
<1>3. /\ b \in 1..size /\ len \in Nat /\ Shorter(old[b], ins, len)
      /\ size \in Nat \ {0} /\ DOMAIN old = 1..size
      /\ \A k \in 1..size : old[k].op = "POPN" => old[k].arg \in Nat
      /\ \A l \in p.links : CanLink(old, l) /\ l.ins # a[b]
  BY <1>1, ProgFacts DEF ShortenFrom
<1>4. \A k \in 1..size : m[k] = k
  BY <1>1, StayIs
<1>5. m \in [1..size -> 1..size]
  BY <1>1 DEF Stay
<1>6. ASSUME NEW k \in 1..size
      PROVE  SameKind(old[k], new[k])
  <2>1. CASE k = b
    BY <1>2, <1>3, <2>1 DEF SameKind, Shorter, Returns, Relative
  <2>2. CASE k # b
    <3>1. new[k].op = old[k].op /\ (old[k].op \notin Relative => new[k] = old[k])
      BY <1>2, <2>2 DEF Alike
    <3>2. new[k].op = "POPN" => new[k].arg \in Nat
      BY <1>3, <3>1 DEF Relative
    <3> QED
      BY <3>1, <3>2 DEF SameKind
  <2> QED
    BY <2>1, <2>2
<1>7. \A k \in 1..size : c[k] = Moved(a[k], start, len)
  BY <1>1, ShortenMoves
<1>8. \A k \in 1..size : old[k].op \in Relative =>
        c[k] + new[k].arg = Moved(a[k] + old[k].arg, start, len)
  BY <1>1, ShortenReaches
<1>9. ASSUME NEW l \in p.links
      PROVE  \E k \in 1..size : a[k] = l.ins /\ (k \in 1..size <=> l.ins \notin start..(start + len - 1))
  <2>1. PICK k \in 1..size : a[k] = l.ins
    BY <1>1, <1>3 DEF CanLink
  <2>2. a[k] \in Nat /\ (a[k] < start \/ a[k] >= start + len)
    BY <1>1, <2>1, ShortenMoves
  <2>3. a[k] \notin start..(start + len - 1)
    BY <1>2, <1>3, <2>2
  <2> QED
    BY <2>1, <2>3
<1>10. Relocations(p, q, m, 1..size, start, len)
  <2>1. /\ q.links = {Redirected(l, start, len) :
                        l \in {l \in p.links : l.ins \notin start..(start + len - 1)}}
        /\ q.ptr = [f \in Functions |-> Moved(p.ptr[f], start, len)]
        /\ q.main = Moved(p.main, start, len)
    BY DEF ShortenFrom
  <2> QED
    BY <1>1, <1>4, <1>7, <1>8, <1>9, <2>1 DEF Relocations
<1>11. \A k \in 1..(size - 1) : k \in 1..size /\ k + 1 \in 1..size
  BY <1>3
<1>12. 1 \in 1..size /\ size \in 1..size
  BY <1>3
<1>13. /\ m[1] = 1 /\ m[size] = size
       /\ \A h \in 1..size : \E k \in 1..size : m[k] = h
       /\ \A j, k \in 1..size : m[j] = m[k] => j = k
       /\ \A k \in 1..(size - 1) : k \in 1..size /\ m[k + 1] = m[k] + 1
  BY <1>4, <1>11, <1>12
<1>14. \A k \in 1..size : SameKind(p.text[k], q.text[m[k]])
  BY <1>1, <1>4, <1>6
<1>15. len \in Nat /\ Len(q.text) = size
  BY <1>1, <1>2, <1>3
<1> QED
  BY <1>1, <1>2, <1>5, <1>10, <1>12, <1>13, <1>14, <1>15 DEF Squeezed

(* Both do and show the same.                                              *)
LEMMA AsShort ==
  ASSUME NEW old \in Ins, NEW ins \in Ins, NEW len, Shorter(old, ins, len), NEW stack
  PROVE  /\ SameWays(old, ins) /\ Shows(old, stack) = Shows(ins, stack)
         /\ After(old, stack) = After(ins, stack)
<1>1. CASE old.op = "RETN" /\ ins.op = "RET" /\ ins.arg = old.arg
  BY <1>1 DEF SameWays, Returns, Branches, Shows, After
<1>2. CASE old.op = "POPN" /\ old.arg = 1 /\ ins.op = "POP"
  BY <1>2 DEF SameWays, Returns, Branches, Shows, After
<1>3. CASE ins.op = old.op /\ (old.op \notin Relative => ins.arg = old.arg)
  <2>1. SameWays(old, ins)
    BY <1>3 DEF SameWays
  <2>2. CASE old.op \in Relative
    <3>1. old.op = "JR" \/ old.op = "JRCON" \/ old.op = "CALLR"
      BY <2>2 DEF Relative
    <3> QED
      BY <1>3, <2>1, <3>1 DEF Shows, After, Returns
  <2>3. CASE old.op \notin Relative
    BY <1>3, <2>1, <2>3 DEF Shows, After
  <2> QED
    BY <2>2, <2>3
<1> QED
  BY <1>1, <1>2, <1>3 DEF Shorter

(* The program with a shorter immediate follows the one before.            *)
LEMMA ShortenMirrors ==
  ASSUME NEW p, NEW q, NEW b, NEW ins, NEW start, NEW len, Prog(p),
         ShortenFrom(p, q, b, ins, start, len), NEW size, size = Len(p.text),
         NEW m, m = Stay(size)
  PROVE  Mirrors(p, q, m, "none", 1)
<1>1. PICK old, new : old = p.text /\ new = q.text
  OBVIOUS
<1>2. /\ Len(new) = size /\ new \in Seq(Ins) /\ new[b] = ins
      /\ \A k \in (1..size) \ {b} : Alike(new[k], old[k])
      /\ \A k \in (1..size) \ {b} : old[k].op \notin Relative => new[k] = old[k]
  <2>1. BeforeAfter(p, q, b, ins, start, len, [p.text EXCEPT ![b] = ins])
    BY ShortenTexts
  <2> QED
    BY <1>1, <2>1 DEF BeforeAfter
<1>3. /\ b \in 1..size /\ Shorter(old[b], ins, len) /\ ins \in Ins
      /\ \A k \in 1..size : old[k] \in Ins
      /\ \A k \in 1..size : old[k].op \notin Returns => k + 1 \in 1..size
  BY <1>1, ProgFacts DEF ShortenFrom
<1>4. \A k \in 1..size : m[k] = k
  BY StayIs
<1>5. Squeezed(p, q, m, 1..size, start, len)
  BY ShortenSqueezes
<1>6. ASSUME NEW k \in 1..size
      PROVE  Followed(p, q, m, "none", 1, k)
  <2>1. ASSUME NEW stack
        PROVE  /\ SameWays(old[k], new[k]) /\ Shows(old[k], stack) = Shows(new[k], stack)
               /\ After(old[k], stack) = After(new[k], stack)
    <3>1. CASE k = b
      BY <1>2, <1>3, <3>1, AsShort
    <3>2. CASE k # b
      <4>1. new[k].op = old[k].op /\ (old[k].op \notin Relative => new[k] = old[k])
        BY <1>2, <3>2 DEF Alike
      <4>2. CASE old[k].op \in Relative
        <5>1. old[k].op = "JR" \/ old[k].op = "JRCON" \/ old[k].op = "CALLR"
          BY <4>2 DEF Relative
        <5> QED
          BY <4>1, <5>1 DEF SameWays, Shows, After, Returns
      <4>3. CASE old[k].op \notin Relative
        BY <4>1, <4>3 DEF SameWays
      <4> QED
        BY <4>2, <4>3
    <3> QED
      BY <3>1, <3>2
  <2>2. old[k].op \notin Returns => m[k + 1] = m[k] + 1
    BY <1>3, <1>4
  <2>3. ASSUME old[k].op \in Branches, NEW j, Leads(p, k, j)
        PROVE  Leads(q, m[k], m[j])
    BY <1>1, <1>2, <1>5, <2>3, SqueezedLeads
  <2> QED
    BY <1>1, <1>4, <2>1, <2>2, <2>3 DEF Followed, Fit, Mid
<1>7. m \in [1..size -> 1..Len(q.text)]
  BY <1>1, <1>2 DEF Stay
<1> QED
  BY <1>6, <1>7 DEF Mirrors

-----------------------------------------------------------------------------
(* Calls that are relative now lead where they led through the linker.     *)
OwnOf(p, k) == {l \in p.links : l.ins = Addresses(p.text)[k] /\ l.to \in Functions}

MadeRelative(p, k) ==
  IF OwnOf(p, k) # {}
  THEN LET l == CHOOSE l \in OwnOf(p, k) : TRUE
       IN  [p.text[k] EXCEPT !.op = "CALLR", !.arg = p.ptr[l.to] - l.ins]
  ELSE p.text[k]

RelativeFrom(p, q) ==
  /\ q.text = [k \in 1..Len(p.text) |-> MadeRelative(p, k)]
  /\ \A l \in p.links : CanLink(p.text, l)
  /\ q.links = {l \in p.links : l.to \notin Functions}
  /\ q.ptr = p.ptr /\ q.main = p.main

(* Calls made relative, as a relation between two programs.                *)
LEMMA RelativeTexts ==
  ASSUME NEW p, NEW q, Prog(p), RelativeFrom(p, q), NEW size, size = Len(p.text)
  PROVE  /\ q.text \in Seq(Ins) /\ Len(q.text) = size
         /\ Addresses(q.text) = Addresses(p.text)
         /\ \A k \in 1..size :
              \/ q.text[k] = p.text[k] /\ p.text[k].op # "CALLI"
              \/ /\ p.text[k].op = "CALLI" /\ q.text[k].op = "CALLR"
                 /\ Target(q, Addresses(p.text)[k], q.text[k])
                      = Target(p, Addresses(p.text)[k], p.text[k])
<1>1. PICK old, new, a : old = p.text /\ new = q.text /\ a = Addresses(p.text)
  OBVIOUS
<1>2. /\ old \in Seq(Ins) /\ size \in Nat /\ DOMAIN old = 1..size
      /\ p.links \subseteq Links /\ p.ptr \in [Functions -> Nat] /\ WellFormed(p)
      /\ \A k \in 1..size : old[k] \in Ins /\ a[k] \in Nat
  BY <1>1, ProgFacts DEF Prog
<1>3. /\ DOMAIN new = 1..size /\ new = [k \in 1..size |-> new[k]]
      /\ \A k \in 1..size : new[k] = MadeRelative(p, k)
  BY <1>1 DEF RelativeFrom
<1>4. ASSUME NEW k \in 1..size, OwnOf(p, k) = {}
      PROVE  new[k] = old[k] /\ old[k].op # "CALLI"
  <2>1. new[k] = old[k]
    BY <1>1, <1>3, <1>4 DEF MadeRelative
  <2>2. old[k].op = "CALLI" => \E l \in p.links : l.ins = a[k] /\ l.to \in Functions
    BY <1>1, <1>2 DEF WellFormed, LinksToFunction
  <2> QED
    BY <1>1, <1>4, <2>1, <2>2 DEF OwnOf
<1>5. ASSUME NEW k \in 1..size, OwnOf(p, k) # {}
      PROVE  /\ old[k].op = "CALLI" /\ new[k].op = "CALLR" /\ new[k].width = old[k].width
             /\ new[k] \in Ins
             /\ Target(q, a[k], new[k]) = Target(p, a[k], old[k])
  <2>1. PICK l : l = CHOOSE link \in OwnOf(p, k) : TRUE
    OBVIOUS
  <2>2. l \in p.links /\ l.ins = a[k] /\ l.to \in Functions
    BY <1>1, <1>5, <2>1 DEF OwnOf
  <2>3. PICK arg : arg = p.ptr[l.to] - l.ins
    OBVIOUS
  <2>4. p.ptr[l.to] \in Nat /\ l.ins \in Nat /\ arg \in Int /\ a[k] + arg = p.ptr[l.to]
    <3>1. p.ptr[l.to] \in Nat /\ l.ins \in Nat
      BY <1>2, <2>2
    <3> QED
      BY <2>2, <2>3, <3>1
  <2>5. new[k] = [old[k] EXCEPT !.op = "CALLR", !.arg = arg]
    BY <1>1, <1>3, <1>5, <2>1, <2>3 DEF MadeRelative
  <2>6. old[k].op = "CALLI"
    <3>1. CanLink(old, l)
      BY <1>1, <2>2 DEF RelativeFrom
    <3>2. PICK j \in 1..size : a[j] = l.ins /\ old[j].op \in LinkedTo(l.to)
      BY <1>1, <1>2, <3>1 DEF CanLink
    <3>3. j = k
      BY <1>1, <1>2, <2>2, <3>2, AddressesOnce
    <3> QED
      BY <2>2, <3>2, <3>3 DEF LinkedTo
  <2>7. new[k].op = "CALLR" /\ new[k].width = old[k].width /\ new[k].arg = arg /\ new[k] \in Ins
    <3>1. "CALLR" \in Opcodes /\ old[k] \in Ins
      BY <1>2 DEF Opcodes, Immediate, Relative
    <3> QED
      BY <2>4, <2>5, <3>1 DEF Ins
  <2>8. LinksToFunction(p.links, a[k])
    BY <1>1, <1>2, <2>6 DEF WellFormed
  <2>9. PICK d \in p.links :
          /\ \A other \in p.links : other.ins = a[k] => other = d
          /\ (CHOOSE other \in p.links : other.ins = a[k]) = d
    BY <2>8, LinkFound
  <2>10. l = d
    BY <2>2, <2>9
  <2>11. Target(p, a[k], old[k]) = p.ptr[l.to]
    BY <2>6, <2>9, <2>10 DEF Target
  <2>12. Target(q, a[k], new[k]) = a[k] + arg
    BY <2>7 DEF Target
  <2> QED
    BY <2>4, <2>6, <2>7, <2>11, <2>12
<1>6. new \in Seq(Ins) /\ Len(new) = size
  <2>1. DOMAIN new = 1..size /\ new = [k \in 1..size |-> new[k]]
    BY <1>3
  <2>2. \A k \in 1..size : new[k] \in Ins
    BY <1>2, <1>4, <1>5
  <2> QED
    BY <1>2, <2>1, <2>2, FunctionIsText
<1>7. Addresses(new) = a
  <2>1. \A k \in 1..size : Size(new[k]) = Size(old[k])
    BY <1>4, <1>5 DEF Size
  <2>2. Sized(old) /\ Sized(new)
    BY <1>2, <1>6, TextSized
  <2>3. Runs(a, old, size)
    BY <1>1, <2>2, AddressesRun
  <2>4. Runs(a, new, Len(new))
    BY <1>6, <2>1, <2>3 DEF Runs
  <2> QED
    BY <2>2, <2>4, AddressesAre
<1> QED
  BY <1>1, <1>4, <1>5, <1>6, <1>7

LEMMA RelativeLeads ==
  ASSUME NEW p, NEW q, Prog(p), RelativeFrom(p, q),
         NEW k \in 1..Len(p.text), p.text[k].op \in Branches, NEW j, Leads(p, k, j)
  PROVE  Leads(q, k, j)
<1>1. PICK size, a : size = Len(p.text) /\ a = Addresses(p.text)
  OBVIOUS
<1>2. /\ Len(q.text) = size /\ Addresses(q.text) = a
      /\ \/ q.text[k] = p.text[k] /\ p.text[k].op # "CALLI"
         \/ /\ p.text[k].op = "CALLI" /\ q.text[k].op = "CALLR"
            /\ Target(q, a[k], q.text[k]) = Target(p, a[k], p.text[k])
  BY <1>1, RelativeTexts
<1>3. j \in 1..size /\ Target(p, a[k], p.text[k]) = a[j]
  BY <1>1 DEF Leads
<1>4. Target(q, a[k], q.text[k]) = Target(p, a[k], p.text[k])
  BY <1>2 DEF Target
<1> QED
  BY <1>1, <1>2, <1>3, <1>4 DEF Leads

LEMMA RelativeProg ==
  ASSUME NEW p, NEW q, Prog(p), RelativeFrom(p, q)
  PROVE  Prog(q)
<1>1. PICK size, a, old, new :
        size = Len(p.text) /\ a = Addresses(p.text) /\ old = p.text /\ new = q.text
  OBVIOUS
<1>2. /\ new \in Seq(Ins) /\ Len(new) = size /\ Addresses(new) = a
      /\ \A k \in 1..size :
           \/ new[k] = old[k] /\ old[k].op # "CALLI"
           \/ old[k].op = "CALLI" /\ new[k].op = "CALLR"
  BY <1>1, RelativeTexts
<1>3. /\ size \in Nat \ {0} /\ DOMAIN old = 1..size /\ DOMAIN new = 1..size
      /\ old[size].op \in Returns /\ WellFormed(p)
      /\ \A k \in 1..size : old[k].op = "POPN" => old[k].arg \in Nat
  BY <1>1, <1>2, ProgFacts, LenProperties DEF Prog
<1>4. ASSUME NEW k \in 1..size
      PROVE  /\ old[k].op \in Returns => new[k].op \in Returns
             /\ new[k].op # "CALLI"
             /\ new[k].op = "POPN" => new[k].arg \in Nat
             /\ new[k].op \in Relative => old[k].op \in Branches
  BY <1>2, <1>3 DEF Returns, Relative, Branches
<1>5. ASSUME NEW k \in 1..size, new[k].op \in Relative
      PROVE  \E j \in 1..size : a[k] + new[k].arg = a[j]
  <2>1. PICK j : Leads(p, k, j)
    BY <1>1, <1>4, <1>5, TargetExists
  <2>2. Leads(q, k, j)
    BY <1>1, <1>4, <1>5, <2>1, RelativeLeads
  <2> QED
    BY <1>1, <1>2, <1>4, <2>2 DEF Leads, Target
<1>6. ASSUME NEW address, Entry(old, address)
      PROVE  Entry(new, address)
  <2>1. PICK k \in 1..size : a[k] = address /\ (k > 1 => old[k - 1].op \in Returns)
    BY <1>1, <1>3, <1>6 DEF Entry
  <2>2. k > 1 => k - 1 \in 1..size
    BY <1>3
  <2>3. k > 1 => new[k - 1].op \in Returns
    BY <1>4, <2>1, <2>2
  <2> QED
    BY <1>2, <1>3, <2>1, <2>3 DEF Entry
<1>7. /\ q.ptr = p.ptr /\ q.main = p.main /\ q.links \subseteq p.links
  BY DEF RelativeFrom
<1>8. new # <<>>
  BY <1>2, <1>3
<1>9. size \in 1..size
  BY <1>3
<1>10. WellFormed(q)
  <2>1. Entry(new, q.main) /\ \A f \in Functions : Entry(new, q.ptr[f])
    BY <1>1, <1>3, <1>6, <1>7 DEF WellFormed
  <2> QED
    BY <1>1, <1>2, <1>3, <1>4, <1>5, <1>8, <1>9, <2>1 DEF WellFormed
<1> QED
  BY <1>1, <1>2, <1>7, <1>10 DEF Prog

(* A relative call leads where the absolute one did, so both programs do   *)
(* the same.                                                               *)
LEMMA RelativeSame ==
  ASSUME NEW p, NEW q, Prog(p), RelativeFrom(p, q), NEW size \in Nat, Len(p.text) <= size
  PROVE  SameFrom(p, q, size)
<1>1. PICK n, m, a : n = Len(p.text) /\ m = Stay(n) /\ a = Addresses(p.text)
  OBVIOUS
<1>2. /\ Len(q.text) = n /\ Addresses(q.text) = a
      /\ \A k \in 1..n :
           \/ q.text[k] = p.text[k] /\ p.text[k].op # "CALLI"
           \/ p.text[k].op = "CALLI" /\ q.text[k].op = "CALLR"
  BY <1>1, RelativeTexts
<1>3. Prog(q)
  BY RelativeProg
<1>4. \A k \in 1..n : m[k] = k
  BY <1>1, StayIs
<1>5. \A k \in 1..n : p.text[k].op \notin Returns => k + 1 \in 1..n
  BY <1>1, ProgFacts
<1>6. ASSUME NEW k \in 1..n
      PROVE  Followed(p, q, m, "none", 1, k)
  <2>1. ASSUME NEW stack
        PROVE  /\ SameWays(p.text[k], q.text[k]) /\ Shows(p.text[k], stack) = Shows(q.text[k], stack)
               /\ After(p.text[k], stack) = After(q.text[k], stack)
    <3>1. CASE q.text[k] = p.text[k]
      BY <3>1 DEF SameWays
    <3>2. CASE p.text[k].op = "CALLI" /\ q.text[k].op = "CALLR"
      BY <3>2 DEF SameWays, Returns, Branches, Shows, After
    <3> QED
      BY <1>2, <3>1, <3>2
  <2>2. p.text[k].op \notin Returns => m[k + 1] = m[k] + 1
    BY <1>4, <1>5
  <2>3. ASSUME p.text[k].op \in Branches, NEW j, Leads(p, k, j)
        PROVE  Leads(q, m[k], m[j])
    <3>1. j \in 1..n /\ Leads(q, k, j)
      BY <1>1, <2>3, RelativeLeads DEF Leads
    <3> QED
      BY <1>4, <3>1
  <2> QED
    BY <1>4, <2>1, <2>2, <2>3 DEF Followed, Fit, Mid
<1>7. Mirrors(p, q, m, "none", 1)
  <2>1. m \in [1..n -> 1..Len(q.text)]
    BY <1>1, <1>2 DEF Stay
  <2> QED
    BY <1>1, <1>6, <2>1 DEF Mirrors
<1>8. ASSUME NEW address, Entry(p.text, address),
             NEW choices \in Seq(BOOLEAN), NEW steps, steps = (Len(choices) + 1) * size + 1
      PROVE  Outcome(p, address, choices, steps) = Outcome(q, address, choices, steps)
  <2>1. PICK k \in 1..n : a[k] = address
    BY <1>1, <1>8, ProgFacts DEF Entry
  <2>2. Outcome(p, Addresses(p.text)[k], choices, steps) =
          Outcome(q, Addresses(q.text)[m[k]], choices, steps)
    <3>1. ~Mid("none", 1, k)
      BY DEF Mid
    <3> QED
      BY <1>1, <1>3, <1>7, <1>8, <3>1, MirrorsShow
  <2> QED
    BY <1>1, <1>2, <1>4, <2>1, <2>2
<1>9. /\ Entry(p.text, p.main) /\ \A f \in Functions : Entry(p.text, p.ptr[f])
      /\ q.ptr = p.ptr /\ q.main = p.main
  BY DEF Prog, WellFormed, RelativeFrom
<1> QED
  BY <1>8, <1>9 DEF SameFrom

-----------------------------------------------------------------------------
LEMMA SameFromTransitive ==
  ASSUME NEW p, NEW q, NEW r, NEW size, SameFrom(p, q, size), SameFrom(q, r, size)
  PROVE  SameFrom(p, r, size)
BY DEF SameFrom

LEMMA PieceFacts ==
  ASSUME NEW p, Prog(p), NEW t, NEW c \in 1..Len(p.text), NEW n \in Nat \ {0},
         c + n <= Len(p.text) + 1, NEW mid, Piece(p, t, c, n, mid)
  PROVE  /\ t \in Seq(Ins) /\ Len(t) = Len(p.text) /\ c + n <= Len(p.text)
         /\ \A k \in 1..Len(p.text) : Alike(t[k], p.text[k]) /\ (k # c + n => t[k] = p.text[k])
         /\ \/ t[c + n] = p.text[c + n]
            \/ t[c + n].op = "POPN" /\ t[c + n].arg \in Nat
         /\ \A k \in c..(c + n - 1) : p.text[k].op \notin Returns \union Branches
<1>1. PICK old, size : old = p.text /\ size = Len(old)
  OBVIOUS
<1>2. /\ old \in Seq(Ins) /\ size \in Nat /\ c \in 1..size /\ c + n <= size + 1
      /\ \A k \in 1..size : old[k] \in Ins
      /\ \A k \in 1..size : old[k].op \notin Returns => k + 1 \in 1..size
  BY <1>1, ProgFacts DEF Prog
<1>3. \A k \in c..(c + n - 1) : old[k].op \in {"POPN", "PUSHN", "NOT", "PUSH", "POP"}
  <2>1. n = 1 \/ n = 2
    BY DEF Piece
  <2>2. \A k \in c..(c + n - 1) : k = c \/ (k = c + 1 /\ n = 2)
    BY <1>2, <2>1
  <2> QED
    BY <1>1, <2>2 DEF Piece
<1>4. \A k \in c..(c + n - 1) : old[k].op \notin Returns /\ old[k].op \notin Branches
  BY <1>3 DEF Returns, Branches
<1>5. c + n \in 1..size
  <2>1. PICK k : k = c + n - 1
    OBVIOUS
  <2>2. k \in c..(c + n - 1) /\ k \in 1..size /\ k + 1 = c + n
    BY <1>2, <2>1
  <2> QED
    BY <1>2, <1>4, <2>2
<1>6. CASE t = old
  BY <1>1, <1>2, <1>4, <1>5, <1>6 DEF Alike
<1>7. CASE /\ t = [old EXCEPT ![c + 1].arg = @ - 1] /\ n = 1
           /\ old[c + 1].op = "POPN" /\ old[c + 1].arg > 0
  <2>1. PICK b, ins : b = c + 1 /\ ins = [old[b] EXCEPT !.arg = @ - 1]
    OBVIOUS
  <2>2. b \in 1..size /\ old[b] \in Ins /\ old[b].arg \in Int
    BY <1>2, <1>5, <1>7, <2>1 DEF Ins
  <2>3. ins \in Ins /\ Alike(ins, old[b]) /\ ins.op = "POPN" /\ ins.arg \in Nat
    <3>1. PICK arg : arg = old[b].arg - 1
      OBVIOUS
    <3>2. arg \in Nat /\ arg \in Int
      BY <1>7, <2>1, <2>2, <3>1
    <3>3. ins = [old[b] EXCEPT !.arg = arg]
      BY <2>1, <3>1
    <3> QED
      BY <1>7, <2>1, <2>2, <3>2, <3>3 DEF Ins, Alike
  <2>4. t = [old EXCEPT ![b] = ins]
    BY <1>7, <2>1
  <2>5. /\ [old EXCEPT ![b] = ins] \in Seq(Ins) /\ Len([old EXCEPT ![b] = ins]) = Len(old)
        /\ \A k \in 1..Len(old) : [old EXCEPT ![b] = ins][k] = IF k = b THEN ins ELSE old[k]
    BY <1>1, <1>2, <2>2, <2>3, ExceptSeq
  <2>6. \A k \in 1..size : Alike(t[k], old[k]) /\ (k # b => t[k] = old[k])
    BY <1>1, <2>3, <2>4, <2>5 DEF Alike
  <2>7. t[b] = ins /\ c + n = b
    BY <1>1, <1>7, <2>1, <2>2, <2>4, <2>5
  <2> QED
    BY <1>1, <1>4, <1>5, <2>3, <2>4, <2>5, <2>6, <2>7
<1> QED
  BY <1>1, <1>6, <1>7 DEF Piece

(***************************************************************************)
(* As long as no jump has led into a piece that was cut out, what is left  *)
(* is a program of the same kind, which does what the original does.       *)
(***************************************************************************)
SoundInv ==
  /\ original \in Programs
  /\ ~intoCut => /\ Prog(Optimized) /\ Len(text) <= Len(original.text)
                 /\ SameFrom(original, Optimized, Len(original.text))

(* The steps of the passes keep SoundInv: the cuts, ...                    *)
LEMMA CutSound ==
  ASSUME OptInv, SoundInv, original' = original, NEW n \in Nat \ {0},
         i \in 1..Len(text), i + n <= Len(text) + 1, NEW t, NEW mid, Cut(t, n),
         ~intoCut' => Piece(Optimized, t, i, n, mid)
  PROVE  SoundInv'
<1> SUFFICES ASSUME ~intoCut'
             PROVE  /\ Prog(Optimized') /\ Len(text') <= Len(original.text)
                    /\ SameFrom(original, Optimized', Len(original.text))
  BY DEF SoundInv
<1>1. PICK p, q, c, start, len, rest, size :
        /\ p = Optimized /\ q = Optimized' /\ c = i /\ rest = Without(t, c, n)
        /\ start = AddressOf(i) /\ len = Addresses(t)[i + n] - start
        /\ size = Len(original.text)
  OBVIOUS
<1>2. /\ p.text = text /\ p.links = links /\ p.ptr = ptr /\ p.main = main
      /\ q.text = text' /\ q.links = links' /\ q.ptr = ptr' /\ q.main = main'
  BY <1>1 DEF Optimized
<1>3. /\ ~intoCut /\ ~LeadsInto(rest, start, len)
      /\ text' = RelocatedText(rest, start, len) /\ CutElsewhere(start, len)
  BY <1>1 DEF Cut, Without
<1>4. /\ Prog(p) /\ Len(p.text) <= size /\ SameFrom(original, p, size)
      /\ Piece(p, t, c, n, mid) /\ c \in 1..Len(p.text) /\ c + n <= Len(p.text) + 1
  BY <1>1, <1>2, <1>3 DEF SoundInv
<1>5. /\ t \in Seq(Ins) /\ Len(t) = Len(p.text) /\ c + n <= Len(p.text)
      /\ \A k \in 1..Len(p.text) : Alike(t[k], p.text[k]) /\ (k # c + n => t[k] = p.text[k])
      /\ \/ t[c + n] = p.text[c + n]
         \/ t[c + n].op = "POPN" /\ t[c + n].arg \in Nat
      /\ \A k \in c..(c + n - 1) : p.text[k].op \notin Returns \union Branches
  BY <1>4, PieceFacts
<1>6. start = Addresses(p.text)[c] /\ len = CutLen(p.text, c, n)
  <2>1. p.text \in Seq(Ins)
    BY <1>4 DEF Prog
  <2>2. Addresses(t) = Addresses(p.text)
    BY <1>5, <2>1, SameAddresses
  <2> QED
    BY <1>1, <1>2, <2>2 DEF AddressOf, CutLen
<1>7. /\ q.links = {Redirected(l, start, len) :
                      l \in {l \in p.links : l.ins \notin start..(start + len - 1)}}
      /\ q.ptr = [f \in Functions |-> Moved(p.ptr[f], start, len)]
      /\ q.main = Moved(p.main, start, len)
  BY <1>2, <1>3 DEF CutElsewhere, Redirected
<1>8. \A l \in p.links : CanLink(p.text, l)
  BY <1>2 DEF OptInv, LinksFit
<1>9. CutFrom(p, q, t, c, n, start, len)
  BY <1>1, <1>2, <1>3, <1>4, <1>5, <1>6, <1>7, <1>8 DEF CutFrom
<1>10. q.text \in Seq(Ins) /\ Len(q.text) = Len(p.text) - n
  <2>1. PICK last, m, kept : /\ last = Len(p.text) /\ m = CutIndex(last, c, n)
                             /\ kept = CutKept(last, c, n)
    OBVIOUS
  <2> QED
    BY <1>1, <1>4, <1>9, <2>1, CutTexts
<1>11. PICK m, kept : m = CutIndex(Len(p.text), c, n) /\ kept = CutKept(Len(p.text), c, n)
  OBVIOUS
<1>12. Squeezed(p, q, m, kept, start, len)
  BY <1>4, <1>9, <1>11, CutSqueezes
<1>13. Mirrors(p, q, m, mid, c)
  BY <1>4, <1>9, <1>10, <1>11, CutMirrors
<1>14. q.links \subseteq Links /\ q.ptr \in [Functions -> Nat]
  <2>1. start \in Nat /\ len \in Nat
    BY <1>12 DEF Squeezed
  <2> QED
    BY <1>2, <1>3, <2>1, ElsewhereKept DEF OptInv
<1>15. Prog(q)
  BY <1>4, <1>10, <1>12, <1>14, SqueezedProg
<1>16. Len(p.text) \in Nat /\ size \in Nat /\ Len(q.text) <= size
  <2>1. Len(p.text) \in Nat
    BY <1>4, ProgFacts
  <2>2. size \in Nat
    BY <1>1, ProgramsAssumption, LenProperties DEF SoundInv
  <2> QED
    BY <1>4, <1>10, <2>1, <2>2
<1>17. SameFrom(p, q, size)
  <2>1. p.text[c].op \notin Returns /\ c \in Nat \ {0}
    <3>1. c \in c..(c + n - 1) /\ c \in Nat \ {0}
      BY <1>4
    <3> QED
      BY <1>5, <3>1
  <2> QED
    BY <1>4, <1>12, <1>13, <1>15, <1>16, <2>1, SqueezedSame
<1>18. SameFrom(original, q, size)
  BY <1>4, <1>17, SameFromTransitive
<1> QED
  BY <1>1, <1>2, <1>15, <1>16, <1>18

(* ... the immediates made shorter, ...                                    *)
LEMMA ShortenSound ==
  ASSUME OptInv, SoundInv, original' = original, i \in 1..Len(text),
         NEW ins \in Ins, NEW len \in Nat, len = text[i].width - ins.width,
         Size(text[i]) = Size(ins) + len, Shorter(text[i], ins, len),
         \A l \in links : l.ins # AddressOf(i),
         Shorten(ins)
  PROVE  SoundInv'
<1> SUFFICES ASSUME ~intoCut
             PROVE  /\ Prog(Optimized') /\ Len(text') <= Len(original.text)
                    /\ SameFrom(original, Optimized', Len(original.text))
  BY DEF SoundInv, Shorten
<1>1. PICK p, q, b, start, size, m :
        /\ p = Optimized /\ q = Optimized' /\ b = i /\ start = AddressOf(i) + 1
        /\ size = Len(original.text) /\ m = Stay(Len(text))
  OBVIOUS
<1>2. /\ p.text = text /\ p.links = links /\ p.ptr = ptr /\ p.main = main
      /\ q.text = text' /\ q.links = links' /\ q.ptr = ptr' /\ q.main = main'
  BY <1>1 DEF Optimized
<1>3. Prog(p) /\ Len(p.text) <= size /\ SameFrom(original, p, size)
  BY <1>1, <1>2 DEF SoundInv
<1>4. /\ text' = [RelocatedText([text EXCEPT ![b] = ins], start, len) EXCEPT ![b] = ins]
      /\ CutElsewhere(start, len)
  BY <1>1 DEF Shorten
<1>5. ShortenFrom(p, q, b, ins, start, len)
  <2>1. /\ q.links = {Redirected(l, start, len) :
                        l \in {l \in p.links : l.ins \notin start..(start + len - 1)}}
        /\ q.ptr = [f \in Functions |-> Moved(p.ptr[f], start, len)]
        /\ q.main = Moved(p.main, start, len)
    BY <1>2, <1>4 DEF CutElsewhere, Redirected
  <2>2. start = Addresses(p.text)[b] + 1
    BY <1>1, <1>2 DEF AddressOf
  <2>3. \A l \in p.links : CanLink(p.text, l) /\ l.ins # Addresses(p.text)[b]
    BY <1>1, <1>2 DEF OptInv, LinksFit, AddressOf
  <2> QED
    BY <1>1, <1>2, <1>4, <2>1, <2>2, <2>3 DEF ShortenFrom
<1>6. q.text \in Seq(Ins) /\ Len(q.text) = Len(p.text) /\ start \in Nat
  <2>1. BeforeAfter(p, q, b, ins, start, len, [p.text EXCEPT ![b] = ins])
    BY <1>3, <1>5, ShortenTexts
  <2> QED
    BY <2>1 DEF BeforeAfter
<1>7. Squeezed(p, q, m, 1..Len(p.text), start, len)
  BY <1>1, <1>2, <1>3, <1>5, ShortenSqueezes
<1>8. Mirrors(p, q, m, "none", 1)
  BY <1>1, <1>2, <1>3, <1>5, ShortenMirrors
<1>9. q.links \subseteq Links /\ q.ptr \in [Functions -> Nat]
  BY <1>2, <1>4, <1>6, ElsewhereKept DEF OptInv
<1>10. Prog(q)
  BY <1>3, <1>6, <1>7, <1>9, SqueezedProg
<1>11. size \in Nat
  BY <1>1, ProgramsAssumption, LenProperties DEF SoundInv
<1>12. SameFrom(p, q, size)
  BY <1>3, <1>7, <1>8, <1>10, <1>11, SqueezedSame
<1>13. SameFrom(original, q, size)
  BY <1>3, <1>12, SameFromTransitive
<1> QED
  BY <1>1, <1>2, <1>3, <1>6, <1>10, <1>13

(* ... the calls made relative, ...                                        *)
LEMMA RelativeSound ==
  ASSUME OptInv, SoundInv, CallFuncRelative
  PROVE  SoundInv'
<1>0. original' = original /\ intoCut' = intoCut /\ ptr' = ptr /\ main' = main
  BY DEF CallFuncRelative, In
<1> SUFFICES ASSUME ~intoCut
             PROVE  /\ Prog(Optimized') /\ Len(text') <= Len(original.text)
                    /\ SameFrom(original, Optimized', Len(original.text))
  BY <1>0 DEF SoundInv
<1>1. PICK p, q, size : p = Optimized /\ q = Optimized' /\ size = Len(original.text)
  OBVIOUS
<1>2. /\ p.text = text /\ p.links = links /\ p.ptr = ptr /\ p.main = main
      /\ q.text = text' /\ q.links = links' /\ q.ptr = ptr' /\ q.main = main'
  BY <1>1 DEF Optimized
<1>3. Prog(p) /\ Len(p.text) <= size /\ SameFrom(original, p, size)
  BY <1>1, <1>2 DEF SoundInv
<1>4. DOMAIN text = 1..Len(p.text)
  BY <1>2, <1>3, ProgFacts
<1>5. \A k : OwnLinks(k) = OwnOf(p, k)
  BY <1>2 DEF OwnLinks, OwnOf, AddressOf
<1>6. q.text = [k \in 1..Len(p.text) |-> MadeRelative(p, k)]
  <2>1. DOMAIN text' = DOMAIN text /\ text' = [k \in DOMAIN text |-> text'[k]]
    BY DEF CallFuncRelative
  <2>2. ASSUME NEW k \in 1..Len(p.text)
        PROVE  text'[k] = MadeRelative(p, k)
    <3>1. CASE OwnLinks(k) = {}
      <4>1. text'[k] = text[k]
        BY <1>4, <3>1 DEF CallFuncRelative
      <4> QED
        BY <1>2, <1>5, <3>1, <4>1 DEF MadeRelative
    <3>2. CASE OwnLinks(k) # {}
      <4>1. PICK l : l = CHOOSE link \in OwnLinks(k) : TRUE
        OBVIOUS
      <4>2. text'[k] = [text[k] EXCEPT !.op = "CALLR", !.arg = ptr[l.to] - l.ins]
        BY <1>4, <3>2, <4>1 DEF CallFuncRelative
      <4>3. MadeRelative(p, k) = [p.text[k] EXCEPT !.op = "CALLR", !.arg = p.ptr[l.to] - l.ins]
        BY <1>5, <3>2, <4>1 DEF MadeRelative
      <4> QED
        BY <1>2, <4>2, <4>3
    <3> QED
      BY <3>1, <3>2
  <2> QED
    BY <1>2, <1>4, <2>1, <2>2
<1>7. RelativeFrom(p, q)
  <2>1. links' = {l \in links : l.to \notin Functions}
    BY DEF CallFuncRelative
  <2> QED
    BY <1>0, <1>2, <1>6, <2>1 DEF RelativeFrom, OptInv, LinksFit
<1>8. Prog(q) /\ Len(q.text) = Len(p.text)
  BY <1>3, <1>7, RelativeProg, RelativeTexts
<1>9. size \in Nat
  BY <1>1, ProgramsAssumption, LenProperties DEF SoundInv
<1>10. SameFrom(original, q, size)
  BY <1>3, <1>7, <1>9, RelativeSame, SameFromTransitive
<1> QED
  BY <1>1, <1>2, <1>3, <1>8, <1>10

(* ... and the steps that change nothing.                                  *)
LEMMA UntouchedSound ==
  ASSUME SoundInv, Untouched, original' = original
  PROVE  SoundInv'
BY DEF SoundInv, Untouched, Optimized

(* The passes, one after the other.                                        *)
LEMMA NotConsecutiveSound ==
  ASSUME OptInv, SoundInv, NotConsecutive
  PROVE  SoundInv'
<1>1. PICK n : n = Len(text) /\ n \in Nat /\ i \in 1..(n + 1) /\ original' = original
  BY LenProperties DEF OptInv, TypeOK, NotConsecutive, In
<1>2. CASE Untouched
  BY <1>1, <1>2, UntouchedSound
<1>3. CASE HasNext /\ text[i].op = "NOT" /\ text[i + 1].op = "NOT" /\ Cut(text, 2)
  <2>1. i \in 1..Len(text) /\ i + 2 <= Len(text) + 1
    BY <1>1, <1>3 DEF HasNext
  <2>2. Piece(Optimized, text, i, 2, "not")
    BY <1>3 DEF Piece, Optimized
  <2> QED
    BY <1>1, <1>3, <2>1, <2>2, CutSound
<1> QED
  BY <1>2, <1>3 DEF NotConsecutive

LEMMA PushPopConsecutiveSound ==
  ASSUME OptInv, SoundInv, PushPopConsecutive
  PROVE  SoundInv'
<1>1. PICK n : n = Len(text) /\ n \in Nat /\ i \in 1..(n + 1) /\ original' = original
  BY LenProperties DEF OptInv, TypeOK, PushPopConsecutive, In
<1>2. CASE Untouched
  BY <1>1, <1>2, UntouchedSound
<1>3. CASE HasNext /\ text[i].op = "PUSH" /\ text[i + 1].op = "POP" /\ Cut(text, 2)
  <2>1. i \in 1..Len(text) /\ i + 2 <= Len(text) + 1
    BY <1>1, <1>3 DEF HasNext
  <2>2. Piece(Optimized, text, i, 2, "push")
    BY <1>3 DEF Piece, Optimized
  <2> QED
    BY <1>1, <1>3, <2>1, <2>2, CutSound
<1>4. CASE /\ HasNext /\ text[i].op = "PUSH"
           /\ text[i + 1].op = "POPN" /\ text[i + 1].arg > 0
           /\ Cut([text EXCEPT ![i + 1].arg = @ - 1], 1)
  <2>1. i \in 1..Len(text) /\ i + 1 <= Len(text) + 1 /\ i + 1 \in 1..n
    BY <1>1, <1>4 DEF HasNext
  <2>2. PICK t : t = [text EXCEPT ![i + 1].arg = @ - 1]
    OBVIOUS
  <2>3. Cut(t, 1)
    BY <1>4, <2>2
  <2>4. t # text
    <3>1. DOMAIN text = 1..n /\ text[i + 1] \in Ins
      BY <1>1, <2>1, LenProperties, ElementOfSeq DEF OptInv, TypeOK
    <3>2. PICK ins : ins = text[i + 1]
      OBVIOUS
    <3>3. t[i + 1] = [ins EXCEPT !.arg = @ - 1]
      BY <2>1, <2>2, <3>1, <3>2
    <3>4. ins.arg \in Int /\ [ins EXCEPT !.arg = @ - 1].arg = ins.arg - 1
      BY <3>1, <3>2 DEF Ins
    <3>5. ins.arg # ins.arg - 1
      BY <3>4
    <3>6. t[i + 1].arg # ins.arg
      BY <3>3, <3>4, <3>5
    <3> QED
      BY <3>2, <3>6
  <2>5. ~intoCut' => Piece(Optimized, t, i, 1, "push")
    <3> SUFFICES ASSUME ~intoCut'
                 PROVE  Piece(Optimized, t, i, 1, "push")
      OBVIOUS
    <3>1. ~LeadsTo(i + 1)
      BY <2>3, <2>4 DEF Cut
    <3>2. DOMAIN text = 1..Len(text)
      BY LenProperties DEF OptInv, TypeOK
    <3>3. ~\E j \in 1..Len(text) :
            text[j].op \in Relative /\ Addresses(text)[j] + text[j].arg = Addresses(text)[i + 1]
      BY <3>1, <3>2 DEF LeadsTo, AddressOf
    <3> QED
      BY <1>4, <2>2, <3>3 DEF Piece, Optimized
  <2>6. 1 \in Nat \ {0}
    OBVIOUS
  <2> QED
    BY <1>1, <2>1, <2>3, <2>5, <2>6, CutSound, ZenonT(30)
<1> QED
  BY <1>2, <1>3, <1>4 DEF PushPopConsecutive

LEMMA UselessSound ==
  ASSUME OptInv, SoundInv, Useless
  PROVE  SoundInv'
<1>1. PICK n : n = Len(text) /\ n \in Nat /\ i \in 1..(n + 1) /\ original' = original
  BY LenProperties DEF OptInv, TypeOK, Useless, In
<1>2. CASE Untouched
  BY <1>1, <1>2, UntouchedSound
<1>3. CASE /\ ~(i > Len(text)) /\ text[i].op \in {"POPN", "PUSHN"} /\ text[i].arg = 0
           /\ Cut(text, 1)
  <2>1. i \in 1..Len(text) /\ i + 1 <= Len(text) + 1
    BY <1>1, <1>3
  <2>2. Piece(Optimized, text, i, 1, "none")
    BY <1>3 DEF Piece, Optimized
  <2> QED
    BY <1>1, <1>3, <2>1, <2>2, CutSound
<1> QED
  BY <1>2, <1>3 DEF Useless

LEMMA SimplifySound ==
  ASSUME OptInv, SoundInv, Simplify
  PROVE  SoundInv'
<1>1. original' = original
  BY DEF Simplify, In
<1>2. CASE Untouched
  BY <1>1, <1>2, UntouchedSound
<1>3. CASE ~(i > Len(text)) /\ Simpler(text[i]) # text[i] /\ Shorten(Simpler(text[i]))
  <2>1. i \in 1..Len(text)
    BY <1>3, LenProperties DEF OptInv, TypeOK
  <2>2. PICK old, ins, len :
          old = text[i] /\ ins = Simpler(text[i]) /\ len = old.width - ins.width
    OBVIOUS
  <2>3. old \in Ins
    BY <2>1, <2>2, ElementOfSeq DEF OptInv, TypeOK
  <2>4. \/ /\ old.op = "RETN" /\ old.arg = 0
           /\ ins = [op |-> "RET", width |-> 0, arg |-> 0]
        \/ /\ old.op = "POPN" /\ old.arg = 1
           /\ ins = [op |-> "POP", width |-> 0, arg |-> 0]
    BY <1>3, <2>2 DEF Simpler
  <2>5. ins \in Ins /\ ins.width = 0 /\ old.width \in Nat
    BY <2>3, <2>4, InsSize DEF Ins, Opcodes
  <2>6. len \in Nat /\ Size(old) = Size(ins) + len
    BY <2>2, <2>4, <2>5 DEF Size
  <2>7. \A l \in links : l.ins # AddressOf(i)
    <3>1. \A l \in links : old.op \notin LinkedTo(l.to)
      BY <2>4 DEF LinkedTo
    <3> QED
      BY <2>1, <2>2, <3>1, LinkIsOf DEF OptInv
  <2>8. Shorter(old, ins, len)
    BY <2>4 DEF Shorter
  <2> QED
    BY <1>1, <1>3, <2>1, <2>2, <2>5, <2>6, <2>7, <2>8, ShortenSound
<1> QED
  BY <1>2, <1>3 DEF Simplify

LEMMA ShrunkSound ==
  ASSUME OptInv, SoundInv, original' = original, i \in 1..Len(text), Shrinkable(text[i]),
         NEW width \in {BSize, HSize}, Shorten(Shrunk(text[i], width))
  PROVE  SoundInv'
<1>1. PICK old, ins, len :
        old = text[i] /\ ins = Shrunk(text[i], width) /\ len = old.width - ins.width
  OBVIOUS
<1>2. old \in Ins
  BY <1>1, ElementOfSeq DEF OptInv, TypeOK
<1>3. /\ old.op \in Immediate /\ old.width = FSize
      /\ \A l \in links : l.ins # AddressOf(i)
  BY <1>1 DEF Shrinkable
<1>4. width \in Nat /\ FSize \in Nat /\ width <= FSize
  BY SizesAssumption
<1>5. PICK arg \in Int :
        /\ ins = [old EXCEPT !.width = width, !.arg = arg]
        /\ arg = IF old.op \in Relative /\ old.arg > 0
                 THEN old.arg - (FSize - width) ELSE old.arg
  <2>1. PICK arg : arg = IF old.op \in Relative /\ old.arg > 0
                         THEN old.arg - (FSize - width) ELSE old.arg
    OBVIOUS
  <2>2. old.arg \in Int
    BY <1>2 DEF Ins
  <2>3. arg \in Int
    BY <1>4, <2>1, <2>2
  <2>4. ins = [old EXCEPT !.width = width, !.arg = arg]
    BY <1>1, <2>1 DEF Shrunk
  <2> QED
    BY <2>1, <2>3, <2>4
<1>6. ins \in Ins /\ ins.op = old.op /\ ins.width = width /\ ins.arg = arg
  <2>1. PICK widths : widths = {0, BSize, HSize, FSize}
    OBVIOUS
  <2>2. old \in [op : Opcodes, width : widths, arg : Int] /\ width \in widths
    BY <1>2, <2>1 DEF Ins
  <2>3. /\ ins \in [op : Opcodes, width : widths, arg : Int]
        /\ ins.op = old.op /\ ins.width = width /\ ins.arg = arg
    BY <1>5, <2>2
  <2> QED
    BY <2>1, <2>3 DEF Ins
<1>7. len = FSize - width /\ len \in Nat
  BY <1>1, <1>3, <1>4, <1>6
<1>8. Size(old) = Size(ins) + len
  BY <1>3, <1>4, <1>6, <1>7, SizesAssumption DEF Size
<1>9. Shorter(old, ins, len)
  BY <1>5, <1>6, <1>7 DEF Shorter
<1> QED
  BY <1>1, <1>3, <1>6, <1>7, <1>8, <1>9, ShortenSound

LEMMA ShrinkFimmediateSound ==
  ASSUME OptInv, SoundInv, ShrinkFimmediate
  PROVE  SoundInv'
<1>1. original' = original
  BY DEF ShrinkFimmediate, In
<1>2. \/ Untouched
      \/ /\ ~(i > Len(text)) /\ Shrinkable(text[i])
         /\ \/ Shorten(Shrunk(text[i], BSize))
            \/ Shorten(Shrunk(text[i], HSize))
  BY DEF ShrinkFimmediate
<1>3. ~(i > Len(text)) => i \in 1..Len(text)
  BY LenProperties DEF OptInv, TypeOK
<1> QED
  BY <1>1, <1>2, <1>3, UntouchedSound, ShrunkSound

LEMMA StepSoundInv == OptInv /\ SoundInv /\ [Next]_vars => SoundInv'
<1> SUFFICES ASSUME OptInv, SoundInv, [Next]_vars
             PROVE  SoundInv'
  OBVIOUS
<1>1. CASE Next
  BY <1>1, NotConsecutiveSound, PushPopConsecutiveSound, UselessSound, RelativeSound,
     SimplifySound, ShrinkFimmediateSound DEF Next
<1>2. CASE UNCHANGED vars
  BY <1>2 DEF vars, SoundInv, Optimized
<1> QED
  BY <1>1, <1>2

(* Before the first pass the program is the original.                      *)
LEMMA InitSoundInv == Init => SoundInv
<1> SUFFICES ASSUME Init
             PROVE  SoundInv
  OBVIOUS
<1>1. PICK p : p = Optimized
  OBVIOUS
<1>2. /\ original \in Programs /\ p.text = original.text /\ p.links = original.links
      /\ p.ptr = original.ptr /\ p.main = original.main
  BY <1>1 DEF Init, Optimized
<1>3. Prog(p)
  BY <1>2, ProgramsAssumption, CodeAssumption DEF Prog, WellFormed
<1>4. ASSUME NEW address, NEW choices, NEW n \in Nat
      PROVE  Outcome(original, address, choices, n) = Outcome(p, address, choices, n)
  <2>1. ASSUME NEW s
        PROVE  Step(original, s) = Step(p, s)
    <3>1. \A ins : Target(original, s.at, ins) = Target(p, s.at, ins)
      BY <1>2 DEF Target
    <3>2. \A ins : Executed(original, s, ins) = Executed(p, s, ins)
      BY <3>1 DEF Executed
    <3> QED
      BY <1>2, <3>2 DEF Step
  <2>2. PICK r, z : r = Run(original, address, choices, n) /\ z = Run(p, address, choices, n)
    OBVIOUS
  <2>3. RunOf(r, original, address, choices, n) /\ RunOf(z, p, address, choices, n)
    BY <2>2, RunIs
  <2> DEFINE T == {h \in 0..n : r[h] = z[h]}
  <2>4. 0 \in T
    <3>1. r[0] = State(address, <<>>, <<>>, choices, FALSE)
      BY <2>3 DEF RunOf
    <3>2. z[0] = State(address, <<>>, <<>>, choices, FALSE)
      BY <2>3 DEF RunOf
    <3>3. r[0] = z[0] /\ 0 \in 0..n
      BY <3>1, <3>2
    <3> QED
      BY <3>3
  <2>5. ASSUME NEW h \in 0..(n - 1), h \in T
        PROVE  h + 1 \in T
    <3>1. r[h] = z[h] /\ h + 1 \in 0..n
      BY <2>5
    <3>2. r[h + 1] = Step(original, r[h]) /\ z[h + 1] = Step(p, z[h])
      BY <2>3 DEF RunOf
    <3> QED
      BY <2>1, <3>1, <3>2
  <2>6. n \in T
    <3> HIDE DEF T
    <3>1. 0..n \subseteq T
      BY <2>4, <2>5, CountFrom0
    <3> QED
      BY <3>1
  <2> QED
    BY <2>2, <2>6 DEF Outcome
<1>5. SameFrom(original, p, Len(original.text))
  BY <1>2, <1>4 DEF SameFrom
<1>6. Len(text) <= Len(original.text)
  BY <1>2, ProgramsAssumption, LenProperties DEF Init
<1> QED
  BY <1>1, <1>2, <1>3, <1>5, <1>6 DEF SoundInv

(***************************************************************************)
(* The inductive invariant: between any two steps of a pass the program is *)
(* one of the code generator, no longer than the original, and does what   *)
(* the original does, unless a cut has been jumped into (doptimize.c:      *)
(* 62-238).                                                                *)
(***************************************************************************)
THEOREM SoundInvHolds == Spec => [](OptInv /\ SoundInv)
<1>1. Init => OptInv /\ SoundInv
  BY InitOptInv, InitSoundInv
<1>2. OptInv /\ SoundInv /\ [Next]_vars => (OptInv /\ SoundInv)'
  BY StepOptInv, StepSoundInv
<1> QED
  BY <1>1, <1>2, PTL DEF Spec

(***************************************************************************)
(* Between any two passes the program does what the original does, from    *)
(* Start and from every function, whichever way its jumps go and however   *)
(* often it chooses, unless a jump led into a piece that was cut out or to *)
(* an instruction changed to make up for one (doptimize.c:62-238 and all   *)
(* passes).                                                                *)
(***************************************************************************)
DoesTheSame ==
  ~intoCut => \A choices \in Seq(BOOLEAN) :
    /\ Shown(Optimized, main, choices) = Shown(original, original.main, choices)
    /\ \A f \in Functions :
         Shown(Optimized, ptr[f], choices) = Shown(original, original.ptr[f], choices)

(* The optimiser never changes what the program does (doptimize.c:62-750). *)
THEOREM OptimizedDoesTheSame == Spec => []DoesTheSame
<1>1. ASSUME OptInv, SoundInv
      PROVE  DoesTheSame
  <2> SUFFICES ASSUME ~intoCut, NEW choices \in Seq(BOOLEAN)
               PROVE  /\ Shown(Optimized, main, choices) = Shown(original, original.main, choices)
                      /\ \A f \in Functions :
                           Shown(Optimized, ptr[f], choices) = Shown(original, original.ptr[f], choices)
    BY DEF DoesTheSame
  <2>1. PICK q, n : q = Optimized /\ n = Steps(choices)
    OBVIOUS
  <2>2. q.main = main /\ q.ptr = ptr
    BY <2>1 DEF Optimized
  <2>3. n \in Nat /\ n = (Len(choices) + 1) * Len(original.text) + 1
    <3>1. Len(choices) \in Nat /\ Len(original.text) \in Nat
      BY <1>1, ProgramsAssumption, LenProperties DEF SoundInv
    <3>2. PICK x \in Nat, y \in Nat : x = Len(choices) + 1 /\ y = Len(original.text)
      BY <3>1
    <3>3. x * y \in Nat
      BY Times
    <3>4. n = x * y + 1
      BY <2>1, <3>2 DEF Steps
    <3>5. n \in Nat
      <4>1. PICK z \in Nat : z = x * y
        BY <3>3
      <4> QED
        BY <3>4, <4>1
    <3>6. n = (Len(choices) + 1) * Len(original.text) + 1
      BY <2>1 DEF Steps
    <3> QED
      BY <3>5, <3>6
  <2>4. SameFrom(original, q, Len(original.text))
    BY <1>1, <2>1 DEF SoundInv
  <2> QED
    BY <2>1, <2>2, <2>3, <2>4 DEF SameFrom, Outcome, Shown
<1> QED
  BY <1>1, SoundInvHolds, PTL

(***************************************************************************)
(* The same of the two choices that TLC follows, and the finished program. *)
(***************************************************************************)
THEOREM OptimizedBehavesTheSame == Spec => []SameBehaviour
<1>1. Pathways \subseteq Seq(BOOLEAN)
  <2> SUFFICES ASSUME NEW choices \in Pathways
               PROVE  choices \in Seq(BOOLEAN)
    OBVIOUS
  <2>1. choices \in [1..2 -> BOOLEAN] /\ 2 \in Nat
    BY DEF Pathways
  <2>2. choices \in UNION {[1..k -> BOOLEAN] : k \in Nat}
    BY <2>1
  <2> QED
    BY <2>2, SeqDef
<1>2. DoesTheSame => SameBehaviour
  BY <1>1 DEF DoesTheSame, SameBehaviour
<1> QED
  BY <1>2, OptimizedDoesTheSame, PTL
=============================================================================
