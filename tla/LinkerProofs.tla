---------------------------- MODULE LinkerProofs ----------------------------
(***************************************************************************)
(* The linker is right, for all sources, any number of sheets and any      *)
(* number of object files.  The argument follows a sheet through its life: *)
(*                                                                         *)
(*   Made      what holds while dcodegen.c makes its code;                 *)
(*   Laid      where its things lie, however it came to be;                *)
(*   Resolved  all its names have a meaning, those of others no place yet; *)
(*   Linked    every name has the place of what it means;                  *)
(*   SavedWell what comes from an object file before it is linked.         *)
(*                                                                         *)
(* A sheet includes older sheets only, so that the recursion over the      *)
(* includes ends (Ordered, VisitsWell); what a name means in a sheet does  *)
(* not change when others are added, linked again or assigned to, so that  *)
(* neither does what is linked (SheetKept); and a sheet that is saved is,  *)
(* for any process that loads it at any address, laid as it was, with      *)
(* nothing in it that belongs to the process that saved it.  IInv puts     *)
(* this together: all sheets are well, and all object files load well.     *)
(***************************************************************************)
EXTENDS Linker, FunctionTheorems, SequenceTheorems, WellFoundedInduction, TLAPS

(* What holds of 0, and of k + 1 if it does of k, holds of 0..n.           *)
LEMMA CountUp ==
  ASSUME NEW n \in Nat, NEW T, 0 \in T, \A k \in 0..(n - 1) : k \in T => k + 1 \in T
  PROVE  0..n \subseteq T
<1> SUFFICES ASSUME (0..n) \ T # {}
             PROVE  FALSE
  OBVIOUS
<1> DEFINE missing == (0..n) \ T
<1>1. missing \subseteq Nat /\ missing # {}
  OBVIOUS
<1>2. PICK m \in missing : \A k \in missing : ~(<<k, m>> \in OpToRel(<, Nat))
  <2> HIDE DEF missing
  <2> QED
    BY <1>1, NatLessThanWellFounded, WFMin, Zenon
<1>3. \A k \in missing : ~(k < m)
  BY <1>1, <1>2, Zenon DEF OpToRel
<1>4. m \in 0..n /\ m # 0 /\ m \notin T
  OBVIOUS
<1>5. m - 1 \in 0..(n - 1)
  BY <1>4
<1>6. m - 1 \in T
  BY <1>3, <1>5
<1>7. (m - 1) + 1 \in T
  BY <1>5, <1>6
<1> QED
  BY <1>4, <1>7

(* The least of some natural numbers.                                      *)
LEMMA MinIs ==
  ASSUME NEW S \in SUBSET Nat, S # {}
  PROVE  Min(S) \in S /\ \A k \in S : Min(S) <= k
<1>0. S \subseteq Nat /\ S # {}
  OBVIOUS
<1>1. PICK m \in S : \A k \in S : ~(<<k, m>> \in OpToRel(<, Nat))
  BY <1>0, NatLessThanWellFounded, WFMin, Zenon
<1>2. \A k \in S : m <= k
  <2>1. \A k \in S : ~(k < m) /\ k \in Nat /\ m \in Nat
    BY <1>0, <1>1, Zenon DEF OpToRel
  <2> QED
    BY <2>1
<1>3. PICK x : x = Min(S)
  OBVIOUS
<1>4. x \in S /\ \A k \in S : x <= k
  BY <1>2, <1>3, Zenon DEF Min
<1> QED
  BY <1>3, <1>4

-----------------------------------------------------------------------------
(* Lists.                                                                  *)
LEMMA ListedIs ==
  ASSUME NEW s, Listed(s)
  PROVE  /\ Len(s) \in Nat /\ DOMAIN s = 1..Len(s) /\ s \in Seq(Range(s))
         /\ Range(s) = {s[i] : i \in 1..Len(s)}
<1>1. Len(s) \in Nat /\ DOMAIN s = 1..Len(s)
  BY DEF Listed
<1>2. Range(s) = {s[i] : i \in 1..Len(s)}
  BY <1>1 DEF Range
<1>3. s \in [1..Len(s) -> Range(s)]
  BY <1>2 DEF Listed
<1> QED
  BY <1>1, <1>2, <1>3

(* Sequences and arrays are lists.                                         *)
LEMMA SeqListed ==
  ASSUME NEW S, NEW s \in Seq(S)
  PROVE  Listed(s)
BY DEF Listed

(* An array is a list.                                                     *)
LEMMA ArrayListed ==
  ASSUME NEW n \in Nat, NEW s, s = [i \in 1..n |-> s[i]]
  PROVE  Listed(s) /\ Len(s) = n
<1> DEFINE S == {s[i] : i \in 1..n}
<1>1. s \in [1..n -> S]
  OBVIOUS
<1>2. s \in Seq(S)
  BY <1>1
<1>3. Listed(s)
  BY <1>2, SeqListed
<1>4. Len(s) = n
  BY <1>1, <1>2
<1> QED
  BY <1>3, <1>4

(* What it is to append to a list, and to join two.                        *)
LEMMA Appended ==
  ASSUME NEW s, Listed(s), NEW e
  PROVE  /\ Listed(Append(s, e)) /\ Len(Append(s, e)) = Len(s) + 1
         /\ Append(s, e)[Len(s) + 1] = e
         /\ \A i \in 1..Len(s) : Append(s, e)[i] = s[i]
         /\ DOMAIN Append(s, e) = 1..(Len(s) + 1)
<1> DEFINE S == Range(s) \union {e}
<1>1. s \in Seq(S) /\ e \in S
  BY ListedIs
<1> HIDE DEF S
<1>2. Append(s, e) \in Seq(S)
  BY <1>1
<1>3. Listed(Append(s, e))
  <2>1. PICK t : t = Append(s, e)
    BY Zenon
  <2>2. t \in Seq(S)
    BY <1>2, <2>1
  <2> QED
    BY <2>1, <2>2, SeqListed, Zenon
<1>4. Len(Append(s, e)) = Len(s) + 1 /\ Append(s, e)[Len(s) + 1] = e
  BY <1>1
<1>5. \A i \in 1..Len(s) : Append(s, e)[i] = s[i]
  BY <1>1
<1>6. DOMAIN Append(s, e) = 1..(Len(s) + 1)
  BY <1>2, <1>4
<1> QED
  BY <1>3, <1>4, <1>5, <1>6

(* And to join two.                                                        *)
LEMMA Joined ==
  ASSUME NEW s, Listed(s), NEW t, Listed(t)
  PROVE  /\ Listed(s \o t) /\ Len(s \o t) = Len(s) + Len(t)
         /\ \A i \in 1..Len(s) : (s \o t)[i] = s[i]
         /\ \A i \in 1..Len(t) : (s \o t)[Len(s) + i] = t[i]
         /\ Range(s \o t) = Range(s) \union Range(t)
<1> DEFINE S == Range(s) \union Range(t)
<1>1. s \in Seq(S) /\ t \in Seq(S)
  BY ListedIs
<1> HIDE DEF S
<1>2. s \o t \in Seq(S)
  BY <1>1
<1>3. /\ Len(s \o t) = Len(s) + Len(t)
      /\ \A i \in 1..(Len(s) + Len(t)) : (s \o t)[i] = IF i <= Len(s) THEN s[i] ELSE t[i - Len(s)]
  BY <1>1, <1>2
<1>4. Listed(s \o t) /\ Len(s) \in Nat /\ Len(t) \in Nat
  <2>1. PICK u : u = s \o t
    BY Zenon
  <2>2. u \in Seq(S)
    BY <1>2, <2>1
  <2> QED
    BY <2>1, <2>2, SeqListed, Zenon DEF Listed
<1>5. /\ \A i \in 1..Len(s) : (s \o t)[i] = s[i]
      /\ \A i \in 1..Len(t) : (s \o t)[Len(s) + i] = t[i]
  BY <1>3, <1>4
<1>6. Range(s \o t) = {(s \o t)[i] : i \in 1..(Len(s) + Len(t))}
  BY <1>3, <1>4, ListedIs, Zenon
<1>7. Range(s) = {s[i] : i \in 1..Len(s)} /\ Range(t) = {t[i] : i \in 1..Len(t)}
  BY ListedIs, Zenon
<1>8. \A x \in Range(s) \union Range(t) : x \in Range(s \o t)
  <2>1. \A i \in 1..Len(s) : i \in 1..(Len(s) + Len(t))
    BY <1>4
  <2>2. \A i \in 1..Len(t) : Len(s) + i \in 1..(Len(s) + Len(t))
    BY <1>4
  <2> QED
    BY <2>1, <2>2, <1>5, <1>6, <1>7
<1>9. \A x \in Range(s \o t) : x \in Range(s) \union Range(t)
  <2>1. SUFFICES ASSUME NEW i \in 1..(Len(s) + Len(t))
                 PROVE  (s \o t)[i] \in Range(s) \union Range(t)
    BY <1>6
  <2>2. CASE i <= Len(s)
    BY <2>2, <1>3, <1>4, <1>7
  <2>3. CASE ~(i <= Len(s))
    <3>1. i - Len(s) \in 1..Len(t)
      BY <2>3, <1>4
    <3> QED
      BY <2>3, <3>1, <1>3, <1>7
  <2> QED
    BY <2>2, <2>3
<1> QED
  BY <1>3, <1>4, <1>5, <1>8, <1>9

(* What FlattenSeq of the community modules gives.                         *)
LEMMA FlattenIs ==
  ASSUME NEW ss, Listed(ss), \A i \in 1..Len(ss) : Listed(ss[i])
  PROVE  /\ Listed(FlattenSeq(ss))
         /\ \A x : x \in Range(FlattenSeq(ss)) <=> \E i \in 1..Len(ss) : x \in Range(ss[i])
<1> DEFINE N == Len(ss)
           G(f) == f = [i \in 1..N |-> IF i = 1 THEN ss[i] ELSE f[i - 1] \o ss[i]]
<1>0. N \in Nat
  BY DEF Listed
<1>1. CASE N = 0
  <2>1. FlattenSeq(ss) = ss
    BY <1>1 DEF FlattenSeq
  <2>2. Range(ss) = {} /\ 1..Len(ss) = {}
    BY <1>1, ListedIs
  <2> QED
    BY <2>1, <2>2
<1>2. CASE N # 0
  <2> DEFINE Q(n, f) == /\ f = [i \in 1..n |-> f[i]]
                        /\ \A i \in 1..n : f[i] = IF i = 1 THEN ss[i] ELSE f[i - 1] \o ss[i]
             T == {n \in 0..N : \E f : Q(n, f)}
  <2>1. 0 \in T
    <3> DEFINE f == [i \in 1..0 |-> 0]
    <3>1. f = [i \in 1..0 |-> f[i]]
      OBVIOUS
    <3>2. \A i \in 1..0 : FALSE
      OBVIOUS
    <3> HIDE DEF f
    <3>3. Q(0, f)
      BY <3>1, <3>2
    <3> HIDE DEF Q
    <3> QED
      BY <3>3, <1>0
  <2>2. ASSUME NEW n \in 0..(N - 1), n \in T
        PROVE  n + 1 \in T
    <3>1. PICK f : Q(n, f)
      BY <2>2
    <3> DEFINE last == IF n + 1 = 1 THEN ss[n + 1] ELSE f[n] \o ss[n + 1]
               g == [i \in 1..(n + 1) |-> IF i = n + 1 THEN last ELSE f[i]]
    <3>2. g = [i \in 1..(n + 1) |-> g[i]]
      OBVIOUS
    <3>3. ASSUME NEW i \in 1..(n + 1)
          PROVE  g[i] = IF i = 1 THEN ss[i] ELSE g[i - 1] \o ss[i]
      <4> HIDE DEF last
      <4>1. CASE i = n + 1
        <5>1. g[i] = last
          BY <4>1
        <5>2. i # 1 => g[i - 1] = f[n]
          BY <4>1, <1>0
        <5> QED
          BY <4>1, <5>1, <5>2, Zenon DEF last
      <4>2. CASE i # n + 1
        <5>1. i \in 1..n /\ g[i] = f[i]
          BY <4>2, <1>0
        <5>2. i # 1 => g[i - 1] = f[i - 1]
          BY <5>1, <1>0
        <5> QED
          BY <5>1, <5>2, <3>1, Zenon
      <4> QED
        BY <4>1, <4>2
    <3> HIDE DEF g
    <3>4. Q(n + 1, g)
      BY <3>2, <3>3, Zenon
    <3> HIDE DEF Q
    <3> QED
      BY <3>4, <1>0
  <2>3. N \in T
    <3> HIDE DEF T
    <3>1. 0..N \subseteq T
      BY <2>1, <2>2, <1>0, CountUp, Zenon
    <3> QED
      BY <3>1, <1>0
  <2>4. PICK f : Q(N, f)
    BY <2>3
  <2>5. G(f)
    BY <2>4, Zenon
  <2>6. PICK g : g = CHOOSE h : G(h)
    BY Zenon
  <2>7. G(g)
    BY <2>5, <2>6, Zenon
  <2>8. FlattenSeq(ss) = g[N]
    BY <1>2, <2>6, Zenon DEF FlattenSeq
  <2>9. \A i \in 1..N : g[i] = IF i = 1 THEN ss[i] ELSE g[i - 1] \o ss[i]
    BY <2>7, Zenon
  <2> DEFINE S == {n \in 0..N : n # 0 => /\ Listed(g[n])
                                        /\ \A x : x \in Range(g[n]) <=> \E i \in 1..n : x \in Range(ss[i])}
  <2>10. 0 \in S
    BY <1>0
  <2>11. ASSUME NEW n \in 0..(N - 1), n \in S
         PROVE  n + 1 \in S
    <3>1. n + 1 \in 1..N /\ (n + 1) - 1 = n
      BY <1>0
    <3>2. CASE n = 0
      <4>1. g[n + 1] = ss[1] /\ Listed(ss[1])
        BY <2>9, <3>1, <3>2
      <4>2. 1..(n + 1) = {1}
        BY <3>2
      <4> QED
        BY <4>1, <4>2, <3>1
    <3>3. CASE n # 0
      <4>1. g[n + 1] = g[n] \o ss[n + 1]
        <5>1. n + 1 # 1
          BY <3>3, <1>0
        <5> QED
          BY <2>9, <3>1, <5>1, Zenon
      <4>2. /\ Listed(g[n]) /\ Listed(ss[n + 1])
            /\ \A x : x \in Range(g[n]) <=> \E i \in 1..n : x \in Range(ss[i])
        BY <2>11, <3>1, <3>3
      <4>3. Listed(g[n + 1]) /\ Range(g[n + 1]) = Range(g[n]) \union Range(ss[n + 1])
        <5>1. PICK a, b : a = g[n] /\ b = ss[n + 1]
          OBVIOUS
        <5>2. Listed(a) /\ Listed(b) /\ g[n + 1] = a \o b
          BY <4>1, <4>2, <5>1
        <5>3. Listed(a \o b) /\ Range(a \o b) = Range(a) \union Range(b)
          BY <5>2, Joined
        <5> QED
          BY <5>1, <5>2, <5>3
      <4>4. 1..(n + 1) = (1..n) \union {n + 1}
        BY <1>0
      <4>5. \A x : x \in Range(g[n + 1]) <=> \E i \in 1..(n + 1) : x \in Range(ss[i])
        BY <4>2, <4>3, <4>4
      <4>6. PICK m : m = n + 1
        OBVIOUS
      <4>7. m \in 0..N /\ Listed(g[m])
        BY <4>3, <4>6, <3>1, <1>0
      <4>8. \A x : x \in Range(g[m]) <=> \E i \in 1..m : x \in Range(ss[i])
        BY <4>5, <4>6
      <4>9. m \in S
        BY <4>7, <4>8
      <4> QED
        BY <4>6, <4>9
    <3> QED
      BY <3>2, <3>3
  <2>12. N \in S
    <3> HIDE DEF S
    <3>1. 0..N \subseteq S
      BY <2>10, <2>11, <1>0, CountUp
    <3> QED
      BY <3>1, <1>0
  <2> QED
    BY <1>2, <2>8, <2>12
<1> QED
  BY <1>1, <1>2

-----------------------------------------------------------------------------
(***************************************************************************)
(* What a recursion over the includes comes by.  A sheet includes sheets   *)
(* that were made before it.                                               *)
(***************************************************************************)
Ordered(mem, n) ==
  /\ n \in Nat /\ DOMAIN mem \subseteq 1..n
  /\ \A i \in DOMAIN mem :
       /\ Listed(mem[i].includes)
       /\ \A j \in DOMAIN mem[i].includes : /\ mem[i].includes[j] \in DOMAIN mem
                                            /\ mem[i].includes[j] < i

(* How the recursion over the includes is defined.                         *)
From(mem, from, i) ==
  <<i>> \o FlattenSeq([j \in DOMAIN mem[i].includes |-> from[mem[i].includes[j]]])

(* It depends on what is come by from the includes only.                   *)
LEMMA FromSame ==
  ASSUME NEW mem, NEW mem2, NEW f, NEW g, NEW i, mem2[i].includes = mem[i].includes,
         \A j \in DOMAIN mem[i].includes : g[mem[i].includes[j]] = f[mem[i].includes[j]]
  PROVE  From(mem2, g, i) = From(mem, f, i)
<1>1. [j \in DOMAIN mem2[i].includes |-> g[mem2[i].includes[j]]]
        = [j \in DOMAIN mem[i].includes |-> f[mem[i].includes[j]]]
  OBVIOUS
<1> QED
  BY <1>1 DEF From

(* It terminates, as every sheet is younger than its includes.             *)
LEMMA VisitsFrom ==
  ASSUME NEW mem, NEW n, Ordered(mem, n)
  PROVE  \E f : \A i \in DOMAIN mem : f[i] = From(mem, f, i) /\ Visits(mem, i) = f[i]
<1> DEFINE Q(m, f) == \A i \in DOMAIN mem : i <= m => f[i] = From(mem, f, i)
           T == {m \in 0..n : \E f : Q(m, f)}
<1>0. n \in Nat /\ DOMAIN mem \subseteq 1..n
  BY DEF Ordered
<1>1. 0 \in T
  <2>1. \A f : Q(0, f)
    BY <1>0
  <2> HIDE DEF Q
  <2> QED
    BY <2>1, <1>0
<1>2. ASSUME NEW m \in 0..(n - 1), m \in T
      PROVE  m + 1 \in T
  <2>1. PICK f : Q(m, f)
    BY <1>2
  <2> DEFINE g == [i \in DOMAIN mem |-> IF i = m + 1 THEN From(mem, f, m + 1) ELSE f[i]]
  <2>2. ASSUME NEW i \in DOMAIN mem, i <= m + 1
        PROVE  g[i] = From(mem, g, i)
    <3>1. \A j \in DOMAIN mem[i].includes : g[mem[i].includes[j]] = f[mem[i].includes[j]]
      <4>1. SUFFICES ASSUME NEW j \in DOMAIN mem[i].includes
                     PROVE  g[mem[i].includes[j]] = f[mem[i].includes[j]]
        OBVIOUS
      <4>2. mem[i].includes[j] \in DOMAIN mem /\ mem[i].includes[j] < i /\ i \in Nat
        BY <1>0 DEF Ordered
      <4>3. mem[i].includes[j] # m + 1
        BY <2>2, <4>2, <1>0
      <4> QED
        BY <4>2, <4>3
    <3> HIDE DEF g
    <3>2. From(mem, g, i) = From(mem, f, i)
      BY <3>1, FromSame
    <3>3. CASE i = m + 1
      BY <3>2, <3>3 DEF g
    <3>4. CASE i # m + 1
      <4>1. i <= m
        BY <2>2, <3>4, <1>0
      <4>2. f[i] = From(mem, f, i)
        BY <2>1, <4>1
      <4> QED
        BY <3>2, <3>4, <4>2 DEF g
    <3> QED
      BY <3>3, <3>4
  <2> HIDE DEF g
  <2>3. Q(m + 1, g)
    BY <2>2
  <2> HIDE DEF Q
  <2> QED
    BY <2>3, <1>0
<1>3. n \in T
  <2> HIDE DEF T
  <2>1. 0..n \subseteq T
    BY <1>0, <1>1, <1>2, CountUp
  <2> QED
    BY <2>1, <1>0
<1>4. PICK f : Q(n, f)
  BY <1>3
<1> DEFINE h == [i \in DOMAIN mem |-> f[i]]
           G(g) == g = [i \in DOMAIN mem |->
                     <<i>> \o FlattenSeq([j \in DOMAIN mem[i].includes |-> g[mem[i].includes[j]]])]
<1>5. G(h)
  <2>1. ASSUME NEW i \in DOMAIN mem
        PROVE  h[i] = From(mem, h, i)
    <3>1. \A j \in DOMAIN mem[i].includes : h[mem[i].includes[j]] = f[mem[i].includes[j]]
      BY DEF Ordered
    <3>2. From(mem, h, i) = From(mem, f, i)
      <4> HIDE DEF h
      <4> QED
        BY <3>1, FromSame
    <3>3. f[i] = From(mem, f, i)
      <4>1. i <= n
        BY <1>0
      <4> QED
        BY <1>4, <4>1
    <3> QED
      BY <3>2, <3>3
  <2>2. h = [i \in DOMAIN mem |-> h[i]]
    OBVIOUS
  <2>3. \A i \in DOMAIN mem : h[i] = <<i>> \o FlattenSeq([j \in DOMAIN mem[i].includes |-> h[mem[i].includes[j]]])
    <3> HIDE DEF h
    <3> QED
      BY <2>1, Zenon DEF From
  <2> HIDE DEF h
  <2> QED
    BY <2>2, <2>3, Zenon
<1>6. PICK g : g = CHOOSE x : G(x)
  BY Zenon
<1> HIDE DEF h
<1>7. G(g)
  BY <1>5, <1>6, Zenon
<1>8. ASSUME NEW i \in DOMAIN mem
      PROVE  g[i] = From(mem, g, i) /\ Visits(mem, i) = g[i]
  <2>1. Visits(mem, i) = g[i]
    BY <1>6 DEF Visits
  <2>2. g[i] = From(mem, g, i)
    BY <1>7, Zenon DEF From
  <2> QED
    BY <2>1, <2>2
<1> QED
  BY <1>8

(* It begins with the sheet, and all that follow are older.                *)
VisitsWell(mem, i) ==
  LET visits == Visits(mem, i)
  IN  /\ Listed(visits) /\ Len(visits) >= 1 /\ visits[1] = i
      /\ \A k \in 2..Len(visits) : visits[k] \in DOMAIN mem /\ visits[k] < i
      /\ \A x : x \in Within(mem, i) <=>
           x = i \/ \E j \in DOMAIN mem[i].includes : x \in Within(mem, mem[i].includes[j])

(* The recursion over the includes is that, where sheets are ordered.      *)
LEMMA VisitsAre ==
  ASSUME NEW mem, NEW n, Ordered(mem, n), NEW id \in DOMAIN mem
  PROVE  VisitsWell(mem, id)
<1>0. n \in Nat /\ DOMAIN mem \subseteq 1..n
  BY DEF Ordered
<1>1. PICK f : \A i \in DOMAIN mem : f[i] = From(mem, f, i) /\ Visits(mem, i) = f[i]
  BY VisitsFrom
<1> DEFINE T == {m \in 0..n : \A i \in DOMAIN mem : i <= m => VisitsWell(mem, i)}
<1>2. 0 \in T
  BY <1>0
<1>3. ASSUME NEW m \in 0..(n - 1), m \in T, NEW i \in DOMAIN mem, i = m + 1
      PROVE  VisitsWell(mem, i)
  <2> DEFINE includes == mem[i].includes
             below == [j \in DOMAIN includes |-> Visits(mem, includes[j])]
  <2>1. /\ Listed(includes) /\ DOMAIN includes = 1..Len(includes) /\ Len(includes) \in Nat
        /\ \A j \in DOMAIN includes : includes[j] \in DOMAIN mem /\ includes[j] < i
    BY DEF Ordered, Listed
  <2>2. ASSUME NEW j \in DOMAIN includes
        PROVE  VisitsWell(mem, includes[j])
    <3>1. includes[j] <= m /\ includes[j] \in DOMAIN mem
      BY <1>0, <1>3, <2>1
    <3> QED
      BY <1>3, <3>1
  <2>3. Visits(mem, i) = <<i>> \o FlattenSeq(below)
    <3>1. below = [j \in DOMAIN includes |-> f[includes[j]]]
      BY <1>1, <2>1
    <3>2. Visits(mem, i) = From(mem, f, i)
      BY <1>1
    <3> QED
      BY <3>1, <3>2, Zenon DEF From
  <2>4. Listed(below) /\ Len(below) = Len(includes) /\ DOMAIN below = 1..Len(includes)
    <3>1. below = [j \in 1..Len(includes) |-> below[j]]
      BY <2>1
    <3>2. DOMAIN below = 1..Len(includes)
      BY <2>1
    <3> HIDE DEF below
    <3> DEFINE S == {below[j] : j \in 1..Len(includes)}
    <3>3. below \in [1..Len(includes) -> S]
      BY <3>1
    <3> HIDE DEF S
    <3>4. below \in Seq(S) /\ Len(below) = Len(includes)
      BY <3>3, <2>1
    <3> QED
      BY <3>2, <3>4, SeqListed
  <2>5. \A j \in 1..Len(below) : Listed(below[j])
    BY <2>1, <2>2, <2>4 DEF VisitsWell
  <2> DEFINE rest == FlattenSeq(below)
  <2>6. Listed(rest) /\ \A x : x \in Range(rest) <=> \E j \in 1..Len(below) : x \in Range(below[j])
    <3> HIDE DEF below
    <3> QED
      BY <2>4, <2>5, FlattenIs
  <2>7. Listed(<<i>>) /\ Len(<<i>>) = 1 /\ <<i>>[1] = i /\ Range(<<i>>) = {i}
    <3>1. <<i>> \in Seq({i}) /\ Len(<<i>>) = 1 /\ <<i>>[1] = i
      OBVIOUS
    <3>2. PICK one : one = <<i>>
      BY Zenon
    <3>3. Listed(one)
      BY <3>1, <3>2, SeqListed, Zenon
    <3>4. Range(one) = {i}
      BY <3>1, <3>2, <3>3, ListedIs
    <3> QED
      BY <3>1, <3>2, <3>3, <3>4
  <2> DEFINE visits == <<i>> \o rest
  <2>8. /\ Listed(visits) /\ Len(visits) = 1 + Len(rest) /\ visits[1] = i
        /\ \A k \in 1..Len(rest) : visits[1 + k] = rest[k]
        /\ Range(visits) = {i} \union Range(rest)
    <3> HIDE DEF rest
    <3>1. PICK one : one = <<i>>
      OBVIOUS
    <3>2. Listed(one) /\ Len(one) = 1 /\ one[1] = i /\ Range(one) = {i}
      BY <2>7, <3>1
    <3>3. /\ Listed(one \o rest) /\ Len(one \o rest) = Len(one) + Len(rest)
          /\ \A k \in 1..Len(one) : (one \o rest)[k] = one[k]
          /\ \A k \in 1..Len(rest) : (one \o rest)[Len(one) + k] = rest[k]
          /\ Range(one \o rest) = Range(one) \union Range(rest)
      BY <3>2, <2>6, Joined, Zenon
    <3>4. visits = one \o rest
      BY <3>1
    <3> HIDE DEF visits
    <3> QED
      BY <3>2, <3>3, <3>4
  <2>9. Visits(mem, i) = visits
    BY <2>3
  <2> HIDE DEF visits
  <2>10. \A x : x \in Range(rest) <=> \E j \in DOMAIN includes : x \in Within(mem, includes[j])
    BY <2>4, <2>6, <2>1 DEF Within
  <2> HIDE DEF rest, below
  <2>11. \A x : x \in Within(mem, i) <=> x = i \/ \E j \in DOMAIN includes : x \in Within(mem, includes[j])
    BY <2>8, <2>9, <2>10 DEF Within
  <2>12. ASSUME NEW k \in 2..Len(visits)
         PROVE  visits[k] \in DOMAIN mem /\ visits[k] < i
    <3>1. k - 1 \in 1..Len(rest) /\ 1 + (k - 1) = k /\ Len(rest) \in Nat
      BY <2>6, <2>8 DEF Listed
    <3>2. visits[k] = rest[k - 1] /\ rest[k - 1] \in Range(rest)
      BY <2>6, <2>8, <3>1, ListedIs, ZenonT(40)
    <3>3. PICK j \in DOMAIN includes : visits[k] \in Within(mem, includes[j])
      BY <2>10, <3>2
    <3> DEFINE v == Visits(mem, includes[j])
    <3>4. /\ Listed(v) /\ v[1] = includes[j]
          /\ \A q \in 2..Len(v) : v[q] \in DOMAIN mem /\ v[q] < includes[j]
      BY <2>2 DEF VisitsWell
    <3> HIDE DEF v
    <3>5. Range(v) = {v[q] : q \in 1..Len(v)} /\ Len(v) \in Nat
      BY <3>4, ListedIs, Zenon
    <3>6. PICK q \in 1..Len(v) : visits[k] = v[q]
      BY <3>3, <3>5 DEF Within, v
    <3>7. includes[j] \in DOMAIN mem /\ includes[j] < i
      BY <2>1
    <3>8. CASE q = 1
      BY <3>4, <3>6, <3>7, <3>8
    <3>9. CASE q # 1
      <4>1. q \in 2..Len(v)
        BY <3>5, <3>9
      <4>2. v[q] \in DOMAIN mem /\ v[q] < includes[j]
        BY <3>4, <4>1
      <4>3. v[q] < i
        BY <4>2, <3>7, <1>0
      <4> QED
        BY <3>6, <4>2, <4>3
    <3> QED
      BY <3>8, <3>9
  <2>13. Len(visits) >= 1
    BY <2>6, <2>8 DEF Listed
  <2> QED
    BY <2>8, <2>9, <2>11, <2>12, <2>13 DEF VisitsWell
<1>4. ASSUME NEW m \in 0..(n - 1), m \in T
      PROVE  m + 1 \in T
  <2>1. ASSUME NEW i \in DOMAIN mem, i <= m + 1
        PROVE  VisitsWell(mem, i)
    <3>1. i <= m \/ i = m + 1
      BY <1>0, <2>1
    <3> QED
      BY <1>3, <1>4, <3>1
  <2> QED
    BY <2>1, <1>0
<1>5. n \in T
  <2> HIDE DEF T
  <2>1. 0..n \subseteq T
    BY <1>0, <1>2, <1>4, CountUp
  <2> QED
    BY <2>1, <1>0
<1> QED
  BY <1>0, <1>5

(* The sheets that are there come by what they did, whatever is added.     *)
LEMMA VisitsSame ==
  ASSUME NEW mem, NEW n, Ordered(mem, n), NEW mem2, NEW n2, Ordered(mem2, n2),
         DOMAIN mem \subseteq DOMAIN mem2,
         \A i \in DOMAIN mem : mem2[i].includes = mem[i].includes,
         NEW id \in DOMAIN mem
  PROVE  Visits(mem2, id) = Visits(mem, id)
<1>0. n \in Nat /\ DOMAIN mem \subseteq 1..n
  BY DEF Ordered
<1>1. PICK f : \A i \in DOMAIN mem : f[i] = From(mem, f, i) /\ Visits(mem, i) = f[i]
  BY VisitsFrom
<1>2. PICK g : \A i \in DOMAIN mem2 : g[i] = From(mem2, g, i) /\ Visits(mem2, i) = g[i]
  BY VisitsFrom
<1> DEFINE T == {m \in 0..n : \A i \in DOMAIN mem : i <= m => g[i] = f[i]}
<1>3. 0 \in T
  BY <1>0
<1>4. ASSUME NEW m \in 0..(n - 1), m \in T
      PROVE  m + 1 \in T
  <2>1. ASSUME NEW i \in DOMAIN mem, i <= m + 1
        PROVE  g[i] = f[i]
    <3>1. ASSUME NEW j \in DOMAIN mem[i].includes
          PROVE  g[mem[i].includes[j]] = f[mem[i].includes[j]]
      <4>1. mem[i].includes[j] \in DOMAIN mem /\ mem[i].includes[j] < i
        BY DEF Ordered
      <4>2. mem[i].includes[j] <= m
        BY <1>0, <2>1, <4>1
      <4> QED
        BY <1>4, <4>1, <4>2
    <3>2. From(mem2, g, i) = From(mem, f, i)
      BY <3>1, FromSame
    <3> QED
      BY <1>1, <1>2, <3>2
  <2> QED
    BY <2>1, <1>0
<1>5. n \in T
  <2> HIDE DEF T
  <2>1. 0..n \subseteq T
    BY <1>0, <1>3, <1>4, CountUp
  <2> QED
    BY <2>1, <1>0
<1>6. g[id] = f[id]
  BY <1>0, <1>5
<1> QED
  BY <1>1, <1>2, <1>6

-----------------------------------------------------------------------------
(* Definitions.                                                            *)
LEMMA DefinedAtIs ==
  ASSUME NEW mem, NEW i, NEW name, NEW d
  PROVE  d \in DefinedAt(mem, i, name) <=>
           \/ \E k \in DOMAIN mem[i].vars : /\ mem[i].vars[k].name = name
                                            /\ d = [kind |-> "variable", sheet |-> i, index |-> k]
           \/ \E k \in DOMAIN mem[i].funcs : /\ mem[i].funcs[k].name = name
                                             /\ d = [kind |-> "function", sheet |-> i, index |-> k]
           \/ \E k \in DOMAIN mem[i].cFuncs : /\ mem[i].cFuncs[k].name = name
                                              /\ d = [kind |-> "cFunction", sheet |-> i, index |-> k]
BY DEF DefinedAt

(* What a name may mean is what is defined within the sheet.               *)
LEMMA MeantIs ==
  ASSUME NEW mem, NEW id, NEW name, NEW d
  PROVE  d \in Meant(mem, id, name) <=> \E i \in Within(mem, id) : d \in DefinedAt(mem, i, name)
BY DEF Meant

(* A definition says in which sheet it is.                                 *)
LEMMA DefinedSheet ==
  ASSUME NEW mem, NEW i, NEW name, NEW d \in DefinedAt(mem, i, name)
  PROVE  d.sheet = i /\ d.kind \in {"variable", "function", "cFunction"}
BY DefinedAtIs

(* A definition that is found is the only one.                             *)
LEMMA DefinitionIs ==
  ASSUME NEW mem, NEW n, Ordered(mem, n), NEW id \in DOMAIN mem, NEW name,
         d_get_definition(mem, id, name) # Unknown
  PROVE  Meant(mem, id, name) = {d_get_definition(mem, id, name)}
<1> DEFINE visits == Visits(mem, id)
           all == d_get_name_definitions(mem, id, name)
<1>1. PICK one \in all : all = {one} /\ d_get_definition(mem, id, name) = one[2]
  BY DEF d_get_definition
<1>2. Listed(visits) /\ Range(visits) = Within(mem, id) /\ DOMAIN visits = 1..Len(visits)
  BY VisitsAre DEF VisitsWell, Within, Listed
<1>3. \A x : x \in all <=> \E k \in DOMAIN visits : \E d \in DefinedAt(mem, visits[k], name) : x = <<k, d>>
  BY DEF d_get_name_definitions
<1>4. Range(visits) = {visits[k] : k \in 1..Len(visits)}
  BY <1>2, ListedIs
<1> HIDE DEF visits, all
<1>5. ASSUME NEW d \in Meant(mem, id, name)
      PROVE  d = one[2]
  <2>1. PICK i \in Within(mem, id) : d \in DefinedAt(mem, i, name)
    BY MeantIs
  <2>2. PICK k \in DOMAIN visits : visits[k] = i
    BY <1>2, <1>4, <2>1
  <2>3. <<k, d>> \in all
    BY <1>3, <2>1, <2>2
  <2> QED
    BY <1>1, <2>3
<1>6. one[2] \in Meant(mem, id, name)
  <2>1. PICK k \in DOMAIN visits : \E d \in DefinedAt(mem, visits[k], name) : one = <<k, d>>
    BY <1>1, <1>3
  <2>2. one[2] \in DefinedAt(mem, visits[k], name)
    BY <2>1
  <2>3. visits[k] \in Within(mem, id)
    BY <1>2, <1>4
  <2> QED
    BY <2>2, <2>3, MeantIs
<1> QED
  BY <1>1, <1>5, <1>6

(* It is the sheets' things that are meant, not their code.                *)
SameThings(s, t) ==
  /\ t.includes = s.includes /\ t.vars = s.vars /\ t.funcs = s.funcs /\ t.cFuncs = s.cFuncs

(* Names mean the same where sheets define the same.                       *)
LEMMA MeantSame ==
  ASSUME NEW mem, NEW n, Ordered(mem, n), NEW mem2, NEW n2, Ordered(mem2, n2),
         DOMAIN mem \subseteq DOMAIN mem2, \A i \in DOMAIN mem : SameThings(mem[i], mem2[i]),
         NEW id \in DOMAIN mem, NEW name
  PROVE  Within(mem2, id) = Within(mem, id) /\ Meant(mem2, id, name) = Meant(mem, id, name)
<1>1. Within(mem2, id) = Within(mem, id)
  <2>1. \A i \in DOMAIN mem : mem2[i].includes = mem[i].includes
    BY DEF SameThings
  <2>2. Visits(mem2, id) = Visits(mem, id)
    BY <2>1, VisitsSame
  <2> QED
    BY <2>2 DEF Within
<1>2. ASSUME NEW i \in Within(mem, id)
      PROVE  i \in DOMAIN mem
  <2>1. VisitsWell(mem, id)
    BY VisitsAre
  <2> DEFINE visits == Visits(mem, id)
  <2>2. /\ Listed(visits) /\ visits[1] = id /\ Len(visits) \in Nat
        /\ \A k \in 2..Len(visits) : visits[k] \in DOMAIN mem
    BY <2>1 DEF VisitsWell, Listed
  <2> HIDE DEF visits
  <2>3. Range(visits) = {visits[k] : k \in 1..Len(visits)}
    BY <2>2, ListedIs
  <2>4. PICK k \in 1..Len(visits) : i = visits[k]
    BY <2>3 DEF Within, visits
  <2>5. k = 1 \/ k \in 2..Len(visits)
    BY <2>2
  <2> QED
    BY <2>2, <2>4, <2>5
<1>3. \A i \in DOMAIN mem : \A d : d \in DefinedAt(mem2, i, name) <=> d \in DefinedAt(mem, i, name)
  BY DEF SameThings, DefinedAt
<1>4. \A d : d \in Meant(mem2, id, name) <=> d \in Meant(mem, id, name)
  BY <1>1, <1>2, <1>3, MeantIs
<1> QED
  BY <1>1, <1>4

-----------------------------------------------------------------------------
(* Link entries.                                                           *)
LinkTypes == {"LITERAL", "DEFAULT", "VARIABLE", "POINTER", "FUNCTION", "CFUNCTION"}

(* A type and a name are listed once.                                      *)
Unique(link) ==
  \A j, k \in DOMAIN link : link[j].type = link[k].type /\ link[j].name = link[k].name => j = k

(* Entries are found by type and name.                                     *)
LEMMA EntryOfIs ==
  ASSUME NEW link, Listed(link), NEW type, NEW name
  PROVE  LET e == EntryOf(link, type, name)
         IN  /\ e \in Nat
             /\ e # 0 => e \in DOMAIN link /\ link[e].type = type /\ link[e].name = name
             /\ e = 0 => \A k \in DOMAIN link : ~(link[k].type = type /\ link[k].name = name)
<1> DEFINE I == {i \in 1..Len(link) : link[i].type = type /\ link[i].name = name}
           e == EntryOf(link, type, name)
<1>1. e = IF I # {} THEN Min(I) ELSE 0
  BY DEF EntryOf, SelectInSeq
<1>2. DOMAIN link = 1..Len(link) /\ Len(link) \in Nat
  BY DEF Listed
<1>3. CASE I # {}
  <2>1. I \in SUBSET Nat
    BY <1>2
  <2>2. Min(I) \in I
    <3> HIDE DEF I
    <3> QED
      BY <1>3, <2>1, MinIs
  <2>3. e \in I
    BY <1>1, <1>3, <2>2
  <2> QED
    BY <1>2, <2>3
<1>4. CASE I = {}
  BY <1>1, <1>2, <1>4
<1> QED
  BY <1>3, <1>4

(* Where entries are unique, each is found.                                *)
LEMMA EntryFound ==
  ASSUME NEW link, Listed(link), Unique(link), NEW k \in DOMAIN link
  PROVE  EntryOf(link, link[k].type, link[k].name) = k
<1>1. PICK e : e = EntryOf(link, link[k].type, link[k].name)
  OBVIOUS
<1>2. /\ e # 0 => e \in DOMAIN link /\ link[e].type = link[k].type /\ link[e].name = link[k].name
      /\ e = 0 => \A j \in DOMAIN link : ~(link[j].type = link[k].type /\ link[j].name = link[k].name)
  BY <1>1, EntryOfIs
<1> QED
  BY <1>1, <1>2 DEF Unique

-----------------------------------------------------------------------------
(***************************************************************************)
(* Compiling.  What holds of the sheet c while the code of mem[id] is made *)
(* in it.                                                                  *)
(***************************************************************************)
IsSheet(s) ==
  s = [path |-> s.path, includes |-> s.includes, vars |-> s.vars, funcs |-> s.funcs,
       cFuncs |-> s.cFuncs, text |-> s.text, data |-> s.data, link |-> s.link,
       insLinks |-> s.insLinks, hasErrors |-> s.hasErrors, isCompiled |-> s.isCompiled,
       loaded |-> s.loaded]

(* The fields of what lists hold.                                          *)
IsEntry(l) == l = [type |-> l.type, name |-> l.name, meta |-> l.meta, ptr |-> l.ptr]
IsCell(c)  == c = [is |-> c.is, of |-> c.of, val |-> c.val]
IsIns(t)   == t = [of |-> t.of, imm |-> t.imm]

CodeListed(c) ==
  /\ IsSheet(c)
  /\ Listed(c.text) /\ Listed(c.data) /\ Listed(c.link) /\ Listed(c.insLinks)
  /\ \A j \in DOMAIN c.text : IsIns(c.text[j])
  /\ \A j \in DOMAIN c.data : IsCell(c.data[j])
  /\ \A k \in DOMAIN c.link : IsEntry(c.link[k])

(* Only the code differs.                                                  *)
SameSource(c, d) ==
  /\ SameThings(c, d) /\ d.path = c.path /\ d.hasErrors = c.hasErrors
  /\ d.isCompiled = c.isCompiled /\ d.loaded = c.loaded

(* What is in the code stays; an entry may be given its place, or another. *)
TextGrown(s, t) == DOMAIN s \subseteq DOMAIN t /\ \A j \in DOMAIN s : t[j].of = s[j].of
DataGrown(s, t) ==
  DOMAIN s \subseteq DOMAIN t /\ \A j \in DOMAIN s : t[j].is = s[j].is /\ t[j].of = s[j].of
LinkGrown(s, t) ==
  /\ DOMAIN s \subseteq DOMAIN t
  /\ \A k \in DOMAIN s : /\ t[k].type = s[k].type /\ t[k].name = s[k].name /\ t[k].meta = s[k].meta
                         /\ s[k].ptr # NotFound => t[k].ptr # NotFound

(* A sheet of which more is made.                                          *)
Grown(c, d) ==
  /\ SameSource(c, d)
  /\ TextGrown(c.text, d.text) /\ DataGrown(c.data, d.data) /\ LinkGrown(c.link, d.link)

(* Growth is transitive.                                                   *)
LEMMA GrownFurther ==
  ASSUME NEW b, NEW c, NEW d, Grown(b, c), Grown(c, d)
  PROVE  Grown(b, d)
<1>1. SameSource(b, d)
  BY DEF Grown, SameSource, SameThings
<1>2. TextGrown(b.text, d.text)
  BY DEF Grown, TextGrown
<1>3. DataGrown(b.data, d.data)
  BY DEF Grown, DataGrown
<1>4. LinkGrown(b.link, d.link)
  BY DEF Grown, LinkGrown
<1> QED
  BY <1>1, <1>2, <1>3, <1>4 DEF Grown

(* And reflexive.                                                          *)
LEMMA GrownNot == ASSUME NEW c PROVE Grown(c, c)
BY DEF Grown, SameSource, SameThings, TextGrown, DataGrown, LinkGrown

-----------------------------------------------------------------------------
(* Where the things of an entry are.                                       *)
TextPlaced(c, l) ==
  \E p \in DOMAIN c.data : /\ l.ptr = Index(p) /\ c.data[p].is = "text"
                           /\ l.type = "LITERAL" => c.data[p].of = l.name
(* Where entries of the sheet's own things lead.                           *)
StringNamed(c, name) == \E i \in DOMAIN c.vars : c.vars[i].name = name /\ c.vars[i].type = "String"

VarOwn(c, id, l) ==
  \E i \in DOMAIN c.vars : /\ l.meta = [kind |-> "variable", sheet |-> id, index |-> i]
                           /\ c.vars[i].name = l.name /\ VariableLink(c.vars[i]) = l.type
VarPlaced(c, l) ==
  \E p \in DOMAIN c.data : /\ l.ptr = Index(p) /\ c.data[p].is = "variable" /\ c.data[p].of = l.name

FuncOwn(c, id, l) ==
  \E i \in DOMAIN c.funcs : /\ l.meta = [kind |-> "function", sheet |-> id, index |-> i]
                            /\ c.funcs[i].name = l.name
FuncPlaced(c, l) == \E p \in DOMAIN c.text : l.ptr = Index(p) /\ c.text[p].of = l.name

(* What is meant, and not found yet.                                       *)
OneMeant(mem, id, l) == Meant(mem, id, l.name) = {l.meta} /\ LinkTypeOf(mem, l.meta) = l.type
Unplaced(mem, id, l) == l.ptr = NotFound /\ OneMeant(mem, id, l)
Foreign(mem, id, l)  == l.meta.sheet # id /\ Unplaced(mem, id, l)

(* What holds of each entry, and of each use.                              *)
EntryMade(mem, id, c, l) ==
  /\ l.type \in LinkTypes
  /\ l.type \in {"LITERAL", "DEFAULT"} => TextPlaced(c, l)
  /\ l.type = "DEFAULT" => StringNamed(c, l.name)
  /\ l.type \in {"VARIABLE", "POINTER"} => (VarOwn(c, id, l) /\ VarPlaced(c, l)) \/ Foreign(mem, id, l)
  /\ l.type = "FUNCTION" => \/ /\ FuncOwn(c, id, l) /\ OneMeant(mem, id, l)
                               /\ l.ptr = NotFound \/ FuncPlaced(c, l)
                            \/ Foreign(mem, id, l)
  /\ l.type = "CFUNCTION" => Unplaced(mem, id, l)

UseMade(mem, id, c, k) ==
  /\ k.ins \in DOMAIN c.text /\ k.link \in DOMAIN c.link /\ k.use.kind \in {"name", "text"}
  /\ c.link[k.link].name = k.use.name
  /\ IF k.use.kind = "text" THEN c.link[k.link].type = "LITERAL"
     ELSE /\ c.link[k.link].type \notin {"LITERAL", "DEFAULT"}
          /\ Meant(mem, id, k.use.name) = {c.link[k.link].meta}

InsOnce(insLinks) == \A j, k \in DOMAIN insLinks : insLinks[j].ins = insLinks[k].ins => j = k

HasEntry(link, type, name) == \E k \in DOMAIN link : link[k].type = type /\ link[k].name = name

VarListed(c, i) ==
  /\ HasEntry(c.link, VariableLink(c.vars[i]), c.vars[i].name)
  /\ c.vars[i].type = "String" => HasEntry(c.link, "DEFAULT", c.vars[i].name)

FuncDone(c, i) ==
  \E k \in DOMAIN c.link : /\ c.link[k].type = "FUNCTION" /\ c.link[k].name = c.funcs[i].name
                           /\ c.link[k].ptr # NotFound

(* What holds of a sheet while its code is made.                           *)
Made(mem, id, c) ==
  /\ CodeListed(c) /\ SameSource(mem[id], c)
  /\ \A k \in DOMAIN c.link : EntryMade(mem, id, c, c.link[k])
  /\ Unique(c.link)
  /\ \A k \in DOMAIN c.insLinks : UseMade(mem, id, c, c.insLinks[k])
  /\ InsOnce(c.insLinks)
  /\ \A i \in DOMAIN c.vars : VarListed(c, i)

-----------------------------------------------------------------------------
(* All that stays when the code grows.                                     *)
LEMMA GrownPlaces ==
  ASSUME NEW c, NEW d, Grown(c, d), NEW id, NEW l
  PROVE  /\ TextPlaced(c, l) => TextPlaced(d, l)
         /\ StringNamed(c, l.name) => StringNamed(d, l.name)
         /\ VarOwn(c, id, l) => VarOwn(d, id, l)
         /\ VarPlaced(c, l) => VarPlaced(d, l)
         /\ FuncOwn(c, id, l) => FuncOwn(d, id, l)
         /\ FuncPlaced(c, l) => FuncPlaced(d, l)
<1>1. d.vars = c.vars /\ d.funcs = c.funcs
  BY DEF Grown, SameSource, SameThings
<1>2. StringNamed(c, l.name) => StringNamed(d, l.name)
  BY <1>1 DEF StringNamed
<1>3. VarOwn(c, id, l) => VarOwn(d, id, l)
  BY <1>1 DEF VarOwn
<1>4. FuncOwn(c, id, l) => FuncOwn(d, id, l)
  BY <1>1 DEF FuncOwn
<1>5. TextPlaced(c, l) => TextPlaced(d, l)
  BY DEF TextPlaced, Grown, DataGrown
<1>6. VarPlaced(c, l) => VarPlaced(d, l)
  BY DEF VarPlaced, Grown, DataGrown
<1>7. FuncPlaced(c, l) => FuncPlaced(d, l)
  BY DEF FuncPlaced, Grown, TextGrown
<1> QED
  BY <1>2, <1>3, <1>4, <1>5, <1>6, <1>7

(* What held of an entry, and of a use, still does.                        *)
LEMMA GrownEntry ==
  ASSUME NEW c, NEW d, Grown(c, d), NEW mem, NEW id, NEW l, EntryMade(mem, id, c, l)
  PROVE  EntryMade(mem, id, d, l)
BY GrownPlaces DEF EntryMade

(* A use that was made stays so.                                           *)
LEMMA GrownUse ==
  ASSUME NEW c, NEW d, Grown(c, d), NEW mem, NEW id, NEW k, UseMade(mem, id, c, k)
  PROVE  UseMade(mem, id, d, k)
BY DEF UseMade, Grown, TextGrown, LinkGrown

(* What is listed, or has its place, stays so.                             *)
LEMMA GrownListed ==
  ASSUME NEW c, NEW d, Grown(c, d)
  PROVE  /\ \A i \in DOMAIN c.vars : VarListed(c, i) => VarListed(d, i)
         /\ \A i \in DOMAIN c.funcs : FuncDone(c, i) => FuncDone(d, i)
<1>1. d.vars = c.vars /\ d.funcs = c.funcs
  BY DEF Grown, SameSource, SameThings
<1>2. \A type, name : HasEntry(c.link, type, name) => HasEntry(d.link, type, name)
  BY DEF HasEntry, Grown, LinkGrown
<1>3. \A i \in DOMAIN c.vars : VarListed(c, i) => VarListed(d, i)
  BY <1>1, <1>2 DEF VarListed
<1>4. \A i \in DOMAIN c.funcs : FuncDone(c, i) => FuncDone(d, i)
  BY <1>1 DEF FuncDone, Grown, LinkGrown
<1> QED
  BY <1>3, <1>4

(* One more entry.                                                         *)
LEMMA AppendUnique ==
  ASSUME NEW link, Listed(link), Unique(link), NEW l, ~HasEntry(link, l.type, l.name)
  PROVE  Unique(Append(link, l))
<1> DEFINE new == Append(link, l)
<1>1. /\ DOMAIN new = 1..(Len(link) + 1) /\ new[Len(link) + 1] = l /\ DOMAIN link = 1..Len(link)
      /\ \A i \in 1..Len(link) : new[i] = link[i]
  BY Appended, ListedIs
<1>2. Len(link) \in Nat
  BY DEF Listed
<1> HIDE DEF new
<1>3. ASSUME NEW j \in DOMAIN new, NEW k \in DOMAIN new,
             new[j].type = new[k].type, new[j].name = new[k].name
      PROVE  j = k
  <2>1. \A i \in DOMAIN new : i \in DOMAIN link \/ i = Len(link) + 1
    BY <1>1, <1>2
  <2>2. CASE j \in DOMAIN link /\ k \in DOMAIN link
    BY <1>1, <1>3, <2>2 DEF Unique
  <2>3. CASE j \in DOMAIN link /\ k = Len(link) + 1
    BY <1>1, <1>3, <2>3 DEF HasEntry
  <2>4. CASE j = Len(link) + 1 /\ k \in DOMAIN link
    BY <1>1, <1>3, <2>4 DEF HasEntry
  <2> QED
    BY <2>1, <2>2, <2>3, <2>4
<1> QED
  BY <1>3 DEF Unique, new

(* To append an entry changes no other.                                    *)
LEMMA AppendLinkGrown ==
  ASSUME NEW link, Listed(link), NEW l
  PROVE  /\ LinkGrown(link, Append(link, l))
         /\ \A k \in DOMAIN Append(link, l) : Append(link, l)[k] = l
              \/ (k \in DOMAIN link /\ Append(link, l)[k] = link[k])
<1> DEFINE new == Append(link, l)
<1>1. /\ DOMAIN new = 1..(Len(link) + 1) /\ new[Len(link) + 1] = l /\ DOMAIN link = 1..Len(link)
      /\ \A i \in 1..Len(link) : new[i] = link[i]
  BY Appended, ListedIs
<1>2. Len(link) \in Nat
  BY DEF Listed
<1> HIDE DEF new
<1>3. LinkGrown(link, new)
  BY <1>1, <1>2 DEF LinkGrown
<1>4. \A k \in DOMAIN new : new[k] = l \/ (k \in DOMAIN link /\ new[k] = link[k])
  <2>1. ASSUME NEW k \in 1..(Len(link) + 1)
        PROVE  new[k] = l \/ (k \in 1..Len(link) /\ new[k] = link[k])
    <3>1. CASE k = Len(link) + 1
      BY <1>1, <3>1
    <3>2. CASE k # Len(link) + 1
      BY <1>1, <1>2, <3>2
    <3> QED
      BY <3>1, <3>2
  <2> QED
    BY <1>1, <2>1
<1> QED
  BY <1>3, <1>4 DEF new

(* To append to the data or the text changes nothing that is there.        *)
LEMMA AppendDataGrown ==
  ASSUME NEW s, Listed(s), NEW e
  PROVE  DataGrown(s, Append(s, e)) /\ TextGrown(s, Append(s, e))
<1> DEFINE t == Append(s, e)
<1>1. DOMAIN t = 1..(Len(s) + 1) /\ DOMAIN s = 1..Len(s) /\ \A i \in 1..Len(s) : t[i] = s[i]
  BY Appended, ListedIs
<1>2. Len(s) \in Nat
  BY DEF Listed
<1> HIDE DEF t
<1> QED
  BY <1>1, <1>2 DEF DataGrown, TextGrown, t

(* A literal that is needed has an entry then.                             *)
LEMMA LiteralIs ==
  ASSUME NEW c, CodeListed(c), NEW text
  PROVE  LET d == d_allocate_string_literal_in_data(c, text)
             l == [type |-> "LITERAL", name |-> text, meta |-> Unknown, ptr |-> Index(Len(c.data) + 1)]
         IN  \/ HasEntry(c.link, "LITERAL", text) /\ d = c
             \/ /\ ~HasEntry(c.link, "LITERAL", text)
                /\ d.link = Append(c.link, l)
                /\ d.data = Append(c.data, [is |-> "text", of |-> text, val |-> NotFound])
                /\ IsSheet(d) /\ SameSource(c, d) /\ d.text = c.text /\ d.insLinks = c.insLinks
<1> DEFINE e == EntryOf(c.link, "LITERAL", text)
           d == d_allocate_string_literal_in_data(c, text)
           l == [type |-> "LITERAL", name |-> text, meta |-> Unknown, ptr |-> Index(Len(c.data) + 1)]
<1>1. /\ e # 0 => e \in DOMAIN c.link /\ c.link[e].type = "LITERAL" /\ c.link[e].name = text
      /\ e = 0 => \A k \in DOMAIN c.link : ~(c.link[k].type = "LITERAL" /\ c.link[k].name = text)
  BY EntryOfIs DEF CodeListed
<1>2. CASE e # 0
  BY <1>1, <1>2 DEF HasEntry, d_allocate_string_literal_in_data
<1>3. CASE e = 0
  <2>1. ~HasEntry(c.link, "LITERAL", text)
    BY <1>1, <1>3 DEF HasEntry
  <2>2. [d_link_new_meta("LITERAL", text, Unknown) EXCEPT !.ptr = Index(Len(c.data) + 1)] = l
    BY DEF d_link_new_meta
  <2>3. IsSheet(c)
    BY DEF CodeListed
  <2>4. d = [[c EXCEPT !.link = Append(c.link, l)] EXCEPT
               !.data = Append(c.data, [is |-> "text", of |-> text, val |-> NotFound])]
    BY <1>3, <2>2, <2>3, Zenon DEF d_allocate_string_literal_in_data, d_allocate_from_data_section, IsSheet
  <2> HIDE DEF d, l
  <2>5. /\ d.link = Append(c.link, l)
        /\ d.data = Append(c.data, [is |-> "text", of |-> text, val |-> NotFound])
        /\ IsSheet(d) /\ SameSource(c, d) /\ d.text = c.text /\ d.insLinks = c.insLinks
    BY <2>3, <2>4, Zenon DEF IsSheet, SameSource, SameThings
  <2> QED
    BY <2>1, <2>5 DEF d, l
<1> QED
  BY <1>2, <1>3

(* What is kept when more is made.                                         *)
LEMMA MadeFurther ==
  ASSUME NEW mem, NEW id, NEW c, Made(mem, id, c), NEW d, CodeListed(d), Grown(c, d), Unique(d.link),
         \A k \in DOMAIN d.link : EntryMade(mem, id, d, d.link[k]),
         \A k \in DOMAIN d.insLinks : UseMade(mem, id, d, d.insLinks[k]),
         InsOnce(d.insLinks)
  PROVE  Made(mem, id, d)
<1>1. SameSource(mem[id], d)
  BY DEF Made, Grown, SameSource, SameThings
<1>2. d.vars = c.vars
  BY DEF Grown, SameSource, SameThings
<1>3. \A i \in DOMAIN d.vars : VarListed(d, i)
  BY <1>2, GrownListed DEF Made
<1> QED
  BY <1>1, <1>3 DEF Made

(* Two entries are joined to the list, the second one new.                 *)
LEMMA EntryAdded ==
  ASSUME NEW mem, NEW id, NEW c, Made(mem, id, c), NEW d, CodeListed(d), Grown(c, d), NEW l,
         d.link = Append(c.link, l), ~HasEntry(c.link, l.type, l.name), EntryMade(mem, id, d, l),
         d.insLinks = c.insLinks
  PROVE  Made(mem, id, d)
<1>1. Listed(c.link) /\ Unique(c.link)
  BY DEF Made, CodeListed
<1>2. Unique(d.link)
  BY <1>1, AppendUnique
<1>3. \A k \in DOMAIN d.link : d.link[k] = l \/ (k \in DOMAIN c.link /\ d.link[k] = c.link[k])
  BY <1>1, AppendLinkGrown
<1>4. \A k \in DOMAIN d.link : EntryMade(mem, id, d, d.link[k])
  BY <1>3, GrownEntry DEF Made
<1>5. \A k \in DOMAIN d.insLinks : UseMade(mem, id, d, d.insLinks[k])
  BY GrownUse DEF Made
<1>6. InsOnce(d.insLinks)
  BY DEF Made
<1> QED
  BY <1>2, <1>4, <1>5, <1>6, MadeFurther, Zenon

(* A text is stored.                                                       *)
LEMMA LiteralMade ==
  ASSUME NEW mem, NEW id, NEW c, Made(mem, id, c), NEW text
  PROVE  LET d == d_allocate_string_literal_in_data(c, text)
         IN  Made(mem, id, d) /\ Grown(c, d) /\ HasEntry(d.link, "LITERAL", text)
<1> DEFINE d == d_allocate_string_literal_in_data(c, text)
           l == [type |-> "LITERAL", name |-> text, meta |-> Unknown, ptr |-> Index(Len(c.data) + 1)]
           cell == [is |-> "text", of |-> text, val |-> NotFound]
<1>1. CodeListed(c)
  BY DEF Made
<1>2. \/ HasEntry(c.link, "LITERAL", text) /\ d = c
      \/ /\ ~HasEntry(c.link, "LITERAL", text)
         /\ d.link = Append(c.link, l) /\ d.data = Append(c.data, cell)
         /\ IsSheet(d) /\ SameSource(c, d) /\ d.text = c.text /\ d.insLinks = c.insLinks
  BY <1>1, LiteralIs
<1>3. CASE HasEntry(c.link, "LITERAL", text) /\ d = c
  BY <1>3, GrownNot
<1>4. CASE ~HasEntry(c.link, "LITERAL", text)
  <2> HIDE DEF d
  <2>1. /\ d.link = Append(c.link, l) /\ d.data = Append(c.data, cell)
        /\ IsSheet(d) /\ SameSource(c, d) /\ d.text = c.text /\ d.insLinks = c.insLinks
    BY <1>2, <1>4
  <2>2. IsEntry(l) /\ IsCell(cell) /\ l.type = "LITERAL" /\ l.name = text /\ l.ptr = Index(Len(c.data) + 1)
    BY DEF IsEntry, IsCell
  <2>3. cell.is = "text" /\ cell.of = text
    OBVIOUS
  <2> HIDE DEF l, cell
  <2>4. /\ Listed(d.data) /\ DOMAIN d.data = 1..(Len(c.data) + 1) /\ d.data[Len(c.data) + 1] = cell
        /\ \A i \in 1..Len(c.data) : d.data[i] = c.data[i]
        /\ DOMAIN c.data = 1..Len(c.data) /\ Len(c.data) \in Nat
    BY <1>1, <2>1, Appended, ListedIs, SMTT(30) DEF CodeListed
  <2>5. Listed(d.link) /\ \A k \in DOMAIN d.link : d.link[k] = l \/ (k \in DOMAIN c.link /\ d.link[k] = c.link[k])
    BY <1>1, <2>1, Appended, AppendLinkGrown DEF CodeListed
  <2>6. Grown(c, d)
    <3>1. TextGrown(c.text, d.text)
      BY <2>1 DEF TextGrown
    <3>2. DataGrown(c.data, d.data) /\ LinkGrown(c.link, d.link)
      BY <1>1, <2>1, AppendDataGrown, AppendLinkGrown DEF CodeListed
    <3> QED
      BY <2>1, <3>1, <3>2 DEF Grown
  <2>7. CodeListed(d)
    <3>1. \A j \in DOMAIN d.data : IsCell(d.data[j])
      <4>1. ASSUME NEW j \in DOMAIN d.data
            PROVE  IsCell(d.data[j])
        <5>1. j = Len(c.data) + 1 \/ j \in 1..Len(c.data)
          BY <2>4
        <5> QED
          BY <1>1, <2>2, <2>4, <5>1 DEF CodeListed
      <4> QED
        BY <4>1
    <3>2. \A k \in DOMAIN d.link : IsEntry(d.link[k])
      BY <1>1, <2>2, <2>5 DEF CodeListed
    <3>3. \A j \in DOMAIN d.text : IsIns(d.text[j])
      BY <1>1, <2>1 DEF CodeListed
    <3>4. Listed(d.text) /\ Listed(d.insLinks)
      BY <1>1, <2>1 DEF CodeListed
    <3> QED
      BY <2>1, <2>4, <2>5, <3>1, <3>2, <3>3, <3>4, Zenon DEF CodeListed
  <2>8. EntryMade(mem, id, d, l)
    <3>1. TextPlaced(d, l)
      <4>1. Len(c.data) + 1 \in DOMAIN d.data
        BY <2>4
      <4> QED
        BY <2>2, <2>3, <2>4, <4>1 DEF TextPlaced
    <3> QED
      BY <2>2, <3>1 DEF EntryMade, LinkTypes
  <2>9. ~HasEntry(c.link, l.type, l.name)
    BY <1>4, <2>2
  <2>10. Made(mem, id, d)
    BY <2>1, <2>6, <2>7, <2>8, <2>9, EntryAdded
  <2>11. HasEntry(d.link, "LITERAL", text)
    <3>1. Len(c.link) + 1 \in DOMAIN d.link /\ d.link[Len(c.link) + 1] = l
      <4>1. Listed(c.link) /\ Len(c.link) \in Nat
        BY <1>1 DEF CodeListed, Listed
      <4> QED
        BY <2>1, <4>1, Appended
    <3> QED
      BY <2>2, <3>1 DEF HasEntry
  <2> QED
    BY <2>6, <2>10, <2>11 DEF d
<1> QED
  BY <1>2, <1>3, <1>4

(* An instruction is linked to its entry, which is q.                      *)
LinksTo(c, d, meta, use, q) ==
  /\ IsSheet(d) /\ SameSource(c, d) /\ d.data = c.data
  /\ d.text = Append(c.text, [of |-> "", imm |-> NotFound])
  /\ d.insLinks = Append(c.insLinks, [ins |-> Len(c.text) + 1, use |-> use, link |-> q])
  /\ q \in DOMAIN d.link /\ d.link[q].type = meta.type /\ d.link[q].name = meta.name
  /\ \/ d.link = c.link
     \/ (~HasEntry(c.link, meta.type, meta.name) /\ d.link = Append(c.link, meta) /\ d.link[q] = meta)

(* What it is to link an instruction.                                      *)
LEMMA LinkIs ==
  ASSUME NEW c, CodeListed(c), NEW meta, NEW use
  PROVE  \E q \in Nat : LinksTo(c, d_add_link_to_ins(c, meta, use), meta, use, q)
<1> DEFINE had  == EntryOf(c.link, meta.type, meta.name)
           link == IF had = 0 THEN Append(c.link, meta) ELSE c.link
           k    == IF had = 0 THEN Len(link) ELSE had
           d    == d_add_link_to_ins(c, meta, use)
<1>1. Listed(c.link) /\ IsSheet(c)
  BY DEF CodeListed
<1>2. /\ had \in Nat
      /\ had # 0 => had \in DOMAIN c.link /\ c.link[had].type = meta.type /\ c.link[had].name = meta.name
      /\ had = 0 => \A j \in DOMAIN c.link : ~(c.link[j].type = meta.type /\ c.link[j].name = meta.name)
  BY <1>1, EntryOfIs
<1> HIDE DEF had
<1>3. d = [[[c EXCEPT !.link = link] EXCEPT !.text = Append(c.text, [of |-> "", imm |-> NotFound])]
             EXCEPT !.insLinks = Append(c.insLinks, [ins |-> Len(c.text) + 1, use |-> use, link |-> k])]
  BY <1>1 DEF d_add_link_to_ins, IsSheet, had
<1>4. k \in Nat /\ k \in DOMAIN link /\ link[k].type = meta.type /\ link[k].name = meta.name
      /\ (link = c.link \/ (~HasEntry(c.link, meta.type, meta.name) /\ link = Append(c.link, meta) /\ link[k] = meta))
  <2>1. CASE had # 0
    BY <1>2, <2>1
  <2>2. CASE had = 0
    <3>1. link = Append(c.link, meta) /\ k = Len(link) /\ ~HasEntry(c.link, meta.type, meta.name)
      BY <1>2, <2>2 DEF HasEntry
    <3>2. Len(c.link) \in Nat
      BY <1>1 DEF Listed
    <3>3. k = Len(c.link) + 1 /\ k \in 1..(Len(c.link) + 1)
      BY <1>1, <3>1, <3>2, Appended
    <3> HIDE DEF k, link
    <3> QED
      BY <1>1, <3>1, <3>2, <3>3, Appended
  <2> QED
    BY <2>1, <2>2
<1> HIDE DEF link, k, d
<1>5. /\ IsSheet(d) /\ SameSource(c, d) /\ d.data = c.data /\ d.link = link
      /\ d.text = Append(c.text, [of |-> "", imm |-> NotFound])
      /\ d.insLinks = Append(c.insLinks, [ins |-> Len(c.text) + 1, use |-> use, link |-> k])
  BY <1>1, <1>3, Zenon DEF IsSheet, SameSource, SameThings
<1>6. k \in Nat /\ LinksTo(c, d, meta, use, k)
  BY <1>4, <1>5, Zenon DEF LinksTo
<1> QED
  BY <1>6 DEF d

(* An instruction is linked to an entry.                                   *)
LEMMA LinkMade ==
  ASSUME NEW mem, NEW id, NEW c, Made(mem, id, c), NEW meta, IsEntry(meta), NEW use,
         meta.name = use.name, use.kind \in {"name", "text"},
         HasEntry(c.link, meta.type, meta.name) \/ EntryMade(mem, id, c, meta),
         use.kind = "text" => meta.type = "LITERAL",
         use.kind = "name" =>
           /\ meta.type \notin {"LITERAL", "DEFAULT"} /\ Meant(mem, id, use.name) = {meta.meta}
           /\ \A k \in DOMAIN c.link :
                c.link[k].type = meta.type /\ c.link[k].name = meta.name => c.link[k].meta = meta.meta
  PROVE  LET d == d_add_link_to_ins(c, meta, use)
         IN  Made(mem, id, d) /\ Grown(c, d)
<1> DEFINE d == d_add_link_to_ins(c, meta, use)
           ins == [of |-> "", imm |-> NotFound]
<1>1. CodeListed(c)
  BY DEF Made
<1>2. PICK q \in Nat : LinksTo(c, d, meta, use, q)
  BY <1>1, LinkIs
<1> HIDE DEF d
<1> DEFINE new == [ins |-> Len(c.text) + 1, use |-> use, link |-> q]
<1>3. new.ins = Len(c.text) + 1 /\ new.use = use /\ new.link = q /\ IsIns(ins)
  BY DEF IsIns
<1>4. /\ IsSheet(d) /\ SameSource(c, d) /\ d.data = c.data /\ d.text = Append(c.text, ins)
      /\ d.insLinks = Append(c.insLinks, new)
      /\ q \in DOMAIN d.link /\ d.link[q].type = meta.type /\ d.link[q].name = meta.name
      /\ \/ d.link = c.link
         \/ (~HasEntry(c.link, meta.type, meta.name) /\ d.link = Append(c.link, meta) /\ d.link[q] = meta)
  BY <1>2, Zenon DEF LinksTo
<1> HIDE DEF new, ins
<1>5. /\ Listed(d.text) /\ DOMAIN d.text = 1..(Len(c.text) + 1) /\ d.text[Len(c.text) + 1] = ins
      /\ \A i \in 1..Len(c.text) : d.text[i] = c.text[i]
      /\ DOMAIN c.text = 1..Len(c.text) /\ Len(c.text) \in Nat
  BY <1>1, <1>4, Appended, ListedIs, SMTT(30) DEF CodeListed
<1>6. /\ Listed(d.insLinks) /\ DOMAIN d.insLinks = 1..(Len(c.insLinks) + 1)
      /\ d.insLinks[Len(c.insLinks) + 1] = new
      /\ \A i \in 1..Len(c.insLinks) : d.insLinks[i] = c.insLinks[i]
      /\ DOMAIN c.insLinks = 1..Len(c.insLinks) /\ Len(c.insLinks) \in Nat
  BY <1>1, <1>4, Appended, ListedIs, SMTT(30) DEF CodeListed
<1>7. /\ Listed(d.link) /\ LinkGrown(c.link, d.link)
      /\ \A k \in DOMAIN d.link : (d.link[k] = meta /\ ~HasEntry(c.link, meta.type, meta.name))
                                    \/ (k \in DOMAIN c.link /\ d.link[k] = c.link[k])
  <2>1. CASE d.link = c.link
    BY <1>1, <2>1 DEF LinkGrown, CodeListed
  <2>2. CASE d.link = Append(c.link, meta) /\ ~HasEntry(c.link, meta.type, meta.name)
    BY <1>1, <2>2, Appended, AppendLinkGrown DEF CodeListed
  <2> QED
    BY <1>4, <2>1, <2>2
<1>8. Grown(c, d)
  <2>1. TextGrown(c.text, d.text)
    BY <1>1, <1>4, AppendDataGrown DEF CodeListed
  <2>2. DataGrown(c.data, d.data)
    BY <1>4 DEF DataGrown
  <2> QED
    BY <1>4, <1>7, <2>1, <2>2 DEF Grown
<1>9. CodeListed(d)
  <2>1. \A j \in DOMAIN d.text : IsIns(d.text[j])
    <3>1. ASSUME NEW j \in DOMAIN d.text
          PROVE  IsIns(d.text[j])
      <4>1. j = Len(c.text) + 1 \/ j \in 1..Len(c.text)
        BY <1>5
      <4> QED
        BY <1>1, <1>3, <1>5, <4>1 DEF CodeListed
    <3> QED
      BY <3>1
  <2>2. \A k \in DOMAIN d.link : IsEntry(d.link[k])
    BY <1>1, <1>7 DEF CodeListed
  <2> QED
    BY <1>1, <1>4, <1>5, <1>6, <1>7, <2>1, <2>2 DEF CodeListed
<1>10. Unique(d.link)
  BY <1>1, <1>4, AppendUnique, Zenon DEF Made, CodeListed
<1>11. \A k \in DOMAIN d.link : EntryMade(mem, id, d, d.link[k])
  <2>1. ASSUME NEW k \in DOMAIN d.link
        PROVE  EntryMade(mem, id, d, d.link[k])
    <3>1. CASE d.link[k] = meta /\ ~HasEntry(c.link, meta.type, meta.name)
      BY <1>8, <3>1, GrownEntry
    <3>2. CASE k \in DOMAIN c.link /\ d.link[k] = c.link[k]
      BY <1>8, <3>2, GrownEntry DEF Made
    <3> QED
      BY <1>7, <3>1, <3>2
  <2> QED
    BY <2>1
<1>12. UseMade(mem, id, d, new)
  <2>1. new.ins \in DOMAIN d.text /\ new.link \in DOMAIN d.link /\ d.link[q].name = use.name
    BY <1>4, <1>3, <1>5
  <2>2. use.kind = "name" => d.link[q].meta = meta.meta
    BY <1>4, <1>7
  <2> QED
    BY <1>4, <1>3, <2>1, <2>2 DEF UseMade
<1>13. \A k \in DOMAIN d.insLinks : UseMade(mem, id, d, d.insLinks[k])
  <2>1. ASSUME NEW k \in DOMAIN d.insLinks
        PROVE  UseMade(mem, id, d, d.insLinks[k])
    <3>1. k = Len(c.insLinks) + 1 \/ k \in 1..Len(c.insLinks)
      BY <1>6
    <3>2. CASE k \in 1..Len(c.insLinks)
      BY <1>6, <1>8, <3>2, GrownUse DEF Made
    <3> QED
      BY <1>6, <1>12, <3>1, <3>2
  <2> QED
    BY <2>1
<1>14. InsOnce(d.insLinks)
  <2>1. \A k \in 1..Len(c.insLinks) : d.insLinks[k].ins \in 1..Len(c.text)
    BY <1>5, <1>6, Zenon DEF Made, UseMade
  <2>2. ASSUME NEW j \in DOMAIN d.insLinks, NEW k \in DOMAIN d.insLinks,
               d.insLinks[j].ins = d.insLinks[k].ins
        PROVE  j = k
    <3>1. \A i \in DOMAIN d.insLinks : i = Len(c.insLinks) + 1 \/ i \in 1..Len(c.insLinks)
      BY <1>6
    <3>2. Len(c.text) + 1 \notin 1..Len(c.text)
      BY <1>5
    <3>3. CASE j \in 1..Len(c.insLinks) /\ k \in 1..Len(c.insLinks)
      BY <1>6, <2>2, <3>3 DEF Made, InsOnce
    <3>4. CASE j = Len(c.insLinks) + 1 /\ k \in 1..Len(c.insLinks)
      BY <1>3, <1>6, <2>1, <2>2, <3>2, <3>4, Zenon
    <3>5. CASE j \in 1..Len(c.insLinks) /\ k = Len(c.insLinks) + 1
      BY <1>3, <1>6, <2>1, <2>2, <3>2, <3>5, Zenon
    <3> QED
      BY <3>1, <3>3, <3>4, <3>5
  <2> QED
    BY <2>2 DEF InsOnce
<1>15. Made(mem, id, d)
  BY <1>8, <1>9, <1>10, <1>11, <1>13, <1>14, MadeFurther
<1> QED
  BY <1>8, <1>15 DEF d

(* A use of a name that means one thing, or of a text.                     *)
UseFits(mem, id, use) ==
  /\ use.kind \in {"name", "text"}
  /\ use.kind = "name" => d_get_definition(mem, id, use.name) # Unknown

Loading(mem, n, id) == Ordered(mem, n) /\ id \in DOMAIN mem

(* What a sheet defines is among what the name may mean.                   *)
LEMMA OwnIsMeant ==
  ASSUME NEW mem, NEW n, NEW id, Loading(mem, n, id), NEW name, NEW d \in DefinedAt(mem, id, name)
  PROVE  d \in Meant(mem, id, name)
<1>1. id \in Within(mem, id)
  BY VisitsAre DEF VisitsWell, Loading
<1> QED
  BY <1>1, MeantIs

(* An entry of the sheet's own variable has a definition its name may      *)
(* mean.                                                                   *)
LEMMA VarOwnMeant ==
  ASSUME NEW mem, NEW n, NEW id, Loading(mem, n, id), NEW c, SameSource(mem[id], c),
         NEW l, VarOwn(c, id, l)
  PROVE  l.meta \in Meant(mem, id, l.name)
<1>1. PICK i \in DOMAIN c.vars : /\ l.meta = [kind |-> "variable", sheet |-> id, index |-> i]
                                 /\ c.vars[i].name = l.name
  BY DEF VarOwn
<1>2. l.meta \in DefinedAt(mem, id, l.name)
  BY <1>1, DefinedAtIs DEF SameSource, SameThings
<1> QED
  BY <1>2, OwnIsMeant

(* One instruction is made, and then all of a function.                    *)
LEMMA AddUseMade ==
  ASSUME NEW mem, NEW n, NEW id, Loading(mem, n, id), NEW c, Made(mem, id, c),
         NEW use, UseFits(mem, id, use)
  PROVE  LET d == AddUse(mem, c, id, use)
         IN  Made(mem, id, d) /\ Grown(c, d)
<1> DEFINE d == AddUse(mem, c, id, use)
<1>1. CASE use.kind = "text"
  <2> DEFINE b == d_allocate_string_literal_in_data(c, use.name)
             meta == d_link_new_meta("LITERAL", use.name, Unknown)
  <2>1. Made(mem, id, b) /\ Grown(c, b) /\ HasEntry(b.link, "LITERAL", use.name)
    BY LiteralMade
  <2>2. IsEntry(meta) /\ meta.type = "LITERAL" /\ meta.name = use.name
    BY DEF IsEntry, d_link_new_meta
  <2>3. d = d_add_link_to_ins(b, meta, use)
    BY <1>1 DEF AddUse
  <2> HIDE DEF b, meta, d
  <2>4. Made(mem, id, d) /\ Grown(b, d)
    BY <1>1, <2>1, <2>2, <2>3, LinkMade
  <2> QED
    BY <2>1, <2>4, GrownFurther DEF d
<1>2. CASE use.kind # "text"
  <2> DEFINE def  == d_get_definition(mem, id, use.name)
             type == LinkTypeOf(mem, def)
             meta == d_link_new_meta(type, use.name, def)
  <2>1. Meant(mem, id, use.name) = {def} /\ use.kind = "name"
    BY <1>2, DefinitionIs DEF UseFits, Loading
  <2>2. /\ IsEntry(meta) /\ meta.type = type /\ meta.name = use.name /\ meta.meta = def
        /\ meta.ptr = NotFound
    BY DEF IsEntry, d_link_new_meta
  <2>3. d = d_add_link_to_ins(c, meta, use)
    BY <1>2 DEF AddUse
  <2> HIDE DEF def, meta, d
  <2>4. PICK i \in Within(mem, id) : def \in DefinedAt(mem, i, use.name)
    BY <2>1, MeantIs
  <2>5. /\ def.sheet = i
        /\ \/ /\ def.kind = "variable" /\ def.index \in DOMAIN mem[i].vars
              /\ mem[i].vars[def.index].name = use.name
              /\ def = [kind |-> "variable", sheet |-> i, index |-> def.index]
              /\ type = VariableLink(mem[i].vars[def.index])
           \/ /\ def.kind = "function" /\ def.index \in DOMAIN mem[i].funcs
              /\ mem[i].funcs[def.index].name = use.name
              /\ def = [kind |-> "function", sheet |-> i, index |-> def.index]
              /\ type = "FUNCTION"
           \/ def.kind = "cFunction" /\ type = "CFUNCTION"
    BY <2>4, DefinedAtIs DEF LinkTypeOf
  <2>6. \A v : VariableLink(v) \in {"VARIABLE", "POINTER"}
    BY DEF VariableLink
  <2>7. type \in {"VARIABLE", "POINTER", "FUNCTION", "CFUNCTION"}
    BY <2>5, <2>6
  <2>8. OneMeant(mem, id, meta)
    BY <2>1, <2>2 DEF OneMeant
  <2> HIDE DEF type
  <2>9. SameSource(mem[id], c)
    BY DEF Made
  <2>10. HasEntry(c.link, meta.type, meta.name) \/ EntryMade(mem, id, c, meta)
    <3>1. CASE type = "CFUNCTION"
      BY <2>2, <2>8, <3>1 DEF EntryMade, LinkTypes, Unplaced
    <3>2. CASE type = "FUNCTION"
      <4>1. CASE i = id
        <5>1. FuncOwn(c, id, meta)
          BY <2>2, <2>5, <2>6, <2>9, <3>2, <4>1 DEF FuncOwn, SameSource, SameThings
        <5> QED
          BY <2>2, <2>8, <3>2, <5>1 DEF EntryMade, LinkTypes
      <4>2. CASE i # id
        BY <2>2, <2>5, <2>8, <3>2, <4>2 DEF EntryMade, LinkTypes, Foreign, Unplaced
      <4> QED
        BY <4>1, <4>2
    <3>3. CASE type \in {"VARIABLE", "POINTER"}
      <4>1. CASE i = id
        <5>1. def.index \in DOMAIN c.vars /\ VarListed(c, def.index)
          BY <2>5, <2>9, <3>3, <4>1 DEF SameSource, SameThings, Made
        <5>2. c.vars[def.index].name = use.name /\ VariableLink(c.vars[def.index]) = type
          BY <2>5, <2>9, <3>3, <4>1 DEF SameSource, SameThings
        <5> QED
          BY <2>2, <5>1, <5>2 DEF VarListed
      <4>2. CASE i # id
        BY <2>2, <2>5, <2>8, <3>3, <4>2 DEF EntryMade, LinkTypes, Foreign, Unplaced
      <4> QED
        BY <4>1, <4>2
    <3> QED
      BY <2>7, <3>1, <3>2, <3>3
  <2>11. ASSUME NEW k \in DOMAIN c.link, c.link[k].type = meta.type, c.link[k].name = meta.name
         PROVE  c.link[k].meta = meta.meta
    <3>1. EntryMade(mem, id, c, c.link[k]) /\ c.link[k].type \notin {"LITERAL", "DEFAULT"}
      BY <2>2, <2>7, <2>11 DEF Made
    <3>2. OneMeant(mem, id, c.link[k]) \/ VarOwn(c, id, c.link[k])
      BY <3>1 DEF EntryMade, Foreign, Unplaced, LinkTypes
    <3>3. c.link[k].meta \in Meant(mem, id, c.link[k].name)
      BY <2>9, <3>2, VarOwnMeant DEF OneMeant
    <3> QED
      BY <2>1, <2>2, <2>11, <3>3
  <2>12. meta.type \notin {"LITERAL", "DEFAULT"}
    BY <2>2, <2>7
  <2>13. Made(mem, id, d) /\ Grown(c, d)
    BY <2>1, <2>2, <2>3, <2>10, <2>11, <2>12, LinkMade
  <2> QED
    BY <2>13 DEF d
<1> QED
  BY <1>1, <1>2

(* All uses of some code, one after the other.                             *)
LEMMA UsesAre ==
  ASSUME NEW mem, NEW c, NEW id, NEW uses, Len(uses) \in Nat
  PROVE  \E f : /\ f[0] = c /\ Uses(mem, c, id, uses) = f[Len(uses)]
                /\ \A k \in 1..Len(uses) : f[k] = AddUse(mem, f[k - 1], id, uses[k])
<1> DEFINE N == Len(uses)
           G(f) == f = [k \in 0..N |-> IF k = 0 THEN c ELSE AddUse(mem, f[k - 1], id, uses[k])]
           Q(m, f) == f[0] = c /\ \A k \in 1..m : f[k] = AddUse(mem, f[k - 1], id, uses[k])
           T == {m \in 0..N : \E f : Q(m, f)}
<1>1. 0 \in T
  <2> DEFINE f == [k \in {0} |-> c]
  <2>1. Q(0, f)
    OBVIOUS
  <2> HIDE DEF Q, f
  <2> QED
    BY <2>1
<1>2. ASSUME NEW m \in 0..(N - 1), m \in T
      PROVE  m + 1 \in T
  <2>1. PICK f : Q(m, f)
    BY <1>2
  <2> DEFINE g == [k \in 0..(m + 1) |-> IF k = m + 1 THEN AddUse(mem, f[m], id, uses[m + 1]) ELSE f[k]]
  <2>2. g[0] = c
    BY <2>1
  <2>3. ASSUME NEW k \in 1..(m + 1)
        PROVE  g[k] = AddUse(mem, g[k - 1], id, uses[k])
    <3>1. CASE k = m + 1
      <4>1. g[k - 1] = f[m]
        BY <3>1
      <4> QED
        BY <3>1, <4>1
    <3>2. CASE k # m + 1
      <4>1. k \in 1..m /\ g[k] = f[k] /\ g[k - 1] = f[k - 1]
        BY <3>2
      <4> QED
        BY <2>1, <4>1
    <3> QED
      BY <3>1, <3>2
  <2> HIDE DEF g
  <2>4. Q(m + 1, g)
    BY <2>2, <2>3
  <2> HIDE DEF Q
  <2> QED
    BY <2>4
<1>3. N \in T
  <2> HIDE DEF T
  <2>1. 0..N \subseteq T
    BY <1>1, <1>2, CountUp, Zenon
  <2> QED
    BY <2>1
<1>4. PICK f : Q(N, f)
  BY <1>3
<1> DEFINE h == [k \in 0..N |-> f[k]]
<1>5. G(h)
  <2>1. \A k \in 1..N : h[k] = f[k] /\ h[k - 1] = f[k - 1]
    OBVIOUS
  <2>2. \A k \in 0..N : h[k] = IF k = 0 THEN c ELSE AddUse(mem, h[k - 1], id, uses[k])
    BY <1>4, <2>1
  <2> QED
    BY <2>2
<1>6. PICK g : g = CHOOSE x : G(x)
  OBVIOUS
<1> HIDE DEF h
<1>7. G(g)
  BY <1>5, <1>6, Zenon
<1>8. Uses(mem, c, id, uses) = g[N]
  BY <1>6 DEF Uses, AfterAll
<1>9. g[0] = c /\ \A k \in 1..N : g[k] = AddUse(mem, g[k - 1], id, uses[k])
  BY <1>7
<1> QED
  BY <1>8, <1>9

(* All instructions of a function are made.                                *)
LEMMA UsesMade ==
  ASSUME NEW mem, NEW n, NEW id, Loading(mem, n, id), NEW c, Made(mem, id, c),
         NEW uses, Len(uses) \in Nat, \A k \in 1..Len(uses) : UseFits(mem, id, uses[k])
  PROVE  LET d == Uses(mem, c, id, uses)
         IN  Made(mem, id, d) /\ Grown(c, d)
<1>1. PICK f : /\ f[0] = c /\ Uses(mem, c, id, uses) = f[Len(uses)]
               /\ \A k \in 1..Len(uses) : f[k] = AddUse(mem, f[k - 1], id, uses[k])
  BY UsesAre
<1> DEFINE T == {m \in 0..Len(uses) : Made(mem, id, f[m]) /\ Grown(c, f[m])}
<1>2. 0 \in T
  BY <1>1, GrownNot
<1>3. ASSUME NEW m \in 0..(Len(uses) - 1), m \in T
      PROVE  m + 1 \in T
  <2>1. m + 1 \in 1..Len(uses) /\ (m + 1) - 1 = m
    OBVIOUS
  <2>2. f[m + 1] = AddUse(mem, f[m], id, uses[m + 1]) /\ UseFits(mem, id, uses[m + 1])
    BY <1>1, <2>1
  <2>3. Made(mem, id, f[m]) /\ Grown(c, f[m])
    BY <1>3
  <2>4. Made(mem, id, f[m + 1]) /\ Grown(f[m], f[m + 1])
    BY <2>2, <2>3, AddUseMade
  <2> QED
    BY <2>1, <2>3, <2>4, GrownFurther
<1>4. Len(uses) \in T
  <2> HIDE DEF T
  <2>1. 0..Len(uses) \subseteq T
    BY <1>2, <1>3, CountUp, Zenon
  <2> QED
    BY <2>1
<1> QED
  BY <1>1, <1>4

(* The place of a function begins with its name.                           *)
LEMMA BegunMade ==
  ASSUME NEW mem, NEW id, NEW c, Made(mem, id, c), NEW name
  PROVE  /\ Made(mem, id, Begun(c, name)) /\ Grown(c, Begun(c, name))
         /\ Len(c.text) + 1 \in DOMAIN Begun(c, name).text
         /\ Begun(c, name).text[Len(c.text) + 1].of = name
<1> DEFINE d   == Begun(c, name)
           ins == [of |-> name, imm |-> NotFound]
<1>1. CodeListed(c)
  BY DEF Made
<1>2. /\ IsSheet(d) /\ SameSource(c, d) /\ d.data = c.data /\ d.link = c.link
      /\ d.insLinks = c.insLinks /\ d.text = Append(c.text, ins)
  BY <1>1, SMTT(30) DEF CodeListed, IsSheet, Begun, SameSource, SameThings
<1> HIDE DEF d
<1>3. IsIns(ins) /\ ins.of = name
  BY DEF IsIns
<1> HIDE DEF ins
<1>4. /\ Listed(d.text) /\ DOMAIN d.text = 1..(Len(c.text) + 1) /\ d.text[Len(c.text) + 1] = ins
      /\ \A i \in 1..Len(c.text) : d.text[i] = c.text[i]
      /\ DOMAIN c.text = 1..Len(c.text) /\ Len(c.text) \in Nat
  BY <1>1, <1>2, Appended, ListedIs DEF CodeListed
<1>5. CodeListed(d)
  <2>1. ASSUME NEW j \in DOMAIN d.text
        PROVE  IsIns(d.text[j])
    <3>1. j = Len(c.text) + 1 \/ j \in 1..Len(c.text)
      BY <1>4
    <3> QED
      BY <1>1, <1>3, <1>4, <3>1 DEF CodeListed
  <2> QED
    BY <1>1, <1>2, <1>4, <2>1 DEF CodeListed
<1>6. Grown(c, d)
  <2>1. TextGrown(c.text, d.text)
    BY <1>1, <1>2, AppendDataGrown DEF CodeListed
  <2>2. DataGrown(c.data, d.data) /\ LinkGrown(c.link, d.link)
    BY <1>2 DEF DataGrown, LinkGrown
  <2> QED
    BY <1>2, <2>1, <2>2 DEF Grown
<1>7. \A k \in DOMAIN d.link : EntryMade(mem, id, d, d.link[k])
  BY <1>2, <1>6, GrownEntry DEF Made
<1>8. \A k \in DOMAIN d.insLinks : UseMade(mem, id, d, d.insLinks[k])
  BY <1>2, <1>6, GrownUse DEF Made
<1>9. Made(mem, id, d)
  BY <1>2, <1>5, <1>6, <1>7, <1>8, MadeFurther, Zenon DEF Made
<1>10. Len(c.text) + 1 \in DOMAIN d.text /\ d.text[Len(c.text) + 1].of = name
  BY <1>3, <1>4
<1> QED
  BY <1>6, <1>9, <1>10 DEF d

(* A function that the sheet alone defines.                                *)
FuncFits(mem, id, i) ==
  LET f == mem[id].funcs[i]
  IN  /\ Len(f.uses) \in Nat /\ \A k \in 1..Len(f.uses) : UseFits(mem, id, f.uses[k])
      /\ d_get_definition(mem, id, f.name) # Unknown

(* The name of a function means that function.                             *)
LEMMA OwnFunction ==
  ASSUME NEW mem, NEW n, NEW id, Loading(mem, n, id), NEW i \in DOMAIN mem[id].funcs, FuncFits(mem, id, i)
  PROVE  Meant(mem, id, mem[id].funcs[i].name) = {[kind |-> "function", sheet |-> id, index |-> i]}
<1> DEFINE name == mem[id].funcs[i].name
           own  == [kind |-> "function", sheet |-> id, index |-> i]
<1>1. Meant(mem, id, name) = {d_get_definition(mem, id, name)}
  BY DefinitionIs DEF FuncFits, Loading
<1>2. own \in DefinedAt(mem, id, name)
  BY DefinedAtIs
<1>3. own \in Meant(mem, id, name)
  BY <1>2, OwnIsMeant
<1> QED
  BY <1>1, <1>3

(* A function that is called before it is written has its entry.           *)
Entered(c, id, i, name) ==
  IF EntryOf(c.link, "FUNCTION", name) # 0 THEN c
  ELSE [c EXCEPT !.link = Append(c.link, d_link_new_meta("FUNCTION", name,
          [kind |-> "function", sheet |-> id, index |-> i]))]

(* A function is entered into the link list.                               *)
LEMMA EnteredMade ==
  ASSUME NEW mem, NEW n, NEW id, Loading(mem, n, id), NEW c, Made(mem, id, c),
         NEW i \in DOMAIN mem[id].funcs, FuncFits(mem, id, i), NEW name, name = mem[id].funcs[i].name
  PROVE  LET d == Entered(c, id, i, name)
         IN  /\ Made(mem, id, d) /\ Grown(c, d) /\ d.text = c.text
             /\ EntryOf(d.link, "FUNCTION", name) # 0
<1> DEFINE d   == Entered(c, id, i, name)
           own == [kind |-> "function", sheet |-> id, index |-> i]
           l   == d_link_new_meta("FUNCTION", name, own)
           e   == EntryOf(c.link, "FUNCTION", name)
<1>1. CodeListed(c) /\ Listed(c.link) /\ IsSheet(c) /\ SameSource(mem[id], c)
  BY DEF Made, CodeListed
<1>2. CASE e # 0
  BY <1>2, GrownNot DEF Entered
<1>3. CASE e = 0
  <2>1. /\ IsSheet(d) /\ SameSource(c, d) /\ d.link = Append(c.link, l) /\ d.text = c.text
        /\ d.data = c.data /\ d.insLinks = c.insLinks
    BY <1>1, <1>3, Zenon DEF IsSheet, SameSource, SameThings, Entered
  <2> HIDE DEF d
  <2>2. /\ IsEntry(l) /\ l.type = "FUNCTION" /\ l.name = name /\ l.meta = own /\ l.ptr = NotFound
    BY DEF IsEntry, d_link_new_meta
  <2> HIDE DEF l
  <2>3. ~HasEntry(c.link, l.type, l.name)
    BY <1>1, <1>3, <2>2, EntryOfIs DEF HasEntry
  <2>4. Listed(d.link) /\ LinkGrown(c.link, d.link)
    BY <1>1, <2>1, Appended, AppendLinkGrown
  <2>5. CodeListed(d)
    <3>1. \A k \in DOMAIN d.link : d.link[k] = l \/ (k \in DOMAIN c.link /\ d.link[k] = c.link[k])
      BY <1>1, <2>1, AppendLinkGrown
    <3>2. \A k \in DOMAIN d.link : IsEntry(d.link[k])
      BY <1>1, <2>2, <3>1 DEF CodeListed
    <3> QED
      BY <1>1, <2>1, <2>4, <3>2 DEF CodeListed
  <2>6. Grown(c, d)
    <3>1. TextGrown(c.text, d.text) /\ DataGrown(c.data, d.data)
      BY <2>1 DEF TextGrown, DataGrown
    <3> QED
      BY <2>1, <2>4, <3>1 DEF Grown
  <2>7. EntryMade(mem, id, d, l)
    <3>1. FuncOwn(d, id, l)
      BY <1>1, <2>1, <2>2 DEF FuncOwn, SameSource, SameThings
    <3>2. Meant(mem, id, l.name) = {own}
      BY <2>2, OwnFunction
    <3>3. LinkTypeOf(mem, own) = "FUNCTION"
      BY DEF LinkTypeOf
    <3> QED
      BY <2>2, <3>1, <3>2, <3>3 DEF EntryMade, LinkTypes, OneMeant
  <2>8. Made(mem, id, d)
    BY <2>1, <2>3, <2>5, <2>6, <2>7, EntryAdded
  <2>9. EntryOf(d.link, "FUNCTION", name) # 0
    <3>1. Len(c.link) + 1 \in DOMAIN d.link /\ d.link[Len(c.link) + 1] = l
      BY <1>1, <2>1, Appended DEF Listed
    <3>2. EntryOf(d.link, "FUNCTION", name) = 0 =>
            \A k \in DOMAIN d.link : ~(d.link[k].type = "FUNCTION" /\ d.link[k].name = name)
      BY <2>4, EntryOfIs
    <3>3. d.link[Len(c.link) + 1].type = "FUNCTION" /\ d.link[Len(c.link) + 1].name = name
      BY <2>2, <3>1
    <3> QED
      BY <3>1, <3>2, <3>3
  <2> QED
    BY <2>1, <2>6, <2>8, <2>9 DEF d
<1> QED
  BY <1>2, <1>3

(* An entry of the sheet's own function is given its place.                *)
LEMMA AtMade ==
  ASSUME NEW mem, NEW n, NEW id, Loading(mem, n, id), NEW c, Made(mem, id, c),
         NEW i \in DOMAIN mem[id].funcs, FuncFits(mem, id, i), NEW name, name = mem[id].funcs[i].name,
         NEW p \in DOMAIN c.text, c.text[p].of = name,
         NEW e, e = EntryOf(c.link, "FUNCTION", name), e # 0,
         NEW d, d = [c EXCEPT !.link[e].ptr = Index(p)]
  PROVE  Made(mem, id, d) /\ Grown(c, d) /\ FuncDone(d, i)
<1> DEFINE own == [kind |-> "function", sheet |-> id, index |-> i]
           l   == [type |-> "FUNCTION", name |-> name, meta |-> own, ptr |-> Index(p)]
<1>1. CodeListed(c) /\ Listed(c.link) /\ IsSheet(c) /\ SameSource(mem[id], c)
  BY DEF Made, CodeListed
<1>2. e \in DOMAIN c.link /\ c.link[e].type = "FUNCTION" /\ c.link[e].name = name
  BY <1>1, EntryOfIs
<1>3. IsEntry(c.link[e]) /\ EntryMade(mem, id, c, c.link[e])
  BY <1>1, <1>2 DEF Made, CodeListed
<1>4. Meant(mem, id, name) = {own} /\ OneMeant(mem, id, c.link[e])
  BY <1>2, <1>3, OwnFunction, Zenon DEF EntryMade, Foreign, Unplaced
<1>5. c.link[e].meta = own /\ LinkTypeOf(mem, own) = "FUNCTION"
  BY <1>2, <1>4, Zenon DEF OneMeant
<1>6. [c.link[e] EXCEPT !.ptr = Index(p)] = l
  <2>1. PICK x : x = c.link[e]
    OBVIOUS
  <2>2. x = [type |-> "FUNCTION", name |-> name, meta |-> own, ptr |-> x.ptr]
    BY <1>2, <1>3, <1>5, <2>1, Zenon DEF IsEntry
  <2>3. [x EXCEPT !.ptr = Index(p)] = l
    BY <2>2
  <2> QED
    BY <2>1, <2>3
<1>7. /\ IsSheet(d) /\ SameSource(c, d) /\ d.link = [c.link EXCEPT ![e] = l] /\ d.text = c.text
      /\ d.data = c.data /\ d.insLinks = c.insLinks
  BY <1>1, <1>2, <1>6 DEF IsSheet, SameSource, SameThings
<1>8. /\ IsEntry(l) /\ l.type = "FUNCTION" /\ l.name = name /\ l.meta = own /\ l.ptr = Index(p)
      /\ l.ptr # NotFound
  BY DEF IsEntry, Index, NotFound
<1> HIDE DEF l
<1>9. /\ DOMAIN d.link = DOMAIN c.link /\ d.link[e] = l
      /\ \A k \in DOMAIN d.link : k # e => d.link[k] = c.link[k]
  BY <1>2, <1>7, ZenonT(40)
<1>10. Listed(d.link)
  <2>1. Len(c.link) \in Nat /\ d.link = [k \in 1..Len(c.link) |-> d.link[k]]
    BY <1>1, <1>7, ListedIs, Zenon
  <2> QED
    BY <2>1, ArrayListed, Zenon
<1>11. CodeListed(d)
  <2>1. \A k \in DOMAIN d.link : IsEntry(d.link[k])
    BY <1>1, <1>8, <1>9 DEF CodeListed
  <2> QED
    BY <1>1, <1>7, <1>10, <2>1, Zenon DEF CodeListed
<1>12. Grown(c, d)
  <2>1. TextGrown(c.text, d.text) /\ DataGrown(c.data, d.data)
    BY <1>7, Zenon DEF TextGrown, DataGrown
  <2>2. LinkGrown(c.link, d.link)
    BY <1>2, <1>5, <1>8, <1>9, Zenon DEF LinkGrown
  <2> QED
    BY <1>7, <2>1, <2>2, Zenon DEF Grown
<1>13. \A k \in DOMAIN d.link : EntryMade(mem, id, d, d.link[k])
  <2>1. EntryMade(mem, id, d, l)
    <3>1. FuncOwn(d, id, l) /\ FuncPlaced(d, l)
      <4>1. d.funcs = mem[id].funcs
        BY <1>1, <1>7, Zenon DEF SameSource, SameThings
      <4>2. FuncOwn(d, id, l)
        BY <1>8, <4>1 DEF FuncOwn
      <4>3. d.text = c.text
        BY <1>7, Zenon
      <4>4. FuncPlaced(d, l)
        BY <1>8, <4>3 DEF FuncPlaced
      <4> QED
        BY <4>2, <4>4
    <3>2. OneMeant(mem, id, l)
      BY <1>4, <1>5, <1>8, Zenon DEF OneMeant
    <3> QED
      BY <1>8, <3>1, <3>2 DEF EntryMade, LinkTypes
  <2> QED
    BY <1>9, <1>12, <2>1, GrownEntry, ZenonT(40) DEF Made
<1>14. Unique(d.link)
  <2>1. \A k \in DOMAIN d.link : d.link[k].type = c.link[k].type /\ d.link[k].name = c.link[k].name
    BY <1>2, <1>8, <1>9, Zenon
  <2> QED
    BY <1>9, <2>1, ZenonT(40) DEF Unique, Made
<1>15. \A k \in DOMAIN d.insLinks : UseMade(mem, id, d, d.insLinks[k])
  <2>1. d.insLinks = c.insLinks
    BY <1>7, Zenon
  <2> QED
    BY <1>12, <2>1, GrownUse DEF Made
<1>16. Made(mem, id, d)
  BY <1>7, <1>11, <1>12, <1>13, <1>14, <1>15, MadeFurther, Zenon DEF Made
<1>17. FuncDone(d, i)
  <2>1. d.funcs[i].name = name
    BY <1>1, <1>7, Zenon DEF SameSource, SameThings
  <2> QED
    BY <1>2, <1>8, <1>9, <2>1, Zenon DEF FuncDone
<1> QED
  BY <1>12, <1>16, <1>17, Zenon

(* A function is made.                                                     *)
LEMMA AddFunctionMade ==
  ASSUME NEW mem, NEW n, NEW id, Loading(mem, n, id), NEW c, Made(mem, id, c),
         NEW i \in DOMAIN mem[id].funcs, FuncFits(mem, id, i)
  PROVE  LET d == AddFunction(mem, c, id, i)
         IN  Made(mem, id, d) /\ Grown(c, d) /\ FuncDone(d, i)
<1> DEFINE f == mem[id].funcs[i]
           b == Begun(c, f.name)
           u == Uses(mem, b, id, f.uses)
           g == Entered(u, id, i, f.name)
           e == EntryOf(g.link, "FUNCTION", f.name)
           d == [g EXCEPT !.link[e].ptr = Index(Len(c.text) + 1)]
<1>1. d = AddFunction(mem, c, id, i)
  <2>1. c.funcs[i] = f
    BY DEF Made, SameSource, SameThings
  <2> QED
    BY <2>1 DEF AddFunction, Entered
<1>2. /\ Made(mem, id, b) /\ Grown(c, b) /\ Len(c.text) + 1 \in DOMAIN b.text
      /\ b.text[Len(c.text) + 1].of = f.name
  BY BegunMade
<1> HIDE DEF b
<1>3. Made(mem, id, u) /\ Grown(b, u)
  BY <1>2, UsesMade DEF FuncFits
<1>4. Len(c.text) + 1 \in DOMAIN u.text /\ u.text[Len(c.text) + 1].of = f.name
  BY <1>2, <1>3 DEF Grown, TextGrown
<1> HIDE DEF u
<1>5. Made(mem, id, g) /\ Grown(u, g) /\ g.text = u.text /\ e # 0
  BY <1>3, EnteredMade
<1> HIDE DEF g
<1>6. Made(mem, id, d) /\ Grown(g, d) /\ FuncDone(d, i)
  <2> HIDE DEF f
  <2>1. f = mem[id].funcs[i]
    BY DEF f
  <2> HIDE DEF e
  <2>2. e = EntryOf(g.link, "FUNCTION", f.name)
    BY DEF e
  <2> QED
    BY <1>4, <1>5, <2>1, <2>2, AtMade
<1> HIDE DEF d
<1>7. Grown(c, d)
  BY <1>2, <1>3, <1>5, <1>6, GrownFurther
<1> QED
  BY <1>1, <1>6, <1>7

(* All functions of a sheet, one after the other.                          *)
LEMMA FunctionsAre ==
  ASSUME NEW mem, NEW c, NEW id, Listed(c.funcs)
  PROVE  \E f : /\ f[0] = c /\ CustomFunctions(mem, c, id) = f[Len(c.funcs)]
                /\ \A k \in 1..Len(c.funcs) : f[k] = AddFunction(mem, f[k - 1], id, k)
<1> DEFINE idx == [i \in DOMAIN c.funcs |-> i]
           N == Len(idx)
           G(f) == f = [k \in 0..N |-> IF k = 0 THEN c ELSE AddFunction(mem, f[k - 1], id, idx[k])]
           Q(m, f) == f[0] = c /\ \A k \in 1..m : f[k] = AddFunction(mem, f[k - 1], id, idx[k])
           T == {m \in 0..N : \E f : Q(m, f)}
<1>0. N = Len(c.funcs) /\ N \in Nat /\ \A k \in 1..N : idx[k] = k
  <2>1. Len(c.funcs) \in Nat /\ DOMAIN c.funcs = 1..Len(c.funcs)
    BY ListedIs
  <2>2. idx = [k \in 1..Len(c.funcs) |-> idx[k]]
    BY <2>1
  <2>3. N = Len(c.funcs)
    BY <2>1, <2>2, ArrayListed
  <2> QED
    BY <2>1, <2>3
<1>1. 0 \in T
  <2> DEFINE f == [k \in {0} |-> c]
  <2>1. Q(0, f)
    OBVIOUS
  <2> HIDE DEF Q, f
  <2> QED
    BY <2>1
<1> HIDE DEF idx
<1>2. ASSUME NEW m \in 0..(N - 1), m \in T
      PROVE  m + 1 \in T
  <2>1. PICK f : Q(m, f)
    BY <1>2
  <2> DEFINE g == [k \in 0..(m + 1) |-> IF k = m + 1 THEN AddFunction(mem, f[m], id, idx[m + 1]) ELSE f[k]]
  <2>2. g[0] = c
    BY <2>1
  <2>3. ASSUME NEW k \in 1..(m + 1)
        PROVE  g[k] = AddFunction(mem, g[k - 1], id, idx[k])
    <3>1. CASE k = m + 1
      <4>1. g[k - 1] = f[m]
        BY <3>1
      <4> QED
        BY <3>1, <4>1
    <3>2. CASE k # m + 1
      <4>1. k \in 1..m /\ g[k] = f[k] /\ g[k - 1] = f[k - 1]
        BY <3>2
      <4> QED
        BY <2>1, <4>1
    <3> QED
      BY <3>1, <3>2
  <2> HIDE DEF g
  <2>4. Q(m + 1, g)
    BY <2>2, <2>3
  <2> HIDE DEF Q
  <2> QED
    BY <2>4
<1>3. N \in T
  <2> HIDE DEF T
  <2>1. 0..N \subseteq T
    BY <1>0, <1>1, <1>2, CountUp, Zenon
  <2> QED
    BY <2>1
<1>4. PICK f : Q(N, f)
  BY <1>3
<1> DEFINE h == [k \in 0..N |-> f[k]]
<1>5. G(h)
  <2>1. \A k \in 1..N : h[k] = f[k] /\ h[k - 1] = f[k - 1]
    OBVIOUS
  <2>2. \A k \in 0..N : h[k] = IF k = 0 THEN c ELSE AddFunction(mem, h[k - 1], id, idx[k])
    BY <1>4, <2>1
  <2> QED
    BY <2>2
<1>6. PICK g : g = CHOOSE x : G(x)
  OBVIOUS
<1> HIDE DEF h
<1>7. G(g)
  BY <1>5, <1>6, Zenon
<1>8. CustomFunctions(mem, c, id) = g[N]
  BY <1>6 DEF CustomFunctions, AfterAll, idx
<1>9. g[0] = c /\ \A k \in 1..N : g[k] = AddFunction(mem, g[k - 1], id, idx[k])
  BY <1>7
<1> QED
  BY <1>0, <1>8, <1>9

(* All functions of a sheet are made.                                      *)
LEMMA FunctionsMade ==
  ASSUME NEW mem, NEW n, NEW id, Loading(mem, n, id), NEW c, Made(mem, id, c), Listed(mem[id].funcs),
         \A i \in DOMAIN mem[id].funcs : FuncFits(mem, id, i)
  PROVE  LET d == CustomFunctions(mem, c, id)
         IN  /\ Made(mem, id, d) /\ Grown(c, d)
             /\ \A i \in DOMAIN d.funcs : FuncDone(d, i)
<1> DEFINE N == Len(mem[id].funcs)
<1>1. c.funcs = mem[id].funcs
  BY DEF Made, SameSource, SameThings
<1>2. N \in Nat /\ DOMAIN mem[id].funcs = 1..N
  BY ListedIs
<1>3. PICK f : /\ f[0] = c /\ CustomFunctions(mem, c, id) = f[N]
               /\ \A k \in 1..N : f[k] = AddFunction(mem, f[k - 1], id, k)
  BY <1>1, FunctionsAre
<1> HIDE DEF N
<1> DEFINE T == {m \in 0..N : Made(mem, id, f[m]) /\ Grown(c, f[m]) /\ \A i \in 1..m : FuncDone(f[m], i)}
<1>4. 0 \in T
  BY <1>2, <1>3, GrownNot
<1>5. ASSUME NEW m \in 0..(N - 1), m \in T
      PROVE  m + 1 \in T
  <2>1. m + 1 \in 1..N /\ (m + 1) - 1 = m
    BY <1>2
  <2>2. f[m + 1] = AddFunction(mem, f[m], id, m + 1) /\ m + 1 \in DOMAIN mem[id].funcs
    BY <1>2, <1>3, <2>1
  <2>3. Made(mem, id, f[m]) /\ Grown(c, f[m]) /\ \A i \in 1..m : FuncDone(f[m], i)
    BY <1>5
  <2>4. Made(mem, id, f[m + 1]) /\ Grown(f[m], f[m + 1]) /\ FuncDone(f[m + 1], m + 1)
    BY <2>2, <2>3, AddFunctionMade
  <2>5. DOMAIN f[m].funcs = 1..N
    BY <1>2, <2>3 DEF Made, SameSource, SameThings
  <2>6. ASSUME NEW i \in 1..(m + 1)
        PROVE  FuncDone(f[m + 1], i)
    <3>1. CASE i = m + 1
      BY <2>4, <3>1
    <3>2. CASE i # m + 1
      <4>1. i \in 1..m /\ i \in 1..N
        BY <1>2, <2>1, <3>2
      <4> QED
        BY <2>3, <2>4, <2>5, <4>1, GrownListed, Zenon
    <3> QED
      BY <3>1, <3>2
  <2>7. Grown(c, f[m + 1])
    BY <2>3, <2>4, GrownFurther
  <2> QED
    BY <2>1, <2>4, <2>6, <2>7
<1>6. N \in T
  <2> HIDE DEF T
  <2>1. 0..N \subseteq T
    BY <1>2, <1>4, <1>5, CountUp
  <2> QED
    BY <1>2, <2>1
<1>7. Made(mem, id, f[N]) /\ Grown(c, f[N]) /\ \A i \in 1..N : FuncDone(f[N], i)
  BY <1>6
<1>8. f[N].funcs = mem[id].funcs
  BY <1>7 DEF Made, SameSource, SameThings
<1> QED
  BY <1>2, <1>3, <1>7, <1>8

-----------------------------------------------------------------------------
(***************************************************************************)
(* The variables of a sheet, of which the first n are made; entry x may    *)
(* be without its place, and is none if x = 0.                             *)
(***************************************************************************)
VarNamed(c, n, l) ==
  \/ l.type = "LITERAL"
  \/ l.type \in {"DEFAULT", "VARIABLE", "POINTER"} /\ \E i \in 1..n : c.vars[i].name = l.name

VarsMade(mem, id, c, n, x) ==
  /\ CodeListed(c) /\ SameSource(mem[id], c) /\ c.text = <<>> /\ c.insLinks = <<>>
  /\ Unique(c.link)
  /\ \A k \in DOMAIN c.link : /\ VarNamed(c, n, c.link[k])
                              /\ k # x => EntryMade(mem, id, c, c.link[k])

(* One entry is appended, or two.                                          *)
LEMMA JoinedOne ==
  ASSUME NEW s, Listed(s), NEW e
  PROVE  s \o <<e>> = Append(s, e)
<1> DEFINE t == s \o <<e>>
           u == Append(s, e)
<1>1. Listed(<<e>>) /\ Len(<<e>>) = 1 /\ <<e>>[1] = e
  BY DEF Listed
<1>2. /\ Listed(t) /\ Len(t) = Len(s) + 1 /\ \A i \in 1..Len(s) : t[i] = s[i]
      /\ t[Len(s) + 1] = e /\ Len(s) \in Nat
  BY <1>1, Joined DEF Listed
<1>3. /\ Listed(u) /\ Len(u) = Len(s) + 1 /\ \A i \in 1..Len(s) : u[i] = s[i]
      /\ u[Len(s) + 1] = e
  BY Appended
<1> HIDE DEF t, u
<1>4. \A i \in 1..(Len(s) + 1) : t[i] = u[i]
  <2>1. \A i \in 1..(Len(s) + 1) : i = Len(s) + 1 \/ i \in 1..Len(s)
    BY <1>2
  <2> QED
    BY <1>2, <1>3, <2>1
<1>5. t = u
  BY <1>2, <1>3, <1>4 DEF Listed
<1> QED
  BY <1>5 DEF t, u

(* Two entries are appended.                                               *)
LEMMA JoinedTwo ==
  ASSUME NEW s, Listed(s), NEW a, NEW b
  PROVE  s \o <<a, b>> = Append(Append(s, a), b)
<1> DEFINE t == s \o <<a, b>>
           r == Append(s, a)
           u == Append(r, b)
<1>1. Listed(<<a, b>>) /\ Len(<<a, b>>) = 2 /\ <<a, b>>[1] = a /\ <<a, b>>[2] = b
  BY DEF Listed
<1>2. /\ Listed(t) /\ Len(t) = Len(s) + 2 /\ \A i \in 1..Len(s) : t[i] = s[i]
      /\ t[Len(s) + 1] = a /\ t[Len(s) + 2] = b /\ Len(s) \in Nat
  BY <1>1, Joined DEF Listed
<1>3. /\ Listed(r) /\ Len(r) = Len(s) + 1 /\ \A i \in 1..Len(s) : r[i] = s[i]
      /\ r[Len(s) + 1] = a
  BY Appended
<1> HIDE DEF r, t
<1>4. /\ Listed(u) /\ Len(u) = Len(r) + 1 /\ \A i \in 1..Len(r) : u[i] = r[i]
      /\ u[Len(r) + 1] = b
  BY <1>3, Appended
<1> HIDE DEF u
<1>5. \A i \in 1..(Len(s) + 2) : t[i] = u[i]
  <2>1. \A i \in 1..(Len(s) + 2) : i = Len(s) + 2 \/ i = Len(s) + 1 \/ i \in 1..Len(s)
    BY <1>2
  <2>2. u[Len(s) + 2] = b /\ u[Len(s) + 1] = a /\ \A i \in 1..Len(s) : u[i] = s[i]
    BY <1>2, <1>3, <1>4
  <2> QED
    BY <1>2, <2>1, <2>2
<1>6. Len(u) = Len(t)
  BY <1>2, <1>3, <1>4
<1>7. t = u
  BY <1>2, <1>4, <1>5, <1>6 DEF Listed
<1> QED
  BY <1>7 DEF r, t, u

(* One more entry, and perhaps a cell.                                     *)
LEMMA EntryGrown ==
  ASSUME NEW c, CodeListed(c), NEW d, IsSheet(d), SameSource(c, d),
         NEW l, IsEntry(l), d.link = Append(c.link, l), NEW e, IsCell(e),
         d.data = c.data \/ d.data = Append(c.data, e),
         d.text = c.text, d.insLinks = c.insLinks
  PROVE  CodeListed(d) /\ Grown(c, d)
<1>1. Listed(d.link) /\ LinkGrown(c.link, d.link)
  BY Appended, AppendLinkGrown DEF CodeListed
<1>2. \A k \in DOMAIN d.link : IsEntry(d.link[k])
  <2>1. \A k \in DOMAIN d.link : d.link[k] = l \/ (k \in DOMAIN c.link /\ d.link[k] = c.link[k])
    BY AppendLinkGrown DEF CodeListed
  <2> QED
    BY <2>1 DEF CodeListed
<1>3. /\ Listed(d.data) /\ DataGrown(c.data, d.data)
      /\ \A j \in DOMAIN d.data : IsCell(d.data[j])
  <2>1. CASE d.data = c.data
    BY <2>1 DEF DataGrown, CodeListed
  <2>2. CASE d.data = Append(c.data, e)
    <3>1. Listed(d.data) /\ DataGrown(c.data, d.data)
      BY <2>2, Appended, AppendDataGrown DEF CodeListed
    <3>2. /\ DOMAIN d.data = 1..(Len(c.data) + 1) /\ d.data[Len(c.data) + 1] = e
          /\ \A i \in 1..Len(c.data) : d.data[i] = c.data[i]
          /\ DOMAIN c.data = 1..Len(c.data) /\ Len(c.data) \in Nat
      BY <2>2, Appended, ListedIs DEF CodeListed
    <3>3. ASSUME NEW j \in DOMAIN d.data
          PROVE  IsCell(d.data[j])
      <4>1. j = Len(c.data) + 1 \/ j \in 1..Len(c.data)
        BY <3>2
      <4> QED
        BY <3>2, <4>1 DEF CodeListed
    <3> QED
      BY <3>1, <3>3
  <2> QED
    BY <2>1, <2>2
<1>4. TextGrown(c.text, d.text)
  BY DEF TextGrown
<1>5. CodeListed(d)
  BY <1>1, <1>2, <1>3 DEF CodeListed
<1> QED
  BY <1>1, <1>3, <1>4, <1>5 DEF Grown

(* A variable that was come by remains so.                                 *)
LEMMA NamedFurther ==
  ASSUME NEW c, NEW d, d.vars = c.vars, NEW n \in Nat, NEW m \in Nat, n <= m, NEW l, VarNamed(c, n, l)
  PROVE  VarNamed(d, m, l)
<1>1. 1..n \subseteq 1..m
  OBVIOUS
<1> QED
  BY <1>1 DEF VarNamed

(* A variable's entry is added, x being the one that may lack a place.     *)
LEMMA VarEntryMade ==
  ASSUME NEW mem, NEW id, NEW c, NEW n \in Nat, NEW x, VarsMade(mem, id, c, n, x),
         NEW d, CodeListed(d), Grown(c, d), d.text = c.text, d.insLinks = c.insLinks,
         NEW l, d.link = Append(c.link, l), ~HasEntry(c.link, l.type, l.name),
         NEW m \in Nat, n <= m, VarNamed(d, m, l), NEW y,
         (x = 0 /\ y = Len(c.link) + 1) \/ (y = x /\ EntryMade(mem, id, d, l))
  PROVE  VarsMade(mem, id, d, m, y)
<1>1. Listed(c.link) /\ Unique(c.link) /\ d.vars = c.vars
  BY DEF VarsMade, CodeListed, Grown, SameSource, SameThings
<1>2. Unique(d.link)
  BY <1>1, AppendUnique
<1>3. /\ DOMAIN d.link = 1..(Len(c.link) + 1) /\ d.link[Len(c.link) + 1] = l
      /\ \A k \in 1..Len(c.link) : d.link[k] = c.link[k]
      /\ DOMAIN c.link = 1..Len(c.link) /\ Len(c.link) \in Nat
  BY <1>1, Appended, ListedIs
<1>4. ASSUME NEW k \in DOMAIN d.link
      PROVE  VarNamed(d, m, d.link[k]) /\ (k # y => EntryMade(mem, id, d, d.link[k]))
  <2>1. CASE k = Len(c.link) + 1
    BY <1>3, <2>1
  <2>2. CASE k \in 1..Len(c.link)
    <3>1. VarNamed(d, m, d.link[k])
      BY <1>1, <1>3, <2>2, NamedFurther DEF VarsMade
    <3>2. k # y => k # x
      BY <1>3, <2>2
    <3>3. k # x => EntryMade(mem, id, d, d.link[k])
      BY <1>3, <2>2, GrownEntry DEF VarsMade
    <3> QED
      BY <3>1, <3>2, <3>3
  <2> QED
    BY <1>3, <2>1, <2>2
<1>5. SameSource(mem[id], d)
  BY DEF VarsMade, Grown, SameSource, SameThings
<1> QED
  BY <1>2, <1>4, <1>5 DEF VarsMade

(* A cell of the data section, and the entries that name it.               *)
NewCell(c, link, is, of, val) == d_allocate_from_data_section([c EXCEPT !.link = link], is, of, val)

HasCell(c, d, link, is, of, val) ==
  /\ IsSheet(d) /\ SameSource(c, d) /\ d.link = link
  /\ d.data = Append(c.data, [is |-> is, of |-> of, val |-> val])
  /\ d.text = c.text /\ d.insLinks = c.insLinks

(* What it is to allocate a cell.                                          *)
LEMMA CellIs ==
  ASSUME NEW c, IsSheet(c), NEW is, NEW of, NEW val, NEW link
  PROVE  HasCell(c, NewCell(c, link, is, of, val), link, is, of, val)
<1> DEFINE d == NewCell(c, link, is, of, val)
           e == [is |-> is, of |-> of, val |-> val]
<1>1. d = [[c EXCEPT !.link = link] EXCEPT !.data = Append(c.data, e)]
  BY DEF IsSheet, NewCell, d_allocate_from_data_section
<1> HIDE DEF e, d
<1>2. /\ IsSheet(d) /\ SameSource(c, d) /\ d.link = link /\ d.data = Append(c.data, e)
      /\ d.text = c.text /\ d.insLinks = c.insLinks
  BY <1>1, Zenon DEF IsSheet, SameSource, SameThings
<1> QED
  BY <1>2 DEF e, d, HasCell

Distinct(list) == \A i, j \in DOMAIN list : list[i].name = list[j].name => i = j

OwnEntry(c, id, i) ==
  [type |-> VariableLink(c.vars[i]), name |-> c.vars[i].name,
   meta |-> [kind |-> "variable", sheet |-> id, index |-> i], ptr |-> Index(Len(c.data) + 1)]

(* The next variable: its own entry and its cell.                          *)
LEMMA OwnMade ==
  ASSUME NEW mem, NEW id, NEW c, NEW n \in Nat, VarsMade(mem, id, c, n, 0),
         n + 1 \in DOMAIN c.vars, Listed(c.vars), Distinct(c.vars),
         NEW d, IsSheet(d), SameSource(c, d), d.link = Append(c.link, OwnEntry(c, id, n + 1)),
         NEW val, d.data = Append(c.data, [is |-> "variable", of |-> c.vars[n + 1].name, val |-> val]),
         d.text = c.text, d.insLinks = c.insLinks
  PROVE  /\ VarsMade(mem, id, d, n + 1, 0) /\ Grown(c, d)
         /\ HasEntry(d.link, VariableLink(c.vars[n + 1]), c.vars[n + 1].name)
         /\ ~HasEntry(d.link, "DEFAULT", c.vars[n + 1].name)
<1> DEFINE v == c.vars[n + 1]
           l == OwnEntry(c, id, n + 1)
           e == [is |-> "variable", of |-> v.name, val |-> val]
<1>1. CodeListed(c) /\ IsSheet(c) /\ Listed(c.link) /\ Listed(c.data)
  BY DEF VarsMade, CodeListed
<1>2. /\ IsSheet(d) /\ SameSource(c, d) /\ d.link = Append(c.link, l) /\ d.data = Append(c.data, e)
      /\ d.text = c.text /\ d.insLinks = c.insLinks
  OBVIOUS
<1>3. /\ IsEntry(l) /\ l.type = VariableLink(v) /\ l.name = v.name /\ l.ptr = Index(Len(c.data) + 1)
      /\ l.meta = [kind |-> "variable", sheet |-> id, index |-> n + 1]
      /\ IsCell(e) /\ e.is = "variable" /\ e.of = v.name
  BY DEF IsEntry, IsCell, OwnEntry
<1>4. v.name = c.vars[n + 1].name /\ v = c.vars[n + 1]
  OBVIOUS
<1> HIDE DEF l, e, v
<1>5. CodeListed(d) /\ Grown(c, d)
  BY <1>1, <1>2, <1>3, EntryGrown
<1>6. l.type \in {"VARIABLE", "POINTER"}
  BY <1>3 DEF VariableLink
<1>0. ASSUME NEW k \in DOMAIN c.link, c.link[k].type \in {"DEFAULT", "VARIABLE", "POINTER"},
             c.link[k].name = v.name
      PROVE  FALSE
  <2>1. VarNamed(c, n, c.link[k])
    BY DEF VarsMade
  <2>2. PICK i \in 1..n : c.vars[i].name = v.name
    BY <1>0, <2>1, Zenon DEF VarNamed
  <2>3. DOMAIN c.vars = 1..Len(c.vars)
    BY ListedIs
  <2>4. i \in DOMAIN c.vars /\ i # n + 1
    BY <2>3, ListedIs
  <2> QED
    BY <1>4, <2>2, <2>4 DEF Distinct
<1>7. ~HasEntry(c.link, l.type, l.name)
  BY <1>0, <1>3, <1>6 DEF HasEntry
<1>8. d.vars = c.vars
  BY <1>2 DEF SameSource, SameThings
<1>9. VarNamed(d, n + 1, l)
  <2>1. n + 1 \in 1..(n + 1)
    OBVIOUS
  <2> QED
    BY <1>3, <1>4, <1>6, <1>8, <2>1 DEF VarNamed
<1>10. EntryMade(mem, id, d, l)
  <2>1. VarOwn(d, id, l)
    BY <1>3, <1>4, <1>8 DEF VarOwn
  <2>2. Len(c.data) + 1 \in DOMAIN d.data /\ d.data[Len(c.data) + 1] = e
    BY <1>1, <1>2, Appended DEF Listed
  <2>3. VarPlaced(d, l)
    BY <1>3, <2>2, Zenon DEF VarPlaced
  <2> QED
    BY <1>6, <2>1, <2>3 DEF EntryMade, LinkTypes
<1>11. VarsMade(mem, id, d, n + 1, 0)
  BY <1>2, <1>5, <1>7, <1>9, <1>10, VarEntryMade
<1>12. HasEntry(d.link, l.type, l.name)
  <2>1. Len(c.link) + 1 \in DOMAIN d.link /\ d.link[Len(c.link) + 1] = l
    BY <1>1, <1>2, Appended DEF Listed
  <2> QED
    BY <2>1, Zenon DEF HasEntry
<1>13. ~HasEntry(d.link, "DEFAULT", v.name)
  <2>1. \A k \in DOMAIN d.link : d.link[k] = l \/ (k \in DOMAIN c.link /\ d.link[k] = c.link[k])
    BY <1>1, <1>2, AppendLinkGrown
  <2> QED
    BY <1>0, <1>6, <2>1 DEF HasEntry
<1> QED
  BY <1>2, <1>3, <1>4, <1>5, <1>11, <1>12, <1>13 DEF l

(* Its default value has an entry, that is without its place yet.          *)
LEMMA DefaultMade ==
  ASSUME NEW mem, NEW id, NEW c, NEW n \in Nat, VarsMade(mem, id, c, n, 0),
         NEW name, \E i \in 1..n : c.vars[i].name = name, ~HasEntry(c.link, "DEFAULT", name), NEW meta,
         NEW d, IsSheet(d), SameSource(c, d),
         d.link = Append(c.link, d_link_new_meta("DEFAULT", name, meta)),
         d.data = c.data, d.text = c.text, d.insLinks = c.insLinks
  PROVE  /\ VarsMade(mem, id, d, n, Len(c.link) + 1) /\ Grown(c, d)
         /\ Len(c.link) + 1 \in DOMAIN d.link
         /\ d.link[Len(c.link) + 1] = d_link_new_meta("DEFAULT", name, meta)
<1> DEFINE l == d_link_new_meta("DEFAULT", name, meta)
<1>1. CodeListed(c) /\ IsSheet(c) /\ Listed(c.link)
  BY DEF VarsMade, CodeListed
<1>2. /\ IsSheet(d) /\ SameSource(c, d) /\ d.link = Append(c.link, l) /\ d.data = c.data
      /\ d.text = c.text /\ d.insLinks = c.insLinks
  OBVIOUS
<1>3. IsEntry(l) /\ l.type = "DEFAULT" /\ l.name = name
  BY DEF IsEntry, d_link_new_meta
<1> HIDE DEF l
<1>4. PICK e : IsCell(e)
  <2>1. IsCell([is |-> 1, of |-> 1, val |-> 1])
    BY DEF IsCell
  <2> QED
    BY <2>1
<1>5. CodeListed(d) /\ Grown(c, d)
  BY <1>1, <1>2, <1>3, <1>4, EntryGrown
<1>6. VarNamed(d, n, l)
  BY <1>2, <1>3 DEF VarNamed, SameSource, SameThings
<1>7. VarsMade(mem, id, d, n, Len(c.link) + 1)
  <2>1. PICK x, y : x = 0 /\ y = Len(c.link) + 1
    OBVIOUS
  <2>2. VarsMade(mem, id, c, n, x) /\ n <= n /\ ~HasEntry(c.link, l.type, l.name)
    BY <1>3, <2>1
  <2>3. VarsMade(mem, id, d, n, y)
    BY <1>2, <1>5, <1>6, <2>1, <2>2, VarEntryMade, Zenon
  <2> QED
    BY <2>1, <2>3
<1>8. Len(c.link) + 1 \in DOMAIN d.link /\ d.link[Len(c.link) + 1] = l
  BY <1>1, <1>2, Appended DEF Listed
<1> QED
  BY <1>5, <1>7, <1>8 DEF l

(* The text of it has an entry then.                                       *)
LEMMA TextMade ==
  ASSUME NEW mem, NEW id, NEW c, NEW n \in Nat, NEW x, VarsMade(mem, id, c, n, x), NEW text,
         NEW d, d = d_allocate_string_literal_in_data(c, text)
  PROVE  /\ VarsMade(mem, id, d, n, x) /\ Grown(c, d) /\ HasEntry(d.link, "LITERAL", text)
         /\ \A k \in DOMAIN c.link : k \in DOMAIN d.link /\ d.link[k] = c.link[k]
<1> DEFINE l == [type |-> "LITERAL", name |-> text, meta |-> Unknown, ptr |-> Index(Len(c.data) + 1)]
           cell == [is |-> "text", of |-> text, val |-> NotFound]
<1>1. CodeListed(c)
  BY DEF VarsMade
<1>2. \/ HasEntry(c.link, "LITERAL", text) /\ d = c
      \/ /\ ~HasEntry(c.link, "LITERAL", text)
         /\ d.link = Append(c.link, l) /\ d.data = Append(c.data, cell)
         /\ IsSheet(d) /\ SameSource(c, d) /\ d.text = c.text /\ d.insLinks = c.insLinks
  BY <1>1, LiteralIs
<1>3. CASE HasEntry(c.link, "LITERAL", text) /\ d = c
  BY <1>3, GrownNot
<1>4. CASE ~HasEntry(c.link, "LITERAL", text)
  <2>1. /\ d.link = Append(c.link, l) /\ d.data = Append(c.data, cell)
        /\ IsSheet(d) /\ SameSource(c, d) /\ d.text = c.text /\ d.insLinks = c.insLinks
    BY <1>2, <1>4
  <2>2. IsEntry(l) /\ IsCell(cell) /\ l.type = "LITERAL" /\ l.name = text /\ l.ptr = Index(Len(c.data) + 1)
    BY DEF IsEntry, IsCell
  <2>3. cell.is = "text" /\ cell.of = text
    OBVIOUS
  <2> HIDE DEF l, cell
  <2>4. CodeListed(d) /\ Grown(c, d)
    BY <1>1, <2>1, <2>2, EntryGrown, Zenon
  <2>5. EntryMade(mem, id, d, l)
    <3>1. Len(c.data) + 1 \in DOMAIN d.data /\ d.data[Len(c.data) + 1] = cell
      BY <1>1, <2>1, Appended DEF CodeListed, Listed
    <3>2. TextPlaced(d, l)
      BY <2>2, <2>3, <3>1 DEF TextPlaced
    <3> QED
      BY <2>2, <3>2 DEF EntryMade, LinkTypes
  <2>6. VarNamed(d, n, l)
    BY <2>2 DEF VarNamed
  <2>7. VarsMade(mem, id, d, n, x)
    BY <1>4, <2>1, <2>2, <2>4, <2>5, <2>6, VarEntryMade
  <2>8. /\ DOMAIN d.link = 1..(Len(c.link) + 1) /\ d.link[Len(c.link) + 1] = l
        /\ \A k \in 1..Len(c.link) : d.link[k] = c.link[k]
        /\ DOMAIN c.link = 1..Len(c.link) /\ Len(c.link) \in Nat
    BY <1>1, <2>1, Appended, ListedIs DEF CodeListed
  <2>9. HasEntry(d.link, "LITERAL", text)
    BY <2>2, <2>8 DEF HasEntry
  <2>10. \A k \in DOMAIN c.link : k \in DOMAIN d.link /\ d.link[k] = c.link[k]
    BY <2>8
  <2> QED
    BY <2>4, <2>7, <2>9, <2>10
<1> QED
  BY <1>2, <1>3, <1>4

(* The default value is given the place of its text.                       *)
LEMMA FoundMade ==
  ASSUME NEW mem, NEW id, NEW c, NEW n \in Nat, NEW x \in DOMAIN c.link, VarsMade(mem, id, c, n, x),
         c.link[x].type = "DEFAULT", NEW name, c.link[x].name = name, StringNamed(c, name),
         NEW text, HasEntry(c.link, "LITERAL", text),
         NEW d, d = [c EXCEPT !.link[EntryOf(c.link, "DEFAULT", name)].ptr =
                        c.link[EntryOf(c.link, "LITERAL", text)].ptr]
  PROVE  VarsMade(mem, id, d, n, 0) /\ Grown(c, d)
<1> DEFINE e == EntryOf(c.link, "LITERAL", text)
           l == [c.link[x] EXCEPT !.ptr = c.link[e].ptr]
<1>1. CodeListed(c) /\ Listed(c.link) /\ IsSheet(c) /\ Unique(c.link) /\ IsEntry(c.link[x])
  BY DEF VarsMade, CodeListed
<1>2. EntryOf(c.link, "DEFAULT", name) = x
  BY <1>1, EntryFound
<1>3. e \in DOMAIN c.link /\ c.link[e].type = "LITERAL"
  <2>1. /\ e # 0 => e \in DOMAIN c.link /\ c.link[e].type = "LITERAL" /\ c.link[e].name = text
        /\ e = 0 => \A k \in DOMAIN c.link : ~(c.link[k].type = "LITERAL" /\ c.link[k].name = text)
    BY <1>1, EntryOfIs
  <2> QED
    BY <2>1 DEF HasEntry
<1> HIDE DEF e
<1>4. d = [c EXCEPT !.link[x].ptr = c.link[e].ptr]
  BY <1>2 DEF e
<1>5. /\ IsSheet(d) /\ SameSource(c, d) /\ d.link = [c.link EXCEPT ![x] = l] /\ d.text = c.text
      /\ d.data = c.data /\ d.insLinks = c.insLinks
  BY <1>1, <1>4 DEF IsSheet, SameSource, SameThings
<1>6. PICK q \in DOMAIN c.data : c.link[e].ptr = Index(q) /\ c.data[q].is = "text"
  <2>1. EntryMade(mem, id, c, c.link[e])
    BY <1>3 DEF VarsMade
  <2> QED
    BY <1>3, <2>1 DEF EntryMade, TextPlaced
<1>7. /\ IsEntry(l) /\ l.type = "DEFAULT" /\ l.name = name /\ l.meta = c.link[x].meta
      /\ l.ptr = Index(q) /\ l.ptr # NotFound
  <2>1. PICK y : y = c.link[x]
    OBVIOUS
  <2>2. y = [type |-> y.type, name |-> y.name, meta |-> y.meta, ptr |-> y.ptr]
    BY <1>1, <2>1 DEF IsEntry
  <2>3. [y EXCEPT !.ptr = Index(q)] = [type |-> y.type, name |-> y.name, meta |-> y.meta, ptr |-> Index(q)]
    BY <2>2
  <2> QED
    BY <1>6, <2>1, <2>3 DEF IsEntry, Index, NotFound
<1> HIDE DEF l
<1>8. /\ DOMAIN d.link = DOMAIN c.link /\ d.link[x] = l
      /\ \A k \in DOMAIN d.link : k # x => d.link[k] = c.link[k]
  BY <1>5
<1>9. Listed(d.link)
  <2>1. Len(c.link) \in Nat /\ d.link = [k \in 1..Len(c.link) |-> d.link[k]]
    BY <1>1, <1>5, ListedIs, Zenon
  <2> QED
    BY <2>1, ArrayListed
<1>10. CodeListed(d)
  <2>1. \A k \in DOMAIN d.link : IsEntry(d.link[k])
    BY <1>1, <1>7, <1>8 DEF CodeListed
  <2> QED
    BY <1>1, <1>5, <1>9, <2>1 DEF CodeListed
<1>11. Grown(c, d)
  <2>1. TextGrown(c.text, d.text) /\ DataGrown(c.data, d.data)
    BY <1>5 DEF TextGrown, DataGrown
  <2>2. LinkGrown(c.link, d.link)
    BY <1>7, <1>8, Zenon DEF LinkGrown
  <2> QED
    BY <1>5, <2>1, <2>2 DEF Grown
<1>12. \A k \in DOMAIN d.link : /\ d.link[k].type = c.link[k].type /\ d.link[k].name = c.link[k].name
  BY <1>7, <1>8
<1>13. Unique(d.link)
  BY <1>1, <1>8, <1>12 DEF Unique
<1>14. d.vars = c.vars
  BY <1>5 DEF SameSource, SameThings
<1>15. \A k \in DOMAIN d.link : VarNamed(d, n, d.link[k])
  <2>1. \A k \in DOMAIN c.link : VarNamed(c, n, c.link[k])
    BY DEF VarsMade
  <2> QED
    BY <1>8, <1>12, <1>14, <2>1 DEF VarNamed
<1>16. EntryMade(mem, id, d, l)
  <2>1. TextPlaced(d, l)
    BY <1>5, <1>6, <1>7 DEF TextPlaced
  <2>2. StringNamed(d, l.name)
    BY <1>7, <1>14 DEF StringNamed
  <2> QED
    BY <1>7, <2>1, <2>2 DEF EntryMade, LinkTypes
<1>17. \A k \in DOMAIN d.link : EntryMade(mem, id, d, d.link[k])
  <2>1. \A k \in DOMAIN c.link : k # x => EntryMade(mem, id, c, c.link[k])
    BY DEF VarsMade
  <2> QED
    BY <1>8, <1>11, <1>16, <2>1, GrownEntry
<1>18. SameSource(mem[id], d)
  BY <1>5 DEF VarsMade, SameSource, SameThings
<1> QED
  BY <1>5, <1>10, <1>11, <1>13, <1>15, <1>17, <1>18 DEF VarsMade

(* A variable is laid out, and then all of them.                           *)
LEMMA VariableMade ==
  ASSUME NEW mem, NEW id, NEW c, NEW n \in Nat, VarsMade(mem, id, c, n, 0),
         n + 1 \in DOMAIN c.vars, Listed(c.vars), Distinct(c.vars),
         c.vars[n + 1].type \in {"Integer", "String"}
  PROVE  LET d == d_allocate_variable(c, id, n + 1)
         IN  VarsMade(mem, id, d, n + 1, 0) /\ Grown(c, d) /\ VarListed(d, n + 1)
<1> DEFINE v == c.vars[n + 1]
           d == d_allocate_variable(c, id, n + 1)
           own == OwnEntry(c, id, n + 1)
           meta == [kind |-> "variable", sheet |-> id, index |-> n + 1]
           def == d_link_new_meta("DEFAULT", v.name, meta)
           Cell(val, link) == NewCell(c, link, "variable", v.name, val)
<1>1. IsSheet(c) /\ Listed(c.link)
  BY DEF VarsMade, CodeListed
<1>2. [d_link_new_meta(VariableLink(v), v.name, meta) EXCEPT !.ptr = Index(Len(c.data) + 1)] = own
  BY DEF d_link_new_meta, OwnEntry
<1>3. CASE v.type = "Integer"
  <2> DEFINE link == Append(c.link, own)
             num == Number(v.value)
  <2>1. d = Cell(num, c.link \o <<own>>)
    BY <1>2, <1>3, Zenon DEF d_allocate_variable, NewCell
  <2>2. c.link \o <<own>> = link
    BY <1>1, JoinedOne
  <2> HIDE DEF num, d
  <2>3. /\ IsSheet(d) /\ SameSource(c, d) /\ d.link = link
        /\ d.data = Append(c.data, [is |-> "variable", of |-> v.name, val |-> num])
        /\ d.text = c.text /\ d.insLinks = c.insLinks
    <3>1. HasCell(c, d, link, "variable", v.name, num)
      BY <1>1, <2>1, <2>2, CellIs, Zenon
    <3> QED
      BY <3>1 DEF HasCell
  <2>4. /\ VarsMade(mem, id, d, n + 1, 0) /\ Grown(c, d)
        /\ HasEntry(d.link, VariableLink(c.vars[n + 1]), c.vars[n + 1].name)
    BY <2>3, OwnMade, Zenon
  <2>5. VarListed(d, n + 1)
    BY <1>3, <2>4 DEF VarListed, Grown, SameSource, SameThings
  <2> QED
    BY <2>4, <2>5 DEF d
<1>4. CASE v.type # "Integer"
  <2> DEFINE o == Cell(NotFound, Append(c.link, own))
             b == Cell(NotFound, Append(Append(c.link, own), def))
             t == d_allocate_string_literal_in_data(b, v.value)
             x == Len(o.link) + 1
  <2>1. d = [t EXCEPT !.link[EntryOf(t.link, "DEFAULT", v.name)].ptr =
                t.link[EntryOf(t.link, "LITERAL", v.value)].ptr]
    <3>1. c.link \o <<own, def>> = Append(Append(c.link, own), def)
      BY <1>1, JoinedTwo
    <3> QED
      BY <1>2, <1>4, <3>1, Zenon DEF d_allocate_variable, NewCell
  <2>2. /\ IsSheet(o) /\ SameSource(c, o) /\ o.link = Append(c.link, own)
        /\ o.data = Append(c.data, [is |-> "variable", of |-> v.name, val |-> NotFound])
        /\ o.text = c.text /\ o.insLinks = c.insLinks
    <3>1. HasCell(c, o, Append(c.link, own), "variable", v.name, NotFound)
      BY <1>1, CellIs
    <3> HIDE DEF o
    <3> QED
      BY <3>1 DEF HasCell
  <2>3. /\ IsSheet(b) /\ SameSource(c, b) /\ b.link = Append(Append(c.link, own), def)
        /\ b.data = Append(c.data, [is |-> "variable", of |-> v.name, val |-> NotFound])
        /\ b.text = c.text /\ b.insLinks = c.insLinks
    <3>1. HasCell(c, b, Append(Append(c.link, own), def), "variable", v.name, NotFound)
      BY <1>1, CellIs
    <3> HIDE DEF b
    <3> QED
      BY <3>1 DEF HasCell
  <2> HIDE DEF o, b, d
  <2>4. /\ VarsMade(mem, id, o, n + 1, 0) /\ Grown(c, o)
        /\ HasEntry(o.link, VariableLink(c.vars[n + 1]), c.vars[n + 1].name)
        /\ ~HasEntry(o.link, "DEFAULT", c.vars[n + 1].name)
    BY <2>2, OwnMade, Zenon
  <2>5. o.vars = c.vars /\ b.vars = c.vars /\ DOMAIN c.vars = 1..Len(c.vars) /\ n + 1 \in Nat
    BY <2>2, <2>3, ListedIs DEF SameSource, SameThings
  <2>6. /\ VarsMade(mem, id, b, n + 1, x) /\ Grown(o, b) /\ x \in DOMAIN b.link /\ b.link[x] = def
    <3>1. SameSource(o, b) /\ b.link = Append(o.link, def)
      BY <2>2, <2>3 DEF SameSource, SameThings
    <3>2. \E i \in 1..(n + 1) : o.vars[i].name = v.name
      BY <2>5
    <3>3. b.data = o.data /\ b.text = o.text /\ b.insLinks = o.insLinks
      BY <2>2, <2>3
    <3> HIDE DEF meta, v
    <3>4. ~HasEntry(o.link, "DEFAULT", v.name)
      BY <2>4 DEF v
    <3> QED
      BY <2>3, <2>4, <2>5, <3>1, <3>2, <3>3, <3>4, DefaultMade, SMTT(30)
  <2> HIDE DEF x
  <2>7. /\ VarsMade(mem, id, t, n + 1, x) /\ Grown(b, t) /\ HasEntry(t.link, "LITERAL", v.value)
        /\ x \in DOMAIN t.link /\ t.link[x] = def
    <3> HIDE DEF def, v
    <3>1. /\ VarsMade(mem, id, t, n + 1, x) /\ Grown(b, t) /\ HasEntry(t.link, "LITERAL", v.value)
          /\ \A k \in DOMAIN b.link : k \in DOMAIN t.link /\ t.link[k] = b.link[k]
      <4>1. PICK text : text = v.value
        OBVIOUS
      <4>2. PICK m : m = n + 1
        OBVIOUS
      <4>3. t = d_allocate_string_literal_in_data(b, text) /\ m \in Nat /\ VarsMade(mem, id, b, m, x)
        BY <2>5, <2>6, <4>1, <4>2
      <4> HIDE DEF t
      <4>4. /\ VarsMade(mem, id, t, m, x) /\ Grown(b, t) /\ HasEntry(t.link, "LITERAL", text)
            /\ \A k \in DOMAIN b.link : k \in DOMAIN t.link /\ t.link[k] = b.link[k]
        BY <4>3, TextMade
      <4> QED
        BY <4>1, <4>2, <4>4
    <3> QED
      BY <2>6, <3>1
  <2>8. def.type = "DEFAULT" /\ def.name = v.name
    BY DEF d_link_new_meta
  <2> HIDE DEF t, def
  <2>9. t.vars = c.vars
    BY <2>5, <2>7 DEF Grown, SameSource, SameThings
  <2>10. StringNamed(t, v.name)
    BY <1>4, <2>9 DEF StringNamed
  <2>11. VarsMade(mem, id, d, n + 1, 0) /\ Grown(t, d)
    <3>1. PICK name : name = v.name
      OBVIOUS
    <3>2. PICK text : text = v.value
      OBVIOUS
    <3>3. t.link[x].type = "DEFAULT" /\ t.link[x].name = name /\ StringNamed(t, name)
      BY <2>7, <2>8, <2>10, <3>1
    <3>4. HasEntry(t.link, "LITERAL", text)
      BY <2>7, <3>2
    <3>5. d = [t EXCEPT !.link[EntryOf(t.link, "DEFAULT", name)].ptr =
                t.link[EntryOf(t.link, "LITERAL", text)].ptr]
      BY <2>1, <3>1, <3>2
    <3> QED
      BY <2>5, <2>7, <3>3, <3>4, <3>5, FoundMade, Zenon
  <2>12. Grown(o, d) /\ Grown(c, d)
    BY <2>4, <2>6, <2>7, <2>11, GrownFurther
  <2>13. VarListed(d, n + 1)
    <3>1. HasEntry(t.link, "DEFAULT", v.name)
      BY <2>7, <2>8 DEF HasEntry
    <3>2. \A type, name : (HasEntry(o.link, type, name) \/ HasEntry(t.link, type, name))
                             => HasEntry(d.link, type, name)
      BY <2>11, <2>12 DEF HasEntry, Grown, LinkGrown
    <3>3. d.vars = c.vars
      BY <2>12 DEF Grown, SameSource, SameThings
    <3> QED
      BY <2>4, <3>1, <3>2, <3>3 DEF VarListed
  <2> QED
    BY <2>11, <2>12, <2>13 DEF d
<1> QED
  BY <1>3, <1>4

(* All variables of a sheet, one after the other.                          *)
LEMMA VariablesAre ==
  ASSUME NEW c, NEW id, Listed(c.vars)
  PROVE  \E f : /\ f[0] = c /\ Variables(c, id) = f[Len(c.vars)]
                /\ \A k \in 1..Len(c.vars) : f[k] = d_allocate_variable(f[k - 1], id, k)
<1> DEFINE idx == [i \in DOMAIN c.vars |-> i]
           N == Len(idx)
           G(f) == f = [k \in 0..N |-> IF k = 0 THEN c ELSE d_allocate_variable(f[k - 1], id, idx[k])]
           Q(m, f) == f[0] = c /\ \A k \in 1..m : f[k] = d_allocate_variable(f[k - 1], id, idx[k])
           T == {m \in 0..N : \E f : Q(m, f)}
<1>0. N = Len(c.vars) /\ N \in Nat /\ \A k \in 1..N : idx[k] = k
  <2>1. Len(c.vars) \in Nat /\ DOMAIN c.vars = 1..Len(c.vars)
    BY ListedIs
  <2>2. idx = [k \in 1..Len(c.vars) |-> idx[k]]
    BY <2>1
  <2>3. N = Len(c.vars)
    BY <2>1, <2>2, ArrayListed
  <2> QED
    BY <2>1, <2>3
<1>1. 0 \in T
  <2> DEFINE f == [k \in {0} |-> c]
  <2>1. Q(0, f)
    OBVIOUS
  <2> HIDE DEF Q, f
  <2> QED
    BY <2>1
<1> HIDE DEF idx
<1>2. ASSUME NEW m \in 0..(N - 1), m \in T
      PROVE  m + 1 \in T
  <2>1. PICK f : Q(m, f)
    BY <1>2
  <2> DEFINE g == [k \in 0..(m + 1) |-> IF k = m + 1 THEN d_allocate_variable(f[m], id, idx[m + 1]) ELSE f[k]]
  <2>2. g[0] = c
    BY <2>1
  <2>3. ASSUME NEW k \in 1..(m + 1)
        PROVE  g[k] = d_allocate_variable(g[k - 1], id, idx[k])
    <3>1. CASE k = m + 1
      <4>1. g[k - 1] = f[m]
        BY <3>1
      <4> QED
        BY <3>1, <4>1
    <3>2. CASE k # m + 1
      <4>1. k \in 1..m /\ g[k] = f[k] /\ g[k - 1] = f[k - 1]
        BY <3>2
      <4> QED
        BY <2>1, <4>1
    <3> QED
      BY <3>1, <3>2
  <2> HIDE DEF g
  <2>4. Q(m + 1, g)
    BY <2>2, <2>3
  <2> HIDE DEF Q
  <2> QED
    BY <2>4
<1>3. N \in T
  <2> HIDE DEF T
  <2>1. 0..N \subseteq T
    BY <1>0, <1>1, <1>2, CountUp, Zenon
  <2> QED
    BY <2>1
<1>4. PICK f : Q(N, f)
  BY <1>3
<1> DEFINE h == [k \in 0..N |-> f[k]]
<1>5. G(h)
  <2>1. \A k \in 1..N : h[k] = f[k] /\ h[k - 1] = f[k - 1]
    OBVIOUS
  <2>2. \A k \in 0..N : h[k] = IF k = 0 THEN c ELSE d_allocate_variable(h[k - 1], id, idx[k])
    BY <1>4, <2>1
  <2> QED
    BY <2>2
<1>6. PICK g : g = CHOOSE x : G(x)
  OBVIOUS
<1> HIDE DEF h
<1>7. G(g)
  BY <1>5, <1>6, Zenon
<1>8. Variables(c, id) = g[N]
  BY <1>6 DEF Variables, AfterAll, idx
<1>9. g[0] = c /\ \A k \in 1..N : g[k] = d_allocate_variable(g[k - 1], id, idx[k])
  BY <1>7
<1> QED
  BY <1>0, <1>8, <1>9

(* All variables of a sheet are laid out.                                  *)
LEMMA VariablesMade ==
  ASSUME NEW mem, NEW id, NEW c, VarsMade(mem, id, c, 0, 0), Listed(c.vars), Distinct(c.vars),
         \A i \in DOMAIN c.vars : c.vars[i].type \in {"Integer", "String"}
  PROVE  LET d == Variables(c, id)
         IN  /\ VarsMade(mem, id, d, Len(c.vars), 0) /\ Grown(c, d)
             /\ \A i \in DOMAIN d.vars : VarListed(d, i)
<1> DEFINE N == Len(c.vars)
<1>1. N \in Nat /\ DOMAIN c.vars = 1..N
  BY ListedIs
<1>2. PICK f : /\ f[0] = c /\ Variables(c, id) = f[N]
               /\ \A k \in 1..N : f[k] = d_allocate_variable(f[k - 1], id, k)
  BY VariablesAre
<1> HIDE DEF N
<1> DEFINE T == {m \in 0..N : VarsMade(mem, id, f[m], m, 0) /\ Grown(c, f[m]) /\ \A i \in 1..m : VarListed(f[m], i)}
<1>3. 0 \in T
  BY <1>1, <1>2, GrownNot
<1>4. ASSUME NEW m \in 0..(N - 1), m \in T
      PROVE  m + 1 \in T
  <2>1. m + 1 \in 1..N /\ (m + 1) - 1 = m /\ m \in Nat
    BY <1>1
  <2>2. f[m + 1] = d_allocate_variable(f[m], id, m + 1)
    BY <1>2, <2>1
  <2>3. VarsMade(mem, id, f[m], m, 0) /\ Grown(c, f[m]) /\ \A i \in 1..m : VarListed(f[m], i)
    BY <1>4
  <2>4. f[m].vars = c.vars
    BY <2>3 DEF Grown, SameSource, SameThings
  <2>5. VarsMade(mem, id, f[m + 1], m + 1, 0) /\ Grown(f[m], f[m + 1]) /\ VarListed(f[m + 1], m + 1)
    <3>1. /\ m + 1 \in DOMAIN f[m].vars /\ Listed(f[m].vars) /\ Distinct(f[m].vars)
          /\ f[m].vars[m + 1].type \in {"Integer", "String"}
      BY <1>1, <2>1, <2>4
    <3> QED
      BY <2>1, <2>2, <2>3, <3>1, VariableMade
  <2>6. ASSUME NEW i \in 1..(m + 1)
        PROVE  VarListed(f[m + 1], i)
    <3>1. CASE i = m + 1
      BY <2>5, <3>1
    <3>2. CASE i # m + 1
      <4>1. i \in 1..m /\ i \in 1..N
        BY <1>1, <2>1, <3>2
      <4> QED
        BY <1>1, <2>3, <2>4, <2>5, <4>1, GrownListed
    <3> QED
      BY <3>1, <3>2
  <2>7. Grown(c, f[m + 1])
    BY <2>3, <2>5, GrownFurther
  <2> QED
    BY <2>1, <2>5, <2>6, <2>7
<1>5. N \in T
  <2> HIDE DEF T
  <2>1. 0..N \subseteq T
    BY <1>1, <1>3, <1>4, CountUp, Zenon
  <2> QED
    BY <1>1, <2>1
<1>6. VarsMade(mem, id, f[N], N, 0) /\ Grown(c, f[N]) /\ \A i \in 1..N : VarListed(f[N], i)
  BY <1>5
<1>7. f[N].vars = c.vars
  BY <1>6 DEF Grown, SameSource, SameThings
<1> QED
  BY <1>1, <1>2, <1>6, <1>7 DEF N

-----------------------------------------------------------------------------
(* A sheet of which no code was made.                                      *)
Sourced(s) ==
  /\ IsSheet(s) /\ s.text = <<>> /\ s.data = <<>> /\ s.link = <<>> /\ s.insLinks = <<>>
  /\ Listed(s.vars) /\ \A i \in DOMAIN s.vars : s.vars[i].type \in {"Integer", "String"}
  /\ Listed(s.funcs) /\ \A i \in DOMAIN s.funcs : AreUses(s.funcs[i].uses)

(* What it means for a sheet to have no errors.                            *)
LEMMA NoErrors ==
  ASSUME NEW mem, NEW id, Sourced(mem[id]), NEW start, AreUses(start), ~HasErrors(mem, id, start)
  PROVE  /\ Distinct(mem[id].vars)
         /\ \A k \in 1..Len(start) : UseFits(mem, id, start[k])
         /\ \A i \in DOMAIN mem[id].funcs : FuncFits(mem, id, i)
<1> DEFINE s     == mem[id]
           uses  == Range(start) \union UNION {Range(f.uses) : f \in Range(s.funcs)}
           names == {u.name : u \in {v \in uses : v.kind = "name"}} \union {f.name : f \in Range(s.funcs)}
<1>1. /\ \A name \in names : d_get_definition(mem, id, name) # Unknown
      /\ \A i, j \in DOMAIN s.vars : ~(i # j /\ s.vars[i].name = s.vars[j].name)
  BY DEF HasErrors
<1>2. Distinct(s.vars)
  BY <1>1 DEF Distinct
<1>3. \A list : AreUses(list) => /\ Len(list) \in Nat
                                 /\ \A k \in 1..Len(list) : list[k] \in Range(list) /\ list[k].kind \in {"name", "text"}
  <2>1. ASSUME NEW list, AreUses(list)
        PROVE  /\ Len(list) \in Nat
               /\ \A k \in 1..Len(list) : list[k] \in Range(list) /\ list[k].kind \in {"name", "text"}
    <3>1. Listed(list) /\ \A use \in Range(list) : use.kind \in {"name", "text"}
      BY <2>1 DEF AreUses
    <3>2. Len(list) \in Nat /\ Range(list) = {list[i] : i \in 1..Len(list)}
      BY <3>1, ListedIs, Zenon
    <3> QED
      BY <3>1, <3>2
  <2> QED
    BY <2>1
<1>4. \A u \in uses : u.kind \in {"name", "text"} => UseFits(mem, id, u)
  <2>1. ASSUME NEW u \in uses, u.kind \in {"name", "text"}
        PROVE  UseFits(mem, id, u)
    <3>1. u.kind = "name" => u.name \in names
      OBVIOUS
    <3> HIDE DEF names, uses
    <3> QED
      BY <1>1, <2>1, <3>1 DEF UseFits
  <2> QED
    BY <2>1
<1>5. \A k \in 1..Len(start) : UseFits(mem, id, start[k])
  BY <1>3, <1>4
<1>6. ASSUME NEW i \in DOMAIN s.funcs
      PROVE  FuncFits(mem, id, i)
  <2> DEFINE f == s.funcs[i]
  <2>1. f \in Range(s.funcs)
    BY ListedIs DEF Sourced
  <2>2. f.name \in names
    BY <2>1
  <2>3. AreUses(f.uses)
    BY DEF Sourced
  <2>4. Range(f.uses) \subseteq uses
    BY <2>1
  <2>5. d_get_definition(mem, id, f.name) # Unknown
    BY <1>1, <2>2
  <2> HIDE DEF names, uses
  <2>6. Len(f.uses) \in Nat /\ \A k \in 1..Len(f.uses) : UseFits(mem, id, f.uses[k])
    BY <1>3, <1>4, <2>3, <2>4
  <2> QED
    BY <2>5, <2>6 DEF FuncFits
<1> QED
  BY <1>2, <1>5, <1>6

(* The code of a sheet without errors is made.                             *)
LEMMA CompiledMade ==
  ASSUME NEW mem, NEW n, NEW id, Loading(mem, n, id), Sourced(mem[id]),
         NEW start, AreUses(start), ~HasErrors(mem, id, start)
  PROVE  LET d == d_codegen_compile(mem, id, start)
         IN  Made(mem, id, d) /\ \A i \in DOMAIN d.funcs : FuncDone(d, i)
<1> DEFINE s == mem[id]
           v == Variables(s, id)
           c == CustomFunctions(mem, v, id)
           b == Begun(c, "Start")
           d == Uses(mem, b, id, start)
<1>1. d = d_codegen_compile(mem, id, start)
  BY DEF d_codegen_compile
<1>2. /\ Distinct(s.vars) /\ Len(start) \in Nat
      /\ \A k \in 1..Len(start) : UseFits(mem, id, start[k])
      /\ \A i \in DOMAIN s.funcs : FuncFits(mem, id, i)
  BY NoErrors, ListedIs, Zenon DEF AreUses
<1>3. Listed(<<>>) /\ DOMAIN <<>> = {}
  BY DEF Listed
<1>4. VarsMade(mem, id, s, 0, 0)
  BY <1>3 DEF VarsMade, CodeListed, Sourced, SameSource, SameThings, Unique
<1>5. /\ VarsMade(mem, id, v, Len(s.vars), 0) /\ Grown(s, v)
      /\ \A i \in DOMAIN v.vars : VarListed(v, i)
  BY <1>2, <1>4, VariablesMade DEF Sourced
<1> HIDE DEF v
<1>6. Made(mem, id, v)
  <2>1. Listed(s.vars)
    BY DEF Sourced
  <2>2. \A k \in DOMAIN v.link : k # 0
    BY ListedIs, <1>5 DEF VarsMade, CodeListed
  <2>3. \A k \in DOMAIN v.link : EntryMade(mem, id, v, v.link[k])
    BY <1>5, <2>2 DEF VarsMade
  <2>4. v.insLinks = <<>>
    BY <1>5 DEF VarsMade
  <2>5. InsOnce(v.insLinks) /\ \A k \in DOMAIN v.insLinks : UseMade(mem, id, v, v.insLinks[k])
    BY <1>3, <2>4 DEF InsOnce
  <2> QED
    BY <1>5, <2>3, <2>5 DEF Made, VarsMade
<1>7. /\ Made(mem, id, c) /\ Grown(v, c) /\ \A i \in DOMAIN c.funcs : FuncDone(c, i)
  BY <1>2, <1>6, FunctionsMade DEF Sourced
<1> HIDE DEF c
<1>8. Made(mem, id, b) /\ Grown(c, b)
  BY <1>7, BegunMade
<1> HIDE DEF b
<1>9. Made(mem, id, d) /\ Grown(b, d)
  BY <1>2, <1>8, UsesMade
<1> HIDE DEF d
<1>10. \A i \in DOMAIN d.funcs : FuncDone(d, i)
  <2>1. Grown(c, d)
    BY <1>8, <1>9, GrownFurther
  <2>2. d.funcs = c.funcs
    BY <2>1 DEF Grown, SameSource, SameThings
  <2> QED
    BY <1>7, <2>1, <2>2, GrownListed
<1> QED
  BY <1>1, <1>9, <1>10

-----------------------------------------------------------------------------
(***************************************************************************)
(* The inductive invariant.  How the code of sheet id lies, whichever      *)
(* process it is in: an entry is the sheet's own and has its place, or     *)
(* the sheet defines no such thing.                                        *)
(***************************************************************************)
HasVar(s, name)  == \E i \in DOMAIN s.vars : s.vars[i].name = name
HasFunc(s, name) == \E i \in DOMAIN s.funcs : s.funcs[i].name = name
(* An entry of a thing that another sheet defines.                         *)
OfOthers(s, id, l) ==
  /\ l.meta.sheet # id
  /\ \/ l.type \in {"VARIABLE", "POINTER"} /\ ~HasVar(s, l.name)
     \/ l.type = "FUNCTION" /\ ~HasFunc(s, l.name)

(* Where the things of one sheet lie.                                      *)
EntryLaid(s, id, l) ==
  /\ l.type \in LinkTypes
  /\ l.type \in {"LITERAL", "DEFAULT"} => TextPlaced(s, l)
  /\ l.type = "DEFAULT" => StringNamed(s, l.name)
  /\ l.type \in {"VARIABLE", "POINTER"} => (VarOwn(s, id, l) /\ VarPlaced(s, l)) \/ OfOthers(s, id, l)
  /\ l.type = "FUNCTION" => (FuncOwn(s, id, l) /\ FuncPlaced(s, l)) \/ OfOthers(s, id, l)

UseLaid(s, k) ==
  /\ k.ins \in DOMAIN s.text /\ k.link \in DOMAIN s.link /\ k.use.kind \in {"name", "text"}
  /\ s.link[k.link].name = k.use.name
  /\ IF k.use.kind = "text" THEN s.link[k.link].type = "LITERAL"
     ELSE s.link[k.link].type \notin {"LITERAL", "DEFAULT"}

Laid(s, id) ==
  /\ CodeListed(s)
  /\ Listed(s.vars) /\ \A i \in DOMAIN s.vars : s.vars[i].type \in {"Integer", "String"}
  /\ Distinct(s.vars)
  /\ Listed(s.funcs)
  /\ \A k \in DOMAIN s.link : EntryLaid(s, id, s.link[k])
  /\ Unique(s.link)
  /\ \A k \in DOMAIN s.insLinks : UseLaid(s, s.insLinks[k])
  /\ InsOnce(s.insLinks)
  /\ \A i \in DOMAIN s.vars : VarListed(s, i)
  /\ \A i \in DOMAIN s.funcs : FuncDone(s, i)

(* An entry of another sheet's thing has the thing's address.              *)
EntryLinked(mem, id, l) ==
  LET t == mem[l.meta.sheet]
  IN  /\ l.type \in {"VARIABLE", "POINTER"} /\ l.meta.sheet # id =>
           /\ l.meta \in Meant(mem, id, l.name) /\ l.meta.kind = "variable"
           /\ \E p \in DOMAIN t.data : /\ l.ptr = Address(l.meta.sheet, "data", p)
                                       /\ t.data[p].is = "variable" /\ t.data[p].of = l.name
      /\ l.type = "FUNCTION" /\ l.meta.sheet # id =>
           /\ l.meta \in Meant(mem, id, l.name) /\ l.meta.kind = "function"
           /\ \E p \in DOMAIN t.text : /\ l.ptr = Address(l.meta.sheet, "text", p)
                                       /\ t.text[p].of = l.name
      /\ l.type = "CFUNCTION" =>
           /\ l.ptr # NotFound
           /\ ~mem[id].loaded => /\ l.meta \in Meant(mem, id, l.name) /\ l.meta.kind = "cFunction"
                                 /\ l.ptr = Address(l.meta.sheet, "c", l.meta.index)

OperandsSet(s, id) ==
  \A k \in DOMAIN s.insLinks : s.text[s.insLinks[k].ins].imm = Operand(id, s.link[s.insLinks[k].link])

StringsSet(s, id) ==
  \A i \in DOMAIN s.vars : s.vars[i].type = "String" =>
    \E p, q \in DOMAIN s.data :
      /\ s.data[p].is = "variable" /\ s.data[p].of = s.vars[i].name
      /\ s.data[p].val = Address(id, "data", q) /\ s.data[q].is = "text"

Linked(mem, id) ==
  LET s == mem[id]
  IN  /\ \A k \in DOMAIN s.link : EntryLinked(mem, id, s.link[k])
      /\ ~s.loaded => \A k \in DOMAIN s.insLinks : LET u == s.insLinks[k] IN
           u.use.kind = "name" => Meant(mem, id, u.use.name) = {s.link[u.link].meta}
      /\ OperandsSet(s, id) /\ StringsSet(s, id)

(* The invariant of one sheet.                                             *)
SheetWell(mem, id) ==
  LET s == mem[id]
  IN  /\ Listed(s.includes)
      /\ \A j \in DOMAIN s.includes : /\ s.includes[j] \in DOMAIN mem /\ s.includes[j] < id
                                      /\ mem[s.includes[j]].isCompiled
      /\ IF s.isCompiled THEN Laid(s, id) /\ Linked(mem, id) ELSE s.hasErrors

-----------------------------------------------------------------------------
(* What was made is laid out.                                              *)
LEMMA ForeignOfOthers ==
  ASSUME NEW mem, NEW n, NEW id, Loading(mem, n, id), NEW c, SameSource(mem[id], c), NEW l, Foreign(mem, id, l)
  PROVE  ~HasVar(c, l.name) /\ ~HasFunc(c, l.name)
<1>1. Meant(mem, id, l.name) = {l.meta} /\ l.meta.sheet # id
  BY DEF Foreign, Unplaced, OneMeant
<1>2. c.vars = mem[id].vars /\ c.funcs = mem[id].funcs
  BY DEF SameSource, SameThings
<1>3. ASSUME NEW i \in DOMAIN c.vars, c.vars[i].name = l.name
      PROVE  FALSE
  <2>1. [kind |-> "variable", sheet |-> id, index |-> i] \in DefinedAt(mem, id, l.name)
    BY <1>2, <1>3, DefinedAtIs
  <2>2. [kind |-> "variable", sheet |-> id, index |-> i] = l.meta
    BY <1>1, <2>1, OwnIsMeant
  <2> QED
    BY <1>1, <2>2
<1>4. ASSUME NEW i \in DOMAIN c.funcs, c.funcs[i].name = l.name
      PROVE  FALSE
  <2>1. [kind |-> "function", sheet |-> id, index |-> i] \in DefinedAt(mem, id, l.name)
    BY <1>2, <1>4, DefinedAtIs
  <2>2. [kind |-> "function", sheet |-> id, index |-> i] = l.meta
    BY <1>1, <2>1, OwnIsMeant
  <2> QED
    BY <1>1, <2>2
<1> QED
  BY <1>3, <1>4 DEF HasVar, HasFunc

(* What the compiler makes lies as it should.                              *)
LEMMA MadeLaid ==
  ASSUME NEW mem, NEW n, NEW id, Loading(mem, n, id), Sourced(mem[id]), Distinct(mem[id].vars),
         NEW c, Made(mem, id, c), \A i \in DOMAIN c.funcs : FuncDone(c, i)
  PROVE  Laid(c, id)
<1>1. SameSource(mem[id], c) /\ CodeListed(c) /\ Unique(c.link)
  BY DEF Made
<1>2. c.vars = mem[id].vars /\ c.funcs = mem[id].funcs
  BY <1>1 DEF SameSource, SameThings
<1>3. ASSUME NEW k \in DOMAIN c.link
      PROVE  EntryLaid(c, id, c.link[k])
  <2> DEFINE l == c.link[k]
  <2>1. EntryMade(mem, id, c, l)
    BY DEF Made
  <2>2. Foreign(mem, id, l) => l.meta.sheet # id /\ ~HasVar(c, l.name) /\ ~HasFunc(c, l.name)
    BY <1>1, ForeignOfOthers DEF Foreign
  <2>3. l.type \in {"VARIABLE", "POINTER"} => (VarOwn(c, id, l) /\ VarPlaced(c, l)) \/ OfOthers(c, id, l)
    BY <2>1, <2>2 DEF EntryMade, OfOthers
  <2>4. l.type = "FUNCTION" => (FuncOwn(c, id, l) /\ FuncPlaced(c, l)) \/ OfOthers(c, id, l)
    <3>1. CASE l.type = "FUNCTION" /\ FuncOwn(c, id, l)
      <4>1. PICK i \in DOMAIN c.funcs : c.funcs[i].name = l.name
        BY <3>1 DEF FuncOwn
      <4>2. PICK j \in DOMAIN c.link : /\ c.link[j].type = "FUNCTION" /\ c.link[j].name = l.name
                                       /\ c.link[j].ptr # NotFound
        BY <4>1 DEF FuncDone
      <4>3. j = k
        BY <1>1, <3>1, <4>2 DEF Unique
      <4>4. ~Foreign(mem, id, l)
        BY <4>2, <4>3 DEF Foreign, Unplaced
      <4> QED
        BY <2>1, <3>1, <4>2, <4>3, <4>4 DEF EntryMade
    <3>2. CASE l.type = "FUNCTION" /\ ~FuncOwn(c, id, l)
      BY <2>1, <2>2, <3>2 DEF EntryMade, OfOthers
    <3> QED
      BY <3>1, <3>2
  <2> QED
    BY <2>1, <2>3, <2>4 DEF EntryMade, EntryLaid
<1>4. \A k \in DOMAIN c.insLinks : UseLaid(c, c.insLinks[k])
  BY DEF Made, UseMade, UseLaid
<1> QED
  BY <1>1, <1>2, <1>3, <1>4 DEF Made, Laid, Sourced

-----------------------------------------------------------------------------
(* The code of a sheet stays where it is: other operands and values only.  *)
SameLayout(s, t) ==
  /\ SameSource(s, t) /\ t.link = s.link /\ t.insLinks = s.insLinks
  /\ DOMAIN t.text = DOMAIN s.text /\ \A j \in DOMAIN s.text : t.text[j].of = s.text[j].of
  /\ DOMAIN t.data = DOMAIN s.data
  /\ \A j \in DOMAIN s.data : t.data[j].is = s.data[j].is /\ t.data[j].of = s.data[j].of
  /\ CodeListed(s) => CodeListed(t)

(* A sheet that stays where it is has grown by nothing.                    *)
LEMMA LayoutGrown == ASSUME NEW s, NEW t, SameLayout(s, t) PROVE Grown(s, t)
<1>1. SameSource(s, t) /\ t.link = s.link
  BY DEF SameLayout
<1>2. LinkGrown(s.link, t.link)
  BY <1>1 DEF LinkGrown
<1>3. TextGrown(s.text, t.text) /\ DataGrown(s.data, t.data)
  BY DEF SameLayout, TextGrown, DataGrown
<1> QED
  BY <1>1, <1>2, <1>3 DEF Grown

(* A sheet has its own layout.                                             *)
LEMMA LayoutNot == ASSUME NEW s PROVE SameLayout(s, s)
BY DEF SameLayout, SameSource, SameThings

(* A layout that stays the same stays right.                               *)
LEMMA LaidKept ==
  ASSUME NEW s, NEW t, NEW id, SameLayout(s, t), Laid(s, id)
  PROVE  Laid(t, id)
<1>1. Grown(s, t)
  BY LayoutGrown
<1>2. t.vars = s.vars /\ t.funcs = s.funcs /\ t.link = s.link /\ t.insLinks = s.insLinks
  BY DEF SameLayout, SameSource, SameThings
<1>3. CodeListed(t)
  BY DEF SameLayout, Laid
<1>4. ASSUME NEW k \in DOMAIN s.link
      PROVE  EntryLaid(t, id, s.link[k])
  <2>1. EntryLaid(s, id, s.link[k])
    BY DEF Laid
  <2>2. OfOthers(s, id, s.link[k]) => OfOthers(t, id, s.link[k])
    BY <1>2 DEF OfOthers, HasVar, HasFunc
  <2> QED
    BY <1>1, <2>1, <2>2, GrownPlaces DEF EntryLaid
<1>5. \A k \in DOMAIN s.insLinks : UseLaid(t, s.insLinks[k])
  BY <1>2 DEF Laid, UseLaid, SameLayout
<1>6. \A i \in DOMAIN s.vars : VarListed(t, i)
  BY <1>1, GrownListed DEF Laid
<1>7. \A i \in DOMAIN s.funcs : FuncDone(t, i)
  BY <1>1, GrownListed DEF Laid
<1> QED
  BY <1>2, <1>3, <1>4, <1>5, <1>6, <1>7 DEF Laid

(* All sheets stay where they are; others may be added.                    *)
MemKept(mem, mem2) ==
  DOMAIN mem \subseteq DOMAIN mem2 /\ \A i \in DOMAIN mem : SameLayout(mem[i], mem2[i])

(* A definition is in a sheet that this one is made of.                    *)
LEMMA MeantWithin ==
  ASSUME NEW mem, NEW n, Ordered(mem, n), NEW id \in DOMAIN mem, NEW name, NEW d \in Meant(mem, id, name)
  PROVE  /\ d.sheet \in Within(mem, id) /\ d.sheet \in DOMAIN mem /\ d.sheet <= id
         /\ d \in DefinedAt(mem, d.sheet, name)
<1>1. PICK i \in Within(mem, id) : d \in DefinedAt(mem, i, name)
  BY MeantIs
<1>2. d.sheet = i
  BY <1>1, DefinedSheet
<1>3. VisitsWell(mem, id)
  BY VisitsAre
<1> DEFINE visits == Visits(mem, id)
<1>4. PICK k \in 1..Len(visits) : i = visits[k]
  <2>1. Range(visits) = {visits[k] : k \in 1..Len(visits)}
    BY <1>3, ListedIs DEF VisitsWell
  <2> QED
    BY <1>1, <2>1 DEF Within
<1>5. Len(visits) \in Nat /\ id \in Nat
  BY <1>3 DEF VisitsWell, Listed, Ordered
<1>6. i \in DOMAIN mem /\ i <= id
  <2>1. CASE k = 1
    BY <1>3, <1>4, <1>5, <2>1 DEF VisitsWell
  <2>2. CASE k # 1
    <3>1. k \in 2..Len(visits)
      BY <1>5, <2>2
    <3>2. i \in DOMAIN mem /\ i < id
      BY <1>3, <1>4, <3>1 DEF VisitsWell
    <3>3. i \in Nat
      BY <3>2 DEF Ordered
    <3> QED
      BY <1>5, <3>2, <3>3
  <2> QED
    BY <2>1, <2>2
<1> QED
  BY <1>1, <1>2, <1>6

(* Names mean what they did when sheets are added.                         *)
LEMMA MeantKept ==
  ASSUME NEW mem, NEW n, Ordered(mem, n), NEW mem2, NEW n2, Ordered(mem2, n2), MemKept(mem, mem2),
         NEW id \in DOMAIN mem, NEW name
  PROVE  /\ Within(mem2, id) = Within(mem, id) /\ Meant(mem2, id, name) = Meant(mem, id, name)
         /\ \A d \in Meant(mem, id, name) : /\ d.sheet \in DOMAIN mem
                                            /\ LinkTypeOf(mem2, d) = LinkTypeOf(mem, d)
<1>1. DOMAIN mem \subseteq DOMAIN mem2 /\ \A i \in DOMAIN mem : SameThings(mem[i], mem2[i])
  BY DEF MemKept, SameLayout, SameSource
<1>2. Within(mem2, id) = Within(mem, id) /\ Meant(mem2, id, name) = Meant(mem, id, name)
  BY <1>1, MeantSame
<1>3. ASSUME NEW d \in Meant(mem, id, name)
      PROVE  d.sheet \in DOMAIN mem /\ LinkTypeOf(mem2, d) = LinkTypeOf(mem, d)
  <2>1. d.sheet \in DOMAIN mem
    BY MeantWithin
  <2>2. mem2[d.sheet].vars = mem[d.sheet].vars
    BY <1>1, <2>1 DEF SameThings
  <2> QED
    BY <2>1, <2>2 DEF LinkTypeOf
<1> QED
  BY <1>2, <1>3

(* An entry that is linked stays so.                                       *)
LEMMA EntryLinkedKept ==
  ASSUME NEW mem, NEW n, Ordered(mem, n), NEW mem2, NEW n2, Ordered(mem2, n2), MemKept(mem, mem2),
         NEW id \in DOMAIN mem, NEW l, EntryLinked(mem, id, l)
  PROVE  EntryLinked(mem2, id, l)
<1>1. /\ Meant(mem2, id, l.name) = Meant(mem, id, l.name)
      /\ \A d \in Meant(mem, id, l.name) : d.sheet \in DOMAIN mem
  BY MeantKept
<1>2. mem2[id].loaded = mem[id].loaded
  BY DEF MemKept, SameLayout, SameSource
<1> DEFINE s == mem[l.meta.sheet]
           t == mem2[l.meta.sheet]
<1>3. l.meta \in Meant(mem, id, l.name) =>
        /\ DOMAIN t.text = DOMAIN s.text /\ \A j \in DOMAIN s.text : t.text[j].of = s.text[j].of
        /\ DOMAIN t.data = DOMAIN s.data
        /\ \A j \in DOMAIN s.data : t.data[j].is = s.data[j].is /\ t.data[j].of = s.data[j].of
  BY <1>1 DEF MemKept, SameLayout
<1> HIDE DEF s, t
<1>4. l.type \in {"VARIABLE", "POINTER"} /\ l.meta.sheet # id =>
           /\ l.meta \in Meant(mem2, id, l.name) /\ l.meta.kind = "variable"
           /\ \E p \in DOMAIN t.data : /\ l.ptr = Address(l.meta.sheet, "data", p)
                                       /\ t.data[p].is = "variable" /\ t.data[p].of = l.name
  <2>1. SUFFICES ASSUME l.type \in {"VARIABLE", "POINTER"}, l.meta.sheet # id
                 PROVE  /\ l.meta \in Meant(mem2, id, l.name) /\ l.meta.kind = "variable"
                        /\ \E p \in DOMAIN t.data : /\ l.ptr = Address(l.meta.sheet, "data", p)
                                                    /\ t.data[p].is = "variable" /\ t.data[p].of = l.name
    OBVIOUS
  <2>2. /\ l.meta \in Meant(mem, id, l.name) /\ l.meta.kind = "variable"
        /\ \E p \in DOMAIN s.data : /\ l.ptr = Address(l.meta.sheet, "data", p)
                                    /\ s.data[p].is = "variable" /\ s.data[p].of = l.name
    BY <2>1 DEF EntryLinked, s
  <2> QED
    BY <1>1, <1>3, <2>2
<1>5. l.type = "FUNCTION" /\ l.meta.sheet # id =>
           /\ l.meta \in Meant(mem2, id, l.name) /\ l.meta.kind = "function"
           /\ \E p \in DOMAIN t.text : /\ l.ptr = Address(l.meta.sheet, "text", p)
                                       /\ t.text[p].of = l.name
  <2>1. SUFFICES ASSUME l.type = "FUNCTION", l.meta.sheet # id
                 PROVE  /\ l.meta \in Meant(mem2, id, l.name) /\ l.meta.kind = "function"
                        /\ \E p \in DOMAIN t.text : /\ l.ptr = Address(l.meta.sheet, "text", p)
                                                    /\ t.text[p].of = l.name
    OBVIOUS
  <2>2. /\ l.meta \in Meant(mem, id, l.name) /\ l.meta.kind = "function"
        /\ \E p \in DOMAIN s.text : l.ptr = Address(l.meta.sheet, "text", p) /\ s.text[p].of = l.name
    BY <2>1 DEF EntryLinked, s
  <2> QED
    BY <1>1, <1>3, <2>2
<1> QED
  BY <1>1, <1>2, <1>4, <1>5 DEF EntryLinked, t

(* A sheet that is well stays so.                                          *)
LEMMA SheetKept ==
  ASSUME NEW mem, NEW n, Ordered(mem, n), NEW mem2, NEW n2, Ordered(mem2, n2), MemKept(mem, mem2),
         NEW id \in DOMAIN mem, SheetWell(mem, id),
         mem[id].isCompiled => OperandsSet(mem2[id], id) /\ StringsSet(mem2[id], id)
  PROVE  SheetWell(mem2, id)
<1> DEFINE s == mem[id]
           t == mem2[id]
<1>1. /\ SameLayout(s, t) /\ t.includes = s.includes /\ t.isCompiled = s.isCompiled
      /\ t.hasErrors = s.hasErrors /\ t.link = s.link /\ t.insLinks = s.insLinks /\ t.loaded = s.loaded
  BY DEF MemKept, SameLayout, SameSource, SameThings
<1>2. \A i \in DOMAIN mem : i \in DOMAIN mem2 /\ mem2[i].isCompiled = mem[i].isCompiled
  BY DEF MemKept, SameLayout, SameSource
<1>3. /\ Listed(t.includes)
      /\ \A j \in DOMAIN t.includes : /\ t.includes[j] \in DOMAIN mem2 /\ t.includes[j] < id
                                      /\ mem2[t.includes[j]].isCompiled
  BY <1>1, <1>2 DEF SheetWell
<1>4. ~s.isCompiled => t.hasErrors
  BY <1>1 DEF SheetWell
<1>5. CASE s.isCompiled
  <2>1. Laid(s, id) /\ Linked(mem, id)
    BY <1>5 DEF SheetWell
  <2>2. Laid(t, id)
    BY <1>1, <2>1, LaidKept
  <2>3. \A k \in DOMAIN t.link : EntryLinked(mem2, id, t.link[k])
    <3>1. \A k \in DOMAIN s.link : EntryLinked(mem, id, s.link[k])
      BY <2>1 DEF Linked
    <3> QED
      BY <1>1, <3>1, EntryLinkedKept
  <2>4. ~t.loaded => \A k \in DOMAIN t.insLinks :
           t.insLinks[k].use.kind = "name" =>
             Meant(mem2, id, t.insLinks[k].use.name) = {t.link[t.insLinks[k].link].meta}
    BY <1>1, <2>1, MeantKept DEF Linked
  <2>5. OperandsSet(t, id) /\ StringsSet(t, id)
    BY <1>5
  <2>6. Linked(mem2, id)
    BY <2>3, <2>4, <2>5 DEF Linked
  <2> QED
    BY <1>1, <1>3, <1>5, <2>2, <2>6, Zenon DEF SheetWell
<1> QED
  BY <1>1, <1>3, <1>4, <1>5 DEF SheetWell

(* What a linked sheet includes, and what that includes, is linked.        *)
IncludesReady(mem) ==
  \A i \in DOMAIN mem : \A j \in DOMAIN mem[i].includes : mem[mem[i].includes[j]].isCompiled

(* All that is behind a sheet is older and without errors.                 *)
LEMMA WithinReady ==
  ASSUME NEW mem, NEW n, Ordered(mem, n), IncludesReady(mem), NEW id \in DOMAIN mem
  PROVE  \A k \in 2..Len(Visits(mem, id)) :
           LET x == Visits(mem, id)[k] IN x \in DOMAIN mem /\ x < id /\ mem[x].isCompiled
<1> DEFINE some == {i \in DOMAIN mem : mem[i].isCompiled} \union {id}
           part == [i \in some |-> mem[i]]
<1>1. DOMAIN part = some /\ \A i \in some : part[i] = mem[i] /\ i \in DOMAIN mem
  OBVIOUS
<1>2. \A i \in DOMAIN mem : mem[i].isCompiled => i \in some
  OBVIOUS
<1>3. \A i \in some : i = id \/ mem[i].isCompiled
  OBVIOUS
<1>4. id \in some
  OBVIOUS
<1> HIDE DEF part, some
<1>5. Ordered(part, n)
  BY <1>1, <1>2 DEF Ordered, IncludesReady
<1>6. Visits(mem, id) = Visits(part, id)
  <2>1. DOMAIN part \subseteq DOMAIN mem /\ \A i \in DOMAIN part : mem[i].includes = part[i].includes
    BY <1>1
  <2> QED
    BY <1>1, <1>4, <1>5, <2>1, VisitsSame
<1>7. VisitsWell(part, id)
  BY <1>1, <1>4, <1>5, VisitsAre
<1>8. ASSUME NEW k \in 2..Len(Visits(part, id))
      PROVE  LET x == Visits(part, id)[k] IN x \in DOMAIN mem /\ x < id /\ mem[x].isCompiled
  <2> DEFINE x == Visits(part, id)[k]
  <2>1. x \in DOMAIN part /\ x < id
    BY <1>7 DEF VisitsWell
  <2>2. id \in Nat
    BY DEF Ordered
  <2>3. x \in Nat
    BY <1>1, <2>1 DEF Ordered
  <2> HIDE DEF x
  <2>4. x # id
    BY <2>1, <2>2, <2>3
  <2>5. x \in DOMAIN mem /\ x < id /\ mem[x].isCompiled
    BY <1>1, <1>3, <2>1, <2>4
  <2> QED
    BY <2>5 DEF x
<1> QED
  BY <1>6, <1>8

-----------------------------------------------------------------------------
(***************************************************************************)
(* Linking.  Sheet id is new in mem, the others are as they are in base.   *)
(***************************************************************************)
Linking(base, mem, id) ==
  /\ id \in Nat \ {0} /\ DOMAIN base \subseteq 1..(id - 1)
  /\ \A i \in DOMAIN base : SheetWell(base, i)
  /\ DOMAIN mem = DOMAIN base \union {id} /\ mem = [i \in DOMAIN mem |-> mem[i]]
  /\ \A i \in DOMAIN base : mem[i] = base[i]
  /\ Listed(mem[id].includes)
  /\ \A j \in DOMAIN mem[id].includes : /\ mem[id].includes[j] \in DOMAIN base
                                        /\ base[mem[id].includes[j]].isCompiled

(* Where all sheets are well, the recursions over the includes end.        *)
LEMMA SheetsOrdered ==
  ASSUME NEW mem, NEW n \in Nat, DOMAIN mem \subseteq 1..n, \A i \in DOMAIN mem : SheetWell(mem, i)
  PROVE  Ordered(mem, n) /\ IncludesReady(mem)
BY DEF Ordered, IncludesReady, SheetWell

(* What is known when a sheet is linked.                                   *)
LEMMA LinkingIs ==
  ASSUME NEW base, NEW mem, NEW id, Linking(base, mem, id)
  PROVE  /\ Ordered(base, id - 1) /\ Ordered(mem, id) /\ IncludesReady(mem) /\ MemKept(base, mem)
         /\ id \in DOMAIN mem /\ id \notin DOMAIN base /\ Loading(mem, id, id)
         /\ \A i \in DOMAIN base : SheetWell(mem, i)
<1>1. Ordered(base, id - 1) /\ IncludesReady(base)
  <2>1. id - 1 \in Nat
    BY DEF Linking
  <2> QED
    BY <2>1, SheetsOrdered DEF Linking
<1>2. id \in DOMAIN mem /\ id \notin DOMAIN base /\ id \in Nat
  BY DEF Linking
<1>3. MemKept(base, mem)
  BY LayoutNot DEF Linking, MemKept
<1>4. DOMAIN mem \subseteq 1..id
  BY DEF Linking
<1>5. Ordered(mem, id)
  <2>1. ASSUME NEW i \in DOMAIN mem
        PROVE  /\ Listed(mem[i].includes)
               /\ \A j \in DOMAIN mem[i].includes : mem[i].includes[j] \in DOMAIN mem /\ mem[i].includes[j] < i
    <3>1. CASE i = id
      BY <3>1 DEF Linking
    <3>2. CASE i # id
      BY <1>1, <3>2 DEF Linking, Ordered
    <3> QED
      BY <3>1, <3>2
  <2> QED
    BY <1>2, <1>4, <2>1 DEF Ordered
<1>6. IncludesReady(mem)
  <2>1. ASSUME NEW i \in DOMAIN mem, NEW j \in DOMAIN mem[i].includes
        PROVE  mem[mem[i].includes[j]].isCompiled
    <3>1. CASE i = id
      BY <3>1 DEF Linking
    <3>2. CASE i # id
      <4>1. i \in DOMAIN base /\ mem[i] = base[i]
        BY <3>2 DEF Linking
      <4>2. base[i].includes[j] \in DOMAIN base /\ base[base[i].includes[j]].isCompiled
        BY <1>1, <4>1 DEF Ordered, IncludesReady
      <4> QED
        BY <4>1, <4>2 DEF Linking
    <3> QED
      BY <3>1, <3>2
  <2> QED
    BY <2>1 DEF IncludesReady
<1>7. ASSUME NEW i \in DOMAIN base
      PROVE  SheetWell(mem, i)
  <2>1. SheetWell(base, i) /\ mem[i] = base[i]
    BY DEF Linking
  <2>2. base[i].isCompiled => OperandsSet(mem[i], i) /\ StringsSet(mem[i], i)
    BY <2>1 DEF SheetWell, Linked
  <2> QED
    BY <1>1, <1>3, <1>5, <2>1, <2>2, SheetKept
<1> QED
  BY <1>1, <1>2, <1>3, <1>5, <1>6, <1>7 DEF Loading

(* Only the entries of a sheet are changed, and no place of its own.       *)
LinkChanged(s, t, id) ==
  /\ IsSheet(t) /\ SameSource(s, t) /\ t.text = s.text /\ t.data = s.data /\ t.insLinks = s.insLinks
  /\ Listed(t.link) /\ DOMAIN t.link = DOMAIN s.link
  /\ \A k \in DOMAIN s.link :
       /\ IsEntry(t.link[k]) /\ t.link[k].type = s.link[k].type /\ t.link[k].name = s.link[k].name
       /\ \/ t.link[k] = s.link[k]
          \/ s.link[k].type = "CFUNCTION"
          \/ OfOthers(s, id, s.link[k]) /\ t.link[k].meta.sheet # id

(* Other places of other sheets' things leave the layout right.            *)
LEMMA LaidRelinked ==
  ASSUME NEW s, NEW t, NEW id, Laid(s, id), LinkChanged(s, t, id)
  PROVE  Laid(t, id)
<1>1. /\ t.vars = s.vars /\ t.funcs = s.funcs /\ t.text = s.text /\ t.data = s.data
      /\ t.insLinks = s.insLinks /\ DOMAIN t.link = DOMAIN s.link
  BY DEF LinkChanged, SameSource, SameThings
<1>2. CodeListed(t)
  BY DEF LinkChanged, Laid, CodeListed
<1>3. \A k \in DOMAIN s.link : t.link[k].type = s.link[k].type /\ t.link[k].name = s.link[k].name
  BY DEF LinkChanged
<1>4. ASSUME NEW k \in DOMAIN s.link
      PROVE  EntryLaid(t, id, t.link[k])
  <2>1. EntryLaid(s, id, s.link[k])
    BY DEF Laid
  <2>2. CASE t.link[k] = s.link[k]
    <3> DEFINE l == s.link[k]
    <3> HIDE DEF l
    <3>1. /\ TextPlaced(s, l) => TextPlaced(t, l)
          /\ StringNamed(s, l.name) => StringNamed(t, l.name)
          /\ VarOwn(s, id, l) => VarOwn(t, id, l)
          /\ VarPlaced(s, l) => VarPlaced(t, l)
          /\ FuncOwn(s, id, l) => FuncOwn(t, id, l)
          /\ FuncPlaced(s, l) => FuncPlaced(t, l)
          /\ OfOthers(s, id, l) => OfOthers(t, id, l)
      BY <1>1 DEF TextPlaced, StringNamed, VarOwn, VarPlaced, FuncOwn, FuncPlaced, OfOthers, HasVar, HasFunc
    <3>2. EntryLaid(s, id, l)
      BY <2>1 DEF l
    <3>3. EntryLaid(t, id, l)
      BY <3>1, <3>2 DEF EntryLaid
    <3> QED
      BY <2>2, <3>3 DEF l
  <2>3. CASE s.link[k].type = "CFUNCTION"
    BY <1>3, <2>3 DEF EntryLaid, LinkTypes
  <2>4. CASE OfOthers(s, id, s.link[k]) /\ t.link[k].meta.sheet # id
    <3>1. OfOthers(t, id, t.link[k])
      BY <1>1, <1>3, <2>4 DEF OfOthers, HasVar, HasFunc
    <3>2. t.link[k].type \in {"VARIABLE", "POINTER", "FUNCTION"}
      BY <1>3, <2>4 DEF OfOthers
    <3> QED
      BY <3>1, <3>2 DEF EntryLaid, LinkTypes
  <2> QED
    BY <2>2, <2>3, <2>4 DEF LinkChanged
<1>5. Unique(t.link)
  BY <1>1, <1>3 DEF Laid, Unique
<1>6. \A k \in DOMAIN t.insLinks : UseLaid(t, t.insLinks[k])
  BY <1>1, <1>3 DEF Laid, UseLaid
<1>7. ASSUME NEW i \in DOMAIN s.vars
      PROVE  VarListed(t, i)
  <2>1. \A type, name : HasEntry(s.link, type, name) => HasEntry(t.link, type, name)
    BY <1>1, <1>3 DEF HasEntry
  <2>2. VarListed(s, i)
    BY DEF Laid
  <2> QED
    BY <1>1, <2>1, <2>2 DEF VarListed
<1>8. ASSUME NEW i \in DOMAIN s.funcs
      PROVE  FuncDone(t, i)
  <2>1. PICK k \in DOMAIN s.link : /\ s.link[k].type = "FUNCTION" /\ s.link[k].name = s.funcs[i].name
                                   /\ s.link[k].ptr # NotFound
    BY DEF Laid, FuncDone
  <2>2. ~OfOthers(s, id, s.link[k])
    BY <2>1 DEF OfOthers, HasFunc
  <2>3. t.link[k] = s.link[k]
    BY <2>1, <2>2 DEF LinkChanged
  <2> QED
    BY <1>1, <2>1, <2>3 DEF FuncDone
<1> QED
  BY <1>1, <1>2, <1>4, <1>5, <1>6, <1>7, <1>8 DEF Laid

(* Only the list of entries of one sheet of a memory is another.           *)
OnlyEntries(mem, mem2, id, link) ==
  /\ DOMAIN mem2 = DOMAIN mem /\ mem2 = [i \in DOMAIN mem2 |-> mem2[i]]
  /\ \A i \in DOMAIN mem : i # id => mem2[i] = mem[i]
  /\ IsSheet(mem2[id]) /\ SameSource(mem[id], mem2[id])
  /\ mem2[id].text = mem[id].text /\ mem2[id].data = mem[id].data
  /\ mem2[id].insLinks = mem[id].insLinks /\ mem2[id].link = link
  /\ Listed(link) /\ DOMAIN link = DOMAIN mem[id].link

(* To change the entries of a sheet changes nothing else.                  *)
LEMMA EntriesChanged ==
  ASSUME NEW mem, mem = [i \in DOMAIN mem |-> mem[i]], NEW id \in DOMAIN mem, CodeListed(mem[id]),
         NEW link, link = [k \in DOMAIN mem[id].link |-> link[k]],
         NEW mem2, mem2 = [mem EXCEPT ![id].link = link]
  PROVE  OnlyEntries(mem, mem2, id, link)
<1> DEFINE s == mem[id]
           t == [s EXCEPT !.link = link]
<1>1. IsSheet(s) /\ Listed(s.link)
  BY DEF CodeListed
<1>2. mem2 = [mem EXCEPT ![id] = t]
  OBVIOUS
<1>3. /\ IsSheet(t) /\ SameSource(s, t) /\ t.text = s.text /\ t.data = s.data
      /\ t.insLinks = s.insLinks /\ t.link = link
  BY <1>1 DEF IsSheet, SameSource, SameThings
<1> HIDE DEF t
<1>4. /\ DOMAIN mem2 = DOMAIN mem /\ mem2 = [i \in DOMAIN mem2 |-> mem2[i]]
      /\ \A i \in DOMAIN mem : i # id => mem2[i] = mem[i]
      /\ mem2[id] = t
  BY <1>2, Zenon
<1>5. Listed(link) /\ DOMAIN link = DOMAIN s.link
  <2>1. Len(s.link) \in Nat /\ link = [k \in 1..Len(s.link) |-> link[k]]
    BY <1>1, ListedIs
  <2> QED
    BY <2>1, ArrayListed
<1> QED
  BY <1>3, <1>4, <1>5 DEF OnlyEntries

(* The first of a list that has the name.                                  *)
FirstNamed(list, name) == SelectInSeq(list, LAMBDA d : d.name = name)

(* The first of that name, if there is one.                                *)
LEMMA FirstNamedIs ==
  ASSUME NEW list, Listed(list), NEW name
  PROVE  LET i == FirstNamed(list, name)
         IN  /\ i \in Nat
             /\ i # 0 => i \in DOMAIN list /\ list[i].name = name
             /\ i = 0 => \A k \in DOMAIN list : list[k].name # name
<1> DEFINE I == {i \in 1..Len(list) : list[i].name = name}
           e == FirstNamed(list, name)
<1>1. e = IF I # {} THEN Min(I) ELSE 0
  BY DEF FirstNamed, SelectInSeq
<1>2. DOMAIN list = 1..Len(list) /\ Len(list) \in Nat
  BY DEF Listed
<1>3. CASE I # {}
  <2>1. I \in SUBSET Nat
    BY <1>2
  <2>2. Min(I) \in I
    <3> HIDE DEF I
    <3> QED
      BY <1>3, <2>1, MinIs
  <2>3. e \in I
    BY <1>1, <1>3, <2>2
  <2> QED
    BY <1>2, <2>3
<1>4. CASE I = {}
  BY <1>1, <1>2, <1>4
<1> QED
  BY <1>3, <1>4

(* The entries of variables.                                               *)
LEMMA VariableLinkIs == \A v : VariableLink(v) \in {"VARIABLE", "POINTER"}
BY DEF VariableLink

(* An own thing of a linked sheet has its entry, with its place.           *)
LEMMA OwnVariable ==
  ASSUME NEW s, NEW x, Laid(s, x), NEW j \in DOMAIN s.vars
  PROVE  LET v == s.vars[j]
             e == EntryOf(s.link, VariableLink(v), v.name)
         IN  /\ e # 0 /\ e \in DOMAIN s.link /\ s.link[e].type = VariableLink(v) /\ s.link[e].name = v.name
             /\ VarOwn(s, x, s.link[e])
             /\ \E p \in DOMAIN s.data : /\ s.link[e].ptr = Index(p) /\ s.data[p].is = "variable"
                                         /\ s.data[p].of = v.name
<1> DEFINE v == s.vars[j]
           e == EntryOf(s.link, VariableLink(v), v.name)
<1>1. Listed(s.link) /\ Unique(s.link)
  BY DEF Laid, CodeListed
<1>2. PICK k \in DOMAIN s.link : s.link[k].type = VariableLink(v) /\ s.link[k].name = v.name
  BY DEF Laid, VarListed, HasEntry
<1>3. e = k
  BY <1>1, <1>2, EntryFound
<1>4. k # 0
  BY <1>1, ListedIs
<1>5. EntryLaid(s, x, s.link[k]) /\ ~OfOthers(s, x, s.link[k])
  BY <1>2, VariableLinkIs DEF Laid, OfOthers, HasVar
<1>6. VarOwn(s, x, s.link[k]) /\ VarPlaced(s, s.link[k])
  BY <1>2, <1>5, VariableLinkIs DEF EntryLaid
<1> HIDE DEF e
<1> QED
  BY <1>2, <1>3, <1>4, <1>6 DEF VarPlaced, e

(* The entry of a sheet's own function is found, and has its place.        *)
LEMMA OwnFunc ==
  ASSUME NEW s, NEW x, Laid(s, x), NEW j \in DOMAIN s.funcs
  PROVE  LET name == s.funcs[j].name
             e == EntryOf(s.link, "FUNCTION", name)
         IN  /\ e # 0 /\ e \in DOMAIN s.link /\ s.link[e].type = "FUNCTION" /\ s.link[e].name = name
             /\ FuncOwn(s, x, s.link[e])
             /\ \E p \in DOMAIN s.text : s.link[e].ptr = Index(p) /\ s.text[p].of = name
<1> DEFINE name == s.funcs[j].name
           e == EntryOf(s.link, "FUNCTION", name)
<1>1. Listed(s.link) /\ Unique(s.link)
  BY DEF Laid, CodeListed
<1>2. PICK k \in DOMAIN s.link : s.link[k].type = "FUNCTION" /\ s.link[k].name = name
  BY DEF Laid, FuncDone
<1>3. e = k
  BY <1>1, <1>2, EntryFound
<1>4. k # 0
  BY <1>1, ListedIs
<1>5. EntryLaid(s, x, s.link[k]) /\ ~OfOthers(s, x, s.link[k])
  BY <1>2 DEF Laid, OfOthers, HasFunc
<1>6. FuncOwn(s, x, s.link[k]) /\ FuncPlaced(s, s.link[k])
  BY <1>2, <1>5 DEF EntryLaid
<1> HIDE DEF e
<1> QED
  BY <1>2, <1>3, <1>4, <1>6 DEF FuncPlaced, e

(* A sheet is where a name is found if and only if it defines it.          *)
LEMMA DefinedInIs ==
  ASSUME NEW mem, NEW x, Laid(mem[x], x), NEW l
  PROVE  LET d == DefinedIn(mem, x, l)
         IN  /\ d # Unknown => d \in DefinedAt(mem, x, l.name) /\ LinkTypeOf(mem, d) = l.type /\ d.sheet = x
             /\ l.type \in {"FUNCTION", "VARIABLE", "POINTER"} =>
                  \A d2 \in DefinedAt(mem, x, l.name) : LinkTypeOf(mem, d2) = l.type => d # Unknown
<1> DEFINE s == mem[x]
           e == EntryOf(s.link, l.type, l.name)
           d == DefinedIn(mem, x, l)
           placed == e # 0 /\ s.link[e].ptr # NotFound
           f == FirstNamed(s.funcs, l.name)
           v == FirstNamed(s.vars, l.name)
<1>1. Listed(s.link) /\ Listed(s.vars) /\ Listed(s.funcs) /\ Distinct(s.vars)
  BY DEF Laid, CodeListed
<1>2. /\ e # 0 => e \in DOMAIN s.link /\ s.link[e].type = l.type /\ s.link[e].name = l.name
  BY <1>1, EntryOfIs
<1>3. /\ f # 0 => f \in DOMAIN s.funcs /\ s.funcs[f].name = l.name
      /\ f = 0 => \A k \in DOMAIN s.funcs : s.funcs[k].name # l.name
      /\ v # 0 => v \in DOMAIN s.vars /\ s.vars[v].name = l.name
      /\ v = 0 => \A k \in DOMAIN s.vars : s.vars[k].name # l.name
  BY <1>1, FirstNamedIs
<1>4. \A n, kind : kind # "unknown" => [kind |-> kind, sheet |-> x, index |-> n] # Unknown
  BY DEF Unknown
<1>5. CASE l.type = "FUNCTION"
  <2>1. d = IF placed /\ f # 0 THEN [kind |-> "function", sheet |-> x, index |-> f] ELSE Unknown
    BY <1>5 DEF DefinedIn, FirstNamed
  <2> HIDE DEF d, f, e
  <2>2. d # Unknown => d \in DefinedAt(mem, x, l.name) /\ LinkTypeOf(mem, d) = l.type /\ d.sheet = x
    BY <1>3, <1>5, <2>1, DefinedAtIs DEF LinkTypeOf
  <2>3. ASSUME NEW d2 \in DefinedAt(mem, x, l.name), LinkTypeOf(mem, d2) = l.type
        PROVE  d # Unknown
    <3>1. PICK j \in DOMAIN s.funcs : s.funcs[j].name = l.name
      BY <1>5, <2>3, DefinedAtIs, VariableLinkIs DEF LinkTypeOf
    <3>2. placed
      <4>1. e = EntryOf(s.link, "FUNCTION", s.funcs[j].name)
        BY <1>5, <3>1 DEF e
      <4>2. e # 0 /\ \E p \in DOMAIN s.text : s.link[e].ptr = Index(p)
        BY <4>1, OwnFunc
      <4> QED
        BY <4>2 DEF Index, NotFound
    <3> HIDE DEF placed
    <3> QED
      BY <1>3, <1>4, <2>1, <3>1, <3>2
  <2> QED
    BY <2>2, <2>3 DEF d
<1>6. CASE l.type \in {"VARIABLE", "POINTER"}
  <2>1. d = IF placed /\ v # 0 THEN [kind |-> "variable", sheet |-> x, index |-> v] ELSE Unknown
    BY <1>6, Zenon DEF DefinedIn, FirstNamed
  <2> HIDE DEF d, v, e
  <2>2. ASSUME d # Unknown
        PROVE  d \in DefinedAt(mem, x, l.name) /\ LinkTypeOf(mem, d) = l.type /\ d.sheet = x
    <3>1. e # 0 /\ v # 0 /\ d = [kind |-> "variable", sheet |-> x, index |-> v]
      BY <2>1, <2>2
    <3>2. EntryLaid(s, x, s.link[e]) /\ ~OfOthers(s, x, s.link[e])
      BY <1>2, <1>3, <1>6, <3>1 DEF Laid, OfOthers, HasVar
    <3>3. PICK j \in DOMAIN s.vars : s.vars[j].name = l.name /\ VariableLink(s.vars[j]) = l.type
      BY <1>2, <1>6, <3>1, <3>2, Zenon DEF EntryLaid, VarOwn
    <3>4. j = v
      BY <1>1, <1>3, <3>1, <3>3 DEF Distinct
    <3>5. d \in DefinedAt(mem, x, l.name)
      BY <1>3, <3>1, DefinedAtIs
    <3> QED
      BY <3>1, <3>3, <3>4, <3>5 DEF LinkTypeOf
  <2>3. ASSUME NEW d2 \in DefinedAt(mem, x, l.name), LinkTypeOf(mem, d2) = l.type
        PROVE  d # Unknown
    <3>1. PICK j \in DOMAIN s.vars : s.vars[j].name = l.name /\ VariableLink(s.vars[j]) = l.type
      BY <1>6, <2>3, DefinedAtIs DEF LinkTypeOf
    <3>2. placed
      <4>1. e = EntryOf(s.link, VariableLink(s.vars[j]), s.vars[j].name)
        BY <3>1 DEF e
      <4>2. e # 0 /\ \E p \in DOMAIN s.data : s.link[e].ptr = Index(p)
        BY <4>1, OwnVariable
      <4> QED
        BY <4>2 DEF Index, NotFound
    <3> HIDE DEF placed
    <3> QED
      BY <1>3, <1>4, <2>1, <3>1, <3>2
  <2> QED
    BY <2>2, <2>3 DEF d
<1>7. CASE l.type \notin {"FUNCTION", "VARIABLE", "POINTER"}
  BY <1>7 DEF DefinedIn
<1> QED
  BY <1>5, <1>6, <1>7

(* What the search behind a sheet comes up with.                           *)
LEMMA SearchIs ==
  ASSUME NEW base, NEW mem, NEW id, Linking(base, mem, id), NEW l
  PROVE  LET r == recursive_find_link_meta(mem, id, l)
         IN  /\ r # Unknown => /\ r \in Meant(mem, id, l.name) /\ LinkTypeOf(mem, r) = l.type
                               /\ r.sheet # id
             /\ (r = Unknown /\ l.type \in {"FUNCTION", "VARIABLE", "POINTER"}) =>
                  \A d \in Meant(mem, id, l.name) : LinkTypeOf(mem, d) = l.type => d.sheet = id
<1> DEFINE visits == Visits(mem, id)
           found  == {k \in 2..Len(visits) : DefinedIn(mem, visits[k], l) # Unknown}
           r      == recursive_find_link_meta(mem, id, l)
<1>1. r = IF found = {} THEN Unknown ELSE DefinedIn(mem, visits[Min(found)], l)
  BY DEF recursive_find_link_meta
<1>2. /\ Ordered(mem, id) /\ IncludesReady(mem) /\ id \in DOMAIN mem /\ id \in Nat
      /\ \A i \in DOMAIN base : SheetWell(mem, i)
  BY LinkingIs, Zenon DEF Linking
<1>3. VisitsWell(mem, id)
  BY <1>2, VisitsAre
<1>4. Len(visits) \in Nat /\ Range(visits) = {visits[k] : k \in 1..Len(visits)}
  BY <1>3, ListedIs DEF VisitsWell
<1>5. ASSUME NEW k \in 2..Len(visits)
      PROVE  Laid(mem[visits[k]], visits[k]) /\ visits[k] \in Within(mem, id) /\ visits[k] # id
  <2>1. visits[k] \in DOMAIN mem /\ visits[k] < id /\ mem[visits[k]].isCompiled
    BY <1>2, WithinReady
  <2>2. visits[k] # id
    BY <1>2, <2>1
  <2>3. visits[k] \in DOMAIN base
    BY <2>1, <2>2 DEF Linking
  <2>4. Laid(mem[visits[k]], visits[k])
    BY <1>2, <2>1, <2>3 DEF SheetWell
  <2>5. k \in 1..Len(visits)
    BY <1>4
  <2> QED
    BY <1>4, <2>2, <2>4, <2>5 DEF Within
<1>6. found \in SUBSET Nat
  BY <1>4
<1>7. found # {} => Min(found) \in found
  <2> HIDE DEF found
  <2> QED
    BY <1>6, MinIs
<1>8. ASSUME r # Unknown
      PROVE  r \in Meant(mem, id, l.name) /\ LinkTypeOf(mem, r) = l.type /\ r.sheet # id
  <2>1. PICK k \in 2..Len(visits) : r = DefinedIn(mem, visits[k], l)
    BY <1>1, <1>7, <1>8, Zenon
  <2>2. r \in DefinedAt(mem, visits[k], l.name) /\ LinkTypeOf(mem, r) = l.type /\ r.sheet = visits[k]
    BY <1>5, <1>8, <2>1, DefinedInIs
  <2> QED
    BY <1>5, <2>2, MeantIs
<1>9. ASSUME r = Unknown, l.type \in {"FUNCTION", "VARIABLE", "POINTER"}, NEW d \in Meant(mem, id, l.name),
             LinkTypeOf(mem, d) = l.type
      PROVE  d.sheet = id
  <2>1. d.sheet \in Within(mem, id) /\ d \in DefinedAt(mem, d.sheet, l.name)
    BY <1>2, MeantWithin
  <2>2. PICK k \in 1..Len(visits) : d.sheet = visits[k]
    BY <1>4, <2>1 DEF Within
  <2>3. CASE k = 1
    BY <1>3, <2>2, <2>3 DEF VisitsWell
  <2>4. CASE k # 1
    <3>1. k \in 2..Len(visits)
      BY <1>4, <2>4
    <3>2. DefinedIn(mem, visits[k], l) # Unknown
      BY <1>5, <1>9, <2>1, <2>2, <3>1, DefinedInIs
    <3>3. found # {} /\ \A j \in found : DefinedIn(mem, visits[j], l) # Unknown
      BY <3>1, <3>2
    <3> HIDE DEF found, r
    <3> QED
      BY <1>1, <1>7, <1>9, <3>3
  <2> QED
    BY <2>3, <2>4
<1> QED
  BY <1>8, <1>9

(* How a sheet comes from an object file: what is of others is unknown.    *)
SavedWell(s, id) ==
  /\ Laid(s, id) /\ s.cFuncs = <<>>
  /\ \A k \in DOMAIN s.link :
       /\ OfOthers(s, id, s.link[k]) => s.link[k].meta = Unknown /\ s.link[k].ptr = NotFound
       /\ s.link[k].type = "CFUNCTION" => s.link[k].ptr # NotFound

(* What the entries of a sheet must be before their places are looked up.  *)
NeedsPlace(s, id, l) == OfOthers(s, id, l) \/ (l.type = "CFUNCTION" /\ ~s.loaded)

(* All definitions are known, and no place in another sheet is.            *)
EntryResolved(mem, id, l) ==
  IF NeedsPlace(mem[id], id, l)
  THEN l.ptr = NotFound /\ l.meta \in Meant(mem, id, l.name) /\ LinkTypeOf(mem, l.meta) = l.type
  ELSE l.ptr # NotFound

OneMeaning(mem, id, s) ==
  ~s.loaded => \A k \in DOMAIN s.insLinks : s.insLinks[k].use.kind = "name" =>
    Meant(mem, id, s.insLinks[k].use.name) = {s.link[s.insLinks[k].link].meta}

Resolved(mem, id) ==
  /\ Laid(mem[id], id) /\ \A k \in DOMAIN mem[id].link : EntryResolved(mem, id, mem[id].link[k])
  /\ OneMeaning(mem, id, mem[id])

(* The sheet's own things have their places.                               *)
LEMMA OwnPlaced ==
  ASSUME NEW s, NEW id, Laid(s, id), NEW k \in DOMAIN s.link, ~OfOthers(s, id, s.link[k]),
         s.link[k].type # "CFUNCTION"
  PROVE  s.link[k].ptr # NotFound
<1> DEFINE l == s.link[k]
<1>1. EntryLaid(s, id, l)
  BY DEF Laid
<1>2. \A p : Index(p) # NotFound
  BY DEF Index, NotFound
<1>3. TextPlaced(s, l) \/ VarPlaced(s, l) \/ FuncPlaced(s, l)
  BY <1>1 DEF EntryLaid, LinkTypes
<1> QED
  BY <1>2, <1>3 DEF TextPlaced, VarPlaced, FuncPlaced

(* A memory of which only the entries of the new sheet are changed.        *)
LEMMA LinkingChanged ==
  ASSUME NEW base, NEW mem, NEW id, Linking(base, mem, id),
         NEW mem2, DOMAIN mem2 = DOMAIN mem, mem2 = [i \in DOMAIN mem2 |-> mem2[i]],
         \A i \in DOMAIN mem : i # id => mem2[i] = mem[i], SameSource(mem[id], mem2[id])
  PROVE  /\ Linking(base, mem2, id)
         /\ \A name : Meant(mem2, id, name) = Meant(mem, id, name)
         /\ \A name : \A d \in Meant(mem, id, name) :
              d.sheet \in DOMAIN mem /\ LinkTypeOf(mem2, d) = LinkTypeOf(mem, d)
<1>1. /\ Ordered(mem, id) /\ id \in DOMAIN mem /\ id \notin DOMAIN base
  BY LinkingIs
<1>2. \A i \in DOMAIN base : mem2[i] = base[i]
  BY <1>1 DEF Linking
<1>3. mem2[id].includes = mem[id].includes
  BY DEF SameSource, SameThings
<1>4. Linking(base, mem2, id)
  BY <1>2, <1>3 DEF Linking
<1>5. Ordered(mem2, id)
  BY <1>4, LinkingIs
<1>6. \A i \in DOMAIN mem : SameThings(mem[i], mem2[i])
  BY DEF SameSource, SameThings
<1>7. \A name : Meant(mem2, id, name) = Meant(mem, id, name)
  BY <1>1, <1>5, <1>6, MeantSame
<1>8. ASSUME NEW name, NEW d \in Meant(mem, id, name)
      PROVE  d.sheet \in DOMAIN mem /\ LinkTypeOf(mem2, d) = LinkTypeOf(mem, d)
  <2>1. d.sheet \in DOMAIN mem
    BY <1>1, MeantWithin
  <2>2. mem2[d.sheet].vars = mem[d.sheet].vars
    BY <1>6, <2>1 DEF SameThings
  <2> QED
    BY <2>1, <2>2 DEF LinkTypeOf
<1> QED
  BY <1>4, <1>7, <1>8

(* What a name may mean is not unknown.                                    *)
LEMMA MeantKnown ==
  ASSUME NEW mem, NEW id, NEW name, NEW d \in Meant(mem, id, name)
  PROVE  d # Unknown
<1>1. PICK i : d \in DefinedAt(mem, i, name)
  BY MeantIs
<1>2. d.kind \in {"variable", "function", "cFunction"}
  BY <1>1, DefinedSheet
<1> QED
  BY <1>2 DEF Unknown

(* In a sheet from source all is found.                                    *)
LEMMA FindsNothing ==
  ASSUME NEW base, NEW mem, NEW id, Linking(base, mem, id), Resolved(mem, id)
  PROVE  d_link_find_included(mem, id) = mem
<1> DEFINE s == mem[id]
           link == s.link
           link2 == [k \in DOMAIN link |-> IF Elsewhere(link[k]) /\ link[k].meta = Unknown
                                           THEN [link[k] EXCEPT !.meta = recursive_find_link_meta(mem, id, link[k])]
                                           ELSE link[k]]
<1>1. d_link_find_included(mem, id) = [mem EXCEPT ![id].link = link2]
  BY DEF d_link_find_included, OnEntries
<1>2. ASSUME NEW k \in DOMAIN link
      PROVE  ~(Elsewhere(link[k]) /\ link[k].meta = Unknown)
  <2>1. EntryResolved(mem, id, link[k])
    BY DEF Resolved
  <2> QED
    BY <2>1, MeantKnown DEF EntryResolved, Elsewhere
<1>3. IsSheet(s) /\ link = [k \in DOMAIN link |-> link[k]]
  BY ListedIs DEF Resolved, Laid, CodeListed, Listed
<1>4. link2 = link
  BY <1>2, <1>3
<1> HIDE DEF link2
<1>5. id \in DOMAIN mem /\ mem = [i \in DOMAIN mem |-> mem[i]]
  BY DEF Linking
<1>6. [s EXCEPT !.link = link] = s
  BY <1>3 DEF IsSheet
<1>7. [mem EXCEPT ![id] = [s EXCEPT !.link = link]] = mem
  BY <1>5, <1>6
<1> QED
  BY <1>1, <1>4, <1>7

(* In a sheet from an object file all is found, or it is missing.          *)
LEMMA FindResolves ==
  ASSUME NEW base, NEW mem, NEW id, Linking(base, mem, id), SavedWell(mem[id], id), mem[id].loaded,
         NEW mem2, mem2 = d_link_find_included(mem, id)
  PROVE  /\ Linking(base, mem2, id) /\ SameSource(mem[id], mem2[id])
         /\ ~Crashes(mem2, id) => Resolved(mem2, id)
         /\ Crashes(mem2, id) => Missing(mem, id)
<1> DEFINE s == mem[id]
           link == s.link
           R(l) == recursive_find_link_meta(mem, id, l)
           link2 == [k \in DOMAIN link |-> IF Elsewhere(link[k]) /\ link[k].meta = Unknown
                                           THEN [link[k] EXCEPT !.meta = R(link[k])] ELSE link[k]]
           t == mem2[id]
<1>1. mem2 = [mem EXCEPT ![id].link = link2]
  BY DEF d_link_find_included, OnEntries
<1>2. Laid(s, id) /\ CodeListed(s) /\ s.cFuncs = <<>>
  BY DEF SavedWell, Laid
<1>3. link2 = [k \in DOMAIN link |-> link2[k]]
  OBVIOUS
<1>4. ASSUME NEW k \in DOMAIN link
      PROVE  /\ IsEntry(link2[k]) /\ link2[k].type = link[k].type /\ link2[k].name = link[k].name
             /\ link2[k].ptr = link[k].ptr
             /\ IF OfOthers(s, id, link[k]) THEN link2[k].meta = R(link[k]) /\ link2[k].ptr = NotFound
                ELSE link2[k] = link[k] /\ link2[k].ptr # NotFound
  <2> DEFINE l == link[k]
  <2>1. IsEntry(l)
    BY <1>2 DEF CodeListed
  <2>2. PICK r : r = R(l)
    OBVIOUS
  <2>3. link2[k] = IF Elsewhere(l) /\ l.meta = Unknown THEN [l EXCEPT !.meta = r] ELSE l
    BY <2>2
  <2>4. /\ OfOthers(s, id, l) => l.meta = Unknown /\ l.ptr = NotFound
        /\ ~OfOthers(s, id, l) => l.ptr # NotFound
    BY <1>2, OwnPlaced DEF SavedWell
  <2> HIDE DEF link2, R, l
  <2>5. CASE OfOthers(s, id, l)
    <3>1. link2[k] = [l EXCEPT !.meta = r] /\ l.ptr = NotFound
      BY <2>3, <2>4, <2>5 DEF Elsewhere
    <3>2. /\ IsEntry(link2[k]) /\ link2[k].type = l.type /\ link2[k].name = l.name
          /\ link2[k].ptr = l.ptr /\ link2[k].meta = r
      BY <2>1, <3>1 DEF IsEntry
    <3> QED
      BY <2>2, <2>5, <3>1, <3>2 DEF l
  <2>6. CASE ~OfOthers(s, id, l)
    BY <2>1, <2>3, <2>4, <2>6 DEF Elsewhere, l
  <2> QED
    BY <2>5, <2>6 DEF l
<1> HIDE DEF link2
<1>5. id \in DOMAIN mem /\ mem = [i \in DOMAIN mem |-> mem[i]] /\ id \in Nat \ {0}
  BY DEF Linking
<1>6. /\ DOMAIN mem2 = DOMAIN mem /\ mem2 = [i \in DOMAIN mem2 |-> mem2[i]]
      /\ \A i \in DOMAIN mem : i # id => mem2[i] = mem[i]
      /\ IsSheet(t) /\ SameSource(s, t)
      /\ t.text = s.text /\ t.data = s.data /\ t.insLinks = s.insLinks /\ t.link = link2
      /\ Listed(link2) /\ DOMAIN link2 = DOMAIN link
  <2>1. OnlyEntries(mem, mem2, id, link2)
    BY <1>1, <1>2, <1>3, <1>5, EntriesChanged, Zenon
  <2> QED
    BY <2>1 DEF OnlyEntries
<1> HIDE DEF t
<1>7. /\ Linking(base, mem2, id) /\ \A name : Meant(mem2, id, name) = Meant(mem, id, name)
      /\ \A name : \A d \in Meant(mem, id, name) :
           d.sheet \in DOMAIN mem /\ LinkTypeOf(mem2, d) = LinkTypeOf(mem, d)
  BY <1>6, LinkingChanged DEF t
<1>8. ASSUME NEW k \in DOMAIN link
      PROVE  LET l == link[k]
             IN  /\ R(l) # Unknown => /\ R(l) \in Meant(mem, id, l.name) /\ LinkTypeOf(mem, R(l)) = l.type
                                      /\ R(l).sheet # id
                 /\ (R(l) = Unknown /\ l.type \in {"FUNCTION", "VARIABLE", "POINTER"}) =>
                      \A d \in Meant(mem, id, l.name) : LinkTypeOf(mem, d) = l.type => d.sheet = id
  BY SearchIs
<1> HIDE DEF R
<1>9. LinkChanged(s, t, id)
  <2>1. Unknown.sheet # id
    BY <1>5 DEF Unknown
  <2> QED
    BY <1>4, <1>6, <1>8, <2>1 DEF LinkChanged
<1>10. Laid(t, id)
  BY <1>2, <1>9, LaidRelinked
<1>11. \A k \in DOMAIN link : OfOthers(t, id, link2[k]) => OfOthers(s, id, link[k])
  <2>1. ASSUME NEW k \in DOMAIN link, OfOthers(t, id, link2[k]), ~OfOthers(s, id, link[k])
        PROVE  FALSE
    <3>1. link2[k] = link[k]
      BY <1>4, <2>1
    <3>2. t.vars = s.vars /\ t.funcs = s.funcs
      BY <1>6, Zenon DEF SameSource, SameThings
    <3> QED
      BY <2>1, <3>1, <3>2 DEF OfOthers, HasVar, HasFunc
  <2> QED
    BY <2>1
<1>12. ASSUME ~Crashes(mem2, id)
       PROVE  Resolved(mem2, id)
  <2>1. ASSUME NEW k \in DOMAIN link
        PROVE  EntryResolved(mem2, id, link2[k])
    <3>1. t.loaded
      BY <1>6, Zenon DEF SameSource
    <3>2. CASE OfOthers(s, id, link[k])
      <4>1. link2[k].type \in {"VARIABLE", "POINTER", "FUNCTION"}
        BY <1>4, <3>2 DEF OfOthers
      <4>2. link2[k] \in Range(t.link)
        BY <1>6 DEF Range
      <4>3. link2[k].meta # Unknown
        BY <1>4, <1>12, <3>2, <4>1, <4>2 DEF Crashes, Elsewhere, t
      <4>4. link2[k].meta \in Meant(mem, id, link2[k].name) /\ LinkTypeOf(mem, link2[k].meta) = link2[k].type
        BY <1>4, <1>8, <3>2, <4>3
      <4>5. link2[k].ptr = NotFound
        BY <1>4, <3>2
      <4>6. NeedsPlace(t, id, link2[k])
        <5>1. link2[k].meta.sheet # id
          BY <1>4, <1>8, <3>2, <4>3
        <5>2. t.vars = s.vars /\ t.funcs = s.funcs
          BY <1>6 DEF SameSource, SameThings
        <5> QED
          BY <1>4, <3>2, <5>1, <5>2 DEF NeedsPlace, OfOthers, HasVar, HasFunc
      <4> QED
        BY <1>7, <4>4, <4>5, <4>6 DEF EntryResolved, t
    <3>3. CASE ~OfOthers(s, id, link[k])
      <4>1. ~NeedsPlace(t, id, link2[k]) /\ link2[k].ptr # NotFound
        BY <1>4, <1>11, <3>1, <3>3 DEF NeedsPlace
      <4> QED
        BY <4>1 DEF EntryResolved, t
    <3> QED
      BY <3>2, <3>3
  <2>2. t.loaded
    BY <1>6, Zenon DEF SameSource
  <2> QED
    BY <1>6, <1>10, <2>1, <2>2 DEF Resolved, OneMeaning, t
<1>13. ASSUME Crashes(mem2, id)
       PROVE  Missing(mem, id)
  <2>1. PICK k \in DOMAIN link : /\ link2[k].ptr = NotFound /\ link2[k].meta = Unknown
                                 /\ link2[k].type \in {"VARIABLE", "POINTER", "FUNCTION"}
    BY <1>6, <1>13 DEF Crashes, Elsewhere, Range, t
  <2> DEFINE l == link[k]
  <2>2. OfOthers(s, id, l) /\ R(l) = Unknown /\ l.ptr = NotFound /\ l.type = link2[k].type
    BY <1>4, <2>1
  <2>3. ASSUME NEW d \in Meant(mem, id, l.name), LinkTypeOf(mem, d) = l.type
        PROVE  FALSE
    <3>1. d.sheet = id
      BY <1>8, <2>1, <2>2, <2>3
    <3>2. d \in DefinedAt(mem, id, l.name)
      <4>1. Ordered(mem, id) /\ id \in DOMAIN mem
        BY LinkingIs
      <4> QED
        BY <3>1, <4>1, MeantWithin
    <3>3. \/ \E j \in DOMAIN s.vars : /\ s.vars[j].name = l.name
                                      /\ d = [kind |-> "variable", sheet |-> id, index |-> j]
          \/ \E j \in DOMAIN s.funcs : /\ s.funcs[j].name = l.name
                                       /\ d = [kind |-> "function", sheet |-> id, index |-> j]
      BY <1>2, <3>2, DefinedAtIs
    <3>4. CASE \E j \in DOMAIN s.vars : /\ s.vars[j].name = l.name
                                        /\ d = [kind |-> "variable", sheet |-> id, index |-> j]
      BY <2>2, <2>3, <3>4, VariableLinkIs DEF LinkTypeOf, OfOthers, HasVar
    <3>5. CASE \E j \in DOMAIN s.funcs : /\ s.funcs[j].name = l.name
                                         /\ d = [kind |-> "function", sheet |-> id, index |-> j]
      BY <2>2, <2>3, <3>5 DEF LinkTypeOf, OfOthers, HasFunc
    <3> QED
      BY <3>3, <3>4, <3>5
  <2>4. l \in Range(mem[id].link)
    BY DEF Range
  <2> QED
    BY <2>2, <2>3, <2>4 DEF Missing
<1> QED
  BY <1>6, <1>7, <1>12, <1>13 DEF t

(* The place of a thing of another sheet.                                  *)
Theirs(mem, l) ==
  LET link == mem[l.meta.sheet].link IN link[EntryOf(link, l.type, l.name)].ptr
Place(mem, l) ==
  CASE l.type \in {"VARIABLE", "POINTER"} -> Plus(l.meta.sheet, "data", Theirs(mem, l))
    [] l.type = "FUNCTION"  -> Plus(l.meta.sheet, "text", Theirs(mem, l))
    [] l.type = "CFUNCTION" -> Address(l.meta.sheet, "c", l.meta.index)
    [] OTHER                -> l.ptr

(* What is meant and is not the sheet's own is in a linked sheet.          *)
LEMMA ElsewhereIsLaid ==
  ASSUME NEW base, NEW mem, NEW id, Linking(base, mem, id), NEW name, NEW d \in Meant(mem, id, name),
         d.sheet # id
  PROVE  d.sheet \in DOMAIN base /\ Laid(mem[d.sheet], d.sheet)
<1>1. /\ Ordered(mem, id) /\ IncludesReady(mem) /\ id \in DOMAIN mem
      /\ \A i \in DOMAIN base : SheetWell(mem, i)
  BY LinkingIs
<1>2. d.sheet \in Within(mem, id) /\ d.sheet \in DOMAIN mem
  BY <1>1, MeantWithin
<1>3. d.sheet \in DOMAIN base
  BY <1>2 DEF Linking
<1>4. VisitsWell(mem, id)
  BY <1>1, VisitsAre
<1>5. Len(Visits(mem, id)) \in Nat /\ Range(Visits(mem, id)) = {Visits(mem, id)[k] : k \in 1..Len(Visits(mem, id))}
  BY <1>4, ListedIs, Zenon DEF VisitsWell
<1>6. PICK k \in 1..Len(Visits(mem, id)) : d.sheet = Visits(mem, id)[k]
  BY <1>2, <1>5 DEF Within
<1>7. k \in 2..Len(Visits(mem, id))
  BY <1>4, <1>5, <1>6 DEF VisitsWell
<1>8. mem[d.sheet].isCompiled
  BY <1>1, <1>6, <1>7, WithinReady
<1> QED
  BY <1>1, <1>3, <1>8 DEF SheetWell

(* What is the sheet's own is in no other.                                 *)
LEMMA OwnSheet ==
  ASSUME NEW c, NEW id, NEW l, VarOwn(c, id, l) \/ FuncOwn(c, id, l)
  PROVE  l.meta.sheet = id
<1>1. PICK i, kind : l.meta = [kind |-> kind, sheet |-> id, index |-> i]
  BY Zenon DEF VarOwn, FuncOwn
<1> QED
  BY <1>1

(* The place that is calculated is that of the thing.                      *)
VariableAt(mem, l) ==
  /\ l.meta.kind = "variable"
  /\ \E p \in DOMAIN mem[l.meta.sheet].data :
       /\ Place(mem, l) = Address(l.meta.sheet, "data", p)
       /\ mem[l.meta.sheet].data[p].is = "variable" /\ mem[l.meta.sheet].data[p].of = l.name

FunctionAt(mem, l) ==
  /\ l.meta.kind = "function"
  /\ \E p \in DOMAIN mem[l.meta.sheet].text :
       /\ Place(mem, l) = Address(l.meta.sheet, "text", p)
       /\ mem[l.meta.sheet].text[p].of = l.name

(* The place of another sheet's variable.                                  *)
LEMMA VariablePlace ==
  ASSUME NEW base, NEW mem, NEW id, Linking(base, mem, id), NEW l, l.meta \in Meant(mem, id, l.name),
         LinkTypeOf(mem, l.meta) = l.type, l.meta.sheet # id, l.type \in {"VARIABLE", "POINTER"}
  PROVE  VariableAt(mem, l)
<1> DEFINE x == l.meta.sheet
           t == mem[x]
<1>1. Laid(t, x)
  BY ElsewhereIsLaid
<1>2. l.meta \in DefinedAt(mem, x, l.name)
  <2>1. Ordered(mem, id) /\ id \in DOMAIN mem
    BY LinkingIs
  <2> QED
    BY <2>1, MeantWithin
<1>3. l.meta.kind = "variable"
  <2>1. l.meta.kind \in {"variable", "function", "cFunction"}
    BY <1>2, DefinedSheet
  <2> QED
    BY <2>1 DEF LinkTypeOf
<1>4. PICK j \in DOMAIN t.vars : /\ t.vars[j].name = l.name
                                 /\ l.meta = [kind |-> "variable", sheet |-> x, index |-> j]
  BY <1>2, <1>3, DefinedAtIs
<1>5. VariableLink(t.vars[j]) = l.type
  BY <1>4 DEF LinkTypeOf
<1>6. PICK p \in DOMAIN t.data : /\ t.link[EntryOf(t.link, l.type, l.name)].ptr = Index(p)
                                 /\ t.data[p].is = "variable" /\ t.data[p].of = l.name
  BY <1>1, <1>4, <1>5, OwnVariable, ZenonT(40)
<1>7. Theirs(mem, l) = Index(p)
  BY <1>6 DEF Theirs
<1>8. Place(mem, l) = Address(x, "data", p)
  BY <1>7 DEF Place, Plus, Index
<1> QED
  BY <1>3, <1>6, <1>8 DEF VariableAt

(* That of another sheet's function.                                       *)
LEMMA FunctionPlace ==
  ASSUME NEW base, NEW mem, NEW id, Linking(base, mem, id), NEW l, l.meta \in Meant(mem, id, l.name),
         LinkTypeOf(mem, l.meta) = l.type, l.meta.sheet # id, l.type = "FUNCTION"
  PROVE  FunctionAt(mem, l)
<1> DEFINE x == l.meta.sheet
           t == mem[x]
<1>1. Laid(t, x)
  BY ElsewhereIsLaid
<1>2. l.meta \in DefinedAt(mem, x, l.name)
  <2>1. Ordered(mem, id) /\ id \in DOMAIN mem
    BY LinkingIs
  <2> QED
    BY <2>1, MeantWithin
<1>3. l.meta.kind = "function"
  <2>1. l.meta.kind \in {"variable", "function", "cFunction"}
    BY <1>2, DefinedSheet
  <2> QED
    BY <2>1, VariableLinkIs DEF LinkTypeOf
<1>4. PICK j \in DOMAIN t.funcs : t.funcs[j].name = l.name
  BY <1>2, <1>3, DefinedAtIs
<1>5. PICK p \in DOMAIN t.text : /\ t.link[EntryOf(t.link, l.type, l.name)].ptr = Index(p)
                                 /\ t.text[p].of = l.name
  BY <1>1, <1>4, OwnFunc
<1>6. Theirs(mem, l) = Index(p)
  BY <1>5 DEF Theirs
<1>7. Place(mem, l) = Address(x, "text", p)
  BY <1>6 DEF Place, Plus, Index
<1> QED
  BY <1>3, <1>5, <1>7 DEF FunctionAt

(* That of a C function.                                                   *)
LEMMA CFunctionPlace ==
  ASSUME NEW mem, NEW id, NEW l, l.meta \in Meant(mem, id, l.name),
         LinkTypeOf(mem, l.meta) = l.type, l.type = "CFUNCTION"
  PROVE  l.meta.kind = "cFunction" /\ Place(mem, l) = Address(l.meta.sheet, "c", l.meta.index)
<1>1. PICK i : l.meta \in DefinedAt(mem, i, l.name)
  BY MeantIs
<1>2. l.meta.kind \in {"variable", "function", "cFunction"}
  BY <1>1, DefinedSheet
<1> QED
  BY <1>2, VariableLinkIs DEF LinkTypeOf, Place

-----------------------------------------------------------------------------
(* An entry, and the entry with its place.                                 *)
Placed(mem, l) == IF Elsewhere(l) THEN [l EXCEPT !.ptr = Place(mem, l)] ELSE l

(* What precalculating the places is.                                      *)
LEMMA PlacedIs ==
  ASSUME NEW mem, NEW id, NEW mem2, mem2 = d_link_precalculate_ptr(mem, id)
  PROVE  mem2 = [mem EXCEPT ![id].link = [k \in DOMAIN mem[id].link |-> Placed(mem, mem[id].link[k])]]
BY Zenon DEF d_link_precalculate_ptr, OnEntries, Placed, Place, Theirs

(* An entry is given its place, and keeps one it has.                      *)
LEMMA EntryPlaced ==
  ASSUME NEW mem, NEW l, IsEntry(l), NEW m, m = Placed(mem, l)
  PROVE  /\ IsEntry(m) /\ m.type = l.type /\ m.name = l.name /\ m.meta = l.meta
         /\ m.ptr = IF l.ptr = NotFound THEN Place(mem, l) ELSE l.ptr
         /\ l.ptr # NotFound => m = l
<1>1. PICK p : p = Place(mem, l)
  OBVIOUS
<1>2. m = IF l.ptr = NotFound THEN [l EXCEPT !.ptr = p] ELSE l
  BY <1>1 DEF Placed, Elsewhere
<1>3. m.ptr = IF l.ptr = NotFound THEN p ELSE l.ptr
  BY <1>2 DEF IsEntry
<1> QED
  BY <1>1, <1>2, <1>3 DEF IsEntry

(* All entries of the new sheet know where their things are.               *)
LEMMA AllPlaced ==
  ASSUME NEW base, NEW mem, NEW id, Linking(base, mem, id), Resolved(mem, id),
         NEW mem2, mem2 = d_link_precalculate_ptr(mem, id)
  PROVE  /\ Linking(base, mem2, id) /\ LinkChanged(mem[id], mem2[id], id) /\ Laid(mem2[id], id)
         /\ \A k \in DOMAIN mem2[id].link : EntryLinked(mem2, id, mem2[id].link[k])
         /\ OneMeaning(mem2, id, mem2[id])
<1> DEFINE s == mem[id]
           link == s.link
           link2 == [k \in DOMAIN link |-> Placed(mem, link[k])]
           t == mem2[id]
<1>1. mem2 = [mem EXCEPT ![id].link = link2]
  BY PlacedIs
<1>2. Laid(s, id) /\ CodeListed(s)
  BY DEF Resolved, Laid
<1>3. link2 = [k \in DOMAIN link |-> link2[k]]
  OBVIOUS
<1>4. ASSUME NEW k \in DOMAIN link
      PROVE  /\ IsEntry(link2[k]) /\ link2[k].type = link[k].type /\ link2[k].name = link[k].name
             /\ link2[k].meta = link[k].meta
             /\ link2[k].ptr = IF link[k].ptr = NotFound THEN Place(mem, link[k]) ELSE link[k].ptr
             /\ link[k].ptr # NotFound => link2[k] = link[k]
  <2>1. IsEntry(link[k])
    BY <1>2 DEF CodeListed
  <2>2. link2[k] = Placed(mem, link[k])
    OBVIOUS
  <2> HIDE DEF link2
  <2> QED
    BY <2>1, <2>2, EntryPlaced
<1> HIDE DEF link2
<1>5. id \in DOMAIN mem /\ mem = [i \in DOMAIN mem |-> mem[i]]
  BY DEF Linking
<1>6. /\ DOMAIN mem2 = DOMAIN mem /\ mem2 = [i \in DOMAIN mem2 |-> mem2[i]]
      /\ \A i \in DOMAIN mem : i # id => mem2[i] = mem[i]
      /\ IsSheet(t) /\ SameSource(s, t)
      /\ t.text = s.text /\ t.data = s.data /\ t.insLinks = s.insLinks /\ t.link = link2
      /\ Listed(link2) /\ DOMAIN link2 = DOMAIN link
  <2>1. OnlyEntries(mem, mem2, id, link2)
    BY <1>1, <1>2, <1>3, <1>5, EntriesChanged, Zenon
  <2> QED
    BY <2>1 DEF OnlyEntries
<1>7. /\ Linking(base, mem2, id) /\ \A name : Meant(mem2, id, name) = Meant(mem, id, name)
  BY <1>6, LinkingChanged
<1>8. \A k \in DOMAIN link : EntryResolved(mem, id, link[k]) /\ EntryLaid(s, id, link[k])
  BY <1>2 DEF Resolved, Laid
<1>9. ASSUME NEW k \in DOMAIN link, NeedsPlace(s, id, link[k])
      PROVE  /\ link[k].ptr = NotFound /\ link[k].meta \in Meant(mem, id, link[k].name)
             /\ LinkTypeOf(mem, link[k].meta) = link[k].type
             /\ link2[k].ptr = Place(mem, link[k])
  BY <1>4, <1>8, <1>9 DEF EntryResolved
<1>10. ASSUME NEW k \in DOMAIN link, ~NeedsPlace(s, id, link[k])
       PROVE  link2[k] = link[k] /\ link[k].ptr # NotFound
  BY <1>4, <1>8, <1>10 DEF EntryResolved
<1> HIDE DEF t
<1>11. LinkChanged(s, t, id)
  <2>1. ASSUME NEW k \in DOMAIN link
        PROVE  \/ link2[k] = link[k]
               \/ link[k].type = "CFUNCTION"
               \/ OfOthers(s, id, link[k]) /\ link2[k].meta.sheet # id
    BY <1>4, <1>10 DEF NeedsPlace, OfOthers
  <2> QED
    BY <1>4, <1>6, <2>1 DEF LinkChanged
<1>12. Laid(t, id)
  BY <1>2, <1>11, LaidRelinked
<1>13. ASSUME NEW k \in DOMAIN link
       PROVE  EntryLinked(mem2, id, link2[k])
  <2> DEFINE l == link[k]
             m == link2[k]
             x == l.meta.sheet
  <2>1. m.type = l.type /\ m.name = l.name /\ m.meta = l.meta
    BY <1>4
  <2>2. ASSUME l.type \in {"VARIABLE", "POINTER", "FUNCTION"}, x # id
        PROVE  /\ NeedsPlace(s, id, l) /\ x \in DOMAIN base /\ mem2[x] = mem[x] /\ mem[x] = base[x]
    <3>1. ~VarOwn(s, id, l) /\ ~FuncOwn(s, id, l)
      BY <2>2, OwnSheet
    <3>2. NeedsPlace(s, id, l)
      BY <1>8, <2>2, <3>1 DEF EntryLaid, NeedsPlace
    <3>3. x \in DOMAIN base
      BY <1>9, <2>2, <3>2, ElsewhereIsLaid
    <3> QED
      BY <1>6, <2>2, <3>2, <3>3 DEF Linking
  <2>3. ASSUME m.type \in {"VARIABLE", "POINTER"}, m.meta.sheet # id
        PROVE  /\ m.meta \in Meant(mem2, id, m.name) /\ m.meta.kind = "variable"
               /\ \E p \in DOMAIN mem2[m.meta.sheet].data :
                    /\ m.ptr = Address(m.meta.sheet, "data", p)
                    /\ mem2[m.meta.sheet].data[p].is = "variable" /\ mem2[m.meta.sheet].data[p].of = m.name
    <3>1. l.type \in {"VARIABLE", "POINTER"} /\ x # id
      BY <2>1, <2>3
    <3>2. NeedsPlace(s, id, l) /\ mem2[x] = mem[x]
      BY <2>2, <3>1
    <3>3. l.meta \in Meant(mem, id, l.name) /\ LinkTypeOf(mem, l.meta) = l.type /\ m.ptr = Place(mem, l)
      BY <1>9, <3>2
    <3>4. VariableAt(mem, l)
      BY <3>1, <3>3, VariablePlace
    <3>5. mem2[m.meta.sheet] = mem[l.meta.sheet] /\ Meant(mem2, id, m.name) = Meant(mem, id, l.name)
      BY <1>7, <2>1, <3>2
    <3> HIDE DEF l, m
    <3> QED
      BY <2>1, <3>3, <3>4, <3>5 DEF VariableAt
  <2>4. ASSUME m.type = "FUNCTION", m.meta.sheet # id
        PROVE  /\ m.meta \in Meant(mem2, id, m.name) /\ m.meta.kind = "function"
               /\ \E p \in DOMAIN mem2[m.meta.sheet].text :
                    /\ m.ptr = Address(m.meta.sheet, "text", p)
                    /\ mem2[m.meta.sheet].text[p].of = m.name
    <3>1. l.type = "FUNCTION" /\ x # id
      BY <2>1, <2>4
    <3>2. NeedsPlace(s, id, l) /\ mem2[x] = mem[x]
      BY <2>2, <3>1
    <3>3. l.meta \in Meant(mem, id, l.name) /\ LinkTypeOf(mem, l.meta) = l.type /\ m.ptr = Place(mem, l)
      BY <1>9, <3>2
    <3>4. FunctionAt(mem, l)
      BY <3>1, <3>3, FunctionPlace
    <3>5. mem2[m.meta.sheet] = mem[l.meta.sheet] /\ Meant(mem2, id, m.name) = Meant(mem, id, l.name)
      BY <1>7, <2>1, <3>2
    <3> HIDE DEF l, m
    <3> QED
      BY <2>1, <3>3, <3>4, <3>5 DEF FunctionAt
  <2>5. ASSUME m.type = "CFUNCTION"
        PROVE  /\ m.ptr # NotFound
               /\ ~mem2[id].loaded => /\ m.meta \in Meant(mem2, id, m.name) /\ m.meta.kind = "cFunction"
                                      /\ m.ptr = Address(m.meta.sheet, "c", m.meta.index)
    <3>1. l.type = "CFUNCTION" /\ mem2[id].loaded = s.loaded
      BY <1>6, <2>1, <2>5 DEF SameSource, t
    <3>2. CASE s.loaded
      <4>1. ~NeedsPlace(s, id, l)
        BY <3>1, <3>2, Zenon DEF NeedsPlace, OfOthers
      <4> QED
        BY <1>10, <3>1, <3>2, <4>1, Zenon
    <3>3. CASE ~s.loaded
      <4>1. NeedsPlace(s, id, l)
        BY <3>1, <3>3 DEF NeedsPlace
      <4>2. l.meta \in Meant(mem, id, l.name) /\ LinkTypeOf(mem, l.meta) = l.type /\ m.ptr = Place(mem, l)
        BY <1>9, <4>1
      <4>3. l.meta.kind = "cFunction" /\ Place(mem, l) = Address(l.meta.sheet, "c", l.meta.index)
        BY <3>1, <4>2, CFunctionPlace
      <4>4. \A a, b : Address(a, "c", b) # NotFound
        BY DEF Address, NotFound
      <4> HIDE DEF l, m
      <4> QED
        BY <1>7, <2>1, <4>2, <4>3, <4>4
    <3> QED
      BY <3>2, <3>3
  <2> HIDE DEF l, m
  <2>6. EntryLinked(mem2, id, m)
    BY <2>3, <2>4, <2>5 DEF EntryLinked
  <2> QED
    BY <2>6 DEF m
<1>14. OneMeaning(mem2, id, t)
  <2>1. t.loaded = s.loaded
    BY <1>6 DEF SameSource
  <2>2. \A k \in DOMAIN s.insLinks : link2[s.insLinks[k].link].meta = link[s.insLinks[k].link].meta
    BY <1>2, <1>4 DEF Laid, UseLaid
  <2> QED
    BY <1>6, <1>7, <2>1, <2>2 DEF Resolved, OneMeaning
<1> QED
  BY <1>6, <1>7, <1>11, <1>12, <1>13, <1>14 DEF t

-----------------------------------------------------------------------------
(* A sheet is linked: its operands and its string variables are set.       *)
StringCell(s, k) ==
  /\ s.data[k].is = "variable"
  /\ \E i \in DOMAIN s.vars : s.vars[i].type = "String" /\ s.vars[i].name = s.data[k].of

SelfLinked(s, t, id) ==
  /\ SameLayout(s, t) /\ OperandsSet(t, id) /\ StringsSet(t, id)
  /\ \A k \in DOMAIN s.data : t.data[k] = s.data[k] \/ StringCell(s, k)

LinksAt(s, j) == {k \in Range(s.insLinks) : k.ins = j}

DefaultsOf(s, k) ==
  {d \in Range(s.link) : d.type = "DEFAULT" /\
     LET e == EntryOf(s.link, "POINTER", d.name) IN e # 0 /\ s.link[e].ptr.at = k}

(* The members of a list.                                                  *)
LEMMA RangeIs == ASSUME NEW s, NEW x PROVE x \in Range(s) <=> \E i \in DOMAIN s : s[i] = x
BY DEF Range

(* The operands are what the entries say.                                  *)
LEMMA OperandsAre ==
  ASSUME NEW s, NEW id, Laid(s, id), NEW text, text = Operands(s, id)
  PROVE  /\ text = [j \in DOMAIN s.text |-> text[j]]
         /\ \A j \in DOMAIN s.text : IsIns(text[j]) /\ text[j].of = s.text[j].of
         /\ \A k \in DOMAIN s.insLinks :
              text[s.insLinks[k].ins].imm = Operand(id, s.link[s.insLinks[k].link])
<1>1. text = [j \in DOMAIN s.text |->
        IF LinksAt(s, j) = {} THEN s.text[j]
        ELSE [s.text[j] EXCEPT !.imm = Operand(id, s.link[(CHOOSE k \in LinksAt(s, j) : TRUE).link])]]
  BY DEF Operands, LinksAt
<1>2. ASSUME NEW j \in DOMAIN s.text
      PROVE  \E imm : /\ text[j] = IF LinksAt(s, j) = {} THEN s.text[j] ELSE [s.text[j] EXCEPT !.imm = imm]
                      /\ LinksAt(s, j) # {} => \E k \in LinksAt(s, j) : imm = Operand(id, s.link[k.link])
  <2>1. PICK g : g = CHOOSE k \in LinksAt(s, j) : TRUE
    OBVIOUS
  <2>2. LinksAt(s, j) # {} => g \in LinksAt(s, j)
    BY <2>1
  <2>3. PICK imm : imm = Operand(id, s.link[g.link])
    OBVIOUS
  <2>4. text[j] = IF LinksAt(s, j) = {} THEN s.text[j] ELSE [s.text[j] EXCEPT !.imm = imm]
    BY <1>1, <2>1, <2>3
  <2> QED
    BY <2>2, <2>3, <2>4, Zenon
<1>3. \A j \in DOMAIN s.text : IsIns(s.text[j])
  BY DEF Laid, CodeListed
<1>4. ASSUME NEW j \in DOMAIN s.text
      PROVE  IsIns(text[j]) /\ text[j].of = s.text[j].of
  BY <1>2, <1>3, Zenon DEF IsIns
<1>5. ASSUME NEW k \in DOMAIN s.insLinks
      PROVE  text[s.insLinks[k].ins].imm = Operand(id, s.link[s.insLinks[k].link])
  <2> DEFINE u == s.insLinks[k]
             j == u.ins
  <2>1. j \in DOMAIN s.text
    BY DEF Laid, UseLaid
  <2>2. u \in LinksAt(s, j)
    BY RangeIs DEF LinksAt
  <2>3. \A v \in LinksAt(s, j) : v = u
    <3>1. ASSUME NEW v \in LinksAt(s, j)
          PROVE  v = u
      <4>1. PICK n \in DOMAIN s.insLinks : v = s.insLinks[n]
        BY <3>1, RangeIs DEF LinksAt
      <4>2. v.ins = j
        BY <3>1 DEF LinksAt
      <4>3. n = k
        BY <4>1, <4>2 DEF Laid, InsOnce
      <4> QED
        BY <4>1, <4>3
    <3> QED
      BY <3>1
  <2> HIDE DEF u
  <2>4. PICK imm : /\ text[j] = [s.text[j] EXCEPT !.imm = imm]
                   /\ imm = Operand(id, s.link[u.link])
    BY <1>2, <2>1, <2>2, <2>3, ZenonT(40)
  <2>5. text[j].imm = imm
    BY <1>3, <2>1, <2>4 DEF IsIns
  <2> QED
    BY <2>4, <2>5 DEF u
<1> QED
  BY <1>1, <1>4, <1>5, Zenon

(* The default value that a cell has is of the string variable in it.      *)
LEMMA DefaultsAre ==
  ASSUME NEW s, NEW id, Laid(s, id), NEW k \in DOMAIN s.data, NEW d \in DefaultsOf(s, k)
  PROVE  /\ StringCell(s, k) /\ s.data[k].of = d.name
         /\ \E q \in DOMAIN s.data : /\ Plus(id, "data", d.ptr) = Address(id, "data", q)
                                     /\ s.data[q].is = "text"
<1>1. PICK n \in DOMAIN s.link : s.link[n] = d
  BY RangeIs DEF DefaultsOf
<1>2. EntryLaid(s, id, d) /\ d.type = "DEFAULT"
  BY <1>1 DEF Laid, DefaultsOf
<1>3. PICK i \in DOMAIN s.vars : s.vars[i].name = d.name /\ s.vars[i].type = "String"
  BY <1>2 DEF EntryLaid, StringNamed
<1>4. VariableLink(s.vars[i]) = "POINTER"
  BY <1>3 DEF VariableLink
<1>5. PICK p \in DOMAIN s.data : /\ s.link[EntryOf(s.link, "POINTER", d.name)].ptr = Index(p)
                                 /\ s.data[p].is = "variable" /\ s.data[p].of = d.name
  BY <1>3, <1>4, OwnVariable
<1>6. p = k
  BY <1>5 DEF DefaultsOf, Index
<1>7. PICK q \in DOMAIN s.data : d.ptr = Index(q) /\ s.data[q].is = "text"
  BY <1>2 DEF EntryLaid, TextPlaced
<1>8. Plus(id, "data", d.ptr) = Address(id, "data", q)
  BY <1>7 DEF Plus, Index
<1> QED
  BY <1>3, <1>5, <1>6, <1>7, <1>8 DEF StringCell

(* The string variables are given texts, and nothing else changes.         *)
LEMMA StringsAre ==
  ASSUME NEW s, NEW id, Laid(s, id), NEW data, data = Strings(s, id)
  PROVE  /\ data = [k \in DOMAIN s.data |-> data[k]]
         /\ \A k \in DOMAIN s.data :
              /\ IsCell(data[k]) /\ data[k].is = s.data[k].is /\ data[k].of = s.data[k].of
              /\ data[k] = s.data[k] \/ StringCell(s, k)
              /\ DefaultsOf(s, k) # {} =>
                   \E q \in DOMAIN s.data : data[k].val = Address(id, "data", q) /\ s.data[q].is = "text"
<1>1. data = [k \in DOMAIN s.data |->
        IF DefaultsOf(s, k) = {} THEN s.data[k]
        ELSE [s.data[k] EXCEPT !.val = Plus(id, "data", (CHOOSE d \in DefaultsOf(s, k) : TRUE).ptr)]]
  BY DEF Strings, DefaultsOf
<1>2. ASSUME NEW k \in DOMAIN s.data
      PROVE  /\ IsCell(data[k]) /\ data[k].is = s.data[k].is /\ data[k].of = s.data[k].of
             /\ data[k] = s.data[k] \/ StringCell(s, k)
             /\ DefaultsOf(s, k) # {} =>
                  \E q \in DOMAIN s.data : data[k].val = Address(id, "data", q) /\ s.data[q].is = "text"
  <2>1. PICK g : g = CHOOSE d \in DefaultsOf(s, k) : TRUE
    OBVIOUS
  <2>2. DefaultsOf(s, k) # {} => g \in DefaultsOf(s, k)
    BY <2>1
  <2>3. PICK val : val = Plus(id, "data", g.ptr)
    OBVIOUS
  <2>4. data[k] = IF DefaultsOf(s, k) = {} THEN s.data[k] ELSE [s.data[k] EXCEPT !.val = val]
    BY <1>1, <2>1, <2>3
  <2>5. IsCell(s.data[k])
    BY DEF Laid, CodeListed
  <2>6. /\ IsCell(data[k]) /\ data[k].is = s.data[k].is /\ data[k].of = s.data[k].of
        /\ DefaultsOf(s, k) = {} => data[k] = s.data[k]
        /\ DefaultsOf(s, k) # {} => data[k].val = val
    BY <2>4, <2>5 DEF IsCell
  <2>7. DefaultsOf(s, k) # {} =>
          /\ StringCell(s, k)
          /\ \E q \in DOMAIN s.data : val = Address(id, "data", q) /\ s.data[q].is = "text"
    BY <2>2, <2>3, DefaultsAre
  <2> QED
    BY <2>6, <2>7
<1> QED
  BY <1>1, <1>2, Zenon

(* Linking a sheet sets its operands and its string variables.             *)
LEMMA LinkSelfIs ==
  ASSUME NEW s, NEW id, Laid(s, id), s.isCompiled, NEW t, t = d_link_self(s, id)
  PROVE  SelfLinked(s, t, id)
<1>1. PICK text : text = Operands(s, id)
  OBVIOUS
<1>2. PICK data : data = Strings(s, id)
  OBVIOUS
<1>3. t = [s EXCEPT !.text = text, !.data = data]
  BY <1>1, <1>2 DEF d_link_self
<1>4. CodeListed(s)
  BY DEF Laid
<1>5. /\ IsSheet(t) /\ SameSource(s, t) /\ t.link = s.link /\ t.insLinks = s.insLinks
      /\ t.text = text /\ t.data = data /\ t.vars = s.vars
  BY <1>3, <1>4, Zenon DEF CodeListed, IsSheet, SameSource, SameThings
<1>6. /\ text = [j \in DOMAIN s.text |-> text[j]]
      /\ \A j \in DOMAIN s.text : IsIns(text[j]) /\ text[j].of = s.text[j].of
      /\ \A k \in DOMAIN s.insLinks :
           text[s.insLinks[k].ins].imm = Operand(id, s.link[s.insLinks[k].link])
  BY <1>1, OperandsAre
<1>7. /\ data = [k \in DOMAIN s.data |-> data[k]]
      /\ \A k \in DOMAIN s.data :
           /\ IsCell(data[k]) /\ data[k].is = s.data[k].is /\ data[k].of = s.data[k].of
           /\ data[k] = s.data[k] \/ StringCell(s, k)
           /\ DefaultsOf(s, k) # {} =>
                \E q \in DOMAIN s.data : data[k].val = Address(id, "data", q) /\ s.data[q].is = "text"
  BY <1>2, StringsAre
<1>8. DOMAIN text = DOMAIN s.text /\ DOMAIN data = DOMAIN s.data
  BY <1>6, <1>7
<1>9. Listed(text) /\ Listed(data)
  <2>1. /\ Len(s.text) \in Nat /\ text = [j \in 1..Len(s.text) |-> text[j]]
        /\ Len(s.data) \in Nat /\ data = [j \in 1..Len(s.data) |-> data[j]]
    BY <1>4, <1>6, <1>7, ListedIs DEF CodeListed
  <2> QED
    BY <2>1, ArrayListed, Zenon
<1>10. CodeListed(t)
  BY <1>4, <1>5, <1>6, <1>7, <1>8, <1>9, Zenon DEF CodeListed
<1>11. SameLayout(s, t)
  BY <1>5, <1>6, <1>7, <1>8, <1>10 DEF SameLayout
<1>12. OperandsSet(t, id)
  BY <1>5, <1>6 DEF OperandsSet
<1>13. ASSUME NEW i \in DOMAIN s.vars, s.vars[i].type = "String"
       PROVE  \E p, q \in DOMAIN data :
                /\ data[p].is = "variable" /\ data[p].of = s.vars[i].name
                /\ data[p].val = Address(id, "data", q) /\ data[q].is = "text"
  <2> DEFINE name == s.vars[i].name
             e == EntryOf(s.link, "POINTER", name)
  <2>1. PICK n \in DOMAIN s.link : s.link[n].type = "DEFAULT" /\ s.link[n].name = name
    BY <1>13 DEF Laid, VarListed, HasEntry
  <2>2. VariableLink(s.vars[i]) = "POINTER"
    BY <1>13 DEF VariableLink
  <2>3. e # 0 /\ \E p \in DOMAIN s.data : /\ s.link[e].ptr = Index(p) /\ s.data[p].is = "variable"
                                          /\ s.data[p].of = name
    <3>1. e = EntryOf(s.link, VariableLink(s.vars[i]), s.vars[i].name)
      BY <2>2
    <3> QED
      BY <3>1, OwnVariable
  <2>4. PICK p \in DOMAIN s.data : /\ s.link[e].ptr = Index(p) /\ s.data[p].is = "variable"
                                   /\ s.data[p].of = name
    BY <2>3
  <2>5. s.link[n] \in Range(s.link) /\ s.link[e].ptr.at = p
    BY <2>4, RangeIs DEF Index
  <2>6. s.link[n] \in DefaultsOf(s, p)
    BY <2>1, <2>3, <2>5 DEF DefaultsOf
  <2>7. PICK q \in DOMAIN s.data : data[p].val = Address(id, "data", q) /\ s.data[q].is = "text"
    BY <1>7, <2>6, Zenon
  <2>8. p \in DOMAIN data /\ q \in DOMAIN data
    BY <1>8
  <2>9. data[p].is = "variable" /\ data[p].of = name /\ data[q].is = "text"
    BY <1>7, <2>4, <2>7, Zenon
  <2> QED
    BY <2>7, <2>8, <2>9
<1>14. StringsSet(t, id)
  BY <1>5, <1>13 DEF StringsSet
<1> QED
  BY <1>5, <1>7, <1>11, <1>12, <1>14, Zenon DEF SelfLinked

(* What a load makes of the sheets: all are well, and those that were      *)
(* there have lost no value but those of an include's string variables.    *)
LoadedFrom(base, last, id, s) ==
  /\ DOMAIN last = DOMAIN base \union {id}
  /\ \A i \in DOMAIN last : SheetWell(last, i)
  /\ last[id].includes = s.includes
  /\ \A i \in DOMAIN base : \A k \in DOMAIN base[i].data :
       last[i].data[k] = base[i].data[k] \/ (i \in Range(s.includes) /\ StringCell(base[i], k))

(* Sheets that stay where they are stay ordered.                           *)
LEMMA OrderedKept ==
  ASSUME NEW mem, NEW n, Ordered(mem, n), NEW mem2, DOMAIN mem2 = DOMAIN mem, MemKept(mem, mem2)
  PROVE  Ordered(mem2, n)
BY DEF Ordered, MemKept, SameLayout, SameSource, SameThings

(* The new sheet is linked, and then what it includes.                     *)
SelfAndIncludes(mem, last, id) ==
  /\ DOMAIN last = DOMAIN mem
  /\ last[id] = d_link_self(mem[id], id)
  /\ \A i \in DOMAIN mem : i # id =>
       last[i] = IF i \in Range(mem[id].includes) THEN d_link_self(mem[i], i) ELSE mem[i]

(* The last part of a load links the sheet and its includes.               *)
LEMMA LinkedOnce ==
  ASSUME NEW base, NEW mem, NEW id, Linking(base, mem, id), Laid(mem[id], id), mem[id].isCompiled,
         NEW last, last = d_link_includes_recursive([mem EXCEPT ![id] = d_link_self(mem[id], id)], id)
  PROVE  SelfAndIncludes(mem, last, id)
<1>1. PICK t : t = d_link_self(mem[id], id)
  OBVIOUS
<1>2. PICK mem2 : mem2 = [mem EXCEPT ![id] = t]
  BY Zenon
<1>3. id \in DOMAIN mem /\ id \in Nat /\ \A i \in DOMAIN base : i # id
  BY DEF Linking
<1>4. /\ DOMAIN mem2 = DOMAIN mem /\ mem2[id] = t
      /\ \A i \in DOMAIN mem : i # id => mem2[i] = mem[i]
  BY <1>2, <1>3
<1>5. t.includes = mem[id].includes
  BY <1>1, LinkSelfIs DEF SelfLinked, SameLayout, SameSource, SameThings
<1>6. last = d_link_includes_recursive(mem2, id)
  BY <1>1, <1>2
<1>7. last = [i \in DOMAIN mem2 |-> IF i \in Range(mem2[id].includes) THEN d_link_self(mem2[i], i) ELSE mem2[i]]
  BY <1>6 DEF d_link_includes_recursive
<1>8. id \notin Range(mem[id].includes)
  BY <1>3, RangeIs DEF Linking
<1>9. DOMAIN last = DOMAIN mem
  BY <1>4, <1>7
<1>10. last[id] = t
  BY <1>3, <1>4, <1>5, <1>7, <1>8, Zenon
<1>11. ASSUME NEW i \in DOMAIN mem, i # id
       PROVE  last[i] = IF i \in Range(mem[id].includes) THEN d_link_self(mem[i], i) ELSE mem[i]
  BY <1>4, <1>5, <1>7, <1>11, Zenon
<1> QED
  BY <1>1, <1>9, <1>10, <1>11, Zenon DEF SelfAndIncludes

(* After that all is well.                                                 *)
LEMMA LinkedAll ==
  ASSUME NEW base, NEW mem, NEW id, Linking(base, mem, id), Laid(mem[id], id), mem[id].isCompiled,
         \A k \in DOMAIN mem[id].link : EntryLinked(mem, id, mem[id].link[k]),
         OneMeaning(mem, id, mem[id]), NEW last, SelfAndIncludes(mem, last, id)
  PROVE  LoadedFrom(base, last, id, mem[id])
<1> DEFINE s == mem[id]
           t == last[id]
<1>1. /\ Ordered(mem, id) /\ id \in DOMAIN mem /\ \A i \in DOMAIN base : SheetWell(mem, i) /\ i # id
  BY LinkingIs
<1>2. /\ DOMAIN mem = DOMAIN base \union {id} /\ \A i \in DOMAIN base : mem[i] = base[i]
      /\ \A i \in Range(s.includes) : i \in DOMAIN base /\ base[i].isCompiled
  BY RangeIs DEF Linking
<1>3. SelfLinked(s, t, id)
  BY LinkSelfIs DEF SelfAndIncludes
<1>4. ASSUME NEW i \in DOMAIN base
      PROVE  \/ i \in Range(s.includes) /\ mem[i].isCompiled /\ SelfLinked(mem[i], last[i], i)
             \/ last[i] = mem[i]
  <2>1. i \in DOMAIN mem /\ i # id
    BY <1>1, <1>2
  <2>2. CASE i \in Range(s.includes)
    <3>1. mem[i].isCompiled /\ Laid(mem[i], i)
      BY <1>1, <1>2, <2>2 DEF SheetWell
    <3>2. last[i] = d_link_self(mem[i], i)
      BY <2>1, <2>2 DEF SelfAndIncludes
    <3> QED
      BY <2>2, <3>1, <3>2, LinkSelfIs
  <2>3. CASE i \notin Range(s.includes)
    BY <2>1, <2>3 DEF SelfAndIncludes
  <2> QED
    BY <2>2, <2>3
<1>5. MemKept(mem, last)
  <2>1. \A i \in DOMAIN base : SameLayout(mem[i], last[i])
    BY <1>4, LayoutNot DEF SelfLinked
  <2>2. SameLayout(mem[id], last[id])
    BY <1>3 DEF SelfLinked
  <2> QED
    BY <1>2, <2>1, <2>2 DEF MemKept, SelfAndIncludes
<1>6. Ordered(last, id)
  BY <1>1, <1>5, OrderedKept DEF SelfAndIncludes
<1>7. ASSUME NEW i \in DOMAIN base
      PROVE  SheetWell(last, i)
  <2>1. SheetWell(mem, i) /\ i \in DOMAIN mem
    BY <1>1, <1>2
  <2>2. mem[i].isCompiled => OperandsSet(last[i], i) /\ StringsSet(last[i], i)
    BY <1>4, <2>1 DEF SelfLinked, SheetWell, Linked
  <2> QED
    BY <1>1, <1>5, <1>6, <2>1, <2>2, SheetKept
<1>8. /\ SameLayout(s, t) /\ t.includes = s.includes /\ t.isCompiled /\ t.link = s.link
      /\ t.insLinks = s.insLinks /\ t.loaded = s.loaded
  BY <1>3, Zenon DEF SelfLinked, SameLayout, SameSource, SameThings
<1>9. SheetWell(last, id)
  <2>1. Laid(t, id)
    BY <1>8, LaidKept
  <2>2. \A k \in DOMAIN s.link : EntryLinked(last, id, s.link[k])
    BY <1>1, <1>5, <1>6, EntryLinkedKept
  <2>3. \A name : Meant(last, id, name) = Meant(mem, id, name)
    BY <1>1, <1>5, <1>6, MeantKept
  <2>4. OperandsSet(t, id) /\ StringsSet(t, id)
    BY <1>3 DEF SelfLinked
  <2>5. Linked(last, id)
    BY <1>8, <2>2, <2>3, <2>4 DEF Linked, OneMeaning
  <2>6. ASSUME NEW j \in DOMAIN t.includes
        PROVE  t.includes[j] \in DOMAIN last /\ t.includes[j] < id /\ last[t.includes[j]].isCompiled
    <3> DEFINE x == s.includes[j]
    <3>1. x \in DOMAIN base /\ mem[x].isCompiled /\ x < id
      BY <1>1, <1>2, <1>8, <2>6 DEF Linking, Ordered
    <3>2. last[x].isCompiled = mem[x].isCompiled /\ x \in DOMAIN last
      BY <1>2, <1>5, <3>1, Zenon DEF MemKept, SameLayout, SameSource
    <3> QED
      BY <1>8, <3>1, <3>2, Zenon
  <2>7. Listed(t.includes)
    BY <1>8 DEF Linking
  <2> QED
    BY <1>8, <2>1, <2>5, <2>6, <2>7 DEF SheetWell
<1>10. ASSUME NEW i \in DOMAIN base, NEW k \in DOMAIN base[i].data
       PROVE  last[i].data[k] = base[i].data[k] \/ (i \in Range(s.includes) /\ StringCell(base[i], k))
  BY <1>2, <1>4 DEF SelfLinked
<1>11. DOMAIN last = DOMAIN base \union {id}
  BY <1>2 DEF SelfAndIncludes
<1> QED
  BY <1>7, <1>8, <1>9, <1>10, <1>11 DEF LoadedFrom

(* The last part of a load, of a sheet whose names are all found.          *)
LEMMA SheetLinks ==
  ASSUME NEW base, NEW mem, NEW id, NEW found, found = d_link_find_included(mem, id),
         Linking(base, found, id), Resolved(found, id), found[id].isCompiled,
         NEW last, last = d_link_sheet(mem, id)
  PROVE  LoadedFrom(base, last, id, found[id])
<1>1. PICK placed : placed = d_link_precalculate_ptr(found, id)
  OBVIOUS
<1>2. /\ Linking(base, placed, id) /\ LinkChanged(found[id], placed[id], id) /\ Laid(placed[id], id)
      /\ \A k \in DOMAIN placed[id].link : EntryLinked(placed, id, placed[id].link[k])
      /\ OneMeaning(placed, id, placed[id])
  BY <1>1, AllPlaced
<1>3. placed[id].isCompiled /\ placed[id].includes = found[id].includes
  BY <1>2, Zenon DEF LinkChanged, SameSource, SameThings
<1>4. last = d_link_includes_recursive([placed EXCEPT ![id] = d_link_self(placed[id], id)], id)
  BY <1>1 DEF d_link_sheet
<1>5. SelfAndIncludes(placed, last, id)
  BY <1>2, <1>3, <1>4, LinkedOnce
<1>6. LoadedFrom(base, last, id, placed[id])
  BY <1>2, <1>3, <1>5, LinkedAll
<1> QED
  BY <1>3, <1>6 DEF LoadedFrom

-----------------------------------------------------------------------------
(***************************************************************************)
(* Loading.  The sheets of the process are well when a load begins.        *)
(***************************************************************************)
SheetsWell ==
  made \in Nat /\ DOMAIN live \subseteq 1..made /\ \A i \in DOMAIN live : SheetWell(live, i)

(* The includes of a sheet are sheets without errors.                      *)
Included(includes) ==
  Listed(includes) /\ \A j \in DOMAIN includes : includes[j] \in DOMAIN live /\ live[includes[j]].isCompiled

(* What can be included is without errors.                                 *)
LEMMA IncludableIs ==
  ASSUME SheetsWell, NEW paths, Listed(paths), NEW includes \in Includable(paths)
  PROVE  Included(includes)
<1>1. /\ includes \in [DOMAIN paths -> DOMAIN live]
      /\ \A i \in DOMAIN paths : ~live[includes[i]].hasErrors
  BY DEF Includable
<1>2. Len(paths) \in Nat /\ DOMAIN paths = 1..Len(paths)
  BY ListedIs
<1>3. Listed(includes)
  BY <1>1, <1>2, ArrayListed
<1>4. ASSUME NEW j \in DOMAIN includes
      PROVE  includes[j] \in DOMAIN live /\ live[includes[j]].isCompiled
  BY <1>1 DEF SheetsWell, SheetWell
<1> QED
  BY <1>3, <1>4 DEF Included

(* A new sheet is about to be linked.                                      *)
LEMMA WithLinking ==
  ASSUME SheetsWell, NEW s, Included(s.includes), NEW mem, mem = With(s)
  PROVE  Linking(live, mem, made + 1) /\ mem[made + 1] = s
<1>1. /\ made + 1 \in Nat \ {0} /\ DOMAIN live \subseteq 1..((made + 1) - 1) /\ made + 1 \notin DOMAIN live
      /\ \A i \in DOMAIN live : SheetWell(live, i)
  BY DEF SheetsWell
<1>2. /\ DOMAIN mem = DOMAIN live \union {made + 1} /\ mem = [i \in DOMAIN mem |-> mem[i]]
      /\ mem[made + 1] = s
  BY DEF With
<1>3. \A i \in DOMAIN live : mem[i] = live[i]
  BY <1>1 DEF With
<1> QED
  BY <1>1, <1>2, <1>3 DEF Linking, Included

-----------------------------------------------------------------------------
(* A sheet from source.                                                    *)
AsCompiled(c, d, id) ==
  /\ Laid(d, id) /\ d.isCompiled /\ SameThings(c, d) /\ d.loaded = c.loaded
  /\ d.link = c.link /\ d.insLinks = c.insLinks

(* The mark that it is compiled changes nothing.                           *)
LEMMA CompiledLaid ==
  ASSUME NEW c, NEW id, Laid(c, id), NEW d, d = [c EXCEPT !.isCompiled = TRUE]
  PROVE  AsCompiled(c, d, id)
<1>1. CodeListed(c)
  BY DEF Laid
<1>2. /\ IsSheet(d) /\ d.isCompiled /\ SameThings(c, d) /\ d.loaded = c.loaded
      /\ d.link = c.link /\ d.insLinks = c.insLinks /\ d.text = c.text /\ d.data = c.data
  BY <1>1, Zenon DEF CodeListed, IsSheet, SameThings
<1>3. CodeListed(d) /\ d.vars = c.vars /\ d.funcs = c.funcs
  BY <1>1, <1>2 DEF CodeListed, SameThings
<1>4. ASSUME NEW l, EntryLaid(c, id, l)
      PROVE  EntryLaid(d, id, l)
  <2>1. /\ TextPlaced(c, l) => TextPlaced(d, l)
        /\ StringNamed(c, l.name) => StringNamed(d, l.name)
        /\ VarOwn(c, id, l) => VarOwn(d, id, l)
        /\ VarPlaced(c, l) => VarPlaced(d, l)
        /\ FuncOwn(c, id, l) => FuncOwn(d, id, l)
        /\ FuncPlaced(c, l) => FuncPlaced(d, l)
        /\ OfOthers(c, id, l) => OfOthers(d, id, l)
    BY <1>2, <1>3, ZenonT(40) DEF TextPlaced, StringNamed, VarOwn, VarPlaced, FuncOwn, FuncPlaced, OfOthers, HasVar, HasFunc
  <2> QED
    BY <1>4, <2>1 DEF EntryLaid
<1>5. /\ \A k \in DOMAIN c.insLinks : UseLaid(d, c.insLinks[k])
      /\ \A i \in DOMAIN c.vars : VarListed(d, i)
      /\ \A i \in DOMAIN c.funcs : FuncDone(d, i)
  BY <1>2, <1>3 DEF Laid, UseLaid, VarListed, FuncDone
<1> QED
  BY <1>2, <1>3, <1>4, <1>5, Zenon DEF Laid, AsCompiled

(* Its names are found when it is compiled.                                *)
LEMMA SourceResolved ==
  ASSUME NEW base, NEW mem, NEW id, Linking(base, mem, id), ~mem[id].loaded,
         NEW c, Made(mem, id, c), NEW d, AsCompiled(c, d, id),
         NEW mem2, Linking(base, mem2, id), mem2[id] = d
  PROVE  Resolved(mem2, id)
<1>1. /\ Laid(d, id) /\ d.isCompiled /\ SameThings(c, d) /\ d.loaded = c.loaded
      /\ d.link = c.link /\ d.insLinks = c.insLinks
  BY DEF AsCompiled
<1>2. SameSource(mem[id], c)
  BY DEF Made
<1>3. ~d.loaded
  BY <1>1, <1>2 DEF SameSource
<1>4. Ordered(mem, id) /\ Ordered(mem2, id) /\ id \in DOMAIN mem
  BY LinkingIs
<1>5. DOMAIN mem2 = DOMAIN mem /\ \A i \in DOMAIN mem : SameThings(mem[i], mem2[i])
  <2>1. SameThings(mem[id], mem2[id])
    BY <1>1, <1>2 DEF SameSource, SameThings
  <2>2. \A i \in DOMAIN base : mem2[i] = mem[i] /\ SameThings(mem[i], mem2[i])
    BY DEF Linking, SameThings
  <2> QED
    BY <2>1, <2>2 DEF Linking
<1>6. \A name : Meant(mem2, id, name) = Meant(mem, id, name)
  BY <1>4, <1>5, MeantSame
<1>7. \A name : \A e \in Meant(mem, id, name) : LinkTypeOf(mem2, e) = LinkTypeOf(mem, e)
  <2>1. ASSUME NEW name, NEW e \in Meant(mem, id, name)
        PROVE  LinkTypeOf(mem2, e) = LinkTypeOf(mem, e)
    <3>1. e.sheet \in DOMAIN mem
      BY <1>4, MeantWithin
    <3>2. mem2[e.sheet].vars = mem[e.sheet].vars
      BY <1>5, <3>1 DEF SameThings
    <3> QED
      BY <3>2 DEF LinkTypeOf
  <2> QED
    BY <2>1
<1>8. ASSUME NEW l, Unplaced(mem, id, l)
      PROVE  l.ptr = NotFound /\ l.meta \in Meant(mem2, id, l.name) /\ LinkTypeOf(mem2, l.meta) = l.type
  BY <1>6, <1>7, <1>8 DEF Unplaced, OneMeant
<1>9. ASSUME NEW k \in DOMAIN d.link
      PROVE  EntryResolved(mem2, id, d.link[k])
  <2> DEFINE l == d.link[k]
  <2>1. EntryMade(mem, id, c, l)
    BY <1>1 DEF Made
  <2> HIDE DEF l
  <2>2. CASE OfOthers(d, id, l)
    <3>1. ~VarOwn(c, id, l) /\ ~FuncOwn(c, id, l)
      BY <2>2, OwnSheet DEF OfOthers
    <3>2. l.type \in {"VARIABLE", "POINTER", "FUNCTION"}
      BY <2>2 DEF OfOthers
    <3>3. Unplaced(mem, id, l)
      BY <2>1, <3>1, <3>2 DEF EntryMade, Foreign
    <3>4. l.ptr = NotFound /\ l.meta \in Meant(mem2, id, l.name) /\ LinkTypeOf(mem2, l.meta) = l.type
      BY <1>8, <3>3
    <3> QED
      BY <2>2, <3>4 DEF EntryResolved, NeedsPlace, l
  <2>3. CASE l.type = "CFUNCTION"
    <3>1. Unplaced(mem, id, l)
      BY <2>1, <2>3 DEF EntryMade
    <3>2. l.ptr = NotFound /\ l.meta \in Meant(mem2, id, l.name) /\ LinkTypeOf(mem2, l.meta) = l.type
      BY <1>8, <3>1
    <3> QED
      BY <1>3, <2>3, <3>2 DEF EntryResolved, NeedsPlace, l
  <2>4. CASE ~OfOthers(d, id, l) /\ l.type # "CFUNCTION"
    <3>1. l.ptr # NotFound
      BY <1>1, <2>4, OwnPlaced DEF l
    <3>2. ~NeedsPlace(d, id, l)
      BY <2>4 DEF NeedsPlace
    <3> QED
      BY <3>1, <3>2 DEF EntryResolved, l
  <2> QED
    BY <2>2, <2>3, <2>4 DEF l
<1>10. OneMeaning(mem2, id, d)
  <2>1. ASSUME NEW k \in DOMAIN c.insLinks, c.insLinks[k].use.kind = "name"
        PROVE  Meant(mem2, id, c.insLinks[k].use.name) = {c.link[c.insLinks[k].link].meta}
    <3>1. UseMade(mem, id, c, c.insLinks[k])
      BY DEF Made
    <3>2. Meant(mem, id, c.insLinks[k].use.name) = {c.link[c.insLinks[k].link].meta}
      BY <2>1, <3>1 DEF UseMade
    <3> QED
      BY <1>6, <3>2
  <2> QED
    BY <1>1, <2>1 DEF OneMeaning
<1> QED
  BY <1>1, <1>9, <1>10 DEF Resolved

SourceSheet(source, includes) ==
  [NewSheet(source.path, includes) EXCEPT !.vars = source.vars,
     !.funcs = source.funcs, !.cFuncs = source.cFuncs]

(* A sheet from source, before it is compiled.                             *)
LEMMA SourceSheetIs ==
  ASSUME NEW source \in Sources, NEW includes, NEW s, s = SourceSheet(source, includes)
  PROVE  Sourced(s) /\ s.includes = includes /\ ~s.loaded /\ ~s.isCompiled /\ AreUses(source.start)
<1>1. /\ IsSheet(s) /\ s.includes = includes /\ ~s.loaded /\ ~s.isCompiled
      /\ s.text = <<>> /\ s.data = <<>> /\ s.link = <<>> /\ s.insLinks = <<>>
      /\ s.vars = source.vars /\ s.funcs = source.funcs
  BY Zenon DEF SourceSheet, NewSheet, IsSheet
<1>2. /\ Listed(source.vars) /\ \A v \in Range(source.vars) : v.type \in {"Integer", "String"}
      /\ Listed(source.funcs) /\ \A f \in Range(source.funcs) : AreUses(f.uses)
      /\ AreUses(source.start)
  BY SourcesAssumption
<1>3. \A i \in DOMAIN source.vars : source.vars[i].type \in {"Integer", "String"}
  BY <1>2, RangeIs
<1>4. \A i \in DOMAIN source.funcs : AreUses(source.funcs[i].uses)
  BY <1>2, RangeIs
<1> QED
  BY <1>1, <1>2, <1>3, <1>4 DEF Sourced

(* A sheet with errors is added as it is.                                  *)
LEMMA SheetsStay ==
  ASSUME NEW base, NEW mem, NEW id, Linking(base, mem, id), mem[id].hasErrors, ~mem[id].isCompiled
  PROVE  LoadedFrom(base, mem, id, mem[id])
<1>1. \A i \in DOMAIN base : SheetWell(mem, i)
  BY LinkingIs
<1>2. /\ DOMAIN mem = DOMAIN base \union {id} /\ \A i \in DOMAIN base : mem[i] = base[i]
      /\ Ordered(mem, id) /\ IncludesReady(mem)
  BY LinkingIs, Zenon DEF Linking
<1>3. SheetWell(mem, id)
  BY <1>2 DEF SheetWell, Ordered, IncludesReady
<1> QED
  BY <1>1, <1>2, <1>3 DEF LoadedFrom

(* A sheet from source, with errors or without.                            *)
LEMMA SourceLoads ==
  ASSUME SheetsWell, NEW source \in Sources, NEW includes, Included(includes),
         LoadSource(source, includes)
  PROVE  \E s : s.includes = includes /\ LoadedFrom(live, live', made + 1, s)
<1> DEFINE id == made + 1
<1>1. PICK new : new = SourceSheet(source, includes)
  OBVIOUS
<1>2. Sourced(new) /\ new.includes = includes /\ ~new.loaded /\ ~new.isCompiled /\ AreUses(source.start)
  BY <1>1, SourceSheetIs
<1>3. PICK mem : mem = With(new)
  OBVIOUS
<1>4. Linking(live, mem, id) /\ mem[id] = new
  BY <1>2, <1>3, WithLinking
<1>5. PICK c : c = d_codegen_compile(mem, id, source.start)
  OBVIOUS
<1>6. PICK d : d = [c EXCEPT !.isCompiled = TRUE]
  BY Zenon
<1>7. PICK e : e = [new EXCEPT !.hasErrors = TRUE]
  BY Zenon
<1>8. live' = IF HasErrors(mem, id, source.start) THEN With(e) ELSE d_link_sheet(With(d), id)
  BY <1>1, <1>3, <1>5, <1>6, <1>7 DEF LoadSource, SourceSheet
<1>9. CASE HasErrors(mem, id, source.start)
  <2>1. e.includes = includes /\ e.hasErrors /\ ~e.isCompiled
    BY <1>2, <1>7 DEF Sourced, IsSheet
  <2>2. live' = With(e)
    BY <1>8, <1>9
  <2>3. Linking(live, live', id) /\ live'[id] = e
    BY <2>1, <2>2, WithLinking
  <2>4. LoadedFrom(live, live', id, e)
    BY <2>1, <2>3, SheetsStay
  <2> QED
    BY <2>1, <2>4
<1>10. CASE ~HasErrors(mem, id, source.start)
  <2>1. Loading(mem, id, id)
    BY <1>4, LinkingIs
  <2>2. Made(mem, id, c) /\ \A i \in DOMAIN c.funcs : FuncDone(c, i)
    BY <1>2, <1>4, <1>5, <1>10, <2>1, CompiledMade
  <2>3. Distinct(mem[id].vars)
    BY <1>2, <1>4, <1>10, NoErrors
  <2>4. Laid(c, id)
    BY <1>2, <1>4, <2>1, <2>2, <2>3, MadeLaid
  <2>5. AsCompiled(c, d, id)
    BY <1>6, <2>4, CompiledLaid
  <2>6. d.includes = includes
    BY <1>2, <1>4, <2>2, <2>5 DEF AsCompiled, Made, SameSource, SameThings
  <2>7. PICK mem2 : mem2 = With(d)
    OBVIOUS
  <2>8. Linking(live, mem2, id) /\ mem2[id] = d
    BY <1>2, <2>6, <2>7, WithLinking
  <2>9. Resolved(mem2, id)
    BY <1>2, <1>4, <2>2, <2>5, <2>8, SourceResolved
  <2>10. d_link_find_included(mem2, id) = mem2
    BY <2>8, <2>9, FindsNothing
  <2>11. live' = d_link_sheet(mem2, id)
    BY <1>8, <1>10, <2>7
  <2>12. mem2[id].isCompiled
    BY <2>5, <2>8 DEF AsCompiled
  <2>13. LoadedFrom(live, live', id, mem2[id])
    BY <2>8, <2>9, <2>10, <2>11, <2>12, SheetLinks
  <2> QED
    BY <2>6, <2>8, <2>13
<1> QED
  BY <1>9, <1>10

-----------------------------------------------------------------------------
(* A sheet from an object file: its C functions are looked up.             *)
LEMMA CFunctionsChanged ==
  ASSUME NEW base, NEW mem, NEW id, Linking(base, mem, id), SavedWell(mem[id], id),
         NEW mem2, mem2 = CFunctionsFound(mem, id)
  PROVE  Linking(base, mem2, id) /\ SavedWell(mem2[id], id) /\ SameSource(mem[id], mem2[id])
<1> DEFINE s == mem[id]
           link == s.link
           M(l) == LET d == d_get_definition(mem, id, l.name) IN IF d.kind = "cFunction" THEN d ELSE Unknown
           link2 == [k \in DOMAIN link |-> IF link[k].type # "CFUNCTION" THEN link[k]
                                           ELSE [link[k] EXCEPT !.meta = M(link[k])]]
           t == mem2[id]
<1>1. mem2 = [mem EXCEPT ![id].link = link2]
  BY DEF CFunctionsFound, OnEntries
<1>2. Laid(s, id) /\ CodeListed(s) /\ s.cFuncs = <<>>
  BY DEF SavedWell, Laid
<1>3. link2 = [k \in DOMAIN link |-> link2[k]]
  OBVIOUS
<1>4. ASSUME NEW k \in DOMAIN link
      PROVE  /\ IsEntry(link2[k]) /\ link2[k].type = link[k].type /\ link2[k].name = link[k].name
             /\ link2[k].ptr = link[k].ptr /\ (link[k].type # "CFUNCTION" => link2[k] = link[k])
  <2> DEFINE l == link[k]
  <2>1. IsEntry(l)
    BY <1>2 DEF CodeListed
  <2>2. PICK m : m = M(l)
    OBVIOUS
  <2>3. link2[k] = IF l.type # "CFUNCTION" THEN l ELSE [l EXCEPT !.meta = m]
    BY <2>2
  <2> HIDE DEF link2, l
  <2>4. /\ IsEntry(link2[k]) /\ link2[k].type = l.type /\ link2[k].name = l.name
        /\ link2[k].ptr = l.ptr /\ (l.type # "CFUNCTION" => link2[k] = l)
    BY <2>1, <2>3 DEF IsEntry
  <2> QED
    BY <2>4 DEF l
<1> HIDE DEF link2
<1>5. id \in DOMAIN mem /\ mem = [i \in DOMAIN mem |-> mem[i]]
  BY DEF Linking
<1>6. /\ DOMAIN mem2 = DOMAIN mem /\ mem2 = [i \in DOMAIN mem2 |-> mem2[i]]
      /\ \A i \in DOMAIN mem : i # id => mem2[i] = mem[i]
      /\ IsSheet(t) /\ SameSource(s, t)
      /\ t.text = s.text /\ t.data = s.data /\ t.insLinks = s.insLinks /\ t.link = link2
      /\ Listed(link2) /\ DOMAIN link2 = DOMAIN link
  <2>1. OnlyEntries(mem, mem2, id, link2)
    BY <1>1, <1>2, <1>3, <1>5, EntriesChanged, Zenon
  <2> QED
    BY <2>1 DEF OnlyEntries
<1> HIDE DEF t
<1>7. Linking(base, mem2, id)
  BY <1>6, LinkingChanged DEF t
<1>8. LinkChanged(s, t, id)
  BY <1>4, <1>6 DEF LinkChanged
<1>9. Laid(t, id)
  BY <1>2, <1>8, LaidRelinked
<1>10. t.vars = s.vars /\ t.funcs = s.funcs /\ t.cFuncs = s.cFuncs
  BY <1>6 DEF SameSource, SameThings
<1>11. ASSUME NEW k \in DOMAIN link
       PROVE  /\ OfOthers(t, id, link2[k]) => link2[k].meta = Unknown /\ link2[k].ptr = NotFound
              /\ link2[k].type = "CFUNCTION" => link2[k].ptr # NotFound
  <2>1. /\ OfOthers(s, id, link[k]) => link[k].meta = Unknown /\ link[k].ptr = NotFound
        /\ link[k].type = "CFUNCTION" => link[k].ptr # NotFound
    BY DEF SavedWell
  <2>2. CASE link[k].type = "CFUNCTION"
    BY <1>4, <2>1, <2>2 DEF OfOthers
  <2>3. CASE link[k].type # "CFUNCTION"
    <3>1. link2[k] = link[k]
      BY <1>4, <2>3
    <3> DEFINE l == link[k]
    <3> HIDE DEF l
    <3>2. OfOthers(t, id, l) => OfOthers(s, id, l)
      BY <1>10 DEF OfOthers, HasVar, HasFunc
    <3> QED
      BY <2>1, <3>1, <3>2 DEF l
  <2> QED
    BY <2>2, <2>3
<1>12. SavedWell(t, id)
  BY <1>2, <1>6, <1>9, <1>10, <1>11 DEF SavedWell
<1> QED
  BY <1>6, <1>7, <1>12 DEF t

(* A sheet from an object file.                                            *)
LEMMA ObjectSheetIs ==
  ASSUME NEW o, NEW includes, NEW id, NEW s, s = d_obj_load(o, includes, id)
  PROVE  s.includes = includes /\ s.isCompiled /\ s.loaded
BY Zenon DEF d_obj_load, NewSheet

(* A sheet from an object file, in which all is found or something is      *)
(* missing.                                                                *)
LEMMA ObjectLoads ==
  ASSUME SheetsWell, NEW o, NEW includes, Included(includes),
         SavedWell(d_obj_load(o, includes, made + 1), made + 1), LoadObject(o, includes)
  PROVE  \/ /\ crashed' = crashed
            /\ \E s : s.includes = includes /\ LoadedFrom(live, live', made + 1, s)
         \/ live' = <<>> /\ crashed' = "missing"
<1> DEFINE id == made + 1
<1>1. PICK s : s = d_obj_load(o, includes, id)
  OBVIOUS
<1>2. s.includes = includes /\ s.isCompiled /\ s.loaded /\ SavedWell(s, id)
  BY <1>1, ObjectSheetIs
<1>3. PICK mem1 : mem1 = With(s)
  OBVIOUS
<1>4. Linking(live, mem1, id) /\ mem1[id] = s
  BY <1>2, <1>3, WithLinking
<1>5. PICK mem : mem = CFunctionsFound(mem1, id)
  OBVIOUS
<1>6. Linking(live, mem, id) /\ SavedWell(mem[id], id) /\ SameSource(s, mem[id])
  BY <1>2, <1>4, <1>5, CFunctionsChanged
<1>7. mem[id].includes = includes /\ mem[id].isCompiled /\ mem[id].loaded
  BY <1>2, <1>6, Zenon DEF SameSource, SameThings
<1>8. PICK found : found = d_link_find_included(mem, id)
  OBVIOUS
<1>9. /\ Linking(live, found, id) /\ SameSource(mem[id], found[id])
      /\ ~Crashes(found, id) => Resolved(found, id)
      /\ Crashes(found, id) => Missing(mem, id)
  BY <1>6, <1>7, <1>8, FindResolves
<1>10. found[id].includes = includes /\ found[id].isCompiled
  BY <1>7, <1>9, Zenon DEF SameSource, SameThings
<1>11. \/ /\ ~Crashes(found, id) /\ live' = d_link_sheet(mem, id) /\ crashed' = crashed
       \/ /\ Crashes(found, id) /\ live' = <<>>
          /\ crashed' = IF Missing(mem, id) THEN "missing" ELSE "other"
  BY <1>1, <1>3, <1>5, <1>8 DEF LoadObject
<1>12. CASE ~Crashes(found, id)
  <2>1. live' = d_link_sheet(mem, id) /\ crashed' = crashed
    BY <1>11, <1>12
  <2>2. LoadedFrom(live, live', id, found[id])
    BY <1>8, <1>9, <1>10, <1>12, <2>1, SheetLinks
  <2> QED
    BY <1>10, <2>1, <2>2
<1>13. CASE Crashes(found, id)
  BY <1>9, <1>11, <1>13
<1> QED
  BY <1>12, <1>13

-----------------------------------------------------------------------------
(***************************************************************************)
(* Saving.  Whatever process loads the object, at whatever address, has a  *)
(* sheet that is laid out as the one that was saved.                       *)
(***************************************************************************)
ObjectWell(o) ==
  /\ Listed(o.incl)
  /\ \A n \in Nat \ {0} : \A includes : SavedWell(d_obj_load(o, includes, n), n)

(* The meta of entry k is of the function or variable whose entry it is.    *)
OwnerReloaded(s, n, k, meta) ==
  LET F(i) == EntryOf(s.link, "FUNCTION", s.funcs[i].name)
      V(i) == EntryOf(s.link, VariableLink(s.vars[i]), s.vars[i].name)
  IN  \/ \E i \in DOMAIN s.funcs : F(i) = k /\ meta = [kind |-> "function", sheet |-> n, index |-> i]
      \/ /\ \A i \in DOMAIN s.funcs : F(i) # k
         /\ \/ \E i \in DOMAIN s.vars : V(i) = k /\ meta = [kind |-> "variable", sheet |-> n, index |-> i]
            \/ (\A i \in DOMAIN s.vars : V(i) # k) /\ meta = Unknown

(* The sheet t is loaded as n from what was saved of the sheet s, which    *)
(* was id.                                                                 *)
Reloaded(s, id, t, n) ==
  /\ IsSheet(t) /\ t.text = s.text /\ t.data = s.data /\ t.insLinks = s.insLinks /\ t.cFuncs = <<>>
  /\ DOMAIN t.funcs = DOMAIN s.funcs /\ t.funcs = [i \in DOMAIN s.funcs |-> t.funcs[i]]
  /\ \A i \in DOMAIN s.funcs : t.funcs[i].name = s.funcs[i].name
  /\ DOMAIN t.vars = DOMAIN s.vars /\ t.vars = [i \in DOMAIN s.vars |-> t.vars[i]]
  /\ \A i \in DOMAIN s.vars : t.vars[i].name = s.vars[i].name /\ t.vars[i].type = s.vars[i].type
  /\ DOMAIN t.link = DOMAIN s.link /\ t.link = [k \in DOMAIN s.link |-> t.link[k]]
  /\ \A k \in DOMAIN s.link :
       /\ IsEntry(t.link[k]) /\ t.link[k].type = s.link[k].type /\ t.link[k].name = s.link[k].name
       /\ t.link[k].ptr = IF External(id, s.link[k]) THEN NotFound ELSE s.link[k].ptr
       /\ OwnerReloaded(s, n, k, t.link[k].meta)

(* Saving and loading a sheet.                                             *)
LEMMA ReloadedIs ==
  ASSUME NEW id, Laid(live[id], id), NEW o, o = d_obj_generate(id), NEW n, NEW includes,
         NEW t, t = d_obj_load(o, includes, n)
  PROVE  Reloaded(live[id], id, t, n)
<1> DEFINE s == live[id]
           F(i) == EntryOf(s.link, "FUNCTION", s.funcs[i].name)
           V(i) == EntryOf(s.link, VariableLink(s.vars[i]), s.vars[i].name)
           Saved(l) == [type |-> l.type, name |-> l.name, ptr |-> IF External(id, l) THEN NotFound ELSE l.ptr]
           Name(e) == o.lmeta[e.link].name
           Default(v) == LET e == EntryOf(o.lmeta, "DEFAULT", Name(v))
                         IN  IF v.type = "String" THEN o.data[o.lmeta[e].ptr.at].of
                                                  ELSE o.data[o.lmeta[v.link].ptr.at].val.at
           Own(section, k) == \E i \in DOMAIN section : section[i].link = k
           OwnAt(section, k) == CHOOSE i \in DOMAIN section : section[i].link = k
           Meta(k) == CASE Own(o.func, k) -> [kind |-> "function", sheet |-> n, index |-> OwnAt(o.func, k)]
                        [] Own(o.var, k)  -> [kind |-> "variable", sheet |-> n, index |-> OwnAt(o.var, k)]
                        [] OTHER          -> Unknown
<1>1. /\ o.text = s.text /\ o.data = s.data /\ o.insLinks = s.insLinks
      /\ o.lmeta = [k \in DOMAIN s.link |-> Saved(s.link[k])]
      /\ o.func = [i \in DOMAIN s.funcs |-> [link |-> F(i), uses |-> s.funcs[i].uses]]
      /\ o.var = [i \in DOMAIN s.vars |-> [type |-> s.vars[i].type, link |-> V(i)]]
  BY DEF d_obj_generate
<1>2. /\ IsSheet(t) /\ t.text = o.text /\ t.data = o.data /\ t.insLinks = o.insLinks /\ t.cFuncs = <<>>
      /\ t.funcs = [i \in DOMAIN o.func |-> [name |-> Name(o.func[i]), uses |-> o.func[i].uses]]
      /\ t.vars = [i \in DOMAIN o.var |-> [name |-> Name(o.var[i]), type |-> o.var[i].type,
                                           value |-> Default(o.var[i])]]
      /\ t.link = [k \in DOMAIN o.lmeta |->
                    [d_link_new_meta(o.lmeta[k].type, o.lmeta[k].name, Meta(k)) EXCEPT !.ptr = o.lmeta[k].ptr]]
  BY Zenon DEF d_obj_load, NewSheet, IsSheet
<1> HIDE DEF F, V, Default, Saved
<1>3. DOMAIN o.func = DOMAIN s.funcs /\ DOMAIN o.var = DOMAIN s.vars /\ DOMAIN o.lmeta = DOMAIN s.link
  BY <1>1
<1>4. /\ \A i \in DOMAIN s.funcs : o.func[i].link = F(i)
      /\ \A i \in DOMAIN s.vars : o.var[i].link = V(i) /\ o.var[i].type = s.vars[i].type
  BY <1>1
<1>5. ASSUME NEW k \in DOMAIN s.link
      PROVE  /\ o.lmeta[k].type = s.link[k].type /\ o.lmeta[k].name = s.link[k].name
             /\ o.lmeta[k].ptr = IF External(id, s.link[k]) THEN NotFound ELSE s.link[k].ptr
  BY <1>1 DEF Saved
<1>6. ASSUME NEW i \in DOMAIN s.funcs
      PROVE  F(i) \in DOMAIN s.link /\ s.link[F(i)].name = s.funcs[i].name /\ s.link[F(i)].type = "FUNCTION"
  BY OwnFunc DEF F
<1>7. ASSUME NEW i \in DOMAIN s.vars
      PROVE  V(i) \in DOMAIN s.link /\ s.link[V(i)].name = s.vars[i].name /\ s.link[V(i)].type # "FUNCTION"
  BY OwnVariable, VariableLinkIs DEF V
<1>8. ASSUME NEW i \in DOMAIN s.funcs
      PROVE  t.funcs[i].name = s.funcs[i].name
  <2>1. t.funcs[i].name = o.lmeta[o.func[i].link].name
    <3> HIDE DEF Name, Own, OwnAt, Meta
    <3>1. t.funcs = [j \in DOMAIN o.func |-> [name |-> Name(o.func[j]), uses |-> o.func[j].uses]]
      BY <1>2
    <3>2. t.funcs[i].name = Name(o.func[i])
      BY <1>3, <3>1
    <3> QED
      BY <3>2 DEF Name
  <2>2. o.func[i].link = F(i)
    BY <1>4
  <2> QED
    BY <1>5, <1>6, <2>1, <2>2
<1>9. ASSUME NEW i \in DOMAIN s.vars
      PROVE  t.vars[i].name = s.vars[i].name /\ t.vars[i].type = s.vars[i].type
  <2>1. t.vars[i].name = o.lmeta[o.var[i].link].name /\ t.vars[i].type = o.var[i].type
    <3>1. PICK val : val = Default(o.var[i])
      OBVIOUS
    <3>2. PICK name : name = Name(o.var[i])
      OBVIOUS
    <3> HIDE DEF Name, Own, OwnAt, Meta
    <3>3. t.vars[i] = [name |-> name, type |-> o.var[i].type, value |-> val]
      BY <1>2, <1>3, <3>1, <3>2
    <3> QED
      BY <3>2, <3>3 DEF Name
  <2>2. o.var[i].link = V(i) /\ o.var[i].type = s.vars[i].type
    BY <1>4
  <2> QED
    BY <1>5, <1>7, <2>1, <2>2
<1> HIDE DEF Name
<1>10. /\ DOMAIN t.funcs = DOMAIN s.funcs /\ t.funcs = [i \in DOMAIN s.funcs |-> t.funcs[i]]
       /\ DOMAIN t.vars = DOMAIN s.vars /\ t.vars = [i \in DOMAIN s.vars |-> t.vars[i]]
  BY <1>2, <1>3
<1>11. ASSUME NEW k \in DOMAIN s.link
       PROVE  /\ IsEntry(t.link[k]) /\ t.link[k].type = s.link[k].type /\ t.link[k].name = s.link[k].name
              /\ t.link[k].ptr = IF External(id, s.link[k]) THEN NotFound ELSE s.link[k].ptr
              /\ t.link[k].meta = Meta(k)
  <2>1. PICK m : m = Meta(k)
    BY Zenon
  <2>2. PICK p : p = o.lmeta[k]
    OBVIOUS
  <2>3. t.link[k] = [d_link_new_meta(p.type, p.name, m) EXCEPT !.ptr = p.ptr]
    BY <1>2, <1>3, <2>1, <2>2
  <2>4. t.link[k] = [type |-> p.type, name |-> p.name, meta |-> m, ptr |-> p.ptr]
    BY <2>3 DEF d_link_new_meta
  <2> HIDE DEF Meta
  <2> QED
    BY <1>5, <2>1, <2>2, <2>4 DEF IsEntry
<1>12. DOMAIN t.link = DOMAIN s.link /\ t.link = [k \in DOMAIN s.link |-> t.link[k]]
  <2> HIDE DEF Meta
  <2> QED
    BY <1>2, <1>3
<1>13. ASSUME NEW section, NEW k, Own(section, k)
       PROVE  \E i \in DOMAIN section : section[i].link = k /\ OwnAt(section, k) = i
  <2>1. PICK g : g = OwnAt(section, k)
    OBVIOUS
  <2>2. g \in DOMAIN section /\ section[g].link = k
    BY <1>13, <2>1
  <2> QED
    BY <2>1, <2>2
<1> HIDE DEF OwnAt
<1>14. ASSUME NEW k
       PROVE  \/ \E i \in DOMAIN s.funcs : F(i) = k /\ Meta(k) = [kind |-> "function", sheet |-> n, index |-> i]
              \/ /\ \A i \in DOMAIN s.funcs : F(i) # k
                 /\ \/ \E i \in DOMAIN s.vars :
                         V(i) = k /\ Meta(k) = [kind |-> "variable", sheet |-> n, index |-> i]
                    \/ (\A i \in DOMAIN s.vars : V(i) # k) /\ Meta(k) = Unknown
  <2>1. /\ Own(o.func, k) <=> \E i \in DOMAIN s.funcs : F(i) = k
        /\ Own(o.var, k) <=> \E i \in DOMAIN s.vars : V(i) = k
    BY <1>3, <1>4
  <2>2. CASE Own(o.func, k)
    <3>1. PICK i \in DOMAIN o.func : o.func[i].link = k /\ OwnAt(o.func, k) = i
      BY <1>13, <2>2
    <3>3. ~Own(o.var, k)
      BY <1>6, <1>7, <2>1, <2>2
    <3> HIDE DEF Own
    <3>2. Meta(k) = [kind |-> "function", sheet |-> n, index |-> i]
      BY <2>2, <3>1, <3>3
    <3> QED
      BY <1>3, <1>4, <3>1, <3>2
  <2>3. CASE ~Own(o.func, k) /\ Own(o.var, k)
    <3>1. PICK i \in DOMAIN o.var : o.var[i].link = k /\ OwnAt(o.var, k) = i
      BY <1>13, <2>3
    <3> HIDE DEF Own
    <3>2. Meta(k) = [kind |-> "variable", sheet |-> n, index |-> i]
      BY <2>3, <3>1
    <3> QED
      BY <1>3, <1>4, <2>1, <2>3, <3>1, <3>2
  <2>4. CASE ~Own(o.func, k) /\ ~Own(o.var, k)
    <3>1. Meta(k) = Unknown
      BY <2>4
    <3> QED
      BY <2>1, <2>4, <3>1
  <2> QED
    BY <2>2, <2>3, <2>4, Zenon
<1> HIDE DEF Meta, Own
<1>15. ASSUME NEW k \in DOMAIN s.link
       PROVE  OwnerReloaded(s, n, k, t.link[k].meta)
  <2>1. PICK m : m = Meta(k)
    OBVIOUS
  <2>2. t.link[k].meta = m
    BY <1>11, <2>1
  <2> QED
    BY <1>14, <2>1, <2>2 DEF OwnerReloaded, F, V
<1>16. /\ IsSheet(t) /\ t.text = s.text /\ t.data = s.data /\ t.insLinks = s.insLinks /\ t.cFuncs = <<>>
  BY <1>1, <1>2, Zenon
<1> QED
  BY <1>8, <1>9, <1>10, <1>11, <1>12, <1>15, <1>16, Zenon DEF Reloaded, F, V

(* An entry of the sheet's own is so in the sheet that is loaded.          *)
LEMMA OwnReloaded ==
  ASSUME NEW s, NEW id, Laid(s, id), NEW t, NEW n \in Nat \ {0}, Reloaded(s, id, t, n),
         NEW k \in DOMAIN s.link, ~OfOthers(s, id, s.link[k])
  PROVE  EntryLaid(t, n, t.link[k]) /\ ~OfOthers(t, n, t.link[k])
<1> DEFINE l == s.link[k]
           m == t.link[k]
<1>1. /\ m.type = l.type /\ m.name = l.name
      /\ m.ptr = IF External(id, l) THEN NotFound ELSE l.ptr
  BY Zenon DEF Reloaded
<1>2. /\ t.text = s.text /\ t.data = s.data
      /\ DOMAIN t.vars = DOMAIN s.vars /\ DOMAIN t.funcs = DOMAIN s.funcs
      /\ \A i \in DOMAIN s.vars : t.vars[i].name = s.vars[i].name /\ t.vars[i].type = s.vars[i].type
      /\ \A i \in DOMAIN s.funcs : t.funcs[i].name = s.funcs[i].name
  BY Zenon DEF Reloaded
<1>3. \A i \in DOMAIN s.vars : VariableLink(t.vars[i]) = VariableLink(s.vars[i])
  BY <1>2 DEF VariableLink
<1>4. EntryLaid(s, id, l)
  BY DEF Laid
<1>5. Listed(s.link) /\ Unique(s.link)
  BY DEF Laid, CodeListed
<1>6. EntryOf(s.link, l.type, l.name) = k
  BY <1>5, EntryFound
<1>7. CASE l.type \in {"LITERAL", "DEFAULT"}
  <2>1. m.ptr = l.ptr
    BY <1>1, <1>7 DEF External
  <2>2. TextPlaced(t, m)
    BY <1>1, <1>2, <1>4, <1>7, <2>1 DEF EntryLaid, TextPlaced
  <2>3. m.type = "DEFAULT" => StringNamed(t, m.name)
    BY <1>1, <1>2, <1>4 DEF EntryLaid, StringNamed
  <2> QED
    BY <1>1, <1>7, <2>2, <2>3 DEF EntryLaid, LinkTypes, OfOthers
<1>8. CASE l.type \in {"VARIABLE", "POINTER"}
  <2>1. VarOwn(s, id, l) /\ VarPlaced(s, l)
    BY <1>4, <1>8 DEF EntryLaid
  <2>2. l.meta.sheet = id
    BY <2>1, OwnSheet
  <2>3. m.ptr = l.ptr
    BY <1>1, <2>2 DEF External
  <2>4. VarPlaced(t, m)
    BY <1>1, <1>2, <2>1, <2>3 DEF VarPlaced
  <2>5. PICK i \in DOMAIN s.vars : s.vars[i].name = l.name /\ VariableLink(s.vars[i]) = l.type
    BY <2>1 DEF VarOwn
  <2>6. EntryOf(s.link, VariableLink(s.vars[i]), s.vars[i].name) = k
    BY <1>6, <2>5
  <2>7. \A j \in DOMAIN s.funcs : EntryOf(s.link, "FUNCTION", s.funcs[j].name) # k
    BY <1>8, OwnFunc
  <2>8. PICK j \in DOMAIN s.vars : /\ EntryOf(s.link, VariableLink(s.vars[j]), s.vars[j].name) = k
                                   /\ m.meta = [kind |-> "variable", sheet |-> n, index |-> j]
    <3>1. OwnerReloaded(s, n, k, m.meta)
      BY Zenon DEF Reloaded
    <3> QED
      BY <2>6, <2>7, <3>1, Zenon DEF OwnerReloaded
  <2>9. l.name = s.vars[j].name /\ l.type = VariableLink(s.vars[j])
    BY <2>8, OwnVariable
  <2>10. VarOwn(t, n, m)
    BY <1>1, <1>2, <1>3, <2>8, <2>9 DEF VarOwn
  <2>11. HasVar(t, m.name)
    BY <1>1, <1>2, <2>9 DEF HasVar
  <2> QED
    BY <1>1, <1>8, <2>4, <2>10, <2>11 DEF EntryLaid, LinkTypes, OfOthers
<1>9. CASE l.type = "FUNCTION"
  <2>1. FuncOwn(s, id, l) /\ FuncPlaced(s, l)
    BY <1>4, <1>9 DEF EntryLaid
  <2>2. l.meta.sheet = id
    BY <2>1, OwnSheet
  <2>3. m.ptr = l.ptr
    BY <1>1, <2>2 DEF External
  <2>4. FuncPlaced(t, m)
    BY <1>1, <1>2, <2>1, <2>3 DEF FuncPlaced
  <2>5. PICK i \in DOMAIN s.funcs : s.funcs[i].name = l.name
    BY <2>1 DEF FuncOwn
  <2>6. EntryOf(s.link, "FUNCTION", s.funcs[i].name) = k
    BY <1>6, <1>9, <2>5
  <2>7. PICK j \in DOMAIN s.funcs : /\ EntryOf(s.link, "FUNCTION", s.funcs[j].name) = k
                                    /\ m.meta = [kind |-> "function", sheet |-> n, index |-> j]
    <3>1. OwnerReloaded(s, n, k, m.meta)
      BY Zenon DEF Reloaded
    <3> QED
      BY <2>6, <3>1, Zenon DEF OwnerReloaded
  <2>8. l.name = s.funcs[j].name
    BY <2>7, OwnFunc
  <2>9. FuncOwn(t, n, m)
    BY <1>1, <1>2, <2>7, <2>8 DEF FuncOwn
  <2>10. HasFunc(t, m.name)
    BY <1>1, <1>2, <2>8 DEF HasFunc
  <2> QED
    BY <1>1, <1>9, <2>4, <2>9, <2>10 DEF EntryLaid, LinkTypes, OfOthers
<1>10. CASE l.type = "CFUNCTION"
  BY <1>1, <1>10 DEF EntryLaid, LinkTypes, OfOthers
<1> QED
  BY <1>4, <1>7, <1>8, <1>9, <1>10 DEF EntryLaid, LinkTypes

(* An entry of another sheet's thing is unknown in it.                     *)
LEMMA OthersReloaded ==
  ASSUME NEW s, NEW id, Laid(s, id), NEW t, NEW n \in Nat \ {0}, Reloaded(s, id, t, n),
         NEW k \in DOMAIN s.link, OfOthers(s, id, s.link[k])
  PROVE  /\ EntryLaid(t, n, t.link[k]) /\ t.link[k].meta = Unknown /\ t.link[k].ptr = NotFound
         /\ t.link[k].type # "CFUNCTION"
<1> DEFINE l == s.link[k]
           m == t.link[k]
<1>1. /\ m.type = l.type /\ m.name = l.name
      /\ m.ptr = IF External(id, l) THEN NotFound ELSE l.ptr
  BY Zenon DEF Reloaded
<1>2. /\ DOMAIN t.vars = DOMAIN s.vars /\ DOMAIN t.funcs = DOMAIN s.funcs
      /\ \A i \in DOMAIN s.vars : t.vars[i].name = s.vars[i].name
      /\ \A i \in DOMAIN s.funcs : t.funcs[i].name = s.funcs[i].name
  BY DEF Reloaded
<1>3. l.type \in {"VARIABLE", "POINTER", "FUNCTION"} /\ l.meta.sheet # id
  BY DEF OfOthers
<1>4. m.ptr = NotFound
  BY <1>1, <1>3 DEF External
<1>5. \A i \in DOMAIN s.funcs : EntryOf(s.link, "FUNCTION", s.funcs[i].name) # k
  <2>1. ASSUME NEW i \in DOMAIN s.funcs, EntryOf(s.link, "FUNCTION", s.funcs[i].name) = k
        PROVE  FALSE
    <3>1. l.type = "FUNCTION" /\ l.name = s.funcs[i].name
      BY <2>1, OwnFunc
    <3> QED
      BY <3>1 DEF OfOthers, HasFunc
  <2> QED
    BY <2>1
<1>6. \A i \in DOMAIN s.vars : EntryOf(s.link, VariableLink(s.vars[i]), s.vars[i].name) # k
  <2>1. ASSUME NEW i \in DOMAIN s.vars, EntryOf(s.link, VariableLink(s.vars[i]), s.vars[i].name) = k
        PROVE  FALSE
    <3>1. l.type \in {"VARIABLE", "POINTER"} /\ l.name = s.vars[i].name
      BY <2>1, OwnVariable, VariableLinkIs
    <3> QED
      BY <3>1 DEF OfOthers, HasVar
  <2> QED
    BY <2>1
<1>7. m.meta = Unknown
  <2>1. OwnerReloaded(s, n, k, m.meta)
    BY Zenon DEF Reloaded
  <2> QED
    BY <1>5, <1>6, <2>1, Zenon DEF OwnerReloaded
<1>8. m.meta.sheet # n
  BY <1>7 DEF Unknown
<1>9. /\ HasVar(t, m.name) => HasVar(s, l.name)
      /\ HasFunc(t, m.name) => HasFunc(s, l.name)
  BY <1>1, <1>2 DEF HasVar, HasFunc
<1>10. OfOthers(t, n, m)
  BY <1>1, <1>8, <1>9 DEF OfOthers
<1> QED
  BY <1>1, <1>3, <1>4, <1>7, <1>10 DEF EntryLaid, LinkTypes

(* What is loaded is as an object file is promised to be.                  *)
LEMMA ReloadedWell ==
  ASSUME NEW s, NEW id, Laid(s, id), NEW t, NEW n \in Nat \ {0}, Reloaded(s, id, t, n),
         \A k \in DOMAIN s.link : s.link[k].type = "CFUNCTION" => s.link[k].ptr # NotFound
  PROVE  SavedWell(t, n)
<1>1. /\ IsSheet(t) /\ t.text = s.text /\ t.data = s.data /\ t.insLinks = s.insLinks /\ t.cFuncs = <<>>
      /\ DOMAIN t.funcs = DOMAIN s.funcs /\ t.funcs = [i \in DOMAIN s.funcs |-> t.funcs[i]]
      /\ DOMAIN t.vars = DOMAIN s.vars /\ t.vars = [i \in DOMAIN s.vars |-> t.vars[i]]
      /\ DOMAIN t.link = DOMAIN s.link /\ t.link = [k \in DOMAIN s.link |-> t.link[k]]
      /\ \A i \in DOMAIN s.funcs : t.funcs[i].name = s.funcs[i].name
      /\ \A i \in DOMAIN s.vars : t.vars[i].name = s.vars[i].name /\ t.vars[i].type = s.vars[i].type
  BY Zenon DEF Reloaded
<1>2. \A k \in DOMAIN s.link :
        /\ IsEntry(t.link[k]) /\ t.link[k].type = s.link[k].type /\ t.link[k].name = s.link[k].name
        /\ t.link[k].ptr = IF External(id, s.link[k]) THEN NotFound ELSE s.link[k].ptr
  BY DEF Reloaded
<1>3. /\ CodeListed(s) /\ Listed(s.vars) /\ Listed(s.funcs) /\ Distinct(s.vars) /\ Unique(s.link)
      /\ InsOnce(s.insLinks)
  BY DEF Laid
<1>4. Listed(t.link) /\ Listed(t.vars) /\ Listed(t.funcs)
  <2>1. \A a, b : Listed(a) /\ b = [i \in DOMAIN a |-> b[i]] => Listed(b)
    <3>1. ASSUME NEW a, Listed(a), NEW b, b = [i \in DOMAIN a |-> b[i]]
          PROVE  Listed(b)
      <4>1. Len(a) \in Nat /\ b = [i \in 1..Len(a) |-> b[i]]
        BY <3>1, ListedIs
      <4> QED
        BY <4>1, ArrayListed
    <3> QED
      BY <3>1
  <2>2. Listed(t.link)
    BY <1>1, <1>3, <2>1 DEF CodeListed
  <2>3. Listed(t.vars)
    BY <1>1, <1>3, <2>1
  <2>4. Listed(t.funcs)
    BY <1>1, <1>3, <2>1
  <2> QED
    BY <2>2, <2>3, <2>4
<1>5. CodeListed(t)
  BY <1>1, <1>2, <1>3, <1>4, Zenon DEF CodeListed
<1>6. \A i \in DOMAIN t.vars : t.vars[i].type \in {"Integer", "String"}
  BY <1>1, Zenon DEF Laid
<1>7. Distinct(t.vars)
  BY <1>1, <1>3, Zenon DEF Distinct
<1>8. \A k \in DOMAIN t.link : EntryLaid(t, n, t.link[k])
  BY <1>1, OwnReloaded, OthersReloaded
<1>9. Unique(t.link)
  BY <1>1, <1>2, <1>3, ZenonT(40) DEF Unique
<1>10. \A k \in DOMAIN t.insLinks : UseLaid(t, t.insLinks[k])
  <2>1. ASSUME NEW k \in DOMAIN s.insLinks
        PROVE  UseLaid(t, s.insLinks[k])
    <3>1. UseLaid(s, s.insLinks[k])
      BY DEF Laid
    <3>2. PICK u : u = s.insLinks[k]
      OBVIOUS
    <3>3. /\ u.ins \in DOMAIN s.text /\ u.link \in DOMAIN s.link /\ u.use.kind \in {"name", "text"}
          /\ s.link[u.link].name = u.use.name
          /\ u.use.kind = "text" => s.link[u.link].type = "LITERAL"
          /\ u.use.kind # "text" => s.link[u.link].type \notin {"LITERAL", "DEFAULT"}
      BY <3>1, <3>2 DEF UseLaid
    <3>4. t.link[u.link].name = s.link[u.link].name /\ t.link[u.link].type = s.link[u.link].type
      BY <1>2, <3>3
    <3>5. UseLaid(t, u)
      BY <1>1, <3>3, <3>4 DEF UseLaid
    <3> QED
      BY <3>2, <3>5
  <2> QED
    BY <1>1, <2>1
<1>11. ASSUME NEW i \in DOMAIN t.vars
       PROVE  VarListed(t, i)
  <2>1. VarListed(s, i)
    BY <1>1 DEF Laid
  <2>2. \A type, name : HasEntry(s.link, type, name) => HasEntry(t.link, type, name)
    BY <1>1, <1>2, Zenon DEF HasEntry
  <2>3. /\ t.vars[i].name = s.vars[i].name /\ t.vars[i].type = s.vars[i].type
        /\ VariableLink(t.vars[i]) = VariableLink(s.vars[i])
    BY <1>1, Zenon DEF VariableLink
  <2> QED
    BY <2>1, <2>2, <2>3 DEF VarListed
<1>12. ASSUME NEW i \in DOMAIN t.funcs
       PROVE  FuncDone(t, i)
  <2>1. PICK k \in DOMAIN s.link : /\ s.link[k].type = "FUNCTION" /\ s.link[k].name = s.funcs[i].name
                                   /\ s.link[k].ptr # NotFound
    BY <1>1 DEF Laid, FuncDone
  <2>2. ~OfOthers(s, id, s.link[k])
    BY <1>1, <2>1 DEF OfOthers, HasFunc
  <2>3. FuncOwn(s, id, s.link[k])
    BY <2>1, <2>2 DEF Laid, EntryLaid
  <2>4. s.link[k].meta.sheet = id
    BY <2>3, OwnSheet
  <2>5. t.link[k].ptr # NotFound
    BY <1>2, <2>1, <2>4 DEF External
  <2> QED
    BY <1>1, <1>2, <2>1, <2>5, Zenon DEF FuncDone
<1>13. Laid(t, n)
  BY <1>1, <1>3, <1>4, <1>5, <1>6, <1>7, <1>8, <1>9, <1>10, <1>11, <1>12, Zenon DEF Laid
<1>14. ASSUME NEW k \in DOMAIN t.link
       PROVE  /\ OfOthers(t, n, t.link[k]) => t.link[k].meta = Unknown /\ t.link[k].ptr = NotFound
              /\ t.link[k].type = "CFUNCTION" => t.link[k].ptr # NotFound
  <2>1. CASE OfOthers(s, id, s.link[k])
    BY <1>1, <2>1, OthersReloaded
  <2>2. CASE ~OfOthers(s, id, s.link[k])
    <3>1. ~OfOthers(t, n, t.link[k])
      BY <1>1, <2>2, OwnReloaded
    <3>2. t.link[k].type = "CFUNCTION" => t.link[k].ptr # NotFound
      BY <1>1, <1>2, Zenon DEF External
    <3> QED
      BY <3>1, <3>2
  <2> QED
    BY <2>1, <2>2
<1> QED
  BY <1>1, <1>13, <1>14, Zenon DEF SavedWell

(* What is saved of a linked sheet.                                        *)
LEMMA SavedObject ==
  ASSUME NEW id \in DOMAIN live, SheetWell(live, id), live[id].isCompiled,
         NEW o, o = d_obj_generate(id)
  PROVE  ObjectWell(o)
<1> DEFINE s == live[id]
<1>1. Laid(s, id) /\ Linked(live, id) /\ Listed(s.includes)
  BY DEF SheetWell
<1>2. \A k \in DOMAIN s.link : s.link[k].type = "CFUNCTION" => s.link[k].ptr # NotFound
  BY <1>1 DEF Linked, EntryLinked
<1>3. Listed(o.incl)
  <2>1. o.incl = [i \in DOMAIN s.includes |-> o.incl[i]]
    BY DEF d_obj_generate
  <2>2. Len(s.includes) \in Nat /\ DOMAIN s.includes = 1..Len(s.includes)
    BY <1>1, ListedIs
  <2> QED
    BY <2>1, <2>2, ArrayListed
<1>4. ASSUME NEW n \in Nat \ {0}, NEW includes
      PROVE  SavedWell(d_obj_load(o, includes, n), n)
  <2>1. PICK t : t = d_obj_load(o, includes, n)
    OBVIOUS
  <2>2. Reloaded(s, id, t, n)
    BY <1>1, <2>1, ReloadedIs
  <2>3. SavedWell(t, n)
    BY <1>1, <1>2, <2>2, ReloadedWell
  <2> QED
    BY <2>1, <2>3
<1> QED
  BY <1>3, <1>4 DEF ObjectWell

-----------------------------------------------------------------------------
(* Assigning: a string variable is given the address of another text.      *)
LEMMA CellAssigned ==
  ASSUME NEW s, NEW id, Laid(s, id), OperandsSet(s, id), StringsSet(s, id),
         NEW l, VarOwn(s, id, l), NEW p \in DOMAIN s.data, s.data[p].is = "variable", s.data[p].of = l.name,
         NEW val, l.type # "VARIABLE" =>
           \E q \in DOMAIN s.data : val = Address(id, "data", q) /\ s.data[q].is = "text",
         NEW t, t = [s EXCEPT !.data = [s.data EXCEPT ![p].val = val]]
  PROVE  SameLayout(s, t) /\ OperandsSet(t, id) /\ StringsSet(t, id)
<1>1. PICK data : data = [s.data EXCEPT ![p].val = val]
  BY Zenon
<1>2. CodeListed(s)
  BY DEF Laid
<1>3. /\ IsSheet(t) /\ SameSource(s, t) /\ t.link = s.link /\ t.insLinks = s.insLinks
      /\ t.text = s.text /\ t.data = data /\ t.vars = s.vars
  BY <1>1, <1>2 DEF CodeListed, IsSheet, SameSource, SameThings
<1>4. IsCell(s.data[p])
  BY <1>2 DEF CodeListed
<1>5. /\ data[p] = [s.data[p] EXCEPT !.val = val]
      /\ DOMAIN data = DOMAIN s.data /\ data = [j \in DOMAIN s.data |-> data[j]]
      /\ \A j \in DOMAIN s.data : j # p => data[j] = s.data[j]
  BY <1>1
<1>6. IsCell(data[p]) /\ data[p].is = s.data[p].is /\ data[p].of = s.data[p].of /\ data[p].val = val
  BY <1>4, <1>5 DEF IsCell
<1>7. \A j \in DOMAIN s.data : IsCell(data[j]) /\ data[j].is = s.data[j].is /\ data[j].of = s.data[j].of
  BY <1>2, <1>5, <1>6, Zenon DEF CodeListed
<1>8. Listed(data)
  <2>1. Len(s.data) \in Nat /\ data = [j \in 1..Len(s.data) |-> data[j]]
    BY <1>2, <1>5, ListedIs DEF CodeListed
  <2> QED
    BY <2>1, ArrayListed
<1>9. CodeListed(t)
  BY <1>2, <1>3, <1>5, <1>7, <1>8 DEF CodeListed
<1>10. SameLayout(s, t)
  BY <1>3, <1>5, <1>7, <1>9 DEF SameLayout
<1>11. OperandsSet(t, id)
  BY <1>3 DEF OperandsSet
<1>12. ASSUME NEW i \in DOMAIN s.vars, s.vars[i].type = "String"
       PROVE  \E P, Q \in DOMAIN data :
                /\ data[P].is = "variable" /\ data[P].of = s.vars[i].name
                /\ data[P].val = Address(id, "data", Q) /\ data[Q].is = "text"
  <2>1. PICK P, Q \in DOMAIN s.data :
          /\ s.data[P].is = "variable" /\ s.data[P].of = s.vars[i].name
          /\ s.data[P].val = Address(id, "data", Q) /\ s.data[Q].is = "text"
    BY <1>12 DEF StringsSet
  <2>2. CASE P = p
    <3>1. PICK j \in DOMAIN s.vars : s.vars[j].name = l.name /\ VariableLink(s.vars[j]) = l.type
      BY DEF VarOwn
    <3>2. j = i
      BY <2>1, <2>2, <3>1 DEF Laid, Distinct
    <3>3. l.type = "POINTER"
      BY <1>12, <3>1, <3>2 DEF VariableLink
    <3>4. PICK q \in DOMAIN s.data : val = Address(id, "data", q) /\ s.data[q].is = "text"
      BY <3>3
    <3>5. p \in DOMAIN data /\ q \in DOMAIN data /\ data[q].is = "text" /\ data[p].val = Address(id, "data", q)
      BY <1>5, <1>6, <1>7, <3>4
    <3>6. data[p].is = "variable" /\ data[p].of = s.vars[i].name
      BY <1>6, <2>1, <2>2
    <3> QED
      BY <3>5, <3>6
  <2>3. CASE P # p
    <3>1. P \in DOMAIN data /\ Q \in DOMAIN data /\ data[P] = s.data[P] /\ data[Q].is = "text"
      BY <1>5, <1>7, <2>1, <2>3
    <3> QED
      BY <2>1, <3>1
  <2> QED
    BY <2>2, <2>3
<1>13. StringsSet(t, id)
  <2>1. SUFFICES ASSUME NEW i \in DOMAIN t.vars, t.vars[i].type = "String"
                 PROVE  \E P, Q \in DOMAIN t.data :
                          /\ t.data[P].is = "variable" /\ t.data[P].of = t.vars[i].name
                          /\ t.data[P].val = Address(id, "data", Q) /\ t.data[Q].is = "text"
    BY DEF StringsSet
  <2>2. i \in DOMAIN s.vars /\ t.vars[i] = s.vars[i] /\ t.data = data
    BY <1>3, <2>1
  <2>3. PICK P, Q \in DOMAIN data :
          /\ data[P].is = "variable" /\ data[P].of = s.vars[i].name
          /\ data[P].val = Address(id, "data", Q) /\ data[Q].is = "text"
    BY <1>12, <2>1, <2>2
  <2> QED
    BY <2>2, <2>3, Zenon
<1> QED
  BY <1>10, <1>11, <1>13

(* Assigning keeps all sheets well.                                        *)
LEMMA AssignKeeps ==
  ASSUME SheetsWell, NEW id \in DOMAIN live, NEW k \in DOMAIN live[id].link, Assign(id, k)
  PROVE  DOMAIN live' = DOMAIN live /\ \A i \in DOMAIN live : SheetWell(live', i)
<1> DEFINE s == live[id]
           l == s.link[k]
<1>1. /\ s.isCompiled /\ l.type \in {"VARIABLE", "POINTER"} /\ l.meta.sheet = id
  BY DEF Assign
<1>2. SheetWell(live, id) /\ Laid(s, id) /\ OperandsSet(s, id) /\ StringsSet(s, id)
  BY <1>1, Zenon DEF SheetsWell, SheetWell, Linked
<1>3. EntryLaid(s, id, l) /\ ~OfOthers(s, id, l)
  BY <1>1, <1>2 DEF Laid, OfOthers
<1>4. VarOwn(s, id, l) /\ VarPlaced(s, l)
  BY <1>1, <1>3 DEF EntryLaid
<1>5. PICK p \in DOMAIN s.data : l.ptr = Index(p) /\ s.data[p].is = "variable" /\ s.data[p].of = l.name
  BY <1>4 DEF VarPlaced
<1>6. l.ptr.at = p
  BY <1>5 DEF Index
<1>7. PICK val : /\ l.type # "VARIABLE" => val \in {Address(id, "data", j) : j \in {i \in DOMAIN s.data : s.data[i].is = "text"}}
                 /\ live' = [live EXCEPT ![id].data[l.ptr.at].val = val]
  BY Zenon DEF Assign
<1>8. l.type # "VARIABLE" => \E q \in DOMAIN s.data : val = Address(id, "data", q) /\ s.data[q].is = "text"
  BY <1>7
<1>9. PICK t : t = [s EXCEPT !.data = [s.data EXCEPT ![p].val = val]]
  BY Zenon
<1>10. live' = [live EXCEPT ![id] = t]
  BY <1>6, <1>7, <1>9
<1>11. SameLayout(s, t) /\ OperandsSet(t, id) /\ StringsSet(t, id)
  BY <1>2, <1>4, <1>5, <1>8, <1>9, CellAssigned, Zenon
<1>12. /\ DOMAIN live' = DOMAIN live /\ live'[id] = t
       /\ \A i \in DOMAIN live : i # id => live'[i] = live[i]
  BY <1>10
<1>13. MemKept(live, live')
  BY <1>11, <1>12, LayoutNot DEF MemKept
<1>14. Ordered(live, made)
  BY SheetsOrdered DEF SheetsWell
<1>15. Ordered(live', made)
  BY <1>12, <1>13, <1>14, OrderedKept
<1>16. ASSUME NEW i \in DOMAIN live
       PROVE  SheetWell(live', i)
  <2>1. SheetWell(live, i)
    BY DEF SheetsWell
  <2>2. live[i].isCompiled => OperandsSet(live'[i], i) /\ StringsSet(live'[i], i)
    BY <1>11, <1>12, <2>1 DEF SheetWell, Linked
  <2> QED
    BY <1>13, <1>14, <1>15, <2>1, <2>2, SheetKept
<1> QED
  BY <1>12, <1>16

-----------------------------------------------------------------------------
(* The inductive invariant.                                                *)
IInv ==
  /\ made \in 0..MaxSheets /\ DOMAIN live \subseteq 1..made
  /\ crashed \in {"no", "missing"}
  /\ \A id \in DOMAIN live : SheetWell(live, id)
  /\ \A o \in objects : ObjectWell(o)

(* The invariant holds at the start.                                       *)
LEMMA IInvInit == Init => IInv
BY BoundsAssumption DEF Init, IInv

(* It says that all sheets are well.                                       *)
LEMMA IInvWell == IInv => SheetsWell
BY BoundsAssumption DEF IInv, SheetsWell

(* A load keeps the invariant, or ends the process.                        *)
LEMMA LoadedKeeps ==
  ASSUME IInv, Fits, made' = made + 1, objects' = objects, crashed' = crashed,
         NEW s, LoadedFrom(live, live', made + 1, s)
  PROVE  IInv'
<1>1. made' \in 0..MaxSheets
  BY BoundsAssumption DEF IInv, Fits
<1>2. DOMAIN live' = DOMAIN live \union {made'} /\ \A i \in DOMAIN live' : SheetWell(live', i)
  BY DEF LoadedFrom
<1>3. DOMAIN live' \subseteq 1..made'
  <2>1. made \in Nat /\ DOMAIN live \subseteq 1..made
    BY BoundsAssumption DEF IInv
  <2> QED
    BY <1>2, <2>1
<1> QED
  BY <1>1, <1>2, <1>3 DEF IInv

(* Loading a source file keeps the invariant.                              *)
LEMMA SourceStep ==
  ASSUME IInv, NEW source \in Sources, NEW includes \in Includable(source.incl), LoadSource(source, includes)
  PROVE  /\ IInv' /\ made' = made + 1
         /\ \E s : s.includes = includes /\ LoadedFrom(live, live', made + 1, s)
<1>1. SheetsWell
  BY IInvWell
<1>2. Listed(source.incl)
  BY SourcesAssumption
<1>3. Included(includes)
  BY <1>1, <1>2, IncludableIs
<1>4. PICK s : s.includes = includes /\ LoadedFrom(live, live', made + 1, s)
  BY <1>1, <1>3, SourceLoads
<1>5. Fits /\ made' = made + 1 /\ objects' = objects /\ crashed' = crashed
  BY DEF LoadSource
<1> QED
  BY <1>4, <1>5, LoadedKeeps

(* Loading an object file keeps it, and crashes only if a name is missing. *)
LEMMA ObjectStep ==
  ASSUME IInv, NEW o \in objects, NEW includes \in Includable(o.incl), LoadObject(o, includes)
  PROVE  /\ IInv' /\ made' = made + 1
         /\ \/ live' = <<>>
            \/ \E s : s.includes = includes /\ LoadedFrom(live, live', made + 1, s)
<1>1. SheetsWell /\ made + 1 \in Nat \ {0}
  BY IInvWell DEF SheetsWell
<1>2. Listed(o.incl) /\ SavedWell(d_obj_load(o, includes, made + 1), made + 1)
  BY <1>1 DEF IInv, ObjectWell
<1>3. Included(includes)
  BY <1>1, <1>2, IncludableIs
<1>4. Fits /\ made' = made + 1 /\ objects' = objects
  BY DEF LoadObject
<1>5. \/ /\ crashed' = crashed
         /\ \E s : s.includes = includes /\ LoadedFrom(live, live', made + 1, s)
      \/ live' = <<>> /\ crashed' = "missing"
  BY <1>1, <1>2, <1>3, ObjectLoads
<1>6. CASE /\ crashed' = crashed
           /\ \E s : s.includes = includes /\ LoadedFrom(live, live', made + 1, s)
  BY <1>4, <1>6, LoadedKeeps
<1>7. CASE live' = <<>> /\ crashed' = "missing"
  <2>1. DOMAIN live' = {}
    BY <1>7
  <2>2. made' \in 0..MaxSheets
    BY <1>4, BoundsAssumption DEF IInv, Fits
  <2>3. IInv'
    BY <1>4, <1>7, <2>1, <2>2 DEF IInv
  <2> QED
    BY <1>4, <1>7, <2>3
<1> QED
  BY <1>5, <1>6, <1>7

(* So does every step.                                                     *)
LEMMA IInvNext == IInv /\ [Next]_vars => IInv'
<1> SUFFICES ASSUME IInv, [Next]_vars
             PROVE  IInv'
  OBVIOUS
<1>1. ASSUME NEW source \in Sources, NEW includes \in Includable(source.incl), LoadSource(source, includes)
      PROVE  IInv'
  BY <1>1, SourceStep
<1>2. ASSUME NEW o \in objects, NEW includes \in Includable(o.incl), LoadObject(o, includes)
      PROVE  IInv'
  BY <1>2, ObjectStep
<1>3. ASSUME NEW id \in DOMAIN live, Save(id)
      PROVE  IInv'
  <2>1. live' = live /\ made' = made /\ crashed' = crashed /\ live[id].isCompiled
    BY <1>3 DEF Save
  <2>2. PICK o : o = d_obj_generate(id)
    OBVIOUS
  <2>3. objects' = objects \union {o}
    BY <1>3, <2>2 DEF Save
  <2>4. ObjectWell(o)
    BY <2>1, <2>2, SavedObject DEF IInv
  <2> QED
    BY <2>1, <2>3, <2>4 DEF IInv
<1>4. ASSUME NEW id \in DOMAIN live, NEW k \in DOMAIN live[id].link, Assign(id, k)
      PROVE  IInv'
  <2>1. DOMAIN live' = DOMAIN live /\ \A i \in DOMAIN live : SheetWell(live', i)
    BY <1>4, IInvWell, AssignKeeps
  <2>2. made' = made /\ objects' = objects /\ crashed' = crashed
    BY <1>4 DEF Assign
  <2> QED
    BY <2>1, <2>2 DEF IInv
<1>5. CASE Exit
  <2>1. DOMAIN live' = {} /\ made' = made /\ objects' = objects /\ crashed' = crashed
    BY <1>5 DEF Exit
  <2> QED
    BY <2>1 DEF IInv
<1>6. CASE UNCHANGED vars
  BY <1>6 DEF IInv, vars
<1> QED
  BY <1>1, <1>2, <1>3, <1>4, <1>5, <1>6 DEF Next

(* The invariant holds in every state of every process.                    *)
LEMMA IInvAlways == Spec => []IInv
BY IInvInit, IInvNext, PTL DEF Spec

-----------------------------------------------------------------------------
(* What the invariant says of one entry of a linked sheet.                 *)
LEMMA NoPlaceless ==
  ASSUME NEW mem, NEW id, Laid(mem[id], id), NEW k \in DOMAIN mem[id].link,
         EntryLinked(mem, id, mem[id].link[k])
  PROVE  mem[id].link[k].ptr # NotFound
<1> DEFINE s == mem[id]
           l == s.link[k]
<1>1. CASE OfOthers(s, id, l)
  <2>1. l.meta.sheet # id /\ l.type \in {"VARIABLE", "POINTER", "FUNCTION"}
    BY <1>1 DEF OfOthers
  <2>2. \E section, p : l.ptr = Address(l.meta.sheet, section, p) /\ section \in {"data", "text"}
    BY <2>1, Zenon DEF EntryLinked
  <2> QED
    BY <2>2 DEF Address, NotFound
<1>2. CASE l.type = "CFUNCTION"
  BY <1>2 DEF EntryLinked
<1>3. CASE ~OfOthers(s, id, l) /\ l.type # "CFUNCTION"
  BY <1>3, OwnPlaced
<1> QED
  BY <1>1, <1>2, <1>3

(* A definition has the name it was found by.                              *)
LEMMA DefinedName ==
  ASSUME NEW mem, NEW i, NEW name, NEW d \in DefinedAt(mem, i, name)
  PROVE  /\ d.kind = "variable" => mem[i].vars[d.index].name = name
         /\ d.kind = "function" => mem[i].funcs[d.index].name = name
<1>1. CASE \E k \in DOMAIN mem[i].vars : /\ mem[i].vars[k].name = name
                                         /\ d = [kind |-> "variable", sheet |-> i, index |-> k]
  BY <1>1
<1>2. CASE \E k \in DOMAIN mem[i].funcs : /\ mem[i].funcs[k].name = name
                                          /\ d = [kind |-> "function", sheet |-> i, index |-> k]
  BY <1>2
<1>3. CASE \E k \in DOMAIN mem[i].cFuncs : /\ mem[i].cFuncs[k].name = name
                                           /\ d = [kind |-> "cFunction", sheet |-> i, index |-> k]
  BY <1>3
<1> QED
  BY <1>1, <1>2, <1>3, DefinedAtIs

(* What it is for an address to be that of a definition.                   *)
LEMMA AtVariable ==
  ASSUME NEW d, d.kind = "variable", NEW p, NEW a, a = Address(d.sheet, "data", p),
         live[d.sheet].data[p].is = "variable", live[d.sheet].data[p].of = live[d.sheet].vars[d.index].name
  PROVE  IsAt(a, d)
<1>1. a.sheet = d.sheet /\ a.in = "data" /\ a.at = p
  BY DEF Address
<1> QED
  BY <1>1 DEF IsAt

(* And of a function.                                                      *)
LEMMA AtFunction ==
  ASSUME NEW d, d.kind = "function", NEW p, NEW a, a = Address(d.sheet, "text", p),
         live[d.sheet].text[p].of = live[d.sheet].funcs[d.index].name
  PROVE  IsAt(a, d)
<1>1. a.sheet = d.sheet /\ a.in = "text" /\ a.at = p
  BY DEF Address
<1> QED
  BY <1>1 DEF IsAt

(* The operand for a variable, its own or another sheet's.                 *)
LEMMA VariableOperand ==
  ASSUME IInv, NEW id \in Ready, NEW k \in DOMAIN live[id].link,
         live[id].link[k].type \in {"VARIABLE", "POINTER"}
  PROVE  LET l == live[id].link[k]
         IN  l.meta \in Meant(live, id, l.name) /\ IsAt(Operand(id, l), l.meta)
<1> DEFINE s == live[id]
           l == s.link[k]
           x == l.meta.sheet
<1>1. Laid(s, id) /\ Linked(live, id) /\ id \in DOMAIN live /\ EntryLaid(s, id, l) /\ EntryLinked(live, id, l)
  BY DEF IInv, Ready, SheetWell, Linked, Laid
<1>2. Ordered(live, made) /\ Loading(live, made, id)
  BY <1>1, IInvWell, SheetsOrdered DEF SheetsWell, Loading
<1>3. /\ l.meta \in Meant(live, id, l.name) /\ l.meta.kind = "variable"
      /\ \E p : /\ Operand(id, l) = Address(x, "data", p)
                /\ live[x].data[p].is = "variable" /\ live[x].data[p].of = l.name
  <2>1. CASE x = id
    <3>1. VarOwn(s, id, l) /\ VarPlaced(s, l)
      BY <1>1, <2>1 DEF EntryLaid, OfOthers
    <3>2. l.meta \in Meant(live, id, l.name) /\ l.meta.kind = "variable"
      <4>1. SameSource(live[id], s)
        BY DEF SameSource, SameThings
      <4>2. l.meta \in Meant(live, id, l.name)
        BY <1>2, <3>1, <4>1, VarOwnMeant
      <4> QED
        BY <3>1, <4>2 DEF VarOwn
    <3>3. PICK p \in DOMAIN s.data : l.ptr = Index(p) /\ s.data[p].is = "variable" /\ s.data[p].of = l.name
      BY <3>1 DEF VarPlaced
    <3>4. Operand(id, l) = Address(id, "data", p)
      BY <2>1, <3>3 DEF Operand, Plus, Index
    <3> QED
      BY <2>1, <3>2, <3>3, <3>4
  <2>2. CASE x # id
    <3>1. PICK p : /\ l.ptr = Address(x, "data", p) /\ l.meta \in Meant(live, id, l.name)
                   /\ l.meta.kind = "variable"
                   /\ live[x].data[p].is = "variable" /\ live[x].data[p].of = l.name
      BY <1>1, <2>2, Zenon DEF EntryLinked
    <3>2. Operand(id, l) = l.ptr
      BY <2>2 DEF Operand
    <3> QED
      BY <3>1, <3>2, Zenon
  <2> QED
    BY <2>1, <2>2, Zenon
<1>4. l.meta \in DefinedAt(live, x, l.name)
  BY <1>1, <1>2, <1>3, MeantWithin
<1>5. live[x].vars[l.meta.index].name = l.name
  <2>1. PICK d, name : d = l.meta /\ name = l.name
    OBVIOUS
  <2>2. d \in DefinedAt(live, d.sheet, name) /\ d.kind = "variable"
    BY <1>3, <1>4, <2>1
  <2> HIDE DEF l
  <2>3. live[d.sheet].vars[d.index].name = name
    BY <2>2, DefinedName
  <2> QED
    BY <2>1, <2>3
<1>6. PICK p : /\ Operand(id, l) = Address(x, "data", p)
               /\ live[x].data[p].is = "variable" /\ live[x].data[p].of = l.name
  BY <1>3, Zenon
<1>7. IsAt(Operand(id, l), l.meta)
  <2>1. PICK d : d = l.meta
    OBVIOUS
  <2>2. PICK a : a = Operand(id, l)
    OBVIOUS
  <2> HIDE DEF l
  <2>3. IsAt(a, d)
    BY <1>3, <1>5, <1>6, <2>1, <2>2, AtVariable
  <2> QED
    BY <2>1, <2>2, <2>3
<1> QED
  BY <1>3, <1>7

(* The operand for a function.                                             *)
LEMMA FunctionOperand ==
  ASSUME IInv, NEW id \in Ready, NEW k \in DOMAIN live[id].link, live[id].link[k].type = "FUNCTION"
  PROVE  LET l == live[id].link[k]
         IN  l.meta \in Meant(live, id, l.name) /\ IsAt(Operand(id, l), l.meta)
<1> DEFINE s == live[id]
           l == s.link[k]
           x == l.meta.sheet
<1>1. Laid(s, id) /\ Linked(live, id) /\ id \in DOMAIN live /\ EntryLaid(s, id, l) /\ EntryLinked(live, id, l)
  BY DEF IInv, Ready, SheetWell, Linked, Laid
<1>2. Ordered(live, made) /\ Loading(live, made, id)
  BY <1>1, IInvWell, SheetsOrdered DEF SheetsWell, Loading
<1>3. /\ l.meta \in Meant(live, id, l.name) /\ l.meta.kind = "function"
      /\ \E p : Operand(id, l) = Address(x, "text", p) /\ live[x].text[p].of = l.name
  <2>1. CASE x = id
    <3>1. FuncOwn(s, id, l) /\ FuncPlaced(s, l)
      BY <1>1, <2>1 DEF EntryLaid, OfOthers
    <3>2. l.meta \in DefinedAt(live, id, l.name) /\ l.meta.kind = "function"
      BY <3>1, DefinedAtIs DEF FuncOwn
    <3>3. l.meta \in Meant(live, id, l.name)
      BY <1>2, <3>2, OwnIsMeant
    <3>4. PICK p \in DOMAIN s.text : l.ptr = Index(p) /\ s.text[p].of = l.name
      BY <3>1 DEF FuncPlaced
    <3>5. Operand(id, l) = Address(id, "text", p)
      BY <2>1, <3>4 DEF Operand, Plus, Index
    <3> QED
      BY <2>1, <3>2, <3>3, <3>4, <3>5
  <2>2. CASE x # id
    <3>1. PICK p : /\ l.ptr = Address(x, "text", p) /\ l.meta \in Meant(live, id, l.name)
                   /\ l.meta.kind = "function" /\ live[x].text[p].of = l.name
      BY <1>1, <2>2 DEF EntryLinked
    <3>2. Operand(id, l) = l.ptr
      BY <2>2 DEF Operand
    <3> QED
      BY <3>1, <3>2, Zenon
  <2> QED
    BY <2>1, <2>2
<1>4. l.meta \in DefinedAt(live, x, l.name)
  BY <1>1, <1>2, <1>3, MeantWithin
<1>5. live[x].funcs[l.meta.index].name = l.name
  <2>1. PICK d, name : d = l.meta /\ name = l.name
    OBVIOUS
  <2>2. d \in DefinedAt(live, d.sheet, name) /\ d.kind = "function"
    BY <1>3, <1>4, <2>1
  <2> HIDE DEF l
  <2>3. live[d.sheet].funcs[d.index].name = name
    BY <2>2, DefinedName
  <2> QED
    BY <2>1, <2>3
<1>6. PICK p : Operand(id, l) = Address(x, "text", p) /\ live[x].text[p].of = l.name
  BY <1>3, Zenon
<1>7. IsAt(Operand(id, l), l.meta)
  <2>1. PICK d : d = l.meta
    OBVIOUS
  <2>2. PICK a : a = Operand(id, l)
    OBVIOUS
  <2> HIDE DEF l
  <2>3. IsAt(a, d)
    BY <1>3, <1>5, <1>6, <2>1, <2>2, AtFunction, Zenon
  <2> QED
    BY <2>1, <2>2, <2>3
<1> QED
  BY <1>3, <1>7

(* The operand for a C function, in a sheet from source.                   *)
LEMMA CFunctionOperand ==
  ASSUME IInv, NEW id \in Ready, NEW k \in DOMAIN live[id].link, live[id].link[k].type = "CFUNCTION",
         ~live[id].loaded
  PROVE  LET l == live[id].link[k]
         IN  l.meta \in Meant(live, id, l.name) /\ IsAt(Operand(id, l), l.meta)
<1> DEFINE l == live[id].link[k]
<1>1. EntryLinked(live, id, l)
  BY DEF IInv, Ready, SheetWell, Linked
<1>2. /\ l.meta \in Meant(live, id, l.name) /\ l.meta.kind = "cFunction"
      /\ l.ptr = Address(l.meta.sheet, "c", l.meta.index)
  BY <1>1 DEF EntryLinked
<1>3. Operand(id, l) = l.ptr
  BY DEF Operand
<1>4. IsAt(Operand(id, l), l.meta)
  BY <1>2, <1>3 DEF IsAt, Address
<1> QED
  BY <1>2, <1>4

(* The operand for a text is the text's place in the sheet.                *)
LEMMA TextOperand ==
  ASSUME IInv, NEW id \in Ready, NEW k \in DOMAIN live[id].link, live[id].link[k].type = "LITERAL"
  PROVE  LET l == live[id].link[k]
             a == Operand(id, l)
         IN  /\ a.sheet = id /\ a.in = "data"
             /\ live[id].data[a.at].is = "text" /\ live[id].data[a.at].of = l.name
<1> DEFINE s == live[id]
           l == s.link[k]
<1>1. EntryLaid(s, id, l)
  BY DEF IInv, Ready, SheetWell, Laid
<1>2. PICK p \in DOMAIN s.data : l.ptr = Index(p) /\ s.data[p].is = "text" /\ s.data[p].of = l.name
  BY <1>1 DEF EntryLaid, TextPlaced
<1>3. Operand(id, l) = Address(id, "data", p)
  BY <1>2 DEF Operand, Plus, Index
<1> QED
  BY <1>2, <1>3 DEF Address

-----------------------------------------------------------------------------
(* Every entry of a linked sheet has a place, and every instruction that   *)
(* is linked names an entry there is: after d_link_sheet (dlink.c) no      *)
(* operand is left without an address, whatever the sources are.           *)
THEOREM LinkerTypes == Spec => []TypeOK
<1>1. IInv => TypeOK
  <2> SUFFICES ASSUME IInv
               PROVE  TypeOK
    OBVIOUS
  <2>1. ASSUME NEW id \in Ready
        PROVE  /\ \A k \in Range(live[id].insLinks) : k.ins \in DOMAIN live[id].text
                                                   /\ k.link \in DOMAIN live[id].link
               /\ \A l \in Range(live[id].link) : l.ptr # NotFound
    <3>1. Laid(live[id], id) /\ Linked(live, id)
      BY DEF IInv, Ready, SheetWell
    <3>2. \A k \in DOMAIN live[id].link : live[id].link[k].ptr # NotFound
      BY <3>1, NoPlaceless DEF Linked
    <3>3. \A k \in DOMAIN live[id].insLinks : /\ live[id].insLinks[k].ins \in DOMAIN live[id].text
                                              /\ live[id].insLinks[k].link \in DOMAIN live[id].link
      BY <3>1 DEF Laid, UseLaid
    <3> QED
      BY <3>2, <3>3, RangeIs
  <2> QED
    BY <2>1 DEF IInv, TypeOK
<1> QED
  BY <1>1, IInvAlways, PTL

(* d_link_precalculate_ptr (dlink.c) dereferences the metadata of an entry *)
(* without looking whether any was found. It does so for no object file    *)
(* whose names are all defined within the includes it is loaded with.      *)
THEOREM CrashesOnlyIfMissing == Spec => []CrashIsMissing
<1>1. IInv => CrashIsMissing
  BY DEF IInv, CrashIsMissing
<1> QED
  BY <1>1, IInvAlways, PTL

(* Every string variable of every sheet, after any loads, links and        *)
(* assignments, holds the address of a text in a sheet of the process: no  *)
(* address from the process that saved an object file is left in it.       *)
THEOREM StringsHoldTexts == Spec => []StringsAreTexts
<1>1. IInv => StringsAreTexts
  <2> SUFFICES ASSUME IInv, NEW id \in Ready, NEW i \in DOMAIN live[id].vars, live[id].vars[i].type = "String"
               PROVE  \E c \in Range(live[id].data) :
                        /\ c.is = "variable" /\ c.of = live[id].vars[i].name
                        /\ c.val.sheet \in Ready /\ c.val.in = "data"
                        /\ live[c.val.sheet].data[c.val.at].is = "text"
    BY DEF StringsAreTexts
  <2>1. StringsSet(live[id], id)
    BY DEF IInv, Ready, SheetWell, Linked
  <2>2. PICK p, q \in DOMAIN live[id].data :
          /\ live[id].data[p].is = "variable" /\ live[id].data[p].of = live[id].vars[i].name
          /\ live[id].data[p].val = Address(id, "data", q) /\ live[id].data[q].is = "text"
    BY <2>1 DEF StringsSet
  <2>3. PICK c : c = live[id].data[p]
    OBVIOUS
  <2>4. c \in Range(live[id].data)
    BY <2>3, RangeIs
  <2>5. c.val.sheet = id /\ c.val.in = "data" /\ c.val.at = q
    BY <2>2, <2>3 DEF Address
  <2> QED
    BY <2>2, <2>3, <2>4, <2>5
<1> QED
  BY <1>1, IInvAlways, PTL

(* Every operand is the address of what its name means: the variable, the  *)
(* function, the C function or the text, in the right sheet, in whatever   *)
(* order sheets were loaded, saved, loaded again and linked again.         *)
THEOREM OperandsAreRight == Spec => []OperandsRight
<1>1. IInv => OperandsRight
  <2> SUFFICES ASSUME IInv, NEW id \in Ready, NEW k \in Range(live[id].insLinks)
               PROVE  LET s == live[id]
                          a == s.text[k.ins].imm
                          meant == Meant(live, id, k.use.name)
                      IN  IF k.use.kind = "text"
                          THEN /\ a.sheet = id /\ a.in = "data"
                               /\ s.data[a.at].is = "text" /\ s.data[a.at].of = k.use.name
                          ELSE \/ s.loaded /\ s.link[k.link].type = "CFUNCTION"
                               \/ \E d \in meant : IsAt(a, d) /\ (s.loaded \/ meant = {d})
    BY DEF OperandsRight
  <2> DEFINE s == live[id]
             l == s.link[k.link]
             a == s.text[k.ins].imm
             meant == Meant(live, id, k.use.name)
  <2>1. Laid(s, id) /\ Linked(live, id)
    BY DEF IInv, Ready, SheetWell
  <2>2. PICK n \in DOMAIN s.insLinks : s.insLinks[n] = k
    BY RangeIs
  <2>3. UseLaid(s, k) /\ a = Operand(id, l)
    BY <2>1, <2>2 DEF Laid, Linked, OperandsSet
  <2>4. k.link \in DOMAIN s.link /\ l.name = k.use.name
    BY <2>3 DEF UseLaid
  <2>5. CASE k.use.kind = "text"
    <3>1. l.type = "LITERAL"
      BY <2>3, <2>5 DEF UseLaid
    <3> QED
      BY <2>3, <2>4, <2>5, <3>1, TextOperand
  <2>6. CASE k.use.kind # "text" /\ ~(s.loaded /\ l.type = "CFUNCTION")
    <3>1. l.type \in {"VARIABLE", "POINTER", "FUNCTION", "CFUNCTION"}
      BY <2>1, <2>3, <2>4, <2>6 DEF UseLaid, Laid, EntryLaid, LinkTypes
    <3>2. l.meta \in meant /\ IsAt(a, l.meta)
      BY <2>3, <2>4, <2>6, <3>1, VariableOperand, FunctionOperand, CFunctionOperand
    <3>3. s.loaded \/ meant = {l.meta}
      <4>1. k.use.kind = "name"
        BY <2>3, <2>6 DEF UseLaid
      <4> QED
        BY <2>1, <2>2, <4>1 DEF Linked
    <3> HIDE DEF a, l, meant
    <3>4. \E d \in meant : IsAt(a, d) /\ (s.loaded \/ meant = {d})
      BY <3>2, <3>3
    <3> QED
      BY <2>6, <3>4 DEF a, l, meant
  <2>7. CASE k.use.kind # "text" /\ s.loaded /\ l.type = "CFUNCTION"
    BY <2>7
  <2> QED
    BY <2>5, <2>6, <2>7, Zenon
<1> QED
  BY <1>1, IInvAlways, PTL

(* What d_link_includes_recursive links again loses no value but those of  *)
(* the string variables of the sheets that the new one includes itself.    *)
THEOREM LoadsKeepVariables == Spec => LoadKeepsVariables
<1> DEFINE Kept ==
      made' # made => \A id \in DOMAIN live \intersect DOMAIN live' :
        \A k \in DOMAIN live[id].data :
          \/ live'[id].data[k] = live[id].data[k]
          \/ id \in Range(live'[made'].includes) /\ \E v \in Range(live[id].vars) :
               v.type = "String" /\ v.name = live[id].data[k].of
<1>1. IInv /\ [Next]_vars => [Kept]_vars
  <2> SUFFICES ASSUME IInv, [Next]_vars, made' # made,
                      NEW id \in DOMAIN live \intersect DOMAIN live', NEW k \in DOMAIN live[id].data
               PROVE  \/ live'[id].data[k] = live[id].data[k]
                      \/ id \in Range(live'[made'].includes) /\ \E v \in Range(live[id].vars) :
                           v.type = "String" /\ v.name = live[id].data[k].of
    OBVIOUS
  <2>1. made' = made + 1 /\ \E s : LoadedFrom(live, live', made + 1, s)
    <3>1. ASSUME NEW source \in Sources, NEW includes \in Includable(source.incl), LoadSource(source, includes)
          PROVE  made' = made + 1 /\ \E s : LoadedFrom(live, live', made + 1, s)
      BY <3>1, SourceStep
    <3>2. ASSUME NEW o \in objects, NEW includes \in Includable(o.incl), LoadObject(o, includes)
          PROVE  made' = made + 1 /\ \E s : LoadedFrom(live, live', made + 1, s)
      <4>1. live' # <<>>
        OBVIOUS
      <4> QED
        BY <3>2, <4>1, ObjectStep
    <3>3. ASSUME NEW i \in DOMAIN live, Save(i) \/ \E j \in DOMAIN live[i].link : Assign(i, j)
          PROVE  FALSE
      BY <3>3, Zenon DEF Save, Assign
    <3>4. ~Exit /\ ~UNCHANGED vars
      BY DEF Exit, vars
    <3> QED
      BY <3>1, <3>2, <3>3, <3>4 DEF Next
  <2>2. PICK s : LoadedFrom(live, live', made + 1, s)
    BY <2>1
  <2>3. live'[id].data[k] = live[id].data[k] \/ (id \in Range(s.includes) /\ StringCell(live[id], k))
    BY <2>2 DEF LoadedFrom
  <2>4. live'[made'].includes = s.includes
    BY <2>1, <2>2 DEF LoadedFrom
  <2>5. StringCell(live[id], k) => \E v \in Range(live[id].vars) : v.type = "String" /\ v.name = live[id].data[k].of
    BY RangeIs DEF StringCell
  <2> QED
    BY <2>3, <2>4, <2>5
<1>2. Spec => [][Kept]_vars
  BY <1>1, IInvAlways, PTL DEF Spec
<1> QED
  BY <1>2 DEF LoadKeepsVariables
=============================================================================
