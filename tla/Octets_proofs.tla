----------------------------- MODULE Octets_proofs ------------------------------
(***************************************************************************)
(* What the exclusive or of a sequence of bytes does when the sequence      *)
(* grows, what sequences joined to one and parts of one are made of, and    *)
(* where the separators of a text are, for any lengths. The definitions are *)
(* recursive functions; induction is stated with a set of numbers instead   *)
(* of a predicate.                                                          *)
(***************************************************************************)
EXTENDS Octets, SequencesExt, SequenceTheorems, FiniteSetTheorems, TLAPS

\* A set of natural numbers has a least one: the strict subsets of a finite interval are
\* well founded.
LEMMA LeastNatural ==
  ASSUME NEW T \in SUBSET Nat, NEW k \in T
  PROVE  \E n \in T : \A m \in T : n <= m
<1> DEFINE S == 0..k
           F == {U \in SUBSET S : \E n \in T : U = 0..n}
<1>1. IsFiniteSet(S)
  BY FS_Interval
<1>2. FiniteSubsetsOf(S) = SUBSET S
  BY <1>1, FS_FiniteSubsetsOfFinite
<1>3. IsWellFoundedOn(StrictSubsetOrdering(S), FiniteSubsetsOf(S))
  BY FS_StrictSubsetOrderingWellFounded
<1>4. F \subseteq FiniteSubsetsOf(S) /\ 0..k \in F
  BY <1>2
<1>5. PICK U \in F : \A V \in F : <<V, U>> \notin StrictSubsetOrdering(S)
  <2> HIDE DEF F, S
  <2> QED
    BY <1>3, <1>4, WFMin
<1>6. PICK n \in T : U = 0..n
  OBVIOUS
<1>7. n <= k
  BY <1>6
<1>8. ASSUME NEW m \in T, m < n PROVE FALSE
  <2>1. 0..m \in F
    BY <1>7, <1>8
  <2>2. <<0..m, 0..n>> \in StrictSubsetOrdering(S)
    BY <1>6, <1>7, <1>8 DEF StrictSubsetOrdering
  <2> QED
    BY <1>5, <1>6, <2>1, <2>2
<1> QED
  BY <1>8

\* A set that contains 0, and with every number the next, contains them all.
LEMMA Induction ==
  ASSUME NEW P, 0 \in P, \A n \in Nat : n \in P => n + 1 \in P
  PROVE  Nat \subseteq P
<1> DEFINE T == Nat \ P
<1> SUFFICES ASSUME NEW k \in T PROVE FALSE
  OBVIOUS
<1>1. PICK n \in T : \A m \in T : n <= m
  BY LeastNatural
<1>2. n # 0 /\ n - 1 \in Nat /\ n - 1 \in P
  BY <1>1
<1> QED
  BY <1>1, <1>2

\* A bounded set of natural numbers has a greatest one.
LEMMA GreatestNatural ==
  ASSUME NEW S \in SUBSET Nat, S # {}, NEW n \in Nat, \A x \in S : x <= n
  PROVE  Max(S) \in S /\ \A x \in S : x <= Max(S)
<1> DEFINE T == {k \in Nat : \A x \in S : x <= k}
<1>1. T \in SUBSET Nat /\ n \in T
  OBVIOUS
<1>2. PICK k \in T : \A m \in T : k <= m
  BY <1>1, LeastNatural
<1>3. k \in S
  <2> SUFFICES ASSUME k \notin S PROVE FALSE
    OBVIOUS
  <2>1. PICK x \in S : TRUE
    OBVIOUS
  <2>2. \A y \in S : y < k
    BY <1>2
  <2>3. k - 1 \in T
    BY <2>1, <2>2
  <2> QED
    BY <1>2, <2>3
<1>4. \E x \in S : \A y \in S : x >= y
  BY <1>2, <1>3
<1>5. Max(S) \in S /\ \A y \in S : Max(S) >= y
  BY <1>4 DEF Max
<1> QED
  BY <1>5

\* f is defined by recursion from 0 up: it begins with a and goes on by next.
Recursive(f, a, next, N) == \A n \in 0..N : f[n] = IF n = 0 THEN a ELSE next[f[n - 1]][n]

\* Such a function exists and keeps to the set its steps keep to.
LEMMA RecursionExists ==
  ASSUME NEW V, NEW a \in V, NEW next \in [V -> [Nat -> V]], NEW N \in Nat
  PROVE  \E f \in [0..N -> V] : Recursive(f, a, next, N)
<1> USE DEF Recursive
<1> DEFINE P == {m \in Nat : \E f \in [0..m -> V] : Recursive(f, a, next, m)}
<1>1. 0 \in P
  <2> DEFINE f == [n \in 0..0 |-> a]
  <2>1. f \in [0..0 -> V] /\ \A n \in 0..0 : f[n] = IF n = 0 THEN a ELSE next[f[n - 1]][n]
    OBVIOUS
  <2> QED
    BY <2>1
<1>2. ASSUME NEW m \in Nat, m \in P PROVE m + 1 \in P
  <2>1. PICK f \in [0..m -> V] : Recursive(f, a, next, m)
    BY <1>2
  <2> DEFINE g == [n \in 0..m + 1 |-> IF n = m + 1 THEN next[f[m]][n] ELSE f[n]]
  <2>2. g \in [0..m + 1 -> V]
    OBVIOUS
  <2>3. ASSUME NEW n \in 0..m + 1 PROVE g[n] = IF n = 0 THEN a ELSE next[g[n - 1]][n]
    <3>1. CASE n = m + 1
      <4>1. g[n] = next[f[m]][n] /\ g[m] = f[m] /\ n - 1 = m /\ n # 0
        BY <3>1
      <4> HIDE DEF g
      <4> QED
        BY <4>1
    <3>2. CASE n \in 0..m
      <4>1. g[n] = f[n] /\ (n # 0 => n - 1 \in 0..m /\ g[n - 1] = f[n - 1])
        BY <3>2
      <4>2. f[n] = IF n = 0 THEN a ELSE next[f[n - 1]][n]
        BY <2>1, <3>2
      <4> HIDE DEF g
      <4> QED
        BY <4>1, <4>2
    <3> QED
      BY <3>1, <3>2
  <2> HIDE DEF g
  <2>4. m + 1 \in Nat
    OBVIOUS
  <2> QED
    BY <2>2, <2>3, <2>4
<1>3. Nat \subseteq P
  <2> HIDE DEF P
  <2> QED
    BY <1>1, <1>2, Induction
<1> QED
  BY <1>3

-------------------------------------------------------------------------------
(* The exclusive or *)

\* The exclusive or of two bytes is a byte.
LEMMA XorOctetType == \A a, b : XorOctet(a, b) \in Octet
<1> SUFFICES ASSUME NEW a, NEW b PROVE XorOctet(a, b) \in Octet
  OBVIOUS
<1> DEFINE x(i) == IF BitOf(a, i) = BitOf(b, i) THEN 0 ELSE 2^i
<1>1. /\ x(0) \in {0, 1} /\ x(1) \in {0, 2} /\ x(2) \in {0, 4} /\ x(3) \in {0, 8}
      /\ x(4) \in {0, 16} /\ x(5) \in {0, 32} /\ x(6) \in {0, 64} /\ x(7) \in {0, 128}
  OBVIOUS
<1>2. XorOctet(a, b) = x(0) + x(1) + x(2) + x(3) + x(4) + x(5) + x(6) + x(7)
  BY DEF XorOctet
<1> HIDE DEF x
<1> QED
  BY <1>1, <1>2 DEF Octet

\* XorOf by its steps: the exclusive or of the first n bytes, for every n.
LEMMA XorSteps ==
  ASSUME NEW s \in Seq(Octet)
  PROVE  \E f : /\ \A n \in 0..Len(s) : f[n] \in Octet
                /\ \A n \in 0..Len(s) : f[n] = IF n = 0 THEN 0 ELSE XorOctet(f[n - 1], s[n])
                /\ XorOf(s) = f[Len(s)]
<1> DEFINE step == [a \in Nat |-> [b \in Nat |-> XorOctet(a, b)]]
           next == [a \in Octet |-> [n \in Nat |-> XorOctet(a, s[n])]]
           N == Len(s)
           Upto(f) == f = [n \in 0..N |-> IF n = 0 THEN 0 ELSE step[f[n - 1]][s[n]]]
           upTo == CHOOSE f : Upto(f)
<1>1. N \in Nat /\ 0 \in Octet /\ Octet \subseteq Nat /\ \A n \in 1..N : s[n] \in Octet
  BY LenProperties, ElementOfSeq DEF Octet
<1>2. next \in [Octet -> [Nat -> Octet]]
  <2>1. \A a \in Octet : [n \in Nat |-> XorOctet(a, s[n])] \in [Nat -> Octet]
    BY XorOctetType
  <2> QED
    BY <2>1, Zenon
<1>3. \A a, b \in Octet : step[a][b] = XorOctet(a, b)
  <2> SUFFICES ASSUME NEW a \in Octet, NEW b \in Octet PROVE step[a][b] = XorOctet(a, b)
    OBVIOUS
  <2>1. a \in Nat /\ b \in Nat
    BY <1>1
  <2>2. step[a] = [d \in Nat |-> XorOctet(a, d)]
    BY <2>1, Zenon
  <2> QED
    BY <2>1, <2>2, Zenon
<1>4. \A a \in Octet, n \in Nat : next[a][n] = XorOctet(a, s[n])
  <2> SUFFICES ASSUME NEW a \in Octet, NEW n \in Nat PROVE next[a][n] = XorOctet(a, s[n])
    OBVIOUS
  <2>1. next[a] = [m \in Nat |-> XorOctet(a, s[m])]
    BY Zenon
  <2> QED
    BY <2>1, Zenon
<1> HIDE DEF step, next
<1>5. PICK f \in [0..N -> Octet] : Recursive(f, 0, next, N)
  <2>1. 0 \in Octet /\ N \in Nat
    BY <1>1
  <2> HIDE DEF N
  <2> QED
    BY <2>1, <1>2, RecursionExists
<1>6. \A n \in 0..N : n # 0 => /\ next[f[n - 1]][n] = XorOctet(f[n - 1], s[n])
                               /\ step[f[n - 1]][s[n]] = XorOctet(f[n - 1], s[n])
  <2> SUFFICES ASSUME NEW n \in 0..N, n # 0
               PROVE  /\ next[f[n - 1]][n] = XorOctet(f[n - 1], s[n])
                      /\ step[f[n - 1]][s[n]] = XorOctet(f[n - 1], s[n])
    OBVIOUS
  <2>1. f[n - 1] \in Octet /\ n \in Nat /\ s[n] \in Octet
    BY <1>1
  <2> QED
    BY <2>1, <1>3, <1>4, Zenon
<1>7. Upto(f)
  <2>1. \A n \in 0..N : f[n] = IF n = 0 THEN 0 ELSE step[f[n - 1]][s[n]]
    BY <1>5, <1>6 DEF Recursive
  <2> QED
    BY <1>5, <2>1
<1>8. Upto(upTo)
  <2>1. \E g : Upto(g)
    BY <1>7
  <2> HIDE DEF Upto
  <2> QED
    BY <2>1
<1>9. XorOf(s) = upTo[N]
  BY DEF XorOf, step
<1> HIDE DEF upTo
<1>10. \A n \in 0..N : upTo[n] = IF n = 0 THEN 0 ELSE step[upTo[n - 1]][s[n]]
  BY <1>8
<1>11. \A n \in 0..N : upTo[n] \in Octet
  <2> DEFINE P == {n \in Nat : n \in 0..N => upTo[n] \in Octet}
  <2>1. 0 \in P
    BY <1>1, <1>10
  <2>2. ASSUME NEW n \in Nat, n \in P PROVE n + 1 \in P
    <3>1. CASE n + 1 \in 0..N
      <4>1. upTo[n] \in Octet /\ s[n + 1] \in Octet /\ n \in 0..N
        BY <1>1, <2>2, <3>1
      <4>2. upTo[n + 1] = step[upTo[n]][s[n + 1]]
        BY <1>10, <3>1
      <4>3. step[upTo[n]][s[n + 1]] = XorOctet(upTo[n], s[n + 1])
        BY <4>1, <1>3
      <4> QED
        BY <4>2, <4>3, XorOctetType
    <3> QED
      BY <3>1
  <2>3. Nat \subseteq P
    <3> HIDE DEF P
    <3> QED
      BY <2>1, <2>2, Induction
  <2> QED
    BY <1>1, <2>3
<1>12. \A n \in 0..N : upTo[n] = IF n = 0 THEN 0 ELSE XorOctet(upTo[n - 1], s[n])
  <2> SUFFICES ASSUME NEW n \in 0..N, n # 0 PROVE upTo[n] = XorOctet(upTo[n - 1], s[n])
    BY <1>10
  <2>1. upTo[n - 1] \in Octet /\ s[n] \in Octet
    BY <1>1, <1>11
  <2>2. step[upTo[n - 1]][s[n]] = XorOctet(upTo[n - 1], s[n])
    BY <2>1, <1>3
  <2> QED
    BY <1>10, <2>2
<1> QED
  BY <1>9, <1>11, <1>12

\* Nothing has the exclusive or 0, and a byte more changes it by that byte: what lets a
\* checksum be kept up while the bytes arrive.
LEMMA XorOfEmpty == XorOf(<<>>) = 0
<1>1. <<>> \in Seq(Octet) /\ Len(<<>>) = 0
  BY EmptySeq
<1>2. PICK f : /\ \A n \in 0..Len(<<>>) : f[n] = IF n = 0 THEN 0 ELSE XorOctet(f[n - 1], <<>>[n])
               /\ XorOf(<<>>) = f[Len(<<>>)]
  BY <1>1, XorSteps
<1> QED
  BY <1>1, <1>2

\* One more octet is folded into the exclusive or of those before it.
LEMMA XorOfAppend ==
  ASSUME NEW s \in Seq(Octet), NEW c \in Octet
  PROVE  XorOf(Append(s, c)) = XorOctet(XorOf(s), c) /\ XorOf(s) \in Octet
<1> DEFINE t == Append(s, c)
           N == Len(s)
<1>1. /\ t \in Seq(Octet) /\ Len(t) = N + 1 /\ t[N + 1] = c /\ N \in Nat
      /\ \A n \in 1..N : t[n] = s[n]
  BY AppendProperties, LenProperties
<1> HIDE DEF t
<1>2. PICK f : /\ \A n \in 0..N : f[n] \in Octet
               /\ \A n \in 0..N : f[n] = IF n = 0 THEN 0 ELSE XorOctet(f[n - 1], s[n])
               /\ XorOf(s) = f[N]
  BY XorSteps
<1>3. PICK g : /\ \A n \in 0..N + 1 : g[n] = IF n = 0 THEN 0 ELSE XorOctet(g[n - 1], t[n])
               /\ XorOf(t) = g[N + 1]
  BY <1>1, XorSteps
<1>4. \A n \in 0..N : f[n] = g[n]
  <2> DEFINE P == {n \in Nat : n \in 0..N => f[n] = g[n]}
  <2>1. 0 \in P
    BY <1>1, <1>2, <1>3
  <2>2. ASSUME NEW n \in Nat, n \in P PROVE n + 1 \in P
    BY <1>1, <1>2, <1>3, <2>2
  <2>3. Nat \subseteq P
    <3> HIDE DEF P
    <3> QED
      BY <2>1, <2>2, Induction
  <2> QED
    BY <1>1, <2>3
<1> QED
  BY <1>1, <1>2, <1>3, <1>4 DEF t
-------------------------------------------------------------------------------
(* Sequences joined to one *)

\* Where two sequences lie in what they are joined to.
LEMMA Joined ==
  ASSUME NEW s \in Seq(Octet), NEW t \in Seq(Octet)
  PROVE  /\ s \o t \in Seq(Octet) /\ Len(s \o t) = Len(s) + Len(t)
         /\ \A i \in 1..Len(s) : (s \o t)[i] = s[i]
         /\ \A i \in 1..Len(t) : (s \o t)[Len(s) + i] = t[i]
<1> DEFINE u == s \o t
           m == Len(s)
           n == Len(t)
<1>1. /\ u \in Seq(Octet) /\ Len(u) = m + n
      /\ \A i \in 1..m + n : u[i] = IF i <= m THEN s[i] ELSE t[i - m]
  BY ConcatProperties
<1>2. m \in Nat /\ n \in Nat
  BY LenProperties
<1> HIDE DEF u, m, n
<1>3. ASSUME NEW i \in 1..m PROVE u[i] = s[i]
  BY <1>1, <1>2
<1>4. ASSUME NEW i \in 1..n PROVE u[m + i] = t[i]
  <2>1. m + i \in 1..m + n /\ ~(m + i <= m) /\ (m + i) - m = i
    BY <1>2
  <2> QED
    BY <1>1, <2>1
<1> QED
  BY <1>1, <1>3, <1>4 DEF u, m, n

\* FlattenSeq by its steps: f[n] is what the first n sequences are joined to.
LEMMA FlattenSteps ==
  ASSUME NEW S, NEW seqs \in Seq(Seq(S))
  PROVE  \E f \in [0..Len(seqs) -> Seq(S)] :
           /\ f[0] = <<>>
           /\ \A n \in 1..Len(seqs) : f[n] = f[n - 1] \o seqs[n]
           /\ FlattenSeq(seqs) = f[Len(seqs)]
<1> DEFINE N == Len(seqs)
           V == Seq(S)
           next == [s \in V |-> [n \in Nat |-> IF n \in 1..N THEN s \o seqs[n] ELSE s]]
           Upto(g) == g = [n \in 1..N |-> IF n = 1 THEN seqs[n] ELSE g[n - 1] \o seqs[n]]
           upTo == CHOOSE g : Upto(g)
<1>1. N \in Nat /\ <<>> \in V /\ \A n \in 1..N : seqs[n] \in V
  BY LenProperties, ElementOfSeq, EmptySeq
<1> HIDE DEF N, V
<1>2. next \in [V -> [Nat -> V]]
  <2>1. \A s \in V, n \in 1..N : s \o seqs[n] \in V
    BY <1>1, ConcatProperties DEF V
  <2>2. \A s \in V : [n \in Nat |-> IF n \in 1..N THEN s \o seqs[n] ELSE s] \in [Nat -> V]
    BY <2>1
  <2> QED
    BY <2>2, Zenon
<1>3. \A s \in V, n \in 1..N : next[s][n] = s \o seqs[n]
  <2> SUFFICES ASSUME NEW s \in V, NEW n \in 1..N PROVE next[s][n] = s \o seqs[n]
    OBVIOUS
  <2>1. next[s] = [k \in Nat |-> IF k \in 1..N THEN s \o seqs[k] ELSE s]
    BY Zenon
  <2>2. n \in Nat
    BY <1>1
  <2> QED
    BY <2>1, <2>2, Zenon
<1> HIDE DEF next
<1>4. PICK f \in [0..N -> V] : Recursive(f, <<>>, next, N)
  <2> QED
    BY <1>1, <1>2, RecursionExists
<1>5. f[0] = <<>> /\ \A n \in 1..N : f[n] = f[n - 1] \o seqs[n]
  <2>1. \A n \in 0..N : f[n] = IF n = 0 THEN <<>> ELSE next[f[n - 1]][n]
    BY <1>4 DEF Recursive
  <2>2. f[0] = <<>>
    BY <1>1, <2>1
  <2>3. ASSUME NEW n \in 1..N PROVE f[n] = f[n - 1] \o seqs[n]
    <3>1. n \in 0..N /\ n # 0 /\ n - 1 \in 0..N /\ f[n - 1] \in V
      BY <1>1, <1>4
    <3>2. f[n] = next[f[n - 1]][n]
      BY <2>1, <3>1
    <3> QED
      BY <1>3, <3>1, <3>2
  <2> QED
    BY <2>2, <2>3
<1>6. CASE N = 0
  <2>1. seqs = <<>>
    BY <1>6, EmptySeq DEF N
  <2>2. FlattenSeq(seqs) = seqs
    BY <1>6 DEF FlattenSeq, N
  <2> QED
    BY <1>4, <1>5, <1>6, <2>1, <2>2 DEF N, V
<1>7. CASE N # 0
  <2> DEFINE h == [n \in 1..N |-> f[n]]
  <2>1. Upto(h)
    <3>1. \A n \in 1..N : f[n] = IF n = 1 THEN seqs[n] ELSE h[n - 1] \o seqs[n]
      <4> SUFFICES ASSUME NEW n \in 1..N
                   PROVE  f[n] = IF n = 1 THEN seqs[n] ELSE h[n - 1] \o seqs[n]
        OBVIOUS
      <4>1. CASE n = 1
        <5>1. n - 1 = 0 /\ seqs[n] \in V
          BY <1>1, <4>1
        <5>2. f[n] = <<>> \o seqs[n]
          BY <1>5, <5>1
        <5> QED
          BY <4>1, <5>1, <5>2, ConcatEmptySeq DEF V
      <4>2. CASE n # 1
        <5>1. n - 1 \in 1..N
          BY <1>1, <4>2
        <5>2. h[n - 1] = f[n - 1]
          BY <5>1
        <5> QED
          BY <1>5, <4>2, <5>2
      <4> QED
        BY <4>1, <4>2
    <3> QED
      BY <3>1
  <2>2. Upto(upTo)
    <3>1. \E g : Upto(g)
      BY <2>1
    <3> HIDE DEF Upto
    <3> QED
      BY <3>1
  <2>3. FlattenSeq(seqs) = upTo[N]
    BY <1>7 DEF FlattenSeq, N
  <2> HIDE DEF upTo
  <2>4. \A n \in 1..N : upTo[n] = IF n = 1 THEN seqs[n] ELSE upTo[n - 1] \o seqs[n]
    BY <2>2
  <2>5. \A n \in 1..N : f[n] = IF n = 1 THEN seqs[n] ELSE f[n - 1] \o seqs[n]
    BY <1>5, <2>1
  <2> DEFINE P == {n \in Nat : n \in 1..N => upTo[n] = f[n]}
  <2>6. 0 \in P
    OBVIOUS
  <2>7. ASSUME NEW n \in Nat, n \in P PROVE n + 1 \in P
    <3> SUFFICES ASSUME n + 1 \in 1..N PROVE upTo[n + 1] = f[n + 1]
      OBVIOUS
    <3>1. (n + 1) - 1 = n /\ (n + 1 # 1 => n \in 1..N)
      BY <1>1
    <3>2. n + 1 # 1 => upTo[n] = f[n]
      BY <2>7, <3>1
    <3>3. /\ upTo[n + 1] = IF n + 1 = 1 THEN seqs[n + 1] ELSE upTo[n] \o seqs[n + 1]
          /\ f[n + 1] = IF n + 1 = 1 THEN seqs[n + 1] ELSE f[n] \o seqs[n + 1]
      BY <2>4, <2>5, <3>1
    <3> QED
      BY <3>2, <3>3, Zenon
  <2>8. Nat \subseteq P
    <3> HIDE DEF P
    <3> QED
      BY <2>6, <2>7, Induction
  <2>9. upTo[N] = f[N]
    BY <1>1, <1>7, <2>8
  <2> QED
    BY <1>4, <1>5, <2>3, <2>9 DEF N, V
<1> QED
  BY <1>6, <1>7

\* Where each sequence lies in what they are joined to.
LEMMA FlattenProperties ==
  ASSUME NEW S, NEW seqs \in Seq(Seq(S))
  PROVE  /\ FlattenSeq(seqs) \in Seq(S)
         /\ \E o \in [0..Len(seqs) -> Nat] :
              /\ o[0] = 0
              /\ \A n \in 1..Len(seqs) : o[n] = o[n - 1] + Len(seqs[n])
              /\ Len(FlattenSeq(seqs)) = o[Len(seqs)]
              /\ \A n \in 1..Len(seqs) : o[n] <= o[Len(seqs)]
              /\ \A n \in 1..Len(seqs) : \A i \in 1..Len(seqs[n]) :
                   FlattenSeq(seqs)[o[n - 1] + i] = seqs[n][i]
<1> DEFINE N == Len(seqs)
<1>1. N \in Nat /\ \A n \in 1..N : seqs[n] \in Seq(S) /\ Len(seqs[n]) \in Nat
  BY LenProperties, ElementOfSeq
<1>2. PICK f \in [0..N -> Seq(S)] :
        /\ f[0] = <<>>
        /\ \A n \in 1..N : f[n] = f[n - 1] \o seqs[n]
        /\ FlattenSeq(seqs) = f[N]
  BY FlattenSteps
<1> HIDE DEF N
<1> DEFINE o == [n \in 0..N |-> Len(f[n])]
<1>3. \A n \in 1..N : /\ n - 1 \in 0..N /\ f[n - 1] \in Seq(S) /\ Len(f[n - 1]) \in Nat
                     /\ Len(f[n]) = Len(f[n - 1]) + Len(seqs[n])
                     /\ \A i \in 1..Len(f[n]) :
                          f[n][i] = IF i <= Len(f[n - 1]) THEN f[n - 1][i]
                                    ELSE seqs[n][i - Len(f[n - 1])]
  <2> SUFFICES ASSUME NEW n \in 1..N
               PROVE  /\ n - 1 \in 0..N /\ f[n - 1] \in Seq(S) /\ Len(f[n - 1]) \in Nat
                      /\ Len(f[n]) = Len(f[n - 1]) + Len(seqs[n])
                      /\ \A i \in 1..Len(f[n]) :
                           f[n][i] = IF i <= Len(f[n - 1]) THEN f[n - 1][i]
                                     ELSE seqs[n][i - Len(f[n - 1])]
    OBVIOUS
  <2>1. n - 1 \in 0..N /\ f[n - 1] \in Seq(S) /\ seqs[n] \in Seq(S) /\ f[n] = f[n - 1] \o seqs[n]
    <3>1. n - 1 \in 0..N
      BY <1>1
    <3> QED
      BY <1>1, <1>2, <3>1, Zenon
  <2>2. Len(f[n - 1]) \in Nat
    BY <2>1, LenProperties
  <2>3. /\ Len(f[n]) = Len(f[n - 1]) + Len(seqs[n])
        /\ \A i \in 1..Len(f[n - 1]) + Len(seqs[n]) :
             f[n][i] = IF i <= Len(f[n - 1]) THEN f[n - 1][i] ELSE seqs[n][i - Len(f[n - 1])]
    <3> DEFINE s1 == f[n - 1]
               s2 == seqs[n]
    <3>1. s1 \in Seq(S) /\ s2 \in Seq(S) /\ f[n] = s1 \o s2
      BY <2>1, Zenon
    <3> HIDE DEF s1, s2
    <3>2. /\ Len(s1 \o s2) = Len(s1) + Len(s2)
          /\ \A i \in 1..Len(s1) + Len(s2) :
               (s1 \o s2)[i] = IF i <= Len(s1) THEN s1[i] ELSE s2[i - Len(s1)]
      BY <3>1, ConcatProperties
    <3> QED
      BY <3>1, <3>2, Zenon DEF s1, s2
  <2> QED
    BY <2>1, <2>2, <2>3, Zenon
<1> DEFINE Lies(n) == \A k \in 1..n : /\ o[k] <= o[n]
                                      /\ \A i \in 1..Len(seqs[k]) : f[n][o[k - 1] + i] = seqs[k][i]
           P == {n \in Nat : n \in 0..N => Lies(n)}
<1>4. /\ o \in [0..N -> Nat] /\ o[0] = 0
      /\ \A n \in 1..N : o[n] = o[n - 1] + Len(seqs[n])
      /\ \A n \in 0..N : o[n] = Len(f[n])
  <2>1. \A n \in 0..N : Len(f[n]) \in Nat
    BY <1>2, LenProperties
  <2>2. 0 \in 0..N /\ Len(f[0]) = 0
    BY <1>1, <1>2
  <2>3. o \in [0..N -> Nat]
    BY <2>1, Zenon
  <2>4. \A n \in 0..N : o[n] = Len(f[n])
    BY Zenon
  <2> HIDE DEF o
  <2>5. \A n \in 1..N : o[n] = o[n - 1] + Len(seqs[n])
    <3>1. \A n \in 1..N : n \in 0..N /\ n - 1 \in 0..N
      BY <1>1
    <3> QED
      BY <1>3, <2>4, <3>1, Zenon
  <2>6. o[0] = 0
    BY <2>2, <2>4
  <2> QED
    BY <2>3, <2>4, <2>5, <2>6
<1> HIDE DEF o
<1>5. 0 \in P
  OBVIOUS
<1>6. ASSUME NEW n \in Nat, n \in P PROVE n + 1 \in P
  <2> SUFFICES ASSUME n + 1 \in 0..N, NEW k \in 1..n + 1
               PROVE  /\ o[k] <= o[n + 1]
                      /\ \A i \in 1..Len(seqs[k]) : f[n + 1][o[k - 1] + i] = seqs[k][i]
    OBVIOUS
  <2>1. n \in 0..N /\ n + 1 \in 1..N /\ (n + 1) - 1 = n /\ k \in 1..N /\ k - 1 \in 0..N
    BY <1>1
  <2>2. /\ o[n] \in Nat /\ o[n] = Len(f[n]) /\ o[n + 1] = o[n] + Len(seqs[n + 1])
        /\ o[n + 1] = Len(f[n + 1]) /\ Len(seqs[n + 1]) \in Nat
        /\ o[k] \in Nat /\ o[k - 1] \in Nat /\ o[k] = o[k - 1] + Len(seqs[k]) /\ Len(seqs[k]) \in Nat
        /\ o[n + 1] \in Nat /\ o[n] <= o[n + 1]
    <3>1. n + 1 \in 0..N /\ k \in 0..N
      BY <1>1, <2>1
    <3>2. o[n] \in Nat /\ o[k] \in Nat /\ o[k - 1] \in Nat /\ o[n + 1] \in Nat
      BY <1>4, <2>1, <3>1
    <3>3. o[n + 1] = o[n] + Len(seqs[n + 1]) /\ Len(seqs[n + 1]) \in Nat
      BY <1>1, <1>4, <2>1, Zenon
    <3>4. \A x, y, z \in Nat : x = y + z => y <= x
      OBVIOUS
    <3>5. o[n] <= o[n + 1]
      BY <3>2, <3>3, <3>4, Zenon
    <3> QED
      BY <1>1, <1>4, <2>1, <3>1, <3>2, <3>3, <3>5, Zenon
  <2>3. \A i \in 1..o[n + 1] : f[n + 1][i] = IF i <= o[n] THEN f[n][i] ELSE seqs[n + 1][i - o[n]]
    BY <1>3, <2>1, <2>2
  <2>4. CASE k = n + 1
    <3>1. ASSUME NEW i \in 1..Len(seqs[k]) PROVE f[n + 1][o[k - 1] + i] = seqs[k][i]
      <4>1. /\ o[k - 1] = o[n] /\ o[n] + i \in 1..o[n + 1] /\ ~(o[n] + i <= o[n])
            /\ (o[n] + i) - o[n] = i
        BY <2>1, <2>2, <2>4
      <4> QED
        BY <2>3, <2>4, <4>1
    <3>2. o[k] <= o[n + 1]
      <4>1. \A x \in Nat : x <= x
        OBVIOUS
      <4> QED
        BY <2>2, <2>4, <4>1, Zenon
    <3> QED
      BY <3>1, <3>2, Zenon
  <2>5. CASE k # n + 1
    <3>1. k \in 1..n /\ Lies(n)
      <4>1. k \in 1..n
        BY <2>5
      <4> HIDE DEF Lies
      <4> QED
        BY <1>6, <2>1, <4>1
    <3>2. o[k] <= o[n]
      BY <3>1
    <3>3. ASSUME NEW i \in 1..Len(seqs[k]) PROVE f[n + 1][o[k - 1] + i] = seqs[k][i]
      <4>1. f[n][o[k - 1] + i] = seqs[k][i]
        BY <3>1
      <4>2. o[k - 1] + i \in 1..o[n + 1] /\ o[k - 1] + i <= o[n]
        <5> DEFINE ok == o[k]
                   om == o[k - 1]
                   on == o[n]
                   op == o[n + 1]
                   l == Len(seqs[k])
        <5>1. /\ ok \in Nat /\ om \in Nat /\ on \in Nat /\ op \in Nat /\ l \in Nat
              /\ ok = om + l /\ ok <= on /\ on <= op /\ i \in 1..l
          BY <2>2, <3>2, Zenon
        <5> HIDE DEF ok, om, on, op, l
        <5>2. om + i \in 1..op /\ om + i <= on
          BY <5>1
        <5> QED
          BY <5>2 DEF om, on, op
      <4> QED
        BY <2>3, <4>1, <4>2
    <3>4. o[k] <= o[n + 1]
      <4>1. \A x, y, z \in Nat : x <= y /\ y <= z => x <= z
        OBVIOUS
      <4> QED
        BY <2>2, <3>2, <4>1, Zenon
    <3> QED
      BY <3>3, <3>4, Zenon
  <2> QED
    BY <2>4, <2>5
<1>7. Nat \subseteq P
  <2> HIDE DEF P
  <2> QED
    BY <1>5, <1>6, Induction
<1>8. Lies(N)
  <2>1. N \in P /\ N \in 0..N
    BY <1>1, <1>7
  <2> HIDE DEF Lies
  <2> QED
    BY <2>1
<1>9. /\ FlattenSeq(seqs) \in Seq(S) /\ Len(FlattenSeq(seqs)) = o[N]
      /\ \A n \in 1..N : o[n] <= o[N]
      /\ \A n \in 1..N : \A i \in 1..Len(seqs[n]) : FlattenSeq(seqs)[o[n - 1] + i] = seqs[n][i]
  <2>1. N \in 0..N
    BY <1>1
  <2> QED
    BY <1>2, <1>4, <1>8, <2>1, Zenon
<1> QED
  BY <1>4, <1>9, Zenon DEF N

\* The part of a sequence from one position to another.
LEMMA Part ==
  ASSUME NEW S, NEW s \in Seq(S), NEW i \in 1..Len(s), NEW j \in i - 1..Len(s)
  PROVE  /\ SubSeq(s, i, j) \in Seq(S) /\ Len(SubSeq(s, i, j)) = j - i + 1
         /\ \A k \in 1..j - i + 1 : SubSeq(s, i, j)[k] = s[i - 1 + k]
<1> DEFINE r == SubSeq(s, i, j)
<1>1. Len(s) \in Nat
  BY LenProperties
<1>2. i \in Int /\ j \in Int /\ \A k \in i..j : s[k] \in S
  BY <1>1, ElementOfSeq
<1>3. /\ r \in Seq(S) /\ Len(r) = IF i <= j THEN j - i + 1 ELSE 0
      /\ \A k \in 1..j - i + 1 : r[k] = s[i + k - 1]
  BY <1>2, SubSeqProperties
<1> HIDE DEF r
<1>4. Len(r) = j - i + 1
  BY <1>1, <1>2, <1>3
<1>5. ASSUME NEW k \in 1..j - i + 1 PROVE r[k] = s[i - 1 + k]
  <2>1. i + k - 1 = i - 1 + k
    BY <1>2
  <2> QED
    BY <1>3, <2>1
<1> QED
  BY <1>3, <1>4, <1>5 DEF r

\* The part of a sequence that reads t.
LEMMA PartIs ==
  ASSUME NEW S, NEW s \in Seq(S), NEW t \in Seq(S), NEW i \in Nat \ {0}, NEW j \in Nat,
         i - 1 + Len(t) = j, j <= Len(s), i <= Len(s), \A k \in 1..Len(t) : s[i - 1 + k] = t[k]
  PROVE  SubSeq(s, i, j) = t
<1> DEFINE r == SubSeq(s, i, j)
<1>1. Len(t) \in Nat /\ Len(s) \in Nat
  BY LenProperties
<1>2. i \in 1..Len(s) /\ j \in i - 1..Len(s) /\ j - i + 1 = Len(t)
  BY <1>1
<1>3. /\ r \in Seq(S) /\ Len(r) = j - i + 1
      /\ \A k \in 1..j - i + 1 : r[k] = s[i - 1 + k]
  BY <1>2, Part
<1> HIDE DEF r
<1>4. Len(r) = Len(t) /\ \A k \in 1..Len(r) : r[k] = t[k]
  BY <1>2, <1>3
<1>5. r = t
  BY <1>3, <1>4, SeqEqual
<1> QED
  BY <1>5 DEF r

-------------------------------------------------------------------------------
(* The separators of a sentence *)

Separator == {COMMA, STAR, LF}

\* The positions of the separators of a text, in their order.
CutsOf(t) ==
  LET upTo[n \in 0..Len(t)] ==
        IF n = 0 THEN <<>>
        ELSE IF t[n] \in Separator THEN Append(upTo[n - 1], n) ELSE upTo[n - 1]
  IN  upTo[Len(t)]

\* The separators of a text by their steps: those of its first n bytes, for every n.
LEMMA CutSteps ==
  ASSUME NEW s \in Seq(Octet)
  PROVE  \E f : /\ \A n \in 0..Len(s) : f[n] \in Seq(Nat)
                /\ \A n \in 0..Len(s) :
                     f[n] = IF n = 0 THEN <<>>
                            ELSE IF s[n] \in Separator THEN Append(f[n - 1], n) ELSE f[n - 1]
                /\ CutsOf(s) = f[Len(s)]
<1> DEFINE next == [x \in Seq(Nat) |->
                     [n \in Nat |-> IF s[n] \in Separator THEN Append(x, n) ELSE x]]
           N == Len(s)
           Upto(f) == f = [n \in 0..N |->
                            IF n = 0 THEN <<>>
                            ELSE IF s[n] \in Separator THEN Append(f[n - 1], n) ELSE f[n - 1]]
           upTo == CHOOSE f : Upto(f)
<1>1. N \in Nat /\ <<>> \in Seq(Nat)
  BY LenProperties, EmptySeq
<1>2. \A x \in Seq(Nat), n \in Nat :
        (IF s[n] \in Separator THEN Append(x, n) ELSE x) \in Seq(Nat)
  BY AppendProperties
<1>3. next \in [Seq(Nat) -> [Nat -> Seq(Nat)]]
  <2>1. \A x \in Seq(Nat) :
          [n \in Nat |-> IF s[n] \in Separator THEN Append(x, n) ELSE x] \in [Nat -> Seq(Nat)]
    BY <1>2
  <2> QED
    BY <2>1, Zenon
<1>4. \A x \in Seq(Nat), n \in Nat :
        next[x][n] = IF s[n] \in Separator THEN Append(x, n) ELSE x
  <2> SUFFICES ASSUME NEW x \in Seq(Nat), NEW n \in Nat
               PROVE  next[x][n] = IF s[n] \in Separator THEN Append(x, n) ELSE x
    OBVIOUS
  <2>1. next[x] = [m \in Nat |-> IF s[m] \in Separator THEN Append(x, m) ELSE x]
    BY Zenon
  <2> QED
    BY <2>1, Zenon
<1> HIDE DEF next
<1>5. PICK f \in [0..N -> Seq(Nat)] : Recursive(f, <<>>, next, N)
  <2> HIDE DEF N
  <2> QED
    BY <1>1, <1>3, RecursionExists
<1>6. Upto(f)
  <2>1. ASSUME NEW n \in 0..N
        PROVE  f[n] = IF n = 0 THEN <<>>
                      ELSE IF s[n] \in Separator THEN Append(f[n - 1], n) ELSE f[n - 1]
    <3>0. n \in Nat /\ (n # 0 => n - 1 \in 0..N)
      BY <1>1
    <3>1. n # 0 => f[n - 1] \in Seq(Nat) /\ n \in Nat
      BY <3>0, Zenon
    <3>2. f[n] = IF n = 0 THEN <<>> ELSE next[f[n - 1]][n]
      BY <1>5 DEF Recursive
    <3> QED
      BY <3>1, <3>2, <1>4, Zenon
  <2> QED
    BY <2>1
<1>7. Upto(upTo)
  <2>1. \E g : Upto(g)
    BY <1>6
  <2> HIDE DEF Upto
  <2> QED
    BY <2>1
<1>8. CutsOf(s) = upTo[N]
  BY Zenon DEF CutsOf, N
<1> HIDE DEF upTo
<1>9. \A n \in 0..N : upTo[n] = IF n = 0 THEN <<>>
                                ELSE IF s[n] \in Separator THEN Append(upTo[n - 1], n)
                                                           ELSE upTo[n - 1]
  BY <1>7
<1>10. \A n \in 0..N : upTo[n] \in Seq(Nat)
  <2> DEFINE P == {n \in Nat : n \in 0..N => upTo[n] \in Seq(Nat)}
  <2>1. 0 \in P
    BY <1>1, <1>9
  <2>2. ASSUME NEW n \in Nat, n \in P PROVE n + 1 \in P
    <3>1. CASE n + 1 \in 0..N
      <4>1. upTo[n] \in Seq(Nat) /\ n + 1 \in Nat /\ n + 1 # 0
        BY <1>1, <2>2, <3>1
      <4>2. upTo[n + 1] = IF s[n + 1] \in Separator THEN Append(upTo[n], n + 1) ELSE upTo[n]
        BY <1>9, <3>1
      <4>3. upTo[n + 1] \in Seq(Nat)
        BY <4>1, <4>2, <1>2, Zenon
      <4> QED
        BY <4>1, <4>3
    <3> QED
      BY <3>1
  <2>3. Nat \subseteq P
    <3> HIDE DEF P
    <3> QED
      BY <2>1, <2>2, Induction
  <2> QED
    BY <1>1, <2>3
<1> QED
  BY <1>8, <1>9, <1>10

\* c names separators of t in their order, and all of them.
Cut(t, c) ==
  /\ t \in Seq(Octet) /\ c \in Seq(Nat)
  /\ \A k \in 1..Len(c) : c[k] \in 1..Len(t) /\ t[c[k]] \in Separator
  /\ \A k \in 1..Len(c) - 1 : c[k] < c[k + 1]
  /\ \A i \in 1..Len(t) : t[i] \in Separator => \E k \in 1..Len(c) : i = c[k]

\* What rises from each to the next rises.
LEMMA Rises ==
  ASSUME NEW c \in Seq(Nat), \A k \in 1..Len(c) - 1 : c[k] < c[k + 1],
         NEW j \in 1..Len(c), NEW k \in j + 1..Len(c)
  PROVE  c[j] < c[k]
<1> DEFINE N == Len(c)
           P == {n \in Nat : j + 1 + n \in 1..N => c[j] < c[j + 1 + n]}
<1>1. N \in Nat /\ \A n \in 1..N : c[n] \in Nat
  BY LenProperties, ElementOfSeq
<1> HIDE DEF N
<1>2. j \in 1..N /\ k \in j + 1..N /\ \A n \in 1..N - 1 : c[n] < c[n + 1]
  BY DEF N
<1>3. 0 \in P
  <2>1. j + 1 \in 1..N => j \in 1..N - 1
    BY <1>1, <1>2
  <2>2. j + 1 + 0 = j + 1
    BY <1>2
  <2> QED
    BY <1>2, <2>1, <2>2
<1>4. ASSUME NEW n \in Nat, n \in P PROVE n + 1 \in P
  <2> SUFFICES ASSUME j + 1 + (n + 1) \in 1..N PROVE c[j] < c[j + 1 + (n + 1)]
    OBVIOUS
  <2> DEFINE m == j + 1 + n
  <2>1. m \in 1..N - 1 /\ m \in 1..N /\ m + 1 \in 1..N /\ j + 1 + (n + 1) = m + 1
    BY <1>1, <1>2
  <2>2. c[j] < c[m]
    BY <1>4, <2>1
  <2> HIDE DEF m
  <2>3. c[m] < c[m + 1] /\ c[j] \in Nat /\ c[m] \in Nat /\ c[m + 1] \in Nat
    BY <1>1, <1>2, <2>1
  <2>4. c[j] < c[m + 1]
    BY <2>2, <2>3
  <2> QED
    BY <2>1, <2>4
<1>5. Nat \subseteq P
  <2> HIDE DEF P
  <2> QED
    BY <1>3, <1>4, Induction
<1>6. k - j - 1 \in Nat /\ j + 1 + (k - j - 1) = k /\ k \in 1..N
  BY <1>1, <1>2
<1> QED
  BY <1>5, <1>6

\* The first m elements and the next.
LEMMA SubSeqGrows ==
  ASSUME NEW S, NEW s \in Seq(S), NEW m \in Nat, m + 1 \in 1..Len(s)
  PROVE  Append(SubSeq(s, 1, m), s[m + 1]) = SubSeq(s, 1, m + 1)
<1> DEFINE a == SubSeq(s, 1, m)
           b == SubSeq(s, 1, m + 1)
           d == Append(a, s[m + 1])
<1>1. Len(s) \in Nat /\ s[m + 1] \in S /\ \A i \in 1..m + 1 : s[i] \in S
  BY LenProperties, ElementOfSeq
<1>2. a \in Seq(S) /\ Len(a) = m /\ \A i \in 1..m : a[i] = s[i]
  <2>1. /\ a \in Seq(S) /\ Len(a) = IF 1 <= m THEN m - 1 + 1 ELSE 0
        /\ \A i \in 1..m - 1 + 1 : a[i] = s[1 + i - 1]
    <3>1. 1 \in Int /\ m \in Int /\ \A i \in 1..m : s[i] \in S
      BY <1>1
    <3> QED
      BY <3>1, SubSeqProperties
  <2> HIDE DEF a
  <2> QED
    BY <2>1
<1>3. b \in Seq(S) /\ Len(b) = m + 1 /\ \A i \in 1..m + 1 : b[i] = s[i]
  <2>1. /\ b \in Seq(S) /\ Len(b) = IF 1 <= m + 1 THEN (m + 1) - 1 + 1 ELSE 0
        /\ \A i \in 1..(m + 1) - 1 + 1 : b[i] = s[1 + i - 1]
    <3>1. 1 \in Int /\ m + 1 \in Int /\ \A i \in 1..m + 1 : s[i] \in S
      BY <1>1
    <3> QED
      BY <3>1, SubSeqProperties
  <2> HIDE DEF b
  <2> QED
    BY <2>1
<1> HIDE DEF a, b
<1>4. /\ d \in Seq(S) /\ Len(d) = m + 1 /\ d[m + 1] = s[m + 1]
      /\ \A i \in 1..m : d[i] = a[i]
  <2>1. /\ d \in Seq(S) /\ Len(d) = Len(a) + 1 /\ d[Len(a) + 1] = s[m + 1]
        /\ \A i \in 1..Len(a) : d[i] = a[i]
    BY <1>1, <1>2, AppendProperties
  <2> QED
    BY <1>2, <2>1
<1> HIDE DEF d
<1>5. \A i \in 1..m + 1 : d[i] = b[i]
  BY <1>2, <1>3, <1>4
<1>6. d = b
  BY <1>3, <1>4, <1>5, SeqEqual
<1> QED
  BY <1>6 DEF a, b, d

\* The separators of a text are found in their order.
LEMMA CutsAre ==
  ASSUME NEW t, NEW c, Cut(t, c)
  PROVE  CutsOf(t) = c
<1> DEFINE N == Len(t)
           M == Len(c)
<1>1. /\ t \in Seq(Octet) /\ c \in Seq(Nat) /\ N \in Nat /\ M \in Nat
      /\ \A k \in 1..M : c[k] \in 1..N /\ c[k] \in Nat /\ t[c[k]] \in Separator
      /\ \A i \in 1..N : t[i] \in Separator => \E k \in 1..M : i = c[k]
  BY LenProperties, ElementOfSeq DEF Cut
<1>2. \A j \in 1..M : \A k \in j + 1..M : c[j] < c[k]
  BY <1>1, Rises DEF Cut
<1>3. PICK f : /\ \A n \in 0..N : f[n] \in Seq(Nat)
               /\ \A n \in 0..N :
                    f[n] = IF n = 0 THEN <<>>
                           ELSE IF t[n] \in Separator THEN Append(f[n - 1], n) ELSE f[n - 1]
               /\ CutsOf(t) = f[N]
  BY <1>1, CutSteps
<1> HIDE DEF N, M
<1> DEFINE Found(n, m) == /\ m \in 0..M /\ f[n] = SubSeq(c, 1, m)
                          /\ \A k \in 1..m : c[k] <= n
                          /\ \A k \in m + 1..M : c[k] > n
           P == {n \in Nat : n \in 0..N => \E m : Found(n, m)}
<1>4. 0 \in P
  <2>1. f[0] = <<>>
    <3>1. 0 \in 0..N
      BY <1>1
    <3> QED
      BY <1>3, <3>1, Zenon
  <2>2. SubSeq(c, 1, 0) = <<>>
    BY SubSeqEmpty
  <2>3. Found(0, 0)
    BY <1>1, <2>1, <2>2
  <2> QED
    BY <2>3
<1>5. ASSUME NEW n \in Nat, n \in P PROVE n + 1 \in P
  <2> SUFFICES ASSUME n + 1 \in 0..N PROVE \E m : Found(n + 1, m)
    <3> HIDE DEF Found
    <3>1. n + 1 \in Nat
      OBVIOUS
    <3> QED
      BY <3>1
  <2>1. n \in 0..N /\ n + 1 \in 1..N /\ n + 1 # 0 /\ (n + 1) - 1 = n
    BY <1>1
  <2>2. PICK m : Found(n, m)
    BY <1>5, <2>1
  <2>3. f[n + 1] = IF t[n + 1] \in Separator THEN Append(f[n], n + 1) ELSE f[n]
    BY <1>3, <2>1
  <2>4. CASE t[n + 1] \in Separator
    <3>1. PICK k \in 1..M : c[k] = n + 1
      BY <1>1, <2>1, <2>4
    <3>2. k = m + 1
      <4>1. m \in 0..M /\ (\A j \in 1..m : c[j] <= n) /\ (\A j \in m + 1..M : c[j] > n)
        BY <2>2
      <4>2. k >= m + 1
        <5>1. k \in 1..m => FALSE
          BY <3>1, <4>1
        <5> QED
          BY <1>1, <4>1, <5>1
      <4>3. CASE k > m + 1
        <5>1. m + 1 \in 1..M /\ m + 1 \in m + 1..M /\ k \in (m + 1) + 1..M
          BY <1>1, <4>1, <4>3
        <5>2. c[m + 1] > n /\ c[m + 1] < n + 1 /\ c[m + 1] \in Nat
          <6>1. c[m + 1] < c[k]
            BY <1>2, <5>1
          <6> QED
            BY <1>1, <3>1, <4>1, <5>1, <6>1
        <5> QED
          BY <5>2
      <4> QED
        BY <4>1, <4>2, <4>3
    <3>3. m + 1 \in 1..M /\ m \in 0..M /\ m \in Nat /\ c[m + 1] = n + 1
      BY <1>1, <2>2, <3>1, <3>2
    <3>4. Append(SubSeq(c, 1, m), c[m + 1]) = SubSeq(c, 1, m + 1)
      <4>1. m + 1 \in 1..Len(c)
        BY <3>3 DEF M
      <4> QED
        BY <1>1, <3>3, <4>1, SubSeqGrows
    <3>5. f[n + 1] = SubSeq(c, 1, m + 1)
      BY <2>2, <2>3, <2>4, <3>3, <3>4
    <3>6. \A j \in 1..m + 1 : c[j] <= n + 1
      <4> SUFFICES ASSUME NEW j \in 1..m + 1 PROVE c[j] <= n + 1
        OBVIOUS
      <4>1. CASE j = m + 1
        BY <3>3, <4>1
      <4>2. CASE j # m + 1
        <5>1. j \in 1..m /\ j \in 1..M
          BY <1>1, <3>3, <4>2
        <5>2. c[j] <= n /\ c[j] \in Nat
          BY <1>1, <2>2, <5>1
        <5> QED
          BY <5>2
      <4> QED
        BY <4>1, <4>2
    <3>7. \A j \in (m + 1) + 1..M : c[j] > n + 1
      <4> SUFFICES ASSUME NEW j \in (m + 1) + 1..M PROVE c[j] > n + 1
        OBVIOUS
      <4>1. j \in 1..M
        BY <1>1, <3>3
      <4>2. c[m + 1] < c[j] /\ c[j] \in Nat
        BY <1>1, <1>2, <3>3, <4>1
      <4> QED
        BY <3>3, <4>2
    <3>8. m + 1 \in 0..M
      BY <1>1, <3>3
    <3> QED
      BY <3>5, <3>6, <3>7, <3>8
  <2>5. CASE t[n + 1] \notin Separator
    <3>1. \A k \in 1..M : c[k] # n + 1
      BY <1>1, <2>5
    <3>2. f[n + 1] = SubSeq(c, 1, m)
      BY <2>2, <2>3, <2>5
    <3>3. \A j \in 1..m : c[j] <= n + 1
      <4> SUFFICES ASSUME NEW j \in 1..m PROVE c[j] <= n + 1
        OBVIOUS
      <4>1. j \in 1..M
        BY <1>1, <2>2
      <4>2. c[j] <= n /\ c[j] \in Nat
        BY <1>1, <2>2, <4>1
      <4> QED
        BY <4>2
    <3>4. \A j \in m + 1..M : c[j] > n + 1
      <4> SUFFICES ASSUME NEW j \in m + 1..M PROVE c[j] > n + 1
        OBVIOUS
      <4>1. j \in 1..M
        BY <1>1, <2>2
      <4>2. c[j] > n /\ c[j] # n + 1 /\ c[j] \in Nat
        BY <1>1, <2>2, <3>1, <4>1
      <4> QED
        BY <4>2
    <3> QED
      BY <2>2, <3>2, <3>3, <3>4
  <2> QED
    BY <2>4, <2>5
<1>6. Nat \subseteq P
  <2> HIDE DEF P
  <2> QED
    BY <1>4, <1>5, Induction
<1>7. PICK m : Found(N, m)
  <2> HIDE DEF Found
  <2>1. N \in P /\ N \in 0..N
    BY <1>1, <1>6
  <2> QED
    BY <2>1
<1>8. m = M
  <2> SUFFICES ASSUME m # M PROVE FALSE
    OBVIOUS
  <2>1. m + 1 \in 1..M /\ m + 1 \in m + 1..M
    BY <1>1, <1>7
  <2>2. c[m + 1] > N /\ c[m + 1] \in 1..N
    BY <1>1, <1>7, <2>1
  <2> QED
    BY <1>1, <2>2
<1>9. SubSeq(c, 1, M) = c
  BY <1>1, SubSeqFull DEF M
<1>10. CutsOf(t) = f[N]
  BY <1>3
<1>11. f[N] = SubSeq(c, 1, M)
  BY <1>7, <1>8
<1> QED
  BY <1>9, <1>10, <1>11

\* Separators at the same places.
LEMMA SameSeparators ==
  ASSUME NEW s \in Seq(Octet), NEW t \in Seq(Octet), Len(s) = Len(t),
         \A i \in 1..Len(s) : s[i] \in Separator <=> t[i] \in Separator
  PROVE  CutsOf(s) = CutsOf(t)
<1> DEFINE N == Len(s)
<1>1. N \in Nat
  BY LenProperties
<1>2. PICK f : /\ \A n \in 0..N :
                    f[n] = IF n = 0 THEN <<>>
                           ELSE IF s[n] \in Separator THEN Append(f[n - 1], n) ELSE f[n - 1]
               /\ CutsOf(s) = f[N]
  BY CutSteps
<1>3. PICK g : /\ \A n \in 0..N :
                    g[n] = IF n = 0 THEN <<>>
                           ELSE IF t[n] \in Separator THEN Append(g[n - 1], n) ELSE g[n - 1]
               /\ CutsOf(t) = g[N]
  BY CutSteps
<1> DEFINE P == {n \in 0..N : f[n] # g[n]}
<1>4. SUFFICES ASSUME NEW k \in P PROVE FALSE
  <2>1. N \in 0..N
    BY <1>1
  <2> QED
    BY <1>2, <1>3, <1>4, <2>1, Zenon
<1>5. P \in SUBSET Nat
  BY <1>1
<1>6. PICK n \in P : \A m \in P : n <= m
  BY <1>5, LeastNatural
<1>7. n \in 0..N /\ f[n] # g[n]
  OBVIOUS
<1>8. n # 0
  <2>1. 0 \in 0..N
    BY <1>1
  <2> QED
    BY <1>2, <1>3, <1>7, <2>1, Zenon
<1>9. n - 1 \in 0..N /\ n \in 1..N /\ ~(n <= n - 1)
  BY <1>1, <1>7, <1>8
<1>10. f[n - 1] = g[n - 1]
  BY <1>6, <1>9
<1>11. s[n] \in Separator <=> t[n] \in Separator
  BY <1>9
<1> QED
  BY <1>2, <1>3, <1>7, <1>8, <1>10, <1>11, Zenon

\* Separators are where they are.
LEMMA CutRange == ASSUME NEW s \in Seq(Octet) PROVE CutsOf(s) \in Seq(1..Len(s))
<1> DEFINE N == Len(s)
<1>1. N \in Nat
  BY LenProperties
<1>2. PICK f : /\ \A n \in 0..N :
                    f[n] = IF n = 0 THEN <<>>
                           ELSE IF s[n] \in Separator THEN Append(f[n - 1], n) ELSE f[n - 1]
               /\ CutsOf(s) = f[N]
  BY CutSteps
<1> DEFINE P == {n \in Nat : n \in 0..N => f[n] \in Seq(1..N)}
<1>3. 0 \in P
  <2>1. 0 \in 0..N /\ <<>> \in Seq(1..N)
    BY <1>1, EmptySeq
  <2> QED
    BY <1>2, <2>1
<1>4. ASSUME NEW n \in Nat, n \in P PROVE n + 1 \in P
  <2> SUFFICES ASSUME n + 1 \in 0..N PROVE f[n + 1] \in Seq(1..N)
    OBVIOUS
  <2>1. f[n] \in Seq(1..N) /\ n + 1 \in 1..N /\ n + 1 # 0 /\ (n + 1) - 1 = n
    BY <1>1, <1>4
  <2>2. f[n + 1] = IF s[n + 1] \in Separator THEN Append(f[n], n + 1) ELSE f[n]
    BY <1>2, <2>1
  <2>3. Append(f[n], n + 1) \in Seq(1..N)
    BY <2>1, AppendProperties
  <2> QED
    BY <2>1, <2>2, <2>3, Zenon
<1>5. Nat \subseteq P
  <2> HIDE DEF P
  <2> QED
    BY <1>3, <1>4, Induction
<1> QED
  BY <1>1, <1>2, <1>5

-------------------------------------------------------------------------------
(* Bits *)

Bit == {0, 1}

\* The sum of two bits, without carry.
Plus(x, y) == IF x = y THEN 0 ELSE 1

\* What a bit of a word counts for.
LEMMA Powers ==
  /\ 2^0 = 1 /\ 2^1 = 2 /\ 2^2 = 4 /\ 2^3 = 8 /\ 2^4 = 16 /\ 2^5 = 32 /\ 2^6 = 64 /\ 2^7 = 128
  /\ 2^8 = 256 /\ 2^9 = 512 /\ 2^10 = 1024 /\ 2^11 = 2048 /\ 2^12 = 4096 /\ 2^13 = 8192
  /\ 2^14 = 16384 /\ 2^15 = 32768
OBVIOUS

\* The bits of a number are its parity and the bits of its half.
LEMMA BitShift ==
  ASSUME NEW a \in Nat
  PROVE  /\ a \div 2 \in Nat /\ a = 2 * (a \div 2) + BitOf(a, 0) /\ BitOf(a, 0) \in Bit
         /\ \A i \in 0..14 : BitOf(a, i + 1) = BitOf(a \div 2, i)
         /\ BitOf(a, 1) = BitOf(a \div 2, 0) /\ BitOf(a, 2) = BitOf(a \div 2, 1)
         /\ BitOf(a, 3) = BitOf(a \div 2, 2) /\ BitOf(a, 4) = BitOf(a \div 2, 3)
         /\ BitOf(a, 5) = BitOf(a \div 2, 4) /\ BitOf(a, 6) = BitOf(a \div 2, 5)
         /\ BitOf(a, 7) = BitOf(a \div 2, 6) /\ BitOf(a, 8) = BitOf(a \div 2, 7)
         /\ BitOf(a, 9) = BitOf(a \div 2, 8) /\ BitOf(a, 10) = BitOf(a \div 2, 9)
         /\ BitOf(a, 11) = BitOf(a \div 2, 10) /\ BitOf(a, 12) = BitOf(a \div 2, 11)
         /\ BitOf(a, 13) = BitOf(a \div 2, 12) /\ BitOf(a, 14) = BitOf(a \div 2, 13)
         /\ BitOf(a, 15) = BitOf(a \div 2, 14)
<1> DEFINE h == a \div 2
<1>1. h \in Nat /\ a = 2 * h + (a % 2) /\ a % 2 \in Bit
  BY DEF Bit
<1>2. BitOf(a, 0) = a % 2
  BY Powers DEF BitOf
<1>3. /\ a \div 2 = h \div 1 /\ a \div 4 = h \div 2 /\ a \div 8 = h \div 4
      /\ a \div 16 = h \div 8 /\ a \div 32 = h \div 16 /\ a \div 64 = h \div 32
      /\ a \div 128 = h \div 64 /\ a \div 256 = h \div 128 /\ a \div 512 = h \div 256
      /\ a \div 1024 = h \div 512 /\ a \div 2048 = h \div 1024 /\ a \div 4096 = h \div 2048
      /\ a \div 8192 = h \div 4096 /\ a \div 16384 = h \div 8192 /\ a \div 32768 = h \div 16384
  OBVIOUS
<1> HIDE DEF h
<1>4. /\ BitOf(a, 1) = BitOf(h, 0) /\ BitOf(a, 2) = BitOf(h, 1) /\ BitOf(a, 3) = BitOf(h, 2)
      /\ BitOf(a, 4) = BitOf(h, 3) /\ BitOf(a, 5) = BitOf(h, 4) /\ BitOf(a, 6) = BitOf(h, 5)
      /\ BitOf(a, 7) = BitOf(h, 6) /\ BitOf(a, 8) = BitOf(h, 7) /\ BitOf(a, 9) = BitOf(h, 8)
      /\ BitOf(a, 10) = BitOf(h, 9) /\ BitOf(a, 11) = BitOf(h, 10)
      /\ BitOf(a, 12) = BitOf(h, 11) /\ BitOf(a, 13) = BitOf(h, 12)
      /\ BitOf(a, 14) = BitOf(h, 13) /\ BitOf(a, 15) = BitOf(h, 14)
  BY <1>3, Powers DEF BitOf
<1>5. 0..14 = {0, 1, 2, 3, 4, 5, 6, 7, 8, 9, 10, 11, 12, 13, 14}
  OBVIOUS
<1>6. \A i \in 0..14 : BitOf(a, i + 1) = BitOf(h, i)
  BY <1>4, <1>5
<1> QED
  BY <1>1, <1>2, <1>4, <1>6, Zenon DEF h

\* A number given by its bits.
LEMMA OctetOfBits ==
  ASSUME NEW b, \A i \in 0..7 : b[i] \in Bit
  PROVE  LET n == 1 * b[0] + 2 * b[1] + 4 * b[2] + 8 * b[3] + 16 * b[4] + 32 * b[5] + 64 * b[6] + 128 * b[7]
         IN  n \in Octet /\ \A i \in 0..7 : BitOf(n, i) = b[i]
<1> DEFINE n7 == b[7]
           n6 == b[6] + 2 * n7
           n5 == b[5] + 2 * n6
           n4 == b[4] + 2 * n5
           n3 == b[3] + 2 * n4
           n2 == b[2] + 2 * n3
           n1 == b[1] + 2 * n2
           n0 == b[0] + 2 * n1
<1>1. b[0] \in Bit /\ b[1] \in Bit /\ b[2] \in Bit /\ b[3] \in Bit /\ b[4] \in Bit /\ b[5] \in Bit /\ b[6] \in Bit /\ b[7] \in Bit
  OBVIOUS
<1>2. \A x \in Nat, y \in Bit : /\ y + 2 * x \in Nat /\ (y + 2 * x) \div 2 = x /\ BitOf(y + 2 * x, 0) = y
  BY Powers DEF Bit, BitOf
<1>3. n7 \in Nat /\ BitOf(n7, 0) = b[7]
  BY <1>1, Powers DEF Bit, BitOf
<1>4. n6 \in Nat /\ n6 \div 2 = n7 /\ BitOf(n6, 0) = b[6]
  <2> HIDE DEF n7
  <2> QED
    BY <1>1, <1>2, <1>3
<1>5. n5 \in Nat /\ n5 \div 2 = n6 /\ BitOf(n5, 0) = b[5]
  <2> HIDE DEF n6
  <2> QED
    BY <1>1, <1>2, <1>4
<1>6. n4 \in Nat /\ n4 \div 2 = n5 /\ BitOf(n4, 0) = b[4]
  <2> HIDE DEF n5
  <2> QED
    BY <1>1, <1>2, <1>5
<1>7. n3 \in Nat /\ n3 \div 2 = n4 /\ BitOf(n3, 0) = b[3]
  <2> HIDE DEF n4
  <2> QED
    BY <1>1, <1>2, <1>6
<1>8. n2 \in Nat /\ n2 \div 2 = n3 /\ BitOf(n2, 0) = b[2]
  <2> HIDE DEF n3
  <2> QED
    BY <1>1, <1>2, <1>7
<1>9. n1 \in Nat /\ n1 \div 2 = n2 /\ BitOf(n1, 0) = b[1]
  <2> HIDE DEF n2
  <2> QED
    BY <1>1, <1>2, <1>8
<1>10. n0 \in Nat /\ n0 \div 2 = n1 /\ BitOf(n0, 0) = b[0]
  <2> HIDE DEF n1
  <2> QED
    BY <1>1, <1>2, <1>9
<1>11. /\ n0 \in Nat /\ n1 \in Nat /\ n2 \in Nat /\ n3 \in Nat /\ n4 \in Nat /\ n5 \in Nat
       /\ n6 \in Nat /\ n7 \in Nat
  BY <1>3, <1>4, <1>5, <1>6, <1>7, <1>8, <1>9, <1>10
<1>12. \A x \in Nat : /\ BitOf(x, 1) = BitOf(x \div 2, 0)
                        /\ BitOf(x, 2) = BitOf(x \div 2, 1) /\ BitOf(x, 3) = BitOf(x \div 2, 2)
                        /\ BitOf(x, 4) = BitOf(x \div 2, 3) /\ BitOf(x, 5) = BitOf(x \div 2, 4)
                        /\ BitOf(x, 6) = BitOf(x \div 2, 5) /\ BitOf(x, 7) = BitOf(x \div 2, 6)
  BY BitShift
<1> HIDE DEF n0, n1, n2, n3, n4, n5, n6, n7
<1>13. BitOf(n0, 0) = b[0]
  BY <1>11, <1>12, <1>10
<1>14. BitOf(n0, 1) = b[1]
  BY <1>11, <1>12, <1>10, <1>9
<1>15. BitOf(n0, 2) = b[2]
  BY <1>11, <1>12, <1>10, <1>9, <1>8
<1>16. BitOf(n0, 3) = b[3]
  BY <1>11, <1>12, <1>10, <1>9, <1>8, <1>7
<1>17. BitOf(n0, 4) = b[4]
  BY <1>11, <1>12, <1>10, <1>9, <1>8, <1>7, <1>6
<1>18. BitOf(n0, 5) = b[5]
  BY <1>11, <1>12, <1>10, <1>9, <1>8, <1>7, <1>6, <1>5
<1>19. BitOf(n0, 6) = b[6]
  BY <1>11, <1>12, <1>10, <1>9, <1>8, <1>7, <1>6, <1>5, <1>4
<1>20. BitOf(n0, 7) = b[7]
  BY <1>11, <1>12, <1>10, <1>9, <1>8, <1>7, <1>6, <1>5, <1>4, <1>3
<1>21. 0..7 = {0, 1, 2, 3, 4, 5, 6, 7}
  OBVIOUS
<1>22. \A i \in 0..7 : BitOf(n0, i) = b[i]
  BY <1>13, <1>14, <1>15, <1>16, <1>17, <1>18, <1>19, <1>20, <1>21
<1>23. n0 = 1 * b[0] + 2 * b[1] + 4 * b[2] + 8 * b[3] + 16 * b[4] + 32 * b[5] + 64 * b[6] + 128 * b[7]
  BY <1>1 DEF Bit, n0, n1, n2, n3, n4, n5, n6, n7
<1>24. n0 \in Octet
  BY <1>1, <1>23 DEF Bit, Octet
<1> QED
  BY <1>22, <1>23, <1>24

\* A bit of a number is zero or one.
LEMMA BitType == \A a \in Nat : \A i \in 0..15 : BitOf(a, i) \in Bit
<1> SUFFICES ASSUME NEW a \in Nat PROVE \A i \in 0..15 : BitOf(a, i) \in Bit
  OBVIOUS
<1>1. /\ BitOf(a, 0) \in Bit /\ BitOf(a, 1) \in Bit /\ BitOf(a, 2) \in Bit
      /\ BitOf(a, 3) \in Bit /\ BitOf(a, 4) \in Bit /\ BitOf(a, 5) \in Bit
      /\ BitOf(a, 6) \in Bit /\ BitOf(a, 7) \in Bit /\ BitOf(a, 8) \in Bit
      /\ BitOf(a, 9) \in Bit /\ BitOf(a, 10) \in Bit /\ BitOf(a, 11) \in Bit
      /\ BitOf(a, 12) \in Bit /\ BitOf(a, 13) \in Bit /\ BitOf(a, 14) \in Bit
      /\ BitOf(a, 15) \in Bit
  BY Powers DEF BitOf, Bit
<1>2. 0..15 = {0, 1, 2, 3, 4, 5, 6, 7, 8, 9, 10, 11, 12, 13, 14, 15}
  OBVIOUS
<1> QED
  BY <1>1, <1>2

\* The bits of the exclusive or are the sums of the bits.
LEMMA XorBits ==
  ASSUME NEW a, NEW b
  PROVE  \A i \in 0..7 : BitOf(XorOctet(a, b), i) = Plus(BitOf(a, i), BitOf(b, i))
<1> DEFINE x(i) == IF BitOf(a, i) = BitOf(b, i) THEN 0 ELSE 2^i
           p == [i \in 0..7 |-> Plus(BitOf(a, i), BitOf(b, i))]
<1>1. \A i \in 0..7 : p[i] = Plus(BitOf(a, i), BitOf(b, i)) /\ p[i] \in Bit
  BY DEF Plus, Bit
<1>2. XorOctet(a, b) = x(0) + x(1) + x(2) + x(3) + x(4) + x(5) + x(6) + x(7)
  BY DEF XorOctet
<1>3. /\ x(0) = 1 * p[0] /\ x(1) = 2 * p[1] /\ x(2) = 4 * p[2] /\ x(3) = 8 * p[3]
      /\ x(4) = 16 * p[4] /\ x(5) = 32 * p[5] /\ x(6) = 64 * p[6] /\ x(7) = 128 * p[7]
  BY Powers DEF Plus
<1> HIDE DEF x, p
<1>4. XorOctet(a, b) = 1 * p[0] + 2 * p[1] + 4 * p[2] + 8 * p[3] + 16 * p[4] + 32 * p[5] + 64 * p[6] + 128 * p[7]
  BY <1>2, <1>3
<1> QED
  BY <1>1, <1>4, OctetOfBits

\* The bits of a number are those of its low byte, followed by those of the rest.
Halves(n, high, low) ==
  \A i \in 0..7 : BitOf(n, i) = BitOf(low, i) /\ BitOf(n, i + 8) = BitOf(high, i)

\* The low byte gives the low eight bits, the rest those above them.
LEMMA BytesBits ==
  ASSUME NEW x \in Nat, NEW y \in Octet
  PROVE  Halves(256 * x + y, x, y)
<1> DEFINE n == 256 * x + y
<1>1. /\ (n \div 1) % 2 = (y \div 1) % 2 /\ (n \div 2) % 2 = (y \div 2) % 2
      /\ (n \div 4) % 2 = (y \div 4) % 2 /\ (n \div 8) % 2 = (y \div 8) % 2
      /\ (n \div 16) % 2 = (y \div 16) % 2 /\ (n \div 32) % 2 = (y \div 32) % 2
      /\ (n \div 64) % 2 = (y \div 64) % 2 /\ (n \div 128) % 2 = (y \div 128) % 2
  BY DEF Octet
<1>2. /\ n \div 256 = x \div 1 /\ n \div 512 = x \div 2 /\ n \div 1024 = x \div 4
      /\ n \div 2048 = x \div 8 /\ n \div 4096 = x \div 16 /\ n \div 8192 = x \div 32
      /\ n \div 16384 = x \div 64 /\ n \div 32768 = x \div 128
  BY DEF Octet
<1> HIDE DEF n
<1>3. /\ BitOf(n, 0) = BitOf(y, 0) /\ BitOf(n, 1) = BitOf(y, 1) /\ BitOf(n, 2) = BitOf(y, 2)
      /\ BitOf(n, 3) = BitOf(y, 3) /\ BitOf(n, 4) = BitOf(y, 4) /\ BitOf(n, 5) = BitOf(y, 5)
      /\ BitOf(n, 6) = BitOf(y, 6) /\ BitOf(n, 7) = BitOf(y, 7)
  BY <1>1, Powers DEF BitOf
<1>4. /\ BitOf(n, 8) = BitOf(x, 0) /\ BitOf(n, 9) = BitOf(x, 1) /\ BitOf(n, 10) = BitOf(x, 2)
      /\ BitOf(n, 11) = BitOf(x, 3) /\ BitOf(n, 12) = BitOf(x, 4) /\ BitOf(n, 13) = BitOf(x, 5)
      /\ BitOf(n, 14) = BitOf(x, 6) /\ BitOf(n, 15) = BitOf(x, 7)
  BY <1>2, Powers DEF BitOf
<1>5. 0..7 = {0, 1, 2, 3, 4, 5, 6, 7}
  OBVIOUS
<1> QED
  BY <1>3, <1>4, <1>5 DEF Halves, n

\* The same of a number's own bytes.
LEMMA BytesOf ==
  ASSUME NEW n \in Nat
  PROVE  Halves(n, n \div 256, n % 256)
<1> DEFINE x == n \div 256
           y == n % 256
<1>1. x \in Nat /\ y \in Octet /\ n = 256 * x + y
  BY DEF Octet
<1> HIDE DEF x, y
<1>2. Halves(256 * x + y, x, y)
  BY <1>1, BytesBits, Zenon
<1> QED
  BY <1>1, <1>2, Zenon DEF x, y

\* Zero has no bits.
LEMMA BitsOfZero == \A i \in 0..7 : BitOf(0, i) = 0
<1>1. /\ BitOf(0, 0) = 0 /\ BitOf(0, 1) = 0 /\ BitOf(0, 2) = 0 /\ BitOf(0, 3) = 0
      /\ BitOf(0, 4) = 0 /\ BitOf(0, 5) = 0 /\ BitOf(0, 6) = 0 /\ BitOf(0, 7) = 0
  BY Powers DEF BitOf
<1> QED
  BY <1>1

\* The bits beyond a byte are zero.
LEMMA HighBits ==
  ASSUME NEW y \in Octet
  PROVE  \A i \in 0..7 : BitOf(y, i + 8) = 0
<1>1. 0 \in Nat /\ 256 * 0 + y = y
  BY DEF Octet
<1> QED
  <2>1. Halves(256 * 0 + y, 0, y)
    BY <1>1, BytesBits, Zenon
  <2> QED
    BY <1>1, BitsOfZero, <2>1 DEF Halves

\* An index into a word is one into its low byte or one into its high byte.
LEMMA Index == \A i \in 0..15 : i \in 0..7 \/ \E j \in 0..7 : i = j + 8
<1> SUFFICES ASSUME NEW i \in 0..15, i \notin 0..7 PROVE \E j \in 0..7 : i = j + 8
  OBVIOUS
<1>1. i - 8 \in 0..7 /\ i = (i - 8) + 8
  OBVIOUS
<1> QED
  BY <1>1

\* A byte is the sum of its bits.
LEMMA SumOfBits ==
  ASSUME NEW a \in Octet
  PROVE  a = BitOf(a, 0) + 2 * BitOf(a, 1) + 4 * BitOf(a, 2) + 8 * BitOf(a, 3) + 16 * BitOf(a, 4)
             + 32 * BitOf(a, 5) + 64 * BitOf(a, 6) + 128 * BitOf(a, 7)
<1> DEFINE h1 == a \div 2
           h2 == h1 \div 2
           h3 == h2 \div 2
           h4 == h3 \div 2
           h5 == h4 \div 2
           h6 == h5 \div 2
           h7 == h6 \div 2
           h8 == h7 \div 2
<1>0. a \in Nat /\ a <= 255
  BY DEF Octet
<1>1. h1 \in Nat /\ a = 2 * h1 + BitOf(a, 0) /\ \A i \in 0..14 : BitOf(a, i + 1) = BitOf(h1, i)
  BY <1>0, BitShift
<1>2. h2 \in Nat /\ h1 = 2 * h2 + BitOf(h1, 0) /\ \A i \in 0..14 : BitOf(h1, i + 1) = BitOf(h2, i)
  <2> HIDE DEF h1
  <2> QED
    BY <1>1, BitShift
<1>3. h3 \in Nat /\ h2 = 2 * h3 + BitOf(h2, 0) /\ \A i \in 0..14 : BitOf(h2, i + 1) = BitOf(h3, i)
  <2> HIDE DEF h2
  <2> QED
    BY <1>2, BitShift
<1>4. h4 \in Nat /\ h3 = 2 * h4 + BitOf(h3, 0) /\ \A i \in 0..14 : BitOf(h3, i + 1) = BitOf(h4, i)
  <2> HIDE DEF h3
  <2> QED
    BY <1>3, BitShift
<1>5. h5 \in Nat /\ h4 = 2 * h5 + BitOf(h4, 0) /\ \A i \in 0..14 : BitOf(h4, i + 1) = BitOf(h5, i)
  <2> HIDE DEF h4
  <2> QED
    BY <1>4, BitShift
<1>6. h6 \in Nat /\ h5 = 2 * h6 + BitOf(h5, 0) /\ \A i \in 0..14 : BitOf(h5, i + 1) = BitOf(h6, i)
  <2> HIDE DEF h5
  <2> QED
    BY <1>5, BitShift
<1>7. h7 \in Nat /\ h6 = 2 * h7 + BitOf(h6, 0) /\ \A i \in 0..14 : BitOf(h6, i + 1) = BitOf(h7, i)
  <2> HIDE DEF h6
  <2> QED
    BY <1>6, BitShift
<1>8. h8 \in Nat /\ h7 = 2 * h8 + BitOf(h7, 0) /\ \A i \in 0..14 : BitOf(h7, i + 1) = BitOf(h8, i)
  <2> HIDE DEF h7
  <2> QED
    BY <1>7, BitShift
<1> HIDE DEF h1, h2, h3, h4, h5, h6, h7, h8
<1>9. /\ BitOf(a, 1) = BitOf(h1, 0) /\ BitOf(a, 2) = BitOf(h1, 1) /\ BitOf(a, 3) = BitOf(h1, 2)
      /\ BitOf(a, 4) = BitOf(h1, 3) /\ BitOf(a, 5) = BitOf(h1, 4) /\ BitOf(a, 6) = BitOf(h1, 5)
      /\ BitOf(a, 7) = BitOf(h1, 6)
  BY <1>1
<1>10. BitOf(h1, 1) = BitOf(h2, 0) /\ BitOf(h1, 2) = BitOf(h2, 1) /\ BitOf(h1, 3) = BitOf(h2, 2) /\ BitOf(h1, 4) = BitOf(h2, 3) /\ BitOf(h1, 5) = BitOf(h2, 4) /\ BitOf(h1, 6) = BitOf(h2, 5)
  BY <1>2
<1>11. BitOf(h2, 1) = BitOf(h3, 0) /\ BitOf(h2, 2) = BitOf(h3, 1) /\ BitOf(h2, 3) = BitOf(h3, 2) /\ BitOf(h2, 4) = BitOf(h3, 3) /\ BitOf(h2, 5) = BitOf(h3, 4)
  BY <1>3
<1>12. BitOf(h3, 1) = BitOf(h4, 0) /\ BitOf(h3, 2) = BitOf(h4, 1) /\ BitOf(h3, 3) = BitOf(h4, 2) /\ BitOf(h3, 4) = BitOf(h4, 3)
  BY <1>4
<1>13. BitOf(h4, 1) = BitOf(h5, 0) /\ BitOf(h4, 2) = BitOf(h5, 1) /\ BitOf(h4, 3) = BitOf(h5, 2)
  BY <1>5
<1>14. BitOf(h5, 1) = BitOf(h6, 0) /\ BitOf(h5, 2) = BitOf(h6, 1)
  BY <1>6
<1>15. BitOf(h6, 1) = BitOf(h7, 0)
  BY <1>7
<1>16. \A i \in 0..7 : BitOf(a, i) \in Bit
  <2>1. \A i \in 0..7 : i \in 0..15
    OBVIOUS
  <2> QED
    BY <1>0, <2>1, BitType
<1>17. /\ BitOf(h1, 0) = BitOf(a, 1) /\ BitOf(h2, 0) = BitOf(a, 2) /\ BitOf(h3, 0) = BitOf(a, 3)
       /\ BitOf(h4, 0) = BitOf(a, 4) /\ BitOf(h5, 0) = BitOf(a, 5) /\ BitOf(h6, 0) = BitOf(a, 6)
       /\ BitOf(h7, 0) = BitOf(a, 7)
  BY <1>9, <1>10, <1>11, <1>12, <1>13, <1>14, <1>15, Zenon
<1> DEFINE b == [i \in 0..7 |-> BitOf(a, i)]
<1>18. /\ a = 2 * h1 + b[0] /\ h1 = 2 * h2 + b[1] /\ h2 = 2 * h3 + b[2] /\ h3 = 2 * h4 + b[3]
       /\ h4 = 2 * h5 + b[4] /\ h5 = 2 * h6 + b[5] /\ h6 = 2 * h7 + b[6] /\ h7 = 2 * h8 + b[7]
  BY <1>1, <1>2, <1>3, <1>4, <1>5, <1>6, <1>7, <1>8, <1>17
<1>19. \A i \in 0..7 : b[i] \in Bit /\ b[i] = BitOf(a, i)
  BY <1>16
<1> HIDE DEF b
<1>20. /\ b[0] \in Bit /\ b[1] \in Bit /\ b[2] \in Bit /\ b[3] \in Bit
       /\ b[4] \in Bit /\ b[5] \in Bit /\ b[6] \in Bit /\ b[7] \in Bit
  BY <1>19
<1>21. h1 \in Nat /\ h2 \in Nat /\ h3 \in Nat /\ h4 \in Nat /\ h5 \in Nat /\ h6 \in Nat /\ h7 \in Nat
       /\ h8 \in Nat
  BY <1>1, <1>2, <1>3, <1>4, <1>5, <1>6, <1>7, <1>8
<1>22. /\ b[0] \in Nat /\ b[1] \in Nat /\ b[2] \in Nat /\ b[3] \in Nat
       /\ b[4] \in Nat /\ b[5] \in Nat /\ b[6] \in Nat /\ b[7] \in Nat
  BY <1>20 DEF Bit
<1>23. /\ h6 = b[6] + 2 * b[7] + 4 * h8 /\ h4 = b[4] + 2 * b[5] + 4 * h6
       /\ h2 = b[2] + 2 * b[3] + 4 * h4 /\ a = b[0] + 2 * b[1] + 4 * h2
  BY <1>0, <1>18, <1>21, <1>22
<1>24. h8 = 0
  BY <1>0, <1>21, <1>22, <1>23
<1>25. a = b[0] + 2 * b[1] + 4 * b[2] + 8 * b[3] + 16 * b[4] + 32 * b[5] + 64 * b[6] + 128 * b[7]
  <2>1. h6 = b[6] + 2 * b[7]
    BY SMT, <1>21, <1>22, <1>23, <1>24
  <2>2. h4 = b[4] + 2 * b[5] + 4 * b[6] + 8 * b[7]
    BY SMT, <1>22, <1>23, <2>1
  <2>3. h2 = b[2] + 2 * b[3] + 4 * b[4] + 8 * b[5] + 16 * b[6] + 32 * b[7]
    BY SMT, <1>22, <1>23, <2>2
  <2> QED
    BY SMT, <1>22, <1>23, <2>3
<1> QED
  BY <1>19, <1>25

\* Bytes with the same bits are the same.
LEMMA SameBits ==
  ASSUME NEW a \in Octet, NEW b \in Octet, \A i \in 0..7 : BitOf(a, i) = BitOf(b, i)
  PROVE  a = b
<1>1. /\ BitOf(a, 0) = BitOf(b, 0) /\ BitOf(a, 1) = BitOf(b, 1) /\ BitOf(a, 2) = BitOf(b, 2)
      /\ BitOf(a, 3) = BitOf(b, 3) /\ BitOf(a, 4) = BitOf(b, 4) /\ BitOf(a, 5) = BitOf(b, 5)
      /\ BitOf(a, 6) = BitOf(b, 6) /\ BitOf(a, 7) = BitOf(b, 7)
  OBVIOUS
<1> QED
  BY <1>1, SumOfBits

\* The exclusive or with a byte tells the bytes apart, and only zero changes nothing.
LEMMA XorTells ==
  ASSUME NEW a \in Octet, NEW b \in Octet, NEW c \in Octet
  PROVE  /\ XorOctet(a, c) = XorOctet(b, c) => a = b
         /\ XorOctet(c, a) = XorOctet(c, b) => a = b
         /\ XorOctet(a, c) = a => c = 0
<1>1. /\ a \in Nat /\ b \in Nat /\ c \in Nat /\ 0 \in Octet
  BY DEF Octet
<1>2. \A i \in 0..7 : BitOf(a, i) \in Bit /\ BitOf(b, i) \in Bit /\ BitOf(c, i) \in Bit
  <2>1. \A i \in 0..7 : i \in 0..15
    OBVIOUS
  <2> QED
    BY <1>1, <2>1, BitType
<1>3. ASSUME XorOctet(a, c) = XorOctet(b, c) PROVE a = b
  <2>1. ASSUME NEW i \in 0..7 PROVE BitOf(a, i) = BitOf(b, i)
    <3>1. Plus(BitOf(a, i), BitOf(c, i)) = Plus(BitOf(b, i), BitOf(c, i))
      BY <1>3, XorBits
    <3> QED
      BY <1>2, <3>1 DEF Plus, Bit
  <2> QED
    BY <2>1, SameBits
<1>4. ASSUME XorOctet(c, a) = XorOctet(c, b) PROVE a = b
  <2>1. ASSUME NEW i \in 0..7 PROVE BitOf(a, i) = BitOf(b, i)
    <3>1. Plus(BitOf(c, i), BitOf(a, i)) = Plus(BitOf(c, i), BitOf(b, i))
      BY <1>4, XorBits
    <3> QED
      BY <1>2, <3>1 DEF Plus, Bit
  <2> QED
    BY <2>1, SameBits
<1>5. ASSUME XorOctet(a, c) = a PROVE c = 0
  <2>1. ASSUME NEW i \in 0..7 PROVE BitOf(c, i) = BitOf(0, i)
    <3>1. Plus(BitOf(a, i), BitOf(c, i)) = BitOf(a, i)
      BY <1>5, XorBits
    <3>2. BitOf(c, i) = 0
      BY <1>2, <3>1 DEF Plus, Bit
    <3> QED
      BY <3>2, BitsOfZero
  <2> QED
    BY <1>1, <2>1, SameBits
<1> QED
  BY <1>3, <1>4, <1>5

\* Bytes that differ in one place have not the same exclusive or.
LEMMA XorChanged ==
  ASSUME NEW s \in Seq(Octet), NEW t \in Seq(Octet), Len(s) = Len(t), NEW i \in 1..Len(s),
         s[i] # t[i], \A j \in 1..Len(s) : j # i => s[j] = t[j]
  PROVE  XorOf(s) # XorOf(t)
<1> DEFINE N == Len(s)
<1>1. N \in Nat /\ \A n \in 1..N : s[n] \in Octet /\ t[n] \in Octet
  BY LenProperties, ElementOfSeq
<1>2. PICK f : /\ \A n \in 0..N : f[n] \in Octet
               /\ \A n \in 0..N : f[n] = IF n = 0 THEN 0 ELSE XorOctet(f[n - 1], s[n])
               /\ XorOf(s) = f[N]
  BY XorSteps
<1>3. PICK g : /\ \A n \in 0..N : g[n] \in Octet
               /\ \A n \in 0..N : g[n] = IF n = 0 THEN 0 ELSE XorOctet(g[n - 1], t[n])
               /\ XorOf(t) = g[N]
  BY XorSteps
<1> HIDE DEF N
<1>i. i \in 1..N /\ \A j \in 1..N : j # i => s[j] = t[j]
  BY DEF N
<1>4. \A n \in Nat : n \in 0..i - 1 => f[n] = g[n]
  <2> DEFINE P == {n \in Nat : n \in 0..i - 1 => f[n] = g[n]}
  <2>1. 0 \in P
    BY <1>1, <1>2, <1>3
  <2>2. ASSUME NEW n \in Nat, n \in P PROVE n + 1 \in P
    <3> SUFFICES ASSUME n + 1 \in 0..i - 1 PROVE f[n + 1] = g[n + 1]
      OBVIOUS
    <3>1. n \in 0..i - 1 /\ n + 1 \in 0..N /\ n + 1 \in 1..N /\ n + 1 # i /\ n + 1 # 0
          /\ (n + 1) - 1 = n
      BY <1>1, <1>i
    <3>2. f[n] = g[n] /\ s[n + 1] = t[n + 1]
      BY <1>i, <2>2, <3>1
    <3>3. f[n + 1] = XorOctet(f[n], s[n + 1]) /\ g[n + 1] = XorOctet(g[n], t[n + 1])
      BY <1>2, <1>3, <3>1
    <3> QED
      BY <3>2, <3>3
  <2>3. Nat \subseteq P
    <3> HIDE DEF P
    <3> QED
      BY <2>1, <2>2, Induction
  <2> QED
    BY <2>3
<1>5. f[i] # g[i]
  <2>1. i \in 0..N /\ i # 0 /\ i - 1 \in 0..i - 1 /\ i - 1 \in Nat /\ i - 1 \in 0..N
    BY <1>1, <1>i
  <2>2. f[i] = XorOctet(f[i - 1], s[i]) /\ g[i] = XorOctet(f[i - 1], t[i])
    BY <1>2, <1>3, <1>4, <2>1
  <2>3. f[i - 1] \in Octet /\ s[i] \in Octet /\ t[i] \in Octet
    BY <1>1, <1>2, <1>i, <2>1
  <2> QED
    BY <2>2, <2>3, XorTells
<1>6. \A n \in Nat : i + n \in 0..N => f[i + n] # g[i + n]
  <2> DEFINE P == {n \in Nat : i + n \in 0..N => f[i + n] # g[i + n]}
  <2>1. 0 \in P
    <3>1. i + 0 = i
      BY <1>i
    <3> QED
      BY <1>5, <3>1
  <2>2. ASSUME NEW n \in Nat, n \in P PROVE n + 1 \in P
    <3> SUFFICES ASSUME i + (n + 1) \in 0..N PROVE f[i + (n + 1)] # g[i + (n + 1)]
      OBVIOUS
    <3> DEFINE k == i + (n + 1)
    <3>1. k \in 0..N /\ k \in 1..N /\ k # 0 /\ k # i /\ k - 1 = i + n /\ i + n \in 0..N
      BY <1>1, <1>i
    <3>2. f[k - 1] # g[k - 1]
      BY <2>2, <3>1
    <3> HIDE DEF k
    <3>3. f[k] = XorOctet(f[k - 1], s[k]) /\ g[k] = XorOctet(g[k - 1], s[k])
      BY <1>2, <1>3, <1>i, <3>1
    <3>4. f[k - 1] \in Octet /\ g[k - 1] \in Octet /\ s[k] \in Octet
      BY <1>1, <1>2, <1>3, <3>1
    <3>5. f[k] # g[k]
      BY <3>2, <3>3, <3>4, XorTells
    <3> QED
      BY <3>5 DEF k
  <2>3. Nat \subseteq P
    <3> HIDE DEF P
    <3> QED
      BY <2>1, <2>2, Induction
  <2> QED
    BY <2>3
<1>7. N - i \in Nat /\ i + (N - i) = N /\ N \in 0..N
  BY <1>1, <1>i
<1>8. f[N] # g[N]
  BY <1>6, <1>7
<1> QED
  BY <1>2, <1>3, <1>8

\* Bytes of which one was lost that is not zero have not the same exclusive or.
LEMMA XorLost ==
  ASSUME NEW s \in Seq(Octet), NEW t \in Seq(Octet), Len(s) = Len(t) + 1, NEW i \in 1..Len(s),
         s[i] # 0, \A j \in 1..Len(t) : t[j] = IF j < i THEN s[j] ELSE s[j + 1]
  PROVE  XorOf(s) # XorOf(t)
<1> DEFINE N == Len(t)
<1>1. N \in Nat /\ Len(s) = N + 1 /\ (\A n \in 1..N + 1 : s[n] \in Octet)
      /\ \A n \in 1..N : t[n] \in Octet
  BY LenProperties, ElementOfSeq
<1>2. PICK f : /\ \A n \in 0..N + 1 : f[n] \in Octet
               /\ \A n \in 0..N + 1 : f[n] = IF n = 0 THEN 0 ELSE XorOctet(f[n - 1], s[n])
               /\ XorOf(s) = f[N + 1]
  BY <1>1, XorSteps
<1>3. PICK g : /\ \A n \in 0..N : g[n] \in Octet
               /\ \A n \in 0..N : g[n] = IF n = 0 THEN 0 ELSE XorOctet(g[n - 1], t[n])
               /\ XorOf(t) = g[N]
  BY XorSteps
<1> HIDE DEF N
<1>i. i \in 1..N + 1 /\ \A j \in 1..N : t[j] = IF j < i THEN s[j] ELSE s[j + 1]
  BY <1>1 DEF N
<1>4. \A n \in Nat : n \in 0..i - 1 => f[n] = g[n]
  <2> DEFINE P == {n \in Nat : n \in 0..i - 1 => f[n] = g[n]}
  <2>1. 0 \in P
    BY <1>1, <1>2, <1>3
  <2>2. ASSUME NEW n \in Nat, n \in P PROVE n + 1 \in P
    <3> SUFFICES ASSUME n + 1 \in 0..i - 1 PROVE f[n + 1] = g[n + 1]
      OBVIOUS
    <3>1. /\ n \in 0..i - 1 /\ n + 1 \in 0..N /\ n + 1 \in 0..N + 1 /\ n + 1 \in 1..N /\ n + 1 < i
          /\ n + 1 # 0 /\ (n + 1) - 1 = n
      BY <1>1, <1>i
    <3>2. f[n] = g[n] /\ s[n + 1] = t[n + 1]
      BY <1>i, <2>2, <3>1
    <3>3. f[n + 1] = XorOctet(f[n], s[n + 1]) /\ g[n + 1] = XorOctet(g[n], t[n + 1])
      BY <1>2, <1>3, <3>1
    <3> QED
      BY <3>2, <3>3
  <2>3. Nat \subseteq P
    <3> HIDE DEF P
    <3> QED
      BY <2>1, <2>2, Induction
  <2> QED
    BY <2>3
<1>5. f[i] # g[i - 1]
  <2>1. i \in 0..N + 1 /\ i # 0 /\ i - 1 \in 0..i - 1 /\ i - 1 \in Nat /\ i - 1 \in 0..N + 1
    BY <1>1, <1>i
  <2>2. f[i] = XorOctet(f[i - 1], s[i]) /\ f[i - 1] = g[i - 1]
    BY <1>2, <1>4, <2>1
  <2>3. f[i - 1] \in Octet /\ s[i] \in Octet
    BY <1>1, <1>2, <1>i, <2>1
  <2> QED
    BY <2>2, <2>3, XorTells
<1>6. \A n \in Nat : i + n \in 0..N + 1 => f[i + n] # g[i + n - 1]
  <2> DEFINE P == {n \in Nat : i + n \in 0..N + 1 => f[i + n] # g[i + n - 1]}
  <2>1. 0 \in P
    <3>1. i + 0 = i /\ i + 0 - 1 = i - 1
      BY <1>i
    <3> QED
      BY <1>5, <3>1
  <2>2. ASSUME NEW n \in Nat, n \in P PROVE n + 1 \in P
    <3> SUFFICES ASSUME i + (n + 1) \in 0..N + 1 PROVE f[i + (n + 1)] # g[i + (n + 1) - 1]
      OBVIOUS
    <3> DEFINE k == i + n
    <3>1. /\ k \in 0..N /\ k \in 1..N /\ k # 0 /\ ~(k < i) /\ k + 1 \in 0..N + 1 /\ k + 1 \in 1..N + 1
          /\ k + 1 # 0 /\ (k + 1) - 1 = k /\ i + (n + 1) = k + 1 /\ k \in 0..N + 1
          /\ i + n - 1 = k - 1 /\ k - 1 \in 0..N
      BY <1>1, <1>i
    <3>2. f[k] # g[k - 1]
      BY <2>2, <3>1
    <3> HIDE DEF k
    <3>3. f[k + 1] = XorOctet(f[k], s[k + 1]) /\ g[k] = XorOctet(g[k - 1], s[k + 1])
      BY <1>2, <1>3, <1>i, <3>1
    <3>4. f[k] \in Octet /\ g[k - 1] \in Octet /\ s[k + 1] \in Octet
      BY <1>1, <1>2, <1>3, <3>1
    <3>5. f[k + 1] # g[k]
      BY <3>2, <3>3, <3>4, XorTells
    <3> QED
      BY <3>1, <3>5
  <2>3. Nat \subseteq P
    <3> HIDE DEF P
    <3> QED
      BY <2>1, <2>2, Induction
  <2> QED
    BY <2>3
<1>7. N + 1 - i \in Nat /\ i + (N + 1 - i) = N + 1 /\ N + 1 \in 0..N + 1 /\ N + 1 - 1 = N
  BY <1>1, <1>i
<1>8. f[N + 1] # g[N]
  <2> DEFINE n == N + 1 - i
  <2>1. n \in Nat /\ i + n = N + 1 /\ i + n \in 0..N + 1 /\ i + n - 1 = N
    BY <1>1, <1>7
  <2> HIDE DEF n
  <2>2. f[i + n] # g[i + n - 1]
    BY <1>6, <2>1
  <2> QED
    BY <2>1, <2>2
<1> QED
  BY <1>2, <1>3, <1>8
===============================================================================
