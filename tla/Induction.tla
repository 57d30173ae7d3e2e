----------------------------- MODULE Induction -----------------------------
(***************************************************************************)
(* Induction over the natural numbers for provers that know sets but no    *)
(* operators that range over formulas: the least element of a set, the     *)
(* induction that follows from it, and that functions on 0 .. N may be     *)
(* defined by recursion.                                                   *)
(***************************************************************************)
EXTENDS Integers, FiniteSetTheorems, WellFoundedInduction, TLAPS

\* A set of natural numbers has a least element: the initial segments below its
\* elements are finite sets, which strict inclusion orders well.
LEMMA LeastNatural ==
    ASSUME NEW T \in SUBSET Nat, T # {}
    PROVE  \E n \in T : \A m \in T : n <= m
<1>1. PICK k \in T : TRUE
  OBVIOUS
<1> DEFINE S == 0 .. k
           Segments == {0 .. n : n \in T \cap S}
<1>2. IsFiniteSet(S)
  BY FS_Interval
<1>3. IsWellFoundedOn(StrictSubsetOrdering(S), SUBSET S)
  <2>1. IsWellFoundedOn(StrictSubsetOrdering(S), FiniteSubsetsOf(S))
    BY <1>2, FS_StrictSubsetOrderingWellFounded
  <2>2. FiniteSubsetsOf(S) = SUBSET S
    BY <1>2, FS_FiniteSubsetsOfFinite
  <2> QED BY <2>1, <2>2
<1>4. Segments \subseteq SUBSET S /\ Segments # {}
  <2>1. 0 .. k \in Segments
    BY <1>1
  <2>2. \A n \in S : 0 .. n \subseteq S
    BY <1>1
  <2> QED BY <2>1, <2>2
<1>5. PICK X \in Segments : \A Y \in Segments : ~(<<Y, X>> \in StrictSubsetOrdering(S))
  BY <1>3, <1>4, WFMin
<1>6. PICK n \in T \cap S : X = 0 .. n
  BY <1>5
<1>7. ASSUME NEW m \in T, m < n PROVE FALSE
  <2>1. m \in T \cap S
    BY <1>6, <1>7
  <2>2. 0 .. m \in Segments
    BY <2>1
  <2>3. 0 .. m \subseteq X /\ 0 .. m # X
    <3>1. n \in 0 .. n /\ n \notin 0 .. m
      BY <1>6, <1>7, <2>1
    <3> QED BY <3>1, <1>6, <1>7
  <2>4. <<0 .. m, X>> \in StrictSubsetOrdering(S)
    BY <2>3, <1>4, <1>5, <2>2 DEF StrictSubsetOrdering
  <2> QED BY <2>4, <1>5, <2>2
<1> QED BY <1>6, <1>7

\* A set that has 0 and with every n its successor has every natural number.
LEMMA SetInduction ==
    ASSUME NEW S, 0 \in S, \A n \in Nat : n \in S => n + 1 \in S
    PROVE  \A n \in Nat : n \in S
<1> DEFINE T == Nat \ S
<1> SUFFICES ASSUME T # {} PROVE FALSE
  OBVIOUS
<1>1. PICK n \in T : \A m \in T : n <= m
  BY LeastNatural
<1>2. n # 0 /\ n - 1 \in Nat /\ n = (n - 1) + 1
  BY <1>1
<1>3. n - 1 \notin T
  BY <1>1, <1>2
<1> QED BY <1>1, <1>2, <1>3

\* The same below a bound.
LEMMA BoundedInduction ==
    ASSUME NEW N \in Nat, NEW S, 0 \in S, \A n \in 0 .. N - 1 : n \in S => n + 1 \in S
    PROVE  \A n \in 0 .. N : n \in S
<1> DEFINE T == {n \in Nat : n <= N => n \in S}
<1>1. 0 \in T
  OBVIOUS
<1>2. \A n \in Nat : n \in T => n + 1 \in T
  OBVIOUS
<1> HIDE DEF T
<1>3. \A n \in Nat : n \in T
  BY <1>1, <1>2, SetInduction
<1> QED BY <1>3 DEF T

\* Every value below n in S puts n in S: then S has all of them.
LEMMA StrongInduction ==
    ASSUME NEW S, \A n \in Nat : (\A m \in Nat : m < n => m \in S) => n \in S
    PROVE  \A n \in Nat : n \in S
<1> DEFINE T == Nat \ S
<1> SUFFICES ASSUME T # {} PROVE FALSE
  OBVIOUS
<1>1. PICK n \in T : \A m \in T : n <= m
  BY LeastNatural
<1>2. \A m \in Nat : m < n => m \in S
  BY <1>1
<1> QED BY <1>1, <1>2

\* f has the value b at 0 and from there proceeds by the step G.
Follows(f, N, b, G) == f[0] = b /\ \A n \in 1 .. N : f[n] = G[<<f[n - 1], n>>]

\* A function on 0 .. N may be defined by its value at 0 and a step.
LEMMA RecursionExists ==
    ASSUME NEW N \in Nat, NEW V, NEW b \in V, NEW G \in [V \X (1 .. N) -> V]
    PROVE  \E f \in [0 .. N -> V] : Follows(f, N, b, G)
<1> DEFINE S == {k \in Nat : \E f \in [0 .. k -> V] : Follows(f, k, b, G)}
<1>1. 0 \in S
  <2>1. [n \in 0 .. 0 |-> b] \in [0 .. 0 -> V] /\ Follows([n \in 0 .. 0 |-> b], 0, b, G)
    BY DEF Follows
  <2> QED BY <2>1
<1>2. ASSUME NEW k \in 0 .. N - 1, k \in S PROVE k + 1 \in S
  <2>1. PICK f \in [0 .. k -> V] : Follows(f, k, b, G)
    BY <1>2
  <2> DEFINE g == [n \in 0 .. k + 1 |-> IF n = k + 1 THEN G[<<f[k], k + 1>>] ELSE f[n]]
  <2>2. f[k] \in V /\ k + 1 \in 1 .. N
    BY <1>2
  <2>3. G[<<f[k], k + 1>>] \in V
    BY <2>2
  <2>4. g \in [0 .. k + 1 -> V]
    BY <1>2, <2>3
  <2>5. Follows(g, k + 1, b, G)
    <3>1. g[0] = b
      BY <1>2, <2>1 DEF Follows
    <3>2. ASSUME NEW n \in 1 .. k + 1 PROVE g[n] = G[<<g[n - 1], n>>]
      <4>1. CASE n = k + 1
        <5>1. g[n] = G[<<f[k], k + 1>>] /\ n - 1 = k /\ g[k] = f[k]
          BY <1>2, <4>1
        <5> QED BY <4>1, <5>1
      <4>2. CASE n # k + 1
        <5>1. n \in 1 .. k /\ n - 1 \in 0 .. k /\ n - 1 # k + 1
          BY <1>2, <3>2, <4>2
        <5>2. g[n] = f[n] /\ g[n - 1] = f[n - 1]
          BY <1>2, <5>1, <4>2
        <5> QED BY <2>1, <5>1, <5>2 DEF Follows
      <4> QED BY <4>1, <4>2
    <3> QED BY <3>1, <3>2 DEF Follows
  <2> HIDE DEF g
  <2> QED BY <1>2, <2>4, <2>5
<1> HIDE DEF S
<1>3. N \in S
  BY <1>1, <1>2, BoundedInduction
<1> QED BY <1>3 DEF S

\* What f has at i, where its definition goes on to next[i] or stops with b[i].
Descent(f, D, b, next, G, i) == IF next[i] \in D THEN G[<<i, f[next[i]]>>] ELSE b[i]

Descends(f, D, b, next, G) == \A i \in D : f[i] = Descent(f, D, b, next, G, i)

\* A function may be defined by recursion wherever a rank decreases.
LEMMA DescentExists ==
    ASSUME NEW D, NEW V, NEW N \in Nat, NEW rank \in [D -> 0 .. N], NEW next,
           NEW b \in [D -> V], NEW G \in [D \X V -> V],
           \A i \in D : next[i] \in D => rank[next[i]] < rank[i]
    PROVE  \E f \in [D -> V] : Descends(f, D, b, next, G)
<1> DEFINE Upto(f, k) == \A i \in D : rank[i] <= k => f[i] = Descent(f, D, b, next, G, i)
           S == {k \in Nat : \E f \in [D -> V] : Upto(f, k)}
<1>1. \A i \in D : rank[i] \in Nat /\ rank[i] <= N OBVIOUS
<1>2. 0 \in S
  <2>1. ASSUME NEW i \in D, rank[i] <= 0 PROVE next[i] \notin D
    <3>1. next[i] \in D => rank[next[i]] \in Nat /\ rank[next[i]] < rank[i] BY <1>1
    <3> QED BY <1>1, <2>1, <3>1
  <2>2. Upto(b, 0) BY <2>1 DEF Descent
  <2> QED BY <2>2
<1>3. ASSUME NEW k \in 0 .. N - 1, k \in S PROVE k + 1 \in S
  <2>1. PICK f \in [D -> V] : Upto(f, k) BY <1>3
  <2> DEFINE g == [i \in D |-> Descent(f, D, b, next, G, i)]
  <2>2. \A i \in D : Descent(f, D, b, next, G, i) \in V
    <3> TAKE i \in D
    <3>1. next[i] \in D => G[<<i, f[next[i]]>>] \in V
      <4>1. next[i] \in D => f[next[i]] \in V BY <2>1
      <4> QED BY <4>1
    <3> QED BY <3>1 DEF Descent
  <2>3. g \in [D -> V] BY <2>2
  <2>4. ASSUME NEW i \in D, rank[i] <= k + 1 PROVE g[i] = Descent(g, D, b, next, G, i)
    <3>1. CASE next[i] \notin D BY <3>1 DEF Descent
    <3>2. CASE next[i] \in D
      <4>1. rank[next[i]] <= k BY <1>1, <1>3, <2>4, <3>2
      <4>2. f[next[i]] = g[next[i]] BY <2>1, <3>2, <4>1
      <4>3. g[i] = G[<<i, f[next[i]]>>] BY <3>2 DEF Descent
      <4>4. Descent(g, D, b, next, G, i) = G[<<i, g[next[i]]>>] BY <3>2 DEF Descent
      <4> QED BY <4>2, <4>3, <4>4
    <3> QED BY <3>1, <3>2
  <2>5. Upto(g, k + 1) BY <2>4
  <2> HIDE DEF g, Upto
  <2> QED BY <1>3, <2>3, <2>5
<1> HIDE DEF S
<1>4. N \in S BY <1>2, <1>3, BoundedInduction
<1>5. PICK f \in [D -> V] : Upto(f, N) BY <1>4 DEF S
<1>6. Descends(f, D, b, next, G) BY <1>1, <1>5 DEF Descends
<1> QED BY <1>6

\* Every position after i in S puts i in S: then S has all of them.
LEMMA DownwardInduction ==
    ASSUME NEW N \in Nat, NEW S, \A i \in 1 .. N : (\A j \in i + 1 .. N : j \in S) => i \in S
    PROVE  \A i \in 1 .. N : i \in S
<1> DEFINE T == {k \in Nat : k < N => N - k \in S}
<1>1. ASSUME NEW k \in Nat, \A m \in Nat : m < k => m \in T PROVE k \in T
  <2> SUFFICES ASSUME k < N PROVE N - k \in S OBVIOUS
  <2>1. N - k \in 1 .. N OBVIOUS
  <2>2. ASSUME NEW j \in (N - k) + 1 .. N PROVE j \in S
    <3>1. N - j \in Nat /\ N - j < k /\ N - j < N /\ N - (N - j) = j BY <2>2
    <3> QED BY <3>1, <1>1
  <2> QED BY <2>1, <2>2
<1> HIDE DEF T
<1>2. \A k \in Nat : k \in T BY <1>1, StrongInduction
<1>3. ASSUME NEW i \in 1 .. N PROVE i \in S
  <2>1. N - i \in Nat /\ N - i < N /\ N - (N - i) = i BY <1>3
  <2> QED BY <2>1, <1>2 DEF T
<1> QED BY <1>3
=============================================================================
