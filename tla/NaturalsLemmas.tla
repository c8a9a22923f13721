---------------------------- MODULE NaturalsLemmas ----------------------------
(* The least-number principle in the form the proofs of the other modules use: *)
(* over sets of naturals rather than over predicates.                          *)
EXTENDS Integers, WellFoundedInduction, TLAPS

\* Every non-empty set of naturals has a least element; used for the loops of the
\* code that stop at the first element with some property.
LEMMA LeastNatural ==
    ASSUME NEW T, T \subseteq Nat, T # {}
    PROVE  \E x \in T : \A y \in T : x <= y
<1>1. PICK x \in T : \A y \in T : ~ (<<y, x>> \in OpToRel(<, Nat))
    BY NatLessThanWellFounded, WFMin
<1>2. \A y \in T : ~ (y < x)
    <2> TAKE y \in T
    <2>1. <<y, x>> \in Nat \X Nat
        OBVIOUS
    <2> QED BY <1>1, <2>1 DEF OpToRel
<1> QED BY <1>2

\* A bounded non-empty set of naturals has a greatest element; used where the code takes the last one with some property.
LEMMA GreatestNatural ==
    ASSUME NEW n \in Nat, NEW T, T \subseteq 0 .. n, T # {}
    PROVE  \E x \in T : \A y \in T : y <= x
<1> DEFINE U == {n - y : y \in T}
<1>1. U \subseteq Nat /\ U # {}
  <2>1. PICK y : y \in T
    OBVIOUS
  <2>2. n - y \in U
    BY <2>1
  <2>3. \A u \in U : u \in Nat
    OBVIOUS
  <2> QED BY <2>2, <2>3
<1>2. PICK u \in U : \A v \in U : u <= v
  <2> HIDE DEF U
  <2> QED BY <1>1, LeastNatural
<1>3. PICK x \in T : u = n - x
  BY <1>2
<1>4. \A y \in T : n - x <= n - y
  BY <1>2, <1>3
<1> QED BY <1>3, <1>4

\* A sum that a recursive function adds up term by term is defined.
LEMMA RunningSumExists ==
    ASSUME NEW n \in Nat, NEW d
    PROVE  \E g : g = [i \in 1 .. n |-> IF i = 1 THEN 0 ELSE g[i - 1] + d[i - 1]]
<1> DEFINE Sums(k) == \E g : g = [i \in 1 .. k |-> IF i = 1 THEN 0 ELSE g[i - 1] + d[i - 1]]
           T == {k \in Nat : ~Sums(k)}
<1>1. SUFFICES ASSUME T # {} PROVE FALSE
  OBVIOUS
<1>2. PICK k \in T : \A m \in T : k <= m
  BY <1>1, LeastNatural
<1>3. Sums(0)
  <2>1. [i \in 1 .. 0 |-> 0] = [i \in 1 .. 0 |-> IF i = 1 THEN 0 ELSE [j \in 1 .. 0 |-> 0][i - 1] + d[i - 1]]
    OBVIOUS
  <2> QED BY <2>1
<1>4. k # 0 /\ k - 1 \in Nat /\ k - 1 \notin T
  <2> HIDE DEF Sums
  <2> QED BY <1>2, <1>3
<1>5. PICK g : g = [i \in 1 .. k - 1 |-> IF i = 1 THEN 0 ELSE g[i - 1] + d[i - 1]]
  BY <1>4
<1> DEFINE h == [i \in 1 .. k |-> IF i = 1 THEN 0 ELSE g[i - 1] + d[i - 1]]
<1>6. \A i \in 1 .. k - 1 : h[i] = g[i]
  <2> DEFINE G == [i \in 1 .. k - 1 |-> IF i = 1 THEN 0 ELSE g[i - 1] + d[i - 1]]
  <2>1. \A i \in 1 .. k - 1 : G[i] = h[i]
    BY <1>4
  <2>2. g = G
    BY <1>5
  <2> HIDE DEF G, h
  <2> QED BY <2>1, <2>2
<1>7. h = [i \in 1 .. k |-> IF i = 1 THEN 0 ELSE h[i - 1] + d[i - 1]]
  <2>1. \A i \in 1 .. k : i # 1 => h[i - 1] = g[i - 1]
    <3> HIDE DEF h
    <3> QED BY <1>4, <1>6
  <2>2. \A i \in 1 .. k : h[i] = IF i = 1 THEN 0 ELSE h[i - 1] + d[i - 1]
    <3> SUFFICES ASSUME NEW i \in 1 .. k PROVE h[i] = IF i = 1 THEN 0 ELSE h[i - 1] + d[i - 1]
      OBVIOUS
    <3>1. h[i] = IF i = 1 THEN 0 ELSE g[i - 1] + d[i - 1]
      OBVIOUS
    <3> HIDE DEF h
    <3> QED BY <2>1, <3>1
  <2>3. DOMAIN h = 1 .. k /\ h = [i \in 1 .. k |-> h[i]]
    OBVIOUS
  <2> HIDE DEF h
  <2> QED BY <2>2, <2>3
<1> HIDE DEF h
<1>8. Sums(k)
  BY <1>7
<1> QED BY <1>2, <1>8

\* A function whose values are made one after the other, each by a step from the one before: the results of a loop after
\* each of its rounds.
Rounds(g, n, S, v, step) ==
    /\ g \in [0 .. n -> S]
    /\ g[0] = v
    /\ \A i \in 1 .. n : g[i] = step[i][g[i - 1]]

\* Such a function is defined, and stays in the set that its steps map to itself; used for the loops of the code that add
\* to a result.
LEMMA RecursionExists ==
    ASSUME NEW n \in Nat, NEW S, NEW v \in S, NEW step \in [1 .. n -> [S -> S]]
    PROVE  \E g : Rounds(g, n, S, v, step)
<1> DEFINE Made(k) == \E g \in [0 .. k -> S] : g[0] = v /\ \A i \in 1 .. k : g[i] = step[i][g[i - 1]]
           T == {k \in 0 .. n : ~Made(k)}
<1>1. Made(n)
  <2>1. SUFFICES ASSUME T # {} PROVE FALSE
    <3>1. n \in 0 .. n
      OBVIOUS
    <3> HIDE DEF Made
    <3> QED BY <3>1
  <2>2. T \subseteq Nat
    OBVIOUS
  <2>3. PICK k \in T : \A m \in T : k <= m
    <3> HIDE DEF T
    <3> QED BY <2>1, <2>2, LeastNatural
  <2>4. Made(0)
    <3> DEFINE g == [i \in 0 .. 0 |-> v]
    <3>1. g \in [0 .. 0 -> S] /\ g[0] = v
      OBVIOUS
    <3> HIDE DEF g
    <3> QED BY <3>1
  <2>5. k \in 0 .. n /\ k # 0 /\ k - 1 \in 0 .. n /\ k - 1 \notin T
    <3> HIDE DEF Made
    <3> QED BY <2>3, <2>4
  <2>6. PICK g \in [0 .. k - 1 -> S] : g[0] = v /\ \A i \in 1 .. k - 1 : g[i] = step[i][g[i - 1]]
    BY <2>5
  <2> DEFINE h == [i \in 0 .. k |-> IF i < k THEN g[i] ELSE step[k][g[k - 1]]]
  <2>7. step[k] \in [S -> S] /\ g[k - 1] \in S
    BY <2>5, <2>6
  <2>8. h \in [0 .. k -> S]
    BY <2>5, <2>6, <2>7
  <2>9. h[0] = v
    BY <2>5, <2>6
  <2>10. \A i \in 1 .. k : h[i] = step[i][h[i - 1]]
    <3> SUFFICES ASSUME NEW i \in 1 .. k PROVE h[i] = step[i][h[i - 1]]
      OBVIOUS
    <3>1. h[i - 1] = g[i - 1]
      BY <2>5
    <3>2. CASE i < k
      <4>1. h[i] = g[i] /\ g[i] = step[i][g[i - 1]]
        BY <2>5, <2>6, <3>2
      <4> HIDE DEF h
      <4> QED BY <3>1, <4>1
    <3>3. CASE i = k
      <4>1. h[i] = step[k][g[k - 1]]
        BY <2>5, <3>3
      <4> HIDE DEF h
      <4> QED BY <3>1, <3>3, <4>1
    <3> QED BY <2>5, <3>2, <3>3
  <2> HIDE DEF h
  <2>11. Made(k)
    BY <2>8, <2>9, <2>10
  <2> QED BY <2>3, <2>11
<1>2. PICK g \in [0 .. n -> S] : g[0] = v /\ \A i \in 1 .. n : g[i] = step[i][g[i - 1]]
  BY <1>1
<1>3. Rounds(g, n, S, v, step)
  BY <1>2 DEF Rounds
<1> QED BY <1>3
=============================================================================
