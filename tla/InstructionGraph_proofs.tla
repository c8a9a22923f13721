---------------------- MODULE InstructionGraph_proofs ----------------------
(* Proofs about the instruction graph, for every method, baseline, set of new   *)
(* instructions and sequence of calls: the links represent the method, the infos *)
(* know the branches, the offsets are right, and the exception clauses stay in   *)
(* the method and in their order.                                                *)
EXTENDS InstructionGraph, NaturalsLemmas

\* What the links need of the types.
LinkTypes ==
    /\ next \in [Instrs -> Pointers] /\ prev \in [Instrs -> Pointers]
    /\ graph \subseteq Instrs /\ removed \subseteq Instrs
    /\ il \in Seq(Instrs)

\* The links after x was put at place i of s, or in the place of s[i], or s[i] was taken out.
NextWith(s, i, x, nx) == [y \in Instrs |-> IF y = x THEN At(s, i) ELSE IF y = At(s, i - 1) THEN x ELSE nx[y]]
PrevWith(s, i, x, pv) == [y \in Instrs |-> IF y = x THEN At(s, i - 1) ELSE IF y = At(s, i) THEN x ELSE pv[y]]
NextFor(s, i, x, nx) == [y \in Instrs |-> IF y = x THEN At(s, i + 1) ELSE IF y = At(s, i - 1) THEN x ELSE nx[y]]
PrevFor(s, i, x, pv) == [y \in Instrs |-> IF y = x THEN At(s, i - 1) ELSE IF y = At(s, i + 1) THEN x ELSE pv[y]]
NextWithout(s, i, nx) == [y \in Instrs |-> IF y = At(s, i - 1) THEN At(s, i + 1) ELSE nx[y]]
PrevWithout(s, i, pv) == [y \in Instrs |-> IF y = At(s, i + 1) THEN At(s, i - 1) ELSE pv[y]]

\* The links of s, as WellLinked has them of il.
LinksOf(s, f, l, h, nx, pv) ==
    /\ f = At(s, 1)
    /\ l = At(s, Len(s)) \/ (h /\ l = Null)
    /\ \A i \in 1 .. Len(s) : nx[s[i]] = At(s, i + 1) /\ pv[s[i]] = At(s, i - 1)

LinkInv == LinkTypes /\ WellLinked

-----------------------------------------------------------------------------
\* Pos finds the one place of an instruction of the list.
LEMMA PosOfMember ==
    ASSUME il \in Seq(Instrs), NEW o \in Range(il)
    PROVE  Pos(o) \in 1 .. Len(il) /\ il[Pos(o)] = o
BY DEF Pos, Range

\* InsertAt adds one element that was not there.
LEMMA InsertAtFacts ==
    ASSUME NEW S, NEW s \in Seq(S), NEW i \in 1 .. Len(s) + 1, NEW x \in S,
           x \notin Range(s), Injective(s)
    PROVE  /\ InsertAt(s, i, x) \in Seq(S)
           /\ Len(InsertAt(s, i, x)) = Len(s) + 1
           /\ \A j \in 1 .. Len(s) + 1 :
                InsertAt(s, i, x)[j] = IF j < i THEN s[j] ELSE IF j = i THEN x ELSE s[j - 1]
           /\ Injective(InsertAt(s, i, x))
           /\ Range(InsertAt(s, i, x)) \subseteq Range(s) \cup {x}
<1> DEFINE t == InsertAt(s, i, x)
<1>1. t = [j \in 1 .. Len(s) + 1 |-> IF j < i THEN s[j] ELSE IF j = i THEN x ELSE s[j - 1]]
  BY DEF InsertAt
<1>2. Len(s) \in Nat /\ \A j \in 1 .. Len(s) : s[j] \in S
  OBVIOUS
<1>3. \A j \in 1 .. Len(s) + 1 : t[j] \in S
  BY <1>1, <1>2
<1>4. t \in Seq(S) /\ Len(t) = Len(s) + 1
  BY <1>1, <1>2, <1>3
<1>5. \A j \in 1 .. Len(s) + 1 : t[j] = IF j < i THEN s[j] ELSE IF j = i THEN x ELSE s[j - 1]
  BY <1>1
<1>6. \A j \in 1 .. Len(s) : s[j] # x
  BY DEF Range
<1>7. Injective(t)
  <2> SUFFICES ASSUME NEW j \in 1 .. Len(s) + 1, NEW k \in 1 .. Len(s) + 1, t[j] = t[k]
               PROVE  j = k
    BY <1>4 DEF Injective
  <2> DEFINE at(m) == IF m < i THEN m ELSE m - 1
  <2> HIDE DEF t
  <2>1. \A m \in 1 .. Len(s) + 1 : m # i => at(m) \in 1 .. Len(s) /\ t[m] = s[at(m)]
    BY <1>2, <1>5
  <2>2. CASE j = i \/ k = i
    BY <1>5, <1>6, <2>1, <2>2
  <2>3. CASE j # i /\ k # i
    <3>1. s[at(j)] = s[at(k)] /\ at(j) \in 1 .. Len(s) /\ at(k) \in 1 .. Len(s)
      BY <2>1, <2>3
    <3>2. at(j) = at(k)
      BY <3>1 DEF Injective
    <3> QED BY <1>2, <2>3, <3>2
  <2> QED BY <2>2, <2>3
<1>8. Range(t) \subseteq Range(s) \cup {x}
  <2> SUFFICES ASSUME NEW j \in 1 .. Len(s) + 1 PROVE t[j] \in Range(s) \cup {x}
    BY <1>4 DEF Range
  <2> HIDE DEF t
  <2> QED BY <1>2, <1>5 DEF Range
<1> QED BY <1>4, <1>5, <1>7, <1>8

\* DeleteAt leaves one element out.
LEMMA DeleteAtFacts ==
    ASSUME NEW S, NEW s \in Seq(S), NEW i \in 1 .. Len(s), Injective(s)
    PROVE  /\ DeleteAt(s, i) \in Seq(S)
           /\ Len(DeleteAt(s, i)) = Len(s) - 1
           /\ \A j \in 1 .. Len(s) - 1 : DeleteAt(s, i)[j] = IF j < i THEN s[j] ELSE s[j + 1]
           /\ Injective(DeleteAt(s, i))
           /\ Range(DeleteAt(s, i)) \subseteq Range(s) \ {s[i]}
<1> DEFINE t == DeleteAt(s, i)
<1>1. t = [j \in 1 .. Len(s) - 1 |-> IF j < i THEN s[j] ELSE s[j + 1]]
  BY DEF DeleteAt
<1>2. Len(s) \in Nat /\ Len(s) - 1 \in Nat /\ \A j \in 1 .. Len(s) : s[j] \in S
  OBVIOUS
<1>3. \A j \in 1 .. Len(s) - 1 : t[j] \in S
  BY <1>1, <1>2
<1>4. t \in Seq(S) /\ Len(t) = Len(s) - 1
  BY <1>1, <1>2, <1>3
<1>5. \A j \in 1 .. Len(s) - 1 : t[j] = IF j < i THEN s[j] ELSE s[j + 1]
  BY <1>1
<1>6. Injective(t)
  <2> SUFFICES ASSUME NEW j \in 1 .. Len(s) - 1, NEW k \in 1 .. Len(s) - 1, t[j] = t[k]
               PROVE  j = k
    BY <1>4 DEF Injective
  <2> DEFINE at(m) == IF m < i THEN m ELSE m + 1
  <2> HIDE DEF t
  <2>1. s[at(j)] = s[at(k)] /\ at(j) \in 1 .. Len(s) /\ at(k) \in 1 .. Len(s)
    BY <1>2, <1>5
  <2>2. at(j) = at(k)
    BY <2>1 DEF Injective
  <2> QED BY <1>2, <2>2
<1>7. Range(t) \subseteq Range(s) \ {s[i]}
  <2> SUFFICES ASSUME NEW j \in 1 .. Len(s) - 1 PROVE t[j] \in Range(s) \ {s[i]}
    BY <1>4 DEF Range
  <2> DEFINE m == IF j < i THEN j ELSE j + 1
  <2>1. t[j] = s[m] /\ m \in 1 .. Len(s) /\ m # i
    BY <1>2, <1>5
  <2> HIDE DEF t, m
  <2>2. s[m] \in Range(s)
    BY <2>1 DEF Range
  <2>3. s[m] # s[i]
    BY <2>1 DEF Injective
  <2> QED BY <2>1, <2>2, <2>3
<1> QED BY <1>4, <1>5, <1>6, <1>7

-----------------------------------------------------------------------------
\* Places of a list without repetitions, its two ends included, hold different things.
LEMMA AtFacts ==
    ASSUME NEW s \in Seq(Instrs), Injective(s)
    PROVE  /\ Len(s) \in Nat
           /\ \A j \in 1 .. Len(s) : At(s, j) = s[j] /\ s[j] \in Range(s) /\ At(s, j) \in Instrs
           /\ At(s, 0) = Null /\ At(s, Len(s) + 1) = Null /\ At(s, Len(s) + 2) = Null
           /\ \A j \in 1 .. Len(s), k \in 0 .. Len(s) + 1 : At(s, j) = At(s, k) => j = k
<1>1. Len(s) \in Nat /\ \A j \in 1 .. Len(s) : s[j] \in Instrs /\ s[j] # Null
  BY CodeAssumption
<1>2. \A j \in 1 .. Len(s) : At(s, j) = s[j] /\ s[j] \in Range(s) /\ At(s, j) \in Instrs
  BY <1>1 DEF At, Range
<1>3. At(s, 0) = Null /\ At(s, Len(s) + 1) = Null /\ At(s, Len(s) + 2) = Null
  BY <1>1 DEF At
<1>4. ASSUME NEW j \in 1 .. Len(s), NEW k \in 0 .. Len(s) + 1, At(s, j) = At(s, k) PROVE j = k
  <2>1. CASE k \in 1 .. Len(s)
    BY <1>2, <1>4, <2>1 DEF Injective
  <2>2. CASE k = 0 \/ k = Len(s) + 1
    BY <1>1, <1>2, <1>3, <1>4, <2>2
  <2> QED BY <1>1, <2>1, <2>2
<1> QED BY <1>1, <1>2, <1>3, <1>4

\* The links around an inserted instruction.
LEMMA InsertLinks ==
    ASSUME NEW s \in Seq(Instrs), Injective(s), NEW i \in 1 .. Len(s) + 1,
           NEW x \in Instrs, x \notin Range(s), NEW f, NEW l, NEW h, NEW nx, NEW pv, LinksOf(s, f, l, h, nx, pv)
    PROVE  LinksOf(InsertAt(s, i, x), IF i = 1 THEN x ELSE f, IF i = Len(s) + 1 THEN x ELSE l, h,
                   NextWith(s, i, x, nx), PrevWith(s, i, x, pv))
<1> DEFINE t == InsertAt(s, i, x)
           nx2 == NextWith(s, i, x, nx)
           pv2 == PrevWith(s, i, x, pv)
           N == Len(s)
<1>1. N \in Nat /\ i \in 1 .. N + 1 /\ Len(t) = N + 1 /\ t \in Seq(Instrs) /\ Injective(t)
  BY InsertAtFacts
<1>2. /\ \A j \in 1 .. N : At(s, j) \in Instrs /\ At(s, j) # x
      /\ \A j \in 1 .. N, k \in 0 .. N + 1 : At(s, j) = At(s, k) => j = k
  BY AtFacts
<1>3. \A j \in 1 .. N : nx[At(s, j)] = At(s, j + 1) /\ pv[At(s, j)] = At(s, j - 1)
  BY AtFacts DEF LinksOf
<1>4. \A j \in 0 .. N + 2 : At(t, j) = IF j < i THEN At(s, j) ELSE IF j = i THEN x ELSE At(s, j - 1)
  <2> SUFFICES ASSUME NEW j \in 0 .. N + 2
               PROVE  At(t, j) = IF j < i THEN At(s, j) ELSE IF j = i THEN x ELSE At(s, j - 1)
    OBVIOUS
  <2>1. CASE j \in 1 .. N + 1
    <3>1. At(t, j) = t[j]
      BY <1>1, <2>1 DEF At
    <3>2. t[j] = IF j < i THEN s[j] ELSE IF j = i THEN x ELSE s[j - 1]
      BY <2>1, InsertAtFacts
    <3>3. (j < i => At(s, j) = s[j]) /\ (j > i => At(s, j - 1) = s[j - 1])
      BY <1>1, <2>1 DEF At
    <3> HIDE DEF t
    <3> QED BY <1>1, <3>1, <3>2, <3>3
  <2>2. CASE j = 0 \/ j = N + 2
    <3>1. At(t, 0) = Null /\ At(t, N + 2) = Null /\ At(s, 0) = Null /\ At(s, N + 1) = Null
      BY <1>1 DEF At
    <3> HIDE DEF t
    <3> QED BY <1>1, <2>2, <3>1
  <2> QED BY <1>1, <2>1, <2>2
<1>5. \A y \in Instrs : /\ nx2[y] = IF y = x THEN At(s, i) ELSE IF y = At(s, i - 1) THEN x ELSE nx[y]
                        /\ pv2[y] = IF y = x THEN At(s, i - 1) ELSE IF y = At(s, i) THEN x ELSE pv[y]
  BY DEF NextWith, PrevWith
<1>6. ASSUME NEW j \in 1 .. N + 1 PROVE nx2[At(t, j)] = At(t, j + 1) /\ pv2[At(t, j)] = At(t, j - 1)
  <2> HIDE DEF t, nx2, pv2, N
  <2>1. CASE j < i
    <3>1. At(t, j) = At(s, j) /\ j \in 1 .. N /\ At(t, j - 1) = At(s, j - 1)
      BY <1>1, <1>4, <2>1
    <3>2. At(s, j) # At(s, i) /\ (j # i - 1 => At(s, j) # At(s, i - 1))
      BY <1>1, <1>2, <2>1, <3>1
    <3>3. At(t, j + 1) = IF j = i - 1 THEN x ELSE At(s, j + 1)
      BY <1>1, <1>4, <2>1
    <3> QED BY <1>2, <1>3, <1>5, <3>1, <3>2, <3>3
  <2>2. CASE j = i
    <3>1. At(t, j) = x /\ At(t, j + 1) = At(s, i) /\ At(t, j - 1) = At(s, i - 1)
      BY <1>1, <1>4, <2>2
    <3> QED BY <1>5, <3>1
  <2>3. CASE j > i
    <3>1. At(t, j) = At(s, j - 1) /\ j - 1 \in 1 .. N /\ At(t, j + 1) = At(s, j)
      BY <1>1, <1>4, <2>3
    <3>2. At(s, j - 1) # At(s, i - 1) /\ (j # i + 1 => At(s, j - 1) # At(s, i))
      BY <1>1, <1>2, <2>3, <3>1
    <3>3. At(t, j - 1) = IF j = i + 1 THEN x ELSE At(s, j - 2)
      BY <1>1, <1>4, <2>3
    <3>4. nx[At(s, j - 1)] = At(s, j) /\ pv[At(s, j - 1)] = At(s, j - 2)
      BY <1>3, <3>1
    <3> QED BY <1>2, <1>5, <3>1, <3>2, <3>3, <3>4
  <2> QED BY <1>1, <2>1, <2>2, <2>3
<1>7. (IF i = 1 THEN x ELSE f) = At(t, 1)
  <2>1. f = At(s, 1)
    BY DEF LinksOf
  <2> HIDE DEF t
  <2> QED BY <1>1, <1>4, <2>1
<1>8. LET l2 == IF i = N + 1 THEN x ELSE l IN l2 = At(t, Len(t)) \/ (h /\ l2 = Null)
  <2>1. l = At(s, N) \/ (h /\ l = Null)
    BY DEF LinksOf
  <2> HIDE DEF t
  <2> QED BY <1>1, <1>4, <2>1
<1>9. \A j \in 1 .. N + 1 : t[j] = At(t, j)
  BY <1>1 DEF At
<1> HIDE DEF t, nx2, pv2
<1>10. LinksOf(t, IF i = 1 THEN x ELSE f, IF i = N + 1 THEN x ELSE l, h, nx2, pv2)
  BY <1>1, <1>6, <1>7, <1>8, <1>9 DEF LinksOf
<1> QED BY <1>10 DEF t, nx2, pv2

\* The links around an instruction that takes the place of another.
LEMMA ReplaceLinks ==
    ASSUME NEW s \in Seq(Instrs), Injective(s), NEW i \in 1 .. Len(s),
           NEW x \in Instrs, x \notin Range(s), NEW f, NEW l, NEW h, NEW nx, NEW pv, LinksOf(s, f, l, h, nx, pv)
    PROVE  LinksOf([s EXCEPT ![i] = x], IF i = 1 THEN x ELSE f, IF i = Len(s) THEN x ELSE l, h,
                   NextFor(s, i, x, nx), PrevFor(s, i, x, pv))
<1> DEFINE t == [s EXCEPT ![i] = x]
           nx2 == NextFor(s, i, x, nx)
           pv2 == PrevFor(s, i, x, pv)
           N == Len(s)
<1>1. N \in Nat /\ i \in 1 .. N /\ Len(t) = N
  OBVIOUS
<1>2. /\ \A j \in 1 .. N : At(s, j) \in Instrs /\ At(s, j) # x
      /\ \A j \in 1 .. N, k \in 0 .. N + 1 : At(s, j) = At(s, k) => j = k
  BY AtFacts
<1>3. \A j \in 1 .. N : nx[At(s, j)] = At(s, j + 1) /\ pv[At(s, j)] = At(s, j - 1)
  BY AtFacts DEF LinksOf
<1>4. \A j \in 0 .. N + 1 : At(t, j) = IF j = i THEN x ELSE At(s, j)
  BY <1>1 DEF At
<1>5. \A y \in Instrs : /\ nx2[y] = IF y = x THEN At(s, i + 1) ELSE IF y = At(s, i - 1) THEN x ELSE nx[y]
                        /\ pv2[y] = IF y = x THEN At(s, i - 1) ELSE IF y = At(s, i + 1) THEN x ELSE pv[y]
  BY DEF NextFor, PrevFor
<1>6. ASSUME NEW j \in 1 .. N PROVE nx2[At(t, j)] = At(t, j + 1) /\ pv2[At(t, j)] = At(t, j - 1)
  <2> HIDE DEF t, nx2, pv2, N
  <2>1. CASE j = i
    <3>1. At(t, j) = x /\ At(t, j + 1) = At(s, i + 1) /\ At(t, j - 1) = At(s, i - 1)
      BY <1>1, <1>4, <2>1
    <3> QED BY <1>5, <3>1
  <2>2. CASE j # i
    <3>1. At(t, j) = At(s, j)
      BY <1>1, <1>4, <2>2
    <3>2. (j # i - 1 => At(s, j) # At(s, i - 1)) /\ (j # i + 1 => At(s, j) # At(s, i + 1))
      BY <1>1, <1>2
    <3>3. /\ At(t, j + 1) = IF j = i - 1 THEN x ELSE At(s, j + 1)
          /\ At(t, j - 1) = IF j = i + 1 THEN x ELSE At(s, j - 1)
      BY <1>1, <1>4
    <3> QED BY <1>2, <1>3, <1>5, <3>1, <3>2, <3>3
  <2> QED BY <2>1, <2>2
<1>7. /\ (IF i = 1 THEN x ELSE f) = At(t, 1)
      /\ LET l2 == IF i = N THEN x ELSE l IN l2 = At(t, Len(t)) \/ (h /\ l2 = Null)
  <2>1. f = At(s, 1) /\ (l = At(s, N) \/ (h /\ l = Null))
    BY DEF LinksOf
  <2> HIDE DEF t
  <2> QED BY <1>1, <1>4, <2>1
<1>8. \A j \in 1 .. N : t[j] = At(t, j)
  BY <1>1 DEF At
<1> HIDE DEF t, nx2, pv2
<1>9. LinksOf(t, IF i = 1 THEN x ELSE f, IF i = N THEN x ELSE l, h, nx2, pv2)
  BY <1>1, <1>6, <1>7, <1>8 DEF LinksOf
<1> QED BY <1>9 DEF t, nx2, pv2

\* The links around the gap that an instruction leaves.
LEMMA DeleteLinks ==
    ASSUME NEW s \in Seq(Instrs), Injective(s), NEW i \in 1 .. Len(s),
           NEW f, NEW l, NEW h, NEW nx, NEW pv, LinksOf(s, f, l, h, nx, pv)
    PROVE  LinksOf(DeleteAt(s, i), IF i = 1 THEN At(s, 2) ELSE f, IF i = Len(s) THEN At(s, i - 1) ELSE l, h,
                   NextWithout(s, i, nx), PrevWithout(s, i, pv))
<1> DEFINE t == DeleteAt(s, i)
           nx2 == NextWithout(s, i, nx)
           pv2 == PrevWithout(s, i, pv)
           N == Len(s)
<1>1. N \in Nat /\ i \in 1 .. N /\ Len(t) = N - 1 /\ t \in Seq(Instrs)
  BY DeleteAtFacts
<1>2. /\ \A j \in 1 .. N : At(s, j) \in Instrs
      /\ \A j \in 1 .. N, k \in 0 .. N + 1 : At(s, j) = At(s, k) => j = k
  BY AtFacts
<1>3. \A j \in 1 .. N : nx[At(s, j)] = At(s, j + 1) /\ pv[At(s, j)] = At(s, j - 1)
  BY AtFacts DEF LinksOf
<1>4. \A j \in 0 .. N : At(t, j) = IF j < i THEN At(s, j) ELSE At(s, j + 1)
  <2> SUFFICES ASSUME NEW j \in 0 .. N PROVE At(t, j) = IF j < i THEN At(s, j) ELSE At(s, j + 1)
    OBVIOUS
  <2>1. CASE j \in 1 .. N - 1
    <3>1. At(t, j) = t[j] /\ At(s, j) = s[j] /\ At(s, j + 1) = s[j + 1]
      BY <1>1, <2>1 DEF At
    <3>2. t[j] = IF j < i THEN s[j] ELSE s[j + 1]
      BY <2>1, DeleteAtFacts
    <3> HIDE DEF t
    <3> QED BY <3>1, <3>2
  <2>2. CASE j = 0 \/ j = N
    <3>1. At(t, 0) = Null /\ At(t, N) = Null /\ At(s, 0) = Null /\ At(s, N + 1) = Null
      BY <1>1 DEF At
    <3> HIDE DEF t
    <3> QED BY <1>1, <2>2, <3>1
  <2> QED BY <1>1, <2>1, <2>2
<1>5. \A y \in Instrs : /\ nx2[y] = IF y = At(s, i - 1) THEN At(s, i + 1) ELSE nx[y]
                        /\ pv2[y] = IF y = At(s, i + 1) THEN At(s, i - 1) ELSE pv[y]
  BY DEF NextWithout, PrevWithout
<1>6. ASSUME NEW j \in 1 .. N - 1 PROVE nx2[At(t, j)] = At(t, j + 1) /\ pv2[At(t, j)] = At(t, j - 1)
  <2> HIDE DEF t, nx2, pv2, N
  <2>1. CASE j < i
    <3>1. At(t, j) = At(s, j) /\ j \in 1 .. N /\ At(t, j - 1) = At(s, j - 1)
      BY <1>1, <1>4, <2>1
    <3>2. At(s, j) # At(s, i + 1) /\ (j # i - 1 => At(s, j) # At(s, i - 1))
      BY <1>1, <1>2, <2>1, <3>1
    <3>3. At(t, j + 1) = IF j = i - 1 THEN At(s, i + 1) ELSE At(s, j + 1)
      BY <1>1, <1>4, <2>1
    <3> QED BY <1>2, <1>3, <1>5, <3>1, <3>2, <3>3
  <2>2. CASE j >= i
    <3>1. At(t, j) = At(s, j + 1) /\ j + 1 \in 1 .. N /\ At(t, j + 1) = At(s, j + 2)
      BY <1>1, <1>4, <2>2
    <3>2. At(s, j + 1) # At(s, i - 1) /\ (j # i => At(s, j + 1) # At(s, i + 1))
      BY <1>1, <1>2, <2>2, <3>1
    <3>3. At(t, j - 1) = IF j = i THEN At(s, i - 1) ELSE At(s, j)
      BY <1>1, <1>4, <2>2
    <3>4. nx[At(s, j + 1)] = At(s, j + 2) /\ pv[At(s, j + 1)] = At(s, j)
      BY <1>3, <3>1
    <3> QED BY <1>2, <1>5, <3>1, <3>2, <3>3, <3>4
  <2> QED BY <1>1, <2>1, <2>2
<1>7. (IF i = 1 THEN At(s, 2) ELSE f) = At(t, 1)
  <2>1. f = At(s, 1) /\ At(s, N + 1) = Null
    BY <1>1, AtFacts DEF LinksOf
  <2>2. N = 1 => At(t, 1) = At(s, 2)
    BY <1>1, <1>4
  <2> HIDE DEF t
  <2> QED BY <1>1, <1>4, <2>1, <2>2
<1>8. LET l2 == IF i = N THEN At(s, i - 1) ELSE l IN l2 = At(t, Len(t)) \/ (h /\ l2 = Null)
  <2>1. l = At(s, N) \/ (h /\ l = Null)
    BY DEF LinksOf
  <2> HIDE DEF t
  <2> QED BY <1>1, <1>4, <2>1
<1>9. \A j \in 1 .. N - 1 : t[j] = At(t, j)
  BY <1>1 DEF At
<1> HIDE DEF t, nx2, pv2
<1>10. LinksOf(t, IF i = 1 THEN At(s, 2) ELSE f, IF i = N THEN At(s, i - 1) ELSE l, h, nx2, pv2)
  BY <1>1, <1>6, <1>7, <1>8, <1>9 DEF LinksOf
<1> QED BY <1>10 DEF t, nx2, pv2

-----------------------------------------------------------------------------
\* WellLinked in terms of LinksOf.
LEMMA WellLinkedParts ==
    WellLinked <=> Injective(il) /\ Range(il) \subseteq graph /\ LinksOf(il, first, last, half, next, prev)
BY DEF WellLinked, LinksOf

\* The links of an instruction of the list.
LEMMA LinksAtPos ==
    ASSUME LinkInv, NEW o \in Range(il)
    PROVE  /\ Pos(o) \in 1 .. Len(il) /\ o = At(il, Pos(o)) /\ o \in Instrs /\ Len(il) \in Nat
           /\ next[o] = At(il, Pos(o) + 1) /\ prev[o] = At(il, Pos(o) - 1)
           /\ prev[o] = Null <=> Pos(o) = 1
           /\ next[o] = Null <=> Pos(o) = Len(il)
<1>1. il \in Seq(Instrs) /\ Injective(il) /\ Pos(o) \in 1 .. Len(il) /\ il[Pos(o)] = o
  BY PosOfMember DEF LinkInv, LinkTypes, WellLinked
<1>2. o = At(il, Pos(o)) /\ o \in Instrs /\ Len(il) \in Nat
  BY <1>1, AtFacts
<1>3. next[o] = At(il, Pos(o) + 1) /\ prev[o] = At(il, Pos(o) - 1)
  BY <1>1 DEF LinkInv, WellLinked
<1>4. /\ \A j \in 1 .. Len(il) : At(il, j) # Null
      /\ At(il, 0) = Null /\ At(il, Len(il) + 1) = Null
  BY <1>1, AtFacts, CodeAssumption
<1>5. prev[o] = Null <=> Pos(o) = 1
  BY <1>1, <1>2, <1>3, <1>4
<1>6. next[o] = Null <=> Pos(o) = Len(il)
  BY <1>1, <1>2, <1>3, <1>4
<1> QED BY <1>1, <1>2, <1>3, <1>5, <1>6

\* What any insertion does to the links.
LEMMA InsertKeeps ==
    ASSUME LinkInv, NEW i \in 1 .. Len(il) + 1, NEW n \in Instrs, n \notin graph,
           graph' = graph \cup {n}, removed' = removed, il' = InsertAt(il, i, n),
           next' = NextWith(il, i, n, next), prev' = PrevWith(il, i, n, prev),
           first' = IF i = 1 THEN n ELSE first, last' = IF i = Len(il) + 1 THEN n ELSE last, half' = half
    PROVE  LinkInv'
<1>1. /\ il \in Seq(Instrs) /\ Injective(il) /\ Range(il) \subseteq graph /\ LinksOf(il, first, last, half, next, prev)
      /\ next \in [Instrs -> Pointers] /\ prev \in [Instrs -> Pointers]
      /\ graph \subseteq Instrs /\ removed \subseteq Instrs /\ n \notin Range(il)
  BY WellLinkedParts DEF LinkInv, LinkTypes
<1>2. il' \in Seq(Instrs) /\ Injective(il') /\ Range(il') \subseteq graph'
  BY <1>1, InsertAtFacts
<1>3. LinksOf(il', first', last', half', next', prev')
  BY <1>1, InsertLinks
<1>4. At(il, i) \in Pointers /\ At(il, i - 1) \in Pointers
  BY <1>1 DEF At, Pointers
<1>5. next' \in [Instrs -> Pointers] /\ prev' \in [Instrs -> Pointers]
  BY <1>1, <1>4 DEF NextWith, PrevWith, Pointers
<1>6. LinkTypes'
  BY <1>1, <1>2, <1>5 DEF LinkTypes
<1>7. WellLinked'
  BY <1>2, <1>3 DEF WellLinked, LinksOf
<1> QED BY <1>6, <1>7 DEF LinkInv

\* InsertBefore and InsertBeforeAndRetargetOffsets link alike.
LEMMA LinkBeforeKeeps ==
    ASSUME LinkInv, NEW o \in Range(il), NEW n \in Instrs, Insertable(n), LinkBefore(o, n), half' = half
    PROVE  LinkInv'
<1> DEFINE i == Pos(o)
<1>1. /\ i \in 1 .. Len(il) /\ o = At(il, i) /\ o \in Instrs /\ Len(il) \in Nat /\ prev[o] = At(il, i - 1)
      /\ (prev[o] = Null <=> i = 1)
  BY LinksAtPos
<1>2. n \notin graph /\ next[n] = Null /\ prev[n] = Null /\ o # n
  BY DEF Insertable, LinkInv, WellLinked
<1>3. next \in [Instrs -> Pointers] /\ prev \in [Instrs -> Pointers]
  BY DEF LinkInv, LinkTypes
<1> HIDE DEF i
<1>4. next' = NextWith(il, i, n, next)
  BY <1>1, <1>2, <1>3 DEF LinkBefore, NextWith
<1>5. prev' = PrevWith(il, i, n, prev)
  BY <1>1, <1>2, <1>3 DEF LinkBefore, PrevWith
<1>6. first' = (IF i = 1 THEN n ELSE first) /\ last' = (IF i = Len(il) + 1 THEN n ELSE last)
  BY <1>1 DEF LinkBefore
<1>7. graph' = graph \cup {n} /\ removed' = removed /\ il' = InsertAt(il, i, n) /\ i \in 1 .. Len(il) + 1
  BY <1>1 DEF LinkBefore, i
<1> QED BY <1>2, <1>4, <1>5, <1>6, <1>7, InsertKeeps

\* InsertAfter an instruction of the list.
LEMMA InsertAfterKeeps ==
    ASSUME LinkInv, NEW o \in Range(il), NEW n \in Instrs, Insertable(n), InsertAfter(o, n)
    PROVE  LinkInv'
<1> DEFINE i == Pos(o) + 1
<1>1. /\ i \in 1 .. Len(il) + 1 /\ i # 1 /\ o = At(il, i - 1) /\ o \in Instrs /\ next[o] = At(il, i)
      /\ (next[o] = Null <=> i = Len(il) + 1)
  BY LinksAtPos
<1>2. n \notin graph /\ next[n] = Null /\ prev[n] = Null /\ o # n
  BY DEF Insertable, LinkInv, WellLinked
<1>3. next \in [Instrs -> Pointers] /\ prev \in [Instrs -> Pointers]
  BY DEF LinkInv, LinkTypes
<1> HIDE DEF i
<1>4. next' = NextWith(il, i, n, next)
  BY <1>1, <1>2, <1>3 DEF InsertAfter, NextWith
<1>5. prev' = PrevWith(il, i, n, prev)
  BY <1>1, <1>2, <1>3 DEF InsertAfter, PrevWith
<1>6. first' = (IF i = 1 THEN n ELSE first) /\ last' = (IF i = Len(il) + 1 THEN n ELSE last)
  BY <1>1 DEF InsertAfter
<1>7. graph' = graph \cup {n} /\ removed' = removed /\ il' = InsertAt(il, i, n) /\ half' = half
  BY DEF InsertAfter, i
<1> QED BY <1>1, <1>2, <1>4, <1>5, <1>6, <1>7, InsertKeeps

\* InsertAfter without a position, into an empty list.
LEMMA InsertFirstKeeps ==
    ASSUME LinkInv, NEW n \in Instrs, Insertable(n), InsertFirst(n)
    PROVE  LinkInv'
<1>1. n \notin graph /\ next[n] = Null /\ prev[n] = Null
  BY DEF Insertable
<1>2. next \in [Instrs -> Pointers] /\ prev \in [Instrs -> Pointers]
  BY DEF LinkInv, LinkTypes
<1>3. graph' = graph \cup {n} /\ graph \subseteq Instrs /\ removed' = removed /\ removed \subseteq Instrs
  BY DEF InsertFirst, LinkInv, LinkTypes
<1>4. next' = next /\ prev' = prev
  BY <1>1, <1>2 DEF InsertFirst
<1>5. il' = <<n>> /\ il' \in Seq(Instrs) /\ Len(il') = 1 /\ il'[1] = n
  BY DEF InsertFirst
<1>6. Injective(il') /\ Range(il') \subseteq graph'
  BY <1>3, <1>5 DEF Injective, Range
<1>7. first' = n /\ last' = n /\ next'[n] = Null /\ prev'[n] = Null
  BY <1>1, <1>4 DEF InsertFirst
<1>8. At(il', 1) = n /\ At(il', 0) = Null /\ At(il', 2) = Null
  BY <1>5 DEF At
<1>9. LinksOf(il', first', last', half', next', prev')
  BY <1>5, <1>7, <1>8 DEF LinksOf
<1>10. WellLinked'
  BY <1>6, <1>9 DEF WellLinked, LinksOf
<1>11. LinkTypes'
  BY <1>2, <1>3, <1>4, <1>5 DEF LinkTypes
<1> QED BY <1>10, <1>11 DEF LinkInv

\* InsertAfter an instruction of no graph.
LEMMA InsertAfterRefusedKeeps ==
    ASSUME LinkInv, NEW o \in New \cup removed, NEW n \in Instrs, Insertable(n), InsertAfterRefused(o, n)
    PROVE  LinkInv'
<1>1. /\ il \in Seq(Instrs) /\ Range(il) \subseteq graph /\ n \notin Range(il) /\ o \in Pointers
      /\ next \in [Instrs -> Pointers] /\ prev \in [Instrs -> Pointers]
      /\ graph \subseteq Instrs /\ removed \subseteq Instrs
  BY DEF Insertable, LinkInv, LinkTypes, WellLinked, Pointers, Instrs
<1>2. /\ graph' = graph \cup {n} /\ prev' = [prev EXCEPT ![n] = o]
      /\ UNCHANGED <<first, last, next, removed, il, half>>
  BY DEF InsertAfterRefused
<1>3. LinkTypes'
  BY <1>1, <1>2 DEF LinkTypes
<1>4. \A j \in 1 .. Len(il) : prev'[il[j]] = prev[il[j]]
  BY <1>1, <1>2 DEF Range
<1>5. WellLinked'
  BY <1>1, <1>2, <1>4 DEF LinkInv, WellLinked
<1> QED BY <1>3, <1>5 DEF LinkInv

\* Replace.
LEMMA ReplaceKeeps ==
    ASSUME LinkInv, NEW o \in Range(il), NEW n \in Instrs, Insertable(n), Replace(o, n)
    PROVE  LinkInv'
<1> DEFINE i == Pos(o)
<1>1. /\ i \in 1 .. Len(il) /\ o = At(il, i) /\ o \in Instrs /\ Len(il) \in Nat
      /\ next[o] = At(il, i + 1) /\ prev[o] = At(il, i - 1)
      /\ (prev[o] = Null <=> i = 1) /\ (next[o] = Null <=> i = Len(il))
  BY LinksAtPos
<1>2. /\ il \in Seq(Instrs) /\ Injective(il) /\ Range(il) \subseteq graph /\ LinksOf(il, first, last, half, next, prev)
      /\ next \in [Instrs -> Pointers] /\ prev \in [Instrs -> Pointers]
      /\ graph \subseteq Instrs /\ removed \subseteq Instrs
  BY WellLinkedParts DEF LinkInv, LinkTypes
<1>3. n \notin graph /\ n \notin Range(il) /\ next[n] = Null /\ prev[n] = Null /\ o # n /\ n # Null
  BY <1>2, CodeAssumption DEF Insertable
<1>4. /\ il' = [il EXCEPT ![i] = n] /\ graph' = (graph \cup {n}) \ {o} /\ removed' = removed \cup {o}
      /\ first' = (IF prev[o] = Null THEN n ELSE first) /\ last' = (IF next[o] = Null THEN n ELSE last)
      /\ half' = half
  BY DEF Replace
<1> HIDE DEF i
<1>5. next[o] # n /\ prev[o] # n
  <2>1. At(il, i + 1) \in Range(il) \cup {Null} /\ At(il, i - 1) \in Range(il) \cup {Null}
    BY <1>1 DEF At, Range
  <2> QED BY <1>1, <1>3, <2>1
<1>6. next' = NextFor(il, i, n, next)
  BY <1>1, <1>2, <1>3, <1>5 DEF Replace, NextFor
<1>7. prev' = PrevFor(il, i, n, prev)
  BY <1>1, <1>2, <1>3, <1>5 DEF Replace, PrevFor
<1>8. first' = (IF i = 1 THEN n ELSE first) /\ last' = (IF i = Len(il) THEN n ELSE last)
  BY <1>1, <1>4
<1>9. LinksOf(il', first', last', half', next', prev')
  BY <1>1, <1>2, <1>3, <1>4, <1>6, <1>7, <1>8, ReplaceLinks
<1>10. il' \in Seq(Instrs) /\ Len(il') = Len(il) /\ \A j \in 1 .. Len(il) : il'[j] = IF j = i THEN n ELSE il[j]
  BY <1>1, <1>2, <1>4
<1>11. \A j \in 1 .. Len(il) : il[j] \in Range(il) /\ (j # i => il[j] # o)
  BY <1>1, <1>2 DEF Range, Injective, At
<1>12. Injective(il')
  BY <1>2, <1>3, <1>10, <1>11 DEF Injective
<1>13. Range(il') \subseteq graph'
  <2> SUFFICES ASSUME NEW j \in 1 .. Len(il) PROVE il'[j] \in graph'
    BY <1>10 DEF Range
  <2> QED BY <1>2, <1>3, <1>4, <1>10, <1>11
<1>14. At(il, i + 1) \in Pointers /\ At(il, i - 1) \in Pointers
  BY <1>1, <1>2 DEF At, Pointers
<1>15. next' \in [Instrs -> Pointers] /\ prev' \in [Instrs -> Pointers]
  BY <1>2, <1>6, <1>7, <1>14 DEF NextFor, PrevFor, Pointers
<1>16. LinkTypes'
  BY <1>1, <1>2, <1>4, <1>10, <1>15 DEF LinkTypes
<1>17. WellLinked'
  BY <1>9, <1>12, <1>13 DEF WellLinked, LinksOf
<1> QED BY <1>16, <1>17 DEF LinkInv

\* Remove.
LEMMA RemoveKeeps ==
    ASSUME LinkInv, NEW o \in Range(il), Remove(o)
    PROVE  LinkInv'
<1> DEFINE i == Pos(o)
<1>1. /\ i \in 1 .. Len(il) /\ o = At(il, i) /\ o \in Instrs /\ Len(il) \in Nat
      /\ next[o] = At(il, i + 1) /\ prev[o] = At(il, i - 1)
      /\ (prev[o] = Null <=> i = 1) /\ (next[o] = Null <=> i = Len(il))
  BY LinksAtPos
<1>2. /\ il \in Seq(Instrs) /\ Injective(il) /\ Range(il) \subseteq graph /\ LinksOf(il, first, last, half, next, prev)
      /\ next \in [Instrs -> Pointers] /\ prev \in [Instrs -> Pointers]
      /\ graph \subseteq Instrs /\ removed \subseteq Instrs
  BY WellLinkedParts DEF LinkInv, LinkTypes
<1>3. /\ il' = DeleteAt(il, i) /\ graph' = graph \ {o} /\ removed' = removed \cup {o}
      /\ first' = (IF prev[o] = Null THEN next[o] ELSE first) /\ last' = (IF next[o] = Null THEN prev[o] ELSE last)
      /\ next' = [x \in Instrs |-> IF x = prev[o] THEN next[o] ELSE next[x]]
      /\ prev' = [x \in Instrs |-> IF x = next[o] THEN prev[o] ELSE prev[x]]
      /\ half' = half
  BY DEF Remove
<1>4. il[i] = o
  BY <1>1 DEF At
<1> HIDE DEF i
<1>5. next' = NextWithout(il, i, next) /\ prev' = PrevWithout(il, i, prev)
  BY <1>1, <1>3 DEF NextWithout, PrevWithout
<1>6. first' = (IF i = 1 THEN At(il, 2) ELSE first) /\ last' = (IF i = Len(il) THEN At(il, i - 1) ELSE last)
  BY <1>1, <1>3
<1>7. LinksOf(il', first', last', half', next', prev')
  <2>1. LinksOf(DeleteAt(il, i), IF i = 1 THEN At(il, 2) ELSE first, IF i = Len(il) THEN At(il, i - 1) ELSE last, half,
                NextWithout(il, i, next), PrevWithout(il, i, prev))
    BY <1>1, <1>2, DeleteLinks
  <2> QED BY <1>3, <1>5, <1>6, <2>1
<1>8. il' \in Seq(Instrs) /\ Injective(il') /\ Range(il') \subseteq graph'
  BY <1>1, <1>2, <1>3, <1>4, DeleteAtFacts
<1>9. next' \in [Instrs -> Pointers] /\ prev' \in [Instrs -> Pointers]
  BY <1>1, <1>2, <1>3
<1>10. LinkTypes'
  BY <1>1, <1>2, <1>3, <1>8, <1>9 DEF LinkTypes
<1>11. WellLinked'
  BY <1>7, <1>8 DEF WellLinked, LinksOf
<1> QED BY <1>10, <1>11 DEF LinkInv

\* RemoveAll.
LEMMA RemoveAllKeeps ==
    ASSUME LinkInv, RemoveAll
    PROVE  LinkInv'
<1>1. /\ il \in Seq(Instrs) /\ next \in [Instrs -> Pointers] /\ prev \in [Instrs -> Pointers]
      /\ graph \subseteq Instrs /\ removed \subseteq Instrs /\ Range(il) \subseteq graph
  BY DEF LinkInv, LinkTypes, WellLinked
<1>2. il' = <<>> /\ first' = Null /\ last' = Null
  BY DEF RemoveAll
<1>3. next' \in [Instrs -> Pointers] /\ prev' \in [Instrs -> Pointers]
  BY <1>1 DEF RemoveAll, Pointers
<1>4. LinkTypes'
  BY <1>1, <1>2, <1>3 DEF LinkTypes, RemoveAll
<1>5. WellLinked'
  BY <1>2 DEF WellLinked, Injective, Range, At
<1> QED BY <1>4, <1>5 DEF LinkInv

\* The links of decoded code, and of a part of it.
LEMMA DecodedLinks ==
    ASSUME NEW s \in Seq(Instrs), Injective(s)
    PROVE  /\ NextIn(s) \in [Instrs -> Pointers] /\ PrevIn(s) \in [Instrs -> Pointers]
           /\ \A k \in 1 .. Len(s) : NextIn(s)[s[k]] = At(s, k + 1) /\ PrevIn(s)[s[k]] = At(s, k - 1)
<1>1. Len(s) \in Nat /\ \A j \in 1 .. Len(s) : s[j] \in Instrs /\ s[j] \in Pointers
  BY DEF Pointers
<1>2. \A j, k \in 1 .. Len(s) : s[j] = s[k] => j = k
  BY DEF Injective
<1>3. NextIn(s) \in [Instrs -> Pointers]
  <2> SUFFICES ASSUME NEW x \in Instrs PROVE NextIn(s)[x] \in Pointers
    BY DEF NextIn
  <2>1. CASE \E j \in 1 .. Len(s) - 1 : s[j] = x
    <3> DEFINE c == CHOOSE j \in 1 .. Len(s) - 1 : s[j] = x
    <3>1. c \in 1 .. Len(s) - 1
      BY <2>1
    <3>2. NextIn(s)[x] = s[1 + c]
      BY <2>1 DEF NextIn
    <3> HIDE DEF c
    <3> QED BY <1>1, <3>1, <3>2
  <2>2. CASE ~ \E j \in 1 .. Len(s) - 1 : s[j] = x
    BY <2>2 DEF NextIn, Pointers
  <2> QED BY <2>1, <2>2
<1>4. PrevIn(s) \in [Instrs -> Pointers]
  <2> SUFFICES ASSUME NEW x \in Instrs PROVE PrevIn(s)[x] \in Pointers
    BY DEF PrevIn
  <2>1. CASE \E j \in 2 .. Len(s) : s[j] = x
    <3> DEFINE c == CHOOSE j \in 2 .. Len(s) : s[j] = x
    <3>1. c \in 2 .. Len(s)
      BY <2>1
    <3>2. PrevIn(s)[x] = s[c - 1]
      BY <2>1 DEF PrevIn
    <3> HIDE DEF c
    <3> QED BY <1>1, <3>1, <3>2
  <2>2. CASE ~ \E j \in 2 .. Len(s) : s[j] = x
    BY <2>2 DEF PrevIn, Pointers
  <2> QED BY <2>1, <2>2
<1>5. ASSUME NEW k \in 1 .. Len(s) PROVE NextIn(s)[s[k]] = At(s, k + 1)
  <2>1. CASE k # Len(s)
    <3> DEFINE c == CHOOSE j \in 1 .. Len(s) - 1 : s[j] = s[k]
    <3>1. k \in 1 .. Len(s) - 1
      BY <1>1, <2>1
    <3>2. c \in 1 .. Len(s) - 1 /\ s[c] = s[k]
      BY <3>1
    <3>3. c = k
      BY <1>1, <1>2, <3>1, <3>2
    <3>4. NextIn(s)[s[k]] = s[1 + c]
      BY <1>1, <3>1 DEF NextIn
    <3> HIDE DEF c
    <3> QED BY <1>1, <3>1, <3>3, <3>4 DEF At
  <2>2. CASE k = Len(s)
    <3>1. ~ \E j \in 1 .. Len(s) - 1 : s[j] = s[k]
      BY <1>1, <1>2, <2>2
    <3>2. NextIn(s)[s[k]] = Null
      BY <1>1, <3>1 DEF NextIn
    <3> QED BY <1>1, <2>2, <3>2 DEF At
  <2> QED BY <2>1, <2>2
<1>6. ASSUME NEW k \in 1 .. Len(s) PROVE PrevIn(s)[s[k]] = At(s, k - 1)
  <2>1. CASE k # 1
    <3> DEFINE c == CHOOSE j \in 2 .. Len(s) : s[j] = s[k]
    <3>1. k \in 2 .. Len(s)
      BY <1>1, <2>1
    <3>2. c \in 2 .. Len(s) /\ s[c] = s[k]
      BY <3>1
    <3>3. c = k
      BY <1>1, <1>2, <3>1, <3>2
    <3>4. PrevIn(s)[s[k]] = s[c - 1]
      BY <1>1, <3>1 DEF PrevIn
    <3> HIDE DEF c
    <3> QED BY <1>1, <3>1, <3>3, <3>4 DEF At
  <2>2. CASE k = 1
    <3>1. ~ \E j \in 2 .. Len(s) : s[j] = s[k]
      BY <1>1, <1>2, <2>2
    <3>2. PrevIn(s)[s[k]] = Null
      BY <1>1, <3>1 DEF PrevIn
    <3> QED BY <1>1, <2>2, <3>2 DEF At
  <2> QED BY <2>1, <2>2
<1> QED BY <1>3, <1>4, <1>5, <1>6

\* A part of decoded code.
LEMMA PrefixFacts ==
    ASSUME NEW s \in Seq(Instrs), Injective(s), NEW k \in 0 .. Len(s)
    PROVE  /\ Prefix(s, k) \in Seq(Instrs) /\ Injective(Prefix(s, k)) /\ Len(Prefix(s, k)) = k
           /\ \A i \in 1 .. k : Prefix(s, k)[i] = s[i]
           /\ Range(Prefix(s, k)) \subseteq Range(s)
<1> DEFINE t == Prefix(s, k)
<1>1. Len(s) \in Nat /\ k \in Nat /\ 1 .. k \subseteq 1 .. Len(s)
  OBVIOUS
<1>2. t \in Seq(Instrs) /\ Len(t) = k /\ \A i \in 1 .. k : t[i] = s[i]
  BY <1>1 DEF Prefix
<1> HIDE DEF t
<1>3. Injective(t) /\ Range(t) \subseteq Range(s)
  BY <1>1, <1>2 DEF Injective, Range
<1> QED BY <1>2, <1>3 DEF t

\* CreateBaseline, as far as its decoding comes.
LEMMA DecodeKeeps ==
    ASSUME LinkInv, NEW s \in Seq(Instrs), Injective(s), NEW found, Decode(s, found),
           last' = At(s, Len(s)) \/ (half' /\ last' = Null)
    PROVE  LinkInv'
<1>2. /\ NextIn(s) \in [Instrs -> Pointers] /\ PrevIn(s) \in [Instrs -> Pointers]
      /\ \A k \in 1 .. Len(s) : NextIn(s)[s[k]] = At(s, k + 1) /\ PrevIn(s)[s[k]] = At(s, k - 1)
  BY DecodedLinks
<1>3. /\ il \in Seq(Instrs) /\ next \in [Instrs -> Pointers] /\ prev \in [Instrs -> Pointers]
      /\ graph \subseteq Instrs /\ removed \subseteq Instrs /\ Range(il) \subseteq graph
  BY DEF LinkInv, LinkTypes, WellLinked
<1>4. /\ il' = s /\ first' = At(s, 1)
      /\ removed' = removed \cup Range(il) /\ graph' = (graph \ Range(il)) \cup Range(s)
  BY DEF Decode
<1>5. /\ next' = [x \in Instrs |-> IF x \in Range(s) THEN NextIn(s)[x] ELSE IF x \in Range(il) THEN Null ELSE next[x]]
      /\ prev' = [x \in Instrs |-> IF x \in Range(s) THEN PrevIn(s)[x] ELSE IF x \in Range(il) THEN Null ELSE prev[x]]
  BY DEF Decode
<1>6. Len(s) \in Nat /\ \A j \in 1 .. Len(s) : s[j] \in Range(s) /\ s[j] \in Instrs
  BY DEF Range
<1>7. Range(s) \subseteq Instrs
  BY DEF Range
<1>8. next' \in [Instrs -> Pointers] /\ prev' \in [Instrs -> Pointers]
  BY <1>2, <1>3, <1>5 DEF Pointers
<1>9. LinkTypes'
  BY <1>3, <1>4, <1>7, <1>8 DEF LinkTypes
<1>10. \A j \in 1 .. Len(s) : next'[s[j]] = NextIn(s)[s[j]] /\ prev'[s[j]] = PrevIn(s)[s[j]]
  BY <1>5, <1>6
<1>11. LinksOf(il', first', last', half', next', prev')
  BY <1>2, <1>4, <1>10 DEF LinksOf
<1>12. WellLinked'
  BY <1>4, <1>11 DEF WellLinked, LinksOf
<1> QED BY <1>9, <1>12 DEF LinkInv

\* What CreateBaseline decodes, whether it fails or not.
LEMMA BaselineDecoded ==
    ASSUME \/ CreateBaseline
           \/ \E k \in 0 .. Len(BaselineCode) : FirstPassFails(k)
           \/ \E k \in {k \in 1 .. Len(BaselineCode) : BaselineCode[k] \in Jumps} :
                \E n \in 0 .. Len(DecodedTargets[BaselineCode[k]]) - 1 : SecondPassFails(k, n)
    PROVE  \E k \in 0 .. Len(BaselineCode), found \in [Jumps -> Nat] :
                /\ Decode(Prefix(BaselineCode, k), found)
                /\ \A j \in Jumps : found[j] <= Len(DecodedTargets[j])
                /\ last' = At(Prefix(BaselineCode, k), k) \/ (half' /\ last' = Null)
                /\ stale' \in {stale, FALSE}
<1> DEFINE B == BaselineCode
<1>1. B \in Seq(Instrs) /\ Len(B) \in Nat /\ Len(B) > 0 /\ Injective(B)
  BY CodeAssumption
<1>2. Prefix(B, Len(B)) = B
  BY <1>1 DEF Prefix
<1>3. \A j \in Jumps : Len(DecodedTargets[j]) \in Nat
  BY JumpsAssumption
<1> HIDE DEF B
<1>4. CASE CreateBaseline
  <2> DEFINE found == [j \in Jumps |-> Len(DecodedTargets[j])]
  <2>1. found \in [Jumps -> Nat] /\ \A j \in Jumps : found[j] <= Len(DecodedTargets[j])
    BY <1>3
  <2>2. Decode(B, found) /\ last' = B[Len(B)]
    BY <1>4 DEF CreateBaseline, B
  <2>3. stale' \in {stale, FALSE}
    BY <1>4 DEF CreateBaseline
  <2> HIDE DEF found
  <2>4. last' = At(B, Len(B))
    BY <1>1, <2>2 DEF At
  <2>5. Len(B) \in 0 .. Len(B)
    BY <1>1
  <2> QED BY <1>2, <2>1, <2>2, <2>3, <2>4, <2>5 DEF B
<1>5. ASSUME NEW k \in 0 .. Len(B), FirstPassFails(k)
      PROVE  \E found \in [Jumps -> Nat] : /\ Decode(Prefix(B, k), found) /\ (\A j \in Jumps : found[j] <= Len(DecodedTargets[j]))
                                           /\ half' /\ last' = Null /\ stale' \in {stale, FALSE}
  <2> DEFINE found == [j \in Jumps |-> 0]
  <2>1. found \in [Jumps -> Nat] /\ \A j \in Jumps : found[j] <= Len(DecodedTargets[j])
    BY <1>3
  <2>2. Decode(Prefix(B, k), found) /\ last' = Null /\ half' = TRUE /\ stale' = stale
    BY <1>5 DEF FirstPassFails, B
  <2> HIDE DEF found
  <2> QED BY <2>1, <2>2
<1>6. ASSUME NEW k \in 1 .. Len(B), B[k] \in Jumps, NEW n \in 0 .. Len(DecodedTargets[B[k]]) - 1, SecondPassFails(k, n)
      PROVE  \E found \in [Jumps -> Nat] : /\ Decode(B, found) /\ (\A j \in Jumps : found[j] <= Len(DecodedTargets[j]))
                                           /\ half' /\ last' = Null /\ stale' \in {stale, FALSE}
  <2> DEFINE found == [j \in Jumps |-> IF j = B[k] THEN n
                                       ELSE IF j \in Range(Prefix(B, k)) THEN 0 ELSE Len(DecodedTargets[j])]
  <2>1. n \in Nat /\ n <= Len(DecodedTargets[B[k]])
    BY <1>3, <1>6
  <2>2. found \in [Jumps -> Nat] /\ \A j \in Jumps : found[j] <= Len(DecodedTargets[j])
    BY <1>3, <2>1
  <2>3. Decode(B, found) /\ last' = Null /\ half' = TRUE /\ stale' = FALSE
    BY <1>6 DEF SecondPassFails, B
  <2> HIDE DEF found
  <2> QED BY <2>2, <2>3
<1>7. Len(B) \in 0 .. Len(B)
  BY <1>1
<1> QED BY <1>2, <1>4, <1>5, <1>6, <1>7 DEF B

\* CreateBaseline, whether it fails or not.
LEMMA CreateBaselineKeeps ==
    ASSUME LinkInv, NEW k \in 0 .. Len(BaselineCode), NEW found, Decode(Prefix(BaselineCode, k), found),
           last' = At(Prefix(BaselineCode, k), k) \/ (half' /\ last' = Null)
    PROVE  LinkInv'
<1>1. BaselineCode \in Seq(Instrs) /\ Injective(BaselineCode)
  BY CodeAssumption
<1>2. /\ Prefix(BaselineCode, k) \in Seq(Instrs) /\ Injective(Prefix(BaselineCode, k))
      /\ Len(Prefix(BaselineCode, k)) = k
  BY <1>1, PrefixFacts
<1> QED BY <1>2, DecodeKeeps

-----------------------------------------------------------------------------
\* The method as it was decoded is well linked.
LEMMA InitLinked == Init => LinkInv
<1> SUFFICES ASSUME Init PROVE LinkInv
  OBVIOUS
<1>1. Original \in Seq(Instrs) /\ Injective(Original) /\ Len(Original) > 0
  BY CodeAssumption
<1>2. /\ NextIn(Original) \in [Instrs -> Pointers] /\ PrevIn(Original) \in [Instrs -> Pointers]
      /\ \A k \in 1 .. Len(Original) :
            NextIn(Original)[Original[k]] = At(Original, k + 1) /\ PrevIn(Original)[Original[k]] = At(Original, k - 1)
  BY <1>1, DecodedLinks
<1>3. /\ il = Original /\ graph = Range(Original) /\ removed = {}
      /\ first = Original[1] /\ last = Original[Len(Original)]
      /\ next = NextIn(Original) /\ prev = PrevIn(Original)
  BY DEF Init
<1>4. LinkTypes
  BY <1>1, <1>2, <1>3 DEF LinkTypes, Range
<1>5. first = At(il, 1) /\ last = At(il, Len(il))
  BY <1>1, <1>3 DEF At
<1>6. WellLinked
  BY <1>1, <1>2, <1>3, <1>5 DEF WellLinked
<1> QED BY <1>4, <1>6 DEF LinkInv

\* Every call keeps the links.
LEMMA NextLinked == LinkInv /\ [Next]_vars => LinkInv'
<1> SUFFICES ASSUME LinkInv, [Next]_vars PROVE LinkInv'
  OBVIOUS
<1>1. ASSUME UNCHANGED links, half' = half PROVE LinkInv'
  BY <1>1 DEF LinkInv, LinkTypes, WellLinked, links
<1>2. CASE EditLinks
  <2>1. ASSUME NEW n \in Instrs, Insertable(n), InsertFirst(n) PROVE LinkInv'
    BY <2>1, InsertFirstKeeps
  <2>2. ASSUME NEW n \in Instrs, Insertable(n), NEW o \in New \cup removed, InsertAfterRefused(o, n) PROVE LinkInv'
    BY <2>2, InsertAfterRefusedKeeps
  <2>3. ASSUME NEW o \in Range(il), NEW n \in Instrs, Insertable(n), InsertBefore(o, n) PROVE LinkInv'
    BY <2>3, LinkBeforeKeeps DEF InsertBefore
  <2>4. ASSUME NEW o \in Range(il), NEW n \in Instrs, Insertable(n), InsertAfter(o, n) PROVE LinkInv'
    BY <2>4, InsertAfterKeeps
  <2>5. ASSUME NEW o \in Range(il), NEW n \in Instrs, Insertable(n), InsertBeforeAndRetargetOffsets(o, n) PROVE LinkInv'
    BY <2>5, LinkBeforeKeeps DEF InsertBeforeAndRetargetOffsets
  <2>6. ASSUME NEW o \in Range(il), NEW n \in Instrs, Insertable(n), Replace(o, n) PROVE LinkInv'
    BY <2>6, ReplaceKeeps
  <2>7. ASSUME NEW o \in Range(il), Remove(o) PROVE LinkInv'
    BY <2>7, RemoveKeeps
  <2>8. CASE RemoveAll
    BY <2>8, RemoveAllKeeps
  <2>9. CASE CreateBaseline \/ (\E k \in 0 .. Len(BaselineCode) : FirstPassFails(k))
             \/ \E k \in {k \in 1 .. Len(BaselineCode) : BaselineCode[k] \in Jumps} :
                    \E n \in 0 .. Len(DecodedTargets[BaselineCode[k]]) - 1 : SecondPassFails(k, n)
    BY <2>9, BaselineDecoded, CreateBaselineKeeps
  <2>10. CASE DisableCreateBaseline
    BY <1>1, <2>10 DEF DisableCreateBaseline
  <2> QED BY <1>2, <2>1, <2>2, <2>3, <2>4, <2>5, <2>6, <2>7, <2>8, <2>9, <2>10 DEF EditLinks
<1>3. CASE EditJumpsAndClauses
  BY <1>1, <1>3 DEF EditJumpsAndClauses, ExpandBranches, ExpandBranch, SetBranchTarget, RemoveBranchTargetAt,
     ReplaceBranchTarget,
     AddNewExceptionClause, RemoveExceptionClause, RemoveAllExceptionClauses, AddExceptionClause, SetInstruction
<1>4. CASE RefreshInstructions \/ EncodeIL
  BY <1>1, <1>4 DEF RefreshInstructions, EncodeIL
<1>5. CASE UNCHANGED vars
  BY <1>1, <1>5 DEF vars
<1> QED BY <1>2, <1>3, <1>4, <1>5 DEF Next

\* For every method, baseline and supply of new instructions, and after any sequence of insertions, replacements and
\* removals, the links of CInstructionGraph represent exactly the instructions that the calls left in the method.
THEOREM LinksRepresentTheMethod == Spec => []WellLinked
<1>1. Spec => []LinkInv
  BY InitLinked, NextLinked, PTL DEF Spec
<1>2. LinkInv => WellLinked
  BY DEF LinkInv
<1> QED BY <1>1, <1>2, PTL

-----------------------------------------------------------------------------
(* Branches and the infos of their targets. *)

\* The types of the jumps. A branch has one target.
JumpTypes ==
    /\ targets \in [Jumps -> Seq(Pointers)]
    /\ \A b \in Branches : Len(targets[b]) = 1
    /\ branchesOf \in [Instrs -> SUBSET Jumps]

\* Until CreateBaseline decodes it, nothing of a baseline is in the method and its branches lead nowhere.
BaselineUnmade ==
    baseline = "allowed" =>
        /\ Range(BaselineCode) \cap (graph \cup removed) = {}
        /\ \A b \in Branches \cap Range(BaselineCode) : targets[b][1] = Null

JumpInv == JumpTypes /\ BranchesTracked /\ BaselineUnmade

\* Every branch and every switch is an instruction.
LEMMA JumpFacts ==
    /\ Jumps \subseteq Instrs /\ Branches \subseteq Jumps /\ Null \notin Instrs
    /\ DecodedTargets \in [Jumps -> Seq(Pointers)]
    /\ \A b \in Branches : Len(DecodedTargets[b]) = 1
  BY CodeAssumption, JumpsAssumption DEF Jumps

\* CBranchTargetInfo::Retarget.
LEMMA RetargetTracks ==
    ASSUME JumpInv, NEW o \in Instrs, NEW n \in Instrs, o # n, RetargetBranches(o, n)
    PROVE  /\ JumpTypes' /\ BranchesTracked'
           /\ \A b \in Branches : targets[b][1] = Null => targets'[b][1] = Null
<1> USE JumpFacts
<1> DEFINE M == Moved(o, n)
<1>1. /\ targets \in [Jumps -> Seq(Pointers)] /\ branchesOf \in [Instrs -> SUBSET Jumps]
      /\ \A b \in Branches : Len(targets[b]) = 1
      /\ \A b \in Branches, x \in Instrs : b \in branchesOf[x] <=> targets[b][1] = x
  BY DEF JumpInv, JumpTypes, BranchesTracked
<1>2. M \subseteq branchesOf[o] /\ M \subseteq Jumps
  BY <1>1 DEF Moved
<1>3. targets' = [j \in Jumps |-> IF j \in M
                        THEN [i \in 1 .. Len(targets[j]) |->
                                IF j \in Branches \/ targets[j][i] = o THEN n ELSE targets[j][i]]
                        ELSE targets[j]]
  BY DEF RetargetBranches
<1>4. branchesOf' = [x \in Instrs |->
            IF x = o THEN branchesOf[o] \ M
            ELSE IF x = n THEN branchesOf[n] \cup {j \in M : j \in Branches \/ o \in Range(targets[j])}
            ELSE branchesOf[x]]
  BY DEF RetargetBranches
<1> HIDE DEF M
<1>5. \A j \in Jumps : targets'[j] \in Seq(Pointers) /\ Len(targets'[j]) = Len(targets[j])
  <2> SUFFICES ASSUME NEW j \in Jumps PROVE targets'[j] \in Seq(Pointers) /\ Len(targets'[j]) = Len(targets[j])
    OBVIOUS
  <2>1. targets[j] \in Seq(Pointers) /\ Len(targets[j]) \in Nat
    BY <1>1
  <2>2. \A i \in 1 .. Len(targets[j]) : targets[j][i] \in Pointers
    BY <2>1
  <2>3. n \in Pointers
    BY DEF Pointers
  <2>4. CASE j \in M
    <3>1. targets'[j] = [i \in 1 .. Len(targets[j]) |-> IF j \in Branches \/ targets[j][i] = o THEN n ELSE targets[j][i]]
      BY <1>3, <2>4
    <3> QED BY <2>1, <2>2, <2>3, <3>1
  <2>5. CASE j \notin M
    BY <1>3, <2>1, <2>5
  <2> QED BY <2>4, <2>5
<1>6. \A b \in Branches : targets'[b][1] = IF b \in M THEN n ELSE targets[b][1]
  BY <1>1, <1>3
<1>7. branchesOf' \in [Instrs -> SUBSET Jumps]
  BY <1>1, <1>2, <1>4
<1>8. targets' \in [Jumps -> Seq(Pointers)]
  BY <1>3, <1>5
<1>9. JumpTypes'
  BY <1>1, <1>5, <1>7, <1>8 DEF JumpTypes
<1>10. BranchesTracked'
  <2> SUFFICES ASSUME NEW b \in Branches, NEW x \in Instrs PROVE b \in branchesOf'[x] <=> targets'[b][1] = x
    BY DEF BranchesTracked
  <2>1. CASE b \in M
    <3>1. targets[b][1] = o
      BY <1>1, <1>2, <2>1
    <3> QED BY <1>1, <1>4, <1>6, <2>1, <3>1
  <2>2. CASE b \notin M
    BY <1>1, <1>4, <1>6, <2>2
  <2> QED BY <2>1, <2>2
<1>11. \A b \in Branches : targets[b][1] = Null => b \notin M
  BY <1>1, <1>2
<1> QED BY <1>6, <1>9, <1>10, <1>11

\* SetBranchTarget.
LEMMA SetBranchTargetTracks ==
    ASSUME JumpInv, NEW j \in Jumps \cap Made, NEW t \in Instrs, NEW i \in 1 .. Len(targets[j]), SetBranchTarget(j, i, t)
    PROVE  JumpInv'
<1> USE JumpFacts
<1>1. /\ targets \in [Jumps -> Seq(Pointers)] /\ branchesOf \in [Instrs -> SUBSET Jumps]
      /\ \A b \in Branches : Len(targets[b]) = 1
      /\ \A b \in Branches, x \in Instrs : b \in branchesOf[x] <=> targets[b][1] = x
  BY DEF JumpInv, JumpTypes, BranchesTracked
<1>2. /\ targets' = [targets EXCEPT ![j][i] = t]
      /\ branchesOf' = Tracked(j, targets[j][i], t)
      /\ graph' = graph /\ removed' = removed /\ baseline' = baseline
  BY DEF SetBranchTarget, links
<1>3. targets[j] \in Seq(Pointers) /\ t \in Pointers
  BY <1>1 DEF Pointers
<1>4. targets' = [targets EXCEPT ![j] = [targets[j] EXCEPT ![i] = t]]
  BY <1>2
<1>5. [targets[j] EXCEPT ![i] = t] \in Seq(Pointers) /\ Len([targets[j] EXCEPT ![i] = t]) = Len(targets[j])
  BY <1>3
<1>6. targets' \in [Jumps -> Seq(Pointers)] /\ \A b \in Branches : Len(targets'[b]) = 1
  BY <1>1, <1>4, <1>5
<1>7. branchesOf' \in [Instrs -> SUBSET Jumps]
  BY <1>1, <1>2 DEF Tracked
<1>8. BranchesTracked'
  <2> SUFFICES ASSUME NEW b \in Branches, NEW x \in Instrs PROVE b \in branchesOf'[x] <=> targets'[b][1] = x
    BY DEF BranchesTracked
  <2>1. CASE b = j
    <3>1. i = 1
      <4>1. Len(targets[j]) = 1 /\ i \in 1 .. Len(targets[j])
        BY <1>1, <2>1
      <4> QED BY <4>1
    <3>2. targets'[b][1] = t
      BY <1>1, <1>3, <1>4, <2>1, <3>1
    <3> QED BY <1>1, <1>2, <2>1, <3>1, <3>2 DEF Tracked
  <2>2. CASE b # j
    <3>1. targets'[b] = targets[b]
      BY <1>1, <1>4, <2>2
    <3> QED BY <1>1, <1>2, <2>2, <3>1 DEF Tracked
  <2> QED BY <2>1, <2>2
<1>9. BaselineUnmade'
  <2> SUFFICES ASSUME baseline = "allowed"
               PROVE  /\ Range(BaselineCode) \cap (graph \cup removed) = {}
                      /\ \A b \in Branches \cap Range(BaselineCode) : targets'[b][1] = Null
    BY <1>2 DEF BaselineUnmade
  <2>1. /\ Range(BaselineCode) \cap (graph \cup removed) = {}
        /\ \A b \in Branches \cap Range(BaselineCode) : targets[b][1] = Null
    BY DEF JumpInv, BaselineUnmade
  <2>2. j \notin Range(BaselineCode)
    BY <2>1, CodeAssumption DEF Made
  <2>3. \A b \in Branches \cap Range(BaselineCode) : targets'[b] = targets[b]
    BY <1>1, <1>4, <2>2
  <2> QED BY <2>1, <2>3
<1> QED BY <1>6, <1>7, <1>8, <1>9 DEF JumpInv, JumpTypes

\* RemoveBranchTargetAt changes no branch.
LEMMA RemoveBranchTargetAtTracks ==
    ASSUME JumpInv, NEW s \in Switches, NEW i \in 1 .. Len(targets[s]), RemoveBranchTargetAt(s, i)
    PROVE  JumpInv'
<1> USE JumpFacts
<1>1. /\ targets \in [Jumps -> Seq(Pointers)] /\ branchesOf \in [Instrs -> SUBSET Jumps]
      /\ s \in Jumps /\ s \notin Branches
  BY JumpsAssumption DEF JumpInv, JumpTypes, Jumps
<1>2. /\ targets' = [targets EXCEPT ![s] = DeleteAt(targets[s], i)]
      /\ graph' = graph /\ removed' = removed /\ baseline' = baseline /\ branchesOf' = branchesOf
  BY DEF RemoveBranchTargetAt, links
<1>3. targets[s] \in Seq(Pointers) /\ Len(targets[s]) \in Nat
  BY <1>1
<1>4. DeleteAt(targets[s], i) \in Seq(Pointers)
  BY <1>3 DEF DeleteAt
<1>5. targets' \in [Jumps -> Seq(Pointers)] /\ \A b \in Branches : targets'[b] = targets[b]
  BY <1>1, <1>2, <1>4
<1>6. JumpTypes'
  BY <1>2, <1>5 DEF JumpInv, JumpTypes
<1>7. BranchesTracked'
  BY <1>2, <1>5 DEF JumpInv, BranchesTracked
<1>8. BaselineUnmade'
  BY <1>2, <1>5 DEF JumpInv, BaselineUnmade
<1> QED BY <1>6, <1>7, <1>8 DEF JumpInv

\* ReplaceBranchTarget of a switch moves no branch.
LEMMA ReplaceBranchTargetTracks ==
    ASSUME JumpInv, NEW s \in Switches, NEW o \in Instrs, NEW t \in Instrs, ReplaceBranchTarget(s, o, t)
    PROVE  JumpInv'
<1> USE JumpFacts
<1> DEFINE new == [i \in 1 .. Len(targets[s]) |-> IF targets[s][i] = o THEN t ELSE targets[s][i]]
<1>1. /\ targets \in [Jumps -> Seq(Pointers)] /\ branchesOf \in [Instrs -> SUBSET Jumps]
      /\ s \in Jumps /\ s \notin Branches /\ t \in Pointers
  BY JumpsAssumption DEF JumpInv, JumpTypes, Jumps, Pointers
<1>2. /\ targets' = [targets EXCEPT ![s] = new]
      /\ graph' = graph /\ removed' = removed /\ baseline' = baseline
      /\ branchesOf' = IF o \in Range(targets[s]) THEN Tracked(s, o, t) ELSE branchesOf
  BY DEF ReplaceBranchTarget, links
<1>3. targets[s] \in Seq(Pointers) /\ Len(targets[s]) \in Nat
  BY <1>1
<1>4. new \in Seq(Pointers)
  BY <1>1, <1>3
<1>5. targets' \in [Jumps -> Seq(Pointers)] /\ \A b \in Branches : targets'[b] = targets[b]
  <2> HIDE DEF new
  <2> QED BY <1>1, <1>2, <1>4
<1>6. /\ branchesOf' \in [Instrs -> SUBSET Jumps]
      /\ \A b \in Branches, x \in Instrs : b \in branchesOf'[x] <=> b \in branchesOf[x]
  BY <1>1, <1>2 DEF Tracked
<1>7. JumpTypes'
  BY <1>2, <1>5, <1>6 DEF JumpInv, JumpTypes
<1>8. BranchesTracked'
  <2> HIDE DEF new
  <2>1. SUFFICES ASSUME NEW b \in Branches, NEW x \in Instrs
                 PROVE  b \in branchesOf'[x] <=> targets'[b][1] = x
    BY Zenon DEF BranchesTracked
  <2>2. b \in branchesOf[x] <=> targets[b][1] = x
    BY DEF JumpInv, BranchesTracked
  <2>3. targets'[b] = targets[b] /\ (b \in branchesOf'[x] <=> b \in branchesOf[x])
    BY <1>5, <1>6
  <2> QED BY <2>2, <2>3
<1>9. BaselineUnmade'
  BY <1>2, <1>5 DEF JumpInv, BaselineUnmade
<1> QED BY <1>7, <1>8, <1>9 DEF JumpInv

\* CreateBaseline, whether it fails or not: no branch of the baseline leads anywhere before.
LEMMA CreateBaselineTracks ==
    ASSUME JumpInv, NEW k \in 0 .. Len(BaselineCode), NEW found \in [Jumps -> Nat], Decode(Prefix(BaselineCode, k), found),
           \A j \in Jumps : found[j] <= Len(DecodedTargets[j])
    PROVE  JumpInv'
<1> USE JumpFacts
<1> DEFINE B == Range(Prefix(BaselineCode, k))
           Found(j) == [i \in 1 .. Len(DecodedTargets[j]) |-> IF i <= found[j] THEN DecodedTargets[j][i] ELSE Null]
<1>1. B \subseteq Range(BaselineCode)
  BY CodeAssumption, PrefixFacts
<1>2. /\ targets \in [Jumps -> Seq(Pointers)] /\ branchesOf \in [Instrs -> SUBSET Jumps]
      /\ \A b \in Branches : Len(targets[b]) = 1
      /\ \A b \in Branches, x \in Instrs : b \in branchesOf[x] <=> targets[b][1] = x
      /\ \A b \in Branches \cap B : targets[b][1] = Null
  BY <1>1 DEF JumpInv, JumpTypes, BranchesTracked, BaselineUnmade, Decode
<1>3. /\ targets' = [j \in Jumps |-> IF j \in B THEN Found(j) ELSE targets[j]]
      /\ branchesOf' = [x \in Instrs |-> branchesOf[x] \cup
            {j \in Jumps \cap B : \E i \in 1 .. found[j] : DecodedTargets[j][i] = x}]
      /\ baseline' = "set"
  BY DEF Decode, DecodedJumps
<1>4. \A j \in Jumps : Found(j) \in Seq(Pointers) /\ Len(Found(j)) = Len(DecodedTargets[j])
  <2> TAKE j \in Jumps
  <2>1. DecodedTargets[j] \in Seq(Pointers) /\ Null \in Pointers
    BY DEF Pointers
  <2> QED BY <2>1
<1>5. \A b \in Branches : Found(b)[1] = IF found[b] = 1 THEN DecodedTargets[b][1] ELSE Null
  <2> TAKE b \in Branches
  <2>1. Len(DecodedTargets[b]) = 1 /\ b \in Jumps
    BY JumpsAssumption
  <2>2. found[b] \in Nat /\ found[b] <= 1
    BY <2>1
  <2> QED BY <2>1, <2>2
<1> HIDE DEF B, Found
<1>6. JumpTypes'
  BY <1>2, <1>3, <1>4 DEF JumpTypes
<1>7. BranchesTracked'
  <2> SUFFICES ASSUME NEW b \in Branches, NEW x \in Instrs PROVE b \in branchesOf'[x] <=> targets'[b][1] = x
    BY DEF BranchesTracked
  <2>1. CASE b \in B
    <3>1. targets'[b] = Found(b) /\ b \notin branchesOf[x]
      BY <1>2, <1>3, <2>1
    <3>2. b \in branchesOf'[x] <=> \E i \in 1 .. found[b] : DecodedTargets[b][i] = x
      BY <1>3, <2>1, <3>1
    <3>3. found[b] = 0 \/ found[b] = 1
      <4>1. Len(DecodedTargets[b]) = 1 /\ b \in Jumps
        BY JumpsAssumption
      <4>2. found[b] \in Nat /\ found[b] <= 1
        BY <4>1
      <4> QED BY <4>2
    <3>4. CASE found[b] = 0
      BY <1>5, <3>1, <3>2, <3>4
    <3>5. CASE found[b] = 1
      BY <1>5, <3>1, <3>2, <3>5
    <3> QED BY <3>3, <3>4, <3>5
  <2>2. CASE b \notin B
    BY <1>2, <1>3, <2>2
  <2> QED BY <2>1, <2>2
<1>8. BaselineUnmade'
  BY <1>3 DEF BaselineUnmade
<1> QED BY <1>6, <1>7, <1>8 DEF JumpInv

\* The decoded method: what the factory has made and what a baseline will make leads nowhere.
LEMMA InitTracked == Init => JumpInv
<1> USE JumpFacts
<1> SUFFICES ASSUME Init PROVE JumpInv
  OBVIOUS
<1> DEFINE O == Range(Original)
<1>1. /\ targets = [j \in Jumps |-> IF j \in O THEN DecodedTargets[j] ELSE [i \in 1 .. Len(DecodedTargets[j]) |-> Null]]
      /\ branchesOf = [x \in Instrs |-> {j \in Jumps \cap O : x \in Range(DecodedTargets[j])}]
      /\ graph = O /\ removed = {}
  BY DEF Init
<1>2. O \cap Range(BaselineCode) = {}
  BY CodeAssumption
<1> HIDE DEF O
<1>3. \A j \in Jumps : Len(DecodedTargets[j]) \in Nat
  OBVIOUS
<1>4. \A j \in Jumps : /\ [i \in 1 .. Len(DecodedTargets[j]) |-> Null] \in Seq(Pointers)
                       /\ Len([i \in 1 .. Len(DecodedTargets[j]) |-> Null]) = Len(DecodedTargets[j])
  BY <1>3 DEF Pointers
<1>5. targets \in [Jumps -> Seq(Pointers)] /\ \A b \in Branches : Len(targets[b]) = 1
  BY <1>1, <1>4
<1>6. JumpTypes
  BY <1>1, <1>5 DEF JumpTypes
<1>7. \A b \in Branches : Range(DecodedTargets[b]) = {DecodedTargets[b][1]}
  BY DEF Range
<1>8. \A b \in Branches : targets[b][1] = IF b \in O THEN DecodedTargets[b][1] ELSE Null
  <2> SUFFICES ASSUME NEW b \in Branches, b \notin O PROVE targets[b][1] = Null
    BY <1>1
  <2>1. targets[b] = [i \in 1 .. Len(DecodedTargets[b]) |-> Null] /\ Len(DecodedTargets[b]) = 1
    BY <1>1
  <2>2. 1 \in 1 .. Len(DecodedTargets[b])
    BY <2>1
  <2> QED BY <2>1, <2>2
<1>9. BranchesTracked
  BY <1>1, <1>7, <1>8 DEF BranchesTracked
<1>10. BaselineUnmade
  BY <1>1, <1>2, <1>8 DEF BaselineUnmade
<1> QED BY <1>6, <1>9, <1>10 DEF JumpInv

\* The calls that leave the jumps alone, and put nothing of a baseline into the method.
LEMMA JumpsUnchanged ==
    ASSUME JumpInv, UNCHANGED jumps, baseline' = "allowed" => baseline = "allowed",
           Range(BaselineCode) \cap (graph \cup removed) = {} => Range(BaselineCode) \cap (graph' \cup removed') = {}
    PROVE  JumpInv'
<1>1. targets' = targets /\ branchesOf' = branchesOf
  BY DEF jumps
<1>2. JumpTypes' /\ BranchesTracked'
  BY <1>1 DEF JumpInv, JumpTypes, BranchesTracked
<1>3. BaselineUnmade'
  BY <1>1 DEF JumpInv, BaselineUnmade
<1> QED BY <1>2, <1>3 DEF JumpInv

\* Every call keeps the infos of the branches' targets.
LEMMA NextTracked == LinkInv /\ JumpInv /\ [Next]_vars => JumpInv'
<1> SUFFICES ASSUME LinkInv, JumpInv, [Next]_vars PROVE JumpInv'
  OBVIOUS
<1>1. /\ Range(il) \subseteq graph /\ graph \subseteq Instrs
      /\ Range(BaselineCode) \cap New = {}
  BY CodeAssumption DEF LinkInv, LinkTypes, WellLinked
<1>2. ASSUME UNCHANGED <<links, jumps, baseline>> PROVE JumpInv'
  BY <1>2, JumpsUnchanged DEF links
<1>3. ASSUME NEW n \in Instrs, Insertable(n)
      PROVE  n \notin graph /\ n \in New \cup removed
  BY <1>3 DEF Insertable
<1>4. CASE EditLinks
  <2>1. ASSUME NEW n \in Instrs, Insertable(n), InsertFirst(n) PROVE JumpInv'
    BY <1>1, <1>3, <2>1, JumpsUnchanged DEF InsertFirst
  <2>2. ASSUME NEW n \in Instrs, Insertable(n), NEW o \in New \cup removed, InsertAfterRefused(o, n) PROVE JumpInv'
    BY <1>1, <1>3, <2>2, JumpsUnchanged DEF InsertAfterRefused
  <2>3. ASSUME NEW o \in Range(il), NEW n \in Instrs, Insertable(n), InsertBefore(o, n) PROVE JumpInv'
    BY <1>1, <1>3, <2>3, JumpsUnchanged DEF InsertBefore, LinkBefore
  <2>4. ASSUME NEW o \in Range(il), NEW n \in Instrs, Insertable(n), InsertAfter(o, n) PROVE JumpInv'
    BY <1>1, <1>3, <2>4, JumpsUnchanged DEF InsertAfter
  <2>5. ASSUME NEW o \in Range(il), NEW n \in Instrs, Insertable(n), RetargetBranches(o, n), baseline' = baseline,
               graph' \subseteq graph \cup {n}, removed' \subseteq removed \cup {o}
        PROVE  JumpInv'
    <3>1. o \in Instrs /\ o # n /\ o \in graph
      BY <1>1, <1>3, <2>5
    <3>2. /\ JumpTypes' /\ BranchesTracked'
          /\ \A b \in Branches : targets[b][1] = Null => targets'[b][1] = Null
      BY <2>5, <3>1, RetargetTracks
    <3>3. BaselineUnmade'
      BY <1>1, <1>3, <2>5, <3>1, <3>2 DEF JumpInv, BaselineUnmade
    <3> QED BY <3>2, <3>3 DEF JumpInv
  <2>6. ASSUME NEW o \in Range(il), NEW n \in Instrs, Insertable(n), InsertBeforeAndRetargetOffsets(o, n) PROVE JumpInv'
    BY <2>5, <2>6 DEF InsertBeforeAndRetargetOffsets, LinkBefore
  <2>7. ASSUME NEW o \in Range(il), NEW n \in Instrs, Insertable(n), Replace(o, n) PROVE JumpInv'
    BY <2>5, <2>7 DEF Replace
  <2>8. ASSUME NEW o \in Range(il), Remove(o) PROVE JumpInv'
    BY <1>1, <2>8, JumpsUnchanged DEF Remove
  <2>9. CASE RemoveAll
    BY <1>1, <2>9, JumpsUnchanged DEF RemoveAll
  <2>10. CASE CreateBaseline \/ (\E k \in 0 .. Len(BaselineCode) : FirstPassFails(k))
             \/ \E k \in {k \in 1 .. Len(BaselineCode) : BaselineCode[k] \in Jumps} :
                    \E n \in 0 .. Len(DecodedTargets[BaselineCode[k]]) - 1 : SecondPassFails(k, n)
    BY <2>10, BaselineDecoded, CreateBaselineTracks
  <2>11. CASE DisableCreateBaseline
    BY <2>11, JumpsUnchanged DEF DisableCreateBaseline, links
  <2> QED BY <1>4, <2>1, <2>2, <2>3, <2>4, <2>6, <2>7, <2>8, <2>9, <2>10, <2>11 DEF EditLinks
<1>5. CASE EditJumpsAndClauses
  <2>1. ASSUME NEW j \in Jumps \cap Made, NEW t \in Range(il), NEW i \in 1 .. Len(targets[j]), SetBranchTarget(j, i, t)
        PROVE  JumpInv'
    BY <1>1, <2>1, SetBranchTargetTracks
  <2>2. ASSUME NEW s \in Switches \cap Made, NEW i \in 1 .. Len(targets[s]), RemoveBranchTargetAt(s, i) PROVE JumpInv'
    BY <2>2, RemoveBranchTargetAtTracks
  <2>3. CASE ExpandBranches \/ \E b \in Branches \cap Made : ExpandBranch(b)
    BY <1>2, <2>3 DEF ExpandBranches, ExpandBranch
  <2>4. ASSUME NEW c, AddNewExceptionClause(c) PROVE JumpInv'
    BY <1>2, <2>4 DEF AddNewExceptionClause
  <2>5. ASSUME NEW i, RemoveExceptionClause(i) PROVE JumpInv'
    BY <1>2, <2>5 DEF RemoveExceptionClause
  <2>6. CASE RemoveAllExceptionClauses
    BY <1>2, <2>6 DEF RemoveAllExceptionClauses
  <2>7. ASSUME NEW c, AddExceptionClause(c) PROVE JumpInv'
    BY <1>2, <2>7 DEF AddExceptionClause
  <2>8. ASSUME NEW i, NEW f, NEW x, SetInstruction(i, f, x) PROVE JumpInv'
    BY <1>2, <2>8 DEF SetInstruction
  <2>9. ASSUME NEW s \in Switches \cap Made, NEW o \in Range(il), NEW t \in Range(il), ReplaceBranchTarget(s, o, t)
        PROVE  JumpInv'
    BY <1>1, <2>9, ReplaceBranchTargetTracks
  <2> QED BY <1>5, <2>1, <2>2, <2>3, <2>4, <2>5, <2>6, <2>7, <2>8, <2>9 DEF EditJumpsAndClauses
<1>6. CASE RefreshInstructions \/ EncodeIL
  BY <1>2, <1>6 DEF RefreshInstructions, EncodeIL
<1>7. CASE UNCHANGED vars
  BY <1>2, <1>7 DEF vars
<1> QED BY <1>4, <1>5, <1>6, <1>7 DEF Next

\* For every method, baseline and supply of new instructions, and after any calls, CBranchTargetInfo of an instruction
\* lists a branch exactly if the branch leads there.
THEOREM BranchesAreTracked == Spec => []BranchesTracked
<1>1. LinkInv /\ JumpInv /\ [Next]_vars => (LinkInv /\ JumpInv)'
  BY NextLinked, NextTracked
<1>2. Init => LinkInv /\ JumpInv
  BY InitLinked, InitTracked
<1>3. LinkInv /\ JumpInv => BranchesTracked
  BY DEF JumpInv
<1> QED BY <1>1, <1>2, <1>3, PTL DEF Spec

-----------------------------------------------------------------------------
(* Offsets. *)

\* Every instruction takes room.
LEMMA SizeFacts ==
    ASSUME NEW x \in Instrs, NEW long, NEW tgts, \A j \in Jumps : Len(tgts[j]) \in Nat
    PROVE  SizeIn(x, long, tgts) \in Nat /\ SizeIn(x, long, tgts) > 0
<1>1. x \in Switches => Len(tgts[x]) \in Nat
  BY DEF Jumps
<1>2. PlainSize[x] \in Nat /\ PlainSize[x] > 0
  BY SizesAssumption
<1> QED BY <1>1, <1>2 DEF SizeIn

\* The offsets of code are the running sums of its sizes, so they grow.
LEMMA OffsetsFacts ==
    ASSUME NEW s \in Seq(Instrs), NEW long, NEW tgts, \A j \in Jumps : Len(tgts[j]) \in Nat
    PROVE  LET off == OffsetsOf(s, long, tgts)
               Size(i) == SizeIn(s[i], long, tgts)
           IN  /\ off \in [1 .. Len(s) -> Nat]
               /\ Len(s) > 0 => off[1] = 0
               /\ \A i \in 2 .. Len(s) : off[i] = off[i - 1] + Size(i - 1)
               /\ \A i, j \in 1 .. Len(s) : i < j => off[i] + Size(i) <= off[j]
<1> DEFINE off == OffsetsOf(s, long, tgts)
           Size(i) == SizeIn(s[i], long, tgts)
           N == Len(s)
           d == [i \in 1 .. N |-> Size(i)]
<1>1. N \in Nat /\ \A i \in 1 .. N : Size(i) \in Nat /\ Size(i) > 0
  BY SizeFacts
<1>2. off = [i \in 1 .. N |-> IF i = 1 THEN 0 ELSE off[i - 1] + Size(i - 1)]
  <2>1. PICK g : g = [i \in 1 .. N |-> IF i = 1 THEN 0 ELSE g[i - 1] + d[i - 1]]
    BY <1>1, RunningSumExists
  <2>2. [i \in 1 .. N |-> IF i = 1 THEN 0 ELSE g[i - 1] + d[i - 1]]
        = [i \in 1 .. N |-> IF i = 1 THEN 0 ELSE g[i - 1] + Size(i - 1)]
    <3>1. \A i \in 1 .. N : i # 1 => d[i - 1] = Size(i - 1)
      BY <1>1
    <3> HIDE DEF d, Size
    <3> QED BY <3>1
  <2>3. g = [i \in 1 .. N |-> IF i = 1 THEN 0 ELSE g[i - 1] + Size(i - 1)]
    <3> HIDE DEF d, Size
    <3> QED BY <2>1, <2>2
  <2> QED BY <2>3 DEF OffsetsOf
<1>3. DOMAIN off = 1 .. N /\ \A i \in 1 .. N : off[i] = IF i = 1 THEN 0 ELSE off[i - 1] + Size(i - 1)
  <2> DEFINE F == [i \in 1 .. N |-> IF i = 1 THEN 0 ELSE off[i - 1] + Size(i - 1)]
  <2>1. DOMAIN F = 1 .. N /\ \A i \in 1 .. N : F[i] = IF i = 1 THEN 0 ELSE off[i - 1] + Size(i - 1)
    OBVIOUS
  <2>2. off = F
    BY <1>2
  <2> HIDE DEF F, off, Size
  <2> QED BY <2>1, <2>2
<1>4. off = [i \in 1 .. N |-> off[i]]
  <2> DEFINE F == [i \in 1 .. N |-> IF i = 1 THEN 0 ELSE off[i - 1] + Size(i - 1)]
  <2>1. F = [i \in 1 .. N |-> F[i]]
    OBVIOUS
  <2>2. off = F
    BY <1>2
  <2> HIDE DEF F
  <2> QED BY <2>1, <2>2
<1> HIDE DEF off, Size, N
<1>5. \A i \in 1 .. N : off[i] \in Nat
  <2> DEFINE T == {i \in 1 .. N : off[i] \notin Nat}
  <2>1. SUFFICES ASSUME T # {} PROVE FALSE
    OBVIOUS
  <2>2. PICK i \in T : \A m \in T : i <= m
    <3>1. T \subseteq Nat
      BY <1>1
    <3> HIDE DEF T
    <3> QED BY <2>1, <3>1, LeastNatural
  <2>3. i # 1
    BY <1>3, <2>2
  <2>4. i - 1 \in 1 .. N /\ i - 1 \notin T
    BY <1>1, <2>2, <2>3
  <2> QED BY <1>1, <1>3, <2>2, <2>3, <2>4
<1>6. ASSUME NEW i \in 1 .. N PROVE \A j \in 1 .. N : i < j => off[i] + Size(i) <= off[j]
  <2> DEFINE T == {j \in 1 .. N : i < j /\ ~(off[i] + Size(i) <= off[j])}
  <2>1. SUFFICES ASSUME T # {} PROVE FALSE
    OBVIOUS
  <2>2. PICK j \in T : \A m \in T : j <= m
    <3>1. T \subseteq Nat
      BY <1>1
    <3> HIDE DEF T
    <3> QED BY <2>1, <3>1, LeastNatural
  <2>3. j \in 1 .. N /\ i < j /\ off[j] = off[j - 1] + Size(j - 1) /\ j - 1 \in 1 .. N
    BY <1>1, <1>3, <2>2
  <2>4. j - 1 \notin T
    BY <1>1, <2>2
  <2>5. off[i] \in Nat /\ off[j] \in Nat /\ off[j - 1] \in Nat /\ Size(i) \in Nat /\ Size(j - 1) \in Nat
    BY <1>1, <1>5, <2>3
  <2>6. CASE i = j - 1
    BY <2>2, <2>3, <2>5, <2>6
  <2>7. CASE i < j - 1
    <3>1. off[i] + Size(i) <= off[j - 1]
      BY <2>3, <2>4, <2>7
    <3> QED BY <2>2, <2>3, <2>5, <3>1
  <2> QED BY <1>1, <2>3, <2>6, <2>7
<1>7. off \in [1 .. N -> Nat]
  BY <1>4, <1>5
<1>8. N > 0 => off[1] = 0
  BY <1>1, <1>3
<1>9. \A i \in 2 .. N : off[i] = off[i - 1] + Size(i - 1)
  BY <1>1, <1>3
<1> QED BY <1>6, <1>7, <1>8, <1>9 DEF off, Size, N

\* Code in which every instruction keeps its size keeps its offsets.
LEMMA OffsetsAgree ==
    ASSUME NEW s \in Seq(Instrs), NEW long, NEW tgts, NEW long2, NEW tgts2,
           \A j \in Jumps : Len(tgts[j]) \in Nat /\ Len(tgts2[j]) \in Nat,
           \A x \in Range(s) : SizeIn(x, long, tgts) = SizeIn(x, long2, tgts2)
    PROVE  OffsetsOf(s, long, tgts) = OffsetsOf(s, long2, tgts2)
<1> DEFINE off == OffsetsOf(s, long, tgts)
           off2 == OffsetsOf(s, long2, tgts2)
           Size(i) == SizeIn(s[i], long, tgts)
           Size2(i) == SizeIn(s[i], long2, tgts2)
           N == Len(s)
<1>1. N \in Nat /\ \A i \in 1 .. N : Size(i) = Size2(i)
  BY DEF Range
<1>2. /\ off \in [1 .. N -> Nat] /\ (N > 0 => off[1] = 0)
      /\ \A i \in 2 .. N : off[i] = off[i - 1] + Size(i - 1)
  BY OffsetsFacts
<1>3. /\ off2 \in [1 .. N -> Nat] /\ (N > 0 => off2[1] = 0)
      /\ \A i \in 2 .. N : off2[i] = off2[i - 1] + Size2(i - 1)
  BY OffsetsFacts
<1> HIDE DEF off, off2, Size, Size2, N
<1>4. \A i \in 1 .. N : off[i] = off2[i]
  <2> DEFINE T == {i \in 1 .. N : off[i] # off2[i]}
  <2>1. SUFFICES ASSUME T # {} PROVE FALSE
    OBVIOUS
  <2>2. PICK i \in T : \A m \in T : i <= m
    <3>1. T \subseteq Nat
      BY <1>1
    <3> HIDE DEF T
    <3> QED BY <2>1, <3>1, LeastNatural
  <2>3. i # 1
    BY <1>1, <1>2, <1>3, <2>2
  <2>4. i - 1 \in 1 .. N /\ i - 1 \notin T /\ i \in 2 .. N
    BY <1>1, <2>2, <2>3
  <2> QED BY <1>1, <1>2, <1>3, <2>2, <2>4
<1>5. off = off2
  <2>1. off = [i \in 1 .. N |-> off[i]] /\ off2 = [i \in 1 .. N |-> off2[i]]
    BY <1>2, <1>3
  <2>2. [i \in 1 .. N |-> off[i]] = [i \in 1 .. N |-> off2[i]]
    BY <1>4
  <2> QED BY <2>1, <2>2
<1> QED BY <1>5 DEF off, off2

\* Nobody expands a branch that is not made yet.
FormInv == baseline = "allowed" => Range(BaselineCode) \cap expanded = {}

OffsetInv == FormInv /\ {stale, resized} \subseteq BOOLEAN /\ OffsetsFresh

\* What the offsets of the list are by its sizes.
LEMMA CalculatedAt ==
    ASSUME il \in Seq(Instrs), NEW x \in Range(il)
    PROVE  Calculated[x] = OffsetsOf(il, expanded, targets)[Pos(x)]
<1>1. x \in Instrs
  BY DEF Range
<1> QED BY <1>1 DEF Calculated

\* Steps after which the offsets are the ones that the list has, or that leave them and all sizes alone.
LEMMA FreshWhereSame ==
    ASSUME LinkInv, JumpInv, JumpInv', OffsetsFresh, il' = il,
           \A x \in Range(il) : SizeIn(x, expanded, targets) = SizeIn(x, expanded, targets)',
           \/ UNCHANGED offsets
           \/ offset' = Calculated
    PROVE  OffsetsFresh'
<1>1. il \in Seq(Instrs)
  BY DEF LinkInv, LinkTypes
<1>2. \A j \in Jumps : Len(targets[j]) \in Nat /\ Len(targets'[j]) \in Nat
  BY DEF JumpInv, JumpTypes
<1>3. OffsetsOf(il, expanded, targets) = OffsetsOf(il, expanded', targets')
  BY <1>1, <1>2, OffsetsAgree DEF SizeIn
<1>4. \A x \in Range(il) : Calculated'[x] = Calculated[x]
  <2> TAKE x \in Range(il)
  <2>1. x \in Instrs
    BY <1>1 DEF Range
  <2>2. Calculated'[x] = OffsetsOf(il', expanded', targets')[Pos(x)']
    BY <2>1 DEF Calculated
  <2>3. Pos(x)' = Pos(x)
    BY DEF Pos
  <2> QED BY <1>1, <1>3, <2>2, <2>3, CalculatedAt
<1>5. CASE UNCHANGED offsets
  BY <1>4, <1>5 DEF OffsetsFresh, offsets
<1>6. CASE offset' = Calculated
  BY <1>4, <1>6 DEF OffsetsFresh
<1> QED BY <1>5, <1>6

\* RefreshInstructions, and the search for a clause's place.
LEMMA FreshWhereRefreshed ==
    ASSUME LinkInv, JumpInv, JumpInv', OffsetInv, il' = il, expanded' = expanded, targets' = targets, Refreshed
    PROVE  OffsetsFresh'
<1>1. \A x \in Range(il) : SizeIn(x, expanded, targets) = SizeIn(x, expanded, targets)'
  BY DEF SizeIn
<1>2. CASE stale
  BY <1>1, <1>2, FreshWhereSame DEF Refreshed, GetOffset, OffsetInv
<1>3. CASE ~stale
  <2>1. UNCHANGED offsets
    BY <1>3 DEF Refreshed, GetOffset, offsets, OffsetInv
  <2> QED BY <1>1, <2>1, FreshWhereSame DEF OffsetInv
<1> QED BY <1>2, <1>3

\* The offsets of a part of the code are those that its instructions have in all of it.
LEMMA OffsetsOfPrefix ==
    ASSUME NEW s \in Seq(Instrs), Injective(s), NEW k \in 0 .. Len(s), NEW long, NEW tgts,
           \A j \in Jumps : Len(tgts[j]) \in Nat
    PROVE  \A i \in 1 .. k : OffsetsOf(Prefix(s, k), long, tgts)[i] = OffsetsOf(s, long, tgts)[i]
<1> DEFINE t == Prefix(s, k)
           off == OffsetsOf(t, long, tgts)
           off2 == OffsetsOf(s, long, tgts)
           Size(i) == SizeIn(t[i], long, tgts)
           Size2(i) == SizeIn(s[i], long, tgts)
<1>1. k \in Nat /\ Len(s) \in Nat /\ k <= Len(s) /\ t \in Seq(Instrs) /\ Len(t) = k /\ \A i \in 1 .. k : t[i] = s[i]
  BY PrefixFacts
<1>2. \A i \in 1 .. k : Size(i) = Size2(i)
  BY <1>1
<1> HIDE DEF t
<1>3. off \in [1 .. k -> Nat] /\ (k > 0 => off[1] = 0) /\ \A i \in 2 .. k : off[i] = off[i - 1] + Size(i - 1)
  <2>1. /\ off \in [1 .. Len(t) -> Nat] /\ (Len(t) > 0 => off[1] = 0)
        /\ \A i \in 2 .. Len(t) : off[i] = off[i - 1] + Size(i - 1)
    <3>1. \A u \in Seq(Instrs) :
            LET o == OffsetsOf(u, long, tgts)
            IN  /\ o \in [1 .. Len(u) -> Nat] /\ (Len(u) > 0 => o[1] = 0)
                /\ \A i \in 2 .. Len(u) : o[i] = o[i - 1] + SizeIn(u[i - 1], long, tgts)
      BY OffsetsFacts
    <3> QED BY <1>1, <3>1
  <2> HIDE DEF off, Size
  <2> QED BY <1>1, <2>1
<1>4. /\ off2 \in [1 .. Len(s) -> Nat] /\ (Len(s) > 0 => off2[1] = 0)
      /\ \A i \in 2 .. Len(s) : off2[i] = off2[i - 1] + Size2(i - 1)
  BY OffsetsFacts
<1> HIDE DEF off, off2, Size, Size2
<1>5. \A i \in 1 .. k : off[i] = off2[i]
  <2> DEFINE T == {i \in 1 .. k : off[i] # off2[i]}
  <2>1. SUFFICES ASSUME T # {} PROVE FALSE
    OBVIOUS
  <2>2. PICK i \in T : \A m \in T : i <= m
    <3>1. T \subseteq Nat
      BY <1>1
    <3> HIDE DEF T
    <3> QED BY <2>1, <3>1, LeastNatural
  <2>3. i # 1
    BY <1>1, <1>3, <1>4, <2>2
  <2>4. i - 1 \in 1 .. k /\ i - 1 \notin T /\ i \in 2 .. k /\ i \in 2 .. Len(s)
    BY <1>1, <2>2, <2>3
  <2>5. off[i - 1] = off2[i - 1] /\ Size(i - 1) = Size2(i - 1)
    BY <1>2, <2>4
  <2>6. off[i] = off[i - 1] + Size(i - 1) /\ off2[i] = off2[i - 1] + Size2(i - 1)
    BY <1>3, <1>4, <2>4
  <2> QED BY <2>2, <2>5, <2>6
<1> QED BY <1>5 DEF off, off2, t

\* CreateBaseline, whether it fails or not: the baseline is decoded with the offsets it has, since none of its branches is long.
LEMMA FreshBaseline ==
    ASSUME LinkInv, JumpInv, JumpInv', OffsetInv, NEW k \in 0 .. Len(BaselineCode), NEW found,
           Decode(Prefix(BaselineCode, k), found)
    PROVE  OffsetsFresh'
<1> DEFINE s == BaselineCode
           t == Prefix(BaselineCode, k)
           Found(j) == [i \in 1 .. Len(DecodedTargets[j]) |-> IF i <= found[j] THEN DecodedTargets[j][i] ELSE Null]
<1>1. s \in Seq(Instrs) /\ Injective(s) /\ Range(Original) \cap Range(s) = {} /\ Range(s) \subseteq Instrs
  BY CodeAssumption DEF Range
<1>2. /\ t \in Seq(Instrs) /\ Injective(t) /\ Len(t) = k /\ (\A i \in 1 .. k : t[i] = s[i])
      /\ Range(t) \subseteq Range(s) /\ k \in Nat /\ 1 .. k \subseteq 1 .. Len(s)
  BY <1>1, PrefixFacts
<1>3. /\ il' = t /\ expanded' = expanded /\ Range(s) \cap expanded = {}
      /\ offset' = [x \in Instrs |-> IF x \in Range(t) THEN DecodedOffset(x) ELSE offset[x]]
      /\ targets' = [j \in Jumps |-> IF j \in Range(t) THEN Found(j) ELSE targets[j]]
  BY DEF Decode, DecodedJumps, OffsetInv, FormInv
<1>4. \A j \in Jumps : Len(DecodedTargets[j]) \in Nat /\ Len(targets'[j]) \in Nat /\ Len(Found(j)) = Len(DecodedTargets[j])
  BY JumpFacts DEF JumpInv, JumpTypes
<1> HIDE DEF s, t, Found
<1>5. \A x \in Range(t) : SizeIn(x, {}, DecodedTargets) = SizeIn(x, expanded', targets')
  BY <1>2, <1>3, <1>4 DEF SizeIn, Jumps
<1>6. OffsetsOf(t, {}, DecodedTargets) = OffsetsOf(t, expanded', targets')
  BY <1>2, <1>4, <1>5, OffsetsAgree
<1>7. \A i \in 1 .. k : OffsetsOf(t, {}, DecodedTargets)[i] = OffsetsOf(s, {}, DecodedTargets)[i]
  BY <1>1, <1>4, OffsetsOfPrefix DEF s, t
<1>8. ASSUME NEW x \in Range(t) PROVE offset'[x] = Calculated'[x]
  <2>1. x \in Instrs /\ x \notin Range(Original)
    BY <1>1, <1>2
  <2>2. PICK i \in 1 .. k : t[i] = x /\ s[i] = x
    BY <1>2 DEF Range
  <2>3. (CHOOSE m \in 1 .. Len(s) : s[m] = x) = i
    BY <1>1, <1>2, <2>2 DEF Injective
  <2>4. (CHOOSE m \in 1 .. Len(t) : t[m] = x) = i
    BY <1>2, <2>2 DEF Injective
  <2>5. offset'[x] = OffsetsOf(s, {}, DecodedTargets)[i]
    BY <1>3, <2>1, <2>3 DEF DecodedOffset, s
  <2>6. Calculated'[x] = OffsetsOf(t, expanded', targets')[i]
    BY <1>3, <2>1, <2>4 DEF Calculated, Pos
  <2> QED BY <1>6, <1>7, <2>5, <2>6
<1> QED BY <1>3, <1>8 DEF OffsetsFresh

\* The decoded method: its offsets are stale until somebody asks.
LEMMA InitFresh == Init => OffsetInv
<1> SUFFICES ASSUME Init PROVE OffsetInv
  OBVIOUS
<1>1. Range(Original) \cap Range(BaselineCode) = {} /\ New \cap Range(BaselineCode) = {}
  BY CodeAssumption
<1>2. PICK long \in SUBSET (Branches \cap New) : expanded = (Branches \cap Range(Original)) \cup long
  BY DEF Init
<1>3. FormInv
  BY <1>1, <1>2 DEF FormInv
<1>4. stale = TRUE /\ resized = FALSE
  BY DEF Init
<1> QED BY <1>3, <1>4 DEF OffsetInv, OffsetsFresh

\* No call makes anything of the baseline long before it is there.
LEMMA NextForm == LinkInv /\ JumpInv /\ FormInv /\ [Next]_vars => FormInv'
<1> SUFFICES ASSUME LinkInv, JumpInv, FormInv, [Next]_vars PROVE FormInv'
  OBVIOUS
<1>1. /\ Range(il) \subseteq graph
      /\ Range(BaselineCode) \cap New = {} /\ Range(BaselineCode) \cap Range(Original) = {}
      /\ baseline = "allowed" => Range(BaselineCode) \cap (graph \cup removed) = {}
  BY CodeAssumption DEF LinkInv, WellLinked, JumpInv, BaselineUnmade
<1>2. ASSUME expanded' = expanded, baseline' = "allowed" => baseline = "allowed" PROVE FormInv'
  BY <1>2 DEF FormInv
<1>3. CASE EditLinks
  BY <1>2, <1>3 DEF EditLinks, InsertFirst, InsertAfterRefused, InsertBefore, InsertAfter,
     InsertBeforeAndRetargetOffsets, Replace, Remove, RemoveAll, CreateBaseline, FirstPassFails,
     SecondPassFails, Decode, DisableCreateBaseline
<1>4. CASE ExpandBranches
  BY <1>1, <1>4 DEF ExpandBranches, FormInv
<1>5. ASSUME NEW b \in Branches \cap Made, ExpandBranch(b) PROVE FormInv'
  BY <1>1, <1>5 DEF ExpandBranch, FormInv, Made
<1>6. CASE EditJumpsAndClauses /\ expanded' = expanded /\ baseline' = baseline
  BY <1>2, <1>6
<1>7. EditJumpsAndClauses => \/ ExpandBranches \/ \E b \in Branches \cap Made : ExpandBranch(b)
                             \/ expanded' = expanded /\ baseline' = baseline
  BY DEF EditJumpsAndClauses, SetBranchTarget, RemoveBranchTargetAt, ReplaceBranchTarget,
     AddNewExceptionClause, RemoveExceptionClause, RemoveAllExceptionClauses, AddExceptionClause, SetInstruction
<1>8. CASE RefreshInstructions \/ EncodeIL \/ UNCHANGED vars
  BY <1>2, <1>8 DEF RefreshInstructions, EncodeIL, vars
<1> QED BY <1>3, <1>4, <1>5, <1>6, <1>7, <1>8 DEF Next

\* SetBranchTarget and ReplaceBranchTarget leave a switch its number of targets.
LEMMA RetargetKeepsSizes ==
    ASSUME JumpInv,
           \/ \E j \in Jumps, t \in Instrs : \E i \in 1 .. Len(targets[j]) : SetBranchTarget(j, i, t)
           \/ \E s \in Switches, o \in Instrs, t \in Instrs : ReplaceBranchTarget(s, o, t)
    PROVE  \A x \in Instrs : SizeIn(x, expanded, targets) = SizeIn(x, expanded, targets)'
<1>1. targets \in [Jumps -> Seq(Pointers)]
  BY DEF JumpInv, JumpTypes
<1>2. \A j \in Jumps : Len(targets'[j]) = Len(targets[j])
  <2>1. ASSUME NEW j \in Jumps, NEW t \in Instrs, NEW i \in 1 .. Len(targets[j]), SetBranchTarget(j, i, t)
        PROVE  \A k \in Jumps : Len(targets'[k]) = Len(targets[k])
    <3>1. targets' = [targets EXCEPT ![j] = [targets[j] EXCEPT ![i] = t]]
      BY <2>1 DEF SetBranchTarget
    <3>2. targets[j] \in Seq(Pointers) /\ t \in Pointers
      BY <1>1, <2>1 DEF Pointers
    <3>3. Len([targets[j] EXCEPT ![i] = t]) = Len(targets[j])
      BY <3>2
    <3> QED BY <1>1, <3>1, <3>3
  <2>2. ASSUME NEW s \in Switches, NEW o \in Instrs, NEW t \in Instrs, ReplaceBranchTarget(s, o, t)
        PROVE  \A k \in Jumps : Len(targets'[k]) = Len(targets[k])
    <3> DEFINE new == [i \in 1 .. Len(targets[s]) |-> IF targets[s][i] = o THEN t ELSE targets[s][i]]
    <3>1. targets' = [targets EXCEPT ![s] = new]
      BY <2>2 DEF ReplaceBranchTarget
    <3>2. Len(targets[s]) \in Nat
      BY <1>1 DEF Jumps
    <3>3. Len(new) = Len(targets[s])
      BY <3>2
    <3> HIDE DEF new
    <3> QED BY <1>1, <3>1, <3>3
  <2> QED BY <2>1, <2>2
<1>3. expanded' = expanded
  BY DEF SetBranchTarget, ReplaceBranchTarget
<1> QED BY <1>2, <1>3 DEF SizeIn, Jumps

\* Every call keeps the offsets right or marks them.
LEMMA NextFresh == LinkInv /\ JumpInv /\ JumpInv' /\ OffsetInv /\ [Next]_vars => OffsetInv'
<1> SUFFICES ASSUME LinkInv, JumpInv, JumpInv', OffsetInv, [Next]_vars PROVE OffsetInv'
  OBVIOUS
<1>1. FormInv'
  BY NextForm DEF OffsetInv
<1>2. stale \in BOOLEAN /\ resized \in BOOLEAN /\ OffsetsFresh /\ Range(il) \subseteq Instrs
  BY DEF OffsetInv, LinkInv, LinkTypes, WellLinked
<1>3. ASSUME MarkInstructionsStale PROVE OffsetInv'
  BY <1>1, <1>2, <1>3 DEF MarkInstructionsStale, OffsetInv, OffsetsFresh
<1>4. ASSUME UNCHANGED <<il, expanded, targets, offsets>> PROVE OffsetInv'
  <2>1. OffsetsFresh'
    BY <1>2, <1>4, FreshWhereSame DEF SizeIn
  <2>2. stale' = stale /\ resized' = resized
    BY <1>4 DEF offsets
  <2> QED BY <1>1, <1>2, <2>1, <2>2 DEF OffsetInv
<1>5. ASSUME UNCHANGED <<il, expanded, targets>>, Refreshed PROVE OffsetInv'
  <2>1. OffsetsFresh'
    BY <1>5, FreshWhereRefreshed
  <2> QED BY <1>1, <1>2, <1>5, <2>1 DEF OffsetInv, Refreshed
<1>6. ASSUME resized' = TRUE, stale' = stale PROVE OffsetInv'
  BY <1>1, <1>2, <1>6 DEF OffsetInv, OffsetsFresh
<1>7. CASE EditLinks
  <2>1. ASSUME NEW n, InsertFirst(n) PROVE OffsetInv'
    BY <1>3, <2>1 DEF InsertFirst
  <2>2. ASSUME NEW o, NEW n, InsertAfterRefused(o, n) PROVE OffsetInv'
    BY <1>4, <2>2 DEF InsertAfterRefused, jumps
  <2>3. ASSUME NEW o, NEW n, InsertBefore(o, n) \/ InsertAfter(o, n) \/ InsertBeforeAndRetargetOffsets(o, n) \/ Replace(o, n)
        PROVE  OffsetInv'
    BY <1>3, <2>3 DEF InsertBefore, InsertAfter, InsertBeforeAndRetargetOffsets, Replace
  <2>4. ASSUME NEW o, Remove(o) PROVE OffsetInv'
    BY <1>3, <2>4 DEF Remove
  <2>5. CASE RemoveAll
    <3>1. il' = <<>> /\ stale' = stale /\ resized' = resized
      BY <2>5 DEF RemoveAll, offsets
    <3>2. Range(il') = {}
      BY <3>1 DEF Range
    <3> QED BY <1>1, <1>2, <3>1, <3>2 DEF OffsetInv, OffsetsFresh
  <2>6. CASE CreateBaseline \/ (\E k \in 0 .. Len(BaselineCode) : FirstPassFails(k))
             \/ \E k \in {k \in 1 .. Len(BaselineCode) : BaselineCode[k] \in Jumps} :
                    \E n \in 0 .. Len(DecodedTargets[BaselineCode[k]]) - 1 : SecondPassFails(k, n)
    <3>1. PICK k \in 0 .. Len(BaselineCode), found \in [Jumps -> Nat] :
                Decode(Prefix(BaselineCode, k), found) /\ stale' \in {stale, FALSE}
      BY <2>6, BaselineDecoded
    <3>2. OffsetsFresh'
      BY <3>1, FreshBaseline
    <3>3. stale' \in BOOLEAN /\ resized' = FALSE
      BY <1>2, <3>1 DEF Decode
    <3> QED BY <1>1, <3>2, <3>3 DEF OffsetInv
  <2>7. CASE DisableCreateBaseline
    BY <1>4, <2>7 DEF DisableCreateBaseline, links, jumps
  <2> QED BY <1>7, <2>1, <2>2, <2>3, <2>4, <2>5, <2>6, <2>7 DEF EditLinks
<1>8. CASE EditJumpsAndClauses
  <2>1. CASE ExpandBranches
    BY <1>3, <2>1 DEF ExpandBranches
  <2>2. ASSUME NEW b, ExpandBranch(b) PROVE OffsetInv'
    BY <1>6, <2>2 DEF ExpandBranch
  <2>3. ASSUME \/ \E j \in Jumps, t \in Instrs : \E i \in 1 .. Len(targets[j]) : SetBranchTarget(j, i, t)
               \/ \E s \in Switches, o \in Instrs, t \in Instrs : ReplaceBranchTarget(s, o, t)
        PROVE  OffsetInv'
    <3>1. \A x \in Instrs : SizeIn(x, expanded, targets) = SizeIn(x, expanded, targets)'
      BY <2>3, RetargetKeepsSizes
    <3>2. il' = il /\ UNCHANGED offsets
      BY <2>3 DEF SetBranchTarget, ReplaceBranchTarget, links
    <3>3. OffsetsFresh'
      BY <1>2, <3>1, <3>2, FreshWhereSame
    <3>4. stale' = stale /\ resized' = resized
      BY <3>2 DEF offsets
    <3> QED BY <1>1, <1>2, <3>3, <3>4 DEF OffsetInv
  <2>4. ASSUME NEW s, NEW i, RemoveBranchTargetAt(s, i) PROVE OffsetInv'
    BY <1>6, <2>4 DEF RemoveBranchTargetAt
  <2>5. ASSUME NEW c, AddNewExceptionClause(c) PROVE OffsetInv'
    BY <1>4, <1>5, <2>5 DEF AddNewExceptionClause, links, jumps
  <2>6. ASSUME NEW i, RemoveExceptionClause(i) PROVE OffsetInv'
    BY <1>4, <2>6 DEF RemoveExceptionClause, links, jumps
  <2>7. CASE RemoveAllExceptionClauses
    BY <1>4, <2>7 DEF RemoveAllExceptionClauses, links, jumps
  <2>8. ASSUME NEW c, AddExceptionClause(c) PROVE OffsetInv'
    BY <1>4, <2>8 DEF AddExceptionClause, links, jumps
  <2>9. ASSUME NEW i, NEW f, NEW x, SetInstruction(i, f, x) PROVE OffsetInv'
    BY <1>4, <2>9 DEF SetInstruction, links, jumps
  <2> QED BY <1>2, <1>8, <2>1, <2>2, <2>3, <2>4, <2>5, <2>6, <2>7, <2>8, <2>9 DEF EditJumpsAndClauses
<1>9. CASE RefreshInstructions
  BY <1>5, <1>9 DEF RefreshInstructions, links, jumps
<1>10. CASE EncodeIL
  <2>1. UNCHANGED <<il, expanded, targets>> /\ offset' = Calculated /\ resized' = FALSE
    BY <1>10 DEF EncodeIL, links, jumps
  <2>2. OffsetsFresh'
    BY <1>2, <2>1, FreshWhereSame DEF SizeIn
  <2>3. stale' \in BOOLEAN
    BY <1>10 DEF EncodeIL
  <2> QED BY <1>1, <2>1, <2>2, <2>3 DEF OffsetInv
<1>11. CASE UNCHANGED vars
  BY <1>4, <1>11 DEF vars, links, jumps
<1> QED BY <1>7, <1>8, <1>9, <1>10, <1>11 DEF Next

\* The invariants of the links, the jumps and the offsets together.
LEMMA OffsetsHold == Spec => [](LinkInv /\ JumpInv /\ OffsetInv)
<1>1. Init => LinkInv /\ JumpInv /\ OffsetInv
  BY InitLinked, InitTracked, InitFresh
<1>2. LinkInv /\ JumpInv /\ OffsetInv /\ [Next]_vars => (LinkInv /\ JumpInv /\ OffsetInv)'
  BY NextLinked, NextTracked, NextFresh
<1> QED BY <1>1, <1>2, PTL DEF Spec

\* For every method, baseline and sizes, and after any calls, GetOffset answers with the offset that the instruction
\* has in the method as it is, unless a branch was expanded or a switch shrunk on its own.
THEOREM OffsetsAreFresh == Spec => []OffsetsFresh
<1>1. OffsetInv => OffsetsFresh
  BY DEF OffsetInv
<1> QED BY <1>1, OffsetsHold, PTL

----------------------------------------------------------------------------
(* Exception clauses. *)

\* Any two try ranges are nested or apart.
NestedTries ==
    ~invalid /\ ~displaced => \A i, j \in 1 .. Len(clauses) :
        LET a == Pos(clauses[i]["tryFirst"])
            z == Pos(clauses[i]["tryLast"])
            b == Pos(clauses[j]["tryFirst"])
            y == Pos(clauses[j]["tryLast"])
        IN  z < b \/ y < a \/ (b <= a /\ z <= y) \/ (a <= b /\ y <= z)

\* What ClausesInGraph needs, and what ClauseOrder needs besides.
ClauseInv == clauses \in Seq(Clauses) /\ {invalid, displaced} \subseteq BOOLEAN /\ ClausesInGraph
OrderInv == ClauseOrder /\ NestedTries

\* The instruction pointers that end a range.
LastFields == {"tryLast", "handlerLast"}

\* The place of an instruction in code s.
PlaceIn(s, x) == CHOOSE i \in 1 .. Len(s) : s[i] = x

\* ClausesInGraph, NestedTries and ClauseOrder, of clauses in code s.
RangesIn(s, c) ==
    /\ \A f \in Fields : c[f] \in Range(s) \cup ({Null} \cap {c["filterFirst"]})
    /\ PlaceIn(s, c["tryFirst"]) <= PlaceIn(s, c["tryLast"])
    /\ PlaceIn(s, c["handlerFirst"]) <= PlaceIn(s, c["handlerLast"])
NestedIn(s, c, d) ==
    LET a == PlaceIn(s, c["tryFirst"])
        z == PlaceIn(s, c["tryLast"])
        b == PlaceIn(s, d["tryFirst"])
        y == PlaceIn(s, d["tryLast"])
    IN  z < b \/ y < a \/ (b <= a /\ z <= y) \/ (a <= b /\ y <= z)
InsideIn(s, c, d) ==
    /\ PlaceIn(s, d["tryFirst"]) <= PlaceIn(s, c["tryFirst"]) /\ PlaceIn(s, c["tryLast"]) <= PlaceIn(s, d["tryLast"])
    /\ <<c["tryFirst"], c["tryLast"]>> # <<d["tryFirst"], d["tryLast"]>>

\* A step that takes the beginnings of ranges from their places to those that mf gives, and the ends to those that ml gives.
Carried(mf, ml) ==
    /\ Len(clauses') = Len(clauses)
    /\ \A i \in 1 .. Len(clauses) :
        /\ \A f \in FirstFields : clauses[i][f] \in Range(il) =>
                clauses'[i][f] \in Range(il') /\ PlaceIn(il', clauses'[i][f]) = mf[PlaceIn(il, clauses[i][f])]
        /\ clauses[i]["filterFirst"] = Null => clauses'[i]["filterFirst"] = Null
        /\ \A f \in LastFields : clauses[i][f] \in Range(il) =>
                clauses'[i][f] \in Range(il') /\ PlaceIn(il', clauses'[i][f]) = ml[PlaceIn(il, clauses[i][f])]

\* The invariants of the clauses in these words, before a step and after it.
LEMMA ByPlace ==
    /\ ClausesInGraph <=> (~invalid => \A i \in 1 .. Len(clauses) : RangesIn(il, clauses[i]))
    /\ NestedTries <=> (~invalid /\ ~displaced => \A i, j \in 1 .. Len(clauses) : NestedIn(il, clauses[i], clauses[j]))
    /\ ClauseOrder <=> (~invalid /\ ~displaced => \A i, j \in 1 .. Len(clauses) : i < j => ~InsideIn(il, clauses[j], clauses[i]))
<1>1. ClausesInGraph <=> (~invalid => \A i \in 1 .. Len(clauses) : RangesIn(il, clauses[i]))
  BY DEF ClausesInGraph, RangesIn, Pos, PlaceIn
<1>2. NestedTries <=> (~invalid /\ ~displaced => \A i, j \in 1 .. Len(clauses) : NestedIn(il, clauses[i], clauses[j]))
  BY DEF NestedTries, NestedIn, Pos, PlaceIn
<1>3. ClauseOrder <=> (~invalid /\ ~displaced => \A i, j \in 1 .. Len(clauses) : i < j => ~InsideIn(il, clauses[j], clauses[i]))
  BY DEF ClauseOrder, Inside, InsideIn, Pos, PlaceIn
<1> QED BY <1>1, <1>2, <1>3

\* The same after a step.
LEMMA ByPlaceNext ==
    /\ ClausesInGraph' <=> (~invalid' => \A i \in 1 .. Len(clauses') : RangesIn(il', clauses'[i]))
    /\ NestedTries' <=> (~invalid' /\ ~displaced' => \A i, j \in 1 .. Len(clauses') : NestedIn(il', clauses'[i], clauses'[j]))
    /\ ClauseOrder' <=> (~invalid' /\ ~displaced' => \A i, j \in 1 .. Len(clauses') : i < j => ~InsideIn(il', clauses'[j], clauses'[i]))
<1>1. ClausesInGraph' <=> (~invalid' => \A i \in 1 .. Len(clauses') : RangesIn(il', clauses'[i]))
  BY DEF ClausesInGraph, RangesIn, Pos, PlaceIn
<1>2. NestedTries' <=> (~invalid' /\ ~displaced' => \A i, j \in 1 .. Len(clauses') : NestedIn(il', clauses'[i], clauses'[j]))
  BY DEF NestedTries, NestedIn, Pos, PlaceIn
<1>3. ClauseOrder' <=> (~invalid' /\ ~displaced' => \A i, j \in 1 .. Len(clauses') : i < j => ~InsideIn(il', clauses'[j], clauses'[i]))
  BY DEF ClauseOrder, Inside, InsideIn, Pos, PlaceIn
<1> QED BY <1>1, <1>2, <1>3

\* The place of the instruction at a place.
LEMMA PlaceOf ==
    ASSUME NEW s \in Seq(Instrs), Injective(s), NEW k \in 1 .. Len(s)
    PROVE  s[k] \in Range(s) /\ (CHOOSE i \in 1 .. Len(s) : s[i] = s[k]) = k
<1> DEFINE c == CHOOSE i \in 1 .. Len(s) : s[i] = s[k]
<1>1. c \in 1 .. Len(s) /\ s[c] = s[k]
  OBVIOUS
<1>2. c = k
  <2> HIDE DEF c
  <2> QED BY <1>1 DEF Injective
<1> QED BY <1>2 DEF Range

\* What a clause of a valid method refers to.
LEMMA ClauseFields ==
    ASSUME LinkInv, ClauseInv, ~invalid, NEW i \in 1 .. Len(clauses)
    PROVE  LET c == clauses[i] IN
           /\ c \in Clauses
           /\ \A f \in Fields : c[f] \in Range(il) \/ (f = "filterFirst" /\ c[f] = Null)
           /\ \A f \in Fields : c[f] \in Range(il) => Pos(c[f]) \in 1 .. Len(il) /\ il[Pos(c[f])] = c[f]
           /\ Pos(c["tryFirst"]) \in 1 .. Len(il) /\ Pos(c["tryLast"]) \in 1 .. Len(il)
           /\ Pos(c["handlerFirst"]) \in 1 .. Len(il) /\ Pos(c["handlerLast"]) \in 1 .. Len(il)
           /\ Pos(c["tryFirst"]) <= Pos(c["tryLast"])
           /\ Pos(c["handlerFirst"]) <= Pos(c["handlerLast"])
<1> DEFINE c == clauses[i]
<1>1. c \in Clauses /\ il \in Seq(Instrs)
  BY DEF ClauseInv, LinkInv, LinkTypes
<1>2. /\ \A f \in Fields : c[f] \in Range(il) \cup ({Null} \cap {c["filterFirst"]})
      /\ Pos(c["tryFirst"]) <= Pos(c["tryLast"]) /\ Pos(c["handlerFirst"]) <= Pos(c["handlerLast"])
  BY DEF ClauseInv, ClausesInGraph
<1>3. \A f \in Fields : f # "filterFirst" => c[f] # Null
  BY <1>1 DEF Clauses
<1> HIDE DEF c
<1>4. \A f \in Fields : c[f] \in Range(il) \/ (f = "filterFirst" /\ c[f] = Null)
  BY <1>2, <1>3
<1>5. \A f \in Fields : c[f] \in Range(il) => Pos(c[f]) \in 1 .. Len(il) /\ il[Pos(c[f])] = c[f]
  BY <1>1, PosOfMember
<1>6. {"tryFirst", "tryLast", "handlerFirst", "handlerLast"} \subseteq Fields
  BY DEF Fields, FirstFields
<1>7. /\ Pos(c["tryFirst"]) \in 1 .. Len(il) /\ Pos(c["tryLast"]) \in 1 .. Len(il)
      /\ Pos(c["handlerFirst"]) \in 1 .. Len(il) /\ Pos(c["handlerLast"]) \in 1 .. Len(il)
  BY <1>4, <1>5, <1>6
<1> QED BY <1>1, <1>2, <1>4, <1>5, <1>7 DEF c

\* Ranges that are carried in order are ranges.
LEMMA CarriedRanges ==
    ASSUME LinkInv, ClauseInv, NEW mf, NEW ml, clauses' \in Seq(Clauses), {invalid', displaced'} \subseteq BOOLEAN,
           ~invalid' => ~invalid /\ Carried(mf, ml),
           \A a, b \in 1 .. Len(il) : a <= b => mf[a] <= ml[b]
    PROVE  ClauseInv'
<1> SUFFICES ASSUME ~invalid', NEW i \in 1 .. Len(clauses')
             PROVE  LET c == clauses'[i] IN
                    /\ \A f \in Fields : c[f] \in Range(il') \cup ({Null} \cap {c["filterFirst"]})
                    /\ Pos(clauses[i]["tryFirst"])' <= Pos(clauses[i]["tryLast"])'
                    /\ Pos(clauses[i]["handlerFirst"])' <= Pos(clauses[i]["handlerLast"])'
  BY DEF ClauseInv, ClausesInGraph
<1> DEFINE c == clauses[i]
<1>1. i \in 1 .. Len(clauses) /\ ~invalid
  BY DEF Carried
<1>2. /\ \A f \in Fields : c[f] \in Range(il) \/ (f = "filterFirst" /\ c[f] = Null)
      /\ Pos(c["tryFirst"]) \in 1 .. Len(il) /\ Pos(c["tryLast"]) \in 1 .. Len(il)
      /\ Pos(c["handlerFirst"]) \in 1 .. Len(il) /\ Pos(c["handlerLast"]) \in 1 .. Len(il)
      /\ Pos(c["tryFirst"]) <= Pos(c["tryLast"]) /\ Pos(c["handlerFirst"]) <= Pos(c["handlerLast"])
  BY <1>1, ClauseFields
<1>3. /\ \A f \in FirstFields : c[f] \in Range(il) =>
            clauses'[i][f] \in Range(il') /\ Pos(clauses[i][f])' = mf[Pos(c[f])]
      /\ c["filterFirst"] = Null => clauses'[i]["filterFirst"] = Null
      /\ \A f \in LastFields : c[f] \in Range(il) =>
            clauses'[i][f] \in Range(il') /\ Pos(clauses[i][f])' = ml[Pos(c[f])]
  <2>1. \A f \in Fields : Pos(c[f]) = PlaceIn(il, c[f]) /\ Pos(clauses[i][f])' = PlaceIn(il', clauses'[i][f])
    BY DEF Pos, PlaceIn
  <2>2. FirstFields \subseteq Fields /\ LastFields \subseteq Fields
    BY DEF Fields, FirstFields, LastFields
  <2> QED BY <1>1, <2>1, <2>2 DEF Carried
<1>4. Fields = FirstFields \cup LastFields /\ "filterFirst" \in FirstFields
  BY DEF Fields, FirstFields, LastFields
<1>5. \A f \in Fields : clauses'[i][f] \in Range(il') \cup ({Null} \cap {clauses'[i]["filterFirst"]})
  <2> HIDE DEF c
  <2> QED BY <1>2, <1>3, <1>4
<1>6. {"tryFirst", "handlerFirst"} \subseteq FirstFields /\ {"tryLast", "handlerLast"} \subseteq LastFields
  BY DEF FirstFields, LastFields
<1>7. /\ Pos(clauses[i]["tryFirst"])' = mf[Pos(c["tryFirst"])] /\ Pos(clauses[i]["tryLast"])' = ml[Pos(c["tryLast"])]
      /\ Pos(clauses[i]["handlerFirst"])' = mf[Pos(c["handlerFirst"])]
      /\ Pos(clauses[i]["handlerLast"])' = ml[Pos(c["handlerLast"])]
  <2>1. c["tryFirst"] \in Range(il) /\ c["tryLast"] \in Range(il) /\ c["handlerFirst"] \in Range(il) /\ c["handlerLast"] \in Range(il)
    <3> HIDE DEF c
    <3> QED BY <1>2, <1>4, <1>6
  <2> QED BY <1>3, <1>6, <2>1
<1> HIDE DEF c
<1> QED BY <1>2, <1>5, <1>7

\* Ranges that are carried in order stay nested, and in the order of the clauses, also when two beginnings meet.
LEMMA CarriedOrder ==
    ASSUME LinkInv, ClauseInv, OrderInv, NEW mf \in [1 .. Len(il) -> Int], NEW ml \in [1 .. Len(il) -> Int],
           ~invalid' /\ ~displaced' => ~invalid /\ ~displaced /\ Carried(mf, ml),
           NEW begins, NEW ends,
           ~invalid' /\ ~displaced' => \A i \in 1 .. Len(clauses) :
                Pos(clauses[i]["tryFirst"]) \in begins /\ Pos(clauses[i]["tryLast"]) \in ends,
           \A a, b \in begins : a <= b => mf[a] <= mf[b],
           \A a, b \in ends : a <= b <=> ml[a] <= ml[b],
           \A a \in begins, b \in ends : a <= b <=> mf[a] <= ml[b]
    PROVE  OrderInv'
<1> SUFFICES ASSUME ~invalid', ~displaced', NEW i \in 1 .. Len(clauses'), NEW j \in 1 .. Len(clauses')
             PROVE  LET a == Pos(clauses[i]["tryFirst"])'
                        z == Pos(clauses[i]["tryLast"])'
                        b == Pos(clauses[j]["tryFirst"])'
                        y == Pos(clauses[j]["tryLast"])'
                    IN  /\ z < b \/ y < a \/ (b <= a /\ z <= y) \/ (a <= b /\ y <= z)
                        /\ i < j => ~Inside(clauses[j], clauses[i])'
  BY DEF OrderInv, ClauseOrder, NestedTries
<1> DEFINE a == Pos(clauses[i]["tryFirst"])
           z == Pos(clauses[i]["tryLast"])
           b == Pos(clauses[j]["tryFirst"])
           y == Pos(clauses[j]["tryLast"])
           N == Len(il)
<1>1. i \in 1 .. Len(clauses) /\ j \in 1 .. Len(clauses) /\ ~invalid /\ ~displaced /\ Carried(mf, ml)
  BY DEF Carried
<1>2. /\ clauses[i]["tryFirst"] \in Range(il) /\ clauses[i]["tryLast"] \in Range(il)
      /\ clauses[j]["tryFirst"] \in Range(il) /\ clauses[j]["tryLast"] \in Range(il)
      /\ a \in begins \cap 1 .. N /\ z \in ends \cap 1 .. N /\ b \in begins \cap 1 .. N /\ y \in ends \cap 1 .. N
      /\ a <= z /\ b <= y
  <2>1. "tryFirst" \in Fields /\ "tryLast" \in Fields /\ "tryFirst" # "filterFirst" /\ "tryLast" # "filterFirst"
    BY DEF Fields, FirstFields
  <2> QED BY <1>1, <2>1, ClauseFields
<1>3. /\ Pos(clauses[i]["tryFirst"])' = mf[a] /\ Pos(clauses[i]["tryLast"])' = ml[z]
      /\ Pos(clauses[j]["tryFirst"])' = mf[b] /\ Pos(clauses[j]["tryLast"])' = ml[y]
  <2>1. "tryFirst" \in FirstFields /\ "tryLast" \in LastFields
    BY DEF FirstFields, LastFields
  <2>2. /\ Pos(clauses[i]["tryFirst"])' = PlaceIn(il', clauses'[i]["tryFirst"]) /\ a = PlaceIn(il, clauses[i]["tryFirst"])
        /\ Pos(clauses[i]["tryLast"])' = PlaceIn(il', clauses'[i]["tryLast"]) /\ z = PlaceIn(il, clauses[i]["tryLast"])
        /\ Pos(clauses[j]["tryFirst"])' = PlaceIn(il', clauses'[j]["tryFirst"]) /\ b = PlaceIn(il, clauses[j]["tryFirst"])
        /\ Pos(clauses[j]["tryLast"])' = PlaceIn(il', clauses'[j]["tryLast"]) /\ y = PlaceIn(il, clauses[j]["tryLast"])
    BY DEF Pos, PlaceIn
  <2> QED BY <1>1, <1>2, <2>1, <2>2 DEF Carried
<1>4. z < b \/ y < a \/ (b <= a /\ z <= y) \/ (a <= b /\ y <= z)
  BY <1>1 DEF OrderInv, NestedTries
<1>5. i < j /\ a <= b /\ y <= z => a = b /\ y = z
  <2> SUFFICES ASSUME i < j, a <= b, y <= z PROVE a = b /\ y = z
    OBVIOUS
  <2>1. ~Inside(clauses[j], clauses[i])
    BY <1>1 DEF OrderInv, ClauseOrder
  <2>2. clauses[i]["tryFirst"] = clauses[j]["tryFirst"] /\ clauses[i]["tryLast"] = clauses[j]["tryLast"]
    BY <2>1 DEF Inside
  <2> QED BY <2>2
<1>6. Inside(clauses[j], clauses[i])' => mf[a] <= mf[b] /\ ml[y] <= ml[z] /\ (mf[a] # mf[b] \/ ml[y] # ml[z])
  <2> SUFFICES ASSUME Inside(clauses[j], clauses[i])'
               PROVE  mf[a] <= mf[b] /\ ml[y] <= ml[z] /\ (mf[a] # mf[b] \/ ml[y] # ml[z])
    OBVIOUS
  <2>1. mf[a] <= mf[b] /\ ml[y] <= ml[z]
    BY <1>3 DEF Inside
  <2>2. ~(clauses'[i]["tryFirst"] = clauses'[j]["tryFirst"] /\ clauses'[i]["tryLast"] = clauses'[j]["tryLast"])
    BY DEF Inside
  <2>3. /\ clauses'[i]["tryFirst"] \in Range(il') /\ clauses'[j]["tryFirst"] \in Range(il')
        /\ clauses'[i]["tryLast"] \in Range(il') /\ clauses'[j]["tryLast"] \in Range(il')
    <3>1. "tryFirst" \in FirstFields /\ "tryLast" \in LastFields
      BY DEF FirstFields, LastFields
    <3> QED BY <1>1, <1>2, <3>1 DEF Carried
  <2>4. \A x \in Range(il') : il'[Pos(x)'] = x
    BY DEF Pos, Range
  <2>5. mf[a] = mf[b] => clauses'[i]["tryFirst"] = clauses'[j]["tryFirst"]
    BY <1>3, <2>3, <2>4
  <2>6. ml[y] = ml[z] => clauses'[i]["tryLast"] = clauses'[j]["tryLast"]
    BY <1>3, <2>3, <2>4
  <2> QED BY <2>1, <2>2, <2>5, <2>6
<1> HIDE DEF a, z, b, y, N
<1>7. mf[a] \in Int /\ mf[b] \in Int /\ ml[z] \in Int /\ ml[y] \in Int /\ N \in Nat
  <2>1. N \in Nat
    BY DEF LinkInv, LinkTypes, N
  <2>2. mf \in [1 .. N -> Int] /\ ml \in [1 .. N -> Int]
    BY DEF N
  <2> QED BY <1>2, <2>1, <2>2
<1>8. /\ (a <= b => mf[a] <= mf[b]) /\ (b <= a => mf[b] <= mf[a])
      /\ (z <= y <=> ml[z] <= ml[y]) /\ (y <= z <=> ml[y] <= ml[z])
      /\ (a <= y <=> mf[a] <= ml[y]) /\ (b <= z <=> mf[b] <= ml[z])
      /\ (a <= z <=> mf[a] <= ml[z]) /\ (b <= y <=> mf[b] <= ml[y])
  BY <1>2 DEF N
<1>9. ml[z] < mf[b] \/ ml[y] < mf[a] \/ (mf[b] <= mf[a] /\ ml[z] <= ml[y]) \/ (mf[a] <= mf[b] /\ ml[y] <= ml[z])
  BY <1>2, <1>4, <1>7, <1>8
<1>10. i < j => ~(mf[a] <= mf[b] /\ ml[y] <= ml[z] /\ (mf[a] # mf[b] \/ ml[y] # ml[z]))
  BY <1>2, <1>4, <1>5, <1>7, <1>8
<1> QED BY <1>3, <1>6, <1>9, <1>10 DEF a, z, b, y

\* Every place of s is found.
LEMMA Places ==
    ASSUME NEW s \in Seq(Instrs), Injective(s)
    PROVE  /\ Len(s) \in Nat /\ Range(s) \subseteq Instrs
           /\ \A x \in Range(s) : PlaceIn(s, x) \in 1 .. Len(s) /\ s[PlaceIn(s, x)] = x
           /\ \A k \in 1 .. Len(s), x \in Instrs : s[k] = x => x \in Range(s) /\ PlaceIn(s, x) = k
<1>1. \A x \in Range(s) : PlaceIn(s, x) \in 1 .. Len(s) /\ s[PlaceIn(s, x)] = x
  BY DEF PlaceIn, Range
<1>2. ASSUME NEW k \in 1 .. Len(s), NEW x \in Instrs, s[k] = x PROVE x \in Range(s) /\ PlaceIn(s, x) = k
  BY <1>2, PlaceOf DEF PlaceIn
<1>3. Len(s) \in Nat /\ Range(s) \subseteq Instrs
  BY DEF Range
<1> QED BY <1>1, <1>2, <1>3

\* The places after an insertion.
LEMMA InsertPlaces ==
    ASSUME NEW s \in Seq(Instrs), Injective(s), NEW p \in 1 .. Len(s) + 1, NEW n \in Instrs, n \notin Range(s),
           NEW t, t = InsertAt(s, p, n)
    PROVE  /\ \A x \in Range(s) : x \in Range(t) /\ PlaceIn(t, x) = IF PlaceIn(s, x) < p THEN PlaceIn(s, x) ELSE PlaceIn(s, x) + 1
           /\ n \in Range(t) /\ PlaceIn(t, n) = p
<1>1. /\ t \in Seq(Instrs) /\ Injective(t) /\ Len(t) = Len(s) + 1
      /\ \A j \in 1 .. Len(s) + 1 : t[j] = IF j < p THEN s[j] ELSE IF j = p THEN n ELSE s[j - 1]
  BY InsertAtFacts
<1>2. /\ Len(s) \in Nat /\ \A x \in Range(s) : PlaceIn(s, x) \in 1 .. Len(s) /\ s[PlaceIn(s, x)] = x
      /\ Range(s) \subseteq Instrs
  BY Places
<1>3. \A k \in 1 .. Len(t), x \in Instrs : t[k] = x => x \in Range(t) /\ PlaceIn(t, x) = k
  BY <1>1, Places
<1>4. ASSUME NEW x \in Range(s)
      PROVE  x \in Range(t) /\ PlaceIn(t, x) = IF PlaceIn(s, x) < p THEN PlaceIn(s, x) ELSE PlaceIn(s, x) + 1
  <2>1. PICK k \in 1 .. Len(s) : k = PlaceIn(s, x) /\ s[k] = x
    BY <1>2
  <2>2. CASE k < p
    <3>1. t[k] = x /\ k \in 1 .. Len(t)
      BY <1>1, <1>2, <2>1, <2>2
    <3> QED BY <1>2, <1>3, <2>1, <2>2, <3>1
  <2>3. CASE ~(k < p)
    <3>1. k + 1 \in 1 .. Len(s) + 1 /\ ~(k + 1 < p) /\ k + 1 # p /\ (k + 1) - 1 = k
      BY <1>2, <2>3
    <3>2. t[k + 1] = x /\ k + 1 \in 1 .. Len(t)
      BY <1>1, <2>1, <3>1
    <3> QED BY <1>2, <1>3, <2>1, <2>3, <3>2
  <2> QED BY <2>2, <2>3
<1>5. t[p] = n /\ p \in 1 .. Len(t)
  BY <1>1
<1> QED BY <1>3, <1>4, <1>5

\* The places after a replacement.
LEMMA ReplacePlaces ==
    ASSUME NEW s \in Seq(Instrs), Injective(s), NEW p \in 1 .. Len(s), NEW n \in Instrs, n \notin Range(s),
           NEW t \in Seq(Instrs), Injective(t), Len(t) = Len(s), \A j \in 1 .. Len(s) : t[j] = IF j = p THEN n ELSE s[j]
    PROVE  /\ \A x \in Range(s) : x # s[p] => x \in Range(t) /\ PlaceIn(t, x) = PlaceIn(s, x)
           /\ n \in Range(t) /\ PlaceIn(t, n) = p
<1>1. Len(t) = Len(s) /\ \A j \in 1 .. Len(s) : t[j] = IF j = p THEN n ELSE s[j]
  OBVIOUS
<1>2. /\ Len(s) \in Nat /\ \A x \in Range(s) : PlaceIn(s, x) \in 1 .. Len(s) /\ s[PlaceIn(s, x)] = x
      /\ Range(s) \subseteq Instrs
  BY Places
<1>3. \A k \in 1 .. Len(t), x \in Instrs : t[k] = x => x \in Range(t) /\ PlaceIn(t, x) = k
  BY Places
<1>4. ASSUME NEW x \in Range(s), x # s[p] PROVE x \in Range(t) /\ PlaceIn(t, x) = PlaceIn(s, x)
  <2>1. PICK k \in 1 .. Len(s) : k = PlaceIn(s, x) /\ s[k] = x
    BY <1>2
  <2>2. t[k] = x /\ k \in 1 .. Len(t)
    BY <1>1, <1>4, <2>1
  <2> QED BY <1>2, <1>3, <2>1, <2>2
<1>5. t[p] = n /\ p \in 1 .. Len(t)
  BY <1>1
<1> QED BY <1>3, <1>4, <1>5

\* The places after a removal.
LEMMA DeletePlaces ==
    ASSUME NEW s \in Seq(Instrs), Injective(s), NEW p \in 1 .. Len(s), NEW t, t = DeleteAt(s, p)
    PROVE  \A x \in Range(s) : x # s[p] =>
                x \in Range(t) /\ PlaceIn(t, x) = IF PlaceIn(s, x) < p THEN PlaceIn(s, x) ELSE PlaceIn(s, x) - 1
<1>1. /\ t \in Seq(Instrs) /\ Injective(t) /\ Len(t) = Len(s) - 1
      /\ \A j \in 1 .. Len(s) - 1 : t[j] = IF j < p THEN s[j] ELSE s[j + 1]
  BY DeleteAtFacts
<1>2. /\ Len(s) \in Nat /\ \A x \in Range(s) : PlaceIn(s, x) \in 1 .. Len(s) /\ s[PlaceIn(s, x)] = x
      /\ Range(s) \subseteq Instrs
  BY Places
<1>3. \A k \in 1 .. Len(t), x \in Instrs : t[k] = x => x \in Range(t) /\ PlaceIn(t, x) = k
  BY <1>1, Places
<1>4. ASSUME NEW x \in Range(s), x # s[p]
      PROVE  x \in Range(t) /\ PlaceIn(t, x) = IF PlaceIn(s, x) < p THEN PlaceIn(s, x) ELSE PlaceIn(s, x) - 1
  <2>1. PICK k \in 1 .. Len(s) : k = PlaceIn(s, x) /\ s[k] = x
    BY <1>2
  <2>2. k # p
    BY <1>4, <2>1
  <2>3. CASE k < p
    <3>1. t[k] = x /\ k \in 1 .. Len(t)
      BY <1>1, <1>2, <2>1, <2>3
    <3> QED BY <1>2, <1>3, <2>1, <2>3, <3>1
  <2>4. CASE p < k
    <3>1. k - 1 \in 1 .. Len(s) - 1 /\ ~(k - 1 < p) /\ (k - 1) + 1 = k
      BY <1>2, <2>4
    <3>2. t[k - 1] = x /\ k - 1 \in 1 .. Len(t)
      BY <1>1, <2>1, <3>1
    <3> QED BY <1>2, <1>3, <2>1, <2>4, <3>2
  <2> QED BY <2>2, <2>3, <2>4
<1> QED BY <1>4

\* CExceptionSection::UpdateInstruction.
LEMMA UpdatedClauses ==
    ASSUME clauses \in Seq(Clauses), NEW o \in Instrs, NEW n \in Instrs, NEW gone, UpdateClauses(o, n, gone)
    PROVE  /\ clauses' \in Seq(Clauses) /\ Len(clauses') = Len(clauses)
           /\ \A i \in 1 .. Len(clauses) : \A f \in Fields :
                clauses'[i][f] = IF clauses[i][f] = o /\ (f \in FirstFields \/ o \in gone) THEN n ELSE clauses[i][f]
<1> DEFINE new(i) == UpdateInstruction(clauses[i], o, n, gone)
<1>1. Len(clauses) \in Nat /\ \A i \in 1 .. Len(clauses) : clauses[i] \in Clauses
  OBVIOUS
<1>2. clauses' = [i \in 1 .. Len(clauses) |-> new(i)]
  BY DEF UpdateClauses
<1>3. \A i \in 1 .. Len(clauses) : /\ new(i) \in [Fields -> Pointers]
                                   /\ \A f \in Fields : new(i)[f] = IF clauses[i][f] = o /\ (f \in FirstFields \/ o \in gone)
                                                                    THEN n ELSE clauses[i][f]
  BY <1>1 DEF UpdateInstruction, Clauses, Pointers
<1>4. n # Null
  BY CodeAssumption
<1>5. \A i \in 1 .. Len(clauses) : new(i) \in Clauses
  BY <1>1, <1>3, <1>4 DEF Clauses
<1> HIDE DEF new
<1>6. clauses' \in Seq(Clauses) /\ Len(clauses') = Len(clauses) /\ \A i \in 1 .. Len(clauses) : clauses'[i] = new(i)
  BY <1>1, <1>2, <1>5
<1> QED BY <1>3, <1>6

\* The inductive invariant of the exception section.
ClauseInvs == ClauseInv /\ OrderInv

\* Steps that leave the list and the clauses alone.
LEMMA ClausesUnchanged ==
    ASSUME ClauseInvs, UNCHANGED <<il, ranges>>
    PROVE  ClauseInvs'
<1>1. il' = il /\ clauses' = clauses /\ invalid' = invalid /\ displaced' = displaced
  BY DEF ranges
<1>2. \A i \in 1 .. Len(clauses), f \in Fields : Pos(clauses[i][f])' = Pos(clauses[i][f])
  BY <1>1 DEF Pos
<1>3. {"tryFirst", "tryLast", "handlerFirst", "handlerLast"} \subseteq Fields
  BY DEF Fields, FirstFields
<1>4. ClauseInv'
  BY <1>1, <1>2, <1>3 DEF ClauseInvs, ClauseInv, ClausesInGraph
<1>5. ClauseOrder'
  BY <1>1, <1>2, <1>3 DEF ClauseInvs, OrderInv, ClauseOrder, Inside
<1>6. NestedTries'
  BY <1>1, <1>2, <1>3 DEF ClauseInvs, OrderInv, NestedTries
<1> QED BY <1>4, <1>5, <1>6 DEF ClauseInvs, OrderInv

\* Steps after which there is no clause, or a program that was reported invalid.
LEMMA ClausesGone ==
    ASSUME clauses' = <<>> \/ (invalid' = TRUE /\ clauses' \in Seq(Clauses)), {invalid', displaced'} \subseteq BOOLEAN
    PROVE  ClauseInvs'
<1>1. CASE clauses' = <<>>
  BY <1>1 DEF ClauseInvs, ClauseInv, OrderInv, ClausesInGraph, ClauseOrder, NestedTries
<1>2. CASE invalid' = TRUE /\ clauses' \in Seq(Clauses)
  BY <1>2 DEF ClauseInvs, ClauseInv, OrderInv, ClausesInGraph, ClauseOrder, NestedTries
<1> QED BY <1>1, <1>2

\* InsertBefore and InsertAfter: ranges stay with their instructions.
LEMMA InsertKeepsClauses ==
    ASSUME LinkInv, ClauseInvs, NEW p \in 1 .. Len(il) + 1, NEW n \in Instrs, n \notin Range(il),
           il' = InsertAt(il, p, n), UNCHANGED ranges
    PROVE  ClauseInvs'
<1> DEFINE m == [k \in 1 .. Len(il) |-> IF k < p THEN k ELSE k + 1]
<1>1. il \in Seq(Instrs) /\ Injective(il) /\ Len(il) \in Nat
  BY DEF LinkInv, LinkTypes, WellLinked
<1>2. clauses' = clauses /\ invalid' = invalid /\ displaced' = displaced
  BY DEF ranges
<1>3. clauses \in Seq(Clauses) /\ {invalid, displaced} \subseteq BOOLEAN /\ ClauseInv /\ OrderInv
  BY DEF ClauseInvs, ClauseInv
<1>4. \A x \in Range(il) : x \in Range(il') /\ PlaceIn(il', x) = IF PlaceIn(il, x) < p THEN PlaceIn(il, x) ELSE PlaceIn(il, x) + 1
  BY <1>1, InsertPlaces
<1>5. \A x \in Range(il) : PlaceIn(il', x) = m[PlaceIn(il, x)]
  BY <1>1, <1>4, Places
<1>6. m \in [1 .. Len(il) -> Int] /\ \A a, b \in 1 .. Len(il) : a <= b <=> m[a] <= m[b]
  BY <1>1
<1> HIDE DEF m
<1>7. Carried(m, m)
  BY <1>2, <1>4, <1>5 DEF Carried
<1>8. \A i \in 1 .. Len(clauses) : ~invalid => Pos(clauses[i]["tryFirst"]) \in 1 .. Len(il) /\ Pos(clauses[i]["tryLast"]) \in 1 .. Len(il)
  BY <1>3, ClauseFields
<1>9. ClauseInv'
  BY <1>2, <1>3, <1>6, <1>7, CarriedRanges
<1>10. OrderInv'
  BY <1>2, <1>3, <1>6, <1>7, <1>8, CarriedOrder
<1> QED BY <1>9, <1>10 DEF ClauseInvs

\* InsertBeforeAndRetargetOffsets: ranges begin with the new instruction, and end with it only if o was removed once.
LEMMA RetargetKeepsClauses ==
    ASSUME LinkInv, ClauseInvs, NEW o \in Range(il), NEW n \in Instrs, Insertable(n), InsertBeforeAndRetargetOffsets(o, n)
    PROVE  ClauseInvs'
<1> DEFINE p == Pos(o)
           N == Len(il)
           mf == [k \in 1 .. N |-> IF k <= p THEN k ELSE k + 1]
           ml == [k \in 1 .. N |-> IF k < p \/ (k = p /\ o \in removed) THEN k ELSE k + 1]
<1>1. il \in Seq(Instrs) /\ Injective(il) /\ N \in Nat /\ n \notin Range(il) /\ o \in Instrs
  BY DEF LinkInv, LinkTypes, WellLinked, Insertable
<1>2. invalid' = invalid /\ displaced' = displaced /\ UpdateClauses(o, n, removed) /\ il' = InsertAt(il, p, n)
  BY DEF InsertBeforeAndRetargetOffsets, LinkBefore
<1>3. clauses \in Seq(Clauses) /\ {invalid, displaced} \subseteq BOOLEAN /\ ClauseInv /\ OrderInv
  BY DEF ClauseInvs, ClauseInv
<1>4. /\ clauses' \in Seq(Clauses) /\ Len(clauses') = Len(clauses)
      /\ \A i \in 1 .. Len(clauses) : \A f \in Fields :
            clauses'[i][f] = IF clauses[i][f] = o /\ (f \in FirstFields \/ o \in removed) THEN n ELSE clauses[i][f]
  BY <1>1, <1>2, <1>3, UpdatedClauses
<1>5. p \in 1 .. N /\ il[p] = o /\ p = PlaceIn(il, o)
  BY <1>1, PosOfMember DEF Pos, PlaceIn
<1>6. /\ \A x \in Range(il) : x \in Range(il') /\ PlaceIn(il', x) = IF PlaceIn(il, x) < p THEN PlaceIn(il, x) ELSE PlaceIn(il, x) + 1
      /\ n \in Range(il') /\ PlaceIn(il', n) = p
  <2> HIDE DEF p
  <2> QED BY <1>1, <1>2, <1>5, InsertPlaces
<1>7. \A x \in Range(il) : PlaceIn(il, x) \in 1 .. N /\ il[PlaceIn(il, x)] = x
  BY <1>1, Places
<1> HIDE DEF p
<1>8. ASSUME NEW x \in Range(il)
      PROVE  /\ (x = o => mf[PlaceIn(il, x)] = PlaceIn(il', n)) /\ (x # o => mf[PlaceIn(il, x)] = PlaceIn(il', x))
             /\ (x = o /\ o \in removed => ml[PlaceIn(il, x)] = PlaceIn(il', n))
             /\ (~(x = o /\ o \in removed) => ml[PlaceIn(il, x)] = PlaceIn(il', x))
  <2>1. PICK k \in 1 .. N : k = PlaceIn(il, x) /\ (x = o <=> k = p)
    BY <1>5, <1>7
  <2>2. PlaceIn(il', x) = IF k < p THEN k ELSE k + 1
    BY <1>6, <2>1
  <2> QED BY <1>1, <1>5, <1>6, <2>1, <2>2
<1>9. /\ mf \in [1 .. N -> Int] /\ ml \in [1 .. N -> Int]
      /\ \A a, b \in 1 .. N : (a <= b <=> mf[a] <= mf[b]) /\ (a <= b <=> ml[a] <= ml[b]) /\ (a <= b <=> mf[a] <= ml[b])
  BY <1>1, <1>5
<1> HIDE DEF mf, ml, N
<1>10. Carried(mf, ml)
  <2>1. FirstFields \subseteq Fields /\ LastFields \subseteq Fields /\ FirstFields \cap LastFields = {} /\ "filterFirst" \in FirstFields
    BY DEF Fields, FirstFields, LastFields
  <2>2. o # Null
    BY <1>1, CodeAssumption
  <2>3. ASSUME NEW i \in 1 .. Len(clauses), NEW f \in FirstFields, clauses[i][f] \in Range(il)
        PROVE  clauses'[i][f] \in Range(il') /\ PlaceIn(il', clauses'[i][f]) = mf[PlaceIn(il, clauses[i][f])]
    BY <1>4, <1>6, <1>8, <2>1, <2>3
  <2>4. ASSUME NEW i \in 1 .. Len(clauses), NEW f \in LastFields, clauses[i][f] \in Range(il)
        PROVE  clauses'[i][f] \in Range(il') /\ PlaceIn(il', clauses'[i][f]) = ml[PlaceIn(il, clauses[i][f])]
    BY <1>4, <1>6, <1>8, <2>1, <2>4
  <2>5. \A i \in 1 .. Len(clauses) : clauses[i]["filterFirst"] = Null => clauses'[i]["filterFirst"] = Null
    BY <1>4, <2>1, <2>2
  <2> QED BY <1>4, <2>3, <2>4, <2>5 DEF Carried
<1>11. \A i \in 1 .. Len(clauses) : ~invalid => Pos(clauses[i]["tryFirst"]) \in 1 .. N /\ Pos(clauses[i]["tryLast"]) \in 1 .. N
  BY <1>3, ClauseFields DEF N
<1>12. ClauseInv'
  BY <1>2, <1>3, <1>4, <1>9, <1>10, CarriedRanges DEF N
<1>13. OrderInv'
  BY <1>2, <1>3, <1>9, <1>10, <1>11, CarriedOrder DEF N
<1> QED BY <1>12, <1>13 DEF ClauseInvs

\* Replace: ranges begin and end with the new instruction.
LEMMA ReplaceKeepsClauses ==
    ASSUME LinkInv, LinkInv', ClauseInvs, NEW o \in Range(il), NEW n \in Instrs, Insertable(n), Replace(o, n)
    PROVE  ClauseInvs'
<1> DEFINE p == Pos(o)
           N == Len(il)
           m == [k \in 1 .. N |-> k]
<1>1. /\ il \in Seq(Instrs) /\ Injective(il) /\ N \in Nat /\ n \notin Range(il) /\ o \in Instrs
      /\ il' \in Seq(Instrs) /\ Injective(il')
  BY DEF LinkInv, LinkTypes, WellLinked, Insertable
<1>2. /\ invalid' = invalid /\ displaced' = displaced /\ UpdateClauses(o, n, removed') /\ il' = [il EXCEPT ![p] = n]
      /\ o \in removed'
  BY DEF Replace
<1>3. clauses \in Seq(Clauses) /\ {invalid, displaced} \subseteq BOOLEAN /\ ClauseInv /\ OrderInv
  BY DEF ClauseInvs, ClauseInv
<1>4. /\ clauses' \in Seq(Clauses) /\ Len(clauses') = Len(clauses)
      /\ \A i \in 1 .. Len(clauses) : \A f \in Fields :
            clauses'[i][f] = IF clauses[i][f] = o THEN n ELSE clauses[i][f]
  BY <1>1, <1>2, <1>3, UpdatedClauses
<1>5. p \in 1 .. N /\ il[p] = o /\ p = PlaceIn(il, o)
  BY <1>1, PosOfMember DEF Pos, PlaceIn
<1>6. /\ \A x \in Range(il) : x # o => x \in Range(il') /\ PlaceIn(il', x) = PlaceIn(il, x)
      /\ n \in Range(il') /\ PlaceIn(il', n) = p
  <2> HIDE DEF p, N
  <2>1. Len(il') = Len(il) /\ \A j \in 1 .. Len(il) : il'[j] = IF j = p THEN n ELSE il[j]
    BY <1>1, <1>2
  <2>2. p \in 1 .. Len(il)
    BY <1>5 DEF N
  <2>3. /\ \A x \in Range(il) : x # il[p] => x \in Range(il') /\ PlaceIn(il', x) = PlaceIn(il, x)
        /\ n \in Range(il') /\ PlaceIn(il', n) = p
    BY <1>1, <2>1, <2>2, ReplacePlaces
  <2> QED BY <1>5, <2>3
<1>7. \A x \in Range(il) : PlaceIn(il, x) \in 1 .. N
  BY <1>1, Places
<1> HIDE DEF p
<1>8. \A x \in Range(il) : m[PlaceIn(il, x)] = PlaceIn(il, x)
  BY <1>7
<1>9. m \in [1 .. N -> Int] /\ \A a, b \in 1 .. N : a <= b <=> m[a] <= m[b]
  BY <1>1
<1> HIDE DEF m, N
<1>10. Carried(m, m)
  <2>1. FirstFields \subseteq Fields /\ LastFields \subseteq Fields /\ "filterFirst" \in FirstFields
    BY DEF Fields, FirstFields, LastFields
  <2>2. o # Null
    BY <1>1, CodeAssumption
  <2>3. ASSUME NEW i \in 1 .. Len(clauses), NEW f \in Fields, clauses[i][f] \in Range(il)
        PROVE  clauses'[i][f] \in Range(il') /\ PlaceIn(il', clauses'[i][f]) = m[PlaceIn(il, clauses[i][f])]
    BY <1>4, <1>5, <1>6, <1>8, <2>3
  <2>4. \A i \in 1 .. Len(clauses) : clauses[i]["filterFirst"] = Null => clauses'[i]["filterFirst"] = Null
    BY <1>4, <2>1, <2>2
  <2> QED BY <1>4, <2>1, <2>3, <2>4 DEF Carried
<1>11. \A i \in 1 .. Len(clauses) : ~invalid => Pos(clauses[i]["tryFirst"]) \in 1 .. N /\ Pos(clauses[i]["tryLast"]) \in 1 .. N
  BY <1>3, ClauseFields DEF N
<1>12. ClauseInv'
  BY <1>2, <1>3, <1>4, <1>9, <1>10, CarriedRanges DEF N
<1>13. OrderInv'
  BY <1>2, <1>3, <1>9, <1>10, <1>11, CarriedOrder DEF N
<1> QED BY <1>12, <1>13 DEF ClauseInvs

\* Remove: ranges that began or ended with o now do with the next instruction, or with the one before.
LEMMA RemoveKeepsClauses ==
    ASSUME LinkInv, ClauseInvs, NEW o \in Range(il), Remove(o)
    PROVE  ClauseInvs'
<1> DEFINE p == Pos(o)
           N == Len(il)
           h == HeirOf(o)
           m == [k \in 1 .. N |-> IF k < p \/ (k = p /\ p < N) THEN k ELSE k - 1]
<1>1. /\ il \in Seq(Instrs) /\ Injective(il) /\ N \in Nat /\ o \in Instrs /\ p \in 1 .. N /\ il[p] = o
      /\ p = PlaceIn(il, o)
  BY PosOfMember DEF LinkInv, LinkTypes, WellLinked, Pos, PlaceIn
<1>2. clauses \in Seq(Clauses) /\ invalid \in BOOLEAN /\ displaced \in BOOLEAN /\ ClauseInv /\ OrderInv
  BY DEF ClauseInvs, ClauseInv
<1>3. /\ next[o] = At(il, p + 1) /\ prev[o] = At(il, p - 1)
      /\ (prev[o] = Null <=> p = 1) /\ (next[o] = Null <=> p = N)
  BY LinksAtPos
<1>4. il' = DeleteAt(il, p) /\ o \in removed'
  BY DEF Remove
<1>5. /\ invalid' = (invalid \/ (next[o] = Null /\ prev[o] = Null))
      /\ displaced' = (displaced \/ \E i \in 1 .. Len(clauses) : o \in {clauses[i]["tryLast"], clauses[i]["handlerLast"]})
  BY DEF Remove
<1>6. invalid' \in BOOLEAN /\ displaced' \in BOOLEAN
  BY <1>5
<1>7. CASE next[o] = Null /\ prev[o] = Null
  <2>1. clauses' = clauses /\ invalid' = TRUE
    BY <1>5, <1>7 DEF Remove
  <2> QED BY <1>2, <1>6, <2>1, ClausesGone
<1>8. CASE ~(next[o] = Null /\ prev[o] = Null)
  <2>1. invalid' = invalid /\ UpdateClauses(o, h, removed')
    BY <1>2, <1>5, <1>8 DEF Remove
  <2>2. N > 1
    BY <1>1, <1>3, <1>8
  <2> DEFINE q == IF p < N THEN p + 1 ELSE p - 1
  <2>3. q \in 1 .. N /\ q # p /\ h = il[q]
    BY <1>1, <1>3, <2>2 DEF HeirOf, At
  <2>4. h \in Range(il) /\ h # o /\ PlaceIn(il, h) = q /\ h \in Instrs
    <3> HIDE DEF q, h, p
    <3>1. h \in Instrs
      BY <1>1, <2>3
    <3> QED BY <1>1, <2>3, <3>1, Places
  <2>5. \A x \in Range(il) : x # o =>
            x \in Range(il') /\ PlaceIn(il', x) = IF PlaceIn(il, x) < p THEN PlaceIn(il, x) ELSE PlaceIn(il, x) - 1
    <3> HIDE DEF p
    <3> QED BY <1>1, <1>4, DeletePlaces
  <2>6. /\ clauses' \in Seq(Clauses) /\ Len(clauses') = Len(clauses)
        /\ \A i \in 1 .. Len(clauses) : \A f \in Fields :
            clauses'[i][f] = IF clauses[i][f] = o THEN h ELSE clauses[i][f]
    BY <1>1, <1>2, <1>4, <2>1, <2>4, UpdatedClauses
  <2>7. \A x \in Range(il) : PlaceIn(il, x) \in 1 .. N /\ il[PlaceIn(il, x)] = x
    BY <1>1, Places
  <2> HIDE DEF p, h
  <2>8. PlaceIn(il', h) = m[p] /\ h \in Range(il')
    BY <1>1, <2>2, <2>4, <2>5
  <2>9. ASSUME NEW x \in Range(il), x # o PROVE PlaceIn(il', x) = m[PlaceIn(il, x)]
    <3>1. PICK k \in 1 .. N : k = PlaceIn(il, x) /\ k # p
      BY <1>1, <2>7, <2>9
    <3>2. PlaceIn(il', x) = IF k < p THEN k ELSE k - 1
      BY <2>5, <2>9, <3>1
    <3> QED BY <1>1, <3>1, <3>2
  <2>10. /\ m \in [1 .. N -> Int]
         /\ \A a, b \in 1 .. N : a <= b => m[a] <= m[b]
         /\ \A a, b \in (1 .. N) \ {p} : a <= b <=> m[a] <= m[b]
         /\ p < N => \A a \in 1 .. N, b \in (1 .. N) \ {p} : a <= b <=> m[a] <= m[b]
    BY <1>1
  <2> HIDE DEF m, N
  <2>11. Carried(m, m)
    <3>1. FirstFields \subseteq Fields /\ LastFields \subseteq Fields /\ "filterFirst" \in FirstFields
      BY DEF Fields, FirstFields, LastFields
    <3>2. o # Null
      BY <1>1, CodeAssumption
    <3>3. ASSUME NEW i \in 1 .. Len(clauses), NEW f \in Fields, clauses[i][f] \in Range(il)
          PROVE  clauses'[i][f] \in Range(il') /\ PlaceIn(il', clauses'[i][f]) = m[PlaceIn(il, clauses[i][f])]
      BY <1>1, <2>5, <2>6, <2>8, <2>9, <3>3
    <3>4. \A i \in 1 .. Len(clauses) : clauses[i]["filterFirst"] = Null => clauses'[i]["filterFirst"] = Null
      BY <2>6, <3>1, <3>2
    <3> QED BY <2>6, <3>1, <3>3, <3>4 DEF Carried
  <2>12. ClauseInv'
    BY <1>2, <1>6, <2>1, <2>6, <2>10, <2>11, CarriedRanges DEF N
  <2>13. ASSUME NEW i \in 1 .. Len(clauses), ~invalid', ~displaced'
         PROVE  /\ Pos(clauses[i]["tryLast"]) \in (1 .. N) \ {p}
                /\ Pos(clauses[i]["tryFirst"]) \in 1 .. N
                /\ ~(p < N) => Pos(clauses[i]["tryFirst"]) # p
    <3> DEFINE c == clauses[i]
    <3>1. /\ "tryLast" \in Fields
          /\ \A f \in Fields : c[f] \in Range(il) => Pos(c[f]) \in 1 .. N /\ il[Pos(c[f])] = c[f]
          /\ Pos(c["tryFirst"]) \in 1 .. N /\ Pos(c["tryLast"]) \in 1 .. N
          /\ Pos(c["tryFirst"]) <= Pos(c["tryLast"]) /\ (c["tryLast"] \in Range(il) \/ "tryLast" = "filterFirst")
      BY <1>2, <2>1, <2>13, ClauseFields DEF N, Fields, FirstFields
    <3>2. c["tryLast"] # o
      BY <1>5, <2>13
    <3>3. Pos(c["tryLast"]) # p
      BY <1>1, <3>1, <3>2
    <3> HIDE DEF c
    <3>4. ~(p < N) => Pos(c["tryFirst"]) # p
      BY <1>1, <3>1, <3>3
    <3> QED BY <3>1, <3>3, <3>4 DEF c
  <2>14. ~invalid' /\ ~displaced' => ~invalid /\ ~displaced /\ Carried(m, m)
    BY <1>5, <2>1, <2>11
  <2>15. OrderInv'
    <3>1. CASE p < N
      BY <1>2, <2>10, <2>13, <2>14, <3>1, CarriedOrder DEF N
    <3>2. CASE ~(p < N)
      BY <1>2, <2>10, <2>13, <2>14, <3>2, CarriedOrder DEF N
    <3> QED BY <3>1, <3>2
  <2> QED BY <2>12, <2>15 DEF ClauseInvs
<1> QED BY <1>7, <1>8

\* The clause that a caller makes of places of the list.
LEMMA ClauseAtFacts ==
    ASSUME LinkInv, NEW tf \in 1 .. Len(il), NEW tl \in 1 .. Len(il), NEW h \in 1 .. Len(il)
    PROVE  LET c == ClauseAt(tf, tl, h) IN
           /\ c \in Clauses
           /\ \A f \in Fields \ {"filterFirst"} : c[f] \in Range(il)
           /\ c["filterFirst"] = Null
           /\ Pos(c["tryFirst"]) = tf /\ Pos(c["tryLast"]) = tl
           /\ Pos(c["handlerFirst"]) = h /\ Pos(c["handlerLast"]) = h
<1> DEFINE c == ClauseAt(tf, tl, h)
<1>1. il \in Seq(Instrs) /\ Injective(il)
  BY DEF LinkInv, LinkTypes, WellLinked
<1>2. /\ il[tf] \in Instrs /\ il[tl] \in Instrs /\ il[h] \in Instrs
      /\ il[tf] \in Range(il) /\ il[tl] \in Range(il) /\ il[h] \in Range(il)
      /\ il[tf] # Null /\ il[tl] # Null /\ il[h] # Null
  BY <1>1, CodeAssumption DEF Range
<1>3. Pos(il[tf]) = tf /\ Pos(il[tl]) = tl /\ Pos(il[h]) = h
  BY <1>1, PlaceOf DEF Pos
<1>4. /\ c["tryFirst"] = il[tf] /\ c["tryLast"] = il[tl] /\ c["handlerFirst"] = il[h] /\ c["handlerLast"] = il[h]
      /\ c["filterFirst"] = Null /\ DOMAIN c = Fields /\ c = [f \in Fields |-> c[f]]
  BY DEF ClauseAt, Fields, FirstFields
<1>5. Fields = {"tryFirst", "tryLast", "handlerFirst", "handlerLast", "filterFirst"}
  BY DEF Fields, FirstFields
<1> HIDE DEF c
<1>6. \A f \in Fields \ {"filterFirst"} : c[f] \in Range(il) /\ c[f] # Null /\ c[f] \in Instrs
  BY <1>2, <1>4, <1>5
<1>7. \A f \in Fields : c[f] \in Pointers
  BY <1>4, <1>6 DEF Pointers
<1>8. c \in [Fields -> Pointers]
  BY <1>4, <1>7
<1>9. c \in Clauses
  BY <1>6, <1>8 DEF Clauses
<1> QED BY <1>3, <1>4, <1>6, <1>9 DEF c

\* A clause put at a place among the others.
LEMMA AddKeepsClauses ==
    ASSUME LinkInv, ClauseInvs, ~invalid, UNCHANGED <<il, invalid>>, displaced' \in BOOLEAN,
           NEW c \in Clauses, RangesIn(il, c),
           ~displaced => \A i \in 1 .. Len(clauses) : NestedIn(il, clauses[i], c),
           NEW at \in 1 .. Len(clauses) + 1, clauses' = InsertAt(clauses, at, c),
           ~displaced' => /\ ~displaced
                          /\ \A i \in 1 .. at - 1 : ~InsideIn(il, c, clauses[i])
                          /\ \A i \in at .. Len(clauses) : ~InsideIn(il, clauses[i], c)
    PROVE  ClauseInvs'
<1> DEFINE N == Len(clauses)
           from(j) == IF j < at THEN j ELSE j - 1
<1>1. clauses \in Seq(Clauses) /\ N \in Nat /\ {invalid, displaced} \subseteq BOOLEAN /\ \A i \in 1 .. N : RangesIn(il, clauses[i])
  BY ByPlace DEF ClauseInvs, ClauseInv
<1>2. ~displaced => /\ \A i, j \in 1 .. N : NestedIn(il, clauses[i], clauses[j])
                    /\ \A i, j \in 1 .. N : i < j => ~InsideIn(il, clauses[j], clauses[i])
  BY ByPlace DEF ClauseInvs, OrderInv
<1>3. clauses' = [j \in 1 .. N + 1 |-> IF j = at THEN c ELSE clauses[from(j)]]
  BY DEF InsertAt
<1>4. /\ at \in 1 .. N + 1
      /\ \A j \in 1 .. N + 1 : j # at => from(j) \in 1 .. N
      /\ \A i, j \in 1 .. N + 1 : i < j /\ i # at /\ j # at => from(i) < from(j)
      /\ \A j \in 1 .. N + 1 : (j < at => from(j) \in 1 .. at - 1) /\ (at < j => from(j) \in at .. N)
  BY <1>1
<1> HIDE DEF from, N
<1>5. \A j \in 1 .. N + 1 : j # at => clauses[from(j)] \in Clauses
  BY <1>1, <1>4 DEF N
<1>6. /\ clauses' \in Seq(Clauses) /\ Len(clauses') = N + 1
      /\ \A j \in 1 .. N + 1 : clauses'[j] = IF j = at THEN c ELSE clauses[from(j)]
  BY <1>1, <1>3, <1>5
<1>7. ClauseInv'
  <2>1. \A j \in 1 .. N + 1 : RangesIn(il, clauses'[j])
    BY <1>1, <1>4, <1>6
  <2>2. {invalid', displaced'} \subseteq BOOLEAN
    BY <1>1
  <2> QED BY <1>6, <2>1, <2>2, ByPlaceNext DEF ClauseInv
<1>8. ASSUME ~displaced', NEW i \in 1 .. N + 1, NEW j \in 1 .. N + 1
      PROVE  NestedIn(il, clauses'[i], clauses'[j])
  <2>1. /\ \A k, l \in 1 .. N : NestedIn(il, clauses[k], clauses[l])
        /\ \A k \in 1 .. N : NestedIn(il, clauses[k], c)
    BY <1>2, <1>8 DEF N
  <2>2. CASE i # at /\ j # at
    BY <1>4, <1>6, <2>1, <2>2
  <2>3. CASE i # at /\ j = at
    BY <1>4, <1>6, <2>1, <2>3
  <2>4. CASE i = at /\ j # at
    <3>1. NestedIn(il, clauses[from(j)], c)
      BY <1>4, <2>1, <2>4
    <3>2. NestedIn(il, c, clauses[from(j)])
      BY <3>1 DEF NestedIn
    <3> QED BY <1>6, <2>4, <3>2
  <2>5. CASE i = at /\ j = at
    <3>1. PlaceIn(il, c["tryFirst"]) \in Int /\ PlaceIn(il, c["tryLast"]) \in Int
      <4>1. c["tryFirst"] \in Range(il) /\ c["tryLast"] \in Range(il)
        BY DEF RangesIn, Clauses, Fields, FirstFields
      <4>2. il \in Seq(Instrs) /\ Injective(il)
        BY DEF LinkInv, LinkTypes, WellLinked
      <4> QED BY <4>1, <4>2, Places
    <3>2. NestedIn(il, c, c)
      BY <3>1 DEF NestedIn
    <3> QED BY <1>6, <2>5, <3>2
  <2> QED BY <2>2, <2>3, <2>4, <2>5
<1>9. ASSUME ~displaced', NEW i \in 1 .. N + 1, NEW j \in 1 .. N + 1, i < j
      PROVE  ~InsideIn(il, clauses'[j], clauses'[i])
  <2>1. /\ \A k, l \in 1 .. N : k < l => ~InsideIn(il, clauses[l], clauses[k])
        /\ \A k \in 1 .. at - 1 : ~InsideIn(il, c, clauses[k])
        /\ \A k \in at .. N : ~InsideIn(il, clauses[k], c)
    BY <1>2, <1>9 DEF N
  <2>2. CASE i = at
    <3>1. clauses'[i] = c /\ clauses'[j] = clauses[from(j)] /\ from(j) \in at .. N
      BY <1>1, <1>4, <1>6, <1>9, <2>2
    <3> QED BY <2>1, <3>1
  <2>3. CASE j = at
    <3>1. clauses'[j] = c /\ clauses'[i] = clauses[from(i)] /\ from(i) \in 1 .. at - 1
      BY <1>1, <1>4, <1>6, <1>9, <2>3
    <3> QED BY <2>1, <3>1
  <2>4. CASE i # at /\ j # at
    <3>1. from(i) \in 1 .. N /\ from(j) \in 1 .. N /\ from(i) < from(j)
      BY <1>4, <1>9, <2>4
    <3> QED BY <1>6, <2>1, <2>4, <3>1
  <2> QED BY <2>2, <2>3, <2>4
<1>10. OrderInv'
  BY <1>6, <1>8, <1>9, ByPlaceNext DEF OrderInv
<1> QED BY <1>7, <1>10 DEF ClauseInvs

\* RemoveExceptionClause.
LEMMA RemoveClauseKeepsClauses ==
    ASSUME ClauseInvs, NEW k \in 1 .. Len(clauses), RemoveExceptionClause(k)
    PROVE  ClauseInvs'
<1> DEFINE N == Len(clauses)
           from(j) == IF j < k THEN j ELSE j + 1
<1>1. clauses \in Seq(Clauses) /\ N \in Nat /\ {invalid, displaced} \subseteq BOOLEAN
  BY DEF ClauseInvs, ClauseInv
<1>2. il' = il /\ invalid' = invalid /\ displaced' = displaced /\ clauses' = DeleteAt(clauses, k)
  BY DEF RemoveExceptionClause, links
<1>3. clauses' = [j \in 1 .. N - 1 |-> clauses[from(j)]]
  BY <1>1, <1>2 DEF DeleteAt
<1>4. \A j \in 1 .. N - 1 : from(j) \in 1 .. N /\ \A i \in 1 .. N - 1 : i < j => from(i) < from(j)
  BY <1>1
<1>5. N - 1 \in Nat
  BY <1>1
<1> HIDE DEF from
<1>6. clauses' \in Seq(Clauses) /\ Len(clauses') = N - 1 /\ \A j \in 1 .. N - 1 : clauses'[j] = clauses[from(j)]
  <2>1. \A j \in 1 .. N - 1 : clauses[from(j)] \in Clauses
    BY <1>1, <1>4
  <2> HIDE DEF N
  <2> QED BY <1>3, <1>5, <2>1
<1>7. ClauseInv'
  <2>1. ~invalid => \A i \in 1 .. N : RangesIn(il, clauses[i])
    BY ByPlace DEF ClauseInvs, ClauseInv
  <2> HIDE DEF N
  <2>2. ~invalid' => \A j \in 1 .. N - 1 : RangesIn(il', clauses'[j])
    BY <1>2, <1>4, <1>6, <2>1
  <2> QED BY <1>1, <1>2, <1>6, <2>2, ByPlaceNext DEF ClauseInv
<1>8. OrderInv'
  <2>1. ~invalid /\ ~displaced => /\ \A i, j \in 1 .. N : NestedIn(il, clauses[i], clauses[j])
                                  /\ \A i, j \in 1 .. N : i < j => ~InsideIn(il, clauses[j], clauses[i])
    BY ByPlace DEF ClauseInvs, OrderInv
  <2> HIDE DEF N
  <2>2. ASSUME ~invalid', ~displaced', NEW i \in 1 .. N - 1, NEW j \in 1 .. N - 1
        PROVE  NestedIn(il', clauses'[i], clauses'[j]) /\ (i < j => ~InsideIn(il', clauses'[j], clauses'[i]))
    BY <1>2, <1>4, <1>6, <2>1, <2>2
  <2> QED BY <1>6, <2>2, ByPlaceNext DEF OrderInv
<1> QED BY <1>7, <1>8 DEF ClauseInvs

\* SetTryFirstInstruction and the other setters.
LEMMA SetInstructionKeepsClauses ==
    ASSUME LinkInv, ClauseInvs, ~invalid, NEW k \in 1 .. Len(clauses), NEW f \in Fields, NEW x \in Range(il),
           KeepsRanges(clauses[k], f, x), SetInstruction(k, f, x)
    PROVE  ClauseInvs'
<1> DEFINE N == Len(clauses)
           c == [clauses[k] EXCEPT ![f] = x]
<1>1. clauses \in Seq(Clauses) /\ N \in Nat /\ {invalid, displaced} \subseteq BOOLEAN /\ \A i \in 1 .. N : RangesIn(il, clauses[i])
  BY ByPlace DEF ClauseInvs, ClauseInv
<1>2. il' = il /\ invalid' = invalid /\ displaced' = TRUE /\ clauses' = [clauses EXCEPT ![k] = c]
  BY <1>1 DEF SetInstruction, links
<1>3. clauses[k] \in Clauses /\ clauses[k] \in [Fields -> Pointers] /\ x \in Instrs /\ x # Null
  BY <1>1, CodeAssumption DEF Clauses, LinkInv, LinkTypes, Range
<1>4. c \in [Fields -> Pointers] /\ \A g \in Fields : c[g] = IF g = f THEN x ELSE clauses[k][g]
  BY <1>3 DEF Pointers
<1>5. Fields = {"tryFirst", "tryLast", "handlerFirst", "handlerLast", "filterFirst"}
  BY DEF Fields, FirstFields
<1> HIDE DEF c
<1>6. c \in Clauses
  BY <1>3, <1>4 DEF Clauses
<1>7. \A y : Pos(y) = PlaceIn(il, y)
  BY DEF Pos, PlaceIn
<1>8. RangesIn(il, c)
  <2> DEFINE P(g) == PlaceIn(il, clauses[k][g])
  <2>1. /\ \A g \in Fields : clauses[k][g] \in Range(il) \cup ({Null} \cap {clauses[k]["filterFirst"]})
        /\ P("tryFirst") <= P("tryLast") /\ P("handlerFirst") <= P("handlerLast")
    BY <1>1 DEF RangesIn
  <2>2. /\ f = "tryFirst" => PlaceIn(il, x) <= P("tryLast")
        /\ f = "tryLast" => P("tryFirst") <= PlaceIn(il, x)
        /\ f = "handlerFirst" => PlaceIn(il, x) <= P("handlerLast")
        /\ f = "handlerLast" => P("handlerFirst") <= PlaceIn(il, x)
    BY <1>7 DEF KeepsRanges
  <2>3. \A g \in Fields \ {"filterFirst"} : clauses[k][g] # Null
    BY <1>3 DEF Clauses
  <2>4. \A g \in Fields : c[g] \in Range(il) \cup ({Null} \cap {c["filterFirst"]})
    BY <1>4, <1>5, <2>1, <2>3
  <2>5. PlaceIn(il, c["tryFirst"]) <= PlaceIn(il, c["tryLast"])
    BY <1>4, <1>5, <2>1, <2>2
  <2>6. PlaceIn(il, c["handlerFirst"]) <= PlaceIn(il, c["handlerLast"])
    BY <1>4, <1>5, <2>1, <2>2
  <2> QED BY <2>4, <2>5, <2>6 DEF RangesIn
<1>9. clauses' \in Seq(Clauses) /\ Len(clauses') = N /\ \A i \in 1 .. N : RangesIn(il', clauses'[i])
  <2>1. \A i \in 1 .. N : clauses'[i] = IF i = k THEN c ELSE clauses[i]
    BY <1>1, <1>2
  <2>2. clauses' \in Seq(Clauses) /\ Len(clauses') = N
    BY <1>1, <1>2, <1>6
  <2> QED BY <1>1, <1>2, <1>8, <2>1, <2>2
<1>10. ClauseInv'
  <2>1. {invalid', displaced'} \subseteq BOOLEAN
    BY <1>1, <1>2
  <2> HIDE DEF N
  <2> QED BY <1>9, <2>1, ByPlaceNext DEF ClauseInv
<1>11. OrderInv'
  BY <1>2, ByPlaceNext DEF OrderInv
<1> QED BY <1>10, <1>11 DEF ClauseInvs

\* The offsets by which FindExceptionClauseInsertionPoint compares are in the order of the list, and so are the ends.
LEMMA OffsetsOrderPlaces ==
    ASSUME LinkInv, JumpInv, OffsetInv, ~(resized /\ ~stale), NEW x \in Range(il), NEW y \in Range(il)
    PROVE  /\ GetOffset[x] <= GetOffset[y] <=> PlaceIn(il, x) <= PlaceIn(il, y)
           /\ x \notin Switches => (GetOffset[x] + Length(x) <= GetOffset[y] + Length(y) <=> PlaceIn(il, x) <= PlaceIn(il, y))
<1> DEFINE off == OffsetsOf(il, expanded, targets)
           Size(i) == SizeIn(il[i], expanded, targets)
           N == Len(il)
           i == PlaceIn(il, x)
           j == PlaceIn(il, y)
<1>1. il \in Seq(Instrs) /\ Injective(il) /\ N \in Nat
  BY DEF LinkInv, LinkTypes, WellLinked
<1>2. \A k \in Jumps : Len(targets[k]) \in Nat
  BY DEF JumpInv, JumpTypes
<1>3. i \in 1 .. N /\ il[i] = x /\ j \in 1 .. N /\ il[j] = y
  BY <1>1, Places
<1>4. /\ off \in [1 .. N -> Nat]
      /\ \A k, l \in 1 .. N : k < l => off[k] + Size(k) <= off[l]
  BY <1>1, <1>2, OffsetsFacts
<1>5. Size(i) \in Nat /\ Size(i) > 0 /\ Size(j) \in Nat /\ Size(j) > 0
  BY <1>1, <1>2, <1>3, SizeFacts
<1>6. GetOffset[x] = off[i] /\ GetOffset[y] = off[j]
  <2>1. Calculated[x] = off[i] /\ Calculated[y] = off[j]
    BY <1>1, CalculatedAt DEF Pos, PlaceIn
  <2>2. stale \in BOOLEAN /\ resized \in BOOLEAN
    BY DEF OffsetInv
  <2>3. CASE stale
    BY <2>1, <2>3 DEF GetOffset
  <2>4. CASE ~stale
    <3>1. offset[x] = Calculated[x] /\ offset[y] = Calculated[y]
      BY <2>2, <2>4 DEF OffsetInv, OffsetsFresh
    <3> QED BY <2>1, <2>4, <3>1 DEF GetOffset
  <2> QED BY <2>3, <2>4
<1>7. /\ x \notin Switches => Length(x) = Size(i)
      /\ Length(y) \in Nat /\ Length(y) <= Size(j) /\ (x = y => Length(x) = Length(y)) /\ (i = j => x = y)
  BY <1>3, <1>5 DEF Length
<1> HIDE DEF off, Size, i, j, N
<1>8. off[i] \in Nat /\ off[j] \in Nat /\ (i < j => off[i] + Size(i) <= off[j]) /\ (j < i => off[j] + Size(j) <= off[i])
  BY <1>3, <1>4
<1>9. /\ off[i] <= off[j] <=> i <= j
      /\ x \notin Switches => (off[i] + Length(x) <= off[j] + Length(y) <=> i <= j)
  <2>1. CASE i < j
    BY <1>1, <1>3, <1>5, <1>7, <1>8, <2>1
  <2>2. CASE i = j
    BY <1>1, <1>3, <1>5, <1>7, <1>8, <2>2
  <2>3. CASE j < i
    BY <1>1, <1>3, <1>5, <1>7, <1>8, <2>3
  <2> QED BY <1>1, <1>3, <2>1, <2>2, <2>3
<1> QED BY <1>6, <1>9 DEF i, j

\* What callers add is a range of the list that is nested with the others.
LEMMA NestedClauseFacts ==
    ASSUME LinkInv, ClauseInvs, NEW tf \in 1 .. Len(il), NEW tl \in 1 .. Len(il), NEW h \in 1 .. Len(il),
           NestedClause(tf, tl, h)
    PROVE  LET c == ClauseAt(tf, tl, h) IN
           /\ c \in Clauses /\ RangesIn(il, c)
           /\ \A i \in 1 .. Len(clauses) : NestedIn(il, clauses[i], c)
<1> DEFINE c == ClauseAt(tf, tl, h)
<1>1. \A y : Pos(y) = PlaceIn(il, y)
  BY DEF Pos, PlaceIn
<1>2. /\ c \in Clauses /\ \A f \in Fields \ {"filterFirst"} : c[f] \in Range(il)
      /\ c["filterFirst"] = Null /\ PlaceIn(il, c["tryFirst"]) = tf /\ PlaceIn(il, c["tryLast"]) = tl
      /\ PlaceIn(il, c["handlerFirst"]) = h /\ PlaceIn(il, c["handlerLast"]) = h
  BY <1>1, ClauseAtFacts
<1>3. tf <= tl /\ \A i \in 1 .. Len(clauses) :
            LET a == PlaceIn(il, clauses[i]["tryFirst"])
                z == PlaceIn(il, clauses[i]["tryLast"])
            IN  z < tf \/ tl < a \/ (a <= tf /\ tl <= z) \/ (tf <= a /\ z <= tl)
  BY <1>1 DEF NestedClause
<1> HIDE DEF c
<1>4. RangesIn(il, c)
  BY <1>2, <1>3 DEF RangesIn
<1>5. \A i \in 1 .. Len(clauses) : NestedIn(il, clauses[i], c)
  BY <1>2, <1>3 DEF NestedIn
<1> QED BY <1>2, <1>4, <1>5 DEF c

\* Where FindExceptionClauseInsertionPoint puts a clause: after every clause inside it, and before every one it is inside.
LEMMA InsertionPointFacts ==
    ASSUME LinkInv, JumpInv, OffsetInv, ClauseInvs, ~invalid, NEW c \in Clauses, RangesIn(il, c)
    PROVE  LET at == 1 + InsertionPoint(c, GetOffset) IN
           /\ at \in 1 .. Len(clauses) + 1
           /\ ~(resized /\ ~stale) /\ ~displaced /\ (\A i \in 1 .. Len(clauses) : clauses[i]["tryLast"] \notin Switches) =>
                /\ \A i \in 1 .. at - 1 : ~InsideIn(il, c, clauses[i])
                /\ \A i \in at .. Len(clauses) : ~InsideIn(il, clauses[i], c)
<1> DEFINE N == Len(clauses)
           inner == {i \in 1 .. N : Contained(clauses[i], c, GetOffset)}
           p == InsertionPoint(c, GetOffset)
<1>1. clauses \in Seq(Clauses) /\ N \in Nat /\ \A i \in 1 .. N : clauses[i] \in Clauses /\ RangesIn(il, clauses[i])
  BY ByPlace DEF ClauseInvs, ClauseInv
<1>2. IF inner = {} THEN p = 0 ELSE p \in inner /\ \A j \in inner : j <= p
  <2>1. CASE inner = {}
    BY <2>1 DEF InsertionPoint
  <2>2. CASE inner # {}
    <3>1. inner \subseteq 0 .. N
      BY <1>1
    <3>2. \E i \in inner : \A j \in inner : j <= i
      <4> HIDE DEF inner, N
      <4> QED BY <1>1, <2>2, <3>1, GreatestNatural
    <3>3. p = CHOOSE i \in inner : \A j \in inner : j <= i
      BY <2>2 DEF InsertionPoint
    <3> HIDE DEF inner, p
    <3> QED BY <2>2, <3>2, <3>3
  <2> QED BY <2>1, <2>2
<1>3. p \in 0 .. N /\ \A i \in 1 .. N : i > p => i \notin inner
  <2>1. inner \subseteq 1 .. N
    OBVIOUS
  <2> HIDE DEF inner, p
  <2>2. CASE inner = {}
    BY <1>1, <1>2, <2>2
  <2>3. CASE inner # {}
    <3>1. p \in 1 .. N /\ \A j \in inner : j <= p
      BY <1>2, <2>1, <2>3
    <3> QED BY <1>1, <3>1
  <2> QED BY <2>2, <2>3
<1>4. ASSUME ~(resized /\ ~stale), ~displaced, \A i \in 1 .. Len(clauses) : clauses[i]["tryLast"] \notin Switches
      PROVE  /\ \A i \in 1 .. p : ~InsideIn(il, c, clauses[i])
             /\ \A i \in p + 1 .. N : ~InsideIn(il, clauses[i], c)
  <2> DEFINE F(d) == PlaceIn(il, d["tryFirst"])
             L(d) == PlaceIn(il, d["tryLast"])
  <2>1. /\ \A d \in Clauses : RangesIn(il, d) => d["tryFirst"] \in Range(il) /\ d["tryLast"] \in Range(il)
    BY DEF RangesIn, Clauses, Fields, FirstFields
  <2>2. \A d \in Clauses : RangesIn(il, d) => F(d) \in 1 .. Len(il) /\ L(d) \in 1 .. Len(il)
        /\ il[F(d)] = d["tryFirst"] /\ il[L(d)] = d["tryLast"]
    BY <2>1, Places DEF LinkInv, LinkTypes, WellLinked
  <2>3. \A i \in 1 .. N : i \in inner <=> F(c) <= F(clauses[i]) /\ L(clauses[i]) <= L(c)
    <3> TAKE i \in 1 .. N
    <3>1. /\ clauses[i]["tryFirst"] \in Range(il) /\ clauses[i]["tryLast"] \in Range(il)
          /\ c["tryFirst"] \in Range(il) /\ c["tryLast"] \in Range(il)
      BY <1>1, <2>1
    <3>2. i \in inner <=> /\ GetOffset[c["tryFirst"]] <= GetOffset[clauses[i]["tryFirst"]]
                          /\ GetOffset[clauses[i]["tryLast"]] + Length(clauses[i]["tryLast"])
                                <= GetOffset[c["tryLast"]] + Length(c["tryLast"])
      BY DEF Contained
    <3> HIDE DEF inner
    <3> QED BY <1>4, <3>1, <3>2, OffsetsOrderPlaces
  <2>4. \A i, j \in 1 .. N : i < j => ~InsideIn(il, clauses[j], clauses[i])
    BY <1>4, ByPlace DEF ClauseInvs, OrderInv
  <2>5. ASSUME NEW i \in 1 .. p, InsideIn(il, c, clauses[i]) PROVE FALSE
    <3>1. p \in inner /\ p \in 1 .. N /\ i \in 1 .. N
      BY <1>1, <1>2, <1>3
    <3> DEFINE d == clauses[p]
               e == clauses[i]
    <3> HIDE DEF inner, p
    <3>2. F(c) <= F(d) /\ L(d) <= L(c)
      BY <2>3, <3>1
    <3>3. /\ F(e) <= F(c) /\ L(c) <= L(e)
          /\ ~(c["tryFirst"] = e["tryFirst"] /\ c["tryLast"] = e["tryLast"])
      BY <2>5 DEF InsideIn
    <3>4. /\ F(c) \in Int /\ L(c) \in Int /\ F(d) \in Int /\ L(d) \in Int /\ F(e) \in Int /\ L(e) \in Int
          /\ (F(c) = F(e) => c["tryFirst"] = e["tryFirst"]) /\ (L(c) = L(e) => c["tryLast"] = e["tryLast"])
      <4>1. d \in Clauses /\ RangesIn(il, d) /\ e \in Clauses /\ RangesIn(il, e)
        BY <1>1, <3>1
      <4> HIDE DEF d, e
      <4>2. /\ F(c) \in 1 .. Len(il) /\ L(c) \in 1 .. Len(il) /\ F(d) \in 1 .. Len(il) /\ L(d) \in 1 .. Len(il)
            /\ F(e) \in 1 .. Len(il) /\ L(e) \in 1 .. Len(il)
        BY <2>2, <4>1
      <4>3. /\ il[F(c)] = c["tryFirst"] /\ il[L(c)] = c["tryLast"]
            /\ il[F(e)] = e["tryFirst"] /\ il[L(e)] = e["tryLast"]
        BY <2>2, <4>1
      <4> HIDE DEF F, L
      <4> QED BY <4>2, <4>3
    <3>5. F(e) <= F(d) /\ L(d) <= L(e) /\ ~(F(e) = F(d) /\ L(e) = L(d))
      <4> HIDE DEF F, L, d, e
      <4> QED BY <3>2, <3>3, <3>4
    <3>6. i # p
      BY <3>5
    <3>7. InsideIn(il, d, e)
      BY <3>5 DEF InsideIn
    <3>8. i < p
      BY <1>3, <3>6
    <3> QED BY <2>4, <3>1, <3>7, <3>8
  <2>6. ASSUME NEW i \in p + 1 .. N, InsideIn(il, clauses[i], c) PROVE FALSE
    <3>1. i \in 1 .. N /\ i > p
      BY <1>1, <1>3
    <3>2. i \notin inner
      <4> HIDE DEF inner, p
      <4> QED BY <1>3, <3>1
    <3>3. F(c) <= F(clauses[i]) /\ L(clauses[i]) <= L(c)
      BY <2>6 DEF InsideIn
    <3> HIDE DEF inner, p
    <3> QED BY <2>3, <3>1, <3>2, <3>3
  <2> QED BY <2>5, <2>6
<1> HIDE DEF p
<1>5. 1 + p \in 1 .. N + 1 /\ (1 + p) - 1 = p /\ 1 + p = p + 1
  BY <1>1, <1>3
<1> QED BY <1>4, <1>5 DEF p

\* AddNewExceptionClause: the search finds a place that keeps the order.
LEMMA AddNewKeepsClauses ==
    ASSUME LinkInv, JumpInv, OffsetInv, ClauseInvs, ~invalid, NEW tf \in 1 .. Len(il), NEW tl \in 1 .. Len(il),
           NEW h \in 1 .. Len(il), NestedClause(tf, tl, h), AddNewExceptionClause(ClauseAt(tf, tl, h))
    PROVE  ClauseInvs'
<1> DEFINE c == ClauseAt(tf, tl, h)
           at == 1 + InsertionPoint(c, GetOffset)
<1>1. c \in Clauses /\ RangesIn(il, c) /\ \A i \in 1 .. Len(clauses) : NestedIn(il, clauses[i], c)
  BY NestedClauseFacts
<1>2. /\ clauses' = InsertAt(clauses, at, c) /\ displaced' = (displaced \/ (resized /\ ~stale) \/ \E i \in 1 .. Len(clauses) : clauses[i]["tryLast"] \in Switches)
      /\ il' = il /\ invalid' = invalid
  BY DEF AddNewExceptionClause, links
<1> HIDE DEF c
<1>3. /\ at \in 1 .. Len(clauses) + 1
      /\ ~(resized /\ ~stale) /\ ~displaced /\ (\A i \in 1 .. Len(clauses) : clauses[i]["tryLast"] \notin Switches) =>
            /\ \A i \in 1 .. at - 1 : ~InsideIn(il, c, clauses[i])
            /\ \A i \in at .. Len(clauses) : ~InsideIn(il, clauses[i], c)
  BY <1>1, InsertionPointFacts
<1> HIDE DEF at
<1>4. displaced' \in BOOLEAN
  BY <1>2
<1>5. ~displaced' => ~(resized /\ ~stale) /\ ~displaced /\ \A i \in 1 .. Len(clauses) : clauses[i]["tryLast"] \notin Switches
  BY <1>2
<1> QED BY <1>1, <1>2, <1>3, <1>4, <1>5, AddKeepsClauses

\* AddExceptionClause: the clause goes to the end, and the history says whether that is out of order.
LEMMA AppendKeepsClauses ==
    ASSUME LinkInv, ClauseInvs, ~invalid, NEW tf \in 1 .. Len(il), NEW tl \in 1 .. Len(il),
           NEW h \in 1 .. Len(il), NestedClause(tf, tl, h), AddExceptionClause(ClauseAt(tf, tl, h))
    PROVE  ClauseInvs'
<1> DEFINE c == ClauseAt(tf, tl, h)
           at == Len(clauses) + 1
<1>1. c \in Clauses /\ RangesIn(il, c) /\ \A i \in 1 .. Len(clauses) : NestedIn(il, clauses[i], c)
  BY NestedClauseFacts
<1>2. /\ clauses' = Append(clauses, c) /\ displaced' = (displaced \/ \E i \in 1 .. Len(clauses) : Inside(c, clauses[i]))
      /\ il' = il /\ invalid' = invalid
  BY DEF AddExceptionClause, links
<1> HIDE DEF c
<1>3. clauses \in Seq(Clauses) /\ Len(clauses) \in Nat
  BY DEF ClauseInvs, ClauseInv
<1>4. clauses' = InsertAt(clauses, at, c) /\ at \in 1 .. Len(clauses) + 1
  <2> DEFINE s == InsertAt(clauses, at, c)
             t == Append(clauses, c)
  <2>1. s = [j \in 1 .. at |-> IF j = at THEN c ELSE clauses[j]]
    BY <1>3 DEF InsertAt
  <2>2. t \in Seq(Clauses) /\ Len(t) = at /\ \A j \in 1 .. at : t[j] = IF j = at THEN c ELSE clauses[j]
    BY <1>1, <1>3
  <2>3. t = [j \in 1 .. at |-> t[j]]
    <3> HIDE DEF t
    <3> QED BY <2>2
  <2>4. s = t
    <3> HIDE DEF s, t
    <3> QED BY <2>1, <2>2, <2>3
  <2> QED BY <1>2, <1>3, <2>4
<1>5. \A i \in 1 .. Len(clauses) : Inside(c, clauses[i]) <=> InsideIn(il, c, clauses[i])
  BY DEF Inside, InsideIn, Pos, PlaceIn
<1>6. ~displaced' => /\ ~displaced
                     /\ \A i \in 1 .. at - 1 : ~InsideIn(il, c, clauses[i])
                     /\ \A i \in at .. Len(clauses) : ~InsideIn(il, clauses[i], c)
  <2>1. at .. Len(clauses) = {} /\ at - 1 = Len(clauses)
    BY <1>3
  <2>2. ~displaced' => ~displaced /\ \A i \in 1 .. Len(clauses) : ~InsideIn(il, c, clauses[i])
    BY <1>2, <1>5
  <2> HIDE DEF at
  <2> QED BY <2>1, <2>2
<1>7. displaced' \in BOOLEAN
  BY <1>2
<1> HIDE DEF at
<1> QED BY <1>1, <1>2, <1>4, <1>6, <1>7, AddKeepsClauses

\* InsertAfter with no position: an empty list has no clauses.
LEMMA InsertFirstKeepsClauses ==
    ASSUME ClauseInvs, NEW n, InsertFirst(n)
    PROVE  ClauseInvs'
<1>1. clauses \in Seq(Clauses) /\ {invalid, displaced} \subseteq BOOLEAN /\ ClausesInGraph
  BY DEF ClauseInvs, ClauseInv
<1>2. il = <<>> /\ clauses' = clauses /\ invalid' = invalid /\ displaced' = displaced
  BY DEF InsertFirst, ranges
<1>3. CASE invalid
  BY <1>1, <1>2, <1>3, ClausesGone
<1>4. CASE ~invalid
  <2>1. ASSUME NEW i \in 1 .. Len(clauses) PROVE FALSE
    <3>1. Range(il) = {}
      BY <1>2 DEF Range
    <3>2. "tryFirst" \in Fields \ {"filterFirst"} /\ clauses[i] \in Clauses
      BY <1>1 DEF Fields, FirstFields
    <3>3. clauses[i]["tryFirst"] \in Range(il) \cup ({Null} \cap {clauses[i]["filterFirst"]})
      BY <1>1, <1>4, <3>2 DEF ClausesInGraph
    <3>4. clauses[i]["tryFirst"] # Null
      BY <3>2 DEF Clauses
    <3> QED BY <3>1, <3>3, <3>4
  <2>2. clauses = <<>>
    BY <1>1, <2>1
  <2> QED BY <1>1, <1>2, <2>2, ClausesGone
<1> QED BY <1>3, <1>4

\* The decoded clauses of a valid method.
LEMMA InitClauses == Init => ClauseInvs
<1> SUFFICES ASSUME Init PROVE ClauseInvs
  OBVIOUS
<1>1. /\ il = Original /\ clauses = DecodedClauses /\ invalid = FALSE /\ displaced = FALSE
  BY DEF Init
<1>2. \A k \in 1 .. Len(clauses) : clauses[k] \in Clauses
  BY <1>1, ClausesAssumption
<1>3. \A k \in 1 .. Len(clauses), f \in Fields : DecodedAt(k, f) = PlaceIn(il, clauses[k][f])
  BY <1>1 DEF DecodedAt, PlaceIn
<1>4. {"tryFirst", "tryLast", "handlerFirst", "handlerLast"} \subseteq Fields
  BY DEF Fields, FirstFields
<1>5. \A k \in 1 .. Len(clauses) : RangesIn(il, clauses[k])
  BY <1>1, <1>3, <1>4, ClausesAssumption DEF RangesIn
<1>6. \A k, l \in 1 .. Len(clauses) : NestedIn(il, clauses[k], clauses[l])
  BY <1>1, <1>3, <1>4, NestingAssumption DEF NestedIn
<1>7. ASSUME NEW k \in 1 .. Len(clauses), NEW l \in 1 .. Len(clauses), k < l, InsideIn(il, clauses[l], clauses[k])
      PROVE  FALSE
  <2> DEFINE c == clauses[k]
             d == clauses[l]
  <2>1. /\ PlaceIn(il, c["tryFirst"]) <= PlaceIn(il, d["tryFirst"]) /\ PlaceIn(il, d["tryLast"]) <= PlaceIn(il, c["tryLast"])
        /\ <<d["tryFirst"], d["tryLast"]>> # <<c["tryFirst"], c["tryLast"]>>
    BY <1>7 DEF InsideIn
  <2>2. PlaceIn(il, c["tryFirst"]) = PlaceIn(il, d["tryFirst"]) /\ PlaceIn(il, d["tryLast"]) = PlaceIn(il, c["tryLast"])
    BY <1>1, <1>3, <1>4, <1>7, <2>1, NestingAssumption
  <2>3. \A e \in Clauses : RangesIn(il, e) => e["tryFirst"] \in Range(il) /\ e["tryLast"] \in Range(il)
    BY DEF RangesIn, Clauses, Fields, FirstFields
  <2>4. c["tryFirst"] \in Range(il) /\ c["tryLast"] \in Range(il) /\ d["tryFirst"] \in Range(il) /\ d["tryLast"] \in Range(il)
    BY <1>2, <1>5, <2>3
  <2>5. il \in Seq(Instrs) /\ Injective(il)
    BY <1>1, CodeAssumption
  <2> HIDE DEF c, d
  <2>6. c["tryFirst"] = d["tryFirst"] /\ c["tryLast"] = d["tryLast"]
    BY <2>2, <2>4, <2>5, Places
  <2> QED BY <2>1, <2>6
<1>8. ClauseInv
  BY <1>1, <1>5, ByPlace, ClausesAssumption DEF ClauseInv
<1>9. OrderInv
  BY <1>1, <1>6, <1>7, ByPlace DEF OrderInv
<1> QED BY <1>8, <1>9 DEF ClauseInvs

\* Every step keeps the clauses.
LEMMA NextClauses == LinkInv /\ LinkInv' /\ JumpInv /\ OffsetInv /\ ClauseInvs /\ [Next]_vars => ClauseInvs'
<1> SUFFICES ASSUME LinkInv, LinkInv', JumpInv, OffsetInv, ClauseInvs, [Next]_vars PROVE ClauseInvs'
  OBVIOUS
<1>1. /\ il \in Seq(Instrs) /\ Range(il) \subseteq graph /\ clauses \in Seq(Clauses)
      /\ invalid \in BOOLEAN /\ displaced \in BOOLEAN
  BY DEF LinkInv, LinkTypes, WellLinked, ClauseInvs, ClauseInv
<1>2. CASE EditLinks
  <2>1. ASSUME NEW n, InsertFirst(n) PROVE ClauseInvs'
    BY <2>1, InsertFirstKeepsClauses
  <2>2. ASSUME NEW o, NEW n, InsertAfterRefused(o, n) PROVE ClauseInvs'
    BY <2>2, ClausesUnchanged DEF InsertAfterRefused
  <2>3. ASSUME NEW o \in Range(il), NEW n \in Instrs, Insertable(n), InsertBefore(o, n) \/ InsertAfter(o, n)
        PROVE  ClauseInvs'
    <3>1. Pos(o) \in 1 .. Len(il) /\ Len(il) \in Nat
      BY <1>1, PosOfMember
    <3>2. n \notin Range(il)
      BY <1>1, <2>3 DEF Insertable
    <3>3. \E p \in 1 .. Len(il) + 1 : il' = InsertAt(il, p, n)
      BY <2>3, <3>1 DEF InsertBefore, LinkBefore, InsertAfter
    <3>4. UNCHANGED ranges
      BY <2>3 DEF InsertBefore, InsertAfter
    <3> QED BY <3>2, <3>3, <3>4, InsertKeepsClauses
  <2>4. ASSUME NEW o \in Range(il), NEW n \in Instrs, Insertable(n), InsertBeforeAndRetargetOffsets(o, n)
        PROVE  ClauseInvs'
    BY <2>4, RetargetKeepsClauses
  <2>5. ASSUME NEW o \in Range(il), NEW n \in Instrs, Insertable(n), Replace(o, n)
        PROVE  ClauseInvs'
    BY <2>5, ReplaceKeepsClauses
  <2>6. ASSUME NEW o \in Range(il), Remove(o) PROVE ClauseInvs'
    BY <2>6, RemoveKeepsClauses
  <2>7. CASE RemoveAll \/ CreateBaseline \/ (\E k \in 0 .. Len(BaselineCode) : FirstPassFails(k))
             \/ \E k \in {k \in 1 .. Len(BaselineCode) : BaselineCode[k] \in Jumps} :
                    \E n \in 0 .. Len(DecodedTargets[BaselineCode[k]]) - 1 : SecondPassFails(k, n)
    BY <2>7, ClausesGone DEF RemoveAll, CreateBaseline, FirstPassFails, SecondPassFails, Decode
  <2>8. CASE DisableCreateBaseline
    BY <2>8, ClausesUnchanged DEF DisableCreateBaseline, links
  <2> QED BY <1>2, <2>1, <2>2, <2>3, <2>4, <2>5, <2>6, <2>7, <2>8 DEF EditLinks
<1>3. CASE EditJumpsAndClauses
  <2>1. ASSUME \/ ExpandBranches
               \/ \E b : ExpandBranch(b)
               \/ \E j, i, t : SetBranchTarget(j, i, t)
               \/ \E s, i : RemoveBranchTargetAt(s, i)
               \/ \E s, o, t : ReplaceBranchTarget(s, o, t)
        PROVE  ClauseInvs'
    <3>1. UNCHANGED <<links, ranges>>
      BY <2>1 DEF ExpandBranches, ExpandBranch, SetBranchTarget, RemoveBranchTargetAt, ReplaceBranchTarget
    <3> QED BY <3>1, ClausesUnchanged DEF links
  <2>2. ASSUME ~invalid, NEW tf \in 1 .. Len(il), NEW tl \in 1 .. Len(il), NEW h \in 1 .. Len(il),
               NestedClause(tf, tl, h), AddNewExceptionClause(ClauseAt(tf, tl, h))
        PROVE  ClauseInvs'
    BY <2>2, AddNewKeepsClauses
  <2>3. ASSUME ~invalid, NEW tf \in 1 .. Len(il), NEW tl \in 1 .. Len(il), NEW h \in 1 .. Len(il),
               NestedClause(tf, tl, h), AddExceptionClause(ClauseAt(tf, tl, h))
        PROVE  ClauseInvs'
    BY <2>3, AppendKeepsClauses
  <2>4. ASSUME NEW i \in 1 .. Len(clauses), RemoveExceptionClause(i) PROVE ClauseInvs'
    BY <2>4, RemoveClauseKeepsClauses
  <2>5. CASE RemoveAllExceptionClauses
    BY <1>1, <2>5, ClausesGone DEF RemoveAllExceptionClauses
  <2>6. ASSUME ~invalid, NEW i \in 1 .. Len(clauses), NEW f \in Fields, NEW x \in Range(il),
               KeepsRanges(clauses[i], f, x), SetInstruction(i, f, x)
        PROVE  ClauseInvs'
    BY <2>6, SetInstructionKeepsClauses
  <2> QED BY <1>3, <2>1, <2>2, <2>3, <2>4, <2>5, <2>6 DEF EditJumpsAndClauses
<1>4. CASE RefreshInstructions \/ EncodeIL
  BY <1>4, ClausesUnchanged DEF RefreshInstructions, EncodeIL, links
<1>5. CASE UNCHANGED vars
  BY <1>5, ClausesUnchanged DEF vars, links
<1> QED BY <1>2, <1>3, <1>4, <1>5 DEF Next

\* The invariants of the graph together.
LEMMA ClausesHold == Spec => []ClauseInvs
<1>1. Init => LinkInv /\ JumpInv /\ OffsetInv /\ ClauseInvs
  BY InitLinked, InitTracked, InitFresh, InitClauses
<1>2. /\ LinkInv /\ JumpInv /\ OffsetInv /\ ClauseInvs /\ [Next]_vars
      => (LinkInv /\ JumpInv /\ OffsetInv /\ ClauseInvs)'
  BY NextLinked, NextTracked, NextFresh, NextClauses
<1> QED BY <1>1, <1>2, PTL DEF Spec

\* For every valid method and after any calls short of the removal of the last instruction, the exception clauses refer
\* to instructions of the method and no range ends before it begins: UpdateInstruction lets the ranges of a removed or
\* replaced instruction move to its heir.
THEOREM ClausesStayInGraph == Spec => []ClausesInGraph
<1>1. ClauseInvs => ClausesInGraph
  BY DEF ClauseInvs, ClauseInv
<1> QED BY <1>1, ClausesHold, PTL

\* For every valid method the smaller of two nested try ranges stays first, wherever FindExceptionClauseInsertionPoint puts
\* the new ones and however the edits move the ranges, short of the cases that the history displaced names.
THEOREM ClausesStayOrdered == Spec => []ClauseOrder
<1>1. ClauseInvs => ClauseOrder
  BY DEF ClauseInvs, OrderInv
<1> QED BY <1>1, ClausesHold, PTL

----------------------------------------------------------------------------
(* The IL map. *)

\* The entry of the instruction at i begins where the new instructions before it do.
LEMMA MapStartFacts ==
    ASSUME il \in Seq(Instrs), NEW i \in 1 .. Len(il)
    PROVE  /\ MapStart(i) \in 1 .. i
           /\ \A m \in MapStart(i) .. i - 1 : il[m] \in New
           /\ MapStart(i) = 1 \/ il[MapStart(i) - 1] \notin New
<1> DEFINE T == {k \in 1 .. i : \A m \in k .. i - 1 : il[m] \in New}
<1>1. i \in T /\ T \subseteq Nat
  OBVIOUS
<1>2. PICK k \in T : \A j \in T : k <= j
  <2> HIDE DEF T
  <2> QED BY <1>1, LeastNatural
<1>3. k \in 1 .. i /\ \A m \in k .. i - 1 : il[m] \in New
  BY <1>2
<1>4. k = 1 \/ il[k - 1] \notin New
  <2> SUFFICES ASSUME k # 1, il[k - 1] \in New PROVE FALSE
    OBVIOUS
  <2>1. k - 1 \in 1 .. i /\ \A m \in k - 1 .. i - 1 : m = k - 1 \/ m \in k .. i - 1
    BY <1>3
  <2>2. k - 1 \in T
    BY <1>3, <2>1
  <2>3. k \in Int /\ ~(k <= k - 1)
    BY <1>3
  <2> HIDE DEF T
  <2> QED BY <1>2, <2>2, <2>3
<1>5. \E a \in 1 .. i : (\A m \in a .. i - 1 : il[m] \in New) /\ (a = 1 \/ il[a - 1] \notin New)
  BY <1>3, <1>4
<1> QED BY <1>5 DEF MapStart

\* The instruction whose entry should cover the one at i: the next old one, or the last.
LEMMA OwnerFacts ==
    ASSUME il \in Seq(Instrs), NEW i \in 1 .. Len(il), \E k \in 1 .. Len(il) : il[k] \notin New
    PROVE  LET old == {k \in 1 .. Len(il) : il[k] \notin New}
               after == {k \in old : k >= i}
               owner == IF after # {} THEN CHOOSE k \in after : \A m \in after : k <= m
                                      ELSE CHOOSE k \in old : \A m \in old : m <= k
           IN  /\ owner \in old
               /\ MapStart(owner) <= i
               /\ \A k \in old : MapStart(k) <= i => k = owner \/ MapStart(k) < MapStart(owner)
<1> DEFINE N == Len(il)
           old == {k \in 1 .. N : il[k] \notin New}
           after == {k \in old : k >= i}
           owner == IF after # {} THEN CHOOSE k \in after : \A m \in after : k <= m
                                  ELSE CHOOSE k \in old : \A m \in old : m <= k
<1>1. N \in Nat /\ i \in 1 .. N /\ old \subseteq 1 .. N /\ after \subseteq old /\ old # {}
  OBVIOUS
<1>2. \A k \in old : k >= i => k \in after
  OBVIOUS
<1>3. \A k \in after : k >= i
  OBVIOUS
<1>4. \A k \in 1 .. N : k \in old <=> il[k] \notin New
  OBVIOUS
<1>5. /\ after # {} => owner \in after /\ \A m \in after : owner <= m
      /\ after = {} => owner \in old /\ \A m \in old : m <= owner
  <2>1. CASE after # {}
    <3>1. \E k \in after : \A m \in after : k <= m
      <4>1. after \subseteq Nat
        BY <1>1
      <4> HIDE DEF after
      <4> QED BY <2>1, <4>1, LeastNatural
    <3>2. owner = CHOOSE k \in after : \A m \in after : k <= m
      BY <2>1
    <3> HIDE DEF after, owner
    <3> QED BY <2>1, <3>1, <3>2
  <2>2. CASE after = {}
    <3>1. \E k \in old : \A m \in old : m <= k
      <4>1. old \subseteq 0 .. N
        BY <1>1
      <4> HIDE DEF old, N
      <4> QED BY <1>1, <4>1, GreatestNatural
    <3>2. owner = CHOOSE k \in old : \A m \in old : m <= k
      BY <2>2
    <3> HIDE DEF after, owner, old
    <3> QED BY <2>2, <3>1, <3>2
  <2> QED BY <2>1, <2>2
<1>6. \A k \in old :
        /\ MapStart(k) \in 1 .. k
        /\ \A m \in MapStart(k) .. k - 1 : m \notin old
        /\ MapStart(k) = 1 \/ MapStart(k) - 1 \in old
  <2> TAKE k \in old
  <2>1. /\ MapStart(k) \in 1 .. k
        /\ \A m \in MapStart(k) .. k - 1 : il[m] \in New
        /\ MapStart(k) = 1 \/ il[MapStart(k) - 1] \notin New
    BY MapStartFacts
  <2> QED BY <1>1, <2>1
<1> HIDE DEF old, after, owner, N
<1>7. owner \in old
  BY <1>1, <1>5
<1>8. \A j, k \in old : j < k => j < MapStart(k)
  <2> SUFFICES ASSUME NEW j \in old, NEW k \in old, j < k, ~(j < MapStart(k)) PROVE FALSE
    OBVIOUS
  <2>1. j \in Nat /\ k \in Nat /\ MapStart(k) \in 1 .. k
    BY <1>1, <1>6
  <2>2. j \in MapStart(k) .. k - 1
    BY <2>1
  <2> QED BY <1>6, <2>2
<1>9. MapStart(owner) <= i
  <2>1. MapStart(owner) \in 1 .. owner /\ owner \in Nat /\ i \in Nat
    BY <1>1, <1>6, <1>7
  <2>2. CASE after = {}
    <3>1. owner < i
      BY <1>2, <1>7, <2>1, <2>2
    <3> QED BY <2>1, <3>1
  <2>3. CASE after # {}
    <3> SUFFICES ASSUME i < MapStart(owner) PROVE FALSE
      BY <2>1
    <3>1. MapStart(owner) - 1 \in old
      BY <1>1, <1>6, <1>7, <2>1
    <3>2. MapStart(owner) - 1 \in after /\ ~(owner <= MapStart(owner) - 1)
      BY <1>1, <1>2, <2>1, <3>1
    <3> QED BY <1>5, <2>3, <3>2
  <2> QED BY <2>2, <2>3
<1>10. ASSUME NEW k \in old, MapStart(k) <= i PROVE k = owner \/ MapStart(k) < MapStart(owner)
  <2>1. MapStart(owner) \in 1 .. owner /\ MapStart(k) \in 1 .. k /\ owner \in Nat /\ k \in Nat /\ i \in Nat
    BY <1>1, <1>6, <1>7
  <2>2. CASE k < owner
    <3>1. k < MapStart(owner)
      BY <1>7, <1>8, <2>2
    <3> QED BY <2>1, <3>1
  <2>3. CASE owner < k
    <3>1. owner < MapStart(k)
      BY <1>7, <1>8, <2>3
    <3>2. after # {} => owner >= i
      BY <1>3, <1>5
    <3>3. after = {} => k <= owner
      BY <1>5
    <3> QED BY <1>10, <2>1, <2>3, <3>1, <3>2, <3>3
  <2> QED BY <2>1, <2>2, <2>3
<1> QED BY <1>7, <1>9, <1>10 DEF old, after, owner, N

\* The offsets order the entries as the list orders the places where they begin.
LEMMA MapCovers == LinkInv /\ JumpInv => InsertedGoesWithNext
<1> SUFFICES ASSUME LinkInv, JumpInv PROVE InsertedGoesWithNext
  OBVIOUS
<1> DEFINE off == OffsetsOf(il, expanded, targets)
           N == Len(il)
           old == {k \in 1 .. N : il[k] \notin New}
           E(k) == [oldOffset |-> DecodedOffset(il[k]), newOffset |-> off[MapStart(k)]]
<1>1. il \in Seq(Instrs) /\ N \in Nat
  BY DEF LinkInv, LinkTypes
<1>2. \A a, b \in 1 .. N : off[a] \in Nat /\ (off[a] <= off[b] <=> a <= b)
  <2>1. \A k \in Jumps : Len(targets[k]) \in Nat
    BY DEF JumpInv, JumpTypes
  <2>2. /\ off \in [1 .. N -> Nat]
        /\ \A a, b \in 1 .. N : a < b => off[a] + SizeIn(il[a], expanded, targets) <= off[b]
    BY <1>1, <2>1, OffsetsFacts
  <2>3. \A a \in 1 .. N : SizeIn(il[a], expanded, targets) \in Nat /\ SizeIn(il[a], expanded, targets) > 0
    BY <1>1, <2>1, SizeFacts
  <2> HIDE DEF off, N
  <2>4. \A a, b \in 1 .. N : a < b => off[a] < off[b]
    BY <2>2, <2>3
  <2> QED BY <1>1, <2>2, <2>4
<1>3. ASSUME NEW i \in 1 .. N, old # {}
      PROVE  LET after == {k \in old : k >= i}
                 owner == IF after # {} THEN CHOOSE k \in after : \A m \in after : k <= m
                                        ELSE CHOOSE k \in old : \A m \in old : m <= k
                 covering == {e \in EncodedMap : e.newOffset <= off[i]}
                 final == {e \in covering : \A e2 \in covering : e2.newOffset <= e.newOffset}
             IN  final = {E(owner)}
  <2> DEFINE after == {k \in old : k >= i}
             owner == IF after # {} THEN CHOOSE k \in after : \A m \in after : k <= m
                                    ELSE CHOOSE k \in old : \A m \in old : m <= k
             covering == {e \in EncodedMap : e.newOffset <= off[i]}
             final == {e \in covering : \A e2 \in covering : e2.newOffset <= e.newOffset}
  <2>1. /\ owner \in old
        /\ MapStart(owner) <= i
        /\ \A k \in old : MapStart(k) <= i => k = owner \/ MapStart(k) < MapStart(owner)
    BY <1>1, <1>3, OwnerFacts
  <2>2. \A k \in old : MapStart(k) \in 1 .. N
    <3> TAKE k \in old
    <3>1. MapStart(k) \in 1 .. k
      BY <1>1, MapStartFacts
    <3> QED BY <1>1, <3>1
  <2>3. EncodedMap = {E(k) : k \in old}
    BY DEF EncodedMap
  <2>4. \A k : E(k).newOffset = off[MapStart(k)]
    OBVIOUS
  <2> HIDE DEF old, E, after, owner, off, N
  <2>5. covering = {E(k) : k \in {k \in old : MapStart(k) <= i}}
    <3>1. \A k \in old : E(k).newOffset <= off[i] <=> MapStart(k) <= i
      BY <1>2, <2>2, <2>4
    <3> QED BY <2>3, <3>1
  <2> HIDE DEF covering
  <2>6. E(owner) \in covering
    BY <2>1, <2>5
  <2>7. E(owner) \in final
    <3>1. ASSUME NEW e \in covering PROVE e.newOffset <= E(owner).newOffset
      <4>1. PICK k \in old : e = E(k) /\ MapStart(k) <= i
        BY <2>5
      <4>2. MapStart(k) <= MapStart(owner)
        BY <2>1, <2>2, <4>1
      <4> QED BY <1>2, <2>1, <2>2, <2>4, <4>1, <4>2
    <3> QED BY <2>6, <3>1
  <2>8. ASSUME NEW e \in final PROVE e = E(owner)
    <3>1. PICK k \in old : e = E(k) /\ MapStart(k) <= i
      BY <2>5
    <3>2. E(owner).newOffset <= E(k).newOffset
      BY <2>6, <3>1
    <3>3. MapStart(owner) <= MapStart(k)
      BY <1>2, <2>1, <2>2, <2>4, <3>2
    <3>4. MapStart(k) \in Nat /\ MapStart(owner) \in Nat
      BY <1>1, <2>1, <2>2
    <3> QED BY <2>1, <3>1, <3>3, <3>4
  <2> HIDE DEF final
  <2>9. final = {E(owner)}
    BY <2>7, <2>8
  <2> QED BY <2>9 DEF final, covering, owner, after
<1> QED BY <1>3 DEF InsertedGoesWithNext

\* For every method and after any calls, the entry of the IL map that covers an inserted instruction is that of the next
\* original one, and an original instruction is covered by its own entry: entries begin at strictly growing places.
THEOREM MapCoversInserted == Spec => []InsertedGoesWithNext
BY MapCovers, OffsetsHold, PTL
=============================================================================
