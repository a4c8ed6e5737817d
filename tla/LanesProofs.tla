----------------------------- MODULE LanesProofs -----------------------------
(***************************************************************************)
(* The safety of Lanes for any capsules, lanes, slots and limits.  First    *)
(* what the algorithms compute (sorting, the cut, the component search),    *)
(* then the custody of slots step by step.                                  *)
(***************************************************************************)
EXTENDS Lanes, Sums, FunctionTheorems

(* Sorting.                                                                *)

StrictTotal(S, R) ==
    /\ \A x \in S : <<x, x>> \notin R
    /\ \A x, y, z \in S : <<x, y>> \in R /\ <<y, z>> \in R => <<x, z>> \in R
    /\ \A x, y \in S : x # y => <<x, y>> \in R \/ <<y, x>> \in R

Below(S, R, x) == {y \in S : <<y, x>> \in R}

\* q lists S along R, each element once.
Lists(q, S, R) ==
    /\ q \in [1..Cardinality(S) -> S]
    /\ \A i, j \in 1..Cardinality(S) : i < j => <<q[i], q[j]>> \in R
    /\ \A i, j \in 1..Cardinality(S) : q[i] = q[j] => i = j
    /\ \A x \in S : \E i \in 1..Cardinality(S) : q[i] = x

LEMMA InOrderLists ==
    ASSUME NEW S, IsFiniteSet(S), NEW R, StrictTotal(S, R)
    PROVE  Lists(InOrder(S, R), S, R)
<1> DEFINE n == Cardinality(S)
           rank == [x \in S |-> Cardinality(Below(S, R, x)) + 1]
           q == InOrder(S, R)
<1>0. n \in Nat
  BY FS_CardinalityType
<1>1. \A x \in S : /\ Below(S, R, x) \subseteq S \ {x}
                   /\ IsFiniteSet(Below(S, R, x))
                   /\ Cardinality(Below(S, R, x)) \in 0..n - 1
  <2> SUFFICES ASSUME NEW x \in S
               PROVE  /\ Below(S, R, x) \subseteq S \ {x}
                      /\ IsFiniteSet(Below(S, R, x))
                      /\ Cardinality(Below(S, R, x)) \in 0..n - 1
    OBVIOUS
  <2>1. Below(S, R, x) \subseteq S \ {x}
    BY DEF Below, StrictTotal
  <2>2. IsFiniteSet(S \ {x}) /\ Cardinality(S \ {x}) = n - 1
    BY FS_RemoveElement
  <2>3. IsFiniteSet(Below(S, R, x)) /\ Cardinality(Below(S, R, x)) <= n - 1
    BY <2>1, <2>2, FS_Subset
  <2>4. Cardinality(Below(S, R, x)) \in Nat
    BY <2>3, FS_CardinalityType
  <2> HIDE DEF n
  <2> QED BY <1>0, <2>1, <2>3, <2>4
<1>2. ASSUME NEW x \in S, NEW y \in S, <<x, y>> \in R
      PROVE  rank[x] < rank[y]
  <2>1. Below(S, R, x) \cup {x} \subseteq Below(S, R, y)
    BY <1>2 DEF Below, StrictTotal
  <2>2. Cardinality(Below(S, R, x) \cup {x}) = Cardinality(Below(S, R, x)) + 1
    BY <1>1, FS_AddElement
  <2>3. Cardinality(Below(S, R, x) \cup {x}) <= Cardinality(Below(S, R, y))
    BY <1>1, <2>1, FS_Subset
  <2> QED BY <1>1, <2>2, <2>3
<1>3. rank \in [S -> 1..n]
  <2> HIDE DEF n
  <2> QED BY <1>0, <1>1
<1>4. \A x, y \in S : rank[x] = rank[y] => x = y
  <2>1. \A x \in S : rank[x] \in Nat
    BY <1>0, <1>3
  <2> HIDE DEF rank
  <2> SUFFICES ASSUME NEW x \in S, NEW y \in S, rank[x] = rank[y], x # y PROVE FALSE
    OBVIOUS
  <2>2. CASE <<x, y>> \in R
    <3>1. rank[x] < rank[y]
      BY <1>2, <2>2
    <3> QED BY <2>1, <3>1
  <2>3. CASE <<y, x>> \in R
    <3>1. rank[y] < rank[x]
      BY <1>2, <2>3
    <3> QED BY <2>1, <3>1
  <2> QED BY <2>2, <2>3 DEF StrictTotal
<1>5. rank \in Injection(S, 1..n)
  <2> HIDE DEF rank, n
  <2> QED BY <1>3, <1>4, Fun_IsInj
<1>6. IsFiniteSet(1..n) /\ Cardinality(1..n) = n
  <2> HIDE DEF n
  <2> QED BY <1>0, FS_Interval
<1>7. rank \in Surjection(S, 1..n)
  <2> HIDE DEF rank
  <2> QED BY <1>5, <1>6, FS_Injection
<1>8. \A i \in 1..n : q[i] \in S /\ rank[q[i]] = i
  <2> SUFFICES ASSUME NEW i \in 1..n PROVE q[i] \in S /\ rank[q[i]] = i
    OBVIOUS
  <2>1. PICK x \in S : rank[x] = i
    <3> HIDE DEF rank, n
    <3> QED BY <1>7 DEF Surjection
  <2>2. Cardinality(Below(S, R, x)) = i - 1
    <3> HIDE DEF n
    <3> QED BY <1>0, <1>1, <2>1
  <2>3. q[i] = CHOOSE y \in S : Cardinality(Below(S, R, y)) = i - 1
    BY DEF InOrder, Below
  <2>4. q[i] \in S /\ Cardinality(Below(S, R, q[i])) = i - 1
    <3> HIDE DEF q
    <3> QED BY <2>2, <2>3
  <2> HIDE DEF q, n
  <2> QED BY <1>0, <2>4
<1>9. q \in [1..n -> S]
  <2> DEFINE pick(i) == CHOOSE x \in S : Cardinality({y \in S : <<y, x>> \in R}) = i - 1
  <2>0. q = [i \in 1..n |-> pick(i)]
    BY DEF InOrder
  <2>1. q = [i \in 1..n |-> q[i]]
    <3> HIDE DEF pick, q
    <3> QED BY <2>0
  <2> HIDE DEF q, n
  <2> QED BY <1>8, <2>1
<1> HIDE DEF q, n, rank
<1>10. ASSUME NEW i \in 1..n, NEW j \in 1..n, i < j PROVE <<q[i], q[j]>> \in R
  <2>1. q[i] # q[j] /\ q[i] \in S /\ q[j] \in S
    BY <1>0, <1>8, <1>10
  <2>2. ~(<<q[j], q[i]>> \in R)
    <3> SUFFICES ASSUME <<q[j], q[i]>> \in R PROVE FALSE
      OBVIOUS
    <3>1. rank[q[j]] < rank[q[i]]
      BY <1>2, <2>1
    <3> QED BY <1>0, <1>8, <1>10, <3>1
  <2> QED BY <2>1, <2>2 DEF StrictTotal
<1>11. ASSUME NEW x \in S PROVE \E i \in 1..n : q[i] = x
  <2>1. rank[x] \in 1..n
    BY <1>3
  <2>2. q[rank[x]] \in S /\ rank[q[rank[x]]] = rank[x]
    BY <1>8, <2>1
  <2>3. q[rank[x]] = x
    BY <1>4, <2>2
  <2> QED BY <2>1, <2>3
<1>12. \A i, j \in 1..n : q[i] = q[j] => i = j
  BY <1>8
<1> QED BY <1>9, <1>10, <1>11, <1>12 DEF Lists, q, n
------------------------------------------------------------------------------
(* Recursion along a sequence.                                             *)

\* Induction up to a bound, over the set of numbers that are good.
LEMMA UpTo ==
    ASSUME NEW N \in Nat, NEW G, 0 \in G, \A n \in 1..N : n - 1 \in G => n \in G
    PROVE  \A n \in 0..N : n \in G
<1> DEFINE B == {n \in 0..N : n \notin G}
<1> SUFFICES ASSUME B # {} PROVE FALSE
  OBVIOUS
<1>1. B \subseteq Nat
  OBVIOUS
<1> HIDE DEF B
<1>2. PICK m \in B : \A k \in B : ~(k < m)
  BY <1>1, LeastNumber
<1>3. m \in 1..N /\ m \notin G
  BY DEF B
<1>4. m - 1 \in 0..N /\ m - 1 < m
  BY <1>3
<1>5. m - 1 \in G
  BY <1>2, <1>4 DEF B
<1> QED BY <1>3, <1>5

\* f starts at base and takes the steps of the table.
Follows(f, N, base, step) ==
    f[0] = base /\ \A n \in 1..N : f[n] = step[n][f[n - 1]]

LEMMA RecursionExists ==
    ASSUME NEW N \in Nat, NEW D, NEW base \in D, NEW step \in [1..N -> [D -> D]]
    PROVE  \E f \in [0..N -> D] : Follows(f, N, base, step)
<1> DEFINE Has(m) == \E f \in [0..m -> D] : Follows(f, m, base, step)
           B == {m \in 0..N : ~Has(m)}
<1> SUFFICES B = {}
  OBVIOUS
<1> SUFFICES ASSUME B # {} PROVE FALSE
  OBVIOUS
<1>1. B \subseteq Nat
  OBVIOUS
<1> HIDE DEF B
<1>2. PICK m \in B : \A k \in B : ~(k < m)
  BY <1>1, LeastNumber
<1>3. m \in 0..N /\ ~Has(m)
  BY DEF B
<1>4. m # 0
  <2>1. [i \in 0..0 |-> base] \in [0..0 -> D]
    OBVIOUS
  <2>2. Follows([i \in 0..0 |-> base], 0, base, step)
    BY DEF Follows
  <2> QED BY <1>3, <2>1, <2>2
<1>5. m - 1 \in 0..N /\ m - 1 \notin B
  BY <1>2, <1>3, <1>4
<1>6. Has(m - 1)
  <2> HIDE DEF Has
  <2> QED BY <1>5 DEF B
<1>7. PICK f \in [0..(m - 1) -> D] : Follows(f, m - 1, base, step)
  BY <1>6
<1> DEFINE g == [i \in 0..m |-> IF i = m THEN step[m][f[m - 1]] ELSE f[i]]
<1>8. m \in 1..N /\ m - 1 \in 0..(m - 1)
  BY <1>3, <1>4
<1>9. g \in [0..m -> D]
  <2>1. step[m][f[m - 1]] \in D
    BY <1>8
  <2>2. \A i \in 0..m : i # m => f[i] \in D
    BY <1>8
  <2> QED BY <2>1, <2>2
<1>10. Follows(g, m, base, step)
  <2>1. g[0] = base
    BY <1>7, <1>8 DEF Follows
  <2>2. ASSUME NEW n \in 1..m PROVE g[n] = step[n][g[n - 1]]
    <3>1. g[n - 1] = f[n - 1]
      BY <1>8
    <3>2. CASE n = m
      BY <1>8, <3>1, <3>2
    <3>3. CASE n # m
      <4>1. n \in 1..(m - 1) /\ g[n] = f[n]
        BY <1>8, <3>3
      <4> QED BY <1>7, <3>1, <4>1 DEF Follows
    <3> QED BY <3>2, <3>3
  <2> HIDE DEF g
  <2> QED BY <2>1, <2>2 DEF Follows
<1>11. Has(m)
  <2> HIDE DEF g
  <2> QED BY <1>9, <1>10
<1> QED BY <1>3, <1>11
------------------------------------------------------------------------------
(* The cut.                                                                *)

CutState == [count : Nat, bytes : Nat, verdict : Reasons \cup {"Selected"}]

Nothing == [count |-> 0, bytes |-> 0, verdict |-> "Selected"]

\* f is the cut after each entry of the schedule.
IsCut(f, q, now) ==
    /\ f \in [0..Len(q) -> CutState]
    /\ f[0] = Nothing
    /\ \A n \in 1..Len(q) : f[n] = Considered(f[n - 1], q[n], now)

LEMMA ConsideredType ==
    ASSUME NEW c \in CutState, NEW e \in Entry, NEW now \in Nat
    PROVE  Considered(c, e, now) \in CutState
<1>1. e.capsule \in Capsules /\ LengthOf(e.capsule) \in Nat
  BY LanesAssumption DEF Entry
<1>2. c.count \in Nat /\ c.bytes \in Nat
  BY DEF CutState
<1>3. disposition(e, now, c.count, c.bytes) \in Reasons \cup {"Selected"}
  BY DEF disposition, Reasons
<1> DEFINE v == disposition(e, now, c.count, c.bytes)
<1>4. CASE v = "Selected"
  <2>1. Considered(c, e, now) = [count |-> c.count + 1,
               bytes |-> c.bytes + LengthOf(e.capsule), verdict |-> v]
    BY <1>4 DEF Considered
  <2> HIDE DEF v
  <2> QED BY <1>1, <1>2, <1>4, <2>1 DEF CutState
<1>5. CASE v # "Selected"
  <2>1. Considered(c, e, now) = [c EXCEPT !.verdict = v]
    BY <1>5 DEF Considered
  <2> HIDE DEF v
  <2>2. v \in Reasons \cup {"Selected"}
    BY <1>3 DEF v
  <2> QED BY <2>1, <2>2 DEF CutState
<1> QED BY <1>4, <1>5

CutRule(f, q, now) ==
    [n \in 0..Len(q) |-> IF n = 0 THEN Nothing ELSE Considered(f[n - 1], q[n], now)]

\* plan_cut reports the verdicts of a cut.
LEMMA PlanCut ==
    ASSUME NEW q \in Seq(Entry), NEW now \in Nat
    PROVE  \E f : IsCut(f, q, now) /\ plan_cut(q, now) = [n \in 1..Len(q) |-> f[n].verdict]
<1> DEFINE N == Len(q)
           step == [n \in 1..N |-> [c \in CutState |-> Considered(c, q[n], now)]]
           g == CHOOSE f : f = CutRule(f, q, now)
<1>1. N \in Nat /\ \A n \in 1..N : q[n] \in Entry
  OBVIOUS
<1>2. Nothing \in CutState
  BY DEF Nothing, CutState
<1>3. step \in [1..N -> [CutState -> CutState]]
  <2> HIDE DEF N
  <2> QED BY <1>1, ConsideredType
<1>4. PICK f \in [0..N -> CutState] : Follows(f, N, Nothing, step)
  <2> HIDE DEF N, step
  <2> QED BY <1>1, <1>2, <1>3, RecursionExists
<1>5. \A n \in 1..N : f[n - 1] \in CutState /\ f[n] = Considered(f[n - 1], q[n], now)
  <2> SUFFICES ASSUME NEW n \in 1..N
               PROVE  f[n - 1] \in CutState /\ f[n] = Considered(f[n - 1], q[n], now)
    OBVIOUS
  <2>1. f[n - 1] \in CutState
    BY <1>1, <1>4
  <2>2. f[n] = step[n][f[n - 1]]
    BY <1>4 DEF Follows
  <2> QED BY <2>1, <2>2
<1>6. f = CutRule(f, q, now)
  <2>1. f[0] = Nothing
    BY <1>4 DEF Follows
  <2>2. \A n \in 0..N : f[n] = IF n = 0 THEN Nothing ELSE Considered(f[n - 1], q[n], now)
    BY <1>1, <1>5, <2>1
  <2>3. f = [n \in 0..N |-> f[n]]
    BY <1>4
  <2> QED BY <2>2, <2>3 DEF CutRule
<1>7. g = CutRule(g, q, now)
  BY <1>6
<1>8. plan_cut(q, now) = [n \in 1..N |-> g[n].verdict]
  BY DEF plan_cut, CutRule, Nothing
<1> HIDE DEF g
<1>9. g[0] = Nothing /\ \A n \in 1..N : g[n] = Considered(g[n - 1], q[n], now)
  BY <1>1, <1>7 DEF CutRule
<1>10. g = [n \in 0..N |-> g[n]]
  BY <1>1, <1>7 DEF CutRule
<1> DEFINE G == {n \in 0..N : g[n] \in CutState}
<1>11. \A n \in 0..N : n \in G
  <2>1. 0 \in G
    BY <1>1, <1>2, <1>9
  <2>2. ASSUME NEW n \in 1..N, n - 1 \in G PROVE n \in G
    <3>1. g[n - 1] \in CutState /\ q[n] \in Entry
      BY <1>1, <2>2
    <3>2. Considered(g[n - 1], q[n], now) \in CutState
      BY <3>1, ConsideredType
    <3>3. n \in 0..N /\ g[n] = Considered(g[n - 1], q[n], now)
      BY <1>1, <1>9
    <3> QED BY <3>2, <3>3
  <2> HIDE DEF G, N
  <2> QED BY <1>1, <2>1, <2>2, UpTo
<1>12. g \in [0..N -> CutState]
  BY <1>11, <1>10
<1> QED BY <1>8, <1>9, <1>12 DEF IsCut
\* The bytes of a set of capsules.
LEMMA BytesEmpty == Bytes({}) = 0
<1>1. DOMAIN [c \in {} |-> LengthOf(c)] = {}
  OBVIOUS
<1> QED BY <1>1, SumEmpty DEF Bytes, SumFunction, Sum

LEMMA BytesType ==
    ASSUME NEW C, C \subseteq Capsules
    PROVE  Bytes(C) \in Nat
<1> DEFINE g == [c \in C |-> LengthOf(c)]
<1>1. IsFiniteSet(C) /\ \A c \in C : g[c] \in Nat
  BY LanesAssumption, FS_Subset
<1>2. Bytes(C) = Sum(g, C)
  BY DEF Bytes, SumFunction, Sum
<1> HIDE DEF g
<1> QED BY <1>1, <1>2, SumType

LEMMA BytesAdd ==
    ASSUME NEW C, C \subseteq Capsules, NEW x \in Capsules, x \notin C
    PROVE  Bytes(C \cup {x}) = Bytes(C) + LengthOf(x)
<1> DEFINE g == [c \in C |-> LengthOf(c)]
           h == [c \in C \cup {x} |-> LengthOf(c)]
<1>1. IsFiniteSet(C)
  BY LanesAssumption, FS_Subset
<1>2. Bytes(C) = Sum(g, C) /\ Bytes(C \cup {x}) = Sum(h, C \cup {x})
  BY DEF Bytes, SumFunction, Sum
<1>3. (\A c \in C : g[c] = h[c]) /\ h[x] = LengthOf(x) /\ \A c \in C \cup {x} : h[c] \in Nat
  BY LanesAssumption
<1> HIDE DEF g, h
<1>4. Sum(h, C \cup {x}) = h[x] + Sum(h, C)
  BY <1>1, <1>3, SumAdd
<1>5. Sum(g, C) = Sum(h, C)
  BY <1>1, <1>3, SumAgree
<1>6. Sum(h, C) \in Nat
  BY <1>1, <1>3, SumType
<1> QED BY <1>2, <1>3, <1>4, <1>5, <1>6

\* What one entry does to the cut.
LEMMA CutStep ==
    ASSUME NEW q \in Seq(Entry), NEW now \in Nat, NEW f, IsCut(f, q, now), NEW n \in 1..Len(q)
    PROVE  /\ f[n - 1] \in CutState /\ f[n] \in CutState /\ q[n] \in Entry
           /\ f[n].verdict = disposition(q[n], now, f[n - 1].count, f[n - 1].bytes)
           /\ f[n].verdict = "Selected" =>
                /\ f[n].count = f[n - 1].count + 1
                /\ f[n].bytes = f[n - 1].bytes + LengthOf(q[n].capsule)
           /\ f[n].verdict # "Selected" =>
                f[n].count = f[n - 1].count /\ f[n].bytes = f[n - 1].bytes
<1>1. n - 1 \in 0..Len(q) /\ n \in 0..Len(q)
  OBVIOUS
<1>2. f[n - 1] \in CutState /\ f[n] \in CutState /\ q[n] \in Entry
  BY <1>1 DEF IsCut
<1>3. f[n] = Considered(f[n - 1], q[n], now)
  BY DEF IsCut
<1> DEFINE v == disposition(q[n], now, f[n - 1].count, f[n - 1].bytes)
<1>4. CASE v = "Selected"
  <2>1. f[n] = [count |-> f[n - 1].count + 1,
                bytes |-> f[n - 1].bytes + LengthOf(q[n].capsule), verdict |-> v]
    BY <1>3, <1>4 DEF Considered
  <2> HIDE DEF v
  <2>2. f[n].verdict = v
    BY <2>1
  <2>3. v = disposition(q[n], now, f[n - 1].count, f[n - 1].bytes)
    BY DEF v
  <2> QED BY <1>2, <1>4, <2>1, <2>2, <2>3
<1>5. CASE v # "Selected"
  <2>1. f[n] = [f[n - 1] EXCEPT !.verdict = v]
    BY <1>3, <1>5 DEF Considered
  <2>3. v = disposition(q[n], now, f[n - 1].count, f[n - 1].bytes)
    BY DEF v
  <2> HIDE DEF v
  <2>2. f[n].verdict = v /\ f[n].count = f[n - 1].count /\ f[n].bytes = f[n - 1].bytes
    BY <1>2, <2>1 DEF CutState
  <2> QED BY <1>2, <1>5, <2>2, <2>3
<1> QED BY <1>4, <1>5

\* The entries selected among the first n.
Taken(f, q, n) == {q[i] : i \in {j \in 1..n : f[j].verdict = "Selected"}}

CapsulesOf(E) == {e.capsule : e \in E}

\* The schedule names no entry and no capsule twice.
NoRepeats(q) ==
    \A i, j \in 1..Len(q) : q[i] = q[j] \/ q[i].capsule = q[j].capsule => i = j

\* The cut counts what it has taken, and stays within both limits.
LEMMA CutCounts ==
    ASSUME NEW q \in Seq(Entry), NoRepeats(q), NEW now \in Nat, NEW f, IsCut(f, q, now)
    PROVE  \A n \in 0..Len(q) :
             /\ IsFiniteSet(Taken(f, q, n)) /\ Taken(f, q, n) \subseteq Entry
             /\ f[n].count = Cardinality(Taken(f, q, n)) /\ f[n].count <= DecisionLimit
             /\ f[n].bytes = Bytes(CapsulesOf(Taken(f, q, n))) /\ f[n].bytes <= ByteCeiling
<1> DEFINE T(n) == Taken(f, q, n)
           Good(n) == /\ IsFiniteSet(T(n)) /\ T(n) \subseteq Entry
                      /\ f[n].count = Cardinality(T(n)) /\ f[n].count <= DecisionLimit
                      /\ f[n].bytes = Bytes(CapsulesOf(T(n))) /\ f[n].bytes <= ByteCeiling
           G == {n \in 0..Len(q) : Good(n)}
<1>1. Len(q) \in Nat
  OBVIOUS
<1>2. Good(0)
  <2>1. T(0) = {} /\ CapsulesOf(T(0)) = {}
    BY DEF Taken, CapsulesOf
  <2>2. f[0].count = 0 /\ f[0].bytes = 0
    BY DEF IsCut, Nothing
  <2>3. 0 <= DecisionLimit /\ 0 <= ByteCeiling
    BY LanesAssumption
  <2> QED BY <2>1, <2>2, <2>3, FS_EmptySet, BytesEmpty
<1>3. ASSUME NEW n \in 1..Len(q), Good(n - 1) PROVE Good(n)
  <2>1. /\ f[n - 1] \in CutState /\ f[n] \in CutState /\ q[n] \in Entry
        /\ f[n].verdict = disposition(q[n], now, f[n - 1].count, f[n - 1].bytes)
        /\ f[n].verdict = "Selected" =>
             /\ f[n].count = f[n - 1].count + 1
             /\ f[n].bytes = f[n - 1].bytes + LengthOf(q[n].capsule)
        /\ f[n].verdict # "Selected" =>
             f[n].count = f[n - 1].count /\ f[n].bytes = f[n - 1].bytes
    BY CutStep
  <2>2. \A i : i \in 1..n <=> i \in 1..(n - 1) \/ i = n
    OBVIOUS
  <2>3. CASE f[n].verdict # "Selected"
    <3>1. T(n) = T(n - 1)
      BY <2>2, <2>3 DEF Taken
    <3> QED BY <1>3, <2>1, <2>3, <3>1
  <2>4. CASE f[n].verdict = "Selected"
    <3>1. T(n) = T(n - 1) \cup {q[n]}
      BY <2>2, <2>4 DEF Taken
    <3>2. q[n] \notin T(n - 1) /\ q[n].capsule \notin CapsulesOf(T(n - 1))
      <4>1. \A i \in 1..(n - 1) : i \in 1..Len(q) /\ i # n
        OBVIOUS
      <4>2. \A i \in 1..(n - 1) : q[i] # q[n] /\ q[i].capsule # q[n].capsule
        BY <4>1 DEF NoRepeats
      <4> QED BY <4>2 DEF Taken, CapsulesOf
    <3>3. CapsulesOf(T(n)) = CapsulesOf(T(n - 1)) \cup {q[n].capsule}
      <4> HIDE DEF T
      <4> QED BY <3>1 DEF CapsulesOf
    <3>4. q[n].capsule \in Capsules /\ CapsulesOf(T(n - 1)) \subseteq Capsules
      BY <1>3, <2>1 DEF CapsulesOf, Entry
    <3>5. Bytes(CapsulesOf(T(n))) = Bytes(CapsulesOf(T(n - 1))) + LengthOf(q[n].capsule)
      BY <3>2, <3>3, <3>4, BytesAdd
    <3>6. IsFiniteSet(T(n)) /\ Cardinality(T(n)) = Cardinality(T(n - 1)) + 1
      BY <1>3, <3>1, <3>2, FS_AddElement
    <3>7. f[n - 1].count # DecisionLimit /\ ~(f[n - 1].bytes + LengthOf(q[n].capsule) > ByteCeiling)
      BY <2>1, <2>4 DEF disposition
    <3>8. f[n - 1].count \in Nat /\ f[n - 1].bytes \in Nat /\ LengthOf(q[n].capsule) \in Nat
          /\ DecisionLimit \in Nat /\ ByteCeiling \in Nat
      BY <2>1, <3>4, LanesAssumption DEF CutState
    <3>9. f[n].count = f[n - 1].count + 1 /\ f[n].bytes = f[n - 1].bytes + LengthOf(q[n].capsule)
      BY <2>1, <2>4
    <3>10. T(n) \subseteq Entry
      BY <1>3, <2>1, <3>1
    <3> HIDE DEF T
    <3> QED BY <1>3, <3>5, <3>6, <3>7, <3>8, <3>9, <3>10
  <2> QED BY <2>3, <2>4
<1> HIDE DEF Good
<1>4. 0 \in G
  BY <1>1, <1>2
<1>5. ASSUME NEW n \in 1..Len(q), n - 1 \in G PROVE n \in G
  BY <1>1, <1>3, <1>5
<1>6. \A n \in 0..Len(q) : n \in G
  <2> HIDE DEF G
  <2> QED BY <1>1, <1>4, <1>5, UpTo
<1> QED BY <1>6 DEF Good
------------------------------------------------------------------------------
(* The components of a batch.                                              *)

LEMMA ConflictSymmetric == \A e, f : Conflict(e, f) <=> Conflict(f, e)
BY DEF Conflict

\* r is the frontier search of E from e, step by step.
IsSearch(r, E, e, N) ==
    /\ r \in [0..N -> SUBSET E]
    /\ r[0] = {e}
    /\ \A n \in 1..N : r[n] = r[n - 1] \cup Neighbours(E, r[n - 1])

ReachRule(r, E, e, N) ==
    [n \in 0..N |-> IF n = 0 THEN {e} ELSE r[n - 1] \cup Neighbours(E, r[n - 1])]

LEMMA ReachableIsSearch ==
    ASSUME NEW E, IsFiniteSet(E), NEW e \in E
    PROVE  \E r : /\ IsSearch(r, E, e, Cardinality(E))
                  /\ Reachable(E, e) = r[Cardinality(E)]
<1> DEFINE N == Cardinality(E)
           D == SUBSET E
           step == [n \in 1..N |-> [C \in D |-> C \cup Neighbours(E, C)]]
           g == CHOOSE r : r = ReachRule(r, E, e, N)
<1>1. N \in Nat
  BY FS_CardinalityType
<1>2. \A C \in D : C \cup Neighbours(E, C) \in D
  BY DEF Neighbours
<1>3. step \in [1..N -> [D -> D]] /\ {e} \in D
  <2> HIDE DEF N
  <2> QED BY <1>2
<1>4. PICK f \in [0..N -> D] : Follows(f, N, {e}, step)
  <2> HIDE DEF N, D, step
  <2> QED BY <1>1, <1>3, RecursionExists
<1> HIDE DEF N
<1>5. f = ReachRule(f, E, e, N)
  <2>1. f[0] = {e}
    BY <1>4 DEF Follows
  <2>2. ASSUME NEW n \in 1..N PROVE f[n] = f[n - 1] \cup Neighbours(E, f[n - 1])
    <3>1. f[n - 1] \in D
      BY <1>1, <1>4
    <3>2. f[n] = step[n][f[n - 1]]
      BY <1>4 DEF Follows
    <3> QED BY <3>1, <3>2
  <2>3. \A n \in 0..N : f[n] = IF n = 0 THEN {e} ELSE f[n - 1] \cup Neighbours(E, f[n - 1])
    BY <1>1, <2>1, <2>2
  <2>4. f = [n \in 0..N |-> f[n]]
    BY <1>4
  <2> QED BY <2>3, <2>4 DEF ReachRule
<1>6. g = ReachRule(g, E, e, N)
  BY <1>5
<1>7. Reachable(E, e) = g[N]
  BY DEF Reachable, ReachRule, N
<1> HIDE DEF g
<1>8. g = [n \in 0..N |-> g[n]]
  BY <1>6 DEF ReachRule
<1>9. g[0] = {e} /\ \A n \in 1..N : g[n] = g[n - 1] \cup Neighbours(E, g[n - 1])
  <2>2. \A n \in 0..N : g[n] = IF n = 0 THEN {e} ELSE g[n - 1] \cup Neighbours(E, g[n - 1])
    BY <1>6 DEF ReachRule
  <2>3. 0 \in 0..N /\ \A n \in 1..N : n \in 0..N /\ n # 0
    BY <1>1
  <2> QED BY <2>2, <2>3
<1> DEFINE G == {n \in 0..N : g[n] \in D}
<1>10. \A n \in 0..N : n \in G
  <2>1. 0 \in G
    BY <1>1, <1>3, <1>9
  <2>2. ASSUME NEW n \in 1..N, n - 1 \in G PROVE n \in G
    <3>1. n \in 0..N /\ g[n - 1] \in D /\ g[n] = g[n - 1] \cup Neighbours(E, g[n - 1])
      BY <1>1, <1>9, <2>2
    <3>2. g[n] \in D
      BY <1>2, <3>1
    <3> QED BY <3>1, <3>2
  <2> HIDE DEF G
  <2> QED BY <1>1, <2>1, <2>2, UpTo
<1>11. g \in [0..N -> SUBSET E]
  BY <1>10, <1>8
<1> QED BY <1>7, <1>9, <1>11 DEF IsSearch, N

\* The search finds e and everything that conflicts with what it finds.
LEMMA ReachableClosed ==
    ASSUME NEW E, IsFiniteSet(E), NEW e \in E
    PROVE  /\ e \in Reachable(E, e) /\ Reachable(E, e) \subseteq E
           /\ Neighbours(E, Reachable(E, e)) \subseteq Reachable(E, e)
<1> DEFINE N == Cardinality(E)
<1>1. PICK r : IsSearch(r, E, e, N) /\ Reachable(E, e) = r[N]
  BY ReachableIsSearch
<1>2. N \in Nat
  BY FS_CardinalityType
<1> DEFINE Full(n) == Neighbours(E, r[n]) \subseteq r[n] \/ Cardinality(r[n]) > n
           G == {n \in 0..N : e \in r[n] /\ Full(n)}
<1>3. \A n \in 0..N : r[n] \subseteq E /\ IsFiniteSet(r[n]) /\ Cardinality(r[n]) \in Nat
  <2>1. \A n \in 0..N : r[n] \in SUBSET E
    BY <1>1 DEF IsSearch
  <2> QED BY <2>1, FS_Subset, FS_CardinalityType
<1>4. 0 \in G
  <2>1. Cardinality({e}) = 1
    BY FS_Singleton
  <2>2. r[0] = {e}
    BY <1>1 DEF IsSearch
  <2>3. 0 \in 0..N /\ e \in r[0] /\ Cardinality(r[0]) > 0
    BY <1>2, <2>1, <2>2
  <2> QED BY <2>3
<1>5. ASSUME NEW n \in 1..N, n - 1 \in G PROVE n \in G
  <2>1. r[n] = r[n - 1] \cup Neighbours(E, r[n - 1])
    BY <1>1 DEF IsSearch
  <2>2. n - 1 \in 0..N /\ n \in 0..N
    BY <1>2
  <2>3. CASE Neighbours(E, r[n - 1]) \subseteq r[n - 1]
    <3>1. r[n] = r[n - 1]
      BY <2>1, <2>3
    <3> QED BY <1>5, <2>2, <2>3, <3>1
  <2>4. CASE ~(Neighbours(E, r[n - 1]) \subseteq r[n - 1])
    <3>1. r[n - 1] \subseteq r[n] /\ r[n - 1] # r[n]
      BY <2>1, <2>4
    <3>2. /\ Cardinality(r[n - 1]) <= Cardinality(r[n])
          /\ Cardinality(r[n]) # Cardinality(r[n - 1])
      BY <1>3, <2>2, <3>1, FS_Subset
    <3>3. Cardinality(r[n - 1]) > n - 1
      BY <1>5, <2>4
    <3>4. Cardinality(r[n]) > n
      BY <1>3, <2>2, <3>2, <3>3
    <3> QED BY <1>5, <2>2, <3>1, <3>4
  <2> QED BY <2>3, <2>4
<1>6. \A n \in 0..N : n \in G
  <2> HIDE DEF G, N
  <2> QED BY <1>2, <1>4, <1>5, UpTo
<1>7. N \in G /\ N \in 0..N
  BY <1>2, <1>6
<1>8. ~(Cardinality(r[N]) > N)
  <2>1. Cardinality(r[N]) <= N
    BY <1>3, <1>7, FS_Subset
  <2> QED BY <1>2, <1>3, <1>7, <2>1
<1> QED BY <1>1, <1>3, <1>7, <1>8

\* What the search finds hangs together.
LEMMA ReachableConnected ==
    ASSUME NEW E, IsFiniteSet(E), NEW e \in E,
           NEW P, P \subseteq Reachable(E, e), P # {}, P # Reachable(E, e)
    PROVE  \E x \in P, y \in Reachable(E, e) \ P : Conflict(x, y)
<1> DEFINE N == Cardinality(E)
           C == Reachable(E, e)
<1>1. PICK r : IsSearch(r, E, e, N) /\ C = r[N]
  BY ReachableIsSearch
<1>2. N \in Nat
  BY FS_CardinalityType
<1>3. e \in C /\ C \subseteq E /\ Neighbours(E, C) \subseteq C
  BY ReachableClosed
<1>4. ASSUME NEW Q, Q \subseteq C, e \in Q, Q # C
      PROVE  \E x \in Q, y \in C \ Q : Conflict(x, y)
  <2> SUFFICES ASSUME \A x \in Q, y \in C \ Q : ~Conflict(x, y) PROVE FALSE
    OBVIOUS
  <2> DEFINE G == {n \in 0..N : r[n] \subseteq Q}
  <2>1. 0 \in G
    <3> HIDE DEF N
    <3> QED BY <1>1, <1>2, <1>4 DEF IsSearch
  <2>2. ASSUME NEW n \in 1..N, n - 1 \in G PROVE n \in G
    <3>1. r[n] = r[n - 1] \cup Neighbours(E, r[n - 1]) /\ n \in 0..N
      <4> HIDE DEF N
      <4> QED BY <1>1, <1>2 DEF IsSearch
    <3>2. Neighbours(E, r[n - 1]) \subseteq Q
      BY <1>3, <1>4, <2>2 DEF Neighbours
    <3> QED BY <2>2, <3>1, <3>2
  <2>3. \A n \in 0..N : n \in G
    <3> HIDE DEF G, N
    <3> QED BY <1>2, <2>1, <2>2, UpTo
  <2>4. N \in G
    BY <1>2, <2>3
  <2> QED BY <1>1, <1>4, <2>4
<1>5. CASE e \in P
  BY <1>4, <1>5
<1>6. CASE e \notin P
  <2>1. C \ P \subseteq C /\ e \in C \ P /\ C \ P # C
    BY <1>3, <1>6
  <2>2. \E x \in C \ P, y \in C \ (C \ P) : Conflict(x, y)
    BY <1>4, <2>1
  <2> QED BY <2>2, ConflictSymmetric
<1> QED BY <1>5, <1>6

\* The components partition the entries, without conflicts between them.
Isolated(E, graph) ==
    /\ UNION graph = E
    /\ \A C, D \in graph : C # D =>
         /\ C \cap D = {}
         /\ \A e \in C, f \in D : ~Conflict(e, f)
    /\ \A C \in graph : \A P \in SUBSET C :
         P \notin {{}, C} => \E e \in P, f \in C \ P : Conflict(e, f)

LEMMA ComponentsAreIsolated ==
    ASSUME NEW E, IsFiniteSet(E)
    PROVE  Isolated(E, components_for(E)) /\ components_for(E) \subseteq SUBSET E
<1>1. \A e \in E : /\ e \in Reachable(E, e) /\ Reachable(E, e) \subseteq E
                   /\ Neighbours(E, Reachable(E, e)) \subseteq Reachable(E, e)
  BY ReachableClosed
<1>2. UNION components_for(E) = E /\ components_for(E) \subseteq SUBSET E
  BY <1>1 DEF components_for
<1>3. ASSUME NEW e \in E, NEW f \in E, Reachable(E, e) \cap Reachable(E, f) # {}
      PROVE  Reachable(E, e) \subseteq Reachable(E, f)
  <2> DEFINE P == Reachable(E, e) \cap Reachable(E, f)
  <2> SUFFICES ASSUME P # Reachable(E, e) PROVE FALSE
    OBVIOUS
  <2>1. P \subseteq Reachable(E, e) /\ P # {}
    BY <1>3
  <2> HIDE DEF P
  <2>2. PICK x \in P, y \in Reachable(E, e) \ P : Conflict(x, y)
    BY <2>1, ReachableConnected
  <2>3. x \in Reachable(E, f) /\ y \in E /\ y \notin Reachable(E, f)
    BY <1>1, <2>2 DEF P
  <2>4. y \in Neighbours(E, Reachable(E, f))
    BY <2>2, <2>3 DEF Neighbours
  <2> QED BY <1>1, <2>3, <2>4
<1>4. ASSUME NEW e \in E, NEW f \in E, Reachable(E, e) # Reachable(E, f)
      PROVE  Reachable(E, e) \cap Reachable(E, f) = {}
  <2>1. Reachable(E, e) \cap Reachable(E, f) = Reachable(E, f) \cap Reachable(E, e)
    OBVIOUS
  <2> QED BY <1>3, <1>4, <2>1
<1>5. ASSUME NEW e \in E, NEW f \in E, Reachable(E, e) # Reachable(E, f),
             NEW x \in Reachable(E, e), NEW y \in Reachable(E, f), Conflict(x, y)
      PROVE  FALSE
  <2>1. y \in Neighbours(E, Reachable(E, e))
    BY <1>1, <1>5 DEF Neighbours
  <2> QED BY <1>1, <1>4, <1>5, <2>1
<1>6. \A C, D \in components_for(E) : C # D =>
        /\ C \cap D = {}
        /\ \A e \in C, f \in D : ~Conflict(e, f)
  BY <1>4, <1>5 DEF components_for
<1>7. \A C \in components_for(E) : \A P \in SUBSET C :
        P \notin {{}, C} => \E e \in P, f \in C \ P : Conflict(e, f)
  BY ReachableConnected DEF components_for
<1> QED BY <1>2, <1>6, <1>7 DEF Isolated
------------------------------------------------------------------------------
(* What a combination makes of a lane's entries.                           *)

\* No slot and no transaction twice.
Distinct(E) ==
    \A e, f \in E : e.slot = f.slot \/ TransactionOf(e.capsule) = TransactionOf(f.capsule)
                      => e = f

ByPriority(E) == {p \in E \X E : ScheduleOrder(p[1], p[2])}
Schedule(E) == InOrder(E, ByPriority(E))
Verdicts(E, now) == plan_cut(Schedule(E), now)
Chosen(E, now) ==
    {Schedule(E)[n] : n \in {i \in DOMAIN Schedule(E) : Verdicts(E, now)[i] = "Selected"}}
Bypassed(E, now) ==
    {[entry |-> Schedule(E)[n], reason |-> Verdicts(E, now)[n], at |-> now,
      instead |-> Chosen(E, now)] :
       n \in {i \in DOMAIN Schedule(E) : Verdicts(E, now)[i] # "Selected"}}

LEMMA CombineEffect ==
    ASSUME NEW l, NEW now, combine(l, now)
    PROVE  /\ phase[l] = "Combining"
           /\ batches' = IF Chosen(entries[l], now) = {} THEN batches
                         ELSE batches \cup {[entries |-> Chosen(entries[l], now), at |-> now,
                                             graph |-> components_for(Chosen(entries[l], now)),
                                             status |-> "Ready"]}
           /\ attempts' = attempts \cup Bypassed(entries[l], now)
           /\ entries' = [entries EXCEPT ![l] = {}]
           /\ phase' = [phase EXCEPT ![l] = "Retired"]
           /\ UNCHANGED <<pending, spare, slot, claim, callers, refusals>>
BY Zenon DEF combine, Chosen, Bypassed, Verdicts, Schedule, ByPriority

LEMMA EntryFacts ==
    ASSUME NEW e \in Entry
    PROVE  /\ e.capsule \in Capsules /\ e.slot \in Slots
           /\ TransactionOf(e.capsule) \in Nat /\ PriorityOf(e.capsule) \in Nat
           /\ ReadyAt(e.capsule) \in Nat /\ LengthOf(e.capsule) \in Nat
BY LanesAssumption DEF Entry

LEMMA DistinctFinite ==
    ASSUME NEW E, E \subseteq Entry, Distinct(E)
    PROVE  IsFiniteSet(E)
<1> DEFINE g == [e \in E |-> e.slot]
<1>1. g \in [E -> Slots] /\ \A e, f \in E : g[e] = g[f] => e = f
  BY EntryFacts DEF Distinct
<1> HIDE DEF g
<1>2. g \in Injection(E, Slots)
  BY <1>1, Fun_IsInj
<1> QED BY <1>2, LanesAssumption, FS_Injection

LEMMA ScheduleTotal ==
    ASSUME NEW E, E \subseteq Entry, Distinct(E)
    PROVE  StrictTotal(E, ByPriority(E))
<1>1. \A e, f \in E : <<e, f>> \in ByPriority(E) <=> ScheduleOrder(e, f)
  BY DEF ByPriority
<1>2. \A e \in E : PriorityOf(e.capsule) \in Nat /\ TransactionOf(e.capsule) \in Nat
  BY EntryFacts
<1>3. \A e \in E : ~ScheduleOrder(e, e)
  BY <1>2 DEF ScheduleOrder
<1>4. \A e, f, g \in E : ScheduleOrder(e, f) /\ ScheduleOrder(f, g) => ScheduleOrder(e, g)
  BY <1>2 DEF ScheduleOrder
<1>5. \A e, f \in E : e # f => ScheduleOrder(e, f) \/ ScheduleOrder(f, e)
  BY <1>2 DEF ScheduleOrder, Distinct
<1> QED BY <1>1, <1>3, <1>4, <1>5 DEF StrictTotal

\* A list is a sequence.
LEMMA ListIsSeq ==
    ASSUME NEW q, NEW S, IsFiniteSet(S), NEW T, S \subseteq T, q \in [1..Cardinality(S) -> S]
    PROVE  q \in Seq(T) /\ Len(q) = Cardinality(S) /\ DOMAIN q = 1..Cardinality(S)
<1>1. Cardinality(S) \in Nat
  BY FS_CardinalityType
<1>2. q \in [1..Cardinality(S) -> T]
  OBVIOUS
<1> QED BY <1>1, <1>2

LEMMA ScheduleFacts ==
    ASSUME NEW E, E \subseteq Entry, Distinct(E)
    PROVE  /\ IsFiniteSet(E)
           /\ Lists(Schedule(E), E, ByPriority(E))
           /\ Schedule(E) \in Seq(Entry) /\ Len(Schedule(E)) = Cardinality(E)
           /\ DOMAIN Schedule(E) = 1..Cardinality(E)
           /\ NoRepeats(Schedule(E))
<1>1. IsFiniteSet(E)
  BY DistinctFinite
<1>2. Lists(Schedule(E), E, ByPriority(E))
  BY <1>1, ScheduleTotal, InOrderLists DEF Schedule
<1>3. /\ Schedule(E) \in Seq(Entry) /\ Len(Schedule(E)) = Cardinality(E)
      /\ DOMAIN Schedule(E) = 1..Cardinality(E)
  BY <1>1, <1>2, ListIsSeq DEF Lists
<1>4. NoRepeats(Schedule(E))
  <2>1. \A i \in 1..Cardinality(E) : Schedule(E)[i] \in E
    BY <1>2 DEF Lists
  <2>2. \A i, j \in 1..Cardinality(E) : Schedule(E)[i].capsule = Schedule(E)[j].capsule =>
           Schedule(E)[i] = Schedule(E)[j]
    BY <2>1 DEF Distinct
  <2>3. \A i, j \in 1..Cardinality(E) : Schedule(E)[i] = Schedule(E)[j] => i = j
    BY <1>2 DEF Lists
  <2> QED BY <1>3, <2>2, <2>3 DEF NoRepeats
<1> QED BY <1>1, <1>2, <1>3, <1>4

\* Every entry is chosen or bypassed, and none is both.
Parts(E, C, A) ==
    /\ C \subseteq E
    /\ \A a \in A : a.entry \in E /\ a.entry \notin C
    /\ \A a, z \in A : a.entry = z.entry => a = z
    /\ \A e \in E : e \in C \/ \E a \in A : a.entry = e

\* The chosen entries respect the bounds of the cut.
WithinBounds(C, now) ==
    /\ Cardinality(C) <= DecisionLimit
    /\ Bytes(CapsulesOf(C)) <= ByteCeiling
    /\ \A e \in C : ReadyAt(e.capsule) \in (now - OldestTick)..now

\* A bypassed entry found no room left by those scheduled before it.
Justified(a) ==
    LET before == {e \in a.instead : ScheduleOrder(e, a.entry)}
    IN /\ a.reason = "DecisionLimit" => Cardinality(before) = DecisionLimit
       /\ a.reason = "ByteLimit" =>
            Bytes(CapsulesOf(before)) + LengthOf(a.entry.capsule) > ByteCeiling

LEMMA CombineResult ==
    ASSUME NEW E, E \subseteq Entry, Distinct(E), NEW now \in Nat
    PROVE  /\ Parts(E, Chosen(E, now), Bypassed(E, now))
           /\ WithinBounds(Chosen(E, now), now)
           /\ \A a \in Bypassed(E, now) :
                /\ a \in [entry : E, reason : Reasons, at : {now}, instead : {Chosen(E, now)}]
                /\ Justified(a)
<1> DEFINE q == Schedule(E)
           N == Cardinality(E)
           C == Chosen(E, now)
           A == Bypassed(E, now)
<1>1. /\ IsFiniteSet(E) /\ Lists(q, E, ByPriority(E)) /\ q \in Seq(Entry)
      /\ Len(q) = N /\ DOMAIN q = 1..N /\ NoRepeats(q) /\ N \in Nat
  BY ScheduleFacts, FS_CardinalityType
<1> HIDE DEF q, N
<1>2. PICK f : IsCut(f, q, now) /\ plan_cut(q, now) = [n \in 1..N |-> f[n].verdict]
  BY <1>1, PlanCut
<1> DEFINE Sel == {i \in 1..N : f[i].verdict = "Selected"}
           Out == {i \in 1..N : f[i].verdict # "Selected"}
<1>3. \A n \in 1..N : Verdicts(E, now)[n] = f[n].verdict
  BY <1>2 DEF Verdicts, q
<1>4. C = {q[n] : n \in Sel} /\ C = Taken(f, q, N)
  <2>1. {i \in DOMAIN q : Verdicts(E, now)[i] = "Selected"} = Sel
    BY <1>1, <1>3
  <2>2. C = {q[n] : n \in {i \in DOMAIN q : Verdicts(E, now)[i] = "Selected"}}
    BY DEF Chosen, q
  <2> QED BY <2>1, <2>2 DEF Taken
<1> HIDE DEF C
<1>5. A = {[entry |-> q[n], reason |-> f[n].verdict, at |-> now, instead |-> C] : n \in Out}
  <2>1. {i \in DOMAIN q : Verdicts(E, now)[i] # "Selected"} = Out
    BY <1>1, <1>3
  <2>2. A = {[entry |-> q[n], reason |-> Verdicts(E, now)[n], at |-> now, instead |-> C] :
               n \in {i \in DOMAIN q : Verdicts(E, now)[i] # "Selected"}}
    BY DEF Bypassed, q, C
  <2>3. A = {[entry |-> q[n], reason |-> Verdicts(E, now)[n], at |-> now, instead |-> C] :
               n \in Out}
    BY <2>1, <2>2
  <2> QED BY <1>3, <2>3
<1> HIDE DEF A
<1>6. /\ \A i \in 1..N : q[i] \in E
      /\ \A i, j \in 1..N : q[i] = q[j] => i = j
      /\ \A e \in E : \E i \in 1..N : q[i] = e
      /\ \A i, j \in 1..N : i < j => ScheduleOrder(q[i], q[j])
  BY <1>1 DEF Lists, ByPriority, N
<1>7. Parts(E, C, A)
  <2>1. C \subseteq E
    BY <1>4, <1>6
  <2>2. ASSUME NEW a \in A PROVE a.entry \in E /\ a.entry \notin C
    <3>1. PICK n \in Out : a = [entry |-> q[n], reason |-> f[n].verdict, at |-> now, instead |-> C]
      BY <1>5
    <3>2. q[n] \notin C
      BY <1>4, <1>6
    <3> QED BY <1>6, <3>1, <3>2
  <2>3. ASSUME NEW a \in A, NEW z \in A, a.entry = z.entry PROVE a = z
    <3>1. PICK n \in Out : a = [entry |-> q[n], reason |-> f[n].verdict, at |-> now, instead |-> C]
      BY <1>5
    <3>2. PICK m \in Out : z = [entry |-> q[m], reason |-> f[m].verdict, at |-> now, instead |-> C]
      BY <1>5
    <3>3. q[n] = q[m]
      BY <2>3, <3>1, <3>2
    <3>4. n = m
      BY <1>6, <3>3
    <3> QED BY <3>1, <3>2, <3>4
  <2>4. ASSUME NEW e \in E PROVE e \in C \/ \E a \in A : a.entry = e
    <3>1. PICK n \in 1..N : q[n] = e
      BY <1>6
    <3>2. CASE n \in Sel
      BY <1>4, <3>1, <3>2
    <3>3. CASE n \in Out
      <4> DEFINE a == [entry |-> q[n], reason |-> f[n].verdict, at |-> now, instead |-> C]
      <4>1. a \in A /\ a.entry = e
        BY <1>5, <3>1, <3>3
      <4> QED BY <4>1
    <3> QED BY <3>2, <3>3
  <2> QED BY <2>1, <2>2, <2>3, <2>4 DEF Parts
<1>8. \A n \in 0..N :
        /\ IsFiniteSet(Taken(f, q, n)) /\ Taken(f, q, n) \subseteq Entry
        /\ f[n].count = Cardinality(Taken(f, q, n)) /\ f[n].count <= DecisionLimit
        /\ f[n].bytes = Bytes(CapsulesOf(Taken(f, q, n))) /\ f[n].bytes <= ByteCeiling
  BY <1>1, <1>2, CutCounts
<1>9. \A n \in 1..N :
        /\ f[n - 1] \in CutState /\ f[n] \in CutState /\ q[n] \in Entry
        /\ f[n].verdict = disposition(q[n], now, f[n - 1].count, f[n - 1].bytes)
  <2> SUFFICES ASSUME NEW n \in 1..Len(q)
               PROVE  /\ f[n - 1] \in CutState /\ f[n] \in CutState /\ q[n] \in Entry
                      /\ f[n].verdict = disposition(q[n], now, f[n - 1].count, f[n - 1].bytes)
    BY <1>1
  <2> QED BY <1>1, <1>2, CutStep
<1>10. WithinBounds(C, now)
  <2>1. N \in 0..N
    BY <1>1
  <2>2. Cardinality(C) <= DecisionLimit /\ Bytes(CapsulesOf(C)) <= ByteCeiling
    BY <1>4, <1>8, <2>1
  <2>3. ASSUME NEW e \in C PROVE ReadyAt(e.capsule) \in (now - OldestTick)..now
    <3>1. PICK n \in Sel : e = q[n]
      BY <1>4
    <3>2. /\ disposition(e, now, f[n - 1].count, f[n - 1].bytes) = "Selected"
          /\ ReadyAt(e.capsule) \in Nat
      BY <1>9, <3>1, EntryFacts
    <3>3. ~(now < ReadyAt(e.capsule)) /\ ~(now - ReadyAt(e.capsule) > OldestTick)
      BY <3>2 DEF disposition
    <3>4. OldestTick \in Nat
      BY LanesAssumption
    <3> QED BY <3>2, <3>3, <3>4
  <2> QED BY <2>2, <2>3 DEF WithinBounds
<1>11. ASSUME NEW a \in A
       PROVE  /\ a \in [entry : E, reason : Reasons, at : {now}, instead : {C}]
              /\ Justified(a)
  <2>1. PICK n \in Out : a = [entry |-> q[n], reason |-> f[n].verdict, at |-> now, instead |-> C]
    BY <1>5
  <2>2. f[n].verdict \in Reasons /\ q[n] \in E
    BY <1>6, <1>9 DEF CutState
  <2>3. {e \in C : ScheduleOrder(e, q[n])} = Taken(f, q, n - 1)
    <3>1. ASSUME NEW i \in Sel, ScheduleOrder(q[i], q[n]) PROVE i \in 1..(n - 1)
      <4>1. i # n
        OBVIOUS
      <4>2. CASE i > n
        <5>1. ScheduleOrder(q[n], q[i])
          BY <1>1, <1>6, <4>2
        <5>2. /\ PriorityOf(q[i].capsule) \in Nat /\ PriorityOf(q[n].capsule) \in Nat
              /\ TransactionOf(q[i].capsule) \in Nat /\ TransactionOf(q[n].capsule) \in Nat
          BY <1>9, EntryFacts
        <5> QED BY <3>1, <5>1, <5>2 DEF ScheduleOrder
      <4> QED BY <1>1, <4>1, <4>2
    <3>2. ASSUME NEW i \in 1..(n - 1), f[i].verdict = "Selected"
          PROVE  i \in Sel /\ ScheduleOrder(q[i], q[n])
      <4>1. i \in 1..N /\ i < n
        BY <1>1
      <4> QED BY <1>6, <3>2, <4>1
    <3> QED BY <1>4, <3>1, <3>2 DEF Taken
  <2> DEFINE before == {e \in a.instead : ScheduleOrder(e, a.entry)}
  <2>4. before = Taken(f, q, n - 1)
    BY <2>1, <2>3
  <2>5. /\ f[n - 1].count = Cardinality(Taken(f, q, n - 1))
        /\ f[n - 1].bytes = Bytes(CapsulesOf(Taken(f, q, n - 1)))
    BY <1>1, <1>8
  <2>6. a.reason = disposition(q[n], now, f[n - 1].count, f[n - 1].bytes) /\ a.entry = q[n]
    BY <1>9, <2>1
  <2>7. a.reason = "DecisionLimit" => f[n - 1].count = DecisionLimit
    BY <2>6 DEF disposition
  <2>8. a.reason = "ByteLimit" => f[n - 1].bytes + LengthOf(q[n].capsule) > ByteCeiling
    BY <2>6 DEF disposition
  <2>9. Justified(a)
    <3>1. Cardinality(before) = f[n - 1].count /\ Bytes(CapsulesOf(before)) = f[n - 1].bytes
      BY <2>4, <2>5
    <3>2. a.reason = "DecisionLimit" => Cardinality(before) = DecisionLimit
      BY <2>7, <3>1
    <3>3. a.reason = "ByteLimit" =>
            Bytes(CapsulesOf(before)) + LengthOf(a.entry.capsule) > ByteCeiling
      BY <2>6, <2>8, <3>1
    <3> QED BY <3>2, <3>3 DEF Justified
  <2> QED BY <2>1, <2>2, <2>9
<1> QED BY <1>7, <1>10, <1>11 DEF C, A
------------------------------------------------------------------------------
(* Sealing.                                                                *)

\* A pending lane names a transaction once.
OncePending(p) ==
    \A i, j \in DOMAIN p : TransactionOf(p[i]) = TransactionOf(p[j]) => i = j

ByKey(C) == {p \in C \X C : TransactionOf(p[1]) < TransactionOf(p[2])}
ByClaim(S) == {p \in S \X S : claim[p[1]].transaction < claim[p[2]].transaction}

LEMMA PendingFacts ==
    ASSUME NEW p \in Seq(Capsules), OncePending(p)
    PROVE  /\ Range(p) \subseteq Capsules /\ IsFiniteSet(Range(p))
           /\ Cardinality(Range(p)) = Len(p)
           /\ Lists(ByTransaction(Range(p)), Range(p), ByKey(Range(p)))
           /\ ByTransaction(Range(p)) \in Seq(Capsules)
           /\ OncePending(ByTransaction(Range(p)))
<1> DEFINE C == Range(p)
           q == ByTransaction(C)
<1>1. /\ Len(p) \in Nat /\ DOMAIN p = 1..Len(p)
      /\ p \in [1..Len(p) -> Capsules]
  OBVIOUS
<1>2. C \subseteq Capsules /\ IsFiniteSet(C) /\ p \in Surjection(1..Len(p), C)
  <2>1. C \subseteq Capsules /\ p \in Surjection(1..Len(p), C)
    BY <1>1, Fun_RangeProperties
  <2> QED BY <2>1, LanesAssumption, FS_Subset
<1>3. p \in Injection(1..Len(p), C)
  <2>1. \A i, j \in 1..Len(p) : p[i] = p[j] => i = j
    BY <1>1 DEF OncePending
  <2>2. p \in [1..Len(p) -> C]
    BY <1>2 DEF Surjection
  <2> HIDE DEF C
  <2> QED BY <2>1, <2>2, Fun_IsInj
<1>4. Cardinality(C) = Len(p)
  <2>1. IsFiniteSet(1..Len(p)) /\ Cardinality(1..Len(p)) = Len(p)
    BY <1>1, FS_Interval
  <2> HIDE DEF C
  <2> QED BY <1>2, <1>3, <2>1, FS_Surjection
<1>5. \A c, d \in C : TransactionOf(c) = TransactionOf(d) => c = d
  BY <1>1 DEF OncePending, Range
<1> HIDE DEF C
<1>6. StrictTotal(C, ByKey(C))
  <2>1. \A c \in C : TransactionOf(c) \in Nat
    BY <1>2, LanesAssumption
  <2>2. \A c, d \in C : <<c, d>> \in ByKey(C) <=> TransactionOf(c) < TransactionOf(d)
    BY DEF ByKey
  <2>3. \A c, d \in C : c # d => TransactionOf(c) # TransactionOf(d)
    BY <1>5
  <2> QED BY <2>1, <2>2, <2>3 DEF StrictTotal
<1>7. Lists(q, C, ByKey(C))
  BY <1>2, <1>6, InOrderLists DEF ByTransaction, ByKey
<1> HIDE DEF q
<1>8. q \in Seq(Capsules) /\ DOMAIN q = 1..Cardinality(C)
  BY <1>2, <1>7, ListIsSeq DEF Lists
<1>9. OncePending(q)
  <2>1. \A i \in 1..Cardinality(C) : q[i] \in C
    BY <1>7 DEF Lists
  <2>2. \A i, j \in 1..Cardinality(C) : TransactionOf(q[i]) = TransactionOf(q[j]) => q[i] = q[j]
    BY <1>5, <2>1
  <2>3. \A i, j \in 1..Cardinality(C) : q[i] = q[j] => i = j
    BY <1>7 DEF Lists
  <2> QED BY <1>8, <2>2, <2>3 DEF OncePending
<1> QED BY <1>2, <1>4, <1>7, <1>8, <1>9 DEF C, q

LEMMA SlotsListed ==
    ASSUME NEW S, S \subseteq Slots, OnePerTransaction(S),
           \A s \in S : claim[s].transaction \in Nat
    PROVE  IsFiniteSet(S) /\ Lists(SlotsByTransaction(S), S, ByClaim(S))
<1>1. IsFiniteSet(S)
  BY LanesAssumption, FS_Subset
<1>2. \A s, t \in S : <<s, t>> \in ByClaim(S) <=> claim[s].transaction < claim[t].transaction
  BY DEF ByClaim
<1>3. \A s, t \in S : s # t => claim[s].transaction # claim[t].transaction
  BY DEF OnePerTransaction
<1>4. StrictTotal(S, ByClaim(S))
  BY <1>2, <1>3 DEF StrictTotal
<1> QED BY <1>1, <1>4, InOrderLists DEF SlotsByTransaction, ByClaim

\* The entries a seal makes.
Paired(l, S) ==
    {[capsule |-> ByTransaction(Range(pending[l]))[i],
      slot |-> SlotsByTransaction(S)[i]] : i \in 1..Len(pending[l])}

\* A seal uses each slot and each capsule once, as they were claimed.
LEMMA SealPairs ==
    ASSUME NEW l, NEW S, pending[l] \in Seq(Capsules), OncePending(pending[l]),
           S \subseteq Slots, \A s \in S : claim[s] \in Claim, Sealable(l, S)
    PROVE  /\ Paired(l, S) \subseteq Entry /\ Distinct(Paired(l, S))
           /\ SlotsOf(Paired(l, S)) = S
           /\ \A e \in Paired(l, S) : claim[e.slot].lane = l
                /\ claim[e.slot].transaction = TransactionOf(e.capsule)
<1> DEFINE C == Range(pending[l])
           A == ByTransaction(C)
           B == SlotsByTransaction(S)
           N == Len(pending[l])
           E == Paired(l, S)
<1>1. /\ C \subseteq Capsules /\ Cardinality(C) = N /\ N \in Nat
      /\ Lists(A, C, ByKey(C)) /\ A \in Seq(Capsules) /\ OncePending(A)
  BY PendingFacts
<1>2. OnePerTransaction(S) /\ Cardinality(S) = N /\ (\A s \in S : claim[s].lane = l) /\ Aligned(l, S)
  BY DEF Sealable
<1>3. Lists(B, S, ByClaim(S))
  <2>1. \A s \in S : claim[s].transaction \in Nat
    BY LanesAssumption DEF Claim
  <2> QED BY <1>2, <2>1, SlotsListed
<1>4. \A i \in 1..N : claim[B[i]].transaction = TransactionOf(A[i])
  BY <1>2 DEF Aligned
<1>5. E = {[capsule |-> A[i], slot |-> B[i]] : i \in 1..N}
  BY DEF Paired
<1> HIDE DEF A, B, C, N, E
<1>6. /\ \A i \in 1..N : A[i] \in Capsules /\ B[i] \in S
      /\ \A i, j \in 1..N : B[i] = B[j] => i = j
      /\ \A s \in S : \E i \in 1..N : B[i] = s
  BY <1>1, <1>2, <1>3 DEF Lists
<1>7. \A i, j \in 1..N : TransactionOf(A[i]) = TransactionOf(A[j]) => i = j
  <2>1. DOMAIN A = 1..N
    BY <1>1 DEF Lists
  <2> QED BY <1>1, <2>1 DEF OncePending
<1>8. E \subseteq Entry
  BY <1>5, <1>6 DEF Entry
<1>9. Distinct(E)
  BY <1>5, <1>6, <1>7 DEF Distinct
<1>10. SlotsOf(E) = S
  <2>1. \A e \in E : e.slot \in S
    BY <1>5, <1>6
  <2>2. ASSUME NEW s \in S PROVE \E e \in E : e.slot = s
    <3>1. PICK i \in 1..N : B[i] = s
      BY <1>6
    <3>2. [capsule |-> A[i], slot |-> B[i]] \in E /\ [capsule |-> A[i], slot |-> B[i]].slot = s
      BY <1>5, <3>1
    <3> QED BY <3>2
  <2> QED BY <2>1, <2>2 DEF SlotsOf
<1>11. \A e \in E : claim[e.slot].lane = l /\ claim[e.slot].transaction = TransactionOf(e.capsule)
  BY <1>2, <1>4, <1>5, <1>6
<1> QED BY <1>8, <1>9, <1>10, <1>11 DEF E
------------------------------------------------------------------------------
(* Who holds a slot.                                                       *)

Carries(E, s) == \E e \in E : e.slot = s

Laned(en, s) == \E l \in LaneIds : Carries(en[l], s)
Spared(sp, s) == \E l \in LaneIds : s \in sp[l]
Batched(ba, s) == \E b \in ba : Carries(b.entries, s)
Tried(at, s) == \E a \in at : a.entry.slot = s

OneLane(en, s) == \A l, m \in LaneIds : Carries(en[l], s) /\ Carries(en[m], s) => l = m
OneSpare(sp, s) == \A l, m \in LaneIds : s \in sp[l] /\ s \in sp[m] => l = m
OneBatch(ba, s) == \A b, c \in ba : Carries(b.entries, s) /\ Carries(c.entries, s) => b = c
OneTry(at, s) == \A a, z \in at : a.entry.slot = s /\ z.entry.slot = s => a = z

\* A slot is held in one place, or in none once it is settled.
Sole(s, h, en, sp, ba, at, sl) ==
    /\ OneLane(en, s) /\ OneSpare(sp, s) /\ OneBatch(ba, s) /\ OneTry(at, s)
    /\ s \in h => ~(Laned(en, s) \/ Spared(sp, s) \/ Batched(ba, s) \/ Tried(at, s))
    /\ Laned(en, s) => ~(Spared(sp, s) \/ Batched(ba, s) \/ Tried(at, s))
    /\ Spared(sp, s) => ~(Batched(ba, s) \/ Tried(at, s))
    /\ Batched(ba, s) => ~Tried(at, s)
    /\ (sl[s] = "Reserved") <=>
         (s \in h \/ Laned(en, s) \/ Spared(sp, s) \/ Batched(ba, s) \/ Tried(at, s))

Custody == \A s \in Slots : Sole(s, atHand, entries, spare, batches, attempts, slot)

Orderly ==
    /\ \A l \in LaneIds : OncePending(pending[l]) /\ Distinct(entries[l])
    /\ \A b \in batches : b.entries # {} /\ Distinct(b.entries)

Claimed == \A s \in Slots : slot[s] # "unused" => claim[s] \in Claim

Serves(s, c) == claim[s].transaction = TransactionOf(c)

Matched ==
    /\ \A l \in LaneIds : \A e \in entries[l] : claim[e.slot].lane = l /\ Serves(e.slot, e.capsule)
    /\ \A b \in batches : \A e \in b.entries : Serves(e.slot, e.capsule)
    /\ \A a \in attempts : Serves(a.entry.slot, a.entry.capsule)

\* What a cut promised stays true of its outputs.
CutKept ==
    /\ \A b \in batches : b.status = "Ready" =>
         WithinBounds(b.entries, b.at) /\ Isolated(b.entries, b.graph)
    /\ \A a \in attempts : Justified(a)

IInv == TypeOK /\ Orderly /\ Claimed /\ Matched /\ Custody /\ CutKept

LEMMA CarriesSlot == \A E, s : Carries(E, s) <=> s \in SlotsOf(E)
BY DEF Carries, SlotsOf

LEMMA LaneEmptied ==
    ASSUME NEW en, NEW T, en \in [LaneIds -> T], NEW l \in LaneIds, NEW s, OneLane(en, s),
           NEW en2, en2 = [en EXCEPT ![l] = {}]
    PROVE  /\ OneLane(en2, s)
           /\ Laned(en2, s) <=> Laned(en, s) /\ ~Carries(en[l], s)
<1>1. ~Carries({}, s)
  BY DEF Carries
<1>2. en2[l] = {} /\ \A m \in LaneIds : m # l => en2[m] = en[m]
  OBVIOUS
<1> QED BY <1>1, <1>2 DEF OneLane, Laned

LEMMA LaneFilled ==
    ASSUME NEW en, NEW T, en \in [LaneIds -> T], NEW l \in LaneIds, NEW s, OneLane(en, s),
           NEW E, NEW en2, en2 = [en EXCEPT ![l] = E], en[l] = {},
           Carries(E, s) => ~Laned(en, s)
    PROVE  /\ OneLane(en2, s)
           /\ Laned(en2, s) <=> Laned(en, s) \/ Carries(E, s)
<1>1. ~Carries({}, s)
  BY DEF Carries
<1>2. en2[l] = E /\ \A m \in LaneIds : m # l => en2[m] = en[m]
  OBVIOUS
<1> QED BY <1>1, <1>2 DEF OneLane, Laned

LEMMA SpareEmptied ==
    ASSUME NEW sp, NEW T, sp \in [LaneIds -> T], NEW l \in LaneIds, NEW s, OneSpare(sp, s),
           NEW sp2, sp2 = [sp EXCEPT ![l] = {}]
    PROVE  /\ OneSpare(sp2, s)
           /\ Spared(sp2, s) <=> Spared(sp, s) /\ s \notin sp[l]
<1>1. sp2[l] = {} /\ \A m \in LaneIds : m # l => sp2[m] = sp[m]
  OBVIOUS
<1> QED BY <1>1 DEF OneSpare, Spared

LEMMA SpareFilled ==
    ASSUME NEW sp, NEW T, sp \in [LaneIds -> T], NEW l \in LaneIds, NEW s, OneSpare(sp, s),
           NEW S, NEW sp2, sp2 = [sp EXCEPT ![l] = S], sp[l] = {},
           s \in S => ~Spared(sp, s)
    PROVE  /\ OneSpare(sp2, s)
           /\ Spared(sp2, s) <=> Spared(sp, s) \/ s \in S
<1>1. sp2[l] = S /\ \A m \in LaneIds : m # l => sp2[m] = sp[m]
  OBVIOUS
<1> QED BY <1>1 DEF OneSpare, Spared

LEMMA BatchRemoved ==
    ASSUME NEW ba, NEW b \in ba, NEW s, OneBatch(ba, s)
    PROVE  /\ OneBatch(ba \ {b}, s)
           /\ Batched(ba \ {b}, s) <=> Batched(ba, s) /\ ~Carries(b.entries, s)
BY DEF OneBatch, Batched

LEMMA BatchAdded ==
    ASSUME NEW ba, NEW b, NEW s, OneBatch(ba, s), Carries(b.entries, s) => ~Batched(ba, s)
    PROVE  /\ OneBatch(ba \cup {b}, s)
           /\ Batched(ba \cup {b}, s) <=> Batched(ba, s) \/ Carries(b.entries, s)
BY DEF OneBatch, Batched

LEMMA TryRemoved ==
    ASSUME NEW at, NEW a \in at, NEW s, OneTry(at, s)
    PROVE  /\ OneTry(at \ {a}, s)
           /\ Tried(at \ {a}, s) <=> Tried(at, s) /\ a.entry.slot # s
BY DEF OneTry, Tried

LEMMA TriesAdded ==
    ASSUME NEW at, NEW A, NEW s, OneTry(at, s), OneTry(A, s), Tried(A, s) => ~Tried(at, s)
    PROVE  /\ OneTry(at \cup A, s)
           /\ Tried(at \cup A, s) <=> Tried(at, s) \/ Tried(A, s)
BY DEF OneTry, Tried

LEMMA AbortedFacts ==
    ASSUME NEW S, TypeOK
    PROVE  /\ Aborted(S) \in [Slots -> {"unused", "Reserved", "HandedOff", "Aborted"}]
           /\ \A s \in Slots : /\ Aborted(S)[s] = "Reserved" <=> slot[s] = "Reserved" /\ s \notin S
                               /\ Aborted(S)[s] = "unused" <=> slot[s] = "unused"
BY DEF TypeOK, Aborted

\* What is in use is a live reservation.
LEMMA InUseIsReserved ==
    ASSUME TypeOK, Custody
    PROVE  /\ \A s \in atHand : s \in Slots /\ slot[s] = "Reserved"
           /\ \A l \in LaneIds : \A e \in entries[l] :
                e \in Entry /\ e.slot \in Slots /\ slot[e.slot] = "Reserved"
           /\ \A b \in batches : \A e \in b.entries :
                e \in Entry /\ e.slot \in Slots /\ slot[e.slot] = "Reserved"
           /\ \A a \in attempts : a.entry \in Entry /\ a.entry.slot \in Slots
                                   /\ slot[a.entry.slot] = "Reserved"
<1>1. \A s \in atHand : s \in Slots /\ slot[s] = "Reserved"
  BY DEF TypeOK, Custody, Sole
<1>2. ASSUME NEW l \in LaneIds, NEW e \in entries[l]
      PROVE  e \in Entry /\ e.slot \in Slots /\ slot[e.slot] = "Reserved"
  <2>1. e \in Entry /\ e.slot \in Slots
    BY EntryFacts DEF TypeOK
  <2>2. Laned(entries, e.slot)
    BY DEF Laned, Carries
  <2> QED BY <2>1, <2>2 DEF Custody, Sole
<1>3. ASSUME NEW b \in batches, NEW e \in b.entries
      PROVE  e \in Entry /\ e.slot \in Slots /\ slot[e.slot] = "Reserved"
  <2>1. e \in Entry /\ e.slot \in Slots
    BY EntryFacts DEF TypeOK, Batch
  <2>2. Batched(batches, e.slot)
    BY DEF Batched, Carries
  <2> QED BY <2>1, <2>2 DEF Custody, Sole
<1>4. ASSUME NEW a \in attempts
      PROVE  a.entry \in Entry /\ a.entry.slot \in Slots /\ slot[a.entry.slot] = "Reserved"
  <2>1. a.entry \in Entry /\ a.entry.slot \in Slots
    BY EntryFacts DEF TypeOK, Attempt
  <2>2. Tried(attempts, a.entry.slot)
    BY DEF Tried
  <2> QED BY <2>1, <2>2 DEF Custody, Sole
<1> QED BY <1>1, <1>2, <1>3, <1>4
------------------------------------------------------------------------------
(* Every step keeps the invariant.                                         *)

LEMMA InitHolds == Init => IInv
<1> SUFFICES ASSUME Init PROVE IInv
  OBVIOUS
<1> USE DEF Init
<1>1. TypeOK
  BY DEF TypeOK, Phases
<1>2. Orderly
  BY DEF Orderly, OncePending, Distinct
<1>3. Claimed /\ Matched
  BY DEF Claimed, Matched
<1>4. Custody
  <2> SUFFICES ASSUME NEW s \in Slots
               PROVE  Sole(s, atHand, entries, spare, batches, attempts, slot)
    BY DEF Custody
  <2>1. ~Laned(entries, s) /\ OneLane(entries, s)
    BY DEF Laned, OneLane, Carries
  <2>2. ~Spared(spare, s) /\ OneSpare(spare, s)
    BY DEF Spared, OneSpare
  <2>3. ~Batched(batches, s) /\ OneBatch(batches, s) /\ ~Tried(attempts, s) /\ OneTry(attempts, s)
    BY DEF Batched, OneBatch, Tried, OneTry
  <2> QED BY <2>1, <2>2, <2>3 DEF Sole
<1>5. CutKept
  BY DEF CutKept
<1> QED BY <1>1, <1>2, <1>3, <1>4, <1>5 DEF IInv

\* A claim is made for a slot nothing holds yet.
LEMMA ReserveKeeps ==
    ASSUME IInv, NEW s \in Slots, NEW c \in Claim, reserve(s, c)
    PROVE  IInv'
<1> USE DEF reserve, lanes, outputs
<1>0. TypeOK /\ Orderly /\ Claimed /\ Matched /\ Custody /\ CutKept
  BY DEF IInv
<1>1. TypeOK'
  BY <1>0 DEF TypeOK
<1>2. Orderly' /\ CutKept'
  BY <1>0 DEF Orderly, CutKept
<1>3. Claimed'
  BY <1>0 DEF Claimed, TypeOK
<1>4. Matched'
  <2>1. \A t \in Slots : slot[t] = "Reserved" => claim'[t] = claim[t]
    BY <1>0 DEF TypeOK
  <2> QED BY <1>0, <2>1, InUseIsReserved DEF Matched, Serves
<1>5. Custody'
  <2> SUFFICES ASSUME NEW t \in Slots
               PROVE  Sole(t, atHand', entries', spare', batches', attempts', slot')
    BY DEF Custody
  <2>1. Sole(t, atHand, entries, spare, batches, attempts, slot)
    BY <1>0 DEF Custody
  <2>2. t \in atHand' <=> t \in atHand \/ t = s
    OBVIOUS
  <2>3. slot'[t] = "Reserved" <=> slot[t] = "Reserved" \/ t = s
    BY <1>0 DEF TypeOK
  <2> QED BY <2>1, <2>2, <2>3 DEF Sole
<1> QED BY <1>1, <1>2, <1>3, <1>4, <1>5 DEF IInv

\* Claims last, so that what matched them still does.
LEMMA ClaimsLast ==
    ASSUME IInv, claim' = claim, slot' \in [Slots -> {"unused", "Reserved", "HandedOff", "Aborted"}],
           \A s \in Slots : slot[s] = "unused" => slot'[s] = "unused"
    PROVE  Claimed'
BY DEF IInv, Claimed

LEMMA AbandonKeeps ==
    ASSUME IInv, NEW s \in Slots, abandon(s)
    PROVE  IInv'
<1> USE DEF abandon, lanes, outputs
<1>0. TypeOK /\ Orderly /\ Claimed /\ Matched /\ Custody /\ CutKept
  BY DEF IInv
<1>a. slot' = Aborted({s})
  OBVIOUS
<1>b. /\ slot' \in [Slots -> {"unused", "Reserved", "HandedOff", "Aborted"}]
      /\ \A t \in Slots : /\ slot'[t] = "Reserved" <=> slot[t] = "Reserved" /\ t # s
                          /\ slot'[t] = "unused" <=> slot[t] = "unused"
  BY <1>0, <1>a, AbortedFacts
<1>1. TypeOK'
  BY <1>0, <1>b DEF TypeOK
<1>2. Orderly' /\ CutKept' /\ Matched'
  BY <1>0 DEF Orderly, CutKept, Matched, Serves
<1>3. Claimed'
  BY <1>b, ClaimsLast
<1>5. Custody'
  <2> SUFFICES ASSUME NEW t \in Slots
               PROVE  Sole(t, atHand', entries', spare', batches', attempts', slot')
    BY DEF Custody
  <2>1. Sole(t, atHand, entries, spare, batches, attempts, slot)
    BY <1>0 DEF Custody
  <2>2. t \in atHand' <=> t \in atHand /\ t # s
    OBVIOUS
  <2>3. slot'[t] = "Reserved" <=> slot[t] = "Reserved" /\ t # s
    BY <1>b
  <2>4. s \in atHand
    OBVIOUS
  <2> QED BY <2>1, <2>2, <2>3, <2>4 DEF Sole
<1> QED BY <1>1, <1>2, <1>3, <1>5 DEF IInv

LEMMA AppendKeeps ==
    ASSUME IInv, NEW l \in LaneIds, NEW c \in Capsules, append(l, c)
    PROVE  IInv'
<1> USE DEF append, outputs
<1>0. TypeOK /\ Orderly /\ Claimed /\ Matched /\ Custody /\ CutKept
  BY DEF IInv
<1>1. pending[l] \in Seq(Capsules) /\ pending \in [LaneIds -> Seq(Capsules)]
  BY <1>0 DEF TypeOK
<1>2. TypeOK'
  <2>1. pending' \in [LaneIds -> Seq(Capsules)]
    BY <1>1
  <2>2. \A m \in LaneIds : pending'[m] # << >> => phase'[m] \in {"Writable", "SealFailed"}
    BY <1>0, <1>1 DEF TypeOK
  <2> QED BY <1>0, <2>1, <2>2 DEF TypeOK
<1>3. Orderly'
  <2>1. ASSUME NEW m \in LaneIds PROVE OncePending(pending'[m])
    <3>1. OncePending(pending[m]) /\ OncePending(pending[l])
      BY <1>0 DEF Orderly
    <3>2. CASE m # l
      BY <1>1, <3>1, <3>2
    <3>3. CASE m = l
      <4>1. pending'[m] = Append(pending[l], c)
        BY <1>1, <3>3
      <4>2. \A i \in 1..Len(pending[l]) : TransactionOf(pending[l][i]) # TransactionOf(c)
        BY <1>1 DEF Repeats
      <4>3. /\ DOMAIN pending[l] = 1..Len(pending[l]) /\ Len(pending[l]) \in Nat
            /\ DOMAIN Append(pending[l], c) = 1..(Len(pending[l]) + 1)
            /\ \A i \in 1..Len(pending[l]) : Append(pending[l], c)[i] = pending[l][i]
            /\ Append(pending[l], c)[Len(pending[l]) + 1] = c
        BY <1>1
      <4>4. \A i \in 1..(Len(pending[l]) + 1) : i \in 1..Len(pending[l]) \/ i = Len(pending[l]) + 1
        BY <4>3
      <4> QED BY <3>1, <4>1, <4>2, <4>3, <4>4 DEF OncePending
    <3> QED BY <3>2, <3>3
  <2> QED BY <1>0, <2>1 DEF Orderly
<1>4. Claimed' /\ Matched' /\ Custody' /\ CutKept'
  BY <1>0 DEF Claimed, Matched, Serves, Custody, CutKept
<1> QED BY <1>2, <1>3, <1>4 DEF IInv

LEMMA TryNewKeeps ==
    ASSUME IInv, NEW l \in LaneIds, NEW c \in Capsules, NEW s \in Slots, try_new(l, c, s)
    PROVE  IInv'
<1> USE DEF try_new, lanes
<1>0. TypeOK /\ Orderly /\ Claimed /\ Matched /\ Custody /\ CutKept
  BY DEF IInv
<1> DEFINE a == [entry |-> [capsule |-> c, slot |-> s], reason |-> "none", at |-> 0, instead |-> {}]
<1>1. CASE claim[s] = [lane |-> l, transaction |-> TransactionOf(c)]
  <2>0. attempts' = attempts \cup {a} /\ loose' = loose \ {c} /\ slot' = slot
    BY <1>1
  <2>1. a \in Attempt
    BY DEF Attempt, Entry
  <2>2. TypeOK'
    <3> HIDE DEF a
    <3> QED BY <1>0, <2>0, <2>1 DEF TypeOK
  <2>3. Orderly' /\ Claimed'
    BY <1>0, <2>0 DEF Orderly, Claimed
  <2>4. Matched'
    <3>1. \A z \in attempts' : z \in attempts \/ z = a
      BY <2>0
    <3>2. Serves(a.entry.slot, a.entry.capsule)
      BY <1>1 DEF Serves
    <3> HIDE DEF a
    <3> QED BY <1>0, <3>1, <3>2 DEF Matched, Serves
  <2>5. CutKept'
    <3>1. Justified(a)
      BY DEF Justified
    <3> HIDE DEF a
    <3> QED BY <1>0, <2>0, <3>1 DEF CutKept
  <2>6. Custody'
    <3> SUFFICES ASSUME NEW t \in Slots
                 PROVE  Sole(t, atHand', entries', spare', batches', attempts', slot')
      BY DEF Custody
    <3>1. Sole(t, atHand, entries, spare, batches, attempts, slot)
      BY <1>0 DEF Custody
    <3>2. OneTry({a}, t) /\ (Tried({a}, t) <=> t = s)
      BY DEF OneTry, Tried
    <3>3. OneTry(attempts, t) /\ (Tried({a}, t) => ~Tried(attempts, t))
      BY <3>1, <3>2 DEF Sole
    <3>4. /\ OneTry(attempts', t)
          /\ Tried(attempts', t) <=> Tried(attempts, t) \/ t = s
      <4> HIDE DEF a
      <4> QED BY <2>0, <3>2, <3>3, TriesAdded
    <3>5. (t \in atHand' <=> t \in atHand /\ t # s) /\ s \in atHand
      OBVIOUS
    <3>6. /\ entries' = entries /\ spare' = spare /\ batches' = batches /\ slot' = slot
      BY <2>0
    <3> QED BY <3>1, <3>4, <3>5, <3>6 DEF Sole
  <2> QED BY <2>2, <2>3, <2>4, <2>5, <2>6 DEF IInv
<1>2. CASE claim[s] # [lane |-> l, transaction |-> TransactionOf(c)]
  <2>0. slot' = Aborted({s}) /\ attempts' = attempts /\ loose' = loose
    BY <1>2
  <2>1. /\ slot' \in [Slots -> {"unused", "Reserved", "HandedOff", "Aborted"}]
        /\ \A t \in Slots : /\ slot'[t] = "Reserved" <=> slot[t] = "Reserved" /\ t # s
                            /\ slot'[t] = "unused" <=> slot[t] = "unused"
    BY <1>0, <2>0, AbortedFacts
  <2>2. TypeOK'
    BY <1>0, <2>0, <2>1 DEF TypeOK
  <2>3. Orderly' /\ CutKept' /\ Matched'
    BY <1>0, <2>0 DEF Orderly, CutKept, Matched, Serves
  <2>4. Claimed'
    BY <2>1, ClaimsLast
  <2>5. Custody'
    <3> SUFFICES ASSUME NEW t \in Slots
                 PROVE  Sole(t, atHand', entries', spare', batches', attempts', slot')
      BY DEF Custody
    <3>1. Sole(t, atHand, entries, spare, batches, attempts, slot)
      BY <1>0 DEF Custody
    <3>2. (t \in atHand' <=> t \in atHand /\ t # s) /\ s \in atHand
      OBVIOUS
    <3>3. slot'[t] = "Reserved" <=> slot[t] = "Reserved" /\ t # s
      BY <2>1
    <3> QED BY <2>0, <3>1, <3>2, <3>3 DEF Sole
  <2> QED BY <2>2, <2>3, <2>4, <2>5 DEF IInv
<1> QED BY <1>1, <1>2

\* A seal moves the offered slots into the lane, or into its failure.
LEMMA SealKeeps ==
    ASSUME IInv, NEW l \in LaneIds, NEW S \in SUBSET atHand, seal(l, S)
    PROVE  IInv'
<1>0. TypeOK /\ Orderly /\ Claimed /\ Matched /\ Custody /\ CutKept
  BY DEF IInv
<1>1. /\ phase[l] = "Writable" /\ atHand' = atHand \ S
      /\ slot' = slot /\ claim' = claim /\ loose' = loose /\ batches' = batches
      /\ attempts' = attempts /\ refusals' = refusals
  BY DEF seal, outputs
<1>2. /\ pending \in [LaneIds -> Seq(Capsules)] /\ entries \in [LaneIds -> SUBSET Entry]
      /\ spare \in [LaneIds -> SUBSET Slots] /\ phase \in [LaneIds -> Phases]
      /\ entries[l] = {} /\ spare[l] = {} /\ OncePending(pending[l])
      /\ pending[l] \in Seq(Capsules) /\ S \subseteq Slots
  BY <1>0, <1>1 DEF TypeOK, Orderly
<1>3. \A s \in S : claim[s] \in Claim
  BY <1>0, InUseIsReserved DEF Claimed
<1>4. CASE Sealable(l, S)
  <2>0. /\ entries' = [entries EXCEPT ![l] = Paired(l, S)]
        /\ pending' = [pending EXCEPT ![l] = << >>]
        /\ phase' = [phase EXCEPT ![l] = "Sealed"] /\ spare' = spare
    BY <1>4 DEF seal, Paired
  <2> DEFINE E == Paired(l, S)
  <2>1. /\ E \subseteq Entry /\ Distinct(E) /\ SlotsOf(E) = S
        /\ \A e \in E : claim[e.slot].lane = l
             /\ claim[e.slot].transaction = TransactionOf(e.capsule)
    BY <1>2, <1>3, <1>4, SealPairs
  <2> HIDE DEF E
  <2>2. /\ entries'[l] = E /\ pending'[l] = << >> /\ phase'[l] = "Sealed"
        /\ \A m \in LaneIds : m # l =>
             entries'[m] = entries[m] /\ pending'[m] = pending[m] /\ phase'[m] = phase[m]
    BY <1>2, <2>0 DEF E
  <2>3. TypeOK'
    <3>1. /\ pending' \in [LaneIds -> Seq(Capsules)] /\ phase' \in [LaneIds -> Phases]
          /\ entries' \in [LaneIds -> SUBSET Entry]
      BY <1>2, <2>0, <2>1 DEF Phases, E
    <3>2. ASSUME NEW m \in LaneIds
          PROVE  /\ entries'[m] # {} => phase'[m] \in {"Sealed", "Combining"}
                 /\ spare'[m] # {} => phase'[m] = "SealFailed"
                 /\ pending'[m] # << >> => phase'[m] \in {"Writable", "SealFailed"}
      <4>1. CASE m = l
        BY <1>2, <2>0, <2>2, <4>1
      <4>2. CASE m # l
        BY <1>0, <2>0, <2>2, <4>2 DEF TypeOK
      <4> QED BY <4>1, <4>2
    <3>3. atHand' \in SUBSET Slots
      BY <1>0, <1>1 DEF TypeOK
    <3> QED BY <1>0, <1>1, <2>0, <3>1, <3>2, <3>3 DEF TypeOK
  <2>4. Orderly'
    <3>1. OncePending(<< >>)
      BY DEF OncePending
    <3> QED BY <1>0, <1>1, <2>1, <2>2, <3>1 DEF Orderly
  <2>5. Claimed' /\ CutKept'
    BY <1>0, <1>1 DEF Claimed, CutKept
  <2>6. Matched'
    BY <1>0, <1>1, <2>1, <2>2 DEF Matched, Serves
  <2>7. Custody'
    <3> SUFFICES ASSUME NEW t \in Slots
                 PROVE  Sole(t, atHand', entries', spare', batches', attempts', slot')
      BY DEF Custody
    <3>1. Sole(t, atHand, entries, spare, batches, attempts, slot)
      BY <1>0 DEF Custody
    <3>2. Carries(E, t) <=> t \in S
      BY <2>1, CarriesSlot
    <3>3. Carries(E, t) => ~Laned(entries, t)
      BY <3>1, <3>2 DEF Sole
    <3>4. /\ OneLane(entries', t)
          /\ Laned(entries', t) <=> Laned(entries, t) \/ Carries(E, t)
      BY <1>2, <2>0, <3>1, <3>3, LaneFilled DEF Sole, E
    <3>5. (t \in atHand' <=> t \in atHand /\ t \notin S) /\ (t \in S => t \in atHand)
      BY <1>1
    <3> QED BY <1>1, <2>0, <3>1, <3>2, <3>4, <3>5 DEF Sole
  <2> QED BY <2>3, <2>4, <2>5, <2>6, <2>7 DEF IInv
<1>5. CASE ~Sealable(l, S)
  <2>0. /\ spare' = [spare EXCEPT ![l] = S] /\ phase' = [phase EXCEPT ![l] = "SealFailed"]
        /\ pending' = [pending EXCEPT ![l] =
             IF Cardinality(S) = Len(pending[l]) /\ OnePerTransaction(S)
               THEN ByTransaction(Range(pending[l])) ELSE pending[l]]
        /\ entries' = entries
    BY <1>5 DEF seal
  <2>1. pending'[l] \in Seq(Capsules) /\ OncePending(pending'[l])
    <3>1. ByTransaction(Range(pending[l])) \in Seq(Capsules)
          /\ OncePending(ByTransaction(Range(pending[l])))
      BY <1>2, PendingFacts
    <3>2. pending'[l] = ByTransaction(Range(pending[l])) \/ pending'[l] = pending[l]
      BY <1>2, <2>0
    <3> QED BY <1>2, <3>1, <3>2
  <2>2. /\ spare'[l] = S /\ phase'[l] = "SealFailed"
        /\ \A m \in LaneIds : m # l =>
             spare'[m] = spare[m] /\ pending'[m] = pending[m] /\ phase'[m] = phase[m]
    BY <1>2, <2>0
  <2>3. TypeOK'
    <3>1. pending' \in [LaneIds -> Seq(Capsules)]
      <4>1. \A m \in LaneIds : pending'[m] \in Seq(Capsules)
        BY <1>2, <2>1, <2>2
      <4>2. pending' = [m \in LaneIds |-> pending'[m]]
        BY <1>2, <2>0
      <4> QED BY <4>1, <4>2
    <3>2. phase' \in [LaneIds -> Phases] /\ spare' \in [LaneIds -> SUBSET Slots]
      BY <1>2, <2>0 DEF Phases
    <3>3. ASSUME NEW m \in LaneIds
          PROVE  /\ entries'[m] # {} => phase'[m] \in {"Sealed", "Combining"}
                 /\ spare'[m] # {} => phase'[m] = "SealFailed"
                 /\ pending'[m] # << >> => phase'[m] \in {"Writable", "SealFailed"}
      <4>1. CASE m = l
        BY <1>2, <2>0, <2>2, <4>1
      <4>2. CASE m # l
        BY <1>0, <2>0, <2>2, <4>2 DEF TypeOK
      <4> QED BY <4>1, <4>2
    <3>4. atHand' \in SUBSET Slots
      BY <1>0, <1>1 DEF TypeOK
    <3> QED BY <1>0, <1>1, <2>0, <3>1, <3>2, <3>3, <3>4 DEF TypeOK
  <2>4. Orderly'
    BY <1>0, <1>1, <2>0, <2>1, <2>2 DEF Orderly
  <2>5. Claimed' /\ CutKept' /\ Matched'
    BY <1>0, <1>1, <2>0 DEF Claimed, CutKept, Matched, Serves
  <2>6. Custody'
    <3> SUFFICES ASSUME NEW t \in Slots
                 PROVE  Sole(t, atHand', entries', spare', batches', attempts', slot')
      BY DEF Custody
    <3>1. Sole(t, atHand, entries, spare, batches, attempts, slot)
      BY <1>0 DEF Custody
    <3>2. t \in S => t \in atHand
      OBVIOUS
    <3>3. t \in S => ~Spared(spare, t)
      BY <3>1, <3>2 DEF Sole
    <3>4. /\ OneSpare(spare', t)
          /\ Spared(spare', t) <=> Spared(spare, t) \/ t \in S
      BY <1>2, <2>0, <3>1, <3>3, SpareFilled DEF Sole
    <3>5. t \in atHand' <=> t \in atHand /\ t \notin S
      BY <1>1
    <3> QED BY <1>1, <2>0, <3>1, <3>2, <3>4, <3>5 DEF Sole
  <2> QED BY <2>3, <2>4, <2>5, <2>6 DEF IInv
<1> QED BY <1>4, <1>5

LEMMA AbortCancelledKeeps ==
    ASSUME IInv, NEW l \in LaneIds, abort_cancelled(l)
    PROVE  IInv'
<1> USE DEF abort_cancelled, callers, outputs
<1>0. TypeOK /\ Orderly /\ Claimed /\ Matched /\ Custody /\ CutKept
  BY DEF IInv
<1>1. slot' = Aborted(spare[l]) /\ spare \in [LaneIds -> SUBSET Slots]
      /\ spare' = [spare EXCEPT ![l] = {}]
  BY <1>0 DEF TypeOK
<1>2. /\ slot' \in [Slots -> {"unused", "Reserved", "HandedOff", "Aborted"}]
      /\ \A t \in Slots : /\ slot'[t] = "Reserved" <=> slot[t] = "Reserved" /\ t \notin spare[l]
                          /\ slot'[t] = "unused" <=> slot[t] = "unused"
  BY <1>0, <1>1, AbortedFacts
<1>3. TypeOK'
  <2>1. spare' \in [LaneIds -> SUBSET Slots] /\ phase' \in [LaneIds -> Phases]
    BY <1>0 DEF TypeOK, Phases
  <2>2. ASSUME NEW m \in LaneIds
        PROVE  /\ entries'[m] # {} => phase'[m] \in {"Sealed", "Combining"}
               /\ spare'[m] # {} => phase'[m] = "SealFailed"
               /\ pending'[m] # << >> => phase'[m] \in {"Writable", "SealFailed"}
    BY <1>0 DEF TypeOK
  <2> QED BY <1>0, <1>2, <2>1, <2>2 DEF TypeOK
<1>4. Orderly' /\ CutKept' /\ Matched'
  BY <1>0 DEF Orderly, CutKept, Matched, Serves
<1>5. Claimed'
  BY <1>2, ClaimsLast
<1>6. Custody'
  <2> SUFFICES ASSUME NEW t \in Slots
               PROVE  Sole(t, atHand', entries', spare', batches', attempts', slot')
    BY DEF Custody
  <2>1. Sole(t, atHand, entries, spare, batches, attempts, slot)
    BY <1>0 DEF Custody
  <2>2. /\ OneSpare(spare', t)
        /\ Spared(spare', t) <=> Spared(spare, t) /\ t \notin spare[l]
    BY <1>1, <2>1, SpareEmptied DEF Sole
  <2>3. t \in spare[l] => Spared(spare, t)
    BY DEF Spared
  <2>4. slot'[t] = "Reserved" <=> slot[t] = "Reserved" /\ t \notin spare[l]
    BY <1>2
  <2>5. atHand' = atHand /\ entries' = entries /\ batches' = batches /\ attempts' = attempts
    OBVIOUS
  <2> QED BY <2>1, <2>2, <2>3, <2>4, <2>5 DEF Sole
<1> QED BY <1>3, <1>4, <1>5, <1>6 DEF IInv

LEMMA BeginCombiningKeeps ==
    ASSUME IInv, NEW l \in LaneIds, begin_combining(l)
    PROVE  IInv'
<1> USE DEF begin_combining, callers, outputs
<1>0. TypeOK /\ Orderly /\ Claimed /\ Matched /\ Custody /\ CutKept
  BY DEF IInv
<1>1. TypeOK'
  BY <1>0 DEF TypeOK, Phases
<1>2. Orderly' /\ Claimed' /\ Matched' /\ Custody' /\ CutKept'
  BY <1>0 DEF Orderly, Claimed, Matched, Serves, Custody, CutKept
<1> QED BY <1>1, <1>2 DEF IInv

LEMMA ReopenKeeps ==
    ASSUME IInv, NEW l \in LaneIds, reopen(l)
    PROVE  IInv'
<1> USE DEF reopen, callers, outputs
<1>0. TypeOK /\ Orderly /\ Claimed /\ Matched /\ Custody /\ CutKept
  BY DEF IInv
<1>1. TypeOK'
  BY <1>0 DEF TypeOK, Phases
<1>2. Orderly' /\ Claimed' /\ Matched' /\ Custody' /\ CutKept'
  BY <1>0 DEF Orderly, Claimed, Matched, Serves, Custody, CutKept
<1> QED BY <1>1, <1>2 DEF IInv

LEMMA CancelKeeps ==
    ASSUME IInv, NEW l \in LaneIds, cancel(l)
    PROVE  IInv'
<1> USE DEF cancel, callers, outputs
<1>0. TypeOK /\ Orderly /\ Claimed /\ Matched /\ Custody /\ CutKept
  BY DEF IInv
<1>1. /\ slot' = Aborted(SlotsOf(entries[l])) /\ entries \in [LaneIds -> SUBSET Entry]
      /\ entries' = [entries EXCEPT ![l] = {}]
      /\ pending \in [LaneIds -> Seq(Capsules)] /\ pending' = [pending EXCEPT ![l] = << >>]
      /\ phase \in [LaneIds -> Phases] /\ phase' = [phase EXCEPT ![l] = "Retired"]
  BY <1>0 DEF TypeOK
<1>2. /\ slot' \in [Slots -> {"unused", "Reserved", "HandedOff", "Aborted"}]
      /\ \A t \in Slots : /\ slot'[t] = "Reserved" <=> slot[t] = "Reserved" /\ ~Carries(entries[l], t)
                          /\ slot'[t] = "unused" <=> slot[t] = "unused"
  BY <1>0, <1>1, AbortedFacts, CarriesSlot
<1>a. /\ entries'[l] = {} /\ pending'[l] = << >> /\ phase'[l] = "Retired"
      /\ \A m \in LaneIds : m # l =>
           entries'[m] = entries[m] /\ pending'[m] = pending[m] /\ phase'[m] = phase[m]
  BY <1>1
<1>3. TypeOK'
  <2>1. /\ entries' \in [LaneIds -> SUBSET Entry] /\ phase' \in [LaneIds -> Phases]
        /\ pending' \in [LaneIds -> Seq(Capsules)]
    BY <1>1 DEF Phases
  <2>2. ASSUME NEW m \in LaneIds
        PROVE  /\ entries'[m] # {} => phase'[m] \in {"Sealed", "Combining"}
               /\ spare'[m] # {} => phase'[m] = "SealFailed"
               /\ pending'[m] # << >> => phase'[m] \in {"Writable", "SealFailed"}
    BY <1>0, <1>a DEF TypeOK
  <2> QED BY <1>0, <1>2, <2>1, <2>2 DEF TypeOK
<1>4. Orderly'
  <2>1. OncePending(<< >>) /\ Distinct({})
    BY DEF OncePending, Distinct
  <2> QED BY <1>0, <1>a, <2>1 DEF Orderly
<1>5. CutKept' /\ Matched'
  BY <1>0, <1>a DEF CutKept, Matched, Serves
<1>6. Claimed'
  BY <1>2, ClaimsLast
<1>7. Custody'
  <2> SUFFICES ASSUME NEW t \in Slots
               PROVE  Sole(t, atHand', entries', spare', batches', attempts', slot')
    BY DEF Custody
  <2>1. Sole(t, atHand, entries, spare, batches, attempts, slot)
    BY <1>0 DEF Custody
  <2>2. /\ OneLane(entries', t)
        /\ Laned(entries', t) <=> Laned(entries, t) /\ ~Carries(entries[l], t)
    BY <1>1, <2>1, LaneEmptied DEF Sole
  <2>3. Carries(entries[l], t) => Laned(entries, t)
    BY DEF Laned
  <2>4. slot'[t] = "Reserved" <=> slot[t] = "Reserved" /\ ~Carries(entries[l], t)
    BY <1>2
  <2>5. atHand' = atHand /\ spare' = spare /\ batches' = batches /\ attempts' = attempts
    OBVIOUS
  <2> QED BY <2>1, <2>2, <2>3, <2>4, <2>5 DEF Sole
<1> QED BY <1>3, <1>4, <1>5, <1>6, <1>7 DEF IInv

\* Every slot of the lane goes to the batch or to one attempt.
LEMMA CombineKeeps ==
    ASSUME IInv, NEW l \in LaneIds, NEW now \in Ticks, combine(l, now)
    PROVE  IInv'
<1>0. TypeOK /\ Orderly /\ Claimed /\ Matched /\ Custody /\ CutKept
  BY DEF IInv
<1> DEFINE E == entries[l]
           C == Chosen(E, now)
           A == Bypassed(E, now)
           b == [entries |-> C, at |-> now, graph |-> components_for(C), status |-> "Ready"]
<1>1. /\ phase[l] = "Combining"
      /\ batches' = IF C = {} THEN batches ELSE batches \cup {b}
      /\ attempts' = attempts \cup A
      /\ entries' = [entries EXCEPT ![l] = {}]
      /\ phase' = [phase EXCEPT ![l] = "Retired"]
      /\ pending' = pending /\ spare' = spare /\ slot' = slot /\ claim' = claim
      /\ atHand' = atHand /\ loose' = loose /\ refusals' = refusals
  BY CombineEffect DEF callers
<1>2. /\ E \subseteq Entry /\ Distinct(E) /\ now \in Nat
      /\ entries \in [LaneIds -> SUBSET Entry] /\ phase \in [LaneIds -> Phases]
  BY <1>0, LanesAssumption DEF TypeOK, Orderly
<1> HIDE DEF E
<1>3. /\ Parts(E, C, A) /\ WithinBounds(C, now)
      /\ \A a \in A : /\ a \in [entry : E, reason : Reasons, at : {now}, instead : {C}]
                       /\ Justified(a)
  BY <1>2, CombineResult
<1> HIDE DEF C, A
<1>4. /\ C \subseteq E /\ C \subseteq Entry /\ Distinct(C)
      /\ Isolated(C, components_for(C)) /\ components_for(C) \subseteq SUBSET C
  <2>1. C \subseteq E /\ C \subseteq Entry
    BY <1>2, <1>3 DEF Parts
  <2>2. Distinct(C)
    BY <1>2, <2>1 DEF Distinct
  <2>3. IsFiniteSet(C)
    BY <2>1, <2>2, DistinctFinite
  <2> QED BY <2>1, <2>2, <2>3, ComponentsAreIsolated
<1>5. b \in Batch
  <2>1. components_for(C) \in SUBSET SUBSET Entry
    BY <1>4
  <2> QED BY <1>4, <2>1 DEF Batch
<1>6. b.entries = C /\ b.at = now /\ b.graph = components_for(C)
  OBVIOUS
<1> HIDE DEF b
<1>7. \A a \in A : a \in Attempt /\ a.entry \in E
  BY <1>2, <1>3, <1>4 DEF Attempt
<1>8. /\ \A x \in batches' : x \in batches \/ (x = b /\ C # {})
      /\ \A a \in attempts' : a \in attempts \/ a \in A
  BY <1>1
<1>9. /\ entries'[l] = {} /\ phase'[l] = "Retired"
      /\ \A m \in LaneIds : m # l => entries'[m] = entries[m] /\ phase'[m] = phase[m]
  BY <1>1, <1>2
<1>10. TypeOK'
  <2>1. entries' \in [LaneIds -> SUBSET Entry] /\ phase' \in [LaneIds -> Phases]
    BY <1>1, <1>2 DEF Phases
  <2>2. ASSUME NEW m \in LaneIds
        PROVE  /\ entries'[m] # {} => phase'[m] \in {"Sealed", "Combining"}
               /\ spare'[m] # {} => phase'[m] = "SealFailed"
               /\ pending'[m] # << >> => phase'[m] \in {"Writable", "SealFailed"}
    BY <1>0, <1>1, <1>9 DEF TypeOK
  <2>3. (\A x \in batches' : x \in Batch) /\ \A a \in attempts' : a \in Attempt
    BY <1>0, <1>5, <1>7, <1>8 DEF TypeOK
  <2> QED BY <1>0, <1>1, <2>1, <2>2, <2>3 DEF TypeOK
<1>11. Orderly'
  <2>1. Distinct({})
    BY DEF Distinct
  <2> QED BY <1>0, <1>1, <1>4, <1>6, <1>8, <1>9, <2>1 DEF Orderly
<1>12. Claimed'
  BY <1>0, <1>1 DEF Claimed
<1>13. Matched'
  <2>1. \A e \in E : Serves(e.slot, e.capsule)
    BY <1>0 DEF Matched, E
  <2> QED BY <1>0, <1>1, <1>4, <1>6, <1>7, <1>8, <1>9, <2>1 DEF Matched, Serves
<1>14. CutKept'
  BY <1>0, <1>3, <1>4, <1>6, <1>8 DEF CutKept
<1>15. Custody'
  <2> SUFFICES ASSUME NEW t \in Slots
               PROVE  Sole(t, atHand', entries', spare', batches', attempts', slot')
    BY DEF Custody
  <2>1. Sole(t, atHand, entries, spare, batches, attempts, slot)
    BY <1>0 DEF Custody
  <2>2. /\ OneLane(entries', t)
        /\ Laned(entries', t) <=> Laned(entries, t) /\ ~Carries(E, t)
    BY <1>1, <1>2, <2>1, LaneEmptied DEF Sole, E
  <2>3. Carries(E, t) => Laned(entries, t)
    BY DEF Laned, E
  <2>4. /\ Carries(E, t) <=> Carries(C, t) \/ Tried(A, t)
        /\ ~(Carries(C, t) /\ Tried(A, t))
    BY <1>2, <1>3, <1>4 DEF Parts, Carries, Tried, Distinct
  <2>5. OneTry(A, t)
    BY <1>2, <1>3 DEF Parts, OneTry, Distinct
  <2>6. /\ OneBatch(batches', t)
        /\ Batched(batches', t) <=> Batched(batches, t) \/ Carries(C, t)
    <3>1. OneBatch(batches, t) /\ (Carries(C, t) => ~Batched(batches, t))
      BY <2>1, <2>3, <2>4 DEF Sole
    <3>2. CASE C = {}
      <4>1. ~Carries(C, t) /\ batches' = batches
        BY <1>1, <3>2 DEF Carries
      <4> QED BY <3>1, <4>1
    <3>3. CASE C # {}
      <4>1. batches' = batches \cup {b}
        BY <1>1, <3>3
      <4> QED BY <1>6, <3>1, <4>1, BatchAdded
    <3> QED BY <3>2, <3>3
  <2>7. /\ OneTry(attempts', t)
        /\ Tried(attempts', t) <=> Tried(attempts, t) \/ Tried(A, t)
    <3>1. OneTry(attempts, t) /\ (Tried(A, t) => ~Tried(attempts, t))
      BY <2>1, <2>3, <2>4 DEF Sole
    <3> QED BY <1>1, <2>5, <3>1, TriesAdded
  <2> QED BY <1>1, <2>1, <2>2, <2>3, <2>4, <2>6, <2>7 DEF Sole
<1> QED BY <1>10, <1>11, <1>12, <1>13, <1>14, <1>15 DEF IInv

LEMMA NextEntryIn ==
    ASSUME NEW b, b.entries # {}, b.entries \subseteq Entry
    PROVE  NextEntry(b) \in b.entries
<1> DEFINE K == {TransactionOf(e.capsule) : e \in b.entries}
<1>1. \A e \in b.entries : TransactionOf(e.capsule) \in Nat
  BY EntryFacts
<1>2. K \subseteq Nat /\ K # {}
  BY <1>1
<1>3. PICK k \in K : \A m \in K : ~(m < k)
  <2> HIDE DEF K
  <2> QED BY <1>2, LeastNumber
<1>4. PICK e \in b.entries : TransactionOf(e.capsule) = k
  OBVIOUS
<1>5. \A f \in b.entries : TransactionOf(e.capsule) <= TransactionOf(f.capsule)
  <2> SUFFICES ASSUME NEW f \in b.entries
               PROVE  TransactionOf(e.capsule) <= TransactionOf(f.capsule)
    OBVIOUS
  <2>1. ~(TransactionOf(f.capsule) < TransactionOf(e.capsule))
    BY <1>3, <1>4
  <2> QED BY <1>1, <2>1
<1> QED BY <1>5 DEF NextEntry

LEMMA BatchReplaced ==
    ASSUME NEW ba, NEW b \in ba, NEW c, c.entries \subseteq b.entries, NEW t, OneBatch(ba, t)
    PROVE  /\ OneBatch((ba \ {b}) \cup {c}, t)
           /\ Batched((ba \ {b}) \cup {c}, t) <=>
                (Batched(ba, t) /\ ~Carries(b.entries, t)) \/ Carries(c.entries, t)
<1>1. /\ OneBatch(ba \ {b}, t)
      /\ Batched(ba \ {b}, t) <=> Batched(ba, t) /\ ~Carries(b.entries, t)
  BY BatchRemoved
<1>2. Carries(c.entries, t) => Carries(b.entries, t)
  BY DEF Carries
<1> QED BY <1>1, <1>2, BatchAdded

LEMMA HandOffSlotKeeps ==
    ASSUME IInv, NEW b \in batches, HandOffSlot(b)
    PROVE  IInv'
<1> DEFINE e == NextEntry(b)
           R == b.entries \ {e}
           c == [b EXCEPT !.entries = b.entries \ {e}, !.status = "HandingOff"]
<1>0. TypeOK /\ Orderly /\ Claimed /\ Matched /\ Custody /\ CutKept
  BY DEF IInv
<1>1. /\ slot[e.slot] = "Reserved" /\ slot' = [slot EXCEPT ![e.slot] = "HandedOff"]
      /\ batches' = (batches \ {b}) \cup Without(b, e)
      /\ pending' = pending /\ phase' = phase /\ entries' = entries /\ spare' = spare
      /\ claim' = claim /\ atHand' = atHand /\ loose' = loose /\ attempts' = attempts
      /\ refusals' = refusals
  BY DEF HandOffSlot, Replace, lanes, callers
<1>2. b \in Batch /\ b.entries \subseteq Entry /\ b.entries # {} /\ Distinct(b.entries)
  BY <1>0 DEF TypeOK, Orderly, Batch
<1>3. e \in b.entries /\ e.slot \in Slots
  BY <1>2, NextEntryIn, EntryFacts
<1> HIDE DEF e
<1>4. c \in Batch /\ c.entries = R /\ c.status = "HandingOff"
  BY <1>2 DEF Batch
<1>5. Without(b, e) = IF R = {} THEN {} ELSE {c}
  <2>1. R = {} <=> b.entries = {e}
    BY <1>3
  <2>2. Without(b, e) = IF b.entries = {e} THEN {} ELSE {c}
    BY DEF Without
  <2> QED BY <2>1, <2>2
<1> HIDE DEF c, R
<1>6. \A x \in batches' : x \in batches \/ (x = c /\ R # {})
  BY <1>1, <1>5
<1>7. R \subseteq b.entries /\ Distinct(R)
  BY <1>2 DEF R, Distinct
<1>8. /\ slot' \in [Slots -> {"unused", "Reserved", "HandedOff", "Aborted"}]
      /\ \A t \in Slots : /\ slot'[t] = "Reserved" <=> slot[t] = "Reserved" /\ t # e.slot
                          /\ slot'[t] = "unused" <=> slot[t] = "unused"
  BY <1>0, <1>1, <1>3 DEF TypeOK
<1>9. TypeOK'
  <2>1. \A x \in batches' : x \in Batch
    BY <1>0, <1>4, <1>6 DEF TypeOK
  <2> QED BY <1>0, <1>1, <1>8, <2>1 DEF TypeOK
<1>10. Orderly'
  BY <1>0, <1>1, <1>4, <1>6, <1>7 DEF Orderly
<1>11. Claimed'
  BY <1>1, <1>8, ClaimsLast
<1>12. Matched'
  BY <1>0, <1>1, <1>4, <1>6, <1>7 DEF Matched, Serves
<1>13. CutKept'
  BY <1>0, <1>1, <1>4, <1>6 DEF CutKept
<1>14. Custody'
  <2> SUFFICES ASSUME NEW t \in Slots
               PROVE  Sole(t, atHand', entries', spare', batches', attempts', slot')
    BY DEF Custody
  <2>1. Sole(t, atHand, entries, spare, batches, attempts, slot)
    BY <1>0 DEF Custody
  <2>2. Carries(R, t) <=> Carries(b.entries, t) /\ t # e.slot
    BY <1>2, <1>3 DEF R, Carries, Distinct
  <2>3. Carries(b.entries, t) => Batched(batches, t)
    BY DEF Batched
  <2>4. Carries(b.entries, e.slot)
    BY <1>3 DEF Carries
  <2>5. /\ OneBatch(batches', t)
        /\ Batched(batches', t) <=> Batched(batches, t) /\ t # e.slot
    <3>0. OneBatch(batches, t)
      BY <2>1 DEF Sole
    <3>1. CASE R = {}
      <4>1. batches' = batches \ {b} /\ ~Carries(R, t)
        BY <1>1, <1>5, <3>1 DEF Carries
      <4>2. /\ OneBatch(batches', t)
            /\ Batched(batches', t) <=> Batched(batches, t) /\ ~Carries(b.entries, t)
        BY <3>0, <4>1, BatchRemoved
      <4> QED BY <2>2, <2>4, <4>1, <4>2
    <3>2. CASE R # {}
      <4>1. batches' = (batches \ {b}) \cup {c} /\ c.entries \subseteq b.entries
        BY <1>1, <1>4, <1>5, <1>7, <3>2
      <4>2. /\ OneBatch(batches', t)
            /\ Batched(batches', t) <=>
                 (Batched(batches, t) /\ ~Carries(b.entries, t)) \/ Carries(R, t)
        BY <1>4, <3>0, <4>1, BatchReplaced
      <4> QED BY <2>2, <2>3, <2>4, <4>2
    <3> QED BY <3>1, <3>2
  <2>6. slot'[t] = "Reserved" <=> slot[t] = "Reserved" /\ t # e.slot
    BY <1>8
  <2>7. t = e.slot => Batched(batches, t)
    BY <2>3, <2>4
  <2> QED BY <1>1, <2>1, <2>5, <2>6, <2>7 DEF Sole
<1> QED BY <1>9, <1>10, <1>11, <1>12, <1>13, <1>14 DEF IInv

LEMMA HandOffRefusedKeeps ==
    ASSUME IInv, NEW b \in batches, HandOffRefused(b)
    PROVE  IInv'
<1> DEFINE c == [b EXCEPT !.status = "Failed"]
<1>0. TypeOK /\ Orderly /\ Claimed /\ Matched /\ Custody /\ CutKept
  BY DEF IInv
<1>1. /\ batches' = (batches \ {b}) \cup {c} /\ refusals' = refusals + 1
      /\ pending' = pending /\ phase' = phase /\ entries' = entries /\ spare' = spare
      /\ slot' = slot /\ claim' = claim /\ atHand' = atHand /\ loose' = loose
      /\ attempts' = attempts
  BY DEF HandOffRefused, Replace, lanes, callers
<1>2. b \in Batch /\ b.entries # {} /\ Distinct(b.entries)
  BY <1>0 DEF TypeOK, Orderly
<1>3. c \in Batch /\ c.entries = b.entries /\ c.status = "Failed"
  BY <1>2 DEF Batch
<1> HIDE DEF c
<1>4. \A x \in batches' : x \in batches \/ x = c
  BY <1>1
<1>5. TypeOK'
  <2>1. (\A x \in batches' : x \in Batch) /\ refusals' \in Nat
    BY <1>0, <1>1, <1>3, <1>4 DEF TypeOK
  <2> QED BY <1>0, <1>1, <2>1 DEF TypeOK
<1>6. Orderly'
  BY <1>0, <1>1, <1>2, <1>3, <1>4 DEF Orderly
<1>7. Claimed' /\ Matched'
  BY <1>0, <1>1, <1>3, <1>4 DEF Claimed, Matched, Serves
<1>8. CutKept'
  BY <1>0, <1>1, <1>3, <1>4 DEF CutKept
<1>9. Custody'
  <2> SUFFICES ASSUME NEW t \in Slots
               PROVE  Sole(t, atHand', entries', spare', batches', attempts', slot')
    BY DEF Custody
  <2>1. Sole(t, atHand, entries, spare, batches, attempts, slot)
    BY <1>0 DEF Custody
  <2>2. Carries(b.entries, t) => Batched(batches, t)
    BY DEF Batched
  <2>3. /\ OneBatch(batches', t)
        /\ Batched(batches', t) <=>
             (Batched(batches, t) /\ ~Carries(b.entries, t)) \/ Carries(c.entries, t)
    BY <1>1, <1>3, <2>1, BatchReplaced DEF Sole
  <2>4. Batched(batches', t) <=> Batched(batches, t)
    BY <1>3, <2>2, <2>3
  <2> QED BY <1>1, <2>1, <2>3, <2>4 DEF Sole
<1> QED BY <1>5, <1>6, <1>7, <1>8, <1>9 DEF IInv

LEMMA CancelBatchKeeps ==
    ASSUME IInv, NEW b \in batches, CancelBatch(b)
    PROVE  IInv'
<1>0. TypeOK /\ Orderly /\ Claimed /\ Matched /\ Custody /\ CutKept
  BY DEF IInv
<1>1. /\ slot' = Aborted(SlotsOf(b.entries)) /\ batches' = batches \ {b}
      /\ pending' = pending /\ phase' = phase /\ entries' = entries /\ spare' = spare
      /\ claim' = claim /\ atHand' = atHand /\ loose' = loose
      /\ attempts' = attempts /\ refusals' = refusals
  BY DEF CancelBatch, Replace, lanes, callers
<1>2. /\ slot' \in [Slots -> {"unused", "Reserved", "HandedOff", "Aborted"}]
      /\ \A t \in Slots : /\ slot'[t] = "Reserved" <=> slot[t] = "Reserved" /\ ~Carries(b.entries, t)
                          /\ slot'[t] = "unused" <=> slot[t] = "unused"
  BY <1>0, <1>1, AbortedFacts, CarriesSlot
<1>3. TypeOK'
  BY <1>0, <1>1, <1>2 DEF TypeOK
<1>4. Orderly' /\ Matched' /\ CutKept'
  BY <1>0, <1>1 DEF Orderly, Matched, Serves, CutKept
<1>5. Claimed'
  BY <1>1, <1>2, ClaimsLast
<1>6. Custody'
  <2> SUFFICES ASSUME NEW t \in Slots
               PROVE  Sole(t, atHand', entries', spare', batches', attempts', slot')
    BY DEF Custody
  <2>1. Sole(t, atHand, entries, spare, batches, attempts, slot)
    BY <1>0 DEF Custody
  <2>2. Carries(b.entries, t) => Batched(batches, t)
    BY DEF Batched
  <2>3. /\ OneBatch(batches', t)
        /\ Batched(batches', t) <=> Batched(batches, t) /\ ~Carries(b.entries, t)
    BY <1>1, <2>1, BatchRemoved DEF Sole
  <2>4. slot'[t] = "Reserved" <=> slot[t] = "Reserved" /\ ~Carries(b.entries, t)
    BY <1>2
  <2> QED BY <1>1, <2>1, <2>2, <2>3, <2>4 DEF Sole
<1> QED BY <1>3, <1>4, <1>5, <1>6 DEF IInv

\* An attempt leaves with its slot settled one way or the other.
LEMMA AttemptSettles ==
    ASSUME IInv, NEW a \in attempts, attempts' = attempts \ {a},
           UNCHANGED <<lanes, claim, callers, batches>>, refusals' \in Nat,
           slot' \in {Aborted({a.entry.slot}), [slot EXCEPT ![a.entry.slot] = "HandedOff"]}
    PROVE  IInv'
<1> USE DEF lanes, callers
<1> DEFINE s == a.entry.slot
<1>0. TypeOK /\ Orderly /\ Claimed /\ Matched /\ Custody /\ CutKept
  BY DEF IInv
<1>1. s \in Slots /\ slot[s] = "Reserved"
  BY <1>0, InUseIsReserved
<1>2. /\ slot' \in [Slots -> {"unused", "Reserved", "HandedOff", "Aborted"}]
      /\ \A t \in Slots : /\ slot'[t] = "Reserved" <=> slot[t] = "Reserved" /\ t # s
                          /\ slot'[t] = "unused" <=> slot[t] = "unused"
  <2>1. CASE slot' = Aborted({s})
    <3> HIDE DEF s
    <3> QED BY <1>0, <2>1, AbortedFacts
  <2>2. CASE slot' = [slot EXCEPT ![s] = "HandedOff"]
    BY <1>0, <1>1, <2>2 DEF TypeOK
  <2> QED BY <2>1, <2>2
<1>3. TypeOK'
  BY <1>0, <1>2 DEF TypeOK
<1>4. Orderly' /\ Matched' /\ CutKept'
  BY <1>0 DEF Orderly, Matched, Serves, CutKept
<1>5. Claimed'
  BY <1>2, ClaimsLast
<1>6. Custody'
  <2> SUFFICES ASSUME NEW t \in Slots
               PROVE  Sole(t, atHand', entries', spare', batches', attempts', slot')
    BY DEF Custody
  <2>1. Sole(t, atHand, entries, spare, batches, attempts, slot)
    BY <1>0 DEF Custody
  <2>2. s = t => Tried(attempts, t)
    BY DEF Tried
  <2>3. /\ OneTry(attempts', t)
        /\ Tried(attempts', t) <=> Tried(attempts, t) /\ s # t
    BY <2>1, TryRemoved DEF Sole
  <2>4. slot'[t] = "Reserved" <=> slot[t] = "Reserved" /\ t # s
    BY <1>2
  <2>5. atHand' = atHand /\ entries' = entries /\ spare' = spare /\ batches' = batches
    OBVIOUS
  <2> HIDE DEF s
  <2> QED BY <2>1, <2>2, <2>3, <2>4, <2>5 DEF Sole
<1> QED BY <1>3, <1>4, <1>5, <1>6 DEF IInv

LEMMA AttemptKeeps ==
    ASSUME IInv, NEW a \in attempts, HandOffAttempt(a) \/ CancelAttempt(a)
    PROVE  IInv'
<1>1. refusals \in Nat
  BY DEF IInv, TypeOK
<1>2. CASE HandOffAttempt(a)
  <2>1. refusals' \in Nat /\ attempts' = attempts \ {a}
        /\ UNCHANGED <<lanes, claim, callers, batches>>
        /\ slot' \in {Aborted({a.entry.slot}), [slot EXCEPT ![a.entry.slot] = "HandedOff"]}
    BY <1>1, <1>2 DEF HandOffAttempt
  <2> QED BY <2>1, AttemptSettles
<1>3. CASE CancelAttempt(a)
  <2>1. refusals' \in Nat /\ attempts' = attempts \ {a}
        /\ UNCHANGED <<lanes, claim, callers, batches>>
        /\ slot' \in {Aborted({a.entry.slot}), [slot EXCEPT ![a.entry.slot] = "HandedOff"]}
    BY <1>1, <1>3 DEF CancelAttempt
  <2> QED BY <2>1, AttemptSettles
<1> QED BY <1>2, <1>3

LEMMA StutterKeeps == ASSUME IInv, UNCHANGED vars PROVE IInv'
<1> USE DEF vars
<1>0. TypeOK /\ Orderly /\ Claimed /\ Matched /\ Custody /\ CutKept
  BY DEF IInv
<1>1. TypeOK' /\ Orderly' /\ Claimed'
  BY <1>0 DEF TypeOK, Orderly, Claimed
<1>2. Matched' /\ Custody' /\ CutKept'
  BY <1>0 DEF Matched, Serves, Custody, CutKept
<1> QED BY <1>1, <1>2 DEF IInv

\* The invariant of the lanes: every reserved slot is held in exactly one place,
\* for the transaction it was reserved for, and every batch and attempt is what
\* the cut that made it promised.
THEOREM LanesInvariant == Spec => []IInv
<1>1. Init => IInv
  BY InitHolds
<1>2. IInv /\ [Next]_vars => IInv'
  <2> SUFFICES ASSUME IInv, [Next]_vars PROVE IInv'
    OBVIOUS
  <2>1. CASE UNCHANGED vars
    BY <2>1, StutterKeeps
  <2>2. CASE SlotStep
    BY <2>2, AbandonKeeps, ReserveKeeps DEF SlotStep
  <2>3. ASSUME NEW l \in LaneIds, NEW c \in Capsules,
               append(l, c) \/ \E s \in Slots : try_new(l, c, s)
        PROVE  IInv'
    BY <2>3, AppendKeeps, TryNewKeeps
  <2>4. ASSUME NEW l \in LaneIds, \E S \in SUBSET atHand : seal(l, S) PROVE IInv'
    BY <2>4, SealKeeps
  <2>5. ASSUME NEW l \in LaneIds,
               abort_cancelled(l) \/ begin_combining(l) \/ cancel(l) \/ reopen(l)
        PROVE  IInv'
    BY <2>5, AbortCancelledKeeps, BeginCombiningKeeps, CancelKeeps, ReopenKeeps
  <2>6. ASSUME NEW l \in LaneIds, \E now \in Ticks : combine(l, now) PROVE IInv'
    BY <2>6, CombineKeeps
  <2>7. CASE LaneStep
    BY <2>3, <2>4, <2>5, <2>6, <2>7, Zenon DEF LaneStep
  <2>8. CASE OutputStep
    BY <2>8, HandOffSlotKeeps, HandOffRefusedKeeps, CancelBatchKeeps, AttemptKeeps
       DEF OutputStep
  <2> QED BY <2>1, <2>2, <2>7, <2>8 DEF Next
<1> QED BY <1>1, <1>2, PTL DEF Spec

\* Every lane, batch and attempt has its shape, and a lane holds only what its
\* type state has room for (LaneState).
THEOREM LanesTypes == Spec => []TypeOK
<1>1. IInv => TypeOK
  BY DEF IInv
<1> QED BY <1>1, LanesInvariant, PTL

LEMMA CountOfOne ==
    ASSUME NEW X, \A x, y \in X : x = y
    PROVE  Cardinality(X) = IF X = {} THEN 0 ELSE 1
<1>1. CASE X = {}
  BY <1>1, FS_EmptySet
<1>2. CASE X # {}
  <2>1. PICK x : X = {x}
    BY <1>2
  <2> QED BY <2>1, FS_Singleton
<1> QED BY <1>1, <1>2

\* A live reservation has exactly one owner and a settled slot none, through every
\* seal, failure, cancellation, cut and hand-off (seal, cancel, combine, hand_off).
THEOREM SlotsHaveOneOwner == Spec => []SlotHasOneOwner
<1>1. IInv => SlotHasOneOwner
  <2> SUFFICES ASSUME IInv, NEW s \in Slots
               PROVE  Owners(s) = IF slot[s] = "Reserved" THEN 1 ELSE 0
    BY DEF SlotHasOneOwner
  <2> DEFINE L == {l \in LaneIds : s \in SlotsOf(entries[l])}
             P == {l \in LaneIds : s \in spare[l]}
             B == {b \in batches : s \in SlotsOf(b.entries)}
             A == {a \in attempts : a.entry.slot = s}
  <2>1. Sole(s, atHand, entries, spare, batches, attempts, slot)
    BY DEF IInv, Custody
  <2>2. (\A x, y \in L : x = y) /\ (L # {} <=> Laned(entries, s))
    BY <2>1, CarriesSlot DEF Sole, OneLane, Laned
  <2>3. (\A x, y \in P : x = y) /\ (P # {} <=> Spared(spare, s))
    BY <2>1 DEF Sole, OneSpare, Spared
  <2>4. (\A x, y \in B : x = y) /\ (B # {} <=> Batched(batches, s))
    BY <2>1, CarriesSlot DEF Sole, OneBatch, Batched
  <2>5. (\A x, y \in A : x = y) /\ (A # {} <=> Tried(attempts, s))
    BY <2>1 DEF Sole, OneTry, Tried
  <2>6. Owners(s) = (IF s \in atHand THEN 1 ELSE 0) + Cardinality(L) + Cardinality(P)
                    + Cardinality(B) + Cardinality(A)
    BY DEF Owners
  <2> HIDE DEF L, P, B, A
  <2>7. /\ Cardinality(L) = IF Laned(entries, s) THEN 1 ELSE 0
        /\ Cardinality(P) = IF Spared(spare, s) THEN 1 ELSE 0
        /\ Cardinality(B) = IF Batched(batches, s) THEN 1 ELSE 0
        /\ Cardinality(A) = IF Tried(attempts, s) THEN 1 ELSE 0
    BY <2>2, <2>3, <2>4, <2>5, CountOfOne
  <2> QED BY <2>1, <2>6, <2>7 DEF Sole
<1> QED BY <1>1, LanesInvariant, PTL

\* A slot in a lane, a batch or an attempt was reserved for the transaction it
\* carries, and in a lane for that lane (seal, try_new).
THEOREM SlotsMatchCapsules == Spec => []SlotMatchesCapsule
<1>1. IInv => SlotMatchesCapsule
  <2> SUFFICES ASSUME IInv PROVE SlotMatchesCapsule
    OBVIOUS
  <2> DEFINE used == (UNION {entries[l] : l \in LaneIds})
                       \cup (UNION {b.entries : b \in batches})
                       \cup {a.entry : a \in attempts}
  <2>1. ASSUME NEW e \in used PROVE claim[e.slot].transaction = TransactionOf(e.capsule)
    <3>1. CASE e \in (UNION {entries[l] : l \in LaneIds})
      BY <3>1 DEF IInv, Matched, Serves
    <3>2. CASE e \in UNION {b.entries : b \in batches}
      BY <3>2 DEF IInv, Matched, Serves
    <3>3. CASE e \in {a.entry : a \in attempts}
      BY <3>3 DEF IInv, Matched, Serves
    <3> QED BY <3>1, <3>2, <3>3
  <2>2. \A l \in LaneIds : \A e \in entries[l] : claim[e.slot].lane = l
    BY DEF IInv, Matched
  <2> QED BY <2>1, <2>2 DEF SlotMatchesCapsule
<1> QED BY <1>1, LanesInvariant, PTL

\* A batch that is ready is within the decision limit, the byte ceiling and the
\* age limit, and decides no transaction twice (plan_cut).
THEOREM BatchesWithinBounds == Spec => []BatchWithinBounds
<1>1. IInv => BatchWithinBounds
  BY DEF IInv, CutKept, WithinBounds, CapsulesOf, Orderly, Distinct, BatchWithinBounds
<1> QED BY <1>1, LanesInvariant, PTL

\* Nothing is passed over for want of room that was left (plan_cut).
THEOREM CutsAreJust == Spec => []NoPriorityInversion
<1>1. IInv => NoPriorityInversion
  BY DEF IInv, CutKept, Justified, CapsulesOf, NoPriorityInversion
<1> QED BY <1>1, LanesInvariant, PTL

\* The components of a ready batch partition it, share no witness and cannot be
\* divided (components_for).
THEOREM ComponentsAreIndependent == Spec => []ComponentsIsolate
<1>1. IInv => ComponentsIsolate
  BY DEF IInv, CutKept, Isolated, ComponentsIsolate
<1> QED BY <1>1, LanesInvariant, PTL
==============================================================================
