--------------------------------- MODULE Sums ---------------------------------
(***************************************************************************)
(* What SumFunctionOnSet of the community module Functions computes.  Its   *)
(* definition is a recursive function on the subsets of a finite set; the   *)
(* laws of a sum follow by looking at a smallest set that would break them.  *)
(***************************************************************************)
EXTENDS Naturals, FiniteSets, Functions, FiniteSetTheorems, TLAPS

Sum(f, S) == SumFunctionOnSet(f, S)

Some(s) == CHOOSE x \in s : TRUE

Rest(s) == s \ {Some(s)}

Rule(f, S, h) == [s \in SUBSET S |-> IF s = {} THEN 0 ELSE f[Some(s)] + h[Rest(s)]]

\* A set of numbers has a least element.
LEMMA LeastNumber ==
    ASSUME NEW N, N \subseteq Nat, N # {}
    PROVE  \E k \in N : \A m \in N : ~(m < k)
<1> DEFINE R == OpToRel(<, Nat)
<1>1. \A x, y \in Nat : <<y, x>> \in R <=> y < x
  BY DEF OpToRel
<1>2. IsWellFoundedOn(R, Nat)
  BY NatLessThanWellFounded
<1> HIDE DEF R
<1>3. \E k \in N : \A m \in N : ~(<<m, k>> \in R)
  BY <1>2, WFMin, Zenon
<1> QED BY <1>1, <1>3, Zenon

\* A nonempty set of numbers up to a bound has a greatest member.
LEMMA GreatestNumber ==
    ASSUME NEW b \in Nat, NEW S, S \subseteq 0..b, S # {}
    PROVE  \E k \in S : \A m \in S : k >= m
<1> DEFINE N == {b - x : x \in S}
<1>1. N \subseteq Nat /\ N # {}
  <2>1. \A x \in S : b - x \in Nat
    OBVIOUS
  <2> QED BY <2>1
<1>2. PICK d \in N : \A m \in N : ~(m < d)
  <2> HIDE DEF N
  <2> QED BY <1>1, LeastNumber
<1>3. PICK k \in S : d = b - k
  OBVIOUS
<1>4. ASSUME NEW m \in S PROVE k >= m
  <2>1. b - m \in N
    OBVIOUS
  <2>2. ~(b - m < b - k)
    <3> HIDE DEF N
    <3> QED BY <1>2, <1>3, <2>1
  <2>3. m \in Nat /\ k \in Nat
    OBVIOUS
  <2> QED BY <2>2, <2>3
<1> QED BY <1>4

\* Among any subsets of a finite set there is a smallest one.
LEMMA SmallestSubset ==
    ASSUME NEW S, IsFiniteSet(S), NEW B, B \subseteq SUBSET S, B # {}
    PROVE  \E T \in B : \A U \in B : U \subseteq T => U = T
<1> DEFINE sizes == {Cardinality(T) : T \in B}
<1>1. \A T \in B : IsFiniteSet(T) /\ Cardinality(T) \in Nat
  BY FS_Subset, FS_CardinalityType
<1>2. sizes \subseteq Nat /\ sizes # {}
  BY <1>1
<1> HIDE DEF sizes
<1>3. PICK k \in sizes : \A m \in sizes : ~(m < k)
  BY <1>2, LeastNumber
<1>4. PICK T \in B : Cardinality(T) = k
  BY DEF sizes
<1>5. ASSUME NEW U \in B, U \subseteq T PROVE U = T
  <2>1. Cardinality(U) \in sizes
    BY DEF sizes
  <2>2. Cardinality(U) <= Cardinality(T) /\ (Cardinality(T) = Cardinality(U) => T = U)
    BY <1>1, <1>5, FS_Subset
  <2>3. Cardinality(U) = Cardinality(T)
    BY <1>1, <1>3, <1>4, <2>1, <2>2
  <2> QED BY <2>2, <2>3
<1> QED BY <1>5

LEMMA SomeIn == ASSUME NEW s, s # {} PROVE Some(s) \in s
BY DEF Some

LEMMA SumIsChoice ==
    ASSUME NEW f, NEW S
    PROVE  Sum(f, S) = (CHOOSE h : h = Rule(f, S, h))[S]
BY DEF Sum, SumFunctionOnSet, FoldFunctionOnSet, MapThenFoldSet, Rule, Some, Rest

\* Two solutions of the recursion on a finite set are the same.
LEMMA RuleUnique ==
    ASSUME NEW f, NEW S, IsFiniteSet(S), NEW g, NEW h, g = Rule(f, S, g), h = Rule(f, S, h)
    PROVE  \A s \in SUBSET S : g[s] = h[s]
<1> DEFINE B == {s \in SUBSET S : g[s] # h[s]}
<1> SUFFICES ASSUME B # {} PROVE FALSE
  OBVIOUS
<1>0. B \subseteq SUBSET S
  OBVIOUS
<1> HIDE DEF B
<1>1. PICK T \in B : \A U \in B : U \subseteq T => U = T
  BY <1>0, SmallestSubset
<1> USE DEF B
<1>2. T \in SUBSET S /\ g[T] # h[T]
  OBVIOUS
<1>3. /\ g[T] = IF T = {} THEN 0 ELSE f[Some(T)] + g[Rest(T)]
      /\ h[T] = IF T = {} THEN 0 ELSE f[Some(T)] + h[Rest(T)]
  BY <1>2 DEF Rule
<1>4. T # {} /\ g[Rest(T)] # h[Rest(T)]
  BY <1>2, <1>3
<1>5. Rest(T) \subseteq T /\ Rest(T) # T
  BY <1>4, SomeIn DEF Rest
<1>6. Rest(T) \in B
  BY <1>2, <1>4, <1>5
<1> QED BY <1>1, <1>5, <1>6

\* The recursion has a solution: a sum is its first term and the sum of the rest.
LEMMA SumRecursion ==
    ASSUME NEW f, NEW S, IsFiniteSet(S)
    PROVE  Sum(f, S) = IF S = {} THEN 0 ELSE f[Some(S)] + Sum(f, Rest(S))
<1> DEFINE Step(s) == IF s = {} THEN 0 ELSE f[Some(s)] + Sum(f, Rest(s))
           B == {s \in SUBSET S : Sum(f, s) # Step(s)}
<1> SUFFICES ASSUME B # {} PROVE FALSE
  OBVIOUS
<1>0. B \subseteq SUBSET S
  OBVIOUS
<1> HIDE DEF B
<1>1. PICK T \in B : \A U \in B : U \subseteq T => U = T
  BY <1>0, SmallestSubset
<1> USE DEF B
<1>2. T \in SUBSET S /\ Sum(f, T) # Step(T) /\ IsFiniteSet(T)
  BY FS_Subset
<1>3. \A s \in SUBSET T : s # T => Sum(f, s) = Step(s)
  BY <1>1, <1>2
<1> HIDE DEF B
<1>4. \A s \in SUBSET T : s # {} => Rest(s) \in SUBSET T /\ Rest(s) # T
  BY SomeIn DEF Rest
<1> DEFINE h == [s \in SUBSET T |-> Step(s)]
<1>5. \A s \in SUBSET T : s # T => h[s] = Sum(f, s)
  BY <1>3
<1>6. h = Rule(f, T, h)
  <2>1. \A s \in SUBSET T : s # {} => h[Rest(s)] = Sum(f, Rest(s))
    BY <1>4, <1>5
  <2>2. \A s \in SUBSET T : h[s] = IF s = {} THEN 0 ELSE f[Some(s)] + h[Rest(s)]
    BY <2>1
  <2>3. h = [s \in SUBSET T |-> h[s]]
    OBVIOUS
  <2> HIDE DEF h
  <2> QED BY <2>2, <2>3 DEF Rule
<1> DEFINE g == CHOOSE x : x = Rule(f, T, x)
<1>7. g = Rule(f, T, g)
  BY <1>6
<1>8. Sum(f, T) = g[T]
  BY SumIsChoice
<1>9. h[T] = Step(T)
  OBVIOUS
<1> HIDE DEF g, h
<1>10. g[T] = h[T]
  BY <1>2, <1>6, <1>7, RuleUnique
<1> QED BY <1>2, <1>8, <1>9, <1>10

\* The sum of nothing, and the type of a sum.
LEMMA SumEmpty == ASSUME NEW f PROVE Sum(f, {}) = 0
BY SumRecursion, FS_EmptySet

LEMMA SumType ==
    ASSUME NEW f, NEW S, IsFiniteSet(S), \A x \in S : f[x] \in Nat
    PROVE  Sum(f, S) \in Nat
<1> DEFINE B == {s \in SUBSET S : Sum(f, s) \notin Nat}
<1> SUFFICES ASSUME B # {} PROVE FALSE
  OBVIOUS
<1>0. B \subseteq SUBSET S
  OBVIOUS
<1> HIDE DEF B
<1>1. PICK T \in B : \A U \in B : U \subseteq T => U = T
  BY <1>0, SmallestSubset
<1> USE DEF B
<1>2. T \in SUBSET S /\ Sum(f, T) \notin Nat /\ IsFiniteSet(T)
  BY FS_Subset
<1>3. Sum(f, T) = IF T = {} THEN 0 ELSE f[Some(T)] + Sum(f, Rest(T))
  BY <1>2, SumRecursion
<1>4. T # {}
  BY <1>2, <1>3
<1>5. Rest(T) \subseteq T /\ Rest(T) # T /\ Some(T) \in S
  BY <1>2, <1>4, SomeIn DEF Rest
<1>6. Sum(f, Rest(T)) \in Nat
  BY <1>1, <1>2, <1>5
<1> QED BY <1>2, <1>3, <1>4, <1>5, <1>6

\* A sum depends only on the values it sums.
LEMMA SumAgree ==
    ASSUME NEW f, NEW g, NEW S, IsFiniteSet(S), \A x \in S : f[x] = g[x]
    PROVE  Sum(f, S) = Sum(g, S)
<1> DEFINE B == {s \in SUBSET S : Sum(f, s) # Sum(g, s)}
<1> SUFFICES ASSUME B # {} PROVE FALSE
  OBVIOUS
<1>0. B \subseteq SUBSET S
  OBVIOUS
<1> HIDE DEF B
<1>1. PICK T \in B : \A U \in B : U \subseteq T => U = T
  BY <1>0, SmallestSubset
<1> USE DEF B
<1>2. T \in SUBSET S /\ Sum(f, T) # Sum(g, T) /\ IsFiniteSet(T)
  BY FS_Subset
<1>3. /\ Sum(f, T) = IF T = {} THEN 0 ELSE f[Some(T)] + Sum(f, Rest(T))
      /\ Sum(g, T) = IF T = {} THEN 0 ELSE g[Some(T)] + Sum(g, Rest(T))
  BY <1>2, SumRecursion
<1>4. T # {}
  BY <1>2, <1>3
<1>5. Rest(T) \subseteq T /\ Rest(T) # T /\ f[Some(T)] = g[Some(T)]
  BY <1>2, <1>4, SomeIn DEF Rest
<1>6. Sum(f, Rest(T)) = Sum(g, Rest(T))
  BY <1>1, <1>2, <1>5
<1> QED BY <1>2, <1>3, <1>4, <1>5, <1>6

\* Any term can be taken out of a sum, not only the one the recursion takes.
LEMMA SumRemove ==
    ASSUME NEW f, NEW S, IsFiniteSet(S), \A x \in S : f[x] \in Nat, NEW x \in S
    PROVE  Sum(f, S) = f[x] + Sum(f, S \ {x})
<1> DEFINE Bad(s) == \E y \in s : Sum(f, s) # f[y] + Sum(f, s \ {y})
           B == {s \in SUBSET S : Bad(s)}
<1> SUFFICES ASSUME B # {} PROVE FALSE
  OBVIOUS
<1>0. B \subseteq SUBSET S
  OBVIOUS
<1> HIDE DEF B
<1>1. PICK T \in B : \A U \in B : U \subseteq T => U = T
  BY <1>0, SmallestSubset
<1> USE DEF B
<1>2. T \in SUBSET S /\ Bad(T) /\ IsFiniteSet(T)
  BY FS_Subset
<1>3. PICK y \in T : Sum(f, T) # f[y] + Sum(f, T \ {y})
  BY <1>2
<1>4. \A s \in SUBSET T : s # T => \A z \in s : Sum(f, s) = f[z] + Sum(f, s \ {z})
  BY <1>1, <1>2
<1> HIDE DEF B, Bad
<1> DEFINE z == Some(T)
<1>5. z \in T /\ Sum(f, T) = f[z] + Sum(f, T \ {z})
  BY <1>2, <1>3, SomeIn, SumRecursion DEF Rest
<1>6. z # y
  BY <1>3, <1>5
<1> HIDE DEF z
<1>7. /\ T \ {z} \in SUBSET T /\ T \ {z} # T /\ y \in T \ {z}
      /\ T \ {y} \in SUBSET T /\ T \ {y} # T /\ z \in T \ {y}
  BY <1>3, <1>5, <1>6
<1>8. /\ Sum(f, T \ {z}) = f[y] + Sum(f, (T \ {z}) \ {y})
      /\ Sum(f, T \ {y}) = f[z] + Sum(f, (T \ {y}) \ {z})
  BY <1>4, <1>7
<1>9. (T \ {z}) \ {y} = (T \ {y}) \ {z}
  OBVIOUS
<1>10. f[y] \in Nat /\ f[z] \in Nat /\ Sum(f, (T \ {y}) \ {z}) \in Nat
  <2>1. IsFiniteSet((T \ {y}) \ {z}) /\ \A w \in (T \ {y}) \ {z} : f[w] \in Nat
    BY <1>2, FS_Subset
  <2> QED BY <1>2, <1>3, <1>5, <2>1, SumType
<1> QED BY <1>3, <1>5, <1>8, <1>9, <1>10

LEMMA SumAdd ==
    ASSUME NEW f, NEW S, IsFiniteSet(S), NEW x, x \notin S, \A y \in S \cup {x} : f[y] \in Nat
    PROVE  Sum(f, S \cup {x}) = f[x] + Sum(f, S)
<1>1. IsFiniteSet(S \cup {x}) /\ x \in S \cup {x} /\ (S \cup {x}) \ {x} = S
  BY FS_AddElement
<1> QED BY <1>1, SumRemove

LEMMA SumMonotone ==
    ASSUME NEW f, NEW g, NEW S, IsFiniteSet(S),
           \A x \in S : f[x] \in Nat /\ g[x] \in Nat /\ f[x] <= g[x]
    PROVE  Sum(f, S) <= Sum(g, S)
<1> DEFINE B == {s \in SUBSET S : ~(Sum(f, s) <= Sum(g, s))}
<1> SUFFICES ASSUME B # {} PROVE FALSE
  OBVIOUS
<1>0. B \subseteq SUBSET S
  OBVIOUS
<1> HIDE DEF B
<1>1. PICK T \in B : \A U \in B : U \subseteq T => U = T
  BY <1>0, SmallestSubset
<1>2. T \subseteq S /\ IsFiniteSet(T)
  BY <1>0, <1>1, FS_Subset
<1>3. T # {}
  <2>1. Sum(f, {}) <= Sum(g, {})
    BY SumEmpty
  <2>2. ~(Sum(f, T) <= Sum(g, T))
    BY <1>1 DEF B
  <2> QED BY <2>1, <2>2
<1>4. PICK x \in T : TRUE
  BY <1>3
<1>5. T \ {x} \notin B /\ T \ {x} \in SUBSET S /\ IsFiniteSet(T \ {x})
  BY <1>1, <1>2, <1>4, FS_RemoveElement
<1>6. Sum(f, T \ {x}) <= Sum(g, T \ {x})
  BY <1>5 DEF B
<1>7. Sum(f, T) = f[x] + Sum(f, T \ {x}) /\ Sum(g, T) = g[x] + Sum(g, T \ {x})
  BY <1>2, <1>4, SumRemove
<1>8. Sum(f, T \ {x}) \in Nat /\ Sum(g, T \ {x}) \in Nat
  BY <1>2, <1>5, SumType
<1>9. f[x] \in Nat /\ g[x] \in Nat /\ f[x] <= g[x]
  BY <1>2, <1>4
<1>10. Sum(f, T) <= Sum(g, T)
  BY <1>6, <1>7, <1>8, <1>9
<1> QED BY <1>1, <1>10 DEF B

\* A sum of equal terms.
LEMMA SumConstant ==
    ASSUME NEW f, NEW S, IsFiniteSet(S), NEW c \in Nat, \A x \in S : f[x] = c
    PROVE  Sum(f, S) = Cardinality(S) * c
<1> DEFINE B == {s \in SUBSET S : Sum(f, s) # Cardinality(s) * c}
<1> SUFFICES ASSUME B # {} PROVE FALSE
  OBVIOUS
<1>0. B \subseteq SUBSET S
  OBVIOUS
<1> HIDE DEF B
<1>1. PICK T \in B : \A U \in B : U \subseteq T => U = T
  BY <1>0, SmallestSubset
<1>2. T \subseteq S /\ IsFiniteSet(T)
  BY <1>0, <1>1, FS_Subset
<1>3. T # {}
  <2>1. Cardinality({}) * c = 0
    BY FS_EmptySet
  <2> QED BY <1>1, <2>1, SumEmpty DEF B
<1>4. PICK x \in T : TRUE
  BY <1>3
<1>5. T \ {x} \notin B /\ T \ {x} \in SUBSET S /\ IsFiniteSet(T \ {x})
  BY <1>1, <1>2, <1>4, FS_RemoveElement
<1>6. Sum(f, T \ {x}) = Cardinality(T \ {x}) * c
  BY <1>5 DEF B
<1>7. Sum(f, T) = c + Sum(f, T \ {x})
  BY <1>2, <1>4, SumRemove
<1>8. Cardinality(T \ {x}) = Cardinality(T) - 1 /\ Cardinality(T) \in Nat
  BY <1>2, <1>4, FS_RemoveElement, FS_CardinalityType
<1>9. c + (Cardinality(T) - 1) * c = Cardinality(T) * c
  BY <1>8
<1> QED BY <1>1, <1>6, <1>7, <1>8, <1>9 DEF B

\* Terms that are zero do not count.
LEMMA SumSupport ==
    ASSUME NEW f, NEW S, IsFiniteSet(S), NEW R, R \subseteq S,
           \A x \in S : f[x] \in Nat, \A x \in S \ R : f[x] = 0
    PROVE  Sum(f, S) = Sum(f, R)
<1> DEFINE B == {s \in SUBSET S : R \subseteq s /\ Sum(f, s) # Sum(f, R)}
<1> SUFFICES ASSUME B # {} PROVE FALSE
  OBVIOUS
<1>0. B \subseteq SUBSET S
  OBVIOUS
<1> HIDE DEF B
<1>1. PICK T \in B : \A U \in B : U \subseteq T => U = T
  BY <1>0, SmallestSubset
<1>2. T \subseteq S /\ IsFiniteSet(T) /\ R \subseteq T /\ T # R
  BY <1>0, <1>1, FS_Subset DEF B
<1>3. PICK x \in T : x \notin R
  BY <1>2
<1>4. T \ {x} \notin B /\ T \ {x} \in SUBSET S /\ R \subseteq T \ {x}
  BY <1>1, <1>2, <1>3
<1>5. Sum(f, T \ {x}) = Sum(f, R)
  BY <1>4 DEF B
<1>6. Sum(f, T) = f[x] + Sum(f, T \ {x}) /\ f[x] = 0
  BY <1>2, <1>3, SumRemove
<1>7. Sum(f, T \ {x}) \in Nat
  <2>1. IsFiniteSet(T \ {x})
    BY <1>2, FS_RemoveElement
  <2> QED BY <1>2, <2>1, SumType
<1> QED BY <1>1, <1>5, <1>6, <1>7 DEF B
===============================================================================
