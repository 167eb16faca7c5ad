------------------------------ MODULE SetSums ------------------------------
(***************************************************************************)
(* The sum of a function over a finite set, and what the proofs of the     *)
(* ledgers need of it.  MapThenSumSet adds the values up in the order in   *)
(* which CHOOSE picks the elements; the lemmas show that a solution of its *)
(* recursion exists, that it is the only one, and that any element may be  *)
(* taken out first.                                                        *)
(*                                                                         *)
(* Induction is by the least counterexample: a set of natural numbers, or  *)
(* of subsets of a finite set, that is not empty has a least element.      *)
(***************************************************************************)
EXTENDS Integers, FiniteSetsExt, FiniteSetTheorems, TLAPS

Sum(f, S) == MapThenSumSet(LAMBDA x : f[x], S)

\* The element the recursion takes out of s.
Taken(s) == CHOOSE x \in s : TRUE

\* it adds up f over every set in D, by the recursion of MapThenSumSet.
Adds(it, f, D) ==
    it = [s \in D |-> IF s = {} THEN 0 ELSE f[Taken(s)] + it[s \ {Taken(s)}]]

\* The subsets of S with at most n elements.
UpTo(S, n) == {s \in SUBSET S : Cardinality(s) <= n}

SameOn(T, f, g) == \A x \in T : f[x] = g[x]

LEMMA TakenIn == ASSUME NEW s, s # {} PROVE Taken(s) \in s
  BY DEF Taken

LEMMA SumUnfolds ==
    ASSUME NEW f, NEW S PROVE Sum(f, S) = (CHOOSE it : Adds(it, f, SUBSET S))[S]
  BY DEF Sum, MapThenSumSet, MapThenFoldSet, Adds, Taken

LEMMA LeastNumber ==
    ASSUME NEW Bad \in SUBSET Nat, Bad # {}
    PROVE  \E n \in Bad : \A m \in Bad : ~(m < n)
<1>1. PICK n \in Bad : \A m \in Bad : ~(<<m, n>> \in OpToRel(<, Nat))
  BY NatLessThanWellFounded, WFMin
<1>2. \A m \in Bad : m < n => <<m, n>> \in OpToRel(<, Nat)
  BY DEF OpToRel
<1>. QED  BY <1>1, <1>2

LEMMA LeastSubset ==
    ASSUME NEW S, IsFiniteSet(S), NEW Bad \in SUBSET (SUBSET S), Bad # {}
    PROVE  \E T \in Bad : \A U \in Bad : ~(U \subseteq T /\ U # T)
<1>1. FiniteSubsetsOf(S) = SUBSET S
  BY FS_FiniteSubsetsOfFinite
<1>2. IsWellFoundedOn(StrictSubsetOrdering(S), SUBSET S)
  BY <1>1, FS_StrictSubsetOrderingWellFounded
<1>3. PICK T \in Bad : \A U \in Bad : ~(<<U, T>> \in StrictSubsetOrdering(S))
  BY <1>2, WFMin
<1>4. ASSUME NEW U \in Bad, U \subseteq T, U # T PROVE FALSE
  <2>1. <<U, T>> \in StrictSubsetOrdering(S)
    BY <1>4 DEF StrictSubsetOrdering
  <2>. QED  BY <1>3, <2>1
<1>5. \A U \in Bad : ~(U \subseteq T /\ U # T)
  BY <1>4
<1>. QED  BY <1>5

\* There is such a function for the subsets of up to n elements.
LEMMA AddsUpTo ==
    ASSUME NEW f, NEW S, IsFiniteSet(S), NEW k \in Nat
    PROVE  \E it : Adds(it, f, UpTo(S, k))
<1>. DEFINE D(n) == {s \in SUBSET S : Cardinality(s) <= n}
            Bad == {n \in Nat : ~ \E it : Adds(it, f, D(n))}
<1>0. ASSUME NEW s \in SUBSET S
      PROVE  /\ Cardinality(s) \in Nat /\ (Cardinality(s) = 0 <=> s = {})
             /\ s # {} => Cardinality(s \ {Taken(s)}) = Cardinality(s) - 1
  <2>1. IsFiniteSet(s)
    BY FS_Subset
  <2>2. s # {} => Taken(s) \in s
    BY TakenIn
  <2>. QED  BY <2>1, <2>2, FS_CardinalityType, FS_EmptySet, FS_RemoveElement
<1>1. SUFFICES ASSUME Bad # {} PROVE FALSE
  BY DEF UpTo
<1>2. PICK n \in Bad : \A m \in Bad : ~(m < n)
  <2>. HIDE DEF D
  <2>1. Bad \in SUBSET Nat
    OBVIOUS
  <2>. HIDE DEF Bad
  <2>. QED  BY <1>1, <2>1, LeastNumber
<1>3. CASE n = 0
  <2>. DEFINE it == [s \in D(0) |-> 0]
  <2>1. ASSUME NEW s \in D(0) PROVE s = {}
    <3>1. s \in SUBSET S /\ Cardinality(s) <= 0
      OBVIOUS
    <3>. HIDE DEF D
    <3>2. Cardinality(s) \in Nat /\ (Cardinality(s) = 0 <=> s = {})
      BY <1>0, <3>1
    <3>. QED  BY <3>1, <3>2
  <2>2. it = [s \in D(0) |-> IF s = {} THEN 0 ELSE f[Taken(s)] + it[s \ {Taken(s)}]]
    BY <2>1
  <2>3. Adds(it, f, D(0))
    BY <2>2 DEF Adds
  <2>. QED  BY <1>3, <2>3
<1>4. CASE n # 0
  <2>1. n - 1 \in Nat /\ n - 1 < n
    BY <1>4
  <2>2. PICK less : Adds(less, f, D(n - 1))
    BY <1>2, <2>1
  <2>. DEFINE it == [s \in D(n) |-> IF s = {} THEN 0 ELSE f[Taken(s)] + less[s \ {Taken(s)}]]
  <2>3. \A s \in D(n - 1) : s \in D(n) /\ it[s] = less[s]
    <3>1. ASSUME NEW s \in D(n - 1) PROVE s \in D(n)
      <4>1. s \in SUBSET S /\ Cardinality(s) <= n - 1
        OBVIOUS
      <4>2. Cardinality(s) \in Nat
        BY <1>0, <4>1
      <4>3. Cardinality(s) <= n
        BY <2>1, <4>1, <4>2
      <4>. QED  BY <4>1, <4>3
    <3>2. \A s \in D(n - 1) : less[s] = IF s = {} THEN 0 ELSE f[Taken(s)] + less[s \ {Taken(s)}]
      <4>. HIDE DEF D
      <4>. QED  BY <2>2 DEF Adds
    <3>. QED  BY <3>1, <3>2
  <2>4. \A s \in D(n) : s # {} => s \ {Taken(s)} \in D(n - 1)
    BY <1>0, <2>1
  <2>5. it = [s \in D(n) |-> IF s = {} THEN 0 ELSE f[Taken(s)] + it[s \ {Taken(s)}]]
    BY <2>3, <2>4
  <2>6. Adds(it, f, D(n))
    BY <2>5 DEF Adds
  <2>. QED  BY <2>6
<1>. QED  BY <1>3, <1>4

LEMMA AddsExists ==
    ASSUME NEW f, NEW S, IsFiniteSet(S)
    PROVE  \E it : Adds(it, f, SUBSET S)
<1>1. Cardinality(S) \in Nat
  BY FS_CardinalityType
<1>2. UpTo(S, Cardinality(S)) = SUBSET S
  BY FS_Subset DEF UpTo
<1>3. \E it : Adds(it, f, UpTo(S, Cardinality(S)))
  BY <1>1, AddsUpTo
<1>. QED  BY <1>2, <1>3

\* Two such functions have the same values where f and g have.
LEMMA AddsAgree ==
    ASSUME NEW f, NEW g, NEW S, NEW T \in SUBSET S, NEW a, NEW b, IsFiniteSet(S),
           SameOn(T, f, g), Adds(a, f, SUBSET S), Adds(b, g, SUBSET T)
    PROVE  a[T] = b[T]
<1>. DEFINE Bad == {s \in SUBSET T : a[s] # b[s]}
<1>1. SUFFICES ASSUME Bad # {} PROVE FALSE
  OBVIOUS
<1>2. IsFiniteSet(T)
  BY FS_Subset
<1>3. PICK s \in Bad : \A r \in Bad : ~(r \subseteq s /\ r # s)
  <2>1. Bad \in SUBSET (SUBSET T)
    OBVIOUS
  <2>. HIDE DEF Bad
  <2>. QED  BY <1>1, <1>2, <2>1, LeastSubset
<1>4. s \in SUBSET S /\ s \in SUBSET T
  OBVIOUS
<1>5. /\ a[s] = IF s = {} THEN 0 ELSE f[Taken(s)] + a[s \ {Taken(s)}]
      /\ b[s] = IF s = {} THEN 0 ELSE g[Taken(s)] + b[s \ {Taken(s)}]
  BY <1>4 DEF Adds
<1>6. CASE s # {}
  <2>1. Taken(s) \in s /\ Taken(s) \in T
    BY <1>4, <1>6, TakenIn
  <2>2. s \ {Taken(s)} \notin Bad
    BY <1>3, <2>1
  <2>3. a[s \ {Taken(s)}] = b[s \ {Taken(s)}]
    BY <1>4, <2>2
  <2>. QED  BY <1>3, <1>5, <1>6, <2>1, <2>3 DEF SameOn
<1>. QED  BY <1>3, <1>5, <1>6

\* Any solution of the recursion is the sum.
LEMMA SumIs ==
    ASSUME NEW f, NEW S, IsFiniteSet(S), NEW it, Adds(it, f, SUBSET S)
    PROVE  Sum(f, S) = it[S]
<1>. DEFINE chosen == CHOOSE a : Adds(a, f, SUBSET S)
<1>1. Adds(chosen, f, SUBSET S)
  OBVIOUS
<1>2. Sum(f, S) = chosen[S]
  BY SumUnfolds
<1>3. S \in SUBSET S /\ SameOn(S, f, f)
  BY DEF SameOn
<1>. HIDE DEF chosen
<1>. QED  BY <1>1, <1>2, <1>3, AddsAgree

LEMMA SumAgrees ==
    ASSUME NEW f, NEW g, NEW S, IsFiniteSet(S), \A x \in S : f[x] = g[x]
    PROVE  Sum(f, S) = Sum(g, S)
<1>1. PICK a : Adds(a, f, SUBSET S)
  BY AddsExists
<1>2. PICK b : Adds(b, g, SUBSET S)
  BY AddsExists
<1>3. S \in SUBSET S /\ SameOn(S, f, g)
  BY DEF SameOn
<1>4. a[S] = b[S]
  BY <1>1, <1>2, <1>3, AddsAgree
<1>. QED  BY <1>1, <1>2, <1>4, SumIs

LEMMA SumEmpty == ASSUME NEW f PROVE Sum(f, {}) = 0
<1>1. IsFiniteSet({})
  BY FS_EmptySet
<1>2. PICK a : Adds(a, f, SUBSET {})
  BY <1>1, AddsExists
<1>3. a[{}] = 0
  BY <1>2 DEF Adds
<1>. QED  BY <1>1, <1>2, <1>3, SumIs

LEMMA SumTaken ==
    ASSUME NEW f, NEW S, IsFiniteSet(S), S # {}
    PROVE  Sum(f, S) = f[Taken(S)] + Sum(f, S \ {Taken(S)})
<1>. DEFINE T == S \ {Taken(S)}
<1>1. PICK a : Adds(a, f, SUBSET S)
  BY AddsExists
<1>2. IsFiniteSet(T) /\ T \in SUBSET S /\ T \in SUBSET T
  BY FS_Subset
<1>3. PICK b : Adds(b, f, SUBSET T)
  BY <1>2, AddsExists
<1>4. a[T] = b[T]
  <2>1. SameOn(T, f, f)
    BY DEF SameOn
  <2>. HIDE DEF T
  <2>. QED  BY <1>1, <1>2, <1>3, <2>1, AddsAgree
<1>5. a[S] = f[Taken(S)] + a[T]
  BY <1>1 DEF Adds
<1>6. Sum(f, S) = a[S]
  BY <1>1, SumIs
<1>7. Sum(f, T) = b[T]
  BY <1>2, <1>3, SumIs
<1>. QED  BY <1>4, <1>5, <1>6, <1>7

LEMMA SumType ==
    ASSUME NEW f, NEW S, IsFiniteSet(S), \A x \in S : f[x] \in Int
    PROVE  Sum(f, S) \in Int
<1>. DEFINE Bad == {T \in SUBSET S : Sum(f, T) \notin Int}
<1>1. SUFFICES ASSUME Bad # {} PROVE FALSE
  OBVIOUS
<1>2. PICK T \in Bad : \A U \in Bad : ~(U \subseteq T /\ U # T)
  <2>1. Bad \in SUBSET (SUBSET S)
    OBVIOUS
  <2>. HIDE DEF Bad
  <2>. QED  BY <1>1, <2>1, LeastSubset
<1>3. IsFiniteSet(T) /\ T # {}
  <2>1. IsFiniteSet(T)
    BY FS_Subset
  <2>2. Sum(f, T) \notin Int
    OBVIOUS
  <2>3. Sum(f, {}) \in Int
    BY SumEmpty
  <2>. QED  BY <2>1, <2>2, <2>3
<1>4. Taken(T) \in T
  BY <1>3, TakenIn
<1>5. Sum(f, T \ {Taken(T)}) \in Int
  <2>1. T \ {Taken(T)} \notin Bad
    BY <1>2, <1>4
  <2>. QED  BY <2>1
<1>6. Sum(f, T) = f[Taken(T)] + Sum(f, T \ {Taken(T)})
  BY <1>3, SumTaken
<1>. QED  BY <1>4, <1>5, <1>6

\* Any element may be taken out.
LEMMA SumRemove ==
    ASSUME NEW f, NEW S, IsFiniteSet(S), \A y \in S : f[y] \in Int, NEW x \in S
    PROVE  Sum(f, S) = f[x] + Sum(f, S \ {x})
<1>. DEFINE Bad == {T \in SUBSET S : \E y \in T : Sum(f, T) # f[y] + Sum(f, T \ {y})}
<1>1. SUFFICES ASSUME Bad # {} PROVE FALSE
  OBVIOUS
<1>2. PICK T \in Bad : \A U \in Bad : ~(U \subseteq T /\ U # T)
  <2>1. Bad \in SUBSET (SUBSET S)
    OBVIOUS
  <2>. HIDE DEF Bad
  <2>. QED  BY <1>1, <2>1, LeastSubset
<1>3. PICK y \in T : Sum(f, T) # f[y] + Sum(f, T \ {y})
  OBVIOUS
<1>4. PICK z \in T : z = Taken(T)
  BY <1>3, TakenIn
<1>5. IsFiniteSet(T) /\ T \in SUBSET S
  BY FS_Subset
<1>6. Sum(f, T) = f[z] + Sum(f, T \ {z})
  BY <1>3, <1>4, <1>5, SumTaken
<1>7. y # z
  BY <1>3, <1>6
<1>. DEFINE R == (T \ {z}) \ {y}
<1>8. Sum(f, T \ {z}) = f[y] + Sum(f, R)
  <2>1. T \ {z} \notin Bad /\ y \in T \ {z}
    BY <1>2, <1>7
  <2>. QED  BY <1>5, <2>1
<1>9. Sum(f, T \ {y}) = f[z] + Sum(f, R)
  <2>1. T \ {y} \notin Bad /\ z \in T \ {y}
    BY <1>2, <1>7
  <2>2. (T \ {y}) \ {z} = R
    OBVIOUS
  <2>. QED  BY <1>5, <2>1, <2>2
<1>10. f[y] \in Int /\ f[z] \in Int /\ Sum(f, R) \in Int
  <2>1. IsFiniteSet(R) /\ \A v \in R : f[v] \in Int
    BY <1>5, FS_Subset
  <2>. HIDE DEF R
  <2>. QED  BY <1>5, <2>1, SumType
<1>. HIDE DEF R
<1>. QED  BY <1>3, <1>6, <1>8, <1>9, <1>10

\* One value changes.
LEMMA SumChange ==
    ASSUME NEW f, NEW g, NEW S, IsFiniteSet(S), NEW x \in S,
           \A y \in S : f[y] \in Int /\ g[y] \in Int,
           \A y \in S \ {x} : g[y] = f[y]
    PROVE  Sum(g, S) = Sum(f, S) - f[x] + g[x]
<1>. DEFINE R == S \ {x}
<1>1. IsFiniteSet(R)
  BY FS_Subset
<1>2. Sum(f, R) \in Int
  BY <1>1, SumType
<1>3. Sum(g, R) = Sum(f, R)
  BY <1>1, SumAgrees
<1>4. Sum(f, S) = f[x] + Sum(f, R) /\ Sum(g, S) = g[x] + Sum(g, R)
  BY SumRemove
<1>. HIDE DEF R
<1>. QED  BY <1>2, <1>3, <1>4

\* Elements whose value is zero do not count.
LEMMA SumOfNonzero ==
    ASSUME NEW f, NEW S, IsFiniteSet(S), NEW T \in SUBSET S,
           \A y \in S : f[y] \in Int, \A y \in S \ T : f[y] = 0
    PROVE  Sum(f, S) = Sum(f, T)
<1>. DEFINE Bad == {U \in SUBSET S : T \subseteq U /\ Sum(f, U) # Sum(f, T)}
<1>1. SUFFICES ASSUME Bad # {} PROVE FALSE
  OBVIOUS
<1>2. PICK U \in Bad : \A V \in Bad : ~(V \subseteq U /\ V # U)
  <2>1. Bad \in SUBSET (SUBSET S)
    OBVIOUS
  <2>. HIDE DEF Bad
  <2>. QED  BY <1>1, <2>1, LeastSubset
<1>3. PICK y \in U : y \notin T
  OBVIOUS
<1>4. IsFiniteSet(U) /\ IsFiniteSet(U \ {y}) /\ U \in SUBSET S
  BY FS_Subset
<1>5. Sum(f, U) = f[y] + Sum(f, U \ {y})
  BY <1>4, SumRemove
<1>6. Sum(f, U \ {y}) \in Int
  BY <1>4, SumType
<1>7. Sum(f, U \ {y}) = Sum(f, T)
  <2>1. U \ {y} \notin Bad
    BY <1>2
  <2>. QED  BY <1>3, <1>4, <2>1
<1>8. f[y] = 0
  BY <1>3, <1>4
<1>. QED  BY <1>2, <1>5, <1>6, <1>7, <1>8

\* A sum of natural numbers is at least each of them.
LEMMA SumOfNaturals ==
    ASSUME NEW f, NEW S, IsFiniteSet(S), \A x \in S : f[x] \in Nat
    PROVE  Sum(f, S) \in Nat /\ \A x \in S : f[x] <= Sum(f, S)
<1>. DEFINE Bad == {T \in SUBSET S : Sum(f, T) \notin Nat}
<1>1. ASSUME Bad # {} PROVE FALSE
  <2>1. PICK T \in Bad : \A U \in Bad : ~(U \subseteq T /\ U # T)
    <3>1. Bad \in SUBSET (SUBSET S)
      OBVIOUS
    <3>. HIDE DEF Bad
    <3>. QED  BY <1>1, <3>1, LeastSubset
  <2>2. IsFiniteSet(T) /\ T # {}
    <3>1. IsFiniteSet(T)
      BY FS_Subset
    <3>2. Sum(f, T) \notin Nat
      OBVIOUS
    <3>3. Sum(f, {}) \in Nat
      BY SumEmpty
    <3>. QED  BY <3>1, <3>2, <3>3
  <2>3. Taken(T) \in T
    BY <2>2, TakenIn
  <2>4. Sum(f, T \ {Taken(T)}) \in Nat
    <3>1. T \ {Taken(T)} \notin Bad
      BY <2>1, <2>3
    <3>. QED  BY <3>1
  <2>5. Sum(f, T) = f[Taken(T)] + Sum(f, T \ {Taken(T)})
    BY <2>2, SumTaken
  <2>. QED  BY <2>3, <2>4, <2>5
<1>2. \A T \in SUBSET S : Sum(f, T) \in Nat
  BY <1>1
<1>3. ASSUME NEW x \in S PROVE f[x] <= Sum(f, S)
  <2>1. Sum(f, S) = f[x] + Sum(f, S \ {x})
    BY SumRemove
  <2>2. Sum(f, S \ {x}) \in Nat
    BY <1>2
  <2>. QED  BY <2>1, <2>2
<1>. QED  BY <1>2, <1>3
=============================================================================
