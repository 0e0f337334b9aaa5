-------------------------------- MODULE Totals --------------------------------
(***************************************************************************)
(* Sums of the values of a function over a finite set, and what they do, for  *)
(* the proofs of the other modules: the fold of FiniteSetsExt takes the        *)
(* elements in an order nobody knows, and these theorems say that it does not  *)
(* matter.  An argument by induction over sets takes a smallest set among       *)
(* those the claim fails for: the order of finite sets by inclusion is          *)
(* well-founded.                                                               *)
(***************************************************************************)
EXTENDS Integers, FiniteSetsExt, FiniteSetTheorems, WellFoundedInduction, TLAPS

\* The sum of f[x] over the elements x of S.
Total(f, S) == MapThenSumSet(LAMBDA x : f[x], S)

-----------------------------------------------------------------------------
\* The element of a set that the fold takes next.
Pick(s) == CHOOSE x \in s : TRUE

\* One turn of the fold: what it makes of the sums g of the smaller sets.
Turn(f, g, S) == [s \in SUBSET S |-> IF s = {} THEN 0 ELSE f[Pick(s)] + g[s \ {Pick(s)}]]
Fold(f, S)    == CHOOSE g : g = Turn(f, g, S)

\* A non-empty set of natural numbers has a least one.
LEMMA LeastNumber ==
  ASSUME NEW N \in SUBSET Nat, N # {}
  PROVE  \E n \in N : \A m \in N : n <= m
<1> DEFINE R == OpToRel(<, Nat)
<1>1. IsWellFoundedOn(R, Nat)
  BY NatLessThanWellFounded
<1>2. \A m, n \in Nat : m < n => <<m, n>> \in R
  BY DEF OpToRel
<1> HIDE DEF R
<1>3. PICK n \in N : \A m \in N : ~ (<<m, n>> \in R)
  BY <1>1, WFMin
<1>4. ASSUME NEW m \in N PROVE n <= m
  <2>1. m \in Nat /\ n \in Nat /\ ~ (m < n)
    BY <1>2, <1>3
  <2> QED
    BY <2>1
<1> QED
  BY <1>4

\* The element the fold takes first is one of the set.
LEMMA PickIn == \A s : s # {} => Pick(s) \in s
  BY DEF Pick

\* The sum as the fold of this module.
LEMMA Unfold ==
  ASSUME NEW f, NEW S
  PROVE  Total(f, S) = Fold(f, S)[S]
BY DEF Total, MapThenSumSet, MapThenFoldSet, Fold, Turn, Pick

\* A finite set less one of its elements is smaller by one.
LEMMA Smaller ==
  ASSUME NEW s, IsFiniteSet(s), NEW x \in s
  PROVE  /\ IsFiniteSet(s \ {x})
         /\ Cardinality(s) \in Nat \ {0}
         /\ Cardinality(s \ {x}) = Cardinality(s) - 1
<1>1. Cardinality(s) \in Nat /\ Cardinality(s) # 0
  BY FS_CardinalityType, FS_EmptySet
<1> QED
  BY <1>1, FS_RemoveElement

\* The fold is defined: it is the value of a function that is its own turn.
LEMMA FoldExists ==
  ASSUME NEW f, NEW S, IsFiniteSet(S)
  PROVE  Fold(f, S) = Turn(f, Fold(f, S), S)
<1> DEFINE Good(g, n) == \A s \in SUBSET S : Cardinality(s) <= n => g[s] = Turn(f, g, S)[s]
           Bad == {n \in Nat : ~ \E g : Good(g, n)}
<1>0. \A s \in SUBSET S : IsFiniteSet(s) /\ Cardinality(s) \in Nat
  BY FS_Subset, FS_CardinalityType
<1>1. Bad = {}
  <2> SUFFICES ASSUME Bad # {} PROVE FALSE
    OBVIOUS
  <2>1. PICK n \in Bad : \A m \in Bad : n <= m
    <3>1. Bad \in SUBSET Nat
      OBVIOUS
    <3> HIDE DEF Bad
    <3> QED
      BY <3>1, LeastNumber
  <2>2. n # 0
    <3> DEFINE zero == [s \in SUBSET S |-> 0]
    <3>1. ASSUME NEW s \in SUBSET S, Cardinality(s) <= 0
          PROVE  zero[s] = Turn(f, zero, S)[s]
      <4>1. s = {}
        BY <3>1, <1>0, FS_EmptySet
      <4> QED
        BY <4>1 DEF Turn
    <3>2. Good(zero, 0)
      BY <3>1
    <3> QED
      BY <2>1, <3>2
  <2>3. PICK g : Good(g, n - 1)
    BY <2>1, <2>2
  <2> DEFINE h == Turn(f, g, S)
  <2>4. ASSUME NEW s \in SUBSET S, Cardinality(s) <= n
        PROVE  h[s] = Turn(f, h, S)[s]
    <3>1. CASE s = {}
      BY <3>1 DEF Turn
    <3>2. CASE s # {}
      <4> DEFINE t == s \ {Pick(s)}
      <4>1. t \in SUBSET S /\ Cardinality(t) <= n - 1
        <5>1. IsFiniteSet(s) /\ Pick(s) \in s /\ n \in Nat
          BY <3>2, <2>1, <1>0, PickIn
        <5>2. Cardinality(s) \in Nat /\ Cardinality(t) = Cardinality(s) - 1
          BY <5>1, Smaller
        <5> QED
          BY <5>1, <5>2, <2>4
      <4>2. g[t] = h[t]
        BY <4>1, <2>3
      <4>3. h[s] = f[Pick(s)] + g[t] /\ Turn(f, h, S)[s] = f[Pick(s)] + h[t]
        BY <3>2 DEF Turn
      <4> QED
        BY <4>2, <4>3
    <3> QED
      BY <3>1, <3>2
  <2>5. Good(h, n)
    BY <2>4
  <2> QED
    BY <2>1, <2>5
<1>2. PICK g : Good(g, Cardinality(S))
  BY <1>0, <1>1
<1> DEFINE h == Turn(f, g, S)
<1>3. \A s \in SUBSET S : g[s] = h[s]
  BY <1>0, <1>2, FS_Subset
<1>4. h = Turn(f, h, S)
  <2>1. \A s \in SUBSET S : s # {} => s \ {Pick(s)} \in SUBSET S
    OBVIOUS
  <2> QED
    BY <1>3, <2>1 DEF Turn
<1>5. \E k : k = Turn(f, k, S)
  BY <1>4
<1> QED
  BY <1>5 DEF Fold

\* A non-empty set of subsets of a finite set has one that taking away an element of it
\* leaves none of them: induction over finite sets starts here.
LEMMA SmallestSet ==
  ASSUME NEW S, IsFiniteSet(S), NEW B \in SUBSET SUBSET S, B # {}
  PROVE  \E s \in B : \A x \in s : s \ {x} \notin B
<1>1. B \subseteq FiniteSubsetsOf(S)
  BY FS_Subset DEF FiniteSubsetsOf
<1>2. PICK s \in B : \A t \in B : ~ (<<t, s>> \in StrictSubsetOrdering(S))
  BY <1>1, FS_StrictSubsetOrderingWellFounded, WFMin
<1>3. \A x \in s : s \ {x} \in B => <<s \ {x}, s>> \in StrictSubsetOrdering(S)
  BY <1>1 DEF StrictSubsetOrdering, FiniteSubsetsOf
<1> QED
  BY <1>2, <1>3

\* The fold over a set does not depend on the larger set it is defined for.
LEMMA FoldOfSubset ==
  ASSUME NEW f, NEW S, IsFiniteSet(S), NEW T \in SUBSET S
  PROVE  Fold(f, T)[T] = Fold(f, S)[T]
<1> DEFINE Bad == {s \in SUBSET T : Fold(f, T)[s] # Fold(f, S)[s]}
<1>0. IsFiniteSet(T)
  BY FS_Subset
<1> SUFFICES ASSUME Bad # {} PROVE FALSE
  OBVIOUS
<1>1. PICK s \in Bad : \A x \in s : s \ {x} \notin Bad
  BY <1>0, SmallestSet
<1>2. s \in SUBSET T /\ s \in SUBSET S
  OBVIOUS
<1>3. Fold(f, T)[s] = Turn(f, Fold(f, T), T)[s] /\ Fold(f, S)[s] = Turn(f, Fold(f, S), S)[s]
  BY <1>0, FoldExists
<1>4. CASE s = {}
  BY <1>2, <1>3, <1>4 DEF Turn
<1>5. CASE s # {}
  <2> DEFINE t == s \ {Pick(s)}
  <2>1. Fold(f, T)[t] = Fold(f, S)[t]
    BY <1>1, <1>5, PickIn
  <2>2. \A U, g : s \in SUBSET U => Turn(f, g, U)[s] = f[Pick(s)] + g[t]
    BY <1>5 DEF Turn
  <2> QED
    BY <1>2, <1>3, <2>1, <2>2
<1> QED
  BY <1>4, <1>5

\* The sum, one element after the other.
LEMMA TotalStep ==
  ASSUME NEW f, NEW S, IsFiniteSet(S)
  PROVE  Total(f, S) = IF S = {} THEN 0 ELSE f[Pick(S)] + Total(f, S \ {Pick(S)})
<1> DEFINE T == S \ {Pick(S)}
<1>1. Total(f, S) = Turn(f, Fold(f, S), S)[S]
  BY Unfold, FoldExists
<1>2. Total(f, S) = IF S = {} THEN 0 ELSE f[Pick(S)] + Fold(f, S)[T]
  BY <1>1 DEF Turn
<1>3. Total(f, T) = Fold(f, S)[T]
  BY Unfold, FoldOfSubset
<1> QED
  BY <1>2, <1>3

-----------------------------------------------------------------------------
(* What the models' proofs need of sums                                     *)

\* The sum over nothing is zero.
THEOREM TotalEmpty ==
  ASSUME NEW f
  PROVE  Total(f, {}) = 0
BY TotalStep, FS_EmptySet

\* Sums of naturals are naturals, sums of integers integers.
THEOREM TotalType ==
  ASSUME NEW f, NEW S, IsFiniteSet(S), NEW N \in {Nat, Int}, \A x \in S : f[x] \in N
  PROVE  Total(f, S) \in N
<1> DEFINE Bad == {s \in SUBSET S : Total(f, s) \notin N}
<1> SUFFICES ASSUME Bad # {} PROVE FALSE
  OBVIOUS
<1>1. PICK s \in Bad : \A x \in s : s \ {x} \notin Bad
  BY SmallestSet
<1>2. s # {}
  BY TotalEmpty
<1>3. Pick(s) \in s /\ IsFiniteSet(s)
  BY <1>2, FS_Subset, PickIn
<1>4. Total(f, s) = f[Pick(s)] + Total(f, s \ {Pick(s)})
  BY <1>2, <1>3, TotalStep
<1>5. f[Pick(s)] \in N /\ Total(f, s \ {Pick(s)}) \in N
  BY <1>1, <1>3
<1> QED
  BY <1>4, <1>5

\* Any element can be taken out of a sum first.
THEOREM TotalRemove ==
  ASSUME NEW f, NEW S, IsFiniteSet(S), \A x \in S : f[x] \in Int, NEW x \in S
  PROVE  Total(f, S) = f[x] + Total(f, S \ {x})
<1> DEFINE Bad == {s \in SUBSET S : \E y \in s : Total(f, s) # f[y] + Total(f, s \ {y})}
<1> SUFFICES ASSUME Bad # {} PROVE FALSE
  OBVIOUS
<1>1. PICK s \in Bad : \A y \in s : s \ {y} \notin Bad
  BY SmallestSet
<1>2. PICK y \in s : Total(f, s) # f[y] + Total(f, s \ {y})
  OBVIOUS
<1> DEFINE z == Pick(s)
<1>3. z \in s /\ IsFiniteSet(s) /\ Total(f, s) = f[z] + Total(f, s \ {z})
  BY <1>2, FS_Subset, PickIn, TotalStep
<1> HIDE DEF z
<1>4. y # z
  BY <1>2, <1>3
\* y is taken out of what is left without z, and z out of what is left without y.
<1>5. Total(f, s \ {z}) = f[y] + Total(f, (s \ {z}) \ {y})
  BY <1>1, <1>2, <1>3, <1>4
<1>6. Total(f, s \ {y}) = f[z] + Total(f, (s \ {y}) \ {z})
  BY <1>1, <1>2, <1>3, <1>4
<1> DEFINE rest == Total(f, (s \ {y}) \ {z})
<1>7. (s \ {z}) \ {y} = (s \ {y}) \ {z}
  OBVIOUS
<1>8. rest \in Int /\ f[y] \in Int /\ f[z] \in Int
  <2>1. IsFiniteSet((s \ {y}) \ {z})
    BY <1>3, FS_Subset
  <2> QED
    BY <1>2, <1>3, <2>1, TotalType
<1>9. /\ Total(f, s) = f[z] + (f[y] + rest)
      /\ Total(f, s \ {y}) = f[z] + rest
  BY <1>3, <1>5, <1>6, <1>7
<1> HIDE DEF rest
<1>10. f[z] + (f[y] + rest) = f[y] + (f[z] + rest)
  BY <1>8
<1> QED
  BY <1>2, <1>9, <1>10

\* Functions that agree on a set have the same sum over it.
THEOREM TotalSame ==
  ASSUME NEW f, NEW g, NEW S, IsFiniteSet(S), \A x \in S : f[x] = g[x]
  PROVE  Total(f, S) = Total(g, S)
<1> DEFINE Bad == {s \in SUBSET S : Total(f, s) # Total(g, s)}
<1> SUFFICES ASSUME Bad # {} PROVE FALSE
  OBVIOUS
<1>1. PICK s \in Bad : \A x \in s : s \ {x} \notin Bad
  BY SmallestSet
<1>2. s # {}
  BY TotalEmpty
<1>3. Pick(s) \in s /\ IsFiniteSet(s)
  BY <1>2, FS_Subset, PickIn
<1>4. /\ Total(f, s) = f[Pick(s)] + Total(f, s \ {Pick(s)})
      /\ Total(g, s) = g[Pick(s)] + Total(g, s \ {Pick(s)})
  BY <1>2, <1>3, TotalStep
<1>5. f[Pick(s)] = g[Pick(s)] /\ Total(f, s \ {Pick(s)}) = Total(g, s \ {Pick(s)})
  BY <1>1, <1>3
<1> QED
  BY <1>4, <1>5

\* One value changes, and the sum with it.
THEOREM TotalChange ==
  ASSUME NEW f, NEW g, NEW S, IsFiniteSet(S), NEW x \in S,
         \A y \in S : f[y] \in Int /\ g[y] \in Int,
         \A y \in S \ {x} : g[y] = f[y]
  PROVE  Total(g, S) = Total(f, S) - f[x] + g[x]
<1> DEFINE T == S \ {x}
<1>1. IsFiniteSet(T)
  BY FS_Subset
<1>2. Total(f, S) = f[x] + Total(f, T) /\ Total(g, S) = g[x] + Total(g, T)
  BY TotalRemove
<1>3. Total(f, T) = Total(g, T) /\ Total(f, T) \in Int
  BY <1>1, TotalSame, TotalType
<1> QED
  BY <1>2, <1>3

\* A sum of nothing but zeros is zero.
THEOREM TotalZero ==
  ASSUME NEW f, NEW S, IsFiniteSet(S), \A x \in S : f[x] = 0
  PROVE  Total(f, S) = 0
<1> DEFINE Bad == {s \in SUBSET S : Total(f, s) # 0}
<1> SUFFICES ASSUME Bad # {} PROVE FALSE
  OBVIOUS
<1>1. PICK s \in Bad : \A x \in s : s \ {x} \notin Bad
  BY SmallestSet
<1>2. s # {}
  BY TotalEmpty
<1>3. Pick(s) \in s /\ IsFiniteSet(s)
  BY <1>2, FS_Subset, PickIn
<1>4. Total(f, s) = f[Pick(s)] + Total(f, s \ {Pick(s)})
  BY <1>2, <1>3, TotalStep
<1>5. f[Pick(s)] = 0 /\ Total(f, s \ {Pick(s)}) = 0
  BY <1>1, <1>3
<1> QED
  BY <1>4, <1>5

\* No element of a sum of naturals is more than the sum.
THEOREM TotalAtLeast ==
  ASSUME NEW f, NEW S, IsFiniteSet(S), \A x \in S : f[x] \in Nat, NEW x \in S
  PROVE  f[x] <= Total(f, S)
<1>1. Total(f, S) = f[x] + Total(f, S \ {x})
  BY TotalRemove
<1>2. IsFiniteSet(S \ {x}) /\ Total(f, S \ {x}) \in Nat
  BY FS_Subset, TotalType
<1> QED
  BY <1>1, <1>2

\* Sets that have nothing in common are counted together.
LEMMA CountsAdd ==
  ASSUME NEW S, IsFiniteSet(S), NEW T, IsFiniteSet(T), S \cap T = {}
  PROVE  /\ IsFiniteSet(S \cup T)
         /\ Cardinality(S) \in Nat /\ Cardinality(T) \in Nat
         /\ Cardinality(S \cup T) = Cardinality(S) + Cardinality(T)
<1>1. /\ Cardinality(S) \in Nat /\ Cardinality(T) \in Nat /\ IsFiniteSet(S \cup T)
      /\ Cardinality(S \cup T) = Cardinality(S) + Cardinality(T) - Cardinality({})
  BY FS_CardinalityType, FS_Union
<1> QED
  BY <1>1, FS_EmptySet

\* What the elements of a set have, is no more than they are.
LEMMA ImageIsSmaller ==
  ASSUME NEW S, IsFiniteSet(S), NEW g
  PROVE  /\ IsFiniteSet({g[x] : x \in S})
         /\ Cardinality({g[x] : x \in S}) \in Nat
         /\ Cardinality({g[x] : x \in S}) <= Cardinality(S)
<1> DEFINE T == {g[x] : x \in S}
           h == [x \in S |-> g[x]]
<1>1. h \in Surjection(S, T)
  BY DEF Surjection
<1> HIDE DEF h, T
<1>2. IsFiniteSet(T) /\ Cardinality(T) <= Cardinality(S)
  BY <1>1, FS_Surjection
<1>3. Cardinality(T) \in Nat
  BY <1>2, FS_CardinalityType
<1> QED
  BY <1>2, <1>3 DEF T

\* The sum of how many there are of each kind is how many there are of all those kinds.
THEOREM TotalOfCounts ==
  ASSUME NEW S, IsFiniteSet(S), NEW K, IsFiniteSet(K), NEW k, NEW f,
         \A d \in K : f[d] = Cardinality({s \in S : k[s] = d})
  PROVE  Total(f, K) = Cardinality({s \in S : k[s] \in K})
<1> DEFINE Of(E) == {s \in S : k[s] \in E}
           Bad == {E \in SUBSET K : Total(f, E) # Cardinality(Of(E))}
<1> SUFFICES ASSUME Bad # {} PROVE FALSE
  OBVIOUS
<1>1. PICK E \in Bad : \A x \in E : E \ {x} \notin Bad
  BY SmallestSet
<1>2. E # {}
  <2>1. Of({}) = {}
    OBVIOUS
  <2> QED
    BY <2>1, TotalEmpty, FS_EmptySet
<1> DEFINE x == Pick(E)
           Rest == E \ {x}
           This == {s \in S : k[s] = x}
<1>3. x \in E /\ x \in K /\ IsFiniteSet(E)
  BY <1>2, FS_Subset, PickIn
<1>4. Total(f, E) = f[x] + Total(f, Rest)
  BY <1>2, <1>3, TotalStep
<1>5. f[x] = Cardinality(This)
  BY <1>3
<1>6. Total(f, Rest) = Cardinality(Of(Rest))
  BY <1>1, <1>3
<1>7. Of(E) = This \cup Of(Rest) /\ This \cap Of(Rest) = {}
  BY <1>3
<1>8. IsFiniteSet(This) /\ IsFiniteSet(Of(Rest))
  BY FS_Subset
<1>9. Cardinality(Of(E)) = Cardinality(This) + Cardinality(Of(Rest))
  <2> HIDE DEF Of, This, Rest
  <2> QED
    BY <1>7, <1>8, CountsAdd
<1> QED
  BY <1>1, <1>4, <1>5, <1>6, <1>9
=============================================================================
