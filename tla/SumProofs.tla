------------------------------ MODULE SumProofs ------------------------------
(***************************************************************************)
(* Sums over finite sets: what the folds of the models come to.            *)
(*                                                                         *)
(* SumFunctionOnSet chooses a function that adds up every subset of a set  *)
(* by taking out one element after another.  That it is a sum is shown by  *)
(* minimal counterexample: of the subsets for which a claim is false, one  *)
(* has the claim true without any one of its elements.                     *)
(***************************************************************************)
EXTENDS Integers, Functions, FiniteSetTheorems, WellFoundedInduction, TLAPS

(***************************************************************************)
(* The least element of a set of numbers.                                  *)
(***************************************************************************)
LEMMA LeastNumber ==
  ASSUME NEW T \in SUBSET Nat, T # {}
  PROVE  \E n \in T : \A m \in T : n <= m
<1>1. \E n \in T : \A m \in T : ~(<<m, n>> \in OpToRel(<, Nat))
  BY NatLessThanWellFounded, WFMin
<1>2. PICK n \in T : \A m \in T : ~(<<m, n>> \in OpToRel(<, Nat))
  BY <1>1
<1>3. \A m \in T : ~(m < n)
  BY <1>2 DEF OpToRel
<1>4. \A m \in T : n <= m
  BY <1>3
<1>5. QED
  BY <1>4

(***************************************************************************)
(* Induction over a finite set: of the subsets that are wrong, one is      *)
(* right again without any one of its elements.                            *)
(***************************************************************************)
LEMMA MinimalSubset ==
  ASSUME NEW S, IsFiniteSet(S), NEW Wrong \in SUBSET SUBSET S, Wrong # {}
  PROVE  \E R \in Wrong : \A x \in R : R \ {x} \notin Wrong
<1> DEFINE Sizes == {Cardinality(R) : R \in Wrong}
<1>1. \A R \in SUBSET S : IsFiniteSet(R) /\ Cardinality(R) \in Nat
  BY FS_Subset, FS_CardinalityType
<1>2. Sizes \in SUBSET Nat /\ Sizes # {}
  BY <1>1
<1>3. PICK n \in Sizes : \A m \in Sizes : n <= m
  <2> HIDE DEF Sizes
  <2>1. QED
    BY <1>2, LeastNumber
<1>4. PICK R \in Wrong : n = Cardinality(R)
  BY <1>3
<1>5. ASSUME NEW x \in R, R \ {x} \in Wrong PROVE FALSE
  <2>1. Cardinality(R \ {x}) = n - 1 /\ n \in Nat
    BY <1>1, <1>4, FS_RemoveElement
  <2>2. n <= Cardinality(R \ {x})
    BY <1>3, <1>5
  <2>3. QED
    BY <2>1, <2>2
<1>6. QED
  BY <1>4, <1>5

\* The element a fold takes first, its step, and the functions that take it.
Pick1(s) == CHOOSE x \in s : TRUE

SumStep(f, g, s) == IF s = {} THEN 0 ELSE f[Pick1(s)] + g[s \ {Pick1(s)}]

Sums(f, g, S) == g = [s \in SUBSET S |-> SumStep(f, g, s)]

(***************************************************************************)
(* A sum is the function the fold defines, applied to the whole set.       *)
(***************************************************************************)
LEMMA SumUnfolds ==
  ASSUME NEW f, NEW S
  PROVE  SumFunctionOnSet(f, S) = (CHOOSE g : Sums(f, g, S))[S]
BY DEF SumFunctionOnSet, FoldFunctionOnSet, MapThenFoldSet, Sums, SumStep, Pick1

\* The element a fold takes is one of the set.
LEMMA PickIn == ASSUME NEW s, s # {} PROVE Pick1(s) \in s
BY DEF Pick1

\* The functions that add up the sets of at most n elements.
SumsUpTo(f, g, S, n) ==
  /\ DOMAIN g = SUBSET S
  /\ g = [s \in SUBSET S |-> g[s]]
  /\ \A s \in SUBSET S : Cardinality(s) <= n => g[s] = SumStep(f, g, s)

(***************************************************************************)
(* One that adds up the sets of n elements makes one for those of n + 1.   *)
(***************************************************************************)
LEMMA SumGrows ==
  ASSUME NEW f, NEW S, IsFiniteSet(S), NEW n \in Nat, NEW g, SumsUpTo(f, g, S, n)
  PROVE  \E h : SumsUpTo(f, h, S, n + 1)
<1> DEFINE h == [s \in SUBSET S |-> SumStep(f, g, s)]
<1>1. ASSUME NEW s \in SUBSET S, Cardinality(s) <= n + 1
      PROVE  h[s] = SumStep(f, h, s)
  <2>1. CASE s = {}
    BY <2>1 DEF SumStep
  <2>2. CASE s # {}
    <3>1. Pick1(s) \in s
      BY <2>2, PickIn
    <3> DEFINE r == s \ {Pick1(s)}
    <3>2. r \in SUBSET S /\ IsFiniteSet(s)
      BY FS_Subset
    <3>3. Cardinality(r) = Cardinality(s) - 1 /\ Cardinality(s) \in Nat
      BY <3>1, <3>2, FS_RemoveElement, FS_CardinalityType
    <3>4. Cardinality(r) <= n
      BY <3>3, <1>1
    <3>5. g[r] = SumStep(f, g, r)
      BY <3>2, <3>4 DEF SumsUpTo
    <3>6. h[r] = g[r]
      BY <3>2, <3>5
    <3>7. h[s] = f[Pick1(s)] + g[r]
      BY <2>2 DEF SumStep
    <3>8. QED
      BY <2>2, <3>6, <3>7 DEF SumStep
  <2>3. QED
    BY <2>1, <2>2
<1>2. SumsUpTo(f, h, S, n + 1)
  BY <1>1 DEF SumsUpTo
<1>3. QED
  BY <1>2

\* The empty set adds up to 0.
LEMMA SumStarts ==
  ASSUME NEW f, NEW S, IsFiniteSet(S)
  PROVE  \E h : SumsUpTo(f, h, S, 0)
<1> DEFINE h == [s \in SUBSET S |-> 0]
<1>1. ASSUME NEW s \in SUBSET S, Cardinality(s) <= 0 PROVE s = {}
  <2>1. IsFiniteSet(s)
    BY FS_Subset
  <2>2. Cardinality(s) = 0
    BY <2>1, <1>1, FS_CardinalityType
  <2>3. QED
    BY <2>1, <2>2, FS_EmptySet
<1>2. SumsUpTo(f, h, S, 0)
  BY <1>1 DEF SumsUpTo, SumStep
<1>3. QED
  BY <1>2

(***************************************************************************)
(* So the function exists: by least counterexample in the number of        *)
(* elements.                                                               *)
(***************************************************************************)
LEMMA SumExists ==
  ASSUME NEW f, NEW S, IsFiniteSet(S)
  PROVE  \E g : Sums(f, g, S)
<1> DEFINE Bad == {n \in Nat : ~ \E g : SumsUpTo(f, g, S, n)}
<1>1. Bad = {}
  <2> SUFFICES ASSUME Bad # {} PROVE FALSE
    OBVIOUS
  <2>1. PICK n \in Bad : \A m \in Bad : n <= m
    <3> HIDE DEF Bad
    <3>1. Bad \in SUBSET Nat
      BY DEF Bad
    <3>2. QED
      BY <3>1, LeastNumber
  <2>2. n # 0
    BY SumStarts
  <2>3. n - 1 \in Nat /\ n - 1 \notin Bad
    BY <2>1, <2>2
  <2>4. PICK g : SumsUpTo(f, g, S, n - 1)
    BY <2>3
  <2>5. PICK h : SumsUpTo(f, h, S, (n - 1) + 1)
    <3> HIDE DEF Bad
    <3>1. QED
      BY <2>3, <2>4, SumGrows
  <2>6. (n - 1) + 1 = n
    BY <2>1
  <2>7. QED
    BY <2>5, <2>6
<1>2. Cardinality(S) \in Nat
  BY FS_CardinalityType
<1>3. PICK g : SumsUpTo(f, g, S, Cardinality(S))
  BY <1>1, <1>2
<1>4. \A s \in SUBSET S : Cardinality(s) <= Cardinality(S)
  BY FS_Subset
<1>5. Sums(f, g, S)
  BY <1>3, <1>4 DEF SumsUpTo, Sums
<1>6. QED
  BY <1>5

(***************************************************************************)
(* Two of them agree wherever both are defined.                            *)
(***************************************************************************)
LEMMA SumUnique ==
  ASSUME NEW f, NEW S, NEW T, IsFiniteSet(S), NEW g, NEW h, Sums(f, g, S), Sums(f, h, T),
         NEW s \in SUBSET S, s \in SUBSET T
  PROVE  g[s] = h[s]
<1> DEFINE Wrong == {r \in SUBSET S : r \subseteq T /\ g[r] # h[r]}
<1>1. SUFFICES ASSUME Wrong # {} PROVE FALSE
  OBVIOUS
<1>2. PICK r \in Wrong : \A x \in r : r \ {x} \notin Wrong
  <2>1. Wrong \in SUBSET SUBSET S
    OBVIOUS
  <2> HIDE DEF Wrong
  <2>2. QED
    BY <2>1, <1>1, MinimalSubset
<1>3. r # {}
  <2>1. g[{}] = 0 /\ h[{}] = 0
    BY DEF Sums, SumStep
  <2>2. QED
    BY <1>2, <2>1
<1>4. PICK x : x = Pick1(r)
  OBVIOUS
<1>5. x \in r
  BY <1>3, <1>4, PickIn
<1>6. g[r \ {x}] = h[r \ {x}]
  BY <1>2, <1>5
<1>7. g[r] = f[x] + g[r \ {x}] /\ h[r] = f[x] + h[r \ {x}]
  BY <1>2, <1>3, <1>4 DEF Sums, SumStep
<1>8. QED
  BY <1>2, <1>6, <1>7

(***************************************************************************)
(* The sum as the fold takes it apart, at the element it happens to take.  *)
(***************************************************************************)
LEMMA SumFirst ==
  ASSUME NEW f, NEW S, IsFiniteSet(S)
  PROVE  SumFunctionOnSet(f, S)
           = IF S = {} THEN 0 ELSE f[Pick1(S)] + SumFunctionOnSet(f, S \ {Pick1(S)})
<1> DEFINE g == CHOOSE g : Sums(f, g, S)
           R == S \ {Pick1(S)}
           h == CHOOSE h : Sums(f, h, R)
<1>1. Sums(f, g, S)
  BY SumExists
<1>2. IsFiniteSet(R)
  BY FS_Subset
<1>3. Sums(f, h, R)
  <2> HIDE DEF R
  <2>1. QED
    BY <1>2, SumExists
<1>4. SumFunctionOnSet(f, S) = g[S] /\ SumFunctionOnSet(f, R) = h[R]
  BY SumUnfolds
<1>5. g[S] = SumStep(f, g, S)
  <2> HIDE DEF g
  <2>1. QED
    BY <1>1 DEF Sums
<1>6. g[R] = h[R]
  <2>1. R \in SUBSET S /\ R \in SUBSET R
    OBVIOUS
  <2> HIDE DEF g, h, R
  <2>2. QED
    BY <2>1, <1>1, <1>3, SumUnique
<1>7. QED
  BY <1>4, <1>5, <1>6 DEF SumStep

\* No elements add up to 0.
LEMMA SumEmpty == ASSUME NEW f PROVE SumFunctionOnSet(f, {}) = 0
BY SumFirst, FS_EmptySet

\* Naturals add up to a natural.
LEMMA SumType ==
  ASSUME NEW S, IsFiniteSet(S), NEW f, \A x \in S : f[x] \in Nat
  PROVE  SumFunctionOnSet(f, S) \in Nat
<1> DEFINE Wrong == {R \in SUBSET S : SumFunctionOnSet(f, R) \notin Nat}
<1>1. SUFFICES ASSUME Wrong # {} PROVE FALSE
  OBVIOUS
<1>2. PICK R \in Wrong : \A x \in R : R \ {x} \notin Wrong
  <2>1. Wrong \in SUBSET SUBSET S
    OBVIOUS
  <2> HIDE DEF Wrong
  <2>2. QED
    BY <2>1, <1>1, MinimalSubset
<1>3. R # {}
  BY <1>2, SumEmpty
<1>4. PICK x : x = Pick1(R)
  OBVIOUS
<1>5. x \in R
  BY <1>3, <1>4, PickIn
<1>6. SumFunctionOnSet(f, R \ {x}) \in Nat /\ f[x] \in Nat
  BY <1>2, <1>5
<1>7. SumFunctionOnSet(f, R) = f[x] + SumFunctionOnSet(f, R \ {x})
  <2>1. IsFiniteSet(R)
    BY <1>2, FS_Subset
  <2>2. QED
    BY <2>1, <1>3, <1>4, SumFirst
<1>8. SumFunctionOnSet(f, R) \in Nat
  BY <1>6, <1>7
<1>9. QED
  BY <1>2, <1>8

(***************************************************************************)
(* A sum may be taken apart at any element.                                *)
(***************************************************************************)
LEMMA SumRemove ==
  ASSUME NEW S, IsFiniteSet(S), NEW f, \A x \in S : f[x] \in Nat, NEW a \in S
  PROVE  SumFunctionOnSet(f, S) = f[a] + SumFunctionOnSet(f, S \ {a})
<1> DEFINE Wrong == {R \in SUBSET S : \E b \in R :
                       SumFunctionOnSet(f, R) # f[b] + SumFunctionOnSet(f, R \ {b})}
<1>1. SUFFICES ASSUME Wrong # {} PROVE FALSE
  OBVIOUS
<1>2. PICK R \in Wrong : \A x \in R : R \ {x} \notin Wrong
  <2>1. Wrong \in SUBSET SUBSET S
    OBVIOUS
  <2> HIDE DEF Wrong
  <2>2. QED
    BY <2>1, <1>1, MinimalSubset
<1>3. PICK b \in R : SumFunctionOnSet(f, R) # f[b] + SumFunctionOnSet(f, R \ {b})
  BY <1>2
<1>4. PICK x : x = Pick1(R)
  OBVIOUS
<1>5. x \in R
  BY <1>3, <1>4, PickIn
<1>6. SumFunctionOnSet(f, R) = f[x] + SumFunctionOnSet(f, R \ {x})
  <2>1. IsFiniteSet(R)
    BY <1>2, FS_Subset
  <2>2. QED
    BY <2>1, <1>3, <1>4, SumFirst
<1>7. x # b
  BY <1>3, <1>6
<1>8. \A y \in R : R \ {y} \in SUBSET S /\ R \ {y} \notin Wrong
  BY <1>2
<1>9. SumFunctionOnSet(f, R \ {x}) = f[b] + SumFunctionOnSet(f, (R \ {x}) \ {b})
  BY <1>3, <1>5, <1>7, <1>8
<1>10. SumFunctionOnSet(f, R \ {b}) = f[x] + SumFunctionOnSet(f, (R \ {b}) \ {x})
  BY <1>3, <1>5, <1>7, <1>8
<1>11. (R \ {b}) \ {x} = (R \ {x}) \ {b}
  OBVIOUS
<1>12. PICK k : k = SumFunctionOnSet(f, (R \ {x}) \ {b})
  OBVIOUS
<1>13. k \in Nat
  <2>1. (R \ {x}) \ {b} \in SUBSET S /\ IsFiniteSet((R \ {x}) \ {b})
    BY <1>2, FS_Subset
  <2>2. QED
    BY <2>1, <1>12, SumType
<1>14. f[x] + (f[b] + k) = f[b] + (f[x] + k)
  BY <1>2, <1>3, <1>5, <1>13
<1>15. QED
  BY <1>3, <1>6, <1>9, <1>10, <1>11, <1>12, <1>14

(***************************************************************************)
(* A sum with one more element.                                            *)
(***************************************************************************)
LEMMA SumAdd ==
  ASSUME NEW S, IsFiniteSet(S), NEW f, NEW a, a \notin S, \A x \in S \cup {a} : f[x] \in Nat
  PROVE  SumFunctionOnSet(f, S \cup {a}) = f[a] + SumFunctionOnSet(f, S)
<1>1. IsFiniteSet(S \cup {a}) /\ a \in S \cup {a} /\ (S \cup {a}) \ {a} = S
  BY FS_AddElement
<1>2. QED
  BY <1>1, SumRemove

(***************************************************************************)
(* Only the values on the set matter.                                      *)
(***************************************************************************)
LEMMA SumSame ==
  ASSUME NEW S, IsFiniteSet(S), NEW f, NEW g, \A x \in S : f[x] = g[x]
  PROVE  SumFunctionOnSet(f, S) = SumFunctionOnSet(g, S)
<1> DEFINE Wrong == {R \in SUBSET S : SumFunctionOnSet(f, R) # SumFunctionOnSet(g, R)}
<1>1. SUFFICES ASSUME Wrong # {} PROVE FALSE
  OBVIOUS
<1>2. PICK R \in Wrong : \A x \in R : R \ {x} \notin Wrong
  <2>1. Wrong \in SUBSET SUBSET S
    OBVIOUS
  <2> HIDE DEF Wrong
  <2>2. QED
    BY <2>1, <1>1, MinimalSubset
<1>3. R # {}
  BY <1>2, SumEmpty
<1>4. PICK x : x = Pick1(R)
  OBVIOUS
<1>5. x \in R
  BY <1>3, <1>4, PickIn
<1>6. SumFunctionOnSet(f, R \ {x}) = SumFunctionOnSet(g, R \ {x}) /\ f[x] = g[x]
  BY <1>2, <1>5
<1>7. /\ SumFunctionOnSet(f, R) = f[x] + SumFunctionOnSet(f, R \ {x})
      /\ SumFunctionOnSet(g, R) = g[x] + SumFunctionOnSet(g, R \ {x})
  <2>1. IsFiniteSet(R)
    BY <1>2, FS_Subset
  <2>2. QED
    BY <2>1, <1>3, <1>4, SumFirst
<1>8. QED
  BY <1>2, <1>6, <1>7

(***************************************************************************)
(* A sum of terms that do not exceed c.                                    *)
(***************************************************************************)
LEMMA SumBounded ==
  ASSUME NEW S, IsFiniteSet(S), NEW f, NEW c \in Nat,
         \A x \in S : f[x] \in Nat /\ f[x] <= c
  PROVE  SumFunctionOnSet(f, S) <= Cardinality(S) * c
<1> DEFINE Wrong == {R \in SUBSET S : ~(SumFunctionOnSet(f, R) <= Cardinality(R) * c)}
<1>1. SUFFICES ASSUME Wrong # {} PROVE FALSE
  OBVIOUS
<1>2. PICK R \in Wrong : \A x \in R : R \ {x} \notin Wrong
  <2>1. Wrong \in SUBSET SUBSET S
    OBVIOUS
  <2> HIDE DEF Wrong
  <2>2. QED
    BY <2>1, <1>1, MinimalSubset
<1>3. R # {}
  <2>1. Cardinality({}) * c = 0
    BY FS_EmptySet
  <2>2. QED
    BY <2>1, <1>2, SumEmpty
<1>4. PICK x \in R : TRUE
  BY <1>3
<1>5. IsFiniteSet(R) /\ IsFiniteSet(R \ {x}) /\ R \ {x} \in SUBSET S
  BY <1>2, FS_Subset
<1>6. PICK n : n = Cardinality(R)
  OBVIOUS
<1>7. Cardinality(R \ {x}) = n - 1 /\ n \in Nat
  BY <1>4, <1>5, <1>6, FS_RemoveElement, FS_CardinalityType
<1>8. PICK k : k = SumFunctionOnSet(f, R \ {x})
  OBVIOUS
<1>9. k <= (n - 1) * c
  BY <1>2, <1>4, <1>5, <1>7, <1>8
<1>10. SumFunctionOnSet(f, R) = f[x] + k
  BY <1>2, <1>4, <1>5, <1>8, SumRemove
<1>11. f[x] \in Nat /\ f[x] <= c /\ k \in Nat
  BY <1>2, <1>4, <1>5, <1>8, SumType
<1>12. SumFunctionOnSet(f, R) <= n * c
  <2>1. PICK m : m = (n - 1) * c
    OBVIOUS
  <2>2. n * c = m + c /\ m \in Int
    BY <2>1, <1>7
  <2>3. f[x] + k <= m + c
    BY <2>1, <2>2, <1>9, <1>11
  <2>4. QED
    BY <2>2, <2>3, <1>10
<1>13. QED
  BY <1>2, <1>6, <1>12

\* Zeros add up to 0.
LEMMA SumZero ==
  ASSUME NEW S, IsFiniteSet(S), NEW f, \A x \in S : f[x] = 0
  PROVE  SumFunctionOnSet(f, S) = 0
<1>1. \A x \in S : f[x] \in Nat /\ f[x] <= 0
  OBVIOUS
<1>2. SumFunctionOnSet(f, S) \in Nat /\ SumFunctionOnSet(f, S) <= Cardinality(S) * 0
  BY <1>1, SumType, SumBounded
<1>3. Cardinality(S) * 0 = 0
  BY FS_CardinalityType
<1>4. QED
  BY <1>2, <1>3

\* A sum in two parts.
LEMMA SumSplit ==
  ASSUME NEW S, IsFiniteSet(S), NEW f, \A x \in S : f[x] \in Nat, NEW A \in SUBSET S
  PROVE  SumFunctionOnSet(f, S) = SumFunctionOnSet(f, A) + SumFunctionOnSet(f, S \ A)
<1> DEFINE Wrong == {R \in SUBSET A : SumFunctionOnSet(f, S)
                       # SumFunctionOnSet(f, R) + SumFunctionOnSet(f, S \ R)}
<1>1. SUFFICES ASSUME Wrong # {} PROVE FALSE
  OBVIOUS
<1>2. PICK R \in Wrong : \A x \in R : R \ {x} \notin Wrong
  <2>1. Wrong \in SUBSET SUBSET A /\ IsFiniteSet(A)
    BY FS_Subset
  <2> HIDE DEF Wrong
  <2>2. QED
    BY <2>1, <1>1, MinimalSubset
<1>3. \A T \in SUBSET S : IsFiniteSet(T) /\ SumFunctionOnSet(f, T) \in Nat
  BY FS_Subset, SumType
<1>4. R # {}
  <2>1. S \ {} = S
    OBVIOUS
  <2>2. SumFunctionOnSet(f, S) = 0 + SumFunctionOnSet(f, S)
    BY <1>3
  <2>3. QED
    BY <2>1, <2>2, <1>2, SumEmpty
<1>5. PICK x \in R : TRUE
  BY <1>4
<1>6. PICK Q : Q = R \ {x}
  OBVIOUS
<1>7. Q \in SUBSET S /\ R \in SUBSET S /\ S \ R \in SUBSET S /\ S \ Q \in SUBSET S
      /\ x \in S \ Q /\ (S \ Q) \ {x} = S \ R
  BY <1>2, <1>5, <1>6
<1>8. SumFunctionOnSet(f, S) = SumFunctionOnSet(f, Q) + SumFunctionOnSet(f, S \ Q)
  BY <1>2, <1>5, <1>6
<1>9. SumFunctionOnSet(f, R) = f[x] + SumFunctionOnSet(f, Q)
  BY <1>3, <1>5, <1>6, <1>7, SumRemove
<1>10. SumFunctionOnSet(f, S \ Q) = f[x] + SumFunctionOnSet(f, S \ R)
  <2>1. \A y \in S \ Q : f[y] \in Nat
    BY <1>7
  <2>2. SumFunctionOnSet(f, S \ Q) = f[x] + SumFunctionOnSet(f, (S \ Q) \ {x})
    BY <2>1, <1>3, <1>7, SumRemove
  <2>3. QED
    BY <2>2, <1>7
<1>11. f[x] \in Nat /\ SumFunctionOnSet(f, Q) \in Nat /\ SumFunctionOnSet(f, S \ R) \in Nat
  BY <1>3, <1>7
<1>12. SumFunctionOnSet(f, S) = SumFunctionOnSet(f, R) + SumFunctionOnSet(f, S \ R)
  BY <1>8, <1>9, <1>10, <1>11
<1>13. QED
  BY <1>2, <1>12
=============================================================================
