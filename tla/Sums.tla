-------------------------------- MODULE Sums --------------------------------
(***************************************************************************)
(* What the proofs know of numbers and sums: a set of naturals has a least *)
(* one, finite sets are reached element by element, and SumFunctionOnSet   *)
(* adds up the numbers of a finite set, in whatever order, from nothing.   *)
(***************************************************************************)
EXTENDS Integers, FiniteSets, FiniteSetsExt, Functions, FiniteSetTheorems, NaturalsInduction, WellFoundedInduction, TLAPS

\* A set of numbers that is not empty has a least one.
LEMMA LeastNumber ==
    ASSUME NEW T \in SUBSET Nat, T # {}
    PROVE  \E x \in T : \A y \in T : x <= y
  <1> DEFINE R == {q \in Nat \X Nat : q[1] < q[2]}
  <1>1. IsWellFoundedOn(R, Nat)
    BY NatLessThanWellFounded DEF OpToRel
  <1>2. PICK x \in T : \A y \in T : ~(<<y, x>> \in R)
    BY <1>1, WFMin
  <1>3. ASSUME NEW y \in T PROVE x <= y
    <2>1. <<y, x>> \in Nat \X Nat /\ ~(y < x)
      BY <1>2
    <2> QED BY <2>1
  <1> QED BY <1>2, <1>3

\* What holds of the empty set, and of a set with one element more, holds of a finite set.
LEMMA FiniteInduction ==
    ASSUME NEW S, IsFiniteSet(S), NEW C, {} \in C,
           \A A \in SUBSET S : A \in C => \A x \in S \ A : A \cup {x} \in C
    PROVE  S \in C
  <1> DEFINE Bad == {Cardinality(S \ A) : A \in (SUBSET S) \cap C}
  <1>1. \A A \in SUBSET S : IsFiniteSet(S \ A) /\ Cardinality(S \ A) \in Nat
    BY FS_Difference, FS_CardinalityType
  <1>2. Bad \in SUBSET Nat /\ Bad # {}
    BY <1>1
  <1>3. PICK n \in Bad : \A m \in Bad : n <= m
    <2> HIDE DEF Bad
    <2> QED BY <1>2, LeastNumber
  <1>4. PICK A \in (SUBSET S) \cap C : n = Cardinality(S \ A)
    OBVIOUS
  <1>5. ASSUME NEW x \in S \ A PROVE FALSE
    <2>1. A \cup {x} \in (SUBSET S) \cap C
      BY <1>4
    <2>2. Cardinality(S \ (A \cup {x})) \in Bad
      BY <2>1
    <2>3. S \ (A \cup {x}) = (S \ A) \ {x}
      OBVIOUS
    <2>4. Cardinality((S \ A) \ {x}) = Cardinality(S \ A) - 1
      BY <1>1, <1>4, FS_RemoveElement
    <2>5. n \in Nat /\ n <= Cardinality(S \ (A \cup {x}))
      <3> HIDE DEF Bad
      <3> QED BY <1>2, <1>3, <2>2
    <2>6. n = Cardinality(S \ A) /\ Cardinality(S \ (A \cup {x})) = Cardinality(S \ A) - 1
      BY <1>4, <2>3, <2>4
    <2> QED BY <2>5, <2>6
  <1>6. A = S
    BY <1>4, <1>5
  <1> QED BY <1>4, <1>6

\* g satisfies the recursion of the sum of f on the subset s.
Adds(f, g, s) == g[s] = IF s = {} THEN 0 ELSE f[CHOOSE x \in s : TRUE] + g[s \ {CHOOSE x \in s : TRUE}]
\* The recursion of SumFunctionOnSet, and what it yields.
SumRecursion(f, S) ==
    CHOOSE g : g = [s \in SUBSET S |->
        IF s = {} THEN 0 ELSE LET x == CHOOSE x \in s : TRUE IN f[x] + g[s \ {x}]]

\* SumFunctionOnSet is what the recursion gives the whole set.
LEMMA SumIsRecursion == ASSUME NEW f, NEW S PROVE SumFunctionOnSet(f, S) = SumRecursion(f, S)[S]
  BY DEF SumFunctionOnSet, FoldFunctionOnSet, MapThenFoldSet, SumRecursion

\* The recursion has a solution up to every size.
LEMMA AddsUpTo ==
    ASSUME NEW f, NEW S, IsFiniteSet(S), NEW n \in Nat
    PROVE  \E g : \A s \in SUBSET S : Cardinality(s) <= n => Adds(f, g, s)
  <1> DEFINE Solves(g, m) == \A s \in SUBSET S : Cardinality(s) <= m => Adds(f, g, s)
             Bad == {m \in Nat : ~\E g : Solves(g, m)}
  <1> SUFFICES ASSUME Bad # {} PROVE FALSE
    OBVIOUS
  <1>0. Bad \in SUBSET Nat
    OBVIOUS
  <1>1. PICK m \in Bad : \A k \in Bad : m <= k
    <2> HIDE DEF Bad
    <2> QED BY <1>0, LeastNumber
  <1>2. m # 0
    <2>1. Solves([s \in SUBSET S |-> 0], 0)
      BY FS_EmptySet, FS_Subset, FS_CardinalityType DEF Adds
    <2> QED BY <2>1
  <1>3. PICK g : Solves(g, m - 1)
    BY <1>1, <1>2
  <1> DEFINE h == [s \in SUBSET S |-> IF Cardinality(s) <= m - 1 THEN g[s]
                     ELSE IF s = {} THEN 0 ELSE f[CHOOSE x \in s : TRUE] + g[s \ {CHOOSE x \in s : TRUE}]]
  <1>4. Solves(h, m)
    <2> SUFFICES ASSUME NEW s \in SUBSET S, Cardinality(s) <= m PROVE Adds(f, h, s)
      OBVIOUS
    <2>1. CASE s = {}
      BY <1>3, <2>1, FS_EmptySet DEF Adds
    <2>2. CASE s # {}
      <3>1. PICK x \in s : x = CHOOSE y \in s : TRUE
        BY <2>2
      <3>2. IsFiniteSet(s) /\ Cardinality(s \ {x}) = Cardinality(s) - 1 /\ Cardinality(s) \in Nat
        BY <3>1, FS_Subset, FS_RemoveElement, FS_CardinalityType
      <3>3. h[s \ {x}] = g[s \ {x}]
        <4>1. s \ {x} \in SUBSET S /\ Cardinality(s \ {x}) <= m - 1
          BY <3>2
        <4> QED BY <4>1
      <3>4. h[s] = f[x] + g[s \ {x}]
        <4>1. CASE Cardinality(s) <= m - 1
          BY <4>1, <2>2, <1>3, <3>1 DEF Adds
        <4>2. CASE ~(Cardinality(s) <= m - 1)
          BY <4>2, <2>2, <3>1
        <4> QED BY <4>1, <4>2
      <3> HIDE DEF h
      <3> QED BY <3>1, <3>3, <3>4, <2>2 DEF Adds
    <2> QED BY <2>1, <2>2
  <1> QED BY <1>1, <1>4

\* So it has one on all subsets of a finite set.
LEMMA SumRecursionAdds ==
    ASSUME NEW f, NEW S, IsFiniteSet(S), NEW s \in SUBSET S
    PROVE  Adds(f, SumRecursion(f, S), s)
  <1> DEFINE Body(g) == [t \in SUBSET S |-> IF t = {} THEN 0 ELSE LET x == CHOOSE x \in t : TRUE IN f[x] + g[t \ {x}]]
  <1>1. PICK g : \A t \in SUBSET S : Adds(f, g, t)
    <2>1. Cardinality(S) \in Nat /\ \A t \in SUBSET S : Cardinality(t) <= Cardinality(S)
      BY FS_CardinalityType, FS_Subset
    <2>2. PICK g : \A t \in SUBSET S : Cardinality(t) <= Cardinality(S) => Adds(f, g, t)
      BY <2>1, AddsUpTo
    <2> QED BY <2>1, <2>2
  <1> DEFINE h == [t \in SUBSET S |-> g[t]]
  <1>2. h = Body(h)
    <2>1. ASSUME NEW t \in SUBSET S PROVE h[t] = Body(h)[t]
      <3>1. CASE t = {}
        BY <1>1, <3>1 DEF Adds
      <3>2. CASE t # {}
        <4>1. PICK x \in t : x = CHOOSE y \in t : TRUE
          BY <3>2
        <4>2. h[t] = f[x] + g[t \ {x}]
          BY <1>1, <3>2, <4>1 DEF Adds
        <4>3. h[t \ {x}] = g[t \ {x}]
          OBVIOUS
        <4>4. Body(h)[t] = f[x] + h[t \ {x}]
          BY <3>2, <4>1
        <4> QED BY <4>2, <4>3, <4>4
      <3> QED BY <3>1, <3>2
    <2> QED BY <2>1
  <1>3. PICK r : r = SumRecursion(f, S) /\ r = Body(r)
    <2>1. SumRecursion(f, S) = CHOOSE r : r = Body(r)
      BY DEF SumRecursion
    <2> HIDE DEF h, Body
    <2> QED BY <1>2, <2>1
  <1>4. r[s] = IF s = {} THEN 0 ELSE LET x == CHOOSE x \in s : TRUE IN f[x] + r[s \ {x}]
    BY <1>3
  <1> QED BY <1>3, <1>4 DEF Adds

\* A set smaller by an element.
LEMMA OneLess ==
    ASSUME NEW S, IsFiniteSet(S), NEW s \in SUBSET S, NEW x \in s
    PROVE  /\ s \ {x} \in SUBSET S /\ Cardinality(s) \in Nat /\ Cardinality(s \ {x}) \in Nat
           /\ Cardinality(s \ {x}) = Cardinality(s) - 1 /\ Cardinality(s \ {x}) < Cardinality(s)
  <1>1. IsFiniteSet(s)
    BY FS_Subset
  <1>2. Cardinality(s \ {x}) = Cardinality(s) - 1 /\ Cardinality(s) \in Nat
    BY <1>1, FS_RemoveElement, FS_CardinalityType
  <1>3. Cardinality(s \ {x}) \in Nat
    BY <1>1, FS_RemoveElement, FS_CardinalityType
  <1> QED BY <1>2, <1>3

\* The sum on s is a number, whichever element is taken out first.
TakesAny(f, g, s) == g[s] \in Int /\ \A x \in s : g[s] = f[x] + g[s \ {x}]

\* Every sum the recursion gives is such a number: the choice of the element does not matter.
LEMMA AnyOrder ==
    ASSUME NEW f, NEW S, IsFiniteSet(S), \A x \in S : f[x] \in Int,
           NEW g, \A s \in SUBSET S : Adds(f, g, s)
    PROVE  \A s \in SUBSET S : TakesAny(f, g, s)
  <1> DEFINE Bad == {Cardinality(s) : s \in {t \in SUBSET S : ~TakesAny(f, g, t)}}
  <1> SUFFICES ASSUME Bad # {} PROVE FALSE
    OBVIOUS
  <1>1. Bad \in SUBSET Nat
    BY FS_Subset, FS_CardinalityType
  <1>2. PICK n \in Bad : \A m \in Bad : n <= m
    <2> HIDE DEF Bad
    <2> QED BY <1>1, LeastNumber
  <1>3. PICK s \in SUBSET S : ~TakesAny(f, g, s) /\ n = Cardinality(s)
    OBVIOUS
  <1>4. ASSUME NEW t \in SUBSET S, Cardinality(t) \in Nat, Cardinality(t) < Cardinality(s) PROVE TakesAny(f, g, t)
    <2>1. SUFFICES ASSUME ~TakesAny(f, g, t) PROVE FALSE
      OBVIOUS
    <2>2. Cardinality(t) \in Bad
      BY <2>1
    <2> HIDE DEF Bad
    <2> QED BY <1>1, <1>2, <1>3, <1>4, <2>2
  <1> HIDE DEF Bad
  <1>5. CASE s = {}
    <2>1. g[s] = 0
      BY <1>5 DEF Adds
    <2> QED BY <1>3, <1>5, <2>1 DEF TakesAny
  <1>6. CASE s # {}
    <2>1. PICK c \in s : c = CHOOSE y \in s : TRUE
      BY <1>6
    <2>2. g[s] = f[c] + g[s \ {c}]
      BY <1>6, <2>1 DEF Adds
    <2>3. TakesAny(f, g, s \ {c})
      <3>1. s \ {c} \in SUBSET S /\ Cardinality(s \ {c}) \in Nat /\ Cardinality(s \ {c}) < Cardinality(s)
        BY OneLess
      <3> QED BY <1>4, <3>1
    <2>4. ASSUME NEW x \in s PROVE g[s] = f[x] + g[s \ {x}]
      <3>1. CASE x = c
        BY <2>2, <3>1
      <3>2. CASE x # c
        <4>1. g[s \ {c}] = f[x] + g[(s \ {c}) \ {x}]
          BY <2>3, <3>2 DEF TakesAny
        <4>2. TakesAny(f, g, s \ {x})
          <5>1. s \ {x} \in SUBSET S /\ Cardinality(s \ {x}) \in Nat /\ Cardinality(s \ {x}) < Cardinality(s)
            BY OneLess
          <5> QED BY <1>4, <5>1
        <4>3. g[s \ {x}] = f[c] + g[(s \ {x}) \ {c}]
          BY <4>2, <3>2 DEF TakesAny
        <4>4. (s \ {x}) \ {c} = (s \ {c}) \ {x}
          OBVIOUS
        <4>5. TakesAny(f, g, (s \ {c}) \ {x})
          <5>1. (s \ {c}) \ {x} \in SUBSET S /\ Cardinality((s \ {c}) \ {x}) \in Nat
                /\ Cardinality((s \ {c}) \ {x}) < Cardinality(s)
            <6>1. s \ {c} \in SUBSET S /\ x \in s \ {c}
              BY <3>2
            <6>2. PICK r \in SUBSET S : r = s \ {c}
              BY <6>1
            <6>n. x \in r
              BY <6>1, <6>2
            <6>3. r \ {x} \in SUBSET S /\ Cardinality(r \ {x}) \in Nat /\ Cardinality(r \ {x}) < Cardinality(r) /\ Cardinality(r) \in Nat
              BY <6>n, OneLess
            <6>4. Cardinality(r) < Cardinality(s) /\ Cardinality(s) \in Nat
              BY <6>2, OneLess
            <6>5. Cardinality(r \ {x}) < Cardinality(s)
              BY <6>3, <6>4
            <6> QED BY <6>2, <6>3, <6>5
          <5> QED BY <1>4, <5>1
        <4>6. PICK k \in Int : k = g[(s \ {c}) \ {x}]
          BY <4>5 DEF TakesAny
        <4>7. f[x] \in Int /\ f[c] \in Int
          OBVIOUS
        <4>8. g[s] = f[c] + (f[x] + k)
          BY <2>2, <4>1, <4>6
        <4>9. g[s \ {x}] = f[c] + k
          BY <4>3, <4>4, <4>6
        <4>10. f[c] + (f[x] + k) = f[x] + (f[c] + k)
          BY <4>7
        <4> QED BY <4>8, <4>9, <4>10
      <3> QED BY <3>1, <3>2
    <2>5. g[s] \in Int
      BY <2>2, <2>3 DEF TakesAny
    <2> QED BY <1>3, <2>4, <2>5 DEF TakesAny
  <1> QED BY <1>5, <1>6

\* g solves the recursion on the subsets of S.
Solves(f, g, S) == \A s \in SUBSET S : Adds(f, g, s)

\* Two solutions on the subsets of a set agree there.
LEMMA SameSolution ==
    ASSUME NEW f, NEW S, IsFiniteSet(S), NEW g, NEW h, Solves(f, g, S), Solves(f, h, S)
    PROVE  \A s \in SUBSET S : g[s] = h[s]
  <1> DEFINE Bad == {Cardinality(s) : s \in {t \in SUBSET S : g[t] # h[t]}}
  <1> SUFFICES ASSUME Bad # {} PROVE FALSE
    OBVIOUS
  <1>1. Bad \in SUBSET Nat
    BY FS_Subset, FS_CardinalityType
  <1>2. PICK n \in Bad : \A m \in Bad : n <= m
    <2> HIDE DEF Bad
    <2> QED BY <1>1, LeastNumber
  <1>3. PICK s \in SUBSET S : g[s] # h[s] /\ n = Cardinality(s)
    OBVIOUS
  <1>4. s # {}
    BY <1>3 DEF Solves, Adds
  <1>5. PICK c \in s : c = CHOOSE y \in s : TRUE
    BY <1>4
  <1>6. g[s] = f[c] + g[s \ {c}] /\ h[s] = f[c] + h[s \ {c}]
    BY <1>4, <1>5 DEF Solves, Adds
  <1>7. s \ {c} \in SUBSET S /\ Cardinality(s \ {c}) = Cardinality(s) - 1 /\ Cardinality(s) \in Nat
    BY OneLess
  <1>8. g[s \ {c}] # h[s \ {c}]
    BY <1>3, <1>6
  <1>9. Cardinality(s \ {c}) \in Bad
    BY <1>7, <1>8
  <1> HIDE DEF Bad
  <1> QED BY <1>2, <1>3, <1>7, <1>9

\* The sum of no element is nothing.
LEMMA SumOfNone == ASSUME NEW f PROVE SumFunctionOnSet(f, {}) = 0
  <1>1. Adds(f, SumRecursion(f, {}), {})
    BY SumRecursionAdds, FS_EmptySet
  <1> QED BY <1>1, SumIsRecursion DEF Adds

\* The sum with one element more adds that element's number.
LEMMA SumOfMore ==
    ASSUME NEW f, NEW S, IsFiniteSet(S), NEW x, x \notin S, \A y \in S \cup {x} : f[y] \in Int
    PROVE  /\ SumFunctionOnSet(f, S) \in Int
           /\ SumFunctionOnSet(f, S \cup {x}) = f[x] + SumFunctionOnSet(f, S)
  <1> DEFINE T == S \cup {x}
             g == SumRecursion(f, T)
             h == SumRecursion(f, S)
  <1>1. IsFiniteSet(T)
    BY FS_AddElement
  <1>2. (\A s \in SUBSET T : Adds(f, g, s)) /\ \A s \in SUBSET S : Adds(f, h, s)
    BY <1>1, SumRecursionAdds
  <1>3. SumFunctionOnSet(f, S) = h[S] /\ SumFunctionOnSet(f, S \cup {x}) = g[T]
    BY SumIsRecursion
  <1> HIDE DEF g, h
  <1>4. TakesAny(f, g, T) /\ TakesAny(f, g, S)
    BY <1>1, <1>2, AnyOrder
  <1>5. g[S] = h[S]
    <2>1. Solves(f, g, S) /\ Solves(f, h, S)
      BY <1>2 DEF Solves
    <2>2. \A s \in SUBSET S : g[s] = h[s]
      BY <2>1, SameSolution
    <2> QED BY <2>2
  <1>6. T \ {x} = S /\ x \in T
    OBVIOUS
  <1>7. g[T] = f[x] + g[S] /\ g[S] \in Int
    BY <1>4, <1>6 DEF TakesAny
  <1> QED BY <1>3, <1>5, <1>7

\* Numbers are added to a number.
LEMMA SumIsNumber ==
    ASSUME NEW f, NEW S, IsFiniteSet(S), \A x \in S : f[x] \in Int
    PROVE  SumFunctionOnSet(f, S) \in Int
  <1> DEFINE C == {A \in SUBSET S : SumFunctionOnSet(f, A) \in Int}
  <1>2. {} \in C
    BY SumOfNone
  <1>3. ASSUME NEW A \in SUBSET S, A \in C, NEW y \in S \ A PROVE A \cup {y} \in C
    <2>1. IsFiniteSet(A) /\ \A z \in A \cup {y} : f[z] \in Int
      BY FS_Subset
    <2>2. SumFunctionOnSet(f, A) \in Int /\ SumFunctionOnSet(f, A \cup {y}) = f[y] + SumFunctionOnSet(f, A)
      BY <2>1, SumOfMore
    <2> QED BY <2>2
  <1>4. S \in C
    <2> HIDE DEF C
    <2> QED BY <1>2, <1>3, FiniteInduction
  <1> QED BY <1>4

\* The sum over two disjoint sets.
LEMMA SumOfBoth ==
    ASSUME NEW f, NEW A, NEW B, IsFiniteSet(A), IsFiniteSet(B), A \cap B = {}, \A x \in A \cup B : f[x] \in Int
    PROVE  SumFunctionOnSet(f, A \cup B) = SumFunctionOnSet(f, A) + SumFunctionOnSet(f, B)
  <1> DEFINE C == {D \in SUBSET A : SumFunctionOnSet(f, D \cup B) = SumFunctionOnSet(f, D) + SumFunctionOnSet(f, B)}
  <1>1. PICK b \in Int : b = SumFunctionOnSet(f, B)
    BY SumIsNumber
  <1>2. {} \in C
    <2>1. {} \cup B = B
      OBVIOUS
    <2> QED BY <1>1, <2>1, SumOfNone
  <1>3. ASSUME NEW D \in SUBSET A, D \in C, NEW y \in A \ D PROVE D \cup {y} \in C
    <2>1. IsFiniteSet(D) /\ IsFiniteSet(D \cup B) /\ y \notin D \cup B
      BY FS_Subset, FS_Union
    <2>2. (\A z \in D \cup {y} : f[z] \in Int) /\ \A z \in (D \cup B) \cup {y} : f[z] \in Int
      OBVIOUS
    <2>3. SumFunctionOnSet(f, D) \in Int /\ SumFunctionOnSet(f, D \cup {y}) = f[y] + SumFunctionOnSet(f, D)
      BY <2>1, <2>2, SumOfMore
    <2>4. SumFunctionOnSet(f, (D \cup B) \cup {y}) = f[y] + SumFunctionOnSet(f, D \cup B)
      BY <2>1, <2>2, SumOfMore
    <2>5. (D \cup B) \cup {y} = (D \cup {y}) \cup B
      OBVIOUS
    <2>6. PICK d \in Int : d = SumFunctionOnSet(f, D)
      BY <2>3
    <2>7. SumFunctionOnSet(f, D \cup B) = d + b /\ f[y] \in Int
      BY <1>1, <1>3, <2>6
    <2>8. SumFunctionOnSet(f, (D \cup {y}) \cup B) = f[y] + (d + b)
      BY <2>4, <2>5, <2>7
    <2>9. SumFunctionOnSet(f, D \cup {y}) = f[y] + d
      BY <2>3, <2>6
    <2>10. f[y] + (d + b) = (f[y] + d) + b
      BY <2>7
    <2> QED BY <1>1, <2>8, <2>9, <2>10
  <1>4. A \in C
    <2> HIDE DEF C
    <2> QED BY <1>2, <1>3, FiniteInduction
  <1> QED BY <1>4

\* A sum of numbers lies within the sum of bounds of their size.
LEMMA SumWithin ==
    ASSUME NEW f, NEW g, NEW S, IsFiniteSet(S), \A x \in S : f[x] \in Int /\ g[x] \in Int /\ f[x] <= g[x] /\ -g[x] <= f[x]
    PROVE  /\ SumFunctionOnSet(f, S) \in Int /\ SumFunctionOnSet(g, S) \in Int
           /\ SumFunctionOnSet(f, S) <= SumFunctionOnSet(g, S) /\ -SumFunctionOnSet(g, S) <= SumFunctionOnSet(f, S)
  <1> DEFINE Within(a, b) == a \in Int /\ b \in Int /\ a <= b /\ -b <= a
             C == {A \in SUBSET S : Within(SumFunctionOnSet(f, A), SumFunctionOnSet(g, A))}
  <1>1. {} \in C
    BY SumOfNone
  <1>2. ASSUME NEW A \in SUBSET S, A \in C, NEW y \in S \ A PROVE A \cup {y} \in C
    <2>1. IsFiniteSet(A) /\ (\A z \in A \cup {y} : f[z] \in Int) /\ \A z \in A \cup {y} : g[z] \in Int
      BY FS_Subset
    <2>2. SumFunctionOnSet(f, A \cup {y}) = f[y] + SumFunctionOnSet(f, A)
      BY <2>1, SumOfMore
    <2>3. SumFunctionOnSet(g, A \cup {y}) = g[y] + SumFunctionOnSet(g, A)
      BY <2>1, SumOfMore
    <2>4. PICK a, b : a = SumFunctionOnSet(f, A) /\ b = SumFunctionOnSet(g, A)
      OBVIOUS
    <2>5. Within(a, b) /\ Within(f[y], g[y])
      BY <1>2, <2>4
    <2>6. Within(f[y] + a, g[y] + b)
      BY <2>5
    <2> QED BY <2>2, <2>3, <2>4, <2>6
  <1>3. S \in C
    <2> HIDE DEF C
    <2> QED BY <1>1, <1>2, FiniteInduction
  <1> QED BY <1>3

\* Equal numbers have equal sums.
LEMMA SumSame ==
    ASSUME NEW f, NEW g, NEW S, IsFiniteSet(S), \A x \in S : f[x] \in Int /\ g[x] = f[x]
    PROVE  SumFunctionOnSet(g, S) = SumFunctionOnSet(f, S)
  <1> DEFINE C == {A \in SUBSET S : SumFunctionOnSet(g, A) = SumFunctionOnSet(f, A)}
  <1>1. {} \in C
    BY SumOfNone
  <1>2. ASSUME NEW A \in SUBSET S, A \in C, NEW y \in S \ A PROVE A \cup {y} \in C
    <2>1. IsFiniteSet(A) /\ (\A z \in A \cup {y} : f[z] \in Int) /\ \A z \in A \cup {y} : g[z] \in Int
      BY FS_Subset
    <2>2. SumFunctionOnSet(f, A \cup {y}) = f[y] + SumFunctionOnSet(f, A)
      BY <2>1, SumOfMore
    <2>3. SumFunctionOnSet(g, A \cup {y}) = g[y] + SumFunctionOnSet(g, A)
      BY <2>1, SumOfMore
    <2> QED BY <1>2, <2>2, <2>3
  <1>3. S \in C
    <2> HIDE DEF C
    <2> QED BY <1>1, <1>2, FiniteInduction
  <1> QED BY <1>3

\* What a set's elements are moved to, none to the same place, has the sum they had there.
Moved(at, A) == {at[x] : x \in A}
LEMMA SumMoved ==
    ASSUME NEW f, NEW g, NEW at, NEW S, IsFiniteSet(S),
           \A x, y \in S : at[x] = at[y] => x = y,
           \A x \in S : f[at[x]] \in Int /\ g[x] = f[at[x]]
    PROVE  SumFunctionOnSet(g, S) = SumFunctionOnSet(f, Moved(at, S))
  <1> DEFINE C == {A \in SUBSET S : SumFunctionOnSet(g, A) = SumFunctionOnSet(f, Moved(at, A))}
  <1>1. {} \in C
    <2>1. Moved(at, {}) = {}
      BY DEF Moved
    <2> QED BY <2>1, SumOfNone
  <1>2. ASSUME NEW A \in SUBSET S, A \in C, NEW y \in S \ A PROVE A \cup {y} \in C
    <2>1. IsFiniteSet(A) /\ \A z \in A \cup {y} : g[z] \in Int
      BY FS_Subset
    <2>2. IsFiniteSet(Moved(at, A))
      <3> DEFINE h == [x \in A |-> at[x]]
      <3>1. h \in Surjection(A, Moved(at, A))
        BY DEF Moved, Surjection
      <3> QED BY <2>1, <3>1, FS_Surjection
    <2>3. at[y] \notin Moved(at, A) /\ Moved(at, A \cup {y}) = Moved(at, A) \cup {at[y]}
      BY DEF Moved
    <2>4. \A z \in Moved(at, A) \cup {at[y]} : f[z] \in Int
      BY DEF Moved
    <2>5. SumFunctionOnSet(f, Moved(at, A) \cup {at[y]}) = f[at[y]] + SumFunctionOnSet(f, Moved(at, A))
      BY <2>2, <2>3, <2>4, SumOfMore
    <2>6. SumFunctionOnSet(g, A \cup {y}) = g[y] + SumFunctionOnSet(g, A)
      BY <2>1, SumOfMore
    <2> QED BY <1>2, <2>3, <2>5, <2>6
  <1>3. S \in C
    <2> HIDE DEF C
    <2> QED BY <1>1, <1>2, FiniteInduction
  <1> QED BY <1>3

\* The least and the greatest of two numbers.
LEMMA MinOfTwo ==
    ASSUME NEW x \in Int, NEW y \in Int
    PROVE  Min({x, y}) = IF x <= y THEN x ELSE y
  <1>1. PICK m : m = Min({x, y})
    OBVIOUS
  <1>2. \E z \in {x, y} : \A w \in {x, y} : z <= w
    OBVIOUS
  <1>3. m \in {x, y} /\ m <= x /\ m <= y
    BY <1>1, <1>2 DEF Min
  <1> QED BY <1>1, <1>3
LEMMA MaxOfTwo ==
    ASSUME NEW x \in Int, NEW y \in Int
    PROVE  Max({x, y}) = IF x <= y THEN y ELSE x
  <1>1. PICK m : m = Max({x, y})
    OBVIOUS
  <1>2. \E z \in {x, y} : \A w \in {x, y} : z >= w
    OBVIOUS
  <1>3. m \in {x, y} /\ m >= x /\ m >= y
    BY <1>1, <1>2 DEF Max
  <1> QED BY <1>1, <1>3

\* Naturals add up to a natural.
LEMMA SumIsNatural ==
    ASSUME NEW f, NEW S, IsFiniteSet(S), \A x \in S : f[x] \in Nat
    PROVE  SumFunctionOnSet(f, S) \in Nat
  <1> DEFINE C == {A \in SUBSET S : SumFunctionOnSet(f, A) \in Nat}
  <1>1. {} \in C
    BY SumOfNone
  <1>2. ASSUME NEW A \in SUBSET S, A \in C, NEW y \in S \ A PROVE A \cup {y} \in C
    <2>1. IsFiniteSet(A) /\ \A w \in A \cup {y} : f[w] \in Int
      BY FS_Subset
    <2>2. SumFunctionOnSet(f, A \cup {y}) = f[y] + SumFunctionOnSet(f, A)
      BY <2>1, SumOfMore
    <2>3. PICK a, b \in Nat : a = f[y] /\ b = SumFunctionOnSet(f, A)
      BY <1>2
    <2> QED BY <2>2, <2>3
  <1>3. S \in C
    <2> HIDE DEF C
    <2> QED BY <1>1, <1>2, FiniteInduction
  <1> QED BY <1>3

\* The sum of the first k numbers grows by the next one.
LEMMA SumOfFirst ==
    ASSUME NEW f, NEW m \in Nat, \A i \in 1..m : f[i] \in Nat
    PROVE  /\ SumFunctionOnSet(f, 1..0) = 0
           /\ \A k \in 0..m : SumFunctionOnSet(f, 1..k) \in Nat
           /\ \A k \in 1..m : SumFunctionOnSet(f, 1..k) = f[k] + SumFunctionOnSet(f, 1..(k - 1))
  <1>1. 1..0 = {}
    OBVIOUS
  <1>2. ASSUME NEW k \in 0..m PROVE SumFunctionOnSet(f, 1..k) \in Nat
    <2>1. IsFiniteSet(1..k) /\ \A i \in 1..k : f[i] \in Nat
      BY FS_Interval
    <2> QED BY <2>1, SumIsNatural
  <1>3. ASSUME NEW k \in 1..m PROVE SumFunctionOnSet(f, 1..k) = f[k] + SumFunctionOnSet(f, 1..(k - 1))
    <2>0. k \notin 1..(k - 1) /\ 1..k = (1..(k - 1)) \cup {k} /\ k - 1 \in Int /\ 1 \in Int
      OBVIOUS
    <2>1. IsFiniteSet(1..(k - 1))
      BY <2>0, FS_Interval
    <2>2. \A i \in (1..(k - 1)) \cup {k} : f[i] \in Int
      OBVIOUS
    <2>3. SumFunctionOnSet(f, (1..(k - 1)) \cup {k}) = f[k] + SumFunctionOnSet(f, 1..(k - 1))
      BY <2>0, <2>1, <2>2, SumOfMore
    <2> QED BY <2>0, <2>3
  <1> QED BY <1>1, <1>2, <1>3, SumOfNone

\* Numbers that are nothing add up to nothing.
LEMMA SumOfZeros ==
    ASSUME NEW f, NEW S, IsFiniteSet(S), \A x \in S : f[x] = 0
    PROVE  SumFunctionOnSet(f, S) = 0
  <1> DEFINE C == {A \in SUBSET S : SumFunctionOnSet(f, A) = 0}
  <1>1. {} \in C
    BY SumOfNone
  <1>2. ASSUME NEW A \in SUBSET S, A \in C, NEW y \in S \ A PROVE A \cup {y} \in C
    <2>1. IsFiniteSet(A) /\ \A w \in A \cup {y} : f[w] \in Int
      BY FS_Subset
    <2>2. SumFunctionOnSet(f, A \cup {y}) = f[y] + SumFunctionOnSet(f, A)
      BY <2>1, SumOfMore
    <2> QED BY <1>2, <2>2
  <1>3. S \in C
    <2> HIDE DEF C
    <2> QED BY <1>1, <1>2, FiniteInduction
  <1> QED BY <1>3

\* A set of naturals with a bound has a greatest one.
LEMMA GreatestNumber ==
    ASSUME NEW T \in SUBSET Nat, T # {}, NEW bound \in Nat, \A x \in T : x <= bound
    PROVE  \E x \in T : \A y \in T : x >= y
  <1> DEFINE U == {bound - x : x \in T}
  <1>1. U \in SUBSET Nat /\ U # {}
    <2>1. \A x \in T : bound - x \in Nat
      OBVIOUS
    <2> QED BY <2>1
  <1>2. PICK u \in U : \A w \in U : u <= w
    <2> HIDE DEF U
    <2> QED BY <1>1, LeastNumber
  <1>3. PICK x \in T : u = bound - x
    OBVIOUS
  <1>4. ASSUME NEW y \in T PROVE x >= y
    <2>1. bound - x <= bound - y
      BY <1>2, <1>3
    <2> QED BY <2>1
  <1> QED BY <1>4

\* Products and quotients of naturals, and quotients of ordered numbers.
LEMMA TimesNatural == ASSUME NEW x \in Nat, NEW y \in Nat PROVE x * y \in Nat /\ (x > 0 /\ y > 0 => x * y > 0)
  OBVIOUS
LEMMA DivNatural == ASSUME NEW x \in Nat, NEW d \in Nat \ {0} PROVE x \div d \in Nat
  OBVIOUS
LEMMA DivGrows == ASSUME NEW x \in Int, NEW y \in Int, x <= y, NEW d \in Nat \ {0} PROVE x \div d <= y \div d
  OBVIOUS
=============================================================================
