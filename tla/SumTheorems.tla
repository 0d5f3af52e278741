---------------------------- MODULE SumTheorems ----------------------------
(***************************************************************************)
(* The laws of sums over finite sets, which the provers know nothing of: a *)
(* sum is whole, does not depend on the order, and splits along any        *)
(* partition of what it runs over.                                         *)
(***************************************************************************)
EXTENDS Sums, FiniteSetTheorems, WellFoundedInduction, TLAPS

\* A family of subsets of a finite set is all of them when it has every set whose
\* proper subsets it has.
LEMMA AllSubsets ==
  ASSUME NEW S, IsFiniteSet(S), NEW P,
         \A A \in SUBSET S : (\A B \in SUBSET A : B # A => B \in P) => A \in P
  PROVE  \A A \in SUBSET S : A \in P
<1>1. SUFFICES ASSUME (SUBSET S) \ P # {} PROVE FALSE
  OBVIOUS
<1>2. FiniteSubsetsOf(S) = SUBSET S
  BY FS_FiniteSubsetsOfFinite
<1>3. IsWellFoundedOn(StrictSubsetOrdering(S), SUBSET S)
  BY <1>2, FS_StrictSubsetOrderingWellFounded
<1>4. PICK A \in (SUBSET S) \ P :
        \A B \in (SUBSET S) \ P : <<B, A>> \notin StrictSubsetOrdering(S)
  <2> DEFINE Bad == (SUBSET S) \ P
             R == StrictSubsetOrdering(S)
             All == SUBSET S
  <2>1. Bad \subseteq All /\ Bad # {} /\ IsWellFoundedOn(R, All)
    BY <1>1, <1>3
  <2> HIDE DEF Bad, R, All
  <2>2. \E A \in Bad : \A B \in Bad : ~(<<B, A>> \in R)
    BY <2>1, WFMin
  <2> QED
    BY <2>2 DEF Bad, R
<1>5. \A B \in SUBSET A : B # A => B \in P
  BY <1>4 DEF StrictSubsetOrdering
<1> QED
  BY <1>4, <1>5

\* In particular when it has the empty set, and any set of it with one more element.
LEMMA AllSubsetsByOne ==
  ASSUME NEW S, IsFiniteSet(S), NEW P, {} \in P,
         \A A \in SUBSET S : \A x \in S \ A : A \in P => A \cup {x} \in P
  PROVE  S \in P
<1>1. ASSUME NEW A \in SUBSET S, \A B \in SUBSET A : B # A => B \in P
      PROVE  A \in P
  <2>1. CASE A = {}
    BY <2>1
  <2>2. CASE A # {}
    <3>1. PICK x \in A : TRUE
      BY <2>2
    <3>2. A \ {x} \in P /\ (A \ {x}) \cup {x} = A
      BY <1>1, <3>1
    <3> QED
      BY <3>1, <3>2
  <2> QED
    BY <2>1, <2>2
<1>2. \A A \in SUBSET S : A \in P
  BY <1>1, AllSubsets, Zenon
<1> QED
  BY <1>2

-----------------------------------------------------------------------------
Any(s) == CHOOSE x \in s : TRUE

\* g is the sum of f over each set of T, taken one by one.
Adds(g, f, T) ==
  g = [s \in SUBSET T |-> IF s = {} THEN 0 ELSE f[Any(s)] + g[s \ {Any(s)}]]

\* The member that a sum takes next is one.
LEMMA AnyIsIn == ASSUME NEW s, s # {} PROVE Any(s) \in s
BY DEF Any

\* There is one such function, on the sets that two of them share.
LEMMA AddsOnce ==
  ASSUME NEW f, NEW S, IsFiniteSet(S), NEW T, NEW U, S \subseteq T, S \subseteq U,
         NEW g, Adds(g, f, T), NEW h, Adds(h, f, U)
  PROVE  g[S] = h[S]
<1> DEFINE P == {A \in SUBSET S : g[A] = h[A]}
<1>1. ASSUME NEW A \in SUBSET S, \A B \in SUBSET A : B # A => B \in P
      PROVE  A \in P
  <2>0. A \in SUBSET T /\ A \in SUBSET U
    OBVIOUS
  <2>1. g[A] = IF A = {} THEN 0 ELSE f[Any(A)] + g[A \ {Any(A)}]
    BY <2>0 DEF Adds
  <2>2. h[A] = IF A = {} THEN 0 ELSE f[Any(A)] + h[A \ {Any(A)}]
    BY <2>0 DEF Adds
  <2>3. A # {} => A \ {Any(A)} \in P
    BY <1>1, AnyIsIn
  <2> QED
    BY <2>1, <2>2, <2>3
<1> HIDE DEF P
<1>2. \A A \in SUBSET S : A \in P
  BY <1>1, AllSubsets, Zenon
<1> QED
  BY <1>2 DEF P

\* There is such a function.
LEMMA AddsExists ==
  ASSUME NEW f, NEW S, IsFiniteSet(S) PROVE \E g : Adds(g, f, S)
<1> DEFINE P == {A \in SUBSET S : \E g : Adds(g, f, A)}
           G(A) == CHOOSE g : Adds(g, f, A)
<1>1. ASSUME NEW A \in SUBSET S, \A B \in SUBSET A : B # A => B \in P
      PROVE  \E g : Adds(g, f, A)
  <2> DEFINE h == [s \in SUBSET A |->
                     IF s = {} THEN 0 ELSE f[Any(s)] + G(s \ {Any(s)})[s \ {Any(s)}]]
  <2>1. ASSUME NEW s \in SUBSET A, s # {}
        PROVE  h[s \ {Any(s)}] = G(s \ {Any(s)})[s \ {Any(s)}]
    <3> DEFINE B == s \ {Any(s)}
               C == B \ {Any(B)}
    <3>1. B \in SUBSET A /\ B # A
      BY <2>1, AnyIsIn
    <3>2. Adds(G(B), f, B)
      BY <1>1, <3>1
    <3> HIDE DEF G
    <3>3. CASE B = {}
      BY <3>1, <3>2, <3>3 DEF Adds
    <3>4. CASE B # {}
      <4>1. C \in SUBSET B /\ C # B /\ C \in SUBSET A /\ C # A
        BY <3>1, <3>4, AnyIsIn
      <4>2. Adds(G(C), f, C)
        BY <1>1, <4>1 DEF G
      <4>3. IsFiniteSet(C)
        BY <4>1, FS_Subset
      <4>4. G(B)[C] = G(C)[C]
        BY <3>2, <4>1, <4>2, <4>3, AddsOnce
      <4>5. G(B)[B] = f[Any(B)] + G(B)[C]
        BY <3>2, <3>4 DEF Adds
      <4>6. h[B] = f[Any(B)] + G(C)[C]
        BY <3>1, <3>4
      <4> HIDE DEF h, B, C
      <4>7. h[B] = G(B)[B]
        BY <4>4, <4>5, <4>6
      <4> QED
        BY <4>7 DEF B
    <3> QED
      BY <3>3, <3>4
  <2>2. Adds(h, f, A)
    <3> HIDE DEF G
    <3> DEFINE k == [s \in SUBSET A |-> IF s = {} THEN 0 ELSE f[Any(s)] + h[s \ {Any(s)}]]
    <3>1. ASSUME NEW s \in SUBSET A PROVE h[s] = k[s]
      BY <2>1
    <3>2. h = k
      BY <3>1
    <3> HIDE DEF h
    <3> QED
      BY <3>2 DEF Adds
  <2> QED
    BY <2>2
<1>2. ASSUME NEW A \in SUBSET S, \A B \in SUBSET A : B # A => B \in P
      PROVE  A \in P
  BY <1>1, <1>2
<1> HIDE DEF P
<1>3. \A A \in SUBSET S : A \in P
  BY <1>2, AllSubsets, Zenon
<1> QED
  BY <1>3 DEF P

\* How a sum begins.
LEMMA SumUnfolds ==
  ASSUME NEW f, NEW S, IsFiniteSet(S)
  PROVE  Sum(f, S) = IF S = {} THEN 0 ELSE f[Any(S)] + Sum(f, S \ {Any(S)})
<1> DEFINE G(A) == CHOOSE g : Adds(g, f, A)
<1>1. ASSUME NEW A PROVE Sum(f, A) = G(A)[A]
  BY DEF Sum, SetsExt!MapThenSumSet, SetsExt!MapThenFoldSet, Adds, Any
<1>2. ASSUME NEW A, IsFiniteSet(A) PROVE Adds(G(A), f, A)
  BY <1>2, AddsExists
<1> HIDE DEF G
<1> DEFINE T == S \ {Any(S)}
<1>3. IsFiniteSet(T)
  BY FS_Subset
<1>4. G(S)[T] = G(T)[T]
  BY <1>2, <1>3, AddsOnce
<1>5. G(S)[S] = IF S = {} THEN 0 ELSE f[Any(S)] + G(S)[T]
  BY <1>2 DEF Adds
<1>6. Sum(f, S) = G(S)[S] /\ Sum(f, T) = G(T)[T]
  BY <1>1
<1> HIDE DEF T
<1>7. Sum(f, S) = IF S = {} THEN 0 ELSE f[Any(S)] + Sum(f, T)
  BY <1>4, <1>5, <1>6
<1> QED
  BY <1>7 DEF T

\* The empty sum.
LEMMA SumOfNone == ASSUME NEW f PROVE Sum(f, {}) = 0
BY SumUnfolds, FS_EmptySet

\* A sum of whole numbers is one.
LEMMA SumIsWhole ==
  ASSUME NEW S, IsFiniteSet(S), NEW f, \A x \in S : f[x] \in Int
  PROVE  Sum(f, S) \in Int
<1> DEFINE P == {A \in SUBSET S : Sum(f, A) \in Int}
<1>1. ASSUME NEW A \in SUBSET S, \A B \in SUBSET A : B # A => B \in P
      PROVE  A \in P
  <2>1. IsFiniteSet(A)
    BY FS_Subset
  <2>2. CASE A = {}
    BY <2>2, SumOfNone
  <2>3. CASE A # {}
    <3>1. A \ {Any(A)} \in P /\ f[Any(A)] \in Int
      BY <1>1, <2>3, AnyIsIn
    <3>2. Sum(f, A) = f[Any(A)] + Sum(f, A \ {Any(A)})
      BY <2>1, <2>3, SumUnfolds
    <3> QED
      BY <3>1, <3>2
  <2> QED
    BY <2>2, <2>3
<1> HIDE DEF P
<1>2. \A A \in SUBSET S : A \in P
  BY <1>1, AllSubsets, Zenon
<1> QED
  BY <1>2 DEF P

\* The sum may begin with any element.
LEMMA SumWithout ==
  ASSUME NEW S, IsFiniteSet(S), NEW f, \A x \in S : f[x] \in Int, NEW x \in S
  PROVE  Sum(f, S) = f[x] + Sum(f, S \ {x})
<1> DEFINE P == {A \in SUBSET S : \A y \in A : Sum(f, A) = f[y] + Sum(f, A \ {y})}
<1>0. ASSUME NEW A \in SUBSET S PROVE IsFiniteSet(A) /\ Sum(f, A) \in Int
  BY FS_Subset, SumIsWhole
<1>1. ASSUME NEW A \in SUBSET S, \A B \in SUBSET A : B # A => B \in P
      PROVE  A \in P
  <2> SUFFICES ASSUME NEW y \in A PROVE Sum(f, A) = f[y] + Sum(f, A \ {y})
    OBVIOUS
  <2> DEFINE z == Any(A)
             C == (A \ {z}) \ {y}
  <2>1. z \in A
    BY AnyIsIn
  <2> HIDE DEF z
  <2>2. Sum(f, A) = f[z] + Sum(f, A \ {z})
    BY <1>0, SumUnfolds DEF z
  <2>3. CASE y = z
    BY <2>2, <2>3
  <2>4. CASE y # z
    <3>1. A \ {z} \in P /\ A \ {y} \in P
      BY <1>1, <2>1
    <3>2. y \in A \ {z} /\ z \in A \ {y} /\ (A \ {y}) \ {z} = C
      BY <2>1, <2>4
    <3>3. Sum(f, A \ {z}) = f[y] + Sum(f, C)
      BY <3>1, <3>2
    <3>4. Sum(f, A \ {y}) = f[z] + Sum(f, C)
      BY <3>1, <3>2
    <3>5. Sum(f, C) \in Int /\ f[y] \in Int /\ f[z] \in Int
      BY <1>0, <2>1
    <3> HIDE DEF C
    <3> QED
      BY <2>2, <3>3, <3>4, <3>5
  <2> QED
    BY <2>3, <2>4
<1> HIDE DEF P
<1>2. \A A \in SUBSET S : A \in P
  BY <1>1, AllSubsets, Zenon
<1> QED
  BY <1>2 DEF P

\* One more term.
LEMMA SumWith ==
  ASSUME NEW S, IsFiniteSet(S), NEW f, NEW x, x \notin S, f[x] \in Int, \A y \in S : f[y] \in Int
  PROVE  Sum(f, S \cup {x}) = f[x] + Sum(f, S)
<1>1. IsFiniteSet(S \cup {x}) /\ (S \cup {x}) \ {x} = S /\ x \in S \cup {x}
  BY FS_AddElement
<1>2. \A y \in S \cup {x} : f[y] \in Int
  OBVIOUS
<1> QED
  BY <1>1, <1>2, SumWithout

\* A sum splits in two.
LEMMA SumOfTwo ==
  ASSUME NEW S, IsFiniteSet(S), NEW T, IsFiniteSet(T), S \cap T = {},
         NEW f, \A x \in S \cup T : f[x] \in Int
  PROVE  Sum(f, S \cup T) = Sum(f, S) + Sum(f, T)
<1> DEFINE P == {A \in SUBSET S : Sum(f, A \cup T) = Sum(f, A) + Sum(f, T)}
<1>1. Sum(f, T) \in Int
  BY SumIsWhole
<1>2. {} \in P
  BY <1>1, SumOfNone
<1>3. ASSUME NEW A \in SUBSET S, NEW x \in S \ A, A \in P PROVE A \cup {x} \in P
  <2>1. IsFiniteSet(A) /\ IsFiniteSet(A \cup T)
    BY FS_Subset, FS_Union
  <2>2. x \notin A \cup T /\ (A \cup {x}) \cup T = (A \cup T) \cup {x}
    BY <1>3
  <2>3. f[x] \in Int /\ Sum(f, A) \in Int
    BY <2>1, SumIsWhole
  <2>4. Sum(f, (A \cup T) \cup {x}) = f[x] + Sum(f, A \cup T)
    BY <2>1, <2>2, SumWith
  <2>5. Sum(f, A \cup {x}) = f[x] + Sum(f, A)
    BY <2>1, <2>2, SumWith
  <2>6. Sum(f, A \cup T) = Sum(f, A) + Sum(f, T)
    BY <1>3
  <2>7. Sum(f, (A \cup {x}) \cup T) = f[x] + Sum(f, A \cup T)
    BY <2>2, <2>4, Zenon
  <2>8. f[x] + (Sum(f, A) + Sum(f, T)) = (f[x] + Sum(f, A)) + Sum(f, T)
    BY <1>1, <2>3
  <2>9. Sum(f, (A \cup {x}) \cup T) = Sum(f, A \cup {x}) + Sum(f, T)
    BY <2>5, <2>6, <2>7, <2>8, Zenon
  <2> QED
    BY <2>9
<1> HIDE DEF P
<1>4. S \in P
  BY <1>2, <1>3, AllSubsetsByOne, Zenon
<1> QED
  BY <1>4 DEF P

\* Only the values that it adds matter.
LEMMA SumOfEqual ==
  ASSUME NEW S, IsFiniteSet(S), NEW f, NEW g, \A x \in S : f[x] = g[x]
  PROVE  Sum(f, S) = Sum(g, S)
<1> DEFINE P == {A \in SUBSET S : Sum(f, A) = Sum(g, A)}
<1>1. ASSUME NEW A \in SUBSET S, \A B \in SUBSET A : B # A => B \in P
      PROVE  A \in P
  <2>1. IsFiniteSet(A)
    BY FS_Subset
  <2>2. CASE A = {}
    BY <2>2, SumOfNone
  <2>3. CASE A # {}
    <3>1. A \ {Any(A)} \in P /\ f[Any(A)] = g[Any(A)]
      BY <1>1, <2>3, AnyIsIn
    <3>2. /\ Sum(f, A) = f[Any(A)] + Sum(f, A \ {Any(A)})
          /\ Sum(g, A) = g[Any(A)] + Sum(g, A \ {Any(A)})
      BY <2>1, <2>3, SumUnfolds
    <3> QED
      BY <3>1, <3>2
  <2> QED
    BY <2>2, <2>3
<1> HIDE DEF P
<1>2. \A A \in SUBSET S : A \in P
  BY <1>1, AllSubsets, Zenon
<1> QED
  BY <1>2 DEF P

\* A finite set has no more images than members.
LEMMA ImageIsFinite ==
  ASSUME NEW S, IsFiniteSet(S), NEW T, NEW f,
         \A x \in S : f[x] \in T, \A y \in T : \E x \in S : f[x] = y
  PROVE  IsFiniteSet(T) /\ Cardinality(T) <= Cardinality(S)
<1> DEFINE g == [x \in S |-> f[x]]
<1>1. g \in Surjection(S, T)
  BY DEF Surjection
<1> QED
  BY <1>1, FS_Surjection

\* Sums of sums, and of one set along a partition of it: K are the parts' names, and
\* part gives the name of each element's.
LEMMA SumAdds ==
  ASSUME NEW S, IsFiniteSet(S), NEW f, NEW g, NEW h,
         \A x \in S : f[x] \in Int /\ g[x] \in Int /\ h[x] = f[x] + g[x]
  PROVE  Sum(h, S) = Sum(f, S) + Sum(g, S)
<1> DEFINE P == {A \in SUBSET S : Sum(h, A) = Sum(f, A) + Sum(g, A)}
<1>1. {} \in P
  BY SumOfNone
<1>2. ASSUME NEW A \in SUBSET S, NEW x \in S \ A, A \in P PROVE A \cup {x} \in P
  <2>1. IsFiniteSet(A) /\ x \notin A
    BY FS_Subset
  <2>2. \A y \in A \cup {x} : f[y] \in Int /\ g[y] \in Int /\ h[y] \in Int
    OBVIOUS
  <2>3. Sum(f, A) \in Int /\ Sum(g, A) \in Int
    BY <2>1, <2>2, SumIsWhole
  <2>4. Sum(f, A \cup {x}) = f[x] + Sum(f, A)
    BY <2>1, <2>2, SumWith
  <2>5. Sum(g, A \cup {x}) = g[x] + Sum(g, A)
    BY <2>1, <2>2, SumWith
  <2>6. Sum(h, A \cup {x}) = h[x] + Sum(h, A)
    BY <2>1, <2>2, SumWith
  <2>7. Sum(h, A) = Sum(f, A) + Sum(g, A) /\ h[x] = f[x] + g[x] /\ f[x] \in Int /\ g[x] \in Int
    BY <1>2
  <2>8. Sum(h, A \cup {x}) = Sum(f, A \cup {x}) + Sum(g, A \cup {x})
    BY <2>3, <2>4, <2>5, <2>6, <2>7
  <2> QED
    BY <2>8
<1> HIDE DEF P
<1>3. S \in P
  BY <1>1, <1>2, AllSubsetsByOne, Zenon
<1> QED
  BY <1>3 DEF P

\* Greater terms have a greater sum.
LEMMA SumIsMonotone ==
  ASSUME NEW S, IsFiniteSet(S), NEW f, NEW g,
         \A x \in S : f[x] \in Int /\ g[x] \in Int /\ f[x] <= g[x]
  PROVE  Sum(f, S) <= Sum(g, S)
<1> DEFINE P == {A \in SUBSET S : Sum(f, A) <= Sum(g, A)}
<1>1. {} \in P
  BY SumOfNone
<1>2. ASSUME NEW A \in SUBSET S, NEW x \in S \ A, A \in P PROVE A \cup {x} \in P
  <2>1. IsFiniteSet(A) /\ x \notin A
    BY FS_Subset
  <2>2. \A y \in A \cup {x} : f[y] \in Int /\ g[y] \in Int
    OBVIOUS
  <2>3. Sum(f, A) \in Int /\ Sum(g, A) \in Int
    BY <2>1, <2>2, SumIsWhole
  <2>4. Sum(f, A \cup {x}) = f[x] + Sum(f, A)
    BY <2>1, <2>2, SumWith
  <2>5. Sum(g, A \cup {x}) = g[x] + Sum(g, A)
    BY <2>1, <2>2, SumWith
  <2>6. Sum(f, A) <= Sum(g, A) /\ f[x] <= g[x] /\ f[x] \in Int /\ g[x] \in Int
    BY <1>2
  <2>7. Sum(f, A \cup {x}) <= Sum(g, A \cup {x})
    BY <2>3, <2>4, <2>5, <2>6
  <2> QED
    BY <2>7
<1> HIDE DEF P
<1>3. S \in P
  BY <1>1, <1>2, AllSubsetsByOne, Zenon
<1> QED
  BY <1>3 DEF P

\* A sum of equal terms.
LEMMA SumOfConstant ==
  ASSUME NEW S, IsFiniteSet(S), NEW f, NEW n \in Int, \A x \in S : f[x] = n
  PROVE  Sum(f, S) = n * Cardinality(S)
<1> DEFINE P == {A \in SUBSET S : Sum(f, A) = n * Cardinality(A)}
<1>1. {} \in P
  BY SumOfNone, FS_EmptySet
<1>2. ASSUME NEW A \in SUBSET S, NEW x \in S \ A, A \in P PROVE A \cup {x} \in P
  <2>1. IsFiniteSet(A) /\ x \notin A
    BY FS_Subset
  <2>2. Cardinality(A) \in Nat /\ Cardinality(A \cup {x}) = Cardinality(A) + 1
    BY <2>1, FS_AddElement, FS_CardinalityType
  <2>3. Sum(f, A \cup {x}) = f[x] + Sum(f, A)
    BY <2>1, SumWith
  <2>4. f[x] = n /\ Sum(f, A) = n * Cardinality(A)
    BY <1>2
  <2>5. \A k \in Nat : n + n * k = n * (k + 1)
    OBVIOUS
  <2>6. Sum(f, A \cup {x}) = n * Cardinality(A \cup {x})
    BY <2>2, <2>3, <2>4, <2>5, Zenon
  <2> QED
    BY <2>6
<1> HIDE DEF P
<1>3. S \in P
  BY <1>1, <1>2, AllSubsetsByOne, Zenon
<1> QED
  BY <1>3 DEF P

\* A common factor.
LEMMA SumScales ==
  ASSUME NEW S, IsFiniteSet(S), NEW n \in Int, NEW f, NEW g,
         \A x \in S : f[x] \in Int /\ g[x] = n * f[x]
  PROVE  Sum(g, S) = n * Sum(f, S)
<1> DEFINE P == {A \in SUBSET S : Sum(g, A) = n * Sum(f, A)}
<1>1. {} \in P
  BY SumOfNone
<1>2. ASSUME NEW A \in SUBSET S, NEW x \in S \ A, A \in P PROVE A \cup {x} \in P
  <2>1. IsFiniteSet(A) /\ x \notin A
    BY FS_Subset
  <2>2. \A y \in A \cup {x} : f[y] \in Int /\ g[y] \in Int
    OBVIOUS
  <2>3. Sum(f, A) \in Int
    BY <2>1, <2>2, SumIsWhole
  <2>4. /\ Sum(f, A \cup {x}) = f[x] + Sum(f, A)
        /\ Sum(g, A \cup {x}) = g[x] + Sum(g, A)
    BY <2>1, <2>2, SumWith
  <2>5. g[x] = n * f[x] /\ Sum(g, A) = n * Sum(f, A) /\ f[x] \in Int
    BY <1>2
  <2>6. \A a, b \in Int : n * a + n * b = n * (a + b)
    OBVIOUS
  <2>7. Sum(g, A \cup {x}) = n * Sum(f, A \cup {x})
    BY <2>3, <2>4, <2>5, <2>6, Zenon
  <2> QED
    BY <2>7
<1> HIDE DEF P
<1>3. S \in P
  BY <1>1, <1>2, AllSubsetsByOne, Zenon
<1> QED
  BY <1>3 DEF P

\* A sum of natural numbers is one.
LEMMA SumIsNatural ==
  ASSUME NEW S, IsFiniteSet(S), NEW f, \A x \in S : f[x] \in Nat
  PROVE  Sum(f, S) \in Nat
<1> DEFINE z == [x \in S |-> 0]
<1>1. \A x \in S : f[x] \in Int /\ z[x] \in Int /\ z[x] <= f[x] /\ z[x] = 0
  OBVIOUS
<1> HIDE DEF z
<1>2. Sum(z, S) = 0 * Cardinality(S)
  BY <1>1, SumOfConstant
<1>3. Sum(z, S) <= Sum(f, S) /\ Sum(f, S) \in Int
  BY <1>1, SumIsMonotone, SumIsWhole
<1>4. Cardinality(S) \in Nat
  BY FS_CardinalityType
<1> QED
  BY <1>2, <1>3, <1>4

\* A sum splits along a partition.
LEMMA SumOfParts ==
  ASSUME NEW S, IsFiniteSet(S), NEW f, \A x \in S : f[x] \in Int,
         NEW K, IsFiniteSet(K), NEW part, NEW g,
         \A k \in K : part[k] \subseteq S /\ g[k] = Sum(f, part[k]),
         \A k, l \in K : k # l => part[k] \cap part[l] = {},
         \A x \in S : \E k \in K : x \in part[k]
  PROVE  Sum(g, K) = Sum(f, S)
<1> DEFINE In(A) == {x \in S : \E k \in A : x \in part[k]}
           P == {A \in SUBSET K : Sum(g, A) = Sum(f, In(A))}
<1>0. ASSUME NEW T \in SUBSET S PROVE IsFiniteSet(T) /\ Sum(f, T) \in Int
  BY FS_Subset, SumIsWhole
<1>1. {} \in P
  <2>1. In({}) = {}
    OBVIOUS
  <2> QED
    BY <2>1, SumOfNone
<1>2. ASSUME NEW A \in SUBSET K, NEW k \in K \ A, A \in P PROVE A \cup {k} \in P
  <2>1. IsFiniteSet(A) /\ k \notin A
    BY FS_Subset
  <2>2. In(A) \in SUBSET S /\ In(A \cup {k}) = part[k] \cup In(A) /\ part[k] \cap In(A) = {}
    BY <2>1
  <2>3. Sum(g, A) = Sum(f, In(A))
    BY <1>2
  <2>4. part[k] \in SUBSET S /\ g[k] = Sum(f, part[k])
    OBVIOUS
  <2>5. \A j \in A \cup {k} : g[j] \in Int
    BY <1>0
  <2>6. Sum(g, A \cup {k}) = g[k] + Sum(g, A)
    BY <2>1, <2>5, SumWith
  <2> HIDE DEF In
  <2>7. Sum(f, part[k] \cup In(A)) = Sum(f, part[k]) + Sum(f, In(A))
    BY <1>0, <2>2, <2>4, SumOfTwo
  <2>8. Sum(g, A \cup {k}) = Sum(f, In(A \cup {k}))
    BY <2>2, <2>3, <2>4, <2>6, <2>7, Zenon
  <2> QED
    BY <2>8
<1>3. K \in P
  <2> HIDE DEF P
  <2> QED
    BY <1>1, <1>2, AllSubsetsByOne, Zenon
<1>4. In(K) = S
  OBVIOUS
<1> QED
  BY <1>3, <1>4

\* Counting is adding ones.
LEMMA CountOfParts ==
  ASSUME NEW S, IsFiniteSet(S), NEW K, IsFiniteSet(K), NEW part, NEW g,
         \A k \in K : part[k] \subseteq S /\ g[k] = Cardinality(part[k]),
         \A k, l \in K : k # l => part[k] \cap part[l] = {},
         \A x \in S : \E k \in K : x \in part[k]
  PROVE  Sum(g, K) = Cardinality(S)
<1> DEFINE f == [x \in S |-> 1]
<1>1. ASSUME NEW T \in SUBSET S PROVE Sum(f, T) = Cardinality(T)
  <2>1. IsFiniteSet(T) /\ \A x \in T : f[x] = 1
    BY FS_Subset
  <2> HIDE DEF f
  <2>2. Sum(f, T) = 1 * Cardinality(T) /\ Cardinality(T) \in Nat
    BY <2>1, SumOfConstant, FS_CardinalityType
  <2> QED
    BY <2>2
<1>2. \A x \in S : f[x] \in Int
  OBVIOUS
<1> HIDE DEF f
<1>3. \A k \in K : part[k] \subseteq S /\ g[k] = Sum(f, part[k])
  BY <1>1
<1>4. Sum(g, K) = Sum(f, S)
  BY <1>2, <1>3, SumOfParts
<1> QED
  BY <1>1, <1>4

\* A sum that is no greater has a term that is none.
LEMMA SomeTermIsLess ==
  ASSUME NEW S, IsFiniteSet(S), S # {}, NEW f, NEW g,
         \A x \in S : f[x] \in Int /\ g[x] \in Int, Sum(f, S) <= Sum(g, S)
  PROVE  \E x \in S : f[x] <= g[x]
<1> SUFFICES ASSUME \A x \in S : g[x] + 1 <= f[x] PROVE FALSE
  OBVIOUS
<1> DEFINE one == [x \in S |-> 1]
           h == [x \in S |-> g[x] + one[x]]
<1>1. \A x \in S : one[x] = 1 /\ h[x] = g[x] + one[x] /\ h[x] \in Int /\ h[x] <= f[x]
  OBVIOUS
<1> HIDE DEF one, h
<1>2. Sum(one, S) = 1 * Cardinality(S)
  BY <1>1, SumOfConstant
<1>3. Sum(h, S) = Sum(g, S) + Sum(one, S)
  BY <1>1, SumAdds
<1>4. Sum(h, S) <= Sum(f, S)
  BY <1>1, SumIsMonotone
<1>5. Cardinality(S) \in Nat /\ Cardinality(S) # 0
  BY FS_CardinalityType, FS_EmptySet
<1>6. Sum(f, S) \in Int /\ Sum(g, S) \in Int
  BY SumIsWhole
<1> QED
  BY <1>2, <1>3, <1>4, <1>5, <1>6

\* A finite set of whole numbers has a greatest one.
LEMMA GreatestExists ==
  ASSUME NEW S, IsFiniteSet(S), S \subseteq Int, S # {}
  PROVE  SetsExt!Max(S) \in S /\ \A y \in S : y <= SetsExt!Max(S)
<1> DEFINE P == {A \in SUBSET S : A = {} \/ \E x \in A : \A y \in A : y <= x}
<1>1. {} \in P
  OBVIOUS
<1>2. ASSUME NEW A \in SUBSET S, NEW x \in S \ A, A \in P PROVE A \cup {x} \in P
  <2>1. CASE A = {}
    BY <2>1
  <2>2. ASSUME NEW z \in A, \A y \in A : y <= z PROVE A \cup {x} \in P
    <3>1. x \in Int /\ z \in Int /\ A \subseteq Int
      OBVIOUS
    <3>2. CASE x <= z
      BY <2>2, <3>1, <3>2
    <3>3. CASE z <= x
      <4>1. \A y \in A \cup {x} : y <= x
        BY <2>2, <3>1, <3>3
      <4> QED
        BY <4>1
    <3> QED
      BY <3>1, <3>2, <3>3
  <2> QED
    BY <1>2, <2>1, <2>2
<1>3. S \in P
  <2> HIDE DEF P
  <2> QED
    BY <1>1, <1>2, AllSubsetsByOne, Zenon
<1>4. \E x \in S : \A y \in S : x >= y
  BY <1>3
<1> QED
  BY <1>4 DEF SetsExt!Max

\* A sum over a set is one over a set of the same things by other names.
LEMMA SumOfImage ==
  ASSUME NEW S, IsFiniteSet(S), NEW T, NEW image \in Bijection(S, T), NEW f, NEW g,
         \A x \in S : g[image[x]] = f[x] /\ f[x] \in Int
  PROVE  IsFiniteSet(T) /\ Cardinality(T) = Cardinality(S) /\ Sum(g, T) = Sum(f, S)
<1>0. /\ \A x \in S : image[x] \in T
      /\ \A x, y \in S : x # y => image[x] # image[y]
      /\ \A z \in T : \E x \in S : image[x] = z
  BY DEF Bijection, Injection, IsInjective, Surjection
<1> DEFINE part == [x \in S |-> {image[x]}]
<1>1. IsFiniteSet(T) /\ Cardinality(T) = Cardinality(S)
  BY FS_Bijection DEF ExistsBijection
<1>2. /\ \A x \in S : part[x] \subseteq T /\ part[x] = {image[x]}
      /\ \A x, y \in S : x # y => part[x] \cap part[y] = {}
      /\ \A z \in T : \E x \in S : z \in part[x]
  BY <1>0
<1>3. \A z \in T : g[z] \in Int
  BY <1>0
<1>4. \A x \in S : f[x] = Sum(g, part[x])
  <2> SUFFICES ASSUME NEW x \in S PROVE f[x] = Sum(g, part[x])
    OBVIOUS
  <2> DEFINE z == image[x]
  <2>1. IsFiniteSet({z})
    BY FS_Singleton
  <2>2. {z} \ {z} = {} /\ z \in {z} /\ g[z] = f[x] /\ g[z] \in Int
    BY <1>0
  <2>3. Sum(g, {z}) = g[z] + Sum(g, {z} \ {z})
    <3> HIDE DEF z
    <3> QED
      BY <2>1, <2>2, SumWithout
  <2>4. Sum(g, {z} \ {z}) = 0
    BY <2>2, SumOfNone
  <2> QED
    BY <2>2, <2>3, <2>4
<1> HIDE DEF part
<1>5. Sum(f, S) = Sum(g, T)
  BY <1>1, <1>2, <1>3, <1>4, SumOfParts
<1> QED
  BY <1>1, <1>5

\* Of what is not negative, a part sums up to no more than the whole.
LEMMA SumOfSubset ==
  ASSUME NEW S, IsFiniteSet(S), NEW T \in SUBSET S, NEW f, \A x \in S : f[x] \in Nat
  PROVE  Sum(f, T) <= Sum(f, S)
<1>1. IsFiniteSet(T) /\ IsFiniteSet(S \ T) /\ T \cap (S \ T) = {} /\ T \cup (S \ T) = S
  BY FS_Subset
<1>2. \A x \in T \cup (S \ T) : f[x] \in Int
  OBVIOUS
<1>3. Sum(f, T \cup (S \ T)) = Sum(f, T) + Sum(f, S \ T)
  BY <1>1, <1>2, SumOfTwo
<1>4. Sum(f, T) \in Int /\ Sum(f, S \ T) \in Nat
  BY <1>1, SumIsWhole, SumIsNatural
<1>5. Sum(f, T \cup (S \ T)) = Sum(f, S)
  BY <1>1, Zenon
<1> QED
  BY <1>3, <1>4, <1>5
=============================================================================
