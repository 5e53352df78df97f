--------------------------------- MODULE Sums ---------------------------------
(***************************************************************************)
(* Sums over a finite set, as the modules write them with MapThenSumSet:    *)
(* one more element, natural values, order, addition and multiples.  The    *)
(* induction is over a set of good subsets, not over a predicate.           *)
(***************************************************************************)
EXTENDS Integers, FiniteSets, FiniteSetsExt, FiniteSetTheorems, TLAPS

SumOver(f, S) == MapThenSumSet(LAMBDA s : f[s], S)

\* Among the bad subsets of a finite set there is one without a smaller one.
LEMMA MinimalSet ==
  ASSUME NEW S, IsFiniteSet(S), NEW Bad \in SUBSET SUBSET S, Bad # {}
  PROVE  \E T \in Bad : \A U \in SUBSET T : U # T => U \notin Bad
<1>1. IsWellFoundedOn(StrictSubsetOrdering(S), SUBSET S)
  BY FS_StrictSubsetOrderingWellFounded, FS_FiniteSubsetsOfFinite
<1>2. \E T \in Bad : \A U \in Bad : ~(<<U, T>> \in StrictSubsetOrdering(S))
  BY <1>1, WFMin
<1> QED
  BY <1>2 DEF StrictSubsetOrdering

\* What holds of the empty set and is kept by adding an element holds of S.
LEMMA SetInduction ==
  ASSUME NEW S, IsFiniteSet(S), NEW Good, {} \in Good,
         \A T \in SUBSET S : \A x \in S \ T : T \in Good => T \cup {x} \in Good
  PROVE  S \in Good
<1> SUFFICES ASSUME S \notin Good PROVE FALSE
  OBVIOUS
<1> DEFINE Bad == {T \in SUBSET S : T \notin Good}
<1>1. Bad # {} /\ Bad \in SUBSET SUBSET S
  OBVIOUS
<1>2. PICK T \in Bad : \A U \in SUBSET T : U # T => U \notin Bad
  <2> HIDE DEF Bad
  <2> QED
    BY <1>1, MinimalSet
<1>3. PICK x \in T : TRUE
  BY <1>2
<1>4. T \ {x} \in Good /\ T \ {x} \in SUBSET S /\ x \in S \ (T \ {x})
  BY <1>2, <1>3
<1>5. T = (T \ {x}) \cup {x}
  BY <1>3
<1> QED
  BY <1>2, <1>4, <1>5

-------------------------------------------------------------------------------
(* The recursive function behind the sum *)

Pick(T) == CHOOSE x \in T : TRUE

Solves(g, f, S) ==
  g = [s \in SUBSET S |-> IF s = {} THEN 0 ELSE f[Pick(s)] + g[s \ {Pick(s)}]]

\* Some element, and what remains without it.
LEMMA Picked ==
  ASSUME NEW T, T # {}
  PROVE  Pick(T) \in T /\ T \ {Pick(T)} \in SUBSET T /\ T \ {Pick(T)} # T
BY DEF Pick

\* Two functions that solve the recursion of the sum agree where both are defined.
LEMMA SolutionsAgree ==
  ASSUME NEW f, NEW S, IsFiniteSet(S), NEW U \in SUBSET S, NEW V \in SUBSET S,
         NEW g, NEW h, Solves(g, f, U), Solves(h, f, V)
  PROVE  \A W \in SUBSET (U \cap V) : g[W] = h[W]
<1> DEFINE Bad == {W \in SUBSET (U \cap V) : g[W] # h[W]}
<1> SUFFICES ASSUME Bad # {} PROVE FALSE
  OBVIOUS
<1>1. PICK W \in Bad : \A X \in SUBSET W : X # W => X \notin Bad
  <2>1. Bad \in SUBSET SUBSET S
    OBVIOUS
  <2> HIDE DEF Bad
  <2> QED
    BY <2>1, MinimalSet
<1>2. W \in SUBSET U /\ W \in SUBSET V
  OBVIOUS
<1>3. /\ g[W] = IF W = {} THEN 0 ELSE f[Pick(W)] + g[W \ {Pick(W)}]
      /\ h[W] = IF W = {} THEN 0 ELSE f[Pick(W)] + h[W \ {Pick(W)}]
  BY <1>2 DEF Solves
<1>4. W # {} => g[W \ {Pick(W)}] = h[W \ {Pick(W)}]
  BY <1>1, Picked
<1> QED
  BY <1>1, <1>3, <1>4

Solution(f, S) == CHOOSE g : Solves(g, f, S)

\* The recursion of the sum has a solution on every finite set.
LEMMA SolutionExists ==
  ASSUME NEW f, NEW S, IsFiniteSet(S)
  PROVE  Solves(Solution(f, S), f, S)
<1> DEFINE Bad == {T \in SUBSET S : ~\E g : Solves(g, f, T)}
<1> SUFFICES Bad = {}
  BY DEF Solution
<1> SUFFICES ASSUME Bad # {} PROVE FALSE
  OBVIOUS
<1>1. PICK T \in Bad : \A U \in SUBSET T : U # T => U \notin Bad
  <2>1. Bad \in SUBSET SUBSET S
    OBVIOUS
  <2> HIDE DEF Bad
  <2> QED
    BY <2>1, MinimalSet
<1>2. \A U \in SUBSET T : U # T => Solves(Solution(f, U), f, U)
  BY <1>1 DEF Solution
<1> DEFINE at(U) == Solution(f, U)[U]
           g == [s \in SUBSET T |-> IF s = {} THEN 0 ELSE f[Pick(s)] + at(s \ {Pick(s)})]
<1>3. ASSUME NEW r \in SUBSET T, r # T PROVE g[r] = at(r)
  <2>1. Solves(Solution(f, r), f, r)
    BY <1>2, <1>3
  <2>2. at(r) = IF r = {} THEN 0 ELSE f[Pick(r)] + Solution(f, r)[r \ {Pick(r)}]
    BY <2>1 DEF Solves
  <2>3. ASSUME r # {} PROVE Solution(f, r)[r \ {Pick(r)}] = at(r \ {Pick(r)})
    <3> DEFINE q == r \ {Pick(r)}
    <3>1. q \in SUBSET r /\ q \in SUBSET T /\ q # T /\ q \in SUBSET S /\ r \in SUBSET S
      BY <1>3, <2>3, Picked
    <3>2. Solves(Solution(f, q), f, q)
      BY <1>2, <3>1
    <3>3. q \in SUBSET (r \cap q)
      BY <3>1
    <3>4. Solution(f, r)[q] = Solution(f, q)[q]
      <4> HIDE DEF q
      <4> QED
        BY <2>1, <3>1, <3>2, <3>3, SolutionsAgree
    <3> QED
      BY <3>4
  <2> QED
    BY <2>2, <2>3
<1>4. ASSUME NEW s \in SUBSET T, s # {}
      PROVE  g[s \ {Pick(s)}] = at(s \ {Pick(s)})
  <2>1. s \ {Pick(s)} \in SUBSET T /\ s \ {Pick(s)} # T
    BY <1>4, Picked
  <2> QED
    BY <1>3, <2>1
<1>5. g = [s \in SUBSET T |-> IF s = {} THEN 0 ELSE f[Pick(s)] + g[s \ {Pick(s)}]]
  <2> DEFINE h == [s \in SUBSET T |-> IF s = {} THEN 0 ELSE f[Pick(s)] + g[s \ {Pick(s)}]]
  <2>1. \A s \in SUBSET T : g[s] = h[s]
    BY <1>4
  <2> HIDE DEF at
  <2> QED
    BY <2>1
<1>6. Solves(g, f, T)
  BY <1>5 DEF Solves
<1> QED
  BY <1>1, <1>6

\* The sum is the value of a solution.
LEMMA SumIsSolution ==
  ASSUME NEW f, NEW S
  PROVE  SumOver(f, S) = Solution(f, S)[S]
BY DEF SumOver, MapThenSumSet, MapThenFoldSet, Solution, Solves, Pick

\* The definition as an equation.
LEMMA SumUnfolds ==
  ASSUME NEW f, NEW S, IsFiniteSet(S)
  PROVE  SumOver(f, S) = IF S = {} THEN 0 ELSE f[Pick(S)] + SumOver(f, S \ {Pick(S)})
<1>1. Solves(Solution(f, S), f, S)
  BY SolutionExists
<1>2. Solution(f, S)[S] = IF S = {} THEN 0 ELSE f[Pick(S)] + Solution(f, S)[S \ {Pick(S)}]
  BY <1>1 DEF Solves
<1>3. ASSUME S # {}
      PROVE  Solution(f, S)[S \ {Pick(S)}] = Solution(f, S \ {Pick(S)})[S \ {Pick(S)}]
  <2> DEFINE q == S \ {Pick(S)}
  <2>1. q \in SUBSET S /\ q \in SUBSET (S \cap q) /\ S \in SUBSET S
    OBVIOUS
  <2>2. IsFiniteSet(q)
    BY <2>1, FS_Subset
  <2>3. Solution(f, S)[q] = Solution(f, q)[q]
    <3> HIDE DEF q
    <3>1. Solves(Solution(f, q), f, q)
      BY <2>2, SolutionExists
    <3> QED
      BY <1>1, <2>1, <3>1, SolutionsAgree
  <2> QED
    BY <2>3
<1> QED
  BY <1>2, <1>3, SumIsSolution

\* The empty sum is 0, and the last element may be any.
LEMMA SumRemove ==
  ASSUME NEW S, IsFiniteSet(S), NEW f, \A s \in S : f[s] \in Int, NEW x \in S
  PROVE  /\ SumOver(f, S) \in Int /\ SumOver(f, S \ {x}) \in Int
         /\ SumOver(f, S) = f[x] + SumOver(f, S \ {x})
<1> DEFINE Fine(T) == /\ SumOver(f, T) \in Int
                      /\ \A y \in T : SumOver(f, T) = f[y] + SumOver(f, T \ {y})
           Bad == {T \in SUBSET S : ~Fine(T)}
<1>1. ASSUME NEW T \in SUBSET S, \A U \in SUBSET T : U # T => Fine(U) PROVE Fine(T)
  <2>0. ASSUME NEW U \in SUBSET T
        PROVE  SumOver(f, U) = IF U = {} THEN 0 ELSE f[Pick(U)] + SumOver(f, U \ {Pick(U)})
    BY FS_Subset, SumUnfolds
  <2>1. CASE T = {}
    BY <2>0, <2>1
  <2>2. CASE T # {}
    <3> DEFINE c == Pick(T)
    <3>1. c \in T /\ T \ {c} \in SUBSET T /\ T \ {c} # T
      BY <2>2, Picked
    <3>2. SumOver(f, T) = f[c] + SumOver(f, T \ {c})
      BY <2>0, <2>2
    <3>3. Fine(T \ {c})
      BY <1>1, <3>1
    <3> HIDE DEF c
    <3>4. SumOver(f, T) \in Int
      BY <3>1, <3>2, <3>3
    <3>5. ASSUME NEW y \in T, y # c PROVE SumOver(f, T) = f[y] + SumOver(f, T \ {y})
      <4> DEFINE Z == (T \ {c}) \ {y}
      <4>1. Fine(T \ {y}) /\ c \in T \ {y} /\ y \in T \ {c}
        BY <1>1, <3>1, <3>5
      <4>2. (T \ {y}) \ {c} = Z
        OBVIOUS
      <4>3. SumOver(f, T \ {y}) = f[c] + SumOver(f, Z)
        BY <4>1, <4>2
      <4>4. SumOver(f, T \ {c}) = f[y] + SumOver(f, Z)
        BY <3>3, <4>1
      <4>5. Fine(Z)
        <5>1. Z \in SUBSET T /\ Z # T
          BY <3>1
        <5> HIDE DEF Z
        <5> QED
          BY <1>1, <5>1
      <4>6. SumOver(f, Z) \in Int /\ f[c] \in Int /\ f[y] \in Int
        BY <3>1, <4>5
      <4> QED
        BY <3>2, <4>3, <4>4, <4>6
    <3> QED
      BY <3>2, <3>4, <3>5
  <2> QED
    BY <2>1, <2>2
<1>2. Bad = {}
  <2> SUFFICES ASSUME Bad # {} PROVE FALSE
    OBVIOUS
  <2>1. Bad \in SUBSET SUBSET S
    OBVIOUS
  <2>2. PICK T \in Bad : \A U \in SUBSET T : U # T => U \notin Bad
    <3> HIDE DEF Bad
    <3> QED
      BY <2>1, MinimalSet
  <2>3. T \in SUBSET S /\ \A U \in SUBSET T : U # T => Fine(U)
    BY <2>2
  <2> HIDE DEF Fine
  <2> QED
    BY <1>1, <2>2, <2>3
<1>3. Fine(S) /\ Fine(S \ {x})
  BY <1>2
<1> QED
  BY <1>3

\* The sum over nothing.
LEMMA SumEmpty == \A f : SumOver(f, {}) = 0
BY SumUnfolds, FS_EmptySet

\* One element more.
Extends(f, S) == \A T \in SUBSET S : \A x \in S \ T : SumOver(f, T \cup {x}) = f[x] + SumOver(f, T)

\* The sum grows by the value of the element that is added.
LEMMA SumAdd ==
  ASSUME NEW S, IsFiniteSet(S), NEW f, \A s \in S : f[s] \in Int
  PROVE  Extends(f, S)
<1> SUFFICES ASSUME NEW T \in SUBSET S, NEW x \in S \ T
             PROVE  SumOver(f, T \cup {x}) = f[x] + SumOver(f, T)
  BY DEF Extends
<1>1. (T \cup {x}) \ {x} = T /\ x \in T \cup {x} /\ T \cup {x} \in SUBSET S
  OBVIOUS
<1>2. IsFiniteSet(T \cup {x})
  BY <1>1, FS_Subset
<1>3. \A s \in T \cup {x} : f[s] \in Int
  BY <1>1
<1> QED
  BY <1>1, <1>2, <1>3, SumRemove

-------------------------------------------------------------------------------
(* What the proofs use *)

\* A sum of natural numbers is one.
LEMMA SumNat ==
  ASSUME NEW S, IsFiniteSet(S), NEW f, \A s \in S : f[s] \in Nat
  PROVE  SumOver(f, S) \in Nat
<1> DEFINE Good == {T \in SUBSET S : SumOver(f, T) \in Nat}
<1>1. {} \in Good
  BY SumEmpty
<1>0. Extends(f, S)
  BY SumAdd
<1>2. ASSUME NEW T \in SUBSET S, NEW x \in S \ T, T \in Good PROVE T \cup {x} \in Good
  BY <1>0, <1>2 DEF Extends
<1>3. S \in Good
  <2> HIDE DEF Good
  <2> QED
    BY <1>1, <1>2, SetInduction
<1> QED
  BY <1>3

\* Sums keep the order of their terms.
LEMMA SumMonotone ==
  ASSUME NEW S, IsFiniteSet(S), NEW f, NEW g,
         \A s \in S : f[s] \in Int /\ g[s] \in Int /\ f[s] <= g[s]
  PROVE  SumOver(f, S) \in Int /\ SumOver(g, S) \in Int /\ SumOver(f, S) <= SumOver(g, S)
<1> DEFINE Good == {T \in SUBSET S : /\ SumOver(f, T) \in Int /\ SumOver(g, T) \in Int
                                     /\ SumOver(f, T) <= SumOver(g, T)}
<1>0. Extends(f, S) /\ Extends(g, S)
  <2>1. \A s \in S : f[s] \in Int
    OBVIOUS
  <2>2. \A s \in S : g[s] \in Int
    OBVIOUS
  <2> QED
    BY <2>1, <2>2, SumAdd
<1>1. {} \in Good
  BY SumEmpty
<1>2. ASSUME NEW T \in SUBSET S, NEW x \in S \ T, T \in Good PROVE T \cup {x} \in Good
  <2>1. SumOver(f, T \cup {x}) = f[x] + SumOver(f, T)
    BY <1>0 DEF Extends
  <2>2. SumOver(g, T \cup {x}) = g[x] + SumOver(g, T)
    BY <1>0 DEF Extends
  <2> QED
    BY <1>2, <2>1, <2>2
<1>3. S \in Good
  <2> HIDE DEF Good
  <2> QED
    BY <1>1, <1>2, SetInduction
<1> QED
  BY <1>3

\* The sum of sums.
LEMMA SumPlus ==
  ASSUME NEW S, IsFiniteSet(S), NEW f, NEW g, NEW h,
         \A s \in S : f[s] \in Int /\ g[s] \in Int /\ h[s] = f[s] + g[s]
  PROVE  /\ SumOver(f, S) \in Int /\ SumOver(g, S) \in Int
         /\ SumOver(h, S) = SumOver(f, S) + SumOver(g, S)
<1> DEFINE Good == {T \in SUBSET S : /\ SumOver(f, T) \in Int /\ SumOver(g, T) \in Int
                                     /\ SumOver(h, T) = SumOver(f, T) + SumOver(g, T)}
<1>0. Extends(f, S) /\ Extends(g, S) /\ Extends(h, S)
  <2>1. \A s \in S : f[s] \in Int
    OBVIOUS
  <2>2. \A s \in S : g[s] \in Int
    OBVIOUS
  <2>3. \A s \in S : h[s] \in Int
    OBVIOUS
  <2> QED
    BY <2>1, <2>2, <2>3, SumAdd
<1>1. {} \in Good
  BY SumEmpty
<1>2. ASSUME NEW T \in SUBSET S, NEW x \in S \ T, T \in Good PROVE T \cup {x} \in Good
  <2>1. SumOver(f, T \cup {x}) = f[x] + SumOver(f, T)
    BY <1>0 DEF Extends
  <2>2. SumOver(g, T \cup {x}) = g[x] + SumOver(g, T)
    BY <1>0 DEF Extends
  <2>3. SumOver(h, T \cup {x}) = h[x] + SumOver(h, T)
    BY <1>0 DEF Extends
  <2> QED
    BY <1>2, <2>1, <2>2, <2>3
<1>3. S \in Good
  <2> HIDE DEF Good
  <2> QED
    BY <1>1, <1>2, SetInduction
<1> QED
  BY <1>3

\* A common factor.
LEMMA SumTimes ==
  ASSUME NEW S, IsFiniteSet(S), NEW f, NEW h, NEW k \in Int,
         \A s \in S : f[s] \in Int /\ h[s] = k * f[s]
  PROVE  SumOver(f, S) \in Int /\ SumOver(h, S) = k * SumOver(f, S)
<1> DEFINE Good == {T \in SUBSET S : SumOver(f, T) \in Int /\ SumOver(h, T) = k * SumOver(f, T)}
<1>0. Extends(f, S) /\ Extends(h, S)
  <2>1. \A s \in S : f[s] \in Int
    OBVIOUS
  <2>2. \A s \in S : h[s] \in Int
    OBVIOUS
  <2> QED
    BY <2>1, <2>2, SumAdd
<1>1. {} \in Good
  BY SumEmpty
<1>2. ASSUME NEW T \in SUBSET S, NEW x \in S \ T, T \in Good PROVE T \cup {x} \in Good
  <2>1. SumOver(f, T \cup {x}) = f[x] + SumOver(f, T)
    BY <1>0 DEF Extends
  <2>2. SumOver(h, T \cup {x}) = h[x] + SumOver(h, T)
    BY <1>0 DEF Extends
  <2>3. k * (f[x] + SumOver(f, T)) = k * f[x] + k * SumOver(f, T)
    BY <1>2
  <2> QED
    BY <1>2, <2>1, <2>2, <2>3
<1>3. S \in Good
  <2> HIDE DEF Good
  <2> QED
    BY <1>1, <1>2, SetInduction
<1> QED
  BY <1>3

\* The sum of a function that is 1 on a subset counts the subset.
LEMMA SumCounts ==
  ASSUME NEW S, IsFiniteSet(S), NEW A \in SUBSET S, NEW f,
         \A s \in S : f[s] = IF s \in A THEN 1 ELSE 0
  PROVE  SumOver(f, S) = Cardinality(A)
<1> DEFINE Good == {T \in SUBSET S : SumOver(f, T) = Cardinality(A \cap T)}
<1>0. Extends(f, S)
  <2>1. \A s \in S : f[s] \in Int
    OBVIOUS
  <2> QED
    BY <2>1, SumAdd
<1>1. {} \in Good
  <2>1. A \cap {} = {}
    OBVIOUS
  <2> QED
    BY <2>1, SumEmpty, FS_EmptySet
<1>2. ASSUME NEW T \in SUBSET S, NEW x \in S \ T, T \in Good PROVE T \cup {x} \in Good
  <2>1. SumOver(f, T \cup {x}) = f[x] + SumOver(f, T)
    BY <1>0 DEF Extends
  <2>2. IsFiniteSet(A \cap T) /\ Cardinality(A \cap T) \in Nat
    BY FS_Subset, FS_CardinalityType
  <2>3. CASE x \in A
    <3>1. A \cap (T \cup {x}) = (A \cap T) \cup {x} /\ x \notin A \cap T
      BY <2>3
    <3>2. Cardinality((A \cap T) \cup {x}) = Cardinality(A \cap T) + 1
      BY <2>2, <3>1, FS_AddElement
    <3>3. SumOver(f, T) = Cardinality(A \cap T) /\ f[x] = 1
      BY <1>2, <2>3
    <3>4. SumOver(f, T \cup {x}) = Cardinality((A \cap T) \cup {x})
      BY <2>1, <2>2, <3>2, <3>3
    <3>5. SumOver(f, T \cup {x}) = Cardinality(A \cap (T \cup {x}))
      BY <3>1, <3>4, Zenon
    <3> QED
      BY <3>5
  <2>4. CASE x \notin A
    <3>1. A \cap (T \cup {x}) = A \cap T
      BY <2>4
    <3> QED
      BY <1>2, <2>1, <2>2, <2>4, <3>1
  <2> QED
    BY <2>3, <2>4
<1>3. S \in Good
  <2> HIDE DEF Good
  <2> QED
    BY <1>1, <1>2, SetInduction
<1>4. A \cap S = A
  OBVIOUS
<1> QED
  BY <1>3, <1>4

-------------------------------------------------------------------------------
(* Induction up to a number *)

\* A set of numbers that has one has a least one.
LEMMA LeastNumber ==
  ASSUME NEW N \in Nat, NEW Bad \in SUBSET (0..N), Bad # {}
  PROVE  \E k \in Bad : \A j \in 0..(k - 1) : j \notin Bad
<1> DEFINE Downs == {0..k : k \in Bad}
<1>1. IsFiniteSet(0..N)
  BY FS_Interval
<1>2. Downs \in SUBSET SUBSET (0..N) /\ Downs # {}
  <2>1. \A k \in Bad : 0..k \in SUBSET (0..N)
    OBVIOUS
  <2>2. PICK k \in Bad : TRUE
    OBVIOUS
  <2>3. 0..k \in Downs
    OBVIOUS
  <2> QED
    BY <2>1, <2>3
<1>3. PICK D \in Downs : \A U \in SUBSET D : U # D => U \notin Downs
  <2> HIDE DEF Downs
  <2> QED
    BY <1>1, <1>2, MinimalSet
<1>4. PICK k \in Bad : D = 0..k
  BY <1>3
<1>5. ASSUME NEW j \in 0..(k - 1), j \in Bad PROVE FALSE
  <2>1. 0..j \in Downs
    BY <1>5
  <2>2. 0..j \in SUBSET D /\ k \in D /\ k \notin 0..j
    BY <1>4, <1>5
  <2>3. 0..j # D
    BY <2>2
  <2> QED
    BY <1>3, <2>1, <2>2, <2>3
<1> QED
  BY <1>4, <1>5

\* What holds of 0 and is kept from one number to the next holds up to N.
LEMMA NumberInduction ==
  ASSUME NEW N \in Nat, NEW Good, 0 \in Good,
         \A k \in 0..(N - 1) : k \in Good => k + 1 \in Good
  PROVE  \A k \in 0..N : k \in Good
<1> DEFINE Bad == {k \in 0..N : k \notin Good}
<1> SUFFICES ASSUME Bad # {} PROVE FALSE
  OBVIOUS
<1>1. Bad \in SUBSET (0..N)
  OBVIOUS
<1>2. PICK k \in Bad : \A j \in 0..(k - 1) : j \notin Bad
  <2> HIDE DEF Bad
  <2> QED
    BY <1>1, LeastNumber
<1>3. k \in 0..N /\ k # 0 /\ k \notin Good
  BY <1>2
<1>4. k - 1 \in 0..(N - 1) /\ k - 1 \in 0..(k - 1) /\ (k - 1) + 1 = k
  BY <1>3
<1>5. k - 1 \in Good
  BY <1>2, <1>3, <1>4
<1> QED
  BY <1>3, <1>4, <1>5

===============================================================================
