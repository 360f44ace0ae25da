----------------------------- MODULE SumProofs -----------------------------
(***************************************************************************)
(* Laws of finite sums.  The induction they need is stated with a set in   *)
(* place of a predicate: a set of natural numbers, or of subsets, that is  *)
(* closed under the induction step contains everything.                    *)
(***************************************************************************)
EXTENDS Integers, FiniteSetsExt, FiniteSetTheorems, TLAPS

-----------------------------------------------------------------------------
(***************************************************************************)
(* Induction.                                                              *)
(***************************************************************************)
\* Induction over the natural numbers, for the set G of numbers with the property.
LEMMA NatInductionSet ==
    ASSUME NEW G,
           0 \in G, \A n \in Nat : n \in G => n + 1 \in G
    PROVE  Nat \subseteq G
  <1> DEFINE Bad == Nat \ G
  <1> SUFFICES ASSUME Bad # {} PROVE FALSE
    OBVIOUS
  <1>1. PICK n \in Bad : \A m \in Bad : ~(<<m, n>> \in OpToRel(<, Nat))
    <2>1. IsWellFoundedOn(OpToRel(<, Nat), Nat)
      BY NatLessThanWellFounded
    <2>2. Bad \subseteq Nat
      OBVIOUS
    <2> HIDE DEF Bad
    <2> QED
      BY <2>1, <2>2, WFMin
  <1>2. n \in Nat /\ n # 0
    OBVIOUS
  <1>3. n - 1 \in Nat /\ n - 1 < n /\ (n - 1) + 1 = n
    BY <1>2
  <1>4. n - 1 \in Bad
    BY <1>3
  <1>5. <<n - 1, n>> \in OpToRel(<, Nat)
    BY <1>2, <1>3 DEF OpToRel
  <1> QED
    BY <1>1, <1>4, <1>5

\* Taking an element out of a finite set makes it smaller by one.
LEMMA OneLess ==
    ASSUME NEW S, NEW x,
           IsFiniteSet(S), x \in S
    PROVE  /\ IsFiniteSet(S \ {x}) /\ Cardinality(S) \in Nat
           /\ Cardinality(S \ {x}) = Cardinality(S) - 1
  <1>1. Cardinality(S \ {x}) = IF x \in S THEN Cardinality(S) - 1 ELSE Cardinality(S)
    BY FS_RemoveElement
  <1> QED
    BY <1>1, FS_RemoveElement, FS_CardinalityType

\* Induction over the subsets of a finite set, for the set G of subsets with the
\* property: from the empty set, one element at a time.
LEMMA SubsetInduction ==
    ASSUME NEW D, NEW G,
           IsFiniteSet(D), {} \in G,
           \A T \in SUBSET D : \A x \in D \ T : T \in G => T \cup {x} \in G
    PROVE  \A T \in SUBSET D : T \in G
  <1> DEFINE Sized(n) == {T \in SUBSET D : Cardinality(T) = n}
             Done == {n \in Nat : Sized(n) \subseteq G}
  <1>1. \A T \in SUBSET D : IsFiniteSet(T) /\ Cardinality(T) \in Nat
    BY FS_Subset, FS_CardinalityType
  <1>2. 0 \in Done
    BY <1>1, FS_EmptySet
  <1>3. ASSUME NEW n \in Nat, n \in Done
        PROVE  n + 1 \in Done
    <2> SUFFICES ASSUME NEW T \in SUBSET D, Cardinality(T) = n + 1
                 PROVE  T \in G
      OBVIOUS
    <2>1. T # {}
      BY FS_EmptySet
    <2>2. PICK x \in T : TRUE
      BY <2>1
    <2>3. T \ {x} \in SUBSET D /\ Cardinality(T \ {x}) = n
      <3>1. Cardinality(T \ {x}) = Cardinality(T) - 1
        BY <1>1, OneLess
      <3> QED
        BY <3>1
    <2>4. T \ {x} \in G
      BY <1>3, <2>3
    <2>5. (T \ {x}) \cup {x} \in G
      BY <2>2, <2>3, <2>4
    <2>6. (T \ {x}) \cup {x} = T
      OBVIOUS
    <2> QED
      BY <2>5, <2>6
  <1>4. Nat \subseteq Done
    <2> HIDE DEF Done
    <2> QED
      BY <1>2, <1>3, NatInductionSet
  <1> QED
    BY <1>1, <1>4

-----------------------------------------------------------------------------
(***************************************************************************)
(* The recursion behind a sum: a set of summands loses the element that    *)
(* CHOOSE takes from it.                                                   *)
(***************************************************************************)
Pick(s) == CHOOSE x \in s : TRUE

\* g holds, for every subset of S, the sum of f over it.
Sums(f, S, g) ==
    g = [s \in SUBSET S |-> IF s = {} THEN 0 ELSE f[Pick(s)] + g[s \ {Pick(s)}]]

Within(T, S) == T \subseteq S
SameOn(f, g, S) == \A x \in S : f[x] = g[x]

\* A non-empty set gives up one of its elements.
LEMMA PickIn == ASSUME NEW s, s # {} PROVE Pick(s) \in s
  BY DEF Pick

\* A sum is defined as the value of the function that the recursion determines.
LEMMA SumUnfolds ==
    ASSUME NEW f, NEW S
    PROVE  SumFunctionOnSet(f, S) = (CHOOSE g : Sums(f, S, g))[S]
  BY DEF SumFunctionOnSet, FoldFunctionOnSet, MapThenFoldSet, Pick, Sums

\* The recursion has a solution on the subsets of a finite set.
LEMMA SumsExist ==
    ASSUME NEW f, NEW S,
           IsFiniteSet(S)
    PROVE  \E g : Sums(f, S, g)
  <1> DEFINE Small(n) == {s \in SUBSET S : Cardinality(s) <= n}
             Step(g, s) == IF s = {} THEN 0 ELSE f[Pick(s)] + g[s \ {Pick(s)}]
             UpTo(g, n) == g = [s \in Small(n) |-> Step(g, s)]
             Done == {n \in Nat : \E g : UpTo(g, n)}
  <1>1. \A s \in SUBSET S : IsFiniteSet(s) /\ Cardinality(s) \in Nat
    BY FS_Subset, FS_CardinalityType
  <1>2. 0 \in Done
    <2>1. \A s \in Small(0) : s = {}
      BY <1>1, FS_EmptySet
    <2> DEFINE g == [s \in Small(0) |-> 0]
    <2>2. UpTo(g, 0)
      BY <2>1
    <2> QED
      BY <2>2
  <1>3. ASSUME NEW n \in Nat, n \in Done
        PROVE  n + 1 \in Done
    <2>1. PICK g : UpTo(g, n)
      BY <1>3
    <2> DEFINE h == [s \in Small(n + 1) |-> Step(g, s)]
    <2>2. ASSUME NEW s \in Small(n + 1), s # {}
          PROVE  h[s \ {Pick(s)}] = g[s \ {Pick(s)}]
      <3>1. s \ {Pick(s)} \in SUBSET S /\ Cardinality(s \ {Pick(s)}) <= n
        <4>1. Cardinality(s \ {Pick(s)}) = Cardinality(s) - 1
          BY <1>1, <2>2, OneLess, PickIn
        <4> QED
          BY <1>1, <4>1
      <3>2. s \ {Pick(s)} \in Small(n) /\ s \ {Pick(s)} \in Small(n + 1)
        BY <1>1, <3>1
      <3>3. h[s \ {Pick(s)}] = Step(g, s \ {Pick(s)})
        BY <3>2
      <3>4. g[s \ {Pick(s)}] = Step(g, s \ {Pick(s)})
        BY <2>1, <3>2
      <3> QED
        BY <3>3, <3>4
    <2>3. \A s \in Small(n + 1) : Step(g, s) = Step(h, s)
      BY <2>2
    <2>4. UpTo(h, n + 1)
      BY <2>3
    <2> HIDE DEF h, UpTo
    <2> QED
      BY <2>4
  <1>4. Nat \subseteq Done
    <2> HIDE DEF Done
    <2> QED
      BY <1>2, <1>3, NatInductionSet
  <1>5. Cardinality(S) \in Done
    BY <1>1, <1>4
  <1>6. PICK g : UpTo(g, Cardinality(S))
    BY <1>5
  <1>7. Small(Cardinality(S)) = SUBSET S
    BY FS_Subset
  <1>8. Sums(f, S, g)
    BY <1>6, <1>7 DEF Sums
  <1> QED
    BY <1>8

\* So a sum is a value of a solution of the recursion.
LEMMA SumSolves ==
    ASSUME NEW f, NEW S,
           IsFiniteSet(S)
    PROVE  \E g : Sums(f, S, g) /\ SumFunctionOnSet(f, S) = g[S]
  <1>1. Sums(f, S, CHOOSE g : Sums(f, S, g))
    BY SumsExist
  <1> QED
    BY <1>1, SumUnfolds

\* Solutions for functions that agree on a set agree on its sum.
LEMMA SumsAgree ==
    ASSUME NEW D, NEW S, NEW T, NEW f, NEW g, NEW F, NEW H,
           IsFiniteSet(D), Within(D, S), Within(D, T), SameOn(f, g, D),
           Sums(f, S, F), Sums(g, T, H)
    PROVE  F[D] = H[D]
  <1> DEFINE Agree(n) == \A s \in SUBSET D : Cardinality(s) <= n => F[s] = H[s]
             Done == {n \in Nat : Agree(n)}
  <1>1. \A s \in SUBSET D : IsFiniteSet(s) /\ Cardinality(s) \in Nat
    BY FS_Subset, FS_CardinalityType
  <1>2. ASSUME NEW s \in SUBSET D
        PROVE  /\ s = {} => F[s] = H[s]
               /\ s # {} => /\ F[s] = f[Pick(s)] + F[s \ {Pick(s)}]
                            /\ H[s] = f[Pick(s)] + H[s \ {Pick(s)}]
    <2>1. s \in SUBSET S /\ s \in SUBSET T
      BY DEF Within
    <2>2. F[s] = IF s = {} THEN 0 ELSE f[Pick(s)] + F[s \ {Pick(s)}]
      BY <2>1 DEF Sums
    <2>3. H[s] = IF s = {} THEN 0 ELSE g[Pick(s)] + H[s \ {Pick(s)}]
      BY <2>1 DEF Sums
    <2>4. s # {} => f[Pick(s)] = g[Pick(s)]
      BY PickIn DEF SameOn
    <2> QED
      BY <2>2, <2>3, <2>4
  <1>3. 0 \in Done
    BY <1>1, <1>2, FS_EmptySet
  <1>4. ASSUME NEW n \in Nat, n \in Done
        PROVE  n + 1 \in Done
    <2> SUFFICES ASSUME NEW s \in SUBSET D, Cardinality(s) <= n + 1
                 PROVE  F[s] = H[s]
      OBVIOUS
    <2> SUFFICES ASSUME s # {} PROVE F[s] = H[s]
      BY <1>2
    <2>1. s \ {Pick(s)} \in SUBSET D /\ Cardinality(s \ {Pick(s)}) <= n
      <3>1. Cardinality(s \ {Pick(s)}) = Cardinality(s) - 1
        BY <1>1, OneLess, PickIn
      <3> QED
        BY <1>1, <3>1
    <2>2. F[s \ {Pick(s)}] = H[s \ {Pick(s)}]
      BY <1>4, <2>1
    <2> QED
      BY <1>2, <2>2
  <1>5. Nat \subseteq Done
    <2> HIDE DEF Done
    <2> QED
      BY <1>3, <1>4, NatInductionSet
  <1>6. Cardinality(D) \in Done /\ D \in SUBSET D
    BY <1>1, <1>5
  <1> QED
    BY <1>1, <1>6

-----------------------------------------------------------------------------
(***************************************************************************)
(* Laws of sums.  Hypotheses about all summands, and sets with an element  *)
(* more or less, have names of their own, so that a law is applied without *)
(* looking into them.                                                      *)
(***************************************************************************)
IntOn(f, S) == \A x \in S : f[x] \in Int
NatOn(f, S) == \A x \in S : f[x] \in Nat
With(S, x) == S \cup {x}
Without(S, x) == S \ {x}

\* The empty sum is zero.
LEMMA SumEmpty == \A f : SumFunctionOnSet(f, {}) = 0
  <1> TAKE f
  <1>1. PICK g : Sums(f, {}, g) /\ SumFunctionOnSet(f, {}) = g[{}]
    BY SumSolves, FS_EmptySet
  <1>2. {} \in SUBSET {}
    OBVIOUS
  <1> QED
    BY <1>1, <1>2 DEF Sums

\* Functions that agree on a set have the same sum over it.
LEMMA SumSame ==
    ASSUME NEW S, NEW f, NEW g, IsFiniteSet(S), SameOn(f, g, S)
    PROVE  SumFunctionOnSet(f, S) = SumFunctionOnSet(g, S)
  <1>1. PICK F : Sums(f, S, F) /\ SumFunctionOnSet(f, S) = F[S]
    BY SumSolves
  <1>2. PICK H : Sums(g, S, H) /\ SumFunctionOnSet(g, S) = H[S]
    BY SumSolves
  <1>3. Within(S, S)
    BY DEF Within
  <1>4. F[S] = H[S]
    BY <1>1, <1>2, <1>3, SumsAgree
  <1> QED
    BY <1>1, <1>2, <1>4

\* A sum is the picked summand and the sum of the rest.
LEMMA SumPick ==
    ASSUME NEW f, NEW S, IsFiniteSet(S), S # {}
    PROVE  SumFunctionOnSet(f, S) = f[Pick(S)] + SumFunctionOnSet(f, Without(S, Pick(S)))
  <1> DEFINE R == Without(S, Pick(S))
  <1>1. /\ IsFiniteSet(R) /\ R = S \ {Pick(S)}
        /\ Within(R, S) /\ Within(R, R) /\ SameOn(f, f, R)
    BY FS_RemoveElement DEF Without, Within, SameOn
  <1>2. PICK F : Sums(f, S, F) /\ SumFunctionOnSet(f, S) = F[S]
    BY SumSolves
  <1>3. PICK H : Sums(f, R, H) /\ SumFunctionOnSet(f, R) = H[R]
    BY <1>1, SumSolves
  <1>4. F[R] = H[R]
    <2> HIDE DEF R
    <2> QED
      BY <1>1, <1>2, <1>3, SumsAgree
  <1>5. S \in SUBSET S
    OBVIOUS
  <1>6. F[S] = f[Pick(S)] + F[R]
    BY <1>1, <1>2, <1>5 DEF Sums
  <1> QED
    BY <1>2, <1>3, <1>4, <1>6

\* What a set loses and gains with an element.
LEMMA WithWithout ==
    ASSUME NEW S, NEW x, IsFiniteSet(S)
    PROVE  /\ IsFiniteSet(With(S, x)) /\ IsFiniteSet(Without(S, x))
           /\ x \in S => /\ Cardinality(S) \in Nat
                         /\ Cardinality(Without(S, x)) = Cardinality(S) - 1
           /\ x \notin S => Without(With(S, x), x) = S
           /\ x \in With(S, x) /\ Without(S, x) \subseteq S
  <1>1. IsFiniteSet(With(S, x))
    BY FS_AddElement DEF With
  <1>2. IsFiniteSet(Without(S, x))
    BY FS_RemoveElement DEF Without
  <1>3. x \in S => /\ Cardinality(S) \in Nat
                   /\ Cardinality(Without(S, x)) = Cardinality(S) - 1
    BY OneLess DEF Without
  <1>4. x \notin S => Without(With(S, x), x) = S
    BY DEF With, Without
  <1>5. x \in With(S, x) /\ Without(S, x) \subseteq S
    BY DEF With, Without
  <1> QED
    BY <1>1, <1>2, <1>3, <1>4, <1>5

\* A sum of integers is an integer.
LEMMA SumInt ==
    ASSUME NEW f, NEW S, IsFiniteSet(S), IntOn(f, S)
    PROVE  SumFunctionOnSet(f, S) \in Int
  <1> DEFINE Done == {n \in Nat : \A T \in SUBSET S :
                         Cardinality(T) = n => SumFunctionOnSet(f, T) \in Int}
  <1>1. \A T \in SUBSET S : IsFiniteSet(T) /\ Cardinality(T) \in Nat
    BY FS_Subset, FS_CardinalityType
  <1>2. 0 \in Done
    <2>1. \A T \in SUBSET S : Cardinality(T) = 0 => T = {}
      BY <1>1, FS_EmptySet
    <2> QED
      BY <2>1, SumEmpty
  <1>3. ASSUME NEW n \in Nat, n \in Done
        PROVE  n + 1 \in Done
    <2> SUFFICES ASSUME NEW T \in SUBSET S, Cardinality(T) = n + 1
                 PROVE  SumFunctionOnSet(f, T) \in Int
      OBVIOUS
    <2>1. T # {}
      BY FS_EmptySet
    <2>2. Pick(T) \in T /\ IsFiniteSet(T)
      BY <1>1, <2>1, PickIn
    <2>3. Cardinality(Without(T, Pick(T))) = n /\ Without(T, Pick(T)) \in SUBSET S
      BY <2>2, WithWithout
    <2>4. SumFunctionOnSet(f, Without(T, Pick(T))) \in Int
      BY <1>3, <2>3
    <2>5. SumFunctionOnSet(f, T) = f[Pick(T)] + SumFunctionOnSet(f, Without(T, Pick(T)))
      BY <2>1, <2>2, SumPick
    <2>6. f[Pick(T)] \in Int
      BY <2>2 DEF IntOn
    <2> QED
      BY <2>4, <2>5, <2>6
  <1>4. Nat \subseteq Done
    <2> HIDE DEF Done
    <2> QED
      BY <1>2, <1>3, NatInductionSet
  <1> QED
    BY <1>1, <1>4

\* The order of summation does not matter: any summand may be taken out.
LEMMA SumOut ==
    ASSUME NEW f, NEW S, NEW x, IsFiniteSet(S), IntOn(f, S), x \in S
    PROVE  SumFunctionOnSet(f, S) = f[x] + SumFunctionOnSet(f, Without(S, x))
  <1> DEFINE Done == {n \in Nat : \A T \in SUBSET S : Cardinality(T) = n => \A y \in T :
                         SumFunctionOnSet(f, T) = f[y] + SumFunctionOnSet(f, Without(T, y))}
  <1>1. ASSUME NEW T \in SUBSET S
        PROVE  /\ IsFiniteSet(T) /\ Cardinality(T) \in Nat
               /\ SumFunctionOnSet(f, T) \in Int
    <2>1. IsFiniteSet(T) /\ Cardinality(T) \in Nat
      BY FS_Subset, FS_CardinalityType
    <2>2. IntOn(f, T)
      BY DEF IntOn
    <2> QED
      BY <2>1, <2>2, SumInt
  <1>2. 0 \in Done
    <2>1. \A T \in SUBSET S : Cardinality(T) = 0 => T = {}
      BY <1>1, FS_EmptySet
    <2> QED
      BY <2>1
  <1>3. ASSUME NEW n \in Nat, n \in Done
        PROVE  n + 1 \in Done
    <2> SUFFICES ASSUME NEW T \in SUBSET S, Cardinality(T) = n + 1, NEW y \in T
                 PROVE  SumFunctionOnSet(f, T) = f[y] + SumFunctionOnSet(f, Without(T, y))
      OBVIOUS
    <2> DEFINE p == Pick(T)
    <2>1. p \in T /\ IsFiniteSet(T) /\ T # {}
      BY <1>1, PickIn
    <2>2. SumFunctionOnSet(f, T) = f[p] + SumFunctionOnSet(f, Without(T, p))
      BY <2>1, SumPick
    <2>3. CASE p = y
      BY <2>2, <2>3
    <2>4. CASE p # y
      <3> HIDE DEF p
      <3>1. /\ Cardinality(Without(T, p)) = n /\ Cardinality(Without(T, y)) = n
            /\ Without(T, p) \in SUBSET S /\ Without(T, y) \in SUBSET S
        BY <2>1, WithWithout
      <3>2. y \in Without(T, p) /\ p \in Without(T, y)
        BY <2>1, <2>4 DEF Without
      <3> DEFINE R == Without(Without(T, p), y)
      <3>3. R = Without(Without(T, y), p) /\ R \in SUBSET S
        BY DEF Without
      <3>4. SumFunctionOnSet(f, Without(T, p)) = f[y] + SumFunctionOnSet(f, R)
        BY <1>3, <3>1, <3>2
      <3>5. SumFunctionOnSet(f, Without(T, y)) = f[p] + SumFunctionOnSet(f, R)
        <4> HIDE DEF R
        <4> QED
          BY <1>3, <3>1, <3>2, <3>3
      <3>6. SumFunctionOnSet(f, R) \in Int /\ f[p] \in Int /\ f[y] \in Int
        BY <1>1, <2>1, <3>3 DEF IntOn
      <3> HIDE DEF R
      <3> QED
        BY <2>2, <3>4, <3>5, <3>6
    <2> QED
      BY <2>3, <2>4
  <1>4. Nat \subseteq Done
    <2> HIDE DEF Done
    <2> QED
      BY <1>2, <1>3, NatInductionSet
  <1>5. Cardinality(S) \in Nat /\ S \in SUBSET S
    BY <1>1
  <1> QED
    BY <1>4, <1>5

\* The sum with one more element.
LEMMA SumIn ==
    ASSUME NEW f, NEW S, NEW x, IsFiniteSet(S), x \notin S, IntOn(f, With(S, x))
    PROVE  /\ SumFunctionOnSet(f, With(S, x)) = f[x] + SumFunctionOnSet(f, S)
           /\ f[x] \in Int /\ SumFunctionOnSet(f, S) \in Int
  <1>1. /\ IsFiniteSet(With(S, x)) /\ x \in With(S, x)
        /\ Without(With(S, x), x) = S
    BY WithWithout
  <1>2. SumFunctionOnSet(f, With(S, x)) = f[x] + SumFunctionOnSet(f, Without(With(S, x), x))
    BY <1>1, SumOut
  <1>3. f[x] \in Int /\ IntOn(f, S)
    BY DEF IntOn, With
  <1>4. SumFunctionOnSet(f, S) \in Int
    BY <1>3, SumInt
  <1> QED
    BY <1>1, <1>2, <1>3, <1>4

\* Induction over the subsets, in these terms.
LEMMA GrowthInduction ==
    ASSUME NEW D, NEW G, IsFiniteSet(D), {} \in G,
           \A T \in SUBSET D : \A x \in D : x \notin T /\ T \in G => With(T, x) \in G
    PROVE  D \in G
  <1>1. \A T \in SUBSET D : \A x \in D \ T : T \in G => T \cup {x} \in G
    BY DEF With
  <1>2. D \in SUBSET D
    OBVIOUS
  <1> QED
    BY <1>1, <1>2, SubsetInduction

\* Restricting a sum to part of a set.
LEMMA Restricted ==
    ASSUME NEW f, NEW S, NEW T, IsFiniteSet(S), IntOn(f, S), T \subseteq S
    PROVE  IsFiniteSet(T) /\ IntOn(f, T) /\ SumFunctionOnSet(f, T) \in Int
  <1>1. IsFiniteSet(T)
    BY FS_Subset
  <1>2. IntOn(f, T)
    BY DEF IntOn
  <1> QED
    BY <1>1, <1>2, SumInt

\* The sum over a part of a set and the sum over what is left.
LEMMA SumSplit ==
    ASSUME NEW f, NEW S, NEW T, IsFiniteSet(S), IntOn(f, S), T \subseteq S
    PROVE  SumFunctionOnSet(f, S) = SumFunctionOnSet(f, T) + SumFunctionOnSet(f, S \ T)
  <1> DEFINE Rest(R) == S \ R
             G == {R \in SUBSET S : SumFunctionOnSet(f, S)
                                     = SumFunctionOnSet(f, R) + SumFunctionOnSet(f, Rest(R))}
  <1>1. \A R \in SUBSET S : /\ IsFiniteSet(R) /\ IntOn(f, R) /\ Rest(R) \in SUBSET S
                            /\ SumFunctionOnSet(f, R) \in Int
    BY Restricted
  <1>2. {} \in G
    <2>1. Rest({}) = S /\ S \in SUBSET S
      OBVIOUS
    <2> QED
      BY <1>1, <2>1, SumEmpty
  <1>3. ASSUME NEW R \in SUBSET T, NEW x \in T, x \notin R, R \in G
        PROVE  With(R, x) \in G
    <2>1. /\ With(R, x) \in SUBSET S /\ R \in SUBSET S /\ x \in Rest(R)
          /\ Rest(With(R, x)) = Without(Rest(R), x)
      BY <1>3 DEF With, Without
    <2>2. Rest(R) \in SUBSET S /\ Rest(With(R, x)) \in SUBSET S
      OBVIOUS
    <2>3. SumFunctionOnSet(f, S) = SumFunctionOnSet(f, R) + SumFunctionOnSet(f, Rest(R))
      BY <1>3
    <2> HIDE DEF Rest
    <2>4. SumFunctionOnSet(f, With(R, x)) = f[x] + SumFunctionOnSet(f, R) /\ f[x] \in Int
      BY <1>1, <1>3, <2>1, SumIn
    <2>5. SumFunctionOnSet(f, Rest(R)) = f[x] + SumFunctionOnSet(f, Without(Rest(R), x))
      BY <1>1, <2>1, <2>2, SumOut
    <2>6. SumFunctionOnSet(f, S)
            = SumFunctionOnSet(f, With(R, x)) + SumFunctionOnSet(f, Rest(With(R, x)))
      <3>1. /\ SumFunctionOnSet(f, R) \in Int
            /\ SumFunctionOnSet(f, Without(Rest(R), x)) \in Int
        BY <1>1, <2>1, <2>2
      <3> QED
        BY <2>1, <2>3, <2>4, <2>5, <3>1
    <2> QED
      BY <2>1, <2>6
  <1>4. T \in G
    <2>1. IsFiniteSet(T)
      BY <1>1
    <2> HIDE DEF G
    <2> QED
      BY <1>2, <1>3, <2>1, GrowthInduction
  <1> QED
    BY <1>4

\* Adding the summands adds the sums.
AddsOn(f, g, h, S) == \A x \in S : h[x] = f[x] + g[x]

\* Sums add pointwise.
LEMMA SumAdd ==
    ASSUME NEW S, NEW f, NEW g, NEW h,
           IsFiniteSet(S), IntOn(f, S), IntOn(g, S), AddsOn(f, g, h, S)
    PROVE  SumFunctionOnSet(h, S) = SumFunctionOnSet(f, S) + SumFunctionOnSet(g, S)
  <1> DEFINE G == {R \in SUBSET S : SumFunctionOnSet(h, R)
                                     = SumFunctionOnSet(f, R) + SumFunctionOnSet(g, R)}
  <1>1. {} \in G
    BY SumEmpty
  <1>2. ASSUME NEW R \in SUBSET S, NEW x \in S, x \notin R, R \in G
        PROVE  With(R, x) \in G
    <2>1. With(R, x) \in SUBSET S /\ IsFiniteSet(R)
      BY FS_Subset DEF With
    <2>2. IntOn(f, With(R, x)) /\ IntOn(g, With(R, x)) /\ IntOn(h, With(R, x))
      BY <2>1 DEF IntOn, AddsOn
    <2>3. /\ SumFunctionOnSet(f, With(R, x)) = f[x] + SumFunctionOnSet(f, R)
          /\ f[x] \in Int /\ SumFunctionOnSet(f, R) \in Int
      BY <1>2, <2>1, <2>2, SumIn
    <2>4. /\ SumFunctionOnSet(g, With(R, x)) = g[x] + SumFunctionOnSet(g, R)
          /\ g[x] \in Int /\ SumFunctionOnSet(g, R) \in Int
      BY <1>2, <2>1, <2>2, SumIn
    <2>5. SumFunctionOnSet(h, With(R, x)) = h[x] + SumFunctionOnSet(h, R)
      BY <1>2, <2>1, <2>2, SumIn
    <2>6. h[x] = f[x] + g[x]
      BY DEF AddsOn
    <2>7. SumFunctionOnSet(h, R) = SumFunctionOnSet(f, R) + SumFunctionOnSet(g, R)
      BY <1>2
    <2>8. SumFunctionOnSet(h, With(R, x))
            = SumFunctionOnSet(f, With(R, x)) + SumFunctionOnSet(g, With(R, x))
      BY <2>3, <2>4, <2>5, <2>6, <2>7
    <2> QED
      BY <2>1, <2>8
  <1>3. S \in G
    <2> HIDE DEF G
    <2> QED
      BY <1>1, <1>2, GrowthInduction
  <1> QED
    BY <1>3

\* A sum of amounts is an amount.
LEMMA SumNat ==
    ASSUME NEW f, NEW S, IsFiniteSet(S), NatOn(f, S)
    PROVE  SumFunctionOnSet(f, S) \in Nat
  <1> DEFINE G == {R \in SUBSET S : SumFunctionOnSet(f, R) \in Nat}
  <1>1. {} \in G
    BY SumEmpty
  <1>2. ASSUME NEW R \in SUBSET S, NEW x \in S, x \notin R, R \in G
        PROVE  With(R, x) \in G
    <2>1. With(R, x) \in SUBSET S /\ IsFiniteSet(R)
      BY FS_Subset DEF With
    <2>2. IntOn(f, With(R, x)) /\ f[x] \in Nat
      BY <2>1 DEF IntOn, NatOn
    <2>3. SumFunctionOnSet(f, With(R, x)) = f[x] + SumFunctionOnSet(f, R)
      BY <1>2, <2>1, <2>2, SumIn
    <2>4. SumFunctionOnSet(f, With(R, x)) \in Nat
      BY <1>2, <2>2, <2>3
    <2> QED
      BY <2>1, <2>4
  <1>3. S \in G
    <2> HIDE DEF G
    <2> QED
      BY <1>1, <1>2, GrowthInduction
  <1> QED
    BY <1>3

\* Nothing adds up to nothing.
ZeroOn(f, S) == \A x \in S : f[x] = 0

\* A sum of zeros is zero.
LEMMA SumZero ==
    ASSUME NEW f, NEW S, IsFiniteSet(S), ZeroOn(f, S)
    PROVE  SumFunctionOnSet(f, S) = 0
  <1> DEFINE G == {R \in SUBSET S : SumFunctionOnSet(f, R) = 0}
  <1>1. {} \in G
    BY SumEmpty
  <1>2. ASSUME NEW R \in SUBSET S, NEW x \in S, x \notin R, R \in G
        PROVE  With(R, x) \in G
    <2>1. With(R, x) \in SUBSET S /\ IsFiniteSet(R)
      BY FS_Subset DEF With
    <2>2. IntOn(f, With(R, x)) /\ f[x] = 0
      BY <2>1 DEF IntOn, ZeroOn
    <2>3. SumFunctionOnSet(f, With(R, x)) = f[x] + SumFunctionOnSet(f, R)
      BY <1>2, <2>1, <2>2, SumIn
    <2>4. SumFunctionOnSet(f, With(R, x)) = 0
      BY <1>2, <2>2, <2>3
    <2> QED
      BY <2>1, <2>4
  <1>3. S \in G
    <2> HIDE DEF G
    <2> QED
      BY <1>1, <1>2, GrowthInduction
  <1> QED
    BY <1>3

\* A part of a sum of amounts is no more than the whole.
LEMMA SumPart ==
    ASSUME NEW f, NEW S, NEW T, IsFiniteSet(S), NatOn(f, S), T \subseteq S
    PROVE  /\ SumFunctionOnSet(f, T) <= SumFunctionOnSet(f, S)
           /\ SumFunctionOnSet(f, T) \in Nat /\ SumFunctionOnSet(f, S) \in Nat
  <1>1. IsFiniteSet(T) /\ IsFiniteSet(S \ T)
    BY FS_Subset, FS_Difference
  <1>2. NatOn(f, T) /\ NatOn(f, S \ T) /\ IntOn(f, S)
    BY DEF NatOn, IntOn
  <1>3. SumFunctionOnSet(f, T) \in Nat /\ SumFunctionOnSet(f, S \ T) \in Nat
    BY <1>1, <1>2, SumNat
  <1>4. SumFunctionOnSet(f, S) = SumFunctionOnSet(f, T) + SumFunctionOnSet(f, S \ T)
    BY <1>2, SumSplit
  <1> QED
    BY <1>3, <1>4

\* Functions that differ at one element share the sum of the rest.
LEMMA SumRest ==
    ASSUME NEW S, NEW f, NEW g, NEW x, IsFiniteSet(S), x \in S, IntOn(f, S), IntOn(g, S),
           SameOn(f, g, Without(S, x))
    PROVE  \E r \in Int : /\ SumFunctionOnSet(f, S) = f[x] + r
                          /\ SumFunctionOnSet(g, S) = g[x] + r
  <1>1. /\ IsFiniteSet(Without(S, x)) /\ Without(S, x) \subseteq S
    BY WithWithout
  <1>2. SumFunctionOnSet(f, Without(S, x)) \in Int
    BY <1>1, Restricted
  <1>3. SumFunctionOnSet(f, Without(S, x)) = SumFunctionOnSet(g, Without(S, x))
    BY <1>1, SumSame
  <1>4. SumFunctionOnSet(f, S) = f[x] + SumFunctionOnSet(f, Without(S, x))
    BY SumOut
  <1>5. SumFunctionOnSet(g, S) = g[x] + SumFunctionOnSet(g, Without(S, x))
    BY SumOut
  <1> QED
    BY <1>2, <1>3, <1>4, <1>5

\* A function changed at one element changes its sum by as much.
LEMMA SumChange ==
    ASSUME NEW S, NEW f, NEW g, NEW x, IsFiniteSet(S), x \in S, IntOn(f, S), IntOn(g, S),
           SameOn(f, g, Without(S, x))
    PROVE  /\ SumFunctionOnSet(g, S) = SumFunctionOnSet(f, S) + (g[x] - f[x])
           /\ SumFunctionOnSet(f, S) \in Int /\ f[x] \in Int /\ g[x] \in Int
  <1>1. PICK r \in Int : /\ SumFunctionOnSet(f, S) = f[x] + r
                         /\ SumFunctionOnSet(g, S) = g[x] + r
    BY SumRest
  <1>2. f[x] \in Int /\ g[x] \in Int
    BY DEF IntOn
  <1> QED
    BY <1>1, <1>2

-----------------------------------------------------------------------------
(***************************************************************************)
(* Summing by groups: k names the group of an element.                     *)
(***************************************************************************)
GroupOf(k, R, u) == {x \in R : k[x] = u}
GroupSums(f, k, R, U) == [u \in U |-> SumFunctionOnSet(f, GroupOf(k, R, u))]

\* The sums of groups are integers.
LEMMA GroupSumsInt ==
    ASSUME NEW f, NEW k, NEW R, NEW U, IsFiniteSet(R), IntOn(f, R)
    PROVE  IntOn(GroupSums(f, k, R, U), U)
  <1>1. ASSUME NEW u
        PROVE  SumFunctionOnSet(f, GroupOf(k, R, u)) \in Int
    <2>1. GroupOf(k, R, u) \subseteq R
      BY DEF GroupOf
    <2> QED
      BY <2>1, Restricted
  <1> QED
    BY <1>1 DEF IntOn, GroupSums

\* An element joins one group.
LEMMA GroupGrows ==
    ASSUME NEW f, NEW k, NEW R, NEW U, NEW x, IsFiniteSet(R), x \notin R,
           IntOn(f, With(R, x)), k[x] \in U
    PROVE  /\ GroupSums(f, k, With(R, x), U)[k[x]] = f[x] + GroupSums(f, k, R, U)[k[x]]
           /\ SameOn(GroupSums(f, k, R, U), GroupSums(f, k, With(R, x), U), Without(U, k[x]))
  <1>1. SumFunctionOnSet(f, GroupOf(k, With(R, x), k[x]))
          = f[x] + SumFunctionOnSet(f, GroupOf(k, R, k[x]))
    <2>1. GroupOf(k, With(R, x), k[x]) = With(GroupOf(k, R, k[x]), x)
      BY DEF GroupOf, With
    <2>2. GroupOf(k, R, k[x]) \subseteq R /\ x \notin GroupOf(k, R, k[x])
      BY DEF GroupOf
    <2>3. IsFiniteSet(GroupOf(k, R, k[x])) /\ IntOn(f, With(GroupOf(k, R, k[x]), x))
      BY <2>2, FS_Subset DEF IntOn, With
    <2> QED
      BY <2>1, <2>2, <2>3, SumIn
  <1>2. ASSUME NEW u, u # k[x]
        PROVE  GroupOf(k, R, u) = GroupOf(k, With(R, x), u)
    BY <1>2 DEF GroupOf, With
  <1>3. SameOn(GroupSums(f, k, R, U), GroupSums(f, k, With(R, x), U), Without(U, k[x]))
    <2> SUFFICES ASSUME NEW u \in U, u # k[x]
                 PROVE  GroupSums(f, k, R, U)[u] = GroupSums(f, k, With(R, x), U)[u]
      BY DEF SameOn, Without
    <2> QED
      BY <1>2 DEF GroupSums
  <1>4. GroupSums(f, k, With(R, x), U)[k[x]] = f[x] + GroupSums(f, k, R, U)[k[x]]
    BY <1>1 DEF GroupSums
  <1> QED
    BY <1>3, <1>4

\* The groups' sums add up to the sum.
KeysOn(k, S, U) == \A x \in S : k[x] \in U

\* The sum over all groups is the sum over everything.
LEMMA SumByGroup ==
    ASSUME NEW f, NEW k, NEW S, NEW U,
           IsFiniteSet(S), IsFiniteSet(U), IntOn(f, S), KeysOn(k, S, U)
    PROVE  SumFunctionOnSet(GroupSums(f, k, S, U), U) = SumFunctionOnSet(f, S)
  <1> DEFINE G == {R \in SUBSET S : SumFunctionOnSet(GroupSums(f, k, R, U), U)
                                     = SumFunctionOnSet(f, R)}
  <1>1. {} \in G
    <2>1. \A u : GroupOf(k, {}, u) = {}
      BY DEF GroupOf
    <2>2. ZeroOn(GroupSums(f, k, {}, U), U)
      BY <2>1, SumEmpty DEF ZeroOn, GroupSums
    <2> QED
      BY <2>2, SumZero, SumEmpty
  <1>2. ASSUME NEW R \in SUBSET S, NEW x \in S, x \notin R, R \in G
        PROVE  With(R, x) \in G
    <2>1. /\ With(R, x) \in SUBSET S /\ IsFiniteSet(R) /\ IsFiniteSet(With(R, x))
          /\ IntOn(f, R) /\ IntOn(f, With(R, x)) /\ k[x] \in U
      BY FS_Subset DEF With, IntOn, KeysOn
    <2>2. PICK A : A = GroupSums(f, k, R, U)
      OBVIOUS
    <2>3. PICK B : B = GroupSums(f, k, With(R, x), U)
      OBVIOUS
    <2>4. IntOn(A, U) /\ IntOn(B, U)
      BY <2>1, <2>2, <2>3, GroupSumsInt
    <2>5. B[k[x]] = f[x] + A[k[x]] /\ SameOn(A, B, Without(U, k[x]))
      BY <1>2, <2>1, <2>2, <2>3, GroupGrows
    <2>6. PICK r \in Int : /\ SumFunctionOnSet(A, U) = A[k[x]] + r
                           /\ SumFunctionOnSet(B, U) = B[k[x]] + r
      BY <2>1, <2>4, <2>5, SumRest
    <2>7. /\ SumFunctionOnSet(f, With(R, x)) = f[x] + SumFunctionOnSet(f, R)
          /\ f[x] \in Int /\ SumFunctionOnSet(f, R) \in Int
      BY <1>2, <2>1, SumIn
    <2>8. A[k[x]] \in Int
      BY <2>1, <2>4 DEF IntOn
    <2>9. SumFunctionOnSet(A, U) = SumFunctionOnSet(f, R)
      BY <1>2, <2>2
    <2>10. SumFunctionOnSet(B, U) = SumFunctionOnSet(f, With(R, x))
      BY <2>5, <2>6, <2>7, <2>8, <2>9
    <2> QED
      BY <2>1, <2>3, <2>10
  <1>3. S \in G
    <2> HIDE DEF G
    <2> QED
      BY <1>1, <1>2, GrowthInduction
  <1> QED
    BY <1>3

\* Groups of equal summands and keys have equal sums.
LEMMA GroupSame ==
    ASSUME NEW f, NEW g, NEW k, NEW l, NEW R, NEW U,
           IsFiniteSet(R), SameOn(f, g, R), SameOn(k, l, R)
    PROVE  GroupSums(f, k, R, U) = GroupSums(g, l, R, U)
  <1>1. ASSUME NEW u
        PROVE  SumFunctionOnSet(f, GroupOf(k, R, u)) = SumFunctionOnSet(g, GroupOf(l, R, u))
    <2>1. GroupOf(k, R, u) = GroupOf(l, R, u) /\ GroupOf(k, R, u) \in SUBSET R
      BY DEF GroupOf, SameOn
    <2>2. IsFiniteSet(GroupOf(k, R, u)) /\ SameOn(f, g, GroupOf(k, R, u))
      BY <2>1, FS_Subset DEF SameOn
    <2> QED
      BY <2>1, <2>2, SumSame
  <1> QED
    BY <1>1 DEF GroupSums

\* The groups of two disjoint sets together.
LEMMA GroupUnion ==
    ASSUME NEW f, NEW k, NEW R, NEW Q, NEW U,
           IsFiniteSet(R), IsFiniteSet(Q), R \cap Q = {}, IntOn(f, R \cup Q)
    PROVE  GroupSums(f, k, R \cup Q, U)
             = [u \in U |-> GroupSums(f, k, R, U)[u] + GroupSums(f, k, Q, U)[u]]
  <1>1. ASSUME NEW u
        PROVE  SumFunctionOnSet(f, GroupOf(k, R \cup Q, u))
                 = SumFunctionOnSet(f, GroupOf(k, R, u)) + SumFunctionOnSet(f, GroupOf(k, Q, u))
    <2> PICK A, B, C : A = GroupOf(k, R \cup Q, u) /\ B = GroupOf(k, R, u) /\ C = GroupOf(k, Q, u)
      OBVIOUS
    <2>1. A \subseteq R \cup Q /\ B \subseteq A /\ A \ B = C
      BY DEF GroupOf
    <2>2. IsFiniteSet(A)
      BY <2>1, FS_Union, FS_Subset
    <2>3. IntOn(f, A)
      BY <2>1 DEF IntOn
    <2>4. SumFunctionOnSet(f, A) = SumFunctionOnSet(f, B) + SumFunctionOnSet(f, A \ B)
      BY <2>1, <2>2, <2>3, SumSplit
    <2> QED
      BY <2>1, <2>4
  <1> QED
    BY <1>1 DEF GroupSums

\* The sum over two disjoint sets.
LEMMA SumUnion ==
    ASSUME NEW f, NEW R, NEW Q, IsFiniteSet(R), IsFiniteSet(Q), R \cap Q = {}, IntOn(f, R \cup Q)
    PROVE  SumFunctionOnSet(f, R \cup Q) = SumFunctionOnSet(f, R) + SumFunctionOnSet(f, Q)
  <1> PICK A : A = R \cup Q
    OBVIOUS
  <1>1. IsFiniteSet(A) /\ IntOn(f, A)
    BY FS_Union
  <1>2. R \subseteq A /\ A \ R = Q
    OBVIOUS
  <1>3. SumFunctionOnSet(f, A) = SumFunctionOnSet(f, R) + SumFunctionOnSet(f, A \ R)
    BY <1>1, <1>2, SumSplit
  <1> QED
    BY <1>2, <1>3

\* The sum of a function is its sum over its domain.
LEMMA SumWhole ==
    ASSUME NEW f, NEW S, DOMAIN f = S
    PROVE  SumFunction(f) = SumFunctionOnSet(f, S)
  BY DEF SumFunction

\* Summing along a one to one map.
ImageOf(k, S) == {k[x] : x \in S}
OneToOne(k, S) == \A x, y \in S : k[x] = k[y] => x = y
FollowsOn(f, g, k, S) == \A x \in S : f[x] = g[k[x]]

\* A one-to-one renaming of the summands keeps the sum.
LEMMA SumImage ==
    ASSUME NEW f, NEW g, NEW k, NEW S,
           IsFiniteSet(S), IntOn(f, S), OneToOne(k, S), FollowsOn(f, g, k, S)
    PROVE  /\ SumFunctionOnSet(g, ImageOf(k, S)) = SumFunctionOnSet(f, S)
           /\ IsFiniteSet(ImageOf(k, S))
  <1> DEFINE G == {R \in SUBSET S : /\ SumFunctionOnSet(g, ImageOf(k, R)) = SumFunctionOnSet(f, R)
                                    /\ IsFiniteSet(ImageOf(k, R))}
  <1>1. {} \in G
    <2>1. ImageOf(k, {}) = {}
      BY DEF ImageOf
    <2> QED
      BY <2>1, SumEmpty, FS_EmptySet
  <1>2. ASSUME NEW R \in SUBSET S, NEW x \in S, x \notin R, R \in G
        PROVE  With(R, x) \in G
    <2>1. /\ With(R, x) \in SUBSET S /\ IsFiniteSet(R) /\ IntOn(f, With(R, x))
      BY FS_Subset DEF With, IntOn
    <2>2. ImageOf(k, With(R, x)) = With(ImageOf(k, R), k[x])
      BY DEF ImageOf, With
    <2>3. k[x] \notin ImageOf(k, R)
      BY <1>2 DEF ImageOf, OneToOne
    <2>4. IntOn(g, With(ImageOf(k, R), k[x]))
      BY DEF IntOn, ImageOf, With, FollowsOn
    <2>5. IsFiniteSet(ImageOf(k, R))
      BY <1>2
    <2>6. SumFunctionOnSet(g, With(ImageOf(k, R), k[x])) = g[k[x]] + SumFunctionOnSet(g, ImageOf(k, R))
      BY <2>3, <2>4, <2>5, SumIn
    <2>7. SumFunctionOnSet(f, With(R, x)) = f[x] + SumFunctionOnSet(f, R)
      BY <1>2, <2>1, SumIn
    <2>8. f[x] = g[k[x]]
      BY DEF FollowsOn
    <2>9. SumFunctionOnSet(g, ImageOf(k, With(R, x))) = SumFunctionOnSet(f, With(R, x))
      BY <1>2, <2>2, <2>6, <2>7, <2>8
    <2>10. IsFiniteSet(ImageOf(k, With(R, x)))
      BY <2>2, <2>5, WithWithout
    <2> QED
      BY <2>1, <2>9, <2>10
  <1>3. S \in G
    <2> HIDE DEF G
    <2> QED
      BY <1>1, <1>2, GrowthInduction
  <1> QED
    BY <1>3

=============================================================================
