---------------------------- MODULE SumTheorems ------------------------------
(* Sums over finite sets, as SumFunction and SumFunctionOnSet of the module  *)
(* Functions compute them: the totals of traffic, reservations and slots in  *)
(* the other modules. Induction is over sets, not over predicates, so that   *)
(* first-order provers can use it: NatSetInduction from the well-foundedness *)
(* of <, from it RemovalInduction over the subsets of a finite set, and from *)
(* that the recursive definition of the fold and the laws of sums.           *)
EXTENDS Integers, FiniteSets, Functions, FiniteSetTheorems, WellFoundedInduction, TLAPS

-----------------------------------------------------------------------------
(* Induction.                                                                *)

LEMMA NatSetInduction ==
  ASSUME NEW P, 0 \in P, \A n \in Nat : n \in P => n + 1 \in P
  PROVE  Nat \subseteq P
<1> SUFFICES ASSUME Nat \ P # {} PROVE FALSE OBVIOUS
<1> DEFINE R == OpToRel(<, Nat)
           T == Nat \ P
<1>1. IsWellFoundedOn(R, Nat) BY NatLessThanWellFounded
<1>2. T \subseteq Nat /\ T # {} OBVIOUS
<1>3. PICK x \in T : \A y \in T : ~(<<y, x>> \in R)
  <2> HIDE DEF R, T
  <2> QED BY <1>1, <1>2, WFMin
<1>4. \A y \in T : ~(y < x) BY <1>3 DEF OpToRel
<1>5. x - 1 \in Nat /\ (x - 1) + 1 = x /\ x - 1 < x OBVIOUS
<1>6. x - 1 \in P BY <1>4, <1>5
<1> QED BY <1>5, <1>6

LEMMA RemovalInduction ==
  ASSUME NEW S, IsFiniteSet(S), NEW P, {} \in P,
         \A T \in SUBSET S : T # {} /\ (\A x \in T : T \ {x} \in P) => T \in P
  PROVE  SUBSET S \subseteq P
<1> DEFINE N == {n \in Nat : \A T \in SUBSET S : Cardinality(T) = n => T \in P}
<1>1. \A T \in SUBSET S : IsFiniteSet(T) /\ Cardinality(T) \in Nat
  BY FS_Subset, FS_CardinalityType
<1>2. 0 \in N BY <1>1, FS_EmptySet
<1>3. ASSUME NEW n \in Nat, n \in N PROVE n + 1 \in N
  <2> SUFFICES ASSUME NEW T \in SUBSET S, Cardinality(T) = n + 1 PROVE T \in P OBVIOUS
  <2>1. T # {}
    <3>1. Cardinality({}) # n + 1 BY FS_EmptySet
    <3> QED BY Zenon, <3>1
  <2>2. ASSUME NEW x \in T PROVE T \ {x} \in P
    <3>1. Cardinality(T \ {x}) = n BY <1>1, FS_RemoveElement
    <3> QED BY <3>1, <1>3
  <2> QED BY <2>1, <2>2
<1> HIDE DEF N
<1>4. Nat \subseteq N BY <1>2, <1>3, NatSetInduction
<1> QED BY <1>1, <1>4 DEF N

-----------------------------------------------------------------------------
(* The fold.                                                                 *)

Pick(s) == CHOOSE x \in s : TRUE
SumIn(f, g, s) == IF s = {} THEN 0 ELSE f[Pick(s)] + g[s \ {Pick(s)}]
Folds(f, S, g) == g = [s \in SUBSET S |-> SumIn(f, g, s)]
FoldOf(f, S) == CHOOSE g : Folds(f, S, g)

LEMMA SumIsFold == ASSUME NEW f, NEW S PROVE SumFunctionOnSet(f, S) = FoldOf(f, S)[S]
BY DEF SumFunctionOnSet, FoldFunctionOnSet, MapThenFoldSet, FoldOf, Folds, SumIn, Pick

LEMMA FoldExists ==
  ASSUME NEW f, NEW S, IsFiniteSet(S)
  PROVE  Folds(f, S, FoldOf(f, S))
<1> DEFINE Level(n) == {s \in SUBSET S : Cardinality(s) <= n}
           Partial(n, g) == g = [s \in Level(n) |-> SumIn(f, g, s)]
           N == {n \in Nat : \E g : Partial(n, g)}
<1>1. \A T \in SUBSET S : IsFiniteSet(T) /\ Cardinality(T) \in Nat
  BY FS_Subset, FS_CardinalityType
<1>2. 0 \in N
  <2>1. Level(0) = {{}} BY <1>1, FS_EmptySet
  <2>2. Partial(0, [s \in Level(0) |-> 0]) BY <2>1 DEF SumIn
  <2> QED BY <2>2
<1>3. ASSUME NEW n \in Nat, n \in N PROVE n + 1 \in N
  <2>1. PICK g : Partial(n, g) BY <1>3
  <2> DEFINE h == [s \in Level(n + 1) |-> SumIn(f, g, s)]
  <2>2. ASSUME NEW s \in Level(n + 1) PROVE SumIn(f, g, s) = SumIn(f, h, s)
    <3>1. CASE s = {} BY <3>1 DEF SumIn
    <3>2. CASE s # {}
      <4> DEFINE t == s \ {Pick(s)}
      <4>1. Pick(s) \in s BY <3>2 DEF Pick
      <4>2. Cardinality(t) = Cardinality(s) - 1 BY <1>1, <4>1, FS_RemoveElement
      <4>3. t \in Level(n) /\ t \in Level(n + 1) BY <1>1, <4>2
      <4>4. g[t] = SumIn(f, g, t) /\ h[t] = SumIn(f, g, t) BY <2>1, <4>3
      <4> QED BY <3>2, <4>4 DEF SumIn
    <3> QED BY <3>1, <3>2
  <2>3. Partial(n + 1, h) BY <2>2
  <2> HIDE DEF h, Partial
  <2> QED BY <2>3
<1>4. Nat \subseteq N
  <2> HIDE DEF N
  <2> QED BY <1>2, <1>3, NatSetInduction
<1>5. Cardinality(S) \in N BY <1>1, <1>4
<1>6. PICK g : Partial(Cardinality(S), g) BY <1>5
<1>7. Level(Cardinality(S)) = SUBSET S BY <1>1, FS_Subset
<1>8. Folds(f, S, g) BY <1>6, <1>7 DEF Folds
<1> QED BY <1>8 DEF FoldOf

LEMMA FoldIsRecursive ==
  ASSUME NEW f, NEW S, IsFiniteSet(S), NEW T \in SUBSET S
  PROVE  FoldOf(f, S)[T] = SumIn(f, FoldOf(f, S), T)
<1> DEFINE g == FoldOf(f, S)
<1>1. Folds(f, S, g) BY FoldExists
<1> HIDE DEF g
<1>2. g = [s \in SUBSET S |-> SumIn(f, g, s)] BY <1>1 DEF Folds
<1>3. g[T] = SumIn(f, g, T) BY <1>2
<1> QED BY <1>3 DEF g

\* The fold over a larger set agrees on the subsets of a smaller one.
LEMMA FoldsAgree ==
  ASSUME NEW f, NEW S, IsFiniteSet(S), NEW T \in SUBSET S
  PROVE  FoldOf(f, S)[T] = SumFunctionOnSet(f, T)
<1> DEFINE P == {U \in SUBSET T : FoldOf(f, S)[U] = FoldOf(f, T)[U]}
<1>1. IsFiniteSet(T) BY FS_Subset
<1>2. \A U \in SUBSET S : FoldOf(f, S)[U] = SumIn(f, FoldOf(f, S), U) BY FoldIsRecursive
<1>3. \A U \in SUBSET T : FoldOf(f, T)[U] = SumIn(f, FoldOf(f, T), U) BY <1>1, FoldIsRecursive
<1>4. {} \in P BY <1>2, <1>3 DEF SumIn
<1>5. ASSUME NEW U \in SUBSET T, U # {}, \A x \in U : U \ {x} \in P PROVE U \in P
  <2>1. Pick(U) \in U BY <1>5 DEF Pick
  <2> QED BY <1>2, <1>3, <1>5, <2>1 DEF SumIn
<1> HIDE DEF P
<1>6. SUBSET T \subseteq P BY <1>1, <1>4, <1>5, RemovalInduction
<1> QED BY <1>6, SumIsFold DEF P

LEMMA SumOfNone == ASSUME NEW f PROVE SumFunctionOnSet(f, {}) = 0
<1>1. IsFiniteSet({}) BY FS_EmptySet
<1>2. FoldOf(f, {})[{}] = SumIn(f, FoldOf(f, {}), {}) BY <1>1, FoldIsRecursive
<1> QED BY <1>2, SumIsFold DEF SumIn

LEMMA SumUnfolds ==
  ASSUME NEW f, NEW S, IsFiniteSet(S), S # {}
  PROVE  /\ Pick(S) \in S
         /\ SumFunctionOnSet(f, S) = f[Pick(S)] + SumFunctionOnSet(f, S \ {Pick(S)})
<1>1. Pick(S) \in S BY DEF Pick
<1>2. FoldOf(f, S)[S] = SumIn(f, FoldOf(f, S), S) BY FoldIsRecursive
<1>3. FoldOf(f, S)[S \ {Pick(S)}] = SumFunctionOnSet(f, S \ {Pick(S)}) BY FoldsAgree
<1> QED BY <1>1, <1>2, <1>3, SumIsFold DEF SumIn

-----------------------------------------------------------------------------
(* The laws of sums.                                                         *)

LEMMA SumIsInteger ==
  ASSUME NEW S, IsFiniteSet(S), NEW f, \A x \in S : f[x] \in Int
  PROVE  SumFunctionOnSet(f, S) \in Int
<1> DEFINE P == {T \in SUBSET S : SumFunctionOnSet(f, T) \in Int}
<1>1. {} \in P BY SumOfNone
<1>2. ASSUME NEW T \in SUBSET S, T # {}, \A x \in T : T \ {x} \in P PROVE T \in P
  <2> DEFINE p == Pick(T)
  <2>1. IsFiniteSet(T) BY FS_Subset
  <2>2. p \in T BY <1>2, <2>1, SumUnfolds
  <2>3. SumFunctionOnSet(f, T) = f[p] + SumFunctionOnSet(f, T \ {p}) BY <1>2, <2>1, SumUnfolds
  <2>4. T \ {p} \in P BY <1>2, <2>2
  <2> HIDE DEF p
  <2> QED BY <2>2, <2>3, <2>4
<1> HIDE DEF P
<1>3. SUBSET S \subseteq P BY <1>1, <1>2, RemovalInduction
<1> QED BY <1>3 DEF P

LEMMA SumIsNatural ==
  ASSUME NEW S, IsFiniteSet(S), NEW f, \A x \in S : f[x] \in Nat
  PROVE  SumFunctionOnSet(f, S) \in Nat
<1> DEFINE P == {T \in SUBSET S : SumFunctionOnSet(f, T) \in Nat}
<1>1. {} \in P BY SumOfNone
<1>2. ASSUME NEW T \in SUBSET S, T # {}, \A x \in T : T \ {x} \in P PROVE T \in P
  <2> DEFINE p == Pick(T)
  <2>1. IsFiniteSet(T) BY FS_Subset
  <2>2. p \in T BY <1>2, <2>1, SumUnfolds
  <2>3. SumFunctionOnSet(f, T) = f[p] + SumFunctionOnSet(f, T \ {p}) BY <1>2, <2>1, SumUnfolds
  <2>4. T \ {p} \in P BY <1>2, <2>2
  <2> HIDE DEF p
  <2> QED BY <2>2, <2>3, <2>4
<1> HIDE DEF P
<1>3. SUBSET S \subseteq P BY <1>1, <1>2, RemovalInduction
<1> QED BY <1>3 DEF P

\* Any element may be taken first.
LEMMA SumRemove ==
  ASSUME NEW S, IsFiniteSet(S), NEW f, \A x \in S : f[x] \in Int, NEW y \in S
  PROVE  SumFunctionOnSet(f, S) = f[y] + SumFunctionOnSet(f, S \ {y})
<1> DEFINE Sum(T) == SumFunctionOnSet(f, T)
           P == {T \in SUBSET S : \A x \in T : Sum(T) = f[x] + Sum(T \ {x})}
<1>1. \A T \in SUBSET S : IsFiniteSet(T) /\ Sum(T) \in Int BY FS_Subset, SumIsInteger
<1>2. {} \in P OBVIOUS
<1>3. ASSUME NEW T \in SUBSET S, T # {}, \A x \in T : T \ {x} \in P PROVE T \in P
  <2> DEFINE c == Pick(T)
  <2>1. c \in T /\ Sum(T) = f[c] + Sum(T \ {c}) BY <1>1, <1>3, SumUnfolds
  <2> HIDE DEF c, Sum
  <2>2. ASSUME NEW x \in T, x # c PROVE Sum(T) = f[x] + Sum(T \ {x})
    <3>1. Sum(T \ {c}) = f[x] + Sum((T \ {c}) \ {x}) BY <1>3, <2>1, <2>2
    <3>2. Sum(T \ {x}) = f[c] + Sum((T \ {x}) \ {c}) BY <1>3, <2>1, <2>2
    <3>3. (T \ {c}) \ {x} = (T \ {x}) \ {c} OBVIOUS
    <3>4. Sum((T \ {x}) \ {c}) \in Int /\ f[x] \in Int /\ f[c] \in Int BY <1>1, <2>1
    <3>5. f[c] + (f[x] + Sum((T \ {x}) \ {c})) = f[x] + (f[c] + Sum((T \ {x}) \ {c})) BY <3>4
    <3> QED BY <2>1, <3>1, <3>2, <3>3, <3>5
  <2> QED BY <2>1, <2>2
<1> HIDE DEF P, Sum
<1>4. SUBSET S \subseteq P BY <1>2, <1>3, RemovalInduction
<1> QED BY <1>4 DEF P, Sum

LEMMA SumsAgree ==
  ASSUME NEW S, IsFiniteSet(S), NEW f, NEW g, \A x \in S : f[x] = g[x]
  PROVE  SumFunctionOnSet(f, S) = SumFunctionOnSet(g, S)
<1> DEFINE P == {T \in SUBSET S : SumFunctionOnSet(f, T) = SumFunctionOnSet(g, T)}
<1>1. {} \in P BY SumOfNone
<1>2. ASSUME NEW T \in SUBSET S, T # {}, \A x \in T : T \ {x} \in P PROVE T \in P
  <2> DEFINE p == Pick(T)
  <2>1. IsFiniteSet(T) BY FS_Subset
  <2>2. p \in T BY <1>2, <2>1, SumUnfolds
  <2>3. SumFunctionOnSet(f, T) = f[p] + SumFunctionOnSet(f, T \ {p}) BY <1>2, <2>1, SumUnfolds
  <2>4. SumFunctionOnSet(g, T) = g[p] + SumFunctionOnSet(g, T \ {p}) BY <1>2, <2>1, SumUnfolds
  <2>5. T \ {p} \in P BY <1>2, <2>2
  <2> HIDE DEF p
  <2> QED BY <2>2, <2>3, <2>4, <2>5
<1> HIDE DEF P
<1>3. SUBSET S \subseteq P BY <1>1, <1>2, RemovalInduction
<1> QED BY <1>3 DEF P

LEMMA SumOfZeros ==
  ASSUME NEW S, IsFiniteSet(S), NEW f, \A x \in S : f[x] = 0
  PROVE  SumFunctionOnSet(f, S) = 0
<1> DEFINE P == {T \in SUBSET S : SumFunctionOnSet(f, T) = 0}
<1>1. {} \in P BY SumOfNone
<1>2. ASSUME NEW T \in SUBSET S, T # {}, \A x \in T : T \ {x} \in P PROVE T \in P
  <2> DEFINE p == Pick(T)
  <2>1. IsFiniteSet(T) BY FS_Subset
  <2>2. p \in T BY <1>2, <2>1, SumUnfolds
  <2>3. SumFunctionOnSet(f, T) = f[p] + SumFunctionOnSet(f, T \ {p}) BY <1>2, <2>1, SumUnfolds
  <2>4. T \ {p} \in P BY <1>2, <2>2
  <2> HIDE DEF p
  <2> QED BY <2>2, <2>3, <2>4
<1> HIDE DEF P
<1>3. SUBSET S \subseteq P BY <1>1, <1>2, RemovalInduction
<1> QED BY <1>3 DEF P

LEMMA SumOfSums ==
  ASSUME NEW S, IsFiniteSet(S), NEW f, NEW g, NEW h,
         \A x \in S : f[x] \in Int /\ g[x] \in Int /\ h[x] = f[x] + g[x]
  PROVE  SumFunctionOnSet(h, S) = SumFunctionOnSet(f, S) + SumFunctionOnSet(g, S)
<1> DEFINE P == {T \in SUBSET S :
                   SumFunctionOnSet(h, T) = SumFunctionOnSet(f, T) + SumFunctionOnSet(g, T)}
<1>1. {} \in P BY SumOfNone
<1>2. ASSUME NEW T \in SUBSET S, T # {}, \A x \in T : T \ {x} \in P PROVE T \in P
  <2> DEFINE p == Pick(T)
  <2>1. IsFiniteSet(T) BY FS_Subset
  <2>2. p \in T BY <1>2, <2>1, SumUnfolds
  <2>3. SumFunctionOnSet(f, T) = f[p] + SumFunctionOnSet(f, T \ {p}) BY <1>2, <2>1, SumUnfolds
  <2>4. SumFunctionOnSet(g, T) = g[p] + SumFunctionOnSet(g, T \ {p}) BY <1>2, <2>1, SumUnfolds
  <2>5. SumFunctionOnSet(h, T) = h[p] + SumFunctionOnSet(h, T \ {p}) BY <1>2, <2>1, SumUnfolds
  <2>6. T \ {p} \in P BY <1>2, <2>2
  <2>7. SumFunctionOnSet(f, T \ {p}) \in Int BY <2>1, FS_Subset, SumIsInteger
  <2>8. SumFunctionOnSet(g, T \ {p}) \in Int BY <2>1, FS_Subset, SumIsInteger
  <2> HIDE DEF p
  <2> QED BY <2>2, <2>3, <2>4, <2>5, <2>6, <2>7, <2>8
<1> HIDE DEF P
<1>3. SUBSET S \subseteq P BY <1>1, <1>2, RemovalInduction
<1> QED BY <1>3 DEF P

LEMMA SumsAreOrdered ==
  ASSUME NEW S, IsFiniteSet(S), NEW f, NEW g,
         \A x \in S : f[x] \in Int /\ g[x] \in Int /\ f[x] <= g[x]
  PROVE  SumFunctionOnSet(f, S) <= SumFunctionOnSet(g, S)
<1> DEFINE P == {T \in SUBSET S : SumFunctionOnSet(f, T) <= SumFunctionOnSet(g, T)}
<1>1. {} \in P BY SumOfNone
<1>2. ASSUME NEW T \in SUBSET S, T # {}, \A x \in T : T \ {x} \in P PROVE T \in P
  <2> DEFINE p == Pick(T)
  <2>1. IsFiniteSet(T) BY FS_Subset
  <2>2. p \in T BY <1>2, <2>1, SumUnfolds
  <2>3. SumFunctionOnSet(f, T) = f[p] + SumFunctionOnSet(f, T \ {p}) BY <1>2, <2>1, SumUnfolds
  <2>4. SumFunctionOnSet(g, T) = g[p] + SumFunctionOnSet(g, T \ {p}) BY <1>2, <2>1, SumUnfolds
  <2>5. T \ {p} \in P BY <1>2, <2>2
  <2>6. SumFunctionOnSet(f, T \ {p}) \in Int BY <2>1, FS_Subset, SumIsInteger
  <2>7. SumFunctionOnSet(g, T \ {p}) \in Int BY <2>1, FS_Subset, SumIsInteger
  <2> HIDE DEF p
  <2> QED BY <2>2, <2>3, <2>4, <2>5, <2>6, <2>7
<1> HIDE DEF P
<1>3. SUBSET S \subseteq P BY <1>1, <1>2, RemovalInduction
<1> QED BY <1>3 DEF P

\* A sum of f over T is within one of g over S, where f is 0 outside S.
LEMMA SumDominated ==
  ASSUME NEW A, IsFiniteSet(A), NEW T \in SUBSET A, NEW S \in SUBSET A, NEW f, NEW g,
         \A x \in A : f[x] \in Nat /\ g[x] \in Nat,
         \A x \in T : f[x] <= (IF x \in S THEN g[x] ELSE 0)
  PROVE  SumFunctionOnSet(f, T) <= SumFunctionOnSet(g, S)
<1> DEFINE F(U) == SumFunctionOnSet(f, U \cap T)
           G(U) == SumFunctionOnSet(g, U \cap S)
           P == {U \in SUBSET A : F(U) <= G(U)}
<1>1. ASSUME NEW U \in SUBSET A PROVE F(U) \in Nat /\ G(U) \in Nat
  <2>1. IsFiniteSet(U \cap T) /\ IsFiniteSet(U \cap S) BY FS_Subset
  <2>2. (\A x \in U \cap T : f[x] \in Nat) /\ (\A x \in U \cap S : g[x] \in Nat) OBVIOUS
  <2> QED BY <2>1, <2>2, SumIsNatural
<1>2. {} \in P
  <2>1. {} \cap T = {} /\ {} \cap S = {} OBVIOUS
  <2> QED BY <2>1, SumOfNone
<1>3. ASSUME NEW U \in SUBSET A, U # {}, \A x \in U : U \ {x} \in P PROVE U \in P
  <2>1. PICK x \in U : TRUE BY <1>3
  <2> DEFINE V == U \ {x}
  <2>2. V \in SUBSET A /\ F(V) <= G(V) BY <1>3
  <2>3. F(U) = (IF x \in T THEN f[x] ELSE 0) + F(V)
    <3>1. CASE x \in T
      <4>1. IsFiniteSet(U \cap T) BY FS_Subset
      <4>2. \A y \in U \cap T : f[y] \in Int OBVIOUS
      <4>3. F(U) = f[x] + SumFunctionOnSet(f, (U \cap T) \ {x}) BY <3>1, <4>1, <4>2, SumRemove
      <4>4. (U \cap T) \ {x} = V \cap T OBVIOUS
      <4>5. F(U) = f[x] + F(V) BY Zenon, <4>3, <4>4
      <4> QED BY ZenonT(30), <3>1, <4>5
    <3>2. CASE x \notin T
      <4>1. U \cap T = V \cap T BY <3>2
      <4>2. F(U) = F(V) BY <4>1
      <4>3. F(V) \in Nat BY <1>1, <2>2
      <4> HIDE DEF F
      <4> QED BY <3>2, <4>2, <4>3
    <3> QED BY <3>1, <3>2
  <2>4. G(U) = (IF x \in S THEN g[x] ELSE 0) + G(V)
    <3>1. CASE x \in S
      <4>1. IsFiniteSet(U \cap S) BY FS_Subset
      <4>2. \A y \in U \cap S : g[y] \in Int OBVIOUS
      <4>3. G(U) = g[x] + SumFunctionOnSet(g, (U \cap S) \ {x}) BY <3>1, <4>1, <4>2, SumRemove
      <4>4. (U \cap S) \ {x} = V \cap S OBVIOUS
      <4>5. G(U) = g[x] + G(V) BY Zenon, <4>3, <4>4
      <4> QED BY ZenonT(30), <3>1, <4>5
    <3>2. CASE x \notin S
      <4>1. U \cap S = V \cap S BY <3>2
      <4>2. G(U) = G(V) BY <4>1
      <4>3. G(V) \in Nat BY <1>1, <2>2
      <4> HIDE DEF G
      <4> QED BY <3>2, <4>2, <4>3
    <3> QED BY <3>1, <3>2
  <2>5. f[x] \in Nat /\ g[x] \in Nat /\ (x \in T => f[x] <= (IF x \in S THEN g[x] ELSE 0)) OBVIOUS
  <2>6. F(V) \in Nat /\ G(V) \in Nat BY <1>1, <2>2
  <2> HIDE DEF F, G
  <2>7. F(U) <= G(U) BY <2>2, <2>3, <2>4, <2>5, <2>6
  <2> QED BY <2>7
<1> HIDE DEF P
<1>4. SUBSET A \subseteq P BY <1>2, <1>3, RemovalInduction
<1>5. A \in P /\ A \cap T = T /\ A \cap S = S BY <1>4
<1> QED BY <1>5 DEF P

\* One value changes.
LEMMA SumChanges ==
  ASSUME NEW S, IsFiniteSet(S), NEW f, NEW g, NEW y \in S,
         \A x \in S : f[x] \in Int /\ g[x] \in Int,
         \A x \in S \ {y} : g[x] = f[x]
  PROVE  SumFunctionOnSet(g, S) + f[y] = SumFunctionOnSet(f, S) + g[y]
<1> DEFINE R == S \ {y}
<1>1. IsFiniteSet(R) BY FS_Subset
<1>2. SumFunctionOnSet(f, S) = f[y] + SumFunctionOnSet(f, R) BY SumRemove
<1>3. SumFunctionOnSet(g, S) = g[y] + SumFunctionOnSet(g, R) BY SumRemove
<1> HIDE DEF R
<1>4. SumFunctionOnSet(f, R) = SumFunctionOnSet(g, R) BY <1>1, SumsAgree DEF R
<1>5. SumFunctionOnSet(f, R) \in Int BY <1>1, SumIsInteger DEF R
<1> QED BY <1>2, <1>3, <1>4, <1>5

\* Every term is within a sum of naturals.
LEMMA SumCovers ==
  ASSUME NEW S, IsFiniteSet(S), NEW f, \A x \in S : f[x] \in Nat, NEW y \in S
  PROVE  f[y] <= SumFunctionOnSet(f, S)
<1> DEFINE R == S \ {y}
<1>1. IsFiniteSet(R) BY FS_Subset
<1>2. SumFunctionOnSet(f, S) = f[y] + SumFunctionOnSet(f, R) BY SumRemove
<1>3. SumFunctionOnSet(f, R) \in Nat BY <1>1, SumIsNatural
<1> QED BY <1>2, <1>3

\* SumFunction over a function constructor.
LEMMA SumOverDomain ==
  ASSUME NEW S, NEW f, DOMAIN f = S
  PROVE  SumFunction(f) = SumFunctionOnSet(f, S)
BY DEF SumFunction
=============================================================================
