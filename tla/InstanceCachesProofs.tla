------------------------ MODULE InstanceCachesProofs -------------------------
(* Proofs about InstanceCaches, for any requests, sites, keys, answers and   *)
(* limits.                                                                   *)
(*                                                                           *)
(* The caches share the clock and nothing else, so each has an inductive     *)
(* invariant of its own. Before them: what the lists of entries keep and     *)
(* cost, by induction over sequences as sets of sequences.                   *)
EXTENDS InstanceCaches, SumTheorems, SequenceTheorems, TLAPS

-----------------------------------------------------------------------------
(* Lists.                                                                    *)

LEMMA SequenceSetInduction ==
  ASSUME NEW T, NEW P, <<>> \in P,
         \A q \in Seq(T), e \in T : q \in P => Append(q, e) \in P
  PROVE  Seq(T) \subseteq P
<1> DEFINE N == {n \in Nat : \A q \in Seq(T) : Len(q) = n => q \in P}
<1>1. 0 \in N
  <2>1. \A q \in Seq(T) : Len(q) = 0 => q = <<>> BY EmptySeq
  <2> QED BY <2>1
<1>2. ASSUME NEW n \in Nat, n \in N PROVE n + 1 \in N
  <2> SUFFICES ASSUME NEW q \in Seq(T), Len(q) = n + 1 PROVE q \in P OBVIOUS
  <2>1. PICK p \in Seq(T), e \in T : q = Append(p, e)
    <3>1. q # <<>> OBVIOUS
    <3> QED BY <3>1, SequenceEmptyOrAppend
  <2>2. Len(p) = n BY <2>1
  <2> QED BY <1>2, <2>1, <2>2
<1> HIDE DEF N
<1>3. Nat \subseteq N BY <1>1, <1>2, NatSetInduction
<1> QED BY <1>3 DEF N

KeptIn(g, q, K, n) ==
  IF n = 0 THEN <<>> ELSE IF q[n].key \in K THEN Append(g[n - 1], q[n]) ELSE g[n - 1]
KeepsTo(g, q, K, n) == g = [m \in 0..n |-> KeptIn(g, q, K, m)]
Keeper(q, K) == CHOOSE g : KeepsTo(g, q, K, Len(q))

LEMMA KeptIsChosen == ASSUME NEW q, NEW K PROVE Kept(q, K) = Keeper(q, K)[Len(q)]
BY DEF Kept, Keeper, KeepsTo, KeptIn

LEMMA KeeperExists ==
  ASSUME NEW q, NEW K, NEW n \in Nat
  PROVE  \E g : KeepsTo(g, q, K, n)
<1> DEFINE N == {m \in Nat : \E g : KeepsTo(g, q, K, m)}
<1>1. 0 \in N
  <2>1. KeepsTo([m \in 0..0 |-> <<>>], q, K, 0) BY DEF KeepsTo, KeptIn
  <2> QED BY <2>1
<1>2. ASSUME NEW m \in Nat, m \in N PROVE m + 1 \in N
  <2>1. PICK g : KeepsTo(g, q, K, m) BY <1>2
  <2> DEFINE h == [i \in 0..(m + 1) |-> KeptIn(g, q, K, i)]
  <2>2. \A i \in 0..m : h[i] = g[i]
    <3>1. \A i \in 0..m : g[i] = KeptIn(g, q, K, i) BY <2>1 DEF KeepsTo
    <3> QED BY <3>1
  <2>3. \A i \in 0..(m + 1) : KeptIn(g, q, K, i) = KeptIn(h, q, K, i)
    <3> SUFFICES ASSUME NEW i \in 0..(m + 1) PROVE KeptIn(g, q, K, i) = KeptIn(h, q, K, i) OBVIOUS
    <3>1. CASE i = 0 BY <3>1 DEF KeptIn
    <3>2. CASE i # 0
      <4>1. i - 1 \in 0..m BY <3>2
      <4>2. h[i - 1] = g[i - 1] BY <4>1, <2>2
      <4> HIDE DEF h
      <4> QED BY <3>2, <4>2 DEF KeptIn
    <3> QED BY <3>1, <3>2
  <2>4. KeepsTo(h, q, K, m + 1) BY <2>3 DEF KeepsTo
  <2> QED BY <2>4
<1> HIDE DEF N
<1>3. Nat \subseteq N BY <1>1, <1>2, NatSetInduction
<1> QED BY <1>3 DEF N

LEMMA KeepersAgree ==
  ASSUME NEW p, NEW q, NEW K, NEW n \in Nat, NEW l \in Nat, n <= l, NEW g, NEW h,
         KeepsTo(g, p, K, n), KeepsTo(h, q, K, l), \A i \in 1..n : p[i] = q[i]
  PROVE  g[n] = h[n]
<1> DEFINE N == {m \in Nat : m <= n => g[m] = h[m]}
<1>1. \A m \in 0..n : g[m] = KeptIn(g, p, K, m) BY DEF KeepsTo
<1>2. \A m \in 0..l : h[m] = KeptIn(h, q, K, m) BY DEF KeepsTo
<1>3. 0 \in N BY <1>1, <1>2 DEF KeptIn
<1>4. ASSUME NEW m \in Nat, m \in N PROVE m + 1 \in N
  <2> SUFFICES ASSUME m + 1 <= n PROVE g[m + 1] = h[m + 1] OBVIOUS
  <2>1. m + 1 \in 0..n /\ m + 1 \in 0..l /\ m + 1 # 0 /\ (m + 1) - 1 = m OBVIOUS
  <2>2. g[m] = h[m] /\ p[m + 1] = q[m + 1] BY <1>4, <2>1
  <2>3. g[m + 1] = KeptIn(g, p, K, m + 1) /\ h[m + 1] = KeptIn(h, q, K, m + 1)
    BY <1>1, <1>2, <2>1
  <2> QED BY <2>1, <2>2, <2>3 DEF KeptIn
<1> HIDE DEF N
<1>5. Nat \subseteq N BY <1>3, <1>4, NatSetInduction
<1> QED BY <1>5 DEF N

LEMMA KeptOfNone == ASSUME NEW K PROVE Kept(<<>>, K) = <<>>
<1>1. KeepsTo(Keeper(<<>>, K), <<>>, K, Len(<<>>)) BY KeeperExists DEF Keeper
<1>2. Keeper(<<>>, K)[0] = <<>> BY <1>1 DEF KeepsTo, KeptIn
<1> QED BY <1>2, KeptIsChosen

LEMMA KeptAppend ==
  ASSUME NEW T, NEW q \in Seq(T), NEW e \in T, NEW K
  PROVE  Kept(Append(q, e), K) = IF e.key \in K THEN Append(Kept(q, K), e) ELSE Kept(q, K)
<1> DEFINE p == Append(q, e)
           n == Len(q)
           g == Keeper(q, K)
           h == Keeper(p, K)
<1>1. n \in Nat /\ Len(p) = n + 1 /\ p[n + 1] = e /\ \A i \in 1..n : p[i] = q[i]
  BY AppendProperties
<1>2. KeepsTo(g, q, K, n) BY <1>1, KeeperExists DEF Keeper
<1>3. KeepsTo(h, p, K, n + 1) BY <1>1, KeeperExists DEF Keeper
<1>4. Kept(q, K) = g[n] /\ Kept(p, K) = h[n + 1] BY <1>1, KeptIsChosen
<1> HIDE DEF p, g, h, n
<1>5. g[n] = h[n]
  <2>1. n + 1 \in Nat /\ n <= n + 1 BY <1>1
  <2> QED BY <1>1, <1>2, <1>3, <2>1, KeepersAgree
<1>6. h[n + 1] = KeptIn(h, p, K, n + 1)
  <2>1. n + 1 \in 0..(n + 1) BY <1>1
  <2>2. \A m \in 0..(n + 1) : h[m] = KeptIn(h, p, K, m) BY <1>3 DEF KeepsTo
  <2> QED BY <2>1, <2>2
<1>7. (n + 1) - 1 = n /\ n + 1 # 0 BY <1>1
<1> QED BY <1>1, <1>4, <1>5, <1>6, <1>7 DEF KeptIn, p

LEMMA AppendRange ==
  ASSUME NEW T, NEW q \in Seq(T), NEW e \in T
  PROVE  Range(Append(q, e)) = Range(q) \union {e}
<1>1. /\ DOMAIN Append(q, e) = 1..(Len(q) + 1) /\ DOMAIN q = 1..Len(q) /\ Len(q) \in Nat
      /\ Append(q, e)[Len(q) + 1] = e /\ \A i \in 1..Len(q) : Append(q, e)[i] = q[i]
  BY AppendProperties
<1> QED BY <1>1 DEF Range

LEMMA EmptyRange == Range(<<>>) = {}
BY DEF Range

LEMMA KeptIsASequence ==
  ASSUME NEW T, NEW K
  PROVE  \A q \in Seq(T) : Kept(q, K) \in Seq(T)
<1> DEFINE P == {q \in Seq(T) : Kept(q, K) \in Seq(T)}
<1>1. <<>> \in P BY KeptOfNone, EmptySeq
<1>2. ASSUME NEW q \in Seq(T), NEW e \in T, q \in P PROVE Append(q, e) \in P
  <2>1. Kept(Append(q, e), K) = IF e.key \in K THEN Append(Kept(q, K), e) ELSE Kept(q, K)
    BY KeptAppend
  <2> QED BY <1>2, <2>1, AppendProperties
<1> HIDE DEF P
<1>3. Seq(T) \subseteq P BY <1>1, <1>2, SequenceSetInduction
<1> QED BY <1>3 DEF P

LEMMA KeptRange ==
  ASSUME NEW T, NEW K
  PROVE  \A q \in Seq(T) : Range(Kept(q, K)) = {e \in Range(q) : e.key \in K}
<1> DEFINE P == {q \in Seq(T) : Range(Kept(q, K)) = {e \in Range(q) : e.key \in K}}
<1>1. <<>> \in P BY KeptOfNone, EmptyRange
<1>2. ASSUME NEW q \in Seq(T), NEW e \in T, q \in P PROVE Append(q, e) \in P
  <2>1. Kept(Append(q, e), K) = IF e.key \in K THEN Append(Kept(q, K), e) ELSE Kept(q, K)
    BY KeptAppend
  <2>2. Kept(q, K) \in Seq(T) BY KeptIsASequence
  <2>3. Range(Append(q, e)) = Range(q) \union {e} BY AppendRange
  <2>4. Range(Append(Kept(q, K), e)) = Range(Kept(q, K)) \union {e} BY <2>2, AppendRange
  <2>5. Range(Kept(q, K)) = {x \in Range(q) : x.key \in K} BY <1>2
  <2>6. Append(q, e) \in Seq(T) BY AppendProperties
  <2>7. Range(Kept(Append(q, e), K)) = {x \in Range(Append(q, e)) : x.key \in K}
    <3>1. CASE e.key \in K BY <3>1, <2>1, <2>3, <2>4, <2>5
    <3>2. CASE e.key \notin K BY <3>2, <2>1, <2>3, <2>5
    <3> QED BY <3>1, <3>2
  <2> QED BY <2>6, <2>7
<1> HIDE DEF P
<1>3. Seq(T) \subseteq P BY <1>1, <1>2, SequenceSetInduction
<1> QED BY <1>3 DEF P

LEMMA KeptTwice ==
  ASSUME NEW T, NEW K, NEW L
  PROVE  \A q \in Seq(T) : Kept(Kept(q, K), L) = Kept(q, K \cap L)
<1> DEFINE P == {q \in Seq(T) : Kept(Kept(q, K), L) = Kept(q, K \cap L)}
<1>1. <<>> \in P BY KeptOfNone
<1>2. ASSUME NEW q \in Seq(T), NEW e \in T, q \in P PROVE Append(q, e) \in P
  <2>1. Kept(Append(q, e), K) = IF e.key \in K THEN Append(Kept(q, K), e) ELSE Kept(q, K)
    BY KeptAppend
  <2>2. Kept(q, K) \in Seq(T) BY KeptIsASequence
  <2>3. Kept(Append(Kept(q, K), e), L) =
          IF e.key \in L THEN Append(Kept(Kept(q, K), L), e) ELSE Kept(Kept(q, K), L)
    BY <2>2, KeptAppend
  <2>4. Kept(Append(q, e), K \cap L) =
          IF e.key \in K \cap L THEN Append(Kept(q, K \cap L), e) ELSE Kept(q, K \cap L)
    BY KeptAppend
  <2>5. Append(q, e) \in Seq(T) BY AppendProperties
  <2>6. Kept(Kept(q, K), L) = Kept(q, K \cap L) BY <1>2
  <2>7. Kept(Kept(Append(q, e), K), L) = Kept(Append(q, e), K \cap L)
    <3> DEFINE both == e.key \in K \cap L
    <3>1. both <=> e.key \in K /\ e.key \in L OBVIOUS
    <3> HIDE DEF both
    <3>2. CASE e.key \in K /\ e.key \in L BY ONLY <3>1, <3>2, <2>1, <2>3, <2>4, <2>6 DEF both
    <3>3. CASE e.key \in K /\ e.key \notin L BY ONLY <3>1, <3>3, <2>1, <2>3, <2>4, <2>6 DEF both
    <3>4. CASE e.key \notin K BY ONLY <3>1, <3>4, <2>1, <2>4, <2>6 DEF both
    <3> QED BY <3>2, <3>3, <3>4
  <2> QED BY <2>5, <2>7
<1> HIDE DEF P
<1>3. Seq(T) \subseteq P BY <1>1, <1>2, SequenceSetInduction
<1> QED BY <1>3 DEF P

LEMMA KeptOfAll ==
  ASSUME NEW T, NEW K, \A e \in T : e.key \in K
  PROVE  \A q \in Seq(T) : Kept(q, K) = q
<1> DEFINE P == {q \in Seq(T) : Kept(q, K) = q}
<1>1. <<>> \in P BY KeptOfNone
<1>2. ASSUME NEW q \in Seq(T), NEW e \in T, q \in P PROVE Append(q, e) \in P
  <2>1. Kept(Append(q, e), K) = IF e.key \in K THEN Append(Kept(q, K), e) ELSE Kept(q, K)
    BY KeptAppend
  <2> QED BY <1>2, <2>1, AppendProperties
<1> HIDE DEF P
<1>3. Seq(T) \subseteq P BY <1>1, <1>2, SequenceSetInduction
<1> QED BY <1>3 DEF P

LEMMA ConcatAppend ==
  ASSUME NEW T, NEW p \in Seq(T), NEW q \in Seq(T), NEW e \in T
  PROVE  p \o Append(q, e) = Append(p \o q, e)
<1>1. /\ Append(q, e) = q \o <<e>> /\ Append(p \o q, e) = (p \o q) \o <<e>>
      /\ p \o q \in Seq(T) /\ <<e>> \in Seq(T)
  BY AppendIsConcat, ConcatProperties
<1> QED BY <1>1, ConcatAssociative

LEMMA KeptOfPushed ==
  ASSUME NEW T, NEW K, NEW f \in T
  PROVE  \A q \in Seq(T) :
           /\ f.key \in K => Kept(<<f>> \o q, K) = <<f>> \o Kept(q, K)
           /\ f.key \notin K => Kept(<<f>> \o q, K) = Kept(q, K)
<1> DEFINE Pushed(q) == IF f.key \in K THEN <<f>> \o Kept(q, K) ELSE Kept(q, K)
           P == {q \in Seq(T) : Kept(<<f>> \o q, K) = Pushed(q)}
<1>1. <<>> \in P
  <2>1. /\ <<f>> \o <<>> = <<f>> /\ <<f>> = Append(<<>>, f) /\ <<>> \in Seq(T)
    BY ConcatEmptySeq
  <2>2. Kept(Append(<<>>, f), K) = IF f.key \in K THEN Append(Kept(<<>>, K), f) ELSE Kept(<<>>, K)
    BY <2>1, KeptAppend
  <2> QED BY <2>1, <2>2, KeptOfNone
<1>2. ASSUME NEW q \in Seq(T), NEW e \in T, q \in P PROVE Append(q, e) \in P
  <2>1. <<f>> \in Seq(T) /\ <<f>> \o q \in Seq(T) /\ Append(q, e) \in Seq(T) /\ Kept(q, K) \in Seq(T)
    BY ConcatProperties, AppendProperties, KeptIsASequence
  <2>2. <<f>> \o Append(q, e) = Append(<<f>> \o q, e) BY <2>1, ConcatAppend
  <2>3. Kept(Append(<<f>> \o q, e), K) =
          IF e.key \in K THEN Append(Kept(<<f>> \o q, K), e) ELSE Kept(<<f>> \o q, K)
    BY <2>1, KeptAppend
  <2>4. Kept(Append(q, e), K) = IF e.key \in K THEN Append(Kept(q, K), e) ELSE Kept(q, K)
    BY KeptAppend
  <2>5. <<f>> \o Append(Kept(q, K), e) = Append(<<f>> \o Kept(q, K), e) BY <2>1, ConcatAppend
  <2>6. Kept(<<f>> \o q, K) = Pushed(q) BY <1>2
  <2>7. Kept(<<f>> \o Append(q, e), K) = Pushed(Append(q, e))
    <3> HIDE <1>2
    <3>1. CASE e.key \in K BY <3>1, <2>2, <2>3, <2>4, <2>5, <2>6
    <3>2. CASE e.key \notin K BY <3>2, <2>2, <2>3, <2>4, <2>6
    <3> QED BY <3>1, <3>2
  <2> QED BY <2>1, <2>7
<1> HIDE DEF P
<1>3. Seq(T) \subseteq P BY <1>1, <1>2, SequenceSetInduction
<1> QED BY <1>3 DEF P

\* What a list leaves out makes it shorter.
LEMMA KeptLength ==
  ASSUME NEW T, NEW K
  PROVE  \A q \in Seq(T) :
           /\ Len(Kept(q, K)) <= Len(q)
           /\ \A e \in Range(q) : e.key \notin K => Len(Kept(q, K)) < Len(q)
<1> DEFINE Shorter(q) == /\ Len(Kept(q, K)) <= Len(q)
                         /\ \A e \in Range(q) : e.key \notin K => Len(Kept(q, K)) < Len(q)
           P == {q \in Seq(T) : Shorter(q)}
<1>1. <<>> \in P BY KeptOfNone, EmptyRange
<1>2. ASSUME NEW q \in Seq(T), NEW e \in T, q \in P PROVE Append(q, e) \in P
  <2>1. Kept(Append(q, e), K) = IF e.key \in K THEN Append(Kept(q, K), e) ELSE Kept(q, K)
    BY KeptAppend
  <2>2. Kept(q, K) \in Seq(T) BY KeptIsASequence
  <2>3. Range(Append(q, e)) = Range(q) \union {e} BY AppendRange
  <2>4. Append(q, e) \in Seq(T) /\ Len(Append(q, e)) = Len(q) + 1 /\ Len(q) \in Nat
    BY AppendProperties
  <2>5. Len(Append(Kept(q, K), e)) = Len(Kept(q, K)) + 1 /\ Len(Kept(q, K)) \in Nat
    BY <2>2, AppendProperties
  <2>6. Shorter(q) BY <1>2
  <2>7. Shorter(Append(q, e))
    <3>1. CASE e.key \in K BY <3>1, <2>1, <2>3, <2>4, <2>5, <2>6
    <3>2. CASE e.key \notin K BY <3>2, <2>1, <2>3, <2>4, <2>5, <2>6
    <3> QED BY <3>1, <3>2
  <2> QED BY <2>4, <2>7
<1> HIDE DEF P
<1>3. Seq(T) \subseteq P BY <1>1, <1>2, SequenceSetInduction
<1> QED BY <1>3 DEF P

-----------------------------------------------------------------------------
(* What lists cost.                                                          *)

CostsOf(q) == [i \in DOMAIN q |-> q[i].cost]

LEMMA CostOfNone == CostOf(<<>>) = 0
<1>1. DOMAIN CostsOf(<<>>) = {} BY DEF CostsOf
<1> QED BY <1>1, SumOfNone, SumOverDomain DEF CostOf, CostsOf

LEMMA CostAppend ==
  ASSUME NEW T, \A e \in T : e.cost \in Nat, NEW q \in Seq(T), NEW e \in T
  PROVE  CostOf(Append(q, e)) = CostOf(q) + e.cost
<1> DEFINE p == Append(q, e)
           f == CostsOf(p)
           g == CostsOf(q)
           n == Len(q)
<1>1. /\ n \in Nat /\ DOMAIN p = 1..(n + 1) /\ DOMAIN q = 1..n
      /\ p[n + 1] = e /\ \A i \in 1..n : p[i] = q[i] /\ q[i] \in T
  BY AppendProperties, ElementOfSeq
<1>2. CostOf(p) = SumFunctionOnSet(f, 1..(n + 1)) /\ CostOf(q) = SumFunctionOnSet(g, 1..n)
  <2>1. DOMAIN f = 1..(n + 1) /\ DOMAIN g = 1..n BY <1>1 DEF CostsOf
  <2>2. CostOf(p) = SumFunction(f) /\ CostOf(q) = SumFunction(g) BY DEF CostOf, CostsOf
  <2> HIDE DEF f, g, n
  <2> QED BY <2>1, <2>2, SumOverDomain
<1>3. /\ \A i \in 1..(n + 1) : f[i] = p[i].cost
      /\ \A i \in 1..n : g[i] = q[i].cost
  BY <1>1 DEF CostsOf
<1> HIDE DEF p, f, g, n
<1>4. IsFiniteSet(1..(n + 1)) /\ IsFiniteSet(1..n) BY <1>1, FS_Interval
<1>5. (1..(n + 1)) \ {n + 1} = 1..n /\ n + 1 \in 1..(n + 1) BY <1>1
<1>6. \A i \in 1..(n + 1) : f[i] \in Int
  <2>1. \A i \in 1..(n + 1) : i = n + 1 \/ i \in 1..n BY <1>1
  <2>2. \A i \in 1..(n + 1) : p[i] \in T BY <1>1, <2>1
  <2> QED BY <1>3, <2>2
<1>7. SumFunctionOnSet(f, 1..(n + 1)) = f[n + 1] + SumFunctionOnSet(f, 1..n)
  <2>1. SumFunctionOnSet(f, 1..(n + 1)) = f[n + 1] + SumFunctionOnSet(f, (1..(n + 1)) \ {n + 1})
    BY <1>4, <1>5, <1>6, SumRemove
  <2> QED BY <1>5, <2>1
<1>8. SumFunctionOnSet(f, 1..n) = SumFunctionOnSet(g, 1..n)
  <2>1. \A i \in 1..n : f[i] = g[i] BY <1>1, <1>3
  <2> QED BY <1>4, <2>1, SumsAgree
<1>9. f[n + 1] = e.cost BY <1>1, <1>3, <1>5
<1>10. SumFunctionOnSet(g, 1..n) \in Int
  <2>1. \A i \in 1..n : g[i] \in Int BY <1>1, <1>3
  <2> QED BY <1>4, <2>1, SumIsInteger
<1>11. e.cost \in Nat OBVIOUS
<1> QED BY <1>2, <1>7, <1>8, <1>9, <1>10, <1>11 DEF p

LEMMA CostIsNatural ==
  ASSUME NEW T, \A e \in T : e.cost \in Nat
  PROVE  \A q \in Seq(T) : CostOf(q) \in Nat
<1> DEFINE P == {q \in Seq(T) : CostOf(q) \in Nat}
<1>1. <<>> \in P BY CostOfNone, EmptySeq
<1>2. ASSUME NEW q \in Seq(T), NEW e \in T, q \in P PROVE Append(q, e) \in P
  <2>1. CostOf(Append(q, e)) = CostOf(q) + e.cost BY CostAppend
  <2>2. CostOf(q) \in Nat /\ e.cost \in Nat BY <1>2
  <2> QED BY <2>1, <2>2, AppendProperties
<1> HIDE DEF P
<1>3. Seq(T) \subseteq P BY <1>1, <1>2, SequenceSetInduction
<1> QED BY <1>3 DEF P

LEMMA CostOfPushed ==
  ASSUME NEW T, \A e \in T : e.cost \in Nat, NEW f \in T
  PROVE  \A q \in Seq(T) : CostOf(<<f>> \o q) = f.cost + CostOf(q)
<1> DEFINE P == {q \in Seq(T) : CostOf(<<f>> \o q) = f.cost + CostOf(q)}
<1>1. <<>> \in P
  <2>1. <<f>> \o <<>> = Append(<<>>, f) /\ <<>> \in Seq(T) BY ConcatEmptySeq
  <2>2. CostOf(Append(<<>>, f)) = CostOf(<<>>) + f.cost BY <2>1, CostAppend
  <2>3. f.cost \in Nat OBVIOUS
  <2> QED BY <2>1, <2>2, <2>3, CostOfNone
<1>2. ASSUME NEW q \in Seq(T), NEW e \in T, q \in P PROVE Append(q, e) \in P
  <2>1. <<f>> \in Seq(T) /\ <<f>> \o q \in Seq(T) /\ Append(q, e) \in Seq(T)
    BY ConcatProperties, AppendProperties
  <2>2. <<f>> \o Append(q, e) = Append(<<f>> \o q, e) BY <2>1, ConcatAppend
  <2>3. CostOf(Append(<<f>> \o q, e)) = CostOf(<<f>> \o q) + e.cost BY <2>1, CostAppend
  <2>4. CostOf(Append(q, e)) = CostOf(q) + e.cost BY CostAppend
  <2>5. CostOf(q) \in Nat /\ f.cost \in Nat /\ e.cost \in Nat BY CostIsNatural
  <2>6. CostOf(<<f>> \o q) = f.cost + CostOf(q) BY <1>2
  <2>7. CostOf(<<f>> \o Append(q, e)) = f.cost + CostOf(Append(q, e))
    <3> DEFINE u == CostOf(<<f>> \o Append(q, e))
               v == CostOf(<<f>> \o q)
               w == CostOf(Append(q, e))
               z == CostOf(q)
    <3>1. u = v + e.cost BY Zenon, <2>2, <2>3
    <3>2. w = z + e.cost /\ v = f.cost + z /\ z \in Nat BY Zenon, <2>4, <2>5, <2>6
    <3> HIDE DEF u, v, w, z
    <3>3. u = f.cost + w BY <2>5, <3>1, <3>2
    <3> QED BY <3>3 DEF u, w
  <2> QED BY <2>1, <2>7
<1> HIDE DEF P
<1>3. Seq(T) \subseteq P BY <1>1, <1>2, SequenceSetInduction
<1> QED BY <1>3 DEF P

LEMMA CostSplits ==
  ASSUME NEW T, \A e \in T : e.cost \in Nat, NEW K, NEW L, K \cap L = {}
  PROVE  \A q \in Seq(T) :
           CostOf(Kept(q, K \union L)) = CostOf(Kept(q, K)) + CostOf(Kept(q, L))
<1> DEFINE KL == K \union L
           P == {q \in Seq(T) : CostOf(Kept(q, KL)) = CostOf(Kept(q, K)) + CostOf(Kept(q, L))}
<1>1. <<>> \in P BY KeptOfNone, CostOfNone, EmptySeq
<1>2. ASSUME NEW q \in Seq(T), NEW e \in T, q \in P PROVE Append(q, e) \in P
  <2> DEFINE Cost(M) == CostOf(Kept(q, M))
             More(M) == CostOf(Kept(Append(q, e), M))
  <2>1. ASSUME NEW M
        PROVE  /\ Cost(M) \in Nat
               /\ e.key \in M => More(M) = Cost(M) + e.cost
               /\ e.key \notin M => More(M) = Cost(M)
    <3>1. Kept(Append(q, e), M) = IF e.key \in M THEN Append(Kept(q, M), e) ELSE Kept(q, M)
      BY KeptAppend
    <3>2. Kept(q, M) \in Seq(T) BY KeptIsASequence
    <3>3. CostOf(Append(Kept(q, M), e)) = Cost(M) + e.cost BY <3>2, CostAppend
    <3>4. Cost(M) \in Nat BY <3>2, CostIsNatural
    <3> QED BY <3>1, <3>3, <3>4
  <2>2. /\ e.key \in KL <=> e.key \in K \/ e.key \in L
        /\ ~(e.key \in K /\ e.key \in L)
        /\ e.cost \in Nat
    OBVIOUS
  <2>3. Cost(KL) = Cost(K) + Cost(L) BY <1>2
  <2>4. Append(q, e) \in Seq(T) BY AppendProperties
  <2> HIDE DEF Cost, More, KL
  <2>5. More(KL) = More(K) + More(L) BY <2>1, <2>2, <2>3
  <2> QED BY <2>4, <2>5 DEF More
<1> HIDE DEF P
<1>3. Seq(T) \subseteq P BY <1>1, <1>2, SequenceSetInduction
<1> QED BY <1>3 DEF P

LEMMA CostCovers ==
  ASSUME NEW T, \A e \in T : e.cost \in Nat
  PROVE  \A q \in Seq(T) : \A e \in Range(q) : e \in T /\ e.cost <= CostOf(q)
<1> DEFINE P == {q \in Seq(T) : \A e \in Range(q) : e \in T /\ e.cost <= CostOf(q)}
<1>1. <<>> \in P BY EmptyRange, EmptySeq
<1>2. ASSUME NEW q \in Seq(T), NEW f \in T, q \in P PROVE Append(q, f) \in P
  <2>1. CostOf(Append(q, f)) = CostOf(q) + f.cost BY CostAppend
  <2>2. Range(Append(q, f)) = Range(q) \union {f} BY AppendRange
  <2>3. CostOf(q) \in Nat /\ f.cost \in Nat BY CostIsNatural
  <2>4. \A e \in Range(q) : e \in T /\ e.cost <= CostOf(q) BY <1>2
  <2>5. \A e \in Range(Append(q, f)) : e \in T /\ e.cost <= CostOf(Append(q, f))
    <3> SUFFICES ASSUME NEW e \in Range(Append(q, f))
                 PROVE  e \in T /\ e.cost <= CostOf(Append(q, f))
      OBVIOUS
    <3>1. CASE e \in Range(q)
      <4>1. e \in T /\ e.cost <= CostOf(q) /\ e.cost \in Nat BY <2>4, <3>1
      <4> QED BY <4>1, <2>1, <2>3
    <3>2. CASE e = f BY <3>2, <2>1, <2>3
    <3> QED BY <2>2, <3>1, <3>2
  <2>6. Append(q, f) \in Seq(T) BY AppendProperties
  <2> QED BY <2>5, <2>6
<1> HIDE DEF P
<1>3. Seq(T) \subseteq P BY <1>1, <1>2, SequenceSetInduction
<1> QED BY <1>3 DEF P

LEMMA PrefixOfAppend ==
  ASSUME NEW T, NEW q \in Seq(T), NEW e \in T, NEW n \in 0..Len(Append(q, e))
  PROVE  SubSeq(Append(q, e), 1, n) = Append(q, e) \/ (n \in 0..Len(q) /\ SubSeq(Append(q, e), 1, n) = SubSeq(q, 1, n))
<1>1. Append(q, e) \in Seq(T) /\ Len(Append(q, e)) = Len(q) + 1 /\ Len(q) \in Nat
      /\ \A i \in 1..Len(q) : Append(q, e)[i] = q[i]
  BY AppendProperties
<1>2. CASE n = Len(q) + 1 BY <1>1, <1>2, SubSeqFull
<1>3. CASE n # Len(q) + 1
  <2>1. n \in 0..Len(q) BY <1>1, <1>3
  <2>2. SubSeq(Append(q, e), 1, n) = SubSeq(q, 1, n) BY <1>1, <2>1
  <2> QED BY <2>1, <2>2
<1> QED BY <1>2, <1>3

LEMMA CostOfPrefix ==
  ASSUME NEW T, \A e \in T : e.cost \in Nat, NEW K
  PROVE  \A q \in Seq(T) : \A n \in 0..Len(q) : CostOf(Kept(SubSeq(q, 1, n), K)) <= CostOf(Kept(q, K))
<1> DEFINE Less(q) == \A n \in 0..Len(q) : CostOf(Kept(SubSeq(q, 1, n), K)) <= CostOf(Kept(q, K))
           P == {q \in Seq(T) : Less(q)}
<1>1. <<>> \in P
  <2>1. ASSUME NEW n \in 0..Len(<<>>) PROVE SubSeq(<<>>, 1, n) = <<>>
    <3>1. n \in Int /\ n < 1 OBVIOUS
    <3> QED BY <3>1, SubSeqEmpty
  <2>2. \A n \in 0..Len(<<>>) : CostOf(Kept(SubSeq(<<>>, 1, n), K)) = 0 BY Zenon, <2>1, KeptOfNone, CostOfNone
  <2>3. CostOf(Kept(<<>>, K)) = 0 BY Zenon, KeptOfNone, CostOfNone
  <2>4. Less(<<>>)
    <3> SUFFICES ASSUME NEW n \in 0..Len(<<>>)
                 PROVE  CostOf(Kept(SubSeq(<<>>, 1, n), K)) <= CostOf(Kept(<<>>, K))
      OBVIOUS
    <3> DEFINE a == CostOf(Kept(SubSeq(<<>>, 1, n), K))
               b == CostOf(Kept(<<>>, K))
    <3>1. a = 0 /\ b = 0 BY Zenon, <2>2, <2>3
    <3> HIDE DEF a, b
    <3>2. a <= b BY <3>1
    <3> QED BY <3>2 DEF a, b
  <2> QED BY <2>4, EmptySeq
<1>2. ASSUME NEW q \in Seq(T), NEW e \in T, q \in P PROVE Append(q, e) \in P
  <2> DEFINE p == Append(q, e)
  <2>1. p \in Seq(T) BY AppendProperties
  <2>2. CostOf(Kept(q, K)) \in Nat /\ CostOf(Kept(p, K)) \in Nat BY <2>1, KeptIsASequence, CostIsNatural
  <2>3. CostOf(Kept(q, K)) <= CostOf(Kept(p, K))
    <3>1. Kept(p, K) = IF e.key \in K THEN Append(Kept(q, K), e) ELSE Kept(q, K) BY KeptAppend
    <3>2. Kept(q, K) \in Seq(T) BY KeptIsASequence
    <3>3. CostOf(Append(Kept(q, K), e)) = CostOf(Kept(q, K)) + e.cost BY <3>2, CostAppend
    <3>4. e.cost \in Nat OBVIOUS
    <3> HIDE DEF p
    <3> QED BY <3>1, <3>3, <3>4, <2>2
  <2>4. ASSUME NEW n \in 0..Len(p) PROVE CostOf(Kept(SubSeq(p, 1, n), K)) <= CostOf(Kept(p, K))
    <3>1. SubSeq(p, 1, n) = p \/ (n \in 0..Len(q) /\ SubSeq(p, 1, n) = SubSeq(q, 1, n))
      BY PrefixOfAppend
    <3> DEFINE c == SubSeq(p, 1, n)
               d == SubSeq(q, 1, n)
    <3>2. n \in 0..Len(q) => CostOf(Kept(d, K)) \in Nat /\ CostOf(Kept(d, K)) <= CostOf(Kept(q, K))
      <4> SUFFICES ASSUME n \in 0..Len(q)
                   PROVE  CostOf(Kept(d, K)) \in Nat /\ CostOf(Kept(d, K)) <= CostOf(Kept(q, K))
        OBVIOUS
      <4>1. CostOf(Kept(d, K)) <= CostOf(Kept(q, K)) BY <1>2
      <4>2. d \in Seq(T)
        <5>1. \A i \in 1..n : q[i] \in T BY ElementOfSeq
        <5> QED BY <5>1, SubSeqProperties
      <4> HIDE DEF d
      <4>3. CostOf(Kept(d, K)) \in Nat BY <4>2, KeptIsASequence, CostIsNatural
      <4> QED BY <4>1, <4>3
    <3>3. c = p \/ (n \in 0..Len(q) /\ c = d) BY Zenon, <3>1
    <3> HIDE DEF c, d, p
    <3>4. CostOf(Kept(c, K)) <= CostOf(Kept(p, K)) BY <3>2, <3>3, <2>2, <2>3
    <3> QED BY Zenon, <3>4 DEF c
  <2> QED BY <2>1, <2>4
<1> HIDE DEF P
<1>3. Seq(T) \subseteq P BY <1>1, <1>2, SequenceSetInduction
<1> QED BY <1>3 DEF P

-----------------------------------------------------------------------------
(* The ping cache.                                                           *)

UniqueKeys(q) == \A i, j \in DOMAIN q : q[i].key = q[j].key => i = j

LEMMA AppendIsUnique ==
  ASSUME NEW T, NEW q \in Seq(T), NEW e \in T
  PROVE  UniqueKeys(Append(q, e)) <=> UniqueKeys(q) /\ \A f \in Range(q) : f.key # e.key
<1> DEFINE p == Append(q, e)
           n == Len(q)
<1>1. /\ n \in Nat /\ DOMAIN p = 1..(n + 1) /\ DOMAIN q = 1..n
      /\ p[n + 1] = e /\ \A i \in 1..n : p[i] = q[i]
  BY AppendProperties
<1> HIDE DEF p, n
<1>2. \A i \in 1..(n + 1) : i \in 1..n \/ i = n + 1 BY <1>1
<1>3. \A i \in 1..n : i \in 1..(n + 1) /\ i # n + 1 BY <1>1
<1>4. n + 1 \in 1..(n + 1) BY <1>1
<1>5. ASSUME UniqueKeys(p) PROVE UniqueKeys(q) /\ \A f \in Range(q) : f.key # e.key
  <2>1. UniqueKeys(q) BY <1>1, <1>3, <1>5 DEF UniqueKeys
  <2>2. ASSUME NEW i \in 1..n PROVE q[i].key # e.key
    <3>1. p[i] = q[i] /\ p[n + 1] = e /\ i # n + 1 /\ i \in DOMAIN p /\ n + 1 \in DOMAIN p
      BY <1>1, <1>3, <1>4
    <3> QED BY <1>5, <3>1 DEF UniqueKeys
  <2> QED BY <1>1, <2>1, <2>2 DEF Range
<1>6. ASSUME UniqueKeys(q), \A f \in Range(q) : f.key # e.key PROVE UniqueKeys(p)
  <2>1. \A i \in 1..n : q[i].key # e.key BY <1>1, <1>6 DEF Range
  <2> SUFFICES ASSUME NEW i \in 1..(n + 1), NEW j \in 1..(n + 1), p[i].key = p[j].key PROVE i = j
    BY <1>1 DEF UniqueKeys
  <2>2. CASE i \in 1..n /\ j \in 1..n BY <2>2, <1>1, <1>6 DEF UniqueKeys
  <2>3. CASE i \in 1..n /\ j = n + 1 BY <2>1, <2>3, <1>1
  <2>4. CASE i = n + 1 /\ j \in 1..n BY <2>1, <2>4, <1>1
  <2> QED BY <1>2, <2>2, <2>3, <2>4
<1> QED BY <1>5, <1>6 DEF p

LEMMA KeptIsUnique ==
  ASSUME NEW T, NEW K
  PROVE  \A q \in Seq(T) : UniqueKeys(q) => UniqueKeys(Kept(q, K))
<1> DEFINE P == {q \in Seq(T) : UniqueKeys(q) => UniqueKeys(Kept(q, K))}
<1>1. <<>> \in P BY KeptOfNone, EmptySeq
<1>2. ASSUME NEW q \in Seq(T), NEW e \in T, q \in P PROVE Append(q, e) \in P
  <2>1. Kept(Append(q, e), K) = IF e.key \in K THEN Append(Kept(q, K), e) ELSE Kept(q, K)
    BY KeptAppend
  <2>2. Kept(q, K) \in Seq(T) BY KeptIsASequence
  <2>3. UniqueKeys(Append(q, e)) <=> UniqueKeys(q) /\ \A f \in Range(q) : f.key # e.key
    BY AppendIsUnique
  <2>4. UniqueKeys(Append(Kept(q, K), e)) <=>
          UniqueKeys(Kept(q, K)) /\ \A f \in Range(Kept(q, K)) : f.key # e.key
    BY <2>2, AppendIsUnique
  <2>5. Range(Kept(q, K)) = {f \in Range(q) : f.key \in K} BY KeptRange
  <2>6. Append(q, e) \in Seq(T) BY AppendProperties
  <2>7. UniqueKeys(q) => UniqueKeys(Kept(q, K)) BY <1>2
  <2>8. UniqueKeys(Append(q, e)) => UniqueKeys(Kept(Append(q, e), K))
    BY ONLY <2>1, <2>3, <2>4, <2>5, <2>7
  <2> QED BY <2>6, <2>8
<1> HIDE DEF P
<1>3. Seq(T) \subseteq P BY <1>1, <1>2, SequenceSetInduction
<1> QED BY <1>3 DEF P

\* An entry in front of a list that has no other with its key.
LEMMA PushedList ==
  ASSUME NEW T, NEW q \in Seq(T), NEW e \in T
  PROVE  /\ <<e>> \o q \in Seq(T) /\ Len(<<e>> \o q) = Len(q) + 1
         /\ Range(<<e>> \o q) = Range(q) \union {e}
         /\ UniqueKeys(q) /\ (\A f \in Range(q) : f.key # e.key) => UniqueKeys(<<e>> \o q)
<1> DEFINE p == <<e>> \o q
           n == Len(q)
<1>1. <<e>> \in Seq(T) /\ Len(<<e>>) = 1 /\ <<e>>[1] = e OBVIOUS
<1>2. /\ p \in Seq(T) /\ Len(p) = n + 1 /\ n \in Nat
      /\ p[1] = e /\ \A i \in 1..(n + 1) : i # 1 => p[i] = q[i - 1]
  <2>1. /\ p \in Seq(T) /\ Len(p) = Len(<<e>>) + n
        /\ \A i \in 1..Len(p) : p[i] = IF i <= Len(<<e>>) THEN <<e>>[i] ELSE q[i - Len(<<e>>)]
    BY <1>1, ConcatProperties
  <2> HIDE DEF p
  <2> QED BY <2>1, <1>1
<1>3. DOMAIN p = 1..(n + 1) /\ DOMAIN q = 1..n BY <1>2
<1> HIDE DEF p, n
<1>4. \A i \in 1..n : i + 1 \in 1..(n + 1) /\ i + 1 # 1 /\ (i + 1) - 1 = i BY <1>2
<1>5. \A i \in 1..(n + 1) : i # 1 => i - 1 \in 1..n BY <1>2
<1>6. 1 \in 1..(n + 1) BY <1>2
<1>7. Range(p) = Range(q) \union {e}
  <2>1. ASSUME NEW x \in Range(p) PROVE x \in Range(q) \union {e}
    <3>1. PICK i \in 1..(n + 1) : x = p[i] BY <1>3 DEF Range
    <3> QED BY <1>2, <1>3, <1>5, <3>1 DEF Range
  <2>2. ASSUME NEW x \in Range(q) PROVE x \in Range(p)
    <3>1. PICK i \in 1..n : x = q[i] BY <1>3 DEF Range
    <3>2. p[i + 1] = x /\ i + 1 \in DOMAIN p BY <1>2, <1>3, <1>4, <3>1
    <3> QED BY <3>2 DEF Range
  <2>3. e \in Range(p) BY <1>2, <1>3, <1>6 DEF Range
  <2> QED BY <2>1, <2>2, <2>3
<1>8. ASSUME UniqueKeys(q), \A f \in Range(q) : f.key # e.key PROVE UniqueKeys(p)
  <2>1. \A i \in 1..n : q[i].key # e.key BY <1>3, <1>8 DEF Range
  <2> SUFFICES ASSUME NEW i \in 1..(n + 1), NEW j \in 1..(n + 1), p[i].key = p[j].key PROVE i = j
    BY <1>3 DEF UniqueKeys
  <2>2. CASE i = 1 /\ j = 1 BY <2>2
  <2>3. CASE i = 1 /\ j # 1 BY <2>1, <2>3, <1>2, <1>5
  <2>4. CASE i # 1 /\ j = 1 BY <2>1, <2>4, <1>2, <1>5
  <2>5. CASE i # 1 /\ j # 1
    <3>1. q[i - 1].key = q[j - 1].key BY <1>2, <2>5
    <3>2. i - 1 = j - 1 BY <1>3, <1>5, <1>8, <2>5, <3>1 DEF UniqueKeys
    <3> QED BY <3>2
  <2> QED BY <2>2, <2>3, <2>4, <2>5
<1> QED BY <1>2, <1>7, <1>8 DEF p, n

LEMMA PrefixList ==
  ASSUME NEW T, NEW q \in Seq(T), NEW n \in 0..Len(q)
  PROVE  /\ SubSeq(q, 1, n) \in Seq(T) /\ Len(SubSeq(q, 1, n)) = n
         /\ Range(SubSeq(q, 1, n)) \subseteq Range(q)
         /\ UniqueKeys(q) => UniqueKeys(SubSeq(q, 1, n))
<1> DEFINE p == SubSeq(q, 1, n)
<1>1. p \in Seq(T) /\ Len(p) = n /\ \A i \in 1..n : p[i] = q[i]
  <2>1. \A i \in 1..n : q[i] \in T BY ElementOfSeq
  <2>2. /\ p \in Seq(T) /\ Len(p) = IF 1 <= n THEN n - 1 + 1 ELSE 0
        /\ \A i \in 1..(n - 1 + 1) : p[i] = q[1 + i - 1]
    BY <2>1, SubSeqProperties
  <2> HIDE DEF p
  <2> QED BY <2>2
<1>2. DOMAIN p = 1..n /\ 1..n \subseteq DOMAIN q
  <2>1. DOMAIN q = 1..Len(q) OBVIOUS
  <2> HIDE DEF p
  <2> QED BY <1>1, <2>1
<1> HIDE DEF p
<1>3. Range(p) \subseteq Range(q) BY <1>1, <1>2 DEF Range
<1>4. UniqueKeys(q) => UniqueKeys(p) BY <1>1, <1>2 DEF UniqueKeys
<1> QED BY <1>1, <1>3, <1>4 DEF p

\* What an entry was stored with: a fresh answer, and the time that is left of it.
Grants(e, ttl) ==
  /\ Fresh(e.answer)
  /\ e.initialAge = InitialAge(e.answer)
  /\ e.expiresAt = e.responseAt + Remaining(e.answer, ttl)

PingEntry ==
  {e \in [key : PingKey, responseAt : Nat, answer : PingAnswer, initialAge : Int,
          expiresAt : Int, fetchedIn : Nat] : Grants(e, PingTTL)}

Looking == [at : {"first", "second", "waiting", "fetching", "direct"}, key : PingKey,
            follows : Request \union {Nobody}]
Reading == [at : {"reading"}, key : PingKey, entry : SUBSET PingEntry]
Serving == [at : {"served"}, entry : PingEntry, age : Int]
Still == [at : {"idle", "done"}]

\* A request that reads a body took its entry in the generation of its flight.
ReadsForItsFlight ==
  \A r \in Request : ping[r].at = "reading" =>
    \A e \in ping[r].entry : e.key = ping[r].key /\ e.fetchedIn = flightOf[r]

PingFlightsFlown ==
  \A k \in PingKey : inflight[k] # Nobody =>
    ping[inflight[k]].at \in {"fetching", "reading"} /\ ping[inflight[k]].key = k

PingServedFresh == \A r \in Request : ping[r].at = "served" => HonestAge(ping[r])

Cache(q) ==
  /\ q \in Seq(PingEntry) /\ UniqueKeys(q) /\ Len(q) <= MaxEntries
  /\ \A e \in Range(q) : e.fetchedIn = generation

PingTyped ==
  /\ ping \in [Request -> Looking \union Reading \union Serving \union Still]
  /\ inflight \in [PingKey -> Request \union {Nobody}]
  /\ flightOf \in [Request -> Nat]
  /\ generation \in Nat

PingInv ==
  /\ PingTyped /\ ReadsForItsFlight /\ PingFlightsFlown /\ PingServedFresh
  /\ Cache(entries)

LEMMA SecondsAreIntegers == \A n \in Int : Seconds(n) \in Int
BY SecondAssumption DEF Seconds

\* Rounding up adds less than a second.
LEMMA RoundsUp ==
  ASSUME NEW t \in Int
  PROVE  /\ RoundedUp(t) \in Int
         /\ Seconds(RoundedUp(t)) >= t /\ Seconds(RoundedUp(t) - 1) < t
BY SecondAssumption, SMTT(30) DEF RoundedUp, Seconds

LEMMA SecondsInOrder ==
  ASSUME NEW m \in Int, NEW n \in Int, Seconds(m) < Seconds(n) PROVE m < n
BY SecondAssumption, SMTT(30) DEF Seconds

LEMMA RoundsInOrder ==
  ASSUME NEW t \in Int, NEW u \in Int, t <= u PROVE RoundedUp(t) <= RoundedUp(u)
<1> DEFINE m == RoundedUp(t)
           n == RoundedUp(u)
<1>1. m \in Int /\ Seconds(m - 1) < t BY RoundsUp
<1>2. n \in Int /\ Seconds(n) >= u BY RoundsUp
<1> HIDE DEF m, n
<1>3. Seconds(m - 1) \in Int /\ Seconds(n) \in Int BY <1>1, <1>2, SecondsAreIntegers
<1>4. Seconds(m - 1) < Seconds(n) BY <1>1, <1>2, <1>3
<1>5. m - 1 < n BY <1>1, <1>2, <1>4, SecondsInOrder
<1> QED BY <1>1, <1>2, <1>5 DEF m, n

\* No fewer seconds than are in the ticks.
LEMMA RoundsAbove ==
  ASSUME NEW t \in Int, NEW n \in Int, Seconds(n) <= t PROVE n <= RoundedUp(t)
<1> DEFINE m == RoundedUp(t)
<1>1. m \in Int /\ Seconds(m) >= t BY RoundsUp
<1> HIDE DEF m
<1>2. Seconds(m) \in Int /\ Seconds(n) \in Int /\ Seconds(n) <= Seconds(m)
  BY <1>1, SecondsAreIntegers
<1>3. ~(m < n) BY <1>1, <1>2, SecondAssumption, SMTT(30) DEF Seconds
<1> QED BY <1>1, <1>3 DEF m

LEMMA HeadersAreIntegers ==
  ASSUME NEW a, IsAnswer(a)
  PROVE  {a.sMaxAge, a.maxAge, a.expires, a.age, a.dated} \subseteq Int
BY DEF IsAnswer, Absent

LEMMA InitialAgeIsInteger == ASSUME NEW a, IsAnswer(a) PROVE InitialAge(a) \in Int
<1>1. Seconds(a.age) \in Int /\ a.dated \in Int BY HeadersAreIntegers, SecondsAreIntegers
<1> QED BY <1>1 DEF InitialAge, Greater

LEMMA LifetimeIsInteger == ASSUME NEW a, IsAnswer(a) PROVE Lifetime(a) \in Int
<1>1. /\ Seconds(a.sMaxAge) \in Int /\ Seconds(a.maxAge) \in Int
      /\ a.expires \in Int /\ a.dated \in Int
  BY HeadersAreIntegers, SecondsAreIntegers
<1> QED BY <1>1 DEF Lifetime, Greater

LEMMA RemainingIsInteger ==
  ASSUME NEW a, IsAnswer(a), NEW ttl \in Nat PROVE Remaining(a, ttl) \in Int
BY InitialAgeIsInteger, LifetimeIsInteger DEF Remaining, Lesser

\* Short of its expiry an entry reports an age that is honest.
LEMMA AgeIsHonest ==
  ASSUME NEW e, NEW ttl \in Nat, NEW now \in Nat, IsAnswer(e.answer), Grants(e, ttl),
         e.responseAt \in Nat, now < e.expiresAt, NEW x, x.entry = e, x.age = AgeValue(e, now)
  PROVE  HonestAge(x) /\ x.age \in Int
<1> DEFINE a == e.answer
           l == Lifetime(a)
           i == InitialAge(a)
           t == i + Greater(now - e.responseAt, 0)
<1>1. i \in Int /\ i >= Seconds(a.age) /\ i >= a.dated
  <2>1. Seconds(a.age) \in Int /\ a.dated \in Int BY HeadersAreIntegers, SecondsAreIntegers
  <2> QED BY <2>1 DEF InitialAge, Greater
<1>2. l \in Int BY LifetimeIsInteger
<1>3. x.age = RoundedUp(t) BY DEF Grants, AgeValue
<1>4. Stated(a) => i < l /\ e.expiresAt <= e.responseAt + (l - i)
  <2> SUFFICES ASSUME Stated(a) PROVE i < l /\ e.expiresAt <= e.responseAt + (l - i) OBVIOUS
  <2>1. i < l BY <1>1, <1>2 DEF Grants, Fresh
  <2>2. e.expiresAt = e.responseAt + Lesser(ttl, l - i) BY DEF Grants, Remaining
  <2> HIDE DEF a, l, i
  <2> QED BY <1>1, <1>2, <2>1, <2>2 DEF Lesser
<1>5. e.expiresAt \in Int BY RemainingIsInteger DEF Grants
<1>6. /\ Seconds(a.age) \in Int /\ a.age \in Int /\ a.dated \in Int
  BY HeadersAreIntegers, SecondsAreIntegers
<1> HIDE DEF l, i
<1>7. /\ t \in Int /\ t >= Seconds(a.age) /\ t >= a.dated
      /\ Stated(a) => t <= l
  <2> HIDE DEF a
  <2> QED BY <1>1, <1>2, <1>4, <1>5, <1>6 DEF Greater
<1> HIDE DEF t
<1>8. x.age \in Int /\ x.age >= a.age
  <2>1. a.age <= RoundedUp(t) BY <1>6, <1>7, RoundsAbove
  <2> QED BY <1>3, <1>6, <1>7, <2>1, RoundsUp
<1>9. Seconds(x.age) >= a.dated
  <2>1. Seconds(x.age) >= t /\ Seconds(x.age) \in Int BY <1>3, <1>7, <1>8, RoundsUp, SecondsAreIntegers
  <2> HIDE DEF a
  <2> QED BY <1>6, <1>7, <2>1
<1>10. Stated(a) => x.age <= RoundedUp(l) BY <1>2, <1>3, <1>7, RoundsInOrder
<1> QED BY <1>8, <1>9, <1>10 DEF HonestAge, l

LEMMA PingEntryIsAnswer == ASSUME NEW e \in PingEntry PROVE IsAnswer(e.answer)
BY PingAssumption DEF PingEntry

LEMMA OthersAreCache ==
  ASSUME Cache(entries), NEW k \in PingKey
  PROVE  /\ Others(k) \in Seq(PingEntry) /\ UniqueKeys(Others(k)) /\ Len(Others(k)) <= Len(entries)
         /\ Len(Others(k)) \in Nat
         /\ \A e \in Range(entries) : e.key = k => Len(Others(k)) < Len(entries)
         /\ Range(Others(k)) \subseteq Range(entries)
         /\ \A e \in Range(Others(k)) : e.key # k
<1> DEFINE K == PingKey \ {k}
           q == entries
<1>1. Others(k) = Kept(q, K) /\ q \in Seq(PingEntry) /\ UniqueKeys(q) BY DEF Others, Cache
<1>2. k \notin K OBVIOUS
<1> HIDE DEF K, q
<1>3. Kept(q, K) \in Seq(PingEntry) BY <1>1, KeptIsASequence
<1>4. Range(Kept(q, K)) = {e \in Range(q) : e.key \in K} BY <1>1, KeptRange
<1>5. UniqueKeys(Kept(q, K)) BY <1>1, KeptIsUnique
<1>6. Len(Kept(q, K)) <= Len(q) /\ \A e \in Range(q) : e.key \notin K => Len(Kept(q, K)) < Len(q)
  BY <1>1, KeptLength
<1>7. Len(Kept(q, K)) \in Nat BY <1>3
<1>8. \A e \in Range(Kept(q, K)) : e \in Range(q) /\ e.key # k BY <1>2, <1>4
<1>9. \A e \in Range(q) : e.key = k => Len(Kept(q, K)) < Len(q) BY <1>2, <1>6
<1> QED BY <1>1, <1>3, <1>5, <1>6, <1>7, <1>8, <1>9 DEF q

LEMMA LookupKeepsCache ==
  ASSUME Cache(entries), NEW k \in PingKey
  PROVE  Cache(AfterLookup(k))
<1>1. CASE Live(k) = {}
  <2>1. AfterLookup(k) = Others(k) BY <1>1 DEF AfterLookup
  <2>2. Len(entries) \in Nat BY DEF Cache
  <2> QED BY <2>1, <2>2, OthersAreCache, PingAssumption DEF Cache
<1>2. CASE Live(k) # {}
  <2> DEFINE f == CHOOSE e \in Live(k) : TRUE
             q == Others(k)
  <2>1. f \in Live(k) BY <1>2
  <2>2. f \in Range(entries) /\ f.key = k BY <2>1 DEF Live
  <2>3. f \in PingEntry
    <3>1. entries \in Seq(PingEntry) BY DEF Cache
    <3>2. PICK i \in DOMAIN entries : f = entries[i] BY <2>2 DEF Range
    <3>3. i \in 1..Len(entries) BY <3>1
    <3>4. entries[i] \in PingEntry BY ONLY <3>1, <3>3, ElementOfSeq
    <3> QED BY Zenon, <3>2, <3>4
  <2>4. AfterLookup(k) = <<f>> \o q BY <1>2 DEF AfterLookup
  <2>5. /\ q \in Seq(PingEntry) /\ UniqueKeys(q) /\ Len(q) < Len(entries) /\ Len(q) \in Nat
        /\ Range(q) \subseteq Range(entries) /\ \A e \in Range(q) : e.key # k
    BY <2>2, OthersAreCache
  <2> HIDE DEF f, q
  <2>6. /\ <<f>> \o q \in Seq(PingEntry) /\ Len(<<f>> \o q) = Len(q) + 1
        /\ Range(<<f>> \o q) = Range(q) \union {f} /\ UniqueKeys(<<f>> \o q)
    BY <2>2, <2>3, <2>5, PushedList
  <2>7. Len(entries) \in Nat /\ Len(entries) <= MaxEntries /\ MaxEntries \in Nat
    BY PingAssumption DEF Cache
  <2>8. Len(<<f>> \o q) <= MaxEntries BY ONLY <2>5, <2>6, <2>7
  <2>9. \A e \in Range(<<f>> \o q) : e.fetchedIn = generation BY <2>2, <2>5, <2>6 DEF Cache
  <2> QED BY ONLY <2>4, <2>6, <2>8, <2>9 DEF Cache
<1> QED BY <1>1, <1>2

\* finishFlight: in front goes what was fetched in the present generation.
LEMMA StoringKeepsCache ==
  ASSUME Cache(entries), NEW k \in PingKey, NEW f \in PingEntry, f.key = k, f.fetchedIn = generation
  PROVE  LET q == <<f>> \o Others(k) IN Cache(SubSeq(q, 1, Lesser(Len(q), MaxEntries)))
<1> DEFINE o == Others(k)
           q == <<f>> \o o
           n == Lesser(Len(q), MaxEntries)
           p == SubSeq(q, 1, n)
<1>1. /\ o \in Seq(PingEntry) /\ UniqueKeys(o) /\ Len(o) \in Nat
      /\ Range(o) \subseteq Range(entries) /\ \A e \in Range(o) : e.key # k
  BY OthersAreCache
<1> HIDE DEF o
<1>2. /\ q \in Seq(PingEntry) /\ Len(q) = Len(o) + 1
      /\ Range(q) = Range(o) \union {f} /\ UniqueKeys(q)
  BY <1>1, PushedList
<1> HIDE DEF q
<1>3. n \in 0..Len(q) /\ n <= MaxEntries BY <1>1, <1>2, PingAssumption DEF Lesser
<1> HIDE DEF n
<1>4. p \in Seq(PingEntry) /\ Len(p) = n /\ Range(p) \subseteq Range(q) /\ UniqueKeys(p)
  BY <1>2, <1>3, PrefixList
<1> HIDE DEF p
<1>5. \A e \in Range(p) : e.fetchedIn = generation BY <1>1, <1>2, <1>4 DEF Cache
<1>6. Cache(p) BY <1>3, <1>4, <1>5 DEF Cache
<1> QED BY <1>6 DEF p, n, q, o

\* A step of a request that keeps its flight, or leads none.
LEMMA PingMoves ==
  ASSUME PingInv, NEW r \in Request, NEW st \in Looking \union Reading \union Serving \union Still,
         PingStep(r, st), UNCHANGED <<inflight, flightOf, generation>>, Cache(entries)',
         st.at = "reading" => \A e \in st.entry : e.key = st.key /\ e.fetchedIn = flightOf[r],
         st.at = "served" => HonestAge(st),
         ping[r].at \in {"fetching", "reading"} =>
           st.at \in {"fetching", "reading"} /\ st.key = ping[r].key
  PROVE  PingInv'
<1>1. /\ ping' \in [Request -> Looking \union Reading \union Serving \union Still]
      /\ ping'[r] = st /\ \A q \in Request \ {r} : ping'[q] = ping[q]
  BY DEF PingInv, PingTyped, PingStep
<1>2. PingTyped' BY <1>1 DEF PingInv, PingTyped
<1>3. ReadsForItsFlight' BY <1>1 DEF PingInv, ReadsForItsFlight
<1>4. PingServedFresh' BY <1>1 DEF PingInv, PingServedFresh
<1>5. PingFlightsFlown'
  <2>1. ASSUME NEW k \in PingKey, inflight[k] # Nobody
        PROVE  ping'[inflight[k]].at \in {"fetching", "reading"} /\ ping'[inflight[k]].key = k
    <3>1. inflight[k] \in Request BY <2>1 DEF PingInv, PingTyped
    <3>2. ping[inflight[k]].at \in {"fetching", "reading"} /\ ping[inflight[k]].key = k
      BY <2>1 DEF PingInv, PingFlightsFlown
    <3> QED BY <1>1, <3>1, <3>2
  <2> QED BY <2>1 DEF PingFlightsFlown
<1> QED BY <1>2, <1>3, <1>4, <1>5 DEF PingInv

LEMMA PingStateOf ==
  ASSUME PingInv, NEW r \in Request
  PROVE  /\ ping[r].at \in {"first", "second", "waiting", "fetching", "direct"} => ping[r] \in Looking
         /\ ping[r].at = "reading" => ping[r] \in Reading
         /\ ping[r].at = "served" => ping[r] \in Serving
<1>1. ping[r] \in Looking \union Reading \union Serving \union Still BY DEF PingInv, PingTyped
<1> QED BY <1>1 DEF Looking, Reading, Serving, Still

LEMMA LookupIsCache ==
  ASSUME PingInv, NEW k \in PingKey, entries' = AfterLookup(k), generation' = generation
  PROVE  Cache(entries)'
<1>1. Cache(AfterLookup(k)) BY LookupKeepsCache DEF PingInv
<1> QED BY <1>1 DEF Cache

LEMMA SameCache ==
  ASSUME PingInv, UNCHANGED <<entries, generation>>
  PROVE  Cache(entries)'
BY DEF PingInv, Cache

LEMMA LiveIsEntry ==
  ASSUME PingInv, NEW k \in PingKey, NEW e \in Live(k)
  PROVE  e \in PingEntry /\ clock < e.expiresAt
<1>1. entries \in Seq(PingEntry) BY DEF PingInv, Cache
<1>2. PICK i \in DOMAIN entries : e = entries[i] BY DEF Live, Range
<1>3. i \in 1..Len(entries) BY <1>1
<1>4. e \in PingEntry BY ONLY <1>1, <1>2, <1>3, ElementOfSeq
<1> QED BY <1>4 DEF Live

LEMMA PingServedKeeps ==
  ASSUME PingInv, clock \in Nat, NEW r \in Request, ping[r].at \in {"first", "second", "waiting"},
         PingServed(r), entries' = AfterLookup(ping[r].key),
         UNCHANGED <<inflight, flightOf, generation>>
  PROVE  PingInv'
<1> DEFINE k == ping[r].key
<1>1. k \in PingKey BY PingStateOf DEF Looking
<1>2. PICK e \in Live(k) : PingStep(r, [at |-> "served", entry |-> e, age |-> AgeValue(e, clock)])
  BY DEF PingServed
<1> DEFINE st == [at |-> "served", entry |-> e, age |-> AgeValue(e, clock)]
<1>3. e \in PingEntry /\ clock < e.expiresAt BY <1>1, <1>2, LiveIsEntry
<1>4. st.entry = e /\ st.age = AgeValue(e, clock) /\ st.at = "served" OBVIOUS
<1>5. e.responseAt \in Nat /\ Grants(e, PingTTL) /\ IsAnswer(e.answer) /\ PingTTL \in Nat
  BY <1>3, PingEntryIsAnswer, PingAssumption DEF PingEntry
<1>6. st \in Serving /\ HonestAge(st)
  <2> HIDE DEF st
  <2>1. HonestAge(st) /\ st.age \in Int BY <1>3, <1>4, <1>5, AgeIsHonest
  <2> QED BY <1>3, <1>4, <2>1 DEF Serving, st
<1>7. Cache(entries)' BY <1>1, LookupIsCache
<1>8. PingStep(r, st) BY <1>2
<1> HIDE DEF st
<1> QED BY <1>4, <1>6, <1>7, <1>8, PingMoves

LEMMA PingGoesKeeps ==
  ASSUME PingInv, NEW r \in Request, ping[r].at \in {"first", "second", "waiting"},
         NEW at \in {"second", "direct"}, PingGoes(r, at), entries' = AfterLookup(ping[r].key),
         UNCHANGED <<inflight, flightOf, generation>>
  PROVE  PingInv'
<1> DEFINE st == [ping[r] EXCEPT !.at = at]
<1>1. ping[r] \in Looking BY PingStateOf
<1>2. st \in Looking /\ st.at = at /\ ping[r].key \in PingKey BY <1>1 DEF Looking
<1>3. Cache(entries)' BY <1>2, LookupIsCache
<1>4. PingStep(r, st) BY DEF PingGoes
<1> HIDE DEF st
<1> QED BY <1>2, <1>3, <1>4, PingMoves

LEMMA PingEndsKeeps ==
  ASSUME PingInv, NEW r \in Request, ping[r].at \notin {"fetching", "reading"},
         PingStep(r, [at |-> "done"]), UNCHANGED <<inflight, flightOf, generation>>, Cache(entries)'
  PROVE  PingInv'
<1>1. [at |-> "done"] \in Still /\ [at |-> "done"].at = "done" BY DEF Still
<1> DEFINE st == [at |-> "done"]
<1>2. PingStep(r, st) OBVIOUS
<1> HIDE DEF st
<1>3. st \in Still /\ st.at = "done" BY <1>1 DEF st
<1> QED BY <1>2, <1>3, PingMoves

LEMMA PingArriveKeeps == ASSUME PingInv, NEW r \in Request, PingArrive(r) PROVE PingInv'
<1>1. PICK k \in PingKey : PingStep(r, [at |-> "first", key |-> k, follows |-> Nobody])
  BY DEF PingArrive
<1> DEFINE st == [at |-> "first", key |-> k, follows |-> Nobody]
<1>2. st \in Looking /\ st.at = "first" BY DEF Looking
<1>3. Cache(entries)' BY SameCache DEF PingArrive
<1>4. ping[r].at = "idle" /\ UNCHANGED <<inflight, flightOf, generation>> BY DEF PingArrive, PingAt
<1> HIDE DEF st
<1> QED BY <1>1, <1>2, <1>3, <1>4, PingMoves DEF st

LEMMA PingFirstKeeps == ASSUME PingInv, clock \in Nat, NEW r \in Request, PingFirst(r) PROVE PingInv'
<1>1. ping[r].at = "first" /\ entries' = AfterLookup(ping[r].key)
      /\ UNCHANGED <<inflight, flightOf, generation>>
  BY DEF PingFirst, PingAt
<1>2. PingServed(r) \/ PingGoes(r, "second") BY DEF PingFirst
<1> QED BY <1>1, <1>2, PingServedKeeps, PingGoesKeeps

LEMMA PingSecondKeeps ==
  ASSUME PingInv, clock \in Nat, NEW r \in Request, PingSecond(r)
  PROVE  PingInv'
<1> DEFINE k == ping[r].key
<1>1. /\ ping[r].at = "second" /\ entries' = AfterLookup(k) /\ UNCHANGED generation
  BY DEF PingSecond, PingAt
<1>2. ping[r] \in Looking BY <1>1, PingStateOf
<1>3. k \in PingKey BY <1>2 DEF Looking
<1>4. Cache(entries)' BY <1>1, <1>3, LookupIsCache
<1>5. CASE PingServed(r) /\ UNCHANGED <<inflight, flightOf>> BY <1>1, <1>5, PingServedKeeps
<1>6. CASE /\ inflight[k] # Nobody
           /\ PingStep(r, [ping[r] EXCEPT !.at = "waiting", !.follows = inflight[k]])
           /\ UNCHANGED <<inflight, flightOf>>
  <2> DEFINE st == [ping[r] EXCEPT !.at = "waiting", !.follows = inflight[k]]
  <2>1. inflight[k] \in Request BY <1>3, <1>6 DEF PingInv, PingTyped
  <2>2. st \in Looking /\ st.at = "waiting" BY <1>2, <2>1 DEF Looking
  <2> HIDE DEF st
  <2> QED BY <1>1, <1>4, <1>6, <2>2, PingMoves DEF st
<1>7. CASE /\ Live(k) = {} /\ inflight[k] = Nobody
           /\ PingGoes(r, "fetching")
           /\ inflight' = [inflight EXCEPT ![k] = r]
           /\ flightOf' = [flightOf EXCEPT ![r] = generation]
  <2> DEFINE st == [ping[r] EXCEPT !.at = "fetching"]
  <2>1. st \in Looking /\ st.at = "fetching" /\ st.key = k BY <1>2 DEF Looking
  <2>2. PingStep(r, st) BY <1>7 DEF PingGoes
  <2> HIDE DEF st
  <2>3. /\ ping' \in [Request -> Looking \union Reading \union Serving \union Still]
        /\ ping'[r] = st /\ \A q \in Request \ {r} : ping'[q] = ping[q]
    BY <2>1, <2>2 DEF PingInv, PingTyped, PingStep
  <2>4. PingTyped' BY <1>1, <1>3, <1>7, <2>3 DEF PingInv, PingTyped
  <2>5. ReadsForItsFlight'
    <3>1. \A q \in Request \ {r} : flightOf'[q] = flightOf[q] BY <1>7 DEF PingInv, PingTyped
    <3> QED BY <2>1, <2>3, <3>1 DEF PingInv, ReadsForItsFlight
  <2>6. PingServedFresh' BY <2>1, <2>3 DEF PingInv, PingServedFresh
  <2>7. PingFlightsFlown'
    <3> SUFFICES ASSUME NEW j \in PingKey, inflight'[j] # Nobody
                 PROVE  ping'[inflight'[j]].at \in {"fetching", "reading"} /\ ping'[inflight'[j]].key = j
      BY DEF PingFlightsFlown
    <3>1. CASE j = k
      <4>1. inflight'[j] = r BY <1>3, <1>7, <3>1 DEF PingInv, PingTyped
      <4> QED BY <2>1, <2>3, <3>1, <4>1
    <3>2. CASE j # k
      <4>1. inflight'[j] = inflight[j] BY <1>7, <3>2 DEF PingInv, PingTyped
      <4>2. inflight[j] \in Request BY <4>1 DEF PingInv, PingTyped
      <4>3. ping[inflight[j]].at \in {"fetching", "reading"} /\ ping[inflight[j]].key = j
        BY <4>1 DEF PingInv, PingFlightsFlown
      <4>4. inflight[j] # r BY <1>1, <4>3
      <4> QED BY <2>3, <4>1, <4>2, <4>3, <4>4
    <3> QED BY <3>1, <3>2
  <2> QED BY <1>4, <2>4, <2>5, <2>6, <2>7 DEF PingInv
<1> QED BY <1>5, <1>6, <1>7 DEF PingSecond

LEMMA PingWakeKeeps == ASSUME PingInv, clock \in Nat, NEW r \in Request, PingWake(r) PROVE PingInv'
<1>1. ping[r].at = "waiting" /\ entries' = AfterLookup(ping[r].key)
      /\ UNCHANGED <<inflight, flightOf, generation>>
  BY DEF PingWake, PingAt
<1>2. Cache(entries)'
  <2>1. ping[r].key \in PingKey BY <1>1, PingStateOf DEF Looking
  <2> QED BY <1>1, <2>1, LookupIsCache
<1>3. PingServed(r) \/ PingGoes(r, "direct") \/ PingStep(r, [at |-> "done"])
  BY DEF PingWake, PingFail
<1> QED BY <1>1, <1>2, <1>3, PingServedKeeps, PingGoesKeeps, PingEndsKeeps

LEMMA PingEndings ==
  ASSUME PingInv, NEW r \in Request, PingReply(r) \/ PingAbandon(r) \/ PingDirect(r)
  PROVE  PingInv'
<1>1. /\ ping[r].at \in {"served", "waiting", "direct"} /\ PingStep(r, [at |-> "done"])
      /\ UNCHANGED <<entries, inflight, flightOf, generation>>
  BY DEF PingReply, PingAbandon, PingDirect, PingAt, PingFail
<1>2. Cache(entries)' BY <1>1, SameCache
<1> QED BY <1>1, <1>2, PingEndsKeeps

LEMMA PingHeadersKeeps == ASSUME PingInv, clock \in Nat, NEW r \in Request, PingHeaders(r) PROVE PingInv'
<1>1. /\ ping[r].at = "fetching" /\ UNCHANGED <<entries, inflight, flightOf, generation>>
  BY DEF PingHeaders, PingAt
<1>2. PICK answer \in PingAnswer :
        PingStep(r, [at |-> "reading", key |-> ping[r].key,
          entry |-> IF HeadersSafe(answer)
                    THEN {[key |-> ping[r].key, responseAt |-> clock, answer |-> answer,
                           initialAge |-> InitialAge(answer),
                           expiresAt |-> clock + Remaining(answer, PingTTL),
                           fetchedIn |-> flightOf[r]]}
                    ELSE {}])
  BY DEF PingHeaders
<1> DEFINE e == [key |-> ping[r].key, responseAt |-> clock, answer |-> answer,
                 initialAge |-> InitialAge(answer),
                 expiresAt |-> clock + Remaining(answer, PingTTL),
                 fetchedIn |-> flightOf[r]]
           es == IF HeadersSafe(answer) THEN {e} ELSE {}
           st == [at |-> "reading", key |-> ping[r].key, entry |-> es]
<1>3. ping[r].key \in PingKey BY <1>1, PingStateOf DEF Looking
<1>4. HeadersSafe(answer) => e \in PingEntry
  <2> SUFFICES ASSUME HeadersSafe(answer) PROVE e \in PingEntry OBVIOUS
  <2>1. IsAnswer(answer) /\ PingTTL \in Nat BY PingAssumption
  <2>2. InitialAge(answer) \in Int /\ Remaining(answer, PingTTL) \in Int
    BY <2>1, InitialAgeIsInteger, RemainingIsInteger
  <2>3. flightOf[r] \in Nat BY DEF PingInv, PingTyped
  <2>4. Grants(e, PingTTL) BY DEF HeadersSafe, Grants
  <2>5. e \in [key : PingKey, responseAt : Nat, answer : PingAnswer, initialAge : Int,
               expiresAt : Int, fetchedIn : Nat]
    BY <1>3, <2>2, <2>3
  <2> HIDE DEF e
  <2> QED BY <2>4, <2>5 DEF PingEntry
<1>5. e.key = ping[r].key /\ e.fetchedIn = flightOf[r] OBVIOUS
<1> HIDE DEF e
<1>6. es \subseteq PingEntry /\ \A x \in es : x.key = ping[r].key /\ x.fetchedIn = flightOf[r]
  BY <1>4, <1>5
<1>7. PingStep(r, st) BY <1>2 DEF e
<1> HIDE DEF es
<1>8. st \in Reading /\ st.at = "reading" /\ st.key = ping[r].key /\ st.entry = es
  BY <1>3, <1>6 DEF Reading
<1> HIDE DEF st
<1>9. Cache(entries)' BY <1>1, SameCache
<1> QED BY <1>1, <1>6, <1>7, <1>8, <1>9, PingMoves

LEMMA PingFinishKeeps ==
  ASSUME PingInv, NEW r \in Request, ping[r].at \in {"fetching", "reading"}, NEW entry,
         entry = {} \/ (ping[r].at = "reading" /\ entry = ping[r].entry), PingFinishFlight(r, entry)
  PROVE  PingInv'
<1> DEFINE k == ping[r].key
           kept == Storable(r, entry)
<1>1. k \in PingKey BY PingStateOf DEF Looking, Reading
<1>2. /\ inflight' = [inflight EXCEPT ![k] = Nobody] /\ flightOf' = [flightOf EXCEPT ![r] = 0]
      /\ PingStep(r, [at |-> "done"]) /\ UNCHANGED generation
  BY DEF PingFinishFlight
<1>3. /\ ping' \in [Request -> Looking \union Reading \union Serving \union Still]
      /\ ping'[r] = [at |-> "done"] /\ \A q \in Request \ {r} : ping'[q] = ping[q]
  <2>1. [at |-> "done"] \in Still BY DEF Still
  <2> QED BY <1>2, <2>1 DEF PingInv, PingTyped, PingStep
<1>4. \A q \in Request \ {r} : flightOf'[q] = flightOf[q] BY <1>2 DEF PingInv, PingTyped
<1>5. PingTyped' BY <1>1, <1>2, <1>3 DEF PingInv, PingTyped
<1>6. ReadsForItsFlight' BY <1>3, <1>4 DEF PingInv, ReadsForItsFlight
<1>7. PingServedFresh' BY <1>3 DEF PingInv, PingServedFresh
<1>8. PingFlightsFlown'
  <2> SUFFICES ASSUME NEW j \in PingKey, inflight'[j] # Nobody
               PROVE  ping'[inflight'[j]].at \in {"fetching", "reading"} /\ ping'[inflight'[j]].key = j
    BY DEF PingFlightsFlown
  <2>1. j # k /\ inflight'[j] = inflight[j] BY <1>1, <1>2 DEF PingInv, PingTyped
  <2>2. inflight[j] \in Request BY <2>1 DEF PingInv, PingTyped
  <2>3. ping[inflight[j]].at \in {"fetching", "reading"} /\ ping[inflight[j]].key = j
    BY <2>1 DEF PingInv, PingFlightsFlown
  <2>4. inflight[j] # r BY <2>1, <2>3
  <2> QED BY <1>3, <2>1, <2>2, <2>3, <2>4
<1>9. Cache(entries)'
  <2>1. CASE kept = {}
    <3>1. entries' = entries BY <2>1 DEF PingFinishFlight
    <3> QED BY <1>2, <3>1, SameCache
  <2>2. CASE kept # {}
    <3> DEFINE f == CHOOSE e \in kept : TRUE
               q == <<f>> \o Others(k)
    <3>1. f \in kept BY <2>2
    <3>2. f \in ping[r].entry /\ ping[r].at = "reading" /\ flightOf[r] = generation
      BY <3>1 DEF Storable
    <3>3. entries' = SubSeq(q, 1, Lesser(Len(q), MaxEntries)) BY <2>2 DEF PingFinishFlight
    <3> HIDE DEF f
    <3>4. f \in PingEntry
      <4>1. ping[r] \in Reading BY <3>2, PingStateOf
      <4> QED BY <3>2, <4>1 DEF Reading
    <3>5. f.key = k /\ f.fetchedIn = generation
      BY <3>2 DEF PingInv, ReadsForItsFlight
    <3>6. Cache(SubSeq(q, 1, Lesser(Len(q), MaxEntries)))
      BY <1>1, <3>4, <3>5, StoringKeepsCache DEF PingInv
    <3> HIDE DEF q
    <3> QED BY <1>2, <3>3, <3>6 DEF Cache
  <2> QED BY <2>1, <2>2
<1> QED BY <1>5, <1>6, <1>7, <1>8, <1>9 DEF PingInv

LEMMA EmptyIsCache == ASSUME entries' = <<>> PROVE Cache(entries)'
<1>1. <<>> \in Seq(PingEntry) /\ Len(<<>>) = 0 /\ DOMAIN <<>> = {} OBVIOUS
<1>2. UniqueKeys(<<>>) /\ Range(<<>>) = {} BY <1>1 DEF UniqueKeys, Range
<1>3. 0 <= MaxEntries BY PingAssumption
<1> QED BY <1>1, <1>2, <1>3 DEF Cache

LEMMA InvalidateKeeps == ASSUME PingInv, Invalidate PROVE PingInv'
<1>1. Cache(entries)' BY EmptyIsCache DEF Invalidate
<1>2. generation' \in Nat BY DEF Invalidate, PingInv, PingTyped
<1>3. UNCHANGED <<ping, inflight, flightOf>> BY DEF Invalidate
<1>4. PingTyped' BY <1>2, <1>3 DEF PingInv, PingTyped
<1>5. ReadsForItsFlight' BY <1>3 DEF PingInv, ReadsForItsFlight
<1>6. PingServedFresh' BY <1>3 DEF PingInv, PingServedFresh
<1>7. PingFlightsFlown' BY <1>3 DEF PingInv, PingFlightsFlown
<1> QED BY <1>1, <1>4, <1>5, <1>6, <1>7 DEF PingInv

LEMMA PingsCrash ==
  ASSUME PingInv, entries' = <<>>, inflight' = [k \in PingKey |-> Nobody],
         flightOf' = [r \in Request |-> 0], generation' = 0,
         ping' = [r \in Request |-> IF ping[r] = PingIdle THEN PingIdle ELSE [at |-> "done"]]
  PROVE  PingInv'
<1>1. Cache(entries)' BY EmptyIsCache
<1>2. PingIdle \in Still /\ [at |-> "done"] \in Still BY DEF PingIdle, Still
<1>3. \A r \in Request : ping'[r] \in Still BY <1>2
<1>4. PingTyped' BY <1>3 DEF PingTyped
<1>5. \A r \in Request : ping'[r].at \in {"idle", "done"} BY <1>3 DEF Still
<1> QED BY <1>1, <1>4, <1>5 DEF PingInv, ReadsForItsFlight, PingServedFresh, PingFlightsFlown

LEMMA PingsStay == ASSUME PingInv, UNCHANGED pingVars PROVE PingInv'
BY DEF PingInv, PingTyped, ReadsForItsFlight, PingServedFresh, PingFlightsFlown, Cache, pingVars

LEMMA PingsStart == ASSUME PingInit PROVE PingInv
<1>1. \A r \in Request : ping[r] \in Still /\ ping[r].at = "idle" BY DEF PingInit, PingIdle, Still
<1>2. entries = <<>> BY DEF PingInit
<1>3. <<>> \in Seq(PingEntry) /\ Len(<<>>) = 0 /\ DOMAIN <<>> = {} OBVIOUS
<1>4. UniqueKeys(<<>>) /\ Range(<<>>) = {} BY <1>3 DEF UniqueKeys, Range
<1>5. Cache(<<>>) BY <1>3, <1>4, PingAssumption DEF Cache
<1>6. Cache(entries) BY <1>2, <1>5
<1>7. PingTyped BY <1>1 DEF PingInit, PingTyped
<1> QED BY <1>1, <1>6, <1>7
    DEF PingInit, PingInv, ReadsForItsFlight, PingServedFresh, PingFlightsFlown

-----------------------------------------------------------------------------
(* The asset cache.                                                          *)

BodyFile == [size : Nat \ {0}, author : Request]
MetaFile == [size : Nat, author : Nat, accessed : Nat, expiresAt : Nat]

AssetLooking == [at : {"reading", "fetching"}, key : AssetKey, method : {"GET", "HEAD"}, now : Nat]
AssetServing == [at : {"served"}, key : AssetKey, body : BodyFile, meta : MetaFile]
AssetStoring == [at : {"storing"}, key : AssetKey, size : Nat \ {0}, now : Nat]

Single(file) == \A f, g \in file : f = g

AssetTyped ==
  /\ asset \in [Request -> AssetLooking \union AssetServing \union AssetStoring \union Still]
  /\ files \in [AssetKey -> [body : SUBSET BodyFile, meta : SUBSET MetaFile]]
  /\ \A k \in AssetKey : Single(files[k].body) /\ Single(files[k].meta)
  /\ torn \subseteq AssetKey

\* A body that no fault has touched has its own metadata next to it.
Paired(fs, k) == \A b \in fs[k].body : \E m \in fs[k].meta : m.size = b.size /\ m.author = b.author

BodySizes(fs) == [k \in AssetKey |-> SizeIn(fs[k].body)]
Whole(t, s) == {k \in AssetKey : k.site = s /\ k \notin t}

\* The files that no fault has touched are within the budget by themselves, and
\* stay so whichever of the others are mended or removed.
AssetInv ==
  /\ AssetTyped
  /\ \A k \in AssetKey \ torn : Paired(files, k)
  /\ \A s \in Site : SumFunctionOnSet(BodySizes(files), Whole(torn, s)) <= AssetMaxBytes

LEMMA SizeOfNone == SizeIn({}) = 0
BY DEF SizeIn

LEMMA SizeOfSingle == ASSUME NEW file, NEW f \in file, Single(file) PROVE SizeIn(file) = f.size
<1>1. file # {} OBVIOUS
<1>2. (CHOOSE g \in file : TRUE) \in file BY <1>1
<1>3. (CHOOSE g \in file : TRUE) = f BY <1>2 DEF Single
<1> QED BY <1>1, <1>3 DEF SizeIn

LEMMA BodySizesAreNatural ==
  ASSUME NEW fs, fs \in [AssetKey -> [body : SUBSET BodyFile, meta : SUBSET MetaFile]],
         \A k \in AssetKey : Single(fs[k].body)
  PROVE  \A k \in AssetKey : BodySizes(fs)[k] \in Nat
<1> SUFFICES ASSUME NEW k \in AssetKey PROVE SizeIn(fs[k].body) \in Nat BY DEF BodySizes
<1>1. fs[k].body \subseteq BodyFile /\ Single(fs[k].body) OBVIOUS
<1>2. CASE fs[k].body = {} BY <1>2, SizeOfNone
<1>3. CASE fs[k].body # {}
  <2>1. PICK b \in fs[k].body : TRUE BY <1>3
  <2>2. SizeIn(fs[k].body) = b.size BY <1>1, <2>1, SizeOfSingle
  <2> QED BY <1>1, <2>1, <2>2 DEF BodyFile
<1> QED BY <1>2, <1>3

\* A step that leaves every untouched body as it was, removes it, or has a fault.
LEMMA FilesFade ==
  ASSUME AssetInv, AssetTyped',
         \A k \in AssetKey : k \in torn' \/ files'[k].body = {} \/ (k \notin torn /\ files'[k].body = files[k].body),
         \A k \in AssetKey : k \in torn' \/ Paired(files', k)
  PROVE  AssetInv'
<1> SUFFICES ASSUME NEW s \in Site
             PROVE  SumFunctionOnSet(BodySizes(files'), Whole(torn', s)) <= AssetMaxBytes
  BY DEF AssetInv
<1> DEFINE f == BodySizes(files')
           g == BodySizes(files)
           T == Whole(torn', s)
           S == Whole(torn, s)
<1>1. \A k \in AssetKey : f[k] \in Nat /\ g[k] \in Nat
  BY BodySizesAreNatural DEF AssetInv, AssetTyped
<1>2. T \in SUBSET AssetKey /\ S \in SUBSET AssetKey BY DEF Whole
<1>3. \A k \in T : f[k] <= (IF k \in S THEN g[k] ELSE 0)
  <2> SUFFICES ASSUME NEW k \in T PROVE f[k] <= (IF k \in S THEN g[k] ELSE 0) OBVIOUS
  <2>1. k \in AssetKey /\ k.site = s /\ k \notin torn' BY DEF Whole
  <2>2. f[k] = SizeIn(files'[k].body) /\ g[k] = SizeIn(files[k].body) BY <2>1 DEF BodySizes
  <2>3. CASE files'[k].body = {}
    <3>1. f[k] = 0 BY <2>2, <2>3, SizeOfNone
    <3> HIDE DEF f, g, T, S
    <3> QED BY <1>1, <2>1, <3>1
  <2>4. CASE k \notin torn /\ files'[k].body = files[k].body
    <3>1. k \in S /\ f[k] = g[k] BY <2>1, <2>2, <2>4 DEF Whole
    <3> HIDE DEF f, g, T, S
    <3> QED BY <1>1, <2>1, <3>1
  <2> QED BY <2>1, <2>3, <2>4
<1>4. IsFiniteSet(AssetKey) BY AssetAssumption
<1>5. SumFunctionOnSet(g, S) <= AssetMaxBytes BY DEF AssetInv
<1>6. IsFiniteSet(S) /\ IsFiniteSet(T) BY <1>2, <1>4, FS_Subset
<1> HIDE DEF f, g, T, S
<1>7. SumFunctionOnSet(f, T) <= SumFunctionOnSet(g, S) BY <1>1, <1>2, <1>3, <1>4, SumDominated
<1>8. SumFunctionOnSet(f, T) \in Nat /\ SumFunctionOnSet(g, S) \in Nat BY <1>1, <1>2, <1>6, SumIsNatural
<1>9. AssetMaxBytes \in Nat BY AssetAssumption
<1>10. SumFunctionOnSet(f, T) <= AssetMaxBytes BY <1>5, <1>7, <1>8, <1>9
<1> QED BY <1>10 DEF f, T

LEMMA AssetStateOf ==
  ASSUME AssetInv, NEW r \in Request
  PROVE  /\ asset[r].at \in {"reading", "fetching"} => asset[r] \in AssetLooking
         /\ asset[r].at = "storing" => asset[r] \in AssetStoring
<1>1. asset[r] \in AssetLooking \union AssetServing \union AssetStoring \union Still
  BY DEF AssetInv, AssetTyped
<1> QED BY <1>1 DEF AssetLooking, AssetServing, AssetStoring, Still

\* A step that touches no file.
LEMMA FilesStay ==
  ASSUME AssetInv, UNCHANGED <<files, torn>>,
         asset' \in [Request -> AssetLooking \union AssetServing \union AssetStoring \union Still]
  PROVE  AssetInv'
BY DEF AssetInv, AssetTyped

LEMMA AssetArriveKeeps == ASSUME AssetInv, clock \in Nat, NEW r \in Request, AssetArrive(r) PROVE AssetInv'
<1>1. PICK k \in AssetKey, m \in {"GET", "HEAD"} :
        AssetStep(r, [at |-> "reading", key |-> k, method |-> m, now |-> clock])
  BY DEF AssetArrive
<1>2. [at |-> "reading", key |-> k, method |-> m, now |-> clock] \in AssetLooking BY DEF AssetLooking
<1>3. asset' \in [Request -> AssetLooking \union AssetServing \union AssetStoring \union Still]
  BY <1>1, <1>2 DEF AssetStep, AssetInv, AssetTyped
<1> QED BY <1>3, FilesStay DEF AssetArrive

LEMMA AssetFetchedKeeps == ASSUME AssetInv, clock \in Nat, NEW r \in Request, AssetFetched(r) PROVE AssetInv'
<1>1. asset[r] \in AssetLooking BY AssetStateOf DEF AssetFetched, AssetAt
<1>2. [at |-> "done"] \in Still BY DEF Still
<1>3. \A answer \in AssetAnswer :
        [at |-> "storing", key |-> asset[r].key, size |-> answer.size, now |-> clock] \in AssetStoring
  BY <1>1, AssetAssumption DEF AssetLooking, AssetStoring
<1>4. \E st \in Still \union AssetStoring : AssetStep(r, st) BY <1>2, <1>3 DEF AssetFetched
<1>5. asset' \in [Request -> AssetLooking \union AssetServing \union AssetStoring \union Still]
  BY <1>4 DEF AssetStep, AssetInv, AssetTyped
<1> QED BY <1>5, FilesStay DEF AssetFetched

LEMMA AssetReplyKeeps == ASSUME AssetInv, NEW r \in Request, AssetReply(r) PROVE AssetInv'
<1>1. [at |-> "done"] \in Still BY DEF Still
<1>2. asset' \in [Request -> AssetLooking \union AssetServing \union AssetStoring \union Still]
  BY <1>1 DEF AssetReply, AssetStep, AssetInv, AssetTyped
<1> QED BY <1>2, FilesStay DEF AssetReply

LEMMA AssetHitKeeps == ASSUME AssetInv, NEW r \in Request, AssetHit(r) PROVE AssetInv'
<1> DEFINE k == asset[r].key
           now == asset[r].now
<1>1. asset[r] \in AssetLooking BY AssetStateOf DEF AssetHit, AssetAt
<1>2. k \in AssetKey /\ now \in Nat BY <1>1 DEF AssetLooking
<1>3. PICK m \in Matching(k, now), b \in files[k].body :
        /\ AssetStep(r, [at |-> "served", key |-> k, body |-> b, meta |-> m])
        /\ \/ /\ files' = [files EXCEPT ![k].meta = {[m EXCEPT !.accessed = now]}]
              /\ UNCHANGED <<torn, events>>
           \/ /\ Event
              /\ files' = [files EXCEPT ![k].meta = {Unreadable}]
              /\ torn' = torn \union {k}
  BY DEF AssetHit
<1>4. /\ files[k] \in [body : SUBSET BodyFile, meta : SUBSET MetaFile]
      /\ Single(files[k].body) /\ Single(files[k].meta)
  BY <1>2 DEF AssetInv, AssetTyped
<1>5. m \in files[k].meta /\ m \in MetaFile /\ b \in BodyFile BY <1>3, <1>4 DEF Matching
<1>6. asset' \in [Request -> AssetLooking \union AssetServing \union AssetStoring \union Still]
  <2>1. [at |-> "served", key |-> k, body |-> b, meta |-> m] \in AssetServing
    BY <1>2, <1>5 DEF AssetServing
  <2> QED BY <1>3, <2>1 DEF AssetStep, AssetInv, AssetTyped
<1> DEFINE n == [m EXCEPT !.accessed = now]
<1>7. n \in MetaFile /\ n.size = m.size /\ n.author = m.author BY <1>2, <1>5 DEF MetaFile
<1>8. Unreadable \in MetaFile BY DEF Unreadable, MetaFile
<1> HIDE DEF k, now, n
<1>9. ASSUME NEW x \in MetaFile, files' = [files EXCEPT ![k].meta = {x}]
      PROVE  /\ files' \in [AssetKey -> [body : SUBSET BodyFile, meta : SUBSET MetaFile]]
             /\ \A j \in AssetKey : files'[j].body = files[j].body
             /\ \A j \in AssetKey : j # k => files'[j] = files[j]
             /\ files'[k].meta = {x}
             /\ \A j \in AssetKey : Single(files'[j].body) /\ Single(files'[j].meta)
  <2>1. files \in [AssetKey -> [body : SUBSET BodyFile, meta : SUBSET MetaFile]]
    BY DEF AssetInv, AssetTyped
  <2>2. files' \in [AssetKey -> [body : SUBSET BodyFile, meta : SUBSET MetaFile]] BY <1>2, <1>9, <2>1
  <2>3. \A j \in AssetKey : j # k => files'[j] = files[j] BY <1>2, <1>9, <2>1
  <2>4. files'[k].meta = {x} /\ files'[k].body = files[k].body BY <1>2, <1>9, <2>1
  <2>5. \A j \in AssetKey : Single(files[j].body) /\ Single(files[j].meta) BY DEF AssetInv, AssetTyped
  <2>6. Single({x}) BY DEF Single
  <2> QED BY <2>2, <2>3, <2>4, <2>5, <2>6
<1>10. CASE files' = [files EXCEPT ![k].meta = {n}] /\ torn' = torn
  <2>1. AssetTyped' BY <1>6, <1>7, <1>9, <1>10 DEF AssetInv, AssetTyped
  <2>2. \A j \in AssetKey : files'[j].body = files[j].body BY <1>7, <1>9, <1>10
  <2>3. \A j \in AssetKey : j \in torn' \/ Paired(files', j)
    <3> SUFFICES ASSUME NEW j \in AssetKey, j \notin torn PROVE Paired(files', j) BY <1>10
    <3>1. Paired(files, j) BY DEF AssetInv
    <3>2. CASE j # k BY <3>1, <3>2, <1>7, <1>9, <1>10 DEF Paired
    <3>3. CASE j = k
      <4>1. files'[k].meta = {n} /\ files'[k].body = files[k].body BY <1>2, <1>7, <1>9, <1>10
      <4>2. \A y \in files[k].meta : y = m BY <1>4, <1>5 DEF Single
      <4> QED BY <3>1, <3>3, <4>1, <4>2, <1>7 DEF Paired
    <3> QED BY <3>2, <3>3
  <2> QED BY <2>1, <2>2, <2>3, <1>10, FilesFade
<1>11. CASE files' = [files EXCEPT ![k].meta = {Unreadable}] /\ torn' = torn \union {k}
  <2>1. AssetTyped' BY <1>2, <1>6, <1>8, <1>9, <1>11 DEF AssetInv, AssetTyped
  <2>2. \A j \in AssetKey : files'[j].body = files[j].body /\ (j # k => files'[j] = files[j])
    BY <1>8, <1>9, <1>11
  <2>3. \A j \in AssetKey : j \in torn' \/ Paired(files', j)
    BY <2>2, <1>11 DEF AssetInv, Paired
  <2>4. \A j \in AssetKey : j \in torn' \/ (j \notin torn /\ files'[j].body = files[j].body)
    BY <2>2, <1>11
  <2> QED BY <2>1, <2>3, <2>4, FilesFade
<1> QED BY <1>3, <1>10, <1>11 DEF n, k, now

\* The files of some keys are removed, and the others are left alone.
LEMMA ClearingKeeps ==
  ASSUME AssetInv, NEW K, files' = Cleared(files, K), torn' = torn \ K,
         asset' \in [Request -> AssetLooking \union AssetServing \union AssetStoring \union Still]
  PROVE  AssetInv'
<1>1. \A k \in AssetKey : files'[k] = IF k \in K THEN NoFiles ELSE files[k] BY DEF Cleared
<1>2. NoFiles \in [body : SUBSET BodyFile, meta : SUBSET MetaFile]
      /\ NoFiles.body = {} /\ NoFiles.meta = {} /\ Single({})
  BY DEF NoFiles, Single
<1>3. AssetTyped'
  <2>1. files \in [AssetKey -> [body : SUBSET BodyFile, meta : SUBSET MetaFile]]
    BY DEF AssetInv, AssetTyped
  <2>2. files' \in [AssetKey -> [body : SUBSET BodyFile, meta : SUBSET MetaFile]]
    BY <1>2, <2>1 DEF Cleared
  <2>3. \A k \in AssetKey : Single(files'[k].body) /\ Single(files'[k].meta)
    BY <1>1, <1>2 DEF AssetInv, AssetTyped
  <2> QED BY <2>2, <2>3 DEF AssetInv, AssetTyped
<1>4. \A k \in AssetKey : k \in torn' \/ files'[k].body = {} \/ (k \notin torn /\ files'[k].body = files[k].body)
  BY <1>1, <1>2
<1>5. \A k \in AssetKey : k \in torn' \/ Paired(files', k)
  <2> SUFFICES ASSUME NEW k \in AssetKey, k \notin torn' PROVE Paired(files', k) OBVIOUS
  <2>1. CASE k \in K BY <1>1, <1>2, <2>1 DEF Paired
  <2>2. CASE k \notin K BY <1>1, <2>2 DEF AssetInv, Paired
  <2> QED BY <2>1, <2>2
<1> QED BY <1>3, <1>4, <1>5, FilesFade

LEMMA ClearAssetsKeeps == ASSUME AssetInv, NEW K, ClearAssets(K) PROVE AssetInv'
<1>1. asset' \in [Request -> AssetLooking \union AssetServing \union AssetStoring \union Still]
  BY DEF ClearAssets, AssetInv, AssetTyped
<1> QED BY <1>1, ClearingKeeps DEF ClearAssets

LEMMA AssetMissKeeps == ASSUME AssetInv, NEW r \in Request, AssetMiss(r) PROVE AssetInv'
<1> DEFINE k == asset[r].key
<1>1. asset[r] \in AssetLooking BY AssetStateOf DEF AssetMiss, AssetAt
<1>2. k \in AssetKey BY <1>1 DEF AssetLooking
<1>3. asset' \in [Request -> AssetLooking \union AssetServing \union AssetStoring \union Still]
  <2>1. [asset[r] EXCEPT !.at = "fetching"] \in AssetLooking BY <1>1 DEF AssetLooking
  <2> QED BY <2>1 DEF AssetMiss, AssetStep, AssetInv, AssetTyped
<1>4. files \in [AssetKey -> [body : SUBSET BodyFile, meta : SUBSET MetaFile]]
  BY DEF AssetInv, AssetTyped
<1>5. CASE files[k].meta = {} /\ UNCHANGED <<files, torn>> BY <1>3, <1>5, FilesStay
<1>6. CASE files' = [files EXCEPT ![k] = NoFiles] /\ torn' = torn \ {k}
  <2>1. files' = Cleared(files, {k}) BY <1>2, <1>4, <1>6 DEF Cleared
  <2> QED BY <1>3, <1>6, <2>1, ClearingKeeps
<1>7. CASE files' = [files EXCEPT ![k].meta = {}] /\ torn' = torn \union {k}
  <2>1. /\ files' \in [AssetKey -> [body : SUBSET BodyFile, meta : SUBSET MetaFile]]
        /\ \A j \in AssetKey : j # k => files'[j] = files[j]
        /\ files'[k].meta = {} /\ files'[k].body = files[k].body
    BY <1>2, <1>4, <1>7
  <2>2. AssetTyped'
    <3>1. \A j \in AssetKey : Single(files[j].body) /\ Single(files[j].meta) BY DEF AssetInv, AssetTyped
    <3>2. Single({}) BY DEF Single
    <3> QED BY <1>2, <1>3, <1>7, <2>1, <3>1, <3>2 DEF AssetInv, AssetTyped
  <2>3. \A j \in AssetKey : j \in torn' \/ Paired(files', j) BY <1>7, <2>1 DEF AssetInv, Paired
  <2>4. \A j \in AssetKey : j \in torn' \/ (j \notin torn /\ files'[j].body = files[j].body)
    BY <1>7, <2>1
  <2> QED BY <2>2, <2>3, <2>4, FilesFade
<1>8. \/ files[k].meta = {} /\ UNCHANGED <<files, torn>>
      \/ files' = [files EXCEPT ![k] = NoFiles] /\ torn' = torn \ {k}
      \/ files' = [files EXCEPT ![k].meta = {}] /\ torn' = torn \union {k}
  <2>1. CASE files' = [files EXCEPT ![k] = IF @.meta = {} THEN @ ELSE NoFiles]
             /\ torn' = IF files[k].meta = {} THEN torn ELSE torn \ {k}
    <3>1. CASE files[k].meta = {} BY <3>1, <2>1, <1>2, <1>4
    <3>2. CASE files[k].meta # {} BY <3>2, <2>1, <1>2, <1>4
    <3> QED BY <3>1, <3>2
  <2> QED BY <2>1 DEF AssetMiss
<1> QED BY <1>5, <1>6, <1>7, <1>8

LEMMA RenamedFiles ==
  ASSUME AssetInv, NEW r \in Request, asset[r].at = "storing"
  PROVE  /\ asset[r].key \in AssetKey /\ asset[r].size \in Nat \ {0}
         /\ Body(r) \in BodyFile /\ Meta(r) \in MetaFile
         /\ Body(r).size = asset[r].size /\ Meta(r).size = asset[r].size
         /\ Body(r).author = r /\ Meta(r).author = r
         /\ MetaRenamed(r) \in [AssetKey -> [body : SUBSET BodyFile, meta : SUBSET MetaFile]]
         /\ MetaRenamed(r)[asset[r].key] = [body |-> {Body(r)}, meta |-> {Meta(r)}]
         /\ \A j \in AssetKey : j # asset[r].key => MetaRenamed(r)[j] = files[j]
         /\ \A j \in AssetKey : Single(MetaRenamed(r)[j].body) /\ Single(MetaRenamed(r)[j].meta)
<1> DEFINE k == asset[r].key
<1>1. asset[r] \in AssetStoring BY AssetStateOf
<1>2. k \in AssetKey /\ asset[r].size \in Nat \ {0} /\ asset[r].now \in Nat
  BY <1>1 DEF AssetStoring
<1>3. Body(r) \in BodyFile /\ Body(r).size = asset[r].size /\ Body(r).author = r
  BY <1>2 DEF Body, BodyFile
<1>4. Meta(r) \in MetaFile /\ Meta(r).size = asset[r].size /\ Meta(r).author = r
  BY <1>2, RequestAssumption, AssetAssumption DEF Meta, MetaFile
<1>5. /\ files \in [AssetKey -> [body : SUBSET BodyFile, meta : SUBSET MetaFile]]
      /\ \A j \in AssetKey : Single(files[j].body) /\ Single(files[j].meta)
  BY DEF AssetInv, AssetTyped
<1>6. /\ MetaRenamed(r) \in [AssetKey -> [body : SUBSET BodyFile, meta : SUBSET MetaFile]]
      /\ MetaRenamed(r)[k] = [body |-> {Body(r)}, meta |-> {Meta(r)}]
      /\ \A j \in AssetKey : j # k => MetaRenamed(r)[j] = files[j]
  BY <1>2, <1>3, <1>4, <1>5 DEF MetaRenamed
<1>7. Single({Body(r)}) /\ Single({Meta(r)}) BY DEF Single
<1>8. \A j \in AssetKey : Single(MetaRenamed(r)[j].body) /\ Single(MetaRenamed(r)[j].meta)
  <2> DEFINE fs == MetaRenamed(r)
             B == {Body(r)}
             M == {Meta(r)}
  <2>1. fs[k] = [body |-> B, meta |-> M] BY <1>6
  <2>2. Single(B) /\ Single(M) BY <1>7
  <2>3. \A j \in AssetKey : j # k => fs[j] = files[j] BY <1>6
  <2> HIDE DEF fs, B, M
  <2>4. fs[k].body = B /\ fs[k].meta = M BY <2>1
  <2>5. \A j \in AssetKey : Single(fs[j].body) /\ Single(fs[j].meta) BY <1>5, <2>2, <2>3, <2>4
  <2> QED BY <2>5 DEF fs
<1> QED BY <1>2, <1>3, <1>4, <1>6, <1>8

\* enforceBudgetLocked: what stays of the site is within the budget by its
\* metadata, and so by its bodies.
LEMMA WritingKeeps ==
  ASSUME AssetInv, NEW r \in Request, asset[r].at = "storing", AssetTyped', NEW K,
         Evicted(MetaRenamed(r), asset[r].key.site, K),
         \A j \in AssetKey \ torn' : files'[j] = IF j \in K THEN NoFiles ELSE MetaRenamed(r)[j],
         \A j \in AssetKey \ torn' : j \in torn => j \in K \union {asset[r].key}
  PROVE  AssetInv'
<1> DEFINE k == asset[r].key
           fs == MetaRenamed(r)
<1>1. /\ k \in AssetKey /\ fs[k] = [body |-> {Body(r)}, meta |-> {Meta(r)}]
      /\ Body(r).size = Meta(r).size /\ Body(r).author = Meta(r).author
      /\ Meta(r).size > 0 /\ Body(r) \in BodyFile
      /\ fs \in [AssetKey -> [body : SUBSET BodyFile, meta : SUBSET MetaFile]]
      /\ \A j \in AssetKey : j # k => fs[j] = files[j]
      /\ \A j \in AssetKey : Single(fs[j].body) /\ Single(fs[j].meta)
  BY RenamedFiles
<1>2. /\ \A j \in AssetKey \ torn' : files'[j] = IF j \in K THEN NoFiles ELSE fs[j]
      /\ \A j \in AssetKey \ torn' : j \in torn => j \in K \union {k}
  OBVIOUS
<1>3. NoFiles.body = {} BY DEF NoFiles
<1>4. \A j \in AssetKey \ torn : Paired(files, j) BY DEF AssetInv
<1>5. Evicted(fs, k.site, K) OBVIOUS
<1> HIDE DEF k, fs
<1>6. ASSUME NEW j \in AssetKey \ torn', j \notin K PROVE Paired(fs, j)
  <2>1. CASE j = k BY <1>1, <2>1 DEF Paired
  <2>2. CASE j # k
    <3>1. j \notin torn /\ fs[j] = files[j] BY <1>1, <1>2, <1>6, <2>2
    <3> QED BY <1>4, <3>1 DEF Paired
  <2> QED BY <2>1, <2>2
<1>7. \A j \in AssetKey : j \in torn' \/ Paired(files', j)
  <2> SUFFICES ASSUME NEW j \in AssetKey \ torn' PROVE Paired(files', j) OBVIOUS
  <2>1. CASE j \in K BY <1>2, <1>3, <2>1 DEF Paired
  <2>2. CASE j \notin K BY <1>2, <1>6, <2>2 DEF Paired
  <2> QED BY <2>1, <2>2
<1> SUFFICES ASSUME NEW s \in Site
             PROVE  SumFunctionOnSet(BodySizes(files'), Whole(torn', s)) <= AssetMaxBytes
  BY <1>7 DEF AssetInv
<1> DEFINE f == BodySizes(files')
           T == Whole(torn', s)
<1>8. \A j \in AssetKey : f[j] \in Nat BY BodySizesAreNatural DEF AssetTyped
<1>9. IsFiniteSet(AssetKey) /\ T \in SUBSET AssetKey BY AssetAssumption DEF Whole
<1>10. \A j \in T : j \in AssetKey \ torn' /\ j.site = s /\ f[j] = SizeIn(files'[j].body)
  BY DEF Whole, BodySizes
<1>11. AssetMaxBytes \in Nat BY AssetAssumption
<1>12. ASSUME NEW S \in SUBSET AssetKey, NEW g, \A j \in AssetKey : g[j] \in Nat,
              \A j \in T : f[j] <= (IF j \in S THEN g[j] ELSE 0),
              SumFunctionOnSet(g, S) <= AssetMaxBytes
       PROVE  SumFunctionOnSet(f, T) <= AssetMaxBytes
  <2> HIDE DEF f, T
  <2>1. SumFunctionOnSet(f, T) <= SumFunctionOnSet(g, S) BY <1>8, <1>9, <1>12, SumDominated
  <2>2. IsFiniteSet(S) /\ IsFiniteSet(T) BY <1>9, FS_Subset
  <2>3. SumFunctionOnSet(f, T) \in Nat /\ SumFunctionOnSet(g, S) \in Nat
    BY <1>8, <1>9, <1>12, <2>2, SumIsNatural
  <2> QED BY <1>11, <1>12, <2>1, <2>3
<1>13. CASE s = k.site
  <2> DEFINE own == Listed(fs, k.site)
             S == own \ K
             g == [j \in AssetKey |-> SizeIn(fs[j].meta)]
  <2>1. SumFunctionOnSet(g, S) <= AssetMaxBytes BY <1>5 DEF Evicted, SizeOf
  <2>2. \A j \in AssetKey : g[j] \in Nat
    <3> SUFFICES ASSUME NEW j \in AssetKey PROVE SizeIn(fs[j].meta) \in Nat OBVIOUS
    <3>1. CASE fs[j].meta = {} BY <3>1, SizeOfNone
    <3>2. CASE fs[j].meta # {}
      <4>1. PICK m \in fs[j].meta : TRUE BY <3>2
      <4>2. m \in MetaFile /\ Single(fs[j].meta) BY <1>1, <4>1
      <4>3. SizeIn(fs[j].meta) = m.size BY <4>1, <4>2, SizeOfSingle
      <4> QED BY <4>2, <4>3 DEF MetaFile
    <3> QED BY <3>1, <3>2
  <2>3. S \in SUBSET AssetKey BY DEF Listed
  <2>4. ASSUME NEW j \in T PROVE f[j] <= (IF j \in S THEN g[j] ELSE 0)
    <3>1. j \in AssetKey \ torn' /\ j.site = k.site /\ f[j] = SizeIn(files'[j].body)
      BY <1>10, <1>13
    <3>2. f[j] \in Nat /\ g[j] \in Nat BY <1>8, <2>2, <3>1
    <3>3. CASE files'[j].body = {}
      <4>1. f[j] = 0 BY <3>1, <3>3, SizeOfNone
      <4> HIDE DEF f, g, S, T
      <4> QED BY <3>2, <4>1
    <3>4. CASE files'[j].body # {}
      <4>1. j \notin K /\ files'[j] = fs[j] BY <1>2, <1>3, <3>1, <3>4
      <4>2. PICK b \in fs[j].body : TRUE BY <3>4, <4>1
      <4>3. PICK m \in fs[j].meta : m.size = b.size BY <1>6, <3>1, <4>1, <4>2 DEF Paired
      <4>4. b \in BodyFile /\ Single(fs[j].body) /\ Single(fs[j].meta) BY <1>1, <3>1, <4>2
      <4>5. SizeIn(fs[j].body) = b.size /\ SizeIn(fs[j].meta) = m.size
        BY <4>2, <4>3, <4>4, SizeOfSingle
      <4>6. b.size \in Nat /\ b.size > 0 BY <4>4 DEF BodyFile
      <4>7. j \in own BY <3>1, <4>3, <4>6 DEF Listed
      <4>8. j \in S BY <4>1, <4>7
      <4>9. f[j] = g[j] BY <3>1, <4>1, <4>3, <4>5
      <4> HIDE DEF f, g, S, T
      <4> QED BY <3>2, <4>8, <4>9
    <3> QED BY <3>3, <3>4
  <2> HIDE DEF f, g, S, T
  <2>5. SumFunctionOnSet(f, T) <= AssetMaxBytes BY <1>12, <2>1, <2>2, <2>3, <2>4
  <2> QED BY <2>5 DEF f, T
<1>14. CASE s # k.site
  <2> DEFINE S == Whole(torn, s)
             g == BodySizes(files)
  <2>1. SumFunctionOnSet(g, S) <= AssetMaxBytes BY DEF AssetInv
  <2>2. \A j \in AssetKey : g[j] \in Nat BY BodySizesAreNatural DEF AssetInv, AssetTyped
  <2>3. S \in SUBSET AssetKey BY DEF Whole
  <2>4. ASSUME NEW j \in T PROVE f[j] <= (IF j \in S THEN g[j] ELSE 0)
    <3>1. j \in AssetKey \ torn' /\ j.site = s /\ f[j] = SizeIn(files'[j].body) BY <1>10
    <3>2. f[j] \in Nat /\ g[j] \in Nat BY <1>8, <2>2, <3>1
    <3>3. j \notin K /\ j # k BY <1>5, <1>14, <3>1 DEF Evicted, Listed
    <3>4. j \notin torn /\ files'[j] = files[j] BY <1>1, <1>2, <3>1, <3>3
    <3>5. j \in S /\ g[j] = f[j] BY <3>1, <3>4 DEF Whole, BodySizes
    <3> HIDE DEF f, g, S, T
    <3> QED BY <3>2, <3>5
  <2> HIDE DEF f, g, S, T
  <2>5. SumFunctionOnSet(f, T) <= AssetMaxBytes BY <1>12, <2>1, <2>2, <2>3, <2>4
  <2> QED BY <2>5 DEF f, T
<1> QED BY <1>13, <1>14

LEMMA AssetWriteKeeps == ASSUME AssetInv, NEW r \in Request, AssetWrite(r) PROVE AssetInv'
<1> DEFINE k == asset[r].key
           fs == MetaRenamed(r)
<1>1. asset[r].at = "storing" BY DEF AssetWrite, AssetAt
<1>2. /\ k \in AssetKey /\ fs \in [AssetKey -> [body : SUBSET BodyFile, meta : SUBSET MetaFile]]
      /\ \A j \in AssetKey : Single(fs[j].body) /\ Single(fs[j].meta)
  BY <1>1, RenamedFiles
<1>3. asset' \in [Request -> AssetLooking \union AssetServing \union AssetStoring \union Still]
  <2>1. [at |-> "done"] \in Still BY DEF Still
  <2> QED BY <2>1 DEF AssetWrite, AssetStep, AssetInv, AssetTyped
<1>4. /\ files \in [AssetKey -> [body : SUBSET BodyFile, meta : SUBSET MetaFile]]
      /\ \A j \in AssetKey : Single(files[j].body) /\ Single(files[j].meta)
      /\ torn \subseteq AssetKey
  BY DEF AssetInv, AssetTyped
<1>5. NoFiles \in [body : SUBSET BodyFile, meta : SUBSET MetaFile]
      /\ NoFiles.body = {} /\ NoFiles.meta = {} /\ Single({})
  BY DEF NoFiles, Single
<1>6. ASSUME NEW K \in SUBSET AssetKey, Evicted(fs, k.site, K), files' = Cleared(fs, K),
             torn' = torn \ (K \union {k})
      PROVE  AssetInv'
  <2> HIDE DEF k, fs
  <2>1. \A j \in AssetKey : files'[j] = IF j \in K THEN NoFiles ELSE fs[j] BY <1>6 DEF Cleared
  <2>2. files' \in [AssetKey -> [body : SUBSET BodyFile, meta : SUBSET MetaFile]]
    BY <1>2, <1>5, <1>6 DEF Cleared
  <2>3. AssetTyped' BY <1>2, <1>3, <1>4, <1>5, <1>6, <2>1, <2>2 DEF AssetTyped
  <2>4. \A j \in AssetKey \ torn' : j \in torn => j \in K \union {k} BY <1>6
  <2> QED BY <1>1, <1>6, <2>1, <2>3, <2>4, WritingKeeps DEF k, fs
<1>7. CASE UNCHANGED <<files, torn>> BY <1>3, <1>7, FilesStay
<1>8. CASE files' = MetaRenameFailed(r) /\ torn' = torn \ {k}
  <2>1. files' = [files EXCEPT ![k].body = {}] BY <1>8 DEF MetaRenameFailed
  <2> HIDE DEF k, fs
  <2>2. /\ files' \in [AssetKey -> [body : SUBSET BodyFile, meta : SUBSET MetaFile]]
        /\ \A j \in AssetKey : j # k => files'[j] = files[j]
        /\ files'[k].body = {} /\ files'[k].meta = files[k].meta
    BY <1>2, <1>4, <2>1
  <2>3. AssetTyped' BY <1>2, <1>3, <1>4, <1>5, <1>8, <2>2 DEF AssetTyped
  <2>4. \A j \in AssetKey : j \in torn' \/ Paired(files', j)
    <3>1. Paired(files', k) BY <2>2 DEF Paired
    <3>2. \A j \in AssetKey : j # k /\ j \notin torn => Paired(files', j)
      BY <2>2 DEF AssetInv, Paired
    <3> QED BY <3>1, <3>2, <1>8
  <2>5. \A j \in AssetKey :
          j \in torn' \/ files'[j].body = {} \/ (j \notin torn /\ files'[j].body = files[j].body)
    BY <1>8, <2>2
  <2> QED BY <2>3, <2>4, <2>5, FilesFade
<1>9. ASSUME NEW K \in SUBSET AssetKey, NEW stays \in K, Evicted(fs, k.site, K),
             files' = [Cleared(fs, K) EXCEPT ![stays].body = fs[stays].body],
             torn' = (torn \ (K \union {k})) \union {stays}
      PROVE  AssetInv'
  <2> HIDE DEF k, fs
  <2> DEFINE cs == Cleared(fs, K)
  <2>1. \A j \in AssetKey : cs[j] = IF j \in K THEN NoFiles ELSE fs[j] BY DEF Cleared
  <2>2. cs \in [AssetKey -> [body : SUBSET BodyFile, meta : SUBSET MetaFile]]
    BY <1>2, <1>5 DEF Cleared
  <2>3. files' = [cs EXCEPT ![stays].body = fs[stays].body] BY <1>9
  <2> HIDE DEF cs
  <2>4. /\ files' \in [AssetKey -> [body : SUBSET BodyFile, meta : SUBSET MetaFile]]
        /\ \A j \in AssetKey : j # stays => files'[j] = cs[j]
        /\ files'[stays].body = fs[stays].body /\ files'[stays].meta = cs[stays].meta
    BY <1>2, <2>2, <2>3
  <2>5. \A j \in AssetKey : Single(files'[j].body) /\ Single(files'[j].meta)
    BY <1>2, <1>5, <2>1, <2>4
  <2>6. AssetTyped' BY <1>3, <1>4, <1>9, <2>4, <2>5 DEF AssetTyped
  <2>7. \A j \in AssetKey \ torn' : files'[j] = IF j \in K THEN NoFiles ELSE fs[j]
    BY <1>9, <2>1, <2>4
  <2>8. \A j \in AssetKey \ torn' : j \in torn => j \in K \union {k} BY <1>9
  <2> QED BY <1>1, <1>9, <2>6, <2>7, <2>8, WritingKeeps DEF k, fs
<1> QED BY <1>6, <1>7, <1>8, <1>9 DEF AssetWrite

\* The process dies with the files as they are, or in the middle of a write.
LEMMA AssetsCrash ==
  ASSUME AssetInv,
         (\E r \in Request : AssetAt(r, "storing") /\ Interrupted(r)) \/ UNCHANGED <<files, torn>>,
         asset' = [r \in Request |-> IF asset[r] = AssetIdle THEN AssetIdle ELSE [at |-> "done"]]
  PROVE  AssetInv'
<1>1. asset' \in [Request -> AssetLooking \union AssetServing \union AssetStoring \union Still]
  <2>1. AssetIdle \in Still /\ [at |-> "done"] \in Still BY DEF AssetIdle, Still
  <2> QED BY <2>1
<1>2. CASE UNCHANGED <<files, torn>> BY <1>1, <1>2, FilesStay
<1>3. ASSUME NEW r \in Request, AssetAt(r, "storing"), Interrupted(r) PROVE AssetInv'
  <2> DEFINE k == asset[r].key
             fs == MetaRenamed(r)
  <2>1. asset[r].at = "storing" BY <1>3 DEF AssetAt
  <2>2. /\ k \in AssetKey /\ Body(r) \in BodyFile
        /\ fs \in [AssetKey -> [body : SUBSET BodyFile, meta : SUBSET MetaFile]]
        /\ \A j \in AssetKey : j # k => fs[j] = files[j]
        /\ \A j \in AssetKey : Single(fs[j].body) /\ Single(fs[j].meta)
    BY <2>1, RenamedFiles
  <2>3. /\ files \in [AssetKey -> [body : SUBSET BodyFile, meta : SUBSET MetaFile]]
        /\ \A j \in AssetKey : Single(files[j].body) /\ Single(files[j].meta)
        /\ torn \subseteq AssetKey
    BY DEF AssetInv, AssetTyped
  <2>4. torn' = torn \union {k} BY <1>3 DEF Interrupted
  <2>5. /\ files' \in [AssetKey -> [body : SUBSET BodyFile, meta : SUBSET MetaFile]]
        /\ \A j \in AssetKey : j # k => files'[j] = files[j]
        /\ \A j \in AssetKey : Single(files'[j].body) /\ Single(files'[j].meta)
    <3>1. CASE files' = fs BY <3>1, <2>2
    <3>2. CASE files' = BodyRenamed(r)
      <4>1. files' = [files EXCEPT ![k].body = {Body(r)}] BY <3>2 DEF BodyRenamed
      <4> HIDE DEF k, fs
      <4>2. /\ files' \in [AssetKey -> [body : SUBSET BodyFile, meta : SUBSET MetaFile]]
            /\ \A j \in AssetKey : j # k => files'[j] = files[j]
            /\ files'[k].body = {Body(r)} /\ files'[k].meta = files[k].meta
        BY <2>2, <2>3, <4>1
      <4>3. Single({Body(r)}) BY DEF Single
      <4> QED BY <2>2, <2>3, <4>2, <4>3
    <3> QED BY <1>3, <3>1, <3>2 DEF Interrupted
  <2> HIDE DEF k, fs
  <2>6. AssetTyped' BY <1>1, <2>2, <2>3, <2>4, <2>5 DEF AssetTyped
  <2>7. \A j \in AssetKey : j \in torn' \/ Paired(files', j) BY <2>4, <2>5 DEF AssetInv, Paired
  <2>8. \A j \in AssetKey : j \in torn' \/ (j \notin torn /\ files'[j].body = files[j].body)
    BY <2>4, <2>5
  <2> QED BY <2>6, <2>7, <2>8, FilesFade
<1> QED BY <1>2, <1>3

LEMMA AssetsStay == ASSUME AssetInv, UNCHANGED assetVars PROVE AssetInv'
BY DEF AssetInv, AssetTyped, assetVars

LEMMA AssetsStart == ASSUME AssetInit PROVE AssetInv
<1>1. asset \in [Request -> AssetLooking \union AssetServing \union AssetStoring \union Still]
  BY DEF AssetInit, AssetIdle, Still
<1>2. NoFiles \in [body : SUBSET BodyFile, meta : SUBSET MetaFile]
      /\ NoFiles.body = {} /\ NoFiles.meta = {} /\ Single({})
  BY DEF NoFiles, Single
<1>3. \A k \in AssetKey : files[k] = NoFiles BY DEF AssetInit
<1>4. AssetTyped
  <2>1. files \in [AssetKey -> [body : SUBSET BodyFile, meta : SUBSET MetaFile]] BY <1>2 DEF AssetInit
  <2> QED BY <1>1, <1>2, <1>3, <2>1 DEF AssetInit, AssetTyped
<1>5. \A k \in AssetKey : Paired(files, k) BY <1>2, <1>3 DEF Paired
<1>6. ASSUME NEW s \in Site PROVE SumFunctionOnSet(BodySizes(files), Whole(torn, s)) <= AssetMaxBytes
  <2> DEFINE f == BodySizes(files)
             S == Whole(torn, s)
  <2>1. S \in SUBSET AssetKey /\ IsFiniteSet(AssetKey) BY AssetAssumption DEF Whole
  <2>2. IsFiniteSet(S) BY <2>1, FS_Subset
  <2>3. \A k \in S : f[k] = 0 BY <1>2, <1>3, <2>1, SizeOfNone DEF BodySizes
  <2> HIDE DEF f, S
  <2>4. SumFunctionOnSet(f, S) = 0 BY <2>2, <2>3, SumOfZeros
  <2>5. SumFunctionOnSet(f, S) <= AssetMaxBytes BY <2>4, AssetAssumption
  <2> QED BY <2>5 DEF f, S
<1> QED BY <1>4, <1>5, <1>6 DEF AssetInv

LEMMA AssetsAreConsistent == ASSUME AssetInv PROVE AssetFilesConsistent
<1>1. ASSUME NEW k \in AssetKey \ torn, NEW m \in files[k].meta, NEW b \in files[k].body
      PROVE  m.author = b.author
  <2>1. Paired(files, k) /\ Single(files[k].meta) BY DEF AssetInv, AssetTyped
  <2>2. PICK n \in files[k].meta : n.author = b.author BY <2>1 DEF Paired
  <2>3. n = m BY <2>1 DEF Single
  <2> QED BY <2>2, <2>3
<1>2. ASSUME NEW s \in Site, \A k \in torn : k.site # s PROVE PanelSize(s) <= AssetMaxBytes
  <2>1. Whole(torn, s) = {k \in AssetKey : k.site = s} BY <1>2 DEF Whole
  <2>2. SumFunctionOnSet(BodySizes(files), Whole(torn, s)) <= AssetMaxBytes BY DEF AssetInv
  <2>3. PanelSize(s) = SumFunctionOnSet(BodySizes(files), Whole(torn, s))
    BY <2>1 DEF PanelSize, BodySizes
  <2> QED BY <2>2, <2>3
<1> QED BY <1>1, <1>2 DEF AssetFilesConsistent

-----------------------------------------------------------------------------
(* The image cache.                                                          *)

ImageEntry ==
  {e \in [key : Target, cost : Nat, responseAt : Nat, initialAge : Int, expiresAt : Int,
          answer : ImageAnswer] : Grants(e, ImageTTL)}
WholeEntry == {e \in ImageEntry : e.answer.declared \in {Absent, e.answer.body}}

Flights == {"leading", "asking", "copying", "finishing"}

CandidateOf(q) == IF "entry" \in DOMAIN q THEN q.entry ELSE {}

\* What the places of serve know.
StateTyped(q) ==
  /\ q.at \in {"looking", "waiting", "again"} \union Flights => q.target \in Target
  /\ q.at \in {"looking", "again"} => q.now \in Nat
  /\ q.at = "copying" => \A e \in q.entry : e \in ImageEntry /\ e.key = q.target
  /\ q.at = "finishing" => \A e \in CandidateOf(q) : e \in WholeEntry /\ e.key = q.target
  /\ q.at = "served" => q.entry \in WholeEntry /\ HonestAge(q)

StatesInv == image = [r \in Request |-> image[r]] /\ \A r \in Request : StateTyped(image[r])

\* What a request has reserved is for a body at least, and it has it only while
\* it leads a flight or ends one; a request that captures has something.
FlightInv ==
  /\ leader \in [Target -> Request \union {Nobody}]
  /\ reserved \in [Request -> Nat]
  /\ \A t \in Target : leader[t] # Nobody => image[leader[t]].at \in Flights /\ image[leader[t]].target = t
  /\ \A r \in Request : reserved[r] > 0 => image[r].at \in Flights /\ reserved[r] > Minimum
  /\ \A r \in Request : image[r].at \in {"asking", "copying"} => r \in capturing /\ reserved[r] > Minimum

ClosedInv ==
  /\ closedSites \subseteq Site
  /\ \A s \in closedSites :
       /\ \A e \in Range(lru) : e.key.site # s
       /\ \A t \in Target : t.site = s => leader[t] = Nobody

\* What site s owes for the reservations res of the requests im.
Due(res, im, s) ==
  [r \in Request |-> IF res[r] > 0 /\ im[r].target.site = s THEN res[r] ELSE 0]
DueTo(res, im, s) == SumFunctionOnSet(Due(res, im, s), Request)

BillInv ==
  /\ siteBytes \in [Site -> Nat] /\ processBytes \in Nat
  /\ \A s \in Site : /\ siteBytes[s] = CostOf(OfSite(lru, s)) + DueTo(reserved, image, s)
                     /\ siteBytes[s] <= MaxSiteBytes
  /\ processBytes = CostOf(lru) + SumFunctionOnSet(reserved, Request)
  /\ processBytes <= MaxProcessBytes

ImageInv ==
  StatesInv /\ lru \in Seq(WholeEntry) /\ FlightInv /\ ClosedInv /\ BillInv

\* A list that others were dropped from: nothing costs more than before.
Thins(p, q) ==
  /\ p \in Seq(WholeEntry) /\ Range(p) \subseteq Range(q)
  /\ CostOf(p) <= CostOf(q)
  /\ \A s \in Site : CostOf(OfSite(p, s)) <= CostOf(OfSite(q, s))

LEMMA EntriesCost == \A e \in WholeEntry : e.cost \in Nat /\ e.key \in Target
BY DEF WholeEntry, ImageEntry

LEMMA ListsCost ==
  ASSUME NEW q \in Seq(WholeEntry)
  PROVE  CostOf(q) \in Nat /\ \A K : Kept(q, K) \in Seq(WholeEntry) /\ CostOf(Kept(q, K)) \in Nat
<1>1. \A e \in WholeEntry : e.cost \in Nat BY EntriesCost
<1>2. CostOf(q) \in Nat BY <1>1, CostIsNatural
<1>3. ASSUME NEW K PROVE Kept(q, K) \in Seq(WholeEntry) /\ CostOf(Kept(q, K)) \in Nat
  <2>1. Kept(q, K) \in Seq(WholeEntry) BY KeptIsASequence
  <2> QED BY <1>1, <2>1, CostIsNatural
<1> QED BY <1>2, <1>3

LEMMA SitesCost ==
  ASSUME NEW q \in Seq(WholeEntry), NEW s
  PROVE  OfSite(q, s) \in Seq(WholeEntry) /\ CostOf(OfSite(q, s)) \in Nat
BY ListsCost DEF OfSite

LEMMA ThinsItself == ASSUME NEW q \in Seq(WholeEntry) PROVE Thins(q, q)
<1>1. CostOf(q) \in Nat /\ \A s \in Site : CostOf(OfSite(q, s)) \in Nat BY ListsCost, SitesCost
<1> QED BY <1>1 DEF Thins

LEMMA ThinsTwice ==
  ASSUME NEW o, NEW p, NEW q \in Seq(WholeEntry), Thins(o, p), Thins(p, q) PROVE Thins(o, q)
<1>1. o \in Seq(WholeEntry) /\ p \in Seq(WholeEntry) BY DEF Thins
<1>2. CostOf(o) \in Nat /\ CostOf(p) \in Nat /\ CostOf(q) \in Nat BY <1>1, ListsCost
<1>3. CostOf(o) <= CostOf(q)
  <2>1. CostOf(o) <= CostOf(p) /\ CostOf(p) <= CostOf(q) BY DEF Thins
  <2> QED BY <1>2, <2>1
<1>4. ASSUME NEW s \in Site PROVE CostOf(OfSite(o, s)) <= CostOf(OfSite(q, s))
  <2>1. /\ CostOf(OfSite(o, s)) \in Nat /\ CostOf(OfSite(p, s)) \in Nat /\ CostOf(OfSite(q, s)) \in Nat
    BY <1>1, SitesCost
  <2>2. CostOf(OfSite(o, s)) <= CostOf(OfSite(p, s)) /\ CostOf(OfSite(p, s)) <= CostOf(OfSite(q, s))
    BY DEF Thins
  <2> QED BY <2>1, <2>2
<1>5. Range(o) \subseteq Range(q) BY DEF Thins
<1> QED BY <1>1, <1>3, <1>4, <1>5 DEF Thins

LEMMA KeptMore ==
  ASSUME NEW q \in Seq(WholeEntry), NEW K, NEW L, K \subseteq L
  PROVE  CostOf(Kept(q, L)) = CostOf(Kept(q, K)) + CostOf(Kept(q, L \ K))
<1>1. \A e \in WholeEntry : e.cost \in Nat BY EntriesCost
<1>2. K \cap (L \ K) = {} /\ K \union (L \ K) = L OBVIOUS
<1>3. CostOf(Kept(q, K \union (L \ K))) = CostOf(Kept(q, K)) + CostOf(Kept(q, L \ K))
  BY <1>1, <1>2, CostSplits
<1> QED BY <1>2, <1>3

LEMMA KeptThins ==
  ASSUME NEW q \in Seq(WholeEntry), NEW K \in SUBSET Target
  PROVE  Thins(Kept(q, K), q)
<1>1. Kept(q, K) \in Seq(WholeEntry) BY KeptIsASequence
<1>2. Range(Kept(q, K)) \subseteq Range(q)
  <2>1. Range(Kept(q, K)) = {e \in Range(q) : e.key \in K} BY KeptRange
  <2> QED BY <2>1
<1>3. CostOf(Kept(q, K)) <= CostOf(q)
  <2>1. CostOf(Kept(q, Target)) = CostOf(Kept(q, K)) + CostOf(Kept(q, Target \ K)) BY KeptMore
  <2>2. Kept(q, Target) = q BY EntriesCost, KeptOfAll
  <2>3. CostOf(Kept(q, K)) \in Nat /\ CostOf(Kept(q, Target \ K)) \in Nat BY ListsCost
  <2>4. CostOf(q) = CostOf(Kept(q, K)) + CostOf(Kept(q, Target \ K)) BY Zenon, <2>1, <2>2
  <2> QED BY <2>3, <2>4
<1>4. ASSUME NEW s \in Site PROVE CostOf(OfSite(Kept(q, K), s)) <= CostOf(OfSite(q, s))
  <2> DEFINE S == {t \in Target : t.site = s}
             I == K \cap S
  <2>1. OfSite(Kept(q, K), s) = Kept(q, I)
    <3>1. OfSite(Kept(q, K), s) = Kept(Kept(q, K), S) BY DEF OfSite
    <3> HIDE DEF S
    <3> QED BY <3>1, KeptTwice
  <2>2. OfSite(q, s) = Kept(q, S) BY DEF OfSite
  <2>3. I \subseteq S OBVIOUS
  <2> HIDE DEF S, I
  <2>4. CostOf(Kept(q, S)) = CostOf(Kept(q, I)) + CostOf(Kept(q, S \ I)) BY <2>3, KeptMore
  <2>5. CostOf(Kept(q, I)) \in Nat /\ CostOf(Kept(q, S \ I)) \in Nat BY ListsCost
  <2> QED BY <2>1, <2>2, <2>4, <2>5
<1> QED BY <1>1, <1>2, <1>3, <1>4 DEF Thins

LEMMA PrefixThins ==
  ASSUME NEW q \in Seq(WholeEntry), NEW n \in 0..Len(q)
  PROVE  Thins(SubSeq(q, 1, n), q)
<1> DEFINE p == SubSeq(q, 1, n)
<1>1. p \in Seq(WholeEntry) /\ Range(p) \subseteq Range(q) BY PrefixList
<1>2. \A e \in WholeEntry : e.cost \in Nat BY EntriesCost
<1>3. ASSUME NEW K PROVE CostOf(Kept(p, K)) <= CostOf(Kept(q, K)) BY <1>2, CostOfPrefix
<1> HIDE DEF p
<1>4. CostOf(p) <= CostOf(q)
  <2>1. Kept(q, Target) = q /\ Kept(p, Target) = p BY <1>1, EntriesCost, KeptOfAll
  <2>2. CostOf(Kept(p, Target)) <= CostOf(Kept(q, Target)) BY <1>3
  <2> QED BY <2>1, <2>2
<1>5. \A s \in Site : CostOf(OfSite(p, s)) <= CostOf(OfSite(q, s)) BY <1>3 DEF OfSite
<1>6. Thins(p, q) BY <1>1, <1>4, <1>5 DEF Thins
<1> QED BY <1>6 DEF p

\* An entry in front of the others.
LEMMA PushedCosts ==
  ASSUME NEW p \in Seq(WholeEntry), NEW e \in WholeEntry
  PROVE  /\ <<e>> \o p \in Seq(WholeEntry) /\ Range(<<e>> \o p) = Range(p) \union {e}
         /\ CostOf(<<e>> \o p) = e.cost + CostOf(p)
         /\ \A s \in Site : CostOf(OfSite(<<e>> \o p, s)) =
              (IF e.key.site = s THEN e.cost ELSE 0) + CostOf(OfSite(p, s))
<1>1. <<e>> \o p \in Seq(WholeEntry) /\ Range(<<e>> \o p) = Range(p) \union {e} BY PushedList
<1>2. \A f \in WholeEntry : f.cost \in Nat BY EntriesCost
<1>3. CostOf(<<e>> \o p) = e.cost + CostOf(p) BY <1>2, CostOfPushed
<1>4. ASSUME NEW s \in Site
      PROVE  CostOf(OfSite(<<e>> \o p, s)) =
               (IF e.key.site = s THEN e.cost ELSE 0) + CostOf(OfSite(p, s))
  <2> DEFINE S == {t \in Target : t.site = s}
             o == Kept(p, S)
  <2>1. e.key \in S <=> e.key.site = s BY EntriesCost
  <2>2. OfSite(<<e>> \o p, s) = Kept(<<e>> \o p, S) /\ OfSite(p, s) = o BY DEF OfSite
  <2> HIDE DEF S
  <2>3. /\ e.key \in S => Kept(<<e>> \o p, S) = <<e>> \o o
        /\ e.key \notin S => Kept(<<e>> \o p, S) = o
    BY KeptOfPushed
  <2>4. o \in Seq(WholeEntry) /\ CostOf(o) \in Nat BY ListsCost
  <2> HIDE DEF o
  <2>5. CostOf(<<e>> \o o) = e.cost + CostOf(o) BY <1>2, <2>4, CostOfPushed
  <2>6. CASE e.key.site = s
    <3>1. OfSite(<<e>> \o p, s) = <<e>> \o o BY <2>1, <2>2, <2>3, <2>6
    <3> QED BY Zenon, <2>2, <2>5, <2>6, <3>1
  <2>7. CASE e.key.site # s
    <3>1. OfSite(<<e>> \o p, s) = o BY <2>1, <2>2, <2>3, <2>7
    <3>2. CostOf(OfSite(<<e>> \o p, s)) = CostOf(OfSite(p, s)) /\ CostOf(OfSite(p, s)) \in Nat
      BY Zenon, <2>2, <2>4, <3>1
    <3> DEFINE a == CostOf(OfSite(<<e>> \o p, s))
               b == CostOf(OfSite(p, s))
    <3> HIDE DEF a, b
    <3>3. a = (IF e.key.site = s THEN e.cost ELSE 0) + b BY <2>7, <3>2 DEF a, b
    <3> QED BY <3>3 DEF a, b
  <2> QED BY <2>6, <2>7
<1> QED BY <1>1, <1>3, <1>4

LEMMA StoredAreEntries ==
  ASSUME NEW q \in Seq(WholeEntry), NEW e \in Range(q)
  PROVE  e \in WholeEntry
<1>1. PICK i \in DOMAIN q : e = q[i] BY DEF Range
<1>2. i \in 1..Len(q) BY <1>1
<1>3. q \in Seq(WholeEntry) OBVIOUS
<1> QED BY ONLY <1>1, <1>2, <1>3, ElementOfSeq

\* getLocked: the entries that are left cost no more.
LEMMA MovedThins ==
  ASSUME NEW q \in Seq(WholeEntry), NEW e \in Range(q)
  PROVE  Thins(<<e>> \o Without(q, e.key), q)
<1> DEFINE t == e.key
           K == Target \ {t}
           p == Kept(q, K)
           one == Kept(q, {t})
<1>1. e \in WholeEntry /\ e.cost \in Nat /\ t \in Target BY StoredAreEntries, EntriesCost
<1>2. Without(q, t) = p /\ p \in Seq(WholeEntry) BY ListsCost DEF Without
<1>3. Thins(p, q) BY KeptThins
<1>4. ASSUME NEW L, t \in L
      PROVE  e.cost + CostOf(Kept(q, L \ {t})) <= CostOf(Kept(q, L))
  <2>1. {t} \subseteq L BY <1>4
  <2>2. CostOf(Kept(q, L)) = CostOf(one) + CostOf(Kept(q, L \ {t})) BY <2>1, KeptMore
  <2>3. one \in Seq(WholeEntry) BY ListsCost
  <2>4. e \in Range(one)
    <3>1. Range(one) = {f \in Range(q) : f.key \in {t}} BY KeptRange
    <3> QED BY <3>1
  <2>5. e.cost <= CostOf(one)
    <3>1. \A f \in WholeEntry : f.cost \in Nat BY EntriesCost
    <3> HIDE DEF one
    <3> QED BY <2>3, <2>4, <3>1, CostCovers
  <2>6. CostOf(one) \in Nat /\ CostOf(Kept(q, L \ {t})) \in Nat BY ListsCost
  <2> HIDE DEF one, t
  <2> QED BY <1>1, <2>2, <2>5, <2>6
<1>5. /\ <<e>> \o p \in Seq(WholeEntry) /\ Range(<<e>> \o p) = Range(p) \union {e}
      /\ CostOf(<<e>> \o p) = e.cost + CostOf(p)
      /\ \A s \in Site : CostOf(OfSite(<<e>> \o p, s)) =
           (IF t.site = s THEN e.cost ELSE 0) + CostOf(OfSite(p, s))
  BY <1>1, <1>2, PushedCosts
<1>6. CostOf(<<e>> \o p) <= CostOf(q)
  <2>1. e.cost + CostOf(p) <= CostOf(Kept(q, Target)) BY <1>1, <1>4
  <2>2. Kept(q, Target) = q BY EntriesCost, KeptOfAll
  <2> QED BY Zenon, <1>5, <2>1, <2>2
<1>7. ASSUME NEW s \in Site PROVE CostOf(OfSite(<<e>> \o p, s)) <= CostOf(OfSite(q, s))
  <2> DEFINE S == {x \in Target : x.site = s}
             a == CostOf(OfSite(<<e>> \o p, s))
             b == CostOf(OfSite(p, s))
             c == CostOf(OfSite(q, s))
  <2>1. a = (IF t.site = s THEN e.cost ELSE 0) + b BY <1>5
  <2>2. b \in Nat /\ c \in Nat BY <1>2, SitesCost
  <2>3. b <= c BY <1>3 DEF Thins
  <2>4. t.site = s => e.cost + b <= c
    <3> SUFFICES ASSUME t.site = s PROVE e.cost + b <= c OBVIOUS
    <3>1. t \in S BY <1>1
    <3>2. K \cap S = S \ {t} BY <1>1
    <3>3. OfSite(p, s) = Kept(q, K \cap S)
      <4>1. OfSite(p, s) = Kept(Kept(q, K), S) BY DEF OfSite
      <4> HIDE DEF S, K
      <4> QED BY <4>1, KeptTwice
    <3>4. OfSite(q, s) = Kept(q, S) BY DEF OfSite
    <3> HIDE DEF S, K
    <3>5. e.cost + CostOf(Kept(q, S \ {t})) <= CostOf(Kept(q, S)) BY <1>4, <3>1
    <3> QED BY Zenon, <3>2, <3>3, <3>4, <3>5
  <2> HIDE DEF a, b, c
  <2>5. a <= c BY <1>1, <2>1, <2>2, <2>3, <2>4
  <2> QED BY <2>5 DEF a, c
<1>8. Range(<<e>> \o p) \subseteq Range(q) BY <1>3, <1>5 DEF Thins
<1>9. Thins(<<e>> \o p, q) BY <1>5, <1>6, <1>7, <1>8 DEF Thins
<1> QED BY <1>2, <1>9

LEMMA GetThins ==
  ASSUME lru \in Seq(WholeEntry), NEW t \in Target, NEW now
  PROVE  Thins(AfterGet(t, now), lru)
<1>1. CASE Hit(t, now) = {}
  <2>1. AfterGet(t, now) = Kept(lru, Target \ {t}) BY <1>1 DEF AfterGet, Without
  <2> QED BY <2>1, KeptThins
<1>2. CASE Hit(t, now) # {}
  <2>1. PICK e \in Hit(t, now) : AfterGet(t, now) = <<e>> \o Without(lru, t)
    <3>1. AfterGet(t, now) = <<CHOOSE e \in Hit(t, now) : TRUE>> \o Without(lru, t)
      BY <1>2 DEF AfterGet
    <3> QED BY <1>2, <3>1
  <2>2. e \in Range(lru) /\ e.key = t BY <2>1 DEF Hit, Stored
  <2> QED BY <2>1, <2>2, MovedThins
<1> QED BY <1>1, <1>2

LEMMA MinIsMember == ASSUME NEW S \in SUBSET Nat, S # {} PROVE Min(S) \in S
<1> DEFINE Least(T) == \E m \in T : \A y \in T : m <= y
           P == {n \in Nat : \A T \in SUBSET Nat : (\E k \in T : k <= n) => Least(T)}
<1>1. 0 \in P
  <2>1. ASSUME NEW T \in SUBSET Nat, NEW k \in T, k <= 0 PROVE Least(T)
    <3>1. \A y \in T : k <= y BY <2>1
    <3> QED BY <3>1
  <2> QED BY <2>1
<1>2. ASSUME NEW n \in Nat, n \in P PROVE n + 1 \in P
  <2> SUFFICES ASSUME NEW T \in SUBSET Nat, NEW k \in T, k <= n + 1 PROVE Least(T)
    OBVIOUS
  <2>1. CASE \E j \in T : j <= n BY <1>2, <2>1
  <2>2. CASE \A j \in T : ~(j <= n)
    <3>1. \A y \in T : k <= y BY <2>2
    <3> QED BY <3>1
  <2> QED BY <2>1, <2>2
<1> HIDE DEF P
<1>3. Nat \subseteq P BY <1>1, <1>2, NatSetInduction
<1>4. PICK x \in S : x \in Nat BY Zenon
<1>5. Least(S)
  <2>1. x \in P BY <1>3, <1>4
  <2>2. x <= x BY <1>4
  <2> QED BY <1>4, <2>1, <2>2 DEF P
<1> QED BY <1>5 DEF Min

\* reserveFlightLocked only ever drops entries.
LEMMA EvictionThins ==
  ASSUME NEW q \in Seq(WholeEntry), NEW s \in Site
  PROVE  Thins(AfterEviction(q, s), q)
<1> DEFINE all == Len(OfSite(q, s))
           n == Min({all} \union {k \in 0..all : SiteRoom(DropSiteTails(q, s, k), s) > Minimum})
           own == DropSiteTails(q, s, n)
           M == {Len(own)} \union {k \in 0..Len(own) : ProcessRoom(DropTails(own, k)) > Minimum}
<1>1. AfterEviction(q, s) = IF SiteRoom(own, s) > Minimum THEN DropTails(own, Min(M)) ELSE own
  BY DEF AfterEviction
<1>2. Thins(own, q)
  <2> HIDE DEF n
  <2>1. \E K \in SUBSET Target : own = Kept(q, K) BY DEF DropSiteTails
  <2> QED BY <2>1, KeptThins
<1> HIDE DEF own
<1>3. own \in Seq(WholeEntry) /\ Len(own) \in Nat BY <1>2 DEF Thins
<1>4. Min(M) \in 0..Len(own)
  <2>1. M \in SUBSET (0..Len(own)) /\ M # {} /\ M \in SUBSET Nat BY <1>3
  <2> HIDE DEF M
  <2>2. Min(M) \in M BY <2>1, MinIsMember
  <2> QED BY <2>1, <2>2
<1> HIDE DEF M
<1>5. Thins(DropTails(own, Min(M)), own)
  <2>1. Len(own) - Min(M) \in 0..Len(own) BY <1>3, <1>4
  <2> QED BY <1>3, <2>1, PrefixThins DEF DropTails
<1>6. Thins(DropTails(own, Min(M)), q) BY <1>2, <1>5, ThinsTwice
<1> QED BY <1>1, <1>2, <1>6


-----------------------------------------------------------------------------
(* What is owed for reservations, and the bills.                             *)

LEMMA DuesAreNatural ==
  ASSUME NEW res \in [Request -> Nat], NEW im
  PROVE  SumFunctionOnSet(res, Request) \in Nat /\ \A x : DueTo(res, im, x) \in Nat
<1>1. IsFiniteSet(Request) BY RequestAssumption
<1>2. SumFunctionOnSet(res, Request) \in Nat BY <1>1, SumIsNatural
<1>3. ASSUME NEW x PROVE DueTo(res, im, x) \in Nat
  <2> DEFINE d == Due(res, im, x)
  <2>1. \A r \in Request : d[r] \in Nat BY DEF Due
  <2> HIDE DEF d
  <2>2. SumFunctionOnSet(d, Request) \in Nat BY <1>1, <2>1, SumIsNatural
  <2> QED BY <2>2 DEF DueTo, d
<1> QED BY <1>2, <1>3

\* Site s owes d more, and the process with it.
DuesChange(new, jm, res, im, s, d) ==
  /\ SumFunctionOnSet(new, Request) = SumFunctionOnSet(res, Request) + d
  /\ DueTo(new, jm, s) = DueTo(res, im, s) + d
  /\ \A x \in Site \ {s} : DueTo(new, jm, x) = DueTo(res, im, x)

\* The limits hold with q in place of lru and d more for site s.
Fits(q, s, d) ==
  /\ \A x \in Site :
       siteBytes[x] - (CostOf(OfSite(lru, x)) - CostOf(OfSite(q, x)))
         + (IF x = s THEN d ELSE 0) <= MaxSiteBytes
  /\ processBytes - (CostOf(lru) - CostOf(q)) + d <= MaxProcessBytes

\* The reservations stay with requests for the same keys.
LEMMA DuesStay ==
  ASSUME NEW res \in [Request -> Nat], NEW im, NEW jm,
         \A r \in Request : res[r] > 0 => jm[r].target = im[r].target
  PROVE  \A x : DueTo(res, jm, x) = DueTo(res, im, x)
<1> SUFFICES ASSUME NEW x PROVE DueTo(res, jm, x) = DueTo(res, im, x) OBVIOUS
<1> DEFINE d == Due(res, im, x)
           e == Due(res, jm, x)
<1>1. IsFiniteSet(Request) BY RequestAssumption
<1>2. \A r \in Request : e[r] = d[r] BY DEF Due
<1> HIDE DEF d, e
<1>3. SumFunctionOnSet(e, Request) = SumFunctionOnSet(d, Request) BY <1>1, <1>2, SumsAgree
<1> QED BY <1>3 DEF DueTo, d, e

\* One request, for a key of site s, has n reserved instead of what it had.
LEMMA OneDueChanges ==
  ASSUME NEW res \in [Request -> Nat], NEW im, NEW jm, NEW r \in Request, NEW s \in Site, NEW n \in Nat,
         \A q \in Request \ {r} : jm[q] = im[q],
         res[r] > 0 => im[r].target.site = s,
         n > 0 => jm[r].target.site = s,
         NEW new, new = [res EXCEPT ![r] = n]
  PROVE  /\ new \in [Request -> Nat]
         /\ DuesChange(new, jm, res, im, s, n - res[r])
<1>1. IsFiniteSet(Request) BY RequestAssumption
<1>2. new \in [Request -> Nat] /\ new[r] = n /\ \A q \in Request \ {r} : new[q] = res[q] OBVIOUS
<1>3. \A q \in Request : res[q] \in Int /\ new[q] \in Int /\ res[q] \in Nat BY <1>2
<1>4. SumFunctionOnSet(new, Request) + res[r] = SumFunctionOnSet(res, Request) + n
  <2>1. /\ IsFiniteSet(Request) /\ r \in Request
        /\ \A q \in Request : res[q] \in Int /\ new[q] \in Int
        /\ \A q \in Request \ {r} : new[q] = res[q]
    BY <1>1, <1>2, <1>3
  <2>2. SumFunctionOnSet(new, Request) + res[r] = SumFunctionOnSet(res, Request) + new[r]
    BY ONLY <2>1, SumChanges
  <2> QED BY <1>2, <2>2
<1>5. SumFunctionOnSet(new, Request) \in Nat /\ SumFunctionOnSet(res, Request) \in Nat
  BY <1>2, DuesAreNatural
<1>6. SumFunctionOnSet(new, Request) = SumFunctionOnSet(res, Request) + (n - res[r])
  BY <1>3, <1>4, <1>5
<1>7. ASSUME NEW x
      PROVE  DueTo(new, jm, x) = DueTo(res, im, x) + (IF x = s THEN n - res[r] ELSE 0)
  <2> DEFINE d == Due(res, im, x)
             e == Due(new, jm, x)
  <2>1. \A q \in Request : d[q] \in Nat /\ e[q] \in Nat BY <1>2 DEF Due
  <2>2. \A q \in Request \ {r} : e[q] = d[q] BY <1>2 DEF Due
  <2>3. d[r] = (IF x = s THEN res[r] ELSE 0) BY <1>3 DEF Due
  <2>4. e[r] = (IF x = s THEN n ELSE 0) BY <1>2 DEF Due
  <2>5. DueTo(new, jm, x) = SumFunctionOnSet(e, Request) /\ DueTo(res, im, x) = SumFunctionOnSet(d, Request)
    BY DEF DueTo
  <2>6. DueTo(new, jm, x) \in Nat /\ DueTo(res, im, x) \in Nat BY <1>2, DuesAreNatural
  <2> HIDE DEF d, e
  <2>7. SumFunctionOnSet(e, Request) + d[r] = SumFunctionOnSet(d, Request) + e[r]
    <3>1. \A q \in Request : d[q] \in Int /\ e[q] \in Int BY <2>1
    <3> QED BY <1>1, <2>2, <3>1, SumChanges
  <2> DEFINE a == DueTo(new, jm, x)
             b == DueTo(res, im, x)
  <2>8. a + d[r] = b + e[r] BY <2>5, <2>7
  <2> HIDE DEF a, b
  <2>9. a = b + (IF x = s THEN n - res[r] ELSE 0)
    BY <1>3, <2>1, <2>3, <2>4, <2>6, <2>8 DEF a, b
  <2> QED BY <2>9 DEF a, b
<1>8. DueTo(new, jm, s) = DueTo(res, im, s) + (n - res[r]) BY <1>7
<1>9. ASSUME NEW x \in Site \ {s} PROVE DueTo(new, jm, x) = DueTo(res, im, x)
  <2> DEFINE a == DueTo(new, jm, x)
             b == DueTo(res, im, x)
             i == IF x = s THEN n - res[r] ELSE 0
  <2>1. b \in Nat BY DuesAreNatural
  <2>2. a = b + i BY <1>7
  <2>3. i = 0 BY <1>9
  <2> HIDE DEF a, b, i
  <2>4. a = b BY <2>1, <2>2, <2>3
  <2> QED BY <2>4 DEF a, b
<1> QED BY <1>2, <1>6, <1>8, <1>9 DEF DuesChange

\* The requests of T, all for keys of site s, give back what they have reserved.
LEMMA DuesReturned ==
  ASSUME NEW res \in [Request -> Nat], NEW im, NEW s \in Site, NEW T \in SUBSET Request,
         \A r \in T : res[r] > 0 => im[r].target.site = s,
         NEW new, new = [r \in Request |-> IF r \in T THEN 0 ELSE res[r]],
         NEW sum, sum = SumFunctionOnSet(res, T)
  PROVE  /\ new \in [Request -> Nat]
         /\ sum \in Nat
         /\ DuesChange(new, im, res, im, s, -sum)
<1> DEFINE old == [r \in Request |-> IF r \in T THEN res[r] ELSE 0]
           all == SumFunctionOnSet(old, Request)
<1>1. IsFiniteSet(Request) /\ IsFiniteSet(T) BY RequestAssumption, FS_Subset
<1>2. /\ new \in [Request -> Nat] /\ old \in [Request -> Nat]
      /\ \A r \in Request : res[r] \in Nat /\ new[r] \in Nat /\ old[r] \in Nat
      /\ \A r \in Request : res[r] = new[r] + old[r]
      /\ \A r \in Request : old[r] = IF r \in T THEN res[r] ELSE 0
  OBVIOUS
<1>3. \A r \in T : old[r] = res[r] /\ r \in Request BY <1>2
<1> HIDE DEF old
<1>4. sum \in Nat /\ all \in Nat BY <1>1, <1>2, <1>3, SumIsNatural
<1>5. sum <= all
  <2>1. \A r \in Request : res[r] \in Nat /\ old[r] \in Nat BY <1>2
  <2>2. \A r \in T : res[r] <= (IF r \in Request THEN old[r] ELSE 0) BY <1>2, <1>3
  <2> QED BY <1>1, <2>1, <2>2, SumDominated
<1>6. all <= sum
  <2>1. \A r \in Request : res[r] \in Nat /\ old[r] \in Nat BY <1>2
  <2>2. \A r \in Request : old[r] <= (IF r \in T THEN res[r] ELSE 0) BY <1>2
  <2> QED BY <1>1, <2>1, <2>2, SumDominated
<1> DEFINE a == SumFunctionOnSet(res, Request)
           b == SumFunctionOnSet(new, Request)
<1>7. a = b + all
  <2>1. \A r \in Request : new[r] \in Int /\ old[r] \in Int /\ res[r] = new[r] + old[r] BY <1>2
  <2> QED BY <1>1, <2>1, SumOfSums
<1>8. a \in Nat /\ b \in Nat BY <1>2, DuesAreNatural
<1> HIDE DEF a, b, all
<1>9. b = a + (-sum) BY <1>4, <1>5, <1>6, <1>7, <1>8
<1>10. ASSUME NEW x
       PROVE  DueTo(new, im, x) = DueTo(res, im, x) + (IF x = s THEN -sum ELSE 0)
  <2> DEFINE d == Due(res, im, x)
             e == Due(new, im, x)
             p == DueTo(res, im, x)
             n == DueTo(new, im, x)
  <2>1. p = SumFunctionOnSet(d, Request) /\ n = SumFunctionOnSet(e, Request) BY DEF DueTo
  <2>2. p \in Nat /\ n \in Nat BY <1>2, DuesAreNatural
  <2>3. CASE x = s
    <3>1. \A r \in Request : e[r] \in Int /\ old[r] \in Int /\ d[r] = e[r] + old[r]
      <4> SUFFICES ASSUME NEW r \in Request
                   PROVE  e[r] \in Int /\ old[r] \in Int /\ d[r] = e[r] + old[r]
        OBVIOUS
      <4>1. CASE r \in T BY <1>2, <2>3, <4>1 DEF Due
      <4>2. CASE r \notin T BY <1>2, <4>2 DEF Due
      <4> QED BY <4>1, <4>2
    <3> HIDE DEF d, e
    <3>2. SumFunctionOnSet(d, Request) = SumFunctionOnSet(e, Request) + SumFunctionOnSet(old, Request)
      BY <1>1, <3>1, SumOfSums
    <3>3. p = n + all BY <2>1, <3>2 DEF all
    <3> HIDE DEF p, n
    <3>4. n = p + (-sum) BY <1>4, <1>5, <1>6, <2>2, <3>3
    <3> QED BY <2>3, <3>4 DEF p, n
  <2>4. CASE x # s
    <3>1. \A r \in Request : e[r] = d[r]
      <4> SUFFICES ASSUME NEW r \in Request PROVE e[r] = d[r] OBVIOUS
      <4>1. CASE r \in T BY <1>2, <2>4, <4>1 DEF Due
      <4>2. CASE r \notin T BY <1>2, <4>2 DEF Due
      <4> QED BY <4>1, <4>2
    <3> HIDE DEF d, e
    <3>2. SumFunctionOnSet(e, Request) = SumFunctionOnSet(d, Request) BY <1>1, <3>1, SumsAgree
    <3>3. n = p BY <2>1, <3>2
    <3> HIDE DEF p, n
    <3> QED BY <2>2, <2>4, <3>3 DEF p, n
  <2> QED BY <2>3, <2>4
<1>11. DueTo(new, im, s) = DueTo(res, im, s) + (-sum) BY <1>10
<1>12. ASSUME NEW x \in Site \ {s} PROVE DueTo(new, im, x) = DueTo(res, im, x)
  <2>1. DueTo(res, im, x) \in Nat BY DuesAreNatural
  <2> QED BY <1>10, <2>1
<1> QED BY <1>2, <1>4, <1>9, <1>11, <1>12 DEF DuesChange, a, b

\* BytesAfter: the bills follow the list and the reservations, within the limits
\* the room for them respects.
LEMMA BillsFollow ==
  ASSUME BillInv, lru \in Seq(WholeEntry), reserved \in [Request -> Nat],
         NEW s \in Site, NEW delta \in Int, NEW q \in Seq(WholeEntry), lru' = q, BytesAfter(q, s, delta),
         NEW res \in [Request -> Nat], NEW im, reserved' = res, image' = im,
         DuesChange(res, im, reserved, image, s, delta), Fits(q, s, delta)
  PROVE  BillInv'
<1>1. ASSUME NEW x \in Site
      PROVE  /\ siteBytes'[x] \in Nat
             /\ siteBytes'[x] = CostOf(OfSite(q, x)) + DueTo(res, im, x)
             /\ siteBytes'[x] <= MaxSiteBytes
  <2> DEFINE a == CostOf(OfSite(lru, x))
             b == CostOf(OfSite(q, x))
             m == siteBytes[x]
             o == DueTo(reserved, image, x)
             n == DueTo(res, im, x)
             i == IF x = s THEN delta ELSE 0
  <2>1. a \in Nat /\ b \in Nat /\ o \in Nat /\ n \in Nat BY SitesCost, DuesAreNatural
  <2>2. m = a + o BY DEF BillInv
  <2>3. n = o + i
    <3>1. o \in Int /\ n \in Int BY <2>1
    <3>2. CASE x = s BY <3>2 DEF DuesChange
    <3>3. CASE x # s
      <4>1. n = o BY <3>3 DEF DuesChange
      <4>2. i = 0 BY <3>3
      <4> HIDE DEF n, o, i
      <4> QED BY <3>1, <4>1, <4>2
    <3> QED BY <3>2, <3>3
  <2>4. m - (a - b) + i <= MaxSiteBytes BY DEF Fits
  <2>5. siteBytes'[x] = Greater(0, m - (a - b) + i) BY DEF BytesAfter
  <2>6. i \in Int OBVIOUS
  <2> HIDE DEF a, b, m, o, n, i
  <2>7. m - (a - b) + i = b + n /\ b + n \in Nat BY <2>1, <2>2, <2>3, <2>6
  <2>8. siteBytes'[x] = b + n BY <2>1, <2>5, <2>7 DEF Greater
  <2> QED BY <2>1, <2>4, <2>7, <2>8 DEF b, n
<1>2. /\ processBytes' \in Nat
      /\ processBytes' = CostOf(q) + SumFunctionOnSet(res, Request)
      /\ processBytes' <= MaxProcessBytes
  <2> DEFINE a == CostOf(lru)
             b == CostOf(q)
             o == SumFunctionOnSet(reserved, Request)
             n == SumFunctionOnSet(res, Request)
  <2>1. a \in Nat /\ b \in Nat /\ o \in Nat /\ n \in Nat BY ListsCost, DuesAreNatural
  <2>2. processBytes = a + o BY DEF BillInv
  <2>3. n = o + delta BY DEF DuesChange
  <2>4. processBytes - (a - b) + delta <= MaxProcessBytes BY DEF Fits
  <2>5. processBytes' = Greater(0, processBytes - (a - b) + delta) BY DEF BytesAfter
  <2> HIDE DEF a, b, o, n
  <2>6. processBytes - (a - b) + delta = b + n /\ b + n \in Nat BY <2>1, <2>2, <2>3
  <2>7. processBytes' = b + n BY <2>1, <2>5, <2>6 DEF Greater
  <2> QED BY <2>1, <2>4, <2>6, <2>7 DEF b, n
<1>3. siteBytes' \in [Site -> Nat]
  <2>1. DOMAIN siteBytes' = Site /\ siteBytes' = [x \in Site |-> siteBytes'[x]] BY DEF BytesAfter
  <2> QED BY <1>1, <2>1
<1> QED BY <1>1, <1>2, <1>3 DEF BillInv

\* Nothing is stored or dropped, and nothing reserved or returned.
LEMMA BillsStay ==
  ASSUME BillInv, reserved \in [Request -> Nat],
         UNCHANGED <<lru, siteBytes, processBytes, reserved>>,
         \A r \in Request : reserved[r] > 0 => image'[r].target = image[r].target
  PROVE  BillInv'
<1>1. PICK im : image' = im OBVIOUS
<1>2. \A x : DueTo(reserved, im, x) = DueTo(reserved, image, x)
  <2>1. PICK res, jm : reserved = res /\ image = jm OBVIOUS
  <2>2. res \in [Request -> Nat] /\ \A r \in Request : res[r] > 0 => im[r].target = jm[r].target
    BY <1>1, <2>1
  <2>3. \A x : DueTo(res, im, x) = DueTo(res, jm, x) BY ONLY <2>2, DuesStay
  <2> QED BY <2>1, <2>3
<1> QED BY <1>1, <1>2 DEF BillInv

-----------------------------------------------------------------------------
(* The steps of a request in the image cache.                                *)

\* A list that lost entries, or their order, is still billed.
LEMMA ThinnerBills ==
  ASSUME ImageInv, NEW p, Thins(p, lru), NEW s \in Site, lru' = p, BytesAfter(p, s, 0),
         UNCHANGED reserved,
         \A r \in Request : reserved[r] > 0 => image'[r].target = image[r].target
  PROVE  BillInv'
<1>1. PICK im, res, old : im = image' /\ res = reserved /\ old = image OBVIOUS
<1>2. BillInv /\ lru \in Seq(WholeEntry) /\ reserved \in [Request -> Nat] BY DEF ImageInv, FlightInv
<1>3. p \in Seq(WholeEntry) BY DEF Thins
<1>4. reserved' = res /\ image' = im /\ res \in [Request -> Nat] BY <1>1, <1>2
<1>5. \A x : DueTo(res, im, x) = DueTo(res, old, x)
  <2>1. \A r \in Request : res[r] > 0 => im[r].target = old[r].target BY <1>1
  <2> QED BY ONLY <1>4, <2>1, DuesStay
<1>6. SumFunctionOnSet(res, Request) \in Nat /\ \A x : DueTo(res, old, x) \in Nat
  BY ONLY <1>4, DuesAreNatural
<1>7. DuesChange(res, im, res, old, s, 0) BY <1>5, <1>6 DEF DuesChange
<1>8. DuesChange(res, im, reserved, image, s, 0) BY <1>1, <1>7
<1>9. ASSUME NEW x \in Site
      PROVE  siteBytes[x] - (CostOf(OfSite(lru, x)) - CostOf(OfSite(p, x)))
               + (IF x = s THEN 0 ELSE 0) <= MaxSiteBytes
  <2> DEFINE a == CostOf(OfSite(lru, x))
             b == CostOf(OfSite(p, x))
  <2>1. a \in Nat /\ b \in Nat /\ b <= a BY <1>2, <1>3, SitesCost DEF Thins
  <2>2. siteBytes[x] \in Nat /\ siteBytes[x] <= MaxSiteBytes BY <1>2 DEF BillInv
  <2> HIDE DEF a, b
  <2>3. siteBytes[x] - (a - b) + 0 <= MaxSiteBytes BY <2>1, <2>2, SizeAssumption
  <2> QED BY <2>3 DEF a, b
<1>10. processBytes - (CostOf(lru) - CostOf(p)) + 0 <= MaxProcessBytes
  <2> DEFINE a == CostOf(lru)
             b == CostOf(p)
  <2>1. a \in Nat /\ b \in Nat /\ b <= a BY <1>2, <1>3, ListsCost DEF Thins
  <2>2. processBytes \in Nat /\ processBytes <= MaxProcessBytes BY <1>2 DEF BillInv
  <2> HIDE DEF a, b
  <2>3. processBytes - (a - b) + 0 <= MaxProcessBytes BY <2>1, <2>2, SizeAssumption
  <2> QED BY <2>3 DEF a, b
<1>11. Fits(p, s, 0) BY <1>9, <1>10 DEF Fits
<1> QED BY <1>2, <1>3, <1>4, <1>8, <1>11, BillsFollow

\* The states after a step of r.
LEMMA StatesFollow ==
  ASSUME StatesInv, NEW r \in Request, NEW st, Step(r, st), StateTyped(st)
  PROVE  /\ StatesInv' /\ image'[r] = st
         /\ \A q \in Request \ {r} : image'[q] = image[q]
<1>1. image' = [q \in Request |-> image'[q]] BY DEF StatesInv, Step
<1>2. image'[r] = st /\ \A q \in Request \ {r} : image'[q] = image[q] BY DEF StatesInv, Step
<1>3. \A q \in Request : StateTyped(image'[q]) BY <1>2 DEF StatesInv
<1> QED BY <1>1, <1>2, <1>3 DEF StatesInv

\* A step that keeps the flights, and the reservations with them.
LEMMA ImageMoves ==
  ASSUME ImageInv, NEW r \in Request, NEW st, Step(r, st), StateTyped(st),
         UNCHANGED <<leader, reserved, closedSites>>, capturing \subseteq capturing',
         image[r].at \in Flights => st.at \in Flights /\ st.target = image[r].target,
         st.at \in {"asking", "copying"} => r \in capturing' /\ reserved[r] > Minimum,
         NEW p, lru' = p, Thins(p, lru),
         UNCHANGED <<lru, siteBytes, processBytes>> \/ \E s \in Site : BytesAfter(p, s, 0)
  PROVE  ImageInv'
<1>1. /\ StatesInv' /\ image'[r] = st /\ \A q \in Request \ {r} : image'[q] = image[q]
  BY StatesFollow DEF ImageInv
<1>2. p \in Seq(WholeEntry) /\ Range(p) \subseteq Range(lru) BY DEF Thins
<1>3. lru' \in Seq(WholeEntry) BY <1>2
<1>4. FlightInv'
  <2>1. FlightInv BY DEF ImageInv
  <2>2. \A t \in Target : leader[t] # Nobody =>
          image'[leader[t]].at \in Flights /\ image'[leader[t]].target = t
    <3> SUFFICES ASSUME NEW t \in Target, leader[t] # Nobody
                 PROVE  image'[leader[t]].at \in Flights /\ image'[leader[t]].target = t
      OBVIOUS
    <3>1. leader[t] \in Request /\ image[leader[t]].at \in Flights /\ image[leader[t]].target = t
      BY <2>1 DEF FlightInv
    <3> QED BY <1>1, <3>1
  <2>3. \A q \in Request : reserved[q] > 0 => image'[q].at \in Flights /\ reserved[q] > Minimum
    BY <1>1, <2>1 DEF FlightInv
  <2>4. \A q \in Request : image'[q].at \in {"asking", "copying"} => q \in capturing' /\ reserved[q] > Minimum
    BY <1>1, <2>1 DEF FlightInv
  <2>5. leader \in [Target -> Request \union {Nobody}] /\ reserved \in [Request -> Nat]
    BY <2>1 DEF FlightInv
  <2> QED BY <2>2, <2>3, <2>4, <2>5 DEF FlightInv
<1>5. ClosedInv'
  <2>1. ClosedInv BY DEF ImageInv
  <2>2. \A e \in Range(lru') : e \in Range(lru) BY <1>2
  <2> QED BY <2>1, <2>2 DEF ClosedInv
<1>6. BillInv'
  <2>1. \A q \in Request : reserved[q] > 0 => image'[q].target = image[q].target
    BY <1>1 DEF ImageInv, FlightInv
  <2>2. CASE UNCHANGED <<lru, siteBytes, processBytes>>
    BY <2>1, <2>2, BillsStay DEF ImageInv, FlightInv
  <2>3. CASE \E s \in Site : BytesAfter(p, s, 0)
    <3>1. PICK s \in Site : BytesAfter(p, s, 0) BY <2>3
    <3> QED BY <2>1, <3>1, ThinnerBills
  <2> QED BY <2>2, <2>3
<1> QED BY <1>1, <1>3, <1>4, <1>5, <1>6 DEF ImageInv

\* A step of a request that keeps everything but where it is.
LEMMA ImageMovesAlone ==
  ASSUME ImageInv, NEW r \in Request, NEW st, Step(r, st), StateTyped(st),
         UNCHANGED <<lru, siteBytes, processBytes, leader, reserved, closedSites>>,
         capturing \subseteq capturing',
         image[r].at \in Flights => st.at \in Flights /\ st.target = image[r].target,
         st.at \in {"asking", "copying"} => r \in capturing' /\ reserved[r] > Minimum
  PROVE  ImageInv'
<1>1. PICK p : p = lru OBVIOUS
<1>2. Thins(p, lru) /\ lru' = p BY <1>1, ThinsItself DEF ImageInv
<1> QED BY <1>2, ImageMoves

\* A place that knows nothing but its key, or not even that.
LEMMA PlainState ==
  /\ \A at \in {"forwarding", "done", "idle"} : StateTyped([at |-> at]) /\ [at |-> at].at = at
  /\ \A at \in {"waiting", "leading", "asking", "finishing"}, t \in Target :
       LET st == [at |-> at, target |-> t]
       IN StateTyped(st) /\ st.at = at /\ st.target = t
<1>1. ASSUME NEW at \in {"forwarding", "done", "idle"} PROVE StateTyped([at |-> at]) /\ [at |-> at].at = at
  BY DEF StateTyped, Flights
<1>2. ASSUME NEW at \in {"waiting", "leading", "asking", "finishing"}, NEW t \in Target
      PROVE  LET st == [at |-> at, target |-> t]
             IN StateTyped(st) /\ st.at = at /\ st.target = t
  <2> DEFINE st == [at |-> at, target |-> t]
  <2>1. st.at = at /\ st.target = t /\ CandidateOf(st) = {} BY DEF CandidateOf
  <2> QED BY <2>1 DEF StateTyped
<1> QED BY <1>1, <1>2

LEMMA ImageArriveKeeps ==
  ASSUME ImageInv, clock \in Nat, NEW r \in Request, ImageArrive(r) PROVE ImageInv'
<1>1. PICK t \in Target, m \in {"GET", "HEAD"} :
        Step(r, [at |-> "looking", target |-> t, method |-> m, now |-> clock])
  BY DEF ImageArrive
<1> DEFINE st == [at |-> "looking", target |-> t, method |-> m, now |-> clock]
<1>2. StateTyped(st) /\ st.at = "looking" BY DEF StateTyped
<1>3. image[r].at = "idle" BY DEF ImageArrive, At
<1>4. UNCHANGED <<lru, siteBytes, processBytes, leader, reserved, capturing, closedSites>>
  BY DEF ImageArrive
<1> HIDE DEF st
<1> QED BY <1>1, <1>2, <1>3, <1>4, ImageMovesAlone DEF st, Flights

LEMMA ImageForwardsKeeps ==
  ASSUME ImageInv, NEW r \in Request, image[r].at \notin Flights,
         NEW at \in {"forwarding", "done"}, Step(r, [at |-> at]),
         UNCHANGED <<lru, siteBytes, processBytes, leader, reserved, capturing, closedSites>>
  PROVE  ImageInv'
<1> DEFINE st == [at |-> at]
<1>1. StateTyped(st) /\ st.at = at BY PlainState
<1>2. Step(r, st) OBVIOUS
<1> HIDE DEF st
<1> QED BY <1>1, <1>2, ImageMovesAlone

LEMMA ImageReplyKeeps == ASSUME ImageInv, NEW r \in Request, ImageReply(r) PROVE ImageInv'
BY ImageForwardsKeeps DEF ImageReply, At, Flights

LEMMA ImageAbandonKeeps == ASSUME ImageInv, NEW r \in Request, ImageAbandon(r) PROVE ImageInv'
BY ImageForwardsKeeps DEF ImageAbandon, At, Flights, Forwards

LEMMA TargetOf ==
  ASSUME ImageInv, NEW r \in Request, image[r].at \in {"looking", "waiting", "again"} \union Flights
  PROVE  image[r].target \in Target /\ image[r].target.site \in Site
BY TargetAssumption DEF ImageInv, StatesInv, StateTyped

LEMMA ImageWakeKeeps ==
  ASSUME ImageInv, clock \in Nat, NEW r \in Request, ImageWake(r) PROVE ImageInv'
<1> DEFINE st == [at |-> "again", target |-> image[r].target, now |-> clock]
<1>1. /\ image[r].at = "waiting" /\ Step(r, st)
      /\ UNCHANGED <<lru, siteBytes, processBytes, leader, reserved, capturing, closedSites>>
  BY DEF ImageWake, At
<1>2. image[r].target \in Target BY <1>1, TargetOf
<1>3. StateTyped(st) /\ st.at = "again" BY <1>2 DEF StateTyped
<1> HIDE DEF st
<1> QED BY <1>1, <1>3, ImageMovesAlone DEF Flights

LEMMA BeginCaptureKeeps == ASSUME ImageInv, NEW r \in Request, BeginCapture(r) PROVE ImageInv'
<1> DEFINE t == image[r].target
<1>1. /\ image[r].at = "leading" /\ UNCHANGED <<lru, siteBytes, processBytes, leader, reserved, closedSites>>
  BY DEF BeginCapture, At
<1>2. t \in Target BY <1>1, TargetOf DEF Flights
<1>3. CASE reserved[r] > 0 /\ Goes(r, "asking") /\ capturing' = capturing \union {r}
  <2> DEFINE st == [at |-> "asking", target |-> t]
  <2>1. StateTyped(st) /\ st.at = "asking" /\ st.target = t BY <1>2, PlainState
  <2>2. Step(r, st) BY <1>3 DEF Goes
  <2>3. reserved[r] > Minimum BY <1>3 DEF ImageInv, FlightInv
  <2> HIDE DEF st
  <2> QED BY <1>1, <1>3, <2>1, <2>2, <2>3, ImageMovesAlone DEF Flights
<1>4. CASE Goes(r, "finishing") /\ UNCHANGED capturing
  <2> DEFINE st == [at |-> "finishing", target |-> t]
  <2>1. StateTyped(st) /\ st.at = "finishing" /\ st.target = t BY <1>2, PlainState
  <2>2. Step(r, st) BY <1>4 DEF Goes
  <2> HIDE DEF st
  <2> QED BY <1>1, <1>4, <2>1, <2>2, ImageMovesAlone DEF Flights
<1> QED BY <1>3, <1>4 DEF BeginCapture

\* What is taken from the upstream's headers grants no more than they do.
LEMMA EntryIsTyped ==
  ASSUME ImageInv, clock \in Nat, NEW r \in Request, image[r].at = "asking",
         NEW a \in ImageAnswer, Cacheable(r, a)
  PROVE  Entry(r, a) \in ImageEntry /\ Entry(r, a).key = image[r].target
<1>1. image[r].target \in Target BY TargetOf DEF Flights
<1>2. reserved[r] \in Nat /\ reserved[r] > Minimum BY DEF ImageInv, FlightInv
<1>3. Minimum \in Nat /\ MaxBody \in Nat /\ ImageTTL \in Nat BY SizeAssumption
<1>4. IsAnswer(a) /\ a.declared \in Nat \union {Absent} BY ImageAnswerAssumption
<1>5. Capacity(r, a) \in Nat BY <1>2, <1>3, <1>4 DEF Capacity, CaptureLimit, Lesser
<1>6. InitialAge(a) \in Int /\ Remaining(a, ImageTTL) \in Int
  BY <1>3, <1>4, InitialAgeIsInteger, RemainingIsInteger
<1>7. clock + Remaining(a, ImageTTL) \in Int /\ Minimum + Capacity(r, a) \in Nat BY <1>3, <1>5, <1>6
<1>8. Fresh(a) BY DEF Cacheable, Metadata
<1> DEFINE k == image[r].target
           c == Minimum + Capacity(r, a)
           i == InitialAge(a)
           x == clock + Remaining(a, ImageTTL)
           e == [key |-> k, cost |-> c, responseAt |-> clock, initialAge |-> i, expiresAt |-> x, answer |-> a]
<1>9. e = Entry(r, a) BY DEF Entry
<1>10. k \in Target /\ c \in Nat /\ i \in Int /\ x \in Int BY <1>1, <1>6, <1>7
<1>11. i = InitialAge(a) /\ x = clock + Remaining(a, ImageTTL) OBVIOUS
<1> HIDE DEF k, c, i, x
<1>12. e \in [key : Target, cost : Nat, responseAt : Nat, initialAge : Int, expiresAt : Int,
              answer : ImageAnswer]
  BY <1>10
<1>13. Grants(e, ImageTTL) BY <1>8, <1>11 DEF Grants
<1>14. e \in ImageEntry /\ e.key = k BY <1>12, <1>13 DEF ImageEntry
<1> QED BY <1>9, <1>14 DEF k

LEMMA ImageHeadersKeeps ==
  ASSUME ImageInv, clock \in Nat, NEW r \in Request, ImageHeaders(r) PROVE ImageInv'
<1> DEFINE t == image[r].target
<1>1. /\ image[r].at = "asking"
      /\ UNCHANGED <<lru, siteBytes, processBytes, leader, reserved, capturing, closedSites>>
  BY DEF ImageHeaders, At
<1>2. PICK a \in ImageAnswer :
        Step(r, [at |-> "copying", target |-> t,
                 entry |-> IF Cacheable(r, a) THEN {Entry(r, a)} ELSE {}])
  BY DEF ImageHeaders
<1> DEFINE E == IF Cacheable(r, a) THEN {Entry(r, a)} ELSE {}
           st == [at |-> "copying", target |-> t, entry |-> E]
<1>3. t \in Target BY <1>1, TargetOf DEF Flights
<1>4. \A e \in E : e \in ImageEntry /\ e.key = t BY <1>1, EntryIsTyped
<1>5. r \in capturing /\ reserved[r] > Minimum BY <1>1 DEF ImageInv, FlightInv
<1>6. Step(r, st) BY <1>2
<1> HIDE DEF E
<1>7. st.at = "copying" /\ st.target = t /\ st.entry = E OBVIOUS
<1> HIDE DEF st, t
<1>8. StateTyped(st) BY <1>3, <1>4, <1>7 DEF StateTyped
<1> QED BY <1>1, <1>5, <1>6, <1>7, <1>8, ImageMovesAlone DEF Flights, t

LEMMA ImageCopiedKeeps == ASSUME ImageInv, NEW r \in Request, ImageCopied(r) PROVE ImageInv'
<1> DEFINE t == image[r].target
<1>1. /\ image[r].at = "copying"
      /\ UNCHANGED <<lru, siteBytes, processBytes, leader, reserved, capturing, closedSites>>
  BY DEF ImageCopied, At
<1>2. PICK kept \in {{}, {e \in image[r].entry : Complete(r, e.answer)}} :
        Step(r, [at |-> "finishing", target |-> t, entry |-> kept])
  BY DEF ImageCopied
<1> DEFINE st == [at |-> "finishing", target |-> t, entry |-> kept]
<1>3. t \in Target BY <1>1, TargetOf DEF Flights
<1>4. \A e \in kept : e \in WholeEntry /\ e.key = t
  <2> SUFFICES ASSUME NEW e \in kept PROVE e \in WholeEntry /\ e.key = t OBVIOUS
  <2>1. e \in image[r].entry /\ Complete(r, e.answer) OBVIOUS
  <2>2. e \in ImageEntry /\ e.key = t BY <1>1, <2>1 DEF ImageInv, StatesInv, StateTyped
  <2>3. e.answer.declared \in {Absent, e.answer.body} BY <2>1 DEF Complete
  <2> QED BY <2>2, <2>3 DEF WholeEntry
<1>5. st.at = "finishing" /\ st.target = t /\ CandidateOf(st) = kept BY DEF CandidateOf
<1>6. Step(r, st) BY <1>2
<1> HIDE DEF st, t
<1>7. StateTyped(st) BY <1>3, <1>4, <1>5 DEF StateTyped
<1> QED BY <1>1, <1>5, <1>6, <1>7, ImageMovesAlone DEF Flights, t

\* A hit is a whole answer with an honest age.
LEMMA HitIsServed ==
  ASSUME ImageInv, NEW t \in Target, NEW now \in Nat, NEW e \in Hit(t, now)
  PROVE  LET st == [at |-> "served", entry |-> e, age |-> AgeValue(e, now)]
         IN StateTyped(st) /\ st.at = "served"
<1> DEFINE st == [at |-> "served", entry |-> e, age |-> AgeValue(e, now)]
<1>1. lru \in Seq(WholeEntry) BY DEF ImageInv
<1>2. e \in Range(lru) /\ now < e.expiresAt BY DEF Hit, Stored
<1>3. e \in WholeEntry BY <1>1, <1>2, StoredAreEntries
<1>4. e \in ImageEntry BY <1>3 DEF WholeEntry
<1>5. /\ Grants(e, ImageTTL) /\ e.responseAt \in Nat /\ IsAnswer(e.answer) /\ ImageTTL \in Nat
  BY <1>4, SizeAssumption, ImageAnswerAssumption DEF ImageEntry
<1>6. st.entry = e /\ st.age = AgeValue(e, now) /\ st.at = "served" OBVIOUS
<1> HIDE DEF st
<1>7. HonestAge(st) BY <1>2, <1>5, <1>6, AgeIsHonest
<1>8. StateTyped(st) BY <1>3, <1>6, <1>7 DEF StateTyped, Flights
<1> QED BY <1>6, <1>8 DEF st

\* lookup, where it serves, follows or forwards: the list is what getLocked left.
LEMMA LookupKeeps ==
  ASSUME ImageInv, NEW r \in Request, image[r].at \in {"looking", "again"},
         NEW t, t = image[r].target, NEW now, now = image[r].now,
         lru' = AfterGet(t, now), BytesAfter(AfterGet(t, now), t.site, 0),
         UNCHANGED <<leader, reserved, capturing, closedSites>>,
         \/ Forwards(r)
         \/ \E e \in Hit(t, now) : Answer(r, e, now)
         \/ \E x : Step(r, [at |-> "waiting", target |-> t, follows |-> x])
  PROVE  ImageInv'
<1>1. t \in Target /\ t.site \in Site BY TargetOf
<1>2. now \in Nat BY DEF ImageInv, StatesInv, StateTyped
<1>3. image[r].at \notin Flights BY DEF Flights
<1>4. PICK p : p = AfterGet(t, now) OBVIOUS
<1>5. Thins(p, lru) /\ lru' = p /\ BytesAfter(p, t.site, 0) BY <1>1, <1>4, GetThins DEF ImageInv
<1>6. \E s \in Site : BytesAfter(p, s, 0) BY <1>1, <1>5
<1>7. \E st : Step(r, st) /\ StateTyped(st) /\ st.at \notin {"asking", "copying"}
  <2>1. CASE Forwards(r)
    <3> DEFINE st == [at |-> "forwarding"]
    <3>1. StateTyped(st) /\ st.at = "forwarding" BY PlainState
    <3>2. Step(r, st) BY <2>1 DEF Forwards
    <3> HIDE DEF st
    <3> QED BY <3>1, <3>2
  <2>2. CASE \E e \in Hit(t, now) : Answer(r, e, now)
    <3>1. PICK e \in Hit(t, now) : Answer(r, e, now) BY <2>2
    <3> DEFINE st == [at |-> "served", entry |-> e, age |-> AgeValue(e, now)]
    <3>2. StateTyped(st) /\ st.at = "served" BY <1>1, <1>2, HitIsServed
    <3>3. Step(r, st) BY <3>1 DEF Answer
    <3> HIDE DEF st
    <3> QED BY <3>2, <3>3
  <2>3. CASE \E x : Step(r, [at |-> "waiting", target |-> t, follows |-> x])
    <3>1. PICK x : Step(r, [at |-> "waiting", target |-> t, follows |-> x]) BY <2>3
    <3> DEFINE st == [at |-> "waiting", target |-> t, follows |-> x]
    <3>2. StateTyped(st) /\ st.at = "waiting" BY <1>1 DEF StateTyped
    <3> HIDE DEF st
    <3> QED BY <3>1, <3>2 DEF st
  <2> QED BY <2>1, <2>2, <2>3
<1>8. PICK st : Step(r, st) /\ StateTyped(st) /\ st.at \notin {"asking", "copying"} BY <1>7
<1>9. capturing \subseteq capturing' /\ UNCHANGED <<leader, reserved, closedSites>> OBVIOUS
<1> QED BY <1>3, <1>5, <1>6, <1>8, <1>9, ImageMoves

LEMMA ImageLookAgainKeeps == ASSUME ImageInv, NEW r \in Request, ImageLookAgain(r) PROVE ImageInv'
<1> DEFINE t == image[r].target
           now == image[r].now
<1>1. image[r].at = "again" /\ UNCHANGED <<leader, reserved, capturing, closedSites>>
  BY DEF ImageLookAgain, At
<1>2. CASE Forwards(r) /\ UNCHANGED <<lru, siteBytes, processBytes>>
  BY <1>1, <1>2, ImageForwardsKeeps DEF Forwards, Flights
<1>3. CASE /\ lru' = AfterGet(t, now) /\ BytesAfter(AfterGet(t, now), t.site, 0)
           /\ IF Hit(t, now) = {} THEN Forwards(r) ELSE \E e \in Hit(t, now) : Answer(r, e, now)
  <2>1. Forwards(r) \/ \E e \in Hit(t, now) : Answer(r, e, now) BY <1>3
  <2> QED BY <1>1, <1>3, <2>1, LookupKeeps
<1> QED BY <1>2, <1>3 DEF ImageLookAgain

LEMMA ReservationHasRoom ==
  ASSUME NEW q, NEW s, SiteRoom(q, s) \in Int, ProcessRoom(q) \in Int
  PROVE  LET n == Reservation(q, s)
         IN /\ n \in Nat
            /\ n # 0 => n > Minimum /\ n <= SiteRoom(q, s) /\ n <= ProcessRoom(q)
<1> DEFINE a == SiteRoom(q, s)
           b == ProcessRoom(q)
<1>1. FlightTarget \in Int BY SizeAssumption DEF FlightTarget, Lesser
<1>2. Reservation(q, s) = IF FlightTarget > Minimum /\ Lesser(a, b) > Minimum
                            THEN Lesser(FlightTarget, Lesser(a, b)) ELSE 0
  BY DEF Reservation
<1>3. Minimum \in Nat BY SizeAssumption
<1> HIDE DEF a, b
<1>4. a \in Int /\ b \in Int BY DEF a, b
<1> DEFINE f == FlightTarget
<1> HIDE DEF f
<1>5. CASE f > Minimum /\ Lesser(a, b) > Minimum
  <2>1. Reservation(q, s) = Lesser(f, Lesser(a, b)) BY <1>2, <1>5 DEF f
  <2> DEFINE n == Reservation(q, s)
  <2> HIDE DEF n
  <2>2. n = Lesser(f, Lesser(a, b)) /\ f \in Int BY <1>1, <2>1 DEF n, f
  <2>3. n \in Nat /\ n > Minimum /\ n <= a /\ n <= b BY <1>3, <1>4, <1>5, <2>2 DEF Lesser
  <2> QED BY <2>3 DEF n, a, b
<1>6. CASE ~(f > Minimum /\ Lesser(a, b) > Minimum)
  <2>1. Reservation(q, s) = 0 BY <1>2, <1>6 DEF f
  <2> QED BY <2>1
<1> QED BY <1>5, <1>6

\* The leader of a new flight takes its reservation, for which there is room.
LEMMA LeadingKeeps ==
  ASSUME ImageInv, NEW r \in Request, image[r].at = "looking", NEW t, t = image[r].target,
         t.site \notin closedSites, leader[t] = Nobody,
         NEW q, Thins(q, lru), NEW n, n = Reservation(q, t.site), n # 0,
         lru' = q, BytesAfter(q, t.site, n), Goes(r, "leading"),
         leader' = [leader EXCEPT ![t] = r], reserved' = [reserved EXCEPT ![r] = n],
         UNCHANGED <<capturing, closedSites>>
  PROVE  ImageInv'
<1> DEFINE s == t.site
           st == [at |-> "leading", target |-> t]
<1>1. t \in Target /\ s \in Site BY TargetOf
<1>2. StateTyped(st) /\ st.at = "leading" /\ st.target = t BY <1>1, PlainState
<1>3. Step(r, st) BY DEF Goes
<1> HIDE DEF st
<1>4. StatesInv' /\ image'[r] = st /\ \A x \in Request \ {r} : image'[x] = image[x]
  BY <1>2, <1>3, StatesFollow DEF ImageInv
<1>5. /\ FlightInv /\ BillInv /\ ClosedInv /\ lru \in Seq(WholeEntry) /\ q \in Seq(WholeEntry)
      /\ leader \in [Target -> Request \union {Nobody}] /\ reserved \in [Request -> Nat]
  BY DEF ImageInv, FlightInv, Thins
<1>6. reserved[r] = 0 BY <1>5 DEF FlightInv, Flights
<1>7. \A x \in Site :
        /\ CostOf(OfSite(lru, x)) \in Nat /\ CostOf(OfSite(q, x)) \in Nat
        /\ CostOf(OfSite(q, x)) <= CostOf(OfSite(lru, x))
        /\ siteBytes[x] \in Nat /\ siteBytes[x] <= MaxSiteBytes
  BY <1>5, SitesCost DEF Thins, BillInv
<1>8. /\ CostOf(lru) \in Nat /\ CostOf(q) \in Nat /\ CostOf(q) <= CostOf(lru)
      /\ processBytes \in Nat /\ processBytes <= MaxProcessBytes
  BY <1>5, ListsCost DEF Thins, BillInv
<1>9. SiteRoom(q, s) \in Int /\ ProcessRoom(q) \in Int
  <2>1. SiteRoom(q, s) \in Int
    <3> DEFINE a == CostOf(OfSite(lru, s))
               b == CostOf(OfSite(q, s))
    <3>1. SiteRoom(q, s) = MaxSiteBytes - (siteBytes[s] - (a - b)) BY DEF SiteRoom
    <3>2. a \in Nat /\ b \in Nat /\ siteBytes[s] \in Nat BY <1>1, <1>7
    <3> HIDE DEF a, b
    <3> QED BY <3>1, <3>2, SizeAssumption
  <2>2. ProcessRoom(q) \in Int
    <3> DEFINE a == CostOf(lru)
               b == CostOf(q)
    <3>1. ProcessRoom(q) = MaxProcessBytes - (processBytes - (a - b)) BY DEF ProcessRoom
    <3>2. a \in Nat /\ b \in Nat /\ processBytes \in Nat BY <1>8
    <3> HIDE DEF a, b
    <3> QED BY <3>1, <3>2, SizeAssumption
  <2> QED BY <2>1, <2>2
<1>10. n \in Nat /\ n > Minimum /\ n > 0 /\ n <= SiteRoom(q, s) /\ n <= ProcessRoom(q)
  BY <1>9, ReservationHasRoom, SizeAssumption
<1>11. FlightInv'
  <2>1. leader' \in [Target -> Request \union {Nobody}] /\ reserved' \in [Request -> Nat]
    BY <1>1, <1>5, <1>10
  <2>2. ASSUME NEW u \in Target, leader'[u] # Nobody
        PROVE  image'[leader'[u]].at \in Flights /\ image'[leader'[u]].target = u
    <3>1. CASE u = t
      <4>1. leader'[u] = r BY <1>1, <1>5, <3>1
      <4> QED BY <1>2, <1>4, <3>1, <4>1 DEF Flights
    <3>2. CASE u # t
      <4>1. leader'[u] = leader[u] BY <1>5, <3>2
      <4>2. leader[u] \in Request /\ image[leader[u]].at \in Flights /\ image[leader[u]].target = u
        BY <1>5, <2>2, <4>1 DEF FlightInv
      <4>3. leader[u] # r BY <4>2 DEF Flights
      <4> QED BY <1>4, <4>1, <4>2, <4>3
    <3> QED BY <3>1, <3>2
  <2>3. ASSUME NEW x \in Request
        PROVE  /\ reserved'[x] > 0 => image'[x].at \in Flights /\ reserved'[x] > Minimum
               /\ image'[x].at \in {"asking", "copying"} => x \in capturing' /\ reserved'[x] > Minimum
    <3>1. CASE x = r
      <4>1. reserved'[x] = n BY <1>5, <3>1
      <4> QED BY <1>2, <1>4, <1>10, <3>1, <4>1 DEF Flights
    <3>2. CASE x # r
      <4>1. reserved'[x] = reserved[x] /\ image'[x] = image[x] BY <1>4, <1>5, <3>2
      <4> QED BY <1>5, <4>1 DEF FlightInv
    <3> QED BY <3>1, <3>2
  <2> QED BY <2>1, <2>2, <2>3 DEF FlightInv
<1>12. ClosedInv'
  <2>1. \A e \in Range(lru') : e \in Range(lru) BY DEF Thins
  <2>2. \A u \in Target : u.site \in closedSites => leader'[u] = leader[u] BY <1>5
  <2> QED BY <1>5, <2>1, <2>2 DEF ClosedInv
<1>13. BillInv'
  <2>1. PICK res, im, jm, new :
          /\ res = reserved /\ im = image /\ jm = image'
          /\ new = [res EXCEPT ![r] = n]
    OBVIOUS
  <2>2. /\ res \in [Request -> Nat] /\ n \in Nat /\ \A x \in Request \ {r} : jm[x] = im[x]
        /\ res[r] > 0 => im[r].target.site = s
        /\ n > 0 => jm[r].target.site = s
        /\ res[r] = 0
        /\ new = [res EXCEPT ![r] = n]
    BY <1>2, <1>4, <1>5, <1>6, <1>10, <2>1
  <2>3. new \in [Request -> Nat] /\ DuesChange(new, jm, res, im, s, n - res[r])
    <3>1. r \in Request OBVIOUS
    <3> HIDE DEF s
    <3> QED BY ONLY <1>1, <2>2, <3>1, OneDueChanges
  <2>4. n - res[r] = n BY <2>2
  <2>5. reserved' = new /\ image' = jm BY <2>1
  <2>6. DuesChange(new, jm, reserved, image, s, n) BY <2>1, <2>3, <2>4
  <2>7. ASSUME NEW x \in Site
        PROVE  siteBytes[x] - (CostOf(OfSite(lru, x)) - CostOf(OfSite(q, x)))
                 + (IF x = s THEN n ELSE 0) <= MaxSiteBytes
    <3> DEFINE a == CostOf(OfSite(lru, x))
               b == CostOf(OfSite(q, x))
    <3>1. a \in Nat /\ b \in Nat /\ b <= a /\ siteBytes[x] \in Nat /\ siteBytes[x] <= MaxSiteBytes
      BY <1>7
    <3>2. x = s => n <= MaxSiteBytes - (siteBytes[x] - (a - b)) BY <1>10 DEF SiteRoom
    <3> HIDE DEF a, b
    <3>3. siteBytes[x] - (a - b) + (IF x = s THEN n ELSE 0) <= MaxSiteBytes
      <4>1. CASE x = s BY <1>10, <3>1, <3>2, <4>1, SizeAssumption
      <4>2. CASE x # s BY <3>1, <4>2, SizeAssumption
      <4> QED BY <4>1, <4>2
    <3> QED BY <3>3 DEF a, b
  <2>8. processBytes - (CostOf(lru) - CostOf(q)) + n <= MaxProcessBytes
    <3> DEFINE a == CostOf(lru)
               b == CostOf(q)
    <3>1. a \in Nat /\ b \in Nat /\ processBytes \in Nat BY <1>8
    <3>2. n <= MaxProcessBytes - (processBytes - (a - b)) BY <1>10 DEF ProcessRoom
    <3> HIDE DEF a, b
    <3>3. processBytes - (a - b) + n <= MaxProcessBytes BY <1>10, <3>1, <3>2, SizeAssumption
    <3> QED BY <3>3 DEF a, b
  <2>9. n \in Int /\ lru' = q /\ BytesAfter(q, s, n) BY <1>10
  <2>10. Fits(q, s, n) BY <2>7, <2>8 DEF Fits
  <2> HIDE DEF s
  <2> QED BY <1>1, <1>5, <2>3, <2>5, <2>6, <2>9, <2>10, BillsFollow
<1> QED BY <1>4, <1>5, <1>11, <1>12, <1>13 DEF ImageInv

LEMMA ImageLookupKeeps == ASSUME ImageInv, NEW r \in Request, ImageLookup(r) PROVE ImageInv'
<1> DEFINE t == image[r].target
           now == image[r].now
           got == AfterGet(t, now)
           room == AfterEviction(got, t.site)
           n == Reservation(room, t.site)
<1>1. image[r].at = "looking" /\ UNCHANGED <<capturing, closedSites>> BY DEF ImageLookup, At
<1>2. t \in Target /\ t.site \in Site BY <1>1, TargetOf
<1>3. CASE Forwards(r) /\ UNCHANGED <<lru, siteBytes, processBytes, leader, reserved>>
  BY <1>1, <1>3, ImageForwardsKeeps DEF Forwards, Flights
<1>4. CASE /\ \/ Forwards(r)
              \/ \E e \in Hit(t, now) : Answer(r, e, now)
              \/ Step(r, [at |-> "waiting", target |-> t, follows |-> leader[t]])
           /\ lru' = got /\ BytesAfter(got, t.site, 0)
           /\ UNCHANGED <<leader, reserved>>
  <2>1. \/ Forwards(r)
        \/ \E e \in Hit(t, now) : Answer(r, e, now)
        \/ \E x : Step(r, [at |-> "waiting", target |-> t, follows |-> x])
    BY <1>4
  <2> QED BY <1>1, <1>4, <2>1, LookupKeeps
<1>5. Thins(room, lru)
  <2>1. Thins(got, lru) BY <1>2, GetThins DEF ImageInv
  <2> HIDE DEF got
  <2>2. got \in Seq(WholeEntry) BY <2>1 DEF Thins
  <2>3. Thins(room, got) BY <1>2, <2>2, EvictionThins
  <2> HIDE DEF room
  <2> QED BY <2>1, <2>3, ThinsTwice DEF ImageInv
<1> HIDE DEF room
<1>6. PICK q, m : q = room /\ m = n OBVIOUS
<1>7. Thins(q, lru) /\ m = Reservation(q, t.site) BY <1>5, <1>6
<1> HIDE DEF n
<1>8. CASE /\ t.site \notin closedSites /\ leader[t] = Nobody
           /\ lru' = room /\ BytesAfter(room, t.site, n)
           /\ IF n = 0
                THEN Forwards(r) /\ UNCHANGED <<leader, reserved>>
                ELSE /\ Goes(r, "leading")
                     /\ leader' = [leader EXCEPT ![t] = r]
                     /\ reserved' = [reserved EXCEPT ![r] = n]
  <2>1. /\ lru' = q /\ BytesAfter(q, t.site, m) BY <1>6, <1>8
  <2>2. CASE m = 0
    <3> DEFINE st == [at |-> "forwarding"]
    <3>1. StateTyped(st) /\ st.at = "forwarding" BY PlainState
    <3>2. Step(r, st) /\ UNCHANGED <<leader, reserved>> BY <1>6, <1>8, <2>2 DEF Forwards
    <3> HIDE DEF st
    <3>3. \E s \in Site : BytesAfter(q, s, 0) BY <1>2, <2>1, <2>2
    <3>4. capturing \subseteq capturing' BY <1>1
    <3> QED BY <1>1, <1>7, <2>1, <3>1, <3>2, <3>3, <3>4, ImageMoves DEF Flights
  <2>3. CASE m # 0
    <3>1. /\ Goes(r, "leading") /\ leader' = [leader EXCEPT ![t] = r]
          /\ reserved' = [reserved EXCEPT ![r] = m]
      BY <1>6, <1>8, <2>3
    <3> QED BY <1>1, <1>7, <1>8, <2>1, <2>3, <3>1, LeadingKeeps
  <2> QED BY <2>2, <2>3
<1> QED BY <1>3, <1>4, <1>8 DEF ImageLookup, n, room

-----------------------------------------------------------------------------
(* The end of a flight, and of a site.                                       *)

\* What storeLocked puts in the list is paid for by the reservation it ends.
StoredList(r) ==
  IF Stores(r) = {} THEN lru
  ELSE <<CHOOSE e \in Stores(r) : TRUE>> \o Without(lru, image[r].target)

LEMMA StoredListFits ==
  ASSUME ImageInv, NEW r \in Request, image[r].at = "finishing"
  PROVE  LET q == StoredList(r)
             s == image[r].target.site
         IN /\ q \in Seq(WholeEntry)
            /\ Range(q) \subseteq Range(lru) \union Stores(r)
            /\ Fits(q, s, -reserved[r])
<1> DEFINE t == image[r].target
           s == t.site
           q == StoredList(r)
           n == reserved[r]
<1>1. t \in Target /\ s \in Site BY TargetOf DEF Flights
<1>2. BillInv /\ lru \in Seq(WholeEntry) /\ n \in Nat BY DEF ImageInv, FlightInv
<1>3. PICK e, p, b :
        /\ b \in BOOLEAN /\ p \in Seq(WholeEntry) /\ Thins(p, lru)
        /\ b => e \in WholeEntry /\ e.key = t /\ e.cost <= n /\ q = <<e>> \o p /\ e \in Stores(r)
        /\ ~b => q = p
  <2>1. CASE Stores(r) = {}
    <3>1. q = lru /\ Thins(lru, lru) BY <1>2, <2>1, ThinsItself DEF StoredList
    <3>2. FALSE \in BOOLEAN OBVIOUS
    <3> HIDE DEF q, t, n
    <3> QED BY <1>2, <3>1, <3>2
  <2>2. CASE Stores(r) # {}
    <3>1. PICK e \in Stores(r) : q = <<e>> \o Without(lru, t)
      <4>1. q = <<CHOOSE e \in Stores(r) : TRUE>> \o Without(lru, t) BY <2>2 DEF StoredList
      <4> QED BY <2>2, <4>1
    <3>2. e \in WholeEntry /\ e.key = t /\ e.cost <= n
      <4>1. e \in Candidate(r) /\ e.cost <= n BY DEF Stores
      <4>2. e \in CandidateOf(image[r]) BY <4>1 DEF Candidate, CandidateOf
      <4> QED BY <4>1, <4>2 DEF ImageInv, StatesInv, StateTyped
    <3>3. Without(lru, t) \in Seq(WholeEntry) /\ Thins(Without(lru, t), lru)
      BY <1>2, ListsCost, KeptThins DEF Without
    <3>4. TRUE \in BOOLEAN OBVIOUS
    <3> HIDE DEF q, t, n
    <3> QED BY <3>1, <3>2, <3>3, <3>4
  <2> QED BY <2>1, <2>2
<1>4. /\ CostOf(p) \in Nat /\ CostOf(lru) \in Nat /\ CostOf(p) <= CostOf(lru)
      /\ \A x \in Site : /\ CostOf(OfSite(p, x)) \in Nat /\ CostOf(OfSite(lru, x)) \in Nat
                         /\ CostOf(OfSite(p, x)) <= CostOf(OfSite(lru, x))
  BY <1>2, ListsCost, SitesCost, <1>3 DEF Thins
<1>5. b => /\ q \in Seq(WholeEntry) /\ Range(q) = Range(p) \union {e}
           /\ CostOf(q) = e.cost + CostOf(p) /\ e.cost \in Nat
           /\ \A x \in Site : CostOf(OfSite(q, x)) =
                (IF e.key.site = x THEN e.cost ELSE 0) + CostOf(OfSite(p, x))
  <2> SUFFICES ASSUME b
               PROVE  /\ q \in Seq(WholeEntry) /\ Range(q) = Range(p) \union {e}
                      /\ CostOf(q) = e.cost + CostOf(p) /\ e.cost \in Nat
                      /\ \A x \in Site : CostOf(OfSite(q, x)) =
                           (IF e.key.site = x THEN e.cost ELSE 0) + CostOf(OfSite(p, x))
    OBVIOUS
  <2>1. e \in WholeEntry /\ p \in Seq(WholeEntry) /\ q = <<e>> \o p BY <1>3
  <2> HIDE DEF q
  <2>2. /\ <<e>> \o p \in Seq(WholeEntry) /\ Range(<<e>> \o p) = Range(p) \union {e}
        /\ CostOf(<<e>> \o p) = e.cost + CostOf(p)
        /\ \A x \in Site : CostOf(OfSite(<<e>> \o p, x)) =
             (IF e.key.site = x THEN e.cost ELSE 0) + CostOf(OfSite(p, x))
    BY <2>1, PushedCosts
  <2>3. e.cost \in Nat BY <2>1, EntriesCost
  <2> QED BY Zenon, <2>1, <2>2, <2>3
<1> HIDE DEF q
<1>6. q \in Seq(WholeEntry) /\ Range(q) \subseteq Range(lru) \union Stores(r)
  BY <1>3, <1>5 DEF Thins
<1>7. ASSUME NEW x \in Site
      PROVE  siteBytes[x] - (CostOf(OfSite(lru, x)) - CostOf(OfSite(q, x)))
               + (IF x = s THEN -n ELSE 0) <= MaxSiteBytes
  <2> DEFINE old == CostOf(OfSite(lru, x))
             kept == CostOf(OfSite(p, x))
             new == CostOf(OfSite(q, x))
             i == IF x = s THEN -n ELSE 0
  <2>1. old \in Nat /\ kept \in Nat /\ kept <= old BY <1>4
  <2>2. siteBytes[x] \in Nat /\ siteBytes[x] <= MaxSiteBytes BY <1>2 DEF BillInv
  <2>3. new \in Nat /\ new + i <= old
    <3>1. CASE ~b
      <4>1. new = kept BY <1>3, <3>1
      <4> HIDE DEF old, kept, new
      <4> QED BY <1>2, <2>1, <4>1
    <3>2. CASE b
      <4>1. e.cost \in Nat /\ e.cost <= n /\ e.key = t BY <1>3, <1>5, <3>2
      <4>2. new = (IF s = x THEN e.cost ELSE 0) + kept BY <1>3, <1>5, <3>2
      <4> HIDE DEF old, kept, new, n, s
      <4> QED BY <1>2, <2>1, <4>1, <4>2
    <3> QED BY <3>1, <3>2
  <2>4. i \in Int BY <1>2
  <2> HIDE DEF old, kept, new, i
  <2>5. siteBytes[x] - (old - new) + i <= MaxSiteBytes
    BY <2>1, <2>2, <2>3, <2>4, SizeAssumption
  <2> QED BY <2>5 DEF old, new, i
<1>8. processBytes - (CostOf(lru) - CostOf(q)) + (-n) <= MaxProcessBytes
  <2> DEFINE old == CostOf(lru)
             kept == CostOf(p)
             new == CostOf(q)
  <2>1. old \in Nat /\ kept \in Nat /\ kept <= old BY <1>4
  <2>2. processBytes \in Nat /\ processBytes <= MaxProcessBytes BY <1>2 DEF BillInv
  <2>3. new \in Nat /\ new + (-n) <= old
    <3>1. CASE ~b
      <4>1. new = kept BY <1>3, <3>1
      <4> HIDE DEF old, kept, new
      <4> QED BY <1>2, <2>1, <4>1
    <3>2. CASE b
      <4>1. e.cost \in Nat /\ e.cost <= n /\ new = e.cost + kept BY <1>3, <1>5, <3>2
      <4> HIDE DEF old, kept, new, n
      <4> QED BY <1>2, <2>1, <4>1
    <3> QED BY <3>1, <3>2
  <2> HIDE DEF old, kept, new
  <2>4. processBytes - (old - new) + (-n) <= MaxProcessBytes
    BY <1>2, <2>1, <2>2, <2>3, SizeAssumption
  <2> QED BY <2>4 DEF old, new
<1>9. Fits(q, s, -n) BY <1>7, <1>8 DEF Fits
<1> QED BY <1>6, <1>9 DEF q

LEMMA FinishFlightKeeps == ASSUME ImageInv, NEW r \in Request, FinishFlight(r) PROVE ImageInv'
<1> DEFINE s == image[r].target.site
           n == reserved[r]
           st == [at |-> "done"]
<1>1. /\ image[r].at = "finishing" /\ leader' = Unregistered(r) /\ Step(r, st)
      /\ reserved' = [reserved EXCEPT ![r] = 0] /\ capturing' = capturing \ {r}
      /\ UNCHANGED closedSites
      /\ lru' = StoredList(r) /\ BytesAfter(StoredList(r), s, -n)
  BY DEF FinishFlight, At, StoredList
<1>2. /\ image[r].target \in Target /\ s \in Site BY <1>1, TargetOf DEF Flights
<1>3. PICK q : q = StoredList(r) OBVIOUS
<1>4. /\ q \in Seq(WholeEntry) /\ Range(q) \subseteq Range(lru) \union Stores(r) /\ Fits(q, s, -n)
  BY <1>1, <1>3, StoredListFits
<1>5. StateTyped(st) /\ st.at = "done" BY PlainState
<1> HIDE DEF st
<1>6. StatesInv' /\ image'[r] = st /\ \A x \in Request \ {r} : image'[x] = image[x]
  BY <1>1, <1>5, StatesFollow DEF ImageInv
<1>7. /\ FlightInv /\ BillInv /\ ClosedInv /\ lru \in Seq(WholeEntry)
      /\ leader \in [Target -> Request \union {Nobody}] /\ reserved \in [Request -> Nat]
  BY DEF ImageInv, FlightInv
<1>8. \A t \in Target : leader'[t] = IF leader[t] = r THEN Nobody ELSE leader[t]
  BY <1>1 DEF Unregistered
<1>9. Nobody \notin Request BY RequestAssumption
<1>10. FlightInv'
  <2>1. leader' \in [Target -> Request \union {Nobody}] /\ reserved' \in [Request -> Nat]
    BY <1>1, <1>7 DEF Unregistered
  <2>2. ASSUME NEW t \in Target, leader'[t] # Nobody
        PROVE  image'[leader'[t]].at \in Flights /\ image'[leader'[t]].target = t
    <3>1. leader'[t] = leader[t] /\ leader[t] # r BY <1>8, <2>2
    <3>2. leader[t] \in Request /\ image[leader[t]].at \in Flights /\ image[leader[t]].target = t
      BY <1>7, <2>2, <3>1 DEF FlightInv
    <3> QED BY <1>6, <3>1, <3>2
  <2>3. ASSUME NEW x \in Request
        PROVE  /\ reserved'[x] > 0 => image'[x].at \in Flights /\ reserved'[x] > Minimum
               /\ image'[x].at \in {"asking", "copying"} => x \in capturing' /\ reserved'[x] > Minimum
    <3>1. CASE x = r
      <4>1. reserved'[x] = 0 BY <1>1, <1>7, <3>1
      <4> QED BY <1>5, <1>6, <3>1, <4>1
    <3>2. CASE x # r
      <4>1. reserved'[x] = reserved[x] /\ image'[x] = image[x] BY <1>1, <1>6, <1>7, <3>2
      <4>2. x \in capturing => x \in capturing' BY <1>1, <3>2
      <4> QED BY <1>7, <4>1, <4>2 DEF FlightInv
    <3> QED BY <3>1, <3>2
  <2> QED BY <2>1, <2>2, <2>3 DEF FlightInv
<1>11. ClosedInv'
  <2>1. ASSUME NEW c \in closedSites, NEW e \in Range(q) PROVE e.key.site # c
    <3>1. CASE e \in Range(lru) BY <1>7, <3>1 DEF ClosedInv
    <3>2. CASE e \in Stores(r)
      <4>1. Flying(r) /\ e \in CandidateOf(image[r])
        BY <3>2 DEF Stores, Candidate, CandidateOf
      <4>2. e.key = image[r].target BY <1>1, <4>1 DEF ImageInv, StatesInv, StateTyped
      <4>3. PICK t \in Target : leader[t] = r BY <4>1 DEF Flying
      <4>4. leader[t] # Nobody BY <1>9, <4>3
      <4>5. image[r].target = t BY <1>7, <4>3, <4>4 DEF FlightInv
      <4>6. t.site # c BY <1>7, <4>4 DEF ClosedInv
      <4> QED BY <4>2, <4>5, <4>6
    <3> QED BY <1>4, <2>1, <3>1, <3>2
  <2>2. \A t \in Target : leader[t] = Nobody => leader'[t] = Nobody BY <1>8
  <2>3. lru' = q /\ closedSites' = closedSites BY <1>1, <1>3
  <2> QED BY <1>7, <2>1, <2>2, <2>3 DEF ClosedInv
<1>12. BillInv'
  <2>1. PICK res, im, jm, new :
          /\ res = reserved /\ im = image /\ jm = image'
          /\ new = [res EXCEPT ![r] = 0]
    OBVIOUS
  <2>2. /\ res \in [Request -> Nat] /\ 0 \in Nat /\ \A x \in Request \ {r} : jm[x] = im[x]
        /\ res[r] > 0 => im[r].target.site = s
        /\ 0 > 0 => jm[r].target.site = s
        /\ new = [res EXCEPT ![r] = 0]
    BY <1>6, <1>7, <2>1
  <2>3. new \in [Request -> Nat] /\ DuesChange(new, jm, res, im, s, 0 - res[r])
    <3>1. r \in Request OBVIOUS
    <3> HIDE DEF s
    <3> QED BY ONLY <1>2, <2>2, <3>1, OneDueChanges
  <2>4. 0 - res[r] = -n /\ -n \in Int BY <2>1, <2>2
  <2>5. reserved' = new /\ image' = jm /\ lru' = q BY <1>1, <1>3, <2>1
  <2>6. DuesChange(new, jm, reserved, image, s, -n) BY <2>1, <2>3, <2>4
  <2>7. BytesAfter(q, s, -n) BY <1>1, <1>3
  <2> HIDE DEF s, n
  <2>8. PICK d : d = -n OBVIOUS
  <2>9. /\ d \in Int /\ DuesChange(new, jm, reserved, image, s, d) /\ BytesAfter(q, s, d)
        /\ Fits(q, s, d)
    BY <1>4, <2>4, <2>6, <2>7, <2>8
  <2> QED BY <1>2, <1>4, <1>7, <2>3, <2>5, <2>9, BillsFollow
<1> QED BY <1>1, <1>3, <1>4, <1>6, <1>7, <1>10, <1>11, <1>12 DEF ImageInv

LEMMA CloseImagesKeeps == ASSUME ImageInv, NEW s \in Site, CloseImages(s) PROVE ImageInv'
<1> DEFINE grounded == {leader[t] : t \in Grounded(s)} \ {Nobody}
           T == grounded \ capturing
           sum == SumFunctionOnSet(reserved, T)
           K == {t \in Target : t.site # s}
<1>1. /\ closedSites' = closedSites \union {s} /\ UNCHANGED <<image, capturing>>
      /\ lru' = Kept(lru, K) /\ BytesAfter(Kept(lru, K), s, -sum)
      /\ reserved' = [r \in Request |-> IF r \in T THEN 0 ELSE reserved[r]]
      /\ leader' = [t \in Target |-> IF t \in Grounded(s) THEN Nobody ELSE leader[t]]
  BY DEF CloseImages
<1>2. /\ StatesInv /\ FlightInv /\ BillInv /\ ClosedInv /\ lru \in Seq(WholeEntry)
      /\ leader \in [Target -> Request \union {Nobody}] /\ reserved \in [Request -> Nat]
  BY DEF ImageInv, FlightInv
<1>3. PICK q : q = Kept(lru, K) OBVIOUS
<1>4. Thins(q, lru) /\ q \in Seq(WholeEntry) BY <1>2, <1>3, KeptThins DEF Thins
<1>5. \A e \in Range(q) : e \in Range(lru) /\ e.key.site # s
  <2>1. Range(Kept(lru, K)) = {e \in Range(lru) : e.key \in K}
    <3> HIDE DEF K
    <3> QED BY <1>2, KeptRange
  <2> QED BY <1>3, <2>1
<1>6. \A r \in T : r \in Request /\ image[r].target.site = s /\ r \notin capturing
  <2> SUFFICES ASSUME NEW r \in T PROVE r \in Request /\ image[r].target.site = s /\ r \notin capturing
    OBVIOUS
  <2>1. PICK t \in Target : t.site = s /\ r = leader[t] /\ r # Nobody BY DEF Grounded
  <2>2. image[r].target = t BY <1>2, <2>1 DEF FlightInv
  <2> QED BY <1>2, <2>1, <2>2
<1> HIDE DEF T, K
<1>7. StatesInv' BY <1>1, <1>2 DEF StatesInv
<1>8. FlightInv'
  <2>1. leader' \in [Target -> Request \union {Nobody}] /\ reserved' \in [Request -> Nat]
    BY <1>1, <1>2
  <2>2. \A t \in Target : leader'[t] # Nobody => leader'[t] = leader[t] BY <1>1
  <2>3. ASSUME NEW x \in Request
        PROVE  /\ reserved'[x] > 0 => image[x].at \in Flights /\ reserved'[x] > Minimum
               /\ image[x].at \in {"asking", "copying"} => x \in capturing /\ reserved'[x] > Minimum
    <3>1. CASE x \in T
      <4>1. reserved'[x] = 0 BY <1>1, <3>1
      <4>2. x \notin capturing BY <1>6, <3>1
      <4> QED BY <1>2, <4>1, <4>2 DEF FlightInv
    <3>2. CASE x \notin T
      <4>1. reserved'[x] = reserved[x] BY <1>1, <3>2
      <4> QED BY <1>2, <4>1 DEF FlightInv
    <3> QED BY <3>1, <3>2
  <2> QED BY <1>1, <1>2, <2>1, <2>2, <2>3 DEF FlightInv
<1>9. ClosedInv'
  <2>1. \A t \in Target : t.site = s => leader'[t] = Nobody BY <1>1 DEF Grounded
  <2>2. \A t \in Target : leader[t] = Nobody => leader'[t] = Nobody BY <1>1
  <2>3. \A e \in Range(lru') : e \in Range(lru) /\ e.key.site # s BY <1>1, <1>3, <1>5
  <2>4. closedSites' = closedSites \union {s} BY <1>1
  <2> QED BY <1>2, <2>1, <2>2, <2>3, <2>4 DEF ClosedInv
<1>10. BillInv'
  <2> PICK res, im, U, m : res = reserved /\ im = image /\ U = T /\ m = sum
    <3> HIDE DEF sum
    <3> QED OBVIOUS
  <2>1. PICK new :
          /\ res = reserved /\ im = image /\ U = T /\ m = sum
          /\ new = [r \in Request |-> IF r \in U THEN 0 ELSE res[r]]
    OBVIOUS
  <2>2. /\ res \in [Request -> Nat] /\ U \in SUBSET Request
        /\ \A r \in U : res[r] > 0 => im[r].target.site = s
        /\ m = SumFunctionOnSet(res, U)
        /\ new = [r \in Request |-> IF r \in U THEN 0 ELSE res[r]]
        /\ s \in Site
    BY <1>2, <1>6, <2>1
  <2>3. new \in [Request -> Nat] /\ m \in Nat /\ DuesChange(new, im, res, im, s, -m)
    BY ONLY <2>2, DuesReturned
  <2>4. reserved' = new /\ image' = im /\ lru' = q BY <1>1, <1>3, <2>1
  <2>5. BytesAfter(q, s, -m) BY <1>1, <1>3, <2>1
  <2>6. Fits(q, s, -m)
    <3>1. ASSUME NEW x \in Site
          PROVE  siteBytes[x] - (CostOf(OfSite(lru, x)) - CostOf(OfSite(q, x)))
                   + (IF x = s THEN -m ELSE 0) <= MaxSiteBytes
      <4> DEFINE a == CostOf(OfSite(lru, x))
                 b == CostOf(OfSite(q, x))
                 i == IF x = s THEN -m ELSE 0
      <4>1. a \in Nat /\ b \in Nat /\ b <= a BY <1>2, <1>4, SitesCost DEF Thins
      <4>2. siteBytes[x] \in Nat /\ siteBytes[x] <= MaxSiteBytes BY <1>2 DEF BillInv
      <4>3. i \in Int /\ i <= 0 BY <2>3
      <4> HIDE DEF a, b, i
      <4>4. siteBytes[x] - (a - b) + i <= MaxSiteBytes BY <4>1, <4>2, <4>3, SizeAssumption
      <4> QED BY <4>4 DEF a, b, i
    <3>2. processBytes - (CostOf(lru) - CostOf(q)) + (-m) <= MaxProcessBytes
      <4> DEFINE a == CostOf(lru)
                 b == CostOf(q)
      <4>1. a \in Nat /\ b \in Nat /\ b <= a BY <1>2, <1>4, ListsCost DEF Thins
      <4>2. processBytes \in Nat /\ processBytes <= MaxProcessBytes BY <1>2 DEF BillInv
      <4> HIDE DEF a, b
      <4>3. processBytes - (a - b) + (-m) <= MaxProcessBytes BY <2>3, <4>1, <4>2, SizeAssumption
      <4> QED BY <4>3 DEF a, b
    <3> QED BY <3>1, <3>2 DEF Fits
  <2>7. PICK d : d = -m OBVIOUS
  <2>8. d \in Int /\ DuesChange(new, im, reserved, image, s, d) /\ BytesAfter(q, s, d) /\ Fits(q, s, d)
    BY <2>1, <2>3, <2>5, <2>6, <2>7
  <2> QED BY <1>2, <1>4, <2>3, <2>4, <2>8, BillsFollow
<1> QED BY <1>1, <1>3, <1>4, <1>7, <1>8, <1>9, <1>10 DEF ImageInv

\* An empty cache that nobody uses: at the start, and after a crash.
ImagesEmpty ==
  /\ image \in [Request -> {Idle, [at |-> "done"]}]
  /\ lru = <<>> /\ processBytes = 0 /\ siteBytes = [s \in Site |-> 0]
  /\ leader = [t \in Target |-> Nobody] /\ reserved = [r \in Request |-> 0]
  /\ capturing = {} /\ closedSites = {}

LEMMA ImagesEmptyHolds == ImagesEmpty => ImageInv
<1> SUFFICES ASSUME ImagesEmpty PROVE ImageInv OBVIOUS
<1>1. \A r \in Request : image[r].at \in {"idle", "done"} /\ StateTyped(image[r])
  <2>1. \A r \in Request : image[r] \in {[at |-> "idle"], [at |-> "done"]}
    BY DEF ImagesEmpty, Idle
  <2>2. /\ StateTyped([at |-> "idle"]) /\ [at |-> "idle"].at = "idle"
        /\ StateTyped([at |-> "done"]) /\ [at |-> "done"].at = "done"
    BY PlainState
  <2> QED BY <2>1, <2>2
<1>2. StatesInv BY <1>1 DEF StatesInv, ImagesEmpty
<1>3. lru \in Seq(WholeEntry) BY DEF ImagesEmpty
<1>4. FlightInv BY <1>1 DEF FlightInv, ImagesEmpty, Flights
<1>5. ClosedInv BY DEF ClosedInv, ImagesEmpty
<1>6. BillInv
  <2>1. IsFiniteSet(Request) BY RequestAssumption
  <2>2. \A s : DueTo(reserved, image, s) = 0
    <3> SUFFICES ASSUME NEW s PROVE DueTo(reserved, image, s) = 0 OBVIOUS
    <3> DEFINE d == Due(reserved, image, s)
    <3>1. \A r \in Request : d[r] = 0 BY DEF Due, ImagesEmpty
    <3> HIDE DEF d
    <3>2. SumFunctionOnSet(d, Request) = 0 BY <2>1, <3>1, SumOfZeros
    <3> QED BY <3>2 DEF DueTo, d
  <2>3. SumFunctionOnSet(reserved, Request) = 0
    <3>1. \A r \in Request : reserved[r] = 0 BY DEF ImagesEmpty
    <3> QED BY <2>1, <3>1, SumOfZeros
  <2>4. CostOf(lru) = 0 /\ \A s : CostOf(OfSite(lru, s)) = 0
    BY CostOfNone, KeptOfNone DEF ImagesEmpty, OfSite
  <2> QED BY <2>2, <2>3, <2>4, SizeAssumption DEF BillInv, ImagesEmpty
<1> QED BY <1>2, <1>3, <1>4, <1>5, <1>6 DEF ImageInv

LEMMA ImagesStart == ASSUME ImageInit PROVE ImageInv
BY ImagesEmptyHolds DEF ImageInit, ImagesEmpty

LEMMA ImagesEmptyHoldsNext == ImagesEmpty' => ImageInv'
BY ImagesEmptyHolds, PTL

LEMMA ImagesCrash == ASSUME ImageInv, Crash PROVE ImageInv'
<1>1. ImagesEmpty' BY DEF Crash, ImagesEmpty
<1> QED BY <1>1, ImagesEmptyHoldsNext

LEMMA ImagesStay == ASSUME ImageInv, UNCHANGED imageVars PROVE ImageInv'
BY DEF imageVars, ImageInv, StatesInv, FlightInv, ClosedInv, BillInv

-----------------------------------------------------------------------------
(* What the invariants say.                                                  *)

LEMMA ImagesAreBilled == ASSUME ImageInv PROVE ImageBudgetExact
<1>1. /\ FlightInv /\ BillInv /\ ClosedInv /\ lru \in Seq(WholeEntry)
      /\ reserved \in [Request -> Nat]
  BY DEF ImageInv, FlightInv
<1>2. IsFiniteSet(Request) BY RequestAssumption
<1>3. ASSUME NEW s \in Site
      PROVE  DueTo(reserved, image, s) =
             SumFunctionOnSet(reserved, {r \in Request : reserved[r] > 0 /\ image[r].target.site = s})
  <2> DEFINE T == {r \in Request : reserved[r] > 0 /\ image[r].target.site = s}
             d == Due(reserved, image, s)
             a == SumFunctionOnSet(d, Request)
             b == SumFunctionOnSet(reserved, T)
  <2>1. T \in SUBSET Request /\ IsFiniteSet(T) BY <1>2, FS_Subset
  <2>2. \A r \in Request : d[r] \in Nat /\ reserved[r] \in Nat BY <1>1 DEF Due
  <2>3. \A r \in Request : d[r] <= (IF r \in T THEN reserved[r] ELSE 0) BY <1>1 DEF Due
  <2>4. \A r \in T : reserved[r] <= (IF r \in Request THEN d[r] ELSE 0) BY <1>1 DEF Due
  <2> HIDE DEF d, T
  <2>5. a <= b
    <3>1. Request \in SUBSET Request OBVIOUS
    <3> QED BY <1>2, <2>1, <2>2, <2>3, <3>1, SumDominated
  <2>6. b <= a
    <3>1. Request \in SUBSET Request OBVIOUS
    <3> QED BY <1>2, <2>1, <2>2, <2>4, <3>1, SumDominated
  <2>7. a \in Nat /\ b \in Nat
    <3>1. \A r \in T : reserved[r] \in Nat BY <2>1, <2>2
    <3> QED BY <1>2, <2>1, <2>2, <3>1, SumIsNatural
  <2> HIDE DEF a, b
  <2>8. a = b BY <2>5, <2>6, <2>7
  <2> QED BY <2>8 DEF a, b, d, T, DueTo
<1>4. processBytes = CostOf(lru) + SumFunction(reserved)
  <2>1. SumFunction(reserved) = SumFunctionOnSet(reserved, Request) BY <1>1, SumOverDomain
  <2> QED BY <1>1, <2>1 DEF BillInv
<1>5. \A r \in Request : reserved[r] > 0 => ~ImageFinished(r)
  BY <1>1 DEF FlightInv, Flights, ImageFinished, At
<1>6. ASSUME NEW s \in closedSites PROVE OfSite(lru, s) = <<>>
  <2> DEFINE q == OfSite(lru, s)
             K == {t \in Target : t.site = s}
  <2>1. q = Kept(lru, K) BY DEF OfSite
  <2>2. Range(q) = {}
    <3> HIDE DEF q
    <3>1. Range(Kept(lru, K)) = {e \in Range(lru) : e.key \in K}
      <4> HIDE DEF K
      <4> QED BY <1>1, KeptRange
    <3> QED BY <1>1, <1>6, <2>1, <3>1 DEF ClosedInv
  <2>3. q \in Seq(WholeEntry)
    <3> HIDE DEF K
    <3> QED BY <1>1, <2>1, KeptIsASequence
  <2> HIDE DEF q
  <2>4. DOMAIN q = {} BY <2>2 DEF Range
  <2>5. q = <<>> BY <2>3, <2>4
  <2> QED BY <2>5 DEF q
<1>7. \A s \in Site : siteBytes[s] = CostOf(OfSite(lru, s)) +
        SumFunctionOnSet(reserved, {r \in Request : reserved[r] > 0 /\ image[r].target.site = s})
  BY <1>1, <1>3 DEF BillInv
<1>8. (\A s \in Site : siteBytes[s] <= MaxSiteBytes) /\ processBytes <= MaxProcessBytes
  BY <1>1 DEF BillInv
<1>9. \A s \in closedSites : \A t \in Target : t.site = s => leader[t] = Nobody
  BY <1>1 DEF ClosedInv
<1> QED BY <1>4, <1>5, <1>6, <1>7, <1>8, <1>9 DEF ImageBudgetExact

LEMMA AnswersAreFresh == ASSUME ImageInv, PingInv PROVE ServedFresh
<1>1. ASSUME NEW r \in Request, image[r].at = "served"
      PROVE  /\ HonestAge(image[r])
             /\ image[r].entry.answer.declared \in {Absent, image[r].entry.answer.body}
  <2>1. image[r].entry \in WholeEntry /\ HonestAge(image[r])
    BY <1>1 DEF ImageInv, StatesInv, StateTyped
  <2> QED BY <2>1 DEF WholeEntry
<1>2. \A r \in Request : ping[r].at = "served" => HonestAge(ping[r])
  BY DEF PingInv, PingServedFresh
<1> QED BY <1>1, <1>2 DEF ServedFresh

LEMMA PingsAreCurrent == ASSUME PingInv PROVE NothingFromBeforeInvalidation
<1>1. \A i \in DOMAIN entries : entries[i].fetchedIn = generation
  BY DEF PingInv, Cache, Range
<1>2. \A i, j \in DOMAIN entries : entries[i].key = entries[j].key => i = j
  BY DEF PingInv, Cache, UniqueKeys
<1> QED BY <1>1, <1>2 DEF NothingFromBeforeInvalidation, PingInv, Cache

LEMMA FlightsHaveLeaders == ASSUME ImageInv, PingInv PROVE FlightsAreFlown
BY DEF ImageInv, FlightInv, Flights, PingInv, PingFlightsFlown, FlightsAreFlown

-----------------------------------------------------------------------------
(* The inductive invariant: the caches share the clock and nothing else.     *)

IInv == clock \in Nat /\ ImageInv /\ PingInv /\ AssetInv

LEMMA InitIInv == Init => IInv
BY ImagesStart, PingsStart, AssetsStart DEF Init, IInv

LEMMA ArriveKeeps == ASSUME IInv, NEW r \in Request, Arrive(r) PROVE IInv'
<1>1. clock \in Nat /\ ImageInv /\ PingInv /\ AssetInv BY DEF IInv
<1>2. CASE ImageArrive(r) /\ UNCHANGED <<clock, events, pingVars, assetVars>>
  BY <1>1, <1>2, ImageArriveKeeps, PingsStay, AssetsStay DEF IInv
<1>3. CASE PingArrive(r) /\ UNCHANGED <<clock, events, imageVars, assetVars>>
  BY <1>1, <1>3, PingArriveKeeps, ImagesStay, AssetsStay DEF IInv
<1>4. CASE AssetArrive(r) /\ UNCHANGED <<clock, imageVars, pingVars>>
  BY <1>1, <1>4, AssetArriveKeeps, ImagesStay, PingsStay DEF IInv
<1> QED BY <1>2, <1>3, <1>4 DEF Arrive

LEMMA ServeKeeps == ASSUME IInv, NEW r \in Request, Serve(r) PROVE IInv'
<1>1. clock \in Nat /\ ImageInv /\ PingInv /\ AssetInv BY DEF IInv
<1>2. CASE ImageServe(r)
  <2>1. UNCHANGED <<clock, events, pingVars, assetVars>> BY <1>2 DEF ImageServe
  <2>2. PingInv' /\ AssetInv' /\ clock' \in Nat BY <1>1, <2>1, PingsStay, AssetsStay
  <2>3. ImageInv'
    <3>1. CASE ImageLookup(r) BY <1>1, <3>1, ImageLookupKeeps
    <3>2. CASE ImageWake(r) BY <1>1, <3>2, ImageWakeKeeps
    <3>3. CASE ImageLookAgain(r) BY <1>1, <3>3, ImageLookAgainKeeps
    <3>4. CASE ImageReply(r) BY <1>1, <3>4, ImageReplyKeeps
    <3>5. CASE BeginCapture(r) BY <1>1, <3>5, BeginCaptureKeeps
    <3>6. CASE ImageHeaders(r) BY <1>1, <3>6, ImageHeadersKeeps
    <3>7. CASE ImageCopied(r) BY <1>1, <3>7, ImageCopiedKeeps
    <3>8. CASE FinishFlight(r) BY <1>1, <3>8, FinishFlightKeeps
    <3> QED BY <1>2, <3>1, <3>2, <3>3, <3>4, <3>5, <3>6, <3>7, <3>8 DEF ImageServe
  <2> QED BY <2>2, <2>3 DEF IInv
<1>3. CASE PingServe(r)
  <2>1. UNCHANGED <<clock, events, imageVars, assetVars>> BY <1>3 DEF PingServe
  <2>2. ImageInv' /\ AssetInv' /\ clock' \in Nat BY <1>1, <2>1, ImagesStay, AssetsStay
  <2>3. PingInv'
    <3>1. CASE PingFirst(r) BY <1>1, <3>1, PingFirstKeeps
    <3>2. CASE PingSecond(r) BY <1>1, <3>2, PingSecondKeeps
    <3>3. CASE PingWake(r) BY <1>1, <3>3, PingWakeKeeps
    <3>4. CASE PingDirect(r) \/ PingReply(r) BY <1>1, <3>4, PingEndings
    <3>5. CASE PingHeaders(r) BY <1>1, <3>5, PingHeadersKeeps
    <3>6. CASE PingError(r)
      <4>1. ping[r].at \in {"fetching", "reading"} /\ PingFinishFlight(r, {})
        BY <3>6 DEF PingError, PingAt
      <4> QED BY <1>1, <4>1, PingFinishKeeps
    <3>7. CASE PingBody(r)
      <4>1. PICK whole \in BOOLEAN : PingFinishFlight(r, IF whole THEN ping[r].entry ELSE {})
        BY <3>7 DEF PingBody
      <4>2. ping[r].at = "reading" BY <3>7 DEF PingBody, PingAt
      <4>3. PICK entry : entry = IF whole THEN ping[r].entry ELSE {} OBVIOUS
      <4>4. PingFinishFlight(r, entry) /\ (entry = {} \/ entry = ping[r].entry) BY <4>1, <4>3
      <4> QED BY <1>1, <4>2, <4>4, PingFinishKeeps
    <3> QED BY <1>3, <3>1, <3>2, <3>3, <3>4, <3>5, <3>6, <3>7 DEF PingServe
  <2> QED BY <2>2, <2>3 DEF IInv
<1>4. CASE AssetServe(r)
  <2>1. UNCHANGED <<clock, imageVars, pingVars>> BY <1>4 DEF AssetServe
  <2>2. ImageInv' /\ PingInv' /\ clock' \in Nat BY <1>1, <2>1, ImagesStay, PingsStay
  <2>3. AssetInv'
    <3>1. CASE AssetHit(r) BY <1>1, <3>1, AssetHitKeeps
    <3>2. CASE AssetReply(r) BY <1>1, <3>2, AssetReplyKeeps
    <3>3. CASE AssetMiss(r) BY <1>1, <3>3, AssetMissKeeps
    <3>4. CASE AssetFetched(r) BY <1>1, <3>4, AssetFetchedKeeps
    <3>5. CASE AssetWrite(r) BY <1>1, <3>5, AssetWriteKeeps
    <3> QED BY <1>4, <3>1, <3>2, <3>3, <3>4, <3>5 DEF AssetServe
  <2> QED BY <2>2, <2>3 DEF IInv
<1> QED BY <1>2, <1>3, <1>4 DEF Serve

LEMMA AbandonKeeps == ASSUME IInv, NEW r \in Request, Abandon(r) PROVE IInv'
<1>1. clock \in Nat /\ ImageInv /\ PingInv /\ AssetInv BY DEF IInv
<1>2. CASE ImageAbandon(r) /\ UNCHANGED <<clock, events, pingVars, assetVars>>
  BY <1>1, <1>2, ImageAbandonKeeps, PingsStay, AssetsStay DEF IInv
<1>3. CASE PingAbandon(r) /\ UNCHANGED <<clock, events, imageVars, assetVars>>
  BY <1>1, <1>3, PingEndings, ImagesStay, AssetsStay DEF IInv
<1> QED BY <1>2, <1>3 DEF Abandon

\* What the panel and the machine do.
LEMMA DisturbanceKeeps ==
  ASSUME IInv, (\E s \in Site : CloseSite(s)) \/ InvalidatePings \/ ClearFiles \/ Crash \/ Tick
  PROVE  IInv'
<1>1. clock \in Nat /\ ImageInv /\ PingInv /\ AssetInv BY DEF IInv
<1>2. CASE \E s \in Site : CloseSite(s)
  <2>1. PICK s \in Site : CloseImages(s) /\ UNCHANGED <<clock, pingVars, assetVars>>
    BY <1>2 DEF CloseSite
  <2> QED BY <1>1, <2>1, CloseImagesKeeps, PingsStay, AssetsStay DEF IInv
<1>3. CASE InvalidatePings
  BY <1>1, <1>3, InvalidateKeeps, ImagesStay, AssetsStay DEF InvalidatePings, IInv
<1>4. CASE ClearFiles
  <2>1. UNCHANGED <<clock, imageVars, pingVars>> BY <1>4 DEF ClearFiles
  <2>2. PICK K : ClearAssets(K) BY <1>4 DEF ClearFiles
  <2> QED BY <1>1, <2>1, <2>2, ClearAssetsKeeps, ImagesStay, PingsStay DEF IInv
<1>5. CASE Crash
  <2>1. ImageInv' BY <1>1, <1>5, ImagesCrash
  <2>2. PingInv' BY <1>1, <1>5, PingsCrash DEF Crash
  <2>3. AssetInv' BY <1>1, <1>5, AssetsCrash DEF Crash
  <2>4. clock' \in Nat BY <1>1, <1>5 DEF Crash
  <2> QED BY <2>1, <2>2, <2>3, <2>4 DEF IInv
<1>6. CASE Tick
  BY <1>1, <1>6, RequestAssumption, ImagesStay, PingsStay, AssetsStay DEF Tick, IInv
<1> QED BY <1>2, <1>3, <1>4, <1>5, <1>6

LEMMA NextIInv == IInv /\ [Next]_vars => IInv'
<1> SUFFICES ASSUME IInv, [Next]_vars PROVE IInv' OBVIOUS
<1>1. CASE \E r \in Request : Arrive(r) \/ Serve(r) \/ Abandon(r)
  BY <1>1, ArriveKeeps, ServeKeeps, AbandonKeeps
<1>2. CASE (\E s \in Site : CloseSite(s)) \/ InvalidatePings \/ ClearFiles \/ Crash \/ Tick
  BY <1>2, DisturbanceKeeps
<1>3. CASE UNCHANGED vars
  BY <1>3, ImagesStay, PingsStay, AssetsStay DEF vars, IInv
<1> QED BY <1>1, <1>2, <1>3 DEF Next

LEMMA Inductive == Spec => []IInv
BY InitIInv, NextIInv, PTL DEF Spec

-----------------------------------------------------------------------------
(* Theorems.                                                                 *)

\* imageCacheSite.bytes and imageCacheRuntime.bytes always are what the stored
\* entries and the open reservations cost, and never exceed their limits;
\* reserveFlightLocked, storeLocked, finishFlight and close see to it together,
\* also when a site is closed under flights that capture.
THEOREM BudgetIsExact == Spec => []ImageBudgetExact
<1>1. IInv => ImageBudgetExact BY ImagesAreBilled DEF IInv
<1> QED BY <1>1, Inductive, PTL

\* What serveImageCacheEntry and the ping cache serve reports an Age, rounded up by
\* cacheResponseAgeValue, that is neither below the upstream's own nor above the
\* lifetime the upstream granted; the image cache's answers are whole.
THEOREM ServesFresh == Spec => []ServedFresh
<1>1. IInv => ServedFresh BY AnswersAreFresh DEF IInv
<1> QED BY <1>1, Inductive, PTL

\* finishFlight of the ping cache stores nothing that a flight fetched before
\* invalidate, and storeLocked keeps one entry for a key and maxEntries at most.
THEOREM NothingOutlivesInvalidation == Spec => []NothingFromBeforeInvalidation
<1>1. IInv => NothingFromBeforeInvalidation BY PingsAreCurrent DEF IInv
<1> QED BY <1>1, Inductive, PTL

\* The two files that write of the asset cache renames belong together and the
\* budget of the site holds, through failing renames; not where a crash or a
\* failing removal left one file alone.
THEOREM FilesAreConsistent == Spec => []AssetFilesConsistent
<1>1. IInv => AssetFilesConsistent BY AssetsAreConsistent DEF IInv
<1> QED BY <1>1, Inductive, PTL

\* A flight that lookupOrBegin made others follow is led by a request that will
\* reach finishFlight, in the image and in the ping cache.
THEOREM FlightsHaveTheirLeader == Spec => []FlightsAreFlown
<1>1. IInv => FlightsAreFlown BY FlightsHaveLeaders DEF IInv
<1> QED BY <1>1, Inductive, PTL
=============================================================================
