------------------------------- MODULE SumFacts -------------------------------
(***************************************************************************)
(* Sums over finite sets, and greatest and least elements: what            *)
(* SumFunctionOnSet, Max and Min compute, for the proofs about Matching.   *)
(*                                                                         *)
(* Each induction over a finite set is an argument by a least              *)
(* counterexample: were there sets that refute the claim, one of them      *)
(* would have no smaller one inside it.                                    *)
(***************************************************************************)
EXTENDS Integers, FiniteSetsExt, FiniteSetTheorems, TLAPS

-----------------------------------------------------------------------------
(* Least counterexamples.                                                  *)

LEMMA LeastSubset ==
  ASSUME NEW S, IsFiniteSet(S), NEW Bad \in SUBSET (SUBSET S), Bad # {}
  PROVE  \E T \in Bad : \A U \in SUBSET T : U \in Bad => U = T
<1>1. IsWellFoundedOn(StrictSubsetOrdering(S), FiniteSubsetsOf(S))
  BY FS_StrictSubsetOrderingWellFounded
<1>2. Bad \subseteq FiniteSubsetsOf(S)
  BY FS_FiniteSubsetsOfFinite
<1>3. PICK T \in Bad : \A U \in Bad : <<U, T>> \notin StrictSubsetOrdering(S)
  BY <1>1, <1>2, WFMin
<1>4. \A U \in SUBSET T : U \in Bad => U = T
  <2> SUFFICES ASSUME NEW U \in SUBSET T, U \in Bad, U # T PROVE FALSE
    OBVIOUS
  <2>1. <<U, T>> \in (SUBSET S) \X (SUBSET S)
    OBVIOUS
  <2>2. <<U, T>> \in StrictSubsetOrdering(S)
    BY <2>1 DEF StrictSubsetOrdering
  <2> QED BY <1>3, <2>2
<1> QED BY <1>4

LEMMA LeastNumber ==
  ASSUME NEW S \in SUBSET Nat, S # {}
  PROVE  \E k \in S : \A l \in S : k <= l
<1>1. IsWellFoundedOn(OpToRel(<, Nat), Nat)
  BY NatLessThanWellFounded
<1>2. PICK k \in S : \A l \in S : ~(<<l, k>> \in OpToRel(<, Nat))
  BY <1>1, WFMin
<1>3. \A l \in S : ~(l < k)
  BY <1>2 DEF OpToRel
<1> QED BY <1>3

LEMMA HasMin ==
  ASSUME NEW S \in SUBSET Nat, S # {}
  PROVE  Min(S) \in S /\ \A x \in S : Min(S) <= x
BY LeastNumber DEF Min

LEMMA HasGreatest ==
  ASSUME NEW n \in Int, NEW S \in SUBSET Int, \A x \in S : x <= n, S # {}
  PROVE  Max(S) \in S /\ \A x \in S : x <= Max(S)
<1> DEFINE T == {k \in Nat : n - k \in S}
<1>1. T # {}
  <2>1. PICK x \in S : x \in Int /\ x <= n
    OBVIOUS
  <2>2. n - x \in Nat /\ n - (n - x) = x
    BY <2>1
  <2> QED BY <2>1, <2>2
<1>2. PICK k \in T : \A l \in T : k <= l
  BY <1>1, LeastNumber
<1>3. \A x \in S : x <= n - k
  <2> SUFFICES ASSUME NEW x \in S PROVE x <= n - k
    OBVIOUS
  <2>1. n - x \in Nat /\ n - (n - x) = x /\ x \in Int /\ k \in Nat
    BY <1>2
  <2>2. k <= n - x
    BY <2>1, <1>2
  <2> QED BY <2>1, <2>2
<1>4. \E x \in S : \A y \in S : x >= y
  <2>1. n - k \in S /\ n - k \in Int /\ \A y \in S : y \in Int
    BY <1>2
  <2> QED BY <2>1, <1>3
<1>5. Max(S) \in S /\ \A y \in S : Max(S) >= y
  BY <1>4 DEF Max
<1> QED BY <1>5

LEMMA HasMax ==
  ASSUME NEW n \in Nat, NEW S \in SUBSET (0 .. n), S # {}
  PROVE  Max(S) \in S /\ \A x \in S : x <= Max(S)
<1>1. S \in SUBSET Int /\ \A x \in S : x <= n
  OBVIOUS
<1> QED BY <1>1, HasGreatest

-----------------------------------------------------------------------------
(* A sum is its recursion.                                                 *)

Pick(S) == CHOOSE x \in S : TRUE

\* g sums f over each subset of S.
SumsUp(g, f, S) ==
  g = [T \in SUBSET S |-> IF T = {} THEN 0 ELSE f[Pick(T)] + g[T \ {Pick(T)}]]

LEMMA SumIsChosen ==
  ASSUME NEW f, NEW S
  PROVE  SumFunctionOnSet(f, S) = (CHOOSE g : SumsUp(g, f, S))[S]
BY DEF SumFunctionOnSet, FoldFunctionOnSet, MapThenFoldSet, SumsUp, Pick

LEMMA PickIn == ASSUME NEW S, S # {} PROVE Pick(S) \in S
BY DEF Pick

LEMMA SumsUpAgree ==
  ASSUME NEW f, NEW S, IsFiniteSet(S),
         NEW R, NEW g, SumsUp(g, f, R), S \subseteq R,
         NEW Q, NEW h, SumsUp(h, f, Q), S \subseteq Q
  PROVE  g[S] = h[S]
<1> DEFINE Bad == {T \in SUBSET S : g[T] # h[T]}
<1>1. SUFFICES ASSUME Bad # {} PROVE FALSE
  OBVIOUS
<1>2. PICK T \in Bad : \A U \in SUBSET T : U \in Bad => U = T
  <2>1. Bad \in SUBSET (SUBSET S)
    OBVIOUS
  <2> HIDE DEF Bad
  <2> QED BY <1>1, <2>1, LeastSubset
<1>3. /\ g[T] = IF T = {} THEN 0 ELSE f[Pick(T)] + g[T \ {Pick(T)}]
      /\ h[T] = IF T = {} THEN 0 ELSE f[Pick(T)] + h[T \ {Pick(T)}]
  <2>1. T \in SUBSET R /\ T \in SUBSET Q
    BY <1>2
  <2> QED BY <2>1 DEF SumsUp
<1>4. CASE T = {}
  BY <1>2, <1>3, <1>4
<1>5. CASE T # {}
  <2>1. Pick(T) \in T
    BY <1>5, PickIn
  <2>2. T \ {Pick(T)} \in SUBSET T /\ T \ {Pick(T)} # T
    BY <2>1
  <2>3. T \ {Pick(T)} \notin Bad
    BY <2>2, <1>2
  <2>4. g[T \ {Pick(T)}] = h[T \ {Pick(T)}]
    BY <2>2, <2>3
  <2> QED BY <1>2, <1>3, <1>5, <2>4
<1> QED BY <1>4, <1>5

\* What the sum over S is, if there are functions that sum over S and over
\* what is left of it.
LEMMA SumOnce ==
  ASSUME NEW f, NEW S, IsFiniteSet(S), S # {},
         \E g : SumsUp(g, f, S), \E g : SumsUp(g, f, S \ {Pick(S)})
  PROVE  SumFunctionOnSet(f, S) =
           f[Pick(S)] + SumFunctionOnSet(f, S \ {Pick(S)})
<1> DEFINE R == S \ {Pick(S)}
           g == CHOOSE x : SumsUp(x, f, S)
           h == CHOOSE x : SumsUp(x, f, R)
<1>1. SumsUp(g, f, S) /\ SumsUp(h, f, R)
  OBVIOUS
<1>2. SumFunctionOnSet(f, S) = g[S] /\ SumFunctionOnSet(f, R) = h[R]
  BY SumIsChosen
<1> HIDE DEF g, h
<1>3. g[S] = f[Pick(S)] + g[R]
  <2>1. S \in SUBSET S
    OBVIOUS
  <2> QED BY <1>1, <2>1 DEF SumsUp
<1>4. IsFiniteSet(R) /\ R \subseteq S
  BY FS_RemoveElement
<1> HIDE DEF R
<1>5. g[R] = h[R]
  BY <1>1, <1>4, SumsUpAgree
<1> QED BY <1>2, <1>3, <1>5 DEF R

LEMMA SumEmptyOnce ==
  ASSUME NEW f
  PROVE  SumFunctionOnSet(f, {}) = 0
<1> DEFINE g == CHOOSE x : SumsUp(x, f, {})
<1>1. \E x : SumsUp(x, f, {})
  <2>1. SumsUp([T \in SUBSET {} |-> 0], f, {})
    BY DEF SumsUp
  <2> QED BY <2>1
<1>2. SumsUp(g, f, {})
  BY <1>1
<1> HIDE DEF g
<1>3. g[{}] = 0
  BY <1>2 DEF SumsUp
<1> QED BY <1>3, SumIsChosen DEF g

LEMMA SumsExist ==
  ASSUME NEW f, NEW S, IsFiniteSet(S)
  PROVE  \E g : SumsUp(g, f, S)
<1> DEFINE Bad == {T \in SUBSET S : ~\E g : SumsUp(g, f, T)}
<1>1. SUFFICES ASSUME Bad # {} PROVE FALSE
  BY <1>1
<1>2. PICK T \in Bad : \A U \in SUBSET T : U \in Bad => U = T
  <2>1. Bad \in SUBSET (SUBSET S)
    OBVIOUS
  <2> HIDE DEF Bad
  <2> QED BY <1>1, <2>1, LeastSubset
<1>3. \A U \in SUBSET T : U # T => \E g : SumsUp(g, f, U)
  BY <1>2
<1> DEFINE Sum(U) == SumFunctionOnSet(f, U)
           Step(U) == IF U = {} THEN 0 ELSE f[Pick(U)] + Sum(U \ {Pick(U)})
           g == [U \in SUBSET T |-> Step(U)]
<1>4. ASSUME NEW U \in SUBSET T, U # T PROVE Sum(U) = Step(U)
  <2>1. CASE U = {}
    BY <2>1, SumEmptyOnce
  <2>2. CASE U # {}
    <3>1. IsFiniteSet(U)
      BY <1>2, FS_Subset
    <3>2. U \ {Pick(U)} \in SUBSET T /\ U \ {Pick(U)} # T
      BY <2>2, PickIn, <1>4
    <3>3. (\E x : SumsUp(x, f, U)) /\ (\E x : SumsUp(x, f, U \ {Pick(U)}))
      BY <1>3, <1>4, <3>2
    <3> QED BY <2>2, <3>1, <3>3, SumOnce
  <2> QED BY <2>1, <2>2
<1>5. ASSUME NEW U \in SUBSET T, U # {} PROVE g[U \ {Pick(U)}] = Sum(U \ {Pick(U)})
  <2>1. U \ {Pick(U)} \in SUBSET T /\ U \ {Pick(U)} # T
    BY <1>5, PickIn
  <2>2. g[U \ {Pick(U)}] = Step(U \ {Pick(U)})
    BY <2>1
  <2>3. Sum(U \ {Pick(U)}) = Step(U \ {Pick(U)})
    BY <2>1, <1>4
  <2> QED BY <2>2, <2>3
<1>6. \A U \in SUBSET T :
        g[U] = IF U = {} THEN 0 ELSE f[Pick(U)] + g[U \ {Pick(U)}]
  BY <1>5
<1>7. SumsUp(g, f, T)
  <2>1. g = [U \in SUBSET T |-> g[U]]
    OBVIOUS
  <2> HIDE DEF g
  <2> QED BY <1>6, <2>1 DEF SumsUp
<1> QED BY <1>2, <1>7

LEMMA SumEmpty == \A f : SumFunctionOnSet(f, {}) = 0
BY SumEmptyOnce

LEMMA SumUnfolds ==
  ASSUME NEW f, NEW S, IsFiniteSet(S), S # {}
  PROVE  SumFunctionOnSet(f, S) =
           f[Pick(S)] + SumFunctionOnSet(f, S \ {Pick(S)})
<1>1. IsFiniteSet(S \ {Pick(S)})
  BY FS_RemoveElement
<1> QED BY <1>1, SumsExist, SumOnce

-----------------------------------------------------------------------------
(* What a sum of integers is.                                              *)

LEMMA SumInt ==
  ASSUME NEW f, NEW S, IsFiniteSet(S), \A x \in S : f[x] \in Int
  PROVE  SumFunctionOnSet(f, S) \in Int
<1> DEFINE Bad == {T \in SUBSET S : SumFunctionOnSet(f, T) \notin Int}
<1>1. SUFFICES ASSUME Bad # {} PROVE FALSE
  BY <1>1
<1>2. PICK T \in Bad : \A U \in SUBSET T : U \in Bad => U = T
  <2>1. Bad \in SUBSET (SUBSET S)
    OBVIOUS
  <2> HIDE DEF Bad
  <2> QED BY <1>1, <2>1, LeastSubset
<1>3. T # {}
  <2>1. SumFunctionOnSet(f, {}) \in Int
    BY SumEmpty
  <2> QED BY <1>2, <2>1
<1>4. Pick(T) \in S /\ T \ {Pick(T)} \in SUBSET T /\ T \ {Pick(T)} # T
  BY <1>2, <1>3, PickIn
<1>5. SumFunctionOnSet(f, T \ {Pick(T)}) \in Int
  BY <1>2, <1>4
<1>6. SumFunctionOnSet(f, T) = f[Pick(T)] + SumFunctionOnSet(f, T \ {Pick(T)})
  BY <1>2, <1>3, FS_Subset, SumUnfolds
<1> QED BY <1>2, <1>4, <1>5, <1>6

\* The order of a sum does not matter: any element may be taken out first.
LEMMA SumTakesOut ==
  ASSUME NEW f, NEW S, IsFiniteSet(S), \A x \in S : f[x] \in Int, NEW y \in S
  PROVE  SumFunctionOnSet(f, S) = f[y] + SumFunctionOnSet(f, S \ {y})
<1> DEFINE Sum(T) == SumFunctionOnSet(f, T)
           Bad == {T \in SUBSET S : \E z \in T : Sum(T) # f[z] + Sum(T \ {z})}
<1>1. SUFFICES ASSUME Bad # {} PROVE FALSE
  BY <1>1
<1>2. PICK T \in Bad : \A U \in SUBSET T : U \in Bad => U = T
  <2>1. Bad \in SUBSET (SUBSET S)
    OBVIOUS
  <2> HIDE DEF Bad
  <2> QED BY <1>1, <2>1, LeastSubset
<1>3. PICK z \in T : Sum(T) # f[z] + Sum(T \ {z})
  BY <1>2
<1> DEFINE x == Pick(T)
<1>4. x \in T /\ z \in T /\ T \in SUBSET S /\ IsFiniteSet(T)
  BY <1>2, <1>3, PickIn, FS_Subset
<1>5. Sum(T) = f[x] + Sum(T \ {x})
  BY <1>4, SumUnfolds
<1>6. x # z
  BY <1>3, <1>5
<1>7. \A U \in SUBSET T : U # T =>
        Sum(U) \in Int /\ \A w \in U : Sum(U) = f[w] + Sum(U \ {w})
  BY <1>2, <1>4, FS_Subset, SumInt
<1> HIDE DEF x
<1>8. Sum(T \ {x}) = f[z] + Sum((T \ {x}) \ {z})
  BY <1>4, <1>6, <1>7
<1>9. Sum(T \ {z}) = f[x] + Sum((T \ {z}) \ {x})
  BY <1>4, <1>6, <1>7
<1>10. Sum((T \ {x}) \ {z}) = Sum((T \ {z}) \ {x})
  <2>1. (T \ {x}) \ {z} = (T \ {z}) \ {x}
    OBVIOUS
  <2> QED BY <2>1
<1>11. Sum((T \ {z}) \ {x}) \in Int /\ f[x] \in Int /\ f[z] \in Int
  BY <1>4, <1>7
<1> HIDE DEF Sum
<1> QED BY <1>3, <1>5, <1>8, <1>9, <1>10, <1>11

LEMMA SumAdds ==
  ASSUME NEW f, NEW S, IsFiniteSet(S), NEW y, y \notin S,
         \A x \in S \cup {y} : f[x] \in Int
  PROVE  SumFunctionOnSet(f, S \cup {y}) = f[y] + SumFunctionOnSet(f, S)
<1>1. IsFiniteSet(S \cup {y}) /\ (S \cup {y}) \ {y} = S
  BY FS_AddElement
<1> QED BY <1>1, SumTakesOut

\* Smaller summands make no greater sum.
LEMMA SumGrowsWithSummands ==
  ASSUME NEW f, NEW g, NEW S, IsFiniteSet(S),
         \A x \in S : f[x] \in Int /\ g[x] \in Int /\ f[x] <= g[x]
  PROVE  SumFunctionOnSet(f, S) <= SumFunctionOnSet(g, S)
<1> DEFINE F(T) == SumFunctionOnSet(f, T)
           G(T) == SumFunctionOnSet(g, T)
           Bad == {T \in SUBSET S : ~(F(T) <= G(T))}
<1>1. SUFFICES ASSUME Bad # {} PROVE FALSE
  BY <1>1
<1>2. PICK T \in Bad : \A U \in SUBSET T : U \in Bad => U = T
  <2>1. Bad \in SUBSET (SUBSET S)
    OBVIOUS
  <2> HIDE DEF Bad
  <2> QED BY <1>1, <2>1, LeastSubset
<1>3. PICK x \in T : TRUE
  <2>1. F({}) <= G({})
    BY SumEmpty
  <2>2. T # {}
    BY <1>2, <2>1
  <2> QED BY <2>2
<1>4. IsFiniteSet(T) /\ T \in SUBSET S /\ IsFiniteSet(T \ {x})
  BY <1>2, FS_Subset, FS_RemoveElement
<1>5. F(T) = f[x] + F(T \ {x}) /\ G(T) = g[x] + G(T \ {x})
  BY <1>4, SumTakesOut
<1>6. F(T \ {x}) <= G(T \ {x})
  BY <1>2
<1>7. F(T \ {x}) \in Int /\ G(T \ {x}) \in Int
  BY <1>4, SumInt
<1> HIDE DEF F, G
<1> QED BY <1>2, <1>4, <1>5, <1>6, <1>7

LEMMA SumSame ==
  ASSUME NEW f, NEW g, NEW S, IsFiniteSet(S),
         \A x \in S : f[x] \in Int /\ f[x] = g[x]
  PROVE  SumFunctionOnSet(f, S) = SumFunctionOnSet(g, S)
<1>1. SumFunctionOnSet(f, S) <= SumFunctionOnSet(g, S)
  BY SumGrowsWithSummands
<1>2. SumFunctionOnSet(g, S) <= SumFunctionOnSet(f, S)
  BY SumGrowsWithSummands
<1>3. SumFunctionOnSet(f, S) \in Int /\ SumFunctionOnSet(g, S) \in Int
  BY SumInt
<1> QED BY <1>1, <1>2, <1>3

LEMMA SumOfZeros ==
  ASSUME NEW f, NEW S, IsFiniteSet(S), \A x \in S : f[x] = 0
  PROVE  SumFunctionOnSet(f, S) = 0
<1> DEFINE Bad == {T \in SUBSET S : SumFunctionOnSet(f, T) # 0}
<1>1. SUFFICES ASSUME Bad # {} PROVE FALSE
  BY <1>1
<1>2. PICK T \in Bad : \A U \in SUBSET T : U \in Bad => U = T
  <2>1. Bad \in SUBSET (SUBSET S)
    OBVIOUS
  <2> HIDE DEF Bad
  <2> QED BY <1>1, <2>1, LeastSubset
<1>3. T # {} /\ IsFiniteSet(T)
  BY <1>2, SumEmpty, FS_Subset
<1>4. SumFunctionOnSet(f, T) = 0 + SumFunctionOnSet(f, T \ {Pick(T)})
  BY <1>2, <1>3, SumUnfolds, PickIn
<1>5. SumFunctionOnSet(f, T \ {Pick(T)}) = 0
  BY <1>2, <1>3, PickIn
<1> QED BY <1>2, <1>4, <1>5

LEMMA SumNat ==
  ASSUME NEW f, NEW S, IsFiniteSet(S), \A x \in S : f[x] \in Nat
  PROVE  SumFunctionOnSet(f, S) \in Nat
<1> DEFINE zero == [x \in S |-> 0]
<1>1. SumFunctionOnSet(zero, S) = 0
  BY SumOfZeros
<1>2. SumFunctionOnSet(zero, S) <= SumFunctionOnSet(f, S)
  BY SumGrowsWithSummands
<1>3. SumFunctionOnSet(f, S) \in Int
  BY SumInt
<1> QED BY <1>1, <1>2, <1>3

\* A sum of naturals over a part is at most the sum over the whole.
LEMMA SumGrowsWithSet ==
  ASSUME NEW f, NEW S, IsFiniteSet(S), \A x \in S : f[x] \in Nat,
         NEW R \in SUBSET S
  PROVE  SumFunctionOnSet(f, R) <= SumFunctionOnSet(f, S)
<1> DEFINE Sum(T) == SumFunctionOnSet(f, T)
           Bad == {T \in SUBSET S : R \subseteq T /\ ~(Sum(R) <= Sum(T))}
<1>1. SUFFICES ASSUME Bad # {} PROVE FALSE
  BY <1>1
<1>2. PICK T \in Bad : \A U \in SUBSET T : U \in Bad => U = T
  <2>1. Bad \in SUBSET (SUBSET S)
    OBVIOUS
  <2> HIDE DEF Bad
  <2> QED BY <1>1, <2>1, LeastSubset
<1>3. \A U \in SUBSET S : Sum(U) \in Nat
  BY FS_Subset, SumNat
<1>4. PICK x \in T : x \notin R
  <2>1. Sum(R) <= Sum(R)
    BY <1>3
  <2>2. R # T
    BY <1>2, <2>1
  <2>3. R \subseteq T
    BY <1>2
  <2> QED BY <2>2, <2>3
<1>5. Sum(T) = f[x] + Sum(T \ {x})
  BY <1>2, <1>4, FS_Subset, SumTakesOut
<1>6. Sum(R) <= Sum(T \ {x})
  BY <1>2, <1>4
<1>7. f[x] \in Nat /\ Sum(T \ {x}) \in Nat /\ Sum(R) \in Nat
  BY <1>2, <1>3
<1> HIDE DEF Sum
<1> QED BY <1>2, <1>5, <1>6, <1>7

-----------------------------------------------------------------------------
(* Products and quotients.                                                 *)

LEMMA DivFacts ==
  ASSUME NEW a \in Int, NEW l \in Nat, l > 0
  PROVE  /\ a \div l \in Int /\ l * (a \div l) <= a
         /\ a < l * ((a \div l) + 1)
OBVIOUS

LEMMA TimesGrows ==
  ASSUME NEW l \in Nat, NEW x \in Int, NEW y \in Int, x <= y
  PROVE  l * x <= l * y
<1>1. PICK d \in Nat : y = x + d
  <2>1. y - x \in Nat /\ y = x + (y - x)
    OBVIOUS
  <2> QED BY <2>1
<1>2. l * y = l * x + l * d /\ l * d \in Nat /\ l * x \in Int
  BY <1>1
<1> QED BY <1>2

LEMMA DivGrows ==
  ASSUME NEW a \in Int, NEW b \in Int, a <= b, NEW l \in Nat, l > 0
  PROVE  a \div l <= b \div l
<1> DEFINE p == a \div l
           q == b \div l
<1>1. p \in Int /\ q \in Int /\ l * p <= a /\ b < l * (q + 1)
  BY DivFacts
<1> HIDE DEF p, q
<1>2. l * p \in Int /\ l * (q + 1) \in Int
  BY <1>1
<1>3. ~(q + 1 <= p)
  <2> SUFFICES ASSUME q + 1 <= p PROVE FALSE
    OBVIOUS
  <2>1. l * (q + 1) <= l * p
    BY <1>1, TimesGrows
  <2> QED BY <1>1, <1>2, <2>1
<1>4. p <= q
  BY <1>1, <1>3
<1> QED BY <1>4 DEF p, q

\* A part of a value is at most the value.
LEMMA PartOf ==
  ASSUME NEW v \in Nat, NEW l \in Nat, l > 0, NEW r \in 0 .. l
  PROVE  (v * r) \div l \in 0 .. v
<1>1. 0 <= v * r /\ v * r <= v * l /\ v * r \in Int /\ v * l \in Int
  <2>1. r \in Int /\ 0 <= r /\ r <= l /\ l \in Int
    OBVIOUS
  <2>2. v * 0 <= v * r /\ v * r <= v * l
    BY <2>1, TimesGrows
  <2> QED BY <2>1, <2>2
<1>2. 0 \div l <= (v * r) \div l /\ (v * r) \div l <= (v * l) \div l
  BY <1>1, DivGrows
<1>3. 0 \div l = 0 /\ (v * l) \div l = v
  <2>1. (v * l) \div l \in Int /\ l * ((v * l) \div l) <= v * l
        /\ v * l < l * (((v * l) \div l) + 1)
    BY <1>1, DivFacts
  <2> DEFINE q == (v * l) \div l
  <2> HIDE DEF q
  <2>2. q \in Int /\ l * q <= l * v /\ l * v < l * (q + 1) /\ l * v \in Int
    BY <2>1 DEF q
  <2>3. ~(q + 1 <= v)
    <3> SUFFICES ASSUME q + 1 <= v PROVE FALSE
      OBVIOUS
    <3>1. l * (q + 1) <= l * v /\ l * (q + 1) \in Int
      BY <2>2, TimesGrows
    <3> QED BY <2>2, <3>1
  <2>4. ~(v + 1 <= q)
    <3> SUFFICES ASSUME v + 1 <= q PROVE FALSE
      OBVIOUS
    <3>1. l * (v + 1) <= l * q /\ l * (v + 1) = l * v + l /\ l * q \in Int
      BY <2>2, TimesGrows
    <3> QED BY <2>2, <3>1
  <2>5. q = v
    BY <2>2, <2>3, <2>4
  <2>6. 0 \div l = 0
    OBVIOUS
  <2> QED BY <2>5, <2>6 DEF q
<1>4. (v * r) \div l \in Int
  BY <1>1
<1> QED BY <1>2, <1>3, <1>4

-----------------------------------------------------------------------------
(* The inequality of Cauchy and Schwarz.                                   *)

LEMMA RootGrows ==
  ASSUME NEW x \in Nat, NEW y \in Nat, x * x <= y * y
  PROVE  x <= y
<1> SUFFICES ASSUME y + 1 <= x PROVE FALSE
  OBVIOUS
<1>1. (y + 1) * (y + 1) <= x * x
  <2>1. PICK d \in Nat : x = y + 1 + d
    <3>1. x - (y + 1) \in Nat /\ x = y + 1 + (x - (y + 1))
      OBVIOUS
    <3> QED BY <3>1
  <2>2. x * x = (y + 1) * (y + 1) + 2 * ((y + 1) * d) + d * d
    BY <2>1
  <2>3. (y + 1) * d \in Nat /\ d * d \in Nat
    BY <2>1
  <2> QED BY <2>2, <2>3
<1>2. (y + 1) * (y + 1) = y * y + 2 * y + 1
  OBVIOUS
<1>3. y * y \in Nat /\ x * x \in Nat
  OBVIOUS
<1> QED BY <1>1, <1>2, <1>3

LEMMA ProductGrows ==
  ASSUME NEW a \in Nat, NEW b \in Nat, NEW c \in Nat, NEW d \in Nat,
         a <= b, c <= d
  PROVE  a * c <= b * d
<1>1. PICK e \in Nat : b = a + e
  <2>1. b - a \in Nat /\ b = a + (b - a)
    OBVIOUS
  <2> QED BY <2>1
<1>2. PICK g \in Nat : d = c + g
  <2>1. d - c \in Nat /\ d = c + (d - c)
    OBVIOUS
  <2> QED BY <2>1
<1>3. b * d = a * c + a * g + e * c + e * g
  BY <1>1, <1>2
<1>4. a * g \in Nat /\ e * c \in Nat /\ e * g \in Nat /\ a * c \in Nat
  BY <1>1, <1>2
<1> QED BY <1>3, <1>4

LEMMA MeanInequality ==
  ASSUME NEW u \in Nat, NEW v \in Nat
  PROVE  4 * (u * v) <= (u + v) * (u + v)
<1>1. (u - v) * (u - v) >= 0
  <2>1. CASE u >= v
    BY <2>1
  <2>2. CASE u < v
    <3>1. v - u \in Nat /\ (u - v) * (u - v) = (v - u) * (v - u)
      BY <2>2
    <3> QED BY <3>1
  <2> QED BY <2>1, <2>2
<1>2. (u + v) * (u + v) = 4 * (u * v) + (u - v) * (u - v)
  OBVIOUS
<1>3. u * v \in Nat /\ (u - v) * (u - v) \in Int
  OBVIOUS
<1> QED BY <1>1, <1>2, <1>3

\* One summand more.
LEMMA CauchySchwarzStep ==
  ASSUME NEW p \in Nat, NEW a \in Nat, NEW b \in Nat, p * p <= a * b,
         NEW P \in Nat, NEW A \in Nat, NEW B \in Nat, P * P <= A * B
  PROVE  (p + P) * (p + P) <= (a + A) * (b + B)
<1> DEFINE u == a * B
           v == b * A
<1>1. u \in Nat /\ v \in Nat
  OBVIOUS
<1>2. (2 * (p * P)) * (2 * (p * P)) <= (u + v) * (u + v)
  <2>1. (p * p) * (P * P) <= (a * b) * (A * B)
    <3>1. p * p \in Nat /\ P * P \in Nat /\ a * b \in Nat /\ A * B \in Nat
      OBVIOUS
    <3> QED BY <3>1, ProductGrows
  <2>2. (a * b) * (A * B) = u * v
    OBVIOUS
  <2>3. (2 * (p * P)) * (2 * (p * P)) = 4 * ((p * p) * (P * P))
    OBVIOUS
  <2>4. 4 * (u * v) <= (u + v) * (u + v)
    BY <1>1, MeanInequality
  <2>5. (p * p) * (P * P) \in Nat /\ (u + v) * (u + v) \in Nat /\ u * v \in Nat
    BY <1>1
  <2> HIDE DEF u, v
  <2> QED BY <2>1, <2>2, <2>3, <2>4, <2>5
<1>3. 2 * (p * P) <= u + v
  <2>1. 2 * (p * P) \in Nat /\ u + v \in Nat
    BY <1>1
  <2> HIDE DEF u, v
  <2> QED BY <1>2, <2>1, RootGrows
<1>4. (p + P) * (p + P) = p * p + 2 * (p * P) + P * P
  OBVIOUS
<1>5. (a + A) * (b + B) = a * b + (u + v) + A * B
  OBVIOUS
<1>6. /\ p * p \in Nat /\ p * P \in Nat /\ P * P \in Nat
      /\ a * b \in Nat /\ A * B \in Nat
  OBVIOUS
<1> HIDE DEF u, v
<1> QED BY <1>1, <1>3, <1>4, <1>5, <1>6

\* The inequality of Cauchy and Schwarz for sums over a finite set: no cosine
\* of text-similarity.utils.ts exceeds 1.
LEMMA CauchySchwarz ==
  ASSUME NEW S, IsFiniteSet(S), NEW p, NEW a, NEW b,
         \A x \in S : /\ p[x] \in Nat /\ a[x] \in Nat /\ b[x] \in Nat
                      /\ p[x] * p[x] <= a[x] * b[x]
  PROVE  SumFunctionOnSet(p, S) * SumFunctionOnSet(p, S)
           <= SumFunctionOnSet(a, S) * SumFunctionOnSet(b, S)
<1> DEFINE Sum(f, T) == SumFunctionOnSet(f, T)
           Holds(T) == Sum(p, T) * Sum(p, T) <= Sum(a, T) * Sum(b, T)
           Bad == {T \in SUBSET S : ~Holds(T)}
<1>1. SUFFICES ASSUME Bad # {} PROVE FALSE
  BY <1>1
<1>2. PICK T \in Bad : \A U \in SUBSET T : U \in Bad => U = T
  <2>1. Bad \in SUBSET (SUBSET S)
    OBVIOUS
  <2> HIDE DEF Bad
  <2> QED BY <1>1, <2>1, LeastSubset
<1>3. PICK x \in T : TRUE
  <2>1. Holds({})
    BY SumEmpty
  <2>2. T # {}
    BY <1>2, <2>1
  <2> QED BY <2>2
<1>4. IsFiniteSet(T) /\ T \in SUBSET S /\ IsFiniteSet(T \ {x})
  BY <1>2, FS_Subset, FS_RemoveElement
<1>5. /\ Sum(p, T) = p[x] + Sum(p, T \ {x})
      /\ Sum(a, T) = a[x] + Sum(a, T \ {x})
      /\ Sum(b, T) = b[x] + Sum(b, T \ {x})
  BY <1>4, SumTakesOut
<1>6. Holds(T \ {x})
  BY <1>2
<1>7. /\ Sum(p, T \ {x}) \in Nat /\ Sum(a, T \ {x}) \in Nat
      /\ Sum(b, T \ {x}) \in Nat
  BY <1>4, SumNat
<1>8. /\ p[x] \in Nat /\ a[x] \in Nat /\ b[x] \in Nat
      /\ p[x] * p[x] <= a[x] * b[x]
  BY <1>4
<1> HIDE DEF Sum
<1>9. (p[x] + Sum(p, T \ {x})) * (p[x] + Sum(p, T \ {x}))
        <= (a[x] + Sum(a, T \ {x})) * (b[x] + Sum(b, T \ {x}))
  BY <1>6, <1>7, <1>8, CauchySchwarzStep
<1> QED BY <1>2, <1>5, <1>9

=============================================================================
