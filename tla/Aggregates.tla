----------------------------- MODULE Aggregates -----------------------------
(***************************************************************************)
(* Facts about the smallest and the largest member of a set of naturals,   *)
(* and about SumFunctionOnSet(f, S), the sum of f[x] over the x of a       *)
(* finite set S, for integer functions f.  Each fact about sums is proved  *)
(* by the smallest subset of S for which it fails.                         *)
(***************************************************************************)
EXTENDS Integers, FiniteSets, FiniteSetsExt, FiniteSetTheorems, WellFoundedInduction, TLAPS

\* A set of naturals that is not empty has a smallest member.
LEMMA MinIsMember ==
    ASSUME NEW S \in SUBSET Nat, S # {}
    PROVE  Min(S) \in S /\ \A y \in S : Min(S) =< y
<1>1. PICK m \in S : \A y \in S : ~ (<<y, m>> \in OpToRel(<, Nat))
  <2> HIDE DEF OpToRel
  <2> QED BY NatLessThanWellFounded, WFMin
<1>2. ASSUME NEW y \in S PROVE m =< y
  <2>1. ~ (y < m)
    BY <1>1, Zenon DEF OpToRel
  <2> QED BY <2>1
<1> QED BY <1>2 DEF Min

\* So has one with an upper bound a largest.
LEMMA MaxIsMember ==
    ASSUME NEW bound \in Nat, NEW S \in SUBSET (0..bound), S # {}
    PROVE  Max(S) \in S
<1> DEFINE T == {bound - x : x \in S}
<1>1. T \in SUBSET Nat /\ T # {}
  <2>1. \A x \in S : bound - x \in Nat
    OBVIOUS
  <2> QED BY <2>1
<1>2. \A y : y \in T <=> \E x \in S : y = bound - x
  OBVIOUS
<1> HIDE DEF T
<1>3. Min(T) \in T /\ \A y \in T : Min(T) =< y
  BY <1>1, MinIsMember
<1>4. PICK m \in S : Min(T) = bound - m
  BY <1>2, <1>3
<1>5. ASSUME NEW x \in S PROVE m >= x
  <2>1. bound - x \in T
    BY <1>2
  <2>2. bound - m =< bound - x
    BY <1>3, <1>4, <2>1
  <2> QED BY <2>2
<1> QED BY <1>5 DEF Max

\* The element a fold takes next, and one step of it.
Pick(s) == CHOOSE x \in s : TRUE
Unfolded(f, g, s) == IF s = {} THEN 0 ELSE f[Pick(s)] + g[s \ {Pick(s)}]

\* g sums f over the subsets of U.
Sums(f, g, U) == g = [s \in SUBSET U |-> Unfolded(f, g, s)]
SumsOf(f, U) == CHOOSE g : Sums(f, g, U)

\* The sum is the recursive function that picks one element after the other.
LEMMA SumIsPicked ==
    ASSUME NEW f, NEW S
    PROVE  SumFunctionOnSet(f, S) = SumsOf(f, S)[S]
BY DEF SumFunctionOnSet, FoldFunctionOnSet, MapThenFoldSet, SumsOf, Sums, Unfolded, Pick

\* The element taken next is one of the set.
LEMMA PickIn == ASSUME NEW s, s # {} PROVE Pick(s) \in s
BY DEF Pick

\* A set of finite sets that is not empty has a member without a smaller one.
LEMMA SmallestSubset ==
    ASSUME NEW T, IsFiniteSet(T), NEW B \in SUBSET (SUBSET T), B # {}
    PROVE  \E s \in B : \A t \in SUBSET s : t # s => t \notin B
<1>1. IsWellFoundedOn(StrictSubsetOrdering(T), SUBSET T)
  BY FS_StrictSubsetOrderingWellFounded, FS_FiniteSubsetsOfFinite
<1>2. PICK s \in B : \A t \in B : <<t, s>> \notin StrictSubsetOrdering(T)
  <2> HIDE DEF StrictSubsetOrdering
  <2> QED BY <1>1, WFMin
<1>3. ASSUME NEW t \in SUBSET s, t # s, t \in B PROVE FALSE
  BY <1>2, <1>3 DEF StrictSubsetOrdering
<1> QED BY <1>3

\* Two such functions agree where both are defined.
LEMMA SumsAgree ==
    ASSUME NEW T, IsFiniteSet(T), NEW f, NEW U \in SUBSET T, NEW V \in SUBSET T,
           NEW g, NEW h, Sums(f, g, U), Sums(f, h, V),
           NEW s \in SUBSET (U \cap V)
    PROVE  g[s] = h[s]
<1> DEFINE B == {t \in SUBSET (U \cap V) : g[t] # h[t]}
<1> SUFFICES ASSUME B # {} PROVE FALSE
  OBVIOUS
<1>1. PICK t \in B : \A u \in SUBSET t : u # t => u \notin B
  <2>1. B \in SUBSET (SUBSET T)
    OBVIOUS
  <2> HIDE DEF B
  <2> QED BY <2>1, SmallestSubset
<1>2. g[t] = Unfolded(f, g, t) /\ h[t] = Unfolded(f, h, t)
  BY DEF Sums
<1>3. t # {}
  BY <1>2 DEF Unfolded
<1>4. Pick(t) \in t
  BY <1>3, PickIn
<1>5. g[t \ {Pick(t)}] = h[t \ {Pick(t)}]
  BY <1>1, <1>4
<1> QED BY <1>2, <1>5 DEF Unfolded

\* There is one for every finite set.
LEMMA SumsExist ==
    ASSUME NEW T, IsFiniteSet(T), NEW f
    PROVE  \A U \in SUBSET T : Sums(f, SumsOf(f, U), U)
<1> DEFINE B == {U \in SUBSET T : ~ Sums(f, SumsOf(f, U), U)}
<1> SUFFICES ASSUME B # {} PROVE FALSE
  OBVIOUS
<1>1. PICK U \in B : \A u \in SUBSET U : u # U => u \notin B
  <2>1. B \in SUBSET (SUBSET T)
    OBVIOUS
  <2> HIDE DEF B
  <2> QED BY <2>1, SmallestSubset
<1>2. \A u \in SUBSET U : u # U => Sums(f, SumsOf(f, u), u)
  BY <1>1
<1> DEFINE below == [u \in SUBSET U |-> SumsOf(f, u)[u]]
           g == [u \in SUBSET U |-> IF u = U THEN Unfolded(f, below, U) ELSE below[u]]
<1>3. ASSUME NEW u \in SUBSET U PROVE g[u] = Unfolded(f, g, u)
  <2>1. CASE u = {}
    <3>1. CASE u = U
      BY <2>1, <3>1 DEF Unfolded
    <3>2. CASE u # U
      <4>1. SumsOf(f, u)[u] = Unfolded(f, SumsOf(f, u), u)
        BY <1>2, <3>2 DEF Sums
      <4> QED BY <4>1, <2>1, <3>2 DEF Unfolded
    <3> QED BY <3>1, <3>2
  <2>2. CASE u # {}
    <3> DEFINE v == u \ {Pick(u)}
    <3>1. Pick(u) \in u /\ v \in SUBSET U /\ v # U
      BY <2>2, PickIn
    <3>2. g[v] = below[v]
      BY <3>1
    <3>3. CASE u = U
      BY <3>2, <3>3, <2>2 DEF Unfolded
    <3>4. CASE u # U
      <4>1. SumsOf(f, u)[u] = Unfolded(f, SumsOf(f, u), u)
        BY <1>2, <3>4 DEF Sums
      <4>2. SumsOf(f, u)[v] = SumsOf(f, v)[v]
        BY <1>2, <3>1, <3>4, SumsAgree
      <4> QED BY <4>1, <4>2, <3>1, <3>2, <3>4, <2>2 DEF Unfolded
    <3> QED BY <3>3, <3>4
  <2> QED BY <2>1, <2>2
<1>4. Sums(f, g, U)
  BY <1>3 DEF Sums
<1>5. Sums(f, SumsOf(f, U), U)
  <2> HIDE DEF g
  <2> QED BY <1>4 DEF SumsOf
<1> QED BY <1>5

\* An empty sum is zero.
LEMMA SumOfNothing == ASSUME NEW f PROVE SumFunctionOnSet(f, {}) = 0
<1>1. Sums(f, SumsOf(f, {}), {})
  BY SumsExist, FS_EmptySet
<1>2. SumsOf(f, {})[{}] = Unfolded(f, SumsOf(f, {}), {})
  BY <1>1 DEF Sums
<1> QED BY <1>2, SumIsPicked DEF Unfolded

\* The sum is what its picked element and the rest make.
LEMMA SumUnfolds ==
    ASSUME NEW S, IsFiniteSet(S), S # {}, NEW f
    PROVE  SumFunctionOnSet(f, S) = f[Pick(S)] + SumFunctionOnSet(f, S \ {Pick(S)})
<1>1. Sums(f, SumsOf(f, S), S) /\ Sums(f, SumsOf(f, S \ {Pick(S)}), S \ {Pick(S)})
  BY SumsExist
<1>2. SumsOf(f, S)[S] = Unfolded(f, SumsOf(f, S), S)
  BY <1>1 DEF Sums
<1>3. SumsOf(f, S)[S \ {Pick(S)}] = SumsOf(f, S \ {Pick(S)})[S \ {Pick(S)}]
  BY <1>1, SumsAgree
<1> QED BY <1>2, <1>3, SumIsPicked DEF Unfolded

\* A sum of integers is one.
LEMMA SumIsInteger ==
    ASSUME NEW S, IsFiniteSet(S), NEW f, \A x \in S : f[x] \in Int
    PROVE  SumFunctionOnSet(f, S) \in Int
<1> DEFINE B == {t \in SUBSET S : SumFunctionOnSet(f, t) \notin Int}
<1> SUFFICES ASSUME B # {} PROVE FALSE
  OBVIOUS
<1>1. PICK t \in B : \A u \in SUBSET t : u # t => u \notin B
  <2>1. B \in SUBSET (SUBSET S)
    OBVIOUS
  <2> HIDE DEF B
  <2> QED BY <2>1, SmallestSubset
<1>2. t # {}
  BY SumOfNothing
<1>3. Pick(t) \in t
  BY <1>2, PickIn
<1>4. SumFunctionOnSet(f, t \ {Pick(t)}) \in Int /\ f[Pick(t)] \in Int
  BY <1>1, <1>3
<1>5. SumFunctionOnSet(f, t) = f[Pick(t)] + SumFunctionOnSet(f, t \ {Pick(t)})
  BY <1>2, FS_Subset, SumUnfolds
<1> QED BY <1>4, <1>5

\* Any element may be taken out first.
LEMMA SumSplits ==
    ASSUME NEW S, IsFiniteSet(S), NEW f, \A x \in S : f[x] \in Int, NEW y \in S
    PROVE  SumFunctionOnSet(f, S) = f[y] + SumFunctionOnSet(f, S \ {y})
<1> DEFINE Splits(t) == \A x \in t : SumFunctionOnSet(f, t) = f[x] + SumFunctionOnSet(f, t \ {x})
           B == {t \in SUBSET S : ~ Splits(t)}
<1> SUFFICES ASSUME B # {} PROVE FALSE
  OBVIOUS
<1>1. PICK t \in B : \A u \in SUBSET t : u # t => u \notin B
  <2>1. B \in SUBSET (SUBSET S)
    OBVIOUS
  <2> HIDE DEF B
  <2> QED BY <2>1, SmallestSubset
<1>2. PICK x \in t : SumFunctionOnSet(f, t) # f[x] + SumFunctionOnSet(f, t \ {x})
  OBVIOUS
<1> DEFINE p == Pick(t)
<1>3. p \in t
  BY PickIn
<1>4. IsFiniteSet(t)
  BY FS_Subset
<1>5. SumFunctionOnSet(f, t) = f[p] + SumFunctionOnSet(f, t \ {p})
  BY <1>4, SumUnfolds
<1>6. x # p
  BY <1>2, <1>5
<1>7. Splits(t \ {p}) /\ Splits(t \ {x})
  BY <1>1, <1>3
<1>8. SumFunctionOnSet(f, t \ {p}) = f[x] + SumFunctionOnSet(f, (t \ {p}) \ {x})
  BY <1>6, <1>7
<1>9. SumFunctionOnSet(f, t \ {x}) = f[p] + SumFunctionOnSet(f, (t \ {x}) \ {p})
  BY <1>6, <1>7, <1>3
<1>10. (t \ {p}) \ {x} = (t \ {x}) \ {p}
  OBVIOUS
<1>11. SumFunctionOnSet(f, (t \ {x}) \ {p}) \in Int
  BY <1>4, FS_Subset, SumIsInteger
<1>12. f[p] \in Int /\ f[x] \in Int
  BY <1>3
<1> DEFINE rest == SumFunctionOnSet(f, (t \ {x}) \ {p})
<1>13. SumFunctionOnSet(f, t) = f[p] + (f[x] + rest)
  BY <1>5, <1>8, <1>10
<1>14. f[x] + SumFunctionOnSet(f, t \ {x}) = f[x] + (f[p] + rest)
  BY <1>9
<1> HIDE DEF p, rest
<1> QED BY <1>2, <1>11, <1>12, <1>13, <1>14 DEF rest

\* A sum over S depends on nothing but the values on S.
LEMMA SumOfSame ==
    ASSUME NEW S, IsFiniteSet(S), NEW f, NEW g, \A x \in S : f[x] = g[x]
    PROVE  SumFunctionOnSet(f, S) = SumFunctionOnSet(g, S)
<1> DEFINE B == {t \in SUBSET S : SumFunctionOnSet(f, t) # SumFunctionOnSet(g, t)}
<1> SUFFICES ASSUME B # {} PROVE FALSE
  OBVIOUS
<1>1. PICK t \in B : \A u \in SUBSET t : u # t => u \notin B
  <2>1. B \in SUBSET (SUBSET S)
    OBVIOUS
  <2> HIDE DEF B
  <2> QED BY <2>1, SmallestSubset
<1>2. t # {}
  BY SumOfNothing
<1>3. Pick(t) \in t
  BY <1>2, PickIn
<1>4. SumFunctionOnSet(f, t \ {Pick(t)}) = SumFunctionOnSet(g, t \ {Pick(t)})
  BY <1>1, <1>3
<1>5. IsFiniteSet(t)
  BY FS_Subset
<1> QED BY <1>2, <1>3, <1>4, <1>5, SumUnfolds

\* Changing one summand changes the sum by the difference.
LEMMA SumOfChanged ==
    ASSUME NEW S, IsFiniteSet(S), NEW y \in S, NEW f, NEW g,
           \A x \in S : f[x] \in Int, g[y] \in Int, \A x \in S \ {y} : g[x] = f[x]
    PROVE  SumFunctionOnSet(g, S) = SumFunctionOnSet(f, S) - f[y] + g[y]
<1>1. IsFiniteSet(S \ {y})
  BY FS_Subset
<1>2. SumFunctionOnSet(g, S \ {y}) = SumFunctionOnSet(f, S \ {y})
  BY <1>1, SumOfSame
<1>3. SumFunctionOnSet(f, S \ {y}) \in Int
  BY <1>1, SumIsInteger
<1>4. SumFunctionOnSet(f, S) = f[y] + SumFunctionOnSet(f, S \ {y})
  BY SumSplits
<1>5. SumFunctionOnSet(g, S) = g[y] + SumFunctionOnSet(g, S \ {y})
  BY SumSplits
<1> QED BY <1>2, <1>3, <1>4, <1>5

\* One more element adds its value.
LEMMA SumOfOneMore ==
    ASSUME NEW S, IsFiniteSet(S), NEW y, y \notin S, NEW f, NEW g,
           \A x \in S : f[x] \in Int, g[y] \in Int, \A x \in S : g[x] = f[x]
    PROVE  SumFunctionOnSet(g, S \cup {y}) = SumFunctionOnSet(f, S) + g[y]
<1> DEFINE T == S \cup {y}
<1>1. IsFiniteSet(T) /\ y \in T /\ T \ {y} = S
  BY FS_AddElement
<1>2. SumFunctionOnSet(g, S) = SumFunctionOnSet(f, S) /\ SumFunctionOnSet(f, S) \in Int
  BY SumOfSame, SumIsInteger
<1>3. \A x \in T : g[x] \in Int
  OBVIOUS
<1> HIDE DEF T
<1>4. SumFunctionOnSet(g, T) = g[y] + SumFunctionOnSet(g, S)
  BY <1>1, <1>3, SumSplits
<1> QED BY <1>2, <1>4 DEF T

\* The sum of two functions' sums.
LEMMA SumsAdd ==
    ASSUME NEW S, IsFiniteSet(S), NEW f, NEW g, NEW h,
           \A x \in S : f[x] \in Int /\ g[x] \in Int /\ h[x] = f[x] + g[x]
    PROVE  SumFunctionOnSet(h, S) = SumFunctionOnSet(f, S) + SumFunctionOnSet(g, S)
<1> DEFINE Adds(t) == SumFunctionOnSet(h, t) = SumFunctionOnSet(f, t) + SumFunctionOnSet(g, t)
           B == {t \in SUBSET S : ~ Adds(t)}
<1> SUFFICES ASSUME B # {} PROVE FALSE
  OBVIOUS
<1>1. PICK t \in B : \A u \in SUBSET t : u # t => u \notin B
  <2>1. B \in SUBSET (SUBSET S)
    OBVIOUS
  <2> HIDE DEF B
  <2> QED BY <2>1, SmallestSubset
<1>2. t # {}
  <2>1. Adds({})
    BY SumOfNothing
  <2> QED BY <2>1
<1>3. Pick(t) \in t
  BY <1>2, PickIn
<1> DEFINE r == t \ {Pick(t)}
<1>4. Adds(r)
  BY <1>1, <1>3
<1>5. IsFiniteSet(t) /\ IsFiniteSet(r)
  BY FS_Subset
<1>6. SumFunctionOnSet(f, r) \in Int /\ SumFunctionOnSet(g, r) \in Int
  BY <1>5, SumIsInteger
<1>7. /\ SumFunctionOnSet(f, t) = f[Pick(t)] + SumFunctionOnSet(f, r)
      /\ SumFunctionOnSet(g, t) = g[Pick(t)] + SumFunctionOnSet(g, r)
      /\ SumFunctionOnSet(h, t) = h[Pick(t)] + SumFunctionOnSet(h, r)
  BY <1>2, <1>5, SumUnfolds
<1>8. f[Pick(t)] \in Int /\ g[Pick(t)] \in Int /\ h[Pick(t)] = f[Pick(t)] + g[Pick(t)]
  BY <1>3
<1>9. ~ Adds(t)
  OBVIOUS
<1> HIDE DEF r
<1> QED BY <1>4, <1>6, <1>7, <1>8, <1>9

\* A sum of natural numbers is one.
LEMMA SumIsNatural ==
    ASSUME NEW S, IsFiniteSet(S), NEW f, \A x \in S : f[x] \in Nat
    PROVE  SumFunctionOnSet(f, S) \in Nat
<1> DEFINE B == {t \in SUBSET S : SumFunctionOnSet(f, t) \notin Nat}
<1> SUFFICES ASSUME B # {} PROVE FALSE
  OBVIOUS
<1>1. PICK t \in B : \A u \in SUBSET t : u # t => u \notin B
  <2>1. B \in SUBSET (SUBSET S)
    OBVIOUS
  <2> HIDE DEF B
  <2> QED BY <2>1, SmallestSubset
<1>2. t # {}
  BY SumOfNothing
<1>3. Pick(t) \in t
  BY <1>2, PickIn
<1>4. SumFunctionOnSet(f, t \ {Pick(t)}) \in Nat /\ f[Pick(t)] \in Nat
  BY <1>1, <1>3
<1>5. SumFunctionOnSet(f, t) = f[Pick(t)] + SumFunctionOnSet(f, t \ {Pick(t)})
  BY <1>2, FS_Subset, SumUnfolds
<1> QED BY <1>4, <1>5

\* Such a sum is no smaller than any summand.
LEMMA SumCoversSummand ==
    ASSUME NEW S, IsFiniteSet(S), NEW f, \A x \in S : f[x] \in Nat, NEW y \in S
    PROVE  f[y] <= SumFunctionOnSet(f, S)
<1>1. SumFunctionOnSet(f, S) = f[y] + SumFunctionOnSet(f, S \ {y})
  BY SumSplits
<1>2. SumFunctionOnSet(f, S \ {y}) \in Nat
  BY FS_Subset, SumIsNatural
<1> QED BY <1>1, <1>2

\* Smaller summands make a smaller sum.
LEMMA SumIsMonotone ==
    ASSUME NEW S, IsFiniteSet(S), NEW f, NEW g,
           \A x \in S : f[x] \in Int /\ g[x] \in Int /\ f[x] <= g[x]
    PROVE  SumFunctionOnSet(f, S) <= SumFunctionOnSet(g, S)
<1> DEFINE d == [x \in S |-> g[x] - f[x]]
<1>1. SumFunctionOnSet(g, S) = SumFunctionOnSet(f, S) + SumFunctionOnSet(d, S)
  <2>1. \A x \in S : f[x] \in Int /\ d[x] \in Int /\ g[x] = f[x] + d[x]
    OBVIOUS
  <2> HIDE DEF d
  <2> QED BY <2>1, SumsAdd
<1>2. SumFunctionOnSet(d, S) \in Nat
  <2>1. \A x \in S : d[x] \in Nat
    OBVIOUS
  <2> HIDE DEF d
  <2> QED BY <2>1, SumIsNatural
<1>3. SumFunctionOnSet(f, S) \in Int
  BY SumIsInteger
<1> HIDE DEF d
<1> QED BY <1>1, <1>2, <1>3

\* The sum over two sets without a common element.
LEMMA SumOfUnion ==
    ASSUME NEW S, IsFiniteSet(S), NEW T, IsFiniteSet(T), S \cap T = {},
           NEW f, \A x \in S \cup T : f[x] \in Int
    PROVE  SumFunctionOnSet(f, S \cup T) = SumFunctionOnSet(f, S) + SumFunctionOnSet(f, T)
<1> DEFINE Joins(t) == SumFunctionOnSet(f, S \cup t) = SumFunctionOnSet(f, S) + SumFunctionOnSet(f, t)
           B == {t \in SUBSET T : ~ Joins(t)}
<1> SUFFICES ASSUME B # {} PROVE FALSE
  OBVIOUS
<1>1. PICK t \in B : \A u \in SUBSET t : u # t => u \notin B
  <2>1. B \in SUBSET (SUBSET T)
    OBVIOUS
  <2> HIDE DEF B
  <2> QED BY <2>1, SmallestSubset
<1>2. SumFunctionOnSet(f, S) \in Int
  BY SumIsInteger
<1>3. t # {}
  <2>1. S \cup {} = S
    OBVIOUS
  <2>2. Joins({})
    BY <1>2, <2>1, SumOfNothing
  <2> QED BY <2>2
<1> DEFINE x == Pick(t)
           r == t \ {x}
<1>4. x \in t /\ r \in SUBSET T /\ r # t
  BY <1>3, PickIn
<1>5. Joins(r)
  BY <1>1, <1>4
<1>6. IsFiniteSet(t) /\ IsFiniteSet(r) /\ IsFiniteSet(S \cup t)
  BY FS_Subset, FS_Union
<1>7. SumFunctionOnSet(f, t) = f[x] + SumFunctionOnSet(f, r)
  BY <1>3, <1>6, SumUnfolds
<1>8. SumFunctionOnSet(f, S \cup t) = f[x] + SumFunctionOnSet(f, S \cup r)
  <2> DEFINE U == S \cup t
  <2>1. x \in U /\ U \ {x} = S \cup r /\ \A y \in U : f[y] \in Int
    BY <1>4
  <2> HIDE DEF U, x, r
  <2>2. SumFunctionOnSet(f, U) = f[x] + SumFunctionOnSet(f, U \ {x})
    BY <1>6, <2>1, SumSplits DEF U
  <2> QED BY <2>1, <2>2 DEF U
<1>9. f[x] \in Int /\ SumFunctionOnSet(f, r) \in Int
  BY <1>4, <1>6, SumIsInteger
<1>10. ~ Joins(t)
  OBVIOUS
<1> HIDE DEF x, r
<1> QED BY <1>2, <1>5, <1>7, <1>8, <1>9, <1>10

\* A part of natural summands has a smaller sum.
LEMMA SumOfPart ==
    ASSUME NEW T, IsFiniteSet(T), NEW S \in SUBSET T, NEW f, \A x \in T : f[x] \in Nat
    PROVE  SumFunctionOnSet(f, S) <= SumFunctionOnSet(f, T)
<1>1. IsFiniteSet(S) /\ IsFiniteSet(T \ S) /\ S \cup (T \ S) = T /\ S \cap (T \ S) = {}
  BY FS_Subset
<1>2. SumFunctionOnSet(f, T) = SumFunctionOnSet(f, S) + SumFunctionOnSet(f, T \ S)
  <2>1. \A x \in S \cup (T \ S) : f[x] \in Int
    OBVIOUS
  <2> QED BY <1>1, <2>1, SumOfUnion
<1>3. SumFunctionOnSet(f, S) \in Nat /\ SumFunctionOnSet(f, T \ S) \in Nat
  BY <1>1, SumIsNatural
<1> QED BY <1>2, <1>3

\* Zeros sum up to zero.
LEMMA SumOfZeros ==
    ASSUME NEW S, IsFiniteSet(S), NEW f, \A x \in S : f[x] = 0
    PROVE  SumFunctionOnSet(f, S) = 0
<1> DEFINE d == [x \in S |-> 0]
<1>1. SumFunctionOnSet(f, S) = SumFunctionOnSet(d, S)
  <2>1. \A x \in S : f[x] = d[x]
    OBVIOUS
  <2> HIDE DEF d
  <2> QED BY <2>1, SumOfSame
<1>2. SumFunctionOnSet(d, S) = SumFunctionOnSet(d, S) + SumFunctionOnSet(d, S)
  <2>1. \A x \in S : d[x] \in Int /\ d[x] \in Int /\ d[x] = d[x] + d[x]
    OBVIOUS
  <2> HIDE DEF d
  <2> QED BY <2>1, SumsAdd
<1>3. SumFunctionOnSet(d, S) \in Int
  <2>1. \A x \in S : d[x] \in Int
    OBVIOUS
  <2> HIDE DEF d
  <2> QED BY <2>1, SumIsInteger
<1> HIDE DEF d
<1> QED BY <1>1, <1>2, <1>3

\* What is zero need not be summed.
LEMMA SumOfSupport ==
    ASSUME NEW T, IsFiniteSet(T), NEW S \in SUBSET T, NEW f, \A x \in T : f[x] \in Int,
           \A x \in T \ S : f[x] = 0
    PROVE  SumFunctionOnSet(f, T) = SumFunctionOnSet(f, S)
<1>1. IsFiniteSet(S) /\ IsFiniteSet(T \ S) /\ S \cup (T \ S) = T /\ S \cap (T \ S) = {}
  BY FS_Subset
<1>2. SumFunctionOnSet(f, T) = SumFunctionOnSet(f, S) + SumFunctionOnSet(f, T \ S)
  BY <1>1, SumOfUnion
<1>3. SumFunctionOnSet(f, S) \in Int /\ SumFunctionOnSet(f, T \ S) = 0
  BY <1>1, SumIsInteger, SumOfZeros
<1> QED BY <1>2, <1>3
-----------------------------------------------------------------------------
(* Sums of whole functions *)

\* The sum of an integer function on a finite set is an integer.
LEMMA SumFunctionIsInteger ==
    ASSUME NEW S, IsFiniteSet(S), NEW f \in [S -> Int]
    PROVE  SumFunction(f) \in Int
BY SumIsInteger DEF SumFunction

\* ... and a natural number if its values are.
LEMMA SumFunctionIsNatural ==
    ASSUME NEW S, IsFiniteSet(S), NEW f \in [S -> Nat]
    PROVE  SumFunction(f) \in Nat
BY SumIsNatural DEF SumFunction

\* A change at one point moves the sum by the difference.
LEMMA SumFunctionChanged ==
    ASSUME NEW S, IsFiniteSet(S), NEW f \in [S -> Int], NEW y \in S, NEW g \in [S -> Int],
           \A x \in S \ {y} : g[x] = f[x]
    PROVE  SumFunction(g) = SumFunction(f) - f[y] + g[y]
BY SumOfChanged DEF SumFunction
=============================================================================
