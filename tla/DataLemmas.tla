------------------------------ MODULE DataLemmas ------------------------------
(***************************************************************************)
(* Facts about the data the components are made of, for every value of it: *)
(* sums over finite sets, which budgets are counted with, sequences whose  *)
(* elements are there once, which lines are, and lists of lists, which     *)
(* partitions of rows are, taken in order or in any order.                 *)
(*                                                                         *)
(* The sums are those of the community modules.  An induction over a set   *)
(* is put as a counterexample with the fewest elements, which              *)
(* well-foundedness provides for a set of sets, and one over naturals as   *)
(* the set of those it holds of (CountingUp): no operator has to be given  *)
(* to an induction theorem.                                                *)
(***************************************************************************)
EXTENDS SequencesExt, SequenceTheorems, FiniteSetTheorems, TLAPS

-----------------------------------------------------------------------------
(* Sums.                                                                   *)

\* Of some of the subsets of a finite set one has no other of them inside it.
LEMMA LeastSubset ==
  ASSUME NEW S, IsFiniteSet(S), NEW T \in SUBSET (SUBSET S), T # {}
  PROVE  \E m \in T : \A s \in T : s \subseteq m => s = m
<1>1. IsWellFoundedOn(StrictSubsetOrdering(S), SUBSET S)
  BY FS_StrictSubsetOrderingWellFounded, FS_FiniteSubsetsOfFinite
<1>2. PICK m \in T : \A s \in T : ~ (<<s, m>> \in StrictSubsetOrdering(S))
  BY <1>1, WFMin
<1> QED
  BY <1>2 DEF StrictSubsetOrdering

\* The element a sum begins with.
Pick(s) == CHOOSE x \in s : TRUE

\* g adds f up over every subset of S.
Adds(g, f, S) ==
  g = [s \in SUBSET S |-> IF s = {} THEN 0 ELSE f[Pick(s)] + g[s \ {Pick(s)}]]

\* What is added first is there.
LEMMA PickIn == \A s : s # {} => Pick(s) \in s
  BY DEF Pick

\* Two such functions agree wherever what they add up agrees.
LEMMA AddsUnique ==
  ASSUME NEW S, IsFiniteSet(S), NEW T, NEW f, NEW h, NEW g, NEW k,
         Adds(g, f, S), Adds(k, h, T), \A x \in S \cap T : f[x] = h[x]
  PROVE  \A s \in SUBSET (S \cap T) : g[s] = k[s]
<1> DEFINE Differ == {s \in SUBSET (S \cap T) : g[s] # k[s]}
<1> SUFFICES ASSUME Differ # {} PROVE FALSE
  OBVIOUS
<1>1. PICK m \in Differ : \A s \in Differ : s \subseteq m => s = m
  <2>1. Differ \in SUBSET (SUBSET S)
    OBVIOUS
  <2> HIDE DEF Differ
  <2> QED BY <2>1, LeastSubset
<1>2. m \in SUBSET S /\ m \in SUBSET T /\ g[m] # k[m]
  BY <1>1
<1>3. m # {}
  BY <1>2 DEF Adds
<1>4. Pick(m) \in m /\ m \ {Pick(m)} \in SUBSET (S \cap T) /\ m \ {Pick(m)} # m
  BY <1>2, <1>3, PickIn
<1>5. g[m \ {Pick(m)}] = k[m \ {Pick(m)}]
  BY <1>1, <1>4
<1>6. g[m] = f[Pick(m)] + g[m \ {Pick(m)}] /\ k[m] = h[Pick(m)] + k[m \ {Pick(m)}]
  BY <1>2, <1>3 DEF Adds
<1> QED
  BY <1>2, <1>4, <1>5, <1>6

\* There is such a function for every finite set.
LEMMA AddsExists ==
  ASSUME NEW S, IsFiniteSet(S), NEW f
  PROVE  \E g : Adds(g, f, S)
<1> DEFINE Without == {T \in SUBSET S : ~ \E g : Adds(g, f, T)}
<1> SUFFICES ASSUME Without # {} PROVE FALSE
  OBVIOUS
<1>1. PICK m \in Without : \A s \in Without : s \subseteq m => s = m
  <2>1. Without \in SUBSET (SUBSET S)
    OBVIOUS
  <2> HIDE DEF Without
  <2> QED BY <2>1, LeastSubset
<1> DEFINE G(s) == CHOOSE g : Adds(g, f, s)
           h == [s \in SUBSET m |-> IF s = {} THEN 0
                                    ELSE f[Pick(s)] + G(s \ {Pick(s)})[s \ {Pick(s)}]]
<1>2. \A s \in SUBSET m : s # m => Adds(G(s), f, s)
  BY <1>1
<1>3. \A s \in SUBSET m : s # {} => s \ {Pick(s)} \in SUBSET m /\ s \ {Pick(s)} # m
  BY PickIn
<1>4. ASSUME NEW s \in SUBSET m, s # m PROVE h[s] = G(s)[s]
  <2>1. Adds(G(s), f, s)
    BY <1>2, <1>4
  <2>2. CASE s = {}
    BY <2>1, <2>2 DEF Adds
  <2>3. CASE s # {}
    <3> DEFINE t == s \ {Pick(s)}
    <3>1. Adds(G(t), f, t)
      BY <1>2, <1>3, <2>3
    <3>2. IsFiniteSet(s)
      BY <1>1, FS_Subset
    <3>3. t \in SUBSET (s \cap t)
      OBVIOUS
    <3> HIDE DEF G
    <3>4. G(s)[t] = G(t)[t]
      BY <2>1, <3>1, <3>2, <3>3, AddsUnique
    <3>5. G(s)[s] = f[Pick(s)] + G(s)[t]
      BY <2>1, <2>3 DEF Adds
    <3> QED
      BY <2>3, <3>4, <3>5
  <2> QED
    BY <2>2, <2>3
<1>5. \A s \in SUBSET m : s # {} => h[s \ {Pick(s)}] = G(s \ {Pick(s)})[s \ {Pick(s)}]
  BY <1>3, <1>4
<1>6. Adds(h, f, m)
  <2> HIDE DEF G
  <2> QED BY <1>5 DEF Adds
<1> QED
  BY <1>1, <1>6

\* The sum of the community modules is what such a function gives for the whole set.
LEMMA SumAdds ==
  ASSUME NEW S, IsFiniteSet(S), NEW f
  PROVE  \E g : Adds(g, f, S) /\ SumFunctionOnSet(f, S) = g[S]
<1> DEFINE g == CHOOSE g : Adds(g, f, S)
<1>1. Adds(g, f, S)
  BY AddsExists
<1>2. SumFunctionOnSet(f, S) = g[S]
  BY DEF SumFunctionOnSet, FoldFunctionOnSet, MapThenFoldSet, Adds, Pick
<1> QED
  BY <1>1, <1>2

\* The sum of nothing, and of something: the element picked and the rest.
LEMMA SumUnfolds ==
  ASSUME NEW S, IsFiniteSet(S), NEW f
  PROVE  /\ SumFunctionOnSet(f, {}) = 0
         /\ S # {} => SumFunctionOnSet(f, S) = f[Pick(S)] + SumFunctionOnSet(f, S \ {Pick(S)})
<1>1. SumFunctionOnSet(f, {}) = 0
  BY SumAdds, FS_EmptySet DEF Adds
<1>2. ASSUME S # {}
      PROVE  SumFunctionOnSet(f, S) = f[Pick(S)] + SumFunctionOnSet(f, S \ {Pick(S)})
  <2> DEFINE T == S \ {Pick(S)}
  <2>1. PICK g : Adds(g, f, S) /\ SumFunctionOnSet(f, S) = g[S]
    BY SumAdds
  <2>2. PICK k : Adds(k, f, T) /\ SumFunctionOnSet(f, T) = k[T]
    BY SumAdds, FS_Subset
  <2>3. g[T] = k[T]
    BY <2>1, <2>2, AddsUnique
  <2>4. g[S] = f[Pick(S)] + g[T]
    BY <2>1, <1>2 DEF Adds
  <2> QED
    BY <2>1, <2>2, <2>3, <2>4
<1> QED
  BY <1>1, <1>2

\* A sum depends on the values added only.
LEMMA SumSame ==
  ASSUME NEW S, IsFiniteSet(S), NEW f, NEW h, \A x \in S : f[x] = h[x]
  PROVE  SumFunctionOnSet(f, S) = SumFunctionOnSet(h, S)
<1>1. PICK g : Adds(g, f, S) /\ SumFunctionOnSet(f, S) = g[S]
  BY SumAdds
<1>2. PICK k : Adds(k, h, S) /\ SumFunctionOnSet(h, S) = k[S]
  BY SumAdds
<1>3. g[S] = k[S]
  BY <1>1, <1>2, AddsUnique
<1> QED
  BY <1>1, <1>2, <1>3

\* A sum of naturals is one.
LEMMA SumNat ==
  ASSUME NEW S, IsFiniteSet(S), NEW f, \A x \in S : f[x] \in Nat
  PROVE  SumFunctionOnSet(f, S) \in Nat
<1> DEFINE Odd == {T \in SUBSET S : SumFunctionOnSet(f, T) \notin Nat}
<1> SUFFICES ASSUME Odd # {} PROVE FALSE
  OBVIOUS
<1>1. PICK m \in Odd : \A s \in Odd : s \subseteq m => s = m
  <2>1. Odd \in SUBSET (SUBSET S)
    OBVIOUS
  <2> HIDE DEF Odd
  <2> QED BY <2>1, LeastSubset
<1>2. m # {} /\ IsFiniteSet(m)
  <2>1. SumFunctionOnSet(f, {}) = 0
    BY SumUnfolds
  <2>2. IsFiniteSet(m)
    BY <1>1, FS_Subset
  <2>3. SumFunctionOnSet(f, m) \notin Nat
    BY <1>1
  <2> HIDE DEF Odd
  <2>4. ASSUME m = {} PROVE FALSE
    BY <2>1, <2>3, <2>4
  <2> QED
    BY <2>2, <2>4
<1>3. Pick(m) \in m /\ f[Pick(m)] \in Nat
  BY <1>2, PickIn
<1>4. SumFunctionOnSet(f, m \ {Pick(m)}) \in Nat
  BY <1>1, <1>3
<1>5. SumFunctionOnSet(f, m) = f[Pick(m)] + SumFunctionOnSet(f, m \ {Pick(m)})
  BY <1>2, SumUnfolds
<1> QED
  BY <1>1, <1>3, <1>4, <1>5

\* Any element can be taken out first.
LEMMA SumTakeOut ==
  ASSUME NEW S, IsFiniteSet(S), NEW f, \A x \in S : f[x] \in Nat, NEW x \in S
  PROVE  SumFunctionOnSet(f, S) = f[x] + SumFunctionOnSet(f, S \ {x})
<1> DEFINE Takes(T) == \A y \in T : SumFunctionOnSet(f, T) = f[y] + SumFunctionOnSet(f, T \ {y})
           Odd == {T \in SUBSET S : ~ Takes(T)}
<1> SUFFICES ASSUME Odd # {} PROVE FALSE
  OBVIOUS
<1>1. PICK m \in Odd : \A s \in Odd : s \subseteq m => s = m
  <2>1. Odd \in SUBSET (SUBSET S)
    OBVIOUS
  <2> HIDE DEF Odd
  <2> QED BY <2>1, LeastSubset
<1>2. PICK y \in m : SumFunctionOnSet(f, m) # f[y] + SumFunctionOnSet(f, m \ {y})
  BY <1>1
<1> DEFINE p == Pick(m)
<1>3. p \in m
  BY PickIn
<1> HIDE DEF p
<1>4. SumFunctionOnSet(f, m) = f[p] + SumFunctionOnSet(f, m \ {p})
  BY <1>1, <1>3, FS_Subset, SumUnfolds DEF p
<1>5. p # y
  BY <1>2, <1>4
<1>6. SumFunctionOnSet(f, m \ {p}) = f[y] + SumFunctionOnSet(f, (m \ {p}) \ {y})
  <2>1. Takes(m \ {p})
    BY <1>1, <1>3
  <2> QED
    BY <2>1, <1>2, <1>5
<1>7. SumFunctionOnSet(f, m \ {y}) = f[p] + SumFunctionOnSet(f, (m \ {y}) \ {p})
  <2>1. Takes(m \ {y})
    BY <1>1, <1>2
  <2> QED
    BY <2>1, <1>3, <1>5
<1>8. (m \ {y}) \ {p} = (m \ {p}) \ {y}
  OBVIOUS
<1>9. SumFunctionOnSet(f, (m \ {p}) \ {y}) \in Nat /\ f[p] \in Nat /\ f[y] \in Nat
  <2>1. IsFiniteSet((m \ {p}) \ {y})
    BY <1>1, FS_Subset
  <2> QED
    BY <1>1, <1>2, <1>3, <2>1, SumNat
<1>10. SumFunctionOnSet(f, m \ {y}) = f[p] + SumFunctionOnSet(f, (m \ {p}) \ {y})
  BY <1>7, <1>8
<1> HIDE DEF Odd
<1> QED
  BY <1>2, <1>4, <1>6, <1>9, <1>10

\* What a change at one place does to a sum.
LEMMA SumChange ==
  ASSUME NEW S, IsFiniteSet(S), NEW f, NEW h, NEW x \in S,
         \A y \in S : f[y] \in Nat /\ h[y] \in Nat,
         \A y \in S \ {x} : h[y] = f[y]
  PROVE  SumFunctionOnSet(h, S) = SumFunctionOnSet(f, S) - f[x] + h[x]
<1> DEFINE Others == SumFunctionOnSet(f, S \ {x})
<1>1. IsFiniteSet(S \ {x})
  BY FS_Subset
<1>2. SumFunctionOnSet(h, S \ {x}) = Others
  BY <1>1, SumSame
<1>3. Others \in Nat
  BY <1>1, SumNat
<1>4. SumFunctionOnSet(f, S) = f[x] + Others
  BY SumTakeOut
<1>5. SumFunctionOnSet(h, S) = h[x] + SumFunctionOnSet(h, S \ {x})
  BY SumTakeOut
<1>6. f[x] \in Nat /\ h[x] \in Nat
  OBVIOUS
<1> HIDE DEF Others
<1> QED
  BY <1>2, <1>3, <1>4, <1>5, <1>6

\* More of what is no less adds up to no less.
LEMMA SumGrows ==
  ASSUME NEW S, IsFiniteSet(S), NEW T \in SUBSET S, NEW f, NEW h,
         \A x \in S : h[x] \in Nat,
         \A x \in T : f[x] \in Nat /\ f[x] <= h[x]
  PROVE  SumFunctionOnSet(f, T) <= SumFunctionOnSet(h, S)
<1> DEFINE Less(U) == SumFunctionOnSet(f, U \cap T) <= SumFunctionOnSet(h, U)
           Odd == {U \in SUBSET S : ~ Less(U)}
<1>0. T \cap S = T /\ S \cap T = T
  OBVIOUS
<1> SUFFICES ASSUME Odd # {} PROVE FALSE
  <2>1. Less(S)
    OBVIOUS
  <2> QED
    BY <1>0, <2>1
<1>1. PICK m \in Odd : \A s \in Odd : s \subseteq m => s = m
  <2>1. Odd \in SUBSET (SUBSET S)
    OBVIOUS
  <2> HIDE DEF Odd
  <2> QED BY <2>1, LeastSubset
<1>2. m \in SUBSET S /\ IsFiniteSet(m) /\ ~ Less(m)
  BY <1>1, FS_Subset
<1>3. m # {}
  <2>1. SumFunctionOnSet(f, {}) = 0 /\ SumFunctionOnSet(h, {}) = 0
    BY SumUnfolds
  <2>2. ASSUME m = {} PROVE Less(m)
    <3>1. m \cap T = {}
      BY <2>2
    <3> QED
      BY <2>1, <2>2, <3>1
  <2> QED
    BY <1>2, <2>2
<1>4. PICK x \in m : TRUE
  BY <1>3
<1> DEFINE n == m \ {x}
<1>5. Less(n)
  BY <1>1, <1>2, <1>4
<1>6. SumFunctionOnSet(h, m) = h[x] + SumFunctionOnSet(h, n)
  BY <1>2, <1>4, SumTakeOut
<1>7. IsFiniteSet(n) /\ IsFiniteSet(n \cap T) /\ IsFiniteSet(m \cap T)
  BY <1>2, FS_Subset
<1>8. SumFunctionOnSet(h, n) \in Nat /\ SumFunctionOnSet(f, n \cap T) \in Nat
  BY <1>2, <1>7, SumNat
<1>9. h[x] \in Nat
  BY <1>2, <1>4
<1>10. CASE x \in T
  <2>1. (m \cap T) \ {x} = n \cap T
    OBVIOUS
  <2>2. SumFunctionOnSet(f, m \cap T) = f[x] + SumFunctionOnSet(f, (m \cap T) \ {x})
    BY <1>4, <1>7, <1>10, SumTakeOut
  <2>3. f[x] \in Nat /\ f[x] <= h[x]
    BY <1>10
  <2>4. SumFunctionOnSet(f, m \cap T) = f[x] + SumFunctionOnSet(f, n \cap T)
    BY <2>1, <2>2
  <2>5. SumFunctionOnSet(f, n \cap T) <= SumFunctionOnSet(h, n)
    BY <1>5
  <2> HIDE DEF n, Odd
  <2>6. Less(m)
    BY <1>6, <1>8, <1>9, <2>3, <2>4, <2>5
  <2> QED
    BY <1>2, <2>6
<1>11. CASE x \notin T
  <2>1. m \cap T = n \cap T
    BY <1>11
  <2>2. SumFunctionOnSet(f, n \cap T) <= SumFunctionOnSet(h, n)
    BY <1>5
  <2>3. SumFunctionOnSet(f, m \cap T) = SumFunctionOnSet(f, n \cap T)
    BY <2>1
  <2> HIDE DEF n, Odd
  <2>4. Less(m)
    BY <1>6, <1>8, <1>9, <2>2, <2>3
  <2> QED
    BY <1>2, <2>4
<1> QED
  BY <1>10, <1>11

\* Nothing adds up to nothing.
LEMMA SumOfZeros ==
  ASSUME NEW S, IsFiniteSet(S), NEW f, \A x \in S : f[x] = 0
  PROVE  SumFunctionOnSet(f, S) = 0
<1>1. SumFunctionOnSet(f, {}) = 0
  BY SumUnfolds, FS_EmptySet
<1> DEFINE Odd == {T \in SUBSET S : SumFunctionOnSet(f, T) # 0}
<1> SUFFICES ASSUME Odd # {} PROVE FALSE
  OBVIOUS
<1>2. PICK m \in Odd : \A s \in Odd : s \subseteq m => s = m
  <2>1. Odd \in SUBSET (SUBSET S)
    OBVIOUS
  <2> HIDE DEF Odd
  <2> QED BY <2>1, LeastSubset
<1>3. IsFiniteSet(m) /\ SumFunctionOnSet(f, m) # 0 /\ m \in SUBSET S
  BY <1>2, FS_Subset
<1>4. m # {}
  <2>1. ASSUME m = {} PROVE FALSE
    BY <1>1, <1>3, <2>1
  <2> QED
    BY <2>1
<1>5. Pick(m) \in m /\ f[Pick(m)] = 0
  BY <1>3, <1>4, PickIn
<1>6. SumFunctionOnSet(f, m \ {Pick(m)}) = 0
  BY <1>2, <1>5
<1>7. SumFunctionOnSet(f, m) = f[Pick(m)] + SumFunctionOnSet(f, m \ {Pick(m)})
  BY <1>3, <1>4, SumUnfolds
<1> QED
  BY <1>3, <1>5, <1>6, <1>7

\* A set is added up in two parts.
LEMMA SumSplit ==
  ASSUME NEW S, IsFiniteSet(S), NEW f, \A x \in S : f[x] \in Nat, NEW T \in SUBSET S
  PROVE  SumFunctionOnSet(f, S) = SumFunctionOnSet(f, T) + SumFunctionOnSet(f, S \ T)
<1> DEFINE Splits(U) == SumFunctionOnSet(f, U) = SumFunctionOnSet(f, U \cap T) + SumFunctionOnSet(f, U \ T)
           Odd == {U \in SUBSET S : ~ Splits(U)}
<1> SUFFICES ASSUME Odd # {} PROVE FALSE
  <2>1. S \cap T = T /\ Splits(S)
    OBVIOUS
  <2> QED
    BY <2>1
<1>1. PICK m \in Odd : \A s \in Odd : s \subseteq m => s = m
  <2>1. Odd \in SUBSET (SUBSET S)
    OBVIOUS
  <2> HIDE DEF Odd
  <2> QED BY <2>1, LeastSubset
<1>2. m \in SUBSET S /\ IsFiniteSet(m) /\ ~ Splits(m)
  BY <1>1, FS_Subset
<1>3. m # {}
  <2>1. SumFunctionOnSet(f, {}) = 0
    BY SumUnfolds, FS_EmptySet
  <2>2. ASSUME m = {} PROVE Splits(m)
    <3>1. m \cap T = {} /\ m \ T = {}
      BY <2>2
    <3> QED
      BY <2>1, <2>2, <3>1
  <2> QED
    BY <1>2, <2>2
<1>4. PICK x \in m : TRUE
  BY <1>3
<1> DEFINE n == m \ {x}
<1>5. Splits(n)
  BY <1>1, <1>2, <1>4
<1>6. SumFunctionOnSet(f, m) = f[x] + SumFunctionOnSet(f, n)
  BY <1>2, <1>4, SumTakeOut
<1>7. IsFiniteSet(m \cap T) /\ IsFiniteSet(m \ T) /\ IsFiniteSet(n \cap T) /\ IsFiniteSet(n \ T)
  BY <1>2, FS_Subset
<1>8. SumFunctionOnSet(f, n \cap T) \in Nat /\ SumFunctionOnSet(f, n \ T) \in Nat /\ f[x] \in Nat
  BY <1>2, <1>4, <1>7, SumNat
<1>9. CASE x \in T
  <2>1. (m \cap T) \ {x} = n \cap T /\ m \ T = n \ T
    BY <1>9
  <2>2. SumFunctionOnSet(f, m \cap T) = f[x] + SumFunctionOnSet(f, (m \cap T) \ {x})
    BY <1>4, <1>7, <1>9, SumTakeOut
  <2>3. /\ SumFunctionOnSet(f, m \cap T) = f[x] + SumFunctionOnSet(f, n \cap T)
        /\ SumFunctionOnSet(f, m \ T) = SumFunctionOnSet(f, n \ T)
    BY <2>1, <2>2
  <2>4. SumFunctionOnSet(f, n) = SumFunctionOnSet(f, n \cap T) + SumFunctionOnSet(f, n \ T)
    BY <1>5
  <2> HIDE DEF n, Odd
  <2>5. Splits(m)
    BY <1>6, <1>8, <2>3, <2>4
  <2> QED
    BY <1>2, <2>5
<1>10. CASE x \notin T
  <2>1. (m \ T) \ {x} = n \ T /\ m \cap T = n \cap T
    BY <1>10
  <2>2. SumFunctionOnSet(f, m \ T) = f[x] + SumFunctionOnSet(f, (m \ T) \ {x})
    BY <1>2, <1>4, <1>7, <1>10, SumTakeOut
  <2>3. /\ SumFunctionOnSet(f, m \ T) = f[x] + SumFunctionOnSet(f, n \ T)
        /\ SumFunctionOnSet(f, m \cap T) = SumFunctionOnSet(f, n \cap T)
    BY <2>1, <2>2
  <2>4. SumFunctionOnSet(f, n) = SumFunctionOnSet(f, n \cap T) + SumFunctionOnSet(f, n \ T)
    BY <1>5
  <2> HIDE DEF n, Odd
  <2>5. Splits(m)
    BY <1>6, <1>8, <2>3, <2>4
  <2> QED
    BY <1>2, <2>5
<1> QED
  BY <1>9, <1>10

\* One value is its own sum.
LEMMA SumOfOne ==
  ASSUME NEW f, NEW x, f[x] \in Nat
  PROVE  SumFunctionOnSet(f, {x}) = f[x]
<1>1. SumFunctionOnSet(f, {x}) = f[x] + SumFunctionOnSet(f, {x} \ {x})
  BY FS_Singleton, SumTakeOut
<1>2. {x} \ {x} = {} /\ SumFunctionOnSet(f, {}) = 0
  BY SumUnfolds, FS_EmptySet
<1> QED
  BY <1>1, <1>2

-----------------------------------------------------------------------------
(* Least and greatest numbers.                                             *)

\* Some naturals have a least one.
LEMMA MinIs ==
  ASSUME NEW S \in SUBSET Nat, S # {}
  PROVE  Min(S) \in S /\ \A x \in S : Min(S) <= x
<1>1. PICK m \in S : \A x \in S : ~ (<<x, m>> \in OpToRel(<, Nat))
  BY NatLessThanWellFounded, WFMin
<1>2. \A x \in S : ~ x < m
  <2>1. \A x, y \in Nat : x < y => <<x, y>> \in OpToRel(<, Nat)
    BY Zenon DEF OpToRel
  <2> QED
    BY <1>1, <2>1
<1>3. \A x \in S : m <= x
  BY <1>2
<1> QED
  BY <1>3 DEF Min

\* And a greatest one, when they are bounded.
LEMMA MaxIs ==
  ASSUME NEW n \in Nat, NEW S \in SUBSET (0 .. n), S # {}
  PROVE  Max(S) \in S /\ \A x \in S : x <= Max(S)
<1> DEFINE T == {n - x : x \in S}
<1>1. T \in SUBSET Nat /\ T # {}
  <2>1. \A x \in S : n - x \in Nat
    OBVIOUS
  <2> QED
    BY <2>1
<1> HIDE DEF T
<1>2. Min(T) \in T /\ \A y \in T : Min(T) <= y
  BY <1>1, MinIs
<1>3. PICK m \in S : Min(T) = n - m
  BY <1>2 DEF T
<1>4. \A x \in S : n - m <= n - x
  BY <1>2, <1>3 DEF T
<1>5. \A x \in S : m >= x
  BY <1>4
<1>6. Max(S) \in S /\ \A x \in S : Max(S) >= x
  BY <1>5 DEF Max
<1> QED
  BY <1>6

\* What holds of zero, and of each number up to n with the one before it, holds up to n.
LEMMA CountingUp ==
  ASSUME NEW n \in Nat, NEW T, 0 \in T, \A k \in 0 .. (n - 1) : k \in T => k + 1 \in T
  PROVE  \A k \in 0 .. n : k \in T
<1> DEFINE Odd == {k \in 0 .. n : k \notin T}
<1> SUFFICES ASSUME Odd # {} PROVE FALSE
  OBVIOUS
<1>1. Odd \in SUBSET Nat
  OBVIOUS
<1>2. PICK m \in Odd : \A x \in Odd : m <= x
  <2> HIDE DEF Odd
  <2> QED
    BY <1>1, MinIs
<1>3. m \in 0 .. n /\ m \notin T
  BY <1>2
<1>4. m - 1 \in 0 .. (n - 1) /\ ~ (m <= m - 1)
  BY <1>3
<1>5. m - 1 \notin Odd
  BY <1>2, <1>4
<1>6. m - 1 \in T
  BY <1>4, <1>5
<1>7. (m - 1) + 1 \in T
  BY <1>4, <1>6
<1> QED
  BY <1>3, <1>7

\* What a function makes of finitely many things is finitely many.
LEMMA ImageFinite ==
  ASSUME NEW S, IsFiniteSet(S), NEW f
  PROVE  IsFiniteSet({f[x] : x \in S})
<1> DEFINE T == {f[x] : x \in S}
           g == [x \in S |-> f[x]]
<1>1. g \in Surjection(S, T)
  BY DEF Surjection
<1> HIDE DEF g, T
<1>2. IsFiniteSet(T)
  BY <1>1, FS_Surjection
<1> QED
  BY <1>2 DEF T

\* Some integers, finitely many, have a least and a greatest one.
LEMMA LeastAndGreatest ==
  ASSUME NEW S, IsFiniteSet(S), S # {}, \A x \in S : x \in Int
  PROVE  /\ Min(S) \in S /\ \A x \in S : Min(S) <= x
         /\ Max(S) \in S /\ \A x \in S : x <= Max(S)
<1>1. \A T \in SUBSET (SUBSET S) : T # {} => \E m \in T : \A s \in T : s \subseteq m => s = m
  BY LeastSubset
<1> DEFINE Ends(T) == /\ \E m \in T : \A x \in T : m <= x
                      /\ \E m \in T : \A x \in T : m >= x
           Odd == {T \in SUBSET S : T # {} /\ ~ Ends(T)}
<1>2. Odd = {}
  <2> SUFFICES ASSUME Odd # {} PROVE FALSE
    OBVIOUS
  <2>1. PICK m \in Odd : \A s \in Odd : s \subseteq m => s = m
    <3>1. Odd \in SUBSET (SUBSET S)
      OBVIOUS
    <3>2. Odd # {}
      OBVIOUS
    <3> HIDE DEF Odd
    <3> QED
      BY <1>1, <3>1, <3>2, Zenon
  <2>2. m \in SUBSET Int /\ m \in SUBSET S /\ m # {} /\ ~ Ends(m)
    BY <2>1
  <2>3. PICK y \in m : TRUE
    BY <2>2
  <2> DEFINE rest == m \ {y}
  <2>4. rest \in SUBSET S /\ rest \subseteq m /\ rest # m
    BY <2>2
  <2>5. rest = {} \/ Ends(rest)
    BY <2>1, <2>4
  <2>6. CASE rest = {}
    <3>1. \A x \in m : x = y
      BY <2>6
    <3> QED
      BY <2>2, <3>1
  <2>7. CASE Ends(rest)
    <3>1. PICK a \in rest : \A x \in rest : a <= x
      BY <2>7
    <3>2. PICK b \in rest : \A x \in rest : b >= x
      BY <2>7
    <3>3. a \in Int /\ b \in Int /\ y \in Int /\ \A x \in m : x \in Int /\ (x = y \/ x \in rest)
      BY <2>2
    <3>4. \E l \in m : \A x \in m : l <= x
      <4>1. CASE a <= y
        BY <3>1, <3>3, <4>1
      <4>2. CASE ~ a <= y
        BY <3>1, <3>3, <4>2
      <4> QED
        BY <4>1, <4>2
    <3>5. \E h \in m : \A x \in m : h >= x
      <4>1. CASE b >= y
        BY <3>2, <3>3, <4>1
      <4>2. CASE ~ b >= y
        BY <3>2, <3>3, <4>2
      <4> QED
        BY <4>1, <4>2
    <3> QED
      BY <2>2, <3>4, <3>5
  <2> QED
    BY <2>5, <2>6, <2>7
<1>3. Ends(S)
  BY <1>2
<1>4. Min(S) \in S /\ \A x \in S : Min(S) <= x
  BY <1>3 DEF Min
<1>5. Max(S) \in S /\ \A x \in S : Max(S) >= x
  BY <1>3 DEF Max
<1>6. \A x \in S : x <= Max(S)
  BY <1>5
<1> QED
  BY <1>4, <1>5, <1>6

-----------------------------------------------------------------------------
(* Sequences.                                                              *)

\* What is left when one place is taken out of a sequence.
LEMMA RemoveAtEffect ==
  ASSUME NEW S, NEW s \in Seq(S), NEW i \in 1 .. Len(s)
  PROVE  /\ RemoveAt(s, i) \in Seq(S)
         /\ Len(RemoveAt(s, i)) = Len(s) - 1
         /\ \A j \in 1 .. (Len(s) - 1) :
              RemoveAt(s, i)[j] = IF j < i THEN s[j] ELSE s[j + 1]
<1> DEFINE a == SubSeq(s, 1, i - 1)
           b == SubSeq(s, i + 1, Len(s))
<1>1. Len(s) \in Nat /\ \A j \in 1 .. Len(s) : s[j] \in S
  BY LenProperties, ElementOfSeq
<1>2. /\ a \in Seq(S) /\ Len(a) = i - 1
      /\ \A j \in 1 .. (i - 1) : a[j] = s[j]
  <2>1. \A j \in 1 .. (i - 1) : s[j] \in S
    BY <1>1
  <2> QED
    BY <1>1, <2>1, SubSeqProperties
<1>3. /\ b \in Seq(S) /\ Len(b) = Len(s) - i
      /\ \A j \in 1 .. (Len(s) - i) : b[j] = s[i + j]
  <2>1. \A j \in (i + 1) .. Len(s) : s[j] \in S
    BY <1>1
  <2> QED
    BY <1>1, <2>1, SubSeqProperties
<1> HIDE DEF a, b
<1>4. /\ a \o b \in Seq(S) /\ Len(a \o b) = Len(s) - 1
      /\ \A j \in 1 .. (Len(s) - 1) : (a \o b)[j] = IF j < i THEN s[j] ELSE s[j + 1]
  <2>1. /\ a \o b \in Seq(S) /\ Len(a \o b) = Len(s) - 1
        /\ \A j \in 1 .. (Len(a) + Len(b)) :
             (a \o b)[j] = IF j <= Len(a) THEN a[j] ELSE b[j - Len(a)]
    BY <1>1, <1>2, <1>3, ConcatProperties
  <2>2. ASSUME NEW j \in 1 .. (Len(s) - 1), j < i PROVE (a \o b)[j] = s[j]
    BY <1>1, <1>2, <1>3, <2>1, <2>2
  <2>3. ASSUME NEW j \in 1 .. (Len(s) - 1), ~ j < i PROVE (a \o b)[j] = s[j + 1]
    <3>1. (a \o b)[j] = b[j - (i - 1)] /\ j - (i - 1) \in 1 .. (Len(s) - i)
      BY <1>1, <1>2, <1>3, <2>1, <2>3
    <3>2. b[j - (i - 1)] = s[i + (j - (i - 1))] /\ i + (j - (i - 1)) = j + 1
      BY <1>3, <3>1
    <3> QED
      BY <3>1, <3>2
  <2> QED
    BY <2>1, <2>2, <2>3
<1> QED
  BY <1>4 DEF RemoveAt, a, b

\* Each element of s is there once.
Distinct(s) == \A i, j \in 1 .. Len(s) : s[i] = s[j] => i = j

\* Every element of s is an element of t.
Among(s, t) == \A i \in 1 .. Len(s) : \E j \in 1 .. Len(t) : s[i] = t[j]

\* What was not there may be added at the end.
LEMMA AppendKeepsDistinct ==
  ASSUME NEW S, NEW s \in Seq(S), NEW e \in S, Distinct(s), \A i \in 1 .. Len(s) : s[i] # e
  PROVE  Distinct(Append(s, e))
  BY AppendProperties, LenProperties DEF Distinct

\* Without its head a sequence has what it had, and the head no more.
LEMMA TailKeepsDistinct ==
  ASSUME NEW S, NEW s \in Seq(S), s # <<>>, Distinct(s)
  PROVE  /\ Distinct(Tail(s)) /\ Among(Tail(s), s)
         /\ \A i \in 1 .. Len(Tail(s)) : Tail(s)[i] # s[1]
  BY HeadTailProperties, LenProperties, EmptySeq DEF Distinct, Among

\* Without one of its places it has what it had, and that element no more.
LEMMA RemoveAtKeepsDistinct ==
  ASSUME NEW S, NEW s \in Seq(S), NEW i \in 1 .. Len(s), Distinct(s)
  PROVE  /\ Distinct(RemoveAt(s, i)) /\ Among(RemoveAt(s, i), s)
         /\ \A j \in 1 .. Len(RemoveAt(s, i)) : RemoveAt(s, i)[j] # s[i]
<1> DEFINE t == RemoveAt(s, i)
<1>1. /\ Len(t) = Len(s) - 1 /\ Len(s) \in Nat
      /\ \A j \in 1 .. (Len(s) - 1) : t[j] = IF j < i THEN s[j] ELSE s[j + 1]
  BY RemoveAtEffect, LenProperties
<1> HIDE DEF t
<1>2. Distinct(t) /\ Among(t, s) /\ \A j \in 1 .. Len(t) : t[j] # s[i]
  <2>1. ASSUME NEW j \in 1 .. Len(t)
        PROVE  t[j] # s[i] /\ \E k \in 1 .. Len(s) : t[j] = s[k]
    <3>1. CASE j < i
      BY <1>1, <3>1 DEF Distinct
    <3>2. CASE ~ j < i
      BY <1>1, <3>2 DEF Distinct
    <3> QED
      BY <3>1, <3>2
  <2>2. ASSUME NEW j \in 1 .. Len(t), NEW k \in 1 .. Len(t), t[j] = t[k] PROVE j = k
    <3> DEFINE At(n) == IF n < i THEN n ELSE n + 1
    <3>1. /\ At(j) \in 1 .. Len(s) /\ At(k) \in 1 .. Len(s)
          /\ s[At(j)] = t[j] /\ s[At(k)] = t[k]
      BY <1>1
    <3>2. At(j) = At(k)
      BY <2>2, <3>1 DEF Distinct
    <3> QED
      BY <3>2, <1>1
  <2> QED
    BY <2>1, <2>2 DEF Distinct, Among
<1> QED
  BY <1>2 DEF t

-----------------------------------------------------------------------------
(* Lists made of lists.                                                    *)

\* g[k] is the first k of the lists, one after the other.
Flattens(g, seqs, n) ==
  g = [i \in 1 .. n |-> IF i = 1 THEN seqs[i] ELSE g[i - 1] \o seqs[i]]

LEMMA FlattensExists ==
  ASSUME NEW n \in Nat, NEW seqs
  PROVE  \E g : Flattens(g, seqs, n)
<1> DEFINE T == {k \in 0 .. n : \E g : Flattens(g, seqs, k)}
<1>1. 0 \in T
  <2>1. Flattens([i \in 1 .. 0 |-> 0], seqs, 0)
    BY DEF Flattens
  <2> QED
    BY <2>1
<1>2. ASSUME NEW k \in 0 .. (n - 1), k \in T PROVE k + 1 \in T
  <2>1. PICK g : Flattens(g, seqs, k)
    BY <1>2
  <2> DEFINE h == [i \in 1 .. (k + 1) |->
                     IF i <= k THEN g[i] ELSE IF i = 1 THEN seqs[i] ELSE g[i - 1] \o seqs[i]]
  <2>2. \A i \in 1 .. k : g[i] = IF i = 1 THEN seqs[i] ELSE g[i - 1] \o seqs[i]
    <3>1. g = [i \in 1 .. k |-> IF i = 1 THEN seqs[i] ELSE g[i - 1] \o seqs[i]]
      BY <2>1 DEF Flattens
    <3> QED
      BY <3>1
  <2>3. \A i \in 1 .. (k + 1) : h[i] = IF i = 1 THEN seqs[i] ELSE h[i - 1] \o seqs[i]
    <3> TAKE i \in 1 .. (k + 1)
    <3>1. /\ i <= k => h[i] = g[i]
          /\ ~ i <= k => h[i] = IF i = 1 THEN seqs[i] ELSE g[i - 1] \o seqs[i]
      OBVIOUS
    <3>2. i # 1 => i - 1 \in 1 .. (k + 1) /\ i - 1 <= k /\ h[i - 1] = g[i - 1]
      OBVIOUS
    <3>3. i <= k => i \in 1 .. k
      OBVIOUS
    <3> HIDE DEF h
    <3>4. CASE i = 1
      BY <2>2, <3>1, <3>3, <3>4
    <3>5. CASE i # 1 /\ i <= k
      BY <2>2, <3>1, <3>2, <3>3, <3>5
    <3>6. CASE i # 1 /\ ~ i <= k
      BY <3>1, <3>2, <3>6
    <3> QED
      BY <3>4, <3>5, <3>6
  <2>4. h = [i \in 1 .. (k + 1) |-> IF i = 1 THEN seqs[i] ELSE h[i - 1] \o seqs[i]]
    <3>1. h = [i \in 1 .. (k + 1) |-> h[i]]
      OBVIOUS
    <3> HIDE DEF h
    <3> QED
      BY <2>3, <3>1
  <2> HIDE DEF h
  <2>5. Flattens(h, seqs, k + 1)
    BY <2>4 DEF Flattens
  <2> QED
    BY <2>5
<1> HIDE DEF T
<1>3. n \in T
  BY <1>1, <1>2, CountingUp
<1> QED
  BY <1>3 DEF T

\* The lists one after the other, one at a time.
LEMMA FlattenSteps ==
  ASSUME NEW S, NEW seqs \in Seq(Seq(S))
  PROVE  \E g \in [0 .. Len(seqs) -> Seq(S)] :
           /\ g[0] = <<>>
           /\ \A k \in 1 .. Len(seqs) : g[k] = g[k - 1] \o seqs[k]
           /\ FlattenSeq(seqs) = g[Len(seqs)]
<1> DEFINE n == Len(seqs)
<1>1. n \in Nat /\ \A i \in 1 .. n : seqs[i] \in Seq(S)
  BY LenProperties, ElementOfSeq
<1> DEFINE f == CHOOSE f : Flattens(f, seqs, n)
<1>2. Flattens(f, seqs, n)
  <2> HIDE DEF n
  <2> QED
    BY <1>1, FlattensExists
<1>3. n # 0 => FlattenSeq(seqs) = f[n]
  BY DEF FlattenSeq, Flattens
<1>4. n = 0 => seqs = <<>> /\ FlattenSeq(seqs) = <<>>
  BY EmptySeq DEF FlattenSeq
<1> HIDE DEF n, f
<1> DEFINE g == [k \in 0 .. n |-> IF k = 0 THEN <<>> ELSE f[k]]
<1>5. f = [i \in 1 .. n |-> IF i = 1 THEN seqs[i] ELSE f[i - 1] \o seqs[i]]
  BY <1>2 DEF Flattens
<1>6. \A k \in 1 .. n : f[k] = IF k = 1 THEN seqs[k] ELSE f[k - 1] \o seqs[k]
  BY <1>5
<1>7. ASSUME NEW k \in 1 .. n PROVE g[k] = g[k - 1] \o seqs[k]
  <2>1. CASE k = 1
    <3>1. g[k] = seqs[1] /\ g[k - 1] = <<>> /\ seqs[1] \in Seq(S)
      BY <1>1, <1>6, <2>1
    <3>2. <<>> \o seqs[1] = seqs[1]
      BY <3>1, ConcatEmptySeq
    <3> QED
      BY <2>1, <3>1, <3>2
  <2>2. CASE k # 1
    <3>1. g[k] = f[k] /\ g[k - 1] = f[k - 1]
      BY <1>1, <2>2
    <3>2. f[k] = f[k - 1] \o seqs[k]
      BY <1>6, <2>2
    <3> QED
      BY <3>1, <3>2
  <2> QED
    BY <2>1, <2>2
<1>8. g[0] = <<>> /\ FlattenSeq(seqs) = g[n]
  BY <1>1, <1>3, <1>4
<1>9. DOMAIN g = 0 .. n /\ g = [k \in 0 .. n |-> g[k]]
  OBVIOUS
<1> HIDE DEF g
<1>10. \A k \in 0 .. n : g[k] \in Seq(S)
  <2> DEFINE T == {k \in 0 .. n : g[k] \in Seq(S)}
  <2>1. 0 \in T
    <3>1. g[0] \in Seq(S)
      BY <1>8, EmptySeq
    <3>2. 0 \in 0 .. n
      BY <1>1
    <3> QED
      BY <3>1, <3>2
  <2>2. ASSUME NEW k \in 0 .. (n - 1), k \in T PROVE k + 1 \in T
    <3>1. k + 1 \in 1 .. n /\ (k + 1) - 1 = k
      BY <1>1
    <3>2. g[k + 1] = g[k] \o seqs[k + 1]
      BY <1>7, <3>1
    <3>3. g[k] \in Seq(S) /\ seqs[k + 1] \in Seq(S)
      BY <1>1, <2>2, <3>1
    <3>4. g[k + 1] \in Seq(S)
      BY <3>2, <3>3, ConcatProperties
    <3> QED
      BY <3>1, <3>4
  <2> HIDE DEF T
  <2>3. \A k \in 0 .. n : k \in T
    BY <1>1, <2>1, <2>2, CountingUp
  <2> QED
    BY <2>3 DEF T
<1>11. g \in [0 .. n -> Seq(S)]
  BY <1>9, <1>10
<1> QED
  BY <1>7, <1>8, <1>11 DEF n


\* Where what is put one after the other is found.
LEMMA ConcatPlaces ==
  ASSUME NEW S, NEW s \in Seq(S), NEW t \in Seq(S)
  PROVE  /\ s \o t \in Seq(S) /\ Len(s) \in Nat /\ Len(t) \in Nat
         /\ Len(s \o t) = Len(s) + Len(t)
         /\ \A x \in 1 .. Len(s) : x \in 1 .. Len(s \o t) /\ (s \o t)[x] = s[x]
         /\ \A j \in 1 .. Len(t) :
              Len(s) + j \in 1 .. Len(s \o t) /\ (s \o t)[Len(s) + j] = t[j]
         /\ \A x \in 1 .. Len(s \o t) : ~ x <= Len(s) =>
              x - Len(s) \in 1 .. Len(t) /\ (s \o t)[x] = t[x - Len(s)]
<1> DEFINE u == s \o t
           n == Len(s)
           m == Len(t)
<1>1. n \in Nat /\ m \in Nat
  BY LenProperties
<1>2. u \in Seq(S) /\ Len(u) = n + m
  BY ConcatProperties
<1>3. \A i \in 1 .. (n + m) : u[i] = IF i <= n THEN s[i] ELSE t[i - n]
  BY ConcatProperties
<1> HIDE DEF u, n, m
<1>4. \A x \in 1 .. n : x \in 1 .. Len(u) /\ u[x] = s[x]
  <2> TAKE x \in 1 .. n
  <2>1. x \in 1 .. (n + m) /\ x <= n
    BY <1>1
  <2> QED
    BY <1>2, <1>3, <2>1
<1>5. \A j \in 1 .. m : n + j \in 1 .. Len(u) /\ u[n + j] = t[j]
  <2> TAKE j \in 1 .. m
  <2>1. n + j \in 1 .. (n + m) /\ ~ n + j <= n /\ (n + j) - n = j
    BY <1>1
  <2>2. u[n + j] = t[(n + j) - n]
    BY <1>3, <2>1
  <2> QED
    BY <1>2, <2>1, <2>2
<1>6. \A x \in 1 .. Len(u) : ~ x <= n => x - n \in 1 .. m /\ u[x] = t[x - n]
  <2> TAKE x \in 1 .. Len(u)
  <2>1. x \in 1 .. (n + m)
    BY <1>2
  <2>2. ~ x <= n => x - n \in 1 .. m
    BY <1>1, <2>1
  <2> QED
    BY <1>3, <2>1, <2>2
<1> QED
  BY <1>1, <1>2, <1>4, <1>5, <1>6 DEF u, n, m

\* What can be said of such lists without g: their elements, and their places where each is a
\* list of its own.
LEMMA FlattenIs ==
  ASSUME NEW S, NEW seqs \in Seq(Seq(S))
  PROVE  /\ FlattenSeq(seqs) \in Seq(S)
         /\ \A i \in 1 .. Len(seqs) : \A j \in 1 .. Len(seqs[i]) :
              \E k \in 1 .. Len(FlattenSeq(seqs)) : FlattenSeq(seqs)[k] = seqs[i][j]
         /\ \A k \in 1 .. Len(FlattenSeq(seqs)) :
              \E i \in 1 .. Len(seqs) : \E j \in 1 .. Len(seqs[i]) :
                FlattenSeq(seqs)[k] = seqs[i][j]
<1> DEFINE n == Len(seqs)
<1>1. n \in Nat /\ \A i \in 1 .. n : seqs[i] \in Seq(S) /\ Len(seqs[i]) \in Nat
  BY LenProperties, ElementOfSeq
<1>2. PICK g \in [0 .. n -> Seq(S)] :
        /\ g[0] = <<>>
        /\ \A k \in 1 .. n : g[k] = g[k - 1] \o seqs[k]
        /\ FlattenSeq(seqs) = g[n]
  BY FlattenSteps
<1> DEFINE Holds(k) ==
      /\ \A i \in 1 .. k : \A j \in 1 .. Len(seqs[i]) :
           \E x \in 1 .. Len(g[k]) : g[k][x] = seqs[i][j]
      /\ \A x \in 1 .. Len(g[k]) :
           \E i \in 1 .. k : \E j \in 1 .. Len(seqs[i]) : g[k][x] = seqs[i][j]
<1> HIDE DEF n
<1> DEFINE T == {k \in 0 .. n : Holds(k)}
<1>3. 0 \in T
  <2>1. Len(g[0]) = 0
    BY <1>2, EmptySeq
  <2> QED
    BY <1>1, <2>1
<1>4. ASSUME NEW m \in 0 .. (n - 1), m \in T PROVE m + 1 \in T
  <2> DEFINE k == m + 1
  <2>1. k \in 1 .. n /\ k - 1 = m /\ m \in 0 .. n /\ k \in 0 .. n
    BY <1>1
  <2> HIDE DEF k
  <2>2. g[k] = g[m] \o seqs[k] /\ g[m] \in Seq(S) /\ seqs[k] \in Seq(S) /\ Len(g[m]) \in Nat
    BY <1>1, <1>2, <2>1, LenProperties
  <2>3. /\ Len(g[k]) = Len(g[m]) + Len(seqs[k]) /\ Len(seqs[k]) \in Nat
        /\ \A x \in 1 .. Len(g[m]) : x \in 1 .. Len(g[k]) /\ g[k][x] = g[m][x]
        /\ \A j \in 1 .. Len(seqs[k]) :
             Len(g[m]) + j \in 1 .. Len(g[k]) /\ g[k][Len(g[m]) + j] = seqs[k][j]
        /\ \A x \in 1 .. Len(g[k]) : ~ x <= Len(g[m]) =>
             x - Len(g[m]) \in 1 .. Len(seqs[k]) /\ g[k][x] = seqs[k][x - Len(g[m])]
    <3> DEFINE s == g[m]
               t == seqs[k]
    <3>1. s \in Seq(S) /\ t \in Seq(S) /\ g[k] = s \o t
      BY <2>2
    <3> HIDE DEF s, t
    <3>2. /\ Len(s \o t) = Len(s) + Len(t) /\ Len(t) \in Nat
          /\ \A x \in 1 .. Len(s) : x \in 1 .. Len(s \o t) /\ (s \o t)[x] = s[x]
          /\ \A j \in 1 .. Len(t) :
               Len(s) + j \in 1 .. Len(s \o t) /\ (s \o t)[Len(s) + j] = t[j]
          /\ \A x \in 1 .. Len(s \o t) : ~ x <= Len(s) =>
               x - Len(s) \in 1 .. Len(t) /\ (s \o t)[x] = t[x - Len(s)]
      BY <3>1, ConcatPlaces
    <3>3. s = g[m] /\ t = seqs[k]
      BY DEF s, t
    <3> QED
      BY <3>1, <3>2, <3>3
  <2>4. ASSUME NEW i \in 1 .. k, NEW j \in 1 .. Len(seqs[i])
        PROVE  \E x \in 1 .. Len(g[k]) : g[k][x] = seqs[i][j]
    <3>1. CASE i = k
      BY <2>3, <3>1
    <3>2. CASE i # k
      <4>1. i \in 1 .. m
        BY <2>1, <3>2
      <4>2. PICK x \in 1 .. Len(g[m]) : g[m][x] = seqs[i][j]
        BY <1>4, <4>1
      <4> QED
        BY <2>3, <4>2
    <3> QED
      BY <3>1, <3>2
  <2>5. ASSUME NEW x \in 1 .. Len(g[k])
        PROVE  \E i \in 1 .. k : \E j \in 1 .. Len(seqs[i]) : g[k][x] = seqs[i][j]
    <3>1. CASE x <= Len(g[m])
      <4>1. x \in 1 .. Len(g[m]) /\ g[k][x] = g[m][x]
        BY <2>2, <2>3, <3>1
      <4>2. PICK i \in 1 .. m : \E j \in 1 .. Len(seqs[i]) : g[m][x] = seqs[i][j]
        BY <1>4, <4>1
      <4>3. i \in 1 .. k
        BY <2>1
      <4> QED
        BY <4>1, <4>2, <4>3
    <3>2. CASE ~ x <= Len(g[m])
      <4>1. x - Len(g[m]) \in 1 .. Len(seqs[k]) /\ g[k][x] = seqs[k][x - Len(g[m])]
        BY <2>2, <2>3, <3>2
      <4>2. k \in 1 .. k
        BY <2>1
      <4> QED
        BY <4>1, <4>2
    <3> QED
      BY <3>1, <3>2
  <2>6. Holds(k)
    BY <2>4, <2>5
  <2> QED
    BY <2>1, <2>6 DEF k
<1> HIDE DEF T
<1>5. n \in T
  <2>1. \A k \in 0 .. n : k \in T
    BY <1>1, <1>3, <1>4, CountingUp
  <2> QED
    BY <1>1, <2>1
<1>6. Holds(n)
  BY <1>5 DEF T
<1>7. g[n] \in Seq(S)
  BY <1>1, <1>2
<1> HIDE DEF Holds
<1>8. FlattenSeq(seqs) = g[n]
  BY <1>2
<1> QED
  BY <1>6, <1>7, <1>8 DEF n, Holds


\* One more list goes at the end.
LEMMA FlattenAppend ==
  ASSUME NEW S, NEW seqs \in Seq(Seq(S)), NEW x \in Seq(S)
  PROVE  FlattenSeq(Append(seqs, x)) = FlattenSeq(seqs) \o x
<1> DEFINE more == Append(seqs, x)
           n == Len(seqs)
<1>1. n \in Nat
  BY LenProperties
<1>2. /\ more \in Seq(Seq(S)) /\ Len(more) = n + 1
      /\ \A i \in 1 .. n : more[i] = seqs[i]
      /\ more[n + 1] = x
  BY AppendProperties
<1> HIDE DEF more, n
<1>3. PICK g \in [0 .. n -> Seq(S)] :
        /\ g[0] = <<>>
        /\ \A k \in 1 .. n : g[k] = g[k - 1] \o seqs[k]
        /\ FlattenSeq(seqs) = g[n]
  BY FlattenSteps DEF n
<1>4. PICK h \in [0 .. (n + 1) -> Seq(S)] :
        /\ h[0] = <<>>
        /\ \A k \in 1 .. (n + 1) : h[k] = h[k - 1] \o more[k]
        /\ FlattenSeq(more) = h[n + 1]
  <2>1. \E h \in [0 .. Len(more) -> Seq(S)] :
          /\ h[0] = <<>>
          /\ \A k \in 1 .. Len(more) : h[k] = h[k - 1] \o more[k]
          /\ FlattenSeq(more) = h[Len(more)]
    BY <1>2, FlattenSteps
  <2> QED
    BY <1>2, <2>1
<1> DEFINE T == {k \in 0 .. n : h[k] = g[k]}
<1>5. 0 \in T
  BY <1>1, <1>3, <1>4
<1>6. ASSUME NEW k \in 0 .. (n - 1), k \in T PROVE k + 1 \in T
  <2>1. k + 1 \in 1 .. n /\ k + 1 \in 1 .. (n + 1) /\ (k + 1) - 1 = k /\ k + 1 \in 0 .. n
    BY <1>1
  <2>2. h[k + 1] = h[k] \o more[k + 1] /\ g[k + 1] = g[k] \o seqs[k + 1]
    BY <1>3, <1>4, <2>1
  <2>3. more[k + 1] = seqs[k + 1] /\ h[k] = g[k]
    BY <1>2, <1>6, <2>1
  <2> QED
    BY <2>1, <2>2, <2>3
<1> HIDE DEF T
<1>7. n \in T
  <2>1. \A k \in 0 .. n : k \in T
    BY <1>1, <1>5, <1>6, CountingUp
  <2> QED
    BY <1>1, <2>1
<1>8. h[n] = g[n]
  BY <1>7 DEF T
<1>9. n + 1 \in 1 .. (n + 1) /\ (n + 1) - 1 = n
  BY <1>1
<1>10. h[n + 1] = h[n] \o more[n + 1]
  BY <1>4, <1>9
<1> QED
  BY <1>2, <1>3, <1>4, <1>8, <1>10 DEF more

\* Lists of one element each come to the list of those elements.
LEMMA FlattenSingles ==
  ASSUME NEW S, NEW s \in Seq(S)
  PROVE  FlattenSeq([i \in DOMAIN s |-> <<s[i]>>]) = s
<1> DEFINE n == Len(s)
           seqs == [i \in DOMAIN s |-> <<s[i]>>]
<1>1. n \in Nat /\ DOMAIN s = 1 .. n /\ \A i \in 1 .. n : s[i] \in S
  BY LenProperties, ElementOfSeq
<1>2. seqs \in Seq(Seq(S)) /\ Len(seqs) = n /\ \A i \in 1 .. n : seqs[i] = <<s[i]>>
  BY <1>1
<1> HIDE DEF seqs, n
<1>3. PICK g \in [0 .. n -> Seq(S)] :
        /\ g[0] = <<>>
        /\ \A k \in 1 .. n : g[k] = g[k - 1] \o seqs[k]
        /\ FlattenSeq(seqs) = g[n]
  BY <1>2, FlattenSteps
<1> DEFINE T == {k \in 0 .. n : g[k] = SubSeq(s, 1, k)}
<1>4. 0 \in T
  BY <1>1, <1>3, SubSeqEmpty
<1>5. ASSUME NEW m \in 0 .. (n - 1), m \in T PROVE m + 1 \in T
  <2> DEFINE k == m + 1
  <2>1. k \in 1 .. n /\ k - 1 = m /\ k \in 0 .. n /\ 1 \in 1 .. Len(s) /\ k \in 1 .. Len(s)
    BY <1>1 DEF n
  <2> HIDE DEF k
  <2>2. g[k] = g[m] \o <<s[k]>>
    BY <1>2, <1>3, <2>1
  <2>3. SubSeq(s, 1, k) = SubSeq(s, 1, k - 1) \o <<s[k]>>
    BY <2>1, SubSeqRecursiveSecond
  <2>4. g[m] = SubSeq(s, 1, m)
    BY <1>5
  <2> QED
    BY <2>1, <2>2, <2>3, <2>4 DEF k
<1> HIDE DEF T
<1>6. n \in T
  <2>1. \A k \in 0 .. n : k \in T
    BY <1>1, <1>4, <1>5, CountingUp
  <2> QED
    BY <1>1, <2>1
<1>7. g[n] = SubSeq(s, 1, n)
  BY <1>6 DEF T
<1> QED
  BY <1>3, <1>7, SubSeqFull DEF n, seqs

\* Where the first lists have one element each, the i-th of them is the i-th element.
LEMMA FlattenFirsts ==
  ASSUME NEW S, NEW seqs \in Seq(Seq(S)), NEW i \in 1 .. Len(seqs),
         \A j \in 1 .. i : Len(seqs[j]) = 1
  PROVE  FlattenSeq(seqs)[i] = seqs[i][1]
<1> DEFINE n == Len(seqs)
<1>1. n \in Nat /\ \A j \in 1 .. n : seqs[j] \in Seq(S)
  BY LenProperties, ElementOfSeq
<1>2. PICK g \in [0 .. n -> Seq(S)] :
        /\ g[0] = <<>>
        /\ \A k \in 1 .. n : g[k] = g[k - 1] \o seqs[k]
        /\ FlattenSeq(seqs) = g[n]
  BY FlattenSteps
<1>3. i \in 1 .. n
  OBVIOUS
<1> HIDE DEF n
<1>4. ASSUME NEW m \in 0 .. (n - 1)
      PROVE  /\ m + 1 \in 1 .. n /\ g[m + 1] = g[m] \o seqs[m + 1]
             /\ Len(g[m]) \in Nat /\ Len(g[m + 1]) = Len(g[m]) + Len(seqs[m + 1])
             /\ Len(seqs[m + 1]) \in Nat
             /\ \A x \in 1 .. Len(g[m]) : g[m + 1][x] = g[m][x]
             /\ \A j \in 1 .. Len(seqs[m + 1]) : g[m + 1][Len(g[m]) + j] = seqs[m + 1][j]
  <2> DEFINE s == g[m]
             t == seqs[m + 1]
  <2>1. m + 1 \in 1 .. n /\ (m + 1) - 1 = m
    BY <1>1
  <2>2. g[m + 1] = s \o t /\ s \in Seq(S) /\ t \in Seq(S)
    <3>1. g[m + 1] = g[(m + 1) - 1] \o seqs[m + 1]
      BY <1>2, <2>1
    <3>2. m \in 0 .. n
      BY <1>1
    <3> QED
      BY <1>1, <2>1, <3>1, <3>2
  <2> HIDE DEF s, t
  <2>3. /\ Len(s) \in Nat /\ Len(t) \in Nat /\ Len(s \o t) = Len(s) + Len(t)
        /\ \A x \in 1 .. Len(s) : (s \o t)[x] = s[x]
        /\ \A j \in 1 .. Len(t) : (s \o t)[Len(s) + j] = t[j]
    BY <2>2, ConcatPlaces
  <2>4. s = g[m] /\ t = seqs[m + 1]
    BY DEF s, t
  <2> QED
    BY <2>1, <2>2, <2>3, <2>4
<1> DEFINE T == {k \in 0 .. i : Len(g[k]) = k}
<1>5. 0 \in T
  BY <1>1, <1>2, <1>3, EmptySeq
<1>6. ASSUME NEW k \in 0 .. (i - 1), k \in T PROVE k + 1 \in T
  <2>1. k \in 0 .. (n - 1) /\ k + 1 \in 1 .. i /\ k + 1 \in 0 .. i
    BY <1>1, <1>3
  <2>2. Len(g[k + 1]) = Len(g[k]) + Len(seqs[k + 1]) /\ Len(seqs[k + 1]) = 1 /\ Len(g[k]) = k
    BY <1>4, <1>6, <2>1
  <2> QED
    BY <2>1, <2>2
<1> HIDE DEF T
<1>7. ASSUME NEW k \in 0 .. i PROVE Len(g[k]) = k
  <2>1. i \in Nat
    BY <1>1, <1>3
  <2>2. \A x \in 0 .. i : x \in T
    BY <2>1, <1>5, <1>6, CountingUp
  <2> QED
    BY <2>2 DEF T
<1>8. Len(g[i]) = i /\ g[i][i] = seqs[i][1]
  <2> DEFINE m == i - 1
  <2>1. m \in 0 .. (n - 1) /\ m \in 0 .. i /\ i \in 0 .. i /\ m + 1 = i
    BY <1>1, <1>3
  <2> HIDE DEF m
  <2>2. Len(g[m]) = m /\ Len(g[i]) = i /\ Len(seqs[i]) = 1
    BY <1>3, <1>7, <2>1
  <2>3. \A j \in 1 .. Len(seqs[m + 1]) : g[m + 1][Len(g[m]) + j] = seqs[m + 1][j]
    BY <1>4, <2>1
  <2>4. \A j \in 1 .. 1 : g[i][m + j] = seqs[i][j]
    BY <2>1, <2>2, <2>3
  <2> QED
    BY <2>1, <2>2, <2>4
<1> DEFINE U == {k \in 0 .. (n - i) : i \in 1 .. Len(g[i + k]) /\ g[i + k][i] = seqs[i][1]}
<1>9. 0 \in U
  <2>1. 0 \in 0 .. (n - i) /\ i + 0 = i /\ i \in 1 .. i
    BY <1>1, <1>3
  <2>2. i \in 1 .. Len(g[i + 0]) /\ g[i + 0][i] = seqs[i][1]
    BY <1>8, <2>1
  <2> QED
    BY <2>1, <2>2
<1>10. ASSUME NEW k \in 0 .. (n - i - 1), k \in U PROVE k + 1 \in U
  <2> DEFINE m == i + k
  <2>1. m \in 0 .. (n - 1) /\ k + 1 \in 0 .. (n - i) /\ i + (k + 1) = m + 1
    BY <1>1, <1>3
  <2>2. i \in 1 .. Len(g[m]) /\ g[m][i] = seqs[i][1]
    BY <1>10
  <2> HIDE DEF m
  <2>3. i \in 1 .. Len(g[m + 1]) /\ g[m + 1][i] = g[m][i]
    <3>1. /\ Len(g[m]) \in Nat /\ Len(g[m + 1]) = Len(g[m]) + Len(seqs[m + 1])
          /\ Len(seqs[m + 1]) \in Nat
          /\ \A x \in 1 .. Len(g[m]) : g[m + 1][x] = g[m][x]
      BY <1>4, <2>1
    <3>2. g[m + 1][i] = g[m][i]
      BY <2>2, <3>1
    <3> DEFINE a == Len(g[m])
               b == Len(seqs[m + 1])
               c == Len(g[m + 1])
    <3>3. a \in Nat /\ b \in Nat /\ c = a + b /\ i \in 1 .. a
      BY <2>2, <3>1
    <3> HIDE DEF a, b, c
    <3>4. i \in 1 .. c
      BY <3>3
    <3> QED
      BY <3>2, <3>4 DEF c
  <2> QED
    BY <2>1, <2>2, <2>3
<1> HIDE DEF U
<1>11. n - i \in U
  <2> DEFINE r == n - i
  <2>1. r \in Nat /\ n - i - 1 = r - 1
    BY <1>1, <1>3
  <2>2. \A k \in 0 .. (r - 1) : k \in U => k + 1 \in U
    BY <1>10, <2>1
  <2>3. 0 \in U
    BY <1>9
  <2> HIDE DEF r
  <2>4. \A k \in 0 .. r : k \in U
    BY <2>1, <2>2, <2>3, CountingUp
  <2>5. r \in 0 .. r
    BY <2>1
  <2>6. r \in U
    BY <2>4, <2>5
  <2> QED
    BY <2>6 DEF r
<1>12. i + (n - i) = n
  BY <1>1, <1>3
<1> QED
  BY <1>2, <1>11, <1>12 DEF U

-----------------------------------------------------------------------------
(* The first lists of a list of lists.                                     *)

\* The first k of a list.
Leading(seqs, k) == [j \in 1 .. k |-> seqs[j]]

\* What the first k of the lists come to, one list at a time.
LEMMA FlattenUpTo ==
  ASSUME NEW S, NEW seqs \in Seq(Seq(S)), NEW k \in 0 .. Len(seqs)
  PROVE  /\ Leading(seqs, k) \in Seq(Seq(S)) /\ Len(Leading(seqs, k)) = k
         /\ FlattenSeq(Leading(seqs, k)) \in Seq(S)
         /\ k = 0 => FlattenSeq(Leading(seqs, k)) = <<>>
         /\ k = Len(seqs) => Leading(seqs, k) = seqs
         /\ k < Len(seqs) =>
              FlattenSeq(Leading(seqs, k + 1)) = FlattenSeq(Leading(seqs, k)) \o seqs[k + 1]
<1> DEFINE n == Len(seqs)
<1>1. n \in Nat /\ k \in 0 .. n /\ seqs = [i \in 1 .. n |-> seqs[i]]
      /\ \A i \in 1 .. n : seqs[i] \in Seq(S)
  BY LenProperties, ElementOfSeq
<1>2. ASSUME NEW m \in 0 .. n
      PROVE  Leading(seqs, m) \in Seq(Seq(S)) /\ Len(Leading(seqs, m)) = m
             /\ Leading(seqs, m) = [j \in 1 .. m |-> seqs[j]]
  <2>1. Leading(seqs, m) = [j \in 1 .. m |-> seqs[j]] /\ m \in Nat
    BY <1>1 DEF Leading
  <2>2. \A j \in 1 .. m : seqs[j] \in Seq(S)
    BY <1>1
  <2> QED
    BY <2>1, <2>2
<1>3. Leading(seqs, k) \in Seq(Seq(S)) /\ Len(Leading(seqs, k)) = k
  BY <1>1, <1>2
<1>4. FlattenSeq(Leading(seqs, k)) \in Seq(S)
  BY <1>3, FlattenIs
<1>5. k = 0 => FlattenSeq(Leading(seqs, k)) = <<>>
  BY <1>3, EmptySeq DEF FlattenSeq
<1>6. k = n => Leading(seqs, k) = seqs
  BY <1>1, <1>2
<1>7. ASSUME k < n
      PROVE  FlattenSeq(Leading(seqs, k + 1)) = FlattenSeq(Leading(seqs, k)) \o seqs[k + 1]
  <2>1. k + 1 \in 0 .. n /\ k + 1 \in 1 .. n
    BY <1>1, <1>7
  <2>2. seqs[k + 1] \in Seq(S)
    BY <1>1, <2>1
  <2> DEFINE a == Leading(seqs, k)
             b == Leading(seqs, k + 1)
  <2>3. a \in Seq(Seq(S)) /\ Len(a) = k /\ \A j \in 1 .. k : a[j] = seqs[j]
    BY <1>1, <1>2
  <2>4. b \in Seq(Seq(S)) /\ Len(b) = k + 1 /\ \A j \in 1 .. (k + 1) : b[j] = seqs[j]
    BY <2>1, <1>2
  <2> HIDE DEF a, b
  <2>5. /\ Append(a, seqs[k + 1]) \in Seq(Seq(S)) /\ Len(Append(a, seqs[k + 1])) = k + 1
        /\ \A j \in 1 .. k : Append(a, seqs[k + 1])[j] = a[j]
        /\ Append(a, seqs[k + 1])[k + 1] = seqs[k + 1]
    BY <2>2, <2>3, AppendProperties
  <2>6. b = Append(a, seqs[k + 1])
    <3>1. \A j \in 1 .. (k + 1) : b[j] = Append(a, seqs[k + 1])[j]
      <4> SUFFICES ASSUME NEW j \in 1 .. (k + 1) PROVE b[j] = Append(a, seqs[k + 1])[j]
        OBVIOUS
      <4>1. j \in 1 .. k \/ j = k + 1
        BY <1>1
      <4> QED
        BY <4>1, <2>3, <2>4, <2>5
    <3> QED
      BY <2>4, <2>5, <3>1, SeqEqual
  <2> QED
    BY <2>2, <2>3, <2>6, FlattenAppend DEF a, b
<1> QED
  BY <1>3, <1>4, <1>5, <1>6, <1>7

\* What some of the lists come to begins with what fewer of them do.
LEMMA FlattenBegins ==
  ASSUME NEW S, NEW seqs \in Seq(Seq(S)), NEW k \in 0 .. Len(seqs), NEW m \in k .. Len(seqs)
  PROVE  \E t \in Seq(S) : FlattenSeq(Leading(seqs, m)) = FlattenSeq(Leading(seqs, k)) \o t
<1> DEFINE n == Len(seqs)
           F(i) == FlattenSeq(Leading(seqs, i))
           Begins(i) == i >= k => \E t \in Seq(S) : F(i) = F(k) \o t
           T == {i \in 0 .. n : Begins(i)}
<1>1. n \in Nat /\ k \in 0 .. n /\ m \in k .. n /\ \A i \in 1 .. n : seqs[i] \in Seq(S)
  BY LenProperties, ElementOfSeq
<1>2. \A i \in 0 .. n : F(i) \in Seq(S) /\ (i < n => F(i + 1) = F(i) \o seqs[i + 1])
  BY FlattenUpTo
<1> HIDE DEF n, F
<1>3. Begins(k)
  <2>1. F(k) \in Seq(S)
    BY <1>1, <1>2
  <2>2. F(k) \o <<>> = F(k) /\ <<>> \in Seq(S)
    BY <2>1, ConcatEmptySeq, EmptySeq
  <2> QED
    BY <2>2
<1>4. 0 \in T
  <2>1. 0 \in 0 .. n /\ (0 >= k => 0 = k)
    BY <1>1
  <2> QED
    BY <2>1, <1>3
<1>5. ASSUME NEW i \in 0 .. (n - 1), i \in T PROVE i + 1 \in T
  <2>1. i + 1 \in 0 .. n /\ i \in 0 .. n /\ i < n /\ i + 1 \in 1 .. n
    BY <1>1
  <2>2. CASE i + 1 > k
    <3>1. i >= k
      BY <1>1, <2>2
    <3>2. PICK t \in Seq(S) : F(i) = F(k) \o t
      BY <1>5, <3>1
    <3>3. F(i + 1) = (F(k) \o t) \o seqs[i + 1]
      BY <1>2, <2>1, <3>2
    <3>4. F(k) \in Seq(S) /\ seqs[i + 1] \in Seq(S)
      BY <1>1, <1>2, <2>1
    <3> DEFINE x == seqs[i + 1]
               a == F(k)
    <3>5. t \in Seq(S) /\ x \in Seq(S) /\ a \in Seq(S)
      BY <3>4
    <3> HIDE DEF x, a
    <3>6. (a \o t) \o x = a \o (t \o x)
      BY <3>5, ConcatAssociative
    <3>7. t \o x \in Seq(S)
      BY <3>5, ConcatProperties
    <3>8. Begins(i + 1)
      BY <3>3, <3>6, <3>7 DEF x, a
    <3> QED
      BY <2>1, <3>8
  <2>3. CASE i + 1 = k
    BY <2>1, <2>3, <1>3
  <2>4. CASE i + 1 < k
    BY <1>1, <2>1, <2>4
  <2>5. i + 1 > k \/ i + 1 = k \/ i + 1 < k
    BY <1>1, <2>1
  <2> QED
    BY <2>2, <2>3, <2>4, <2>5
<1> HIDE DEF T
<1>6. \A i \in 0 .. n : i \in T
  BY <1>1, <1>4, <1>5, CountingUp
<1>7. m \in 0 .. n /\ m >= k
  BY <1>1
<1>8. Begins(m)
  BY <1>6, <1>7 DEF T
<1> QED
  BY <1>7, <1>8 DEF F

\* Sums over the first k.
LEMMA SumUpTo ==
  ASSUME NEW n \in Nat, NEW v, \A j \in 1 .. n : v[j] \in Nat, NEW k \in 0 .. n
  PROVE  /\ SumFunction([j \in 1 .. k |-> v[j]]) = SumFunctionOnSet(v, 1 .. k)
         /\ SumFunctionOnSet(v, 1 .. k) \in Nat
         /\ k = 0 => SumFunctionOnSet(v, 1 .. k) = 0
         /\ k < n => SumFunctionOnSet(v, 1 .. (k + 1)) = SumFunctionOnSet(v, 1 .. k) + v[k + 1]
         /\ \A m \in 0 .. k : SumFunctionOnSet(v, 1 .. m) <= SumFunctionOnSet(v, 1 .. k)
<1>1. IsFiniteSet(1 .. k) /\ IsFiniteSet(1 .. (k + 1)) /\ \A j \in 1 .. k : v[j] \in Nat
  BY FS_Interval
<1>2. SumFunction([j \in 1 .. k |-> v[j]]) = SumFunctionOnSet(v, 1 .. k)
  <2> DEFINE f == [j \in 1 .. k |-> v[j]]
  <2>1. DOMAIN f = 1 .. k /\ \A j \in 1 .. k : f[j] = v[j]
    OBVIOUS
  <2> HIDE DEF f
  <2>2. SumFunction(f) = SumFunctionOnSet(f, 1 .. k)
    BY <2>1 DEF SumFunction
  <2> QED
    BY <1>1, <2>1, <2>2, SumSame DEF f
<1>3. SumFunctionOnSet(v, 1 .. k) \in Nat
  BY <1>1, SumNat
<1>4. k = 0 => SumFunctionOnSet(v, 1 .. k) = 0
  <2>1. k = 0 => 1 .. k = {}
    OBVIOUS
  <2> QED
    BY <2>1, FS_EmptySet, SumUnfolds
<1>5. ASSUME k < n
      PROVE  SumFunctionOnSet(v, 1 .. (k + 1)) = SumFunctionOnSet(v, 1 .. k) + v[k + 1]
  <2>1. k + 1 \in 1 .. (k + 1) /\ (1 .. (k + 1)) \ {k + 1} = 1 .. k
        /\ \A j \in 1 .. (k + 1) : v[j] \in Nat
    BY <1>5
  <2>2. SumFunctionOnSet(v, 1 .. (k + 1)) = v[k + 1] + SumFunctionOnSet(v, (1 .. (k + 1)) \ {k + 1})
    BY <1>1, <2>1, SumTakeOut
  <2>3. v[k + 1] \in Nat
    BY <2>1
  <2> DEFINE a == SumFunctionOnSet(v, 1 .. k)
             b == v[k + 1]
             c == SumFunctionOnSet(v, 1 .. (k + 1))
  <2>4. c = b + a /\ a \in Nat /\ b \in Nat
    BY <2>1, <2>2, <2>3, <1>3
  <2> HIDE DEF a, b, c
  <2>5. c = a + b
    BY <2>4
  <2> QED
    BY <2>5 DEF a, b, c
<1>6. ASSUME NEW m \in 0 .. k
      PROVE  SumFunctionOnSet(v, 1 .. m) <= SumFunctionOnSet(v, 1 .. k)
  <2>1. 1 .. m \in SUBSET (1 .. k) /\ \A j \in 1 .. m : v[j] \in Nat /\ v[j] <= v[j]
    BY <1>1
  <2> QED
    BY <1>1, <2>1, SumGrows
<1> QED
  BY <1>2, <1>3, <1>4, <1>5, <1>6

\* As many as the lists have together.
LEMMA FlattenLength ==
  ASSUME NEW S, NEW seqs \in Seq(Seq(S)), NEW k \in 0 .. Len(seqs)
  PROVE  Len(FlattenSeq(Leading(seqs, k))) = SumFunctionOnSet([j \in 1 .. Len(seqs) |-> Len(seqs[j])], 1 .. k)
<1> DEFINE n == Len(seqs)
           F(i) == FlattenSeq(Leading(seqs, i))
           v == [j \in 1 .. n |-> Len(seqs[j])]
           T == {i \in 0 .. n : Len(F(i)) = SumFunctionOnSet(v, 1 .. i)}
<1>1. n \in Nat /\ k \in 0 .. n /\ \A i \in 1 .. n : seqs[i] \in Seq(S) /\ Len(seqs[i]) \in Nat
  BY LenProperties, ElementOfSeq
<1>2. /\ F(0) = <<>>
      /\ \A i \in 0 .. n : F(i) \in Seq(S) /\ (i < n => F(i + 1) = F(i) \o seqs[i + 1])
  <2>1. 0 \in 0 .. Len(seqs)
    BY <1>1
  <2> QED
    BY <2>1, FlattenUpTo
<1>3. \A j \in 1 .. n : v[j] = Len(seqs[j]) /\ v[j] \in Nat
  BY <1>1
<1> HIDE DEF n, F, v
<1>4. 0 \in T
  <2>1. Len(F(0)) = 0 /\ 0 \in 0 .. n
    BY <1>1, <1>2, EmptySeq
  <2>2. SumFunctionOnSet(v, 1 .. 0) = 0
    <3>1. 1 .. 0 = {}
      OBVIOUS
    <3> QED
      BY <3>1, FS_EmptySet, SumUnfolds
  <2> QED
    BY <2>1, <2>2
<1>5. ASSUME NEW i \in 0 .. (n - 1), i \in T PROVE i + 1 \in T
  <2>1. i + 1 \in 0 .. n /\ i \in 0 .. n /\ i < n /\ i + 1 \in 1 .. n
    BY <1>1
  <2>2. F(i + 1) = F(i) \o seqs[i + 1] /\ F(i) \in Seq(S) /\ seqs[i + 1] \in Seq(S)
    BY <1>1, <1>2, <2>1
  <2>3. Len(F(i + 1)) = Len(F(i)) + Len(seqs[i + 1])
    BY <2>2, ConcatProperties
  <2>4. SumFunctionOnSet(v, 1 .. (i + 1)) = SumFunctionOnSet(v, 1 .. i) + v[i + 1]
    BY <1>1, <1>3, <2>1, SumUpTo
  <2> QED
    BY <1>3, <1>5, <2>1, <2>3, <2>4
<1> HIDE DEF T
<1>6. \A i \in 0 .. n : i \in T
  BY <1>1, <1>4, <1>5, CountingUp
<1> QED
  BY <1>1, <1>6 DEF T, F, v, n

-----------------------------------------------------------------------------
(* Lists in order.                                                         *)

\* Any two elements of s, the earlier first, are a pair of R.
OrderedBy(s, R) == \A i, j \in 1 .. Len(s) : i < j => <<s[i], s[j]>> \in R

\* Any element of s and any of t are.
AllBefore(s, t, R) == \A i \in 1 .. Len(s) : \A j \in 1 .. Len(t) : <<s[i], t[j]>> \in R

LEMMA ConcatInOrder ==
  ASSUME NEW S, NEW s \in Seq(S), NEW t \in Seq(S), NEW R,
         OrderedBy(s, R), OrderedBy(t, R), AllBefore(s, t, R)
  PROVE  OrderedBy(s \o t, R)
<1> DEFINE st == s \o t
           a == Len(s)
           b == Len(t)
<1>1. /\ a \in Nat /\ b \in Nat /\ Len(st) = a + b
      /\ \A x \in 1 .. a : st[x] = s[x]
      /\ \A x \in 1 .. Len(st) : ~ x <= a => x - a \in 1 .. b /\ st[x] = t[x - a]
  BY ConcatPlaces
<1>2. /\ \A i, j \in 1 .. a : i < j => <<s[i], s[j]>> \in R
      /\ \A i, j \in 1 .. b : i < j => <<t[i], t[j]>> \in R
      /\ \A i \in 1 .. a : \A j \in 1 .. b : <<s[i], t[j]>> \in R
  BY DEF OrderedBy, AllBefore
<1> HIDE DEF st, a, b
<1>3. ASSUME NEW i \in 1 .. Len(st), NEW j \in 1 .. Len(st), i < j
      PROVE  <<st[i], st[j]>> \in R
  <2>1. CASE j <= a
    <3>1. i \in 1 .. a /\ j \in 1 .. a
      BY <1>1, <1>3, <2>1
    <3> QED
      BY <1>1, <1>2, <1>3, <3>1
  <2>2. CASE ~ j <= a /\ i <= a
    <3>1. i \in 1 .. a /\ j - a \in 1 .. b /\ st[i] = s[i] /\ st[j] = t[j - a]
      BY <1>1, <1>3, <2>2
    <3> QED
      BY <1>2, <3>1
  <2>3. CASE ~ j <= a /\ ~ i <= a
    <3>1. i - a \in 1 .. b /\ j - a \in 1 .. b /\ st[i] = t[i - a] /\ st[j] = t[j - a]
      BY <1>1, <2>3
    <3>2. i - a < j - a
      BY <1>1, <1>3
    <3> QED
      BY <1>2, <3>1, <3>2
  <2> QED
    BY <1>1, <2>1, <2>2, <2>3
<1> QED
  BY <1>3 DEF OrderedBy, st

\* Lists in order, each before the next ones, come to a list in order.
LEMMA FlattenInOrder ==
  ASSUME NEW S, NEW seqs \in Seq(Seq(S)), NEW R,
         \A i \in 1 .. Len(seqs) : OrderedBy(seqs[i], R),
         \A i, j \in 1 .. Len(seqs) : i < j => AllBefore(seqs[i], seqs[j], R)
  PROVE  OrderedBy(FlattenSeq(seqs), R)
<1> DEFINE n == Len(seqs)
           F(i) == FlattenSeq(Leading(seqs, i))
           Good(k) == /\ OrderedBy(F(k), R)
                      /\ \A m \in (k + 1) .. n : AllBefore(F(k), seqs[m], R)
           T == {k \in 0 .. n : Good(k)}
<1>1. n \in Nat /\ \A i \in 1 .. n : seqs[i] \in Seq(S)
  BY LenProperties, ElementOfSeq
<1>2. /\ F(0) = <<>>
      /\ \A i \in 0 .. n : F(i) \in Seq(S) /\ (i < n => F(i + 1) = F(i) \o seqs[i + 1])
      /\ F(n) = FlattenSeq(seqs)
  <2>1. 0 \in 0 .. Len(seqs) /\ n \in 0 .. Len(seqs)
    BY <1>1
  <2>2. F(0) = <<>>
    BY <2>1, FlattenUpTo
  <2>3. F(n) = FlattenSeq(seqs)
    BY <2>1, FlattenUpTo
  <2>4. \A i \in 0 .. n : F(i) \in Seq(S) /\ (i < n => F(i + 1) = F(i) \o seqs[i + 1])
    BY FlattenUpTo
  <2> QED
    BY <2>2, <2>3, <2>4
<1>3. /\ \A i \in 1 .. n : OrderedBy(seqs[i], R)
      /\ \A i, j \in 1 .. n : i < j => AllBefore(seqs[i], seqs[j], R)
  OBVIOUS
<1> HIDE DEF n, F
<1>4. 0 \in T
  <2>1. Len(F(0)) = 0 /\ 0 \in 0 .. n
    BY <1>1, <1>2, EmptySeq
  <2> QED
    BY <2>1 DEF OrderedBy, AllBefore
<1>5. ASSUME NEW k \in 0 .. (n - 1), k \in T PROVE k + 1 \in T
  <2>1. k + 1 \in 0 .. n /\ k \in 0 .. n /\ k < n /\ k + 1 \in 1 .. n /\ k + 1 \in (k + 1) .. n
    BY <1>1
  <2>2. F(k + 1) = F(k) \o seqs[k + 1] /\ F(k) \in Seq(S) /\ seqs[k + 1] \in Seq(S)
    BY <1>1, <1>2, <2>1
  <2>3. OrderedBy(F(k), R) /\ \A m \in (k + 1) .. n : AllBefore(F(k), seqs[m], R)
    BY <1>5
  <2>4. OrderedBy(F(k + 1), R)
    BY <1>3, <2>1, <2>2, <2>3, ConcatInOrder
  <2>5. ASSUME NEW m \in (k + 2) .. n PROVE AllBefore(F(k + 1), seqs[m], R)
    <3>1. m \in (k + 1) .. n /\ m \in 1 .. n /\ k + 1 < m
      BY <1>1, <2>1
    <3>2. AllBefore(F(k), seqs[m], R) /\ AllBefore(seqs[k + 1], seqs[m], R)
      BY <1>3, <2>1, <2>3, <3>1
    <3> DEFINE a == F(k)
               b == seqs[k + 1]
               c == seqs[m]
    <3>3. a \in Seq(S) /\ b \in Seq(S) /\ AllBefore(a, c, R) /\ AllBefore(b, c, R)
      BY <2>2, <3>2
    <3> HIDE DEF a, b, c
    <3>4. ASSUME NEW x \in 1 .. Len(a \o b), NEW y \in 1 .. Len(c)
          PROVE  <<(a \o b)[x], c[y]>> \in R
      <4>1. /\ Len(a) \in Nat /\ x <= Len(a) => (a \o b)[x] = a[x] /\ x \in 1 .. Len(a)
            /\ ~ x <= Len(a) => x - Len(a) \in 1 .. Len(b) /\ (a \o b)[x] = b[x - Len(a)]
        BY <3>3, ConcatPlaces
      <4>2. CASE x <= Len(a)
        BY <4>1, <4>2, <3>3 DEF AllBefore
      <4>3. CASE ~ x <= Len(a)
        BY <4>1, <4>3, <3>3 DEF AllBefore
      <4> QED
        BY <4>2, <4>3
    <3>5. AllBefore(a \o b, c, R)
      BY <3>4 DEF AllBefore
    <3> QED
      BY <2>2, <3>5 DEF a, b, c
  <2>6. (k + 1) + 1 = k + 2
    BY <1>1
  <2> QED
    BY <2>1, <2>4, <2>5, <2>6
<1> HIDE DEF T
<1>6. n \in T
  <2>1. \A k \in 0 .. n : k \in T
    BY <1>1, <1>4, <1>5, CountingUp
  <2> QED
    BY <1>1, <2>1
<1> QED
  BY <1>2, <1>6 DEF T

\* The lists of two lists of them, one after the other.
LEMMA FlattenConcat ==
  ASSUME NEW S, NEW a \in Seq(Seq(S)), NEW b \in Seq(Seq(S))
  PROVE  FlattenSeq(a \o b) = FlattenSeq(a) \o FlattenSeq(b)
<1> DEFINE n == Len(b)
           F(i) == FlattenSeq(Leading(b, i))
           G(i) == FlattenSeq(a \o Leading(b, i))
           T == {i \in 0 .. n : G(i) = FlattenSeq(a) \o F(i)}
<1>1. n \in Nat /\ \A i \in 1 .. n : b[i] \in Seq(S)
  BY LenProperties, ElementOfSeq
<1>2. /\ F(0) = <<>>
      /\ \A i \in 0 .. n : F(i) \in Seq(S) /\ (i < n => F(i + 1) = F(i) \o b[i + 1])
      /\ Leading(b, n) = b /\ Leading(b, 0) = <<>>
  <2>1. 0 \in 0 .. Len(b) /\ n \in 0 .. Len(b)
    BY <1>1
  <2>2. Len(Leading(b, 0)) = 0 /\ Leading(b, 0) \in Seq(Seq(S))
    BY <2>1, FlattenUpTo
  <2> QED
    BY <2>1, <2>2, EmptySeq, FlattenUpTo
<1>3. FlattenSeq(a) \in Seq(S)
  BY FlattenIs
<1>4. ASSUME NEW i \in 0 .. (n - 1)
      PROVE  G(i + 1) = G(i) \o b[i + 1]
  <2>1. i \in 0 .. Len(b) /\ i + 1 \in 0 .. Len(b) /\ i + 1 \in 1 .. n
    BY <1>1
  <2> DEFINE u == Leading(b, i)
             w == Leading(b, i + 1)
             x == b[i + 1]
  <2>2. /\ u \in Seq(Seq(S)) /\ Len(u) = i /\ \A j \in 1 .. i : u[j] = b[j]
        /\ w \in Seq(Seq(S)) /\ Len(w) = i + 1 /\ \A j \in 1 .. (i + 1) : w[j] = b[j]
        /\ x \in Seq(S)
    <3>1. /\ u \in Seq(Seq(S)) /\ Len(u) = i /\ w \in Seq(Seq(S)) /\ Len(w) = i + 1
      BY <2>1, FlattenUpTo
    <3>2. /\ \A j \in 1 .. i : u[j] = b[j]
          /\ \A j \in 1 .. (i + 1) : w[j] = b[j]
      BY DEF Leading
    <3> QED
      BY <1>1, <2>1, <3>1, <3>2
  <2>3. x = b[i + 1]
    OBVIOUS
  <2> HIDE DEF u, w, x
  <2>4. w = Append(u, x)
    <3>1. /\ Append(u, x) \in Seq(Seq(S)) /\ Len(Append(u, x)) = i + 1
          /\ \A j \in 1 .. i : Append(u, x)[j] = u[j]
          /\ Append(u, x)[i + 1] = x
      BY <2>2, AppendProperties
    <3>2. \A j \in 1 .. (i + 1) : w[j] = Append(u, x)[j]
      <4> SUFFICES ASSUME NEW j \in 1 .. (i + 1) PROVE w[j] = Append(u, x)[j]
        OBVIOUS
      <4>1. j \in 1 .. i \/ j = i + 1
        BY <1>1
      <4> QED
        BY <4>1, <2>2, <2>3, <3>1
    <3> QED
      BY <2>2, <3>1, <3>2, SeqEqual
  <2>5. w = u \o <<x>> /\ <<x>> \in Seq(Seq(S))
    BY <2>2, <2>4, AppendIsConcat
  <2>6. a \o w = (a \o u) \o <<x>>
    <3> DEFINE y == <<x>>
               Z == Seq(S)
    <3>1. y \in Seq(Z) /\ w = u \o y /\ a \in Seq(Z) /\ u \in Seq(Z)
      BY <2>2, <2>5
    <3> HIDE DEF y, Z
    <3>2. \A p, q, r \in Seq(Z) : (p \o q) \o r = p \o (q \o r)
      BY ConcatAssociative
    <3>3. (a \o u) \o y = a \o (u \o y)
      BY <3>1, <3>2, Zenon
    <3> QED
      BY <3>1, <3>3 DEF y
  <2>7. a \o u \in Seq(Seq(S))
    BY <2>2, ConcatProperties
  <2>8. (a \o u) \o <<x>> = Append(a \o u, x)
    BY <2>2, <2>7, AppendIsConcat
  <2>9. FlattenSeq(a \o w) = FlattenSeq(a \o u) \o x
    BY <2>2, <2>6, <2>7, <2>8, FlattenAppend
  <2> QED
    BY <2>9 DEF u, w, x
<1>5. G(0) = FlattenSeq(a)
  BY <1>2, ConcatEmptySeq
<1>6. G(n) = FlattenSeq(a \o b) /\ F(n) = FlattenSeq(b)
  BY <1>2
<1> HIDE DEF F, G, n
<1>7. 0 \in T
  BY <1>1, <1>2, <1>3, <1>5, ConcatEmptySeq
<1>8. ASSUME NEW i \in 0 .. (n - 1), i \in T PROVE i + 1 \in T
  <2>1. i + 1 \in 0 .. n /\ i \in 0 .. n /\ i < n /\ i + 1 \in 1 .. n
    BY <1>1
  <2> DEFINE u == FlattenSeq(a)
             w == F(i)
             x == b[i + 1]
  <2>2. u \in Seq(S) /\ w \in Seq(S) /\ x \in Seq(S)
    BY <1>1, <1>2, <1>3, <2>1
  <2>3. G(i + 1) = (u \o w) \o x
    BY <1>4, <1>8
  <2>4. F(i + 1) = w \o x
    BY <1>2, <2>1
  <2> HIDE DEF u, w, x
  <2>5. (u \o w) \o x = u \o (w \o x)
    BY <2>2, ConcatAssociative
  <2>6. G(i + 1) = u \o F(i + 1)
    BY <2>3, <2>4, <2>5
  <2> QED
    BY <2>1, <2>6 DEF u
<1> HIDE DEF T
<1>9. n \in T
  <2>1. \A i \in 0 .. n : i \in T
    BY <1>1, <1>7, <1>8, CountingUp
  <2> QED
    BY <1>1, <2>1
<1> QED
  BY <1>6, <1>9 DEF T

\* What f makes of each of s.
Each(f, s) == [i \in 1 .. Len(s) |-> f[s[i]]]

LEMMA EachIs ==
  ASSUME NEW A, NEW B, NEW f, \A x \in A : f[x] \in B, NEW s \in Seq(A)
  PROVE  /\ Each(f, s) \in Seq(B) /\ Len(Each(f, s)) = Len(s)
         /\ \A i \in 1 .. Len(s) : Each(f, s)[i] = f[s[i]]
<1>1. Len(s) \in Nat /\ \A i \in 1 .. Len(s) : s[i] \in A
  BY LenProperties, ElementOfSeq
<1>2. Each(f, s) = [i \in 1 .. Len(s) |-> f[s[i]]]
  BY DEF Each
<1> QED
  BY <1>1, <1>2

LEMMA EachConcat ==
  ASSUME NEW A, NEW f, NEW s \in Seq(A), NEW t \in Seq(A)
  PROVE  Each(f, s \o t) = Each(f, s) \o Each(f, t)
<1> DEFINE B == {f[x] : x \in A}
<1>0. \A x \in A : f[x] \in B
  OBVIOUS
<1> HIDE DEF B
<1>1. ASSUME NEW u \in Seq(A)
      PROVE  /\ Each(f, u) \in Seq(B) /\ Len(Each(f, u)) = Len(u)
             /\ \A i \in 1 .. Len(u) : Each(f, u)[i] = f[u[i]]
  <2>1. Len(u) \in Nat /\ \A i \in 1 .. Len(u) : u[i] \in A
    BY LenProperties, ElementOfSeq
  <2>2. Each(f, u) = [i \in 1 .. Len(u) |-> f[u[i]]]
    BY DEF Each
  <2> QED
    BY <1>0, <2>1, <2>2
<1> DEFINE st == s \o t
           l == Each(f, st)
           a == Each(f, s)
           b == Each(f, t)
<1>2. /\ st \in Seq(A) /\ Len(s) \in Nat /\ Len(t) \in Nat /\ Len(st) = Len(s) + Len(t)
      /\ \A x \in 1 .. Len(s) : st[x] = s[x] /\ x \in 1 .. Len(st)
      /\ \A x \in 1 .. Len(st) : ~ x <= Len(s) =>
           x - Len(s) \in 1 .. Len(t) /\ st[x] = t[x - Len(s)]
  BY ConcatPlaces
<1>3. /\ l \in Seq(B) /\ Len(l) = Len(st) /\ \A i \in 1 .. Len(st) : l[i] = f[st[i]]
      /\ a \in Seq(B) /\ Len(a) = Len(s) /\ \A i \in 1 .. Len(s) : a[i] = f[s[i]]
      /\ b \in Seq(B) /\ Len(b) = Len(t) /\ \A i \in 1 .. Len(t) : b[i] = f[t[i]]
  BY <1>1, <1>2
<1> HIDE DEF st, l, a, b
<1>4. /\ a \o b \in Seq(B) /\ Len(a \o b) = Len(s) + Len(t)
      /\ \A x \in 1 .. Len(s) : (a \o b)[x] = a[x]
      /\ \A x \in 1 .. Len(a \o b) : ~ x <= Len(s) => (a \o b)[x] = b[x - Len(s)]
  <2>1. /\ a \o b \in Seq(B) /\ Len(a \o b) = Len(a) + Len(b)
        /\ \A x \in 1 .. Len(a) : (a \o b)[x] = a[x]
        /\ \A x \in 1 .. Len(a \o b) : ~ x <= Len(a) => (a \o b)[x] = b[x - Len(a)]
    <3>1. a \in Seq(B) /\ b \in Seq(B)
      BY <1>3
    <3> QED
      BY <3>1, ConcatPlaces
  <2> QED
    BY <1>3, <2>1
<1>5. ASSUME NEW x \in 1 .. Len(st) PROVE l[x] = (a \o b)[x]
  <2>1. CASE x <= Len(s)
    BY <1>2, <1>3, <1>4, <2>1
  <2>2. CASE ~ x <= Len(s)
    <3>1. x - Len(s) \in 1 .. Len(t) /\ st[x] = t[x - Len(s)] /\ l[x] = f[st[x]]
      BY <1>2, <1>3, <2>2
    <3>2. b[x - Len(s)] = f[t[x - Len(s)]]
      BY <1>3, <3>1
    <3>3. x \in 1 .. Len(a \o b)
      BY <1>2, <1>4
    <3>4. (a \o b)[x] = b[x - Len(s)]
      BY <1>4, <2>2, <3>3
    <3> QED
      BY <3>1, <3>2, <3>4
  <2> QED
    BY <2>1, <2>2
<1>6. l = a \o b
  BY <1>2, <1>3, <1>4, <1>5, SeqEqual
<1> QED
  BY <1>6 DEF st, l, a, b

\* Lists of what a list of lists comes to are lists of each of those, one after the other.
LEMMA FlattenEach ==
  ASSUME NEW A, NEW S, NEW f \in [A -> Seq(S)], NEW seqs \in Seq(Seq(A))
  PROVE  FlattenSeq(Each(f, FlattenSeq(seqs)))
           = FlattenSeq([i \in 1 .. Len(seqs) |-> FlattenSeq(Each(f, seqs[i]))])
<1> DEFINE n == Len(seqs)
           inner == [i \in 1 .. n |-> FlattenSeq(Each(f, seqs[i]))]
           G(i) == FlattenSeq(Leading(seqs, i))
           H(i) == FlattenSeq(Leading(inner, i))
           T == {i \in 0 .. n : FlattenSeq(Each(f, G(i))) = H(i)}
<1>1. n \in Nat /\ \A i \in 1 .. n : seqs[i] \in Seq(A)
  BY LenProperties, ElementOfSeq
<1>2. inner \in Seq(Seq(S)) /\ Len(inner) = n
      /\ \A i \in 1 .. n : inner[i] = FlattenSeq(Each(f, seqs[i]))
  <2>1. \A i \in 1 .. n : FlattenSeq(Each(f, seqs[i])) \in Seq(S)
    BY <1>1, EachIs, FlattenIs
  <2> QED
    BY <1>1, <2>1
<1>3. /\ G(0) = <<>> /\ G(n) = FlattenSeq(seqs)
      /\ \A i \in 0 .. n : G(i) \in Seq(A) /\ (i < n => G(i + 1) = G(i) \o seqs[i + 1])
  <2>1. 0 \in 0 .. Len(seqs) /\ n \in 0 .. Len(seqs)
    BY <1>1
  <2> QED
    BY <2>1, FlattenUpTo
<1> HIDE DEF inner
<1>4. /\ H(0) = <<>> /\ H(n) = FlattenSeq(inner)
      /\ \A i \in 0 .. n : i < n => H(i + 1) = H(i) \o inner[i + 1]
  <2>1. 0 \in 0 .. Len(inner) /\ n \in 0 .. Len(inner) /\ Len(inner) = n
    BY <1>1, <1>2
  <2>2. H(0) = <<>>
    BY <1>2, <2>1, FlattenUpTo
  <2>3. H(n) = FlattenSeq(inner)
    BY <1>2, <2>1, FlattenUpTo
  <2>4. ASSUME NEW i \in 0 .. n, i < n PROVE H(i + 1) = H(i) \o inner[i + 1]
    <3>1. i \in 0 .. Len(inner) /\ i < Len(inner)
      BY <2>1, <2>4
    <3> QED
      BY <1>2, <3>1, FlattenUpTo
  <2> QED
    BY <2>2, <2>3, <2>4
<1> HIDE DEF n, G, H
<1>5. 0 \in T
  <2>1. Each(f, <<>>) = <<>>
    BY EmptySeq DEF Each
  <2>2. FlattenSeq(<<>>) = <<>>
    BY EmptySeq DEF FlattenSeq
  <2> QED
    BY <1>1, <1>3, <1>4, <2>1, <2>2
<1>6. ASSUME NEW i \in 0 .. (n - 1), i \in T PROVE i + 1 \in T
  <2>1. i + 1 \in 0 .. n /\ i \in 0 .. n /\ i < n /\ i + 1 \in 1 .. n
    BY <1>1
  <2> DEFINE u == G(i)
             x == seqs[i + 1]
  <2>2. u \in Seq(A) /\ x \in Seq(A) /\ G(i + 1) = u \o x
    BY <1>1, <1>3, <2>1
  <2>3. FlattenSeq(Each(f, u)) = H(i)
    BY <1>6
  <2>4. H(i + 1) = H(i) \o FlattenSeq(Each(f, x))
    BY <1>2, <1>4, <2>1
  <2> HIDE DEF u, x
  <2>5. /\ Each(f, u \o x) = Each(f, u) \o Each(f, x)
        /\ Each(f, u) \in Seq(Seq(S)) /\ Each(f, x) \in Seq(Seq(S))
    <3>1. \A y \in A : f[y] \in Seq(S)
      OBVIOUS
    <3>2. Each(f, u \o x) = Each(f, u) \o Each(f, x)
      BY <2>2, EachConcat
    <3> DEFINE B == Seq(S)
    <3>3. \A y \in A : f[y] \in B
      BY <3>1
    <3> HIDE DEF B
    <3>4. Each(f, u) \in Seq(B) /\ Each(f, x) \in Seq(B)
      BY <2>2, <3>3, EachIs
    <3> QED
      BY <3>2, <3>4 DEF B
  <2>6. FlattenSeq(Each(f, u \o x)) = FlattenSeq(Each(f, u)) \o FlattenSeq(Each(f, x))
    BY <2>5, FlattenConcat
  <2>7. FlattenSeq(Each(f, G(i + 1))) = H(i + 1)
    BY <2>2, <2>3, <2>4, <2>6
  <2> QED
    BY <2>1, <2>7
<1> HIDE DEF T
<1>7. n \in T
  <2>1. \A i \in 0 .. n : i \in T
    BY <1>1, <1>5, <1>6, CountingUp
  <2> QED
    BY <1>1, <2>1
<1> QED
  BY <1>3, <1>4, <1>7 DEF T, n, inner
\* Added up in whatever order, those taken come to what they come to.
LEMMA SumTaken ==
  ASSUME NEW n \in Nat, NEW v, \A j \in 1 .. n : v[j] \in Nat,
         NEW t \in Seq(1 .. n), Distinct(t), NEW k \in 0 .. Len(t)
  PROVE  SumFunctionOnSet([j \in 1 .. Len(t) |-> v[t[j]]], 1 .. k)
           = SumFunctionOnSet(v, {t[j] : j \in 1 .. k})
<1> DEFINE m == Len(t)
           w == [j \in 1 .. m |-> v[t[j]]]
           R(i) == {t[j] : j \in 1 .. i}
           Good(i) == SumFunctionOnSet(w, 1 .. i) = SumFunctionOnSet(v, R(i))
           T == {i \in 0 .. m : Good(i)}
<1>1. m \in Nat /\ \A j \in 1 .. m : t[j] \in 1 .. n /\ v[t[j]] \in Nat /\ w[j] = v[t[j]]
  BY LenProperties, ElementOfSeq
<1>2. \A i, j \in 1 .. m : t[i] = t[j] => i = j
  BY DEF Distinct
<1>3. k \in 0 .. m
  OBVIOUS
<1> HIDE DEF m, w
<1>4. 0 \in T
  <2>1. 1 .. 0 = {} /\ R(0) = {}
    OBVIOUS
  <2>2. SumFunctionOnSet(w, {}) = 0 /\ SumFunctionOnSet(v, {}) = 0
    BY FS_EmptySet, SumUnfolds
  <2>3. Good(0)
    BY <2>1, <2>2
  <2> QED
    BY <1>1, <2>3
<1>5. ASSUME NEW i \in 0 .. (m - 1), i \in T PROVE i + 1 \in T
  <2>1. i + 1 \in 0 .. m /\ i + 1 \in 1 .. m /\ \A j \in 1 .. (i + 1) : j \in 1 .. m
    BY <1>1
  <2>2. SumFunctionOnSet(w, 1 .. (i + 1)) = SumFunctionOnSet(w, 1 .. i) + w[i + 1]
    <3>1. \A j \in 1 .. m : w[j] \in Nat
      BY <1>1
    <3>2. i \in 0 .. m /\ i < m
      BY <1>1
    <3>3. m \in Nat
      BY <1>1
    <3> HIDE DEF R, Good
    <3>4. i < m => SumFunctionOnSet(w, 1 .. (i + 1)) = SumFunctionOnSet(w, 1 .. i) + w[i + 1]
      BY <3>1, <3>2, <3>3, SumUpTo
    <3> QED
      BY <3>2, <3>4
  <2> DEFINE A == R(i + 1)
             x == t[i + 1]
  <2>3. x \in A /\ A \ {x} = R(i)
    <3>1. \A j \in 1 .. i : t[j] # x
      BY <1>1, <1>2, <2>1
    <3>2. \A j \in 1 .. (i + 1) : j = i + 1 \/ j \in 1 .. i
      BY <1>1
    <3>3. \A j \in 1 .. i : j \in 1 .. (i + 1)
      BY <1>1
    <3>4. i + 1 \in 1 .. (i + 1)
      BY <1>1
    <3> QED
      BY <3>1, <3>2, <3>3, <3>4
  <2>4. IsFiniteSet(A) /\ \A y \in A : v[y] \in Nat
    <3>1. IsFiniteSet(1 .. (i + 1))
      BY FS_Interval
    <3>2. IsFiniteSet(A)
      BY <3>1, ImageFinite
    <3> QED
      BY <1>1, <2>1, <3>2
  <2> HIDE DEF A
  <2>5. SumFunctionOnSet(v, A) = v[x] + SumFunctionOnSet(v, A \ {x})
    BY <2>3, <2>4, SumTakeOut
  <2>6. SumFunctionOnSet(v, R(i)) \in Nat /\ v[x] \in Nat
    <3>1. IsFiniteSet(A \ {x}) /\ \A y \in A \ {x} : v[y] \in Nat
      BY <2>4, FS_Difference
    <3>2. SumFunctionOnSet(v, A \ {x}) \in Nat
      BY <3>1, SumNat
    <3> QED
      BY <2>3, <2>4, <3>2
  <2> DEFINE p == SumFunctionOnSet(w, 1 .. i)
             q == SumFunctionOnSet(v, R(i))
             c == v[x]
  <2>7. p = q /\ q \in Nat /\ c \in Nat
    BY <1>5, <2>6
  <2>8. SumFunctionOnSet(w, 1 .. (i + 1)) = p + c /\ SumFunctionOnSet(v, A) = c + q
    BY <1>1, <2>1, <2>2, <2>3, <2>5
  <2> HIDE DEF p, q, c
  <2>9. p + c = c + q
    BY <2>7
  <2>10. Good(i + 1)
    BY <2>8, <2>9 DEF A
  <2> QED
    BY <2>1, <2>10
<1> HIDE DEF T
<1>6. k \in T
  BY <1>1, <1>3, <1>4, <1>5, CountingUp
<1>7. Good(k)
  BY <1>6 DEF T
<1> QED
  BY <1>7 DEF w, m

-----------------------------------------------------------------------------
(* A finite set in order.                                                  *)

\* R orders the elements of S, none before itself.
Orders(R, S) ==
  /\ \A x \in S : <<x, x>> \notin R
  /\ \A x, y, z \in S : <<x, y>> \in R /\ <<y, z>> \in R => <<x, z>> \in R
  /\ \A x, y \in S : x = y \/ <<x, y>> \in R \/ <<y, x>> \in R

Lower(S, R, x) == {y \in S : <<y, x>> \in R}

Rank(S, R, x) == Cardinality(Lower(S, R, x))

\* The elements of S by how many come before each.
InOrder(S, R) == [r \in 1 .. Cardinality(S) |-> CHOOSE x \in S : Rank(S, R, x) = r - 1]

\* An element that comes before another has fewer before it.
LEMMA RankGrows ==
  ASSUME NEW S, IsFiniteSet(S), NEW R, Orders(R, S), NEW x \in S, NEW y \in S, <<x, y>> \in R
  PROVE  Rank(S, R, x) < Rank(S, R, y)
<1>1. Lower(S, R, x) \subseteq Lower(S, R, y)
  BY DEF Orders, Lower
<1>2. x \in Lower(S, R, y) /\ x \notin Lower(S, R, x)
  BY DEF Orders, Lower
<1>3. IsFiniteSet(Lower(S, R, x)) /\ IsFiniteSet(Lower(S, R, y))
  <2>1. Lower(S, R, x) \in SUBSET S /\ Lower(S, R, y) \in SUBSET S
    BY DEF Lower
  <2> QED
    BY <2>1, FS_Subset
<1>4. /\ Rank(S, R, x) \in Nat /\ Rank(S, R, y) \in Nat
      /\ Rank(S, R, x) <= Rank(S, R, y)
      /\ Rank(S, R, x) = Rank(S, R, y) => Lower(S, R, x) = Lower(S, R, y)
  BY <1>1, <1>3, FS_Subset, FS_CardinalityType DEF Rank
<1> QED
  BY <1>2, <1>4

LEMMA RankIs ==
  ASSUME NEW S, IsFiniteSet(S), NEW R, Orders(R, S)
  PROVE  /\ Cardinality(S) \in Nat
         /\ \A x \in S : Rank(S, R, x) \in 0 .. (Cardinality(S) - 1)
         /\ \A x, y \in S : Rank(S, R, x) = Rank(S, R, y) => x = y
         /\ \A r \in 1 .. Cardinality(S) : \E x \in S : Rank(S, R, x) = r - 1
<1> DEFINE n == Cardinality(S)
<1>1. n \in Nat
  BY FS_CardinalityType
<1>2. \A x, y \in S : <<x, y>> \in R => Rank(S, R, x) < Rank(S, R, y)
  BY RankGrows
<1>3. \A x \in S : Rank(S, R, x) \in 0 .. (n - 1)
  <2> TAKE x \in S
  <2>1. Lower(S, R, x) \in SUBSET S /\ x \notin Lower(S, R, x)
    BY DEF Lower, Orders
  <2>2. IsFiniteSet(Lower(S, R, x)) /\ Rank(S, R, x) <= n /\ Rank(S, R, x) # n
    BY <2>1, FS_Subset DEF Rank
  <2>3. Rank(S, R, x) \in Nat
    BY <2>2, FS_CardinalityType DEF Rank
  <2> HIDE DEF n
  <2> QED
    BY <1>1, <2>2, <2>3
<1>4. \A x, y \in S : Rank(S, R, x) = Rank(S, R, y) => x = y
  <2> TAKE x, y \in S
  <2> HAVE Rank(S, R, x) = Rank(S, R, y)
  <2>1. Rank(S, R, x) \in Int /\ Rank(S, R, y) \in Int
    BY <1>3
  <2>2. <<x, y>> \notin R /\ <<y, x>> \notin R
    BY <1>2, <2>1
  <2> QED
    BY <2>2 DEF Orders
<1> DEFINE f == [x \in S |-> Rank(S, R, x)]
           T == 0 .. (n - 1)
<1>5. f \in [S -> T] /\ \A x \in S : f[x] = Rank(S, R, x)
  BY <1>3
<1>6. IsFiniteSet(T) /\ Cardinality(T) = n
  <2> HIDE DEF n
  <2>1. IsFiniteSet(T)
    BY <1>1, FS_Interval
  <2>2. Cardinality(T) = IF 0 > n - 1 THEN 0 ELSE (n - 1) - 0 + 1
    BY <1>1, FS_Interval
  <2> QED
    BY <1>1, <2>1, <2>2
<1> HIDE DEF f, n
<1>7. \A x, y \in S : f[x] = f[y] => x = y
  BY <1>4, <1>5
<1>8. f \in Injection(S, T)
  BY Zenon, <1>5, <1>7 DEF Injection, IsInjective
<1>9. f \in Surjection(S, T)
  BY <1>6, <1>8, FS_Injection DEF n
<1>10. \A t \in T : \E x \in S : f[x] = t
  BY Zenon, <1>9 DEF Surjection
<1>11. \A r \in 1 .. n : \E x \in S : Rank(S, R, x) = r - 1
  <2> TAKE r \in 1 .. n
  <2>1. r - 1 \in T
    BY <1>1
  <2> HIDE DEF T
  <2> QED
    BY <1>5, <1>10, <2>1
<1> QED
  BY <1>1, <1>3, <1>4, <1>11 DEF n

\* As many elements as places, where no element is at two of them.
LEMMA CountPlaces ==
  ASSUME NEW k \in Nat, NEW s, \A i, j \in 1 .. k : s[i] = s[j] => i = j,
         NEW T, \A j \in 1 .. k : s[j] \in T, \A t \in T : \E j \in 1 .. k : s[j] = t
  PROVE  IsFiniteSet(T) /\ Cardinality(T) = k
<1> DEFINE f == [j \in 1 .. k |-> s[j]]
           I == 1 .. k
<1>1. f \in [I -> T] /\ (\A j \in I : f[j] = s[j]) /\ (\A t \in T : \E j \in I : s[j] = t)
  OBVIOUS
<1>2. \A i, j \in I : s[i] = s[j] => i = j
  OBVIOUS
<1> HIDE DEF f, I
<1>3. f \in Injection(I, T)
  <2>1. \A i, j \in I : f[i] = f[j] => i = j
    BY <1>1, <1>2
  <2> QED
    BY Zenon, <1>1, <2>1 DEF Injection, IsInjective
<1>4. f \in Surjection(I, T)
  <2>1. \A t \in T : \E j \in I : f[j] = t
    BY <1>1
  <2> QED
    BY Zenon, <1>1, <2>1 DEF Surjection
<1>5. ExistsBijection(I, T)
  BY Zenon, <1>3, <1>4 DEF ExistsBijection, Bijection
<1>6. Cardinality(T) = k
  BY <1>5, FS_CountingElements DEF I
<1>7. IsFiniteSet(I)
  BY FS_Interval DEF I
<1>8. IsFiniteSet(T)
  BY <1>4, <1>7, FS_Surjection
<1> QED
  BY <1>6, <1>8

\* Put in order, a set is a list of it that is in order.
LEMMA InOrderIs ==
  ASSUME NEW S, IsFiniteSet(S), NEW R, Orders(R, S)
  PROVE  /\ InOrder(S, R) \in Seq(S) /\ Len(InOrder(S, R)) = Cardinality(S)
         /\ OrderedBy(InOrder(S, R), R)
         /\ \A x \in S : \E r \in 1 .. Len(InOrder(S, R)) : InOrder(S, R)[r] = x
<1> DEFINE n == Cardinality(S)
           l == InOrder(S, R)
<1>1. /\ n \in Nat
      /\ \A x \in S : Rank(S, R, x) \in 0 .. (n - 1)
      /\ \A x, y \in S : Rank(S, R, x) = Rank(S, R, y) => x = y
      /\ \A r \in 1 .. n : \E x \in S : Rank(S, R, x) = r - 1
  BY RankIs
<1>2. l = [r \in 1 .. n |-> CHOOSE x \in S : Rank(S, R, x) = r - 1]
  BY DEF InOrder
<1> HIDE DEF n, l
<1>3. \A r \in 1 .. n : l[r] \in S /\ Rank(S, R, l[r]) = r - 1
  <2> TAKE r \in 1 .. n
  <2>1. \E x \in S : Rank(S, R, x) = r - 1
    BY <1>1
  <2>2. l[r] = CHOOSE x \in S : Rank(S, R, x) = r - 1
    BY <1>2
  <2> QED
    BY <2>1, <2>2
<1>4. l \in Seq(S) /\ Len(l) = n
  <2>1. l = [r \in 1 .. n |-> l[r]]
    BY <1>2
  <2> QED
    BY <1>1, <1>3, <2>1
<1>5. OrderedBy(l, R)
  <2> SUFFICES ASSUME NEW i \in 1 .. n, NEW j \in 1 .. n, i < j PROVE <<l[i], l[j]>> \in R
    BY <1>4 DEF OrderedBy
  <2>1. Rank(S, R, l[i]) < Rank(S, R, l[j]) /\ l[i] \in S /\ l[j] \in S
    BY <1>1, <1>3
  <2>2. <<l[j], l[i]>> \in R => Rank(S, R, l[j]) < Rank(S, R, l[i])
    BY <2>1, RankGrows
  <2>3. l[i] # l[j]
    BY <1>1, <2>1
  <2>4. <<l[j], l[i]>> \notin R
    <3>1. Rank(S, R, l[i]) = i - 1 /\ Rank(S, R, l[j]) = j - 1
      BY <1>3
    <3> QED
      BY <1>1, <2>2, <3>1
  <2> QED
    BY <2>1, <2>3, <2>4 DEF Orders
<1>6. \A x \in S : \E r \in 1 .. n : l[r] = x
  <2> TAKE x \in S
  <2>1. Rank(S, R, x) + 1 \in 1 .. n /\ Rank(S, R, x) \in Nat
    BY <1>1
  <2> DEFINE q == Rank(S, R, x) + 1
  <2>2. l[q] \in S /\ Rank(S, R, l[q]) = q - 1
    BY <1>3, <2>1
  <2>3. l[q] = x
    BY <1>1, <2>1, <2>2
  <2> QED
    BY <2>1, <2>3
<1> QED
  BY <1>4, <1>5, <1>6 DEF l, n

\* There is one such list.
LEMMA InOrderOnly ==
  ASSUME NEW S, IsFiniteSet(S), NEW R, Orders(R, S), NEW l \in Seq(S), OrderedBy(l, R),
         \A x \in S : \E r \in 1 .. Len(l) : l[r] = x
  PROVE  l = InOrder(S, R) /\ Len(l) = Cardinality(S)
<1> DEFINE n == Len(l)
<1>1. n \in Nat /\ \A i \in 1 .. n : l[i] \in S
  BY LenProperties, ElementOfSeq
<1>2. \A i, j \in 1 .. n : i < j => <<l[i], l[j]>> \in R
  BY DEF OrderedBy
<1>3. \A x \in S : \E r \in 1 .. n : l[r] = x
  OBVIOUS
<1>4. l = [r \in 1 .. n |-> l[r]]
  BY LenProperties
<1> HIDE DEF n
<1>5. \A i, j \in 1 .. n : l[i] = l[j] => i = j
  <2> TAKE i, j \in 1 .. n
  <2> HAVE l[i] = l[j]
  <2>1. <<l[i], l[i]>> \notin R
    BY <1>1 DEF Orders
  <2>2. ~ (i < j) /\ ~ (j < i)
    BY <1>2, <2>1
  <2> QED
    BY <1>1, <2>2
<1>6. \A k \in 0 .. n : Cardinality({l[j] : j \in 1 .. k}) = k
  <2> TAKE k \in 0 .. n
  <2> DEFINE T == {l[j] : j \in 1 .. k}
  <2>1. k \in Nat
    BY <1>1
  <2>2. \A i, j \in 1 .. k : l[i] = l[j] => i = j
    BY <1>1, <1>5
  <2>3. \A j \in 1 .. k : l[j] \in T
    OBVIOUS
  <2>4. \A t \in T : \E j \in 1 .. k : l[j] = t
    OBVIOUS
  <2> HIDE DEF T
  <2>5. Cardinality(T) = k
    BY ONLY <2>1, <2>2, <2>3, <2>4, CountPlaces
  <2> QED
    BY <2>5 DEF T
<1>7. Cardinality(S) = n
  <2>1. S = {l[j] : j \in 1 .. n}
    BY <1>1, <1>3
  <2> QED
    BY <1>1, <1>6, <2>1
<1>8. \A r \in 1 .. n : Rank(S, R, l[r]) = r - 1
  <2> TAKE r \in 1 .. n
  <2>1. Lower(S, R, l[r]) \subseteq {l[j] : j \in 1 .. (r - 1)}
    <3> SUFFICES ASSUME NEW y \in S, <<y, l[r]>> \in R PROVE \E j \in 1 .. (r - 1) : l[j] = y
      BY DEF Lower
    <3>1. PICK j \in 1 .. n : l[j] = y
      BY <1>3
    <3>2. ~ (r < j)
      <4> SUFFICES ASSUME r < j PROVE FALSE
        OBVIOUS
      <4>1. <<l[r], l[j]>> \in R
        BY <1>2
      <4>2. <<y, y>> \in R
        BY <1>1, <3>1, <4>1 DEF Orders
      <4> QED
        BY <4>2 DEF Orders
    <3>3. r # j
      BY <1>1, <3>1 DEF Orders
    <3> QED
      BY <1>1, <3>1, <3>2, <3>3
  <2>2. {l[j] : j \in 1 .. (r - 1)} \subseteq Lower(S, R, l[r])
    <3> SUFFICES ASSUME NEW j \in 1 .. (r - 1) PROVE l[j] \in S /\ <<l[j], l[r]>> \in R
      BY DEF Lower
    <3>1. j \in 1 .. n /\ j < r
      BY <1>1
    <3> QED
      BY <1>1, <1>2, <3>1
  <2>3. Lower(S, R, l[r]) = {l[j] : j \in 1 .. (r - 1)}
    BY <2>1, <2>2
  <2>4. r - 1 \in 0 .. n
    BY <1>1
  <2> QED
    BY <1>6, <2>3, <2>4 DEF Rank
<1>9. \A r \in 1 .. n : l[r] = CHOOSE x \in S : Rank(S, R, x) = r - 1
  <2> TAKE r \in 1 .. n
  <2>1. l[r] \in S /\ Rank(S, R, l[r]) = r - 1
    BY <1>1, <1>8
  <2>2. \A x, y \in S : Rank(S, R, x) = Rank(S, R, y) => x = y
    BY RankIs
  <2> QED
    BY <2>1, <2>2
<1>10. InOrder(S, R) = [r \in 1 .. n |-> CHOOSE x \in S : Rank(S, R, x) = r - 1]
  BY <1>7 DEF InOrder
<1> QED
  BY <1>4, <1>7, <1>9, <1>10 DEF n

-----------------------------------------------------------------------------
(* What lists hold, and what the first of them come to.                    *)

\* One list of lists is that list.
LEMMA FlattenOne ==
  ASSUME NEW S, NEW l \in Seq(S)
  PROVE  FlattenSeq(<<l>>) = l
<1> DEFINE Z == Seq(S)
           e == <<>>
<1>1. l \in Z /\ e \in Seq(Z) /\ Len(e) = 0
  BY EmptySeq
<1>2. FlattenSeq(e) = e
  BY <1>1 DEF FlattenSeq
<1> HIDE DEF e
<1>3. Append(e, l) = <<l>>
  BY <1>1, AppendProperties DEF e
<1>4. FlattenSeq(Append(e, l)) = FlattenSeq(e) \o l
  BY <1>1, FlattenAppend
<1>5. e \o l = l
  BY ConcatEmptySeq DEF e
<1> QED
  BY <1>2, <1>3, <1>4, <1>5

\* Lists that hold nothing make one that holds nothing.
LEMMA FlattenOfNone ==
  ASSUME NEW S, NEW seqs \in Seq(Seq(S)), \A i \in 1 .. Len(seqs) : Len(seqs[i]) = 0
  PROVE  FlattenSeq(seqs) = <<>>
<1> DEFINE all == FlattenSeq(seqs)
<1>1. /\ all \in Seq(S)
      /\ \A k \in 1 .. Len(all) : \E i \in 1 .. Len(seqs) : \E j \in 1 .. Len(seqs[i]) : all[k] = seqs[i][j]
  BY FlattenIs
<1> HIDE DEF all
<1>2. Len(all) \in Nat
  BY <1>1, LenProperties
<1>3. Len(all) = 0
  <2> SUFFICES ASSUME Len(all) # 0 PROVE FALSE
    OBVIOUS
  <2>1. 1 \in 1 .. Len(all)
    BY <1>2
  <2>2. PICK i \in 1 .. Len(seqs) : \E j \in 1 .. Len(seqs[i]) : all[1] = seqs[i][j]
    BY <1>1, <2>1
  <2>3. Len(seqs[i]) = 0
    OBVIOUS
  <2> QED
    BY <2>2, <2>3
<1>4. all = <<>>
  BY <1>1, <1>3, EmptySeq
<1> QED
  BY <1>4 DEF all

LEMMA RangeIs ==
  ASSUME NEW S, NEW s \in Seq(S)
  PROVE  /\ Range(s) \in SUBSET S /\ IsFiniteSet(Range(s))
         /\ \A x \in Range(s) : \E i \in 1 .. Len(s) : s[i] = x
         /\ \A i \in 1 .. Len(s) : s[i] \in Range(s)
<1>1. Len(s) \in Nat /\ DOMAIN s = 1 .. Len(s) /\ \A i \in 1 .. Len(s) : s[i] \in S
  BY LenProperties, ElementOfSeq
<1>2. Range(s) = {s[i] : i \in 1 .. Len(s)}
  BY <1>1 DEF Range
<1>3. IsFiniteSet(1 .. Len(s))
  BY <1>1, FS_Interval
<1>4. IsFiniteSet(Range(s))
  BY <1>2, <1>3, ImageFinite
<1> QED
  BY <1>1, <1>2, <1>4

LEMMA SeqOfSubset ==
  ASSUME NEW S, NEW T, S \subseteq T, NEW s \in Seq(S)
  PROVE  s \in Seq(T)
OBVIOUS

LEMMA SumsUpTo ==
  ASSUME NEW n \in Nat, NEW v, \A j \in 1 .. n : v[j] \in Nat
  PROVE  \A i \in 0 .. n :
           /\ SumFunction([j \in 1 .. i |-> v[j]]) = SumFunctionOnSet(v, 1 .. i)
           /\ SumFunctionOnSet(v, 1 .. i) \in Nat
           /\ i = 0 => SumFunctionOnSet(v, 1 .. i) = 0
           /\ i < n => SumFunctionOnSet(v, 1 .. (i + 1)) = SumFunctionOnSet(v, 1 .. i) + v[i + 1]
<1> TAKE i \in 0 .. n
<1>1. \A j \in 1 .. n : v[j] \in Nat
  OBVIOUS
<1> QED
  BY <1>1, SumUpTo

\* As many of the first n as n different ones are all of them.
LEMMA AllTaken ==
  ASSUME NEW n \in Nat, NEW t \in Seq(1 .. n), Distinct(t), NEW m \in 0 .. Len(t)
  PROVE  /\ {t[j] : j \in 1 .. m} \subseteq 1 .. n
         /\ m = n => {t[j] : j \in 1 .. m} = 1 .. n
<1> DEFINE T == {t[j] : j \in 1 .. m}
<1>1. Len(t) \in Nat /\ m \in Nat /\ \A j \in 1 .. m : j \in 1 .. Len(t) /\ t[j] \in 1 .. n
  BY LenProperties, ElementOfSeq
<1>2. \A i, j \in 1 .. m : t[i] = t[j] => i = j
  BY <1>1 DEF Distinct
<1>3. (\A j \in 1 .. m : t[j] \in T) /\ (\A x \in T : \E j \in 1 .. m : t[j] = x) /\ T \subseteq 1 .. n
  BY <1>1
<1> HIDE DEF T
<1>4. Cardinality(T) = m
  BY ONLY <1>1, <1>2, <1>3, CountPlaces
<1>5. IsFiniteSet(1 .. n) /\ Cardinality(1 .. n) = n
  BY FS_Interval
<1>6. m = n => T = 1 .. n
  BY <1>3, <1>4, <1>5, FS_Subset
<1> QED
  BY <1>3, <1>6 DEF T

LEMMA TakenAdds ==
  ASSUME NEW n \in Nat, NEW v, \A j \in 1 .. n : v[j] \in Nat,
         NEW t \in Seq(1 .. n), Distinct(t), NEW m \in 0 .. Len(t)
  PROVE  /\ SumFunction([j \in 1 .. m |-> v[t[j]]]) <= SumFunctionOnSet(v, 1 .. n)
         /\ m = n => SumFunction([j \in 1 .. m |-> v[t[j]]]) = SumFunctionOnSet(v, 1 .. n)
<1> DEFINE w == [j \in 1 .. Len(t) |-> v[t[j]]]
           T == {t[j] : j \in 1 .. m}
<1>1. Len(t) \in Nat /\ m \in Nat /\ \A j \in 1 .. Len(t) : t[j] \in 1 .. n
  BY LenProperties, ElementOfSeq
<1>2. \A j \in 1 .. Len(t) : w[j] \in Nat
  BY <1>1
<1>3. [j \in 1 .. m |-> v[t[j]]] = [j \in 1 .. m |-> w[j]]
  BY <1>1
<1>4. SumFunctionOnSet(w, 1 .. m) = SumFunctionOnSet(v, T)
  BY SumTaken
<1>5. T \subseteq 1 .. n /\ (m = n => T = 1 .. n)
  BY AllTaken
<1> HIDE DEF w, T
<1>6. SumFunction([j \in 1 .. m |-> w[j]]) = SumFunctionOnSet(w, 1 .. m)
  BY <1>1, <1>2, SumsUpTo
<1>7. SumFunctionOnSet(v, T) <= SumFunctionOnSet(v, 1 .. n)
  <2>1. IsFiniteSet(1 .. n) /\ T \in SUBSET (1 .. n)
    BY <1>5, FS_Interval
  <2>2. \A x \in T : v[x] \in Nat /\ v[x] <= v[x]
    BY <1>5
  <2> QED
    BY <2>1, <2>2, SumGrows
<1> QED
  BY <1>3, <1>4, <1>5, <1>6, <1>7
=============================================================================
