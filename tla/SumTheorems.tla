---------------------------- MODULE SumTheorems ----------------------------
(***************************************************************************)
(* Facts about SumFunctionOnSet, the sum of the values of a function over  *)
(* a finite set of arguments, which the ledgers and the stock are counted  *)
(* with. The sum is a fold, whose recursion takes an arbitrary element at  *)
(* a time; from its equation follow the sum over an empty set, over a set  *)
(* with one element more, and the comparison of two sums.                  *)
(*                                                                         *)
(* Induction over the subsets of a finite set is used in the form of       *)
(* MinimalSubset: a set of subsets that is not empty has a minimal one.    *)
(***************************************************************************)
EXTENDS Integers, FiniteSets, Functions, FiniteSetTheorems, TLAPS

\* The element a fold takes first.
First(s) == CHOOSE x \in s : TRUE

\* The equation of the sum, for all subsets of S at once.
IsSum(g, f, S) ==
  g = [s \in SUBSET S |-> IF s = {} THEN 0 ELSE f[First(s)] + g[s \ {First(s)}]]

\* Among subsets of a finite set there is a minimal one.
LEMMA MinimalSubset ==
  ASSUME NEW S, IsFiniteSet(S), NEW T \in SUBSET (SUBSET S), T # {}
  PROVE  \E A \in T : \A B \in T : B \subseteq A => B = A
<1>1. IsWellFoundedOn(StrictSubsetOrdering(S), FiniteSubsetsOf(S))
  BY FS_StrictSubsetOrderingWellFounded
<1>2. FiniteSubsetsOf(S) = SUBSET S
  BY FS_FiniteSubsetsOfFinite
<1>3. \E A \in T : \A B \in T : ~(<<B, A>> \in StrictSubsetOrdering(S))
  BY <1>1, <1>2, WFMin
<1>4. QED
  BY <1>3 DEF StrictSubsetOrdering

\* Two sums agree on the subsets they have in common.
LEMMA SumsAgree ==
  ASSUME NEW S, IsFiniteSet(S), NEW f, \A x \in S : f[x] \in Int,
         NEW U \in SUBSET S, NEW V \in SUBSET S, NEW g, NEW h,
         IsSum(g, f, U), IsSum(h, f, V)
  PROVE  \A s \in SUBSET (U \cap V) : g[s] = h[s]
<1> DEFINE Bad == {s \in SUBSET (U \cap V) : g[s] # h[s]}
<1>1. SUFFICES ASSUME Bad # {} PROVE FALSE
  OBVIOUS
<1>2. PICK s \in Bad : \A t \in Bad : t \subseteq s => t = s
  <2>1. Bad \in SUBSET (SUBSET S)
    OBVIOUS
  <2> HIDE DEF Bad
  <2>2. QED
    BY <1>1, <2>1, MinimalSubset
<1>3. g[{}] = 0 /\ h[{}] = 0
  BY DEF IsSum
<1>4. s # {}
  BY <1>3
<1>5. First(s) \in s
  BY <1>4 DEF First
<1>6. s \ {First(s)} \notin Bad /\ s \ {First(s)} \in SUBSET (U \cap V)
  BY <1>2, <1>5
<1>7. g[s \ {First(s)}] = h[s \ {First(s)}]
  BY <1>6
<1>8. g[s] = f[First(s)] + g[s \ {First(s)}] /\ h[s] = f[First(s)] + h[s \ {First(s)}]
  BY <1>4 DEF IsSum
<1>9. QED
  BY <1>7, <1>8

\* The integers that a function gives to a finite set have a sum.
LEMMA SumExists ==
  ASSUME NEW S, IsFiniteSet(S), NEW f, \A x \in S : f[x] \in Int
  PROVE  \E g \in [SUBSET S -> Int] : IsSum(g, f, S)
<1> DEFINE Has(U) == \E g \in [SUBSET U -> Int] : IsSum(g, f, U)
           Bad == {U \in SUBSET S : ~Has(U)}
<1>1. SUFFICES ASSUME Bad # {} PROVE FALSE
  OBVIOUS
<1>2. PICK T \in Bad : \A U \in Bad : U \subseteq T => U = T
  <2>1. Bad \in SUBSET (SUBSET S)
    OBVIOUS
  <2> HIDE DEF Bad
  <2>2. QED
    BY <1>1, <2>1, MinimalSubset
<1> DEFINE of(U) == CHOOSE g : g \in [SUBSET U -> Int] /\ IsSum(g, f, U)
           g == [s \in SUBSET T |->
                   IF s = {} THEN 0 ELSE f[First(s)] + of(s \ {First(s)})[s \ {First(s)}]]
<1>3. ASSUME NEW U \in SUBSET T, U # T
      PROVE  of(U) \in [SUBSET U -> Int] /\ IsSum(of(U), f, U)
  <2>1. Has(U)
    BY <1>2, <1>3
  <2>2. QED
    BY <2>1
<1> HIDE DEF of
<1>4. ASSUME NEW s \in SUBSET T, s # {}
      PROVE  /\ First(s) \in s /\ s \ {First(s)} \in SUBSET T /\ s \ {First(s)} # T
             /\ f[First(s)] \in Int
  BY <1>4 DEF First
<1>5. ASSUME NEW s \in SUBSET T PROVE g[s] \in Int
  <2>1. CASE s = {}
    BY <2>1
  <2>2. CASE s # {}
    <3>1. PICK t : t = s \ {First(s)}
      OBVIOUS
    <3>2. t \in SUBSET T /\ t # T
      BY <1>4, <2>2, <3>1
    <3>3. of(t) \in [SUBSET t -> Int]
      BY <1>3, <3>2
    <3>4. of(t)[t] \in Int
      BY <3>3
    <3>5. QED
      BY <1>4, <2>2, <3>1, <3>4
  <2>3. QED
    BY <2>1, <2>2
<1>6. g \in [SUBSET T -> Int]
  BY <1>5
<1>7. ASSUME NEW s \in SUBSET T, s # {}
      PROVE  g[s \ {First(s)}] = of(s \ {First(s)})[s \ {First(s)}]
  <2> DEFINE t == s \ {First(s)}
  <2>1. t \in SUBSET T /\ t # T
    BY <1>4, <1>7
  <2>2. of(t) \in [SUBSET t -> Int] /\ IsSum(of(t), f, t)
    BY <1>3, <2>1
  <2>3. CASE t = {}
    BY <2>2, <2>3 DEF IsSum
  <2>4. CASE t # {}
    <3> DEFINE u == t \ {First(t)}
    <3> HIDE DEF t
    <3>1. u \in SUBSET T /\ u # T /\ u \in SUBSET (t \cap u)
      BY <1>4, <2>1, <2>4
    <3>2. IsSum(of(u), f, u)
      BY <1>3, <3>1
    <3>3. of(t)[u] = of(u)[u]
      <4>1. PICK a, b : a = of(t) /\ b = of(u)
        OBVIOUS
      <4>2. PICK v : v = u
        OBVIOUS
      <4>3. IsSum(a, f, t) /\ IsSum(b, f, v)
        BY <2>2, <3>2, <4>1, <4>2
      <4>4. t \in SUBSET S /\ v \in SUBSET S /\ v \in SUBSET (t \cap v)
        BY <2>1, <3>1, <4>2
      <4> HIDE DEF u, of
      <4>5. a[v] = b[v]
        BY <4>3, <4>4, SumsAgree
      <4>6. QED
        BY <4>1, <4>2, <4>5
    <3>4. of(t)[t] = f[First(t)] + of(t)[u]
      BY <2>2, <2>4 DEF IsSum
    <3>5. g[t] = f[First(t)] + of(u)[u]
      BY <2>1, <2>4
    <3>6. QED
      BY <3>3, <3>4, <3>5 DEF t
  <2>5. QED
    BY <2>3, <2>4
<1> HIDE DEF g
<1>8. \A s \in SUBSET T : g[s] = IF s = {} THEN 0 ELSE f[First(s)] + g[s \ {First(s)}]
  BY <1>7 DEF g
<1>9. IsSum(g, f, T)
  BY <1>6, <1>8 DEF IsSum
<1>10. QED
  BY <1>6, <1>9

\* What the operator of the library computes.
LEMMA SumIs ==
  ASSUME NEW S, IsFiniteSet(S), NEW f, \A x \in S : f[x] \in Int
  PROVE  \E g \in [SUBSET S -> Int] : IsSum(g, f, S) /\ SumFunctionOnSet(f, S) = g[S]
<1> DEFINE g == CHOOSE h : IsSum(h, f, S)
<1>1. SumFunctionOnSet(f, S) = g[S]
  BY DEF SumFunctionOnSet, FoldFunctionOnSet, MapThenFoldSet, IsSum, First
<1>2. IsSum(g, f, S)
  BY SumExists
<1>3. PICK h \in [SUBSET S -> Int] : IsSum(h, f, S)
  BY SumExists
<1>4. g = h
  <2>1. \A s \in SUBSET S : g[s] = h[s]
    BY <1>2, <1>3, SumsAgree
  <2>2. QED
    BY <1>2, <1>3, <2>1 DEF IsSum
<1>5. QED
  BY <1>1, <1>2, <1>3, <1>4

\* A sum of integers is an integer.
LEMMA SumType ==
  ASSUME NEW S, IsFiniteSet(S), NEW f, \A x \in S : f[x] \in Int
  PROVE  SumFunctionOnSet(f, S) \in Int
<1>1. PICK g \in [SUBSET S -> Int] : SumFunctionOnSet(f, S) = g[S]
  BY SumIs
<1>2. QED
  BY <1>1

\* Nothing sums to nothing.
LEMMA SumEmpty ==
  ASSUME NEW f
  PROVE  SumFunctionOnSet(f, {}) = 0
<1>1. IsFiniteSet({})
  BY FS_EmptySet
<1>2. PICK g : IsSum(g, f, {}) /\ SumFunctionOnSet(f, {}) = g[{}]
  BY <1>1, SumIs
<1>3. QED
  BY <1>2 DEF IsSum

\* The fold's own step: the first element, and the sum of the rest.
LEMMA SumFirst ==
  ASSUME NEW S, IsFiniteSet(S), S # {}, NEW f, \A x \in S : f[x] \in Int
  PROVE  /\ First(S) \in S
         /\ SumFunctionOnSet(f, S) = f[First(S)] + SumFunctionOnSet(f, S \ {First(S)})
<1>1. First(S) \in S
  BY DEF First
<1>2. PICK t : t = S \ {First(S)}
  OBVIOUS
<1>3. t \in SUBSET S /\ IsFiniteSet(t) /\ t \in SUBSET (S \cap t)
  BY <1>2, FS_Subset
<1>4. PICK g : IsSum(g, f, S) /\ SumFunctionOnSet(f, S) = g[S]
  BY SumIs
<1>5. \A x \in t : f[x] \in Int
  BY <1>3
<1>6. PICK h : IsSum(h, f, t) /\ SumFunctionOnSet(f, t) = h[t]
  BY <1>3, <1>5, SumIs
<1>7. S \in SUBSET S
  OBVIOUS
<1>8. g[t] = h[t]
  BY <1>3, <1>4, <1>6, <1>7, SumsAgree
<1>9. g[S] = f[First(S)] + g[t]
  BY <1>2, <1>4 DEF IsSum
<1>10. QED
  BY <1>1, <1>2, <1>4, <1>6, <1>8, <1>9

\* Any element may be taken out first: the order of the fold does not matter.
LEMMA SumRemove ==
  ASSUME NEW S, IsFiniteSet(S), NEW f, \A x \in S : f[x] \in Int, NEW e \in S
  PROVE  SumFunctionOnSet(f, S) = f[e] + SumFunctionOnSet(f, S \ {e})
<1> DEFINE Odd(U) == \E x \in U :
             SumFunctionOnSet(f, U) # f[x] + SumFunctionOnSet(f, U \ {x})
           Bad == {U \in SUBSET S : Odd(U)}
<1>1. SUFFICES ASSUME Bad # {} PROVE FALSE
  OBVIOUS
<1>2. PICK T \in Bad : \A U \in Bad : U \subseteq T => U = T
  <2>1. Bad \in SUBSET (SUBSET S)
    OBVIOUS
  <2> HIDE DEF Bad
  <2>2. QED
    BY <1>1, <2>1, MinimalSubset
<1>3. PICK x \in T : SumFunctionOnSet(f, T) # f[x] + SumFunctionOnSet(f, T \ {x})
  BY <1>2
<1>4. IsFiniteSet(T) /\ T # {} /\ T \in SUBSET S /\ \A z \in T : f[z] \in Int
  BY <1>2, <1>3, FS_Subset
<1>5. PICK y : y = First(T)
  OBVIOUS
<1>6. y \in T /\ SumFunctionOnSet(f, T) = f[y] + SumFunctionOnSet(f, T \ {y})
  BY <1>4, <1>5, SumFirst
<1>7. x # y
  BY <1>3, <1>6
<1>8. PICK tx, ty, txy : tx = T \ {x} /\ ty = T \ {y} /\ txy = T \ {x, y}
  OBVIOUS
<1>9. tx \ {y} = txy /\ ty \ {x} = txy /\ y \in tx /\ x \in ty
  BY <1>6, <1>7, <1>8
<1>10. tx \notin Bad /\ ty \notin Bad
  BY <1>2, <1>6, <1>8
<1>11. tx \in SUBSET S /\ ty \in SUBSET S /\ txy \in SUBSET S
  BY <1>4, <1>8
<1>12. /\ SumFunctionOnSet(f, tx) = f[y] + SumFunctionOnSet(f, txy)
       /\ SumFunctionOnSet(f, ty) = f[x] + SumFunctionOnSet(f, txy)
  BY <1>9, <1>10, <1>11
<1>13. SumFunctionOnSet(f, txy) \in Int /\ f[x] \in Int /\ f[y] \in Int
  <2>1. IsFiniteSet(txy) /\ \A z \in txy : f[z] \in Int
    BY <1>11, FS_Subset
  <2>2. QED
    BY <1>4, <1>6, <2>1, SumType
<1>14. SumFunctionOnSet(f, T) = f[x] + SumFunctionOnSet(f, tx)
  BY <1>6, <1>8, <1>12, <1>13
<1>15. QED
  BY <1>3, <1>8, <1>14

\* A set with one element more.
LEMMA SumAdd ==
  ASSUME NEW S, IsFiniteSet(S), NEW f, NEW e, e \notin S,
         \A x \in S \cup {e} : f[x] \in Int
  PROVE  SumFunctionOnSet(f, S \cup {e}) = f[e] + SumFunctionOnSet(f, S)
<1>1. IsFiniteSet(S \cup {e})
  BY FS_AddElement
<1>2. (S \cup {e}) \ {e} = S
  OBVIOUS
<1>3. QED
  BY <1>1, <1>2, SumRemove

\* The sum of one value.
LEMMA SumOne ==
  ASSUME NEW f, NEW e, f[e] \in Int
  PROVE  SumFunctionOnSet(f, {e}) = f[e]
<1>1. IsFiniteSet({e}) /\ {e} \ {e} = {}
  BY FS_Singleton
<1>2. SumFunctionOnSet(f, {e}) = f[e] + SumFunctionOnSet(f, {e} \ {e})
  BY <1>1, SumRemove
<1>3. QED
  BY <1>1, <1>2, SumEmpty

\* Functions that agree on a set have the same sum over it.
LEMMA SumSame ==
  ASSUME NEW S, IsFiniteSet(S), NEW f, NEW g,
         \A x \in S : f[x] \in Int /\ g[x] = f[x]
  PROVE  SumFunctionOnSet(g, S) = SumFunctionOnSet(f, S)
<1> DEFINE Bad == {U \in SUBSET S : SumFunctionOnSet(g, U) # SumFunctionOnSet(f, U)}
<1>1. SUFFICES ASSUME Bad # {} PROVE FALSE
  OBVIOUS
<1>2. PICK T \in Bad : \A U \in Bad : U \subseteq T => U = T
  <2>1. Bad \in SUBSET (SUBSET S)
    OBVIOUS
  <2> HIDE DEF Bad
  <2>2. QED
    BY <1>1, <2>1, MinimalSubset
<1>3. T # {}
  BY <1>2, SumEmpty
<1>4. PICK t, y : t = T \ {First(T)} /\ y = First(T)
  OBVIOUS
<1>5. IsFiniteSet(T) /\ \A x \in T : f[x] \in Int /\ g[x] \in Int
  BY <1>2, FS_Subset
<1>6. /\ y \in T
      /\ SumFunctionOnSet(f, T) = f[y] + SumFunctionOnSet(f, t)
      /\ SumFunctionOnSet(g, T) = g[y] + SumFunctionOnSet(g, t)
  BY <1>3, <1>4, <1>5, SumFirst
<1>7. t \in SUBSET S /\ t \notin Bad
  BY <1>2, <1>4, <1>6
<1>8. QED
  BY <1>2, <1>6, <1>7

\* A sum after one of its values changed.
LEMMA SumChange ==
  ASSUME NEW S, IsFiniteSet(S), NEW f, NEW g, NEW e \in S,
         \A x \in S : f[x] \in Int /\ g[x] \in Int,
         \A x \in S \ {e} : g[x] = f[x]
  PROVE  SumFunctionOnSet(g, S) = SumFunctionOnSet(f, S) + g[e] - f[e]
<1>1. PICK t : t = S \ {e}
  OBVIOUS
<1>2. IsFiniteSet(t) /\ \A x \in t : f[x] \in Int /\ g[x] = f[x]
  BY <1>1, FS_Subset
<1>3. SumFunctionOnSet(f, S) = f[e] + SumFunctionOnSet(f, t)
  BY <1>1, SumRemove
<1>4. SumFunctionOnSet(g, S) = g[e] + SumFunctionOnSet(g, t)
  BY <1>1, SumRemove
<1>5. SumFunctionOnSet(g, t) = SumFunctionOnSet(f, t)
  BY <1>2, SumSame
<1>6. SumFunctionOnSet(f, t) \in Int
  BY <1>2, SumType
<1>7. QED
  BY <1>3, <1>4, <1>5, <1>6

\* What is never negative does not sum to less than any one of its values.
LEMMA SumNat ==
  ASSUME NEW S, IsFiniteSet(S), NEW f, \A x \in S : f[x] \in Nat
  PROVE  SumFunctionOnSet(f, S) \in Nat /\ \A x \in S : f[x] <= SumFunctionOnSet(f, S)
<1> DEFINE Bad == {U \in SUBSET S : SumFunctionOnSet(f, U) \notin Nat}
<1>1. ASSUME Bad # {} PROVE FALSE
  <2>1. PICK T \in Bad : \A U \in Bad : U \subseteq T => U = T
    <3>1. Bad \in SUBSET (SUBSET S)
      OBVIOUS
    <3> HIDE DEF Bad
    <3>2. QED
      BY <1>1, <3>1, MinimalSubset
  <2>2. T # {}
    <3>1. SumFunctionOnSet(f, T) \notin Nat
      BY <2>1
    <3>2. SumFunctionOnSet(f, {}) \in Nat
      BY SumEmpty
    <3>3. QED
      BY <3>1, <3>2
  <2>3. PICK t, y : t = T \ {First(T)} /\ y = First(T)
    OBVIOUS
  <2>4. IsFiniteSet(T) /\ \A x \in T : f[x] \in Int
    BY <2>1, FS_Subset
  <2>5. y \in T /\ SumFunctionOnSet(f, T) = f[y] + SumFunctionOnSet(f, t)
    BY <2>2, <2>3, <2>4, SumFirst
  <2>6. SumFunctionOnSet(f, t) \in Nat /\ f[y] \in Nat
    BY <2>1, <2>3, <2>5
  <2>7. QED
    BY <2>1, <2>5, <2>6
<1>2. \A U \in SUBSET S : SumFunctionOnSet(f, U) \in Nat
  BY <1>1
<1>3. ASSUME NEW x \in S PROVE f[x] <= SumFunctionOnSet(f, S)
  <2>1. PICK t : t = S \ {x}
    OBVIOUS
  <2>2. SumFunctionOnSet(f, S) = f[x] + SumFunctionOnSet(f, t)
    BY <2>1, SumRemove
  <2>3. SumFunctionOnSet(f, t) \in Nat /\ f[x] \in Nat
    BY <1>2, <2>1
  <2>4. QED
    BY <2>2, <2>3
<1>4. QED
  BY <1>2, <1>3

\* Zeros sum to zero.
LEMMA SumZero ==
  ASSUME NEW S, IsFiniteSet(S), NEW f, \A x \in S : f[x] = 0
  PROVE  SumFunctionOnSet(f, S) = 0
<1> DEFINE Bad == {U \in SUBSET S : SumFunctionOnSet(f, U) # 0}
<1>1. SUFFICES ASSUME Bad # {} PROVE FALSE
  OBVIOUS
<1>2. PICK T \in Bad : \A U \in Bad : U \subseteq T => U = T
  <2>1. Bad \in SUBSET (SUBSET S)
    OBVIOUS
  <2> HIDE DEF Bad
  <2>2. QED
    BY <1>1, <2>1, MinimalSubset
<1>3. T # {}
  BY <1>2, SumEmpty
<1>4. PICK t, y : t = T \ {First(T)} /\ y = First(T)
  OBVIOUS
<1>5. IsFiniteSet(T) /\ \A x \in T : f[x] \in Int /\ f[x] = 0
  BY <1>2, FS_Subset
<1>6. y \in T /\ SumFunctionOnSet(f, T) = f[y] + SumFunctionOnSet(f, t)
  BY <1>3, <1>4, <1>5, SumFirst
<1>7. SumFunctionOnSet(f, t) = 0 /\ f[y] = 0
  BY <1>2, <1>4, <1>5, <1>6
<1>8. QED
  BY <1>2, <1>6, <1>7

\* Arguments whose value is zero may be left out of a sum.
LEMMA SumOver ==
  ASSUME NEW S, IsFiniteSet(S), NEW R \in SUBSET S, NEW f, NEW g,
         \A x \in R : f[x] \in Int /\ g[x] = f[x],
         \A x \in S \ R : g[x] = 0
  PROVE  SumFunctionOnSet(g, S) = SumFunctionOnSet(f, R)
<1> DEFINE Bad == {U \in SUBSET S : SumFunctionOnSet(g, U) # SumFunctionOnSet(f, U \cap R)}
<1>1. SUFFICES ASSUME Bad # {} PROVE FALSE
  <2>1. S \cap R = R /\ S \in SUBSET S
    OBVIOUS
  <2>2. S \notin Bad
    BY <1>1
  <2>3. QED
    BY <2>1, <2>2
<1>2. PICK T \in Bad : \A U \in Bad : U \subseteq T => U = T
  <2>1. Bad \in SUBSET (SUBSET S)
    OBVIOUS
  <2> HIDE DEF Bad
  <2>2. QED
    BY <1>1, <2>1, MinimalSubset
<1>3. T # {}
  <2>1. SumFunctionOnSet(g, {}) = 0 /\ SumFunctionOnSet(f, {}) = 0
    BY SumEmpty
  <2>2. {} \cap R = {}
    OBVIOUS
  <2>3. QED
    BY <1>2, <2>1, <2>2
<1>4. PICK t, y : t = T \ {First(T)} /\ y = First(T)
  OBVIOUS
<1>5. IsFiniteSet(T) /\ \A x \in T : g[x] \in Int
  BY <1>2, FS_Subset
<1>6. y \in T /\ SumFunctionOnSet(g, T) = g[y] + SumFunctionOnSet(g, t)
  BY <1>3, <1>4, <1>5, SumFirst
<1>7. SumFunctionOnSet(g, t) = SumFunctionOnSet(f, t \cap R)
  BY <1>2, <1>4, <1>6
<1>8. IsFiniteSet(T \cap R) /\ IsFiniteSet(t \cap R) /\ \A x \in T \cap R : f[x] \in Int
  BY <1>2, <1>4, <1>5, FS_Subset
<1>9. CASE y \in R
  <2>1. y \in T \cap R /\ (T \cap R) \ {y} = t \cap R
    BY <1>4, <1>6, <1>9
  <2>2. SumFunctionOnSet(f, T \cap R) = f[y] + SumFunctionOnSet(f, t \cap R)
    <3>1. PICK a, b : a = T \cap R /\ b = t \cap R
      OBVIOUS
    <3>2. y \in a /\ a \ {y} = b /\ IsFiniteSet(a) /\ \A x \in a : f[x] \in Int
      BY <1>8, <2>1, <3>1
    <3>3. SumFunctionOnSet(f, a) = f[y] + SumFunctionOnSet(f, a \ {y})
      BY <3>2, SumRemove
    <3>4. QED
      BY <3>1, <3>2, <3>3
  <2>3. QED
    BY <1>2, <1>6, <1>7, <1>9, <2>2
<1>10. CASE y \notin R
  <2>1. T \cap R = t \cap R /\ g[y] = 0
    BY <1>2, <1>4, <1>6, <1>10
  <2>2. SumFunctionOnSet(f, t \cap R) \in Int
    BY <1>8, <2>1, SumType
  <2>3. SumFunctionOnSet(g, T) = SumFunctionOnSet(f, t \cap R)
    BY <1>6, <1>7, <2>1, <2>2
  <2>4. SumFunctionOnSet(g, T) # SumFunctionOnSet(f, T \cap R)
    BY <1>2
  <2>5. QED
    BY <2>1, <2>3, <2>4
<1>11. QED
  BY <1>9, <1>10

\* The sum of the sums.
LEMMA SumPlus ==
  ASSUME NEW S, IsFiniteSet(S), NEW f, NEW g, NEW h,
         \A x \in S : f[x] \in Int /\ g[x] \in Int /\ h[x] = f[x] + g[x]
  PROVE  SumFunctionOnSet(h, S) = SumFunctionOnSet(f, S) + SumFunctionOnSet(g, S)
<1> DEFINE Bad == {U \in SUBSET S : SumFunctionOnSet(h, U)
                     # SumFunctionOnSet(f, U) + SumFunctionOnSet(g, U)}
<1>1. SUFFICES ASSUME Bad # {} PROVE FALSE
  OBVIOUS
<1>2. PICK T \in Bad : \A U \in Bad : U \subseteq T => U = T
  <2>1. Bad \in SUBSET (SUBSET S)
    OBVIOUS
  <2> HIDE DEF Bad
  <2>2. QED
    BY <1>1, <2>1, MinimalSubset
<1>3. T # {}
  <2>1. /\ SumFunctionOnSet(f, {}) = 0 /\ SumFunctionOnSet(g, {}) = 0
        /\ SumFunctionOnSet(h, {}) = 0
    BY SumEmpty
  <2>2. {} \notin Bad
    BY <2>1
  <2>3. QED
    BY <1>2, <2>2
<1>4. PICK t, y : t = T \ {First(T)} /\ y = First(T)
  OBVIOUS
<1>5. /\ IsFiniteSet(T) /\ IsFiniteSet(t)
      /\ \A x \in T : f[x] \in Int /\ g[x] \in Int /\ h[x] = f[x] + g[x]
  <2>1. T \in SUBSET S /\ t \in SUBSET S
    BY <1>2, <1>4
  <2>2. QED
    BY <2>1, FS_Subset
<1>6. \A x \in T : h[x] \in Int
  BY <1>5
<1>7. /\ y \in T
      /\ SumFunctionOnSet(f, T) = f[y] + SumFunctionOnSet(f, t)
      /\ SumFunctionOnSet(g, T) = g[y] + SumFunctionOnSet(g, t)
      /\ SumFunctionOnSet(h, T) = h[y] + SumFunctionOnSet(h, t)
  BY <1>3, <1>4, <1>5, <1>6, SumFirst
<1>8. SumFunctionOnSet(h, t) = SumFunctionOnSet(f, t) + SumFunctionOnSet(g, t)
  BY <1>2, <1>4, <1>7
<1>9. SumFunctionOnSet(f, t) \in Int /\ SumFunctionOnSet(g, t) \in Int
  <2>1. \A x \in t : f[x] \in Int /\ g[x] \in Int
    BY <1>4, <1>5
  <2>2. QED
    BY <1>5, <2>1, SumType
<1>10. QED
  BY <1>2, <1>5, <1>7, <1>8, <1>9
=============================================================================
