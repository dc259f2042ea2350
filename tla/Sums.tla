-------------------------------- MODULE Sums --------------------------------
(***************************************************************************)
(* Facts about the sums and folds that the specifications are built from   *)
(* (SumFunction, FoldLeft): they do not depend on the order in which the   *)
(* elements are taken, they are linear, and how they change with one       *)
(* element.  Induction is over sets of naturals and of subsets, so that    *)
(* first-order provers can use it.                                         *)
(***************************************************************************)
EXTENDS Integers, Functions, FiniteSetTheorems, WellFoundedInduction, TLAPS

-----------------------------------------------------------------------------
(* Induction on the naturals: a set that holds 0 and is closed under the    *)
(* successor holds them all, since a least one outside has a predecessor.   *)
LEMMA NatInSet ==
  ASSUME NEW G, 0 \in G, \A n \in Nat : n \in G => n + 1 \in G
  PROVE  Nat \subseteq G
<1> SUFFICES ASSUME ~ (Nat \subseteq G) PROVE FALSE
  OBVIOUS
<1> DEFINE R == {p \in Nat \X Nat : p[1] < p[2]}
           T == Nat \ G
<1>1. IsWellFoundedOn(R, Nat)
  BY NatLessThanWellFounded DEF OpToRel
<1>2. T \subseteq Nat /\ T # {}
  OBVIOUS
<1>3. PICK x \in T : \A y \in T : <<y, x>> \notin R
  <2> HIDE DEF R, T
  <2> QED BY <1>1, <1>2, WFMin
<1>4. x \in Nat /\ x # 0 /\ x - 1 \in Nat
  OBVIOUS
<1>5. <<x - 1, x>> \in R
  BY <1>4
<1>6. x - 1 \notin T
  <2> HIDE DEF R, T
  <2> QED BY <1>3, <1>5
<1> QED BY <1>4, <1>6

(* Induction on the subsets of a finite set, from the smaller to the larger. *)
LEMMA SubsetsInSet ==
  ASSUME NEW S, IsFiniteSet(S), NEW G,
         \A T \in SUBSET S : (\A x \in T : T \ {x} \in G) => T \in G
  PROVE  SUBSET S \subseteq G
<1> DEFINE N == {n \in Nat : \A T \in SUBSET S : Cardinality(T) = n => T \in G}
<1>1. \A T \in SUBSET S : IsFiniteSet(T) /\ Cardinality(T) \in Nat
  BY FS_Subset, FS_CardinalityType
<1>2. 0 \in N
  <2> SUFFICES ASSUME NEW T \in SUBSET S, Cardinality(T) = 0 PROVE T \in G
    OBVIOUS
  <2>1. T = {}
    BY <1>1, FS_EmptySet
  <2> QED BY <2>1
<1>3. ASSUME NEW n \in Nat, n \in N PROVE n + 1 \in N
  <2> SUFFICES ASSUME NEW T \in SUBSET S, Cardinality(T) = n + 1 PROVE T \in G
    OBVIOUS
  <2>1. ASSUME NEW x \in T PROVE T \ {x} \in G
    <3>1. Cardinality(T \ {x}) = n
      BY <1>1, FS_RemoveElement
    <3> QED BY <3>1, <1>3
  <2> QED BY <2>1
<1>4. Nat \subseteq N
  <2> HIDE DEF N
  <2> QED BY <1>2, <1>3, NatInSet
<1> QED BY <1>1, <1>4

(* A function on the subsets of a finite set may be defined by recursion on *)
(* the subset without the element that is picked from it.                   *)
Descends(S, V, pick, step) ==
  \A T \in SUBSET S : T # {} => pick[T] \in T /\ \A v \in V : step[<<T, v>>] \in V

Recurses(h, S, base, pick, step) ==
  \A T \in SUBSET S : h[T] = IF T = {} THEN base ELSE step[<<T, h[T \ {pick[T]}]>>]

LEMMA SubsetRecursion ==
  ASSUME NEW S, IsFiniteSet(S), NEW V, NEW base \in V, NEW pick, NEW step,
         Descends(S, V, pick, step)
  PROVE  \E h \in [SUBSET S -> V] : Recurses(h, S, base, pick, step)
<1> USE DEF Descends
<1> DEFINE Small(n) == {T \in SUBSET S : Cardinality(T) <= n}
           Rec(h, T) == IF T = {} THEN base ELSE step[<<T, h[T \ {pick[T]}]>>]
           N == {n \in Nat : \E h \in [Small(n) -> V] : \A T \in Small(n) : h[T] = Rec(h, T)}
<1>1. \A T \in SUBSET S : IsFiniteSet(T) /\ Cardinality(T) \in Nat
  BY FS_Subset, FS_CardinalityType
<1>2. 0 \in N
  <2> DEFINE h == [T \in Small(0) |-> base]
  <2>1. \A T \in Small(0) : T = {}
    BY <1>1, FS_EmptySet
  <2>2. h \in [Small(0) -> V] /\ \A T \in Small(0) : h[T] = Rec(h, T)
    BY <2>1
  <2> QED BY <2>2
<1>3. ASSUME NEW n \in Nat, n \in N PROVE n + 1 \in N
  <2>1. PICK g \in [Small(n) -> V] : \A T \in Small(n) : g[T] = Rec(g, T)
    BY <1>3
  <2> DEFINE h == [T \in Small(n + 1) |-> Rec(g, T)]
  <2>2. ASSUME NEW T \in Small(n + 1), T # {} PROVE T \ {pick[T]} \in Small(n)
    <3>1. pick[T] \in T /\ IsFiniteSet(T) /\ Cardinality(T) \in Nat
      BY <2>2, <1>1
    <3>2. PICK x \in T : x = pick[T]
      BY <3>1
    <3>3. Cardinality(T \ {x}) = Cardinality(T) - 1
      <4> HIDE DEF Small, Rec, N, h
      <4> QED BY <3>1, FS_RemoveElement
    <3> QED BY <3>1, <3>2, <3>3
  <2>3. Small(n) \subseteq Small(n + 1)
    BY <1>1
  <2>4. \A T \in Small(n) : h[T] = g[T]
    BY <2>1, <2>3
  <2>5. ASSUME NEW T \in Small(n + 1) PROVE h[T] \in V /\ h[T] = Rec(h, T)
    <3>1. CASE T = {}
      BY <3>1
    <3>2. CASE T # {}
      <4> DEFINE U == T \ {pick[T]}
      <4>1. U \in Small(n) /\ g[U] \in V
        BY <2>1, <2>2, <3>2
      <4>2. h[T] = step[<<T, g[U]>>] /\ h[U] = g[U]
        BY <2>4, <4>1, <3>2
      <4> QED BY <4>1, <4>2, <3>2
    <3> QED BY <3>1, <3>2
  <2>6. h \in [Small(n + 1) -> V]
    BY <2>5
  <2> HIDE DEF h, Rec, Small
  <2> QED BY <2>5, <2>6
<1>4. Nat \subseteq N
  <2> HIDE DEF N
  <2> QED BY <1>2, <1>3, NatInSet
<1>5. Cardinality(S) \in N
  BY <1>1, <1>4
<1>6. Small(Cardinality(S)) = SUBSET S
  BY FS_Subset
<1> QED BY <1>5, <1>6 DEF Recurses

(* On a finite set, a function has a greatest value. *)
LEMMA HasMaxOver ==
  ASSUME NEW S, IsFiniteSet(S), S # {}, NEW f, \A x \in S : f[x] \in Int
  PROVE  \E x \in S : \A y \in S : f[x] >= f[y]
<1> DEFINE G == {T \in SUBSET S : T = {} \/ \E x \in T : \A y \in T : f[x] >= f[y]}
<1>1. ASSUME NEW T \in SUBSET S, \A x \in T : T \ {x} \in G PROVE T \in G
  <2>1. CASE T = {}
    BY <2>1
  <2>2. CASE T # {}
    <3>1. PICK z : z \in T
      BY <2>2
    <3>2. CASE T \ {z} = {}
      <4>1. \A y \in T : y = z /\ f[z] \in Int
        BY <3>1, <3>2
      <4> QED BY <3>1, <4>1
    <3>3. CASE T \ {z} # {}
      <4>1. PICK x \in T \ {z} : \A y \in T \ {z} : f[x] >= f[y]
        BY <1>1, <3>1, <3>3
      <4>2. CASE f[x] >= f[z]
        BY <4>1, <4>2
      <4>3. CASE ~ (f[x] >= f[z])
        <5>1. f[x] \in Int /\ f[z] \in Int /\ \A y \in T : f[y] \in Int
          BY <3>1, <4>1
        <5>2. \A y \in T : f[z] >= f[y]
          BY <4>1, <4>3, <5>1
        <5> QED BY <3>1, <5>2
      <4> QED BY <4>2, <4>3
    <3> QED BY <3>2, <3>3
  <2> QED BY <2>1, <2>2
<1>2. SUBSET S \subseteq G
  <2> HIDE DEF G
  <2> QED BY <1>1, SubsetsInSet
<1> QED BY <1>2

(* So a finite set of integers has a greatest one. *)
LEMMA HasMax ==
  ASSUME NEW S \in SUBSET Int, IsFiniteSet(S), S # {}
  PROVE  \E x \in S : \A y \in S : x >= y
<1> DEFINE f == [x \in S |-> x]
<1>1. \A x \in S : f[x] \in Int /\ f[x] = x
  OBVIOUS
<1> HIDE DEF f
<1>2. PICK x \in S : \A y \in S : f[x] >= f[y]
  BY <1>1, HasMaxOver
<1> QED BY <1>1, <1>2

(* Recursion over the naturals up to n: what a step says of each number and *)
(* of the value of the one before it has a solution.                        *)
Climbs(h, n, base, step) ==
  \A i \in 0..n : h[i] = IF i = 0 THEN base ELSE step[<<i, h[i - 1]>>]

LEMMA RecursionUpTo ==
  ASSUME NEW n \in Nat, NEW V, NEW base \in V, NEW step,
         \A i \in 1..n : \A v \in V : step[<<i, v>>] \in V
  PROVE  \E h \in [0..n -> V] : Climbs(h, n, base, step)
<1> DEFINE G == {k \in Nat : k <= n => \E h \in [0..k -> V] : Climbs(h, k, base, step)}
<1>1. 0 \in G
  <2> DEFINE h == [i \in 0..0 |-> base]
  <2>1. h \in [0..0 -> V] /\ Climbs(h, 0, base, step)
    BY DEF Climbs
  <2> QED BY <2>1
<1>2. ASSUME NEW k \in Nat, k \in G PROVE k + 1 \in G
  <2> SUFFICES ASSUME k + 1 <= n PROVE \E h \in [0..(k + 1) -> V] : Climbs(h, k + 1, base, step)
    OBVIOUS
  <2>1. PICK g \in [0..k -> V] : Climbs(g, k, base, step)
    BY <1>2
  <2> DEFINE h == [i \in 0..(k + 1) |-> IF i <= k THEN g[i] ELSE step[<<i, g[k]>>]]
  <2>2. g[k] \in V /\ step[<<k + 1, g[k]>>] \in V
    BY <2>1
  <2>3. ASSUME NEW i \in 0..(k + 1) PROVE h[i] \in V
    <3>1. CASE i <= k
      <4>1. h[i] = g[i] /\ i \in 0..k
        BY <3>1
      <4> QED BY <2>1, <4>1
    <3>2. CASE ~ (i <= k)
      <4>1. h[i] = step[<<i, g[k]>>] /\ i = k + 1
        BY <3>2
      <4> QED BY <2>2, <4>1
    <3> QED BY <3>1, <3>2
  <2>4. ASSUME NEW i \in 0..(k + 1)
        PROVE  h[i] = IF i = 0 THEN base ELSE step[<<i, h[i - 1]>>]
    <3>1. CASE i <= k
      <4>1. g[i] = IF i = 0 THEN base ELSE step[<<i, g[i - 1]>>]
        BY <2>1, <3>1 DEF Climbs
      <4>2. h[i] = g[i] /\ (i # 0 => h[i - 1] = g[i - 1])
        BY <3>1
      <4> QED BY <4>1, <4>2
    <3>2. CASE ~ (i <= k)
      <4>1. i = k + 1 /\ i - 1 = k /\ i # 0
        BY <3>2
      <4>2. h[i] = step[<<i, g[k]>>] /\ h[i - 1] = g[k]
        BY <4>1
      <4> QED BY <4>1, <4>2
    <3> QED BY <3>1, <3>2
  <2>5. h \in [0..(k + 1) -> V]
    BY <2>3
  <2> HIDE DEF h
  <2> QED BY <2>4, <2>5 DEF Climbs
<1>3. Nat \subseteq G
  <2> HIDE DEF G
  <2> QED BY <1>1, <1>2, NatInSet
<1> QED BY <1>3

-----------------------------------------------------------------------------
(* What SumFunctionOnSet is defined from: h adds f up over the subsets of S. *)
AnyOf(T) == CHOOSE x \in T : TRUE
AddsUp(h, f, S) ==
  h = [T \in SUBSET S |-> IF T = {} THEN 0 ELSE f[AnyOf(T)] + h[T \ {AnyOf(T)}]]

LEMMA SumByAddsUp ==
  ASSUME NEW f, NEW S
  PROVE  SumFunctionOnSet(f, S) = (CHOOSE h : AddsUp(h, f, S))[S]
BY DEF SumFunctionOnSet, FoldFunctionOnSet, MapThenFoldSet, AddsUp, AnyOf

LEMMA AddsUpExists ==
  ASSUME NEW S, IsFiniteSet(S), NEW f, \A x \in S : f[x] \in Int
  PROVE  \E h : AddsUp(h, f, S)
<1> DEFINE pick == [T \in SUBSET S |-> AnyOf(T)]
           step == [p \in (SUBSET S) \X Int |-> f[AnyOf(p[1])] + p[2]]
<1>1. ASSUME NEW T \in SUBSET S, T # {} PROVE AnyOf(T) \in T
  BY <1>1 DEF AnyOf
<1>2. Descends(S, Int, pick, step)
  BY <1>1 DEF Descends
<1>3. PICK h \in [SUBSET S -> Int] : Recurses(h, S, 0, pick, step)
  <2>1. PICK V : V = Int
    OBVIOUS
  <2>2. 0 \in V /\ Descends(S, V, pick, step)
    BY <1>2, <2>1
  <2> HIDE DEF pick, step
  <2>3. \E h \in [SUBSET S -> V] : Recurses(h, S, 0, pick, step)
    BY <2>2, SubsetRecursion
  <2> QED BY <2>1, <2>3
<1>4. ASSUME NEW T \in SUBSET S
      PROVE  h[T] = IF T = {} THEN 0 ELSE f[AnyOf(T)] + h[T \ {AnyOf(T)}]
  <2>1. CASE T = {}
    BY <1>3, <2>1 DEF Recurses
  <2>2. CASE T # {}
    <3>1. h[T \ {AnyOf(T)}] \in Int
      OBVIOUS
    <3> QED BY <1>3, <2>2, <3>1 DEF Recurses
  <2> QED BY <2>1, <2>2
<1>5. AddsUp(h, f, S)
  BY <1>4 DEF AddsUp
<1> QED BY <1>5

LEMMA AddsUpUnique ==
  ASSUME NEW S, IsFiniteSet(S), NEW f, NEW g, NEW U \in SUBSET S,
         AddsUp(f, g, S), NEW h, AddsUp(h, g, U)
  PROVE  \A T \in SUBSET U : f[T] = h[T]
<1> DEFINE G == {T \in SUBSET U : f[T] = h[T]}
<1>1. IsFiniteSet(U)
  BY FS_Subset
<1>2. ASSUME NEW T \in SUBSET U, \A x \in T : T \ {x} \in G PROVE T \in G
  <2>1. CASE T = {}
    BY <2>1 DEF AddsUp
  <2>2. CASE T # {}
    <3>1. AnyOf(T) \in T
      BY <2>2 DEF AnyOf
    <3>2. f[T \ {AnyOf(T)}] = h[T \ {AnyOf(T)}]
      BY <1>2, <3>1
    <3> QED BY <2>2, <3>2 DEF AddsUp
  <2> QED BY <2>1, <2>2
<1>3. SUBSET U \subseteq G
  <2> HIDE DEF G
  <2> QED BY <1>1, <1>2, SubsetsInSet
<1> QED BY <1>3

(* A sum over a set is one of its elements and the sum over the others. *)
LEMMA SumOnEmpty ==
  ASSUME NEW f PROVE SumFunctionOnSet(f, {}) = 0
<1>1. PICK h : AddsUp(h, f, {})
  BY AddsUpExists, FS_EmptySet
<1>2. AddsUp(CHOOSE g : AddsUp(g, f, {}), f, {})
  BY <1>1
<1> QED BY <1>2, SumByAddsUp DEF AddsUp

LEMMA SumOnAny ==
  ASSUME NEW S, IsFiniteSet(S), S # {}, NEW f, \A x \in S : f[x] \in Int
  PROVE  /\ AnyOf(S) \in S
         /\ SumFunctionOnSet(f, S) = f[AnyOf(S)] + SumFunctionOnSet(f, S \ {AnyOf(S)})
<1> DEFINE U == S \ {AnyOf(S)}
           h == CHOOSE h : AddsUp(h, f, S)
           g == CHOOSE g : AddsUp(g, f, U)
<1>1. AnyOf(S) \in S
  BY DEF AnyOf
<1>2. AddsUp(h, f, S)
  BY AddsUpExists
<1>3. IsFiniteSet(U)
  BY FS_Subset
<1>4. AddsUp(g, f, U)
  BY <1>3, AddsUpExists
<1>5. g[U] = h[U]
  <2> HIDE DEF g, h
  <2> QED BY <1>2, <1>4, AddsUpUnique
<1>6. h[S] = f[AnyOf(S)] + h[U]
  <2> HIDE DEF h
  <2> QED BY <1>2 DEF AddsUp
<1>7. SumFunctionOnSet(f, S) = h[S] /\ SumFunctionOnSet(f, U) = g[U]
  BY SumByAddsUp
<1> QED BY <1>1, <1>5, <1>6, <1>7

(* A sum of integers is one, and a sum of naturals is one. *)
LEMMA SumOnInt ==
  ASSUME NEW S, IsFiniteSet(S), NEW f, \A x \in S : f[x] \in Int
  PROVE  SumFunctionOnSet(f, S) \in Int
<1> DEFINE G == {T \in SUBSET S : SumFunctionOnSet(f, T) \in Int}
<1>1. ASSUME NEW T \in SUBSET S, \A x \in T : T \ {x} \in G PROVE T \in G
  <2>1. CASE T = {}
    BY <2>1, SumOnEmpty
  <2>2. CASE T # {}
    <3>1. IsFiniteSet(T)
      BY FS_Subset
    <3>2. AnyOf(T) \in T /\ SumFunctionOnSet(f, T) = f[AnyOf(T)] + SumFunctionOnSet(f, T \ {AnyOf(T)})
      BY <3>1, <2>2, SumOnAny
    <3> QED BY <3>2, <1>1
  <2> QED BY <2>1, <2>2
<1> HIDE DEF G
<1>2. SUBSET S \subseteq G
  BY <1>1, SubsetsInSet
<1> QED BY <1>2 DEF G

LEMMA SumOnNat ==
  ASSUME NEW S, IsFiniteSet(S), NEW f, \A x \in S : f[x] \in Nat
  PROVE  SumFunctionOnSet(f, S) \in Nat
<1> DEFINE G == {T \in SUBSET S : SumFunctionOnSet(f, T) \in Nat}
<1>1. ASSUME NEW T \in SUBSET S, \A x \in T : T \ {x} \in G PROVE T \in G
  <2>1. CASE T = {}
    BY <2>1, SumOnEmpty
  <2>2. CASE T # {}
    <3>1. IsFiniteSet(T) /\ \A x \in T : f[x] \in Int
      BY FS_Subset
    <3>2. AnyOf(T) \in T /\ SumFunctionOnSet(f, T) = f[AnyOf(T)] + SumFunctionOnSet(f, T \ {AnyOf(T)})
      BY <3>1, <2>2, SumOnAny
    <3> QED BY <3>2, <1>1
  <2> QED BY <2>1, <2>2
<1> HIDE DEF G
<1>2. SUBSET S \subseteq G
  BY <1>1, SubsetsInSet
<1> QED BY <1>2 DEF G

(* Whichever element is taken first, the sum is the same. *)
LEMMA SumOnRemove ==
  ASSUME NEW S, IsFiniteSet(S), NEW f, \A x \in S : f[x] \in Int, NEW z \in S
  PROVE  SumFunctionOnSet(f, S) = f[z] + SumFunctionOnSet(f, S \ {z})
<1> DEFINE Sum(T) == SumFunctionOnSet(f, T)
           G == {T \in SUBSET S : \A x \in T : Sum(T) = f[x] + Sum(T \ {x})}
<1>1. ASSUME NEW T \in SUBSET S, \A x \in T : T \ {x} \in G PROVE T \in G
  <2> SUFFICES ASSUME NEW x \in T PROVE Sum(T) = f[x] + Sum(T \ {x})
    OBVIOUS
  <2> DEFINE y == AnyOf(T)
             U == (T \ {x}) \ {y}
  <2>1. IsFiniteSet(T) /\ IsFiniteSet(U)
    BY FS_Subset
  <2>2. y \in T /\ Sum(T) = f[y] + Sum(T \ {y})
    BY <2>1, SumOnAny
  <2>3. CASE x = y
    BY <2>2, <2>3
  <2>4. CASE x # y
    <3>1. (T \ {y}) \ {x} = U
      OBVIOUS
    <3>2. Sum(T \ {y}) = f[x] + Sum(U)
      BY <1>1, <2>2, <2>4, <3>1
    <3>3. Sum(T \ {x}) = f[y] + Sum(U)
      BY <1>1, <2>2, <2>4
    <3>4. Sum(U) \in Int /\ f[x] \in Int /\ f[y] \in Int
      BY <2>1, <2>2, SumOnInt
    <3> HIDE DEF Sum
    <3> QED BY <2>2, <3>2, <3>3, <3>4
  <2> QED BY <2>3, <2>4
<1> HIDE DEF G
<1>2. SUBSET S \subseteq G
  BY <1>1, SubsetsInSet
<1> QED BY <1>2 DEF G

(* Sums are added element by element: h is f and g together on S. *)
LEMMA SumOnPlus ==
  ASSUME NEW S, IsFiniteSet(S), NEW f, NEW g, NEW h,
         \A x \in S : f[x] \in Int /\ g[x] \in Int /\ h[x] = f[x] + g[x]
  PROVE  SumFunctionOnSet(h, S) = SumFunctionOnSet(f, S) + SumFunctionOnSet(g, S)
<1> DEFINE Sum(k, T) == SumFunctionOnSet(k, T)
           G == {T \in SUBSET S : Sum(h, T) = Sum(f, T) + Sum(g, T)}
<1>1. ASSUME NEW T \in SUBSET S, \A x \in T : T \ {x} \in G PROVE T \in G
  <2>1. CASE T = {}
    BY <2>1, SumOnEmpty
  <2>2. CASE T # {}
    <3>1. PICK x : x \in T
      BY <2>2
    <3>2. IsFiniteSet(T) /\ IsFiniteSet(T \ {x})
      BY FS_Subset
    <3>3. /\ Sum(f, T \ {x}) \in Int /\ Sum(g, T \ {x}) \in Int
          /\ f[x] \in Int /\ g[x] \in Int
      BY <3>1, <3>2, SumOnInt
    <3>4. /\ Sum(f, T) = f[x] + Sum(f, T \ {x})
          /\ Sum(g, T) = g[x] + Sum(g, T \ {x})
          /\ Sum(h, T) = h[x] + Sum(h, T \ {x})
      BY <3>1, <3>2, SumOnRemove
    <3>5. Sum(h, T \ {x}) = Sum(f, T \ {x}) + Sum(g, T \ {x}) /\ h[x] = f[x] + g[x]
      BY <1>1, <3>1
    <3> HIDE DEF Sum
    <3> QED BY <3>3, <3>4, <3>5
  <2> QED BY <2>1, <2>2
<1> HIDE DEF G
<1>2. SUBSET S \subseteq G
  BY <1>1, SubsetsInSet
<1> QED BY <1>2 DEF G

(* What is nothing adds nothing. *)
LEMMA SumOnZero ==
  ASSUME NEW S, IsFiniteSet(S), NEW f, \A x \in S : f[x] = 0
  PROVE  SumFunctionOnSet(f, S) = 0
<1> DEFINE G == {T \in SUBSET S : SumFunctionOnSet(f, T) = 0}
<1>1. ASSUME NEW T \in SUBSET S, \A x \in T : T \ {x} \in G PROVE T \in G
  <2>1. CASE T = {}
    BY <2>1, SumOnEmpty
  <2>2. CASE T # {}
    <3>1. IsFiniteSet(T)
      BY FS_Subset
    <3>2. \A x \in T : f[x] \in Int
      OBVIOUS
    <3>3. PICK x \in T : SumFunctionOnSet(f, T) = f[x] + SumFunctionOnSet(f, T \ {x})
      <4> HIDE DEF G
      <4> QED BY ONLY <3>1, <3>2, <2>2, SumOnAny
    <3> QED BY <3>3, <1>1
  <2> QED BY <2>1, <2>2
<1> HIDE DEF G
<1>2. SUBSET S \subseteq G
  BY <1>1, SubsetsInSet
<1> QED BY <1>2 DEF G

(* So functions that are equal on a set have one sum over it. *)
LEMMA SumOnSame ==
  ASSUME NEW S, IsFiniteSet(S), NEW f, NEW g, \A x \in S : f[x] \in Int /\ g[x] = f[x]
  PROVE  SumFunctionOnSet(g, S) = SumFunctionOnSet(f, S)
<1> DEFINE z == [x \in S |-> 0]
<1>1. SumFunctionOnSet(g, S) = SumFunctionOnSet(f, S) + SumFunctionOnSet(z, S)
  <2>1. \A x \in S : f[x] \in Int /\ z[x] \in Int /\ g[x] = f[x] + z[x]
    OBVIOUS
  <2> HIDE DEF z
  <2> QED BY <2>1, SumOnPlus
<1>2. SumFunctionOnSet(z, S) = 0
  BY SumOnZero
<1>3. SumFunctionOnSet(f, S) \in Int
  BY SumOnInt
<1> QED BY <1>1, <1>2, <1>3

(* And the elements where a function is 0 may be left out. *)
LEMMA SumOnWithin ==
  ASSUME NEW S, IsFiniteSet(S), NEW f, \A x \in S : f[x] \in Int,
         NEW U \in SUBSET S, \A x \in S \ U : f[x] = 0
  PROVE  SumFunctionOnSet(f, S) = SumFunctionOnSet(f, U)
<1> DEFINE Sum(T) == SumFunctionOnSet(f, T)
           G == {T \in SUBSET S : Sum(T) = Sum(T \intersect U)}
<1>1. ASSUME NEW T \in SUBSET S, \A x \in T : T \ {x} \in G PROVE T \in G
  <2>1. CASE T \subseteq U
    <3>1. T \intersect U = T
      BY <2>1
    <3> QED BY <3>1
  <2>2. CASE ~ (T \subseteq U)
    <3>1. PICK x \in T : x \notin U
      BY <2>2
    <3>2. (T \ {x}) \intersect U = T \intersect U
      BY <3>1
    <3>3. IsFiniteSet(T) /\ IsFiniteSet(T \ {x})
      BY FS_Subset
    <3>4. Sum(T) = f[x] + Sum(T \ {x}) /\ Sum(T \ {x}) \in Int /\ f[x] = 0
      BY <3>1, <3>3, SumOnRemove, SumOnInt
    <3>5. Sum(T \ {x}) = Sum(T \intersect U)
      BY <1>1, <3>1, <3>2
    <3> HIDE DEF Sum
    <3> QED BY <3>4, <3>5
  <2> QED BY <2>1, <2>2
<1> HIDE DEF G
<1>2. SUBSET S \subseteq G
  BY <1>1, SubsetsInSet
<1>3. S \intersect U = U
  OBVIOUS
<1> QED BY <1>2, <1>3 DEF G

-----------------------------------------------------------------------------
(* The same of functions, summed over the set they are defined on. *)
LEMMA SumNat ==
  ASSUME NEW S, IsFiniteSet(S), NEW f \in [S -> Nat]
  PROVE  SumFunction(f) \in Nat
BY SumOnNat DEF SumFunction

LEMMA SumInt ==
  ASSUME NEW S, IsFiniteSet(S), NEW f \in [S -> Int]
  PROVE  SumFunction(f) \in Int
BY SumOnInt DEF SumFunction

LEMMA SumZero ==
  ASSUME NEW S, IsFiniteSet(S), NEW f \in [S -> Int], \A x \in S : f[x] = 0
  PROVE  SumFunction(f) = 0
BY SumOnZero DEF SumFunction

LEMMA SumPlus ==
  ASSUME NEW S, IsFiniteSet(S), NEW f \in [S -> Int], NEW g \in [S -> Int], NEW h \in [S -> Int],
         \A x \in S : h[x] = f[x] + g[x]
  PROVE  SumFunction(h) = SumFunction(f) + SumFunction(g)
<1>1. \A x \in S : f[x] \in Int /\ g[x] \in Int /\ h[x] = f[x] + g[x]
  OBVIOUS
<1>2. SumFunctionOnSet(h, S) = SumFunctionOnSet(f, S) + SumFunctionOnSet(g, S)
  BY <1>1, SumOnPlus
<1> QED BY <1>2 DEF SumFunction

LEMMA SumOver ==
  ASSUME NEW S, IsFiniteSet(S), NEW U \in SUBSET S,
         NEW f \in [S -> Int], NEW g \in [U -> Int],
         \A x \in U : g[x] = f[x], \A x \in S \ U : f[x] = 0
  PROVE  SumFunction(f) = SumFunction(g)
<1>1. SumFunctionOnSet(f, S) = SumFunctionOnSet(f, U)
  BY SumOnWithin
<1>2. IsFiniteSet(U) /\ \A x \in U : f[x] \in Int /\ g[x] = f[x]
  BY FS_Subset
<1>3. SumFunctionOnSet(g, U) = SumFunctionOnSet(f, U)
  BY <1>2, SumOnSame
<1> QED BY <1>1, <1>3 DEF SumFunction

LEMMA SumChanged ==
  ASSUME NEW S, IsFiniteSet(S), NEW f \in [S -> Int], NEW g \in [S -> Int], NEW z \in S,
         \A x \in S \ {z} : g[x] = f[x]
  PROVE  SumFunction(g) = SumFunction(f) - f[z] + g[z]
<1> DEFINE U == S \ {z}
<1>1. IsFiniteSet(U) /\ \A x \in U : f[x] \in Int /\ g[x] = f[x]
  BY FS_Subset
<1>2. SumFunctionOnSet(g, U) = SumFunctionOnSet(f, U) /\ SumFunctionOnSet(f, U) \in Int
  BY <1>1, SumOnSame, SumOnInt
<1>3. /\ SumFunctionOnSet(f, S) = f[z] + SumFunctionOnSet(f, U)
      /\ SumFunctionOnSet(g, S) = g[z] + SumFunctionOnSet(g, U)
  BY SumOnRemove
<1> QED BY <1>2, <1>3 DEF SumFunction

(* A sum does not change when what it is over is renamed. *)
LEMMA SumRenamed ==
  ASSUME NEW S, IsFiniteSet(S), NEW T, NEW f \in [T -> Int], NEW g \in [S -> Int],
         NEW to \in Bijection(S, T), \A x \in S : g[x] = f[to[x]]
  PROVE  SumFunction(g) = SumFunction(f)
<1> DEFINE Img(U) == {to[x] : x \in U}
           Sum(h, U) == SumFunctionOnSet(h, U)
           G == {U \in SUBSET S : Sum(g, U) = Sum(f, Img(U))}
<1>0. /\ to \in [S -> T] /\ \A x, y \in S : to[x] = to[y] => x = y
      /\ \A y \in T : \E x \in S : to[x] = y
  BY DEF Bijection, Injection, Surjection, IsInjective
<1>1. ASSUME NEW U \in SUBSET S, \A x \in U : U \ {x} \in G PROVE U \in G
  <2>1. CASE U = {}
    <3>1. Img(U) = {}
      BY <2>1
    <3> HIDE DEF Img
    <3> QED BY <2>1, <3>1, SumOnEmpty
  <2>2. CASE U # {}
    <3>1. PICK x \in U : TRUE
      BY <2>2
    <3>2. Img(U) \ {to[x]} = Img(U \ {x}) /\ to[x] \in Img(U) /\ Img(U) \subseteq T
      BY <1>0
    <3>3. IsFiniteSet(U)
      BY FS_Subset
    <3>4. IsFiniteSet(Img(U))
      <4> DEFINE on == [y \in U |-> to[y]]
      <4>1. on \in Surjection(U, Img(U))
        BY DEF Surjection
      <4> HIDE DEF on, Img
      <4> QED BY <3>3, <4>1, FS_Surjection
    <3>5. Sum(g, U \ {x}) = Sum(f, Img(U \ {x}))
      BY <1>1, <3>1
    <3>6. \A y \in Img(U) : f[y] \in Int
      BY <3>2
    <3>7. \A y \in U : g[y] \in Int
      OBVIOUS
    <3>8. g[x] = f[to[x]]
      BY <3>1
    <3> HIDE DEF Img
    <3>9. Sum(g, U) = g[x] + Sum(g, U \ {x})
      BY <3>1, <3>3, <3>7, SumOnRemove
    <3>10. Sum(f, Img(U)) = f[to[x]] + Sum(f, Img(U) \ {to[x]})
      BY <3>2, <3>4, <3>6, SumOnRemove
    <3> QED BY <3>2, <3>5, <3>8, <3>9, <3>10
  <2> QED BY <2>1, <2>2
<1>2. SUBSET S \subseteq G
  <2> HIDE DEF G
  <2> QED BY <1>1, SubsetsInSet
<1>3. Img(S) = T
  BY <1>0
<1>4. Sum(g, S) = Sum(f, T)
  BY <1>2, <1>3
<1> QED BY <1>4 DEF SumFunction

(* The sum of a sequence of integers without the one at an index. *)
LEMMA SumWithout ==
  ASSUME NEW n \in Nat, NEW i \in 1..(n + 1), NEW f \in [1..(n + 1) -> Int],
         NEW g \in [1..n -> Int],
         \A j \in 1..n : g[j] = f[IF j < i THEN j ELSE j + 1]
  PROVE  SumFunction(f) = f[i] + SumFunction(g)
<1> DEFINE D == 1..(n + 1)
           T == D \ {i}
           h == [j \in T |-> f[j]]
           to == [j \in 1..n |-> IF j < i THEN j ELSE j + 1]
<1>1. IsFiniteSet(1..n) /\ IsFiniteSet(D)
  BY FS_Interval
<1>2. to \in [1..n -> T] /\ h \in [T -> Int] /\ \A j \in 1..n : g[j] = h[to[j]]
  OBVIOUS
<1>3. \A x, y \in 1..n : to[x] = to[y] => x = y
  OBVIOUS
<1>4. ASSUME NEW y \in T PROVE \E x \in 1..n : to[x] = y
  <2>1. CASE y < i
    <3>1. y \in 1..n /\ to[y] = y
      BY <2>1
    <3> QED BY <3>1
  <2>2. CASE ~ (y < i)
    <3>1. y - 1 \in 1..n /\ to[y - 1] = y
      BY <2>2
    <3> QED BY <3>1
  <2> QED BY <2>1, <2>2
<1> HIDE DEF to, h
<1>9. to \in Bijection(1..n, T)
  BY <1>2, <1>3, <1>4 DEF Bijection, Injection, Surjection, IsInjective
<1>5. SumFunction(g) = SumFunction(h)
  <2> HIDE DEF T
  <2>1. PICK S : S = 1..n
    OBVIOUS
  <2>2. /\ IsFiniteSet(S) /\ h \in [T -> Int] /\ g \in [S -> Int] /\ to \in Bijection(S, T)
        /\ \A x \in S : g[x] = h[to[x]]
    BY <1>1, <1>2, <1>9, <2>1
  <2> QED BY <2>2, SumRenamed
<1>6. SumFunctionOnSet(f, D) = f[i] + SumFunctionOnSet(f, T)
  BY <1>1, SumOnRemove
<1>7. SumFunctionOnSet(f, T) = SumFunctionOnSet(h, T)
  <2>1. IsFiniteSet(T)
    BY <1>1, FS_Subset
  <2>2. \A x \in T : f[x] \in Int /\ h[x] = f[x]
    BY DEF h
  <2> HIDE DEF T
  <2> QED BY <2>1, <2>2, SumOnSame
<1>8. SumFunction(h) = SumFunctionOnSet(h, T) /\ SumFunction(f) = SumFunctionOnSet(f, D)
  BY DEF SumFunction, h
<1> QED BY <1>5, <1>6, <1>7, <1>8

=============================================================================
