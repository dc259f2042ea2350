-------------------------- MODULE CollisionTreeProofs -------------------------
(***************************************************************************)
(* Proofs about AabbTree and CollisionTree, for all entities, places and   *)
(* ranges and any number of rewinds: the tree keeps its shape, each entity *)
(* keeps its one leaf, queries find who is near, and an operation on one   *)
(* leaf leaves the others as they are.                                     *)
(***************************************************************************)
EXTENDS CollisionTree, Sums, TLAPS

-----------------------------------------------------------------------------
(* Types, and the ways up and down.                                         *)

(* Points, boxes, nodes and trees, over the integers.                       *)
PointType == [1..2 -> Int]
BoxType == [1..2 -> PointType]
NodeType == [height : Int, parent : Nat, left : Nat, right : Nat, box : BoxType, data : Nat]
TreeType == [nodes : Seq(NodeType), root : Nat, free : Nat]

(* The greater of two integers.                                             *)
LEMMA MaxOfTwo == ASSUME NEW a \in Int, NEW b \in Int PROVE Max({a, b}) = IF a >= b THEN a ELSE b
BY DEF Max

(* And the lesser.                                                          *)
LEMMA MinOfTwo == ASSUME NEW a \in Int, NEW b \in Int PROVE Min({a, b}) = IF a <= b THEN a ELSE b
BY DEF Min

(* The union of two boxes is a box.                                         *)
LEMMA UnionType == ASSUME NEW a \in BoxType, NEW b \in BoxType PROVE Union(a, b) \in BoxType
BY MaxOfTwo, MinOfTwo DEF BoxType, PointType, Union

(* The indices of a sequence of nodes are finitely many.                    *)
LEMMA IndicesFinite ==
  ASSUME NEW T, NEW nodes \in Seq(T), NEW S \in SUBSET DOMAIN nodes
  PROVE  IsFiniteSet(S) /\ Cardinality(S) \in Nat /\ Cardinality(S) <= Len(nodes)
<1>1. Len(nodes) \in Nat /\ DOMAIN nodes = 1..Len(nodes)
  OBVIOUS
<1>2. IsFiniteSet(1..Len(nodes)) /\ Cardinality(1..Len(nodes)) = Len(nodes)
  <2>1. Len(nodes) \in Int /\ 1 \in Int
    BY <1>1
  <2>2. /\ IsFiniteSet(1..Len(nodes))
        /\ Cardinality(1..Len(nodes)) = IF 1 > Len(nodes) THEN 0 ELSE Len(nodes) - 1 + 1
    BY <2>1, FS_Interval
  <2> QED BY <1>1, <2>2
<1> QED BY <1>1, <1>2, FS_Subset, FS_CardinalityType

(* A set of nodes whose parents are in it.                                  *)
ParentsIn(nodes, S) ==
  S \subseteq DOMAIN nodes /\ \A j \in S : nodes[j].parent \in S \union {None}

(* Up is the sequence of parents of i, and never leaves such a set.         *)
LEMMA UpFacts ==
  ASSUME NEW T, NEW nodes \in Seq(T), NEW S, ParentsIn(nodes, S), NEW i \in S \union {None}
  PROVE  /\ Up(nodes, i) \in [0..Len(nodes) -> S \union {None}]
         /\ Up(nodes, i)[0] = i
         /\ \A k \in 1..Len(nodes) :
              Up(nodes, i)[k] = IF Up(nodes, i)[k - 1] = None THEN None
                                ELSE nodes[Up(nodes, i)[k - 1]].parent
<1> DEFINE n == Len(nodes)
           V == S \union {None}
           above == [j \in {None} \union DOMAIN nodes |-> IF j = None THEN None ELSE nodes[j].parent]
           step == [x \in (1..n) \X V |-> above[x[2]]]
           Is(f) == f = [k \in 0..n |-> IF k = 0 THEN i ELSE above[f[k - 1]]]
<1>1. n \in Nat
  OBVIOUS
<1>2. ASSUME NEW v \in V PROVE above[v] \in V /\ above[v] = IF v = None THEN None ELSE nodes[v].parent
  BY DEF ParentsIn
<1>3. \A k \in 1..n : \A v \in V : step[<<k, v>>] = above[v]
  <2> HIDE DEF V, above
  <2> QED OBVIOUS
<1> HIDE DEF n, V, above, step
<1>4. PICK h \in [0..n -> V] : Climbs(h, n, i, step)
  <2>1. \A k \in 1..n : \A v \in V : step[<<k, v>>] \in V
    BY <1>2, <1>3
  <2>2. i \in V
    BY DEF V
  <2> QED BY <1>1, <2>1, <2>2, RecursionUpTo
<1>5. ASSUME NEW k \in 0..n PROVE h[k] = IF k = 0 THEN i ELSE above[h[k - 1]]
  <2>1. CASE k = 0
    BY <1>4, <2>1 DEF Climbs
  <2>2. CASE k # 0
    <3>1. k \in 1..n /\ k - 1 \in 0..n
      BY <1>1, <2>2
    <3>2. h[k] = step[<<k, h[k - 1]>>] /\ h[k - 1] \in V
      BY <1>4, <2>2, <3>1 DEF Climbs
    <3> QED BY <1>3, <2>2, <3>1, <3>2
  <2> QED BY <2>1, <2>2
<1>6. Is(h)
  BY <1>4, <1>5
<1>7. Is(Up(nodes, i))
  <2>1. Up(nodes, i) = CHOOSE f : Is(f)
    BY DEF Up, n, above
  <2> HIDE DEF Is
  <2> QED BY <1>6, <2>1
<1> DEFINE u == Up(nodes, i)
<1> HIDE DEF u
<1>8. /\ DOMAIN u = 0..n /\ u = [k \in 0..n |-> u[k]]
      /\ \A k \in 0..n : u[k] = IF k = 0 THEN i ELSE above[u[k - 1]]
  <2>1. Is(u)
    BY <1>7 DEF u
  <2> QED BY <2>1
<1> DEFINE G == {k \in Nat : k <= n => u[k] \in V}
<1>9. 0 \in G
  BY <1>1, <1>8 DEF V
<1>10. ASSUME NEW k \in Nat, k \in G PROVE k + 1 \in G
  <2> SUFFICES ASSUME k + 1 <= n PROVE u[k + 1] \in V
    OBVIOUS
  <2>1. u[k] \in V /\ k + 1 \in 0..n /\ (k + 1) - 1 = k
    BY <1>1, <1>10
  <2>2. u[k + 1] = IF k + 1 = 0 THEN i ELSE above[u[(k + 1) - 1]]
    BY <1>8, <2>1

  <2>3. k + 1 # 0
    OBVIOUS
  <2> QED BY <1>2, <2>1, <2>2, <2>3
<1>11. \A k \in 0..n : u[k] \in V
  <2>1. Nat \subseteq G
    <3> HIDE DEF G
    <3> QED BY <1>9, <1>10, NatInSet
  <2> QED BY <1>1, <2>1
<1>12. u \in [0..n -> V]
  BY <1>8, <1>11
<1>13. \A k \in 1..n : u[k] = IF u[k - 1] = None THEN None ELSE nodes[u[k - 1]].parent
  <2> TAKE k \in 1..n
  <2>1. k \in 0..n /\ k # 0 /\ k - 1 \in 0..n
    BY <1>1
  <2> QED BY <1>2, <1>8, <1>11, <2>1
<1> QED
  <2>1. u[0] = i
    BY <1>1, <1>8
  <2> QED BY <1>12, <1>13, <2>1 DEF u, V, n

(* A chain u in S ends at None; on it r only rises.                         *)
Rises(u, n, S, r) ==
  /\ u \in [0..n -> S \union {None}] /\ None \notin S /\ r \in [S -> Int]
  /\ \A k \in 1..n : u[k] # None => u[k - 1] # None /\ r[u[k]] > r[u[k - 1]]

(* What comes later on a chain is higher.                                   *)
LEMMA ChainRises ==
  ASSUME NEW n \in Nat, NEW S, NEW u, NEW r, Rises(u, n, S, r)
  PROVE  \A a, b \in 0..n : a < b /\ u[b] # None => u[a] # None /\ r[u[a]] < r[u[b]]
<1> USE DEF Rises
<1> DEFINE P(b) == \A a \in 0..n : a < b /\ u[b] # None => u[a] # None /\ r[u[a]] < r[u[b]]
           G == {b \in Nat : b <= n => P(b)}
<1>1. 0 \in G
  OBVIOUS
<1>2. ASSUME NEW b \in Nat, b \in G PROVE b + 1 \in G
  <2> SUFFICES ASSUME b + 1 <= n, NEW a \in 0..n, a < b + 1, u[b + 1] # None
               PROVE  u[a] # None /\ r[u[a]] < r[u[b + 1]]
    OBVIOUS
  <2>1. b + 1 \in 1..n /\ (b + 1) - 1 = b /\ b \in 0..n
    OBVIOUS
  <2>2. u[b] # None /\ r[u[b + 1]] > r[u[b]]
    BY <2>1
  <2>3. u[b] \in S /\ u[b + 1] \in S /\ r[u[b]] \in Int /\ r[u[b + 1]] \in Int
    BY <2>1, <2>2
  <2>4. CASE a = b
    BY <2>2, <2>3, <2>4
  <2>5. CASE a < b
    <3>1. u[a] # None /\ r[u[a]] < r[u[b]]
      BY <1>2, <2>1, <2>2, <2>5
    <3>2. r[u[a]] \in Int
      BY <3>1
    <3> QED BY <2>2, <2>3, <3>1, <3>2
  <2> QED BY <2>4, <2>5
<1>3. Nat \subseteq G
  <2> HIDE DEF G
  <2> QED BY <1>1, <1>2, NatInSet
<1> QED BY <1>3

(* A chain of as many steps as there are nodes has ended: it meets none     *)
(* twice.                                                                   *)
LEMMA ChainEnds ==
  ASSUME NEW n \in Nat, NEW S, NEW u, NEW r, Rises(u, n, S, r),
         IsFiniteSet(S), NEW c \in 0..n, Cardinality(S) <= c
  PROVE  u[c] = None
<1> SUFFICES ASSUME u[c] # None PROVE FALSE
  OBVIOUS
<1>1. \A a, b \in 0..n : a < b /\ u[b] # None => u[a] # None /\ r[u[a]] < r[u[b]]
  BY ChainRises
<1>2. \A k \in 0..c : k \in 0..n /\ u[k] # None /\ u[k] \in S /\ r[u[k]] \in Int
  <2> TAKE k \in 0..c
  <2>1. k \in 0..n /\ (k = c \/ k < c)
    OBVIOUS
  <2>2. u[k] # None
    BY <1>1, <2>1
  <2> QED BY <2>1, <2>2 DEF Rises
<1>3. IsFiniteSet(0..c) /\ Cardinality(0..c) = c + 1
  <2>1. 0 \in Int /\ c \in Int /\ ~ (0 > c) /\ c - 0 + 1 = c + 1
    OBVIOUS
  <2> QED BY <2>1, FS_Interval
<1>4. Cardinality(S) < Cardinality(0..c)
  BY <1>3, FS_CardinalityType
<1> DEFINE f == [k \in 0..c |-> u[k]]
<1>5. f \in [0..c -> S]
  BY <1>2
<1>6. PICK a, b \in 0..c : a # b /\ f[a] = f[b]
  <2> HIDE DEF f
  <2> QED BY <1>3, <1>4, <1>5, FS_PigeonHole
<1>7. u[a] = u[b] /\ (a < b \/ b < a)
  BY <1>6
<1> QED BY <1>1, <1>2, <1>6, <1>7

(* The children of a node.                                                  *)
Kids(nodes, j) == {nodes[j].left, nodes[j].right}

(* w is the walk, step by step.                                             *)
WalkSteps(nodes, i, S, w) ==
  /\ w \in [0..Len(nodes) -> SUBSET S]
  /\ Walk(nodes, i, S) = w[Len(nodes)]
  /\ w[0] = S \intersect {i}
  /\ \A k \in 1..Len(nodes) : w[k] = S \intersect UNION {{j} \union Kids(nodes, j) : j \in w[k - 1]}

(* The recursive function of Walk is one.                                   *)
LEMMA WalkIs ==
  ASSUME NEW T, NEW nodes \in Seq(T), NEW S \in SUBSET DOMAIN nodes, NEW i
  PROVE  \E w : WalkSteps(nodes, i, S, w)
<1> DEFINE n == Len(nodes)
           V == SUBSET S
           New(w) == S \intersect UNION {{j, nodes[j].left, nodes[j].right} : j \in w}
           step == [x \in (1..n) \X V |-> New(x[2])]
           Is(f) == f = [k \in 0..n |-> S \intersect IF k = 0 THEN {i}
                           ELSE UNION {{j, nodes[j].left, nodes[j].right} : j \in f[k - 1]}]
<1>1. n \in Nat /\ S \intersect {i} \in V
  OBVIOUS
<1>2. \A k \in 1..n : \A v \in V : step[<<k, v>>] = New(v)
  <2> HIDE DEF V, New
  <2> QED OBVIOUS
<1>3. \A v \in V : New(v) \in V
  OBVIOUS
<1>4. PICK h \in [0..n -> V] : Climbs(h, n, S \intersect {i}, step)
  <2> HIDE DEF n, V, New, step
  <2>1. \A k \in 1..n : \A v \in V : step[<<k, v>>] \in V
    BY <1>2, <1>3
  <2> QED BY <1>1, <2>1, RecursionUpTo
<1>5. ASSUME NEW k \in 0..n PROVE h[k] = IF k = 0 THEN S \intersect {i} ELSE New(h[k - 1])
  <2> HIDE DEF V, New, step
  <2>1. CASE k = 0
    BY <1>4, <2>1 DEF Climbs
  <2>2. CASE k # 0
    <3>1. k \in 1..n /\ k - 1 \in 0..n
      BY <1>1, <2>2
    <3>2. h[k] = step[<<k, h[k - 1]>>] /\ h[k - 1] \in V
      BY <1>4, <2>2, <3>1 DEF Climbs
    <3> QED BY <1>2, <2>2, <3>1, <3>2
  <2> QED BY <2>1, <2>2
<1>6. Is(h)
  <2>1. \A k \in 0..n : h[k] = S \intersect IF k = 0 THEN {i}
                           ELSE UNION {{j, nodes[j].left, nodes[j].right} : j \in h[k - 1]}
    BY <1>5
  <2> QED BY <1>4, <2>1
<1> DEFINE w == CHOOSE f : Is(f)
<1>7. Is(w)
  <2> HIDE DEF Is
  <2> QED BY <1>6
<1>8. Walk(nodes, i, S) = w[n]
  BY DEF Walk
<1> HIDE DEF w
<1>9. /\ DOMAIN w = 0..n /\ w = [k \in 0..n |-> w[k]]
      /\ \A k \in 0..n : w[k] = S \intersect IF k = 0 THEN {i}
                           ELSE UNION {{j, nodes[j].left, nodes[j].right} : j \in w[k - 1]}
  BY <1>7
<1>10. w \in [0..n -> SUBSET S]
  BY <1>9
<1>11. w[0] = S \intersect {i}
  BY <1>1, <1>9
<1>12. \A k \in 1..n : w[k] = S \intersect UNION {{j} \union Kids(nodes, j) : j \in w[k - 1]}
  <2> TAKE k \in 1..n
  <2>1. k \in 0..n /\ k # 0
    BY <1>1
  <2>2. w[k] = S \intersect UNION {{j, nodes[j].left, nodes[j].right} : j \in w[k - 1]}
    BY <1>9, <2>1
  <2>3. \A j \in w[k - 1] : {j, nodes[j].left, nodes[j].right} = {j} \union Kids(nodes, j)
    BY DEF Kids
  <2> QED BY <2>2, <2>3
<1> QED BY <1>8, <1>10, <1>11, <1>12 DEF WalkSteps

(* A walk is the least set that holds i and the children within S of all it *)
(* holds, so that the steps the model allows it are enough.                 *)
LEMMA WalkFacts ==
  ASSUME NEW T, NEW nodes \in Seq(T), NEW S \in SUBSET DOMAIN nodes, NEW i
  PROVE  /\ Walk(nodes, i, S) \subseteq S
         /\ i \in S => i \in Walk(nodes, i, S)
         /\ \A j \in Walk(nodes, i, S) : Kids(nodes, j) \intersect S \subseteq Walk(nodes, i, S)
         /\ \A X : /\ i \in S => i \in X
                   /\ \A j \in X \intersect S : Kids(nodes, j) \intersect S \subseteq X
                   => Walk(nodes, i, S) \subseteq X
<1> DEFINE n == Len(nodes)
           Closed(w) == \A j \in w : Kids(nodes, j) \intersect S \subseteq w
<1>0. PICK w : WalkSteps(nodes, i, S, w)
  BY WalkIs
<1>1. /\ w \in [0..n -> SUBSET S]
      /\ Walk(nodes, i, S) = w[n]
      /\ w[0] = S \intersect {i}
      /\ \A k \in 1..n : w[k] = S \intersect UNION {{j} \union Kids(nodes, j) : j \in w[k - 1]}
  BY <1>0 DEF WalkSteps
<1>2. n \in Nat
  OBVIOUS
<1> HIDE DEF n
<1>3. ASSUME NEW k \in Nat, k + 1 <= n
      PROVE  /\ w[k] \subseteq S /\ w[k + 1] \subseteq S
             /\ w[k + 1] = S \intersect UNION {{j} \union Kids(nodes, j) : j \in w[k]}
             /\ w[k] \subseteq w[k + 1]
             /\ Closed(w[k]) => w[k + 1] = w[k]
             /\ w[k + 1] = w[k] => Closed(w[k])
  <2>1. k \in 0..n /\ k + 1 \in 0..n /\ k + 1 \in 1..n /\ (k + 1) - 1 = k
    BY <1>2, <1>3
  <2>2. w[k] \subseteq S /\ w[k + 1] \subseteq S
    BY <1>1, <2>1
  <2>3. w[k + 1] = S \intersect UNION {{j} \union Kids(nodes, j) : j \in w[(k + 1) - 1]}
    BY <1>1, <2>1
  <2>4. w[k + 1] = S \intersect UNION {{j} \union Kids(nodes, j) : j \in w[k]}
    BY <2>1, <2>3
  <2> QED BY <2>2, <2>4
<1> DEFINE G == {k \in Nat : k <= n => /\ i \in S => i \in w[k]
                                       /\ Closed(w[k]) \/ Cardinality(w[k]) >= k + 1}
<1>4. 0 \in G
  <2>1. i \in S => w[0] = {i}
    BY <1>1
  <2>2. i \notin S => w[0] = {}
    BY <1>1
  <2>3. Cardinality({i}) = 1
    BY FS_Singleton
  <2>4. CASE i \in S
    <3>1. w[0] = {i}
      BY <2>1, <2>4
    <3>2. Cardinality(w[0]) >= 0 + 1 /\ i \in w[0]
      BY <2>3, <3>1
    <3> HIDE DEF Closed
    <3> QED BY <1>2, <3>2
  <2>5. CASE i \notin S
    BY <2>2, <2>5
  <2> QED BY <2>4, <2>5
<1>5. ASSUME NEW k \in Nat, k \in G PROVE k + 1 \in G
  <2> SUFFICES ASSUME k + 1 <= n
               PROVE  /\ i \in S => i \in w[k + 1]
                      /\ Closed(w[k + 1]) \/ Cardinality(w[k + 1]) >= (k + 1) + 1
    OBVIOUS
  <2>1. /\ i \in S => i \in w[k]
        /\ Closed(w[k]) \/ Cardinality(w[k]) >= k + 1
    BY <1>2, <1>5
  <2>2. i \in S => i \in w[k + 1]
    BY <2>1, <1>3
  <2>3. CASE Closed(w[k])
    <3>1. w[k + 1] = w[k]
      BY <1>3, <2>3
    <3> QED BY <2>2, <2>3, <3>1
  <2>4. CASE ~ Closed(w[k])
    <3>1. w[k + 1] # w[k] /\ w[k] \in SUBSET w[k + 1] /\ w[k + 1] \subseteq S
      BY <1>3, <2>4
    <3>2. w[k + 1] \in SUBSET DOMAIN nodes /\ w[k] \in SUBSET DOMAIN nodes
      BY <3>1
    <3>3. /\ IsFiniteSet(w[k + 1]) /\ Cardinality(w[k + 1]) \in Nat /\ Cardinality(w[k]) \in Nat
      BY <3>2, IndicesFinite
    <3>4. Cardinality(w[k]) <= Cardinality(w[k + 1]) /\ Cardinality(w[k]) # Cardinality(w[k + 1])
      BY <3>1, <3>3, FS_Subset
    <3>5. Cardinality(w[k]) >= k + 1
      BY <2>1, <2>4
    <3> HIDE DEF Closed
    <3> QED BY <2>2, <3>3, <3>4, <3>5
  <2> QED BY <2>3, <2>4
<1>6. Nat \subseteq G
  <2> HIDE DEF G
  <2> QED BY <1>4, <1>5, NatInSet
<1>7. w[n] \in SUBSET S
  BY <1>1, <1>2
<1>8. Closed(w[n]) /\ (i \in S => i \in w[n])
  <2>1. w[n] \in SUBSET DOMAIN nodes
    BY <1>7
  <2>2. Cardinality(w[n]) \in Nat /\ Cardinality(w[n]) <= n
    BY <2>1, IndicesFinite DEF n
  <2>3. /\ i \in S => i \in w[n]
        /\ Closed(w[n]) \/ Cardinality(w[n]) >= n + 1
    BY <1>2, <1>6
  <2> HIDE DEF Closed
  <2> QED BY <1>2, <2>2, <2>3
<1>9. ASSUME NEW X, i \in S => i \in X, \A j \in X \intersect S : Kids(nodes, j) \intersect S \subseteq X
      PROVE  w[n] \subseteq X
  <2> DEFINE H == {k \in Nat : k <= n => w[k] \subseteq X}
  <2>1. 0 \in H
    BY <1>1, <1>9
  <2>2. ASSUME NEW k \in Nat, k \in H PROVE k + 1 \in H
    <3> SUFFICES ASSUME k + 1 <= n PROVE w[k + 1] \subseteq X
      OBVIOUS
    <3>1. w[k] \subseteq X /\ w[k] \subseteq S
      BY <1>2, <1>3, <2>2
    <3>2. w[k + 1] = S \intersect UNION {{j} \union Kids(nodes, j) : j \in w[k]}
      BY <1>3
    <3> QED BY <1>9, <3>1, <3>2
  <2>3. Nat \subseteq H
    <3> HIDE DEF H
    <3> QED BY <2>1, <2>2, NatInSet
  <2> QED BY <1>2, <2>3
<1>10. Walk(nodes, i, S) = w[n]
  BY <1>1
<1> QED
  BY <1>7, <1>8, <1>9, <1>10

(* B is a binary tree below root: its links agree both ways, and it holds   *)
(* nothing that root does not reach.                                        *)
IsTree(nodes, root, B) ==
  /\ B \subseteq DOMAIN nodes
  /\ root \in B \union {None}
  /\ IF root = None THEN B = {} ELSE nodes[root].parent = None
  /\ \A j \in B : \/ nodes[j].left = None /\ nodes[j].right = None
                  \/ /\ nodes[j].left \in B /\ nodes[j].right \in B /\ nodes[j].left # nodes[j].right
                     /\ nodes[nodes[j].left].parent = j /\ nodes[nodes[j].right].parent = j
  /\ \A X \in SUBSET B : root \in X /\ (\A j \in X : Kids(nodes, j) \ {None} \subseteq X) => X = B

(* None is no index.                                                        *)
LEMMA NoneOutside == ASSUME NEW T, NEW nodes \in Seq(T) PROVE None \notin DOMAIN nodes
BY DEF None

(* The nodes reached from the root of a tree are all of it.                 *)
LEMMA TreeIsWalk ==
  ASSUME NEW T, NEW nodes \in Seq(T), NEW root, NEW B, IsTree(nodes, root, B)
  PROVE  Walk(nodes, root, DOMAIN nodes) = B
<1> DEFINE S == DOMAIN nodes
           W == Walk(nodes, root, S)
<1> USE NoneOutside
<1>1. S \in SUBSET DOMAIN nodes
  OBVIOUS
<1>2. /\ W \subseteq S
      /\ root \in S => root \in W
      /\ \A j \in W : Kids(nodes, j) \intersect S \subseteq W
      /\ \A X : /\ root \in S => root \in X
                /\ \A j \in X \intersect S : Kids(nodes, j) \intersect S \subseteq X
                => W \subseteq X
  <2> HIDE DEF S
  <2> QED BY <1>1, WalkFacts
<1>3. W \subseteq B
  <2>1. root \in S => root \in B
    BY DEF IsTree
  <2>2. \A j \in B \intersect S : Kids(nodes, j) \intersect S \subseteq B
    BY DEF IsTree, Kids
  <2> HIDE DEF S, W
  <2> QED BY <1>2, <2>1, <2>2
<1>4. CASE root = None
  BY <1>3, <1>4 DEF IsTree
<1>5. CASE root # None
  <2>1. root \in W
    BY <1>2, <1>5 DEF IsTree
  <2>2. \A j \in W : Kids(nodes, j) \ {None} \subseteq W
    <3> HIDE DEF W
    <3> QED BY <1>2, <1>3 DEF IsTree, Kids
  <2>3. W \in SUBSET B
    BY <1>3
  <2>4. W = B
    <3> HIDE DEF W, S
    <3> QED BY <2>1, <2>2, <2>3 DEF IsTree
  <2> QED BY <2>4

<1> QED BY <1>4, <1>5

(* Every other node of a tree is a child of its parent.                     *)
LEMMA TreeParents ==
  ASSUME NEW T, NEW nodes \in Seq(T), NEW root, NEW B, IsTree(nodes, root, B)
  PROVE  \A j \in B : j # root => nodes[j].parent \in B /\ j \in Kids(nodes, nodes[j].parent)
<1> DEFINE X == {j \in B : j # root => nodes[j].parent \in B /\ j \in Kids(nodes, nodes[j].parent)}
<1>1. CASE root = None
  BY <1>1 DEF IsTree
<1>2. CASE root # None
  <2>1. root \in X
    BY <1>2 DEF IsTree
  <2>2. \A j \in X : Kids(nodes, j) \ {None} \subseteq X
    BY DEF IsTree, Kids
  <2>3. X \in SUBSET B
    OBVIOUS
  <2> HIDE DEF X
  <2>4. X = B
    BY <2>1, <2>2, <2>3 DEF IsTree
  <2> QED BY <2>4 DEF X
<1> QED BY <1>1, <1>2

-----------------------------------------------------------------------------
(* Boxes and heights.                                                       *)

(* The box and the height of j are those its children give it.              *)
Fit(nodes, j) ==
  LET l == nodes[nodes[j].left]
      r == nodes[nodes[j].right]
  IN /\ nodes[j].box = Union(l.box, r.box)
     /\ nodes[j].height = 1 + Max({l.height, r.height})

(* Nodes that differ in boxes and heights only.                             *)
SameLinks(n, m) ==
  /\ Len(m) = Len(n)
  /\ \A j \in DOMAIN n : /\ m[j].parent = n[j].parent /\ m[j].left = n[j].left
                         /\ m[j].right = n[j].right /\ m[j].data = n[j].data

(* Refitted sets the box and the height of i and nothing else.              *)
LEMMA RefittedFacts ==
  ASSUME NEW nodes \in Seq(NodeType), NEW i \in DOMAIN nodes,
         nodes[i].left \in DOMAIN nodes, nodes[i].right \in DOMAIN nodes
  PROVE  /\ Refitted(nodes, i) \in Seq(NodeType)
         /\ SameLinks(nodes, Refitted(nodes, i))
         /\ \A j \in DOMAIN nodes : j # i => Refitted(nodes, i)[j] = nodes[j]
         /\ Refitted(nodes, i)[i].box = Union(nodes[nodes[i].left].box, nodes[nodes[i].right].box)
         /\ Refitted(nodes, i)[i].height
              = 1 + Max({nodes[nodes[i].left].height, nodes[nodes[i].right].height})
<1> DEFINE l == nodes[nodes[i].left]
           r == nodes[nodes[i].right]
           b == Union(l.box, r.box)
           h == 1 + Max({l.height, r.height})
           m == [nodes EXCEPT ![i].box = b, ![i].height = h]
<1>1. nodes[i] \in NodeType /\ l \in NodeType /\ r \in NodeType
  OBVIOUS
<1>2. b \in BoxType /\ h \in Int
  <2>1. l.box \in BoxType /\ r.box \in BoxType /\ l.height \in Int /\ r.height \in Int
    BY <1>1 DEF NodeType
  <2> HIDE DEF l, r
  <2> QED BY <2>1, UnionType, MaxOfTwo
<1>3. i # None
  BY DEF None
<1>4. Refitted(nodes, i) = m
  BY <1>3 DEF Refitted
<1> HIDE DEF l, r, b, h
<1> DEFINE e == [nodes[i] EXCEPT !.box = b, !.height = h]
<1>5. /\ e \in NodeType /\ e.box = b /\ e.height = h
      /\ e.parent = nodes[i].parent /\ e.left = nodes[i].left /\ e.right = nodes[i].right
      /\ e.data = nodes[i].data
  BY <1>1, <1>2 DEF NodeType
<1>6. m = [nodes EXCEPT ![i] = e]
  OBVIOUS
<1> HIDE DEF m, e
<1>7. /\ m \in Seq(NodeType) /\ Len(m) = Len(nodes) /\ m[i] = e
      /\ \A j \in DOMAIN nodes : j # i => m[j] = nodes[j]
  BY <1>5, <1>6
<1>8. SameLinks(nodes, m)
  BY <1>5, <1>7 DEF SameLinks
<1>9. m[i].box = b /\ m[i].height = h
  BY <1>5, <1>7
<1> QED BY <1>4, <1>7, <1>8, <1>9 DEF b, h, l, r

(* The nodes of a tree that have children.                                  *)
Inner(nodes, B) == {j \in B : nodes[j].left # None}

(* The tree B below root can be refitted from i upwards: i is no leaf, and  *)
(* ranks r rise from each node to its parent.                               *)
Refittable(nodes, root, B, i, r) ==
  /\ nodes \in Seq(NodeType) /\ IsTree(nodes, root, B) /\ i \in Inner(nodes, B) \union {None}
  /\ r \in [B -> Int] /\ \A j \in B : nodes[j].parent # None => r[nodes[j].parent] > r[j]
  /\ \A j \in B : nodes[j].height \in Nat

(* The way up of such a tree passes inner nodes only, and reaches the root. *)
LEMMA UpRefittable ==
  ASSUME NEW nodes, NEW root, NEW B, NEW i, NEW r, Refittable(nodes, root, B, i, r)
  PROVE  /\ Up(nodes, i) \in [0..Len(nodes) -> Inner(nodes, B) \union {None}]
         /\ Up(nodes, i)[0] = i
         /\ \A k \in 1..Len(nodes) :
              Up(nodes, i)[k] = IF Up(nodes, i)[k - 1] = None THEN None
                                ELSE nodes[Up(nodes, i)[k - 1]].parent
         /\ Up(nodes, i)[Len(nodes)] = None
<1> DEFINE I == Inner(nodes, B)
           u == Up(nodes, i)
           n == Len(nodes)
           q == [j \in I |-> r[j]]
<1>0. nodes \in Seq(NodeType) /\ IsTree(nodes, root, B) /\ n \in Nat
  BY DEF Refittable
<1>1. I \subseteq B /\ B \subseteq DOMAIN nodes /\ None \notin I
  BY <1>0, NoneOutside DEF IsTree, Inner
<1>2. ParentsIn(nodes, I)
  <2> SUFFICES ASSUME NEW j \in I PROVE nodes[j].parent \in I \union {None}
    BY <1>1 DEF ParentsIn
  <2>1. CASE j = root
    BY <1>0, <1>1, <2>1 DEF IsTree
  <2>2. CASE j # root
    <3>1. nodes[j].parent \in B /\ j \in Kids(nodes, nodes[j].parent)
      BY <1>0, <1>1, <2>2, TreeParents
    <3> DEFINE p == nodes[j].parent
    <3>2. \/ nodes[p].left = None /\ nodes[p].right = None
          \/ nodes[p].left \in B
      BY <1>0, <3>1 DEF IsTree
    <3>3. nodes[p].left # None
      BY <1>0, <1>1, <3>1, <3>2, NoneOutside DEF Kids
    <3> QED BY <3>1, <3>3 DEF Inner
  <2> QED BY <2>1, <2>2
<1>3. i \in I \union {None}
  BY DEF Refittable
<1>4. /\ u \in [0..n -> I \union {None}]
      /\ u[0] = i
      /\ \A k \in 1..n : u[k] = IF u[k - 1] = None THEN None ELSE nodes[u[k - 1]].parent
  <2> HIDE DEF I
  <2> QED BY <1>0, <1>2, <1>3, UpFacts
<1>5. Rises(u, n, I, q)
  <2>1. q \in [I -> Int] /\ \A j \in I : q[j] = r[j]
    BY <1>1 DEF Refittable
  <2> SUFFICES ASSUME NEW k \in 1..n, u[k] # None
               PROVE  u[k - 1] # None /\ q[u[k]] > q[u[k - 1]]
    BY <1>1, <1>4, <2>1 DEF Rises
  <2>2. k - 1 \in 0..n /\ k \in 0..n
    BY <1>0
  <2>3. u[k - 1] # None /\ u[k] = nodes[u[k - 1]].parent
    BY <1>4
  <2>4. u[k - 1] \in I /\ u[k] \in I
    BY <1>4, <2>2, <2>3
  <2>5. r[u[k]] > r[u[k - 1]]
    BY <1>1, <2>3, <2>4 DEF Refittable
  <2> HIDE DEF u, q, I
  <2> QED BY <2>1, <2>3, <2>4, <2>5
<1>6. u[n] = None
  <2>1. IsFiniteSet(I) /\ Cardinality(I) <= n
    <3>1. I \in SUBSET DOMAIN nodes
      BY <1>1
    <3> QED BY <1>0, <3>1, IndicesFinite
  <2>2. n \in 0..n
    BY <1>0
  <2> HIDE DEF u, q, I, n
  <2> QED BY <1>0, <1>5, <2>1, <2>2, ChainEnds
<1> QED BY <1>4, <1>6

(* What a way up has changed: only boxes and heights, and only of inner     *)
(* nodes of the tree.                                                       *)
Refits(nodes, B) ==
  {m \in Seq(NodeType) :
     /\ SameLinks(nodes, m)
     /\ \A j \in DOMAIN nodes : j \notin Inner(nodes, B) => m[j] = nodes[j]
     /\ \A j \in B : m[j].height \in Nat}

(* One step of the way up keeps within that.                                *)
LEMMA RefittedStays ==
  ASSUME NEW nodes, NEW root, NEW B, NEW i, NEW r, Refittable(nodes, root, B, i, r),
         NEW m \in Refits(nodes, B), NEW q \in Inner(nodes, B) \union {None}
  PROVE  Refitted(m, q) \in Refits(nodes, B)
<1>0. nodes \in Seq(NodeType) /\ IsTree(nodes, root, B) /\ Len(nodes) \in Nat
  BY DEF Refittable
<1>1. m \in Seq(NodeType) /\ SameLinks(nodes, m) /\ DOMAIN m = DOMAIN nodes
  BY <1>0 DEF Refits, SameLinks
<1>2. CASE q = None
  BY <1>2 DEF Refitted
<1>3. CASE q # None
  <2>1. q \in B /\ nodes[q].left # None /\ q \in DOMAIN nodes /\ B \subseteq DOMAIN nodes
    BY <1>0, <1>3 DEF Inner, IsTree
  <2>2. nodes[q].left \in B /\ nodes[q].right \in B
    BY <1>0, <2>1 DEF IsTree
  <2>3. m[q].left = nodes[q].left /\ m[q].right = nodes[q].right
    BY <1>1, <2>1 DEF SameLinks
  <2> DEFINE f == Refitted(m, q)
             l == m[nodes[q].left]
             s == m[nodes[q].right]
  <2>4. /\ f \in Seq(NodeType) /\ SameLinks(m, f)
        /\ \A j \in DOMAIN nodes : j # q => f[j] = m[j]
        /\ f[q].height = 1 + Max({l.height, s.height})
    <3>1. q \in DOMAIN m /\ m[q].left \in DOMAIN m /\ m[q].right \in DOMAIN m
      BY <1>1, <2>1, <2>2, <2>3
    <3> HIDE DEF f
    <3> QED BY <1>1, <2>3, <3>1, RefittedFacts DEF f
  <2>5. l.height \in Nat /\ s.height \in Nat
    BY <2>2 DEF Refits
  <2>6. f[q].height \in Nat
    <3> HIDE DEF f, l, s
    <3>1. Max({l.height, s.height}) \in Nat
      BY <2>5, MaxOfTwo
    <3> QED BY <2>4, <3>1
  <2>7. SameLinks(nodes, f)
    <3> HIDE DEF f
    <3> QED BY <1>1, <2>4 DEF SameLinks
  <2>8. \A j \in DOMAIN nodes : j \notin Inner(nodes, B) => f[j] = nodes[j]
    <3> HIDE DEF f
    <3> QED BY <1>3, <2>4 DEF Refits
  <2>9. \A j \in B : f[j].height \in Nat
    <3> HIDE DEF f
    <3> QED BY <2>1, <2>4, <2>6 DEF Refits
  <2> HIDE DEF f
  <2> QED BY <2>4, <2>7, <2>8, <2>9 DEF Refits, f
<1> QED BY <1>2, <1>3

(* The nodes after each step of the way up.                                 *)
RefitSteps(nodes, B, i, f) ==
  /\ f \in [0..Len(nodes) -> Refits(nodes, B)]
  /\ Refit(nodes, i) = f[Len(nodes)]
  /\ f[0] = nodes
  /\ \A k \in 1..Len(nodes) : f[k] = Refitted(f[k - 1], Up(nodes, i)[k - 1])

(* The recursive function of Refit is this one.                             *)
LEMMA RefitIs ==
  ASSUME NEW nodes, NEW root, NEW B, NEW i, NEW r, Refittable(nodes, root, B, i, r)
  PROVE  \E f : RefitSteps(nodes, B, i, f)
<1> DEFINE n == Len(nodes)
           u == Up(nodes, i)
           V == Refits(nodes, B)
           step == [x \in (1..n) \X V |-> Refitted(x[2], u[x[1] - 1])]
           Is(f) == f = [k \in 0..n |-> IF k = 0 THEN nodes ELSE Refitted(f[k - 1], u[k - 1])]
<1>1. n \in Nat /\ nodes \in V
  BY DEF Refittable, Refits, SameLinks, IsTree
<1>2. \A k \in 1..n : u[k - 1] \in Inner(nodes, B) \union {None}
  <2> TAKE k \in 1..n
  <2>1. k - 1 \in 0..n
    BY <1>1
  <2>2. u \in [0..n -> Inner(nodes, B) \union {None}]
    BY UpRefittable
  <2> HIDE DEF u
  <2> QED BY <2>1, <2>2
<1>3. \A k \in 1..n : \A v \in V : Refitted(v, u[k - 1]) \in V
  <2> HIDE DEF u, n
  <2> QED BY <1>2, RefittedStays
<1>4. \A k \in 1..n : \A v \in V : step[<<k, v>>] = Refitted(v, u[k - 1])
  <2> HIDE DEF V, u, n
  <2> QED OBVIOUS
<1>5. PICK h \in [0..n -> V] : Climbs(h, n, nodes, step)
  <2> HIDE DEF n, V, u, step
  <2>1. \A k \in 1..n : \A v \in V : step[<<k, v>>] \in V
    BY <1>3, <1>4
  <2> QED BY <1>1, <2>1, RecursionUpTo
<1>6. \A k \in 0..n : h[k] = IF k = 0 THEN nodes ELSE Refitted(h[k - 1], u[k - 1])
  <2> HIDE DEF V, u, step, n
  <2> TAKE k \in 0..n
  <2>1. CASE k = 0
    BY <1>5, <2>1 DEF Climbs
  <2>2. CASE k # 0
    <3>1. k \in 1..n /\ k - 1 \in 0..n
      BY <1>1, <2>2
    <3>2. h[k] = step[<<k, h[k - 1]>>] /\ h[k - 1] \in V
      BY <1>5, <2>2, <3>1 DEF Climbs
    <3> QED BY <1>4, <2>2, <3>1, <3>2
  <2> QED BY <2>1, <2>2
<1>7. Is(h)
  <2> HIDE DEF V, u, step, n
  <2> QED BY <1>5, <1>6
<1> DEFINE f == CHOOSE g : Is(g)
<1>8. Is(f)
  <2> HIDE DEF Is
  <2> QED BY <1>7
<1>9. Refit(nodes, i) = f[n]
  BY DEF Refit
<1> HIDE DEF f, V, step
<1>10. /\ DOMAIN f = 0..n /\ f = [k \in 0..n |-> f[k]]
       /\ \A k \in 0..n : f[k] = IF k = 0 THEN nodes ELSE Refitted(f[k - 1], u[k - 1])
  <2> HIDE DEF u, n
  <2> QED BY <1>8
<1> HIDE DEF u, n
<1>11. f[0] = nodes
  <2>1. 0 \in 0..n
    BY <1>1
  <2>2. f[0] = IF 0 = 0 THEN nodes ELSE Refitted(f[0 - 1], u[0 - 1])
    BY <1>10, <2>1
  <2> QED BY <2>2
<1>12. \A k \in 1..n : f[k] = Refitted(f[k - 1], u[k - 1])
  <2> TAKE k \in 1..n
  <2>1. k \in 0..n /\ k # 0
    BY <1>1
  <2> QED BY <1>10, <2>1
<1> DEFINE G == {k \in Nat : k <= n => f[k] \in V}
<1>13. 0 \in G
  BY <1>1, <1>11
<1>14. ASSUME NEW k \in Nat, k \in G PROVE k + 1 \in G
  <2> SUFFICES ASSUME k + 1 <= n PROVE f[k + 1] \in V
    OBVIOUS
  <2>1. k + 1 \in 1..n /\ (k + 1) - 1 = k /\ f[k] \in V
    BY <1>1, <1>14
  <2>2. f[k + 1] = Refitted(f[(k + 1) - 1], u[(k + 1) - 1])
    BY <1>12, <2>1
  <2>3. Refitted(f[k], u[(k + 1) - 1]) \in V
    BY <1>3, <2>1
  <2> QED BY <2>1, <2>2, <2>3
<1>15. \A k \in 0..n : f[k] \in V
  <2>1. Nat \subseteq G
    <3> HIDE DEF G
    <3> QED BY <1>13, <1>14, NatInSet
  <2> QED BY <1>1, <2>1
<1>16. f \in [0..n -> V]
  BY <1>10, <1>15
<1> QED BY <1>9, <1>11, <1>12, <1>16 DEF RefitSteps, u, n, V

(* The way up makes all of a tree fit of which only nodes on it do not.     *)
LEMMA RefitFacts ==
  ASSUME NEW nodes, NEW root, NEW B, NEW i, NEW r, Refittable(nodes, root, B, i, r),
         \A j \in Inner(nodes, B) : Fit(nodes, j) \/ \E k \in 0..Len(nodes) : Up(nodes, i)[k] = j
  PROVE  /\ Refit(nodes, i) \in Refits(nodes, B)
         /\ \A j \in Inner(nodes, B) : Fit(Refit(nodes, i), j)
<1> DEFINE n == Len(nodes)
           u == Up(nodes, i)
           I == Inner(nodes, B)
<1>0. /\ nodes \in Seq(NodeType) /\ IsTree(nodes, root, B) /\ n \in Nat
      /\ I \subseteq B /\ B \subseteq DOMAIN nodes /\ None \notin I /\ None \notin B
  BY NoneOutside DEF Refittable, Inner, IsTree
<1>1. PICK f : RefitSteps(nodes, B, i, f)
  BY RefitIs
<1>2. /\ \A k \in 0..n : f[k] \in Refits(nodes, B)
      /\ Refit(nodes, i) = f[n] /\ f[0] = nodes
      /\ \A k \in 1..n : f[k] = Refitted(f[k - 1], u[k - 1])
  BY <1>1 DEF RefitSteps
<1>3. /\ u \in [0..n -> I \union {None}]
      /\ \A k \in 1..n : u[k] = IF u[k - 1] = None THEN None ELSE nodes[u[k - 1]].parent
      /\ u[n] = None
  BY UpRefittable
<1>4. \A j \in I : /\ nodes[j].left \in B /\ nodes[j].right \in B
                   /\ nodes[nodes[j].left].parent = j /\ nodes[nodes[j].right].parent = j
                   /\ nodes[j].left # j /\ nodes[j].right # j
  <2> SUFFICES ASSUME NEW j \in I
               PROVE  /\ nodes[j].left \in B /\ nodes[j].right \in B
                      /\ nodes[nodes[j].left].parent = j /\ nodes[nodes[j].right].parent = j
                      /\ nodes[j].left # j /\ nodes[j].right # j
    OBVIOUS
  <2>1. /\ nodes[j].left \in B /\ nodes[j].right \in B
        /\ nodes[nodes[j].left].parent = j /\ nodes[nodes[j].right].parent = j
    BY <1>0 DEF Inner, IsTree
  <2>2. r[j] > r[nodes[j].left] /\ r[j] > r[nodes[j].right]
    BY <1>0, <2>1 DEF Refittable
  <2>3. r[j] \in Int
    BY <1>0 DEF Refittable
  <2> QED BY <2>1, <2>2, <2>3
<1> HIDE DEF n, u, I
<1> DEFINE P(k) == \A j \in I : Fit(f[k], j) \/ \E m \in k..n : u[m] = j
           G == {k \in Nat : k <= n => P(k)}
<1>5. 0 \in G
  BY <1>2 DEF I, n, u
<1>6. ASSUME NEW k \in Nat, k \in G PROVE k + 1 \in G
  <2> SUFFICES ASSUME k + 1 <= n, NEW j \in I
               PROVE  Fit(f[k + 1], j) \/ \E m \in (k + 1)..n : u[m] = j
    OBVIOUS
  <2> DEFINE g == f[k]
             h == f[k + 1]
             q == u[k]
  <2>1. k \in 0..n /\ k + 1 \in 0..n /\ k + 1 \in 1..n /\ (k + 1) - 1 = k
    BY <1>0
  <2>2. h = Refitted(g, q) /\ g \in Refits(nodes, B) /\ h \in Refits(nodes, B)
    <3>1. h = Refitted(f[(k + 1) - 1], u[(k + 1) - 1])
      BY <1>2, <2>1
    <3> QED BY <1>2, <2>1, <3>1
  <2>3. Fit(g, j) \/ \E m \in k..n : u[m] = j
    BY <1>6, <2>1
  <2>4. q \in I \union {None} /\ u[k + 1] = IF q = None THEN None ELSE nodes[q].parent
    <3>1. u[k + 1] = IF u[(k + 1) - 1] = None THEN None ELSE nodes[u[(k + 1) - 1]].parent
      BY <1>3, <2>1
    <3> QED BY <1>3, <2>1, <3>1
  <2>5. ASSUME NEW m \in k..n, u[m] = j, q # j PROVE \E x \in (k + 1)..n : u[x] = j
    <3>1. m # k
      BY <2>5
    <3>2. m \in (k + 1)..n
      BY <1>0, <3>1
    <3> QED BY <2>5, <3>2
  <2>6. CASE q = None
    <3>1. h = g
      BY <2>2, <2>6 DEF Refitted
    <3>2. q # j
      BY <1>0, <2>6 DEF I
    <3> HIDE DEF g, h, q
    <3> QED BY <2>3, <2>5, <3>1, <3>2 DEF h
  <2>7. CASE q # None
    <3>1. q \in I /\ g \in Seq(NodeType) /\ SameLinks(nodes, g)
      BY <2>2, <2>4, <2>7 DEF Refits
    <3>2. DOMAIN g = DOMAIN nodes /\ g[q].left = nodes[q].left /\ g[q].right = nodes[q].right
      <4> HIDE DEF g, q
      <4> QED BY <1>0, <3>1 DEF SameLinks, I, Inner
    <3>3. q \in DOMAIN g /\ g[q].left \in DOMAIN g /\ g[q].right \in DOMAIN g
      <4> HIDE DEF g, q
      <4> QED BY <1>0, <1>4, <3>1, <3>2 DEF I, Inner
    <3>4. /\ SameLinks(g, h)
          /\ \A x \in DOMAIN nodes : x # q => h[x] = g[x]
          /\ h[q].box = Union(g[nodes[q].left].box, g[nodes[q].right].box)
          /\ h[q].height = 1 + Max({g[nodes[q].left].height, g[nodes[q].right].height})
      <4> HIDE DEF g, q, h
      <4>1. /\ SameLinks(g, Refitted(g, q))
            /\ \A x \in DOMAIN g : x # q => Refitted(g, q)[x] = g[x]
            /\ Refitted(g, q)[q].box = Union(g[g[q].left].box, g[g[q].right].box)
            /\ Refitted(g, q)[q].height = 1 + Max({g[g[q].left].height, g[g[q].right].height})
        BY <3>1, <3>3, RefittedFacts
      <4> QED BY <2>2, <3>2, <4>1

    <3>5. /\ j \in DOMAIN nodes /\ q \in DOMAIN nodes
          /\ h[j].left = nodes[j].left /\ h[j].right = nodes[j].right
          /\ g[j].left = nodes[j].left /\ g[j].right = nodes[j].right
          /\ h[q].left = nodes[q].left /\ h[q].right = nodes[q].right
      <4>1. j \in DOMAIN nodes /\ q \in DOMAIN nodes
        BY <1>0, <3>1 DEF I
      <4>2. SameLinks(nodes, h)
        BY <2>2 DEF Refits
      <4> HIDE DEF g, h, q
      <4> QED BY <3>1, <4>1, <4>2 DEF SameLinks
    <3>6. CASE j = q
      <4>1. /\ h[nodes[q].left] = g[nodes[q].left] /\ h[nodes[q].right] = g[nodes[q].right]
        <5> HIDE DEF g, h, q
        <5> QED BY <1>0, <1>4, <3>1, <3>4
      <4>2. Fit(h, q)
        <5> HIDE DEF g, h, q
        <5> QED BY <3>4, <3>5, <4>1 DEF Fit
      <4> QED BY <3>6, <4>2
    <3>7. CASE j # q /\ (nodes[j].left = q \/ nodes[j].right = q)
      <4>1. nodes[q].parent = j
        <5> HIDE DEF q
        <5> QED BY <1>4, <3>7
      <4>2. u[k + 1] = j
        BY <2>4, <2>7, <4>1
      <4>3. k + 1 \in (k + 1)..n
        BY <1>0
      <4> QED BY <4>2, <4>3
    <3>8. CASE j # q /\ nodes[j].left # q /\ nodes[j].right # q
      <4>1. h[j] = g[j] /\ h[nodes[j].left] = g[nodes[j].left] /\ h[nodes[j].right] = g[nodes[j].right]
        <5> HIDE DEF g, h, q
        <5> QED BY <1>0, <1>4, <3>4, <3>5, <3>8
      <4>2. Fit(g, j) => Fit(h, j)
        <5> HIDE DEF g, h, q
        <5> QED BY <3>5, <4>1 DEF Fit
      <4> QED BY <2>3, <2>5, <3>8, <4>2
    <3> QED BY <3>6, <3>7, <3>8
  <2> QED BY <2>6, <2>7
<1>7. P(n)
  <2>1. Nat \subseteq G
    <3> HIDE DEF G
    <3> QED BY <1>5, <1>6, NatInSet
  <2> QED BY <1>0, <2>1
<1>8. \A j \in I : Fit(f[n], j)
  <2> SUFFICES ASSUME NEW j \in I, NEW m \in n..n, u[m] = j PROVE FALSE
    BY <1>7
  <2>1. m = n
    BY <1>0
  <2> QED BY <1>0, <1>3, <2>1
<1>9. f[n] \in Refits(nodes, B)
  BY <1>0, <1>2
<1> QED BY <1>2, <1>8, <1>9 DEF I

-----------------------------------------------------------------------------
(* The search for a sibling.                                                *)

(* Perimeters are integers.                                                 *)
LEMMA PerimeterInt == ASSUME NEW a \in BoxType PROVE Perimeter(a) \in Int
BY DEF BoxType, PointType, Perimeter, Side

(* So are the distances of centres.                                         *)
LEMMA AwayInt ==
  ASSUME NEW a \in BoxType, NEW b \in BoxType PROVE SquareDistance(Center2(a), Center2(b)) \in Int
<1>1. Center2(a) \in PointType /\ Center2(b) \in PointType
  BY DEF BoxType, PointType, Center2
<1>2. ASSUME NEW p \in PointType, NEW q \in PointType PROVE SquareDistance(p, q) \in Int
  BY DEF PointType, SquareDistance
<1> QED BY <1>1, <1>2

(* In this tree the nodes of height 0 are those without children.           *)
LeavesBare(nodes, B) ==
  \A j \in B : nodes[j].height \in Nat /\ (IsLeaf(nodes[j]) <=> nodes[j].left = None)

(* Where a search for a sibling in the tree B may be.                       *)
Searches(B) == [at : B \union {None}, best : [at : B, cost : Int], grown : Int]

(* A step down stays in the tree.                                           *)
LEMMA DescendStays ==
  ASSUME NEW nodes \in Seq(NodeType), NEW root, NEW B, IsTree(nodes, root, B), LeavesBare(nodes, B),
         NEW box \in BoxType, NEW s \in Searches(B)
  PROVE  Descend(nodes, box, s) \in Searches(B)
<1> DEFINE i == s.at
           left == nodes[i].left
           right == nodes[i].right
           Direct(c) == Perimeter(Union(nodes[c].box, box))
           inherited == s.grown + Direct(i) - Perimeter(nodes[i].box)
           Bound(c) == inherited + Direct(c) + Min({Perimeter(box) - Perimeter(nodes[c].box), 0})
           Away(c) == SquareDistance(Center2(nodes[c].box), Center2(box))
           Better(b, c, cost) == IF cost < b.cost THEN [at |-> c, cost |-> cost] ELSE b
           WithLeaf(b, c) == IF IsLeaf(nodes[c]) THEN Better(b, c, Direct(c) + inherited) ELSE b
           found == WithLeaf(WithLeaf(Better(s.best, i, Direct(i) + s.grown), left), right)
           inner == {c \in {left, right} : ~ IsLeaf(nodes[c])}
           leftFirst == IF Bound(left) = Bound(right) THEN Away(left) < Away(right)
                        ELSE Bound(left) < Bound(right)
           into == IF inner = {left, right} THEN IF leftFirst THEN left ELSE right
                   ELSE CHOOSE c \in inner : TRUE
           stop == \A c \in inner : found.cost <= Bound(c)
           res == [at |-> IF stop THEN None ELSE into, best |-> found, grown |-> inherited]
           Best == [at : B, cost : Int]
<1>1. Descend(nodes, box, s) = IF i = None \/ IsLeaf(nodes[i]) THEN s ELSE res
  BY DEF Descend
<1> SUFFICES ASSUME i # None, ~ IsLeaf(nodes[i]) PROVE res \in Searches(B)
  <2> HIDE DEF i, res
  <2> QED BY <1>1
<1>2. i \in B /\ B \subseteq DOMAIN nodes /\ s.grown \in Int /\ s.best \in Best
  BY DEF Searches, IsTree
<1>3. left \in B /\ right \in B
  <2>1. nodes[i].left # None
    BY <1>2 DEF LeavesBare
  <2> QED BY <1>2, <2>1 DEF IsTree
<1> HIDE DEF i, left, right
<1>4. \A c \in B : nodes[c].box \in BoxType
  <2>1. \A c \in B : nodes[c] \in NodeType
    BY <1>2
  <2> QED BY <2>1 DEF NodeType
<1>5. \A c \in B : Direct(c) \in Int /\ Perimeter(nodes[c].box) \in Int
  BY <1>4, UnionType, PerimeterInt
<1> HIDE DEF Direct
<1>6. inherited \in Int
  BY <1>2, <1>5
<1> HIDE DEF inherited
<1>7. ASSUME NEW b \in Best, NEW c \in B, NEW cost \in Int PROVE Better(b, c, cost) \in Best
  OBVIOUS
<1> HIDE DEF Better
<1>8. ASSUME NEW b \in Best, NEW c \in B PROVE WithLeaf(b, c) \in Best
  <2>1. Direct(c) + inherited \in Int
    BY <1>5, <1>6
  <2> HIDE DEF Best
  <2> QED BY <1>7, <2>1
<1> HIDE DEF WithLeaf
<1>9. found \in Best
  <2>1. Direct(i) + s.grown \in Int
    BY <1>2, <1>5
  <2> HIDE DEF Best
  <2>2. Better(s.best, i, Direct(i) + s.grown) \in Best
    BY <1>2, <1>7, <2>1
  <2> QED BY <1>3, <1>8, <2>2
<1> HIDE DEF found
<1>10. ~ stop => into \in B
  <2> SUFFICES ASSUME ~ stop PROVE into \in B
    OBVIOUS
  <2>1. inner # {} /\ inner \subseteq B
    BY <1>3
  <2> HIDE DEF inner, leftFirst
  <2>2. (CHOOSE c \in inner : TRUE) \in B
    BY <2>1
  <2> QED BY <1>3, <2>2
<1> HIDE DEF stop, into
<1> QED BY <1>6, <1>9, <1>10 DEF Searches

(* The sibling found for a new leaf is a node of the tree.                  *)
LEMMA BestSiblingInside ==
  ASSUME NEW t \in TreeType, NEW B, IsTree(t.nodes, t.root, B), LeavesBare(t.nodes, B),
         t.root # None, NEW box \in BoxType
  PROVE  BestSibling(t, box) \in B
<1> DEFINE nodes == t.nodes
           n == Len(nodes)
           V == Searches(B)
           base == [at |-> t.root, best |-> [at |-> t.root, cost |-> Perimeter(Union(nodes[t.root].box, box))],
                    grown |-> 0]
           step == [x \in (1..n) \X V |-> Descend(nodes, box, x[2])]
           Is(f) == f = [k \in 0..n |-> IF k = 0 THEN base ELSE Descend(nodes, box, f[k - 1])]
<1>1. nodes \in Seq(NodeType) /\ n \in Nat /\ t.root \in B /\ B \subseteq DOMAIN nodes
  BY DEF TreeType, IsTree
<1>2. base \in V
  <2>1. nodes[t.root].box \in BoxType
    <3>1. nodes[t.root] \in NodeType
      BY <1>1
    <3> QED BY <3>1 DEF NodeType
  <2>2. Perimeter
(Union(nodes[t.root].box, box)) \in Int
    BY <2>1, UnionType, PerimeterInt
  <2> QED BY <1>1, <2>2 DEF Searches
<1>3. \A v \in V : Descend(nodes, box, v) \in V
  BY <1>1, DescendStays
<1> HIDE DEF V, base
<1>4. \A k \in 1..n : \A v \in V : step[<<k, v>>] = Descend(nodes, box, v)
  <2> HIDE DEF n, nodes
  <2> QED OBVIOUS
<1>5. PICK h \in [0..n -> V] : Climbs(h, n, base, step)
  <2> HIDE DEF n, nodes, step
  <2>1. \A k \in 1..n : \A v \in V : step[<<k, v>>] \in V
    BY <1>3, <1>4
  <2> QED BY <1>1, <1>2, <2>1, RecursionUpTo
<1>6. \A k \in 0..n : h[k] = IF k = 0 THEN base ELSE Descend(nodes, box, h[k - 1])
  <2> HIDE DEF step, n, nodes
  <2> TAKE k \in 0..n
  <2>1. CASE k = 0
    BY <1>5, <2>1 DEF Climbs
  <2>2. CASE k # 0
    <3>1. k \in 1..n /\ k - 1 \in 0..n
      BY <1>1, <2>2
    <3>2. h[k] = step[<<k, h[k - 1]>>] /\ h[k - 1] \in V
      BY <1>5, <2>2, <3>1 DEF Climbs
    <3> QED BY <1>4, <2>2, <3>1, <3>2
  <2> QED BY <2>1, <2>2
<1>7. Is(h)
  <2> HIDE DEF step, n, nodes
  <2> QED BY <1>5, <1>6
<1> DEFINE f == CHOOSE g : Is(g)
<1>8. Is(f)
  <2> HIDE DEF Is
  <2> QED BY <1>7
<1>9. BestSibling(t, box) = f[n].best.at
  BY DEF BestSibling, base
<1> HIDE DEF f, step
<1>10. \A k \in 0..n : f[k] = IF k = 0 THEN base ELSE Descend(nodes, box, f[k - 1])
  <2> HIDE DEF n, nodes
  <2> QED BY <1>8
<1> HIDE DEF n, nodes
<1> DEFINE G == {k \in Nat : k <= n => f[k] \in V}
<1>11. 0 \in G
  <2>1. 0 \in 0..n
    BY <1>1
  <2>2. f[0] = IF 0 = 0 THEN base ELSE Descend(nodes, box, f[0 - 1])
    BY <1>10, <2>1
  <2> QED BY <1>2, <2>2
<1>12. ASSUME NEW k \in Nat, k \in G PROVE k + 1 \in G
  <2> SUFFICES ASSUME k + 1 <= n PROVE f[k + 1] \in V
    OBVIOUS
  <2>1. k + 1 \in 0..n /\ k + 1 # 0 /\ (k + 1) - 1 = k /\ f[k] \in V
    BY <1>1, <1>12
  <2>2. f[k + 1] = IF k + 1 = 0 THEN base ELSE Descend(nodes, box, f[(k + 1) - 1])
    BY <1>10, <2>1
  <2>3. Descend(nodes, box, f[k]) \in V
    BY <1>3, <2>1
  <2> QED BY <2>1, <2>2, <2>3
<1>13. f[n] \in V
  <2>1. Nat \subseteq G
    <3> HIDE DEF G
    <3> QED BY <1>11, <1>12, NatInSet
  <2> QED BY <1>1, <2>1
<1> QED BY <1>9, <1>13 DEF V, Searches

-----------------------------------------------------------------------------
(* The free list.                                                           *)

(* The nodes of height -1.                                                  *)
FreeSet(nodes) == {j \in DOMAIN nodes : nodes[j].height = -1}

(* They can be numbered so that each comes after the one before it on the   *)
(* list.                                                                    *)
Ranked(nodes, F) ==
  \E r \in [F -> Int] : \A j \in F : nodes[j].parent # None => r[nodes[j].parent] > r[j]

(* X holds what is reached from free.                                       *)
ClosedUp(nodes, free, X) ==
  /\ free # None => free \in X
  /\ \A j \in X : nodes[j].parent # None => nodes[j].parent \in X

(* The free nodes are linked into a list that free begins: every one is on  *)
(* it, and it never comes back to where it was.                             *)
FreeList(nodes, free) ==
  /\ free \in FreeSet(nodes) \union {None}
  /\ \A j \in FreeSet(nodes) : /\ nodes[j].left = None /\ nodes[j].right = None
                               /\ nodes[j].parent \in FreeSet(nodes) \union {None}
  /\ Ranked(nodes, FreeSet(nodes))
  /\ \A X \in SUBSET FreeSet(nodes) : ClosedUp(nodes, free, X) => X = FreeSet(nodes)

(* It is what going up from free passes.                                    *)
LEMMA FreeListIsUp ==
  ASSUME NEW t \in TreeType, FreeList(t.nodes, t.free)
  PROVE  Free(t) = FreeSet(t.nodes) /\ Up(t.nodes, t.free)[Len(t.nodes)] = None
<1> DEFINE nodes == t.nodes
           n == Len(nodes)
           F == FreeSet(nodes)
           u == Up(nodes, t.free)
<1>1. /\ nodes \in Seq(NodeType) /\ n \in Nat /\ F \in SUBSET DOMAIN nodes /\ None \notin F
      /\ ParentsIn(nodes, F) /\ t.free \in F \union {None}
  BY NoneOutside DEF TreeType, FreeSet, FreeList, ParentsIn
<1> HIDE DEF nodes, n, F
<1>2. /\ u \in [0..n -> F \union {None}] /\ u[0] = t.free
      /\ \A k \in 1..n : u[k] = IF u[k - 1] = None THEN None ELSE nodes[u[k - 1]].parent
  BY <1>1, UpFacts DEF n
<1> HIDE DEF u
<1>3. PICK r \in [F -> Int] : \A j \in F : nodes[j].parent # None => r[nodes[j].parent] > r[j]
  BY DEF FreeList, Ranked, F, nodes
<1>4. Rises(u, n, F, r)
  <2> SUFFICES ASSUME NEW k \in 1..n, u[k] # None PROVE u[k - 1] # None /\ r[u[k]] > r[u[k - 1]]
    BY <1>1, <1>2 DEF Rises
  <2>1. k - 1 \in 0..n /\ k \in 0..n
    BY <1>1
  <2>2. u[k - 1] # None /\ u[k] = nodes[u[k - 1]].parent /\ u[k - 1] \in F
    BY <1>2, <2>1
  <2> QED BY <1>3, <2>2
<1>5. u[n] = None
  <2>1. IsFiniteSet(F) /\ Cardinality(F) <= n
    BY <1>1, IndicesFinite DEF n
  <2>2. n \in 0..n
    BY <1>1
  <2> QED BY <1>1, <1>4, <2>1, <2>2, ChainEnds
<1> DEFINE X == {u[k] : k \in 0..n} \ {None}
<1>6. X \in SUBSET F
  BY <1>2
<1>7. ClosedUp(nodes, t.free, X)
  <2>1. t.free # None => t.free \in X
    <3>1. 0 \in 0..n
      BY <1>1
    <3> QED BY <1>2, <3>1
  <2>2. ASSUME NEW j \in X, nodes[j].parent # None PROVE nodes[j].parent \in X
    <3>1. PICK k \in 0..n : u[k] = j /\ j # None
      OBVIOUS
    <3>2. k # n
      BY <1>5, <3>1
    <3>3. k + 1 \in 0..n /\ k + 1 \in 1..n /\ (k + 1) - 1 = k
      BY <1>1, <3>2
    <3>4. u[k + 1] = IF u[(k + 1) - 1] = None THEN None ELSE nodes[u[(k + 1) - 1]].parent
      BY <1>2, <3>3
    <3>5. u[k + 1] = nodes[j].parent
      BY <3>1, <3>3, <3>4
    <3> QED BY <2>2, <3>3, <3>5
  <2> HIDE DEF X
  <2> QED BY <2>1, <2>2 DEF ClosedUp
<1>8. X = F
  <2> HIDE DEF X
  <2> QED BY <1>6, <1>7 DEF FreeList, F, nodes
<1>9. Free(t) = X
  <2>1. DOMAIN u = 0..n
    BY <1>2
  <2> QED BY <2>1 DEF Free, u, nodes
<1> QED BY <1>5, <1>8, <1>9 DEF F, u, n, nodes

(* A change that leaves the free nodes alone keeps the list.                *)
LEMMA FreeKeep ==
  ASSUME NEW T, NEW nodes \in Seq(T), NEW m, NEW free, FreeList(nodes, free), FreeSet(m) = FreeSet(nodes),
         \A j \in FreeSet(nodes) : /\ m[j].parent = nodes[j].parent
                                   /\ m[j].left = None /\ m[j].right = None
  PROVE  FreeList(m, free)
<1> DEFINE F == FreeSet(nodes)
<1>1. FreeSet(m) = F
  OBVIOUS
<1>2. /\ free \in F \union {None}
      /\ \A j \in F : nodes[j].parent \in F \union {None} /\ m[j].parent = nodes[j].parent
      /\ Ranked(nodes, F)
      /\ \A X \in SUBSET F : ClosedUp(nodes, free, X) => X = F
  BY DEF FreeList
<1> HIDE DEF F
<1>3. Ranked(m, F)
  BY <1>2 DEF Ranked
<1>4. ASSUME NEW X \in SUBSET F, ClosedUp(m, free, X) PROVE X = F
  <2>1. ClosedUp(nodes, free, X)
    BY <1>2, <1>4 DEF ClosedUp
  <2> QED BY <1>2, <2>1
<1> QED BY <1>1, <1>2, <1>3, <1>4 DEF FreeList

(* A node put on the list.                                                  *)
LEMMA FreePush ==
  ASSUME NEW T, NEW nodes \in Seq(T), NEW m, NEW free, FreeList(nodes, free),
         NEW i, i \notin FreeSet(nodes), i # None, FreeSet(m) = FreeSet(nodes) \union {i},
         m[i].parent = free, m[i].left = None, m[i].right = None,
         \A j \in FreeSet(nodes) : /\ m[j].parent = nodes[j].parent
                                   /\ m[j].left = None /\ m[j].right = None
  PROVE  FreeList(m, i)
<1> DEFINE F == FreeSet(nodes)
           E == F \union {i}
<1>1. FreeSet(m) = E
  OBVIOUS
<1>2. /\ free \in F \union {None} /\ i \notin F /\ None \notin F
      /\ \A j \in F : nodes[j].parent \in F \union {None} /\ m[j].parent = nodes[j].parent
      /\ Ranked(nodes, F)
      /\ \A X \in SUBSET F : ClosedUp(nodes, free, X) => X = F
  BY NoneOutside DEF FreeList, FreeSet
<1>3. \A j \in E : m[j].left = None /\ m[j].right = None /\ m[j].parent \in E \union {None}
  BY <1>2
<1> HIDE DEF F
<1>4. Ranked(m, E)
  <2>1. PICK r \in [F -> Int] : \A j \in F : nodes[j].parent # None => r[nodes[j].parent] > r[j]
    BY <1>2 DEF Ranked
  <2>2. PICK low \in Int : \A j \in F : r[j] > low
    <3>1. CASE F = {}
      BY <3>1
    <3>2. CASE F # {}
      <4> DEFINE h == [j \in F |-> - r[j]]
      <4>1. IsFiniteSet(F)
        BY IndicesFinite DEF F, FreeSet
      <4>2. \A j \in F : h[j] = - r[j] /\ h[j] \in Int /\ r[j] \in Int
        OBVIOUS
      <4>3. PICK x \in F : \A j \in F : h[x] >= h[j]
        <5> HIDE DEF h
        <5> QED BY <3>2, <4>1, <4>2, HasMaxOver
      <4> DEFINE low == r[x] - 1
      <4>4. low \in Int /\ \A j \in F : r[j] > low
        <5> HIDE DEF h
        <5> QED BY <4>2, <4>3
      <4> QED BY <4>4
    <3> QED BY <3>1, <3>2
  <2> DEFINE s == [j \in E |-> IF j = i THEN low ELSE r[j]]
  <2>3. s \in [E -> Int] /\ s[i] = low /\ \A j \in F : s[j] = r[j]
    BY <1>2
  <2> HIDE DEF s
  <2>4. ASSUME NEW j \in E, m[j].parent # None PROVE s[m[j].parent] > s[j]
    <3>1. CASE j = i
      <4>1. m[j].parent = free /\ free \in F
        BY <1>2, <2>4, <3>1
      <4> QED BY <2>2, <2>3, <3>1, <4>1
    <3>2. CASE j # i
      <4>1. j \in F /\ m[j].parent = nodes[j].parent /\ nodes[j].parent \in F
        BY <1>2, <2>4, <3>2
      <4>2. r[nodes[j].parent] > r[j]
        BY <2>1, <2>4, <4>1
      <4> QED BY <2>3, <4>1, <4>2
    <3> QED BY <3>1, <3>2
  <2> QED BY <2>3, <2>4 DEF Ranked
<1>5. ASSUME NEW X \in SUBSET E, ClosedUp(m, i, X) PROVE X = E
  <2> DEFINE Y == X \ {i}
  <2>1. i \in X
    BY <1>5 DEF ClosedUp
  <2>2. free # None => free \in Y
    BY <1>2, <1>5, <2>1 DEF ClosedUp
  <2>3. Y \in SUBSET F
    OBVIOUS
  <2>4. \A j \in Y : nodes[j].parent # None => nodes[j].parent \in Y
    BY <1>2, <1>5 DEF ClosedUp
  <2>5. Y = F
    <3> HIDE DEF Y
    <3> QED BY <1>2, <2>2, <2>3, <2>4 DEF ClosedUp
  <2> QED BY <2>1, <2>5
<1> HIDE DEF E
<1>6. i \in E
  BY DEF E
<1> QED BY <1>1, <1>3, <1>4, <1>5, <1>6 DEF FreeList

(* The first node taken off the list.                                       *)
LEMMA FreePop ==
  ASSUME NEW T, NEW nodes \in Seq(T), NEW m, NEW free, FreeList(nodes, free), free # None,
         FreeSet(m) = FreeSet(nodes) \ {free},
         \A j \in FreeSet(nodes) \ {free} : /\ m[j].parent = nodes[j].parent
                                            /\ m[j].left = None /\ m[j].right = None
  PROVE  FreeList(m, nodes[free].parent)
<1> DEFINE F == FreeSet(nodes)
           E == F \ {free}
           p == nodes[free].parent
<1>1. FreeSet(m) = E
  OBVIOUS
<1>2. /\ free \in F /\ None \notin F
      /\ \A j \in F : nodes[j].parent \in F \union {None}
      /\ \A j \in E : m[j].parent = nodes[j].parent /\ m[j].left = None /\ m[j].right = None
      /\ Ranked(nodes, F)
      /\ \A X \in SUBSET F : ClosedUp(nodes, free, X) => X = F
  BY NoneOutside DEF FreeList, FreeSet
<1> HIDE DEF F
<1>3. PICK r \in [F -> Int] : \A j \in F : nodes[j].parent # None => r[nodes[j].parent] > r[j]
  BY <1>2 DEF Ranked
<1>4. \A j \in F : nodes[j].parent # free
  <2> DEFINE X == {j \in F : j = free \/ r[j] > r[free]}
  <2>1. X \in SUBSET F
    OBVIOUS
  <2>2. ASSUME NEW j \in X, nodes[j].parent # None PROVE nodes[j].parent \in X
    <3>1. nodes[j].parent \in F /\ r[nodes[j].parent] > r[j]
      BY <1>2, <1>3, <2>2
    <3>2. r[j] \in Int /\ r[nodes[j].parent] \in Int /\ r[free] \in Int /\ r[j] >= r[free]
      BY <1>2, <3>1
    <3> QED BY <3>1, <3>2
  <2>3. free \in X
    BY <1>2
  <2>4. X = F
    <3> HIDE DEF X
    <3> QED BY <1>2, <2>1, <2>2, <2>3 DEF ClosedUp
  <2> SUFFICES ASSUME NEW j \in F, nodes[j].parent = free PROVE FALSE
    OBVIOUS
  <2>5. r[free] > r[j] /\ r[j] \in Int /\ r[free] \in Int
    BY <1>2, <1>3
  <2>6. j = free \/ r[j] > r[free]
    BY <2>4
  <2> QED BY <2>5, <2>6
<1>5. Ranked(m, E)
  <2> DEFINE s == [j \in E |-> r[j]]
  <2>1. s \in [E -> Int] /\ \A j \in E : s[j] = r[j]
    OBVIOUS
  <2> HIDE DEF s
  <2>2. ASSUME NEW j \in E, m[j].parent # None PROVE s[m[j].parent] > s[j]
    <3>1. m[j].parent = nodes[j].parent /\ nodes[j].parent \in E
      BY <1>2, <1>4, <2>2
    <3> QED BY <1>3, <2>1, <2>2, <3>1
  <2> QED BY <2>1, <2>2 DEF Ranked
<1>6. \A j \in E : m[j].left = None /\ m[j].right = None /\ m[j].parent \in E \union {None}
  BY <1>2, <1>4
<1>7. ASSUME NEW X \in SUBSET E, ClosedUp(m, p, X) PROVE X = E
  <2> DEFINE Y == X \union {free}
  <2>1. Y \in SUBSET F /\ free \in Y
    BY <1>2
  <2>2. \A j \in Y : nodes[j].parent # None => nodes[j].parent \in Y
    BY <1>2, <1>7 DEF ClosedUp
  <2>3. Y = F
    <3> HIDE DEF Y
    <3> QED BY <1>2, <2>1, <2>2 DEF ClosedUp
  <2> QED BY <2>3
<1>8. p \in E \union {None}
  BY <1>2, <1>4
<1> HIDE DEF E, p
<1>9. FreeList(m, p)
  BY <1>1, <1>5, <1>6, <1>7, <1>8 DEF FreeList
<1> QED BY <1>9 DEF p

-----------------------------------------------------------------------------
(* Trees in shape.                                                          *)

(* The tree is in shape.                                                    *)
InShape(t, B) ==
  /\ t \in TreeType
  /\ IsTree(t.nodes, t.root, B)
  /\ LeavesBare(t.nodes, B)
  /\ \A j \in Inner(t.nodes, B) : Fit(t.nodes, j)
  /\ FreeList(t.nodes, t.free)

(* The invariant of a tree between two operations.                          *)
Shape(t) == InShape(t, Inside(t))

(* A leaf that is not in the tree.                                          *)
Apart(t, i) ==
  /\ i \in DOMAIN t.nodes /\ i \notin Inside(t)
  /\ t.nodes[i].height = 0 /\ t.nodes[i].left = None /\ t.nodes[i].right = None

(* B is then what the walk from the root reaches.                           *)
LEMMA ShapeOf == ASSUME NEW t, NEW B, InShape(t, B) PROVE Shape(t) /\ Inside(t) = B
<1>1. t.nodes \in Seq(NodeType)
  BY DEF InShape, TreeType
<1>2. Inside(t) = B
  BY <1>1, TreeIsWalk DEF InShape, Inside
<1> QED BY <1>2 DEF Shape

(* What follows for the parts of a tree in shape.                           *)
LEMMA ShapeFacts ==
  ASSUME NEW t, Shape(t)
  PROVE  /\ t \in TreeType /\ t.nodes \in Seq(NodeType) /\ Len(t.nodes) \in Nat
         /\ DOMAIN t.nodes = 1..Len(t.nodes) /\ None \notin DOMAIN t.nodes
         /\ t.root \in Nat /\ t.free \in Nat
         /\ \A j \in DOMAIN t.nodes : t.nodes[j] \in NodeType
         /\ Inside(t) \subseteq DOMAIN t.nodes
         /\ Inside(t) \intersect FreeSet(t.nodes) = {}
         /\ Leaves(t) = {j \in Inside(t) : t.nodes[j].left = None}
         /\ \A j \in Leaves(t) : t.nodes[j].height = 0 /\ t.nodes[j].left = None /\ t.nodes[j].right = None
<1>1. /\ t \in TreeType /\ t.nodes \in Seq(NodeType) /\ Len(t.nodes) \in Nat
      /\ DOMAIN t.nodes = 1..Len(t.nodes)
      /\ t.root \in Nat /\ t.free \in Nat
  BY DEF Shape, InShape, TreeType
<1>2. \A j \in DOMAIN t.nodes : t.nodes[j] \in NodeType
  BY <1>1
<1>3. Inside(t) \subseteq DOMAIN t.nodes
  BY DEF Shape, InShape, IsTree
<1>4. Inside(t) \intersect FreeSet(t.nodes) = {}
  <2>1. \A j \in Inside(t) : t.nodes[j].height \in Nat
    BY DEF Shape, InShape, LeavesBare
  <2> QED BY <2>1 DEF FreeSet
<1>5. Leaves(t) = {j \in Inside(t) : t.nodes[j].left = None}
  BY DEF Leaves, Shape, InShape, LeavesBare
<1>6. \A j \in Leaves(t) : t.nodes[j].height = 0 /\ t.nodes[j].left = None /\ t.nodes[j].right = None
  <2> SUFFICES ASSUME NEW j \in Leaves(t)
               PROVE  t.nodes[j].height = 0 /\ t.nodes[j].left = None /\ t.nodes[j].right = None
    OBVIOUS
  <2>1. j \in Inside(t) /\ t.nodes[j].left = None
    BY <1>5
  <2>2. t.nodes[j].height = 0
    BY <2>1 DEF Shape, InShape, LeavesBare, IsLeaf
  <2>3. IsTree(t.nodes, t.root, Inside(t)) /\ None \notin Inside(t)
    BY <1>1, <1>3, NoneOutside DEF Shape, InShape
  <2>4. t.nodes[j].right = None
    BY <2>1, <2>3 DEF IsTree
  <2> QED BY <2>1, <2>2, <2>4
<1> QED BY <1>1, <1>2, <1>3, <1>4, <1>5, <1>6, NoneOutside

(* A tree whose links are kept is a tree.                                   *)
LEMMA TreeKeeps ==
  ASSUME NEW nodes, NEW m, NEW root, NEW B, IsTree(nodes, root, B), B \subseteq DOMAIN m,
         \A j \in B : /\ m[j].parent = nodes[j].parent /\ m[j].left = nodes[j].left
                      /\ m[j].right = nodes[j].right
  PROVE  IsTree(m, root, B)
<1>1. root \in B \union {None} /\ IF root = None THEN B = {} ELSE m[root].parent = None
  BY DEF IsTree
<1>2. \A j \in B :
        \/ m[j].left = None /\ m[j].right = None
        \/ /\ m[j].left \in B /\ m[j].right \in B /\ m[j].left # m[j].right
           /\ m[m[j].left].parent = j /\ m[m[j].right].parent = j
  BY DEF IsTree
<1>3. ASSUME NEW X \in SUBSET B, root \in X, \A j \in X : Kids(m, j) \ {None} \subseteq X PROVE X = B
  <2>1. \A j \in X : Kids(nodes, j) \ {None} \subseteq X
    BY <1>3 DEF Kids
  <2> QED BY <1>3, <2>1 DEF IsTree
<1> QED BY <1>1, <1>2, <1>3 DEF IsTree

(* A tree of which no node is touched stays in shape.                       *)
LEMMA ShapeKeeps ==
  ASSUME NEW t, Shape(t), NEW s \in TreeType, s.root = t.root, Inside(t) \subseteq DOMAIN s.nodes,
         \A j \in Inside(t) : s.nodes[j] = t.nodes[j], FreeList(s.nodes, s.free)
  PROVE  Shape(s) /\ Inside(s) = Inside(t)
<1> DEFINE B == Inside(t)
<1>1. /\ IsTree(t.nodes, t.root, B) /\ LeavesBare(t.nodes, B)
      /\ \A j \in Inner(t.nodes, B) : Fit(t.nodes, j)
  BY DEF Shape, InShape
<1> HIDE DEF B
<1>2. \A j \in B : s.nodes[j] = t.nodes[j]
  BY DEF B
<1>3. IsTree(s.nodes, s.root, B)
  BY <1>1, <1>2, TreeKeeps DEF B
<1>4. LeavesBare(s.nodes, B)
  BY <1>1, <1>2 DEF LeavesBare
<1>5. ASSUME NEW j \in Inner(s.nodes, B) PROVE Fit(s.nodes, j)
  <2>1. j \in B /\ s.nodes[j] = t.nodes[j] /\ j \in Inner(t.nodes, B)
    BY <1>2 DEF Inner
  <2>2. t.nodes[j].left \in B /\ t.nodes[j].right \in B
    BY <1>1, <2>1 DEF IsTree, Inner
  <2> QED BY <1>1, <1>2, <2>1, <2>2 DEF Fit
<1>6. InShape(s, B)
  BY <1>3, <1>4, <1>5 DEF InShape
<1> QED BY <1>6, ShapeOf DEF B

(* allocate_node: the node it hands out, off the list or new, is apart from *)
(* the tree, which stays as it was.                                         *)
LEMMA AllocateFacts ==
  ASSUME NEW t, Shape(t)
  PROVE  /\ Shape(Allocate(t)) /\ Inside(Allocate(t)) = Inside(t)
         /\ Apart(Allocate(t), Allocated(t)) /\ Allocate(t).root = t.root
         /\ Allocated(t) \notin Inside(t)
         /\ Allocated(t) \in DOMAIN t.nodes => t.nodes[Allocated(t)].height = -1
         /\ DOMAIN t.nodes \subseteq DOMAIN Allocate(t).nodes
         /\ \A j \in DOMAIN t.nodes : j # Allocated(t) => Allocate(t).nodes[j] = t.nodes[j]
<1> DEFINE nodes == t.nodes
           i == Allocated(t)
           s == Allocate(t)
           m == s.nodes
<1>1. /\ t \in TreeType /\ nodes \in Seq(NodeType) /\ Len(nodes) \in Nat
      /\ DOMAIN nodes = 1..Len(nodes) /\ None \notin DOMAIN nodes
      /\ t.root \in Nat /\ t.free \in Nat /\ Inside(t) \subseteq DOMAIN nodes
      /\ Inside(t) \intersect FreeSet(nodes) = {}
  BY ShapeFacts
<1>2. FreeList(nodes, t.free)
  BY DEF Shape, InShape
<1>3. CASE t.free # None
  <2>1. i = t.free /\ t.free \in FreeSet(nodes) /\ i \in DOMAIN nodes /\ nodes[i].height = -1
    BY <1>2, <1>3 DEF Allocated, FreeList, FreeSet
  <2> DEFINE e == [nodes[t.free] EXCEPT !.height = 0]
  <2>2. nodes[t.free] \in NodeType
    BY <1>1, <2>1
  <2>3. /\ e \in NodeType /\ e.height = 0 /\ e.parent = nodes[t.free].parent
        /\ e.left = nodes[t.free].left /\ e.right = nodes[t.free].right
    BY <2>2 DEF NodeType
  <2>4. s = [t EXCEPT !.free = nodes[t.free].parent, !.nodes = [nodes EXCEPT ![t.free] = e]]
    BY <1>3 DEF Allocate
  <2> HIDE DEF e
  <2>5. m = [nodes EXCEPT ![t.free] = e] /\ s.root = t.root /\ s.free = nodes[t.free].parent
    BY <1>1, <2>4 DEF TreeType
  <2>6. /\ m \in Seq(NodeType) /\ DOMAIN m = DOMAIN nodes /\ m[i] = e
        /\ \A j \in DOMAIN nodes : j # i => m[j] = nodes[j]
    BY <1>1, <2>1, <2>3, <2>5
  <2>7. s \in TreeType
    <3>1. nodes[t.free].parent \in Nat
      BY <2>2 DEF NodeType
    <3> QED BY <1>1, <2>4, <2>5, <2>6, <3>1 DEF TreeType
  <2> HIDE DEF s, m, i
  <2>8. FreeSet(m) = FreeSet(nodes) \ {t.free}
    BY <2>1, <2>3, <2>6 DEF FreeSet
  <2>9. FreeList(m, s.free)
    <3>1. \A j \in FreeSet(nodes) \ {t.free} : m[j] = nodes[j] /\ nodes[j].left = None /\ nodes[j].right = None
      BY <1>2, <2>1, <2>6 DEF FreeSet, FreeList
    <3>2. \A j \in FreeSet(nodes) \ {t.free} : /\ m[j].parent = nodes[j].parent
                                               /\ m[j].left = None /\ m[j].right = None
      BY <3>1
    <3> HIDE DEF nodes
    <3>3. FreeList(m, nodes[t.free].parent)
      BY <1>1, <1>2, <1>3, <2>8, <3>2, FreePop
    <3> QED BY <2>5, <3>3
  <2>10. i \notin Inside(t)
    BY <1>1, <2>1
  <2>11. Shape(s) /\ Inside(s) = Inside(t)
    <3>1. /\ Inside(t) \subseteq DOMAIN s.nodes
          /\ \A j \in Inside(t) : s.nodes[j] = nodes[j]
      BY <1>1, <2>6, <2>10 DEF m
    <3> QED BY <2>5, <2>7, <2>9, <3>1, ShapeKeeps DEF m
  <2>12. Apart(s, i)
    <3>1. m[i].left = None /\ m[i].right = None /\ m[i].height = 0
      BY <1>2, <2>1, <2>3, <2>6 DEF FreeList
    <3> QED BY <2>1, <2>6, <2>10, <2>11, <3>1 DEF Apart, m
  <2> QED BY <2>1, <2>5, <2>6, <2>10, <2>11, <2>12 DEF m, s, i
<1>4. CASE t.free = None
  <2>1. i = Len(nodes) + 1 /\ i \notin DOMAIN nodes
    BY <1>1, <1>4 DEF Allocated
  <2>2. NewNode \in NodeType /\ NewNode.height = 0 /\ NewNode.left = None /\ NewNode.right = None
    BY DEF NewNode, NodeType, None, NoBox, Point, BoxType, PointType
  <2>3. s = [t EXCEPT !.nodes = Append(nodes, NewNode)]
    BY <1>4 DEF Allocate
  <2>4. m = Append(nodes, NewNode) /\ s.root = t.root /\ s.free = t.free
    BY <1>1, <2>3 DEF TreeType
  <2>5. /\ m \in Seq(NodeType) /\ DOMAIN m = DOMAIN nodes \union {i} /\ m[i] = NewNode
        /\ \A j \in DOMAIN nodes : m[j] = nodes[j]
    BY <1>1, <2>1, <2>2, <2>4
  <2>6. s \in TreeType
    BY <1>1, <2>3, <2>4, <2>5 DEF TreeType
  <2> HIDE DEF s, m, i
  <2>7. FreeSet(m) = FreeSet(nodes)
    <3>1. m[i].height # -1
      BY <2>2, <2>5
    <3> QED BY <2>5, <3>1 DEF FreeSet
  <2>8. FreeList(m, s.free)
    <3>1. \A j \in FreeSet(nodes) : m[j] = nodes[j] /\ nodes[j].left = None /\ nodes[j].right = None
      BY <1>2, <2>5 DEF FreeSet, FreeList
    <3>2. \A j \in FreeSet(nodes) : /\ m[j].parent = nodes[j].parent
                                    /\ m[j].left = None /\ m[j].right = None
      BY <3>1
    <3> HIDE DEF nodes
    <3> QED BY <1>1, <1>2, <2>4, <2>7, <3>2, FreeKeep

  <2>9. i \notin Inside(t)
    BY <1>1, <2>1
  <2>10. Shape(s) /\ Inside(s) = Inside(t)
    <3>1. /\ Inside(t) \subseteq DOMAIN s.nodes
          /\ \A j \in Inside(t) : s.nodes[j] = nodes[j]
      BY <1>1, <2>5 DEF m
    <3> QED BY <2>4, <2>6, <2>8, <3>1, ShapeKeeps DEF m
  <2>11. Apart(s, i)
    BY <2>2, <2>5, <2>9, <2>10 DEF Apart, m
  <2> QED BY <2>1, <2>4, <2>5, <2>9, <2>10, <2>11 DEF m, s, i
<1> QED BY <1>3, <1>4

-----------------------------------------------------------------------------
(* Joining a leaf to its sibling.                                           *)

(* Parents are higher than their children.                                  *)
LEMMA HeightsRise ==
  ASSUME NEW nodes \in Seq(NodeType), NEW root, NEW B, IsTree(nodes, root, B), LeavesBare(nodes, B),
         \A j \in Inner(nodes, B) : Fit(nodes, j)
  PROVE  \A j \in B : nodes[j].parent # None =>
           /\ nodes[j].parent \in Inner(nodes, B) /\ j # root
           /\ nodes[nodes[j].parent].height > nodes[j].height
           /\ nodes[nodes[j].parent].left = j \/ nodes[nodes[j].parent].right = j
<1> SUFFICES ASSUME NEW j \in B, nodes[j].parent # None
             PROVE  /\ nodes[j].parent \in Inner(nodes, B) /\ j # root
                    /\ nodes[nodes[j].parent].height > nodes[j].height
                    /\ nodes[nodes[j].parent].left = j \/ nodes[nodes[j].parent].right = j
  OBVIOUS
<1> DEFINE p == nodes[j].parent
<1>1. B \subseteq DOMAIN nodes /\ None \notin B
  BY NoneOutside DEF IsTree
<1>2. j # root
  BY <1>1 DEF IsTree
<1>3. p \in B /\ (nodes[p].left = j \/ nodes[p].right = j)
  <2>1. p \in B /\ j \in Kids(nodes, p)
    BY <1>2, TreeParents
  <2> QED BY <2>1 DEF Kids
<1> HIDE DEF p
<1>4. nodes[p].left # None /\ nodes[p].left \in B /\ nodes[p].right \in B
  BY <1>1, <1>3 DEF IsTree
<1>5. p \in Inner(nodes, B)
  BY <1>3, <1>4 DEF Inner
<1> DEFINE l == nodes[nodes[p].left].height
           s == nodes[nodes[p].right].height
<1>6. l \in Nat /\ s \in Nat
  BY <1>4 DEF LeavesBare
<1>7. nodes[p].height = 1 + Max({l, s})
  BY <1>5 DEF Fit
<1>8. nodes[j].height = l \/ nodes[j].height = s
  BY <1>3
<1> HIDE DEF l, s
<1>9. nodes[p].height > nodes[j].height
  <2> DEFINE x == nodes[p].height
             y == nodes[j].height
  <2>1. Max({l, s}) = IF l >= s THEN l ELSE s
    BY <1>6, MaxOfTwo
  <2>2. x = 1 + Max({l, s}) /\ (y = l \/ y = s)
    BY <1>7, <1>8
  <2> HIDE DEF x, y
  <2>3. x > y
    BY <1>6, <2>1, <2>2
  <2> QED BY <2>3 DEF x, y
<1> QED BY <1>2, <1>3, <1>5, <1>9 DEF p

(* The links once a leaf has been joined to its sibling under top.          *)
Joined(nodes, up, sibling, top, leaf) ==
  [Relinked(nodes, up, sibling, top) EXCEPT
     ![top] = [@ EXCEPT !.parent = up, !.left = sibling, !.right = leaf],
     ![sibling].parent = top, ![leaf].parent = top]

(* The nodes after Relinked, field by field.                                *)
LEMMA RelinkedNodes ==
  ASSUME NEW nodes \in Seq(NodeType), NEW i \in DOMAIN nodes \union {None}, NEW old, NEW new \in Nat
  PROVE  LET m == Relinked(nodes, i, old, new)
         IN /\ m \in Seq(NodeType) /\ Len(m) = Len(nodes)
            /\ \A j \in DOMAIN nodes :
                 /\ j # i => m[j] = nodes[j]
                 /\ m[j].parent = nodes[j].parent
                 /\ m[j].left = IF j = i /\ nodes[i].left = old THEN new ELSE nodes[j].left
                 /\ m[j].right = IF j = i /\ nodes[i].left # old THEN new ELSE nodes[j].right
                 /\ m[j].height = nodes[j].height /\ m[j].box = nodes[j].box
                 /\ m[j].data = nodes[j].data
<1> DEFINE m == Relinked(nodes, i, old, new)
<1>0. None \notin DOMAIN nodes
  BY NoneOutside
<1>1. CASE i = None
  <2>1. m = nodes
    BY <1>1 DEF Relinked
  <2> QED BY <1>0, <1>1, <2>1
<1>2. CASE i # None
  <2> DEFINE e == IF nodes[i].left = old THEN [nodes[i] EXCEPT !.left = new]
                  ELSE [nodes[i] EXCEPT !.right = new]
  <2>1. nodes[i] \in NodeType
    BY <1>2
  <2>2. /\ e \in NodeType /\ e.parent = nodes[i].parent
        /\ e.left = IF nodes[i].left = old THEN new ELSE nodes[i].left
        /\ e.right = IF nodes[i].left # old THEN new ELSE nodes[i].right
        /\ e.height = nodes[i].height /\ e.box = nodes[i].box /\ e.data = nodes[i].data
    BY <2>1 DEF NodeType
  <2>3. m = [nodes EXCEPT ![i] = e]
    BY <1>2 DEF Relinked
  <2> HIDE DEF e, m
  <2>4. /\ m \in Seq(NodeType) /\ Len(m) = Len(nodes) /\ m[i] = e
        /\ \A j \in DOMAIN nodes : j # i => m[j] = nodes[j]
    BY <1>2, <2>2, <2>3
  <2>5. \A j \in DOMAIN nodes :
                 /\ j # i => m[j] = nodes[j]
                 /\ m[j].parent = nodes[j].parent
                 /\ m[j].left = IF j = i /\ nodes[i].left = old THEN new ELSE nodes[j].left
                 /\ m[j].right = IF j = i /\ nodes[i].left # old THEN new ELSE nodes[j].right
                 /\ m[j].height = nodes[j].height /\ m[j].box = nodes[j].box
                 /\ m[j].data = nodes[j].data
    BY <2>2, <2>4
  <2> QED BY <2>4, <2>5 DEF m
<1> QED BY <1>1, <1>2

(* The same, field by field.                                                *)
JoinedLinks(nodes, m, up, sibling, top, leaf) ==
  /\ m \in Seq(NodeType) /\ Len(m) = Len(nodes)
  /\ \A j \in DOMAIN nodes :
       /\ j \notin {up, sibling, top, leaf} => m[j] = nodes[j]
       /\ m[j].parent = IF j \in {sibling, leaf} THEN top
                        ELSE IF j = top THEN up ELSE nodes[j].parent
       /\ m[j].left = IF j = top THEN sibling
                      ELSE IF j = up /\ nodes[up].left = sibling THEN top ELSE nodes[j].left
       /\ m[j].right = IF j = top THEN leaf
                       ELSE IF j = up /\ nodes[up].left # sibling THEN top ELSE nodes[j].right
       /\ m[j].height = nodes[j].height /\ m[j].box = nodes[j].box
       /\ m[j].data = nodes[j].data

(* Joined makes these links.                                                *)
LEMMA JoinedNodes ==
  ASSUME NEW nodes \in Seq(NodeType), NEW up \in DOMAIN nodes \union {None},
         NEW sibling \in DOMAIN nodes, NEW top \in DOMAIN nodes, NEW leaf \in DOMAIN nodes,
         up # sibling, up # top, up # leaf, sibling # top, sibling # leaf, top # leaf
  PROVE  JoinedLinks(nodes, Joined(nodes, up, sibling, top, leaf), up, sibling, top, leaf)
<1> DEFINE k == Relinked(nodes, up, sibling, top)
           m == Joined(nodes, up, sibling, top, leaf)
<1>0. /\ up \in Nat /\ sibling \in Nat /\ top \in Nat /\ leaf \in Nat
  BY DEF None
<1>1. /\ k \in Seq(NodeType) /\ Len(k) = Len(nodes)
      /\ \A j \in DOMAIN nodes :
                 /\ j # up => k[j] = nodes[j]
                 /\ k[j].parent = nodes[j].parent
                 /\ k[j].left = IF j = up /\ nodes[up].left = sibling THEN top ELSE nodes[j].left
                 /\ k[j].right = IF j = up /\ nodes[up].left # sibling THEN top ELSE nodes[j].right
                 /\ k[j].height = nodes[j].height /\ k[j].box = nodes[j].box
                 /\ k[j].data = nodes[j].data
  BY <1>0, RelinkedNodes
<1> HIDE DEF k
<1> DEFINE a == [k[top] EXCEPT !.parent = up, !.left = sibling, !.right = leaf]
           b == [k[sibling] EXCEPT !.parent = top]
           c == [k[leaf] EXCEPT !.parent = top]
<1>2. k[top] \in NodeType /\ k[sibling] \in NodeType /\ k[leaf] \in NodeType
  BY <1>1
<1>3. /\ a \in NodeType /\ a.parent = up /\ a.left = sibling /\ a.right = leaf
      /\ a.height = k[top].height /\ a.box = k[top].box /\ a.data = k[top].data
      /\ b \in NodeType /\ b.parent = top /\ b.left = k[sibling].left /\ b.right = k[sibling].right
      /\ b.height = k[sibling].height /\ b.box = k[sibling].box /\ b.data = k[sibling].data
      /\ c \in NodeType /\ c.parent = top /\ c.left = k[leaf].left /\ c.right = k[leaf].right
      /\ c.height = k[leaf].height /\ c.box = k[leaf].box /\ c.data = k[leaf].data
  BY <1>0, <1>2 DEF NodeType
<1>4. m = [k EXCEPT ![top] = a, ![sibling] = b, ![leaf] = c]
  <2>1. m = [k EXCEPT ![top] = [@ EXCEPT !.parent = up, !.left = sibling, !.right = leaf],
                      ![sibling].parent = top, ![leaf].parent = top]
    BY DEF Joined, k
  <2> QED BY <1>1, <2>1
<1> HIDE DEF a, b, c, m
<1>5. /\ m \in Seq(NodeType) /\ Len(m) = Len(nodes)
      /\ m[top] = a /\ m[sibling] = b /\ m[leaf] = c
      /\ \A j \in DOMAIN nodes : j \notin {top, sibling, leaf} => m[j] = k[j]
  BY <1>1, <1>3, <1>4
<1>6. \A j \in DOMAIN nodes :
                 /\ j \notin {up, sibling, top, leaf} => m[j] = nodes[j]
                 /\ m[j].parent = IF j \in {sibling, leaf} THEN top
                                  ELSE IF j = top THEN up ELSE nodes[j].parent
                 /\ m[j].left = IF j = top THEN sibling
                                ELSE IF j = up /\ nodes[up].left = sibling THEN top ELSE nodes[j].left
                 /\ m[j].right = IF j = top THEN leaf
                                 ELSE IF j = up /\ nodes[up].left # sibling THEN top ELSE nodes[j].right
                 /\ m[j].height = nodes[j].height /\ m[j].box = nodes[j].box
                 /\ m[j].data = nodes[j].data
  <2> TAKE j \in DOMAIN nodes
  <2>1. CASE j = top
    BY <1>1, <1>3, <1>5, <2>1
  <2>2. CASE j = sibling
    BY <1>1, <1>3, <1>5, <2>2
  <2>3. CASE j = leaf
    BY <1>1, <1>3, <1>5, <2>3
  <2>4. CASE j \notin {top, sibling, leaf}
    BY <1>1, <1>5, <2>4
  <2> QED BY <2>1, <2>2, <2>3, <2>4
<1> QED BY <1>5, <1>6 DEF m, JoinedLinks

(* A refitted tree is in shape again.                                       *)
LEMMA RefitShape ==
  ASSUME NEW m, NEW root \in Nat, NEW free \in Nat, NEW B, NEW i, NEW r, Refittable(m, root, B, i, r),
         \A j \in Inner(m, B) : Fit(m, j) \/ \E k \in 0..Len(m) : Up(m, i)[k] = j,
         \A j \in B : m[j].left = None => m[j].height = 0,
         FreeList(m, free)
  PROVE  /\ InShape([nodes |-> Refit(m, i), root |-> root, free |-> free], B)
         /\ Refit(m, i) \in Refits(m, B)
<1> DEFINE f == Refit(m, i)
           s == [nodes |-> f, root |-> root, free |-> free]
<1>1. f \in Refits(m, B) /\ \A j \in Inner(m, B) : Fit(f, j)
  BY RefitFacts
<1>2. m \in Seq(NodeType) /\ IsTree(m, root, B) /\ None \notin B /\ B \subseteq DOMAIN m
  BY NoneOutside DEF Refittable, IsTree
<1> HIDE DEF f
<1>3. /\ f \in Seq(NodeType) /\ SameLinks(m, f) /\ DOMAIN f = DOMAIN m
      /\ \A j \in DOMAIN m : j \notin Inner(m, B) => f[j] = m[j]
      /\ \A j \in B : f[j].height \in Nat
  BY <1>1, <1>2 DEF Refits, SameLinks
<1>4. \A j \in DOMAIN m : f[j].parent = m[j].parent /\ f[j].left = m[j].left /\ f[j].right = m[j].right
  BY <1>3 DEF SameLinks
<1>5. IsTree(f, root, B)
  BY <1>2, <1>3, <1>4, TreeKeeps
<1>6. Inner(f, B) = Inner(m, B)
  BY <1>2, <1>4 DEF Inner
<1>7. \A j \in B : IsLeaf(f[j]) <=> f[j].left = None
  <2> TAKE j \in B
  <2>1. CASE m[j].left = None
    BY <1>2, <1>3, <1>4, <2>1 DEF Inner, IsLeaf
  <2>2. CASE m[j].left # None
    <3>1. f[j].left \in B /\ f[j].right \in B /\ j \in Inner(m, B) /\ f[j].left # None
      BY <1>2, <1>4, <1>5, <2>2 DEF IsTree, Inner
    <3> DEFINE a == f[f[j].left].height
               b == f[f[j].right].height
    <3>2. a \in Nat /\ b \in Nat /\ f[j].height = 1 + Max({a, b})
      BY <1>1, <1>3, <3>1 DEF Fit
    <3> HIDE DEF a, b
    <3>3. Max({a, b}) \in Nat
      <4>1. Max({a, b}) = IF a >= b THEN a ELSE b
        BY <3>2, MaxOfTwo
      <4> QED BY <3>2, <4>1
    <3>4. f[j].height # 0
      BY <3>2, <3>3
    <3> QED BY <3>1, <3>4 DEF IsLeaf
  <2> QED BY <2>1, <2>2
<1>8. LeavesBare(f, B)
  BY <1>3, <1>7 DEF LeavesBare
<1>9. FreeSet(f) = FreeSet(m)
  <2>1. \A j \in B : m[j].height # -1 /\ f[j].height # -1
    BY <1>3 DEF Refittable
  <2>2. \A j \in DOMAIN m : j \notin B => f[j] = m[j]
    BY <1>3 DEF Inner
  <2> QED BY <1>3, <2>1, <2>2 DEF FreeSet
<1>10. FreeList(f, free)
  <2>1. \A j \in FreeSet(m) : f[j].parent = m[j].parent /\ f[j].left = None /\ f[j].right = None
    BY <1>4 DEF FreeList, FreeSet
  <2> QED BY <1>2, <1>9, <2>1, FreeKeep
<1>11. s \in TreeType /\ s.nodes = f /\ s.root = root /\ s.free = free
  BY <1>3 DEF TreeType
<1> HIDE DEF s
<1>12. InShape(s, B)
  BY <1>1, <1>5, <1>6, <1>8, <1>10, <1>11 DEF InShape
<1> QED BY <1>1, <1>12 DEF s, f

(* A leaf and a sibling of the tree under a new node top are a tree.        *)
Joinable(nodes, root, B, up, sibling, top, leaf) ==
  /\ nodes \in Seq(NodeType) /\ IsTree(nodes, root, B) /\ LeavesBare(nodes, B)
  /\ \A j \in Inner(nodes, B) : Fit(nodes, j)
  /\ sibling \in B /\ up = nodes[sibling].parent
  /\ {top, leaf} \subseteq DOMAIN nodes \ B /\ top # leaf
  /\ nodes[leaf].left = None /\ nodes[leaf].right = None
  /\ nodes[leaf].height = 0 /\ nodes[top].height = 0

(* They are a tree of the old nodes, the leaf and top, below top if the     *)
(* sibling was the root.                                                    *)
LEMMA JoinedTree ==
  ASSUME NEW nodes, NEW root, NEW B, NEW up, NEW sibling, NEW top, NEW leaf,
         Joinable(nodes, root, B, up, sibling, top, leaf),
         NEW first, up = None => first = top, up # None => first = root
  PROVE  /\ up \in B \union {None} /\ JoinedLinks(nodes, Joined(nodes, up, sibling, top, leaf), up, sibling, top, leaf)
         /\ IsTree(Joined(nodes, up, sibling, top, leaf), first, B \union {leaf, top})
<1> DEFINE m == Joined(nodes, up, sibling, top, leaf)
           C == B \union {leaf, top}
<1>0. /\ nodes \in Seq(NodeType) /\ IsTree(nodes, root, B) /\ sibling \in B /\ up = nodes[sibling].parent
      /\ top \in DOMAIN nodes /\ leaf \in DOMAIN nodes /\ top \notin B /\ leaf \notin B /\ top # leaf
      /\ nodes[leaf].left = None /\ nodes[leaf].right = None /\ up # sibling
  <2>1. /\ nodes \in Seq(NodeType) /\ IsTree(nodes, root, B) /\ LeavesBare(nodes, B)
        /\ \A j \in Inner(nodes, B) : Fit(nodes, j)
    BY DEF Joinable
  <2>2. \A j \in B : nodes[j].parent # None =>
           /\ nodes[j].parent \in Inner(nodes, B) /\ j # root
           /\ nodes[nodes[j].parent].height > nodes[j].height
           /\ nodes[nodes[j].parent].left = j \/ nodes[nodes[j].parent].right = j
    BY <2>1, HeightsRise
  <2>3. sibling \in B /\ nodes[sibling].height \in Nat /\ sibling # None
    BY <2>1, NoneOutside DEF Joinable, LeavesBare, IsTree
  <2>4. nodes[sibling].parent # sibling
    BY <2>2, <2>3
  <2> QED BY <2>1, <2>4 DEF Joinable
<1>1. /\ B \subseteq DOMAIN nodes /\ None \notin B /\ None \notin DOMAIN nodes
      /\ root \in B /\ nodes[root].parent = None /\ root # None
  BY <1>0, NoneOutside DEF IsTree
<1>2. IF up = None THEN sibling = root
      ELSE up \in B /\ (nodes[up].left = sibling \/ nodes[up].right = sibling) /\ sibling # root
  <2>1. sibling # root => up \in B /\ sibling \in Kids(nodes, up)
    BY <1>0, TreeParents
  <2> QED BY <1>0, <1>1, <2>1 DEF Kids
<1>3. up \in DOMAIN nodes \union {None} /\ up # top /\ up # leaf /\ sibling # top /\ sibling # leaf
  BY <1>0, <1>1, <1>2
<1>4. /\ m \in Seq(NodeType) /\ Len(m) = Len(nodes)
      /\ \A j \in DOMAIN nodes :
                 /\ j \notin {up, sibling, top, leaf} => m[j] = nodes[j]
                 /\ m[j].parent = IF j \in {sibling, leaf} THEN top
                                  ELSE IF j = top THEN up ELSE nodes[j].parent
                 /\ m[j].left = IF j = top THEN sibling
                                ELSE IF j = up /\ nodes[up].left = sibling THEN top ELSE nodes[j].left
                 /\ m[j].right = IF j = top THEN leaf
                                 ELSE IF j = up /\ nodes[up].left # sibling THEN top ELSE nodes[j].right
                 /\ m[j].height = nodes[j].height /\ m[j].box = nodes[j].box
                 /\ m[j].data = nodes[j].data
  <2>1. sibling \in DOMAIN nodes /\ top \in DOMAIN nodes /\ leaf \in DOMAIN nodes
    BY <1>0, <1>1
  <2>2. up # sibling /\ up # top /\ up # leaf /\ sibling # top /\ sibling # leaf /\ top # leaf
    BY <1>0, <1>3
  <2>3. up \in DOMAIN nodes \union {None}
    BY <1>0, <1>3
  <2>4. JoinedLinks(nodes, m, up, sibling, top, leaf)
    BY <1>0, <2>1, <2>2, <2>3, JoinedNodes
  <2> HIDE DEF m
  <2> QED BY <1>0, <2>4 DEF JoinedLinks
<1> HIDE DEF m

<1>5. \A j \in B : \/ nodes[j].left = None /\ nodes[j].right = None
                   \/ /\ nodes[j].left \in B /\ nodes[j].right \in B /\ nodes[j].left # nodes[j].right
                      /\ nodes[nodes[j].left].parent = j /\ nodes[nodes[j].right].parent = j
  BY <1>0 DEF IsTree
<1>6. C \subseteq DOMAIN m /\ first \in C /\ first # None
  BY <1>0, <1>1, <1>4
<1>7. m[first].parent = None
  BY <1>0, <1>1, <1>2, <1>3, <1>4
<1>8. ASSUME NEW j \in C
      PROVE  \/ m[j].left = None /\ m[j].right = None
             \/ /\ m[j].left \in C /\ m[j].right \in C /\ m[j].left # m[j].right
                /\ m[m[j].left].parent = j /\ m[m[j].right].parent = j
  <2>1. CASE j = leaf
    BY <1>0, <1>3, <1>4, <2>1
  <2>2. CASE j = top
    <3>1. m[j].left = sibling /\ m[j].right = leaf
      BY <1>0, <1>4, <2>2
    <3>2. m[sibling].parent = top /\ m[leaf].parent = top
      BY <1>0, <1>1, <1>4
    <3> QED BY <1>0, <1>3, <2>2, <3>1, <3>2
  <2>3. CASE j \in B /\ j # up
    <3>1. m[j].left = nodes[j].left /\ m[j].right = nodes[j].right
      BY <1>0, <1>1, <1>4, <2>3
    <3>2. CASE nodes[j].left = None /\ nodes[j].right = None
      BY <1>0, <3>1, <3>2
    <3>3. ASSUME NEW c \in B, nodes[c].parent = j PROVE m[c].parent = j
      BY <1>0, <1>1, <1>4, <2>3, <3>3
    <3>4. CASE nodes[j].left \in B
      BY <1>0, <1>1, <1>5, <2>3, <3>1, <3>3, <3>4
    <3> QED BY <1>0, <1>5, <2>3, <3>2, <3>4
  <2>4. CASE j = up /\ up # None /\ nodes[up].left = sibling
    <3>1. m[j].left = top /\ m[j].right = nodes[j].right
      BY <1>0, <1>1, <1>2, <1>3, <1>4, <2>4
    <3>2. nodes[j].right \in B /\ nodes[j].right # sibling /\ nodes[nodes[j].right].parent = j
      BY <1>0, <1>1, <1>2, <1>5, <2>4
    <3>3. m[top].parent = j /\ m[nodes[j].right].parent = j
      BY <1>0, <1>1, <1>3, <1>4, <2>4, <3>2
    <3>4. top # nodes[j].right
      BY <1>0, <3>2
    <3> QED BY <1>0, <3>1, <3>2, <3>3, <3>4
  <2>5. CASE j = up /\ up # None /\ nodes[up].left # sibling
    <3>1. m[j].left = nodes[j].left /\ m[j].right = top
      BY <1>0, <1>1, <1>2, <1>3, <1>4, <2>5
    <3>2. nodes[j].left \in B /\ nodes[nodes[j].left].parent = j
      BY <1>0, <1>1, <1>2, <1>5, <2>5
    <3>3. m[top].parent = j /\ m[nodes[j].left].parent = j
      BY <1>0, <1>1, <1>3, <1>4, <2>5, <3>2
    <3>4. top # nodes[j].left
      BY <1>0, <3>2
    <3> QED BY <1>0, <3>1, <3>2, <3>3, <3>4
  <2> QED BY <1>0, <1>1, <2>1, <2>2, <2>3, <2>4, <2>5
<1>9. ASSUME NEW X \in SUBSET C, first \in X, \A j \in X : Kids(m, j) \ {None} \subseteq X
      PROVE  X = C
  <2> DEFINE Y == X \intersect B
  <2>1. top \in X => sibling \in X /\ leaf \in X
    <3>1. Kids(m, top) = {sibling, leaf}
      BY <1>0, <1>4 DEF Kids
    <3> QED BY <1>0, <1>1, <1>9, <3>1
  <2>2. up \in X => top \in X
    <3> SUFFICES ASSUME up \in X PROVE top \in X
      OBVIOUS
    <3>1. up \in B /\ up \in DOMAIN nodes
      BY <1>0, <1>1, <1>2, <1>3
    <3>2. top \in Kids(m, up)
      BY <1>0, <1>3, <1>4, <3>1 DEF Kids
    <3> QED BY <1>0, <1>1, <1>9, <3>2
  <2>3. root \in Y
    BY <1>0, <1>1, <1>2, <1>9, <2>1
  <2>4. ASSUME NEW j \in Y, NEW c \in Kids(nodes, j), c # None PROVE c \in Y
    <3>1. c \in B
      BY <1>0, <1>5, <2>4 DEF Kids
    <3>2. c # sibling => c \in Kids(m, j)
      BY <1>0, <1>1, <1>2, <1>3, <1>4, <2>4 DEF Kids
    <3>3. c = sibling => j = up
      BY <1>0, <1>1, <1>5, <2>4, <3>1 DEF Kids
    <3> QED BY <1>0, <1>9, <2>1, <2>2, <2>4, <3>1, <3>2, <3>3
  <2>5. \A j \in Y : Kids(nodes, j) \ {None} \subseteq Y
    BY <1>0, <2>4
  <2>6. Y \in SUBSET B
    OBVIOUS
  <2>7. Y = B
    <3> HIDE DEF Y
    <3> QED BY <1>0, <2>3, <2>5, <2>6 DEF IsTree
  <2>8. top \in X
    BY <1>0, <1>2, <1>9, <2>2, <2>7
  <2> QED BY <1>0, <2>1, <2>7, <2>8
<1> HIDE DEF C
<1>10. IsTree(m, first, C)
  BY <1>0, <1>6, <1>7, <1>8, <1>9 DEF IsTree
<1> QED BY <1>2, <1>4, <1>10 DEF m, C, JoinedLinks

(* The way up from i rises, and may leave alone the nodes that are not in S. *)
Climbable(m, root, B, i, S) ==
  /\ \E r : Refittable(m, root, B, i, r)
  /\ \A j \in Inner(m, B) : Fit(m, j) \/ j \in S
  /\ \A j \in B : m[j].left = None => m[j].height = 0

(* Of the nodes of C in m, those of B that have no children have none, and leaf. *)
BareBut(m, C, leaf, nodes, B) ==
  \A j \in C : m[j].left = None <=> j = leaf \/ (j \in B /\ nodes[j].left = None)

(* The nodes m of a tree that a leaf has been joined to, before they are    *)
(* refitted.                                                                *)
JoinedIn(nodes, root, B, up, sibling, top, leaf, m, first) ==
  /\ Joinable(nodes, root, B, up, sibling, top, leaf) /\ up \in B \union {None}
  /\ JoinedLinks(nodes, m, up, sibling, top, leaf)
  /\ IsTree(m, first, B \union {leaf, top})

(* After joining, only top and its parent may not fit their children; the   *)
(* way up from top sets both.                                               *)
LEMMA JoinedRefittable ==
  ASSUME NEW nodes, NEW root, NEW B, NEW up, NEW sibling, NEW top, NEW leaf,
         NEW m, NEW first, JoinedIn(nodes, root, B, up, sibling, top, leaf, m, first)
  PROVE  /\ Climbable(m, first, B \union {leaf, top}, top, {top, up})
         /\ BareBut(m, B \union {leaf, top}, leaf, nodes, B)
<1> DEFINE C == B \union {leaf, top}
           r == [j \in C |-> IF j = leaf THEN 0 ELSE IF j = top THEN 2 * nodes[sibling].height + 1
                             ELSE 2 * nodes[j].height]
<1>0. /\ nodes \in Seq(NodeType) /\ IsTree(nodes, root, B) /\ LeavesBare(nodes, B)
      /\ \A j \in Inner(nodes, B) : Fit(nodes, j)
      /\ sibling \in B /\ up = nodes[sibling].parent
      /\ top \in DOMAIN nodes /\ leaf \in DOMAIN nodes /\ top \notin B /\ leaf \notin B /\ top # leaf
      /\ nodes[leaf].left = None /\ nodes[leaf].right = None
      /\ nodes[leaf].height = 0 /\ nodes[top].height = 0
      /\ up \in B \union {None} /\ JoinedLinks(nodes, m, up, sibling, top, leaf)
      /\ IsTree(m, first, B \union {leaf, top})
  BY DEF Joinable, JoinedIn
<1>1. /\ B \subseteq DOMAIN nodes /\ None \notin B /\ None \notin DOMAIN nodes
      /\ sibling # top /\ sibling # leaf /\ sibling # None /\ up # top /\ up # leaf
  BY <1>0, NoneOutside DEF IsTree
<1>2. /\ m \in Seq(NodeType) /\ Len(m) = Len(nodes)
      /\ \A j \in DOMAIN nodes :
                 /\ j \notin {up, sibling, top, leaf} => m[j] = nodes[j]
                 /\ m[j].parent = IF j \in {sibling, leaf} THEN top
                                  ELSE IF j = top THEN up ELSE nodes[j].parent
                 /\ m[j].left = IF j = top THEN sibling
                                ELSE IF j = up /\ nodes[up].left = sibling THEN top ELSE nodes[j].left
                 /\ m[j].right = IF j = top THEN leaf
                                 ELSE IF j = up /\ nodes[up].left # sibling THEN top ELSE nodes[j].right
                 /\ m[j].height = nodes[j].height /\ m[j].box = nodes[j].box
                 /\ m[j].data = nodes[j].data
  BY <1>0 DEF JoinedLinks
<1>3. \A j \in B : nodes[j].height \in Nat /\ (nodes[j].height = 0 <=> nodes[j].left = None)
  BY <1>0 DEF LeavesBare, IsLeaf
<1>4. \A j \in B : nodes[j].parent # None =>
           /\ nodes[j].parent \in B
           /\ nodes[nodes[j].parent].height > nodes[j].height
  <2>1. \A j \in B : nodes[j].parent # None =>
           /\ nodes[j].parent \in Inner(nodes, B) /\ j # root
           /\ nodes[nodes[j].parent].height > nodes[j].height
           /\ nodes[nodes[j].parent].left = j \/ nodes[nodes[j].parent].right = j
    BY <1>0, HeightsRise
  <2> QED BY <1>0, <2>1 DEF Inner
<1>5. \A j \in C : m[j].left = None => m[j].height = 0
  <2> TAKE j \in C
  <2>1. CASE j = leaf \/ j = top
    BY <1>0, <1>1, <1>2, <2>1
  <2>2. CASE j \in B
    <3>1. j \in DOMAIN nodes /\ j # top /\ j # leaf
      BY <1>0, <1>1, <2>2
    <3>2. m[j].left = None => nodes[j].left = None
      BY <1>0, <1>1, <1>2, <3>1
    <3> QED BY <1>0, <1>2, <1>3, <2>2, <3>1, <3>2
  <2> QED BY <1>0, <2>1, <2>2
<1>6. \A j \in C : m[j].left = None <=> j = leaf \/ (j \in B /\ nodes[j].left = None)
  <2>1. m[leaf].left = None /\ m[top].left # None
    BY <1>0, <1>1, <1>2
  <2>2. \A j \in B : m[j].left = None <=> nodes[j].left = None
    <3> SUFFICES ASSUME NEW j \in B PROVE m[j].left = None <=> nodes[j].left = None
      OBVIOUS
    <3>1. j \in DOMAIN nodes /\ j # top /\ j # leaf /\ top # None
      BY <1>0, <1>1
    <3> QED BY <1>0, <1>1, <1>2, <3>1
  <2> QED BY <1>0, <2>1, <2>2
<1>7. ASSUME NEW j \in Inner(m, C), j # top, j # up PROVE Fit(m, j)
  <2>1. j \in B /\ j \in DOMAIN nodes /\ m[j].left # None /\ j # leaf
    BY <1>0, <1>1, <1>2, <1>7 DEF Inner
  <2>2. m[j].left = nodes[j].left /\ m[j].right = nodes[j].right
    BY <1>0, <1>2, <1>7, <2>1
  <2>3. j \in Inner(nodes, B)
    BY <1>0, <2>1, <2>2 DEF Inner
  <2>4. nodes[j].left \in DOMAIN nodes /\ nodes[j].right \in DOMAIN nodes
    BY <1>0, <1>1, <2>1, <2>2 DEF IsTree
  <2>5. /\ m[j].box = nodes[j].box /\ m[j].height = nodes[j].height
        /\ m[nodes[j].left].box = nodes[nodes[j].left].box
        /\ m[nodes[j].right].box = nodes[nodes[j].right].box
        /\ m[nodes[j].left].height = nodes[nodes[j].left].height
        /\ m[nodes[j].right].height = nodes[nodes[j].right].height
    BY <1>0, <1>2, <2>1, <2>4
  <2>6. Fit(nodes, j)
    BY <1>0, <2>3
  <2> QED BY <1>0, <2>2, <2>5, <2>6 DEF Fit
<1>8. r \in [C -> Int]
  BY <1>0, <1>3
<1>9. \A j \in C : m[j].height \in Nat
  BY <1>0, <1>1, <1>2, <1>3
<1>10. ASSUME NEW j \in C, m[j].parent # None PROVE r[m[j].parent] > r[j]
  <2>0. sibling \in B /\ nodes[sibling].height \in Nat /\ top \in C /\ leaf \in C /\ sibling \in C
    BY <1>0, <1>3
  <2>1. CASE j = leaf
    <3>1. m[j].parent = top /\ r[top] = 2 * nodes[sibling].height + 1 /\ r[j] = 0
      BY <1>0, <1>1, <1>2, <2>0, <2>1
    <3> QED BY <1>0, <2>0, <3>1
  <2>2. CASE j = sibling
    <3>1. m[j].parent = top /\ r[top] = 2 * nodes[sibling].height + 1 /\ r[j] = 2 * nodes[sibling].height
      BY <1>0, <1>1, <1>2, <2>0, <2>2
    <3> QED BY <1>0, <2>0, <3>1
  <2>3. CASE j = top
    <3>1. m[j].parent = up
      BY <1>0, <1>1, <1>2, <2>3
    <3>2. up \in B /\ nodes[up].height > nodes[sibling].height
      BY <1>0, <1>4, <1>10, <3>1
    <3>3. r[up] = 2 * nodes[up].height /\ r[j] = 2 * nodes[sibling].height + 1
      BY <1>0, <1>1, <2>3, <3>2
    <3>4. nodes[up].height \in Nat
      BY <1>0, <1>3, <3>2
    <3> DEFINE a == nodes[up].height
               b == nodes[sibling].height
    <3>5. a \in Nat /\ b \in Nat /\ a > b /\ r[m[j].parent] = 2 * a /\ r[j] = 2 * b + 1
      BY <1>0, <2>0, <3>1, <3>2, <3>3, <3>4
    <3> HIDE DEF a, b, r
    <3> QED BY <1>0, <3>5
  <2>4. CASE j \in B /\ j # sibling
    <3>1. j \in DOMAIN nodes /\ j # top /\ j # leaf
      BY <1>0, <1>1, <2>4
    <3>2. m[j].parent = nodes[j].parent
      BY <1>0, <1>2, <2>4, <3>1
    <3>3. nodes[j].parent \in B /\ nodes[nodes[j].parent].height > nodes[j].height
      BY <1>0, <1>4, <1>10, <2>4, <3>2
    <3> DEFINE a == nodes[nodes[j].parent].height
               b == nodes[j].height
    <3>4. a \in Nat /\ b \in Nat /\ a > b
      BY <1>0, <1>3, <2>4, <3>3
    <3>5. r[nodes[j].parent] = 2 * a /\ r[j] = 2 * b
      BY <1>0, <1>1, <2>4, <3>3
    <3> HIDE DEF a, b, r
    <3> QED BY <1>0, <3>2, <3>4, <3>5
  <2> QED BY <1>0, <2>1, <2>2, <2>3, <2>4
<1>11. top \in Inner(m, C)
  BY <1>0, <1>1, <1>2 DEF Inner
<1> HIDE DEF C, r
<1>12. Refittable(m, first, C, top, r)
  BY <1>0, <1>2, <1>8, <1>9, <1>10, <1>11 DEF Refittable, C
<1>13. Climbable(m, first, C, top, {top, up})
  BY <1>5, <1>7, <1>12 DEF Climbable
<1>14. BareBut(m, C, leaf, nodes, B)
  BY <1>6 DEF BareBut
<1> QED BY <1>13, <1>14 DEF C

(* At the nodes of S the trees hold the same.                               *)
SameEntries(t, s, S) ==
  \A j \in S : s.nodes[j].box = t.nodes[j].box /\ s.nodes[j].data = t.nodes[j].data

(* Into an empty tree.                                                      *)
LEMMA InsertFirst ==
  ASSUME NEW t, Shape(t), NEW leaf, Apart(t, leaf), t.root = None
  PROVE  /\ Shape(Insert(t, leaf)) /\ DOMAIN Insert(t, leaf).nodes = DOMAIN t.nodes
         /\ Leaves(Insert(t, leaf)) = Leaves(t) \union {leaf}
         /\ SameEntries(t, Insert(t, leaf), Leaves(t) \union {leaf})
<1> DEFINE nodes == t.nodes
           s == Insert(t, leaf)
           e == [nodes[leaf] EXCEPT !.parent = None]
           m == [nodes EXCEPT ![leaf] = e]
<1>1. /\ t \in TreeType /\ nodes \in Seq(NodeType) /\ t.free \in Nat /\ None \notin DOMAIN nodes
      /\ leaf \in DOMAIN nodes /\ leaf \in Nat /\ nodes[leaf] \in NodeType
  BY ShapeFacts DEF Apart
<1>2. Inside(t) = {} /\ Leaves(t) = {}
  BY DEF Shape, InShape, IsTree, Leaves
<1>3. /\ e \in NodeType /\ e.parent = None /\ e.height = 0 /\ e.left = None /\ e.right = None
      /\ e.box = nodes[leaf].box /\ e.data = nodes[leaf].data
  BY <1>1 DEF NodeType, Apart, None
<1> HIDE DEF e
<1>4. /\ m \in Seq(NodeType) /\ DOMAIN m = DOMAIN nodes /\ m[leaf] = e
      /\ \A j \in DOMAIN nodes : j # leaf => m[j] = nodes[j]
  BY <1>1, <1>3
<1>5. s = [nodes |-> m, root |-> leaf, free |-> t.free]
  BY <1>1 DEF Insert, TreeType, e
<1> HIDE DEF m, s
<1>6. s \in TreeType /\ s.nodes = m /\ s.root = leaf /\ s.free = t.free
  BY <1>1, <1>4, <1>5 DEF TreeType
<1>7. IsTree(m, leaf, {leaf})
  BY <1>1, <1>3, <1>4 DEF IsTree, Kids
<1>8. LeavesBare(m, {leaf}) /\ Inner(m, {leaf}) = {}
  BY <1>3, <1>4 DEF LeavesBare, Inner, IsLeaf
<1>9. FreeList(m, t.free)
  <2>1. FreeList(nodes, t.free)
    BY DEF Shape, InShape
  <2>2. nodes[leaf].height # -1
    BY DEF Apart
  <2>3. FreeSet(m) = FreeSet(nodes) /\ leaf \notin FreeSet(nodes)
    BY <1>3, <1>4, <2>2 DEF FreeSet
  <2>4. \A j \in FreeSet(nodes) : m[j].parent = nodes[j].parent /\ m[j].left = None /\ m[j].right = None
    <3>1. \A j \in FreeSet(nodes) : m[j] = nodes[j]
      BY <1>4, <2>3 DEF FreeSet
    <3> QED BY <2>1, <3>1 DEF FreeList
  <2> HIDE DEF nodes
  <2> QED BY <1>1, <2>1, <2>3, <2>4, FreeKeep
<1>10. InShape(s, {leaf})
  BY <1>6, <1>7, <1>8, <1>9 DEF InShape
<1>11. Shape(s) /\ Inside(s) = {leaf}
  BY <1>10, ShapeOf
<1>12. Leaves(s) = {leaf}
  BY <1>3, <1>4, <1>6, <1>11 DEF Leaves, IsLeaf
<1> QED BY <1>2, <1>3, <1>4, <1>6, <1>11, <1>12 DEF SameEntries, s

(* Next to a sibling.                                                       *)
LEMMA InsertNext ==
  ASSUME NEW t, Shape(t), NEW leaf, Apart(t, leaf), t.root # None
  PROVE  /\ Shape(Insert(t, leaf)) /\ DOMAIN t.nodes \subseteq DOMAIN Insert(t, leaf).nodes
         /\ Leaves(Insert(t, leaf)) = Leaves(t) \union {leaf}
         /\ SameEntries(t, Insert(t, leaf), Leaves(t) \union {leaf})
<1> DEFINE B == Inside(t)
           box == t.nodes[leaf].box
           sibling == BestSibling(t, box)
           up == t.nodes[sibling].parent
           top == Allocated(t)
           g == Allocate(t)
           nodes == g.nodes
           m == Joined(nodes, up, sibling, top, leaf)
           first == IF up = None THEN top ELSE t.root
           C == B \union {leaf, top}
           f == Refit(m, top)
           s == Insert(t, leaf)
<1>1. /\ t \in TreeType /\ t.nodes \in Seq(NodeType) /\ B \subseteq DOMAIN t.nodes
      /\ leaf \in DOMAIN t.nodes /\ leaf \notin B /\ t.nodes[leaf] \in NodeType
      /\ t.nodes[leaf].height = 0 /\ t.nodes[leaf].left = None /\ t.nodes[leaf].right = None
      /\ IsTree(t.nodes, t.root, B) /\ LeavesBare(t.nodes, B)
      /\ Leaves(t) = {j \in B : t.nodes[j].left = None}
  BY ShapeFacts DEF Apart, Shape, InShape
<1>2. box \in BoxType
  BY <1>1 DEF NodeType
<1>3. sibling \in B
  <2> HIDE DEF box, B
  <2> QED BY <1>1, <1>2, BestSiblingInside
<1> HIDE DEF sibling
<1>4. /\ Shape(g) /\ Inside(g) = B /\ Apart(g, top) /\ g.root = t.root /\ top \notin B
      /\ top \in DOMAIN t.nodes => t.nodes[top].height = -1
      /\ DOMAIN t.nodes \subseteq DOMAIN nodes
      /\ \A j \in DOMAIN t.nodes : j # top => nodes[j] = t.nodes[j]
  BY AllocateFacts
<1> HIDE DEF g, top, box, B
<1>5. top # leaf
  BY <1>1, <1>4
<1>6. /\ g \in TreeType /\ nodes \in Seq(NodeType) /\ None \notin DOMAIN nodes
      /\ IsTree(nodes, t.root, B) /\ LeavesBare(nodes, B) /\ FreeList(nodes, g.free)
      /\ \A j \in Inner(nodes, B) : Fit(nodes, j)
      /\ g.root \in Nat /\ g.free \in Nat
      /\ B \intersect FreeSet(nodes) = {}
  BY <1>4, ShapeFacts DEF Shape, InShape
<1>7. /\ top \in DOMAIN nodes /\ leaf \in DOMAIN nodes /\ sibling \in DOMAIN nodes
      /\ nodes[leaf] = t.nodes[leaf]
      /\ \A j \in B : nodes[j] = t.nodes[j] /\ j # top
      /\ nodes[top].height = 0
  BY <1>1, <1>3, <1>4, <1>5 DEF Apart
<1>8. Joinable(nodes, t.root, B, up, sibling, top, leaf)
  <2>1. up = nodes[sibling].parent
    BY <1>3, <1>7
  <2> HIDE DEF up
  <2> QED BY <1>1, <1>3, <1>4, <1>5, <1>6, <1>7, <2>1 DEF Joinable
<1> HIDE DEF up, nodes
<1>9. up \in B \union {None} /\ IsTree(m, first, C) /\ JoinedLinks(nodes, m, up, sibling, top, leaf)
  BY <1>8, JoinedTree
<1> HIDE DEF m, first
<1>10. Climbable(m, first, C, top, {top, up}) /\ BareBut(m, C, leaf, nodes, B)
  <2>1. JoinedIn(nodes, t.root, B, up, sibling, top, leaf, m, first)
    BY <1>8, <1>9 DEF JoinedIn
  <2> QED BY <2>1, JoinedRefittable
<1>11. \A j \in C : m[j].left = None <=> j = leaf \/ (j \in B /\ nodes[j].left = None)
  BY <1>10 DEF BareBut
<1>12. PICK r : Refittable(m, first, C, top, r)
  BY <1>10 DEF Climbable
<1>13. /\ m \in Seq(NodeType) /\ Len(m) = Len(nodes) /\ DOMAIN m = DOMAIN nodes
       /\ \A j \in DOMAIN nodes : /\ j \notin {up, sibling, top, leaf} => m[j] = nodes[j]
                                  /\ m[j].height = nodes[j].height /\ m[j].box = nodes[j].box
                                  /\ m[j].data = nodes[j].data
       /\ m[top].parent = up
  <2>1. top # sibling
    BY <1>3, <1>4
  <2> QED BY <1>5, <1>6, <1>7, <1>9, <2>1 DEF JoinedLinks
<1>14. FreeList(m, g.free)
  <2>1. FreeSet(m) = FreeSet(nodes)
    BY <1>13 DEF FreeSet
  <2>2. top \notin FreeSet(nodes) /\ leaf \notin FreeSet(nodes) /\ sibling \notin FreeSet(nodes) /\ up \notin FreeSet(nodes)
    <3>1. nodes[top].height # -1 /\ nodes[leaf].height # -1
      BY <1>1, <1>7
    <3>2. None \notin FreeSet(nodes)
      BY <1>6 DEF FreeSet
    <3>3. top \notin FreeSet(nodes) /\ leaf \notin FreeSet(nodes)
      BY <3>1 DEF FreeSet
    <3> QED BY <1>3, <1>6, <1>9, <3>2, <3>3
  <2>3. \A j \in FreeSet(nodes) : m[j] = nodes[j] /\ nodes[j].left = None /\ nodes[j].right = None
    BY <1>6, <1>13, <2>2 DEF FreeSet, FreeList
  <2>4. \A j \in FreeSet(nodes) : m[j].parent = nodes[j].parent /\ m[j].left = None /\ m[j].right = None
    BY <2>3
  <2> QED BY <1>6, <2>1, <2>4, FreeKeep
<1>15. \A j \in Inner(m, C) : Fit(m, j) \/ \E k \in 0..Len(m) : Up(m, top)[k] = j
  <2>1. /\ Up(m, top)[0] = top
        /\ \A k \in 1..Len(m) :
              Up(m, top)[k] = IF Up(m, top)[k - 1] = None THEN None
                                ELSE m[Up(m, top)[k - 1]].parent
    BY <1>12, UpRefittable
  <2>2. 0 \in 0..Len(m) /\ 1 \in 1..Len(m) /\ 1 \in 0..Len(m) /\ 1 - 1 = 0 /\ top # None
    BY <1>6, <1>7, <1>13
  <2>3. Up(m, top)[1] = up
    <3>1. Up(m, top)[1] = IF Up(m, top)[1 - 1] = None THEN None ELSE m[Up(m, top)[1 - 1]].parent
      BY <2>1, <2>2
    <3> QED BY <1>13, <2>1, <2>2, <3>1
  <2> HIDE DEF C
  <2> QED BY <1>10, <2>1, <2>2, <2>3 DEF Climbable
<1>16. s = [nodes |-> f, root |-> first, free |-> g.free]
  <2>1. s = [g EXCEPT !.nodes = f, !.root = IF up = None THEN top ELSE @]
    BY DEF Insert, Joined, g, top, up, sibling, box, nodes, m
  <2> HIDE DEF s, f
  <2> QED BY <1>4, <1>6, <2>1 DEF TreeType, first
<1> HIDE DEF s
<1>17. InShape(s, C) /\ f \in Refits(m, C)
  <2>1. first \in Nat
    BY <1>1, <1>4, <1>6, <1>7 DEF first
  <2> HIDE DEF f, C
  <2>2. /\ InShape([nodes |-> Refit(m, top), root |-> first, free |-> g.free], C)
        /\ Refit(m, top) \in Refits(m, C)
    BY <1>6, <1>10, <1>12, <1>14, <1>15, <2>1, RefitShape DEF Climbable
  <2> QED BY <1>16, <2>2 DEF f
<1> HIDE DEF f
<1>18. Shape(s) /\ Inside(s) = C
  BY <1>17, ShapeOf
<1>19. DOMAIN f = DOMAIN nodes /\ SameLinks(m, f) /\ \A j \in DOMAIN m : j \notin Inner(m, C) => f[j] = m[j]
  <2>1. /\ f \in Seq(NodeType) /\ SameLinks(m, f)
        /\ \A j \in DOMAIN m : j \notin Inner(m, C) => f[j] = m[j]
    BY <1>17 DEF Refits
  <2>2. Len(f) = Len(m)
    BY <2>1 DEF SameLinks
  <2> HIDE DEF C
  <2> QED BY <1>13, <2>1, <2>2

<1>20. s.nodes = f
  BY <1>16
<1>21. Leaves(s) = Leaves(t) \union {leaf}
  <2>1. Leaves(s) = {j \in C : f[j].left = None}
    BY <1>18, <1>20, ShapeFacts
  <2>2. C \subseteq DOMAIN m
    BY <1>9 DEF IsTree
  <2>3. \A j \in C : f[j].left = m[j].left
    BY <1>19, <2>2 DEF SameLinks
  <2>4. \A j \in C : f[j].left = None <=> j = leaf \/ (j \in B /\ t.nodes[j].left = None)
    BY <1>7, <1>11, <2>3
  <2> QED BY <1>1, <2>1, <2>4
<1>22. ASSUME NEW j \in Leaves(t) \union {leaf}
       PROVE  s.nodes[j].box = t.nodes[j].box /\ s.nodes[j].data = t.nodes[j].data
  <2>1. nodes[j] = t.nodes[j] /\ j \in DOMAIN nodes
    BY <1>1, <1>4, <1>5, <1>7
  <2>2. j \in C /\ m[j].left = None
    BY <1>1, <1>7, <1>11
  <2>3. f[j] = m[j]
    BY <1>13, <1>19, <2>1, <2>2 DEF Inner
  <2> QED BY <1>13, <1>20, <2>1, <2>3
<1> QED BY <1>4, <1>18, <1>19, <1>20, <1>21, <1>22 DEF SameEntries, s

(* insert_leaf: the tree has one more leaf, in shape, and the boxes and     *)
(* data of all leaves are as they were.                                     *)
LEMMA InsertFacts ==
  ASSUME NEW t, Shape(t), NEW leaf, Apart(t, leaf)
  PROVE  /\ Shape(Insert(t, leaf)) /\ DOMAIN t.nodes \subseteq DOMAIN Insert(t, leaf).nodes
         /\ Leaves(Insert(t, leaf)) = Leaves(t) \union {leaf}
         /\ SameEntries(t, Insert(t, leaf), Leaves(t) \union {leaf})
BY InsertFirst, InsertNext

-----------------------------------------------------------------------------
(* Taking a leaf out.                                                       *)

(* free_node on p.                                                          *)
Freed(nodes, p, free) ==
  [nodes EXCEPT ![p].parent = free, ![p].height = -1, ![p].left = None, ![p].right = None]

(* The nodes once the parent p of a leaf has been freed: its other child    *)
(* sibling hangs on q, the parent of p.                                     *)
Parted(nodes, q, sibling, p, free) ==
  Freed([Relinked(nodes, q, p, sibling) EXCEPT ![sibling].parent = q], p, free)

(* The same, field by field.                                                *)
PartedLinks(nodes, m, q, sibling, p, free) ==
  /\ m \in Seq(NodeType) /\ Len(m) = Len(nodes)
  /\ \A j \in DOMAIN nodes :
       /\ j \notin {q, sibling, p} => m[j] = nodes[j]
       /\ m[j].parent = IF j = sibling THEN q ELSE IF j = p THEN free ELSE nodes[j].parent
       /\ m[j].left = IF j = p THEN None
                      ELSE IF j = q /\ nodes[q].left = p THEN sibling ELSE nodes[j].left
       /\ m[j].right = IF j = p THEN None
                       ELSE IF j = q /\ nodes[q].left # p THEN sibling ELSE nodes[j].right
       /\ m[j].height = IF j = p THEN -1 ELSE nodes[j].height
       /\ m[j].box = nodes[j].box /\ m[j].data = nodes[j].data

(* Parted makes these links.                                                *)
LEMMA PartedNodes ==
  ASSUME NEW nodes \in Seq(NodeType), NEW q \in DOMAIN nodes \union {None}, NEW sibling \in DOMAIN nodes,
         NEW p \in DOMAIN nodes, NEW free \in Nat, sibling # p, q # p, q # sibling
  PROVE  PartedLinks(nodes, Parted(nodes, q, sibling, p, free), q, sibling, p, free)
<1> DEFINE k == Relinked(nodes, q, p, sibling)
           m == Parted(nodes, q, sibling, p, free)
<1>0. q \in Nat /\ sibling \in Nat /\ p \in Nat
  BY DEF None
<1>1. /\ k \in Seq(NodeType) /\ Len(k) = Len(nodes)
      /\ \A j \in DOMAIN nodes :
                 /\ j # q => k[j] = nodes[j]
                 /\ k[j].parent = nodes[j].parent
                 /\ k[j].left = IF j = q /\ nodes[q].left = p THEN sibling ELSE nodes[j].left
                 /\ k[j].right = IF j = q /\ nodes[q].left # p THEN sibling ELSE nodes[j].right
                 /\ k[j].height = nodes[j].height /\ k[j].box = nodes[j].box
                 /\ k[j].data = nodes[j].data
  BY <1>0, RelinkedNodes
<1> HIDE DEF k
<1> DEFINE a == [k[sibling] EXCEPT !.parent = q]
           b == [k[p] EXCEPT !.parent = free, !.height = -1, !.left = None, !.right = None]
<1>2. k[sibling] \in NodeType /\ k[p] \in NodeType
  BY <1>1
<1>3. /\ a \in NodeType /\ a.parent = q /\ a.left = k[sibling].left /\ a.right = k[sibling].right
      /\ a.height = k[sibling].height /\ a.box = k[sibling].box /\ a.data = k[sibling].data
      /\ b \in NodeType /\ b.parent = free /\ b.left = None /\ b.right = None
      /\ b.height = -1 /\ b.box = k[p].box /\ b.data = k[p].data
  <2>1. /\ a \in NodeType /\ a.parent = q /\ a.left = k[sibling].left /\ a.right = k[sibling].right
        /\ a.height = k[sibling].height /\ a.box = k[sibling].box /\ a.data = k[sibling].data
    BY <1>0, <1>2 DEF NodeType
  <2>2. None \in Nat /\ free \in Nat /\ -1 \in Int
    BY DEF None
  <2>3. /\ b \in NodeType /\ b.parent = free /\ b.left = None /\ b.right = None
        /\ b.height = -1 /\ b.box = k[p].box /\ b.data = k[p].data
    BY <1>2, <2>2 DEF NodeType
  <2> QED BY <2>1, <2>3
<1>4. m = [k EXCEPT ![sibling] = a, ![p] = b]
  <2>1. m = [[k EXCEPT ![sibling].parent = q] EXCEPT
               ![p].parent = free, ![p].height = -1, ![p].left = None, ![p].right = None]
    BY DEF Parted, Freed, k
  <2> QED BY <1>1, <2>1
<1> HIDE DEF a, b, m
<1>5. /\ m \in Seq(NodeType) /\ Len(m) = Len(nodes) /\ m[sibling] = a /\ m[p] = b
      /\ \A j \in DOMAIN nodes : j \notin {sibling, p} => m[j] = k[j]
  BY <1>1, <1>3, <1>4
<1>6. \A j \in DOMAIN nodes :
       /\ j \notin {q, sibling, p} => m[j] = nodes[j]
       /\ m[j].parent = IF j = sibling THEN q ELSE IF j = p THEN free ELSE nodes[j].parent
       /\ m[j].left = IF j = p THEN None
                      ELSE IF j = q /\ nodes[q].left = p THEN sibling ELSE nodes[j].left
       /\ m[j].right = IF j = p THEN None
                       ELSE IF j = q /\ nodes[q].left # p THEN sibling ELSE nodes[j].right
       /\ m[j].height = IF j = p THEN -1 ELSE nodes[j].height
       /\ m[j].box = nodes[j].box /\ m[j].data = nodes[j].data
  <2> TAKE j \in DOMAIN nodes
  <2>1. CASE j = sibling
    BY <1>1, <1>3, <1>5, <2>1
  <2>2. CASE j = p
    BY <1>1, <1>3, <1>5, <2>2
  <2>3. CASE j \notin {sibling, p}
    BY <1>1, <1>5, <2>3
  <2> QED BY <2>1, <2>2, <2>3
<1> QED BY <1>5, <1>6 DEF m, PartedLinks

(* A leaf with its parent p, the other child sibling of p, and the parent q *)
(* of p, in a tree.                                                         *)
Partable(nodes, root, B, q, sibling, p, leaf) ==
  /\ nodes \in Seq(NodeType) /\ IsTree(nodes, root, B) /\ LeavesBare(nodes, B)
  /\ \A j \in Inner(nodes, B) : Fit(nodes, j)
  /\ leaf \in B /\ nodes[leaf].left = None /\ nodes[leaf].right = None
  /\ leaf # root /\ p = nodes[leaf].parent /\ q = nodes[p].parent
  /\ sibling = IF nodes[p].left = leaf THEN nodes[p].right ELSE nodes[p].left

(* The four nodes are different ones of the tree, and p has the two as      *)
(* children.                                                                *)
LEMMA PartableFacts ==
  ASSUME NEW nodes, NEW root, NEW B, NEW q, NEW sibling, NEW p, NEW leaf,
         Partable(nodes, root, B, q, sibling, p, leaf)
  PROVE  /\ B \subseteq DOMAIN nodes /\ None \notin B /\ p \in B /\ sibling \in B /\ q \in B \union {None}
         /\ root \in B /\ nodes[root].parent = None
         /\ leaf # p /\ leaf # sibling /\ leaf # q /\ sibling # p /\ q # p /\ q # sibling
         /\ Kids(nodes, p) = {leaf, sibling} /\ nodes[sibling].parent = p
         /\ IF q = None THEN p = root ELSE p # root /\ (nodes[q].left = p \/ nodes[q].right = p)
<1> DEFINE h(j) == nodes[j].height
<1>1. /\ nodes \in Seq(NodeType) /\ IsTree(nodes, root, B) /\ LeavesBare(nodes, B)
      /\ \A j \in Inner(nodes, B) : Fit(nodes, j)
      /\ leaf \in B /\ nodes[leaf].left = None /\ nodes[leaf].right = None
      /\ leaf # root /\ p = nodes[leaf].parent /\ q = nodes[p].parent
      /\ sibling = IF nodes[p].left = leaf THEN nodes[p].right ELSE nodes[p].left
  BY DEF Partable
<1>2. B \subseteq DOMAIN nodes /\ None \notin B /\ root \in B /\ nodes[root].parent = None
  BY <1>1, NoneOutside DEF IsTree
<1>3. p \in B /\ leaf \in Kids(nodes, p)
  BY <1>1, TreeParents
<1>4. /\ nodes[p].left \in B /\ nodes[p].right \in B /\ nodes[p].left # nodes[p].right
      /\ nodes[nodes[p].left].parent = p /\ nodes[nodes[p].right].parent = p
  BY <1>1, <1>2, <1>3 DEF IsTree, Kids
<1>5. sibling \in B /\ sibling # leaf /\ nodes[sibling].parent = p /\ Kids(nodes, p) = {leaf, sibling}
  BY <1>1, <1>3, <1>4 DEF Kids
<1>6. IF q = None THEN p = root ELSE q \in B /\ p # root /\ (nodes[q].left = p \/ nodes[q].right = p)
  <2>1. p # root => q \in B /\ p \in Kids(nodes, q)
    BY <1>1, <1>3, TreeParents
  <2> QED BY <1>1, <1>2, <2>1 DEF Kids
<1>7. \A j \in B : nodes[j].parent # None =>
           /\ nodes[j].parent \in Inner(nodes, B) /\ j # root
           /\ nodes[nodes[j].parent].height > nodes[j].height
           /\ nodes[nodes[j].parent].left = j \/ nodes[nodes[j].parent].right = j
  BY <1>1, HeightsRise
<1>8. \A j \in B : h(j) \in Nat
  BY <1>1 DEF LeavesBare
<1>9. p # None /\ h(p) > h(sibling) /\ (q # None => h(q) > h(p))
  <2>1. p # None /\ nodes[sibling].parent = p
    BY <1>2, <1>3, <1>5
  <2>2. h(p) > h(sibling)
    BY <1>5, <1>7, <2>1
  <2>3. q # None => h(q) > h(p)
    BY <1>1, <1>3, <1>7
  <2> QED BY <2>1, <2>2, <2>3
<1>10.
 sibling # p /\ q # p /\ q # sibling
  BY <1>2, <1>3, <1>5, <1>6, <1>8, <1>9
<1>11. leaf # p /\ leaf # q
  <2>1. nodes[p].left # None /\ (q # None => nodes[q].left # None)
    BY <1>1, <1>2, <1>3, <1>4, <1>6, <1>7 DEF Inner
  <2> QED BY <1>1, <1>2, <2>1
<1> QED BY <1>2, <1>3, <1>5, <1>6, <1>10, <1>11

(* The links are a tree again, without the leaf and its parent.             *)
LEMMA PartedTree ==
  ASSUME NEW nodes, NEW root, NEW B, NEW q, NEW sibling, NEW p, NEW leaf,
         Partable(nodes, root, B, q, sibling, p, leaf),
         NEW m, NEW free, PartedLinks(nodes, m, q, sibling, p, free),
         NEW first, q = None => first = sibling, q # None => first = root
  PROVE  IsTree(m, first, B \ {leaf, p})
<1> DEFINE C == B \ {leaf, p}
<1>1. /\ B \subseteq DOMAIN nodes /\ None \notin B /\ p \in B /\ sibling \in B /\ q \in B \union {None}
      /\ root \in B /\ nodes[root].parent = None
      /\ leaf # p /\ leaf # sibling /\ leaf # q /\ sibling # p /\ q # p /\ q # sibling
      /\ Kids(nodes, p) = {leaf, sibling} /\ nodes[sibling].parent = p
      /\ IF q = None THEN p = root ELSE p # root /\ (nodes[q].left = p \/ nodes[q].right = p)
  BY PartableFacts
<1>2. /\ nodes \in Seq(NodeType) /\ IsTree(nodes, root, B)
      /\ leaf \in B /\ nodes[leaf].left = None /\ nodes[leaf].right = None
      /\ leaf # root /\ p = nodes[leaf].parent /\ q = nodes[p].parent
  BY DEF Partable
<1>3. \A j \in B : \/ nodes[j].left = None /\ nodes[j].right = None
                   \/ /\ nodes[j].left \in B /\ nodes[j].right \in B /\ nodes[j].left # nodes[j].right
                      /\ nodes[nodes[j].left].parent = j /\ nodes[nodes[j].right].parent = j
  BY <1>2 DEF IsTree
<1>4. /\ m \in Seq(NodeType) /\ Len(m) = Len(nodes) /\ DOMAIN m = DOMAIN nodes
      /\ \A j \in B : /\ m[j].parent = IF j = sibling THEN q ELSE IF j = p THEN free ELSE nodes[j].parent
                      /\ m[j].left = IF j = p THEN None
                                     ELSE IF j = q /\ nodes[q].left = p THEN sibling ELSE nodes[j].left
                      /\ m[j].right = IF j = p THEN None
                                      ELSE IF j = q /\ nodes[q].left # p THEN sibling ELSE nodes[j].right
  <2>1. /\ m \in Seq(NodeType) /\ Len(m) = Len(nodes)
        /\ \A j \in DOMAIN nodes :
             /\ m[j].parent = IF j = sibling THEN q ELSE IF j = p THEN free ELSE nodes[j].parent
             /\ m[j].left = IF j = p THEN None
                            ELSE IF j = q /\ nodes[q].left = p THEN sibling ELSE nodes[j].left
             /\ m[j].right = IF j = p THEN None
                             ELSE IF j = q /\ nodes[q].left # p THEN sibling ELSE nodes[j].right
             /\ m[j].height = IF j = p THEN -1 ELSE nodes[j].height
             /\ m[j].box = nodes[j].box
    BY DEF PartedLinks
  <2>2. DOMAIN m = DOMAIN nodes
    BY <1>2, <2>1
  <2>3. \A j \in B : j \in DOMAIN nodes
    BY <1>1
  <2> QED BY <2>1, <2>2, <2>3
<1>5. C \subseteq DOMAIN m /\ first \in C /\ first # None /\ m[first].parent = None
  <2>1. CASE q = None
    BY <1>1, <1>2, <1>4, <2>1
  <2>2. CASE q # None
    <3>1. root # sibling /\ root # p /\ root # leaf
      BY <1>1, <1>2, <2>2
    <3> QED BY <1>1, <1>4, <2>2, <3>1
  <2> QED BY <2>1, <2>2
<1>6. ASSUME NEW c \in B, nodes[c].parent # p, c # p
      PROVE  c \in C /\ m[c].parent = nodes[c].parent /\ c # sibling
  BY <1>1, <1>2, <1>4, <1>6
<1>7. ASSUME NEW j \in C
      PROVE  \/ m[j].left = None /\ m[j].right = None
             \/ /\ m[j].left \in C /\ m[j].right \in C /\ m[j].left # m[j].right
                /\ m[m[j].left].parent = j /\ m[m[j].right].parent = j
  <2>0. m[sibling].parent = q /\ sibling \in C
    BY <1>1, <1>4
  <2>1. CASE j # q
    <3>1. m[j].left = nodes[j].left /\ m[j].right = nodes[j].right
      BY <1>4, <2>1
    <3>2. ASSUME NEW c \in B, nodes[c].parent = j PROVE c \in C /\ m[c].parent = j
      <4>1. c # p
        BY <1>2, <2>1, <3>2
      <4> QED BY <1>6, <3>2, <4>1
    <3>3. CASE nodes[j].left \in B
      <4>1. /\ nodes[j].right \in B /\ nodes[j].left # nodes[j].right
            /\ nodes[nodes[j].left].parent = j /\ nodes[nodes[j].right].parent = j
        BY <1>1, <1>3, <3>3
      <4> QED BY <3>1, <3>2, <3>3, <4>1
    <3> QED BY <1>3, <3>1, <3>3
  <2>2. CASE j = q /\ nodes[q].left = p
    <3>1. m[j].left = sibling /\ m[j].right = nodes[q].right
      BY <1>4, <2>2
    <3>2. nodes[q].right \in B /\ nodes[q].right # p /\ nodes[nodes[q].right].parent = q
      BY <1>1, <1>3, <2>2
    <3>3. nodes[q].right \in C /\ m[nodes[q].right].parent = q /\ nodes[q].right # sibling
      BY <1>1, <1>6, <3>2
    <3> QED BY <2>0, <2>2, <3>1, <3>3
  <2>3. CASE j = q /\ nodes[q].left # p
    <3>0. nodes[q].right = p
      BY <1>1, <2>3
    <3>1. m[j].right = sibling /\ m[j].left = nodes[q].left
      BY <1>4, <2>3
    <3>2. nodes[q].left \in B /\ nodes[nodes[q].left].parent = q
      BY <1>1, <1>3, <2>3, <3>0
    <3>3. nodes[q].left \in C /\ m[nodes[q].left].parent = q /\ nodes[q].left # sibling
      BY <1>1, <1>6, <2>3, <3>2
    <3> QED BY <2>0, <2>3, <3>1, <3>3
  <2> QED BY <2>1, <2>2, <2>3
<1>8. ASSUME NEW X \in SUBSET C, first \in X, \A j \in X : Kids(m, j) \ {None} \subseteq X
      PROVE  X = C
  <2> DEFINE Y == X \union {leaf} \union {j \in {p} : sibling \in X}
  <2>1. Y \in SUBSET B /\ root \in Y
    BY <1>1, <1>2, <1>8
  <2>2. ASSUME NEW j \in Y, NEW c \in Kids(nodes, j), c # None PROVE c \in Y
    <3>1. CASE j = leaf
      BY <1>2, <2>2, <3>1 DEF Kids
    <3>2. CASE j = p
      BY <1>1, <2>2, <3>2
    <3>3. CASE j \in X /\ j # q
      <4>1. c \in Kids(m, j)
        BY <1>4, <2>2, <3>3 DEF Kids
      <4> QED BY <1>8, <2>2, <3>3, <4>1
    <3>4. CASE j \in X /\ j = q
      <4>1. sibling \in Kids(m, q)
        BY <1>1, <1>4, <3>4 DEF Kids
      <4>2. sibling \in X
        BY <1>1, <1>8, <3>4, <4>1
      <4>3. c # p => c \in Kids(m, q)
        BY <1>1, <1>4, <2>2, <3>4 DEF Kids
      <4> QED BY <1>8, <2>2, <3>4, <4>2, <4>3
    <3> QED BY <2>2, <3>1, <3>2, <3>3, <3>4
  <2>3. \A j \in Y : Kids(nodes, j) \ {None} \subseteq Y
    BY <2>2
  <2>4. Y = B
    <3> HIDE DEF Y
    <3> QED BY <1>2, <2>1, <2>3 DEF IsTree
  <2> QED BY <2>4
<1> HIDE DEF C
<1>9. IsTree(m, first, C)
  BY <1>5, <1>7, <1>8 DEF IsTree
<1> QED BY <1>9 DEF C

(* The nodes m that taking the leaf out of a tree leaves, before they are   *)
(* refitted.                                                                *)
PartedFrom(nodes, root, B, q, sibling, p, leaf, m, free, first) ==
  /\ Partable(nodes, root, B, q, sibling, p, leaf)
  /\ PartedLinks(nodes, m, q, sibling, p, free)
  /\ IsTree(m, first, B \ {leaf, p})

(* What the way up from q has to set again is q.                            *)
LEMMA PartedRefittable ==
  ASSUME NEW nodes, NEW root, NEW B, NEW q, NEW sibling, NEW p, NEW leaf, NEW m, NEW free, NEW first,
         PartedFrom(nodes, root, B, q, sibling, p, leaf, m, free, first)
  PROVE  /\ Climbable(m, first, B \ {leaf, p}, q, {q})
         /\ \A j \in B \ {leaf, p} : m[j].left = None <=> nodes[j].left = None
<1> DEFINE C == B \ {leaf, p}
           r == [j \in C |-> nodes[j].height]
<1>0. /\ Partable(nodes, root, B, q, sibling, p, leaf)
      /\ PartedLinks(nodes, m, q, sibling, p, free)
      /\ IsTree(m, first, C)
  BY DEF PartedFrom
<1>1. /\ B \subseteq DOMAIN nodes /\ None \notin B /\ p \in B /\ sibling \in B /\ q \in B \union {None}
      /\ leaf # p /\ leaf # sibling /\ leaf # q /\ sibling # p /\ q # p /\ q # sibling
      /\ Kids(nodes, p) = {leaf, sibling} /\ nodes[sibling].parent = p
      /\ IF q = None THEN p = root ELSE p # root /\ (nodes[q].left = p \/ nodes[q].right = p)
  BY <1>0, PartableFacts
<1>2. /\ nodes \in Seq(NodeType) /\ IsTree(nodes, root, B) /\ LeavesBare(nodes, B)
      /\ \A j \in Inner(nodes, B) : Fit(nodes, j)
      /\ leaf \in B /\ p = nodes[leaf].parent /\ q = nodes[p].parent
      /\ nodes[leaf].left = None
  BY <1>0 DEF Partable
<1>3. \A j \in B : \/ nodes[j].left = None /\ nodes[j].right = None
                   \/ /\ nodes[j].left \in B /\ nodes[j].right \in B /\ nodes[j].left # nodes[j].right
                      /\ nodes[nodes[j].left].parent = j /\ nodes[nodes[j].right].parent = j
  BY <1>2 DEF IsTree
<1>4. /\ m \in Seq(NodeType) /\ Len(m) = Len(nodes) /\ DOMAIN m = DOMAIN nodes
      /\ \A j \in B : /\ m[j].parent = IF j = sibling THEN q ELSE IF j = p THEN free ELSE nodes[j].parent
                      /\ m[j].left = IF j = p THEN None
                                     ELSE IF j = q /\ nodes[q].left = p THEN sibling ELSE nodes[j].left
                      /\ m[j].right = IF j = p THEN None
                                      ELSE IF j = q /\ nodes[q].left # p THEN sibling ELSE nodes[j].right
                      /\ m[j].height = IF j = p THEN -1 ELSE nodes[j].height
                      /\ m[j].box = nodes[j].box
  <2>1. /\ m \in Seq(NodeType) /\ Len(m) = Len(nodes)
        /\ \A j \in DOMAIN nodes :
             /\ m[j].parent = IF j = sibling THEN q ELSE IF j = p THEN free ELSE nodes[j].parent
             /\ m[j].left = IF j = p THEN None
                            ELSE IF j = q /\ nodes[q].left = p THEN sibling ELSE nodes[j].left
             /\ m[j].right = IF j = p THEN None
                             ELSE IF j = q /\ nodes[q].left # p THEN sibling ELSE nodes[j].right
             /\ m[j].height = IF j = p THEN -1 ELSE nodes[j].height
             /\ m[j].box = nodes[j].box
    BY <1>0 DEF PartedLinks
  <2>2. DOMAIN m = DOMAIN nodes
    BY <1>2, <2>1
  <2>3. \A j \in B : j \in DOMAIN nodes
    BY <1>1
  <2> QED BY <2>1, <2>2, <2>3
<1>5. \A j \in B : /\ nodes[j].height \in Nat /\ (nodes[j].height = 0 <=> nodes[j].left = None)
                   /\ nodes[j].parent # None =>
                        /\ nodes[j].parent \in B /\ nodes[j].parent # leaf
                        /\ nodes[nodes[j].parent].height > nodes[j].height
  <2>1. \A j \in B : nodes[j].parent # None =>
           /\ nodes[j].parent \in Inner(nodes, B) /\ j # root
           /\ nodes[nodes[j].parent].height > nodes[j].height
           /\ nodes[nodes[j].parent].left = j \/ nodes[nodes[j].parent].right = j
    BY <1>2, HeightsRise
  <2> QED BY <1>2, <2>1 DEF Inner, LeavesBare, IsLeaf
<1>6. \A j \in C : m[j].left = None <=> nodes[j].left = None
  <2> SUFFICES ASSUME NEW j \in C PROVE m[j].left = None <=> nodes[j].left = None
    OBVIOUS
  <2>1. j = q => nodes[q].left # None
    BY <1>1, <1>3
  <2> QED BY <1>1, <1>4, <2>1
<1>7. \A j \in C : m[j].height = nodes[j].height
  BY <1>4
<1>8. ASSUME NEW j \in Inner(m, C), j # q PROVE Fit(m, j)
  <2>1. j \in B /\ j # p /\ j # leaf /\ m[j].left = nodes[j].left /\ m[j].right = nodes[j].right
    BY <1>4, <1>8 DEF Inner
  <2>2. /\ nodes[j].left \in B /\ nodes[j].right \in B
        /\ nodes[nodes[j].left].parent = j /\ nodes[nodes[j].right].parent = j
        /\ j \in Inner(nodes, B)
    BY <1>3, <1>8, <2>1 DEF Inner
  <2>3. nodes[j].left # p /\ nodes[j].right # p
    BY <1>2, <1>8, <2>2
  <2>4. /\ m[j].box = nodes[j].box /\ m[j].height = nodes[j].height
        /\ m[nodes[j].left].box = nodes[nodes[j].left].box
        /\ m[nodes[j].right].box = nodes[nodes[j].right].box
        /\ m[nodes[j].left].height = nodes[nodes[j].left].height
        /\ m[nodes[j].right].height = nodes[nodes[j].right].height
    BY <1>4, <2>1, <2>2, <2>3
  <2>5. Fit(nodes, j)
    BY <1>2, <2>2
  <2> QED BY <2>1, <2>4, <2>5 DEF Fit
<1>9. r \in [C -> Int] /\ \A j \in C : m[j].height \in Nat
  BY <1>5, <1>7
<1>10. ASSUME NEW j \in C, m[j].parent # None PROVE r[m[j].parent] > r[j]
  <2>1. CASE j = sibling
    <3>1. m[j].parent = q
      BY <1>4, <2>1
    <3>2. q \in C /\ p # None
      BY <1>1, <1>10, <3>1
    <3>3. nodes[q].height > nodes[p].height /\ nodes[p].height > nodes[sibling].height
      BY <1>1, <1>2, <1>5, <3>2
    <3>4. nodes[q].height \in Nat /\ nodes[p].height \in Nat /\ nodes[sibling].height \in Nat
      BY <1>1, <1>5, <3>2
    <3> DEFINE a == nodes[q].height
               b == nodes[p].height
               c == nodes[sibling].height
    <3>5. r[m[j].parent] = a /\ r[j] = c /\ a > b /\ b > c /\ a \in Nat /\ b \in Nat /\ c \in Nat
      BY <2>1, <3>1, <3>2, <3>3, <3>4
    <3> HIDE DEF a, b, c, r
    <3> QED BY <3>5
  <2>2. CASE j # sibling
    <3>1. m[j].parent = nodes[j].parent
      BY <1>4, <2>2
    <3>2. /\ nodes[j].parent \in B /\ nodes[j].parent # leaf
          /\ nodes[nodes[j].parent].height > nodes[j].height
      BY <1>5, <1>10, <3>1
    <3>3. nodes[j].parent # p
      <4>1. j # root \/ nodes[j].parent = None
        BY <1>2 DEF IsTree
      <4>2. j \in Kids(nodes, nodes[j].parent)
        BY <1>1, <1>2, <3>2, <4>1, TreeParents
      <4> QED BY <1>1, <2>2, <4>2
    <3> QED BY <1>10, <3>1, <3>2, <3>3
  <2> QED BY <2>1, <2>2
<1>11. q \in Inner(m, C) \union {None}
  BY <1>1, <1>3, <1>6 DEF Inner
<1> HIDE DEF r
<1>12. Refittable(m, first, C, q, r)
  <2> HIDE DEF C
  <2> QED BY <1>0, <1>4, <1>9, <1>10, <1>11 DEF Refittable
<1>13. Climbable(m, first, C, q, {q})
  <2> HIDE DEF C
  <2>1. \A j \in C : m[j].left = None => m[j].height = 0
    BY <1>5, <1>6, <1>7 DEF C
  <2> QED BY <1>8, <1>12, <2>1 DEF Climbable
<1> QED BY <1>6, <1>13

(* The last leaf.                                                           *)
LEMMA RemoveLast ==
  ASSUME NEW t, Shape(t), NEW leaf \in Leaves(t), leaf = t.root
  PROVE  LET s == RemoveLeaf(t, leaf)
         IN /\ Shape(s) /\ s.nodes = t.nodes
            /\ Leaves(s) = Leaves(t) \ {leaf} /\ Apart(s, leaf)
<1> DEFINE s == RemoveLeaf(t, leaf)
           B == Inside(t)
<1>1. /\ t \in TreeType /\ t.nodes \in Seq(NodeType) /\ None \notin DOMAIN t.nodes /\ B \subseteq DOMAIN t.nodes
      /\ leaf \in B /\ t.nodes[leaf].height = 0
      /\ t.nodes[leaf].left = None /\ t.nodes[leaf].right = None
      /\ Leaves(t) \subseteq B
  BY ShapeFacts
<1>2. B = {leaf}
  <2> HIDE DEF B
  <2>1. IsTree(t.nodes, t.root, B)
    BY DEF Shape, InShape, B
  <2>2. {leaf} \in SUBSET B /\ t.root \in {leaf}
    BY <1>1
  <2>3. \A j \in {leaf} : Kids(t.nodes, j) \ {None} \subseteq {leaf}
    BY <1>1 DEF Kids
  <2>4. \A X \in SUBSET B : t.root \in X /\ (\A j \in X : Kids(t.nodes, j) \ {None} \subseteq X) => X = B
    BY <2>1 DEF IsTree
  <2> QED BY <2>2, <2>3, <2>4
<1>3. leaf # None
  BY <1>1
<1>4. s = [t EXCEPT !.root = None]
  BY <1>3 DEF RemoveLeaf
<1> HIDE DEF s
<1>5. s \in TreeType /\ s.nodes = t.nodes /\ s.root = None /\ s.free = t.free
  BY <1>1, <1>4 DEF TreeType, None
<1>6. InShape(s, {})
  <2>1. FreeList(t.nodes, t.free)
    BY DEF Shape, InShape
  <2>2. IsTree(s.nodes, None, {})
    BY DEF IsTree
  <2>3. LeavesBare(s.nodes, {}) /\ Inner(s.nodes, {}) = {}
    BY DEF LeavesBare, Inner
  <2> QED BY <1>5, <2>1, <2>2, <2>3 DEF InShape
<1>7. Shape(s) /\ Inside(s) = {}
  BY <1>6, ShapeOf
<1>8. Leaves(s) = {}
  BY <1>7 DEF Leaves
<1>9. Leaves(t) \ {leaf} = {}
  <2> HIDE DEF B
  <2> QED BY <1>1, <1>2
<1>10. Apart(s, leaf)
  BY <1>1, <1>5, <1>7 DEF Apart
<1> QED BY <1>5, <1>7, <1>8, <1>9, <1>10 DEF s

(* free_node, field by field.                                              *)
LEMMA FreeNodeIs ==
  ASSUME NEW a \in Seq(NodeType), NEW r \in Nat, NEW f \in Nat, NEW i \in DOMAIN a
  PROVE  FreeNode([nodes |-> a, root |-> r, free |-> f], i)
           = [nodes |-> Freed(a, i, f), root |-> r, free |-> i]
<1> DEFINE s == FreeNode([nodes |-> a, root |-> r, free |-> f], i)
           b == [[[[a[i] EXCEPT !.parent = f] EXCEPT !.height = -1] EXCEPT !.left = None] EXCEPT !.right = None]
           c == [a EXCEPT ![i] = b]
<1>1. s.nodes = c /\ s.root = r /\ s.free = i /\ DOMAIN s = {"nodes", "root", "free"}
  BY DEF FreeNode
<1>2. c = Freed(a, i, f)
  BY DEF Freed
<1> HIDE DEF c, b
<1>3. s = [x \in DOMAIN s |-> s[x]]
  BY DEF FreeNode
<1> HIDE DEF s
<1>4. s = [nodes |-> c, root |-> r, free |-> i]
  BY <1>1, <1>3
<1> QED BY <1>2, <1>4 DEF s

(* One of several.                                                          *)
LEMMA RemoveOne ==
  ASSUME NEW t, Shape(t), NEW leaf \in Leaves(t), leaf # t.root
  PROVE  LET s == RemoveLeaf(t, leaf)
         IN /\ Shape(s) /\ DOMAIN s.nodes = DOMAIN t.nodes
            /\ Leaves(s) = Leaves(t) \ {leaf} /\ Apart(s, leaf)
            /\ SameEntries(t, s, Leaves(t))
<1> DEFINE B == Inside(t)
           nodes == t.nodes
           p == nodes[leaf].parent
           sibling == IF nodes[p].left = leaf THEN nodes[p].right ELSE nodes[p].left
           q == nodes[p].parent
           m == Parted(nodes, q, sibling, p, t.free)
           first == IF q = None THEN sibling ELSE t.root
           C == B \ {leaf, p}
           f == Refit(m, q)
           s == RemoveLeaf(t, leaf)
<1>1. /\ t \in TreeType /\ nodes \in Seq(NodeType) /\ B \subseteq DOMAIN nodes /\ None \notin DOMAIN nodes
      /\ t.free \in Nat /\ t.root \in Nat
      /\ leaf \in B /\ nodes[leaf].left = None /\ nodes[leaf].right = None /\ nodes[leaf].height = 0
      /\ B \intersect FreeSet(nodes) = {}
      /\ Leaves(t) = {j \in B : nodes[j].left = None}
  BY ShapeFacts
<1>2. /\ IsTree(nodes, t.root, B) /\ LeavesBare(nodes, B) /\ FreeList(nodes, t.free)
      /\ \A j \in Inner(nodes, B) : Fit(nodes, j)
  BY DEF Shape, InShape
<1> HIDE DEF B
<1>3. Partable(nodes, t.root, B, q, sibling, p, leaf)
  BY <1>1, <1>2 DEF Partable
<1> HIDE DEF nodes, p, sibling, q
<1>4. /\ B \subseteq DOMAIN nodes /\ None \notin B /\ p \in B /\ sibling \in B /\ q \in B \union {None}
      /\ leaf # p /\ leaf # sibling /\ leaf # q /\ sibling # p /\ q # p /\ q # sibling
  BY <1>3, PartableFacts
<1>5. PartedLinks(nodes, m, q, sibling, p, t.free)
  <2>1. q \in DOMAIN nodes \union {None} /\ sibling \in DOMAIN nodes /\ p \in DOMAIN nodes
    BY <1>4
  <2> QED BY <1>1, <1>4, <2>1, PartedNodes
<1> HIDE DEF m
<1>6. IsTree(m, first, C)
  <2>1. (q = None => first = sibling) /\ (q # None => first = t.root)
    OBVIOUS
  <2> HIDE DEF first
  <2> QED BY <1>3, <1>5, <2>1, PartedTree
<1>7. first \in Nat /\ first # None
  <2>1. first \in B
    BY <1>4, <1>6, <1>2 DEF IsTree
  <2> QED BY <1>1, <1>4, <2>1
<1> HIDE DEF first
<1>8. /\ Climbable(m, first, C, q, {q})
      /\ \A j \in C : m[j].left = None <=> nodes[j].left = None
  <2>1. PartedFrom(nodes, t.root, B, q, sibling, p, leaf, m, t.free, first)
    BY <1>3, <1>5, <1>6 DEF PartedFrom
  <2> QED BY <2>1, PartedRefittable
<1>9. PICK r : Refittable(m, first, C, q, r)
  BY <1>8 DEF Climbable
<1>10. /\ m \in Seq(NodeType) /\ Len(m) = Len(nodes) /\ DOMAIN m = DOMAIN nodes
       /\ \A j \in DOMAIN nodes : /\ j \notin {q, sibling, p} => m[j] = nodes[j]
                                  /\ m[j].height = IF j = p THEN -1 ELSE nodes[j].height
                                  /\ m[j].box = nodes[j].box /\ m[j].data = nodes[j].data
       /\ m[p].parent = t.free /\ m[p].left = None /\ m[p].right = None
  <2>1. m \in Seq(NodeType) /\ Len(m) = Len(nodes)
    BY <1>5 DEF PartedLinks
  <2>2. DOMAIN m = DOMAIN nodes
    BY <1>1, <2>1
  <2>3. p \in DOMAIN nodes /\ p # sibling
    BY <1>4
  <2> QED BY <1>5, <2>1, <2>2, <2>3 DEF PartedLinks
<1>11. FreeList(m, p)
  <2>1. p \notin FreeSet(nodes) /\ p # None /\ q \notin FreeSet(nodes) /\ sibling \notin FreeSet(nodes)
    <3>1. None \notin FreeSet(nodes)
      BY <1>1 DEF FreeSet
    <3> QED BY <1>1, <1>4, <3>1
  <2>2. FreeSet(m) = FreeSet(nodes) \union {p}
    <3>1. p \in DOMAIN nodes
      BY <1>4
    <3> QED BY <1>10, <3>1 DEF FreeSet
  <2>3. \A j \in FreeSet(nodes) : m[j] = nodes[j] /\ nodes[j].left = None /\ nodes[j].right = None
    BY <1>2, <1>10, <2>1 DEF FreeSet, FreeList
  <2>4. \A j \in FreeSet(nodes) : m[j].parent = nodes[j].parent /\ m[j].left = None /\ m[j].right = None
    BY <2>3
  <2>5. m[p].parent = t.free /\ m[p].left = None /\ m[p].right = None
    BY <1>10
  <2>6. nodes \in Seq(NodeType) /\ FreeList(nodes, t.free) /\ p \notin FreeSet(nodes) /\ p # None
    BY <1>1, <1>2, <2>1
  <2> QED BY ONLY <2>2, <2>4, <2>5, <2>6, FreePush

<1>12. \A j \in Inner(m, C) : Fit(m, j) \/ \E k \in 0..Len(m) : Up(m, q)[k] = j
  <2>1. Up(m, q)[0] = q
    BY <1>9, UpRefittable
  <2>2. 0 \in 0..Len(m)
    BY <1>1, <1>10
  <2> HIDE DEF C
  <2> QED BY <1>8, <2>1, <2>2 DEF Climbable
<1>13. s = [nodes |-> f, root |-> first, free |-> p]
  <2> DEFINE parent == t.nodes[leaf].parent
             other == IF t.nodes[parent].left = leaf THEN t.nodes[parent].right ELSE t.nodes[parent].left
             over == t.nodes[parent].parent
             apart == [Relinked(t.nodes, over, parent, other) EXCEPT ![other].parent = over]
             freed == FreeNode([t EXCEPT !.nodes = apart], parent)
  <2>1. parent = p /\ other = sibling /\ over = q
    BY DEF nodes, p, sibling, q
  <2>2. leaf # None
    BY <1>1, <1>4
  <2>3. s = [freed EXCEPT !.nodes = Refit(@, over), !.root = IF over = None THEN other ELSE @]
    BY <2>2 DEF RemoveLeaf
  <2> HIDE DEF parent, other, over, apart, s
  <2>4. freed = [nodes |-> Freed(apart, parent, t.free), root |-> t.root, free |-> parent]
    <3>1. [t EXCEPT !.nodes = apart] = [nodes |-> apart, root |-> t.root, free |-> t.free]
      BY <1>1 DEF TreeType
    <3>2. apart \in Seq(NodeType) /\ parent \in DOMAIN apart
      <4> DEFINE k == Relinked(t.nodes, q, p, sibling)
                 e == [k[sibling] EXCEPT !.parent = q]
      <4>1. /\ q \in DOMAIN nodes \union {None} /\ sibling \in DOMAIN nodes /\ p \in DOMAIN nodes
            /\ q \in Nat /\ sibling \in Nat
        BY <1>1, <1>4 DEF None
      <4>2. k \in Seq(NodeType) /\ Len(k) = Len(nodes)
        BY <1>1, <4>1, RelinkedNodes DEF nodes
      <4> HIDE DEF k
      <4>3. e \in NodeType
        <5>1. k[sibling] \in NodeType
          BY <1>1, <4>1, <4>2
        <5> QED BY <4>1, <5>1 DEF NodeType
      <4>4. apart = [k EXCEPT ![sibling] = e]
        BY <2>1 DEF apart, k
      <4> HIDE DEF e
      <4> QED BY <1>1, <2>1, <4>1, <4>2, <4>3, <4>4
    <3>3. t.root \in Nat /\ t.free \in Nat
      BY <1>1
    <3>4. FreeNode([nodes |-> apart, root |-> t.root, free |-> t.free], parent)
            = [nodes |-> Freed(apart, parent, t.free), root |-> t.root, free |-> parent]
      BY <3>2, <3>3, FreeNodeIs
    <3> QED BY <3>1, <3>4
  <2>5. Freed(apart, parent, t.free) = m
    BY <2>1 DEF m, Parted, apart, nodes
  <2> HIDE DEF freed
  <2>6. freed = [nodes |-> m, root |-> t.root, free |-> p]
    BY <2>1, <2>4, <2>5
  <2> QED BY <2>1, <2>3, <2>6 DEF first
<1> HIDE DEF s
<1>14. InShape(s, C) /\ f \in Refits(m, C)
  <2> HIDE DEF C, f
  <2>1. p \in Nat
    BY <1>1, <1>4
  <2>2. /\ InShape([nodes |-> Refit(m, q), root |-> first, free |-> p], C)
        /\ Refit(m, q) \in Refits(m, C)
    BY <1>7, <1>8, <1>9, <1>11, <1>12, <2>1, RefitShape DEF Climbable
  <2> QED BY <1>13, <2>2 DEF f
<1> HIDE DEF f
<1>15. Shape(s) /\ Inside(s) = C
  BY <1>14, ShapeOf
<1>16. DOMAIN f = DOMAIN nodes /\ SameLinks(m, f) /\ \A j \in DOMAIN m : j \notin Inner(m, C) => f[j] = m[j]
  <2>1. /\ f \in Seq(NodeType) /\ SameLinks(m, f)
        /\ \A j \in DOMAIN m : j \notin Inner(m, C) => f[j] = m[j]
    BY <1>14 DEF Refits
  <2>2. Len(f) = Len(m)
    BY <2>1 DEF SameLinks
  <2> HIDE DEF C
  <2> QED BY <1>10, <2>1, <2>2
<1>17. s.nodes = f
  BY <1>13
<1>18. Leaves(s) = Leaves(t) \ {leaf}
  <2>1. Leaves(s) = {j \in C : f[j].left = None}
    BY <1>15, <1>17, ShapeFacts
  <2>2. C \subseteq DOMAIN m
    BY <1>6 DEF IsTree
  <2>3. \A j \in C : f[j].left = m[j].left
    BY <1>16, <2>2 DEF SameLinks
  <2>4. \A j \in C : f[j].left = None <=> nodes[j].left = None
    BY <1>8, <2>3
  <2>5. nodes[p].left # None
    <3>1. leaf \in Kids(nodes, p) /\ None \notin B
      BY <1>3, <1>4, PartableFacts
    <3>2. p \in B /\ IsTree(nodes, t.root, B)
      BY <1>2, <1>4
    <3>3. \/ nodes[p].left = None /\ nodes[p].right = None
          \/ nodes[p].left \in B
      BY <3>2 DEF IsTree
    <3> QED BY <1>1, <3>1, <3>3 DEF Kids
  <2> QED BY <1>1, <2>1, <2>4, <2>5
<1>19. f[leaf] = nodes[leaf] /\ leaf \in DOMAIN nodes
  <2>1. leaf \in DOMAIN nodes /\ m[leaf] = nodes[leaf]
    BY <1>1, <1>4, <1>10
  <2>2. leaf \notin Inner(m, C)
    BY DEF Inner
  <2> QED BY <1>10, <1>16, <2>1, <2>2
<1>20. Apart(s, leaf)
  BY <1>1, <1>15, <1>16, <1>17, <1>19 DEF Apart
<1>21. ASSUME NEW j \in Leaves(t)
       PROVE  s.nodes[j].box = t.nodes[j].box /\ s.nodes[j].data = t.nodes[j].data
  <2>1. CASE j = leaf
    BY <1>17, <1>19, <2>1 DEF nodes
  <2>2. CASE j # leaf
    <3>1. j \in C /\ f[j] = m[j] /\ j \in DOMAIN nodes
      <4>1. j \in Leaves(s) /\ j \in DOMAIN nodes
        BY <1>1, <1>18, <2>2
      <4>2. j \in C /\ f[j].left = None
        BY <1>15, <1>17, <4>1, ShapeFacts
      <4>3. m[j].left = None
        BY <1>10, <1>16, <4>1, <4>2 DEF SameLinks
      <4> QED BY <1>10, <1>16, <4>1, <4>2, <4>3 DEF Inner
    <3> QED BY <1>10, <1>17, <3>1 DEF nodes
  <2> QED BY <2>1, <2>2
<1> QED BY <1>15, <1>16, <1>17, <1>18, <1>20, <1>21 DEF s, nodes, SameEntries

(* remove_leaf: the tree has lost that one leaf, which is apart from it     *)
(* now, and the boxes and data of all leaves are as they were.              *)
LEMMA RemoveFacts ==
  ASSUME NEW t, Shape(t), NEW leaf \in Leaves(t)
  PROVE  /\ Shape(RemoveLeaf(t, leaf)) /\ DOMAIN RemoveLeaf(t, leaf).nodes = DOMAIN t.nodes
         /\ Leaves(RemoveLeaf(t, leaf)) = Leaves(t) \ {leaf}
         /\ Apart(RemoveLeaf(t, leaf), leaf)
         /\ SameEntries(t, RemoveLeaf(t, leaf), Leaves(t))
<1>1. CASE leaf = t.root
  BY <1>1, RemoveLast DEF SameEntries
<1>2. CASE leaf # t.root
  BY <1>2, RemoveOne
<1> QED BY <1>1, <1>2

-----------------------------------------------------------------------------
(* The operations of the tree.                                              *)

(* A leaf that is apart can be given anything.                              *)
Marked(t, i, e) == [t EXCEPT !.nodes = [t.nodes EXCEPT ![i] = e]]

(* The tree does not see it.                                                *)
LEMMA ApartMarked ==
  ASSUME NEW t, Shape(t), NEW i, Apart(t, i),
         NEW e \in NodeType, e.height = 0, e.left = None, e.right = None
  PROVE  /\ Shape(Marked(t, i, e)) /\ Apart(Marked(t, i, e), i) /\ Leaves(Marked(t, i, e)) = Leaves(t)
         /\ DOMAIN Marked(t, i, e).nodes = DOMAIN t.nodes /\ Marked(t, i, e).nodes[i] = e
         /\ \A j \in DOMAIN t.nodes : j # i => Marked(t, i, e).nodes[j] = t.nodes[j]
<1> DEFINE nodes == t.nodes
           m == [nodes EXCEPT ![i] = e]
           s == Marked(t, i, e)
<1>1. /\ t \in TreeType /\ nodes \in Seq(NodeType) /\ Inside(t) \subseteq DOMAIN nodes
      /\ t.root \in Nat /\ t.free \in Nat
      /\ i \in DOMAIN nodes /\ i \notin Inside(t) /\ nodes[i].height = 0
  BY ShapeFacts DEF Apart
<1>2. /\ m \in Seq(NodeType) /\ DOMAIN m = DOMAIN nodes /\ m[i] = e
      /\ \A j \in DOMAIN nodes : j # i => m[j] = nodes[j]
  BY <1>1
<1>3. s = [nodes |-> m, root |-> t.root, free |-> t.free]
  <2> HIDE DEF m
  <2>1. s = [t EXCEPT !.nodes = m]
    BY DEF m, Marked
  <2> HIDE DEF s
  <2> QED BY <1>1, <2>1 DEF TreeType
<1> HIDE DEF m, s
<1>4. s \in TreeType /\ s.nodes = m /\ s.root = t.root /\ s.free = t.free
  BY <1>1, <1>2, <1>3 DEF TreeType
<1>5. FreeList(m, t.free)
  <2>1. FreeList(nodes, t.free)
    BY DEF Shape, InShape
  <2>2. FreeSet(m) = FreeSet(nodes) /\ i \notin FreeSet(nodes)
    <3>1. nodes[i].height # -1 /\ m[i].height # -1
      BY <1>1, <1>2
    <3> QED BY <1>1, <1>2, <3>1 DEF FreeSet
  <2>3. \A j \in FreeSet(nodes) : m[j] = nodes[j] /\ nodes[j].left = None /\ nodes[j].right = None
    BY <1>2, <2>1, <2>2 DEF FreeSet, FreeList
  <2>4. \A j \in FreeSet(nodes) : m[j].parent = nodes[j].parent /\ m[j].left = None /\ m[j].right = None
    BY <2>3
  <2> HIDE DEF nodes
  <2> QED BY <1>1, <2>1, <2>2, <2>4, FreeKeep
<1>6. \A j \in Inside(t) : s.nodes[j] = t.nodes[j]
  BY <1>1, <1>2, <1>4
<1>7. Inside(t) \subseteq DOMAIN s.nodes /\ FreeList(s.nodes, s.free)
  BY <1>1, <1>2, <1>4, <1>5
<1>8. Shape(s) /\ Inside(s) = Inside(t)
  BY <1>4, <1>6, <1>7, ShapeKeeps
<1>9. Leaves(s) = Leaves(t)
  BY <1>6, <1>8 DEF Leaves
<1>10. Apart(s, i)
  BY <1>1, <1>2, <1>4, <1>8 DEF Apart
<1> QED BY <1>2, <1>4, <1>8, <1>9, <1>10 DEF s

(* add_new_leaf: one new leaf, with the box and the data given; the others  *)
(* keep theirs.                                                             *)
LEMMA AddLeafFacts ==
  ASSUME NEW t, Shape(t), NEW box \in BoxType, NEW data \in Nat
  PROVE  /\ Shape(AddLeaf(t, box, data))
         /\ Allocated(t) \notin Leaves(t) /\ Allocated(t) # None
         /\ Leaves(AddLeaf(t, box, data)) = Leaves(t) \union {Allocated(t)}
         /\ SameEntries(t, AddLeaf(t, box, data), Leaves(t))
         /\ AddLeaf(t, box, data).nodes[Allocated(t)].box = box
         /\ AddLeaf(t, box, data).nodes[Allocated(t)].data = data
<1> DEFINE i == Allocated(t)
           g == Allocate(t)
           e == [g.nodes[i] EXCEPT !.box = box, !.data = data]
           u == Marked(g, i, e)
           s == AddLeaf(t, box, data)
<1>1. /\ Shape(g) /\ Inside(g) = Inside(t)
      /\ Apart(g, i) /\ i \notin Inside(t)
      /\ DOMAIN t.nodes \subseteq DOMAIN g.nodes
      /\ \A j \in DOMAIN t.nodes : j # i => g.nodes[j] = t.nodes[j]
  BY AllocateFacts
<1> HIDE DEF i, g
<1>2. /\ g \in TreeType /\ g.nodes \in Seq(NodeType) /\ i \in DOMAIN g.nodes /\ i # None
      /\ g.nodes[i] \in NodeType
      /\ g.nodes[i].height = 0 /\ g.nodes[i].left = None /\ g.nodes[i].right = None
  BY <1>1, ShapeFacts DEF Apart
<1>3. /\ e \in NodeType /\ e.height = 0 /\ e.left = None /\ e.right = None
      /\ e.box = box /\ e.data = data
  BY <1>2 DEF NodeType
<1>4. s = Insert(u, i)
  <2>1. s = Insert([g EXCEPT !.nodes[i].box = box, !.nodes[i].data = data], i)
    BY DEF AddLeaf, g, i
  <2>2. [g EXCEPT !.nodes[i].box = box, !.nodes[i].data = data] = u
    BY <1>2 DEF TreeType, Marked
  <2> HIDE DEF s, u
  <2> QED BY <2>1, <2>2
<1> HIDE DEF s, e
<1>5. /\ Shape(u) /\ Apart(u, i) /\ Leaves(u) = Leaves(g)
      /\ DOMAIN u.nodes = DOMAIN g.nodes /\ u.nodes[i] = e
      /\ \A j \in DOMAIN g.nodes : j # i => u.nodes[j] = g.nodes[j]
  BY <1>1, <1>3, ApartMarked
<1> HIDE DEF u
<1>6. /\ Shape(s) /\ Leaves(s) = Leaves(u) \union {i}
      /\ SameEntries(u, s, Leaves(u) \union {i})
  BY <1>4, <1>5, InsertFacts
<1>7. Inside(t) \subseteq DOMAIN t.nodes
  BY ShapeFacts
<1>8. Leaves(g) = Leaves(t)
  <2>1. \A j \in Inside(t) : g.nodes[j] = t.nodes[j]
    BY <1>1, <1>7
  <2> QED BY <1>1, <2>1 DEF Leaves
<1>9. \A j \in Leaves(t) : u.nodes[j] = t.nodes[j]
  <2>1. \A j \in Leaves(t) : j \in Inside(t)
    BY DEF Leaves
  <2> QED BY <1>1, <1>5, <1>7, <2>1
<1>10. i \notin Leaves(t)
  BY <1>1 DEF Leaves
<1>11. SameEntries(t, s, Leaves(t)) /\ s.nodes[i].box = box /\ s.nodes[i].data = data
  BY <1>3, <1>5, <1>6, <1>8, <1>9 DEF SameEntries
<1> QED BY <1>2, <1>5, <1>6, <1>8, <1>10, <1>11 DEF s, i

(* An expanded box is a box, whatever the margin.                           *)
LEMMA ExpandType ==
  ASSUME NEW box \in BoxType, NEW margin \in Int PROVE Expand(box, margin) \in BoxType
BY DEF BoxType, PointType, Expand

(* update_leaf: the same leaves with the same data, and only the leaf has   *)
(* another box, or nothing has changed.                                     *)
LEMMA UpdateLeafFacts ==
  ASSUME NEW t, Shape(t), NEW leaf \in Leaves(t), NEW box \in BoxType, NEW margin \in Int
  PROVE  LET s == UpdateLeaf(t, leaf, box, margin)
         IN /\ Shape(s) /\ Leaves(s) = Leaves(t) /\ SameEntries(t, s, Leaves(t) \ {leaf})
            /\ s.nodes[leaf].data = t.nodes[leaf].data
            /\ IF Included(box, t.nodes[leaf].box) THEN s = t
               ELSE s.nodes[leaf].box = Expand(box, margin)
<1> DEFINE s == UpdateLeaf(t, leaf, box, margin)
<1>1. CASE Included(box, t.nodes[leaf].box)
  <2>1. s = t
    BY <1>1 DEF UpdateLeaf
  <2> QED BY <1>1, <2>1 DEF SameEntries
<1>2. CASE ~ Included(box, t.nodes[leaf].box)
  <2> DEFINE g == RemoveLeaf(t, leaf)
             b == Expand(box, margin)
             e == [g.nodes[leaf] EXCEPT !.box = b]
             u == Marked(g, leaf, e)
  <2>1. /\ Shape(g) /\ Leaves(g) = Leaves(t) \ {leaf} /\ Apart(g, leaf)
        /\ SameEntries(t, g, Leaves(t))
    BY RemoveFacts
  <2>2. b \in BoxType
    BY ExpandType
  <2>3. s = Insert([g EXCEPT !.nodes[leaf].box = b], leaf)
    BY <1>2 DEF UpdateLeaf
  <2> HIDE DEF s, g, b
  <2>4. /\ g \in TreeType /\ g.nodes \in Seq(NodeType) /\ leaf \in DOMAIN g.nodes
        /\ g.nodes[leaf] \in NodeType /\ Leaves(g) \subseteq DOMAIN g.nodes
        /\ g.nodes[leaf].height = 0 /\ g.nodes[leaf].left = None /\ g.nodes[leaf].right = None
    BY <2>1, ShapeFacts DEF Apart
  <2>5. /\ e \in NodeType /\ e.height = 0 /\ e.left = None /\ e.right = None
        /\ e.box = b /\ e.data = g.nodes[leaf].data
    BY <2>2, <2>4 DEF NodeType
  <2>6. [g EXCEPT !.nodes[leaf].box = b] = u
    BY <2>4 DEF TreeType, Marked
  <2> HIDE DEF e
  <2>7. /\ Shape(u) /\ Apart(u, leaf) /\ Leaves(u) = Leaves(g)
        /\ DOMAIN u.nodes = DOMAIN g.nodes /\ u.nodes[leaf] = e
        /\ \A j \in DOMAIN g.nodes : j # leaf => u.nodes[j] = g.nodes[j]
    BY <2>1, <2>5, ApartMarked
  <2> HIDE DEF u
  <2>8. /\ Shape(s) /\ Leaves(s) = Leaves(u) \union {leaf}
        /\ SameEntries(u, s, Leaves(u) \union {leaf})
    BY <2>3, <2>6, <2>7, InsertFacts
  <2>9. Leaves(s) = Leaves(t)
    BY <2>1, <2>7, <2>8
  <2>10. \A j \in Leaves(t) \ {leaf} : u.nodes[j] = g.nodes[j]
    BY <2>1, <2>4, <2>7
  <2>11. SameEntries(t, s, Leaves(t) \ {leaf})
    BY <2>1, <2>7, <2>8, <2>10 DEF SameEntries
  <2>12. s.nodes[leaf].box = b /\ s.nodes[leaf].data = t.nodes[leaf].data
    BY <2>1, <2>5, <2>7, <2>8 DEF SameEntries
  <2> QED BY <1>2, <2>8, <2>9, <2>11, <2>12 DEF s, b
<1> QED BY <1>1, <1>2

-----------------------------------------------------------------------------
(* Queries.                                                                 *)

(* A node is met whenever one of its children is.                           *)
LEMMA UnionMeets ==
  ASSUME NEW a \in BoxType, NEW b \in BoxType, NEW box \in BoxType, Overlap(a, box) \/ Overlap(b, box)
  PROVE  Overlap(Union(a, b), box)
<1> SUFFICES ASSUME NEW k \in 1..2
             PROVE  Union(a, b)[1][k] <= box[2][k] /\ box[1][k] <= Union(a, b)[2][k]
  BY DEF Overlap
<1>1. /\ a[1][k] \in Int /\ a[2][k] \in Int /\ b[1][k] \in Int /\ b[2][k] \in Int
      /\ box[1][k] \in Int /\ box[2][k] \in Int
  BY DEF BoxType, PointType
<1>2. Union(a, b)[1][k] = Min({a[1][k], b[1][k]}) /\ Union(a, b)[2][k] = Max({a[2][k], b[2][k]})
  BY DEF Union
<1>3. /\ Min({a[1][k], b[1][k]}) = IF a[1][k] <= b[1][k] THEN a[1][k] ELSE b[1][k]
      /\ Max({a[2][k], b[2][k]}) = IF a[2][k] >= b[2][k] THEN a[2][k] ELSE b[2][k]
  BY <1>1, MinOfTwo, MaxOfTwo
<1>4. \/ a[1][k] <= box[2][k] /\ box[1][k] <= a[2][k]
      \/ b[1][k] <= box[2][k] /\ box[1][k] <= b[2][k]
  BY DEF Overlap
<1> QED BY <1>1, <1>2, <1>3, <1>4

(* The nodes of t that box meets.                                           *)
Met(t, box) == {i \in DOMAIN t.nodes : Overlap(t.nodes[i].box, box)}

(* s is what a query of box sees, step by step: nodes and their places.     *)
SeenSteps(t, box, s) ==
  /\ s \in [0..Len(t.nodes) -> SUBSET (Met(t, box) \X Nat)]
  /\ s[0] = {v \in {<<t.root, 1>>} : v[1] \in Met(t, box)}
  /\ \A k \in 1..Len(t.nodes) :
       s[k] = {v \in UNION {{v} \union Pushed(t.nodes, v[1], v[2]) : v \in s[k - 1]} : v[1] \in Met(t, box)}
  /\ Reached(t, box) = {i \in Met(t, box) : /\ IsLeaf(t.nodes[i])
                                            /\ \E v \in s[Len(t.nodes)] : v[1] = i}

(* The nodes a query pushes have a place on the stack.                      *)
LEMMA PushedPlaces ==
  ASSUME NEW nodes, NEW i, NEW p \in Nat, NEW v \in Pushed(nodes, i, p)
  PROVE  v = <<v[1], v[2]>> /\ v[2] \in Nat
BY DEF Pushed

(* The recursive function of Reached is one.                                *)
LEMMA SeenIs ==
  ASSUME NEW t, NEW T, t.nodes \in Seq(T), NEW box
  PROVE  \E s : SeenSteps(t, box, s)
<1> DEFINE nodes == t.nodes
           n == Len(nodes)
           met == Met(t, box)
           V == SUBSET (met \X Nat)
           New(w) == {v \in UNION {{v} \union Pushed(nodes, v[1], v[2]) : v \in w} : v[1] \in met}
           First == {v \in {<<t.root, 1>>} : v[1] \in met}
           step == [x \in (1..n) \X V |-> New(x[2])]
           Is(f) == f = [k \in 0..n |->
                           {v \in IF k = 0 THEN {<<t.root, 1>>}
                                  ELSE UNION {{v} \union Pushed(nodes, v[1], v[2]) : v \in f[k - 1]}
                              : v[1] \in met}]
<1>1. n \in Nat /\ First \in V
  OBVIOUS
<1>2. \A k \in 1..n : \A v \in V : step[<<k, v>>] = New(v)
  <2> HIDE DEF V, New
  <2> QED OBVIOUS
<1>3. \A w \in V : New(w) \in V
  <2> SUFFICES ASSUME NEW w \in V, NEW x \in New(w) PROVE x \in met \X Nat
    OBVIOUS
  <2>1. PICK v \in w : x \in {v} \union Pushed(nodes, v[1], v[2])
    OBVIOUS
  <2>2. x[1] \in met /\ v \in met \X Nat
    OBVIOUS
  <2>3. v[2] \in Nat
    BY <2>2
  <2> HIDE DEF V, New, met, nodes
  <2>4. CASE x = v
    BY <2>2, <2>4
  <2>5. CASE x \in Pushed(nodes, v[1], v[2])
    <3>1. x = <<x[1], x[2]>> /\ x[2] \in Nat
      BY <2>3, <2>5, PushedPlaces
    <3> QED BY <2>2, <3>1
  <2> QED BY <2>1, <2>4, <2>5
<1>4. PICK h \in [0..n -> V] : Climbs(h, n, First, step)
  <2> HIDE DEF n, V, New, step, First
  <2>1. \A k \in 1..n : \A v \in V : step[<<k, v>>] \in V
    BY <1>2, <1>3
  <2> QED BY <1>1, <2>1, RecursionUpTo
<1>5. ASSUME NEW k \in 0..n PROVE h[k] = IF k = 0 THEN First ELSE New(h[k - 1])
  <2> HIDE DEF V, New, step, First
  <2>1. CASE k = 0
    BY <1>4, <2>1 DEF Climbs
  <2>2. CASE k # 0
    <3>1. k \in 1..n /\ k - 1 \in 0..n
      BY <1>1, <2>2
    <3>2. h[k] = step[<<k, h[k - 1]>>] /\ h[k - 1] \in V
      BY <1>4, <2>2, <3>1 DEF Climbs
    <3> QED BY <1>2, <2>2, <3>1, <3>2
  <2> QED BY <2>1, <2>2
<1>6. Is(h)
  <2>1. \A k \in 0..n :
          h[k] = {v \in IF k = 0 THEN {<<t.root, 1>>}
                        ELSE UNION {{v} \union Pushed(nodes, v[1], v[2]) : v \in h[k - 1]}
                    : v[1] \in met}
    <3> TAKE k \in 0..n
    <3>1. CASE k = 0
      BY <1>5, <3>1
    <3>2. CASE k # 0
      BY <1>5, <3>2
    <3> QED BY <3>1, <3>2
  <2> QED BY <1>4, <2>1
<1> DEFINE s == CHOOSE f : Is(f)
<1>7. Is(s)
  <2> HIDE DEF Is
  <2> QED BY <1>6
<1>8. Reached(t, box) = {i \in met : IsLeaf(nodes[i]) /\ \E v \in s[n] : v[1] = i}
  BY DEF Reached, Met
<1> HIDE DEF s
<1>9. \A k \in 0..n :
          s[k] = {v \in IF k = 0 THEN {<<t.root, 1>>}
                        ELSE UNION {{v} \union Pushed(nodes, v[1], v[2]) : v \in s[k - 1]}
                    : v[1] \in met}
  BY <1>7
<1>10. s[0] = First
  <2>1. 0 \in 0..n
    BY <1>1
  <2> QED BY <1>9, <2>1
<1>11. \A k \in 1..n : s[k] = New(s[k - 1])
  <2> TAKE k \in 1..n
  <2>1. k \in 0..n /\ k # 0
    BY <1>1
  <2> QED BY <1>9, <2>1
<1>12. s \in [0..n -> V]
  <2>1. DOMAIN s = 0..n /\ s = [k \in 0..n |-> s[k]]
    BY <1>7
  <2> DEFINE G == {k \in Nat : k <= n => s[k] \in V}
  <2> HIDE DEF n, V, New, First
  <2>2. 0 \in G
    BY <1>1, <1>10
  <2>3. ASSUME NEW k \in Nat, k \in G PROVE k + 1 \in G
    <3> SUFFICES ASSUME k + 1 <= n PROVE s[k + 1] \in V
      OBVIOUS
    <3>1. k <= n /\ k + 1 \in 1..n /\ (k + 1) - 1 = k
      BY <1>1
    <3>2. s[k] \in V /\ s[k + 1] = New(s[k])
      BY <1>11, <2>3, <3>1
    <3> QED BY <1>3, <3>2
  <2>4. Nat \subseteq G
    <3> HIDE DEF G
    <3> QED BY <2>2, <2>3, NatInSet
  <2>5. \A k \in 0..n : s[k] \in V
    BY <1>1, <2>4
  <2> QED BY <2>1, <2>5
<1> QED BY <1>8, <1>10, <1>11, <1>12 DEF SeenSteps

(* Children are lower than their parent.                                    *)
LEMMA KidsLower ==
  ASSUME NEW t, Shape(t), NEW j \in Inside(t), NEW c \in Kids(t.nodes, j), c # None
  PROVE  /\ c \in Inside(t) /\ t.nodes[c].height \in Nat /\ t.nodes[j].height \in Nat
         /\ t.nodes[c].height < t.nodes[j].height /\ ~ IsLeaf(t.nodes[j])
<1> DEFINE nodes == t.nodes
           B == Inside(t)
<1>1. /\ nodes \in Seq(NodeType) /\ IsTree(nodes, t.root, B) /\ LeavesBare(nodes, B)
      /\ \A i \in Inner(nodes, B) : Fit(nodes, i)
  BY ShapeFacts DEF Shape, InShape
<1>2. None \notin B
  BY ShapeFacts
<1> HIDE DEF nodes, B
<1>3. c \in B /\ nodes[c].parent = j /\ j # None
  BY <1>1, <1>2 DEF IsTree, Kids, nodes, B
<1>4. nodes[j].height > nodes[c].height
  BY <1>1, <1>3, HeightsRise
<1>5. nodes[c].height \in Nat /\ nodes[j].height \in Nat
  BY <1>1, <1>3 DEF LeavesBare, B
<1> QED BY <1>3, <1>4, <1>5 DEF nodes, B, IsLeaf

(* In a tree lower than the stack is deep, a query sees all the nodes it    *)
(* meets: the place of a node and its height are together no more than the  *)
(* height of the tree and one.                                              *)
LEMMA SeenAll ==
  ASSUME NEW t, Shape(t), Fits(t), NEW box,
         NEW i \in Walk(t.nodes, t.root, Met(t, box)), IsLeaf(t.nodes[i])
  PROVE  i \in Reached(t, box)
<1> DEFINE nodes == t.nodes
           n == Len(nodes)
           met == Met(t, box)
           B == Inside(t)
           H == nodes[t.root].height
<1>1. nodes \in Seq(NodeType) /\ n \in Nat /\ None \notin DOMAIN nodes /\ met \in SUBSET DOMAIN nodes
  BY ShapeFacts DEF Met
<1>2. PICK w : WalkSteps(nodes, t.root, met, w)
  <2> HIDE DEF met, nodes
  <2> QED BY <1>1, WalkIs
<1>3. PICK s : SeenSteps(t, box, s)
  BY <1>1, SeenIs
<1>4. t.root \in met => t.root \in B /\ H \in Nat /\ H < StackSize
  <2> SUFFICES ASSUME t.root \in met PROVE t.root \in B /\ H \in Nat /\ H < StackSize
    OBVIOUS
  <2>1. t.root # None
    BY <1>1
  <2>2. t.root \in B /\ H \in Nat
    BY <2>1 DEF Shape, InShape, IsTree, LeavesBare
  <2> QED BY <2>1, <2>2 DEF Fits
<1>5. StackSize \in Nat
  BY StackSizeAssumption
<1>6. /\ w[0] = met \intersect {t.root}
      /\ \A k \in 1..n : w[k] = met \intersect UNION {{j} \union Kids(nodes, j) : j \in w[k - 1]}
      /\ Walk(nodes, t.root, met) = w[n]
  BY <1>2 DEF WalkSteps
<1>7. /\ s[0] = {v \in {<<t.root, 1>>} : v[1] \in met}
      /\ \A k \in 1..n :
           s[k] = {v \in UNION {{v} \union Pushed(nodes, v[1], v[2]) : v \in s[k - 1]} : v[1] \in met}
      /\ Reached(t, box) = {j \in met : IsLeaf(nodes[j]) /\ \E v \in s[n] : v[1] = j}
  BY <1>3 DEF SeenSteps
<1>8. \A j \in B : \A c \in Kids(nodes, j) : c # None =>
        /\ c \in B /\ nodes[c].height \in Nat /\ nodes[j].height \in Nat
        /\ nodes[c].height < nodes[j].height /\ ~ IsLeaf(nodes[j])
  BY KidsLower
<1> DEFINE Stacked(j, k) == \E p \in Nat : <<j, p>> \in s[k] /\ p + nodes[j].height <= H + 1
           G == {k \in Nat : k <= n => \A j \in w[k] : /\ t.root \in met /\ j \in B
                                                       /\ Stacked(j, k)}
<1> HIDE DEF nodes, n, met, B, H
<1>9. 0 \in G
  <2> SUFFICES ASSUME NEW j \in w[0] PROVE t.root \in met /\ j \in B /\ Stacked(j, 0)
    OBVIOUS
  <2>1. j = t.root /\ t.root \in met
    BY <1>6
  <2>2. <<j, 1>> \in s[0]
    BY <1>7, <2>1
  <2>3. 1 + nodes[j].height <= H + 1
    BY <1>4, <2>1 DEF H, nodes
  <2> QED BY <1>4, <2>1, <2>2, <2>3
<1>10. ASSUME NEW k \in Nat, k \in G PROVE k + 1 \in G
  <2> SUFFICES ASSUME k + 1 <= n, NEW c \in w[k + 1]
               PROVE  t.root \in met /\ c \in B /\ Stacked(c, k + 1)
    OBVIOUS
  <2>1. k <= n /\ k + 1 \in 1..n /\ (k + 1) - 1 = k
    BY <1>1
  <2>2. w[k + 1] = met \intersect UNION {{j} \union Kids(nodes, j) : j \in w[k]}
    BY <1>6, <2>1
  <2>3. PICK j \in w[k] : c \in {j} \union Kids(nodes, j)
    BY <2>2
  <2>4. c \in met /\ c # None
    BY <1>1, <2>2
  <2>5. t.root \in met /\ j \in B /\ Stacked(j, k)
    BY <1>10, <2>1
  <2>6. PICK p \in Nat : <<j, p>> \in s[k] /\ p + nodes[j].height <= H + 1
    BY <2>5
  <2> DEFINE more == UNION {{v} \union Pushed(nodes, v[1], v[2]) : v \in s[k]}
  <2>7. s[k + 1] = {v \in more : v[1] \in met}
    BY <1>7, <2>1
  <2>8. \A q : <<c, q>> \in {<<j, p>>} \union Pushed(nodes, j, p) => <<c, q>> \in s[k + 1]
    <3> SUFFICES ASSUME NEW q, <<c, q>> \in {<<j, p>>} \union Pushed(nodes, j, p)
                 PROVE  <<c, q>> \in s[k + 1]
      OBVIOUS
    <3>1. <<j, p>>[1] = j /\ <<j, p>>[2] = p /\ <<c, q>>[1] = c
      OBVIOUS
    <3>2. <<c, q>> \in more
      BY <2>6, <3>1
    <3> QED BY <2>4, <2>7, <3>1, <3>2
  <2> HIDE DEF more
  <2>9. CASE c = j
    <3>1. <<c, p>> \in s[k + 1]
      BY <2>8, <2>9
    <3> QED BY <2>5, <2>6, <2>9, <3>1
  <2>10. CASE c # j
    <3>1. c \in Kids(nodes, j)
      BY <2>3, <2>10
    <3>2. /\ c \in B /\ nodes[c].height \in Nat /\ nodes[j].height \in Nat
          /\ nodes[c].height < nodes[j].height /\ ~ IsLeaf(nodes[j])
      BY <1>8, <2>4, <2>5, <3>1
    <3>3. H \in Nat /\ H < StackSize
      BY <1>4, <2>5
    <3>4. ~ (p >= StackSize)
      BY <1>5, <2>6, <3>2, <3>3
    <3>5. Pushed(nodes, j, p) = {<<nodes[j].left, p>>, <<nodes[j].right, p + 1>>}
      BY <3>2, <3>4 DEF Pushed
    <3>6. c = nodes[j].left \/ c = nodes[j].right
      BY <3>1 DEF Kids
    <3>7. /\ p + 1 \in Nat /\ p + nodes[c].height <= H + 1 /\ (p + 1) + nodes[c].height <= H + 1
      BY <2>6, <3>2, <3>3
    <3>8. <<c, p>> \in s[k + 1] \/ <<c, p + 1>> \in s[k + 1]
      BY <2>8, <3>5, <3>6
    <3> QED BY <2>5, <3>2, <3>7, <3>8
  <2> QED BY <2>9, <2>10
<1>11. n \in G
  <2> HIDE DEF G
  <2> QED BY <1>1, <1>9, <1>10, NatInSet
<1>12. i \in w[n]
  BY <1>6 DEF nodes, met
<1>13. PICK p \in Nat : <<i, p>> \in s[n]
  BY <1>1, <1>11, <1>12
<1>14. i \in met
  <2>1. met \in SUBSET DOMAIN nodes
    BY <1>1
  <2>2. Walk(nodes, t.root, met) \subseteq met
    BY <1>1, <2>1, WalkFacts
  <2> QED BY <2>2 DEF nodes, met
<1>15. <<i, p>>[1] = i
  OBVIOUS
<1> QED BY <1>7, <1>13, <1>14, <1>15 DEF nodes

(* A query of a tree the stack is deep enough for reaches every leaf its    *)
(* box meets.                                                               *)
LEMMA QueryReaches ==
  ASSUME NEW t, Shape(t), Fits(t), NEW i \in Leaves(t), NEW box \in BoxType, Overlap(t.nodes[i].box, box)
  PROVE  i \in Reached(t, box)
<1> DEFINE nodes == t.nodes
           B == Inside(t)
           met == Met(t, box)
           W == Walk(nodes, t.root, met)
           X == {j \in B : Overlap(nodes[j].box, box) => j \in W}
<1>1. /\ nodes \in Seq(NodeType) /\ B \subseteq DOMAIN nodes /\ None \notin DOMAIN nodes
      /\ \A j \in DOMAIN nodes : nodes[j] \in NodeType
      /\ i \in B /\ nodes[i].height = 0
  <2>1. i \in B
    BY DEF Leaves
  <2> QED BY <2>1, ShapeFacts
<1>2. IsTree(nodes, t.root, B) /\ \A j \in Inner(nodes, B) : Fit(nodes, j)
  BY DEF Shape, InShape
<1>3. \A j : j \in met <=> j \in DOMAIN nodes /\ Overlap(nodes[j].box, box)
  BY DEF Met
<1>4. met \in SUBSET DOMAIN nodes
  BY <1>3
<1>5. /\ W \subseteq met
      /\ t.root \in met => t.root \in W
      /\ \A j \in W : Kids(nodes, j) \intersect met \subseteq W
  <2> HIDE DEF met
  <2> QED BY <1>1, <1>4, WalkFacts
<1> HIDE DEF W, B, nodes, met
<1>6. t.root \in X
  BY <1>1, <1>2, <1>3, <1>5 DEF IsTree
<1>7. ASSUME NEW j \in X, NEW c \in Kids(nodes, j), c # None PROVE c \in X
  <2>1. c \in B /\ nodes[j].left \in B /\ nodes[j].right \in B /\ j \in B
    BY <1>2, <1>7 DEF IsTree, Kids
  <2>2. j \in Inner(nodes, B)
    BY <1>1, <2>1 DEF Inner
  <2>3. nodes[j].box = Union(nodes[nodes[j].left].box, nodes[nodes[j].right].box)
    BY <1>2, <2>2 DEF Fit
  <2> SUFFICES ASSUME Overlap(nodes[c].box, box) PROVE c \in W
    BY <2>1
  <2>4. nodes[nodes[j].left].box \in BoxType /\ nodes[nodes[j].right].box \in BoxType
    BY <1>1, <2>1 DEF NodeType
  <2>5. \/ Overlap(nodes[nodes[j].left].box, box)
        \/ Overlap(nodes[nodes[j].right].box, box)
    BY DEF Kids
  <2>6. Overlap(nodes[j].box, box)
    BY <2>3, <2>4, <2>5, UnionMeets
  <2>7. j \in W
    BY <2>6
  <2>8. c \in met
    BY <1>1, <1>3, <2>1
  <2> QED BY <1>5, <2>7, <2>8
<1>8. X = B
  <2>1. X \in SUBSET B
    OBVIOUS
  <2>2. \A j \in X : Kids(nodes, j) \ {None} \subseteq X
    BY <1>7
  <2> HIDE DEF X
  <2> QED BY <1>2, <1>6, <2>1, <2>2 DEF IsTree
<1>9. i \in W
  BY <1>1, <1>8 DEF nodes
<1>10. IsLeaf(t.nodes[i])
  BY <1>1 DEF nodes, IsLeaf
<1> QED BY <1>9, <1>10, SeenAll DEF W, nodes, met

(* Arithmetic the prover has to be told: products grow with their factors.  *)
LEMMA Products ==
  ASSUME NEW a \in Nat, NEW b \in Nat, NEW c \in Nat, a <= b
  PROVE  a * c <= b * c
<1>1. PICK d \in Nat : b = a + d
  <2>1. b - a \in Nat /\ b = a + (b - a)
    OBVIOUS
  <2> QED BY <2>1
<1>2. b * c = a * c + d * c
  BY <1>1
<1>3. d * c >= 0
  OBVIOUS
<1> QED BY <1>2, <1>3

(* A number is no larger than another if its square is not.                 *)
LEMMA Roots ==
  ASSUME NEW x \in Int, NEW r \in Nat, x * x <= r * r PROVE -r <= x /\ x <= r
<1> DEFINE y == IF x < 0 THEN -x ELSE x
<1>1. y \in Nat /\ y * y = x * x
  OBVIOUS
<1> SUFFICES ASSUME y > r PROVE FALSE
  OBVIOUS
<1> HIDE DEF y
<1>2. r + 1 \in Nat /\ r + 1 <= y
  BY <1>1
<1>3. (r + 1) * (r + 1) <= y * (r + 1) /\ (r + 1) * y <= y * y
  BY <1>1, <1>2, Products
<1>4. (r + 1) * (r + 1) = r * r + 2 * r + 1 /\ y * (r + 1) = (r + 1) * y
  BY <1>1
<1>5. y * y \in Int /\ r * r \in Int /\ (r + 1) * y \in Int /\ (r + 1) * (r + 1) \in Int
  BY <1>1
<1>6. y * y <= r * r
  BY <1>1
<1> HIDE <1>1
<1> QED BY <1>3, <1>4, <1>5, <1>6

(* And the other way round.                                                 *)
LEMMA Squares ==
  ASSUME NEW x \in Int, NEW r \in Nat, -r <= x, x <= r PROVE x * x <= r * r
<1> DEFINE y == IF x < 0 THEN -x ELSE x
<1>1. y \in Nat /\ y <= r /\ y * y = x * x
  OBVIOUS
<1> HIDE DEF y
<1>2. y * y <= r * y /\ y * r <= r * r
  BY <1>1, Products
<1>3. r * y = y * r /\ y * y \in Int /\ y * r \in Int /\ r * r \in Int
  BY <1>1
<1> QED BY <1>1, <1>2, <1>3

(* The product of two bounded numbers.                                      *)
LEMMA MixedProduct ==
  ASSUME NEW x \in Int, NEW y \in Int, NEW r \in Nat, NEW s \in Nat, -r <= x, x <= r, -s <= y, y <= s
  PROVE  x * y <= r * s
<1> DEFINE a == IF x < 0 THEN -x ELSE x
           b == IF y < 0 THEN -y ELSE y
<1>1. a \in Nat /\ a <= r /\ b \in Nat /\ b <= s /\ x * y <= a * b
  <2>1. a \in Nat /\ a <= r /\ b \in Nat /\ b <= s
    OBVIOUS
  <2>2. x * y = a * b \/ x * y = -(a * b)
    OBVIOUS
  <2>3. a * b >= 0 /\ a * b \in Int
    BY <2>1
  <2> HIDE DEF a, b
  <2> QED BY <2>1, <2>2, <2>3
<1> HIDE DEF a, b
<1>2. a * b <= r * b /\ b * r <= s * r
  BY <1>1, Products
<1>3. r * b = b * r /\ s * r = r * s /\ x * y \in Int /\ a * b \in Int /\ r * b \in Int /\ r * s \in Int
  BY <1>1
<1> QED BY <1>1, <1>2, <1>3

(* The square of a leaf around an entity of ray R: of side 4 * R, R or more *)
(* around it.                                                               *)
Square(D, R) == \A k \in 1..2 : D[2][k] - D[1][k] = 4 * R

(* The circle test on one axis, with a the distance of the centre of the    *)
(* leaf from its entity and b that of the entity from the query, both       *)
(* doubled.                                                                 *)
LEMMA OneAxis ==
  ASSUME NEW R \in Nat, NEW r \in Nat, NEW d \in Int, NEW p \in Int, NEW c \in Int,
         d <= p - R, p + R <= d + 4 * R, NEW b \in Int, b = 2 * p - 2 * c, -r <= p - c, p - c <= r
  PROVE  LET a == (2 * d + 4 * R) - 2 * p
         IN /\ a \in Int /\ -(2 * R) <= a /\ a <= 2 * R
            /\ -(2 * r) <= b /\ b <= 2 * r
            /\ d <= c + r /\ c - r <= d + 4 * R
            /\ a * a <= 4 * (R * R) /\ a * b <= 4 * (R * r)
<1> DEFINE a == (2 * d + 4 * R) - 2 * p
<1>1. a \in Int /\ -(2 * R) <= a /\ a <= 2 * R /\ -(2 * r) <= b /\ b <= 2 * r
  OBVIOUS
<1>2. d <= c + r /\ c - r <= d + 4 * R
  OBVIOUS
<1> HIDE DEF a
<1>3. 2 * R \in Nat /\ 2 * r \in Nat
  OBVIOUS
<1>4. a * a <= (2 * R) * (2 * R)
  BY <1>1, <1>3, Squares
<1>5. a * b <= (2 * R) * (2 * r)
  BY <1>1, <1>3, MixedProduct
<1>6. (2 * R) * (2 * R) = 4 * (R * R) /\ (2 * R) * (2 * r) = 4 * (R * r)
  OBVIOUS
<1> QED BY <1>1, <1>2, <1>4, <1>5, <1>6 DEF a

(* tree_circle_query: an entity p of ray R within r of c, in the square D   *)
(* of its leaf, has its leaf met by the box of the query and passed by the test on *)
(* the distance of the centres.                                             *)
LEMMA CircleMeets ==
  ASSUME NEW D \in BoxType, NEW p \in PointType, NEW c \in PointType, NEW r \in Nat, NEW R \in Nat,
         Square(D, R), Included(Expand(Point(p), R), D), SquareDistance(c, p) <= r * r
  PROVE  /\ Overlap(D, Expand(Point(c), r))
         /\ SquareDistance([k \in 1..2 |-> 2 * c[k]], Center2(D))
              <= (LargestSide(D) + 2 * r) * (LargestSide(D) + 2 * r)
<1> DEFINE b(k) == 2 * p[k] - 2 * c[k]
           a(k) == (2 * D[1][k] + 4 * R) - 2 * p[k]
<1>1. \A k \in 1..2 : /\ D[1][k] \in Int /\ D[2][k] \in Int /\ p[k] \in Int /\ c[k] \in Int
                      /\ D[2][k] = D[1][k] + 4 * R
  BY DEF BoxType, PointType, Square
<1>2. \A k \in 1..2 : D[1][k] <= p[k] - R /\ p[k] + R <= D[1][k] + 4 * R
  <2> SUFFICES ASSUME NEW k \in 1..2 PROVE D[1][k] <= p[k] - R /\ p[k] + R <= D[1][k] + 4 * R
    OBVIOUS
  <2>1. /\ Expand(Point(p), R)[1][k] = p[k] - R /\ Expand(Point(p), R)[2][k] = p[k] + R
    BY DEF Expand, Point
  <2>2. Expand(Point(p), R)[1][k] >= D[1][k] /\ Expand(Point(p), R)[2][k] <= D[2][k]
    BY DEF Included
  <2> QED BY <1>1, <2>1, <2>2
<1>3. \A k \in 1..2 : -r <= p[k] - c[k] /\ p[k] - c[k] <= r
  <2> DEFINE x == p[1] - c[1]
             y == p[2] - c[2]
  <2>1. x \in Int /\ y \in Int
    BY <1>1
  <2>2. SquareDistance(c, p) = x * x + y * y
    <3>1. (c[1] - p[1]) * (c[1] - p[1]) = x * x
      BY <1>1
    <3>2. (c[2] - p[2]) * (c[2] - p[2]) = y * y
      BY <1>1
    <3> QED BY <3>1, <3>2 DEF SquareDistance
  <2> HIDE DEF x, y
  <2>3. x * x >= 0 /\ y * y >= 0 /\ x * x \in Int /\ y * y \in Int /\ r * r \in Int
    BY <2>1
  <2>4. x * x <= r * r /\ y * y <= r * r
    BY <2>2, <2>3
  <2>5. -r <= x /\ x <= r /\ -r <= y /\ y <= r
    BY <2>1, <2>4, Roots
  <2> QED BY <2>5 DEF x, y
<1>4. ASSUME NEW k \in 1..2
      PROVE  /\ a(k) \in Int /\ b(k) \in Int
             /\ D[1][k] <= c[k] + r /\ c[k] - r <= D[2][k]
             /\ a(k) * a(k) <= 4 * (R * R) /\ a(k) * b(k) <= 4 * (R * r)
  <2>1. b(k) \in Int /\ D[1][k] \in Int /\ p[k] \in Int /\ c[k] \in Int
    BY <1>1
  <2>2. /\ D[1][k] <= p[k] - R /\ p[k] + R <= D[1][k] + 4 * R
        /\ -r <= p[k] - c[k] /\ p[k] - c[k] <= r
    BY <1>2, <1>3
  <2> DEFINE d == D[1][k]
             x == p[k]
             y == c[k]
             z == b(k)
  <2>3. z = 2 * x - 2 * y
    OBVIOUS
  <2>4. a(k) = (2 * d + 4 * R) - 2 * x
    OBVIOUS
  <2> HIDE DEF d, x, y, z, b, a
  <2>5. LET w == (2 * d + 4 * R) - 2 * x
        IN /\ w \in Int /\ -(2 * R) <= w /\ w <= 2 * R
           /\ -(2 * r) <= z /\ z <= 2 * r
           /\ d <= y + r /\ y - r <= d + 4 * R
           /\ w * w <= 4 * (R * R) /\ w * z <= 4 * (R * r)
    BY <2>1, <2>2, <2>3, OneAxis DEF d, x, y, z
  <2>6. D[2][k] = d + 4 * R
    BY <1>1 DEF d
  <2> QED BY <2>1, <2>4, <2>5, <2>6 DEF d, y, z
<1>5. Overlap(D, Expand(Point(c), r))
  <2> SUFFICES ASSUME NEW k \in 1..2
               PROVE  D[1][k] <= Expand(Point(c), r)[2][k] /\ Expand(Point(c), r)[1][k] <= D[2][k]
    BY DEF Overlap
  <2>1. Expand(Point(c), r)[2][k] = c[k] + r /\ Expand(Point(c), r)[1][k] = c[k] - r
    BY DEF Expand, Point
  <2> QED BY <1>4, <2>1
<1>6. LargestSide(D) = 4 * R
  <2>1. Side(D, 1) = 4 * R /\ Side(D, 2) = 4 * R /\ 4 * R \in Int
    BY <1>1 DEF Side
  <2>2. Max({4 * R, 4 * R}) = 4 * R
    BY <2>1, MaxOfTwo
  <2> QED BY <2>1, <2>2 DEF LargestSide
<1> DEFINE a1 == a(1)
           a2 == a(2)
           b1 == b(1)
           b2 == b(2)
<1>7. SquareDistance([k \in 1..2 |-> 2 * c[k]], Center2(D)) = (a1 + b1) * (a1 + b1) + (a2 + b2) * (a2 + b2)
  <2> DEFINE u == [k \in 1..2 |-> 2 * c[k]]
             v == Center2(D)
  <2>1. \A k \in 1..2 : u[k] = 2 * c[k] /\ v[k] = 2 * D[1][k] + 4 * R
    BY <1>1 DEF Center2
  <2>2. \A k \in 1..2 : v[k] - u[k] = a(k) + b(k) /\ u[k] \in Int /\ v[k] \in Int
    BY <1>1, <2>1
  <2> HIDE DEF u, v, a, b
  <2>3. \A k \in 1..2 : (u[k] - v[k]) * (u[k] - v[k]) = (a(k) + b(k)) * (a(k) + b(k))
    <3> SUFFICES ASSUME NEW k \in 1..2
                 PROVE  (u[k] - v[k]) * (u[k] - v[k]) = (a(k) + b(k)) * (a(k) + b(k))
      OBVIOUS
    <3> DEFINE x == u[k]
               y == v[k]
               z == a(k) + b(k)
    <3>1. x \in Int /\ y \in Int /\ z = y - x
      BY <2>2
    <3> HIDE DEF x, y, z
    <3>2. (x - y) * (x - y) = (y - x) * (y - x)
      BY <3>1
    <3> QED BY <3>1, <3>2 DEF x, y, z
  <2>4. 1 \in 1..2 /\ 2 \in 1..2
    OBVIOUS
  <2> QED BY <2>3, <2>4 DEF SquareDistance, u, v
<1>8. b1 * b1 + b2 * b2 <= 4 * (r * r)
  <2> DEFINE x == c[1] - p[1]
             y == c[2] - p[2]
  <2>1. x \in Int /\ y \in Int /\ b1 = -(2 * x) /\ b2 = -(2 * y)
    BY <1>1
  <2>2. x * x + y * y <= r * r
    BY DEF SquareDistance
  <2> HIDE DEF x, y, b1, b2
  <2>3. b1 * b1 = 4 * (x * x) /\ b2 * b2 = 4 * (y * y) /\ x * x \in Int /\ y * y \in Int /\ r * r \in Int
    BY <2>1
  <2> QED BY <2>2, <2>3
<1>9. /\ a1 \in Int /\ b1 \in Int /\ a2 \in Int /\ b2 \in Int
      /\ a1 * a1 <= 4 * (R * R) /\ a1 * b1 <= 4 * (R * r)
      /\ a2 * a2 <= 4 * (R * R) /\ a2 * b2 <= 4 * (R * r)
  <2> HIDE DEF a, b
  <2> QED BY <1>4
<1> HIDE DEF a, b, a1, a2, b1, b2
<1>10. /\ (a1 + b1) * (a1 + b1) = a1 * a1 + 2 * (a1 * b1) + b1 * b1
       /\ (a2 + b2) * (a2 + b2) = a2 * a2 + 2 * (a2 * b2) + b2 * b2
  BY <1>9
<1>11. (a1 + b1) * (a1 + b1) + (a2 + b2) * (a2 + b2) <= 8 * (R * R) + 16 * (R * r) + 4 * (r * r)
  <2> DEFINE e1 == a1 * a1
             e2 == a2 * a2
             f1 == a1 * b1
             f2 == a2 * b2
             g1 == b1 * b1
             g2 == b2 * b2
             s == R * R
             q == R * r
             w == r * r
  <2>1. /\ e1 \in Int /\ e2 \in Int /\ f1 \in Int /\ f2 \in Int /\ g1 \in Int /\ g2 \in Int
        /\ s \in Int /\ q \in Int /\ w \in Int
    BY <1>9
  <2>2. /\ e1 <= 4 * s /\ e2 <= 4 * s /\ f1 <= 4 * q /\ f2 <= 4 * q /\ g1 + g2 <= 4 * w
    BY <1>8, <1>9
  <2> HIDE DEF e1, e2, f1, f2, g1, g2, s, q, w
  <2>3. (e1 + 2 * f1 + g1) + (e2 + 2 * f2 + g2) <= 8 * s + 16 * q + 4 * w
    BY <2>1, <2>2
  <2> QED BY <1>10, <2>3 DEF e1, e2, f1, f2, g1, g2, s, q, w
<1>12. 8 * (R * R) + 16 * (R * r) + 4 * (r * r) <= (4 * R + 2 * r) * (4 * R + 2 * r)
  <2>1. (4 * R + 2 * r) * (4 * R + 2 * r) = 16 * (R * R) + 16 * (R * r) + 4 * (r * r)
    OBVIOUS
  <2>2. R * R >= 0 /\ R * R \in Int /\ R * r \in Int /\ r * r \in Int
    OBVIOUS
  <2> QED BY <2>1, <2>2
<1>13. (a1 + b1) * (a1 + b1) + (a2 + b2) * (a2 + b2) <= (4 * R + 2 * r) * (4 * R + 2 * r)
  <2> DEFINE x == (a1 + b1) * (a1 + b1) + (a2 + b2) * (a2 + b2)
             y == 8 * (R * R) + 16 * (R * r) + 4 * (r * r)
             z == (4 * R + 2 * r) * (4 * R + 2 * r)
  <2>1. x \in Int /\ y \in Int /\ z \in Int
    BY <1>9
  <2>2. x <= y /\ y <= z
    BY <1>11, <1>12
  <2> HIDE DEF x, y, z
  <2>3. x <= z
    BY <2>1, <2>2
  <2> QED BY <2>3 DEF x, z
<1> QED BY <1>5, <1>6, <1>7, <1>13

-----------------------------------------------------------------------------
(* The collision tree and its entities.                                     *)

(* The leaf an entity knows of, or is about to.                             *)
LeafNow(e) == IF leafOf[e] # None THEN leafOf[e] ELSE steps[e]

(* The entities that have one.                                              *)
Known == {e \in live : LeafNow(e) # None}

(* The entities there are, and where each is.                               *)
Types ==
  /\ live \subseteq Entities /\ gone \subseteq Entities \ live /\ todo \subseteq live
  /\ leafOf \in [Entities -> Nat] /\ steps \in [Entities -> Nat]
  /\ \A e \in live : pos[e] \in SpotsOf[e]
  /\ pc \in {"idle", "update", "query"}

(* A step is pending only in the frame it was made in, and only for an      *)
(* entity that knows of no leaf; who does not exist yet has neither.        *)
StepsFit ==
  /\ pc = "idle" => \A e \in Entities : steps[e] = None
  /\ pc # "update" => todo = {}
  /\ \A e \in todo : steps[e] = None
  /\ \A e \in live : steps[e] = None \/ leafOf[e] = None
  /\ \A e \in Entities \ (live \union gone) : leafOf[e] = None /\ steps[e] = None

(* The leaves are those of the entities, one each, and the stray ones; each *)
(* carries its entity in a square for its ray.                              *)
OwnLeaves ==
  /\ Leaves(tree) = {LeafNow(e) : e \in Known} \union stray
  /\ \A e \in Known : /\ tree.nodes[LeafNow(e)].data = e /\ LeafNow(e) \notin stray
                      /\ Square(tree.nodes[LeafNow(e)].box, Ray[e])

(* Once the position system has visited an entity, its leaf holds its       *)
(* surroundings until the frame ends.                                       *)
Visited ==
  pc # "idle" => \A e \in live \ todo :
    LeafNow(e) # None /\ Included(Around(e), tree.nodes[LeafNow(e)].box)

(* What a rewind will give back: during the frame what there is now, after  *)
(* it positions and leaves of those that lived then, whose leaf is the one  *)
(* they have or none.                                                       *)
UndoFits ==
  undo # << >> =>
    /\ undo = <<[pos |-> undo[1].pos, leafOf |-> undo[1].leafOf, born |-> undo[1].born]>>
    /\ IF pc # "idle" THEN undo[1].pos = pos /\ undo[1].leafOf = leafOf
       ELSE /\ undo[1].leafOf \in [Entities -> Nat]
            /\ \A e \in live \ undo[1].born : /\ undo[1].pos[e] \in SpotsOf[e]
                                              /\ undo[1].leafOf[e] \in {leafOf[e], None}
            /\ \A e \in Entities \ ((live \ undo[1].born) \union gone) : undo[1].leafOf[e] = None

(* The inductive invariant: the tree in shape, and the books of entities    *)
(* and leaves in order.                                                     *)
TreeInv == Shape(tree) /\ Types /\ StepsFit /\ OwnLeaves /\ Visited /\ UndoFits

(* Entities stand on points.                                                *)
LEMMA SpotType == ASSUME NEW e \in Entities, NEW p \in SpotsOf[e] PROVE p \in PointType
<1>1. p \in Int \X Int
  BY ConstantsAssumption
<1> QED BY <1>1 DEF PointType

(* The empty tree is in shape.                                              *)
LEMMA EmptyShape == Shape(EmptyTree) /\ Leaves(EmptyTree) = {}
<1> DEFINE t == EmptyTree
<1>1. t \in TreeType /\ t.nodes = << >> /\ t.root = None /\ t.free = None
  BY DEF EmptyTree, TreeType, None
<1>2. DOMAIN t.nodes = {} /\ t.nodes \in Seq(NodeType)
  BY <1>1
<1> HIDE DEF t
<1>3. IsTree(t.nodes, t.root, {})
  BY <1>1 DEF IsTree
<1>4. LeavesBare(t.nodes, {}) /\ Inner(t.nodes, {}) = {}
  BY DEF LeavesBare, Inner
<1>5. FreeList(t.nodes, t.free)
  <2>1. FreeSet(t.nodes) = {}
    BY <1>2 DEF FreeSet
  <2>2. Ranked(t.nodes, {})
    <3>1. [j \in {} |-> 0] \in [{} -> Int]
      OBVIOUS
    <3> QED BY <3>1 DEF Ranked
  <2> QED BY <1>1, <2>1, <2>2 DEF FreeList
<1>6. InShape(t, {})
  BY <1>1, <1>3, <1>4, <1>5 DEF InShape
<1>7. Shape(t) /\ Inside(t) = {}
  BY <1>6, ShapeOf
<1> QED BY <1>7 DEF Leaves, t

(* The invariant holds at first.                                            *)
LEMMA InitInv == Init => TreeInv
<1> SUFFICES ASSUME Init PROVE TreeInv
  OBVIOUS
<1>1. Shape(tree) /\ Leaves(tree) = {}
  BY EmptyShape DEF Init
<1>2. /\ live = Founders /\ gone = {} /\ todo = {} /\ pc = "idle" /\ undo = << >> /\ stray = {}
      /\ leafOf = [e \in Entities |-> None] /\ steps = [e \in Entities |-> None]
      /\ \A e \in Founders : pos[e] \in SpotsOf[e]
  BY ConstantsAssumption DEF Init, Placed
<1>3. Types
  BY <1>2, ConstantsAssumption DEF Types, None
<1>4. StepsFit
  <2>1. \A e \in Entities : steps[e] = None /\ leafOf[e] = None
    BY <1>2
  <2>2. live \subseteq Entities
    BY <1>3 DEF Types
  <2> QED BY <1>2, <2>1, <2>2 DEF StepsFit
<1>5. Known = {}
  BY <1>2, <1>3 DEF Known, LeafNow, Types
<1>6. OwnLeaves
  BY <1>1, <1>2, <1>5 DEF OwnLeaves
<1>7. Visited /\ UndoFits
  BY <1>2 DEF Visited, UndoFits
<1> QED BY <1>1, <1>3, <1>4, <1>6, <1>7 DEF TreeInv

(* A step that leaves the tree, the entities and their leaves alone.        *)
LEMMA SameBooks ==
  ASSUME TreeInv, UNCHANGED <<tree, leafOf, steps, live, stray>>
  PROVE  Shape(tree)' /\ OwnLeaves' /\ Known' = Known /\ \A e : LeafNow(e)' = LeafNow(e)
<1>1. \A e : LeafNow(e)' = LeafNow(e)
  BY DEF LeafNow
<1>2. Known' = Known
  BY <1>1 DEF Known
<1>3. Shape(tree)'
  BY DEF TreeInv
<1>4. OwnLeaves'
  BY <1>1, <1>2 DEF TreeInv, OwnLeaves
<1> QED BY <1>1, <1>2, <1>3, <1>4

(* A frame begins: a rewind of it would change nothing yet.                 *)
LEMMA BeginFrameInv == ASSUME TreeInv, BeginFrame PROVE TreeInv'
<1> USE DEF BeginFrame
<1>1. Shape(tree)' /\ OwnLeaves'
  BY SameBooks
<1>2. Types' /\ StepsFit'
  BY DEF TreeInv, Types, StepsFit
<1>3. Visited'
  BY DEF Visited
<1>4. UndoFits'
  <2>1. CASE rewinds = MaxRewinds
    BY <2>1 DEF UndoFits
  <2>2. CASE rewinds # MaxRewinds
    <3>1. undo' = <<[pos |-> pos, leafOf |-> leafOf, born |-> {}]>>
      BY <2>2
    <3>2. undo'[1].pos = pos /\ undo'[1].leafOf = leafOf /\ undo'[1].born = {}
      BY <3>1
    <3> QED BY <3>1, <3>2 DEF UndoFits
  <2> QED BY <2>1, <2>2
<1> QED BY <1>1, <1>2, <1>3, <1>4 DEF TreeInv

(* The update phase ends with every entity visited.                         *)
LEMMA EndUpdateInv == ASSUME TreeInv, EndUpdate PROVE TreeInv'
<1> USE DEF EndUpdate
<1>1. Shape(tree)' /\ OwnLeaves' /\ \A e : LeafNow(e)' = LeafNow(e)
  BY SameBooks
<1>2. Types' /\ StepsFit'
  BY DEF TreeInv, Types, StepsFit
<1>3. Visited'
  <2>1. \A e : Around(e)' = Around(e)
    BY DEF Around
  <2> QED BY <1>1, <2>1 DEF TreeInv, Visited
<1>4. UndoFits'
  BY DEF TreeInv, UndoFits
<1> QED BY <1>1, <1>2, <1>3, <1>4 DEF TreeInv

(* The boxes leaves are given are squares around the entity.                *)
LEMMA WideBoxes ==
  ASSUME NEW p \in PointType, NEW R \in Nat
  PROVE  /\ Point(p) \in BoxType /\ Expand(Point(p), R) \in BoxType
         /\ Expand(Point(p), 2 * R) \in BoxType /\ Square(Expand(Point(p), 2 * R), R)
         /\ Included(Expand(Point(p), R), Expand(Point(p), 2 * R))
         /\ Square(Expand(Expand(Point(p), R), R), R)
         /\ Included(Expand(Point(p), R), Expand(Expand(Point(p), R), R))
<1>1. Point(p) \in BoxType
  BY DEF Point, BoxType, PointType
<1>2. \A k \in 1..2 : p[k] \in Int
  BY DEF PointType
<1>3. Expand(Point(p), R) \in BoxType /\ Expand(Point(p), 2 * R) \in BoxType
  BY <1>1, ExpandType
<1>4. \A k \in 1..2 : /\ Expand(Point(p), R)[1][k] = p[k] - R
                      /\ Expand(Point(p), R)[2][k] = p[k] + R
                      /\ Expand(Point(p), 2 * R)[1][k] = p[k] - 2 * R
                      /\ Expand(Point(p), 2 * R)[2][k] = p[k] + 2 * R
  BY DEF Expand, Point
<1>5. \A k \in 1..2 : /\ Expand(Expand(Point(p), R), R)[1][k] = p[k] - R - R
                      /\ Expand(Expand(Point(p), R), R)[2][k] = p[k] + R + R
  BY DEF Expand, Point
<1>6. Square(Expand(Point(p), 2 * R), R) /\ Square(Expand(Expand(Point(p), R), R), R)
  BY <1>2, <1>4, <1>5 DEF Square
<1>7. /\ Included(Expand(Point(p), R), Expand(Point(p), 2 * R))
      /\ Included(Expand(Point(p), R), Expand(Expand(Point(p), R), R))
  BY <1>2, <1>4, <1>5 DEF Included
<1> QED BY <1>1, <1>3, <1>6, <1>7

(* What the entities know is in the tree, and no two share a leaf.          *)
LEMMA KnownLeaves ==
  ASSUME TreeInv
  PROVE  /\ stray \subseteq Leaves(tree) /\ Known \subseteq live /\ live \subseteq Entities
         /\ \A d \in Known : /\ LeafNow(d) \in Leaves(tree) /\ LeafNow(d) # None
                             /\ LeafNow(d) \notin stray /\ tree.nodes[LeafNow(d)].data = d
         /\ \A d, e \in Known : LeafNow(d) = LeafNow(e) => d = e
<1>1. /\ stray \subseteq Leaves(tree)
      /\ \A d \in Known : LeafNow(d) \in Leaves(tree)
  BY DEF TreeInv, OwnLeaves
<1>2. Known \subseteq live /\ live \subseteq Entities /\ \A d \in Known : LeafNow(d) # None
  BY DEF TreeInv, Types, Known
<1>3. \A d \in Known : LeafNow(d) \notin stray /\ tree.nodes[LeafNow(d)].data = d
  BY DEF TreeInv, OwnLeaves
<1>4. \A d, e \in Known : LeafNow(d) = LeafNow(e) => d = e
  BY <1>3
<1> QED BY <1>1, <1>2, <1>3, <1>4

(* The position system on one entity: a new leaf, or its own leaf around it *)
(* again; no other entity is touched.                                       *)
LEMMA UpdateTreeInv ==
  ASSUME TreeInv, NEW e \in Entities, UpdateTree(e)
  PROVE  TreeInv'
<1>1. /\ pc = "update" /\ e \in todo /\ todo' = todo \ {e}
      /\ UNCHANGED <<pos, leafOf, live, gone, pc, undo, rewinds, stray>>
  BY DEF UpdateTree
<1>2. /\ Types /\ StepsFit /\ OwnLeaves /\ Visited /\ UndoFits /\ Shape(tree)
      /\ e \in live /\ steps[e] = None /\ pos[e] \in SpotsOf[e]
  BY <1>1 DEF TreeInv, Types, StepsFit
<1>3. pos[e] \in PointType
  BY <1>2, SpotType
<1>4. /\ Around(e) = Expand(Point(pos[e]), Ray[e]) /\ Around(e) \in BoxType
      /\ Ray[e] \in Nat /\ Ray[e] \in Int
  <2>1. Ray[e] \in Nat
    BY ConstantsAssumption
  <2> QED BY <1>3, <2>1, WideBoxes DEF Around
<1>5. \A d : Around(d)' = Around(d)
  BY <1>1 DEF Around
<1>6. UndoFits'
  BY <1>1, <1>2 DEF UndoFits
<1>7. CASE leafOf[e] = None
  <2> DEFINE i == Allocated(tree)
             b == Expand(Point(pos[e]), 2 * Ray[e])
  <2>1. /\ tree' = AddLeaf(tree, b, e) /\ steps' = [steps EXCEPT ![e] = i]
    BY <1>7 DEF UpdateTree
  <2>2. b \in BoxType /\ Square(b, Ray[e]) /\ Included(Around(e), b)
    BY <1>3, <1>4, WideBoxes
  <2>3. e \in Nat
    BY ConstantsAssumption
  <2> HIDE DEF b, i
  <2>4. /\ Shape(tree)' /\ i \notin Leaves(tree) /\ i # None
        /\ Leaves(tree)' = Leaves(tree) \union {i}
        /\ \A j \in Leaves(tree) : /\ tree'.nodes[j].box = tree.nodes[j].box
                                   /\ tree'.nodes[j].data = tree.nodes[j].data
        /\ tree'.nodes[i].box = b /\ tree'.nodes[i].data = e
    BY <1>2, <2>1, <2>2, <2>3, AddLeafFacts DEF SameEntries, i
  <2>5. i \in Nat
    <3>1. tree.free \in Nat /\ Len(tree.nodes) \in Nat
      BY <1>2, ShapeFacts
    <3> QED BY <3>1 DEF i, Allocated
  <2>6. /\ LeafNow(e) = None /\ LeafNow(e)' = i
        /\ \A d \in Entities : d # e => LeafNow(d)' = LeafNow(d)
    BY <1>1, <1>2, <1>7, <2>1 DEF LeafNow, Types
  <2>7. Known' = Known \union {e} /\ e \notin Known
    BY <1>1, <1>2, <2>4, <2>6 DEF Known, Types
  <2>8. Types' /\ StepsFit'
    <3>1. Types'
      BY <1>1, <1>2, <2>1, <2>5 DEF Types
    <3>2. StepsFit'
      BY <1>1, <1>2, <1>7, <2>1 DEF Types, StepsFit
    <3> QED BY <3>1, <3>2
  <2>9. OwnLeaves'
    <3>1. \A d \in Known : LeafNow(d)' = LeafNow(d)
      BY <1>2, <2>6, <2>7 DEF Known, Types
    <3>2. Leaves(tree)' = {LeafNow(d)' : d \in Known'} \union stray'
      <4>1. {LeafNow(d)' : d \in Known'} = {LeafNow(d) : d \in Known} \union {i}
        BY <2>6, <2>7, <3>1
      <4>2. Leaves(tree) = {LeafNow(d) : d \in Known} \union stray /\ stray' = stray
        BY <1>1, <1>2 DEF OwnLeaves
      <4> QED BY <2>4, <4>1, <4>2
    <3>3. ASSUME NEW d \in Known'
          PROVE  /\ tree'.nodes[LeafNow(d)'].data = d /\ LeafNow(d)' \notin stray'
                 /\ Square(tree'.nodes[LeafNow(d)'].box, Ray[d])
      <4>1. CASE d = e
        <5>1. i \notin stray
          BY <2>4, KnownLeaves
        <5> QED BY <1>1, <2>2, <2>4, <2>6, <4>1, <5>1
      <4>2. CASE d # e
        <5>1. d \in Known /\ LeafNow(d)' = LeafNow(d) /\ LeafNow(d) \in Leaves(tree)
          BY <2>7, <3>1, <4>2, KnownLeaves
        <5>2. /\ tree.nodes[LeafNow(d)].data = d /\ LeafNow(d) \notin stray
              /\ Square(tree.nodes[LeafNow(d)].box, Ray[d])
          BY <1>2, <5>1 DEF OwnLeaves
        <5> QED BY <1>1, <2>4, <5>1, <5>2
      <4> QED BY <4>1, <4>2
    <3> QED BY <3>2, <3>3 DEF OwnLeaves, Square
  <2>10. Visited'
    <3> SUFFICES ASSUME NEW d \in live \ todo'
                 PROVE  LeafNow(d)' # None /\ Included(Around(d), tree'.nodes[LeafNow(d)'].box)
      BY <1>1, <1>5 DEF Visited
    <3>1. CASE d = e
      BY <2>2, <2>4, <2>6, <3>1
    <3>2. CASE d # e
      <4>1. d \in live \ todo /\ d \in Entities
        BY <1>1, <1>2, <3>2 DEF Types
      <4>2. LeafNow(d) # None /\ Included(Around(d), tree.nodes[LeafNow(d)].box)
        BY <1>1, <1>2, <4>1 DEF Visited
      <4>3. d \in Known /\ LeafNow(d)' = LeafNow(d)
        BY <2>6, <3>2, <4>1, <4>2 DEF Known
      <4>4. LeafNow(d) \in Leaves(tree)
        BY <4>3, KnownLeaves
      <4> QED BY <2>4, <4>2, <4>3, <4>4
    <3> QED BY <3>1, <3>2
  <2> QED BY <1>6, <2>4, <2>8, <2>9, <2>10 DEF TreeInv
<1>8. CASE leafOf[e] # None
  <2> DEFINE i == leafOf[e]
  <2>1. /\ tree' = UpdateLeaf(tree, i, Around(e), Ray[e]) /\ steps' = steps
    BY <1>8 DEF UpdateTree
  <2>2. LeafNow(e) = i /\ e \in Known
    BY <1>2, <1>8 DEF LeafNow, Known
  <2>3. i \in Leaves(tree) /\ tree.nodes[i].data = e /\ Square(tree.nodes[i].box, Ray[e])
    BY <1>2, <2>2, KnownLeaves DEF OwnLeaves
  <2>4. Ray[e] \in Int
    BY <1>4
  <2>5. \A d : LeafNow(d)' = LeafNow(d)
    BY <1>1, <2>1 DEF LeafNow
  <2>6. Known' = Known
    BY <1>1, <2>5 DEF Known
  <2> HIDE DEF i
  <2>7. /\ Shape(tree)' /\ Leaves(tree)' = Leaves(tree)
        /\ \A j \in Leaves(tree) \ {i} : /\ tree'.nodes[j].box = tree.nodes[j].box
                                         /\ tree'.nodes[j].data = tree.nodes[j].data
        /\ tree'.nodes[i].data = e
        /\ IF Included(Around(e), tree.nodes[i].box) THEN tree' = tree
           ELSE tree'.nodes[i].box = Expand(Around(e), Ray[e])
    BY <1>2, <1>4, <2>1, <2>3, <2>4, UpdateLeafFacts DEF SameEntries
  <2>8. Square(tree'.nodes[i].box, Ray[e]) /\ Included(Around(e), tree'.nodes[i].box)
    <3>1. CASE Included(Around(e), tree.nodes[i].box)
      BY <2>3, <2>7, <3>1
    <3>2. CASE ~ Included(Around(e), tree.nodes[i].box)
      BY <1>3, <1>4, <2>7, <3>2, WideBoxes
    <3> QED BY <3>1, <3>2
  <2>9. \A d \in Known \ {e} : LeafNow(d) \in Leaves(tree) \ {i}
    BY <2>2, KnownLeaves
  <2>10. Types' /\ StepsFit'
    BY <1>1, <1>2, <2>1 DEF Types, StepsFit
  <2>11. OwnLeaves'
    <3>1. Leaves(tree)' = {LeafNow(d)' : d \in Known'} \union stray'
      <4>1. {LeafNow(d)' : d \in Known'} = {LeafNow(d) : d \in Known}
        BY <2>5, <2>6
      <4>2. Leaves(tree) = {LeafNow(d) : d \in Known} \union stray /\ stray' = stray
        BY <1>1, <1>2 DEF OwnLeaves
      <4> QED BY <2>7, <4>1, <4>2
    <3>2. ASSUME NEW d \in Known'
          PROVE  /\ tree'.nodes[LeafNow(d)'].data = d /\ LeafNow(d)' \notin stray'
                 /\ Square(tree'.nodes[LeafNow(d)'].box, Ray[d])
      <4>1. /\ d \in Known /\ LeafNow(d)' = LeafNow(d) /\ tree.nodes[LeafNow(d)].data = d
            /\ LeafNow(d) \notin stray /\ Square(tree.nodes[LeafNow(d)].box, Ray[d])
        BY <1>2, <2>5, <2>6 DEF OwnLeaves
      <4>2. CASE d = e
        BY <1>1, <2>2, <2>7, <2>8, <4>1, <4>2
      <4>3. CASE d # e
        BY <1>1, <2>7, <2>9, <4>1, <4>3
      <4> QED BY <4>2, <4>3
    <3> QED BY <3>1, <3>2 DEF OwnLeaves, Square
  <2>12. Visited'
    <3> SUFFICES ASSUME NEW d \in live \ todo'
                 PROVE  LeafNow(d)' # None /\ Included(Around(d), tree'.nodes[LeafNow(d)'].box)
      BY <1>1, <1>5 DEF Visited
    <3>1. CASE d = e
      BY <1>8, <2>2, <2>5, <2>8, <3>1 DEF i
    <3>2. CASE d # e
      <4>1. d \in live \ todo
        BY <1>1, <3>2
      <4>2. LeafNow(d) # None /\ Included(Around(d), tree.nodes[LeafNow(d)].box)
        BY <1>1, <1>2, <4>1 DEF Visited
      <4>3. d \in Known \ {e}
        BY <3>2, <4>1, <4>2 DEF Known
      <4> QED BY <2>5, <2>7, <2>9, <4>2, <4>3
    <3> QED BY <3>1, <3>2
  <2> QED BY <1>6, <2>7, <2>10, <2>11, <2>12 DEF TreeInv
<1> QED BY <1>7, <1>8

(* A destruction takes out the leaf the entity knows of, or leaves a stray  *)
(* one behind.                                                              *)
LEMMA DestroyInv ==
  ASSUME TreeInv, NEW e \in Entities, Destroy(e)
  PROVE  TreeInv'
<1>1. /\ pc = "update" /\ todo = {} /\ e \in live
      /\ live' = live \ {e} /\ gone' = gone \union {e}
      /\ tree' = RemoveLeaf(tree, leafOf[e])
      /\ stray' = stray \union ({steps[e]} \ {None})
      /\ UNCHANGED <<pos, leafOf, steps, todo, pc, undo, rewinds>>
  BY DEF Destroy
<1>2. /\ Types /\ StepsFit /\ OwnLeaves /\ Visited /\ UndoFits /\ Shape(tree)
      /\ LeafNow(e) # None
  BY <1>1 DEF TreeInv, Visited
<1>3. /\ \A d : LeafNow(d)' = LeafNow(d)
      /\ \A d : Around(d)' = Around(d)
  BY <1>1 DEF LeafNow, Around
<1>4. e \in Known /\ Known' = Known \ {e}
  BY <1>1, <1>2, <1>3 DEF Known
<1>5. Types' /\ StepsFit'
  BY <1>1, <1>2 DEF Types, StepsFit
<1>6. UndoFits'
  BY <1>1, <1>2 DEF UndoFits
<1>7. /\ Shape(tree)'
      /\ Leaves(tree)' \union {LeafNow(e)} = Leaves(tree) \union stray'
      /\ LeafNow(e) \notin Leaves(tree)' \/ LeafNow(e) \in stray'
      /\ stray' \subseteq stray \union {LeafNow(e)} /\ stray \subseteq stray'
      /\ stray' \subseteq Leaves(tree)'
      /\ \A j \in Leaves(tree) : /\ tree'.nodes[j].box = tree.nodes[j].box
                                 /\ tree'.nodes[j].data = tree.nodes[j].data
  <2>1. stray \subseteq Leaves(tree) /\ LeafNow(e) \in Leaves(tree) /\ LeafNow(e) \notin stray
    BY <1>4, KnownLeaves
  <2>2. CASE leafOf[e] = None
    <3>1. tree' = tree
      BY <1>1, <2>2 DEF RemoveLeaf
    <3>2. steps[e] = LeafNow(e) /\ stray' = stray \union {LeafNow(e)}
      BY <1>1, <1>2, <2>2 DEF LeafNow
    <3> QED BY <1>2, <2>1, <3>1, <3>2
  <2>3. CASE leafOf[e] # None
    <3>1. LeafNow(e) = leafOf[e] /\ steps[e] = None /\ stray' = stray
      BY <1>1, <1>2, <2>3 DEF LeafNow, StepsFit
    <3>2. /\ Shape(tree)' /\ Leaves(tree)' = Leaves(tree) \ {LeafNow(e)}
          /\ \A j \in Leaves(tree) : /\ tree'.nodes[j].box = tree.nodes[j].box
                                     /\ tree'.nodes[j].data = tree.nodes[j].data
      BY <1>1, <1>2, <2>1, <3>1, RemoveFacts DEF SameEntries
    <3> QED BY <2>1, <3>1, <3>2
  <2> QED BY <2>2, <2>3
<1>8. \A d \in Known' : /\ d \in Known /\ LeafNow(d) \in Leaves(tree) /\ LeafNow(d) # LeafNow(e)
                        /\ tree.nodes[LeafNow(d)].data = d /\ LeafNow(d) \notin stray
                        /\ Square(tree.nodes[LeafNow(d)].box, Ray[d])
  BY <1>2, <1>4, KnownLeaves DEF OwnLeaves
<1>9. OwnLeaves'
  <2>1. Leaves(tree)' = {LeafNow(d)' : d \in Known'} \union stray'
    <3>1. {LeafNow(d)' : d \in Known'} = {LeafNow(d) : d \in Known \ {e}}
      BY <1>3, <1>4
    <3>2. Leaves(tree) = {LeafNow(d) : d \in Known \ {e}} \union {LeafNow(e)} \union stray
      BY <1>2, <1>4 DEF OwnLeaves
    <3>3. LeafNow(e) \notin {LeafNow(d) : d \in Known \ {e}}
      BY <1>4, <1>8
    <3> HIDE DEF LeafNow, Known
    <3> DEFINE X == {LeafNow(d) : d \in Known \ {e}}
               L == LeafNow(e)
    <3> HIDE DEF X, L
    <3>4. Leaves(tree) = X \union {L} \union stray /\ L \notin X
      BY <3>2, <3>3 DEF X, L
    <3>5. /\ Leaves(tree)' \union {L} = Leaves(tree) \union stray'
          /\ L \notin Leaves(tree)' \/ L \in stray'
          /\ stray' \subseteq stray \union {L} /\ stray \subseteq stray'
          /\ stray' \subseteq Leaves(tree)'
      BY <1>7 DEF L
    <3>6. Leaves(tree)' = X \union stray'
      BY <3>4, <3>5
    <3> QED BY <3>1, <3>6 DEF X
  <2>2. \A d \in Known' : /\ tree'.nodes[LeafNow(d)'].data = d /\ LeafNow(d)' \notin stray'
                          /\ Square(tree'.nodes[LeafNow(d)'].box, Ray[d])
    BY <1>3, <1>7, <1>8
  <2> QED BY <2>1, <2>2 DEF OwnLeaves, Square
<1>10. Visited'
  <2> SUFFICES ASSUME NEW d \in live \ todo, d # e
               PROVE  LeafNow(d) # None /\ Included(Around(d), tree'.nodes[LeafNow(d)].box)
    BY <1>1, <1>3 DEF Visited
  <2>1. LeafNow(d) # None /\ Included(Around(d), tree.nodes[LeafNow(d)].box)
    BY <1>1, <1>2 DEF Visited
  <2>2. d \in Known'
    BY <1>4, <2>1 DEF Known
  <2> QED BY <1>7, <1>8, <2>1, <2>2
<1> QED BY <1>5, <1>6, <1>7, <1>9, <1>10 DEF TreeInv

(* The steps of the frame are applied: each entity knows the leaf it was    *)
(* about to, and what is noted for a rewind is what was known before.       *)
LEMMA EndFrameInv == ASSUME TreeInv, EndFrame PROVE TreeInv'
<1>1. /\ pc = "query" /\ pc' = "idle"
      /\ leafOf' = [e \in Entities |-> IF steps[e] # None THEN steps[e] ELSE leafOf[e]]
      /\ steps' = [e \in Entities |-> None]
      /\ UNCHANGED <<tree, gone, todo, rewinds, stray>>
  BY DEF EndFrame
<1>2. PICK born \in SUBSET (Entities \ (live \union gone)) :
        /\ live' = live \union born
        /\ undo' = [k \in DOMAIN undo |-> [undo[k] EXCEPT !.born = born]]
        /\ pos' \in Placed(pos, live \union born)
  BY DEF EndFrame
<1>3. /\ Types /\ StepsFit /\ OwnLeaves /\ UndoFits /\ Shape(tree) /\ todo = {}
  BY <1>1 DEF TreeInv, StepsFit
<1>4. /\ \A e \in live' : pos'[e] \in SpotsOf[e]
      /\ live' \subseteq Entities /\ gone' \subseteq Entities \ live'
  BY <1>1, <1>2, <1>3 DEF Types, Placed
<1>5. Types'
  <2>1. leafOf' \in [Entities -> Nat] /\ steps' \in [Entities -> Nat]
    BY <1>1, <1>3 DEF Types, None
  <2> QED BY <1>1, <1>3, <1>4, <2>1 DEF Types
<1>6. \A e \in Entities : /\ leafOf'[e] = (IF steps[e] # None THEN steps[e] ELSE leafOf[e])
                          /\ steps'[e] = None
  BY <1>1
<1>7. StepsFit'
  BY <1>1, <1>2, <1>3, <1>6, <1>4 DEF StepsFit
<1>8. /\ \A e \in live : LeafNow(e)' = LeafNow(e)
      /\ \A e \in born : LeafNow(e)' = None
  BY <1>2, <1>3, <1>6 DEF LeafNow, StepsFit, Types
<1>9. Known' = Known
  BY <1>2, <1>8 DEF Known
<1>10. OwnLeaves'
  <2>1. \A e \in Known : LeafNow(e)' = LeafNow(e)
    BY <1>8 DEF Known
  <2>2. {LeafNow(e)' : e \in Known'} = {LeafNow(e) : e \in Known}
    BY <1>9, <2>1
  <2> QED BY <1>1, <1>3, <1>9, <2>1, <2>2 DEF OwnLeaves, Square
<1>11. Visited'
  BY <1>1 DEF Visited
<1>12. UndoFits'
  <2>1. CASE undo = << >>
    <3>1. undo' = << >>
      BY <1>2, <2>1
    <3> QED BY <3>1 DEF UndoFits
  <2>2. CASE undo # << >>
    <3>1. /\ undo = <<[pos |-> undo[1].pos, leafOf |-> undo[1].leafOf, born |-> undo[1].born]>>
          /\ undo[1].pos = pos /\ undo[1].leafOf = leafOf
      BY <1>1, <1>3, <2>2 DEF UndoFits
    <3>2. undo' = <<[pos |-> pos, leafOf |-> leafOf, born |-> born]>>
      <4>1. DOMAIN undo = {1} /\ undo[1] = [pos |-> pos, leafOf |-> leafOf, born |-> undo[1].born]
        BY <3>1
      <4>2. [undo[1] EXCEPT !.born = born] = [pos |-> pos, leafOf |-> leafOf, born |-> born]
        BY <4>1
      <4>3. undo' = [k \in {1} |-> [pos |-> pos, leafOf |-> leafOf, born |-> born]]
        BY <1>2, <4>1, <4>2
      <4> QED BY <4>3
    <3>3. undo'[1].pos = pos /\ undo'[1].leafOf = leafOf /\ undo'[1].born = born
      BY <3>2
    <3>4. live' \ born = live
      BY <1>2
    <3>5. \A e \in live : pos[e] \in SpotsOf[e] /\ leafOf[e] \in {leafOf'[e], None}
      BY <1>3, <1>6 DEF Types, StepsFit
    <3>6. \A e \in Entities \ (live \union gone') : leafOf[e] = None
      BY <1>1, <1>3 DEF StepsFit
    <3>7. leafOf \in [Entities -> Nat]
      BY <1>3 DEF Types
    <3> QED BY <1>1, <3>2, <3>3, <3>4, <3>5, <3>6, <3>7 DEF UndoFits
  <2> QED BY <2>1, <2>2
<1>13. Shape(tree)'
  BY <1>1, <1>3
<1> QED BY <1>5, <1>7, <1>10, <1>11, <1>12, <1>13 DEF TreeInv

(* A rewind: an entity has its leaf still, or has lost it to the stray      *)
(* ones.                                                                    *)
LEMMA RewindInv == ASSUME TreeInv, Rewind PROVE TreeInv'
<1> DEFINE old == undo[1].leafOf
           born == undo[1].born
           lost == {leafOf[e] : e \in {d \in live : leafOf[d] # old[d]}}
<1>1. /\ pc = "idle" /\ undo # << >>
      /\ pos' = undo[1].pos /\ leafOf' = old /\ live' = live \ born
      /\ stray' = stray \union lost /\ undo' = << >>
      /\ UNCHANGED <<tree, steps, gone, todo, pc>>
  BY DEF Rewind
<1>2. /\ Types /\ StepsFit /\ OwnLeaves /\ UndoFits /\ Shape(tree) /\ todo = {}
      /\ \A e \in Entities : steps[e] = None
  BY <1>1 DEF TreeInv, StepsFit
<1>3. /\ old \in [Entities -> Nat]
      /\ \A e \in live \ born : undo[1].pos[e] \in SpotsOf[e] /\ old[e] \in {leafOf[e], None}
      /\ \A e \in Entities \ ((live \ born) \union gone) : old[e] = None
  BY <1>1, <1>2 DEF UndoFits
<1> HIDE DEF old, born
<1>4. \A e \in live : old[e] \in {leafOf[e], None}
  BY <1>2, <1>3 DEF Types
<1>5. \A e \in live : LeafNow(e) = leafOf[e] /\ LeafNow(e)' = old[e]
  BY <1>1, <1>2 DEF LeafNow, Types
<1>6. /\ Known = {e \in live : leafOf[e] # None}
      /\ Known' = {e \in live \ born : old[e] # None}
  BY <1>1, <1>5 DEF Known
<1>7. \A e \in Known' : e \in Known /\ LeafNow(e)' = LeafNow(e) /\ LeafNow(e) = leafOf[e] /\ old[e] = leafOf[e]
  BY <1>4, <1>5, <1>6
<1>8. Types'
  BY <1>1, <1>2, <1>3 DEF Types
<1>9. StepsFit'
  BY <1>1, <1>2, <1>3 DEF StepsFit, Types
<1>10. \A e \in live : leafOf[e] # old[e] <=> (e \in Known /\ e \notin Known')
  <2> SUFFICES ASSUME NEW e \in live PROVE leafOf[e] # old[e] <=> (e \in Known /\ e \notin Known')
    OBVIOUS
  <2>1. leafOf[e] # old[e] => old[e] = None /\ leafOf[e] # None
    BY <1>4
  <2>2. e \in born => old[e] = None
    BY <1>2, <1>3 DEF Types
  <2> QED BY <1>6, <1>7, <2>1, <2>2
<1>11. OwnLeaves'
  <2>1. Leaves(tree) = {LeafNow(e) : e \in Known} \union stray
    BY <1>2 DEF OwnLeaves
  <2>2. {LeafNow(e) : e \in Known} = {LeafNow(e)' : e \in Known'} \union lost
    <3>1. \A x : x \in lost <=> \E e \in Known : e \notin Known' /\ x = LeafNow(e)
      BY <1>5, <1>6, <1>10
    <3> HIDE DEF lost
    <3>2. \A x : x \in {LeafNow(e) : e \in Known} <=> \E e \in Known : x = LeafNow(e)
      OBVIOUS
    <3>3. \A x : x \in {LeafNow(e)' : e \in Known'} <=> \E e \in Known' : x = LeafNow(e)
      BY <1>7
    <3> QED BY <1>7, <3>1, <3>2, <3>3
  <2>3. Leaves(tree)' = {LeafNow(e)' : e \in Known'} \union stray'
    BY <1>1, <2>1, <2>2
  <2>4. ASSUME NEW d \in Known'
        PROVE  /\ tree'.nodes[LeafNow(d)'].data = d /\ LeafNow(d)' \notin stray'
               /\ Square(tree'.nodes[LeafNow(d)'].box, Ray[d])
    <3>1. /\ d \in Known /\ LeafNow(d)' = LeafNow(d) /\ tree.nodes[LeafNow(d)].data = d
          /\ LeafNow(d) \notin stray /\ Square(tree.nodes[LeafNow(d)].box, Ray[d])
      BY <1>2, <1>7 DEF OwnLeaves
    <3>2. LeafNow(d) \notin lost
      <4> SUFFICES ASSUME NEW e \in live, leafOf[e] # old[e], LeafNow(d) = leafOf[e] PROVE FALSE
        OBVIOUS
      <4>1. e \in Known /\ e \notin Known' /\ LeafNow(e) = LeafNow(d)
        BY <1>5, <1>10
      <4> QED BY <3>1, <4>1, KnownLeaves
    <3> QED BY <1>1, <3>1, <3>2
  <2> QED BY <2>3, <2>4 DEF OwnLeaves, Square
<1>12. Visited' /\ UndoFits'
  BY <1>1 DEF Visited, UndoFits
<1> QED BY <1>1, <1>2, <1>8, <1>9, <1>11, <1>12 DEF TreeInv

(* Every step keeps the invariant.                                          *)
LEMMA NextInv == ASSUME TreeInv, [Next]_vars PROVE TreeInv'
<1>1. CASE BeginFrame
  BY <1>1, BeginFrameInv
<1>2. CASE EndUpdate
  BY <1>2, EndUpdateInv
<1>3. CASE EndFrame
  BY <1>3, EndFrameInv
<1>4. CASE Rewind
  BY <1>4, RewindInv
<1>5. ASSUME NEW e \in Entities, UpdateTree(e) PROVE TreeInv'
  BY <1>5, UpdateTreeInv
<1>6. ASSUME NEW e \in Entities, Destroy(e) PROVE TreeInv'
  BY <1>6, DestroyInv
<1>7. CASE UNCHANGED vars
  <2> USE <1>7 DEF vars
  <2>1. Shape(tree)' /\ OwnLeaves' /\ \A e : LeafNow(e)' = LeafNow(e)
    BY SameBooks
  <2>2. Types' /\ StepsFit' /\ UndoFits'
    BY DEF TreeInv, Types, StepsFit, UndoFits
  <2>3. Visited'
    <3>1. \A e : Around(e)' = Around(e)
      BY DEF Around
    <3> QED BY <2>1, <3>1 DEF TreeInv, Visited
  <2> QED BY <2>1, <2>2, <2>3 DEF TreeInv
<1> QED BY <1>1, <1>2, <1>3, <1>4, <1>5, <1>6, <1>7 DEF Next

(* The invariant of the collision tree and its users holds for all          *)
(* entities, spots, rays, ranges and numbers of rewinds.                    *)
THEOREM TreeInvHolds == Spec => []TreeInv
<1>1. Init => TreeInv
  BY InitInv
<1>2. TreeInv /\ [Next]_vars => TreeInv'
  BY NextInv
<1> QED BY <1>1, <1>2, PTL DEF Spec

(* aabb_tree: whatever is added, updated and removed, the nodes below the   *)
(* root are a binary tree with links that agree, boxes and heights that     *)
(* fit, and no free node among them; the free list holds every free node    *)
(* and ends.                                                                *)
THEOREM WellFormedHolds == Spec => []WellFormed
<1>1. TreeInv => WellFormed
  <2> SUFFICES ASSUME Shape(tree) PROVE WellFormed
    BY DEF TreeInv
  <2> DEFINE nodes == tree.nodes
             inside == Inside(tree)
  <2>1. /\ tree \in TreeType /\ IsTree(nodes, tree.root, inside) /\ LeavesBare(nodes, inside)
        /\ \A j \in Inner(nodes, inside) : Fit(nodes, j)
        /\ FreeList(nodes, tree.free)
    BY DEF Shape, InShape
  <2>2. tree.root # None => tree.root \in inside /\ nodes[tree.root].parent = None
    BY <2>1 DEF IsTree
  <2>3. /\ Free(tree) = {i \in DOMAIN nodes : nodes[i].height = -1}
        /\ Up(nodes, tree.free)[Len(nodes)] = None
    BY <2>1, FreeListIsUp DEF FreeSet
  <2>4. inside \intersect Free(tree) = {}
    BY <2>1, FreeListIsUp, ShapeFacts
  <2> HIDE DEF inside
  <2>5. ASSUME NEW i \in inside
        PROVE  IF IsLeaf(nodes[i]) THEN nodes[i].left = None /\ nodes[i].right = None
               ELSE LET l == nodes[i].left
                        r == nodes[i].right
                    IN /\ {l, r} \subseteq inside /\ l # r
                       /\ nodes[l].parent = i /\ nodes[r].parent = i
                       /\ nodes[i].box = Union(nodes[l].box, nodes[r].box)
                       /\ nodes[i].height = 1 + Max({nodes[l].height, nodes[r].height})
    <3>1. None \notin inside
      <4>1. None \notin DOMAIN nodes
        BY <2>1, NoneOutside DEF TreeType
      <4> QED BY <2>1, <4>1 DEF IsTree
    <3>2. CASE IsLeaf(nodes[i])
      BY <2>1, <3>1, <3>2 DEF LeavesBare, IsTree
    <3>3. CASE ~ IsLeaf(nodes[i])
      <4>1. nodes[i].left # None /\ Fit(nodes, i)
        BY <2>1, <3>3 DEF LeavesBare, Inner
      <4>2. /\ nodes[i].left \in inside /\ nodes[i].right \in inside /\ nodes[i].left # nodes[i].right
            /\ nodes[nodes[i].left].parent = i /\ nodes[nodes[i].right].parent = i
        BY <2>1, <4>1 DEF IsTree
      <4> QED BY <3>3, <4>1, <4>2 DEF Fit
    <3> QED BY <3>2, <3>3
  <2> QED BY <2>2, <2>3, <2>4, <2>5 DEF WellFormed, inside
<1> QED BY <1>1, TreeInvHolds, PTL

(* PositionInTree and the tree agree: each entity has its one leaf, after   *)
(* any destructions and rewinds.                                            *)
THEOREM OneLeafEachHolds == Spec => []OneLeafEach
<1>1. TreeInv => OneLeafEach
  BY DEF TreeInv, OwnLeaves, OneLeafEach, Known, LeafNow
<1> QED BY <1>1, TreeInvHolds, PTL

(* get_closest_entities: an entity within the range of a query is found by  *)
(* it.                                                                      *)
THEOREM QueriesCompleteHolds == Spec => []QueriesComplete
<1>1. TreeInv => QueriesComplete
  <2> SUFFICES ASSUME TreeInv, pc = "query", Fits(tree), NEW e \in live, NEW c \in Spots, NEW range \in Ranges,
                      SquareDistance(c, pos[e]) <= range * range
               PROVE  \E i \in InCircle(tree, c, range) : tree.nodes[i].data = e
    BY DEF QueriesComplete
  <2>1. e \in Entities /\ pos[e] \in SpotsOf[e] /\ todo = {} /\ Shape(tree) /\ OwnLeaves
    BY DEF TreeInv, Types, StepsFit
  <2>2. pos[e] \in PointType /\ c \in PointType
    BY <2>1, SpotType DEF Spots
  <2>3. range \in Nat /\ Ray[e] \in Nat
    BY <2>1, ConstantsAssumption
  <2> DEFINE i == LeafNow(e)
             D == tree.nodes[i].box
             box == Expand(Point(c), range)
  <2>4. e \in Known /\ Included(Expand(Point(pos[e]), Ray[e]), D)
    BY <2>1 DEF TreeInv, Visited, Known, Around
  <2>5. i \in Leaves(tree) /\ tree.nodes[i].data = e /\ Square(D, Ray[e])
    BY <2>1, <2>4, KnownLeaves DEF OwnLeaves
  <2>6. D \in BoxType
    <3>1. tree.nodes[i] \in NodeType
      BY <2>1, <2>5, ShapeFacts DEF Leaves
    <3> QED BY <3>1 DEF NodeType
  <2> HIDE DEF i
  <2>7. /\ Overlap(D, box)
        /\ SquareDistance([k \in 1..2 |-> 2 * c[k]], Center2(D))
             <= (LargestSide(D) + 2 * range) * (LargestSide(D) + 2 * range)
    BY <2>2, <2>3, <2>4, <2>5, <2>6, CircleMeets
  <2>8. box \in BoxType
    <3>1. Point(c) \in BoxType
      BY <2>2, WideBoxes
    <3> QED BY <2>3, <3>1, ExpandType
  <2>9. i \in Reached(tree, box)
    BY <2>1, <2>5, <2>7, <2>8, QueryReaches
  <2>10. i \in InCircle(tree, c, range)
    BY <2>7, <2>9 DEF InCircle
  <2> QED BY <2>5, <2>10
<1> QED BY <1>1, TreeInvHolds, PTL

(* What the index sees of a tree.                                           *)
Entries(t) == [i \in Leaves(t) |-> [box |-> t.nodes[i].box, data |-> t.nodes[i].data]]

(* Leaves with the same boxes and data are the same entries.                *)
LEMMA EntriesKept ==
  ASSUME NEW t, NEW s, NEW S, S \subseteq Leaves(t), S \subseteq Leaves(s), SameEntries(t, s, S)
  PROVE  Restrict(Entries(s), S) = Restrict(Entries(t), S)
<1>1. \A i \in S : Entries(s)[i] = Entries(t)[i]
  BY DEF Entries, SameEntries
<1>2. [i \in S |-> Entries(s)[i]] = [i \in S |-> Entries(t)[i]]
  BY <1>1
<1> QED BY <1>2 DEF Restrict

(* All of the entries are the entries.                                      *)
LEMMA RestrictAll == ASSUME NEW t PROVE Restrict(Entries(t), Leaves(t)) = Entries(t)
BY DEF Restrict, Entries

(* Every step is one of the index, or leaves the entries as they are.       *)
LEMMA IndexStep == ASSUME TreeInv, [Next]_vars PROVE [Index!Next]_(Entries(tree))
<1> DEFINE E == Entries(tree)
<1>1. DOMAIN E = Leaves(tree) /\ DOMAIN E' = Leaves(tree)'
  BY DEF Entries
<1> HIDE DEF E
<1>6. /\ (\E i \in DOMAIN E' \ DOMAIN E : /\ DOMAIN E' = DOMAIN E \union {i}
                                          /\ Restrict(E', DOMAIN E) = E) => Index!Add
      /\ (/\ DOMAIN E' = DOMAIN E
          /\ \E i \in DOMAIN E :
               /\ E'[i].data = E[i].data
               /\ Restrict(E', DOMAIN E \ {i}) = Restrict(E, DOMAIN E \ {i})) => Index!Rebox
      /\ (\E i \in DOMAIN E : E' = Restrict(E, DOMAIN E \ {i})) => Index!Remove
  <2>1. \A f, S : Index!Restrict(f, S) = Restrict(f, S)
    BY DEF Index!Restrict, Restrict
  <2>2. /\ E = [i \in Leaves(tree) |-> [box |-> tree.nodes[i].box, data |-> tree.nodes[i].data]]
        /\ E' = [i \in Leaves(tree) |-> [box |-> tree.nodes[i].box, data |-> tree.nodes[i].data]]'
    BY DEF E, Entries
  <2> QED BY <2>1, <2>2 DEF Index!Add, Index!Rebox, Index!Remove, Index!Others
<1>2. ASSUME UNCHANGED tree PROVE UNCHANGED E
  BY <1>2 DEF E, Entries
<1>3. ASSUME NEW e \in Entities, UpdateTree(e) PROVE Index!Next \/ UNCHANGED E
  <2>1. /\ e \in todo /\ e \in live /\ Shape(tree) /\ pos[e] \in PointType /\ e \in Nat
        /\ leafOf[e] = None \/ leafOf[e] = LeafNow(e)
    BY <1>3, SpotType, ConstantsAssumption DEF TreeInv, Types, UpdateTree, LeafNow
  <2>2. Around(e) \in BoxType /\ Expand(Point(pos[e]), 2 * Ray[e]) \in BoxType /\ Ray[e] \in Int
    <3>1. Ray[e] \in Nat
      BY ConstantsAssumption
    <3> QED BY <2>1, <3>1, WideBoxes DEF Around
  <2>3. CASE leafOf[e] = None
    <3> DEFINE i == Allocated(tree)
               b == Expand(Point(pos[e]), 2 * Ray[e])
    <3>1. tree' = AddLeaf(tree, b, e)
      BY <1>3, <2>3 DEF UpdateTree
    <3> HIDE DEF i, b
    <3>2. /\ i \notin Leaves(tree) /\ Leaves(tree)' = Leaves(tree) \union {i}
          /\ SameEntries(tree, tree', Leaves(tree))
      BY <2>1, <2>2, <3>1, AddLeafFacts DEF i, b
    <3>3. Restrict(E', DOMAIN E) = E
      <4>1. Restrict(Entries(tree'), Leaves(tree)) = Restrict(Entries(tree), Leaves(tree))
        BY <3>2, EntriesKept
      <4> QED BY <1>1, <4>1, RestrictAll DEF E
    <3>4. Index!Add
      BY <1>1, <1>6, <3>2, <3>3
    <3> QED BY <3>4 DEF Index!Next
  <2>4. CASE leafOf[e] # None
    <3> DEFINE i == leafOf[e]
    <3>1. tree' = UpdateLeaf(tree, i, Around(e), Ray[e])
      BY <1>3, <2>4 DEF UpdateTree
    <3>2. i \in Leaves(tree)
      <4>1. e \in Known
        BY <2>1, <2>4 DEF Known
      <4> QED BY <2>1, <2>4, <4>1, KnownLeaves
    <3> HIDE DEF i
    <3>3. /\ Leaves(tree)' = Leaves(tree)
          /\ SameEntries(tree, tree', Leaves(tree) \ {i})
          /\ tree'.nodes[i].data = tree.nodes[i].data
      BY <2>1, <2>2, <3>1, <3>2, UpdateLeafFacts
    <3>4. E'[i].data = E[i].data
      BY <3>2, <3>3 DEF E, Entries
    <3>5. Restrict(Entries(tree'), Leaves(tree) \ {i}) = Restrict(Entries(tree), Leaves(tree) \ {i})
      BY <3>3, EntriesKept
    <3>6. Index!Rebox
      BY <1>1, <1>6, <3>2, <3>3, <3>4, <3>5 DEF E
    <3> QED BY <3>6 DEF Index!Next
  <2> QED BY <2>3, <2>4
<1>4. ASSUME NEW e \in Entities, Destroy(e) PROVE Index!Next \/ UNCHANGED E
  <2>1. Shape(tree) /\ e \in live /\ tree' = RemoveLeaf(tree, leafOf[e])
    BY <1>4 DEF TreeInv, Destroy
  <2>2. CASE leafOf[e] = None
    <3>1. UNCHANGED tree
      BY <2>1, <2>2 DEF RemoveLeaf
    <3> QED BY <1>2, <3>1
  <2>3. CASE leafOf[e] # None
    <3> DEFINE i == leafOf[e]
    <3>1. i \in Leaves(tree)
      <4>1. LeafNow(e) = i /\ e \in Known
        BY <2>1, <2>3 DEF Known, LeafNow
      <4> QED BY <4>1, KnownLeaves
    <3> HIDE DEF i
    <3>2. Leaves(tree)' = Leaves(tree) \ {i} /\ SameEntries(tree, tree', Leaves(tree) \ {i})
      BY <2>1, <3>1, RemoveFacts DEF SameEntries, i
    <3>3. Restrict(Entries(tree'), Leaves(tree) \ {i}) = Restrict(Entries(tree), Leaves(tree) \ {i})
      BY <3>2, EntriesKept
    <3>4. E' = Restrict(E, DOMAIN E \ {i})
      BY <1>1, <3>2, <3>3, RestrictAll DEF E
    <3>5. Index!Remove
      BY <1>1, <1>6, <3>1, <3>4
    <3> QED BY <3>5 DEF Index!Next
  <2> QED BY <2>2, <2>3
<1>5. CASE BeginFrame \/ EndUpdate \/ EndFrame \/ Rewind \/ UNCHANGED vars
  BY <1>2, <1>5 DEF BeginFrame, EndUpdate, EndFrame, Rewind, vars
<1> QED BY <1>3, <1>4, <1>5 DEF Next, E

(* The collision tree implements SpatialIndex: no operation on one leaf     *)
(* loses another or changes its box.                                        *)
THEOREM RefinesIndex == Spec => IndexSpec
<1>1. Init => Index!Init
  <2> SUFFICES ASSUME Init PROVE Index!Init
    OBVIOUS
  <2>1. Leaves(tree) = {}
    BY EmptyShape DEF Init
  <2> QED BY <2>1 DEF Index!Init
<1>2. TreeInv /\ [Next]_vars => [Index!Next]_(Entries(tree))
  BY IndexStep
<1> QED BY <1>1, <1>2, TreeInvHolds, PTL DEF Spec, IndexSpec, Index!Spec, Entries
=============================================================================
