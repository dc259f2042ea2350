--------------------------- MODULE PathCacheProofs ---------------------------
(***************************************************************************)
(* Proofs about PathCache, for all grids, requests and numbers of tiles:   *)
(* the tables keep their shape, what they hold leads to the destination, a *)
(* line of sight crosses no tile that is taken, and the paths cost the     *)
(* least.                                                                  *)
(***************************************************************************)
EXTENDS PathCache, Sums, TLAPS

(* The constants are numbers, and there are finitely many tiles.            *)
LEMMA Numbers ==
  /\ Width \in Nat /\ Width > 0 /\ NbTiles \in Nat /\ NbTiles > 0
  /\ \A t \in Tiles : t \in Nat /\ t < NbTiles
  /\ \A t \in Nat : t < NbTiles => t \in Tiles
  /\ Far \in Nat /\ Far \notin Tiles
  /\ IsFiniteSet(Tiles) /\ Cardinality(Tiles) = NbTiles
<1>1. Width \in Nat /\ Width > 0 /\ NbTiles \in Nat /\ NbTiles > 0
  BY ConstantsAssumption DEF ConstantsAssumption
<1>2. IsFiniteSet(0 .. NbTiles - 1) /\ Cardinality(0 .. NbTiles - 1) = NbTiles
  <2>1. 0 \in Int /\ NbTiles - 1 \in Int /\ ~ (0 > NbTiles - 1) /\ (NbTiles - 1) - 0 + 1 = NbTiles
    BY <1>1
  <2> QED BY <2>1, FS_Interval
<1> QED BY <1>1, <1>2 DEF Tiles, Far

(* Distances between tiles are integers.                                    *)
LEMMA DistanceInt == \A a, b \in Tiles : Distance(a, b) \in Int
<1> SUFFICES ASSUME NEW a \in Tiles, NEW b \in Tiles PROVE Distance(a, b) \in Int
  OBVIOUS
<1>1. /\ a \in Nat /\ b \in Nat /\ Width \in Nat /\ Width > 0
  BY Numbers
<1>2. a % Width \in Int /\ b % Width \in Int /\ a \div Width \in Int /\ b \div Width \in Int
  BY <1>1
<1> QED BY <1>2 DEF Distance, Column, Row, Abs

-----------------------------------------------------------------------------
(* A table leads to its destination: what follows a tile has an entry too,  *)
(* and some number gets less from each tile to the next.                    *)
Leads(next, d, rank) ==
  \A t \in Tiles : next[t] # Far /\ t # d =>
    next[next[t]] # Far /\ rank[next[t]] < rank[t]
LeadsTo(next, d) == \E rank \in [Tiles -> Nat] : Leads(next, d, rank)

NextType == [Tiles -> Tiles \union {Far}]

(* Where compute_path looks, there are tiles. *)
LEMMA NeighborTypes ==
  ASSUME indexes \in [Tiles -> NextType], NEW d \in Tiles, NEW t \in Tiles
  PROVE  Neighbors(t, d) \subseteq Tiles
BY DEF Neighbors, HasPath, NextType

(* A set of tiles that holds the neighbours of its tiles holds the          *)
(* destination: entries lead to it, and without them all tiles are          *)
(* connected.                                                               *)
LEMMA Connected ==
  ASSUME indexes \in [Tiles -> NextType], NEW d \in Tiles, LeadsTo(indexes[d], d),
         NEW S \in SUBSET Tiles, S # {}, \A t \in S : Neighbors(t, d) \subseteq S
  PROVE  d \in S
<1> SUFFICES ASSUME d \notin S PROVE FALSE
  OBVIOUS
<1>0. indexes[d] \in NextType
  OBVIOUS
<1>1. IsFiniteSet(S)
  BY Numbers, FS_Subset
<1>2. CASE \E t \in S : HasPath(t, d)
  <2> DEFINE H == {t \in S : HasPath(t, d)}
  <2>1. PICK rank \in [Tiles -> Nat] : Leads(indexes[d], d, rank)
    BY DEF LeadsTo
  <2> DEFINE f == [t \in H |-> 0 - rank[t]]
  <2>2. H # {} /\ IsFiniteSet(H) /\ H \subseteq Tiles
    <3>1. IsFiniteSet(H)
      BY <1>1, FS_Subset
    <3> QED BY <1>2, <3>1
  <2>3. \A t \in H : f[t] \in Int /\ f[t] = 0 - rank[t] /\ rank[t] \in Nat
    BY <2>1, <2>2
  <2> HIDE DEF H, f
  <2>4. PICK t \in H : \A u \in H : f[t] >= f[u]
    BY <2>2, <2>3, HasMaxOver
  <2>5. t \in S /\ t \in Tiles /\ t # d /\ indexes[d][t] # Far
    BY <2>4 DEF H, HasPath
  <2>6. indexes[d][t] \in S
    BY <2>5 DEF Neighbors, HasPath
  <2>7. indexes[d][indexes[d][t]] # Far /\ rank[indexes[d][t]] < rank[t]
    BY <2>1, <2>5 DEF Leads
  <2>8. indexes[d][t] \in H
    BY <2>6, <2>7 DEF H, HasPath
  <2> QED BY <2>3, <2>4, <2>7, <2>8
<1>3. CASE \A t \in S : ~ HasPath(t, d)
  <2> DEFINE f == [t \in S |-> IF t < d THEN t - d ELSE d - t]
  <2>1. \A t \in S : f[t] \in Int /\ f[t] = IF t < d THEN t - d ELSE d - t
    BY Numbers
  <2> HIDE DEF f
  <2>2. PICK t \in S : \A u \in S : f[t] >= f[u]
    BY <1>1, <2>1, HasMaxOver
  <2>3. t \in Nat /\ d \in Nat /\ t # d /\ t \in Tiles /\ d < NbTiles /\ t < NbTiles /\ NbTiles \in Nat
    BY <2>2, Numbers
  <2>4. {t - 1, t + 1} \intersect Tiles \subseteq S
    <3>1. Neighbors(t, d) \subseteq S
      BY <2>2
    <3> QED BY <1>3, <2>2, <3>1 DEF Neighbors
  <2>5. CASE t < d
    <3>1. t + 1 \in Tiles
      BY <2>3, <2>5, Numbers
    <3>2. t + 1 \in S
      BY <2>4, <3>1
    <3> QED BY <2>1, <2>2, <2>3, <2>5, <3>2
  <2>6. CASE ~ (t < d)
    <3>1. t - 1 \in Tiles
      <4>1. t - 1 \in Nat /\ t - 1 < NbTiles
        BY <2>3, <2>6
      <4> QED BY <4>1, Numbers
    <3>2. t - 1 \in S
      BY <2>4, <3>1
    <3> QED BY <2>1, <2>2, <2>3, <2>6, <3>2
  <2> QED BY <2>5, <2>6
<1> QED BY <1>2, <1>3

-----------------------------------------------------------------------------
(* The labels of a search. *)
LabelType == [open : SUBSET Tiles, closed : SUBSET Tiles,
              cost : [Tiles -> Int], prev : [Tiles -> Tiles]]

(* The next tile to expand is one of the opened. *)
LEMMA ClosestOpen ==
  ASSUME NEW s \in LabelType, s.open # {}, NEW d \in Tiles
  PROVE  /\ Closest(s, d) \in s.open
         /\ \A u \in s.open : Estimate(s, Closest(s, d), d) <= Estimate(s, u, d)
<1>1. s.open \subseteq Tiles /\ IsFiniteSet(s.open)
  BY Numbers, FS_Subset DEF LabelType
<1>2. \A t \in s.open : Estimate(s, t, d) \in Int
  BY <1>1, DistanceInt DEF LabelType, Estimate
<1> DEFINE f == [t \in s.open |-> 0 - Estimate(s, t, d)]
<1>3. \A t \in s.open : f[t] \in Int /\ f[t] = 0 - Estimate(s, t, d)
  BY <1>2
<1> HIDE DEF f
<1>4. PICK low \in s.open : \A u \in s.open : f[low] >= f[u]
  BY <1>1, <1>3, HasMaxOver
<1> DEFINE L == {t \in s.open : Estimate(s, t, d) = Estimate(s, low, d)}
           g == [t \in L |-> 0 - t]
<1>5. L # {} /\ IsFiniteSet(L) /\ L \subseteq s.open
  <2>1. IsFiniteSet(L)
    BY <1>1, FS_Subset
  <2> QED BY <1>4, <2>1
<1>6. \A t \in L : g[t] \in Int /\ g[t] = 0 - t /\ t \in Nat
  BY <1>1, <1>5, Numbers
<1> HIDE DEF g
<1>7. PICK t \in L : \A u \in L : g[t] >= g[u]
  <2> HIDE DEF L
  <2> QED BY <1>5, <1>6, HasMaxOver
<1>8. t \in s.open /\ t \in Nat /\ Estimate(s, t, d) = Estimate(s, low, d)
  BY <1>6, <1>7
<1>9. ASSUME NEW u \in s.open
      PROVE  \/ Estimate(s, t, d) < Estimate(s, u, d)
             \/ Estimate(s, t, d) = Estimate(s, u, d) /\ t <= u
  <2>1. f[low] >= f[u] /\ f[low] = 0 - Estimate(s, low, d) /\ f[u] = 0 - Estimate(s, u, d)
    BY <1>3, <1>4
  <2>2. Estimate(s, low, d) <= Estimate(s, u, d)
    BY <1>2, <2>1
  <2>3. CASE Estimate(s, u, d) = Estimate(s, low, d)
    <3>1. u \in L
      BY <2>3
    <3>2. g[t] >= g[u] /\ g[t] = 0 - t /\ g[u] = 0 - u /\ u \in Nat
      BY <1>6, <1>7, <3>1
    <3> QED BY <1>8, <2>3, <3>2
  <2>4. CASE Estimate(s, u, d) # Estimate(s, low, d)
    BY <1>2, <1>8, <2>2, <2>4
  <2> QED BY <2>3, <2>4
<1>10. \E v \in s.open : \A u \in s.open :
         \/ Estimate(s, v, d) < Estimate(s, u, d)
         \/ Estimate(s, v, d) = Estimate(s, u, d) /\ v <= u
  BY <1>8, <1>9
<1>11. PICK v \in s.open : v = Closest(s, d) /\ \A u \in s.open :
          \/ Estimate(s, v, d) < Estimate(s, u, d)
          \/ Estimate(s, v, d) = Estimate(s, u, d) /\ v <= u
  BY <1>10 DEF Closest
<1>12. \A u \in s.open : Estimate(s, v, d) <= Estimate(s, u, d)
  BY <1>2, <1>11
<1> QED BY <1>11, <1>12

(* What holds of the labels once k tiles are expanded: the closed ones have *)
(* been left through all their neighbours, and predecessors are closed      *)
(* before their tiles are.                                                  *)
Precede(s, o, age) ==
  \A t \in s.closed : t # o => age[s.prev[t]] < age[t]

Searched(s, o, d, k) ==
  /\ s \in LabelType
  /\ o \in s.open \union s.closed
  /\ s.open \intersect s.closed = {} /\ d \notin s.closed
  /\ \A t \in s.closed : Neighbors(t, d) \subseteq s.open \union s.closed
  /\ \A t \in s.open \union s.closed : t # o => s.prev[t] \in s.closed
  /\ \E age \in [Tiles -> Nat] :
       (\A t \in s.closed : age[t] < k) /\ Precede(s, o, age)
  /\ Found(s, d) \/ Cardinality(s.closed) = k

(* The labels of compute_path before its loop.                              *)
LEMMA SearchBegins ==
  ASSUME NEW o \in Tiles, NEW d \in Tiles
  PROVE  Searched(FirstLabels(o), o, d, 0)
<1> DEFINE s == FirstLabels(o)
<1>1. /\ s.open = {o} /\ s.closed = {} /\ s \in LabelType
  <2>1. 0 \in Tiles
    BY Numbers
  <2> QED BY <2>1 DEF FirstLabels, LabelType
<1> HIDE DEF s
<1>2. [t \in Tiles |-> 0] \in [Tiles -> Nat]
  OBVIOUS
<1>3. Cardinality(s.closed) = 0
  BY <1>1, FS_EmptySet
<1> QED BY <1>1, <1>2, <1>3 DEF Searched, Precede, s

(* One turn of the loop of compute_path: the closest tile is closed, and    *)
(* its neighbours are opened or get a better predecessor.                   *)
LEMMA SearchExpands ==
  ASSUME indexes \in [Tiles -> NextType], NEW o \in Tiles, NEW d \in Tiles, NEW k \in Nat,
         NEW s, Searched(s, o, d, k), ~ Found(s, d)
  PROVE  Searched(Expand(s, d), o, d, k + 1)
<1> DEFINE cur == Closest(s, d)
           Reached(t) == s.cost[cur] + Cost(t)
           better == {t \in Neighbors(cur, d) \ s.closed :
                        t \notin s.open \union {cur} \/ s.cost[t] > Reached(t)}
           new == Expand(s, d)
<1>1. /\ s \in LabelType /\ s.open \subseteq Tiles /\ s.closed \subseteq Tiles
      /\ s.cost \in [Tiles -> Int] /\ s.prev \in [Tiles -> Tiles]
      /\ cur \in s.open /\ cur \in Tiles /\ cur # d /\ cur \notin s.closed
  <2>1. s \in LabelType /\ s.open # {} /\ cur # d /\ s.open \intersect s.closed = {}
    BY DEF Searched, Found
  <2>2. cur \in s.open
    BY <2>1, ClosestOpen
  <2> HIDE DEF cur
  <2> QED BY <2>1, <2>2 DEF LabelType
<1>2. \A t \in Tiles : Cost(t) \in Int /\ Cost(t) > 0
  BY Numbers DEF Cost
<1>3. Neighbors(cur, d) \subseteq Tiles
  BY <1>1, NeighborTypes
<1>4. better \subseteq Neighbors(cur, d) /\ better \intersect s.closed = {} /\ better \subseteq Tiles
  BY <1>3
<1>5. cur \notin better
  <2>1. s.cost[cur] \in Int /\ Cost(cur) \in Int /\ Cost(cur) > 0
    BY <1>1, <1>2
  <2>2. ~ (s.cost[cur] > s.cost[cur] + Cost(cur))
    BY <2>1
  <2> HIDE DEF cur
  <2> QED BY <2>2
<1>6. \A t \in better : Reached(t) \in Int
  BY <1>1, <1>2, <1>4
<1>7. /\ new.open = (s.open \ {cur}) \union better
      /\ new.closed = s.closed \union {cur}
      /\ new.cost = [t \in Tiles |-> IF t \in better THEN Reached(t) ELSE s.cost[t]]
      /\ new.prev = [t \in Tiles |-> IF t \in better THEN cur ELSE s.prev[t]]
      /\ new = [open |-> new.open, closed |-> new.closed, cost |-> new.cost, prev |-> new.prev]
  BY DEF Expand
<1>8. \A t \in Neighbors(cur, d) : t \in s.closed \/ t \in better \/ t \in s.open \union {cur}
  OBVIOUS
<1> HIDE DEF cur, Reached, better, new
<1>9. new \in LabelType
  <2>1. new.open \in SUBSET Tiles /\ new.closed \in SUBSET Tiles
    BY <1>1, <1>4, <1>7
  <2>2. new.cost \in [Tiles -> Int]
    <3>1. \A t \in Tiles : (IF t \in better THEN Reached(t) ELSE s.cost[t]) \in Int
      BY <1>1, <1>6
    <3> QED BY <1>7, <3>1
  <2>3. new.prev \in [Tiles -> Tiles]
    BY <1>1, <1>7
  <2> QED BY <1>7, <2>1, <2>2, <2>3 DEF LabelType
<1>10. /\ o \in new.open \union new.closed /\ new.open \intersect new.closed = {}
       /\ d \notin new.closed /\ s.open \union s.closed \subseteq new.open \union new.closed
  <2>1. o \in s.open \union s.closed /\ s.open \intersect s.closed = {} /\ d \notin s.closed
    BY DEF Searched
  <2> QED BY <1>1, <1>4, <1>5, <1>7, <2>1
<1>11. ASSUME NEW t \in new.closed PROVE Neighbors(t, d) \subseteq new.open \union new.closed
  <2>1. CASE t = cur
    BY <1>1, <1>7, <1>8, <2>1
  <2>2. CASE t # cur
    <3>1. t \in s.closed
      BY <1>7, <2>2
    <3>2. Neighbors(t, d) \subseteq s.open \union s.closed
      BY <3>1 DEF Searched
    <3> QED BY <1>10, <3>2
  <2> QED BY <2>1, <2>2
<1>12. ASSUME NEW t \in new.open \union new.closed, t # o PROVE new.prev[t] \in new.closed
  <2>1. CASE t \in better
    BY <1>4, <1>7, <2>1
  <2>2. CASE t \notin better
    <3>1. t \in s.open \union s.closed /\ t \in Tiles
      BY <1>1, <1>7, <2>2
    <3>2. s.prev[t] \in s.closed
      BY <1>12, <3>1 DEF Searched
    <3> QED BY <1>7, <2>2, <3>1, <3>2
  <2> QED BY <2>1, <2>2
<1>13. \E age \in [Tiles -> Nat] :
         (\A t \in new.closed : age[t] < k + 1) /\ Precede(new, o, age)
  <2>1. PICK old \in [Tiles -> Nat] : (\A t \in s.closed : old[t] < k) /\ Precede(s, o, old)
    BY DEF Searched
  <2> DEFINE age == [old EXCEPT ![cur] = k]
  <2>2. age \in [Tiles -> Nat] /\ age[cur] = k /\ \A t \in s.closed : age[t] = old[t]
    BY <1>1, <2>1
  <2> HIDE DEF age
  <2>3. ASSUME NEW t \in new.closed PROVE age[t] < k + 1
    <3>1. t = cur \/ (t \in s.closed /\ t \in Tiles)
      BY <1>1, <1>7
    <3>2. CASE t = cur
      BY <2>2, <3>2
    <3>3. CASE t \in s.closed /\ t \in Tiles
      <4>1. age[t] < k /\ age[t] \in Nat
        BY <2>1, <2>2, <3>3
      <4> QED BY <4>1
    <3> QED BY <3>1, <3>2, <3>3
  <2>4. ASSUME NEW t \in new.closed, t # o PROVE age[new.prev[t]] < age[t]
    <3>1. t \in s.open \union s.closed /\ t \in Tiles /\ t \notin better
      BY <1>1, <1>4, <1>5, <1>7
    <3>2. new.prev[t] = s.prev[t] /\ s.prev[t] \in s.closed
      BY <1>7, <2>4, <3>1 DEF Searched
    <3>3. age[s.prev[t]] = old[s.prev[t]] /\ old[s.prev[t]] < k
      BY <2>1, <2>2, <3>2
    <3>4. CASE t = cur
      BY <2>2, <3>2, <3>3, <3>4
    <3>5. CASE t # cur
      <4>1. t \in s.closed
        BY <1>7, <3>5
      <4> QED BY <2>1, <2>2, <2>4, <3>2, <3>3, <4>1 DEF Precede
    <3> QED BY <3>4, <3>5
  <2> QED BY <2>2, <2>3, <2>4 DEF Precede
<1>14. Cardinality(new.closed) = k + 1
  <2>1. Cardinality(s.closed) = k
    BY DEF Searched
  <2>2. IsFiniteSet(s.closed)
    BY <1>1, Numbers, FS_Subset
  <2> QED BY <1>1, <1>7, <2>1, <2>2, FS_AddElement
<1> QED BY <1>9, <1>10, <1>11, <1>12, <1>13, <1>14 DEF Searched, new

(* An expansion too many changes nothing. *)
LEMMA SearchStays ==
  ASSUME NEW o, NEW d, NEW k \in Nat, NEW s, Searched(s, o, d, k), Found(s, d)
  PROVE  Searched(s, o, d, k + 1)
<1>1. PICK age \in [Tiles -> Nat] : (\A t \in s.closed : age[t] < k) /\ Precede(s, o, age)
  BY DEF Searched
<1>2. \A t \in s.closed : age[t] < k + 1
  <2> SUFFICES ASSUME NEW t \in s.closed PROVE age[t] < k + 1
    OBVIOUS
  <2>1. age[t] \in Nat /\ age[t] < k
    BY <1>1 DEF Searched, LabelType
  <2> QED BY <2>1
<1> QED BY <1>1, <1>2 DEF Searched

(* The labels after each expansion. *)
LabelsOf(f, o, d) ==
  f = [k \in 0..NbTiles |->
         IF k = 0 THEN FirstLabels(o)
         ELSE IF Found(f[k - 1], d) THEN f[k - 1] ELSE Expand(f[k - 1], d)]

(* The labels of a search are well defined.                                 *)
LEMMA LabelsExist ==
  ASSUME indexes \in [Tiles -> NextType], NEW o \in Tiles, NEW d \in Tiles
  PROVE  \E f : LabelsOf(f, o, d)
<1> DEFINE V == {s \in LabelType : \E k \in Nat : Searched(s, o, d, k)}
           step == [x \in (1..NbTiles) \X V |-> IF Found(x[2], d) THEN x[2] ELSE Expand(x[2], d)]
<1>1. FirstLabels(o) \in V
  <2>1. Searched(FirstLabels(o), o, d, 0)
    BY SearchBegins
  <2>2. FirstLabels(o) \in LabelType
    BY <2>1 DEF Searched
  <2> QED BY <2>1, <2>2
<1>2. ASSUME NEW s \in V PROVE (IF Found(s, d) THEN s ELSE Expand(s, d)) \in V
  <2>1. PICK k \in Nat : Searched(s, o, d, k)
    OBVIOUS
  <2>2. CASE Found(s, d)
    BY <2>2
  <2>3. CASE ~ Found(s, d)
    <3>1. Searched(Expand(s, d), o, d, k + 1)
      BY <2>1, <2>3, SearchExpands
    <3>2. Expand(s, d) \in LabelType
      BY <3>1 DEF Searched
    <3> QED BY <2>3, <3>1, <3>2
  <2> QED BY <2>2, <2>3
<1>3. \A i \in 1..NbTiles : \A v \in V : step[<<i, v>>] = IF Found(v, d) THEN v ELSE Expand(v, d)
  <2> HIDE DEF V
  <2> QED OBVIOUS
<1>4. \A i \in 1..NbTiles : \A v \in V : step[<<i, v>>] \in V
  <2> HIDE DEF V, step
  <2> QED BY <1>2, <1>3
<1> HIDE DEF V, step
<1>5. PICK h \in [0..NbTiles -> V] : Climbs(h, NbTiles, FirstLabels(o), step)
  BY <1>1, <1>4, Numbers, RecursionUpTo
<1>6. ASSUME NEW k \in 0..NbTiles
      PROVE  h[k] = IF k = 0 THEN FirstLabels(o)
                    ELSE IF Found(h[k - 1], d) THEN h[k - 1] ELSE Expand(h[k - 1], d)
  <2>1. CASE k = 0
    BY <1>5, <2>1 DEF Climbs
  <2>2. CASE k # 0
    <3>1. k \in 1..NbTiles /\ k - 1 \in 0..NbTiles
      BY <2>2, Numbers
    <3>2. h[k] = step[<<k, h[k - 1]>>] /\ h[k - 1] \in V
      BY <1>5, <2>2, <3>1 DEF Climbs
    <3> QED BY <1>3, <2>2, <3>1, <3>2
  <2> QED BY <2>1, <2>2
<1> QED BY <1>5, <1>6 DEF LabelsOf

(* Hence all of them are as a search has them.                              *)
LEMMA SearchLabels ==
  ASSUME indexes \in [Tiles -> NextType], NEW o \in Tiles, NEW d \in Tiles
  PROVE  \E f : /\ LabelsOf(f, o, d) /\ Search(o, d) = f[NbTiles]
               /\ \A k \in 0..NbTiles : Searched(f[k], o, d, k)
<1>1. PICK f : LabelsOf(f, o, d) /\ Search(o, d) = f[NbTiles]
  <2>1. Search(o, d) = (CHOOSE f : LabelsOf(f, o, d))[NbTiles]
    BY DEF Search, LabelsOf
  <2> QED BY <2>1, LabelsExist
<1>2. \A k \in 0..NbTiles : f[k] = IF k = 0 THEN FirstLabels(o)
                                  ELSE IF Found(f[k - 1], d) THEN f[k - 1] ELSE Expand(f[k - 1], d)
  BY <1>1 DEF LabelsOf
<1> DEFINE G == {k \in Nat : k <= NbTiles => Searched(f[k], o, d, k)}
<1>3. 0 \in G
  <2>1. 0 \in 0..NbTiles
    BY Numbers
  <2> QED BY <1>2, <2>1, SearchBegins
<1>4. ASSUME NEW k \in Nat, k \in G PROVE k + 1 \in G
  <2> SUFFICES ASSUME k + 1 <= NbTiles PROVE Searched(f[k + 1], o, d, k + 1)
    OBVIOUS
  <2>1. k + 1 \in 0..NbTiles /\ k + 1 # 0 /\ (k + 1) - 1 = k /\ k <= NbTiles
    BY Numbers
  <2>2. Searched(f[k], o, d, k)
    BY <1>4, <2>1
  <2>3. f[k + 1] = IF Found(f[k], d) THEN f[k] ELSE Expand(f[k], d)
    BY <1>2, <2>1
  <2>4. CASE Found(f[k], d)
    BY <2>2, <2>3, <2>4, SearchStays
  <2>5. CASE ~ Found(f[k], d)
    BY <2>2, <2>3, <2>5, SearchExpands
  <2> QED BY <2>4, <2>5
<1>5. Nat \subseteq G
  <2> HIDE DEF G
  <2> QED BY <1>3, <1>4, NatInSet
<1>6. \A k \in 0..NbTiles : Searched(f[k], o, d, k)
  BY <1>5, Numbers
<1> QED BY <1>1, <1>6

(* compute_path finds the destination: the search ends with it as the next *)
(* tile, whatever paths the table holds.                                   *)
LEMMA SearchFinds ==
  ASSUME indexes \in [Tiles -> NextType], NEW o \in Tiles, NEW d \in Tiles,
         LeadsTo(indexes[d], d)
  PROVE  /\ Searched(Search(o, d), o, d, NbTiles) /\ d \in Search(o, d).open
         /\ Closest(Search(o, d), d) = d
<1> DEFINE s == Search(o, d)
<1>6. Searched(s, o, d, NbTiles)
  BY SearchLabels, Numbers
<1> HIDE DEF s
<1>7. Found(s, d)
  <2> SUFFICES ASSUME ~ Found(s, d) PROVE FALSE
    OBVIOUS
  <2>1. Cardinality(s.closed) = NbTiles /\ s.closed \subseteq Tiles /\ d \notin s.closed
    BY <1>6 DEF Searched, LabelType
  <2>2. s.closed = Tiles
    BY <2>1, Numbers, FS_Subset
  <2> QED BY <2>1, <2>2
<1>8. s.open # {}
  <2> SUFFICES ASSUME s.open = {} PROVE FALSE
    OBVIOUS
  <2>1. /\ s.closed \in SUBSET Tiles /\ o \in s.closed /\ d \notin s.closed
        /\ \A t \in s.closed : Neighbors(t, d) \subseteq s.closed
    BY <1>6 DEF Searched, LabelType
  <2>2. s.closed # {}
    BY <2>1
  <2> QED BY <2>1, <2>2, Connected
<1>9. d \in s.open
  <2>1. s \in LabelType
    BY <1>6 DEF Searched
  <2> QED BY <1>7, <1>8, <2>1, ClosestOpen DEF Found
<1> QED BY <1>6, <1>7, <1>8, <1>9 DEF s, Found

-----------------------------------------------------------------------------
(* The predecessors from a tile back to the first, which are fewer and      *)
(* fewer numbers away from it.                                              *)
Backs(prev, o, S, age) ==
  /\ o \in S /\ \A t \in S : age[t] \in Nat
  /\ \A t \in S : t # o => prev[t] \in S /\ age[prev[t]] < age[t]

WayOf(f, prev, o, S) ==
  f = [t \in S |-> IF t = o THEN <<o>> ELSE Append(f[prev[t]], t)]

(* Going back ends, so that the ways are well defined.                      *)
LEMMA WayExists ==
  ASSUME NEW prev, NEW o, NEW S, NEW age, Backs(prev, o, S, age),
         NEW n \in Nat, \A t \in S : age[t] < n
  PROVE  \E f : WayOf(f, prev, o, S)
<1> DEFINE Near(k) == {t \in S : age[t] < k}
           Way(f, k) == f = [t \in Near(k) |-> IF t = o THEN <<o>> ELSE Append(f[prev[t]], t)]
           G == {k \in Nat : \E f : Way(f, k)}
<1>0. ASSUME NEW k \in Nat, NEW t \in Near(k), t # o PROVE prev[t] \in Near(k)
  <2>1. prev[t] \in S /\ age[prev[t]] < age[t] /\ age[t] < k /\ age[t] \in Nat /\ age[prev[t]] \in Nat
    BY <1>0 DEF Backs
  <2> QED BY <2>1
<1>1. 0 \in G
  <2>1. Near(0) = {}
    BY DEF Backs
  <2> DEFINE f == [t \in Near(0) |-> <<o>>]
  <2>2. Way(f, 0)
    BY <2>1
  <2> QED BY <2>2
<1>2. ASSUME NEW k \in Nat, k \in G PROVE k + 1 \in G
  <2>1. PICK f : Way(f, k)
    BY <1>2
  <2> DEFINE h == [t \in Near(k + 1) |-> IF t \in Near(k) THEN f[t]
                                         ELSE IF t = o THEN <<o>> ELSE Append(f[prev[t]], t)]
  <2>2. ASSUME NEW t \in Near(k + 1)
        PROVE  h[t] = IF t = o THEN <<o>> ELSE Append(h[prev[t]], t)
    <3>1. t # o => prev[t] \in Near(k) /\ prev[t] \in Near(k + 1)
      <4> SUFFICES ASSUME t # o PROVE prev[t] \in Near(k) /\ prev[t] \in Near(k + 1)
        OBVIOUS
      <4>1. /\ prev[t] \in S /\ age[prev[t]] < age[t] /\ age[t] < k + 1
            /\ age[t] \in Nat /\ age[prev[t]] \in Nat
        BY DEF Backs
      <4> QED BY <4>1
    <3>2. t # o => h[prev[t]] = f[prev[t]]
      BY <3>1
    <3>3. t \in Near(k) => f[t] = IF t = o THEN <<o>> ELSE Append(f[prev[t]], t)
      BY <2>1
    <3> QED BY <3>2, <3>3
  <2>3. h = [t \in Near(k + 1) |-> h[t]]
    OBVIOUS
  <2> HIDE DEF h, Near
  <2>4. h = [t \in Near(k + 1) |-> IF t = o THEN <<o>> ELSE Append(h[prev[t]], t)]
    BY <2>2, <2>3
  <2>5. \E g : Way(g, k + 1)
    BY <2>4
  <2> QED BY <2>5
<1>3. n \in G
  <2> HIDE DEF G
  <2> QED BY <1>1, <1>2, NatInSet
<1>4. Near(n) = S
  OBVIOUS
<1>5. PICK f : Way(f, n)
  BY <1>3
<1> QED BY <1>4, <1>5 DEF WayOf

(* A way goes from the first tile to the last, and never back. *)
Onward(p, S, age, o, d) ==
  /\ p \in Seq(S) /\ Len(p) > 0 /\ p[1] = o /\ p[Len(p)] = d
  /\ \A i \in 1..(Len(p) - 1) : age[p[i]] < age[p[i + 1]]

Chained(p, prev, o) == \A i \in 1..(Len(p) - 1) : p[i + 1] # o /\ prev[p[i + 1]] = p[i]

(* Each is such a way, along the predecessors.                              *)
LEMMA WayOnward ==
  ASSUME NEW prev, NEW o, NEW S, NEW age, Backs(prev, o, S, age), NEW f, WayOf(f, prev, o, S)
  PROVE  \A t \in S : Onward(f[t], S, age, o, t) /\ Chained(f[t], prev, o)
<1> DEFINE Good(t) == Onward(f[t], S, age, o, t) /\ Chained(f[t], prev, o)
           G == {k \in Nat : \A t \in S : age[t] < k => Good(t)}
<1>1. 0 \in G
  BY DEF Backs
<1>2. ASSUME NEW k \in Nat, k \in G PROVE k + 1 \in G
  <2> SUFFICES ASSUME NEW t \in S, age[t] < k + 1 PROVE Good(t)
    OBVIOUS
  <2>1. f[t] = IF t = o THEN <<o>> ELSE Append(f[prev[t]], t)
    BY DEF WayOf
  <2>2. CASE t = o
    BY <2>1, <2>2 DEF Onward, Chained
  <2>3. CASE t # o
    <3>1. /\ prev[t] \in S /\ age[prev[t]] < age[t] /\ age[prev[t]] < k
          /\ age[t] \in Nat /\ age[prev[t]] \in Nat
      BY <2>3 DEF Backs
    <3>2. Onward(f[prev[t]], S, age, o, prev[t]) /\ Chained(f[prev[t]], prev, o)
      BY <1>2, <3>1
    <3>3. PICK p \in Seq(S) : p = f[prev[t]]
      BY <3>2 DEF Onward
    <3> DEFINE q == Append(p, t)
    <3>4. /\ Len(p) \in Nat /\ Len(p) > 0 /\ p[1] = o /\ p[Len(p)] = prev[t]
          /\ \A i \in 1..(Len(p) - 1) : age[p[i]] < age[p[i + 1]] /\ p[i + 1] # o /\ prev[p[i + 1]] = p[i]
      BY <3>2, <3>3 DEF Onward, Chained
    <3>5. /\ q \in Seq(S) /\ Len(q) = Len(p) + 1 /\ q[Len(p) + 1] = t
          /\ \A i \in 1..Len(p) : q[i] = p[i]
      BY <3>3
    <3>6. f[t] = q
      BY <2>1, <2>3, <3>3
    <3> HIDE DEF q
    <3>7. ASSUME NEW i \in 1..(Len(q) - 1)
          PROVE  age[q[i]] < age[q[i + 1]] /\ q[i + 1] # o /\ prev[q[i + 1]] = q[i]
      <4>1. CASE i = Len(p)
        BY <2>3, <3>1, <3>4, <3>5, <4>1
      <4>2. CASE i # Len(p)
        <5>1. i \in 1..(Len(p) - 1) /\ i \in 1..Len(p) /\ i + 1 \in 1..Len(p)
          BY <3>4, <3>5, <4>2
        <5> QED BY <3>4, <3>5, <5>1
      <4> QED BY <4>1, <4>2
    <3>8. q[1] = o /\ q[Len(q)] = t /\ Len(q) > 0
      BY <3>4, <3>5
    <3> QED BY <3>5, <3>6, <3>7, <3>8 DEF Onward, Chained
  <2> QED BY <2>2, <2>3
<1>3. Nat \subseteq G
  <2> HIDE DEF G
  <2> QED BY <1>1, <1>2, NatInSet
<1>4. ASSUME NEW t \in S PROVE Good(t)
  <2>1. age[t] + 1 \in Nat /\ age[t] < age[t] + 1
    BY DEF Backs
  <2>2. age[t] + 1 \in G
    BY <1>3, <2>1
  <2> QED BY <2>1, <2>2
<1> QED BY <1>4

(* compute_path: a path from the tile of the request to its destination,    *)
(* along which some number grows, so that no tile is in it twice.           *)
LEMMA PathComputed ==
  ASSUME indexes \in [Tiles -> NextType], NEW o \in Tiles, NEW d \in Tiles,
         LeadsTo(indexes[d], d)
  PROVE  /\ \E age \in [Tiles -> Nat] : Onward(ComputePath(o, d), Tiles, age, o, d)
         /\ Chained(ComputePath(o, d), Search(o, d).prev, o)
         /\ ComputePath(o, d) \in Seq(Search(o, d).open \union Search(o, d).closed)
<1> DEFINE s == Search(o, d)
           S == s.open \union s.closed
<1>1. Searched(s, o, d, NbTiles) /\ d \in s.open
  BY SearchFinds
<1>2. ComputePath(o, d) = (CHOOSE f : WayOf(f, s.prev, o, S))[d]
  BY DEF ComputePath, WayOf
<1> HIDE DEF s
<1>3. /\ s \in LabelType /\ o \in S /\ d \in S /\ d \notin s.closed /\ S \subseteq Tiles
      /\ \A t \in S : t # o => s.prev[t] \in s.closed
      /\ s.closed \subseteq Tiles
  BY <1>1 DEF Searched, LabelType
<1>4. PICK old \in [Tiles -> Nat] : (\A t \in s.closed : old[t] < NbTiles) /\ Precede(s, o, old)
  BY <1>1 DEF Searched
<1> DEFINE age == [t \in Tiles |-> IF t \in s.closed THEN old[t] ELSE NbTiles]
<1>5. age \in [Tiles -> Nat] /\ \A t \in Tiles : age[t] = IF t \in s.closed THEN old[t] ELSE NbTiles
  BY <1>4, Numbers
<1> HIDE DEF S, age
<1>6. Backs(s.prev, o, S, age)
  <2>1. ASSUME NEW t \in S, t # o PROVE s.prev[t] \in S /\ age[s.prev[t]] < age[t]
    <3>1. s.prev[t] \in s.closed /\ t \in Tiles /\ s.prev[t] \in Tiles
      BY <1>3, <2>1
    <3>2. age[s.prev[t]] = old[s.prev[t]] /\ old[s.prev[t]] < NbTiles
      BY <1>4, <1>5, <3>1
    <3>3. age[s.prev[t]] < age[t]
      BY <1>4, <1>5, <2>1, <3>1, <3>2 DEF Precede
    <3> QED BY <3>1, <3>3 DEF S
  <2>2. \A t \in S : age[t] \in Nat
    BY <1>3, <1>5
  <2> QED BY <1>3, <2>1, <2>2 DEF Backs
<1>7. PICK f : WayOf(f, s.prev, o, S) /\ ComputePath(o, d) = f[d]
  <2>1. \A t \in S : age[t] < NbTiles + 1
    <3> SUFFICES ASSUME NEW t \in S PROVE age[t] < NbTiles + 1
      OBVIOUS
    <3>1. t \in Tiles /\ old[t] \in Nat /\ NbTiles \in Nat
      BY <1>3, <1>4, Numbers
    <3> QED BY <1>4, <1>5, <3>1
  <2>2. NbTiles + 1 \in Nat
    BY Numbers
  <2>3. \E f : WayOf(f, s.prev, o, S)
    BY <1>6, <2>1, <2>2, WayExists
  <2> QED BY <1>2, <2>3
<1>8. Onward(f[d], S, age, o, d) /\ Chained(f[d], s.prev, o)
  BY <1>3, <1>6, <1>7, WayOnward
<1>9. Onward(f[d], Tiles, age, o, d)
  <2>1. \A p : p \in Seq(S) => p \in Seq(Tiles)
    BY <1>3
  <2> QED BY <1>8, <2>1 DEF Onward
<1>10. f[d] \in Seq(S)
  BY <1>8 DEF Onward
<1> QED BY <1>5, <1>7, <1>8, <1>9, <1>10 DEF s, S

-----------------------------------------------------------------------------
(* What consolidate_path writes to a table. *)
Consolidated(next, p) ==
  [t \in Tiles |-> IF t = Last(p) THEN Last(p)
                   ELSE IF t \in ToSet(p) THEN p[1 + CHOOSE i \in DOMAIN p : p[i] = t]
                   ELSE next[t]]

(* The tiles of the path lead along it; the others led to the destination   *)
(* or lead to the path.                                                     *)
LEMMA StillLeads ==
  ASSUME NEW next \in NextType, NEW o \in Tiles, NEW d \in Tiles, LeadsTo(next, d),
         NEW age \in [Tiles -> Nat], NEW p, Onward(p, Tiles, age, o, d)
  PROVE  Consolidated(next, p) \in NextType /\ LeadsTo(Consolidated(next, p), d)
<1> DEFINE new == Consolidated(next, p)
           P == ToSet(p)
           index(t) == CHOOSE i \in DOMAIN p : p[i] = t
<1>1. /\ p \in Seq(Tiles) /\ Len(p) \in Nat /\ Len(p) > 0 /\ p[Len(p)] = d /\ Last(p) = d
      /\ DOMAIN p = 1..Len(p) /\ \A i \in 1..Len(p) : p[i] \in Tiles
  BY DEF Onward, Last
<1>2. P \subseteq Tiles /\ d \in P /\ \A i \in 1..Len(p) : p[i] \in P
  BY <1>1 DEF ToSet
<1>3. \A t \in P : index(t) \in 1..Len(p) /\ p[index(t)] = t
  BY <1>1 DEF ToSet
<1>4. new = [t \in Tiles |-> IF t = d THEN d ELSE IF t \in P THEN p[1 + index(t)] ELSE next[t]]
  BY <1>1 DEF Consolidated
<1> HIDE DEF new, P, index
<1>5. ASSUME NEW t \in P, t # d
      PROVE  new[t] \in P /\ age[t] < age[new[t]]
  <2>1. index(t) \in 1..Len(p) /\ p[index(t)] = t /\ index(t) # Len(p)
    BY <1>1, <1>3, <1>5
  <2>2. index(t) \in 1..(Len(p) - 1) /\ 1 + index(t) \in 1..Len(p) /\ index(t) + 1 = 1 + index(t)
    BY <1>1, <2>1
  <2>3. new[t] = p[1 + index(t)]
    BY <1>2, <1>4, <1>5
  <2>4. age[p[index(t)]] < age[p[index(t) + 1]]
    BY <2>2 DEF Onward
  <2> QED BY <1>2, <2>1, <2>2, <2>3, <2>4
<1>6. new[d] = d /\ \A t \in Tiles \ P : new[t] = next[t]
  BY <1>2, <1>4
<1>7. \A t \in P : new[t] # Far /\ new[t] \in Tiles
  BY <1>2, <1>5, <1>6, Numbers
<1>8. new \in NextType
  <2>1. \A t \in Tiles : new[t] \in Tiles \union {Far}
    BY <1>6, <1>7 DEF NextType
  <2> QED BY <1>4, <2>1 DEF NextType
<1>9. PICK old \in [Tiles -> Nat] : Leads(next, d, old)
  BY DEF LeadsTo
<1>10. PICK m \in Tiles : \A t \in Tiles : age[m] >= age[t]
  <2>1. \A t \in Tiles : age[t] \in Int
    OBVIOUS
  <2> QED BY <2>1, Numbers, HasMaxOver
<1> DEFINE rank == [t \in Tiles |-> IF t \in P THEN age[m] - age[t] ELSE age[m] + 1 + old[t]]
<1>11. \A t \in Tiles : /\ rank[t] = IF t \in P THEN age[m] - age[t] ELSE age[m] + 1 + old[t]
                        /\ age[t] \in Nat /\ age[m] \in Nat /\ old[t] \in Nat
                        /\ age[m] >= age[t]
  BY <1>9, <1>10
<1>12. rank \in [Tiles -> Nat]
  <2>1. ASSUME NEW t \in Tiles
        PROVE  (IF t \in P THEN age[m] - age[t] ELSE age[m] + 1 + old[t]) \in Nat
    <3> HIDE DEF rank
    <3> QED BY <1>11
  <2> QED BY <2>1
<1> HIDE DEF rank
<1>13. ASSUME NEW t \in Tiles, new[t] # Far, t # d
       PROVE  new[new[t]] # Far /\ rank[new[t]] < rank[t]
  <2>1. CASE t \in P
    <3>1. new[t] \in P /\ age[t] < age[new[t]] /\ new[t] \in Tiles
      BY <1>2, <1>5, <1>13, <2>1
    <3> QED BY <1>7, <1>11, <2>1, <3>1
  <2>2. CASE t \notin P
    <3>1. new[t] = next[t] /\ next[t] \in Tiles
      BY <1>6, <1>13, <2>2 DEF NextType
    <3>2. next[next[t]] # Far /\ old[next[t]] < old[t]
      BY <1>9, <1>13, <3>1 DEF Leads
    <3>3. CASE new[t] \in P
      BY <1>7, <1>11, <2>2, <3>1, <3>3
    <3>4. CASE new[t] \notin P
      BY <1>6, <1>11, <2>2, <3>1, <3>2, <3>4
    <3> QED BY <3>3, <3>4
  <2> QED BY <2>1, <2>2
<1> QED BY <1>8, <1>12, <1>13 DEF Leads, LeadsTo, new

-----------------------------------------------------------------------------
(* The inductive invariant: tables that lead somewhere are what makes each  *)
(* search find its destination, hence what keeps their shape.               *)
TablesInv == TypeOK /\ \A d \in Tiles : LeadsTo(indexes[d], d)

(* A cleared cache leads nowhere, in particular not astray.                 *)
LEMMA EmptyTables ==
  NoPaths \in [Tiles -> NextType] /\ \A d \in Tiles : LeadsTo(NoPaths[d], d)
<1>1. NoPaths \in [Tiles -> NextType]
  BY DEF NoPaths, NextType
<1>2. ASSUME NEW d \in Tiles PROVE LeadsTo(NoPaths[d], d)
  <2>1. [t \in Tiles |-> 0] \in [Tiles -> Nat]
    OBVIOUS
  <2>2. Leads(NoPaths[d], d, [t \in Tiles |-> 0])
    BY DEF NoPaths, Leads
  <2> QED BY <2>1, <2>2 DEF LeadsTo
<1> QED BY <1>1, <1>2

(* The cache starts so.                                                     *)
LEMMA TablesInit == Init => TablesInv
<1> SUFFICES ASSUME Init PROVE TablesInv
  OBVIOUS
<1>1. free \in SUBSET Tiles /\ accessible \in SUBSET Tiles
  BY ConstantsAssumption DEF Init, ConstantsAssumption
<1>2. revision \in 0 .. MaxRevision /\ synced \in -1 .. revision /\ run \in 0 .. MaxRun
  BY ConstantsAssumption DEF Init, ConstantsAssumption
<1>3. sight \in [Tiles -> [Tiles -> -1 .. 1]]
  BY DEF Init, NoSight
<1>4. requests \in Seq([orig : Tiles, dest : Tiles]) /\ pc \in {"sync", "compute", "move"}
  BY DEF Init
<1> QED BY <1>1, <1>2, <1>3, <1>4, EmptyTables DEF Init, TablesInv, TypeOK, NextType

(* The first request is one of the requests.                                *)
LEMMA HeadIn == ASSUME NEW V, NEW s \in Seq(V), s # << >> PROVE Head(s) \in V
OBVIOUS

(* consolidate_path of what compute_path has found. *)
LEMMA TablesConsolidate ==
  ASSUME indexes \in [Tiles -> NextType], sight \in [Tiles -> [Tiles -> -1 .. 1]],
         \A d \in Tiles : LeadsTo(indexes[d], d),
         NEW o \in Tiles, NEW d \in Tiles, Consolidate(ComputePath(o, d))
  PROVE  /\ indexes' \in [Tiles -> NextType] /\ sight' \in [Tiles -> [Tiles -> -1 .. 1]]
         /\ \A e \in Tiles : LeadsTo(indexes'[e], e)
<1> DEFINE p == ComputePath(o, d)
<1>1. PICK age \in [Tiles -> Nat] : Onward(p, Tiles, age, o, d)
  BY PathComputed
<1>2. Consolidate(p)
  OBVIOUS
<1> HIDE DEF p
<1>3. Last(p) = d
  BY <1>1 DEF Onward, Last
<1>4. indexes' = [indexes EXCEPT ![d] = Consolidated(indexes[d], p)]
  <2>1. indexes' = [indexes EXCEPT ![Last(p)] = [t \in Tiles |->
          IF t = Last(p) THEN Last(p)
          ELSE IF t \in ToSet(p) THEN p[1 + CHOOSE i \in DOMAIN p : p[i] = t]
          ELSE @[t]]]
    BY <1>2, Zenon DEF Consolidate
  <2>2. indexes' = [indexes EXCEPT ![Last(p)] = Consolidated(@, p)]
    BY <2>1, Zenon DEF Consolidated
  <2> QED BY <1>3, <2>2
<1>5. Consolidated(indexes[d], p) \in NextType /\ LeadsTo(Consolidated(indexes[d], p), d)
  <2>1. indexes[d] \in NextType
    OBVIOUS
  <2> QED BY <1>1, <2>1, StillLeads
<1>6. sight' \in [Tiles -> [Tiles -> -1 .. 1]]
  <2> DEFINE seen == {t \in ToSet(p) : sight[d][t] < 0}
             Sees(t) == IF LosCheck(t, d) THEN 1 ELSE 0
             entry(e, t) == CASE e = d /\ t \in seen -> Sees(t)
                              [] e \in seen /\ t = d -> Sees(e)
                              [] OTHER -> sight[e][t]
  <2>1. sight' = [e \in Tiles |-> [t \in Tiles |-> entry(e, t)]]
    BY <1>2, <1>3 DEF Consolidate
  <2>2. \A t : Sees(t) \in -1 .. 1
    OBVIOUS
  <2> HIDE DEF seen, Sees
  <2>3. \A e, t \in Tiles : entry(e, t) \in -1 .. 1
    BY <2>2
  <2> HIDE DEF entry
  <2> QED BY <2>1, <2>3
<1> QED BY <1>4, <1>5, <1>6

(* Each step keeps it: only compute_paths adds to a table.                  *)
LEMMA TablesNext == TablesInv /\ [Next]_vars => TablesInv'
<1> SUFFICES ASSUME TablesInv, [Next]_vars PROVE TablesInv'
  OBVIOUS
<1> USE DEF TablesInv, TypeOK
<1>0. /\ indexes \in [Tiles -> NextType] /\ \A d \in Tiles : LeadsTo(indexes[d], d)
      /\ MaxRun \in Nat /\ MaxRevision \in Nat
  BY ConstantsAssumption DEF ConstantsAssumption, NextType
<1>a. TablesInv' =
        (/\ free' \in SUBSET Tiles /\ accessible' \in SUBSET Tiles
         /\ revision' \in 0 .. MaxRevision /\ synced' \in -1 .. revision'
         /\ indexes' \in [Tiles -> NextType]
         /\ sight' \in [Tiles -> [Tiles -> -1 .. 1]]
         /\ requests' \in Seq([orig : Tiles, dest : Tiles])
         /\ run' \in 0 .. MaxRun
         /\ pc' \in {"sync", "compute", "move"}
         /\ \A d \in Tiles : LeadsTo(indexes'[d], d))
  BY DEF NextType, LeadsTo, Leads
<1>b. /\ free \in SUBSET Tiles /\ accessible \in SUBSET Tiles
      /\ revision \in 0 .. MaxRevision /\ synced \in -1 .. revision
      /\ sight \in [Tiles -> [Tiles -> -1 .. 1]]
      /\ requests \in Seq([orig : Tiles, dest : Tiles])
      /\ run \in 0 .. MaxRun
      /\ pc \in {"sync", "compute", "move"}
  OBVIOUS
<1> HIDE DEF TablesInv, TypeOK
<1>1. CASE Sync
  <2> USE <1>1 DEF Sync
  <2>1. CASE synced # revision
    <3>1. sight' \in [Tiles -> [Tiles -> -1 .. 1]]
      BY <2>1 DEF NoSight
    <3>2. synced' \in -1 .. revision' /\ run' \in 0 .. MaxRun /\ revision' \in 0 .. MaxRevision
      BY <1>0, <1>b, <2>1 DEF grid
    <3> QED BY <1>a, <1>b, <2>1, <3>1, <3>2, EmptyTables DEF grid
  <2>2. CASE synced = revision
    <3>1. run' \in 0 .. MaxRun
      BY <1>0
    <3> QED BY <1>a, <1>b, <1>0, <2>2, <3>1 DEF grid, tables
  <2> QED BY <2>1, <2>2
<1>2. CASE SkipRequest
  <2>1. requests' \in Seq([orig : Tiles, dest : Tiles])
    BY <1>2, <1>b DEF SkipRequest
  <2> QED BY <1>a, <1>b, <1>0, <1>2, <2>1 DEF SkipRequest, grid, tables
<1>3. CASE ComputeRequest
  <2> USE <1>3 DEF ComputeRequest
  <2>1. requests' \in Seq([orig : Tiles, dest : Tiles])
    BY <1>b
  <2>2. Head(requests).orig \in Tiles /\ Head(requests).dest \in Tiles
    <3>1. Head(requests) \in [orig : Tiles, dest : Tiles]
      BY <1>b, HeadIn
    <3> QED BY <3>1
  <2>3. run' \in 0 .. MaxRun
    BY <1>0, <1>b
  <2>4. /\ indexes' \in [Tiles -> NextType] /\ sight' \in [Tiles -> [Tiles -> -1 .. 1]]
        /\ \A e \in Tiles : LeadsTo(indexes'[e], e)
    BY <1>0, <1>b, <2>2, TablesConsolidate
  <2> QED BY <1>a, <1>b, <2>1, <2>3, <2>4 DEF grid
<1>4. CASE EndCompute
  BY <1>a, <1>b, <1>0, <1>4 DEF EndCompute, grid, tables
<1>5. CASE EndFrame
  BY <1>a, <1>b, <1>0, <1>5 DEF EndFrame, grid, tables
<1>6. ASSUME NEW q \in Queries, QueryPath(q) PROVE TablesInv'
  <2>1. requests' \in Seq([orig : Tiles, dest : Tiles])
    BY <1>6, <1>b, ConstantsAssumption DEF QueryPath, ConstantsAssumption
  <2> QED BY <1>a, <1>b, <1>0, <1>6, <2>1 DEF QueryPath, grid, tables
<1>7. ASSUME NEW g \in Grids, ChangeGrid(g) PROVE TablesInv'
  <2>1. free' \in SUBSET Tiles
    BY <1>7, ConstantsAssumption DEF ChangeGrid, ConstantsAssumption
  <2>2. revision' \in 0 .. MaxRevision /\ synced' \in -1 .. revision'
    BY <1>7, <1>b, <1>0 DEF ChangeGrid
  <2> QED BY <1>a, <1>b, <1>0, <1>7, <2>1, <2>2 DEF ChangeGrid, tables
<1>8. CASE UNCHANGED vars
  BY <1>a, <1>b, <1>0, <1>8 DEF vars, grid, tables
<1> QED BY <1>1, <1>2, <1>3, <1>4, <1>5, <1>6, <1>7, <1>8 DEF Next

(* At any time tables have their shape, and lead to their destinations.     *)
THEOREM TablesKept == Spec => []TablesInv
<1>1. Init => TablesInv
  BY TablesInit
<1>2. TablesInv /\ [Next]_vars => TablesInv'
  BY TablesNext
<1> QED BY <1>1, <1>2, PTL DEF Spec

(* The cache keeps its shape, whatever is asked and however the grid        *)
(* changes: no search ends without a path, and no more than max_run are     *)
(* computed in a frame.                                                     *)
THEOREM TypeCorrect == Spec => []TypeOK
<1>1. TablesInv => TypeOK
  BY DEF TablesInv
<1> QED BY <1>1, TablesKept, PTL

-----------------------------------------------------------------------------
(* The numbers of a table may be taken less than the number of tiles: that  *)
(* of a tile is how many tiles have less.                                   *)
LEMMA FewNumbers ==
  ASSUME NEW rank \in [Tiles -> Nat]
  PROVE  \E low \in [Tiles -> 0 .. NbTiles - 1] :
           \A t, u \in Tiles : rank[u] < rank[t] => low[u] < low[t]
<1> DEFINE Less(t) == {u \in Tiles : rank[u] < rank[t]}
           low == [t \in Tiles |-> Cardinality(Less(t))]
<1>1. \A t \in Tiles : Less(t) \subseteq Tiles /\ t \notin Less(t) /\ rank[t] \in Nat
  OBVIOUS
<1>2. ASSUME NEW t \in Tiles, NEW u \in Tiles, rank[u] < rank[t]
      PROVE  Less(u) \subseteq Less(t) /\ u \in Less(t)
  <2>1. ASSUME NEW v \in Less(u) PROVE v \in Less(t)
    <3>1. v \in Tiles /\ rank[v] < rank[u] /\ rank[v] \in Nat /\ rank[u] \in Nat /\ rank[t] \in Nat
      OBVIOUS
    <3>2. rank[v] < rank[t]
      BY <1>2, <3>1
    <3> QED BY <3>1, <3>2
  <2> QED BY <1>2, <2>1
<1> HIDE DEF Less
<1>3. \A t \in Tiles : IsFiniteSet(Less(t)) /\ Cardinality(Less(t)) \in Nat
  BY <1>1, Numbers, FS_Subset, FS_CardinalityType
<1>4. ASSUME NEW A, NEW B, IsFiniteSet(B), A \subseteq B, A # B
      PROVE  Cardinality(A) < Cardinality(B)
  <2>1. /\ IsFiniteSet(A) /\ Cardinality(A) <= Cardinality(B)
        /\ Cardinality(A) = Cardinality(B) => A = B
    BY <1>4, FS_Subset
  <2>2. Cardinality(A) \in Nat /\ Cardinality(B) \in Nat
    BY <1>4, <2>1, FS_CardinalityType
  <2> QED BY <1>4, <2>1, <2>2
<1>5. \A t \in Tiles : Cardinality(Less(t)) \in 0 .. NbTiles - 1
  <2> SUFFICES ASSUME NEW t \in Tiles PROVE Cardinality(Less(t)) \in 0 .. NbTiles - 1
    OBVIOUS
  <2>1. Cardinality(Less(t)) < Cardinality(Tiles)
    BY <1>1, <1>4, Numbers
  <2> QED BY <1>3, <2>1, Numbers
<1>6. ASSUME NEW t \in Tiles, NEW u \in Tiles, rank[u] < rank[t] PROVE low[u] < low[t]
  <2>1. Less(u) \subseteq Less(t) /\ Less(u) # Less(t)
    BY <1>1, <1>2, <1>6
  <2>2. Cardinality(Less(u)) < Cardinality(Less(t))
    BY <1>3, <1>4, <2>1
  <2> QED BY <2>2
<1>7. low \in [Tiles -> 0 .. NbTiles - 1]
  BY <1>5
<1> HIDE DEF low
<1> QED BY <1>6, <1>7

(* The walk of build_path. *)
Walks == {p \in Seq(Tiles) : Len(p) > 0}
Advance(p, d) == IF Last(p) = d \/ indexes[d][Last(p)] = Far THEN p
                 ELSE Append(p, indexes[d][Last(p)])
WalkOf(f, o, d) ==
  f = [k \in 0..NbTiles |-> IF k = 0 THEN <<o>> ELSE Advance(f[k - 1], d)]

(* A walk goes on to the next tile, if there is one.                        *)
LEMMA Advances ==
  ASSUME indexes \in [Tiles -> NextType], NEW d \in Tiles, NEW p \in Walks
  PROVE  /\ Last(p) \in Tiles /\ Advance(p, d) \in Walks
         /\ Last(Advance(p, d)) =
              IF Last(p) = d \/ indexes[d][Last(p)] = Far THEN Last(p) ELSE indexes[d][Last(p)]
<1>1. p \in Seq(Tiles) /\ Len(p) > 0
  BY DEF Walks
<1>2. Last(p) \in Tiles
  BY <1>1 DEF Last
<1>3. indexes[d][Last(p)] \in Tiles \union {Far}
  <2>1. indexes[d] \in NextType
    OBVIOUS
  <2> QED BY <1>2, <2>1 DEF NextType
<1>4. ASSUME NEW u \in Tiles PROVE Append(p, u) \in Walks /\ Last(Append(p, u)) = u
  BY <1>1 DEF Walks, Last
<1> QED BY <1>2, <1>3, <1>4 DEF Advance

(* The walk of build_path is well defined.                                  *)
LEMMA WalkExists ==
  ASSUME indexes \in [Tiles -> NextType], NEW o \in Tiles, NEW d \in Tiles
  PROVE  \E f : WalkOf(f, o, d)
<1> DEFINE step == [x \in (1..NbTiles) \X Walks |-> Advance(x[2], d)]
<1>1. <<o>> \in Walks
  BY DEF Walks
<1>2. \A v \in Walks : Advance(v, d) \in Walks
  BY Advances
<1>3. \A i \in 1..NbTiles : \A v \in Walks : step[<<i, v>>] = Advance(v, d)
  OBVIOUS
<1>4. \A i \in 1..NbTiles : \A v \in Walks : step[<<i, v>>] \in Walks
  <2> HIDE DEF step
  <2> QED BY <1>2, <1>3
<1> HIDE DEF step
<1>5. PICK h \in [0..NbTiles -> Walks] : Climbs(h, NbTiles, <<o>>, step)
  BY <1>1, <1>4, Numbers, RecursionUpTo
<1>6. ASSUME NEW k \in 0..NbTiles
      PROVE  h[k] = IF k = 0 THEN <<o>> ELSE Advance(h[k - 1], d)
  <2>1. CASE k = 0
    BY <1>5, <2>1 DEF Climbs
  <2>2. CASE k # 0
    <3>1. k \in 1..NbTiles /\ k - 1 \in 0..NbTiles
      BY <2>2, Numbers
    <3>2. h[k] = step[<<k, h[k - 1]>>] /\ h[k - 1] \in Walks
      BY <1>5, <2>2, <3>1 DEF Climbs
    <3> QED BY <1>3, <2>2, <3>1, <3>2
  <2> QED BY <2>1, <2>2
<1> QED BY <1>5, <1>6 DEF WalkOf

(* Each step of the walk has a smaller number, hence a walk of as many      *)
(* steps as there are tiles has arrived.                                    *)
LEMMA WalkArrives ==
  ASSUME indexes \in [Tiles -> NextType], NEW d \in Tiles, LeadsTo(indexes[d], d),
         NEW o \in Tiles, HasPath(o, d)
  PROVE  Last(Followed(o, d)) = d
<1>1. PICK f : WalkOf(f, o, d) /\ Followed(o, d) = f[NbTiles]
  <2>1. Followed(o, d) = (CHOOSE f : WalkOf(f, o, d))[NbTiles]
    BY DEF Followed, WalkOf, Advance
  <2> QED BY <2>1, WalkExists
<1>2. \A k \in 0..NbTiles : f[k] = IF k = 0 THEN <<o>> ELSE Advance(f[k - 1], d)
  BY <1>1 DEF WalkOf
<1>3. PICK rank \in [Tiles -> Nat] : Leads(indexes[d], d, rank)
  BY DEF LeadsTo
<1>4. PICK low \in [Tiles -> 0 .. NbTiles - 1] :
        \A t, u \in Tiles : rank[u] < rank[t] => low[u] < low[t]
  BY FewNumbers
<1> DEFINE On(k) == /\ f[k] \in Walks /\ HasPath(Last(f[k]), d)
                    /\ Last(f[k]) = d \/ low[Last(f[k])] + k < NbTiles
           G == {k \in Nat : k <= NbTiles => On(k)}
<1>5. 0 \in G
  <2>1. f[0] = <<o>> /\ Last(<<o>>) = o /\ <<o>> \in Walks
    BY <1>2, Numbers DEF Last, Walks
  <2>2. low[o] \in 0 .. NbTiles - 1 /\ NbTiles \in Nat
    BY <1>4, Numbers
  <2>3. low[o] + 0 < NbTiles
    BY <2>2
  <2> QED BY <2>1, <2>3
<1>6. ASSUME NEW k \in Nat, k \in G PROVE k + 1 \in G
  <2> SUFFICES ASSUME k + 1 <= NbTiles PROVE On(k + 1)
    OBVIOUS
  <2>1. k + 1 \in 0..NbTiles /\ k + 1 # 0 /\ (k + 1) - 1 = k /\ k <= NbTiles
    BY Numbers
  <2>2. f[k] \in Walks /\ HasPath(Last(f[k]), d) /\ f[k + 1] = Advance(f[k], d)
    BY <1>2, <1>6, <2>1
  <2>3. PICK p \in Walks : p = f[k]
    BY <2>2
  <2>4. /\ Last(p) \in Tiles /\ f[k + 1] \in Walks /\ indexes[d][Last(p)] # Far
        /\ Last(f[k + 1]) = IF Last(p) = d THEN d ELSE indexes[d][Last(p)]
    BY <2>2, <2>3, Advances DEF HasPath
  <2>5. CASE Last(p) = d
    BY <2>2, <2>3, <2>4, <2>5
  <2>6. CASE Last(p) # d
    <3> DEFINE t == Last(p)
               u == indexes[d][t]
    <3>1. u \in Tiles
      <4>1. indexes[d] \in NextType
        OBVIOUS
      <4> QED BY <2>4, <4>1 DEF NextType
    <3>2. indexes[d][u] # Far /\ rank[u] < rank[t]
      BY <1>3, <2>4, <2>6 DEF Leads
    <3>3. low[u] < low[t] /\ low[u] \in Nat /\ low[t] \in Nat
      <4> HIDE DEF u, t
      <4>1. t \in Tiles
        BY <2>4 DEF t
      <4> QED BY <1>4, <3>1, <3>2, <4>1
    <3>4. low[t] + k < NbTiles
      BY <1>6, <2>1, <2>3, <2>6
    <3>5. Last(f[k + 1]) = u
      BY <2>4, <2>6
    <3> HIDE DEF t, u
    <3>6. low[u] + (k + 1) < NbTiles
      BY <3>3, <3>4, Numbers
    <3> QED BY <2>4, <3>2, <3>5, <3>6 DEF HasPath
  <2> QED BY <2>5, <2>6
<1>7. Nat \subseteq G
  <2> HIDE DEF G
  <2> QED BY <1>5, <1>6, NatInSet
<1>8. On(NbTiles)
  BY <1>7, Numbers
<1>9. PICK p \in Walks : p = f[NbTiles]
  BY <1>8
<1>10. Last(p) \in Tiles
  BY Advances
<1>11. low[Last(p)] \in 0 .. NbTiles - 1 /\ NbTiles \in Nat
  BY <1>4, <1>10, Numbers
<1>12. ~ (low[Last(p)] + NbTiles < NbTiles)
  BY <1>11
<1> QED BY <1>1, <1>8, <1>9, <1>12

(* The loops of build_path and of compute_path end at the destination,      *)
(* however paths of different requests are stitched together.               *)
THEOREM TablesLeadHolds == Spec => []TablesLead
<1>1. TablesInv => TablesLead
  <2> SUFFICES ASSUME TablesInv, NEW d \in Tiles, NEW t \in Tiles, HasPath(t, d)
               PROVE  Last(Followed(t, d)) = d
    BY DEF TablesLead
  <2>1. indexes \in [Tiles -> NextType] /\ LeadsTo(indexes[d], d)
    BY DEF TablesInv, TypeOK, NextType
  <2> QED BY <2>1, WalkArrives
<1> QED BY <1>1, TablesKept, PTL

-----------------------------------------------------------------------------
(* Whole numbers: products keep the order, and floors are what they are.    *)
LEMMA ProductOrder ==
  ASSUME NEW c \in Nat, NEW a \in Int, NEW b \in Int
  PROVE  /\ a <= b => c * a <= c * b
         /\ c > 0 /\ a < b => c * a < c * b
         /\ c * a \in Int
<1>1. PICK e \in Int : e = b - a
  OBVIOUS
<1>2. c * b = c * a + c * e
  BY <1>1
<1>3. e >= 0 => c * e >= 0
  OBVIOUS
<1>4. c > 0 /\ e > 0 => c * e > 0
  OBVIOUS
<1>5. c * a \in Int /\ c * e \in Int
  OBVIOUS
<1> QED BY <1>1, <1>2, <1>3, <1>4, <1>5

(* The floor of a quotient is the greatest number that is not above it.     *)
LEMMA Floors ==
  ASSUME NEW n \in Int, NEW m \in Nat, m > 0, NEW q \in Int
  PROVE  /\ n \div m \in Int
         /\ n \div m >= q <=> n >= m * q
         /\ m * q <= n /\ n < m * (q + 1) => n \div m = q
<1> DEFINE v == n \div m
<1>1. v \in Int /\ m * v <= n /\ n < m * v + m
  OBVIOUS
<1> HIDE DEF v
<1>2. m * (v + 1) = m * v + m
  BY <1>1
<1>3. ASSUME NEW x \in Int, m * x <= n PROVE x <= v
  <2> SUFFICES ASSUME v + 1 <= x PROVE FALSE
    BY <1>1
  <2>1. m * (v + 1) <= m * x /\ m * x \in Int /\ m * v \in Int
    BY <1>1, ProductOrder
  <2> QED BY <1>1, <1>2, <1>3, <2>1
<1>4. ASSUME NEW x \in Int, x <= v PROVE m * x <= n
  <2>1. m * x <= m * v /\ m * x \in Int /\ m * v \in Int
    BY <1>1, <1>4, ProductOrder
  <2> QED BY <1>1, <2>1
<1>5. v >= q <=> n >= m * q
  <2>1. m * q \in Int
    OBVIOUS
  <2> QED BY <1>1, <1>3, <1>4, <2>1
<1>6. ASSUME m * q <= n, n < m * (q + 1) PROVE v = q
  <2>1. q <= v
    BY <1>3, <1>6
  <2>2. ~ (q + 1 <= v)
    <3>1. q + 1 <= v => m * (q + 1) <= n
      BY <1>4
    <3>2. m * (q + 1) \in Int
      OBVIOUS
    <3> QED BY <1>6, <3>1, <3>2
  <2> QED BY <1>1, <2>1, <2>2
<1> QED BY <1>1, <1>5, <1>6 DEF v

(* A number is its quotient and remainder.                                  *)
LEMMA Division ==
  ASSUME NEW n \in Nat, NEW m \in Nat, m > 0
  PROVE  n = m * (n \div m) + (n % m)
OBVIOUS

(* A walk over whole numbers that is not all below a range nor all above it *)
(* passes through it.                                                       *)
Straddles(f, i, j, lo, hi) ==
  /\ \A k \in i..j : f[k] \in Int
  /\ ~ (f[i] < lo /\ f[j] < lo) /\ ~ (f[i] > hi /\ f[j] > hi)
Passes(f, i, j, lo, hi) ==
  \E k \in i..(j - 1) : \E y \in lo..hi :
    (f[k] <= y /\ y <= f[k + 1]) \/ (f[k + 1] <= y /\ y <= f[k])

(* If it straddles the range, some step of it meets a number of the range.  *)
LEMMA Ladder ==
  ASSUME NEW i \in Int, NEW j \in Int, i < j, NEW lo \in Int, NEW hi \in Int, lo <= hi,
         NEW f, Straddles(f, i, j, lo, hi)
  PROVE  Passes(f, i, j, lo, hi)
<1> USE DEF Straddles, Passes
<1>0. f[i] \in Int /\ f[j] \in Int /\ f[i + 1] \in Int /\ i \in i..(j - 1)
  OBVIOUS
<1>1. CASE f[i] >= lo /\ f[i] <= hi
  <2>1. (f[i] <= f[i] /\ f[i] <= f[i + 1]) \/ (f[i + 1] <= f[i] /\ f[i] <= f[i])
    BY <1>0
  <2>2. f[i] \in lo..hi
    BY <1>0, <1>1
  <2> QED BY <1>0, <2>1, <2>2
<1>2. CASE f[i] < lo
  <2> DEFINE K == {k \in i..(j - 1) : f[k] < lo}
  <2>1. K \in SUBSET Int /\ K # {} /\ IsFiniteSet(K)
    <3>1. IsFiniteSet(i..(j - 1))
      BY FS_Interval
    <3>2. IsFiniteSet(K)
      BY <3>1, FS_Subset
    <3> QED BY <1>0, <1>2, <3>2
  <2>2. PICK k \in K : \A l \in K : k >= l
    <3> HIDE DEF K
    <3> QED BY <2>1, HasMax
  <2>3. k \in i..(j - 1) /\ f[k] < lo /\ k + 1 \in i..j /\ f[k] \in Int /\ f[k + 1] \in Int
    BY <2>2
  <2>4. f[k + 1] >= lo
    <3>1. CASE k + 1 = j
      BY <1>0, <1>2, <3>1
    <3>2. CASE k + 1 # j
      <4>1. k + 1 \in i..(j - 1) /\ ~ (k >= k + 1)
        BY <2>3, <3>2
      <4>2. k + 1 \notin K
        BY <2>2, <4>1
      <4> QED BY <2>3, <4>1, <4>2
    <3> QED BY <3>1, <3>2
  <2>5. f[k] <= lo /\ lo <= f[k + 1] /\ lo \in lo..hi
    BY <2>3, <2>4
  <2> QED BY <2>3, <2>5
<1>3. CASE f[i] > hi
  <2> DEFINE K == {k \in i..(j - 1) : f[k] > hi}
  <2>1. K \in SUBSET Int /\ K # {} /\ IsFiniteSet(K)
    <3>1. IsFiniteSet(i..(j - 1))
      BY FS_Interval
    <3>2. IsFiniteSet(K)
      BY <3>1, FS_Subset
    <3> QED BY <1>0, <1>3, <3>2
  <2>2. PICK k \in K : \A l \in K : k >= l
    <3> HIDE DEF K
    <3> QED BY <2>1, HasMax
  <2>3. k \in i..(j - 1) /\ f[k] > hi /\ k + 1 \in i..j /\ f[k] \in Int /\ f[k + 1] \in Int
    BY <2>2
  <2>4. f[k + 1] <= hi
    <3>1. CASE k + 1 = j
      BY <1>0, <1>3, <3>1
    <3>2. CASE k + 1 # j
      <4>1. k + 1 \in i..(j - 1) /\ ~ (k >= k + 1)
        BY <2>3, <3>2
      <4>2. k + 1 \notin K
        BY <2>2, <4>1
      <4> QED BY <2>3, <4>1, <4>2
    <3> QED BY <3>1, <3>2
  <2>5. f[k + 1] <= hi /\ hi <= f[k] /\ hi \in lo..hi
    BY <2>3, <2>4
  <2> QED BY <2>3, <2>5
<1> QED BY <1>0, <1>1, <1>2, <1>3

(* The height of a line where it enters a tile, on either side of the tile's *)
(* lower side: what the fixed point loses is made up for by the room that   *)
(* fractions of so small a denominator leave.                               *)
Ratio(N, k) == (One * k) \div N
Raised(base, rise, t) == (One * base + rise * t) \div One
LEMMA Slope ==
  ASSUME NEW P \in Nat, P > 0, NEW w \in Nat, w > 0, NEW h \in Int, NEW g \in Nat,
         g = h \/ g = 0 - h, 2 * (w * g) <= One, NEW X \in Nat, NEW B \in Int,
         NEW base \in Int
  PROVE  LET y == Raised(base, 2 * P * h, Ratio(2 * P * w, P * X))
         IN /\ X * h > w * B => y >= base + P * B
            /\ X * h < w * B => y < base + P * B
<1>0. One \in Nat /\ One > 0
  BY ConstantsAssumption DEF ConstantsAssumption
<1>1. PICK R \in Int : /\ R = Ratio(2 * P * w, P * X)
                       /\ (2 * w) * R <= One * X /\ One * X + 1 <= (2 * w) * R + 2 * w
  <2> DEFINE n == One * (P * X)
             m == 2 * P * w
             q == n \div m
  <2>1. n \in Nat /\ m \in Nat /\ m > 0
    <3>1. P * w > 0 /\ P * w \in Nat /\ m = 2 * (P * w) /\ P * X \in Nat
      OBVIOUS
    <3> QED BY <1>0, <3>1
  <2>2. q \in Int /\ m * q <= n /\ n < m * q + m
    <3> HIDE DEF n, m
    <3> QED BY <2>1
  <2>3. q = Ratio(2 * P * w, P * X)
    BY DEF Ratio
  <2> HIDE DEF q
  <2>4. PICK u \in Int : u = (2 * w) * q
    BY <2>2
  <2>5. PICK v \in Int : v = One * X
    BY <1>0
  <2>6. m * q = P * u /\ n = P * v /\ m = P * (2 * w)
    BY <1>0, <2>2, <2>4, <2>5
  <2>7. P * (u + 2 * w) = P * u + P * (2 * w)
    OBVIOUS
  <2>8. v < u => P * v < P * u
    BY ProductOrder
  <2>9. u + 2 * w <= v => P * (u + 2 * w) <= P * v
    BY ProductOrder
  <2>10. P * u \in Int /\ P * v \in Int /\ P * (2 * w) \in Int
    OBVIOUS
  <2>11. u <= v /\ v < u + 2 * w
    <3> HIDE DEF n, m
    <3> QED BY <2>2, <2>6, <2>7, <2>8, <2>9, <2>10
  <2> QED BY <2>2, <2>3, <2>4, <2>5, <2>11
<1>2. PICK y \in Int : /\ y = Raised(base, 2 * P * h, R)
                       /\ \A z \in Int : y >= z <=> One * base + (2 * P * h) * R >= One * z
  <2> DEFINE n == One * base + (2 * P * h) * R
  <2>1. n \in Int
    BY <1>0
  <2>2. n \div One \in Int /\ \A z \in Int : n \div One >= z <=> n >= One * z
    <3> HIDE DEF n
    <3> QED BY <1>0, <2>1, Floors
  <2> QED BY <2>2 DEF Raised
<1>3. PICK s \in Int : s = (2 * h) * R
  OBVIOUS
<1>4. y >= base + P * B <=> s >= One * B
  <2>1. One * (base + P * B) = One * base + P * (One * B)
    BY <1>0
  <2>2. (2 * P * h) * R = P * s
    BY <1>3
  <2>3. One * base \in Int /\ One * B \in Int /\ P * s \in Int /\ P * (One * B) \in Int
        /\ base + P * B \in Int
    BY <1>0
  <2>4. y >= base + P * B <=> One * base + P * s >= One * base + P * (One * B)
    BY <1>2, <2>1, <2>2, <2>3
  <2>5. P * s >= P * (One * B) <=> s >= One * B
    <3>1. One * B <= s => P * (One * B) <= P * s
      BY <2>3, ProductOrder
    <3>2. s < One * B => P * s < P * (One * B)
      BY <2>3, ProductOrder
    <3> QED BY <2>3, <3>1, <3>2
  <2> QED BY <2>3, <2>4, <2>5
<1>5. PICK x \in Int : x = X * h
  OBVIOUS
<1>6. PICK b \in Int : b = w * B
  OBVIOUS
<1>7. PICK o \in Int : o = One * B
  BY <1>0
<1>8. w * s >= w * o <=> s >= o
  <2>1. o <= s => w * o <= w * s
    BY ProductOrder
  <2>2. s < o => w * s < w * o
    BY ProductOrder
  <2>3. w * s \in Int /\ w * o \in Int
    OBVIOUS
  <2> QED BY <2>1, <2>2, <2>3
<1>9. w * o = One * b
  BY <1>0, <1>6, <1>7
<1>10. PICK u \in Int : u = (2 * w) * R
  BY <1>1
<1>11. w * s = h * u
  BY <1>1, <1>3, <1>10
<1>12. /\ x > b => One * x >= One * b + One
       /\ x < b => One * x + One <= One * b
  <2>1. b + 1 <= x => One * (b + 1) <= One * x
    BY <1>0, ProductOrder
  <2>2. x + 1 <= b => One * (x + 1) <= One * b
    BY <1>0, ProductOrder
  <2>3. One * (b + 1) = One * b + One /\ One * (x + 1) = One * x + One
    BY <1>0
  <2>4. One * b \in Int /\ One * x \in Int
    BY <1>0
  <2> QED BY <1>0, <2>1, <2>2, <2>3, <2>4
<1>13. PICK v \in Int : v = One * X /\ u <= v /\ v + 1 <= u + 2 * w
  BY <1>0, <1>1, <1>10
<1>14. g * u <= g * v /\ g * (v + 1) <= g * (u + 2 * w)
  BY <1>13, ProductOrder
<1>15. g * (v + 1) = g * v + g /\ g * (u + 2 * w) = g * u + 2 * (w * g)
  OBVIOUS
<1>16. g * u \in Int /\ g * v \in Int /\ One * x \in Int /\ One * b \in Int
       /\ w * s \in Int /\ w * o \in Int /\ w * g \in Int
  BY <1>0
<1>17. CASE h >= 0 /\ g = h
  <2>1. g * u = w * s /\ g * v = One * x
    BY <1>0, <1>5, <1>11, <1>13, <1>17
  <2>2. x < b => w * s < One * b
    BY <1>0, <1>12, <1>14, <1>16, <2>1
  <2>3. x > b => w * s > One * b - w
    <3>1. x > b => w * s + One >= One * b + One + g
      BY <1>0, <1>12, <1>14, <1>15, <1>16, <2>1
    <3> QED BY <1>0, <1>16, <3>1
  <2>4. x > b => s >= o
    <3>1. s <= o - 1 => w * s <= w * (o - 1)
      BY ProductOrder
    <3>2. w * (o - 1) = w * o - w
      OBVIOUS
    <3> QED BY <1>9, <1>16, <2>3, <3>1, <3>2
  <2>5. x < b => ~ (s >= o)
    BY <1>8, <1>9, <1>16, <2>2
  <2> QED BY <1>1, <1>2, <1>4, <1>5, <1>6, <1>7, <2>4, <2>5
<1>18. CASE g = 0 - h
  <2>1. g * u = 0 - w * s /\ g * v = 0 - One * x
    BY <1>0, <1>5, <1>11, <1>13, <1>18
  <2>2. x > b => w * s >= One * b
    BY <1>0, <1>12, <1>14, <1>16, <2>1
  <2>3. x < b => w * s <= One * b - g /\ w * s < One * b
    <3>1. x < b => w * s + g + One <= One * b + 2 * (w * g)
      BY <1>0, <1>12, <1>14, <1>15, <1>16, <2>1
    <3>2. x < b /\ g = 0 => w * s + One <= One * b
      <4>1. g = 0 => w * g = 0
        OBVIOUS
      <4> QED BY <1>0, <1>16, <3>1, <4>1
    <3> QED BY <1>0, <1>16, <3>1, <3>2
  <2>4. x > b => s >= o
    BY <1>8, <1>9, <1>16, <2>2
  <2>5. x < b => ~ (s >= o)
    BY <1>8, <1>9, <1>16, <2>3
  <2> QED BY <1>1, <1>2, <1>4, <1>5, <1>6, <1>7, <2>4, <2>5
<1>19. h < 0 => g = 0 - h
  OBVIOUS
<1>20. h >= 0 => g = h \/ g = 0 - h
  OBVIOUS
<1> QED BY <1>17, <1>18, <1>19, <1>20

(* A line between the centers of two tiles of different columns, drawn for  *)
(* each unit of length from left to right, meets each tile whose inside it  *)
(* crosses.                                                                 *)
Slanted(f, P, r0, w, h) ==
  \A k \in 0 .. 2 * P * w :
    f[k] = Raised(P * (2 * r0 + 1), 2 * P * h, Ratio(2 * P * w, k))
Splits(w, h, A, B) ==
  /\ h >= 0 => w * B < h * (A + 2) /\ h * A < w * (B + 2)
  /\ h < 0 => w * B < h * A /\ h * (A + 2) < w * (B + 2)
Meets(f, P, w, c0, c, r) ==
  \E k \in 0 .. 2 * P * w - 1 : \E y \in 2 * P * r .. 2 * P * r + 2 * P - 1 :
    /\ (f[k] <= y /\ y <= f[k + 1]) \/ (f[k + 1] <= y /\ y <= f[k])
    /\ 2 * P * c <= P * (2 * c0 + 1) + k /\ P * (2 * c0 + 1) + k < 2 * P * c + 2 * P

(* The heights of a line whose sides split a tile's corners meet the tile,  *)
(* in a step that is within its column.                                     *)
LEMMA LineMeetsTile ==
  ASSUME NEW P \in Nat, P > 0,
         NEW c0 \in Int, NEW c1 \in Int, NEW r0 \in Int, NEW r1 \in Int,
         NEW c \in Int, NEW r \in Int,
         c0 < c1, c0 <= c, c <= c1, Between(r0, r1, r),
         NEW A \in Int, A = 2 * (c - c0) - 1, NEW B \in Int, B = 2 * (r - r0) - 1,
         NEW w \in Int, w = c1 - c0, NEW h \in Int, h = r1 - r0,
         NEW g \in Nat, g = h \/ g = 0 - h, 2 * (w * g) <= One,
         Splits(w, h, A, B), NEW f, Slanted(f, P, r0, w, h)
  PROVE  Meets(f, P, w, c0, c, r)
<1> USE DEF Splits, Slanted, Meets
<1> DEFINE N == 2 * P * w
           i == IF c = c0 THEN 0 ELSE P * A
           j == IF c = c1 THEN N ELSE P * (A + 2)
           lo == 2 * P * r
           hi == 2 * P * r + 2 * P - 1
           base == P * (2 * r0 + 1)
<1>0. One \in Nat /\ One > 0
  BY ConstantsAssumption DEF ConstantsAssumption
<1>1. w \in Nat /\ w > 0 /\ N \in Nat /\ N > 0 /\ 2 * P * h \in Int
  <2>1. w \in Nat /\ w > 0
    OBVIOUS
  <2>2. P * w > 0 /\ P * w \in Nat
    BY <2>1
  <2> QED BY <2>1, <2>2
<1>2. ASSUME NEW k \in 0..N PROVE f[k] \in Int
  <2>1. One * k \in Int /\ One \in Nat /\ One > 0
    BY <1>0, <1>1
  <2>2. Ratio(N, k) \in Int
    BY <1>1, <2>1, Floors DEF Ratio
  <2> DEFINE n == One * (P * (2 * r0 + 1)) + (2 * P * h) * Ratio(N, k)
  <2>3. n \in Int
    BY <1>1, <2>1, <2>2
  <2>4. n \div One \in Int
    <3> HIDE DEF n
    <3> QED BY <2>1, <2>3, Floors
  <2> QED BY <2>4 DEF Raised
<1>3. lo \in Int /\ hi \in Int /\ base \in Int /\ lo <= hi
  OBVIOUS
<1>4. lo - base = P * B /\ lo + 2 * P - base = P * (B + 2)
  OBVIOUS
<1>5. ASSUME NEW X \in Int, P * X \in 0..N
      PROVE  /\ X * h > w * B => f[P * X] >= lo
             /\ X * h < w * (B + 2) => f[P * X] <= hi
  <2> DEFINE y == Raised(base, 2 * P * h, Ratio(N, P * X))
  <2>0. X \in Nat
    <3>1. X < 0 => P * X < P * 0
      BY ProductOrder
    <3> QED BY <1>5, <3>1
  <2>1. X * h > w * B => y >= base + P * B
    BY <1>1, <1>3, <2>0, Slope
  <2>2. X * h < w * (B + 2) => y < base + P * (B + 2)
    <3>1. PICK D \in Int : D = B + 2
      OBVIOUS
    <3>2. X * h < w * D => y < base + P * D
      BY <1>1, <1>3, <2>0, Slope
    <3> QED BY <3>1, <3>2
  <2>3. f[P * X] = y /\ f[P * X] \in Int
    BY <1>2, <1>5
  <2> HIDE DEF y, base
  <2> QED BY <1>3, <1>4, <2>1, <2>2, <2>3
<1>6. f[0] = base
  <2>1. Ratio(N, 0) = 0
    <3>1. One * 0 = 0 /\ N * 0 <= 0 /\ 0 < N * (0 + 1)
      BY <1>0, <1>1
    <3> QED BY <1>1, <3>1, Floors DEF Ratio
  <2>2. Raised(base, 2 * P * h, 0) = base
    <3>1. One * base + (2 * P * h) * 0 = One * base /\ One * base \in Int
          /\ One * (base + 1) = One * base + One
      BY <1>0, <1>1, <1>3
    <3> HIDE DEF base
    <3> QED BY <1>0, <1>3, <3>1, Floors DEF Raised
  <2> QED BY <1>1, <2>1, <2>2
<1>7. f[N] = base + 2 * P * h
  <2> DEFINE q == 2 * P * h
  <2>1. Ratio(N, N) = One
    <3>1. One * N = N * One /\ N * One \in Int /\ N * (One + 1) = N * One + N
      <4> HIDE DEF N
      <4> QED BY <1>0, <1>1
    <3> HIDE DEF N
    <3> QED BY <1>0, <1>1, <3>1, Floors DEF Ratio
  <2>2. Raised(base, q, One) = base + q
    <3>1. One * base + q * One = One * (base + q) /\ One * (base + q) \in Int
          /\ One * (base + q + 1) = One * (base + q) + One /\ base + q \in Int
      <4>1. q \in Int
        BY <1>1
      <4> HIDE DEF q, base
      <4> QED BY <1>0, <1>3, <4>1
    <3> HIDE DEF base, q
    <3> QED BY <1>0, <3>1, Floors DEF Raised
  <2>3. f[N] = Raised(base, q, Ratio(N, N))
    BY <1>1
  <2> QED BY <2>1, <2>2, <2>3
<1>8. /\ i \in Int /\ j \in Int /\ i >= 0 /\ i < j /\ j <= N
      /\ P * (2 * c0 + 1) + i >= 2 * P * c
      /\ P * (2 * c0 + 1) + j <= 2 * P * c + 2 * P
  <2>1. PICK a \in Int : a = c - c0
    OBVIOUS
  <2>2. PICK b \in Int : b = c1 - c
    OBVIOUS
  <2>3. P * a \in Int /\ P * b \in Int
    BY <2>1, <2>2
  <2>4. /\ P * A = 2 * (P * a) - P /\ P * (A + 2) = 2 * (P * a) + P
        /\ N = 2 * (P * a) + 2 * (P * b)
        /\ 2 * P * c = 2 * (P * a) + 2 * P * c0
        /\ P * (2 * c0 + 1) = 2 * P * c0 + P
        /\ 2 * P * c0 \in Int
    BY <2>1, <2>2
  <2>5. a >= 0 /\ b >= 0 /\ (c # c0 => a >= 1) /\ (c # c1 => b >= 1) /\ (c = c0 => a = 0) /\ (c = c1 => b = 0)
    BY <2>1, <2>2
  <2>6. /\ P * a >= 0 /\ P * b >= 0 /\ (a >= 1 => P * a >= P) /\ (b >= 1 => P * b >= P)
        /\ (a = 0 => P * a = 0) /\ (b = 0 => P * b = 0)
    BY <2>1, <2>2, <2>5
  <2>7. a = 0 => b >= 1
    BY <2>1, <2>2
  <2>8. PICK x \in Int : x = P * a
    BY <2>3
  <2>9. PICK z \in Int : z = P * b
    BY <2>3
  <2>10. PICK e \in Int : e = 2 * P * c0
    BY <2>4
  <2>11. /\ i = IF c = c0 THEN 0 ELSE 2 * x - P
         /\ j = IF c = c1 THEN 2 * x + 2 * z ELSE 2 * x + P
         /\ N = 2 * x + 2 * z /\ 2 * P * c = 2 * x + e /\ P * (2 * c0 + 1) = e + P
    BY <2>4, <2>8, <2>9, <2>10
  <2>12. /\ x >= 0 /\ z >= 0 /\ (c # c0 => x >= P) /\ (c # c1 => z >= P)
         /\ (c = c0 => x = 0) /\ (c = c1 => z = 0)
    BY <2>5, <2>6, <2>8, <2>9
  <2> HIDE DEF i, j, N
  <2> QED BY <2>11, <2>12
<1>9. ~ (f[i] < lo /\ f[j] < lo) /\ ~ (f[i] > hi /\ f[j] > hi)
  <2>0. f[i] \in Int /\ f[j] \in Int /\ i \in 0..N /\ j \in 0..N
    <3>1. i \in 0..N /\ j \in 0..N
      <4> HIDE DEF i, j, N
      <4> QED BY <1>1, <1>8
    <3> QED BY <1>2, <3>1
  <2>1. h * A = A * h /\ h * (A + 2) = (A + 2) * h /\ A * h \in Int /\ (A + 2) * h \in Int
        /\ w * B \in Int /\ w * (B + 2) \in Int
    BY <1>1
  <2>2. CASE h >= 0
    <3>1. r0 <= r /\ r <= r1
      BY <2>2 DEF Between
    <3>2. f[i] <= hi
      <4>1. CASE c = c0
        <5>1. base <= hi
          <6>1. P * (2 * r0 + 1) <= P * (2 * r + 1)
            BY <3>1, ProductOrder
          <6> QED BY <6>1
        <5> QED BY <1>6, <4>1, <5>1
      <4>2. CASE c # c0
        <5>0. P * A \in 0..N
          BY <2>0, <4>2
        <5>1. f[P * A] <= hi
          <6> HIDE DEF i, j, lo, hi, N
          <6>1. A * h < w * (B + 2)
            BY <2>1, <2>2
          <6> QED BY <1>5, <5>0, <6>1
        <5> QED BY <4>2, <5>1
      <4> QED BY <4>1, <4>2
    <3>3. f[j] >= lo
      <4>1. CASE c = c1
        <5>1. base + 2 * P * h >= lo
          <6>1. P * (2 * r1 + 1) >= P * (2 * r)
            BY <3>1, ProductOrder
          <6>2. base + 2 * P * h = P * (2 * r1 + 1)
            OBVIOUS
          <6> QED BY <6>1, <6>2
        <5> QED BY <1>7, <4>1, <5>1
      <4>2. CASE c # c1
        <5>0. P * (A + 2) \in 0..N
          BY <2>0, <4>2
        <5>1. f[P * (A + 2)] >= lo
          <6> HIDE DEF i, j, lo, hi, N
          <6>1. A + 2 \in Int
            OBVIOUS
          <6>2. (A + 2) * h > w * B
            BY <2>1, <2>2
          <6> QED BY <1>5, <5>0, <6>1, <6>2
        <5> QED BY <4>2, <5>1
      <4> QED BY <4>1, <4>2
    <3> HIDE DEF i, j, lo, hi
    <3> QED BY <1>3, <2>0, <3>2, <3>3
  <2>3. CASE h < 0
    <3>1. r1 <= r /\ r <= r0
      BY <2>3 DEF Between
    <3>2. f[i] >= lo
      <4>1. CASE c = c0
        <5>1. base >= lo
          <6>1. P * (2 * r0 + 1) >= P * (2 * r)
            BY <3>1, ProductOrder
          <6> QED BY <6>1
        <5> QED BY <1>6, <4>1, <5>1
      <4>2. CASE c # c0
        <5>0. P * A \in 0..N
          BY <2>0, <4>2
        <5>1. f[P * A] >= lo
          <6> HIDE DEF i, j, lo, hi, N
          <6>1. A * h > w * B
            BY <2>1, <2>3
          <6> QED BY <1>5, <5>0, <6>1
        <5> QED BY <4>2, <5>1
      <4> QED BY <4>1, <4>2
    <3>3. f[j] <= hi
      <4>1. CASE c = c1
        <5>1. base + 2 * P * h <= hi
          <6>1. P * (2 * r1 + 1) <= P * (2 * r + 1)
            BY <3>1, ProductOrder
          <6>2. base + 2 * P * h = P * (2 * r1 + 1)
            OBVIOUS
          <6> QED BY <6>1, <6>2
        <5> QED BY <1>7, <4>1, <5>1
      <4>2. CASE c # c1
        <5>0. P * (A + 2) \in 0..N
          BY <2>0, <4>2
        <5>1. f[P * (A + 2)] <= hi
          <6> HIDE DEF i, j, lo, hi, N
          <6>1. A + 2 \in Int
            OBVIOUS
          <6>2. (A + 2) * h < w * (B + 2)
            BY <2>1, <2>3
          <6> QED BY <1>5, <5>0, <6>1, <6>2
        <5> QED BY <4>2, <5>1
      <4> QED BY <4>1, <4>2
    <3> HIDE DEF i, j, lo, hi
    <3> QED BY <1>3, <2>0, <3>2, <3>3
  <2> QED BY <2>2, <2>3
<1>10. PICK k \in i..(j - 1) : \E y \in lo..hi :
         (f[k] <= y /\ y <= f[k + 1]) \/ (f[k + 1] <= y /\ y <= f[k])
  <2> HIDE DEF i, j, lo, hi, N
  <2>1. \A k \in i..j : f[k] \in Int
    BY <1>1, <1>2, <1>8
  <2>2. Straddles(f, i, j, lo, hi)
    BY <1>9, <2>1 DEF Straddles
  <2>3. Passes(f, i, j, lo, hi)
    BY <1>3, <1>8, <2>2, Ladder
  <2> QED BY <2>3 DEF Passes
<1>11. /\ k \in 0 .. N - 1
       /\ 2 * P * c <= P * (2 * c0 + 1) + k /\ P * (2 * c0 + 1) + k < 2 * P * c + 2 * P
  <2>1. P * (2 * c0 + 1) \in Int /\ 2 * P * c \in Int
    OBVIOUS
  <2> HIDE DEF i, j, N
  <2> QED BY <1>1, <1>8, <1>10, <2>1
<1> QED BY <1>10, <1>11

(* Which corners of a tile are on the sides of a line, by its slope. *)
LEMMA Corners ==
  ASSUME NEW w \in Nat, NEW h \in Int, NEW A \in Int, NEW B \in Int,
         NEW a1 \in {A, A + 2}, NEW a2 \in {A, A + 2},
         NEW b1 \in {B, B + 2}, NEW b2 \in {B, B + 2},
         w * b1 - h * a1 < 0, w * b2 - h * a2 > 0
  PROVE  Splits(w, h, A, B)
<1> USE DEF Splits
<1>1. /\ a1 \in Int /\ a2 \in Int /\ b1 \in Int /\ b2 \in Int /\ A + 2 \in Int /\ B + 2 \in Int
      /\ A <= a1 /\ a1 <= A + 2 /\ A <= a2 /\ a2 <= A + 2
      /\ B <= b1 /\ b1 <= B + 2 /\ B <= b2 /\ b2 <= B + 2
  OBVIOUS
<1>2. w * B <= w * b1 /\ w * b2 <= w * (B + 2)
  BY <1>1, ProductOrder
<1>3. /\ w * B \in Int /\ w * b1 \in Int /\ w * b2 \in Int /\ w * (B + 2) \in Int
      /\ h * a1 \in Int /\ h * a2 \in Int /\ h * A \in Int /\ h * (A + 2) \in Int
  BY <1>1
<1>4. CASE h >= 0
  <2>1. h * a1 <= h * (A + 2) /\ h * A <= h * a2
    BY <1>1, <1>4, ProductOrder
  <2> QED BY <1>2, <1>3, <1>4, <2>1
<1>5. CASE h < 0
  <2>1. PICK g \in Nat : g = 0 - h
    BY <1>5
  <2>2. g * A <= g * a1 /\ g * a2 <= g * (A + 2)
    BY <1>1, ProductOrder
  <2>3. \A x \in Int : g * x = 0 - h * x
    BY <2>1
  <2>4. g * A = 0 - h * A /\ g * a1 = 0 - h * a1 /\ g * a2 = 0 - h * a2 /\ g * (A + 2) = 0 - h * (A + 2)
    BY <1>1, <2>3
  <2>5. h * a1 <= h * A /\ h * (A + 2) <= h * a2
    BY <1>3, <2>2, <2>4
  <2> QED BY <1>2, <1>3, <1>5, <2>5
<1> QED BY <1>4, <1>5

(* A tile is its column and its row; the rows are bounded if the grid is    *)
(* square.                                                                  *)
LEMMA Coordinates ==
  ASSUME NEW t \in Tiles
  PROVE  /\ Column(t) \in Nat /\ Column(t) < Width /\ Row(t) \in Nat
         /\ t = Column(t) + Row(t) * Width
         /\ NbTiles = Width * Width => Row(t) < Width
<1>1. t \in Nat /\ t < NbTiles /\ Width \in Nat /\ Width > 0 /\ NbTiles \in Nat
  BY Numbers
<1>2. /\ t % Width \in Nat /\ t % Width < Width /\ t \div Width \in Int
      /\ t = Width * (t \div Width) + (t % Width)
  <2>1. t % Width \in Nat /\ t % Width < Width
    BY <1>1
  <2>2. t = Width * (t \div Width) + (t % Width)
    BY <1>1, Division, Zenon
  <2>3. t \div Width \in Int
    BY <1>1
  <2> QED BY <2>1, <2>2, <2>3
<1>3. t \div Width >= 0
  <2>1. t \div Width >= 0 <=> t >= Width * 0
    BY <1>1, Floors
  <2> QED BY <1>1, <2>1
<1>4. NbTiles = Width * Width => t \div Width < Width
  <2>1. t \div Width >= Width <=> t >= Width * Width
    BY <1>1, Floors
  <2> QED BY <1>1, <1>2, <2>1
<1>5. Width * (t \div Width) = (t \div Width) * Width
  BY <1>1, <1>2
<1>6. Column(t) = t % Width /\ Row(t) = t \div Width
  BY DEF Column, Row
<1>7. t = (t % Width) + (t \div Width) * Width
  BY <1>1, <1>2, <1>5
<1> QED BY <1>2, <1>3, <1>4, <1>6, <1>7

(* losCheck, from the tile on the left to the one on the right. *)
LosFrom(left, right) ==
  LET range == Center(Column(right)) - Center(Column(left))
      rise == Center(Row(right)) - Center(Row(left))
      Part(k) == IF range = 0 THEN One * k ELSE Ratio(range, k)
      Height(k) == Raised(Center(Row(left)), rise, Part(k))
      Passed(k) == {y \in 0 .. TileSize * Width - 1 :
                      \/ Height(k) <= y /\ y <= Height(k + 1)
                      \/ Height(k + 1) <= y /\ y <= Height(k)}
  IN \A k \in 0 .. (IF range = 0 THEN 0 ELSE range - 1) : \A y \in Passed(k) :
       (Center(Column(left)) + k) \div TileSize + (y \div TileSize) * Width \in accessible

(* losCheck always looks from left to right.                                *)
LEMMA FromLeft ==
  ASSUME NEW a, NEW b
  PROVE  LosCheck(a, b) = IF Column(a) > Column(b) THEN LosFrom(b, a) ELSE LosFrom(a, b)
<1>1. CASE Column(a) > Column(b)
  BY <1>1 DEF LosCheck, LosFrom, Raised, Ratio
<1>2. CASE ~ (Column(a) > Column(b))
  BY <1>2 DEF LosCheck, LosFrom, Raised, Ratio
<1> QED BY <1>1, <1>2

(* Seen from the left, the tiles of one column. *)
LEMMA ColumnClear ==
  ASSUME NbTiles = Width * Width, NEW a \in Tiles, NEW b \in Tiles, LosFrom(a, b),
         Column(a) = Column(b), NEW t \in Crossed(a, b)
  PROVE  t \in accessible
<1>1. PICK P \in Nat : P > 0 /\ TileSize = 2 * P /\ TileSize \div 2 = P
  BY ConstantsAssumption DEF ConstantsAssumption
<1>2. \A n : Center(n) = 2 * P * n + P
  BY <1>1 DEF Center
<1> DEFINE c == Column(t)
           r == Row(t)
           rise == Center(Row(b)) - Center(Row(a))
           height(k) == Raised(Center(Row(a)), rise, One * k)
<1>3. t \in Tiles /\ Between(Column(a), Column(b), c) /\ Between(Row(a), Row(b), r)
  BY DEF Crossed
<1>4. /\ c \in Nat /\ c < Width /\ r \in Nat /\ r < Width /\ t = c + r * Width
      /\ Column(a) \in Nat /\ Row(a) \in Nat /\ Row(b) \in Nat /\ Width \in Nat
  BY <1>3, Coordinates, Numbers
<1>5. c = Column(a)
  BY <1>3, <1>4, Coordinates DEF Between
<1> HIDE DEF c, r
<1>6. /\ Center(Row(a)) \in Int /\ Center(Row(b)) \in Int /\ Center(c) \in Int /\ Center(r) \in Int
      /\ Center(Column(b)) - Center(Column(a)) = 0
  BY <1>2, <1>4
<1>7. \A y \in 0 .. TileSize * Width - 1 :
        \/ height(0) <= y /\ y <= height(0 + 1)
        \/ height(0 + 1) <= y /\ y <= height(0)
        => (Center(Column(a)) + 0) \div TileSize + (y \div TileSize) * Width \in accessible
  BY <1>6 DEF LosFrom
<1>8. Center(r) \in 0 .. TileSize * Width - 1
  <2>1. P * (2 * r + 1) < P * (2 * Width)
    BY <1>1, <1>4, ProductOrder
  <2>2. Center(r) = P * (2 * r + 1)
    BY <1>1, <1>2, <1>4
  <2>3. TileSize * Width = P * (2 * Width) /\ TileSize * Width \in Int
    BY <1>1, <1>4
  <2>4. P * (2 * r + 1) >= 0 /\ P * (2 * r + 1) \in Int
    BY <1>1, <1>4
  <2> QED BY <2>1, <2>2, <2>3, <2>4
<1>9. \/ Center(Row(a)) <= Center(r) /\ Center(r) <= Center(Row(b))
      \/ Center(Row(b)) <= Center(r) /\ Center(r) <= Center(Row(a))
  <2>1. \A m, n \in Nat : m <= n => Center(m) <= Center(n)
    <3> SUFFICES ASSUME NEW m \in Nat, NEW n \in Nat, m <= n PROVE Center(m) <= Center(n)
      OBVIOUS
    <3>1. P * (2 * m + 1) <= P * (2 * n + 1)
      BY <1>1, ProductOrder
    <3> QED BY <1>2, <3>1
  <2> QED BY <1>3, <1>4, <2>1 DEF Between
<1>10. height(0) = Center(Row(a)) /\ height(0 + 1) = Center(Row(b))
  <2> DEFINE m == Center(Row(a))
             n == Center(Row(b))
  <2>1. m \in Int /\ n \in Int /\ rise = n - m /\ One \in Nat /\ One > 0
    BY <1>6, ConstantsAssumption DEF ConstantsAssumption
  <2> HIDE DEF m, n, rise
  <2>2. One * m + rise * (One * 0) = One * m /\ One * m + rise * (One * (0 + 1)) = One * n
    BY <2>1
  <2>3. \A z \in Int : (One * z) \div One = z
    <3> SUFFICES ASSUME NEW z \in Int PROVE (One * z) \div One = z
      OBVIOUS
    <3>1. One * z \in Int /\ One * (z + 1) = One * z + One
      BY <2>1
    <3> QED BY <2>1, <3>1, Floors
  <2>4. height(0) = (One * m + rise * (One * 0)) \div One
        /\ height(0 + 1) = (One * m + rise * (One * (0 + 1))) \div One
    BY DEF m, Raised
  <2> QED BY <2>1, <2>2, <2>3, <2>4 DEF m, n
<1>11. (Center(Column(a)) + 0) \div TileSize + (Center(r) \div TileSize) * Width \in accessible
  <2> HIDE DEF rise, height
  <2> QED BY <1>7, <1>8, <1>9, <1>10
<1>12. ASSUME NEW n \in Nat PROVE Center(n) \div TileSize = n
  <2>1. /\ TileSize \in Nat /\ TileSize > 0 /\ Center(n) \in Int
        /\ TileSize * n <= Center(n) /\ Center(n) < TileSize * (n + 1)
    BY <1>1, <1>2
  <2> QED BY <2>1, Floors
<1>13. (Center(Column(a)) + 0) \div TileSize = c /\ Center(r) \div TileSize = r
  BY <1>4, <1>5, <1>6, <1>12
<1> QED BY <1>4, <1>11, <1>13

(* The fixed point is fine enough for the slopes of the grid. *)
Fine == 2 * ((Width - 1) * (Width - 1)) <= One

(* Seen from the left, the tiles along a slope. *)
LEMMA SlopeClear ==
  ASSUME NbTiles = Width * Width, Fine, NEW a \in Tiles, NEW b \in Tiles, LosFrom(a, b),
         Column(a) < Column(b), NEW t \in Crossed(a, b)
  PROVE  t \in accessible
<1>1. PICK P \in Nat : P > 0 /\ TileSize = 2 * P /\ TileSize \div 2 = P
  BY ConstantsAssumption DEF ConstantsAssumption
<1>2. \A n : Center(n) = 2 * P * n + P
  BY <1>1 DEF Center
<1>3. /\ t \in Tiles /\ Between(Column(a), Column(b), Column(t))
      /\ Between(Row(a), Row(b), Row(t))
      /\ \E x1, x2 \in {Column(t), Column(t) + 1}, y1, y2 \in {Row(t), Row(t) + 1} :
           Side(a, b, x1, y1) < 0 /\ Side(a, b, x2, y2) > 0
  BY DEF Crossed
<1>4. PICK c \in Nat : c = Column(t)
  BY <1>3, Coordinates
<1>5. PICK r \in Nat : r = Row(t)
  BY <1>3, Coordinates
<1>6. PICK c0 \in Nat : c0 = Column(a)
  BY Coordinates
<1>7. PICK c1 \in Nat : c1 = Column(b)
  BY Coordinates
<1>8. PICK r0 \in Nat : r0 = Row(a)
  BY Coordinates
<1>9. PICK r1 \in Nat : r1 = Row(b)
  BY Coordinates
<1>10. /\ c0 < c1 /\ c0 <= c /\ c <= c1 /\ Between(r0, r1, r)
       /\ c < Width /\ r < Width /\ t = c + r * Width /\ Width \in Nat
  <2>1. c < Width /\ r < Width /\ t = c + r * Width /\ Width \in Nat
    BY <1>3, <1>4, <1>5, Coordinates, Numbers
  <2>2. c0 < c1 /\ Between(c0, c1, c) /\ Between(r0, r1, r)
    BY <1>3, <1>4, <1>5, <1>6, <1>7, <1>8, <1>9
  <2>3. c0 <= c /\ c <= c1
    BY <2>2 DEF Between
  <2> QED BY <2>1, <2>2, <2>3
<1>11. PICK A \in Int : A = 2 * (c - c0) - 1
  OBVIOUS
<1>12. PICK B \in Int : B = 2 * (r - r0) - 1
  OBVIOUS
<1>13. PICK w \in Nat : w = c1 - c0 /\ w > 0
  BY <1>10
<1>14. PICK h \in Int : h = r1 - r0
  OBVIOUS
<1>15. PICK x1 \in {c, c + 1}, x2 \in {c, c + 1}, y1 \in {r, r + 1}, y2 \in {r, r + 1} :
         /\ w * (2 * y1 - 2 * r0 - 1) - h * (2 * x1 - 2 * c0 - 1) < 0
         /\ w * (2 * y2 - 2 * r0 - 1) - h * (2 * x2 - 2 * c0 - 1) > 0
  BY <1>3, <1>4, <1>5, <1>6, <1>7, <1>8, <1>9, <1>13, <1>14 DEF Side
<1>16. Splits(w, h, A, B)
  <2>1. /\ 2 * x1 - 2 * c0 - 1 \in {A, A + 2} /\ 2 * x2 - 2 * c0 - 1 \in {A, A + 2}
    BY <1>11
  <2>2. /\ 2 * y1 - 2 * r0 - 1 \in {B, B + 2} /\ 2 * y2 - 2 * r0 - 1 \in {B, B + 2}
    BY <1>12
  <2> QED BY <1>15, <2>1, <2>2, Corners
<1> DEFINE f == [k \in 0 .. 2 * P * w |->
                   Raised(P * (2 * r0 + 1), 2 * P * h, Ratio(2 * P * w, k))]
<1>17. Slanted(f, P, r0, w, h)
  BY DEF Slanted
<1> HIDE DEF f
<1>18. PICK k \in 0 .. 2 * P * w - 1, y \in 2 * P * r .. 2 * P * r + 2 * P - 1 :
         /\ (f[k] <= y /\ y <= f[k + 1]) \/ (f[k + 1] <= y /\ y <= f[k])
         /\ 2 * P * c <= P * (2 * c0 + 1) + k /\ P * (2 * c0 + 1) + k < 2 * P * c + 2 * P
  <2>1. /\ c \in Int /\ r \in Int /\ c0 \in Int /\ c1 \in Int /\ r0 \in Int /\ r1 \in Int /\ w \in Int
    OBVIOUS
  <2>2. Meets(f, P, w, c0, c, r)
    <3>1. PICK g \in Nat : (g = h \/ g = 0 - h) /\ g <= Width - 1
      <4>1. r0 < Width /\ r1 < Width
        BY <1>8, <1>9, Coordinates
      <4>2. h <= Width - 1 /\ 0 - h <= Width - 1
        BY <1>10, <1>14, <4>1
      <4>3. CASE h >= 0
        BY <4>2, <4>3
      <4>4. CASE h < 0
        <5>1. 0 - h \in Nat
          BY <4>4
        <5> QED BY <4>2, <5>1
      <4> QED BY <4>3, <4>4
    <3>2. 2 * (w * g) <= One
      <4>1. w <= Width - 1
        BY <1>6, <1>7, <1>10, <1>13, Coordinates
      <4>2. PICK v \in Nat : v = Width - 1
        BY <1>10, <4>1
      <4>3. w * g <= w * v /\ v * w <= v * v
        BY <3>1, <4>1, <4>2, ProductOrder
      <4>4. w * v = v * w /\ w * g \in Int /\ w * v \in Int /\ v * v \in Int
        OBVIOUS
      <4>5. 2 * (v * v) <= One /\ One \in Nat
        BY <4>2, ConstantsAssumption DEF Fine, ConstantsAssumption
      <4> QED BY <4>3, <4>4, <4>5
    <3> QED BY <1>1, <1>10, <1>11, <1>12, <1>13, <1>14, <1>16, <1>17, <2>1, <3>1, <3>2, LineMeetsTile
  <2> QED BY <2>2 DEF Meets
<1>19. /\ Center(Column(a)) = P * (2 * c0 + 1) /\ Center(Row(a)) = P * (2 * r0 + 1)
       /\ Center(Column(b)) - Center(Column(a)) = 2 * P * w
       /\ Center(Row(b)) - Center(Row(a)) = 2 * P * h
       /\ 2 * P * w \in Nat /\ 2 * P * w # 0
  BY <1>1, <1>2, <1>6, <1>7, <1>8, <1>9, <1>13, <1>14
<1>20. y \in 0 .. TileSize * Width - 1
  <2>1. P * (r + 1) <= P * Width /\ P * r >= 0 /\ P * (r + 1) = P * r + P /\ P * r \in Int
    BY <1>10, ProductOrder
  <2>2. TileSize * Width = 2 * (P * Width) /\ 2 * P * r = 2 * (P * r) /\ P * Width \in Int
    BY <1>1, <1>10
  <2> QED BY <2>1, <2>2
<1>21. (P * (2 * c0 + 1) + k) \div TileSize + (y \div TileSize) * Width \in accessible
  <2> DEFINE Height(n) == Raised(P * (2 * r0 + 1), 2 * P * h, Ratio(2 * P * w, n))
  <2>1. \A n \in 0 .. 2 * P * w - 1 : \A z \in 0 .. TileSize * Width - 1 :
          \/ Height(n) <= z /\ z <= Height(n + 1)
          \/ Height(n + 1) <= z /\ z <= Height(n)
          => (P * (2 * c0 + 1) + n) \div TileSize + (z \div TileSize) * Width \in accessible
    BY <1>19 DEF LosFrom
  <2>2. k \in 0 .. 2 * P * w /\ k + 1 \in 0 .. 2 * P * w
    BY <1>19
  <2>3. f[k] = Height(k) /\ f[k + 1] = Height(k + 1)
    BY <1>17, <2>2 DEF Slanted
  <2> HIDE DEF Height
  <2> QED BY <1>18, <1>20, <2>1, <2>3
<1>22. (P * (2 * c0 + 1) + k) \div TileSize = c
  <2>1. /\ TileSize \in Nat /\ TileSize > 0 /\ P * (2 * c0 + 1) + k \in Int
        /\ TileSize * c = 2 * P * c /\ TileSize * (c + 1) = 2 * P * c + 2 * P
    BY <1>1
  <2> QED BY <1>18, <2>1, Floors
<1>23. y \div TileSize = r
  <2>1. /\ TileSize \in Nat /\ TileSize > 0 /\ y \in Int
        /\ TileSize * r = 2 * P * r /\ TileSize * (r + 1) = 2 * P * r + 2 * P
    BY <1>1
  <2>2. 2 * P * r <= y /\ y < 2 * P * r + 2 * P
    OBVIOUS
  <2> QED BY <2>1, <2>2, Floors
<1> QED BY <1>10, <1>21, <1>22, <1>23

(* What losCheck has found clear: no tile whose inside the line crosses is  *)
(* taken.                                                                   *)
LEMMA LosClear ==
  ASSUME NbTiles = Width * Width, Fine, NEW a \in Tiles, NEW b \in Tiles, LosCheck(a, b)
  PROVE  Crossed(a, b) \subseteq accessible /\ Crossed(b, a) \subseteq accessible
<1>1. Crossed(a, b) = Crossed(b, a)
  <2>1. PICK c0 \in Int : c0 = Column(a)
    BY Coordinates
  <2>2. PICK c1 \in Int : c1 = Column(b)
    BY Coordinates
  <2>3. PICK r0 \in Int : r0 = Row(a)
    BY Coordinates
  <2>4. PICK r1 \in Int : r1 = Row(b)
    BY Coordinates
  <2>5. ASSUME NEW x \in Int, NEW y \in Int PROVE Side(a, b, x, y) = 0 - Side(b, a, x, y)
    <3>1. Side(a, b, x, y) = (c1 - c0) * (2 * y - 2 * r0 - 1) - (r1 - r0) * (2 * x - 2 * c0 - 1)
      BY <2>1, <2>2, <2>3, <2>4 DEF Side
    <3>2. Side(b, a, x, y) = (c0 - c1) * (2 * y - 2 * r1 - 1) - (r0 - r1) * (2 * x - 2 * c1 - 1)
      BY <2>1, <2>2, <2>3, <2>4 DEF Side
    <3> QED BY <3>1, <3>2
  <2>6. ASSUME NEW x \in Int, NEW y \in Int PROVE Side(a, b, x, y) \in Int /\ Side(b, a, x, y) \in Int
    BY <2>1, <2>2, <2>3, <2>4 DEF Side
  <2>7. ASSUME NEW t \in Tiles PROVE t \in Crossed(a, b) <=> t \in Crossed(b, a)
    <3>1. /\ Column(t) \in Int /\ Row(t) \in Int /\ Column(t) + 1 \in Int /\ Row(t) + 1 \in Int
      BY Coordinates
    <3>2. \A x \in {Column(t), Column(t) + 1}, y \in {Row(t), Row(t) + 1} :
            (Side(a, b, x, y) < 0 <=> Side(b, a, x, y) > 0)
            /\ (Side(a, b, x, y) > 0 <=> Side(b, a, x, y) < 0)
      <4> SUFFICES ASSUME NEW x \in {Column(t), Column(t) + 1}, NEW y \in {Row(t), Row(t) + 1}
                   PROVE  /\ Side(a, b, x, y) < 0 <=> Side(b, a, x, y) > 0
                          /\ Side(a, b, x, y) > 0 <=> Side(b, a, x, y) < 0
        OBVIOUS
      <4>1. x \in Int /\ y \in Int
        BY <3>1
      <4>2. /\ Side(a, b, x, y) = 0 - Side(b, a, x, y)
            /\ Side(a, b, x, y) \in Int /\ Side(b, a, x, y) \in Int
        BY <2>5, <2>6, <4>1
      <4> QED BY <4>2
    <3>3. /\ Between(Column(a), Column(b), Column(t)) <=> Between(Column(b), Column(a), Column(t))
          /\ Between(Row(a), Row(b), Row(t)) <=> Between(Row(b), Row(a), Row(t))
      BY DEF Between
    <3> QED BY <3>2, <3>3 DEF Crossed
  <2> QED BY <2>7 DEF Crossed
<1>2. ASSUME NEW u \in Tiles, NEW v \in Tiles, LosFrom(u, v), Column(u) <= Column(v)
      PROVE  Crossed(u, v) \subseteq accessible
  <2>1. Column(u) \in Nat /\ Column(v) \in Nat
    BY Coordinates
  <2>2. Column(u) = Column(v) \/ Column(u) < Column(v)
    BY <1>2, <2>1
  <2> QED BY <1>2, <2>2, ColumnClear, SlopeClear
<1>3. Column(a) \in Nat /\ Column(b) \in Nat
  BY Coordinates
<1>4. CASE Column(a) > Column(b)
  <2>1. LosFrom(b, a) /\ Column(b) <= Column(a)
    BY <1>3, <1>4, FromLeft
  <2> QED BY <1>1, <1>2, <2>1
<1>5. CASE ~ (Column(a) > Column(b))
  <2>1. LosFrom(a, b) /\ Column(a) <= Column(b)
    BY <1>3, <1>5, FromLeft
  <2> QED BY <1>1, <1>2, <2>1
<1> QED BY <1>4, <1>5

-----------------------------------------------------------------------------
(* The inductive invariant of the lines of sight: each that is marked clear *)
(* was found so on the accessible tiles of the revision of the cache.       *)
SightInv ==
  /\ synced = revision => accessible = free
  /\ \A d, t \in Tiles : sight[d][t] = 1 => LosCheck(t, d) \/ LosCheck(d, t)

(* consolidate_path keeps it.                                               *)
LEMMA SightConsolidate ==
  ASSUME \A d, t \in Tiles : sight[d][t] = 1 => LosCheck(t, d) \/ LosCheck(d, t),
         NEW p, Last(p) \in Tiles, Consolidate(p)
  PROVE  \A d, t \in Tiles : sight'[d][t] = 1 => LosCheck(t, d) \/ LosCheck(d, t)
<1> DEFINE g == Last(p)
           seen == {t \in ToSet(p) : sight[g][t] < 0}
           Sees(t) == IF LosCheck(t, g) THEN 1 ELSE 0
           entry(e, t) == CASE e = g /\ t \in seen -> Sees(t)
                            [] e \in seen /\ t = g -> Sees(e)
                            [] OTHER -> sight[e][t]
<1>1. sight' = [e \in Tiles |-> [t \in Tiles |-> entry(e, t)]]
  BY Zenon DEF Consolidate
<1>2. \A t : Sees(t) = 1 => LosCheck(t, g)
  OBVIOUS
<1> HIDE DEF seen, Sees, g
<1>3. ASSUME NEW d \in Tiles, NEW t \in Tiles, entry(d, t) = 1
      PROVE  LosCheck(t, d) \/ LosCheck(d, t)
  <2>1. CASE d = g /\ t \in seen
    BY <1>2, <1>3, <2>1
  <2>2. CASE ~ (d = g /\ t \in seen) /\ d \in seen /\ t = g
    BY <1>2, <1>3, <2>2
  <2>3. CASE ~ (d = g /\ t \in seen) /\ ~ (d \in seen /\ t = g)
    BY <1>3, <2>3
  <2> QED BY <2>1, <2>2, <2>3
<1> HIDE DEF entry
<1> QED BY <1>1, <1>3

(* The cache starts without lines of sight.                                 *)
LEMMA SightInit == Init => SightInv
<1> SUFFICES ASSUME Init PROVE SightInv
  OBVIOUS
<1>1. synced # revision /\ \A d, t \in Tiles : sight[d][t] # 1
  BY DEF Init, NoSight
<1> QED BY <1>1 DEF SightInv

(* Each step keeps it: consolidate_path asks losCheck, and a new revision   *)
(* clears all.                                                              *)
LEMMA SightNext == TablesInv /\ SightInv /\ [Next]_vars => SightInv'
<1> SUFFICES ASSUME TablesInv, SightInv, [Next]_vars PROVE SightInv'
  OBVIOUS
<1>a. /\ synced = revision => accessible = free
      /\ \A d, t \in Tiles : sight[d][t] = 1 => LosCheck(t, d) \/ LosCheck(d, t)
  BY DEF SightInv
<1>b. /\ indexes \in [Tiles -> NextType] /\ \A d \in Tiles : LeadsTo(indexes[d], d)
      /\ sight \in [Tiles -> [Tiles -> -1 .. 1]] /\ requests \in Seq([orig : Tiles, dest : Tiles])
      /\ revision \in Nat /\ synced \in -1 .. revision
  BY ConstantsAssumption DEF TablesInv, TypeOK, NextType, ConstantsAssumption
<1>1. CASE accessible' = accessible /\ sight' = sight
           /\ (synced' = revision' => synced = revision /\ free' = free)
  <2>1. \A x, y : LosCheck(x, y)' <=> LosCheck(x, y)
    BY <1>1 DEF LosCheck
  <2> QED BY <1>1, <1>a, <2>1 DEF SightInv
<1>2. CASE Sync
  <2>1. CASE synced # revision
    <3>1. accessible' = free' /\ \A d, t \in Tiles : sight'[d][t] # 1
      BY <1>2, <2>1 DEF Sync, NoSight, grid
    <3> QED BY <3>1 DEF SightInv
  <2>2. CASE synced = revision
    BY <1>1, <1>2, <2>2 DEF Sync, grid, tables
  <2> QED BY <2>1, <2>2
<1>3. CASE SkipRequest
  BY <1>1, <1>3 DEF SkipRequest, grid, tables
<1>4. CASE ComputeRequest
  <2> DEFINE o == Head(requests).orig
             d == Head(requests).dest
             p == ComputePath(o, d)
  <2>1. /\ Consolidate(p) /\ requests # << >>
        /\ accessible' = accessible /\ synced' = synced /\ free' = free /\ revision' = revision
    BY <1>4 DEF ComputeRequest, grid
  <2>2. Head(requests) \in [orig : Tiles, dest : Tiles]
    BY <1>b, <2>1, HeadIn
  <2>3. o \in Tiles /\ d \in Tiles
    BY <2>2
  <2>4. \E age \in [Tiles -> Nat] : Onward(p, Tiles, age, o, d)
    <3> HIDE DEF o, d
    <3> QED BY <1>b, <2>3, PathComputed
  <2> HIDE DEF p, d
  <2>5. Last(p) = d
    BY <2>4 DEF Onward, Last
  <2>6. \A e, t \in Tiles : sight'[e][t] = 1 => LosCheck(t, e) \/ LosCheck(e, t)
    BY <1>a, <2>1, <2>3, <2>5, SightConsolidate
  <2>7. \A x, y : LosCheck(x, y)' <=> LosCheck(x, y)
    BY <2>1 DEF LosCheck
  <2>8. synced' = revision' => accessible' = free'
    BY <1>a, <2>1
  <2> QED BY <2>6, <2>7, <2>8 DEF SightInv
<1>5. CASE EndCompute
  BY <1>1, <1>5 DEF EndCompute, grid, tables
<1>6. CASE EndFrame
  BY <1>1, <1>6 DEF EndFrame, grid, tables
<1>7. ASSUME NEW q \in Queries, QueryPath(q) PROVE SightInv'
  BY <1>1, <1>7 DEF QueryPath, grid, tables
<1>8. ASSUME NEW g \in Grids, ChangeGrid(g) PROVE SightInv'
  <2>1. synced' # revision'
    BY <1>8, <1>b DEF ChangeGrid
  <2> QED BY <1>1, <1>8, <2>1 DEF ChangeGrid, tables
<1>9. CASE UNCHANGED vars
  BY <1>1, <1>9 DEF vars, grid, tables
<1> QED BY <1>2, <1>3, <1>4, <1>5, <1>6, <1>7, <1>8, <1>9 DEF Next

(* A unit is never sent straight at its target through a tile that is       *)
(* taken.  The grid is square: get_index and losCheck bound rows and        *)
(* columns alike by nb_tiles_x.  And it is not too large for the fixed      *)
(* point: with the 10000 of the code, no more than 71 tiles wide.           *)
THEOREM SightIsClearHolds ==
  ASSUME NbTiles = Width * Width, Fine
  PROVE  Spec => []SightIsClear
<1>1. Init => SightInv
  BY SightInit
<1>2. TablesInv /\ SightInv /\ [Next]_vars => SightInv'
  BY SightNext
<1>3. SightInv => SightIsClear
  <2> SUFFICES ASSUME SightInv, synced = revision, NEW d \in Tiles, NEW t \in Tiles,
                      sight[d][t] = 1
               PROVE  Crossed(t, d) \subseteq free
    BY DEF SightIsClear
  <2>1. accessible = free /\ (LosCheck(t, d) \/ LosCheck(d, t))
    BY DEF SightInv
  <2> QED BY <2>1, LosClear
<1> QED BY <1>1, <1>2, <1>3, TablesKept, PTL DEF Spec

(* The heights that a line of a slope touches in a unit of length.          *)
Touches(m, rise, range, k, y) ==
  \/ Raised(m, rise, Ratio(range, k)) <= y /\ y <= Raised(m, rise, Ratio(range, k + 1))
  \/ Raised(m, rise, Ratio(range, k + 1)) <= y /\ y <= Raised(m, rise, Ratio(range, k))

Along(a, b, x, m, range, rise) ==
  /\ Center(Column(a)) = x /\ Center(Row(a)) = m
  /\ Center(Column(b)) - x = range /\ Center(Row(b)) - m = rise
TileAt(x, y) == x \div TileSize + (y \div TileSize) * Width
Touched(x, m, range, rise, top) ==
  \A k, y \in Int :
    0 <= k /\ k < range /\ 0 <= y /\ y <= top /\ Touches(m, rise, range, k, y)
      => TileAt(x + k, y) \in accessible

(* losCheck looks at the tiles at these heights, and at no more.            *)
LEMMA LooksAt ==
  ASSUME NEW a, NEW b, NEW x \in Int, NEW m \in Int, NEW range \in Nat, range > 0,
         NEW rise \in Int, NEW top \in Int, TileSize * Width - 1 = top,
         Along(a, b, x, m, range, rise), Touched(x, m, range, rise, top)
  PROVE  LosFrom(a, b)
BY DEF LosFrom, Touches, Touched, Along, TileAt

(* The tiles are numbered.                                                  *)
LEMMA IndexIsTile ==
  ASSUME NbTiles \in Int, NEW t \in Int, 0 <= t, t <= NbTiles - 1 PROVE t \in Tiles
BY DEF Tiles

(* On a larger grid it may: with tiles of side 4, losCheck finds the line   *)
(* from tile (0, 0) to (123, 124) of a grid of 125 by 125 clear, which      *)
(* crosses tile (0, 1), without a look at that tile.                        *)
THEOREM SightIsBlurred ==
  ASSUME Width = 125, NbTiles = 15625, TileSize = 4, One = 10000, accessible = Tiles \ {125}
  PROVE  LosCheck(0, 15623) /\ 125 \in Crossed(0, 15623)
<1>1. /\ Column(0) = 0 /\ Row(0) = 0 /\ Column(15623) = 123 /\ Row(15623) = 124
      /\ Column(125) = 0 /\ Row(125) = 1 /\ 125 \in Tiles
  BY DEF Column, Row, Tiles
<1>2. 125 \in Crossed(0, 15623)
  <2>1. Side(0, 15623, 1, 1) < 0 /\ Side(0, 15623, 0, 1) > 0
    BY <1>1 DEF Side
  <2> QED BY <1>1, <2>1 DEF Crossed, Between
<1>3. \A t \in Int : 0 <= t /\ t <= 15624 /\ t # 125 => t \in accessible
  <2> SUFFICES ASSUME NEW t \in Int, 0 <= t, t <= 15624, t # 125 PROVE t \in accessible
    OBVIOUS
  <2>1. NbTiles \in Int /\ t <= NbTiles - 1
    OBVIOUS
  <2>2. t \in Tiles
    BY <2>1, IndexIsTile
  <2> QED BY <2>2
<1>4. LosFrom(0, 15623)
  <2>1. /\ Center(Column(0)) = 2 /\ Center(Row(0)) = 2
        /\ Center(Column(15623)) - 2 = 492 /\ Center(Row(15623)) - 2 = 496
    BY <1>1 DEF Center
  <2>2. TileSize * Width - 1 = 499
    OBVIOUS
  <2>3. ASSUME NEW k \in Int, NEW y \in Int, 0 <= k, k < 492, 0 <= y, y <= 499,
               Touches(2, 496, 492, k, y)
        PROVE  TileAt(2 + k, y) \in accessible
    <3>1. PICK c \in Int : c = (2 + k) \div 4 /\ 0 <= c /\ c <= 123 /\ (k >= 2 => c >= 1)
      BY <2>3
    <3>2. PICK r \in Int : r = y \div 4 /\ 0 <= r /\ r <= 124 /\ (y < 4 => r = 0)
      BY <2>3
    <3>3. k < 2 => y < 4
      <4>1. /\ Raised(2, 496, Ratio(492, 0)) = 2 /\ Raised(2, 496, Ratio(492, 1)) = 2
            /\ Raised(2, 496, Ratio(492, 2)) = 3
        BY DEF Raised, Ratio
      <4>2. k < 2 => k = 0 \/ k = 1
        BY <2>3
      <4> QED BY <2>3, <4>1, <4>2 DEF Touches
    <3>4. PICK t \in Int : t = c + r * 125
      OBVIOUS
    <3>5. 0 <= t /\ t <= 15624 /\ t # 125
      BY <3>1, <3>2, <3>3, <3>4
    <3>6. t \in accessible
      BY <1>3, <3>5
    <3> QED BY <3>1, <3>2, <3>4, <3>6 DEF TileAt
  <2>4. Along(0, 15623, 2, 2, 492, 496)
    BY <2>1 DEF Along
  <2>5. Touched(2, 2, 492, 496, 499)
    BY <2>3 DEF Touched
  <2> QED BY <2>2, <2>4, <2>5, LooksAt
<1>5. LosCheck(0, 15623)
  BY <1>1, <1>4, FromLeft
<1> QED BY <1>2, <1>5

-----------------------------------------------------------------------------
(* A tile costs something, and no more than a tile that is taken.           *)
LEMMA CostRange == \A t \in Tiles : Cost(t) \in Nat /\ 1 <= Cost(t) /\ Cost(t) <= NbTiles + 1
BY Numbers DEF Cost

(* A finite set of integers has a least one.                                *)
LEMMA HasMin ==
  ASSUME NEW S \in SUBSET Int, IsFiniteSet(S), S # {}
  PROVE  Min(S) \in S /\ \A x \in S : Min(S) <= x
<1> DEFINE f == [x \in S |-> 0 - x]
<1>1. \A x \in S : f[x] \in Int /\ f[x] = 0 - x /\ x \in Int
  OBVIOUS
<1> HIDE DEF f
<1>2. PICK x \in S : \A y \in S : f[x] >= f[y]
  BY <1>1, HasMaxOver
<1>3. \A y \in S : x <= y
  BY <1>1, <1>2
<1> QED BY <1>3 DEF Min

(* A tile beside another is looked at by get_neighbors, and the estimate of *)
(* one is at most a step more than that of the other.                       *)
LEMMA BesideIsNear ==
  ASSUME NEW t \in Tiles, NEW u \in Tiles, Distance(t, u) = 1
  PROVE  u \in {t - 1, t - Width, t + 1, t + Width} \intersect Tiles
<1>1. PICK c \in Nat : c = Column(t)
  BY Coordinates
<1>2. PICK r \in Nat : r = Row(t)
  BY Coordinates
<1>3. PICK c1 \in Nat : c1 = Column(u)
  BY Coordinates
<1>4. PICK r1 \in Nat : r1 = Row(u)
  BY Coordinates
<1>5. t = c + r * Width /\ u = c1 + r1 * Width /\ Width \in Nat
  BY <1>1, <1>2, <1>3, <1>4, Coordinates, Numbers
<1>6. Abs(c - c1) + Abs(r - r1) = 1
  BY <1>1, <1>2, <1>3, <1>4 DEF Distance
<1>7. \/ c1 = c /\ (r1 = r + 1 \/ r1 = r - 1)
      \/ r1 = r /\ (c1 = c + 1 \/ c1 = c - 1)
  BY <1>6 DEF Abs
<1>8. (r + 1) * Width = r * Width + Width /\ (r - 1) * Width = r * Width - Width /\ r * Width \in Int
  BY <1>5
<1> QED BY <1>5, <1>7, <1>8

(* The estimate changes by no more than one from a tile to one beside it.   *)
LEMMA EstimatesAgree ==
  ASSUME NEW t \in Tiles, NEW u \in Tiles, NEW d \in Tiles, Distance(t, u) = 1
  PROVE  Distance(t, d) <= Distance(u, d) + 1
<1>1. PICK c \in Nat : c = Column(t)
  BY Coordinates
<1>2. PICK r \in Nat : r = Row(t)
  BY Coordinates
<1>3. PICK c1 \in Nat : c1 = Column(u)
  BY Coordinates
<1>4. PICK r1 \in Nat : r1 = Row(u)
  BY Coordinates
<1>5. PICK c2 \in Nat : c2 = Column(d)
  BY Coordinates
<1>6. PICK r2 \in Nat : r2 = Row(d)
  BY Coordinates
<1>7. Abs(c - c1) + Abs(r - r1) = 1
  BY <1>1, <1>2, <1>3, <1>4 DEF Distance
<1>8. /\ Distance(t, d) = Abs(c - c2) + Abs(r - r2)
      /\ Distance(u, d) = Abs(c1 - c2) + Abs(r1 - r2)
  BY <1>1, <1>2, <1>3, <1>4, <1>5, <1>6 DEF Distance
<1>9. Abs(c - c2) <= Abs(c - c1) + Abs(c1 - c2) /\ Abs(r - r2) <= Abs(r - r1) + Abs(r1 - r2)
  BY DEF Abs
<1>10. \A x \in Int : Abs(x) \in Int
  BY DEF Abs
<1> QED BY <1>7, <1>8, <1>9, <1>10

-----------------------------------------------------------------------------
(* Where a unit that walks may go from a tile, when a search is stitched to *)
(* the table; and the least costs from the tile of the request to the       *)
(* others, or a bound where there is no such way.                           *)
Steps(t, d) == {u \in Neighbors(t, d) : Distance(t, u) = 1}

Measures(D, o, d) ==
  /\ D \in [Tiles -> 0..AnyCost] /\ D[o] = 0
  /\ \A t \in Tiles : \A u \in Steps(t, d) : D[u] <= D[t] + Cost(u)
  /\ \A u \in Tiles \ {o} :
       D[u] = AnyCost \/ \E t \in Tiles : u \in Steps(t, d) /\ D[u] = D[t] + Cost(u)

(* The bound of the costs is a number.                                      *)
LEMMA AnyCostNat == AnyCost \in Nat /\ AnyCost > 0
<1>1. NbTiles \in Nat /\ NbTiles > 0
  BY Numbers
<1>2. NbTiles * (NbTiles + 1) \in Nat /\ NbTiles * (NbTiles + 1) > 0
  BY <1>1
<1> QED BY <1>2 DEF AnyCost

(* There are such least costs.                                              *)
LEMMA MeasureExists ==
  ASSUME indexes \in [Tiles -> NextType], NEW o \in Tiles, NEW d \in Tiles
  PROVE  \E D : Measures(D, o, d)
<1> DEFINE All == Tiles \X Nat
           Shut(C) == /\ <<o, 0>> \in C
                      /\ \A x \in C : \A u \in Steps(x[1], d) : <<u, x[2] + Cost(u)>> \in C
           S == {x \in All : \A C \in SUBSET All : Shut(C) => x \in C}
           V(t) == {c \in 0..AnyCost : c = AnyCost \/ <<t, c>> \in S}
           D == [t \in Tiles |-> Min(V(t))]
<1>1. \A t \in Tiles : Steps(t, d) \subseteq Tiles
  BY NeighborTypes DEF Steps
<1>2. /\ S \subseteq All /\ <<o, 0>> \in S
      /\ \A x \in S : \A u \in Steps(x[1], d) : <<u, x[2] + Cost(u)>> \in S
  <2>1. S \subseteq All /\ <<o, 0>> \in S
    OBVIOUS
  <2>2. ASSUME NEW x \in S, NEW u \in Steps(x[1], d) PROVE <<u, x[2] + Cost(u)>> \in S
    <3>1. x \in All /\ x[1] \in Tiles /\ x[2] \in Nat
      OBVIOUS
    <3>2. u \in Tiles /\ x[2] + Cost(u) \in Nat
      BY <1>1, <3>1, CostRange
    <3>3. <<u, x[2] + Cost(u)>> \in All
      BY <3>2
    <3>4. ASSUME NEW C \in SUBSET All, Shut(C) PROVE <<u, x[2] + Cost(u)>> \in C
      <4>1. x \in C
        BY <3>4
      <4> QED BY <3>4, <4>1
    <3> QED BY <3>3, <3>4
  <2> QED BY <2>1, <2>2
<1>3. ASSUME NEW x \in S, x # <<o, 0>>
      PROVE  \E y \in S : \E u \in Steps(y[1], d) : x = <<u, y[2] + Cost(u)>>
  <2> SUFFICES ASSUME \A y \in S : \A u \in Steps(y[1], d) : x # <<u, y[2] + Cost(u)>>
               PROVE  FALSE
    OBVIOUS
  <2> DEFINE C == S \ {x}
  <2> HIDE DEF S
  <2>1. Shut(C) /\ C \in SUBSET All
    BY <1>2, <1>3
  <2>2. x \in C
    BY <2>1 DEF S
  <2> QED BY <2>2
<1> HIDE DEF S
<1>4. ASSUME NEW t \in Tiles
      PROVE  D[t] \in V(t) /\ \A c \in V(t) : D[t] <= c
  <2>1. V(t) \in SUBSET Int /\ V(t) # {}
    <3>1. AnyCost \in V(t)
      BY AnyCostNat
    <3>2. V(t) \subseteq 0..AnyCost
      OBVIOUS
    <3> HIDE DEF V
    <3> QED BY <3>1, <3>2
  <2>2. IsFiniteSet(V(t))
    <3>1. IsFiniteSet(0..AnyCost)
      BY AnyCostNat, FS_Interval
    <3> QED BY <3>1, FS_Subset
  <2> HIDE DEF V
  <2> QED BY <2>1, <2>2, HasMin
<1>5. \A t \in Tiles : /\ D[t] \in 0..AnyCost /\ (D[t] = AnyCost \/ <<t, D[t]>> \in S)
                       /\ \A c \in 0..AnyCost : <<t, c>> \in S => D[t] <= c
  <2> HIDE DEF D
  <2> QED BY <1>4
<1>6. D \in [Tiles -> 0..AnyCost]
  <2>1. \A t \in Tiles : Min(V(t)) \in 0..AnyCost
    BY <1>5
  <2> QED BY <2>1
<1> HIDE DEF D, V
<1>7. D[o] = 0
  <2>1. 0 \in 0..AnyCost /\ <<o, 0>> \in S
    BY <1>2, AnyCostNat
  <2>2. D[o] <= 0 /\ D[o] \in 0..AnyCost
    BY <1>5, <2>1
  <2> QED BY <2>2
<1>8. ASSUME NEW t \in Tiles, NEW u \in Steps(t, d) PROVE D[u] <= D[t] + Cost(u)
  <2>1. u \in Tiles /\ Cost(u) \in Nat /\ D[t] \in 0..AnyCost /\ D[u] \in 0..AnyCost /\ AnyCost \in Nat
    BY <1>1, <1>5, CostRange, AnyCostNat
  <2>2. CASE D[t] = AnyCost
    BY <2>1, <2>2
  <2>3. CASE D[t] # AnyCost
    <3>1. <<t, D[t]>> \in S
      BY <1>5, <2>3
    <3>2. <<u, D[t] + Cost(u)>> \in S
      <4>1. \A x \in S : \A v \in Steps(x[1], d) : <<v, x[2] + Cost(v)>> \in S
        BY <1>2
      <4>2. PICK x : x = <<t, D[t]>>
        OBVIOUS
      <4>3. x[1] = t /\ x[2] = D[t] /\ x \in S
        BY <3>1, <4>2
      <4>4. u \in Steps(x[1], d)
        BY <4>3
      <4>5. <<u, x[2] + Cost(u)>> \in S
        BY <4>1, <4>3, <4>4
      <4> QED BY <4>3, <4>5
    <3>3. CASE D[t] + Cost(u) <= AnyCost
      <4>1. D[t] + Cost(u) \in 0..AnyCost
        BY <2>1, <3>3
      <4> QED BY <1>5, <2>1, <3>2, <4>1
    <3>4. CASE ~ (D[t] + Cost(u) <= AnyCost)
      BY <2>1, <3>4
    <3> QED BY <3>3, <3>4
  <2> QED BY <2>2, <2>3
<1>9. ASSUME NEW u \in Tiles \ {o}, D[u] # AnyCost
      PROVE  \E t \in Tiles : u \in Steps(t, d) /\ D[u] = D[t] + Cost(u)
  <2>1. <<u, D[u]>> \in S /\ <<u, D[u]>> # <<o, 0>>
    BY <1>5, <1>9
  <2>2. PICK y \in S : \E v \in Steps(y[1], d) : <<u, D[u]>> = <<v, y[2] + Cost(v)>>
    BY <1>3, <2>1
  <2>3. PICK t \in Tiles, c \in Nat : y = <<t, c>>
    BY <1>2
  <2>4. u \in Steps(t, d) /\ D[u] = c + Cost(u)
    BY <2>2, <2>3
  <2>5. Cost(u) \in Nat /\ D[u] \in 0..AnyCost /\ D[t] \in 0..AnyCost /\ AnyCost \in Nat
    BY <1>5, CostRange, AnyCostNat
  <2>6. c \in 0..AnyCost
    BY <2>4, <2>5
  <2>7. D[t] <= c
    BY <1>5, <2>3, <2>6
  <2>8. D[u] <= D[t] + Cost(u)
    BY <1>8, <2>4
  <2>9. D[u] = D[t] + Cost(u)
    BY <2>4, <2>5, <2>6, <2>7, <2>8
  <2> QED BY <2>4, <2>9
<1> QED BY <1>6, <1>7, <1>8, <1>9 DEF Measures

-----------------------------------------------------------------------------
(* What expanding the closest tile changes. *)
Expanded(s, new, d, cur, better) ==
  /\ cur = Closest(s, d) /\ cur \in s.open /\ cur \in Tiles /\ cur \notin s.closed
  /\ better \subseteq Neighbors(cur, d) \ s.closed /\ better \subseteq Tiles
  /\ \A t \in better : t \notin s.open \union {cur} \/ s.cost[t] > s.cost[cur] + Cost(t)
  /\ \A t \in Neighbors(cur, d) \ s.closed :
       t \notin better => t \in s.open \union {cur} /\ ~ (s.cost[t] > s.cost[cur] + Cost(t))
  /\ new.open = (s.open \ {cur}) \union better /\ new.closed = s.closed \union {cur}
  /\ \A t \in better : new.cost[t] = s.cost[cur] + Cost(t) /\ new.prev[t] = cur
  /\ \A t \in Tiles \ better : new.cost[t] = s.cost[t] /\ new.prev[t] = s.prev[t]

(* That is what Expand does.                                                *)
LEMMA Expands ==
  ASSUME indexes \in [Tiles -> NextType], NEW d \in Tiles,
         NEW s \in LabelType, s.open # {}, s.open \intersect s.closed = {}
  PROVE  \E cur, better : Expanded(s, Expand(s, d), d, cur, better)
<1> DEFINE cur == Closest(s, d)
           Reached(t) == s.cost[cur] + Cost(t)
           better == {t \in Neighbors(cur, d) \ s.closed :
                        t \notin s.open \union {cur} \/ s.cost[t] > Reached(t)}
           new == Expand(s, d)
<1>1. cur \in s.open /\ cur \in Tiles /\ cur \notin s.closed
  <2>1. cur \in s.open
    BY ClosestOpen
  <2> HIDE DEF cur
  <2> QED BY <2>1 DEF LabelType
<1>2. better \subseteq Neighbors(cur, d) \ s.closed /\ better \subseteq Tiles
  <2>1. Neighbors(cur, d) \subseteq Tiles
    BY <1>1, NeighborTypes
  <2> QED BY <2>1
<1>3. /\ new.open = (s.open \ {cur}) \union better
      /\ new.closed = s.closed \union {cur}
      /\ new.cost = [t \in Tiles |-> IF t \in better THEN Reached(t) ELSE s.cost[t]]
      /\ new.prev = [t \in Tiles |-> IF t \in better THEN cur ELSE s.prev[t]]
  BY DEF Expand
<1>4. /\ \A t \in better : t \notin s.open \union {cur} \/ s.cost[t] > s.cost[cur] + Cost(t)
      /\ \A t \in Neighbors(cur, d) \ s.closed :
           t \notin better => t \in s.open \union {cur} /\ ~ (s.cost[t] > s.cost[cur] + Cost(t))
  OBVIOUS
<1>5. cur = Closest(s, d)
  OBVIOUS
<1> HIDE DEF cur, better, new
<1>6. /\ \A t \in better : new.cost[t] = s.cost[cur] + Cost(t) /\ new.prev[t] = cur
      /\ \A t \in Tiles \ better : new.cost[t] = s.cost[t] /\ new.prev[t] = s.prev[t]
  BY <1>2, <1>3
<1>7. Expanded(s, new, d, cur, better)
  BY <1>1, <1>2, <1>3, <1>4, <1>5, <1>6 DEF Expanded
<1> QED BY <1>7 DEF new

(* The costs of the labels once k tiles are expanded: they are those of the *)
(* ways the predecessors give, and of the closed tiles there is no better.  *)
Weighed(s, o, d, k) ==
  /\ s.cost[o] = 0
  /\ \A t \in s.open \union s.closed : 0 <= s.cost[t] /\ s.cost[t] <= k * (NbTiles + 1)
  /\ \A t \in s.open \union s.closed : t # o =>
       t \in Neighbors(s.prev[t], d) /\ s.cost[t] = s.cost[s.prev[t]] + Cost(t)
  /\ \A t \in s.closed : \A u \in Neighbors(t, d) \ s.closed : s.cost[u] <= s.cost[t] + Cost(u)
  /\ \A D : Measures(D, o, d) => \A t \in s.closed : s.cost[t] <= D[t]

(* The next tile has its least cost: else some tile on the way there would  *)
(* be opened with a smaller estimate.                                       *)
LEMMA ClosestBest ==
  ASSUME indexes \in [Tiles -> NextType], NEW o \in Tiles, NEW d \in Tiles,
         NEW k \in Nat, k <= NbTiles, NEW s, Searched(s, o, d, k), Weighed(s, o, d, k),
         s.open # {}, NEW D, Measures(D, o, d)
  PROVE  s.cost[Closest(s, d)] <= D[Closest(s, d)]
<1>0. s \in LabelType
  BY DEF Searched
<1>1. PICK n \in s.open : n = Closest(s, d) /\ \A u \in s.open : Estimate(s, n, d) <= Estimate(s, u, d)
  BY <1>0, ClosestOpen
<1>2. /\ s.open \subseteq Tiles /\ s.closed \subseteq Tiles /\ n \in Tiles /\ n \notin s.closed
      /\ \A t \in Tiles : s.cost[t] \in Int
  BY <1>0 DEF LabelType, Searched
<1>3. \A t \in Tiles : D[t] \in Nat /\ D[t] <= AnyCost
  BY AnyCostNat DEF Measures
<1>4. \A t \in Tiles : Distance(t, d) \in Int
  BY DistanceInt
<1> SUFFICES ASSUME D[n] < s.cost[n] PROVE FALSE
  BY <1>1, <1>2, <1>3
<1>5. D[n] < AnyCost
  <2>1. s.cost[n] <= k * (NbTiles + 1)
    BY DEF Weighed
  <2>2. k * (NbTiles + 1) <= AnyCost
    <3>1. NbTiles + 1 \in Nat /\ NbTiles \in Nat
      BY Numbers
    <3>2. (NbTiles + 1) * k <= (NbTiles + 1) * NbTiles
      BY <3>1, ProductOrder
    <3> QED BY <3>1, <3>2 DEF AnyCost
  <2>3. k * (NbTiles + 1) \in Int
    BY Numbers
  <2> QED BY <1>2, <1>3, <2>1, <2>2, <2>3, AnyCostNat
<1> DEFINE U == {t \in Tiles \ s.closed :
                   D[t] < AnyCost /\ D[t] + Distance(t, d) <= D[n] + Distance(n, d)}
           f == [t \in U |-> 0 - D[t]]
<1>6. IsFiniteSet(U) /\ n \in U
  <2>1. IsFiniteSet(U)
    BY Numbers, FS_Subset
  <2> QED BY <1>2, <1>3, <1>4, <1>5, <2>1
<1>7. \A t \in U : f[t] \in Int /\ f[t] = 0 - D[t] /\ t \in Tiles /\ D[t] \in Nat
  BY <1>3
<1> HIDE DEF f
<1>8. PICK m \in U : \A t \in U : D[m] <= D[t]
  <2>1. PICK m \in U : \A t \in U : f[m] >= f[t]
    <3> HIDE DEF U
    <3> QED BY <1>6, <1>7, HasMaxOver
  <2>2. \A t \in U : D[m] <= D[t]
    <3> HIDE DEF U
    <3> QED BY <1>7, <2>1
  <2> QED BY <2>2
<1>9. m \in s.open /\ s.cost[m] <= D[m]
  <2>1. CASE m = o
    BY <1>8, <2>1 DEF Searched, Weighed, Measures
  <2>2. CASE m # o
    <3>1. PICK p \in Tiles : m \in Steps(p, d) /\ D[m] = D[p] + Cost(m)
      BY <1>8, <2>2, AnyCostNat DEF Measures
    <3>2. Cost(m) \in Nat /\ 1 <= Cost(m)
      BY <1>8, CostRange
    <3>3. Distance(p, d) <= Distance(m, d) + 1 /\ m \in Neighbors(p, d)
      BY <1>8, <3>1, EstimatesAgree DEF Steps
    <3>4. p \in s.closed
      <4> SUFFICES ASSUME p \notin s.closed PROVE FALSE
        OBVIOUS
      <4>1. /\ D[p] \in Nat /\ D[m] \in Nat /\ D[p] < D[m] /\ D[m] < AnyCost /\ AnyCost \in Nat
            /\ D[m] + Distance(m, d) <= D[n] + Distance(n, d)
        BY <1>3, <1>8, <3>1, <3>2, AnyCostNat
      <4>2. /\ Distance(p, d) \in Int /\ Distance(m, d) \in Int /\ Distance(n, d) \in Int /\ D[n] \in Nat
        BY <1>2, <1>3, <1>4, <1>8
      <4>3. D[p] < AnyCost /\ D[p] + Distance(p, d) <= D[n] + Distance(n, d)
        BY <3>1, <3>2, <3>3, <4>1, <4>2
      <4>4. p \in U
        BY <4>3
      <4> HIDE DEF U
      <4> QED BY <1>8, <4>1, <4>4
    <3>5. s.cost[p] <= D[p]
      BY <3>4 DEF Weighed
    <3>6. m \in s.open \union s.closed /\ m \notin s.closed
      BY <1>8, <3>3, <3>4 DEF Searched
    <3>7. s.cost[m] <= s.cost[p] + Cost(m)
      BY <3>3, <3>4, <3>6 DEF Weighed
    <3>8. s.cost[m] \in Int /\ s.cost[p] \in Int /\ D[p] \in Nat
      BY <1>2, <1>3, <1>8
    <3> QED BY <3>1, <3>2, <3>5, <3>6, <3>7, <3>8
  <2> QED BY <2>1, <2>2
<1>10. Estimate(s, n, d) <= Estimate(s, m, d)
  BY <1>1, <1>9
<1>11. /\ s.cost[n] \in Int /\ s.cost[m] \in Int /\ D[n] \in Int /\ D[m] \in Int
       /\ Distance(n, d) \in Int /\ Distance(m, d) \in Int
       /\ D[m] + Distance(m, d) <= D[n] + Distance(n, d)
  BY <1>2, <1>3, <1>4, <1>8
<1> QED BY <1>9, <1>10, <1>11 DEF Estimate

(* So are the first labels.                                                 *)
LEMMA WeighBegins ==
  ASSUME NEW o \in Tiles, NEW d \in Tiles
  PROVE  Weighed(FirstLabels(o), o, d, 0)
<1> DEFINE s == FirstLabels(o)
<1>1. s.open = {o} /\ s.closed = {} /\ s.cost[o] = 0
  BY DEF FirstLabels
<1> HIDE DEF s
<1>2. 0 * (NbTiles + 1) = 0
  BY Numbers
<1> QED BY <1>1, <1>2 DEF Weighed, s

(* So are they after another tile is closed.                                *)
LEMMA WeighExpands ==
  ASSUME indexes \in [Tiles -> NextType], NEW o \in Tiles, NEW d \in Tiles,
         NEW k \in Nat, k <= NbTiles, NEW s, Searched(s, o, d, k), Weighed(s, o, d, k),
         ~ Found(s, d)
  PROVE  Weighed(Expand(s, d), o, d, k + 1)
<1> DEFINE new == Expand(s, d)
<1>1. s \in LabelType /\ s.open # {} /\ s.open \intersect s.closed = {} /\ o \in s.open \union s.closed
  BY DEF Searched, Found
<1>2. PICK cur, better : Expanded(s, new, d, cur, better)
  BY <1>1, Expands
<1> HIDE DEF new
<1>3. /\ cur \in s.open /\ cur \in Tiles /\ cur \notin s.closed /\ cur = Closest(s, d)
      /\ better \subseteq Neighbors(cur, d) \ s.closed /\ better \subseteq Tiles
      /\ new.open = (s.open \ {cur}) \union better /\ new.closed = s.closed \union {cur}
      /\ \A t \in better : new.cost[t] = s.cost[cur] + Cost(t) /\ new.prev[t] = cur
      /\ \A t \in Tiles \ better : new.cost[t] = s.cost[t] /\ new.prev[t] = s.prev[t]
      /\ s.open \subseteq Tiles /\ s.closed \subseteq Tiles
  BY <1>1, <1>2 DEF Expanded, LabelType
<1>4. /\ \A t \in better : t \notin s.open \union {cur} \/ s.cost[t] > s.cost[cur] + Cost(t)
      /\ \A t \in Neighbors(cur, d) \ s.closed :
           t \notin better => t \in s.open \union {cur} /\ ~ (s.cost[t] > s.cost[cur] + Cost(t))
  BY <1>2 DEF Expanded
<1>5. /\ s.cost[o] = 0
      /\ \A t \in s.open \union s.closed : 0 <= s.cost[t] /\ s.cost[t] <= k * (NbTiles + 1)
      /\ \A t \in s.open \union s.closed : t # o =>
           t \in Neighbors(s.prev[t], d) /\ s.cost[t] = s.cost[s.prev[t]] + Cost(t)
      /\ \A t \in s.closed : \A u \in Neighbors(t, d) \ s.closed : s.cost[u] <= s.cost[t] + Cost(u)
      /\ \A D : Measures(D, o, d) => \A t \in s.closed : s.cost[t] <= D[t]
  BY DEF Weighed
<1>6. \A t \in Tiles : s.cost[t] \in Int /\ Cost(t) \in Nat /\ 1 <= Cost(t) /\ Cost(t) <= NbTiles + 1
  BY <1>1, CostRange DEF LabelType
<1>7. /\ \A t \in s.open \union s.closed : t # o => s.prev[t] \in s.closed
      /\ \A t \in s.closed : Neighbors(t, d) \subseteq s.open \union s.closed
  BY DEF Searched
<1>8. cur \notin better /\ o \notin better /\ s.closed \intersect better = {}
  <2>1. cur \notin better
    BY <1>3, <1>4, <1>6
  <2>2. o \notin better
    <3> SUFFICES ASSUME o \in better PROVE FALSE
      OBVIOUS
    <3>1. o \in s.open
      BY <1>1, <1>3
    <3>2. s.cost[o] > s.cost[cur] + Cost(o) /\ 0 <= s.cost[cur] /\ s.cost[cur] \in Int
      BY <1>3, <1>4, <1>5, <1>6, <3>1
    <3> QED BY <1>5, <1>6, <3>2
  <2> QED BY <1>3, <2>1, <2>2
<1>9. new.cost[o] = 0
  BY <1>3, <1>5, <1>8
<1>10. ASSUME NEW t \in new.open \union new.closed
       PROVE  0 <= new.cost[t] /\ new.cost[t] <= (k + 1) * (NbTiles + 1)
  <2>1. PICK b \in Int : b = k * (NbTiles + 1)
    BY Numbers
  <2>2. (k + 1) * (NbTiles + 1) = b + NbTiles + 1 /\ NbTiles \in Nat
    BY <2>1, Numbers
  <2>3. CASE t \in better
    BY <1>3, <1>5, <1>6, <2>1, <2>2, <2>3
  <2>4. CASE t \notin better
    <3>1. t \in s.open \union s.closed /\ t \in Tiles
      BY <1>3, <2>4
    <3> QED BY <1>3, <1>5, <1>6, <2>1, <2>2, <2>4, <3>1
  <2> QED BY <2>3, <2>4
<1>11. ASSUME NEW t \in new.open \union new.closed, t # o
       PROVE  t \in Neighbors(new.prev[t], d) /\ new.cost[t] = new.cost[new.prev[t]] + Cost(t)
  <2>1. CASE t \in better
    BY <1>3, <1>8, <2>1
  <2>2. CASE t \notin better
    <3>1. t \in s.open \union s.closed /\ t \in Tiles
      BY <1>3, <2>2
    <3>2. s.prev[t] \in s.closed /\ s.prev[t] \in Tiles /\ s.prev[t] \notin better
      BY <1>3, <1>7, <1>8, <1>11, <3>1
    <3> QED BY <1>3, <1>5, <1>11, <2>2, <3>1, <3>2
  <2> QED BY <2>1, <2>2
<1>12. ASSUME NEW t \in new.closed, NEW u \in Neighbors(t, d) \ new.closed
       PROVE  new.cost[u] <= new.cost[t] + Cost(u)
  <2>0. t \in Tiles /\ t \notin better /\ u \in Tiles /\ u \notin s.closed
    <3>1. t \in Tiles /\ t \notin better
      BY <1>3, <1>8
    <3>2. u \in Tiles
      BY <3>1, NeighborTypes
    <3> QED BY <1>3, <3>1, <3>2
  <2>1. new.cost[t] = s.cost[t]
    BY <1>3, <2>0
  <2>2. CASE t = cur
    <3>1. CASE u \in better
      BY <1>3, <1>6, <2>0, <2>1, <2>2, <3>1
    <3>2. CASE u \notin better
      BY <1>3, <1>4, <1>6, <2>0, <2>1, <2>2, <3>2
    <3> QED BY <3>1, <3>2
  <2>3. CASE t # cur
    <3>1. t \in s.closed /\ u \in s.open
      BY <1>3, <1>7, <2>0, <2>3
    <3>2. s.cost[u] <= s.cost[t] + Cost(u)
      BY <1>5, <2>0, <3>1
    <3>3. CASE u \in better
      BY <1>3, <1>4, <1>6, <2>0, <2>1, <3>1, <3>2, <3>3
    <3>4. CASE u \notin better
      BY <1>3, <2>0, <2>1, <3>2, <3>4
    <3> QED BY <3>3, <3>4
  <2> QED BY <2>2, <2>3
<1>13. ASSUME NEW D, Measures(D, o, d), NEW t \in new.closed PROVE new.cost[t] <= D[t]
  <2>1. new.cost[t] = s.cost[t]
    BY <1>3, <1>8
  <2>2. CASE t = cur
    <3>1. s.cost[Closest(s, d)] <= D[Closest(s, d)]
      BY <1>1, <1>13, ClosestBest
    <3> QED BY <1>3, <2>1, <2>2, <3>1
  <2>3. CASE t # cur
    BY <1>3, <1>5, <1>13, <2>1, <2>3
  <2> QED BY <2>2, <2>3
<1> QED BY <1>9, <1>10, <1>11, <1>12, <1>13 DEF Weighed, new

(* And so they stay when the search has ended.                              *)
LEMMA WeighStays ==
  ASSUME NEW o, NEW d, NEW k \in Nat, NEW s, s \in LabelType, Weighed(s, o, d, k)
  PROVE  Weighed(s, o, d, k + 1)
<1>1. PICK b \in Int : b = k * (NbTiles + 1)
  BY Numbers
<1>2. (k + 1) * (NbTiles + 1) = b + NbTiles + 1 /\ NbTiles \in Nat
  BY <1>1, Numbers
<1>3. \A t \in s.open \union s.closed : s.cost[t] \in Int
  BY DEF LabelType
<1>4. \A t \in s.open \union s.closed : 0 <= s.cost[t] /\ s.cost[t] <= (k + 1) * (NbTiles + 1)
  <2> SUFFICES ASSUME NEW t \in s.open \union s.closed
               PROVE  0 <= s.cost[t] /\ s.cost[t] <= (k + 1) * (NbTiles + 1)
    OBVIOUS
  <2>1. 0 <= s.cost[t] /\ s.cost[t] <= b
    BY <1>1 DEF Weighed
  <2> QED BY <1>2, <1>3, <2>1
<1> QED BY <1>4 DEF Weighed

(* Hence so are those the search ends with.                                 *)
LEMMA SearchWeighs ==
  ASSUME indexes \in [Tiles -> NextType], NEW o \in Tiles, NEW d \in Tiles
  PROVE  Weighed(Search(o, d), o, d, NbTiles)
<1>1. PICK f : /\ LabelsOf(f, o, d) /\ Search(o, d) = f[NbTiles]
               /\ \A k \in 0..NbTiles : Searched(f[k], o, d, k)
  BY SearchLabels
<1>2. \A k \in 0..NbTiles : f[k] = IF k = 0 THEN FirstLabels(o)
                                  ELSE IF Found(f[k - 1], d) THEN f[k - 1] ELSE Expand(f[k - 1], d)
  BY <1>1 DEF LabelsOf
<1> DEFINE G == {k \in Nat : k <= NbTiles => Weighed(f[k], o, d, k)}
<1>3. 0 \in G
  <2>1. 0 \in 0..NbTiles
    BY Numbers
  <2> QED BY <1>2, <2>1, WeighBegins
<1>4. ASSUME NEW k \in Nat, k \in G PROVE k + 1 \in G
  <2> SUFFICES ASSUME k + 1 <= NbTiles PROVE Weighed(f[k + 1], o, d, k + 1)
    OBVIOUS
  <2>1. k \in 0..NbTiles /\ k + 1 \in 0..NbTiles /\ k + 1 # 0 /\ (k + 1) - 1 = k /\ k <= NbTiles
    BY Numbers
  <2>2. Searched(f[k], o, d, k) /\ Weighed(f[k], o, d, k) /\ f[k] \in LabelType
    BY <1>1, <1>4, <2>1 DEF Searched
  <2>3. f[k + 1] = IF Found(f[k], d) THEN f[k] ELSE Expand(f[k], d)
    BY <1>2, <2>1
  <2>4. CASE Found(f[k], d)
    BY <2>2, <2>3, <2>4, WeighStays
  <2>5. CASE ~ Found(f[k], d)
    BY <2>1, <2>2, <2>3, <2>5, WeighExpands
  <2> QED BY <2>4, <2>5
<1>5. Nat \subseteq G
  <2> HIDE DEF G
  <2> QED BY <1>3, <1>4, NatInSet
<1> QED BY <1>1, <1>5, Numbers

(* What compute_path returns: along it costs add up, each step is one that  *)
(* get_neighbors allows, and no way of single steps costs less.             *)
Cheapest(p, g, o, d) ==
  /\ g \in [Tiles -> Int] /\ g[o] = 0
  /\ \A i \in 1..(Len(p) - 1) :
       p[i + 1] \in Neighbors(p[i], d) /\ g[p[i + 1]] = g[p[i]] + Cost(p[i + 1])
  /\ \A D : Measures(D, o, d) => g[d] <= D[d]

(* compute_path returns such a path.                                        *)
LEMMA PathCheapest ==
  ASSUME indexes \in [Tiles -> NextType], NEW o \in Tiles, NEW d \in Tiles,
         LeadsTo(indexes[d], d)
  PROVE  \E g : Cheapest(ComputePath(o, d), g, o, d)
<1> DEFINE s == Search(o, d)
           p == ComputePath(o, d)
           S == s.open \union s.closed
<1>1. /\ Searched(s, o, d, NbTiles) /\ d \in s.open /\ Closest(s, d) = d
      /\ Weighed(s, o, d, NbTiles)
  BY SearchFinds, SearchWeighs
<1>2. /\ Chained(p, s.prev, o) /\ p \in Seq(S)
  BY PathComputed
<1> HIDE DEF s, p
<1>3. s \in LabelType /\ s.open # {} /\ s.cost \in [Tiles -> Int] /\ s.cost[o] = 0
  BY <1>1 DEF Searched, LabelType, Weighed
<1>4. ASSUME NEW D, Measures(D, o, d) PROVE s.cost[d] <= D[d]
  <2>1. NbTiles \in Nat /\ NbTiles <= NbTiles
    BY Numbers
  <2>2. s.cost[Closest(s, d)] <= D[Closest(s, d)]
    BY <1>1, <1>3, <1>4, <2>1, ClosestBest
  <2> QED BY <1>1, <2>2
<1>5. ASSUME NEW i \in 1..(Len(p) - 1)
      PROVE  p[i + 1] \in Neighbors(p[i], d) /\ s.cost[p[i + 1]] = s.cost[p[i]] + Cost(p[i + 1])
  <2>1. p[i + 1] # o /\ s.prev[p[i + 1]] = p[i]
    BY <1>2 DEF Chained
  <2>2. p[i + 1] \in S
    <3>1. i + 1 \in 1..Len(p)
      BY <1>2
    <3> HIDE DEF S
    <3> QED BY <1>2, <3>1
  <2>3. PICK t \in S : t = p[i + 1]
    BY <2>2
  <2>4. t \in Neighbors(s.prev[t], d) /\ s.cost[t] = s.cost[s.prev[t]] + Cost(t)
    BY <1>1, <2>1, <2>3 DEF Weighed
  <2> QED BY <2>1, <2>3, <2>4
<1>6. Cheapest(p, s.cost, o, d)
  BY <1>3, <1>4, <1>5 DEF Cheapest
<1> QED BY <1>6 DEF p

(* The rounds of LeastCost, with the costs of the cache. *)
Relax(c, d) ==
  [t \in Tiles |-> IF t = d THEN 0
                   ELSE Min({AnyCost} \union {c[u] + Cost(u) : u \in Beside(t)})]
RoundsOf(f, d) ==
  f = [k \in 0..NbTiles |->
         IF k = 0 THEN [t \in Tiles |-> IF t = d THEN 0 ELSE AnyCost]
         ELSE IF Relax(f[k - 1], d) = f[k - 1] THEN f[k - 1] ELSE Relax(f[k - 1], d)]

(* A round takes the cost of a step and the rest, for some tile beside.     *)
LEMMA Relaxes ==
  ASSUME NEW c \in [Tiles -> Int], NEW d \in Tiles
  PROVE  /\ Relax(c, d) \in [Tiles -> Int] /\ Relax(c, d)[d] = 0
         /\ \A t \in Tiles \ {d} :
              \/ Relax(c, d)[t] = AnyCost
              \/ \E u \in Beside(t) : Relax(c, d)[t] = c[u] + Cost(u)
<1> DEFINE V(t) == {AnyCost} \union {c[u] + Cost(u) : u \in Beside(t)}
<1>1. ASSUME NEW t \in Tiles PROVE V(t) \in SUBSET Int /\ Min(V(t)) \in V(t)
  <2>1. Beside(t) \subseteq Tiles
    BY DEF Beside
  <2>2. V(t) \in SUBSET Int /\ V(t) # {}
    BY <2>1, CostRange, AnyCostNat
  <2>3. IsFiniteSet(V(t))
    <3> DEFINE B == Beside(t)
               T == {c[u] + Cost(u) : u \in B}
               f == [u \in B |-> c[u] + Cost(u)]
    <3>1. IsFiniteSet(B)
      BY <2>1, Numbers, FS_Subset
    <3>2. f \in Surjection(B, T)
      <4> HIDE DEF B
      <4> QED BY DEF Surjection
    <3>3. IsFiniteSet(T)
      <4> HIDE DEF f, T, B
      <4> QED BY <3>1, <3>2, FS_Surjection
    <3>4. IsFiniteSet(T \union {AnyCost}) /\ V(t) = T \union {AnyCost}
      <4>1. IsFiniteSet(T \union {AnyCost})
        <5> HIDE DEF T
        <5> QED BY <3>3, FS_AddElement
      <4> QED BY <4>1
    <3> HIDE DEF T, V
    <3> QED BY <3>4
  <2> HIDE DEF V
  <2> QED BY <2>2, <2>3, HasMin
<1>2. Relax(c, d) = [t \in Tiles |-> IF t = d THEN 0 ELSE Min(V(t))]
  BY DEF Relax
<1>3. \A t \in Tiles : Min(V(t)) \in Int
  <2> HIDE DEF V
  <2> QED BY <1>1
<1>4. \A t \in Tiles \ {d} : Relax(c, d)[t] \in V(t)
  <2> HIDE DEF V
  <2> QED BY <1>1, <1>2
<1>5. \A t \in Tiles \ {d} : \/ Relax(c, d)[t] = AnyCost
                            \/ \E u \in Beside(t) : Relax(c, d)[t] = c[u] + Cost(u)
  BY <1>4
<1> HIDE DEF V
<1> QED BY <1>2, <1>3, <1>5

FirstRound(d) == [t \in Tiles |-> IF t = d THEN 0 ELSE AnyCost]

(* Each round follows from the one before.                                  *)
LEMMA RoundsFollow ==
  ASSUME NEW d \in Tiles, NEW f, RoundsOf(f, d)
  PROVE  /\ f[0] = FirstRound(d)
         /\ \A k \in Nat : k < NbTiles => f[k + 1] = Relax(f[k], d)
         /\ \A k \in 0..NbTiles : f[k] \in [Tiles -> Int]
<1>1. \A k \in 0..NbTiles :
        f[k] = IF k = 0 THEN FirstRound(d)
               ELSE IF Relax(f[k - 1], d) = f[k - 1] THEN f[k - 1] ELSE Relax(f[k - 1], d)
  BY DEF RoundsOf, FirstRound
<1>2. f[0] = FirstRound(d)
  BY <1>1, Numbers
<1>3. ASSUME NEW k \in Nat, k < NbTiles PROVE f[k + 1] = Relax(f[k], d)
  <2>1. k + 1 \in 0..NbTiles /\ k + 1 # 0 /\ (k + 1) - 1 = k
    BY <1>3, Numbers
  <2>2. f[k + 1] = IF Relax(f[k], d) = f[k] THEN f[k] ELSE Relax(f[k], d)
    BY <1>1, <2>1
  <2> QED BY <2>2
<1> DEFINE G == {k \in Nat : k <= NbTiles => f[k] \in [Tiles -> Int]}
<1>4. 0 \in G
  BY <1>2, AnyCostNat DEF FirstRound
<1>5. ASSUME NEW k \in Nat, k \in G PROVE k + 1 \in G
  <2> SUFFICES ASSUME k + 1 <= NbTiles PROVE f[k + 1] \in [Tiles -> Int]
    OBVIOUS
  <2>1. k < NbTiles /\ k <= NbTiles
    BY Numbers
  <2>2. f[k] \in [Tiles -> Int] /\ f[k + 1] = Relax(f[k], d)
    BY <1>3, <1>5, <2>1
  <2> QED BY <2>2, Relaxes
<1>6. Nat \subseteq G
  <2> HIDE DEF G
  <2> QED BY <1>4, <1>5, NatInSet
<1> QED BY <1>2, <1>3, <1>6, Numbers

(* The rounds are well defined.                                             *)
LEMMA RoundsExist == ASSUME NEW d \in Tiles PROVE \E f : RoundsOf(f, d)
<1> DEFINE V == [Tiles -> Int]
           Round(c) == IF Relax(c, d) = c THEN c ELSE Relax(c, d)
           step == [x \in (1..NbTiles) \X V |-> Round(x[2])]
<1>1. FirstRound(d) \in V
  BY AnyCostNat DEF FirstRound
<1>2. \A c \in V : Round(c) \in V
  BY Relaxes
<1> HIDE DEF V, Round
<1>3. \A i \in 1..NbTiles : \A v \in V : step[<<i, v>>] = Round(v)
  OBVIOUS
<1>4. \A i \in 1..NbTiles : \A v \in V : step[<<i, v>>] \in V
  <2> HIDE DEF step
  <2> QED BY <1>2, <1>3
<1> HIDE DEF step
<1>5. PICK h \in [0..NbTiles -> V] : Climbs(h, NbTiles, FirstRound(d), step)
  BY <1>1, <1>4, Numbers, RecursionUpTo
<1>6. ASSUME NEW k \in 0..NbTiles
      PROVE  h[k] = IF k = 0 THEN FirstRound(d) ELSE Round(h[k - 1])
  <2>1. CASE k = 0
    BY <1>5, <2>1 DEF Climbs
  <2>2. CASE k # 0
    <3>1. k \in 1..NbTiles /\ k - 1 \in 0..NbTiles
      BY <2>2, Numbers
    <3>2. h[k] = step[<<k, h[k - 1]>>] /\ h[k - 1] \in V
      BY <1>5, <2>2, <3>1 DEF Climbs
    <3> QED BY <1>3, <2>2, <3>1, <3>2
  <2> QED BY <2>1, <2>2
<1>7. h = [k \in 0..NbTiles |-> IF k = 0 THEN FirstRound(d) ELSE Round(h[k - 1])]
  BY <1>5, <1>6
<1> QED BY <1>7 DEF RoundsOf, FirstRound, Round

(* LeastCost is the last round, while the cache is up to date.              *)
LEMMA LeastIs ==
  ASSUME accessible = free, NEW d \in Tiles
  PROVE  \E f : RoundsOf(f, d) /\ LeastCost(d) = f[NbTiles]
<1>2. LeastCost(d) = (CHOOSE f : RoundsOf(f, d))[NbTiles]
  BY DEF LeastCost, RoundsOf, Relax, StepCost, Cost
<1> QED BY <1>2, RoundsExist

-----------------------------------------------------------------------------
(* What is left of the way from the tiles of a table, and that there is no  *)
(* better one.                                                              *)
StepsNear(next, d) == \A t \in Tiles : next[t] # Far /\ t # d => Distance(t, next[t]) = 1

Priced(next, d, rest) ==
  rest[d] = 0 /\ \A t \in Tiles : next[t] # Far /\ t # d => rest[t] = Cost(next[t]) + rest[next[t]]

Best(next, d) ==
  \E rest \in [Tiles -> Int] :
    /\ Priced(next, d, rest)
    /\ \A f : RoundsOf(f, d) =>
         \A k \in 0..NbTiles : \A t \in Tiles : next[t] # Far => rest[t] <= f[k][t]

(* Following the table from a tile, a search can not have missed the end.   *)
LEMMA FollowMeasure ==
  ASSUME indexes \in [Tiles -> NextType], NEW d \in Tiles, LeadsTo(indexes[d], d),
         StepsNear(indexes[d], d), NEW rest \in [Tiles -> Int], Priced(indexes[d], d, rest),
         NEW o \in Tiles, NEW D, Measures(D, o, d), NEW t \in Tiles, HasPath(t, d)
  PROVE  D[d] <= D[t] + rest[t]
<1> DEFINE next == indexes[d]
           Bad == {u \in Tiles : next[u] # Far /\ ~ (D[d] <= D[u] + rest[u])}
<1>0. next \in NextType
  OBVIOUS
<1>1. PICK rank \in [Tiles -> Nat] : Leads(next, d, rank)
  BY DEF LeadsTo
<1>2. \A u \in Tiles : D[u] \in Int /\ rest[u] \in Int /\ Cost(u) \in Int
  BY CostRange DEF Measures
<1>3. rest[d] = 0
  BY DEF Priced
<1> SUFFICES ASSUME t \in Bad PROVE FALSE
  BY DEF HasPath
<1>4. IsFiniteSet(Bad) /\ Bad \subseteq Tiles
  BY Numbers, FS_Subset
<1> DEFINE f == [u \in Bad |-> 0 - rank[u]]
<1>5. \A u \in Bad : f[u] \in Int /\ f[u] = 0 - rank[u] /\ rank[u] \in Nat
  BY <1>1
<1>6. PICK u \in Bad : \A v \in Bad : rank[u] <= rank[v]
  <2> HIDE DEF Bad, f
  <2>1. PICK u \in Bad : \A v \in Bad : f[u] >= f[v]
    BY <1>4, <1>5, HasMaxOver
  <2>2. \A v \in Bad : rank[u] <= rank[v]
    BY <1>5, <2>1
  <2> QED BY <2>2
<1>7. u \in Tiles /\ next[u] # Far /\ ~ (D[d] <= D[u] + rest[u])
  OBVIOUS
<1>8. u # d
  BY <1>2, <1>3, <1>7
<1> DEFINE v == next[u]
<1>9. v \in Tiles /\ next[v] # Far /\ rank[v] < rank[u] /\ rank[v] \in Nat /\ rank[u] \in Nat
  BY <1>0, <1>1, <1>7, <1>8 DEF Leads, NextType
<1>10. v \in Steps(u, d)
  BY <1>7, <1>8 DEF Steps, Neighbors, HasPath, StepsNear
<1>11. rest[u] = Cost(v) + rest[v]
  BY <1>7, <1>8 DEF Priced
<1>12. D[v] <= D[u] + Cost(v)
  BY <1>7, <1>10 DEF Measures
<1>13. v \notin Bad
  <2> HIDE DEF Bad
  <2> QED BY <1>6, <1>9
<1>14. D[d] <= D[v] + rest[v]
  BY <1>9, <1>13
<1> HIDE DEF v, Bad
<1> QED BY <1>2, <1>7, <1>9, <1>11, <1>12, <1>14

(* No round finds a way that is better than all of those that the search    *)
(* and the table allow.                                                     *)
LEMMA RoundsBound ==
  ASSUME indexes \in [Tiles -> NextType], NEW d \in Tiles, LeadsTo(indexes[d], d),
         StepsNear(indexes[d], d), Best(indexes[d], d),
         NEW o \in Tiles, NEW D, Measures(D, o, d), NEW f, RoundsOf(f, d)
  PROVE  \A k \in 0..NbTiles : \A t \in Tiles : D[d] <= D[t] + f[k][t]
<1>1. PICK rest \in [Tiles -> Int] :
        /\ Priced(indexes[d], d, rest)
        /\ \A k \in 0..NbTiles : \A t \in Tiles : indexes[d][t] # Far => rest[t] <= f[k][t]
  BY DEF Best
<1>2. /\ f[0] = FirstRound(d)
      /\ \A k \in Nat : k < NbTiles => f[k + 1] = Relax(f[k], d)
      /\ \A k \in 0..NbTiles : f[k] \in [Tiles -> Int]
  BY RoundsFollow
<1>3. \A t \in Tiles : D[t] \in Nat /\ D[t] <= AnyCost /\ AnyCost \in Nat
  BY AnyCostNat DEF Measures
<1> DEFINE G == {k \in Nat : k <= NbTiles => \A t \in Tiles : D[d] <= D[t] + f[k][t]}
<1>4. 0 \in G
  <2>1. ASSUME NEW t \in Tiles PROVE D[d] <= D[t] + f[0][t]
    <3>1. f[0][t] = IF t = d THEN 0 ELSE AnyCost
      BY <1>2 DEF FirstRound
    <3> QED BY <1>3, <3>1
  <2> QED BY <2>1
<1>5. ASSUME NEW k \in Nat, k \in G PROVE k + 1 \in G
  <2> SUFFICES ASSUME k + 1 <= NbTiles, NEW t \in Tiles PROVE D[d] <= D[t] + f[k + 1][t]
    OBVIOUS
  <2>1. k < NbTiles /\ k <= NbTiles /\ k \in 0..NbTiles /\ k + 1 \in 0..NbTiles
    BY Numbers
  <2>2. PICK c \in [Tiles -> Int] : c = f[k]
    BY <1>2, <2>1
  <2>3. f[k + 1] = Relax(c, d) /\ f[k + 1] \in [Tiles -> Int]
    BY <1>2, <2>1, <2>2
  <2>4. \A u \in Tiles : D[d] <= D[u] + c[u]
    BY <1>5, <2>1, <2>2
  <2>5. CASE t = d
    <3>1. f[k + 1][t] = 0
      BY <2>3, <2>5, Relaxes
    <3> QED BY <1>3, <2>5, <3>1
  <2>6. CASE t # d /\ HasPath(t, d)
    <3>1. D[d] <= D[t] + rest[t]
      BY <1>1, <2>6, FollowMeasure
    <3>2. rest[t] <= f[k + 1][t] /\ rest[t] \in Int /\ f[k + 1][t] \in Int
      BY <1>1, <2>1, <2>3, <2>6 DEF HasPath
    <3> QED BY <1>3, <3>1, <3>2
  <2>7. CASE t # d /\ ~ HasPath(t, d)
    <3>1. \/ f[k + 1][t] = AnyCost
          \/ \E u \in Beside(t) : f[k + 1][t] = c[u] + Cost(u)
      BY <2>3, <2>7, Relaxes
    <3>2. CASE f[k + 1][t] = AnyCost
      BY <1>3, <3>2
    <3>3. ASSUME NEW u \in Beside(t), f[k + 1][t] = c[u] + Cost(u)
          PROVE  D[d] <= D[t] + f[k + 1][t]
      <4>1. u \in Tiles /\ Distance(t, u) = 1
        BY DEF Beside
      <4>2. u \in {t - 1, t - Width, t + 1, t + Width} \intersect Tiles
        BY <4>1, BesideIsNear
      <4>3. u \in Steps(t, d)
        BY <2>7, <4>1, <4>2 DEF Steps, Neighbors
      <4>4. D[u] <= D[t] + Cost(u)
        BY <4>3 DEF Measures
      <4>5. D[d] <= D[u] + c[u] /\ c[u] \in Int /\ Cost(u) \in Nat
        BY <2>4, <4>1, CostRange
      <4> QED BY <1>3, <3>3, <4>1, <4>4, <4>5
    <3> QED BY <3>1, <3>2, <3>3
  <2> QED BY <2>5, <2>6, <2>7
<1>6. Nat \subseteq G
  <2> HIDE DEF G
  <2> QED BY <1>4, <1>5, NatInSet
<1> QED BY <1>6, Numbers

(* No tile is twice on a path along which a number grows. *)
LEMMA OnwardOnce ==
  ASSUME NEW S, NEW age \in [S -> Nat], NEW o, NEW d, NEW p, Onward(p, S, age, o, d)
  PROVE  \A i, j \in 1..Len(p) : p[i] = p[j] => i = j
<1>1. /\ p \in Seq(S) /\ Len(p) \in Nat /\ \A i \in 1..Len(p) : p[i] \in S /\ age[p[i]] \in Nat
      /\ \A i \in 1..(Len(p) - 1) : age[p[i]] < age[p[i + 1]]
  BY DEF Onward
<1> DEFINE G == {k \in Nat : k <= Len(p) => \A i \in 1..Len(p) : i < k => age[p[i]] < age[p[k]]}
<1>2. 0 \in G
  OBVIOUS
<1>3. ASSUME NEW k \in Nat, k \in G PROVE k + 1 \in G
  <2> SUFFICES ASSUME k + 1 <= Len(p), NEW i \in 1..Len(p), i < k + 1
               PROVE  age[p[i]] < age[p[k + 1]]
    OBVIOUS
  <2>1. k \in 1..(Len(p) - 1) /\ k \in 1..Len(p) /\ k + 1 \in 1..Len(p) /\ k <= Len(p)
    BY <1>1
  <2>2. age[p[k]] < age[p[k + 1]] /\ age[p[i]] \in Nat /\ age[p[k]] \in Nat /\ age[p[k + 1]] \in Nat
    BY <1>1, <2>1
  <2>3. CASE i = k
    BY <2>2, <2>3
  <2>4. CASE i # k
    <3>1. i < k
      BY <2>4
    <3>2. age[p[i]] < age[p[k]]
      BY <1>3, <2>1, <3>1
    <3> QED BY <2>2, <3>2
  <2> QED BY <2>3, <2>4
<1>4. Nat \subseteq G
  <2> HIDE DEF G
  <2> QED BY <1>2, <1>3, NatInSet
<1>5. ASSUME NEW i \in 1..Len(p), NEW j \in 1..Len(p), i < j PROVE p[i] # p[j]
  <2>1. j \in G /\ j <= Len(p) /\ age[p[i]] \in Nat /\ age[p[j]] \in Nat
    BY <1>1, <1>4
  <2>2. age[p[i]] < age[p[j]]
    BY <1>5, <2>1
  <2> QED BY <2>1, <2>2
<1>6. \A i, j \in 1..Len(p) : i < j \/ j < i \/ i = j
  BY <1>1
<1> QED BY <1>5, <1>6

(* What consolidate_path writes, for a path without a tile twice. *)
LEMMA ConsolidatedIs ==
  ASSUME NEW next \in NextType, NEW o \in Tiles, NEW d \in Tiles,
         NEW age \in [Tiles -> Nat], NEW p, Onward(p, Tiles, age, o, d)
  PROVE  /\ Consolidated(next, p)[d] = d
         /\ \A i \in 1..(Len(p) - 1) :
              p[i] # d /\ Consolidated(next, p)[p[i]] = p[i + 1]
         /\ \A t \in Tiles \ ToSet(p) : Consolidated(next, p)[t] = next[t]
         /\ ToSet(p) = {p[i] : i \in 1..Len(p)} /\ ToSet(p) \subseteq Tiles
<1>1. /\ p \in Seq(Tiles) /\ Len(p) \in Nat /\ Len(p) > 0 /\ p[Len(p)] = d /\ Last(p) = d
      /\ DOMAIN p = 1..Len(p) /\ \A i \in 1..Len(p) : p[i] \in Tiles
  BY DEF Onward, Last
<1>2. ToSet(p) = {p[i] : i \in 1..Len(p)} /\ ToSet(p) \subseteq Tiles
  BY <1>1 DEF ToSet
<1>3. \A i, j \in 1..Len(p) : p[i] = p[j] => i = j
  BY OnwardOnce
<1>4. ASSUME NEW i \in 1..(Len(p) - 1)
      PROVE  p[i] # d /\ Consolidated(next, p)[p[i]] = p[i + 1]
  <2>0. PICK n \in Nat : n = Len(p)
    BY <1>1
  <2>1. i \in 1..Len(p) /\ Len(p) \in 1..Len(p) /\ i # Len(p) /\ i + 1 = 1 + i
    <3>1. i \in 1..(n - 1) /\ n > 0
      BY <1>1, <2>0
    <3>2. i \in 1..n /\ n \in 1..n /\ i # n /\ i + 1 = 1 + i
      BY <3>1
    <3> QED BY <2>0, <3>2
  <2>2. p[i] # d /\ p[i] \in Tiles /\ p[i] \in ToSet(p)
    BY <1>1, <1>2, <1>3, <2>1
  <2>3. (CHOOSE j \in DOMAIN p : p[j] = p[i]) = i
    <3>1. PICK j \in DOMAIN p : p[j] = p[i] /\ j = CHOOSE x \in DOMAIN p : p[x] = p[i]
      BY <1>1, <2>1
    <3> QED BY <1>1, <1>3, <2>1, <3>1
  <2>4. Consolidated(next, p)[p[i]] = p[1 + i]
    BY <1>1, <2>2, <2>3 DEF Consolidated
  <2> QED BY <2>1, <2>2, <2>4
<1>5. Consolidated(next, p)[d] = d
  BY <1>1 DEF Consolidated
<1>6. \A t \in Tiles \ ToSet(p) : Consolidated(next, p)[t] = next[t]
  <2>1. d \in ToSet(p)
    <3>1. Len(p) \in 1..Len(p)
      BY <1>1
    <3> QED BY <1>1, <1>2, <3>1
  <2> QED BY <1>1, <2>1 DEF Consolidated
<1> QED BY <1>2, <1>4, <1>5, <1>6

(* What consolidate_path writes is as good as what was there: its tiles got *)
(* their costs from the search, and where the search met the table it       *)
(* followed it.                                                             *)
LEMMA BestKept ==
  ASSUME indexes \in [Tiles -> NextType], NEW o \in Tiles, NEW d \in Tiles,
         LeadsTo(indexes[d], d), StepsNear(indexes[d], d) => Best(indexes[d], d),
         NEW age \in [Tiles -> Nat], NEW p, Onward(p, Tiles, age, o, d),
         NEW g, Cheapest(p, g, o, d),
         StepsNear(Consolidated(indexes[d], p), d)
  PROVE  Best(Consolidated(indexes[d], p), d)
<1> DEFINE next == indexes[d]
           new == Consolidated(next, p)
           P == ToSet(p)
<1>0. next \in NextType
  OBVIOUS
<1>1. /\ new[d] = d
      /\ \A i \in 1..(Len(p) - 1) : p[i] # d /\ new[p[i]] = p[i + 1]
      /\ \A t \in Tiles \ P : new[t] = next[t]
      /\ P = {p[i] : i \in 1..Len(p)} /\ P \subseteq Tiles
  <2> HIDE DEF next
  <2> QED BY <1>0, ConsolidatedIs DEF next
<1>2. /\ Len(p) \in Nat /\ Len(p) > 0 /\ p[1] = o /\ p[Len(p)] = d
      /\ \A i \in 1..Len(p) : p[i] \in P
      /\ \A i \in 1..(Len(p) - 1) : age[p[i]] < age[p[i + 1]]
  BY <1>1 DEF Onward
<1>3. /\ g \in [Tiles -> Int] /\ g[o] = 0
      /\ \A i \in 1..(Len(p) - 1) :
           p[i + 1] \in Neighbors(p[i], d) /\ g[p[i + 1]] = g[p[i]] + Cost(p[i + 1])
      /\ \A D : Measures(D, o, d) => g[d] <= D[d]
  BY DEF Cheapest
<1>4. StepsNear(new, d)
  OBVIOUS
<1> HIDE DEF new, P
<1>5. ASSUME NEW t \in P, t # d
      PROVE  /\ new[t] \in P /\ age[t] < age[new[t]] /\ new[t] \in Neighbors(t, d)
             /\ g[new[t]] = g[t] + Cost(new[t])
  <2>1. PICK i \in 1..Len(p) : t = p[i]
    BY <1>1
  <2>2. i \in 1..(Len(p) - 1) /\ i + 1 \in 1..Len(p)
    BY <1>2, <1>5, <2>1
  <2>3. new[t] = p[i + 1] /\ p[i + 1] \in P /\ age[p[i]] < age[p[i + 1]]
    BY <1>1, <1>2, <2>1, <2>2
  <2>4. p[i + 1] \in Neighbors(p[i], d) /\ g[p[i + 1]] = g[p[i]] + Cost(p[i + 1])
    BY <1>3, <2>2
  <2> QED BY <2>1, <2>3, <2>4
<1>6. ASSUME NEW t \in Tiles, next[t] # Far, t # d PROVE new[t] = next[t]
  <2>1. CASE t \in P
    <3>1. Neighbors(t, d) = {next[t]}
      BY <1>6 DEF Neighbors, HasPath
    <3> QED BY <1>5, <1>6, <2>1, <3>1
  <2>2. CASE t \notin P
    BY <1>1, <2>2
  <2> QED BY <2>1, <2>2
<1>7. StepsNear(next, d)
  <2>1. \A t \in Tiles : next[t] # Far /\ t # d => Distance(t, next[t]) = 1
    <3> SUFFICES ASSUME NEW t \in Tiles, next[t] # Far, t # d PROVE Distance(t, next[t]) = 1
      OBVIOUS
    <3> HIDE DEF next
    <3> QED BY <1>4, <1>6 DEF StepsNear
  <2> QED BY <2>1 DEF StepsNear
<1>8. PICK rest \in [Tiles -> Int] :
        /\ Priced(next, d, rest)
        /\ \A f : RoundsOf(f, d) =>
             \A k \in 0..NbTiles : \A t \in Tiles : next[t] # Far => rest[t] <= f[k][t]
  <2>1. Best(next, d)
    BY <1>7
  <2> QED BY <2>1 DEF Best
<1>9. PICK D : Measures(D, o, d)
  BY MeasureExists
<1>10. /\ \A t \in Tiles : D[t] \in Int /\ g[t] \in Int /\ rest[t] \in Int /\ Cost(t) \in Int
       /\ g[d] <= D[d] /\ D[o] = 0
  <2>1. \A t \in Tiles : D[t] \in Int
    BY <1>9 DEF Measures
  <2>2. \A t \in Tiles : g[t] \in Int /\ rest[t] \in Int /\ Cost(t) \in Int
    BY <1>3, CostRange
  <2>3. g[d] <= D[d] /\ D[o] = 0
    BY <1>3, <1>9 DEF Measures
  <2> QED BY <2>1, <2>2, <2>3
<1>11. \A t \in P : D[t] <= g[t]
  <2> DEFINE G == {k \in Nat : k + 1 <= Len(p) => D[p[k + 1]] <= g[p[k + 1]]}
  <2>1. 0 \in G
    BY <1>2, <1>3, <1>10
  <2>2. ASSUME NEW k \in Nat, k \in G PROVE k + 1 \in G
    <3> SUFFICES ASSUME (k + 1) + 1 <= Len(p) PROVE D[p[(k + 1) + 1]] <= g[p[(k + 1) + 1]]
      OBVIOUS
    <3>1. k + 1 \in 1..(Len(p) - 1) /\ k + 1 \in 1..Len(p) /\ (k + 1) + 1 \in 1..Len(p)
      BY <1>2
    <3>2. PICK t \in P : t = p[k + 1] /\ t # d /\ t \in Tiles
      BY <1>1, <1>2, <3>1
    <3>3. PICK u \in P : u = p[(k + 1) + 1] /\ u \in Tiles
      BY <1>1, <1>2, <3>1
    <3>4. new[t] = u /\ u \in Neighbors(t, d) /\ g[u] = g[t] + Cost(u)
      BY <1>1, <1>3, <3>1, <3>2, <3>3
    <3>5. u # Far
      BY <3>3, Numbers
    <3>6. u \in Steps(t, d)
      BY <1>4, <3>2, <3>4, <3>5 DEF StepsNear, Steps
    <3>7. D[u] <= D[t] + Cost(u)
      BY <1>9, <3>2, <3>6 DEF Measures
    <3>8. D[t] <= g[t]
      BY <1>2, <2>2, <3>1, <3>2
    <3>9. D[u] <= g[u]
      <4>1. D[u] \in Int /\ D[t] \in Int /\ g[u] \in Int /\ g[t] \in Int /\ Cost(u) \in Int
        BY <1>10, <3>2, <3>3
      <4>2. \A a, b, c, e, h \in Int : a <= b + c /\ b <= e /\ h = e + c => a <= h
        OBVIOUS
      <4>3. g[u] = g[t] + Cost(u)
        BY <3>4
      <4> QED BY ONLY <3>7, <3>8, <4>1, <4>2, <4>3
    <3> QED BY <3>3, <3>9
  <2>3. Nat \subseteq G
    <3> HIDE DEF G
    <3> QED BY <2>1, <2>2, NatInSet
  <2>4. ASSUME NEW t \in P PROVE D[t] <= g[t]
    <3>1. PICK i \in 1..Len(p) : t = p[i]
      BY <1>1
    <3>2. i - 1 \in Nat /\ (i - 1) + 1 = i /\ i <= Len(p)
      BY <1>2
    <3> QED BY <2>3, <3>1, <3>2
  <2> QED BY <2>4
<1>12. \A t \in P : next[t] # Far => rest[t] = g[d] - g[t]
  <2> DEFINE Bad == {t \in P : next[t] # Far /\ rest[t] # g[d] - g[t]}
             h == [t \in Bad |-> age[t]]
  <2> SUFFICES ASSUME Bad # {} PROVE FALSE
    OBVIOUS
  <2>1. IsFiniteSet(Bad) /\ Bad \subseteq P
    BY <1>1, Numbers, FS_Subset
  <2>2. \A t \in Bad : h[t] \in Int /\ h[t] = age[t] /\ age[t] \in Nat
    BY <1>1
  <2>3. PICK t \in Bad : \A u \in Bad : age[t] >= age[u]
    <3> HIDE DEF Bad, h
    <3>1. PICK t \in Bad : \A u \in Bad : h[t] >= h[u]
      BY <2>1, <2>2, HasMaxOver
    <3> QED BY <2>2, <3>1
  <2>4. t \in P /\ t \in Tiles /\ next[t] # Far /\ rest[t] # g[d] - g[t]
    BY <1>1
  <2>5. t # d
    BY <1>8, <1>10, <2>4 DEF Priced
  <2>6. PICK u \in P : u = next[t] /\ u = new[t]
    BY <1>5, <1>6, <2>4, <2>5
  <2>7. /\ age[t] < age[u] /\ g[u] = g[t] + Cost(u) /\ u \in Tiles
        /\ age[t] \in Nat /\ age[u] \in Nat
    BY <1>1, <1>5, <2>4, <2>5, <2>6
  <2>8. rest[t] = Cost(u) + rest[u]
    BY <1>8, <2>4, <2>5, <2>6 DEF Priced
  <2>9. next[u] # Far
    <3>1. PICK rank : Leads(next, d, rank)
      BY DEF LeadsTo
    <3> QED BY <2>4, <2>5, <2>6, <3>1 DEF Leads
  <2>10. u \notin Bad
    <3> HIDE DEF Bad
    <3> QED BY <2>3, <2>7
  <2>11. rest[u] = g[d] - g[u]
    BY <2>9, <2>10
  <2> QED BY <1>10, <2>4, <2>7, <2>8, <2>11
<1> DEFINE left == [t \in Tiles |-> IF t \in P THEN g[d] - g[t] ELSE rest[t]]
<1>13. /\ \A t \in Tiles : left[t] = IF t \in P THEN g[d] - g[t] ELSE rest[t]
       /\ left \in [Tiles -> Int]
  BY <1>10
<1> HIDE DEF left
<1>14. d \in P
  <2>1. Len(p) \in 1..Len(p)
    BY <1>2
  <2> QED BY <1>2, <2>1
<1>15. Priced(new, d, left)
  <2>1. left[d] = 0
    BY <1>10, <1>13, <1>14
  <2>2. ASSUME NEW t \in Tiles, new[t] # Far, t # d PROVE left[t] = Cost(new[t]) + left[new[t]]
    <3>1. CASE t \in P
      <4>1. PICK u \in P : u = new[t] /\ u \in Tiles
        BY <1>1, <1>5, <2>2, <3>1
      <4>2. g[u] = g[t] + Cost(u)
        BY <1>5, <2>2, <3>1, <4>1
      <4>3. left[t] = g[d] - g[t] /\ left[u] = g[d] - g[u]
        BY <1>13, <3>1, <4>1
      <4> QED BY <1>10, <4>1, <4>2, <4>3
    <3>2. CASE t \notin P
      <4>1. new[t] = next[t]
        BY <1>1, <3>2
      <4>2. PICK u \in Tiles : u = new[t] /\ u = next[t]
        BY <1>0, <2>2, <4>1 DEF NextType
      <4>3. rest[t] = Cost(u) + rest[u]
        BY <1>8, <2>2, <4>1, <4>2 DEF Priced
      <4>4. next[u] # Far
        <5>1. PICK rank : Leads(next, d, rank)
          BY DEF LeadsTo
        <5> QED BY <2>2, <4>1, <4>2, <5>1 DEF Leads
      <4>5. left[u] = rest[u]
        BY <1>12, <1>13, <4>4
      <4> QED BY <1>13, <3>2, <4>2, <4>3, <4>5
    <3> QED BY <3>1, <3>2
  <2> QED BY <2>1, <2>2 DEF Priced
<1>16. ASSUME NEW f, RoundsOf(f, d), NEW k \in 0..NbTiles, NEW t \in Tiles, new[t] # Far
       PROVE  left[t] <= f[k][t]
  <2>1. CASE t \in P
    <3>1. Best(next, d)
      BY <1>7
    <3>2. D[d] <= D[t] + f[k][t]
      BY <1>7, <1>9, <1>16, <3>1, RoundsBound
    <3>3. f[k] \in [Tiles -> Int]
      BY <1>16, RoundsFollow
    <3>4. f[k][t] \in Int /\ left[t] = g[d] - g[t] /\ D[t] <= g[t]
      BY <1>11, <1>13, <2>1, <3>3
    <3> QED BY <1>10, <3>2, <3>4
  <2>2. CASE t \notin P
    <3>1. next[t] # Far
      BY <1>1, <1>16, <2>2
    <3> QED BY <1>8, <1>13, <1>16, <2>2, <3>1
  <2> QED BY <2>1, <2>2
<1>17. Best(new, d)
  BY <1>13, <1>15, <1>16 DEF Best
<1> QED BY <1>17 DEF new

(* The inductive invariant of the costs: tables of single steps are best. *)
BestInv == \A d \in Tiles : StepsNear(indexes[d], d) => Best(indexes[d], d)

(* How good a table is depends on nothing but the tiles that are            *)
(* accessible.                                                              *)
LEMMA BestSame ==
  ASSUME accessible' = accessible, NEW next, NEW d
  PROVE  Best(next, d)' <=> Best(next, d)
<1>1. \A t : Cost(t)' = Cost(t)
  BY DEF Cost
<1>2. \A f : RoundsOf(f, d)' <=> RoundsOf(f, d)
  BY DEF RoundsOf, Relax, Cost
<1>3. \A rest : Priced(next, d, rest)' <=> Priced(next, d, rest)
  BY <1>1 DEF Priced
<1> QED BY <1>2, <1>3 DEF Best

(* So a step that changes neither keeps it.                                 *)
LEMMA BestStays ==
  ASSUME BestInv, accessible' = accessible, indexes' = indexes
  PROVE  BestInv'
<1>1. \A d \in Tiles : StepsNear(indexes[d], d)' <=> StepsNear(indexes[d], d)
  BY DEF StepsNear
<1>2. \A d \in Tiles : Best(indexes[d], d)' <=> Best(indexes[d], d)
  <2> SUFFICES ASSUME NEW d \in Tiles PROVE Best(indexes[d], d)' <=> Best(indexes[d], d)
    OBVIOUS
  <2>1. PICK next : next = indexes[d] /\ next = indexes'[d]
    OBVIOUS
  <2>2. Best(next, d)' <=> Best(next, d)
    BY BestSame
  <2> QED BY <2>1, <2>2 DEF Best, Priced
<1> QED BY <1>1, <1>2 DEF BestInv

(* Of an empty table there is nothing to say.                               *)
LEMMA BestEmpty == ASSUME NEW d \in Tiles PROVE Best(NoPaths[d], d) /\ Best(NoPaths[d], d)'
<1> DEFINE rest == [t \in Tiles |-> 0]
<1>1. rest \in [Tiles -> Int] /\ rest[d] = 0 /\ \A t \in Tiles : NoPaths[d][t] = Far
  BY DEF NoPaths
<1> HIDE DEF rest
<1>2. Priced(NoPaths[d], d, rest) /\ Priced(NoPaths[d], d, rest)'
  BY <1>1 DEF Priced
<1> QED BY <1>1, <1>2 DEF Best

(* Each step keeps the invariant.                                           *)
LEMMA BestNext == TablesInv /\ BestInv /\ [Next]_vars => BestInv'
<1> SUFFICES ASSUME TablesInv, BestInv, [Next]_vars PROVE BestInv'
  OBVIOUS
<1>b. /\ indexes \in [Tiles -> NextType] /\ \A d \in Tiles : LeadsTo(indexes[d], d)
      /\ requests \in Seq([orig : Tiles, dest : Tiles])
  BY DEF TablesInv, TypeOK, NextType
<1>1. CASE accessible' = accessible /\ indexes' = indexes
  BY <1>1, BestStays
<1>2. CASE Sync
  <2>1. CASE synced # revision
    <3>1. indexes' = NoPaths
      BY <1>2, <2>1 DEF Sync
    <3>2. ASSUME NEW d \in Tiles PROVE Best(indexes[d], d)'
      <4>1. PICK next : next = indexes'[d] /\ next = NoPaths[d]
        BY <3>1
      <4>2. Best(NoPaths[d], d)'
        BY BestEmpty
      <4> QED BY <4>1, <4>2 DEF Best, Priced
    <3> QED BY <3>2 DEF BestInv
  <2>2. CASE synced = revision
    BY <1>1, <1>2, <2>2 DEF Sync, tables
  <2> QED BY <2>1, <2>2
<1>3. CASE SkipRequest
  BY <1>1, <1>3 DEF SkipRequest, tables
<1>4. CASE ComputeRequest
  <2> DEFINE o == Head(requests).orig
             d == Head(requests).dest
             p == ComputePath(o, d)
  <2>1. Consolidate(p) /\ requests # << >> /\ accessible' = accessible
    BY <1>4 DEF ComputeRequest
  <2>2. Head(requests) \in [orig : Tiles, dest : Tiles]
    BY <1>b, <2>1, HeadIn
  <2>3. o \in Tiles /\ d \in Tiles
    BY <2>2
  <2> HIDE DEF o, d
  <2>4. PICK age \in [Tiles -> Nat] : Onward(p, Tiles, age, o, d)
    BY <1>b, <2>3, PathComputed
  <2>5. PICK g : Cheapest(p, g, o, d)
    BY <1>b, <2>3, PathCheapest
  <2> HIDE DEF p
  <2>6. Last(p) = d
    BY <2>4 DEF Onward, Last
  <2>7. indexes' = [indexes EXCEPT ![d] = Consolidated(indexes[d], p)]
    <3>1. indexes' = [indexes EXCEPT ![Last(p)] = [t \in Tiles |->
            IF t = Last(p) THEN Last(p)
            ELSE IF t \in ToSet(p) THEN p[1 + CHOOSE i \in DOMAIN p : p[i] = t]
            ELSE @[t]]]
      BY <2>1, Zenon DEF Consolidate
    <3>2. indexes' = [indexes EXCEPT ![Last(p)] = Consolidated(@, p)]
      BY <3>1, Zenon DEF Consolidated
    <3> QED BY <2>6, <3>2
  <2>8. ASSUME NEW e \in Tiles, StepsNear(indexes[e], e)' PROVE Best(indexes[e], e)'
    <3>1. PICK next : next = indexes'[e]
      OBVIOUS
    <3>2. StepsNear(next, e)
      BY <2>8, <3>1 DEF StepsNear
    <3>3. Best(next, e)
      <4>1. CASE e = d
        <5>1. next = Consolidated(indexes[d], p)
          BY <1>b, <2>3, <2>7, <3>1, <4>1
        <5>2. StepsNear(indexes[d], d) => Best(indexes[d], d)
          BY <2>3 DEF BestInv
        <5> QED BY <1>b, <2>3, <2>4, <2>5, <3>2, <4>1, <5>1, <5>2, BestKept
      <4>2. CASE e # d
        <5>1. next = indexes[e]
          BY <1>b, <2>7, <3>1, <4>2
        <5> QED BY <3>2, <5>1 DEF BestInv
      <4> QED BY <4>1, <4>2
    <3>4. Best(next, e)'
      BY <2>1, <3>3, BestSame
    <3> QED BY <3>1, <3>4 DEF Best, Priced
  <2> QED BY <2>8 DEF BestInv
<1>5. CASE EndCompute
  BY <1>1, <1>5 DEF EndCompute, tables
<1>6. CASE EndFrame
  BY <1>1, <1>6 DEF EndFrame, tables
<1>7. ASSUME NEW q \in Queries, QueryPath(q) PROVE BestInv'
  BY <1>1, <1>7 DEF QueryPath, tables
<1>8. ASSUME NEW g \in Grids, ChangeGrid(g) PROVE BestInv'
  BY <1>1, <1>8 DEF ChangeGrid, tables
<1>9. CASE UNCHANGED vars
  BY <1>1, <1>9 DEF vars, tables
<1> QED BY <1>2, <1>3, <1>4, <1>5, <1>6, <1>7, <1>8, <1>9 DEF Next

-----------------------------------------------------------------------------
(* The cost of a walk, step by step. *)
LEMMA CostAdds ==
  ASSUME NEW p \in Walks, NEW u \in Tiles
  PROVE  CostOf(Append(p, u)) = CostOf(p) + StepCost(u) /\ CostOf(p) \in Int
<1>1. PICK n \in Nat : n + 1 = Len(p) /\ p \in Seq(Tiles)
  <2>1. Len(p) - 1 \in Nat /\ (Len(p) - 1) + 1 = Len(p) /\ p \in Seq(Tiles)
    BY DEF Walks
  <2> QED BY <2>1
<1>2. \A t : StepCost(t) \in Int
  BY Numbers DEF StepCost
<1> DEFINE q == Append(p, u)
           f == [i \in 1..(n + 1) |-> StepCost(q[i + 1])]
           g == [i \in 1..n |-> StepCost(p[i + 1])]
<1>3. Len(q) - 1 = n + 1 /\ Len(p) - 1 = n /\ q[(n + 1) + 1] = u
  BY <1>1
<1>4. \A i \in 1..n : q[i + 1] = p[i + 1]
  BY <1>1
<1>5. CostOf(q) = SumFunction(f) /\ CostOf(p) = SumFunction(g)
  BY <1>3 DEF CostOf
<1>6. f \in [1..(n + 1) -> Int] /\ g \in [1..n -> Int] /\ n + 1 \in 1..(n + 1)
  BY <1>2
<1>7. ASSUME NEW j \in 1..n PROVE g[j] = f[IF j < n + 1 THEN j ELSE j + 1]
  <2>0. j < n + 1 /\ j \in 1..(n + 1)
    <3>1. j \in Nat /\ 1 <= j /\ j <= n
      OBVIOUS
    <3> QED BY ONLY <3>1, n \in Nat
  <2>1. j < n + 1 /\ j \in 1..(n + 1) /\ q[j + 1] = p[j + 1]
    <3> HIDE DEF q
    <3> QED BY <1>4, <2>0
  <2>2. g[j] = StepCost(p[j + 1]) /\ f[j] = StepCost(q[j + 1])
    <3> HIDE DEF q
    <3> QED BY <2>1
  <2> QED BY <2>1, <2>2
<1>8. f[n + 1] = StepCost(u)
  BY <1>3
<1> HIDE DEF f, g, q
<1>9. SumFunction(f) = f[n + 1] + SumFunction(g)
  BY <1>6, <1>7, SumWithout
<1>10. SumFunction(g) \in Int
  <2>1. IsFiniteSet(1..n)
    BY FS_Interval
  <2> QED BY <1>6, <2>1, SumInt
<1> QED BY <1>2, <1>5, <1>8, <1>9, <1>10 DEF q

(* What build_path returns costs what is left from its first tile.          *)
LEMMA WalkCosts ==
  ASSUME indexes \in [Tiles -> NextType], NEW d \in Tiles, LeadsTo(indexes[d], d),
         accessible = free, NEW rest \in [Tiles -> Int], Priced(indexes[d], d, rest),
         NEW o \in Tiles, HasPath(o, d)
  PROVE  CostOf(Followed(o, d)) = rest[o]
<1>1. PICK f : WalkOf(f, o, d) /\ Followed(o, d) = f[NbTiles]
  <2>1. Followed(o, d) = (CHOOSE f : WalkOf(f, o, d))[NbTiles]
    BY DEF Followed, WalkOf, Advance
  <2> QED BY <2>1, WalkExists
<1>2. \A k \in 0..NbTiles : f[k] = IF k = 0 THEN <<o>> ELSE Advance(f[k - 1], d)
  BY <1>1 DEF WalkOf
<1>3. PICK rank : Leads(indexes[d], d, rank)
  BY DEF LeadsTo
<1> DEFINE On(k) == /\ f[k] \in Walks /\ HasPath(Last(f[k]), d)
                    /\ CostOf(f[k]) + rest[Last(f[k])] = rest[o]
           G == {k \in Nat : k <= NbTiles => On(k)}
<1>5. 0 \in G
  <2>1. f[0] = <<o>> /\ Last(<<o>>) = o /\ <<o>> \in Walks
    BY <1>2, Numbers DEF Last, Walks
  <2>2. CostOf(<<o>>) = 0
    <3> DEFINE z == [i \in 1 .. Len(<<o>>) - 1 |-> StepCost(<<o>>[i + 1])]
    <3>1. (1 .. Len(<<o>>) - 1) = {}
      OBVIOUS
    <3>2. z \in [{} -> Int]
      BY <3>1
    <3>3. CostOf(<<o>>) = SumFunction(z)
      BY DEF CostOf
    <3> HIDE DEF z
    <3> QED BY <3>2, <3>3, FS_EmptySet, SumZero
  <2>3. rest[o] \in Int
    OBVIOUS
  <2> QED BY <2>1, <2>2, <2>3
<1>6. ASSUME NEW k \in Nat, k \in G PROVE k + 1 \in G
  <2> SUFFICES ASSUME k + 1 <= NbTiles PROVE On(k + 1)
    OBVIOUS
  <2>1. k + 1 \in 0..NbTiles /\ k + 1 # 0 /\ (k + 1) - 1 = k /\ k <= NbTiles
    BY Numbers
  <2>2. On(k) /\ f[k + 1] = Advance(f[k], d)
    BY <1>2, <1>6, <2>1
  <2>3. PICK p \in Walks : p = f[k]
    BY <2>2
  <2>4. /\ Last(p) \in Tiles /\ f[k + 1] \in Walks /\ indexes[d][Last(p)] # Far
        /\ Last(f[k + 1]) = IF Last(p) = d THEN d ELSE indexes[d][Last(p)]
    BY <2>2, <2>3, Advances DEF HasPath
  <2>5. CASE Last(p) = d
    <3>1. f[k + 1] = p
      BY <2>2, <2>3, <2>5 DEF Advance
    <3> QED BY <2>2, <2>3, <3>1
  <2>6. CASE Last(p) # d
    <3>1. PICK t \in Tiles : t = Last(p)
      BY <2>4
    <3>2. PICK u \in Tiles : u = indexes[d][t]
      <4>1. indexes[d] \in NextType
        OBVIOUS
      <4> QED BY <2>4, <3>1, <4>1 DEF NextType
    <3>3. indexes[d][u] # Far /\ rest[t] = Cost(u) + rest[u]
      BY <1>3, <2>4, <2>6, <3>1, <3>2 DEF Leads, Priced
    <3>4. f[k + 1] = Append(p, u) /\ Last(f[k + 1]) = u
      BY <2>2, <2>3, <2>4, <2>6, <3>1, <3>2 DEF Advance
    <3>5. StepCost(u) = Cost(u) /\ Cost(u) \in Int
      BY CostRange DEF StepCost, Cost
    <3>6. CostOf(f[k + 1]) = CostOf(p) + StepCost(u) /\ CostOf(p) \in Int
      BY <3>4, CostAdds
    <3>7. CostOf(p) + rest[t] = rest[o]
      BY <2>2, <2>3, <3>1
    <3>8. CostOf(f[k + 1]) + rest[u] = rest[o]
      <4>1. rest[t] \in Int /\ rest[u] \in Int /\ rest[o] \in Int
        OBVIOUS
      <4> QED BY <3>3, <3>5, <3>6, <3>7, <4>1
    <3> QED BY <2>4, <3>3, <3>4, <3>8 DEF HasPath
  <2> QED BY <2>5, <2>6
<1>7. Nat \subseteq G
  <2> HIDE DEF G
  <2> QED BY <1>5, <1>6, NatInSet
<1>8. On(NbTiles)
  BY <1>7, Numbers
<1>9. Last(f[NbTiles]) = d
  BY <1>1, WalkArrives
<1>10. CostOf(f[NbTiles]) \in Int
  <2>1. f[NbTiles] \in Walks
    BY <1>8
  <2> QED BY <2>1, CostAdds
<1>11. rest[d] = 0
  BY DEF Priced
<1> QED BY <1>1, <1>8, <1>9, <1>10, <1>11

(* Whichever requests were computed before, from whichever tiles, and       *)
(* wherever a search met a path: no path to a destination is worse than the *)
(* best one, if the steps to it are single ones.                            *)
THEOREM PathsAreBestHolds == Spec => []PathsAreBest
<1>1. Init => BestInv
  BY BestEmpty DEF Init, BestInv
<1>2. TablesInv /\ BestInv /\ [Next]_vars => BestInv'
  BY BestNext
<1>3. Init => SightInv
  BY SightInit
<1>4. TablesInv /\ SightInv /\ [Next]_vars => SightInv'
  BY SightNext
<1>5. TablesInv /\ SightInv /\ BestInv => PathsAreBest
  <2> SUFFICES ASSUME TablesInv, SightInv, BestInv, synced = revision,
                      NEW d \in Tiles, StepsBeside(d), NEW t \in Tiles, HasPath(t, d)
               PROVE  CostOf(Followed(t, d)) <= LeastCost(d)[t]
    BY DEF PathsAreBest
  <2>1. accessible = free /\ indexes \in [Tiles -> NextType] /\ LeadsTo(indexes[d], d)
    BY DEF SightInv, TablesInv, TypeOK, NextType
  <2>2. StepsNear(indexes[d], d)
    BY DEF StepsBeside, HasPath, StepsNear
  <2>3. PICK rest \in [Tiles -> Int] :
          /\ Priced(indexes[d], d, rest)
          /\ \A f : RoundsOf(f, d) =>
               \A k \in 0..NbTiles : \A u \in Tiles : indexes[d][u] # Far => rest[u] <= f[k][u]
    BY <2>2 DEF BestInv, Best
  <2>4. CostOf(Followed(t, d)) = rest[t]
    BY <2>1, <2>3, WalkCosts
  <2>5. PICK f : RoundsOf(f, d) /\ LeastCost(d) = f[NbTiles]
    BY <2>1, LeastIs
  <2> QED BY <2>3, <2>4, <2>5, Numbers DEF HasPath
<1> QED BY <1>1, <1>2, <1>3, <1>4, <1>5, TablesKept, PTL DEF Spec
=============================================================================
