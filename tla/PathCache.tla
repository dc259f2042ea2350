------------------------------ MODULE PathCache ------------------------------
(***************************************************************************)
(* The path finding cache of octopus (PathFindingCache.hh and .cc).  Moving *)
(* units ask each frame for the path from their tile to their target's; a  *)
(* request is queued and, at the beginning of the next frames, a few       *)
(* requests are computed by A*, each path being written to the table of    *)
(* its destination: for each tile the following one.  A search that meets  *)
(* a tile of the table follows it.  A new revision of the grid clears all. *)
(*                                                                         *)
(* The grid belongs to the user of the engine and is external.  Positions  *)
(* are tiles; costs are counted in tiles.                                  *)
(***************************************************************************)
EXTENDS Integers, Sequences, FiniteSets, FiniteSetsExt, SequencesExt

CONSTANTS Width,       \* nb_tiles_x
          NbTiles,
          TileSize,
          One,         \* fixed-point numbers are whole numbers of 1 / One
          MaxRun,      \* max_run of compute_paths
          Grids,       \* the grids there may be: sets of free tiles
          Queries,     \* the paths that units may ask for
          MaxRevision, \* bound: changes of the grid
          MaxRequests  \* bound: requests in the list

Tiles == 0 .. NbTiles - 1
Far == NbTiles \* the index of no tile

ASSUME ConstantsAssumption ==
  /\ Width \in Nat \ {0} /\ NbTiles \in Nat \ {0} /\ NbTiles % Width = 0
  /\ TileSize \in Nat \ {0} /\ TileSize % 2 = 0 /\ One \in Nat \ {0}
  /\ MaxRun \in Nat \ {0} /\ MaxRevision \in Nat /\ MaxRequests \in Nat
  /\ Grids \subseteq SUBSET Tiles
  /\ Queries \subseteq [orig : Tiles, dest : Tiles]

VARIABLES free,       \* is_free of the grid
          revision,   \* get_revision of the grid
          synced,     \* the revision of the cache, -1 before the first
          accessible,
          indexes,    \* indexes[d]: paths_info[d].indexes
          sight,      \* sight[d]: paths_info[d].line_of_sight
          requests,   \* list_requests
          run,        \* the paths computed in this frame
          pc          \* the system to run next

grid == <<free, revision>>
tables == <<indexes, sight>>
vars == <<grid, synced, accessible, tables, requests, run, pc>>

NoPaths == [d \in Tiles |-> [t \in Tiles |-> Far]]
NoSight == [d \in Tiles |-> [t \in Tiles |-> -1]]

Column(t) == t % Width
Row(t) == t \div Width
Abs(n) == IF n < 0 THEN -n ELSE n
Distance(a, b) == Abs(Column(a) - Column(b)) + Abs(Row(a) - Row(b))

HasPath(o, d) == indexes[d][o] # Far

-----------------------------------------------------------------------------
(* Altered get_neighbors: a table is joined wherever it is beside. *)
NeighborsJoin(t, d) ==
  LET beside == {t - 1, t - Width, t + 1, t + Width} \intersect Tiles
      known == {u \in beside : HasPath(u, d)}
  IN CASE HasPath(t, d) -> {indexes[d][t]}
       [] ~ HasPath(t, d) /\ known # {} -> known
       [] OTHER -> beside

(* get_neighbors: the only neighbour of a tile of the table is the next.   *)
Neighbors(t, d) ==
  IF HasPath(t, d) THEN {indexes[d][t]}
  ELSE {t - 1, t - Width, t + 1, t + Width} \intersect Tiles

(* Entering a tile that is not accessible costs more than any way around.  *)
Cost(t) == IF t \in accessible THEN 1 ELSE 1 + NbTiles

(* The labels of a search: opened tiles, closed tiles, costs and           *)
(* predecessors.  The next tile has the least estimate, then index.        *)
Estimate(s, t, d) == s.cost[t] + Distance(t, d)
Closest(s, d) ==
  CHOOSE t \in s.open : \A u \in s.open :
    \/ Estimate(s, t, d) < Estimate(s, u, d)
    \/ Estimate(s, t, d) = Estimate(s, u, d) /\ t <= u

Expand(s, d) ==
  LET cur == Closest(s, d)
      Reached(t) == s.cost[cur] + Cost(t)
      better == {t \in Neighbors(cur, d) \ s.closed :
                   t \notin s.open \union {cur} \/ s.cost[t] > Reached(t)}
  IN [open   |-> (s.open \ {cur}) \union better,
      closed |-> s.closed \union {cur},
      cost   |-> [t \in Tiles |-> IF t \in better THEN Reached(t) ELSE s.cost[t]],
      prev   |-> [t \in Tiles |-> IF t \in better THEN cur ELSE s.prev[t]]]

(* Each expansion closes a tile, so that there are at most NbTiles. *)
FirstLabels(o) == [open |-> {o}, closed |-> {}, cost |-> [t \in Tiles |-> 0],
                   prev |-> [t \in Tiles |-> 0]]
Found(s, d) == s.open = {} \/ Closest(s, d) = d
Search(o, d) ==
  LET labels[k \in 0..NbTiles] ==
        IF k = 0 THEN FirstLabels(o)
        ELSE LET s == labels[k - 1] IN IF Found(s, d) THEN s ELSE Expand(s, d)
  IN labels[NbTiles]

(* compute_path: the predecessors from the destination, reversed. *)
ComputePath(o, d) ==
  LET s == Search(o, d)
      to[t \in s.open \union s.closed] ==
        IF t = o THEN <<o>> ELSE Append(to[s.prev[t]], t)
  IN to[d]

(* Altered losCheck: the tiles are not put in order, from left to right.    *)
LosCheckUnordered(a, b) ==
  LET range == TileSize * (Column(b) - Column(a))
      rise == TileSize * (Row(b) - Row(a))
      Ratio(k) == IF range <= 1 THEN One * k ELSE (One * k) \div range
      Height(k) == (One * (TileSize * Row(a) + TileSize \div 2) + rise * Ratio(k)) \div One
      Passed(k) == {y \in 0 .. TileSize * Width - 1 :
                      \/ Height(k) <= y /\ y <= Height(k + 1)
                      \/ Height(k + 1) <= y /\ y <= Height(k)}
  IN \A k \in 0 .. (IF range <= 1 THEN 0 ELSE range - 1) : \A y \in Passed(k) :
       (TileSize * Column(a) + TileSize \div 2 + k) \div TileSize
         + (y \div TileSize) * Width \in accessible

(* losCheck between the centers of two tiles: for each unit of length from *)
(* left to right, the rows that the line passes.  How far along the line a *)
(* unit begins is a fixed-point number, rounded down.                      *)
Center(n) == TileSize * n + TileSize \div 2
LosCheck(a, b) ==
  LET left == IF Column(a) > Column(b) THEN b ELSE a
      right == IF Column(a) > Column(b) THEN a ELSE b
      range == Center(Column(right)) - Center(Column(left))
      rise == Center(Row(right)) - Center(Row(left))
      Ratio(k) == IF range = 0 THEN One * k ELSE (One * k) \div range
      Height(k) == (One * Center(Row(left)) + rise * Ratio(k)) \div One
      Passed(k) == {y \in 0 .. TileSize * Width - 1 :
                      \/ Height(k) <= y /\ y <= Height(k + 1)
                      \/ Height(k + 1) <= y /\ y <= Height(k)}
  IN \A k \in 0 .. (IF range = 0 THEN 0 ELSE range - 1) : \A y \in Passed(k) :
       (Center(Column(left)) + k) \div TileSize + (y \div TileSize) * Width \in accessible

(* Altered consolidate_path: each tile gets the one before it. *)
ConsolidateBack(path) ==
  /\ indexes' = [indexes EXCEPT ![Last(path)] = [t \in Tiles |->
       IF t = Last(path) THEN t
       ELSE IF t \in ToSet(path) /\ t # path[1]
         THEN path[(CHOOSE i \in DOMAIN path : path[i] = t) - 1] ELSE @[t]]]
  /\ UNCHANGED sight

(* consolidate_path: each tile of the path gets the one that follows it,   *)
(* and the destination itself; lines of sight are computed where missing.  *)
Consolidate(path) ==
  LET d == Last(path)
      seen == {t \in ToSet(path) : sight[d][t] < 0}
      Sees(t) == IF LosCheck(t, d) THEN 1 ELSE 0
  IN /\ indexes' = [indexes EXCEPT ![d] = [t \in Tiles |->
          IF t = d THEN d
          ELSE IF t \in ToSet(path) THEN path[1 + CHOOSE i \in DOMAIN path : path[i] = t]
          ELSE @[t]]]
     /\ sight' = [e \in Tiles |-> [t \in Tiles |->
          CASE e = d /\ t \in seen -> Sees(t)
            [] e \in seen /\ t = d -> Sees(e)
            [] OTHER -> sight[e][t]]]

-----------------------------------------------------------------------------
Init ==
  /\ free \in Grids /\ revision = 0
  /\ synced = -1 /\ accessible = {}
  /\ indexes = NoPaths /\ sight = NoSight
  /\ requests = << >> /\ run = 0
  /\ pc = "sync"

(* declare_sync_system: a new revision clears tables and requests. *)
Sync ==
  /\ pc = "sync" /\ pc' = "compute" /\ run' = 0
  /\ IF synced # revision
     THEN /\ indexes' = NoPaths /\ sight' = NoSight
          /\ requests' = << >> /\ accessible' = free /\ synced' = revision
     ELSE UNCHANGED <<tables, requests, accessible, synced>>
  /\ UNCHANGED grid

(* compute_paths: what has a path is dropped, for the rest one is computed, *)
(* until max_run of them have been.                                         *)
SkipRequest ==
  /\ pc = "compute" /\ requests # << >> /\ run < MaxRun
  /\ HasPath(Head(requests).orig, Head(requests).dest)
  /\ requests' = Tail(requests)
  /\ UNCHANGED <<grid, synced, accessible, tables, run, pc>>

(* Altered compute_paths: one path more than allowed. *)
ComputeOneMore ==
  /\ pc = "compute" /\ requests # << >> /\ run <= MaxRun
  /\ ~ HasPath(Head(requests).orig, Head(requests).dest)
  /\ Consolidate(ComputePath(Head(requests).orig, Head(requests).dest))
  /\ requests' = Tail(requests)
  /\ run' = run + 1
  /\ UNCHANGED <<grid, synced, accessible, pc>>

ComputeRequest ==
  /\ pc = "compute" /\ requests # << >> /\ run < MaxRun
  /\ ~ HasPath(Head(requests).orig, Head(requests).dest)
  /\ Consolidate(ComputePath(Head(requests).orig, Head(requests).dest))
  /\ requests' = Tail(requests)
  /\ run' = run + 1
  /\ UNCHANGED <<grid, synced, accessible, pc>>

(* Altered compute_paths: the requests that are left are dropped. *)
EndComputeClears ==
  /\ pc = "compute" /\ (requests = << >> \/ run = MaxRun)
  /\ pc' = "move" /\ requests' = << >>
  /\ UNCHANGED <<grid, synced, accessible, tables, run>>

EndCompute ==
  /\ pc = "compute" /\ (requests = << >> \/ run = MaxRun)
  /\ pc' = "move"
  /\ UNCHANGED <<grid, synced, accessible, tables, requests, run>>

(* query_path, of any moving unit. *)
QueryPath(q) ==
  /\ pc = "move" /\ Len(requests) < MaxRequests
  /\ requests' = Append(requests, q)
  /\ UNCHANGED <<grid, synced, accessible, tables, run, pc>>

(* Tiles are built on or freed. *)
ChangeGrid(g) ==
  /\ pc = "move" /\ revision < MaxRevision /\ g # free
  /\ free' = g /\ revision' = revision + 1
  /\ UNCHANGED <<synced, accessible, tables, requests, run, pc>>

EndFrame ==
  /\ pc = "move" /\ pc' = "sync"
  /\ UNCHANGED <<grid, synced, accessible, tables, requests, run>>

Next ==
  \/ Sync \/ SkipRequest \/ ComputeRequest \/ EndCompute \/ EndFrame
  \/ \E q \in Queries : QueryPath(q)
  \/ \E g \in Grids : ChangeGrid(g)

Spec == Init /\ [][Next]_vars

(* Frames go on.  The fairness of ComputeRequest is weak fairness, written  *)
(* with its guard for TLC, to which ENABLED would mean another search.      *)
Awaited == /\ pc = "compute" /\ requests # << >> /\ run < MaxRun
           /\ ~ HasPath(Head(requests).orig, Head(requests).dest)
FairSpec ==
  /\ Spec
  /\ WF_vars(Sync \/ SkipRequest \/ EndCompute \/ EndFrame)
  /\ []<>~ Awaited \/ []<><<run' > run>>_run

-----------------------------------------------------------------------------
(* The tables keep their shape, and no more paths than allowed are computed *)
(* in a frame.                                                              *)
TypeOK ==
  /\ free \in SUBSET Tiles /\ accessible \in SUBSET Tiles
  /\ revision \in 0 .. MaxRevision /\ synced \in -1 .. revision
  /\ indexes \in [Tiles -> [Tiles -> Tiles \union {Far}]]
  /\ sight \in [Tiles -> [Tiles -> -1 .. 1]]
  /\ requests \in Seq([orig : Tiles, dest : Tiles])
  /\ run \in 0 .. MaxRun
  /\ pc \in {"sync", "compute", "move"}

(* What build_path follows: the entries from a tile, as far as they go, but *)
(* no longer than there are tiles.                                          *)
Followed(o, d) ==
  LET walk[k \in 0..NbTiles] ==
        IF k = 0 THEN <<o>>
        ELSE LET p == walk[k - 1]
             IN IF Last(p) = d \/ indexes[d][Last(p)] = Far THEN p
                ELSE Append(p, indexes[d][Last(p)])
  IN walk[NbTiles]

(* Every entry of a table leads to its destination, in no circle: the loops *)
(* of build_path and of compute_path end, whichever paths were computed     *)
(* before.                                                                  *)
TablesLead ==
  \A d, t \in Tiles : HasPath(t, d) => Last(Followed(t, d)) = d

(* Each tile of a table is followed by a tile beside it. *)
StepsBeside(d) ==
  \A t \in Tiles : HasPath(t, d) /\ t # d => Distance(t, indexes[d][t]) = 1
NextIsBeside == \A d \in Tiles : StepsBeside(d)

(* The least cost to a destination, from each tile, for a unit that goes    *)
(* from a tile to one beside it, in as many rounds as there are tiles.      *)
Beside(t) == {u \in Tiles : Distance(t, u) = 1}
StepCost(t) == IF t \in free THEN 1 ELSE 1 + NbTiles
AnyCost == NbTiles * (NbTiles + 1) \* no way to a destination costs as much
LeastCost(d) ==
  LET Relaxed(c) ==
        [t \in Tiles |-> IF t = d THEN 0
                         ELSE Min({AnyCost} \union {c[u] + StepCost(u) : u \in Beside(t)})]
      least[k \in 0..NbTiles] ==
        IF k = 0 THEN [t \in Tiles |-> IF t = d THEN 0 ELSE AnyCost]
        ELSE LET c == least[k - 1] IN IF Relaxed(c) = c THEN c ELSE Relaxed(c)
  IN least[NbTiles]
CostOf(path) == SumFunction([i \in 1 .. Len(path) - 1 |-> StepCost(path[i + 1])])

(* compute_path stitches new searches to old entries, and the grid changes: *)
(* yet no path is worse than the best one on the grid of its revision, so   *)
(* that none crosses a tile that is not free when there is a way around.    *)
(* Tables with a step that NextIsBeside forbids are left out: an estimate   *)
(* may exceed the cost of such a step, and mislead later searches.  The run *)
(* has grids without such a step.                                           *)
PathsAreBest ==
  synced = revision =>
    \A d \in Tiles : StepsBeside(d) =>
      LET least == LeastCost(d)
      IN \A t \in Tiles : HasPath(t, d) => CostOf(Followed(t, d)) <= least[t]

(* The tiles whose inside the line between two centers crosses: a corner on *)
(* each side, and not beyond an end.                                        *)
Side(a, b, x, y) ==
  (Column(b) - Column(a)) * (2 * y - 2 * Row(a) - 1)
    - (Row(b) - Row(a)) * (2 * x - 2 * Column(a) - 1)
Between(n, m, k) == (n <= k /\ k <= m) \/ (m <= k /\ k <= n)
Crossed(a, b) ==
  {t \in Tiles : /\ Between(Column(a), Column(b), Column(t))
                 /\ Between(Row(a), Row(b), Row(t))
                 /\ \E x1, x2 \in {Column(t), Column(t) + 1}, y1, y2 \in {Row(t), Row(t) + 1} :
                      Side(a, b, x1, y1) < 0 /\ Side(a, b, x2, y2) > 0}

(* losCheck sends a unit straight to its target only if no tile that the   *)
(* line crosses is taken.                                                   *)
SightIsClear ==
  synced = revision =>
    \A d, t \in Tiles : sight[d][t] = 1 => Crossed(t, d) \subseteq free

(* compute_paths serves the requests in turn: each is answered, however few *)
(* paths are computed in a frame, unless a new revision clears the cache.   *)
Answered ==
  \A q \in Queries :
    q \in ToSet(requests) /\ synced = revision
      ~> HasPath(q.orig, q.dest) \/ synced # revision
=============================================================================
