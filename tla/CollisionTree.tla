--------------------------- MODULE CollisionTree ---------------------------
(***************************************************************************)
(* The collision tree over the frames of a game (PositionSystems.hh,       *)
(* PositionInTree.hh): the position system gives each new entity a leaf    *)
(* and keeps the leaf of the others around them, the Destroyed event takes *)
(* leaves out, and the systems of the frame ask the tree who is near.      *)
(* The tree is changed at once, while the entity learns its leaf by a step *)
(* at the end of the frame: a rewind takes back the step, not the leaf.    *)
(***************************************************************************)
EXTENDS AabbTree, FiniteSets

CONSTANTS Entities,   \* numbers, from 1
          Founders,   \* those of them that are there from the start
          Mortal,     \* those of them that can be destroyed
          SpotsOf,    \* SpotsOf[e]: where e can be; one spot, if e cannot move
          Ray,        \* Ray[e]: Collision::ray of e
          Ranges,     \* the ranges entities look around with
          MaxRewinds  \* bound: frames undone

ASSUME ConstantsAssumption ==
  /\ Entities \subseteq Nat \ {0} /\ Founders \subseteq Entities /\ Mortal \subseteq Entities
  /\ Ray \in [Entities -> Nat \ {0}] /\ Ranges \subseteq Nat
  /\ DOMAIN SpotsOf = Entities /\ \A e \in Entities : SpotsOf[e] \subseteq Int \X Int
  /\ MaxRewinds \in Nat

Spots == UNION {SpotsOf[e] : e \in Entities}
Nowhere == <<-1, -1>>

VARIABLES tree,     \* PositionContext::trees[0]
          pos,      \* pos[e]: the Position of e
          leafOf,   \* leafOf[e]: idx_leaf[0] of its PositionInTree
          steps,    \* steps[e]: its PositionInTreeStep of this frame, or None
          live,     \* the entities that exist and are not disabled
          gone,     \* those that were destroyed
          todo,     \* those the position system has still to visit
          pc,       \* where the frame is
          undo,     \* what a rewind of the last frame gives back, or << >>
          rewinds,  \* how many frames were undone
          stray     \* history: the leaves no entity knows of any more

vars == <<tree, pos, leafOf, steps, live, gone, todo, pc, undo, rewinds, stray>>

(* Wherever the entities of S may be, the others being where p says. *)
Placed(p, S) == {q \in [Entities -> Spots \union {Nowhere}] : \A e \in Entities :
                   IF e \in S THEN q[e] \in SpotsOf[e] ELSE q[e] = p[e]}

Init ==
  /\ tree = EmptyTree
  /\ live = Founders /\ gone = {} /\ todo = {}
  /\ pos \in Placed([e \in Entities |-> Nowhere], Founders)
  /\ leafOf = [e \in Entities |-> None]
  /\ steps = [e \in Entities |-> None]
  /\ pc = "idle" /\ undo = << >> /\ rewinds = 0 /\ stray = {}

BeginFrame ==
  /\ pc = "idle" /\ pc' = "update" /\ todo' = live
  /\ undo' = IF rewinds = MaxRewinds THEN << >>
             ELSE <<[pos |-> pos, leafOf |-> leafOf, born |-> {}]>>
  /\ UNCHANGED <<tree, pos, leafOf, steps, live, gone, rewinds, stray>>

Around(e) == Expand(Point(pos[e]), Ray[e])

(* Altered UpdateTree: the index is read once the leaf has been inserted. *)
UpdateTreeThenIndex(e) ==
  /\ pc = "update" /\ e \in todo /\ \A d \in todo : e <= d
  /\ todo' = todo \ {e}
  /\ IF leafOf[e] = None
     THEN /\ tree' = AddLeaf(tree, Expand(Point(pos[e]), 2 * Ray[e]), e)
          /\ steps' = [steps EXCEPT ![e] = Len(tree'.nodes)]
     ELSE /\ tree' = UpdateLeaf(tree, leafOf[e], Around(e), Ray[e])
          /\ UNCHANGED steps
  /\ UNCHANGED <<pos, leafOf, live, gone, pc, undo, rewinds, stray>>

(* UpdatePhase, the position system on e, in the order of the entities:    *)
(* add_to_tree or update_tree.                                             *)
UpdateTree(e) ==
  /\ pc = "update" /\ e \in todo /\ \A d \in todo : e <= d
  /\ todo' = todo \ {e}
  /\ IF leafOf[e] = None
     THEN /\ tree' = AddLeaf(tree, Expand(Point(pos[e]), 2 * Ray[e]), e)
          /\ steps' = [steps EXCEPT ![e] = Allocated(tree)]
     ELSE /\ tree' = UpdateLeaf(tree, leafOf[e], Around(e), Ray[e])
          /\ UNCHANGED steps
  /\ UNCHANGED <<pos, leafOf, live, gone, pc, undo, rewinds, stray>>

(* UpdatePhase, after it: e is destroyed, and the observer takes the leaf  *)
(* it knows of out of the tree.  One destroyed in the frame in which it    *)
(* got its leaf does not know it yet.                                      *)
Destroy(e) ==
  /\ pc = "update" /\ todo = {} /\ e \in live \intersect Mortal
  /\ live' = live \ {e} /\ gone' = gone \union {e}
  /\ tree' = RemoveLeaf(tree, leafOf[e])
  /\ stray' = stray \union ({steps[e]} \ {None})
  /\ UNCHANGED <<pos, leafOf, steps, todo, pc, undo, rewinds>>

EndUpdate ==
  /\ pc = "update" /\ todo = {} /\ pc' = "query"
  /\ UNCHANGED <<tree, pos, leafOf, steps, live, gone, todo, undo, rewinds, stray>>

(* The steps of the frame are applied: entities have moved, and know their *)
(* leaves.  Those created last exist from the next frame on.               *)
EndFrame ==
  /\ pc = "query" /\ pc' = "idle"
  /\ \E born \in SUBSET (Entities \ (live \union gone)) :
       /\ live' = live \union born
       /\ undo' = [k \in DOMAIN undo |-> [undo[k] EXCEPT !.born = born]]
       /\ pos' \in Placed(pos, live \union born)
  /\ leafOf' = [e \in Entities |-> IF steps[e] # None THEN steps[e] ELSE leafOf[e]]
  /\ steps' = [e \in Entities |-> None]
  /\ UNCHANGED <<tree, gone, todo, rewinds, stray>>

(* The last frame is undone: positions and leaves are again what they were, *)
(* what was created is no more, what was destroyed stays disabled, and the  *)
(* tree is as it is.                                                        *)
Rewind ==
  /\ pc = "idle" /\ undo # << >>
  /\ pos' = undo[1].pos
  /\ leafOf' = undo[1].leafOf
  /\ live' = live \ undo[1].born
  /\ stray' = stray \union {leafOf[e] : e \in {d \in live : leafOf[d] # undo[1].leafOf[d]}}
  /\ rewinds' = rewinds + 1 /\ undo' = << >>
  /\ UNCHANGED <<tree, steps, gone, todo, pc>>

Next == \/ BeginFrame \/ EndUpdate \/ EndFrame \/ Rewind
        \/ \E e \in Entities : UpdateTree(e) \/ Destroy(e)

Spec == Init /\ [][Next]_vars

-----------------------------------------------------------------------------
(* aabb_tree: after every operation the nodes below the root are a binary   *)
(* tree whose links agree both ways and whose boxes and heights are those   *)
(* of their children; the free nodes are apart from it, in a list that ends. *)
WellFormed ==
  LET nodes == tree.nodes
      inside == Inside(tree)
  IN /\ tree.root # None => tree.root \in inside /\ nodes[tree.root].parent = None
     /\ \A i \in inside :
          IF IsLeaf(nodes[i]) THEN nodes[i].left = None /\ nodes[i].right = None
          ELSE LET l == nodes[i].left
                   r == nodes[i].right
               IN /\ {l, r} \subseteq inside /\ l # r
                  /\ nodes[l].parent = i /\ nodes[r].parent = i
                  /\ nodes[i].box = Union(nodes[l].box, nodes[r].box)
                  /\ nodes[i].height = 1 + Max({nodes[l].height, nodes[r].height})
     /\ Free(tree) = {i \in DOMAIN nodes : nodes[i].height = -1}
     /\ Up(nodes, tree.free)[Len(nodes)] = None
     /\ inside \intersect Free(tree) = {}

(* get_closest_entities: an entity within the range of a query is found by *)
(* it, wherever the query is made, once the position system has run, after *)
(* rewinds too, as long as the tree fits the stack of the query.           *)
QueriesComplete ==
  pc = "query" /\ Fits(tree) => \A e \in live, c \in Spots, range \in Ranges :
    SquareDistance(c, pos[e]) <= range * range =>
      \E i \in InCircle(tree, c, range) : tree.nodes[i].data = e

(* PositionInTree and the tree agree: each entity has its one leaf, which   *)
(* carries it and which it knows of or is about to, and the tree has no     *)
(* others, but for those left by rewinds and by a destruction too early.    *)
OneLeafEach ==
  LET Leaf(e) == IF leafOf[e] # None THEN leafOf[e] ELSE steps[e]
      known == {e \in live : Leaf(e) # None}
  IN /\ Leaves(tree) = {Leaf(e) : e \in known} \union stray
     /\ \A e \in known : tree.nodes[Leaf(e)].data = e /\ Leaf(e) \notin stray

(* The tree implements the index: no operation on one leaf loses another   *)
(* or changes its box.                                                     *)
Index == INSTANCE SpatialIndex WITH
  entries <- [i \in Leaves(tree) |-> [box |-> tree.nodes[i].box, data |-> tree.nodes[i].data]]
IndexSpec == Index!Spec
=============================================================================
