------------------------------ MODULE AabbTree ------------------------------
(***************************************************************************)
(* The tree of bounding boxes octopus finds entities with (aabb.cc,        *)
(* aabb_tree.hh): a binary tree kept in a vector of nodes that name each   *)
(* other by index, with the free nodes linked through their parents.  Each *)
(* operation is an operator from a tree to the tree it leaves.             *)
(*                                                                         *)
(* Indices start at 1, and None stands for the -1 of the code.  The boxes  *)
(* are over whole numbers; centres are kept doubled.  rotate_nodes is left *)
(* out of Insert: it works on a copy of the nodes and changes nothing.     *)
(* Nothing else keeps the tree low, while the queries keep the nodes they  *)
(* have still to look at on a stack of a fixed size.                       *)
(***************************************************************************)
EXTENDS Integers, Sequences, FiniteSetsExt

CONSTANT StackSize   \* stack_size of the queries: 1024

ASSUME StackSizeAssumption == StackSize \in Nat \ {0}

None == 0

-----------------------------------------------------------------------------
(* Boxes: <<lower, upper>>, two points. *)
Union(a, b) == << [i \in 1..2 |-> Min({a[1][i], b[1][i]})],
                  [i \in 1..2 |-> Max({a[2][i], b[2][i]})] >>
Center2(a) == [i \in 1..2 |-> a[1][i] + a[2][i]]
Side(a, i) == a[2][i] - a[1][i]
LargestSide(a) == Max({Side(a, 1), Side(a, 2)})
Perimeter(a) == 2 * (Side(a, 1) + Side(a, 2))
Overlap(a, b) == \A i \in 1..2 : a[1][i] <= b[2][i] /\ b[1][i] <= a[2][i]
Included(inner, outer) ==
  \A i \in 1..2 : inner[1][i] >= outer[1][i] /\ inner[2][i] <= outer[2][i]
Expand(a, margin) == << [i \in 1..2 |-> a[1][i] - margin],
                        [i \in 1..2 |-> a[2][i] + margin] >>
Point(p) == <<p, p>>
SquareDistance(p, q) == (p[1] - q[1]) * (p[1] - q[1]) + (p[2] - q[2]) * (p[2] - q[2])

-----------------------------------------------------------------------------
(* aabb_node and aabb_tree *)
NoBox == Point(<<0, 0>>)
NewNode == [height |-> 0, parent |-> None, left |-> None, right |-> None,
            box |-> NoBox, data |-> None]
EmptyTree == [nodes |-> << >>, root |-> None, free |-> None]

IsLeaf(n) == n.height = 0

(* allocate_node: the node it hands out, and the tree without it in the list *)
Allocated(tree) == IF tree.free # None THEN tree.free ELSE Len(tree.nodes) + 1
Allocate(tree) ==
  IF tree.free # None
  THEN [tree EXCEPT !.free = tree.nodes[@].parent, !.nodes[tree.free].height = 0]
  ELSE [tree EXCEPT !.nodes = Append(@, NewNode)]

FreeNode(tree, i) ==
  [tree EXCEPT !.nodes[i].parent = tree.free, !.nodes[i].height = -1,
               !.nodes[i].left = None, !.nodes[i].right = None, !.free = i]

(* Altered Relinked: the left child is replaced, whichever old was. *)
RelinkedLeft(nodes, i, old, new) ==
  IF i = None THEN nodes ELSE [nodes EXCEPT ![i].left = new]

(* The child of i on the side where old is becomes new. *)
Relinked(nodes, i, old, new) ==
  IF i = None THEN nodes
  ELSE IF nodes[i].left = old THEN [nodes EXCEPT ![i].left = new]
  ELSE [nodes EXCEPT ![i].right = new]

(* The nodes on the way up from node i, as far as there are nodes: the     *)
(* parents of free nodes lead through the free list.                       *)
Up(nodes, i) ==
  LET above == [j \in {None} \union DOMAIN nodes |-> IF j = None THEN None ELSE nodes[j].parent]
      up[k \in 0..Len(nodes)] == IF k = 0 THEN i ELSE above[up[k - 1]]
  IN up

(* The box and the height of node i are set again from its children. *)
Refitted(nodes, i) ==
  LET l == nodes[nodes[i].left]
      r == nodes[nodes[i].right]
  IN IF i = None THEN nodes
     ELSE [nodes EXCEPT ![i].box = Union(l.box, r.box),
                        ![i].height = 1 + Max({l.height, r.height})]

(* The way back up, from node i to the root. *)
Refit(nodes, i) ==
  LET up == Up(nodes, i)
      refit[k \in 0..Len(nodes)] ==
        IF k = 0 THEN nodes ELSE Refitted(refit[k - 1], up[k - 1])
  IN refit[Len(nodes)]

(* findBestSibling, one step down.  A search is at a node, or at None when *)
(* it has ended, with the best sibling met so far and what the ancestors   *)
(* have grown by: the siblings the node and its leaves would make are      *)
(* compared, then the child that may still do better is entered.           *)
Descend(nodes, box, search) ==
  LET Direct(c) == Perimeter(Union(nodes[c].box, box))
      i == search.at
      inherited == search.grown + Direct(i) - Perimeter(nodes[i].box)
      Bound(c) == inherited + Direct(c) + Min({Perimeter(box) - Perimeter(nodes[c].box), 0})
      Away(c) == SquareDistance(Center2(nodes[c].box), Center2(box))
      Better(b, c, cost) == IF cost < b.cost THEN [at |-> c, cost |-> cost] ELSE b
      WithLeaf(b, c) == IF IsLeaf(nodes[c]) THEN Better(b, c, Direct(c) + inherited) ELSE b
      left == nodes[i].left
      right == nodes[i].right
      found == WithLeaf(WithLeaf(Better(search.best, i, Direct(i) + search.grown), left), right)
      inner == {c \in {left, right} : ~ IsLeaf(nodes[c])}
      leftFirst == IF Bound(left) = Bound(right) THEN Away(left) < Away(right)
                   ELSE Bound(left) < Bound(right)
      into == IF inner = {left, right} THEN IF leftFirst THEN left ELSE right
              ELSE CHOOSE c \in inner : TRUE
  IN IF i = None \/ IsLeaf(nodes[i]) THEN search
     ELSE [at    |-> IF \A c \in inner : found.cost <= Bound(c) THEN None ELSE into,
           best  |-> found,
           grown |-> inherited]

BestSibling(tree, box) ==
  LET root == tree.root
      direct == Perimeter(Union(tree.nodes[root].box, box))
      search[k \in 0..Len(tree.nodes)] ==
        IF k = 0 THEN [at |-> root, best |-> [at |-> root, cost |-> direct], grown |-> 0]
        ELSE Descend(tree.nodes, box, search[k - 1])
  IN search[Len(tree.nodes)].best.at

(* insert_leaf: the leaf and its sibling get a new parent. *)
Insert(tree, leaf) ==
  IF tree.root = None
  THEN [tree EXCEPT !.root = leaf, !.nodes[leaf].parent = None]
  ELSE LET box == tree.nodes[leaf].box
           sibling == BestSibling(tree, box)
           up == tree.nodes[sibling].parent
           top == Allocated(tree)
           grown == Allocate(tree)
           joined == [Relinked(grown.nodes, up, sibling, top) EXCEPT
                        ![top] = [@ EXCEPT !.parent = up, !.left = sibling, !.right = leaf],
                        ![sibling].parent = top, ![leaf].parent = top]
       IN [grown EXCEPT !.nodes = Refit(joined, top),
                        !.root = IF up = None THEN top ELSE @]

(* add_new_leaf *)
AddLeaf(tree, box, data) ==
  LET leaf == Allocated(tree)
      grown == Allocate(tree)
  IN Insert([grown EXCEPT !.nodes[leaf].box = box, !.nodes[leaf].data = data], leaf)

(* Altered RemoveLeaf: the ancestors keep their boxes and heights. *)
RemoveLeafUnfitted(tree, leaf) ==
  LET parent == tree.nodes[leaf].parent
      sibling == IF tree.nodes[parent].left = leaf THEN tree.nodes[parent].right
                 ELSE tree.nodes[parent].left
      up == tree.nodes[parent].parent
      apart == [Relinked(tree.nodes, up, parent, sibling) EXCEPT ![sibling].parent = up]
  IN IF leaf = None THEN tree
     ELSE IF leaf = tree.root THEN [tree EXCEPT !.root = None]
     ELSE [FreeNode([tree EXCEPT !.nodes = apart], parent) EXCEPT
             !.root = IF up = None THEN sibling ELSE @]

(* remove_leaf: the sibling takes the place of the parent, which is freed; *)
(* the leaf itself is only left behind.                                    *)
RemoveLeaf(tree, leaf) ==
  LET parent == tree.nodes[leaf].parent
      sibling == IF tree.nodes[parent].left = leaf THEN tree.nodes[parent].right
                 ELSE tree.nodes[parent].left
      up == tree.nodes[parent].parent
      apart == [Relinked(tree.nodes, up, parent, sibling) EXCEPT ![sibling].parent = up]
      freed == FreeNode([tree EXCEPT !.nodes = apart], parent)
  IN IF leaf = None THEN tree
     ELSE IF leaf = tree.root THEN [tree EXCEPT !.root = None]
     ELSE [freed EXCEPT !.nodes = Refit(@, up), !.root = IF up = None THEN sibling ELSE @]

(* Altered UpdateLeaf: a leaf is left as it is while the new box meets it. *)
UpdateLeafLate(tree, leaf, box, margin) ==
  IF Overlap(box, tree.nodes[leaf].box) THEN tree
  ELSE Insert([RemoveLeaf(tree, leaf) EXCEPT !.nodes[leaf].box = Expand(box, margin)], leaf)

(* update_leaf: a box the leaf still holds changes nothing; else the leaf is *)
(* taken out, given a larger box, and put in again.                          *)
UpdateLeaf(tree, leaf, box, margin) ==
  IF Included(box, tree.nodes[leaf].box) THEN tree
  ELSE Insert([RemoveLeaf(tree, leaf) EXCEPT !.nodes[leaf].box = Expand(box, margin)], leaf)

(* The nodes of S that are reached from node i through nodes of S. *)
Walk(nodes, i, S) ==
  LET walk[k \in 0..Len(nodes)] ==
        S \intersect IF k = 0 THEN {i}
                     ELSE UNION {{j, nodes[j].left, nodes[j].right} : j \in walk[k - 1]}
  IN walk[Len(nodes)]

(* The two nodes a query that looks at node i at place p of its stack puts *)
(* there, at their places: left takes the place of i, and right the next.  *)
(* right and all below it are off the stack again before left is looked at. *)
(* For a node too high on the stack, they are dropped.                     *)
Pushed(nodes, i, p) ==
  IF IsLeaf(nodes[i]) \/ p >= StackSize THEN {}
  ELSE {<<nodes[i].left, p>>, <<nodes[i].right, p + 1>>}

(* tree_box_query: the leaves among the nodes that box meets and that the  *)
(* query comes to, at whatever place of its stack.                         *)
Reached(tree, box) ==
  LET nodes == tree.nodes
      met == {i \in DOMAIN nodes : Overlap(nodes[i].box, box)}
      seen[k \in 0..Len(nodes)] ==
        {v \in IF k = 0 THEN {<<tree.root, 1>>}
               ELSE UNION {{v} \union Pushed(nodes, v[1], v[2]) : v \in seen[k - 1]}
           : v[1] \in met}
  IN {i \in met : IsLeaf(nodes[i]) /\ \E v \in seen[Len(nodes)] : v[1] = i}

(* The stack is deep enough for any query of the tree. *)
Fits(tree) == tree.root # None => tree.nodes[tree.root].height < StackSize

(* tree_circle_query *)
InCircle(tree, center, ray) ==
  {i \in Reached(tree, Expand(Point(center), ray)) :
     LET reach2 == LargestSide(tree.nodes[i].box) + 2 * ray
     IN SquareDistance([k \in 1..2 |-> 2 * center[k]], Center2(tree.nodes[i].box))
          <= reach2 * reach2}

-----------------------------------------------------------------------------
(* All nodes of the tree, and all on the free list. *)
Inside(tree) == Walk(tree.nodes, tree.root, DOMAIN tree.nodes)
Free(tree) == LET up == Up(tree.nodes, tree.free) IN {up[k] : k \in DOMAIN up} \ {None}

Leaves(tree) == {i \in Inside(tree) : IsLeaf(tree.nodes[i])}
=============================================================================
