----------------------------- MODULE DynamicTree -----------------------------
(* The bounding-volume tree of Box2D's broad phase (b2DynamicTree.cpp and   *)
(* .h) as operators on a record: the node pool, its free list, the search   *)
(* for a sibling, the rotations, queries and ray casts.  Boxes have         *)
(* integer corners, so that the comparisons of areas are exact.             *)
EXTENDS Integers, Sequences, FiniteSets, FiniteSetsExt, TLC

CONSTANTS InitialCapacity,  \* nodes in the first pool (16 in the code)
          Extension,        \* b2_aabbExtension, in units of the grid
          Multiplier        \* b2_aabbMultiplier

ASSUME TreeAssumption ==
  /\ InitialCapacity \in Nat \ {0}
  /\ Extension \in Nat
  /\ Multiplier \in Nat

Null == -1                  \* b2_nullNode
Count(n) == [k \in 1..n |-> k]

(***************************************************************************)
(* Boxes: b2AABB.                                                          *)
(***************************************************************************)
Combine(a, b) == [lo |-> [i \in 1..2 |-> Min({a.lo[i], b.lo[i]})],
                  hi |-> [i \in 1..2 |-> Max({a.hi[i], b.hi[i]})]]
Perimeter(a) == 2 * ((a.hi[1] - a.lo[1]) + (a.hi[2] - a.lo[2]))
Covers(a, b) == \A i \in 1..2 : a.lo[i] <= b.lo[i] /\ b.hi[i] <= a.hi[i]
Overlap(a, b) == \A i \in 1..2 : a.lo[i] <= b.hi[i] /\ b.lo[i] <= a.hi[i]
Fatten(a) == [lo |-> [i \in 1..2 |-> a.lo[i] - Extension],
              hi |-> [i \in 1..2 |-> a.hi[i] + Extension]]
(* Extended on the side it moves to. *)
Predict(a, d) ==
  [lo |-> [i \in 1..2 |-> a.lo[i] + Min({Multiplier * d[i], 0})],
   hi |-> [i \in 1..2 |-> a.hi[i] + Max({Multiplier * d[i], 0})]]

(***************************************************************************)
(* The pool.  node is defined for the allocated nodes; free is the linked  *)
(* free list.                                                              *)
(***************************************************************************)
EmptyTree == [node |-> [i \in {} |-> Null], root |-> Null,
              capacity |-> InitialCapacity,
              free |-> [i \in 1..InitialCapacity |-> i - 1]]

Grown(t) ==
  IF t.free # <<>> THEN t
  ELSE [t EXCEPT !.free = [i \in 1..t.capacity |-> t.capacity + i - 1],
                 !.capacity = 2 * @]
NextNode(t) == Head(Grown(t).free)
AllocateNode(t, n) ==
  [Grown(t) EXCEPT !.free = Tail(@),
                   !.node = [k \in DOMAIN t.node \cup {NextNode(t)} |->
                               IF k = NextNode(t) THEN n ELSE t.node[k]]]
FreeNode(t, i) ==
  [t EXCEPT !.free = <<i>> \o @,
            !.node = [k \in DOMAIN t.node \ {i} |-> t.node[k]]]

IsLeaf(n) == n.child1 = Null

SetParent(t, i, p) == [t EXCEPT !.node[i].parent = p]
SetChild(t, i, side, c) == [t EXCEPT !.node[i][side] = c]

(* Whatever pointed to old, the parent p or the root, points to new. *)
Redirect(t, p, old, new) ==
  IF p = Null THEN [t EXCEPT !.root = new]
  ELSE SetChild(t, p, IF t.node[p].child1 = old THEN "child1" ELSE "child2", new)

Refit(t, i) ==
  LET one == t.node[t.node[i].child1]
      two == t.node[t.node[i].child2]
  IN [t EXCEPT !.node[i].box = Combine(one.box, two.box),
               !.node[i].height = 1 + Max({one.height, two.height})]

(***************************************************************************)
(* Rotations.  The higher child goes up; of its children the higher stays  *)
(* with it and the lower takes its place under i.                          *)
(***************************************************************************)
(* The child that goes up with its lower child and its higher one.        *)
Higher(t, up) ==
  LET n == t.node[up]
  IN IF t.node[n.child1].height > t.node[n.child2].height THEN n.child1 ELSE n.child2
Lower(t, up) ==
  IF Higher(t, up) = t.node[up].child1 THEN t.node[up].child2 ELSE t.node[up].child1

(* Mutant: the lower grandchild keeps its old parent. *)
LiftOrphan(t, i, side) ==
  LET up == t.node[i][side]
      above == t.node[i].parent
      raised == SetParent(SetChild(Redirect(t, above, i, up), up, "child1", i), up, above)
      joined == SetParent(SetChild(raised, up, "child2", Higher(t, up)), i, up)
  IN SetChild(joined, i, side, Lower(t, up))
Lift(t, i, side) ==
  LET up == t.node[i][side]
      above == t.node[i].parent
      raised == SetParent(SetChild(Redirect(t, above, i, up), up, "child1", i), up, above)
      joined == SetParent(SetChild(raised, up, "child2", Higher(t, up)), i, up)
  IN SetParent(SetChild(joined, i, side, Lower(t, up)), Lower(t, up), i)

Rotate(t, i, side) ==
  LET up == t.node[i][side]
  IN [tree |-> Refit(Refit(Lift(t, i, side), i), up), top |-> up]

Balance(t, i) ==
  LET n == t.node[i]
      lean == t.node[n.child2].height - t.node[n.child1].height
  IN IF IsLeaf(n) \/ n.height < 2 THEN [tree |-> t, top |-> i]
     ELSE CASE lean > 1  -> Rotate(t, i, "child2")
            [] lean < -1 -> Rotate(t, i, "child1")
            [] OTHER     -> [tree |-> t, top |-> i]

(* Mutant: only the new parent is adjusted, not its ancestors. *)
WalkUpOnce(t, i) == IF i = Null THEN t ELSE Refit(t, i)

(* The loop from a node to the root: w is the tree and the index.  A path  *)
(* is no longer than there are nodes.                                      *)
ClimbStep(w, k) ==
  IF w.at = Null THEN w
  ELSE LET b == Balance(w.tree, w.at)
           r == Refit(b.tree, b.top)
       IN [tree |-> r, at |-> r.node[b.top].parent]
Climbing == INSTANCE Folding WITH Op <- ClimbStep
WalkUp(t, i) ==
  Climbing!Fold([tree |-> t, at |-> i], Count(Cardinality(DOMAIN t.node))).tree

(***************************************************************************)
(* Insertion at the cheapest sibling, removal, and the proxies.            *)
(***************************************************************************)
(* The loop from the root down: w is the tree, the new box, the index.     *)
DescendStep(w, k) ==
  LET n == w.tree.node[w.at]
      here == 2 * Perimeter(Combine(n.box, w.box))
      inherited == here - 2 * Perimeter(n.box)
      Cost(c) == Perimeter(Combine(w.box, w.tree.node[c].box)) + inherited
                 - (IF IsLeaf(w.tree.node[c]) THEN 0
                    ELSE Perimeter(w.tree.node[c].box))
  IN IF IsLeaf(n) \/ (here < Cost(n.child1) /\ here < Cost(n.child2)) THEN w
     ELSE [w EXCEPT !.at = IF Cost(n.child1) < Cost(n.child2)
                           THEN n.child1 ELSE n.child2]
Descending == INSTANCE Folding WITH Op <- DescendStep
BestSibling(t, box) ==
  Descending!Fold([tree |-> t, box |-> box, at |-> t.root],
                  Count(t.node[t.root].height)).at

InsertLeaf(t, leaf) ==
  IF t.root = Null
  THEN SetParent([t EXCEPT !.root = leaf], leaf, Null)
  ELSE LET sibling == BestSibling(t, t.node[leaf].box)
           old  == t.node[sibling].parent
           p    == NextNode(t)
           join == AllocateNode(t,
                     [box |-> Combine(t.node[leaf].box, t.node[sibling].box),
                      parent |-> old, child1 |-> sibling, child2 |-> leaf,
                      height |-> t.node[sibling].height + 1])
       IN WalkUp(SetParent(SetParent(Redirect(join, old, sibling, p), sibling, p),
                           leaf, p), p)

RemoveLeaf(t, leaf) ==
  IF t.root = leaf THEN [t EXCEPT !.root = Null]
  ELSE LET parent  == t.node[leaf].parent
           grand   == t.node[parent].parent
           sibling == IF t.node[parent].child1 = leaf
                      THEN t.node[parent].child2 ELSE t.node[parent].child1
       IN WalkUp(FreeNode(SetParent(Redirect(t, grand, parent, sibling), sibling, grand),
                          parent), grand)

CreateLeaf(t, box) ==
  InsertLeaf(AllocateNode(t, [box |-> Fatten(box), parent |-> Null,
                              child1 |-> Null, child2 |-> Null, height |-> 0]),
             NextNode(t))
DestroyLeaf(t, leaf) == FreeNode(RemoveLeaf(t, leaf), leaf)
(* A leaf whose fat box still holds the shape does not move. *)
MustMove(t, leaf, box) == ~ Covers(t.node[leaf].box, box)
MoveLeaf(t, leaf, box, d) ==
  InsertLeaf([RemoveLeaf(t, leaf) EXCEPT
                 !.node[leaf].box = Predict(Fatten(box), d)], leaf)

(***************************************************************************)
(* A query: seen holds what the loop has put on its stack, to one depth    *)
(* more in every round.                                                    *)
(***************************************************************************)
QueryStep(w, k) ==
  LET open == {i \in w.seen : ~ IsLeaf(w.tree.node[i])
                              /\ Overlap(w.tree.node[i].box, w.box)}
  IN [w EXCEPT !.seen = @ \cup {w.tree.node[i].child1 : i \in open}
                          \cup {w.tree.node[i].child2 : i \in open}]
Querying == INSTANCE Folding WITH Op <- QueryStep
Seen(t, box) ==
  IF t.root = Null THEN {}
  ELSE Querying!Fold([tree |-> t, box |-> box, seen |-> {t.root}],
                     Count(t.node[t.root].height)).seen
Query(t, box) ==
  {i \in Seen(t, box) : IsLeaf(t.node[i]) /\ Overlap(t.node[i].box, box)}

Segment(from, reach) == [lo |-> <<from, 0>>, hi |-> <<from + reach, 0>>]

(* A ray along the x axis.  hits gives the distance at which it meets the  *)
(* shape of a leaf, for the leaves it meets; the callback returns it and   *)
(* so clips the rest of the ray.                                           *)
RayStep(w, k) ==
  IF w.stack = <<>> THEN w
  ELSE LET i == w.stack[Len(w.stack)]
           rest == [w EXCEPT !.stack = SubSeq(@, 1, Len(@) - 1)]
           n == w.tree.node[i]
       IN CASE i = Null \/ ~ Overlap(n.box, Segment(w.from, w.reach)) -> rest
            [] i # Null /\ Overlap(n.box, Segment(w.from, w.reach)) ->
                 IF ~ IsLeaf(n)
                 THEN [rest EXCEPT !.stack = @ \o <<n.child1, n.child2>>]
                 ELSE IF i \in DOMAIN w.hits
                      THEN [rest EXCEPT !.reach = Min({@, w.hits[i]})]
                      ELSE rest
Casting == INSTANCE Folding WITH Op <- RayStep
RayCast(t, from, reach, hits) ==
  Casting!Fold([tree |-> t, stack |-> <<t.root>>, from |-> from,
                reach |-> reach, hits |-> hits],
               Count(Cardinality(DOMAIN t.node) + 1)).reach
=============================================================================
