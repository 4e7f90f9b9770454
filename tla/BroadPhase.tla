----------------------------- MODULE BroadPhase ------------------------------
(* Box2D's broad phase (b2BroadPhase.cpp and .h) on the tree of             *)
(* DynamicTree: a record of the tree and the buffer of proxies to look      *)
(* again for pairs.  The buffer is a set: its order and duplicates are      *)
(* removed by the sort of UpdatePairs.                                      *)
EXTENDS DynamicTree

EmptyBroadPhase == [tree |-> EmptyTree, move |-> {}]

FatBox(bp, id) == bp.tree.node[id].box
TestOverlap(bp, i, j) == Overlap(FatBox(bp, i), FatBox(bp, j))

NextProxy(bp) == NextNode(bp.tree)
CreateProxy(bp, box) == [tree |-> CreateLeaf(bp.tree, box),
                         move |-> bp.move \cup {NextProxy(bp)}]
(* Mutant: the identifier of a destroyed proxy stays in the buffer. *)
DestroyProxyBuffered(bp, id) == [bp EXCEPT !.tree = DestroyLeaf(@, id)]
DestroyProxy(bp, id) == [tree |-> DestroyLeaf(bp.tree, id),
                         move |-> bp.move \ {id}]
(* Mutant: a proxy that leaves its fat box is not buffered. *)
MoveProxySilent(bp, id, box, d) ==
  IF MustMove(bp.tree, id, box)
  THEN [bp EXCEPT !.tree = MoveLeaf(@, id, box, d)] ELSE bp
MoveProxy(bp, id, box, d) ==
  IF MustMove(bp.tree, id, box)
  THEN [tree |-> MoveLeaf(bp.tree, id, box, d), move |-> bp.move \cup {id}]
  ELSE bp

(* QueryCallback: the pairs of the buffered proxies with what their fat    *)
(* boxes overlap.  They are sent to AddPair in their order.                *)
PairsFound(bp) ==
  UNION {{<<Min({i, j}), Max({i, j})>> : j \in Query(bp.tree, FatBox(bp, i)) \ {i}}
           : i \in bp.move}

LeastPair(S) ==
  CHOOSE p \in S : \A q \in S : p[1] < q[1] \/ (p[1] = q[1] /\ p[2] <= q[2])
SortStep(w, k) == [left |-> w.left \ {LeastPair(w.left)},
                   list |-> Append(w.list, LeastPair(w.left))]
Sorting == INSTANCE Folding WITH Op <- SortStep
Sorted(S) == Sorting!Fold([left |-> S, list |-> <<>>], Count(Cardinality(S))).list
Pairs(bp) == Sorted(PairsFound(bp))
PairsSent(bp) == [bp EXCEPT !.move = {}]
=============================================================================
