-------------------------- MODULE DynamicTreeProofs --------------------------
(* Proofs about DynamicTree: insertion, removal, the rotations and the      *)
(* growth of the pool keep a valid tree whose leaves and boxes change as    *)
(* those of a plain set would, a query finds every leaf that it should, and *)
(* a ray cast the nearest.                                                  *)
(*                                                                          *)
(* A tree is read as functions on its nodes (parent, children, height,      *)
(* box).  The links are proved apart from the heights and boxes: a depth    *)
(* shows that they have no cycle, and the climb to the root carries the set *)
(* of ancestors that still have to be fitted to their children.             *)
EXTENDS DynamicTree, FiniteSetTheorems, WellFoundedInduction, TLAPS

(* What a well-typed tree holds.                                            *)
Box == [lo : [1..2 -> Int], hi : [1..2 -> Int]]
Ids == Nat \cup {Null}
Node == [box : Box, parent : Ids, child1 : Ids, child2 : Ids, height : Nat]

(* The record of a tree, its nodes being numbers.                           *)
Typed(t) ==
  /\ t = [node |-> t.node, root |-> t.root, capacity |-> t.capacity, free |-> t.free]
  /\ t.node \in [DOMAIN t.node -> Node]
  /\ DOMAIN t.node \subseteq Nat
  /\ t.root \in Ids

(* The fields of the nodes, each as a function on the nodes.                *)
Nodes(t) == DOMAIN t.node
Parent(t) == [i \in Nodes(t) |-> t.node[i].parent]
One(t) == [i \in Nodes(t) |-> t.node[i].child1]
Two(t) == [i \in Nodes(t) |-> t.node[i].child2]
Height(t) == [i \in Nodes(t) |-> t.node[i].height]
BoxOf(t) == [i \in Nodes(t) |-> t.node[i].box]

(* The pool and what the nodes hold are the same: only links differ.       *)
Relinked(r, t) ==
  /\ Typed(r) /\ Nodes(r) = Nodes(t)
  /\ r.capacity = t.capacity /\ r.free = t.free
  /\ Height(r) = Height(t) /\ BoxOf(r) = BoxOf(t)

(* SetParent changes one parent link and nothing else.                      *)
LEMMA SetParentLinks ==
  ASSUME NEW t, Typed(t), NEW i \in Nodes(t), NEW p \in Ids
  PROVE  LET r == SetParent(t, i, p)
         IN /\ Relinked(r, t) /\ r.root = t.root
            /\ Parent(r) = [Parent(t) EXCEPT ![i] = p] /\ One(r) = One(t) /\ Two(r) = Two(t)
<1> DEFINE r == SetParent(t, i, p)
           n == [t.node EXCEPT ![i].parent = p]
<1>1. r.node = n /\ r.root = t.root /\ r.capacity = t.capacity /\ r.free = t.free
      /\ r = [node |-> r.node, root |-> r.root, capacity |-> r.capacity, free |-> r.free]
  BY DEF SetParent, Typed
<1>2. n \in [DOMAIN t.node -> Node]
  BY DEF Typed, Node, Nodes
<1>3. \A j \in Nodes(t) : /\ n[j].parent = IF j = i THEN p ELSE t.node[j].parent
                          /\ n[j].child1 = t.node[j].child1 /\ n[j].child2 = t.node[j].child2
                          /\ n[j].height = t.node[j].height /\ n[j].box = t.node[j].box
  BY DEF Typed, Node, Nodes
<1> HIDE DEF r, n
<1>4. Typed(r) /\ Nodes(r) = Nodes(t)
  BY <1>1, <1>2 DEF Typed, Nodes
<1>5. /\ Height(r) = Height(t) /\ BoxOf(r) = BoxOf(t)
      /\ Parent(r) = [Parent(t) EXCEPT ![i] = p] /\ One(r) = One(t) /\ Two(r) = Two(t)
  BY <1>1, <1>3, <1>4 DEF Parent, One, Two, Height, BoxOf
<1> QED
  BY <1>1, <1>4, <1>5 DEF Relinked, r

(* SetChild changes one child link and nothing else.                        *)
LEMMA SetChildLinks ==
  ASSUME NEW t, Typed(t), NEW i \in Nodes(t), NEW c \in Ids
  PROVE  /\ LET r == SetChild(t, i, "child1", c)
            IN /\ Relinked(r, t) /\ r.root = t.root
               /\ One(r) = [One(t) EXCEPT ![i] = c] /\ Parent(r) = Parent(t) /\ Two(r) = Two(t)
         /\ LET r == SetChild(t, i, "child2", c)
            IN /\ Relinked(r, t) /\ r.root = t.root
               /\ Two(r) = [Two(t) EXCEPT ![i] = c] /\ Parent(r) = Parent(t) /\ One(r) = One(t)
<1>1. LET r == SetChild(t, i, "child1", c)
      IN /\ Relinked(r, t) /\ r.root = t.root
         /\ One(r) = [One(t) EXCEPT ![i] = c] /\ Parent(r) = Parent(t) /\ Two(r) = Two(t)
  <2> DEFINE r == SetChild(t, i, "child1", c)
             n == [t.node EXCEPT ![i].child1 = c]
  <2>1. r.node = n /\ r.root = t.root /\ r.capacity = t.capacity /\ r.free = t.free
        /\ r = [node |-> r.node, root |-> r.root, capacity |-> r.capacity, free |-> r.free]
    BY DEF SetChild, Typed
  <2>2. n \in [DOMAIN t.node -> Node]
    BY DEF Typed, Node, Nodes
  <2>3. \A j \in Nodes(t) : /\ n[j].child1 = IF j = i THEN c ELSE t.node[j].child1
                            /\ n[j].child2 = t.node[j].child2 /\ n[j].parent = t.node[j].parent
                            /\ n[j].height = t.node[j].height /\ n[j].box = t.node[j].box
    BY DEF Typed, Node, Nodes
  <2> HIDE DEF r, n
  <2>4. Typed(r) /\ Nodes(r) = Nodes(t)
    BY <2>1, <2>2 DEF Typed, Nodes
  <2>5. /\ Height(r) = Height(t) /\ BoxOf(r) = BoxOf(t)
        /\ One(r) = [One(t) EXCEPT ![i] = c] /\ Parent(r) = Parent(t) /\ Two(r) = Two(t)
    BY <2>1, <2>3, <2>4 DEF Parent, One, Two, Height, BoxOf
  <2> QED
    BY <2>1, <2>4, <2>5 DEF Relinked, r
<1>2. LET r == SetChild(t, i, "child2", c)
      IN /\ Relinked(r, t) /\ r.root = t.root
         /\ Two(r) = [Two(t) EXCEPT ![i] = c] /\ Parent(r) = Parent(t) /\ One(r) = One(t)
  <2> DEFINE r == SetChild(t, i, "child2", c)
             n == [t.node EXCEPT ![i].child2 = c]
  <2>1. r.node = n /\ r.root = t.root /\ r.capacity = t.capacity /\ r.free = t.free
        /\ r = [node |-> r.node, root |-> r.root, capacity |-> r.capacity, free |-> r.free]
    BY DEF SetChild, Typed
  <2>2. n \in [DOMAIN t.node -> Node]
    BY DEF Typed, Node, Nodes
  <2>3. \A j \in Nodes(t) : /\ n[j].child2 = IF j = i THEN c ELSE t.node[j].child2
                            /\ n[j].child1 = t.node[j].child1 /\ n[j].parent = t.node[j].parent
                            /\ n[j].height = t.node[j].height /\ n[j].box = t.node[j].box
    BY DEF Typed, Node, Nodes
  <2> HIDE DEF r, n
  <2>4. Typed(r) /\ Nodes(r) = Nodes(t)
    BY <2>1, <2>2 DEF Typed, Nodes
  <2>5. /\ Height(r) = Height(t) /\ BoxOf(r) = BoxOf(t)
        /\ Two(r) = [Two(t) EXCEPT ![i] = c] /\ Parent(r) = Parent(t) /\ One(r) = One(t)
    BY <2>1, <2>3, <2>4 DEF Parent, One, Two, Height, BoxOf
  <2> QED
    BY <2>1, <2>4, <2>5 DEF Relinked, r
<1> QED
  BY <1>1, <1>2

(* Redirect changes the root, or the one child link that led to old.        *)
LEMMA RedirectLinks ==
  ASSUME NEW t, Typed(t), NEW p \in Nodes(t) \cup {Null}, NEW old, NEW new \in Ids
  PROVE  LET r == Redirect(t, p, old, new)
         IN /\ Relinked(r, t) /\ Parent(r) = Parent(t)
            /\ p = Null => r.root = new /\ One(r) = One(t) /\ Two(r) = Two(t)
            /\ p # Null /\ One(t)[p] = old =>
                 r.root = t.root /\ One(r) = [One(t) EXCEPT ![p] = new] /\ Two(r) = Two(t)
            /\ p # Null /\ One(t)[p] # old =>
                 r.root = t.root /\ One(r) = One(t) /\ Two(r) = [Two(t) EXCEPT ![p] = new]
<1>1. Null \notin Nodes(t)
  BY DEF Typed, Null, Nodes
<1>2. CASE p = Null
  BY <1>1, <1>2 DEF Redirect, Relinked, Typed, Node, Nodes, Parent, One, Two, Height, BoxOf
<1>3. CASE p # Null /\ One(t)[p] = old
  <2>1. Redirect(t, p, old, new) = SetChild(t, p, "child1", new) /\ p \in Nodes(t)
    BY <1>3 DEF Redirect, One
  <2> QED
    BY <1>1, <1>3, <2>1, SetChildLinks
<1>4. CASE p # Null /\ One(t)[p] # old
  <2>1. Redirect(t, p, old, new) = SetChild(t, p, "child2", new) /\ p \in Nodes(t)
    BY <1>4 DEF Redirect, One
  <2> QED
    BY <1>1, <1>4, <2>1, SetChildLinks
<1> QED
  BY <1>2, <1>3, <1>4

(* Two changes of links are a change of links.                              *)
LEMMA RelinkedTwice ==
  ASSUME NEW q, NEW r, NEW t, Relinked(r, q), Relinked(q, t)
  PROVE  Relinked(r, t)
BY DEF Relinked

(* The links after a rotation to the side side.                            *)
LEMMA LiftLinks ==
  ASSUME NEW t, Typed(t), NEW i \in Nodes(t), NEW side \in {"child1", "child2"},
         NEW up \in Nodes(t), up = t.node[i][side],
         NEW low \in Nodes(t), low = Lower(t, up),
         NEW tall \in Nodes(t), tall = Higher(t, up),
         NEW above \in Nodes(t) \cup {Null}, above = t.node[i].parent
  PROVE  LET r == Lift(t, i, side)
             q == Redirect(t, above, i, up)
         IN /\ Relinked(r, t) /\ r.root = q.root
            /\ Parent(r) = [Parent(t) EXCEPT ![up] = above, ![i] = up, ![low] = i]
            /\ One(r) = IF side = "child1" THEN [One(q) EXCEPT ![up] = i, ![i] = low]
                        ELSE [One(q) EXCEPT ![up] = i]
            /\ Two(r) = IF side = "child1" THEN [Two(q) EXCEPT ![up] = tall]
                        ELSE [Two(q) EXCEPT ![up] = tall, ![i] = low]
<1> DEFINE q1 == Redirect(t, above, i, up)
           q2 == SetChild(q1, up, "child1", i)
           q3 == SetParent(q2, up, above)
           q4 == SetChild(q3, up, "child2", tall)
           q5 == SetParent(q4, i, up)
           q6 == SetChild(q5, i, side, low)
           q7 == SetParent(q6, low, i)
<1>0. i \in Ids /\ up \in Ids /\ low \in Ids /\ tall \in Ids /\ above \in Ids
  BY DEF Ids, Typed, Null, Nodes
<1>p. \A u, j, v : Typed(u) /\ j \in Nodes(u) /\ v \in Ids =>
        LET r == SetParent(u, j, v)
        IN /\ Relinked(r, u) /\ r.root = u.root
           /\ Parent(r) = [Parent(u) EXCEPT ![j] = v] /\ One(r) = One(u) /\ Two(r) = Two(u)
  BY SetParentLinks
<1>c. \A u, j, v : Typed(u) /\ j \in Nodes(u) /\ v \in Ids =>
        /\ LET r == SetChild(u, j, "child1", v)
           IN /\ Relinked(r, u) /\ r.root = u.root
              /\ One(r) = [One(u) EXCEPT ![j] = v] /\ Parent(r) = Parent(u) /\ Two(r) = Two(u)
        /\ LET r == SetChild(u, j, "child2", v)
           IN /\ Relinked(r, u) /\ r.root = u.root
              /\ Two(r) = [Two(u) EXCEPT ![j] = v] /\ Parent(r) = Parent(u) /\ One(r) = One(u)
  BY SetChildLinks
<1>a. Lift(t, i, side) = q7
  BY DEF Lift
<1>1. Relinked(q1, t) /\ Parent(q1) = Parent(t)
  BY <1>0, RedirectLinks
<1> HIDE DEF q1
<1>2. /\ Relinked(q2, t) /\ q2.root = q1.root
      /\ Parent(q2) = Parent(t) /\ One(q2) = [One(q1) EXCEPT ![up] = i] /\ Two(q2) = Two(q1)
  <2>1. Typed(q1) /\ up \in Nodes(q1)
    BY <1>1 DEF Relinked
  <2>2. /\ Relinked(q2, q1) /\ q2.root = q1.root
        /\ Parent(q2) = Parent(q1) /\ One(q2) = [One(q1) EXCEPT ![up] = i] /\ Two(q2) = Two(q1)
    BY <1>0, <2>1, <1>c
  <2> QED
    BY <1>1, <2>2, RelinkedTwice
<1> HIDE DEF q2

<1>3. /\ Relinked(q3, t) /\ q3.root = q1.root
      /\ Parent(q3) = [Parent(t) EXCEPT ![up] = above] /\ One(q3) = One(q2) /\ Two(q3) = Two(q2)
  <2>1. Typed(q2) /\ up \in Nodes(q2)
    BY <1>2 DEF Relinked
  <2>2. /\ Relinked(q3, q2) /\ q3.root = q2.root
        /\ Parent(q3) = [Parent(q2) EXCEPT ![up] = above] /\ One(q3) = One(q2) /\ Two(q3) = Two(q2)
    BY <1>0, <2>1, <1>p
  <2> QED
    BY <1>2, <2>2, RelinkedTwice
<1> HIDE DEF q3
<1>4. /\ Relinked(q4, t) /\ q4.root = q1.root
      /\ Parent(q4) = Parent(q3) /\ One(q4) = One(q3) /\ Two(q4) = [Two(q3) EXCEPT ![up] = tall]
  <2>1. Typed(q3) /\ up \in Nodes(q3)
    BY <1>3 DEF Relinked
  <2>2. /\ Relinked(q4, q3) /\ q4.root = q3.root
        /\ Parent(q4) = Parent(q3) /\ One(q4) = One(q3) /\ Two(q4) = [Two(q3) EXCEPT ![up] = tall]
    BY <1>0, <2>1, <1>c
  <2> QED
    BY <1>3, <2>2, RelinkedTwice
<1> HIDE DEF q4
<1>5. /\ Relinked(q5, t) /\ q5.root = q1.root
      /\ Parent(q5) = [Parent(q4) EXCEPT ![i] = up] /\ One(q5) = One(q4) /\ Two(q5) = Two(q4)
  <2>1. Typed(q4) /\ i \in Nodes(q4)
    BY <1>4 DEF Relinked
  <2>2. /\ Relinked(q5, q4) /\ q5.root = q4.root
        /\ Parent(q5) = [Parent(q4) EXCEPT ![i] = up] /\ One(q5) = One(q4) /\ Two(q5) = Two(q4)
    BY <1>0, <2>1, <1>p
  <2> QED
    BY <1>4, <2>2, RelinkedTwice
<1> HIDE DEF q5
<1>6. /\ Relinked(q6, t) /\ q6.root = q1.root /\ Parent(q6) = Parent(q5)
      /\ One(q6) = IF side = "child1" THEN [One(q5) EXCEPT ![i] = low] ELSE One(q5)
      /\ Two(q6) = IF side = "child1" THEN Two(q5) ELSE [Two(q5) EXCEPT ![i] = low]
  <2>1. Typed(q5) /\ i \in Nodes(q5)
    BY <1>5 DEF Relinked
  <2>2. /\ Relinked(q6, q5) /\ q6.root = q5.root /\ Parent(q6) = Parent(q5)
        /\ One(q6) = IF side = "child1" THEN [One(q5) EXCEPT ![i] = low] ELSE One(q5)
        /\ Two(q6) = IF side = "child1" THEN Two(q5) ELSE [Two(q5) EXCEPT ![i] = low]
    BY <1>0, <2>1, <1>c
  <2> QED
    BY <1>5, <2>2, RelinkedTwice
<1> HIDE DEF q6
<1>7. /\ Relinked(q7, t) /\ q7.root = q1.root
      /\ Parent(q7) = [Parent(q6) EXCEPT ![low] = i] /\ One(q7) = One(q6) /\ Two(q7) = Two(q6)
  <2>1. Typed(q6) /\ low \in Nodes(q6)
    BY <1>6 DEF Relinked
  <2>2. /\ Relinked(q7, q6) /\ q7.root = q6.root
        /\ Parent(q7) = [Parent(q6) EXCEPT ![low] = i] /\ One(q7) = One(q6) /\ Two(q7) = Two(q6)
    BY <1>0, <2>1, <1>p
  <2> QED
    BY <1>6, <2>2, RelinkedTwice
<1> HIDE DEF q7
<1>8. Relinked(q7, t) /\ q7.root = q1.root
  BY <1>7
<1>9. Parent(q7) = [Parent(t) EXCEPT ![up] = above, ![i] = up, ![low] = i]
  BY <1>2, <1>3, <1>4, <1>5, <1>6, <1>7
<1>10. /\ One(q7) = IF side = "child1" THEN [One(q1) EXCEPT ![up] = i, ![i] = low]
                     ELSE [One(q1) EXCEPT ![up] = i]
  BY <1>2, <1>3, <1>4, <1>5, <1>6, <1>7
<1>11. /\ Two(q7) = IF side = "child1" THEN [Two(q1) EXCEPT ![up] = tall]
                     ELSE [Two(q1) EXCEPT ![up] = tall, ![i] = low]
  BY <1>2, <1>3, <1>4, <1>5, <1>6, <1>7
<1> QED
  BY <1>a, <1>8, <1>9, <1>10, <1>11 DEF q1

----------------------------------------------------------------------------
(* The links of the nodes of A, as functions: parents P, children L and R. *)
Links(root, P, L, R, A) ==
  /\ root = Null => A = {}
  /\ root # Null => root \in A /\ P[root] = Null
  /\ \A i \in A : i # root => P[i] \in A /\ i \in {L[P[i]], R[P[i]]}
  /\ \A i \in A : L[i] # Null => /\ L[i] \in A /\ R[i] \in A /\ L[i] # R[i]
                                /\ P[L[i]] = i /\ P[R[i]] = i
  /\ \A i \in A : L[i] = Null => R[i] = Null
(* No node is its own ancestor: d is a depth.                              *)
Depths(P, A, root, d) ==
  d \in [A -> Nat] /\ \A i \in A : i # root => d[P[i]] < d[i]

(* The links before and after a rotation at i: up goes up, low changes     *)
(* its parent; d is a depth.                                               *)
Turn(N, A, root, P, L, R, d, i, up, low, tall, other, left, root2, P2, L2, R2) ==
  /\ N \subseteq Nat /\ A \subseteq N /\ left \in BOOLEAN
  /\ P \in [N -> Ids] /\ L \in [N -> Ids] /\ R \in [N -> Ids]
  /\ Links(root, P, L, R, A) /\ Depths(P, A, root, d)
  /\ {i, up, low, tall, other} \subseteq A
  /\ L[i] # Null /\ L[up] # Null /\ {low, tall} = {L[up], R[up]} /\ low # tall
  /\ IF left THEN up = L[i] /\ other = R[i] ELSE up = R[i] /\ other = L[i]
  /\ P2 \in [N -> Ids] /\ L2 \in [N -> Ids] /\ R2 \in [N -> Ids]
  /\ root2 = IF P[i] = Null THEN up ELSE root
  /\ P2 = [P EXCEPT ![up] = P[i], ![i] = up, ![low] = i]
  /\ L2 = LET M == IF P[i] # Null /\ L[P[i]] = i THEN [L EXCEPT ![P[i]] = up] ELSE L
          IN IF left THEN [M EXCEPT ![up] = i, ![i] = low] ELSE [M EXCEPT ![up] = i]
  /\ R2 = LET M == IF P[i] # Null /\ L[P[i]] # i THEN [R EXCEPT ![P[i]] = up] ELSE R
          IN IF left THEN [M EXCEPT ![up] = tall] ELSE [M EXCEPT ![up] = tall, ![i] = low]

(* The links after a rotation are those of a tree on the same nodes, with   *)
(* the same leaves.                                                         *)
LEMMA TurnedLinks ==
  ASSUME NEW N, NEW A, NEW root, NEW P, NEW L, NEW R, NEW d, NEW i, NEW up, NEW low,
         NEW tall, NEW other, NEW left, NEW root2, NEW P2, NEW L2, NEW R2,
         Turn(N, A, root, P, L, R, d, i, up, low, tall, other, left, root2, P2, L2, R2)
  PROVE  /\ Links(root2, P2, L2, R2, A)
         /\ \E e : Depths(P2, A, root2, e)
         /\ \A j \in N : (L2[j] = Null <=> L[j] = Null)
<1> SUFFICES ASSUME N \subseteq Nat, A \subseteq N, left \in BOOLEAN,
         P \in [N -> Ids], L \in [N -> Ids], R \in [N -> Ids],
         Links(root, P, L, R, A), Depths(P, A, root, d),
         i \in A, up \in A, low \in A, tall \in A, other \in A,
         L[i] # Null, L[up] # Null, {low, tall} = {L[up], R[up]}, low # tall,
         IF left THEN up = L[i] /\ other = R[i] ELSE up = R[i] /\ other = L[i],
         P2 \in [N -> Ids], L2 \in [N -> Ids], R2 \in [N -> Ids],
         root2 = IF P[i] = Null THEN up ELSE root,
         P2 = [P EXCEPT ![up] = P[i], ![i] = up, ![low] = i],
         L2 = LET M == IF P[i] # Null /\ L[P[i]] = i THEN [L EXCEPT ![P[i]] = up] ELSE L
              IN IF left THEN [M EXCEPT ![up] = i, ![i] = low] ELSE [M EXCEPT ![up] = i],
         R2 = LET M == IF P[i] # Null /\ L[P[i]] # i THEN [R EXCEPT ![P[i]] = up] ELSE R
              IN IF left THEN [M EXCEPT ![up] = tall] ELSE [M EXCEPT ![up] = tall, ![i] = low]
    PROVE  /\ Links(root2, P2, L2, R2, A)
           /\ \E e : Depths(P2, A, root2, e)
           /\ \A j \in N : (L2[j] = Null <=> L[j] = Null)
  BY DEF Turn
<1> DEFINE above == P[i]
<1>1. Null \notin N
  BY DEF Null
<1>2. /\ up # i /\ other # i /\ other # up /\ P[up] = i /\ P[other] = i
      /\ d[i] < d[up] /\ d[i] < d[other] /\ up # root /\ other # root /\ root # Null
  BY <1>1 DEF Links, Depths
<1>3. /\ P[low] = up /\ P[tall] = up /\ low # root /\ tall # root
  <2>1. P[L[up]] = up /\ P[R[up]] = up /\ P[root] = Null /\ up # Null
    BY <1>1, <1>2 DEF Links
  <2>2. P[low] = up /\ P[tall] = up
    BY <2>1
  <2> QED
    BY <2>1, <2>2
<1>4. d \in [A -> Nat] /\ d[up] < d[low] /\ d[up] < d[tall] /\ (i # root => above \in A /\ d[above] < d[i])
  BY <1>3 DEF Depths, Links
<1>5. low \notin {i, up, other} /\ tall \notin {i, up, other}
  BY <1>2, <1>3, <1>4
<1>6. /\ i = root <=> above = Null
      /\ i # root => above \in A /\ above \notin {i, up, low, tall, other}
  BY <1>1, <1>2, <1>3, <1>4 DEF Links
<1>7. \A j \in N : P2[j] = CASE j = low -> i [] j = i -> up [] j = up -> above [] OTHER -> P[j]
  BY <1>2, <1>5
<1>8. \A j \in N : L2[j] = CASE j = up -> i [] j = i /\ left -> low
                            [] j = above /\ L[j] = i -> up [] OTHER -> L[j]
  <2>1. CASE above # Null /\ L[above] = i
    BY <1>1, <1>2, <1>6, <2>1
  <2>2. CASE ~ (above # Null /\ L[above] = i)
    BY <1>1, <1>2, <1>6, <2>2
  <2> QED
    BY <2>1, <2>2
<1>9. \A j \in N : R2[j] = CASE j = up -> tall [] j = i /\ ~ left -> low
                            [] j = above /\ L[j] # i -> up [] OTHER -> R[j]
  <2>1. CASE above # Null /\ L[above] # i
    BY <1>1, <1>2, <1>6, <2>1
  <2>2. CASE ~ (above # Null /\ L[above] # i)
    BY <1>1, <1>2, <1>6, <2>2
  <2> QED
    BY <2>1, <2>2
<1>10. Links(root2, P2, L2, R2, A)
  <2>1. root2 # Null /\ root2 \in A /\ P2[root2] = Null
    BY <1>1, <1>2, <1>3, <1>6, <1>7 DEF Links
  <2>2. ASSUME NEW j \in A, j # root2
        PROVE  P2[j] \in A /\ j \in {L2[P2[j]], R2[P2[j]]}
    <3>1. CASE j = low
      BY <1>2, <1>5, <1>6, <1>7, <1>8, <1>9, <3>1
    <3>2. CASE j = i
      BY <1>2, <1>5, <1>6, <1>7, <1>8, <1>9, <3>2
    <3>3. CASE j = up
      <4>1. P2[j] = above /\ above \in A /\ i \in {L[above], R[above]} /\ above # up /\ above # i
        BY <1>2, <1>5, <1>6, <1>7, <2>2, <3>3 DEF Links
      <4> QED
        BY <1>8, <1>9, <4>1, <3>3
    <3>4. CASE j = tall
      BY <1>2, <1>3, <1>5, <1>6, <1>7, <1>8, <1>9, <3>4
    <3>5. CASE j = other
      BY <1>2, <1>3, <1>5, <1>6, <1>7, <1>8, <1>9, <3>5
    <3>6. CASE j \notin {low, i, up, tall, other}
      <4>1. P2[j] = P[j] /\ j # root
        BY <1>6, <1>7, <2>2, <3>6
      <4>2. P[j] \in A /\ j \in {L[P[j]], R[P[j]]}
        BY <4>1 DEF Links
      <4>3. P[j] # i /\ P[j] # up
        BY <4>2, <3>6
      <4>4. CASE P[j] # above
        BY <1>8, <1>9, <4>1, <4>2, <4>3, <4>4
      <4>5. CASE P[j] = above
        <5>1. above # Null /\ i \in {L[above], R[above]} /\ above \in N
          <6>1. above \in N /\ above # Null
            BY <1>1, <4>2, <4>5
          <6>2. i # root
            BY <1>6, <6>1
          <6> QED
            BY <6>1, <6>2 DEF Links
        <5>2. CASE L[above] = i
          <6>1. j = R[above] /\ R2[above] = R[above]
            BY <1>9, <3>6, <4>2, <4>3, <4>5, <5>1, <5>2
          <6> QED
            BY <4>1, <4>2, <4>5, <6>1
        <5>3. CASE L[above] # i
          <6>1. j = L[above] /\ L2[above] = L[above]
            BY <1>8, <3>6, <4>2, <4>3, <4>5, <5>1, <5>3
          <6> QED
            BY <4>1, <4>2, <4>5, <6>1
        <5> QED
          BY <5>2, <5>3
      <4> QED
        BY <4>4, <4>5
    <3> QED
      BY <3>1, <3>2, <3>3, <3>4, <3>5, <3>6
  <2>3. ASSUME NEW j \in A, L2[j] # Null
        PROVE  /\ L2[j] \in A /\ R2[j] \in A /\ L2[j] # R2[j]
               /\ P2[L2[j]] = j /\ P2[R2[j]] = j
    <3>1. CASE j = up
      BY <1>2, <1>3, <1>5, <1>7, <1>8, <1>9, <3>1
    <3>2. CASE j = i
      BY <1>2, <1>3, <1>5, <1>6, <1>7, <1>8, <1>9, <3>2
    <3>3. CASE j = above
      <4>1. /\ above \in A /\ i \in {L[above], R[above]} /\ L[above] # Null
            /\ L[above] \in A /\ R[above] \in A /\ L[above] # R[above]
            /\ P[L[above]] = above /\ P[R[above]] = above
        BY <1>1, <1>6, <3>3 DEF Links
      <4> QED
        BY <1>2, <1>3, <1>5, <1>6, <1>7, <1>8, <1>9, <3>3, <4>1
    <3>4. CASE j \notin {up, i, above}
      <4>1. L2[j] = L[j] /\ R2[j] = R[j]
        BY <1>8, <1>9, <3>4
      <4>2. /\ L[j] \in A /\ R[j] \in A /\ L[j] # R[j]
            /\ P[L[j]] = j /\ P[R[j]] = j
        BY <2>3, <4>1 DEF Links
      <4>3. {L[j], R[j]} \cap {low, i, up} = {}
        BY <1>2, <1>3, <3>4, <4>2
      <4> QED
        BY <1>7, <4>1, <4>2, <4>3
    <3> QED
      BY <3>1, <3>2, <3>3, <3>4
  <2>4. ASSUME NEW j \in A, L2[j] = Null
        PROVE  R2[j] = Null
    BY <1>1, <1>6, <1>8, <1>9, <2>4 DEF Links
  <2> QED
    BY <2>1, <2>2, <2>3, <2>4 DEF Links
<1>11. \E e : Depths(P2, A, root2, e)
  <2> DEFINE e == [j \in A |-> IF j = up THEN 2 * d[i] ELSE IF j = i THEN 2 * d[i] + 1 ELSE 2 * d[j]]
  <2>1. e \in [A -> Nat]
    BY <1>4
  <2>2. ASSUME NEW j \in A, j # root2
        PROVE  e[P2[j]] < e[j]
    <3>0. /\ e[up] = 2 * d[i] /\ e[i] = 2 * d[i] + 1
          /\ \A k \in A : k \notin {up, i} => e[k] = 2 * d[k]
          /\ \A k \in A : d[k] \in Nat
      BY <1>2, <1>4
    <3> HIDE DEF e
    <3>1. CASE j = low
      BY <1>2, <1>4, <1>5, <1>7, <3>0, <3>1
    <3>2. CASE j = i
      BY <1>5, <1>7, <3>0, <3>2
    <3>3. CASE j = up
      BY <1>2, <1>4, <1>5, <1>6, <1>7, <2>2, <3>0, <3>3
    <3>4. CASE j \notin {low, i, up}
      <4>1. P2[j] = P[j] /\ j # root
        BY <1>6, <1>7, <2>2, <3>4
      <4>2. P[j] \in A /\ d[P[j]] < d[j]
        BY <4>1 DEF Links, Depths
      <4>3. e[j] = 2 * d[j]
        BY <3>0, <3>4
      <4>4. CASE P[j] = up
        BY <1>2, <3>0, <4>1, <4>2, <4>3, <4>4
      <4>5. CASE P[j] = i
        BY <3>0, <4>1, <4>2, <4>3, <4>5
      <4>6. CASE P[j] \notin {up, i}
        <5>1. e[P2[j]] = 2 * d[P[j]] /\ d[P[j]] \in Nat /\ d[j] \in Nat
          BY <3>0, <4>1, <4>2, <4>6
        <5> HIDE DEF e
        <5> QED
          BY <4>2, <4>3, <5>1
      <4> QED
        BY <4>4, <4>5, <4>6
    <3> QED
      BY <3>1, <3>2, <3>3, <3>4
  <2> HIDE DEF e
  <2> QED
    BY <2>1, <2>2 DEF Depths
<1>12. \A j \in N : (L2[j] = Null <=> L[j] = Null)
  BY <1>1, <1>8
<1> QED
  BY <1>10, <1>11, <1>12

----------------------------------------------------------------------------
(* The tree of the nodes of A.                                             *)
Tree(t, A) ==
  /\ Typed(t) /\ A \subseteq Nodes(t)
  /\ Links(t.root, Parent(t), One(t), Two(t), A)
  /\ \E d : Depths(Parent(t), A, t.root, d)
  /\ \A i \in Nodes(t) \ A : One(t)[i] = Null /\ Two(t)[i] = Null

(* The height and the box of a node are what those of its children say.    *)
Fit(t, i) ==
  IF One(t)[i] = Null THEN Height(t)[i] = 0
  ELSE LET a == One(t)[i]
           b == Two(t)[i]
       IN /\ Height(t)[i] = 1 + Max({Height(t)[a], Height(t)[b]})
          /\ BoxOf(t)[i] = Combine(BoxOf(t)[a], BoxOf(t)[b])

(* Min and Max of two numbers.                                              *)
LEMMA MinMax ==
  ASSUME NEW x \in Int, NEW y \in Int
  PROVE  /\ Max({x, y}) = IF x >= y THEN x ELSE y
         /\ Min({x, y}) = IF x <= y THEN x ELSE y
BY DEF Max, Min

(* The box of two boxes is a box that covers both.                          *)
LEMMA CombineCovers ==
  ASSUME NEW a \in Box, NEW b \in Box
  PROVE  Combine(a, b) \in Box /\ Covers(Combine(a, b), a) /\ Covers(Combine(a, b), b)
<1>1. \A i \in 1..2 : a.lo[i] \in Int /\ b.lo[i] \in Int /\ a.hi[i] \in Int /\ b.hi[i] \in Int
  BY DEF Box
<1>2. \A i \in 1..2 : /\ Min({a.lo[i], b.lo[i]}) = IF a.lo[i] <= b.lo[i] THEN a.lo[i] ELSE b.lo[i]
                     /\ Max({a.hi[i], b.hi[i]}) = IF a.hi[i] >= b.hi[i] THEN a.hi[i] ELSE b.hi[i]
  BY <1>1, MinMax
<1> QED
  BY <1>1, <1>2 DEF Combine, Covers, Box

(* What is changed when a node is refitted.                                *)
Refitted(r, t, i) ==
  /\ Typed(r) /\ Nodes(r) = Nodes(t)
  /\ r.capacity = t.capacity /\ r.free = t.free /\ r.root = t.root
  /\ Parent(r) = Parent(t) /\ One(r) = One(t) /\ Two(r) = Two(t)
  /\ \A j \in Nodes(t) : j # i => Height(r)[j] = Height(t)[j] /\ BoxOf(r)[j] = BoxOf(t)[j]

(* Refit makes one inner node fit its children and changes nothing else.    *)
LEMMA RefitNode ==
  ASSUME NEW t, Typed(t), NEW i \in Nodes(t), One(t)[i] \in Nodes(t) \ {i}, Two(t)[i] \in Nodes(t) \ {i}
  PROVE  Refitted(Refit(t, i), t, i) /\ Fit(Refit(t, i), i)
<1> DEFINE a == t.node[i].child1
           b == t.node[i].child2
           h == 1 + Max({t.node[a].height, t.node[b].height})
           x == Combine(t.node[a].box, t.node[b].box)
           r == Refit(t, i)
           n == [t.node EXCEPT ![i] = [parent |-> t.node[i].parent, child1 |-> a, child2 |-> b,
                                       box |-> x, height |-> h]]
<1>1. One(t)[i] = a /\ Two(t)[i] = b /\ a \in Nodes(t) \ {i} /\ b \in Nodes(t) \ {i}
  BY DEF One, Two
<1>2. h \in Nat /\ x \in Box
  <2>1. t.node[a] \in Node /\ t.node[b] \in Node
    BY <1>1 DEF Typed, Nodes
  <2>2. t.node[a].height \in Nat /\ t.node[b].height \in Nat /\ t.node[a].box \in Box /\ t.node[b].box \in Box
    BY <2>1 DEF Node
  <2>3. Max({t.node[a].height, t.node[b].height}) \in Nat
    BY <2>2, MinMax
  <2> QED
    BY <2>2, <2>3, CombineCovers
<1>3. t.node[i] \in Node /\ DOMAIN t.node = Nodes(t)
  BY DEF Typed, Nodes
<1> HIDE DEF h, x
<1> DEFINE t1 == [t EXCEPT !.node[i].box = x]
           n1 == [t.node EXCEPT ![i].box = x]
           n2 == [n1 EXCEPT ![i].height = h]
<1>4. r = [t1 EXCEPT !.node[i].height = h]
  BY DEF Refit, h, x
<1>5. /\ t1.node = n1 /\ t1.root = t.root /\ t1.capacity = t.capacity /\ t1.free = t.free
      /\ t1 = [node |-> t1.node, root |-> t1.root, capacity |-> t1.capacity, free |-> t1.free]
  BY DEF Typed
<1> HIDE DEF t1
<1>6. /\ r.node = n2 /\ r.root = t.root /\ r.capacity = t.capacity /\ r.free = t.free
      /\ r = [node |-> r.node, root |-> r.root, capacity |-> r.capacity, free |-> r.free]
  BY <1>4, <1>5
<1>7. /\ n1 \in [Nodes(t) -> Node]
      /\ \A j \in Nodes(t) : /\ n1[j].parent = t.node[j].parent /\ n1[j].child1 = t.node[j].child1
                              /\ n1[j].child2 = t.node[j].child2 /\ n1[j].height = t.node[j].height
                              /\ n1[j].box = IF j = i THEN x ELSE t.node[j].box
  BY <1>2, <1>3 DEF Typed, Node
<1> HIDE DEF n1
<1>8. /\ n2 \in [Nodes(t) -> Node]
      /\ \A j \in Nodes(t) : /\ n2[j].parent = n1[j].parent /\ n2[j].child1 = n1[j].child1
                              /\ n2[j].child2 = n1[j].child2 /\ n2[j].box = n1[j].box
                              /\ n2[j].height = IF j = i THEN h ELSE n1[j].height
  BY <1>2, <1>3, <1>7 DEF Node
<1> HIDE DEF n2, r
<1>9. Typed(r) /\ Nodes(r) = Nodes(t)
  BY <1>3, <1>6, <1>8 DEF Typed, Nodes
<1>10. Parent(r) = Parent(t) /\ One(r) = One(t) /\ Two(r) = Two(t)
  BY <1>6, <1>7, <1>8, <1>9 DEF Parent, One, Two
<1>11. \A j \in Nodes(t) : /\ Height(r)[j] = IF j = i THEN h ELSE Height(t)[j]
                           /\ BoxOf(r)[j] = IF j = i THEN x ELSE BoxOf(t)[j]
  BY <1>6, <1>7, <1>8, <1>9 DEF Height, BoxOf
<1>12. Refitted(r, t, i)
  BY <1>6, <1>9, <1>10, <1>11 DEF Refitted
<1>13. Fit(r, i)
  <2>1. One(r)[i] = a /\ Two(r)[i] = b /\ a # Null
    BY <1>1, <1>10 DEF Typed, Null, Nodes
  <2>2. Height(r)[i] = 1 + Max({Height(r)[a], Height(r)[b]})
    BY <1>1, <1>11 DEF h, Height
  <2>3. BoxOf(r)[i] = Combine(BoxOf(r)[a], BoxOf(r)[b])
    BY <1>1, <1>11 DEF x, BoxOf
  <2> QED
    BY <2>1, <2>2, <2>3 DEF Fit
<1> QED
  BY <1>12, <1>13 DEF r

(* The pool, and which nodes are leaves with which boxes, are the same.    *)
SameLeaves(r, t) ==
  /\ Nodes(r) = Nodes(t) /\ r.capacity = t.capacity /\ r.free = t.free
  /\ \A j \in Nodes(t) : /\ One(r)[j] = Null <=> One(t)[j] = Null
                         /\ One(t)[j] = Null => /\ BoxOf(r)[j] = BoxOf(t)[j]
                                                /\ Height(r)[j] = Height(t)[j]

(* The types of the fields of a tree.                                       *)
LEMMA TypedNodes ==
  ASSUME NEW t, Typed(t)
  PROVE  /\ Nodes(t) \subseteq Nat /\ Null \notin Nodes(t)
         /\ Parent(t) \in [Nodes(t) -> Ids] /\ One(t) \in [Nodes(t) -> Ids]
         /\ Two(t) \in [Nodes(t) -> Ids] /\ Height(t) \in [Nodes(t) -> Nat]
         /\ BoxOf(t) \in [Nodes(t) -> Box]
<1>1. Nodes(t) \subseteq Nat /\ Null \notin Nodes(t)
  BY DEF Typed, Nodes, Null
<1>2. \A i \in Nodes(t) : t.node[i] \in Node
  BY DEF Typed, Nodes
<1>3. \A i \in Nodes(t) : /\ t.node[i].parent \in Ids /\ t.node[i].child1 \in Ids /\ t.node[i].child2 \in Ids
                         /\ t.node[i].height \in Nat /\ t.node[i].box \in Box
  BY <1>2 DEF Node
<1> QED
  BY <1>1, <1>3 DEF Parent, One, Two, Height, BoxOf

(* A refit disturbs nothing but the node.                                  *)
LEMMA RefitTree ==
  ASSUME NEW t, NEW A, Tree(t, A), NEW i \in A, One(t)[i] # Null
  PROVE  /\ Tree(Refit(t, i), A) /\ SameLeaves(Refit(t, i), t)
         /\ Refitted(Refit(t, i), t, i) /\ Fit(Refit(t, i), i)
<1> DEFINE r == Refit(t, i)
<1>1. Typed(t) /\ A \subseteq Nodes(t) /\ i \in Nodes(t)
  BY DEF Tree
<1>2. One(t)[i] \in Nodes(t) \ {i} /\ Two(t)[i] \in Nodes(t) \ {i}
  <2>1. PICK d : Depths(Parent(t), A, t.root, d)
    BY DEF Tree
  <2>2. /\ One(t)[i] \in A /\ Two(t)[i] \in A /\ Parent(t)[One(t)[i]] = i /\ Parent(t)[Two(t)[i]] = i
        /\ t.root # Null /\ Parent(t)[t.root] = Null
    BY DEF Tree, Links
  <2>3. i # Null
    BY <1>1, TypedNodes
  <2>4. d \in [A -> Nat] /\ d[i] < d[One(t)[i]] /\ d[i] < d[Two(t)[i]]
    BY <2>1, <2>2, <2>3 DEF Depths
  <2> QED
    BY <1>1, <2>2, <2>4
<1>3. Refitted(r, t, i) /\ Fit(r, i)
  BY <1>1, <1>2, RefitNode
<1> HIDE DEF r
<1>4. Tree(r, A)
  BY <1>3 DEF Refitted, Tree
<1>5. SameLeaves(r, t)
  BY <1>3 DEF Refitted, SameLeaves
<1> QED
  BY <1>3, <1>4, <1>5 DEF r

(* Two steps that keep the leaves keep the leaves.                          *)
LEMMA SameLeavesTwice ==
  ASSUME NEW q, NEW r, NEW t, SameLeaves(r, q), SameLeaves(q, t)
  PROVE  SameLeaves(r, t)
BY DEF SameLeaves

(* What a rotation does, with the refits that end it.                      *)
LEMMA RotateTree ==
  ASSUME NEW t, NEW A, Tree(t, A), NEW i \in A, One(t)[i] # Null,
         NEW side \in {"child1", "child2"}, NEW up, up = t.node[i][side], One(t)[up] # Null
  PROVE  LET r == Rotate(t, i, side).tree
         IN /\ Rotate(t, i, side).top = up /\ up \in A /\ up # i /\ Parent(t)[up] = i
            /\ Tree(r, A) /\ SameLeaves(r, t) /\ Fit(r, i) /\ Fit(r, up)
            /\ Parent(r)[up] = Parent(t)[i]
            /\ \A j \in A : Parent(t)[j] \notin {i, up} /\ j # i => Parent(r)[j] = Parent(t)[j]
            /\ \A j \in A : j \notin {i, up, Parent(t)[i]} =>
                 /\ One(r)[j] = One(t)[j] /\ Two(r)[j] = Two(t)[j]
                 /\ Height(r)[j] = Height(t)[j] /\ BoxOf(r)[j] = BoxOf(t)[j]
<1> DEFINE low == Lower(t, up)
           tall == Higher(t, up)
           other == IF side = "child1" THEN Two(t)[i] ELSE One(t)[i]
           above == Parent(t)[i]
           r1 == Lift(t, i, side)
           r2 == Refit(r1, i)
           r3 == Refit(r2, up)
           root == t.root
           P == Parent(t)
           L == One(t)
           R == Two(t)
           N == Nodes(t)
<1>1. /\ Typed(t) /\ A \subseteq N /\ i \in N /\ N \subseteq Nat /\ Null \notin N
      /\ P \in [N -> Ids] /\ L \in [N -> Ids] /\ R \in [N -> Ids] /\ Links(root, P, L, R, A)
  BY TypedNodes DEF Tree
<1>2. PICK d : Depths(P, A, root, d)
  BY DEF Tree
<1>3. up = IF side = "child1" THEN L[i] ELSE R[i]
  BY <1>1 DEF One, Two
<1>4. /\ up \in A /\ other \in A /\ up # other /\ P[up] = i /\ P[other] = i
      /\ L[up] \in A /\ R[up] \in A /\ L[up] # R[up] /\ P[L[up]] = up /\ P[R[up]] = up
  BY <1>1, <1>3 DEF Links
<1>5. {low, tall} = {L[up], R[up]} /\ low # tall /\ low \in A /\ tall \in A
  <2>1. t.node[up].child1 = L[up] /\ t.node[up].child2 = R[up]
    BY <1>1, <1>4 DEF One, Two
  <2>2. tall \in {L[up], R[up]}
    BY <2>1 DEF Higher
  <2>3. low = IF tall = L[up] THEN R[up] ELSE L[up]
    BY <2>1 DEF Lower
  <2> QED
    BY <1>4, <2>2, <2>3
<1>6. above = t.node[i].parent /\ above \in N \cup {Null}
  <2>1. i = root \/ P[i] \in A
    BY <1>1 DEF Links
  <2>2. P[root] = Null \/ i # root
    BY <1>1 DEF Links
  <2> QED
    BY <1>1, <2>1, <2>2 DEF Parent
<1> HIDE DEF low, tall
<1>7. LET q == Redirect(t, above, i, up)
      IN /\ Relinked(r1, t) /\ r1.root = q.root
         /\ Parent(r1) = [P EXCEPT ![up] = above, ![i] = up, ![low] = i]
         /\ One(r1) = IF side = "child1" THEN [One(q) EXCEPT ![up] = i, ![i] = low]
                      ELSE [One(q) EXCEPT ![up] = i]
         /\ Two(r1) = IF side = "child1" THEN [Two(q) EXCEPT ![up] = tall]
                      ELSE [Two(q) EXCEPT ![up] = tall, ![i] = low]
  BY <1>1, <1>4, <1>5, <1>6, LiftLinks DEF low, tall
<1>8. LET q == Redirect(t, above, i, up)
      IN /\ q.root = IF above = Null THEN up ELSE root
         /\ One(q) = IF above # Null /\ L[above] = i THEN [L EXCEPT ![above] = up] ELSE L
         /\ Two(q) = IF above # Null /\ L[above] # i THEN [R EXCEPT ![above] = up] ELSE R
  <2>1. up \in Ids
    BY <1>1, <1>4 DEF Ids
  <2> DEFINE q == Redirect(t, above, i, up)
  <2>2. above = Null => q.root = up /\ One(q) = L /\ Two(q) = R
    BY <1>1, <1>6, <2>1, RedirectLinks
  <2>3. above # Null /\ L[above] = i => q.root = root /\ One(q) = [L EXCEPT ![above] = up] /\ Two(q) = R
    <3> SUFFICES ASSUME above # Null, L[above] = i PROVE q.root = root /\ One(q) = [L EXCEPT ![above] = up] /\ Two(q) = R
      OBVIOUS
    <3>1. above \in N /\ above \in Nodes(t)
      BY <1>6
    <3>2. q = SetChild(t, above, "child1", up)
      BY <3>1 DEF Redirect, One
    <3> HIDE DEF q
    <3>3. Typed(t) /\ up \in Ids
      BY <1>1, <2>1
    <3>4. LET r == SetChild(t, above, "child1", up)
          IN r.root = t.root /\ One(r) = [One(t) EXCEPT ![above] = up] /\ Two(r) = Two(t)
      BY <2>1, <3>1, <3>3, SetChildLinks
    <3> QED
      BY <3>2, <3>4
  <2>4. above # Null /\ L[above] # i => q.root = root /\ One(q) = L /\ Two(q) = [R EXCEPT ![above] = up]
    <3> SUFFICES ASSUME above # Null, L[above] # i PROVE q.root = root /\ One(q) = L /\ Two(q) = [R EXCEPT ![above] = up]
      OBVIOUS
    <3>1. above \in N /\ above \in Nodes(t)
      BY <1>6
    <3>2. q = SetChild(t, above, "child2", up)
      BY <3>1 DEF Redirect, One
    <3> HIDE DEF q
    <3>3. Typed(t) /\ up \in Ids
      BY <1>1, <2>1
    <3>4. LET r == SetChild(t, above, "child2", up)
          IN r.root = t.root /\ One(r) = One(t) /\ Two(r) = [Two(t) EXCEPT ![above] = up]
      BY <2>1, <3>1, <3>3, SetChildLinks
    <3> QED
      BY <3>2, <3>4
  <2> HIDE DEF q
  <2> QED
    BY <2>2, <2>3, <2>4 DEF q
<1> HIDE DEF r1
<1>9. Typed(r1) /\ Nodes(r1) = N
  BY <1>7 DEF Relinked
<1>10. /\ Links(r1.root, Parent(r1), One(r1), Two(r1), A)
       /\ \E e : Depths(Parent(r1), A, r1.root, e)
       /\ \A j \in N : (One(r1)[j] = Null <=> L[j] = Null)
  <2> DEFINE left == side = "child1"
  <2>1. /\ r1.root = IF P[i] = Null THEN up ELSE root
        /\ Parent(r1) = [P EXCEPT ![up] = P[i], ![i] = up, ![low] = i]
        /\ One(r1) = LET M == IF P[i] # Null /\ L[P[i]] = i THEN [L EXCEPT ![P[i]] = up] ELSE L
              IN IF left THEN [M EXCEPT ![up] = i, ![i] = low] ELSE [M EXCEPT ![up] = i]
        /\ Two(r1) = LET M == IF P[i] # Null /\ L[P[i]] # i THEN [R EXCEPT ![P[i]] = up] ELSE R
              IN IF left THEN [M EXCEPT ![up] = tall] ELSE [M EXCEPT ![up] = tall, ![i] = low]
    BY <1>7, <1>8
  <2>2. IF left THEN up = L[i] /\ other = R[i] ELSE up = R[i] /\ other = L[i]
    BY <1>3
  <2>3. left \in BOOLEAN /\ L[i] # Null /\ L[up] # Null /\ A \in SUBSET N /\ N \in SUBSET Nat
    BY <1>1
  <2>4. Parent(r1) \in [N -> Ids] /\ One(r1) \in [N -> Ids] /\ Two(r1) \in [N -> Ids]
    BY <1>9, TypedNodes
  <2> HIDE DEF other, left, P, L, R, N, root
  <2> QED
    <3>1. Turn(N, A, root, P, L, R, d, i, up, low, tall, other, left,
               r1.root, Parent(r1), One(r1), Two(r1))
      BY <1>1, <1>2, <1>4, <1>5, <2>1, <2>2, <2>3, <2>4 DEF Turn
    <3> QED
      BY <3>1, TurnedLinks
<1>11. Tree(r1, A)
  <2>1. \A j \in N \ A : L[j] = Null /\ R[j] = Null
    BY DEF Tree
  <2>2. \A j \in N \ A : R[j] = Two(r1)[j]
    <3> TAKE j \in N \ A
    <3>1. j # i /\ j # up /\ j \in N
      BY <1>4
    <3>2. above # j
      BY <1>1 DEF Links
    <3> DEFINE q == Redirect(t, above, i, up)
    <3>3. Two(q)[j] = R[j]
      BY <1>1, <1>8, <3>1, <3>2, TypedNodes DEF Tree
    <3>4. Two(r1)[j] = Two(q)[j]
      <4>1. Two(q) \in [N -> Ids]
        BY <1>1, <1>4, <1>6, <1>8
      <4> HIDE DEF q
      <4> QED
        BY <1>7, <3>1, <4>1 DEF q
    <3> QED
      BY <3>3, <3>4
  <2> QED
    BY <1>1, <1>9, <1>10, <2>1, <2>2 DEF Tree
<1>12. One(r1)[i] # Null /\ One(r1)[up] # Null
  BY <1>1, <1>4, <1>10
<1>13. /\ Tree(r2, A) /\ SameLeaves(r2, r1) /\ Refitted(r2, r1, i) /\ Fit(r2, i)
  BY <1>11, <1>12, RefitTree
<1> HIDE DEF r2
<1>14. One(r2)[up] # Null
  BY <1>12, <1>13 DEF Refitted
<1>15. /\ Tree(r3, A) /\ SameLeaves(r3, r2) /\ Refitted(r3, r2, up) /\ Fit(r3, up)
  BY <1>4, <1>13, <1>14, RefitTree
<1> HIDE DEF r3
<1>16. SameLeaves(r3, t)
  <2>1. SameLeaves(r1, t)
    BY <1>7, <1>10 DEF Relinked, SameLeaves
  <2> QED
    BY <1>13, <1>15, <2>1, SameLeavesTwice
<1>17. /\ Parent(r3) = Parent(r1) /\ One(r3) = One(r1) /\ Two(r3) = Two(r1)
       /\ \A j \in A : j \notin {i, up} => Height(r3)[j] = Height(t)[j] /\ BoxOf(r3)[j] = BoxOf(t)[j]
  BY <1>1, <1>7, <1>13, <1>15 DEF Refitted, Relinked
<1>18. up # i /\ low \notin {i, up} /\ up # above /\ other # low
  <2>1. d \in [A -> Nat] /\ d[i] < d[up] /\ d[up] < d[low]
    BY <1>1, <1>2, <1>4, <1>5 DEF Depths, Links
  <2>2. above \in A => d[above] < d[i]
    BY <1>1, <1>2 DEF Depths, Links
  <2> QED
    BY <1>4, <1>5, <2>1, <2>2
<1>19. \A j \in A : P[j] \notin {i, up} /\ j # i => Parent(r3)[j] = P[j]
  BY <1>1, <1>4, <1>5, <1>7, <1>17
<1>20. \A j \in A : j \notin {i, up, above} =>
         /\ One(r3)[j] = L[j] /\ Two(r3)[j] = R[j]
         /\ Height(r3)[j] = Height(t)[j] /\ BoxOf(r3)[j] = BoxOf(t)[j]
  <2>1. ASSUME NEW j \in A, j \notin {i, up, above}
        PROVE  One(r1)[j] = L[j] /\ Two(r1)[j] = R[j]
    <3> DEFINE q == Redirect(t, above, i, up)
    <3>1. One(q)[j] = L[j] /\ Two(q)[j] = R[j] /\ One(q) \in [N -> Ids] /\ Two(q) \in [N -> Ids]
      BY <1>1, <1>4, <1>6, <1>8, <2>1
    <3> HIDE DEF q
    <3>2. One(r1)[j] = One(q)[j] /\ Two(r1)[j] = Two(q)[j]
      BY <1>1, <1>7, <2>1, <3>1 DEF q
    <3> QED
      BY <3>1, <3>2
  <2> QED
    BY <1>17, <2>1
<1>21. Parent(r3)[up] = above
  BY <1>1, <1>4, <1>7, <1>17, <1>18
<1>22. Fit(r3, i)
  <2>1. One(r3)[i] # Null /\ One(r2)[i] = One(r3)[i] /\ Two(r2)[i] = Two(r3)[i]
    BY <1>12, <1>15, <1>17 DEF Refitted
  <2>2. One(r3)[i] \in A /\ Two(r3)[i] \in A /\ Parent(r3)[One(r3)[i]] = i /\ Parent(r3)[Two(r3)[i]] = i
    BY <1>15, <2>1 DEF Tree, Links
  <2>3. above # i
    BY <1>1, <1>2 DEF Depths, Links
  <2>4. One(r3)[i] # up /\ Two(r3)[i] # up
    BY <1>21, <2>2, <2>3
  <2>5. \A j \in A : j # up => Height(r3)[j] = Height(r2)[j] /\ BoxOf(r3)[j] = BoxOf(r2)[j]
    BY <1>1, <1>9, <1>13, <1>15 DEF Refitted
  <2> QED
    BY <1>13, <1>18, <2>1, <2>2, <2>4, <2>5 DEF Fit
<1>23. Rotate(t, i, side) = [tree |-> r3, top |-> up]
  BY DEF Rotate, r3, r2, r1
<1> QED
  BY <1>4, <1>15, <1>16, <1>18, <1>19, <1>20, <1>21, <1>22, <1>23

(* Some member of a set of nodes is the nearest to the root.               *)
LEMMA Lowest ==
  ASSUME NEW A, NEW d \in [A -> Nat], NEW S \in SUBSET A, S # {}
  PROVE  \E j \in S : \A k \in S : d[j] <= d[k]
<1> DEFINE D == {d[k] : k \in S}
<1>1. D \subseteq Nat /\ D # {}
  OBVIOUS
<1>2. PICK x \in D : \A y \in D : ~ (<<y, x>> \in OpToRel(<, Nat))
  <2> HIDE DEF D
  <2> QED
    BY <1>1, NatLessThanWellFounded, WFMin
<1>3. \A y \in D : ~ (y < x)
  <2> TAKE y \in D
  <2>1. y \in Nat /\ x \in Nat
    BY <1>1
  <2> HIDE DEF D
  <2> QED
    BY <1>2, <2>1 DEF OpToRel
<1>4. PICK j \in S : d[j] = x
  OBVIOUS
<1>5. \A k \in S : d[j] <= d[k]
  BY <1>3, <1>4
<1> QED
  BY <1>5

(* The path of nodes from at up to the root.                               *)
Path(t, at, P) ==
  /\ at = Null => P = {}
  /\ at # Null => at \in P
  /\ \A j \in P : /\ One(t)[j] # Null
                  /\ Parent(t)[j] = Null \/ Parent(t)[j] \in P
                  /\ Parent(t)[j] # at
  /\ \A j, k \in P : Parent(t)[j] = Parent(t)[k] => j = k

(* The state of the loop of WalkUp: what is not on the path ahead is fit.  *)
Walk(t, at, A, P) ==
  /\ Tree(t, A) /\ P \subseteq A /\ at \in P \cup {Null} /\ Path(t, at, P)
  /\ \A j \in A \ P : Fit(t, j)

(* What every proof below uses of a tree: each node but the root has a      *)
(* parent, an inner one, and is one of its two children.                    *)
LEMMA TreeNodes ==
  ASSUME NEW t, NEW A, Tree(t, A)
  PROVE  /\ Typed(t) /\ A \subseteq Nodes(t) /\ A \subseteq Nat /\ Null \notin A
         /\ \A i \in A : /\ Parent(t)[i] \in A \cup {Null} /\ Parent(t)[i] # i
                         /\ Parent(t)[i] = Null <=> i = t.root
                         /\ Parent(t)[i] # Null => One(t)[Parent(t)[i]] # Null
                         /\ Parent(t)[i] # Null =>
                              \/ i = One(t)[Parent(t)[i]] 
                              \/ i = Two(t)[Parent(t)[i]]
                         /\ One(t)[i] # Null => /\ One(t)[i] \in A \ {i} /\ Parent(t)[One(t)[i]] = i
                                                /\ Two(t)[i] \in A \ {i} /\ Parent(t)[Two(t)[i]] = i
                                                /\ One(t)[i] # Two(t)[i]
         /\ A # {} => t.root \in A
<1>1. Typed(t) /\ A \subseteq Nodes(t) /\ Links(t.root, Parent(t), One(t), Two(t), A)
  BY DEF Tree
<1>2. A \subseteq Nat /\ Null \notin A
  BY <1>1, TypedNodes
<1>3. PICK d : d \in [A -> Nat] /\ \A i \in A : i # t.root => d[Parent(t)[i]] < d[i]
  BY DEF Tree, Depths
<1>4. ASSUME NEW i \in A
      PROVE  /\ Parent(t)[i] \in A \cup {Null}
             /\ Parent(t)[i] = Null <=> i = t.root
             /\ Parent(t)[i] # Null => Parent(t)[i] \in A /\ i # t.root
  BY <1>1, <1>2, <1>4 DEF Links
<1>5. ASSUME NEW i \in A PROVE Parent(t)[i] # i
  BY <1>2, <1>3, <1>4, <1>5
<1>6. ASSUME NEW i \in A, Parent(t)[i] # Null
      PROVE  /\ One(t)[Parent(t)[i]] # Null
             /\ i = One(t)[Parent(t)[i]] \/ i = Two(t)[Parent(t)[i]]
  <2>1. Parent(t)[i] \in A /\ i \in {One(t)[Parent(t)[i]], Two(t)[Parent(t)[i]]}
    BY <1>1, <1>4, <1>6 DEF Links
  <2>2. One(t)[Parent(t)[i]] = Null => Two(t)[Parent(t)[i]] = Null
    BY <1>1, <2>1 DEF Links
  <2> QED
    BY <1>2, <2>1, <2>2
<1>7. ASSUME NEW i \in A, One(t)[i] # Null
      PROVE  /\ One(t)[i] \in A \ {i} /\ Parent(t)[One(t)[i]] = i
             /\ Two(t)[i] \in A \ {i} /\ Parent(t)[Two(t)[i]] = i
             /\ One(t)[i] # Two(t)[i]
  <2>1. /\ One(t)[i] \in A /\ Parent(t)[One(t)[i]] = i
        /\ Two(t)[i] \in A /\ Parent(t)[Two(t)[i]] = i /\ One(t)[i] # Two(t)[i]
    BY <1>1, <1>7 DEF Links
  <2> QED
    BY <1>5, <2>1
<1>8. A # {} => t.root \in A
  BY <1>1 DEF Links
<1> QED
  BY <1>1, <1>2, <1>4, <1>5, <1>6, <1>7, <1>8

(* A node is fit as long as it and its children are what they were.        *)
LEMMA FitKept ==
  ASSUME NEW r, NEW t, NEW j, Fit(t, j), Height(r)[j] = Height(t)[j],
         One(r)[j] = One(t)[j], Two(r)[j] = Two(t)[j],
         One(t)[j] # Null => /\ BoxOf(r)[j] = BoxOf(t)[j]
                             /\ Height(r)[One(t)[j]] = Height(t)[One(t)[j]]
                             /\ Height(r)[Two(t)[j]] = Height(t)[Two(t)[j]]
                             /\ BoxOf(r)[One(t)[j]] = BoxOf(t)[One(t)[j]]
                             /\ BoxOf(r)[Two(t)[j]] = BoxOf(t)[Two(t)[j]]
  PROVE  Fit(r, j)
BY DEF Fit

(* The path ahead gets shorter by the node that was left.                  *)
LEMMA PathStep ==
  ASSUME NEW t, NEW A, NEW i, NEW P, Walk(t, i, A, P), i # Null
  PROVE  /\ Parent(t)[i] \in (P \ {i}) \cup {Null}
         /\ Path(t, Parent(t)[i], P \ {i})
<1>1. /\ Tree(t, A) /\ P \subseteq A /\ i \in P /\ i \in A
      /\ \A j \in P : Parent(t)[j] \in P \cup {Null} /\ Parent(t)[j] # i /\ One(t)[j] # Null
      /\ \A j, k \in P : Parent(t)[j] = Parent(t)[k] => j = k
  BY DEF Walk, Path
<1>2. Parent(t)[i] \in (P \ {i}) \cup {Null}
  BY <1>1
<1>3. Parent(t)[i] = Null => P \ {i} = {}
  <2> SUFFICES ASSUME Parent(t)[i] = Null, P \ {i} # {} PROVE FALSE
    OBVIOUS
  <2>1. PICK d : d \in [A -> Nat] /\ \A j \in A : j # t.root => d[Parent(t)[j]] < d[j]
    BY <1>1 DEF Tree, Depths
  <2>2. PICK j \in P \ {i} : \A k \in P \ {i} : d[j] <= d[k]
    <3> DEFINE S == P \ {i}
    <3>1. S \in SUBSET A /\ S # {} /\ d \in [A -> Nat]
      BY <1>1, <2>1
    <3> HIDE DEF S
    <3>2. \E j \in S : \A k \in S : d[j] <= d[k]
      BY <3>1, Lowest
    <3> QED
      BY <3>2 DEF S
  <2>3. i = t.root /\ j # t.root /\ Parent(t)[j] # Null
    BY <1>1, TreeNodes
  <2>4. Parent(t)[j] \in P \ {i} /\ d[Parent(t)[j]] < d[j]
    BY <1>1, <2>1, <2>3
  <2>5. d[j] <= d[Parent(t)[j]] /\ d[j] \in Nat /\ d[Parent(t)[j]] \in Nat
    BY <1>1, <2>1, <2>2, <2>4
  <2> QED
    BY <2>4, <2>5
<1> QED
  BY <1>1, <1>2, <1>3 DEF Path

(* The branches of Balance: a leaf that is fit is not too high for its     *)
(* neighbour, so what goes up is an inner node.                            *)
LEMMA BalanceCases ==
  ASSUME NEW t, NEW A, Tree(t, A), NEW i \in A, One(t)[i] # Null,
         Fit(t, One(t)[i]), Fit(t, Two(t)[i])
  PROVE  \/ Balance(t, i) = [tree |-> t, top |-> i]
         \/ \E side \in {"child1", "child2"} :
              /\ Balance(t, i) = Rotate(t, i, side)
              /\ One(t)[t.node[i][side]] # Null
<1> DEFINE n == t.node[i]
           lean == t.node[n.child2].height - t.node[n.child1].height
<1>1. /\ Typed(t) /\ i \in Nodes(t) /\ One(t)[i] \in Nodes(t) /\ Two(t)[i] \in Nodes(t)
      /\ n.child1 = One(t)[i] /\ n.child2 = Two(t)[i]
  <2>1. Typed(t) /\ i \in Nodes(t) /\ One(t)[i] \in Nodes(t) /\ Two(t)[i] \in Nodes(t)
    BY TreeNodes
  <2> QED
    BY <2>1 DEF One, Two
<1>2. /\ t.node[n.child1].height = Height(t)[One(t)[i]] /\ Height(t)[One(t)[i]] \in Nat
      /\ t.node[n.child2].height = Height(t)[Two(t)[i]] /\ Height(t)[Two(t)[i]] \in Nat
  BY <1>1, TypedNodes DEF Height
<1>3. lean > 1 => One(t)[Two(t)[i]] # Null
  BY <1>2 DEF Fit
<1>4. lean < -1 => One(t)[One(t)[i]] # Null
  BY <1>2 DEF Fit
<1>5. CASE IsLeaf(n) \/ n.height < 2
  BY <1>5 DEF Balance
<1>6. CASE ~ (IsLeaf(n) \/ n.height < 2)
  <2>1. CASE lean > 1
    <3>1. Balance(t, i) = Rotate(t, i, "child2")
      BY <1>2, <1>6, <2>1 DEF Balance
    <3> QED
      BY <1>1, <1>3, <2>1, <3>1
  <2>2. CASE lean < -1
    <3>1. Balance(t, i) = Rotate(t, i, "child1")
      BY <1>2, <1>6, <2>2 DEF Balance
    <3> QED
      BY <1>1, <1>4, <2>2, <3>1
  <2>3. CASE ~ (lean > 1) /\ ~ (lean < -1)
    BY <1>6, <2>3 DEF Balance
  <2> QED
    BY <2>1, <2>2, <2>3
<1> QED
  BY <1>5, <1>6

(* One round of the loop.                                                  *)
LEMMA ClimbKeeps ==
  ASSUME NEW t, NEW A, NEW i, NEW P, Walk(t, i, A, P), i # Null, NEW k
  PROVE  LET w == ClimbStep([tree |-> t, at |-> i], k)
         IN /\ w = [tree |-> w.tree, at |-> w.at]
            /\ Walk(w.tree, w.at, A, P \ {i}) /\ SameLeaves(w.tree, t)
<1> DEFINE b == Balance(t, i)
           r == Refit(b.tree, b.top)
           w == ClimbStep([tree |-> t, at |-> i], k)
           above == Parent(t)[i]
           Q == P \ {i}
<1>1. /\ Tree(t, A) /\ P \subseteq A /\ i \in P /\ i \in A /\ Path(t, i, P)
      /\ \A j \in A \ P : Fit(t, j) /\ j \in A
  BY DEF Walk, Path
<1>2. w = [tree |-> r, at |-> r.node[b.top].parent]
  BY DEF ClimbStep
<1>3. above \in Q \cup {Null} /\ Path(t, above, Q)
  BY PathStep
<1>4. /\ One(t)[i] # Null
      /\ \A j \in P : Parent(t)[j] \in P \cup {Null} /\ Parent(t)[j] # i /\ One(t)[j] # Null
  BY <1>1 DEF Path
<1>5. \A c \in A : Parent(t)[c] = i => c \notin P
  BY <1>4
<1>6. /\ One(t)[i] \in A \ P /\ Two(t)[i] \in A \ P
      /\ Typed(t) /\ A \subseteq Nodes(t) /\ Null \notin A
  BY <1>1, <1>4, <1>5, TreeNodes
<1>7. SUFFICES /\ Tree(r, A) /\ SameLeaves(r, t) /\ b.top \in A /\ Parent(r)[b.top] = above
               /\ \A j \in Q : Parent(r)[j] = Parent(t)[j]
               /\ \A j \in A \ Q : Fit(r, j)
  <2>1. r.node[b.top].parent = Parent(r)[b.top]
    BY <1>7, TreeNodes DEF Parent
  <2>2. Path(r, above, Q)
    BY <1>1, <1>3, <1>6, <1>7 DEF Path, SameLeaves
  <2>3. Walk(r, above, A, Q)
    BY <1>1, <1>3, <1>7, <2>2 DEF Walk
  <2> HIDE DEF r, b
  <2> QED
    BY <1>2, <1>7, <2>1, <2>3
<1> HIDE DEF w
<1>8. CASE b = [tree |-> t, top |-> i]
  <2>1. r = Refit(t, i) /\ b.top = i
    BY <1>8
  <2> HIDE DEF r
  <2>2. Tree(r, A) /\ SameLeaves(r, t) /\ Refitted(r, t, i) /\ Fit(r, i)
    BY <1>1, <1>4, <2>1, RefitTree
  <2>3. ASSUME NEW j \in A \ Q, j # i PROVE Fit(r, j)
    <3>1. Fit(t, j) /\ j \in A /\ j \notin P
      BY <1>1, <2>3
    <3>2. One(t)[j] # Null => /\ One(t)[j] \in Nodes(t) \ {i} /\ Two(t)[j] \in Nodes(t) \ {i}
      BY <1>1, <1>4, <1>6, <3>1, TreeNodes
    <3> QED
      BY <1>6, <2>2, <2>3, <3>1, <3>2, FitKept DEF Refitted
  <2>4. \A j \in Q : Parent(r)[j] = Parent(t)[j]
    BY <1>1, <1>6, <2>2 DEF Refitted
  <2> QED
    BY <1>1, <1>6, <2>1, <2>2, <2>3, <2>4 DEF Refitted
<1>9. ASSUME NEW side \in {"child1", "child2"}, b = Rotate(t, i, side), One(t)[t.node[i][side]] # Null
      PROVE  /\ Tree(r, A) /\ SameLeaves(r, t) /\ b.top \in A /\ Parent(r)[b.top] = above
             /\ \A j \in Q : Parent(r)[j] = Parent(t)[j]
             /\ \A j \in A \ Q : Fit(r, j)
  <2> DEFINE up == t.node[i][side]
             q == Rotate(t, i, side).tree
  <2>1. /\ Rotate(t, i, side).top = up /\ up \in A /\ up # i /\ Parent(t)[up] = i
        /\ Tree(q, A) /\ SameLeaves(q, t) /\ Fit(q, i) /\ Fit(q, up)
        /\ Parent(q)[up] = Parent(t)[i]
        /\ \A j \in A : Parent(t)[j] \notin {i, up} /\ j # i => Parent(q)[j] = Parent(t)[j]
        /\ \A j \in A : j \notin {i, up, Parent(t)[i]} =>
             /\ One(q)[j] = One(t)[j] /\ Two(q)[j] = Two(t)[j]
             /\ Height(q)[j] = Height(t)[j] /\ BoxOf(q)[j] = BoxOf(t)[j]
    BY <1>1, <1>4, <1>9, RotateTree
  <2>2. r = Refit(q, up) /\ b.top = up
    BY <1>9, <2>1
  <2> HIDE DEF q, r, up
  <2>3. One(q)[up] # Null
    BY <1>6, <1>9, <2>1 DEF SameLeaves, up
  <2>4. Tree(r, A) /\ SameLeaves(r, q) /\ Refitted(r, q, up) /\ Fit(r, up)
    BY <2>1, <2>2, <2>3, RefitTree
  <2>5. SameLeaves(r, t)
    BY <2>1, <2>4, SameLeavesTwice
  <2>6. Parent(r) = Parent(q) /\ Nodes(q) = Nodes(t)
    BY <2>1, <2>4 DEF Refitted, SameLeaves
  <2>7. \A j \in Q : Parent(r)[j] = Parent(t)[j]
    <3> TAKE j \in Q
    <3>1. Parent(t)[j] # i /\ j # i /\ j \in A
      BY <1>1, <1>4
    <3>2. Parent(t)[j] # up
      BY <1>4, <1>6, <2>1
    <3> QED
      BY <2>1, <2>6, <3>1, <3>2
  <2>8. \A j \in A \ {up} : /\ Height(r)[j] = Height(q)[j] /\ BoxOf(r)[j] = BoxOf(q)[j]
                            /\ One(r)[j] = One(q)[j] /\ Two(r)[j] = Two(q)[j]
    BY <1>6, <2>4, <2>6 DEF Refitted
  <2>9. Fit(r, i)
    <3>1. One(q)[i] # Null => /\ One(q)[i] \in A \ {up} /\ Two(q)[i] \in A \ {up}
      BY <1>1, <2>1, TreeNodes
    <3> QED
      BY <1>1, <2>1, <2>8, <3>1, FitKept
  <2>10. ASSUME NEW j \in A \ Q, j # i, j # up PROVE Fit(r, j)
    <3>1. Fit(t, j) /\ j \in A /\ j \notin P /\ j # above
      BY <1>1, <1>3, <1>6, <2>10
    <3>2. One(t)[j] # Null => /\ One(t)[j] \in A \ {i, up, above} /\ Two(t)[j] \in A \ {i, up, above}
      <4> SUFFICES ASSUME One(t)[j] # Null, NEW c \in {One(t)[j], Two(t)[j]}
                   PROVE  c \in A \ {i, up, above}
        OBVIOUS
      <4>1. c \in A /\ Parent(t)[c] = j
        BY <1>1, <3>1, TreeNodes
      <4>2. c # i /\ c # above
        BY <1>1, <1>3, <1>4, <1>6, <3>1, <4>1
      <4>3. c # up
        BY <2>1, <2>10, <4>1
      <4> QED
        BY <4>1, <4>2, <4>3
    <3>3. \A c \in A \ {i, up, above} : /\ Height(r)[c] = Height(t)[c] /\ BoxOf(r)[c] = BoxOf(t)[c]
                                        /\ One(r)[c] = One(t)[c] /\ Two(r)[c] = Two(t)[c]
      BY <2>1, <2>8
    <3> QED
      BY <2>10, <3>1, <3>2, <3>3, FitKept
  <2> QED
    BY <2>1, <2>2, <2>4, <2>5, <2>6, <2>7, <2>9, <2>10
<1>10. \/ b = [tree |-> t, top |-> i]
       \/ \E side \in {"child1", "child2"} :
              /\ b = Rotate(t, i, side)
              /\ One(t)[t.node[i][side]] # Null
  BY <1>1, <1>4, <1>6, BalanceCases
<1> QED
  BY <1>8, <1>9, <1>10

(* Every inner node has a path up to the root.                             *)
LEMMA PathFrom ==
  ASSUME NEW t, NEW A, Tree(t, A), NEW i \in A, One(t)[i] # Null
  PROVE  \E P \in SUBSET A : Path(t, i, P)
<1>1. PICK d : d \in [A -> Nat] /\ \A j \in A : j # t.root => d[Parent(t)[j]] < d[j]
  BY DEF Tree, Depths
<1> DEFINE Has(j) == \E P \in SUBSET A : Path(t, j, P) /\ \A k \in P : d[k] <= d[j]
           S == {j \in A : One(t)[j] # Null /\ ~ Has(j)}
<1>2. ASSUME S # {} PROVE FALSE
  <2>1. PICK j \in S : \A k \in S : d[j] <= d[k]
    <3>1. S \in SUBSET A
      OBVIOUS
    <3> HIDE DEF S
    <3> QED
      BY <1>1, <1>2, <3>1, Lowest
  <2>2. j \in A /\ One(t)[j] # Null /\ ~ Has(j) /\ d[j] \in Nat /\ j # Null
    BY <1>1, TreeNodes
  <2>3. CASE j = t.root
    <3>1. Parent(t)[j] = Null
      BY <2>2, <2>3, TreeNodes
    <3>2. Path(t, j, {j})
      BY <2>2, <3>1 DEF Path
    <3>3. {j} \in SUBSET A /\ \A k \in {j} : d[k] <= d[j]
      BY <2>2
    <3> QED
      BY <2>2, <3>2, <3>3
  <2>4. CASE j # t.root
    <3> DEFINE p == Parent(t)[j]
    <3>1. p \in A /\ p # Null /\ One(t)[p] # Null /\ d[p] < d[j] /\ d[p] \in Nat
      BY <1>1, <2>2, <2>4, TreeNodes
    <3>2. p \notin S
      BY <1>1, <2>1, <2>2, <3>1
    <3>3. PICK P \in SUBSET A : Path(t, p, P) /\ \A k \in P : d[k] <= d[p]
      BY <3>1, <3>2
    <3>4. \A k \in P : k \in A /\ d[k] \in Nat /\ d[k] < d[j] /\ d[k] <= d[j]
      BY <1>1, <2>2, <3>1, <3>3
    <3>5. \A k \in P : Parent(t)[k] # j /\ Parent(t)[k] # p /\ Parent(t)[k] \in P \cup {Null} /\ One(t)[k] # Null
      BY <2>2, <3>3, <3>4 DEF Path
    <3>6. p \in P
      BY <3>1, <3>3 DEF Path
    <3>7. \A k, m \in P : Parent(t)[k] = Parent(t)[m] => k = m
      BY <3>3 DEF Path
    <3>8. Parent(t)[j] = p /\ p # j
      BY <2>2, TreeNodes
    <3> HIDE DEF p
    <3>9. Path(t, j, P \cup {j})
      BY <2>2, <3>5, <3>6, <3>7, <3>8 DEF Path
    <3>10. (P \cup {j}) \in SUBSET A /\ \A k \in P \cup {j} : d[k] <= d[j]
      BY <2>2, <3>4
    <3> QED
      BY <2>2, <3>9, <3>10
  <2> QED
    BY <2>3, <2>4
<1> QED
  BY <1>2

(* The loop leaves a tree whose nodes are all fit, and the leaves as they  *)
(* were.                                                                   *)
LEMMA WalkUpTree ==
  ASSUME NEW t, NEW A, Tree(t, A), IsFiniteSet(Nodes(t)), NEW i \in A \cup {Null},
         i # Null => One(t)[i] # Null,
         \A j \in A : (i = Null \/ j \notin {i, Parent(t)[i]}) => Fit(t, j)
  PROVE  /\ Tree(WalkUp(t, i), A) /\ SameLeaves(WalkUp(t, i), t)
         /\ \A j \in A : Fit(WalkUp(t, i), j)
<1> DEFINE N == Cardinality(Nodes(t))
           s == Count(N)
           v == Climbing!Values([tree |-> t, at |-> i], s)
           Ahead(n, P) == Walk(v[n].tree, v[n].at, A, P) /\ Cardinality(P) + n <= N
           S == {n \in 0..N : /\ v[n] = [tree |-> v[n].tree, at |-> v[n].at]
                              /\ SameLeaves(v[n].tree, t)
                              /\ \E P \in SUBSET A : Ahead(n, P)}
<1>1. /\ Typed(t) /\ A \subseteq Nodes(t) /\ Null \notin A
  BY TreeNodes
<1>2. N \in Nat /\ IsFiniteSet(A) /\ \A P \in SUBSET A : IsFiniteSet(P) /\ Cardinality(P) \in Nat /\ Cardinality(P) <= N
  <2>1. N \in Nat /\ IsFiniteSet(A)
    BY <1>1, FS_CardinalityType, FS_Subset
  <2>2. ASSUME NEW P \in SUBSET A PROVE IsFiniteSet(P) /\ Cardinality(P) \in Nat /\ Cardinality(P) <= N
    <3>1. P \subseteq Nodes(t)
      BY <1>1
    <3> QED
      BY <3>1, FS_CardinalityType, FS_Subset
  <2> QED
    BY <2>1, <2>2
<1>3. s \in Seq(1..N) /\ Len(s) = N /\ \A n \in 1..N : s[n] = n
  BY <1>2 DEF Count
<1>4. v[0] = [tree |-> t, at |-> i] /\ \A n \in 1..N : v[n] = ClimbStep(v[n - 1], s[n])
  <2>1. Len(s) \in Nat
    BY <1>2, <1>3
  <2> HIDE DEF s
  <2>2. /\ v[0] = [tree |-> t, at |-> i]
        /\ \A n \in 1..Len(s) : v[n] = ClimbStep(v[n - 1], s[n])
    BY <2>1, Climbing!ValuesStep
  <2> QED
    BY <1>3, <2>2
<1>5. WalkUp(t, i) = v[N].tree
  BY <1>3 DEF WalkUp, Climbing!Fold, Nodes
<1> HIDE DEF v, s
<1>6. 0 \in S
  <2>1. \E P \in SUBSET A : Path(t, i, P)
    <3>1. CASE i = Null
      <4>1. Path(t, i, {})
        BY <3>1 DEF Path
      <4> QED
        BY <4>1
    <3>2. CASE i # Null
      BY <3>2, PathFrom
    <3> QED
      BY <3>1, <3>2
  <2>2. PICK P \in SUBSET A : Path(t, i, P)
    BY <2>1
  <2>3. Walk(t, i, A, P)
    <3>1. i \in P \cup {Null}
      BY <2>2 DEF Path
    <3>2. i # Null => i \in P /\ Parent(t)[i] \in P \cup {Null}
      BY <2>2 DEF Path
    <3>3. \A j \in A \ P : Fit(t, j)
      BY <1>1, <3>2
    <3> QED
      BY <2>2, <3>1, <3>3 DEF Walk
  <2>4. SameLeaves(t, t)
    BY DEF SameLeaves
  <2>5. Cardinality(P) + 0 <= N
    BY <1>2
  <2>6. v[0].tree = t /\ v[0].at = i
    BY <1>4
  <2> QED
    BY <1>2, <1>4, <2>3, <2>4, <2>5, <2>6
<1>7. ASSUME NEW n \in 0..N, n # N, n \in S
      PROVE  n + 1 \in S
  <2> DEFINE r == v[n].tree
             at == v[n].at
             w == ClimbStep([tree |-> r, at |-> at], s[n + 1])
  <2>1. /\ v[n] = [tree |-> r, at |-> at] /\ SameLeaves(r, t) /\ n + 1 \in 1..N
        /\ (n + 1) - 1 = n
    BY <1>2, <1>7
  <2>2. v[n + 1] = w
    BY <1>4, <2>1
  <2>3. PICK P \in SUBSET A : Ahead(n, P)
    BY <1>7
  <2>4. CASE at = Null
    <3>1. w = v[n]
      BY <2>1, <2>4 DEF ClimbStep
    <3>2. P = {}
      BY <2>3, <2>4 DEF Walk, Path
    <3>3. Cardinality(P) + (n + 1) <= N
      BY <1>2, <2>1, <3>2, FS_EmptySet
    <3> HIDE DEF w
    <3>4. Ahead(n + 1, P)
      BY <2>2, <2>3, <3>1, <3>3
    <3> QED
      BY <2>1, <2>2, <3>1, <3>4
  <2>5. CASE at # Null
    <3>1. /\ w = [tree |-> w.tree, at |-> w.at]
          /\ Walk(w.tree, w.at, A, P \ {at}) /\ SameLeaves(w.tree, r)
      <4>1. Walk(r, at, A, P)
        BY <2>3
      <4> HIDE DEF r, at
      <4> QED
        BY <2>5, <4>1, ClimbKeeps
    <3>2. at \in P
      BY <2>3, <2>5 DEF Walk
    <3>3. Cardinality(P \ {at}) + (n + 1) <= N
      <4>1. Cardinality(P \ {at}) = Cardinality(P) - 1
        BY <1>2, <3>2, FS_RemoveElement
      <4>2. Cardinality(P) \in Nat /\ Cardinality(P) + n <= N
        BY <1>2, <2>3
      <4> QED
        BY <1>2, <4>1, <4>2
    <3>4. SameLeaves(w.tree, t)
      BY <2>1, <3>1, SameLeavesTwice
    <3> HIDE DEF w, r, at
    <3>5. Ahead(n + 1, P \ {at}) /\ P \ {at} \in SUBSET A
      BY <2>2, <3>1, <3>3
    <3> QED
      BY <2>1, <2>2, <3>1, <3>4, <3>5
  <2> QED
    BY <2>4, <2>5
<1>8. N \in S
  <2> HIDE DEF S
  <2>1. \A n \in 0..N : n # N /\ n \in S => n + 1 \in S
    BY <1>7
  <2>2. \A n \in 0..N : n \in S
    <3> HIDE DEF N
    <3> QED
      BY <1>2, <1>6, <2>1, Climbing!UpTo
  <2> QED
    BY <1>2, <2>2
<1>9. PICK P \in SUBSET A : Ahead(N, P)
  BY <1>8
<1>10. P = {}
  BY <1>2, <1>9, FS_EmptySet
<1> QED
  BY <1>5, <1>8, <1>9, <1>10 DEF Walk

(* The pool: every index is either a node or once in the free list.        *)
Pool(t) ==
  /\ t.capacity \in Nat \ {0}
  /\ t.free \in Seq(Nat)
  /\ \A m, n \in 1..Len(t.free) : t.free[m] = t.free[n] => m = n
  /\ \A m \in 1..Len(t.free) : t.free[m] \notin Nodes(t)
  /\ \A k \in Nat : k < t.capacity <=> (k \in Nodes(t) \/ \E m \in 1..Len(t.free) : t.free[m] = k)
  /\ IsFiniteSet(Nodes(t))
  /\ Len(t.free) + Cardinality(Nodes(t)) = t.capacity

(* A step that leaves nodes, capacity and free list alone keeps the pool.   *)
LEMMA SamePool ==
  ASSUME NEW r, NEW t, Pool(t), Nodes(r) = Nodes(t), r.capacity = t.capacity, r.free = t.free
  PROVE  Pool(r)
BY DEF Pool

(* The pool is as good after it has grown, and then has a free node.        *)
LEMMA GrownPool ==
  ASSUME NEW t, Typed(t), Pool(t)
  PROVE  LET g == Grown(t)
         IN /\ Typed(g) /\ Pool(g) /\ g.node = t.node /\ g.root = t.root
            /\ Len(g.free) > 0
<1> DEFINE g == Grown(t)
           c == t.capacity
<1>1. CASE t.free # <<>>
  <2>1. Len(t.free) > 0
    BY <1>1 DEF Pool
  <2> QED
    BY <1>1, <2>1 DEF Grown
<1>2. CASE t.free = <<>>
  <2>1. c \in Nat \ {0} /\ Len(t.free) = 0 /\ Cardinality(Nodes(t)) = c /\ IsFiniteSet(Nodes(t))
        /\ \A k \in Nat : k < c <=> k \in Nodes(t)
    BY <1>2, FS_CardinalityType DEF Pool
  <2>2. /\ g.node = t.node /\ g.root = t.root /\ g.capacity = 2 * c
        /\ g.free = [i \in 1..c |-> c + i - 1]
        /\ g = [node |-> g.node, root |-> g.root, capacity |-> g.capacity, free |-> g.free]
    BY <1>2 DEF Grown, Typed
  <2> HIDE DEF g
  <2>3. Typed(g) /\ Nodes(g) = Nodes(t)
    BY <2>2 DEF Typed, Nodes
  <2>4. g.free \in Seq(Nat) /\ Len(g.free) = c
    BY <2>1, <2>2, SMTT(30)
  <2>5. \A m \in 1..c : g.free[m] = c + m - 1
    BY <2>2
  <2>6. \A k \in Nat : k < 2 * c <=> (k \in Nodes(g) \/ \E m \in 1..Len(g.free) : g.free[m] = k)
    <3> TAKE k \in Nat
    <3>1. CASE k < c
      BY <2>1, <2>3, <3>1
    <3>2. CASE ~ (k < c) /\ k < 2 * c
      <4>1. k - c + 1 \in 1..c /\ c + (k - c + 1) - 1 = k
        BY <2>1, <3>2
      <4>2. g.free[k - c + 1] = k
        BY <2>5, <4>1
      <4> QED
        BY <2>4, <3>2, <4>1, <4>2
    <3>3. CASE ~ (k < 2 * c)
      BY <2>1, <2>3, <2>4, <2>5, <3>3
    <3> QED
      BY <3>1, <3>2, <3>3
  <2>7. \A m \in 1..c : g.free[m] \notin Nodes(t)
    BY <2>1, <2>5
  <2>8. 2 * c \in Nat \ {0} /\ c + c = 2 * c
    BY <2>1
  <2>10. \A m, o \in 1..c : g.free[m] = g.free[o] => m = o
    <3> TAKE m, o \in 1..c
    <3>1. g.free[m] = c + m - 1 /\ g.free[o] = c + o - 1
      BY <2>5
    <3> QED
      BY <2>1, <3>1
  <2>11. Len(g.free) + Cardinality(Nodes(g)) = g.capacity
    BY <2>1, <2>2, <2>3, <2>4, <2>8
  <2> HIDE DEF c
  <2>9. Pool(g)
    BY <2>10, <2>11, <2>1, <2>2, <2>3, <2>4, <2>5, <2>6, <2>7, <2>8 DEF Pool
  <2> QED
    BY <2>1, <2>2, <2>3, <2>4, <2>9 DEF g
<1> QED
  BY <1>1, <1>2

(* A node is taken from the pool.                                          *)
LEMMA AllocatePool ==
  ASSUME NEW t, Typed(t), Pool(t), NEW n \in Node
  PROVE  LET k == NextNode(t)
             r == AllocateNode(t, n)
         IN /\ k \in Nat /\ k \notin Nodes(t) /\ Typed(r) /\ Pool(r) /\ r.root = t.root
            /\ Nodes(r) = Nodes(t) \cup {k} /\ r.node[k] = n
            /\ \A j \in Nodes(t) : r.node[j] = t.node[j]
<1> DEFINE g == Grown(t)
           k == NextNode(t)
           r == AllocateNode(t, n)
           new == [j \in DOMAIN t.node \cup {k} |-> IF j = k THEN n ELSE t.node[j]]
<1>1. /\ Typed(g) /\ Pool(g) /\ g.node = t.node /\ g.root = t.root /\ Len(g.free) > 0
  BY GrownPool
<1>2. k = Head(g.free)
  BY DEF NextNode
<1>0. r = [g EXCEPT !.free = Tail(@), !.node = new]
  BY DEF AllocateNode
<1> HIDE DEF new
<1>3. /\ r.node = new /\ r.root = t.root /\ r.capacity = g.capacity /\ r.free = Tail(g.free)
      /\ r = [node |-> r.node, root |-> r.root, capacity |-> r.capacity, free |-> r.free]
  <2> HIDE DEF g, r
  <2> QED
    BY <1>0, <1>1 DEF Typed
<1> USE DEF new
<1> HIDE DEF g, k, r
<1>4. Nodes(g) = Nodes(t) /\ DOMAIN t.node = Nodes(t)
  BY <1>1 DEF Nodes
<1>5. g.free \in Seq(Nat) /\ k = g.free[1] /\ Len(g.free) \in Nat /\ 1 \in 1..Len(g.free)
  BY <1>1, <1>2 DEF Pool
<1>6. k \in Nat /\ k \notin Nodes(t)
  BY <1>1, <1>4, <1>5 DEF Pool
<1>7. /\ Nodes(r) = Nodes(t) \cup {k} /\ r.node[k] = n
      /\ \A j \in Nodes(t) : r.node[j] = t.node[j]
  BY <1>3, <1>4, <1>6 DEF Nodes
<1>8. Typed(r)
  <2>1. new \in [DOMAIN new -> Node] /\ DOMAIN new = Nodes(t) \cup {k}
    BY <1>4 DEF Typed
  <2> QED
    BY <1>3, <1>4, <1>6, <2>1 DEF Typed
<1>9. Pool(r)
  <2>1. /\ r.free \in Seq(Nat) /\ Len(r.free) = Len(g.free) - 1
        /\ \A m \in 1..Len(r.free) : r.free[m] = g.free[m + 1] /\ m + 1 \in 1..Len(g.free)
    BY <1>1, <1>3, <1>5
  <2>2. \A m, o \in 1..Len(r.free) : r.free[m] = r.free[o] => m = o
    <3> TAKE m, o \in 1..Len(r.free)
    <3>1. r.free[m] = g.free[m + 1] /\ m + 1 \in 1..Len(g.free) /\ r.free[o] = g.free[o + 1] /\ o + 1 \in 1..Len(g.free)
      BY <2>1
    <3>2. g.free[m + 1] = g.free[o + 1] => m + 1 = o + 1
      BY <1>1, <3>1 DEF Pool
    <3>3. m \in Int /\ o \in Int
      OBVIOUS
    <3> QED
      BY <3>1, <3>2, <3>3
  <2>3. \A m \in 1..Len(r.free) : r.free[m] \notin Nodes(r)
    <3> TAKE m \in 1..Len(r.free)
    <3>1. r.free[m] = g.free[m + 1] /\ m + 1 \in 1..Len(g.free) /\ m + 1 # 1
      BY <2>1
    <3>2. g.free[m + 1] # k /\ g.free[m + 1] \notin Nodes(g)
      BY <1>1, <1>5, <3>1 DEF Pool
    <3> QED
      BY <1>4, <1>7, <3>1, <3>2
  <2>4. ASSUME NEW j \in Nat
        PROVE  j < g.capacity <=> (j \in Nodes(r) \/ \E m \in 1..Len(r.free) : r.free[m] = j)
    <3>1. j < g.capacity <=> (j \in Nodes(t) \/ \E m \in 1..Len(g.free) : g.free[m] = j)
      BY <1>1, <1>4, <2>4 DEF Pool
    <3>2. (\E m \in 1..Len(g.free) : g.free[m] = j) <=> (j = k \/ \E m \in 1..Len(r.free) : r.free[m] = j)
      <4>1. ASSUME NEW m \in 1..Len(g.free), g.free[m] = j, j # k
            PROVE  \E o \in 1..Len(r.free) : r.free[o] = j
        <5>1. m # 1
          BY <1>5, <4>1
        <5>2. m - 1 \in 1..Len(r.free) /\ (m - 1) + 1 = m
          BY <1>5, <2>1, <4>1, <5>1
        <5>3. r.free[m - 1] = j
          BY <2>1, <4>1, <5>2
        <5> QED
          BY <5>2, <5>3
      <4> QED
        BY <1>5, <2>1, <4>1
    <3> QED
      BY <1>7, <3>1, <3>2
  <2>5. IsFiniteSet(Nodes(r)) /\ Cardinality(Nodes(r)) = Cardinality(Nodes(t)) + 1
    <3>1. IsFiniteSet(Nodes(t)) /\ Nodes(r) = Nodes(t) \cup {k} /\ k \notin Nodes(t)
      BY <1>1, <1>4, <1>6, <1>7 DEF Pool
    <3> HIDE DEF new
    <3> QED
      BY <3>1, FS_AddElement
  <2>6. Cardinality(Nodes(t)) \in Nat /\ Len(g.free) + Cardinality(Nodes(t)) = g.capacity /\ g.capacity \in Nat \ {0}
    BY <1>1, <1>4, FS_CardinalityType DEF Pool
  <2>7. Len(r.free) + Cardinality(Nodes(r)) = g.capacity
    BY <1>5, <2>1, <2>5, <2>6
  <2> QED
    BY <1>3, <2>1, <2>2, <2>3, <2>4, <2>5, <2>6, <2>7 DEF Pool
<1> QED
  BY <1>3, <1>6, <1>7, <1>8, <1>9 DEF k, r

(* A node goes back to the pool.                                           *)
LEMMA FreePool ==
  ASSUME NEW t, Typed(t), Pool(t), NEW i \in Nodes(t)
  PROVE  LET r == FreeNode(t, i)
         IN /\ Typed(r) /\ Pool(r) /\ r.root = t.root /\ Nodes(r) = Nodes(t) \ {i}
            /\ \A j \in Nodes(r) : r.node[j] = t.node[j]
<1> DEFINE r == FreeNode(t, i)
           new == [k \in DOMAIN t.node \ {i} |-> t.node[k]]
<1>0. r = [t EXCEPT !.free = <<i>> \o @, !.node = new]
  BY DEF FreeNode
<1> HIDE DEF new
<1>1. /\ r.node = new /\ r.root = t.root /\ r.capacity = t.capacity /\ r.free = <<i>> \o t.free
      /\ r = [node |-> r.node, root |-> r.root, capacity |-> r.capacity, free |-> r.free]
  <2> HIDE DEF r
  <2> QED
    BY <1>0 DEF Typed
<1> USE DEF new
<1> HIDE DEF r
<1>2. DOMAIN t.node = Nodes(t) /\ Nodes(t) \subseteq Nat /\ i \in Nat
  BY TypedNodes DEF Nodes
<1>3. Nodes(r) = Nodes(t) \ {i} /\ \A j \in Nodes(r) : r.node[j] = t.node[j]
  BY <1>1, <1>2 DEF Nodes
<1>4. Typed(r)
  <2>1. new \in [DOMAIN new -> Node] /\ DOMAIN new = Nodes(t) \ {i}
    BY <1>2 DEF Typed
  <2> QED
    BY <1>1, <1>2, <2>1 DEF Typed
<1>5. t.free \in Seq(Nat) /\ Len(t.free) \in Nat
  BY DEF Pool
<1>6. /\ r.free \in Seq(Nat) /\ Len(r.free) = Len(t.free) + 1 /\ r.free[1] = i
      /\ \A m \in 1..Len(r.free) : m # 1 => r.free[m] = t.free[m - 1] /\ m - 1 \in 1..Len(t.free)
      /\ \A m \in 1..Len(t.free) : r.free[m + 1] = t.free[m] /\ m + 1 \in 1..Len(r.free)
  <2>1. <<i>> \in Seq(Nat) /\ Len(<<i>>) = 1 /\ <<i>>[1] = i
    BY <1>2
  <2> QED
    BY <1>1, <1>2, <1>5, <2>1, SMTT(30)
<1>7. Pool(r)
  <2>1. \A m, o \in 1..Len(r.free) : r.free[m] = r.free[o] => m = o
    <3> SUFFICES ASSUME NEW m \in 1..Len(r.free), NEW o \in 1..Len(r.free), r.free[m] = r.free[o], m # 1
                 PROVE  m = o
      BY <1>5, <1>6 DEF Pool
    <3>1. r.free[m] = t.free[m - 1] /\ m - 1 \in 1..Len(t.free)
      BY <1>6
    <3>2. r.free[m] # i
      <4>1. t.free[m - 1] \notin Nodes(t)
        BY <3>1 DEF Pool
      <4> QED
        BY <3>1, <4>1
    <3>3. o # 1
      BY <1>6, <3>2
    <3>4. r.free[o] = t.free[o - 1] /\ o - 1 \in 1..Len(t.free)
      BY <1>6, <3>3
    <3>5. m \in Int /\ o \in Int
      OBVIOUS
    <3>6. \A x, y \in 1..Len(t.free) : t.free[x] = t.free[y] => x = y
      BY DEF Pool
    <3>7. t.free[m - 1] = t.free[o - 1]
      BY <3>1, <3>4
    <3>8. m - 1 = o - 1
      BY <3>1, <3>4, <3>6, <3>7
    <3> QED
      BY <3>5, <3>8
  <2>2. \A m \in 1..Len(r.free) : r.free[m] \notin Nodes(r)
    <3> TAKE m \in 1..Len(r.free)
    <3>1. m # 1 => r.free[m] \notin Nodes(t)
      <4>1. m # 1 => r.free[m] = t.free[m - 1] /\ m - 1 \in 1..Len(t.free)
        BY <1>6
      <4> HIDE DEF new
      <4> QED
        BY <4>1 DEF Pool
    <3> QED
      BY <1>3, <1>6, <3>1
  <2>3. ASSUME NEW j \in Nat
        PROVE  j < t.capacity <=> (j \in Nodes(r) \/ \E m \in 1..Len(r.free) : r.free[m] = j)
    <3>1. j < t.capacity <=> (j \in Nodes(t) \/ \E m \in 1..Len(t.free) : t.free[m] = j)
      BY <2>3 DEF Pool
    <3>2. (\E m \in 1..Len(r.free) : r.free[m] = j) <=> (j = i \/ \E m \in 1..Len(t.free) : t.free[m] = j)
      <4>1. 1 \in 1..Len(r.free) /\ r.free[1] = i
        BY <1>5, <1>6
      <4>2. ASSUME NEW m \in 1..Len(r.free), r.free[m] = j
            PROVE  j = i \/ \E k \in 1..Len(t.free) : t.free[k] = j
        <5>1. m # 1 => m - 1 \in 1..Len(t.free) /\ t.free[m - 1] = j
          BY <1>6, <4>2
        <5> QED
          BY <4>1, <4>2, <5>1
      <4>3. ASSUME NEW m \in 1..Len(t.free), t.free[m] = j
            PROVE  \E k \in 1..Len(r.free) : r.free[k] = j
        <5>1. m + 1 \in 1..Len(r.free) /\ r.free[m + 1] = j
          BY <1>6, <4>3
        <5> QED
          BY <5>1
      <4> QED
        BY <4>1, <4>2, <4>3
    <3> QED
      BY <1>3, <3>1, <3>2
  <2>4. IsFiniteSet(Nodes(r)) /\ Cardinality(Nodes(r)) = Cardinality(Nodes(t)) - 1
    BY <1>3, FS_RemoveElement DEF Pool
  <2>5. Cardinality(Nodes(t)) \in Nat /\ Len(t.free) + Cardinality(Nodes(t)) = t.capacity /\ t.capacity \in Nat \ {0}
    BY FS_CardinalityType DEF Pool
  <2>6. Len(r.free) + Cardinality(Nodes(r)) = t.capacity
    BY <1>5, <1>6, <2>4, <2>5
  <2> QED
    BY <1>1, <1>6, <2>1, <2>2, <2>3, <2>4, <2>5, <2>6 DEF Pool
<1> QED
  BY <1>1, <1>3, <1>4, <1>7 DEF r

(* The leaves are the same: those without a first child.                   *)
SameEnds(N, L2, L) == \A j \in N : L2[j] = Null <=> L[j] = Null
(* Every node has a finite depth.                                           *)
Acyclic(P, A, root) == \E d : Depths(P, A, root, d)

(* The links before and after a leaf is joined to sib under a new node p.  *)
Join(N, A, root, P, L, R, d, sib, leaf, p, root2, P2, L2, R2) ==
  /\ N \subseteq Nat /\ A \subseteq N /\ leaf \in N \ A /\ p \in Nat \ N
  /\ P \in [N -> Ids] /\ L \in [N -> Ids] /\ R \in [N -> Ids]
  /\ Links(root, P, L, R, A) /\ Depths(P, A, root, d)
  /\ sib \in A /\ L[leaf] = Null /\ R[leaf] = Null
  /\ root2 = IF P[sib] = Null THEN p ELSE root
  /\ \A j \in N : /\ P2[j] = IF j \in {sib, leaf} THEN p ELSE P[j]
                  /\ L2[j] = IF j = P[sib] /\ L[j] = sib THEN p ELSE L[j]
                  /\ R2[j] = IF j = P[sib] /\ L[j] # sib THEN p ELSE R[j]
  /\ P2[p] = P[sib] /\ L2[p] = sib /\ R2[p] = leaf

(* The links after the insertion are those of a tree, with the leaf in it.  *)
LEMMA JoinedLinks ==
  ASSUME NEW N, NEW A, NEW root, NEW P, NEW L, NEW R, NEW d, NEW sib, NEW leaf, NEW p,
         NEW root2, NEW P2, NEW L2, NEW R2,
         Join(N, A, root, P, L, R, d, sib, leaf, p, root2, P2, L2, R2)
  PROVE  /\ Links(root2, P2, L2, R2, A \cup {leaf, p})
         /\ Acyclic(P2, A \cup {leaf, p}, root2)
         /\ SameEnds(N, L2, L)
<1>1. /\ N \subseteq Nat /\ A \subseteq N /\ leaf \in N /\ leaf \notin A /\ p \in Nat /\ p \notin N
      /\ P \in [N -> Ids] /\ L \in [N -> Ids] /\ R \in [N -> Ids]
      /\ Links(root, P, L, R, A) /\ Depths(P, A, root, d)
      /\ sib \in A /\ L[leaf] = Null /\ R[leaf] = Null
      /\ root2 = IF P[sib] = Null THEN p ELSE root
      /\ P2[p] = P[sib] /\ L2[p] = sib /\ R2[p] = leaf /\ Null \notin N /\ p # Null
  BY DEF Join, Null
<1>2. \A j \in N : /\ P2[j] = IF j \in {sib, leaf} THEN p ELSE P[j]
                   /\ L2[j] = IF j = P[sib] /\ L[j] = sib THEN p ELSE L[j]
                   /\ R2[j] = IF j = P[sib] /\ L[j] # sib THEN p ELSE R[j]
  BY DEF Join
<1>3. /\ root \in A /\ P[root] = Null
      /\ \A i \in A : i # root => P[i] \in A /\ (i = L[P[i]] \/ i = R[P[i]])
      /\ \A i \in A : L[i] # Null => /\ L[i] \in A /\ R[i] \in A /\ L[i] # R[i]
                                     /\ P[L[i]] = i /\ P[R[i]] = i
      /\ \A i \in A : L[i] = Null => R[i] = Null
  BY <1>1 DEF Links
<1>4. d \in [A -> Nat] /\ \A i \in A : i # root => d[P[i]] < d[i]
  BY <1>1 DEF Depths
<1> DEFINE B == A \cup {leaf, p}
<1>5. \A i \in A : P[i] = Null <=> i = root
  BY <1>1, <1>3
<1>6. root2 \in B /\ P2[root2] = Null
  <2>1. CASE P[sib] = Null
    BY <1>1, <2>1
  <2>2. CASE P[sib] # Null
    BY <1>1, <1>2, <1>3, <2>2
  <2> QED
    BY <2>1, <2>2
<1>7. ASSUME NEW i \in B, i # root2
      PROVE  P2[i] \in B /\ (i = L2[P2[i]] \/ i = R2[P2[i]])
  <2>1. CASE i = p
    <3>1. P[sib] # Null /\ P[sib] \in A /\ (sib = L[P[sib]] \/ sib = R[P[sib]])
      BY <1>1, <1>3, <1>7, <2>1
    <3> QED
      BY <1>1, <1>2, <2>1, <3>1
  <2>2. CASE i \in {leaf, sib}
    BY <1>1, <1>2, <2>2
  <2>3. CASE i \in A /\ i # sib
    <3>1. i # root
      BY <1>1, <1>3, <1>5, <1>7, <2>3
    <3>2. P[i] \in A /\ (i = L[P[i]] \/ i = R[P[i]]) /\ P2[i] = P[i]
      BY <1>1, <1>2, <1>3, <2>3, <3>1
    <3>3. CASE i = L[P[i]]
      <4>1. L2[P[i]] = L[P[i]]
        BY <1>1, <1>2, <2>3, <3>2, <3>3
      <4> QED
        BY <3>2, <3>3, <4>1
    <3>4. CASE i = R[P[i]]
      <4>1. P[i] = P[sib] => sib = L[P[i]]
        <5> SUFFICES ASSUME P[i] = P[sib] PROVE sib = L[P[i]]
          OBVIOUS
        <5>1. sib # root
          BY <1>1, <1>5, <2>3, <3>1
        <5>2. sib = L[P[sib]] \/ sib = R[P[sib]]
          BY <1>1, <1>3, <5>1
        <5> QED
          BY <2>3, <3>4, <5>2
      <4>2. R2[P[i]] = R[P[i]]
        BY <1>1, <1>2, <3>2, <4>1
      <4> QED
        BY <3>2, <3>4, <4>2
    <3> QED
      BY <3>2, <3>3, <3>4
  <2> QED
    BY <2>1, <2>2, <2>3
<1>8. ASSUME NEW i \in B, L2[i] # Null
      PROVE  L2[i] \in B /\ R2[i] \in B /\ L2[i] # R2[i] /\ P2[L2[i]] = i /\ P2[R2[i]] = i
  <2>1. CASE i = p
    BY <1>1, <1>2, <2>1
  <2>2. CASE i = leaf
    <3>1. P[sib] # leaf
      BY <1>1, <1>3, <1>5
    <3> QED
      BY <1>1, <1>2, <1>8, <2>2, <3>1
  <2>3. CASE i \in A /\ i # P[sib]
    <3>1. L2[i] = L[i] /\ R2[i] = R[i]
      BY <1>1, <1>2, <2>3
    <3>2. L[i] # sib /\ R[i] # sib /\ L[i] \in A /\ R[i] \in A /\ L[i] # R[i] /\ P[L[i]] = i /\ P[R[i]] = i
      BY <1>3, <1>8, <2>3, <3>1
    <3> QED
      BY <1>1, <1>2, <3>1, <3>2
  <2>4. CASE i \in A /\ i = P[sib]
    <3>1. sib # root
      BY <1>1, <1>3, <2>4
    <3>2. sib = L[i] \/ sib = R[i]
      BY <1>1, <1>3, <2>4, <3>1
    <3>3. L[i] # Null
      BY <1>1, <1>3, <2>4, <3>2
    <3>4. L[i] \in A /\ R[i] \in A /\ L[i] # R[i] /\ P[L[i]] = i /\ P[R[i]] = i
      BY <1>3, <2>4, <3>3
    <3>5. CASE sib = L[i]
      <4>1. L2[i] = p /\ R2[i] = R[i] /\ R[i] # sib
        BY <1>1, <1>2, <2>4, <3>4, <3>5
      <4>2. P2[R[i]] = i /\ R[i] # p
        BY <1>1, <1>2, <3>4, <4>1
      <4> QED
        BY <1>1, <2>4, <3>4, <4>1, <4>2
    <3>6. CASE sib # L[i]
      <4>1. R2[i] = p /\ L2[i] = L[i] /\ L[i] # sib
        BY <1>1, <1>2, <2>4, <3>4, <3>6
      <4>2. P2[L[i]] = i /\ L[i] # p
        BY <1>1, <1>2, <3>4, <4>1
      <4> QED
        BY <1>1, <2>4, <3>4, <4>1, <4>2
    <3> QED
      BY <3>5, <3>6
  <2> QED
    BY <2>1, <2>2, <2>3, <2>4
<1>9. ASSUME NEW i \in N PROVE L2[i] = Null <=> L[i] = Null
  <2>1. L[i] = sib => L[i] # Null
    BY <1>1
  <2> QED
    BY <1>1, <1>2, <2>1
<1>10. ASSUME NEW i \in B, L2[i] = Null PROVE R2[i] = Null
  <2>1. i # p /\ i \in N /\ L[i] = Null
    BY <1>1, <1>2, <1>9, <1>10
  <2>2. i = P[sib] => i \in A /\ sib # root
    BY <1>1, <1>3, <2>1
  <2>3. i # P[sib]
    <3> SUFFICES ASSUME i = P[sib] PROVE FALSE
      OBVIOUS
    <3>1. sib = L[i] \/ sib = R[i]
      BY <1>1, <1>3, <2>2
    <3> QED
      BY <1>1, <1>3, <2>1, <2>2, <3>1
  <2>4. R[i] = Null
    BY <1>1, <1>3, <2>1
  <2> QED
    BY <1>2, <2>1, <2>3, <2>4
<1>11. Links(root2, P2, L2, R2, B)
  BY <1>1, <1>6, <1>7, <1>8, <1>10 DEF Links
<1>12. \E e : Depths(P2, B, root2, e)
  <2> DEFINE e == [i \in B |-> IF i = p THEN 2 * d[sib] ELSE IF i = leaf THEN 2 * d[sib] + 1 ELSE 2 * d[i] + 1]
  <2>1. e \in [B -> Nat]
    BY <1>1, <1>4
  <2>2. ASSUME NEW i \in B, i # root2 PROVE e[P2[i]] < e[i]
    <3>0. /\ e[p] = 2 * d[sib] /\ e[leaf] = 2 * d[sib] + 1 /\ d[sib] \in Nat
          /\ \A j \in A : e[j] = 2 * d[j] + 1 /\ d[j] \in Nat
      BY <1>1, <1>4
    <3> HIDE DEF e
    <3>1. CASE i = p
      <4>1. sib # root /\ P[sib] \in A
        BY <1>1, <1>3, <1>5, <2>2, <3>1
      <4>2. d[P[sib]] < d[sib]
        BY <1>1, <1>4, <4>1
      <4>3. e[P2[i]] = 2 * d[P[sib]] + 1 /\ d[P[sib]] \in Nat
        BY <1>1, <3>0, <3>1, <4>1
      <4> QED
        BY <3>0, <3>1, <4>2, <4>3
    <3>2. CASE i \in {leaf, sib}
      BY <1>1, <1>2, <3>0, <3>2
    <3>3. CASE i \in A /\ i # sib
      <4>1. i # root
        BY <1>1, <1>3, <1>5, <2>2, <3>3
      <4>2. P2[i] = P[i] /\ P[i] \in A /\ d[P[i]] < d[i]
        BY <1>1, <1>2, <1>3, <1>4, <3>3, <4>1
      <4>3. e[i] = 2 * d[i] + 1 /\ e[P[i]] = 2 * d[P[i]] + 1 /\ d[i] \in Nat /\ d[P[i]] \in Nat
        BY <3>0, <3>3, <4>2
      <4> QED
        BY <4>2, <4>3
    <3> QED
      BY <3>1, <3>2, <3>3
  <2> HIDE DEF e
  <2> QED
    BY <2>1, <2>2 DEF Depths
<1> QED
  BY <1>9, <1>11, <1>12 DEF SameEnds, Acyclic

(* The links before and after a leaf and its parent are taken out.         *)
Splice(A, root, P, L, R, d, leaf, sib, root2, P2, L2, R2) ==
  /\ A \subseteq Nat /\ Links(root, P, L, R, A) /\ Depths(P, A, root, d)
  /\ leaf \in A /\ leaf # root /\ L[leaf] = Null
  /\ sib = IF L[P[leaf]] = leaf THEN R[P[leaf]] ELSE L[P[leaf]]
  /\ root2 = IF P[P[leaf]] = Null THEN sib ELSE root
  /\ \A j \in A \ {leaf, P[leaf]} :
       /\ P2[j] = IF j = sib THEN P[P[leaf]] ELSE P[j]
       /\ L2[j] = IF j = P[P[leaf]] /\ L[j] = P[leaf] THEN sib ELSE L[j]
       /\ R2[j] = IF j = P[P[leaf]] /\ L[j] # P[leaf] THEN sib ELSE R[j]

(* The links after the removal are those of a tree, without the leaf and    *)
(* its parent.                                                              *)
LEMMA SplicedLinks ==
  ASSUME NEW A, NEW root, NEW P, NEW L, NEW R, NEW d, NEW leaf, NEW sib,
         NEW root2, NEW P2, NEW L2, NEW R2,
         Splice(A, root, P, L, R, d, leaf, sib, root2, P2, L2, R2)
  PROVE  LET B == A \ {leaf, P[leaf]}
         IN /\ Links(root2, P2, L2, R2, B)
            /\ Acyclic(P2, B, root2)
            /\ SameEnds(B, L2, L)
<1> DEFINE B == A \ {leaf, P[leaf]}
           par == P[leaf]
           gr == P[P[leaf]]
<1>1. /\ A \subseteq Nat /\ Null \notin A /\ leaf \in A /\ leaf # root /\ L[leaf] = Null
      /\ sib = IF L[par] = leaf THEN R[par] ELSE L[par]
      /\ root2 = IF gr = Null THEN sib ELSE root
      /\ Links(root, P, L, R, A) /\ Depths(P, A, root, d)
  BY DEF Splice, Null
<1>2. \A j \in B :
       /\ P2[j] = IF j = sib THEN gr ELSE P[j]
       /\ L2[j] = IF j = gr /\ L[j] = par THEN sib ELSE L[j]
       /\ R2[j] = IF j = gr /\ L[j] # par THEN sib ELSE R[j]
  BY DEF Splice
<1>3. /\ root \in A /\ P[root] = Null
      /\ \A i \in A : i # root => P[i] \in A /\ (i = L[P[i]] \/ i = R[P[i]])
      /\ \A i \in A : L[i] # Null => /\ L[i] \in A /\ R[i] \in A /\ L[i] # R[i]
                                     /\ P[L[i]] = i /\ P[R[i]] = i
      /\ \A i \in A : L[i] = Null => R[i] = Null
  BY <1>1 DEF Links
<1>4. d \in [A -> Nat] /\ \A i \in A : i # root => d[P[i]] < d[i]
  BY <1>1 DEF Depths
<1>5. \A i \in A : P[i] = Null <=> i = root
  BY <1>1, <1>3
<1>6. /\ par \in A /\ L[par] # Null /\ par # leaf /\ sib \in A /\ sib # leaf /\ P[sib] = par
      /\ {leaf, sib} = {L[par], R[par]}
  <2>1. par \in A /\ (leaf = L[par] \/ leaf = R[par])
    BY <1>1, <1>3
  <2>2. L[par] # Null
    <3>1. L[par] = Null => R[par] = Null
      BY <1>3, <2>1
    <3>2. leaf # Null
      BY <1>1
    <3> QED
      BY <2>1, <3>1, <3>2
  <2>3. L[par] \in A /\ R[par] \in A /\ L[par] # R[par] /\ P[L[par]] = par /\ P[R[par]] = par
    BY <1>3, <2>1, <2>2
  <2> QED
    BY <1>1, <2>1, <2>2, <2>3
<1>7. sib # par /\ sib \in B
  <2>1. sib # root
    BY <1>1, <1>3, <1>6
  <2>2. d[par] < d[sib] /\ d[par] \in Nat
    BY <1>4, <1>6, <2>1
  <2> QED
    BY <1>6, <2>2
<1>8. gr # Null => gr \in B /\ gr # sib /\ par # root
  <2> SUFFICES ASSUME gr # Null PROVE gr \in B /\ gr # sib /\ par # root
    OBVIOUS
  <2>1. par # root /\ gr \in A /\ (par = L[gr] \/ par = R[gr])
    BY <1>3, <1>6
  <2>2. d[gr] < d[par] /\ d[par] < d[sib] /\ d[gr] \in Nat /\ d[par] \in Nat /\ d[sib] \in Nat
    <3>1. sib # root
      BY <1>1, <1>3, <1>6
    <3>2. d[gr] < d[par]
      BY <1>4, <1>6, <2>1
    <3>3. d[par] < d[sib]
      BY <1>4, <1>6, <3>1
    <3> QED
      BY <1>4, <1>6, <2>1, <3>2, <3>3
  <2>3. gr # leaf
    BY <1>1, <1>3, <1>6, <2>1
  <2> QED
    BY <2>1, <2>2, <2>3
<1>9. root2 \in B /\ P2[root2] = Null
  <2>1. CASE gr = Null
    BY <1>1, <1>2, <1>7, <2>1
  <2>2. CASE gr # Null
    <3>1. root \in B /\ root # sib
      BY <1>1, <1>3, <1>6, <1>8, <2>2
    <3> QED
      BY <1>1, <1>2, <1>3, <2>2, <3>1
  <2> QED
    BY <2>1, <2>2
<1>10. ASSUME NEW i \in B, i # root2
       PROVE  P2[i] \in B /\ (i = L2[P2[i]] \/ i = R2[P2[i]])
  <2>1. CASE i = sib
    <3>1. gr # Null
      BY <1>1, <1>10, <2>1
    <3>2. par = L[gr] \/ par = R[gr]
      BY <1>3, <1>6, <1>8, <3>1
    <3> QED
      BY <1>2, <1>7, <1>8, <2>1, <3>1, <3>2
  <2>2. CASE i # sib
    <3>1. i # root
      <4>1. CASE gr = Null
        BY <1>5, <1>6, <4>1
      <4>2. CASE gr # Null
        BY <1>1, <1>10, <4>2
      <4> QED
        BY <4>1, <4>2
    <3>2. P2[i] = P[i] /\ P[i] \in A /\ (i = L[P[i]] \/ i = R[P[i]])
      BY <1>2, <1>3, <2>2, <3>1
    <3>3. P[i] # par
      BY <1>6, <2>2, <3>2
    <3>4. P[i] # leaf
      BY <1>1, <1>3, <3>2
    <3>5. P[i] \in B
      BY <3>2, <3>3, <3>4
    <3>6. i # par /\ L[P[i]] # Null
      <4>1. i \in A /\ i # par /\ i # Null
        BY <1>1
      <4>2. L[P[i]] = Null => R[P[i]] = Null
        BY <1>3, <3>2
      <4> QED
        BY <3>2, <4>1, <4>2
    <3>7. L[P[i]] # R[P[i]]
      BY <1>3, <3>2, <3>6
    <3>8. CASE i = L[P[i]]
      <4>1. L2[P[i]] = L[P[i]]
        BY <1>2, <3>5, <3>6, <3>8
      <4> QED
        BY <3>2, <3>5, <3>8, <4>1
    <3>9. CASE i = R[P[i]]
      <4>1. P[i] = gr => par = L[P[i]]
        <5> SUFFICES ASSUME P[i] = gr PROVE par = L[P[i]]
          OBVIOUS
        <5>1. gr # Null
          BY <1>1, <3>2
        <5>2. par = L[gr] \/ par = R[gr]
          BY <1>3, <1>6, <1>8, <5>1
        <5> QED
          BY <3>6, <3>9, <5>2
      <4>2. R2[P[i]] = R[P[i]]
        BY <1>2, <3>5, <4>1
      <4> QED
        BY <3>2, <3>5, <3>9, <4>2
    <3> QED
      BY <3>2, <3>8, <3>9
  <2> QED
    BY <2>1, <2>2
<1>11. ASSUME NEW i \in B, L[i] # Null
       PROVE  /\ L2[i] # Null /\ L2[i] \in B /\ R2[i] \in B /\ L2[i] # R2[i]
              /\ P2[L2[i]] = i /\ P2[R2[i]] = i
  <2>1. L[i] \in A /\ R[i] \in A /\ L[i] # R[i] /\ P[L[i]] = i /\ P[R[i]] = i
    BY <1>3, <1>11
  <2>2. i # par /\ i # leaf /\ L[i] # leaf /\ R[i] # leaf /\ L[i] # sib /\ R[i] # sib
    BY <1>6, <2>1
  <2>3. CASE i = gr
    <3>1. par = L[i] \/ par = R[i]
      BY <1>1, <1>3, <1>6, <1>8, <2>3
    <3>2. CASE par = L[i]
      <4>1. L2[i] = sib /\ R2[i] = R[i] /\ R[i] \in B
        BY <1>2, <2>1, <2>2, <2>3, <3>2
      <4> QED
        BY <1>1, <1>2, <1>7, <2>1, <2>2, <2>3, <4>1
    <3>3. CASE par # L[i]
      <4>1. R2[i] = sib /\ L2[i] = L[i] /\ L[i] \in B
        BY <1>2, <2>1, <2>2, <2>3, <3>3
      <4> QED
        BY <1>1, <1>2, <1>7, <2>1, <2>2, <2>3, <4>1
    <3> QED
      BY <3>2, <3>3
  <2>4. CASE i # gr
    <3>1. L2[i] = L[i] /\ R2[i] = R[i]
      BY <1>2, <2>4
    <3>2. L[i] \in B /\ R[i] \in B
      BY <2>1, <2>2, <2>4
    <3> QED
      BY <1>2, <1>11, <2>1, <2>2, <3>1, <3>2
  <2> QED
    BY <2>3, <2>4
<1>12. ASSUME NEW i \in B, L[i] = Null
       PROVE  L2[i] = Null /\ R2[i] = Null
  <2>1. R[i] = Null
    BY <1>3, <1>12
  <2>2. i # gr
    <3> SUFFICES ASSUME i = gr PROVE FALSE
      OBVIOUS
    <3>1. par # root
      BY <1>1, <1>3, <1>5, <1>6
    <3>2. par = L[i] \/ par = R[i]
      BY <1>3, <1>6, <3>1
    <3> QED
      BY <1>1, <1>6, <1>12, <2>1, <3>2
  <2> QED
    BY <1>2, <1>12, <2>1, <2>2
<1>13. Links(root2, P2, L2, R2, B)
  <2>1. root2 # Null
    BY <1>1, <1>9
  <2> HIDE DEF B
  <2> QED
    BY <2>1, <1>9, <1>10, <1>11, <1>12 DEF Links
<1>14. \E e : Depths(P2, B, root2, e)
  <2> DEFINE e == [i \in B |-> d[i]]
  <2>1. e \in [B -> Nat] /\ \A i \in B : e[i] = d[i] /\ d[i] \in Nat
    BY <1>4
  <2> HIDE DEF e
  <2>2. ASSUME NEW i \in B, i # root2 PROVE e[P2[i]] < e[i]
    <3>1. P2[i] \in B
      BY <1>10, <2>2
    <3>2. CASE i = sib
      <4>1. P2[i] = gr /\ gr # Null /\ P[i] = par
        BY <1>1, <1>2, <1>6, <2>2, <3>2
      <4>2. par # root /\ sib # root
        BY <1>3, <1>5, <1>6, <1>8, <4>1
      <4>3. d[gr] < d[par] /\ d[par] < d[sib] /\ d[par] \in Nat
        BY <1>4, <1>6, <4>2
      <4> QED
        BY <2>1, <3>1, <3>2, <4>1, <4>3
    <3>3. CASE i # sib
      <4>1. P2[i] = P[i]
        BY <1>2, <3>3
      <4>2. i # root
        BY <1>1, <1>3, <3>1, <4>1
      <4> QED
        BY <1>4, <2>1, <3>1, <4>1, <4>2
    <3> QED
      BY <3>2, <3>3
  <2> QED
    BY <2>1, <2>2 DEF Depths
<1> QED
  BY <1>11, <1>12, <1>13, <1>14 DEF SameEnds, Acyclic

(* What the tree stands for: its leaves and their boxes.                    *)
Leaves(t) == {i \in Nodes(t) : One(t)[i] = Null}
Boxes(t) == [i \in Leaves(t) |-> BoxOf(t)[i]]

(* A tree of the nodes of A: what is in the pool besides is detached.      *)
Sound(t, A) == Tree(t, A) /\ Pool(t) /\ \A i \in Nodes(t) : Fit(t, i)

(* A step that keeps the leaves keeps what the tree stands for.             *)
LEMMA SameBoxes ==
  ASSUME NEW r, NEW t, SameLeaves(r, t)
  PROVE  Leaves(r) = Leaves(t) /\ Boxes(r) = Boxes(t)
<1>1. Leaves(r) = Leaves(t)
  BY DEF SameLeaves, Leaves
<1>2. \A i \in Leaves(t) : BoxOf(r)[i] = BoxOf(t)[i]
  BY DEF SameLeaves, Leaves
<1> QED
  BY <1>1, <1>2 DEF Boxes

(* The sibling is a node of the tree, whatever the costs.                  *)
LEMMA BestSiblingInTree ==
  ASSUME NEW t, NEW A, Tree(t, A), t.root \in A, NEW box
  PROVE  BestSibling(t, box) \in A
<1> DEFINE At(a) == [tree |-> t, box |-> box, at |-> a]
           Inv == {At(a) : a \in A}
           h == t.node[t.root].height
           s == Count(h)
<1>1. Typed(t) /\ A \subseteq Nodes(t)
  BY TreeNodes
<1>2. h \in Nat
  BY <1>1 DEF Typed, Node, Nodes
<1>3. s \in Seq(1..h)
  BY <1>2 DEF Count
<1>4. \A w \in Inv, k \in 1..h : DescendStep(w, k) \in Inv
  <2> TAKE w \in Inv, k \in 1..h
  <2>1. PICK a \in A : w = At(a)
    OBVIOUS
  <2>2. t.node[a].child1 = One(t)[a] /\ t.node[a].child2 = Two(t)[a]
    BY <1>1 DEF One, Two
  <2>3. One(t)[a] # Null => One(t)[a] \in A /\ Two(t)[a] \in A
    BY TreeNodes
  <2>4. DescendStep(w, k) = w \/ \E c \in {One(t)[a], Two(t)[a]} : t.node[a].child1 # Null /\ DescendStep(w, k) = At(c)
    BY <2>1, <2>2 DEF DescendStep, IsLeaf
  <2> QED
    BY <2>2, <2>3, <2>4
<1>5. At(t.root) \in Inv
  OBVIOUS
<1>6. Descending!Fold(At(t.root), s) \in Inv
  <2> DEFINE base == At(t.root)
             T == 1..h
  <2>1. s \in Seq(T) /\ base \in Inv /\ \A w \in Inv, k \in T : DescendStep(w, k) \in Inv
    BY <1>3, <1>4, <1>5
  <2> HIDE DEF s, Inv, base, T
  <2>2. Descending!Fold(base, s) \in Inv
    BY <2>1, Descending!FoldInvariant
  <2> QED
    BY <2>2 DEF base
<1> HIDE DEF s
<1>7. BestSibling(t, box) = Descending!Fold(At(t.root), s).at
  BY DEF BestSibling, s
<1>8. PICK a \in A : Descending!Fold(At(t.root), s) = At(a)
  BY <1>6
<1> QED
  BY <1>7, <1>8

(* A node is the record of its fields.                                      *)
LEMMA NodeOf ==
  ASSUME NEW t, NEW i \in Nodes(t)
  PROVE  /\ t.node[i].parent = Parent(t)[i] /\ t.node[i].child1 = One(t)[i]
         /\ t.node[i].child2 = Two(t)[i] /\ t.node[i].height = Height(t)[i]
         /\ t.node[i].box = BoxOf(t)[i]
BY DEF Parent, One, Two, Height, BoxOf

(* The first leaf of a tree.                                               *)
LEMMA InsertFirst ==
  ASSUME NEW t, NEW leaf, Sound(t, {}), Nodes(t) = {leaf}
  PROVE  LET r == SetParent([t EXCEPT !.root = leaf], leaf, Null)
         IN Sound(r, Nodes(r)) /\ SameLeaves(r, t)
<1> DEFINE q == [t EXCEPT !.root = leaf]
           r == SetParent(q, leaf, Null)
<1>1. Typed(t) /\ leaf \in Nodes(t) /\ leaf \in Nat /\ Null \in Ids /\ leaf \in Ids /\ leaf # Null
  BY TypedNodes DEF Sound, Tree, Ids, Null
<1>2. /\ q.node = t.node /\ q.root = leaf /\ q.capacity = t.capacity /\ q.free = t.free
      /\ q = [node |-> q.node, root |-> q.root, capacity |-> q.capacity, free |-> q.free]
  BY <1>1 DEF Typed
<1> HIDE DEF q
<1>3. Typed(q)
  BY <1>1, <1>2 DEF Typed
<1>4. /\ Nodes(q) = Nodes(t) /\ Parent(q) = Parent(t) /\ One(q) = One(t) /\ Two(q) = Two(t)
      /\ Height(q) = Height(t) /\ BoxOf(q) = BoxOf(t)
  BY <1>2 DEF Nodes, Parent, One, Two, Height, BoxOf
<1>5. /\ Relinked(r, q) /\ r.root = q.root
      /\ Parent(r) = [Parent(q) EXCEPT ![leaf] = Null] /\ One(r) = One(q) /\ Two(r) = Two(q)
  BY <1>1, <1>3, <1>4, SetParentLinks
<1> HIDE DEF r
<1>6. /\ Typed(r) /\ Nodes(r) = {leaf} /\ r.root = leaf /\ One(r) = One(t) /\ Two(r) = Two(t)
      /\ Height(r) = Height(t) /\ BoxOf(r) = BoxOf(t) /\ r.capacity = t.capacity /\ r.free = t.free
      /\ Parent(r)[leaf] = Null
  BY <1>1, <1>2, <1>4, <1>5, TypedNodes DEF Relinked
<1>7. One(t)[leaf] = Null /\ Two(t)[leaf] = Null
  BY <1>1 DEF Sound, Tree
<1>8. Links(r.root, Parent(r), One(r), Two(r), {leaf})
  BY <1>1, <1>6, <1>7 DEF Links
<1>9. Depths(Parent(r), {leaf}, r.root, [j \in {leaf} |-> 0])
  BY <1>6 DEF Depths
<1>10. Tree(r, {leaf})
  BY <1>6, <1>8, <1>9 DEF Tree
<1>11. Pool(r)
  BY <1>6, SamePool DEF Sound
<1>12. \A i \in Nodes(r) : Fit(r, i)
  BY <1>1, <1>6, <1>7 DEF Sound, Fit
<1>13. SameLeaves(r, t)
  BY <1>6 DEF SameLeaves
<1> QED
  BY <1>6, <1>10, <1>11, <1>12, <1>13 DEF Sound, r, q

(* The links of a tree to which a leaf was joined, before the walk up.     *)
LEMMA JoinedTree ==
  ASSUME NEW t, NEW A, NEW leaf, Sound(t, A), leaf \notin A, Nodes(t) = A \cup {leaf},
         NEW sib \in A, NEW n, n \in Node,
         n.parent = Parent(t)[sib], n.child1 = sib, n.child2 = leaf
  PROVE  LET p == NextNode(t)
             join == AllocateNode(t, n)
             r == SetParent(SetParent(Redirect(join, Parent(t)[sib], sib, p), sib, p), leaf, p)
         IN /\ p \in Nat /\ p \notin Nodes(t) /\ Nodes(r) = Nodes(t) \cup {p} /\ Pool(r)
            /\ Tree(r, Nodes(r)) /\ One(r)[p] # Null /\ Parent(r)[p] = Parent(t)[sib]
            /\ \A j \in Nodes(r) : j \notin {p, Parent(r)[p]} => Fit(r, j)
            /\ Leaves(r) = Leaves(t) /\ Boxes(r) = Boxes(t)
<1> DEFINE p == NextNode(t)
           old == Parent(t)[sib]
           q1 == AllocateNode(t, n)
           q2 == Redirect(q1, old, sib, p)
           q3 == SetParent(q2, sib, p)
           r == SetParent(q3, leaf, p)
           N == Nodes(t)
<1>1. /\ Typed(t) /\ Pool(t) /\ A \subseteq N /\ N \subseteq Nat /\ Null \notin N /\ Tree(t, A)
      /\ Parent(t) \in [N -> Ids] /\ One(t) \in [N -> Ids] /\ Two(t) \in [N -> Ids]
      /\ leaf \in N /\ sib \in N /\ leaf # sib
  BY TypedNodes DEF Sound, Tree
<1>2. /\ p \in Nat /\ p \notin N /\ Typed(q1) /\ Pool(q1) /\ q1.root = t.root
      /\ Nodes(q1) = N \cup {p} /\ q1.node[p] = n
      /\ \A j \in N : q1.node[j] = t.node[j]
  BY <1>1, AllocatePool
<1> HIDE DEF p, q1
<1>3. /\ Parent(q1)[p] = old /\ One(q1)[p] = sib /\ Two(q1)[p] = leaf
      /\ \A j \in N : /\ Parent(q1)[j] = Parent(t)[j] /\ One(q1)[j] = One(t)[j] /\ Two(q1)[j] = Two(t)[j]
                       /\ Height(q1)[j] = Height(t)[j] /\ BoxOf(q1)[j] = BoxOf(t)[j]
  BY <1>1, <1>2 DEF Parent, One, Two, Height, BoxOf
<1>4. old \in A \cup {Null} /\ p \in Ids /\ old \in Nodes(q1) \cup {Null} /\ old # p
  <2>1. old \in A \cup {Null}
    BY <1>1, TreeNodes
  <2> HIDE DEF old
  <2>2. p # Null
    BY <1>2 DEF Null
  <2> QED
    BY <1>1, <1>2, <2>1, <2>2 DEF Ids
<1>5. /\ Relinked(q2, q1) /\ Parent(q2) = Parent(q1)
      /\ old = Null => q2.root = p /\ One(q2) = One(q1) /\ Two(q2) = Two(q1)
      /\ old # Null => q2.root = q1.root
      /\ \A j \in Nodes(q1) :
           /\ One(q2)[j] = IF j = old /\ One(q1)[j] = sib THEN p ELSE One(q1)[j]
           /\ Two(q2)[j] = IF j = old /\ One(q1)[j] # sib THEN p ELSE Two(q1)[j]
  <2>0. One(q1) \in [Nodes(q1) -> Ids] /\ Two(q1) \in [Nodes(q1) -> Ids] /\ Null \notin Nodes(q1)
    BY <1>2, TypedNodes
  <2>1. Relinked(q2, q1) /\ Parent(q2) = Parent(q1)
    BY <1>2, <1>4, RedirectLinks
  <2>2. CASE old = Null
    <3>1. q2.root = p /\ One(q2) = One(q1) /\ Two(q2) = Two(q1)
      <4>1. q2 = [q1 EXCEPT !.root = p]
        BY <2>2 DEF Redirect
      <4>2. q2.root = p /\ q2.node = q1.node
        BY <1>2, <4>1 DEF Typed
      <4> QED
        BY <4>2 DEF One, Two, Nodes
    <3> HIDE DEF q2
    <3> QED
      BY <2>0, <2>1, <2>2, <3>1
  <2>3. CASE old # Null /\ One(q1)[old] = sib
    <3>1. q2 = SetChild(q1, old, "child1", p) /\ old \in Nodes(q1)
      BY <1>4, <2>3, NodeOf DEF Redirect
    <3> HIDE DEF q2, old
    <3>2. q2.root = q1.root /\ One(q2) = [One(q1) EXCEPT ![old] = p] /\ Two(q2) = Two(q1)
      BY <1>2, <1>4, <3>1, SetChildLinks
    <3> QED
      BY <2>0, <2>1, <2>3, <3>1, <3>2
  <2>4. CASE old # Null /\ One(q1)[old] # sib
    <3>1. q2 = SetChild(q1, old, "child2", p) /\ old \in Nodes(q1)
      BY <1>4, <2>4, NodeOf DEF Redirect
    <3> HIDE DEF q2, old
    <3>2. q2.root = q1.root /\ Two(q2) = [Two(q1) EXCEPT ![old] = p] /\ One(q2) = One(q1)
      BY <1>2, <1>4, <3>1, SetChildLinks
    <3> QED
      BY <2>0, <2>1, <2>4, <3>1, <3>2
  <2> QED
    BY <2>2, <2>3, <2>4
<1> HIDE DEF q2
<1>6. /\ Relinked(q3, q1) /\ q3.root = q2.root /\ One(q3) = One(q2) /\ Two(q3) = Two(q2)
      /\ Parent(q3) = [Parent(q1) EXCEPT ![sib] = p]
  <2>1. Typed(q2) /\ sib \in Nodes(q2)
    BY <1>1, <1>2, <1>5 DEF Relinked
  <2>2. /\ Relinked(q3, q2) /\ q3.root = q2.root /\ One(q3) = One(q2) /\ Two(q3) = Two(q2)
        /\ Parent(q3) = [Parent(q2) EXCEPT ![sib] = p]
    BY <1>4, <2>1, SetParentLinks
  <2> HIDE DEF q3
  <2> QED
    BY <1>5, <2>2, RelinkedTwice
<1> HIDE DEF q3
<1>7. /\ Relinked(r, q1) /\ r.root = q2.root /\ One(r) = One(q2) /\ Two(r) = Two(q2)
      /\ Parent(r) = [Parent(q1) EXCEPT ![sib] = p, ![leaf] = p]
  <2>1. Typed(q3) /\ leaf \in Nodes(q3)
    BY <1>1, <1>2, <1>6 DEF Relinked
  <2>2. /\ Relinked(r, q3) /\ r.root = q3.root /\ One(r) = One(q3) /\ Two(r) = Two(q3)
        /\ Parent(r) = [Parent(q3) EXCEPT ![leaf] = p]
    BY <1>4, <2>1, SetParentLinks
  <2> HIDE DEF r
  <2> QED
    BY <1>6, <2>2, RelinkedTwice
<1> HIDE DEF r
<1>8. PICK d : Depths(Parent(t), A, t.root, d)
  BY <1>1 DEF Tree
<1>9. /\ One(t)[leaf] = Null /\ Two(t)[leaf] = Null
  BY <1>1 DEF Tree
<1>10. /\ Typed(r) /\ Nodes(r) = N \cup {p} /\ r.capacity = q1.capacity /\ r.free = q1.free
       /\ \A j \in N : Height(r)[j] = Height(t)[j] /\ BoxOf(r)[j] = BoxOf(t)[j]
  BY <1>2, <1>3, <1>7 DEF Relinked
<1>11. /\ \A j \in N : /\ Parent(r)[j] = IF j \in {sib, leaf} THEN p ELSE Parent(t)[j]
                       /\ One(r)[j] = IF j = old /\ One(t)[j] = sib THEN p ELSE One(t)[j]
                       /\ Two(r)[j] = IF j = old /\ One(t)[j] # sib THEN p ELSE Two(t)[j]
       /\ Parent(r)[p] = old /\ One(r)[p] = sib /\ Two(r)[p] = leaf
  <2>1. Parent(q1) \in [N \cup {p} -> Ids]
    BY <1>2, TypedNodes
  <2>2. Parent(r)[p] = old /\ \A j \in N : Parent(r)[j] = IF j \in {sib, leaf} THEN p ELSE Parent(t)[j]
    BY <1>1, <1>2, <1>3, <1>7, <2>1
  <2>3. \A j \in N : /\ One(r)[j] = IF j = old /\ One(t)[j] = sib THEN p ELSE One(t)[j]
                     /\ Two(r)[j] = IF j = old /\ One(t)[j] # sib THEN p ELSE Two(t)[j]
    <3> HIDE DEF old
    <3> QED
      BY <1>2, <1>3, <1>5, <1>7
  <2>4. One(r)[p] = sib /\ Two(r)[p] = leaf
    <3> HIDE DEF old
    <3> QED
      BY <1>2, <1>3, <1>4, <1>5, <1>7
  <2> HIDE DEF old
  <2> QED
    BY <2>2, <2>3, <2>4
<1>12. r.root = IF old = Null THEN p ELSE t.root
  BY <1>2, <1>5, <1>7
<1>13. /\ Links(r.root, Parent(r), One(r), Two(r), A \cup {leaf, p})
       /\ \E e : Depths(Parent(r), A \cup {leaf, p}, r.root, e)
       /\ \A j \in N : (One(r)[j] = Null <=> One(t)[j] = Null)
  <2>0. Links(t.root, Parent(t), One(t), Two(t), A) /\ leaf \in N \ A /\ p \in Nat \ N
    BY <1>1, <1>2 DEF Tree
  <2>1. PICK M, P, L, R, P2, L2, R2 :
          /\ M = N /\ P = Parent(t) /\ L = One(t) /\ R = Two(t)
          /\ P2 = Parent(r) /\ L2 = One(r) /\ R2 = Two(r)
    OBVIOUS
  <2>2. /\ M \in SUBSET Nat /\ A \in SUBSET M /\ sib \in A
        /\ P \in [M -> Ids] /\ L \in [M -> Ids] /\ R \in [M -> Ids]
        /\ Links(t.root, P, L, R, A) /\ Depths(P, A, t.root, d)
        /\ leaf \in M \ A /\ p \in Nat \ M /\ L[leaf] = Null /\ R[leaf] = Null
    BY <1>1, <1>2, <1>8, <1>9, <2>1 DEF Tree
  <2>3. /\ r.root = IF P[sib] = Null THEN p ELSE t.root
        /\ P2[p] = P[sib] /\ L2[p] = sib /\ R2[p] = leaf
    BY <1>11, <1>12, <2>1
  <2>4. \A j \in M : /\ P2[j] = IF j \in {sib, leaf} THEN p ELSE P[j]
                     /\ L2[j] = IF j = P[sib] /\ L[j] = sib THEN p ELSE L[j]
                     /\ R2[j] = IF j = P[sib] /\ L[j] # sib THEN p ELSE R[j]
    BY <1>11, <2>1
  <2> HIDE DEF N, old
  <2>5. Join(M, A, t.root, P, L, R, d, sib, leaf, p, r.root, P2, L2, R2)
    BY <2>2, <2>3, <2>4 DEF Join
  <2>6. /\ Links(r.root, P2, L2, R2, A \cup {leaf, p})
        /\ Acyclic(P2, A \cup {leaf, p}, r.root)
        /\ SameEnds(M, L2, L)
    BY <2>5, JoinedLinks
  <2> QED
    BY <2>1, <2>6 DEF SameEnds, Acyclic
<1>14. A \cup {leaf, p} = Nodes(r)
  BY <1>10
<1>15. Tree(r, Nodes(r))
  BY <1>10, <1>13, <1>14 DEF Tree
<1>16. Pool(r)
  BY <1>2, <1>10, SamePool
<1>17. ASSUME NEW j \in Nodes(r), j \notin {p, old}
       PROVE  Fit(r, j)
  <2>1. j \in N /\ Fit(t, j) /\ One(r)[j] = One(t)[j] /\ Two(r)[j] = Two(t)[j]
    <3>1. j \in N /\ j # old
      BY <1>10, <1>17
    <3> HIDE DEF old
    <3> QED
      BY <1>11, <3>1 DEF Sound
  <2>2. One(t)[j] # Null => One(t)[j] \in N /\ Two(t)[j] \in N
    BY <1>1, <1>9, <2>1, TreeNodes
  <2> QED
    BY <1>10, <2>1, <2>2, FitKept
<1>18. Leaves(r) = Leaves(t) /\ \A j \in Leaves(t) : BoxOf(r)[j] = BoxOf(t)[j]
  BY <1>1, <1>2, <1>10, <1>11, <1>13 DEF Leaves
<1>19. Boxes(r) = Boxes(t)
  BY <1>18 DEF Boxes
<1>20. One(r)[p] # Null
  BY <1>1, <1>11
<1> HIDE DEF old
<1>21. /\ p \in Nat /\ p \notin Nodes(t) /\ Nodes(r) = Nodes(t) \cup {p} /\ Pool(r)
       /\ Tree(r, Nodes(r)) /\ One(r)[p] # Null /\ Parent(r)[p] = old
       /\ \A j \in Nodes(r) : j \notin {p, Parent(r)[p]} => Fit(r, j)
       /\ Leaves(r) = Leaves(t) /\ Boxes(r) = Boxes(t)
  BY <1>2, <1>10, <1>11, <1>15, <1>16, <1>17, <1>18, <1>19, <1>20
<1> QED
  BY <1>21 DEF old, r, q3, q2, q1, p

(* A detached leaf is put into the tree.                                   *)
LEMMA InsertLeafTree ==
  ASSUME NEW t, NEW A, NEW leaf, Sound(t, A), leaf \notin A, Nodes(t) = A \cup {leaf}
  PROVE  LET r == InsertLeaf(t, leaf)
         IN Sound(r, Nodes(r)) /\ Leaves(r) = Leaves(t) /\ Boxes(r) = Boxes(t)
<1>1. /\ Typed(t) /\ Tree(t, A) /\ Pool(t) /\ A \subseteq Nodes(t) /\ leaf \in Nodes(t)
      /\ Nodes(t) \subseteq Nat /\ Null \notin Nodes(t)
  BY TypedNodes DEF Sound, Tree
<1>2. CASE t.root = Null
  <2>1. A = {}
    BY <1>1, <1>2 DEF Tree, Links
  <2>2. InsertLeaf(t, leaf) = SetParent([t EXCEPT !.root = leaf], leaf, Null)
    BY <1>2 DEF InsertLeaf
  <2>3. Nodes(t) = {leaf} /\ Sound(t, {})
    BY <2>1
  <2> QED
    BY <2>2, <2>3, InsertFirst, SameBoxes
<1>3. CASE t.root # Null
  <2> DEFINE sib == BestSibling(t, t.node[leaf].box)
             p == NextNode(t)
             n == [box |-> Combine(t.node[leaf].box, t.node[sib].box),
                   parent |-> t.node[sib].parent, child1 |-> sib, child2 |-> leaf,
                   height |-> t.node[sib].height + 1]
             q == SetParent(SetParent(Redirect(AllocateNode(t, n), t.node[sib].parent, sib, p), sib, p), leaf, p)
  <2>1. t.root \in A
    BY <1>1, <1>3 DEF Tree, Links
  <2>2. sib \in A
    BY <1>1, <2>1, BestSiblingInTree
  <2>3. InsertLeaf(t, leaf) = WalkUp(q, p)
    BY <1>3 DEF InsertLeaf
  <2> HIDE DEF sib
  <2>4. n \in Node
    <3>1. /\ t.node[sib].box \in Box /\ t.node[leaf].box \in Box /\ t.node[sib].parent \in Ids
          /\ t.node[sib].height \in Nat /\ sib \in Ids /\ leaf \in Ids
      BY <1>1, <2>2 DEF Typed, Node, Nodes, Ids
    <3>2. Combine(t.node[leaf].box, t.node[sib].box) \in Box
      BY <3>1, CombineCovers
    <3> QED
      BY <3>1, <3>2 DEF Node
  <2>5. t.node[sib].parent = Parent(t)[sib] /\ n.parent = Parent(t)[sib] /\ n.child1 = sib /\ n.child2 = leaf
    BY <1>1, <2>2, NodeOf
  <2> HIDE DEF n
  <2>6. /\ p \in Nat /\ p \notin Nodes(t) /\ Nodes(q) = Nodes(t) \cup {p} /\ Pool(q)
        /\ Tree(q, Nodes(q)) /\ One(q)[p] # Null /\ Parent(q)[p] = Parent(t)[sib]
        /\ \A j \in Nodes(q) : j \notin {p, Parent(q)[p]} => Fit(q, j)
        /\ Leaves(q) = Leaves(t) /\ Boxes(q) = Boxes(t)
    BY <2>2, <2>4, <2>5, JoinedTree
  <2> HIDE DEF q
  <2>7. /\ Tree(WalkUp(q, p), Nodes(q)) /\ SameLeaves(WalkUp(q, p), q)
        /\ \A j \in Nodes(q) : Fit(WalkUp(q, p), j)
    <3>1. IsFiniteSet(Nodes(q)) /\ p \in Nodes(q) /\ p # Null
      BY <2>6 DEF Pool, Null
    <3> HIDE DEF p
    <3> QED
      BY <2>6, <3>1, WalkUpTree
  <2>8. Nodes(WalkUp(q, p)) = Nodes(q) /\ Pool(WalkUp(q, p))
    BY <2>6, <2>7, SamePool DEF SameLeaves
  <2>9. Sound(WalkUp(q, p), Nodes(WalkUp(q, p)))
    BY <2>7, <2>8 DEF Sound
  <2> QED
    BY <2>3, <2>6, <2>7, <2>9, SameBoxes
<1> QED
  BY <1>2, <1>3

(* The last leaf is taken out.                                             *)
LEMMA RemoveLast ==
  ASSUME NEW t, Sound(t, Nodes(t)), NEW leaf \in Leaves(t), t.root = leaf
  PROVE  LET r == [t EXCEPT !.root = Null]
         IN Sound(r, {}) /\ Nodes(r) = {leaf} /\ Leaves(r) = Leaves(t) /\ Boxes(r) = Boxes(t)
<1> DEFINE r == [t EXCEPT !.root = Null]
           A == Nodes(t)
<1>1. Typed(t) /\ Tree(t, A) /\ Pool(t) /\ leaf \in A /\ One(t)[leaf] = Null
  BY DEF Sound, Tree, Leaves
<1>2. A = {leaf}
  <2> SUFFICES ASSUME A \ {leaf} # {} PROVE FALSE
    BY <1>1
  <2>1. PICK d : d \in [A -> Nat] /\ \A j \in A : j # t.root => d[Parent(t)[j]] < d[j]
    BY <1>1 DEF Tree, Depths
  <2>2. PICK j \in A \ {leaf} : \A k \in A \ {leaf} : d[j] <= d[k]
    <3> DEFINE S == A \ {leaf}
    <3>1. S \in SUBSET A /\ S # {} /\ d \in [A -> Nat]
      BY <2>1
    <3> HIDE DEF S, A
    <3>2. \E j \in S : \A k \in S : d[j] <= d[k]
      BY <3>1, Lowest
    <3> QED
      BY <3>2 DEF S
  <2> DEFINE p == Parent(t)[j]
  <2>3. p \in A /\ One(t)[p] # Null
    BY <1>1, <2>2, TreeNodes
  <2>4. p \in A \ {leaf} /\ d[p] < d[j]
    BY <1>1, <2>1, <2>3
  <2>5. d[j] <= d[p] /\ d[j] \in Nat /\ d[p] \in Nat
    BY <2>1, <2>2, <2>4
  <2> QED
    BY <2>4, <2>5
<1>3. /\ r.node = t.node /\ r.root = Null /\ r.capacity = t.capacity /\ r.free = t.free
      /\ r = [node |-> r.node, root |-> r.root, capacity |-> r.capacity, free |-> r.free]
  BY <1>1 DEF Typed
<1> HIDE DEF r
<1>4. Typed(r)
  BY <1>1, <1>3 DEF Typed, Ids
<1>5. /\ Nodes(r) = Nodes(t) /\ One(r) = One(t) /\ Two(r) = Two(t)
      /\ Height(r) = Height(t) /\ BoxOf(r) = BoxOf(t)
  BY <1>3 DEF Nodes, One, Two, Height, BoxOf
<1>6. Two(t)[leaf] = Null
  BY <1>1 DEF Tree, Links
<1>7. Links(Null, Parent(r), One(r), Two(r), {})
  BY DEF Links
<1>8. \E d : Depths(Parent(r), {}, Null, d)
  <2>1. Depths(Parent(r), {}, Null, [i \in {} |-> 0])
    BY DEF Depths
  <2> QED
    BY <2>1
<1>9. Tree(r, {})
  BY <1>1, <1>2, <1>3, <1>4, <1>5, <1>6, <1>7, <1>8 DEF Tree
<1>10. Pool(r) /\ \A i \in Nodes(r) : Fit(r, i)
  BY <1>1, <1>2, <1>3, <1>5, SamePool DEF Sound, Fit
<1>11. Leaves(r) = Leaves(t) /\ Boxes(r) = Boxes(t)
  BY <1>5, SMTT(30) DEF Leaves, Boxes
<1> QED
  BY <1>2, <1>5, <1>9, <1>10, <1>11 DEF Sound, r

(* The links of a tree from which a leaf and its parent were taken, before *)
(* the walk up.                                                            *)
LEMMA SplicedTree ==
  ASSUME NEW t, Sound(t, Nodes(t)), NEW leaf \in Leaves(t), t.root # leaf,
         NEW par, par = Parent(t)[leaf], NEW gr, gr = Parent(t)[par],
         NEW sib, sib = IF One(t)[par] = leaf THEN Two(t)[par] ELSE One(t)[par]
  PROVE  LET r == FreeNode(SetParent(Redirect(t, gr, par, sib), sib, gr), par)
             A == Nodes(t) \ {leaf, par}
         IN /\ par \in Nodes(t) /\ par # leaf /\ Nodes(r) = Nodes(t) \ {par} /\ Pool(r)
            /\ Tree(r, A) /\ gr \in A \cup {Null} /\ (gr # Null => One(r)[gr] # Null)
            /\ \A j \in Nodes(r) : j # gr => Fit(r, j)
            /\ Leaves(r) = Leaves(t) /\ Boxes(r) = Boxes(t)
<1> DEFINE N == Nodes(t)
           A == N \ {leaf, par}
           q1 == Redirect(t, gr, par, sib)
           q2 == SetParent(q1, sib, gr)
           r == FreeNode(q2, par)
<1>1. /\ Typed(t) /\ Pool(t) /\ N \subseteq Nat /\ Null \notin N /\ Tree(t, N)
      /\ Parent(t) \in [N -> Ids] /\ One(t) \in [N -> Ids] /\ Two(t) \in [N -> Ids]
      /\ leaf \in N /\ One(t)[leaf] = Null
  BY TypedNodes DEF Sound, Tree, Leaves
<1>2. /\ par \in N /\ par # leaf /\ One(t)[par] # Null /\ sib \in N /\ sib # leaf /\ sib # par
      /\ Parent(t)[sib] = par
      /\ gr \in N \cup {Null} /\ gr # par /\ gr # leaf
      /\ gr # Null => One(t)[gr] # Null /\ gr # sib
  <2>1. par \in N /\ par # leaf /\ One(t)[par] # Null /\ (leaf = One(t)[par] \/ leaf = Two(t)[par])
    BY <1>1, TreeNodes
  <2>2. /\ One(t)[par] \in N \ {par} /\ Two(t)[par] \in N \ {par} /\ One(t)[par] # Two(t)[par]
        /\ Parent(t)[One(t)[par]] = par /\ Parent(t)[Two(t)[par]] = par
    BY <1>1, <2>1, TreeNodes
  <2>3. gr \in N \cup {Null} /\ gr # par /\ (gr # Null => One(t)[gr] # Null)
    BY <1>1, <2>1, TreeNodes
  <2>4. sib \in N /\ sib # leaf /\ sib # par /\ Parent(t)[sib] = par
    BY <2>1, <2>2
  <2>5. gr # leaf
    BY <1>1, <2>3
  <2>6. gr # Null => gr # sib
    <3> SUFFICES ASSUME gr # Null, gr = sib PROVE FALSE
      OBVIOUS
    <3>1. PICK d : d \in [N -> Nat] /\ \A j \in N : j # t.root => d[Parent(t)[j]] < d[j]
      BY <1>1 DEF Tree, Depths
    <3>2. par # t.root /\ sib # t.root
      <4>1. \A i \in N : Parent(t)[i] = Null <=> i = t.root
        BY <1>1, TreeNodes
      <4> QED
        BY <1>1, <2>1, <2>4, <4>1
    <3>3. d[gr] < d[par] /\ d[par] < d[sib] /\ d[par] \in Nat /\ d[gr] \in Nat
      BY <2>1, <2>3, <2>4, <3>1, <3>2
    <3> QED
      BY <3>3
  <2> QED
    BY <2>1, <2>3, <2>4, <2>5, <2>6
<1>3. sib \in Ids /\ gr \in Ids
  BY <1>1, <1>2 DEF Ids
<1>4. /\ Relinked(q1, t) /\ Parent(q1) = Parent(t)
      /\ q1.root = IF gr = Null THEN sib ELSE t.root
      /\ \A j \in N : /\ One(q1)[j] = IF j = gr /\ One(t)[j] = par THEN sib ELSE One(t)[j]
                      /\ Two(q1)[j] = IF j = gr /\ One(t)[j] # par THEN sib ELSE Two(t)[j]
  <2>1. Relinked(q1, t) /\ Parent(q1) = Parent(t)
    BY <1>1, <1>2, <1>3, RedirectLinks
  <2>2. CASE gr = Null
    <3>1. q1.root = sib /\ One(q1) = One(t) /\ Two(q1) = Two(t)
      <4>1. q1 = [t EXCEPT !.root = sib]
        BY <2>2 DEF Redirect
      <4>2. q1.root = sib /\ q1.node = t.node
        BY <1>1, <4>1 DEF Typed
      <4> HIDE DEF q1
      <4> QED
        BY <4>2 DEF One, Two, Nodes
    <3> HIDE DEF q1
    <3> QED
      BY <1>1, <2>1, <2>2, <3>1
  <2>3. CASE gr # Null /\ One(t)[gr] = par
    <3>1. q1 = SetChild(t, gr, "child1", sib) /\ gr \in Nodes(t)
      BY <1>2, <2>3, NodeOf DEF Redirect
    <3> HIDE DEF q1
    <3>2. q1.root = t.root /\ One(q1) = [One(t) EXCEPT ![gr] = sib] /\ Two(q1) = Two(t)
      <4>1. \A u, j, v : Typed(u) /\ j \in Nodes(u) /\ v \in Ids =>
              LET r1 == SetChild(u, j, "child1", v)
              IN r1.root = u.root /\ One(r1) = [One(u) EXCEPT ![j] = v] /\ Two(r1) = Two(u)
        BY SetChildLinks
      <4>2. Typed(t) /\ gr \in Nodes(t) /\ sib \in Ids
        BY <1>1, <1>3, <3>1
      <4> HIDE DEF N
      <4> QED
        BY <3>1, <4>1, <4>2
    <3> QED
      BY <1>1, <2>1, <2>3, <3>1, <3>2
  <2>4. CASE gr # Null /\ One(t)[gr] # par
    <3>1. q1 = SetChild(t, gr, "child2", sib) /\ gr \in Nodes(t)
      BY <1>2, <2>4, NodeOf DEF Redirect
    <3> HIDE DEF q1
    <3>2. q1.root = t.root /\ Two(q1) = [Two(t) EXCEPT ![gr] = sib] /\ One(q1) = One(t)
      <4>1. \A u, j, v : Typed(u) /\ j \in Nodes(u) /\ v \in Ids =>
              LET r1 == SetChild(u, j, "child2", v)
              IN r1.root = u.root /\ Two(r1) = [Two(u) EXCEPT ![j] = v] /\ One(r1) = One(u)
        BY SetChildLinks
      <4>2. Typed(t) /\ gr \in Nodes(t) /\ sib \in Ids
        BY <1>1, <1>3, <3>1
      <4> HIDE DEF N
      <4> QED
        BY <3>1, <4>1, <4>2
    <3> QED
      BY <1>1, <2>1, <2>4, <3>1, <3>2
  <2> QED
    BY <2>2, <2>3, <2>4
<1> HIDE DEF q1
<1>5. /\ Relinked(q2, t) /\ q2.root = q1.root /\ One(q2) = One(q1) /\ Two(q2) = Two(q1)
      /\ Parent(q2) = [Parent(t) EXCEPT ![sib] = gr]
  <2>1. Typed(q1) /\ sib \in Nodes(q1)
    BY <1>2, <1>4 DEF Relinked
  <2>2. /\ Relinked(q2, q1) /\ q2.root = q1.root /\ One(q2) = One(q1) /\ Two(q2) = Two(q1)
        /\ Parent(q2) = [Parent(q1) EXCEPT ![sib] = gr]
    BY <1>3, <2>1, SetParentLinks
  <2> HIDE DEF q2
  <2> QED
    BY <1>4, <2>2, RelinkedTwice
<1> HIDE DEF q2
<1>6. /\ Typed(q2) /\ Nodes(q2) = N /\ Pool(q2) /\ Height(q2) = Height(t) /\ BoxOf(q2) = BoxOf(t)
  BY <1>1, <1>5, SamePool DEF Relinked
<1>7. /\ Typed(r) /\ Pool(r) /\ r.root = q2.root /\ Nodes(r) = N \ {par}
      /\ \A j \in Nodes(r) : r.node[j] = q2.node[j]
  BY <1>2, <1>6, FreePool
<1> HIDE DEF r
<1>8. \A j \in N \ {par} : /\ Parent(r)[j] = Parent(q2)[j] /\ One(r)[j] = One(q2)[j] /\ Two(r)[j] = Two(q2)[j]
                           /\ Height(r)[j] = Height(t)[j] /\ BoxOf(r)[j] = BoxOf(t)[j]
  <2> TAKE j \in N \ {par}
  <2>1. j \in Nodes(r) /\ j \in Nodes(q2) /\ r.node[j] = q2.node[j]
    BY <1>6, <1>7
  <2> QED
    BY <1>6, <2>1, NodeOf
<1>9. \A j \in N \ {par} : /\ Parent(r)[j] = IF j = sib THEN gr ELSE Parent(t)[j]
                           /\ One(r)[j] = IF j = gr /\ One(t)[j] = par THEN sib ELSE One(t)[j]
                           /\ Two(r)[j] = IF j = gr /\ One(t)[j] # par THEN sib ELSE Two(t)[j]
  BY <1>1, <1>2, <1>4, <1>5, <1>8
<1>10. /\ Links(r.root, Parent(r), One(r), Two(r), A) /\ Acyclic(Parent(r), A, r.root)
       /\ SameEnds(A, One(r), One(t))
  <2>1. PICK d : Depths(Parent(t), N, t.root, d)
    BY <1>1 DEF Tree
  <2>2. PICK M, P, L, R, P2, L2, R2 :
          /\ M = N /\ P = Parent(t) /\ L = One(t) /\ R = Two(t)
          /\ P2 = Parent(r) /\ L2 = One(r) /\ R2 = Two(r)
    OBVIOUS
  <2>3. /\ M \in SUBSET Nat /\ Links(t.root, P, L, R, M) /\ Depths(P, M, t.root, d)
        /\ leaf \in M /\ leaf # t.root /\ L[leaf] = Null /\ par = P[leaf]
        /\ sib = IF L[P[leaf]] = leaf THEN R[P[leaf]] ELSE L[P[leaf]]
        /\ r.root = IF P[P[leaf]] = Null THEN sib ELSE t.root
    BY <1>1, <1>4, <1>5, <1>7, <2>1, <2>2 DEF Tree
  <2>4. \A j \in M \ {leaf, P[leaf]} :
          /\ P2[j] = IF j = sib THEN P[P[leaf]] ELSE P[j]
          /\ L2[j] = IF j = P[P[leaf]] /\ L[j] = P[leaf] THEN sib ELSE L[j]
          /\ R2[j] = IF j = P[P[leaf]] /\ L[j] # P[leaf] THEN sib ELSE R[j]
    BY <1>9, <2>2
  <2> HIDE DEF N, A
  <2>5. Splice(M, t.root, P, L, R, d, leaf, sib, r.root, P2, L2, R2)
    BY <2>3, <2>4 DEF Splice
  <2>6. /\ Links(r.root, P2, L2, R2, M \ {leaf, P[leaf]})
        /\ Acyclic(P2, M \ {leaf, P[leaf]}, r.root)
        /\ SameEnds(M \ {leaf, P[leaf]}, L2, L)
    BY <2>5, SplicedLinks
  <2> QED
    BY <2>2, <2>3, <2>6 DEF A
<1>11. One(r)[leaf] = Null /\ Two(r)[leaf] = Null
  <2>1. Two(t)[leaf] = Null
    BY <1>1 DEF Tree, Links
  <2> QED
    BY <1>1, <1>2, <1>9, <2>1
<1>12. Tree(r, A)
  BY <1>7, <1>10, <1>11 DEF Tree, Acyclic
<1>13. gr # Null => One(r)[gr] # Null
  BY <1>1, <1>2, <1>9
<1>14. ASSUME NEW j \in Nodes(r), j # gr PROVE Fit(r, j)
  <2>1. j \in N /\ j # par /\ Fit(t, j) /\ One(r)[j] = One(t)[j] /\ Two(r)[j] = Two(t)[j]
    BY <1>7, <1>9, <1>14 DEF Sound
  <2>2. One(t)[j] # Null => One(t)[j] \in N \ {par} /\ Two(t)[j] \in N \ {par}
    BY <1>1, <1>14, <2>1, TreeNodes
  <2> QED
    BY <1>8, <2>1, <2>2, FitKept
<1>15. Leaves(r) = Leaves(t) /\ \A j \in Leaves(t) : BoxOf(r)[j] = BoxOf(t)[j]
  <2>1. \A j \in N \ {par} : One(r)[j] = Null <=> One(t)[j] = Null
    <3> TAKE j \in N \ {par}
    <3>1. j \in A \/ j = leaf
      OBVIOUS
    <3> QED
      BY <1>1, <1>10, <1>11, <3>1 DEF SameEnds
  <2> QED
    BY <1>2, <1>7, <1>8, <2>1 DEF Leaves
<1>16. Boxes(r) = Boxes(t)
  BY <1>15 DEF Boxes
<1>17. gr \in A \cup {Null}
  BY <1>2
<1> QED
  BY <1>2, <1>7, <1>12, <1>13, <1>14, <1>15, <1>16, <1>17, Zenon DEF r, q2, q1

(* A leaf is taken out of the tree; it is then detached.                   *)
LEMMA RemoveLeafTree ==
  ASSUME NEW t, Sound(t, Nodes(t)), NEW leaf \in Leaves(t)
  PROVE  LET r == RemoveLeaf(t, leaf)
         IN /\ Sound(r, Nodes(r) \ {leaf}) /\ leaf \in Nodes(r)
            /\ Leaves(r) = Leaves(t) /\ Boxes(r) = Boxes(t)
<1> DEFINE r == RemoveLeaf(t, leaf)
<1>1. CASE t.root = leaf
  <2>1. r = [t EXCEPT !.root = Null]
    BY <1>1 DEF RemoveLeaf
  <2>2. Sound(r, {}) /\ Nodes(r) = {leaf} /\ Leaves(r) = Leaves(t) /\ Boxes(r) = Boxes(t)
    BY <1>1, <2>1, RemoveLast
  <2>3. Nodes(r) \ {leaf} = {}
    BY <2>2
  <2> QED
    BY <2>2, <2>3
<1>2. CASE t.root # leaf
  <2> DEFINE par == Parent(t)[leaf]
             gr == Parent(t)[par]
             sib == IF One(t)[par] = leaf THEN Two(t)[par] ELSE One(t)[par]
             q == FreeNode(SetParent(Redirect(t, gr, par, sib), sib, gr), par)
             A == Nodes(t) \ {leaf, par}
  <2>1. /\ par \in Nodes(t) /\ par # leaf /\ Nodes(q) = Nodes(t) \ {par} /\ Pool(q)
        /\ Tree(q, A) /\ gr \in A \cup {Null} /\ (gr # Null => One(q)[gr] # Null)
        /\ \A j \in Nodes(q) : j # gr => Fit(q, j)
        /\ Leaves(q) = Leaves(t) /\ Boxes(q) = Boxes(t)
    BY <1>2, SplicedTree
  <2>2. leaf \in Nodes(t) /\ Null \notin Nodes(t)
    BY TypedNodes DEF Leaves, Sound, Tree
  <2>3. r = WalkUp(q, gr)
    <3>1. /\ t.node[leaf].parent = par /\ t.node[par].parent = gr
          /\ t.node[par].child1 = One(t)[par] /\ t.node[par].child2 = Two(t)[par]
      BY <2>1, <2>2, NodeOf
    <3> HIDE DEF par, gr
    <3> QED
      BY <1>2, <3>1 DEF RemoveLeaf
  <2> HIDE DEF q, gr, r, par, sib
  <2>4. /\ Tree(r, A) /\ SameLeaves(r, q) /\ \A j \in A : Fit(r, j)
    <3>1. IsFiniteSet(Nodes(q)) /\ A \subseteq Nodes(q)
      BY <2>1 DEF Pool
    <3>2. \A j \in A : (gr = Null \/ j \notin {gr, Parent(q)[gr]}) => Fit(q, j)
      BY <2>1, <2>2, <3>1
    <3> HIDE DEF A
    <3> QED
      BY <2>1, <2>3, <3>1, <3>2, WalkUpTree
  <2>5. Nodes(r) = Nodes(q) /\ Pool(r) /\ Leaves(r) = Leaves(t) /\ Boxes(r) = Boxes(t)
    BY <2>1, <2>4, SamePool, SameBoxes DEF SameLeaves
  <2>6. Nodes(r) \ {leaf} = A /\ leaf \in Nodes(r)
    BY <2>1, <2>2, <2>5
  <2>7. Fit(r, leaf)
    <3>1. One(q)[leaf] = Null /\ leaf # gr /\ leaf \in Nodes(q)
      BY <2>1, <2>2 DEF Leaves
    <3>2. Height(q)[leaf] = 0
      BY <2>1, <3>1 DEF Fit
    <3> QED
      BY <2>4, <3>1, <3>2 DEF SameLeaves, Fit
  <2>8. \A j \in Nodes(r) : Fit(r, j)
    BY <2>4, <2>6, <2>7
  <2>9. Tree(r, Nodes(r) \ {leaf})
    BY <2>4, <2>6
  <2> HIDE DEF A
  <2> QED
    BY <2>5, <2>6, <2>8, <2>9 DEF Sound, r
<1> QED
  BY <1>1, <1>2

(* Every allocated node is in the tree.                                    *)
Whole(t) == Sound(t, Nodes(t))

(* Only the links of the nodes of A matter.                                *)
LEMMA TreeSame ==
  ASSUME NEW r, NEW t, NEW A, Tree(t, A), Typed(r), A \subseteq Nodes(r), r.root = t.root,
         \A j \in A : Parent(r)[j] = Parent(t)[j] /\ One(r)[j] = One(t)[j] /\ Two(r)[j] = Two(t)[j],
         \A j \in Nodes(r) \ A : One(r)[j] = Null /\ Two(r)[j] = Null
  PROVE  Tree(r, A)
<1>1. Links(t.root, Parent(t), One(t), Two(t), A)
  BY DEF Tree
<1>2. Links(r.root, Parent(r), One(r), Two(r), A)
  <2>1. /\ r.root = Null => A = {}
        /\ r.root # Null => r.root \in A /\ Parent(r)[r.root] = Null
    BY <1>1 DEF Links
  <2>2. \A i \in A : i # r.root => Parent(r)[i] \in A /\ i \in {One(r)[Parent(r)[i]], Two(r)[Parent(r)[i]]}
    BY <1>1 DEF Links
  <2>3. \A i \in A : One(r)[i] # Null =>
          /\ One(r)[i] \in A /\ Two(r)[i] \in A /\ One(r)[i] # Two(r)[i]
          /\ Parent(r)[One(r)[i]] = i /\ Parent(r)[Two(r)[i]] = i
    BY <1>1 DEF Links
  <2>4. \A i \in A : One(r)[i] = Null => Two(r)[i] = Null
    BY <1>1 DEF Links
  <2> QED
    BY <2>1, <2>2, <2>3, <2>4 DEF Links
<1>3. \E d : Depths(Parent(r), A, r.root, d)
  BY DEF Tree, Depths
<1> QED
  BY <1>2, <1>3 DEF Tree

(* The fat box of a box is a box that covers it.                            *)
LEMMA FattenBox ==
  ASSUME NEW b \in Box PROVE Fatten(b) \in Box /\ Covers(Fatten(b), b)
<1>1. \A i \in 1..2 : b.lo[i] \in Int /\ b.hi[i] \in Int
  BY DEF Box
<1> QED
  BY <1>1, TreeAssumption DEF Fatten, Box, Covers

(* The predicted box of a box is a box, and covers what that box covers.    *)
LEMMA PredictBox ==
  ASSUME NEW b \in Box, NEW d \in [1..2 -> Int]
  PROVE  Predict(b, d) \in Box /\ \A a \in Box : Covers(b, a) => Covers(Predict(b, d), a)
<1> DEFINE p == Predict(b, d)
<1>1. \A i \in 1..2 : /\ Multiplier * d[i] \in Int /\ b.lo[i] \in Int /\ b.hi[i] \in Int
                      /\ Min({Multiplier * d[i], 0}) \in Int /\ Min({Multiplier * d[i], 0}) <= 0
                      /\ Max({Multiplier * d[i], 0}) \in Int /\ Max({Multiplier * d[i], 0}) >= 0
  <2> TAKE i \in 1..2
  <2>1. Multiplier * d[i] \in Int /\ b.lo[i] \in Int /\ b.hi[i] \in Int
    BY TreeAssumption DEF Box
  <2> QED
    BY <2>1, MinMax
<1>2. p \in Box /\ \A i \in 1..2 : p.lo[i] <= b.lo[i] /\ b.hi[i] <= p.hi[i]
  BY <1>1 DEF Predict, Box
<1> HIDE DEF p
<1>3. ASSUME NEW a \in Box, Covers(b, a) PROVE Covers(p, a)
  <2>1. \A i \in 1..2 : /\ a.lo[i] \in Int /\ a.hi[i] \in Int /\ p.lo[i] \in Int /\ p.hi[i] \in Int
                        /\ b.lo[i] \in Int /\ b.hi[i] \in Int
    BY <1>2 DEF Box
  <2> QED
    BY <1>2, <1>3, <2>1 DEF Covers
<1> QED
  BY <1>2, <1>3 DEF p

(* The boxes of the leaves are boxes.                                       *)
LEMMA LeafBoxes ==
  ASSUME NEW t, Whole(t), NEW i \in Leaves(t)
  PROVE  i \in Nodes(t) /\ i \in Nat /\ Boxes(t)[i] = BoxOf(t)[i] /\ Boxes(t)[i] = t.node[i].box
         /\ Boxes(t)[i] \in Box
BY TypedNodes, NodeOf DEF Whole, Sound, Tree, Leaves, Boxes

(* A new proxy: it is a leaf with the fattened box, and nothing else       *)
(* changes that a query could see.                                         *)
THEOREM CreateLeafSound ==
  ASSUME NEW t, Whole(t), NEW box \in Box
  PROVE  LET r == CreateLeaf(t, box)
             k == NextNode(t)
         IN /\ Whole(r) /\ k \in Nat /\ k \notin Leaves(t) /\ Leaves(r) = Leaves(t) \cup {k}
            /\ Boxes(r)[k] = Fatten(box) /\ \A j \in Leaves(t) : Boxes(r)[j] = Boxes(t)[j]
<1> DEFINE n == [box |-> Fatten(box), parent |-> Null, child1 |-> Null, child2 |-> Null, height |-> 0]
           k == NextNode(t)
           q == AllocateNode(t, n)
           r == InsertLeaf(q, k)
           A == Nodes(t)
<1>1. /\ Typed(t) /\ Tree(t, A) /\ Pool(t) /\ A \subseteq Nat /\ Null \notin A
  BY TypedNodes DEF Whole, Sound, Tree
<1>2. n \in Node
  BY FattenBox DEF Node, Ids
<1> HIDE DEF A
<1>3. /\ k \in Nat /\ k \notin A /\ Typed(q) /\ Pool(q) /\ q.root = t.root
      /\ Nodes(q) = A \cup {k} /\ q.node[k] = n
      /\ \A j \in A : q.node[j] = t.node[j]
  <2> HIDE DEF n
  <2> QED
    BY <1>1, <1>2, AllocatePool DEF A
<1> HIDE DEF q, k
<1>4. /\ One(q)[k] = Null /\ Two(q)[k] = Null /\ Height(q)[k] = 0 /\ BoxOf(q)[k] = Fatten(box)
      /\ \A j \in A : /\ Parent(q)[j] = Parent(t)[j] /\ One(q)[j] = One(t)[j] /\ Two(q)[j] = Two(t)[j]
                      /\ Height(q)[j] = Height(t)[j] /\ BoxOf(q)[j] = BoxOf(t)[j]
  BY <1>3 DEF Parent, One, Two, Height, BoxOf, A
<1>5. Tree(q, A)
  BY <1>1, <1>3, <1>4, TreeSame
<1>6. \A i \in Nodes(q) : Fit(q, i)
  <2>1. Fit(q, k)
    BY <1>4 DEF Fit
  <2>2. ASSUME NEW i \in A PROVE Fit(q, i)
    <3>1. Fit(t, i)
      BY DEF Whole, Sound, A
    <3>2. One(t)[i] # Null => One(t)[i] \in A /\ Two(t)[i] \in A
      BY <1>1, TreeNodes
    <3> QED
      BY <1>4, <3>1, <3>2, FitKept
  <2> QED
    BY <1>3, <2>1, <2>2
<1>7. Sound(q, A)
  BY <1>3, <1>5, <1>6 DEF Sound
<1>8. Sound(r, Nodes(r)) /\ Leaves(r) = Leaves(q) /\ Boxes(r) = Boxes(q)
  BY <1>3, <1>7, InsertLeafTree
<1> HIDE DEF r
<1>9. Leaves(q) = Leaves(t) \cup {k} /\ k \notin Leaves(t)
  BY <1>3, <1>4 DEF Leaves, A
<1>10. Boxes(r)[k] = Fatten(box) /\ \A j \in Leaves(t) : Boxes(r)[j] = Boxes(t)[j]
  <2>1. \A j \in Leaves(t) : j \in A
    BY DEF Leaves, A
  <2> QED
    BY <1>4, <1>8, <1>9, <2>1 DEF Boxes
<1>11. r = CreateLeaf(t, box)
  BY DEF CreateLeaf, r, q, k
<1> QED
  BY <1>3, <1>8, <1>9, <1>10, <1>11 DEF Whole, k

(* A destroyed proxy: one leaf less.                                       *)
THEOREM DestroyLeafSound ==
  ASSUME NEW t, Whole(t), NEW leaf \in Leaves(t)
  PROVE  LET r == DestroyLeaf(t, leaf)
         IN /\ Whole(r) /\ Leaves(r) = Leaves(t) \ {leaf}
            /\ \A j \in Leaves(r) : Boxes(r)[j] = Boxes(t)[j]
<1> DEFINE q == RemoveLeaf(t, leaf)
           r == FreeNode(q, leaf)
           A == Nodes(q) \ {leaf}
<1>1. Sound(q, A) /\ leaf \in Nodes(q) /\ Leaves(q) = Leaves(t) /\ Boxes(q) = Boxes(t)
  BY RemoveLeafTree DEF Whole
<1> HIDE DEF q
<1>2. Typed(q) /\ Pool(q) /\ Tree(q, A)
  BY <1>1 DEF Sound, Tree
<1>3. /\ Typed(r) /\ Pool(r) /\ r.root = q.root /\ Nodes(r) = A
      /\ \A j \in Nodes(r) : r.node[j] = q.node[j]
  BY <1>1, <1>2, FreePool
<1> HIDE DEF r
<1>4. \A j \in A : /\ Parent(r)[j] = Parent(q)[j] /\ One(r)[j] = One(q)[j] /\ Two(r)[j] = Two(q)[j]
                   /\ Height(r)[j] = Height(q)[j] /\ BoxOf(r)[j] = BoxOf(q)[j]
  <2> TAKE j \in A
  <2>1. j \in Nodes(r) /\ j \in Nodes(q) /\ r.node[j] = q.node[j]
    BY <1>3
  <2> QED
    BY <2>1, NodeOf
<1>5. Tree(r, A)
  <2> HIDE DEF A
  <2> QED
    BY <1>2, <1>3, <1>4, TreeSame
<1>6. ASSUME NEW i \in A PROVE Fit(r, i)
  <2>1. Fit(q, i)
    BY <1>1 DEF Sound
  <2>2. One(q)[i] # Null => One(q)[i] \in A /\ Two(q)[i] \in A
    BY <1>2, TreeNodes
  <2> QED
    BY <1>4, <2>1, <2>2, FitKept
<1>7. Sound(r, Nodes(r))
  BY <1>3, <1>5, <1>6 DEF Sound
<1>8. Leaves(r) = Leaves(q) \ {leaf}
  BY <1>3, <1>4 DEF Leaves
<1>9. \A j \in Leaves(r) : Boxes(r)[j] = Boxes(q)[j]
  BY <1>3, <1>4, <1>8 DEF Boxes, Leaves
<1>10. r = DestroyLeaf(t, leaf)
  BY DEF DestroyLeaf, r, q
<1> QED
  BY <1>1, <1>7, <1>8, <1>9, <1>10 DEF Whole

(* A proxy that is moved keeps its identifier and gets the predicted box.  *)
THEOREM MoveLeafSound ==
  ASSUME NEW t, Whole(t), NEW leaf \in Leaves(t), NEW box \in Box, NEW d \in [1..2 -> Int]
  PROVE  LET r == MoveLeaf(t, leaf, box, d)
         IN /\ Whole(r) /\ Leaves(r) = Leaves(t) /\ Boxes(r)[leaf] = Predict(Fatten(box), d)
            /\ \A j \in Leaves(t) : j # leaf => Boxes(r)[j] = Boxes(t)[j]
<1> DEFINE q == RemoveLeaf(t, leaf)
           b == Predict(Fatten(box), d)
           m == [q EXCEPT !.node[leaf].box = b]
           r == InsertLeaf(m, leaf)
           A == Nodes(q) \ {leaf}
           n == [q.node EXCEPT ![leaf].box = b]
<1>1. Sound(q, A) /\ leaf \in Nodes(q) /\ Leaves(q) = Leaves(t) /\ Boxes(q) = Boxes(t)
  BY RemoveLeafTree DEF Whole
<1>2. b \in Box
  BY FattenBox, PredictBox
<1>0. r = MoveLeaf(t, leaf, box, d)
  BY DEF MoveLeaf
<1> HIDE DEF q, b, r
<1>3. Typed(q) /\ Pool(q) /\ Tree(q, A)
  BY <1>1 DEF Sound, Tree
<1>4. /\ m.node = n /\ m.root = q.root /\ m.capacity = q.capacity /\ m.free = q.free
      /\ m = [node |-> m.node, root |-> m.root, capacity |-> m.capacity, free |-> m.free]
  BY <1>3 DEF Typed
<1> HIDE DEF m
<1>5. /\ n \in [Nodes(q) -> Node]
      /\ \A j \in Nodes(q) : /\ n[j].parent = q.node[j].parent /\ n[j].child1 = q.node[j].child1
                              /\ n[j].child2 = q.node[j].child2 /\ n[j].height = q.node[j].height
                              /\ n[j].box = IF j = leaf THEN b ELSE q.node[j].box
  BY <1>1, <1>2, <1>3 DEF Typed, Node, Nodes
<1> HIDE DEF n
<1>6. Typed(m) /\ Nodes(m) = Nodes(q)
  BY <1>3, <1>4, <1>5 DEF Typed, Nodes
<1>7. /\ Parent(m) = Parent(q) /\ One(m) = One(q) /\ Two(m) = Two(q) /\ Height(m) = Height(q)
      /\ \A j \in Nodes(q) : BoxOf(m)[j] = IF j = leaf THEN b ELSE BoxOf(q)[j]
  BY <1>4, <1>5, <1>6 DEF Parent, One, Two, Height, BoxOf
<1>8. Tree(m, A)
  BY <1>3, <1>4, <1>6, <1>7 DEF Tree
<1>9. ASSUME NEW i \in Nodes(m) PROVE Fit(m, i)
  <2>1. Fit(q, i) /\ i \in Nodes(q)
    BY <1>1, <1>6 DEF Sound
  <2>2. One(q)[leaf] = Null
    BY <1>1, <1>3 DEF Tree
  <2>3. One(q)[i] # Null => i \in A /\ One(q)[i] \in A /\ Two(q)[i] \in A
    BY <1>3, <2>1, <2>2, TreeNodes
  <2> QED
    BY <1>7, <2>1, <2>3, FitKept
<1>10. Sound(m, A)
  BY <1>3, <1>4, <1>6, <1>8, <1>9, SamePool DEF Sound
<1>11. Sound(r, Nodes(r)) /\ Leaves(r) = Leaves(m) /\ Boxes(r) = Boxes(m)
  <2>1. leaf \notin A /\ Nodes(m) = A \cup {leaf}
    BY <1>1, <1>6
  <2> HIDE DEF A
  <2> QED
    BY <1>10, <2>1, InsertLeafTree DEF r
<1>12. Leaves(m) = Leaves(q) /\ leaf \in Leaves(q)
  BY <1>1, <1>6, <1>7 DEF Leaves
<1>13. \A j \in Leaves(m) : Boxes(m)[j] = IF j = leaf THEN b ELSE Boxes(q)[j]
  BY <1>7, <1>12 DEF Boxes, Leaves
<1> QED
  BY <1>0, <1>1, <1>11, <1>12, <1>13 DEF Whole, b

(* The empty tree is whole and stands for nothing.                          *)
LEMMA EmptyTreeSound ==
  Whole(EmptyTree) /\ Leaves(EmptyTree) = {}
<1> DEFINE t == EmptyTree
           c == InitialCapacity
<1>1. c \in Nat \ {0}
  BY TreeAssumption
<1>2. /\ t.node = [i \in {} |-> Null] /\ t.root = Null /\ t.capacity = c /\ t.free = [i \in 1..c |-> i - 1]
      /\ t = [node |-> t.node, root |-> t.root, capacity |-> t.capacity, free |-> t.free]
  BY DEF EmptyTree
<1> HIDE DEF t
<1>3. Nodes(t) = {} /\ Leaves(t) = {}
  BY <1>2 DEF Nodes, Leaves
<1>4. Typed(t)
  BY <1>2, <1>3 DEF Typed, Ids, Nodes
<1>5. Tree(t, {})
  <2>1. Links(Null, Parent(t), One(t), Two(t), {})
    BY DEF Links
  <2>2. Depths(Parent(t), {}, Null, [i \in {} |-> 0])
    BY DEF Depths
  <2> QED
    BY <1>2, <1>3, <1>4, <2>1, <2>2 DEF Tree
<1>6. Pool(t)
  <2>1. t.free \in Seq(Nat) /\ Len(t.free) = c /\ \A m \in 1..c : t.free[m] = m - 1
    <3>1. t.free \in [1..c -> Nat]
      BY <1>1, <1>2
    <3> QED
      BY <1>1, <1>2, <3>1
  <2>2. \A k \in Nat : k < c <=> \E m \in 1..c : t.free[m] = k
    <3> TAKE k \in Nat
    <3>1. k < c => k + 1 \in 1..c /\ (k + 1) - 1 = k
      BY <1>1
    <3>2. k < c => \E m \in 1..c : t.free[m] = k
      BY <2>1, <3>1
    <3>3. ASSUME NEW m \in 1..c, t.free[m] = k PROVE k < c
      BY <1>1, <2>1, <3>3
    <3> QED
      BY <3>2, <3>3
  <2>3. \A m, n \in 1..c : t.free[m] = t.free[n] => m = n
    <3> TAKE m, n \in 1..c
    <3>1. t.free[m] = m - 1 /\ t.free[n] = n - 1
      BY <2>1
    <3> QED
      BY <1>1, <3>1
  <2>4. IsFiniteSet(Nodes(t)) /\ Cardinality(Nodes(t)) = 0
    BY <1>3, FS_EmptySet
  <2> QED
    BY <1>1, <1>2, <1>3, <2>1, <2>2, <2>3, <2>4 DEF Pool
<1> QED
  BY <1>3, <1>5, <1>6 DEF Whole, Sound, t

(* In a sound tree heights fall and boxes shrink from a parent to a child. *)
LEMMA ChildWithin ==
  ASSUME NEW t, Whole(t), NEW i \in Nodes(t), i # t.root
  PROVE  LET p == Parent(t)[i]
         IN /\ p \in Nodes(t) /\ One(t)[p] # Null /\ (i = One(t)[p] \/ i = Two(t)[p])
            /\ Height(t)[i] < Height(t)[p] /\ Covers(BoxOf(t)[p], BoxOf(t)[i])
<1> DEFINE p == Parent(t)[i]
           a == One(t)[p]
           b == Two(t)[p]
<1>1. /\ Typed(t) /\ Tree(t, Nodes(t)) /\ Height(t) \in [Nodes(t) -> Nat] /\ BoxOf(t) \in [Nodes(t) -> Box]
  BY TypedNodes DEF Whole, Sound, Tree
<1>2. p \in Nodes(t) /\ a # Null /\ (i = a \/ i = b)
  BY <1>1, TreeNodes
<1>3. a \in Nodes(t) /\ b \in Nodes(t)
  BY <1>1, <1>2, TreeNodes
<1>4. /\ Height(t)[p] = 1 + Max({Height(t)[a], Height(t)[b]})
      /\ BoxOf(t)[p] = Combine(BoxOf(t)[a], BoxOf(t)[b])
  BY <1>2 DEF Whole, Sound, Fit
<1> HIDE DEF p, a, b
<1>5. Covers(BoxOf(t)[p], BoxOf(t)[i])
  BY <1>1, <1>2, <1>3, <1>4, CombineCovers
<1>6. Height(t)[i] < Height(t)[p]
  BY <1>1, <1>2, <1>3, <1>4, MinMax
<1> QED
  BY <1>2, <1>5, <1>6 DEF p, a, b

(* No node of a tree is higher than its root.                               *)
LEMMA RootHighest ==
  ASSUME NEW t, Whole(t), NEW i \in Nodes(t), i # t.root
  PROVE  Height(t)[i] < Height(t)[t.root]
<1>1. /\ Typed(t) /\ Tree(t, Nodes(t)) /\ Height(t) \in [Nodes(t) -> Nat] /\ t.root \in Nodes(t)
  BY TypedNodes, TreeNodes DEF Whole, Sound, Tree
<1> DEFINE N == Nodes(t)
           S == {j \in N : j # t.root /\ ~ (Height(t)[j] < Height(t)[t.root])}
<1>2. PICK d : d \in [N -> Nat] /\ \A j \in N : j # t.root => d[Parent(t)[j]] < d[j]
  BY <1>1 DEF Tree, Depths
<1>3. ASSUME S # {} PROVE FALSE
  <2>1. PICK j \in S : \A k \in S : d[j] <= d[k]
    <3>1. S \in SUBSET N
      OBVIOUS
    <3> HIDE DEF S, N
    <3> QED
      BY <1>2, <1>3, <3>1, Lowest
  <2>2. j \in N /\ j # t.root /\ ~ (Height(t)[j] < Height(t)[t.root])
    OBVIOUS
  <2> DEFINE p == Parent(t)[j]
  <2>3. p \in N /\ Height(t)[j] < Height(t)[p]
    BY <2>2, ChildWithin
  <2>4. d[p] < d[j] /\ d[p] \in Nat /\ d[j] \in Nat
    BY <1>2, <2>2, <2>3
  <2> HIDE DEF p
  <2>5. p \notin S
    <3> HIDE DEF S
    <3> QED
      BY <2>1, <2>4
  <2>6. p = t.root \/ Height(t)[p] < Height(t)[t.root]
    BY <2>3, <2>5
  <2>7. Height(t)[p] \in Nat /\ Height(t)[j] \in Nat /\ Height(t)[t.root] \in Nat
    BY <1>1, <2>2, <2>3
  <2> QED
    BY <2>2, <2>3, <2>6, <2>7
<1> QED
  BY <1>3

(* A box overlaps whatever a box that it covers overlaps.                   *)
LEMMA CoversOverlap ==
  ASSUME NEW a \in Box, NEW b \in Box, NEW x \in Box, Covers(a, b), Overlap(b, x)
  PROVE  Overlap(a, x)
<1> SUFFICES ASSUME NEW i \in 1..2 PROVE a.lo[i] <= x.hi[i] /\ x.lo[i] <= a.hi[i]
  BY DEF Overlap
<1>1. a.lo[i] \in Int /\ a.hi[i] \in Int /\ b.lo[i] \in Int /\ b.hi[i] \in Int /\ x.lo[i] \in Int /\ x.hi[i] \in Int
  BY DEF Box
<1> QED
  BY <1>1 DEF Covers, Overlap

(* A query returns exactly the leaves whose boxes overlap the one it is    *)
(* asked for, although it opens only nodes whose boxes do.                 *)
THEOREM QueryComplete ==
  ASSUME NEW t, Whole(t), NEW box \in Box
  PROVE  Query(t, box) = {i \in Leaves(t) : Overlap(Boxes(t)[i], box)}
<1>1. /\ Typed(t) /\ Tree(t, Nodes(t)) /\ Null \notin Nodes(t)
      /\ Height(t) \in [Nodes(t) -> Nat] /\ BoxOf(t) \in [Nodes(t) -> Box]
  BY TypedNodes DEF Whole, Sound, Tree
<1>2. SUFFICES /\ Seen(t, box) \subseteq Nodes(t)
               /\ \A i \in Nodes(t) : Overlap(BoxOf(t)[i], box) => i \in Seen(t, box)
  <2>1. \A i \in Nodes(t) : /\ IsLeaf(t.node[i]) <=> One(t)[i] = Null
                            /\ t.node[i].box = BoxOf(t)[i]
    BY NodeOf DEF IsLeaf
  <2> QED
    BY <1>2, <2>1 DEF Query, Leaves, Boxes
<1>3. CASE t.root = Null
  <2>1. Nodes(t) = {}
    BY <1>1, <1>3, TreeNodes
  <2> QED
    BY <1>3, <2>1 DEF Seen
<1>4. CASE t.root # Null
  <2> DEFINE root == t.root
             h == Height(t)[root]
             s == Count(h)
             base == [tree |-> t, box |-> box, seen |-> {root}]
             v == Querying!Values(base, s)
             S == {n \in 0..h :
                     /\ v[n] = [tree |-> t, box |-> box, seen |-> v[n].seen]
                     /\ v[n].seen \subseteq Nodes(t)
                     /\ \A i \in Nodes(t) :
                          Overlap(BoxOf(t)[i], box) /\ Height(t)[i] + n >= h => i \in v[n].seen}
  <2>1. root \in Nodes(t) /\ h \in Nat /\ t.node[root].height = h
    BY <1>1, <1>4, NodeOf DEF Tree, Links
  <2>2. s \in Seq(1..h) /\ Len(s) = h /\ \A n \in 1..h : s[n] = n
    BY <2>1 DEF Count
  <2>3. v[0] = base /\ \A n \in 1..h : v[n] = QueryStep(v[n - 1], s[n])
    <3>1. Len(s) \in Nat
      BY <2>1, <2>2
    <3> HIDE DEF s, base
    <3>2. v[0] = base /\ \A n \in 1..Len(s) : v[n] = QueryStep(v[n - 1], s[n])
      BY <3>1, Querying!ValuesStep
    <3> QED
      BY <2>2, <3>2
  <2>4. Seen(t, box) = v[h].seen
    BY <1>4, <2>1, <2>2 DEF Seen, Querying!Fold
  <2> HIDE DEF v, s
  <2>5. 0 \in S
    <3>1. \A i \in Nodes(t) : Height(t)[i] + 0 >= h => i = root
      <4> TAKE i \in Nodes(t)
      <4>1. i # root => Height(t)[i] < h
        BY RootHighest
      <4>2. Height(t)[i] \in Nat
        BY <1>1
      <4> QED
        BY <2>1, <4>1, <4>2
    <3>2. v[0].seen = {root} /\ v[0] = [tree |-> t, box |-> box, seen |-> {root}]
      BY <2>3
    <3> QED
      BY <2>1, <3>1, <3>2
  <2>6. ASSUME NEW n \in 0..h, n # h, n \in S PROVE n + 1 \in S
    <3> DEFINE seen == v[n].seen
               open == {i \in seen : ~ IsLeaf(t.node[i]) /\ Overlap(t.node[i].box, box)}
               next == seen \cup {t.node[i].child1 : i \in open} \cup {t.node[i].child2 : i \in open}
    <3>1. n + 1 \in 1..h /\ (n + 1) - 1 = n /\ n + 1 \in 0..h
      BY <2>1, <2>6
    <3>2. v[n] = [tree |-> t, box |-> box, seen |-> seen] /\ seen \subseteq Nodes(t)
      BY <2>6
    <3>3. v[n + 1] = QueryStep(v[n], s[n + 1])
      BY <2>3, <3>1
    <3>4. v[n + 1] = [tree |-> t, box |-> box, seen |-> next]
      <4> DEFINE w == [tree |-> t, box |-> box, seen |-> seen]
      <4>1. v[n + 1] = QueryStep(w, s[n + 1])
        BY <3>2, <3>3
      <4> HIDE DEF seen
      <4>2. w.tree = t /\ w.box = box /\ w.seen = seen
        OBVIOUS
      <4>3. QueryStep(w, s[n + 1]) = [w EXCEPT !.seen = next]
        BY <4>2 DEF QueryStep
      <4> HIDE DEF next
      <4>4. [w EXCEPT !.seen = next] = [tree |-> t, box |-> box, seen |-> next]
        OBVIOUS
      <4> QED
        BY <4>1, <4>3, <4>4
    <3>5. v[n + 1].seen = next
      BY <3>4
    <3>6. \A i \in seen : /\ t.node[i].child1 = One(t)[i] /\ t.node[i].child2 = Two(t)[i]
                          /\ t.node[i].box = BoxOf(t)[i]
      BY <3>2, NodeOf
    <3>7. next \subseteq Nodes(t)
      BY <1>1, <3>2, <3>6, TreeNodes DEF IsLeaf
    <3>8. ASSUME NEW i \in Nodes(t), Overlap(BoxOf(t)[i], box), Height(t)[i] + (n + 1) >= h
          PROVE  i \in next
      <4>1. CASE i = root
        <5>1. Height(t)[i] + n >= h
          BY <2>1, <3>1, <4>1
        <5> QED
          BY <2>6, <3>8, <5>1
      <4>2. CASE i # root
        <5> DEFINE p == Parent(t)[i]
        <5>1. /\ p \in Nodes(t) /\ One(t)[p] # Null /\ (i = One(t)[p] \/ i = Two(t)[p])
              /\ Height(t)[i] < Height(t)[p] /\ Covers(BoxOf(t)[p], BoxOf(t)[i])
          BY <4>2, ChildWithin
        <5>2. Overlap(BoxOf(t)[p], box)
          BY <1>1, <3>8, <5>1, CoversOverlap
        <5> HIDE DEF p
        <5>3. Height(t)[p] + n >= h
          <6>1. Height(t)[p] \in Nat /\ Height(t)[i] \in Nat
            BY <1>1, <5>1
          <6> QED
            BY <2>1, <3>1, <3>8, <5>1, <6>1
        <5>4. p \in seen
          BY <2>6, <5>1, <5>2, <5>3
        <5>5. p \in open
          BY <3>6, <5>1, <5>2, <5>4 DEF IsLeaf
        <5> QED
          BY <3>6, <5>1, <5>4, <5>5
      <4> QED
        BY <4>1, <4>2
    <3> HIDE DEF next
    <3> QED
      BY <3>1, <3>4, <3>5, <3>7, <3>8
  <2>7. h \in S
    <3> HIDE DEF S
    <3>1. \A n \in 0..h : n # h /\ n \in S => n + 1 \in S
      BY <2>6
    <3>2. \A n \in 0..h : n \in S
      <4> HIDE DEF h
      <4> QED
        BY <2>1, <2>5, <3>1, Querying!UpTo
    <3> QED
      BY <2>1, <3>2
  <2>8. \A i \in Nodes(t) : Height(t)[i] + h >= h
    <3> TAKE i \in Nodes(t)
    <3>1. Height(t)[i] \in Nat
      BY <1>1
    <3> QED
      BY <2>1, <3>1
  <2> QED
    BY <2>4, <2>7, <2>8
<1> QED
  BY <1>3, <1>4

-----------------------------------------------------------------------------
(***************************************************************************)
(* Ray casts.                                                              *)
(***************************************************************************)
(* What is on a stack, and that nothing is twice on it.                    *)
OnStack(s) == {s[k] : k \in 1..Len(s)}
Apart(s) == \A k, m \in 1..Len(s) : s[k] = s[m] => k = m

(* The top of a stack is taken.                                            *)
LEMMA Pop ==
  ASSUME NEW T, NEW s \in Seq(T), s # <<>>, Apart(s)
  PROVE  LET top == s[Len(s)]
             r == SubSeq(s, 1, Len(s) - 1)
         IN /\ top \in T /\ r \in Seq(T) /\ Apart(r)
            /\ top \in OnStack(s) /\ OnStack(r) = OnStack(s) \ {top}
<1> DEFINE n == Len(s)
           top == s[n]
           r == SubSeq(s, 1, n - 1)
<1>1. n \in Nat /\ n >= 1 /\ n \in 1..n /\ n - 1 \in Nat
  OBVIOUS
<1>2. r \in Seq(T) /\ Len(r) = n - 1 /\ \A k \in 1..(n - 1) : r[k] = s[k]
  <2>1. 1 \in 1..(n + 1) /\ n - 1 \in 0..n
    BY <1>1
  <2>2. r = [k \in 1..(n - 1) |-> s[k]]
    BY <1>1
  <2>3. \A k \in 1..(n - 1) : s[k] \in T
    BY <1>1
  <2> HIDE DEF r
  <2> QED
    BY <1>1, <2>2, <2>3
<1>3. top \in T /\ top \in OnStack(s)
  BY <1>1 DEF OnStack
<1> HIDE DEF r, top
<1>4. \A k \in 1..(n - 1) : k \in 1..n /\ k # n
  BY <1>1
<1>5. Apart(r)
  BY <1>2, <1>4 DEF Apart
<1>6. \A k \in 1..n : k = n \/ k \in 1..(n - 1)
  BY <1>1
<1>7. \A k \in 1..(n - 1) : s[k] # top
  BY <1>1, <1>4 DEF Apart, top
<1>8. OnStack(r) = OnStack(s) \ {top}
  <2>1. ASSUME NEW x \in OnStack(r) PROVE x \in OnStack(s) \ {top}
    BY <1>2, <1>4, <1>7 DEF OnStack
  <2>2. ASSUME NEW x \in OnStack(s) \ {top} PROVE x \in OnStack(r)
    <3>1. PICK k \in 1..n : x = s[k]
      BY DEF OnStack
    <3>2. k \in 1..(n - 1)
      BY <1>6, <3>1 DEF top
    <3> QED
      BY <1>2, <3>1, <3>2 DEF OnStack
  <2> QED
    BY <2>1, <2>2
<1> QED
  BY <1>2, <1>3, <1>5, <1>8 DEF r, top

(* Two more are put on a stack.                                            *)
LEMMA PushTwo ==
  ASSUME NEW T, NEW s \in Seq(T), Apart(s), NEW a \in T, NEW b \in T, a # b,
         a \notin OnStack(s), b \notin OnStack(s)
  PROVE  LET r == s \o <<a, b>>
         IN r \in Seq(T) /\ Apart(r) /\ OnStack(r) = OnStack(s) \cup {a, b}
<1> DEFINE n == Len(s)
           r == s \o <<a, b>>
<1>1. n \in Nat /\ r \in Seq(T) /\ Len(r) = n + 2
  OBVIOUS
<1>2. (\A k \in 1..n : r[k] = s[k]) /\ r[n + 1] = a /\ r[n + 2] = b
  OBVIOUS
<1> HIDE DEF r
<1>3. \A k \in 1..(n + 2) : k \in 1..n \/ k = n + 1 \/ k = n + 2
  BY <1>1
<1>4. (\A k \in 1..n : k \in 1..(n + 2) /\ k # n + 1 /\ k # n + 2) /\ n + 1 \in 1..(n + 2) /\ n + 2 \in 1..(n + 2)
  BY <1>1
<1>5. \A k \in 1..n : s[k] # a /\ s[k] # b
  BY DEF OnStack
<1>6. Apart(r)
  <2> SUFFICES ASSUME NEW k \in 1..(n + 2), NEW m \in 1..(n + 2), r[k] = r[m] PROVE k = m
    BY <1>1 DEF Apart
  <2>1. CASE k \in 1..n /\ m \in 1..n
    BY <1>2, <2>1 DEF Apart
  <2>2. CASE ~ (k \in 1..n /\ m \in 1..n)
    BY <1>2, <1>3, <1>5, <2>2
  <2> QED
    BY <2>1, <2>2
<1>7. OnStack(r) = OnStack(s) \cup {a, b}
  <2>1. ASSUME NEW x \in OnStack(r) PROVE x \in OnStack(s) \cup {a, b}
    <3>1. PICK k \in 1..(n + 2) : x = r[k]
      BY <1>1 DEF OnStack
    <3> QED
      BY <1>2, <1>3, <3>1 DEF OnStack
  <2>2. ASSUME NEW x \in OnStack(s) \cup {a, b} PROVE x \in OnStack(r)
    <3>1. CASE x \in OnStack(s)
      BY <1>1, <1>2, <1>4, <3>1 DEF OnStack
    <3>2. CASE x = a \/ x = b
      BY <1>1, <1>2, <1>4, <3>2 DEF OnStack
    <3> QED
      BY <3>1, <3>2
  <2> QED
    BY <2>1, <2>2
<1> QED
  BY <1>1, <1>6, <1>7 DEF r

(* What a part of a ray meets, the ray meets.                              *)
LEMMA SegmentShrinks ==
  ASSUME NEW a \in Box, NEW x \in Int, NEW r \in Int, NEW q \in Int, q <= r,
         Overlap(a, Segment(x, q))
  PROVE  Overlap(a, Segment(x, r)) /\ Segment(x, r) \in Box
<1>1. \A z \in Int : Segment(x, z) \in Box /\ Segment(x, z).lo = <<x, 0>> /\ Segment(x, z).hi = <<x + z, 0>>
  <2> SUFFICES ASSUME NEW z \in Int PROVE Segment(x, z) \in Box
    BY DEF Segment
  <2>1. <<x, 0>> \in [1..2 -> Int] /\ <<x + z, 0>> \in [1..2 -> Int]
    OBVIOUS
  <2> QED
    BY <2>1 DEF Segment, Box
<1>2. \A i \in 1..2 : a.lo[i] \in Int /\ a.hi[i] \in Int
  BY DEF Box
<1>3. \A i \in 1..2 : i = 1 \/ i = 2
  OBVIOUS
<1> QED
  BY <1>1, <1>2, <1>3 DEF Overlap

(* The loop of a ray cast that has popped the nodes V: what it has left    *)
(* out is below a node that the ray, as short as it is now, does not meet. *)
Cast(t, x, far, hits, w, V) ==
  /\ w = [tree |-> t, stack |-> w.stack, from |-> x, reach |-> w.reach, hits |-> hits]
  /\ w.stack \in Seq(Nodes(t)) /\ Apart(w.stack)
  /\ V \subseteq Nodes(t) /\ V \cap OnStack(w.stack) = {}
  /\ t.root \in V \cup OnStack(w.stack)
  /\ \A j \in V \cup OnStack(w.stack) : j # t.root => Parent(t)[j] \in V
  /\ \A j \in Nodes(t) \ (V \cup OnStack(w.stack)) :
       j # t.root /\ Parent(t)[j] \in V => ~ Overlap(BoxOf(t)[Parent(t)[j]], Segment(x, w.reach))
  /\ w.reach \in {far} \cup {hits[i] : i \in DOMAIN hits} /\ w.reach <= far
  /\ \A i \in V \cap DOMAIN hits : Overlap(BoxOf(t)[i], Segment(x, w.reach)) => w.reach <= hits[i]

(* One round of the loop pops one more node.                               *)
LEMMA CastStep ==
  ASSUME NEW t, Whole(t), NEW x \in Int, NEW far \in Nat,
         NEW D \in SUBSET Leaves(t), NEW hits \in [D -> Nat],
         NEW w, NEW V, Cast(t, x, far, hits, w, V), w.stack # <<>>, NEW k
  PROVE  LET i == w.stack[Len(w.stack)]
         IN i \in Nodes(t) \ V /\ Cast(t, x, far, hits, RayStep(w, k), V \cup {i})
<1> DEFINE s == w.stack
           i == s[Len(s)]
           cut == SubSeq(s, 1, Len(s) - 1)
           meets == Overlap(BoxOf(t)[i], Segment(x, w.reach))
           U == V \cup {i}
           r == RayStep(w, k)
           Result(st, re) == [tree |-> t, stack |-> st, from |-> x, reach |-> re, hits |-> hits]
<1>1. /\ Typed(t) /\ Tree(t, Nodes(t)) /\ Null \notin Nodes(t) /\ BoxOf(t) \in [Nodes(t) -> Box]
  BY TypedNodes DEF Whole, Sound, Tree
<1>2. /\ i \in Nodes(t) /\ cut \in Seq(Nodes(t)) /\ Apart(cut)
      /\ i \in OnStack(s) /\ OnStack(cut) = OnStack(s) \ {i}
  BY Pop DEF Cast
<1>3. i \notin V /\ i # Null /\ w.reach \in Nat
  BY <1>1, <1>2 DEF Cast
<1>4. t.node[i].box = BoxOf(t)[i] /\ t.node[i].child1 = One(t)[i] /\ t.node[i].child2 = Two(t)[i]
      /\ (IsLeaf(t.node[i]) <=> One(t)[i] = Null)
  BY <1>2, NodeOf DEF IsLeaf
<1>5. w = Result(s, w.reach)
  BY DEF Cast
<1>6. r = CASE ~ meets -> Result(cut, w.reach)
            [] meets -> IF One(t)[i] # Null THEN Result(cut \o <<One(t)[i], Two(t)[i]>>, w.reach)
                        ELSE IF i \in DOMAIN hits THEN Result(cut, Min({w.reach, hits[i]}))
                        ELSE Result(cut, w.reach)
  <2> HIDE DEF i, cut
  <2>1. /\ w.tree = t /\ w.from = x /\ w.hits = hits
        /\ [w EXCEPT !.stack = cut] = Result(cut, w.reach)
    <3> DEFINE q == w.reach
    <3>1. w = Result(s, q)
      BY <1>5
    <3> HIDE DEF q, s
    <3>2. w.tree = t /\ w.from = x /\ w.hits = hits /\ [w EXCEPT !.stack = cut] = Result(cut, q)
      BY <3>1
    <3> QED
      BY <3>2 DEF q
  <2>2. Result(cut, w.reach).stack = cut /\ Result(cut, w.reach).reach = w.reach
    OBVIOUS
  <2>3. \A st : [Result(cut, w.reach) EXCEPT !.stack = st] = Result(st, w.reach)
    OBVIOUS
  <2>4. \A re : [Result(cut, w.reach) EXCEPT !.reach = re] = Result(cut, re)
    OBVIOUS
  <2> DEFINE rest == [w EXCEPT !.stack = cut]
             n == t.node[i]
             m == Overlap(n.box, Segment(x, w.reach))
  <2>5. r = CASE i = Null \/ ~ m -> rest
              [] i # Null /\ m ->
                   IF ~ IsLeaf(n)
                   THEN [rest EXCEPT !.stack = @ \o <<n.child1, n.child2>>]
                   ELSE IF i \in DOMAIN hits
                        THEN [rest EXCEPT !.reach = Min({@, hits[i]})]
                        ELSE rest
    BY <2>1 DEF RayStep, i, cut
  <2>6. rest = Result(cut, w.reach) /\ (m <=> meets) /\ n.child1 = One(t)[i] /\ n.child2 = Two(t)[i]
        /\ (IsLeaf(n) <=> One(t)[i] = Null)
    BY <1>4, <2>1
  <2> HIDE DEF rest, n, m, r, Result, meets
  <2>7. CASE ~ meets
    BY <1>3, <2>5, <2>6, <2>7
  <2>8. CASE meets /\ One(t)[i] # Null
    BY <1>3, <2>2, <2>3, <2>5, <2>6, <2>8
  <2>9. CASE meets /\ One(t)[i] = Null
    BY <1>3, <2>2, <2>4, <2>5, <2>6, <2>9
  <2> QED
    BY <2>7, <2>8, <2>9
<1>7. /\ w.stack = s /\ s \in Seq(Nodes(t)) /\ V \subseteq Nodes(t) /\ V \cap OnStack(s) = {}
      /\ t.root \in V \cup OnStack(s)
      /\ \A j \in V \cup OnStack(s) : j # t.root => Parent(t)[j] \in V
      /\ \A j \in Nodes(t) \ (V \cup OnStack(s)) :
           j # t.root /\ Parent(t)[j] \in V => ~ Overlap(BoxOf(t)[Parent(t)[j]], Segment(x, w.reach))
      /\ w.reach \in {far} \cup {hits[h] : h \in DOMAIN hits} /\ w.reach <= far
      /\ \A h \in V \cap DOMAIN hits : Overlap(BoxOf(t)[h], Segment(x, w.reach)) => w.reach <= hits[h]
  BY DEF Cast
<1>8. \A j \in Nodes(t) : j # t.root => Parent(t)[j] \in Nodes(t) /\ One(t)[Parent(t)[j]] # Null
                                       /\ j \in {One(t)[Parent(t)[j]], Two(t)[Parent(t)[j]]}
  BY <1>1, TreeNodes
<1> HIDE DEF r, cut, i, s, meets
(* The nodes popped and stacked, where the stack is cut.                   *)
<1>9. /\ U \subseteq Nodes(t) /\ U \cap OnStack(cut) = {} /\ U \cup OnStack(cut) = V \cup OnStack(s)
      /\ \A j \in U \cup OnStack(cut) : j # t.root => Parent(t)[j] \in U
  BY <1>2, <1>3, <1>7
<1>10. CASE ~ meets \/ (One(t)[i] = Null /\ i \notin DOMAIN hits)
  <2>1. r = Result(cut, w.reach)
    BY <1>6, <1>10
  <2> DEFINE q == w.reach
  <2> HIDE DEF q
  <2>2. r.stack = cut /\ r.reach = q /\ r = Result(r.stack, r.reach)
    BY <2>1 DEF q
  <2>3. \A j \in Nodes(t) \ (U \cup OnStack(cut)) :
          j # t.root /\ Parent(t)[j] \in U => ~ Overlap(BoxOf(t)[Parent(t)[j]], Segment(x, q))
    <3> TAKE j \in Nodes(t) \ (U \cup OnStack(cut))
    <3>1. CASE Parent(t)[j] = i
      BY <1>8, <1>10, <3>1 DEF meets, q
    <3>2. CASE Parent(t)[j] # i
      BY <1>7, <1>9, <3>2 DEF q
    <3> QED
      BY <3>1, <3>2
  <2>4. \A h \in U \cap DOMAIN hits : Overlap(BoxOf(t)[h], Segment(x, q)) => q <= hits[h]
    BY <1>7, <1>10 DEF meets, q
  <2> HIDE DEF Result
  <2>5. Cast(t, x, far, hits, r, U)
    BY <1>2, <1>7, <1>9, <2>2, <2>3, <2>4 DEF Cast, Result, q
  <2> QED
    BY <1>2, <1>3, <2>5 DEF i, r, s
<1>11. CASE meets /\ One(t)[i] # Null
  <2> DEFINE a == One(t)[i]
             b == Two(t)[i]
             long == cut \o <<a, b>>
  <2>1. r = Result(long, w.reach)
    BY <1>6, <1>11
  <2>2. /\ a \in Nodes(t) /\ b \in Nodes(t) /\ a # b /\ a # i /\ b # i /\ Parent(t)[a] = i /\ Parent(t)[b] = i
        /\ a # t.root /\ b # t.root
    BY <1>1, <1>2, <1>3, <1>11, TreeNodes
  <2> HIDE DEF a, b
  <2>3. a \notin V \cup OnStack(s) /\ b \notin V \cup OnStack(s)
    BY <1>3, <1>7, <2>2
  <2>4. long \in Seq(Nodes(t)) /\ Apart(long) /\ OnStack(long) = OnStack(cut) \cup {a, b}
    <3>1. a \notin OnStack(cut) /\ b \notin OnStack(cut)
      BY <1>2, <2>3
    <3> QED
      BY <1>2, <2>2, <3>1, PushTwo
  <2> HIDE DEF long
  <2> DEFINE q == w.reach
  <2> HIDE DEF q
  <2>5. r.stack = long /\ r.reach = q /\ r = Result(r.stack, r.reach)
    BY <2>1 DEF q
  <2>6. /\ U \cap OnStack(long) = {} /\ t.root \in U \cup OnStack(long)
        /\ \A j \in U \cup OnStack(long) : j # t.root => Parent(t)[j] \in U
    BY <1>7, <1>9, <2>2, <2>3, <2>4
  <2>7. \A j \in Nodes(t) \ (U \cup OnStack(long)) :
          j # t.root /\ Parent(t)[j] \in U => ~ Overlap(BoxOf(t)[Parent(t)[j]], Segment(x, q))
    <3> TAKE j \in Nodes(t) \ (U \cup OnStack(long))
    <3>1. CASE Parent(t)[j] = i
      BY <1>8, <2>4, <3>1 DEF a, b
    <3>2. CASE Parent(t)[j] # i
      BY <1>7, <1>9, <2>4, <3>2 DEF q
    <3> QED
      BY <3>1, <3>2
  <2>8. \A h \in U \cap DOMAIN hits : Overlap(BoxOf(t)[h], Segment(x, q)) => q <= hits[h]
    <3>1. i \notin DOMAIN hits
      BY <1>11 DEF Leaves
    <3> QED
      BY <1>7, <3>1 DEF q
  <2> HIDE DEF Result
  <2>9. Cast(t, x, far, hits, r, U)
    BY <1>7, <1>9, <2>4, <2>5, <2>6, <2>7, <2>8 DEF Cast, Result, q
  <2> QED
    BY <1>2, <1>3, <2>9 DEF i, r, s
<1>12. CASE meets /\ One(t)[i] = Null /\ i \in DOMAIN hits
  <2> DEFINE q == Min({w.reach, hits[i]})
  <2>1. r = Result(cut, q)
    BY <1>6, <1>12
  <2>2. hits[i] \in Nat
    BY <1>12
  <2>3. q = IF w.reach <= hits[i] THEN w.reach ELSE hits[i]
    <3>1. \A y, z \in Int : Min({y, z}) = IF y <= z THEN y ELSE z
      BY MinMax
    <3> QED
      BY <1>3, <2>2, <3>1
  <2> HIDE DEF q
  <2>4. q \in Nat /\ q <= w.reach /\ q <= hits[i] /\ q <= far /\ q \in {far} \cup {hits[h] : h \in DOMAIN hits}
    <3>1. q \in Nat /\ q <= w.reach /\ q <= hits[i] /\ q <= far
      BY <1>3, <1>7, <2>2, <2>3
    <3> QED
      BY <1>7, <1>12, <2>3, <3>1
  <2>5. \A j \in Nodes(t) : Overlap(BoxOf(t)[j], Segment(x, q)) => Overlap(BoxOf(t)[j], Segment(x, w.reach))
    <3> TAKE j \in Nodes(t)
    <3>1. BoxOf(t)[j] \in Box /\ q \in Int /\ w.reach \in Int
      BY <1>1, <1>3, <2>4
    <3> QED
      BY <2>4, <3>1, SegmentShrinks
  <2>6. r.stack = cut /\ r.reach = q /\ r = Result(r.stack, r.reach)
    BY <2>1
  <2>7. \A j \in Nodes(t) \ (U \cup OnStack(cut)) :
          j # t.root /\ Parent(t)[j] \in U => ~ Overlap(BoxOf(t)[Parent(t)[j]], Segment(x, q))
    <3> TAKE j \in Nodes(t) \ (U \cup OnStack(cut))
    <3>1. CASE Parent(t)[j] = i
      BY <1>8, <1>12, <3>1
    <3>2. CASE Parent(t)[j] # i
      BY <1>7, <1>8, <1>9, <2>5, <3>2
    <3> QED
      BY <3>1, <3>2
  <2>8. \A h \in U \cap DOMAIN hits : Overlap(BoxOf(t)[h], Segment(x, q)) => q <= hits[h]
    <3> TAKE h \in U \cap DOMAIN hits
    <3>1. CASE h = i
      BY <2>4, <3>1
    <3>2. CASE h # i /\ Overlap(BoxOf(t)[h], Segment(x, q))
      <4>1. h \in V \cap DOMAIN hits /\ h \in Nodes(t) /\ hits[h] \in Nat
        BY <1>7, <3>2
      <4>2. w.reach <= hits[h]
        BY <1>7, <2>5, <3>2, <4>1
      <4> QED
        BY <1>3, <2>4, <4>1, <4>2
    <3> QED
      BY <3>1, <3>2
  <2> HIDE DEF Result
  <2>9. Cast(t, x, far, hits, r, U)
    BY <1>2, <1>7, <1>9, <2>4, <2>6, <2>7, <2>8 DEF Cast, Result
  <2> QED
    BY <1>2, <1>3, <2>9 DEF i, r, s
<1> QED
  BY <1>10, <1>11, <1>12

(* When the stack is empty, no hit is nearer than what the loop has found: *)
(* a nearer one would be below a node that the ray meets and that was not  *)
(* popped, and of those the nearest to the root has a popped parent.       *)
LEMMA CastDone ==
  ASSUME NEW t, Whole(t), NEW x \in Int, NEW far \in Nat,
         NEW D \in SUBSET Leaves(t), NEW hits \in [D -> Nat],
         \A i \in D, q \in Nat : hits[i] <= q => Overlap(BoxOf(t)[i], Segment(x, q)),
         NEW w, NEW V, Cast(t, x, far, hits, w, V), w.stack = <<>>
  PROVE  w.reach = Min({far} \cup {hits[i] : i \in D})
<1> DEFINE q == w.reach
           H == {far} \cup {hits[i] : i \in D}
           Left == {j \in Nodes(t) \ V : Overlap(BoxOf(t)[j], Segment(x, q))}
<1>1. /\ OnStack(w.stack) = {} /\ V \subseteq Nodes(t) /\ t.root \in V
      /\ \A j \in Nodes(t) \ V : j # t.root /\ Parent(t)[j] \in V => ~ Overlap(BoxOf(t)[Parent(t)[j]], Segment(x, q))
      /\ q \in H /\ q <= far /\ \A i \in V \cap D : Overlap(BoxOf(t)[i], Segment(x, q)) => q <= hits[i]
  BY DEF Cast, OnStack
<1>2. Typed(t) /\ Tree(t, Nodes(t)) /\ BoxOf(t) \in [Nodes(t) -> Box]
  BY TypedNodes DEF Whole, Sound, Tree
<1>3. q \in Nat /\ H \subseteq Nat
  BY <1>1
<1> HIDE DEF q
<1>4. Left = {}
  <2> SUFFICES ASSUME Left # {} PROVE FALSE
    OBVIOUS
  <2>1. PICK d : Depths(Parent(t), Nodes(t), t.root, d)
    BY <1>2 DEF Tree
  <2>2. d \in [Nodes(t) -> Nat] /\ Left \in SUBSET Nodes(t)
    BY <2>1 DEF Depths
  <2> HIDE DEF Left
  <2>3. PICK j \in Left : \A k \in Left : d[j] <= d[k]
    BY <2>2, Lowest
  <2>4. j \in Nodes(t) /\ j \notin V /\ Overlap(BoxOf(t)[j], Segment(x, q)) /\ j # t.root
    BY <1>1, <2>3 DEF Left
  <2> DEFINE p == Parent(t)[j]
  <2>5. p \in Nodes(t) /\ Covers(BoxOf(t)[p], BoxOf(t)[j]) /\ d[p] < d[j]
    BY <2>1, <2>4, ChildWithin DEF Depths
  <2> HIDE DEF p
  <2>6. Overlap(BoxOf(t)[p], Segment(x, q))
    <3>1. BoxOf(t)[p] \in Box /\ BoxOf(t)[j] \in Box /\ q \in Int
      BY <1>2, <1>3, <2>4, <2>5
    <3>2. Segment(x, q) \in Box
      BY <2>4, <3>1, SegmentShrinks
    <3> QED
      BY <2>4, <2>5, <3>1, <3>2, CoversOverlap
  <2>7. p \notin Left
    <3>1. d[p] \in Nat /\ d[j] \in Nat
      BY <2>2, <2>4, <2>5
    <3> QED
      BY <2>3, <2>5, <3>1
  <2>8. p \in V
    BY <2>5, <2>6, <2>7 DEF Left
  <2> QED
    BY <1>1, <2>4, <2>6, <2>8 DEF p
<1>5. \A i \in D : q <= hits[i]
  <2> SUFFICES ASSUME NEW i \in D, hits[i] < q PROVE FALSE
    <3>1. \A i \in D : hits[i] \in Nat
      OBVIOUS
    <3> QED
      BY <1>3, <3>1
  <2>1. hits[i] \in Nat /\ hits[i] <= q /\ i \in Nodes(t)
    BY <1>3 DEF Leaves
  <2>2. Overlap(BoxOf(t)[i], Segment(x, q))
    BY <1>3, <2>1
  <2>3. i \in V
    BY <1>4, <2>1, <2>2
  <2> QED
    BY <1>1, <1>3, <2>1, <2>2, <2>3
<1>6. \A h \in H : q <= h
  BY <1>1, <1>5
<1> HIDE DEF H
<1>7. q = Min(H)
  <2>1. \A m \in H : (\A h \in H : m <= h) => m = q
    <3> TAKE m \in H
    <3>1. m \in Nat
      BY <1>3
    <3> QED
      BY <1>1, <1>3, <1>6, <3>1
  <2> QED
    BY <1>1, <1>6, <2>1 DEF Min
<1> QED
  BY <1>7 DEF q, H

(* A ray cast returns the nearest of the hits it is shown, however the     *)
(* leaves are ordered, although the ray gets shorter as it goes: each hit  *)
(* is a distance at which the ray already meets the box of the leaf.       *)
THEOREM RayCastNearest ==
  ASSUME NEW t, Whole(t), NEW x \in Int, NEW far \in Nat,
         NEW D \in SUBSET Leaves(t), NEW hits \in [D -> Nat],
         \A i \in D, q \in Nat : hits[i] <= q => Overlap(Boxes(t)[i], Segment(x, q))
  PROVE  RayCast(t, x, far, hits) = Min({far} \cup {hits[i] : i \in D})
<1> DEFINE N == Cardinality(DOMAIN t.node)
           s == Count(N + 1)
           Result(st, re) == [tree |-> t, stack |-> st, from |-> x, reach |-> re, hits |-> hits]
           base == Result(<<t.root>>, far)
           final == Casting!Fold(base, s)
<1>1. /\ Typed(t) /\ Tree(t, Nodes(t)) /\ Null \notin Nodes(t) /\ IsFiniteSet(Nodes(t)) /\ DOMAIN t.node = Nodes(t)
  BY TypedNodes DEF Whole, Sound, Tree, Pool, Nodes
<1>2. N \in Nat /\ N = Cardinality(Nodes(t))
  BY <1>1, FS_CardinalityType
<1> HIDE DEF N
<1>3. s \in Seq(1..(N + 1)) /\ Len(s) = N + 1
  BY <1>2 DEF Count
<1>4. RayCast(t, x, far, hits) = final.reach
  BY <1>1 DEF RayCast, N
<1>5. \A i \in D, q \in Nat : hits[i] <= q => Overlap(BoxOf(t)[i], Segment(x, q))
  BY DEF Boxes
<1> HIDE DEF s
<1>6. CASE t.root = Null
  <2>1. D = {}
    BY <1>1, <1>6, TreeNodes DEF Leaves
  <2> DEFINE empty == Result(<<>>, far)
             Inv == {base, empty}
  <2>2. RayStep(base, 1) = RayStep(base, 1)
    OBVIOUS
  <2>3. \A k : RayStep(base, k) = empty
    <3> TAKE k
    <3>1. base.stack = <<Null>> /\ [base EXCEPT !.stack = <<>>] = empty
      BY <1>6
    <3>2. base.stack # <<>> /\ base.stack[Len(base.stack)] = Null /\ SubSeq(base.stack, 1, Len(base.stack) - 1) = <<>>
      BY <3>1
    <3> HIDE DEF base, empty
    <3> QED
      BY <3>1, <3>2 DEF RayStep
  <2>4. \A k : RayStep(empty, k) = empty
    BY DEF RayStep
  <2>5. \A a \in Inv, k \in 1..(N + 1) : RayStep(a, k) \in Inv
    BY <2>3, <2>4
  <2>6. base \in Inv
    OBVIOUS
  <2>7. base.reach = far /\ empty.reach = far
    OBVIOUS
  <2> HIDE DEF base, empty
  <2>8. \A a \in Inv : a.reach = far
    BY <2>7
  <2> HIDE DEF Inv
  <2>9. final \in Inv
    BY <1>3, <2>5, <2>6, Casting!FoldInvariant
  <2>10. Min({far} \cup {hits[i] : i \in D}) = far
    <3>1. {far} \cup {hits[i] : i \in D} = {far}
      BY <2>1
    <3>2. Min({far}) = far
      BY DEF Min
    <3> QED
      BY <3>1, <3>2
  <2> QED
    BY <1>4, <2>8, <2>9, <2>10
<1>7. CASE t.root # Null
  <2> DEFINE Ray(n, w) == \E V : /\ Cast(t, x, far, hits, w, V)
                                 /\ w.stack = <<>> \/ Cardinality(V) = n
             W == [tree : {t}, stack : Seq(Nodes(t)), from : {x}, reach : Nat, hits : {hits}]
             Inv == {y \in Nat \X W : Ray(y[1], y[2])}
  <2>1. \A w, V : Cast(t, x, far, hits, w, V) => w \in W
    <3> SUFFICES ASSUME NEW w, NEW V, Cast(t, x, far, hits, w, V) PROVE w \in W
      OBVIOUS
    <3>1. w = Result(w.stack, w.reach) /\ w.stack \in Seq(Nodes(t)) /\ w.reach \in {far} \cup {hits[i] : i \in D}
      BY DEF Cast
    <3>2. w.reach \in Nat
      BY <3>1
    <3> QED
      BY <3>1, <3>2
  <2>2. Cast(t, x, far, hits, base, {})
    <3>1. t.root \in Nodes(t)
      BY <1>1, <1>7 DEF Tree, Links
    <3>2. base.stack = <<t.root>> /\ base.reach = far /\ base = Result(base.stack, base.reach)
      OBVIOUS
    <3>3. <<t.root>> \in Seq(Nodes(t)) /\ Apart(<<t.root>>) /\ OnStack(<<t.root>>) = {t.root}
      BY <3>1 DEF Apart, OnStack
    <3> HIDE DEF base
    <3> QED
      BY <3>2, <3>3 DEF Cast
  <2>3. <<0, base>> \in Inv
    <3>1. Cardinality({}) = 0
      BY FS_EmptySet
    <3> HIDE DEF base, W
    <3>2. Ray(0, base) /\ base \in W
      BY <2>1, <2>2, <3>1
    <3> HIDE DEF Ray
    <3> QED
      BY <3>2
  <2>4. ASSUME NEW w, NEW n \in 1..Len(s), <<n - 1, w>> \in Inv
        PROVE  <<n, RayStep(w, s[n])>> \in Inv
    <3> HIDE DEF W
    <3>1. n - 1 \in Nat /\ n \in Nat /\ Ray(n - 1, w)
      BY <2>4
    <3>2. PICK V : Cast(t, x, far, hits, w, V) /\ (w.stack = <<>> \/ Cardinality(V) = n - 1)
      BY <3>1
    <3>3. CASE w.stack = <<>>
      <4>1. RayStep(w, s[n]) = w
        BY <3>3 DEF RayStep
      <4>2. Ray(n, w) /\ w \in W
        BY <2>1, <3>2, <3>3
      <4> HIDE DEF Ray
      <4> QED
        BY <3>1, <4>1, <4>2
    <3>4. CASE w.stack # <<>>
      <4> DEFINE i == w.stack[Len(w.stack)]
                 r == RayStep(w, s[n])
                 k == s[n]
                 U == V \cup {i}
      <4> HIDE DEF k
      <4>1. i \in Nodes(t) \ V /\ Cast(t, x, far, hits, RayStep(w, k), U)
        BY <3>2, <3>4, CastStep
      <4>2. V \subseteq Nodes(t)
        BY <3>2 DEF Cast
      <4>3. Cardinality(U) = n
        <5>1. IsFiniteSet(V)
          BY <1>1, <4>2, FS_Subset
        <5>2. Cardinality(V) = n - 1
          BY <3>2, <3>4
        <5>3. i \notin V
          BY <4>1
        <5> HIDE DEF i
        <5>4. Cardinality(V \cup {i}) = Cardinality(V) + 1
          BY <5>1, <5>3, FS_AddElement
        <5> QED
          BY <3>1, <5>2, <5>4
      <4>4. Ray(n, r)
        <5>1. Cast(t, x, far, hits, r, U)
          BY <4>1 DEF k
        <5> HIDE DEF r, U
        <5> QED
          BY <4>3, <5>1
      <4>5. r \in W
        <5> HIDE DEF U
        <5> QED
          BY <2>1, <4>1 DEF k
      <4> HIDE DEF Ray, r
      <4>6. <<n, r>> \in Inv
        BY <3>1, <4>4, <4>5
      <4> QED
        BY <4>6 DEF r
    <3> QED
      BY <3>3, <3>4
  <2> HIDE DEF Inv, base, s
  <2>5. <<N + 1, final>> \in Inv
    <3>1. \A w : \A n \in 1..Len(s) : <<n - 1, w>> \in Inv => <<n, RayStep(w, s[n])>> \in Inv
      BY <2>4
    <3>2. <<Len(s), final>> \in Inv
      BY <1>3, <2>3, <3>1, Casting!FoldProgress
    <3> QED
      BY <1>3, <3>2
  <2> HIDE DEF final, W
  <2>6. PICK V : Cast(t, x, far, hits, final, V) /\ (final.stack = <<>> \/ Cardinality(V) = N + 1)
    <3>1. Ray(N + 1, final)
      BY <2>5 DEF Inv
    <3> QED
      BY <3>1
  <2>7. final.stack = <<>>
    <3>1. V \subseteq Nodes(t)
      BY <2>6 DEF Cast
    <3>2. Cardinality(V) <= N
      BY <1>1, <1>2, <3>1, FS_Subset
    <3> QED
      BY <1>2, <2>6, <3>2
  <2>8. final.reach = Min({far} \cup {hits[i] : i \in D})
    BY <1>5, <2>6, <2>7, CastDone
  <2> QED
    BY <1>4, <2>8
<1> QED
  BY <1>6, <1>7
=============================================================================
