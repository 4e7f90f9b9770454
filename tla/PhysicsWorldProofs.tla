------------------------- MODULE PhysicsWorldProofs --------------------------
(* Proofs about PhysicsWorld: after every sequence of loading, deleting,    *)
(* moving, rebuilding and stepping, the tree of the broad phase is valid,   *)
(* no pair of fixtures is missed, what is reported of awake bodies is what  *)
(* touches, sleepers keep what they rest on, searches are complete, and     *)
(* with continuous physics no body passes through a wall, unless their      *)
(* contact was given up in that step.                                       *)
(*                                                                          *)
(* The world between two operations is Settled: the fixtures that exist are *)
(* the leaves of a whole tree, their fat boxes cover them, and every pair   *)
(* that overlaps has a contact or is buffered.  The loops over contacts and *)
(* fixtures are followed with the theorems of Folding; each operation has   *)
(* one lemma for what it does to contacts, awake and rest, and one for what *)
(* it does to the broad phase.                                              *)
EXTENDS PhysicsWorld, DynamicTreeProofs

(***************************************************************************)
(* The broad phase.                                                        *)
(***************************************************************************)
Trees == [node : UNION {[D -> Node] : D \in SUBSET Nat}, root : Ids,
          capacity : Nat, free : Seq(Nat)]
(* A broad phase whose tree is whole and whose buffer holds proxies.        *)
BroadPhases == [tree : {t \in Trees : Whole(t)}, move : SUBSET Nat]

(* What is proved whole is a tree by its type, too.                        *)
LEMMA WholeTree ==
  ASSUME NEW t, Whole(t)
  PROVE  t \in {u \in Trees : Whole(u)} /\ Leaves(t) \subseteq Nat /\ Null \notin Leaves(t)
         /\ IsFiniteSet(Leaves(t))
<1>1. Typed(t) /\ Pool(t)
  BY DEF Whole, Sound, Tree
<1>2. t.node \in UNION {[D -> Node] : D \in SUBSET Nat} /\ t.root \in Ids
  BY <1>1 DEF Typed
<1>3. t.capacity \in Nat /\ t.free \in Seq(Nat) /\ IsFiniteSet(Nodes(t))
  BY <1>1 DEF Pool
<1>4. Leaves(t) \subseteq Nodes(t) /\ Nodes(t) \subseteq Nat /\ Null \notin Nodes(t)
  BY <1>1, TypedNodes DEF Leaves
<1>5. t \in Trees
  BY <1>1, <1>2, <1>3 DEF Trees, Typed
<1>6. IsFiniteSet(Leaves(t))
  BY <1>3, <1>4, FS_Subset
<1> QED
  BY <1>4, <1>5, <1>6

(* The boxes of the leaves are the fat boxes of the proxies.               *)
LEMMA FatBoxes ==
  ASSUME NEW bp \in BroadPhases, NEW i \in Leaves(bp.tree)
  PROVE  FatBox(bp, i) = Boxes(bp.tree)[i] /\ FatBox(bp, i) \in Box
<1>1. Whole(bp.tree) /\ i \in Nodes(bp.tree)
  BY DEF BroadPhases, Leaves
<1>2. Boxes(bp.tree)[i] \in Box
  BY <1>1, LeafBoxes
<1>3. FatBox(bp, i) = Boxes(bp.tree)[i]
  BY <1>1, NodeOf DEF FatBox, Boxes
<1> QED
  BY <1>2, <1>3

(* A new proxy is a leaf that was none, is buffered, and covers its shape. *)
LEMMA CreateProxySound ==
  ASSUME NEW bp \in BroadPhases, NEW box \in Box
  PROVE  LET r == CreateProxy(bp, box)
             k == NextProxy(bp)
         IN /\ r \in BroadPhases /\ k \in Nat /\ k \notin Leaves(bp.tree)
            /\ Leaves(r.tree) = Leaves(bp.tree) \cup {k} /\ r.move = bp.move \cup {k}
            /\ Covers(FatBox(r, k), box)
            /\ \A i \in Leaves(bp.tree) : FatBox(r, i) = FatBox(bp, i)
<1> DEFINE r == CreateProxy(bp, box)
           k == NextProxy(bp)
<1>1. Whole(bp.tree) /\ bp.move \subseteq Nat
  BY DEF BroadPhases
<1>2. /\ Whole(r.tree) /\ k \in Nat /\ k \notin Leaves(bp.tree) /\ Leaves(r.tree) = Leaves(bp.tree) \cup {k}
      /\ Boxes(r.tree)[k] = Fatten(box) /\ \A j \in Leaves(bp.tree) : Boxes(r.tree)[j] = Boxes(bp.tree)[j]
  BY <1>1, CreateLeafSound DEF CreateProxy, NextProxy
<1>3. r.move = bp.move \cup {k} /\ r = [tree |-> r.tree, move |-> r.move]
  BY DEF CreateProxy
<1> HIDE DEF r, k
<1>4. r \in BroadPhases
  BY <1>1, <1>2, <1>3, WholeTree DEF BroadPhases
<1>5. \A i \in Leaves(bp.tree) : FatBox(r, i) = FatBox(bp, i)
  BY <1>2, <1>4, FatBoxes
<1>6. FatBox(r, k) = Fatten(box) /\ k \in Leaves(r.tree)
  BY <1>2, <1>4, FatBoxes
<1> QED
  BY <1>2, <1>3, <1>4, <1>5, <1>6, FattenBox DEF r, k

(* A destroyed proxy leaves the tree and the buffer.                       *)
LEMMA DestroyProxySound ==
  ASSUME NEW bp \in BroadPhases, NEW id \in Leaves(bp.tree)
  PROVE  LET r == DestroyProxy(bp, id)
         IN /\ r \in BroadPhases
            /\ Leaves(r.tree) = Leaves(bp.tree) \ {id} /\ r.move = bp.move \ {id}
            /\ \A i \in Leaves(r.tree) : FatBox(r, i) = FatBox(bp, i)
<1> DEFINE r == DestroyProxy(bp, id)
<1>1. Whole(bp.tree) /\ bp.move \subseteq Nat
  BY DEF BroadPhases
<1>2. /\ Whole(r.tree) /\ Leaves(r.tree) = Leaves(bp.tree) \ {id}
      /\ \A j \in Leaves(r.tree) : Boxes(r.tree)[j] = Boxes(bp.tree)[j]
  BY <1>1, DestroyLeafSound DEF DestroyProxy
<1>3. r.move = bp.move \ {id} /\ r = [tree |-> r.tree, move |-> r.move]
  BY DEF DestroyProxy
<1> HIDE DEF r
<1>4. r \in BroadPhases
  BY <1>1, <1>2, <1>3, WholeTree DEF BroadPhases
<1>5. \A i \in Leaves(r.tree) : FatBox(r, i) = FatBox(bp, i)
  BY <1>2, <1>4, FatBoxes
<1> QED
  BY <1>2, <1>3, <1>4, <1>5 DEF r

(* A proxy that is moved covers its shape; it is buffered if its fat box   *)
(* changed, and no other one changes.                                      *)
LEMMA MoveProxySound ==
  ASSUME NEW bp \in BroadPhases, NEW id \in Leaves(bp.tree),
         NEW box \in Box, NEW d \in [1..2 -> Int]
  PROVE  LET r == MoveProxy(bp, id, box, d)
         IN /\ r \in BroadPhases /\ Leaves(r.tree) = Leaves(bp.tree)
            /\ bp.move \subseteq r.move /\ r.move \subseteq bp.move \cup {id}
            /\ Covers(FatBox(r, id), box)
            /\ \A i \in Leaves(bp.tree) : i \notin r.move \/ i # id => FatBox(r, i) = FatBox(bp, i)
<1> DEFINE r == MoveProxy(bp, id, box, d)
<1>1. Whole(bp.tree) /\ bp.move \subseteq Nat
  BY DEF BroadPhases
<1>2. id \in Nat
  BY <1>1, WholeTree
<1>3. CASE ~ MustMove(bp.tree, id, box)
  <2>1. r = bp
    BY <1>3 DEF MoveProxy
  <2>2. Covers(FatBox(bp, id), box)
    BY <1>3 DEF MustMove, FatBox
  <2> QED
    BY <2>1, <2>2
<1>4. CASE MustMove(bp.tree, id, box)
  <2>1. r = [tree |-> MoveLeaf(bp.tree, id, box, d), move |-> bp.move \cup {id}]
    BY <1>4 DEF MoveProxy
  <2>2. /\ Whole(r.tree) /\ Leaves(r.tree) = Leaves(bp.tree)
        /\ Boxes(r.tree)[id] = Predict(Fatten(box), d)
        /\ \A j \in Leaves(bp.tree) : j # id => Boxes(r.tree)[j] = Boxes(bp.tree)[j]
    BY <1>1, <2>1, MoveLeafSound
  <2>3. r.move = bp.move \cup {id} /\ r = [tree |-> r.tree, move |-> r.move]
    BY <2>1
  <2> HIDE DEF r
  <2>4. r \in BroadPhases
    BY <1>1, <1>2, <2>2, <2>3, WholeTree DEF BroadPhases
  <2>5. \A i \in Leaves(bp.tree) : i # id => FatBox(r, i) = FatBox(bp, i)
    BY <2>2, <2>4, FatBoxes
  <2>6. FatBox(r, id) = Predict(Fatten(box), d)
    BY <2>2, <2>4, FatBoxes
  <2>7. Covers(FatBox(r, id), box)
    <3>1. Fatten(box) \in Box /\ Covers(Fatten(box), box)
      BY FattenBox
    <3> QED
      BY <2>6, <3>1, PredictBox
  <2> QED
    BY <2>2, <2>3, <2>4, <2>5, <2>7 DEF r
<1> QED
  BY <1>3, <1>4

-----------------------------------------------------------------------------
(* A set of natural numbers that is not empty has a least element.         *)
LEMMA LeastOf ==
  ASSUME NEW S \in SUBSET Nat, S # {}
  PROVE  \E x \in S : \A y \in S : x <= y
<1> DEFINE id == [n \in Nat |-> n]
<1>1. \E j \in S : \A k \in S : id[j] <= id[k]
  <2>1. id \in [Nat -> Nat]
    OBVIOUS
  <2> HIDE DEF id
  <2> QED
    BY <2>1, Lowest
<1> QED
  BY <1>1

(* The order of pairs has a least one in every set that is not empty.      *)
LEMMA LeastPairIn ==
  ASSUME NEW S \in SUBSET (Nat \X Nat), S # {}
  PROVE  LeastPair(S) \in S
<1> DEFINE A == {p[1] : p \in S}
<1>1. A \in SUBSET Nat /\ A # {}
  OBVIOUS
<1>2. PICK x \in A : \A y \in A : x <= y
  BY <1>1, LeastOf
<1> DEFINE B == {p[2] : p \in {q \in S : q[1] = x}}
<1>3. B \in SUBSET Nat /\ B # {}
  BY <1>2
<1>4. PICK z \in B : \A y \in B : z <= y
  <2> HIDE DEF B
  <2> QED
    BY <1>3, LeastOf
<1>5. PICK p \in S : p[1] = x /\ p[2] = z
  BY <1>4
<1>6. \A q \in S : p[1] < q[1] \/ (p[1] = q[1] /\ p[2] <= q[2])
  <2> TAKE q \in S
  <2>1. q[1] \in Nat /\ p[1] \in Nat /\ x <= q[1]
    BY <1>2
  <2>2. q[1] = x => z <= q[2]
    BY <1>4
  <2> QED
    BY <1>5, <2>1, <2>2
<1> QED
  BY <1>6 DEF LeastPair

(* Sorting a finite set of pairs lists each of them and nothing else.      *)
LEMMA SortedLists ==
  ASSUME NEW S \in SUBSET (Nat \X Nat), IsFiniteSet(S)
  PROVE  Sorted(S) \in Seq(S) /\ \A p \in S : \E n \in 1..Len(Sorted(S)) : Sorted(S)[n] = p
<1> DEFINE N == Cardinality(S)
           s == Count(N)
           base == [left |-> S, list |-> <<>>]
           Inv == {x \in (0..N) \X [left : SUBSET S, list : Seq(S)] :
                     /\ Cardinality(x[2].left) = N - x[1]
                     /\ \A p \in S \ x[2].left : \E i \in 1..Len(x[2].list) : x[2].list[i] = p}
<1>1. N \in Nat
  BY FS_CardinalityType
<1>2. s \in Seq(1..N) /\ Len(s) = N
  BY <1>1 DEF Count
<1>3. <<0, base>> \in Inv
  <2>1. base.left = S /\ base.list = <<>> /\ base \in [left : SUBSET S, list : Seq(S)] /\ N - 0 = N
    BY <1>1
  <2>2. 0 \in 0..N /\ Cardinality(base.left) = N - 0
    BY <1>1, <2>1
  <2> HIDE DEF base, N
  <2> QED
    BY <1>1, <2>1, <2>2
<1>4. ASSUME NEW a, NEW n \in 1..N, <<n - 1, a>> \in Inv
      PROVE  <<n, SortStep(a, s[n])>> \in Inv
  <2> DEFINE L == a.left
             q == a.list
             least == LeastPair(L)
             r == SortStep(a, s[n])
  <2>1. /\ n - 1 \in 0..N /\ L \in SUBSET S /\ q \in Seq(S) /\ Cardinality(L) = N - (n - 1)
        /\ \A p \in S \ L : \E i \in 1..Len(q) : q[i] = p
    BY <1>4
  <2>2. IsFiniteSet(L) /\ L # {}
    <3>1. IsFiniteSet(L)
      BY <2>1, FS_Subset
    <3>2. N - (n - 1) # 0
      BY <1>1
    <3> QED
      BY <2>1, <3>1, <3>2, FS_EmptySet
  <2>3. least \in L
    <3>1. L \in SUBSET (Nat \X Nat)
      BY <2>1
    <3> QED
      BY <2>2, <3>1, LeastPairIn
  <2>4. Cardinality(L \ {least}) = N - n
    <3>1. Cardinality(L \ {least}) = Cardinality(L) - 1
      BY <2>2, <2>3, FS_RemoveElement
    <3> HIDE DEF N, L, least
    <3> QED
      BY <1>1, <2>1, <3>1
  <2>5. r = [left |-> L \ {least}, list |-> Append(q, least)]
    BY DEF SortStep
  <2> HIDE DEF L, q, least, r
  <2>6. /\ Append(q, least) \in Seq(S) /\ Len(Append(q, least)) = Len(q) + 1
        /\ Append(q, least)[Len(q) + 1] = least
        /\ \A i \in 1..Len(q) : Append(q, least)[i] = q[i]
    BY <2>1, <2>3
  <2>7. \A p \in S \ (L \ {least}) : \E i \in 1..Len(Append(q, least)) : Append(q, least)[i] = p
    <3> TAKE p \in S \ (L \ {least})
    <3>1. CASE p = least
      <4>1. Len(q) + 1 \in 1..(Len(q) + 1)
        BY <2>1
      <4> QED
        BY <2>6, <3>1, <4>1
    <3>2. CASE p # least
      <4>1. PICK i \in 1..Len(q) : q[i] = p
        BY <2>1, <3>2
      <4>2. i \in 1..(Len(q) + 1)
        BY <2>1
      <4> QED
        BY <2>6, <4>1, <4>2
    <3> QED
      BY <3>1, <3>2
  <2>8. n \in 0..N
    BY <1>1
  <2>9. r \in [left : SUBSET S, list : Seq(S)]
    BY <2>1, <2>5, <2>6
  <2>10. r.left = L \ {least} /\ r.list = Append(q, least)
    BY <2>5
  <2> QED
    BY <2>4, <2>7, <2>8, <2>9, <2>10 DEF r
<1>5. <<N, Sorting!Fold(base, s)>> \in Inv
  <2> HIDE DEF base, s, Inv
  <2>1. \A a : \A n \in 1..Len(s) : <<n - 1, a>> \in Inv => <<n, SortStep(a, s[n])>> \in Inv
    BY <1>2, <1>4
  <2>2. <<Len(s), Sorting!Fold(base, s)>> \in Inv
    BY <1>2, <1>3, <2>1, Sorting!FoldProgress
  <2> QED
    BY <1>2, <2>2
<1>6. Sorted(S) = Sorting!Fold(base, s).list
  BY DEF Sorted
<1> DEFINE w == Sorting!Fold(base, s)
<1> HIDE DEF w
<1>7. /\ w.left \in SUBSET S /\ w.list \in Seq(S) /\ Cardinality(w.left) = 0
      /\ \A p \in S \ w.left : \E i \in 1..Len(w.list) : w.list[i] = p
  <2>1. <<N, w>> \in Inv
    BY <1>5 DEF w
  <2> QED
    BY <1>1, <2>1, SMTT(30)
<1>8. w.left = {}
  <2>1. IsFiniteSet(w.left)
    BY <1>7, FS_Subset
  <2> QED
    BY <1>7, <2>1, FS_EmptySet
<1>9. Sorted(S) = w.list
  BY <1>6 DEF w
<1> QED
  BY <1>7, <1>8, <1>9

(* The pairs that are sent are pairs of leaves, and among them are all     *)
(* those of a buffered leaf and a leaf whose fat box overlaps its own.     *)
LEMMA PairsSound ==
  ASSUME NEW bp \in BroadPhases, bp.move \subseteq Leaves(bp.tree)
  PROVE  /\ Pairs(bp) \in Seq({p \in Leaves(bp.tree) \X Leaves(bp.tree) : p[1] # p[2]})
         /\ \A i \in bp.move : \A j \in Leaves(bp.tree) \ {i} :
              TestOverlap(bp, i, j) =>
                \E n \in 1..Len(Pairs(bp)) : {Pairs(bp)[n][1], Pairs(bp)[n][2]} = {i, j}
<1> DEFINE L == Leaves(bp.tree)
           P == {p \in L \X L : p[1] # p[2]}
           S == PairsFound(bp)
<1>1. Whole(bp.tree) /\ L \subseteq Nat /\ IsFiniteSet(L)
  BY WholeTree DEF BroadPhases
<1>2. \A i \in bp.move : Query(bp.tree, FatBox(bp, i)) = {j \in L : TestOverlap(bp, j, i)}
  <2> TAKE i \in bp.move
  <2>1. FatBox(bp, i) \in Box
    BY FatBoxes
  <2>2. \A j \in L : FatBox(bp, j) = Boxes(bp.tree)[j]
    BY FatBoxes
  <2> QED
    BY <1>1, <2>1, <2>2, QueryComplete DEF TestOverlap
<1>3. \A i, j \in L : TestOverlap(bp, i, j) = TestOverlap(bp, j, i)
  BY DEF TestOverlap, Overlap
<1>4. \A i, j \in L : i # j => <<Min({i, j}), Max({i, j})>> \in P
                             /\ {Min({i, j}), Max({i, j})} = {i, j}
  <2> TAKE i, j \in L
  <2>1. i \in Int /\ j \in Int
    BY <1>1
  <2> QED
    BY <2>1, MinMax
<1>5. S \subseteq P
  <2> SUFFICES ASSUME NEW p \in S PROVE p \in P
    OBVIOUS
  <2>1. PICK i \in bp.move : p \in {<<Min({i, j}), Max({i, j})>> : j \in Query(bp.tree, FatBox(bp, i)) \ {i}}
    BY DEF PairsFound
  <2>2. PICK j \in L : j # i /\ p = <<Min({i, j}), Max({i, j})>>
    BY <1>2, <2>1
  <2> HIDE DEF P, L
  <2> QED
    BY <1>4, <2>2 DEF L
<1>6. IsFiniteSet(S) /\ S \in SUBSET (Nat \X Nat)
  <2>1. IsFiniteSet(L \X L)
    BY <1>1, FS_Product
  <2>2. S \subseteq L \X L
    BY <1>5
  <2> HIDE DEF S, L
  <2> QED
    BY <1>1, <2>1, <2>2, FS_Subset
<1>7. Pairs(bp) \in Seq(S) /\ \A p \in S : \E n \in 1..Len(Pairs(bp)) : Pairs(bp)[n] = p
  BY <1>6, SortedLists DEF Pairs
<1>8. Pairs(bp) \in Seq(P)
  <2> HIDE DEF S, P
  <2> QED
    BY <1>5, <1>7
<1>9. ASSUME NEW i \in bp.move, NEW j \in L \ {i}, TestOverlap(bp, i, j)
      PROVE  \E n \in 1..Len(Pairs(bp)) : {Pairs(bp)[n][1], Pairs(bp)[n][2]} = {i, j}
  <2>1. j \in Query(bp.tree, FatBox(bp, i)) \ {i}
    BY <1>2, <1>3, <1>9
  <2>2. <<Min({i, j}), Max({i, j})>> \in S
    BY <2>1 DEF PairsFound
  <2>3. PICK n \in 1..Len(Pairs(bp)) : Pairs(bp)[n] = <<Min({i, j}), Max({i, j})>>
    BY <1>7, <2>2
  <2>4. {Min({i, j}), Max({i, j})} = {i, j}
    BY <1>4
  <2> DEFINE p == Pairs(bp)[n]
  <2>5. p[1] = Min({i, j}) /\ p[2] = Max({i, j})
    BY <2>3
  <2>6. {p[1], p[2]} = {i, j}
    BY <2>4, <2>5
  <2> QED
    BY <2>6
<1> QED
  BY <1>8, <1>9

-----------------------------------------------------------------------------
(***************************************************************************)
(* The operations on contacts, in a world whose fixtures E are on the      *)
(* bodies of L.                                                            *)
(***************************************************************************)
(* The fixtures of E are on living bodies.                                  *)
Peopled(E, L) == E \subseteq Fixtures /\ L \subseteq Bodies /\ \A f \in E : BodyOf[f] \in L

(* The contacts that may be in the list, the fields that an operation on    *)
(* contacts changes, and a list in which no pair is twice.                  *)
Met(E) == {c \in [a : E, b : E, touching : BOOLEAN] : ShouldCollide(c.a, c.b)}
Fields(E, L) == [contacts : Seq(Met(E)), awake : SUBSET (L \ Static),
                 rest : [Bodies -> 0..TimeToSleep]]
Once(cs) == \A i, j \in DOMAIN cs : Pair(cs[i]) = Pair(cs[j]) => i = j

(* The pairs that a body rests on.                                         *)
Held(cs, b) == {Pair(c) : c \in {d \in Range(cs) : b \in BodiesOf(d) /\ Solid(d) /\ d.touching}}

(* What is in a list, and what is in the list without one of its entries.  *)
LEMMA WithoutRemoves ==
  ASSUME NEW T, NEW cs \in Seq(T), NEW c
  PROVE  LET r == Without(cs, c)
         IN /\ r \in Seq(T) /\ Range(r) = Range(cs) \ {c}
            /\ Once(cs) => Once(r)
<1> DEFINE N == Len(cs)
           base == [gone |-> c, kept |-> <<>>]
           Upto(n, q) == /\ \A k \in 1..Len(q) : \E i \in 1..n : q[k] = cs[i] /\ cs[i] # c
                         /\ \A i \in 1..n : cs[i] # c => \E k \in 1..Len(q) : q[k] = cs[i]
                         /\ Once(cs) => Once(q)
           Inv == {x \in (0..N) \X [gone : {c}, kept : Seq(T)] : Upto(x[1], x[2].kept)}
<1>1. N \in Nat /\ DOMAIN cs = 1..N /\ \A i \in 1..N : cs[i] \in T
  OBVIOUS
<1>2. <<0, base>> \in Inv
  <2>1. Once(<<>>)
    BY DEF Once
  <2>2. base \in [gone : {c}, kept : Seq(T)] /\ base.kept = <<>> /\ Len(<<>>) = 0 /\ 0 \in 0..N
    BY <1>1
  <2> HIDE DEF base
  <2> QED
    BY <2>1, <2>2
<1>3. ASSUME NEW a, NEW n \in 1..N, <<n - 1, a>> \in Inv
      PROVE  <<n, UnlinkStep(a, cs[n])>> \in Inv
  <2> DEFINE q == a.kept
             m == n - 1
  <2>1. /\ m \in 0..N /\ a \in [gone : {c}, kept : Seq(T)] /\ q \in Seq(T)
        /\ \A k \in 1..Len(q) : \E i \in 1..m : q[k] = cs[i] /\ cs[i] # c
        /\ \A i \in 1..m : cs[i] # c => \E k \in 1..Len(q) : q[k] = cs[i]
        /\ Once(cs) => Once(q)
    BY <1>3
  <2>2. a = [gone |-> c, kept |-> q] /\ n \in 0..N /\ cs[n] \in T /\ m = n - 1
    BY <1>1, <2>1
  <2> HIDE DEF q, m
  <2>3. CASE cs[n] = c
    <3>1. UnlinkStep(a, cs[n]) = [gone |-> c, kept |-> q]
      BY <2>2, <2>3 DEF UnlinkStep
    <3>2. \A k \in 1..Len(q) : \E i \in 1..n : q[k] = cs[i] /\ cs[i] # c
      <4> TAKE k \in 1..Len(q)
      <4>1. PICK i \in 1..m : q[k] = cs[i] /\ cs[i] # c
        BY <2>1
      <4>2. i \in 1..n
        BY <2>1, <2>2
      <4> QED
        BY <4>1, <4>2
    <3>3. \A i \in 1..n : cs[i] # c => \E k \in 1..Len(q) : q[k] = cs[i]
      <4> SUFFICES ASSUME NEW i \in 1..n, cs[i] # c PROVE \E k \in 1..Len(q) : q[k] = cs[i]
        OBVIOUS
      <4>1. i \in 1..m
        BY <1>1, <2>2, <2>3
      <4> QED
        BY <2>1, <4>1
    <3> DEFINE v == [gone |-> c, kept |-> q]
    <3>4. v \in [gone : {c}, kept : Seq(T)] /\ v.kept = q
      BY <2>1
    <3>5. UnlinkStep(a, cs[n]) = v
      BY <3>1
    <3> HIDE DEF v
    <3>6. Upto(n, v.kept)
      BY <2>1, <3>2, <3>3, <3>4
    <3> HIDE DEF Upto
    <3> QED
      BY <2>2, <3>4, <3>5, <3>6
  <2>4. CASE cs[n] # c
    <3> DEFINE r == Append(q, cs[n])
    <3>1. UnlinkStep(a, cs[n]) = [gone |-> c, kept |-> r]
      BY <2>2, <2>4 DEF UnlinkStep
    <3>2. /\ r \in Seq(T) /\ Len(r) = Len(q) + 1 /\ r[Len(q) + 1] = cs[n] /\ Len(q) \in Nat
          /\ \A k \in 1..Len(q) : r[k] = q[k]
      BY <2>1, <2>2
    <3> HIDE DEF r
    <3>3. \A k \in 1..Len(r) : (k = Len(r) /\ r[k] = cs[n]) \/ (k \in 1..Len(q) /\ r[k] = q[k])
      BY <3>2
    <3>4. \A k \in 1..Len(r) : \E i \in 1..n : r[k] = cs[i] /\ cs[i] # c
      <4> TAKE k \in 1..Len(r)
      <4>1. CASE k = Len(r) /\ r[k] = cs[n]
        BY <2>4, <4>1
      <4>2. CASE k \in 1..Len(q) /\ r[k] = q[k]
        <5>1. PICK i \in 1..m : q[k] = cs[i] /\ cs[i] # c
          BY <2>1, <4>2
        <5>2. i \in 1..n
          BY <2>1, <2>2
        <5> QED
          BY <4>2, <5>1, <5>2
      <4> QED
        BY <3>3, <4>1, <4>2
    <3>5. \A i \in 1..n : cs[i] # c => \E k \in 1..Len(r) : r[k] = cs[i]
      <4> SUFFICES ASSUME NEW i \in 1..n, cs[i] # c PROVE \E k \in 1..Len(r) : r[k] = cs[i]
        OBVIOUS
      <4>1. CASE i = n
        <5>1. Len(r) \in 1..Len(r) /\ r[Len(r)] = cs[n]
          BY <3>2
        <5> QED
          BY <4>1, <5>1
      <4>2. CASE i # n
        <5>1. i \in 1..m
          BY <1>1, <2>2, <4>2
        <5>2. PICK k \in 1..Len(q) : q[k] = cs[i]
          BY <2>1, <4>2, <5>1
        <5>3. k \in 1..Len(r) /\ r[k] = q[k]
          BY <3>2
        <5> QED
          BY <5>2, <5>3
      <4> QED
        BY <4>1, <4>2
    <3>6. ASSUME Once(cs) PROVE Once(r)
      <4> SUFFICES ASSUME NEW j \in 1..Len(r), NEW k \in 1..Len(r), Pair(r[j]) = Pair(r[k])
                   PROVE  j = k
        BY <3>2 DEF Once
      <4>1. \A k1 \in 1..Len(q) : Pair(q[k1]) # Pair(cs[n])
        <5> TAKE k1 \in 1..Len(q)
        <5>1. PICK i \in 1..m : q[k1] = cs[i]
          BY <2>1
        <5>2. i # n /\ i \in 1..N
          BY <1>1, <2>1, <2>2
        <5> QED
          BY <1>1, <3>6, <5>1, <5>2 DEF Once
      <4>2. \A i1, k1 \in 1..Len(q) : Pair(q[i1]) = Pair(q[k1]) => i1 = k1
        BY <2>1, <3>6 DEF Once
      <4> QED
        BY <3>3, <4>1, <4>2
    <3> DEFINE v == [gone |-> c, kept |-> r]
    <3>7. v \in [gone : {c}, kept : Seq(T)] /\ v.kept = r
      BY <3>2
    <3>8. UnlinkStep(a, cs[n]) = v
      BY <3>1
    <3> HIDE DEF v
    <3>9. Upto(n, v.kept)
      BY <3>4, <3>5, <3>6, <3>7
    <3> HIDE DEF Upto
    <3> QED
      BY <2>2, <3>7, <3>8, <3>9
  <2> QED
    BY <2>3, <2>4
<1> DEFINE w == Unlinking!Fold(base, cs)
<1>4. <<N, w>> \in Inv
  <2> HIDE DEF base, Inv
  <2>1. \A a : \A n \in 1..Len(cs) : <<n - 1, a>> \in Inv => <<n, UnlinkStep(a, cs[n])>> \in Inv
    BY <1>3
  <2> QED
    BY <1>2, <2>1, Unlinking!FoldProgress
<1>5. Without(cs, c) = w.kept
  BY DEF Without
<1> HIDE DEF w
<1> DEFINE r == w.kept
<1>6. /\ r \in Seq(T)
      /\ \A k \in 1..Len(r) : \E i \in 1..N : r[k] = cs[i] /\ cs[i] # c
      /\ \A i \in 1..N : cs[i] # c => \E k \in 1..Len(r) : r[k] = cs[i]
      /\ Once(cs) => Once(r)
  BY <1>4
<1> HIDE DEF r
<1>7. DOMAIN r = 1..Len(r)
  BY <1>6
<1>8. Range(r) = Range(cs) \ {c}
  <2>1. Range(r) = {r[k] : k \in 1..Len(r)} /\ Range(cs) = {cs[i] : i \in 1..N}
    BY <1>1, <1>7 DEF Range
  <2>2. \A k \in 1..Len(r) : r[k] \in {cs[i] : i \in 1..N} \ {c}
    BY <1>6
  <2>3. \A i \in 1..N : cs[i] # c => cs[i] \in {r[k] : k \in 1..Len(r)}
    BY <1>6
  <2> QED
    BY <2>1, <2>2, <2>3
<1> QED
  BY <1>5, <1>6, <1>8 DEF r

-----------------------------------------------------------------------------
(* From s to r bodies may have been woken, none has fallen asleep, and what *)
(* a body that sleeps in r rests on has not changed.                        *)
Disturbs(r, s) ==
  /\ s.awake \subseteq r.awake
  /\ \A b \in Moving \ r.awake : Held(r.contacts, b) = Held(s.contacts, b)

(* Two operations in a row that only wake bodies only wake bodies.          *)
LEMMA DisturbsTwice ==
  ASSUME NEW q, NEW r, NEW s, Disturbs(r, q), Disturbs(q, s)
  PROVE  Disturbs(r, s)
BY DEF Disturbs

(* Waking bodies changes nothing else of what is in contact.               *)
LEMMA SetAwakeFields ==
  ASSUME NEW E, NEW L, Peopled(E, L), NEW s \in Fields(E, L), NEW B \in SUBSET L
  PROVE  LET r == SetAwake(s, B)
         IN /\ r \in Fields(E, L) /\ r.contacts = s.contacts
            /\ r.awake = s.awake \cup (B \ Static) /\ Disturbs(r, s)
<1> DEFINE r == SetAwake(s, B)
           rest == [b \in Bodies |-> IF b \in B THEN 0 ELSE s.rest[b]]
<1>1. /\ s.contacts \in Seq(Met(E)) /\ s.awake \subseteq L \ Static /\ s.rest \in [Bodies -> 0..TimeToSleep]
      /\ s = [contacts |-> s.contacts, awake |-> s.awake, rest |-> s.rest]
  BY DEF Fields
<1>2. r = [contacts |-> s.contacts, awake |-> s.awake \cup (B \ Static), rest |-> rest]
  <2>1. r = [s EXCEPT !.awake = s.awake \cup (B \ Static), !.rest = rest]
    BY DEF SetAwake
  <2> HIDE DEF rest, r
  <2> QED
    BY <1>1, <2>1
<1>3. rest \in [Bodies -> 0..TimeToSleep]
  BY <1>1, WorldAssumption
<1> HIDE DEF rest, r
<1>4. r.contacts = s.contacts /\ r.awake = s.awake \cup (B \ Static)
  BY <1>2
<1>5. r \in Fields(E, L)
  BY <1>1, <1>2, <1>3 DEF Fields
<1> QED
  BY <1>4, <1>5 DEF Disturbs, r

(* What a contact is.                                                      *)
LEMMA MetContact ==
  ASSUME NEW E, NEW L, Peopled(E, L), NEW c \in Met(E)
  PROVE  /\ c = [a |-> c.a, b |-> c.b, touching |-> c.touching]
         /\ c.a \in E /\ c.b \in E /\ c.touching \in BOOLEAN /\ ShouldCollide(c.a, c.b)
         /\ c.a \in Fixtures /\ c.b \in Fixtures /\ BodyOf[c.a] \in L /\ BodyOf[c.b] \in L
         /\ BodiesOf(c) \in SUBSET L
BY DEF Met, Peopled, BodiesOf

(* A contact that is destroyed leaves the list; if it held its bodies they *)
(* are woken.                                                              *)
LEMMA DestroyContactFields ==
  ASSUME NEW E, NEW L, Peopled(E, L), NEW s \in Fields(E, L), NEW c \in Met(E)
  PROVE  LET r == DestroyContact(s, c)
         IN /\ r \in Fields(E, L) /\ Range(r.contacts) = Range(s.contacts) \ {c}
            /\ Once(s.contacts) => Once(r.contacts)
            /\ Disturbs(r, s)
<1> DEFINE r == DestroyContact(s, c)
           gone == [s EXCEPT !.contacts = Without(@, c)]
           R == Range(s.contacts)
<1>1. /\ s.contacts \in Seq(Met(E)) /\ s.awake \subseteq L \ Static /\ s.rest \in [Bodies -> 0..TimeToSleep]
      /\ s = [contacts |-> s.contacts, awake |-> s.awake, rest |-> s.rest]
  BY DEF Fields
<1>2. /\ Without(s.contacts, c) \in Seq(Met(E)) /\ Range(Without(s.contacts, c)) = R \ {c}
      /\ Once(s.contacts) => Once(Without(s.contacts, c))
  BY <1>1, WithoutRemoves
<1>3. /\ gone = [contacts |-> Without(s.contacts, c), awake |-> s.awake, rest |-> s.rest]
      /\ gone.contacts = Without(s.contacts, c) /\ gone.awake = s.awake
  BY <1>1
<1>4. gone \in Fields(E, L)
  BY <1>1, <1>2, <1>3 DEF Fields
<1>a. r = IF c.touching /\ Solid(c) THEN SetAwake(gone, BodiesOf(c)) ELSE gone
  BY DEF DestroyContact
<1> HIDE DEF gone, R
<1>5. BodiesOf(c) \in SUBSET L
  BY MetContact
<1>6. CASE c.touching /\ Solid(c)
  <2>1. r = SetAwake(gone, BodiesOf(c))
    BY <1>6, <1>a
  <2>2. /\ r \in Fields(E, L) /\ r.contacts = gone.contacts /\ r.awake = s.awake \cup (BodiesOf(c) \ Static)
    BY <1>3, <1>4, <1>5, <2>1, SetAwakeFields
  <2> HIDE DEF r
  <2>3. ASSUME NEW b \in Moving \ r.awake PROVE Held(r.contacts, b) = Held(s.contacts, b)
    <3>1. b \notin BodiesOf(c)
      BY <2>2, <2>3 DEF Moving
    <3>2. Range(r.contacts) = R \ {c}
      BY <1>2, <1>3, <2>2
    <3>3. {d \in R \ {c} : b \in BodiesOf(d) /\ Solid(d) /\ d.touching}
            = {d \in R : b \in BodiesOf(d) /\ Solid(d) /\ d.touching}
      BY <3>1
    <3> QED
      BY <3>2, <3>3 DEF Held, R
  <2>4. Disturbs(r, s)
    BY <2>2, <2>3 DEF Disturbs
  <2> QED
    BY <1>2, <1>3, <2>2, <2>4 DEF r, R
<1>7. CASE ~ (c.touching /\ Solid(c))
  <2>1. r = gone
    BY <1>7, <1>a
  <2> HIDE DEF r
  <2>2. ASSUME NEW b \in Moving \ r.awake PROVE Held(r.contacts, b) = Held(s.contacts, b)
    <3>1. Range(r.contacts) = R \ {c}
      BY <1>2, <1>3, <2>1
    <3>2. {d \in R \ {c} : b \in BodiesOf(d) /\ Solid(d) /\ d.touching}
            = {d \in R : b \in BodiesOf(d) /\ Solid(d) /\ d.touching}
      BY <1>7
    <3> QED
      BY <3>1, <3>2 DEF Held, R
  <2>3. Disturbs(r, s)
    BY <1>3, <2>1, <2>2 DEF Disturbs
  <2> QED
    BY <1>2, <1>3, <1>4, <2>1, <2>3 DEF r, R
<1> QED
  BY <1>6, <1>7

(* A contact that is updated touches if its shapes do; its bodies are      *)
(* woken if that is new.                                                   *)
Said(c, now) == [c EXCEPT !.touching = now]
Updated(c, p) == Said(c, Touch(c.a, p[BodyOf[c.a]], c.b, p[BodyOf[c.b]]))

LEMMA SetTouchingFields ==
  ASSUME NEW E, NEW L, Peopled(E, L), NEW s \in Fields(E, L), NEW c \in Met(E), NEW now \in BOOLEAN
  PROVE  LET r == SetTouching(s, c, now)
         IN /\ r \in Fields(E, L)
            /\ Range(r.contacts) = {IF d = c THEN Said(c, now) ELSE d : d \in Range(s.contacts)}
            /\ Once(s.contacts) => Once(r.contacts)
            /\ Disturbs(r, s)
<1> DEFINE r == SetTouching(s, c, now)
           u == Said(c, now)
           list == [i \in DOMAIN s.contacts |-> IF s.contacts[i] = c THEN u ELSE s.contacts[i]]
           marked == [s EXCEPT !.contacts = list]
           R == Range(s.contacts)
<1>1. /\ s.contacts \in Seq(Met(E)) /\ s.awake \subseteq L \ Static /\ s.rest \in [Bodies -> 0..TimeToSleep]
      /\ s = [contacts |-> s.contacts, awake |-> s.awake, rest |-> s.rest]
  BY DEF Fields
<1>2. /\ c = [a |-> c.a, b |-> c.b, touching |-> c.touching] /\ c.a \in E /\ c.b \in E
      /\ c.touching \in BOOLEAN /\ ShouldCollide(c.a, c.b) /\ BodiesOf(c) \in SUBSET L
  BY MetContact
<1>4. u = [a |-> c.a, b |-> c.b, touching |-> now]
  BY <1>2 DEF Said
<1>b. r = IF Solid(c) /\ now # c.touching THEN SetAwake(marked, BodiesOf(c)) ELSE marked
  BY DEF SetTouching, Said
<1> HIDE DEF u, r
<1>5. /\ u \in Met(E) /\ u.a = c.a /\ u.b = c.b /\ u.touching = now
      /\ Pair(u) = Pair(c) /\ BodiesOf(u) = BodiesOf(c) /\ (Solid(u) <=> Solid(c))
  BY <1>2, <1>4 DEF Met, Pair, BodiesOf, Solid
<1>6. list \in Seq(Met(E)) /\ DOMAIN list = DOMAIN s.contacts
  BY <1>1, <1>5
<1>7. Range(list) = {IF d = c THEN u ELSE d : d \in R}
  BY <1>1, <1>6 DEF Range
<1>8. Once(s.contacts) => Once(list)
  <2> SUFFICES ASSUME Once(s.contacts), NEW i \in DOMAIN list, NEW j \in DOMAIN list, Pair(list[i]) = Pair(list[j])
               PROVE  i = j
    BY DEF Once
  <2>1. \A k \in DOMAIN list : Pair(list[k]) = Pair(s.contacts[k])
    BY <1>5, <1>6
  <2> QED
    BY <1>6, <2>1 DEF Once
<1>9. /\ marked = [contacts |-> list, awake |-> s.awake, rest |-> s.rest]
      /\ marked.contacts = list /\ marked.awake = s.awake
  <2> HIDE DEF list
  <2> QED
    BY <1>1
<1> HIDE DEF list
<1>10. marked \in Fields(E, L)
  BY <1>1, <1>6, <1>9 DEF Fields
<1> HIDE DEF marked, R
<1>11. CASE Solid(c) /\ now # c.touching
  <2>1. r = SetAwake(marked, BodiesOf(c))
    BY <1>11, <1>b
  <2>2. r \in Fields(E, L) /\ r.contacts = list /\ r.awake = s.awake \cup (BodiesOf(c) \ Static)
    BY <1>2, <1>9, <1>10, <2>1, SetAwakeFields
  <2>3. ASSUME NEW b \in Moving \ r.awake PROVE Held(r.contacts, b) = Held(s.contacts, b)
    <3>1. b \notin BodiesOf(c)
      BY <2>2, <2>3 DEF Moving
    <3>2. {d \in Range(list) : b \in BodiesOf(d) /\ Solid(d) /\ d.touching}
            = {d \in R : b \in BodiesOf(d) /\ Solid(d) /\ d.touching}
      BY <1>5, <1>7, <3>1
    <3> QED
      BY <2>2, <3>2 DEF Held, R
  <2>4. Disturbs(r, s)
    BY <2>2, <2>3 DEF Disturbs
  <2> QED
    BY <1>7, <1>8, <2>2, <2>4 DEF r, R, u
<1>12. CASE ~ (Solid(c) /\ now # c.touching)
  <2>1. r = marked /\ r.contacts = list /\ r.awake = s.awake
    BY <1>9, <1>12, <1>b
  <2>2. ASSUME NEW b \in Moving \ r.awake PROVE Held(r.contacts, b) = Held(s.contacts, b)
    <3>1. {d \in Range(list) : b \in BodiesOf(d) /\ Solid(d) /\ d.touching}
            = {d \in R : b \in BodiesOf(d) /\ Solid(d) /\ d.touching}
      <4>1. CASE ~ Solid(c)
        BY <1>5, <1>7, <4>1
      <4>2. CASE now = c.touching
        <5>1. u = c
          BY <1>2, <1>4, <4>2
        <5> QED
          BY <1>7, <5>1
      <4> QED
        BY <1>12, <4>1, <4>2
    <3> QED
      BY <2>1, <3>1 DEF Held, R
  <2>3. Disturbs(r, s)
    BY <2>1, <2>2 DEF Disturbs
  <2> QED
    BY <1>7, <1>8, <1>10, <2>1, <2>3 DEF r, R, u
<1> QED
  BY <1>11, <1>12

(* The set of contacts R, of which c is updated at p.                      *)
Marked(R, c, p) == {IF d = c THEN Updated(c, p) ELSE d : d \in R}

LEMMA UpdateContactFields ==
  ASSUME NEW E, NEW L, Peopled(E, L), NEW s \in Fields(E, L), NEW c \in Met(E), NEW p
  PROVE  LET r == UpdateContact(s, c, p)
         IN /\ r \in Fields(E, L)
            /\ Range(r.contacts) = Marked(Range(s.contacts), c, p)
            /\ Once(s.contacts) => Once(r.contacts)
            /\ Disturbs(r, s)
<1> DEFINE now == Touch(c.a, p[BodyOf[c.a]], c.b, p[BodyOf[c.b]])
<1>1. now \in BOOLEAN
  BY DEF Touch, Overlap
<1>2. UpdateContact(s, c, p) = SetTouching(s, c, now) /\ Updated(c, p) = Said(c, now)
  BY DEF UpdateContact, Updated
<1> HIDE DEF now
<1> QED
  BY <1>1, <1>2, SetTouchingFields DEF Marked

-----------------------------------------------------------------------------
(* The proxies are the leaves: one for each fixture that exists.           *)
Indexed(bp, px) ==
  /\ bp \in BroadPhases /\ px \in [Fixtures -> Ids]
  /\ Leaves(bp.tree) = {px[f] : f \in {g \in Fixtures : px[g] # Null}}
  /\ \A f, g \in Fixtures : px[f] = px[g] /\ px[f] # Null => f = g
  /\ bp.move \subseteq Leaves(bp.tree)
(* The fixtures with a proxy, and the pairs of a list of contacts.          *)
Existing == {f \in Fixtures : Exists(f)}
PairsIn(cs) == {Pair(c) : c \in Range(cs)}

(* The owner of a leaf is the fixture whose proxy it is.                   *)
LEMMA Owner ==
  ASSUME NEW bp, Indexed(bp, proxy)
  PROVE  /\ \A i \in Leaves(bp.tree) : OwnerOf(i) \in Existing /\ proxy[OwnerOf(i)] = i
         /\ \A f \in Existing : proxy[f] \in Leaves(bp.tree) /\ OwnerOf(proxy[f]) = f
<1>1. \A i \in Leaves(bp.tree) : OwnerOf(i) \in Existing /\ proxy[OwnerOf(i)] = i
  <2> TAKE i \in Leaves(bp.tree)
  <2>1. \E f \in Fixtures : proxy[f] = i
    BY DEF Indexed
  <2>2. OwnerOf(i) \in Fixtures /\ proxy[OwnerOf(i)] = i
    BY <2>1 DEF OwnerOf
  <2>3. i # Null
    BY WholeTree DEF Indexed, BroadPhases
  <2> QED
    BY <2>2, <2>3 DEF Existing, Exists
<1>2. \A f \in Existing : proxy[f] \in Leaves(bp.tree)
  BY DEF Indexed, Existing, Exists
<1>3. \A f \in Existing : OwnerOf(proxy[f]) = f
  BY <1>1, <1>2 DEF Indexed, Existing, Exists
<1> QED
  BY <1>1, <1>2, <1>3

(* A pair that is added joins the owners, unless they should not collide;  *)
(* no body rests on a new contact yet.                                     *)
LEMMA AddPairFields ==
  ASSUME NEW L, Peopled(Existing, L), NEW s \in Fields(Existing, L), Once(s.contacts),
         NEW p, OwnerOf(p[1]) \in Existing, OwnerOf(p[2]) \in Existing
  PROVE  LET r == AddPair(s, p)
             f == OwnerOf(p[1])
             g == OwnerOf(p[2])
         IN /\ r \in Fields(Existing, L) /\ Once(r.contacts) /\ s.awake \subseteq r.awake
            /\ PairsIn(s.contacts) \subseteq PairsIn(r.contacts)
            /\ ShouldCollide(f, g) => {f, g} \in PairsIn(r.contacts)
            /\ \A b \in Bodies : Held(r.contacts, b) = Held(s.contacts, b)
<1> DEFINE r == AddPair(s, p)
           f == OwnerOf(p[1])
           g == OwnerOf(p[2])
           new == [a |-> f, b |-> g, touching |-> FALSE]
           known == \E i \in DOMAIN s.contacts : Pair(s.contacts[i]) = {f, g}
           list == <<new>> \o s.contacts
           added == [s EXCEPT !.contacts = list]
<1>1. /\ s.contacts \in Seq(Met(Existing)) /\ s.awake \subseteq L \ Static /\ s.rest \in [Bodies -> 0..TimeToSleep]
      /\ s = [contacts |-> s.contacts, awake |-> s.awake, rest |-> s.rest]
  BY DEF Fields
<1>2. CASE known \/ ~ ShouldCollide(f, g)
  <2>1. r = s
    BY <1>2 DEF AddPair
  <2>2. known => {f, g} \in PairsIn(s.contacts)
    BY DEF PairsIn, Range
  <2> QED
    BY <1>2, <2>1, <2>2
<1>3. CASE ~ known /\ ShouldCollide(f, g)
  <2>1. r = IF Solid(new) THEN SetAwake(added, BodiesOf(new)) ELSE added
    BY <1>3 DEF AddPair
  <2>2. new \in Met(Existing) /\ Pair(new) = {f, g} /\ ~ new.touching
    BY <1>3 DEF Met, Pair
  <2>3. ~ known
    BY <1>3
  <2> HIDE DEF new
  <2>4. /\ list \in Seq(Met(Existing)) /\ Len(list) = Len(s.contacts) + 1 /\ list[1] = new
        /\ \A i \in 2..Len(list) : i - 1 \in 1..Len(s.contacts) /\ list[i] = s.contacts[i - 1]
    BY <1>1, <2>2
  <2>5. Range(list) = Range(s.contacts) \cup {new}
    <3>1. DOMAIN list = 1..(Len(s.contacts) + 1) /\ DOMAIN s.contacts = 1..Len(s.contacts) /\ Len(s.contacts) \in Nat
      BY <1>1, <2>4
    <3>2. \A i \in 1..Len(s.contacts) : i + 1 \in 2..Len(list) /\ (i + 1) - 1 = i /\ list[i + 1] = s.contacts[i]
      BY <2>4, <3>1
    <3>3. \A i \in DOMAIN list : i = 1 \/ i \in 2..Len(list)
      BY <2>4, <3>1
    <3>4. \A x \in Range(list) : x \in Range(s.contacts) \cup {new}
      BY <2>4, <3>1, <3>3 DEF Range
    <3>5. \A i \in 1..Len(s.contacts) : s.contacts[i] \in Range(list)
      <4> TAKE i \in 1..Len(s.contacts)
      <4>1. i + 1 \in DOMAIN list
        BY <3>1
      <4> QED
        BY <3>2, <4>1 DEF Range
    <3>6. new \in Range(list)
      <4>1. 1 \in DOMAIN list
        BY <3>1
      <4> QED
        BY <2>4, <4>1 DEF Range
    <3> QED
      BY <3>1, <3>4, <3>5, <3>6 DEF Range
  <2>6. Once(list)
    <3> SUFFICES ASSUME NEW i \in 1..Len(list), NEW j \in 1..Len(list), Pair(list[i]) = Pair(list[j])
                 PROVE  i = j
      BY <2>4 DEF Once
    <3>1. \A k \in 1..Len(s.contacts) : Pair(s.contacts[k]) # Pair(new)
      BY <1>1, <2>2, <2>3, SMTT(30)
    <3>2. \A k \in 1..Len(list) : k = 1 \/ k \in 2..Len(list)
      BY <1>1, <2>4
    <3>3. \A k, l \in 1..Len(s.contacts) : Pair(s.contacts[k]) = Pair(s.contacts[l]) => k = l
      BY <1>1 DEF Once
    <3>4. CASE i = 1
      BY <2>4, <3>1, <3>2, <3>4
    <3>5. CASE j = 1
      BY <2>4, <3>1, <3>2, <3>5
    <3>6. CASE i \in 2..Len(list) /\ j \in 2..Len(list)
      <4>1. i - 1 = j - 1
        BY <2>4, <3>3, <3>6
      <4> QED
        BY <4>1
    <3> QED
      BY <3>2, <3>4, <3>5, <3>6
  <2> HIDE DEF list
  <2>7. /\ added = [contacts |-> list, awake |-> s.awake, rest |-> s.rest]
        /\ added.contacts = list /\ added.awake = s.awake
    BY <1>1
  <2>8. added \in Fields(Existing, L)
    BY <1>1, <2>4, <2>7 DEF Fields
  <2> HIDE DEF added, r
  <2>9. r \in Fields(Existing, L) /\ r.contacts = list /\ s.awake \subseteq r.awake
    <3>1. CASE Solid(new)
      <4>1. BodiesOf(new) \in SUBSET L
        BY <2>2, MetContact
      <4> QED
        BY <2>1, <2>7, <2>8, <3>1, <4>1, SetAwakeFields
    <3>2. CASE ~ Solid(new)
      BY <2>1, <2>7, <2>8, <3>2
    <3> QED
      BY <3>1, <3>2
  <2>10. ASSUME NEW b \in Bodies PROVE Held(r.contacts, b) = Held(s.contacts, b)
    <3>1. {d \in Range(list) : b \in BodiesOf(d) /\ Solid(d) /\ d.touching}
            = {d \in Range(s.contacts) : b \in BodiesOf(d) /\ Solid(d) /\ d.touching}
      BY <2>2, <2>5
    <3> QED
      BY <2>9, <3>1 DEF Held
  <2>11. PairsIn(r.contacts) = PairsIn(s.contacts) \cup {{f, g}}
    <3> HIDE DEF f, g
    <3> QED
      BY <2>2, <2>5, <2>9 DEF PairsIn
  <2> HIDE DEF f, g
  <2> QED
    BY <2>6, <2>9, <2>10, <2>11 DEF r, f, g
<1> QED
  BY <1>2, <1>3

(* The pairs that are found become contacts, whatever was in contact       *)
(* before; nobody falls asleep or rests on something else.                 *)
LEMMA FindNewContactsFields ==
  ASSUME NEW L, Peopled(Existing, L), NEW s \in Fields(Existing, L), Once(s.contacts),
         NEW bp, Indexed(bp, proxy)
  PROVE  LET r == FindNewContacts(s, bp)
         IN /\ r \in Fields(Existing, L) /\ Once(r.contacts) /\ s.awake \subseteq r.awake
            /\ PairsIn(s.contacts) \subseteq PairsIn(r.contacts)
            /\ \A f, g \in Existing :
                 /\ ShouldCollide(f, g) /\ {proxy[f], proxy[g]} \cap bp.move # {}
                 /\ TestOverlap(bp, proxy[f], proxy[g])
                 => {f, g} \in PairsIn(r.contacts)
            /\ \A b \in Bodies : Held(r.contacts, b) = Held(s.contacts, b)
<1> DEFINE P == {p \in Leaves(bp.tree) \X Leaves(bp.tree) : p[1] # p[2]}
           ps == Pairs(bp)
           N == Len(ps)
           Joins(p, cs) == ShouldCollide(OwnerOf(p[1]), OwnerOf(p[2])) =>
                             {OwnerOf(p[1]), OwnerOf(p[2])} \in PairsIn(cs)
           Upto(n, x) == /\ Once(x.contacts) /\ s.awake \subseteq x.awake
                         /\ PairsIn(s.contacts) \subseteq PairsIn(x.contacts)
                         /\ \A b \in Bodies : Held(x.contacts, b) = Held(s.contacts, b)
                         /\ \A m \in 1..n : Joins(ps[m], x.contacts)
           Inv == {y \in (0..N) \X Fields(Existing, L) : Upto(y[1], y[2])}
<1>1. ps \in Seq(P) /\ \A i \in bp.move : \A j \in Leaves(bp.tree) \ {i} :
        TestOverlap(bp, i, j) => \E n \in 1..N : {ps[n][1], ps[n][2]} = {i, j}
  BY PairsSound DEF Indexed
<1> HIDE DEF ps
<1>2. N \in Nat /\ \A n \in 1..N : ps[n] \in P
  BY <1>1
<1>3. <<0, s>> \in Inv
  BY <1>2
<1>4. ASSUME NEW a, NEW n \in 1..N, <<n - 1, a>> \in Inv
      PROVE  <<n, AddPair(a, ps[n])>> \in Inv
  <2> DEFINE q == ps[n]
             r == AddPair(a, q)
             m == n - 1
  <2>1. a \in Fields(Existing, L) /\ Upto(m, a)
    BY <1>4
  <2>2. OwnerOf(q[1]) \in Existing /\ OwnerOf(q[2]) \in Existing
    BY <1>2, Owner
  <2>3. \A k \in 1..n : k \in 1..m \/ k = n
    BY <1>2
  <2>4. n \in 0..N
    BY <1>2
  <2> HIDE DEF m
  <2>5. /\ r \in Fields(Existing, L) /\ Once(r.contacts) /\ a.awake \subseteq r.awake
        /\ PairsIn(a.contacts) \subseteq PairsIn(r.contacts)
        /\ Joins(q, r.contacts)
        /\ \A b \in Bodies : Held(r.contacts, b) = Held(a.contacts, b)
    BY <2>1, <2>2, AddPairFields
  <2> HIDE DEF r
  <2>6. Upto(n, r)
    BY <2>1, <2>3, <2>5
  <2> HIDE DEF Upto
  <2> QED
    BY <2>4, <2>5, <2>6 DEF r
<1> DEFINE w == Adding!Fold(s, ps)
<1>5. <<N, w>> \in Inv
  <2> HIDE DEF Inv
  <2>1. \A a : \A n \in 1..Len(ps) : <<n - 1, a>> \in Inv => <<n, AddPair(a, ps[n])>> \in Inv
    BY <1>4
  <2> QED
    BY <1>1, <1>3, <2>1, Adding!FoldProgress
<1>6. FindNewContacts(s, bp) = w
  BY DEF FindNewContacts, ps
<1> HIDE DEF w
<1>7. w \in Fields(Existing, L) /\ Upto(N, w)
  BY <1>5
<1>8. ASSUME NEW f \in Existing, NEW g \in Existing, ShouldCollide(f, g),
             proxy[f] \in bp.move, TestOverlap(bp, proxy[f], proxy[g])
      PROVE  {f, g} \in PairsIn(w.contacts)
  <2>1. /\ proxy[f] \in Leaves(bp.tree) /\ OwnerOf(proxy[f]) = f
        /\ proxy[g] \in Leaves(bp.tree) /\ OwnerOf(proxy[g]) = g
    BY Owner
  <2>2. proxy[f] # proxy[g]
    BY <1>8, <2>1 DEF ShouldCollide
  <2>3. PICK n \in 1..N : {ps[n][1], ps[n][2]} = {proxy[f], proxy[g]}
    BY <1>1, <1>8, <2>1, <2>2
  <2>4. {OwnerOf(ps[n][1]), OwnerOf(ps[n][2])} = {f, g}
    BY <2>1, <2>2, <2>3
  <2>5. ShouldCollide(OwnerOf(ps[n][1]), OwnerOf(ps[n][2]))
    <3>1. ShouldCollide(g, f)
      BY <1>8 DEF ShouldCollide
    <3> QED
      BY <1>8, <2>1, <2>2, <2>3, <3>1
  <2> QED
    BY <1>7, <2>4, <2>5
<1>9. \A f, g \in Existing :
        /\ ShouldCollide(f, g) /\ {proxy[f], proxy[g]} \cap bp.move # {}
        /\ TestOverlap(bp, proxy[f], proxy[g])
        => {f, g} \in PairsIn(w.contacts)
  <2> SUFFICES ASSUME NEW f \in Existing, NEW g \in Existing, ShouldCollide(f, g),
                      {proxy[f], proxy[g]} \cap bp.move # {}, TestOverlap(bp, proxy[f], proxy[g])
               PROVE  {f, g} \in PairsIn(w.contacts)
    OBVIOUS
  <2>1. ShouldCollide(g, f) /\ TestOverlap(bp, proxy[g], proxy[f]) /\ {g, f} = {f, g}
    BY DEF ShouldCollide, TestOverlap, Overlap
  <2> QED
    BY <1>8, <2>1
<1> QED
  BY <1>6, <1>7, <1>9

-----------------------------------------------------------------------------
(***************************************************************************)
(* The loops over the contacts.                                            *)
(***************************************************************************)
(* A contact whose boxes overlap, and one that Collide does not skip.       *)
Near(c) == TestOverlap(broadPhase, proxy[c.a], proxy[c.b])
AwakeContact(c, s) == BodiesOf(c) \cap s.awake # {}

(* Collide's loop over the list it starts with loses no pair whose fat     *)
(* boxes overlap, and what it leaves of a contact of an awake body is near *)
(* and up to date.                                                         *)
LEMMA CollidingFields ==
  ASSUME NEW L, Peopled(Existing, L), NEW s \in Fields(Existing, L), Once(s.contacts)
  PROVE  LET r == Colliding!Fold(s, s.contacts)
         IN /\ r \in Fields(Existing, L) /\ Once(r.contacts) /\ Disturbs(r, s)
            /\ \A c \in Range(s.contacts) : Near(c) => Pair(c) \in PairsIn(r.contacts)
            /\ \A d \in Range(r.contacts) : \E c \in Range(s.contacts) :
                 Pair(c) = Pair(d) /\ (AwakeContact(c, s) => Near(c) /\ d = Updated(c, pos))
<1> DEFINE cs == s.contacts
           N == Len(cs)
           From(n, d, i) == /\ Pair(cs[i]) = Pair(d)
                            /\ i > n => d = cs[i]
                            /\ i <= n /\ AwakeContact(cs[i], s) => Near(cs[i]) /\ d = Updated(cs[i], pos)
           Upto(n, x) == /\ Once(x.contacts) /\ Disturbs(x, s)
                         /\ \A i \in 1..n : Near(cs[i]) => Pair(cs[i]) \in PairsIn(x.contacts)
                         /\ \A i \in (n + 1)..N : cs[i] \in Range(x.contacts)
                         /\ \A d \in Range(x.contacts) : \E i \in 1..N : From(n, d, i)
           Inv == {y \in (0..N) \X Fields(Existing, L) : Upto(y[1], y[2])}
<1>1. /\ cs \in Seq(Met(Existing)) /\ N \in Nat /\ DOMAIN cs = 1..N
      /\ \A i \in 1..N : cs[i] \in Met(Existing)
  BY DEF Fields
<1>2. \A i, j \in 1..N : Pair(cs[i]) = Pair(cs[j]) => i = j
  BY <1>1 DEF Once
<1>3. Range(cs) = {cs[i] : i \in 1..N}
  BY <1>1 DEF Range
<1> HIDE DEF cs
<1>4. <<0, s>> \in Inv
  <2>1. s.contacts = cs
    BY DEF cs
  <2>2. Disturbs(s, s)
    BY DEF Disturbs
  <2>3. \A i \in 1..N : From(0, cs[i], i)
    BY <1>1
  <2> HIDE DEF From
  <2>4. \A d \in Range(cs) : \E i \in 1..N : From(0, d, i)
    BY <1>3, <2>3
  <2>5. \A i \in (0 + 1)..N : cs[i] \in Range(cs)
    BY <1>3
  <2>6. Upto(0, s)
    BY <2>1, <2>2, <2>4, <2>5
  <2> HIDE DEF Upto
  <2> QED
    BY <1>1, <2>6
<1>5. ASSUME NEW a, NEW n \in 1..N, <<n - 1, a>> \in Inv
      PROVE  <<n, CollideContact(a, cs[n])>> \in Inv
  <2> DEFINE c == cs[n]
             r == CollideContact(a, c)
             m == n - 1
  <2>1. a \in Fields(Existing, L) /\ Upto(m, a)
    BY <1>5
  <2>2. /\ m \in Nat /\ n \in Nat /\ n = m + 1 /\ n \in 0..N /\ c \in Met(Existing)
    BY <1>1
  <2> HIDE DEF m, Upto
  <2>a. /\ Once(a.contacts) /\ Disturbs(a, s)
        /\ \A i \in 1..m : Near(cs[i]) => Pair(cs[i]) \in PairsIn(a.contacts)
        /\ \A i \in n..N : cs[i] \in Range(a.contacts)
        /\ \A d \in Range(a.contacts) : \E i \in 1..N : From(m, d, i)
    BY <2>1, <2>2 DEF Upto
  <2>b. s.awake \subseteq a.awake
    BY <2>a DEF Disturbs
  <2>f. a \in Fields(Existing, L) /\ Once(a.contacts)
    BY <2>1, <2>a
  <2>c. c \in Range(a.contacts) /\ \A i \in (n + 1)..N : cs[i] \in Range(a.contacts) /\ cs[i] # c
    <3>1. n \in n..N /\ \A i \in (n + 1)..N : i \in n..N /\ i # n /\ i \in 1..N
      BY <2>2
    <3> QED
      BY <1>2, <2>a, <3>1
  <2>d. \A i \in 1..n : i \in 1..m \/ i = n
    BY <2>2
  <2>e. \A i \in 1..m : i \in 1..N /\ i # n /\ Pair(cs[i]) # Pair(c)
    <3>1. \A i \in 1..m : i \in 1..N /\ i # n
      BY <2>2
    <3> QED
      BY <1>2, <3>1
  <2> HIDE DEF c, r
  <2>3. CASE BodiesOf(c) \cap a.awake = {}
    <3>1. r = a
      BY <2>3 DEF r, CollideContact
    <3>2. ~ AwakeContact(c, s)
      BY <2>3, <2>b DEF AwakeContact
    <3>3. \A d : \A i \in 1..N : From(m, d, i) => From(n, d, i)
      <4> SUFFICES ASSUME NEW d, NEW i \in 1..N, From(m, d, i) PROVE From(n, d, i)
        OBVIOUS
      <4>1. CASE i = n
        BY <2>2, <3>2, <4>1 DEF c
      <4>2. CASE i # n
        BY <2>2, <4>2
      <4> QED
        BY <4>1, <4>2
    <3>4. Pair(c) \in PairsIn(a.contacts)
      BY <2>c DEF PairsIn
    <3> HIDE DEF From
    <3>5. Upto(n, r)
      BY <2>2, <2>a, <2>c, <2>d, <3>1, <3>3, <3>4 DEF Upto, c
    <3> QED
      BY <2>1, <2>2, <3>1, <3>5 DEF r, c
  <2>4. CASE BodiesOf(c) \cap a.awake # {} /\ Near(c)
    <3>1. r = UpdateContact(a, c, pos)
      BY <2>4 DEF r, CollideContact, Near
    <3> DEFINE u == Updated(c, pos)
    <3>2. /\ r \in Fields(Existing, L)
          /\ Range(r.contacts) = Marked(Range(a.contacts), c, pos)
          /\ Once(r.contacts) /\ Disturbs(r, a)
      BY <2>2, <2>f, <3>1, UpdateContactFields
    <3>0. Range(r.contacts) = {IF d = c THEN u ELSE d : d \in Range(a.contacts)}
      BY <3>2 DEF Marked
    <3>3. Pair(u) = Pair(c)
      BY <2>2, MetContact DEF Updated, Said, Pair
    <3> HIDE DEF u
    <3>4. Disturbs(r, s)
      BY <2>a, <3>2, DisturbsTwice
    <3>5. PairsIn(r.contacts) = PairsIn(a.contacts)
      BY <3>0, <3>3 DEF PairsIn
    <3>6. Pair(c) \in PairsIn(a.contacts)
      BY <2>c DEF PairsIn
    <3>7. \A i \in 1..n : Near(cs[i]) => Pair(cs[i]) \in PairsIn(r.contacts)
      BY <2>a, <2>d, <3>5, <3>6 DEF c
    <3>8. \A i \in (n + 1)..N : cs[i] \in Range(r.contacts)
      BY <2>c, <3>0
    <3>9. ASSUME NEW d \in Range(r.contacts) PROVE \E i \in 1..N : From(n, d, i)
      <4>1. CASE d = u
        <5>1. From(n, d, n)
          BY <2>2, <2>4, <3>3, <4>1 DEF c, u
        <5> HIDE DEF From
        <5> QED
          BY <5>1
      <4>2. CASE d # u
        <5>1. d \in Range(a.contacts) /\ d # c
          BY <3>0, <4>2
        <5>2. PICK i \in 1..N : From(m, d, i)
          BY <2>a, <5>1
        <5>3. i # n
          BY <2>2, <5>1, <5>2 DEF c
        <5>4. From(n, d, i)
          BY <2>2, <5>2, <5>3
        <5> HIDE DEF From
        <5> QED
          BY <5>4
      <4> QED
        BY <4>1, <4>2
    <3> HIDE DEF From
    <3>10. Upto(n, r)
      BY <3>2, <3>4, <3>7, <3>8, <3>9 DEF Upto
    <3> QED
      BY <2>2, <3>2, <3>10 DEF r, c
  <2>5. CASE BodiesOf(c) \cap a.awake # {} /\ ~ Near(c)
    <3>1. r = DestroyContact(a, c)
      BY <2>5 DEF r, CollideContact, Near
    <3>2. /\ r \in Fields(Existing, L) /\ Range(r.contacts) = Range(a.contacts) \ {c}
          /\ Once(r.contacts) /\ Disturbs(r, a)
      <4> HIDE DEF From
      <4>1. LET q == DestroyContact(a, c)
            IN /\ q \in Fields(Existing, L) /\ Range(q.contacts) = Range(a.contacts) \ {c}
               /\ Once(q.contacts) /\ Disturbs(q, a)
        BY <2>2, <2>f, DestroyContactFields
      <4> QED
        BY <3>1, <4>1
    <3>3. Disturbs(r, s)
      BY <2>a, <3>2, DisturbsTwice
    <3>4. \A i \in 1..n : Near(cs[i]) => Pair(cs[i]) \in PairsIn(r.contacts)
      <4> SUFFICES ASSUME NEW i \in 1..n, Near(cs[i]) PROVE Pair(cs[i]) \in PairsIn(r.contacts)
        OBVIOUS
      <4>1. i \in 1..m
        BY <2>5, <2>d DEF c
      <4>2. PICK d \in Range(a.contacts) : Pair(d) = Pair(cs[i])
        BY <2>a, <4>1 DEF PairsIn
      <4>3. d # c
        BY <2>e, <4>1, <4>2
      <4> QED
        BY <3>2, <4>2, <4>3 DEF PairsIn
    <3>5. \A i \in (n + 1)..N : cs[i] \in Range(r.contacts)
      BY <2>c, <3>2
    <3>6. ASSUME NEW d \in Range(r.contacts) PROVE \E i \in 1..N : From(n, d, i)
      <4>1. d \in Range(a.contacts) /\ d # c
        BY <3>2
      <4>2. PICK i \in 1..N : From(m, d, i)
        BY <2>a, <4>1
      <4>3. i # n
        BY <2>2, <4>1, <4>2 DEF c
      <4>4. From(n, d, i)
        BY <2>2, <4>2, <4>3
      <4> HIDE DEF From
      <4> QED
        BY <4>4
    <3> HIDE DEF From
    <3>7. Upto(n, r)
      BY <3>2, <3>3, <3>4, <3>5, <3>6 DEF Upto
    <3> QED
      BY <2>2, <3>2, <3>7 DEF r, c
  <2> QED
    BY <2>3, <2>4, <2>5
<1> DEFINE w == Colliding!Fold(s, cs)
<1>6. <<N, w>> \in Inv
  <2> HIDE DEF Inv
  <2>1. \A a : \A n \in 1..Len(cs) : <<n - 1, a>> \in Inv => <<n, CollideContact(a, cs[n])>> \in Inv
    BY <1>5
  <2> QED
    BY <1>1, <1>4, <2>1, Colliding!FoldProgress
<1>7. Colliding!Fold(s, s.contacts) = w
  BY DEF cs
<1> HIDE DEF w
<1>8. w \in Fields(Existing, L) /\ Upto(N, w)
  BY <1>6
<1>9. \A d \in Range(w.contacts) : \E c \in Range(cs) :
        Pair(c) = Pair(d) /\ (AwakeContact(c, s) => Near(c) /\ d = Updated(c, pos))
  <2> TAKE d \in Range(w.contacts)
  <2>1. PICK i \in 1..N : From(N, d, i)
    BY <1>8
  <2>2. i <= N /\ cs[i] \in Range(cs)
    BY <1>1, <1>3
  <2> QED
    BY <2>1, <2>2
<1>10. \A c \in Range(cs) : Near(c) => Pair(c) \in PairsIn(w.contacts)
  BY <1>3, <1>8
<1> QED
  BY <1>7, <1>8, <1>9, <1>10 DEF cs

(* The update of contacts at a time of impact loses no pair.               *)
LEMMA UpdateAtImpactFields ==
  ASSUME NEW E, NEW L, Peopled(E, L), State(contacts) \in Fields(E, L), Once(contacts),
         NEW b \in L, NEW p
  PROVE  LET r == UpdateAtImpact(b, p)
         IN /\ r \in Fields(E, L) /\ Once(r.contacts) /\ Disturbs(r, State(contacts))
            /\ PairsIn(r.contacts) = PairsIn(contacts)
<1> DEFINE s == State(contacts)
           base == SetAwake(s, {b})
           T == [contact : Met(E), body : {b}, at : {p}]
           ms == [i \in DOMAIN contacts |-> [contact |-> contacts[i], body |-> b, at |-> p]]
           Inv == {x \in Fields(E, L) : /\ Once(x.contacts) /\ Disturbs(x, s)
                                        /\ PairsIn(x.contacts) = PairsIn(contacts)}
<1>1. contacts \in Seq(Met(E)) /\ s.contacts = contacts
  BY DEF State, Fields
<1>2. ms \in Seq(T)
  <2>1. /\ Len(contacts) \in Nat /\ DOMAIN contacts = 1..Len(contacts)
        /\ \A i \in 1..Len(contacts) : contacts[i] \in Met(E)
    BY <1>1
  <2>2. \A i \in 1..Len(contacts) : ms[i] \in T
    BY <2>1
  <2>3. ms = [i \in 1..Len(contacts) |-> ms[i]]
    BY <2>1
  <2> HIDE DEF ms, T
  <2> QED
    BY <2>1, <2>2, <2>3
<1>3. base \in Inv
  <2>1. base \in Fields(E, L) /\ base.contacts = contacts /\ Disturbs(base, s)
    <3> HIDE DEF s, base
    <3>1. {b} \in SUBSET L
      OBVIOUS
    <3> QED
      BY <1>1, <3>1, SetAwakeFields DEF base, s
  <2> HIDE DEF base
  <2> QED
    BY <2>1
<1>4. ASSUME NEW a \in Inv, NEW m \in T PROVE ImpactContact(a, m) \in Inv
  <2> DEFINE c == m.contact
             r == UpdateContact(a, c, m.at)
  <2>1. c \in Met(E) /\ a \in Fields(E, L) /\ Once(a.contacts) /\ Disturbs(a, s) /\ PairsIn(a.contacts) = PairsIn(contacts)
    OBVIOUS
  <2>2. ImpactContact(a, m) = r \/ ImpactContact(a, m) = a
    BY DEF ImpactContact
  <2> HIDE DEF c, s
  <2>3. /\ r \in Fields(E, L)
        /\ Range(r.contacts) = Marked(Range(a.contacts), c, m.at)
        /\ Once(r.contacts) /\ Disturbs(r, a)
    <3>1. a \in Fields(E, L) /\ Once(a.contacts) /\ c \in Met(E)
      BY <2>1
    <3> HIDE DEF Inv
    <3> QED
      BY <3>1, UpdateContactFields
  <2> HIDE DEF r
  <2>4. Pair(Updated(c, m.at)) = Pair(c)
    BY <2>1, MetContact DEF Updated, Said, Pair
  <2>5. PairsIn(r.contacts) = PairsIn(contacts)
    BY <2>1, <2>3, <2>4 DEF PairsIn, Marked
  <2>6. Disturbs(r, s)
    BY <2>1, <2>3, DisturbsTwice
  <2> QED
    BY <2>2, <2>3, <2>5, <2>6
<1> DEFINE w == Impacting!Fold(base, ms)
<1>5. w \in Inv
  <2> HIDE DEF base, ms, T, Inv
  <2> QED
    BY <1>2, <1>3, <1>4, Impacting!FoldInvariant
<1>6. UpdateAtImpact(b, p) = w
  BY DEF UpdateAtImpact
<1> HIDE DEF w
<1> QED
  BY <1>5, <1>6

(* A list is one of whatever holds all its entries.                        *)
LEMMA ListOf ==
  ASSUME NEW S, NEW q \in Seq(S), NEW T, \A i \in 1..Len(q) : q[i] \in T
  PROVE  q \in Seq(T)
<1> DEFINE n == Len(q)
<1>1. n \in Nat /\ q = [i \in 1..n |-> q[i]] /\ \A i \in 1..n : q[i] \in T
  OBVIOUS
<1> HIDE DEF n
<1> QED
  BY <1>1

(* The contacts of fixtures that go are destroyed, and no other one.       *)
LEMMA DestroyContactsOfFields ==
  ASSUME NEW E, NEW L, Peopled(E, L), State(contacts) \in Fields(E, L), Once(contacts), NEW F
  PROVE  LET r == DestroyContactsOf(F)
         IN /\ r \in Fields(E \ F, L) /\ Once(r.contacts) /\ Disturbs(r, State(contacts))
            /\ Range(r.contacts) = {c \in Range(contacts) : Pair(c) \cap F = {}}
<1> DEFINE s == State(contacts)
           cs == contacts
           N == Len(cs)
           ms == [i \in DOMAIN cs |-> [contact |-> cs[i], fixtures |-> F]]
           T == [contact : Met(E), fixtures : {F}]
           Left(n) == Range(cs) \ {cs[i] : i \in {j \in 1..n : Pair(cs[j]) \cap F # {}}}
           Upto(n, x) == /\ Once(x.contacts) /\ Disturbs(x, s)
                         /\ Range(x.contacts) = Left(n)
           Inv == {y \in (0..N) \X Fields(E, L) : Upto(y[1], y[2])}
<1>1. cs \in Seq(Met(E)) /\ s.contacts = cs /\ N \in Nat /\ DOMAIN cs = 1..N
  BY DEF State, Fields
<1>2. ms \in Seq(T) /\ Len(ms) = N /\ \A i \in 1..N : ms[i] = [contact |-> cs[i], fixtures |-> F] /\ cs[i] \in Met(E)
  BY <1>1
<1>3. <<0, s>> \in Inv
  <2>1. Disturbs(s, s)
    BY DEF Disturbs
  <2>2. Left(0) = Range(cs)
    OBVIOUS
  <2> HIDE DEF Left
  <2> QED
    BY <1>1, <2>1, <2>2
<1>a. \A i \in 1..N : ms[i].contact = cs[i] /\ ms[i].fixtures = F
  BY <1>1
<1> HIDE DEF s, ms, T
<1>4. ASSUME NEW a, NEW n \in 1..N, <<n - 1, a>> \in Inv
      PROVE  <<n, DestroyStep(a, ms[n])>> \in Inv
  <2> DEFINE c == cs[n]
             m == n - 1
             r == DestroyContact(a, c)
  <2>1. a \in Fields(E, L) /\ Once(a.contacts) /\ Disturbs(a, s) /\ Range(a.contacts) = Left(m)
    BY <1>4
  <2>2. c \in Met(E) /\ n \in 0..N
    BY <1>1, <1>2
  <2>3. \A i \in 1..n : i \in 1..m \/ i = n
    BY <1>1
  <2>4. \A i \in 1..m : i \in 1..n
    BY <1>1
  <2>5. n \in 1..n
    BY <1>1
  <2> HIDE DEF m
  <2>6. CASE Pair(c) \cap F = {}
    <3>1. DestroyStep(a, ms[n]) = a
      <4>1. ms[n].contact = c /\ ms[n].fixtures = F
        BY <1>a
      <4> QED
        BY <2>6, <4>1 DEF DestroyStep
    <3>2. Left(n) = Left(m)
      BY <2>3, <2>4, <2>6
    <3> HIDE DEF Left
    <3> QED
      BY <2>1, <2>2, <3>1, <3>2
  <2>7. CASE Pair(c) \cap F # {}
    <3>1. DestroyStep(a, ms[n]) = r
      <4>1. ms[n].contact = c /\ ms[n].fixtures = F
        BY <1>a
      <4> QED
        BY <2>7, <4>1 DEF DestroyStep
    <3> HIDE DEF c
    <3>2. /\ r \in Fields(E, L) /\ Range(r.contacts) = Range(a.contacts) \ {c}
          /\ Once(r.contacts) /\ Disturbs(r, a)
      <4>1. a \in Fields(E, L) /\ Once(a.contacts)
        BY <2>1
      <4> HIDE DEF Left, Inv, Upto
      <4> QED
        BY <2>2, <4>1, DestroyContactFields DEF c
    <3> HIDE DEF r
    <3>3. Left(n) = Left(m) \ {c}
      BY <2>3, <2>4, <2>5, <2>7 DEF c
    <3>4. Disturbs(r, s)
      BY <2>1, <3>2, DisturbsTwice
    <3> HIDE DEF Left
    <3> QED
      BY <2>1, <2>2, <3>1, <3>2, <3>3, <3>4
  <2> QED
    BY <2>6, <2>7
<1> DEFINE w == DestroyingContacts!Fold(s, ms)
<1>5. <<N, w>> \in Inv
  <2> HIDE DEF Inv, T
  <2>1. \A a : \A n \in 1..Len(ms) : <<n - 1, a>> \in Inv => <<n, DestroyStep(a, ms[n])>> \in Inv
    BY <1>2, <1>4
  <2> QED
    BY <1>2, <1>3, <2>1, DestroyingContacts!FoldProgress
<1>6. DestroyContactsOf(F) = w
  BY DEF DestroyContactsOf, s, ms
<1> HIDE DEF w
<1>7. w \in Fields(E, L) /\ Once(w.contacts) /\ Disturbs(w, s) /\ Range(w.contacts) = Left(N)
  BY <1>5
<1>8. Left(N) = {c \in Range(cs) : Pair(c) \cap F = {}}
  BY <1>1 DEF Range
<1>9. w \in Fields(E \ F, L)
  <2>1. /\ w.contacts \in Seq(Met(E)) /\ w.awake \in SUBSET (L \ Static) /\ w.rest \in [Bodies -> 0..TimeToSleep]
        /\ w = [contacts |-> w.contacts, awake |-> w.awake, rest |-> w.rest]
    BY <1>7 DEF Fields
  <2>2. \A i \in 1..Len(w.contacts) : w.contacts[i] \in Range(w.contacts) /\ w.contacts[i] \in Met(E)
    BY <2>1 DEF Range
  <2>3. \A i \in 1..Len(w.contacts) : w.contacts[i] \in Met(E \ F)
    <3> TAKE i \in 1..Len(w.contacts)
    <3> DEFINE c == w.contacts[i]
    <3>1. c \in Met(E) /\ Pair(c) \cap F = {}
      BY <1>7, <1>8, <2>2
    <3> HIDE DEF c
    <3>2. c = [a |-> c.a, b |-> c.b, touching |-> c.touching] /\ c.a \in E /\ c.b \in E /\ c.touching \in BOOLEAN /\ ShouldCollide(c.a, c.b)
      BY <3>1, MetContact
    <3>3. c \in Met(E \ F)
      BY <3>1, <3>2 DEF Met, Pair
    <3> QED
      BY <3>3 DEF c
  <2>4. w.contacts \in Seq(Met(E \ F))
    <3> DEFINE q == w.contacts
    <3>1. q \in Seq(Met(E)) /\ \A i \in 1..Len(q) : q[i] \in Met(E \ F)
      BY <2>1, <2>3
    <3> HIDE DEF q
    <3>3. q \in Seq(Met(E \ F))
      BY <3>1, ListOf
    <3> QED
      BY <3>3 DEF q
  <2> QED
    BY <2>1, <2>4 DEF Fields
<1> HIDE DEF Left
<1> QED
  BY <1>6, <1>7, <1>8, <1>9 DEF s

-----------------------------------------------------------------------------
(***************************************************************************)
(* The loops over the fixtures.                                            *)
(***************************************************************************)
(* What is indexed by a finite set is finite.                              *)
LEMMA FiniteImage ==
  ASSUME NEW S, IsFiniteSet(S), NEW f, f = [x \in S |-> f[x]]
  PROVE  IsFiniteSet({f[x] : x \in S})
<1> DEFINE T == {f[x] : x \in S}
<1>1. f \in Surjection(S, T)
  BY DEF Surjection
<1> QED
  BY <1>1, FS_Surjection

(* The box of a fixture is a box, and that of its sweep covers it at both  *)
(* ends.                                                                   *)
LEMMA SweptBoxes ==
  ASSUME NEW f \in Fixtures, NEW x \in Int, NEW y \in Int
  PROVE  /\ BoxAt(f, x) \in Box /\ SweptBox(f, x, y) \in Box
         /\ Covers(SweptBox(f, x, y), BoxAt(f, x)) /\ Covers(SweptBox(f, x, y), BoxAt(f, y))
<1>1. \A z \in Int : BoxAt(f, z) \in Box
  <2> SUFFICES ASSUME NEW z \in Int PROVE BoxAt(f, z) \in Box
    OBVIOUS
  <2>1. z + Lo[f] \in Int /\ z + Hi[f] \in Int
    BY WorldAssumption
  <2>2. <<z + Lo[f], 0>> \in [1..2 -> Int] /\ <<z + Hi[f], 1>> \in [1..2 -> Int]
    BY <2>1
  <2> QED
    BY <2>2 DEF BoxAt, Box
<1> QED
  BY <1>1, CombineCovers DEF SweptBox

(* What covers a box covers what that box covers.                          *)
LEMMA CoversTwice ==
  ASSUME NEW a \in Box, NEW b \in Box, NEW c \in Box, Covers(a, b), Covers(b, c)
  PROVE  Covers(a, c)
<1>1. \A i \in 1..2 : /\ a.lo[i] \in Int /\ b.lo[i] \in Int /\ c.lo[i] \in Int
                      /\ a.hi[i] \in Int /\ b.hi[i] \in Int /\ c.hi[i] \in Int
  BY DEF Box
<1> QED
  BY <1>1 DEF Covers

(* A proxy that was moved.                                                 *)
Moved(r, bp, id, box) ==
  /\ r \in BroadPhases /\ Leaves(r.tree) = Leaves(bp.tree)
  /\ bp.move \subseteq r.move /\ r.move \subseteq bp.move \cup {id}
  /\ Covers(FatBox(r, id), box)
  /\ \A i \in Leaves(bp.tree) : i \notin r.move \/ i # id => FatBox(r, i) = FatBox(bp, i)

(* Moves of proxies, each at most once: a proxy that is moved covers its   *)
(* box, and a fat box that changes is buffered.                            *)
LEMMA SynchronizingFields ==
  ASSUME NEW px, NEW bp, Indexed(bp, px), NEW S, IsFiniteSet(S),
         \A m \in S : m.id \in Leaves(bp.tree) /\ m.box \in Box /\ m.displacement \in [1..2 -> Int],
         \A m, n \in S : m.id = n.id => m = n
  PROVE  LET r == Synchronizing!FoldAll(bp, S)
         IN /\ Indexed(r, px) /\ Leaves(r.tree) = Leaves(bp.tree) /\ bp.move \subseteq r.move
            /\ \A i \in Leaves(bp.tree) : i \notin r.move => FatBox(r, i) = FatBox(bp, i)
            /\ \A m \in S : Covers(FatBox(r, m.id), m.box)
            /\ \A i \in Leaves(bp.tree) : i \notin {m.id : m \in S} => FatBox(r, i) = FatBox(bp, i)
<1> DEFINE N == Leaves(bp.tree)
           Upto(D, x) == /\ Leaves(x.tree) = N /\ bp.move \subseteq x.move /\ x.move \subseteq N
                         /\ \A i \in N : i \notin x.move => FatBox(x, i) = FatBox(bp, i)
                         /\ \A m \in D : Covers(FatBox(x, m.id), m.box)
                         /\ \A i \in N : i \notin {m.id : m \in D} => FatBox(x, i) = FatBox(bp, i)
           Inv == {y \in (SUBSET S) \X BroadPhases : Upto(y[1], y[2])}
<1>1. bp \in BroadPhases /\ bp.move \subseteq N
  BY DEF Indexed
<1>2. <<{}, bp>> \in Inv
  <2> HIDE DEF N
  <2> QED
    BY <1>1 DEF N
<1>3. ASSUME NEW a, NEW D \in SUBSET S, NEW m \in S \ D, <<D, a>> \in Inv
      PROVE  <<D \cup {m}, SynchronizeFixture(a, m)>> \in Inv
  <2> DEFINE r == SynchronizeFixture(a, m)
             C == D \cup {m}
  <2>1. a \in BroadPhases /\ Upto(D, a)
    BY <1>3
  <2>2. m.id \in N /\ m.box \in Box /\ m.displacement \in [1..2 -> Int]
    OBVIOUS
  <2>3. r = MoveProxy(a, m.id, m.box, m.displacement)
    BY DEF SynchronizeFixture
  <2> HIDE DEF r
  <2>4. m.id \in Leaves(a.tree)
    BY <2>1, <2>2
  <2>5. /\ r \in BroadPhases /\ Leaves(r.tree) = Leaves(a.tree)
        /\ a.move \subseteq r.move /\ r.move \subseteq a.move \cup {m.id}
        /\ Covers(FatBox(r, m.id), m.box)
        /\ \A i \in Leaves(a.tree) : i \notin r.move \/ i # m.id => FatBox(r, i) = FatBox(a, i)
    <3> DEFINE id == m.id
               box == m.box
               d == m.displacement
    <3>1. a \in BroadPhases /\ id \in Leaves(a.tree) /\ box \in Box /\ d \in [1..2 -> Int] /\ r = MoveProxy(a, id, box, d)
      BY <2>1, <2>2, <2>3, <2>4
    <3> HIDE DEF Upto, Inv, N, id, box, d
    <3>a. \A f \in BroadPhases : \A i1 \in Leaves(f.tree) : \A b1 \in Box : \A d1 \in [1..2 -> Int] :
             Moved(MoveProxy(f, i1, b1, d1), f, i1, b1)
      BY MoveProxySound DEF Moved
    <3>b. Moved(r, a, id, box)
      BY <3>1, <3>a
    <3>2. /\ r \in BroadPhases /\ Leaves(r.tree) = Leaves(a.tree)
          /\ a.move \subseteq r.move /\ r.move \subseteq a.move \cup {id}
          /\ Covers(FatBox(r, id), box)
          /\ \A i \in Leaves(a.tree) : i \notin r.move \/ i # id => FatBox(r, i) = FatBox(a, i)
      BY <3>b DEF Moved
    <3> QED
      BY <3>2 DEF id, box
  <2>6. Leaves(r.tree) = N /\ bp.move \subseteq r.move /\ r.move \subseteq N
    BY <2>1, <2>2, <2>5
  <2>7. \A i \in N : i \notin r.move => FatBox(r, i) = FatBox(bp, i)
    BY <2>1, <2>5
  <2>8. ASSUME NEW n \in C PROVE Covers(FatBox(r, n.id), n.box)
    <3>1. CASE n = m
      BY <2>5, <3>1
    <3>2. CASE n # m
      <4>1. n \in D /\ n \in S /\ n.id \in N /\ n.id # m.id
        BY <3>2
      <4>2. FatBox(r, n.id) = FatBox(a, n.id)
        BY <2>1, <2>5, <4>1
      <4> QED
        BY <2>1, <4>1, <4>2
    <3> QED
      BY <3>1, <3>2
  <2>9. \A i \in N : i \notin {n.id : n \in C} => FatBox(r, i) = FatBox(bp, i)
    <3> SUFFICES ASSUME NEW i \in N, i \notin {n.id : n \in C} PROVE FatBox(r, i) = FatBox(bp, i)
      OBVIOUS
    <3>1. i # m.id /\ i \notin {n.id : n \in D}
      OBVIOUS
    <3> QED
      BY <2>1, <2>5, <3>1
  <2>10. Upto(C, r)
    BY <2>6, <2>7, <2>8, <2>9
  <2>11. C \in SUBSET S
    OBVIOUS
  <2> HIDE DEF Upto, C
  <2>12. <<C, r>> \in Inv
    BY <2>5, <2>10, <2>11
  <2> QED
    BY <2>12 DEF r, C
<1> DEFINE w == Synchronizing!FoldAll(bp, S)
<1>4. <<S, w>> \in Inv
  <2> HIDE DEF Inv
  <2>1. \A a : \A D \in SUBSET S : \A m \in S \ D :
          <<D, a>> \in Inv => <<D \cup {m}, SynchronizeFixture(a, m)>> \in Inv
    BY <1>3
  <2>2. Synchronizing!IsFiniteSet(S)
    BY DEF IsFiniteSet, Synchronizing!IsFiniteSet
  <2> QED
    BY <1>2, <2>1, <2>2, Synchronizing!FoldAllProgress
<1> HIDE DEF w
<1>5. w \in BroadPhases /\ Upto(S, w)
  BY <1>4
<1>6. Indexed(w, px)
  BY <1>5 DEF Indexed
<1> QED
  BY <1>5, <1>6 DEF w

(* What the broad phase has become when the bodies B were moved from p to q. *)
Synchronized(r, bp, B, p, q) ==
  /\ Indexed(r, proxy) /\ bp.move \subseteq r.move
  /\ \A f \in Existing : proxy[f] \notin r.move => FatBox(r, proxy[f]) = FatBox(bp, proxy[f])
  /\ \A f \in Existing : BodyOf[f] \in B => Covers(FatBox(r, proxy[f]), BoxAt(f, q[BodyOf[f]]))
                                            /\ Covers(FatBox(r, proxy[f]), BoxAt(f, p[BodyOf[f]]))
  /\ \A f \in Existing : BodyOf[f] \notin B => FatBox(r, proxy[f]) = FatBox(bp, proxy[f])

(* Bodies that are moved from p to q.                                      *)
LEMMA SynchronizeFields ==
  ASSUME NEW bp, Indexed(bp, proxy), NEW B, NEW p \in [Bodies -> Places], NEW q \in [Bodies -> Places]
  PROVE  Synchronized(Synchronize(bp, B, p, q), bp, B, p, q)
<1> DEFINE G == {g \in Fixtures : Exists(g) /\ BodyOf[g] \in B}
           x(f) == p[BodyOf[f]]
           y(f) == q[BodyOf[f]]
           m(f) == [id |-> proxy[f], box |-> SweptBox(f, x(f), y(f)), displacement |-> <<y(f) - x(f), 0>>]
           S == {m(f) : f \in G}
           r == Synchronize(bp, B, p, q)
<1>1. r = Synchronizing!FoldAll(bp, S)
  BY DEF Synchronize
<1> HIDE DEF r
<1>2. \A f \in Fixtures : x(f) \in Int /\ y(f) \in Int
  BY WorldAssumption
<1> HIDE DEF x, y
<1>3. \A f \in Fixtures : /\ BoxAt(f, x(f)) \in Box /\ BoxAt(f, y(f)) \in Box /\ SweptBox(f, x(f), y(f)) \in Box
                          /\ Covers(SweptBox(f, x(f), y(f)), BoxAt(f, x(f)))
                          /\ Covers(SweptBox(f, x(f), y(f)), BoxAt(f, y(f)))
  BY <1>2, SweptBoxes
<1>4. \A f \in G : m(f).id = proxy[f] /\ m(f).box = SweptBox(f, x(f), y(f)) /\ m(f).displacement = <<y(f) - x(f), 0>>
  OBVIOUS
<1>5. IsFiniteSet(S)
  <2> DEFINE h == [f \in G |-> m(f)]
  <2>1. IsFiniteSet(G)
    BY FS_Subset, WorldAssumption
  <2>2. h = [f \in G |-> h[f]] /\ S = {h[f] : f \in G}
    OBVIOUS
  <2> HIDE DEF h
  <2>3. IsFiniteSet({h[f] : f \in G})
    BY <2>1, <2>2, FiniteImage
  <2> QED
    BY <2>2, <2>3
<1> HIDE DEF m
<1>6. \A f \in G : f \in Existing /\ f \in Fixtures /\ proxy[f] \in Leaves(bp.tree)
  BY Owner DEF Existing
<1>7. \A n \in S : n.id \in Leaves(bp.tree) /\ n.box \in Box /\ n.displacement \in [1..2 -> Int]
  <2> SUFFICES ASSUME NEW f \in G PROVE m(f).id \in Leaves(bp.tree) /\ m(f).box \in Box /\ m(f).displacement \in [1..2 -> Int]
    OBVIOUS
  <2>1. y(f) - x(f) \in Int
    BY <1>2
  <2>2. <<y(f) - x(f), 0>> \in [1..2 -> Int]
    BY <2>1
  <2> QED
    BY <1>3, <1>4, <1>6, <2>2
<1>8. \A n, k \in S : n.id = k.id => n = k
  <2> SUFFICES ASSUME NEW f \in G, NEW g \in G, m(f).id = m(g).id PROVE m(f) = m(g)
    OBVIOUS
  <2>1. proxy[f] = proxy[g] /\ proxy[f] # Null
    BY <1>4 DEF Exists
  <2>2. f = g
    BY <2>1 DEF Indexed
  <2> QED
    BY <2>2
<1> HIDE DEF S
<1>9. /\ Indexed(r, proxy) /\ Leaves(r.tree) = Leaves(bp.tree) /\ bp.move \subseteq r.move
      /\ \A i \in Leaves(bp.tree) : i \notin r.move => FatBox(r, i) = FatBox(bp, i)
      /\ \A n \in S : Covers(FatBox(r, n.id), n.box)
      /\ \A i \in Leaves(bp.tree) : i \notin {n.id : n \in S} => FatBox(r, i) = FatBox(bp, i)
  BY <1>1, <1>5, <1>7, <1>8, SynchronizingFields
<1>10. \A f \in Existing : proxy[f] \in Leaves(bp.tree) /\ f \in Fixtures /\ (f \in G <=> BodyOf[f] \in B)
  BY Owner DEF Existing
<1>11. \A f \in Existing : proxy[f] \notin r.move => FatBox(r, proxy[f]) = FatBox(bp, proxy[f])
  BY <1>9, <1>10
<1>12. ASSUME NEW f \in Existing, BodyOf[f] \in B
       PROVE  Covers(FatBox(r, proxy[f]), BoxAt(f, y(f))) /\ Covers(FatBox(r, proxy[f]), BoxAt(f, x(f)))
  <2>1. f \in G /\ m(f) \in S
    BY <1>10, <1>12 DEF S
  <2>2. Covers(FatBox(r, proxy[f]), SweptBox(f, x(f), y(f)))
    BY <1>4, <1>9, <2>1
  <2>3. FatBox(r, proxy[f]) \in Box
    BY <1>9, <1>10, FatBoxes DEF Indexed
  <2> QED
    BY <1>3, <1>10, <2>2, <2>3, CoversTwice
<1>13. ASSUME NEW f \in Existing, BodyOf[f] \notin B
       PROVE  FatBox(r, proxy[f]) = FatBox(bp, proxy[f])
  <2>1. \A g \in G : proxy[g] # proxy[f]
    <3> SUFFICES ASSUME NEW g \in G, proxy[g] = proxy[f] PROVE FALSE
      OBVIOUS
    <3>1. g = f
      BY <1>6, Owner
    <3> QED
      BY <1>13, <3>1
  <2>2. proxy[f] \notin {n.id : n \in S}
    BY <1>4, <2>1 DEF S
  <2> QED
    BY <1>9, <1>10, <2>2
<1> QED
  BY <1>9, <1>11, <1>12, <1>13 DEF r, x, y, Synchronized

-----------------------------------------------------------------------------
(* From bp and px on, the fixtures K were created at the positions p: they *)
(* are buffered and covered; the others are as they were.                  *)
Built(x, bp, px, K, p) ==
  /\ Indexed(x.bp, x.proxy) /\ bp.move \subseteq x.bp.move
  /\ \A f \in Fixtures \ K : x.proxy[f] = px[f]
                             /\ (px[f] # Null => FatBox(x.bp, px[f]) = FatBox(bp, px[f]))
  /\ \A f \in K : x.proxy[f] # Null /\ x.proxy[f] \in x.bp.move
                  /\ Covers(FatBox(x.bp, x.proxy[f]), BoxAt(f, p[BodyOf[f]]))

(* From bp and px on, the fixtures K were destroyed.                       *)
Razed(x, bp, px, K) ==
  /\ Indexed(x.bp, x.proxy)
  /\ \A f \in Fixtures \ K : x.proxy[f] = px[f]
                             /\ (px[f] # Null => FatBox(x.bp, px[f]) = FatBox(bp, px[f]))
                             /\ (px[f] \in bp.move => px[f] \in x.bp.move)
  /\ \A f \in K : x.proxy[f] = Null
(* What the loops over fixtures change.                                     *)
Registers == [bp : BroadPhases, proxy : [Fixtures -> Ids]]

(* One more fixture is created.                                            *)
LEMMA CreateFixtureStep ==
  ASSUME NEW bp, NEW px, Indexed(bp, px), NEW K \in SUBSET Fixtures, NEW p,
         NEW x, Built(x, bp, px, K, p), NEW f \in Fixtures \ K, px[f] = Null,
         NEW m, m.fixture = f, m.box = BoxAt(f, p[BodyOf[f]]), m.box \in Box
  PROVE  LET r == CreateFixture(x, m)
         IN r \in Registers /\ Built(r, bp, px, K \cup {f}, p)
<1> DEFINE r == CreateFixture(x, m)
           k == NextProxy(x.bp)
           a == CreateProxy(x.bp, m.box)
           qx == [x.proxy EXCEPT ![f] = k]
<1>1. r = [bp |-> a, proxy |-> qx] /\ r.bp = a /\ r.proxy = qx
  BY DEF CreateFixture
<1>2. /\ x.bp \in BroadPhases /\ x.proxy \in [Fixtures -> Ids] /\ bp.move \subseteq x.bp.move
      /\ x.bp.move \subseteq Leaves(x.bp.tree)
      /\ Leaves(x.bp.tree) = {x.proxy[g] : g \in {h \in Fixtures : x.proxy[h] # Null}}
      /\ \A g, h \in Fixtures : x.proxy[g] = x.proxy[h] /\ x.proxy[g] # Null => g = h
  BY DEF Built, Indexed
<1>3. /\ a \in BroadPhases /\ k \in Nat /\ k \notin Leaves(x.bp.tree)
      /\ Leaves(a.tree) = Leaves(x.bp.tree) \cup {k} /\ a.move = x.bp.move \cup {k}
      /\ Covers(FatBox(a, k), m.box)
      /\ \A i \in Leaves(x.bp.tree) : FatBox(a, i) = FatBox(x.bp, i)
  BY <1>2, CreateProxySound
<1> HIDE DEF r, k, a
<1>4. /\ qx \in [Fixtures -> Ids] /\ qx[f] = k /\ k # Null
      /\ \A g \in Fixtures : g # f => qx[g] = x.proxy[g]
  BY <1>2, <1>3 DEF Ids, Null
<1> HIDE DEF qx
<1>5. x.proxy[f] = Null
  BY DEF Built
<1>6. Leaves(a.tree) = {qx[g] : g \in {h \in Fixtures : qx[h] # Null}}
  <2>1. \A i \in Leaves(x.bp.tree) : \E g \in Fixtures : g # f /\ x.proxy[g] = i /\ i # Null
    BY <1>2, <1>5
  <2>2. \A i \in Leaves(a.tree) : \E g \in Fixtures : qx[g] = i /\ i # Null
    BY <1>3, <1>4, <2>1
  <2>3. \A g \in Fixtures : qx[g] # Null => qx[g] \in Leaves(a.tree)
    BY <1>2, <1>3, <1>4
  <2> QED
    BY <2>2, <2>3
<1>7. \A g, h \in Fixtures : qx[g] = qx[h] /\ qx[g] # Null => g = h
  <2>1. \A g \in Fixtures : g # f /\ qx[g] # Null => qx[g] # k
    BY <1>2, <1>3, <1>4
  <2> QED
    BY <1>2, <1>4, <2>1
<1>8. a.move \subseteq Leaves(a.tree)
  BY <1>2, <1>3
<1>9. Indexed(a, qx)
  BY <1>3, <1>4, <1>6, <1>7, <1>8 DEF Indexed
<1>10. ASSUME NEW g \in Fixtures \ (K \cup {f})
       PROVE  qx[g] = px[g] /\ (px[g] # Null => FatBox(a, px[g]) = FatBox(bp, px[g]))
  <2>1. g \in Fixtures \ K /\ g # f
    OBVIOUS
  <2>2. x.proxy[g] = px[g] /\ (px[g] # Null => FatBox(x.bp, px[g]) = FatBox(bp, px[g]))
    BY <2>1 DEF Built
  <2>3. px[g] # Null => px[g] \in Leaves(x.bp.tree)
    BY <1>2, <2>1, <2>2
  <2> QED
    BY <1>3, <1>4, <2>1, <2>2, <2>3
<1>11. ASSUME NEW g \in K \cup {f}
       PROVE  qx[g] # Null /\ qx[g] \in a.move /\ Covers(FatBox(a, qx[g]), BoxAt(g, p[BodyOf[g]]))
  <2>1. CASE g = f
    BY <1>3, <1>4, <2>1
  <2>2. CASE g # f
    <3>1. /\ g \in K /\ g \in Fixtures
      BY <2>2
    <3>2. /\ x.proxy[g] # Null /\ x.proxy[g] \in x.bp.move
          /\ Covers(FatBox(x.bp, x.proxy[g]), BoxAt(g, p[BodyOf[g]]))
      BY <3>1 DEF Built
    <3>3. qx[g] = x.proxy[g] /\ x.proxy[g] \in Leaves(x.bp.tree)
      BY <1>2, <1>4, <2>2, <3>1, <3>2
    <3> QED
      BY <1>3, <3>2, <3>3
  <2> QED
    BY <2>1, <2>2
<1>12. Built(r, bp, px, K \cup {f}, p)
  <2>1. bp.move \subseteq a.move
    BY <1>2, <1>3
  <2> QED
    BY <1>1, <1>9, <1>10, <1>11, <2>1 DEF Built
<1>13. r \in Registers
  BY <1>1, <1>3, <1>4 DEF Registers
<1> QED
  BY <1>12, <1>13 DEF r

(* Fixtures that do not exist are created.                                 *)
LEMMA CreateFixturesFields ==
  ASSUME NEW bp, NEW px, Indexed(bp, px), NEW F \in SUBSET Fixtures, \A f \in F : px[f] = Null,
         NEW p \in [Bodies -> Places]
  PROVE  Built(CreateFixtures(F, p, [bp |-> bp, proxy |-> px]), bp, px, F, p)
<1> DEFINE base == [bp |-> bp, proxy |-> px]
           box(f) == BoxAt(f, p[BodyOf[f]])
           m(f) == [fixture |-> f, box |-> box(f)]
           S == {m(f) : f \in F}
           Of(D) == {n.fixture : n \in D}
           Inv == {y \in (SUBSET S) \X Registers : Built(y[2], bp, px, Of(y[1]), p)}
           r == CreateFixtures(F, p, base)
<1>1. r = Creating!FoldAll(base, S)
  BY DEF CreateFixtures
<1> HIDE DEF r
<1>2. \A f \in F : box(f) \in Box
  <2>1. \A f \in F : f \in Fixtures /\ p[BodyOf[f]] \in Int
    BY WorldAssumption
  <2> QED
    BY <2>1, SweptBoxes
<1> HIDE DEF box
<1>3. \A f \in F : m(f).fixture = f /\ m(f).box = box(f)
  OBVIOUS
<1>4. IsFiniteSet(S)
  <2> DEFINE h == [f \in F |-> m(f)]
  <2>1. IsFiniteSet(F)
    BY FS_Subset, WorldAssumption
  <2>2. h = [f \in F |-> h[f]] /\ S = {h[f] : f \in F}
    OBVIOUS
  <2> HIDE DEF h
  <2>3. IsFiniteSet({h[f] : f \in F})
    BY <2>1, <2>2, FiniteImage
  <2> QED
    BY <2>2, <2>3
<1> HIDE DEF m
<1>5. <<{}, base>> \in Inv
  <2>1. base \in Registers /\ base.bp = bp /\ base.proxy = px
    BY DEF Registers, Indexed
  <2>2. Of({}) = {}
    OBVIOUS
  <2> HIDE DEF base, Of
  <2>3. Built(base, bp, px, Of({}), p)
    BY <2>1, <2>2 DEF Built
  <2> QED
    BY <2>1, <2>3
<1>6. ASSUME NEW a, NEW D \in SUBSET S, NEW n \in S \ D, <<D, a>> \in Inv
      PROVE  <<D \cup {n}, CreateFixture(a, n)>> \in Inv
  <2>1. a \in Registers /\ Built(a, bp, px, Of(D), p)
    BY <1>6
  <2>2. PICK f \in F : n = m(f)
    OBVIOUS
  <2>3. Of(D) \in SUBSET Fixtures /\ f \in Fixtures /\ f \notin Of(D)
    <3>1. \A k \in D : k \in S /\ k # n
      OBVIOUS
    <3>2. \A k \in D : k.fixture \in F /\ k = m(k.fixture)
      BY <1>3, <3>1
    <3> QED
      BY <2>2, <3>1, <3>2
  <2>4. n.fixture = f /\ n.box = box(f) /\ n.box \in Box /\ px[f] = Null
    BY <1>2, <1>3, <2>2
  <2>5. Of(D \cup {n}) = Of(D) \cup {f}
    BY <2>4
  <2>6. CreateFixture(a, n) \in Registers /\ Built(CreateFixture(a, n), bp, px, Of(D) \cup {f}, p)
    <3> DEFINE K == Of(D)
    <3>1. K \in SUBSET Fixtures /\ f \in Fixtures \ K /\ Built(a, bp, px, K, p)
      BY <2>1, <2>3
    <3> HIDE DEF K, S, Of, Inv
    <3>2. CreateFixture(a, n) \in Registers /\ Built(CreateFixture(a, n), bp, px, K \cup {f}, p)
      BY <2>4, <3>1, CreateFixtureStep DEF box
    <3> QED
      BY <3>2 DEF K
  <2>7. D \cup {n} \in SUBSET S
    OBVIOUS
  <2> DEFINE C == D \cup {n}
  <2>8. CreateFixture(a, n) \in Registers /\ Built(CreateFixture(a, n), bp, px, Of(C), p) /\ C \in SUBSET S
    BY <2>5, <2>6, <2>7
  <2> HIDE DEF C, Of
  <2>9. <<C, CreateFixture(a, n)>> \in Inv
    BY <2>8
  <2> QED
    BY <2>9 DEF C
<1>7. <<S, r>> \in Inv
  <2> HIDE DEF Inv, S, base
  <2>1. \A a : \A D \in SUBSET S : \A n \in S \ D :
          <<D, a>> \in Inv => <<D \cup {n}, CreateFixture(a, n)>> \in Inv
    BY <1>6
  <2>2. Creating!IsFiniteSet(S)
    BY <1>4 DEF IsFiniteSet, Creating!IsFiniteSet
  <2> QED
    BY <1>1, <1>5, <2>1, <2>2, Creating!FoldAllProgress
<1>8. Of(S) = F
  BY <1>3
<1>9. Built(r, bp, px, Of(S), p)
  <2> HIDE DEF Of, S
  <2> QED
    BY <1>7
<1> HIDE DEF Of
<1> QED
  BY <1>8, <1>9 DEF r

(* One more fixture is destroyed.                                          *)
LEMMA DestroyFixtureStep ==
  ASSUME NEW bp, NEW px, Indexed(bp, px), NEW K \in SUBSET Fixtures,
         NEW x, Razed(x, bp, px, K), NEW f \in Fixtures \ K, px[f] # Null
  PROVE  LET r == DestroyFixture(x, f)
         IN r \in Registers /\ Razed(r, bp, px, K \cup {f})
<1> DEFINE r == DestroyFixture(x, f)
           k == x.proxy[f]
           a == DestroyProxy(x.bp, k)
           qx == [x.proxy EXCEPT ![f] = Null]
<1>1. r = [bp |-> a, proxy |-> qx] /\ r.bp = a /\ r.proxy = qx
  BY DEF DestroyFixture
<1>2. /\ x.bp \in BroadPhases /\ x.proxy \in [Fixtures -> Ids]
      /\ x.bp.move \subseteq Leaves(x.bp.tree)
      /\ Leaves(x.bp.tree) = {x.proxy[g] : g \in {h \in Fixtures : x.proxy[h] # Null}}
      /\ \A g, h \in Fixtures : x.proxy[g] = x.proxy[h] /\ x.proxy[g] # Null => g = h
  BY DEF Razed, Indexed
<1>3. k # Null /\ k \in Leaves(x.bp.tree)
  <2>1. k = px[f]
    BY DEF Razed
  <2> QED
    BY <1>2, <2>1
<1>4. /\ qx \in [Fixtures -> Ids] /\ qx[f] = Null
      /\ \A g \in Fixtures : g # f => qx[g] = x.proxy[g] /\ x.proxy[g] # k
  BY <1>2, <1>3 DEF Ids, Null
<1> HIDE DEF r, k, a
<1>5. /\ a \in BroadPhases
      /\ Leaves(a.tree) = Leaves(x.bp.tree) \ {k} /\ a.move = x.bp.move \ {k}
      /\ \A i \in Leaves(a.tree) : FatBox(a, i) = FatBox(x.bp, i)
  BY <1>2, <1>3, DestroyProxySound DEF a
<1> HIDE DEF qx
<1>6. Leaves(a.tree) = {qx[g] : g \in {h \in Fixtures : qx[h] # Null}}
  <2>1. \A i \in Leaves(a.tree) : \E g \in Fixtures : g # f /\ x.proxy[g] = i /\ i # Null
    BY <1>2, <1>5 DEF k
  <2>2. \A i \in Leaves(a.tree) : \E g \in Fixtures : qx[g] = i /\ i # Null
    BY <1>4, <2>1
  <2>3. \A g \in Fixtures : qx[g] # Null => qx[g] \in Leaves(a.tree)
    BY <1>2, <1>4, <1>5
  <2> QED
    BY <2>2, <2>3
<1>7. \A g, h \in Fixtures : qx[g] = qx[h] /\ qx[g] # Null => g = h
  BY <1>2, <1>4
<1>8. a.move \subseteq Leaves(a.tree)
  BY <1>2, <1>5
<1>9. Indexed(a, qx)
  BY <1>4, <1>5, <1>6, <1>7, <1>8 DEF Indexed
<1>10. ASSUME NEW g \in Fixtures \ (K \cup {f})
       PROVE  qx[g] = px[g] /\ (px[g] # Null => FatBox(a, px[g]) = FatBox(bp, px[g]))
              /\ (px[g] \in bp.move => px[g] \in a.move)
  <2>1. g \in Fixtures \ K /\ g # f
    OBVIOUS
  <2>2. x.proxy[g] = px[g] /\ (px[g] # Null => FatBox(x.bp, px[g]) = FatBox(bp, px[g]))
        /\ (px[g] \in bp.move => px[g] \in x.bp.move)
    BY <2>1 DEF Razed
  <2>3. px[g] # Null => px[g] \in Leaves(a.tree)
    BY <1>2, <1>4, <1>5, <2>1, <2>2
  <2> QED
    BY <1>4, <1>5, <2>1, <2>2, <2>3
<1>11. ASSUME NEW g \in K \cup {f} PROVE qx[g] = Null
  <2>1. g # f => x.proxy[g] = Null /\ g \in Fixtures
    BY DEF Razed
  <2> QED
    BY <1>4, <2>1
<1>12. Razed(r, bp, px, K \cup {f})
  BY <1>1, <1>9, <1>10, <1>11 DEF Razed
<1>13. r \in Registers
  BY <1>1, <1>4, <1>5 DEF Registers
<1> QED
  BY <1>12, <1>13 DEF r

(* Fixtures that exist are destroyed.                                      *)
LEMMA DestroyFixturesFields ==
  ASSUME NEW bp, NEW px, Indexed(bp, px), NEW F \in SUBSET Fixtures, \A f \in F : px[f] # Null
  PROVE  LET r == DestroyFixtures(F, [bp |-> bp, proxy |-> px])
         IN Razed(r, bp, px, F) /\ r = [bp |-> r.bp, proxy |-> r.proxy]
<1> DEFINE base == [bp |-> bp, proxy |-> px]
           Inv == {y \in (SUBSET F) \X Registers : Razed(y[2], bp, px, y[1])}
           r == DestroyFixtures(F, base)
<1>1. r = Destroying!FoldAll(base, F)
  BY DEF DestroyFixtures
<1> HIDE DEF r
<1>2. <<{}, base>> \in Inv
  <2>1. base \in Registers /\ base.bp = bp /\ base.proxy = px
    BY DEF Registers, Indexed
  <2> HIDE DEF base
  <2>2. Razed(base, bp, px, {})
    BY <2>1 DEF Razed
  <2> QED
    BY <2>1, <2>2
<1>3. ASSUME NEW a, NEW D \in SUBSET F, NEW f \in F \ D, <<D, a>> \in Inv
      PROVE  <<D \cup {f}, DestroyFixture(a, f)>> \in Inv
  <2>1. a \in Registers /\ Razed(a, bp, px, D) /\ D \in SUBSET Fixtures /\ f \in Fixtures \ D /\ px[f] # Null
    BY <1>3
  <2>2. DestroyFixture(a, f) \in Registers /\ Razed(DestroyFixture(a, f), bp, px, D \cup {f})
    <3> HIDE DEF Inv
    <3> QED
      BY <2>1, DestroyFixtureStep
  <2>3. D \cup {f} \in SUBSET F
    OBVIOUS
  <2> QED
    BY <2>2, <2>3
<1>4. <<F, r>> \in Inv
  <2> HIDE DEF Inv, base
  <2>1. \A a : \A D \in SUBSET F : \A f \in F \ D :
          <<D, a>> \in Inv => <<D \cup {f}, DestroyFixture(a, f)>> \in Inv
    BY <1>3
  <2>2. IsFiniteSet(F)
    BY FS_Subset, WorldAssumption
  <2>3. Destroying!IsFiniteSet(F)
    BY <2>2 DEF IsFiniteSet, Destroying!IsFiniteSet
  <2> QED
    BY <1>1, <1>2, <2>1, <2>3, Destroying!FoldAllProgress
<1>5. r \in Registers /\ Razed(r, bp, px, F)
  BY <1>4
<1>6. r = [bp |-> r.bp, proxy |-> r.proxy]
  BY <1>5 DEF Registers
<1> QED
  BY <1>5, <1>6 DEF r

-----------------------------------------------------------------------------
(***************************************************************************)
(* The world between two operations: the fixtures that exist are on living *)
(* bodies and are the leaves of the broad phase, their fat boxes cover     *)
(* them, and no pair is missed.                                            *)
(***************************************************************************)
Positions == [Bodies -> Places]
(* The fixtures with a proxy; each fat box covers its fixture; each pair that *)
(* overlaps is in the list or buffered.                                     *)
Owned(px) == {f \in Fixtures : px[f] # Null}
Covered(bp, px, p) ==
  \A f \in Owned(px) : Covers(FatBox(bp, px[f]), BoxAt(f, p[BodyOf[f]]))
Complete(bp, px, cs) ==
  \A f, g \in Owned(px) :
    ShouldCollide(f, g) /\ TestOverlap(bp, px[f], px[g]) =>
      {f, g} \in PairsIn(cs) \/ {px[f], px[g]} \cap bp.move # {}
Settled(bp, px, L, p, s) ==
  /\ Indexed(bp, px) /\ Peopled(Owned(px), L) /\ p \in Positions
  /\ s \in Fields(Owned(px), L) /\ Once(s.contacts)
  /\ Covered(bp, px, p) /\ Complete(bp, px, s.contacts)

(* More contacts do no harm.                                               *)
LEMMA MoreContacts ==
  ASSUME NEW bp, NEW px, NEW L, NEW p, NEW s, Settled(bp, px, L, p, s),
         NEW r \in Fields(Owned(px), L), Once(r.contacts), PairsIn(s.contacts) \subseteq PairsIn(r.contacts)
  PROVE  Settled(bp, px, L, p, r)
<1>1. Complete(bp, px, r.contacts)
  BY DEF Settled, Complete
<1> QED
  BY <1>1 DEF Settled

(* After the pairs were sent no pair is missed though none is buffered.    *)
LEMMA FindNewContactsSettled ==
  ASSUME NEW bp, NEW L, NEW p, NEW s, Settled(bp, proxy, L, p, s)
  PROVE  LET r == FindNewContacts(s, bp)
         IN Settled(PairsSent(bp), proxy, L, p, r) /\ s.awake \subseteq r.awake
            /\ \A b \in Bodies : Held(r.contacts, b) = Held(s.contacts, b)
<1> DEFINE r == FindNewContacts(s, bp)
           sent == PairsSent(bp)
<1>1. Owned(proxy) = Existing
  BY DEF Owned, Existing, Exists
<1>2. Indexed(bp, proxy) /\ Peopled(Existing, L) /\ s \in Fields(Existing, L) /\ Once(s.contacts)
  BY <1>1 DEF Settled
<1>3. /\ r \in Fields(Existing, L) /\ Once(r.contacts) /\ s.awake \subseteq r.awake
      /\ PairsIn(s.contacts) \subseteq PairsIn(r.contacts)
      /\ \A f, g \in Existing :
           /\ ShouldCollide(f, g) /\ {proxy[f], proxy[g]} \cap bp.move # {}
           /\ TestOverlap(bp, proxy[f], proxy[g])
           => {f, g} \in PairsIn(r.contacts)
      /\ \A b \in Bodies : Held(r.contacts, b) = Held(s.contacts, b)
  BY <1>2, FindNewContactsFields
<1> HIDE DEF r
<1>4. /\ sent \in BroadPhases /\ sent.tree = bp.tree /\ sent.move = {}
  BY <1>2 DEF PairsSent, Indexed, BroadPhases
<1> HIDE DEF sent
<1>5. Indexed(sent, proxy)
  BY <1>2, <1>4 DEF Indexed
<1>6. Covered(sent, proxy, p)
  BY <1>4 DEF Settled, Covered, FatBox
<1>7. Complete(sent, proxy, r.contacts)
  <2> SUFFICES ASSUME NEW f \in Existing, NEW g \in Existing, ShouldCollide(f, g), TestOverlap(sent, proxy[f], proxy[g])
               PROVE  {f, g} \in PairsIn(r.contacts)
    BY <1>1 DEF Complete
  <2>1. TestOverlap(bp, proxy[f], proxy[g])
    BY <1>4 DEF TestOverlap, FatBox
  <2>2. {f, g} \in PairsIn(s.contacts) \/ {proxy[f], proxy[g]} \cap bp.move # {}
    BY <1>1, <2>1 DEF Settled, Complete
  <2> QED
    BY <1>3, <2>1, <2>2
<1>8. Settled(sent, proxy, L, p, r)
  BY <1>1, <1>2, <1>3, <1>5, <1>6, <1>7 DEF Settled
<1> QED
  BY <1>3, <1>8 DEF r, sent

(* Bodies that moved: of the others the positions are the same.            *)
LEMMA SynchronizeSettled ==
  ASSUME NEW bp, NEW L, NEW p, NEW s, Settled(bp, proxy, L, p, s), NEW B,
         NEW x \in Positions, NEW q \in Positions, \A b \in Bodies \ B : q[b] = p[b]
  PROVE  Settled(Synchronize(bp, B, x, q), proxy, L, q, s)
<1> DEFINE r == Synchronize(bp, B, x, q)
<1>1. Owned(proxy) = Existing
  BY DEF Owned, Existing, Exists
<1>2. Indexed(bp, proxy)
  BY DEF Settled
<1>3. /\ Indexed(r, proxy) /\ bp.move \subseteq r.move
      /\ \A f \in Existing : proxy[f] \notin r.move => FatBox(r, proxy[f]) = FatBox(bp, proxy[f])
      /\ \A f \in Existing : BodyOf[f] \in B => Covers(FatBox(r, proxy[f]), BoxAt(f, q[BodyOf[f]]))
      /\ \A f \in Existing : BodyOf[f] \notin B => FatBox(r, proxy[f]) = FatBox(bp, proxy[f])
  <2>1. x \in [Bodies -> Places] /\ q \in [Bodies -> Places]
    BY DEF Positions
  <2>2. Synchronized(r, bp, B, x, q)
    BY <1>2, <2>1, SynchronizeFields
  <2> HIDE DEF r
  <2> QED
    BY <2>2 DEF Synchronized
<1> HIDE DEF r
<1>4. Covered(r, proxy, q)
  <2> SUFFICES ASSUME NEW f \in Existing PROVE Covers(FatBox(r, proxy[f]), BoxAt(f, q[BodyOf[f]]))
    BY <1>1 DEF Covered
  <2>1. CASE BodyOf[f] \in B
    BY <1>3, <2>1
  <2>2. CASE BodyOf[f] \notin B
    <3>1. BodyOf[f] \in Bodies
      BY WorldAssumption DEF Existing
    <3>2. q[BodyOf[f]] = p[BodyOf[f]]
      BY <2>2, <3>1
    <3> QED
      BY <1>1, <1>3, <2>2, <3>2 DEF Settled, Covered
  <2> QED
    BY <2>1, <2>2
<1>5. Complete(r, proxy, s.contacts)
  <2> SUFFICES ASSUME NEW f \in Existing, NEW g \in Existing, ShouldCollide(f, g), TestOverlap(r, proxy[f], proxy[g]),
                      proxy[f] \notin r.move, proxy[g] \notin r.move
               PROVE  {f, g} \in PairsIn(s.contacts)
    BY <1>1 DEF Complete
  <2>1. TestOverlap(bp, proxy[f], proxy[g]) /\ proxy[f] \notin bp.move /\ proxy[g] \notin bp.move
    BY <1>3 DEF TestOverlap
  <2>2. \A h, k \in Existing : /\ ShouldCollide(h, k) /\ TestOverlap(bp, proxy[h], proxy[k])
                               => {h, k} \in PairsIn(s.contacts) \/ {proxy[h], proxy[k]} \cap bp.move # {}
    BY <1>1 DEF Settled, Complete
  <2> QED
    BY <2>1, <2>2
<1> QED
  BY <1>3, <1>4, <1>5 DEF Settled, r

(* Contacts among some fixtures are contacts among more of them.           *)
LEMMA FieldsGrow ==
  ASSUME NEW E, NEW L, NEW K, NEW M, E \subseteq K, L \subseteq M, NEW s \in Fields(E, L)
  PROVE  s \in Fields(K, M)
<1>1. Met(E) \subseteq Met(K)
  BY DEF Met
<1>2. /\ s.contacts \in Seq(Met(E)) /\ s.awake \in SUBSET (L \ Static) /\ s.rest \in [Bodies -> 0..TimeToSleep]
      /\ s = [contacts |-> s.contacts, awake |-> s.awake, rest |-> s.rest]
  BY DEF Fields
<1>3. s.contacts \in Seq(Met(K))
  <2> DEFINE q == s.contacts
  <2>1. q \in Seq(Met(E)) /\ \A i \in 1..Len(q) : q[i] \in Met(E)
    BY <1>2
  <2> HIDE DEF q
  <2>2. q \in Seq(Met(K))
    BY <1>1, <2>1, ListOf
  <2> QED
    BY <2>2 DEF q
<1> QED
  BY <1>2, <1>3 DEF Fields

(* Fixtures that were created are buffered, so no pair of them is missed.  *)
LEMMA BuiltSettled ==
  ASSUME NEW bp, NEW px, NEW L, NEW p, NEW s, Settled(bp, px, L, p, s),
         NEW F \in SUBSET Fixtures, NEW q \in Positions, NEW x, Built(x, bp, px, F, q),
         \A f \in F : px[f] = Null,
         NEW M \in SUBSET Bodies, L \subseteq M, \A f \in F : BodyOf[f] \in M, \A b \in L : q[b] = p[b]
  PROVE  Settled(x.bp, x.proxy, M, q, s) /\ Owned(x.proxy) = Owned(px) \cup F
<1> DEFINE E == Owned(px)
<1>1. /\ Indexed(x.bp, x.proxy) /\ bp.move \subseteq x.bp.move
      /\ \A f \in Fixtures \ F : x.proxy[f] = px[f]
                                 /\ (px[f] # Null => FatBox(x.bp, px[f]) = FatBox(bp, px[f]))
      /\ \A f \in F : x.proxy[f] # Null /\ x.proxy[f] \in x.bp.move
                      /\ Covers(FatBox(x.bp, x.proxy[f]), BoxAt(f, q[BodyOf[f]]))
  BY DEF Built
<1>2. Peopled(E, L) /\ s \in Fields(E, L) /\ Once(s.contacts)
  BY DEF Settled
<1>3. Owned(x.proxy) = E \cup F
  <2>1. \A f \in Fixtures : x.proxy[f] # Null <=> px[f] # Null \/ f \in F
    BY <1>1
  <2> QED
    BY <2>1 DEF Owned
<1>4. \A f \in E : f \in Fixtures \ F /\ x.proxy[f] = px[f] /\ FatBox(x.bp, px[f]) = FatBox(bp, px[f])
                   /\ BodyOf[f] \in L
  <2>1. \A f \in E : f \in Fixtures \ F /\ px[f] # Null
    BY DEF Owned
  <2> QED
    BY <1>1, <1>2, <2>1 DEF Peopled
<1>5. Peopled(E \cup F, M)
  BY <1>2 DEF Peopled
<1>6. s \in Fields(E \cup F, M)
  <2> HIDE DEF E
  <2> QED
    BY <1>2, FieldsGrow
<1>7. Covered(x.bp, x.proxy, q)
  <2> SUFFICES ASSUME NEW f \in E \cup F PROVE Covers(FatBox(x.bp, x.proxy[f]), BoxAt(f, q[BodyOf[f]]))
    BY <1>3 DEF Covered
  <2>1. CASE f \in F
    BY <1>1, <2>1
  <2>2. CASE f \in E
    <3>1. Covers(FatBox(bp, px[f]), BoxAt(f, p[BodyOf[f]])) /\ q[BodyOf[f]] = p[BodyOf[f]]
      BY <1>4, <2>2 DEF Settled, Covered
    <3> QED
      BY <1>4, <2>2, <3>1
  <2> QED
    BY <2>1, <2>2
<1>8. Complete(x.bp, x.proxy, s.contacts)
  <2> SUFFICES ASSUME NEW f \in E \cup F, NEW g \in E \cup F, ShouldCollide(f, g), TestOverlap(x.bp, x.proxy[f], x.proxy[g]),
                      x.proxy[f] \notin x.bp.move, x.proxy[g] \notin x.bp.move
               PROVE  {f, g} \in PairsIn(s.contacts)
    BY <1>3 DEF Complete
  <2>1. f \in E /\ g \in E
    BY <1>1
  <2>2. px[f] \notin bp.move /\ px[g] \notin bp.move /\ TestOverlap(bp, px[f], px[g])
    BY <1>1, <1>4, <2>1 DEF TestOverlap
  <2> QED
    BY <2>1, <2>2 DEF Settled, Complete
<1> QED
  BY <1>1, <1>2, <1>3, <1>5, <1>6, <1>7, <1>8 DEF Settled

(* Fixtures that were destroyed, with their contacts; the others keep      *)
(* theirs.                                                                 *)
LEMMA RazedSettled ==
  ASSUME NEW bp, NEW px, NEW L, NEW p, NEW s, Settled(bp, px, L, p, s),
         NEW F \in SUBSET Fixtures, NEW x, Razed(x, bp, px, F),
         NEW M \in SUBSET Bodies, \A f \in Owned(px) \ F : BodyOf[f] \in M,
         NEW q \in Positions, \A b \in M : q[b] = p[b],
         NEW r \in Fields(Owned(px) \ F, M), Once(r.contacts),
         \A c \in Range(s.contacts) : Pair(c) \cap F = {} => c \in Range(r.contacts)
  PROVE  Settled(x.bp, x.proxy, M, q, r) /\ Owned(x.proxy) = Owned(px) \ F
<1> DEFINE E == Owned(px)
<1>1. /\ Indexed(x.bp, x.proxy)
      /\ \A f \in Fixtures \ F : x.proxy[f] = px[f]
                                 /\ (px[f] # Null => FatBox(x.bp, px[f]) = FatBox(bp, px[f]))
                                 /\ (px[f] \in bp.move => px[f] \in x.bp.move)
      /\ \A f \in F : x.proxy[f] = Null
  BY DEF Razed
<1>2. Owned(x.proxy) = E \ F
  <2>1. \A f \in Fixtures : x.proxy[f] # Null <=> px[f] # Null /\ f \notin F
    BY <1>1
  <2> QED
    BY <2>1 DEF Owned
<1>3. \A f \in E \ F : f \in Fixtures \ F /\ x.proxy[f] = px[f] /\ FatBox(x.bp, px[f]) = FatBox(bp, px[f])
                       /\ (px[f] \in bp.move => px[f] \in x.bp.move) /\ BodyOf[f] \in M /\ f \in E
  <2>1. \A f \in E \ F : f \in Fixtures \ F /\ px[f] # Null
    BY DEF Owned
  <2> QED
    BY <1>1, <2>1
<1>4. Peopled(E \ F, M)
  BY <1>3 DEF Peopled
<1>5. Covered(x.bp, x.proxy, q)
  <2> SUFFICES ASSUME NEW f \in E \ F PROVE Covers(FatBox(x.bp, x.proxy[f]), BoxAt(f, q[BodyOf[f]]))
    BY <1>2 DEF Covered
  <2>1. Covers(FatBox(bp, px[f]), BoxAt(f, p[BodyOf[f]])) /\ q[BodyOf[f]] = p[BodyOf[f]]
    BY <1>3 DEF Settled, Covered
  <2> QED
    BY <1>3, <2>1
<1>6. Complete(x.bp, x.proxy, r.contacts)
  <2> SUFFICES ASSUME NEW f \in E \ F, NEW g \in E \ F, ShouldCollide(f, g), TestOverlap(x.bp, x.proxy[f], x.proxy[g]),
                      x.proxy[f] \notin x.bp.move, x.proxy[g] \notin x.bp.move
               PROVE  {f, g} \in PairsIn(r.contacts)
    BY <1>2 DEF Complete
  <2>1. px[f] \notin bp.move /\ px[g] \notin bp.move /\ TestOverlap(bp, px[f], px[g])
    BY <1>3 DEF TestOverlap
  <2>2. {f, g} \in PairsIn(s.contacts)
    BY <1>3, <2>1 DEF Settled, Complete
  <2>3. PICK c \in Range(s.contacts) : Pair(c) = {f, g}
    BY <2>2 DEF PairsIn
  <2>4. c \in Range(r.contacts)
    BY <2>3
  <2> QED
    BY <2>3, <2>4 DEF PairsIn
<1> QED
  BY <1>1, <1>2, <1>4, <1>5, <1>6 DEF Settled

(* The world without fixtures.                                             *)
LEMMA EmptySettled ==
  ASSUME NEW p \in Positions
  PROVE  Settled(EmptyBroadPhase, [f \in Fixtures |-> Null], Bodies, p,
                 [contacts |-> <<>>, awake |-> Moving, rest |-> [b \in Bodies |-> 0]])
<1> DEFINE bp == EmptyBroadPhase
           px == [f \in Fixtures |-> Null]
           s == [contacts |-> <<>>, awake |-> Moving, rest |-> [b \in Bodies |-> 0]]
<1>1. Owned(px) = {}
  BY DEF Owned
<1>2. /\ bp.tree = EmptyTree /\ bp.move = {} /\ bp = [tree |-> bp.tree, move |-> bp.move]
      /\ Whole(EmptyTree) /\ Leaves(EmptyTree) = {}
  BY EmptyTreeSound DEF EmptyBroadPhase
<1> HIDE DEF bp
<1>3. bp \in BroadPhases
  BY <1>2, WholeTree DEF BroadPhases
<1>4. px \in [Fixtures -> Ids] /\ \A f \in Fixtures : px[f] = Null
  BY DEF Ids
<1>5. Indexed(bp, px)
  BY <1>2, <1>3, <1>4 DEF Indexed
<1>6. s \in Fields({}, Bodies) /\ Once(s.contacts)
  <2>1. [b \in Bodies |-> 0] \in [Bodies -> 0..TimeToSleep]
    BY WorldAssumption
  <2>2. <<>> \in Seq(Met({})) /\ Once(<<>>)
    BY DEF Once
  <2> QED
    BY <2>1, <2>2 DEF Fields, Moving
<1> HIDE DEF px, s
<1>7. Settled(bp, px, Bodies, p, s)
  BY <1>1, <1>5, <1>6 DEF Settled, Peopled, Covered, Complete
<1> QED
  BY <1>7 DEF bp, px, s

-----------------------------------------------------------------------------
(***************************************************************************)
(* The invariant.                                                          *)
(***************************************************************************)
WorldInv ==
  /\ Settled(broadPhase, proxy, live, pos, State(contacts))
  /\ from \in Positions /\ newFixture \in BOOLEAN /\ phase \in {"idle", "collided", "solved"}
  /\ AwakeContactsCurrent
(* No step changes what a body that stays asleep touches: the action of     *)
(* SleepersKeepTheirContacts.                                               *)
SleepersKeep ==
  \A b \in (live \cap live' \cap Moving) \ (bodies.awake \cup bodies'.awake) : Touching(b) = Touching(b)'

(* The fields that an operation leaves are those of the next state.        *)
LEMMA NextState ==
  ASSUME NEW E, NEW L, NEW s \in Fields(E, L), contacts' = s.contacts,
         bodies' = [awake |-> s.awake, rest |-> s.rest]
  PROVE  State(contacts)' = s
<1>1. s = [contacts |-> s.contacts, awake |-> s.awake, rest |-> s.rest]
  BY DEF Fields
<1>2. bodies'.awake = s.awake /\ bodies'.rest = s.rest
  OBVIOUS
<1>3. State(contacts)' = [contacts |-> s.contacts, awake |-> s.awake, rest |-> s.rest]
  BY <1>2 DEF State
<1> QED
  BY <1>1, <1>3

(* What an operation must leave of a body that sleeps on.                  *)
LEMMA NextSleepers ==
  ASSUME NEW E, NEW L, NEW s \in Fields(E, L), State(contacts)' = s,
         \A b \in Moving \cap live' : b \notin s.awake => Held(s.contacts, b) = Held(contacts, b)
  PROVE  SleepersKeep
<1>1. contacts' = s.contacts /\ bodies'.awake = s.awake
  BY DEF State
<1> SUFFICES ASSUME NEW b \in (live \cap live' \cap Moving) \ (bodies.awake \cup bodies'.awake)
             PROVE  Touching(b) = Touching(b)'
  BY DEF SleepersKeep
<1>2. Held(contacts', b) = Held(contacts, b)
  BY <1>1
<1> QED
  BY <1>2 DEF Held, Touching

(* The shapes of two fixtures that touch are in fat boxes that overlap.    *)
LEMMA TouchNear ==
  ASSUME NEW bp, NEW L, NEW p, NEW s, Settled(bp, proxy, L, p, s),
         NEW f \in Existing, NEW g \in Existing, Touch(f, p[BodyOf[f]], g, p[BodyOf[g]])
  PROVE  TestOverlap(bp, proxy[f], proxy[g])
<1> DEFINE a == BoxAt(f, p[BodyOf[f]])
           b == BoxAt(g, p[BodyOf[g]])
           A == FatBox(bp, proxy[f])
           B == FatBox(bp, proxy[g])
<1>1. Owned(proxy) = Existing /\ f \in Fixtures /\ g \in Fixtures
  BY DEF Owned, Existing, Exists
<1>2. Covers(A, a) /\ Covers(B, b)
  BY <1>1 DEF Settled, Covered
<1>3. a \in Box /\ b \in Box
  <2>1. \A h \in Fixtures : p[BodyOf[h]] \in Int
    BY WorldAssumption DEF Settled, Positions
  <2> QED
    BY <1>1, <2>1, SweptBoxes
<1>4. A \in Box /\ B \in Box
  <2>1. Indexed(bp, proxy)
    BY DEF Settled
  <2> QED
    BY <2>1, Owner, FatBoxes DEF Indexed
<1>5. Overlap(a, b)
  BY DEF Touch
<1>6. \A x, y : Overlap(x, y) <=> Overlap(y, x)
  BY DEF Overlap
<1> HIDE DEF a, b, A, B
<1>7. Overlap(A, b)
  BY <1>2, <1>3, <1>4, <1>5, CoversOverlap
<1>8. Overlap(B, A)
  BY <1>2, <1>3, <1>4, <1>6, <1>7, CoversOverlap
<1> QED
  BY <1>6, <1>8 DEF TestOverlap, A, B

(* The contacts cs tell what touches of the bodies A, except of fixtures    *)
(* that are buffered in bp.                                                *)
Tells(cs, A, bp) ==
  \A f, g \in Existing :
    /\ ShouldCollide(f, g) /\ {BodyOf[f], BodyOf[g]} \cap A # {}
    /\ {proxy[f], proxy[g]} \cap bp.move = {}
    => (Touch(f, pos[BodyOf[f]], g, pos[BodyOf[g]])
          <=> \E c \in Range(cs) : Pair(c) = {f, g} /\ c.touching)

(* Collide's loop keeps the world settled, and what it leaves of awake     *)
(* bodies is what touches.                                                 *)
LEMMA CollidingSettled ==
  ASSUME NEW bp, bp.tree = broadPhase.tree, NEW L, NEW s, Settled(bp, proxy, L, pos, s)
  PROVE  LET r == Colliding!Fold(s, s.contacts)
         IN Settled(bp, proxy, L, pos, r) /\ Disturbs(r, s) /\ Tells(r.contacts, s.awake, bp)
<1> DEFINE r == Colliding!Fold(s, s.contacts)
<1>1. Owned(proxy) = Existing
  BY DEF Owned, Existing, Exists
<1>2. Indexed(bp, proxy) /\ Peopled(Existing, L) /\ s \in Fields(Existing, L) /\ Once(s.contacts)
  BY <1>1 DEF Settled
<1>3. /\ r \in Fields(Existing, L) /\ Once(r.contacts) /\ Disturbs(r, s)
      /\ \A c \in Range(s.contacts) : Near(c) => Pair(c) \in PairsIn(r.contacts)
      /\ \A d \in Range(r.contacts) : \E c \in Range(s.contacts) :
           Pair(c) = Pair(d) /\ (AwakeContact(c, s) => Near(c) /\ d = Updated(c, pos))
  BY <1>2, CollidingFields
<1> HIDE DEF r
<1>4. \A i, j : TestOverlap(bp, i, j) <=> TestOverlap(broadPhase, i, j)
  BY DEF TestOverlap, FatBox
<1>5. \A i, j : TestOverlap(bp, i, j) <=> TestOverlap(bp, j, i)
  BY DEF TestOverlap, Overlap
<1>6. \A f, g \in Existing : \A c \in Range(s.contacts) :
        Pair(c) = {f, g} /\ TestOverlap(bp, proxy[f], proxy[g]) => Near(c)
  BY <1>4, <1>5 DEF Near, Pair
<1>7. ASSUME NEW f \in Existing, NEW g \in Existing, {f, g} \in PairsIn(s.contacts), TestOverlap(bp, proxy[f], proxy[g])
      PROVE  {f, g} \in PairsIn(r.contacts)
  <2>1. PICK c \in Range(s.contacts) : Pair(c) = {f, g}
    BY <1>7 DEF PairsIn
  <2> QED
    BY <1>3, <1>6, <1>7, <2>1
<1>8. Complete(bp, proxy, r.contacts)
  <2> SUFFICES ASSUME NEW f \in Existing, NEW g \in Existing, ShouldCollide(f, g), TestOverlap(bp, proxy[f], proxy[g]),
                      {proxy[f], proxy[g]} \cap bp.move = {}
               PROVE  {f, g} \in PairsIn(r.contacts)
    BY <1>1 DEF Complete
  <2>1. {f, g} \in PairsIn(s.contacts)
    BY <1>1 DEF Settled, Complete
  <2> QED
    BY <1>7, <2>1
<1>9. Settled(bp, proxy, L, pos, r)
  BY <1>1, <1>3, <1>8 DEF Settled
<1>10. \A c \in Range(s.contacts) : c \in Met(Existing)
  BY <1>2 DEF Fields, Range
<1>11. ASSUME NEW f \in Existing, NEW g \in Existing, ShouldCollide(f, g),
              {BodyOf[f], BodyOf[g]} \cap s.awake # {}, {proxy[f], proxy[g]} \cap bp.move = {}
       PROVE  Touch(f, pos[BodyOf[f]], g, pos[BodyOf[g]])
                <=> \E c \in Range(r.contacts) : Pair(c) = {f, g} /\ c.touching
  <2> DEFINE touch == Touch(f, pos[BodyOf[f]], g, pos[BodyOf[g]])
  <2>1. ASSUME NEW d \in Range(r.contacts), Pair(d) = {f, g} PROVE d.touching <=> touch
    <3>1. PICK c \in Range(s.contacts) : Pair(c) = Pair(d) /\ (AwakeContact(c, s) => Near(c) /\ d = Updated(c, pos))
      BY <1>3
    <3>2. c = [a |-> c.a, b |-> c.b, touching |-> c.touching]
      BY <1>2, <1>10, MetContact
    <3>3. {c.a, c.b} = {f, g}
      BY <2>1, <3>1 DEF Pair
    <3>4. BodiesOf(c) = {BodyOf[f], BodyOf[g]}
      BY <3>3 DEF BodiesOf
    <3>5. d = Updated(c, pos)
      BY <1>11, <3>1, <3>4 DEF AwakeContact
    <3>6. d.touching = Touch(c.a, pos[BodyOf[c.a]], c.b, pos[BodyOf[c.b]])
      BY <3>2, <3>5 DEF Updated, Said
    <3>7. (c.a = f /\ c.b = g) \/ (c.a = g /\ c.b = f)
      BY <3>3
    <3>8. Touch(g, pos[BodyOf[g]], f, pos[BodyOf[f]]) <=> touch
      BY DEF Touch, Overlap
    <3> HIDE DEF touch
    <3>9. CASE c.a = f /\ c.b = g
      BY <3>6, <3>9 DEF touch
    <3>10. CASE c.a = g /\ c.b = f
      BY <3>6, <3>8, <3>10
    <3> QED
      BY <3>7, <3>9, <3>10
  <2>2. ASSUME touch PROVE {f, g} \in PairsIn(r.contacts)
    <3>1. TestOverlap(bp, proxy[f], proxy[g])
      BY <2>2, TouchNear
    <3>2. {f, g} \in PairsIn(s.contacts)
      BY <1>1, <1>11, <3>1 DEF Settled, Complete
    <3> QED
      BY <1>7, <3>1, <3>2
  <2> HIDE DEF touch
  <2> QED
    BY <2>1, <2>2 DEF PairsIn, touch
<1> QED
  BY <1>3, <1>9, <1>11 DEF r, Tells

(* Collide.                                                                *)
LEMMA CollideKeeps ==
  ASSUME WorldInv, Collide
  PROVE  WorldInv' /\ SleepersKeep
<1> DEFINE start == IF newFixture THEN FindNewContacts(State(contacts), broadPhase) ELSE State(contacts)
           s == Colliding!Fold(start, start.contacts)
           bp == IF newFixture THEN PairsSent(broadPhase) ELSE broadPhase
<1>1. /\ contacts' = s.contacts /\ bodies' = [awake |-> s.awake, rest |-> s.rest]
      /\ began' = [awake |-> start.awake, pos |-> pos] /\ broadPhase' = bp
      /\ newFixture' = FALSE /\ phase' = "collided"
      /\ proxy' = proxy /\ live' = live /\ pos' = pos /\ from' = from
  BY DEF Collide
<1>2. Settled(broadPhase, proxy, live, pos, State(contacts)) /\ from \in Positions
  BY DEF WorldInv
<1>3. /\ Settled(bp, proxy, live, pos, start) /\ bp.tree = broadPhase.tree
      /\ \A b \in Bodies : Held(start.contacts, b) = Held(contacts, b)
  <2>1. CASE newFixture
    <3>1. start = FindNewContacts(State(contacts), broadPhase) /\ bp = PairsSent(broadPhase)
      BY <2>1
    <3> HIDE DEF start, bp
    <3>2. Settled(bp, proxy, live, pos, start) /\ \A b \in Bodies : Held(start.contacts, b) = Held(State(contacts).contacts, b)
      BY <1>2, <3>1, FindNewContactsSettled
    <3>3. bp.tree = broadPhase.tree
      <4>1. broadPhase = [tree |-> broadPhase.tree, move |-> broadPhase.move]
        BY <1>2 DEF Settled, Indexed, BroadPhases
      <4> QED
        BY <3>1, <4>1 DEF PairsSent
    <3> QED
      BY <3>2, <3>3 DEF State
  <2>2. CASE ~ newFixture
    <3>1. start = State(contacts) /\ bp = broadPhase
      BY <2>2
    <3> HIDE DEF start, bp
    <3> QED
      BY <1>2, <3>1 DEF State
  <2> QED
    BY <2>1, <2>2
<1> HIDE DEF start, bp
<1>4. Settled(bp, proxy, live, pos, s) /\ Disturbs(s, start) /\ Tells(s.contacts, start.awake, bp)
  BY <1>3, CollidingSettled
<1> HIDE DEF s
<1>5. State(contacts)' = s /\ s \in Fields(Owned(proxy), live)
  <2>1. s \in Fields(Owned(proxy), live)
    BY <1>4 DEF Settled
  <2> QED
    BY <1>1, <2>1, NextState
<1>6. Settled(broadPhase, proxy, live, pos, State(contacts))'
  <2>1. Settled(broadPhase', proxy', live', pos', State(contacts)')
    BY <1>1, <1>4, <1>5
  <2> QED
    BY <2>1
<1>7. AwakeContactsCurrent'
  BY <1>1, <1>4 DEF AwakeContactsCurrent, Tells, Existing, Exists, Touch, ShouldCollide, Pair, Range
<1>8. WorldInv'
  BY <1>1, <1>2, <1>6, <1>7 DEF WorldInv, Positions
<1>9. SleepersKeep
  <2>1. \A b \in Moving \cap live' : b \notin s.awake => Held(s.contacts, b) = Held(contacts, b)
    BY <1>3, <1>4 DEF Disturbs, Moving
  <2> QED
    BY <1>5, <2>1, NextSleepers
<1> QED
  BY <1>8, <1>9

-----------------------------------------------------------------------------
(* What every operation but Collide must leave.                            *)
LEMMA NextInv ==
  ASSUME NEW s, Settled(broadPhase', proxy', live', pos', s),
         contacts' = s.contacts, bodies' = [awake |-> s.awake, rest |-> s.rest],
         from' \in Positions, newFixture' \in BOOLEAN, phase' \in {"idle", "solved"},
         \A b \in Moving \cap live' : b \notin s.awake => Held(s.contacts, b) = Held(contacts, b)
  PROVE  WorldInv' /\ SleepersKeep
<1>1. s \in Fields(Owned(proxy'), live')
  BY DEF Settled
<1>2. State(contacts)' = s
  BY <1>1, NextState
<1>3. SleepersKeep
  BY <1>1, <1>2, NextSleepers
<1>4. AwakeContactsCurrent'
  BY DEF AwakeContactsCurrent
<1>5. Settled(broadPhase', proxy', live', pos', State(contacts)')
  BY <1>2
<1> QED
  BY <1>3, <1>4, <1>5 DEF WorldInv, Positions

(* When the pairs are sent, the fat boxes cover at x the bodies of B, which *)
(* moved from there, and the others, which were covered there before.      *)
LEMMA SentCovers ==
  ASSUME NEW bp, NEW old, NEW B, NEW p, NEW q, Synchronized(bp, old, B, p, q), Indexed(bp, proxy),
         NEW x, NEW y, Covered(old, proxy, y),
         \A f \in Existing : x[BodyOf[f]] = IF BodyOf[f] \in B THEN p[BodyOf[f]] ELSE y[BodyOf[f]]
  PROVE  Covered(PairsSent(bp), proxy, x) /\ PairsSent(bp).move = {}
<1>1. bp.tree = PairsSent(bp).tree /\ PairsSent(bp).move = {}
  BY DEF Indexed, BroadPhases, PairsSent
<1>2. Owned(proxy) = Existing
  BY DEF Owned, Existing, Exists
<1>3. ASSUME NEW f \in Existing PROVE Covers(FatBox(PairsSent(bp), proxy[f]), BoxAt(f, x[BodyOf[f]]))
  <2>1. FatBox(PairsSent(bp), proxy[f]) = FatBox(bp, proxy[f])
    BY <1>1 DEF FatBox
  <2>2. CASE BodyOf[f] \in B
    BY <2>1, <2>2 DEF Synchronized
  <2>3. CASE BodyOf[f] \notin B
    BY <1>2, <2>1, <2>3 DEF Synchronized, Covered
  <2> QED
    BY <2>2, <2>3
<1> QED
  BY <1>1, <1>2, <1>3 DEF Covered

(* Islands are of bodies that live and move.                               *)
LEMMA IslandsLive ==
  ASSUME NEW E, NEW L, Peopled(E, L), State(contacts) \in Fields(E, L)
  PROVE  UNION Islands \subseteq L \ Static
<1>1. contacts \in Seq(Met(E)) /\ bodies.awake \subseteq L \ Static
  BY DEF Fields, State
<1>2. \A p \in Bonds : p \subseteq L
  <2> SUFFICES ASSUME NEW c \in Range(contacts) PROVE BodiesOf(c) \subseteq L
    BY DEF Bonds
  <2>1. c \in Met(E)
    BY <1>1 DEF Range
  <2> QED
    BY <2>1, MetContact
<1> DEFINE n == Cardinality(Bodies)
           T == 1..n
           s == Count(n)
           Inv == SUBSET (L \ Static)
<1>3. n \in Nat
  BY FS_CardinalityType, WorldAssumption
<1>4. s \in Seq(T)
  BY <1>3 DEF Count
<1>5. \A B \in Inv, k \in T : FloodStep(B, k) \in Inv
  <2> SUFFICES ASSUME NEW B \in SUBSET (L \ Static), NEW k PROVE FloodStep(B, k) \in SUBSET (L \ Static)
    OBVIOUS
  <2> DEFINE X == UNION {p \in Bonds : p \cap B # {}}
  <2>1. X \subseteq L
    BY <1>2
  <2>2. FloodStep(B, k) = B \cup (X \ Static)
    BY DEF FloodStep
  <2> HIDE DEF X
  <2> QED
    BY <2>1, <2>2
<1>6. ASSUME NEW b \in bodies.awake PROVE Flood(b) \in Inv
  <2>1. {b} \in Inv
    BY <1>1
  <2> HIDE DEF Inv, n, s, T
  <2>2. Flooding!Fold({b}, s) \in Inv
    BY <1>4, <1>5, <2>1, Flooding!FoldInvariant
  <2> QED
    BY <2>2 DEF Flood, n, s
<1> QED
  BY <1>6 DEF Islands

(* The fat boxes cover the sweeps from their starts on, and a body that    *)
(* sleeps has none.                                                        *)
Sweeps(bp, px, start, now, asleep) ==
  bp.move = {} /\ Covered(bp, px, start) /\ \A b \in asleep : start[b] = now[b]

(* Solve.                                                                  *)
LEMMA SolveKeeps ==
  ASSUME WorldInv, Solve
  PROVE  /\ WorldInv' /\ SleepersKeep
         /\ Sweeps(broadPhase', proxy', from', pos', Moving \ bodies'.awake)
         /\ from' = pos /\ proxy' = proxy /\ began' = began /\ phase = "collided" /\ phase' = "solved"
         /\ \A b \in Static : pos'[b] = pos[b]
<1> DEFINE islands == Islands
           U == UNION islands
<1>0. PICK move \in Moves(islands) : \E solved \in SUBSET MaySleep(islands, move) :
        LET sleep == UNION solved
            q == [b \in Bodies |-> pos[b] + move[b]]
            bp == Synchronize(broadPhase, U, pos, q)
            s == FindNewContacts(
                   [contacts |-> contacts,
                    awake |-> (bodies.awake \cup U) \ sleep,
                    rest |-> [b \in Bodies |-> IF b \in sleep THEN 0
                                               ELSE Rested(islands, move)[b]]], bp)
        IN /\ pos' = q
           /\ contacts' = s.contacts
           /\ bodies' = [awake |-> s.awake, rest |-> s.rest]
           /\ broadPhase' = PairsSent(bp)
  BY DEF Solve
<1>1. PICK solved \in SUBSET MaySleep(islands, move) :
        LET sleep == UNION solved
            q == [b \in Bodies |-> pos[b] + move[b]]
            bp == Synchronize(broadPhase, U, pos, q)
            s == FindNewContacts(
                   [contacts |-> contacts,
                    awake |-> (bodies.awake \cup U) \ sleep,
                    rest |-> [b \in Bodies |-> IF b \in sleep THEN 0
                                               ELSE Rested(islands, move)[b]]], bp)
        IN /\ pos' = q
           /\ contacts' = s.contacts
           /\ bodies' = [awake |-> s.awake, rest |-> s.rest]
           /\ broadPhase' = PairsSent(bp)
  BY <1>0
<1>2. /\ from' = pos /\ phase' = "solved" /\ proxy' = proxy /\ live' = live /\ newFixture' = newFixture
      /\ began' = began /\ phase = "collided"
  BY <1>1 DEF Solve
<1> DEFINE sleep == UNION solved
           q == [b \in Bodies |-> pos[b] + move[b]]
           bp == Synchronize(broadPhase, U, pos, q)
           rest == [b \in Bodies |-> IF b \in sleep THEN 0 ELSE Rested(islands, move)[b]]
           t == [contacts |-> contacts, awake |-> (bodies.awake \cup U) \ sleep, rest |-> rest]
           s == FindNewContacts(t, bp)
<1>3. pos' = q /\ contacts' = s.contacts /\ bodies' = [awake |-> s.awake, rest |-> s.rest] /\ broadPhase' = PairsSent(bp)
  BY <1>1
<1>4. /\ Settled(broadPhase, proxy, live, pos, State(contacts))
      /\ Peopled(Owned(proxy), live) /\ State(contacts) \in Fields(Owned(proxy), live) /\ Once(contacts)
      /\ pos \in Positions /\ newFixture \in BOOLEAN
  BY DEF WorldInv, Settled, State
<1>5. contacts \in Seq(Met(Owned(proxy))) /\ bodies.awake \in SUBSET (live \ Static) /\ bodies.rest \in [Bodies -> 0..TimeToSleep]
  BY <1>4 DEF State, Fields
<1>6. U \subseteq live \ Static
  BY <1>4, IslandsLive
<1>7. /\ move \in [Bodies -> Velocities]
      /\ \A b \in Bodies : b \notin U => move[b] = 0
      /\ \A b \in Bodies : b \in live => pos[b] + move[b] \in Places
  BY DEF Moves
<1>8. q \in Positions /\ \A b \in Bodies \ U : q[b] = pos[b]
  <2>1. \A b \in Bodies : pos[b] \in Places /\ pos[b] \in Int
    BY <1>4, WorldAssumption DEF Positions
  <2>2. \A b \in Bodies : b \notin U => pos[b] + move[b] = pos[b]
    BY <1>7, <2>1
  <2>3. \A b \in Bodies : pos[b] + move[b] \in Places
    BY <1>6, <1>7, <2>1, <2>2
  <2> QED
    BY <2>2, <2>3 DEF Positions
<1>9. rest \in [Bodies -> 0..TimeToSleep]
  <2> SUFFICES ASSUME NEW b \in Bodies PROVE Rested(islands, move)[b] \in 0..TimeToSleep
    BY WorldAssumption
  <2>1. bodies.rest[b] \in 0..TimeToSleep /\ TimeToSleep \in Nat
    BY <1>5, WorldAssumption
  <2>2. Min({bodies.rest[b] + 1, TimeToSleep}) \in 0..TimeToSleep
    <3> DEFINE m == bodies.rest[b] + 1
    <3>1. m \in Int /\ m >= 0 /\ TimeToSleep \in Int
      BY <2>1
    <3> HIDE DEF m
    <3>2. Min({m, TimeToSleep}) = IF m <= TimeToSleep THEN m ELSE TimeToSleep
      BY <3>1, MinMax
    <3>3. Min({m, TimeToSleep}) \in 0..TimeToSleep
      BY <2>1, <3>1, <3>2
    <3> QED
      BY <3>3 DEF m
  <2> HIDE DEF islands, U
  <2> QED
    BY <2>1, <2>2 DEF Rested
(* Who is put to sleep was at rest.                                        *)
<1>a. \A b \in Bodies : b \in sleep => q[b] = pos[b]
  <2> SUFFICES ASSUME NEW b \in Bodies, b \in sleep PROVE q[b] = pos[b]
    OBVIOUS
  <2>1. PICK I \in MaySleep(islands, move) : b \in I
    BY <1>1
  <2>2. b \in UNION islands /\ Rested(islands, move)[b] = TimeToSleep
    BY <2>1 DEF MaySleep
  <2> HIDE DEF islands
  <2>3. move[b] = 0
    BY <2>2, WorldAssumption DEF Rested
  <2>4. pos[b] \in Int
    BY <1>4, WorldAssumption DEF Positions
  <2> QED
    BY <2>3, <2>4
<1> HIDE DEF q, rest, islands
<1>10. t \in Fields(Owned(proxy), live) /\ t.contacts = contacts /\ State(contacts).contacts = contacts
  <2>1. (bodies.awake \cup U) \ sleep \in SUBSET (live \ Static)
    BY <1>5, <1>6
  <2> HIDE DEF sleep, U
  <2> QED
    BY <1>5, <1>9, <2>1 DEF Fields, State
<1> HIDE DEF t, U
<1>11. Settled(bp, proxy, live, q, State(contacts))
  BY <1>4, <1>8, SynchronizeSettled
<1>b. Synchronized(bp, broadPhase, U, pos, q)
  BY <1>4, <1>8, SynchronizeFields DEF Settled, Positions
<1> HIDE DEF bp
<1>12. Settled(bp, proxy, live, q, t)
  BY <1>4, <1>10, <1>11, MoreContacts
<1>13. /\ Settled(PairsSent(bp), proxy, live, q, s) /\ \A b \in Bodies : Held(s.contacts, b) = Held(contacts, b)
       /\ (bodies.awake \cup U) \ sleep \subseteq s.awake
  <2>1. s = FindNewContacts(t, bp)
    OBVIOUS
  <2> HIDE DEF s
  <2>2. /\ Settled(PairsSent(bp), proxy, live, q, s) /\ \A b \in Bodies : Held(s.contacts, b) = Held(t.contacts, b)
        /\ t.awake \subseteq s.awake
    BY <1>12, <2>1, FindNewContactsSettled
  <2> QED
    BY <1>10, <2>2 DEF t
<1> HIDE DEF s
<1>14. Settled(broadPhase', proxy', live', pos', s)
  BY <1>2, <1>3, <1>13
<1>15. \A b \in Moving \cap live' : b \notin s.awake => Held(s.contacts, b) = Held(contacts, b)
  BY <1>13 DEF Moving
<1>16. WorldInv' /\ SleepersKeep
  BY <1>2, <1>3, <1>4, <1>14, <1>15, NextInv
<1>17. Covered(PairsSent(bp), proxy, pos) /\ PairsSent(bp).move = {}
  <2>1. Covered(broadPhase, proxy, pos) /\ Indexed(bp, proxy)
    BY <1>4, <1>11 DEF Settled
  <2>2. \A f \in Existing : pos[BodyOf[f]] = IF BodyOf[f] \in U THEN pos[BodyOf[f]] ELSE pos[BodyOf[f]]
    OBVIOUS
  <2> QED
    BY <1>b, <2>1, <2>2, SentCovers
<1>18. \A b \in Moving \ s.awake : pos[b] = q[b]
  BY <1>8, <1>13, <1>a DEF Moving
<1>19. \A b \in Static : q[b] = pos[b]
  <2>1. Static \subseteq Bodies
    BY WorldAssumption
  <2> QED
    BY <1>6, <1>8, <2>1
<1>20. Sweeps(broadPhase', proxy', from', pos', Moving \ bodies'.awake)
  <2>1. bodies'.awake = s.awake
    BY <1>3
  <2> QED
    BY <1>2, <1>3, <1>17, <1>18, <2>1 DEF Sweeps
<1> QED
  BY <1>2, <1>3, <1>16, <1>19, <1>20

(* What WorldInv holds of the world.                                       *)
LEMMA InvParts ==
  ASSUME WorldInv
  PROVE  /\ Settled(broadPhase, proxy, live, pos, State(contacts)) /\ Indexed(broadPhase, proxy)
         /\ Peopled(Owned(proxy), live) /\ State(contacts) \in Fields(Owned(proxy), live) /\ Once(contacts)
         /\ State(contacts).contacts = contacts /\ State(contacts).awake = bodies.awake
         /\ State(contacts) = [contacts |-> contacts, awake |-> bodies.awake, rest |-> bodies.rest]
         /\ pos \in Positions /\ from \in Positions /\ newFixture \in BOOLEAN
         /\ live \subseteq Bodies /\ Owned(proxy) = Existing
BY DEF WorldInv, Settled, State, Peopled, Owned, Existing, Exists

(* What is remembered of the impacts has its type.                         *)
ToiInv ==
  /\ toi \in [count : [Impacts -> 0..(MaxSubSteps + 1)], skipped : SUBSET Impacts, missed : SUBSET Impacts]
  /\ toi.skipped \subseteq toi.missed

(* A stop is a place and the fixtures that would meet.                     *)
LEMMA StopsAre ==
  ASSUME NEW b, NEW e \in Stops(b)
  PROVE  /\ e[1] \in Places /\ e[2] \in Impacts /\ BodyOf[e[2][1]] = b /\ LooksAt(e[2])
         /\ Blocks(b, e[1], e[2][1], e[2][2])
BY DEF Stops

(* A time of impact.                                                       *)
LEMMA TimeOfImpactKeeps ==
  ASSUME WorldInv, TimeOfImpact
  PROVE  /\ WorldInv' /\ SleepersKeep
         /\ Sweeps(broadPhase, proxy, from, pos, Moving \ bodies.awake) =>
              Sweeps(broadPhase', proxy', from', pos', Moving \ bodies'.awake)
         /\ proxy' = proxy /\ began' = began /\ phase = "solved" /\ phase' = phase
         /\ \A b \in Static : pos'[b] = pos[b]
         /\ \E b \in bodies.awake : \E e \in FirstStops(b) :
              /\ from' = [from EXCEPT ![b] = e[1]]
              /\ toi' = [toi EXCEPT !.count[e[2]] = @ + 1,
                                    !.skipped = {m \in @ : BodyOf[m[1]] # b}]
<1>0. PICK b \in bodies.awake : \E e \in FirstStops(b) :
        LET p == [pos EXCEPT ![b] = e[1]]
            hit == UpdateAtImpact(b, p)
        IN /\ \E d \in Rests(b, p) :
                LET q == [p EXCEPT ![b] = @ + d]
                    bp == Synchronize(broadPhase, {b}, p, q)
                    s == FindNewContacts(hit, bp)
                IN /\ pos' = q
                   /\ from' = [from EXCEPT ![b] = p[b]]
                   /\ contacts' = s.contacts
                   /\ bodies' = [awake |-> s.awake, rest |-> s.rest]
                   /\ broadPhase' = PairsSent(bp)
           /\ toi' = [toi EXCEPT !.count[e[2]] = @ + 1,
                                 !.skipped = {m \in @ : BodyOf[m[1]] # b}]
  BY DEF TimeOfImpact
<1>1. PICK e \in FirstStops(b) :
        LET p == [pos EXCEPT ![b] = e[1]]
            hit == UpdateAtImpact(b, p)
        IN /\ \E d \in Rests(b, p) :
                LET q == [p EXCEPT ![b] = @ + d]
                    bp == Synchronize(broadPhase, {b}, p, q)
                    s == FindNewContacts(hit, bp)
                IN /\ pos' = q
                   /\ from' = [from EXCEPT ![b] = p[b]]
                   /\ contacts' = s.contacts
                   /\ bodies' = [awake |-> s.awake, rest |-> s.rest]
                   /\ broadPhase' = PairsSent(bp)
           /\ toi' = [toi EXCEPT !.count[e[2]] = @ + 1,
                                 !.skipped = {m \in @ : BodyOf[m[1]] # b}]
  BY <1>0
<1> DEFINE p == [pos EXCEPT ![b] = e[1]]
           hit == UpdateAtImpact(b, p)
<1>2. PICK d \in Rests(b, p) :
        LET q == [p EXCEPT ![b] = @ + d]
            bp == Synchronize(broadPhase, {b}, p, q)
            s == FindNewContacts(hit, bp)
        IN /\ pos' = q
           /\ from' = [from EXCEPT ![b] = p[b]]
           /\ contacts' = s.contacts
           /\ bodies' = [awake |-> s.awake, rest |-> s.rest]
           /\ broadPhase' = PairsSent(bp)
  BY <1>1
<1> DEFINE q == [p EXCEPT ![b] = p[b] + d]
           bp == Synchronize(broadPhase, {b}, p, q)
           s == FindNewContacts(hit, bp)
<1>3. /\ pos' = q /\ from' = [from EXCEPT ![b] = p[b]]
      /\ contacts' = s.contacts /\ bodies' = [awake |-> s.awake, rest |-> s.rest] /\ broadPhase' = PairsSent(bp)
  BY <1>2
<1>4. phase' = phase /\ phase = "solved" /\ proxy' = proxy /\ live' = live /\ newFixture' = newFixture /\ began' = began
  BY DEF TimeOfImpact
<1>5. /\ Settled(broadPhase, proxy, live, pos, State(contacts))
      /\ Peopled(Owned(proxy), live) /\ State(contacts) \in Fields(Owned(proxy), live) /\ Once(contacts)
      /\ pos \in Positions /\ from \in Positions /\ newFixture \in BOOLEAN
  BY DEF WorldInv, Settled, State
<1>6. b \in live /\ b \in Bodies /\ b \notin Static
  BY <1>5 DEF State, Fields, Peopled
<1>7. e[1] \in Places
  BY StopsAre DEF FirstStops
<1>8. p \in Positions /\ (\A c \in Bodies \ {b} : p[c] = pos[c]) /\ p[b] = e[1]
  BY <1>5, <1>6, <1>7 DEF Positions
<1>9. p[b] + d \in Places
  BY DEF Rests
<1> HIDE DEF p
<1>10. q \in Positions /\ \A c \in Bodies \ {b} : q[c] = pos[c]
  BY <1>8, <1>9 DEF Positions
<1>11. from' \in Positions
  BY <1>3, <1>5, <1>6, <1>8 DEF Positions
<1>12. /\ hit \in Fields(Owned(proxy), live) /\ Once(hit.contacts) /\ Disturbs(hit, State(contacts))
       /\ PairsIn(hit.contacts) = PairsIn(contacts)
  BY <1>5, <1>6, UpdateAtImpactFields
<1> HIDE DEF hit, q
<1>13. Settled(bp, proxy, live, q, State(contacts))
  BY <1>5, <1>8, <1>10, SynchronizeSettled
<1>a. Synchronized(bp, broadPhase, {b}, p, q)
  BY <1>5, <1>8, <1>10, SynchronizeFields DEF Settled, Positions
<1> HIDE DEF bp
<1>14. Settled(bp, proxy, live, q, hit)
  <2>1. State(contacts).contacts = contacts
    BY DEF State
  <2> QED
    BY <1>12, <1>13, <2>1, MoreContacts
<1>15. /\ Settled(PairsSent(bp), proxy, live, q, s) /\ hit.awake \subseteq s.awake
       /\ \A c \in Bodies : Held(s.contacts, c) = Held(hit.contacts, c)
  <2>1. s = FindNewContacts(hit, bp)
    OBVIOUS
  <2> HIDE DEF s
  <2> QED
    BY <1>14, <2>1, FindNewContactsSettled
<1> HIDE DEF s
<1>16. Settled(broadPhase', proxy', live', pos', s)
  BY <1>3, <1>4, <1>15
<1>17. \A c \in Moving \cap live' : c \notin s.awake => Held(s.contacts, c) = Held(contacts, c)
  BY <1>12, <1>15 DEF Moving, Disturbs, State
<1>18. WorldInv' /\ SleepersKeep
  BY <1>3, <1>4, <1>5, <1>11, <1>16, <1>17, NextInv
<1> DEFINE x == [from EXCEPT ![b] = p[b]]
<1>19. x[b] = p[b] /\ \A c \in Bodies \ {b} : x[c] = from[c]
  BY <1>5, <1>6 DEF Positions
<1>20. ASSUME Sweeps(broadPhase, proxy, from, pos, Moving \ bodies.awake)
       PROVE  Sweeps(broadPhase', proxy', from', pos', Moving \ bodies'.awake)
  <2> HIDE DEF x
  <2>1. Indexed(bp, proxy)
    BY <1>13 DEF Settled
  <2>2. \A f \in Existing : x[BodyOf[f]] = IF BodyOf[f] \in {b} THEN p[BodyOf[f]] ELSE from[BodyOf[f]]
    BY <1>19, WorldAssumption DEF Existing
  <2>3. PairsSent(bp).move = {} /\ Covered(PairsSent(bp), proxy, x)
    <3>1. Covered(broadPhase, proxy, from)
      BY <1>20 DEF Sweeps
    <3> QED
      BY <1>a, <2>1, <2>2, <3>1, SentCovers
  <2>4. ASSUME NEW c \in Moving \ s.awake PROVE x[c] = q[c]
    <3>1. bodies.awake \subseteq s.awake
      BY <1>12, <1>15 DEF Disturbs, State
    <3>2. c \in Bodies \ {b} /\ c \in Moving \ bodies.awake
      BY <3>1 DEF Moving
    <3> QED
      BY <1>10, <1>19, <1>20, <3>2 DEF Sweeps
  <2>5. bodies'.awake = s.awake /\ from' = x
    BY <1>3 DEF x
  <2> QED
    BY <1>3, <1>4, <2>3, <2>4, <2>5 DEF Sweeps
<1>21. \A c \in Static : pos'[c] = pos[c]
  <2>1. Static \subseteq Bodies
    BY WorldAssumption
  <2> QED
    BY <1>3, <1>6, <1>10, <2>1
<1>22. from' = [from EXCEPT ![b] = e[1]]
  BY <1>3, <1>8
<1> QED
  BY <1>1, <1>4, <1>18, <1>20, <1>21, <1>22

(* A time of impact at which the fixtures do not touch.                    *)
LEMMA ImpactNotTouchingKeeps ==
  ASSUME WorldInv, ImpactNotTouching
  PROVE  /\ WorldInv' /\ SleepersKeep
         /\ bodies.awake \subseteq bodies'.awake
         /\ UNCHANGED <<broadPhase, proxy, pos, from, phase, began>> /\ phase = "solved"
<1>1. PICK c \in Range(contacts) :
        /\ contacts' = SetTouching(State(contacts), c, FALSE).contacts
        /\ bodies' = [awake |-> SetTouching(State(contacts), c, FALSE).awake,
                      rest |-> SetTouching(State(contacts), c, FALSE).rest]
  BY DEF ImpactNotTouching
<1> DEFINE no == FALSE
           s == SetTouching(State(contacts), c, no)
<1>2. contacts' = s.contacts /\ bodies' = [awake |-> s.awake, rest |-> s.rest]
  BY <1>1
<1>b. no \in BOOLEAN
  OBVIOUS
<1> HIDE DEF no
<1>3. /\ UNCHANGED <<broadPhase, proxy, live, pos, from, newFixture, phase, began>> /\ phase = "solved"
  BY DEF ImpactNotTouching
<1>4. /\ Settled(broadPhase, proxy, live, pos, State(contacts))
      /\ Peopled(Owned(proxy), live) /\ State(contacts) \in Fields(Owned(proxy), live) /\ Once(contacts)
      /\ State(contacts).contacts = contacts /\ State(contacts).awake = bodies.awake
      /\ from \in Positions /\ newFixture \in BOOLEAN
  BY InvParts
<1>5. contacts \in Seq(Met(Owned(proxy))) /\ c \in Met(Owned(proxy))
  BY <1>4 DEF Fields, Range
<1>a. /\ s \in Fields(Owned(proxy), live) /\ (Once(State(contacts).contacts) => Once(s.contacts))
      /\ Disturbs(s, State(contacts))
      /\ Range(s.contacts) = {IF d = c THEN Said(c, no) ELSE d : d \in Range(State(contacts).contacts)}
  <2> DEFINE E == Owned(proxy)
             before == State(contacts)
  <2>1. Peopled(E, live) /\ before \in Fields(E, live) /\ c \in Met(E) /\ no \in BOOLEAN
    BY <1>4, <1>5, <1>b
  <2> HIDE DEF E, before
  <2>2. LET r == SetTouching(before, c, no)
        IN /\ r \in Fields(E, live)
           /\ Range(r.contacts) = {IF d = c THEN Said(c, no) ELSE d : d \in Range(before.contacts)}
           /\ Once(before.contacts) => Once(r.contacts)
           /\ Disturbs(r, before)
    BY ONLY <2>1, SetTouchingFields
  <2> QED
    BY <2>2 DEF E, before
<1>6. /\ s \in Fields(Owned(proxy), live) /\ Once(s.contacts) /\ Disturbs(s, State(contacts))
      /\ Range(s.contacts) = {IF d = c THEN Said(c, no) ELSE d : d \in Range(contacts)}
  <2> HIDE DEF s
  <2> QED
    BY <1>4, <1>a
<1> HIDE DEF s
<1>7. PairsIn(s.contacts) = PairsIn(contacts)
  <2>1. Pair(Said(c, no)) = Pair(c)
    BY <1>5, MetContact DEF Said, Pair
  <2> QED
    BY <1>6, <2>1 DEF PairsIn
<1>8. Settled(broadPhase, proxy, live, pos, s)
  BY <1>4, <1>6, <1>7, MoreContacts
<1>9. Settled(broadPhase', proxy', live', pos', s)
  BY <1>3, <1>8
<1>10. \A b \in Moving \cap live' : b \notin s.awake => Held(s.contacts, b) = Held(contacts, b)
  BY <1>4, <1>6 DEF Moving, Disturbs
<1>11. WorldInv' /\ SleepersKeep
  BY <1>2, <1>3, <1>4, <1>9, <1>10, NextInv
<1>12. bodies.awake \subseteq bodies'.awake
  BY <1>2, <1>4, <1>6 DEF Disturbs
<1> QED
  BY <1>3, <1>11, <1>12

(* The end of a step.                                                      *)
LEMMA StepDoneKeeps ==
  ASSUME WorldInv, StepDone
  PROVE  WorldInv' /\ SleepersKeep
<1>1. /\ from' = pos /\ phase' = "idle" /\ broadPhase' = broadPhase /\ proxy' = proxy /\ live' = live
      /\ pos' = pos /\ bodies' = bodies /\ contacts' = contacts /\ newFixture' = newFixture
  BY DEF StepDone
<1>2. /\ Settled(broadPhase, proxy, live, pos, State(contacts)) /\ newFixture \in BOOLEAN /\ pos \in Positions
  BY DEF WorldInv, Settled
<1>3. Settled(broadPhase, proxy, live, pos, State(contacts))'
  BY <1>1, <1>2 DEF State
<1>4. AwakeContactsCurrent'
  BY <1>1 DEF AwakeContactsCurrent
<1>5. WorldInv'
  BY <1>1, <1>2, <1>3, <1>4 DEF WorldInv, Positions
<1>6. SleepersKeep
  BY <1>1 DEF SleepersKeep, Touching, BodiesOf, Solid, Pair, Range
<1> QED
  BY <1>5, <1>6

-----------------------------------------------------------------------------
(* A model is loaded.                                                      *)
LEMMA CreateBodyKeeps ==
  ASSUME WorldInv, NEW b \in Bodies, NEW x \in Poses, CreateBody(b, x)
  PROVE  WorldInv' /\ SleepersKeep
<1> DEFINE p == [pos EXCEPT ![b] = x]
           F == FixturesOf(b)
           r == CreateFixtures(F, p, [bp |-> broadPhase, proxy |-> proxy])
           s == SetAwake(State(contacts), {b})
           M == live \cup {b}
<1>1. /\ from' = p /\ pos' = p /\ broadPhase' = r.bp /\ proxy' = r.proxy /\ live' = M
      /\ contacts' = s.contacts /\ bodies' = [awake |-> s.awake, rest |-> s.rest]
      /\ newFixture' = TRUE /\ phase' = phase /\ phase = "idle" /\ b \notin live
  BY DEF CreateBody, Between, Put
<1>2. p \in Positions /\ p \in [Bodies -> Places] /\ \A c \in live : p[c] = pos[c]
  BY <1>1, InvParts, WorldAssumption DEF Positions
<1>3. F \in SUBSET Fixtures /\ \A f \in F : BodyOf[f] \in M
  BY DEF FixturesOf
<1>4. \A f \in F : proxy[f] = Null
  BY <1>1, InvParts DEF FixturesOf, Owned, Peopled
<1>5. Built(r, broadPhase, proxy, F, p)
  <2> HIDE DEF F, p
  <2> QED
    BY <1>2, <1>3, <1>4, InvParts, CreateFixturesFields
<1> HIDE DEF r, F, p
<1>6. M \in SUBSET Bodies /\ live \subseteq M /\ {b} \in SUBSET M
  BY InvParts
<1>7. Settled(r.bp, r.proxy, M, p, State(contacts))
  <2> DEFINE c0 == State(contacts)
             y == r.proxy
             z == r.bp
  <2>1. Settled(broadPhase, proxy, live, pos, c0)
    BY InvParts
  <2>2. \A f \in F : BodyOf[f] \in M
    BY <1>3
  <2> HIDE DEF c0, M
  <2>3. Settled(z, y, M, p, c0) /\ Owned(y) = Owned(proxy) \cup F
    BY <1>2, <1>3, <1>4, <1>5, <1>6, <2>1, <2>2, BuiltSettled
  <2> QED
    BY <2>3 DEF c0
<1>8. s.contacts = contacts /\ s \in Fields(Owned(r.proxy), M)
  <2>1. Peopled(Owned(r.proxy), M) /\ State(contacts) \in Fields(Owned(r.proxy), M)
    BY <1>7 DEF Settled
  <2> HIDE DEF M, s
  <2> QED
    BY <1>6, <2>1, InvParts, SetAwakeFields DEF s
<1> HIDE DEF s, M
<1>9. Settled(r.bp, r.proxy, M, p, s)
  BY <1>7, <1>8, InvParts, MoreContacts
<1>10. Settled(broadPhase', proxy', live', pos', s)
  BY <1>1, <1>9
<1>11. from' \in Positions /\ newFixture' \in BOOLEAN /\ phase' \in {"idle", "solved"}
  BY <1>1, <1>2
<1> QED
  BY <1>1, <1>8, <1>10, <1>11, NextInv

(* A model is deleted.                                                     *)
LEMMA DestroyBodyKeeps ==
  ASSUME WorldInv, NEW b \in Bodies, DestroyBody(b)
  PROVE  WorldInv' /\ SleepersKeep
<1> DEFINE F == FixturesOf(b)
           G == ExistingOf(b)
           s == DestroyContactsOf(F)
           t == [s EXCEPT !.awake = @ \ {b}, !.rest[b] = 0]
           r == DestroyFixtures(G, [bp |-> broadPhase, proxy |-> proxy])
           p == [pos EXCEPT ![b] = 0]
           M == live \ {b}
           E == Owned(proxy)
<1>1. /\ from' = pos' /\ pos' = p /\ broadPhase' = r.bp /\ proxy' = r.proxy /\ live' = M
      /\ contacts' = t.contacts /\ bodies' = [awake |-> t.awake, rest |-> t.rest]
      /\ newFixture' = newFixture /\ phase' = phase /\ phase = "idle" /\ b \in live
  BY DEF DestroyBody, Between, Put
<1>2. /\ s \in Fields(E \ F, live) /\ Once(s.contacts) /\ Disturbs(s, State(contacts))
      /\ Range(s.contacts) = {c \in Range(contacts) : Pair(c) \cap F = {}}
  <2> HIDE DEF F, s, E
  <2>1. Peopled(E, live) /\ State(contacts) \in Fields(E, live) /\ Once(contacts)
    BY InvParts DEF E
  <2> QED
    BY <2>1, DestroyContactsOfFields DEF s
<1>3. G \in SUBSET Fixtures /\ G = E \cap F /\ \A f \in G : proxy[f] # Null
  BY DEF ExistingOf, FixturesOf, Owned, Exists
<1>4. Razed(r, broadPhase, proxy, G)
  <2> HIDE DEF G
  <2> QED
    BY <1>3, InvParts, DestroyFixturesFields
<1>5. E \ F = E \ G /\ \A f \in E \ G : BodyOf[f] \in M
  <2>1. \A f \in E : f \in Fixtures /\ BodyOf[f] \in live
    BY InvParts DEF Peopled
  <2>2. \A f \in Fixtures : f \in F <=> BodyOf[f] = b
    BY DEF FixturesOf
  <2> HIDE DEF F, G, E
  <2> QED
    BY <1>3, <2>1, <2>2
<1>6. p \in Positions /\ \A c \in M : p[c] = pos[c]
  BY InvParts, WorldAssumption DEF Positions
<1>7. /\ t \in Fields(E \ G, M) /\ t.contacts = s.contacts /\ t.awake = s.awake \ {b}
  <2> DEFINE awake == s.awake \ {b}
             rest == [s.rest EXCEPT ![b] = 0]
  <2>1. /\ s.contacts \in Seq(Met(E \ F)) /\ s.awake \in SUBSET (live \ Static) /\ s.rest \in [Bodies -> 0..TimeToSleep]
        /\ s = [contacts |-> s.contacts, awake |-> s.awake, rest |-> s.rest]
    BY <1>2 DEF Fields
  <2>2. t = [s EXCEPT !.awake = awake, !.rest = rest]
    <3> HIDE DEF s
    <3> QED
      BY <2>1
  <2>3. awake \in SUBSET (M \ Static)
    BY <2>1
  <2>4. rest \in [Bodies -> 0..TimeToSleep]
    BY <2>1, WorldAssumption
  <2> HIDE DEF t, s, awake, rest, M, E, F, G
  <2>5. t = [contacts |-> s.contacts, awake |-> awake, rest |-> rest]
    BY <2>1, <2>2
  <2> QED
    BY <1>5, <2>1, <2>3, <2>4, <2>5 DEF Fields, awake
<1> HIDE DEF t, s, r, p, G
<1>8. \A c \in Range(contacts) : Pair(c) \cap G = {} => c \in Range(t.contacts)
  <2> SUFFICES ASSUME NEW c \in Range(contacts), Pair(c) \cap G = {} PROVE Pair(c) \cap F = {}
    BY <1>2, <1>7
  <2>1. contacts \in Seq(Met(E))
    BY InvParts DEF Fields
  <2>2. c \in Met(E)
    BY <2>1 DEF Range
  <2>3. Pair(c) \subseteq E
    BY <2>2 DEF Met, Pair
  <2> HIDE DEF E, F
  <2> QED
    BY <1>3, <2>3
<1> HIDE DEF F
<1>9. Settled(r.bp, r.proxy, M, p, t)
  <2> DEFINE c0 == State(contacts)
  <2>1. /\ Settled(broadPhase, proxy, live, pos, c0) /\ M \in SUBSET Bodies
        /\ \A c \in Range(c0.contacts) : Pair(c) \cap G = {} => c \in Range(t.contacts)
    BY <1>8, InvParts
  <2>2. Once(t.contacts)
    BY <1>2, <1>7
  <2>3. t \in Fields(Owned(proxy) \ G, M) /\ \A f \in Owned(proxy) \ G : BodyOf[f] \in M
    BY <1>5, <1>7
  <2> HIDE DEF c0, M, E
  <2> QED
    BY <1>3, <1>4, <1>6, <2>1, <2>2, <2>3, RazedSettled
<1>10. Settled(broadPhase', proxy', live', pos', t)
  BY <1>1, <1>9
<1>11. \A c \in Moving \cap live' : c \notin t.awake => Held(t.contacts, c) = Held(contacts, c)
  <2>1. \A c \in Moving : c \notin s.awake => Held(s.contacts, c) = Held(contacts, c)
    BY <1>2, InvParts DEF Disturbs
  <2> QED
    BY <1>1, <1>7, <2>1
<1>12. from' \in Positions /\ newFixture' \in BOOLEAN /\ phase' \in {"idle", "solved"}
  BY <1>1, <1>6, InvParts
<1> QED
  BY <1>1, <1>10, <1>11, <1>12, NextInv

(* A body is put elsewhere between two steps.                              *)
LEMMA TransformedSettled ==
  ASSUME WorldInv, NEW b \in Bodies, NEW x \in Places, NEW bp, NEW p, NEW s,
         Settled(bp, proxy, live, p, s), \A c \in Bodies \ {b} : p[c] = pos[c]
  PROVE  LET q == [pos EXCEPT ![b] = x]
         IN Settled(Transformed(bp, b, x), proxy, live, q, s)
            /\ q \in Positions /\ \A c \in Bodies \ {b} : q[c] = pos[c]
<1> DEFINE q == [pos EXCEPT ![b] = x]
<1>1. q \in Positions /\ \A c \in Bodies \ {b} : q[c] = pos[c]
  BY InvParts DEF Positions
<1>2. Transformed(bp, b, x) = Synchronize(bp, {b}, q, q)
  BY DEF Transformed
<1> HIDE DEF q
<1>3. \A c \in Bodies \ {b} : q[c] = p[c]
  BY <1>1
<1>4. Settled(Synchronize(bp, {b}, q, q), proxy, live, q, s)
  BY <1>1, <1>3, SynchronizeSettled
<1> QED
  BY <1>1, <1>2, <1>4 DEF q

(* SetPose, with its two transforms.                                       *)
LEMMA SetPoseKeeps ==
  ASSUME WorldInv, NEW b \in Bodies, NEW x \in Poses, SetPose(b, x)
  PROVE  WorldInv' /\ SleepersKeep
<1> DEFINE s == State(contacts)
           q0 == [pos EXCEPT ![b] = 0]
           q == [pos EXCEPT ![b] = x]
           bp0 == Transformed(broadPhase, b, 0)
           bp == Transformed(bp0, b, x)
<1>1. /\ broadPhase' = bp /\ pos' = q /\ from' = pos' /\ proxy' = proxy /\ live' = live
      /\ bodies' = bodies /\ contacts' = contacts /\ newFixture' = newFixture
      /\ phase' = phase /\ phase = "idle"
  BY DEF SetPose, Between
<1>2. 0 \in Places /\ x \in Places
  BY WorldAssumption
<1> HIDE DEF s
<1>3. Settled(bp0, proxy, live, q0, s) /\ \A c \in Bodies \ {b} : q0[c] = pos[c]
  <2>1. Settled(broadPhase, proxy, live, pos, s)
    BY InvParts DEF s
  <2> QED
    BY <1>2, <2>1, TransformedSettled
<1> HIDE DEF q0, bp0
<1>4. Settled(bp, proxy, live, q, s) /\ q \in Positions
  BY <1>2, <1>3, TransformedSettled
<1> HIDE DEF q, bp
<1>5. State(contacts)' = s
  BY <1>1 DEF State, s
<1>6. Settled(broadPhase', proxy', live', pos', State(contacts)')
  BY <1>1, <1>4, <1>5
<1>7. AwakeContactsCurrent'
  BY <1>1 DEF AwakeContactsCurrent
<1>8. WorldInv'
  <2>1. from' \in Positions /\ newFixture' \in BOOLEAN /\ phase' = "idle"
    BY <1>1, <1>4, InvParts
  <2> QED
    BY <1>6, <1>7, <2>1 DEF WorldInv, Positions
<1>9. SleepersKeep
  BY <1>1 DEF SleepersKeep, Touching, BodiesOf, Solid, Pair, Range
<1> QED
  BY <1>8, <1>9

(* Tween.                                                                  *)
LEMMA TweenKeeps ==
  ASSUME WorldInv, NEW b \in Bodies, NEW x \in Poses, Tween(b, x)
  PROVE  WorldInv' /\ SleepersKeep
<1> DEFINE s == SetAwake(State(contacts), {b})
           q == [pos EXCEPT ![b] = x]
           bp == Transformed(broadPhase, b, x)
<1>1. /\ broadPhase' = bp /\ pos' = q /\ from' = pos' /\ proxy' = proxy /\ live' = live
      /\ contacts' = s.contacts /\ bodies' = [awake |-> s.awake, rest |-> s.rest]
      /\ newFixture' = newFixture /\ phase' = phase /\ phase = "idle" /\ b \in live
  BY DEF Tween, Between, Put
<1>2. x \in Places
  BY WorldAssumption
<1>3. Settled(bp, proxy, live, q, State(contacts)) /\ q \in Positions
  <2>1. \A c \in Bodies \ {b} : pos[c] = pos[c]
    OBVIOUS
  <2> QED
    BY <1>2, <2>1, InvParts, TransformedSettled
<1> HIDE DEF q, bp
<1>4. s \in Fields(Owned(proxy), live) /\ s.contacts = contacts
  <2>1. {b} \in SUBSET live
    BY <1>1
  <2> HIDE DEF s
  <2> QED
    BY <2>1, InvParts, SetAwakeFields DEF s
<1> HIDE DEF s
<1>5. Settled(bp, proxy, live, q, s)
  BY <1>3, <1>4, InvParts, MoreContacts
<1>6. Settled(broadPhase', proxy', live', pos', s)
  BY <1>1, <1>5
<1>7. from' \in Positions /\ newFixture' \in BOOLEAN /\ phase' \in {"idle", "solved"}
  BY <1>1, <1>3, InvParts
<1> QED
  BY <1>1, <1>4, <1>6, <1>7, NextInv

(* A drive wakes its body.                                                 *)
LEMMA SetLinearVelocityKeeps ==
  ASSUME WorldInv, NEW b \in Bodies, SetLinearVelocity(b)
  PROVE  WorldInv' /\ SleepersKeep
<1> DEFINE s == SetAwake(State(contacts), {b})
<1>1. /\ broadPhase' = broadPhase /\ pos' = pos /\ from' = from /\ proxy' = proxy /\ live' = live
      /\ contacts' = s.contacts /\ bodies' = [awake |-> s.awake, rest |-> s.rest]
      /\ newFixture' = newFixture /\ phase' = phase /\ phase = "idle" /\ b \in live
  BY DEF SetLinearVelocity, Between, Put
<1>2. s \in Fields(Owned(proxy), live) /\ s.contacts = contacts
  <2>1. {b} \in SUBSET live
    BY <1>1
  <2> HIDE DEF s
  <2> QED
    BY <2>1, InvParts, SetAwakeFields DEF s
<1> HIDE DEF s
<1>3. Settled(broadPhase, proxy, live, pos, s)
  BY <1>2, InvParts, MoreContacts
<1>4. Settled(broadPhase', proxy', live', pos', s)
  BY <1>1, <1>3
<1>5. from' \in Positions /\ newFixture' \in BOOLEAN /\ phase' \in {"idle", "solved"}
  BY <1>1, InvParts
<1> QED
  BY <1>1, <1>2, <1>4, <1>5, NextInv

(* A layer is rebuilt.                                                     *)
LEMMA RebuildKeeps ==
  ASSUME WorldInv, NEW b \in Static, NEW F \in SUBSET FixturesOf(b), Rebuild(b, F)
  PROVE  WorldInv' /\ SleepersKeep
<1> DEFINE A == FixturesOf(b)
           G == ExistingOf(b)
           s == DestroyContactsOf(A)
           gone == DestroyFixtures(G, [bp |-> broadPhase, proxy |-> proxy])
           r == CreateFixtures(F, pos, gone)
           E == Owned(proxy)
<1>1. /\ from' = from /\ pos' = pos /\ broadPhase' = r.bp /\ proxy' = r.proxy /\ live' = live
      /\ contacts' = s.contacts /\ bodies' = [awake |-> s.awake, rest |-> s.rest]
      /\ newFixture' = (newFixture \/ F # {}) /\ phase' = phase /\ phase = "idle" /\ b \in live
  BY DEF Rebuild, Between, Put
<1>2. /\ s \in Fields(E \ A, live) /\ Once(s.contacts) /\ Disturbs(s, State(contacts))
      /\ Range(s.contacts) = {c \in Range(contacts) : Pair(c) \cap A = {}}
  <2> HIDE DEF A, s, E
  <2>1. Peopled(E, live) /\ State(contacts) \in Fields(E, live) /\ Once(contacts)
    BY InvParts DEF E
  <2> QED
    BY <2>1, DestroyContactsOfFields DEF s
<1>3. G \in SUBSET Fixtures /\ G = E \cap A /\ \A f \in G : proxy[f] # Null
  BY DEF ExistingOf, FixturesOf, Owned, Exists
<1>4. Razed(gone, broadPhase, proxy, G) /\ gone = [bp |-> gone.bp, proxy |-> gone.proxy]
  <2> HIDE DEF G
  <2> QED
    BY <1>3, InvParts, DestroyFixturesFields
<1>5. E \ A = E \ G /\ \A f \in E \ G : BodyOf[f] \in live
  <2>1. \A f \in E : f \in Fixtures /\ BodyOf[f] \in live
    BY InvParts DEF Peopled
  <2> HIDE DEF A, G, E
  <2> QED
    BY <1>3, <2>1
<1>6. F \in SUBSET Fixtures /\ \A f \in F : BodyOf[f] \in live /\ f \in A
  BY <1>1 DEF FixturesOf
<1> HIDE DEF s, gone, G
<1>7. \A c \in Range(contacts) : Pair(c) \cap G = {} => c \in Range(s.contacts)
  <2> SUFFICES ASSUME NEW c \in Range(contacts), Pair(c) \cap G = {} PROVE Pair(c) \cap A = {}
    BY <1>2
  <2>1. contacts \in Seq(Met(E))
    BY InvParts DEF Fields
  <2>2. c \in Met(E)
    BY <2>1 DEF Range
  <2>3. Pair(c) \subseteq E
    BY <2>2 DEF Met, Pair
  <2> HIDE DEF E, A
  <2> QED
    BY <1>3, <2>3
<1> HIDE DEF A
<1>8. Settled(gone.bp, gone.proxy, live, pos, s) /\ Owned(gone.proxy) = E \ G
  <2> DEFINE c0 == State(contacts)
             q == pos
             M == live
  <2>1. /\ Settled(broadPhase, proxy, live, pos, c0) /\ M \in SUBSET Bodies /\ q \in Positions
        /\ \A c \in Range(c0.contacts) : Pair(c) \cap G = {} => c \in Range(s.contacts)
        /\ \A c \in M : q[c] = pos[c]
    BY <1>7, InvParts
  <2>2. s \in Fields(Owned(proxy) \ G, M) /\ \A f \in Owned(proxy) \ G : BodyOf[f] \in M
    BY <1>2, <1>5
  <2>3. Once(s.contacts) /\ G \in SUBSET Fixtures /\ Razed(gone, broadPhase, proxy, G)
    BY <1>2, <1>3, <1>4
  <2> HIDE DEF c0, q, M, E
  <2>4. Settled(gone.bp, gone.proxy, M, q, s)
    BY <2>1, <2>2, <2>3, RazedSettled
  <2>5. Owned(gone.proxy) = Owned(proxy) \ G
    <3>1. \A f \in Fixtures : gone.proxy[f] # Null <=> proxy[f] # Null /\ f \notin G
      BY <2>3 DEF Razed
    <3> QED
      BY <3>1 DEF Owned
  <2> QED
    BY <2>4, <2>5 DEF q, M, E
<1>9. Indexed(gone.bp, gone.proxy) /\ \A f \in F : gone.proxy[f] = Null
  <2>1. \A f \in F : f \notin Owned(gone.proxy)
    BY <1>5, <1>6, <1>8
  <2> QED
    BY <1>6, <1>8, <2>1 DEF Settled, Owned
<1>10. Built(r, gone.bp, gone.proxy, F, pos)
  <2>1. r = CreateFixtures(F, pos, [bp |-> gone.bp, proxy |-> gone.proxy])
    BY <1>4
  <2>2. pos \in [Bodies -> Places]
    BY InvParts DEF Positions
  <2> HIDE DEF r
  <2> QED
    BY <1>6, <1>9, <2>1, <2>2, CreateFixturesFields
<1> HIDE DEF r, E
<1>11. Settled(r.bp, r.proxy, live, pos, s)
  <2>1. live \in SUBSET Bodies /\ live \subseteq live /\ pos \in Positions /\ \A c \in live : pos[c] = pos[c]
    BY InvParts
  <2> DEFINE h == gone.bp
             k == gone.proxy
  <2>2. /\ Settled(h, k, live, pos, s) /\ F \in SUBSET Fixtures /\ Built(r, h, k, F, pos)
        /\ (\A f \in F : k[f] = Null) /\ (\A f \in F : BodyOf[f] \in live)
    BY <1>6, <1>8, <1>9, <1>10
  <2> HIDE DEF h, k
  <2> QED
    BY <2>1, <2>2, BuiltSettled
<1>12. Settled(broadPhase', proxy', live', pos', s)
  BY <1>1, <1>11
<1>13. \A c \in Moving \cap live' : c \notin s.awake => Held(s.contacts, c) = Held(contacts, c)
  BY <1>2, InvParts DEF Disturbs
<1>14. from' \in Positions /\ newFixture' \in BOOLEAN /\ phase' \in {"idle", "solved"}
  BY <1>1, InvParts
<1> QED
  BY <1>1, <1>12, <1>13, <1>14, NextInv

(* The world after MakeWorld.                                              *)
LEMMA InitKeeps ==
  ASSUME Init
  PROVE  WorldInv
<1>1. PICK p \in [Bodies -> Places] :
        LET built == CreateFixtures(Fixtures, p, [bp |-> EmptyBroadPhase, proxy |-> [f \in Fixtures |-> Null]])
        IN /\ broadPhase = built.bp /\ proxy = built.proxy /\ live = Bodies /\ pos = p /\ from = p
           /\ bodies = [awake |-> Moving, rest |-> [b \in Bodies |-> 0]]
           /\ contacts = <<>> /\ newFixture = TRUE /\ phase = "idle"
  BY DEF Init
<1> DEFINE px == [f \in Fixtures |-> Null]
           r == CreateFixtures(Fixtures, p, [bp |-> EmptyBroadPhase, proxy |-> px])
           s == [contacts |-> <<>>, awake |-> Moving, rest |-> [b \in Bodies |-> 0]]
<1>2. Settled(EmptyBroadPhase, px, Bodies, p, s) /\ p \in Positions
  BY EmptySettled DEF Positions
<1>3. /\ broadPhase = r.bp /\ proxy = r.proxy /\ live = Bodies /\ pos = p /\ from = p
      /\ newFixture = TRUE /\ phase = "idle"
  BY <1>1
<1>4. State(contacts) = s
  BY <1>1 DEF State
<1>5. \A f \in Fixtures : px[f] = Null
  OBVIOUS
<1> HIDE DEF s
<1>6. Built(r, EmptyBroadPhase, px, Fixtures, p)
  <2>1. Indexed(EmptyBroadPhase, px) /\ Fixtures \in SUBSET Fixtures
    BY <1>2 DEF Settled
  <2> HIDE DEF px
  <2> QED
    BY <1>5, <2>1, CreateFixturesFields
<1> HIDE DEF px, r
<1>7. Settled(r.bp, r.proxy, Bodies, p, s)
  <2>1. /\ Fixtures \in SUBSET Fixtures /\ Bodies \in SUBSET Bodies /\ Bodies \subseteq Bodies
        /\ \A f \in Fixtures : BodyOf[f] \in Bodies /\ \A b \in Bodies : p[b] = p[b]
    BY WorldAssumption
  <2> QED
    BY <1>2, <1>5, <1>6, <2>1, BuiltSettled
<1>8. AwakeContactsCurrent
  BY <1>3 DEF AwakeContactsCurrent
<1> QED
  BY <1>2, <1>3, <1>4, <1>7, <1>8 DEF WorldInv

(* A step that changes nothing of the world.                               *)
LEMMA StutterKeeps ==
  ASSUME WorldInv, UNCHANGED <<broadPhase, proxy, live, pos, from, bodies, contacts, newFixture,
                               phase, began>>
  PROVE  WorldInv' /\ SleepersKeep
<1>1. /\ broadPhase' = broadPhase /\ pos' = pos /\ from' = from /\ proxy' = proxy /\ live' = live
      /\ bodies' = bodies /\ contacts' = contacts /\ newFixture' = newFixture /\ phase' = phase
      /\ began' = began
  OBVIOUS
<1>2. Settled(broadPhase', proxy', live', pos', State(contacts)')
  BY <1>1, InvParts DEF State
<1>3. AwakeContactsCurrent'
  BY <1>1 DEF WorldInv, AwakeContactsCurrent, Exists, Touch, ShouldCollide, Pair, Range
<1>4. WorldInv'
  <2>1. from \in Positions /\ newFixture \in BOOLEAN /\ phase \in {"idle", "collided", "solved"}
    BY DEF WorldInv
  <2> QED
    BY <1>1, <1>2, <1>3, <2>1 DEF WorldInv, Positions
<1>5. SleepersKeep
  BY <1>1 DEF SleepersKeep, Touching, BodiesOf, Solid, Pair, Range
<1> QED
  BY <1>4, <1>5

(* Every step keeps the invariant, and what sleepers rest on.              *)
LEMMA StepKeeps ==
  ASSUME WorldInv, [Next]_vars
  PROVE  WorldInv' /\ SleepersKeep
<1>1. CASE Collide
  BY <1>1, CollideKeeps
<1>2. CASE Solve
  BY <1>2, SolveKeeps
<1>3. CASE TimeOfImpact
  BY <1>3, TimeOfImpactKeeps
<1>4. CASE StepDone
  BY <1>4, StepDoneKeeps
<1>5. ASSUME NEW b \in Bodies, NEW x \in Poses, CreateBody(b, x) PROVE WorldInv' /\ SleepersKeep
  BY <1>5, CreateBodyKeeps
<1>6. ASSUME NEW b \in Bodies, NEW x \in Poses, SetPose(b, x) PROVE WorldInv' /\ SleepersKeep
  BY <1>6, SetPoseKeeps
<1>7. ASSUME NEW b \in Bodies, NEW x \in Poses, Tween(b, x) PROVE WorldInv' /\ SleepersKeep
  BY <1>7, TweenKeeps
<1>8. ASSUME NEW b \in Bodies, DestroyBody(b) PROVE WorldInv' /\ SleepersKeep
  BY <1>8, DestroyBodyKeeps
<1>9. ASSUME NEW b \in Bodies, SetLinearVelocity(b) PROVE WorldInv' /\ SleepersKeep
  BY <1>9, SetLinearVelocityKeeps
<1>10. ASSUME NEW b \in Static, NEW F \in SUBSET FixturesOf(b), Rebuild(b, F) PROVE WorldInv' /\ SleepersKeep
  BY <1>10, RebuildKeeps
<1>11. CASE UNCHANGED vars
  BY <1>11, StutterKeeps DEF vars
<1>12. CASE ImpactNotTouching
  BY <1>12, ImpactNotTouchingKeeps
<1>13. CASE ImpactNotFound
  BY <1>13, StutterKeeps DEF ImpactNotFound
<1> QED
  BY <1>1, <1>2, <1>3, <1>4, <1>5, <1>6, <1>7, <1>8, <1>9, <1>10, <1>11, <1>12, <1>13 DEF Next, Done

(* The invariant holds.                                                    *)
THEOREM WorldCorrect == Spec => []WorldInv
<1>1. Init => WorldInv
  BY InitKeeps
<1>2. WorldInv /\ [Next]_vars => WorldInv'
  BY StepKeeps
<1> QED
  BY <1>1, <1>2, PTL DEF Spec

(* Only impacts that are looked at are counted, and only they are missed.  *)
LEMMA ImpactCounted ==
  ASSUME ToiInv, NEW m \in Impacts, LooksAt(m), NEW S \in SUBSET Impacts, NEW T \in SUBSET Impacts,
         S \subseteq T, toi' = [count |-> [toi.count EXCEPT ![m] = @ + 1], skipped |-> S, missed |-> T]
  PROVE  ToiInv'
<1>1. toi.count \in [Impacts -> 0..(MaxSubSteps + 1)] /\ toi.count[m] <= MaxSubSteps /\ MaxSubSteps \in Nat
  BY WorldAssumption DEF ToiInv, LooksAt
<1>2. [toi.count EXCEPT ![m] = @ + 1] \in [Impacts -> 0..(MaxSubSteps + 1)]
  BY <1>1
<1> QED
  BY <1>2 DEF ToiInv

LEMMA ToiStep ==
  ASSUME ToiInv, [Next]_vars
  PROVE  ToiInv'
<1>1. toi = [count |-> toi.count, skipped |-> toi.skipped, missed |-> toi.missed]
  BY DEF ToiInv
<1>2. toi.skipped \subseteq toi.missed /\ toi.missed \subseteq Impacts
  BY DEF ToiInv
<1>3. CASE TimeOfImpact
  <2>0. PICK b \in bodies.awake : \E e \in FirstStops(b) :
          toi' = [toi EXCEPT !.count[e[2]] = @ + 1, !.skipped = {m \in @ : BodyOf[m[1]] # b}]
    BY <1>3 DEF TimeOfImpact
  <2>1. PICK e \in FirstStops(b) :
          toi' = [toi EXCEPT !.count[e[2]] = @ + 1, !.skipped = {m \in @ : BodyOf[m[1]] # b}]
    BY <2>0
  <2>2. e[2] \in Impacts /\ LooksAt(e[2])
    BY StopsAre DEF FirstStops
  <2>3. toi' = [count |-> [toi.count EXCEPT ![e[2]] = @ + 1],
                skipped |-> {m \in toi.skipped : BodyOf[m[1]] # b}, missed |-> toi.missed]
    BY <1>1, <2>1
  <2> QED
    BY <1>2, <2>2, <2>3, ImpactCounted
<1>4. CASE ImpactNotTouching
  <2>0. PICK b \in bodies.awake : \E e \in FirstStops(b) :
          toi' = [toi EXCEPT !.count[e[2]] = @ + 1, !.skipped = @ \cup {e[2]}, !.missed = @ \cup {e[2]}]
    BY <1>4 DEF ImpactNotTouching
  <2>1. PICK e \in FirstStops(b) :
          toi' = [toi EXCEPT !.count[e[2]] = @ + 1, !.skipped = @ \cup {e[2]}, !.missed = @ \cup {e[2]}]
    BY <2>0
  <2>2. e[2] \in Impacts /\ LooksAt(e[2])
    BY StopsAre DEF FirstStops
  <2>3. toi' = [count |-> [toi.count EXCEPT ![e[2]] = @ + 1],
                skipped |-> toi.skipped \cup {e[2]}, missed |-> toi.missed \cup {e[2]}]
    BY <1>1, <2>1
  <2> QED
    BY <1>2, <2>2, <2>3, ImpactCounted
<1>5. CASE ImpactNotFound
  <2>0. PICK b \in bodies.awake : \E e \in Stops(b) :
          toi' = [toi EXCEPT !.skipped = @ \cup {e[2]}, !.missed = @ \cup {e[2]}]
    BY <1>5 DEF ImpactNotFound
  <2>1. PICK e \in Stops(b) :
          toi' = [toi EXCEPT !.skipped = @ \cup {e[2]}, !.missed = @ \cup {e[2]}]
    BY <2>0
  <2>2. e[2] \in Impacts
    BY StopsAre
  <2>3. toi' = [count |-> toi.count, skipped |-> toi.skipped \cup {e[2]}, missed |-> toi.missed \cup {e[2]}]
    BY <1>1, <2>1
  <2> QED
    BY <1>2, <2>2, <2>3 DEF ToiInv
<1>6. CASE toi' = NoImpacts
  BY <1>6, WorldAssumption DEF NoImpacts, ToiInv
<1>7. CASE toi' = toi
  BY <1>7 DEF ToiInv
<1>8. \/ TimeOfImpact \/ ImpactNotTouching \/ ImpactNotFound \/ toi' = NoImpacts \/ toi' = toi
  BY DEF Next, Collide, Solve, StepDone, CreateBody, SetPose, Tween, DestroyBody, SetLinearVelocity,
         Rebuild, Between, Done, vars
<1> QED
  BY <1>3, <1>4, <1>5, <1>6, <1>7, <1>8

THEOREM ImpactsTyped == Spec => [](ToiInv /\ continuousPhysics \in BOOLEAN)
<1>1. Init => ToiInv /\ continuousPhysics \in BOOLEAN
  BY WorldAssumption DEF Init, NoImpacts, ToiInv
<1>2. ToiInv /\ continuousPhysics \in BOOLEAN /\ [Next]_vars => (ToiInv /\ continuousPhysics \in BOOLEAN)'
  <2>1. [Next]_vars => continuousPhysics' = continuousPhysics
    BY DEF Next, Collide, Solve, TimeOfImpact, ImpactNotTouching, ImpactNotFound, StepDone, CreateBody,
           SetPose, Tween, DestroyBody, SetLinearVelocity, Rebuild, Between, Done, vars
  <2> QED
    BY <2>1, ToiStep
<1> QED
  BY <1>1, <1>2, PTL DEF Spec

-----------------------------------------------------------------------------
(* A tree that is not empty has a leaf: the lowest of its nodes.           *)
LEMMA SomeLeaf ==
  ASSUME NEW t, Whole(t)
  PROVE  t.root = Null <=> Leaves(t) = {}
<1>1. Typed(t) /\ Tree(t, Nodes(t)) /\ \A i \in Nodes(t) : Fit(t, i)
  BY DEF Whole, Sound, Tree
<1>2. /\ t.root = Null => Nodes(t) = {}
      /\ t.root # Null => t.root \in Nodes(t)
  BY <1>1 DEF Tree, Links
<1>3. Height(t) \in [Nodes(t) -> Nat]
  BY <1>1, TypedNodes
<1>4. CASE t.root # Null
  <2> DEFINE S == Nodes(t)
  <2>1. S \in SUBSET Nodes(t) /\ S # {}
    BY <1>2, <1>4
  <2> HIDE DEF S
  <2>2. PICK j \in S : \A k \in S : Height(t)[j] <= Height(t)[k]
    BY <1>3, <2>1, Lowest
  <2>3. One(t)[j] = Null
    <3> SUFFICES ASSUME One(t)[j] # Null PROVE FALSE
      OBVIOUS
    <3> DEFINE a == One(t)[j]
               b == Two(t)[j]
    <3>1. j \in Nodes(t) /\ a \in Nodes(t) /\ b \in Nodes(t)
      BY <1>1, <2>1, TreeNodes
    <3>2. Height(t)[j] = 1 + Max({Height(t)[a], Height(t)[b]})
      BY <1>1, <3>1 DEF Fit
    <3>3. Height(t)[a] \in Nat /\ Height(t)[b] \in Nat /\ Height(t)[j] <= Height(t)[a]
      BY <1>3, <2>2, <3>1 DEF S
    <3> HIDE DEF a, b
    <3> QED
      BY <3>2, <3>3, MinMax
  <2> QED
    BY <1>4, <2>1, <2>3 DEF Leaves
<1> QED
  BY <1>2, <1>4 DEF Leaves

(* The invariant gives what b2DynamicTree::Validate asserts.               *)
LEMMA WholeValidates ==
  ASSUME Indexed(broadPhase, proxy)
  PROVE  TreeValid
<1> DEFINE t == broadPhase.tree
           n == t.node
<1>1. Whole(t) /\ Leaves(t) = Proxies
  BY DEF Indexed, BroadPhases, Proxies, Exists
<1> HIDE DEF t
<1>2. Typed(t) /\ Tree(t, Nodes(t)) /\ Pool(t) /\ \A i \in Nodes(t) : Fit(t, i)
  BY <1>1 DEF Whole, Sound, Tree
<1>3. DOMAIN n = Nodes(t) /\ Null \notin Nodes(t) /\ Nodes(t) \subseteq Nat
  BY <1>2, TypedNodes DEF Nodes
<1>4. \A i \in Nodes(t) : /\ n[i].parent = Parent(t)[i] /\ n[i].child1 = One(t)[i] /\ n[i].child2 = Two(t)[i]
                          /\ n[i].height = Height(t)[i] /\ n[i].box = BoxOf(t)[i]
                          /\ IsLeaf(n[i]) <=> One(t)[i] = Null
  BY NodeOf DEF IsLeaf
<1>5. (t.root = Null <=> Proxies = {}) /\ {i \in DOMAIN n : IsLeaf(n[i])} = Proxies
  BY <1>1, <1>3, <1>4, SomeLeaf DEF Leaves
<1>6. (t.root # Null => n[t.root].parent = Null) /\ {i \in DOMAIN n : n[i].parent = Null} \ {t.root} = {}
  <2>1. \A i \in Nodes(t) : Parent(t)[i] = Null <=> i = t.root
    BY <1>2, TreeNodes
  <2>2. t.root # Null => t.root \in Nodes(t)
    BY <1>2 DEF Tree, Links
  <2> QED
    BY <1>3, <1>4, <2>1, <2>2
<1>7. ASSUME NEW i \in DOMAIN n
      PROVE  IF IsLeaf(n[i]) THEN n[i].child2 = Null /\ n[i].height = 0
             ELSE LET one == n[n[i].child1]
                      two == n[n[i].child2]
                  IN /\ one.parent = i /\ two.parent = i
                     /\ n[i].height = 1 + Max({one.height, two.height})
                     /\ n[i].box = Combine(one.box, two.box)
  <2>1. i \in Nodes(t)
    BY <1>3
  <2> HIDE DEF n
  <2>2. CASE One(t)[i] = Null
    <3>1. Two(t)[i] = Null /\ Height(t)[i] = 0
      BY <1>2, <2>1, <2>2 DEF Tree, Links, Fit
    <3> QED
      BY <1>4, <2>1, <2>2, <3>1
  <2>3. CASE One(t)[i] # Null
    <3> DEFINE a == One(t)[i]
               b == Two(t)[i]
    <3>1. a \in Nodes(t) /\ b \in Nodes(t) /\ Parent(t)[a] = i /\ Parent(t)[b] = i
      BY <1>2, <2>1, <2>3, TreeNodes
    <3>2. Height(t)[i] = 1 + Max({Height(t)[a], Height(t)[b]}) /\ BoxOf(t)[i] = Combine(BoxOf(t)[a], BoxOf(t)[b])
      BY <1>2, <2>1, <2>3 DEF Fit
    <3>3. ~ IsLeaf(n[i]) /\ n[i].child1 = a /\ n[i].child2 = b
      BY <1>4, <2>1, <2>3
    <3> HIDE DEF a, b
    <3>4. /\ n[a].parent = i /\ n[b].parent = i
          /\ n[a].height = Height(t)[a] /\ n[b].height = Height(t)[b]
          /\ n[a].box = BoxOf(t)[a] /\ n[b].box = BoxOf(t)[b]
          /\ n[i].height = Height(t)[i] /\ n[i].box = BoxOf(t)[i]
      BY <1>4, <2>1, <3>1
    <3> QED
      BY <3>2, <3>3, <3>4
  <2> QED
    BY <2>2, <2>3
<1>8. /\ Range(t.free) \cap DOMAIN n = {} /\ Range(t.free) \cup DOMAIN n = 0..(t.capacity - 1)
      /\ Len(t.free) + Cardinality(DOMAIN n) = t.capacity
  <2>1. Range(t.free) = {t.free[m] : m \in 1..Len(t.free)} /\ Range(t.free) \subseteq Nat
    BY <1>2 DEF Pool, Range
  <2>2. /\ \A m \in 1..Len(t.free) : t.free[m] \notin Nodes(t)
        /\ \A k \in Nat : k < t.capacity <=> (k \in Nodes(t) \/ \E m \in 1..Len(t.free) : t.free[m] = k)
        /\ Len(t.free) + Cardinality(Nodes(t)) = t.capacity /\ t.capacity \in Nat
    BY <1>2 DEF Pool
  <2>3. \A k : k \in Range(t.free) <=> \E m \in 1..Len(t.free) : t.free[m] = k
    BY <2>1
  <2>4. \A k \in Nat : k \in 0..(t.capacity - 1) <=> k \in Range(t.free) \/ k \in Nodes(t)
    BY <2>2, <2>3
  <2>5. Range(t.free) \cap Nodes(t) = {}
    BY <2>2, <2>3
  <2>6. 0..(t.capacity - 1) \subseteq Nat
    BY <2>2
  <2> QED
    BY <1>3, <2>1, <2>2, <2>4, <2>5, <2>6
<1> HIDE DEF n
<1>9. TreeValid <=> /\ (t.root = Null <=> Proxies = {}) /\ (t.root # Null => n[t.root].parent = Null)
                    /\ \A i \in DOMAIN n : IF IsLeaf(n[i]) THEN n[i].child2 = Null /\ n[i].height = 0
                          ELSE LET one == n[n[i].child1]
                                   two == n[n[i].child2]
                               IN /\ one.parent = i /\ two.parent = i
                                  /\ n[i].height = 1 + Max({one.height, two.height})
                                  /\ n[i].box = Combine(one.box, two.box)
                    /\ {i \in DOMAIN n : IsLeaf(n[i])} = Proxies
                    /\ {i \in DOMAIN n : n[i].parent = Null} \ {t.root} = {}
                    /\ Range(t.free) \cap DOMAIN n = {}
                    /\ Range(t.free) \cup DOMAIN n = 0..(t.capacity - 1)
                    /\ Len(t.free) + Cardinality(DOMAIN n) = t.capacity
  BY DEF TreeValid, t, n
<1> QED
  BY <1>5, <1>6, <1>7, <1>8, <1>9

(* The types of the world.                                                 *)
THEOREM TypeCorrect == Spec => []TypeOK
<1>1. WorldInv /\ ToiInv /\ continuousPhysics \in BOOLEAN => TypeOK
  <2> SUFFICES ASSUME WorldInv, ToiInv, continuousPhysics \in BOOLEAN PROVE TypeOK
    OBVIOUS
  <2>1. /\ Indexed(broadPhase, proxy) /\ Peopled(Owned(proxy), live) /\ State(contacts) \in Fields(Owned(proxy), live)
        /\ Once(contacts) /\ pos \in Positions /\ from \in Positions /\ newFixture \in BOOLEAN
        /\ State(contacts) = [contacts |-> contacts, awake |-> bodies.awake, rest |-> bodies.rest]
        /\ live \subseteq Bodies /\ Owned(proxy) = Existing /\ phase \in {"idle", "collided", "solved"}
    BY InvParts DEF WorldInv
  <2>2. /\ contacts \in Seq(Met(Existing)) /\ bodies.awake \subseteq live \ Static /\ bodies.rest \in [Bodies -> 0..TimeToSleep]
    BY <2>1 DEF Fields
  <2>3. proxy \in [Fixtures -> Nat \cup {Null}] /\ broadPhase.move \subseteq Proxies
    BY <2>1 DEF Indexed, Ids, Proxies, Exists
  <2>4. bodies.awake \subseteq Moving \cap live
    BY <2>1, <2>2 DEF Moving
  <2>5. /\ \A c \in Met(Existing) : c \in [a : Fixtures, b : Fixtures, touching : BOOLEAN] /\ Exists(c.a) /\ Exists(c.b)
    BY DEF Met, Existing
  <2>6. contacts \in Seq([a : Fixtures, b : Fixtures, touching : BOOLEAN]) /\ \A c \in Range(contacts) : Exists(c.a) /\ Exists(c.b)
    <3>1. \A i \in 1..Len(contacts) : contacts[i] \in Met(Existing)
      BY <2>2
    <3>2. Len(contacts) \in Nat /\ DOMAIN contacts = 1..Len(contacts) /\ contacts = [i \in 1..Len(contacts) |-> contacts[i]]
      BY <2>2
    <3> DEFINE R == [a : Fixtures, b : Fixtures, touching : BOOLEAN]
    <3>3. \A i \in 1..Len(contacts) : contacts[i] \in R /\ Exists(contacts[i].a) /\ Exists(contacts[i].b)
      BY <2>5, <3>1
    <3> HIDE DEF R
    <3>4. contacts \in [1..Len(contacts) -> R]
      BY <3>2, <3>3
    <3>5. contacts \in Seq(R)
      BY <3>2, <3>4
    <3> QED
      BY <3>2, <3>3, <3>5 DEF R, Range
  <2> QED
    BY <2>1, <2>2, <2>3, <2>4, <2>6 DEF TypeOK, Once, Positions, ToiInv
<1> QED
  BY <1>1, WorldCorrect, ImpactsTyped, PTL

(* The tree is valid after every sequence of operations.                   *)
THEOREM TreeAlwaysValid == Spec => []TreeValid
<1>1. WorldInv => TreeValid
  BY WholeValidates DEF WorldInv, Settled
<1> QED
  BY <1>1, WorldCorrect, PTL

(* No pair of overlapping fat boxes is ever forgotten.                     *)
THEOREM NoPairEverMissed == Spec => []NoPairMissed
<1>1. WorldInv => NoPairMissed
  <2> SUFFICES ASSUME WorldInv PROVE NoPairMissed
    OBVIOUS
  <2>1. Complete(broadPhase, proxy, contacts) /\ Owned(proxy) = {h \in Fixtures : Exists(h)}
    BY InvParts DEF Settled, Existing
  <2> QED
    BY <2>1 DEF Complete, PairsIn, NoPairMissed
<1> QED
  BY <1>1, WorldCorrect, PTL

(* What Collide reports of awake bodies is what touches.                   *)
THEOREM AwakeContactsAlwaysCurrent == Spec => []AwakeContactsCurrent
<1>1. WorldInv => AwakeContactsCurrent
  BY DEF WorldInv
<1> QED
  BY <1>1, WorldCorrect, PTL

(* A body that stays asleep keeps the contacts it rests on.                *)
THEOREM SleepersAreKept == Spec => SleepersKeepTheirContacts
<1>1. WorldInv /\ [Next]_vars =>
        [\A b \in (live \cap live' \cap Moving) \ (bodies.awake \cup bodies'.awake) : Touching(b) = Touching(b)']_vars
  BY StepKeeps DEF SleepersKeep
<1> QED
  BY <1>1, WorldCorrect, PTL DEF Spec, SleepersKeepTheirContacts

-----------------------------------------------------------------------------
(* Finitely many numbers have a least and a greatest one.                  *)
LEMMA Extremes ==
  ASSUME NEW S \in SUBSET Int, IsFiniteSet(S), S # {}
  PROVE  /\ Min(S) \in S /\ Max(S) \in S
         /\ \A x \in S : Min(S) <= x /\ x <= Max(S)
<1> DEFINE n == Cardinality(S)
<1>1. n \in Nat /\ ExistsBijection(1..n, S)
  BY FS_CardinalityType
<1> HIDE DEF n
<1>2. PICK f \in [1..n -> S] : \A x \in S : \E k \in 1..n : f[k] = x
  BY <1>1 DEF ExistsBijection, Bijection, Surjection
<1> DEFINE Upto == {m \in 0..n : m = 0 \/ \E i, j \in 1..m : \A k \in 1..m : f[i] <= f[k] /\ f[k] <= f[j]}
<1>3. 0 \in Upto
  BY <1>1
<1>4. ASSUME NEW m \in 0..n, m # n, m \in Upto PROVE m + 1 \in Upto
  <2>1. m + 1 \in 0..n /\ m + 1 \in 1..(m + 1) /\ \A k \in 1..(m + 1) : k = m + 1 \/ k \in 1..m
    BY <1>1, <1>4
  <2>2. \A k \in 1..(m + 1) : f[k] \in Int
    <3>1. \A k \in 1..(m + 1) : k \in 1..n
      BY <1>1, <2>1
    <3>2. \A k \in 1..n : f[k] \in S
      OBVIOUS
    <3> QED
      BY <3>1, <3>2
  <2>3. CASE m = 0
    BY <2>1, <2>2, <2>3
  <2>4. CASE m # 0
    <3>1. PICK i, j \in 1..m : \A k \in 1..m : f[i] <= f[k] /\ f[k] <= f[j]
      BY <1>4, <2>4
    <3>2. i \in 1..(m + 1) /\ j \in 1..(m + 1)
      OBVIOUS
    <3> DEFINE a == IF f[i] <= f[m + 1] THEN i ELSE m + 1
               b == IF f[m + 1] <= f[j] THEN j ELSE m + 1
    <3>3. a \in 1..(m + 1) /\ b \in 1..(m + 1)
      BY <2>1, <3>2
    <3>4. \A k \in 1..(m + 1) : f[a] <= f[k] /\ f[k] <= f[b]
      BY <2>1, <2>2, <3>1, <3>2
    <3> HIDE DEF a, b
    <3> QED
      BY <2>1, <3>3, <3>4
  <2> QED
    BY <2>3, <2>4
<1> HIDE DEF Upto
<1>5. n \in Upto
  <2>1. \A m \in 0..n : m # n /\ m \in Upto => m + 1 \in Upto
    BY <1>4
  <2>2. \A m \in 0..n : m \in Upto
    BY <1>1, <1>3, <2>1, Adding!UpTo
  <2> QED
    BY <1>1, <2>2
<1>6. n # 0
  <2>1. \E k \in 1..n : TRUE
    BY <1>2
  <2> QED
    BY <2>1
<1>7. PICK i, j \in 1..n : \A k \in 1..n : f[i] <= f[k] /\ f[k] <= f[j]
  BY <1>5, <1>6 DEF Upto
<1>8. f[i] \in S /\ f[j] \in S /\ \A x \in S : f[i] <= x /\ x <= f[j]
  BY <1>2, <1>7
<1>9. Min(S) \in S /\ \A x \in S : Min(S) <= x
  BY <1>8 DEF Min
<1>10. Max(S) \in S /\ \A x \in S : x <= Max(S)
  <2>1. \E y \in S : \A x \in S : y >= x
    BY <1>8
  <2> QED
    BY <2>1 DEF Max
<1> QED
  BY <1>9, <1>10

(* A ray that begins before a fixture and is long enough to reach it meets *)
(* its fat box.                                                            *)
LEMMA MeetsFatBox ==
  ASSUME NEW a \in Box, NEW f \in Fixtures, NEW y \in Int, Covers(a, BoxAt(f, y)),
         NEW x \in Int, y + Lo[f] >= x, NEW q \in Nat, y + Lo[f] - x <= q
  PROVE  Overlap(a, Segment(x, q))
<1>1. Lo[f] \in Int /\ Hi[f] \in Int /\ Lo[f] <= Hi[f]
  BY WorldAssumption
<1>2. \A i \in 1..2 : a.lo[i] \in Int /\ a.hi[i] \in Int /\ (i = 1 \/ i = 2)
  BY DEF Box
<1>3. a.lo[1] <= y + Lo[f] /\ y + Hi[f] <= a.hi[1] /\ a.lo[2] <= 0 /\ 1 <= a.hi[2]
  BY DEF Covers, BoxAt
<1>4. a.lo[1] <= x + q /\ x <= a.hi[1] /\ a.lo[2] <= 0 /\ 0 <= a.hi[2]
  BY <1>1, <1>2, <1>3
<1> QED
  BY <1>2, <1>4 DEF Overlap, Segment

(* Queries find every fixture that they should, and a ray cast the nearest *)
(* one, wherever they start.                                               *)
THEOREM SearchesAlwaysComplete == Spec => []SearchesComplete
<1>1. WorldInv => SearchesComplete
  <2> SUFFICES ASSUME WorldInv PROVE SearchesComplete
    OBVIOUS
  <2> DEFINE t == broadPhase.tree
             far == Max(Places) - Min(Places) + 1
  <2>1. /\ Indexed(broadPhase, proxy) /\ pos \in Positions /\ Covered(broadPhase, proxy, pos)
        /\ Owned(proxy) = Existing
    BY InvParts DEF Settled
  <2>2. Whole(t) /\ Leaves(t) = Proxies /\ Proxies = {proxy[f] : f \in Existing}
    <3>1. Whole(t) /\ Leaves(t) = Proxies
      BY <2>1 DEF Indexed, BroadPhases, Proxies, Exists
    <3> QED
      BY <3>1 DEF Proxies, Existing
  <2>3. \A f \in Existing : /\ f \in Fixtures /\ proxy[f] \in Leaves(t) /\ OwnerOf(proxy[f]) = f
                            /\ pos[BodyOf[f]] \in Int /\ Lo[f] \in Int
                            /\ Covers(Boxes(t)[proxy[f]], BoxAt(f, pos[BodyOf[f]]))
    <3>1. \A f \in Existing : f \in Fixtures /\ proxy[f] \in Leaves(t) /\ OwnerOf(proxy[f]) = f
      BY <2>1, Owner DEF Existing
    <3>2. \A i \in Leaves(t) : Boxes(t)[i] = t.node[i].box
      BY DEF Boxes, BoxOf, Leaves
    <3> QED
      BY <2>1, <3>1, <3>2, WorldAssumption DEF Covered, FatBox, Positions
  <2>4. Boxes(t) \in [Leaves(t) -> Box]
    <3>1. BoxOf(t) \in [Nodes(t) -> Box]
      BY <2>2, TypedNodes DEF Whole, Sound, Tree
    <3> QED
      BY <3>1 DEF Boxes, Leaves
  <2>5. far \in Nat
    <3>1. Min(Places) \in Int /\ Max(Places) \in Int /\ Min(Places) <= Max(Places)
      BY Extremes, WorldAssumption
    <3> QED
      BY <3>1
  <2> HIDE DEF t, far
  <2>6. ASSUME NEW x \in Places
        PROVE  Query(t, Segment(x, 1)) = {i \in Proxies : Overlap(t.node[i].box, Segment(x, 1))}
    <3>1. Segment(x, 1) \in Box
      <4>1. x \in Int
        BY WorldAssumption
      <4>2. <<x, 0>> \in [1..2 -> Int] /\ <<x + 1, 0>> \in [1..2 -> Int]
        BY <4>1
      <4> QED
        BY <4>2 DEF Segment, Box
    <3>2. Query(t, Segment(x, 1)) = {i \in Leaves(t) : Overlap(Boxes(t)[i], Segment(x, 1))}
      BY <2>2, <3>1, QueryComplete
    <3>3. \A i \in Leaves(t) : Boxes(t)[i] = t.node[i].box
      BY DEF Boxes, BoxOf, Leaves
    <3> QED
      BY <2>2, <3>2, <3>3
  <2>7. ASSUME NEW x \in Places
        PROVE  LET ahead == {f \in Fixtures : Exists(f) /\ pos[BodyOf[f]] + Lo[f] >= x}
                   hits == [i \in {proxy[f] : f \in ahead} |->
                              pos[BodyOf[OwnerOf(i)]] + Lo[OwnerOf(i)] - x]
               IN RayCast(t, x, far, hits) = Min({far} \cup Range(hits))
    <3> DEFINE ahead == {f \in Fixtures : Exists(f) /\ pos[BodyOf[f]] + Lo[f] >= x}
               D == {proxy[f] : f \in ahead}
               hits == [i \in D |-> pos[BodyOf[OwnerOf(i)]] + Lo[OwnerOf(i)] - x]
    <3>1. x \in Int
      BY WorldAssumption
    <3>2. ahead \subseteq Existing /\ \A f \in ahead : pos[BodyOf[f]] + Lo[f] >= x
      BY DEF Existing
    <3> HIDE DEF ahead
    <3>3. D \in SUBSET Leaves(t)
      BY <2>3, <3>2
    <3>4. \A f \in ahead : hits[proxy[f]] = pos[BodyOf[f]] + Lo[f] - x /\ hits[proxy[f]] \in Nat
      <4> TAKE f \in ahead
      <4>1. proxy[f] \in D /\ OwnerOf(proxy[f]) = f
        BY <2>3, <3>2
      <4>2. hits[proxy[f]] = pos[BodyOf[f]] + Lo[f] - x
        BY <4>1
      <4> QED
        BY <2>3, <3>1, <3>2, <4>2
    <3>5. hits \in [D -> Nat]
      BY <3>4
    <3>6. hits = [i \in D |-> hits[i]] /\ DOMAIN hits = D
      OBVIOUS
    <3> HIDE DEF hits
    <3>7. \A i \in D, q \in Nat : hits[i] <= q => Overlap(Boxes(t)[i], Segment(x, q))
      <4> SUFFICES ASSUME NEW f \in ahead, NEW q \in Nat, hits[proxy[f]] <= q
                   PROVE  Overlap(Boxes(t)[proxy[f]], Segment(x, q))
        OBVIOUS
      <4> DEFINE a == Boxes(t)[proxy[f]]
                 y == pos[BodyOf[f]]
      <4>1. /\ a \in Box /\ f \in Fixtures /\ y \in Int /\ Covers(a, BoxAt(f, y))
            /\ y + Lo[f] >= x /\ y + Lo[f] - x <= q
        BY <2>3, <2>4, <3>2, <3>4
      <4> HIDE DEF a, y
      <4>2. Overlap(a, Segment(x, q))
        BY <3>1, <4>1, MeetsFatBox
      <4> QED
        BY <4>2 DEF a
    <3> HIDE DEF D
    <3>8. RayCast(t, x, far, hits) = Min({far} \cup {hits[i] : i \in D})
      BY <2>2, <2>5, <3>1, <3>3, <3>5, <3>7, RayCastNearest, SMTT(30)
    <3>9. Range(hits) = {hits[i] : i \in D}
      BY <3>6 DEF Range
    <3>10. RayCast(t, x, far, hits) = Min({far} \cup Range(hits))
      BY <3>8, <3>9
    <3> QED
      BY <3>10 DEF ahead, hits, D
  <2> QED
    BY <2>6, <2>7 DEF SearchesComplete, t, far
<1> QED
  BY <1>1, WorldCorrect, PTL

-----------------------------------------------------------------------------
(***************************************************************************)
(* Continuous physics.                                                     *)
(***************************************************************************)
(* No body is now, at the positions now, on the other side of a wall than  *)
(* it was at the positions start, unless their contact was given up.       *)
BehindWalls(start, now) ==
  \A f, g \in Existing \ IsSensor :
    BodyOf[f] \in Moving /\ BodyOf[g] \in Static /\ ~ GivenUp(<<f, g>>) =>
      /\ start[BodyOf[f]] + Hi[f] <= pos[BodyOf[g]] + Lo[g] =>
           now[BodyOf[f]] + Hi[f] <= pos[BodyOf[g]] + Lo[g]
      /\ start[BodyOf[f]] + Lo[f] >= pos[BodyOf[g]] + Hi[g] =>
           now[BodyOf[f]] + Lo[f] >= pos[BodyOf[g]] + Hi[g]

(* While the times of impact are handled: the fat boxes cover the starts   *)
(* of the sweeps as well as their ends, so that every wall on the way has  *)
(* a contact; a body that sleeps has not moved; and no sweep starts behind *)
(* a wall that the body was in front of when the step began.               *)
SweepInv ==
  /\ phase = "collided" => began.pos = pos
  /\ phase = "solved" => /\ Sweeps(broadPhase, proxy, from, pos, Moving \ bodies.awake)
                         /\ BehindWalls(began.pos, from)

(* A place where a wall blocks a sweep is a stop: there is a contact, and  *)
(* it was not given up.                                                    *)
LEMMA WallStops ==
  ASSUME WorldInv, SweepInv, ToiInv, phase = "solved",
         NEW f \in Existing \ IsSensor, NEW g \in Existing \ IsSensor, ~ GivenUp(<<f, g>>),
         BodyOf[f] \in Moving, BodyOf[g] \in Static, NEW x \in Int, Blocks(BodyOf[f], x, f, g)
  PROVE  <<x, <<f, g>>>> \in Stops(BodyOf[f])
<1> DEFINE b == BodyOf[f]
           y == pos[BodyOf[g]]
           a == FatBox(broadPhase, proxy[f])
           w == FatBox(broadPhase, proxy[g])
<1>1. /\ Indexed(broadPhase, proxy) /\ Owned(proxy) = Existing /\ pos \in Positions /\ from \in Positions
      /\ Covered(broadPhase, proxy, pos) /\ Complete(broadPhase, proxy, contacts)
  BY InvParts DEF Settled
<1>2. broadPhase.move = {} /\ Covered(broadPhase, proxy, from)
  BY DEF SweepInv, Sweeps
<1>3. f \in Fixtures /\ g \in Fixtures /\ f \notin IsSensor /\ g \notin IsSensor
  BY DEF Existing
<1>4. b \in Bodies /\ pos[b] \in Places /\ from[b] \in Places /\ y \in Places /\ Places \subseteq Int
      /\ Lo[f] \in Int /\ Hi[f] \in Int /\ Lo[g] \in Int /\ Hi[g] \in Int /\ Lo[f] <= Hi[f] /\ Lo[g] <= Hi[g]
  BY <1>1, <1>3, WorldAssumption DEF Positions
<1>5. \/ pos[b] > x /\ from[b] <= x /\ x + Hi[f] = y + Lo[g]
      \/ pos[b] < x /\ from[b] >= x /\ x + Lo[f] = y + Hi[g]
  BY DEF Blocks
<1>6. x \in Places
  <2>1. x \in from[b]..pos[b] \/ x \in pos[b]..from[b]
    <3>1. pos[b] \in Int /\ from[b] \in Int
      BY <1>4
    <3>2. (from[b] <= x /\ x <= pos[b]) \/ (pos[b] <= x /\ x <= from[b])
      BY <1>5, <3>1
    <3> HIDE DEF b
    <3> QED
      BY <3>1, <3>2
  <2> QED
    BY <1>4, <2>1, WorldAssumption
<1>7. /\ Covers(a, BoxAt(f, pos[b])) /\ Covers(a, BoxAt(f, from[b])) /\ Covers(w, BoxAt(g, y))
  BY <1>1, <1>2 DEF Covered
<1>8. a \in Box /\ w \in Box
  BY <1>1, <1>3, Owner, FatBoxes DEF Indexed
<1>9. TestOverlap(broadPhase, proxy[f], proxy[g])
  <2> HIDE DEF a, w, b, y
  <2>1. \A i \in 1..2 : a.lo[i] \in Int /\ a.hi[i] \in Int /\ w.lo[i] \in Int /\ w.hi[i] \in Int
    BY <1>8 DEF Box
  <2>2. /\ a.lo[1] <= pos[b] + Lo[f] /\ pos[b] + Hi[f] <= a.hi[1] /\ a.lo[2] <= 0 /\ 1 <= a.hi[2]
        /\ a.lo[1] <= from[b] + Lo[f] /\ from[b] + Hi[f] <= a.hi[1]
        /\ w.lo[1] <= y + Lo[g] /\ y + Hi[g] <= w.hi[1] /\ w.lo[2] <= 0 /\ 1 <= w.hi[2]
    BY <1>7 DEF Covers, BoxAt
  <2>3. /\ a.lo[1] \in Int /\ a.hi[1] \in Int /\ a.lo[2] \in Int /\ a.hi[2] \in Int
        /\ w.lo[1] \in Int /\ w.hi[1] \in Int /\ w.lo[2] \in Int /\ w.hi[2] \in Int
    BY <2>1
  <2>4. pos[b] \in Int /\ from[b] \in Int /\ y \in Int
    BY <1>4
  <2>5. a.lo[1] <= x + Lo[f] /\ x + Hi[f] <= a.hi[1]
    BY <1>4, <1>5, <2>2, <2>3, <2>4
  <2>6. x + Lo[f] <= y + Hi[g] /\ y + Lo[g] <= x + Hi[f]
    BY <1>4, <1>5, <2>4
  <2>7. a.lo[1] <= w.hi[1] /\ w.lo[1] <= a.hi[1] /\ a.lo[2] <= w.hi[2] /\ w.lo[2] <= a.hi[2]
    BY <1>4, <2>2, <2>3, <2>4, <2>5, <2>6
  <2>8. Overlap(a, w)
    <3>1. \A i \in 1..2 : i = 1 \/ i = 2
      OBVIOUS
    <3> QED
      BY <2>7, <3>1 DEF Overlap
  <2> QED
    BY <2>8 DEF TestOverlap, a, w
<1>10. ShouldCollide(f, g)
  BY <1>4 DEF ShouldCollide, Moving
<1>11. PICK c \in Range(contacts) : Pair(c) = {f, g}
  BY <1>1, <1>2, <1>9, <1>10 DEF Complete, PairsIn
<1>12. Solid(c)
  BY <1>3, <1>11 DEF Solid
<1>13. <<f, g>> \in Impacts
  BY <1>3 DEF Impacts
<1>14. LooksAt(<<f, g>>)
  <2>1. toi.count[<<f, g>>] \in Int /\ MaxSubSteps \in Int
    BY <1>13, WorldAssumption DEF ToiInv
  <2>2. <<f, g>> \notin toi.skipped /\ toi.count[<<f, g>>] <= MaxSubSteps
    BY <2>1 DEF ToiInv, GivenUp
  <2> QED
    BY <1>11, <1>12, <2>2 DEF LooksAt
<1> QED
  BY <1>6, <1>13, <1>14 DEF Stops

(* Of two numbers on the same side of 0, the nearer has the smaller square.*)
LEMMA SquareLess ==
  ASSUME NEW a \in Int, NEW c \in Int, (0 <= a /\ a < c) \/ (c < a /\ a <= 0)
  PROVE  a * a < c * c
<1>1. \A m, n \in Nat : m < n => m * m < n * n
  <2> SUFFICES ASSUME NEW m \in Nat, NEW n \in Nat, m < n PROVE m * m < n * n
    OBVIOUS
  <2> DEFINE d == n - m
  <2>1. d \in Nat /\ d >= 1 /\ n = m + d
    OBVIOUS
  <2> HIDE DEF d
  <2>2. n * n = m * m + 2 * (m * d) + d * d
    BY <2>1
  <2>3. m * d >= 0 /\ d * d >= 1 /\ m * m \in Int /\ m * d \in Int /\ d * d \in Int
    BY <2>1
  <2> QED
    BY <2>2, <2>3
<1>2. CASE 0 <= a /\ a < c
  BY <1>1, <1>2
<1>3. CASE c < a /\ a <= 0
  <2>1. -a \in Nat /\ -c \in Nat /\ -a < -c
    BY <1>3
  <2>2. (-a) * (-a) < (-c) * (-c)
    BY <1>1, <2>1
  <2>3. (-a) * (-a) = a * a /\ (-c) * (-c) = c * c
    OBVIOUS
  <2> QED
    BY <2>2, <2>3
<1> QED
  BY <1>2, <1>3

(* What blocks a sweep is between its ends.                                *)
LEMMA BlocksBetween ==
  ASSUME NEW b, NEW x, NEW f, NEW g, Blocks(b, x, f, g)
  PROVE  (pos[b] > x /\ from[b] <= x) \/ (pos[b] < x /\ from[b] >= x)
BY DEF Blocks

(* Until its first stop, a body passes no wall.                            *)
LEMMA FirstStopBefore ==
  ASSUME WorldInv, SweepInv, ToiInv, phase = "solved",
         NEW f \in Existing \ IsSensor, NEW g \in Existing \ IsSensor, ~ GivenUp(<<f, g>>),
         BodyOf[f] \in Moving, BodyOf[g] \in Static, NEW e \in FirstStops(BodyOf[f])
  PROVE  LET b == BodyOf[f]
             y == pos[BodyOf[g]]
             p == e[1]
         IN /\ from[b] + Hi[f] <= y + Lo[g] => p + Hi[f] <= y + Lo[g]
            /\ from[b] + Lo[f] >= y + Hi[g] => p + Lo[f] >= y + Hi[g]
<1> DEFINE b == BodyOf[f]
           y == pos[BodyOf[g]]
           p == e[1]
<1>1. pos \in Positions /\ from \in Positions /\ f \in Fixtures /\ g \in Fixtures
  BY InvParts DEF Existing
<1>2. b \in Bodies /\ pos[b] \in Int /\ from[b] \in Int /\ y \in Int
      /\ Lo[f] \in Int /\ Hi[f] \in Int /\ Lo[g] \in Int /\ Hi[g] \in Int
  BY <1>1, WorldAssumption DEF Positions
<1>3. /\ e \in Stops(b) /\ p \in Places
      /\ \A d \in Stops(b) : (p - from[b]) * (p - from[b]) <= (d[1] - from[b]) * (d[1] - from[b])
  BY StopsAre DEF FirstStops
<1>4. p \in Int /\ ((pos[b] > p /\ from[b] <= p) \/ (pos[b] < p /\ from[b] >= p))
  <2>1. Blocks(b, p, e[2][1], e[2][2])
    BY <1>3, StopsAre
  <2> HIDE DEF p, b
  <2>2. p \in Int
    BY <1>3, WorldAssumption
  <2> QED
    BY <2>1, <2>2, BlocksBetween
<1>5. \A x \in Int : Blocks(b, x, f, g) =>
        (p - from[b]) * (p - from[b]) <= (x - from[b]) * (x - from[b])
  <2> SUFFICES ASSUME NEW x \in Int, Blocks(b, x, f, g)
               PROVE  (p - from[b]) * (p - from[b]) <= (x - from[b]) * (x - from[b])
    OBVIOUS
  <2>1. <<x, <<f, g>>>> \in Stops(b)
    BY WallStops
  <2>2. \A d \in Stops(b) : (p - from[b]) * (p - from[b]) <= (d[1] - from[b]) * (d[1] - from[b])
    BY <1>3
  <2>3. <<x, <<f, g>>>>[1] = x
    OBVIOUS
  <2> HIDE DEF p, b
  <2> QED
    BY <2>1, <2>2, <2>3
<1> HIDE DEF p
<1>6. ASSUME from[b] + Hi[f] <= y + Lo[g], p + Hi[f] > y + Lo[g] PROVE FALSE
  <2> DEFINE x == y + Lo[g] - Hi[f]
  <2>1. x \in Int /\ from[b] <= x /\ x < p /\ x + Hi[f] = y + Lo[g]
    BY <1>2, <1>4, <1>6
  <2> HIDE DEF x
  <2>2. pos[b] > x
    BY <1>2, <1>4, <2>1
  <2>3. Blocks(b, x, f, g)
    BY <2>1, <2>2 DEF Blocks
  <2>4. (x - from[b]) * (x - from[b]) < (p - from[b]) * (p - from[b])
    <3> DEFINE m == x - from[b]
               n == p - from[b]
    <3>1. m \in Int /\ n \in Int /\ 0 <= m /\ m < n
      BY <1>2, <1>4, <2>1
    <3> HIDE DEF m, n
    <3>2. m * m < n * n
      BY <3>1, SquareLess
    <3> QED
      BY <3>2 DEF m, n
  <2>5. (p - from[b]) * (p - from[b]) <= (x - from[b]) * (x - from[b])
    BY <1>5, <2>1, <2>3
  <2> DEFINE u == (x - from[b]) * (x - from[b])
             v == (p - from[b]) * (p - from[b])
  <2>6. u \in Int /\ v \in Int
    BY <1>2, <1>4, <2>1
  <2>7. u < v /\ v <= u
    BY <2>4, <2>5
  <2> HIDE DEF u, v
  <2> QED
    BY <2>6, <2>7
<1>7. ASSUME from[b] + Lo[f] >= y + Hi[g], p + Lo[f] < y + Hi[g] PROVE FALSE
  <2> DEFINE x == y + Hi[g] - Lo[f]
  <2>1. x \in Int /\ from[b] >= x /\ p < x /\ x + Lo[f] = y + Hi[g]
    BY <1>2, <1>4, <1>7
  <2> HIDE DEF x
  <2>2. pos[b] < x
    BY <1>2, <1>4, <2>1
  <2>3. Blocks(b, x, f, g)
    BY <2>1, <2>2 DEF Blocks
  <2>4. (x - from[b]) * (x - from[b]) < (p - from[b]) * (p - from[b])
    <3> DEFINE m == x - from[b]
               n == p - from[b]
    <3>1. m \in Int /\ n \in Int /\ m <= 0 /\ n < m
      BY <1>2, <1>4, <2>1
    <3> HIDE DEF m, n
    <3>2. m * m < n * n
      BY <3>1, SquareLess
    <3> QED
      BY <3>2 DEF m, n
  <2>5. (p - from[b]) * (p - from[b]) <= (x - from[b]) * (x - from[b])
    BY <1>5, <2>1, <2>3
  <2> DEFINE u == (x - from[b]) * (x - from[b])
             v == (p - from[b]) * (p - from[b])
  <2>6. u \in Int /\ v \in Int
    BY <1>2, <1>4, <2>1
  <2>7. u < v /\ v <= u
    BY <2>4, <2>5
  <2> HIDE DEF u, v
  <2> QED
    BY <2>6, <2>7
<1>8. /\ from[b] + Hi[f] <= y + Lo[g] => p + Hi[f] <= y + Lo[g]
      /\ from[b] + Lo[f] >= y + Hi[g] => p + Lo[f] >= y + Hi[g]
  BY <1>2, <1>4, <1>6, <1>7
<1> QED
  BY <1>8 DEF p

-----------------------------------------------------------------------------
(* Every step keeps the invariant of the sweeps.                           *)
LEMMA SweepStep ==
  ASSUME WorldInv, SweepInv, ToiInv, [Next]_vars
  PROVE  SweepInv'
<1>1. CASE Collide
  BY <1>1 DEF Collide, SweepInv
<1>2. CASE Solve
  <2>1. /\ Sweeps(broadPhase', proxy', from', pos', Moving \ bodies'.awake)
        /\ from' = pos /\ proxy' = proxy /\ began' = began /\ phase = "collided" /\ phase' = "solved"
        /\ \A b \in Static : pos'[b] = pos[b]
    BY <1>2, SolveKeeps
  <2>2. began'.pos = from'
    BY <2>1 DEF SweepInv
  <2>3. BehindWalls(began.pos, from)'
    BY <2>2 DEF BehindWalls
  <2> QED
    BY <2>1, <2>3 DEF SweepInv, Moving
<1>7. \A m \in Impacts : TimeOfImpact \/ ImpactNotTouching \/ ImpactNotFound => (GivenUp(m) => GivenUp(m)')
  <2> SUFFICES ASSUME NEW m \in Impacts, TimeOfImpact \/ ImpactNotTouching \/ ImpactNotFound, GivenUp(m)
               PROVE  GivenUp(m)'
    OBVIOUS
  <2>1. PICK n : \/ toi'.count = toi.count
                 \/ toi'.count = [toi.count EXCEPT ![n] = @ + 1]
    BY DEF TimeOfImpact, ImpactNotTouching, ImpactNotFound, ToiInv
  <2>2. toi.missed \subseteq toi'.missed
    BY DEF TimeOfImpact, ImpactNotTouching, ImpactNotFound, ToiInv
  <2>3. toi.count[m] \in Int /\ toi.count \in [Impacts -> 0..(MaxSubSteps + 1)] /\ MaxSubSteps \in Int
    BY WorldAssumption DEF ToiInv
  <2>4. toi'.count[m] \in Int /\ toi'.count[m] >= toi.count[m]
    BY <2>1, <2>3
  <2> QED
    BY <2>2, <2>3, <2>4 DEF GivenUp
<1>3. CASE TimeOfImpact
  <2>1. /\ Sweeps(broadPhase, proxy, from, pos, Moving \ bodies.awake) =>
             Sweeps(broadPhase', proxy', from', pos', Moving \ bodies'.awake)
        /\ proxy' = proxy /\ began' = began /\ phase = "solved" /\ phase' = phase
        /\ \A b \in Static : pos'[b] = pos[b]
    BY <1>3, TimeOfImpactKeeps
  <2>8. PICK b \in bodies.awake : \E e \in FirstStops(b) : from' = [from EXCEPT ![b] = e[1]]
    BY <1>3, TimeOfImpactKeeps
  <2>2. PICK e \in FirstStops(b) : from' = [from EXCEPT ![b] = e[1]]
    BY <2>8
  <2>3. /\ Sweeps(broadPhase, proxy, from, pos, Moving \ bodies.awake) /\ BehindWalls(began.pos, from)
    BY <2>1 DEF SweepInv
  <2>4. from \in Positions
    BY InvParts
  <2> DEFINE E == Existing \ IsSensor
             b0 == began.pos
  <2>5. E' = E /\ began.pos' = b0
    BY <2>1 DEF Existing, Exists
  <2>6. ASSUME NEW f \in E, NEW g \in E, BodyOf[f] \in Moving, BodyOf[g] \in Static, ~ GivenUp(<<f, g>>)'
        PROVE  /\ b0[BodyOf[f]] + Hi[f] <= pos[BodyOf[g]] + Lo[g] =>
                    from'[BodyOf[f]] + Hi[f] <= pos[BodyOf[g]] + Lo[g]
               /\ b0[BodyOf[f]] + Lo[f] >= pos[BodyOf[g]] + Hi[g] =>
                    from'[BodyOf[f]] + Lo[f] >= pos[BodyOf[g]] + Hi[g]
    <3> DEFINE c == BodyOf[f]
               y == pos[BodyOf[g]]
    <3>1. c \in Bodies
      BY <2>6 DEF Moving
    <3>5. ~ GivenUp(<<f, g>>)
      <4>1. <<f, g>> \in Impacts
        BY <2>6 DEF Impacts, Existing
      <4> QED
        BY <1>3, <1>7, <2>6, <4>1
    <3>2. /\ b0[c] + Hi[f] <= y + Lo[g] => from[c] + Hi[f] <= y + Lo[g]
          /\ b0[c] + Lo[f] >= y + Hi[g] => from[c] + Lo[f] >= y + Hi[g]
      BY <2>3, <2>6, <3>5 DEF BehindWalls
    <3>3. CASE c # b
      <4>1. from'[c] = from[c]
        BY <2>2, <2>4, <3>1, <3>3 DEF Positions
      <4> QED
        BY <3>2, <4>1
    <3>4. CASE c = b
      <4> DEFINE p == e[1]
      <4>1. from'[c] = p
        BY <2>2, <2>4, <3>1, <3>4 DEF Positions
      <4>2. /\ from[c] + Hi[f] <= y + Lo[g] => p + Hi[f] <= y + Lo[g]
            /\ from[c] + Lo[f] >= y + Hi[g] => p + Lo[f] >= y + Hi[g]
        BY <2>1, <2>2, <2>6, <3>4, <3>5, FirstStopBefore
      <4> HIDE DEF p
      <4> QED
        BY <3>2, <4>1, <4>2
    <3> QED
      BY <3>3, <3>4
  <2> HIDE DEF E, b0
  <2>7. BehindWalls(began.pos, from)'
    <3>1. \A g \in E : BodyOf[g] \in Static => pos'[BodyOf[g]] = pos[BodyOf[g]]
      BY <2>1
    <3> QED
      BY <2>5, <2>6, <3>1 DEF BehindWalls, E, Moving
  <2> QED
    BY <2>1, <2>3, <2>7 DEF SweepInv, Moving
<1>4. CASE phase' = "idle"
  BY <1>4 DEF SweepInv
<1>5. CASE UNCHANGED vars \/ ImpactNotTouching \/ ImpactNotFound
  <2>1. /\ broadPhase' = broadPhase /\ pos' = pos /\ from' = from /\ proxy' = proxy
        /\ bodies.awake \subseteq bodies'.awake /\ phase' = phase /\ began' = began
    BY <1>5, ImpactNotTouchingKeeps DEF vars, ImpactNotFound
  <2>2. \A m \in Impacts : GivenUp(m) => GivenUp(m)'
    BY <1>5, <1>7 DEF vars, GivenUp
  <2>3. BehindWalls(began.pos, from) => BehindWalls(began.pos, from)'
    <3>1. \A f, g \in Existing : BodyOf[f] \in Moving /\ BodyOf[g] \in Static => <<f, g>> \in Impacts
      BY DEF Impacts, Existing
    <3> QED
      BY <2>1, <2>2, <3>1 DEF BehindWalls, Existing, Exists, Moving
  <2>4. Sweeps(broadPhase, proxy, from, pos, Moving \ bodies.awake) =>
          Sweeps(broadPhase, proxy, from, pos, Moving \ bodies'.awake)
    BY <2>1 DEF Sweeps
  <2> QED
    BY <2>1, <2>3, <2>4 DEF SweepInv, Moving
<1>6. \/ Collide \/ Solve \/ TimeOfImpact \/ ImpactNotTouching \/ ImpactNotFound
      \/ phase' = "idle" \/ UNCHANGED vars
  BY DEF Next, StepDone, CreateBody, SetPose, Tween, DestroyBody, SetLinearVelocity, Rebuild, Between, Done
<1> QED
  BY <1>1, <1>2, <1>3, <1>4, <1>5, <1>6

(* The sweeps of every behaviour are as the invariant says.                *)
THEOREM SweepsCorrect == Spec => []SweepInv
<1>1. Init => SweepInv
  BY DEF Init, SweepInv
<1>2. WorldInv /\ SweepInv /\ ToiInv /\ [Next]_vars => SweepInv'
  BY SweepStep
<1> QED
  BY <1>1, <1>2, WorldCorrect, ImpactsTyped, PTL DEF Spec

(* When no stop is left, no body has passed a wall, unless their contact   *)
(* was given up.                                                           *)
LEMMA NoStopLeft ==
  ASSUME WorldInv, SweepInv, ToiInv, phase = "solved", \A b \in bodies.awake : Stops(b) = {},
         NEW f \in Existing \ IsSensor, NEW g \in Existing \ IsSensor, ~ GivenUp(<<f, g>>),
         BodyOf[f] \in Moving, BodyOf[g] \in Static
  PROVE  LET b == BodyOf[f]
             y == pos[BodyOf[g]]
         IN /\ began.pos[b] + Hi[f] <= y + Lo[g] => pos[b] + Lo[f] < y + Hi[g]
            /\ began.pos[b] + Lo[f] >= y + Hi[g] => pos[b] + Hi[f] > y + Lo[g]
<1> DEFINE b == BodyOf[f]
           y == pos[BodyOf[g]]
           b0 == began.pos
<1>1. pos \in Positions /\ from \in Positions /\ f \in Fixtures /\ g \in Fixtures
  BY InvParts DEF Existing
<1>2. b \in Bodies /\ b \notin Static /\ pos[b] \in Int /\ from[b] \in Int /\ y \in Int
      /\ Lo[f] \in Int /\ Hi[f] \in Int /\ Lo[g] \in Int /\ Hi[g] \in Int /\ Lo[f] < Hi[f] /\ Lo[g] <= Hi[g]
  BY <1>1, WorldAssumption DEF Positions, Moving
<1>3. /\ b0[b] + Hi[f] <= y + Lo[g] => from[b] + Hi[f] <= y + Lo[g]
      /\ b0[b] + Lo[f] >= y + Hi[g] => from[b] + Lo[f] >= y + Hi[g]
  BY DEF SweepInv, BehindWalls
<1>4. CASE b \notin bodies.awake
  <2>1. from[b] = pos[b]
    BY <1>4 DEF SweepInv, Sweeps
  <2> HIDE DEF b, y, b0
  <2> QED
    BY <1>2, <1>3, <2>1 DEF b, y, b0
<1>5. CASE b \in bodies.awake
  <2>1. \A x \in Int : ~ Blocks(b, x, f, g)
    BY <1>5, WallStops
  <2>2. from[b] + Hi[f] <= y + Lo[g] => pos[b] + Hi[f] <= y + Lo[g]
    <3> DEFINE x == y + Lo[g] - Hi[f]
    <3>1. x \in Int /\ x + Hi[f] = y + Lo[g]
      BY <1>2
    <3> HIDE DEF x
    <3>2. ~ (pos[b] > x /\ from[b] <= x)
      BY <2>1, <3>1 DEF Blocks
    <3> HIDE DEF b, y
    <3> QED
      BY <1>2, <3>1, <3>2
  <2>3. from[b] + Lo[f] >= y + Hi[g] => pos[b] + Lo[f] >= y + Hi[g]
    <3> DEFINE x == y + Hi[g] - Lo[f]
    <3>1. x \in Int /\ x + Lo[f] = y + Hi[g]
      BY <1>2
    <3> HIDE DEF x
    <3>2. ~ (pos[b] < x /\ from[b] >= x)
      BY <2>1, <3>1 DEF Blocks
    <3> HIDE DEF b, y
    <3> QED
      BY <1>2, <3>1, <3>2
  <2> HIDE DEF b, y, b0
  <2> QED
    BY <1>2, <1>3, <2>2, <2>3 DEF b, y, b0
<1> QED
  BY <1>4, <1>5

(* With continuous physics, a body passes over a whole step through a      *)
(* fixture of a static body only if their contact was given up in it.      *)
THEOREM NeverTunnels == Spec => NoTunnelling
<1>1. WorldInv /\ SweepInv /\ ToiInv /\ [Next]_vars =>
        [(phase = "solved" /\ phase' = "idle" /\ continuousPhysics) =>
           \A f, g \in {h \in Fixtures : Exists(h)} \ IsSensor :
             LET b == BodyOf[f]
                 y == pos[BodyOf[g]]
             IN (b \in Moving /\ BodyOf[g] \in Static /\ ~ GivenUp(<<f, g>>)) =>
                  /\ began.pos[b] + Hi[f] <= y + Lo[g] => pos[b] + Lo[f] < y + Hi[g]
                  /\ began.pos[b] + Lo[f] >= y + Hi[g] => pos[b] + Hi[f] > y + Lo[g]]_vars
  <2> SUFFICES ASSUME WorldInv, SweepInv, ToiInv, [Next]_vars, phase = "solved", phase' = "idle",
                      continuousPhysics
               PROVE  \A f, g \in {h \in Fixtures : Exists(h)} \ IsSensor :
                        LET b == BodyOf[f]
                            y == pos[BodyOf[g]]
                        IN (b \in Moving /\ BodyOf[g] \in Static /\ ~ GivenUp(<<f, g>>)) =>
                             /\ began.pos[b] + Hi[f] <= y + Lo[g] => pos[b] + Lo[f] < y + Hi[g]
                             /\ began.pos[b] + Lo[f] >= y + Hi[g] => pos[b] + Hi[f] > y + Lo[g]
    OBVIOUS
  <2>1. StepDone
    BY DEF Next, Collide, Solve, TimeOfImpact, ImpactNotTouching, ImpactNotFound, CreateBody, SetPose,
           Tween, DestroyBody, SetLinearVelocity, Rebuild, Between, Done, vars
  <2>2. \A b \in bodies.awake : Stops(b) = {}
    BY <2>1 DEF StepDone
  <2> QED
    BY <2>2, NoStopLeft DEF Existing
<1> QED
  BY <1>1, WorldCorrect, SweepsCorrect, ImpactsTyped, PTL DEF Spec, NoTunnelling
=============================================================================
