---------------------------- MODULE PhysicsWorld -----------------------------
(* The part of Box2D that decides which bodies are in contact and which are *)
(* asleep (b2World.cpp, b2Body.cpp, b2Fixture.cpp, b2Contact.cpp,           *)
(* b2ContactManager.cpp, b2Island.cpp), driven by what flatland calls: it   *)
(* loads and deletes models, moves them, rebuilds layers and steps.         *)
(*                                                                          *)
(* Bodies live on a line.  A step of the world is Collide, Solve, and with  *)
(* continuous physics any number of times of impact, and StepDone.  Where   *)
(* bodies go is the solver's choice: a few iterations may leave it to send  *)
(* a body on into what it touches.                                          *)
EXTENDS BroadPhase, Functions

CONSTANTS Bodies, Fixtures,
          Static,        \* the bodies of type b2_staticBody
          BodyOf,        \* the body of a fixture
          Lo, Hi,        \* the extent of a fixture around its body
                         \* (a wall may be thin, a footprint is not)
          IsSensor,      \* the fixtures that are sensors
          Places,        \* positions of bodies: a stretch of the grid
          Poses,         \* bound: where flatland puts a body
          TimeToSleep,   \* steps at rest before an island sleeps
          Velocities,    \* distances that a step may move a body
          MaxSubSteps,   \* b2_maxSubSteps
          MaxCalls,      \* bound: calls of flatland's other than Step
          MaxSteps       \* bound: steps

ASSUME WorldAssumption ==
  /\ IsFiniteSet(Bodies) /\ IsFiniteSet(Fixtures)
  /\ Static \subseteq Bodies
  /\ BodyOf \in [Fixtures -> Bodies]
  /\ Lo \in [Fixtures -> Int] /\ Hi \in [Fixtures -> Int]
  /\ \A f \in Fixtures : Lo[f] <= Hi[f] /\ (BodyOf[f] \notin Static => Lo[f] < Hi[f])
  /\ IsSensor \subseteq Fixtures
  /\ Places \subseteq Int /\ IsFiniteSet(Places) /\ \A x, y \in Places : x..y \subseteq Places
  /\ 0 \in Places /\ Poses \subseteq Places
  /\ Velocities \subseteq Int /\ 0 \in Velocities /\ MaxSubSteps \in Nat
  /\ TimeToSleep \in Nat \ {0} /\ MaxCalls \in Nat /\ MaxSteps \in Nat

NoHistory == [awake |-> {}, pos |-> <<>>]

VARIABLES broadPhase,
          proxy,         \* the proxy of a fixture; Null: it does not exist
          live,          \* the bodies in the world
          pos, from,     \* where a body is; where its sweep begins
          bodies,        \* awake: the flag; rest: steps of m_sleepTime
          contacts,      \* m_contactList, newest first
          newFixture,    \* e_newFixture
          phase,         \* what Step has done
          continuousPhysics, \* the world's continuous_physics
          toi,           \* count: m_toiCount; skipped: the contacts without
                         \* a time of impact; missed: history, who was skipped
          calls, steps,  \* bounded by MaxCalls and MaxSteps
          began          \* history: who was awake when Collide looked, and where

vars == <<broadPhase, proxy, live, pos, from, bodies, contacts, newFixture,
          phase, continuousPhysics, toi, calls, steps, began>>

Moving == Bodies \ Static
FixturesOf(b) == {f \in Fixtures : BodyOf[f] = b}
Exists(f) == proxy[f] # Null
OwnerOf(id) == CHOOSE f \in Fixtures : proxy[f] = id

BoxAt(f, x) == [lo |-> <<x + Lo[f], 0>>, hi |-> <<x + Hi[f], 1>>]
Touch(f, x, g, y) == Overlap(BoxAt(f, x), BoxAt(g, y))
Pair(c) == {c.a, c.b}
Solid(c) == Pair(c) \cap IsSensor = {}
BodiesOf(c) == {BodyOf[c.a], BodyOf[c.b]}
ShouldCollide(f, g) == BodyOf[f] # BodyOf[g] /\ {BodyOf[f], BodyOf[g]} \ Static # {}

(***************************************************************************)
(* The operations on contacts work on a record s of the fields that they   *)
(* change: contacts, awake, rest.                                          *)
(***************************************************************************)
State(cs) == [contacts |-> cs, awake |-> bodies.awake, rest |-> bodies.rest]

SetAwake(s, B) == [s EXCEPT !.awake = @ \cup (B \ Static),
                            !.rest = [b \in Bodies |-> IF b \in B THEN 0 ELSE @[b]]]

(* The list without c. *)
UnlinkStep(w, d) == IF d = w.gone THEN w ELSE [w EXCEPT !.kept = Append(@, d)]
Unlinking == INSTANCE Folding WITH Op <- UnlinkStep
Without(cs, c) == Unlinking!Fold([gone |-> c, kept |-> <<>>], cs).kept

(* Mutant: a contact that ends does not wake what rested on it. *)
DestroyContactSilent(s, c) ==
  [s EXCEPT !.contacts = Without(@, c)]
DestroyContact(s, c) ==
  LET gone == [s EXCEPT !.contacts = Without(@, c)]
  IN IF c.touching /\ Solid(c) THEN SetAwake(gone, BodiesOf(c)) ELSE gone

AddPair(s, p) ==
  LET f == OwnerOf(p[1])
      g == OwnerOf(p[2])
      new == [a |-> f, b |-> g, touching |-> FALSE]
      known == \E i \in DOMAIN s.contacts : Pair(s.contacts[i]) = {f, g}
      added == [s EXCEPT !.contacts = <<new>> \o @]
  IN CASE known \/ ~ ShouldCollide(f, g) -> s
       [] ~ known /\ ShouldCollide(f, g) ->
            IF Solid(new) THEN SetAwake(added, BodiesOf(new)) ELSE added

Adding == INSTANCE Folding WITH Op <- AddPair
FindNewContacts(s, bp) == Adding!Fold(s, Pairs(bp))

(* b2Contact::Update once it knows if the fixtures touch now, and with what *)
(* touches at the positions p. *)
SetTouching(s, c, now) ==
  LET marked == [s EXCEPT !.contacts =
                   [i \in DOMAIN @ |-> IF @[i] = c THEN [c EXCEPT !.touching = now]
                                       ELSE @[i]]]
  IN IF Solid(c) /\ now # c.touching THEN SetAwake(marked, BodiesOf(c)) ELSE marked
UpdateContact(s, c, p) ==
  SetTouching(s, c, Touch(c.a, p[BodyOf[c.a]], c.b, p[BodyOf[c.b]]))

(***************************************************************************)
(* Step, up to Collide.                                                    *)
(***************************************************************************)
(* Mutant: a contact is updated only if no body of it is asleep. *)
CollideContactAllAwake(s, c) ==
  CASE ~ BodiesOf(c) \subseteq s.awake -> s
    [] BodiesOf(c) \subseteq s.awake ->
         IF TestOverlap(broadPhase, proxy[c.a], proxy[c.b])
         THEN UpdateContact(s, c, pos) ELSE DestroyContact(s, c)
CollideContact(s, c) ==
  CASE BodiesOf(c) \cap s.awake = {} -> s
    [] BodiesOf(c) \cap s.awake # {} ->
         IF TestOverlap(broadPhase, proxy[c.a], proxy[c.b])
         THEN UpdateContact(s, c, pos) ELSE DestroyContact(s, c)
Colliding == INSTANCE Folding WITH Op <- CollideContact

Collide ==
  /\ phase = "idle" /\ steps < MaxSteps
  /\ steps' = steps + 1
  /\ LET start == IF newFixture THEN FindNewContacts(State(contacts), broadPhase)
                  ELSE State(contacts)
         s == Colliding!Fold(start, start.contacts)
     IN /\ contacts' = s.contacts
        /\ bodies' = [awake |-> s.awake, rest |-> s.rest]
        /\ began' = [awake |-> start.awake, pos |-> pos]
  /\ broadPhase' = IF newFixture THEN PairsSent(broadPhase) ELSE broadPhase
  /\ newFixture' = FALSE
  /\ phase' = "collided"
  /\ UNCHANGED <<proxy, live, pos, from, continuousPhysics, toi, calls>>

(***************************************************************************)
(* Solve.  Islands: bodies that solid, touching contacts connect, not      *)
(* across static bodies.                                                   *)
(***************************************************************************)
Bonds == {BodiesOf(c) : c \in {d \in Range(contacts) : Solid(d) /\ d.touching}}

FloodStep(B, k) == B \cup ((UNION {p \in Bonds : p \cap B # {}}) \ Static)
Flooding == INSTANCE Folding WITH Op <- FloodStep
Flood(b) == Flooding!Fold({b}, Count(Cardinality(Bodies)))

Islands == {Flood(b) : b \in bodies.awake}

Moves(islands) ==
  {move \in [Bodies -> Velocities] :
     \A b \in Bodies : /\ b \notin UNION islands => move[b] = 0
                       /\ b \in live => pos[b] + move[b] \in Places}

(* b2Island::Solve: sleepTime of the bodies, then all of the island sleep, *)
(* unless its position constraints were not solved.                        *)
Rested(islands, move) ==
  [b \in Bodies |-> IF b \notin UNION islands THEN bodies.rest[b]
                    ELSE IF move[b] # 0 THEN 0
                    ELSE Min({bodies.rest[b] + 1, TimeToSleep})]
MaySleep(islands, move) ==
  {I \in islands : \A b \in I : Rested(islands, move)[b] = TimeToSleep}

(* The box that covers both ends of the sweep; it extends on to where the  *)
(* body is heading.                                                        *)
(* Mutant: only the end of the sweep. *)
SweptBoxEnd(f, x, y) == BoxAt(f, y)
SweptBox(f, x, y) == Combine(BoxAt(f, x), BoxAt(f, y))

SynchronizeFixture(bp, m) == MoveProxy(bp, m.id, m.box, m.displacement)
Synchronizing == INSTANCE Folding WITH Op <- SynchronizeFixture
Synchronize(bp, B, p, q) ==
  Synchronizing!FoldAll(bp,
    {[id |-> proxy[f], box |-> SweptBox(f, p[BodyOf[f]], q[BodyOf[f]]),
      displacement |-> <<q[BodyOf[f]] - p[BodyOf[f]], 0>>] :
        f \in {g \in Fixtures : Exists(g) /\ BodyOf[g] \in B}})

Solve ==
  /\ phase = "collided"
  /\ LET islands == Islands IN
     \E move \in Moves(islands) : \E solved \in SUBSET MaySleep(islands, move) :
       LET sleep == UNION solved
           q == [b \in Bodies |-> pos[b] + move[b]]
           bp == Synchronize(broadPhase, UNION islands, pos, q)
           s == FindNewContacts(
                  [contacts |-> contacts,
                   awake |-> (bodies.awake \cup UNION islands) \ sleep,
                   rest |-> [b \in Bodies |-> IF b \in sleep THEN 0
                                              ELSE Rested(islands, move)[b]]], bp)
       IN /\ pos' = q
          /\ from' = pos
          /\ contacts' = s.contacts
          /\ bodies' = [awake |-> s.awake, rest |-> s.rest]
          /\ broadPhase' = PairsSent(bp)
  /\ phase' = "solved"
  /\ UNCHANGED <<proxy, live, newFixture, continuousPhysics, toi, calls, steps, began>>

(***************************************************************************)
(* SolveTOI.  An event: on its way from the start of its sweep, an awake   *)
(* body comes to stand beside a fixture of a static body, and its sweep    *)
(* would go on through it.                                                 *)
(***************************************************************************)
Impacts == {m \in Fixtures \X Fixtures : BodyOf[m[1]] \in Moving /\ BodyOf[m[2]] \in Static}
NoImpacts == [count |-> [m \in Impacts |-> 0], skipped |-> {}, missed |-> {}]

LooksAt(m) ==
  /\ m \notin toi.skipped
  /\ toi.count[m] <= MaxSubSteps
  /\ \E c \in Range(contacts) : Pair(c) = {m[1], m[2]} /\ Solid(c)

Blocks(b, x, f, g) ==
  LET y == pos[BodyOf[g]] IN
  \/ pos[b] > x /\ from[b] <= x /\ x + Hi[f] = y + Lo[g]
  \/ pos[b] < x /\ from[b] >= x /\ x + Lo[f] = y + Hi[g]

Stops(b) ==
  {e \in Places \X {m \in Impacts : BodyOf[m[1]] = b /\ LooksAt(m)} :
     Blocks(b, e[1], e[2][1], e[2][2])}

FirstStops(b) ==
  {e \in Stops(b) : \A d \in Stops(b) : (e[1] - from[b]) * (e[1] - from[b])
                                        <= (d[1] - from[b]) * (d[1] - from[b])}

(* The contacts that are updated at the time of impact: those of the body  *)
(* with static bodies.                                                     *)
ImpactContact(s, m) ==
  IF Solid(m.contact) /\ m.body \in BodiesOf(m.contact)
     /\ BodiesOf(m.contact) \cap Static # {}
  THEN UpdateContact(s, m.contact, m.at) ELSE s
Impacting == INSTANCE Folding WITH Op <- ImpactContact
UpdateAtImpact(b, p) ==
  Impacting!Fold(SetAwake(State(contacts), {b}),
                 [i \in DOMAIN contacts |->
                    [contact |-> contacts[i], body |-> b, at |-> p]])

(* What the sub-step may do with the time that is left. *)
Rests(b, p) ==
  {d \in Velocities : /\ p[b] + d \in Places
                      /\ d * d <= (pos[b] - p[b]) * (pos[b] - p[b])}

(* The sub-step from the first stop.  The contacts of the body are enabled  *)
(* again, and their times of impact will be computed anew.                  *)
TimeOfImpact ==
  /\ phase = "solved" /\ continuousPhysics
  /\ \E b \in bodies.awake : \E e \in FirstStops(b) :
       LET p == [pos EXCEPT ![b] = e[1]]
           hit == UpdateAtImpact(b, p)
       IN /\ \E d \in Rests(b, p) :
               LET q == [p EXCEPT ![b] = @ + d]
                   bp == Synchronize(broadPhase, {b}, p, q)
                   s == FindNewContacts(hit, bp)
               IN /\ pos' = q
                  /\ from' = [from EXCEPT ![b] = p[b]]
                  /\ contacts' = s.contacts
                  /\ bodies' = [awake |-> s.awake, rest |-> s.rest]
                  /\ broadPhase' = PairsSent(bp)
          /\ toi' = [toi EXCEPT !.count[e[2]] = @ + 1,
                                !.skipped = {m \in @ : BodyOf[m[1]] # b}]
  /\ UNCHANGED <<proxy, live, newFixture, phase, continuousPhysics, calls, steps, began>>

(* Rounding: at the time of impact the fixtures do not touch.  The contact  *)
(* is disabled and the sweep as it was.                                     *)
ImpactNotTouching ==
  /\ phase = "solved" /\ continuousPhysics
  /\ \E b \in bodies.awake : \E e \in FirstStops(b) : \E c \in Range(contacts) :
       LET s == SetTouching(State(contacts), c, FALSE)
       IN /\ Pair(c) = {e[2][1], e[2][2]}
          /\ contacts' = s.contacts
          /\ bodies' = [awake |-> s.awake, rest |-> s.rest]
          /\ toi' = [toi EXCEPT !.count[e[2]] = @ + 1, !.skipped = @ \cup {e[2]},
                                !.missed = @ \cup {e[2]}]
  /\ UNCHANGED <<broadPhase, proxy, live, pos, from, newFixture, phase, continuousPhysics,
                 calls, steps, began>>

(* b2TimeOfImpact gives up: its iterations end, or what stands beside the   *)
(* fixture overlaps it already by its rounding.                             *)
ImpactNotFound ==
  /\ phase = "solved" /\ continuousPhysics
  /\ \E b \in bodies.awake : \E e \in Stops(b) :
       toi' = [toi EXCEPT !.skipped = @ \cup {e[2]}, !.missed = @ \cup {e[2]}]
  /\ UNCHANGED <<broadPhase, proxy, live, pos, from, bodies, contacts, newFixture, phase,
                 continuousPhysics, calls, steps, began>>

StepDone ==
  /\ phase = "solved"
  /\ continuousPhysics => \A b \in bodies.awake : Stops(b) = {}
  /\ from' = pos
  /\ toi' = NoImpacts
  /\ phase' = "idle"
  /\ began' = NoHistory
  /\ UNCHANGED <<broadPhase, proxy, live, pos, bodies, contacts, newFixture,
                 continuousPhysics, calls, steps>>

(***************************************************************************)
(* Between two steps: what flatland calls.                                 *)
(***************************************************************************)
Between == /\ phase = "idle" /\ calls < MaxCalls
           /\ calls' = calls + 1
           /\ UNCHANGED <<phase, continuousPhysics, toi, steps, began>>

Put(s) == /\ contacts' = s.contacts
          /\ bodies' = [awake |-> s.awake, rest |-> s.rest]

(* CreateFixture for each of F, at the positions p: r is [bp, proxy]. *)
CreateFixture(r, m) ==
  [bp |-> CreateProxy(r.bp, m.box),
   proxy |-> [r.proxy EXCEPT ![m.fixture] = NextProxy(r.bp)]]
Creating == INSTANCE Folding WITH Op <- CreateFixture
CreateFixtures(F, p, r) ==
  Creating!FoldAll(r, {[fixture |-> f, box |-> BoxAt(f, p[BodyOf[f]])] : f \in F})
DestroyFixture(r, f) ==
  [bp |-> DestroyProxy(r.bp, r.proxy[f]), proxy |-> [r.proxy EXCEPT ![f] = Null]]
Destroying == INSTANCE Folding WITH Op <- DestroyFixture
DestroyFixtures(F, r) == Destroying!FoldAll(r, F)

DestroyStep(s, m) ==
  IF Pair(m.contact) \cap m.fixtures = {} THEN s ELSE DestroyContact(s, m.contact)
DestroyingContacts == INSTANCE Folding WITH Op <- DestroyStep
DestroyContactsOf(F) ==
  DestroyingContacts!Fold(State(contacts),
    [i \in DOMAIN contacts |-> [contact |-> contacts[i], fixtures |-> F]])
ExistingOf(b) == {f \in FixturesOf(b) : Exists(f)}

(* A model is loaded at x: CreateBody, then its footprints. *)
CreateBody(b, x) ==
  /\ Between
  /\ b \in Moving \ live
  /\ LET p == [pos EXCEPT ![b] = x]
         r == CreateFixtures(FixturesOf(b), p, [bp |-> broadPhase, proxy |-> proxy])
     IN /\ pos' = p
        /\ from' = p
        /\ broadPhase' = r.bp
        /\ proxy' = r.proxy
  /\ live' = live \cup {b}
  /\ Put(SetAwake(State(contacts), {b}))
  /\ newFixture' = TRUE

DestroyBody(b) ==
  /\ Between
  /\ b \in Moving \cap live
  /\ LET s == DestroyContactsOf(FixturesOf(b))
         r == DestroyFixtures(ExistingOf(b), [bp |-> broadPhase, proxy |-> proxy])
     IN /\ Put([s EXCEPT !.awake = @ \ {b}, !.rest[b] = 0])
        /\ broadPhase' = r.bp
        /\ proxy' = r.proxy
  /\ live' = live \ {b}
  /\ pos' = [pos EXCEPT ![b] = 0]
  /\ from' = pos'
  /\ UNCHANGED newFixture

(* Body::SetTransform, without a step in between. *)
Transformed(bp, b, x) ==
  LET p == [pos EXCEPT ![b] = x] IN Synchronize(bp, {b}, p, p)

(* Model::SetPose takes the root body to the origin and then to the pose; *)
(* neither wakes it.                                                       *)
SetPose(b, x) ==
  /\ Between
  /\ b \in Moving \cap live
  /\ broadPhase' = Transformed(Transformed(broadPhase, b, 0), b, x)
  /\ pos' = [pos EXCEPT ![b] = x]
  /\ from' = pos'
  /\ UNCHANGED <<proxy, live, bodies, contacts, newFixture>>

(* Tween: one transform, and the body is woken. *)
Tween(b, x) ==
  /\ Between
  /\ b \in Moving \cap live
  /\ broadPhase' = Transformed(broadPhase, b, x)
  /\ pos' = [pos EXCEPT ![b] = x]
  /\ from' = pos'
  /\ Put(SetAwake(State(contacts), {b}))
  /\ UNCHANGED <<proxy, live, newFixture>>

(* A drive sets a velocity that is not zero. *)
SetLinearVelocity(b) ==
  /\ Between
  /\ b \in (Moving \cap live) \ bodies.awake
  /\ Put(SetAwake(State(contacts), {b}))
  /\ UNCHANGED <<broadPhase, proxy, live, pos, from, newFixture>>

(* Layer::RebuildCollisionFromBitmap: every fixture of the layer goes, then *)
(* those of the new bitmap come.                                            *)
Rebuild(b, F) ==
  /\ Between
  /\ b \in Static \cap live
  /\ F # ExistingOf(b)
  /\ Put(DestroyContactsOf(FixturesOf(b)))
  /\ LET gone == DestroyFixtures(ExistingOf(b), [bp |-> broadPhase, proxy |-> proxy])
         r == CreateFixtures(F, pos, gone)
     IN /\ broadPhase' = r.bp
        /\ proxy' = r.proxy
  /\ newFixture' = (newFixture \/ F # {})
  /\ UNCHANGED <<live, pos, from>>

(* The world after MakeWorld: layers and models were loaded, no step yet. *)
Init ==
  \E p \in [Bodies -> Places] :
    LET built == CreateFixtures(Fixtures, p, [bp |-> EmptyBroadPhase,
                                              proxy |-> [f \in Fixtures |-> Null]])
    IN /\ \A b \in Static : p[b] = 0
       /\ broadPhase = built.bp
       /\ proxy = built.proxy
       /\ live = Bodies
       /\ pos = p
       /\ from = p
       /\ bodies = [awake |-> Moving, rest |-> [b \in Bodies |-> 0]]
       /\ contacts = <<>>
       /\ newFixture = TRUE
       /\ phase = "idle"
       /\ continuousPhysics \in BOOLEAN
       /\ toi = NoImpacts
       /\ calls = 0 /\ steps = 0
       /\ began = NoHistory

Done == phase = "idle" /\ calls = MaxCalls /\ steps = MaxSteps /\ UNCHANGED vars

Next ==
  \/ Collide \/ Solve \/ TimeOfImpact \/ ImpactNotTouching \/ ImpactNotFound \/ StepDone
  \/ \E b \in Bodies, x \in Poses : \/ CreateBody(b, x) \/ SetPose(b, x)
                                   \/ Tween(b, x)
  \/ \E b \in Bodies : DestroyBody(b) \/ SetLinearVelocity(b)
  \/ \E b \in Static : \E F \in SUBSET FixturesOf(b) : Rebuild(b, F)
  \/ Done

Spec == Init /\ [][Next]_vars

-----------------------------------------------------------------------------
Proxies == {proxy[f] : f \in {g \in Fixtures : Exists(g)}}

(* The types of the world, and that the buffer holds proxies that exist.   *)
TypeOK ==
  /\ proxy \in [Fixtures -> Nat \cup {Null}]
  /\ live \subseteq Bodies
  /\ pos \in [Bodies -> Places] /\ from \in [Bodies -> Places]
  /\ bodies.awake \subseteq Moving \cap live
  /\ bodies.rest \in [Bodies -> 0..TimeToSleep]
  /\ contacts \in Seq([a : Fixtures, b : Fixtures, touching : BOOLEAN])
  /\ \A c \in Range(contacts) : Exists(c.a) /\ Exists(c.b)
  /\ \A i, j \in DOMAIN contacts : Pair(contacts[i]) = Pair(contacts[j]) => i = j
  /\ newFixture \in BOOLEAN
  /\ phase \in {"idle", "collided", "solved"}
  /\ continuousPhysics \in BOOLEAN
  /\ toi \in [count : [Impacts -> 0..(MaxSubSteps + 1)],
             skipped : SUBSET Impacts, missed : SUBSET Impacts]
  /\ broadPhase.move \subseteq Proxies

(* b2DynamicTree::Validate, an assertion that builds without b2DEBUG leave  *)
(* out: children and parents point to each other, heights and boxes are     *)
(* those of the children, every node is either in the tree or free, and the *)
(* leaves are the proxies of the fixtures that exist.  Rotations, removals  *)
(* and the growth of the pool could each break it.                          *)
TreeValid ==
  LET t == broadPhase.tree
      n == t.node
  IN /\ t.root = Null <=> Proxies = {}
     /\ t.root # Null => n[t.root].parent = Null
     /\ \A i \in DOMAIN n :
          IF IsLeaf(n[i]) THEN n[i].child2 = Null /\ n[i].height = 0
          ELSE LET one == n[n[i].child1]
                   two == n[n[i].child2]
               IN /\ one.parent = i /\ two.parent = i
                  /\ n[i].height = 1 + Max({one.height, two.height})
                  /\ n[i].box = Combine(one.box, two.box)
     /\ {i \in DOMAIN n : IsLeaf(n[i])} = Proxies
     /\ {i \in DOMAIN n : n[i].parent = Null} \ {t.root} = {}
     /\ Range(t.free) \cap DOMAIN n = {}
     /\ Range(t.free) \cup DOMAIN n = 0..(t.capacity - 1)
     /\ Len(t.free) + Cardinality(DOMAIN n) = t.capacity

(* A query visits every leaf that overlaps its box although it descends     *)
(* only where inner boxes do, and a ray cast from any place returns the     *)
(* distance of the nearest fixture although it visits the leaves in no      *)
(* order of distance and shortens the ray as it goes (the laser's callback).*)
SearchesComplete ==
  LET t == broadPhase.tree
      Found(box) == {i \in Proxies : Overlap(t.node[i].box, box)}
      length == Max(Places) - Min(Places) + 1
  IN \A x \in Places :
       /\ Query(t, Segment(x, 1)) = Found(Segment(x, 1))
       /\ LET ahead == {f \in Fixtures : Exists(f) /\ pos[BodyOf[f]] + Lo[f] >= x}
              hits == [i \in {proxy[f] : f \in ahead} |->
                         pos[BodyOf[OwnerOf(i)]] + Lo[OwnerOf(i)] - x]
          IN RayCast(t, x, length, hits)
               = Min({length} \cup Range(hits))

(* Whenever the fat boxes of two fixtures that should collide overlap,      *)
(* there is a contact for them or one of them is still buffered: no pair is *)
(* missed, whoever moved, was created, destroyed or rebuilt in which order, *)
(* although a proxy inside its fat box is not looked at again.              *)
NoPairMissed ==
  \A f, g \in {h \in Fixtures : Exists(h)} :
    (ShouldCollide(f, g) /\ TestOverlap(broadPhase, proxy[f], proxy[g])) =>
      \/ \E c \in Range(contacts) : Pair(c) = {f, g}
      \/ {proxy[f], proxy[g]} \cap broadPhase.move # {}

(* After Collide, two fixtures of which one belongs to a body that was awake *)
(* are reported as touching exactly if their shapes touch, unless one was    *)
(* moved since the last step (its pair is looked for only after the solver). *)
(* It rests on the fat boxes, the buffer and the contact list together.      *)
AwakeContactsCurrent ==
  phase = "collided" =>
    \A f, g \in {h \in Fixtures : Exists(h)} :
      /\ ShouldCollide(f, g)
      /\ {BodyOf[f], BodyOf[g]} \cap began.awake # {}
      /\ {proxy[f], proxy[g]} \cap broadPhase.move = {}
      => (Touch(f, pos[BodyOf[f]], g, pos[BodyOf[g]])
            <=> \E c \in Range(contacts) : Pair(c) = {f, g} /\ c.touching)

(* The contact was given up in this step: no time of impact was found for   *)
(* it, or it came back too often.                                           *)
GivenUp(m) == m \in toi.missed \/ toi.count[m] > MaxSubSteps

(* With continuous physics, a body passes over a whole step through a       *)
(* fixture of a static body, however thin, only if the loop gave up their   *)
(* contact in that step: it is never that the broad phase had not found the *)
(* contact, which may be new in this step, or that another impact of the    *)
(* body was handled first.                                                  *)
NoTunnelling ==
  [][(phase = "solved" /\ phase' = "idle" /\ continuousPhysics) =>
       \A f, g \in {h \in Fixtures : Exists(h)} \ IsSensor :
         LET b == BodyOf[f]
             y == pos[BodyOf[g]]
         IN (b \in Moving /\ BodyOf[g] \in Static /\ ~ GivenUp(<<f, g>>)) =>
              /\ began.pos[b] + Hi[f] <= y + Lo[g] => pos[b] + Lo[f] < y + Hi[g]
              /\ began.pos[b] + Lo[f] >= y + Hi[g] => pos[b] + Hi[f] > y + Lo[g]]_vars

Touching(b) == {Pair(c) : c \in {d \in Range(contacts) :
                   b \in BodiesOf(d) /\ Solid(d) /\ d.touching}}

(* A body that stays asleep keeps the contacts it rests on: whoever takes    *)
(* one away - a deletion, a rebuilt layer, a neighbour that leaves - wakes   *)
(* it.  (No gravity here, but a body pushed against a wall is the same.)     *)
SleepersKeepTheirContacts ==
  [][\A b \in (live \cap live' \cap Moving) \ (bodies.awake \cup bodies'.awake) :
       Touching(b) = Touching(b)']_vars
=============================================================================
