------------------------- MODULE FlatlandWorldProofs -------------------------
(***************************************************************************)
(* What holds of FlatlandWorld for any number of models, names, files,     *)
(* layers and contacts: the types, the registry of models, that the node   *)
(* implements ModelRegistry, and what the plugins know of the contacts.    *)
(* The last part is about the interactive marker manager on its own, as    *)
(* MarkerDrag drives it with a client, for any number of names and any     *)
(* length of the callback queue.                                           *)
(***************************************************************************)
EXTENDS FlatlandWorld, FiniteSetTheorems, TLAPS

----------------------------------------------------------------------------
(* Types.                                                                  *)

(* The end of some touching contacts, heard by any set of plugins, keeps   *)
(* the types of what is recorded of contacts.                              *)
LEMMA EndContactsTypeOK ==
  ASSUME ContactTypeOK, NEW C \in SUBSET touching, NEW ps, EndContacts(C, ps)
  PROVE  ContactTypeOK'
<1> DEFINE mine(p) == {c \in C : FilterContact(c, p)}
<1>1. \A p \in Ptrs : Cardinality(mine(p)) \in Nat
  <2> TAKE p \in Ptrs
  <2>1. mine(p) \in SUBSET touching
    OBVIOUS
  <2>2. IsFiniteSet(mine(p))
    BY <2>1, FS_Subset DEF ContactTypeOK
  <2> QED
    BY <2>2, FS_CardinalityType
<1>2. touching' \subseteq Contact /\ IsFiniteSet(touching') /\ solver' \subseteq Contact
  <2>1. touching \ C \in SUBSET touching
    OBVIOUS
  <2>2. IsFiniteSet(touching \ C)
    BY <2>1, FS_Subset DEF ContactTypeOK
  <2> QED
    BY <2>2 DEF ContactTypeOK, EndContacts
<1>3. states' \in [Ptrs -> SUBSET Contact] /\ solved' \in [Ptrs -> SUBSET Contact]
  BY DEF ContactTypeOK, EndContacts
<1>4. collisions' \in [Ptrs -> Int]
  <2>1. collisions' = [p \in Ptrs |-> IF <<p, "BoolSensor">> \in ps
                                      THEN collisions[p] - Cardinality(mine(p)) ELSE 0]
    BY DEF EndContacts
  <2>2. \A p \in Ptrs : collisions[p] - Cardinality(mine(p)) \in Int
    BY <1>1 DEF ContactTypeOK
  <2> QED
    BY <2>1, <2>2
<1>5. hit' \in [Ptrs -> BOOLEAN] /\ owed' \in [Ptrs -> SUBSET BodyNames] /\ out' = out
  BY DEF ContactTypeOK, EndContacts
<1> QED
  BY <1>2, <1>3, <1>4, <1>5 DEF ContactTypeOK

(* So does the destruction of the world.                                   *)
LEMMA DestroyWorldTypeOK ==
  ASSUME TypeOK, DestroyWorld
  PROVE  MarkerTypeOK' /\ pc' \in Pcs /\ WorldTypeOK' /\ ContactTypeOK'
<1>1. IsFiniteSet({})
  BY FS_EmptySet
<1>2. MarkerTypeOK' /\ pc' \in Pcs
  BY DEF TypeOK, MarkerTypeOK, DestroyWorld, Pcs
<1>3. WorldTypeOK'
  BY <1>1 DEF TypeOK, WorldTypeOK, DestroyWorld
<1>4. ContactTypeOK'
  BY <1>1 DEF TypeOK, ContactTypeOK, DestroyWorld
<1> QED
  BY <1>2, <1>3, <1>4

(* Deleting a model other than the one being loaded, or that one when the  *)
(* load is over, keeps the types.                                          *)
LEMMA DropModelTypeOK ==
  ASSUME TypeOK, NEW p \in Ptrs, DropModel(p)
  PROVE  /\ nameOf' \in [Ptrs -> Names \cup {NoName}]
         /\ fileOf' \in [Ptrs -> Files \cup {NoFile}]
         /\ bodied' \subseteq Ptrs
         /\ plugins' \subseteq Ptrs \X Types
         /\ ContactTypeOK'
<1>1. ContactTypeOK'
  BY EndContactsTypeOK DEF TypeOK, DropModel
<1> QED
  BY <1>1 DEF TypeOK, WorldTypeOK, DropModel

(* The bodies of a model that a contact names are bodies of models.        *)
LEMMA OwnBodiesType ==
  ASSUME NEW c \in Contact, NEW p \in Ptrs
  PROVE  OwnBodies(c, p) \subseteq BodyNames
  BY WorldAssumption DEF OwnBodies, Contact, Body

(* The contact callbacks of b2World::Step keep the types.                  *)
LEMMA ContactStepTypeOK ==
  ASSUME TypeOK, NEW c \in Contact, BeginContact(c) \/ EndContact(c) \/ PostSolve(c)
  PROVE  TypeOK'
<1>1. CASE BeginContact(c)
  <2>1. IsFiniteSet(touching \cup {c})
    BY FS_AddElement DEF TypeOK, ContactTypeOK
  <2>2. touching' \subseteq Contact /\ IsFiniteSet(touching')
    BY <1>1, <2>1 DEF BeginContact, TypeOK, ContactTypeOK
  <2>3. states' \in [Ptrs -> SUBSET Contact]
    BY <1>1 DEF BeginContact, TypeOK, ContactTypeOK
  <2>4. collisions' \in [Ptrs -> Int] /\ hit' \in [Ptrs -> BOOLEAN]
    BY <1>1 DEF BeginContact, TypeOK, ContactTypeOK, FilterContact, Hears
  <2>5. owed' \in [Ptrs -> SUBSET BodyNames]
    BY <1>1, OwnBodiesType DEF BeginContact, TypeOK, ContactTypeOK
  <2>6. ContactTypeOK'
    BY <1>1, <2>2, <2>3, <2>4, <2>5 DEF BeginContact, TypeOK, ContactTypeOK
  <2> QED
    BY <1>1, <2>6 DEF BeginContact, TypeOK, WorldTypeOK, MarkerTypeOK, worldVars, markerVars
<1>2. CASE EndContact(c)
  <2>1. ContactTypeOK'
    BY <1>2, EndContactsTypeOK DEF EndContact, TypeOK
  <2> QED
    BY <1>2, <2>1 DEF EndContact, TypeOK, WorldTypeOK, MarkerTypeOK, worldVars, markerVars
<1>3. CASE PostSolve(c)
  <2>1. solved' \in [Ptrs -> SUBSET Contact] /\ solver' \subseteq Contact
    BY <1>3 DEF PostSolve, TypeOK, ContactTypeOK
  <2>2. ContactTypeOK'
    BY <1>3, <2>1 DEF PostSolve, TypeOK, ContactTypeOK
  <2> QED
    BY <1>3, <2>2 DEF PostSolve, TypeOK, WorldTypeOK, MarkerTypeOK, worldVars, markerVars
<1> QED
  BY <1>1, <1>2, <1>3

(* The steps of a load keep the types.                                     *)
LEMMA LoadTypeOK ==
  ASSUME TypeOK,
         \/ \E name \in Names, file \in Files : LoadModel(name, file)
         \/ LoadModelPlugin
         \/ LoadModelDone
  PROVE  TypeOK'
<1>1. ASSUME NEW name \in Names, NEW file \in Files, LoadModel(name, file)
      PROVE  TypeOK'
  <2> DEFINE odd == name \notin Live /\ file \in OddFiles
  <2>1. CASE Uncaught(pc, odd)
    BY <2>1, DestroyWorldTypeOK DEF TypeOK, Uncaught
  <2>2. CASE Caught(pc, odd, name) /\ Rejected(name, file) /\ UNCHANGED <<load, plugins, contactVars>>
    <3>1. /\ nameOf' \in [Ptrs -> Names \cup {NoName}]
          /\ fileOf' \in [Ptrs -> Files \cup {NoFile}]
          /\ bodied' \subseteq Ptrs
      BY <2>2 DEF Rejected, Free, TypeOK, WorldTypeOK
    <3>2. load # NoLoad => nameOf'[load.ptr] \in Names
      BY <1>1 DEF LoadModel
    <3>3. WorldTypeOK'
      BY <2>2, <3>1, <3>2 DEF Caught, TypeOK, WorldTypeOK
    <3>4. reply' \in Replies
      BY <2>2 DEF Caught, TypeOK, Replies, Reply
    <3> QED
      BY <2>2, <3>3, <3>4 DEF Caught, TypeOK, ContactTypeOK, MarkerTypeOK, contactVars,
                              sensorVars, markerVars
  <2>3. CASE NewModel(name, file, pc) /\ pc \in Callers
             /\ UNCHANGED <<pc, contactVars, reply, markerVars>>
    <3>1. PluginsOf[file] \in Seq(Entry)
      BY WorldAssumption
    <3>2. PICK p \in Free : /\ nameOf' = [nameOf EXCEPT ![p] = name]
                            /\ fileOf' = [fileOf EXCEPT ![p] = file]
                            /\ bodied' = bodied \cup {p}
                            /\ load' = [ptr |-> p, todo |-> PluginsOf[file], caller |-> pc]
                            /\ UNCHANGED <<models, plugins, service_paused_>>
      BY <2>3 DEF NewModel
    <3>3. p \in Ptrs
      BY DEF Free
    <3>4. WorldTypeOK'
      BY <2>3, <3>1, <3>2, <3>3 DEF TypeOK, WorldTypeOK, Loads
    <3> QED
      BY <2>3, <3>4 DEF TypeOK, ContactTypeOK, MarkerTypeOK, contactVars, sensorVars, markerVars
  <2> QED
    BY <1>1, <2>1, <2>2, <2>3 DEF LoadModel
<1>2. CASE LoadModelPlugin
  <2> DEFINE p == load.ptr
             e == Head(load.todo)
  <2>1. /\ load \in Loads /\ p \in Ptrs /\ nameOf[p] \in Names /\ e \in Entry
        /\ Tail(load.todo) \in Seq(Entry)
    BY <1>2 DEF LoadModelPlugin, TypeOK, WorldTypeOK, Loads
  <2>2. CASE Caught(load.caller, FALSE, nameOf[p]) /\ DropModel(p) /\ load' = NoLoad
    <3>1. ContactTypeOK' /\ WorldTypeOK'
      BY <2>1, <2>2, DropModelTypeOK DEF Caught, TypeOK, WorldTypeOK
    <3>2. reply' \in Replies
      BY <2>1, <2>2 DEF Caught, TypeOK, Reply, Replies
    <3> QED
      BY <2>2, <3>1, <3>2 DEF Caught, TypeOK, MarkerTypeOK, markerVars
  <2>3. CASE Uncaught(load.caller, PluginEscapes(p, e))
    BY <2>3, DestroyWorldTypeOK DEF TypeOK, Uncaught
  <2>5. CASE Caught(load.caller, TRUE, nameOf[p]) /\ load' = NoLoad
             /\ UNCHANGED <<nameOf, fileOf, bodied, plugins, contactVars>>
    <3>1. WorldTypeOK'
      BY <2>5 DEF Caught, TypeOK, WorldTypeOK
    <3>2. reply' \in Replies
      BY <2>1, <2>5 DEF Caught, TypeOK, Reply, Replies
    <3> QED
      BY <2>5, <3>1, <3>2 DEF Caught, TypeOK, ContactTypeOK, MarkerTypeOK, contactVars,
                              sensorVars, markerVars
  <2>4. CASE /\ ~PluginThrows(p, e) /\ ~PluginEscapes(p, e)
             /\ plugins' = IF e.enabled THEN plugins \cup {<<p, e.type>>} ELSE plugins
             /\ load' = [load EXCEPT !.todo = Tail(@)]
             /\ UNCHANGED <<pc, nameOf, fileOf, bodied, models, service_paused_,
                            contactVars, reply, markerVars>>
    <3>1. e.enabled => e.type \in Types
      BY <2>1, <2>4 DEF PluginThrows, PluginEscapes, Entry
    <3>2. load' \in Loads /\ load'.ptr = p
      BY <2>1, <2>4 DEF Loads
    <3>3. WorldTypeOK'
      BY <2>1, <2>4, <3>1, <3>2 DEF TypeOK, WorldTypeOK
    <3> QED
      BY <2>4, <3>3 DEF TypeOK, ContactTypeOK, MarkerTypeOK, contactVars, sensorVars, markerVars
  <2> QED
    BY <1>2, <2>2, <2>3, <2>4, <2>5 DEF LoadModelPlugin
<1>3. CASE LoadModelDone
  <2>1. load \in Loads /\ load.ptr \in Ptrs /\ nameOf[load.ptr] \in Names
    BY <1>3 DEF LoadModelDone, TypeOK, WorldTypeOK, Loads
  <2>2. WorldTypeOK' /\ MarkerTypeOK'
    BY <1>3, <2>1 DEF LoadModelDone, TypeOK, WorldTypeOK, MarkerTypeOK, CreateInteractiveMarker
  <2>3. reply' \in Replies
    BY <1>3, <2>1 DEF LoadModelDone, TypeOK, Reply, Replies
  <2> QED
    BY <1>3, <2>2, <2>3 DEF LoadModelDone, TypeOK, ContactTypeOK, contactVars, sensorVars
<1> QED
  BY <1>1, <1>2, <1>3

(* A deletion by name keeps the types.                                     *)
LEMMA DeleteModelTypeOK ==
  ASSUME TypeOK, load = NoLoad, NEW name \in Names, DeleteModel(name)
  PROVE  MarkerTypeOK' /\ pc' \in Pcs /\ WorldTypeOK' /\ ContactTypeOK'
<1>1. PICK p \in models : /\ DropModel(p)
                          /\ models' = models \ {p}
                          /\ DeleteInteractiveMarker(name)
                          /\ UNCHANGED <<pc, load, service_paused_>>
  BY DEF DeleteModel
<1>2. p \in Ptrs
  BY DEF TypeOK, WorldTypeOK
<1>3. WorldTypeOK' /\ ContactTypeOK'
  BY <1>1, <1>2, DropModelTypeOK DEF TypeOK, WorldTypeOK
<1> QED
  BY <1>1, <1>3 DEF TypeOK, MarkerTypeOK, DeleteInteractiveMarker

(* The steps of the loop keep the types.                                   *)
LEMMA LoopTypeOK ==
  ASSUME TypeOK,
         \/ MakeWorldDone \/ MakeWorldThrows
         \/ BeforePhysicsStep \/ UpdatePaused
         \/ \E name \in Names : WorldPluginDelete(name)
         \/ \E layer \in Layers : WorldPluginRebuild(layer)
         \/ PhysicsStep \/ AfterPhysicsStep \/ UpdateMarkers \/ SpinDone
  PROVE  TypeOK'
<1> USE DEF TypeOK, Pcs
<1>1. CASE MakeWorldDone \/ PhysicsStep
  BY <1>1 DEF MakeWorldDone, PhysicsStep, WorldTypeOK, ContactTypeOK, MarkerTypeOK,
              worldVars, contactVars, sensorVars, markerVars
<1>2. CASE MakeWorldThrows
  BY <1>2, DestroyWorldTypeOK DEF MakeWorldThrows
<1>3. CASE BeforePhysicsStep
  <2>1. ContactTypeOK'
    BY <1>3 DEF BeforePhysicsStep, ContactTypeOK
  <2> QED
    BY <1>3, <2>1 DEF BeforePhysicsStep, WorldTypeOK, MarkerTypeOK, worldVars, markerVars
<1>4. CASE UpdatePaused
  <2>1. ContactTypeOK'
    BY <1>4 DEF UpdatePaused, ContactTypeOK
  <2> QED
    BY <1>4, <2>1 DEF UpdatePaused, WorldTypeOK, MarkerTypeOK, worldVars, markerVars
<1>5. ASSUME NEW name \in Names, WorldPluginDelete(name)
      PROVE  TypeOK'
  BY <1>5, DeleteModelTypeOK DEF WorldPluginDelete
<1>6. ASSUME NEW layer \in Layers, WorldPluginRebuild(layer)
      PROVE  TypeOK'
  <2>1. ContactTypeOK'
    BY <1>6, EndContactsTypeOK DEF WorldPluginRebuild
  <2> QED
    BY <1>6, <2>1 DEF WorldPluginRebuild, WorldTypeOK, MarkerTypeOK, worldVars, markerVars
<1>7. CASE AfterPhysicsStep
  <2>1. ContactTypeOK'
    BY <1>7 DEF AfterPhysicsStep, ContactTypeOK
  <2> QED
    BY <1>7, <2>1 DEF AfterPhysicsStep, WorldTypeOK, MarkerTypeOK, worldVars, markerVars
<1>8. CASE UpdateMarkers
  <2>1. MarkerTypeOK'
    BY <1>8 DEF UpdateMarkers, Update, LaterAges, Ages, MarkerTypeOK
  <2> QED
    BY <1>8, <2>1 DEF UpdateMarkers, WorldTypeOK, ContactTypeOK, worldVars, contactVars, sensorVars
<1>9. CASE SpinDone
  <2>1. reply' \in Replies
    BY <1>9 DEF SpinDone, Replies
  <2> QED
    BY <1>9, <2>1, DestroyWorldTypeOK
       DEF SpinDone, WorldTypeOK, ContactTypeOK, MarkerTypeOK,
           worldVars, contactVars, sensorVars, markerVars
<1> QED
  BY <1>1, <1>2, <1>3, <1>4, <1>5, <1>6, <1>7, <1>8, <1>9

(* The callbacks of ros::spinOnce() keep the types.                        *)
LEMMA CallbackTypeOK ==
  ASSUME TypeOK,
         \/ \E name \in Names : \/ DeleteService(name) \/ MoveService(name)
                                \/ MenuDelete(name) \/ MarkerFeedback(name)
         \/ PauseService \/ ResumeService \/ TogglePauseService
  PROVE  TypeOK'
<1> USE DEF TypeOK
<1>1. ASSUME NEW name \in Names, DeleteService(name)
      PROVE  TypeOK'
  <2>1. reply' \in Replies
    BY <1>1 DEF DeleteService, Replies, Reply
  <2> QED
    BY <1>1, <2>1, DeleteModelTypeOK
       DEF DeleteService, WorldTypeOK, ContactTypeOK, MarkerTypeOK,
           worldVars, contactVars, sensorVars, markerVars
<1>2. ASSUME NEW name \in Names, MoveService(name)
      PROVE  TypeOK'
  <2>1. reply' \in Replies
    BY <1>2 DEF MoveService, Replies, Reply
  <2> QED
    BY <1>2, <2>1 DEF MoveService, WorldTypeOK, ContactTypeOK, MarkerTypeOK,
                      worldVars, contactVars, sensorVars, markerVars
<1>3. ASSUME NEW name \in Names, MenuDelete(name)
      PROVE  TypeOK'
  BY <1>3, DeleteModelTypeOK DEF MenuDelete
<1>4. ASSUME NEW name \in Names, MarkerFeedback(name)
      PROVE  TypeOK'
  <2>1. MarkerTypeOK'
    BY <1>4 DEF MarkerFeedback, MarkerTypeOK, ProcessMouseDownFeedback,
                ProcessPoseUpdateFeedback, ProcessMouseUpFeedback, Ages
  <2> QED
    BY <1>4, <2>1 DEF MarkerFeedback, WorldTypeOK, ContactTypeOK, worldVars, contactVars, sensorVars
<1>5. CASE PauseService \/ ResumeService \/ TogglePauseService
  <2>1. WorldTypeOK'
    BY <1>5 DEF PauseService, ResumeService, TogglePauseService, SetPaused, WorldTypeOK
  <2> QED
    BY <1>5, <2>1 DEF PauseService, ResumeService, TogglePauseService, SetPaused, ContactTypeOK,
                      MarkerTypeOK, contactVars, sensorVars, markerVars
<1> QED
  BY <1>1, <1>2, <1>3, <1>4, <1>5

(* Every variable keeps its type: SimulationManager's loop, the services,  *)
(* the markers and the plugins never leave the states the model describes. *)
THEOREM TypeCorrect == Spec => []TypeOK
<1>1. Init => TypeOK
  <2> SUFFICES ASSUME Init PROVE TypeOK
    OBVIOUS
  <2>1. MarkerTypeOK
    BY DEF Init, MarkerInit, MarkerTypeOK, Ages
  <2>3. WorldTypeOK
    BY DEF Init, WorldTypeOK
  <2>4. ContactTypeOK
    <3>1. IsFiniteSet(touching)
      BY FS_EmptySet DEF Init
    <3> QED
      BY <3>1 DEF Init, ContactTypeOK
  <2>5. pc \in Pcs /\ reply \in Replies
    BY DEF Init, Pcs, Replies
  <2> QED
    BY <2>1, <2>3, <2>4, <2>5 DEF TypeOK
<1>2. TypeOK /\ [Next]_vars => TypeOK'
  <2> SUFFICES ASSUME TypeOK, [Next]_vars
               PROVE  TypeOK'
    OBVIOUS
  <2>1. CASE UNCHANGED vars
    BY <2>1 DEF TypeOK, WorldTypeOK, ContactTypeOK, MarkerTypeOK, vars,
                worldVars, contactVars, sensorVars, markerVars
  <2>2. CASE Next
    BY <2>2, <2>1, LoadTypeOK, ContactStepTypeOK, LoopTypeOK, CallbackTypeOK DEF Next, Terminated
  <2> QED
    BY <2>1, <2>2
<1> QED
  BY <1>1, <1>2, PTL DEF Spec

----------------------------------------------------------------------------
(* The registry: the models of the world, their names, their plugins and   *)
(* their markers stay consistent.                                          *)
(*                                                                         *)
(* None of the three invariants is inductive alone.  A deletion goes by    *)
(* name, so that it takes the marker of no other model only because names  *)
(* are unique; a failed load frees the right object only because that one  *)
(* is not in the world yet; and a new model gets a fresh address only      *)
(* because the free addresses are those that nothing refers to.            *)

registryVars == <<nameOf, bodied, models, load, plugins, markers>>

\* The model being loaded is not in the world.
LoadApart == load # NoLoad => load.ptr \notin models

\* No plugin and no body is at a free address, and the models that are in use
\* have bodies.
Allocated ==
  /\ \A q \in plugins : q[1] \notin Free
  /\ models \cup Loading \subseteq bodied
  /\ bodied \cap Free = {}

RegistryInv ==
  /\ LoadApart
  /\ NamesUnique
  /\ Allocated
  /\ MarkersMatchModels

(* Physics, contacts, pauses, moves and marker feedback do not touch what  *)
(* the invariant is about.                                                 *)
LEMMA RegistryUnchanged ==
  ASSUME RegistryInv, UNCHANGED registryVars
  PROVE  RegistryInv'
  BY DEF registryVars, RegistryInv, LoadApart, NamesUnique, Allocated,
         MarkersMatchModels, Loading, Free, Live

(* An empty world is consistent.                                           *)
LEMMA RegistryDestroyed ==
  ASSUME DestroyWorld
  PROVE  RegistryInv'
  BY DEF DestroyWorld, RegistryInv, LoadApart, NamesUnique, Allocated,
         MarkersMatchModels, Loading, Free, Live

(* LoadModel up to the plugins: the new model's name is no one else's.     *)
LEMMA RegistryNewModel ==
  ASSUME TypeOK, RegistryInv, load = NoLoad, NEW name \in Names, NEW file \in Files,
         NEW caller \in Callers, name \notin Live, NewModel(name, file, caller),
         UNCHANGED markers
  PROVE  RegistryInv'
<1>1. PICK p \in Free :
        /\ nameOf' = [nameOf EXCEPT ![p] = name]
        /\ bodied' = bodied \cup {p}
        /\ load' = [ptr |-> p, todo |-> PluginsOf[file], caller |-> caller]
        /\ UNCHANGED <<models, plugins>>
  BY DEF NewModel
<1>2. p \in Ptrs /\ p \notin models /\ Loading = {} /\ models \subseteq Ptrs
  BY DEF Free, Loading, RegistryInv, Allocated, TypeOK, WorldTypeOK
<1>3. load' # NoLoad /\ load'.ptr = p
  <2>1. PluginsOf[file] \in Seq(Entry)
    BY WorldAssumption
  <2> QED
    BY <1>1, <1>2, <2>1, WorldAssumption
<1>4. Loading' = {p}
  BY <1>3 DEF Loading
<1>5. \A q \in Ptrs : nameOf'[q] = IF q = p THEN name ELSE nameOf[q]
  BY <1>1, <1>2 DEF TypeOK, WorldTypeOK
<1>6. LoadApart'
  BY <1>1, <1>2, <1>3 DEF LoadApart
<1>7. NamesUnique'
  BY <1>1, <1>2, <1>4, <1>5 DEF NamesUnique, RegistryInv, Live
<1>8. Allocated'
  <2>1. Free' = Free \ {p}
    BY <1>2, <1>5, WorldAssumption DEF Free
  <2> QED
    BY <1>1, <1>4, <2>1 DEF Allocated, RegistryInv
<1>9. MarkersMatchModels'
  BY <1>1, <1>2, <1>5 DEF MarkersMatchModels, RegistryInv, Live
<1> QED
  BY <1>6, <1>7, <1>8, <1>9 DEF RegistryInv

(* A model that MakeModel leaves is not in the world; its name is of no    *)
(* consequence.                                                            *)
LEMMA RegistryRejected ==
  ASSUME TypeOK, RegistryInv, load = NoLoad, NEW name \in Names, NEW file \in Files,
         Rejected(name, file), UNCHANGED <<models, load, plugins, markers>>
  PROVE  RegistryInv'
<1>1. CASE UNCHANGED <<nameOf, bodied>>
  BY <1>1, RegistryUnchanged DEF registryVars
<1>2. CASE \E p \in Free : /\ nameOf' = [nameOf EXCEPT ![p] = name]
                           /\ bodied' \in {bodied, bodied \cup {p}}
  <2>1. PICK p \in Free : /\ nameOf' = [nameOf EXCEPT ![p] = name]
                         /\ bodied' \in {bodied, bodied \cup {p}}
    BY <1>2
  <2>2. p \in Ptrs /\ p \notin models /\ Loading = {} /\ Loading' = {} /\ models \subseteq Ptrs
    BY <2>1 DEF Free, Loading, RegistryInv, Allocated, TypeOK, WorldTypeOK
  <2>3. \A q \in Ptrs : nameOf'[q] = IF q = p THEN name ELSE nameOf[q]
    BY <2>1, <2>2 DEF TypeOK, WorldTypeOK
  <2>4. Free' = Free \ {p}
    BY <2>2, <2>3, WorldAssumption DEF Free
  <2>5. NamesUnique' /\ MarkersMatchModels'
    BY <2>2, <2>3 DEF NamesUnique, MarkersMatchModels, RegistryInv, Live
  <2>6. Allocated'
    BY <2>1, <2>2, <2>4 DEF Allocated, RegistryInv
  <2> QED
    BY <2>5, <2>6 DEF RegistryInv, LoadApart
<1> QED
  BY <1>1, <1>2 DEF Rejected

(* A load that yaml-cpp ends leaves the model where it is, out of the      *)
(* world.                                                                  *)
LEMMA RegistryEscapes ==
  ASSUME RegistryInv, load' = NoLoad,
         UNCHANGED <<nameOf, bodied, models, plugins, markers>>
  PROVE  RegistryInv'
<1>1. Loading' = {} /\ Free' = Free /\ Live' = Live
  BY DEF Loading, Free, Live
<1> QED
  BY <1>1 DEF RegistryInv, LoadApart, NamesUnique, Allocated, MarkersMatchModels

(* A load that fails frees the model it had built, and nothing else.       *)
LEMMA RegistryLoadFails ==
  ASSUME TypeOK, RegistryInv, load # NoLoad, DropModel(load.ptr), load' = NoLoad,
         UNCHANGED <<models, markers>>
  PROVE  RegistryInv'
<1> DEFINE p == load.ptr
<1>1. p \in Ptrs /\ p \notin models /\ Loading = {p} /\ Loading' = {} /\ models \subseteq Ptrs
  BY DEF Loading, RegistryInv, LoadApart, TypeOK, WorldTypeOK, Loads
<1>2. \A q \in Ptrs : nameOf'[q] = IF q = p THEN NoName ELSE nameOf[q]
  BY <1>1 DEF DropModel, TypeOK, WorldTypeOK
<1>3. plugins' = plugins \ Plugins(p)
  BY DEF DropModel
<1>4. NamesUnique'
  BY <1>1, <1>2 DEF NamesUnique, RegistryInv
<1>5. Allocated'
  <2>1. Free' = Free \cup {p} /\ bodied' = bodied \ {p}
    BY <1>1, <1>2 DEF Free, DropModel
  <2> QED
    BY <1>1, <1>3, <2>1 DEF Allocated, RegistryInv, Plugins
<1>6. MarkersMatchModels'
  BY <1>1, <1>2 DEF MarkersMatchModels, RegistryInv, Live
<1> QED
  BY <1>4, <1>5, <1>6 DEF RegistryInv, LoadApart

(* A deletion by name removes one model, its plugins and its marker.       *)
LEMMA RegistryDelete ==
  ASSUME TypeOK, RegistryInv, load = NoLoad, NEW name \in Names, DeleteModel(name)
  PROVE  RegistryInv'
<1>1. PICK p \in models : /\ nameOf[p] = name
                          /\ DropModel(p)
                          /\ models' = models \ {p}
                          /\ markers' = markers \ {name}
                          /\ UNCHANGED load
  BY DEF DeleteModel, DeleteInteractiveMarker
<1>2. p \in Ptrs /\ Loading = {} /\ Loading' = {} /\ models \subseteq Ptrs
  BY <1>1 DEF Loading, TypeOK, WorldTypeOK
<1>3. \A q \in Ptrs : nameOf'[q] = IF q = p THEN NoName ELSE nameOf[q]
  BY <1>1, <1>2 DEF DropModel, TypeOK, WorldTypeOK
<1>4. plugins' = plugins \ Plugins(p)
  BY <1>1 DEF DropModel
<1>5. NamesUnique'
  BY <1>1, <1>2, <1>3 DEF NamesUnique, RegistryInv
<1>6. Allocated'
  <2>1. Free' = Free \cup {p} /\ bodied' = bodied \ {p}
    BY <1>1, <1>2, <1>3 DEF Free, DropModel
  <2> QED
    BY <1>1, <1>2, <1>4, <2>1 DEF Allocated, RegistryInv, Plugins
<1>7. Live' = Live \ {name}
  <2>1. \A q \in models : q # p => nameOf[q] # name
    BY <1>1, <1>2 DEF NamesUnique, RegistryInv
  <2> QED
    BY <1>1, <1>2, <1>3, <2>1 DEF Live
<1>8. MarkersMatchModels'
  BY <1>1, <1>7 DEF MarkersMatchModels, RegistryInv
<1> QED
  BY <1>1, <1>5, <1>6, <1>8 DEF RegistryInv, LoadApart

(* One plugin further, the same model is being loaded.                     *)
LEMMA LoadGoesOn ==
  ASSUME TypeOK, load # NoLoad, load.todo # <<>>, load' = [load EXCEPT !.todo = Tail(load.todo)]
  PROVE  load' # NoLoad /\ load'.ptr = load.ptr /\ load'.todo = Tail(load.todo) /\ Loading' = Loading
<1>1. load \in Loads
  BY DEF TypeOK, WorldTypeOK
<1>2. Tail(load.todo) \in Seq(Entry)
  BY <1>1 DEF Loads
<1>3. load' \in Loads /\ load'.ptr = load.ptr /\ load'.todo = Tail(load.todo)
  BY <1>1, <1>2 DEF Loads
<1> QED
  BY <1>3, WorldAssumption DEF Loads, Loading

(* One more plugin is loaded.                                              *)
LEMMA RegistryPluginLoaded ==
  ASSUME TypeOK, RegistryInv, load # NoLoad, load.todo # <<>>, NEW e,
         plugins' = IF e.enabled THEN plugins \cup {<<load.ptr, e.type>>} ELSE plugins,
         load' = [load EXCEPT !.todo = Tail(load.todo)],
         UNCHANGED <<nameOf, bodied, models, markers>>
  PROVE  RegistryInv'
<1>1. load'.ptr = load.ptr /\ Loading' = Loading
  BY LoadGoesOn
<1>2. Free' = Free /\ Live' = Live
  BY DEF Free, Live
<1>3. Allocated'
  BY <1>1, <1>2 DEF Allocated, RegistryInv, Loading
<1> QED
  BY <1>1, <1>2, <1>3 DEF RegistryInv, LoadApart, NamesUnique, MarkersMatchModels

(* The loaded model enters the world.                                      *)
LEMMA RegistryLoaded ==
  ASSUME TypeOK, RegistryInv, LoadModelDone
  PROVE  RegistryInv'
<1>1. load \in Loads /\ load.ptr \in Ptrs
  BY DEF LoadModelDone, TypeOK, WorldTypeOK, Loads
<1>2. /\ models' \cup Loading' = models \cup Loading
      /\ models' = models \cup {load.ptr} /\ Loading' = {} /\ Loading = {load.ptr}
      /\ markers' = markers \cup {nameOf[load.ptr]}
      /\ UNCHANGED <<nameOf, bodied, plugins>> /\ load' = NoLoad
  BY DEF LoadModelDone, Loading, CreateInteractiveMarker
<1>3. NamesUnique' /\ Allocated'
  BY <1>2 DEF NamesUnique, Allocated, RegistryInv, Free
<1>4. MarkersMatchModels'
  BY <1>2 DEF MarkersMatchModels, RegistryInv, Live
<1> QED
  BY <1>2, <1>3, <1>4 DEF RegistryInv, LoadApart

(* Every step keeps the registry consistent.                               *)
LEMMA RegistryStep ==
  ASSUME TypeOK, RegistryInv, [Next]_vars
  PROVE  RegistryInv'
<1>1. ASSUME NEW name \in Names, NEW file \in Files, LoadModel(name, file)
      PROVE  RegistryInv'
  <2> DEFINE odd == name \notin Live /\ file \in OddFiles
  <2>1. CASE Caught(pc, odd, name) /\ Rejected(name, file) /\ UNCHANGED <<load, plugins, contactVars>>
    BY <1>1, <2>1, RegistryRejected DEF LoadModel, Caught, markerVars
  <2>2. CASE Uncaught(pc, odd)
    BY <2>2, RegistryDestroyed DEF Uncaught
  <2>3. CASE ~LoadThrows(name, file) /\ NewModel(name, file, pc) /\ UNCHANGED markerVars
    BY <1>1, <2>3, RegistryNewModel DEF LoadModel, LoadThrows, markerVars
  <2> QED
    BY <1>1, <2>1, <2>2, <2>3 DEF LoadModel
<1>2. CASE LoadModelPlugin
  <2> DEFINE e == Head(load.todo)
  <2>1. CASE Caught(load.caller, FALSE, nameOf[load.ptr]) /\ DropModel(load.ptr) /\ load' = NoLoad
    BY <1>2, <2>1, RegistryLoadFails DEF LoadModelPlugin, Caught, markerVars
  <2>2. CASE Uncaught(load.caller, PluginEscapes(load.ptr, e))
    BY <2>2, RegistryDestroyed DEF Uncaught
  <2>4. CASE Caught(load.caller, TRUE, nameOf[load.ptr]) /\ load' = NoLoad
             /\ UNCHANGED <<nameOf, fileOf, bodied, plugins, contactVars>>
    BY <2>4, RegistryEscapes DEF Caught, markerVars
  <2>3. CASE /\ plugins' = IF e.enabled THEN plugins \cup {<<load.ptr, e.type>>} ELSE plugins
             /\ load' = [load EXCEPT !.todo = Tail(load.todo)]
             /\ UNCHANGED <<nameOf, bodied, models, markers>>
    BY <1>2, <2>3, RegistryPluginLoaded DEF LoadModelPlugin
  <2> QED
    BY <1>2, <2>1, <2>2, <2>3, <2>4 DEF LoadModelPlugin, markerVars
<1>3. CASE LoadModelDone
  BY <1>3, RegistryLoaded
<1>4. CASE MakeWorldThrows \/ SpinDone
  BY <1>4, RegistryDestroyed, RegistryUnchanged
     DEF MakeWorldThrows, SpinDone, registryVars, worldVars, markerVars
<1>5. ASSUME NEW name \in Names, WorldPluginDelete(name) \/ DeleteService(name) \/ MenuDelete(name)
      PROVE  RegistryInv'
  BY <1>5, RegistryDelete, RegistryUnchanged
     DEF WorldPluginDelete, DeleteService, MenuDelete, registryVars, worldVars, markerVars
<1>6. CASE \/ MakeWorldDone \/ BeforePhysicsStep \/ UpdatePaused \/ PhysicsStep
           \/ AfterPhysicsStep \/ Terminated \/ UNCHANGED vars
  BY <1>6, RegistryUnchanged
     DEF MakeWorldDone, BeforePhysicsStep, UpdatePaused, PhysicsStep, AfterPhysicsStep,
         Terminated, vars, registryVars, worldVars, markerVars
<1>7. CASE UpdateMarkers
  BY <1>7, RegistryUnchanged DEF UpdateMarkers, Update, registryVars, worldVars
<1>8. CASE PauseService \/ ResumeService \/ TogglePauseService
  BY <1>8, RegistryUnchanged
     DEF PauseService, ResumeService, TogglePauseService, SetPaused, registryVars, markerVars
<1>9. ASSUME NEW layer \in Layers, WorldPluginRebuild(layer)
      PROVE  RegistryInv'
  BY <1>9, RegistryUnchanged DEF WorldPluginRebuild, registryVars, worldVars, markerVars
<1>10. ASSUME NEW name \in Names, MoveService(name) \/ MarkerFeedback(name)
       PROVE  RegistryInv'
  BY <1>10, RegistryUnchanged
     DEF MoveService, MarkerFeedback, ProcessMouseDownFeedback, ProcessPoseUpdateFeedback,
         ProcessMouseUpFeedback, registryVars, worldVars, markerVars
<1>11. ASSUME NEW c \in Contact, BeginContact(c) \/ EndContact(c) \/ PostSolve(c)
       PROVE  RegistryInv'
  BY <1>11, RegistryUnchanged
     DEF BeginContact, EndContact, PostSolve, registryVars, worldVars, markerVars
<1> QED
  BY <1>1, <1>2, <1>3, <1>4, <1>5, <1>6, <1>7, <1>8, <1>9, <1>10, <1>11 DEF Next

(* The registry invariant holds of every behaviour of the node.            *)
THEOREM RegistryCorrect == Spec => []RegistryInv
<1>1. Init => RegistryInv
  BY DEF Init, MarkerInit, RegistryInv, LoadApart, NamesUnique, Allocated,
         MarkersMatchModels, Loading, Free, Live
<1>2. TypeOK /\ RegistryInv /\ [Next]_vars => RegistryInv'
  BY RegistryStep
<1> QED
  BY <1>1, <1>2, TypeCorrect, PTL DEF Spec

(* No two models, the one being loaded included, share a name, whatever    *)
(* spawns, failures and deletions came before.                             *)
THEOREM NamesAlwaysUnique == Spec => []NamesUnique
<1>1. RegistryInv => NamesUnique
  BY DEF RegistryInv
<1> QED
  BY <1>1, RegistryCorrect, PTL

(* The markers are those of the models in the world.                       *)
THEOREM MarkersAlwaysMatch == Spec => []MarkersMatchModels
<1>1. RegistryInv => MarkersMatchModels
  BY DEF RegistryInv
<1> QED
  BY <1>1, RegistryCorrect, PTL

----------------------------------------------------------------------------
(* The refinement.  Seen through the names of the models in the world and  *)
(* the responses of the services, every step of the node is a step of      *)
(* ModelRegistry or changes nothing.  The steps of a load are invisible    *)
(* until the last one, because a model under construction is not in the    *)
(* world, and the last one is a Spawn of a free name, because the name of  *)
(* the model being loaded is unique.                                       *)

(* Freeing a model that is not in the world does not change the names in   *)
(* the world; freeing the one called name removes just that name.          *)
LEMMA LiveAfterDrop ==
  ASSUME TypeOK, RegistryInv, NEW p \in Ptrs, DropModel(p)
  PROVE  /\ p \notin models /\ models' = models => Live' = Live
         /\ p \in models /\ models' = models \ {p} => Live' = Live \ {nameOf[p]}
<1>1. models \subseteq Ptrs
  BY DEF TypeOK, WorldTypeOK
<1>2. \A q \in Ptrs : nameOf'[q] = IF q = p THEN NoName ELSE nameOf[q]
  BY DEF DropModel, TypeOK, WorldTypeOK
<1>3. \A q \in models : p \in models /\ q # p => nameOf[q] # nameOf[p]
  BY DEF NamesUnique, RegistryInv
<1> QED
  BY <1>1, <1>2, <1>3 DEF Live

(* Every step of a load is a step of the registry or invisible.            *)
LEMMA LoadRefines ==
  ASSUME TypeOK, RegistryInv,
         \/ \E name \in Names, file \in Files : LoadModel(name, file)
         \/ LoadModelPlugin
         \/ LoadModelDone
  PROVE  [Registry!Next]_(Registry!vars)
<1> USE DEF Registry!vars, Registry!Reply, Reply
<1>1. ASSUME NEW caller, NEW odd, Uncaught(caller, odd)
      PROVE  Registry!Next
  BY <1>1 DEF Uncaught, DestroyWorld, Registry!Next, Registry!Down, Live
<1>2. ASSUME NEW name \in Names, NEW caller, NEW odd, Caught(caller, odd, name), Live' = Live
      PROVE  [Registry!Next]_(Registry!vars)
  BY <1>2 DEF Caught, Registry!Next, Registry!SpawnRejected
<1>3. ASSUME NEW name \in Names, NEW file \in Files, LoadModel(name, file)
      PROVE  [Registry!Next]_(Registry!vars)
  <2> DEFINE odd == name \notin Live /\ file \in OddFiles
  <2>1. CASE Caught(pc, odd, name) /\ Rejected(name, file)
    <3>1. \A q \in models : nameOf'[q] = nameOf[q]
      BY <2>1 DEF Rejected, Free, RegistryInv, Allocated, TypeOK, WorldTypeOK
    <3>2. Live' = Live
      BY <2>1, <3>1 DEF Caught, Live
    <3> QED
      BY <2>1, <3>2, <1>2
  <2>2. CASE NewModel(name, file, pc) /\ UNCHANGED reply
    <3>1. PICK p \in Free : nameOf' = [nameOf EXCEPT ![p] = name] /\ models' = models
      BY <2>2 DEF NewModel
    <3>2. p \in Ptrs /\ p \notin models /\ models \subseteq Ptrs
      BY DEF Free, RegistryInv, Allocated, TypeOK, WorldTypeOK
    <3>3. Live' = Live
      BY <3>1, <3>2 DEF Live, TypeOK, WorldTypeOK
    <3> QED
      BY <2>2, <3>3
  <2> QED
    BY <1>1, <1>3, <2>1, <2>2 DEF LoadModel
<1>4. CASE LoadModelPlugin
  <2>1. /\ load \in Loads /\ load.ptr \in Ptrs /\ nameOf[load.ptr] \in Names
        /\ load.ptr \notin models
    BY <1>4 DEF LoadModelPlugin, TypeOK, WorldTypeOK, Loads, RegistryInv, LoadApart
  <2>2. CASE Caught(load.caller, FALSE, nameOf[load.ptr]) /\ DropModel(load.ptr)
    <3>1. Live' = Live
      BY <2>1, <2>2, LiveAfterDrop DEF Caught
    <3> QED
      BY <2>1, <2>2, <3>1, <1>2
  <2>4. CASE Caught(load.caller, TRUE, nameOf[load.ptr]) /\ UNCHANGED nameOf
    <3>1. Live' = Live
      BY <2>4 DEF Caught, Live
    <3> QED
      BY <2>1, <2>4, <3>1, <1>2
  <2>3. CASE UNCHANGED <<nameOf, models, reply>>
    BY <2>3 DEF Live
  <2> QED
    BY <1>1, <1>4, <2>2, <2>3, <2>4 DEF LoadModelPlugin
<1>5. CASE LoadModelDone
  <2> DEFINE name == nameOf[load.ptr]
  <2>1. name \in Names /\ load.ptr \notin models /\ Loading = {load.ptr}
    BY <1>5 DEF LoadModelDone, TypeOK, WorldTypeOK, RegistryInv, LoadApart, Loading
  <2>2. name \notin Live
    BY <2>1 DEF Live, NamesUnique, RegistryInv
  <2>3. Live' = Live \cup {name}
    BY <1>5 DEF LoadModelDone, Live
  <2>4. reply' \in {reply, Reply("spawn", name, TRUE)}
    BY <1>5 DEF LoadModelDone
  <2>5. Registry!Spawn(name)
    BY <2>2, <2>3, <2>4 DEF Registry!Spawn
  <2> QED
    BY <2>1, <2>5 DEF Registry!Next
<1> QED
  BY <1>3, <1>4, <1>5

(* So is every deletion, and every service.                                *)
LEMMA CallbackRefines ==
  ASSUME TypeOK, RegistryInv, NEW name \in Names,
         \/ WorldPluginDelete(name) \/ MenuDelete(name)
         \/ DeleteService(name) \/ MoveService(name)
  PROVE  [Registry!Next]_(Registry!vars)
<1> USE DEF Registry!vars, Registry!Reply, Reply
<1>1. ASSUME DeleteModel(name)
      PROVE  name \in Live /\ Live' = Live \ {name}
  <2>1. PICK p \in models : nameOf[p] = name /\ DropModel(p) /\ models' = models \ {p}
    BY <1>1 DEF DeleteModel
  <2>2. p \in Ptrs /\ name \in Live
    BY <2>1 DEF TypeOK, WorldTypeOK, Live
  <2> QED
    BY <2>1, <2>2, LiveAfterDrop
<1>2. CASE WorldPluginDelete(name) \/ MenuDelete(name)
  <2>1. Registry!Delete(name)
    BY <1>1, <1>2 DEF WorldPluginDelete, MenuDelete, Registry!Delete
  <2> QED
    BY <2>1 DEF Registry!Next
<1>3. CASE DeleteService(name) /\ DeleteModel(name)
  <2>1. Registry!Delete(name)
    BY <1>1, <1>3 DEF DeleteService, Registry!Delete
  <2> QED
    BY <2>1 DEF Registry!Next
<1>4. CASE DeleteService(name) /\ name \notin Live /\ UNCHANGED worldVars
  <2>1. Live' = Live
    BY <1>4 DEF worldVars, Live
  <2>2. reply' = Reply("delete", name, name \in Live)
    BY <1>4 DEF DeleteService
  <2>3. (name \in Live) = FALSE
    BY <1>4
  <2>4. Registry!DeleteRejected(name)
    BY <1>4, <2>1, <2>2, <2>3 DEF Registry!DeleteRejected
  <2> QED
    BY <2>4 DEF Registry!Next
<1>5. CASE MoveService(name)
  <2>1. Live' = Live
    BY <1>5 DEF MoveService, worldVars, Live
  <2>2. reply' = Reply("move", name, name \in Live)
    BY <1>5 DEF MoveService
  <2>3. Registry!Move(name)
    BY <2>1, <2>2 DEF Registry!Move
  <2> QED
    BY <2>3 DEF Registry!Next
<1> QED
  BY <1>2, <1>3, <1>4, <1>5 DEF DeleteService

(* Every step of the node is a step of the registry or invisible.          *)
LEMMA StepRefines ==
  ASSUME TypeOK, RegistryInv, [Next]_vars
  PROVE  [Registry!Next]_(Registry!vars)
<1>1. ASSUME UNCHANGED <<nameOf, models, reply>>
      PROVE  [Registry!Next]_(Registry!vars)
  BY <1>1 DEF Registry!vars, Live
<1>2. CASE \/ \E name \in Names, file \in Files : LoadModel(name, file)
           \/ LoadModelPlugin
           \/ LoadModelDone
  BY <1>2, LoadRefines
<1>3. CASE MakeWorldThrows
  <2>1. Registry!Down
    BY <1>3 DEF MakeWorldThrows, DestroyWorld, Registry!Down, Live
  <2> QED
    BY <2>1 DEF Registry!Next
<1>4. CASE SpinDone
  <2>1. reply' = Registry!NoReply
    BY <1>4 DEF SpinDone, NoReply, Registry!NoReply
  <2>2. CASE UNCHANGED worldVars
    BY <2>1, <2>2 DEF worldVars, Live, Registry!Next, Registry!Ack
  <2>3. CASE DestroyWorld
    BY <2>1, <2>3 DEF DestroyWorld, Live, Registry!Next, Registry!Down
  <2> QED
    BY <1>4, <2>2, <2>3 DEF SpinDone
<1>5. ASSUME NEW name \in Names,
             \/ WorldPluginDelete(name) \/ MenuDelete(name)
             \/ DeleteService(name) \/ MoveService(name)
      PROVE  [Registry!Next]_(Registry!vars)
  BY <1>5, CallbackRefines
<1>6. CASE \/ MakeWorldDone \/ BeforePhysicsStep \/ UpdatePaused \/ PhysicsStep
           \/ AfterPhysicsStep \/ UpdateMarkers \/ PauseService \/ ResumeService
           \/ TogglePauseService \/ Terminated \/ UNCHANGED vars
  BY <1>1, <1>6
     DEF MakeWorldDone, BeforePhysicsStep, UpdatePaused, PhysicsStep, AfterPhysicsStep,
         UpdateMarkers, PauseService, ResumeService, TogglePauseService, SetPaused,
         Terminated, vars, worldVars
<1>7. ASSUME NEW layer \in Layers, WorldPluginRebuild(layer)
      PROVE  [Registry!Next]_(Registry!vars)
  BY <1>1, <1>7 DEF WorldPluginRebuild, worldVars
<1>8. ASSUME NEW name \in Names, MarkerFeedback(name)
      PROVE  [Registry!Next]_(Registry!vars)
  BY <1>1, <1>8 DEF MarkerFeedback, worldVars
<1>9. ASSUME NEW c \in Contact, BeginContact(c) \/ EndContact(c) \/ PostSolve(c)
      PROVE  [Registry!Next]_(Registry!vars)
  BY <1>1, <1>9 DEF BeginContact, EndContact, PostSolve, worldVars
<1> QED
  BY <1>2, <1>3, <1>4, <1>5, <1>6, <1>7, <1>8, <1>9 DEF Next

(* The node implements the registry: the services take effect in one step  *)
(* or not at all, and their responses tell the truth.                      *)
THEOREM WorldImplementsRegistry == Spec => ImplementsRegistry
<1>1. Init => Registry!Init
  BY DEF Init, Registry!Init, Live, NoReply, Registry!NoReply
<1>2. TypeOK /\ RegistryInv /\ [Next]_vars => [Registry!Next]_(Registry!vars)
  BY StepRefines
<1> QED
  BY <1>1, <1>2, TypeCorrect, RegistryCorrect, PTL DEF Spec, ImplementsRegistry, Registry!Spec

----------------------------------------------------------------------------
(***************************************************************************)
(* What the plugins of FlatlandWorld know of the contacts, for any number  *)
(* of models, bodies, layers and contacts.                                 *)
(*                                                                         *)
(* A plugin hears of a contact by callbacks only, so what it records is    *)
(* right only if every begin is paired with an end that it hears, and if   *)
(* nothing is left at an address that is handed out again.  The invariant  *)
(* says it of every address, used or free: a model that is not in the      *)
(* world has no contact, and an address without a plugin no record.        *)
(***************************************************************************)
\* What is loaded and what is still to be loaded make up the list; what was
\* lost was lost by one of the two exceptions.
PluginInv ==
  /\ \A p \in models : LoadedTypes(p) = Enabled(Reader(p))
  /\ load # NoLoad =>
       /\ fileOf[load.ptr] \notin BadFiles
       /\ LoadedTypes(load.ptr) \cup Enabled(load.todo) = Enabled(Reader(load.ptr))
  /\ \A p \in Lost : LeftByMakeModel(p) \/ LeftByLoadModel(p)

\* Nothing moves while a model is loaded.
ContactsInWorld ==
  \A c \in touching : \A i \in {1, 2} : c[i][1] \in (bodied \ Loading) \cup Layers

BumperRecord(p) ==
  /\ states[p] = IF Hears("Bumper", p)
                 THEN {c \in touching : FilterContact(c, p) /\ ~Ignored(c, p)} ELSE {}
  /\ solved[p] = states[p] \cap solver

BoolSensorRecord(p) ==
  /\ collisions[p] = IF Hears("BoolSensor", p) THEN NumTouching(p) ELSE 0
  /\ hit[p] <=> owed[p] # {}

ContactInv ==
  /\ ContactsInWorld
  /\ solver \subseteq touching
  /\ \A p \in Ptrs : BumperRecord(p) /\ BoolSensorRecord(p)

----------------------------------------------------------------------------
(* The plugins of a model.                                                 *)

(* The first entry of a list, and the others, ask for what the list does.  *)
LEMMA EnabledHeadTail ==
  ASSUME NEW s \in Seq(Entry), s # <<>>
  PROVE  Enabled(s) = (IF Head(s).enabled THEN {Head(s).type} ELSE {}) \cup Enabled(Tail(s))
<1>1. Len(s) \in Nat /\ Len(s) # 0 /\ Len(Tail(s)) = Len(s) - 1 /\ Head(s) = s[1]
  OBVIOUS
<1>2. \A i \in 1..Len(Tail(s)) : Tail(s)[i] = s[i + 1]
  OBVIOUS
<1>3. ASSUME NEW x \in Enabled(s)
      PROVE  x \in (IF Head(s).enabled THEN {Head(s).type} ELSE {}) \cup Enabled(Tail(s))
  <2>1. PICK i \in 1..Len(s) : s[i].enabled /\ x = s[i].type
    BY <1>3 DEF Enabled
  <2>2. CASE i = 1
    BY <1>1, <2>1, <2>2
  <2>3. CASE i # 1
    <3>1. i - 1 \in 1..Len(Tail(s)) /\ Tail(s)[i - 1] = s[i]
      BY <1>1, <1>2, <2>3
    <3> QED
      BY <2>1, <3>1 DEF Enabled
  <2> QED
    BY <2>2, <2>3
<1>4. ASSUME NEW x \in (IF Head(s).enabled THEN {Head(s).type} ELSE {}) \cup Enabled(Tail(s))
      PROVE  x \in Enabled(s)
  <2>1. CASE Head(s).enabled /\ x = Head(s).type
    <3>1. 1 \in 1..Len(s)
      BY <1>1
    <3> QED
      BY <1>1, <2>1, <3>1 DEF Enabled
  <2>2. CASE x \in Enabled(Tail(s))
    <3>1. PICK i \in 1..Len(Tail(s)) : Tail(s)[i].enabled /\ x = Tail(s)[i].type
      BY <2>2 DEF Enabled
    <3>2. i + 1 \in 1..Len(s) /\ s[i + 1] = Tail(s)[i]
      BY <1>1, <1>2
    <3> QED
      BY <3>1, <3>2 DEF Enabled
  <2> QED
    BY <1>4, <2>1, <2>2
<1> QED
  BY <1>3, <1>4

(* A free address is without plugins.                                      *)
LEMMA NoStrayPlugins ==
  ASSUME RegistryInv, NEW p \in Free
  PROVE  Plugins(p) = {}
  BY DEF Plugins, RegistryInv, Allocated

(* What is said of a lost model depends on that model only.                *)
LEMMA StaysLeft ==
  ASSUME NEW p, Plugins(p)' = Plugins(p), fileOf'[p] = fileOf[p],
         p \in bodied' => p \in bodied,
         LeftByMakeModel(p) \/ LeftByLoadModel(p)
  PROVE  (LeftByMakeModel(p) \/ LeftByLoadModel(p))'
<1>1. LoadedTypes(p)' = LoadedTypes(p) /\ Reader(p)' = Reader(p)
  BY DEF LoadedTypes, Reader
<1> QED
  BY <1>1 DEF LeftByMakeModel, LeftByLoadModel

(* Nothing that only concerns contacts, pauses or markers changes plugins. *)
LEMMA PluginsUnchanged ==
  ASSUME PluginInv, UNCHANGED <<nameOf, fileOf, bodied, models, load, plugins>>
  PROVE  PluginInv'
<1>1. \A p : Plugins(p)' = Plugins(p) /\ Reader(p)' = Reader(p)
  BY DEF Plugins, Reader
<1>2. \A p : LoadedTypes(p)' = LoadedTypes(p)
  BY <1>1 DEF LoadedTypes
<1>3. Lost' = Lost
  BY DEF Lost, Free, Loading
<1> QED
  BY <1>1, <1>2, <1>3, StaysLeft DEF PluginInv

LEMMA PluginsDestroyed ==
  ASSUME DestroyWorld
  PROVE  PluginInv'
<1>1. Lost' = {}
  BY DEF DestroyWorld, Lost, Free
<1> QED
  BY <1>1 DEF DestroyWorld, PluginInv

(* Deleting p leaves the plugins of the others alone.                      *)
LEMMA PluginsAfterDrop ==
  ASSUME TypeOK, PluginInv, NEW p \in Ptrs, DropModel(p), models' = models \ {p},
         load' = NoLoad, Loading \subseteq {p}
  PROVE  PluginInv'
<1>1. \A q \in models' : q # p /\ q \in Ptrs /\ q \in models
  BY DEF TypeOK, WorldTypeOK
<1>2. \A q \in Ptrs : q # p => Plugins(q)' = Plugins(q) /\ fileOf'[q] = fileOf[q]
  BY DEF DropModel, Plugins, TypeOK, WorldTypeOK
<1>3. \A q \in models' : LoadedTypes(q)' = LoadedTypes(q) /\ Reader(q)' = Reader(q)
  BY <1>1, <1>2 DEF LoadedTypes, Reader
<1>4. Lost' \subseteq Lost \ {p}
  <2>1. Free' = Free \cup {p}
    BY DEF DropModel, Free, TypeOK, WorldTypeOK
  <2> QED
    BY <2>1 DEF Lost, Loading
<1>5. ASSUME NEW q \in Lost'
      PROVE  (LeftByMakeModel(q) \/ LeftByLoadModel(q))'
  <2>1. q \in Lost /\ q \in Ptrs /\ q # p
    BY <1>4, <1>5 DEF Lost
  <2>2. q \in bodied' => q \in bodied
    BY DEF DropModel
  <2> QED
    BY <1>2, <2>1, <2>2, StaysLeft DEF PluginInv
<1> QED
  BY <1>1, <1>3, <1>5 DEF PluginInv

(* A new model has no plugin yet and its whole list to load.               *)
LEMMA PluginsNewModel ==
  ASSUME TypeOK, RegistryInv, PluginInv, load = NoLoad, NEW name \in Names,
         NEW file \in Files \ BadFiles, NEW caller \in Callers, NewModel(name, file, caller)
  PROVE  PluginInv'
<1>1. PICK p \in Free :
        /\ nameOf' = [nameOf EXCEPT ![p] = name]
        /\ fileOf' = [fileOf EXCEPT ![p] = file]
        /\ bodied' = bodied \cup {p}
        /\ load' = [ptr |-> p, todo |-> PluginsOf[file], caller |-> caller]
        /\ UNCHANGED <<models, plugins>>
  BY DEF NewModel
<1>2. p \in Ptrs /\ p \notin models /\ models \subseteq Ptrs /\ Loading = {}
  BY DEF Free, Loading, RegistryInv, Allocated, TypeOK, WorldTypeOK
<1>3. Plugins(p)' = {}
  BY <1>1, NoStrayPlugins DEF Plugins
<1>4. \A q \in Ptrs : /\ fileOf'[q] = IF q = p THEN file ELSE fileOf[q]
                      /\ nameOf'[q] = IF q = p THEN name ELSE nameOf[q]
  BY <1>1, <1>2 DEF TypeOK, WorldTypeOK
<1>5. load'.ptr = p /\ load'.todo = Reader(p)' /\ load' # NoLoad
  <2>1. PluginsOf[file] \in Seq(Entry)
    BY WorldAssumption
  <2>2. Reader(p)' = PluginsOf[file]
    BY <1>2, <1>4 DEF Reader
  <2> QED
    BY <1>1, <1>2, <2>1, <2>2, WorldAssumption
<1>6. (/\ fileOf[load.ptr] \notin BadFiles
       /\ LoadedTypes(load.ptr) \cup Enabled(load.todo) = Enabled(Reader(load.ptr)))'
  BY <1>2, <1>3, <1>4, <1>5 DEF LoadedTypes, Plugins
<1>7. \A q \in models : LoadedTypes(q)' = LoadedTypes(q) /\ Reader(q)' = Reader(q)
  BY <1>1, <1>2, <1>4 DEF LoadedTypes, Plugins, Reader
<1>8. Lost' \subseteq Lost /\ p \notin Lost'
  BY <1>1, <1>2, <1>4, <1>5 DEF Lost, Free, Loading
<1>9. ASSUME NEW q \in Lost'
      PROVE  (LeftByMakeModel(q) \/ LeftByLoadModel(q))'
  <2>1. q \in Lost /\ q \in Ptrs /\ q # p
    BY <1>8, <1>9 DEF Lost
  <2>2. Plugins(q)' = Plugins(q) /\ fileOf'[q] = fileOf[q] /\ (q \in bodied' => q \in bodied)
    BY <1>1, <1>4, <2>1 DEF Plugins
  <2> QED
    BY <2>1, <2>2, StaysLeft DEF PluginInv
<1> QED
  BY <1>1, <1>6, <1>7, <1>9 DEF PluginInv

(* A file that MakeModel rejects leaves nothing, or a model without        *)
(* plugins.                                                                *)
LEMMA PluginsRejected ==
  ASSUME TypeOK, RegistryInv, PluginInv, load = NoLoad, NEW name \in Names, NEW file \in Files,
         Rejected(name, file), UNCHANGED <<models, load, plugins>>
  PROVE  PluginInv'
<1>1. CASE UNCHANGED <<nameOf, fileOf, bodied>>
  BY <1>1, PluginsUnchanged
<1>2. CASE /\ file \in UnlistedFiles \cup OddFiles
           /\ \E p \in Free :
                /\ nameOf' = [nameOf EXCEPT ![p] = name]
                /\ fileOf' = [fileOf EXCEPT ![p] = file]
                /\ \/ UNCHANGED bodied
                   \/ file \in OddFiles /\ bodied' = bodied \cup {p}
  <2>1. PICK p \in Free : /\ nameOf' = [nameOf EXCEPT ![p] = name]
                          /\ fileOf' = [fileOf EXCEPT ![p] = file]
                          /\ \/ UNCHANGED bodied
                             \/ file \in OddFiles /\ bodied' = bodied \cup {p}
    BY <1>2
  <2>2. p \in Ptrs /\ p \notin models /\ p \notin bodied /\ models \subseteq Ptrs
    BY <2>1 DEF Free, RegistryInv, Allocated, TypeOK, WorldTypeOK
  <2>3. \A q \in Ptrs : /\ fileOf'[q] = IF q = p THEN file ELSE fileOf[q]
                        /\ nameOf'[q] = IF q = p THEN name ELSE nameOf[q]
    BY <2>1, <2>2 DEF TypeOK, WorldTypeOK
  <2>4. \A q : Plugins(q)' = Plugins(q) /\ LoadedTypes(q)' = LoadedTypes(q)
    BY DEF Plugins, LoadedTypes
  <2>5. \A q \in models : Reader(q)' = Reader(q)
    BY <2>2, <2>3 DEF Reader
  <2>6. Lost' \subseteq Lost \cup {p}
    BY <2>3 DEF Lost, Free, Loading
  <2>7. LeftByMakeModel(p)'
    BY <1>2, <2>1, <2>2, <2>3, <2>4, NoStrayPlugins DEF LeftByMakeModel
  <2>8. ASSUME NEW q \in Lost', q # p
        PROVE  (LeftByMakeModel(q) \/ LeftByLoadModel(q))'
    <3>1. q \in Lost /\ q \in Ptrs
      BY <2>6, <2>8 DEF Lost
    <3>2. fileOf'[q] = fileOf[q] /\ (q \in bodied' => q \in bodied)
      BY <2>1, <2>3, <2>8, <3>1
    <3> QED
      BY <2>4, <3>1, <3>2, StaysLeft DEF PluginInv
  <2> QED
    BY <2>4, <2>5, <2>7, <2>8 DEF PluginInv
<1> QED
  BY <1>1, <1>2 DEF Rejected

(* A load that yaml-cpp ends leaves a model with a part of its plugins.    *)
LEMMA PluginsEscape ==
  ASSUME TypeOK, PluginInv, load # NoLoad, load.todo # <<>>, NEW p, p = load.ptr,
         PluginEscapes(p, Head(load.todo)), load' = NoLoad,
         UNCHANGED <<nameOf, fileOf, bodied, models, plugins>>
  PROVE  PluginInv'
<1>1. p \in Ptrs /\ load.todo \in Seq(Entry) /\ plugins \subseteq Ptrs \X Types
  BY DEF TypeOK, WorldTypeOK, Loads
<1>2. \A q : Plugins(q)' = Plugins(q) /\ LoadedTypes(q)' = LoadedTypes(q) /\ Reader(q)' = Reader(q)
  BY DEF Plugins, LoadedTypes, Reader
<1>3. "OddKey" \in Enabled(load.todo)
  BY <1>1, EnabledHeadTail DEF PluginEscapes
<1>4. "OddKey" \notin LoadedTypes(p)
  BY <1>1 DEF LoadedTypes, Plugins, Types
<1>5. LeftByLoadModel(p)
  BY <1>3, <1>4 DEF PluginInv, LeftByLoadModel
<1>6. LeftByLoadModel(p)'
  BY <1>2, <1>5 DEF LeftByLoadModel
<1>7. Lost' \subseteq Lost \cup {p}
  BY DEF Lost, Free, Loading
<1>8. \A q \in Lost : (LeftByMakeModel(q) \/ LeftByLoadModel(q))'
  BY <1>2, StaysLeft DEF PluginInv
<1> QED
  BY <1>2, <1>6, <1>7, <1>8 DEF PluginInv

(* One more plugin is loaded.                                              *)
LEMMA PluginsLoadOne ==
  ASSUME TypeOK, RegistryInv, PluginInv, load # NoLoad, load.todo # <<>>, NEW e,
         e = Head(load.todo),
         plugins' = IF e.enabled THEN plugins \cup {<<load.ptr, e.type>>} ELSE plugins,
         load' = [load EXCEPT !.todo = Tail(load.todo)],
         UNCHANGED <<nameOf, fileOf, bodied, models>>
  PROVE  PluginInv'
<1> DEFINE p == load.ptr
<1>1. /\ load \in Loads /\ p \in Ptrs /\ load.todo \in Seq(Entry)
      /\ p \notin models /\ models \subseteq Ptrs
  BY DEF TypeOK, WorldTypeOK, Loads, RegistryInv, LoadApart
<1>2. load'.ptr = p /\ load'.todo = Tail(load.todo) /\ Loading' = Loading
  BY LoadGoesOn
<1>3. \A q : q # p => Plugins(q)' = Plugins(q)
  BY DEF Plugins
<1>4. Plugins(p)' = IF e.enabled THEN Plugins(p) \cup {<<p, e.type>>} ELSE Plugins(p)
  BY DEF Plugins
<1>5. LoadedTypes(p)' = LoadedTypes(p) \cup IF e.enabled THEN {e.type} ELSE {}
  <2>1. <<p, e.type>>[2] = e.type
    OBVIOUS
  <2> QED
    BY <1>2, <1>4, <2>1 DEF LoadedTypes, Plugins
<1>6. Enabled(load.todo) = (IF e.enabled THEN {e.type} ELSE {}) \cup Enabled(Tail(load.todo))
  BY <1>1, EnabledHeadTail
<1>7. LoadedTypes(p)' \cup Enabled(Tail(load.todo)) = Enabled(Reader(p))
  BY <1>1, <1>5, <1>6 DEF PluginInv
<1>8. \A q : Reader(q)' = Reader(q)
  BY DEF Reader
<1>9. (LoadedTypes(load.ptr) \cup Enabled(load.todo) = Enabled(Reader(load.ptr)))'
  BY <1>2, <1>7, <1>8 DEF LoadedTypes, Plugins
<1>10. \A q \in models' : LoadedTypes(q)' = Enabled(Reader(q))'
  BY <1>1, <1>3, <1>8 DEF PluginInv, LoadedTypes
<1>11. Lost' = Lost /\ p \notin Lost
  BY <1>2 DEF Lost, Free, Loading
<1>12. \A q \in Lost' : (LeftByMakeModel(q) \/ LeftByLoadModel(q))'
  BY <1>3, <1>11, StaysLeft DEF PluginInv
<1>13. (fileOf[load.ptr] \notin BadFiles)'
  BY <1>2 DEF PluginInv
<1> QED
  BY <1>9, <1>10, <1>12, <1>13 DEF PluginInv

LEMMA PluginStep ==
  ASSUME TypeOK, RegistryInv, PluginInv, [Next]_vars
  PROVE  PluginInv'
<1>1. ASSUME NEW name \in Names, NEW file \in Files, LoadModel(name, file)
      PROVE  PluginInv'
  <2> DEFINE odd == name \notin Live /\ file \in OddFiles
  <2>1. CASE Caught(pc, odd, name) /\ Rejected(name, file) /\ UNCHANGED <<load, plugins, contactVars>>
    BY <1>1, <2>1, PluginsRejected DEF LoadModel, Caught
  <2>2. CASE Uncaught(pc, odd)
    BY <2>2, PluginsDestroyed DEF Uncaught
  <2>3. CASE ~LoadThrows(name, file) /\ NewModel(name, file, pc)
    BY <1>1, <2>3, PluginsNewModel DEF LoadModel, LoadThrows
  <2> QED
    BY <1>1, <2>1, <2>2, <2>3 DEF LoadModel
<1>3. CASE LoadModelPlugin
  <2> DEFINE p == load.ptr
             e == Head(load.todo)
  <2>1. p \in Ptrs /\ p \notin models /\ Loading = {p}
    BY <1>3 DEF LoadModelPlugin, TypeOK, WorldTypeOK, Loads, RegistryInv, LoadApart, Loading
  <2>2. CASE DropModel(p) /\ load' = NoLoad /\ UNCHANGED models
    <3>1. models' = models \ {p}
      BY <2>1, <2>2
    <3> QED
      BY <2>1, <2>2, <3>1, PluginsAfterDrop
  <2>3. CASE Uncaught(load.caller, PluginEscapes(p, e))
    BY <2>3, PluginsDestroyed DEF Uncaught
  <2>4. CASE /\ PluginEscapes(p, e) /\ load' = NoLoad
             /\ UNCHANGED <<nameOf, fileOf, bodied, models, plugins>>
    BY <1>3, <2>4, PluginsEscape DEF LoadModelPlugin
  <2>5. CASE /\ plugins' = IF e.enabled THEN plugins \cup {<<p, e.type>>} ELSE plugins
             /\ load' = [load EXCEPT !.todo = Tail(@)]
             /\ UNCHANGED <<nameOf, fileOf, bodied, models>>
    BY <1>3, <2>5, PluginsLoadOne DEF LoadModelPlugin
  <2> QED
    BY <1>3, <2>2, <2>3, <2>4, <2>5 DEF LoadModelPlugin, Caught
<1>4. CASE LoadModelDone
  <2>1. Enabled(<<>>) = {}
    BY DEF Enabled
  <2>2. LoadedTypes(load.ptr) = Enabled(Reader(load.ptr))
    BY <1>4, <2>1 DEF LoadModelDone, PluginInv
  <2>3. \A p : Plugins(p)' = Plugins(p) /\ LoadedTypes(p)' = LoadedTypes(p) /\ Reader(p)' = Reader(p)
    BY <1>4 DEF LoadModelDone, LoadedTypes, Plugins, Reader
  <2>4. Lost' = Lost
    BY <1>4 DEF LoadModelDone, Lost, Free, Loading
  <2>5. \A p \in Lost' : (LeftByMakeModel(p) \/ LeftByLoadModel(p))'
    BY <1>4, <2>3, <2>4, StaysLeft DEF LoadModelDone, PluginInv
  <2> QED
    BY <1>4, <2>2, <2>3, <2>5 DEF LoadModelDone, PluginInv
<1>5. ASSUME NEW name \in Names, load = NoLoad, DeleteModel(name)
      PROVE  PluginInv'
  BY <1>5, PluginsAfterDrop DEF DeleteModel, TypeOK, WorldTypeOK, Loading
<1>6. ASSUME NEW name \in Names,
             \/ WorldPluginDelete(name) \/ DeleteService(name) \/ MoveService(name)
             \/ MenuDelete(name) \/ MarkerFeedback(name)
      PROVE  PluginInv'
  BY <1>5, <1>6, PluginsUnchanged
     DEF WorldPluginDelete, DeleteService, MoveService, MenuDelete, MarkerFeedback, worldVars
<1>7. CASE MakeWorldThrows \/ SpinDone
  BY <1>7, PluginsDestroyed, PluginsUnchanged DEF MakeWorldThrows, SpinDone, worldVars
<1>8. CASE \/ MakeWorldDone \/ BeforePhysicsStep \/ UpdatePaused \/ PhysicsStep
           \/ AfterPhysicsStep \/ UpdateMarkers \/ PauseService \/ ResumeService
           \/ TogglePauseService \/ Terminated \/ UNCHANGED vars
  BY <1>8, PluginsUnchanged
     DEF MakeWorldDone, BeforePhysicsStep, UpdatePaused, PhysicsStep, AfterPhysicsStep,
         UpdateMarkers, PauseService, ResumeService, TogglePauseService, SetPaused,
         Terminated, vars, worldVars
<1>9. ASSUME NEW layer \in Layers, WorldPluginRebuild(layer)
      PROVE  PluginInv'
  BY <1>9, PluginsUnchanged DEF WorldPluginRebuild, worldVars
<1>10. ASSUME NEW c \in Contact, BeginContact(c) \/ EndContact(c) \/ PostSolve(c)
       PROVE  PluginInv'
  BY <1>10, PluginsUnchanged DEF BeginContact, EndContact, PostSolve, worldVars
<1> QED
  BY <1>1, <1>3, <1>4, <1>6, <1>7, <1>8, <1>9, <1>10 DEF Next

(* Whatever was loaded, failed, was deleted or shut down: each model of    *)
(* the world has all its plugins, and what is lost is accounted for.       *)
THEOREM PluginsCorrect == Spec => []PluginInv
<1>1. Init => PluginInv
  BY DEF Init, PluginInv, Lost, Free
<1>2. TypeOK /\ RegistryInv /\ PluginInv /\ [Next]_vars => PluginInv'
  BY PluginStep
<1> QED
  BY <1>1, <1>2, TypeCorrect, RegistryCorrect, PTL DEF Spec

(* No plugin and no body outlives its model, and a load that fails leaves  *)
(* a model behind only when one of two exceptions passes by the code that  *)
(* would delete it, which is then left with what the proof says and no     *)
(* more: for every number of models, names and files.                      *)
THEOREM NothingElseEverLeftBehind == Spec => []NothingElseLeftBehind
<1>1. RegistryInv /\ PluginInv => NothingElseLeftBehind
  BY DEF RegistryInv, Allocated, PluginInv, NothingElseLeftBehind
<1> QED
  BY <1>1, RegistryCorrect, PluginsCorrect, PTL

(* A model of the world has all the enabled plugins of its file, and only  *)
(* those: World::LoadModel adds it to models_ after the last one.          *)
THEOREM ModelsFullyLoaded == Spec => []AllPluginsLoaded
<1>1. PluginInv => AllPluginsLoaded
  BY DEF PluginInv, AllPluginsLoaded
<1> QED
  BY <1>1, PluginsCorrect, PTL

----------------------------------------------------------------------------
(* The contacts.                                                           *)

(* What fixture A and fixture B are does not matter: if two contacts do    *)
(* not touch the model, it has no side in them.                            *)
LEMMA NotOfContact ==
  ASSUME NEW p \in Ptrs, p \notin bodied \ Loading, ContactsInWorld
  PROVE  \A c \in touching : ~FilterContact(c, p)
<1>1. p \notin (bodied \ Loading) \cup Layers
  BY WorldAssumption
<1> QED
  BY <1>1 DEF ContactsInWorld, FilterContact

(* The end of some contacts is taken into account by every plugin that is  *)
(* left, and nothing is kept for those that are gone.                      *)
LEMMA EndContactsCounted ==
  ASSUME TypeOK, ContactInv, NEW C \in SUBSET touching, EndContacts(C, plugins'),
         plugins' \subseteq plugins, ContactsInWorld'
  PROVE  ContactInv'
<1> DEFINE mine(p) == {c \in C : FilterContact(c, p)}
           all(p) == {c \in touching : FilterContact(c, p)}
<1>1. touching' = touching \ C /\ solver' = solver \ C
  BY DEF EndContacts
<1>2. solver' \subseteq touching'
  BY <1>1 DEF ContactInv
<1>3. ASSUME NEW p \in Ptrs
      PROVE  BumperRecord(p)'
  <2>1. BumperRecord(p)
    BY <1>3 DEF ContactInv
  <2>2. /\ states'[p] = IF <<p, "Bumper">> \in plugins' THEN states[p] \ C ELSE {}
        /\ solved'[p] = IF <<p, "Bumper">> \in plugins' THEN solved[p] \ C ELSE {}
    BY DEF EndContacts
  <2> QED
    BY <1>1, <2>1, <2>2 DEF BumperRecord, Hears
<1>4. ASSUME NEW p \in Ptrs
      PROVE  BoolSensorRecord(p)'
  <2>1. BoolSensorRecord(p)
    BY <1>4 DEF ContactInv
  <2>2. /\ collisions'[p] = IF <<p, "BoolSensor">> \in plugins'
                            THEN collisions[p] - Cardinality(mine(p)) ELSE 0
        /\ hit'[p] = (hit[p] /\ <<p, "BoolSensor">> \in plugins')
        /\ owed'[p] = IF <<p, "BoolSensor">> \in plugins' THEN owed[p] ELSE {}
    BY DEF EndContacts
  <2>3. NumTouching(p)' = Cardinality(all(p)) - Cardinality(mine(p))
    <3>1. IsFiniteSet(all(p))
      BY FS_Subset DEF TypeOK, ContactTypeOK
    <3>2. all(p) \cap C = mine(p)
      OBVIOUS
    <3>3. Cardinality(all(p) \ C) = Cardinality(all(p)) - Cardinality(mine(p))
      <4>1. \A S, T : IsFiniteSet(S) => Cardinality(S \ T) = Cardinality(S) - Cardinality(S \cap T)
        BY FS_Difference
      <4> HIDE DEF all, mine
      <4> QED
        BY <3>1, <3>2, <4>1
    <3>4. all(p) \ C = {c \in touching' : FilterContact(c, p)}
      BY <1>1
    <3> QED
      BY <3>3, <3>4 DEF NumTouching
  <2>4. collisions'[p] = IF <<p, "BoolSensor">> \in plugins' THEN NumTouching(p)' ELSE 0
    BY <2>1, <2>2, <2>3 DEF BoolSensorRecord, NumTouching, Hears
  <2>5. hit'[p] <=> owed'[p] # {}
    BY <2>1, <2>2 DEF BoolSensorRecord
  <2> QED
    BY <2>4, <2>5 DEF BoolSensorRecord, Hears
<1> QED
  BY <1>2, <1>3, <1>4 DEF ContactInv

(* Nothing that leaves the contacts, the bodies that may be in one and the *)
(* plugins alone changes what is recorded.                                 *)
LEMMA ContactsUnchanged ==
  ASSUME ContactInv, UNCHANGED <<plugins, contactVars>>,
         bodied \ Loading \subseteq (bodied \ Loading)'
  PROVE  ContactInv'
  BY DEF ContactInv, ContactsInWorld, BumperRecord, BoolSensorRecord, Hears, NumTouching,
         contactVars, sensorVars

LEMMA ContactsDestroyed ==
  ASSUME DestroyWorld
  PROVE  ContactInv'
<1>1. \A p \in Ptrs : ~Hears("Bumper", p)' /\ ~Hears("BoolSensor", p)'
  BY DEF DestroyWorld, Hears
<1> QED
  BY <1>1 DEF DestroyWorld, ContactInv, ContactsInWorld, BumperRecord, BoolSensorRecord

(* A deletion ends the contacts of the model, heard by the others.         *)
LEMMA ContactsAfterDrop ==
  ASSUME TypeOK, ContactInv, NEW p \in Ptrs, DropModel(p), Loading' \subseteq Loading
  PROVE  ContactInv'
<1>1. EndContacts({c \in touching : FilterContact(c, p)}, plugins') /\ plugins' \subseteq plugins
  BY DEF DropModel
<1>2. touching' = {c \in touching : ~FilterContact(c, p)}
  BY <1>1 DEF EndContacts
<1>3. bodied' = bodied \ {p}
  BY DEF DropModel
<1>4. ContactsInWorld'
  BY <1>2, <1>3 DEF ContactInv, ContactsInWorld, FilterContact
<1> QED
  BY <1>1, <1>4, EndContactsCounted

(* A plugin of a model that is not in the world yet starts without any     *)
(* contact, and there is none to be recorded.                              *)
LEMMA ContactsPluginLoaded ==
  ASSUME TypeOK, ContactInv, NEW p \in Ptrs, p \in Loading, NEW type \in Types,
         plugins' = plugins \cup {<<p, type>>}, Loading' = Loading,
         UNCHANGED <<bodied, contactVars>>
  PROVE  ContactInv'
<1>1. ContactsInWorld' /\ solver' \subseteq touching'
  BY DEF ContactInv, ContactsInWorld, contactVars
<1>2. ASSUME NEW q \in Ptrs, q # p
      PROVE  BumperRecord(q)' /\ BoolSensorRecord(q)'
  <2>1. BumperRecord(q) /\ BoolSensorRecord(q)
    BY <1>2 DEF ContactInv
  <2>2. \A t : Hears(t, q)' <=> Hears(t, q)
    BY <1>2 DEF Hears
  <2> QED
    BY <2>1, <2>2 DEF BumperRecord, BoolSensorRecord, NumTouching, contactVars, sensorVars
<1>3. BumperRecord(p)' /\ BoolSensorRecord(p)'
  <2>1. \A c \in touching : ~FilterContact(c, p)
    BY NotOfContact DEF ContactInv
  <2>2. {c \in touching : FilterContact(c, p)} = {}
    BY <2>1
  <2>3. NumTouching(p) = 0
    BY <2>2, FS_EmptySet DEF NumTouching
  <2>4. BumperRecord(p) /\ BoolSensorRecord(p)
    BY DEF ContactInv
  <2>5. states[p] = {} /\ solved[p] = {} /\ collisions[p] = 0
    BY <2>1, <2>3, <2>4 DEF BumperRecord, BoolSensorRecord
  <2> QED
    BY <2>1, <2>3, <2>4, <2>5
       DEF BumperRecord, BoolSensorRecord, NumTouching, contactVars, sensorVars
<1> QED
  BY <1>1, <1>2, <1>3 DEF ContactInv

(* The body of model p in a contact of its own.                            *)
LEMMA OwnBody ==
  ASSUME NEW c \in Contact, NEW p \in Ptrs, FilterContact(c, p)
  PROVE  OwnBodies(c, p) # {}
  BY DEF OwnBodies, FilterContact

(* A contact that begins is recorded once by each plugin it concerns.      *)
LEMMA ContactBegins ==
  ASSUME TypeOK, ContactInv, NEW c \in Contact, BeginContact(c)
  PROVE  ContactInv'
<1>1. /\ touching' = touching \cup {c} /\ c \notin touching
      /\ UNCHANGED <<bodied, plugins, solved, solver>>
      /\ Loading = {} /\ Loading' = {}
  BY DEF BeginContact, worldVars, Loading
<1>2. ContactsInWorld' /\ solver' \subseteq touching' /\ c \notin solver
  BY <1>1 DEF BeginContact, ContactInv, ContactsInWorld
<1>3. ASSUME NEW p \in Ptrs
      PROVE  BumperRecord(p)'
  <2>1. BumperRecord(p)
    BY DEF ContactInv
  <2>2. states'[p] = IF Hears("Bumper", p) /\ FilterContact(c, p) /\ ~Ignored(c, p)
                     THEN states[p] \cup {c} ELSE states[p]
    BY DEF BeginContact
  <2>3. Hears("Bumper", p)' <=> Hears("Bumper", p)
    BY <1>1 DEF Hears
  <2> QED
    BY <1>1, <1>2, <2>1, <2>2, <2>3 DEF BumperRecord
<1>4. ASSUME NEW p \in Ptrs
      PROVE  BoolSensorRecord(p)'
  <2> DEFINE heard == Hears("BoolSensor", p) /\ FilterContact(c, p)
  <2>1. BoolSensorRecord(p)
    BY DEF ContactInv
  <2>2. /\ collisions'[p] = IF heard THEN collisions[p] + 1 ELSE collisions[p]
        /\ hit'[p] = (hit[p] \/ heard)
        /\ owed'[p] = IF heard THEN owed[p] \cup OwnBodies(c, p) ELSE owed[p]
    BY DEF BeginContact
  <2>3. Hears("BoolSensor", p)' <=> Hears("BoolSensor", p)
    BY <1>1 DEF Hears
  <2>4. NumTouching(p)' = IF FilterContact(c, p) THEN NumTouching(p) + 1 ELSE NumTouching(p)
    <3> DEFINE all == {d \in touching : FilterContact(d, p)}
    <3>1. IsFiniteSet(all) /\ c \notin all
      BY <1>1, FS_Subset DEF TypeOK, ContactTypeOK
    <3>2. Cardinality(all \cup {c}) = Cardinality(all) + 1
      BY <3>1, FS_AddElement
    <3>3. {d \in touching' : FilterContact(d, p)} = IF FilterContact(c, p) THEN all \cup {c} ELSE all
      BY <1>1
    <3> QED
      BY <3>2, <3>3 DEF NumTouching
  <2>5. hit'[p] <=> owed'[p] # {}
    BY <2>1, <2>2, OwnBody DEF BoolSensorRecord
  <2> QED
    BY <2>1, <2>2, <2>3, <2>4, <2>5 DEF BoolSensorRecord
<1> QED
  BY <1>2, <1>3, <1>4 DEF ContactInv

(* The solver's report of a contact reaches the Bumpers that hold it.      *)
LEMMA ContactSolved ==
  ASSUME TypeOK, ContactInv, NEW c \in Contact, PostSolve(c)
  PROVE  ContactInv'
<1>1. /\ solver' = solver \cup {c} /\ c \in touching
      /\ UNCHANGED <<bodied, plugins, touching, states, collisions, hit, owed>>
      /\ Loading' = Loading
  BY DEF PostSolve, worldVars, Loading
<1>2. ASSUME NEW p \in Ptrs
      PROVE  BumperRecord(p)' /\ BoolSensorRecord(p)'
  <2>1. BumperRecord(p) /\ BoolSensorRecord(p)
    BY DEF ContactInv
  <2>2. solved'[p] = IF c \in states[p] THEN solved[p] \cup {c} ELSE solved[p]
    BY DEF PostSolve
  <2>3. solved'[p] = states'[p] \cap solver'
    BY <1>1, <2>1, <2>2 DEF BumperRecord
  <2> QED
    BY <1>1, <2>1, <2>3 DEF BumperRecord, BoolSensorRecord, Hears, NumTouching
<1> QED
  BY <1>1, <1>2 DEF ContactInv, ContactsInWorld

(* The Bumpers' reset, and the publication of the BoolSensors.             *)
LEMMA ContactLoop ==
  ASSUME TypeOK, ContactInv, BeforePhysicsStep \/ UpdatePaused \/ AfterPhysicsStep
  PROVE  ContactInv'
<1>1. UNCHANGED <<bodied, plugins, touching, states, collisions>> /\ Loading' = Loading
  BY DEF BeforePhysicsStep, UpdatePaused, AfterPhysicsStep, worldVars, Loading
<1>2. ContactsInWorld' /\ solver' \subseteq touching'
  BY <1>1 DEF BeforePhysicsStep, UpdatePaused, AfterPhysicsStep, ContactInv, ContactsInWorld
<1>3. ASSUME NEW p \in Ptrs
      PROVE  BumperRecord(p)' /\ BoolSensorRecord(p)'
  <2>1. BumperRecord(p) /\ BoolSensorRecord(p)
    BY DEF ContactInv
  <2>2. solved'[p] = states'[p] \cap solver'
    BY <1>1, <2>1 DEF BumperRecord, BeforePhysicsStep, UpdatePaused, AfterPhysicsStep
  <2>3. hit'[p] <=> owed'[p] # {}
    BY <2>1 DEF BoolSensorRecord, BeforePhysicsStep, UpdatePaused, AfterPhysicsStep
  <2> QED
    BY <1>1, <2>1, <2>2, <2>3 DEF BumperRecord, BoolSensorRecord, Hears, NumTouching
<1> QED
  BY <1>2, <1>3 DEF ContactInv

(* Every step keeps the records right.                                     *)
LEMMA ContactStep ==
  ASSUME TypeOK, RegistryInv, ContactInv, [Next]_vars
  PROVE  ContactInv'
<1>1. ASSUME NEW name \in Names, NEW file \in Files, LoadModel(name, file)
      PROVE  ContactInv'
  <2>1. load = NoLoad /\ Loading = {}
    BY <1>1 DEF LoadModel, Loading
  <2>2. CASE Rejected(name, file) /\ UNCHANGED <<load, plugins, contactVars>>
    <3>1. Loading' = {} /\ bodied \subseteq bodied'
      BY <2>1, <2>2 DEF Rejected, Loading
    <3> QED
      BY <2>1, <2>2, <3>1, ContactsUnchanged
  <2>3. CASE DestroyWorld
    BY <2>3, ContactsDestroyed
  <2>4. CASE NewModel(name, file, pc) /\ UNCHANGED contactVars
    <3>1. PICK q \in Free : bodied' = bodied \cup {q} /\ load'.ptr = q
      BY <2>4 DEF NewModel
    <3>2. Loading' \subseteq {q} /\ q \notin bodied
      BY <3>1 DEF Loading, RegistryInv, Allocated
    <3> QED
      BY <2>1, <2>4, <3>1, <3>2, ContactsUnchanged DEF NewModel
  <2> QED
    BY <1>1, <2>2, <2>3, <2>4 DEF LoadModel, Uncaught
<1>2. CASE LoadModelPlugin
  <2> SUFFICES ASSUME NEW p, p = load.ptr, NEW e, e = Head(load.todo)
               PROVE  ContactInv'
    OBVIOUS
  <2>1. /\ p \in Ptrs /\ e \in Entry /\ Loading = {p}
    BY <1>2 DEF LoadModelPlugin, TypeOK, WorldTypeOK, Loads, Loading
  <2>2. CASE DropModel(p) /\ load' = NoLoad
    BY <2>1, <2>2, ContactsAfterDrop DEF Loading
  <2>3. CASE DestroyWorld
    BY <2>3, ContactsDestroyed
  <2>4. CASE load' = NoLoad /\ UNCHANGED <<bodied, plugins, contactVars>>
    BY <2>4, ContactsUnchanged DEF Loading
  <2>5. CASE /\ ~PluginThrows(p, e) /\ ~PluginEscapes(p, e)
             /\ plugins' = IF e.enabled THEN plugins \cup {<<p, e.type>>} ELSE plugins
             /\ load' = [load EXCEPT !.todo = Tail(@)]
             /\ UNCHANGED <<bodied, contactVars>>
    <3>1. e.enabled => e.type \in Types
      BY <2>1, <2>5 DEF PluginThrows, PluginEscapes, Entry
    <3>2. load' # NoLoad /\ load'.ptr = p
      BY <1>2, <2>5, LoadGoesOn DEF LoadModelPlugin
    <3>3. Loading' = Loading
      BY <2>1, <3>2 DEF Loading
    <3> QED
      BY <2>1, <2>5, <3>1, <3>3, ContactsPluginLoaded, ContactsUnchanged
  <2> QED
    BY <1>2, <2>2, <2>3, <2>4, <2>5 DEF LoadModelPlugin, Uncaught
<1>3. CASE LoadModelDone
  <2>1. Loading' = {} /\ UNCHANGED <<bodied, plugins, contactVars>>
    BY <1>3 DEF LoadModelDone, Loading
  <2> QED
    BY <2>1, ContactsUnchanged
<1>4. ASSUME NEW name \in Names, DeleteModel(name)
      PROVE  ContactInv'
  <2>1. Loading' = Loading
    BY <1>4 DEF DeleteModel, Loading
  <2> QED
    BY <1>4, <2>1, ContactsAfterDrop DEF DeleteModel, TypeOK, WorldTypeOK
<1>5. ASSUME NEW name \in Names,
             \/ WorldPluginDelete(name) \/ DeleteService(name) \/ MoveService(name)
             \/ MenuDelete(name) \/ MarkerFeedback(name)
      PROVE  ContactInv'
  BY <1>4, <1>5, ContactsUnchanged
     DEF WorldPluginDelete, DeleteService, MoveService, MenuDelete, MarkerFeedback, worldVars,
         Loading
<1>6. ASSUME NEW layer \in Layers, WorldPluginRebuild(layer)
      PROVE  ContactInv'
  <2>1. /\ EndContacts({c \in touching : c[1][1] = layer \/ c[2][1] = layer}, plugins')
        /\ plugins' \subseteq plugins
        /\ bodied' = bodied /\ Loading' = Loading
    BY <1>6 DEF WorldPluginRebuild, worldVars, Loading
  <2>2. ContactsInWorld'
    BY <2>1 DEF EndContacts, ContactInv, ContactsInWorld
  <2> QED
    BY <2>1, <2>2, EndContactsCounted
<1>7. ASSUME NEW c \in Contact, EndContact(c)
      PROVE  ContactInv'
  <2>1. /\ EndContacts({c}, plugins') /\ {c} \in SUBSET touching
        /\ plugins' \subseteq plugins
        /\ bodied' = bodied /\ Loading' = Loading
    BY <1>7 DEF EndContact, worldVars, Loading
  <2>2. ContactsInWorld'
    BY <2>1 DEF EndContacts, ContactInv, ContactsInWorld
  <2> QED
    BY <2>1, <2>2, EndContactsCounted
<1>8. CASE MakeWorldThrows \/ SpinDone
  BY <1>8, ContactsDestroyed, ContactsUnchanged
     DEF MakeWorldThrows, SpinDone, worldVars, Loading
<1>9. CASE BeforePhysicsStep \/ UpdatePaused \/ AfterPhysicsStep
  BY <1>9, ContactLoop
<1>10. CASE \/ MakeWorldDone \/ PhysicsStep \/ UpdateMarkers \/ PauseService \/ ResumeService
            \/ TogglePauseService \/ Terminated \/ UNCHANGED vars
  BY <1>10, ContactsUnchanged
     DEF MakeWorldDone, PhysicsStep, UpdateMarkers, PauseService, ResumeService,
         TogglePauseService, SetPaused, Terminated, vars, worldVars, Loading
<1> QED
  BY <1>1, <1>2, <1>3, <1>5, <1>6, <1>7, <1>8, <1>9, <1>10, ContactBegins, ContactSolved DEF Next

THEOREM ContactsCorrect == Spec => []ContactInv
<1>1. Init => ContactInv
  <2> SUFFICES ASSUME Init PROVE ContactInv
    OBVIOUS
  <2>1. \A p \in Ptrs : ~Hears("Bumper", p) /\ ~Hears("BoolSensor", p)
    BY DEF Init, Hears
  <2> QED
    BY <2>1 DEF Init, ContactInv, ContactsInWorld, BumperRecord, BoolSensorRecord
<1>2. TypeOK /\ RegistryInv /\ ContactInv /\ [Next]_vars => ContactInv'
  BY ContactStep
<1> QED
  BY <1>1, <1>2, TypeCorrect, RegistryCorrect, PTL DEF Spec

(* A Bumper holds the contacts of its model that touch and are not         *)
(* excluded, and no other, so it never dereferences a contact that is gone *)
(* - however the contact went: by a physics step, with the model on its    *)
(* other side, or with a rebuilt layer.                                    *)
THEOREM BumperNeverStale == Spec => []BumperTracksContacts
<1>1. TypeOK /\ ContactInv => BumperTracksContacts
  BY DEF TypeOK, WorldTypeOK, ContactInv, BumperRecord, BumperTracksContacts
<1> QED
  BY <1>1, TypeCorrect, ContactsCorrect, PTL

(* The forces a Bumper publishes were solved in the same iteration.        *)
THEOREM BumperForcesCurrent == Spec => []BumperForcesAreCurrent
<1>1. TypeOK /\ ContactInv => BumperForcesAreCurrent
  BY DEF TypeOK, WorldTypeOK, ContactInv, BumperRecord, BumperForcesAreCurrent
<1> QED
  BY <1>1, TypeCorrect, ContactsCorrect, PTL

(* A BoolSensor counts exactly the contacts of its model.                  *)
THEOREM BoolSensorCountsContacts == Spec => []BoolSensorCounts
<1>1. TypeOK /\ ContactInv => BoolSensorCounts
  BY DEF TypeOK, WorldTypeOK, ContactInv, BoolSensorRecord, BoolSensorCounts
<1> QED
  BY <1>1, TypeCorrect, ContactsCorrect, PTL

(* What a BoolSensor publishes: true exactly if a contact of its model     *)
(* began since the last publication or lasts.                              *)
THEOREM BoolSensorNeverForgets == Spec => BoolSensorLatches
<1>1. ASSUME TypeOK, ContactInv, AfterPhysicsStep, NEW p \in models
      PROVE  /\ out'[p] = "false" => owed[p] = {} /\ NumTouching(p) = 0
             /\ out'[p] = "true" => owed[p] # {} \/ NumTouching(p) > 0
  <2>1. p \in Ptrs /\ BoolSensorRecord(p)
    BY <1>1 DEF TypeOK, WorldTypeOK, ContactInv
  <2>2. PICK due \in SUBSET {q \in Ptrs : Hears("BoolSensor", q)} :
          out' = [q \in Ptrs |-> IF q \notin due THEN "silent"
                                 ELSE IF hit[q] \/ collisions[q] > 0 THEN "true" ELSE "false"]
    BY <1>1 DEF AfterPhysicsStep
  <2>3. out'[p] = IF p \notin due THEN "silent"
                  ELSE IF hit[p] \/ collisions[p] > 0 THEN "true" ELSE "false"
    BY <2>1, <2>2
  <2>4. CASE p \notin due
    BY <2>3, <2>4
  <2>5. CASE p \in due
    <3>1. collisions[p] = NumTouching(p)
      BY <2>1, <2>2, <2>5 DEF BoolSensorRecord
    <3>2. NumTouching(p) \in Nat
      <4>1. IsFiniteSet({c \in touching : FilterContact(c, p)})
        BY <1>1, FS_Subset DEF TypeOK, ContactTypeOK
      <4> QED
        BY <4>1, FS_CardinalityType DEF NumTouching
    <3>3. out'[p] = IF hit[p] \/ NumTouching(p) > 0 THEN "true" ELSE "false"
      BY <2>3, <2>5, <3>1
    <3>4. hit[p] <=> owed[p] # {}
      BY <2>1 DEF BoolSensorRecord
    <3> QED
      BY <3>2, <3>3, <3>4
  <2> QED
    BY <2>4, <2>5
<1>2. TypeOK /\ ContactInv =>
        (AfterPhysicsStep => \A p \in models :
           /\ out'[p] = "false" => owed[p] = {} /\ NumTouching(p) = 0
           /\ out'[p] = "true" => owed[p] # {} \/ NumTouching(p) > 0)
  BY <1>1
<1> QED
  BY <1>2, TypeCorrect, ContactsCorrect, PTL DEF BoolSensorLatches
----------------------------------------------------------------------------
(***************************************************************************)
(* What MarkerDrag says of a drag, with its own loop and callback queue    *)
(* around the same markers.                                                *)
(*                                                                         *)
(* That a fed drag unpauses the simulation in the end rests on fairness.   *)
(* What it rests on besides is safety: while such a drag lasts, every      *)
(* look that update() took at the stamp found it fresh, so the first look  *)
(* that does not falls into the window and ends the drag.                  *)
(***************************************************************************)
CONSTANTS
  MaxQueue,    \* bound on the callbacks waiting in the callback queue
  PromptLoop   \* does the loop run update() at least every 0.9 s of wall time?

VARIABLES
  dragPc,      \* where the loop that MarkerDrag drives is
  held,        \* the marker whose mouse button the client holds down
  queue,       \* the callback queue
  quota,       \* callbacks the running spinOnce() still has to call
  fed          \* a pose update was accepted since the last MOUSE_DOWN

Dragging == INSTANCE MarkerDrag WITH pc <- dragPc

\* While a drag that was fed lasts, the stamp was fresh when last looked at.
FedDragFresh == PromptLoop /\ manipulating_model_ /\ fed => stampAge = "fresh"

\* The look of update() that finds the stamp of a fed drag older ends it.
FedDragEnds ==
  [][PromptLoop /\ fed /\ Dragging!LoopUpdate /\ stampAge' # "fresh"
       => ~manipulating_model_']_(Dragging!vars)

(* A callback or a request added to the queue leaves room for what the     *)
(* running spinOnce() has to call.                                         *)
LEMMA SendTypeOK ==
  ASSUME Dragging!TypeOK, NEW e \in Dragging!Feedback \cup {"spawn_model", "delete_model"},
         NEW name \in Names, Dragging!Send(e, name), quota' = quota, MaxQueue \in Nat
  PROVE  queue' \in Seq(Dragging!Callback) /\ Len(queue') <= MaxQueue /\ quota' \in 0..Len(queue')
<1>1. [event |-> e, marker |-> name] \in Dragging!Callback
  BY DEF Dragging!Callback
<1>2. queue' \in Seq(Dragging!Callback) /\ Len(queue') = Len(queue) + 1 /\ Len(queue) \in Nat
  BY <1>1 DEF Dragging!TypeOK, Dragging!Send
<1> QED
  BY <1>2 DEF Dragging!TypeOK, Dragging!Send

(* Every step of the clients and of the node keeps the types.              *)
LEMMA DragStepTypeOK ==
  ASSUME Dragging!DragAssumption, Dragging!TypeOK, [Dragging!Next]_(Dragging!vars)
  PROVE  Dragging!TypeOK'
<1>1. MaxQueue \in Nat
  BY DEF Dragging!DragAssumption
<1>2. ASSUME NEW name \in Names, Dragging!Press(name) PROVE Dragging!TypeOK'
  <2>1. queue' \in Seq(Dragging!Callback) /\ Len(queue') <= MaxQueue /\ quota' \in 0..Len(queue')
    BY <1>1, <1>2, SendTypeOK DEF Dragging!Press, Dragging!Feedback
  <2> QED
    BY <1>2, <2>1 DEF Dragging!TypeOK, Dragging!Press, MarkerTypeOK, markerVars, Dragging!MarkerTypeOK, Dragging!markerVars
<1>3. CASE Dragging!Drag
  <2>1. held \in Names
    BY <1>3 DEF Dragging!TypeOK, Dragging!Drag
  <2>2. queue' \in Seq(Dragging!Callback) /\ Len(queue') <= MaxQueue /\ quota' \in 0..Len(queue')
    BY <1>1, <1>3, <2>1, SendTypeOK DEF Dragging!Drag, Dragging!Feedback
  <2> QED
    BY <1>3, <2>2 DEF Dragging!TypeOK, Dragging!Drag, Dragging!MarkerTypeOK, Dragging!markerVars
<1>4. CASE Dragging!Release
  <2>1. held \in Names
    BY <1>4 DEF Dragging!TypeOK, Dragging!Release
  <2>2. queue' \in Seq(Dragging!Callback) /\ Len(queue') <= MaxQueue /\ quota' \in 0..Len(queue')
    BY <1>1, <1>4, <2>1, SendTypeOK DEF Dragging!Release, Dragging!Feedback
  <2> QED
    BY <1>4, <2>2 DEF Dragging!TypeOK, Dragging!Release, Dragging!MarkerTypeOK, Dragging!markerVars
<1>5. CASE Dragging!ClientGone
  BY <1>5 DEF Dragging!TypeOK, Dragging!ClientGone, Dragging!MarkerTypeOK, Dragging!markerVars
<1>6. ASSUME NEW name \in Names, NEW service \in {"spawn_model", "delete_model"},
             Dragging!Request(service, name)
      PROVE  Dragging!TypeOK'
  <2>1. queue' \in Seq(Dragging!Callback) /\ Len(queue') <= MaxQueue /\ quota' \in 0..Len(queue')
    BY <1>1, <1>6, SendTypeOK DEF Dragging!Request
  <2> QED
    BY <1>6, <2>1 DEF Dragging!TypeOK, Dragging!Request, Dragging!MarkerTypeOK, Dragging!markerVars
<1>7. CASE Dragging!SpinCallback
  <2>1. queue # <<>> /\ Len(queue) \in Nat /\ quota \in 1..Len(queue)
    BY <1>7 DEF Dragging!TypeOK, Dragging!SpinCallback
  <2>2. /\ Head(queue).marker \in Names
        /\ queue' \in Seq(Dragging!Callback) /\ Len(queue') = Len(queue) - 1
    <3>1. queue \in Seq(Dragging!Callback) /\ queue' = Tail(queue)
      BY <1>7 DEF Dragging!TypeOK, Dragging!SpinCallback
    <3>2. Head(queue) \in Dragging!Callback
      BY <2>1, <3>1
    <3>3. Head(queue).marker \in Names
      BY <3>2 DEF Dragging!Callback
    <3> QED
      BY <2>1, <3>1, <3>3
  <2>3. quota' \in 0..Len(queue') /\ Len(queue') <= MaxQueue
    BY <1>1, <1>7, <2>1, <2>2 DEF Dragging!TypeOK, Dragging!SpinCallback
  <2>4. Dragging!MarkerTypeOK' /\ fed' \in BOOLEAN
    <3>1. CASE Dragging!CallFeedback(Head(queue))
      BY <3>1, <2>2 DEF Dragging!TypeOK, Dragging!CallFeedback, Dragging!Feedback,
        Dragging!ProcessMouseDownFeedback, Dragging!ProcessPoseUpdateFeedback,
        Dragging!ProcessMouseUpFeedback, Dragging!MarkerTypeOK, Dragging!markerVars, Dragging!Ages
    <3>2. CASE Dragging!CallService(Head(queue))
      BY <3>2, <2>2 DEF Dragging!TypeOK, Dragging!CallService, Dragging!CreateInteractiveMarker,
        Dragging!DeleteInteractiveMarker, Dragging!MarkerTypeOK
    <3> QED
      BY <1>7, <3>1, <3>2 DEF Dragging!SpinCallback
  <2> QED
    BY <1>7, <2>2, <2>3, <2>4 DEF Dragging!TypeOK, Dragging!SpinCallback
<1>8. CASE Dragging!SpinDone
  BY <1>8 DEF Dragging!TypeOK, Dragging!SpinDone, Dragging!MarkerTypeOK, Dragging!markerVars
<1>9. CASE Dragging!LoopUpdate
  <2>1. Dragging!MarkerTypeOK'
    BY <1>9 DEF Dragging!TypeOK, Dragging!LoopUpdate, Dragging!Update, Dragging!LaterAges,
      Dragging!Ages, Dragging!MarkerTypeOK
  <2>2. Len(queue) \in Nat
    BY DEF Dragging!TypeOK
  <2> QED
    BY <1>9, <2>1, <2>2 DEF Dragging!TypeOK, Dragging!LoopUpdate
<1>10. CASE UNCHANGED Dragging!vars
  BY <1>10 DEF Dragging!TypeOK, Dragging!vars, Dragging!MarkerTypeOK, Dragging!markerVars
<1> QED
  BY <1>2, <1>3, <1>4, <1>5, <1>6, <1>7, <1>8, <1>9, <1>10 DEF Dragging!Next

(* The variables of the markers, the loop and the client always have their *)
(* types, and spinOnce() never has more to call than is queued.            *)
THEOREM DragTypeCorrect ==
  ASSUME Dragging!DragAssumption
  PROVE  Dragging!Spec => []Dragging!TypeOK
<1>1. Dragging!Init => Dragging!TypeOK
  <2> SUFFICES ASSUME Dragging!Init PROVE Dragging!TypeOK
    OBVIOUS
  <2>1. queue \in Seq(Dragging!Callback) /\ Len(queue) = 0
    BY DEF Dragging!Init
  <2>2. Dragging!MarkerTypeOK
    BY DEF Dragging!Init, Dragging!MarkerTypeOK, Dragging!Ages
  <2>3. Len(queue) <= MaxQueue /\ quota \in 0..Len(queue)
    BY <2>1 DEF Dragging!DragAssumption, Dragging!Init
  <2> QED
    BY <2>1, <2>2, <2>3 DEF Dragging!Init, Dragging!TypeOK
<1>2. Dragging!TypeOK /\ [Dragging!Next]_(Dragging!vars) => Dragging!TypeOK'
  BY DragStepTypeOK
<1> QED
  BY <1>1, <1>2, PTL DEF Dragging!Spec

(* With a prompt loop, a drag that was fed lasts only as long as every     *)
(* look at the stamp of its last pose update found it fresh.               *)
THEOREM FedDragIsFresh == Dragging!Spec => []FedDragFresh
<1>1. Dragging!Init => FedDragFresh
  BY DEF Dragging!Init, FedDragFresh
<1>2. ASSUME FedDragFresh, [Dragging!Next]_(Dragging!vars)
      PROVE  FedDragFresh'
  <2>1. CASE Dragging!SpinCallback
    <3>1. CASE Dragging!CallFeedback(Head(queue))
      BY <1>2, <3>1 DEF FedDragFresh, Dragging!CallFeedback, Dragging!Feedback,
        Dragging!ProcessMouseDownFeedback, Dragging!ProcessPoseUpdateFeedback,
        Dragging!ProcessMouseUpFeedback, Dragging!markerVars
    <3>2. CASE Dragging!CallService(Head(queue))
      BY <1>2, <3>2 DEF FedDragFresh, Dragging!CallService, Dragging!CreateInteractiveMarker,
        Dragging!DeleteInteractiveMarker
    <3> QED
      BY <2>1, <3>1, <3>2 DEF Dragging!SpinCallback
  <2>2. CASE Dragging!LoopUpdate
    BY <1>2, <2>2 DEF FedDragFresh, Dragging!LoopUpdate, Dragging!Update, Dragging!LaterAges
  <2>3. CASE UNCHANGED <<Dragging!markerVars, fed>>
    BY <1>2, <2>3 DEF FedDragFresh, Dragging!markerVars
  <2> QED
    BY <1>2, <2>1, <2>2, <2>3 DEF Dragging!Next, Dragging!Press, Dragging!Drag, Dragging!Release,
      Dragging!ClientGone, Dragging!Request, Dragging!SpinDone, Dragging!vars, Dragging!markerVars
<1> QED
  BY <1>1, <1>2, PTL DEF Dragging!Spec

(* So the first look that finds the stamp older falls into the window and  *)
(* ends the drag: with a prompt loop the simulation stays paused only      *)
(* while pose updates come, as the comment in update() says, and never     *)
(* because update() looked too late.                                       *)
THEOREM FedDragAlwaysEnds == Dragging!Spec => FedDragEnds
<1>1. FedDragFresh => (PromptLoop /\ fed /\ Dragging!LoopUpdate /\ stampAge' # "fresh"
                         => ~manipulating_model_')
  BY DEF FedDragFresh, Dragging!LoopUpdate, Dragging!Update, Dragging!LaterAges
<1> QED
  BY <1>1, FedDragIsFresh, PTL DEF FedDragEnds
=============================================================================
