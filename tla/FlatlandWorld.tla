---------------------------- MODULE FlatlandWorld ----------------------------
(***************************************************************************)
(* The life of a flatland_server node: the loop of SimulationManager::Main,*)
(* World::Update, the model list, the plugin list, Box2D's contacts and    *)
(* what two model plugins, Bumper and BoolSensor, record of them.          *)
(*                                                                         *)
(* One thread runs everything, so the interleavings are those of the calls *)
(* it makes: services and marker feedback inside ros::spinOnce(), world    *)
(* plugins that spawn and delete models inside BeforePhysicsStep, contact  *)
(* callbacks from inside b2World::Step and from inside ~Body.  Loading a   *)
(* model takes one step per plugin, because each may throw; while a load   *)
(* is in progress nothing else runs.                                       *)
(*                                                                         *)
(* A Model object is its address: an address freed by `delete m` may be    *)
(* handed out again by the next `new Model`, so that a pointer kept too    *)
(* long would denote another model.                                        *)
(***************************************************************************)
EXTENDS InteractiveMarkerManager, Integers, Sequences, FiniteSets

CONSTANTS
  Ptrs,        \* addresses of Model objects
  NoName,      \* the name of an address that is not allocated
  Files,       \* model YAML files
  NoFile,      \* the file of an address that is not allocated
  BadFiles,    \* those MakeModel rejects: of these,
  UnlistedFiles, \*   the files whose "plugins" is no list,
  OddFiles,    \*   and those in which yaml-cpp throws, at a key that is no string
  PluginsOf,   \* PluginsOf[f]: the "plugins" list of file f
  BodyNames,   \* names of the bodies of a model
  Excluded,    \* the Bumper's "exclude" list
  Layers,      \* the entities that are not models
  SensorBody,  \* the body a BoolSensor is configured with
  NoLoad,      \* no LoadModel is in progress
  MaxContacts  \* bound on the contacts that touch at the same time

Types == {"Bumper", "BoolSensor"}
Entry == [type : Types \cup {"Faulty", "OddKey"}, enabled : BOOLEAN]
Body == (Ptrs \X BodyNames) \cup (Layers \X {"map"})
Contact == {c \in Body \X Body : c[1] # c[2] /\ (c[1][1] \in Ptrs \/ c[2][1] \in Ptrs)}
Callers == {"make", "before", "spin"}

ASSUME WorldAssumption ==
  /\ NoName \notin Names
  /\ Ptrs \cap Layers = {}
  /\ NoFile \notin Files
  /\ BadFiles \subseteq Files
  /\ UnlistedFiles \subseteq BadFiles /\ OddFiles \subseteq BadFiles
  /\ PluginsOf \in [Files -> Seq(Entry)]
  /\ Excluded \subseteq BodyNames
  /\ SensorBody \in BodyNames
  /\ NoLoad \notin [ptr : Ptrs, todo : Seq(Entry), caller : Callers]
  /\ MaxContacts \in Nat

VARIABLES
  pc,             \* where the loop is
  nameOf,         \* the name_ of the model at an address, NoName when free
  fileOf,         \* its file; plugins_reader_ is the "plugins" list of it
  bodied,         \* the models whose bodies are in the physics world
  models,         \* World::models_
  load,           \* the LoadModel in progress
  plugins,        \* PluginManager::model_plugins_
  touching,       \* the b2Contacts that touch
  states,         \* Bumper::contact_states_: its keys,
  solved,         \*   and those whose num_count is not 0
  collisions,     \* BoolSensor::collisions_
  hit,            \* BoolSensor::hit_something_
  service_paused_,
  reply,          \* the response of the last spawn, delete or move service
  out,            \* what each BoolSensor published in this iteration
  owed,           \* history: the bodies whose contacts began since the last publish
  solver          \* history: contacts solved since the iteration began

worldVars == <<nameOf, fileOf, bodied, models, load, plugins, service_paused_>>
sensorVars == <<states, solved, collisions, hit, out, owed>>
contactVars == <<touching, sensorVars, solver>>
vars == <<pc, worldVars, contactVars, reply, markerVars>>

Pcs == {"make", "update", "before", "step", "markers", "spin", "down"}
Loads == [ptr : Ptrs, todo : Seq(Entry), caller : Callers]
NoReply == [op |-> "none", name |-> NoName, success |-> FALSE]
Reply(op, name, success) == [op |-> op, name |-> name, success |-> success]
Replies == [op : {"spawn", "delete", "move"}, name : Names, success : BOOLEAN] \cup {NoReply}

Live == {nameOf[p] : p \in models}
Free == {p \in Ptrs : nameOf[p] = NoName}
Plugins(p) == {q \in plugins : q[1] = p}
LoadedTypes(p) == {q[2] : q \in Plugins(p)}

\* The types of the plugins that a list asks for.
Enabled(s) == {s[i].type : i \in {j \in 1..Len(s) : s[j].enabled}}
Reader(p) == PluginsOf[fileOf[p]]

----------------------------------------------------------------------------
(* Contacts.  A contact is the pair of its fixtures' bodies, A and B.      *)

\* ModelPlugin::FilterContact for a plugin of model p: its own side is fixture
\* A when both bodies are the model's.
FilterContact(c, p) == c[1][1] = p \/ c[2][1] = p
ThisBody(c, p) == IF c[1][1] = p THEN c[1] ELSE c[2]
Ignored(c, p) == ThisBody(c, p)[2] \in Excluded

\* The bodies of model p in contact c.
OwnBodies(c, p) == {b[2] : b \in {x \in {c[1], c[2]} : x[1] = p}}

Hears(type, p) == <<p, type>> \in plugins
NumTouching(p) == Cardinality({c \in touching : FilterContact(c, p)})

\* EndContact of every contact of C, as the plugins that remain in ps hear it.
EndContacts(C, ps) ==
  LET mine(p) == {c \in C : FilterContact(c, p)} IN
  /\ touching' = touching \ C
  /\ solver' = solver \ C
  /\ states' = [p \in Ptrs |-> IF <<p, "Bumper">> \in ps THEN states[p] \ C ELSE {}]
  /\ solved' = [p \in Ptrs |-> IF <<p, "Bumper">> \in ps THEN solved[p] \ C ELSE {}]
  /\ collisions' = [p \in Ptrs |-> IF <<p, "BoolSensor">> \in ps
                                   THEN collisions[p] - Cardinality(mine(p)) ELSE 0]
  /\ hit' = [p \in Ptrs |-> hit[p] /\ <<p, "BoolSensor">> \in ps]
  /\ owed' = [p \in Ptrs |-> IF <<p, "BoolSensor">> \in ps THEN owed[p] ELSE {}]
  /\ UNCHANGED out

\* Mutant: a BoolSensor that latched a hit does not count the next contact.
BeginContactOnce(c) ==
  /\ pc = "step"
  /\ load = NoLoad
  /\ Cardinality(touching) < MaxContacts
  /\ c \in Contact
  /\ \A i \in {1, 2} : c[i][1] \in bodied \cup Layers
  /\ c \notin touching /\ <<c[2], c[1]>> \notin touching
  /\ touching' = touching \cup {c}
  /\ states' = [p \in Ptrs |->
       IF Hears("Bumper", p) /\ FilterContact(c, p) /\ ~Ignored(c, p)
       THEN states[p] \cup {c} ELSE states[p]]
  /\ LET heard(p) == Hears("BoolSensor", p) /\ FilterContact(c, p) IN
       /\ collisions' = [p \in Ptrs |-> IF heard(p) /\ ~hit[p] THEN collisions[p] + 1 ELSE collisions[p]]
       /\ hit' = [p \in Ptrs |-> hit[p] \/ heard(p)]
       /\ owed' = [p \in Ptrs |-> IF heard(p) THEN owed[p] \cup OwnBodies(c, p) ELSE owed[p]]
  /\ UNCHANGED <<pc, worldVars, solved, solver, out, reply, markerVars>>

\* Only a step of the physics makes fixtures touch.
BeginContact(c) ==
  /\ pc = "step"
  /\ load = NoLoad
  /\ Cardinality(touching) < MaxContacts
  /\ c \in Contact
  /\ \A i \in {1, 2} : c[i][1] \in bodied \cup Layers
  /\ c \notin touching /\ <<c[2], c[1]>> \notin touching
  /\ touching' = touching \cup {c}
  /\ states' = [p \in Ptrs |->
       IF Hears("Bumper", p) /\ FilterContact(c, p) /\ ~Ignored(c, p)
       THEN states[p] \cup {c} ELSE states[p]]
  /\ LET heard(p) == Hears("BoolSensor", p) /\ FilterContact(c, p) IN
       /\ collisions' = [p \in Ptrs |-> IF heard(p) THEN collisions[p] + 1 ELSE collisions[p]]
       /\ hit' = [p \in Ptrs |-> hit[p] \/ heard(p)]
       /\ owed' = [p \in Ptrs |-> IF heard(p) THEN owed[p] \cup OwnBodies(c, p) ELSE owed[p]]
  /\ UNCHANGED <<pc, worldVars, solved, solver, out, reply, markerVars>>

EndContact(c) ==
  /\ pc = "step"
  /\ c \in touching
  /\ EndContacts({c}, plugins)
  /\ UNCHANGED <<pc, worldVars, reply, markerVars>>

\* The solver reports the impulses of a contact between solid fixtures.
PostSolve(c) ==
  /\ pc = "step"
  /\ c \in touching
  /\ solver' = solver \cup {c}
  /\ solved' = [p \in Ptrs |-> IF c \in states[p] THEN solved[p] \cup {c} ELSE solved[p]]
  /\ UNCHANGED <<pc, worldVars, touching, states, collisions, hit, out, owed, reply, markerVars>>

----------------------------------------------------------------------------
(* Models.                                                                 *)

\* ~World: the contact listener is removed first, so nothing is heard.  An
\* exception that nobody catches ends the process, and everything with it.
DestroyWorld ==
  /\ pc' = "down"
  /\ nameOf' = [p \in Ptrs |-> NoName]
  /\ fileOf' = [p \in Ptrs |-> NoFile]
  /\ bodied' = {}
  /\ models' = {}
  /\ load' = NoLoad
  /\ plugins' = {}
  /\ touching' = {} /\ solver' = {}
  /\ states' = [p \in Ptrs |-> {}] /\ solved' = [p \in Ptrs |-> {}]
  /\ collisions' = [p \in Ptrs |-> 0]
  /\ hit' = [p \in Ptrs |-> FALSE] /\ owed' = [p \in Ptrs |-> {}]
  /\ markers' = {}
  /\ UNCHANGED <<service_paused_, out, manipulating_model_, stampAge>>

\* Mutant: the plugins of p are not deleted with it.
DropModelKeepsPlugins(p) ==
  /\ nameOf' = [nameOf EXCEPT ![p] = NoName]
  /\ fileOf' = [fileOf EXCEPT ![p] = NoFile]
  /\ bodied' = bodied \ {p}
  /\ EndContacts({c \in touching : FilterContact(c, p)}, plugins)
  /\ UNCHANGED plugins

\* Mutant: the contact listener is off while the bodies are destroyed.
DropModelUnheard(p) ==
  LET gone == {c \in touching : FilterContact(c, p)} IN
  /\ plugins' = plugins \ Plugins(p)
  /\ nameOf' = [nameOf EXCEPT ![p] = NoName]
  /\ fileOf' = [fileOf EXCEPT ![p] = NoFile]
  /\ bodied' = bodied \ {p}
  /\ touching' = touching \ gone
  /\ solver' = solver \ gone
  /\ UNCHANGED sensorVars

\* DeleteModelPlugin(p), `delete p`: the plugins of p are gone before its
\* bodies are, so only the plugins of other models hear the contacts end.
DropModel(p) ==
  LET rest == plugins \ Plugins(p) IN
  /\ plugins' = rest
  /\ nameOf' = [nameOf EXCEPT ![p] = NoName]
  /\ fileOf' = [fileOf EXCEPT ![p] = NoFile]
  /\ bodied' = bodied \ {p}
  /\ EndContacts({c \in touching : FilterContact(c, p)}, rest)

\* Mutant: the name is not checked.
LoadThrowsBadFile(name, file) == file \in BadFiles

\* LoadModel up to the plugins throws: a duplicate name, or a file MakeModel
\* rejects.
LoadThrows(name, file) == name \in Live \/ file \in BadFiles

\* MakeModel deletes the model for the YAMLExceptions of its bodies and joints.
\* "plugins" is read before the try: the model stays, without a body.  What
\* yaml-cpp throws is no YAMLException: the model stays with the bodies so far.
Rejected(name, file) ==
  \/ /\ name \in Live \/ file \notin UnlistedFiles \cup OddFiles
     /\ UNCHANGED <<nameOf, fileOf, bodied>>
  \/ /\ name \notin Live
     /\ file \in UnlistedFiles \cup OddFiles
     /\ \E p \in Free :
          /\ nameOf' = [nameOf EXCEPT ![p] = name]
          /\ fileOf' = [fileOf EXCEPT ![p] = file]
          /\ \/ UNCHANGED bodied
             \/ file \in OddFiles /\ bodied' = bodied \cup {p}

NewModel(name, file, caller) ==
  \E p \in Free :
    /\ nameOf' = [nameOf EXCEPT ![p] = name]
    /\ fileOf' = [fileOf EXCEPT ![p] = file]
    /\ bodied' = bodied \cup {p}
    /\ load' = [ptr |-> p, todo |-> PluginsOf[file], caller |-> caller]
    /\ UNCHANGED <<models, plugins, service_paused_>>

\* ServiceManager::SpawnModel reports any exception; FaultInjector carries on
\* after flatland's own.
Caught(caller, odd, name) ==
  /\ caller = "spin" \/ (caller = "before" /\ ~odd)
  /\ reply' = IF caller = "spin" THEN Reply("spawn", name, FALSE) ELSE reply
  /\ UNCHANGED <<pc, models, service_paused_, markerVars>>

\* MakeWorld deletes the world, or Main ends; and nobody catches what yaml-cpp
\* throws in a world plugin.
Uncaught(caller, odd) ==
  /\ caller = "make" \/ (caller = "before" /\ odd)
  /\ DestroyWorld
  /\ UNCHANGED reply

LoadModel(name, file) ==
  LET odd == name \notin Live /\ file \in OddFiles IN
  /\ pc \in Callers
  /\ load = NoLoad
  /\ \/ /\ LoadThrows(name, file)
        /\ Caught(pc, odd, name)
        /\ Rejected(name, file)
        /\ UNCHANGED <<load, plugins, contactVars>>
     \/ /\ LoadThrows(name, file)
        /\ Uncaught(pc, odd)
     \/ /\ ~LoadThrows(name, file)
        /\ NewModel(name, file, pc)
        /\ UNCHANGED <<pc, contactVars, reply, markerVars>>

\* LoadModelPlugin throws: the name is taken, or Initialize failed.  The name
\* is checked before "enabled".
Taken(p, e) == <<p, e.type>> \in plugins
PluginThrows(p, e) == Taken(p, e) \/ (e.enabled /\ e.type = "Faulty")

\* A key of the entry is no string: yaml-cpp's exception passes LoadModel by.
PluginEscapes(p, e) == ~Taken(p, e) /\ e.enabled /\ e.type = "OddKey"

LoadModelPlugin ==
  /\ load # NoLoad
  /\ load.todo # <<>>
  /\ LET p == load.ptr
         e == Head(load.todo)
     IN \/ /\ PluginThrows(p, e)
           /\ Caught(load.caller, FALSE, nameOf[p])
           /\ DropModel(p)
           /\ load' = NoLoad
        \/ /\ PluginEscapes(p, e)
           /\ Caught(load.caller, TRUE, nameOf[p])
           /\ load' = NoLoad
           /\ UNCHANGED <<nameOf, fileOf, bodied, plugins, contactVars>>
        \/ /\ PluginThrows(p, e) \/ PluginEscapes(p, e)
           /\ Uncaught(load.caller, PluginEscapes(p, e))
        \/ /\ ~PluginThrows(p, e) /\ ~PluginEscapes(p, e)
           /\ plugins' = IF e.enabled THEN plugins \cup {<<p, e.type>>} ELSE plugins
           /\ load' = [load EXCEPT !.todo = Tail(@)]
           /\ UNCHANGED <<pc, nameOf, fileOf, bodied, models, service_paused_,
                          contactVars, reply, markerVars>>

\* Mutant: the model enters the world before its plugins are loaded.
LoadModelDoneEarly ==
  /\ load # NoLoad
  /\ models' = models \cup {load.ptr}
  /\ load' = NoLoad
  /\ CreateInteractiveMarker(nameOf[load.ptr])
  /\ reply' = IF load.caller = "spin" THEN Reply("spawn", nameOf[load.ptr], TRUE) ELSE reply
  /\ UNCHANGED <<pc, nameOf, fileOf, bodied, plugins, service_paused_, contactVars>>

\* All plugins are loaded: the model enters the world and gets its marker.
LoadModelDone ==
  /\ load # NoLoad
  /\ load.todo = <<>>
  /\ models' = models \cup {load.ptr}
  /\ load' = NoLoad
  /\ CreateInteractiveMarker(nameOf[load.ptr])
  /\ reply' = IF load.caller = "spin" THEN Reply("spawn", nameOf[load.ptr], TRUE) ELSE reply
  /\ UNCHANGED <<pc, nameOf, fileOf, bodied, plugins, service_paused_, contactVars>>

\* Mutant: the marker stays.
DeleteModelKeepsMarker(name) ==
  \E p \in models :
    /\ nameOf[p] = name
    /\ DropModel(p)
    /\ models' = models \ {p}
    /\ UNCHANGED <<pc, load, service_paused_, markerVars>>

\* World::DeleteModel of a model that exists; the menu callback does the same.
DeleteModel(name) ==
  \E p \in models :
    /\ nameOf[p] = name
    /\ DropModel(p)
    /\ models' = models \ {p}
    /\ DeleteInteractiveMarker(name)
    /\ UNCHANGED <<pc, load, service_paused_>>

----------------------------------------------------------------------------
(* The loop.                                                               *)

\* MakeWorld: the YAML's models are loaded by LoadModel with pc = "make"; then
\* the world plugins, any of which may throw.
MakeWorldDone ==
  /\ pc = "make"
  /\ load = NoLoad
  /\ pc' = "update"
  /\ UNCHANGED <<worldVars, contactVars, reply, markerVars>>

MakeWorldThrows ==
  /\ pc = "make"
  /\ load = NoLoad
  /\ DestroyWorld
  /\ UNCHANGED reply

IsPaused == service_paused_ \/ manipulating_model_

\* Mutant: the Bumpers do not reset their contact states.
BeforePhysicsStepKeepsForces ==
  /\ pc = "update"
  /\ ~IsPaused
  /\ pc' = "before"
  /\ solver' = {}
  /\ out' = [p \in Ptrs |-> "silent"]
  /\ UNCHANGED <<worldVars, touching, states, solved, collisions, hit, owed, reply, markerVars>>

\* World::Update up to the world plugins' BeforePhysicsStep: each Bumper
\* clears the impulses of the previous step.
BeforePhysicsStep ==
  /\ pc = "update"
  /\ ~IsPaused
  /\ pc' = "before"
  /\ solved' = [p \in Ptrs |-> {}]
  /\ solver' = {}
  /\ out' = [p \in Ptrs |-> "silent"]
  /\ UNCHANGED <<worldVars, touching, states, collisions, hit, owed, reply, markerVars>>

UpdatePaused ==
  /\ pc = "update"
  /\ IsPaused
  /\ pc' = "markers"
  /\ out' = [p \in Ptrs |-> "silent"]
  /\ UNCHANGED <<worldVars, touching, states, solved, collisions, hit, owed, solver,
                 reply, markerVars>>

\* FaultInjector removes an obstacle it spawned (by name; absence is caught).
WorldPluginDelete(name) ==
  /\ pc = "before"
  /\ load = NoLoad
  /\ DeleteModel(name)
  /\ UNCHANGED reply

\* DynamicMap rebuilds a layer: its fixtures are destroyed, their contacts end.
WorldPluginRebuild(layer) ==
  /\ pc = "before"
  /\ load = NoLoad
  /\ EndContacts({c \in touching : c[1][1] = layer \/ c[2][1] = layer}, plugins)
  /\ UNCHANGED <<pc, worldVars, reply, markerVars>>

PhysicsStep ==
  /\ pc = "before"
  /\ load = NoLoad
  /\ pc' = "step"
  /\ UNCHANGED <<worldVars, contactVars, reply, markerVars>>

\* Mutant: the current state is published, without the latch.
AfterPhysicsStepNow ==
  /\ pc = "step"
  /\ pc' = "markers"
  /\ \E due \in SUBSET {p \in Ptrs : Hears("BoolSensor", p)} :
       /\ out' = [p \in Ptrs |-> IF p \notin due THEN "silent"
                                 ELSE IF collisions[p] > 0 THEN "true" ELSE "false"]
       /\ hit' = [p \in Ptrs |-> hit[p] /\ p \notin due]
       /\ owed' = [p \in Ptrs |-> IF p \in due THEN {} ELSE owed[p]]
  /\ UNCHANGED <<worldVars, touching, states, solved, collisions, solver, reply, markerVars>>

\* The BoolSensors whose update timer fires publish.
AfterPhysicsStep ==
  /\ pc = "step"
  /\ pc' = "markers"
  /\ \E due \in SUBSET {p \in Ptrs : Hears("BoolSensor", p)} :
       /\ out' = [p \in Ptrs |-> IF p \notin due THEN "silent"
                                 ELSE IF hit[p] \/ collisions[p] > 0 THEN "true" ELSE "false"]
       /\ hit' = [p \in Ptrs |-> hit[p] /\ p \notin due]
       /\ owed' = [p \in Ptrs |-> IF p \in due THEN {} ELSE owed[p]]
  /\ UNCHANGED <<worldVars, touching, states, solved, collisions, solver, reply, markerVars>>

UpdateMarkers ==
  /\ pc = "markers"
  /\ pc' = "spin"
  /\ Update(FALSE)
  /\ UNCHANGED <<worldVars, contactVars, reply>>

\* ros::spinOnce returns; ros::ok() and run_simulator_ decide what follows.
SpinDone ==
  /\ pc = "spin"
  /\ load = NoLoad
  /\ reply' = NoReply
  /\ \/ pc' = "update" /\ UNCHANGED <<worldVars, contactVars, markerVars>>
     \/ DestroyWorld

----------------------------------------------------------------------------
(* Callbacks of ros::spinOnce(); spawn_model is LoadModel with pc = "spin". *)

\* Mutant: the response does not tell of the failure.
DeleteServiceOptimist(name) ==
  /\ pc = "spin"
  /\ load = NoLoad
  /\ reply' = Reply("delete", name, TRUE)
  /\ \/ DeleteModel(name)
     \/ /\ name \notin Live
        /\ UNCHANGED <<pc, worldVars, contactVars, markerVars>>

DeleteService(name) ==
  /\ pc = "spin"
  /\ load = NoLoad
  /\ reply' = Reply("delete", name, name \in Live)
  /\ \/ DeleteModel(name)
     \/ /\ name \notin Live
        /\ UNCHANGED <<pc, worldVars, contactVars, markerVars>>

\* SetPose moves the bodies; contacts are only re-evaluated by the next step.
MoveService(name) ==
  /\ pc = "spin"
  /\ load = NoLoad
  /\ reply' = Reply("move", name, name \in Live)
  /\ UNCHANGED <<pc, worldVars, contactVars, markerVars>>

SetPaused(paused) ==
  /\ pc = "spin"
  /\ load = NoLoad
  /\ service_paused_' = paused
  /\ UNCHANGED <<pc, nameOf, fileOf, bodied, models, load, plugins, contactVars, reply, markerVars>>

PauseService == SetPaused(TRUE)
ResumeService == SetPaused(FALSE)
TogglePauseService == SetPaused(~service_paused_)

\* "Delete Model" in the context menu of a marker.
MenuDelete(name) ==
  /\ pc = "spin"
  /\ load = NoLoad
  /\ name \in markers
  /\ DeleteModel(name)
  /\ UNCHANGED reply

\* Feedback on a marker the server knows; MOUSE_UP also moves the model.
MarkerFeedback(name) ==
  /\ pc = "spin"
  /\ load = NoLoad
  /\ name \in markers
  /\ ProcessMouseDownFeedback \/ ProcessPoseUpdateFeedback \/ ProcessMouseUpFeedback
  /\ UNCHANGED <<pc, worldVars, contactVars, reply>>

Terminated == pc = "down" /\ UNCHANGED vars

----------------------------------------------------------------------------
Init ==
  /\ pc = "make"
  /\ nameOf = [p \in Ptrs |-> NoName]
  /\ fileOf = [p \in Ptrs |-> NoFile]
  /\ bodied = {}
  /\ models = {}
  /\ load = NoLoad
  /\ plugins = {}
  /\ touching = {} /\ solver = {}
  /\ states = [p \in Ptrs |-> {}] /\ solved = [p \in Ptrs |-> {}]
  /\ collisions = [p \in Ptrs |-> 0]
  /\ hit = [p \in Ptrs |-> FALSE] /\ owed = [p \in Ptrs |-> {}]
  /\ out = [p \in Ptrs |-> "silent"]
  /\ service_paused_ = FALSE
  /\ reply = NoReply
  /\ MarkerInit

Next ==
  \/ \E name \in Names, file \in Files : LoadModel(name, file)
  \/ LoadModelPlugin
  \/ LoadModelDone
  \/ MakeWorldDone
  \/ MakeWorldThrows
  \/ BeforePhysicsStep
  \/ UpdatePaused
  \/ \E name \in Names : WorldPluginDelete(name)
  \/ \E layer \in Layers : WorldPluginRebuild(layer)
  \/ PhysicsStep
  \/ \E c \in Contact : BeginContact(c) \/ EndContact(c) \/ PostSolve(c)
  \/ AfterPhysicsStep
  \/ UpdateMarkers
  \/ SpinDone
  \/ \E name \in Names : DeleteService(name) \/ MoveService(name)
                         \/ MenuDelete(name) \/ MarkerFeedback(name)
  \/ PauseService
  \/ ResumeService
  \/ TogglePauseService
  \/ Terminated

Spec == Init /\ [][Next]_vars

----------------------------------------------------------------------------
(* Properties.                                                             *)

\* The model being loaded has a name already.
WorldTypeOK ==
  /\ nameOf \in [Ptrs -> Names \cup {NoName}]
  /\ fileOf \in [Ptrs -> Files \cup {NoFile}]
  /\ models \subseteq Ptrs
  /\ bodied \subseteq Ptrs
  /\ load \in Loads \cup {NoLoad}
  /\ load # NoLoad => nameOf[load.ptr] \in Names
  /\ plugins \subseteq Ptrs \X Types
  /\ service_paused_ \in BOOLEAN

ContactTypeOK ==
  /\ touching \subseteq Contact
  /\ IsFiniteSet(touching)
  /\ solver \subseteq Contact
  /\ states \in [Ptrs -> SUBSET Contact]
  /\ solved \in [Ptrs -> SUBSET Contact]
  /\ collisions \in [Ptrs -> Int]
  /\ hit \in [Ptrs -> BOOLEAN]
  /\ owed \in [Ptrs -> SUBSET BodyNames]
  /\ out \in [Ptrs -> {"silent", "true", "false"}]

(* Every variable keeps its type in every order of loads, contacts and     *)
(* callbacks: a response names a model, contact counts are integers, a     *)
(* loading model is allocated.                                             *)
TypeOK ==
  /\ MarkerTypeOK
  /\ pc \in Pcs
  /\ WorldTypeOK
  /\ ContactTypeOK
  /\ reply \in Replies

\* The model being loaded, if there is one.
Loading == IF load = NoLoad THEN {} ELSE {load.ptr}

(* "name is unique, so there will only be one object with this name", says *)
(* World::DeleteModel: no two models of the world, and no model that is    *)
(* being loaded, share a name, whatever spawns and deletes came before.    *)
NamesUnique ==
  \A p, q \in models \cup Loading : nameOf[p] = nameOf[q] => p = q

\* Models that are allocated although nothing refers to them any more.
Lost == {p \in Ptrs \ Free : p \notin models \cup Loading}

\* Thrown while the model was made, outside the try or by yaml-cpp.
LeftByMakeModel(p) ==
  /\ fileOf[p] \in UnlistedFiles \cup OddFiles
  /\ Plugins(p) = {}
  /\ p \in bodied => fileOf[p] \in OddFiles

\* Thrown by yaml-cpp in an entry of the model's list.
LeftByLoadModel(p) ==
  /\ fileOf[p] \notin BadFiles
  /\ "OddKey" \in Enabled(Reader(p))
  /\ LoadedTypes(p) \subseteq Enabled(Reader(p)) \ {"OddKey"}

(* Whatever fails half-way, is deleted or shut down, no plugin and no body *)
(* outlives its model, whose address may be reused, and what is built of a *)
(* model that is not in the world is freed - except by the two exceptions  *)
(* that pass by the code that would free it: of a model they leave no      *)
(* plugin, and no body unless yaml-cpp threw; or a part of the plugins of  *)
(* a list with a key that is no string.                                    *)
NothingElseLeftBehind ==
  /\ \A q \in plugins : q[1] \notin Free
  /\ models \cup Loading \subseteq bodied /\ bodied \cap Free = {}
  /\ \A p \in Lost : LeftByMakeModel(p) \/ LeftByLoadModel(p)

(* A model is in the world with all the enabled plugins of its file, or it *)
(* is not in the world, whichever of its plugins failed and how.           *)
AllPluginsLoaded == \A p \in models : LoadedTypes(p) = Enabled(Reader(p))

(* Each model in the world has an interactive marker and no other name has *)
(* one: update() indexes the models by the names of the markers.           *)
MarkersMatchModels == markers = Live

(* The contacts a Bumper holds, by address, are exactly the contacts of    *)
(* its model that touch now and are not excluded.  A contact that ends     *)
(* while a model is being deleted, or while a layer is rebuilt, outside    *)
(* b2World::Step, is no exception: AfterPhysicsStep would dereference it.  *)
BumperTracksContacts ==
  \A p \in models : states[p] =
    IF Hears("Bumper", p)
    THEN {c \in touching : FilterContact(c, p) /\ ~Ignored(c, p)} ELSE {}

(* The forces a Bumper publishes are of this iteration: the contacts with  *)
(* a nonzero num_count are those the solver solved since the iteration     *)
(* began and that still touch.                                             *)
BumperForcesAreCurrent ==
  pc \in {"step", "markers"} => \A p \in models : solved[p] = states[p] \cap solver

(* A BoolSensor's counter is the number of contacts of its model: begins   *)
(* and ends stay paired over spawns, deletions and rebuilt layers.         *)
BoolSensorCounts ==
  \A p \in models : Hears("BoolSensor", p) => collisions[p] = NumTouching(p)

(* bool_sensor.rst: "if there is a collision since the previous            *)
(* publishing, it will always publish at least one true"; and it publishes *)
(* true only for a collision since then or one that lasts.                 *)
BoolSensorLatches ==
  [][AfterPhysicsStep => \A p \in models :
       /\ out'[p] = "false" => owed[p] = {} /\ NumTouching(p) = 0
       /\ out'[p] = "true" => owed[p] # {} \/ NumTouching(p) > 0]_vars

(* bool_sensor.rst: "The boolean sensor plugin attaches to a single body   *)
(* of a model and publishes true if something collides with it".           *)
BoolSensorOnlyItsBody ==
  [][AfterPhysicsStep => \A p \in models :
       out'[p] = "true" => \/ SensorBody \in owed[p]
                           \/ \E c \in touching : SensorBody \in OwnBodies(c, p)]_vars

Registry == INSTANCE ModelRegistry WITH live <- Live

(* The services implement the abstract registry: a spawn that takes many   *)
(* steps and may fail in any of them takes effect in one step or not at    *)
(* all, and its response is true.                                          *)
ImplementsRegistry == Registry!Spec
=============================================================================
