# A TLA+ verification of flatland

flatland is a 2D robot simulator for ROS: one process, `flatland_server`, steps a Box2D world
in a loop, serves requests to spawn, delete, move and pause, and lets plugins read and change
the world in every step.  Around it, a scenario generator starts simulator and observer again
and again to find where a navigation algorithm begins to fail.  The specifications here model
what can go wrong in that life: partial failures, orders of calls nobody wrote a test for,
pointers kept too long, queues, worker threads, faults injected on purpose, processes that hang
or crash, and a broad phase that must not miss a pair.  Everything is translated from the
source; `PROJECT.json` maps each definition to the lines it stands for.

Contents: [inventory](#inventory), [modules](#modules-and-how-they-correspond-to-the-code),
[runs](#what-the-runs-check), [proofs](#what-is-proved),
[disagreements](#where-the-code-and-its-documentation-disagree), [not modelled](#not-modelled),
[plan](#plan).

## Inventory

### Parts of the system

| Part | State it keeps | Operations | Correct when |
|---|---|---|---|
| Simulation loop (`simulation_manager.cpp`) | the `World`, the `Timekeeper`, `run_simulator_` | `Main`, `Shutdown` | one iteration is `World::Update`, then `ros::spinOnce`; the world is destroyed exactly once, on every exit |
| Services (`service_manager.cpp`) | none of its own | spawn, delete, move, pause, resume, toggle_pause | a request takes effect completely or not at all, and its response says which |
| World (`world.cpp`, `model.cpp`) | `models_`, `layers_`, `service_paused_`, the marker manager, the plugin manager, the spill overlay | `MakeWorld`, `LoadModel`, `DeleteModel`, `MoveModel`, `Update`, pause | names are unique; a failed load leaves no model in the world and what it built is freed (two exceptions pass by that, see below); a deletion removes the model, its plugins and its marker |
| Plugin manager (`plugin_manager.cpp`, `model_plugin.cpp`) | `model_plugins_`, `world_plugins_` | load, delete by model, fan-out of the step and contact callbacks | no plugin outlives its model; each contact reaches the plugins of the models in it |
| Bodies and layers (`body.cpp`, `layer.cpp`, `joint.cpp`) | Box2D bodies, fixtures, user data | create, destroy, rebuild from a bitmap | contacts that end by destruction are reported like the others |
| Box2D (`thirdparty/Box2D`) | the tree of boxes, the move buffer, the contact list, who is awake | `Step`, `CreateBody`, `DestroyBody`, `CreateFixture`, `DestroyFixture`, `SetTransform`, `RayCast` | no pair is missed, contacts are current, continuous physics lets no body tunnel unless it gives a contact up, a sleeper wakes up when its support goes |
| Bumper | `contact_states_` (keyed by the address of a `b2Contact`), `latency_queue_` | contact callbacks, publish, drain | only live contacts are dereferenced; forces are of this step; delayed messages keep their order |
| BoolSensor | `collisions_`, `hit_something_` | contact callbacks, publish | the count is the number of contacts; a contact between two publications is not missed |
| Interactive marker manager | the marker server, `manipulating_model_`, `pose_update_stamp_` | create and delete markers, feedback callbacks, `update` | one marker per model; a drag pauses the simulation, and its end resumes it |
| Laser | the thread pool and its task queue, the last fraction of each ray, the random engine, `latency_queue_` | `BeforePhysicsStep`, `ComputeLaserRanges`, the workers, the destructor | each ray has its nearest surface; the pool neither hangs nor outlives its data; scans in order; noise reproducible from the seed |
| Gps, Imu | the last message, a random engine, `latency_queue_` (Gps) | `BeforePhysicsStep` | fixes in order |
| FaultInjector, FaultInjectionRegistry | the fault list with its latches and records, the effect store, the spawned obstacles, the manifest | `BeforePhysicsStep` | effects exist while their fault is active; the world is restored at its end; the ground truth is true |
| Drives and actuators (`diff_drive`, `tricycle_drive`, `actuator_dynamics`, `dynamics_limits`, `wheel_friction_model`) | the command buffer, the last velocities | twist callback, `BeforePhysicsStep` | commands take effect after their latency, in order; limits are respected |
| UpdateTimer, Timekeeper | the period; the simulation time | `CheckUpdate`, `StepTime` | one update per period |
| Collision filter registry | layer names and ids, the next collide and no-collide groups | register, look up, bits | distinct ids, at most 16 layers |
| DynamicMap, MapMutator, Tween, VariablePayload, WorldModifier | the pending events; the tween position; the payload schedule | `BeforePhysicsStep` and a trigger topic | every event is applied once, in order |
| Scenario runner and scorer (`flatland_scenario_runner.cpp`) | the terminal state, the metrics, globals written by callbacks of an `AsyncSpinner(2)` | `main`, callbacks, the result file | a result file is written on every exit and agrees with itself; a hung run is invalid |
| Scenario generator (`scenario_gen/`) | the ledger, the checkpoint, curriculum, proposer, the archive | `evaluate`, the loop over generations, resume | nothing hangs the campaign; the ledger is enough to replay every scenario; a resume continues what was there |
| Noise, random engines, YAML and Lua preprocessing, geometry, visualisation | parameters, engines | arithmetic, parsing, publication | numeric |

### How the parts interact

Everything in the server but the laser's worker threads runs on one thread:

    SimulationManager::Main
      World::MakeWorld ............. LoadModel for each model of the file, world plugins
      loop
        World::Update
          unless paused: BeforePhysicsStep of the model plugins (a Laser hands its
            clusters of rays to its pool and waits for all of them), then of the world
            plugins (which may spawn and delete models and rebuild layers);
            b2World::Step -> contact callbacks -> PluginManager -> model plugins;
            AfterPhysicsStep
          InteractiveMarkerManager::update
        ros::spinOnce -> services, marker feedback, topics of the plugins
      delete world_

The interleavings that matter are therefore mostly not those of instructions but of calls: a
model is deleted from a service, from a menu entry, or from a world plugin in the middle of a
step; contacts begin only inside `b2World::Step` but end there, in `~Body` and in a layer's
rebuild; a load of several plugins stops at any of them; feedback and requests queue up between
two `spinOnce` calls, while the marker they are about disappears; the faults of a list see each
other half in this iteration, half in the one before.  Time enters in three ways: wall time
(the age of the last pose update), simulation time (faults, latency) and the steps of a
severity profile.

A campaign is several processes: the orchestrator starts `roslaunch`, which starts the
simulator and the observer (the scenario runner); they share the clock topic, tf and one result
file.  The observer sleeps in simulation time; the orchestrator waits in wall time, then
interrupts and finally kills.  What survives a crash of the host are files: the ledger, the
checkpoint and the results.

`PROJECT.json` lists each hazard with its line and the properties that watch it.  Known, and in
no property: with no latency the delay line is cleared in every step, so that a fault setting
in finds no older command (`actuator_dynamics.cpp:106`); a checkpoint torn by a crash makes the
resume raise (`curriculum.py:167`; the model stops in `failed`); the observer's two spinner
threads write the pose estimate that its main thread reads, which only changes a number of the
score; an obstacle is removed by name, also if a user replaced it (`fault_injector.cpp:424`, in
the model).

## Modules and how they correspond to the code

| Module | Models | Correspondence |
|---|---|---|
| `InteractiveMarkerManager` | `interactive_marker_manager.cpp` | state and operations only; one operator per member function. Wall time is reduced to what `update()` distinguishes: a stamp at most 0.1 s old, in the window (0.1 s, 1.0 s), or older |
| `MarkerDrag` | the manager driven by an rviz client through the callback queue | `LoopUpdate`, `SpinCallback`, `SpinDone` are the loop; `Press`, `Drag`, `Release`, `ClientGone`, `Request` are the clients (external) |
| `FlatlandWorld` | loop, services, world, plugin manager, contacts, Bumper, BoolSensor | a model is its *address*; an address is reused after `delete`. `nameOf` is the name in the object, `fileOf` the file it was made from (its `plugins_reader_` is the list of that file), `bodied` the models whose bodies are in the physics world, `models` is `models_`, `plugins` is `model_plugins_`. `LoadModel`, one `LoadModelPlugin` per entry and `LoadModelDone` are one call; while `load` is set, nothing else happens. `pc` tells where the loop is, hence who calls `LoadModel` and who catches which exception; a model that is allocated and in no list of the world is one that a failed load left (`Lost`) |
| `ModelRegistry` | abstract: what the services promise a client | a set of names and the last response, every operation in one step |
| `LatencyQueue` | the latency fault of Bumper, Laser and Gps | `Publish`, `Dropout`, `NoTick` are the three things a step can do; `Leaves` is the effect of the flush loop and the drain loop; the sensor decides whether a step without publication drains |
| `LaserScan` | `laser.cpp` (the scan) and `ThreadPool.h` | `pc` is where the main thread is (idle, enqueue, notify, collect, publish, notifyAll, join, deleted); a worker tests the queue, waits, casts a ray, draws noise or has exited. Each critical section is one step. A cast goes in two parts split at the last hit; the tree reports any set of surfaces that contains the nearest. The engine is read in one step and written in another, since nothing locks it |
| `Laser` | composes `LatencyQueue` and `LaserScan` | the physics step of a Laser is the scan, then `Publish` or `Dropout`; a Bumper and a Gps have no pool |
| `ActuatorDynamics` | the delay line of `actuator_dynamics.cpp`, called by the drives in each step | `BeforePhysicsStep` is the drive's push and pull; the step that pushed a command identifies it; `extra` is what the registry returns for `controller_latency` |
| `FaultInjector` | `fault_injector.cpp`, `SeverityAt` of the registry | `BeforePhysicsStep`, one `ProcessFault` per fault, `StepDone`; severities are reduced to none, ramp and peak |
| `FaultLifecycle` | abstract: what the ground truth tells | idle, active, ended, each once, never before the prerequisite |
| `DynamicTree` | `b2DynamicTree.cpp` and `.h`, `b2AABB` | operators on a record of the node pool: the free list, the search for a sibling, `Balance`, the refitting on the way up, queries and ray casts. A node is its index; boxes have integer corners |
| `BroadPhase` | `b2BroadPhase.cpp` and `.h` | the tree and the move buffer (a set: the sort of `UpdatePairs` removes order and duplicates) |
| `PhysicsWorld` | `b2World`, `b2Body`, `b2Fixture`, `b2Contact`, `b2ContactManager`, `b2Island`, and what flatland calls | bodies on a line. `Step` is `Collide`, `Solve`, with `continuousPhysics` any number of `TimeOfImpact` (a sub-step), `ImpactNotTouching` (the branch that disables the contact and restores the sweeps) and `ImpactNotFound` (`b2TimeOfImpact` fails), then `StepDone`; `toi` is what the contacts remember of a step: how often they were an impact, and that they are skipped. Loads, deletions, `SetPose` (two `SetTransform`), rebuilds and tweens come between steps. The solver may choose any motion, also into what a body touches: it has a fixed number of iterations |
| `ScenarioRunner` | `flatland_scenario_runner.cpp`, `roslaunch` (external) and the simulator as the observer sees it | `node.pc` is where `main` is; `wake` is the simulation time its `rate.sleep()` ends; a file is absent, torn or a result |
| `Campaign` | `orchestrate.py`, `run.py`, `curriculum.py`, the boundary report | the loop over generations around `ScenarioRunner`; `mem` is the process' memory, `ledger`, `ckpt`, `files`, `report` are on disk; `Crash` kills every process of the host, `Resume` starts the process again over it |
| `MCFlatlandWorld`, `MCFaultInjector`, `MCLaser`, `MCPhysicsWorld`, `MCCampaign` | - | values of the constants for TLC |
| `Folding` | loops over a list | `Fold(base, s)` takes a state from entry to entry; the operation is the module's parameter, so that an `INSTANCE` for each loop of the code gives the theorems about that loop |
| `*Proofs` | - | the theorems, see below |

Model plugins are called in the order of the list, and world plugins after them
(`plugin_manager.cpp:78-85`); this order is kept where it is visible: all Bumpers clear their
impulses before a world plugin spawns or deletes a model, and read them in `AfterPhysicsStep`; a
plugin's deletion precedes the destruction of its model's bodies.

`FlatlandWorld` takes contacts as they come: any two of its bodies that are not excluded may
touch. `PhysicsWorld` is the other side, why Box2D reports exactly those that do.

Definitions whose comment begins with "Mutant:" are plausible mistakes in one definition of the
model; each property is known to be violated when its mutant replaces the definition.

## What the runs check

| Run | Instance | Shows |
|---|---|---|
| `MarkerDrag` | 2 markers, callback queue of 2, the loop looks at the stamp in time | liveness: a drag with at least one accepted pose update stops pausing the simulation once the updates stop, whatever the client and the models do (`FedDragUnpauses`) |
| `MCFlatlandWorld` | 2 addresses, 2 names, 8 files: two plugins, the same plugin twice, a plugin that throws after one that does not, a disabled plugin, an entry at which yaml-cpp throws after a plugin that was loaded, and of those that `MakeModel` rejects one within its `try`, one whose `plugins` is no list, one at which yaml-cpp throws; 1 contact (1.36 million states) | unique names, nothing left behind but what those exceptions leave, all plugins or none, markers match models, the services implement `ModelRegistry` |
| `MCContacts` | 2 addresses, 2 names, 1 file, bodies `base` and (excluded) `guard`, a layer; 2 contacts at once | what Bumper and BoolSensor keep of contacts is what Box2D has, across deletions and rebuilds |
| `MCSensorBody` | the same, 1 contact | *violated*: a BoolSensor reports contacts of other bodies |
| `MCLaser` | 2 workers, 2 or 5 rays in clusters of 2, three scenes; capacity 2, delays 0, 1 and 3, 3 physics steps; also Bumper and Gps | every published scan is exact; no task outlives its scan; every scan and every deletion ends (liveness); order and completeness, bound, no early release unless pushed out, nothing overdue |
| `LaserReproducible` | the same, an engine of 4 states, 2 steps | *violated*: the noise of a ray is a function of the seed |
| `ActuatorDynamics` | buffer of 4, configured latencies 0..2, extra latencies 0, 2, 4 in any order, drives spawned at any of 9 steps | no command takes effect early; none late while the buffer covers the latency; a growing latency reaches older commands |
| `MCFaultInjector` | 6 faults, every kind and trigger, chained forward and backward in the list, two on one component, one whose model does not load; users spawn and delete the same names; 6 steps | effects, spills and obstacles follow activity; no second begin; manifest current; `FaultLifecycle` implemented |
| `MCPhysicsWorld` | a layer of two thin walls, a robot, a crate; continuous physics on and off, a contact given up after one impact more than `MaxSubSteps` = 1; 2 calls and 2 steps in any order (380,000 states) | the tree is valid and its searches complete, no pair is missed, contacts of awake bodies are current, nothing tunnels with continuous physics unless its contact was given up, sleepers keep their contacts |
| `MCCampaign` | 2 genomes, 2 generations of one proposal and one replay, in one process or one each, simulators that hang, one crash (1.8 million states) | results agree with themselves, the ledger is replayable, the memory is that of the ledger throughout, the campaign never hangs (liveness) |
| `CampaignWatchdog` | the same, observers faster than wall time | *violated*: a hung simulator never counts as a discovered failure |
| `CampaignResume` | the same as `MCCampaign` | *violated*: after a resume the curriculum knows the ledger |

### Bounds, and why they are enough

* Two addresses and two names: every violation of uniqueness or of pointer validity needs a
  victim and a successor that takes its address or its name.  Addresses are symmetric
  (`SYMMETRY` in the runs without liveness; names are not symmetric with `NoName` and are left
  alone).
* `MaxContacts` is 1 where the properties are about models and 2 where they are about contacts:
  two contacts suffice for a counter to go wrong by one and for one contact to be mistaken for
  another; a contact can be between two bodies of one model, of two models, and with a layer.
* The callback queue of 2 holds a feedback and the request that erases its marker, in both
  orders.
* `MCLaser`: 2 rays are one full cluster and fewer tasks than workers, 5 rays are three
  clusters with a shorter last one and more tasks than workers, so that a worker takes a second
  task while another still casts.  Of the three scenes one is open and two have surfaces that
  come nearer, go away, and stand behind one another; consecutive scans take any of them, so
  the split of a cast lies before, at and behind the surface.  With a capacity of 2 and
  delays of 3, 1 and 0 steps a later message has the smaller delay while an earlier one is
  queued before it, a clean message waits behind delayed ones, and the third overflows the
  queue, all within 3 steps.  `Period`, the number of states
  of the engine, matters only to the noise: 1 in `MCLaser`, 4 in `LaserReproducible`.
* `ActuatorDynamics` with `Cap = 4` has latencies below, at and above the capacity (up to 6),
  jumps of two steps (without which no cutoff goes back), and 9 steps that let the buffer fill,
  evict, clear and fill again.
* `MaxTime = 6` of `MCFaultInjector` lets the longest chain of the list (faults 2, 4 and 3,
  each waiting for the one before, the last one seeing its prerequisite a step late) begin and
  end.
* `MCPhysicsWorld`: four fixtures are the fewest with which an insertion unbalances the tree,
  and with `InitialCapacity = 2` the pool grows twice.  flatland puts a body
  between the walls (`Poses`), where it stays or from where the solver takes it on.  A velocity
  of -3 passes a wall in one step.  `MaxSubSteps` is 8 in Box2D; with 1 a body that the solver
  sends on into the wall a second time reaches the limit, and `NoTunnelling` without the
  exception for contacts given up is violated in this very instance.  `TimeToSleep = 1` lets an island fall asleep in the first step, so that the second
  finds sleepers whose support was moved, deleted or rebuilt.  With `Extension = 0` a fat box
  is widened only by the predicted motion (`Multiplier = 1`), which is enough for a proxy to
  move within it and not be looked at again.  Positions are a grid, for the comparisons of
  areas and distances to be exact.  They lie on a line, and `SearchesComplete` is about ray
  casts along it, in one direction: it shows that no node the shortened ray meets is left out,
  not `b2DynamicTree.h`'s test of an oblique ray against a box by a separating axis.
* `MCCampaign`: a wall timeout of 0 and a grace of 1 put the watchdog, the end of a scenario
  and the interrupt into every order; two clock messages are a simulator that dies at once,
  hangs during the scenario or lives to its end; scores 40 and 98 are solved and unsolvable;
  two generations with a replay are the least in which an archive matters; in one process
  the second is planned with what the process itself has learnt from the first, in two with
  what it has replayed; two records are what a refit of the proposer needs; and one crash at
  any place is the least in which a resume does. `CampaignWatchdog` has a grace of 2 and `Prompt =
  TRUE` (observers act before wall time passes), so that only the sleep in simulation time
  explains its counterexample, not a slow host.

The theorems below do not depend on any of these numbers.

### Fairness

* `MarkerDrag`: `WF(SpinCallback)`, `WF(SpinDone)` and `WF(LoopUpdate)`: `Main` loops while the
  node runs, `spinOnce` calls what is queued and returns.  `SF(LoopUpdate /\ stampAge' #
  "fresh")`: wall time passes, so the stamp does not remain younger than 0.1 s over infinitely
  many updates.  Nothing is assumed of clients.  `PromptLoop = TRUE` is an assumption of the
  instance, not of the code: an iteration takes less than 0.9 s, so that `update()` runs at
  least once in the window. A loop that does not (a slow host, a breakpoint) can miss it, and
  then the flag stays.
* `Laser`: weak fairness of the main thread's steps within a scan or a deletion, of the
  publication that ends a scan, and of the steps of each worker: the operating system schedules
  every thread that can run.  Nothing makes a scan begin or a laser be deleted, and nothing
  makes a waiting thread wake up without a notification: spurious wake-ups are possible and
  never needed.
* `Campaign`: weak fairness of the observer's steps, of wall time, of `roslaunch` exiting once
  its required node, the observer, has ended, and of the orchestrator.  The simulator is not
  fair (it may hang at any time); crashes and restarts are not either.  Its runs say
  `CHECK_DEADLOCK FALSE`, for a campaign ends: after its last generation, or in `failed`.

## What is proved

TLAPS checks these for all values of the constants that satisfy the modules' assumptions
(`WorldAssumption`, `QueueAssumption`, `ActuatorAssumption`, `FaultsAssumption`,
`RunnerAssumption`, `CampaignAssumption`, `ScanAssumption`, `TreeAssumption`, `DragAssumption`).  The assumptions
say that bounds are natural numbers and sets of the kind their comment says; TLC evaluates them
in the runs.  Those of `PhysicsWorld` say more, and the proofs need it: a fixture of a body
that moves has an extent (footprints are circles and polygons; only the edges of a layer are
thin), positions are a stretch of the grid without holes (a sweep may stop at any place it
passes), and an island rests at least one step before it sleeps (`b2_timeToSleep` is 0.5 s).

Every property of every passing run is a theorem here, except the three liveness properties.  Of
each of these the part that is safety is proved: that there is always a step to take and that
only so many can be taken, or that the step which ends the drag cannot come too late.  What is
left to TLC is that the steps are taken, which is what fairness says.

* `FlatlandWorldProofs!TypeCorrect`: `Spec => []TypeOK`.  `TypeOK` is inductive: one lemma per
  group of variables, one step per action.
* `FlatlandWorldProofs`, models: `NamesUnique`, `MarkersMatchModels` (`NamesAlwaysUnique`,
  `MarkersAlwaysMatch`) and that plugins and bodies are those of allocated models (`Allocated`),
  from `RegistryCorrect: Spec => []RegistryInv`.  None of the three is inductive alone: a deletion by name keeps the
  markers right only if names are unique, and a finished load keeps names unique only if the
  model under construction is not yet in the world and its name is not taken.  `RegistryInv` is
  their conjunction with that fact (`LoadApart`).  `AllPluginsLoaded` (`ModelsFullyLoaded`)
  adds what a load in progress has done: the plugins of the entries before the one it is at.
  `NothingElseLeftBehind` (`NothingElseEverLeftBehind`) rests on both, for what a load leaves
  when yaml-cpp's exception passes it by is what it had done; it names all that is left, see
  [below](#what-a-failed-load-leaves).
* `FlatlandWorldProofs`, contacts: `BumperTracksContacts`, `BumperForcesAreCurrent`,
  `BoolSensorCounts` and `BoolSensorLatches` (`BumperNeverStale`, `BumperForcesCurrent`,
  `BoolSensorCountsContacts`, `BoolSensorNeverForgets`), from `ContactsCorrect`.  Its
  invariant says it of every address, used or free: a model under construction and a freed
  address have no contacts, so that the next model there starts with none; and a contact joins
  bodies of the world, so that a deletion ends all of its contacts.
* `FlatlandWorldProofs!WorldImplementsRegistry`: `Spec => ImplementsRegistry`.  Every step of
  `FlatlandWorld` maps to a step of `ModelRegistry` or to a stutter, with `live` the names of
  the models in `models`; the steps of a load stutter until the last one.
* `FlatlandWorldProofs`, a drag: the types of `MarkerDrag` (`DragTypeCorrect`), and the safety
  under `FedDragUnpauses`.  `FedDragIsFresh`: while a drag with an accepted pose update lasts,
  every look of `update()` at the stamp found it fresh, provided the loop is prompt.  So the
  first look that finds it older falls into the window and ends the drag
  (`FedDragAlwaysEnds`): `update()` never looks too late, which is the hazard of a window.
  `MarkerDrag` is instantiated over the marker variables of `FlatlandWorld`, with its own loop
  and callback queue.
* `LaserProofs`, the queue: `FifoDelivery`, `BoundedQueue`, `EarlyOnlyWhenFull` and
  `NothingOverdue` (`AlwaysFifo`, `AlwaysBounded`, `NeverEarlyOtherwise`, `NeverOverdue`), from
  `QueueCorrect`, whose `QueueInv` adds that stamps are increasing and not in the future:
  without it the message that pushes another out could be one captured later than the
  publication.  `QueueTypeCorrect` is its `TypeOK`.
* `LaserProofs`, the scan: `ScanExact` and `NoTaskOutlivesScan` (`ScanAlwaysExact`,
  `NoTaskEverOutlivesScan`) for any number of workers, rays, cluster size and scenes, from
  `ScanCorrect`.  `ScanInv` has two parts besides the types: `PoolInv`, each cluster enqueued
  and not yet done is either once in the queue or at exactly one worker; and `ReadInv`, what a
  worker has cast, what is done and what was collected is exact.  `CellsCover` says that the
  clusters are disjoint and cover the rays, `RayExact` that a cast in two parts finds the
  nearest surface wherever it is split.  `LaserImplementsQueue`: the composition implements
  `LatencyQueue`, so that the theorems of the queue hold of the composed laser
  (`LaserKeepsOrder`, `LaserKeepsBound`, `LaserNeverEarly`, `LaserNeverOverdue`).
* `LaserProofs`, the end of a scan: the safety under `ScanEnds`.  `NobodyEverWaitsInVain`, from
  `WakeCorrect`: a cluster issued is queued, at a worker or done; while tasks are queued a
  worker is awake or the main thread is about to notify one; and no worker sleeps once
  `notify_all` was called.  So a thread that waits for a future or joins has another to wait
  for that can go on.  `ScanIsBounded`: within a scan each step does something of which there
  is only so much (clusters enqueued, notified, taken, finished and collected; rays cast and
  read) and undoes none of it, except that a worker may fall asleep or wake up.
* `ActuatorDynamicsProofs`: `NeverEarly`, `NeverLate`, `ReachesOlder` (`NeverTooEarly`,
  `NeverTooLate`, `AlwaysReachesOlder`), from `LineCorrect`.  `LineInv` adds what the three
  rest on: the buffer holds consecutive stamps down to the drive's first step, the last
  clearing or the capacity, and the held command is no older than the last clearing.
  `LineTypeCorrect` is its `TypeOK`.  Beyond the precondition of `NeverLate`:
  `LongLatencyHoldsCommand` says that a step with a latency of `Cap` or more (`kMaxBufferSize`,
  4096 steps: 4 s at 1 kHz) leaves the drive's command as it is, and `LongLatencyNeverStarts`
  that a drive configured so never leaves zero.
* `FaultInjectorProofs`: every property of the run `MCFaultInjector` for any list of faults
  (`InjectorTypeCorrect`, `EffectsFollowFaults`, `SpillsFollowFaults`,
  `ObstaclesAlwaysRemoved`, `EndedForGood`, `ManifestAlwaysCurrent`) from `InjectorCorrect`,
  and the refinement `InjectorImplementsLifecycle`.  `InjectorInv` relates what the code keeps
  apart: a fault is active only if its onset is recorded and its end is not; a severity profile
  that is back at zero stays there, which is why an ended fault does not begin again; the
  environment flag of a fault agrees with its record; the counter and the names of spawned
  obstacles are those of faults applied; the snapshot the effects are collected in, and the
  dirty flag, hold what the faults processed so far in this step have added.
* `CampaignProofs`: `ResultsAgree` (`ResultsAlwaysAgree`), from the invariant that a running
  observer's fields agree with each other and with its place in `main` (`ResultInv`); and
  `LedgerReplayable` (`LedgerAlwaysReplayable`), from the relation of the orchestrator's
  counters to the ledger at each place in its loop (`OrchInv`) and of the ledger's records to
  directories never written again (`LedgerInv`), across any number of crashes and resumes.

* `CampaignProofs`, memory: `MemoryIsOfLedger` and the types (`MemoryAlwaysOfLedger`,
  `CampaignTypeCorrect`), from `MemoryCorrect`: at every moment of a process, in each of its
  generations, and in each process after a crash.  The proposer's state is the fold of the ledger
  (`Folding!FoldAppend`: recording one more scenario is one more step of the replay), and what
  the archive and the checkpoint hold comes from records of the ledger, whichever process died
  between the writes.
* `CampaignProofs`, the end of an evaluation: the safety under `OuterLoopNeverHangs`, from
  `EvaluationCorrect` (where `roslaunch` is while `evaluate()` waits for it or kills it).
  `EvaluationNeverStalls`: something can always go on, also when the simulator hangs and the
  observer sleeps in its time, for then wall time passes until `evaluate()` times out.
  `EvaluationIsBounded`: each step within an evaluation, whoever takes it, lessens `StepsLeft`
  or ends the evaluation.  The number of steps depends on `MaxClock`: a simulator publishes
  its clock that many times at most.
* `DynamicTreeProofs`: the operators of `DynamicTree`, for trees of any size.  `CreateLeafSound`,
  `DestroyLeafSound` and `MoveLeafSound` say that insertion (with the search for a sibling,
  the growth of the pool, and `Balance` on the way to the root), removal and a move keep a
  valid tree and change its leaves and boxes as they would change a plain set of boxes;
  `QueryComplete` and `RayCastNearest` that a query reports exactly the leaves that overlap
  its box, and that a ray cast returns the nearest hit although each hit shortens the ray.  The
  links are proved apart from heights and boxes: a depth for each node shows that rotations
  make no cycle, and the climb from a changed leaf carries the set of nodes that still have to
  be fitted to their children, which is empty at the root.  Nothing is
  twice on a cast's stack and what was popped does not return, so that a cast ends within as
  many rounds as there are nodes; what it has left out is below a node that the ray, as short
  as it is by then, does not meet.
* `PhysicsWorldProofs`: every property of the run `MCPhysicsWorld`, for any layer, any number of
  bodies and fixtures of any extent, any velocities, calls and steps.  `WorldCorrect` is the
  inductive invariant behind `TypeOK`, `TreeValid`, `NoPairMissed`, `AwakeContactsCurrent`,
  `SearchesComplete` and `SleepersKeepTheirContacts` (`TypeCorrect`, `TreeAlwaysValid`,
  `NoPairEverMissed`, `AwakeContactsAlwaysCurrent`, `SearchesAlwaysComplete`,
  `SleepersAreKept`).  `WorldInv` says that the world is `Settled`: the leaves of the tree are
  the proxies of the fixtures that exist, one each; every fat box covers its fixture where it
  is now, which is why a pair that is not near may be forgotten; no pair is twice in the
  contact list; and each pair that is near is in it or buffered.  `NoPairMissed` alone is not
  inductive: without the cover a body could move inside its fat box into a neighbour that its
  box does not reach.  Operations are composed of `Disturbs` (bodies are woken, none falls
  asleep, and what a sleeper rests on is not changed), loops over contacts and fixtures go
  through `Folding`.
* `PhysicsWorldProofs!NeverTunnels`: `NoTunnelling`, from `SweepsCorrect`.  It is not that no
  body tunnels: without continuous physics any may, and with it the loop over the times of
  impact gives a contact up after `b2_maxSubSteps` impacts, when `b2TimeOfImpact` finds none, or
  when the fixtures do not touch at the one it found (`GivenUp`).  What is proved is that
  nothing else lets a body through.  In the middle of a step fat boxes must cover not only where
  bodies are but the way they came (`SweepInv`): then every wall on the way is near, hence has a
  contact since the search that ends `Solve`, hence is a stop unless it was given up; and no
  sweep starts behind a wall that the body was in front of when the step began, which each
  sub-step preserves because it goes to the first stop.  `ImpactsTyped` bounds the counters.

Only model-checked: that the steps just mentioned are taken, hence the liveness properties
`FedDragUnpauses`, `ScanEnds` and `OuterLoopNeverHangs` themselves.  Fairness and `ENABLED` are
beyond the prover, and so is the step from a number that falls to its reaching the end.
A theorem over a recursively defined function needs induction with a predicate as parameter,
which the prover cannot instantiate; the loops above are followed by the history of the
function's values instead (`Folding!Values`), with induction over a set of indices.

### What a failed load leaves

Whatever a load fails at, the model is in no list of the world, and its name is free.  But two
kinds of exception pass by the code that would free it, and `FlatlandWorld` models both:

* `model.cpp:85` reads `plugins` after `new Model` and before the `try`: if the entry is no list,
  the `Model` stays allocated, without bodies.
* yaml-cpp's own exceptions are no `YAMLException`.  `EnsureAccessedAllKeys` and
  `plugin_manager.cpp:140` convert keys to strings and throw `BadConversion` at one that is none
  (a sequence or a map as a key).  While the model is made, it stays with the bodies it had so
  far; while its plugins are loaded, it stays with its bodies and the plugins before that entry,
  registered.  Such a model is not in `models_`: it has no marker, no service finds it, a new
  model may take its name, and yet its bodies are stepped and collide and its plugins are called
  until the node ends.  `ServiceManager` catches the exception and answers false; thrown in a
  world plugin's `BeforePhysicsStep` nobody catches it and the node ends.

No document of the repository speaks of it, so there is no statement to refute.
`NothingElseLeftBehind` says that this is all: which models can be left, of which files, with
which plugins, and that everything else that fails is freed.

## Where the code and its documentation disagree

Each with a run that shows it:

1. `docs/included_plugins/bool_sensor.rst` describes a sensor of a single body; `body_` is
   loaded and never compared (`MCSensorBody`).
2. `flatland_server/doc/determinism.md:3` promises identical output for a seed, and
   `laser.cpp:504` reproducible noise; the workers share the engine without a lock, in the
   order they are scheduled (`LaserReproducible`).
3. `scenario_gen/README.md:50` says that a crashed run never masquerades as a discovered
   failure.  If the simulator hangs after its first clock message, the observer sleeps in
   simulation time and does not reach its watchdog; interrupted, it writes a valid `timeout`,
   which the boundary report counts (`CampaignWatchdog`).  An interrupt while it still waits
   for the clock has the same effect.
4. `scenario_gen/orchestrate.py:17` says that a restart replays the ledger into proposer and
   curriculum; the curriculum comes from the checkpoint alone, written at the end of a
   generation (`CampaignResume`).

Met while modelling, without a run:

* `interactive_marker_manager.cpp:227` promises that the flag is cleared when the stream of
  pose updates stops.  It is cleared only if a pose update came, and only if the loop looks
  between 0.1 s and 1.0 s after it (line 240); a drag without an update pauses for ever.
* `laser.h:94` says that the intensity is high if the laser hits a reflective layer;
  `laser.cpp:432` sets it at any reflective surface the tree reports, so that one behind a
  nearer surface may brighten the ray, depending on the order of the tree's search.
* `flatland_plugins/doc/fault_injection.md:153` promises that without an active effect the
  publish path is that of a clean run, and `bumper.cpp:285` that messages without delay release
  in the same step; they wait behind those delayed before the fault ended.
* `FaultGroundTruth.msg:12` and `fault_injector.h:116` call the recorded onset the time the
  fault became active; for a chained fault with a time trigger it is the configured onset,
  which may lie before the prerequisite's.
* `contact_solver.md:22` says that continuous physics catches bodies that would pass through thin
  static geometry in a single step.  Box2D's loop may give a contact up (see `NeverTunnels`
  above), and in the instance `MCPhysicsWorld` a body the solver drives into a wall more than
  `MaxSubSteps` times in one step does pass it.
* `actuator_dynamics.h:105-107` says that the buffer only ever holds the commands in flight,
  about latency / timestep entries.  `Pull` keeps the commands that were delivered
  (`actuator_dynamics.cpp:117-136`), so that a drive with latency holds `kMaxBufferSize` entries
  after as many steps; `ReachesOlder` depends on them.
* `b2Body.h:160` says of `SetTransform` that contacts are updated in the next step; those of a
  sleeping body are not, for nothing wakes it.
* `update_timer.cpp:82`: a period that is an odd multiple of half a step (8 or 40 Hz at 0.01 s)
  is a tie between two steps in every update.
* `Tween` truncates its times to whole milliseconds, and in trigger mode moves by one step at
  the start.  `DynamicMap`'s translation stretches a patch that the border clips.
  `VariablePayload` keeps the old mass when the base mass is 0 and the fill becomes 0.
  `RandomWall` casts the chain shapes of a layer to `b2EdgeShape`.  `GetCategoryBits` of the
  collision filter registry, without a list for the invalid layers, shifts by -1 for an unknown
  layer.

## Not modelled

* Numbers: kinematics, friction, noise distributions, transforms, rasters, GPS conversion, YAML
  and Lua.  Where they decide control, a model takes every outcome.  They are most of the
  code's lines, together with Box2D's constraint solvers, joints, manifolds and distance
  algorithm (functions of floating-point numbers without control of their own), rviz and Qt
  panels, and the image processing of maps; this is why the modelled lines are a small share of
  the repository.
* Box2D, beyond those: joints (and their islands and `collideConnected`), `e_filterFlag`,
  `SetActive`, bullets, kinematic bodies, `e_enabledFlag` beyond the time of impact, and the
  capacity of its island (`b2_maxTOIContacts`, 32 contacts: those beyond it are not updated in
  the sub-step).  Touch at rest causes no time of impact; the stale contents of a freed node
  are dropped.
* The laser: the faults that alter single ranges (occlusion, bias, ghost, stuck); a reflectance
  layer is assumed to exist; surfaces lie beyond the ray's origin.
* The campaign: launching the algorithm under test and its errors, rendering, the random state
  of the proposers on a resume, proposers other than domain randomisation; an orchestrator
  killed alone, whose `roslaunch` lives on in its own session and may write into a directory
  used again; `--no-resume` over an existing ledger, which reuses directories.  An append to
  the ledger is one write.
* Shapes, joints, user data beyond the owner of a body; pre-solve callbacks (no plugin uses
  them for state).
* The pacing of the loop and the debug visualisation: no state depends on them.
* The values of a severity: only none, ramp and peak are distinguished.
* ROS, rviz and `roslaunch` appear as what they may call or do, in which order.

## Plan

Done: world, services, plugins, contacts; markers; latency; actuator delay; faults; Box2D's
broad phase, contacts and sleeping; scenario runner and campaign; the laser's scan and pool;
the proofs above, which cover every safety property of the runs.  Left, most important first:

1. `UpdateTimer` in integer nanoseconds, against one update per period.
2. `DynamicTree` as a refinement of a set of boxes, stated as a specification of its own; its
   operators are proved to act on the set as they should, one by one.
3. `DynamicMap`, `Tween`, `VariablePayload`: events applied once and in order, modes of the
   tween; with `PhysicsWorld`'s rebuild as the effect.
4. `CollisionFilterRegistry`'s ids and category bits, `SeverityAt` with ramps, against
   reference definitions.
