---------------------------- MODULE FaultInjector ----------------------------
(***************************************************************************)
(* The FaultInjector world plugin: in each physics step it walks its fault *)
(* list in order, decides from triggers, chaining and severity profiles    *)
(* which faults are active, mutates the world for the environment faults,  *)
(* collects the effects of the others in a snapshot, hands the snapshot to *)
(* FaultInjectionRegistry, and keeps the sealed ground truth.              *)
(*                                                                         *)
(* BeforePhysicsStep is a loop; here each fault takes one step             *)
(* (ProcessFault), because a fault sees what the ones before it in the     *)
(* list did in the same iteration and what the ones after it did in the    *)
(* previous one.  Nothing else runs meanwhile.  Between iterations a user  *)
(* may spawn and delete models, those of the injector included.            *)
(*                                                                         *)
(* Time is counted in physics steps since the first one.  A severity is    *)
(* 0 (not active), 1 (on a ramp) or 2 (at peak): the shape of the ramps    *)
(* and the numbers they scale are left out.  What a condition measures is  *)
(* the environment's: it may become true, and false again, at any step.    *)
(***************************************************************************)
EXTENDS Integers, Sequences, FiniteSets

CONSTANTS
  Faults,     \* the configured list
  BaseNames,  \* model names
  UserNames,  \* the names, suffixed or not, that users spawn and delete
  MaxTime     \* bound on the physics steps, for TLC

Kinds == {"effect", "dynamic_obstacle", "moved_furniture", "spill"}
EnvironmentKinds == Kinds \ {"effect"}
Triggers == {"time", "condition", "after_fault"}
FaultId == 1..Len(Faults)

\* depends_on is the position of the first fault with that id, 0 for none, -1
\* for an id that no fault has.  A negative hold means indefinitely.
ASSUME FaultsAssumption ==
  /\ MaxTime \in Nat
  /\ Faults \in Seq([kind : Kinds, key : STRING, trigger : Triggers, depends_on : Int,
                     onset : Nat, ramp_up : Nat, hold : Int, ramp_down : Nat,
                     step : BOOLEAN, model : BaseNames, loads : BOOLEAN,
                     despawn_on_end : BOOLEAN, spawn_if_absent : BOOLEAN])
  /\ UserNames \subseteq BaseNames \X (0..Len(Faults))
  /\ \A f \in FaultId : Faults[f].depends_on \in FaultId \cup {0, -1}

VARIABLES
  elapsed,   \* time of the physics step
  at,        \* the fault the loop is at, 0 outside of BeforePhysicsStep
  holds,     \* the faults whose condition the world satisfies in this step
  latched, latched_onset, ever_active, was_active, current_severity,
  recorded_onset, recorded_end, env_applied, env_ended, env_spawned_name,
  env_spawn_counter_,
  snapshot,       \* the effects collected so far
  manifest_dirty,
  effects,        \* FaultInjectionRegistry::effects_
  manifest,       \* the sidecar file: onset and end of each fault
  models,         \* the models in the world: who spawned which name
  spills          \* the active spill regions

triggerVars == <<latched, latched_onset>>
activeVars == <<ever_active, was_active, current_severity>>
recordVars == <<recorded_onset, recorded_end, manifest_dirty>>
envVars == <<env_applied, env_ended, env_spawned_name, env_spawn_counter_, models, spills>>
vars == <<elapsed, at, holds, triggerVars, activeVars, recordVars, envVars,
          snapshot, effects, manifest>>

User == 0
Suffixed == BaseNames \X (0..Len(Faults))  \* "model" is <<model, 0>>, "model_1" <<model, 1>>
NoName == <<"", 0>>
Effects == {Faults[f].key : f \in {g \in FaultId : Faults[g].kind = "effect"}}
Times == -1..MaxTime

Names == {m.name : m \in models}
Record == [f \in FaultId |-> [onset |-> recorded_onset[f], end |-> recorded_end[f]]]

\* Times stay within the run, severities are 0, 1 or 2, and env_spawn_counter_
\* counts each obstacle fault at most once: an onset is applied once.
TypeOK ==
  /\ elapsed \in 0..MaxTime
  /\ at \in 0..Len(Faults) + 1
  /\ holds \subseteq FaultId
  /\ latched \in [FaultId -> BOOLEAN]
  /\ latched_onset \in [FaultId -> 0..MaxTime]
  /\ ever_active \in [FaultId -> BOOLEAN]
  /\ was_active \in [FaultId -> BOOLEAN]
  /\ current_severity \in [FaultId -> 0..2]
  /\ recorded_onset \in [FaultId -> Times]
  /\ recorded_end \in [FaultId -> Times]
  /\ env_applied \in [FaultId -> BOOLEAN]
  /\ env_ended \in [FaultId -> BOOLEAN]
  /\ env_spawned_name \in [FaultId -> Suffixed \cup {NoName}]
  /\ env_spawn_counter_ \in 0..Cardinality({f \in FaultId : Faults[f].kind = "dynamic_obstacle"})
  /\ snapshot \in [Effects -> 0..2]
  /\ manifest_dirty \in BOOLEAN
  /\ effects \in [Effects -> 0..2]
  /\ manifest \in [FaultId -> [onset : Times, end : Times]]
  /\ models \subseteq [name : Suffixed, by : FaultId \cup {User}]
  /\ spills \subseteq FaultId

Init ==
  /\ elapsed = 0
  /\ at = 0
  /\ holds = {}
  /\ latched = [f \in FaultId |-> FALSE]
  /\ latched_onset = [f \in FaultId |-> 0]
  /\ ever_active = [f \in FaultId |-> FALSE]
  /\ was_active = [f \in FaultId |-> FALSE]
  /\ current_severity = [f \in FaultId |-> 0]
  /\ recorded_onset = [f \in FaultId |-> -1]
  /\ recorded_end = [f \in FaultId |-> -1]
  /\ env_applied = [f \in FaultId |-> FALSE]
  /\ env_ended = [f \in FaultId |-> FALSE]
  /\ env_spawned_name = [f \in FaultId |-> NoName]
  /\ env_spawn_counter_ = 0
  /\ snapshot = [k \in Effects |-> 0]
  /\ manifest_dirty = FALSE
  /\ effects = [k \in Effects |-> 0]
  /\ manifest = Record
  /\ models = {}
  /\ spills = {}

----------------------------------------------------------------------------
(* Triggers and severity.                                                  *)

\* A fault with depends_on waits until its prerequisite has been active.
Prereq(f) ==
  LET g == Faults[f].depends_on IN g = 0 \/ (g \in FaultId /\ ever_active[g])

SeverityAt(f, onset, t) ==
  LET e == t - onset
      p == Faults[f]
      top == p.ramp_up + IF p.hold < 0 THEN 0 ELSE p.hold
  IN IF e < 0 THEN 0
     ELSE IF p.step THEN IF p.hold < 0 \/ e < top + p.ramp_down THEN 2 ELSE 0
     ELSE IF e < p.ramp_up THEN IF e = 0 THEN 0 ELSE 1
     ELSE IF p.hold < 0 \/ e <= top THEN 2
     ELSE IF e < top + p.ramp_down THEN 1 ELSE 0

\* The condition of f is met now: "after_fault" as soon as it is asked.
Met(f) == Faults[f].trigger = "after_fault" \/ f \in holds

\* Mutant: the condition is looked at again in every step.
LatchesEveryTime(f) == Prereq(f) /\ Faults[f].trigger # "time" /\ Met(f)

Latches(f) == Prereq(f) /\ Faults[f].trigger # "time" /\ ~latched[f] /\ Met(f)

\* Mutant: chaining is only looked at for condition triggers.
SeverityUnchained(f) ==
  IF Faults[f].trigger = "time" THEN SeverityAt(f, Faults[f].onset, elapsed)
  ELSE IF latched'[f] THEN SeverityAt(f, latched_onset'[f], elapsed)
  ELSE 0

Severity(f) ==
  IF ~Prereq(f) THEN 0
  ELSE IF Faults[f].trigger = "time" THEN SeverityAt(f, Faults[f].onset, elapsed)
  ELSE IF latched'[f] THEN SeverityAt(f, latched_onset'[f], elapsed)
  ELSE 0

Trigger(f) ==
  /\ latched' = [latched EXCEPT ![f] = @ \/ Latches(f)]
  /\ latched_onset' = [latched_onset EXCEPT ![f] = IF Latches(f) THEN elapsed ELSE @]

----------------------------------------------------------------------------
(* Environment faults.                                                     *)

\* World::LoadModel; an exception is caught and warned of.
Spawn(f, name) ==
  IF Faults[f].loads /\ name \notin Names
  THEN /\ models' = models \cup {[name |-> name, by |-> f]}
       /\ env_spawned_name' = [env_spawned_name EXCEPT ![f] = name]
  ELSE UNCHANGED <<models, env_spawned_name>>

ApplyEnvironmentOnset(f) ==
  \/ /\ Faults[f].kind = "dynamic_obstacle"
     /\ env_spawn_counter_' = env_spawn_counter_ + 1
     /\ Spawn(f, <<Faults[f].model, env_spawn_counter_'>>)
  \/ /\ Faults[f].kind = "moved_furniture"
     /\ IF <<Faults[f].model, 0>> \notin Names /\ Faults[f].spawn_if_absent
        THEN Spawn(f, <<Faults[f].model, 0>>)
        ELSE UNCHANGED <<models, env_spawned_name>>
     /\ UNCHANGED env_spawn_counter_
  \/ /\ Faults[f].kind = "spill"
     /\ UNCHANGED <<models, env_spawned_name, env_spawn_counter_>>

Despawns(f) ==
  /\ Faults[f].kind = "dynamic_obstacle"
  /\ env_spawned_name[f] # NoName
  /\ Faults[f].despawn_on_end

\* Mutant: the spill region is not removed.
ApplyEnvironmentEndLeavesSpill(f) ==
  /\ IF Despawns(f)
     THEN /\ models' = {m \in models : m.name # env_spawned_name[f]}
          /\ env_spawned_name' = [env_spawned_name EXCEPT ![f] = NoName]
     ELSE UNCHANGED <<models, env_spawned_name>>
  /\ UNCHANGED spills

\* Mutant: the obstacle only stops.
ApplyEnvironmentEndKeepsObstacle(f) ==
  /\ spills' = spills \ {f}
  /\ UNCHANGED <<models, env_spawned_name>>

\* World::DeleteModel goes by the name, whoever spawned it.
ApplyEnvironmentEnd(f) ==
  /\ spills' = spills \ {f}
  /\ IF Despawns(f)
     THEN /\ models' = {m \in models : m.name # env_spawned_name[f]}
          /\ env_spawned_name' = [env_spawned_name EXCEPT ![f] = NoName]
     ELSE UNCHANGED <<models, env_spawned_name>>

\* Mutant: an onset that is still active is applied again.
HandleEnvironmentFaultAgain(f, active) ==
  \/ /\ active
     /\ env_applied' = [env_applied EXCEPT ![f] = TRUE]
     /\ spills' = IF Faults[f].kind = "spill" THEN spills \cup {f} ELSE spills
     /\ ApplyEnvironmentOnset(f)
     /\ UNCHANGED env_ended
  \/ /\ ~active
     /\ UNCHANGED envVars

HandleEnvironmentFault(f, active) ==
  \/ /\ active
     /\ env_applied' = [env_applied EXCEPT ![f] = TRUE]
     /\ spills' = IF Faults[f].kind = "spill" THEN spills \cup {f} ELSE spills
     /\ \/ ~env_applied[f] /\ ApplyEnvironmentOnset(f)
        \/ env_applied[f] /\ UNCHANGED <<models, env_spawned_name, env_spawn_counter_>>
     /\ UNCHANGED env_ended
  \/ /\ ~active /\ env_applied[f] /\ ~env_ended[f]
     /\ ApplyEnvironmentEnd(f)
     /\ env_ended' = [env_ended EXCEPT ![f] = TRUE]
     /\ UNCHANGED <<env_applied, env_spawn_counter_>>
  \/ /\ ~active /\ (env_applied[f] => env_ended[f])
     /\ UNCHANGED envVars

----------------------------------------------------------------------------
(* The loop.                                                               *)

BeforePhysicsStep ==
  /\ at = 0
  /\ at' = 1
  /\ holds' \in SUBSET {f \in FaultId : Faults[f].trigger = "condition"}
  /\ UNCHANGED <<elapsed, triggerVars, activeVars, recordVars, envVars, snapshot,
                 effects, manifest>>

\* Mutant: the end of a fault does not make the manifest dirty.
RecordDirtyOnOnset(f, active) ==
  LET begins == active /\ recorded_onset[f] < 0
      ends == ~active /\ was_active[f] /\ recorded_onset[f] >= 0 /\ recorded_end[f] < 0
  IN /\ recorded_onset' = [recorded_onset EXCEPT ![f] =
          IF ~begins THEN @
          ELSE IF Faults[f].trigger = "time" THEN Faults[f].onset ELSE latched_onset'[f]]
     /\ recorded_end' = [recorded_end EXCEPT ![f] = IF ends THEN elapsed ELSE @]
     /\ manifest_dirty' = (manifest_dirty \/ begins)

RecordTransition(f, active) ==
  LET begins == active /\ recorded_onset[f] < 0
      ends == ~active /\ was_active[f] /\ recorded_onset[f] >= 0 /\ recorded_end[f] < 0
  IN /\ recorded_onset' = [recorded_onset EXCEPT ![f] =
          IF ~begins THEN @
          ELSE IF Faults[f].trigger = "time" THEN Faults[f].onset ELSE latched_onset'[f]]
     /\ recorded_end' = [recorded_end EXCEPT ![f] = IF ends THEN elapsed ELSE @]
     /\ manifest_dirty' = (manifest_dirty \/ begins \/ ends)

\* Mutant: an environment fault is written to the snapshot, too, and a fault
\* that is not active takes its effect back.
CollectAll(f, severity) ==
  snapshot' = IF Faults[f].kind = "effect"
              THEN [snapshot EXCEPT ![Faults[f].key] = severity] ELSE snapshot

\* A later fault with the same component and kind replaces the effect.
Collect(f, severity) ==
  snapshot' = IF Faults[f].kind = "effect" /\ severity > 0
              THEN [snapshot EXCEPT ![Faults[f].key] = severity] ELSE snapshot

ProcessFault ==
  /\ at \in FaultId
  /\ LET f == at
         severity == Severity(f)
         active == severity > 0
     IN /\ Trigger(f)
        /\ current_severity' = [current_severity EXCEPT ![f] = severity]
        /\ ever_active' = [ever_active EXCEPT ![f] = @ \/ active]
        /\ was_active' = [was_active EXCEPT ![f] = active]
        /\ \/ Faults[f].kind \in EnvironmentKinds /\ HandleEnvironmentFault(f, active)
           \/ Faults[f].kind \notin EnvironmentKinds /\ UNCHANGED envVars
        /\ Collect(f, severity)
        /\ RecordTransition(f, active)
  /\ at' = at + 1
  /\ UNCHANGED <<elapsed, holds, effects, manifest>>

\* SetEffects, the manifest if it changed, and the physics step itself; the
\* locals of the loop go out of scope.
StepDone ==
  /\ at = Len(Faults) + 1
  /\ elapsed < MaxTime
  /\ at' = 0
  /\ elapsed' = elapsed + 1
  /\ effects' = snapshot
  /\ manifest' = IF manifest_dirty THEN Record ELSE manifest
  /\ holds' = {} /\ snapshot' = [k \in Effects |-> 0] /\ manifest_dirty' = FALSE
  /\ UNCHANGED <<triggerVars, activeVars, recorded_onset, recorded_end, envVars>>

\* The services of the node, in ros::spinOnce().
UserSpawn(name) ==
  /\ at = 0
  /\ name \notin Names
  /\ models' = models \cup {[name |-> name, by |-> User]}
  /\ UNCHANGED <<elapsed, at, holds, triggerVars, activeVars, recordVars, snapshot,
                 effects, manifest, spills, env_applied, env_ended, env_spawned_name,
                 env_spawn_counter_>>

UserDelete(name) ==
  /\ at = 0
  /\ name \in Names
  /\ models' = {m \in models : m.name # name}
  /\ UNCHANGED <<elapsed, at, holds, triggerVars, activeVars, recordVars, snapshot,
                 effects, manifest, spills, env_applied, env_ended, env_spawned_name,
                 env_spawn_counter_>>

\* The bound on time is reached.
Finished == elapsed = MaxTime /\ at = Len(Faults) + 1 /\ UNCHANGED vars

Next ==
  \/ BeforePhysicsStep
  \/ ProcessFault
  \/ StepDone
  \/ \E name \in UserNames : UserSpawn(name) \/ UserDelete(name)
  \/ Finished

Spec == Init /\ [][Next]_vars

----------------------------------------------------------------------------
(* Properties.                                                             *)

ActiveEffects(k) ==
  {f \in FaultId : Faults[f].kind = "effect" /\ Faults[f].key = k /\ was_active[f]}

(* Sensors and drives see exactly the effects of the faults that are       *)
(* active, that of the last one in the list where several share a          *)
(* component and a kind; no effect outlives its fault.                     *)
EffectsOfActiveFaults ==
  at = 0 => \A k \in Effects :
    /\ ActiveEffects(k) = {} => effects[k] = 0
    /\ \A f \in ActiveEffects(k) :
         (\A g \in ActiveEffects(k) : g <= f) => effects[k] = current_severity[f]

(* "removed on the end-edge so grip recovers" (fault_injection.md): the    *)
(* spill regions are those of the spills that are active.                  *)
SpillsOfActiveFaults ==
  at = 0 => spills = {f \in FaultId : Faults[f].kind = "spill" /\ was_active[f]}

(* "on the end-edge it stops, and is removed if despawn_on_end": whatever  *)
(* users did to the models, the obstacle a fault spawned is gone.          *)
ObstacleRemoved ==
  \A f \in FaultId :
    Faults[f].kind = "dynamic_obstacle" /\ Faults[f].despawn_on_end /\ env_ended[f] =>
      \A m \in models : m.by # f

(* A fault whose end is recorded is not active again, whatever its         *)
(* condition does: the one end in the manifest is the end.                 *)
EndedStaysEnded == \A f \in FaultId : recorded_end[f] >= 0 => ~was_active[f]

(* The manifest is rewritten on state changes only, and on every one: it   *)
(* tells the onsets and ends of the faults as they are after each step.    *)
ManifestCurrent == at = 0 => manifest = Record

Phase == [f \in FaultId |-> IF recorded_end[f] >= 0 THEN "ended"
                            ELSE IF recorded_onset[f] >= 0 THEN "active" ELSE "idle"]
Prerequisites == [f \in FaultId |-> {Faults[f].depends_on} \cap FaultId]

Lifecycle == INSTANCE FaultLifecycle WITH phase <- Phase, After <- Prerequisites

(* The records keep to the life cycle of faults and to their chaining.     *)
ImplementsLifecycle == Lifecycle!Spec
=============================================================================
