------------------------- MODULE FaultInjectorProofs -------------------------
(***************************************************************************)
(* What holds of the injector for every fault list, every behaviour of the *)
(* conditions and every run of spawns and deletions by users.              *)
(*                                                                         *)
(* The heart of the argument is RecordInv: that a fault was seen to be     *)
(* active, what the manifest records of it, and its severity profile agree *)
(* at every moment, and a profile that has gone back to zero stays there.  *)
(***************************************************************************)
EXTENDS FaultInjector, FiniteSetTheorems, TLAPS

(***************************************************************************)
(* The fault list and the severity profile.                                *)
(***************************************************************************)
LEMMA FaultTypes ==
  ASSUME NEW f \in FaultId
  PROVE  /\ Faults[f].kind \in Kinds /\ Faults[f].key \in STRING
         /\ Faults[f].trigger \in Triggers /\ Faults[f].depends_on \in Int
         /\ Faults[f].onset \in Nat /\ Faults[f].ramp_up \in Nat
         /\ Faults[f].hold \in Int /\ Faults[f].ramp_down \in Nat
         /\ Faults[f].step \in BOOLEAN /\ Faults[f].model \in BaseNames
         /\ Faults[f].loads \in BOOLEAN /\ Faults[f].despawn_on_end \in BOOLEAN
         /\ Faults[f].spawn_if_absent \in BOOLEAN
         /\ f \in Nat /\ f >= 1 /\ f <= Len(Faults) /\ Len(Faults) \in Nat
<1> DEFINE R == [kind : Kinds, key : STRING, trigger : Triggers, depends_on : Int,
                 onset : Nat, ramp_up : Nat, hold : Int, ramp_down : Nat,
                 step : BOOLEAN, model : BaseNames, loads : BOOLEAN,
                 despawn_on_end : BOOLEAN, spawn_if_absent : BOOLEAN]
<1>1. Faults \in Seq(R)
  BY FaultsAssumption
<1>2. Len(Faults) \in Nat
  <2> HIDE DEF R
  <2> QED
    BY <1>1
<1>3. Faults[f] \in R
  <2> HIDE DEF R
  <2> QED
    BY <1>1 DEF FaultId
<1> QED
  BY <1>2, <1>3 DEF FaultId

LEMMA LenNat == Len(Faults) \in Nat /\ MaxTime \in Nat
<1> DEFINE R == [kind : Kinds, key : STRING, trigger : Triggers, depends_on : Int,
                 onset : Nat, ramp_up : Nat, hold : Int, ramp_down : Nat,
                 step : BOOLEAN, model : BaseNames, loads : BOOLEAN,
                 despawn_on_end : BOOLEAN, spawn_if_absent : BOOLEAN]
<1>1. Faults \in Seq(R)
  BY FaultsAssumption
<1> HIDE DEF R
<1> QED
  BY <1>1, FaultsAssumption

(* A severity is 0, 1 or 2, and it is 0 before the onset.                  *)
LEMMA SeverityRange ==
  ASSUME NEW f \in FaultId, NEW onset \in Nat, NEW t \in Nat
  PROVE  /\ SeverityAt(f, onset, t) \in 0..2
         /\ SeverityAt(f, onset, t) > 0 => t >= onset
BY FaultTypes DEF SeverityAt

(* A profile that has been positive and is zero stays zero.                *)
LEMMA SeverityStaysZero ==
  ASSUME NEW f \in FaultId, NEW onset \in Nat,
         NEW t0 \in Nat, NEW t1 \in Nat, NEW t2 \in Nat, t0 <= t1, t1 <= t2,
         SeverityAt(f, onset, t0) > 0, SeverityAt(f, onset, t1) = 0
  PROVE  SeverityAt(f, onset, t2) = 0
<1>1. t0 >= onset /\ t0 # t1
  BY SeverityRange
<1>2. t1 - onset > 0
  BY <1>1
<1>3. Faults[f].hold >= 0 /\ t1 - onset >= Faults[f].ramp_up + Faults[f].hold + Faults[f].ramp_down
      /\ (~Faults[f].step => t1 - onset > Faults[f].ramp_up + Faults[f].hold)
  BY <1>2, FaultTypes DEF SeverityAt
<1> QED
  BY <1>2, <1>3, FaultTypes DEF SeverityAt
(***************************************************************************)
(* One fault in one iteration.                                             *)
(***************************************************************************)
Timed(f) == Faults[f].trigger = "time"
Onset(f) == IF Timed(f) THEN Faults[f].onset ELSE latched_onset[f]

(* The variables of the fault the loop is at, and of the others, for       *)
(* whatever kind of fault.                                                 *)
LEMMA ProcessedFault ==
  ASSUME TypeOK, ProcessFault, NEW f \in FaultId, f = at
  PROVE  /\ at' = at + 1 /\ elapsed' = elapsed
         /\ Severity(f) \in 0..2
         /\ was_active' \in [FaultId -> BOOLEAN] /\ ever_active' \in [FaultId -> BOOLEAN]
         /\ was_active'[f] <=> Severity(f) > 0
         /\ ever_active'[f] <=> ever_active[f] \/ Severity(f) > 0
         /\ \A g \in FaultId \ {f} :
              /\ was_active'[g] = was_active[g] /\ ever_active'[g] = ever_active[g]
              /\ latched'[g] = latched[g] /\ latched_onset'[g] = latched_onset[g]
         /\ \A g \in FaultId : ever_active[g] => ever_active'[g]
         /\ latched[f] => latched'[f] /\ latched_onset'[f] = latched_onset[f]
         /\ current_severity' = [current_severity EXCEPT ![f] = Severity(f)]
         /\ RecordTransition(f, Severity(f) > 0)
         /\ Collect(f, Severity(f))
         /\ Trigger(f)
         /\ latched' \in [FaultId -> BOOLEAN]
         /\ latched_onset' \in [FaultId -> 0..MaxTime]
         /\ Onset(f)' \in Nat
         /\ Severity(f) > 0 =>
              /\ Prereq(f)
              /\ Timed(f) \/ latched'[f]
              /\ SeverityAt(f, Onset(f)', elapsed) > 0
              /\ Onset(f)' <= elapsed
         /\ Prereq(f) /\ (Timed(f) \/ latched'[f]) =>
              Severity(f) = SeverityAt(f, Onset(f)', elapsed)
<1>1. at' = at + 1 /\ elapsed' = elapsed /\ Trigger(f)
  BY DEF ProcessFault
<1>2. /\ was_active' = [was_active EXCEPT ![f] = Severity(f) > 0]
      /\ ever_active' = [ever_active EXCEPT ![f] = @ \/ Severity(f) > 0]
      /\ current_severity' = [current_severity EXCEPT ![f] = Severity(f)]
      /\ RecordTransition(f, Severity(f) > 0)
      /\ Collect(f, Severity(f))
  BY DEF ProcessFault
<1>3. /\ latched' \in [FaultId -> BOOLEAN]
      /\ latched_onset' \in [FaultId -> 0..MaxTime]
  BY <1>1 DEF TypeOK, Trigger
<1>4. elapsed \in Nat
  BY LenNat DEF TypeOK
<1>5. Onset(f)' = IF Timed(f) THEN Faults[f].onset ELSE latched_onset'[f]
  BY DEF Onset, Timed
<1>6. Onset(f)' \in Nat
  BY <1>1, <1>3, <1>5, FaultTypes, LenNat
<1>7. Severity(f) = IF Prereq(f) /\ (Timed(f) \/ latched'[f])
                     THEN SeverityAt(f, Onset(f)', elapsed) ELSE 0
  BY <1>5 DEF Severity, Timed
<1>8. /\ SeverityAt(f, Onset(f)', elapsed) \in 0..2
      /\ SeverityAt(f, Onset(f)', elapsed) > 0 => elapsed >= Onset(f)'
  BY <1>1, <1>4, <1>6, SeverityRange
<1>9. /\ was_active' \in [FaultId -> BOOLEAN] /\ ever_active' \in [FaultId -> BOOLEAN]
      /\ was_active'[f] <=> Severity(f) > 0
      /\ ever_active'[f] <=> ever_active[f] \/ Severity(f) > 0
  <2> DEFINE b == Severity(f) > 0
  <2>1. /\ was_active' = [was_active EXCEPT ![f] = b]
        /\ ever_active' = [ever_active EXCEPT ![f] = ever_active[f] \/ b]
    BY <1>2
  <2>2. b \in BOOLEAN
    OBVIOUS
  <2> HIDE DEF b
  <2>3. /\ was_active' \in [FaultId -> BOOLEAN] /\ ever_active' \in [FaultId -> BOOLEAN]
        /\ was_active'[f] = b /\ ever_active'[f] = (ever_active[f] \/ b)
    BY <2>1, <2>2 DEF TypeOK
  <2> USE DEF b
  <2> QED
    BY <2>3
<1>10. /\ \A g \in FaultId \ {f} :
            /\ was_active'[g] = was_active[g] /\ ever_active'[g] = ever_active[g]
            /\ latched'[g] = latched[g] /\ latched_onset'[g] = latched_onset[g]
       /\ latched[f] => latched'[f] /\ latched_onset'[f] = latched_onset[f]
  BY <1>1, <1>2 DEF TypeOK, Trigger, Latches
<1>11. \A g \in FaultId : ever_active[g] => ever_active'[g]
  BY <1>9, <1>10
<1> QED
  BY <1>1, <1>2, <1>3, <1>4, <1>6, <1>7, <1>8, <1>9, <1>10, <1>11

(* Once met, a prerequisite stays met.                                     *)
LEMMA PrereqStays ==
  ASSUME NEW f \in FaultId, \A g \in FaultId : ever_active[g] => ever_active'[g]
  PROVE  Prereq(f) => Prereq(f)'
BY DEF Prereq

(***************************************************************************)
(* The records.                                                            *)
(***************************************************************************)
\* A fault that was seen to be active has a latched profile that was positive
\* by now; a recorded end means that the profile is over.
RecordInvOf(f) ==
  /\ ever_active[f] <=> recorded_onset[f] >= 0
  /\ was_active[f] <=> recorded_onset[f] >= 0 /\ recorded_end[f] < 0
  /\ recorded_end[f] >= 0 => recorded_onset[f] >= 0
  /\ ever_active[f] => /\ Prereq(f)
                       /\ Timed(f) \/ latched[f]
                       /\ \E t \in 0..elapsed : SeverityAt(f, Onset(f), t) > 0
  /\ recorded_end[f] >= 0 => \A t \in Nat : t >= elapsed => SeverityAt(f, Onset(f), t) = 0

RecordInv == \A f \in FaultId : RecordInvOf(f)

(* The bookkeeping of the fault that the loop is at.                       *)
LEMMA RecordOfProcessed ==
  ASSUME TypeOK, RecordInv, ProcessFault, NEW f \in FaultId, f = at
  PROVE  RecordInvOf(f)' /\ recorded_onset' \in [FaultId -> Times]
                          /\ recorded_end' \in [FaultId -> Times]
<1> DEFINE s == Severity(f)
           ends == s = 0 /\ was_active[f]
<1>1. f \in FaultId /\ s \in 0..2 /\ elapsed' = elapsed
  BY ProcessedFault
<1>2. /\ elapsed \in Nat /\ MaxTime \in Nat /\ elapsed <= MaxTime
      /\ recorded_onset[f] \in Int /\ recorded_end[f] \in Int
      /\ was_active[f] \in BOOLEAN /\ ever_active[f] \in BOOLEAN /\ latched[f] \in BOOLEAN
      /\ recorded_onset \in [FaultId -> Times] /\ recorded_end \in [FaultId -> Times]
  BY <1>1, LenNat DEF TypeOK, Times
<1>3. RecordInvOf(f)
  BY <1>1 DEF RecordInv
<1>4. /\ was_active'[f] <=> s > 0
      /\ ever_active'[f] <=> ever_active[f] \/ s > 0
  BY ProcessedFault
<1>5. latched[f] => latched'[f] /\ latched_onset'[f] = latched_onset[f]
  BY ProcessedFault
<1>6. ever_active[f] => Onset(f)' = Onset(f)
  BY <1>3, <1>5 DEF RecordInvOf, Onset, Timed
<1>7. Prereq(f) => Prereq(f)'
  <2>1. \A g \in FaultId : ever_active[g] => ever_active'[g]
    BY ProcessedFault
  <2> QED
    BY <2>1, PrereqStays
<1>8. Onset(f)' \in Nat
  BY ProcessedFault
<1>9. /\ recorded_onset' = [recorded_onset EXCEPT ![f] =
           IF s > 0 /\ recorded_onset[f] < 0 THEN Onset(f)' ELSE @]
      /\ recorded_end' = [recorded_end EXCEPT ![f] = IF ends THEN elapsed ELSE @]
  <2>1. RecordTransition(f, s > 0)
    BY ProcessedFault
  <2>2. Onset(f)' = IF Timed(f) THEN Faults[f].onset ELSE latched_onset'[f]
    BY DEF Onset, Timed
  <2>3. ~(s > 0) /\ was_active[f] /\ recorded_onset[f] >= 0 /\ recorded_end[f] < 0 <=> ends
    BY <1>1, <1>3 DEF RecordInvOf
  <2> HIDE DEF s
  <2> QED
    BY <2>1, <2>2, <2>3 DEF RecordTransition, Timed
<1>10. /\ recorded_onset'[f] = IF s > 0 /\ recorded_onset[f] < 0 THEN Onset(f)'
                               ELSE recorded_onset[f]
       /\ recorded_end'[f] = IF ends THEN elapsed ELSE recorded_end[f]
  BY <1>1, <1>2, <1>9
<1>11. s > 0 => Onset(f)' <= elapsed
  BY ProcessedFault
<1>16. recorded_onset'[f] \in Int /\ recorded_end'[f] \in Int
  BY <1>2, <1>8, <1>10
<1>12. recorded_onset' \in [FaultId -> Times] /\ recorded_end' \in [FaultId -> Times]
  BY <1>1, <1>2, <1>8, <1>9, <1>11 DEF Times
<1>13. CASE s > 0
  <2>1. /\ Prereq(f) /\ (Timed(f) \/ latched'[f])
        /\ SeverityAt(f, Onset(f)', elapsed) > 0
    <3>1. Severity(f) > 0
      BY <1>13
    <3> HIDE DEF s
    <3> QED
      BY <3>1, ProcessedFault
  <2>2. recorded_end[f] < 0
    BY <2>1, <1>2, <1>3, <1>6 DEF RecordInvOf
  <2>3. (\E t \in 0..elapsed : SeverityAt(f, Onset(f), t) > 0)'
    BY <2>1, <1>1, <1>2
  <2>4. (Timed(f) \/ latched[f])' /\ Prereq(f)'
    BY <2>1, <1>7 DEF Timed
  <2> QED
    BY <1>1, <1>2, <1>3, <1>4, <1>8, <1>10, <1>12, <1>13, <1>16, <2>2, <2>3, <2>4 DEF RecordInvOf
<1>14. CASE s = 0 /\ ever_active[f]
  <2>1. Prereq(f) /\ (Timed(f) \/ latched'[f])
    BY <1>3, <1>5, <1>14 DEF RecordInvOf
  <2>2. SeverityAt(f, Onset(f), elapsed) = 0
    BY <1>6, <1>14, <2>1, ProcessedFault
  <2>3. PICK t0 \in 0..elapsed : SeverityAt(f, Onset(f), t0) > 0
    BY <1>3, <1>14 DEF RecordInvOf
  <2>4. \A t \in Nat : t >= elapsed => SeverityAt(f, Onset(f), t) = 0
    BY <1>1, <1>2, <1>6, <1>8, <1>14, <2>2, <2>3, SeverityStaysZero
  <2>5. (\E t \in 0..elapsed : SeverityAt(f, Onset(f), t) > 0)'
    BY <1>1, <1>6, <1>14, <2>3
  <2>6. (\A t \in Nat : t >= elapsed => SeverityAt(f, Onset(f), t) = 0)'
    BY <1>1, <1>6, <1>14, <2>4
  <2>7. (Timed(f) \/ latched[f])' /\ Prereq(f)'
    BY <2>1, <1>7 DEF Timed
  <2> QED
    BY <1>2, <1>3, <1>4, <1>10, <1>12, <1>14, <1>16, <2>5, <2>6, <2>7 DEF RecordInvOf
<1>15. CASE s = 0 /\ ~ever_active[f]
  BY <1>2, <1>3, <1>4, <1>10, <1>12, <1>15 DEF RecordInvOf
<1> QED
  BY <1>1, <1>2, <1>13, <1>14, <1>15

(* The other faults are left alone.                                        *)
LEMMA RecordOfOthers ==
  ASSUME TypeOK, RecordInv, ProcessFault, NEW g \in FaultId, NEW f \in FaultId, f = at, g # f
  PROVE  RecordInvOf(g)'
<1>1. /\ elapsed' = elapsed
      /\ was_active'[g] = was_active[g] /\ ever_active'[g] = ever_active[g]
      /\ latched'[g] = latched[g] /\ latched_onset'[g] = latched_onset[g]
  BY ProcessedFault
<1>5. recorded_onset'[g] = recorded_onset[g] /\ recorded_end'[g] = recorded_end[g]
  <2>1. RecordTransition(f, Severity(f) > 0)
    BY ProcessedFault
  <2> QED
    BY <2>1 DEF RecordTransition, TypeOK
<1>2. Prereq(g) => Prereq(g)'
  <2>1. \A h \in FaultId : ever_active[h] => ever_active'[h]
    BY ProcessedFault
  <2> QED
    BY <2>1, PrereqStays
<1>3. Onset(g)' = Onset(g)
  BY <1>1 DEF Onset, Timed
<1>4. RecordInvOf(g)
  BY DEF RecordInv
<1> QED
  BY <1>1, <1>2, <1>3, <1>4, <1>5 DEF RecordInvOf, Timed
(* A fault that has been active and no longer is does not become active.   *)
LEMMA NotActiveAgain ==
  ASSUME TypeOK, RecordInv, ProcessFault, NEW f \in FaultId, f = at,
         ever_active[f], ~was_active[f]
  PROVE  Severity(f) = 0
<1>1. RecordInvOf(f)
  BY DEF RecordInv
<1>2. recorded_end[f] >= 0
  BY <1>1 DEF RecordInvOf, TypeOK, Times
<1>3. elapsed \in Nat
  BY LenNat DEF TypeOK
<1>4. SeverityAt(f, Onset(f), elapsed) = 0
  BY <1>1, <1>2, <1>3 DEF RecordInvOf
<1>5. Prereq(f) /\ (Timed(f) \/ latched[f])
  BY <1>1 DEF RecordInvOf
<1>6. latched[f] => latched'[f] /\ latched_onset'[f] = latched_onset[f]
  BY ProcessedFault
<1>7. Onset(f)' = Onset(f)
  BY <1>5, <1>6 DEF Onset, Timed
<1> QED
  BY <1>4, <1>5, <1>6, <1>7, ProcessedFault

(***************************************************************************)
(* What the faults do to the world.                                        *)
(***************************************************************************)
IsObstacle(f) == Faults[f].kind = "dynamic_obstacle"
Obstacles == {f \in FaultId : IsObstacle(f)}
AppliedObstacles == {f \in Obstacles : env_applied[f]}

\* The end of an environment fault is handled in the iteration that sees it
\* inactive for the first time.
EnvInv ==
  \A f \in FaultId : Faults[f].kind \in EnvironmentKinds =>
    /\ env_applied[f] <=> ever_active[f]
    /\ env_ended[f] <=> ever_active[f] /\ ~was_active[f]

CountInv == env_spawn_counter_ = Cardinality(AppliedObstacles)

\* The model that an obstacle fault spawned has the name that the fault knows.
ObstacleInv ==
  \A m \in models : \A f \in Obstacles : m.by = f =>
    /\ env_applied[f]
    /\ m.name = env_spawned_name[f] /\ m.name # NoName
    /\ Faults[f].despawn_on_end => ~env_ended[f]

SpillInv == spills = {f \in FaultId : Faults[f].kind = "spill" /\ was_active[f]}

EnvTypes ==
  /\ env_applied \in [FaultId -> BOOLEAN]
  /\ env_ended \in [FaultId -> BOOLEAN]
  /\ env_spawned_name \in [FaultId -> Suffixed \cup {NoName}]
  /\ env_spawn_counter_ \in 0..Cardinality(Obstacles)
  /\ models \subseteq [name : Suffixed, by : FaultId \cup {User}]
  /\ spills \subseteq FaultId

LEMMA ObstaclesFinite ==
  /\ IsFiniteSet(Obstacles)
  /\ Cardinality(Obstacles) \in Nat /\ Cardinality(Obstacles) <= Len(Faults)
<1>1. IsFiniteSet(1..Len(Faults)) /\ Cardinality(1..Len(Faults)) = Len(Faults)
  BY LenNat, FS_Interval
<1>2. Obstacles \subseteq 1..Len(Faults)
  BY DEF Obstacles, FaultId
<1> QED
  BY <1>1, <1>2, FS_Subset, FS_CardinalityType

(* The counter of spawned obstacles, when one more fault is applied.       *)
LEMMA CountOneMore ==
  ASSUME TypeOK, CountInv, NEW f \in Obstacles, ~env_applied[f],
         env_applied' = [env_applied EXCEPT ![f] = TRUE],
         env_spawn_counter_' = env_spawn_counter_ + 1
  PROVE  CountInv' /\ env_spawn_counter_' \in 1..Cardinality(Obstacles)
<1>1. AppliedObstacles' = AppliedObstacles \cup {f} /\ f \notin AppliedObstacles
  BY DEF AppliedObstacles, Obstacles, IsObstacle, TypeOK
<1>2. /\ IsFiniteSet(AppliedObstacles) /\ IsFiniteSet(AppliedObstacles')
      /\ Cardinality(AppliedObstacles') <= Cardinality(Obstacles)
      /\ Cardinality(AppliedObstacles') \in Nat /\ Cardinality(AppliedObstacles) \in Nat
  <2>1. AppliedObstacles \subseteq Obstacles /\ AppliedObstacles' \subseteq Obstacles
    BY DEF AppliedObstacles, Obstacles, IsObstacle
  <2> QED
    BY <2>1, ObstaclesFinite, FS_Subset, FS_CardinalityType
<1>3. Cardinality(AppliedObstacles') = Cardinality(AppliedObstacles) + 1
  BY <1>1, <1>2, FS_AddElement
<1> QED
  BY <1>2, <1>3, ObstaclesFinite DEF CountInv

(* The counter, when no obstacle fault is applied for the first time.      *)
LEMMA CountSame ==
  ASSUME CountInv, env_spawn_counter_' = env_spawn_counter_,
         \A g \in Obstacles : env_applied'[g] = env_applied[g]
  PROVE  CountInv'
<1>1. AppliedObstacles' = AppliedObstacles
  BY DEF AppliedObstacles, Obstacles, IsObstacle
<1> QED
  BY <1>1 DEF CountInv

(* A numbered name is a name.                                              *)
LEMMA NumberedName ==
  ASSUME NEW x, NEW k \in Int, k # 0
  PROVE  <<x, k>> # NoName
<1>1. <<x, k>>[2] = k /\ NoName[2] = 0
  BY DEF NoName
<1> QED
  BY <1>1

(* An onset may add one model, under a name that no obstacle fault         *)
(* forgets, and touches no other fault.                                    *)
LEMMA OnsetSpawns ==
  ASSUME TypeOK, CountInv, NEW f \in FaultId, ~env_applied[f],
         env_applied' = [env_applied EXCEPT ![f] = TRUE], ApplyEnvironmentOnset(f)
  PROVE  /\ CountInv' /\ env_spawn_counter_' \in 0..Cardinality(Obstacles)
         /\ \/ UNCHANGED <<models, env_spawned_name>>
            \/ \E name \in Suffixed :
                 /\ models' = models \cup {[name |-> name, by |-> f]}
                 /\ env_spawned_name' = [env_spawned_name EXCEPT ![f] = name]
                 /\ f \in Obstacles => name # NoName
<1>1. env_spawn_counter_ \in 0..Cardinality(Obstacles) /\ Cardinality(Obstacles) <= Len(Faults)
      /\ Cardinality(Obstacles) \in Nat /\ Len(Faults) \in Nat
  BY ObstaclesFinite, LenNat DEF TypeOK, Obstacles, IsObstacle
<1>2. Faults[f].model \in BaseNames
  BY FaultTypes
<1>3. CASE IsObstacle(f)
  <2>1. env_spawn_counter_' = env_spawn_counter_ + 1
        /\ Spawn(f, <<Faults[f].model, env_spawn_counter_'>>)
    BY <1>3 DEF IsObstacle, ApplyEnvironmentOnset
  <2>2. CountInv' /\ env_spawn_counter_' \in 1..Cardinality(Obstacles)
    BY <1>3, <2>1, CountOneMore DEF Obstacles
  <2>3. <<Faults[f].model, env_spawn_counter_'>> \in Suffixed
    BY <1>1, <1>2, <2>2 DEF Suffixed
  <2>4. <<Faults[f].model, env_spawn_counter_'>> # NoName
    BY <1>1, <2>2, NumberedName
  <2> QED
    BY <1>1, <2>1, <2>2, <2>3, <2>4 DEF Spawn
<1>4. CASE ~IsObstacle(f)
  <2>1. env_spawn_counter_' = env_spawn_counter_
    BY <1>4 DEF IsObstacle, ApplyEnvironmentOnset
  <2>2. CountInv'
    BY <1>4, <2>1, CountSame DEF Obstacles, TypeOK
  <2>3. \/ UNCHANGED <<models, env_spawned_name>>
        \/ Spawn(f, <<Faults[f].model, 0>>)
    BY <1>4 DEF IsObstacle, ApplyEnvironmentOnset
  <2>4. <<Faults[f].model, 0>> \in Suffixed
    BY <1>1, <1>2 DEF Suffixed
  <2>5. f \notin Obstacles
    BY <1>4 DEF Obstacles
  <2> QED
    BY <1>1, <2>1, <2>2, <2>3, <2>4, <2>5 DEF Spawn
<1> QED
  BY <1>3, <1>4
(* The invariants of the world are kept by the iteration that looks at f.  *)
LEMMA EnvOfProcessed ==
  ASSUME TypeOK, RecordInv, EnvInv, CountInv, ObstacleInv, SpillInv, ProcessFault,
         NEW f \in FaultId, f = at
  PROVE  EnvTypes' /\ EnvInv' /\ CountInv' /\ ObstacleInv' /\ SpillInv'
<1> DEFINE active == Severity(f) > 0
<1>1. /\ was_active' \in [FaultId -> BOOLEAN] /\ ever_active' \in [FaultId -> BOOLEAN]
      /\ was_active'[f] <=> active
      /\ ever_active'[f] <=> ever_active[f] \/ active
      /\ \A g \in FaultId \ {f} :
           was_active'[g] = was_active[g] /\ ever_active'[g] = ever_active[g]
  BY ProcessedFault
<1>2. ~active <=> Severity(f) = 0
  BY ProcessedFault
<1>3. ever_active[f] /\ ~was_active[f] => ~active
  BY <1>2, NotActiveAgain
<1>4. was_active[f] => ever_active[f]
  BY DEF RecordInv, RecordInvOf
<1>5. EnvTypes
  BY DEF EnvTypes, TypeOK, Obstacles, IsObstacle
<1>6. \A g \in Obstacles : g \in FaultId /\ Faults[g].kind \in EnvironmentKinds
                           /\ Faults[g].kind # "spill"
  BY DEF Obstacles, IsObstacle, EnvironmentKinds, Kinds
<1>7. "spill" \in EnvironmentKinds
  BY DEF EnvironmentKinds, Kinds
<1> HIDE DEF active
<1>8. CASE Faults[f].kind \notin EnvironmentKinds
  <2>1. UNCHANGED envVars
    BY <1>8 DEF ProcessFault
  <2>2. EnvTypes' /\ CountInv' /\ ObstacleInv'
    BY <1>5, <2>1, CountSame DEF envVars, EnvTypes, ObstacleInv, Suffixed, Obstacles, IsObstacle
  <2>3. EnvInv'
    BY <1>1, <1>8, <2>1 DEF EnvInv, envVars
  <2>4. SpillInv'
    BY <1>1, <1>7, <1>8, <2>1 DEF SpillInv, envVars
  <2> QED
    BY <2>2, <2>3, <2>4
<1>9. CASE Faults[f].kind \in EnvironmentKinds
  <2>1. HandleEnvironmentFault(f, active)
    BY <1>9 DEF ProcessFault, active
  <2>2. CASE /\ active
             /\ env_applied' = [env_applied EXCEPT ![f] = TRUE]
             /\ spills' = IF Faults[f].kind = "spill" THEN spills \cup {f} ELSE spills
             /\ \/ ~env_applied[f] /\ ApplyEnvironmentOnset(f)
                \/ env_applied[f] /\ UNCHANGED <<models, env_spawned_name, env_spawn_counter_>>
             /\ UNCHANGED env_ended
    <3>1. SpillInv' /\ spills' \subseteq FaultId
      BY <1>1, <1>5, <2>2 DEF SpillInv, EnvTypes
    <3>2. EnvInv'
      BY <1>1, <1>3, <1>4, <1>5, <1>9, <2>2 DEF EnvInv, EnvTypes
    <3>3. env_applied' \in [FaultId -> BOOLEAN] /\ env_ended' \in [FaultId -> BOOLEAN]
          /\ \A g \in FaultId \ {f} : env_applied'[g] = env_applied[g]
          /\ env_applied'[f]
      BY <1>5, <2>2 DEF EnvTypes
    <3>4. CASE env_applied[f]
      <4>1. UNCHANGED <<models, env_spawned_name, env_spawn_counter_>>
        BY <2>2, <3>4
      <4>2. \A g \in FaultId : env_applied'[g] = env_applied[g]
        <5>1. env_applied'[f] = TRUE /\ env_applied[f] = TRUE
          BY <1>5, <2>2, <3>4 DEF EnvTypes
        <5> QED
          BY <3>3, <5>1
      <4>3. CountInv'
        BY <1>6, <4>1, <4>2, CountSame
      <4>4. ObstacleInv'
        BY <1>6, <2>2, <4>1, <4>2 DEF ObstacleInv, Obstacles, IsObstacle
      <4> QED
        BY <1>5, <3>1, <3>2, <3>3, <4>1, <4>3, <4>4 DEF EnvTypes, Obstacles, IsObstacle
    <3>5. CASE ~env_applied[f]
      <4>1. /\ CountInv' /\ env_spawn_counter_' \in 0..Cardinality(Obstacles)
            /\ \/ UNCHANGED <<models, env_spawned_name>>
               \/ \E name \in Suffixed :
                    /\ models' = models \cup {[name |-> name, by |-> f]}
                    /\ env_spawned_name' = [env_spawned_name EXCEPT ![f] = name]
                    /\ f \in Obstacles => name # NoName
        BY <2>2, <3>5, OnsetSpawns
      <4>2. f \in Obstacles => \A m \in models : m.by # f
        BY <3>5 DEF ObstacleInv
      <4>3. f \in Obstacles => ~env_ended[f]
        BY <1>6, <3>5 DEF EnvInv
      <4>4. CASE UNCHANGED <<models, env_spawned_name>>
        <5>1. ObstacleInv'
          BY <1>6, <2>2, <3>3, <4>2, <4>4 DEF ObstacleInv, Obstacles, IsObstacle
        <5> QED
          BY <1>5, <3>1, <3>2, <3>3, <4>1, <4>4, <5>1 DEF EnvTypes, Obstacles, IsObstacle
      <4>5. ASSUME NEW name \in Suffixed,
                   models' = models \cup {[name |-> name, by |-> f]},
                   env_spawned_name' = [env_spawned_name EXCEPT ![f] = name],
                   f \in Obstacles => name # NoName
            PROVE  EnvTypes' /\ ObstacleInv'
        <5>1. EnvTypes'
          BY <1>5, <3>1, <3>3, <4>1, <4>5 DEF EnvTypes, Obstacles, IsObstacle, Suffixed
        <5>2. ASSUME NEW m \in models', NEW g \in Obstacles, m.by = g
              PROVE  /\ env_applied'[g] /\ m.name = env_spawned_name'[g] /\ m.name # NoName
                     /\ Faults[g].despawn_on_end => ~env_ended'[g]
          <6>1. CASE g = f
            <7>1. m = [name |-> name, by |-> f]
              BY <4>2, <4>5, <5>2, <6>1
            <7> QED
              BY <1>5, <2>2, <3>3, <4>3, <4>5, <5>2, <6>1, <7>1 DEF EnvTypes
          <6>2. CASE g # f
            <7>1. m \in models
              BY <4>5, <5>2, <6>2
            <7> QED
              BY <1>5, <1>6, <2>2, <3>3, <4>5, <5>2, <6>2, <7>1 DEF EnvTypes, ObstacleInv
          <6> QED
            BY <6>1, <6>2
        <5> QED
          BY <5>1, <5>2 DEF ObstacleInv, Obstacles, IsObstacle
      <4> QED
        BY <3>1, <3>2, <4>1, <4>4, <4>5
    <3> QED
      BY <3>4, <3>5
  <2>3. CASE /\ ~active /\ env_applied[f] /\ ~env_ended[f]
             /\ ApplyEnvironmentEnd(f)
             /\ env_ended' = [env_ended EXCEPT ![f] = TRUE]
             /\ UNCHANGED <<env_applied, env_spawn_counter_>>
    <3>1. SpillInv' /\ spills' \subseteq FaultId
      BY <1>1, <1>5, <2>3 DEF SpillInv, EnvTypes, ApplyEnvironmentEnd
    <3>2. EnvInv'
      BY <1>1, <1>4, <1>5, <1>9, <2>3 DEF EnvInv, EnvTypes
    <3>3. env_ended' \in [FaultId -> BOOLEAN]
          /\ \A g \in FaultId \ {f} : env_ended'[g] = env_ended[g]
      BY <1>5, <2>3 DEF EnvTypes
    <3>4. CountInv'
      BY <2>3, CountSame
    <3>5. CASE Despawns(f)
      <4>1. /\ models' = {m \in models : m.name # env_spawned_name[f]}
            /\ env_spawned_name' = [env_spawned_name EXCEPT ![f] = NoName]
        BY <2>3, <3>5 DEF ApplyEnvironmentEnd
      <4>2. EnvTypes'
        BY <1>5, <2>3, <3>1, <3>3, <4>1 DEF EnvTypes, Obstacles, IsObstacle, Suffixed
      <4>3. ASSUME NEW m \in models', NEW g \in Obstacles, m.by = g
            PROVE  /\ g # f /\ env_applied[g] /\ m.name = env_spawned_name'[g] /\ m.name # NoName
                   /\ Faults[g].despawn_on_end => ~env_ended'[g]
        <5>1. m \in models /\ m.name # env_spawned_name[f]
          BY <4>1, <4>3
        <5>2. g # f
          BY <4>3, <5>1 DEF ObstacleInv
        <5> QED
          BY <1>5, <1>6, <3>3, <4>1, <4>3, <5>1, <5>2 DEF ObstacleInv, EnvTypes
      <4> QED
        BY <2>3, <3>1, <3>2, <3>4, <4>2, <4>3 DEF ObstacleInv, Obstacles, IsObstacle
    <3>6. CASE ~Despawns(f)
      <4>1. UNCHANGED <<models, env_spawned_name>>
        BY <2>3, <3>6 DEF ApplyEnvironmentEnd
      <4>2. EnvTypes'
        BY <1>5, <2>3, <3>1, <3>3, <4>1 DEF EnvTypes, Obstacles, IsObstacle, Suffixed
      <4>3. ASSUME NEW m \in models, NEW g \in Obstacles, m.by = g
            PROVE  /\ env_applied[g] /\ m.name = env_spawned_name[g] /\ m.name # NoName
                   /\ Faults[g].despawn_on_end => ~env_ended'[g]
        <5>1. /\ env_applied[g] /\ m.name = env_spawned_name[g] /\ m.name # NoName
              /\ Faults[g].despawn_on_end => ~env_ended[g]
          BY <4>3 DEF ObstacleInv
        <5>2. CASE g = f
          BY <3>6, <4>3, <5>1, <5>2 DEF Despawns, Obstacles, IsObstacle
        <5> QED
          BY <1>6, <3>3, <5>1, <5>2
      <4> QED
        BY <2>3, <3>1, <3>2, <3>4, <4>1, <4>2, <4>3 DEF ObstacleInv, Obstacles, IsObstacle
    <3> QED
      BY <3>5, <3>6
  <2>4. CASE /\ ~active /\ (env_applied[f] => env_ended[f])
             /\ UNCHANGED envVars
    <3>1. EnvTypes' /\ CountInv' /\ ObstacleInv'
      BY <1>5, <2>4, CountSame DEF envVars, EnvTypes, ObstacleInv, Suffixed, Obstacles, IsObstacle
    <3>2. ~was_active[f]
      BY <1>4, <1>9, <2>4 DEF EnvInv
    <3>3. EnvInv' /\ SpillInv'
      BY <1>1, <1>9, <2>4, <3>2 DEF EnvInv, SpillInv, envVars
    <3> QED
      BY <3>1, <3>3
  <2> QED
    BY <2>1, <2>2, <2>3, <2>4 DEF HandleEnvironmentFault
<1> QED
  BY <1>8, <1>9
(***************************************************************************)
(* The snapshot and the manifest.                                          *)
(***************************************************************************)
\* The manifest can only be out of date within an iteration that is dirty.
ManifestInv ==
  /\ ~manifest_dirty => manifest = Record
  /\ at = 0 => ~manifest_dirty
  /\ manifest \in [FaultId -> [onset : Times, end : Times]]

LEMMA ManifestOfProcessed ==
  ASSUME TypeOK, RecordInv, ManifestInv, ProcessFault, NEW f \in FaultId, f = at
  PROVE  ManifestInv' /\ manifest_dirty' \in BOOLEAN
<1>1. RecordTransition(f, Severity(f) > 0) /\ at' = at + 1
  BY ProcessedFault
<1>2. at' # 0
  BY <1>1, FaultTypes
<1>3. manifest' = manifest
  BY DEF ProcessFault
<1>4. manifest_dirty' \in BOOLEAN
  BY <1>1 DEF RecordTransition, TypeOK
<1>5. ASSUME ~manifest_dirty'
      PROVE  recorded_onset' = recorded_onset /\ recorded_end' = recorded_end /\ ~manifest_dirty
  BY <1>1, <1>5 DEF RecordTransition, TypeOK
<1> QED
  BY <1>2, <1>3, <1>4, <1>5 DEF ManifestInv, Record

\* The snapshot holds the effects of the faults before n.
Before(n, k) == {f \in ActiveEffects(k) : f < n}

SnapshotUpTo(n, snap) ==
  \A k \in Effects :
    /\ Before(n, k) = {} => snap[k] = 0
    /\ \A f \in Before(n, k) :
         (\A g \in Before(n, k) : g <= f) => snap[k] = current_severity[f]

SnapshotInv ==
  /\ at # 0 => SnapshotUpTo(at, snapshot)
  /\ at = 0 => /\ SnapshotUpTo(Len(Faults) + 1, effects)
               /\ snapshot = [k \in Effects |-> 0]

LEMMA SnapshotOfProcessed ==
  ASSUME TypeOK, SnapshotInv, ProcessFault, NEW f \in FaultId, f = at
  PROVE  SnapshotInv' /\ snapshot' \in [Effects -> 0..2]
                      /\ current_severity' \in [FaultId -> 0..2]
<1>1. /\ at' = f + 1 /\ Severity(f) \in 0..2 /\ at' # 0 /\ f \in Nat /\ f # 0
      /\ Collect(f, Severity(f))
      /\ current_severity' = [current_severity EXCEPT ![f] = Severity(f)]
      /\ was_active'[f] <=> Severity(f) > 0
      /\ \A g \in FaultId \ {f} : was_active'[g] = was_active[g]
  BY ProcessedFault, FaultTypes
<1> DEFINE s == Severity(f)
<1> HIDE DEF s
<1>2. /\ at' = f + 1 /\ s \in 0..2 /\ at' # 0 /\ f \in Nat
      /\ snapshot' = IF Faults[f].kind = "effect" /\ s > 0
                     THEN [snapshot EXCEPT ![Faults[f].key] = s] ELSE snapshot
      /\ current_severity' = [current_severity EXCEPT ![f] = s]
      /\ was_active'[f] <=> s > 0
      /\ \A g \in FaultId \ {f} : was_active'[g] = was_active[g]
  BY <1>1 DEF s, Collect
<1>3. current_severity' \in [FaultId -> 0..2] /\ snapshot' \in [Effects -> 0..2]
  BY <1>2 DEF TypeOK
<1>4. SnapshotUpTo(f, snapshot)
  BY <1>1 DEF SnapshotInv
<1>5. \A g \in FaultId : g \in Nat
  BY FaultTypes
<1>6. ASSUME NEW k \in Effects
      PROVE  /\ Before(at, k)' = {} => snapshot'[k] = 0
             /\ \A h \in Before(at, k)' :
                  (\A g \in Before(at, k)' : g <= h) => snapshot'[k] = current_severity'[h]
  <2> DEFINE Mine == Faults[f].kind = "effect" /\ Faults[f].key = k /\ s > 0
  <2>1. Before(at, k)' = IF Mine THEN Before(f, k) \cup {f} ELSE Before(f, k)
    <3>1. PICK active : active = was_active'
      OBVIOUS
    <3>2. Before(at, k)' = {h \in FaultId : Faults[h].kind = "effect" /\ Faults[h].key = k
                                            /\ active[h] /\ h < f + 1}
      BY <1>2, <3>1 DEF Before, ActiveEffects
    <3>3. Before(f, k) = {h \in FaultId : Faults[h].kind = "effect" /\ Faults[h].key = k
                                          /\ was_active[h] /\ h < f}
      BY DEF Before, ActiveEffects
    <3>4. /\ \A h \in FaultId : h < f + 1 <=> h < f \/ h = f
          /\ f < f + 1 /\ ~(f < f)
      BY <1>2, <1>5
    <3>5. /\ active[f] <=> s > 0
          /\ \A h \in FaultId : h # f => active[h] = was_active[h]
      BY <1>2, <3>1
    <3>6. CASE Mine
      BY <3>2, <3>3, <3>4, <3>5, <3>6
    <3>7. CASE ~Mine
      BY <3>2, <3>3, <3>4, <3>5, <3>7
    <3> QED
      BY <3>6, <3>7
  <2>2. \A h \in Before(f, k) : h \in FaultId /\ h # f /\ ~(f <= h)
    <3>1. \A h \in Before(f, k) : h \in FaultId /\ h < f
      BY DEF Before, ActiveEffects
    <3>2. \A h \in FaultId : h < f => h # f /\ ~(f <= h)
      BY <1>5
    <3> QED
      BY <3>1, <3>2
  <2>3. \A h \in Before(f, k) : current_severity'[h] = current_severity[h]
    BY <1>2, <2>2 DEF TypeOK
  <2>4. CASE Mine
    <3>1. snapshot'[k] = s /\ current_severity'[f] = s
      BY <1>2, <2>4 DEF TypeOK
    <3> QED
      BY <2>1, <2>2, <2>4, <3>1
  <2>5. CASE ~Mine
    <3>1. snapshot'[k] = snapshot[k]
      BY <1>2, <2>5 DEF TypeOK
    <3> QED
      BY <1>4, <2>1, <2>3, <2>5, <3>1 DEF SnapshotUpTo
  <2> QED
    BY <2>4, <2>5
<1>7. SnapshotUpTo(at, snapshot)'
  BY <1>6 DEF SnapshotUpTo
<1> QED
  BY <1>2, <1>3, <1>7 DEF SnapshotInv

(***************************************************************************)
(* The invariant.                                                          *)
(***************************************************************************)
InjectorInv ==
  /\ TypeOK
  /\ RecordInv
  /\ EnvInv /\ CountInv /\ ObstacleInv /\ SpillInv
  /\ ManifestInv
  /\ SnapshotInv

LEMMA InjectorInit == Init => InjectorInv
<1> SUFFICES ASSUME Init PROVE InjectorInv
  OBVIOUS
<1>1. TypeOK
  <2>1. -1 \in Times /\ 0 \in 0..MaxTime /\ 0 \in 0..Len(Faults) + 1
    BY LenNat DEF Times
  <2>2. 0 \in 0..Cardinality({f \in FaultId : Faults[f].kind = "dynamic_obstacle"})
    BY ObstaclesFinite DEF Obstacles, IsObstacle
  <2>3. /\ elapsed \in 0..MaxTime /\ at \in 0..Len(Faults) + 1
        /\ env_spawn_counter_ \in 0..Cardinality({f \in FaultId : Faults[f].kind = "dynamic_obstacle"})
    BY <2>1, <2>2 DEF Init
  <2>4. /\ latched \in [FaultId -> BOOLEAN] /\ latched_onset \in [FaultId -> 0..MaxTime]
        /\ ever_active \in [FaultId -> BOOLEAN] /\ was_active \in [FaultId -> BOOLEAN]
        /\ current_severity \in [FaultId -> 0..2]
    BY <2>1 DEF Init
  <2>5. recorded_onset \in [FaultId -> Times] /\ recorded_end \in [FaultId -> Times]
    BY <2>1 DEF Init
  <2>6. manifest \in [FaultId -> [onset : Times, end : Times]]
    BY <2>1, <2>5 DEF Init, Record
  <2>7. /\ env_applied \in [FaultId -> BOOLEAN] /\ env_ended \in [FaultId -> BOOLEAN]
        /\ env_spawned_name \in [FaultId -> Suffixed \cup {NoName}]
    BY DEF Init
  <2>8. snapshot \in [Effects -> 0..2] /\ effects \in [Effects -> 0..2]
    BY DEF Init
  <2>9. /\ models \subseteq [name : Suffixed, by : FaultId \cup {User}]
        /\ spills \subseteq FaultId /\ holds \subseteq FaultId /\ manifest_dirty \in BOOLEAN
    BY DEF Init
  <2> QED
    BY <2>3, <2>4, <2>5, <2>6, <2>7, <2>8, <2>9 DEF TypeOK
<1>2. RecordInv /\ EnvInv /\ SpillInv /\ ObstacleInv
  BY DEF Init, RecordInv, RecordInvOf, EnvInv, SpillInv, ObstacleInv
<1>3. CountInv
  <2>1. AppliedObstacles = {}
    BY DEF Init, AppliedObstacles, Obstacles
  <2> QED
    BY <2>1, FS_EmptySet DEF Init, CountInv
<1>4. ManifestInv
  BY <1>1 DEF Init, ManifestInv, TypeOK
<1>5. SnapshotInv
  BY LenNat DEF Init, SnapshotInv, SnapshotUpTo, Before, ActiveEffects
<1> QED
  BY <1>1, <1>2, <1>3, <1>4, <1>5 DEF InjectorInv

LEMMA ProcessKeeps ==
  ASSUME InjectorInv, ProcessFault
  PROVE  InjectorInv'
<1>1. PICK f \in FaultId : f = at
  BY DEF ProcessFault
<1> USE DEF InjectorInv
<1>2. EnvTypes' /\ EnvInv' /\ CountInv' /\ ObstacleInv' /\ SpillInv'
  BY <1>1, EnvOfProcessed
<1>3. ManifestInv' /\ manifest_dirty' \in BOOLEAN
  BY <1>1, ManifestOfProcessed
<1>4. SnapshotInv' /\ snapshot' \in [Effects -> 0..2] /\ current_severity' \in [FaultId -> 0..2]
  BY <1>1, SnapshotOfProcessed
<1>5. RecordInvOf(f)' /\ recorded_onset' \in [FaultId -> Times]
                      /\ recorded_end' \in [FaultId -> Times]
  BY <1>1, RecordOfProcessed
<1>6. \A g \in FaultId : g # f => RecordInvOf(g)'
  BY <1>1, RecordOfOthers
<1>7. RecordInv'
  BY <1>5, <1>6 DEF RecordInv
<1>8. /\ at' = f + 1 /\ elapsed' = elapsed
      /\ was_active' \in [FaultId -> BOOLEAN] /\ ever_active' \in [FaultId -> BOOLEAN]
      /\ latched' \in [FaultId -> BOOLEAN] /\ latched_onset' \in [FaultId -> 0..MaxTime]
  BY <1>1, ProcessedFault
<1>9. holds' = holds /\ effects' = effects
  BY DEF ProcessFault
<1>10. at' \in 0..Len(Faults) + 1
  BY <1>8, FaultTypes
<1>11. TypeOK'
  BY <1>2, <1>3, <1>4, <1>5, <1>8, <1>9, <1>10
  DEF TypeOK, EnvTypes, ManifestInv, Obstacles, IsObstacle, Suffixed
<1> QED
  BY <1>2, <1>3, <1>4, <1>7, <1>11

(* The steps between the faults.                                           *)
LEMMA LoopKeeps ==
  ASSUME InjectorInv, BeforePhysicsStep \/ StepDone
  PROVE  InjectorInv'
<1> USE DEF InjectorInv
<1>1. /\ UNCHANGED <<triggerVars, activeVars, recorded_onset, recorded_end, envVars>>
      /\ elapsed' \in elapsed..(elapsed + 1) /\ elapsed \in Nat
      /\ Len(Faults) \in Nat
  BY LenNat DEF BeforePhysicsStep, StepDone, recordVars, TypeOK
<1>2. RecordInv'
  <2> SUFFICES ASSUME NEW f \in FaultId
               PROVE  RecordInvOf(f)'
    BY DEF RecordInv
  <2>1. RecordInvOf(f) /\ Onset(f)' = Onset(f) /\ Prereq(f)' = Prereq(f)
    BY <1>1 DEF RecordInv, Onset, Timed, Prereq, triggerVars, activeVars
  <2>2. \A t \in 0..elapsed : t \in 0..elapsed'
    BY <1>1
  <2>3. \A t \in Nat : t >= elapsed' => t >= elapsed
    BY <1>1
  <2> QED
    BY <1>1, <2>1, <2>2, <2>3 DEF RecordInvOf, Timed, triggerVars, activeVars
<1>3. EnvInv' /\ CountInv' /\ ObstacleInv' /\ SpillInv'
  BY <1>1, CountSame DEF EnvInv, ObstacleInv, SpillInv, envVars, activeVars, Obstacles, IsObstacle
<1>4. CASE BeforePhysicsStep
  <2>1. TypeOK'
    BY <1>1, <1>4 DEF BeforePhysicsStep, TypeOK, triggerVars, activeVars, recordVars, envVars, Suffixed
  <2>2. ManifestInv'
    BY <1>4 DEF BeforePhysicsStep, ManifestInv, recordVars, Record
  <2>3. SnapshotInv'
    <3>1. at' = 1 /\ snapshot' = [k \in Effects |-> 0]
      BY <1>4 DEF BeforePhysicsStep, SnapshotInv
    <3>2. \A k \in Effects : Before(1, k)' = {}
      BY FaultTypes DEF Before, ActiveEffects
    <3> QED
      BY <3>1, <3>2 DEF SnapshotInv, SnapshotUpTo
  <2> QED
    BY <1>2, <1>3, <2>1, <2>2, <2>3
<1>5. CASE StepDone
  <2>1. Record \in [FaultId -> [onset : Times, end : Times]] /\ Record' = Record
    BY <1>1 DEF Record, TypeOK
  <2>2. manifest' = Record
    BY <1>5 DEF StepDone, ManifestInv
  <2>3. TypeOK'
    <3>1. elapsed' \in 0..MaxTime /\ at' \in 0..Len(Faults) + 1
      BY <1>5, LenNat DEF StepDone, TypeOK
    <3>2. /\ holds' = {} /\ manifest_dirty' = FALSE /\ effects' = snapshot
          /\ snapshot' \in [Effects -> 0..2]
      BY <1>5 DEF StepDone
    <3> QED
      BY <1>1, <2>1, <2>2, <3>1, <3>2 DEF TypeOK, triggerVars, activeVars, envVars, Suffixed
  <2>4. ManifestInv'
    BY <1>5, <2>1, <2>2 DEF StepDone, ManifestInv
  <2>5. SnapshotInv'
    BY <1>1, <1>5 DEF StepDone, SnapshotInv, SnapshotUpTo, Before, ActiveEffects, activeVars
  <2> QED
    BY <1>2, <1>3, <2>3, <2>4, <2>5
<1> QED
  BY <1>4, <1>5

(* What users do to the models.                                            *)
LEMMA UserKeeps ==
  ASSUME InjectorInv, NEW name \in UserNames, UserSpawn(name) \/ UserDelete(name)
  PROVE  InjectorInv'
<1> USE DEF InjectorInv
<1>1. /\ UNCHANGED <<elapsed, at, holds, triggerVars, activeVars, recordVars, snapshot,
                     effects, manifest, spills, env_applied, env_ended, env_spawned_name,
                     env_spawn_counter_>>
      /\ \A m \in models' : m \in models \/ m = [name |-> name, by |-> User]
  BY DEF UserSpawn, UserDelete
<1>2. name \in Suffixed
  BY FaultsAssumption DEF Suffixed
<1>3. TypeOK'
  BY <1>1, <1>2 DEF TypeOK, triggerVars, activeVars, recordVars, Suffixed
<1>4. RecordInv'
  BY <1>1 DEF RecordInv, RecordInvOf, Onset, Timed, Prereq, triggerVars, activeVars, recordVars
<1>5. ObstacleInv'
  <2>1. \A f \in Obstacles : f # User
    BY FaultTypes DEF Obstacles, User
  <2> QED
    BY <1>1, <2>1 DEF ObstacleInv, Obstacles, IsObstacle
<1>6. EnvInv' /\ CountInv' /\ SpillInv' /\ ManifestInv' /\ SnapshotInv'
  BY <1>1, CountSame DEF EnvInv, SpillInv, ManifestInv, Record, SnapshotInv, SnapshotUpTo, Before,
     ActiveEffects, activeVars, recordVars, Obstacles, IsObstacle
<1> QED
  BY <1>3, <1>4, <1>5, <1>6

LEMMA InjectorStep == InjectorInv /\ [Next]_vars => InjectorInv'
<1> SUFFICES ASSUME InjectorInv, [Next]_vars
             PROVE  InjectorInv'
  OBVIOUS
<1>1. CASE UNCHANGED vars
  BY <1>1, CountSame DEF InjectorInv, vars, TypeOK, RecordInv, RecordInvOf, Onset, Timed, Prereq, EnvInv,
     SpillInv, ObstacleInv, ManifestInv, Record, SnapshotInv, SnapshotUpTo, Before, ActiveEffects,
     triggerVars, activeVars, recordVars, envVars, Obstacles, IsObstacle, Suffixed
<1>2. CASE Next
  BY <1>1, <1>2, ProcessKeeps, LoopKeeps, UserKeeps DEF Next, Finished
<1> QED
  BY <1>1, <1>2

THEOREM InjectorCorrect == Spec => []InjectorInv
BY InjectorInit, InjectorStep, PTL DEF Spec
(* Times, severities and names stay in their ranges, and the counter of    *)
(* spawned obstacles is at most the number of obstacle faults.             *)
THEOREM InjectorTypeCorrect == Spec => []TypeOK
<1>1. InjectorInv => TypeOK
  BY DEF InjectorInv
<1> QED
  BY <1>1, InjectorCorrect, PTL

(* A fault whose end is recorded is not active again: its profile stays at *)
(* zero, and neither its onset nor its prerequisite is ever taken back.    *)
THEOREM EndedForGood == Spec => []EndedStaysEnded
<1>1. InjectorInv => EndedStaysEnded
  BY DEF InjectorInv, RecordInv, RecordInvOf, EndedStaysEnded, TypeOK, Times
<1> QED
  BY <1>1, InjectorCorrect, PTL

(* After each step the manifest tells the records as they are.             *)
THEOREM ManifestAlwaysCurrent == Spec => []ManifestCurrent
<1>1. InjectorInv => ManifestCurrent
  BY DEF InjectorInv, ManifestInv, ManifestCurrent
<1> QED
  BY <1>1, InjectorCorrect, PTL

(* The spill regions are those of the active spills.                       *)
THEOREM SpillsFollowFaults == Spec => []SpillsOfActiveFaults
<1>1. InjectorInv => SpillsOfActiveFaults
  BY DEF InjectorInv, SpillInv, SpillsOfActiveFaults
<1> QED
  BY <1>1, InjectorCorrect, PTL

(* Whatever users did to the models, no obstacle outlives its fault.       *)
THEOREM ObstaclesAlwaysRemoved == Spec => []ObstacleRemoved
<1>1. InjectorInv => ObstacleRemoved
  BY DEF InjectorInv, ObstacleInv, ObstacleRemoved, Obstacles, IsObstacle
<1> QED
  BY <1>1, InjectorCorrect, PTL

(* The registry holds the effects of the active faults, the last one of    *)
(* the list where several share a component and a kind, and no other.      *)
THEOREM EffectsFollowFaults == Spec => []EffectsOfActiveFaults
<1>1. ASSUME InjectorInv, at = 0, NEW k \in Effects
      PROVE  /\ ActiveEffects(k) = {} => effects[k] = 0
             /\ \A f \in ActiveEffects(k) :
                  (\A g \in ActiveEffects(k) : g <= f) => effects[k] = current_severity[f]
  <2>1. Before(Len(Faults) + 1, k) = ActiveEffects(k)
    BY FaultTypes DEF Before, ActiveEffects
  <2>2. SnapshotUpTo(Len(Faults) + 1, effects)
    BY <1>1 DEF InjectorInv, SnapshotInv
  <2> QED
    BY <2>1, <2>2 DEF SnapshotUpTo
<1>2. InjectorInv => EffectsOfActiveFaults
  BY <1>1 DEF EffectsOfActiveFaults
<1> QED
  BY <1>2, InjectorCorrect, PTL

(***************************************************************************)
(* The refinement: what the records tell is a life cycle of faults.        *)
(***************************************************************************)
LEMMA PhaseOfProcessed ==
  ASSUME InjectorInv, ProcessFault
  PROVE  Lifecycle!Next \/ Phase' = Phase
<1>1. PICK f \in FaultId : f = at
  BY DEF ProcessFault
<1>2. InjectorInv'
  BY ProcessKeeps
<1>3. RecordTransition(f, Severity(f) > 0)
  BY <1>1, ProcessedFault DEF InjectorInv
<1>4. /\ \A g \in FaultId : RecordInvOf(g) /\ RecordInvOf(g)'
      /\ recorded_onset \in [FaultId -> Times] /\ recorded_end \in [FaultId -> Times]
      /\ recorded_onset' \in [FaultId -> Times] /\ recorded_end' \in [FaultId -> Times]
      /\ elapsed \in Nat
  BY <1>2, LenNat DEF InjectorInv, RecordInv, TypeOK
<1>5. \A g \in FaultId \ {f} : recorded_onset'[g] = recorded_onset[g]
                               /\ recorded_end'[g] = recorded_end[g]
  BY <1>3, <1>4 DEF RecordTransition
<1>6. \A g \in FaultId : Phase'[g] = IF recorded_end'[g] >= 0 THEN "ended"
                                    ELSE IF recorded_onset'[g] >= 0 THEN "active" ELSE "idle"
  BY DEF Phase
<1>7. \A g \in FaultId : Phase[g] = IF recorded_end[g] >= 0 THEN "ended"
                                   ELSE IF recorded_onset[g] >= 0 THEN "active" ELSE "idle"
  BY DEF Phase
<1>8. Phase' = [Phase EXCEPT ![f] = Phase'[f]]
  <2>1. Phase = [g \in FaultId |-> Phase[g]] /\ Phase' = [g \in FaultId |-> Phase'[g]]
    BY DEF Phase
  <2>2. \A g \in FaultId \ {f} : Phase'[g] = Phase[g]
    BY <1>5, <1>6, <1>7
  <2> QED
    BY <2>1, <2>2
<1>9. /\ recorded_onset[f] \in Int /\ recorded_end[f] \in Int
      /\ recorded_onset'[f] \in Int /\ recorded_end'[f] \in Int
      /\ recorded_end[f] >= 0 => recorded_onset[f] >= 0
      /\ recorded_end'[f] >= 0 => recorded_onset'[f] >= 0
      /\ was_active'[f] <=> recorded_onset'[f] >= 0 /\ recorded_end'[f] < 0
  BY <1>4 DEF Times, RecordInvOf
<1>10. CASE Severity(f) > 0 /\ recorded_onset[f] < 0
  <2>1. recorded_end'[f] = recorded_end[f]
    BY <1>3, <1>4, <1>10 DEF RecordTransition
  <2>2. was_active'[f]
    BY <1>1, <1>10, ProcessedFault DEF InjectorInv
  <2>3. Phase[f] = "idle" /\ Phase'[f] = "active"
    BY <1>6, <1>7, <1>9, <1>10, <2>1, <2>2
  <2>4. Prereq(f)
    BY <1>10 DEF Severity
  <2>5. \A g \in Prerequisites[f] : Phase[g] # "idle"
    <3>1. \A g \in Prerequisites[f] : g \in FaultId /\ g = Faults[f].depends_on
      BY DEF Prerequisites
    <3>2. \A g \in FaultId : g # 0
      BY FaultTypes
    <3>3. \A g \in Prerequisites[f] : ever_active[g]
      BY <2>4, <3>1, <3>2 DEF Prereq
    <3>4. \A g \in Prerequisites[f] : recorded_onset[g] >= 0
      BY <1>4, <3>1, <3>3 DEF RecordInvOf
    <3> QED
      BY <1>7, <3>1, <3>4
  <2> QED
    BY <1>8, <2>3, <2>5 DEF Lifecycle!Next, Lifecycle!Begin
<1>11. CASE ~(Severity(f) > 0 /\ recorded_onset[f] < 0) /\ recorded_end'[f] # recorded_end[f]
  <2>1. recorded_onset[f] >= 0 /\ recorded_end[f] < 0 /\ recorded_end'[f] = elapsed
    BY <1>3, <1>4, <1>11 DEF RecordTransition
  <2>2. Phase[f] = "active" /\ Phase'[f] = "ended"
    BY <1>4, <1>6, <1>7, <1>9, <2>1
  <2> QED
    BY <1>8, <2>2 DEF Lifecycle!Next, Lifecycle!End
<1>12. CASE ~(Severity(f) > 0 /\ recorded_onset[f] < 0) /\ recorded_end'[f] = recorded_end[f]
  <2>1. recorded_onset'[f] = recorded_onset[f]
    BY <1>3, <1>4, <1>12 DEF RecordTransition
  <2>2. Phase'[f] = Phase[f]
    BY <1>6, <1>7, <1>12, <2>1
  <2>3. Phase = [g \in FaultId |-> Phase[g]]
    BY DEF Phase
  <2> QED
    BY <1>8, <2>2, <2>3
<1> QED
  BY <1>10, <1>11, <1>12

LEMMA LifecycleStep == InjectorInv /\ [Next]_vars => [Lifecycle!Next]_Phase
<1> SUFFICES ASSUME InjectorInv, [Next]_vars
             PROVE  Lifecycle!Next \/ Phase' = Phase
  OBVIOUS
<1>1. CASE ProcessFault
  BY <1>1, PhaseOfProcessed
<1>2. CASE ~ProcessFault
  <2>1. recorded_onset' = recorded_onset /\ recorded_end' = recorded_end
    BY <1>2 DEF Next, Finished, BeforePhysicsStep, StepDone, UserSpawn, UserDelete, vars, recordVars
  <2> QED
    BY <2>1 DEF Phase
<1> QED
  BY <1>1, <1>2

(* Each fault begins at most once, never before the one it is chained to,  *)
(* and ends at most once, for good.                                        *)
THEOREM InjectorImplementsLifecycle == Spec => ImplementsLifecycle
<1>1. Init => Lifecycle!Init
  BY DEF Init, Lifecycle!Init, Phase
<1> QED
  BY <1>1, InjectorCorrect, LifecycleStep, PTL DEF Spec, ImplementsLifecycle, Lifecycle!Spec
=============================================================================
