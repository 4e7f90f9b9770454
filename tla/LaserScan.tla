------------------------------ MODULE LaserScan ------------------------------
(***************************************************************************)
(* The scan of the Laser plugin and its thread pool (laser.cpp,            *)
(* thirdparty/ThreadPool.h).  The main thread cuts the rays into clusters, *)
(* enqueues one task per cluster and collects the futures in order; the    *)
(* workers cast the rays of a cluster one after the other.                 *)
(*                                                                         *)
(* Distances along a ray are whole numbers, range_ the length of a ray.  A  *)
(* scene gives each ray the surfaces it crosses, on the laser's layers and *)
(* beyond its origin.  Each section under queue_mutex is one step, and a   *)
(* cast is one step as well: nothing it reads changes during a scan.  The  *)
(* random engine is not so lucky: a worker reads its state in one step and *)
(* writes the next state in another.                                       *)
(***************************************************************************)
EXTENDS Integers, Sequences, FiniteSets

CONSTANTS
  Workers,            \* the threads of pool_, hardware_concurrency() + 1
  RayCounts,          \* the numbers of laser points a laser may have
  ClusterSize,        \* clusterSize, 10 in the code
  range_,             \* range_
  LastScanExpansion,  \* lastScanExpansion
  Scenes,             \* what the rays may cross, for every ray of a laser
  Period,             \* of the random engine's states
  NAN                 \* the range of a ray that hits nothing

ASSUME ScanAssumption ==
  /\ IsFiniteSet(Workers) /\ Workers # {}
  /\ RayCounts \subseteq Nat
  /\ ClusterSize \in Nat \ {0}
  /\ range_ \in Nat \ {0}
  /\ LastScanExpansion \in Nat \ {0}
  /\ Period \in Nat \ {0}
  /\ NAN \notin Int
  /\ \A n \in RayCounts, s \in Scenes : \A i \in 1..n :
       IsFiniteSet(s[i]) /\ s[i] \subseteq [at : 1..range_, mirror : BOOLEAN]

VARIABLES
  rays,                 \* laser_scan_.ranges.size(), chosen once
  pc,                   \* where the main thread is in the scan or ~Laser
  next,                 \* the cluster it enqueues or waits for
  laser_scan_,          \* the readings, by ray
  scene,                \* what the rays cross in this scan
  m_lastMaxFractions_,  \* by ray: where the last scan hit, 0 for nowhere
  rng_,                 \* the state of the random engine
  drawn,                \* history: its state when the scan began
  tasks,                \* the pool's queue of clusters
  stop,                 \* set by the pool's destructor
  at,                   \* by worker: where it is
  ray,                  \* by worker: the ray at hand
  job,                  \* by worker: the cluster it works on
  engine,               \* by worker: the state of rng_ it has read
  out,                  \* the readings the workers have made, by ray
  results               \* the clusters whose future is set

mainVars == <<pc, next, laser_scan_, scene, drawn>>
poolVars == <<tasks, stop>>
rayVars == <<m_lastMaxFractions_, rng_, out>>
workVars == <<at, ray, job, engine>>
scanVars == <<rays, mainVars, poolVars, rayVars, workVars, results>>

Reading == [range : {NAN} \cup 0..range_, noise : 0..Period - 1, intensity : {0, 255}]
Blank == [range |-> 0, noise |-> 0, intensity |-> 0]

----------------------------------------------------------------------------
(* Clusters are counted from 1.                                            *)
NbCluster == rays \div ClusterSize + (IF rays % ClusterSize = 0 THEN 0 ELSE 1)

ClusterBegin(c) == (c - 1) * ClusterSize + 1
ClusterEnd(c) ==
  IF c = NbCluster
  THEN (c - 1) * ClusterSize + (IF rays % ClusterSize = 0 THEN ClusterSize
                                ELSE rays % ClusterSize)
  ELSE c * ClusterSize

(* One ray.  The length of its first part, by where it last hit.           *)
FirstPart(last) ==
  IF LastScanExpansion * last < range_ THEN LastScanExpansion * last ELSE range_

\* Mutant: the second part of the ray is never cast.
CrossedFirst(S, fraction) == {s \in S : s.at <= fraction}

(* The surfaces within the first part or, if there is none and the ray is  *)
(* longer, those of the second.                                            *)
Crossed(S, fraction) ==
  IF \E s \in S : s.at <= fraction
  THEN {s \in S : s.at <= fraction}
  ELSE {s \in S : fraction < range_ /\ fraction <= s.at}

Nearest(S) == {s \in S : \A other \in S : s.at <= other.at}

(* b2DynamicTree::RayCast visits the leaves in the order of the tree and   *)
(* clips the ray at each surface that is reported: of those crossed any    *)
(* may be reported before a nearer one, and the nearest always is.         *)
Reports(S) == {R \in SUBSET S : Nearest(S) \subseteq R}

(* ReportFixture: the last one reported is the nearest; the intensity, set *)
(* by any reflective one, stays.                                           *)
ReportFixture(R) ==
  [range |-> IF R = {} THEN NAN ELSE (CHOOSE s \in Nearest(R) : TRUE).at,
   noise |-> 0,
   intensity |-> IF \E s \in R : s.mirror THEN 255 ELSE 0]

----------------------------------------------------------------------------
ScanInit ==
  /\ rays \in RayCounts
  /\ pc = "idle" /\ next = 1
  /\ laser_scan_ = [i \in 1..rays |-> Blank]
  /\ scene = [i \in 1..rays |-> {}]
  /\ m_lastMaxFractions_ = [i \in 1..rays |-> range_]
  /\ rng_ = 0 /\ drawn = 0
  /\ tasks = <<>> /\ stop = FALSE
  /\ at = [w \in Workers |-> "test"]
  /\ ray = [w \in Workers |-> 1]
  /\ job = [w \in Workers |-> 0]
  /\ engine = [w \in Workers |-> 0]
  /\ out = [i \in 1..rays |-> Blank]
  /\ results = {}

(***************************************************************************)
(* The main thread.                                                        *)
(***************************************************************************)
(* The update timer fires and somebody subscribes: the bodies have moved   *)
(* since the last scan.                                                    *)
StartScan ==
  /\ pc = "idle"
  /\ pc' = IF NbCluster = 0 THEN "publish" ELSE "enqueue"
  /\ next' = 1
  /\ \E s \in Scenes : scene' = [i \in 1..rays |-> s[i]]
  /\ drawn' = rng_
  /\ results' = {}
  /\ UNCHANGED <<rays, laser_scan_, poolVars, rayVars, workVars>>

Enqueue ==
  /\ pc = "enqueue"
  /\ pc' = "notify"
  /\ tasks' = Append(tasks, next)
  /\ UNCHANGED <<rays, next, laser_scan_, scene, drawn, stop, rayVars, workVars, results>>

\* notify_one: some waiting worker wakes up, if there is one.
WakeOne ==
  LET waiting == {w \in Workers : at[w] = "wait"} IN
    IF waiting = {} THEN UNCHANGED at
    ELSE \E w \in waiting : at' = [at EXCEPT ![w] = "test"]

NotifyOne ==
  /\ pc = "notify"
  /\ WakeOne
  /\ pc' = IF next < NbCluster THEN "enqueue" ELSE "collect"
  /\ next' = IF next < NbCluster THEN next + 1 ELSE 1
  /\ UNCHANGED <<rays, laser_scan_, scene, drawn, poolVars, rayVars, ray, job, engine, results>>

\* Mutant: the last future is not waited for.
CollectNotLast ==
  /\ pc = "collect"
  /\ next \in results \/ next = NbCluster
  /\ laser_scan_' = [i \in 1..rays |->
       IF i \in ClusterBegin(next)..ClusterEnd(next) THEN out[i] ELSE laser_scan_[i]]
  /\ pc' = IF next < NbCluster THEN "collect" ELSE "publish"
  /\ next' = next + 1
  /\ UNCHANGED <<rays, scene, drawn, poolVars, rayVars, workVars, results>>

Collect ==
  /\ pc = "collect"
  /\ next \in results
  /\ laser_scan_' = [i \in 1..rays |->
       IF i \in ClusterBegin(next)..ClusterEnd(next) THEN out[i] ELSE laser_scan_[i]]
  /\ pc' = IF next < NbCluster THEN "collect" ELSE "publish"
  /\ next' = next + 1
  /\ UNCHANGED <<rays, scene, drawn, poolVars, rayVars, workVars, results>>

\* The scan leaves ComputeLaserRanges.
ScanPublished ==
  /\ pc = "publish"
  /\ pc' = "idle"
  /\ UNCHANGED <<rays, next, laser_scan_, scene, drawn, poolVars, rayVars, workVars, results>>

(* The model is deleted: ~Laser frees the other members, then ~ThreadPool  *)
(* stops the workers, wakes them and joins them.                           *)
StopPool ==
  /\ pc = "idle"
  /\ pc' = "notifyAll"
  /\ stop' = TRUE
  /\ UNCHANGED <<rays, next, laser_scan_, scene, drawn, tasks, rayVars, workVars, results>>

\* Mutant: the destructor wakes one worker.
NotifyAllOne ==
  /\ pc = "notifyAll"
  /\ pc' = "join"
  /\ WakeOne
  /\ UNCHANGED <<rays, next, laser_scan_, scene, drawn, poolVars, rayVars, ray, job, engine, results>>

NotifyAll ==
  /\ pc = "notifyAll"
  /\ pc' = "join"
  /\ at' = [w \in Workers |-> IF at[w] = "wait" THEN "test" ELSE at[w]]
  /\ UNCHANGED <<rays, next, laser_scan_, scene, drawn, poolVars, rayVars, ray, job, engine, results>>

Join ==
  /\ pc = "join"
  /\ \A w \in Workers : at[w] = "exited"
  /\ pc' = "deleted"
  /\ UNCHANGED <<rays, next, laser_scan_, scene, drawn, poolVars, rayVars, workVars, results>>

(***************************************************************************)
(* A worker.                                                               *)
(***************************************************************************)
\* condition.wait finds its predicate false.
Sleep(w) ==
  /\ at[w] = "test"
  /\ ~stop /\ tasks = <<>>
  /\ at' = [at EXCEPT ![w] = "wait"]
  /\ UNCHANGED <<rays, mainVars, poolVars, rayVars, ray, job, engine, results>>

SpuriousWakeup(w) ==
  /\ at[w] = "wait"
  /\ at' = [at EXCEPT ![w] = "test"]
  /\ UNCHANGED <<rays, mainVars, poolVars, rayVars, ray, job, engine, results>>

Exit(w) ==
  /\ at[w] = "test"
  /\ stop /\ tasks = <<>>
  /\ at' = [at EXCEPT ![w] = "exited"]
  /\ UNCHANGED <<rays, mainVars, poolVars, rayVars, ray, job, engine, results>>

Take(w) ==
  /\ at[w] = "test"
  /\ tasks # <<>>
  /\ at' = [at EXCEPT ![w] = "cast"]
  /\ ray' = [ray EXCEPT ![w] = ClusterBegin(Head(tasks))]
  /\ job' = [job EXCEPT ![w] = Head(tasks)]
  /\ tasks' = Tail(tasks)
  /\ UNCHANGED <<rays, mainVars, stop, rayVars, engine, results>>

(* The ray is cast; if it hits, the worker reads the random engine.        *)
Cast(w) ==
  /\ at[w] = "cast" /\ ray[w] <= ClusterEnd(job[w])
  /\ \E R \in Reports(Crossed(scene[ray[w]], FirstPart(m_lastMaxFractions_[ray[w]]))) :
       LET reading == ReportFixture(R) IN
         /\ out' = [out EXCEPT ![ray[w]] = reading]
         /\ m_lastMaxFractions_' = [m_lastMaxFractions_ EXCEPT ![ray[w]] =
              IF R = {} THEN 0 ELSE reading.range]
         /\ IF R = {}
            THEN /\ ray' = [ray EXCEPT ![w] = @ + 1]
                 /\ UNCHANGED <<at, engine>>
            ELSE /\ at' = [at EXCEPT ![w] = "draw"]
                 /\ engine' = [engine EXCEPT ![w] = rng_]
                 /\ UNCHANGED ray
  /\ UNCHANGED <<rays, mainVars, poolVars, rng_, job, results>>

(* The next state of the engine is written, and the noise it gave added.   *)
Draw(w) ==
  /\ at[w] = "draw"
  /\ at' = [at EXCEPT ![w] = "cast"]
  /\ rng_' = (engine[w] + 1) % Period
  /\ out' = [out EXCEPT ![ray[w]].noise = engine[w]]
  /\ ray' = [ray EXCEPT ![w] = @ + 1]
  /\ UNCHANGED <<rays, mainVars, poolVars, m_lastMaxFractions_, job, engine, results>>

(* The task is done and its future set.                                    *)
Finish(w) ==
  /\ at[w] = "cast" /\ ray[w] > ClusterEnd(job[w])
  /\ at' = [at EXCEPT ![w] = "test"]
  /\ results' = results \cup {job[w]}
  /\ UNCHANGED <<rays, mainVars, poolVars, rayVars, ray, job, engine>>

----------------------------------------------------------------------------
MainStep == Enqueue \/ NotifyOne \/ Collect \/ NotifyAll \/ Join
Work(w) == Sleep(w) \/ Exit(w) \/ Take(w) \/ Cast(w) \/ Draw(w) \/ Finish(w)

Scanning ==
  \/ MainStep
  \/ StartScan
  \/ StopPool
  \/ \E w \in Workers : Work(w) \/ SpuriousWakeup(w)

\* Nothing is left to do once the laser is gone.
LaserGone == pc = "deleted" /\ UNCHANGED scanVars

ScanNext == Scanning \/ ScanPublished \/ LaserGone

ScanSpec == ScanInit /\ [][ScanNext]_scanVars
=============================================================================
