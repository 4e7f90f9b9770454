-------------------------------- MODULE Laser --------------------------------
(***************************************************************************)
(* The latency queue of a sensor with the scan that feeds it when the      *)
(* sensor is a Laser: within one physics step the scan is made by the      *)
(* pool, collected and only then handed to PublishScan.  A Bumper and a    *)
(* Gps have no pool; their messages are made in one step.                  *)
(***************************************************************************)
EXTENDS LatencyQueue, LaserScan

laserVars == <<vars, scanVars>>

LaserInit == Init /\ ScanInit

(* A scan or the deletion of the laser under way in this step.             *)
ScanStep ==
  /\ sensor = "Laser" /\ now < MaxTime
  /\ Scanning
  /\ UNCHANGED vars

(* ComputeLaserRanges has returned: the scan is enqueued or dropped.       *)
PublishScan ==
  /\ sensor = "Laser"
  /\ ScanPublished
  /\ (\E delay \in Delays : Publish(delay)) \/ Dropout

(* A step in which the timer does not fire.                                *)
SkipScan ==
  /\ sensor = "Laser" /\ pc = "idle"
  /\ NoTick
  /\ UNCHANGED scanVars

OtherSensor ==
  /\ sensor # "Laser"
  /\ (\E delay \in Delays : Publish(delay)) \/ Dropout \/ NoTick
  /\ UNCHANGED scanVars

(* The bound on time is reached, or the laser is gone.                     *)
LaserDone ==
  /\ now = MaxTime \/ pc = "deleted"
  /\ UNCHANGED laserVars

LaserNext == ScanStep \/ PublishScan \/ SkipScan \/ OtherSensor \/ LaserDone

(* The main thread finishes a scan or a deletion it has begun, and the     *)
(* operating system schedules every worker.  Nothing makes a scan begin,   *)
(* deletes the laser or wakes a worker up without need.                    *)
LaserFairness ==
  /\ WF_laserVars(ScanStep /\ MainStep)
  /\ WF_laserVars(PublishScan)
  /\ \A w \in Workers : WF_laserVars(ScanStep /\ Work(w))

LaserSpec == LaserInit /\ [][LaserNext]_laserVars /\ LaserFairness

----------------------------------------------------------------------------
(* A reading is the nearest surface of S, NAN if there is none, and is     *)
(* bright if that surface is reflective, dark if no surface is.            *)
Exact(S, reading) ==
  /\ S = {} <=> reading.range = NAN
  /\ \A s \in Nearest(S) :
       /\ reading.range = s.at
       /\ s.mirror => reading.intensity = 255
  /\ (\A s \in S : ~s.mirror) => reading.intensity = 0

(* However the workers take the clusters, wherever each ray hit in the     *)
(* last scan and in whatever order the tree is searched, the scan that is  *)
(* published is exact in every ray.                                        *)
ScanExact == pc = "publish" => \A i \in 1..rays : Exact(scene[i], laser_scan_[i])

(* Tasks read the bodies, the rays and the members of the plugin without a *)
(* lock: no task is queued or at work once the scan has been collected,    *)
(* while the world moves on or the plugin is being freed.                  *)
NoTaskOutlivesScan ==
  pc \in {"publish", "idle", "notifyAll", "join", "deleted"} =>
    /\ tasks = <<>>
    /\ \A w \in Workers : at[w] \in {"test", "wait", "exited"}

(* A scan that has begun is published, and ~Laser returns: no wake-up is   *)
(* lost and the pool's destructor joins every worker.                      *)
ScanEnds == pc \notin {"idle", "deleted"} ~> pc \in {"idle", "deleted"}

(* doc/determinism.md: with the same seed "every run produces identical    *)
(* published output (sensor noise ...)".  The noise of a ray is then a     *)
(* function of the engine's state when the scan began: that of the n-th    *)
(* ray that hits is the n-th one drawn, as when one worker does all tasks. *)
NoiseOfSeed ==
  pc = "publish" => \A i \in 1..rays :
    scene[i] # {} =>
      laser_scan_[i].noise =
        (drawn + Cardinality({k \in 1..(i - 1) : scene[k] # {}})) % Period
=============================================================================
