---------------------------- MODULE ScenarioRunner ---------------------------
(* One run of a scenario: roslaunch starts the simulator and the observer   *)
(* node (flatland_scenario_runner.cpp), which samples the true pose until a  *)
(* terminal condition and writes the result file.  The simulator may never   *)
(* publish a clock, or stop publishing it.                                   *)
EXTENDS Integers

CONSTANTS Duration,     \* scenario_duration: the budget of simulation time
          WallTimeout,  \* wall_timeout of the observer
          Grace,        \* what evaluate() waits longer than that
          Scores,       \* composite scores of valid runs, in percent
          Dirs,         \* output directories
          Genomes,      \* scenarios
          Prompt,       \* is an observer that can act faster than wall time?
          MaxClock      \* bound: clock messages; the simulator then stops

ASSUME RunnerAssumption ==
  /\ Duration \in Nat /\ WallTimeout \in Nat /\ Grace \in Nat \ {0}
  /\ Scores \subseteq 0..100 /\ Prompt \in BOOLEAN /\ MaxClock \in Nat

VARIABLES launch,  \* roslaunch: none, running, interrupted, exited or killed
          clock,   \* /clock; 0: nothing was published yet
          robot,   \* the true pose in tf: away (or not known yet) or at the goal
          wall,    \* wall time since the launch
          node,    \* the observer
          files    \* scenario_result.json in each directory

runnerVars == <<launch, clock, robot, wall, node, files>>

NoFile == [state |-> "none"]
Torn == [state |-> "torn"]     \* truncated by open, not yet written

NodeOff == [pc |-> "off", ok |-> TRUE]
NodeStart(d, g, s) ==
  [pc |-> "waiting", ok |-> TRUE, dir |-> d, genome |-> g, seed |-> s,
   start |-> 0, wake |-> 0, reached |-> FALSE, invalid |-> FALSE,
   terminal |-> "timeout", early |-> FALSE]

(***************************************************************************)
(* The simulator.                                                          *)
(***************************************************************************)
(* A step of the simulation: the clock, then the pose.  It may be the last. *)
SimStep ==
  /\ launch = "running" /\ clock < MaxClock
  /\ clock' = clock + 1
  /\ robot' \in {"away", "goal"}
  /\ UNCHANGED <<launch, wall, node, files>>

(***************************************************************************)
(* The observer.                                                           *)
(***************************************************************************)
(* The simulation time of the result: was it the whole budget?  The time    *)
(* matters only to a run that claims to have used it up.                    *)
Writing(n) ==
  [n EXCEPT !.pc = "writing", !.start = 0, !.wake = 0,
            !.early = n.terminal = "timeout" /\ clock - n.start < Duration]

(* The loop before the first clock message. *)
NodeWait ==
  /\ node.pc = "waiting" /\ node.ok
  /\ \/ /\ clock > 0
        /\ node' = [node EXCEPT !.pc = "sampling", !.start = clock]
     \/ /\ clock = 0 /\ wall > WallTimeout
        /\ node' = Writing([node EXCEPT !.invalid = TRUE, !.terminal = "no_clock"])
  /\ UNCHANGED <<launch, clock, robot, wall, files>>

(* Mutant: the time is looked at before the goal. *)
VerdictTimeFirst(n) ==
  IF clock - n.start >= Duration THEN "timeout"
  ELSE IF robot = "goal" THEN "goal_reached"
  ELSE IF wall > WallTimeout THEN "wall_timeout" ELSE "none"
(* Why the loop ends in this iteration. *)
Verdict(n) ==
  IF robot = "goal" THEN "goal_reached"
  ELSE IF clock - n.start >= Duration THEN "timeout"
  ELSE IF wall > WallTimeout THEN "wall_timeout" ELSE "none"

RecordTruePose(n) == [n EXCEPT !.reached = @ \/ robot = "goal"]

NodeSample ==
  /\ node.pc = "sampling" /\ node.ok
  /\ LET v == Verdict(node)
         n == RecordTruePose(node)
     IN node' = IF v = "none"
                THEN [n EXCEPT !.pc = "sleeping", !.wake = clock + 1]
                ELSE Writing([n EXCEPT !.terminal = v,
                                       !.invalid = (v = "wall_timeout")])
  /\ UNCHANGED <<launch, clock, robot, wall, files>>

(* ros::Rate sleeps in simulation time: it returns when the clock has      *)
(* advanced, or on shutdown, however much wall time passes.                 *)
NodeWake ==
  /\ node.pc = "sleeping" /\ (clock >= node.wake \/ ~ node.ok)
  /\ node' = [node EXCEPT !.pc = "sampling"]
  /\ UNCHANGED <<launch, clock, robot, wall, files>>

(* The observer is not asleep, or may wake up. *)
Ready ==
  \/ node.pc \in {"sampling", "writing", "closing"}
  \/ node.pc = "sleeping" /\ (clock >= node.wake \/ ~ node.ok)
  \/ node.pc = "waiting" /\ (clock > 0 \/ wall > WallTimeout \/ ~ node.ok)

(* ros::ok() is false: both loops end, and the result is written.           *)
NodeStopped ==
  /\ node.pc \in {"waiting", "sampling"} /\ ~ node.ok
  /\ node' = Writing(IF node.pc = "waiting" THEN [node EXCEPT !.start = clock] ELSE node)
  /\ UNCHANGED <<launch, clock, robot, wall, files>>

CompositeScores(n) == IF n.invalid THEN {100} ELSE Scores

Result(n, score) ==
  [state |-> "complete", genome |-> n.genome, seed |-> n.seed, score |-> score,
   terminal |-> n.terminal, invalid |-> n.invalid, reached |-> n.reached,
   early |-> n.early]

(* WriteResult: the file is truncated, then written. *)
NodeOpen ==
  /\ node.pc = "writing"
  /\ files' = [files EXCEPT ![node.dir] = Torn]
  /\ node' = [node EXCEPT !.pc = "closing"]
  /\ UNCHANGED <<launch, clock, robot, wall>>

NodeClose ==
  /\ node.pc = "closing"
  /\ \E score \in CompositeScores(node) :
       files' = [files EXCEPT ![node.dir] = Result(node, score)]
  /\ node' = NodeOff
  /\ UNCHANGED <<launch, clock, robot, wall>>

NodeStep == NodeWait \/ NodeSample \/ NodeWake \/ NodeStopped \/ NodeOpen \/ NodeClose

WallTick ==
  /\ launch \in {"running", "interrupted"}
  /\ Prompt => ~ Ready
  /\ wall < WallTimeout + Grace
  /\ wall' = wall + 1
  /\ UNCHANGED <<launch, clock, robot, node, files>>

Forgotten == clock' = 0 /\ robot' = "away" /\ wall' = 0

(* The observer is required: when it exits, so does roslaunch. *)
RoslaunchExit ==
  /\ launch \in {"running", "interrupted"} /\ node.pc = "off"
  /\ launch' = "exited"
  /\ Forgotten
  /\ UNCHANGED <<node, files>>

(* SIGINT to roslaunch, which passes it on to its nodes. *)
Interrupt ==
  /\ launch' = "interrupted"
  /\ node' = [node EXCEPT !.ok = FALSE]
  /\ UNCHANGED <<clock, robot, wall, files>>

RunnerStep == SimStep \/ WallTick \/ NodeStep \/ RoslaunchExit

-----------------------------------------------------------------------------
(* What a result says agrees with itself, although the terminal condition   *)
(* (the runner) and the metrics (the scorer) are computed apart: the goal    *)
(* counts as reached exactly if it ended the run, and a run that the         *)
(* watchdog ended, and no other, is invalid and has the highest score.       *)
ResultsAgree ==
  \A d \in Dirs :
    LET r == files[d] IN
    r.state = "complete" =>
      /\ r.reached <=> r.terminal = "goal_reached"
      /\ r.invalid <=> r.terminal \in {"no_clock", "wall_timeout"}
      /\ r.invalid => r.score = 100
=============================================================================
