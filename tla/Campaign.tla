------------------------------- MODULE Campaign -------------------------------
(* The outer loop of the scenario generator (orchestrate.py, run.py,         *)
(* curriculum.py, dr_proposer.py): generations of scenarios, each evaluated   *)
(* by a run of ScenarioRunner, the ledger, the checkpoint, crashes of the     *)
(* machine and restarts that resume from the files.                           *)
EXTENDS ScenarioRunner, SequencesExt

CONSTANTS Generations,      \* most generations a process is asked for
          PerGeneration,    \* genomes proposed in a generation
          Replays,          \* archived genomes replayed in a generation
          MaxGenerations,   \* bound: generations of all processes together
          MaxCrashes,       \* bound: crashes
          Window,           \* scenarios that the success rate looks at
          Enough,           \* ... and how many of them it needs
          RefitEvery, MinSamples,  \* of the DR proposer and its distribution
          SolveThreshold, UnsolvableStress, FailThreshold,
          MaxDifficulty     \* steps of the target difficulty

ASSUME CampaignAssumption ==
  /\ Dirs = (0..(MaxGenerations - 1)) \X (0..(PerGeneration + Replays - 1))
  /\ \A n \in {Generations, PerGeneration, RefitEvery, Window, Enough, MaxDifficulty} :
       n \in Nat \ {0}
  /\ \A n \in {Replays, MaxGenerations, MaxCrashes, MinSamples} : n \in Nat

VARIABLES orch,    \* the process: where it is in its loop
          mem,     \* its memory: curriculum, proposer, scenario_counter
          ledger,  \* ledger.jsonl
          ckpt,    \* curriculum_state.json
          report,  \* failure_boundary.json: the records counted as failures
          crashes

vars == <<runnerVars, orch, mem, ledger, ckpt, report, crashes>>

(***************************************************************************)
(* The curriculum and the proposer are functions of what they observed.    *)
(***************************************************************************)
NewCurriculum == [recent |-> <<>>, target |-> 1, archive |-> <<>>]

IsSolved(r) == ~ r.invalid /\ (r.reached \/ r.score <= SolveThreshold)
IsSolvable(r) == ~ r.invalid /\ (r.reached \/ r.score < UnsolvableStress)

(* Mutant: the window is never shortened. *)
RecentUnbounded(recent, solved) == Append(recent, solved)
Recent(recent, solved) ==
  LET all == Append(recent, solved)
  IN IF Len(all) > Window THEN Tail(all) ELSE all

(* The success band is 50 to 70 percent. *)
Retarget(target, recent) ==
  LET solved == 100 * Len(SelectSeq(recent, LAMBDA x : x))
  IN IF Len(recent) < Enough THEN target
     ELSE IF solved > 70 * Len(recent) THEN Min({MaxDifficulty, target + 1})
     ELSE IF solved < 50 * Len(recent) THEN Max({0, target - 1}) ELSE target

Observe(c, g, r) ==
  LET recent == Recent(c.recent, IsSolved(r))
      better == g \notin DOMAIN c.archive \/ r.score > c.archive[g]
  IN [recent |-> recent, target |-> Retarget(c.target, recent),
      archive |-> IF IsSolvable(r) /\ better
                  THEN [h \in DOMAIN c.archive \cup {g} |->
                          IF h = g THEN r.score ELSE c.archive[h]]
                  ELSE c.archive]

ObserveRecord(c, r) == Observe(c, r.genome, r.res)
Observing == INSTANCE Folding WITH Op <- ObserveRecord

NewProposer == [buffer |-> <<>>, since |-> 0, refits |-> 0]
Update(p, g, score) ==
  LET buffer == Append(p.buffer, <<g, score>>)
      refit == p.since + 1 >= RefitEvery /\ Len(buffer) >= MinSamples
  IN [buffer |-> buffer, since |-> IF refit THEN 0 ELSE p.since + 1,
      refits |-> IF refit THEN p.refits + 1 ELSE p.refits]

(***************************************************************************)
(* A generation: plan, then evaluate one scenario after the other.         *)
(***************************************************************************)
(* The proposals, then as many of the archive as there are, in any order.  *)
ReplaySamples ==
  {s \in UNION {[1..n -> DOMAIN mem.curriculum.archive] : n \in 0..Replays} :
     /\ \A i, k \in DOMAIN s : s[i] = s[k] => i = k
     /\ Len(s) = Replays \/ Range(s) = DOMAIN mem.curriculum.archive}

Plan ==
  /\ orch.pc = "planning"
  /\ \E proposed \in [1..PerGeneration -> Genomes], replayed \in ReplaySamples :
       orch' = [orch EXCEPT !.pc = "launching", !.batch = proposed \o replayed, !.j = 1]
  /\ UNCHANGED <<runnerVars, mem, ledger, ckpt, report, crashes>>

Dir == <<orch.gen, orch.j - 1>>
Genome == orch.batch[orch.j]

(* evaluate(): the result of an earlier run in the directory is removed.   *)
(* An observer that outlived its roslaunch has ended by now.                *)
Launch ==
  /\ orch.pc = "launching"
  /\ node.pc = "off"
  /\ files' = [files EXCEPT ![Dir] = NoFile]
  /\ launch' = "running"
  /\ Forgotten
  /\ node' = NodeStart(Dir, Genome, mem.counter)
  /\ orch' = [orch EXCEPT !.pc = "evaluating", !.terminal = "ok"]
  /\ UNCHANGED <<mem, ledger, ckpt, report, crashes>>

WaitExit ==
  /\ orch.pc \in {"evaluating", "killing"} /\ launch = "exited"
  /\ orch' = [orch EXCEPT !.pc = "finishing"]
  /\ UNCHANGED <<runnerVars, mem, ledger, ckpt, report, crashes>>

(* Mutant: no timeout is given to wait(). *)
TimedOutNever == launch = "exited" /\ wall >= WallTimeout + Grace
TimedOut == launch = "running" /\ wall >= WallTimeout + Grace

WaitTimeout ==
  /\ orch.pc = "evaluating" /\ TimedOut
  /\ Interrupt
  /\ orch' = [orch EXCEPT !.pc = "killing", !.terminal = "wall_timeout"]
  /\ UNCHANGED <<mem, ledger, ckpt, report, crashes>>

(* _kill: SIGKILL to roslaunch's group; its nodes are in groups of their own. *)
KillForce ==
  /\ orch.pc = "killing" /\ launch = "interrupted"
  /\ launch' = "killed"
  /\ orch' = [orch EXCEPT !.pc = "finishing"]
  /\ UNCHANGED <<clock, robot, wall, node, files, mem, ledger, ckpt, report, crashes>>

(* _finish: what the file says, or an invalid result. *)
Outcome ==
  LET f == files[Dir]
      Invalid(terminal) == [state |-> "made", genome |-> Genome, seed |-> mem.counter,
                            score |-> 100, terminal |-> terminal, invalid |-> TRUE,
                            reached |-> FALSE, early |-> FALSE]
  IN CASE f.state = "complete" -> f
       [] f.state = "torn" -> Invalid("bad_result")
       [] f.state = "none" -> Invalid(IF orch.terminal = "ok" THEN "no_result"
                                      ELSE orch.terminal)

(* The proposer and the curriculum learn the result, then the ledger.      *)
Judge ==
  /\ orch.pc = "finishing"
  /\ mem' = [curriculum |-> Observe(mem.curriculum, Genome, Outcome),
             proposer |-> Update(mem.proposer, Genome, Outcome.score),
             counter |-> mem.counter + 1]
  /\ ledger' = Append(ledger, [gen |-> orch.gen, scenario |-> mem.counter, dir |-> Dir,
                               genome |-> Genome, seed |-> mem.counter, res |-> Outcome])
  /\ orch' = IF orch.j < Len(orch.batch)
             THEN [orch EXCEPT !.pc = "launching", !.j = @ + 1]
             ELSE [orch EXCEPT !.pc = "saving"]
  /\ UNCHANGED <<runnerVars, ckpt, report, crashes>>

(* curriculum.save: the old checkpoint is truncated, then the new written. *)
SaveOpen ==
  /\ orch.pc = "saving"
  /\ ckpt' = Torn
  /\ orch' = [orch EXCEPT !.pc = "dumping"]
  /\ UNCHANGED <<runnerVars, mem, ledger, report, crashes>>

SaveDone ==
  /\ orch.pc = "dumping"
  /\ ckpt' = [state |-> "complete", curriculum |-> mem.curriculum]
  /\ orch' = [orch EXCEPT !.pc = IF orch.gen + 1 = orch.last THEN "reporting"
                                 ELSE "planning",
                          !.gen = @ + 1, !.batch = <<>>, !.j = 0]
  /\ UNCHANGED <<runnerVars, mem, ledger, report, crashes>>

IsFailure(r) == r.terminal \in {"timeout", "wall_timeout"} \/ r.score >= FailThreshold

(* estimate_boundary, over all records that are not invalid. *)
Report ==
  /\ orch.pc = "reporting"
  /\ report' = {i \in DOMAIN ledger : ~ ledger[i].res.invalid /\ IsFailure(ledger[i].res)}
  /\ orch' = [orch EXCEPT !.pc = "done"]
  /\ UNCHANGED <<runnerVars, mem, ledger, ckpt, crashes>>

(***************************************************************************)
(* Crash of the machine, and resume.                                       *)
(***************************************************************************)
NewMemory == [curriculum |-> NewCurriculum, proposer |-> NewProposer, counter |-> 0]
ProcessDown == [pc |-> "down", gen |-> 0, last |-> 0, batch |-> <<>>, j |-> 0,
                terminal |-> "ok"]

Crash ==
  /\ orch.pc \notin {"down", "done", "failed"} /\ crashes < MaxCrashes
  /\ crashes' = crashes + 1
  /\ orch' = ProcessDown /\ mem' = NewMemory
  /\ launch' = "none" /\ node' = NodeOff
  /\ Forgotten
  /\ UNCHANGED <<files, ledger, ckpt, report>>

(* Mutant: it goes on in the generation that crashed. *)
FirstGenerationSame == IF ledger = <<>> THEN 0 ELSE Max({ledger[i].gen : i \in DOMAIN ledger})
FirstGeneration == IF ledger = <<>> THEN 0
                   ELSE 1 + Max({ledger[i].gen : i \in DOMAIN ledger})

Replay(p, r) == Update(p, r.genome, r.res.score)
Replaying == INSTANCE Folding WITH Op <- Replay

(* Mutant: what was invalid is not replayed. *)
ReplayedValid == Replaying!Fold(NewProposer, SelectSeq(ledger, LAMBDA r : ~ r.res.invalid))
Replayed == Replaying!Fold(NewProposer, ledger)

(* A process is started for n generations: for the first time, after a      *)
(* crash, or to add to those there are.  A torn checkpoint is an exception.  *)
Resume ==
  /\ orch.pc \in {"down", "done"}
  /\ \E n \in 1..Generations :
       /\ FirstGeneration + n <= MaxGenerations
       /\ IF ledger # <<>> /\ ckpt = Torn
          THEN orch' = [orch EXCEPT !.pc = "failed"] /\ UNCHANGED mem
          ELSE /\ orch' = [pc |-> "planning", gen |-> FirstGeneration,
                           last |-> FirstGeneration + n,
                           batch |-> <<>>, j |-> 0, terminal |-> "ok"]
               /\ mem' = [curriculum |-> IF ledger # <<>> /\ ckpt # NoFile
                                         THEN ckpt.curriculum ELSE NewCurriculum,
                          proposer |-> Replayed, counter |-> Len(ledger)]
  /\ UNCHANGED <<runnerVars, ledger, ckpt, report, crashes>>

Init ==
  /\ launch = "none" /\ node = NodeOff
  /\ clock = 0 /\ wall = 0 /\ robot = "away"
  /\ files = [d \in Dirs |-> NoFile]
  /\ orch = ProcessDown /\ mem = NewMemory
  /\ ledger = <<>> /\ ckpt = NoFile /\ report = {} /\ crashes = 0

Runner == RunnerStep /\ UNCHANGED <<orch, mem, ledger, ckpt, report, crashes>>

OrchStep == Plan \/ Launch \/ WaitExit \/ WaitTimeout \/ KillForce \/ Judge
            \/ SaveOpen \/ SaveDone \/ Report

Next == Runner \/ OrchStep \/ Crash \/ Resume

(* Processes and time go on; the simulator need not, and nobody has to     *)
(* restart a process.                                                       *)
Fairness == /\ WF_vars(NodeStep /\ UNCHANGED <<orch, mem, ledger, ckpt, report, crashes>>)
            /\ WF_vars(WallTick /\ UNCHANGED <<orch, mem, ledger, ckpt, report, crashes>>)
            /\ WF_vars(RoslaunchExit /\ UNCHANGED <<orch, mem, ledger, ckpt, report, crashes>>)
            /\ WF_vars(OrchStep)

Spec == Init /\ [][Next]_vars /\ Fairness

-----------------------------------------------------------------------------
(* The types of the memory and the files; the window is bounded.           *)
TypeOK ==
  /\ launch \in {"none", "running", "interrupted", "exited", "killed"}
  /\ mem.curriculum.recent \in BoundedSeq(BOOLEAN, Window)
  /\ mem.curriculum.target \in 0..MaxDifficulty
  /\ mem.counter \in Nat
  /\ orch.gen \in 0..MaxGenerations /\ orch.j \in 0..(PerGeneration + Replays)
  /\ \A d \in Dirs : files[d].state \in {"none", "torn", "complete"}
  /\ ckpt.state \in {"none", "torn", "complete"}
  /\ report \subseteq DOMAIN ledger

(* The ledger is enough to replay every scenario: scenarios are numbered    *)
(* without a gap, no two records name the same directory, and the file      *)
(* there is still the result that was recorded, of that genome and seed -   *)
(* whatever crashed, was interrupted, was evaluated again or resumed.       *)
LedgerReplayable ==
  /\ \A i \in DOMAIN ledger :
       LET r == ledger[i] IN
       /\ r.scenario = i - 1
       /\ r.res.genome = r.genome /\ r.res.seed = r.seed
       /\ r.res.state = "complete" => files[r.dir] = r.res
  /\ \A i, k \in DOMAIN ledger : ledger[i].dir = ledger[k].dir => i = k

(* At every moment of a process, which may have learnt the results itself,   *)
(* replayed them from the ledger or both, its proposer has seen exactly the  *)
(* ledger, in its order and with the refits at the same places, and the      *)
(* archive holds only scenarios of the ledger that were valid and solvable,  *)
(* none better than recorded.                                                *)
MemoryIsOfLedger ==
  orch.pc \notin {"down", "failed"} =>
    /\ mem.proposer = Replaying!Fold(NewProposer, ledger)
    /\ mem.counter = Len(ledger)
    /\ \A g \in DOMAIN mem.curriculum.archive :
         \E i \in DOMAIN ledger : /\ ledger[i].genome = g
                                  /\ IsSolvable(ledger[i].res)
                                  /\ ledger[i].res.score = mem.curriculum.archive[g]

(* The outer loop never hangs (run.py:9, flatland_scenario_runner.cpp:56):  *)
(* an evaluation ends, whether the simulator starts, hangs or finishes, and  *)
(* although the observer sleeps in a simulation time that may stand still.   *)
OuterLoopNeverHangs == orch.pc \in {"evaluating", "killing"}
                         ~> orch.pc \notin {"evaluating", "killing"}

(* scenario_gen/README.md:50: invalid records are excluded from the boundary *)
(* so a crashed run never masquerades as a discovered failure.  A record     *)
(* that counts as a timeout should have had its time.                        *)
NoCrashMasquerades ==
  \A i \in report : ~ ledger[i].res.early

(* orchestrate.py:18: on restart the ledger is replayed into the proposer    *)
(* and the curriculum.                                                       *)
CurriculumKnowsLedger ==
  orch.pc = "planning" => mem.curriculum = Observing!Fold(NewCurriculum, ledger)
=============================================================================
