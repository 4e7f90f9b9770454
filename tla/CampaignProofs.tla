---------------------------- MODULE CampaignProofs ----------------------------
(***************************************************************************)
(* What holds of a campaign of any length, with any scenarios, timeouts,   *)
(* and any number of crashes.                                              *)
(***************************************************************************)
EXTENDS Campaign, SequenceTheorems, TLAPS

(***************************************************************************)
(* The results.                                                            *)
(***************************************************************************)
Fields == {"pc", "ok", "dir", "genome", "seed", "start", "wake", "reached", "invalid",
           "terminal", "early"}

\* The observer is off, or has all its fields.
NodeShape ==
  \/ node.pc = "off" /\ DOMAIN node = {"pc", "ok"}
  \/ /\ node.pc \in {"waiting", "sampling", "sleeping", "writing", "closing"}
     /\ DOMAIN node = Fields

\* Until a loop ends nothing has been decided; then the terminal condition
\* and the metrics agree.
NodeDecides ==
  /\ node.pc \in {"waiting", "sampling", "sleeping"} =>
       node.reached = FALSE /\ node.invalid = FALSE /\ node.terminal = "timeout"
  /\ node.pc \in {"writing", "closing"} =>
       /\ node.reached \in BOOLEAN /\ node.invalid \in BOOLEAN
       /\ node.reached <=> node.terminal = "goal_reached"
       /\ node.invalid <=> node.terminal \in {"no_clock", "wall_timeout"}

FilesShape ==
  DOMAIN files = Dirs /\ \A d \in Dirs : files[d].state \in {"none", "torn", "complete"}

ResultInv ==
  /\ NodeShape
  /\ NodeDecides
  /\ FilesShape
  /\ ResultsAgree

LEMMA ResultInit == Init => ResultInv
BY DEF Init, ResultInv, NodeShape, NodeDecides, ResultsAgree, NodeOff, NoFile, FilesShape

(* An observer that neither starts nor writes keeps the invariant. *)
LEMMA ResultNode ==
  ASSUME ResultInv, NodeStep
  PROVE  ResultInv'
<1> USE DEF ResultInv
<1>1. CASE NodeWait
  <2>1. node' = [node EXCEPT !.pc = "sampling", !.start = clock]
        \/ node' = Writing([node EXCEPT !.invalid = TRUE, !.terminal = "no_clock"])
    BY <1>1 DEF NodeWait
  <2>2. node.pc = "waiting" /\ DOMAIN node = Fields /\ files' = files
    BY <1>1 DEF NodeWait, NodeShape
  <2>3. NodeShape' /\ NodeDecides'
    BY <2>1, <2>2 DEF NodeShape, NodeDecides, Writing, Fields
  <2> QED
    BY <2>2, <2>3 DEF ResultsAgree, FilesShape
<1>2. CASE NodeSample
  <2>1. node.pc = "sampling" /\ DOMAIN node = Fields /\ files' = files
    BY <1>2 DEF NodeSample, NodeShape
  <2> DEFINE v == Verdict(node)
             n == RecordTruePose(node)
  <2>2. /\ DOMAIN n = Fields /\ n.terminal = "timeout" /\ n.invalid = FALSE
        /\ n.reached = (robot = "goal")
    BY <2>1 DEF NodeDecides, RecordTruePose, Fields
  <2>3. v \in {"none", "goal_reached", "timeout", "wall_timeout"}
        /\ (v = "goal_reached" <=> robot = "goal")
    BY DEF Verdict
  <2>4. CASE v = "none"
    <3>1. node' = [n EXCEPT !.pc = "sleeping", !.wake = clock + 1]
      BY <1>2, <2>4 DEF NodeSample
    <3> HIDE DEF n, v
    <3> QED
      BY <2>1, <2>2, <2>3, <2>4, <3>1 DEF NodeShape, NodeDecides, Fields, ResultsAgree, FilesShape
  <2>5. CASE v # "none"
    <3>1. node' = Writing([n EXCEPT !.terminal = v, !.invalid = (v = "wall_timeout")])
      BY <1>2, <2>5 DEF NodeSample
    <3> HIDE DEF n, v
    <3> QED
      BY <2>1, <2>2, <2>3, <2>5, <3>1 DEF NodeShape, NodeDecides, Fields, Writing, ResultsAgree, FilesShape
  <2> QED
    BY <2>4, <2>5
<1>3. CASE NodeWake
  BY <1>3 DEF NodeWake, NodeShape, NodeDecides, Fields, ResultsAgree, FilesShape
<1>4. CASE NodeStopped
  BY <1>4 DEF NodeStopped, Writing, NodeShape, NodeDecides, Fields, ResultsAgree, FilesShape
<1>5. CASE NodeOpen
  BY <1>5 DEF NodeOpen, NodeShape, NodeDecides, Fields, ResultsAgree, Torn, FilesShape
<1>6. CASE NodeClose
  <2>1. PICK score \in CompositeScores(node) :
          files' = [files EXCEPT ![node.dir] = Result(node, score)]
    BY <1>6 DEF NodeClose
  <2>2. node.pc = "closing" /\ node' = NodeOff
    BY <1>6 DEF NodeClose
  <2>3. NodeShape' /\ NodeDecides'
    BY <2>2 DEF NodeShape, NodeDecides, NodeOff
  <2>4. node.invalid => score = 100
    BY <2>1 DEF CompositeScores
  <2>5. ASSUME NEW d \in Dirs, files[d]'.state = "complete"
        PROVE  LET r == files[d]' IN
               /\ r.reached <=> r.terminal = "goal_reached"
               /\ r.invalid <=> r.terminal \in {"no_clock", "wall_timeout"}
               /\ r.invalid => r.score = 100
    <3>1. CASE d = node.dir
      <4>1. files[d]' = Result(node, score)
        BY <2>1, <2>5, <3>1 DEF FilesShape
      <4> QED
        BY <2>2, <2>4, <4>1 DEF Result, NodeDecides
    <3>2. CASE d # node.dir
      <4>1. files[d]' = files[d]
        BY <2>1, <3>2
      <4> QED
        BY <2>5, <4>1 DEF ResultsAgree, FilesShape
    <3> QED
      BY <3>1, <3>2
  <2>6. FilesShape'
    BY <2>1 DEF FilesShape, Result
  <2> QED
    BY <2>3, <2>5, <2>6 DEF ResultsAgree
<1> QED
  BY <1>1, <1>2, <1>3, <1>4, <1>5, <1>6 DEF NodeStep

LEMMA ResultStep ==
  ASSUME ResultInv, [Next]_vars
  PROVE  ResultInv'
<1> USE DEF ResultInv
<1>1. CASE UNCHANGED <<node, files>>
  BY <1>1 DEF NodeShape, NodeDecides, ResultsAgree, FilesShape
<1>2. CASE NodeStep
  BY <1>2, ResultNode
<1>3. CASE Interrupt
  BY <1>3 DEF Interrupt, NodeShape, NodeDecides, ResultsAgree, Fields, FilesShape
<1>4. CASE Launch
  <2>1. NodeShape' /\ NodeDecides'
    BY <1>4 DEF Launch, NodeStart, NodeShape, NodeDecides, Fields
  <2> QED
    BY <1>4, <2>1 DEF Launch, ResultsAgree, NoFile, FilesShape
<1>5. CASE Crash
  BY <1>5 DEF Crash, NodeOff, NodeShape, NodeDecides, ResultsAgree, FilesShape
<1> QED
  BY <1>1, <1>2, <1>3, <1>4, <1>5
  DEF Next, Runner, RunnerStep, SimStep, WallTick, RoslaunchExit, OrchStep, Plan, WaitExit,
      WaitTimeout, KillForce, Judge, SaveOpen, SaveDone, Report, Resume, vars, runnerVars

(* The terminal condition, the metrics and the score of every result file   *)
(* agree: whatever hangs, is interrupted, killed or crashes.                 *)
THEOREM ResultsAlwaysAgree == Spec => []ResultsAgree
<1>1. Init => ResultInv
  BY ResultInit
<1>2. ResultInv /\ [Next]_vars => ResultInv'
  BY ResultStep
<1>3. ResultInv => ResultsAgree
  BY DEF ResultInv
<1> QED
  BY <1>1, <1>2, <1>3, PTL DEF Spec

(***************************************************************************)
(* The orchestrator: where it is, and the generations of the ledger.       *)
(***************************************************************************)
OrchFields == {"pc", "gen", "last", "batch", "j", "terminal"}
Busy == {"evaluating", "killing", "finishing"}
InBatch == Busy \cup {"launching"}
InGeneration == InBatch \cup {"planning", "saving", "dumping"}

\* A scenario of the batch is in work, in a generation that has its own
\* directories.
OrchShape ==
  /\ orch.pc \in InGeneration \cup {"reporting", "done", "down", "failed"}
  /\ DOMAIN orch = OrchFields
  /\ orch.pc \in InGeneration =>
       /\ orch.gen \in Nat /\ orch.last \in Nat
       /\ orch.gen < orch.last /\ orch.last <= MaxGenerations
  /\ orch.pc \notin {"down", "failed"} => mem.counter = Len(ledger)
  /\ orch.pc \in InBatch =>
       /\ orch.j \in Nat /\ Len(orch.batch) \in Nat
       /\ 1 <= orch.j /\ orch.j <= Len(orch.batch)
       /\ Len(orch.batch) <= PerGeneration + Replays

\* Records are in the order of their generations, and name their directory.
LedgerOrdered ==
  /\ \E S : ledger \in Seq(S)
  /\ \A i \in 1..Len(ledger) :
       /\ ledger[i].gen \in Nat
       /\ \E k \in Nat : ledger[i].dir = <<ledger[i].gen, k>>
  /\ \A i, k \in 1..Len(ledger) : i <= k => ledger[i].gen <= ledger[k].gen

\* The directories still to come in this generation are not in the ledger.
DirsToCome ==
  /\ orch.pc \in InGeneration => \A i \in 1..Len(ledger) : ledger[i].gen <= orch.gen
  /\ orch.pc = "planning" => \A i \in 1..Len(ledger) : ledger[i].gen < orch.gen
  /\ orch.pc \in InBatch =>
       \A i \in 1..Len(ledger), k \in Nat :
         ledger[i].dir = <<orch.gen, k>> => k < orch.j - 1

OrchInv == OrchShape /\ LedgerOrdered /\ DirsToCome

\* The last record has the greatest generation: what a resume starts after.
LEMMA NextGeneration ==
  ASSUME LedgerOrdered
  PROVE  /\ FirstGeneration \in Nat
         /\ \A i \in 1..Len(ledger) : ledger[i].gen < FirstGeneration
<1>1. CASE ledger = <<>>
  BY <1>1 DEF FirstGeneration
<1>2. CASE ledger # <<>>
  <2> DEFINE gens == {ledger[i].gen : i \in DOMAIN ledger}
  <2>1. PICK S : ledger \in Seq(S)
    BY DEF LedgerOrdered
  <2>2. Len(ledger) \in Nat /\ DOMAIN ledger = 1..Len(ledger) /\ Len(ledger) # 0
    BY <1>2, <2>1, LenProperties, EmptySeq
  <2>3. ledger[Len(ledger)].gen \in gens
        /\ \A g \in gens : g \in Nat /\ ledger[Len(ledger)].gen >= g
    BY <2>2 DEF LedgerOrdered
  <2>4. Max(gens) \in gens /\ \A g \in gens : Max(gens) >= g
    BY <2>3 DEF Max
  <2>5. FirstGeneration = 1 + Max(gens)
    BY <1>2 DEF FirstGeneration
  <2>6. \A i \in 1..Len(ledger) : ledger[i].gen \in gens
    BY <2>2
  <2> HIDE DEF gens
  <2> QED
    BY <2>3, <2>4, <2>5, <2>6
<1> QED
  BY <1>1, <1>2

LEMMA BatchLength ==
  ASSUME NEW p \in [1..PerGeneration -> Genomes], NEW r \in ReplaySamples
  PROVE  /\ Len(p \o r) \in Nat /\ 1 <= Len(p \o r)
         /\ Len(p \o r) <= PerGeneration + Replays
<1>1. PICK n \in 0..Replays : r \in [1..n -> DOMAIN mem.curriculum.archive]
  BY DEF ReplaySamples
<1>2. PerGeneration \in Nat /\ PerGeneration >= 1 /\ Replays \in Nat
  BY CampaignAssumption
<1> DEFINE All == Genomes \cup DOMAIN mem.curriculum.archive
<1>3. p \in [1..PerGeneration -> All] /\ r \in [1..n -> All]
  BY <1>1
<1>4. /\ p \in Seq(All) /\ Len(p) = PerGeneration
      /\ r \in Seq(All) /\ Len(r) = n
  <2> HIDE DEF All
  <2> QED
    BY <1>1, <1>2, <1>3
<1>5. Len(p \o r) = Len(p) + Len(r)
  BY <1>4, ConcatProperties
<1> QED
  BY <1>1, <1>2, <1>3, <1>4, <1>5

LEMMA OrchInit == Init => OrchInv
<1> SUFFICES ASSUME Init PROVE OrchInv
  OBVIOUS
<1>1. ledger \in Seq({}) /\ Len(ledger) = 0
  BY EmptySeq DEF Init
<1> QED
  BY <1>1 DEF Init, ProcessDown, OrchInv, OrchShape, LedgerOrdered, DirsToCome, OrchFields,
              InGeneration, InBatch, Busy

\* What the ledger is after a scenario was judged.
LEMMA LedgerGrows ==
  ASSUME LedgerOrdered, Judge
  PROVE  /\ Len(ledger) \in Nat
         /\ \E S : ledger' \in Seq(S)
         /\ Len(ledger') = Len(ledger) + 1
         /\ \A i \in 1..Len(ledger) : ledger'[i] = ledger[i]
         /\ ledger'[Len(ledger) + 1] =
              [gen |-> orch.gen, scenario |-> mem.counter, dir |-> Dir,
               genome |-> Genome, seed |-> mem.counter, res |-> Outcome]
<1> DEFINE r == [gen |-> orch.gen, scenario |-> mem.counter, dir |-> Dir,
                 genome |-> Genome, seed |-> mem.counter, res |-> Outcome]
<1>1. PICK S : ledger \in Seq(S)
  BY DEF LedgerOrdered
<1>2. ledger' = Append(ledger, r)
  BY DEF Judge
<1> DEFINE T == S \cup {r}
<1>3. r \in T /\ ledger \in Seq(T)
  BY <1>1, SeqMonotonic
<1> HIDE DEF r, T
<1>4. /\ Len(ledger) \in Nat /\ Append(ledger, r) \in Seq(T)
      /\ Len(Append(ledger, r)) = Len(ledger) + 1
      /\ \A i \in 1..Len(ledger) : Append(ledger, r)[i] = ledger[i]
      /\ Append(ledger, r)[Len(ledger) + 1] = r
  BY <1>3, AppendProperties, LenProperties
<1> QED
  BY <1>2, <1>4 DEF r

LEMMA OrchJudge ==
  ASSUME OrchInv, Judge
  PROVE  OrchInv'
<1> DEFINE n == Len(ledger)
<1>1. /\ orch.pc = "finishing" /\ mem'.counter = mem.counter + 1
      /\ DOMAIN orch = OrchFields
      /\ orch.gen \in Nat /\ orch.last \in Nat /\ orch.gen < orch.last
      /\ orch.last <= MaxGenerations /\ mem.counter = n
      /\ orch.j \in Nat /\ Len(orch.batch) \in Nat
      /\ 1 <= orch.j /\ orch.j <= Len(orch.batch)
      /\ Len(orch.batch) <= PerGeneration + Replays
  BY DEF Judge, OrchInv, OrchShape, InGeneration, InBatch, Busy
<1>2. /\ n \in Nat /\ (\E S : ledger' \in Seq(S)) /\ Len(ledger') = n + 1
      /\ \A i \in 1..n : ledger'[i] = ledger[i]
      /\ ledger'[n + 1].gen = orch.gen /\ ledger'[n + 1].dir = <<orch.gen, orch.j - 1>>
  BY LedgerGrows DEF OrchInv, Dir
<1>3. /\ \A i \in 1..n : ledger[i].gen <= orch.gen
      /\ \A i \in 1..n, k \in Nat : ledger[i].dir = <<orch.gen, k>> => k < orch.j - 1
  BY <1>1 DEF OrchInv, DirsToCome, InGeneration, InBatch, Busy
<1>4. \/ /\ orch.j < Len(orch.batch)
         /\ orch' = [orch EXCEPT !.pc = "launching", !.j = orch.j + 1]
      \/ orch' = [orch EXCEPT !.pc = "saving"]
  BY DEF Judge
<1>5. /\ orch'.pc \in {"launching", "saving"} /\ DOMAIN orch' = OrchFields
      /\ orch'.gen = orch.gen /\ orch'.last = orch.last /\ orch'.batch = orch.batch
      /\ orch'.pc = "launching" => orch.j < Len(orch.batch) /\ orch'.j = orch.j + 1
  BY <1>1, <1>4 DEF OrchFields
<1>6. OrchShape'
  BY <1>1, <1>2, <1>5 DEF OrchShape, InGeneration, InBatch, Busy
<1>7. LedgerOrdered'
  <2>1. \A i \in 1..(n + 1) : i = n + 1 \/ i \in 1..n
    BY <1>2
  <2>2. ASSUME NEW i \in 1..(n + 1)
        PROVE  ledger'[i].gen \in Nat /\ \E k \in Nat : ledger'[i].dir = <<ledger'[i].gen, k>>
    <3>1. orch.j - 1 \in Nat
      BY <1>1
    <3> QED
      BY <1>1, <1>2, <2>1, <3>1 DEF OrchInv, LedgerOrdered
  <2>3. ASSUME NEW i \in 1..(n + 1), NEW k \in 1..(n + 1), i <= k
        PROVE  ledger'[i].gen <= ledger'[k].gen
    <3>1. CASE k \in 1..n
      <4>1. i \in 1..n
        BY <1>2, <2>3, <3>1
      <4> QED
        BY <1>2, <2>3, <3>1, <4>1 DEF OrchInv, LedgerOrdered
    <3>2. CASE k = n + 1
      BY <1>1, <1>2, <1>3, <2>1, <3>2
    <3> QED
      BY <2>1, <3>1, <3>2
  <2> QED
    BY <1>2, <2>2, <2>3 DEF LedgerOrdered
<1>8. DirsToCome'
  <2>1. \A i \in 1..(n + 1) : i = n + 1 \/ i \in 1..n
    BY <1>2
  <2>2. \A i \in 1..(n + 1) : ledger'[i].gen <= orch.gen
    BY <1>1, <1>2, <1>3, <2>1
  <2>3. \A i \in 1..(n + 1), k \in Nat : ledger'[i].dir = <<orch.gen, k>> => k < orch.j
    <3> TAKE i \in 1..(n + 1), k \in Nat
    <3>1. CASE i \in 1..n
      BY <1>1, <1>2, <1>3, <3>1
    <3>2. CASE i = n + 1
      BY <1>1, <1>2, <3>2
    <3> QED
      BY <2>1, <3>1, <3>2
  <2> QED
    BY <1>1, <1>2, <1>5, <2>2, <2>3 DEF DirsToCome, InGeneration, InBatch, Busy
<1> QED
  BY <1>6, <1>7, <1>8 DEF OrchInv

LEMMA OrchResume ==
  ASSUME OrchInv, Resume
  PROVE  OrchInv'
<1>1. ledger' = ledger
  BY DEF Resume
<1>2. CASE orch' = [orch EXCEPT !.pc = "failed"]
  BY <1>1, <1>2 DEF OrchInv, OrchShape, LedgerOrdered, DirsToCome, OrchFields, InGeneration,
                    InBatch, Busy
<1>3. CASE orch' # [orch EXCEPT !.pc = "failed"]
  <2>1. PICK n \in 1..Generations :
          /\ orch' = [pc |-> "planning", gen |-> FirstGeneration,
                      last |-> FirstGeneration + n,
                      batch |-> <<>>, j |-> 0, terminal |-> "ok"]
          /\ mem'.counter = Len(ledger)
          /\ FirstGeneration + n <= MaxGenerations
    BY <1>3 DEF Resume
  <2>2. n \in Nat /\ n > 0
    BY <2>1, CampaignAssumption
  <2>3. /\ FirstGeneration \in Nat
        /\ \A i \in 1..Len(ledger) : ledger[i].gen < FirstGeneration
    BY NextGeneration DEF OrchInv
  <2>4. OrchShape'
    BY <1>1, <2>1, <2>2, <2>3 DEF OrchShape, OrchFields, InGeneration, InBatch, Busy
  <2>5. DirsToCome'
    <3>1. \A i \in 1..Len(ledger) : ledger[i].gen <= FirstGeneration
      BY <2>3 DEF OrchInv, LedgerOrdered
    <3> QED
      BY <1>1, <2>1, <2>3, <3>1 DEF DirsToCome, InGeneration, InBatch, Busy
  <2> QED
    BY <1>1, <2>4, <2>5 DEF OrchInv, LedgerOrdered
<1> QED
  BY <1>2, <1>3

LEMMA OrchStepInv ==
  ASSUME OrchInv, [Next]_vars
  PROVE  OrchInv'
<1> USE DEF OrchInv
<1>1. CASE UNCHANGED <<orch, mem, ledger>>
  BY <1>1 DEF OrchShape, LedgerOrdered, DirsToCome
<1>2. CASE Judge
  BY <1>2, OrchJudge
<1>3. CASE Resume
  BY <1>3, OrchResume
<1>4. CASE Plan
  <2>1. PICK p \in [1..PerGeneration -> Genomes], r \in ReplaySamples :
          orch' = [orch EXCEPT !.pc = "launching", !.batch = p \o r, !.j = 1]
    BY <1>4 DEF Plan
  <2> DEFINE b == p \o r
  <2>2. Len(b) \in Nat /\ 1 <= Len(b) /\ Len(b) <= PerGeneration + Replays
    BY BatchLength
  <2>3. orch' = [orch EXCEPT !.pc = "launching", !.batch = b, !.j = 1]
    BY <2>1
  <2> HIDE DEF b
  <2>4. orch.pc = "planning" /\ UNCHANGED <<mem, ledger>>
    BY <1>4 DEF Plan
  <2>5. OrchShape'
    BY <2>2, <2>3, <2>4 DEF OrchShape, OrchFields, InGeneration, InBatch, Busy
  <2>6. DirsToCome'
    <3>1. \A i \in 1..Len(ledger), k \in Nat : ledger[i].dir # <<orch.gen, k>>
      BY <2>4 DEF DirsToCome, LedgerOrdered, OrchShape, InGeneration
    <3> QED
      BY <2>3, <2>4, <3>1 DEF DirsToCome, OrchShape, OrchFields, InGeneration, InBatch, Busy
  <2> QED
    BY <2>4, <2>5, <2>6 DEF LedgerOrdered
<1>5. CASE Launch \/ WaitExit \/ WaitTimeout \/ KillForce
  <2>1. orch.pc \in InBatch /\ orch'.pc \in InBatch /\ UNCHANGED <<mem, ledger>>
    BY <1>5 DEF Launch, WaitExit, WaitTimeout, KillForce, InBatch, Busy, OrchShape, OrchFields
  <2>2. DOMAIN orch' = OrchFields /\ \A f \in {"gen", "last", "batch", "j"} : orch'[f] = orch[f]
    BY <1>5 DEF Launch, WaitExit, WaitTimeout, KillForce, OrchShape, OrchFields
  <2>3. orch'.gen = orch.gen /\ orch'.last = orch.last /\ orch'.batch = orch.batch
        /\ orch'.j = orch.j
    BY <2>2
  <2> QED
    BY <2>1, <2>2, <2>3 DEF OrchShape, LedgerOrdered, DirsToCome, InGeneration, InBatch, Busy
<1>6. CASE SaveOpen \/ Report
  BY <1>6 DEF SaveOpen, Report, OrchShape, LedgerOrdered, DirsToCome, OrchFields,
              InGeneration, InBatch, Busy
<1>7. CASE SaveDone
  <2>1. /\ orch.pc = "dumping" /\ UNCHANGED <<mem, ledger>>
        /\ orch' = [orch EXCEPT !.pc = IF orch.gen + 1 = orch.last THEN "reporting"
                                       ELSE "planning",
                                !.gen = orch.gen + 1, !.batch = <<>>, !.j = 0]
    BY <1>7 DEF SaveDone
  <2>2. /\ DOMAIN orch' = OrchFields /\ orch'.gen = orch.gen + 1 /\ orch'.last = orch.last
        /\ orch'.pc = IF orch.gen + 1 = orch.last THEN "reporting" ELSE "planning"
    BY <2>1 DEF OrchShape, OrchFields
  <2>3. \A i \in 1..Len(ledger) : ledger[i].gen \in Nat /\ ledger[i].gen <= orch.gen
    BY <2>1 DEF DirsToCome, LedgerOrdered, InGeneration
  <2>4. orch.gen \in Nat /\ orch.last \in Nat /\ orch.gen < orch.last
        /\ orch.last <= MaxGenerations /\ mem.counter = Len(ledger)
    BY <2>1 DEF OrchShape, InGeneration
  <2>5. OrchShape'
    BY <2>1, <2>2, <2>4 DEF OrchShape, InGeneration, InBatch, Busy
  <2>6. DirsToCome'
    BY <2>1, <2>2, <2>3, <2>4 DEF DirsToCome, InGeneration, InBatch, Busy
  <2> QED
    BY <2>1, <2>5, <2>6 DEF LedgerOrdered
<1>8. CASE Crash
  BY <1>8 DEF Crash, ProcessDown, OrchShape, LedgerOrdered, DirsToCome, OrchFields,
              InGeneration, InBatch, Busy
<1> QED
  BY <1>1, <1>2, <1>3, <1>4, <1>5, <1>6, <1>7, <1>8
  DEF Next, Runner, OrchStep, vars

(***************************************************************************)
(* The files and the ledger.                                               *)
(***************************************************************************)
\* An observer that is not off has not written its result yet.
NodeOwns == node.pc # "off" => node.dir \in Dirs /\ files[node.dir].state # "complete"

\* While a scenario is evaluated, the observer and the result are its own.
Current ==
  orch.pc \in Busy =>
    /\ node.pc # "off" =>
         node.dir = Dir /\ node.genome = Genome /\ node.seed = mem.counter
    /\ files[Dir].state = "complete" =>
         files[Dir].genome = Genome /\ files[Dir].seed = mem.counter

LedgerTrue ==
  \A i \in 1..Len(ledger) :
    /\ ledger[i].scenario = i - 1
    /\ ledger[i].res.genome = ledger[i].genome /\ ledger[i].res.seed = ledger[i].seed
    /\ ledger[i].dir \in Dirs
    /\ ledger[i].res.state = "complete" => files[ledger[i].dir] = ledger[i].res

LedgerDistinct ==
  \A i, k \in 1..Len(ledger) : ledger[i].dir = ledger[k].dir => i = k

LedgerInv ==
  /\ ResultInv
  /\ OrchInv
  /\ NodeOwns
  /\ Current
  /\ LedgerTrue
  /\ LedgerDistinct

LEMMA LedgerInit == Init => LedgerInv
<1> SUFFICES ASSUME Init PROVE LedgerInv
  OBVIOUS
<1>1. ResultInv /\ OrchInv
  BY ResultInit, OrchInit
<1>2. Len(ledger) = 0
  BY EmptySeq DEF Init
<1> QED
  BY <1>1, <1>2 DEF Init, LedgerInv, NodeOwns, Current, LedgerTrue, LedgerDistinct, NodeOff,
                    ProcessDown, Busy

LEMMA DirInDirs ==
  ASSUME OrchShape, orch.pc \in InBatch
  PROVE  Dir \in Dirs
<1>1. /\ orch.gen \in Nat /\ orch.last \in Nat /\ orch.gen < orch.last
      /\ orch.last <= MaxGenerations
      /\ orch.j \in Nat /\ Len(orch.batch) \in Nat
      /\ 1 <= orch.j /\ orch.j <= Len(orch.batch)
      /\ Len(orch.batch) <= PerGeneration + Replays
  BY DEF OrchShape, InGeneration
<1>2. /\ Dirs = (0..(MaxGenerations - 1)) \X (0..(PerGeneration + Replays - 1))
      /\ MaxGenerations \in Nat /\ PerGeneration \in Nat /\ Replays \in Nat
  BY CampaignAssumption
<1>3. orch.gen \in 0..(MaxGenerations - 1) /\ orch.j - 1 \in 0..(PerGeneration + Replays - 1)
  BY <1>1, <1>2
<1> QED
  BY <1>2, <1>3 DEF Dir

(* The observer writes only to the directory it owns, which no record with   *)
(* a complete result names.                                                  *)
LEMMA LedgerNode ==
  ASSUME LedgerInv, NodeStep, UNCHANGED <<orch, mem, ledger>>
  PROVE  NodeOwns' /\ Current' /\ LedgerTrue'
<1> USE DEF LedgerInv
<1>1. CASE NodeWait \/ NodeSample \/ NodeWake \/ NodeStopped
  <2>1. /\ node.pc # "off" /\ files' = files /\ DOMAIN node = Fields
        /\ node'.dir = node.dir /\ node'.genome = node.genome /\ node'.seed = node.seed
    BY <1>1 DEF NodeWait, NodeSample, NodeWake, NodeStopped, Writing, RecordTruePose,
                ResultInv, NodeShape, Fields
  <2> QED
    BY <2>1 DEF NodeOwns, Current, LedgerTrue, Dir, Genome
<1>2. CASE NodeOpen
  <2>1. /\ node.pc # "off" /\ DOMAIN node = Fields
        /\ files' = [files EXCEPT ![node.dir] = Torn]
        /\ node'.dir = node.dir /\ node'.genome = node.genome /\ node'.seed = node.seed
    BY <1>2 DEF NodeOpen, ResultInv, NodeShape, Fields
  <2>2. /\ node.dir \in Dirs /\ DOMAIN files = Dirs
        /\ files[node.dir].state # "complete" /\ Torn.state # "complete"
    BY <2>1 DEF NodeOwns, ResultInv, FilesShape, Torn
  <2>3. files'[node.dir] = Torn /\ \A d \in Dirs \ {node.dir} : files'[d] = files[d]
    BY <2>1, <2>2
  <2>4. Current'
    <3> SUFFICES ASSUME orch.pc \in Busy PROVE Current'
      BY DEF Current
    <3>1. Dir' = Dir /\ Genome' = Genome /\ node.dir = Dir
      BY <2>1 DEF Current, Dir, Genome
    <3> QED
      BY <2>1, <2>2, <2>3, <3>1 DEF Current
  <2>5. LedgerTrue'
    BY <2>2, <2>3 DEF LedgerTrue
  <2> QED
    BY <2>1, <2>2, <2>3, <2>4, <2>5 DEF NodeOwns
<1>3. CASE NodeClose
  <2>1. PICK score : files' = [files EXCEPT ![node.dir] = Result(node, score)]
    BY <1>3 DEF NodeClose
  <2>2. node.pc = "closing" /\ node'.pc = "off"
    BY <1>3 DEF NodeClose, NodeOff
  <2>3. /\ node.dir \in Dirs /\ DOMAIN files = Dirs /\ files[node.dir].state # "complete"
    BY <2>2 DEF NodeOwns, ResultInv, FilesShape
  <2>4. files'[node.dir] = Result(node, score)
        /\ \A d \in Dirs \ {node.dir} : files'[d] = files[d]
    BY <2>1, <2>3
  <2>5. Current'
    <3> SUFFICES ASSUME orch.pc \in Busy PROVE Current'
      BY DEF Current
    <3>1. Dir' = Dir /\ Genome' = Genome /\ node.dir = Dir /\ node.genome = Genome
          /\ node.seed = mem.counter
      BY <2>2 DEF Current, Dir, Genome
    <3> QED
      BY <2>2, <2>4, <3>1 DEF Current, Result
  <2>6. LedgerTrue'
    BY <2>3, <2>4 DEF LedgerTrue
  <2> QED
    BY <2>2, <2>5, <2>6 DEF NodeOwns
<1> QED
  BY <1>1, <1>2, <1>3 DEF NodeStep

LEMMA LedgerLaunch ==
  ASSUME LedgerInv, Launch
  PROVE  NodeOwns' /\ Current' /\ LedgerTrue'
<1> USE DEF LedgerInv
<1>1. /\ orch.pc = "launching" /\ UNCHANGED <<mem, ledger>>
      /\ files' = [files EXCEPT ![Dir] = NoFile]
      /\ node' = NodeStart(Dir, Genome, mem.counter)
      /\ orch' = [orch EXCEPT !.pc = "evaluating", !.terminal = "ok"]
  BY DEF Launch
<1>2. Dir \in Dirs /\ DOMAIN files = Dirs
  BY <1>1, DirInDirs DEF OrchInv, InBatch, ResultInv, FilesShape
<1>3. files'[Dir] = NoFile /\ \A d \in Dirs \ {Dir} : files'[d] = files[d]
  BY <1>1, <1>2
<1>4. Dir' = Dir /\ Genome' = Genome /\ orch'.pc \in Busy
  BY <1>1 DEF Dir, Genome, OrchInv, OrchShape, OrchFields, Busy
<1>5. node'.dir = Dir /\ node'.genome = Genome /\ node'.seed = mem.counter
  BY <1>1 DEF NodeStart
<1>6. NoFile.state # "complete"
  BY DEF NoFile
<1>7. \A i \in 1..Len(ledger) : ledger[i].dir # Dir
  <2>1. orch.j \in Nat /\ 1 <= orch.j
    BY <1>1 DEF OrchInv, OrchShape, InBatch
  <2>2. orch.j - 1 \in Nat /\ ~ (orch.j - 1 < orch.j - 1)
    BY <2>1
  <2> QED
    BY <1>1, <2>2 DEF OrchInv, DirsToCome, InBatch, Dir
<1>8. LedgerTrue'
  BY <1>1, <1>3, <1>7 DEF LedgerTrue
<1> QED
  BY <1>1, <1>2, <1>3, <1>4, <1>5, <1>6, <1>8 DEF NodeOwns, Current

LEMMA LedgerJudge ==
  ASSUME LedgerInv, Judge
  PROVE  NodeOwns' /\ Current' /\ LedgerTrue' /\ LedgerDistinct'
<1> USE DEF LedgerInv
<1> DEFINE n == Len(ledger)
           new == ledger'[n + 1]
<1>1. /\ n \in Nat /\ Len(ledger') = n + 1
      /\ \A i \in 1..n : ledger'[i] = ledger[i]
      /\ new = [gen |-> orch.gen, scenario |-> mem.counter, dir |-> Dir,
                genome |-> Genome, seed |-> mem.counter, res |-> Outcome]
  BY LedgerGrows DEF OrchInv
<1>2. orch.pc = "finishing" /\ UNCHANGED <<node, files>>
  BY DEF Judge, runnerVars
<1>3. mem.counter = n
  BY <1>2 DEF OrchInv, OrchShape, InGeneration, InBatch, Busy
<1>4. Dir \in Dirs
  BY <1>2, DirInDirs DEF OrchInv, InBatch, Busy
<1>5. /\ Outcome.genome = Genome /\ Outcome.seed = mem.counter
      /\ Outcome.state = "complete" => Outcome = files[Dir]
  <2>1. CASE files[Dir].state = "complete"
    BY <1>2, <2>1 DEF Outcome, Current, Busy
  <2>2. CASE files[Dir].state \in {"torn", "none"}
    BY <2>2 DEF Outcome
  <2>3. files[Dir].state \in {"complete", "torn", "none"}
    BY <1>4 DEF ResultInv, FilesShape
  <2> QED
    BY <2>1, <2>2, <2>3
<1>6. \A i \in 1..(n + 1) : i = n + 1 \/ i \in 1..n
  BY <1>1
<1>7. \A i \in 1..n : ledger[i].dir # Dir
  <2>1. orch.j \in Nat /\ 1 <= orch.j
    BY <1>2 DEF OrchInv, OrchShape, InBatch, Busy
  <2>2. orch.j - 1 \in Nat /\ ~ (orch.j - 1 < orch.j - 1)
    BY <2>1
  <2> QED
    BY <1>2, <2>2 DEF OrchInv, DirsToCome, InBatch, Busy, Dir
<1>8. LedgerTrue'
  <2> SUFFICES ASSUME NEW i \in 1..(n + 1)
               PROVE  /\ ledger'[i].scenario = i - 1
                      /\ ledger'[i].res.genome = ledger'[i].genome
                      /\ ledger'[i].res.seed = ledger'[i].seed
                      /\ ledger'[i].dir \in Dirs
                      /\ ledger'[i].res.state = "complete" =>
                           files'[ledger'[i].dir] = ledger'[i].res
    BY <1>1 DEF LedgerTrue
  <2>1. CASE i = n + 1
    <3>1. /\ ledger'[i].scenario = n /\ ledger'[i].dir = Dir /\ ledger'[i].genome = Genome
          /\ ledger'[i].seed = mem.counter /\ ledger'[i].res = Outcome
      BY <1>1, <1>3, <2>1
    <3> QED
      BY <1>1, <1>2, <1>4, <1>5, <2>1, <3>1
  <2>2. CASE i \in 1..n
    BY <1>1, <1>2, <2>2 DEF LedgerTrue
  <2> QED
    BY <1>6, <2>1, <2>2
<1>9. LedgerDistinct'
  <2> SUFFICES ASSUME NEW i \in 1..(n + 1), NEW k \in 1..(n + 1),
                      ledger'[i].dir = ledger'[k].dir
               PROVE  i = k
    BY <1>1 DEF LedgerDistinct
  <2>1. new.dir = Dir
    BY <1>1
  <2> QED
    BY <1>1, <1>6, <1>7, <2>1 DEF LedgerDistinct
<1>10. orch'.pc \notin Busy
  BY DEF Judge, OrchInv, OrchShape, OrchFields, Busy
<1> QED
  BY <1>2, <1>8, <1>9, <1>10 DEF NodeOwns, Current

LEMMA LedgerStep ==
  ASSUME LedgerInv, [Next]_vars
  PROVE  LedgerInv'
<1>1. ResultInv' /\ OrchInv'
  BY ResultStep, OrchStepInv DEF LedgerInv
<1>2. NodeOwns' /\ Current' /\ LedgerTrue' /\ LedgerDistinct'
  <2> USE DEF LedgerInv
  <2>1. CASE UNCHANGED <<node, files, orch, mem, ledger>>
    BY <2>1 DEF NodeOwns, Current, LedgerTrue, LedgerDistinct, Dir, Genome
  <2>2. CASE Runner /\ NodeStep
    BY <2>2, LedgerNode DEF Runner, LedgerDistinct
  <2>3. CASE Launch
    BY <2>3, LedgerLaunch DEF Launch, LedgerDistinct
  <2>4. CASE Judge
    BY <2>4, LedgerJudge
  <2>5. CASE WaitExit \/ WaitTimeout \/ KillForce
    <3>1. /\ orch.pc \in Busy /\ UNCHANGED <<files, mem, ledger>>
          /\ orch'.gen = orch.gen /\ orch'.j = orch.j /\ orch'.batch = orch.batch
      BY <2>5 DEF WaitExit, WaitTimeout, KillForce, Interrupt, runnerVars, Busy, OrchInv,
                  OrchShape, OrchFields
    <3>2. /\ node'.pc = node.pc
          /\ node.pc # "off" => /\ node'.dir = node.dir /\ node'.genome = node.genome
                                /\ node'.seed = node.seed
      BY <2>5 DEF WaitExit, WaitTimeout, KillForce, Interrupt, runnerVars, ResultInv,
                  NodeShape, Fields
    <3> QED
      BY <3>1, <3>2 DEF NodeOwns, Current, LedgerTrue, LedgerDistinct, Dir, Genome
  <2>6. CASE Plan \/ SaveOpen \/ SaveDone \/ Report \/ Resume
    <3>1. UNCHANGED <<node, files, ledger>> /\ orch'.pc \notin Busy
      <4>1. orch.pc \notin Busy /\ DOMAIN orch = OrchFields
        BY <2>6 DEF Plan, SaveOpen, SaveDone, Report, Resume, Busy, OrchInv, OrchShape
      <4>2. CASE Plan \/ SaveOpen \/ SaveDone \/ Report
        BY <4>1, <4>2 DEF Plan, SaveOpen, SaveDone, Report, runnerVars, Busy, OrchFields
      <4>3. CASE Resume
        <5>1. orch'.pc = "failed" \/ orch'.pc = "planning"
          BY <4>1, <4>3 DEF Resume, OrchFields
        <5> QED
          BY <4>3, <5>1 DEF Resume, runnerVars, Busy
      <4> QED
        BY <2>6, <4>2, <4>3
    <3> QED
      BY <3>1 DEF NodeOwns, Current, LedgerTrue, LedgerDistinct
  <2>7. CASE Crash
    BY <2>7 DEF Crash, NodeOff, ProcessDown, NodeOwns, Current, LedgerTrue, LedgerDistinct, Busy
  <2> QED
    BY <2>1, <2>2, <2>3, <2>4, <2>5, <2>6, <2>7
    DEF Next, Runner, RunnerStep, SimStep, WallTick, RoslaunchExit, OrchStep, vars, runnerVars
<1> QED
  BY <1>1, <1>2 DEF LedgerInv

(* Whatever crashes, hangs or is resumed, the ledger numbers the scenarios   *)
(* without a gap, gives each a directory of its own, and the result there is *)
(* still the one it recorded, of that genome and seed.                       *)
THEOREM LedgerAlwaysReplayable == Spec => []LedgerReplayable
<1>1. Init => LedgerInv
  BY LedgerInit
<1>2. LedgerInv /\ [Next]_vars => LedgerInv'
  BY LedgerStep
<1>3. LedgerInv => LedgerReplayable
  <2> SUFFICES ASSUME LedgerInv PROVE LedgerReplayable
    OBVIOUS
  <2>1. DOMAIN ledger = 1..Len(ledger)
    BY LenProperties DEF LedgerInv, OrchInv, LedgerOrdered
  <2> QED
    BY <2>1 DEF LedgerInv, LedgerTrue, LedgerDistinct, LedgerReplayable
<1> QED
  BY <1>1, <1>2, <1>3, PTL DEF Spec

(***************************************************************************)
(* The memory of the process, and what it is rebuilt from.                 *)
(***************************************************************************)
\* Every genome of the archive has a record in the ledger that put it there.
ArchiveRecorded(a, records) ==
  \A g \in DOMAIN a : \E i \in 1..Len(records) : /\ records[i].genome = g
                                                /\ IsSolvable(records[i].res)
                                                /\ records[i].res.score = a[g]

CurriculumOK(c, records) ==
  /\ c.recent \in BoundedSeq(BOOLEAN, Window)
  /\ c.target \in 0..MaxDifficulty
  /\ ArchiveRecorded(c.archive, records)

\* The checkpoint may be older than the ledger, but it is of its records.
CkptOK ==
  \/ ckpt \in {NoFile, Torn}
  \/ ckpt.state = "complete" /\ CurriculumOK(ckpt.curriculum, ledger)

MemoryOK ==
  /\ CurriculumOK(mem.curriculum, ledger)
  /\ mem.counter \in Nat
  /\ orch.pc \notin {"down", "failed"} => mem.proposer = Replaying!Fold(NewProposer, ledger)

Bounds ==
  /\ launch \in {"none", "running", "interrupted", "exited", "killed"}
  /\ orch.gen \in 0..MaxGenerations
  /\ orch.j \in 0..(PerGeneration + Replays)
  /\ report \subseteq 1..Len(ledger)

MemoryInv == OrchInv /\ Bounds /\ CkptOK /\ MemoryOK

LEMMA NewCurriculumOK ==
  ASSUME NEW records
  PROVE  CurriculumOK(NewCurriculum, records)
<1>1. <<>> \in [1..0 -> BOOLEAN] /\ DOMAIN <<>> = {}
  OBVIOUS
<1>2. Window \in Nat /\ MaxDifficulty \in Nat /\ MaxDifficulty >= 1
  BY CampaignAssumption
<1>3. <<>> \in BoundedSeq(BOOLEAN, Window)
  <2>1. 0 \in 0..Window
    BY <1>2
  <2> QED
    BY <1>1, <2>1 DEF BoundedSeq, SeqOf
<1> QED
  BY <1>1, <1>2, <1>3 DEF NewCurriculum, CurriculumOK, ArchiveRecorded

LEMMA MemoryInit == Init => MemoryInv
<1> SUFFICES ASSUME Init PROVE MemoryInv
  OBVIOUS
<1>1. OrchInv /\ CurriculumOK(NewCurriculum, ledger)
  BY OrchInit, NewCurriculumOK
<1>2. /\ MaxGenerations \in Nat /\ PerGeneration \in Nat /\ Replays \in Nat
  BY CampaignAssumption
<1> QED
  BY <1>1, <1>2 DEF Init, MemoryInv, Bounds, CkptOK, MemoryOK, NewMemory, ProcessDown,
                    InGeneration, InBatch, Busy

(* The window of the success rate never grows beyond its bound.            *)
LEMMA RecentBounded ==
  ASSUME NEW recent \in BoundedSeq(BOOLEAN, Window), NEW solved \in BOOLEAN
  PROVE  Recent(recent, solved) \in BoundedSeq(BOOLEAN, Window)
<1> DEFINE all == Append(recent, solved)
<1>1. Window \in Nat
  BY CampaignAssumption
<1>2. PICK n \in 0..Window : recent \in [1..n -> BOOLEAN]
  BY DEF BoundedSeq, SeqOf
<1>3. all \in [1..(n + 1) -> BOOLEAN] /\ Len(all) = n + 1 /\ all \in Seq(BOOLEAN)
  <2>1. recent \in Seq(BOOLEAN) /\ Len(recent) = n
    BY <1>1, <1>2
  <2>2. Append(recent, solved) \in Seq(BOOLEAN) /\ Len(Append(recent, solved)) = n + 1
    BY <2>1, AppendProperties
  <2>3. DOMAIN Append(recent, solved) = 1..(n + 1)
        /\ Append(recent, solved) \in [1..(n + 1) -> BOOLEAN]
    BY <2>2, LenProperties
  <2> QED
    BY <2>2, <2>3
<1>4. CASE n + 1 > Window
  <2>1. n + 1 - 1 = Window
    BY <1>1, <1>4
  <2>2. Tail(all) \in [1..Window -> BOOLEAN]
    <3>1. all # <<>>
      BY <1>3, EmptySeq
    <3> HIDE DEF all
    <3>2. Tail(all) \in Seq(BOOLEAN) /\ Len(Tail(all)) = Window
      BY <1>1, <1>3, <2>1, <3>1, HeadTailProperties
    <3> QED
      BY <1>1, <3>2, LenProperties
  <2>3. Recent(recent, solved) = Tail(all)
    BY <1>3, <1>4 DEF Recent
  <2>4. Window \in 0..Window
    BY <1>1
  <2> QED
    BY <2>2, <2>3, <2>4 DEF BoundedSeq, SeqOf
<1>5. CASE ~ (n + 1 > Window)
  <2>1. Recent(recent, solved) = all /\ n + 1 \in 0..Window
    BY <1>1, <1>3, <1>5 DEF Recent
  <2> QED
    BY <1>3, <2>1 DEF BoundedSeq, SeqOf
<1> QED
  BY <1>4, <1>5

(* The target stays in its range.                                          *)
LEMMA RetargetBounded ==
  ASSUME NEW target \in 0..MaxDifficulty, NEW recent
  PROVE  Retarget(target, recent) \in 0..MaxDifficulty
<1>1. MaxDifficulty \in Nat
  BY CampaignAssumption
<1>2. Min({MaxDifficulty, target + 1}) \in {MaxDifficulty, target + 1}
      /\ \A x \in {MaxDifficulty, target + 1} : Min({MaxDifficulty, target + 1}) <= x
  BY <1>1 DEF Min
<1>3. Max({0, target - 1}) \in {0, target - 1}
      /\ \A x \in {0, target - 1} : Max({0, target - 1}) >= x
  BY <1>1 DEF Max
<1>4. Min({MaxDifficulty, target + 1}) \in 0..MaxDifficulty
      /\ Max({0, target - 1}) \in 0..MaxDifficulty
  BY <1>1, <1>2, <1>3
<1> QED
  BY <1>4 DEF Retarget

(* The archive takes a scenario only as the ledger records it; the proposer *)
(* learns it as a replay of the record would teach it.                      *)
LEMMA MemoryJudge ==
  ASSUME MemoryInv, Judge
  PROVE  CkptOK' /\ MemoryOK'
<1> DEFINE n == Len(ledger)
           r == [gen |-> orch.gen, scenario |-> mem.counter, dir |-> Dir,
                 genome |-> Genome, seed |-> mem.counter, res |-> Outcome]
           c == mem.curriculum
<1>1. /\ n \in Nat /\ Len(ledger') = n + 1
      /\ \A i \in 1..n : ledger'[i] = ledger[i]
      /\ ledger'[n + 1] = r
  BY LedgerGrows DEF MemoryInv, OrchInv
<1>2. /\ orch.pc = "finishing"
      /\ mem' = [curriculum |-> Observe(c, Genome, Outcome),
                 proposer |-> Update(mem.proposer, Genome, Outcome.score),
                 counter |-> mem.counter + 1]
      /\ ledger' = Append(ledger, r) /\ ckpt' = ckpt
  BY DEF Judge
<1>3. r.genome = Genome /\ r.res = Outcome
  OBVIOUS
<1> HIDE DEF r
<1>4. ASSUME NEW a, ArchiveRecorded(a, ledger)
      PROVE  ArchiveRecorded(a, ledger')
  <2>1. \A i \in 1..n : i \in 1..(n + 1)
    BY <1>1
  <2>2. \A g \in DOMAIN a : \E i \in 1..(n + 1) : /\ ledger'[i].genome = g
                                                /\ IsSolvable(ledger'[i].res)
                                                /\ ledger'[i].res.score = a[g]
    BY <1>1, <1>4, <2>1 DEF ArchiveRecorded
  <2> QED
    BY <1>1, <2>2 DEF ArchiveRecorded
<1>5. CkptOK'
  BY <1>2, <1>4 DEF MemoryInv, CkptOK, CurriculumOK
<1>6. CurriculumOK(mem'.curriculum, ledger')
  <2> DEFINE d == Observe(c, Genome, Outcome)
             Entered == [h \in DOMAIN c.archive \cup {Genome} |->
                           IF h = Genome THEN Outcome.score ELSE c.archive[h]]
  <2>1. c.recent \in BoundedSeq(BOOLEAN, Window) /\ c.target \in 0..MaxDifficulty
        /\ ArchiveRecorded(c.archive, ledger)
    BY DEF MemoryInv, MemoryOK, CurriculumOK
  <2>2. IsSolved(Outcome) \in BOOLEAN
    BY DEF IsSolved
  <2>3. /\ d.recent = Recent(c.recent, IsSolved(Outcome))
        /\ d.target = Retarget(c.target, d.recent)
        /\ \/ d.archive = c.archive
           \/ d.archive = Entered /\ IsSolvable(Outcome)
    BY DEF Observe
  <2> HIDE DEF d
  <2>4. d.recent \in BoundedSeq(BOOLEAN, Window) /\ d.target \in 0..MaxDifficulty
    BY <2>1, <2>2, <2>3, RecentBounded, RetargetBounded
  <2>5. ArchiveRecorded(d.archive, ledger')
    <3>1. CASE d.archive = c.archive
      BY <1>4, <2>1, <3>1
    <3>2. CASE d.archive = Entered /\ IsSolvable(Outcome)
      <4> DEFINE a == d.archive
      <4>1. DOMAIN a = DOMAIN c.archive \cup {Genome} /\ a[Genome] = Outcome.score
            /\ \A g \in DOMAIN c.archive : g # Genome => a[g] = c.archive[g]
        BY <3>2
      <4> HIDE DEF a
      <4>2. n + 1 \in 1..(n + 1) /\ \A i \in 1..n : i \in 1..(n + 1)
        BY <1>1
      <4>3. \A g \in DOMAIN a : \E i \in 1..(n + 1) : /\ ledger'[i].genome = g
                                                    /\ IsSolvable(ledger'[i].res)
                                                    /\ ledger'[i].res.score = a[g]
        BY <1>1, <1>3, <2>1, <3>2, <4>1, <4>2 DEF ArchiveRecorded
      <4>4. ArchiveRecorded(a, ledger')
        BY <1>1, <4>3 DEF ArchiveRecorded
      <4> QED
        BY <4>4 DEF a
    <3> QED
      BY <2>3, <3>1, <3>2
  <2>6. mem'.curriculum = d
    BY <1>2 DEF d
  <2>7. CurriculumOK(d, ledger')
    BY <2>4, <2>5 DEF CurriculumOK
  <2> QED
    BY <2>6, <2>7
<1>7. mem'.counter \in Nat
  BY <1>2 DEF MemoryInv, MemoryOK
<1>8. mem'.proposer = Replaying!Fold(NewProposer, ledger')
  <2>1. PICK S : ledger \in Seq(S)
    BY DEF MemoryInv, OrchInv, LedgerOrdered
  <2>2. ledger \in Seq(S \cup {r}) /\ r \in S \cup {r}
    BY <2>1, SeqMonotonic
  <2>3. Replaying!Fold(NewProposer, Append(ledger, r)) = Replay(Replaying!Fold(NewProposer, ledger), r)
    BY <2>2, Replaying!FoldAppend
  <2>4. mem.proposer = Replaying!Fold(NewProposer, ledger)
    BY <1>2 DEF MemoryInv, MemoryOK, InGeneration, InBatch, Busy
  <2> QED
    BY <1>2, <1>3, <2>3, <2>4 DEF Replay
<1> QED
  BY <1>5, <1>6, <1>7, <1>8 DEF MemoryOK
(* A process that is started takes the archive from the checkpoint and the  *)
(* proposer from the ledger.                                                *)
LEMMA MemoryResume ==
  ASSUME MemoryInv, Resume
  PROVE  CkptOK' /\ MemoryOK'
<1>1. UNCHANGED <<ledger, ckpt>>
  BY DEF Resume
<1>2. CkptOK'
  BY <1>1 DEF MemoryInv, CkptOK
<1>3. CASE UNCHANGED mem /\ orch' = [orch EXCEPT !.pc = "failed"]
  <2>1. orch'.pc = "failed"
    BY <1>3 DEF MemoryInv, OrchInv, OrchShape, OrchFields
  <2> QED
    BY <1>1, <1>2, <1>3, <2>1 DEF MemoryInv, MemoryOK, InGeneration, InBatch, Busy
<1>4. CASE /\ ~ (ledger # <<>> /\ ckpt = Torn)
           /\ mem' = [curriculum |-> IF ledger # <<>> /\ ckpt # NoFile
                                     THEN ckpt.curriculum ELSE NewCurriculum,
                      proposer |-> Replayed, counter |-> Len(ledger)]
  <2>1. CurriculumOK(mem'.curriculum, ledger')
    <3>1. CASE ledger # <<>> /\ ckpt # NoFile
      BY <1>1, <1>4, <3>1 DEF MemoryInv, CkptOK
    <3>2. CASE ~ (ledger # <<>> /\ ckpt # NoFile)
      BY <1>4, <3>2, NewCurriculumOK
    <3> QED
      BY <3>1, <3>2
  <2>2. mem'.counter \in Nat
    BY <1>4, LenProperties DEF MemoryInv, OrchInv, LedgerOrdered
  <2> QED
    BY <1>1, <1>2, <1>4, <2>1, <2>2 DEF MemoryOK, Replayed
<1> QED
  BY <1>3, <1>4 DEF Resume

LEMMA BoundsStep ==
  ASSUME MemoryInv, [Next]_vars
  PROVE  Bounds'
<1> USE DEF MemoryInv
<1> DEFINE J == PerGeneration + Replays
<1>1. MaxGenerations \in Nat /\ PerGeneration \in Nat /\ Replays \in Nat /\ Generations \in Nat
  BY CampaignAssumption
<1>2. DOMAIN orch = OrchFields
  BY DEF OrchInv, OrchShape
<1>3. CASE UNCHANGED <<launch, orch, ledger, report>>
  BY <1>3 DEF Bounds
<1>4. CASE Runner
  BY <1>4 DEF Runner, RunnerStep, SimStep, NodeStep, NodeWait, NodeSample, NodeWake, NodeStopped,
              NodeOpen, NodeClose, WallTick, RoslaunchExit, Bounds
<1>5. CASE Launch \/ WaitExit \/ WaitTimeout \/ KillForce \/ SaveOpen
  BY <1>2, <1>5 DEF Launch, WaitExit, WaitTimeout, KillForce, SaveOpen, Interrupt, runnerVars,
                    Bounds, OrchFields
<1>6. CASE Plan
  <2>1. orch'.gen = orch.gen /\ orch'.j = 1
    BY <1>2, <1>6 DEF Plan, OrchFields
  <2>2. 1 \in 0..J
    <3>1. PerGeneration >= 1
      BY CampaignAssumption
    <3> QED
      BY <1>1, <3>1
  <2> QED
    BY <1>6, <2>1, <2>2 DEF Plan, Bounds, runnerVars
<1>7. CASE Judge
  <2>1. /\ orch.j \in Nat /\ Len(orch.batch) \in Nat /\ Len(orch.batch) <= J
        /\ orch.pc = "finishing"
    BY <1>7 DEF Judge, OrchInv, OrchShape, InBatch, Busy
  <2>2. /\ orch'.gen = orch.gen
        /\ orch'.j = orch.j \/ (orch.j < Len(orch.batch) /\ orch'.j = orch.j + 1)
    <3>1. \/ /\ orch.j < Len(orch.batch)
             /\ orch' = [orch EXCEPT !.pc = "launching", !.j = orch.j + 1]
          \/ orch' = [orch EXCEPT !.pc = "saving"]
      BY <1>7 DEF Judge
    <3> QED
      BY <1>2, <3>1 DEF OrchFields
  <2>3. orch'.j \in 0..J
    BY <1>1, <2>1, <2>2 DEF Bounds
  <2>4. Len(ledger) \in Nat /\ Len(ledger') = Len(ledger) + 1
    BY <1>7, LedgerGrows DEF OrchInv
  <2>5. 1..Len(ledger) \subseteq 1..Len(ledger')
    BY <2>4
  <2> QED
    BY <1>7, <2>2, <2>3, <2>5 DEF Judge, Bounds, runnerVars
<1>8. CASE SaveDone
  <2>1. orch'.gen = orch.gen + 1 /\ orch'.j = 0
    BY <1>2, <1>8 DEF SaveDone, OrchFields
  <2>2. orch.gen \in Nat /\ orch.last \in Nat /\ orch.gen < orch.last /\ orch.last <= MaxGenerations
    BY <1>8 DEF SaveDone, OrchInv, OrchShape, InGeneration
  <2>3. orch.gen + 1 \in 0..MaxGenerations /\ 0 \in 0..J
    BY <1>1, <2>2
  <2> QED
    BY <1>8, <2>1, <2>3 DEF SaveDone, Bounds, runnerVars
<1>9. CASE Report
  <2>1. DOMAIN ledger = 1..Len(ledger)
    BY LenProperties DEF OrchInv, LedgerOrdered
  <2>2. orch'.gen = orch.gen /\ orch'.j = orch.j
    BY <1>2, <1>9 DEF Report, OrchFields
  <2> QED
    BY <1>9, <2>1, <2>2 DEF Report, Bounds, runnerVars
<1>10. CASE Crash
  BY <1>1, <1>10 DEF Crash, ProcessDown, Bounds
<1>11. CASE Resume
  <2>1. CASE orch' = [orch EXCEPT !.pc = "failed"]
    BY <1>2, <1>11, <2>1 DEF Resume, Bounds, runnerVars, OrchFields
  <2>2. CASE /\ orch'.gen = FirstGeneration /\ orch'.j = 0
             /\ \E n \in 1..Generations : FirstGeneration + n <= MaxGenerations
    <3>1. FirstGeneration \in 0..MaxGenerations /\ 0 \in 0..J
      BY <1>1, <2>2, NextGeneration DEF OrchInv
    <3> QED
      BY <1>11, <2>2, <3>1 DEF Resume, Bounds, runnerVars
  <2> QED
    BY <1>11, <2>1, <2>2 DEF Resume
<1> QED
  BY <1>3, <1>4, <1>5, <1>6, <1>7, <1>8, <1>9, <1>10, <1>11 DEF Next, OrchStep, vars, runnerVars

LEMMA MemoryStep ==
  ASSUME MemoryInv, [Next]_vars
  PROVE  MemoryInv'
<1>1. OrchInv' /\ Bounds'
  BY OrchStepInv, BoundsStep DEF MemoryInv
<1>2. CkptOK' /\ MemoryOK'
  <2> USE DEF MemoryInv
  <2>1. CASE UNCHANGED <<orch, mem, ledger, ckpt>>
    BY <2>1 DEF CkptOK, MemoryOK
  <2>2. CASE Judge
    BY <2>2, MemoryJudge
  <2>3. CASE Resume
    BY <2>3, MemoryResume
  <2>4. CASE Plan \/ Launch \/ WaitExit \/ WaitTimeout \/ KillForce \/ Report
    <3>1. /\ UNCHANGED <<mem, ledger, ckpt>>
          /\ orch.pc \notin {"down", "failed"}
      BY <2>4 DEF Plan, Launch, WaitExit, WaitTimeout, KillForce, Report, OrchInv, OrchShape,
                  OrchFields, InGeneration, InBatch, Busy
    <3> QED
      BY <3>1 DEF CkptOK, MemoryOK
  <2>5. CASE SaveOpen
    BY <2>5 DEF SaveOpen, CkptOK, MemoryOK, InGeneration, InBatch
  <2>6. CASE SaveDone
    BY <2>6 DEF SaveDone, CkptOK, MemoryOK, InGeneration, InBatch
  <2>7. CASE Crash
    <3>1. orch'.pc = "down"
      BY <2>7 DEF Crash, ProcessDown
    <3> QED
      BY <2>7, <3>1, NewCurriculumOK DEF Crash, NewMemory, CkptOK, MemoryOK, InGeneration, InBatch, Busy
  <2> QED
    BY <2>1, <2>2, <2>3, <2>4, <2>5, <2>6, <2>7 DEF Next, Runner, OrchStep, vars
<1> QED
  BY <1>1, <1>2 DEF MemoryInv

THEOREM MemoryCorrect == Spec => []MemoryInv
<1>1. Init => MemoryInv
  BY MemoryInit
<1>2. MemoryInv /\ [Next]_vars => MemoryInv'
  BY MemoryStep
<1> QED
  BY <1>1, <1>2, PTL DEF Spec

(* At every moment of a process, whatever crashed before, the proposer has  *)
(* seen exactly the ledger, in its order, and the archive is of its records. *)
THEOREM MemoryAlwaysOfLedger == Spec => []MemoryIsOfLedger
<1>1. MemoryInv => MemoryIsOfLedger
  <2> SUFFICES ASSUME MemoryInv, orch.pc \notin {"down", "failed"} PROVE MemoryIsOfLedger
    BY DEF MemoryIsOfLedger
  <2>1. DOMAIN ledger = 1..Len(ledger)
    BY LenProperties DEF MemoryInv, OrchInv, LedgerOrdered
  <2>2. mem.counter = Len(ledger) /\ mem.proposer = Replaying!Fold(NewProposer, ledger)
    BY DEF MemoryInv, MemoryOK, OrchInv, OrchShape, InGeneration
  <2>3. ArchiveRecorded(mem.curriculum.archive, ledger)
    BY DEF MemoryInv, MemoryOK, CurriculumOK
  <2> QED
    BY <2>1, <2>2, <2>3 DEF MemoryIsOfLedger, ArchiveRecorded
<1> QED
  BY <1>1, MemoryCorrect, PTL

(* The files, the memory and the counters keep their types, and the window  *)
(* of the curriculum its bound.                                              *)
THEOREM CampaignTypeCorrect == Spec => []TypeOK
<1>1. MemoryInv /\ LedgerInv => TypeOK
  <2> SUFFICES ASSUME MemoryInv, LedgerInv PROVE TypeOK
    OBVIOUS
  <2>1. DOMAIN ledger = 1..Len(ledger)
    BY LenProperties DEF MemoryInv, OrchInv, LedgerOrdered
  <2>2. ckpt.state \in {"none", "torn", "complete"}
    BY DEF MemoryInv, CkptOK, NoFile, Torn
  <2> QED
    BY <2>1, <2>2 DEF TypeOK, MemoryInv, Bounds, MemoryOK, CurriculumOK, LedgerInv, ResultInv, FilesShape
<1>2. Init => LedgerInv
  BY LedgerInit
<1>3. LedgerInv /\ [Next]_vars => LedgerInv'
  BY LedgerStep
<1> QED
  BY <1>1, <1>2, <1>3, MemoryCorrect, PTL DEF Spec

----------------------------------------------------------------------------
(***************************************************************************)
(* An evaluation ends.  That somebody takes the next step is a matter of   *)
(* fairness; that there always is one, and that no more than a number of   *)
(* them known in advance can be taken, is safety.                          *)
(***************************************************************************)
\* evaluate() waits for roslaunch, or has begun to kill it.
InEvaluation == orch.pc \in {"evaluating", "killing"}

\* roslaunch runs exactly while an evaluation waits for it, is interrupted
\* exactly while one kills it, and both end inside the time limits; it does
\* not exit before its required node, the observer, has.
EvaluationInv ==
  /\ ResultInv
  /\ node.ok \in BOOLEAN
  /\ clock \in 0..MaxClock /\ wall \in 0..(WallTimeout + Grace)
  /\ DOMAIN orch = OrchFields
  /\ orch.pc = "evaluating" => launch \in {"running", "exited"}
  /\ orch.pc = "killing" => launch \in {"interrupted", "exited"}
  /\ launch = "running" => orch.pc = "evaluating"
  /\ launch = "interrupted" => orch.pc = "killing"
  /\ launch = "exited" => node.pc = "off"

\* In turn: the guards of WaitExit, KillForce, WaitTimeout, of a step of the
\* observer, and of the wall clock's, which does not wait for a sleeping
\* observer.
EvaluationCanGoOn ==
  InEvaluation =>
    \/ launch = "exited"
    \/ orch.pc = "killing" /\ launch = "interrupted"
    \/ orch.pc = "evaluating" /\ TimedOut
    \/ Ready
    \/ launch = "running" /\ wall < WallTimeout + Grace /\ ~ Ready

\* A bound on the steps an observer can still take before the clock moves.
NodeLeft ==
  CASE node.pc = "off"      -> 0
    [] node.pc = "closing"  -> 1
    [] node.pc = "writing"  -> 2
    [] node.pc = "sampling" -> 4
    [] node.pc = "waiting"  -> 5
    [] node.pc = "sleeping" -> IF clock >= node.wake \/ ~ node.ok THEN 5 ELSE 3

\* ... and on all the steps an evaluation can still take.
Steps(n, c, w, e) == 1 + n + 3 * (MaxClock - c) + (WallTimeout + Grace - w) + e
StepsLeft ==
  IF launch = "exited" THEN 0
  ELSE Steps(NodeLeft, clock, wall, IF orch.pc = "evaluating" THEN 3 ELSE 0)

\* Every step during an evaluation ends it or leaves fewer to take.
EvaluationEnds ==
  [][InEvaluation /\ InEvaluation' => StepsLeft' \in Nat /\ StepsLeft' < StepsLeft]_vars

LEMMA EvaluationInit == Init => EvaluationInv
BY ResultInit, RunnerAssumption
DEF Init, EvaluationInv, NodeOff, ProcessDown, OrchFields

(* The observer keeps its part of the invariant, and the others' alone.    *)
LEMMA EvaluationNode ==
  ASSUME EvaluationInv, NodeStep
  PROVE  /\ UNCHANGED <<launch, clock, robot, wall>> /\ launch # "exited"
         /\ node'.ok \in BOOLEAN
<1>1. NodeShape /\ node.ok \in BOOLEAN
  BY DEF EvaluationInv, ResultInv
<1>2. launch # "exited"
  BY DEF EvaluationInv, NodeStep, NodeWait, NodeSample, NodeWake, NodeStopped, NodeOpen, NodeClose
<1>3. CASE NodeSample
  <2>1. node'.ok = node.ok
    BY <1>1, <1>3 DEF NodeSample, NodeShape, Fields, Writing, RecordTruePose
  <2> QED
    BY <1>1, <1>2, <1>3, <2>1 DEF NodeSample
<1>4. CASE NodeWait \/ NodeStopped
  <2>1. node'.ok = node.ok
    BY <1>1, <1>4 DEF NodeWait, NodeStopped, NodeShape, Fields, Writing
  <2> QED
    BY <1>1, <1>2, <1>4, <2>1 DEF NodeWait, NodeStopped
<1>5. CASE NodeWake \/ NodeOpen
  <2>1. node'.ok = node.ok
    BY <1>1, <1>5 DEF NodeWake, NodeOpen, NodeShape, Fields
  <2> QED
    BY <1>1, <1>2, <1>5, <2>1 DEF NodeWake, NodeOpen
<1>6. CASE NodeClose
  BY <1>2, <1>6 DEF NodeClose, NodeOff
<1> QED
  BY <1>3, <1>4, <1>5, <1>6 DEF NodeStep

LEMMA EvaluationStep ==
  ASSUME EvaluationInv, [Next]_vars
  PROVE  EvaluationInv'
<1> USE RunnerAssumption
<1>1. ResultInv'
  BY ResultStep DEF EvaluationInv
<1>2. NodeShape /\ WallTimeout \in Nat /\ Grace \in Nat /\ MaxClock \in Nat
  BY DEF EvaluationInv, ResultInv
<1>3. CASE UNCHANGED vars
  BY <1>1, <1>3 DEF EvaluationInv, vars, runnerVars
<1>4. CASE Runner
  <2>1. UNCHANGED orch
    BY <1>4 DEF Runner
  <2>2. CASE SimStep
    BY <1>1, <1>2, <2>1, <2>2 DEF EvaluationInv, SimStep
  <2>3. CASE WallTick
    BY <1>1, <1>2, <2>1, <2>3 DEF EvaluationInv, WallTick
  <2>4. CASE NodeStep
    BY <1>1, <2>1, <2>4, EvaluationNode DEF EvaluationInv
  <2>5. CASE RoslaunchExit
    BY <1>1, <1>2, <2>1, <2>5 DEF EvaluationInv, RoslaunchExit, Forgotten
  <2> QED
    BY <1>4, <2>2, <2>3, <2>4, <2>5 DEF Runner, RunnerStep
<1>5. CASE Plan \/ Judge \/ SaveOpen \/ SaveDone \/ Report
  BY <1>1, <1>5 DEF EvaluationInv, Plan, Judge, SaveOpen, SaveDone, Report, runnerVars, OrchFields
<1>6. CASE Launch
  BY <1>1, <1>2, <1>6 DEF EvaluationInv, Launch, Forgotten, NodeStart, OrchFields
<1>7. CASE WaitExit
  BY <1>1, <1>7 DEF EvaluationInv, WaitExit, runnerVars, OrchFields
<1>8. CASE WaitTimeout
  BY <1>1, <1>2, <1>8 DEF EvaluationInv, WaitTimeout, Interrupt, OrchFields, NodeShape, Fields
<1>9. CASE KillForce
  BY <1>1, <1>9 DEF EvaluationInv, KillForce, OrchFields
<1>10. CASE Crash
  BY <1>1, <1>2, <1>10 DEF EvaluationInv, Crash, ProcessDown, Forgotten, NodeOff, OrchFields
<1>11. CASE Resume
  <2>1. UNCHANGED runnerVars /\ ~InEvaluation /\ ~InEvaluation' /\ DOMAIN orch' = OrchFields
    BY <1>11 DEF EvaluationInv, Resume, InEvaluation, OrchFields
  <2> QED
    BY <1>1, <2>1 DEF EvaluationInv, runnerVars, InEvaluation
<1> QED
  BY <1>3, <1>4, <1>5, <1>6, <1>7, <1>8, <1>9, <1>10, <1>11 DEF Next, OrchStep

(* Where roslaunch is while an evaluation waits for it or kills it.        *)
THEOREM EvaluationCorrect == Spec => []EvaluationInv
<1> QED
  BY EvaluationInit, EvaluationStep, PTL DEF Spec

(* An evaluation is never without a next step, although the observer       *)
(* sleeps in a simulation time that may stand still: roslaunch exits, or   *)
(* the observer moves, or wall time passes until evaluate() times out.     *)
THEOREM EvaluationNeverStalls == Spec => []EvaluationCanGoOn
<1>1. EvaluationInv => EvaluationCanGoOn
  BY RunnerAssumption DEF EvaluationInv, EvaluationCanGoOn, InEvaluation, TimedOut
<1> QED
  BY <1>1, EvaluationCorrect, PTL

(* A step of the observer leaves it fewer.                                 *)
LEMMA NodeLeftLess ==
  ASSUME EvaluationInv, NodeStep
  PROVE  NodeLeft' < NodeLeft /\ NodeLeft' \in Nat
<1>1. NodeShape /\ clock \in Int /\ node.ok \in BOOLEAN
  BY DEF EvaluationInv, ResultInv
<1>2. CASE NodeWait
  <2>1. node.pc = "waiting" /\ node'.pc \in {"sampling", "writing"}
    BY <1>1, <1>2 DEF NodeWait, NodeShape, Fields, Writing
  <2> QED
    BY <2>1 DEF NodeLeft
<1>3. CASE NodeSample
  <2>1. /\ node.pc = "sampling" /\ clock' = clock /\ node'.ok = TRUE
        /\ node'.pc = "writing" \/ (node'.pc = "sleeping" /\ node'.wake = clock + 1)
    BY <1>1, <1>3 DEF NodeSample, NodeShape, Fields, Writing, RecordTruePose
  <2> QED
    BY <1>1, <2>1 DEF NodeLeft
<1>4. CASE NodeWake
  <2>1. node.pc = "sleeping" /\ (clock >= node.wake \/ ~ node.ok) /\ node'.pc = "sampling"
    BY <1>1, <1>4 DEF NodeWake, NodeShape, Fields
  <2> QED
    BY <2>1 DEF NodeLeft
<1>5. CASE NodeStopped
  <2>1. node.pc \in {"waiting", "sampling"} /\ node'.pc = "writing"
    BY <1>1, <1>5 DEF NodeStopped, NodeShape, Fields, Writing
  <2> QED
    BY <2>1 DEF NodeLeft
<1>6. CASE NodeOpen
  <2>1. node.pc = "writing" /\ node'.pc = "closing"
    BY <1>1, <1>6 DEF NodeOpen, NodeShape, Fields
  <2> QED
    BY <2>1 DEF NodeLeft
<1>7. CASE NodeClose
  BY <1>7 DEF NodeClose, NodeOff, NodeLeft
<1> QED
  BY <1>2, <1>3, <1>4, <1>5, <1>6, <1>7 DEF NodeStep

\* A step of the clock, of wall time, of the observer, and the interrupt.
LEMMA FewerSteps ==
  ASSUME NEW n \in Nat, NEW c \in Nat, NEW w \in Nat, NEW e \in Nat,
         NEW m \in Nat, NEW d \in Nat, NEW v \in Nat, NEW f \in Nat,
         c <= MaxClock, d <= MaxClock, w <= WallTimeout + Grace, v <= WallTimeout + Grace,
         \/ m <= n + 2 /\ d = c + 1 /\ v = w /\ f = e
         \/ m = n /\ d = c /\ v = w + 1 /\ f = e
         \/ m < n /\ d = c /\ v = w /\ f = e
         \/ m <= n + 2 /\ d = c /\ v = w /\ f + 3 = e
  PROVE  Steps(m, d, v, f) \in Nat /\ Steps(m, d, v, f) < Steps(n, c, w, e)
<1>1. /\ MaxClock \in Nat /\ WallTimeout \in Nat /\ Grace \in Nat
  BY RunnerAssumption
<1> QED
  BY <1>1 DEF Steps

(* The steps left are a number, as long as roslaunch runs a positive one.  *)
LEMMA StepsLeftType ==
  ASSUME EvaluationInv
  PROVE  /\ NodeLeft \in 0..5
         /\ launch # "exited" => StepsLeft \in Nat /\ StepsLeft > 0
         /\ launch = "exited" => StepsLeft = 0
<1>1. NodeLeft \in 0..5
  BY DEF NodeLeft, EvaluationInv, ResultInv, NodeShape
<1>2. /\ clock \in Nat /\ clock <= MaxClock /\ MaxClock \in Nat
      /\ wall \in Nat /\ wall <= WallTimeout + Grace /\ WallTimeout \in Nat /\ Grace \in Nat
  BY RunnerAssumption DEF EvaluationInv
<1>3. \A e \in {0, 3} : Steps(NodeLeft, clock, wall, e) \in Nat /\ Steps(NodeLeft, clock, wall, e) > 0
  BY <1>1, <1>2 DEF Steps
<1>4. launch # "exited" => \E e \in {0, 3} : StepsLeft = Steps(NodeLeft, clock, wall, e)
  BY DEF StepsLeft
<1> QED
  BY <1>1, <1>3, <1>4 DEF StepsLeft

(* An evaluation takes a bounded number of steps, of the simulator, the    *)
(* observer, roslaunch and evaluate() together, in whatever order they     *)
(* come: each leaves fewer, for a simulator that publishes no more than    *)
(* MaxClock times.  The watchdogs need not be right about who hangs.       *)
THEOREM EvaluationIsBounded == Spec => EvaluationEnds
<1>1. EvaluationInv /\ EvaluationInv' /\ [Next]_vars =>
        [InEvaluation /\ InEvaluation' => StepsLeft' \in Nat /\ StepsLeft' < StepsLeft]_vars
  <2> SUFFICES ASSUME EvaluationInv, EvaluationInv', Next, InEvaluation, InEvaluation'
               PROVE  StepsLeft' \in Nat /\ StepsLeft' < StepsLeft
    OBVIOUS
  <2>1. /\ clock \in Nat /\ clock' \in Nat /\ wall \in Nat /\ wall' \in Nat
        /\ clock <= MaxClock /\ clock' <= MaxClock /\ MaxClock \in Nat
        /\ wall <= WallTimeout + Grace /\ wall' <= WallTimeout + Grace
        /\ WallTimeout \in Nat /\ Grace \in Nat
    BY RunnerAssumption DEF EvaluationInv
  <2>2. NodeLeft \in 0..5 /\ NodeLeft' \in 0..5
    <3>1. NodeShape /\ NodeShape'
      BY DEF EvaluationInv, ResultInv
    <3> QED
      BY <3>1 DEF NodeLeft, NodeShape
  <2> DEFINE e == IF orch.pc = "evaluating" THEN 3 ELSE 0
  <2>3. /\ NodeLeft \in Nat /\ NodeLeft' \in Nat
        /\ e \in Nat /\ e' \in Nat /\ (orch' = orch => e' = e)
    BY <2>2
  <2>4. /\ launch # "exited" => StepsLeft = Steps(NodeLeft, clock, wall, e)
        /\ launch' # "exited" => StepsLeft' = Steps(NodeLeft', clock', wall', e')
    BY DEF StepsLeft
  <2>5. CASE SimStep /\ UNCHANGED orch
    <3>1. launch # "exited" /\ launch' # "exited" /\ clock' = clock + 1 /\ wall' = wall
      BY <2>5 DEF SimStep
    <3>2. NodeLeft' <= NodeLeft + 2
      <4>1. node' = node
        BY <2>5 DEF SimStep
      <4> QED
        BY <4>1 DEF NodeLeft, EvaluationInv, ResultInv, NodeShape
    <3> HIDE DEF e
    <3>3. Steps(NodeLeft', clock', wall', e') \in Nat
          /\ Steps(NodeLeft', clock', wall', e') < Steps(NodeLeft, clock, wall, e)
      BY <2>1, <2>3, FewerSteps, <2>5, <3>1, <3>2
    <3> QED
      BY <2>4, <3>1, <3>3
  <2>6. CASE WallTick /\ UNCHANGED orch
    <3>1. launch # "exited" /\ launch' # "exited" /\ clock' = clock /\ wall' = wall + 1
      BY <2>6 DEF WallTick
    <3>2. NodeLeft' = NodeLeft
      BY <2>6 DEF WallTick, NodeLeft
    <3> HIDE DEF e
    <3>3. Steps(NodeLeft', clock', wall', e') \in Nat
          /\ Steps(NodeLeft', clock', wall', e') < Steps(NodeLeft, clock, wall, e)
      BY <2>1, <2>3, FewerSteps, <2>6, <3>1, <3>2
    <3> QED
      BY <2>4, <3>1, <3>3
  <2>7. CASE NodeStep /\ UNCHANGED orch
    <3>1. NodeLeft' < NodeLeft /\ UNCHANGED <<launch, clock, wall>> /\ launch # "exited"
      BY <2>7, NodeLeftLess, EvaluationNode
    <3> HIDE DEF e
    <3>2. Steps(NodeLeft', clock', wall', e') \in Nat
          /\ Steps(NodeLeft', clock', wall', e') < Steps(NodeLeft, clock, wall, e)
      BY <2>1, <2>3, FewerSteps, <2>7, <3>1
    <3> QED
      BY <2>4, <3>1, <3>2
  <2>8. CASE RoslaunchExit
    <3>1. launch # "exited" /\ launch' = "exited"
      BY <2>8 DEF RoslaunchExit
    <3> QED
      BY <3>1, StepsLeftType DEF StepsLeft
  <2>9. CASE WaitTimeout
    <3>1. /\ launch # "exited" /\ launch' # "exited" /\ clock' = clock /\ wall' = wall
          /\ orch.pc = "evaluating" /\ orch'.pc # "evaluating"
      BY <2>9 DEF WaitTimeout, TimedOut, Interrupt, EvaluationInv, OrchFields
    <3>2. NodeLeft' <= NodeLeft + 2
      <4>1. node' = [node EXCEPT !.ok = FALSE] /\ NodeShape
        BY <2>9 DEF WaitTimeout, Interrupt, EvaluationInv, ResultInv
      <4> QED
        BY <4>1, <3>1 DEF NodeLeft, NodeShape, Fields
    <3>3. e' + 3 = e
      BY <3>1
    <3> HIDE DEF e
    <3>4. Steps(NodeLeft', clock', wall', e') \in Nat
          /\ Steps(NodeLeft', clock', wall', e') < Steps(NodeLeft, clock, wall, e)
      BY <2>1, <2>3, FewerSteps, <3>1, <3>2, <3>3
    <3> QED
      BY <2>4, <3>1, <3>4
  <2>10. CASE Plan \/ Launch \/ WaitExit \/ KillForce \/ Judge \/ SaveOpen \/ SaveDone \/ Report
             \/ Crash \/ Resume
    BY <2>10 DEF Plan, Launch, WaitExit, KillForce, Judge, SaveOpen, SaveDone, Report, Crash, Resume,
                InEvaluation, EvaluationInv, OrchFields, ProcessDown
  <2> QED
    BY <2>5, <2>6, <2>7, <2>8, <2>9, <2>10 DEF Next, Runner, RunnerStep, OrchStep
<1> QED
  BY <1>1, EvaluationCorrect, PTL DEF Spec, EvaluationEnds
=============================================================================
