--------------------------- MODULE ActuatorDynamics ---------------------------
(***************************************************************************)
(* The command delay line of a drive's axis: in each physics step DiffDrive*)
(* and TricycleDrive push the cached command with the simulation time and  *)
(* pull the one that is old enough.  The latency is the configured one plus*)
(* that of the controller_latency fault, which may be another in each step;*)
(* so the buffer is scanned, not drained, and only Push drops entries.     *)
(*                                                                         *)
(* Time is counted in physics steps.  A step pushes one command, hence the *)
(* step that pushed it identifies a command; Zero, older than all of them, *)
(* is the initial value.  The drive may be spawned at any time.            *)
(***************************************************************************)
EXTENDS Integers, Sequences

CONSTANTS
  Cap,       \* kMaxBufferSize
  Latencies, \* values of command_latency
  Extras,    \* values of severity * latency of the fault, 0 among them
  MaxTime    \* bound on the simulation time, for TLC

ASSUME ActuatorAssumption ==
  /\ Cap \in Nat \ {0}
  /\ Latencies \subseteq Nat
  /\ Extras \subseteq Nat
  /\ MaxTime \in Nat

VARIABLES
  command_latency_, \* chosen once, by Configure
  born,             \* the step in which the drive was spawned
  now,              \* the simulation time of the next step
  command_buffer_,
  last_command_,
  total,            \* the latency of the last step
  newest,           \* history: the newest command that was ever old enough
  cleared           \* history: the newest command when the line was last cleared

vars == <<command_latency_, born, now, command_buffer_, last_command_, total,
          newest, cleared>>

Zero == -1

Init ==
  /\ command_latency_ \in Latencies
  /\ born \in 0..MaxTime
  /\ now = born
  /\ command_buffer_ = <<>>
  /\ last_command_ = Zero
  /\ total = 0
  /\ newest = Zero
  /\ cleared = Zero

Push(q, stamp) ==
  LET line == Append(q, stamp) IN IF Len(line) > Cap THEN Tail(line) ELSE line

\* Mutant: Pull drops what it scanned.
ScanDrains(line, cutoff) ==
  \E n \in 0..Len(line) :
    /\ \A i \in 1..n : line[i] <= cutoff
    /\ n < Len(line) => line[n + 1] > cutoff
    /\ last_command_' = IF n = 0 THEN last_command_ ELSE line[n]
    /\ command_buffer_' = SubSeq(line, n + 1, Len(line))

\* Mutant: the first command that is not old enough is taken, too.
ScanAhead(line, cutoff) ==
  \E n \in 0..Len(line) :
    /\ \A i \in 1..n : line[i] <= cutoff + 1
    /\ n < Len(line) => line[n + 1] > cutoff + 1
    /\ last_command_' = IF n = 0 THEN last_command_ ELSE line[n]
    /\ command_buffer_' = line

\* The n entries up to the first one that is too new have arrived.
Scan(line, cutoff) ==
  \E n \in 0..Len(line) :
    /\ \A i \in 1..n : line[i] <= cutoff
    /\ n < Len(line) => line[n + 1] > cutoff
    /\ last_command_' = IF n = 0 THEN last_command_ ELSE line[n]
    /\ command_buffer_' = line

\* Mutant: without latency the buffer is cleared and the command forgotten.
PassThroughForgets(line) ==
  /\ last_command_' = last_command_
  /\ command_buffer_' = <<>>
  /\ cleared' = now

PassThrough(line) ==
  /\ last_command_' = line[Len(line)]
  /\ command_buffer_' = <<>>
  /\ cleared' = now

\* Pull with latency t after the push of this step's command.
Pull(line, t) ==
  \/ t = 0 /\ PassThrough(line)
  \/ t > now /\ command_buffer_' = line /\ UNCHANGED <<last_command_, cleared>>
  \/ t > 0 /\ t <= now /\ Scan(line, now - t) /\ UNCHANGED cleared

BeforePhysicsStep(extra) ==
  /\ now < MaxTime
  /\ now' = now + 1
  /\ total' = command_latency_ + extra
  /\ Pull(Push(command_buffer_, now), total')
  /\ newest' = IF newest < now - total' THEN now - total' ELSE newest
  /\ UNCHANGED <<command_latency_, born>>

\* The bound on time is reached.
Finished == now = MaxTime /\ UNCHANGED vars

Next ==
  \/ \E extra \in Extras : BeforePhysicsStep(extra)
  \/ Finished

Spec == Init /\ [][Next]_vars

----------------------------------------------------------------------------
\* The newest command that was old enough in the last step.
Cutoff == now - 1 - total

\* Times are simulation times, and kMaxBufferSize bounds the buffer although
\* Pull never drains it.
TypeOK ==
  /\ command_latency_ \in Latencies
  /\ born \in 0..MaxTime
  /\ now \in born..MaxTime
  /\ command_buffer_ \in Seq(Nat)
  /\ Len(command_buffer_) <= Cap
  /\ last_command_ \in Nat \cup {Zero}
  /\ total \in Nat
  /\ newest \in Nat \cup {Zero}
  /\ cleared \in Nat \cup {Zero}

(* Whatever the fault does to the latency, no command reaches the wheels   *)
(* before it has been as old as the latency asked for.                     *)
NeverEarly == last_command_ <= newest

(* actuator_dynamics.md: "a command pushed at t takes effect at t +        *)
(* command_latency", and not later: while the latency is less than the     *)
(* buffer is long, the command in effect is at least as new as that.       *)
NeverLate == total < Cap /\ Cutoff >= born => last_command_ >= Cutoff

(* "a larger latency on a later step must still be able to reach an older  *)
(* command" (ActuatorDynamics::Pull): one that was pushed since the line   *)
(* was last cleared, and that the buffer still holds, is reached.          *)
ReachesOlder ==
  total < Cap /\ Cutoff >= born /\ Cutoff > cleared => last_command_ = Cutoff
=============================================================================
