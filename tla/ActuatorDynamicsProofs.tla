------------------------ MODULE ActuatorDynamicsProofs ------------------------
(***************************************************************************)
(* The delay line of ActuatorDynamics, proved for every capacity, every    *)
(* latency and every fault.  The invariant says what the buffer holds: the *)
(* commands of the last steps without a gap, down to the drive's first     *)
(* step, to the last clearing, or to the capacity, whichever is latest.    *)
(* The last part is what becomes of a latency the buffer does not cover.   *)
(***************************************************************************)
EXTENDS ActuatorDynamics, TLAPS

\* The oldest step whose command the buffer holds, when it holds any.
Oldest == now - Len(command_buffer_)

(* The buffer holds the commands of consecutive steps, the last step's the *)
(* newest, and reaches back to the drive's first step, to the last time it *)
(* was cleared, or to its capacity.                                        *)
BufferInv ==
  /\ \A i \in 1..Len(command_buffer_) : command_buffer_[i] = Oldest + i - 1
  /\ Oldest >= born
  /\ Oldest > cleared
  /\ Len(command_buffer_) < Cap => Oldest = born \/ Oldest = cleared + 1

(* What is held is no newer than any command that was old enough, and no   *)
(* older than the one of the last clearing.                                *)
HeldInv ==
  /\ NeverEarly
  /\ cleared <= last_command_
  /\ cleared < now
  /\ cleared # Zero => cleared >= born
  /\ NeverLate
  /\ ReachesOlder

LineInv == TypeOK /\ BufferInv /\ HeldInv

\* A step whose latency the buffer does not cover leaves the command alone.
LongLatencyHolds == [][total' >= Cap => last_command_' = last_command_]_vars

\* A drive configured with such a latency never takes a command.
NeverStarts == command_latency_ >= Cap => last_command_ = Zero

\* After the push of this step's command the line ends with it.
Line(line) ==
  /\ line \in Seq(Nat)
  /\ Len(line) \in 1..Cap
  /\ \A i \in 1..Len(line) : line[i] = now + i - Len(line)
  /\ now - Len(line) + 1 >= born
  /\ now - Len(line) + 1 > cleared
  /\ Len(line) < Cap => now - Len(line) + 1 = born \/ now - Len(line) = cleared

LEMMA PushLine ==
  ASSUME LineInv
  PROVE  Line(Push(command_buffer_, now))
<1> DEFINE q == command_buffer_
           line == Append(q, now)
<1> USE ActuatorAssumption
<1>1. /\ now \in Nat /\ born \in Nat /\ q \in Seq(Nat) /\ Len(q) \in Nat /\ Len(q) <= Cap
      /\ cleared \in Int
  BY DEF LineInv, TypeOK, Zero
<1>2. /\ line \in Seq(Nat) /\ Len(line) = Len(q) + 1
      /\ \A i \in 1..Len(line) : line[i] = now + i - Len(line)
  BY <1>1 DEF LineInv, BufferInv, Oldest
<1>3. CASE Len(line) > Cap
  <2>1. /\ Tail(line) \in Seq(Nat) /\ Len(Tail(line)) = Len(q) /\ Len(q) = Cap
        /\ \A i \in 1..Len(q) : Tail(line)[i] = line[i + 1]
    BY <1>1, <1>2, <1>3
  <2>2. Push(q, now) = Tail(line)
    BY <1>3 DEF Push
  <2>3. \A i \in 1..Len(q) : Tail(line)[i] = now + i - Len(q)
    <3> SUFFICES ASSUME NEW i \in 1..Len(q) PROVE Tail(line)[i] = now + i - Len(q)
      OBVIOUS
    <3>1. i + 1 \in 1..Len(line) /\ Tail(line)[i] = line[i + 1]
      BY <1>1, <1>2, <2>1
    <3> QED
      BY <1>1, <1>2, <3>1
  <2>4. now - Len(q) + 1 >= born /\ now - Len(q) + 1 > cleared
    BY <1>1 DEF LineInv, BufferInv, Oldest
  <2> DEFINE t == Tail(line)
  <2>5. t \in Seq(Nat) /\ Len(t) = Len(q) /\ \A i \in 1..Len(t) : t[i] = now + i - Len(t)
    BY <2>1, <2>3
  <2>6. Len(t) = Cap
    BY <2>1
  <2> HIDE DEF t
  <2>7. Line(t)
    BY <1>1, <2>1, <2>4, <2>5, <2>6 DEF Line
  <2> QED
    BY <2>2, <2>7 DEF t
<1>4. CASE ~(Len(line) > Cap)
  <2>1. Push(q, now) = line
    BY <1>4 DEF Push
  <2>2. /\ now - Len(line) + 1 >= born /\ now - Len(line) + 1 > cleared
        /\ Len(line) < Cap => now - Len(line) + 1 = born \/ now - Len(line) = cleared
    BY <1>1, <1>2 DEF LineInv, BufferInv, Oldest
  <2> QED
    BY <1>1, <1>2, <1>4, <2>1, <2>2 DEF Line
<1> QED
  BY <1>3, <1>4

(* One case of Pull each: what the line and the held command are after it. *)
\* The step of BeforePhysicsStep up to the pull, which leaves `line` in the
\* buffer, or nothing.
Step(extra) == BeforePhysicsStep(extra) /\ LineInv

LEMMA StepFacts ==
  ASSUME NEW extra \in Extras, Step(extra)
  PROVE  /\ total' \in Nat
         /\ now' = now + 1
         /\ now' \in born..MaxTime
         /\ newest' \in Nat \cup {Zero}
         /\ newest' >= newest /\ newest' >= now - total'
         /\ Cutoff' = now - total'
BY ActuatorAssumption
DEF Step, BeforePhysicsStep, LineInv, TypeOK, Cutoff, Zero

LEMMA PassThroughKeeps ==
  ASSUME NEW extra \in Extras, Step(extra), NEW line, Line(line),
         total' = 0, PassThrough(line)
  PROVE  LineInv'
<1> USE ActuatorAssumption
<1>1. /\ now \in Nat /\ born \in Nat /\ born <= now /\ command_latency_ \in Latencies
      /\ born' = born /\ command_latency_' = command_latency_ /\ born \in 0..MaxTime
  BY DEF Step, BeforePhysicsStep, LineInv, TypeOK
<1>2. line[Len(line)] = now
  BY <1>1 DEF Line
<1>3. /\ last_command_' = now /\ cleared' = now
      /\ command_buffer_' = <<>> /\ Len(command_buffer_') = 0
      /\ command_buffer_' \in Seq(Nat)
  BY <1>2 DEF PassThrough
<1>4. TypeOK'
  BY <1>1, <1>3, StepFacts DEF TypeOK
<1>5. BufferInv'
  BY <1>1, <1>3, StepFacts DEF BufferInv, Oldest
<1>6. HeldInv'
  BY <1>1, <1>3, StepFacts DEF HeldInv, NeverEarly, NeverLate, ReachesOlder, Zero
<1> QED
  BY <1>4, <1>5, <1>6 DEF LineInv

\* Whatever is pulled, the buffer is the line when the latency is positive.
LEMMA LineKeeps ==
  ASSUME NEW extra \in Extras, Step(extra), NEW line, Line(line),
         command_buffer_' = line, cleared' = cleared
  PROVE  BufferInv'
<1> USE ActuatorAssumption
<1>1. /\ now \in Nat /\ born \in Nat /\ cleared \in Int /\ born' = born
  BY DEF Step, BeforePhysicsStep, LineInv, TypeOK, Zero
<1>2. Len(line) \in Nat /\ line \in Seq(Nat)
  BY DEF Line
<1>3. Oldest' = now - Len(line) + 1
  BY <1>1, <1>2, StepFacts DEF Oldest
<1> QED
  BY <1>1, <1>2, <1>3, StepFacts DEF Line, BufferInv

LEMMA WaitKeeps ==
  ASSUME NEW extra \in Extras, Step(extra), NEW line, Line(line),
         total' > now, command_buffer_' = line, UNCHANGED <<last_command_, cleared>>
  PROVE  LineInv'
<1> USE ActuatorAssumption
<1>1. /\ now \in Nat /\ born \in Nat /\ command_latency_ \in Latencies
      /\ last_command_ \in Nat \cup {Zero} /\ cleared \in Nat \cup {Zero}
      /\ newest \in Nat \cup {Zero}
      /\ born' = born /\ command_latency_' = command_latency_ /\ born \in 0..MaxTime
  BY DEF Step, BeforePhysicsStep, LineInv, TypeOK
<1>2. TypeOK'
  BY <1>1, StepFacts DEF TypeOK, Line
<1>3. BufferInv'
  BY LineKeeps
<1>4. HeldInv'
  BY <1>1, StepFacts DEF HeldInv, Step, LineInv, NeverEarly, NeverLate, ReachesOlder, Zero
<1> QED
  BY <1>2, <1>3, <1>4 DEF LineInv

\* Consecutive stamps leave no room for a third one between them.
LEMMA NoGap ==
  ASSUME NEW t \in Nat, NEW n \in Nat, NEW len \in Nat, NEW cutoff \in Nat,
         t + n - len <= cutoff, t + n + 1 - len > cutoff
  PROVE  t + n - len = cutoff
OBVIOUS

(* What a scan of the line finds: the command of the cutoff itself if the  *)
(* line reaches back to it, and nothing otherwise.                         *)
LEMMA ScanFinds ==
  ASSUME NEW step \in Nat, NEW line \in Seq(Nat), NEW cutoff \in Nat, cutoff < step,
         \A i \in 1..Len(line) : line[i] = step + i - Len(line),
         NEW n \in 0..Len(line),
         \A i \in 1..n : line[i] <= cutoff,
         n < Len(line) => line[n + 1] > cutoff
  PROVE  /\ n > 0 => line[n] = cutoff /\ cutoff >= step + 1 - Len(line)
         /\ n = 0 => cutoff < step + 1 - Len(line) \/ Len(line) = 0
<1>1. Len(line) \in Nat /\ n \in Nat /\ n <= Len(line)
  OBVIOUS
<1>2. CASE n = 0
  <2>1. CASE Len(line) = 0
    BY <1>2, <2>1
  <2>2. CASE Len(line) > 0
    <3>1. line[1] = step + 1 - Len(line) /\ line[1] > cutoff
      BY <1>1, <1>2, <2>2
    <3> QED
      BY <1>1, <1>2, <3>1
  <2> QED
    BY <1>1, <2>1, <2>2
<1>3. CASE n > 0
  <2>1. line[n] = step + n - Len(line) /\ line[n] <= cutoff
    BY <1>1, <1>3
  <2>2. CASE n < Len(line)
    <3>1. line[n + 1] = step + n + 1 - Len(line) /\ line[n + 1] > cutoff
      BY <1>1, <2>2
    <3>2. step + n - Len(line) <= cutoff /\ step + n + 1 - Len(line) > cutoff
      BY <2>1, <3>1
    <3>3. step + n - Len(line) = cutoff
      BY <1>1, <3>2, NoGap
    <3>4. line[n] = cutoff
      BY <2>1, <3>3
    <3>5. cutoff >= step + 1 - Len(line)
      BY <1>1, <1>3, <3>3
    <3> QED
      BY <1>3, <3>4, <3>5
  <2>3. CASE n = Len(line)
    BY <1>1, <2>1, <2>3
  <2> QED
    BY <1>1, <2>2, <2>3
<1> QED
  BY <1>1, <1>2, <1>3

LEMMA ScanKeeps ==
  ASSUME NEW extra \in Extras, Step(extra), NEW line, Line(line),
         total' > 0, total' <= now, Scan(line, now - total'), cleared' = cleared
  PROVE  LineInv'
<1> USE ActuatorAssumption
<1>1. PICK t \in Nat : t = total'
  BY StepFacts
<1> DEFINE cutoff == now - t
<1>2. /\ now \in Nat /\ born \in Nat /\ command_latency_ \in Latencies
      /\ last_command_ \in Nat \cup {Zero} /\ cleared \in Nat \cup {Zero}
      /\ newest \in Nat \cup {Zero}
      /\ born' = born /\ command_latency_' = command_latency_ /\ born \in 0..MaxTime
  BY DEF Step, BeforePhysicsStep, LineInv, TypeOK
<1>3. cutoff \in Nat /\ cutoff < now
  <2>1. t > 0 /\ t <= now
    BY <1>1
  <2> QED
    BY <1>2, <2>1
<1>4. /\ line \in Seq(Nat) /\ Len(line) \in 1..Cap
      /\ \A i \in 1..Len(line) : line[i] = now + i - Len(line)
      /\ now - Len(line) + 1 >= born
      /\ now - Len(line) + 1 > cleared
      /\ Len(line) < Cap => now - Len(line) + 1 = born \/ now - Len(line) = cleared
  BY DEF Line
<1>5. PICK n \in 0..Len(line) :
        /\ \A i \in 1..n : line[i] <= cutoff
        /\ n < Len(line) => line[n + 1] > cutoff
        /\ last_command_' = IF n = 0 THEN last_command_ ELSE line[n]
        /\ command_buffer_' = line
  BY <1>1 DEF Scan
<1>6. BufferInv'
  BY <1>5, LineKeeps
<1>7. TypeOK'
  <2>1. last_command_' \in Nat \cup {Zero}
    <3>1. n > 0 => n \in 1..Len(line) /\ line[n] \in Nat
      BY <1>4
    <3> QED
      BY <1>2, <1>5, <3>1
  <2> QED
    BY <1>2, <1>4, <1>5, <2>1, StepFacts DEF TypeOK
<1>8. PICK w \in Nat \cup {Zero} : w = newest' /\ w >= newest /\ w >= cutoff
  BY <1>1, StepFacts
<1>9. Cutoff' = cutoff
  BY <1>1, StepFacts
<1>10. /\ n > 0 => line[n] = cutoff /\ cutoff >= now + 1 - Len(line)
       /\ n = 0 => cutoff < now + 1 - Len(line) \/ Len(line) = 0
  <2> HIDE DEF cutoff
  <2> QED
    BY <1>2, <1>3, <1>4, <1>5, ScanFinds
<1>11. last_command_ <= newest /\ cleared <= last_command_ /\ cleared < now
       /\ (cleared # Zero => cleared >= born)
  BY DEF Step, LineInv, HeldInv, NeverEarly
<1>12. CASE n = 0
  \* Nothing has arrived: the line does not reach back to the cutoff.
  <2>1. t < Cap /\ cutoff >= born => cutoff <= cleared
    BY <1>2, <1>3, <1>4, <1>10, <1>12 DEF Zero
  <2>2. /\ last_command_ <= w
        /\ t < Cap /\ cutoff >= born => last_command_ >= cutoff /\ ~(cutoff > cleared)
        /\ cleared < now + 1
    BY <1>2, <1>3, <1>8, <1>11, <2>1 DEF Zero
  <2>3. last_command_' = last_command_
    BY <1>5, <1>12
  <2>4. HeldInv'
    BY <1>1, <1>2, <1>8, <1>9, <1>11, <2>2, <2>3, StepFacts
    DEF HeldInv, NeverEarly, NeverLate, ReachesOlder
  <2> QED
    BY <1>6, <1>7, <2>4 DEF LineInv
<1>13. CASE n > 0
  <2>1. last_command_' = cutoff
    BY <1>5, <1>10, <1>13
  <2>2. cleared <= cutoff /\ cleared < now + 1
    BY <1>2, <1>3, <1>4, <1>10, <1>13 DEF Zero
  <2>3. last_command_' <= newest' /\ last_command_' >= Cutoff' /\ last_command_' = Cutoff'
    BY <1>3, <1>8, <1>9, <2>1
  <2>4. cleared' <= last_command_' /\ cleared' < now' /\ (cleared' # Zero => cleared' >= born')
    BY <1>2, <1>11, <2>1, <2>2, StepFacts
  <2>5. HeldInv'
    BY <2>3, <2>4 DEF HeldInv, NeverEarly, NeverLate, ReachesOlder
  <2> QED
    BY <1>6, <1>7, <2>5 DEF LineInv
<1> QED
  BY <1>12, <1>13

(* What the line holds and what it holds back is right in every state.     *)
THEOREM LineCorrect == Spec => []LineInv
<1> USE ActuatorAssumption
<1>1. Init => LineInv
  BY DEF Init, LineInv, TypeOK, BufferInv, Oldest, HeldInv, NeverEarly, NeverLate,
         ReachesOlder, Cutoff, Zero
<1>2. LineInv /\ [Next]_vars => LineInv'
  <2> SUFFICES ASSUME LineInv, [Next]_vars PROVE LineInv'
    OBVIOUS
  <2>1. ASSUME NEW extra \in Extras, BeforePhysicsStep(extra) PROVE LineInv'
    <3> DEFINE line == Push(command_buffer_, now)
    <3>1. Step(extra)
      BY <2>1 DEF Step
    <3>2. Line(line)
      BY PushLine
    <3>3. Pull(line, total')
      BY <2>1 DEF BeforePhysicsStep
    <3> HIDE DEF line
    <3>4. CASE total' = 0 /\ PassThrough(line)
      BY <3>1, <3>2, <3>4, PassThroughKeeps
    <3>5. CASE total' > now /\ command_buffer_' = line /\ UNCHANGED <<last_command_, cleared>>
      BY <3>1, <3>2, <3>5, WaitKeeps
    <3>6. CASE total' > 0 /\ total' <= now /\ Scan(line, now - total') /\ UNCHANGED cleared
      BY <3>1, <3>2, <3>6, ScanKeeps
    <3> QED
      BY <3>3, <3>4, <3>5, <3>6 DEF Pull
  <2>2. CASE UNCHANGED vars
    BY <2>2 DEF vars, LineInv, TypeOK, BufferInv, Oldest, HeldInv, NeverEarly, NeverLate,
                ReachesOlder, Cutoff
  <2> QED
    BY <2>1, <2>2 DEF Next, Finished
<1> QED
  BY <1>1, <1>2, PTL DEF Spec

(* No command takes effect before its latency has passed.                  *)
THEOREM NeverTooEarly == Spec => []NeverEarly
<1>1. LineInv => NeverEarly
  BY DEF LineInv, HeldInv
<1> QED
  BY <1>1, LineCorrect, PTL

(* Nor later, while the buffer covers the latency.                         *)
THEOREM NeverTooLate == Spec => []NeverLate
<1>1. LineInv => NeverLate
  BY DEF LineInv, HeldInv
<1> QED
  BY <1>1, LineCorrect, PTL

(* A latency that grows reaches the older command.                         *)
THEOREM AlwaysReachesOlder == Spec => []ReachesOlder
<1>1. LineInv => ReachesOlder
  BY DEF LineInv, HeldInv
<1> QED
  BY <1>1, LineCorrect, PTL

(* The line holds commands with the steps they entered it, in range.       *)
THEOREM LineTypeCorrect == Spec => []TypeOK
<1>1. LineInv => TypeOK
  BY DEF LineInv
<1> QED
  BY <1>1, LineCorrect, PTL
(* Push evicts a command before a latency of kMaxBufferSize steps or more  *)
(* makes it old enough, so Pull finds nothing: the held command stays.     *)
LEMMA EvictedBeforeOldEnough ==
  ASSUME LineInv, NEW extra \in Extras, BeforePhysicsStep(extra), total' >= Cap
  PROVE  last_command_' = last_command_
<1> USE ActuatorAssumption
<1> DEFINE line == Push(command_buffer_, now)
<1>1. Line(line) /\ Pull(line, total')
  BY PushLine DEF BeforePhysicsStep
<1>2. total' \in Nat /\ now \in Nat
  BY StepFacts DEF Step, LineInv, TypeOK
<1> HIDE DEF line
<1>3. CASE total' > now
  BY <1>1, <1>2, <1>3 DEF Pull
<1>4. CASE total' <= now
  <2>1. Scan(line, now - total')
    BY <1>1, <1>2, <1>4 DEF Pull
  <2>2. PICK n \in 0..Len(line) :
          /\ \A i \in 1..n : line[i] <= now - total'
          /\ last_command_' = IF n = 0 THEN last_command_ ELSE line[n]
    BY <2>1 DEF Scan
  <2>3. Len(line) \in 1..Cap /\ line[1] = now + 1 - Len(line)
    BY <1>1 DEF Line
  <2>4. line[1] > now - total'
    BY <1>2, <2>3
  <2>5. n = 0
    <3>1. n > 0 => 1 \in 1..n
      BY <2>3
    <3> QED
      BY <1>2, <2>2, <2>3, <2>4, <3>1
  <2> QED
    BY <2>2, <2>5
<1> QED
  BY <1>2, <1>3, <1>4

(* With a latency of kMaxBufferSize steps or more, configured or made so   *)
(* by the fault, the drive holds the command it last had, however many     *)
(* steps pass: neither later commands nor older ones reach the wheels.     *)
THEOREM LongLatencyHoldsCommand == Spec => LongLatencyHolds
<1>1. LineInv /\ [Next]_vars => [total' >= Cap => last_command_' = last_command_]_vars
  <2> SUFFICES ASSUME LineInv, [Next]_vars, ~ UNCHANGED vars, total' >= Cap
               PROVE  last_command_' = last_command_
    OBVIOUS
  <2>1. PICK extra \in Extras : BeforePhysicsStep(extra)
    BY DEF Next, Finished
  <2> QED
    BY <2>1, EvictedBeforeOldEnough
<1> QED
  BY <1>1, LineCorrect, PTL DEF Spec, LongLatencyHolds

(* So a drive configured with a latency that long never leaves the zero    *)
(* command it was created with.                                            *)
THEOREM LongLatencyNeverStarts == Spec => []NeverStarts
<1> USE ActuatorAssumption
<1>1. Init => NeverStarts
  BY DEF Init, NeverStarts
<1>2. LineInv /\ NeverStarts /\ [Next]_vars => NeverStarts'
  <2> SUFFICES ASSUME LineInv, NeverStarts, [Next]_vars, command_latency_' >= Cap
               PROVE  last_command_' = Zero
    BY DEF NeverStarts
  <2>1. ASSUME NEW extra \in Extras, BeforePhysicsStep(extra) PROVE last_command_' = Zero
    <3>1. /\ command_latency_' = command_latency_ /\ total' = command_latency_ + extra
          /\ command_latency_ \in Nat /\ extra \in Nat
      BY <2>1 DEF BeforePhysicsStep, LineInv, TypeOK
    <3>2. total' >= Cap /\ last_command_ = Zero
      BY <3>1 DEF NeverStarts
    <3> QED
      BY <2>1, <3>2, EvictedBeforeOldEnough
  <2>2. CASE UNCHANGED vars
    BY <2>2 DEF vars, NeverStarts, Zero
  <2> QED
    BY <2>1, <2>2 DEF Next, Finished
<1> QED
  BY <1>1, <1>2, LineCorrect, PTL DEF Spec
=============================================================================
