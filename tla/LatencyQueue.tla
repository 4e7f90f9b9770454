---------------------------- MODULE LatencyQueue ----------------------------
(***************************************************************************)
(* The latency fault of Bumper, Laser and Gps: a sensor buffers each       *)
(* message with the simulation time of its release, flushes the oldest     *)
(* ones when more than kMaxLatencyQueue are buffered, and then releases,   *)
(* oldest first, those whose time has come.                                *)
(*                                                                         *)
(* The three plugins differ in one thing: Bumper drains the queue in every *)
(* physics step, Laser and Gps only when their update timer fires (and     *)
(* Laser only while somebody subscribes).                                  *)
(*                                                                         *)
(* Time is counted in physics steps.  A step buffers at most one message,  *)
(* so its time stamp, the step it was captured in, identifies it.  The     *)
(* delay severity * latency may change from message to message, as the     *)
(* severity ramps or the fault comes and goes; 0 stands for no fault.      *)
(***************************************************************************)
EXTENDS Naturals, Sequences

CONSTANTS
  Cap,      \* kMaxLatencyQueue
  Delays,   \* the delays the fault can cause, 0 among them
  MaxTime   \* bound on the simulation time, for TLC

ASSUME QueueAssumption ==
  /\ Cap \in Nat
  /\ Delays \subseteq Nat
  /\ MaxTime \in Nat

VARIABLES
  sensor,         \* the plugin, chosen once
  now,            \* Timekeeper::GetSimTime()
  latency_queue_, \* buffered messages, oldest first
  published,      \* history: what subscribers received, in order
  sent            \* history: the messages enqueued, in order

vars == <<sensor, now, latency_queue_, published, sent>>

Message == [stamp : Nat, release : Nat]
Publication == [msg : Message, at : Nat]

Sensors == {"Bumper", "Laser", "Gps"}

\* Time stamps and release times stay natural numbers: a release time of
\* DrainLatencyQueue never lies before the simulation began.
TypeOK ==
  /\ sensor \in Sensors
  /\ now \in Nat
  /\ latency_queue_ \in Seq(Message)
  /\ published \in Seq(Publication)
  /\ sent \in Seq(Message)

Init ==
  /\ sensor \in Sensors
  /\ now = 0
  /\ latency_queue_ = <<>>
  /\ published = <<>>
  /\ sent = <<>>

\* Mutant: the queue is not bounded.
LeavesUnbounded(q, n, t) ==
  /\ \A i \in 1..n : q[i].release <= t
  /\ n < Len(q) => q[n + 1].release > t

\* Mutant: the queue is flushed when it is full, not when it is over-full.
LeavesFull(q, n, t) ==
  /\ \A i \in 1..n : i + Cap <= Len(q) + 1 \/ q[i].release <= t
  /\ n < Len(q) => n + Cap >= Len(q) + 1 /\ q[n + 1].release > t

\* Mutant: a message whose time is now stays.
LeavesLate(q, n, t) ==
  /\ \A i \in 1..n : i + Cap <= Len(q) \/ q[i].release < t
  /\ n < Len(q) => n + Cap >= Len(q) /\ q[n + 1].release >= t

\* The loops over the front of queue q at time t let n messages go: the first
\* Len(q) - Cap because the queue is too long, the others because their time
\* has come, up to the first whose time has not.
Leaves(q, n, t) ==
  /\ \A i \in 1..n : i + Cap <= Len(q) \/ q[i].release <= t
  /\ n < Len(q) => n + Cap >= Len(q) /\ q[n + 1].release > t

\* Mutant: the newest message overtakes the others.
DrainReversed(q, t) ==
  \E n \in 0..Len(q) :
    /\ Leaves(q, n, t)
    /\ published' = published \o [i \in 1..n |-> [msg |-> q[n + 1 - i], at |-> t]]
    /\ latency_queue_' = SubSeq(q, n + 1, Len(q))

Drain(q, t) ==
  \E n \in 0..Len(q) :
    /\ Leaves(q, n, t)
    /\ published' = published \o [i \in 1..n |-> [msg |-> q[i], at |-> t]]
    /\ latency_queue_' = SubSeq(q, n + 1, Len(q))

Advance ==
  /\ now < MaxTime
  /\ now' = now + 1
  /\ UNCHANGED sensor

\* The timer fires and the message is enqueued.
Publish(delay) ==
  /\ Advance
  /\ LET m == [stamp |-> now', release |-> now' + delay] IN
       /\ sent' = Append(sent, m)
       /\ Drain(Append(latency_queue_, m), now')

\* The timer fires and the dropout fault skips the message.
Dropout ==
  /\ Advance
  /\ Drain(latency_queue_, now')
  /\ UNCHANGED sent

\* The timer does not fire (or nobody subscribes to the Laser).
NoTick ==
  /\ Advance
  /\ \/ sensor = "Bumper" /\ Drain(latency_queue_, now')
     \/ sensor # "Bumper" /\ UNCHANGED <<latency_queue_, published>>
  /\ UNCHANGED sent

\* The bound on time is reached.
Finished == now = MaxTime /\ UNCHANGED vars

Next ==
  \/ \E delay \in Delays : Publish(delay)
  \/ Dropout
  \/ NoTick
  \/ Finished

Spec == Init /\ [][Next]_vars

----------------------------------------------------------------------------
Messages(s) == [i \in 1..Len(s) |-> s[i].msg]

(* Whatever the delays, no message is lost, duplicated or overtaken: the   *)
(* published ones followed by the buffered ones are those sent, in order.  *)
FifoDelivery == Messages(published) \o latency_queue_ = sent

(* kMaxLatencyQueue bounds the queue.                                      *)
BoundedQueue == Len(latency_queue_) <= Cap

(* fault_injection.md: a message is "only" published "once the Timekeeper  *)
(* sim clock reaches that release time", unless it was pushed out: then at *)
(* least Cap later messages had been captured by then.                     *)
EarlyOnlyWhenFull ==
  \A i \in 1..Len(published) :
    published[i].at < published[i].msg.release =>
      /\ i + Cap <= Len(sent)
      /\ sent[i + Cap].stamp <= published[i].at

(* A Bumper, which drains in every step, never holds a message back once   *)
(* the release times of it and of all those before it have come.           *)
NothingOverdue ==
  sensor = "Bumper" =>
    /\ latency_queue_ # <<>> => latency_queue_[1].release > now
    /\ \A i \in 1..Len(published) :
         \E j \in 1..i : published[i].at <= published[j].msg.release
=============================================================================
