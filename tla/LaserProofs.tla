----------------------------- MODULE LaserProofs -----------------------------
(***************************************************************************)
(* What holds of the laser for every capacity of its queue, every set of   *)
(* delays and any length of time, and for every pool, number of rays, size *)
(* of the clusters and scene.                                              *)
(***************************************************************************)
EXTENDS Laser, SequenceTheorems, WellFoundedInduction, TLAPS

----------------------------------------------------------------------------
(***************************************************************************)
(* The queue of the latency fault.                                         *)
(***************************************************************************)

\* The step's message, if it has one, has been appended to the buffered ones.
Input(q) ==
  \/ q = latency_queue_ /\ sent' = sent
  \/ \E delay \in Delays : LET m == [stamp |-> now', release |-> now' + delay] IN
       q = Append(latency_queue_, m) /\ sent' = Append(sent, m)

\* Nothing is stamped later than now.
StampsPast == \A i \in 1..Len(sent) : sent[i].stamp <= now

(* A drain moves a prefix of its queue to the end of what was published    *)
(* and leaves at most Cap messages.                                        *)
LEMMA DrainMoves ==
  ASSUME published \in Seq(Publication), NEW q \in Seq(Message), NEW t \in Nat, Drain(q, t)
  PROVE  \E n \in 0..Len(q) :
           /\ Leaves(q, n, t)
           /\ published' \in Seq(Publication)
           /\ Len(published') = Len(published) + n
           /\ \A i \in 1..Len(published) : published'[i] = published[i]
           /\ \A i \in 1..n : published'[Len(published) + i] = [msg |-> q[i], at |-> t]
           /\ latency_queue_' \in Seq(Message)
           /\ Len(latency_queue_') = Len(q) - n
           /\ \A i \in 1..(Len(q) - n) : latency_queue_'[i] = q[n + i]
<1>1. PICK n \in 0..Len(q) :
        /\ Leaves(q, n, t)
        /\ published' = published \o [i \in 1..n |-> [msg |-> q[i], at |-> t]]
        /\ latency_queue_' = SubSeq(q, n + 1, Len(q))
  BY DEF Drain
<1> DEFINE gone == [i \in 1..n |-> [msg |-> q[i], at |-> t]]
<1>2. \A i \in 1..n : [msg |-> q[i], at |-> t] \in Publication
  BY <1>1 DEF Publication
<1>3. gone \in Seq(Publication) /\ Len(gone) = n /\ \A i \in 1..n : gone[i] = [msg |-> q[i], at |-> t]
  BY <1>1, <1>2
<1> HIDE DEF gone
<1>4. published' = published \o gone
  BY <1>1 DEF gone
<1>5. /\ published' \in Seq(Publication)
      /\ Len(published') = Len(published) + n
      /\ \A i \in 1..Len(published) : published'[i] = published[i]
      /\ \A i \in 1..n : published'[Len(published) + i] = gone[i]
  BY <1>1, <1>3, <1>4, ConcatProperties
<1>6. /\ latency_queue_' \in Seq(Message)
      /\ Len(latency_queue_') = Len(q) - n
      /\ \A i \in 1..(Len(q) - n) : latency_queue_'[i] = q[n + i]
  BY <1>1, SubSeqProperties
<1> QED
  BY <1>1, <1>3, <1>5, <1>6

(* The messages of a sequence of publications.                             *)
LEMMA MessagesType ==
  ASSUME NEW s \in Seq(Publication)
  PROVE  /\ Messages(s) \in Seq(Message)
         /\ Len(Messages(s)) = Len(s)
         /\ \A i \in 1..Len(s) : Messages(s)[i] = s[i].msg
<1>1. \A i \in 1..Len(s) : s[i].msg \in Message
  <2> TAKE i \in 1..Len(s)
  <2>1. s[i] \in Publication
    BY ElementOfSeq
  <2> QED
    BY <2>1 DEF Publication
<1>2. Messages(s) = [i \in 1..Len(s) |-> s[i].msg]
  BY DEF Messages
<1>3. Len(s) \in Nat
  BY LenProperties
<1> QED
  BY <1>1, <1>2, <1>3

\* Every message sent is at its place, published or buffered.
InPlace(pub, q, snt) ==
  /\ Len(snt) = Len(pub) + Len(q)
  /\ \A i \in 1..Len(pub) : snt[i] = pub[i].msg
  /\ \A i \in 1..Len(q) : snt[Len(pub) + i] = q[i]

(* FifoDelivery, index by index.                                           *)
LEMMA InPlaceIsFifo ==
  ASSUME NEW pub \in Seq(Publication), NEW q \in Seq(Message), NEW snt \in Seq(Message)
  PROVE  InPlace(pub, q, snt) <=> Messages(pub) \o q = snt
<1> DEFINE all == Messages(pub) \o q
<1>1. /\ all \in Seq(Message)
      /\ Len(all) = Len(pub) + Len(q)
      /\ \A i \in 1..Len(pub) : all[i] = pub[i].msg
      /\ \A i \in 1..Len(q) : all[Len(pub) + i] = q[i]
  <2>1. /\ Messages(pub) \in Seq(Message) /\ Len(Messages(pub)) = Len(pub)
        /\ \A i \in 1..Len(pub) : Messages(pub)[i] = pub[i].msg
    BY MessagesType
  <2>2. Len(pub) \in Nat /\ Len(q) \in Nat
    BY LenProperties
  <2>3. /\ all \in Seq(Message)
        /\ Len(all) = Len(Messages(pub)) + Len(q)
        /\ \A i \in 1..Len(Messages(pub)) + Len(q) :
             all[i] = IF i <= Len(Messages(pub)) THEN Messages(pub)[i]
                      ELSE q[i - Len(Messages(pub))]
    BY <2>1, ConcatProperties
  <2> QED
    BY <2>1, <2>2, <2>3
<1> HIDE DEF all
<1>2. ASSUME InPlace(pub, q, snt) PROVE all = snt
  <2>1. ASSUME NEW i \in 1..Len(all) PROVE all[i] = snt[i]
    <3>1. CASE i \in 1..Len(pub)
      BY <1>1, <1>2, <3>1 DEF InPlace
    <3>2. CASE i \notin 1..Len(pub)
      <4>1. i - Len(pub) \in 1..Len(q) /\ Len(pub) + (i - Len(pub)) = i
        BY <1>1, <3>2
      <4> QED
        BY <1>1, <1>2, <4>1 DEF InPlace
    <3> QED
      BY <3>1, <3>2
  <2> QED
    BY <1>1, <1>2, <2>1, SeqEqual DEF InPlace
<1>3. ASSUME all = snt PROVE InPlace(pub, q, snt)
  BY <1>1, <1>3 DEF InPlace
<1> QED
  BY <1>2, <1>3 DEF all

----------------------------------------------------------------------------
QueueInv ==
  /\ TypeOK
  /\ FifoDelivery
  /\ BoundedQueue
  /\ StampsPast
  /\ EarlyOnlyWhenFull
  /\ NothingOverdue

(* What a step buffers is well-typed and keeps every message at its place; *)
(* for a Bumper, none of it was due before this step.                      *)
LEMMA InputInPlace ==
  ASSUME QueueInv, now' = now + 1, NEW q, Input(q)
  PROVE  /\ q \in Seq(Message)
         /\ sent' \in Seq(Message)
         /\ InPlace(published, q, sent')
         /\ StampsPast'
         /\ sensor = "Bumper" /\ q # <<>> => q[1].release >= now'
<1>1. /\ now \in Nat /\ latency_queue_ \in Seq(Message)
      /\ published \in Seq(Publication) /\ sent \in Seq(Message)
  BY DEF QueueInv, TypeOK
<1>2. InPlace(published, latency_queue_, sent)
  BY <1>1, InPlaceIsFifo DEF QueueInv, FifoDelivery
<1>3. sensor = "Bumper" /\ latency_queue_ # <<>> => latency_queue_[1].release > now
  BY DEF QueueInv, NothingOverdue
<1>4. \A i \in 1..Len(sent) : sent[i].stamp \in Nat /\ sent[i].stamp <= now
  <2> TAKE i \in 1..Len(sent)
  <2>1. sent[i] \in Message
    BY <1>1, ElementOfSeq
  <2> QED
    BY <2>1 DEF Message, QueueInv, StampsPast
<1>5. CASE q = latency_queue_ /\ sent' = sent
  <2>1. StampsPast'
    BY <1>4, <1>1, <1>5 DEF StampsPast
  <2>2. q # <<>> => q[1].release \in Nat
    <3> SUFFICES ASSUME q # <<>> PROVE q[1].release \in Nat
      OBVIOUS
    <3>1. q[1] \in Message
      BY <1>1, <1>5, ElementOfSeq
    <3> QED
      BY <3>1 DEF Message
  <2> QED
    BY <1>1, <1>2, <1>3, <1>5, <2>1, <2>2
<1>6. ASSUME NEW delay \in Delays, NEW m,
             m = [stamp |-> now', release |-> now' + delay],
             q = Append(latency_queue_, m), sent' = Append(sent, m)
      PROVE  /\ q \in Seq(Message)
             /\ sent' \in Seq(Message)
             /\ InPlace(published, q, sent')
             /\ StampsPast'
             /\ sensor = "Bumper" /\ q # <<>> => q[1].release >= now'
  <2>1. delay \in Nat /\ m \in Message /\ m.stamp = now' /\ m.release >= now'
    BY <1>1, <1>6, QueueAssumption DEF Message
  <2>2. /\ q \in Seq(Message) /\ Len(q) = Len(latency_queue_) + 1
        /\ \A i \in 1..Len(latency_queue_) : q[i] = latency_queue_[i]
        /\ q[Len(latency_queue_) + 1] = m
    BY <1>1, <1>6, <2>1, AppendProperties
  <2>3. /\ sent' \in Seq(Message) /\ Len(sent') = Len(sent) + 1
        /\ \A i \in 1..Len(sent) : sent'[i] = sent[i]
        /\ sent'[Len(sent) + 1] = m
    BY <1>1, <1>6, <2>1, AppendProperties
  <2>4. InPlace(published, q, sent')
    <3>1. Len(sent') = Len(published) + Len(q)
      BY <1>1, <1>2, <2>2, <2>3 DEF InPlace
    <3>2. \A i \in 1..Len(published) : sent'[i] = published[i].msg
      BY <1>1, <1>2, <2>3 DEF InPlace
    <3>3. ASSUME NEW i \in 1..Len(q) PROVE sent'[Len(published) + i] = q[i]
      <4>1. CASE i \in 1..Len(latency_queue_)
        BY <1>1, <1>2, <2>2, <2>3, <4>1 DEF InPlace
      <4>2. CASE i = Len(latency_queue_) + 1
        BY <1>1, <1>2, <2>2, <2>3, <4>2 DEF InPlace
      <4> QED
        BY <1>1, <2>2, <4>1, <4>2
    <3> QED
      BY <3>1, <3>2, <3>3 DEF InPlace
  <2>5. StampsPast'
    <3> SUFFICES ASSUME NEW i \in 1..Len(sent') PROVE sent'[i].stamp <= now'
      BY DEF StampsPast
    <3>1. CASE i \in 1..Len(sent)
      BY <1>4, <1>1, <2>3, <3>1
    <3>2. CASE i = Len(sent) + 1
      BY <1>1, <2>1, <2>3, <3>2
    <3> QED
      BY <1>1, <2>3, <3>1, <3>2
  <2>6. sensor = "Bumper" => q[1].release >= now'
    <3>1. CASE latency_queue_ = <<>>
      BY <1>1, <2>1, <2>2, <3>1
    <3>2. CASE latency_queue_ # <<>>
      <4>1. q[1] = latency_queue_[1] /\ latency_queue_[1] \in Message
        BY <1>1, <2>2, <3>2
      <4> QED
        BY <1>1, <1>3, <3>2, <4>1 DEF Message
    <3> QED
      BY <3>1, <3>2
  <2> QED
    BY <2>2, <2>3, <2>4, <2>5, <2>6
<1> QED
  BY <1>5, <1>6 DEF Input

(* A drain of what a step has buffered keeps the invariant.                *)
LEMMA DrainKeeps ==
  ASSUME QueueInv, now' = now + 1, UNCHANGED sensor, NEW q, Input(q), Drain(q, now')
  PROVE  QueueInv'
<1>1. /\ now \in Nat /\ now' \in Nat /\ sensor \in Sensors /\ published \in Seq(Publication)
      /\ Cap \in Nat
  BY QueueAssumption DEF QueueInv, TypeOK
<1>2. /\ q \in Seq(Message) /\ sent' \in Seq(Message)
      /\ InPlace(published, q, sent') /\ StampsPast'
      /\ sensor = "Bumper" /\ q # <<>> => q[1].release >= now'
  BY InputInPlace
<1>3. PICK n \in 0..Len(q) :
        /\ Leaves(q, n, now')
        /\ published' \in Seq(Publication)
        /\ Len(published') = Len(published) + n
        /\ \A i \in 1..Len(published) : published'[i] = published[i]
        /\ \A i \in 1..n : published'[Len(published) + i] = [msg |-> q[i], at |-> now']
        /\ latency_queue_' \in Seq(Message)
        /\ Len(latency_queue_') = Len(q) - n
        /\ \A i \in 1..(Len(q) - n) : latency_queue_'[i] = q[n + i]
  BY <1>1, <1>2, DrainMoves
<1>4. TypeOK'
  BY <1>1, <1>2, <1>3 DEF TypeOK
<1>5. /\ Len(q) \in Nat /\ Len(published) \in Nat /\ n \in Nat
      /\ Len(sent') = Len(published) + Len(q)
      /\ \A i \in 1..Len(q) : q[i].release \in Nat
  <2>1. Len(q) \in Nat /\ Len(published) \in Nat /\ n \in Nat
    BY <1>1, <1>2, <1>3, LenProperties
  <2>2. ASSUME NEW i \in 1..Len(q) PROVE q[i].release \in Nat
    <3>1. q[i] \in Message
      BY <1>2, ElementOfSeq
    <3> QED
      BY <3>1 DEF Message
  <2> QED
    BY <1>2, <2>1, <2>2 DEF InPlace
<1>6. \A i \in 1..Len(published') : i \notin 1..Len(published) =>
          \E k \in 1..n : Len(published) + k = i
  <2> SUFFICES ASSUME NEW i \in 1..Len(published'), i \notin 1..Len(published)
               PROVE  \E k \in 1..n : Len(published) + k = i
    OBVIOUS
  <2>1. i \in Nat /\ i <= Len(published) + n /\ i > Len(published)
    BY <1>3, <1>5
  <2>2. i - Len(published) \in 1..n /\ Len(published) + (i - Len(published)) = i
    BY <1>5, <2>1
  <2> QED
    BY <2>2
<1>7. InPlace(published', latency_queue_', sent')
  <2>1. ASSUME NEW i \in 1..Len(published') PROVE sent'[i] = published'[i].msg
    <3>1. CASE i \in 1..Len(published)
      BY <1>2, <1>3, <3>1 DEF InPlace
    <3>2. CASE i \notin 1..Len(published)
      <4>1. PICK k \in 1..n : Len(published) + k = i
        BY <1>6, <3>2
      <4>2. k \in 1..Len(q)
        BY <1>3, <1>5, <4>1
      <4>3. published'[i] = [msg |-> q[k], at |-> now']
        BY <1>3, <4>1
      <4>4. sent'[i] = q[k]
        BY <1>2, <4>1, <4>2 DEF InPlace
      <4> QED
        BY <4>3, <4>4
    <3> QED
      BY <3>1, <3>2
  <2>2. ASSUME NEW i \in 1..Len(latency_queue_')
        PROVE  sent'[Len(published') + i] = latency_queue_'[i]
    <3>1. n + i \in 1..Len(q) /\ Len(published') + i = Len(published) + (n + i)
      BY <1>3, <1>5
    <3> QED
      BY <1>2, <1>3, <3>1 DEF InPlace
  <2> QED
    BY <1>3, <1>5, <2>1, <2>2 DEF InPlace
<1>8. FifoDelivery'
  BY <1>2, <1>3, <1>7, InPlaceIsFifo DEF FifoDelivery
<1>9. BoundedQueue'
  BY <1>1, <1>3, <1>5 DEF BoundedQueue, Leaves
<1>10. EarlyOnlyWhenFull'
  <2> SUFFICES ASSUME NEW i \in 1..Len(published'), published'[i].at < published'[i].msg.release
               PROVE  i + Cap <= Len(sent') /\ sent'[i + Cap].stamp <= published'[i].at
    BY DEF EarlyOnlyWhenFull
  <2>1. CASE i \in 1..Len(published)
    <3>1. i + Cap <= Len(sent) /\ sent[i + Cap].stamp <= published[i].at
      BY <1>3, <2>1 DEF QueueInv, EarlyOnlyWhenFull
    <3>2. Len(sent) <= Len(sent') /\ sent'[i + Cap] = sent[i + Cap]
      <4>1. i + Cap \in 1..Len(sent) /\ sent \in Seq(Message)
        BY <1>1, <2>1, <3>1 DEF QueueInv, TypeOK
      <4>2. CASE sent' = sent
        BY <4>1, <4>2
      <4>3. ASSUME NEW m, sent' = Append(sent, m)
            PROVE  Len(sent) <= Len(sent') /\ sent'[i + Cap] = sent[i + Cap]
        BY <4>1, <4>3
      <4> QED
        BY <4>2, <4>3 DEF Input
    <3> QED
      BY <1>1, <1>3, <1>5, <2>1, <3>1, <3>2 DEF QueueInv, TypeOK
  <2>2. CASE i \notin 1..Len(published)
    <3>1. PICK j \in 1..n : Len(published) + j = i
      BY <1>6, <2>2
    <3>2. published'[i] = [msg |-> q[j], at |-> now']
      BY <1>3, <3>1
    <3>3. j + Cap <= Len(q)
      <4>1. j \in 1..Len(q) /\ q[j].release \in Nat /\ now' < q[j].release
        BY <1>3, <1>5, <3>1, <3>2
      <4>2. j + Cap <= Len(q) \/ q[j].release <= now'
        BY <1>3, <3>1 DEF Leaves
      <4> QED
        BY <1>1, <4>1, <4>2
    <3>4. i + Cap \in 1..Len(sent')
      BY <1>1, <1>5, <3>1, <3>3
    <3> QED
      BY <1>2, <3>2, <3>4 DEF StampsPast
  <2> QED
    BY <2>1, <2>2
<1>11. NothingOverdue'
  <2> SUFFICES ASSUME sensor = "Bumper"
               PROVE  /\ latency_queue_' # <<>> => latency_queue_'[1].release > now'
                      /\ \A i \in 1..Len(published') :
                           \E j \in 1..i : published'[i].at <= published'[j].msg.release
    BY DEF NothingOverdue
  <2>1. latency_queue_' # <<>> => latency_queue_'[1].release > now'
    BY <1>1, <1>3, <1>5 DEF Leaves
  <2>2. ASSUME NEW i \in 1..Len(published')
        PROVE  \E j \in 1..i : published'[i].at <= published'[j].msg.release
    <3>1. CASE i \in 1..Len(published)
      <4>1. PICK j \in 1..i : published[i].at <= published[j].msg.release
        BY <3>1 DEF QueueInv, NothingOverdue
      <4>2. j \in 1..Len(published)
        BY <1>5, <3>1
      <4> QED
        BY <1>3, <3>1, <4>1, <4>2
    <3>2. CASE i \notin 1..Len(published)
      <4>1. PICK k \in 1..n : Len(published) + k = i
        BY <1>6, <3>2
      <4>2. 1 \in 1..n /\ 1 \in 1..Len(q)
        BY <1>3, <1>5, <4>1
      <4>3. published'[i].at = now' /\ published'[Len(published) + 1].msg = q[1]
        <5>1. published'[i] = [msg |-> q[k], at |-> now']
          BY <1>3, <4>1
        <5>2. published'[Len(published) + 1] = [msg |-> q[1], at |-> now']
          BY <1>3, <4>2
        <5> QED
          BY <5>1, <5>2
      <4>4. q[1].release >= now' /\ q[1].release \in Nat
        BY <1>2, <1>5, <4>2
      <4>5. Len(published) + 1 \in 1..i
        BY <1>5, <4>1
      <4> QED
        BY <1>1, <4>3, <4>4, <4>5
    <3> QED
      BY <3>1, <3>2
  <2> QED
    BY <2>1, <2>2
<1> QED
  BY <1>2, <1>4, <1>8, <1>9, <1>10, <1>11 DEF QueueInv
(* The queue invariant holds of every behaviour of the latency fault.      *)
THEOREM QueueCorrect == Spec => []QueueInv
<1>1. Init => QueueInv
  <2> SUFFICES ASSUME Init PROVE QueueInv
    OBVIOUS
  <2>1. TypeOK /\ StampsPast /\ EarlyOnlyWhenFull /\ NothingOverdue
    BY DEF Init, TypeOK, StampsPast, EarlyOnlyWhenFull, NothingOverdue
  <2>2. BoundedQueue
    BY QueueAssumption DEF Init, BoundedQueue
  <2>3. FifoDelivery
    <3>1. InPlace(published, latency_queue_, sent)
      BY DEF Init, InPlace
    <3> QED
      BY <2>1, <3>1, InPlaceIsFifo DEF TypeOK, FifoDelivery
  <2> QED
    BY <2>1, <2>2, <2>3 DEF QueueInv
<1>2. QueueInv /\ [Next]_vars => QueueInv'
  <2> SUFFICES ASSUME QueueInv, [Next]_vars
               PROVE  QueueInv'
    OBVIOUS
  <2>1. ASSUME NEW delay \in Delays, Publish(delay)
        PROVE  QueueInv'
    BY <2>1, DrainKeeps DEF Publish, Advance, Input
  <2>2. CASE Dropout
    BY <2>2, DrainKeeps DEF Dropout, Advance, Input
  <2>3. CASE NoTick
    <3>1. CASE Drain(latency_queue_, now')
      BY <2>3, <3>1, DrainKeeps DEF NoTick, Advance, Input
    <3>2. CASE sensor # "Bumper" /\ UNCHANGED <<latency_queue_, published>>
      <4>1. TypeOK' /\ FifoDelivery' /\ BoundedQueue' /\ EarlyOnlyWhenFull'
        BY <2>3, <3>2 DEF NoTick, Advance, QueueInv, TypeOK, FifoDelivery, BoundedQueue,
                          EarlyOnlyWhenFull
      <4>2. StampsPast'
        <5> SUFFICES ASSUME NEW i \in 1..Len(sent) PROVE sent[i].stamp <= now + 1
          BY <2>3 DEF NoTick, Advance, StampsPast
        <5>1. sent[i] \in Message /\ sent[i].stamp <= now /\ now \in Nat
          BY ElementOfSeq DEF QueueInv, TypeOK, StampsPast
        <5> QED
          BY <5>1 DEF Message
      <4> QED
        BY <2>3, <3>2, <4>1, <4>2 DEF NoTick, Advance, QueueInv, NothingOverdue
    <3> QED
      BY <2>3, <3>1, <3>2 DEF NoTick
  <2>4. CASE Finished \/ UNCHANGED vars
    BY <2>4 DEF Finished, vars, QueueInv, TypeOK, FifoDelivery, BoundedQueue, StampsPast,
                EarlyOnlyWhenFull, NothingOverdue
  <2> QED
    BY <2>1, <2>2, <2>3, <2>4 DEF Next
<1> QED
  BY <1>1, <1>2, PTL DEF Spec

(* No message is lost, duplicated or overtaken, whatever the delays.       *)
THEOREM AlwaysFifo == Spec => []FifoDelivery
<1>1. QueueInv => FifoDelivery
  BY DEF QueueInv
<1> QED
  BY <1>1, QueueCorrect, PTL

(* At most kMaxLatencyQueue messages are buffered.                         *)
THEOREM AlwaysBounded == Spec => []BoundedQueue
<1>1. QueueInv => BoundedQueue
  BY DEF QueueInv
<1> QED
  BY <1>1, QueueCorrect, PTL

(* A message is early only when Cap later ones had been captured.          *)
THEOREM NeverEarlyOtherwise == Spec => []EarlyOnlyWhenFull
<1>1. QueueInv => EarlyOnlyWhenFull
  BY DEF QueueInv
<1> QED
  BY <1>1, QueueCorrect, PTL

(* A Bumper's message is late only behind one that was not due.            *)
THEOREM NeverOverdue == Spec => []NothingOverdue
<1>1. QueueInv => NothingOverdue
  BY DEF QueueInv
<1> QED
  BY <1>1, QueueCorrect, PTL

(* The queue holds messages with their stamps and delays, whatever happens. *)
THEOREM QueueTypeCorrect == Spec => []TypeOK
<1>1. QueueInv => TypeOK
  BY DEF QueueInv
<1> QED
  BY <1>1, QueueCorrect, PTL

----------------------------------------------------------------------------
(***************************************************************************)
(* The scan.                                                               *)
(***************************************************************************)

Surface == [at : 1..range_, mirror : BOOLEAN]
Busy(w) == at[w] \in {"cast", "draw"}
Quiet == pc \in {"publish", "idle", "notifyAll", "join", "deleted"}
Cells == [c \in 1..NbCluster |-> ClusterBegin(c)..ClusterEnd(c)]

\* The clusters that have been enqueued in this scan.
Issued == CASE pc = "enqueue" -> next - 1
            [] pc = "notify" -> next
            [] OTHER -> NbCluster

ScanTypeInv ==
  /\ rays \in RayCounts
  /\ pc \in {"enqueue", "notify", "collect"} \/ Quiet
  /\ next \in Nat
  /\ laser_scan_ \in [1..rays -> Reading]
  /\ scene \in [1..rays -> SUBSET Surface]
  /\ m_lastMaxFractions_ \in [1..rays -> 0..range_]
  /\ rng_ \in 0..Period - 1
  /\ tasks \in Seq(Nat)
  /\ at \in [Workers -> {"test", "wait", "cast", "draw", "exited"}]
  /\ ray \in [Workers -> Int]
  /\ job \in [Workers -> Nat]
  /\ engine \in [Workers -> 0..Period - 1]
  /\ out \in [1..rays -> Reading]

\* A cluster that has been enqueued is in the queue once, or at one worker, or
\* its future is set; the main thread has collected what it has passed.
PoolInv ==
  /\ \A k \in 1..Len(tasks) : tasks[k] \in 1..Issued /\ tasks[k] \notin results
  /\ \A k, l \in 1..Len(tasks) : tasks[k] = tasks[l] => k = l
  /\ \A w \in Workers : Busy(w) => job[w] \in 1..Issued /\ job[w] \notin results
  /\ \A v, w \in Workers : Busy(v) /\ Busy(w) /\ job[v] = job[w] => v = w
  /\ \A w \in Workers : Busy(w) => \A k \in 1..Len(tasks) : tasks[k] # job[w]
  /\ results \subseteq 1..Issued
  /\ pc \in {"enqueue", "notify", "collect"} => next \in 1..NbCluster
  /\ pc = "collect" => 1..(next - 1) \subseteq results
  /\ Quiet => tasks = <<>> /\ \A w \in Workers : ~Busy(w)

\* What the workers have done, and what the main thread has copied, is exact.
ReadInv ==
  /\ \A c \in results : \A i \in Cells[c] : Exact(scene[i], out[i])
  /\ \A w \in Workers : Busy(w) =>
       \A i \in Cells[job[w]] : i < ray[w] => Exact(scene[i], out[i])
  /\ \A w \in Workers : Busy(w) => ClusterBegin(job[w]) <= ray[w]
  /\ \A w \in Workers : at[w] = "draw" =>
       ray[w] \in Cells[job[w]] /\ Exact(scene[ray[w]], out[ray[w]])
  /\ pc = "collect" => \A c \in 1..(next - 1) : \A i \in Cells[c] :
       Exact(scene[i], laser_scan_[i])
  /\ pc = "publish" => \A c \in 1..NbCluster : \A i \in Cells[c] :
       Exact(scene[i], laser_scan_[i])

ScanInv == ScanTypeInv /\ PoolInv /\ ReadInv

----------------------------------------------------------------------------
(* Clusters.                                                               *)
LEMMA Division ==
  ASSUME NEW n \in Nat, NEW s \in Nat \ {0}
  PROVE  /\ n \div s \in Nat
         /\ n % s \in 0..s - 1
         /\ n = s * (n \div s) + (n % s)
OBVIOUS

LEMMA Multiples ==
  ASSUME NEW s \in Nat \ {0}, NEW a \in Int, NEW b \in Int, a < b
  PROVE  s * a + s <= s * b
<1>1. b - a - 1 \in Nat
  OBVIOUS
<1>2. s * (b - a - 1) >= 0
  BY <1>1
<1>3. s * (b - a - 1) = s * b - s * a - s
  OBVIOUS
<1> QED
  BY <1>2, <1>3

LEMMA Intervals ==
  ASSUME NEW a \in Nat, NEW b \in Nat, NEW k \in Int, NEW l \in Int
  PROVE  /\ a + k <= b => a + 1 .. a + k \subseteq 1..b
         /\ a + k <= b => (a + 1 .. a + k) \cap (b + 1 .. b + l) = {}
OBVIOUS

(* The clusters are disjoint and cover the rays.                           *)
LEMMA CellsCover ==
  ASSUME rays \in Nat
  PROVE  /\ NbCluster \in Nat
         /\ \A c \in 1..NbCluster : Cells[c] \subseteq 1..rays
         /\ \A c, d \in 1..NbCluster : c # d => Cells[c] \cap Cells[d] = {}
         /\ \A i \in 1..rays : \E c \in 1..NbCluster : i \in Cells[c]
<1> DEFINE s == ClusterSize
           q == rays \div s
           m == rays % s
<1>1. s \in Nat \ {0}
  BY ScanAssumption
<1>2. q \in Nat /\ m \in 0..s - 1 /\ rays = s * q + m
  BY <1>1, Division
<1>3. NbCluster = (IF m = 0 THEN q ELSE q + 1) /\ NbCluster \in Nat
  BY <1>2 DEF NbCluster
<1>4. \A c \in 1..NbCluster : Cells[c] =
        (c - 1) * s + 1 .. (IF c = NbCluster /\ m # 0 THEN (c - 1) * s + m ELSE c * s)
  <2> SUFFICES ASSUME NEW c \in 1..NbCluster
               PROVE  ClusterEnd(c) =
                        IF c = NbCluster /\ m # 0 THEN (c - 1) * s + m ELSE c * s
    BY DEF Cells, ClusterBegin
  <2>1. (c - 1) * s + s = c * s
    BY <1>1, <1>3
  <2> QED
    BY <2>1 DEF ClusterEnd
<1> HIDE DEF s, q, m
<1>5. \A c \in 1..NbCluster : /\ s * (c - 1) \in Nat
                              /\ (c - 1) * s = s * (c - 1)
                              /\ c * s = s * (c - 1) + s
  BY <1>1, <1>3
<1>6. \A c \in 1..NbCluster : Cells[c] =
        s * (c - 1) + 1 .. s * (c - 1) + (IF c = NbCluster /\ m # 0 THEN m ELSE s)
  BY <1>1, <1>2, <1>3, <1>4, <1>5
<1>7. \A c \in 1..NbCluster : Cells[c] \subseteq 1..rays
  <2> SUFFICES ASSUME NEW c \in 1..NbCluster
               PROVE  Cells[c] \subseteq 1..rays
    OBVIOUS
  <2> DEFINE len == IF c = NbCluster /\ m # 0 THEN m ELSE s
  <2> SUFFICES s * (c - 1) + len <= rays
    <3>1. len \in Int
      BY <1>1, <1>2
    <3>2. Cells[c] = s * (c - 1) + 1 .. s * (c - 1) + len
      BY <1>6
    <3> HIDE DEF len
    <3> QED
      BY <3>1, <3>2, <1>5, Intervals
  <2>1. CASE c = NbCluster /\ m # 0
    BY <2>1, <1>1, <1>2, <1>3
  <2>2. CASE ~(c = NbCluster /\ m # 0)
    <3>1. c - 1 < q /\ c - 1 \in Int
      BY <2>2, <1>2, <1>3
    <3>2. s * (c - 1) + s <= s * q
      BY <3>1, <1>1, <1>2, Multiples
    <3> QED
      BY <2>2, <3>2, <1>1, <1>2, <1>5
  <2> QED
    BY <2>1, <2>2
<1>8. \A c, d \in 1..NbCluster : c < d => Cells[c] \cap Cells[d] = {}
  <2> SUFFICES ASSUME NEW c \in 1..NbCluster, NEW d \in 1..NbCluster, c < d
               PROVE  Cells[c] \cap Cells[d] = {}
    OBVIOUS
  <2>1. s * (c - 1) + s <= s * (d - 1)
    BY <1>1, <1>3, Multiples
  <2>2. Cells[c] = s * (c - 1) + 1 .. s * (c - 1) + s
    BY <1>3, <1>6
  <2> DEFINE len == IF d = NbCluster /\ m # 0 THEN m ELSE s
  <2>3. Cells[d] = s * (d - 1) + 1 .. s * (d - 1) + len /\ len \in Int
    BY <1>1, <1>2, <1>6
  <2> HIDE DEF len
  <2> QED
    BY <2>1, <2>2, <2>3, <1>1, <1>5, Intervals
<1>9. ASSUME NEW i \in 1..rays
      PROVE  \E c \in 1..NbCluster : i \in Cells[c]
  <2> DEFINE k == (i - 1) \div s
             l == (i - 1) % s
  <2>0. i - 1 \in Nat
    OBVIOUS
  <2>1. k \in Nat /\ l \in 0..s - 1 /\ i - 1 = s * k + l
    BY <2>0, <1>1, Division
  <2> HIDE DEF k, l
  <2>2. k <= q
    <3> SUFFICES ASSUME k > q PROVE FALSE
      BY <2>1, <1>2
    <3>1. s * q + s <= s * k
      BY <1>1, <1>2, <2>1, Multiples
    <3>2. s * k \in Int
      BY <1>1, <2>1
    <3> QED
      BY <3>1, <3>2, <2>1, <1>1, <1>2
  <2>3. k + 1 \in 1..NbCluster
    BY <2>1, <2>2, <1>1, <1>2, <1>3
  <2>4. Cells[k + 1] = s * k + 1 .. s * k + (IF k + 1 = NbCluster /\ m # 0 THEN m ELSE s)
    BY <2>1, <2>3, <1>6
  <2>5. i <= s * k + (IF k + 1 = NbCluster /\ m # 0 THEN m ELSE s)
    BY <2>1, <2>2, <2>3, <1>1, <1>2, <1>3
  <2>6. s * k \in Nat
    BY <2>1, <1>1
  <2>7. s * k + 1 <= i
    BY <2>1, <2>6
  <2>8. i \in Cells[k + 1]
    BY <2>4, <2>5, <2>6, <2>7, <1>1, <1>2
  <2> QED
    BY <2>3, <2>8
<1> QED
  BY <1>3, <1>7, <1>8, <1>9

----------------------------------------------------------------------------
(* Rays.  A set of surfaces has a nearest one, unless it is empty.         *)
LEMMA NearestExists ==
  ASSUME NEW S \in SUBSET Surface, S # {}
  PROVE  Nearest(S) # {}
<1> DEFINE T == {s.at : s \in S}
<1>1. T \subseteq Nat /\ T # {}
  BY ScanAssumption DEF Surface
<1>2. PICK x \in T : \A y \in T : ~(<<y, x>> \in OpToRel(<, Nat))
  BY <1>1, NatLessThanWellFounded, WFMin
<1>3. ASSUME NEW y \in T, y < x PROVE FALSE
  BY <1>1, <1>2, <1>3 DEF OpToRel
<1>4. \A y \in T : x <= y
  BY <1>1, <1>3
<1> QED
  BY <1>4 DEF Nearest

(* Wherever the last scan hit and whatever the tree reports, the reading   *)
(* is exact.                                                               *)
LEMMA RayExact ==
  ASSUME NEW S \in SUBSET Surface, NEW last \in 0..range_,
         NEW R \in Reports(Crossed(S, FirstPart(last)))
  PROVE  /\ Exact(S, ReportFixture(R))
         /\ ReportFixture(R) \in Reading
         /\ R # {} => ReportFixture(R).range \in 0..range_
<1> DEFINE fraction == FirstPart(last)
           C == Crossed(S, fraction)
<1>1. fraction \in 0..range_
  BY ScanAssumption DEF FirstPart
<1> HIDE DEF fraction
<1>2. C \subseteq S
  BY DEF Crossed
<1>3. \A s \in S : s.at \in 1..range_
  BY DEF Surface
<1>4. S # {} => C # {}
  BY <1>1, <1>3, ScanAssumption DEF Crossed
<1>5. Nearest(C) = Nearest(S)
  BY <1>1, <1>3, ScanAssumption DEF Crossed, Nearest
<1>6. R \subseteq C /\ Nearest(C) \subseteq R
  BY DEF Reports, fraction
<1> HIDE DEF C
<1>7. Nearest(R) = Nearest(S)
  <2>1. Nearest(S) \subseteq Nearest(R)
    BY <1>2, <1>5, <1>6 DEF Nearest
  <2>2. ASSUME NEW s \in Nearest(R) PROVE s \in Nearest(S)
    <3>1. S # {} /\ s \in S
      BY <1>2, <1>6 DEF Nearest
    <3>2. PICK near \in Nearest(S) : TRUE
      BY <3>1, NearestExists
    <3>3. s.at <= near.at
      BY <1>5, <1>6 DEF Nearest
    <3> QED
      BY <3>1, <3>2, <3>3, <1>3 DEF Nearest
  <2> QED
    BY <2>1, <2>2
<1>8. S = {} <=> R = {}
  BY <1>2, <1>4, <1>5, <1>6, <1>7, NearestExists DEF Nearest
<1>9. R # {} => \A s \in Nearest(S) : ReportFixture(R).range = s.at /\ s.at \in 1..range_
  BY <1>3, <1>7 DEF ReportFixture, Nearest
<1>10. R # {} => Nearest(S) # {}
  BY <1>8, NearestExists
<1>11. R # {} => ReportFixture(R).range \in 1..range_
  BY <1>9, <1>10
<1>12. Exact(S, ReportFixture(R))
  <2>1. S = {} <=> ReportFixture(R).range = NAN
    BY <1>8, <1>11, ScanAssumption DEF ReportFixture
  <2>2. ASSUME NEW s \in Nearest(S)
        PROVE  /\ ReportFixture(R).range = s.at
               /\ s.mirror => ReportFixture(R).intensity = 255
    BY <1>5, <1>6, <1>9 DEF ReportFixture
  <2>3. (\A s \in S : ~s.mirror) => ReportFixture(R).intensity = 0
    BY <1>2, <1>6 DEF ReportFixture
  <2> QED
    BY <2>1, <2>2, <2>3 DEF Exact
<1> QED
  BY <1>11, <1>12, ScanAssumption DEF ReportFixture, Reading

----------------------------------------------------------------------------
LEMMA CellsKept ==
  ASSUME rays' = rays
  PROVE  /\ NbCluster' = NbCluster
         /\ Cells' = Cells
         /\ \A c : ClusterBegin(c)' = ClusterBegin(c) /\ ClusterEnd(c)' = ClusterEnd(c)
BY DEF NbCluster, Cells, ClusterBegin, ClusterEnd

LEMMA BlankTyped == Blank \in Reading
BY ScanAssumption DEF Blank, Reading

(* The types of the scan's variables.                                      *)
LEMMA ScanTypeInit ==
  ASSUME ScanInit
  PROVE  ScanTypeInv
BY BlankTyped, ScanAssumption, EmptySeq DEF ScanInit, ScanTypeInv, Quiet

LEMMA IssuedBound ==
  ASSUME ScanTypeInv, PoolInv
  PROVE  NbCluster \in Nat /\ Issued \in 0..NbCluster
<1>1. NbCluster \in Nat
  BY CellsCover, ScanAssumption DEF ScanTypeInv
<1> QED
  BY <1>1 DEF ScanTypeInv, PoolInv, Issued

(* The ray at hand is one of the worker's cluster.                         *)
LEMMA RayAtHand ==
  ASSUME ScanInv, NEW w \in Workers, at[w] = "cast", ray[w] <= ClusterEnd(job[w])
  PROVE  /\ job[w] \in 1..NbCluster
         /\ ray[w] \in Cells[job[w]]
         /\ ray[w] \in 1..rays
<1>1. job[w] \in 1..NbCluster
  <2>1. NbCluster \in Nat /\ Issued \in 0..NbCluster
    BY IssuedBound DEF ScanInv
  <2>2. job[w] \in 1..Issued
    BY DEF ScanInv, PoolInv, Busy
  <2> QED
    BY <2>1, <2>2
<1>2. ray[w] \in Int /\ ClusterBegin(job[w]) <= ray[w]
  BY DEF ScanInv, ScanTypeInv, ReadInv, Busy
<1>3. Cells[job[w]] = ClusterBegin(job[w])..ClusterEnd(job[w])
  BY <1>1 DEF Cells
<1>4. ray[w] \in Cells[job[w]]
  BY <1>2, <1>3
<1> QED
  BY <1>1, <1>4, CellsCover, ScanAssumption DEF ScanInv, ScanTypeInv

(* What a cast does: the reading it makes is exact.                        *)
LEMMA CastReads ==
  ASSUME ScanInv, NEW w \in Workers, Cast(w)
  PROVE  \E reading \in Reading, k \in 0..range_ :
           /\ Exact(scene[ray[w]], reading)
           /\ out' = [out EXCEPT ![ray[w]] = reading]
           /\ m_lastMaxFractions_' = [m_lastMaxFractions_ EXCEPT ![ray[w]] = k]
           /\ \/ at' = at /\ ray' = [ray EXCEPT ![w] = @ + 1] /\ engine' = engine
              \/ /\ at' = [at EXCEPT ![w] = "draw"]
                 /\ ray' = ray
                 /\ engine' = [engine EXCEPT ![w] = rng_]
<1> DEFINE i == ray[w]
           S == scene[i]
           last == m_lastMaxFractions_[i]
<1>1. i \in 1..rays
  BY RayAtHand DEF Cast
<1>2. S \in SUBSET Surface /\ last \in 0..range_
  BY <1>1 DEF ScanInv, ScanTypeInv
<1>3. PICK R \in Reports(Crossed(S, FirstPart(last))) :
        /\ out' = [out EXCEPT ![i] = ReportFixture(R)]
        /\ m_lastMaxFractions_' = [m_lastMaxFractions_ EXCEPT ![i] =
             IF R = {} THEN 0 ELSE ReportFixture(R).range]
        /\ \/ at' = at /\ ray' = [ray EXCEPT ![w] = @ + 1] /\ engine' = engine
           \/ /\ at' = [at EXCEPT ![w] = "draw"]
              /\ ray' = ray
              /\ engine' = [engine EXCEPT ![w] = rng_]
  BY Zenon DEF Cast
<1> HIDE DEF S, last
<1>4. /\ Exact(S, ReportFixture(R))
      /\ ReportFixture(R) \in Reading
      /\ R # {} => ReportFixture(R).range \in 0..range_
  BY <1>2, RayExact
<1> DEFINE k == IF R = {} THEN 0 ELSE ReportFixture(R).range
<1>5. k \in 0..range_
  BY <1>4, ScanAssumption
<1> QED
  BY <1>3, <1>4, <1>5 DEF S

LEMMA ScanTypeStep ==
  ASSUME ScanInv, [ScanNext]_scanVars
  PROVE  ScanTypeInv'
<1> SUFFICES ASSUME ScanTypeInv PROVE ScanTypeInv'
  BY DEF ScanInv
<1> USE DEF ScanTypeInv, Quiet, mainVars, poolVars, rayVars, workVars
<1>0. rays \in Nat
  BY ScanAssumption
<1>1. CASE StartScan
  <2>1. \A s \in Scenes : [i \in 1..rays |-> s[i]] \in [1..rays -> SUBSET Surface]
    BY ScanAssumption DEF Surface
  <2> QED
    BY <1>1, <2>1 DEF StartScan
<1>2. CASE Enqueue
  BY <1>2, AppendProperties DEF Enqueue
<1>3. CASE NotifyOne
  <2>1. at' \in [Workers -> {"test", "wait", "cast", "draw", "exited"}]
    BY <1>3 DEF NotifyOne, WakeOne
  <2>2. next' \in Nat /\ pc' \in {"enqueue", "notify", "collect"}
    BY <1>3 DEF NotifyOne
  <2> QED
    BY <1>3, <2>1, <2>2 DEF NotifyOne
<1>4. CASE Collect
  BY <1>4 DEF Collect
<1>5. CASE NotifyAll
  BY <1>5 DEF NotifyAll
<1>6. CASE Join
  BY <1>6 DEF Join
<1>7. CASE StopPool
  BY <1>7 DEF StopPool
<1>8. CASE ScanPublished
  BY <1>8 DEF ScanPublished
<1>9. ASSUME NEW w \in Workers, Sleep(w) \/ SpuriousWakeup(w) \/ Exit(w)
      PROVE  ScanTypeInv'
  BY <1>9 DEF Sleep, SpuriousWakeup, Exit
<1>10. ASSUME NEW w \in Workers, Take(w)
       PROVE  ScanTypeInv'
  <2>1. Head(tasks) \in Nat /\ Tail(tasks) \in Seq(Nat)
    BY <1>10, HeadTailProperties DEF Take
  <2>2. ClusterBegin(Head(tasks)) \in Int
    BY ScanAssumption, <2>1 DEF ClusterBegin
  <2> QED
    BY <1>10, <2>1, <2>2 DEF Take
<1>11. ASSUME NEW w \in Workers, Cast(w)
       PROVE  ScanTypeInv'
  <2>1. PICK reading \in Reading, k \in 0..range_ :
          /\ out' = [out EXCEPT ![ray[w]] = reading]
          /\ m_lastMaxFractions_' = [m_lastMaxFractions_ EXCEPT ![ray[w]] = k]
          /\ \/ at' = at /\ ray' = [ray EXCEPT ![w] = @ + 1] /\ engine' = engine
             \/ /\ at' = [at EXCEPT ![w] = "draw"]
                /\ ray' = ray
                /\ engine' = [engine EXCEPT ![w] = rng_]
    BY <1>11, CastReads
  <2>2. out' \in [1..rays -> Reading] /\ m_lastMaxFractions_' \in [1..rays -> 0..range_]
    BY <2>1
  <2>3. /\ at' \in [Workers -> {"test", "wait", "cast", "draw", "exited"}]
        /\ ray' \in [Workers -> Int]
        /\ engine' \in [Workers -> 0..Period - 1]
    <3>1. CASE at' = at /\ ray' = [ray EXCEPT ![w] = @ + 1] /\ engine' = engine
      BY <3>1
    <3>2. CASE /\ at' = [at EXCEPT ![w] = "draw"]
               /\ ray' = ray
               /\ engine' = [engine EXCEPT ![w] = rng_]
      BY <3>2
    <3> QED
      BY <2>1, <3>1, <3>2
  <2> QED
    BY <1>11, <2>2, <2>3 DEF Cast
<1>12. ASSUME NEW w \in Workers, Draw(w)
       PROVE  ScanTypeInv'
  <2>1. engine[w] \in 0..Period - 1
    OBVIOUS
  <2>2. (engine[w] + 1) % Period \in 0..Period - 1
    <3>1. engine[w] + 1 \in Nat
      BY <2>1, ScanAssumption
    <3> QED
      BY <3>1, ScanAssumption, Division
  <2>3. out' \in [1..rays -> Reading]
    <3>1. \A r \in Reading : [r EXCEPT !.noise = engine[w]] \in Reading
      BY <2>1 DEF Reading
    <3>2. out' = [out EXCEPT ![ray[w]] = [out[ray[w]] EXCEPT !.noise = engine[w]]]
      BY <1>12 DEF Draw
    <3> QED
      BY <3>1, <3>2
  <2>4. /\ at' \in [Workers -> {"test", "wait", "cast", "draw", "exited"}]
        /\ ray' \in [Workers -> Int]
    BY <1>12 DEF Draw
  <2> QED
    BY <1>12, <2>2, <2>3, <2>4 DEF Draw
<1>13. ASSUME NEW w \in Workers, Finish(w)
       PROVE  ScanTypeInv'
  BY <1>13 DEF Finish
<1>14. CASE UNCHANGED scanVars
  BY <1>14 DEF scanVars
<1> QED
  BY <1>1, <1>2, <1>3, <1>4, <1>5, <1>6, <1>7, <1>8, <1>9, <1>10, <1>11, <1>12, <1>13, <1>14
  DEF ScanNext, Scanning, MainStep, Work, LaserGone

----------------------------------------------------------------------------
(* The pool.                                                               *)
LEMMA PoolInit ==
  ASSUME ScanInit
  PROVE  PoolInv
BY EmptySeq DEF ScanInit, PoolInv, Busy, Quiet

(* A step that leaves the queue, the futures and the busy workers as they  *)
(* are keeps PoolInv if the main thread stays or stays quiet.              *)
LEMMA PoolKept ==
  ASSUME PoolInv, rays' = rays, next' = next, UNCHANGED <<tasks, job, results>>,
         pc' = pc \/ (Quiet /\ Quiet'),
         \A w \in Workers : Busy(w)' <=> Busy(w)
  PROVE  PoolInv'
<1>1. NbCluster' = NbCluster
  BY CellsKept
<1>2. Issued' = Issued
  BY <1>1 DEF Issued, Quiet
<1> QED
  BY <1>1, <1>2 DEF PoolInv, Quiet

LEMMA PoolEnqueue ==
  ASSUME ScanInv, Enqueue
  PROVE  PoolInv'
<1> USE DEF poolVars, rayVars, workVars
<1>1. /\ NbCluster' = NbCluster
      /\ next \in 1..NbCluster
      /\ NbCluster \in Nat
  BY CellsKept, IssuedBound DEF Enqueue, ScanInv, PoolInv
<1>2. Issued = next - 1 /\ Issued' = next
  BY DEF Enqueue, Issued
<1>3. tasks \in Seq(Nat) /\ next \in Nat
  BY DEF ScanInv, ScanTypeInv
<1>4. /\ Len(tasks') = Len(tasks) + 1
      /\ \A k \in 1..Len(tasks) : tasks'[k] = tasks[k]
      /\ tasks'[Len(tasks) + 1] = next
  BY <1>3, AppendProperties DEF Enqueue
<1>5. \A w \in Workers : Busy(w)' <=> Busy(w)
  BY DEF Enqueue, Busy
<1>6. next \notin results /\ \A k \in 1..Len(tasks) : tasks[k] < next /\ tasks[k] \in Nat
  BY <1>2, <1>3 DEF ScanInv, PoolInv
<1>7. \A w \in Workers : Busy(w) => job[w] < next
  BY <1>2, <1>3 DEF ScanInv, PoolInv
<1>8. \A k \in 1..Len(tasks') : k \in 1..Len(tasks) \/ k = Len(tasks) + 1
  BY <1>3, <1>4
<1>9. \A k \in 1..Len(tasks') : tasks'[k] \in 1..next /\ tasks'[k] \notin results'
  BY <1>1, <1>2, <1>3, <1>4, <1>6, <1>8 DEF ScanInv, PoolInv, Enqueue
<1>10. \A k, l \in 1..Len(tasks') : tasks'[k] = tasks'[l] => k = l
  BY <1>3, <1>4, <1>6, <1>8 DEF ScanInv, PoolInv
<1>11. \A w \in Workers : Busy(w)' => job'[w] \in 1..Issued' /\ job'[w] \notin results'
  BY <1>2, <1>3, <1>5 DEF ScanInv, PoolInv, Enqueue
<1>12. \A v, w \in Workers : Busy(v)' /\ Busy(w)' /\ job'[v] = job'[w] => v = w
  BY <1>5 DEF ScanInv, PoolInv, Enqueue
<1>13. \A w \in Workers : Busy(w)' => \A k \in 1..Len(tasks') : tasks'[k] # job'[w]
  BY <1>3, <1>4, <1>5, <1>7, <1>8 DEF ScanInv, PoolInv, Enqueue
<1>14. results' \subseteq 1..Issued'
  BY <1>2, <1>3 DEF ScanInv, PoolInv, Enqueue
<1>15. pc' = "notify" /\ ~Quiet'
  BY DEF Enqueue, Quiet
<1> QED
  BY <1>1, <1>2, <1>9, <1>10, <1>11, <1>12, <1>13, <1>14, <1>15 DEF PoolInv, Enqueue

LEMMA PoolTake ==
  ASSUME ScanInv, NEW w \in Workers, Take(w)
  PROVE  PoolInv'
<1> USE DEF mainVars, rayVars
<1>1. /\ NbCluster' = NbCluster
      /\ Issued' = Issued
  BY CellsKept DEF Take, Issued
<1>2. tasks \in Seq(Nat) /\ tasks # <<>>
  BY DEF ScanInv, ScanTypeInv, Take
<1>3. /\ Len(tasks') = Len(tasks) - 1
      /\ \A k \in 1..Len(tasks') : tasks'[k] = tasks[k + 1]
      /\ Len(tasks) \in Nat /\ Len(tasks) >= 1
      /\ Head(tasks) = tasks[1]
  BY <1>2, HeadTailProperties, LenProperties, EmptySeq DEF Take
<1>4. \A k \in 1..Len(tasks') : k + 1 \in 1..Len(tasks) /\ k + 1 # 1
  BY <1>3
<1>5. /\ \A v \in Workers : v # w => (Busy(v)' <=> Busy(v)) /\ job'[v] = job[v]
      /\ job'[w] = tasks[1] /\ ~Busy(w)
      /\ results' = results
  BY <1>3 DEF Take, Busy, ScanInv, ScanTypeInv
<1>6. 1 \in 1..Len(tasks)
  BY <1>3
<1>7. \A k \in 1..Len(tasks') : tasks'[k] \in 1..Issued' /\ tasks'[k] \notin results'
  BY <1>1, <1>3, <1>4, <1>5 DEF ScanInv, PoolInv
<1>8. \A k, l \in 1..Len(tasks') : tasks'[k] = tasks'[l] => k = l
  <2> SUFFICES ASSUME NEW k \in 1..Len(tasks'), NEW l \in 1..Len(tasks'), tasks'[k] = tasks'[l]
               PROVE  k = l
    OBVIOUS
  <2>1. k + 1 = l + 1
    BY <1>3, <1>4 DEF ScanInv, PoolInv
  <2> QED
    BY <2>1
<1>9. \A v \in Workers : Busy(v)' => job'[v] \in 1..Issued' /\ job'[v] \notin results'
  BY <1>1, <1>5, <1>6 DEF ScanInv, PoolInv
<1>10. \A u, v \in Workers : Busy(u)' /\ Busy(v)' /\ job'[u] = job'[v] => u = v
  BY <1>5, <1>6 DEF ScanInv, PoolInv
<1>11. \A v \in Workers : Busy(v)' => \A k \in 1..Len(tasks') : tasks'[k] # job'[v]
  <2> SUFFICES ASSUME NEW v \in Workers, Busy(v)', NEW k \in 1..Len(tasks')
               PROVE  tasks[k + 1] # job'[v]
    BY <1>3
  <2>1. CASE v = w
    BY <2>1, <1>4, <1>5, <1>6 DEF ScanInv, PoolInv
  <2>2. CASE v # w
    BY <2>2, <1>4, <1>5 DEF ScanInv, PoolInv
  <2> QED
    BY <2>1, <2>2
<1>12. ~Quiet
  BY <1>2 DEF ScanInv, PoolInv
<1> QED
  BY <1>1, <1>5, <1>7, <1>8, <1>9, <1>10, <1>11, <1>12 DEF ScanInv, PoolInv, Take, Quiet

LEMMA PoolFinish ==
  ASSUME ScanInv, NEW w \in Workers, Finish(w)
  PROVE  PoolInv'
<1> USE DEF mainVars, poolVars, rayVars
<1>1. /\ NbCluster' = NbCluster
      /\ Issued' = Issued
  BY CellsKept DEF Finish, Issued
<1>2. /\ \A v \in Workers : Busy(v)' <=> Busy(v) /\ v # w
      /\ Busy(w)
      /\ results' = results \cup {job[w]}
      /\ UNCHANGED <<pc, next, tasks, job>>
  BY DEF Finish, Busy, ScanInv, ScanTypeInv
<1>3. job[w] \in 1..Issued
  BY <1>2 DEF ScanInv, PoolInv
<1>4. \A k \in 1..Len(tasks') : tasks'[k] \in 1..Issued' /\ tasks'[k] \notin results'
  BY <1>1, <1>2 DEF ScanInv, PoolInv
<1>5. \A v \in Workers : Busy(v)' => job'[v] \in 1..Issued' /\ job'[v] \notin results'
  BY <1>1, <1>2 DEF ScanInv, PoolInv
<1>6. results' \subseteq 1..Issued'
  BY <1>1, <1>2, <1>3 DEF ScanInv, PoolInv
<1>7. ~Quiet
  BY <1>2 DEF ScanInv, PoolInv
<1> QED
  BY <1>1, <1>2, <1>4, <1>5, <1>6, <1>7 DEF ScanInv, PoolInv, Quiet

LEMMA PoolStep ==
  ASSUME ScanInv, [ScanNext]_scanVars
  PROVE  PoolInv'
<1> USE DEF mainVars, poolVars, rayVars, workVars
<1>0. PoolInv /\ NbCluster \in Nat
  BY IssuedBound DEF ScanInv
<1>1. CASE StartScan
  <2>1. NbCluster' = NbCluster
    BY <1>1, CellsKept DEF StartScan
  <2>2. tasks' = <<>> /\ (\A w \in Workers : ~Busy(w)') /\ results' = {} /\ next' = 1
    BY <1>0, <1>1 DEF StartScan, PoolInv, Quiet, Busy
  <2>3. pc' = IF NbCluster = 0 THEN "publish" ELSE "enqueue"
    BY <1>1 DEF StartScan
  <2>4. Len(tasks') = 0
    BY <2>2, EmptySeq
  <2> QED
    BY <1>0, <2>1, <2>2, <2>3, <2>4 DEF PoolInv, Quiet
<1>2. CASE Enqueue
  BY <1>2, PoolEnqueue
<1>3. CASE NotifyOne
  <2>1. NbCluster' = NbCluster
    BY <1>3, CellsKept DEF NotifyOne
  <2>2. next \in 1..NbCluster /\ Issued = next
    BY <1>0, <1>3 DEF NotifyOne, PoolInv, Issued
  <2>3. Issued' = Issued
    BY <1>0, <1>3, <2>1, <2>2 DEF NotifyOne, Issued
  <2>4. \A w \in Workers : Busy(w)' <=> Busy(w)
    <3>1. at \in [Workers -> {"test", "wait", "cast", "draw", "exited"}]
      BY DEF ScanInv, ScanTypeInv
    <3> QED
      BY <1>3, <3>1 DEF NotifyOne, WakeOne, Busy
  <2>5. /\ pc' \in {"enqueue", "collect"} /\ ~Quiet' /\ next' \in 1..NbCluster
        /\ pc' = "collect" => next' = 1
    BY <1>0, <1>3, <2>2 DEF NotifyOne, Quiet
  <2>6. pc' = "collect" => 1..(next' - 1) \subseteq results'
    BY <2>5
  <2> QED
    BY <1>0, <1>3, <2>1, <2>3, <2>4, <2>5, <2>6 DEF PoolInv, NotifyOne
<1>4. CASE Collect
  <2>1. NbCluster' = NbCluster /\ Issued = NbCluster /\ Issued' = NbCluster
    BY <1>4, CellsKept DEF Collect, Issued
  <2>2. next \in 1..NbCluster /\ 1..next \subseteq results
    BY <1>0, <1>4 DEF Collect, PoolInv
  <2>3. \A w \in Workers : Busy(w)' <=> Busy(w)
    BY <1>4 DEF Collect, Busy
  <2>4. CASE next < NbCluster
    BY <1>0, <1>4, <2>1, <2>2, <2>3, <2>4 DEF Collect, PoolInv, Quiet
  <2>5. CASE ~(next < NbCluster)
    <3>1. 1..NbCluster \subseteq results
      BY <1>0, <2>2, <2>5
    <3>2. \A w \in Workers : ~Busy(w)
      BY <1>0, <2>1, <3>1 DEF PoolInv
    <3>3. tasks = <<>>
      <4>1. \A k \in 1..Len(tasks) : FALSE
        BY <1>0, <2>1, <3>1 DEF PoolInv
      <4>2. Len(tasks) \in Nat /\ (Len(tasks) = 0 => tasks = <<>>)
        BY EmptySeq, LenProperties DEF ScanInv, ScanTypeInv
      <4> QED
        BY <4>1, <4>2
    <3>4. pc' = "publish"
      BY <1>4, <2>5 DEF Collect
    <3> QED
      BY <1>0, <1>4, <2>1, <2>3, <3>2, <3>3, <3>4 DEF Collect, PoolInv, Quiet
  <2> QED
    BY <2>4, <2>5
<1>5. CASE NotifyAll \/ Join \/ StopPool \/ ScanPublished
  <2>1. Quiet /\ Quiet' /\ rays' = rays /\ next' = next /\ UNCHANGED <<tasks, job, results>>
    BY <1>5 DEF NotifyAll, Join, StopPool, ScanPublished, Quiet
  <2>2. \A w \in Workers : Busy(w)' <=> Busy(w)
    <3>1. at \in [Workers -> {"test", "wait", "cast", "draw", "exited"}]
      BY DEF ScanInv, ScanTypeInv
    <3> QED
      BY <1>5, <3>1 DEF NotifyAll, Join, StopPool, ScanPublished, Busy
  <2> QED
    BY <1>0, <2>1, <2>2, PoolKept
<1>6. ASSUME NEW w \in Workers, Sleep(w) \/ SpuriousWakeup(w) \/ Exit(w) \/ Cast(w) \/ Draw(w)
      PROVE  PoolInv'
  <2>1. rays' = rays /\ next' = next /\ pc' = pc /\ UNCHANGED <<tasks, job, results>>
    BY <1>6 DEF Sleep, SpuriousWakeup, Exit, Cast, Draw
  <2>2. \A v \in Workers : Busy(v)' <=> Busy(v)
    <3>1. at \in [Workers -> {"test", "wait", "cast", "draw", "exited"}]
      BY DEF ScanInv, ScanTypeInv
    <3>2. CASE Sleep(w) \/ SpuriousWakeup(w) \/ Exit(w) \/ Draw(w)
      BY <3>1, <3>2 DEF Sleep, SpuriousWakeup, Exit, Draw, Busy
    <3>3. CASE Cast(w)
      <4>1. at' = at \/ at' = [at EXCEPT ![w] = "draw"]
        BY <3>3, CastReads
      <4>2. at[w] = "cast"
        BY <3>3 DEF Cast
      <4> QED
        BY <3>1, <4>1, <4>2 DEF Busy
    <3> QED
      BY <1>6, <3>2, <3>3
  <2> QED
    BY <1>0, <2>1, <2>2, PoolKept
<1>7. ASSUME NEW w \in Workers, Take(w)
      PROVE  PoolInv'
  BY <1>7, PoolTake
<1>8. ASSUME NEW w \in Workers, Finish(w)
      PROVE  PoolInv'
  BY <1>8, PoolFinish
<1>9. CASE UNCHANGED scanVars
  <2>1. \A w \in Workers : Busy(w)' <=> Busy(w)
    BY <1>9 DEF scanVars, Busy
  <2> QED
    BY <1>0, <1>9, <2>1, PoolKept DEF scanVars
<1> QED
  BY <1>1, <1>2, <1>3, <1>4, <1>5, <1>6, <1>7, <1>8, <1>9
  DEF ScanNext, Scanning, MainStep, Work, LaserGone

----------------------------------------------------------------------------
(* The readings.                                                           *)
LEMMA ReadInit ==
  ASSUME ScanInit
  PROVE  ReadInv
BY DEF ScanInit, ReadInv, Busy

LEMMA ReadKept ==
  ASSUME ReadInv, UNCHANGED <<rays, scene, out, laser_scan_, job, ray, results>>,
         \A w \in Workers : at'[w] = at[w] \/ at'[w] \notin {"cast", "draw"},
         pc' = "collect" => next' = 1 \/ (pc = "collect" /\ next' = next),
         pc' = "publish" => pc = "publish"
  PROVE  ReadInv'
<1>1. NbCluster' = NbCluster /\ Cells' = Cells /\ \A c : ClusterBegin(c)' = ClusterBegin(c)
  BY CellsKept
<1>2. \A w \in Workers : Busy(w)' => Busy(w) /\ at'[w] = at[w]
  BY DEF Busy
<1>3. \A w \in Workers : at'[w] = "draw" => at[w] = "draw"
  OBVIOUS
<1>4. next' = 1 => 1..(next' - 1) = {}
  OBVIOUS
<1> QED
  BY <1>1, <1>2, <1>3, <1>4 DEF ReadInv, ClusterBegin

(* A worker writes the reading of the ray at hand: the rays of the other   *)
(* clusters are not touched.                                               *)
LEMMA ReadWrite ==
  ASSUME ScanInv, NEW w \in Workers, Busy(w), NEW x,
         ray[w] \in Cells[job[w]], ray[w] \in 1..rays, Exact(scene[ray[w]], x),
         out' = [out EXCEPT ![ray[w]] = x],
         UNCHANGED <<rays, pc, next, scene, laser_scan_, job, results>>,
         \/ at' = [at EXCEPT ![w] = "draw"] /\ ray' = ray
         \/ at' = [at EXCEPT ![w] = "cast"] /\ ray' = [ray EXCEPT ![w] = @ + 1]
  PROVE  ReadInv'
<1> DEFINE r == ray[w]
<1>0. /\ ScanTypeInv /\ PoolInv /\ ReadInv
      /\ NbCluster \in Nat /\ Issued \in 0..NbCluster
      /\ rays \in Nat
  BY IssuedBound, ScanAssumption DEF ScanInv, ScanTypeInv
<1>1. Cells' = Cells /\ NbCluster' = NbCluster
  BY CellsKept
<1>2. /\ \A v \in Workers : v # w => ray'[v] = ray[v] /\ at'[v] = at[v]
      /\ \A v \in Workers : Busy(v)' <=> Busy(v)
  BY <1>0 DEF ScanTypeInv, Busy
<1>3. out'[r] = x /\ \A i \in 1..rays : i # r => out'[i] = out[i]
  BY <1>0 DEF ScanTypeInv
<1>4. ASSUME NEW c \in 1..NbCluster, c # job[w]
      PROVE  \A i \in Cells[c] : out'[i] = out[i]
  <2>1. job[w] \in 1..NbCluster
    BY <1>0 DEF PoolInv
  <2>2. Cells[c] \cap Cells[job[w]] = {} /\ Cells[c] \subseteq 1..rays
    BY <1>0, <1>4, <2>1, CellsCover
  <2> QED
    BY <2>2, <1>3
<1>5. job[w] \in 1..NbCluster /\ Cells[job[w]] \subseteq 1..rays /\ Cells[job[w]] \subseteq Int
  BY <1>0, CellsCover DEF PoolInv
<1>6. \A c \in results' : \A i \in Cells'[c] : Exact(scene'[i], out'[i])
  <2>1. \A c \in results : c \in 1..NbCluster /\ c # job[w]
    BY <1>0 DEF PoolInv
  <2> QED
    BY <2>1, <1>0, <1>1, <1>4 DEF ReadInv
<1>7. \A v \in Workers : Busy(v)' => \A i \in Cells'[job'[v]] : i < ray'[v] => Exact(scene'[i], out'[i])
  <2> SUFFICES ASSUME NEW v \in Workers, Busy(v), NEW i \in Cells[job[v]], i < ray'[v]
               PROVE  Exact(scene[i], out'[i])
    BY <1>1, <1>2
  <2>1. CASE v # w
    <3>1. job[v] \in 1..NbCluster /\ job[v] # job[w]
      BY <2>1, <1>0 DEF PoolInv
    <3>2. Exact(scene[i], out[i])
      BY <2>1, <1>0, <1>2 DEF ReadInv
    <3> QED
      BY <3>1, <3>2, <1>4
  <2>2. CASE v = w /\ i # r
    <3>1. i \in Int /\ r \in Int /\ (ray'[w] = r \/ ray'[w] = r + 1)
      BY <2>2, <1>0, <1>5 DEF ScanTypeInv
    <3>2. i < r
      BY <2>2, <3>1
    <3> QED
      BY <2>2, <3>2, <1>0, <1>3, <1>5 DEF ReadInv
  <2>3. CASE v = w /\ i = r
    BY <2>3, <1>3
  <2> QED
    BY <2>1, <2>2, <2>3
<1>8. \A v \in Workers : Busy(v)' => ClusterBegin(job'[v]) <= ray'[v]
  <2>1. ClusterBegin(job[w]) \in Int /\ r \in Int
    BY <1>0, <1>5, ScanAssumption DEF ScanTypeInv, ClusterBegin
  <2>2. ray'[w] = r \/ ray'[w] = r + 1
    BY <1>0 DEF ScanTypeInv
  <2>3. ClusterBegin(job[w]) <= ray'[w]
    BY <2>1, <2>2, <1>0 DEF ReadInv
  <2> QED
    BY <2>3, <1>0, <1>2 DEF ReadInv
<1>9. \A v \in Workers : at'[v] = "draw" =>
        ray'[v] \in Cells'[job'[v]] /\ Exact(scene'[ray'[v]], out'[ray'[v]])
  <2> SUFFICES ASSUME NEW v \in Workers, at'[v] = "draw"
               PROVE  ray'[v] \in Cells[job[v]] /\ Exact(scene[ray'[v]], out'[ray'[v]])
    BY <1>1
  <2>1. CASE v # w
    <3>1. Busy(v) /\ at[v] = "draw" /\ ray'[v] = ray[v]
      BY <2>1, <1>2 DEF Busy
    <3>2. job[v] \in 1..NbCluster /\ job[v] # job[w]
      BY <2>1, <3>1, <1>0 DEF PoolInv
    <3>3. ray[v] \in Cells[job[v]] /\ Exact(scene[ray[v]], out[ray[v]])
      BY <3>1, <1>0 DEF ReadInv
    <3> QED
      BY <3>1, <3>2, <3>3, <1>4
  <2>2. CASE v = w
    <3>1. ray' = ray
      BY <2>2, <1>0 DEF ScanTypeInv
    <3> QED
      BY <2>2, <3>1, <1>3
  <2> QED
    BY <2>1, <2>2
<1>10. /\ pc' = "collect" => \A c \in 1..(next' - 1) : \A i \in Cells'[c] :
            Exact(scene'[i], laser_scan_'[i])
       /\ pc' = "publish" => \A c \in 1..NbCluster' : \A i \in Cells'[c] :
            Exact(scene'[i], laser_scan_'[i])
  BY <1>0, <1>1 DEF ReadInv
<1> QED
  BY <1>6, <1>7, <1>8, <1>9, <1>10 DEF ReadInv, ClusterBegin

LEMMA ReadStep ==
  ASSUME ScanInv, [ScanNext]_scanVars
  PROVE  ReadInv'
<1> USE DEF mainVars, poolVars, rayVars, workVars
<1>0. /\ ScanTypeInv /\ PoolInv /\ ReadInv
      /\ NbCluster \in Nat /\ Issued \in 0..NbCluster
      /\ rays \in Nat
  BY IssuedBound, ScanAssumption DEF ScanInv, ScanTypeInv
<1>1. CASE StartScan
  <2>1. NbCluster' = NbCluster /\ results' = {} /\ (pc' = "publish" => NbCluster = 0) /\ pc' # "collect"
    BY <1>1, CellsKept DEF StartScan
  <2>2. \A w \in Workers : ~Busy(w)' /\ at'[w] # "draw"
    BY <1>0, <1>1 DEF StartScan, PoolInv, Quiet, Busy
  <2> QED
    BY <2>1, <2>2 DEF ReadInv
<1>2. CASE Enqueue
  BY <1>0, <1>2, ReadKept DEF Enqueue
<1>3. CASE NotifyOne
  <2>1. \A w \in Workers : at'[w] = at[w] \/ at'[w] = "test"
    BY <1>0, <1>3 DEF NotifyOne, WakeOne, ScanTypeInv
  <2>2. pc' # "publish" /\ (pc' = "collect" => next' = 1)
    BY <1>3 DEF NotifyOne
  <2> QED
    BY <1>0, <1>3, <2>1, <2>2, ReadKept DEF NotifyOne
<1>4. CASE Collect
  <2>1. Cells' = Cells /\ NbCluster' = NbCluster /\ \A c : ClusterBegin(c)' = ClusterBegin(c)
    BY <1>4, CellsKept DEF Collect
  <2>2. next \in 1..NbCluster /\ next \in results
    BY <1>0, <1>4 DEF Collect, PoolInv
  <2>3. /\ UNCHANGED <<scene, out, job, ray, at, results>>
        /\ next' = next + 1
        /\ laser_scan_' = [i \in 1..rays |-> IF i \in Cells[next] THEN out[i] ELSE laser_scan_[i]]
    BY <1>4, <2>2 DEF Collect, Cells
  <2>4. \A c \in 1..NbCluster : Cells[c] \subseteq 1..rays
    BY <1>0, CellsCover
  <2>5. \A i \in Cells[next] : Exact(scene[i], laser_scan_'[i])
    BY <2>2, <2>3, <2>4, <1>0 DEF ReadInv
  <2>6. \A c \in 1..(next - 1) : \A i \in Cells[c] : Exact(scene[i], laser_scan_'[i])
    <3> SUFFICES ASSUME NEW c \in 1..(next - 1), NEW i \in Cells[c]
                 PROVE  Exact(scene[i], laser_scan_'[i])
      OBVIOUS
    <3>1. c \in 1..NbCluster /\ c # next
      BY <2>2, <1>0
    <3>2. i \in 1..rays /\ i \notin Cells[next]
      BY <3>1, <2>2, <1>0, CellsCover
    <3>3. laser_scan_'[i] = laser_scan_[i]
      BY <3>2, <2>3
    <3> QED
      BY <3>3, <1>0, <1>4 DEF ReadInv, Collect
  <2>7. \A c \in 1..next : \A i \in Cells[c] : Exact(scene[i], laser_scan_'[i])
    <3>1. \A c \in 1..next : c = next \/ c \in 1..(next - 1)
      BY <2>2, <1>0
    <3> QED
      BY <3>1, <2>5, <2>6
  <2>8. pc' = "collect" => \A c \in 1..(next' - 1) : \A i \in Cells'[c] :
          Exact(scene'[i], laser_scan_'[i])
    <3>1. 1..(next' - 1) = 1..next
      BY <2>2, <2>3, <1>0
    <3> QED
      BY <3>1, <2>1, <2>3, <2>7
  <2>9. pc' = "publish" => \A c \in 1..NbCluster' : \A i \in Cells'[c] :
          Exact(scene'[i], laser_scan_'[i])
    <3>1. pc' = "publish" => next = NbCluster
      BY <1>4, <2>2, <1>0 DEF Collect
    <3> QED
      BY <3>1, <2>1, <2>3, <2>7
  <2>10. /\ \A c \in results' : \A i \in Cells'[c] : Exact(scene'[i], out'[i])
         /\ \A w \in Workers : Busy(w)' =>
              \A i \in Cells'[job'[w]] : i < ray'[w] => Exact(scene'[i], out'[i])
         /\ \A w \in Workers : Busy(w)' => ClusterBegin(job'[w]) <= ray'[w]
         /\ \A w \in Workers : at'[w] = "draw" =>
              ray'[w] \in Cells'[job'[w]] /\ Exact(scene'[ray'[w]], out'[ray'[w]])
    BY <1>0, <2>1, <2>3 DEF ReadInv, Busy
  <2> QED
    BY <2>8, <2>9, <2>10 DEF ReadInv, ClusterBegin
<1>5. CASE NotifyAll \/ Join \/ StopPool \/ ScanPublished
  <2>1. \A w \in Workers : at'[w] = at[w] \/ at'[w] = "test"
    BY <1>5, <1>0 DEF NotifyAll, Join, StopPool, ScanPublished, ScanTypeInv
  <2>2. UNCHANGED <<rays, scene, out, laser_scan_, job, ray, results>>
    BY <1>5 DEF NotifyAll, Join, StopPool, ScanPublished
  <2>3. pc' # "collect" /\ pc' # "publish"
    BY <1>5 DEF NotifyAll, Join, StopPool, ScanPublished
  <2> QED
    BY <1>0, <2>1, <2>2, <2>3, ReadKept
<1>6. ASSUME NEW w \in Workers, Sleep(w) \/ SpuriousWakeup(w) \/ Exit(w)
      PROVE  ReadInv'
  <2>1. \A v \in Workers : at'[v] = at[v] \/ at'[v] \notin {"cast", "draw"}
    BY <1>6, <1>0 DEF Sleep, SpuriousWakeup, Exit, ScanTypeInv
  <2>2. UNCHANGED <<rays, pc, next, scene, out, laser_scan_, job, ray, results>>
    BY <1>6 DEF Sleep, SpuriousWakeup, Exit
  <2> QED
    BY <1>0, <2>1, <2>2, ReadKept
<1>7. ASSUME NEW w \in Workers, Take(w)
      PROVE  ReadInv'
  <2>1. Cells' = Cells /\ NbCluster' = NbCluster
    BY <1>7, CellsKept DEF Take
  <2>2. Head(tasks) \in 1..NbCluster
    <3>1. tasks \in Seq(Nat) /\ tasks # <<>>
      BY <1>0, <1>7 DEF ScanTypeInv, Take
    <3>2. Head(tasks) = tasks[1] /\ 1 \in 1..Len(tasks)
      BY <3>1, LenProperties, EmptySeq, HeadTailProperties
    <3> QED
      BY <3>2, <1>0 DEF PoolInv
  <2>3. /\ job'[w] = Head(tasks) /\ ray'[w] = ClusterBegin(Head(tasks)) /\ at'[w] = "cast"
        /\ \A v \in Workers : v # w => job'[v] = job[v] /\ ray'[v] = ray[v] /\ at'[v] = at[v]
        /\ UNCHANGED <<scene, out, laser_scan_, results, pc, next>>
    BY <1>0, <1>7 DEF Take, ScanTypeInv
  <2>4. \A i \in Cells[job'[w]] : ~(i < ray'[w])
    <3>1. Cells[Head(tasks)] = ClusterBegin(Head(tasks))..ClusterEnd(Head(tasks))
      BY <2>2 DEF Cells
    <3>2. ClusterBegin(Head(tasks)) \in Int
      BY <2>2, ScanAssumption DEF ClusterBegin
    <3> QED
      BY <2>3, <3>1, <3>2
  <2>5. ClusterBegin(job'[w]) <= ray'[w]
    BY <2>2, <2>3, ScanAssumption DEF ClusterBegin
  <2>6. \A v \in Workers : v # w => (Busy(v)' <=> Busy(v))
    BY <2>3 DEF Busy
  <2>7. \A v \in Workers : Busy(v)' =>
          \A i \in Cells[job'[v]] : i < ray'[v] => Exact(scene[i], out[i])
    BY <1>0, <2>3, <2>4, <2>6 DEF ReadInv
  <2>8. \A v \in Workers : Busy(v)' => ClusterBegin(job'[v]) <= ray'[v]
    BY <1>0, <2>3, <2>5, <2>6 DEF ReadInv
  <2>9. \A v \in Workers : at'[v] = "draw" =>
          ray'[v] \in Cells[job'[v]] /\ Exact(scene[ray'[v]], out[ray'[v]])
    BY <1>0, <2>3 DEF ReadInv
  <2> QED
    BY <1>0, <2>1, <2>3, <2>7, <2>8, <2>9 DEF ReadInv, ClusterBegin
<1>8. ASSUME NEW w \in Workers, Cast(w)
      PROVE  ReadInv'
  <2>1. ray[w] \in Cells[job[w]] /\ ray[w] \in 1..rays
    BY <1>8, RayAtHand DEF Cast
  <2>2. at[w] = "cast" /\ Busy(w) /\ UNCHANGED <<rays, pc, next, scene, laser_scan_, job, results>>
    BY <1>8 DEF Cast, Busy
  <2>3. PICK reading \in Reading :
          /\ Exact(scene[ray[w]], reading)
          /\ out' = [out EXCEPT ![ray[w]] = reading]
          /\ \/ at' = at /\ ray' = [ray EXCEPT ![w] = @ + 1]
             \/ at' = [at EXCEPT ![w] = "draw"] /\ ray' = ray
    BY <1>8, CastReads
  <2>4. at = [at EXCEPT ![w] = "cast"]
    BY <1>0, <2>2 DEF ScanTypeInv
  <2> QED
    BY <2>1, <2>2, <2>3, <2>4, ReadWrite
<1>9. ASSUME NEW w \in Workers, Draw(w)
      PROVE  ReadInv'
  <2> DEFINE x == [out[ray[w]] EXCEPT !.noise = engine[w]]
  <2>1. /\ at[w] = "draw" /\ Busy(w)
        /\ UNCHANGED <<rays, pc, next, scene, laser_scan_, job, results>>
        /\ at' = [at EXCEPT ![w] = "cast"] /\ ray' = [ray EXCEPT ![w] = @ + 1]
        /\ out' = [out EXCEPT ![ray[w]] = x]
    BY <1>9 DEF Draw, Busy
  <2>2. job[w] \in 1..NbCluster /\ ray[w] \in Cells[job[w]] /\ Exact(scene[ray[w]], out[ray[w]])
    BY <1>0, <2>1 DEF PoolInv, ReadInv
  <2>3. ray[w] \in 1..rays
    BY <1>0, <2>2, CellsCover
  <2>4. x.range = out[ray[w]].range /\ x.intensity = out[ray[w]].intensity
    BY <1>0, <2>3 DEF ScanTypeInv, Reading
  <2>5. Exact(scene[ray[w]], x)
    BY <2>2, <2>4 DEF Exact
  <2> HIDE DEF x
  <2> QED
    BY <2>1, <2>2, <2>3, <2>5, ReadWrite
<1>10. ASSUME NEW w \in Workers, Finish(w)
       PROVE  ReadInv'
  <2>1. Cells' = Cells /\ NbCluster' = NbCluster
    BY <1>10, CellsKept DEF Finish
  <2>2. /\ Busy(w) /\ results' = results \cup {job[w]} /\ ray[w] > ClusterEnd(job[w])
        /\ \A v \in Workers : Busy(v)' => Busy(v) /\ at'[v] = at[v]
        /\ \A v \in Workers : at'[v] = "draw" => at[v] = "draw"
        /\ UNCHANGED <<scene, out, laser_scan_, job, ray, pc, next>>
    BY <1>0, <1>10 DEF Finish, Busy, ScanTypeInv
  <2>3. job[w] \in 1..NbCluster /\ ray[w] \in Int
    BY <1>0, <2>2 DEF PoolInv, ScanTypeInv
  <2>4. Cells[job[w]] = ClusterBegin(job[w])..ClusterEnd(job[w]) /\ ClusterEnd(job[w]) \in Int
    <3>1. rays % ClusterSize \in Int
      BY <1>0, ScanAssumption, Division
    <3> QED
      BY <2>3, <3>1, ScanAssumption DEF Cells, ClusterEnd
  <2>5. \A i \in Cells[job[w]] : i < ray[w]
    BY <2>2, <2>3, <2>4
  <2>6. \A c \in results' : \A i \in Cells[c] : Exact(scene[i], out[i])
    BY <1>0, <2>2, <2>5 DEF ReadInv
  <2> QED
    BY <1>0, <2>1, <2>2, <2>6 DEF ReadInv, ClusterBegin
<1>11. CASE UNCHANGED scanVars
  BY <1>0, <1>11, ReadKept DEF scanVars
<1> QED
  BY <1>1, <1>2, <1>3, <1>4, <1>5, <1>6, <1>7, <1>8, <1>9, <1>10, <1>11
  DEF ScanNext, Scanning, MainStep, Work, LaserGone

----------------------------------------------------------------------------
(* A scan the main thread publishes consists of all the clusters, and a    *)
(* quiet main thread leaves no work behind.                                *)
LEMMA ScanInvImplies ==
  ASSUME ScanInv
  PROVE  ScanExact /\ NoTaskOutlivesScan
<1>1. /\ ScanTypeInv /\ PoolInv /\ ReadInv
      /\ rays \in Nat
  BY ScanAssumption DEF ScanInv, ScanTypeInv
<1>2. ASSUME pc = "publish", NEW i \in 1..rays
      PROVE  Exact(scene[i], laser_scan_[i])
  BY <1>1, <1>2, CellsCover DEF ReadInv
<1>3. NoTaskOutlivesScan
  BY <1>1 DEF NoTaskOutlivesScan, PoolInv, Quiet, Busy, ScanTypeInv
<1> QED
  BY <1>2, <1>3 DEF ScanExact

(* The inductive invariant of the scan: each cluster is in the queue, at   *)
(* one worker or done, and what is done is exact.                          *)
THEOREM ScanCorrect == LaserSpec => []ScanInv
<1>1. LaserInit => ScanInv
  BY ScanTypeInit, PoolInit, ReadInit DEF LaserInit, ScanInv
<1>2. ScanInv /\ [LaserNext]_laserVars => ScanInv'
  <2> SUFFICES ASSUME ScanInv, [LaserNext]_laserVars
               PROVE  ScanInv'
    OBVIOUS
  <2>1. [ScanNext]_scanVars
    BY DEF LaserNext, ScanStep, PublishScan, SkipScan, OtherSensor, LaserDone, laserVars, ScanNext
  <2> QED
    BY <2>1, ScanTypeStep, PoolStep, ReadStep DEF ScanInv
<1> QED
  BY <1>1, <1>2, PTL DEF LaserSpec

(* The published scan has for each ray the nearest surface, for every      *)
(* pool, number of rays, size of the clusters, scene and expansion.        *)
THEOREM ScanAlwaysExact == LaserSpec => []ScanExact
<1>1. ScanInv => ScanExact
  BY ScanInvImplies
<1> QED
  BY <1>1, ScanCorrect, PTL

(* No task is queued or at work between two scans or when the laser is     *)
(* being freed.                                                            *)
THEOREM NoTaskEverOutlivesScan == LaserSpec => []NoTaskOutlivesScan
<1>1. ScanInv => NoTaskOutlivesScan
  BY ScanInvImplies
<1> QED
  BY <1>1, ScanCorrect, PTL

----------------------------------------------------------------------------
(***************************************************************************)
(* A scan ends, and ~Laser returns.  That the operating system schedules a *)
(* worker is a matter of fairness; that no wake-up is lost, so that there  *)
(* is a worker to schedule, is safety, and so is that only so many steps   *)
(* are left to take.                                                       *)
(***************************************************************************)
\* ComputeLaserRanges has begun its loops and not returned.
InScan == pc \in {"enqueue", "notify", "collect"}

\* Cluster c waits in the queue; a worker has taken it and not finished.
Queued(c) == \E k \in 1..Len(tasks) : tasks[k] = c
AtWork(c) == \E w \in Workers : Busy(w) /\ job[w] = c

\* No cluster is lost.  A queued one has a worker awake, or one about to be
\* woken; a worker exits only when told to, and is not asleep by then.
WakeInv ==
  /\ InScan => \A c \in 1..Issued : c \in results \/ Queued(c) \/ AtWork(c)
  /\ tasks # <<>> => pc = "notify" \/ \E w \in Workers : at[w] \notin {"wait", "exited"}
  /\ stop <=> pc \in {"notifyAll", "join", "deleted"}
  /\ \A w \in Workers : at[w] = "exited" => stop
  /\ pc \in {"join", "deleted"} => \A w \in Workers : at[w] # "wait"

\* The guards of Collect and Join, or a worker that makes them true can go on.
NobodyWaitsInVain ==
  /\ pc = "collect" /\ next \notin results =>
       \E w \in Workers : Busy(w) \/ (at[w] = "test" /\ tasks # <<>>)
  /\ pc = "join" /\ (\E w \in Workers : at[w] # "exited") =>
       \E w \in Workers : at[w] = "test" /\ stop /\ tasks = <<>>

LEMMA WakeInit ==
  ASSUME ScanInit
  PROVE  WakeInv
BY DEF ScanInit, WakeInv, InScan

(* The clusters of a scan stay where they are, or move on.                 *)
LEMMA NoClusterLost ==
  ASSUME ScanInv, ScanInv', WakeInv, [ScanNext]_scanVars, InScan', NEW c \in 1..Issued'
  PROVE  c \in results' \/ Queued(c)' \/ AtWork(c)'
<1> USE DEF mainVars, poolVars, rayVars, workVars
<1>1. /\ at \in [Workers -> {"test", "wait", "cast", "draw", "exited"}]
      /\ job \in [Workers -> Nat] /\ tasks \in Seq(Nat) /\ next \in Nat
  BY DEF ScanInv, ScanTypeInv
<1>2. InScan /\ c \in 1..Issued => c \in results \/ Queued(c) \/ AtWork(c)
  BY DEF WakeInv
<1>3. CASE StartScan
  <2>1. pc' = "enqueue" /\ next' = 1
    BY <1>3 DEF StartScan, InScan
  <2>2. Issued' = 0
    BY <2>1 DEF Issued
  <2> QED
    BY <2>2
<1>4. CASE Enqueue
  <2>1. Issued = next - 1 /\ Issued' = next /\ InScan
    BY <1>4 DEF Enqueue, Issued, InScan
  <2>2. /\ Len(tasks') = Len(tasks) + 1 /\ Len(tasks) \in Nat
        /\ \A k \in 1..Len(tasks) : tasks'[k] = tasks[k]
        /\ tasks'[Len(tasks) + 1] = next
    BY <1>1, <1>4, AppendProperties DEF Enqueue
  <2>3. CASE c = next
    BY <2>2, <2>3 DEF Queued
  <2>4. CASE c # next
    <3>1. c \in 1..Issued
      BY <1>1, <2>1, <2>4
    <3>2. Queued(c) => Queued(c)'
      BY <2>2 DEF Queued
    <3>3. AtWork(c) => AtWork(c)'
      BY <1>4 DEF Enqueue, AtWork, Busy
    <3> QED
      BY <1>2, <1>4, <2>1, <3>1, <3>2, <3>3 DEF Enqueue
  <2> QED
    BY <2>3, <2>4
<1>5. CASE NotifyOne \/ Collect
  <2>1. InScan /\ UNCHANGED <<rays, tasks, job, results>>
    BY <1>5 DEF NotifyOne, Collect, InScan
  <2>2. Issued' = Issued
    <3>1. NbCluster' = NbCluster
      BY <2>1, CellsKept
    <3>2. pc = "notify" => next \in 1..NbCluster /\ NbCluster \in Nat
      BY IssuedBound DEF ScanInv, PoolInv
    <3> QED
      BY <1>1, <1>5, <3>1, <3>2 DEF NotifyOne, Collect, Issued, InScan
  <2>3. \A w \in Workers : Busy(w)' <=> Busy(w)
    BY <1>1, <1>5 DEF NotifyOne, WakeOne, Collect, Busy
  <2> QED
    BY <1>2, <2>1, <2>2, <2>3 DEF Queued, AtWork
<1>6. ASSUME NEW w \in Workers, Sleep(w) \/ SpuriousWakeup(w) \/ Exit(w) \/ Cast(w) \/ Draw(w)
      PROVE  c \in results' \/ Queued(c)' \/ AtWork(c)'
  <2>1. InScan /\ UNCHANGED <<rays, pc, next, tasks, job, results>>
    BY <1>6 DEF Sleep, SpuriousWakeup, Exit, Cast, Draw, InScan
  <2>2. Issued' = Issued
    BY <2>1, CellsKept DEF Issued
  <2>3. \A v \in Workers : Busy(v)' <=> Busy(v)
    <3>1. CASE Sleep(w) \/ SpuriousWakeup(w) \/ Exit(w) \/ Draw(w)
      BY <1>1, <3>1 DEF Sleep, SpuriousWakeup, Exit, Draw, Busy
    <3>2. CASE Cast(w)
      <4>1. at[w] = "cast" /\ (at' = at \/ at' = [at EXCEPT ![w] = "draw"])
        BY <3>2, CastReads DEF Cast
      <4> QED
        BY <1>1, <4>1 DEF Busy
    <3> QED
      BY <1>6, <3>1, <3>2
  <2> QED
    BY <1>2, <2>1, <2>2, <2>3 DEF Queued, AtWork
<1>7. ASSUME NEW w \in Workers, Take(w)
      PROVE  c \in results' \/ Queued(c)' \/ AtWork(c)'
  <2>1. InScan /\ Issued' = Issued /\ results' = results
    BY <1>7, CellsKept DEF Take, InScan, Issued
  <2>2. /\ Len(tasks') = Len(tasks) - 1 /\ Len(tasks) \in Nat /\ Len(tasks) >= 1
        /\ \A k \in 1..Len(tasks') : tasks'[k] = tasks[k + 1]
        /\ Head(tasks) = tasks[1]
    BY <1>1, <1>7, HeadTailProperties, LenProperties, EmptySeq DEF Take
  <2>3. /\ ~Busy(w) /\ Busy(w)' /\ job'[w] = tasks[1]
        /\ \A v \in Workers : v # w => (Busy(v)' <=> Busy(v)) /\ job'[v] = job[v]
    BY <1>1, <1>7, <2>2 DEF Take, Busy
  <2>4. AtWork(c) => AtWork(c)'
    BY <2>3 DEF AtWork
  <2>5. ASSUME NEW k \in 1..Len(tasks), tasks[k] = c
        PROVE  Queued(c)' \/ AtWork(c)'
    <3>1. CASE k = 1
      BY <2>3, <2>5, <3>1 DEF AtWork
    <3>2. CASE k # 1
      <4>1. k - 1 \in 1..Len(tasks') /\ (k - 1) + 1 = k
        BY <2>2, <3>2
      <4>2. tasks'[k - 1] = c
        BY <2>2, <2>5, <4>1
      <4> QED
        BY <4>1, <4>2 DEF Queued
    <3> QED
      BY <3>1, <3>2
  <2> QED
    BY <1>2, <2>1, <2>4, <2>5 DEF Queued
<1>8. ASSUME NEW w \in Workers, Finish(w)
      PROVE  c \in results' \/ Queued(c)' \/ AtWork(c)'
  <2>1. /\ InScan /\ Issued' = Issued /\ UNCHANGED <<tasks, job>>
        /\ results' = results \cup {job[w]}
    BY <1>8, CellsKept DEF Finish, InScan, Issued
  <2>2. \A v \in Workers : v # w => (Busy(v)' <=> Busy(v))
    BY <1>1, <1>8 DEF Finish, Busy
  <2> QED
    BY <1>2, <2>1, <2>2 DEF Queued, AtWork
<1>9. CASE UNCHANGED scanVars
  BY <1>2, <1>9, CellsKept DEF scanVars, InScan, Issued, Queued, AtWork, Busy
<1>10. CASE NotifyAll \/ Join \/ StopPool \/ ScanPublished
  BY <1>10 DEF NotifyAll, Join, StopPool, ScanPublished, InScan
<1> QED
  BY <1>3, <1>4, <1>5, <1>6, <1>7, <1>8, <1>9, <1>10 DEF ScanNext, Scanning, MainStep, Work, LaserGone

LEMMA WakeStep ==
  ASSUME ScanInv, ScanInv', WakeInv, [ScanNext]_scanVars
  PROVE  WakeInv'
<1> USE DEF mainVars, poolVars, rayVars, workVars
<1>1. at \in [Workers -> {"test", "wait", "cast", "draw", "exited"}]
  BY DEF ScanInv, ScanTypeInv
<1>2. InScan' => \A c \in 1..Issued' : c \in results' \/ Queued(c)' \/ AtWork(c)'
  BY NoClusterLost
<1> DEFINE Awake == tasks # <<>> => pc = "notify" \/ \E w \in Workers : at[w] \notin {"wait", "exited"}
           Stopped == /\ stop <=> pc \in {"notifyAll", "join", "deleted"}
                      /\ \A w \in Workers : at[w] = "exited" => stop
                      /\ pc \in {"join", "deleted"} => \A w \in Workers : at[w] # "wait"
<1>3. Awake /\ Stopped
  BY DEF WakeInv
<1> SUFFICES Awake' /\ Stopped'
  BY <1>2 DEF WakeInv
<1>4. CASE StartScan \/ Enqueue \/ Collect \/ ScanPublished \/ StopPool \/ Join
  <2>1. Stopped'
    BY <1>3, <1>4 DEF StartScan, Enqueue, Collect, ScanPublished, StopPool, Join
  <2>2. Awake'
    BY <1>3, <1>4 DEF StartScan, Enqueue, Collect, ScanPublished, StopPool, Join
  <2> QED
    BY <2>1, <2>2
<1>5. CASE NotifyOne
  <2>1. ~stop /\ \A w \in Workers : at[w] # "exited"
    BY <1>3, <1>5 DEF NotifyOne
  <2>2. \A w \in Workers : at'[w] # "exited"
    BY <1>1, <1>5, <2>1 DEF NotifyOne, WakeOne
  <2>3. \E w \in Workers : at'[w] # "wait"
    <3>1. CASE \E w \in Workers : at[w] = "wait"
      <4>1. PICK w \in Workers : at' = [at EXCEPT ![w] = "test"]
        BY <1>5, <3>1 DEF NotifyOne, WakeOne
      <4> QED
        BY <1>1, <4>1
    <3>2. CASE \A w \in Workers : at[w] # "wait"
      <4>1. at' = at
        BY <1>5, <3>2 DEF NotifyOne, WakeOne
      <4> QED
        BY <3>2, <4>1, ScanAssumption
    <3> QED
      BY <3>1, <3>2
  <2>4. pc' \in {"enqueue", "collect"} /\ stop' = stop
    BY <1>5 DEF NotifyOne
  <2> QED
    BY <2>1, <2>2, <2>3, <2>4
<1>6. CASE NotifyAll
  <2>1. /\ pc = "notifyAll" /\ pc' = "join" /\ UNCHANGED <<stop, tasks>>
        /\ \A w \in Workers : at'[w] = IF at[w] = "wait" THEN "test" ELSE at[w]
    BY <1>6 DEF NotifyAll
  <2>2. tasks = <<>>
    BY <2>1 DEF ScanInv, PoolInv, Quiet
  <2>3. stop'
    BY <1>3, <2>1
  <2> QED
    BY <2>1, <2>2, <2>3
<1>7. ASSUME NEW w \in Workers, Sleep(w) \/ SpuriousWakeup(w) \/ Exit(w)
      PROVE  Awake' /\ Stopped'
  <2>1. UNCHANGED <<pc, tasks, stop>>
    BY <1>7 DEF Sleep, SpuriousWakeup, Exit
  <2>2. CASE Sleep(w)
    <3>1. /\ tasks = <<>> /\ ~stop
          /\ \A v \in Workers : at'[v] = IF v = w THEN "wait" ELSE at[v]
      BY <1>1, <2>2 DEF Sleep
    <3> QED
      BY <1>3, <2>1, <3>1
  <2>3. CASE SpuriousWakeup(w)
    <3>1. \A v \in Workers : at'[v] = IF v = w THEN "test" ELSE at[v]
      BY <1>1, <2>3 DEF SpuriousWakeup
    <3> QED
      BY <1>3, <2>1, <3>1
  <2>4. CASE Exit(w)
    <3>1. /\ tasks = <<>> /\ stop
          /\ \A v \in Workers : at'[v] = IF v = w THEN "exited" ELSE at[v]
      BY <1>1, <2>4 DEF Exit
    <3> QED
      BY <1>3, <2>1, <3>1
  <2> QED
    BY <1>7, <2>2, <2>3, <2>4
<1>8. ASSUME NEW w \in Workers, Take(w) \/ Cast(w) \/ Draw(w) \/ Finish(w)
      PROVE  Awake' /\ Stopped'
  <2>1. UNCHANGED <<pc, stop>>
    BY <1>8 DEF Take, Cast, Draw, Finish
  <2>2. /\ at'[w] \notin {"wait", "exited"}
        /\ \A v \in Workers : at'[v] \in {at[v], "test", "cast", "draw"}
    <3>1. CASE Cast(w)
      <4>1. at[w] = "cast" /\ (at' = at \/ at' = [at EXCEPT ![w] = "draw"])
        BY <3>1, CastReads DEF Cast
      <4> QED
        BY <1>1, <4>1
    <3>2. CASE Take(w) \/ Draw(w) \/ Finish(w)
      BY <1>1, <3>2 DEF Take, Draw, Finish
    <3> QED
      BY <1>8, <3>1, <3>2
  <2> QED
    BY <1>3, <2>1, <2>2
<1>9. CASE UNCHANGED scanVars
  BY <1>3, <1>9 DEF scanVars
<1> QED
  BY <1>4, <1>5, <1>6, <1>7, <1>8, <1>9 DEF ScanNext, Scanning, MainStep, Work, LaserGone

(* The invariants of the scan and of its wake-ups hold together.           *)
THEOREM WakeCorrect == LaserSpec => [](ScanInv /\ WakeInv)
<1>1. LaserInit => WakeInv
  BY WakeInit DEF LaserInit
<1>2. ScanInv /\ ScanInv' /\ WakeInv /\ [LaserNext]_laserVars => WakeInv'
  <2> SUFFICES ASSUME ScanInv, ScanInv', WakeInv, [LaserNext]_laserVars
               PROVE  WakeInv'
    OBVIOUS
  <2>1. [ScanNext]_scanVars
    BY DEF LaserNext, ScanStep, PublishScan, SkipScan, OtherSensor, LaserDone, laserVars, ScanNext
  <2> QED
    BY <2>1, WakeStep
<1> QED
  BY <1>1, <1>2, ScanCorrect, PTL DEF LaserSpec

(* No wake-up is lost: while the main thread waits for a future a worker   *)
(* is at that task, or awake with a task to take, and while ~ThreadPool    *)
(* joins a worker that has not exited, one is about to.                    *)
THEOREM NobodyEverWaitsInVain == LaserSpec => []NobodyWaitsInVain
<1>1. ScanInv /\ WakeInv => NobodyWaitsInVain
  <2> SUFFICES ASSUME ScanInv, WakeInv PROVE NobodyWaitsInVain
    OBVIOUS
  <2>1. at \in [Workers -> {"test", "wait", "cast", "draw", "exited"}] /\ tasks \in Seq(Nat)
    BY DEF ScanInv, ScanTypeInv
  <2>2. ASSUME pc = "collect", next \notin results
        PROVE  \E w \in Workers : Busy(w) \/ (at[w] = "test" /\ tasks # <<>>)
    <3>1. next \in 1..NbCluster /\ Issued = NbCluster
      BY <2>2 DEF ScanInv, PoolInv, Issued
    <3>2. Queued(next) \/ AtWork(next)
      BY <2>2, <3>1 DEF WakeInv, InScan
    <3>3. CASE AtWork(next)
      BY <3>3 DEF AtWork
    <3>4. CASE Queued(next)
      <4>1. tasks # <<>>
        BY <2>1, <3>4, EmptySeq DEF Queued
      <4>2. PICK w \in Workers : at[w] \notin {"wait", "exited"}
        BY <2>2, <4>1 DEF WakeInv
      <4> QED
        BY <2>1, <4>1, <4>2 DEF Busy
    <3> QED
      BY <3>2, <3>3, <3>4
  <2>3. ASSUME pc = "join", NEW v \in Workers, at[v] # "exited"
        PROVE  at[v] = "test" /\ stop /\ tasks = <<>>
    <3>1. tasks = <<>> /\ ~Busy(v)
      BY <2>3 DEF ScanInv, PoolInv, Quiet
    <3>2. stop /\ at[v] # "wait"
      BY <2>3 DEF WakeInv
    <3> QED
      BY <2>1, <2>3, <3>1, <3>2 DEF Busy
  <2> QED
    BY <2>2, <2>3 DEF NobodyWaitsInVain
<1> QED
  BY <1>1, WakeCorrect, PTL

----------------------------------------------------------------------------
(* What has been done of a scan: clusters enqueued, notified, taken by a   *)
(* worker, finished (results) and collected, rays cast and read.           *)
Notified == IF pc = "collect" THEN NbCluster ELSE next - 1
Collected == IF pc = "collect" THEN next - 1 ELSE 0
Taken == {c \in 1..Issued : ~Queued(c)}
RaysCast ==
  {i \in 1..rays : \/ \E c \in results : i \in Cells[c]
                   \/ \E w \in Workers : /\ Busy(w) /\ i \in Cells[job[w]]
                                          /\ (i < ray[w] \/ (i = ray[w] /\ at[w] = "draw"))}
RaysRead ==
  {i \in 1..rays : \/ \E c \in results : i \in Cells[c]
                   \/ \E w \in Workers : Busy(w) /\ i \in Cells[job[w]] /\ i < ray[w]}

NothingUndone ==
  /\ Issued <= Issued' /\ Notified <= Notified' /\ Collected <= Collected'
  /\ Taken \subseteq Taken' /\ results \subseteq results'
  /\ RaysCast \subseteq RaysCast' /\ RaysRead \subseteq RaysRead'

SomethingDone ==
  \/ Issued # Issued' \/ Notified # Notified' \/ Collected # Collected'
  \/ Taken # Taken' \/ results # results'
  \/ RaysCast # RaysCast' \/ RaysRead # RaysRead'

\* Each of these can grow only so far.
WithinScan ==
  /\ NbCluster \in Nat
  /\ Issued \in 0..NbCluster /\ Notified \in 0..NbCluster /\ Collected \in 0..NbCluster
  /\ Taken \subseteq 1..NbCluster /\ results \subseteq 1..NbCluster
  /\ RaysCast \subseteq 1..rays /\ RaysRead \subseteq 1..rays

\* A step within a scan undoes nothing and does something, except that a
\* worker may fall asleep or wake up.
ScanAdvances ==
  [][InScan /\ InScan' =>
       /\ WithinScan' /\ NothingUndone
       /\ SomethingDone \/ \E w \in Workers : Sleep(w) \/ SpuriousWakeup(w)]_scanVars

LEMMA ScanWithin ==
  ASSUME ScanInv, InScan
  PROVE  WithinScan
<1>1. NbCluster \in Nat /\ Issued \in 0..NbCluster /\ next \in 1..NbCluster
  BY IssuedBound DEF ScanInv, PoolInv, InScan
<1>2. results \subseteq 1..Issued
  BY DEF ScanInv, PoolInv
<1> QED
  BY <1>1, <1>2 DEF WithinScan, Notified, Collected, Taken, RaysCast, RaysRead

(* What the main thread does while the workers stay as they are.           *)
LEMMA MainAdvances ==
  ASSUME ScanInv, InScan, InScan', Enqueue \/ NotifyOne \/ Collect
  PROVE  NothingUndone /\ SomethingDone
<1> USE DEF poolVars, rayVars, workVars
<1>1. /\ at \in [Workers -> {"test", "wait", "cast", "draw", "exited"}]
      /\ tasks \in Seq(Nat) /\ next \in Nat /\ NbCluster \in Nat /\ next \in 1..NbCluster
  BY IssuedBound DEF ScanInv, ScanTypeInv, PoolInv, InScan
<1>2. UNCHANGED <<rays, ray, job, results>>
  BY DEF Enqueue, NotifyOne, Collect
<1>3. NbCluster' = NbCluster /\ Cells' = Cells
  BY <1>2, CellsKept
<1>4. RaysCast' = RaysCast /\ RaysRead' = RaysRead
  <2>1. \A w \in Workers : (Busy(w)' <=> Busy(w)) /\ (at'[w] = "draw" <=> at[w] = "draw")
    BY <1>1 DEF Enqueue, NotifyOne, WakeOne, Collect, Busy
  <2> QED
    BY <1>2, <1>3, <2>1 DEF RaysCast, RaysRead
<1>5. CASE Enqueue
  <2>1. /\ Issued = next - 1 /\ Issued' = next
        /\ Notified' = Notified /\ Collected' = Collected
    BY <1>5 DEF Enqueue, Issued, Notified, Collected
  <2>2. /\ Len(tasks') = Len(tasks) + 1 /\ Len(tasks) \in Nat
        /\ \A k \in 1..Len(tasks) : tasks'[k] = tasks[k]
        /\ tasks'[Len(tasks) + 1] = next
    BY <1>1, <1>5, AppendProperties DEF Enqueue
  <2>3. \A c \in 1..Issued : Queued(c)' => Queued(c)
    <3> SUFFICES ASSUME NEW c \in 1..Issued, NEW k \in 1..Len(tasks'), tasks'[k] = c
                 PROVE  Queued(c)
      BY DEF Queued
    <3>1. c # next
      BY <1>1, <2>1
    <3>2. k \in 1..Len(tasks) /\ tasks[k] = c
      BY <2>2, <3>1
    <3> QED
      BY <3>2 DEF Queued
  <2>4. Taken \subseteq Taken'
    BY <1>1, <2>1, <2>3 DEF Taken
  <2>5. Issued <= Issued' /\ Issued # Issued' /\ Notified \in Int /\ Collected \in Int
    BY <1>1, <2>1 DEF Notified, Collected
  <2> QED
    BY <1>2, <1>4, <2>1, <2>4, <2>5 DEF NothingUndone, SomethingDone
<1>6. CASE NotifyOne
  <2>1. /\ pc = "notify" /\ tasks' = tasks
        /\ pc' = IF next < NbCluster THEN "enqueue" ELSE "collect"
        /\ next' = IF next < NbCluster THEN next + 1 ELSE 1
    BY <1>6 DEF NotifyOne
  <2>2. Issued = next /\ Issued' = next /\ Notified = next - 1 /\ Notified' = next
    BY <1>1, <1>3, <2>1 DEF Issued, Notified
  <2>3. Collected = 0 /\ Collected' = 0
    BY <2>1 DEF Collected
  <2>4. Taken' = Taken
    BY <2>1, <2>2 DEF Taken, Queued
  <2> QED
    BY <1>1, <1>2, <1>4, <2>2, <2>3, <2>4 DEF NothingUndone, SomethingDone
<1>7. CASE Collect
  <2>1. pc = "collect" /\ pc' = "collect" /\ next' = next + 1 /\ tasks' = tasks
    BY <1>7 DEF Collect, InScan
  <2>2. /\ Issued' = Issued /\ Issued = NbCluster /\ Notified' = Notified /\ Notified = NbCluster
        /\ Collected = next - 1 /\ Collected' = next
    BY <1>1, <1>3, <2>1 DEF Issued, Notified, Collected
  <2>3. Taken' = Taken
    BY <2>1, <2>2 DEF Taken, Queued
  <2> QED
    BY <1>1, <1>2, <1>4, <2>2, <2>3 DEF NothingUndone, SomethingDone
<1> QED
  BY <1>5, <1>6, <1>7

(* While a worker moves, the main thread stays where it is.                *)
LEMMA MainStays ==
  ASSUME ScanInv, InScan, UNCHANGED <<rays, pc, next>>
  PROVE  /\ NbCluster' = NbCluster /\ Cells' = Cells
         /\ Issued' = Issued /\ Notified' = Notified /\ Collected' = Collected
         /\ Issued <= Issued' /\ Notified <= Notified' /\ Collected <= Collected'
<1>1. NbCluster' = NbCluster /\ Cells' = Cells
  BY CellsKept
<1>2. Issued' = Issued /\ Notified' = Notified /\ Collected' = Collected
  BY <1>1 DEF Issued, Notified, Collected
<1>3. Issued \in Int /\ Notified \in Int /\ Collected \in Int
  BY ScanWithin DEF WithinScan
<1> QED
  BY <1>1, <1>2, <1>3

LEMMA TakeAdvances ==
  ASSUME ScanInv, InScan, NEW w \in Workers, Take(w)
  PROVE  NothingUndone /\ SomethingDone
<1> USE DEF mainVars, rayVars
<1>1. /\ at \in [Workers -> {"test", "wait", "cast", "draw", "exited"}]
      /\ ray \in [Workers -> Int] /\ job \in [Workers -> Nat] /\ tasks \in Seq(Nat)
  BY DEF ScanInv, ScanTypeInv
<1>2. UNCHANGED <<rays, pc, next, results>> /\ ~Busy(w)
  BY DEF Take, Busy
<1>3. /\ Cells' = Cells
      /\ Issued' = Issued /\ Notified' = Notified /\ Collected' = Collected
      /\ Issued <= Issued' /\ Notified <= Notified' /\ Collected <= Collected'
  BY <1>2, MainStays
<1>4. /\ Len(tasks') = Len(tasks) - 1 /\ Len(tasks) \in Nat /\ Len(tasks) >= 1
      /\ \A k \in 1..Len(tasks') : tasks'[k] = tasks[k + 1]
  BY <1>1, HeadTailProperties, LenProperties, EmptySeq DEF Take
<1>5. \A c : Queued(c)' => \E k \in 2..Len(tasks) : tasks[k] = c
  BY <1>4 DEF Queued
<1>6. Taken \subseteq Taken'
  BY <1>3, <1>4, <1>5 DEF Taken, Queued
<1>7. Taken # Taken'
  <2>1. PICK c \in 1..Issued : c = tasks[1]
    <3>1. 1 \in 1..Len(tasks)
      BY <1>4
    <3> QED
      BY <3>1 DEF ScanInv, PoolInv
  <2>2. Queued(c)
    BY <1>4, <2>1 DEF Queued
  <2>3. \A k \in 2..Len(tasks) : tasks[k] # c
    BY <1>4, <2>1 DEF ScanInv, PoolInv
  <2>4. ~Queued(c)'
    BY <1>5, <2>3
  <2> QED
    BY <1>3, <2>2, <2>4 DEF Taken
<1>8. \A v \in Workers : Busy(v) =>
        Busy(v)' /\ job'[v] = job[v] /\ ray'[v] = ray[v] /\ at'[v] = at[v]
  BY <1>1, <1>2 DEF Take, Busy
<1>9. RaysCast \subseteq RaysCast' /\ RaysRead \subseteq RaysRead'
  BY <1>2, <1>3, <1>8 DEF RaysCast, RaysRead
<1> QED
  BY <1>2, <1>3, <1>6, <1>7, <1>9 DEF NothingUndone, SomethingDone

(* Nobody else is at the ray a worker has at hand, or was.                 *)
LEMMA RayIsNew ==
  ASSUME ScanInv, NEW w \in Workers, Busy(w), NEW i, i \in Cells[job[w]], i \in 1..rays
  PROVE  /\ \A c \in results : i \notin Cells[c]
         /\ \A v \in Workers : v # w /\ Busy(v) => i \notin Cells[job[v]]
<1>1. NbCluster \in Nat /\ Issued \in 0..NbCluster
  BY IssuedBound DEF ScanInv
<1>2. job[w] \in 1..NbCluster /\ job[w] \notin results /\ results \subseteq 1..NbCluster
  BY <1>1 DEF ScanInv, PoolInv
<1>3. \A v \in Workers : v # w /\ Busy(v) => job[v] \in 1..NbCluster /\ job[v] # job[w]
  BY <1>1 DEF ScanInv, PoolInv
<1>4. \A c, d \in 1..NbCluster : c # d => Cells[c] \cap Cells[d] = {}
  BY CellsCover, ScanAssumption DEF ScanInv, ScanTypeInv
<1>5. \A c \in results : i \notin Cells[c]
  BY <1>2, <1>4
<1>6. \A v \in Workers : v # w /\ Busy(v) => i \notin Cells[job[v]]
  BY <1>2, <1>3, <1>4
<1> QED
  BY <1>5, <1>6

(* A worker moves on by a ray at most, at the cluster it had.              *)
LEMMA WorkKeeps ==
  ASSUME ScanInv, InScan, NEW w \in Workers, Cast(w) \/ Draw(w)
  PROVE  /\ UNCHANGED <<rays, pc, next, tasks, job, results>>
         /\ \A v \in Workers : Busy(v)' <=> Busy(v)
         /\ \A v \in Workers : v # w => ray'[v] = ray[v] /\ at'[v] = at[v]
         /\ Busy(w) /\ ray[w] \in Cells[job[w]] /\ ray[w] \in 1..rays
         /\ Cast(w) => at[w] = "cast" /\ (ray'[w] = ray[w] + 1 \/ (ray'[w] = ray[w] /\ at'[w] = "draw"))
         /\ Draw(w) => at[w] = "draw" /\ ray'[w] = ray[w] + 1
<1>1. /\ at \in [Workers -> {"test", "wait", "cast", "draw", "exited"}]
      /\ ray \in [Workers -> Int]
  BY DEF ScanInv, ScanTypeInv
<1>2. UNCHANGED <<rays, pc, next, tasks, job, results>>
  BY DEF Cast, Draw, mainVars, poolVars
<1>3. CASE Cast(w)
  <2>1. at[w] = "cast" /\ ray[w] \in Cells[job[w]] /\ ray[w] \in 1..rays
    BY <1>3, RayAtHand DEF Cast
  <2>2. \/ at' = at /\ ray' = [ray EXCEPT ![w] = @ + 1]
        \/ at' = [at EXCEPT ![w] = "draw"] /\ ray' = ray
    BY <1>3, CastReads
  <2>3. ~Draw(w)
    BY <2>1 DEF Draw
  <2> QED
    BY <1>1, <1>2, <2>1, <2>2, <2>3 DEF Busy
<1>4. CASE Draw(w)
  <2>1. /\ at[w] = "draw" /\ at' = [at EXCEPT ![w] = "cast"]
        /\ ray' = [ray EXCEPT ![w] = @ + 1]
    BY <1>4 DEF Draw
  <2>2. Busy(w) /\ ray[w] \in Cells[job[w]]
    BY <2>1 DEF ScanInv, ReadInv, Busy
  <2>3. ray[w] \in 1..rays
    <3>1. NbCluster \in Nat /\ Issued \in 0..NbCluster
      BY IssuedBound DEF ScanInv
    <3>2. job[w] \in 1..NbCluster
      BY <2>2, <3>1 DEF ScanInv, PoolInv
    <3> QED
      BY <2>2, <3>2, CellsCover, ScanAssumption DEF ScanInv, ScanTypeInv
  <2>4. ~Cast(w)
    BY <2>1 DEF Cast
  <2> QED
    BY <1>1, <1>2, <2>1, <2>2, <2>3, <2>4 DEF Busy
<1> QED
  BY <1>3, <1>4

LEMMA RayAdvances ==
  ASSUME ScanInv, InScan, NEW w \in Workers, Cast(w) \/ Draw(w)
  PROVE  NothingUndone /\ SomethingDone
<1>1. /\ UNCHANGED <<rays, pc, next, tasks, job, results>>
      /\ \A v \in Workers : Busy(v)' <=> Busy(v)
      /\ \A v \in Workers : v # w => ray'[v] = ray[v] /\ at'[v] = at[v]
      /\ Busy(w) /\ ray[w] \in Cells[job[w]] /\ ray[w] \in 1..rays
      /\ Cast(w) => at[w] = "cast" /\ (ray'[w] = ray[w] + 1 \/ (ray'[w] = ray[w] /\ at'[w] = "draw"))
      /\ Draw(w) => at[w] = "draw" /\ ray'[w] = ray[w] + 1
  BY WorkKeeps
<1>2. /\ Cells' = Cells
      /\ Issued' = Issued /\ Notified' = Notified /\ Collected' = Collected
      /\ Issued <= Issued' /\ Notified <= Notified' /\ Collected <= Collected'
  BY <1>1, MainStays
<1>3. Taken' = Taken
  BY <1>1, <1>2 DEF Taken, Queued
<1>4. PICK i \in 1..rays : i = ray[w]
  BY <1>1
<1>5. i \in Cells[job[w]] /\ i \in Int
  BY <1>1, <1>4
<1>6. /\ \A c \in results : i \notin Cells[c]
      /\ \A v \in Workers : v # w /\ Busy(v) => i \notin Cells[job[v]]
  BY <1>1, <1>4, <1>5, RayIsNew
<1>7. ray'[w] = i \/ ray'[w] = i + 1
  BY <1>1, <1>4
<1>8. RaysCast \subseteq RaysCast'
  <2> SUFFICES ASSUME NEW k \in RaysCast, NEW v \in Workers, Busy(v), k \in Cells[job[v]],
                      k < ray[v] \/ (k = ray[v] /\ at[v] = "draw")
               PROVE  k < ray'[v] \/ (k = ray'[v] /\ at'[v] = "draw")
    BY <1>1, <1>2 DEF RaysCast
  <2>1. k \in Int
    BY DEF RaysCast
  <2>2. CASE v # w
    BY <1>1, <2>2
  <2>3. CASE v = w
    <3>1. CASE Cast(w)
      BY <1>1, <1>4, <1>5, <1>7, <2>1, <2>3, <3>1
    <3>2. CASE Draw(w)
      BY <1>1, <1>4, <1>5, <2>1, <2>3, <3>2
    <3> QED
      BY <3>1, <3>2
  <2> QED
    BY <2>2, <2>3
<1>9. RaysRead \subseteq RaysRead'
  <2> SUFFICES ASSUME NEW k \in RaysRead, NEW v \in Workers, Busy(v), k \in Cells[job[v]], k < ray[v]
               PROVE  k < ray'[v]
    BY <1>1, <1>2 DEF RaysRead
  <2>1. k \in Int
    BY DEF RaysRead
  <2>2. CASE v # w
    BY <1>1, <2>2
  <2>3. CASE v = w
    BY <1>4, <1>5, <1>7, <2>1, <2>3
  <2> QED
    BY <2>2, <2>3
<1>10. CASE Cast(w)
  <2>1. i \notin RaysCast
    BY <1>1, <1>4, <1>5, <1>6, <1>10 DEF RaysCast
  <2>2. i \in RaysCast'
    <3>1. i < ray'[w] \/ (i = ray'[w] /\ at'[w] = "draw")
      BY <1>1, <1>4, <1>5, <1>10
    <3> QED
      BY <1>1, <1>2, <1>5, <3>1 DEF RaysCast
  <2> QED
    BY <1>1, <1>2, <1>3, <1>8, <1>9, <2>1, <2>2 DEF NothingUndone, SomethingDone
<1>11. CASE Draw(w)
  <2>1. i \notin RaysRead
    BY <1>1, <1>4, <1>5, <1>6, <1>11 DEF RaysRead
  <2>2. i \in RaysRead'
    <3>1. i < ray'[w]
      BY <1>1, <1>4, <1>5, <1>11
    <3> QED
      BY <1>1, <1>2, <1>5, <3>1 DEF RaysRead
  <2> QED
    BY <1>1, <1>2, <1>3, <1>8, <1>9, <2>1, <2>2 DEF NothingUndone, SomethingDone
<1> QED
  BY <1>10, <1>11

LEMMA FinishAdvances ==
  ASSUME ScanInv, InScan, NEW w \in Workers, Finish(w)
  PROVE  NothingUndone /\ SomethingDone
<1>1. /\ at \in [Workers -> {"test", "wait", "cast", "draw", "exited"}]
  BY DEF ScanInv, ScanTypeInv
<1>2. /\ UNCHANGED <<rays, pc, next, tasks, ray, job>> /\ results' = results \cup {job[w]}
      /\ Busy(w) /\ \A v \in Workers : v # w => at'[v] = at[v]
  BY <1>1 DEF Finish, Busy, mainVars, poolVars
<1>3. /\ Cells' = Cells
      /\ Issued' = Issued /\ Notified' = Notified /\ Collected' = Collected
      /\ Issued <= Issued' /\ Notified <= Notified' /\ Collected <= Collected'
  BY <1>2, MainStays
<1>4. Taken' = Taken
  BY <1>2, <1>3 DEF Taken, Queued
<1>5. job[w] \notin results
  BY <1>2 DEF ScanInv, PoolInv
<1>6. \A v \in Workers : v # w => (Busy(v)' <=> Busy(v))
  BY <1>2 DEF Busy
<1>7. RaysCast \subseteq RaysCast' /\ RaysRead \subseteq RaysRead'
  BY <1>2, <1>3, <1>6 DEF RaysCast, RaysRead
<1> QED
  BY <1>2, <1>3, <1>4, <1>5, <1>7 DEF NothingUndone, SomethingDone

(* A worker that falls asleep or wakes up undoes nothing.                  *)
LEMMA SleepUndoesNothing ==
  ASSUME ScanInv, InScan, NEW w \in Workers, Sleep(w) \/ SpuriousWakeup(w)
  PROVE  NothingUndone
<1>1. /\ at \in [Workers -> {"test", "wait", "cast", "draw", "exited"}]
  BY DEF ScanInv, ScanTypeInv
<1>2. UNCHANGED <<rays, pc, next, tasks, ray, job, results>>
  BY DEF Sleep, SpuriousWakeup, mainVars, poolVars
<1>3. \A v \in Workers : (Busy(v)' <=> Busy(v)) /\ (at'[v] = "draw" <=> at[v] = "draw")
  BY <1>1 DEF Sleep, SpuriousWakeup, Busy
<1>4. /\ Cells' = Cells /\ Issued' = Issued
      /\ Issued <= Issued' /\ Notified <= Notified' /\ Collected <= Collected'
  BY <1>2, MainStays
<1>5. Taken' = Taken
  BY <1>2, <1>4 DEF Taken, Queued
<1>6. RaysCast' = RaysCast /\ RaysRead' = RaysRead
  BY <1>2, <1>3, <1>4 DEF RaysCast, RaysRead
<1> QED
  BY <1>2, <1>4, <1>5, <1>6 DEF NothingUndone

(* A scan takes a bounded number of steps, however the workers take its    *)
(* clusters: each step that is not a worker's falling asleep or waking up  *)
(* enqueues, notifies, takes, finishes or collects a cluster or casts or   *)
(* reads a ray that was not before, and none does so twice - five steps    *)
(* for a cluster and two for a ray, which together are all there is.       *)
THEOREM ScanIsBounded == LaserSpec => ScanAdvances
<1> DEFINE Within == InScan => WithinScan
<1>1. ScanInv => Within
  BY ScanWithin
<1>2. ScanInv /\ Within' /\ WakeInv /\ [LaserNext]_laserVars =>
        [InScan /\ InScan' =>
           /\ WithinScan' /\ NothingUndone
           /\ SomethingDone \/ \E w \in Workers : Sleep(w) \/ SpuriousWakeup(w)]_scanVars
  <2> SUFFICES ASSUME ScanInv, Within', WakeInv, [LaserNext]_laserVars, ~ UNCHANGED scanVars,
                      InScan, InScan'
               PROVE  /\ WithinScan' /\ NothingUndone
                      /\ SomethingDone \/ \E w \in Workers : Sleep(w) \/ SpuriousWakeup(w)
    OBVIOUS
  <2>1. ScanNext
    BY DEF LaserNext, ScanStep, PublishScan, SkipScan, OtherSensor, LaserDone, laserVars, ScanNext
  <2>2. WithinScan'
    OBVIOUS
  <2>3. CASE Enqueue \/ NotifyOne \/ Collect
    BY <2>2, <2>3, MainAdvances
  <2>4. ASSUME NEW w \in Workers, Take(w) \/ Cast(w) \/ Draw(w) \/ Finish(w)
        PROVE  NothingUndone /\ SomethingDone
    BY <2>4, TakeAdvances, RayAdvances, FinishAdvances
  <2>5. ASSUME NEW w \in Workers, Sleep(w) \/ SpuriousWakeup(w)
        PROVE  NothingUndone
    BY <2>5, SleepUndoesNothing
  <2>6. ASSUME NEW w \in Workers, Exit(w) PROVE FALSE
    BY <2>6 DEF Exit, WakeInv, InScan
  <2>7. ~(StartScan \/ StopPool \/ ScanPublished \/ NotifyAll \/ Join \/ LaserGone)
    BY DEF StartScan, StopPool, ScanPublished, NotifyAll, Join, LaserGone, InScan
  <2> QED
    BY <2>1, <2>2, <2>3, <2>4, <2>5, <2>6, <2>7 DEF ScanNext, Scanning, MainStep, Work
<1> QED
  BY <1>1, <1>2, WakeCorrect, PTL DEF LaserSpec, ScanAdvances

----------------------------------------------------------------------------
(* The laser does with its queue what LatencyQueue says: the steps of the  *)
(* scan leave it alone.                                                    *)
THEOREM LaserImplementsQueue == LaserSpec => Spec
<1>1. LaserInit => Init
  BY DEF LaserInit
<1>2. [LaserNext]_laserVars => [Next]_vars
  BY DEF LaserNext, laserVars, ScanStep, PublishScan, SkipScan, OtherSensor, LaserDone, Next
<1> QED
  BY <1>1, <1>2, PTL DEF LaserSpec, Spec

(* So the delayed scans are delivered complete and in order;               *)
THEOREM LaserKeepsOrder == LaserSpec => []FifoDelivery
BY LaserImplementsQueue, AlwaysFifo, PTL

(* the queue is bounded;                                                   *)
THEOREM LaserKeepsBound == LaserSpec => []BoundedQueue
BY LaserImplementsQueue, AlwaysBounded, PTL

(* a scan is early only when it was pushed out;                            *)
THEOREM LaserNeverEarly == LaserSpec => []EarlyOnlyWhenFull
BY LaserImplementsQueue, NeverEarlyOtherwise, PTL

(* and a scan that is due waits only behind one that is not.               *)
THEOREM LaserNeverOverdue == LaserSpec => []NothingOverdue
BY LaserImplementsQueue, NeverOverdue, PTL
=============================================================================
