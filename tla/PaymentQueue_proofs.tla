------------------------ MODULE PaymentQueue_proofs ------------------------
(***************************************************************************)
(* Proofs about the payment queue and its worker, for any capacity, any    *)
(* arrivals, raising work and a clock that outside code moves.             *)
(***************************************************************************)
EXTENDS PaymentQueue, DataLemmas

-----------------------------------------------------------------------------
(***************************************************************************)
(* The inductive invariant.                                                *)
(***************************************************************************)
SchedInv == Sched!TypeOK /\ \A e \in queue : e.order < nextOrder

QueueType == /\ waiting \in Seq(QueuedPayment)
             /\ completed \in Seq(CompletedPayment)
             /\ nextArrival \in Nat
             /\ maximumDepth \in Nat
             /\ tickScheduled \in BOOLEAN
             /\ failed \subseteq Nat

\* How many payments have left the waiting line.
Left == nextArrival - Len(waiting)

\* The waiting payments are the last that arrived, in their order.
LineInOrder ==
  /\ Left \in Nat
  /\ \A i \in DOMAIN waiting : waiting[i].arrival_order = Left + i - 1

\* Those before them have completed, in their order, or their work raised.
LeftInOrder ==
  /\ \A i, j \in DOMAIN completed :
       i < j => completed[i].arrival_order < completed[j].arrival_order
  /\ CompletedOrders \cup failed = 0..(Left - 1)
  /\ CompletedOrders \cap failed = {}

\* There is one tick at most, queued or dropped, and the flag tells.
OneTick ==
  /\ \A e, f \in Ticks : e = f
  /\ \A l, m \in DroppedTicks : l = m
  /\ Ticks = {} \/ DroppedTicks = {}
  /\ tickScheduled <=> Ticks # {} \/ DroppedTicks # {}
  /\ waiting # <<>> /\ ~tickScheduled => failed # {}
  /\ tickScheduled => waiting # <<>>

\* Whatever completed did so before the queued tick, and not in the future.
StartedBefore ==
  /\ \A i \in DOMAIN completed : completed[i].processing_started_at <= clock
  /\ \A e \in Ticks, i \in DOMAIN completed :
       completed[i].processing_started_at < e.time

\* As long as the clock was not moved by hand nothing is overdue, and the
\* queued tick is due now or in the next minute.
OnTime ==
  /\ jumped <= clock
  /\ jumped = 0 => /\ \A e \in queue : e.time >= clock
                   /\ \A e \in Ticks : e.time <= clock + 1
                   /\ DroppedTicks = {}

\* The capacity-sized ticks that n payments take.
TicksFor(n) == (n + Capacity - 1) \div Capacity

\* A payment that starts at time started waits as long as its position promised.
OnPromise(item, started) ==
  started - item.queued_at \in {TicksFor(item.queue_position) - 1,
                                TicksFor(item.queue_position)}

\* A payment at place i of the line starts TicksFor(i) ticks from now, which is
\* what its position promised.
PromiseAhead ==
  failed = {} /\ jumped = 0 =>
    \A e \in Ticks : \A i \in DOMAIN waiting :
      OnPromise(waiting[i], e.time + TicksFor(i) - 1)

Inv == /\ SchedInv
       /\ QueueType
       /\ LineInOrder
       /\ LeftInOrder
       /\ OneTick
       /\ StartedBefore
       /\ CapacityPerMinute
       /\ OnTime
       /\ PromiseAhead
       /\ WaitMatchesPosition

\* What the types give.
LEMMA Parts ==
  ASSUME QueueType
  PROVE  /\ DOMAIN waiting = 1..Len(waiting) /\ DOMAIN completed = 1..Len(completed)
         /\ Len(waiting) \in Nat /\ Len(completed) \in Nat
         /\ \A i \in DOMAIN waiting : /\ waiting[i] \in QueuedPayment
                                      /\ waiting[i].arrival_order \in Nat
                                      /\ waiting[i].queued_at \in Nat
                                      /\ waiting[i].queue_position \in Nat \ {0}
         /\ \A i \in DOMAIN completed : /\ completed[i] \in CompletedPayment
                                        /\ completed[i].arrival_order \in Nat
                                        /\ completed[i].queued_at \in Nat
                                        /\ completed[i].queue_position \in Nat \ {0}
                                        /\ completed[i].processing_started_at \in Nat
  <1>1. /\ DOMAIN waiting = 1..Len(waiting) /\ DOMAIN completed = 1..Len(completed)
        /\ Len(waiting) \in Nat /\ Len(completed) \in Nat
    BY LenProperties DEF QueueType
  <1>2. /\ \A i \in DOMAIN waiting : waiting[i] \in QueuedPayment
        /\ \A i \in DOMAIN completed : completed[i] \in CompletedPayment
    BY <1>1, ElementOfSeq DEF QueueType
  <1> QED BY <1>1, <1>2 DEF QueuedPayment, CompletedPayment

Arrived(now) == [arrival_order |-> nextArrival, queued_at |-> now,
                 queue_position |-> Len(waiting) + 1]

\* What enqueue does to the waiting line.
LEMMA EnqueueEffect ==
  ASSUME QueueType, NEW now \in Nat, EnqueueAt(now)
  PROVE  \E n \in Nat :
           /\ n = Len(waiting) /\ DOMAIN waiting = 1..n
           /\ Len(waiting') = n + 1 /\ DOMAIN waiting' = 1..(n + 1)
           /\ \A i \in 1..n : waiting'[i] = waiting[i]
           /\ waiting'[n + 1] = Arrived(now)
           /\ waiting' # <<>>
           /\ nextArrival' = nextArrival + 1 /\ tickScheduled' = TRUE
           /\ completed' = completed /\ failed' = failed
           /\ QueueType'
  <1>1. PICK n \in Nat : n = Len(waiting)
    BY Parts
  <1>2. Arrived(now) \in QueuedPayment
    BY <1>1 DEF Arrived, QueuedPayment, QueueType
  <1>3. waiting' = Append(waiting, Arrived(now))
    BY DEF EnqueueAt, Arrived
  <1>4. /\ waiting' \in Seq(QueuedPayment) /\ Len(waiting') = n + 1
        /\ DOMAIN waiting = 1..n /\ DOMAIN waiting' = 1..(n + 1)
        /\ \A i \in 1..n : waiting'[i] = waiting[i]
        /\ waiting'[n + 1] = Arrived(now)
    BY <1>1, <1>2, <1>3, AppendOne DEF QueueType
  <1>5. waiting' # <<>>
    <2>1. Len(waiting') # 0
      BY <1>1, <1>4
    <2> QED BY <2>1, <1>4, EmptySeq
  <1>6. maximumDepth' \in Nat
    <2>1. maximumDepth \in Int /\ n + 1 \in Int /\ maximumDepth' = Max({maximumDepth, n + 1})
      BY <1>1 DEF EnqueueAt, QueueType
    <2>2. maximumDepth' = maximumDepth \/ maximumDepth' = n + 1
      BY <2>1, MinMaxOfTwo
    <2> QED BY <2>2 DEF QueueType
  <1>7. QueueType'
    BY <1>4, <1>6 DEF QueueType, EnqueueAt
  <1> QED BY <1>1, <1>4, <1>5, <1>7 DEF EnqueueAt

\* What a tick does that starts the first done payments at time now and takes the
\* first gone out of the line.
TickTook(now, done, gone) ==
  /\ completed' = completed \o [i \in 1..done |-> Started(waiting[i], now)]
  /\ waiting' = SubSeq(waiting, gone + 1, Len(waiting))
  /\ failed' = failed \cup {waiting[i].arrival_order : i \in (done + 1)..gone}
  /\ UNCHANGED <<nextArrival, maximumDepth>>

\* The lines before and after it, by their lengths n and m before it.
TickShape(now, done, gone, n, m) ==
  /\ n = Len(waiting) /\ DOMAIN waiting = 1..n /\ gone <= n
  /\ m = Len(completed) /\ DOMAIN completed = 1..m
  /\ Len(waiting') = n - gone /\ DOMAIN waiting' = 1..(n - gone)
  /\ \A i \in 1..(n - gone) : i + gone \in 1..n /\ waiting'[i] = waiting[i + gone]
  /\ DOMAIN completed' = 1..(m + done)
  /\ \A i \in 1..m : completed'[i] = completed[i]
  /\ \A i \in 1..done : /\ i \in 1..n
                        /\ completed'[m + i] = Started(waiting[i], now)
  /\ waiting' = <<>> <=> gone = n

LEMMA TickEffect ==
  ASSUME QueueType, NEW now \in Nat, NEW done \in Nat, NEW gone \in Nat,
         done <= gone, gone <= Len(waiting), TickTook(now, done, gone),
         tickScheduled' \in BOOLEAN
  PROVE  QueueType' /\ \E n, m \in Nat : TickShape(now, done, gone, n, m)
  <1>1. PICK n, m \in Nat : n = Len(waiting) /\ m = Len(completed)
    BY Parts
  <1>2. /\ DOMAIN waiting = 1..n /\ DOMAIN completed = 1..m
        /\ waiting \in Seq(QueuedPayment) /\ completed \in Seq(CompletedPayment)
        /\ \A i \in 1..n : /\ waiting[i] \in QueuedPayment
                           /\ waiting[i].arrival_order \in Nat
    BY <1>1, Parts DEF QueueType
  <1>3. gone \in 0..Len(waiting) /\ gone <= n /\ \A i \in 1..gone : i \in 1..n
    BY <1>1
  <1>4. /\ waiting' \in Seq(QueuedPayment) /\ Len(waiting') = n - gone
        /\ DOMAIN waiting' = 1..(n - gone)
        /\ \A i \in 1..(n - gone) : waiting'[i] = waiting[i + gone]
        /\ gone = n <=> waiting' = <<>>
    <2>1. waiting' = SubSeq(waiting, gone + 1, Len(waiting))
      BY DEF TickTook
    <2>2. LET t == SubSeq(waiting, gone + 1, Len(waiting))
          IN  /\ t \in Seq(QueuedPayment) /\ Len(t) = Len(waiting) - gone
              /\ DOMAIN t = 1..(Len(waiting) - gone)
              /\ \A i \in 1..(Len(waiting) - gone) : t[i] = waiting[i + gone]
              /\ gone = Len(waiting) <=> t = <<>>
      BY <1>2, <1>3, Suffix
    <2> QED BY <2>1, <2>2, <1>1
  <1>5. \A i \in 1..(n - gone) : i + gone \in 1..n
    BY <1>3
  <1> DEFINE f == [i \in 1..done |-> Started(waiting[i], now)]
  <1>6. \A i \in 1..done : i \in 1..n /\ i \in 1..gone
    BY <1>3
  <1>7. f \in [1..done -> CompletedPayment]
    <2> SUFFICES ASSUME NEW i \in 1..done PROVE Started(waiting[i], now) \in CompletedPayment
      OBVIOUS
    <2>1. waiting[i] \in QueuedPayment
      BY <1>2, <1>6
    <2> QED BY <2>1 DEF Started, QueuedPayment, CompletedPayment
  <1>8. /\ completed' \in Seq(CompletedPayment)
        /\ DOMAIN completed' = 1..(m + done)
        /\ \A i \in 1..m : completed'[i] = completed[i]
        /\ \A i \in 1..done : completed'[m + i] = f[i]
    <2>1. completed' = completed \o f
      BY DEF TickTook
    <2> HIDE DEF f
    <2>2. LET t == completed \o f
          IN  /\ t \in Seq(CompletedPayment) /\ Len(t) = Len(completed) + done
              /\ DOMAIN t = 1..(Len(completed) + done)
              /\ \A i \in 1..Len(completed) : t[i] = completed[i]
              /\ \A i \in 1..done : t[Len(completed) + i] = f[i]
      BY <1>2, <1>7, Extended
    <2> QED BY <2>1, <2>2, <1>1
  <1>9. failed' \subseteq Nat
    <2>1. \A i \in (done + 1)..gone : i \in 1..n
      BY <1>3
    <2> QED BY <2>1, <1>2 DEF TickTook, QueueType
  <1>10. QueueType'
    BY <1>4, <1>8, <1>9 DEF QueueType, TickTook
  <1>11. TickShape(now, done, gone, n, m)
    BY <1>1, <1>2, <1>3, <1>4, <1>5, <1>6, <1>8 DEF TickShape
  <1> QED BY <1>10, <1>11

\* The payments that a tick takes are the first of the line.
LEMMA BatchIsFirst ==
  ASSUME QueueType
  PROVE  \E b \in Nat : /\ b <= Len(waiting) /\ b <= Capacity
                        /\ b < Len(waiting) => b = Capacity
                        /\ Len(Batch) = b /\ DOMAIN Batch = 1..b
                        /\ \A i \in 1..b : Batch[i] = waiting[i]
  <1>1. PICK n \in Nat : n = Len(waiting)
    BY Parts
  <1>2. PICK b \in Nat : b = Min({Capacity, Len(waiting)}) /\ b = IF Capacity <= n THEN Capacity ELSE n
    <2>1. Capacity \in Int /\ Len(waiting) \in Int
      BY <1>1, QueueInputs
    <2> QED BY <1>1, <2>1, MinMaxOfTwo, QueueInputs
  <1>3. b <= n /\ b <= Capacity /\ (b < n => b = Capacity)
    BY <1>2, QueueInputs
  <1>4. \A i \in 1..b : waiting[i] \in QueuedPayment
    BY <1>1, <1>3, Parts
  <1>5. Batch = SubSeq(waiting, 1, b)
    BY <1>2 DEF Batch
  <1>6. /\ Batch \in Seq(QueuedPayment)
        /\ Len(Batch) = IF 1 <= b THEN b - 1 + 1 ELSE 0
        /\ \A i \in 1..(b - 1 + 1) : Batch[i] = waiting[1 + i - 1]
    BY <1>4, <1>5, SubSeqProperties
  <1>7. Len(Batch) = b
    BY <1>6
  <1>8. ASSUME NEW i \in 1..b PROVE Batch[i] = waiting[i]
    <2>1. i \in 1..(b - 1 + 1) /\ 1 + i - 1 = i
      OBVIOUS
    <2> QED BY <2>1, <1>6
  <1>9. DOMAIN Batch = 1..b
    BY <1>6, <1>7, LenProperties
  <1> QED BY <1>1, <1>3, <1>7, <1>8, <1>9
-----------------------------------------------------------------------------
(***************************************************************************)
(* The order of the payments.                                              *)
(***************************************************************************)
LEMMA EnqueueKeepsOrder ==
  ASSUME QueueType, LineInOrder, LeftInOrder, NEW now \in Nat, EnqueueAt(now)
  PROVE  LineInOrder' /\ LeftInOrder'
  <1>1. PICK n \in Nat :
           /\ n = Len(waiting) /\ DOMAIN waiting = 1..n
           /\ Len(waiting') = n + 1 /\ DOMAIN waiting' = 1..(n + 1)
           /\ \A i \in 1..n : waiting'[i] = waiting[i]
           /\ waiting'[n + 1] = Arrived(now)
           /\ nextArrival' = nextArrival + 1
           /\ completed' = completed /\ failed' = failed
    BY EnqueueEffect
  <1>2. nextArrival \in Nat
    BY DEF QueueType
  <1>3. Left' = Left /\ Left \in Nat /\ Left = nextArrival - n
    BY <1>1, <1>2 DEF Left, LineInOrder
  <1>4. waiting'[n + 1].arrival_order = Left + (n + 1) - 1
    BY <1>1, <1>2, <1>3 DEF Arrived
  <1>5. \A i \in 1..n : waiting'[i].arrival_order = Left + i - 1
    BY <1>1 DEF LineInOrder
  <1>6. LineInOrder'
    <2>1. \A i \in DOMAIN waiting' : i \in 1..n \/ i = n + 1
      BY <1>1
    <2>2. \A i \in DOMAIN waiting' : waiting'[i].arrival_order = Left + i - 1
      BY <2>1, <1>4, <1>5
    <2> QED BY <2>2, <1>3 DEF LineInOrder
  <1>7. LeftInOrder'
    BY <1>1, <1>3 DEF LeftInOrder, CompletedOrders
  <1> QED BY <1>6, <1>7

LEMMA TickKeepsOrder ==
  ASSUME QueueType, LineInOrder, LeftInOrder,
         NEW now \in Nat, NEW done \in Nat, NEW gone \in Nat,
         done <= gone, gone <= Len(waiting), TickTook(now, done, gone),
         tickScheduled' \in BOOLEAN
  PROVE  LineInOrder' /\ LeftInOrder'
  <1>0. PICK n, m \in Nat : TickShape(now, done, gone, n, m)
    BY TickEffect
  <1>1. /\ n = Len(waiting) /\ DOMAIN waiting = 1..n /\ gone <= n
        /\ m = Len(completed) /\ DOMAIN completed = 1..m
        /\ Len(waiting') = n - gone /\ DOMAIN waiting' = 1..(n - gone)
        /\ \A i \in 1..(n - gone) : i + gone \in 1..n /\ waiting'[i] = waiting[i + gone]
        /\ DOMAIN completed' = 1..(m + done)
        /\ \A i \in 1..m : completed'[i] = completed[i]
        /\ \A i \in 1..done : /\ i \in 1..n
                              /\ completed'[m + i] = Started(waiting[i], now)
    BY <1>0 DEF TickShape
  <1>2. PICK left \in Nat : left = Left
    BY DEF LineInOrder
  <1>3. nextArrival \in Nat /\ nextArrival' = nextArrival /\ left = nextArrival - n
    BY <1>1, <1>2 DEF QueueType, TickTook, Left
  <1>4. Left' = left + gone /\ left + gone \in Nat
    <2>1. Left' = nextArrival - (n - gone)
      BY <1>1, <1>3 DEF Left
    <2> QED BY <2>1, <1>3
  <1>5. \A i \in 1..n : waiting[i].arrival_order = left + i - 1
    BY <1>1, <1>2 DEF LineInOrder
  <1>6. LineInOrder'
    <2>1. ASSUME NEW i \in 1..(n - gone)
          PROVE  waiting'[i].arrival_order = left + gone + i - 1
      <3>1. waiting'[i].arrival_order = left + (i + gone) - 1
        BY <1>1, <1>5
      <3> QED BY <3>1
    <2> QED BY <2>1, <1>1, <1>4 DEF LineInOrder
  <1>7. \A i \in 1..m : /\ completed[i].arrival_order \in Nat
                        /\ completed[i].arrival_order < left
    <2>1. \A i \in 1..m : completed[i].arrival_order \in 0..(left - 1)
      BY <1>1, <1>2 DEF LeftInOrder, CompletedOrders
    <2> QED BY <2>1
  <1>8. ASSUME NEW i \in 1..done PROVE completed'[m + i].arrival_order = left + i - 1
    <2>1. completed'[m + i].arrival_order = waiting[i].arrival_order
      <3>1. completed'[m + i] = Started(waiting[i], now)
        BY <1>1
      <3>2. Started(waiting[i], now).arrival_order = waiting[i].arrival_order
        BY DEF Started
      <3> QED BY <3>1, <3>2
    <2> QED BY <2>1, <1>1, <1>5
  <1>9. \A i \in 1..m : completed'[i].arrival_order = completed[i].arrival_order
    BY <1>1
  <1>10. \A i \in 1..(m + done) : i \in 1..m \/ (i - m \in 1..done /\ i = m + (i - m))
    OBVIOUS
  <1>11. ASSUME NEW i \in 1..(m + done), NEW j \in 1..(m + done), i < j
         PROVE  completed'[i].arrival_order < completed'[j].arrival_order
    <2>1. CASE i \in 1..m /\ j \in 1..m
      BY <2>1, <1>1, <1>9, <1>11 DEF LeftInOrder
    <2>2. CASE i \in 1..m /\ j \notin 1..m
      <3>1. j - m \in 1..done /\ completed'[j].arrival_order = left + (j - m) - 1
        BY <2>2, <1>8, <1>10
      <3>2. /\ completed'[i].arrival_order \in Nat
            /\ completed'[i].arrival_order < left
        BY <2>2, <1>7, <1>9
      <3>3. left + (j - m) - 1 >= left
        BY <3>1
      <3> QED BY SMTT(30), <3>1, <3>2, <3>3
    <2>3. CASE i \notin 1..m
      <3>1. /\ i - m \in 1..done /\ completed'[i].arrival_order = left + (i - m) - 1
        BY <2>3, <1>8, <1>10
      <3>2. j \notin 1..m
        BY <2>3, <1>11
      <3>3. /\ j - m \in 1..done /\ completed'[j].arrival_order = left + (j - m) - 1
        BY <3>2, <1>8, <1>10
      <3>4. left + (i - m) - 1 < left + (j - m) - 1
        BY <1>11
      <3> QED BY <3>1, <3>3, <3>4
    <2> QED BY <2>1, <2>2, <2>3
  <1>12. CompletedOrders' = CompletedOrders \cup (left..(left + done - 1))
    <2>1. ASSUME NEW x \in CompletedOrders'
          PROVE  x \in CompletedOrders \cup (left..(left + done - 1))
      <3>1. PICK i \in 1..(m + done) : x = completed'[i].arrival_order
        BY <1>1 DEF CompletedOrders
      <3>2. CASE i \in 1..m
        BY <3>1, <3>2, <1>1, <1>9 DEF CompletedOrders
      <3>3. CASE i \notin 1..m
        BY <3>1, <3>3, <1>8, <1>10
      <3> QED BY <3>2, <3>3
    <2>2. ASSUME NEW x \in CompletedOrders PROVE x \in CompletedOrders'
      <3>1. PICK i \in 1..m : x = completed[i].arrival_order
        BY <1>1 DEF CompletedOrders
      <3>2. i \in 1..(m + done)
        OBVIOUS
      <3> QED BY <3>1, <3>2, <1>1 DEF CompletedOrders
    <2>3. ASSUME NEW x \in left..(left + done - 1) PROVE x \in CompletedOrders'
      <3>1. x - left + 1 \in 1..done /\ m + (x - left + 1) \in 1..(m + done)
        OBVIOUS
      <3>2. completed'[m + (x - left + 1)].arrival_order = left + (x - left + 1) - 1
        BY <3>1, <1>8
      <3>3. left + (x - left + 1) - 1 = x
        OBVIOUS
      <3> QED BY <3>1, <3>2, <3>3, <1>1 DEF CompletedOrders
    <2> QED BY <2>1, <2>2, <2>3
  <1>13. failed' = failed \cup ((left + done)..(left + gone - 1))
    <2> DEFINE raised == {waiting[i].arrival_order : i \in (done + 1)..gone}
    <2>1. \A i \in (done + 1)..gone : i \in 1..n
      BY <1>1
    <2>2. ASSUME NEW x \in raised PROVE x \in (left + done)..(left + gone - 1)
      <3>1. PICK i \in (done + 1)..gone : x = waiting[i].arrival_order
        OBVIOUS
      <3>2. x = left + i - 1
        BY <3>1, <2>1, <1>5
      <3> QED BY <3>2
    <2>3. ASSUME NEW x \in (left + done)..(left + gone - 1) PROVE x \in raised
      <3>1. x - left + 1 \in (done + 1)..gone
        OBVIOUS
      <3>2. waiting[x - left + 1].arrival_order = left + (x - left + 1) - 1
        BY <3>1, <2>1, <1>5
      <3>3. left + (x - left + 1) - 1 = x
        OBVIOUS
      <3> QED BY <3>1, <3>2, <3>3
    <2>4. raised = (left + done)..(left + gone - 1)
      BY <2>2, <2>3
    <2> QED BY <2>4 DEF TickTook
  <1>14. /\ CompletedOrders \cup failed = 0..(left - 1)
         /\ CompletedOrders \cap failed = {}
    BY <1>2 DEF LeftInOrder
  <1>15. CompletedOrders' \cup failed' = 0..(left + gone - 1)
    <2>1. \A x : x \in 0..(left + gone - 1) <=>
             \/ x \in 0..(left - 1) \/ x \in left..(left + done - 1)
             \/ x \in (left + done)..(left + gone - 1)
      OBVIOUS
    <2> QED BY <2>1, <1>12, <1>13, <1>14
  <1>16. CompletedOrders' \cap failed' = {}
    <2>1. \A x : /\ x \in CompletedOrders \/ x \in failed => x \in 0..(left - 1)
                 /\ ~(x \in 0..(left - 1) /\ x \in left..(left + done - 1))
                 /\ ~(x \in 0..(left - 1) /\ x \in (left + done)..(left + gone - 1))
                 /\ ~(x \in left..(left + done - 1) /\ x \in (left + done)..(left + gone - 1))
      BY <1>14
    <2> QED BY <2>1, <1>12, <1>13, <1>14
  <1>17. LeftInOrder'
    BY <1>1, <1>4, <1>11, <1>15, <1>16 DEF LeftInOrder
  <1> QED BY <1>6, <1>17
-----------------------------------------------------------------------------
(***************************************************************************)
(* The scheduler.                                                          *)
(***************************************************************************)
TickAt(time) == [time |-> time, order |-> nextOrder, callback |-> <<"tick">>]

\* What the scheduler's state is made of.
LEMMA Schedule ==
  ASSUME SchedInv
  PROVE  /\ clock \in Nat /\ nextOrder \in Nat /\ jumped \in Nat
         /\ queue \subseteq Sched!Event
         /\ \A e \in queue : /\ e.time \in Nat /\ e.order \in Nat /\ e.order < nextOrder
                             /\ e.callback \in Callback
  BY DEF SchedInv, Sched!TypeOK, Sched!Event

\* A new event keeps the scheduler's types.
LEMMA NewEvent ==
  ASSUME SchedInv, NEW time \in Nat, NEW callback \in Callback
  PROVE  LET e == [time |-> time, order |-> nextOrder, callback |-> callback]
         IN  e \in Sched!Event /\ e.order = nextOrder /\ e.callback = callback /\ e.time = time
  BY Schedule DEF Sched!Event

\* A call of schedule_at.
LEMMA ScheduleAtEffect ==
  ASSUME SchedInv, NEW time \in Nat, NEW callback \in Callback,
         Sched!ScheduleAt(time, callback)
  PROVE  /\ SchedInv' /\ time >= clock
         /\ UNCHANGED <<clock, jumped, lost>>
         /\ queue' = queue \cup {[time |-> time, order |-> nextOrder, callback |-> callback]}
  <1> DEFINE e == [time |-> time, order |-> nextOrder, callback |-> callback]
  <1>1. e \in Sched!Event /\ e.order = nextOrder
    BY NewEvent
  <1>2. /\ queue' = queue \cup {e} /\ nextOrder' = nextOrder + 1 /\ nextOrder \in Nat
        /\ time >= clock /\ UNCHANGED <<clock, history, lost, jumped>>
    BY Schedule DEF Sched!ScheduleAt
  <1> HIDE DEF e
  <1>3. SchedInv'
    <2>1. \A f \in queue' : f.order < nextOrder'
      BY <1>1, <1>2, Schedule
    <2> QED BY <2>1, <1>1, <1>2 DEF SchedInv, Sched!TypeOK
  <1> QED BY <1>2, <1>3 DEF e

\* A run event that schedules the next tick, or nothing.
LEMMA RunEventEffect ==
  ASSUME SchedInv, NEW e \in queue, NEW pushes, NEW returns \in BOOLEAN,
         NEW again \in BOOLEAN, Sched!RunEvent(e, pushes, returns),
         pushes = IF again THEN NextTick(e) ELSE <<>>
  PROVE  /\ SchedInv'
         /\ clock' = e.time /\ clock <= e.time /\ jumped' = jumped
         /\ DroppedTicks' = DroppedTicks
         /\ \A f \in queue : e.time <= f.time
         /\ \A g : g \in queue' <=> \/ g \in queue /\ g # e
                                    \/ again /\ g = TickAt(e.time + 1)
  <1> DEFINE t == TickAt(e.time + 1)
  <1>1. /\ clock' = e.time /\ clock <= e.time /\ jumped' = jumped
        /\ e.time \in Nat /\ e.order \in Nat /\ nextOrder \in Nat
        /\ queue' = (queue \ {e}) \cup Sched!Pushed(pushes)
        /\ nextOrder' = nextOrder + Len(pushes)
    BY Schedule DEF Sched!RunEvent
  <1>2. t \in Sched!Event /\ t.order = nextOrder
    <2>1. <<"tick">> \in Callback /\ e.time + 1 \in Nat
      BY <1>1 DEF Callback
    <2> QED BY <2>1, NewEvent DEF TickAt
  <1>3. /\ Sched!Pushed(pushes) = IF again THEN {t} ELSE {}
        /\ Len(pushes) = IF again THEN 1 ELSE 0
    <2>1. CASE again
      <3> DEFINE p == [time |-> e.time + 1, callback |-> <<"tick">>]
      <3>1. pushes = <<p>>
        BY <2>1 DEF NextTick
      <3>2. Len(pushes) = 1 /\ DOMAIN pushes = {1} /\ pushes[1] = p
        BY <3>1
      <3>3. [time |-> pushes[1].time, order |-> nextOrder + 1 - 1, callback |-> pushes[1].callback] = t
        BY <3>2, <1>1 DEF TickAt
      <3> HIDE DEF t, p
      <3>4. Sched!Pushed(pushes) = {t}
        BY <3>2, <3>3 DEF Sched!Pushed
      <3> QED BY <2>1, <3>2, <3>4
    <2>2. CASE ~again
      BY <2>2 DEF Sched!Pushed
    <2> QED BY <2>1, <2>2
  <1> HIDE DEF t
  <1>4. \A g : g \in queue' <=> (g \in queue /\ g # e) \/ (again /\ g = t)
    BY <1>1, <1>3
  <1>5. /\ history' \in Seq(Sched!Execution)
        /\ lost' \subseteq [event : Sched!Event, cause : Sched!Cause]
        /\ jumped' \in Nat
    <2>1. history \in Seq(Sched!Execution) /\ [time |-> e.time, order |-> e.order] \in Sched!Execution
      BY <1>1 DEF SchedInv, Sched!TypeOK, Sched!Execution
    <2>2. Append(history, [time |-> e.time, order |-> e.order]) \in Seq(Sched!Execution)
      BY <2>1, AppendOne
    <2>3. [event |-> e, cause |-> "raised"] \in [event : Sched!Event, cause : Sched!Cause]
      BY Schedule DEF Sched!Cause
    <2> QED BY <1>1, <2>1, <2>2, <2>3 DEF Sched!RunEvent, SchedInv, Sched!TypeOK
  <1>6. SchedInv'
    <2>1. nextOrder' \in Nat /\ nextOrder' >= nextOrder /\ (again => nextOrder' = nextOrder + 1)
      BY <1>1, <1>3
    <2>2. \A f \in queue' : f \in Sched!Event /\ f.order < nextOrder'
      BY <2>1, <1>2, <1>4, Schedule
    <2> QED BY <2>1, <2>2, <1>1, <1>5 DEF SchedInv, Sched!TypeOK
  <1>7. DroppedTicks' = DroppedTicks
    <2>1. \A l : l.cause = "overdue" => (l \in lost' <=> l \in lost)
      BY DEF Sched!RunEvent
    <2> QED BY <2>1 DEF DroppedTicks
  <1>8. \A f \in queue : e.time <= f.time
    BY <1>1, Schedule DEF Sched!RunEvent, Sched!IsNext, Sched!Before
  <1> QED BY <1>1, <1>4, <1>6, <1>7, <1>8 DEF t
-----------------------------------------------------------------------------
(***************************************************************************)
(* An arrival.                                                             *)
(***************************************************************************)
LEMMA TicksAreNumbers == \A n \in Nat : TicksFor(n) \in Nat
  <1> SUFFICES ASSUME NEW n \in Nat PROVE TicksFor(n) \in Nat
    OBVIOUS
  <1>1. n + Capacity - 1 \in Nat /\ Capacity \in Nat \ {0}
    BY QueueInputs
  <1> QED BY <1>1 DEF TicksFor

\* Directly, or run by the scheduler.
LEMMA ArrivalKeeps ==
  ASSUME Inv, SchedInv', NEW now \in Nat, NEW gone, EnqueueAt(now),
         clock' = now, clock <= now, jumped' = jumped, DroppedTicks' = DroppedTicks,
         \A g \in gone : g.callback # <<"tick">>,
         \A g : g \in queue' <=> \/ g \in queue /\ g \notin gone
                                 \/ ~tickScheduled /\ g = TickAt(now + 1),
         now = clock \/ \A f \in queue : now <= f.time
  PROVE  Inv'
  <1> DEFINE t == TickAt(now + 1)
  <1>1. /\ SchedInv /\ QueueType /\ LineInOrder /\ LeftInOrder /\ OneTick /\ StartedBefore
        /\ CapacityPerMinute /\ OnTime /\ PromiseAhead /\ WaitMatchesPosition
        /\ clock \in Nat /\ jumped \in Nat /\ \A e \in queue : e.time \in Nat
    BY Schedule DEF Inv
  <1>2. PICK n \in Nat :
           /\ n = Len(waiting) /\ DOMAIN waiting = 1..n
           /\ Len(waiting') = n + 1 /\ DOMAIN waiting' = 1..(n + 1)
           /\ \A i \in 1..n : waiting'[i] = waiting[i]
           /\ waiting'[n + 1] = Arrived(now)
           /\ waiting' # <<>> /\ tickScheduled' = TRUE
           /\ completed' = completed /\ failed' = failed
           /\ QueueType'
    BY <1>1, EnqueueEffect
  <1>3. t.callback = <<"tick">> /\ t.time = now + 1
    BY DEF TickAt
  <1> HIDE DEF t
  <1>4. \A g : g \in Ticks' <=> g \in Ticks \/ (~tickScheduled /\ g = t)
    BY <1>3 DEF Ticks, t
  <1>5. OneTick'
    <2>1. CASE tickScheduled
      <3>1. Ticks' = Ticks
        BY <2>1, <1>4
      <3> QED BY <2>1, <3>1, <1>1, <1>2 DEF OneTick
    <2>2. CASE ~tickScheduled
      <3>1. Ticks' = {t} /\ DroppedTicks' = {}
        BY <2>2, <1>1, <1>4 DEF OneTick
      <3> QED BY <3>1, <1>2 DEF OneTick
    <2> QED BY <2>1, <2>2
  <1>6. StartedBefore'
    <2>1. \A i \in DOMAIN completed : /\ completed[i].processing_started_at \in Nat
                                      /\ completed[i].processing_started_at <= now
      BY <1>1, Parts DEF StartedBefore
    <2>2. ASSUME NEW e \in Ticks', NEW i \in DOMAIN completed
          PROVE  completed[i].processing_started_at < e.time
      <3>1. CASE e \in Ticks
        BY <3>1, <1>1 DEF StartedBefore
      <3>2. CASE e = t
        BY <3>2, <2>1, <1>3
      <3> QED BY <3>1, <3>2, <1>4
    <2> QED BY <2>1, <2>2, <1>2 DEF StartedBefore
  <1>7. CapacityPerMinute' /\ WaitMatchesPosition'
    BY <1>1, <1>2 DEF CapacityPerMinute, WaitMatchesPosition
  <1>8. jumped = 0 => /\ \A e \in queue' : e.time >= now
                      /\ \A e \in Ticks' : e.time <= now + 1
                      /\ DroppedTicks' = {}
    <2> SUFFICES ASSUME jumped = 0
                 PROVE  /\ \A e \in queue' : e.time >= now
                        /\ \A e \in Ticks' : e.time <= now + 1
                        /\ DroppedTicks' = {}
      OBVIOUS
    <2>1. ASSUME NEW e \in queue PROVE e.time >= now
      BY <1>1 DEF OnTime
    <2>2. ASSUME NEW e \in Ticks PROVE e.time <= now + 1
      <3>1. e.time <= clock + 1 /\ e.time \in Nat
        BY <1>1 DEF OnTime, Ticks
      <3> QED BY <3>1, <1>1
    <2> QED BY <2>1, <2>2, <1>1, <1>3, <1>4 DEF OnTime, t
  <1>9. OnTime'
    BY <1>1, <1>8 DEF OnTime
  <1>10. PromiseAhead'
    <2> SUFFICES ASSUME failed = {}, jumped = 0, NEW e \in Ticks', NEW i \in 1..(n + 1)
                 PROVE  OnPromise(waiting'[i], e.time + TicksFor(i) - 1)
      BY <1>2 DEF PromiseAhead
    <2>1. CASE i \in 1..n
      <3>1. waiting # <<>>
        <4>1. Len(waiting) # 0
          BY <2>1, <1>2
        <4> QED BY <4>1, <1>1, EmptySeq DEF QueueType
      <3>2. tickScheduled
        BY <3>1, <1>1 DEF OneTick
      <3>3. e \in Ticks
        BY <3>2, <1>4
      <3> QED BY <2>1, <3>3, <1>1, <1>2 DEF PromiseAhead
    <2>2. CASE i = n + 1
      <3>1. e.time \in {now, now + 1}
        <4>1. e \in queue' /\ e.time >= now /\ e.time <= now + 1
          BY <1>8 DEF Ticks
        <4>2. e.time \in Nat
          BY <4>1, <1>1, <1>3 DEF t
        <4> QED BY <4>1, <4>2
      <3>2. waiting'[i].queued_at = now /\ waiting'[i].queue_position = n + 1
        BY <2>2, <1>2 DEF Arrived
      <3>3. TicksFor(n + 1) \in Nat
        BY TicksAreNumbers
      <3> QED BY <2>2, <3>1, <3>2, <3>3 DEF OnPromise
    <2> QED BY <2>1, <2>2
  <1>11. LineInOrder' /\ LeftInOrder'
    BY <1>1, EnqueueKeepsOrder
  <1> QED BY <1>2, <1>5, <1>6, <1>7, <1>9, <1>10, <1>11 DEF Inv
-----------------------------------------------------------------------------
(***************************************************************************)
(* A tick.                                                                 *)
(***************************************************************************)
LEMMA TicksOfPlaces ==
  /\ \A i \in 1..Capacity : TicksFor(i) = 1
  /\ \A i \in Nat \ {0} : TicksFor(i + Capacity) = TicksFor(i) + 1
  <1>0. Capacity \in Nat \ {0}
    BY QueueInputs
  <1>1. ASSUME NEW i \in 1..Capacity PROVE TicksFor(i) = 1
    <2>1. i - 1 \in Nat /\ i - 1 < Capacity /\ i + Capacity - 1 = (i - 1) + Capacity
      BY <1>0
    <2>2. (i - 1) \div Capacity = 0
      BY <1>0, <2>1
    <2>3. ((i - 1) + Capacity) \div Capacity = ((i - 1) \div Capacity) + 1
      BY <1>0, <2>1
    <2> QED BY <2>1, <2>2, <2>3 DEF TicksFor
  <1>2. ASSUME NEW i \in Nat \ {0} PROVE TicksFor(i + Capacity) = TicksFor(i) + 1
    <2> DEFINE a == i + Capacity - 1
    <2>1. a \in Nat /\ i + Capacity + Capacity - 1 = a + Capacity
      BY <1>0
    <2> HIDE DEF a
    <2>2. (a + Capacity) \div Capacity = (a \div Capacity) + 1
      BY <1>0, <2>1
    <2> QED BY <2>1, <2>2 DEF TicksFor, a
  <1> QED BY <1>1, <1>2

\* A tick that starts done payments and takes gone out of the line, at most its
\* capacity, and comes again or not.
LEMMA TickKeeps ==
  ASSUME Inv, SchedInv', NEW e \in Ticks, NEW done \in Nat, NEW gone \in Nat,
         done <= gone, done <= Capacity, gone <= Len(waiting),
         TickTook(e.time, done, gone),
         NEW again \in BOOLEAN, tickScheduled' = again,
         again => waiting' # <<>> /\ gone = Capacity,
         waiting' # <<>> /\ ~again => failed' # {},
         clock' = e.time, clock <= e.time, jumped' = jumped,
         DroppedTicks' = DroppedTicks,
         \A f \in queue : e.time <= f.time,
         \A g : g \in queue' <=> \/ g \in queue /\ g # e
                                 \/ again /\ g = TickAt(e.time + 1)
  PROVE  Inv'
  <1> DEFINE t == TickAt(e.time + 1)
  <1>1. /\ SchedInv /\ QueueType /\ LineInOrder /\ LeftInOrder /\ OneTick /\ StartedBefore
        /\ CapacityPerMinute /\ OnTime /\ PromiseAhead /\ WaitMatchesPosition
        /\ clock \in Nat /\ jumped \in Nat /\ \A f \in queue : f.time \in Nat
        /\ e.time \in Nat
    BY Schedule DEF Inv, Ticks
  <1>2. PICK n, m \in Nat : TickShape(e.time, done, gone, n, m)
    BY <1>1, TickEffect
  <1>q. QueueType'
    BY <1>1, TickEffect
  <1>3. t.callback = <<"tick">> /\ t.time = e.time + 1
    BY DEF TickAt
  <1> HIDE DEF t
  <1>4. Ticks = {e} /\ DroppedTicks = {}
    BY <1>1 DEF OneTick
  <1>5. Ticks' = IF again THEN {t} ELSE {}
    <2>1. \A g : g \in Ticks' <=> again /\ g = t
      BY <1>3, <1>4 DEF Ticks, t
    <2> QED BY <2>1
  <1>6. OneTick'
    BY <1>4, <1>5 DEF OneTick
  <1>7. /\ DOMAIN completed = 1..m /\ DOMAIN completed' = 1..(m + done)
        /\ \A i \in 1..m : completed'[i] = completed[i]
    BY <1>2 DEF TickShape
  <1>8. \A i \in 1..done : completed'[m + i].processing_started_at = e.time
    <2> SUFFICES ASSUME NEW i \in 1..done
                 PROVE  completed'[m + i].processing_started_at = e.time
      OBVIOUS
    <2>1. completed'[m + i] = Started(waiting[i], e.time)
      BY <1>2 DEF TickShape
    <2>2. Started(waiting[i], e.time).processing_started_at = e.time
      BY DEF Started
    <2> QED BY <2>1, <2>2
  <1>9. \A i \in 1..m : /\ completed[i].processing_started_at \in Nat
                        /\ completed[i].processing_started_at < e.time
    BY <1>1, <1>7, Parts DEF StartedBefore
  <1>10. \A i \in 1..(m + done) : i \in 1..m \/ (i - m \in 1..done /\ m + (i - m) = i)
    OBVIOUS
  <1>11. \A i \in 1..(m + done) :
            /\ i \in 1..m => completed'[i].processing_started_at
                               = completed[i].processing_started_at
            /\ i \notin 1..m => completed'[i].processing_started_at = e.time
    <2> SUFFICES ASSUME NEW i \in 1..(m + done), i \notin 1..m
                 PROVE  completed'[i].processing_started_at = e.time
      BY <1>7
    <2>1. i - m \in 1..done /\ m + (i - m) = i
      BY <1>10
    <2>2. completed'[m + (i - m)].processing_started_at = e.time
      BY <2>1, <1>8
    <2> QED BY <2>1, <2>2
  <1>12. StartedBefore'
    <2>1. \A i \in 1..(m + done) : /\ completed'[i].processing_started_at \in Nat
                                   /\ completed'[i].processing_started_at <= e.time
      BY <1>1, <1>9, <1>11
    <2>2. ASSUME NEW f \in Ticks', NEW i \in 1..(m + done)
          PROVE  completed'[i].processing_started_at < f.time
      <3>1. f.time = e.time + 1
        BY <1>3, <1>5
      <3> QED BY <3>1, <2>1, <1>1
    <2> QED BY <2>1, <2>2, <1>7 DEF StartedBefore
  <1>13. CapacityPerMinute'
    <2> SUFFICES ASSUME NEW i \in 1..(m + done)
                 PROVE  Cardinality({j \in 1..(m + done) :
                           completed'[j].processing_started_at
                             = completed'[i].processing_started_at}) <= Capacity
      BY <1>7 DEF CapacityPerMinute
    <2>1. CASE i \in 1..m
      <3>1. {j \in 1..(m + done) : completed'[j].processing_started_at
                                     = completed'[i].processing_started_at}
              = {j \in 1..m : completed[j].processing_started_at
                                = completed[i].processing_started_at}
        BY <2>1, <1>9, <1>11
      <3> QED BY <2>1, <3>1, <1>1, <1>7 DEF CapacityPerMinute
    <2>2. CASE i \notin 1..m
      <3>1. {j \in 1..(m + done) : completed'[j].processing_started_at
                                     = completed'[i].processing_started_at}
              = (m + 1)..(m + done)
        <4>1. \A j \in 1..(m + done) : j \in (m + 1)..(m + done) <=> j \notin 1..m
          OBVIOUS
        <4>2. \A j \in (m + 1)..(m + done) : j \in 1..(m + done)
          OBVIOUS
        <4> QED BY <2>2, <4>1, <4>2, <1>9, <1>11
      <3>2. Cardinality((m + 1)..(m + done)) = IF m + 1 > m + done THEN 0 ELSE (m + done) - (m + 1) + 1
        BY FS_Interval
      <3>3. (IF m + 1 > m + done THEN 0 ELSE (m + done) - (m + 1) + 1) <= Capacity
        BY QueueInputs
      <3>4. Cardinality((m + 1)..(m + done)) <= Capacity
        BY <3>2, <3>3
      <3> QED BY <3>1, <3>4
    <2> QED BY <2>1, <2>2
  <1>14. OnTime'
    <2>1. jumped <= e.time
      BY <1>1 DEF OnTime
    <2>2. \A f \in queue' : f.time >= e.time
      BY <1>1, <1>3 DEF t
    <2>3. \A f \in Ticks' : f.time <= e.time + 1
      BY <1>1, <1>3, <1>5
    <2> QED BY <2>1, <2>2, <2>3, <1>4 DEF OnTime
  <1>15. failed' = {} /\ jumped' = 0 =>
            \A i \in 1..n : OnPromise(waiting[i], e.time + TicksFor(i) - 1)
    <2> SUFFICES ASSUME failed' = {}, jumped = 0, NEW i \in 1..n
                 PROVE  OnPromise(waiting[i], e.time + TicksFor(i) - 1)
      OBVIOUS
    <2>1. failed = {}
      BY DEF TickTook
    <2>2. DOMAIN waiting = 1..n
      BY <1>2 DEF TickShape
    <2> QED BY <2>1, <2>2, <1>1 DEF PromiseAhead
  <1>16. PromiseAhead'
    <2> SUFFICES ASSUME failed' = {}, jumped' = 0, NEW f \in Ticks', NEW i \in DOMAIN waiting'
                 PROVE  OnPromise(waiting'[i], f.time + TicksFor(i) - 1)
      BY DEF PromiseAhead
    <2>1. again /\ f = t /\ f.time = e.time + 1 /\ gone = Capacity
      BY <1>3, <1>5
    <2>2. i \in 1..(n - gone) /\ i + gone \in 1..n /\ waiting'[i] = waiting[i + gone]
      BY <1>2 DEF TickShape
    <2>3. TicksFor(i + Capacity) = TicksFor(i) + 1 /\ TicksFor(i) \in Nat
      BY <2>2, TicksOfPlaces, TicksAreNumbers
    <2>4. OnPromise(waiting[i + gone], e.time + TicksFor(i + gone) - 1)
      BY <2>2, <1>15
    <2>5. e.time + TicksFor(i + gone) - 1 = f.time + TicksFor(i) - 1
      BY <2>1, <2>3, <1>1
    <2> QED BY <2>2, <2>4, <2>5
  <1>17. WaitMatchesPosition'
    <2> SUFFICES ASSUME failed' = {}, jumped' = 0, NEW i \in 1..(m + done)
                 PROVE  OnPromise(completed'[i], completed'[i].processing_started_at)
      BY <1>7 DEF WaitMatchesPosition, OnPromise, TicksFor
    <2>1. failed = {}
      BY DEF TickTook
    <2>2. CASE i \in 1..m
      BY <2>1, <2>2, <1>1, <1>7 DEF WaitMatchesPosition, OnPromise, TicksFor
    <2>3. CASE i \notin 1..m
      <3>1. i - m \in 1..done /\ m + (i - m) = i
        BY <2>3, <1>10
      <3>2. i - m \in 1..n /\ completed'[m + (i - m)] = Started(waiting[i - m], e.time)
        BY <3>1, <1>2 DEF TickShape
      <3>3. completed'[i] = Started(waiting[i - m], e.time)
        BY <3>1, <3>2
      <3>4. TicksFor(i - m) = 1
        <4>1. i - m \in 1..Capacity
          BY <3>1, QueueInputs
        <4> QED BY <4>1, TicksOfPlaces
      <3>5. OnPromise(waiting[i - m], e.time + TicksFor(i - m) - 1)
        BY <3>2, <1>15
      <3>6. OnPromise(waiting[i - m], e.time)
        <4>1. e.time + TicksFor(i - m) - 1 = e.time
          BY <3>4, <1>1
        <4> QED BY <3>5, <4>1
      <3> DEFINE item == Started(waiting[i - m], e.time)
      <3>7. /\ item.queued_at = waiting[i - m].queued_at
            /\ item.queue_position = waiting[i - m].queue_position
            /\ item.processing_started_at = e.time
        BY DEF Started
      <3> QED BY <3>3, <3>6, <3>7 DEF OnPromise
    <2> QED BY <2>2, <2>3
  <1>18. LineInOrder' /\ LeftInOrder'
    BY <1>1, TickKeepsOrder
  <1> QED BY <1>q, <1>6, <1>12, <1>13, <1>14, <1>16, <1>17, <1>18 DEF Inv
-----------------------------------------------------------------------------
(***************************************************************************)
(* Steps that leave the queue and its worker alone.                        *)
(***************************************************************************)
LEMMA QuietKeeps ==
  ASSUME Inv, SchedInv', UNCHANGED queueVars, Ticks' = Ticks, DroppedTicks' = DroppedTicks,
         clock <= clock', jumped' = 0 => jumped = 0, OnTime'
  PROVE  Inv'
  <1>1. /\ SchedInv /\ QueueType /\ LineInOrder /\ LeftInOrder /\ OneTick /\ StartedBefore
        /\ CapacityPerMinute /\ OnTime /\ PromiseAhead /\ WaitMatchesPosition
        /\ clock \in Nat
    BY Schedule DEF Inv
  <1>2. clock' \in Nat
    <2>1. Sched!TypeOK'
      BY DEF SchedInv
    <2> QED BY <2>1 DEF Sched!TypeOK
  <1>3. UNCHANGED <<waiting, completed, nextArrival, maximumDepth, tickScheduled, failed>>
    BY DEF queueVars
  <1>4. QueueType' /\ LineInOrder' /\ LeftInOrder' /\ OneTick' /\ CapacityPerMinute'
    BY <1>1, <1>3 DEF QueueType, LineInOrder, LeftInOrder, Left, CompletedOrders, OneTick,
                      CapacityPerMinute
  <1>5. StartedBefore'
    <2>1. \A i \in DOMAIN completed : completed[i].processing_started_at \in Nat
      BY <1>1, Parts
    <2> QED BY <2>1, <1>1, <1>2, <1>3 DEF StartedBefore
  <1>6. PromiseAhead' /\ WaitMatchesPosition'
    BY <1>1, <1>3 DEF PromiseAhead, WaitMatchesPosition
  <1> QED BY <1>4, <1>5, <1>6 DEF Inv

LEMMA ArrivalScheduledKeeps ==
  ASSUME Inv, NEW time \in 0..MaxArrivalTime, ScheduleArrival(time)
  PROVE  Inv'
  <1> DEFINE a == [time |-> time, order |-> nextOrder, callback |-> <<"arrive">>]
  <1>1. /\ SchedInv /\ OnTime /\ time \in Nat /\ <<"arrive">> \in Callback
        /\ Sched!ScheduleAt(time, <<"arrive">>) /\ UNCHANGED queueVars
    BY QueueInputs DEF Inv, ScheduleArrival, Callback
  <1>2. /\ SchedInv' /\ time >= clock /\ UNCHANGED <<clock, jumped, lost>>
        /\ queue' = queue \cup {a}
    BY <1>1, ScheduleAtEffect
  <1>3. a.callback # <<"tick">> /\ a.time = time
    OBVIOUS
  <1> HIDE DEF a
  <1>4. Ticks' = Ticks /\ DroppedTicks' = DroppedTicks
    BY <1>2, <1>3 DEF Ticks, DroppedTicks
  <1>5. OnTime'
    BY <1>1, <1>2, <1>3, <1>4 DEF OnTime
  <1>6. clock <= clock'
    BY <1>1, <1>2, Schedule
  <1> QED BY <1>1, <1>2, <1>4, <1>5, <1>6, QuietKeeps

LEMMA JumpKeeps ==
  ASSUME Inv, NEW time \in JumpTimes, Jump(time)
  PROVE  Inv'
  <1>1. /\ SchedInv /\ OnTime /\ clock \in Nat /\ jumped \in Nat
        /\ time \in Nat /\ time >= clock /\ clock' = time /\ jumped' = time
        /\ UNCHANGED <<queue, nextOrder, history, lost>> /\ UNCHANGED queueVars
    BY Schedule DEF Inv, Jump, Sched!AdvanceTo
  <1>2. SchedInv'
    BY <1>1 DEF SchedInv, Sched!TypeOK
  <1>3. Ticks' = Ticks /\ DroppedTicks' = DroppedTicks
    BY <1>1 DEF Ticks, DroppedTicks
  <1>4. jumped' = 0 => jumped = 0 /\ clock' = clock
    BY <1>1 DEF OnTime
  <1>5. OnTime'
    BY <1>1, <1>3, <1>4 DEF OnTime
  <1>6. clock <= clock'
    BY <1>1
  <1> QED BY <1>1, <1>2, <1>3, <1>4, <1>5, <1>6, QuietKeeps

\* An event is dropped: when it is the tick, the flag stays set.
LEMMA DropKeeps ==
  ASSUME Inv, NEW e \in queue, Sched!DropOverdue(e), UNCHANGED queueVars
  PROVE  Inv'
  <1> DEFINE d == [event |-> e, cause |-> "overdue"]
  <1>1. /\ SchedInv /\ OneTick /\ OnTime /\ StartedBefore /\ clock \in Nat /\ jumped \in Nat
        /\ e.time \in Nat /\ e.time < clock
        /\ queue' = queue \ {e} /\ lost' = lost \cup {d}
        /\ UNCHANGED <<clock, nextOrder, history, jumped>>
    BY Schedule DEF Inv, Sched!DropOverdue
  <1>2. d \in [event : Sched!Event, cause : Sched!Cause] /\ d.event = e /\ d.cause = "overdue"
    <2>1. e \in Sched!Event
      BY <1>1, Schedule
    <2> QED BY <2>1 DEF Sched!Cause
  <1> HIDE DEF d
  <1>3. SchedInv'
    BY <1>1, <1>2 DEF SchedInv, Sched!TypeOK
  <1>4. jumped # 0
    BY <1>1 DEF OnTime
  <1>5. OnTime'
    BY <1>1, <1>4 DEF OnTime
  <1>6. CASE e.callback # <<"tick">>
    <2>1. Ticks' = Ticks /\ DroppedTicks' = DroppedTicks
      BY <1>1, <1>2, <1>6 DEF Ticks, DroppedTicks
    <2> QED BY <2>1, <1>1, <1>3, <1>4, <1>5, QuietKeeps
  <1>7. CASE e.callback = <<"tick">>
    <2>1. e \in Ticks
      BY <1>7 DEF Ticks
    <2>2. Ticks = {e} /\ DroppedTicks = {}
      BY <2>1, <1>1 DEF OneTick
    <2>3. Ticks' = {}
      BY <2>2, <1>1 DEF Ticks
    <2>4. DroppedTicks' = {d}
      <3>1. \A l : l \in DroppedTicks' <=> l \in DroppedTicks \/ l = d
        BY <1>1, <1>2, <1>7 DEF DroppedTicks
      <3> QED BY <3>1, <2>2
    <2>5. /\ QueueType /\ LineInOrder /\ LeftInOrder /\ CapacityPerMinute
          /\ UNCHANGED <<waiting, completed, nextArrival, maximumDepth, tickScheduled, failed>>
      BY DEF Inv, queueVars
    <2>6. QueueType' /\ LineInOrder' /\ LeftInOrder' /\ CapacityPerMinute'
      BY <2>5 DEF QueueType, LineInOrder, LeftInOrder, Left, CompletedOrders, CapacityPerMinute
    <2>7. OneTick'
      BY <2>2, <2>3, <2>4, <2>5, <1>1 DEF OneTick
    <2>8. StartedBefore' /\ PromiseAhead' /\ WaitMatchesPosition'
      BY <2>3, <2>5, <1>1, <1>4 DEF StartedBefore, PromiseAhead, WaitMatchesPosition
    <2> QED BY <2>6, <2>7, <2>8, <1>3, <1>5 DEF Inv
  <1> QED BY <1>6, <1>7
-----------------------------------------------------------------------------
(***************************************************************************)
(* The actions.                                                            *)
(***************************************************************************)
LEMMA EnqueueKeeps ==
  ASSUME Inv, enqueue
  PROVE  Inv'
  <1>1. /\ SchedInv /\ QueueType /\ clock \in Nat /\ EnqueueAt(clock)
        /\ IF WakePushes(clock) = <<>>
           THEN UNCHANGED schedVars
           ELSE Sched!ScheduleAt(clock + 1, <<"tick">>)
    BY Schedule DEF Inv, enqueue
  <1>n. PICK none : none = {}
    OBVIOUS
  <1>2. CASE tickScheduled
    <2>1. UNCHANGED <<clock, queue, nextOrder, history, lost, jumped>>
      BY <1>1, <1>2 DEF WakePushes, schedVars
    <2>2. SchedInv'
      BY <2>1, <1>1 DEF SchedInv, Sched!TypeOK
    <2>3. DroppedTicks' = DroppedTicks
      BY <2>1 DEF DroppedTicks
    <2>4. \A g : g \in queue' <=> \/ g \in queue /\ g \notin none
                                  \/ ~tickScheduled /\ g = TickAt(clock + 1)
      BY <2>1, <1>2, <1>n
    <2>5. clock' = clock /\ clock <= clock /\ jumped' = jumped
      BY <2>1, <1>1
    <2>6. \A g \in none : g.callback # <<"tick">>
      BY <1>n
    <2> QED BY <2>2, <2>3, <2>4, <2>5, <2>6, <1>1, ArrivalKeeps
  <1>3. CASE ~tickScheduled
    <2>1. WakePushes(clock) # <<>>
      <3>1. WakePushes(clock) = <<[time |-> clock + 1, callback |-> <<"tick">>]>>
        BY <1>3 DEF WakePushes
      <3> QED BY <3>1
    <2>2. /\ Sched!ScheduleAt(clock + 1, <<"tick">>)
          /\ clock + 1 \in Nat /\ <<"tick">> \in Callback
      BY <2>1, <1>1 DEF Callback
    <2>3. /\ SchedInv' /\ UNCHANGED <<clock, jumped, lost>>
          /\ queue' = queue \cup {TickAt(clock + 1)}
      BY <2>2, <1>1, ScheduleAtEffect DEF TickAt
    <2>4. DroppedTicks' = DroppedTicks
      BY <2>3 DEF DroppedTicks
    <2>5. \A g : g \in queue' <=> \/ g \in queue /\ g \notin none
                                  \/ ~tickScheduled /\ g = TickAt(clock + 1)
      BY <2>3, <1>3, <1>n
    <2>6. clock' = clock /\ clock <= clock /\ jumped' = jumped
      BY <2>3, <1>1
    <2>7. \A g \in none : g.callback # <<"tick">>
      BY <1>n
    <2> QED BY <2>3, <2>4, <2>5, <2>6, <2>7, <1>1, ArrivalKeeps
  <1> QED BY <1>2, <1>3

LEMMA ArrivalRunsKeeps ==
  ASSUME Inv, NEW e \in queue, RunArrival(e)
  PROVE  Inv'
  <1>1. /\ SchedInv /\ e.time \in Nat /\ tickScheduled \in BOOLEAN
        /\ EnqueueAt(e.time) /\ Sched!RunEvent(e, WakePushes(e.time), TRUE)
        /\ e.callback = <<"arrive">>
    BY Schedule DEF Inv, RunArrival, QueueType
  <1>2. PICK again \in BOOLEAN : again = ~tickScheduled
    BY <1>1
  <1>3. WakePushes(e.time) = IF again THEN NextTick(e) ELSE <<>>
    BY <1>2 DEF WakePushes, NextTick
  <1>4. /\ SchedInv' /\ clock' = e.time /\ clock <= e.time /\ jumped' = jumped
        /\ DroppedTicks' = DroppedTicks
        /\ \A f \in queue : e.time <= f.time
        /\ \A g : g \in queue' <=> \/ g \in queue /\ g # e
                                   \/ again /\ g = TickAt(e.time + 1)
    BY <1>1, <1>3, RunEventEffect
  <1>5. \A g : g \in queue' <=> \/ g \in queue /\ g \notin {e}
                                \/ ~tickScheduled /\ g = TickAt(e.time + 1)
    BY <1>2, <1>4
  <1>6. \A g \in {e} : g.callback # <<"tick">>
    <2>1. e.callback # <<"tick">>
      BY <1>1
    <2> QED BY <2>1
  <1> QED BY <1>1, <1>4, <1>5, <1>6, ArrivalKeeps

LEMMA TickReturnsKeeps ==
  ASSUME Inv, NEW e \in queue, RunTick(e, <<>>)
  PROVE  Inv'
  <1> DEFINE left == SubSeq(waiting, Len(Batch) + 1, Len(waiting))
             pushes == <<>> \o IF left # <<>> THEN NextTick(e) ELSE <<>>
  <1>1. /\ SchedInv /\ QueueType /\ e.time \in Nat /\ e \in Ticks
        /\ completed' = completed \o [i \in DOMAIN Batch |-> Started(Batch[i], e.time)]
        /\ waiting' = left /\ tickScheduled' = (left # <<>>)
        /\ Sched!RunEvent(e, pushes, TRUE)
        /\ UNCHANGED <<nextArrival, maximumDepth, failed>>
    BY Schedule DEF Inv, RunTick, Ticks
  <1>2. PICK b \in Nat : /\ b <= Len(waiting) /\ b <= Capacity
                         /\ b < Len(waiting) => b = Capacity
                         /\ Len(Batch) = b /\ DOMAIN Batch = 1..b
                         /\ \A i \in 1..b : Batch[i] = waiting[i]
    BY <1>1, BatchIsFirst
  <1>3. PICK again \in BOOLEAN : again = (left # <<>>)
    OBVIOUS
  <1>4. pushes = IF again THEN NextTick(e) ELSE <<>>
    <2>1. CASE again
      <3>1. <<>> \o NextTick(e) = NextTick(e)
        BY DEF NextTick
      <3> QED BY <2>1, <3>1, <1>3
    <2>2. CASE ~again
      <3>1. <<>> \o <<>> = <<>>
        OBVIOUS
      <3> QED BY <2>2, <3>1, <1>3
    <2> QED BY <2>1, <2>2
  <1>5. waiting' = SubSeq(waiting, b + 1, Len(waiting)) /\ tickScheduled' = again
        /\ (again <=> waiting' # <<>>)
    BY <1>1, <1>2, <1>3
  <1> HIDE DEF left, pushes
  <1>6. TickTook(e.time, b, b)
    <2>1. [i \in DOMAIN Batch |-> Started(Batch[i], e.time)]
            = [i \in 1..b |-> Started(waiting[i], e.time)]
      BY <1>2
    <2>2. {waiting[i].arrival_order : i \in (b + 1)..b} = {}
      <3>1. (b + 1)..b = {}
        OBVIOUS
      <3> QED BY <3>1
    <2> QED BY <2>1, <2>2, <1>1, <1>5 DEF TickTook
  <1>7. /\ SchedInv' /\ clock' = e.time /\ clock <= e.time /\ jumped' = jumped
        /\ DroppedTicks' = DroppedTicks
        /\ \A f \in queue : e.time <= f.time
        /\ \A g : g \in queue' <=> \/ g \in queue /\ g # e
                                   \/ again /\ g = TickAt(e.time + 1)
    BY <1>1, <1>4, RunEventEffect
  <1>8. again => b = Capacity
    <2> SUFFICES ASSUME again PROVE b < Len(waiting)
      BY <1>2
    <2>1. PICK n, m \in Nat : TickShape(e.time, b, b, n, m)
      BY <1>1, <1>2, <1>5, <1>6, TickEffect
    <2>2. n = Len(waiting) /\ b # n
      BY <2>1, <1>5 DEF TickShape
    <2> QED BY <2>2, <1>2
  <1>9. b <= b
    OBVIOUS
  <1>10. again => waiting' # <<>> /\ b = Capacity
    BY <1>5, <1>8
  <1>11. waiting' # <<>> /\ ~again => failed' # {}
    BY <1>5
  <1> QED BY <1>1, <1>2, <1>5, <1>6, <1>7, <1>9, <1>10, <1>11, TickKeeps

LEMMA TickRaisesKeeps ==
  ASSUME Inv, NEW e \in queue, NEW k \in DOMAIN Batch, RunTickRaises(e, k, <<>>)
  PROVE  Inv'
  <1>1. /\ SchedInv /\ QueueType /\ e.time \in Nat /\ e \in Ticks
        /\ completed' = completed \o [i \in 1..(k - 1) |-> Started(Batch[i], e.time)]
        /\ waiting' = SubSeq(waiting, k + 1, Len(waiting))
        /\ failed' = failed \cup {Batch[k].arrival_order}
        /\ Sched!RunEvent(e, <<>>, FALSE) /\ tickScheduled' = FALSE
        /\ UNCHANGED <<nextArrival, maximumDepth>>
    BY Schedule DEF Inv, RunTickRaises, Ticks
  <1>2. PICK b \in Nat : /\ b <= Len(waiting) /\ b <= Capacity
                         /\ DOMAIN Batch = 1..b
                         /\ \A i \in 1..b : Batch[i] = waiting[i]
    BY <1>1, BatchIsFirst
  <1>n. PICK n \in Nat : n = Len(waiting)
    BY <1>1, Parts
  <1>3. /\ k \in 1..b /\ k \in Nat /\ k - 1 \in Nat /\ k - 1 <= k
        /\ k - 1 <= Capacity /\ k <= Len(waiting)
    BY <1>2, <1>n, QueueInputs
  <1>a. PICK again \in BOOLEAN : again = FALSE
    OBVIOUS
  <1>4. TickTook(e.time, k - 1, k)
    <2>1. [i \in 1..(k - 1) |-> Started(Batch[i], e.time)]
            = [i \in 1..(k - 1) |-> Started(waiting[i], e.time)]
      <3>1. \A i \in 1..(k - 1) : Batch[i] = waiting[i]
        BY <1>2, <1>3
      <3> QED BY <3>1
    <2>2. {waiting[i].arrival_order : i \in (k - 1 + 1)..k} = {Batch[k].arrival_order}
      <3>1. (k - 1 + 1)..k = {k}
        BY <1>3
      <3>2. Batch[k] = waiting[k]
        BY <1>2, <1>3
      <3> QED BY <3>1, <3>2
    <2> QED BY <2>1, <2>2, <1>1 DEF TickTook
  <1>5. /\ SchedInv' /\ clock' = e.time /\ clock <= e.time /\ jumped' = jumped
        /\ DroppedTicks' = DroppedTicks
        /\ \A f \in queue : e.time <= f.time
        /\ \A g : g \in queue' <=> \/ g \in queue /\ g # e
                                   \/ again /\ g = TickAt(e.time + 1)
    BY <1>1, <1>a, RunEventEffect
  <1>6. failed' # {}
    BY <1>1
  <1>7. tickScheduled' = again /\ ~again
    BY <1>1, <1>a
  <1> QED BY <1>1, <1>3, <1>4, <1>5, <1>6, <1>7, TickKeeps
-----------------------------------------------------------------------------
(***************************************************************************)
(* The theorems.                                                           *)
(***************************************************************************)
LEMMA Starts ==
  ASSUME Init
  PROVE  Inv
  <1>1. /\ waiting = <<>> /\ completed = <<>> /\ nextArrival = 0 /\ maximumDepth = 0
        /\ tickScheduled = FALSE /\ failed = {}
        /\ clock = 0 /\ queue = {} /\ nextOrder = 0 /\ history = <<>> /\ lost = {}
        /\ jumped = 0
    BY DEF Init, Sched!Init
  <1>2. SchedInv /\ QueueType
    <2>1. <<>> \in Seq(Sched!Execution) /\ <<>> \in Seq(QueuedPayment)
          /\ <<>> \in Seq(CompletedPayment)
      OBVIOUS
    <2> QED BY <1>1, <2>1 DEF SchedInv, Sched!TypeOK, QueueType
  <1>3. Ticks = {} /\ DroppedTicks = {}
    BY <1>1 DEF Ticks, DroppedTicks
  <1>4. DOMAIN waiting = {} /\ DOMAIN completed = {} /\ Len(waiting) = 0
    BY <1>1
  <1>5. LineInOrder /\ LeftInOrder
    <2>1. Left = 0 /\ 0..(Left - 1) = {}
      <3>1. Left = 0
        <4>1. PICK n \in Nat : n = Len(waiting) /\ n = 0
          BY <1>4
        <4>2. Left = nextArrival - n
          BY <4>1 DEF Left
        <4> QED BY <4>1, <4>2, <1>1
      <3>2. 0..(0 - 1) = {}
        OBVIOUS
      <3> QED BY <3>1, <3>2
    <2> QED BY <2>1, <1>1, <1>4 DEF LineInOrder, LeftInOrder, CompletedOrders
  <1>6. OneTick /\ StartedBefore /\ OnTime
    BY <1>1, <1>3, <1>4 DEF OneTick, StartedBefore, OnTime
  <1>7. CapacityPerMinute /\ PromiseAhead /\ WaitMatchesPosition
    BY <1>3, <1>4 DEF CapacityPerMinute, PromiseAhead, WaitMatchesPosition
  <1> QED BY <1>2, <1>5, <1>6, <1>7 DEF Inv

LEMMA StepKeeps ==
  ASSUME Inv, [Next]_vars
  PROVE  Inv'
  <1>1. CASE RunNext
    <2>1. PICK e \in queue :
            \/ RunArrival(e)
            \/ RunTick(e, <<>>)
            \/ \E k \in DOMAIN Batch : RunTickRaises(e, k, <<>>)
            \/ Sched!DropOverdue(e) /\ UNCHANGED queueVars
      BY <1>1 DEF RunNext
    <2> QED BY <2>1, ArrivalRunsKeeps, TickReturnsKeeps, TickRaisesKeeps, DropKeeps
  <1>2. CASE enqueue
    BY <1>2, EnqueueKeeps
  <1>3. CASE \E time \in 0..MaxArrivalTime : ScheduleArrival(time)
    BY <1>3, ArrivalScheduledKeeps
  <1>4. CASE \E time \in JumpTimes : Jump(time)
    BY <1>4, JumpKeeps
  <1>5. CASE UNCHANGED vars
    <2>1. /\ UNCHANGED <<clock, queue, nextOrder, history, lost, jumped>>
          /\ UNCHANGED queueVars
      BY <1>5 DEF vars, schedVars
    <2>2. SchedInv /\ OnTime /\ clock \in Nat
      BY Schedule DEF Inv
    <2>3. SchedInv'
      BY <2>1, <2>2 DEF SchedInv, Sched!TypeOK
    <2>4. Ticks' = Ticks /\ DroppedTicks' = DroppedTicks
      BY <2>1 DEF Ticks, DroppedTicks
    <2>5. OnTime'
      BY <2>1, <2>2, <2>4 DEF OnTime
    <2>6. clock <= clock'
      BY <2>1, <2>2
    <2> QED BY <2>1, <2>3, <2>4, <2>5, <2>6, QuietKeeps
  <1> QED BY <1>1, <1>2, <1>3, <1>4, <1>5 DEF Next

\* The invariant, for any capacity, any interleaving of arrivals and ticks, work
\* that raises and a clock that outside code moves (enqueue, wake, _process_tick).
THEOREM Invariant == Spec => []Inv
  <1>1. Init => Inv
    BY Starts
  <1>2. Inv /\ [Next]_vars => Inv'
    BY StepKeeps
  <1> QED BY <1>1, <1>2, PTL DEF Spec

\* The variables keep their types (PaymentQueue, QueueWorker, EventScheduler).
THEOREM TypeCorrect == Spec => []TypeOK
  <1>1. Inv => TypeOK
    BY DEF Inv, SchedInv, QueueType, TypeOK
  <1> QED BY <1>1, Invariant, PTL

\* No accepted payment disappears or is overtaken: it waits, has completed or its
\* work raised, and payments leave in arrival order (enqueue, _process_tick).
THEOREM NoneLostOrOvertaken == Spec => []EveryPaymentInItsPlace
  <1>1. Inv => EveryPaymentInItsPlace
    <2> SUFFICES ASSUME Inv PROVE EveryPaymentInItsPlace
      OBVIOUS
    <2>1. QueueType /\ LineInOrder /\ LeftInOrder
      BY DEF Inv
    <2>2. PICK n, m, left \in Nat :
            /\ n = Len(waiting) /\ DOMAIN waiting = 1..n
            /\ m = Len(completed) /\ DOMAIN completed = 1..m
            /\ left = Left /\ left + n = nextArrival
      <3>1. PICK n, m \in Nat : n = Len(waiting) /\ m = Len(completed)
        BY <2>1, Parts
      <3>2. nextArrival \in Nat /\ Left = nextArrival - n
        BY <2>1, <3>1 DEF QueueType, Left
      <3>3. Left \in Nat
        BY <2>1 DEF LineInOrder
      <3>4. DOMAIN waiting = 1..n /\ DOMAIN completed = 1..m
        BY <2>1, <3>1, Parts
      <3>5. PICK left \in Nat : left = Left
        BY <3>3
      <3>6. left + n = nextArrival
        BY <3>2, <3>5
      <3> QED BY <3>1, <3>4, <3>5, <3>6
    <2>3. /\ \A i \in 1..n : waiting[i].arrival_order = left + i - 1
          /\ \A i, j \in 1..m : i < j => completed[i].arrival_order < completed[j].arrival_order
          /\ CompletedOrders \cup failed = 0..(left - 1)
          /\ CompletedOrders \cap failed = {}
      BY <2>1, <2>2 DEF LineInOrder, LeftInOrder
    <2>4. \A i \in 1..m : /\ completed[i].arrival_order \in Nat
                          /\ completed[i].arrival_order < left
      <3> SUFFICES ASSUME NEW i \in 1..m
                   PROVE  /\ completed[i].arrival_order \in Nat
                          /\ completed[i].arrival_order < left
        OBVIOUS
      <3>1. completed[i].arrival_order \in CompletedOrders
        BY <2>2 DEF CompletedOrders
      <3> QED BY <2>3, <3>1
    <2>5. WaitingOrders = left..(left + n - 1)
      <3>1. ASSUME NEW x \in WaitingOrders PROVE x \in left..(left + n - 1)
        BY <2>2, <2>3 DEF WaitingOrders
      <3>2. ASSUME NEW x \in left..(left + n - 1) PROVE x \in WaitingOrders
        <4>1. x - left + 1 \in 1..n
          OBVIOUS
        <4>2. waiting[x - left + 1].arrival_order = left + (x - left + 1) - 1
          BY <4>1, <2>3
        <4>3. left + (x - left + 1) - 1 = x
          OBVIOUS
        <4> QED BY <4>1, <4>2, <4>3, <2>2 DEF WaitingOrders
      <3> QED BY <3>1, <3>2
    <2>6. WaitingOrders \cup CompletedOrders \cup failed = 0..(nextArrival - 1)
      <3>1. \A x : x \in 0..(left + n - 1) <=> x \in 0..(left - 1) \/ x \in left..(left + n - 1)
        OBVIOUS
      <3> QED BY <3>1, <2>2, <2>3, <2>5
    <2>7. (WaitingOrders \cup CompletedOrders) \cap failed = {}
      <3>1. \A x : ~(x \in 0..(left - 1) /\ x \in left..(left + n - 1))
        OBVIOUS
      <3> QED BY <3>1, <2>3, <2>5
    <2> DEFINE line == [i \in 1..(m + n) |-> IF i <= m THEN completed[i].arrival_order
                                             ELSE waiting[i - m].arrival_order]
    <2>8. ASSUME NEW i \in 1..(m + n), NEW j \in 1..(m + n), i < j
          PROVE  line[i] < line[j]
      <3>1. CASE j <= m
        BY <3>1, <2>3, <2>8
      <3>2. CASE ~(j <= m) /\ i <= m
        <4>1. line[i] = completed[i].arrival_order /\ i \in 1..m
          BY <3>2
        <4>2. line[j] = left + (j - m) - 1
          BY <3>2, <2>3
        <4> QED BY <3>2, <4>1, <4>2, <2>4
      <3>3. CASE ~(j <= m) /\ ~(i <= m)
        <4>1. line[i] = left + (i - m) - 1 /\ line[j] = left + (j - m) - 1
          BY <3>3, <2>3
        <4> QED BY <4>1, <2>8
      <3> QED BY <3>1, <3>2, <3>3
    <2>9. DOMAIN line = 1..(m + n)
      OBVIOUS
    <2>10. line = [i \in 1..(Len(completed) + Len(waiting)) |->
                     IF i <= Len(completed)
                     THEN completed[i].arrival_order
                     ELSE waiting[i - Len(completed)].arrival_order]
      BY <2>2
    <2> HIDE DEF line
    <2>11. \A i, j \in DOMAIN line : i < j => line[i] < line[j]
      BY <2>8, <2>9
    <2> QED BY <2>6, <2>7, <2>10, <2>11 DEF EveryPaymentInItsPlace
  <1> QED BY <1>1, Invariant, PTL

\* The worker never completes more than its capacity in one minute
\* (_process_tick, wake).
THEOREM CapacityKept == Spec => []CapacityPerMinute
  <1>1. Inv => CapacityPerMinute
    BY DEF Inv
  <1> QED BY <1>1, Invariant, PTL

\* The worker's flag says where its next tick is (wake, _process_tick and the
\* scheduler that drops an overdue event).
THEOREM FlagTellsTick == Spec => []FlagFollowsTick
  <1>1. Inv => FlagFollowsTick
    <2> SUFFICES ASSUME OneTick PROVE FlagFollowsTick
      BY DEF Inv
    <2>1. Cardinality(Ticks) + Cardinality(DroppedTicks) <= 1
      <3>1. IsFiniteSet(Ticks) /\ Cardinality(Ticks) <= 1
        BY NoTwo DEF OneTick
      <3>2. IsFiniteSet(DroppedTicks) /\ Cardinality(DroppedTicks) <= 1
        BY NoTwo DEF OneTick
      <3>3. Cardinality(Ticks) \in Nat /\ Cardinality(DroppedTicks) \in Nat
        BY <3>1, <3>2, FS_CardinalityType
      <3>4. Cardinality(Ticks) = 0 \/ Cardinality(DroppedTicks) = 0
        BY FS_EmptySet DEF OneTick
      <3> QED BY <3>1, <3>2, <3>3, <3>4
    <2>2. Ticks \cup {l.event : l \in DroppedTicks} # {}
            <=> Ticks # {} \/ DroppedTicks # {}
      OBVIOUS
    <2> QED BY <2>1, <2>2 DEF OneTick, FlagFollowsTick
  <1> QED BY <1>1, Invariant, PTL

\* A payment's wait is what its position promised, while no work has raised and
\* the clock was not moved by hand (enqueue, _process_tick).
THEOREM WaitAsPromised == Spec => []WaitMatchesPosition
  <1>1. Inv => WaitMatchesPosition
    BY DEF Inv
  <1> QED BY <1>1, Invariant, PTL
=============================================================================
