---------------------------- MODULE PaymentQueue ----------------------------
(***************************************************************************)
(* The FIFO payment queue and its worker (bank_sim/payment_queues.py) on   *)
(* the event scheduler.                                                    *)
(*                                                                         *)
(* Payments arrive by direct calls of enqueue and by scheduled arrivals.   *)
(* One tick is one callback: it starts up to capacity payments in order    *)
(* and runs their work, which may raise.  A payment is known by its        *)
(* arrival order; identifiers, types and the list of display events are    *)
(* left out.                                                               *)
(***************************************************************************)
EXTENDS Integers, Sequences, FiniteSets, FiniteSetsExt

CONSTANTS Capacity,         \* QueueWorker.capacity
          WorkRaises,       \* whether a payment's work may raise
          OtherCallbacks,   \* callbacks that code around the queue schedules
          JumpTimes,        \* times that code outside moves the clock to
          JumpWhileQueued,  \* whether it does so while events are queued
          MaxPayments,      \* bound: payments that ever arrive
          MaxArrivalTime,   \* bound: the latest scheduled arrival
          MaxTime, MaxEvents  \* the scheduler's bounds, never reached

ASSUME QueueInputs == /\ Capacity \in Nat \ {0}
                      /\ WorkRaises \in BOOLEAN
                      /\ JumpTimes \subseteq Nat
                      /\ JumpWhileQueued \in BOOLEAN
                      /\ MaxPayments \in Nat /\ MaxArrivalTime \in Nat
                      /\ MaxTime \in Nat /\ MaxEvents \in Nat

VARIABLES clock, queue, nextOrder, history, lost, jumped,  \* the scheduler
          waiting,        \* PaymentQueue._waiting
          completed,      \* PaymentQueue._completed
          nextArrival,    \* PaymentQueue._next_order
          maximumDepth,   \* PaymentQueue._maximum_depth
          tickScheduled,  \* QueueWorker._tick_scheduled
          failed          \* auxiliary: payments whose work raised

schedVars == <<clock, queue, nextOrder, history, lost, jumped>>
queueVars == <<waiting, completed, nextArrival, maximumDepth, tickScheduled,
               failed>>
vars == <<schedVars, queueVars>>

Callback == {<<"tick">>, <<"arrive">>} \cup OtherCallbacks

Sched == INSTANCE EventScheduler WITH Callbacks <- Callback, MaxPush <- 1

QueuedPayment == [arrival_order : Nat, queued_at : Nat,
                  queue_position : Nat \ {0}]
CompletedPayment == [arrival_order : Nat, queued_at : Nat,
                     queue_position : Nat \ {0}, processing_started_at : Nat]

Init == /\ Sched!Init /\ clock = 0
        /\ waiting = <<>>
        /\ completed = <<>>
        /\ nextArrival = 0
        /\ maximumDepth = 0
        /\ tickScheduled = FALSE
        /\ failed = {}
-----------------------------------------------------------------------------
(***************************************************************************)
(* enqueue and wake.                                                       *)
(***************************************************************************)
\* Seeded bug: every arrival schedules a tick of its own.
WakePushesAlways(now) == <<[time |-> now + 1, callback |-> <<"tick">>]>>

\* What wake schedules at time now: the next tick, unless one is scheduled.
WakePushes(now) == IF tickScheduled
                   THEN <<>>
                   ELSE <<[time |-> now + 1, callback |-> <<"tick">>]>>

\* enqueue's own state at time now, wake included.
EnqueueAt(now) ==
  /\ waiting' = Append(waiting, [arrival_order |-> nextArrival,
                                 queued_at |-> now,
                                 queue_position |-> Len(waiting) + 1])
  /\ nextArrival' = nextArrival + 1
  /\ maximumDepth' = Max({maximumDepth, Len(waiting) + 1})
  /\ tickScheduled' = TRUE
  /\ UNCHANGED <<completed, failed>>

Arrivals == Cardinality({e \in queue : e.callback = <<"arrive">>})
MayArrive == nextArrival + Arrivals < MaxPayments

\* enqueue called between two events.
enqueue ==
  /\ MayArrive
  /\ EnqueueAt(clock)
  /\ IF WakePushes(clock) = <<>>
     THEN UNCHANGED schedVars
     ELSE Sched!ScheduleAt(clock + 1, <<"tick">>)

\* An arrival is scheduled, as run_capacity_scenario does.
ScheduleArrival(time) ==
  /\ MayArrive
  /\ Sched!ScheduleAt(time, <<"arrive">>)
  /\ UNCHANGED queueVars

\* run_next runs a scheduled arrival.
RunArrival(e) ==
  /\ e.callback = <<"arrive">>
  /\ Sched!RunEvent(e, WakePushes(e.time), TRUE)
  /\ EnqueueAt(e.time)
-----------------------------------------------------------------------------
(***************************************************************************)
(* The worker's tick.                                                      *)
(***************************************************************************)
\* Seeded bug: a tick takes one payment less than its capacity.
BatchUnderCapacity ==
  SubSeq(waiting, 1, Min({Max({1, Capacity - 1}), Len(waiting)}))

\* The payments that a tick takes unless one of them raises.
Batch == SubSeq(waiting, 1, Min({Capacity, Len(waiting)}))

Started(item, now) ==
  [arrival_order |-> item.arrival_order, queued_at |-> item.queued_at,
   queue_position |-> item.queue_position, processing_started_at |-> now]

\* The ticks below run e; workPushes is what the payments' work schedules itself
\* before the worker schedules its next tick.

\* Seeded bug: the next tick waits for the next arrival.
RunTickNoWake(e, workPushes) ==
  /\ e.callback = <<"tick">>
  /\ Sched!RunEvent(e, workPushes, TRUE)
  /\ completed' = completed \o [i \in DOMAIN Batch |-> Started(Batch[i], e.time)]
  /\ waiting' = SubSeq(waiting, Len(Batch) + 1, Len(waiting))
  /\ tickScheduled' = FALSE
  /\ UNCHANGED <<nextArrival, maximumDepth, failed>>

NextTick(e) == <<[time |-> e.time + 1, callback |-> <<"tick">>]>>

\* Seeded bug: the worker keeps ticking after the waiting line has emptied.
RunTickAlwaysWakes(e, workPushes) ==
  /\ e.callback = <<"tick">>
  /\ Sched!RunEvent(e, workPushes \o NextTick(e), TRUE)
  /\ completed' = completed \o [i \in DOMAIN Batch |-> Started(Batch[i], e.time)]
  /\ waiting' = SubSeq(waiting, Len(Batch) + 1, Len(waiting))
  /\ tickScheduled' = (waiting' # <<>>)
  /\ UNCHANGED <<nextArrival, maximumDepth, failed>>

\* _process_tick when all the work it starts returns.
RunTick(e, workPushes) ==
  LET left == SubSeq(waiting, Len(Batch) + 1, Len(waiting)) IN
  /\ e.callback = <<"tick">>
  /\ completed' = completed \o [i \in DOMAIN Batch |-> Started(Batch[i], e.time)]
  /\ waiting' = left
  /\ tickScheduled' = (left # <<>>)
  /\ Sched!RunEvent(e, workPushes \o IF left # <<>> THEN NextTick(e) ELSE <<>>,
                    TRUE)
  /\ UNCHANGED <<nextArrival, maximumDepth, failed>>

\* Seeded bug: the payment whose work raised stays at the front.
RunTickRaisesKeeps(e, k, workPushes) ==
  /\ e.callback = <<"tick">>
  /\ WorkRaises
  /\ completed' = completed \o [i \in 1..(k - 1) |-> Started(Batch[i], e.time)]
  /\ waiting' = SubSeq(waiting, k, Len(waiting))
  /\ failed' = failed \cup {Batch[k].arrival_order}
  /\ Sched!RunEvent(e, workPushes, FALSE)
  /\ tickScheduled' = FALSE
  /\ UNCHANGED <<nextArrival, maximumDepth>>

\* _process_tick when the work of the k-th payment raises: that payment has left
\* the waiting line, the rest of the loop is skipped and wake is not called.
RunTickRaises(e, k, workPushes) ==
  /\ e.callback = <<"tick">>
  /\ WorkRaises
  /\ completed' = completed \o [i \in 1..(k - 1) |-> Started(Batch[i], e.time)]
  /\ waiting' = SubSeq(waiting, k + 1, Len(waiting))
  /\ failed' = failed \cup {Batch[k].arrival_order}
  /\ Sched!RunEvent(e, workPushes, FALSE)
  /\ tickScheduled' = FALSE
  /\ UNCHANGED <<nextArrival, maximumDepth>>
-----------------------------------------------------------------------------
RunNext ==
  \E e \in queue :
    \/ RunArrival(e)
    \/ RunTick(e, <<>>)
    \/ \E k \in DOMAIN Batch : RunTickRaises(e, k, <<>>)
    \/ Sched!DropOverdue(e) /\ UNCHANGED queueVars

\* The owner of the clock moves it.
Jump(time) == /\ JumpWhileQueued \/ queue = {}
              /\ Sched!AdvanceTo(time)
              /\ UNCHANGED queueVars

Next == \/ RunNext
        \/ enqueue
        \/ \E time \in 0..MaxArrivalTime : ScheduleArrival(time)
        \/ \E time \in JumpTimes : Jump(time)

Spec == Init /\ [][Next]_vars

\* EventScheduler.run keeps calling run_next while an event is queued.
FairSpec == Spec /\ WF_vars(RunNext)
-----------------------------------------------------------------------------
(***************************************************************************)
(* Properties.                                                             *)
(***************************************************************************)
\* The type invariant of the queue, its worker and its scheduler.
TypeOK == /\ Sched!TypeOK
          /\ waiting \in Seq(QueuedPayment)
          /\ completed \in Seq(CompletedPayment)
          /\ nextArrival \in Nat
          /\ maximumDepth \in Nat
          /\ tickScheduled \in BOOLEAN
          /\ failed \subseteq Nat

WaitingOrders == {waiting[i].arrival_order : i \in DOMAIN waiting}
CompletedOrders == {completed[i].arrival_order : i \in DOMAIN completed}

\* No accepted payment disappears or is overtaken: each waits, has completed, or
\* its work raised, and only one of these; and the completed payments followed by
\* the waiting ones are in arrival order, for any interleaving of arrivals with
\* ticks, same-minute arrivals and ticks that raise half-way.
EveryPaymentInItsPlace ==
  LET line == [i \in 1..(Len(completed) + Len(waiting)) |->
                 IF i <= Len(completed)
                 THEN completed[i].arrival_order
                 ELSE waiting[i - Len(completed)].arrival_order]
  IN  /\ \A i, j \in DOMAIN line : i < j => line[i] < line[j]
      /\ WaitingOrders \cup CompletedOrders \cup failed = 0..(nextArrival - 1)
      /\ (WaitingOrders \cup CompletedOrders) \cap failed = {}

\* The worker never completes more than its capacity in one minute, even when a
\* payment arrives in the minute of a tick that has already run or raised.
CapacityPerMinute ==
  \A i \in DOMAIN completed :
    Cardinality({j \in DOMAIN completed : completed[j].processing_started_at
                   = completed[i].processing_started_at}) <= Capacity

Ticks == {e \in queue : e.callback = <<"tick">>}
DroppedTicks == {l \in lost : l.cause = "overdue" /\ l.event.callback = <<"tick">>}

\* The worker's flag says where its next tick is: at most one tick is queued, the
\* flag is set exactly while one is queued or after the only one was dropped as
\* overdue, and payments wait with the flag clear only after some work has raised
\* (wake, the reset at the start of a tick and the raise that skips its end).
FlagFollowsTick ==
  /\ Cardinality(Ticks) + Cardinality(DroppedTicks) <= 1
  /\ tickScheduled <=> Ticks \cup {l.event : l \in DroppedTicks} # {}
  /\ waiting # <<>> /\ ~tickScheduled => failed # {}
  /\ tickScheduled => waiting # <<>>

\* A payment's wait is what its position promised: with p payments up to and
\* including it, it starts at the p-th capacity-sized tick, and the first tick
\* comes in the arrival minute or the next; as long as no work has raised and the
\* clock was not moved by hand.
WaitMatchesPosition ==
  failed = {} /\ jumped = 0 =>
    \A i \in DOMAIN completed :
      LET item == completed[i]
          ticks == (item.queue_position + Capacity - 1) \div Capacity
      IN item.processing_started_at - item.queued_at \in {ticks - 1, ticks}

\* Every payment that waits is completed, unless some work raises or a tick is
\* dropped as overdue (run keeps the worker ticking).
EveryPaymentCompletes ==
  \A o \in 0..(MaxPayments - 1) :
    o \in WaitingOrders ~> \/ o \in CompletedOrders
                           \/ failed # {}
                           \/ DroppedTicks # {}
=============================================================================
