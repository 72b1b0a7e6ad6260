----------------------------- MODULE WorkerPool -----------------------------
(***************************************************************************)
(* The worker pool (bank_sim/worker_capacity.py) on the event scheduler.   *)
(*                                                                         *)
(* Payments arrive by direct calls of enqueue and by scheduled arrivals;   *)
(* idle workers take them at once, the lowest-numbered first, and each     *)
(* assignment schedules its completion.  The work of a payment is that of  *)
(* run_worker_capacity: it posts an entry under the payment's identifier,  *)
(* which the ledger refuses when the identifier is already posted.  The    *)
(* clock and the ledger's length give the entry its time and sequence, so  *)
(* nothing else is ever refused.  Display events are left out.             *)
(***************************************************************************)
EXTENDS Integers, Sequences, FiniteSets, FiniteSetsExt, Functions

CONSTANTS WorkerCounts,     \* the values of CapacityConfiguration.worker_count
          ProcessingTime,   \* CapacityConfiguration.processing_time
          Workloads,        \* WORKLOAD: the identifiers of the payments that
                            \* come, in the order in which they are submitted
          JumpTimes,        \* times that code outside moves the clock to
          MaxArrivalTime,   \* bound: the latest scheduled arrival
          MaxTime, MaxEvents  \* the scheduler's bounds, never reached

ASSUME PoolInputs == /\ WorkerCounts \subseteq Nat \ {0}
                     /\ ProcessingTime \in Nat \ {0}
                     /\ JumpTimes \subseteq Nat
                     /\ MaxArrivalTime \in Nat
                     /\ MaxTime \in Nat /\ MaxEvents \in Nat

VARIABLES clock, queue, nextOrder, history, lost, jumped,  \* the scheduler
          workload,         \* the workload of this run
          workers,          \* WorkerPool.workers, by their numbers
          current,          \* PaymentWorker.current_payment of the busy workers
          busyTime,         \* PaymentWorker.total_busy_time
          waiting,          \* WorkerPool._waiting
          completed,        \* WorkerPool._completed
          nextArrival,      \* WorkerPool._arrival_order
          depthArea,        \* WorkerPool._depth_area
          depthChanged,     \* WorkerPool._depth_last_changed
          posted            \* the identifiers on the ledger, in order

schedVars == <<clock, queue, nextOrder, history, lost, jumped>>
poolVars == <<workload, workers, current, busyTime, waiting, completed,
              nextArrival, depthArea, depthChanged, posted>>
vars == <<schedVars, poolVars>>

PaymentIds == UNION {Range(load) : load \in Workloads}

ASSUME WorkloadsAreLists == Workloads \subseteq Seq(PaymentIds)

Callback == {<<"arrive", id>> : id \in PaymentIds}
              \cup {<<"complete", w>> : w \in UNION {1..n : n \in WorkerCounts}}

Sched == INSTANCE EventScheduler WITH Callbacks <- Callback, MaxPush <- 1

Init == /\ Sched!Init /\ clock = 0
        /\ workload \in Workloads
        /\ \E n \in WorkerCounts : workers = 1..n
        /\ current = <<>>
        /\ busyTime = [w \in workers |-> 0]
        /\ waiting = <<>> /\ completed = <<>>
        /\ nextArrival = 0
        /\ depthArea = 0 /\ depthChanged = clock
        /\ posted = <<>>
-----------------------------------------------------------------------------
(***************************************************************************)
(* _dispatch: line is the waiting line, serving what the busy workers do.  *)
(***************************************************************************)
\* The place of an idle worker among the idle ones, the lowest number first.
Rank(w, serving) == Cardinality({v \in workers \ DOMAIN serving : v <= w})

\* The workers that take a payment.
Takers(line, serving) ==
  {w \in workers \ DOMAIN serving : Rank(w, serving) <= Len(line)}

Serving(line, serving, now) ==
  [w \in DOMAIN serving \cup Takers(line, serving) |->
     IF w \in DOMAIN serving
     THEN serving[w]
     ELSE [arrival_order |-> line[Rank(w, serving)].arrival_order,
           payment_id |-> line[Rank(w, serving)].payment_id,
           queued_at |-> line[Rank(w, serving)].queued_at,
           processing_started_at |-> now]]

\* Seeded bug: the completion is due one minute early for every second worker.
CompletionsUneven(line, serving, now) ==
  [i \in 1..Cardinality(Takers(line, serving)) |->
     LET w == CHOOSE v \in Takers(line, serving) : Rank(v, serving) = i
     IN  [time |-> now + ProcessingTime - ((w - 1) % 2),
          callback |-> <<"complete", w>>]]

\* The completions that _dispatch schedules, in the order of the workers.
Completions(line, serving, now) ==
  [i \in 1..Cardinality(Takers(line, serving)) |->
     [time |-> now + ProcessingTime,
      callback |-> <<"complete",
                     CHOOSE v \in Takers(line, serving) : Rank(v, serving) = i>>]]

\* _dispatch without its scheduling.
Dispatch(line, serving, now) ==
  /\ current' = Serving(line, serving, now)
  /\ waiting' = SubSeq(line, Cardinality(Takers(line, serving)) + 1, Len(line))

\* Seeded bug: the depth is recorded after the queue has changed.
RecordDepthLate(now) ==
  /\ depthArea' = depthArea + Len(waiting') * (now - depthChanged)
  /\ depthChanged' = now

\* _record_depth_until_now, for the line as it was before this step; another
\* call of it in the same step adds nothing.
RecordDepth(now) ==
  /\ depthArea' = depthArea + Len(waiting) * (now - depthChanged)
  /\ depthChanged' = now
-----------------------------------------------------------------------------
(***************************************************************************)
(* enqueue.                                                                *)
(***************************************************************************)
Arrived(id, now) == Append(waiting, [arrival_order |-> nextArrival,
                                     payment_id |-> id, queued_at |-> now])

EnqueueAt(id, now) ==
  /\ Dispatch(Arrived(id, now), current, now)
  /\ RecordDepth(now)
  /\ nextArrival' = nextArrival + 1
  /\ UNCHANGED <<workload, workers, busyTime, completed, posted>>

\* How many payments have been submitted: enqueued, or their arrival scheduled.
Submitted ==
  nextArrival + Cardinality({e \in queue \cup {l.event : l \in lost} :
                               e.callback[1] = "arrive"})
MayArrive == Submitted < Len(workload)
NextId == workload[Submitted + 1]

\* enqueue called between two events.
enqueue ==
  LET due == Completions(Arrived(NextId, clock), current, clock) IN
  /\ MayArrive
  /\ EnqueueAt(NextId, clock)
  /\ IF due = <<>>
     THEN UNCHANGED schedVars
     ELSE Sched!ScheduleAt(due[1].time, due[1].callback)

\* An arrival is scheduled, as run_worker_capacity does.
ScheduleArrival(time) ==
  /\ MayArrive
  /\ Sched!ScheduleAt(time, <<"arrive", NextId>>)
  /\ UNCHANGED poolVars

\* run_next runs a scheduled arrival.
RunArrival(e) ==
  /\ e.callback[1] = "arrive"
  /\ Sched!RunEvent(e, Completions(Arrived(e.callback[2], e.time), current, e.time),
                    TRUE)
  /\ EnqueueAt(e.callback[2], e.time)
-----------------------------------------------------------------------------
(***************************************************************************)
(* _complete.                                                              *)
(***************************************************************************)
Finished(w, now) ==
  [arrival_order |-> current[w].arrival_order,
   payment_id |-> current[w].payment_id,
   queued_at |-> current[w].queued_at,
   processing_started_at |-> current[w].processing_started_at,
   completed_at |-> now]

\* The work of a payment posts its entry, or raises.
WorkReturns(w) == w \in DOMAIN current /\ current[w].payment_id \notin Range(posted)

\* What the other workers do when w has finished.
Others(w) == [v \in DOMAIN current \ {w} |-> current[v]]

\* Seeded bug: the worker is not dispatched to again.
RunCompleteNoDispatch(e) ==
  LET w == e.callback[2] IN
  /\ e.callback[1] = "complete"
  /\ WorkReturns(w)
  /\ posted' = Append(posted, current[w].payment_id)
  /\ completed' = Append(completed, Finished(w, e.time))
  /\ busyTime' = [busyTime EXCEPT ![w] = @ + ProcessingTime]
  /\ current' = Others(w)
  /\ Sched!RunEvent(e, <<>>, TRUE)
  /\ UNCHANGED <<workload, workers, waiting, nextArrival, depthArea, depthChanged>>

\* Seeded bug: the last payment in line is taken first.
RunCompleteNewest(e) ==
  LET w == e.callback[2]
      line == [i \in DOMAIN waiting |-> waiting[Len(waiting) + 1 - i]] IN
  /\ e.callback[1] = "complete"
  /\ WorkReturns(w)
  /\ posted' = Append(posted, current[w].payment_id)
  /\ completed' = Append(completed, Finished(w, e.time))
  /\ busyTime' = [busyTime EXCEPT ![w] = @ + ProcessingTime]
  /\ Dispatch(line, Others(w), e.time)
  /\ Sched!RunEvent(e, Completions(line, Others(w), e.time), TRUE)
  /\ IF waiting = <<>> THEN UNCHANGED <<depthArea, depthChanged>>
                       ELSE RecordDepth(e.time)
  /\ UNCHANGED <<workload, workers, nextArrival>>

\* _complete when the work returns; the depth is recorded by an assignment only.
RunComplete(e) ==
  LET w == e.callback[2] IN
  /\ e.callback[1] = "complete"
  /\ WorkReturns(w)
  /\ posted' = Append(posted, current[w].payment_id)
  /\ completed' = Append(completed, Finished(w, e.time))
  /\ busyTime' = [busyTime EXCEPT ![w] = @ + ProcessingTime]
  /\ Dispatch(waiting, Others(w), e.time)
  /\ Sched!RunEvent(e, Completions(waiting, Others(w), e.time), TRUE)
  /\ IF waiting = <<>> THEN UNCHANGED <<depthArea, depthChanged>>
                       ELSE RecordDepth(e.time)
  /\ UNCHANGED <<workload, workers, nextArrival>>

\* Seeded bug: a worker whose work raises is idle again, its payment forgotten.
RunCompleteRaisesFrees(e) ==
  /\ e.callback[1] = "complete"
  /\ ~WorkReturns(e.callback[2])
  /\ current' = Others(e.callback[2])
  /\ Sched!RunEvent(e, <<>>, FALSE)
  /\ UNCHANGED <<workload, workers, busyTime, waiting, completed, nextArrival, depthArea,
                 depthChanged, posted>>

\* _complete when the work raises: the worker keeps its payment and nothing is
\* dispatched.
RunCompleteRaises(e) ==
  /\ e.callback[1] = "complete"
  /\ ~WorkReturns(e.callback[2])
  /\ Sched!RunEvent(e, <<>>, FALSE)
  /\ UNCHANGED poolVars
-----------------------------------------------------------------------------
RunNext ==
  \E e \in queue :
    \/ RunArrival(e)
    \/ RunComplete(e)
    \/ RunCompleteRaises(e)
    \/ Sched!DropOverdue(e) /\ UNCHANGED poolVars

\* The owner of the clock moves it.
Jump(time) == /\ Sched!AdvanceTo(time)
              /\ UNCHANGED poolVars

Next == \/ RunNext
        \/ enqueue
        \/ \E time \in 0..MaxArrivalTime : ScheduleArrival(time)
        \/ \E time \in JumpTimes : Jump(time)

Spec == Init /\ [][Next]_vars

\* EventScheduler.run keeps calling run_next while an event is queued.
FairSpec == Spec /\ WF_vars(RunNext)
-----------------------------------------------------------------------------
(***************************************************************************)
(* Properties.                                                             *)
(***************************************************************************)
Due(w) == {e \in queue : e.callback = <<"complete", w>>}

\* Workers whose completion has raised or was dropped as overdue.
Stuck == {w \in DOMAIN current : Due(w) = {}}

\* All payments that ever arrived; the code forgets none.
Payments == Range(completed) \cup Range(current) \cup Range(waiting)
Payment(order) == CHOOSE p \in Payments : p.arrival_order = order

\* The payments that are the first under their identifier.
FirstOfTheirId ==
  {p \in Payments : \A q \in Payments :
     q.payment_id = p.payment_id => q.arrival_order >= p.arrival_order}

\* Capacity decides when payments are completed and never what the ledger says:
\* every payment that arrived is in exactly one place, and the ledger holds, in
\* arrival order, a prefix of what it would hold had the payments been posted
\* one by one on arrival, for every number of workers, with arrivals and
\* completions in the same minute and workers stuck on the way (_dispatch's FIFO
\* choice and the uniform processing time).
LedgerFollowsArrivals ==
  /\ Len(completed) + Cardinality(DOMAIN current) + Len(waiting) = nextArrival
  /\ {p.arrival_order : p \in Payments} = 0..(nextArrival - 1)
  /\ posted = [i \in DOMAIN completed |-> completed[i].payment_id]
  /\ jumped = 0 =>
       /\ Range(completed) \subseteq FirstOfTheirId
       /\ \A i, j \in DOMAIN completed :
            i < j => completed[i].arrival_order < completed[j].arrival_order
       /\ \A i \in DOMAIN completed, p \in FirstOfTheirId \ Range(completed) :
            completed[i].arrival_order < p.arrival_order

\* A busy worker has one completion under way, never two and never another
\* worker's: it is queued, or it was the last to be lost, and then the worker
\* stays busy for ever; an idle worker has none, and none is idle while a
\* payment waits (_complete's "idle worker cannot complete a payment").
OneCompletionPerBusyWorker ==
  /\ \A w \in workers :
       LET gone == {l \in lost : l.event.callback = <<"complete", w>>}
       IN  /\ Cardinality(Due(w)) + Cardinality(gone)
                = (IF w \in DOMAIN current THEN 1 ELSE 0)
           /\ \A e \in Due(w) :
                e.time = current[w].processing_started_at + ProcessingTime
  /\ waiting # <<>> => DOMAIN current = workers

\* When a payment starts is what a FIFO line before n equal servers says: on its
\* arrival, or when the payment n places before it completes, whichever is later;
\* as long as no worker is stuck.
StartsAsInFifoPool ==
  Stuck = {} =>
    LET started == {p \in Payments : p \notin Range(waiting)}
        n == Cardinality(workers)
    IN  \A p \in started :
          p.processing_started_at =
            Max({p.queued_at} \cup
                {q.processing_started_at + ProcessingTime :
                   q \in {r \in started : r.arrival_order = p.arrival_order - n}})

Elapsed == Max({p.completed_at : p \in Range(completed)}) - Payment(0).queued_at

\* The metrics agree with what happened: the area under the queue depth is the
\* total time that payments have waited, the workers' busy times add up to the
\* completed work, and no worker was busy for longer than the run took, so that
\* no utilization exceeds 100 percent (metrics, worker_statistics).
MetricsAddUp ==
  /\ depthArea = SumFunction([p \in Payments |->
                                (IF p \in Range(waiting)
                                 THEN depthChanged
                                 ELSE p.processing_started_at) - p.queued_at])
  /\ SumFunction(busyTime) = ProcessingTime * Len(completed)
  /\ completed # <<>> => \A w \in workers : busyTime[w] <= Elapsed

InLine(order) == \E i \in DOMAIN waiting : waiting[i].arrival_order = order

\* Every payment that waits is taken by a worker, unless all workers are stuck:
\* one worker that is not keeps the line moving (_complete's dispatch).
EveryPaymentServed ==
  \A o \in 0..(Max({Len(load) : load \in Workloads}) - 1) :
    InLine(o) ~> (~InLine(o) \/ Stuck = workers)
=============================================================================
